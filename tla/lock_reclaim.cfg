SPECIFICATION LockSpec
CONSTANTS
  Fleet = {{c1}, {c2}, {c3}}
  NoFile = NoFile
  MaxSilences = 0
  MaxCrashes = 1
CHECK_DEADLOCK FALSE
INVARIANT ReclaimedByOne
