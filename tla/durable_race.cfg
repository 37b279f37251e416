SPECIFICATION Spec
CONSTANTS
  s1 = s1
  s2 = s2
  w1 = w1
  w2 = w2
  c1 = c1
  c2 = c2
  hA = hA
  hB = hB
  kA = kA
  kB = kB
  kC = kC
  None = None
  Gone = Gone
  Runs = {r1}
  Starters = {s1}
  Resumers = {w1}
  Clients = {c1}
  Hosts = {hA, hB}
  HostOf <- Apart2
  Holders = {kA, kB, kC}
  HolderOf <- Holders2
  N = 2
  Body <- EffectTimed
  Swallowers = {}
  OnConflict = "attach"
  Ops = {"deliver"}
  MaxFaults = 1
  MaxLapses = 1
INVARIANT TypeOK
INVARIANT ReplayAgreement
INVARIANT RecordedInOrder
INVARIANT ParkIsPinned
INVARIANT WaitsAreHonoured
INVARIANT JournalOnCompletion
INVARIANT ResultIsJournal
PROPERTY CompletedIsFinal
INVARIANT ClaimsProtect
