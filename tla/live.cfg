SPECIFICATION LiveSpec
CONSTANTS
  Workers = {v1}
  Ids = {m1}
  Unreadable = {}
  Concurrency = 1
  Budget = 1
  HasOnDead = FALSE
  LapseRetryable = TRUE
  Ops = {"cancel"}
  MaxClaimWait = 1
  Punctual = TRUE
  Prompt = TRUE
  MaxClaims = 5
  MaxFaults = 1
  MaxStops = 1
  TargetCount = 2
  Services = {1}
  Inspect = FALSE
  Watch = TRUE
  MaxEdits = 3
CHECK_DEADLOCK FALSE
PROPERTY CancelEnds
PROPERTY EditReloads
PROPERTY EventuallySettled
PROPERTY TeardownEnds
