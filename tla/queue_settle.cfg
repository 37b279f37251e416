SPECIFICATION Spec
CONSTANTS
  Workers = {v1, v2}
  Ids = {m1}
  Unreadable = {}
  Concurrency = 1
  Budget = 1
  HasOnDead = FALSE
  LapseRetryable = TRUE
  Ops = {"cancel", "requeue", "expire"}
  MaxClaimWait = 1
  Punctual = FALSE
  Prompt = FALSE
  MaxClaims = 2
  MaxFaults = 1
  MaxStops = 0
SYMMETRY WorkerSymmetry
PROPERTY CompletedByHolder
PROPERTY SettledIsFinal
PROPERTY CancelSticks
