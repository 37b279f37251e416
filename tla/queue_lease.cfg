SPECIFICATION Spec
CONSTANTS
  Workers = {v1, v2}
  Ids = {m1}
  Unreadable = {}
  Concurrency = 1
  Budget = 2
  HasOnDead = TRUE
  LapseRetryable = TRUE
  Ops = {}
  MaxClaimWait = 1
  Punctual = TRUE
  Prompt = FALSE
  MaxClaims = 3
  MaxFaults = 0
  MaxStops = 1
SYMMETRY WorkerSymmetry
INVARIANT LeaseCoversHandler
INVARIANT HandlerIsDue
