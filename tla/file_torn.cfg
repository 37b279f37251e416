SPECIFICATION FileSpec
CONSTANTS
  Branches = {b1, b2}
  Deliveries = {d1}
  Worker = w
  Unwritten = nobody
  MaxExits = 1
CHECK_DEADLOCK FALSE
INVARIANT FinishedSurvives
