SPECIFICATION RunSpec
CONSTANTS
  TargetCount = 2
  Services = {1}
  Inspect = FALSE
  Watch = FALSE
  MaxEdits = 0
CHECK_DEADLOCK FALSE
PROPERTY GracefulExit
