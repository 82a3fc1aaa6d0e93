SPECIFICATION Spec
CONSTANTS
  Targets = {a, b, c}
  Sizes = {0, 2, 3}
  MaxPacketsArg = 3
  MaxTargetsArg = 2
  TargetCeiling = 3
  QueueMaxBytes = 5
  SlowTargets = {a, b}
  MaxAccepted = 4
CHECK_DEADLOCK FALSE
INVARIANTS Bookkeeping NoWorkAfterWait
PROPERTIES TargetFIFO WorkGoesOn
