SPECIFICATION Spec
CONSTANTS
  Callers = {c1, c2}
  Targets = {t1, t2}
  MaxSends = 1
  MaxOpenings = 2
  MaxTargets = 2
  Slots = 2
  Queue = 1
  Wires <- TwoWires
  Leases = 1
CHECK_DEADLOCK FALSE
INVARIANTS SessionsOwned
PROPERTIES TargetFailuresStayLocal Settles
