SPECIFICATION Spec
CONSTANTS
  Callers = {c1, c2}
  MaxDials = 3
  Addresses = {1, 2}
  NoSession = NoSession
CHECK_DEADLOCK FALSE
INVARIANTS EveryConnectionOwned
PROPERTIES ImplementsPool Settles
