SPECIFICATION Spec
CONSTANTS
  StreamCallers = {s1}
  PacketCallers = {s1}
  Closers = {k1, k2}
  MaxCalls = 2
  Dials = {d1, d2}
  NoDial = nil
  MaxDeaths = 1
CHECK_DEADLOCK FALSE
INVARIANTS CloseBarrier
PROPERTIES CallsReturn
