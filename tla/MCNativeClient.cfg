SPECIFICATION Safety
CONSTANTS
  StreamCallers = {s1, s2}
  PacketCallers = {s1, s2}
  Closers = {}
  MaxCalls = 3
  Dials = {d1, d2}
  NoDial = nil
  MaxDeaths = 1
SYMMETRY Symmetry
CHECK_DEADLOCK FALSE
INVARIANTS ProbeExact OneConnection
PROPERTIES HealthSupersedes FlowsSurvive
