SPECIFICATION WebSpec
CONSTANTS
  StreamCallers = {s1, s2}
  PacketCallers = {p1}
  MaxCalls = 3
  MaxReports = 1
  Callers = {c1, c2, c3}
  WordBits = 2
  MaxSequence = 7
  Requests = {r1, r2}
  Nonces = {n1, n2, n3}
  Offsets <- ClockOffsets
  Skew = 1
  MaxEntries = 2
  MaxTime = 3
CHECK_DEADLOCK FALSE
INVARIANTS SingleProbe NewestVerdict LiveTicketsAccepted
PROPERTIES NothingAfterClose ProbeReleased NumbersIssued ImplementsSingleUse NonceSingleUse
