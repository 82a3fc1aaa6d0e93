SPECIFICATION Spec
CONSTANTS
  Conns = {c1, c2}
  MaxConns = 2
  AskUDP = {c1}
  MaxData = 2
  Idle = 2
  Callers = {c1, c2}
  MaxOps = 2
  MaxChunks = 2
  MaxSets = 2
  Dispatchers = {d1, d2}
  MaxPending = 3
  MaxEvents = 8
  Listeners = {1, 2, 3}
  MaxTimerSets = 3
  Writers = {w1, w2}
  Burst = 4
  Rates = {1, 2}
  Allowance = 3
  MaxWait = 5
  MaxTime = 3
  MaxChanges = 2
  Parts = {"relay"}
CHECK_DEADLOCK FALSE
PROPERTIES StalledTargetReleases
