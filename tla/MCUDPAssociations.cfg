SPECIFICATION Safety
CONSTANTS
  c1 = c1
  c2 = c2
  Calls = {c1, c2}
  MaxID = 2
  Followed = {1}
  MaxClient = 2
  MaxSlots = 3
  MaxSource = 2
  MaxOthers = 1
CHECK_DEADLOCK FALSE
SYMMETRY Symmetric
INVARIANTS SessionsAgree NothingLeaks
