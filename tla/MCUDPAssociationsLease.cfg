SPECIFICATION Spec
CONSTANTS
  c1 = c1
  c2 = c2
  Calls = {c1, c2}
  MaxID = 2
  Followed = {}
  MaxClient = 1
  MaxSlots = 2
  MaxSource = 2
  MaxOthers = 1
CHECK_DEADLOCK FALSE
PROPERTIES AssociationsEnd
