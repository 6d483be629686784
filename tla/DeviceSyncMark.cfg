\* No failure and no restart: only the interleaving of pushes and absorbs.
SPECIFICATION Spec
CONSTANTS
  laptop = laptop
  phone = phone
  Device = {laptop, phone}
  MaxDecisions <- TwoAndOne
  MaxPushes = 1
  Faults = {}
  Leavers = {}
INVARIANT WaitingAlwaysCounted
CHECK_DEADLOCK FALSE
