\* A read of another device's file may fail; nobody goes away.
SPECIFICATION FairSpec
CONSTANTS
  laptop = laptop
  phone = phone
  Device = {laptop, phone}
  MaxDecisions <- TwoAndNone
  MaxPushes = 1
  Faults = {"read"}
  Leavers = {}
PROPERTY ReachesPeers
CHECK_DEADLOCK FALSE
