\* Two devices that stay open; the laptop decides twice, so its pushes overlap
\* each other and its absorbs; every storage operation but the mark may fail.
SPECIFICATION Spec
CONSTANTS
  laptop = laptop
  phone = phone
  Device = {laptop, phone}
  MaxDecisions <- TwoAndOne
  MaxPushes = 2
  Faults = {"local", "write", "read"}
  Leavers = {}
INVARIANTS
  TypeOK
  WaitingNeverUnderstated
PROPERTIES
  FileOnlyGrows
CHECK_DEADLOCK FALSE
