\* One comment of the reader's own, written on one device and removed on another.
SPECIFICATION Spec
CONSTANTS
  Device = {d1, d2}
  Agents = {}
  Own = {2}
  MaxTime = 3
  MaxEvents = 3
INVARIANT NeverResurrected
CHECK_DEADLOCK FALSE
