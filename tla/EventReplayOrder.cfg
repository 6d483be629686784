\* One finding of the agent's, decided on by two devices.
SPECIFICATION Spec
CONSTANTS
  Device = {d1, d2}
  Agents = {1}
  Own = {}
  MaxTime = 3
  MaxEvents = 3
INVARIANT SameEventsSameView
CHECK_DEADLOCK FALSE
