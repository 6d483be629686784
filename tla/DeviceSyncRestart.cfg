\* The laptop decides twice, so a decision puts off the push that waits, or is
\* made while another is in flight, and the phone takes in two decisions one
\* write at a time; both come and go at any point, the mark's own write and the
\* listing at opening may fail.
SPECIFICATION FairSpec
CONSTANTS
  laptop = laptop
  phone = phone
  Device = {laptop, phone}
  MaxDecisions <- TwoAndNone
  MaxPushes = 2
  Faults = {"mark", "list"}
  Leavers = {laptop, phone}
INVARIANTS
  KeptIsHeld
  OwnFileKnown
PROPERTIES
  ImplementsDecisionLog
  ReachesStorage
  ReachesPeers
CHECK_DEADLOCK FALSE
