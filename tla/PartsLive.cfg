\* The parts with a promise that something happens: one draft and two presses
\* for a send, two sweeps over a claim that goes stale in one turn, two rounds of
\* a watch whose storage goes quiet once; one fault each.
SPECIFICATION FairSpec
CONSTANTS
  Parts = {"posting", "sweep", "watch"}
  Actor = {a1, a2}
  Storage = {s1, s2}
  PullDrafts = 1
  Events = 3
  Presses = 2
  Stamps = 4
  Commits = 1
  Asks = 1
  Decisions = 1
  Changes = 0
  Lines = 2
  Sends = 1
  Opens = 1
  Writings = 1
  Corrections = 1
  Choices = 1
  Requests = 1
  StaleAfter = 1
  QuietAfter = 2
  Faults = 1
  Outages = 1
PROPERTIES
  PressResolves
  ClaimsComeToAnEnd
  SilenceIsTold
CHECK_DEADLOCK FALSE
