\* Two devices; three moments, so two clocks can agree, lag or lead; three
\* decisions, one finding of each kind.
SPECIFICATION Spec
CONSTANTS
  Device = {d1, d2}
  Agents = {1}
  Own = {2}
  MaxTime = 3
  MaxEvents = 3
SYMMETRY Symmetry
INVARIANTS
  TypeOK
  ReloadShowsTheSame
  RemovedStaysRemoved
PROPERTY DecisionTakesEffect
CHECK_DEADLOCK FALSE
