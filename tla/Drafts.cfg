\* Two drafts, two tasks at once, and one thing that fails.
SPECIFICATION Spec
CONSTANTS
  whole = whole
  half = half
  Key = {k1, k2}
  Text = {whole, half}
  Broken = {half}
  Gone = Gone
  Failed = Failed
  Task = {t1, t2}
  Kinds = {"load", "clear"}
  MaxChanges = 2
  MaxFailures = 1
  MaxSaves = 2
SYMMETRY Symmetry
INVARIANTS
  TypeOK
  QuietMeansCurrent
  SnapshotKept
  HeldMatchesShown
  OwedWhileIdle
CHECK_DEADLOCK FALSE
