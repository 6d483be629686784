\* One draft, with every task, every failure and every overlap of two tasks.
SPECIFICATION FairSpec
CONSTANTS
  whole = whole
  half = half
  Key = {k1}
  Text = {whole, half}
  Broken = {half}
  Gone = Gone
  Failed = Failed
  Task = {t1, t2}
  Kinds = {"load", "clear"}
  MaxChanges = 2
  MaxFailures = 1
  MaxSaves = 2
PROPERTIES
  QueueCatchesUp
  SnapshotCatchesUp
CHECK_DEADLOCK FALSE
