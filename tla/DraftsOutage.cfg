\* One draft, kept by an earlier read, and a source that refuses one read.
SPECIFICATION Spec
CONSTANTS
  whole = whole
  half = half
  Key = {k1}
  Text = {whole}
  Broken = {}
  Gone = Gone
  Failed = Failed
  Task = {t1}
  Kinds = {"load"}
  MaxChanges = 1
  MaxFailures = 1
  MaxSaves = 1
INVARIANT
  HeldIsReadable
CHECK_DEADLOCK FALSE
