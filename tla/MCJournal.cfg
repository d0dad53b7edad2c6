\* Two or three runs in a family or side by side; ties, late children, failures.
CONSTANTS
  None = None
  Counts = {1, 2}
  MaxInteger = 3
  Faults = {"statement", "checkpoint", "log"}
  MaxRuns = 3
  MaxTime = 2
  RecordChunk = 2
  MaxRecords = 3
SPECIFICATION Spec
CHECK_DEADLOCK FALSE
INVARIANTS RecordsFollowRuns CountsAreSums
PROPERTIES NothingLeftBehind EvictionIsExact
