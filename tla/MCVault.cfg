\* First use by two goroutines and by two processes, with every fault; a log
\* left by a crash; archives under a key of the keyring and of a manager.
CONSTANTS
  None = None
  p1 = p1
  p2 = p2
  a1 = a1
  a2 = a2
  b1 = b1
  c1 = c1
  Procs = {p1, p2}
  Workers = {a1, a2, b1}
  Commands = {c1}
  Clients = {a1, a2, b1, c1}
  ProcOf <- MCProcOf
  EntryNames = {"sealed-key", "backup-key"}
  Faults = {"set", "checkpoint"}
  MaxKeys = 2
SPECIFICATION Spec
SYMMETRY MCSymmetry
CHECK_DEADLOCK FALSE
INVARIANTS EscrowedBeforeUse SnapshotIsWhole
PROPERTIES OneKeyPerStore
