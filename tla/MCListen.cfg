\* Listeners that die, fail and close while others come.
CONSTANTS
  p1 = p1  p2 = p2  p3 = p3
  n1 = n1  n2 = n2  n3 = n3
  None = None
  Procs = {p1, p2, p3}
  Inodes = {n1, n2, n3}
  Closers = {p1, p2, p3}
  Faults = {"crash", "locktimeout", "chmod", "io"}
SPECIFICATION ListenFairSpec
INVARIANTS SingleListener Reachable
PROPERTIES ServiceReturns
