\* Safety with two Handles in one process, a third in another, all faults.
CONSTANTS
  p1 = p1  p2 = p2
  h1 = h1  h2 = h2  h3 = h3
  c1 = c1  c2 = c2  c3 = c3
  f1 = f1
  NoOne = NoOne
  Procs = {p1, p2}
  Handles = {h1, h2, h3}
  Callers = {c1, c2, c3}
  Fencers = {}
  ProcOf <- SharedInOne
  HandleOf <- OnePerHandle
  Faults = {"timeout", "cancel", "openfail", "crash"}
  MaxFired = 2
SPECIFICATION Spec
INVARIANTS RefsExact Exclusion
