\* Progress: a Handle kept busy by two goroutines, a fencer that comes and goes.
CONSTANTS
  p1 = p1  p2 = p2
  h1 = h1  h2 = h2  h3 = h3
  c1 = c1  c2 = c2  c3 = c3
  f1 = f1
  NoOne = NoOne
  Procs = {p1, p2}
  Handles = {h1}
  Callers = {c1, c2}
  Fencers = {f1}
  ProcOf <- OneProcAndFencer
  HandleOf <- BothFirst
  Faults = {"openfail"}
  MaxFired = 1
SPECIFICATION FairSpec
PROPERTIES EveryDoReturns IdleLetsGo QueuedIsServed
