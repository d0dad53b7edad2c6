\* Two goroutines on one Handle, another process with a Handle and a fencer:
\* the yield gap, late timers, Close, AcquireLock; the promise of the package.
CONSTANTS
  p1 = p1  p2 = p2
  h1 = h1  h2 = h2  h3 = h3
  c1 = c1  c2 = c2  c3 = c3
  f1 = f1
  NoOne = NoOne
  Procs = {p1, p2}
  Handles = {h1, h2}
  Callers = {c1, c2, c3}
  Fencers = {f1}
  ProcOf <- TwoProcsOneFencer
  HandleOf <- BusyFirst
  Faults = {"timeout", "cancel", "openfail", "crash"}
  MaxFired = 2
SPECIFICATION Spec
INVARIANTS FenceExcludesWriters ClosedForGood
PROPERTIES NoLateWakeup ImplementsDuckFile
