\* Intervals below and above the cap; jobs that fail, hang, are slow, are far off.
CONSTANTS
  None = None
  JobCount = 2
  Intervals = {1, 4}
  MaxBackoff = 3
  MaxFails = 3
  Ahead = {0, 3}
  MaxCycle = 1
SPECIFICATION Spec
INVARIANTS RunReportsFailure
PROPERTIES TimesAreKept EveryJobIsAsked ServiceEnds
