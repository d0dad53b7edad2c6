\* Two items and room for one; failing steps and stores, Clear, death and restart.
CONSTANTS
  k1 = k1  k2 = k2  init = init  seen = seen  cache = cache
  Spaces = {seen, cache}
  Keys = {k1, k2, init}
  Cached <- SeenAndCache
  MaxNow = 2
  Expiries = {2}
  Items = {k1, k2}
  seenInitKey = init
  Seen = seen
  Cap = 1
  Window = 2
  Faults = {"store", "step", "crash", "cancel"}
SPECIFICATION FairSpec
CHECK_DEADLOCK FALSE
INVARIANTS ReadersAgree MirrorIsExact
PROPERTIES NotAnnouncedAgain EveryItemIsHandled PipelineEnds
