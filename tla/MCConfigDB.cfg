\* Three writers on two Stores; transactions, permissions, markers and processes fail.
CONSTANTS
  a1 = a1  a2 = a2  b1 = b1  s1 = s1  s2 = s2
  app = app  yaml = yaml  json = json
  None = None
  Actors = {a1, a2, b1}
  Stores = {s1, s2}
  StoreOf <- ThreeActors
  Docs = {app}
  Contents = {yaml, json}
  Faults = {"txfail", "permfail", "markerfail", "crash"}
  MaxCalls = 3
SPECIFICATION Spec
CHECK_DEADLOCK FALSE
INVARIANTS HistoryIsComplete NoMissedChange
