\* One slot, one place in each channel and each socket, two values.
CONSTANTS
  k1 = k1  k2 = k2  q1 = q1
  Subscribers = {k1, k2}
  Publishers = {q1}
  Buffer = 1
  MaxPublished = 2
  MaxConns = 1
  Wire = 1
SPECIFICATION FairSpec
CHECK_DEADLOCK FALSE
INVARIANTS Subscriptions InOrder
PROPERTIES EveryCallReturns SlotsComeBack
