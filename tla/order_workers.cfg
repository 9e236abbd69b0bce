CONSTANTS
  Limit = {l1,l2}
  Dca = {d1}
  Walletless = {l2}
  MaxOrders = 1
  MaxSlot = 1
  Workers = {w1,w2}
  Schedulers = {p1}
  Admins = {a1}
  NoWorker = NoWorker
  NoSlot = NoSlot
  MaxAttempts = 1
  FaultKinds = {}
  MaxFaults = 0
  MaxFlips = 1
SPECIFICATION Spec
SYMMETRY Symmetry
INVARIANT TypeOK
INVARIANT AtMostOneSubmission
INVARIANT NoDormantOrder
INVARIANT FilledBySubmission
INVARIANT FailedOrderExplained
PROPERTY OrdersFollowLifecycle
CHECK_DEADLOCK FALSE
