CONSTANTS
  Limit = {l1}
  Dca = {}
  Walletless = {}
  MaxOrders = 1
  MaxSlot = 0
  Workers = {w1,w2}
  Schedulers = {p1}
  Admins = {a1}
  NoWorker = NoWorker
  NoSlot = NoSlot
  MaxAttempts = 2
  FaultKinds = {"crash","store"}
  MaxFaults = 1
  MaxFlips = 1
SPECIFICATION Spec
SYMMETRY Symmetry
INVARIANT AtMostOneSubmission
INVARIANT StopWins
PROPERTY OrdersFollowLifecycle
CHECK_DEADLOCK FALSE
