CONSTANTS
  Limit = {}
  Dca = {d1}
  Walletless = {}
  MaxOrders = 1
  MaxSlot = 0
  Workers = {w1}
  Schedulers = {p1}
  Admins = {}
  NoWorker = NoWorker
  NoSlot = NoSlot
  MaxAttempts = 1
  FaultKinds = {"crash"}
  MaxFaults = 1
  MaxFlips = 0
SPECIFICATION Spec
SYMMETRY Symmetry
INVARIANT DcaReturnsToOpen
CHECK_DEADLOCK FALSE
