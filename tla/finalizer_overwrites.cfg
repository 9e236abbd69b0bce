CONSTANTS
  Limit = {l1}
  Dca = {}
  Walletless = {}
  MaxOrders = 1
  MaxSlot = 0
  Workers = {w1}
  Schedulers = {p1}
  Admins = {}
  NoWorker = NoWorker
  NoSlot = NoSlot
  MaxAttempts = 1
  FaultKinds = {}
  MaxFaults = 0
  MaxFlips = 0
SPECIFICATION Spec
SYMMETRY Symmetry
PROPERTY FinalizerSparesTerminal
CHECK_DEADLOCK FALSE
