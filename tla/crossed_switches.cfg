CONSTANTS
  Limit = {l1}
  Dca = {}
  Walletless = {}
  MaxOrders = 1
  MaxSlot = 0
  Workers = {w1}
  Schedulers = {p1}
  Admins = {a1,a2}
  NoWorker = NoWorker
  NoSlot = NoSlot
  MaxAttempts = 1
  FaultKinds = {}
  MaxFaults = 0
  MaxFlips = 2
SPECIFICATION Spec
SYMMETRY Symmetry
INVARIANT QueueFollowsSwitch
CHECK_DEADLOCK FALSE
