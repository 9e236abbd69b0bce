CONSTANTS
  Limit = {}
  Dca = {d1}
  Walletless = {}
  MaxOrders = 1
  MaxSlot = 0
  Workers = {w1}
  Schedulers = {p1}
  Admins = {a1}
  NoWorker = NoWorker
  NoSlot = NoSlot
  MaxAttempts = 2
  FaultKinds = {}
  MaxFaults = 0
  MaxFlips = 2
SPECIFICATION FairSpec
PROPERTY SlotSettles
PROPERTY TriggeredMovesOn
CHECK_DEADLOCK FALSE
