CONSTANTS
  Limit = {}
  Dca = {d1}
  Walletless = {}
  MaxOrders = 1
  MaxSlot = 0
  Workers = {w1,w2}
  Schedulers = {p1,p2}
  Admins = {}
  NoWorker = NoWorker
  NoSlot = NoSlot
  MaxAttempts = 1
  FaultKinds = {"lock_loss"}
  MaxFaults = 1
  MaxFlips = 0
SPECIFICATION Spec
SYMMETRY Symmetry
INVARIANT SlotExclusive
INVARIANT StopWins
PROPERTY EndedSlotStands
CHECK_DEADLOCK FALSE
