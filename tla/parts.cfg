CONSTANTS
  MaxAsks = 3
  MaxDrops = 1
  MaxRefreshes = 2
  MaxConsents = 2
  NoDraft = NoDraft
  Keys = {"k1", "k2"}
  MaxSections = 5
  Records = {"r1"}
  Operators = {"o1", "o2"}
  Clients = {"c1", "c2"}
  MaxPerWindow = 2
  WindowMs = 2
  Horizon = 4
  Requests = {"q1", "q2"}
  Modes = {"off", "pause", "cancel_active"}
  MaxFlips = 3
  NoRow = NoRow
  SignIntents = {"i1", "i2"}
  Previews = {"p1", "p2"}
  SignCallers = {"s1", "s2"}
  MaxSigns = 3
  NoPreview = "none"
  Assets = {"eth", "usdc"}
  Readers = {"g", "h"}
  TtlMs = 1
  LastInstant = 4
  NoEntry = NoEntry
  FeedPrices = {1, 9, 10}
  HintPrices = {8, 9, 10, 11}
  MaxAge = 1
  DeviationPct = 10
  LimitPrice = 9
  Interval = 2
  CreatedAt = 1
  LastTick = 3
  UnitDigits = 2
  MaxDigits = 4
  IntParts = {0, 1, 9}
  Digits = {0, 4, 5, 9}
  Owners = {"a", "b"}
  Addresses = {"x", "y"}
  ChainSets = {{"base"}, {"base", "rh"}}
  Creators = {"c1", "c2"}
  MaxCreations = 3
  NoOwner = "none"
  NoChains = {}
SPECIFICATION MCSpec
INVARIANT TypesOK
INVARIANT BusyIsAwaited
INVARIANT ConsentIsEarned
INVARIANT SectionsExclusive
INVARIANT StepsCredited
INVARIANT BudgetHolds
INVARIANT AuditTellsMode
INVARIANT SignedOnce
INVARIANT PricesFresh
INVARIANT TriggersSound
INVARIANT MicrosExact
INVARIANT AnswersStand
PROPERTY NewestAnswer
PROPERTY SwitchIsAudited
CHECK_DEADLOCK FALSE
