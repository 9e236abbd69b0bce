CONSTANTS
  user = user
  sink = sink
  Accounts = {user, sink}
  Contracts = {sink}
  Zero = Zero
  Params <- LaunchParams
  NoParams = NoParams
  Foreign = {clone}
  Template = Template
  Rate = 2
  Bond = 1
  Scale = 2
  Word = 8
  Payments = {0, 1, 2}
  Values = {1, 7}
  MaxDepth = 2
  MaxCalls = 2
SPECIFICATION Spec
INVARIANT TypeOK
INVARIANT BondsAccounted
INVARIANT BondsForwarded
INVARIANT SupplyConserved
PROPERTY LaunchesAreAtomic
CHECK_DEADLOCK FALSE
