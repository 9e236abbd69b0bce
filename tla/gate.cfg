CONSTANTS
  i1 = i1
  i2 = i2
  q1 = q1
  Requests <- MixedRequests
  Intents = {i1, i2}
  Quotes = {q1}
  NoIntent = NoIntent
  NoQuote = NoQuote
  NoRequest = NoRequest
  Evaluators = {e1, e2}
  Signers = {g1}
  NoEvaluator = NoEvaluator
  Values = {1, 2}
  Threshold = 2
  Cap = 3
  MaxDay = 1
  MaxEvals = 2
  MaxRev = 2
SPECIFICATION Spec
SYMMETRY Symmetry
INVARIANT TypeOK
INVARIANT CapHolds
INVARIANT ApprovedIsReserved
INVARIANT QuoteSingleUse
INVARIANT SignedQuoteBound
INVARIANT SignedIsReserved
PROPERTY LedgerIsAtomic
CHECK_DEADLOCK FALSE
