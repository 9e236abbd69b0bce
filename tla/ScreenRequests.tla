--------------------------- MODULE ScreenRequests ---------------------------
(* The composables of the trading front end that fetch for a part of the     *)
(* screen.  A call is answered later, in any order, whatever the user did in *)
(* the meantime; a composable drops the answers it no longer wants by a      *)
(* sequence number, or takes each as it comes.                               *)
EXTENDS Naturals

CONSTANTS MaxAsks,   \* how often the part asks (bound)
          MaxDrops   \* how often what it shows is dropped (bound)

ASSUME AsksAssumption == MaxAsks \in Nat /\ MaxDrops \in Nat

VARIABLES
  part,      \* which composable this is
  phase,     \* what the screen says of it
  shown,     \* the request whose answer is on screen, 0 if none
  seq,       \* requestSeq
  inFlight,  \* requests not answered yet, each with the number it was given
  asked,     \* history: requests made
  drops,     \* resets so far (bound)
  left       \* the screen was left, its effect scope disposed

screenVars == <<part, phase, shown, seq, inFlight, asked, drops, left>>

Sequenced == {"quote", "orders", "executions", "health", "create"}
Parts     == Sequenced \cup {"balances", "wallets", "sign"}
Phases    == {"idle", "loading", "ready", "expired", "error"}

\* Lists and health cards start loading, before anything was asked.
ScreenInit ==
  /\ part \in Parts
  /\ phase = IF part \in {"orders", "health", "balances", "wallets"} THEN "loading" ELSE "idle"
  /\ shown = 0
  /\ seq = 0
  /\ inFlight = {}
  /\ asked = 0
  /\ drops = 0
  /\ left = FALSE

-----------------------------------------------------------------------------
\* const seq = ++requestSeq: the number the request remembers.
Ticket == seq + 1

\* A request that leaves kept on screen until it is answered.
Ask(p, kept) ==
  /\ part = p /\ ~left
  /\ asked < MaxAsks
  /\ asked' = asked + 1
  /\ seq' = IF p \in Sequenced THEN seq + 1 ELSE seq
  /\ inFlight' = inFlight \cup {[n |-> asked + 1, seq |-> Ticket]}
  /\ phase' = "loading"
  /\ shown' = kept
  /\ UNCHANGED <<part, drops, left>>

\* if (seq !== requestSeq) return
MutantWanted(r) == TRUE
Wanted(r) == part \in Sequenced => r.seq = seq

\* The call of r is answered, well or with an error envelope.
Answer(p) ==
  /\ part = p
  /\ \E r \in inFlight :
       /\ inFlight' = inFlight \ {r}
       /\ IF Wanted(r)
            THEN \/ phase' = "ready" /\ shown' = r.n
                 \/ phase' = "error" /\ shown' = 0
            ELSE UNCHANGED <<phase, shown>>
  /\ UNCHANGED <<part, seq, asked, drops, left>>

\* What the user's reset does to the requests in flight.
MutantInvalidates(p) == FALSE
Invalidates(p) == p \in Sequenced

Drop(p) ==
  /\ part = p /\ ~left
  /\ drops < MaxDrops
  /\ drops' = drops + 1
  /\ seq' = IF Invalidates(p) THEN seq + 1 ELSE seq
  /\ phase' = "idle"
  /\ shown' = 0
  /\ UNCHANGED <<part, inFlight, asked, left>>

-----------------------------------------------------------------------------
\* useQuote: the old quote stays until the new one is there.
RefreshQuote == Ask("quote", shown)
QuoteAnswered == Answer("quote")
ClearQuote == Drop("quote")

\* The countdown of a quote on screen reaches its end.
QuoteLapses ==
  /\ part = "quote" /\ phase = "ready" /\ ~left
  /\ phase' = "expired"
  /\ UNCHANGED <<part, shown, seq, inFlight, asked, drops, left>>

\* useOrders: both calls of a refresh are awaited together.
RefreshOrders == Ask("orders", shown)
OrdersAnswered == Answer("orders")

\* useOrderExecutions
LoadExecutions == Ask("executions", 0)
ExecutionsAnswered == Answer("executions")
ResetExecutions == Drop("executions")

\* useWorkerHealth
CheckHealth == Ask("health", shown)
HealthAnswered == Answer("health")

\* useCreateOrder: the outcome of the earlier order is dropped first.
CreateOrder == Ask("create", 0)
OrderCreated == Answer("create")
ResetCreate == Drop("create")

\* An order of a type that is not supported is refused before anything is sent:
\* the refusal takes the place of what was there.
RefuseOrder ==
  /\ part = "create" /\ ~left
  /\ drops < MaxDrops
  /\ drops' = drops + 1
  /\ seq' = seq + 1
  /\ phase' = "error"
  /\ shown' = 0
  /\ UNCHANGED <<part, inFlight, asked, left>>

\* useBalances, whose answer is fixtures when the API cannot be reached
RefreshBalances == Ask("balances", shown)
BalancesAnswered == Answer("balances")

\* useWallets, likewise
RefreshWallets == Ask("wallets", shown)
WalletsAnswered == Answer("wallets")

\* useSignRequest
RequestSignature == Ask("sign", shown)
SignatureAnswered == Answer("sign")
ResetSignRequest == Drop("sign")

\* The scope of the composable is disposed: all but useQuote invalidate what is
\* in flight.
Leave ==
  /\ ~left /\ left' = TRUE
  /\ seq' = IF part \in Sequenced \ {"quote"} THEN seq + 1 ELSE seq
  /\ UNCHANGED <<part, phase, shown, inFlight, asked, drops>>

ScreenNext ==
  \/ RefreshQuote \/ QuoteAnswered \/ ClearQuote \/ QuoteLapses
  \/ RefreshOrders \/ OrdersAnswered
  \/ LoadExecutions \/ ExecutionsAnswered \/ ResetExecutions
  \/ CheckHealth \/ HealthAnswered
  \/ CreateOrder \/ OrderCreated \/ ResetCreate \/ RefuseOrder
  \/ RefreshBalances \/ BalancesAnswered
  \/ RefreshWallets \/ WalletsAnswered
  \/ RequestSignature \/ SignatureAnswered \/ ResetSignRequest
  \/ Leave

ScreenSpec == ScreenInit /\ [][ScreenNext]_screenVars

-----------------------------------------------------------------------------
\* A part never has more requests in flight than it made, and shows one of its own.
ScreenTypeOK ==
  /\ part \in Parts
  /\ phase \in Phases
  /\ asked \in 0 .. MaxAsks
  /\ drops \in 0 .. MaxDrops
  /\ shown \in 0 .. asked
  /\ seq \in Nat
  /\ inFlight \subseteq [n : 1 .. asked, seq : 1 .. seq + 1]
  /\ left \in BOOLEAN

\* While a part says it is loading, an answer is on its way that will end it;
\* and when a part with a sequence number does not, no answer on its way will
\* change it: neither a spinner that never stops nor a screen that changes by
\* itself.
BusyIsAwaited ==
  asked > 0 /\ ~left =>
    /\ phase = "loading" => \E r \in inFlight : Wanted(r)
    /\ phase # "loading" /\ part \in Sequenced => \A r \in inFlight : ~Wanted(r)

Latest == INSTANCE LatestAnswer
            WITH asked <- IF part \in Sequenced THEN asked ELSE 0,
                 shown <- IF part \in Sequenced THEN shown ELSE 0,
                 open  <- part \in Sequenced /\ asked > 0 /\ phase = "loading"

\* The parts with a sequence number show the answer to their last request only,
\* whatever order the answers come in: see LatestAnswer.
NewestAnswer == Latest!Spec
=============================================================================
