------------------------------ MODULE SecurityGate -----------------------------
(***************************************************************************)
(* The security gate of apps/api/src/security for one wallet: concurrent    *)
(* evaluations of intents, the Postgres spend ledger and its advisory lock, *)
(* the single-use binding of swap quotes (trading), the decision audit, and *)
(* the dry-run sign requests that read all of them.                         *)
(*                                                                          *)
(* One action is the code between two awaits.  Payload inspection, the      *)
(* origin and chain allowlists, the deploy preconditions, the margins and   *)
(* amounts of a swap context and the price feed are choices: each is a      *)
(* function of things that change outside.                                  *)
(***************************************************************************)
EXTENDS Integers, FiniteSets

CONSTANTS
  Requests,     \* intents as they are sent: id, kind, quote, rev, automation
  Intents,      \* ids of intents
  Quotes,       \* ids of swap quotes
  NoIntent,     \* "the quote is unbound"
  NoQuote,      \* the quote of an intent that is not a swap
  NoRequest,    \* "nothing stored under this id"
  Evaluators,   \* concurrent runs of EvaluateIntentUseCase
  Signers,      \* concurrent runs of RequestSignatureUseCase
  NoEvaluator,  \* "nobody holds the day's lock"
  Values,       \* positive USD values the price feed may answer, in micros
  Threshold,    \* approvalThresholdUsd of the policy
  Cap,          \* dailyCapUsd of the policy
  MaxDay,       \* the UTC clock runs over days 0..MaxDay
  MaxEvals,     \* how many evaluations are started
  MaxRev        \* how often a quote is saved

Days  == 0 .. MaxDay
Kinds == {"transfer", "swap", "deploy", "approve"}
RequestType == [id : Intents, kind : Kinds, quote : Quotes \cup {NoQuote},
                rev : 0 .. MaxRev, automation : BOOLEAN]

ASSUME RequestsAssumption ==
  /\ Requests \subseteq RequestType
  /\ \A r \in Requests : r.kind = "swap" <=> r.quote \in Quotes
ASSUME NullAssumption == /\ NoIntent \notin Intents
                         /\ NoQuote \notin Quotes
                         /\ NoRequest \notin Requests
                         /\ NoEvaluator \notin Evaluators
ASSUME BoundAssumption == /\ Values \subseteq Nat \ {0}
                          /\ Threshold \in Nat /\ Cap \in Nat
                          /\ MaxDay \in Nat /\ MaxEvals \in Nat /\ MaxRev \in Nat

VARIABLES
  wallet,     \* "none", "saved", or "ready" once its policy is provisioned
  intents,    \* intent store: id -> the request saved last
  quotes,     \* quote store: id -> revision, unexpired, bound intent
  ledger,     \* committed spend rows: day -> intent -> micros, 0 for no row
  lock,       \* day -> the evaluation whose transaction holds the advisory lock
  latest,     \* intent -> result of the last entry of its decision audit
  job,        \* evaluation -> its local state
  sign,       \* sign request -> its local state
  signed,     \* sign_requests: intent -> the quote its row was made from
  today,      \* the UTC day
  evals,      \* evaluations started (bound)
  reserved,   \* history: day -> intent -> micros of its last audited approval
  claims      \* history: <<intent, quote>> of audited swap decisions not rejected

storeVars   == <<intents, quotes, ledger, lock, latest, signed>>
historyVars == <<reserved, claims>>
vars == <<wallet, storeVars, job, sign, today, evals, historyVars>>

Spend == INSTANCE SpendLedger WITH rows <- ledger

Results == {"approved", "needs_human_approval", "rejected"}
EvalPc  == {"idle", "policy", "deploy", "quote", "price", "lock", "total",
            "end", "bind", "audit"}
SignPc  == {"idle", "decision", "preview", "store"}

Fresh(step, r) == [pc |-> step, req |-> r, usd |-> 0, day |-> 0, result |-> "rejected"]

Idle   == Fresh("idle", NoRequest)
NoSign == [pc |-> "idle", req |-> NoRequest, rev |-> 0]

Init ==
  /\ wallet = "none"
  /\ intents = [i \in Intents |-> NoRequest]
  /\ quotes = [q \in Quotes |-> [rev |-> 0, live |-> FALSE, bound |-> NoIntent]]
  /\ ledger = [d \in Days |-> [i \in Intents |-> 0]]
  /\ lock = [d \in Days |-> NoEvaluator]
  /\ latest = [i \in Intents |-> "none"]
  /\ job = [e \in Evaluators |-> Idle]
  /\ sign = [g \in Signers |-> NoSign]
  /\ signed = [i \in Intents |-> [done |-> FALSE, quote |-> NoQuote, rev |-> 0]]
  /\ today = 0
  /\ evals = 0
  /\ reserved = [d \in Days |-> [i \in Intents |-> 0]]
  /\ claims = {}

-----------------------------------------------------------------------------
(* Wallets, quotes and the clock.                                           *)

\* CreateWalletUseCase: the wallet is saved, then its policy provisioned; a
\* failure in between leaves a wallet that no second request can finish.
CreateWallet ==
  /\ wallet = "none" /\ wallet' = "saved"
  /\ UNCHANGED <<storeVars, job, sign, today, evals, historyVars>>

Provision ==
  /\ wallet = "saved" /\ wallet' = "ready"
  /\ UNCHANGED <<storeVars, job, sign, today, evals, historyVars>>

\* RequestQuoteUseCase: a quote id that comes again is a new revision under the
\* binding it has.
MutantKept(q) == NoIntent
Kept(q) == quotes[q].bound

SaveQuote(q) ==
  /\ wallet # "none"
  /\ quotes[q].rev < MaxRev
  /\ quotes' = [quotes EXCEPT ![q] = [rev |-> @.rev + 1, live |-> TRUE, bound |-> Kept(q)]]
  /\ UNCHANGED <<wallet, intents, ledger, lock, latest, signed, job, sign, today,
                 evals, historyVars>>

Expire(q) ==
  /\ quotes[q].live
  /\ quotes' = [quotes EXCEPT ![q].live = FALSE]
  /\ UNCHANGED <<wallet, intents, ledger, lock, latest, signed, job, sign, today,
                 evals, historyVars>>

\* CreateTransferUseCase: stores an intent nothing has evaluated.
CreateTransfer(r) ==
  /\ wallet = "ready"
  /\ r.kind \in {"transfer", "approve"}
  /\ intents' = [intents EXCEPT ![r.id] = r]
  /\ UNCHANGED <<wallet, quotes, ledger, lock, latest, signed, job, sign, today,
                 evals, historyVars>>

NextDay ==
  /\ today < MaxDay /\ today' = today + 1
  /\ UNCHANGED <<wallet, storeVars, job, sign, evals, historyVars>>

-----------------------------------------------------------------------------
(* EvaluateIntentUseCase.execute, one action per awaited call.              *)

At(e, step) == job[e].pc = step

Go(e, step) == job' = [job EXCEPT ![e].pc = step]

\* finish(): a swap that is not rejected takes its quote first.
Decide(e, result) ==
  job' = [job EXCEPT ![e].result = result,
                     ![e].pc = IF job[e].req.kind = "swap" /\ result # "rejected"
                                 THEN "bind" ELSE "audit"]

EvalFrame == UNCHANGED <<wallet, sign, signed, today>>

\* The intent is saved first.  Automation never deploys: that firewall comes
\* before any policy is read.
Receive(e, r) ==
  /\ At(e, "idle")
  /\ evals < MaxEvals /\ evals' = evals + 1
  /\ intents' = [intents EXCEPT ![r.id] = r]
  /\ job' = [job EXCEPT ![e] =
       Fresh(IF r.kind = "deploy" /\ r.automation THEN "audit" ELSE "policy", r)]
  /\ EvalFrame /\ UNCHANGED <<quotes, ledger, lock, latest, historyVars>>

\* Policy, payload, origin and chain: any of them may reject.
ReadPolicy(e) ==
  /\ At(e, "policy")
  /\ \/ Decide(e, "rejected")
     \/ /\ wallet = "ready"
        /\ Go(e, CASE job[e].req.kind = "deploy" -> "deploy"
                   [] job[e].req.kind = "swap"   -> "quote"
                   [] OTHER                      -> "price")
  /\ EvalFrame /\ UNCHANGED <<intents, quotes, ledger, lock, latest, evals, historyVars>>

CheckDeploy(e) ==
  /\ At(e, "deploy")
  /\ Decide(e, "rejected") \/ Decide(e, "needs_human_approval")
  /\ EvalFrame /\ UNCHANGED <<intents, quotes, ledger, lock, latest, evals, historyVars>>

\* checkSwapContext: the quote exists, is not another intent's, is the revision
\* the intent was built from and has not expired.
CheckQuote(e) ==
  /\ At(e, "quote")
  /\ LET r == job[e].req
         stored == quotes[r.quote]
     IN \/ Decide(e, "rejected")
        \/ /\ stored.bound \in {NoIntent, r.id}
           /\ stored.rev = r.rev /\ stored.rev > 0
           /\ stored.live
           /\ Go(e, "price")
  /\ EvalFrame /\ UNCHANGED <<intents, quotes, ledger, lock, latest, evals, historyVars>>

\* An unknown value or one above the threshold goes to a human.  reserveSpend
\* fixes the UTC day of the reservation when it is called.
Price(e) ==
  /\ At(e, "price")
  /\ \/ Decide(e, "needs_human_approval")
     \/ Cap = 0 /\ Decide(e, "rejected")
     \/ /\ Cap > 0
        /\ \E v \in Values :
             /\ v <= Threshold
             /\ job' = [job EXCEPT ![e].pc = "lock", ![e].usd = v, ![e].day = today]
  /\ EvalFrame /\ UNCHANGED <<intents, quotes, ledger, lock, latest, evals, historyVars>>

-----------------------------------------------------------------------------
(* PostgresSpendLedger.reserveSpend: one transaction under the advisory lock *)
(* of (wallet, day).  Its upsert is visible to no one else until it commits. *)

MutantLockFree(d) == TRUE
LockFree(d) == lock[d] = NoEvaluator

Lock(e) ==
  /\ At(e, "lock")
  /\ LockFree(job[e].day)
  /\ lock' = [lock EXCEPT ![job[e].day] = e]
  /\ Go(e, "total")
  /\ EvalFrame /\ UNCHANGED <<intents, quotes, ledger, latest, evals, historyVars>>

\* The day's total with the intent's row replaced, against the cap.
MutantFits(day, i, v) == Spend!Total(day) < Cap
Fits(day, i, v) == Spend!Total(Spend!With(day, i, v)) <= Cap

CheckTotal(e) ==
  /\ At(e, "total")
  /\ LET j == job[e]
         fits == Fits(ledger[j.day], j.req.id, j.usd)
     IN job' = [job EXCEPT ![e].pc = "end",
                           ![e].result = IF fits THEN "approved" ELSE "rejected"]
  /\ EvalFrame
  /\ UNCHANGED <<intents, quotes, ledger, lock, latest, evals, historyVars>>

\* COMMIT, or ROLLBACK on a breach: the row of the intent after the transaction.
MutantRowAfter(j) == ledger[j.day][j.req.id]
RowAfter(j) == IF j.result = "approved" THEN j.usd ELSE ledger[j.day][j.req.id]

\* The lock goes with the transaction, whichever way it ends.
MutantUnlock(j) == IF j.result = "approved" THEN NoEvaluator ELSE lock[j.day]
Unlock(j) == NoEvaluator

EndTransaction(e) ==
  LET j == job[e] IN
  /\ ledger' = [ledger EXCEPT ![j.day] = Spend!With(@, j.req.id, RowAfter(j))]
  /\ lock' = [lock EXCEPT ![j.day] = Unlock(j)]

Reserve(e) ==
  /\ At(e, "end")
  /\ EndTransaction(e)
  /\ Decide(e, job[e].result)
  /\ EvalFrame /\ UNCHANGED <<intents, quotes, latest, evals, historyVars>>

-----------------------------------------------------------------------------
(* finish(): bind, then append to the audit.                                *)

\* QuoteStore.bind: one conditional update.
MutantCanBind(q, i) == TRUE
CanBind(q, i) == quotes[q].rev > 0 /\ quotes[q].bound \in {NoIntent, i}

Bind(e) ==
  /\ At(e, "bind")
  /\ LET q == job[e].req.quote
         i == job[e].req.id
     IN \/ /\ CanBind(q, i)
           /\ quotes' = [quotes EXCEPT ![q].bound = i]
           /\ Go(e, "audit")
        \/ /\ ~CanBind(q, i)
           /\ job' = [job EXCEPT ![e].result = "rejected", ![e].pc = "audit"]
           /\ UNCHANGED quotes
  /\ EvalFrame /\ UNCHANGED <<intents, ledger, lock, latest, evals, historyVars>>

Audit(e) ==
  LET j == job[e] IN
  /\ At(e, "audit")
  /\ latest' = [latest EXCEPT ![j.req.id] = j.result]
  /\ claims' = IF j.req.kind = "swap" /\ j.result # "rejected"
                 THEN claims \cup {<<j.req.id, j.req.quote>>} ELSE claims
  /\ reserved' = IF j.result = "approved"
                   THEN [reserved EXCEPT ![j.day] = Spend!With(@, j.req.id, j.usd)]
                   ELSE reserved
  /\ job' = [job EXCEPT ![e] = Idle]
  /\ EvalFrame /\ UNCHANGED <<intents, quotes, ledger, lock, evals>>

\* A call fails or the process dies: the decision is never given.  An open
\* transaction is rolled back, or was committed without the caller learning it.
Abort(e) ==
  /\ ~At(e, "idle")
  /\ job' = [job EXCEPT ![e] = Idle]
  /\ \/ At(e, "end") /\ EndTransaction(e)
     \/ /\ lock' = [d \in Days |-> IF lock[d] = e THEN NoEvaluator ELSE lock[d]]
        /\ UNCHANGED ledger
  /\ EvalFrame /\ UNCHANGED <<intents, quotes, latest, evals, historyVars>>

-----------------------------------------------------------------------------
(* RequestSignatureUseCase.execute: the stored intent, its latest decision,  *)
(* the quote and the sign request, each in a call of its own.  Its two sign  *)
(* events are read by the timeline only.                                     *)

SignFrame == UNCHANGED <<wallet, intents, quotes, ledger, lock, latest, job, today,
                         evals, historyVars>>

FindIntent(g, i) ==
  /\ sign[g].pc = "idle"
  /\ intents[i] # NoRequest
  /\ sign' = [sign EXCEPT ![g] = [pc |-> "decision", req |-> intents[i], rev |-> 0]]
  /\ SignFrame /\ UNCHANGED signed

\* Only an approved decision goes on, and only a transfer or a swap.
MutantSignable(result) == result \in {"approved", "needs_human_approval"}
Signable(result) == result = "approved"

CheckDecision(g) ==
  LET r == sign[g].req IN
  /\ sign[g].pc = "decision"
  /\ IF Signable(latest[r.id]) /\ r.kind \in {"transfer", "swap"}
       THEN sign' = [sign EXCEPT ![g].pc = IF r.kind = "swap" THEN "preview" ELSE "store"]
       ELSE sign' = [sign EXCEPT ![g] = NoSign]
  /\ SignFrame /\ UNCHANGED signed

\* buildPreview of a swap: the stored quote must be bound to this intent.
Preview(g) ==
  LET stored == quotes[sign[g].req.quote] IN
  /\ sign[g].pc = "preview"
  /\ IF stored.bound = sign[g].req.id /\ stored.live
       THEN sign' = [sign EXCEPT ![g].pc = "store", ![g].rev = stored.rev]
       ELSE sign' = [sign EXCEPT ![g] = NoSign]
  /\ SignFrame /\ UNCHANGED signed

\* PostgresSigner: the first request of an intent leaves its row, and its caller
\* without an answer; a later one gets the row back.  A call that throws before
\* its insert is AbortSign.  (SigningStores has the answers.)
Sign(g) ==
  LET r == sign[g].req IN
  /\ sign[g].pc = "store"
  /\ sign' = [sign EXCEPT ![g] = NoSign]
  /\ signed' = IF signed[r.id].done THEN signed
                 ELSE [signed EXCEPT ![r.id] =
                         [done |-> TRUE, quote |-> r.quote, rev |-> sign[g].rev]]
  /\ SignFrame

\* A call fails or the process dies.
AbortSign(g) ==
  /\ sign[g].pc # "idle"
  /\ sign' = [sign EXCEPT ![g] = NoSign]
  /\ SignFrame /\ UNCHANGED signed

-----------------------------------------------------------------------------
Evaluate(e) ==
  \/ \E r \in Requests : Receive(e, r)
  \/ ReadPolicy(e) \/ CheckDeploy(e) \/ CheckQuote(e) \/ Price(e)
  \/ Lock(e) \/ CheckTotal(e) \/ Reserve(e) \/ Bind(e) \/ Audit(e)

RequestSign(g) ==
  \/ \E i \in Intents : FindIntent(g, i)
  \/ CheckDecision(g) \/ Preview(g) \/ Sign(g)

Next ==
  \/ CreateWallet \/ Provision \/ NextDay
  \/ \E q \in Quotes : SaveQuote(q) \/ Expire(q)
  \/ \E r \in Requests : CreateTransfer(r)
  \/ \E e \in Evaluators : Evaluate(e) \/ Abort(e)
  \/ \E g \in Signers : RequestSign(g) \/ AbortSign(g)

Spec == Init /\ [][Next]_vars

-----------------------------------------------------------------------------
(* Properties.                                                              *)

Row == [Days -> [Intents -> Nat]]
QuoteType == [rev : 0 .. MaxRev, live : BOOLEAN, bound : Intents \cup {NoIntent}]
JobType == [pc : EvalPc, req : Requests \cup {NoRequest}, usd : Values \cup {0},
            day : Days, result : Results]
SignType == [pc : SignPc, req : Requests \cup {NoRequest}, rev : 0 .. MaxRev]
SignedType == [done : BOOLEAN, quote : Quotes \cup {NoQuote}, rev : 0 .. MaxRev]

\* Every variable ranges over the values its store or run can hold, a run has a
\* request exactly when it is not idle, an intent is stored under its own id, and
\* a day's lock is held by a transaction on that day only: none is leaked.
TypeOK ==
  /\ wallet \in {"none", "saved", "ready"}
  /\ intents \in [Intents -> Requests \cup {NoRequest}]
  /\ \A i \in Intents : intents[i] # NoRequest => intents[i].id = i
  /\ quotes \in [Quotes -> QuoteType]
  /\ ledger \in Row /\ reserved \in Row
  /\ lock \in [Days -> Evaluators \cup {NoEvaluator}]
  /\ latest \in [Intents -> Results \cup {"none"}]
  /\ job \in [Evaluators -> JobType]
  /\ \A e \in Evaluators : At(e, "idle") <=> job[e].req = NoRequest
  /\ \A d \in Days, e \in Evaluators :
       lock[d] = e => job[e].pc \in {"total", "end"} /\ job[e].day = d
  /\ sign \in [Signers -> SignType]
  /\ \A g \in Signers : sign[g].pc = "idle" <=> sign[g].req = NoRequest
  /\ signed \in [Intents -> SignedType]
  /\ today \in Days
  /\ evals \in 0 .. MaxEvals
  /\ claims \subseteq Intents \X Quotes

NoRows == [i \in Intents |-> 0]

\* On no UTC day does what is on record exceed the daily cap, however many
\* evaluations reserve at once and wherever they die.
CapHolds == \A d \in Days : ledger[d] = NoRows \/ Spend!Total(ledger[d]) <= Cap

\* Reserving under the lock is one atomic compare-and-record, as the port says:
\* see SpendLedger.
LedgerIsAtomic == Spend!Spec

\* An intent the audit calls approved has consumed the cap of its day (S1).
ApprovedIsReserved ==
  \A d \in Days, i \in Intents : reserved[d][i] > 0 => ledger[d][i] > 0

\* No two intents are approved or escalated on one quote (F2).
QuoteSingleUse == \A c, d \in claims : c[2] = d[2] => c[1] = d[1]

\* A swap prepared for signing was prepared from a quote that is its own.
SignedQuoteBound ==
  \A i \in Intents : signed[i].done /\ signed[i].quote \in Quotes =>
    quotes[signed[i].quote].bound = i

\* Nothing is prepared for signing that did not consume the cap of some day.
SignedIsReserved ==
  \A i \in Intents : signed[i].done => \E d \in Days : ledger[d][i] > 0

-----------------------------------------------------------------------------
(* A claim that a second evaluation of an intent refutes.                   *)

\* The ledger may count too much and never too little
\* (evaluate-intent.usecase.ts:255-257): once no evaluation runs, it holds what the
\* audit's last approval of the intent on that day reserved, or more.
NeverUnderCounts ==
  (\A e \in Evaluators : At(e, "idle")) =>
    \A d \in Days, i \in Intents : reserved[d][i] <= ledger[d][i]
=============================================================================
