-------------------------- MODULE SecurityGateProofs --------------------------
(* Theorems about SecurityGate for every value of its constants.            *)
EXTENDS SecurityGate, TLAPS

\* A stored request, and the request of a run that is not idle, is one that was
\* sent: its id names an intent, and a swap names a quote.
LEMMA RequestFacts ==
  \A r \in Requests : /\ r.id \in Intents
                      /\ r.kind = "swap" <=> r.quote \in Quotes
                      /\ r.quote \in Quotes \cup {NoQuote}
  BY RequestsAssumption DEF RequestType

\* A value that reaches the ledger is a positive number.
LEMMA ValueFacts == \A v \in Values : v \in Nat /\ v > 0
  BY BoundAssumption

\* The job of an evaluation at a step after the first is that of a sent request.
LEMMA JobFacts ==
  ASSUME TypeOK, NEW e \in Evaluators, job[e].pc # "idle"
  PROVE  /\ job[e].req \in Requests
         /\ job[e].req.id \in Intents
         /\ job[e] \in JobType
         /\ job[e].day \in Days
         /\ job[e].usd \in Nat
         /\ job[e].req.kind = "swap" <=> job[e].req.quote \in Quotes
  <1>1. job[e] \in JobType /\ job[e].req # NoRequest
    BY DEF TypeOK, At
  <1>2. job[e].req \in Requests /\ job[e].day \in Days /\ job[e].usd \in Values \cup {0}
    BY <1>1 DEF JobType
  <1>3. job[e].usd \in Nat
    BY <1>2, ValueFacts
  <1>4. QED
    BY <1>1, <1>2, <1>3, RequestFacts

\* The same of a sign request.
LEMMA SignFacts ==
  ASSUME TypeOK, NEW g \in Signers, sign[g].pc # "idle"
  PROVE  /\ sign[g].req \in Requests
         /\ sign[g].req.id \in Intents
         /\ sign[g].req.quote \in Quotes \cup {NoQuote}
         /\ sign[g].req.kind = "swap" <=> sign[g].req.quote \in Quotes
  <1>1. sign[g] \in SignType /\ sign[g].req # NoRequest
    BY DEF TypeOK
  <1>2. sign[g].req \in Requests
    BY <1>1 DEF SignType
  <1>3. QED
    BY <1>2, RequestFacts

\* The initial state is well typed.
LEMMA InitType == Init => TypeOK
  <1> SUFFICES ASSUME Init PROVE TypeOK
    OBVIOUS
  <1> USE BoundAssumption, NullAssumption
  <1>1. 0 \in Days /\ 0 \in 0 .. MaxEvals /\ 0 \in 0 .. MaxRev
    BY DEF Days
  <1>2. ledger \in Row /\ reserved \in Row
    BY DEF Init, Row
  <1>3. quotes \in [Quotes -> QuoteType]
    BY <1>1 DEF Init, QuoteType
  <1>4. Idle \in JobType /\ Idle.pc = "idle" /\ Idle.req = NoRequest
    BY <1>1 DEF Idle, Fresh, JobType, EvalPc, Results
  <1>5. NoSign \in SignType /\ NoSign.pc = "idle" /\ NoSign.req = NoRequest
    BY <1>1 DEF NoSign, SignType, SignPc
  <1>6. signed \in [Intents -> SignedType]
    BY <1>1 DEF Init, SignedType
  <1>7. QED
    BY <1>1, <1>2, <1>3, <1>4, <1>5, <1>6 DEF Init, TypeOK, At, Results

\* What an action writes into the job of a run keeps the jobs' type.
LEMMA JobUpdate ==
  ASSUME TypeOK, NEW e \in Evaluators, NEW j \in JobType,
         j.pc = "idle" <=> j.req = NoRequest,
         job' = [job EXCEPT ![e] = j]
  PROVE  /\ job' \in [Evaluators -> JobType]
         /\ \A f \in Evaluators : job'[f].pc = "idle" <=> job'[f].req = NoRequest
  BY DEF TypeOK, At

\* A decision sends the run to its last steps with the request it has.
LEMMA DecideType ==
  ASSUME TypeOK, NEW e \in Evaluators, job[e].pc # "idle",
         NEW result \in Results, Decide(e, result)
  PROVE  \E j \in JobType :
           /\ job' = [job EXCEPT ![e] = j]
           /\ j.pc \in {"bind", "audit"} /\ j.req = job[e].req /\ j.result = result
           /\ j.usd = job[e].usd /\ j.day = job[e].day
           /\ j.pc = "bind" <=> (job[e].req.kind = "swap" /\ result # "rejected")
  <1> DEFINE to == IF job[e].req.kind = "swap" /\ result # "rejected" THEN "bind" ELSE "audit"
             j  == [job[e] EXCEPT !.result = result, !.pc = to]
  <1>1. job[e] \in JobType
    BY JobFacts
  <1>2. j \in JobType
    BY <1>1 DEF JobType, EvalPc
  <1>3. job' = [job EXCEPT ![e] = j]
    BY <1>1 DEF Decide, TypeOK, JobType
  <1>4. /\ j.pc \in {"bind", "audit"} /\ j.req = job[e].req /\ j.result = result
        /\ j.usd = job[e].usd /\ j.day = job[e].day
        /\ j.pc = "bind" <=> (job[e].req.kind = "swap" /\ result # "rejected")
    BY <1>1 DEF JobType
  <1>5. QED
    BY <1>2, <1>3, <1>4

\* A move of the run keeps its request.
LEMMA GoType ==
  ASSUME TypeOK, NEW e \in Evaluators, job[e].pc # "idle",
         NEW step \in EvalPc \ {"idle"}, Go(e, step)
  PROVE  \E j \in JobType :
           /\ job' = [job EXCEPT ![e] = j]
           /\ j.pc = step /\ j.req = job[e].req /\ j.result = job[e].result
           /\ j.usd = job[e].usd /\ j.day = job[e].day
  <1> DEFINE j == [job[e] EXCEPT !.pc = step]
  <1>1. job[e] \in JobType
    BY JobFacts
  <1>2. j \in JobType /\ job' = [job EXCEPT ![e] = j]
    BY <1>1 DEF JobType, Go, TypeOK
  <1>3. QED
    BY <1>1, <1>2 DEF JobType

\* The summary of a step of an evaluation: what it may write, and where the run
\* is afterwards.  Everything else is unchanged.
LEMMA EvaluateJob ==
  ASSUME TypeOK, NEW e \in Evaluators, Evaluate(e) \/ Abort(e)
  PROVE  \E j \in JobType : /\ job' = [job EXCEPT ![e] = j]
                            /\ j.pc = "idle" <=> j.req = NoRequest
  <1>1. ASSUME NEW r \in Requests, Receive(e, r)
        PROVE  \E j \in JobType : /\ job' = [job EXCEPT ![e] = j]
                                  /\ j.pc = "idle" <=> j.req = NoRequest
    <2>1. PICK to \in {"audit", "policy"} : job' = [job EXCEPT ![e] = Fresh(to, r)]
      BY <1>1 DEF Receive
    <2>2. 0 \in Days
      BY BoundAssumption DEF Days
    <2>3. Fresh(to, r) \in JobType /\ Fresh(to, r).pc # "idle" /\ Fresh(to, r).req = r
      BY <2>2 DEF Fresh, JobType, EvalPc, Results
    <2>4. QED
      BY <2>1, <2>3, NullAssumption
  <1>2. CASE Audit(e) \/ Abort(e)
    <2>1. Idle \in JobType /\ Idle.pc = "idle" /\ Idle.req = NoRequest
      BY BoundAssumption DEF Idle, Fresh, JobType, EvalPc, Results, Days
    <2>2. QED
      BY <1>2, <2>1 DEF Audit, Abort
  <1>3. ASSUME job[e].pc # "idle",
               NEW j \in JobType, j.pc # "idle", j.req = job[e].req,
               job' = [job EXCEPT ![e] = j]
        PROVE  \E k \in JobType : /\ job' = [job EXCEPT ![e] = k]
                                  /\ k.pc = "idle" <=> k.req = NoRequest
    <2>1. j.req # NoRequest
      BY <1>3 DEF TypeOK, At
    <2>2. QED
      BY <1>3, <2>1
  <1>4. CASE ReadPolicy(e) \/ CheckDeploy(e) \/ CheckQuote(e) \/ Lock(e) \/ Reserve(e)
    <2>1. job[e].pc # "idle" /\ job[e] \in JobType
      BY <1>4, JobFacts DEF ReadPolicy, CheckDeploy, CheckQuote, Lock, Reserve, At
    <2>2. \/ \E result \in Results : Decide(e, result)
          \/ \E step \in EvalPc \ {"idle"} : Go(e, step)
      BY <1>4, <2>1 DEF ReadPolicy, CheckDeploy, CheckQuote, Lock, Reserve, Results, EvalPc,
                        JobType
    <2>3. QED
      BY <2>1, <2>2, <1>3, DecideType, GoType
  <1>5. CASE Price(e)
    <2>1. job[e].pc # "idle" /\ job[e] \in JobType
      BY <1>5, JobFacts DEF Price, At
    <2>2. ASSUME NEW v \in Values,
                 job' = [job EXCEPT ![e].pc = "lock", ![e].usd = v, ![e].day = today]
          PROVE  \E j \in JobType : /\ job' = [job EXCEPT ![e] = j]
                                    /\ j.pc # "idle" /\ j.req = job[e].req
      <3> DEFINE j == [job[e] EXCEPT !.pc = "lock", !.usd = v, !.day = today]
      <3>1. j \in JobType /\ job' = [job EXCEPT ![e] = j] /\ j.pc # "idle" /\ j.req = job[e].req
        BY <2>1, <2>2 DEF JobType, EvalPc, TypeOK
      <3>2. QED
        BY <3>1
    <2>3. \/ \E result \in Results : Decide(e, result)
          \/ \E v \in Values :
               job' = [job EXCEPT ![e].pc = "lock", ![e].usd = v, ![e].day = today]
      BY <1>5 DEF Price, Results
    <2>4. CASE \E result \in Results : Decide(e, result)
      BY <2>1, <2>4, <1>3, DecideType
    <2>5. CASE \E v \in Values :
                 job' = [job EXCEPT ![e].pc = "lock", ![e].usd = v, ![e].day = today]
      BY <2>1, <2>5, <2>2, <1>3
    <2>6. QED
      BY <2>3, <2>4, <2>5
  <1>6. CASE CheckTotal(e)
    <2>1. job[e].pc # "idle" /\ job[e] \in JobType
      BY <1>6, JobFacts DEF CheckTotal, At
    <2>2. PICK result \in {"approved", "rejected"} :
            job' = [job EXCEPT ![e].pc = "end", ![e].result = result]
      BY <1>6 DEF CheckTotal
    <2> DEFINE j == [job[e] EXCEPT !.pc = "end", !.result = result]
    <2>3. j \in JobType /\ job' = [job EXCEPT ![e] = j] /\ j.pc # "idle" /\ j.req = job[e].req
      BY <2>1, <2>2 DEF JobType, EvalPc, Results, TypeOK
    <2>4. QED
      BY <2>1, <2>3, <1>3
  <1>7. CASE Bind(e)
    <2>1. job[e].pc # "idle" /\ job[e] \in JobType
      BY <1>7, JobFacts DEF Bind, At
    <2>2. \/ Go(e, "audit")
          \/ job' = [job EXCEPT ![e].result = "rejected", ![e].pc = "audit"]
      BY <1>7 DEF Bind
    <2> DEFINE j == [job[e] EXCEPT !.result = "rejected", !.pc = "audit"]
    <2>3. j \in JobType /\ j.pc # "idle" /\ j.req = job[e].req
      BY <2>1 DEF JobType, EvalPc, Results
    <2>4. job' = [job EXCEPT ![e].result = "rejected", ![e].pc = "audit"]
             => job' = [job EXCEPT ![e] = j]
      BY <2>1 DEF TypeOK, JobType
    <2>5. "audit" \in EvalPc \ {"idle"}
      BY DEF EvalPc
    <2>6. CASE Go(e, "audit")
      BY <2>1, <2>5, <2>6, <1>3, GoType
    <2>7. CASE job' = [job EXCEPT ![e].result = "rejected", ![e].pc = "audit"]
      <3>1. job' = [job EXCEPT ![e] = j]
        BY <2>4, <2>7
      <3>2. QED
        BY <3>1, <2>1, <2>3, <1>3
    <2>8. QED
      BY <2>2, <2>6, <2>7
  <1>8. QED
    BY <1>1, <1>2, <1>4, <1>5, <1>6, <1>7 DEF Evaluate

\* A transaction that ends writes one row of its day and frees the day's lock.
LEMMA EndType ==
  ASSUME TypeOK, NEW e \in Evaluators, job[e].pc = "end", EndTransaction(e)
  PROVE  /\ ledger' \in Row
         /\ lock' = [lock EXCEPT ![job[e].day] = NoEvaluator]
  <1>1. job[e].req.id \in Intents /\ job[e].day \in Days /\ job[e].usd \in Nat
    BY JobFacts
  <1>2. ledger \in [Days -> [Intents -> Nat]]
    BY DEF TypeOK, Row
  <1>3. ledger[job[e].day] \in [Intents -> Nat] /\ RowAfter(job[e]) \in Nat
    BY <1>1, <1>2 DEF RowAfter
  <1>4. Spend!With(ledger[job[e].day], job[e].req.id, RowAfter(job[e])) \in [Intents -> Nat]
    BY <1>1, <1>3 DEF Spend!With
  <1>5. ledger' \in [Days -> [Intents -> Nat]]
    BY <1>2, <1>4 DEF EndTransaction
  <1>6. QED
    BY <1>5 DEF EndTransaction, Unlock, Row

\* The stores an evaluation writes keep their types.
LEMMA EvaluateStores ==
  ASSUME TypeOK, NEW e \in Evaluators, Evaluate(e) \/ Abort(e)
  PROVE  /\ intents' \in [Intents -> Requests \cup {NoRequest}]
         /\ \A i \in Intents : intents'[i] # NoRequest => intents'[i].id = i
         /\ quotes' \in [Quotes -> QuoteType]
         /\ ledger' \in Row /\ reserved' \in Row
         /\ latest' \in [Intents -> Results \cup {"none"}]
         /\ evals' \in 0 .. MaxEvals
         /\ claims' \subseteq Intents \X Quotes
  <1>1. CASE UNCHANGED <<intents, quotes, ledger, reserved, latest, evals, claims>>
    BY <1>1 DEF TypeOK
  <1>2. ASSUME NEW r \in Requests, Receive(e, r)
        PROVE  /\ intents' \in [Intents -> Requests \cup {NoRequest}]
               /\ \A i \in Intents : intents'[i] # NoRequest => intents'[i].id = i
               /\ evals' \in 0 .. MaxEvals
               /\ UNCHANGED <<quotes, ledger, reserved, latest, claims>>
    <2>1. evals' \in 0 .. MaxEvals
      BY <1>2, BoundAssumption DEF Receive, TypeOK
    <2>2. r.id \in Intents
      BY RequestFacts
    <2>3. QED
      BY <1>2, <2>1, <2>2 DEF Receive, TypeOK, historyVars
  <1>3. CASE Reserve(e)
    BY <1>3, EndType DEF Reserve, TypeOK, At, historyVars
  <1>4. CASE Abort(e)
    <2>1. ledger' \in Row
      BY <1>4, EndType DEF Abort, TypeOK, At
    <2>2. QED
      BY <1>4, <2>1 DEF Abort, TypeOK, historyVars
  <1>5. CASE Bind(e)
    <2>1. job[e].req.id \in Intents
      BY <1>5, JobFacts DEF Bind, At
    <2>2. quotes' \in [Quotes -> QuoteType]
      BY <1>5, <2>1 DEF Bind, TypeOK, QuoteType
    <2>3. QED
      BY <1>5, <2>2 DEF Bind, TypeOK, historyVars
  <1>6. CASE Audit(e)
    <2>1. /\ job[e].req \in Requests /\ job[e].req.id \in Intents
          /\ job[e] \in JobType /\ job[e].day \in Days /\ job[e].usd \in Nat
          /\ job[e].req.kind = "swap" <=> job[e].req.quote \in Quotes
      BY <1>6, JobFacts DEF Audit, At
    <2>2. latest' \in [Intents -> Results \cup {"none"}]
      BY <1>6, <2>1 DEF Audit, TypeOK, JobType
    <2>3. claims' \subseteq Intents \X Quotes
      BY <1>6, <2>1 DEF Audit, TypeOK
    <2>4. reserved' \in Row
      <3>1. reserved[job[e].day] \in [Intents -> Nat]
        BY <2>1 DEF TypeOK, Row
      <3>2. Spend!With(reserved[job[e].day], job[e].req.id, job[e].usd) \in [Intents -> Nat]
        BY <2>1, <3>1 DEF Spend!With
      <3>3. QED
        BY <1>6, <3>2 DEF Audit, TypeOK, Row
    <2>5. QED
      BY <1>6, <2>2, <2>3, <2>4 DEF Audit, TypeOK
  <1>7. CASE ReadPolicy(e) \/ CheckDeploy(e) \/ CheckQuote(e) \/ Price(e) \/ Lock(e)
             \/ CheckTotal(e)
    BY <1>1, <1>7 DEF ReadPolicy, CheckDeploy, CheckQuote, Price, Lock, CheckTotal, historyVars
  <1>8. QED
    <2>1. CASE \E r \in Requests : Receive(e, r)
      BY <1>2, <2>1 DEF TypeOK
    <2>2. QED
      BY <1>3, <1>4, <1>5, <1>6, <1>7, <2>1 DEF Evaluate

\* A step of an evaluation leaves the others' jobs alone.
LEMMA EvaluateAlone ==
  ASSUME TypeOK, NEW e \in Evaluators, Evaluate(e) \/ Abort(e)
  PROVE  /\ job' \in [Evaluators -> JobType]
         /\ \A f \in Evaluators : job'[f].pc = "idle" <=> job'[f].req = NoRequest
         /\ \A f \in Evaluators \ {e} : job'[f] = job[f]
  BY EvaluateJob, JobUpdate DEF TypeOK

\* A run inside its transaction holds the lock of its day: with TypeOK, that day's
\* lock excludes every other transaction on it.
Locked == \A e \in Evaluators : job[e].pc \in {"total", "end"} => lock[job[e].day] = e

LockTypeOK ==
  /\ lock \in [Days -> Evaluators \cup {NoEvaluator}]
  /\ \A d \in Days, e \in Evaluators :
       lock[d] = e => job[e].pc \in {"total", "end"} /\ job[e].day = d

\* Taking and leaving the lock of a day keeps it exclusive.
LEMMA LockStep ==
  ASSUME TypeOK, Locked, NEW e \in Evaluators, Evaluate(e) \/ Abort(e)
  PROVE  LockTypeOK' /\ Locked'
  <1>0. /\ job' \in [Evaluators -> JobType]
        /\ \A f \in Evaluators \ {e} : job'[f] = job[f]
    BY EvaluateAlone
  <1>1. LockTypeOK
    BY DEF TypeOK, LockTypeOK
  <1>2. ASSUME job[e].pc \notin {"total", "end"}, job'[e].pc \notin {"total", "end"},
               UNCHANGED lock
        PROVE  LockTypeOK' /\ Locked'
    BY <1>0, <1>1, <1>2 DEF LockTypeOK, Locked
  <1>3. CASE Lock(e)
    <2>1. job[e].day \in Days /\ job[e].pc = "lock" /\ lock[job[e].day] = NoEvaluator
      BY <1>3, JobFacts DEF Lock, LockFree, At
    <2>2. lock' = [lock EXCEPT ![job[e].day] = e]
      BY <1>3 DEF Lock
    <2>3. job'[e].pc = "total" /\ job'[e].day = job[e].day
      BY <1>3 DEF Lock, Go, TypeOK, JobType
    <2>4. LockTypeOK'
      BY <1>0, <1>1, <2>1, <2>2, <2>3, NullAssumption DEF LockTypeOK
    <2>5. Locked'
      BY <1>0, <1>1, <2>1, <2>2, <2>3, NullAssumption DEF Locked, LockTypeOK
    <2>6. QED
      BY <2>4, <2>5
  <1>4. CASE CheckTotal(e)
    <2>1. job[e].pc = "total" /\ job'[e].pc = "end" /\ job'[e].day = job[e].day
      BY <1>4 DEF CheckTotal, At, TypeOK, JobType
    <2>2. lock' = lock
      BY <1>4 DEF CheckTotal
    <2>3. QED
      BY <1>0, <1>1, <2>1, <2>2 DEF LockTypeOK, Locked
  <1>5. ASSUME job[e].pc = "end", EndTransaction(e), job'[e].pc \notin {"total", "end"}
        PROVE  LockTypeOK' /\ Locked'
    <2>1. lock' = [lock EXCEPT ![job[e].day] = NoEvaluator]
      BY <1>5 DEF EndTransaction, Unlock
    <2>2. job[e].day \in Days /\ lock[job[e].day] = e
      BY <1>5, JobFacts DEF Locked
    <2>3. LockTypeOK'
      BY <1>0, <1>1, <1>5, <2>1, <2>2, NullAssumption DEF LockTypeOK
    <2>4. Locked'
      BY <1>0, <1>1, <1>5, <2>1, <2>2, NullAssumption DEF Locked, LockTypeOK
    <2>5. QED
      BY <2>3, <2>4
  <1>6. CASE Reserve(e)
    <2>1. job[e].pc = "end" /\ EndTransaction(e) /\ job[e].result \in Results
      BY <1>6, JobFacts DEF Reserve, At, JobType
    <2>2. job'[e].pc \notin {"total", "end"}
      BY <1>6, <2>1, DecideType DEF Reserve, TypeOK
    <2>3. QED
      BY <1>5, <2>1, <2>2
  <1>7. CASE Abort(e)
    <2>1. job'[e].pc = "idle"
      BY <1>7 DEF Abort, TypeOK, Idle, Fresh
    <2>2. CASE At(e, "end") /\ EndTransaction(e)
      BY <1>5, <2>1, <2>2 DEF At
    <2>3. CASE lock' = [d \in Days |-> IF lock[d] = e THEN NoEvaluator ELSE lock[d]]
      <3>1. \A d \in Days : lock'[d] = NoEvaluator \/ (lock'[d] = lock[d] /\ lock[d] # e)
        BY <2>3
      <3>2. lock' \in [Days -> Evaluators \cup {NoEvaluator}]
        BY <1>1, <2>3 DEF LockTypeOK
      <3>3. \A f \in Evaluators : job[f].pc = "idle" \/ job[f].day \in Days
        BY JobFacts
      <3>4. LockTypeOK'
        BY <1>0, <1>1, <3>1, <3>2, NullAssumption DEF LockTypeOK
      <3>5. \A f \in Evaluators \ {e} : job[f].pc \in {"total", "end"} => lock'[job[f].day] = f
        BY <2>3, <3>3 DEF Locked
      <3>6. Locked'
        BY <1>0, <2>1, <3>5 DEF Locked
      <3>7. QED
        BY <3>4, <3>6
    <2>4. QED
      BY <1>7, <2>2, <2>3 DEF Abort
  <1>8. CASE ReadPolicy(e) \/ CheckDeploy(e) \/ CheckQuote(e)
    <2>1. job[e].pc \notin {"idle", "total", "end"} /\ UNCHANGED lock
      BY <1>8 DEF ReadPolicy, CheckDeploy, CheckQuote, At
    <2>2. \/ \E result \in Results : Decide(e, result)
          \/ \E step \in {"deploy", "quote", "price"} : Go(e, step)
      BY <1>8 DEF ReadPolicy, CheckDeploy, CheckQuote, Results
    <2>3. job'[e].pc \notin {"total", "end"}
      BY <2>1, <2>2, DecideType DEF Go, TypeOK, JobType
    <2>4. QED
      BY <1>2, <2>1, <2>3
  <1>9. CASE Price(e)
    <2>1. job[e].pc = "price" /\ UNCHANGED lock
      BY <1>9 DEF Price, At
    <2>2. \/ \E result \in Results : Decide(e, result)
          \/ \E v \in Values :
               job' = [job EXCEPT ![e].pc = "lock", ![e].usd = v, ![e].day = today]
      BY <1>9 DEF Price, Results
    <2>3. ASSUME NEW v \in Values,
                 job' = [job EXCEPT ![e].pc = "lock", ![e].usd = v, ![e].day = today]
          PROVE  job'[e].pc = "lock"
      BY <2>3 DEF TypeOK, JobType
    <2>4. ASSUME NEW result \in Results, Decide(e, result)
          PROVE  job'[e].pc \in {"bind", "audit"}
      BY <2>1, <2>4, DecideType DEF TypeOK
    <2>5. QED
      BY <1>2, <2>1, <2>2, <2>3, <2>4
  <1>10. CASE Bind(e) \/ Audit(e) \/ \E r \in Requests : Receive(e, r)
    <2>1. job[e].pc \in {"idle", "bind", "audit"} /\ UNCHANGED lock
      BY <1>10 DEF Bind, Audit, Receive, At
    <2>2. job'[e].pc \in {"idle", "audit", "policy"}
      BY <1>10 DEF Bind, Audit, Receive, Go, TypeOK, JobType, Idle, Fresh
    <2>3. QED
      BY <1>2, <2>1, <2>2
  <1>11. QED
    BY <1>3, <1>4, <1>6, <1>7, <1>8, <1>9, <1>10 DEF Evaluate

\* Only a swap has a quote to preview.
SwapPreviewed == \A g \in Signers : sign[g].pc = "preview" => sign[g].req.kind = "swap"

\* The sign request's step writes its own state and, at the end, the store.
LEMMA SignStep ==
  ASSUME TypeOK, SwapPreviewed, NEW g \in Signers, RequestSign(g) \/ AbortSign(g)
  PROVE  /\ SwapPreviewed'
         /\ sign' \in [Signers -> SignType]
         /\ \A h \in Signers : sign'[h].pc = "idle" <=> sign'[h].req = NoRequest
         /\ signed' \in [Intents -> SignedType]
  <1>0. /\ sign \in [Signers -> SignType] /\ signed \in [Intents -> SignedType]
        /\ \A h \in Signers : sign[h].pc = "idle" <=> sign[h].req = NoRequest
    BY DEF TypeOK
  <1>1. NoSign \in SignType /\ NoSign.pc = "idle" /\ NoSign.req = NoRequest
    BY BoundAssumption DEF NoSign, SignType, SignPc
  <1>2. ASSUME sign' = [sign EXCEPT ![g] = NoSign]
        PROVE  /\ sign' \in [Signers -> SignType] /\ SwapPreviewed'
               /\ \A h \in Signers : sign'[h].pc = "idle" <=> sign'[h].req = NoRequest
    BY <1>0, <1>1, <1>2 DEF SwapPreviewed
  <1>3. ASSUME NEW i \in Intents, FindIntent(g, i)
        PROVE  /\ sign' \in [Signers -> SignType] /\ SwapPreviewed'
               /\ \A h \in Signers : sign'[h].pc = "idle" <=> sign'[h].req = NoRequest
    <2> DEFINE s == [pc |-> "decision", req |-> intents[i], rev |-> 0]
    <2>1. intents[i] \in Requests \cup {NoRequest} /\ intents[i] # NoRequest
      BY <1>3 DEF FindIntent, TypeOK
    <2>2. s \in SignType /\ s.pc = "decision" /\ s.req # NoRequest
      BY <2>1, <1>1 DEF NoSign, SignType, SignPc
    <2>3. sign' = [sign EXCEPT ![g] = s]
      BY <1>3 DEF FindIntent
    <2> HIDE DEF s
    <2>4. QED
      BY <1>0, <2>2, <2>3 DEF SwapPreviewed
  <1>4. CASE CheckDecision(g)
    <2>1. CASE sign' = [sign EXCEPT ![g] = NoSign]
      BY <1>0, <1>2, <1>4, <2>1 DEF CheckDecision
    <2>2. CASE \/ /\ sign' = [sign EXCEPT ![g].pc = "preview"]
                  /\ sign[g].req.kind = "swap"
               \/ sign' = [sign EXCEPT ![g].pc = "store"]
      BY <1>0, <1>4, <2>2 DEF CheckDecision, SignType, SignPc, SwapPreviewed
    <2>3. QED
      BY <1>4, <2>1, <2>2 DEF CheckDecision
  <1>5. CASE Preview(g)
    <2>1. CASE sign' = [sign EXCEPT ![g] = NoSign]
      BY <1>0, <1>2, <1>5, <2>1 DEF Preview
    <2>2. CASE sign' = [sign EXCEPT ![g].pc = "store",
                                    ![g].rev = quotes[sign[g].req.quote].rev]
      <3>1. sign[g].req.quote \in Quotes
        BY <1>5, SignFacts DEF Preview, SwapPreviewed
      <3>2. quotes[sign[g].req.quote].rev \in 0 .. MaxRev
        BY <3>1 DEF TypeOK, QuoteType
      <3>3. QED
        BY <1>0, <1>5, <2>2, <3>2 DEF Preview, SignType, SignPc, SwapPreviewed
    <2>3. QED
      BY <1>5, <2>1, <2>2 DEF Preview
  <1>6. CASE Sign(g)
    <2>1. sign[g].req.id \in Intents /\ sign[g].req.quote \in Quotes \cup {NoQuote}
      BY <1>6, SignFacts DEF Sign
    <2>2. [done |-> TRUE, quote |-> sign[g].req.quote, rev |-> sign[g].rev] \in SignedType
      BY <1>0, <2>1 DEF SignedType, SignType
    <2>3. signed' \in [Intents -> SignedType]
      BY <1>0, <1>6, <2>1, <2>2 DEF Sign
    <2>4. QED
      BY <1>2, <1>6, <2>3 DEF Sign
  <1>7. CASE AbortSign(g)
    BY <1>0, <1>2, <1>7 DEF AbortSign
  <1>8. CASE \E i \in Intents : FindIntent(g, i)
    BY <1>0, <1>3, <1>8 DEF FindIntent
  <1>9. QED
    BY <1>4, <1>5, <1>6, <1>7, <1>8 DEF RequestSign, CheckDecision, Preview

-----------------------------------------------------------------------------
(* Type correctness, with the exclusive lock it needs.                      *)

Base == TypeOK /\ Locked /\ SwapPreviewed

LEMMA InitBase == Init => Base
  BY InitType, NullAssumption DEF Init, Base, Locked, SwapPreviewed, Idle, Fresh, NoSign

LEMMA NextBase == Base /\ [Next]_vars => Base'
  <1> SUFFICES ASSUME Base, [Next]_vars PROVE Base'
    OBVIOUS
  <1>0. TypeOK /\ Locked /\ SwapPreviewed
    BY DEF Base
  <1>1. ASSUME NEW e \in Evaluators, Evaluate(e) \/ Abort(e)
        PROVE  Base'
    <2>1. UNCHANGED <<wallet, sign, signed, today>>
      BY <1>1 DEF Evaluate, Abort, Receive, ReadPolicy, CheckDeploy, CheckQuote, Price, Lock,
                  CheckTotal, Reserve, Bind, Audit, EvalFrame
    <2>2. LockTypeOK' /\ Locked'
      BY <1>0, <1>1, LockStep
    <2>3. TypeOK'
      BY <1>0, <1>1, <2>1, <2>2, EvaluateAlone, EvaluateStores DEF TypeOK, LockTypeOK, At
    <2>4. QED
      BY <1>0, <2>1, <2>2, <2>3 DEF Base, SwapPreviewed
  <1>2. ASSUME NEW g \in Signers, RequestSign(g) \/ AbortSign(g)
        PROVE  Base'
    <2>1. SignFrame
      BY <1>2 DEF RequestSign, AbortSign, FindIntent, CheckDecision, Preview, Sign
    <2>2. QED
      BY <1>0, <1>2, <2>1, SignStep DEF Base, TypeOK, Locked, At, SignFrame, historyVars
  <1>3. ASSUME NEW q \in Quotes, SaveQuote(q) \/ Expire(q)
        PROVE  Base'
    <2>1. quotes' \in [Quotes -> QuoteType]
      <3>1. CASE SaveQuote(q)
        <4>1. quotes[q] \in QuoteType /\ quotes[q].rev < MaxRev
          BY <1>0, <3>1 DEF SaveQuote, TypeOK
        <4>2. [rev |-> quotes[q].rev + 1, live |-> TRUE, bound |-> quotes[q].bound] \in QuoteType
          BY <4>1, BoundAssumption DEF QuoteType
        <4>3. QED
          BY <1>0, <3>1, <4>2 DEF SaveQuote, Kept, TypeOK
      <3>2. CASE Expire(q)
        <4>1. quotes[q] \in QuoteType /\ quotes \in [Quotes -> QuoteType]
          BY <1>0 DEF TypeOK
        <4>2. [quotes[q] EXCEPT !.live = FALSE] \in QuoteType
          BY <4>1 DEF QuoteType
        <4>3. quotes' = [quotes EXCEPT ![q] = [quotes[q] EXCEPT !.live = FALSE]]
          BY <3>2, <4>1 DEF Expire, QuoteType
        <4>4. QED
          BY <4>1, <4>2, <4>3
      <3>3. QED
        BY <1>3, <3>1, <3>2
    <2>2. UNCHANGED <<wallet, intents, ledger, lock, latest, signed, job, sign, today,
                      evals, historyVars>>
      BY <1>3 DEF SaveQuote, Expire
    <2>3. QED
      BY <1>0, <2>1, <2>2 DEF Base, TypeOK, Locked, SwapPreviewed, At, historyVars
  <1>4. ASSUME NEW r \in Requests, CreateTransfer(r)
        PROVE  Base'
    <2>1. r.id \in Intents
      BY RequestFacts
    <2>2. /\ intents' \in [Intents -> Requests \cup {NoRequest}]
          /\ \A i \in Intents : intents'[i] # NoRequest => intents'[i].id = i
      BY <1>0, <1>4, <2>1 DEF CreateTransfer, TypeOK
    <2>3. QED
      BY <1>0, <1>4, <2>2 DEF CreateTransfer, Base, TypeOK, Locked, SwapPreviewed, At,
                              historyVars
  <1>5. CASE CreateWallet \/ Provision
    BY <1>0, <1>5 DEF CreateWallet, Provision, Base, TypeOK, Locked, SwapPreviewed, At,
                      storeVars, historyVars
  <1>6. CASE NextDay
    <2>1. today \in Days /\ today < MaxDay /\ today' = today + 1
      BY <1>0, <1>6 DEF NextDay, TypeOK
    <2>2. today' \in Days
      BY <2>1, BoundAssumption DEF Days
    <2>3. QED
      BY <1>0, <1>6, <2>2 DEF NextDay, Base, TypeOK, Locked, SwapPreviewed, At, storeVars,
                              historyVars
  <1>7. CASE UNCHANGED vars
    BY <1>0, <1>7 DEF vars, storeVars, historyVars, Base, TypeOK, Locked, SwapPreviewed, At
  <1>8. QED
    BY <1>1, <1>2, <1>3, <1>4, <1>5, <1>6, <1>7 DEF Next

LEMMA BaseInvariant == Spec => []Base
  <1>1. QED
    BY InitBase, NextBase, PTL DEF Spec

\* Every store and every run keeps to the values its code can hold, whatever
\* requests, clocks, failures and interleavings come.
THEOREM TypeCorrect == Spec => []TypeOK
  <1>1. Base => TypeOK
    BY DEF Base
  <1>2. QED
    BY <1>1, BaseInvariant, PTL

-----------------------------------------------------------------------------
(* The ledger: what a transaction has checked stays true until it commits,   *)
(* because no other transaction on its day commits in between.               *)

\* A run that reserves has a value, and one that passed the check still passes it.
Fitting ==
  \A e \in Evaluators :
    /\ job[e].pc \in {"lock", "total", "end"} => job[e].usd \in Values
    /\ job[e].pc = "end" /\ job[e].result = "approved" =>
         Fits(ledger[job[e].day], job[e].req.id, job[e].usd)

\* The steps before the transaction's check touch no store but the intents and the
\* lock, grant nothing, and send no unbound swap to the audit.
LEMMA EarlyStep ==
  ASSUME TypeOK, Fitting, NEW e \in Evaluators,
         \/ \E r \in Requests : Receive(e, r)
         \/ ReadPolicy(e) \/ CheckDeploy(e) \/ CheckQuote(e) \/ Price(e) \/ Lock(e)
  PROVE  /\ UNCHANGED <<quotes, ledger, latest, historyVars>>
         /\ job'[e].pc \notin {"idle", "end"}
         /\ job'[e].pc \in {"lock", "total"} => job'[e].usd \in Values
         /\ job'[e].pc \in {"bind", "audit"} => job'[e].result # "approved"
         /\ job'[e].pc = "audit" /\ job'[e].req.kind = "swap" => job'[e].result = "rejected"
  <1>1. UNCHANGED <<quotes, ledger, latest, historyVars>>
    BY DEF Receive, ReadPolicy, CheckDeploy, CheckQuote, Price, Lock
  <1> DEFINE Early == /\ job'[e].pc \notin {"idle", "end"}
                      /\ job'[e].pc \in {"lock", "total"} => job'[e].usd \in Values
                      /\ job'[e].pc \in {"bind", "audit"} => job'[e].result # "approved"
                      /\ job'[e].pc = "audit" /\ job'[e].req.kind = "swap"
                           => job'[e].result = "rejected"
  <1>2. ASSUME NEW r \in Requests, Receive(e, r)
        PROVE  Early
    BY <1>2 DEF Receive, Fresh, TypeOK
  <1>3. ASSUME job[e].pc # "idle", NEW result \in Results \ {"approved"}, Decide(e, result)
        PROVE  Early
    <2>1. PICK j \in JobType :
            /\ job' = [job EXCEPT ![e] = j]
            /\ j.pc \in {"bind", "audit"} /\ j.req = job[e].req /\ j.result = result
            /\ j.pc = "bind" <=> (job[e].req.kind = "swap" /\ result # "rejected")
      BY <1>3, DecideType
    <2>2. job'[e] = j
      BY <2>1 DEF TypeOK
    <2>3. QED
      BY <1>3, <2>1, <2>2
  <1>4. ASSUME job[e].pc # "idle", NEW step \in {"deploy", "quote", "price"}, Go(e, step)
        PROVE  Early
    <2>1. step \in EvalPc \ {"idle"}
      BY DEF EvalPc
    <2>2. PICK j \in JobType : job' = [job EXCEPT ![e] = j] /\ j.pc = step
      BY <1>4, <2>1, GoType
    <2>3. job'[e] = j
      BY <2>2 DEF TypeOK
    <2>4. QED
      BY <2>2, <2>3
  <1>5. CASE ReadPolicy(e) \/ CheckDeploy(e) \/ CheckQuote(e)
    <2>1. job[e].pc # "idle"
      BY <1>5 DEF ReadPolicy, CheckDeploy, CheckQuote, At
    <2>2. \/ \E result \in Results \ {"approved"} : Decide(e, result)
          \/ \E step \in {"deploy", "quote", "price"} : Go(e, step)
      BY <1>5 DEF ReadPolicy, CheckDeploy, CheckQuote, Results
    <2>3. QED
      BY <1>1, <1>3, <1>4, <2>1, <2>2
  <1>6. CASE Price(e)
    <2>1. job[e].pc # "idle"
      BY <1>6 DEF Price, At
    <2>2. \/ \E result \in Results \ {"approved"} : Decide(e, result)
          \/ \E v \in Values :
               job' = [job EXCEPT ![e].pc = "lock", ![e].usd = v, ![e].day = today]
      BY <1>6 DEF Price, Results
    <2>3. ASSUME NEW v \in Values,
                 job' = [job EXCEPT ![e].pc = "lock", ![e].usd = v, ![e].day = today]
          PROVE  Early
      <3>1. job'[e].pc = "lock" /\ job'[e].usd = v
        BY <2>3 DEF TypeOK, JobType
      <3>2. QED
        BY <3>1
    <2>4. QED
      BY <1>1, <1>3, <2>1, <2>2, <2>3
  <1>7. CASE Lock(e)
    <2>1. job'[e].pc = "total" /\ job'[e].usd = job[e].usd /\ job[e].pc = "lock"
      BY <1>7 DEF Lock, Go, At, TypeOK, JobType
    <2>2. QED
      BY <1>1, <2>1 DEF Fitting
  <1>8. QED
    BY <1>1, <1>2, <1>5, <1>6, <1>7

\* The end of a transaction is one reservation of the abstract ledger, or nothing.
LEMMA EndIsReserve ==
  ASSUME TypeOK, Fitting, NEW e \in Evaluators, job[e].pc = "end", EndTransaction(e)
  PROVE  /\ \A d \in Days \ {job[e].day} : ledger'[d] = ledger[d]
         /\ \/ ledger' = ledger /\ job[e].result # "approved"
            \/ /\ Spend!Reserve(job[e].day, job[e].req.id, job[e].usd)
               /\ job[e].usd \in Values /\ job[e].result = "approved"
               /\ ledger'[job[e].day] = [ledger[job[e].day] EXCEPT ![job[e].req.id] = job[e].usd]
  <1> DEFINE d == job[e].day
             i == job[e].req.id
             v == job[e].usd
  <1>1. d \in Days /\ i \in Intents /\ v \in Values
    BY JobFacts DEF Fitting
  <1>2. ledger \in [Days -> [Intents -> Nat]] /\ ledger[d] \in [Intents -> Nat]
    BY <1>1 DEF TypeOK, Row
  <1>3. ledger' = [ledger EXCEPT ![d] = Spend!With(ledger[d], i, RowAfter(job[e]))]
    BY DEF EndTransaction
  <1>4. CASE job[e].result = "approved"
    <2>1. Fits(ledger[d], i, v) /\ RowAfter(job[e]) = v
      BY <1>4 DEF Fitting, RowAfter
    <2>2. Spend!Reserve(d, i, v)
      BY <1>3, <2>1 DEF Fits, Spend!Reserve
    <2>3. ledger'[d] = [ledger[d] EXCEPT ![i] = v]
      BY <1>1, <1>2, <1>3, <2>1 DEF Spend!With
    <2>4. QED
      BY <1>1, <1>2, <1>3, <1>4, <2>2, <2>3
  <1>5. CASE job[e].result # "approved"
    <2>1. RowAfter(job[e]) = ledger[d][i]
      BY <1>5 DEF RowAfter
    <2>2. Spend!With(ledger[d], i, ledger[d][i]) = ledger[d]
      BY <1>1, <1>2 DEF Spend!With
    <2>3. ledger' = ledger
      BY <1>1, <1>2, <1>3, <2>1, <2>2
    <2>4. QED
      BY <1>5, <2>3
  <1>6. QED
    BY <1>4, <1>5

\* No step undoes a check that a transaction has passed, and the ledger moves only
\* by reservations of the abstract one.
LEMMA LedgerStep ==
  ASSUME Base, Fitting, [Next]_vars
  PROVE  Fitting' /\ [Spend!Next]_ledger
  <1>0. TypeOK /\ Locked /\ TypeOK'
    BY NextBase DEF Base
  <1>1. ASSUME UNCHANGED <<job, ledger>>
        PROVE  Fitting' /\ [Spend!Next]_ledger
    BY <1>1 DEF Fitting
  <1>2. ASSUME NEW e \in Evaluators, Evaluate(e) \/ Abort(e)
        PROVE  Fitting' /\ [Spend!Next]_ledger
    <2>0. \A f \in Evaluators \ {e} : job'[f] = job[f]
      BY <1>0, <1>2, EvaluateAlone
    <2>1. ASSUME UNCHANGED ledger,
                 job'[e].pc \in {"lock", "total", "end"} => job'[e].usd \in Values,
                 job'[e].pc = "end" /\ job'[e].result = "approved" =>
                   Fits(ledger[job'[e].day], job'[e].req.id, job'[e].usd)
          PROVE  Fitting' /\ [Spend!Next]_ledger
      BY <2>0, <2>1 DEF Fitting
    <2>2. ASSUME job[e].pc = "end", EndTransaction(e),
                 job'[e].pc \notin {"lock", "total", "end"}
          PROVE  Fitting' /\ [Spend!Next]_ledger
      <3>1. /\ \A d \in Days \ {job[e].day} : ledger'[d] = ledger[d]
            /\ \/ ledger' = ledger
               \/ Spend!Reserve(job[e].day, job[e].req.id, job[e].usd) /\ job[e].usd \in Values
        BY <1>0, <2>2, EndIsReserve
      <3>2. job[e].day \in Days /\ job[e].req.id \in Intents
        BY <1>0, <2>2, JobFacts
      <3>3. [Spend!Next]_ledger
        BY <3>1, <3>2 DEF Spend!Next
      <3>4. ASSUME NEW f \in Evaluators \ {e}, job[f].pc = "end"
            PROVE  ledger'[job[f].day] = ledger[job[f].day]
        <4>1. job[f].day \in Days
          BY <1>0, <3>4, JobFacts
        <4>2. job[f].day # job[e].day
          BY <1>0, <2>2, <3>4 DEF Locked
        <4>3. QED
          BY <3>1, <4>1, <4>2
      <3>5. Fitting'
        BY <2>0, <2>2, <3>4 DEF Fitting
      <3>6. QED
        BY <3>3, <3>5
    <2>3. CASE \/ \E r \in Requests : Receive(e, r)
               \/ ReadPolicy(e) \/ CheckDeploy(e) \/ CheckQuote(e) \/ Price(e) \/ Lock(e)
      BY <1>0, <2>1, <2>3, EarlyStep
    <2>4. CASE CheckTotal(e)
      <3> DEFINE fits == Fits(ledger[job[e].day], job[e].req.id, job[e].usd)
      <3>1. /\ job[e].pc = "total" /\ UNCHANGED ledger
            /\ job' = [job EXCEPT ![e].pc = "end",
                                  ![e].result = IF fits THEN "approved" ELSE "rejected"]
        BY <2>4 DEF CheckTotal, At
      <3> HIDE DEF fits
      <3>2. /\ job'[e].usd = job[e].usd /\ job'[e].day = job[e].day /\ job'[e].req = job[e].req
            /\ job'[e].result = "approved" => fits
        BY <1>0, <3>1 DEF TypeOK, JobType
      <3>3. job[e].usd \in Values
        BY <3>1 DEF Fitting
      <3>4. QED
        BY <2>1, <3>1, <3>2, <3>3 DEF fits
    <2>5. CASE Reserve(e)
      <3>1. job[e].pc = "end" /\ EndTransaction(e) /\ job[e].result \in Results
        BY <1>0, <2>5, JobFacts DEF Reserve, At, JobType
      <3>2. job'[e].pc \in {"bind", "audit"}
        BY <1>0, <2>5, <3>1, DecideType DEF Reserve, TypeOK
      <3>3. QED
        BY <2>2, <3>1, <3>2
    <2>6. CASE Bind(e) \/ Audit(e)
      <3>1. UNCHANGED ledger /\ job'[e].pc \in {"idle", "audit"}
        BY <1>0, <2>6 DEF Bind, Audit, Go, TypeOK, JobType, Idle, Fresh
      <3>2. QED
        BY <2>1, <3>1
    <2>7. CASE Abort(e)
      <3>1. job'[e].pc = "idle"
        BY <1>0, <2>7 DEF Abort, TypeOK, Idle, Fresh
      <3>2. QED
        BY <2>1, <2>2, <2>7, <3>1 DEF Abort, At
    <2>8. QED
      BY <1>2, <2>3, <2>4, <2>5, <2>6, <2>7 DEF Evaluate
  <1>3. QED
    <2>1. CASE \E e \in Evaluators : Evaluate(e) \/ Abort(e)
      BY <1>2, <2>1
    <2>2. CASE \E g \in Signers : RequestSign(g) \/ AbortSign(g)
      BY <1>1, <2>2 DEF RequestSign, AbortSign, FindIntent, CheckDecision, Preview, Sign, SignFrame
    <2>3. CASE \/ CreateWallet \/ Provision \/ NextDay \/ UNCHANGED vars
               \/ \E q \in Quotes : SaveQuote(q) \/ Expire(q)
               \/ \E r \in Requests : CreateTransfer(r)
      BY <1>1, <2>3 DEF CreateWallet, Provision, NextDay, SaveQuote, Expire, CreateTransfer,
                        storeVars, vars
    <2>4. QED
      BY <2>1, <2>2, <2>3 DEF Next

LEMMA FittingInvariant == Spec => [](Base /\ Fitting)
  <1>1. Init => Fitting
    BY DEF Init, Fitting, Idle, Fresh
  <1>2. Base /\ Fitting /\ [Next]_vars => Base' /\ Fitting'
    BY NextBase, LedgerStep
  <1>3. QED
    BY <1>1, <1>2, InitBase, PTL DEF Spec

\* Reserving in a transaction under the advisory lock of the day implements the
\* atomic compare-and-record the SpendLedger port promises.
THEOREM LedgerAtomic == Spec => LedgerIsAtomic
  <1>1. Init => Spend!Init
    BY DEF Init, Spend!Init
  <1>2. Base /\ Fitting /\ [Next]_vars => [Spend!Next]_ledger
    BY LedgerStep
  <1>3. QED
    BY <1>1, <1>2, FittingInvariant, PTL DEF Spec, LedgerIsAtomic, Spend!Spec

\* A reservation of the abstract ledger respects the cap.
LEMMA ReserveCaps ==
  ASSUME Base, CapHolds, [Spend!Next]_ledger, TypeOK'
  PROVE  CapHolds'
  <1>1. CASE UNCHANGED ledger
    BY <1>1 DEF CapHolds
  <1>2. ASSUME NEW d \in Days, NEW i \in Intents, NEW v \in Values, Spend!Reserve(d, i, v)
        PROVE  CapHolds'
    <2>1. ledger' = [ledger EXCEPT ![d] = Spend!With(ledger[d], i, v)]
          /\ Spend!Total(Spend!With(ledger[d], i, v)) <= Cap
      BY <1>2 DEF Spend!Reserve
    <2>2. \A c \in Days : ledger'[c] = IF c = d THEN Spend!With(ledger[d], i, v) ELSE ledger[c]
      BY <2>1 DEF Base, TypeOK, Row
    <2>3. QED
      BY <2>1, <2>2 DEF CapHolds
  <1>3. QED
    BY <1>1, <1>2 DEF Spend!Next

\* The day's cap is never exceeded, however many evaluations reserve at once and
\* wherever they die.
THEOREM CapNeverExceeded == Spec => []CapHolds
  <1>1. Init => CapHolds
    BY DEF Init, CapHolds, NoRows
  <1>2. Base /\ Fitting /\ CapHolds /\ [Next]_vars => CapHolds'
    BY LedgerStep, NextBase, ReserveCaps DEF Base
  <1>3. QED
    BY <1>1, <1>2, FittingInvariant, PTL DEF Spec

-----------------------------------------------------------------------------
(* Quotes: a binding, once made, never changes.                             *)

\* A swap on its way to the audit with anything but a rejection has its quote.
BoundJobs ==
  \A e \in Evaluators :
    job[e].pc = "audit" /\ job[e].req.kind = "swap" /\ job[e].result # "rejected" =>
      quotes[job[e].req.quote].bound = job[e].req.id

\* A claim in the history is a binding in the store.
BoundClaims == \A c \in claims : quotes[c[2]].bound = c[1]

\* A swap past its preview has its quote.
BoundSigns ==
  \A g \in Signers :
    sign[g].pc = "store" /\ sign[g].req.kind = "swap" =>
      quotes[sign[g].req.quote].bound = sign[g].req.id

Binding == BoundJobs /\ BoundClaims /\ BoundSigns /\ SignedQuoteBound

\* No step changes the intent a quote is bound to.
LEMMA BindingStays ==
  ASSUME TypeOK, [Next]_vars
  PROVE  \A q \in Quotes : quotes[q].bound \in Intents => quotes'[q].bound = quotes[q].bound
  <1>1. CASE UNCHANGED quotes
    BY <1>1
  <1>2. ASSUME NEW q \in Quotes, SaveQuote(q) \/ Expire(q)
        PROVE  \A p \in Quotes : quotes'[p].bound = quotes[p].bound
    <2>1. quotes \in [Quotes -> QuoteType] /\ quotes[q] \in QuoteType
      BY DEF TypeOK
    <2>2. CASE SaveQuote(q)
      BY <2>1, <2>2 DEF SaveQuote, Kept
    <2>3. CASE Expire(q)
      BY <2>1, <2>3 DEF Expire, QuoteType
    <2>4. QED
      BY <1>2, <2>2, <2>3
  <1>3. ASSUME NEW e \in Evaluators, Bind(e)
        PROVE  \A q \in Quotes : quotes[q].bound \in Intents => quotes'[q].bound = quotes[q].bound
    <2> DEFINE p == job[e].req.quote
               i == job[e].req.id
    <2>1. CASE quotes' = [quotes EXCEPT ![p].bound = i] /\ quotes[p].bound \in {NoIntent, i}
      <3>1. \A q \in Quotes \ {p} : quotes'[q] = quotes[q]
        BY <2>1 DEF TypeOK
      <3>2. p \in Quotes => quotes'[p].bound = i
        BY <2>1 DEF TypeOK, QuoteType
      <3>3. QED
        BY <2>1, <3>1, <3>2, NullAssumption
    <2>2. QED
      BY <1>1, <1>3, <2>1 DEF Bind, CanBind
  <1>4. CASE \E e \in Evaluators : Evaluate(e) \/ Abort(e)
    BY <1>1, <1>3, <1>4 DEF Evaluate, Abort, Receive, ReadPolicy, CheckDeploy, CheckQuote, Price,
                            Lock, CheckTotal, Reserve, Audit
  <1>5. CASE \E g \in Signers : RequestSign(g) \/ AbortSign(g)
    BY <1>1, <1>5 DEF RequestSign, AbortSign, FindIntent, CheckDecision, Preview, Sign, SignFrame
  <1>6. CASE \/ CreateWallet \/ Provision \/ NextDay \/ UNCHANGED vars
             \/ \E r \in Requests : CreateTransfer(r)
    BY <1>1, <1>6 DEF CreateWallet, Provision, NextDay, CreateTransfer, storeVars, vars
  <1>7. QED
    BY <1>2, <1>4, <1>5, <1>6 DEF Next

\* The steps of an evaluation keep its promise to bind before it audits.
LEMMA BoundJobsStep ==
  ASSUME Base, Fitting, Binding, NEW e \in Evaluators, Evaluate(e) \/ Abort(e)
  PROVE  BoundJobs' /\ BoundClaims'
  <1>0. TypeOK /\ [Next]_vars
    BY DEF Base, Next
  <1>1. \A f \in Evaluators \ {e} : job'[f] = job[f]
    BY <1>0, EvaluateAlone
  <1>2. \A q \in Quotes : quotes[q].bound \in Intents => quotes'[q].bound = quotes[q].bound
    BY <1>0, BindingStays
  <1>3. \A f \in Evaluators \ {e} :
          job'[f].pc = "audit" /\ job'[f].req.kind = "swap" /\ job'[f].result # "rejected" =>
            quotes'[job'[f].req.quote].bound = job'[f].req.id
    BY <1>0, <1>1, <1>2, JobFacts DEF Binding, BoundJobs
  <1>4. \A c \in claims : quotes'[c[2]].bound = c[1]
    BY <1>0, <1>2 DEF Binding, BoundClaims, TypeOK
  <1>5. ASSUME UNCHANGED claims,
               job'[e].pc = "audit" /\ job'[e].req.kind = "swap"
                 /\ job'[e].result # "rejected" =>
                   quotes'[job'[e].req.quote].bound = job'[e].req.id
        PROVE  BoundJobs' /\ BoundClaims'
    BY <1>3, <1>4, <1>5 DEF BoundJobs, BoundClaims
  <1>6. CASE \/ \E r \in Requests : Receive(e, r)
             \/ ReadPolicy(e) \/ CheckDeploy(e) \/ CheckQuote(e) \/ Price(e) \/ Lock(e)
    BY <1>0, <1>5, <1>6, EarlyStep DEF historyVars
  <1>7. CASE CheckTotal(e)
    <2>1. UNCHANGED claims /\ job'[e].pc = "end"
      BY <1>0, <1>7 DEF CheckTotal, historyVars, TypeOK, JobType
    <2>2. QED
      BY <1>5, <2>1
  <1>8. CASE Reserve(e)
    <2>1. job[e].pc = "end" /\ Decide(e, job[e].result) /\ UNCHANGED claims
          /\ job[e].result \in Results
      BY <1>0, <1>8, JobFacts DEF Reserve, At, historyVars, JobType
    <2>2. PICK j \in JobType :
            /\ job' = [job EXCEPT ![e] = j]
            /\ j.req = job[e].req /\ j.result = job[e].result
            /\ j.pc = "bind" <=> (job[e].req.kind = "swap" /\ job[e].result # "rejected")
      BY <1>0, <2>1, DecideType
    <2>3. job'[e] = j
      BY <1>0, <2>2 DEF TypeOK
    <2>4. QED
      BY <1>5, <2>1, <2>2, <2>3
  <1>9. CASE Bind(e)
    <2> DEFINE q == job[e].req.quote
               i == job[e].req.id
    <2>1. job[e].pc = "bind" /\ i \in Intents /\ (job[e].req.kind = "swap" <=> q \in Quotes)
      BY <1>0, <1>9, JobFacts DEF Bind, At
    <2>2. UNCHANGED claims
      BY <1>9 DEF Bind, historyVars
    <2>3. CASE quotes' = [quotes EXCEPT ![q].bound = i] /\ Go(e, "audit")
      <3>1. job'[e].req = job[e].req
        BY <1>0, <2>3 DEF Go, TypeOK, JobType
      <3>2. q \in Quotes => quotes'[q].bound = i
        BY <1>0, <2>3 DEF TypeOK, QuoteType
      <3>3. QED
        BY <1>5, <2>1, <2>2, <3>1, <3>2
    <2>4. CASE job' = [job EXCEPT ![e].result = "rejected", ![e].pc = "audit"]
      <3>1. job'[e].result = "rejected"
        BY <1>0, <2>4 DEF TypeOK, JobType
      <3>2. QED
        BY <1>5, <2>2, <3>1
    <2>5. QED
      BY <1>9, <2>3, <2>4 DEF Bind
  <1>10. CASE Audit(e)
    <2>1. job[e].pc = "audit" /\ job'[e].pc = "idle" /\ UNCHANGED quotes
      BY <1>0, <1>10 DEF Audit, At, TypeOK, Idle, Fresh
    <2>2. \/ claims' = claims
          \/ /\ claims' = claims \cup {<<job[e].req.id, job[e].req.quote>>}
             /\ job[e].req.kind = "swap" /\ job[e].result # "rejected"
      BY <1>10 DEF Audit
    <2>3. BoundClaims'
      BY <2>1, <2>2 DEF Binding, BoundClaims, BoundJobs
    <2>4. BoundJobs'
      BY <1>3, <2>1 DEF BoundJobs
    <2>5. QED
      BY <2>3, <2>4
  <1>11. CASE Abort(e)
    <2>1. UNCHANGED claims /\ job'[e].pc = "idle"
      BY <1>0, <1>11 DEF Abort, historyVars, TypeOK, Idle, Fresh
    <2>2. QED
      BY <1>5, <2>1
  <1>12. QED
    BY <1>6, <1>7, <1>8, <1>9, <1>10, <1>11 DEF Evaluate

\* A sign request keeps to the binding its preview saw.
LEMMA BoundSignsStep ==
  ASSUME Base, Binding, NEW g \in Signers, RequestSign(g) \/ AbortSign(g)
  PROVE  BoundSigns' /\ SignedQuoteBound'
  <1>0. /\ TypeOK /\ SwapPreviewed /\ BoundSigns /\ SignedQuoteBound
        /\ sign \in [Signers -> SignType]
    BY DEF Base, Binding, TypeOK
  <1>1. UNCHANGED quotes
    BY DEF RequestSign, AbortSign, FindIntent, CheckDecision, Preview, Sign, SignFrame
  <1>2. ASSUME NEW s, sign' = [sign EXCEPT ![g] = s], UNCHANGED signed,
               s.pc = "store" /\ s.req.kind = "swap" =>
                 quotes[s.req.quote].bound = s.req.id
        PROVE  BoundSigns' /\ SignedQuoteBound'
    BY <1>0, <1>1, <1>2 DEF BoundSigns, SignedQuoteBound
  <1>3. NoSign.pc # "store"
    BY DEF NoSign
  <1>4. CASE \E i \in Intents : FindIntent(g, i)
    <2>1. PICK i \in Intents :
            sign' = [sign EXCEPT ![g] = [pc |-> "decision", req |-> intents[i], rev |-> 0]]
            /\ UNCHANGED signed
      BY <1>4 DEF FindIntent
    <2> DEFINE s == [pc |-> "decision", req |-> intents[i], rev |-> 0]
    <2>2. s.pc = "decision" /\ sign' = [sign EXCEPT ![g] = s]
      BY <2>1
    <2> HIDE DEF s
    <2>3. QED
      BY <1>2, <2>1, <2>2
  <1>5. CASE CheckDecision(g)
    <2>1. CASE sign' = [sign EXCEPT ![g] = NoSign]
      BY <1>2, <1>3, <1>5, <2>1 DEF CheckDecision
    <2>2. CASE \/ /\ sign' = [sign EXCEPT ![g].pc = "preview"]
                  /\ sign[g].req.kind = "swap"
               \/ /\ sign' = [sign EXCEPT ![g].pc = "store"]
                  /\ sign[g].req.kind # "swap"
      BY <1>0, <1>1, <1>5, <2>2 DEF CheckDecision, SignType, BoundSigns, SignedQuoteBound
    <2>3. QED
      BY <1>5, <2>1, <2>2 DEF CheckDecision
  <1>6. CASE Preview(g)
    <2>1. CASE sign' = [sign EXCEPT ![g] = NoSign]
      BY <1>2, <1>3, <1>6, <2>1 DEF Preview
    <2>2. CASE /\ quotes[sign[g].req.quote].bound = sign[g].req.id
               /\ sign' = [sign EXCEPT ![g].pc = "store",
                                       ![g].rev = quotes[sign[g].req.quote].rev]
      BY <1>0, <1>1, <1>6, <2>2 DEF Preview, SignType, BoundSigns, SignedQuoteBound
    <2>3. QED
      BY <1>6, <2>1, <2>2 DEF Preview
  <1>7. CASE Sign(g)
    <2> DEFINE r == sign[g].req
               row == [done |-> TRUE, quote |-> r.quote, rev |-> sign[g].rev]
    <2>1. /\ r.id \in Intents /\ (r.kind = "swap" <=> r.quote \in Quotes)
          /\ sign[g].pc = "store"
      BY <1>0, <1>7, SignFacts DEF Sign
    <2>2. r.quote \in Quotes => quotes[r.quote].bound = r.id
      BY <1>0, <2>1 DEF BoundSigns
    <2>3. signed' = signed \/ signed' = [signed EXCEPT ![r.id] = row]
      BY <1>7 DEF Sign
    <2>4. row.quote = r.quote
      OBVIOUS
    <2> HIDE DEF row
    <2>5. SignedQuoteBound'
      BY <1>0, <1>1, <2>1, <2>2, <2>3, <2>4 DEF SignedQuoteBound, TypeOK
    <2>6. sign' = [sign EXCEPT ![g] = NoSign]
      BY <1>7 DEF Sign
    <2>7. QED
      BY <1>0, <1>1, <1>3, <2>5, <2>6 DEF BoundSigns
  <1>8. CASE AbortSign(g)
    BY <1>2, <1>3, <1>8 DEF AbortSign
  <1>9. QED
    BY <1>4, <1>5, <1>6, <1>7, <1>8 DEF RequestSign

LEMMA BindingStep == Base /\ Fitting /\ Binding /\ [Next]_vars => Binding'
  <1> SUFFICES ASSUME Base, Fitting, Binding, [Next]_vars PROVE Binding'
    OBVIOUS
  <1>1. TypeOK /\ \A q \in Quotes :
                    quotes[q].bound \in Intents => quotes'[q].bound = quotes[q].bound
    BY BindingStays DEF Base
  <1>2. ASSUME UNCHANGED <<job, claims>>
        PROVE  BoundJobs' /\ BoundClaims'
    <2>1. BoundJobs'
      <3>1. \A f \in Evaluators : job[f].pc = "audit" /\ job[f].req.kind = "swap" =>
              job[f].req.id \in Intents /\ job[f].req.quote \in Quotes
        BY <1>1, JobFacts
      <3>2. QED
        BY <1>1, <1>2, <3>1 DEF Binding, BoundJobs
    <2>2. BoundClaims'
      BY <1>1, <1>2 DEF Binding, BoundClaims, TypeOK
    <2>3. QED
      BY <2>1, <2>2
  <1>3. ASSUME UNCHANGED <<sign, signed>>
        PROVE  BoundSigns' /\ SignedQuoteBound'
    <2>1. BoundSigns'
      <3>1. \A h \in Signers : sign[h].pc = "store" /\ sign[h].req.kind = "swap" =>
              sign[h].req.id \in Intents /\ sign[h].req.quote \in Quotes
        BY <1>1, SignFacts
      <3>2. QED
        BY <1>1, <1>3, <3>1 DEF Binding, BoundSigns
    <2>2. SignedQuoteBound'
      BY <1>1, <1>3 DEF Binding, SignedQuoteBound
    <2>3. QED
      BY <2>1, <2>2
  <1>4. ASSUME NEW e \in Evaluators, Evaluate(e) \/ Abort(e)
        PROVE  Binding'
    <2>1. UNCHANGED <<sign, signed>>
      BY <1>4 DEF Evaluate, Abort, Receive, ReadPolicy, CheckDeploy, CheckQuote, Price, Lock,
                  CheckTotal, Reserve, Bind, Audit, EvalFrame
    <2>2. QED
      BY <1>3, <1>4, <2>1, BoundJobsStep DEF Binding
  <1>5. ASSUME NEW g \in Signers, RequestSign(g) \/ AbortSign(g)
        PROVE  Binding'
    <2>1. UNCHANGED <<job, claims>>
      BY <1>5 DEF RequestSign, AbortSign, FindIntent, CheckDecision, Preview, Sign, SignFrame,
                  historyVars
    <2>2. QED
      BY <1>2, <1>5, <2>1, BoundSignsStep DEF Binding
  <1>6. CASE \/ CreateWallet \/ Provision \/ NextDay \/ UNCHANGED vars
             \/ \E q \in Quotes : SaveQuote(q) \/ Expire(q)
             \/ \E r \in Requests : CreateTransfer(r)
    <2>1. UNCHANGED <<job, claims, sign, signed>>
      BY <1>6 DEF CreateWallet, Provision, NextDay, SaveQuote, Expire, CreateTransfer,
                  storeVars, historyVars, vars
    <2>2. QED
      BY <1>2, <1>3, <2>1 DEF Binding
  <1>7. QED
    BY <1>4, <1>5, <1>6 DEF Next

LEMMA BindingInvariant == Spec => []Binding
  <1>1. Init => Binding
    BY DEF Init, Binding, BoundJobs, BoundClaims, BoundSigns, SignedQuoteBound, Idle, Fresh,
           NoSign
  <1>2. QED
    BY <1>1, BindingStep, FittingInvariant, PTL DEF Spec

\* A quote is approved or escalated for one intent at most, whatever races on it (F2).
THEOREM QuoteUsedOnce == Spec => []QuoteSingleUse
  <1>1. Binding => QuoteSingleUse
    BY DEF Binding, BoundClaims, QuoteSingleUse
  <1>2. QED
    BY <1>1, BindingInvariant, PTL

\* A swap prepared for signing holds its quote from then on.
THEOREM SignedHoldsQuote == Spec => []SignedQuoteBound
  <1>1. Binding => SignedQuoteBound
    BY DEF Binding
  <1>2. QED
    BY <1>1, BindingInvariant, PTL

-----------------------------------------------------------------------------
(* Approvals: a row, once there, is replaced and never removed.             *)

\* A run on its way to the audit with an approval has a row on its day.
Granted ==
  \A e \in Evaluators :
    job[e].pc \in {"bind", "audit"} /\ job[e].result = "approved" =>
      ledger[job[e].day][job[e].req.id] > 0

\* An intent the audit calls approved has a row on some day.
LatestReserved ==
  \A i \in Intents : latest[i] = "approved" => \E d \in Days : ledger[d][i] > 0

\* So has one whose sign request has seen that decision.
SignReserved ==
  \A g \in Signers :
    sign[g].pc \in {"preview", "store"} => \E d \in Days : ledger[d][sign[g].req.id] > 0

OnRecord == Granted /\ ApprovedIsReserved /\ LatestReserved /\ SignReserved /\ SignedIsReserved

LEMMA RowsStay ==
  ASSUME Base, Fitting, [Next]_vars
  PROVE  \A d \in Days, i \in Intents : ledger[d][i] > 0 => ledger'[d][i] > 0
  <1>0. TypeOK /\ [Spend!Next]_ledger
    BY LedgerStep DEF Base
  <1>1. ASSUME NEW c \in Days, NEW k \in Intents, NEW v \in Values, Spend!Reserve(c, k, v)
        PROVE  \A d \in Days, i \in Intents : ledger[d][i] > 0 => ledger'[d][i] > 0
    <2>1. ledger \in [Days -> [Intents -> Nat]] /\ v > 0
      BY <1>0, ValueFacts DEF TypeOK, Row
    <2>2. ledger' = [ledger EXCEPT ![c] = [ledger[c] EXCEPT ![k] = v]]
      BY <1>1 DEF Spend!Reserve, Spend!With
    <2>3. \A d \in Days, i \in Intents :
            ledger'[d][i] = IF d = c /\ i = k THEN v ELSE ledger[d][i]
      BY <2>1, <2>2
    <2>4. QED
      BY <2>1, <2>3
  <1>2. QED
    BY <1>0, <1>1 DEF Spend!Next

LEMMA GrantedStep ==
  ASSUME Base, Fitting, OnRecord, NEW e \in Evaluators, Evaluate(e) \/ Abort(e)
  PROVE  Granted' /\ ApprovedIsReserved' /\ LatestReserved'
  <1>0. TypeOK /\ [Next]_vars
    BY DEF Base, Next
  <1>1. \A f \in Evaluators \ {e} : job'[f] = job[f]
    BY <1>0, EvaluateAlone
  <1>2. \A d \in Days, i \in Intents : ledger[d][i] > 0 => ledger'[d][i] > 0
    BY <1>0, RowsStay
  <1>3. \A f \in Evaluators \ {e} :
          job'[f].pc \in {"bind", "audit"} /\ job'[f].result = "approved" =>
            ledger'[job'[f].day][job'[f].req.id] > 0
    BY <1>0, <1>1, <1>2, JobFacts DEF OnRecord, Granted
  <1>4. ASSUME UNCHANGED <<latest, reserved>>,
               job'[e].pc \in {"bind", "audit"} /\ job'[e].result = "approved" =>
                 ledger'[job'[e].day][job'[e].req.id] > 0
        PROVE  Granted' /\ ApprovedIsReserved' /\ LatestReserved'
    BY <1>2, <1>3, <1>4 DEF OnRecord, Granted, ApprovedIsReserved, LatestReserved
  <1>5. CASE \/ \E r \in Requests : Receive(e, r)
             \/ ReadPolicy(e) \/ CheckDeploy(e) \/ CheckQuote(e) \/ Price(e) \/ Lock(e)
    BY <1>0, <1>4, <1>5, EarlyStep DEF historyVars
  <1>6. CASE CheckTotal(e)
    <2>1. UNCHANGED <<latest, reserved>> /\ job'[e].pc = "end"
      BY <1>0, <1>6 DEF CheckTotal, historyVars, TypeOK, JobType
    <2>2. QED
      BY <1>4, <2>1
  <1>7. CASE Reserve(e)
    <2>1. /\ job[e].pc = "end" /\ Decide(e, job[e].result) /\ EndTransaction(e)
          /\ UNCHANGED <<latest, reserved>>
          /\ job[e].result \in Results /\ job[e].day \in Days /\ job[e].req.id \in Intents
      BY <1>0, <1>7, JobFacts DEF Reserve, At, historyVars, JobType
    <2>2. PICK j \in JobType :
            /\ job' = [job EXCEPT ![e] = j]
            /\ j.req = job[e].req /\ j.result = job[e].result /\ j.day = job[e].day
      BY <1>0, <2>1, DecideType
    <2>3. job'[e] = j
      BY <1>0, <2>2 DEF TypeOK
    <2>4. job[e].result = "approved" =>
            /\ ledger'[job[e].day] = [ledger[job[e].day] EXCEPT ![job[e].req.id] = job[e].usd]
            /\ job[e].usd > 0
      BY <1>0, <2>1, EndIsReserve, ValueFacts
    <2>5. ledger[job[e].day] \in [Intents -> Nat]
      BY <1>0, <2>1 DEF TypeOK, Row
    <2>6. QED
      BY <1>4, <2>1, <2>2, <2>3, <2>4, <2>5
  <1>8. CASE Bind(e)
    <2>1. UNCHANGED <<latest, reserved, ledger>> /\ job[e].pc = "bind"
      BY <1>8 DEF Bind, At, historyVars
    <2>2. job'[e].result = "rejected" \/
            (/\ job'[e].req = job[e].req /\ job'[e].day = job[e].day
             /\ job'[e].result = job[e].result)
      BY <1>0, <1>8 DEF Bind, Go, TypeOK, JobType
    <2>3. QED
      BY <1>4, <2>1, <2>2 DEF OnRecord, Granted
  <1>9. CASE Audit(e)
    <2>1. /\ job[e].pc = "audit" /\ job'[e].pc = "idle" /\ UNCHANGED ledger
          /\ job[e].day \in Days /\ job[e].req.id \in Intents
          /\ latest' = [latest EXCEPT ![job[e].req.id] = job[e].result]
      BY <1>0, <1>9, JobFacts DEF Audit, At, TypeOK, Idle, Fresh
    <2>2. job[e].result = "approved" => ledger[job[e].day][job[e].req.id] > 0
      BY <2>1 DEF OnRecord, Granted
    <2>3. LatestReserved'
      BY <1>0, <2>1, <2>2 DEF OnRecord, LatestReserved, TypeOK
    <2>4. \/ reserved' = reserved
          \/ /\ job[e].result = "approved"
             /\ reserved' = [reserved EXCEPT ![job[e].day] =
                               [reserved[job[e].day] EXCEPT ![job[e].req.id] = job[e].usd]]
      BY <1>9 DEF Audit, Spend!With
    <2>5. ApprovedIsReserved'
      <3>1. reserved \in [Days -> [Intents -> Nat]]
        BY <1>0 DEF TypeOK, Row
      <3>2. \A d \in Days, i \in Intents :
              \/ reserved'[d][i] = reserved[d][i]
              \/ d = job[e].day /\ i = job[e].req.id /\ job[e].result = "approved"
        BY <2>1, <2>4, <3>1
      <3>3. QED
        BY <2>1, <2>2, <3>2 DEF OnRecord, ApprovedIsReserved
    <2>6. Granted'
      BY <1>3, <2>1 DEF Granted
    <2>7. QED
      BY <2>3, <2>5, <2>6
  <1>10. CASE Abort(e)
    <2>1. UNCHANGED <<latest, reserved>> /\ job'[e].pc = "idle"
      BY <1>0, <1>10 DEF Abort, historyVars, TypeOK, Idle, Fresh
    <2>2. QED
      BY <1>4, <2>1
  <1>11. QED
    BY <1>5, <1>6, <1>7, <1>8, <1>9, <1>10 DEF Evaluate

LEMMA SignReservedStep ==
  ASSUME Base, OnRecord, NEW g \in Signers, RequestSign(g) \/ AbortSign(g)
  PROVE  SignReserved' /\ SignedIsReserved'
  <1>0. /\ TypeOK /\ SignReserved /\ SignedIsReserved /\ sign \in [Signers -> SignType]
        /\ UNCHANGED ledger
    BY DEF Base, OnRecord, TypeOK, RequestSign, AbortSign, FindIntent, CheckDecision, Preview,
           Sign, SignFrame
  <1>1. ASSUME UNCHANGED signed,
               sign'[g].pc \in {"preview", "store"} =>
                 \E d \in Days : ledger[d][sign'[g].req.id] > 0,
               \A h \in Signers \ {g} : sign'[h] = sign[h]
        PROVE  SignReserved' /\ SignedIsReserved'
    BY <1>0, <1>1 DEF SignReserved, SignedIsReserved
  <1>2. CASE AbortSign(g) \/ \E i \in Intents : FindIntent(g, i)
    <2>1. sign'[g].pc \in {"idle", "decision"}
      BY <1>0, <1>2 DEF AbortSign, FindIntent, NoSign
    <2>2. QED
      BY <1>0, <1>1, <1>2, <2>1 DEF AbortSign, FindIntent
  <1>3. CASE CheckDecision(g)
    <2>1. CASE sign' = [sign EXCEPT ![g] = NoSign]
      <3>1. sign'[g].pc = "idle"
        BY <1>0, <2>1 DEF NoSign
      <3>2. QED
        BY <1>0, <1>1, <1>3, <2>1, <3>1 DEF CheckDecision
    <2>2. CASE /\ latest[sign[g].req.id] = "approved"
               /\ \/ sign' = [sign EXCEPT ![g].pc = "preview"]
                  \/ sign' = [sign EXCEPT ![g].pc = "store"]
      <3>1. sign[g].req.id \in Intents
        BY <1>0, <1>3, SignFacts DEF CheckDecision
      <3>2. \E d \in Days : ledger[d][sign[g].req.id] > 0
        BY <2>2, <3>1 DEF OnRecord, LatestReserved
      <3>3. sign'[g].req = sign[g].req
        BY <1>0, <2>2 DEF SignType
      <3>4. QED
        BY <1>0, <1>1, <1>3, <2>2, <3>2, <3>3 DEF CheckDecision
    <2>3. QED
      BY <1>3, <2>1, <2>2 DEF CheckDecision, Signable
  <1>4. CASE Preview(g)
    <2>1. CASE sign' = [sign EXCEPT ![g] = NoSign]
      <3>1. sign'[g].pc = "idle"
        BY <1>0, <2>1 DEF NoSign
      <3>2. QED
        BY <1>0, <1>1, <1>4, <2>1, <3>1 DEF Preview
    <2>2. CASE sign' = [sign EXCEPT ![g].pc = "store",
                                    ![g].rev = quotes[sign[g].req.quote].rev]
      <3>1. sign'[g].req = sign[g].req /\ sign[g].pc = "preview"
        BY <1>0, <1>4, <2>2 DEF Preview, SignType
      <3>2. \E d \in Days : ledger[d][sign[g].req.id] > 0
        BY <1>0, <3>1 DEF SignReserved
      <3>3. QED
        BY <1>0, <1>1, <1>4, <2>2, <3>1, <3>2 DEF Preview
    <2>3. QED
      BY <1>4, <2>1, <2>2 DEF Preview
  <1>5. CASE Sign(g)
    <2> DEFINE r == sign[g].req
               row == [done |-> TRUE, quote |-> r.quote, rev |-> sign[g].rev]
    <2>1. r.id \in Intents /\ sign[g].pc = "store"
      BY <1>0, <1>5, SignFacts DEF Sign
    <2>2. \E d \in Days : ledger[d][r.id] > 0
      BY <1>0, <2>1 DEF SignReserved
    <2>3. signed' = signed \/ signed' = [signed EXCEPT ![r.id] = row]
      BY <1>5 DEF Sign
    <2> HIDE DEF row
    <2>4. SignedIsReserved'
      BY <1>0, <2>1, <2>2, <2>3 DEF SignedIsReserved, TypeOK
    <2>5. sign' = [sign EXCEPT ![g] = NoSign]
      BY <1>5 DEF Sign
    <2>6. SignReserved'
      BY <1>0, <2>5 DEF SignReserved, NoSign
    <2>7. QED
      BY <2>4, <2>6
  <1>6. QED
    BY <1>2, <1>3, <1>4, <1>5 DEF RequestSign

LEMMA OnRecordStep == Base /\ Fitting /\ OnRecord /\ [Next]_vars => OnRecord'
  <1> SUFFICES ASSUME Base, Fitting, OnRecord, [Next]_vars PROVE OnRecord'
    OBVIOUS
  <1>1. TypeOK /\ \A d \in Days, i \in Intents : ledger[d][i] > 0 => ledger'[d][i] > 0
    BY RowsStay DEF Base
  <1>2. ASSUME UNCHANGED <<sign, signed>>
        PROVE  SignReserved' /\ SignedIsReserved'
    <2>1. \A h \in Signers : sign[h].pc # "idle" => sign[h].req.id \in Intents
      BY <1>1, SignFacts
    <2>2. QED
      BY <1>1, <1>2, <2>1 DEF OnRecord, SignReserved, SignedIsReserved
  <1>3. ASSUME UNCHANGED <<job, latest, reserved>>
        PROVE  Granted' /\ ApprovedIsReserved' /\ LatestReserved'
    <2>1. \A f \in Evaluators : job[f].pc # "idle" =>
            job[f].req.id \in Intents /\ job[f].day \in Days
      BY <1>1, JobFacts
    <2>2. QED
      BY <1>1, <1>3, <2>1 DEF OnRecord, Granted, ApprovedIsReserved, LatestReserved
  <1>4. ASSUME NEW e \in Evaluators, Evaluate(e) \/ Abort(e)
        PROVE  OnRecord'
    <2>1. UNCHANGED <<sign, signed>>
      BY <1>4 DEF Evaluate, Abort, Receive, ReadPolicy, CheckDeploy, CheckQuote, Price, Lock,
                  CheckTotal, Reserve, Bind, Audit, EvalFrame
    <2>2. QED
      BY <1>2, <1>4, <2>1, GrantedStep DEF OnRecord
  <1>5. ASSUME NEW g \in Signers, RequestSign(g) \/ AbortSign(g)
        PROVE  OnRecord'
    <2>1. UNCHANGED <<job, latest, reserved>>
      BY <1>5 DEF RequestSign, AbortSign, FindIntent, CheckDecision, Preview, Sign, SignFrame,
                  historyVars
    <2>2. QED
      BY <1>3, <1>5, <2>1, SignReservedStep DEF OnRecord
  <1>6. CASE \/ CreateWallet \/ Provision \/ NextDay \/ UNCHANGED vars
             \/ \E q \in Quotes : SaveQuote(q) \/ Expire(q)
             \/ \E r \in Requests : CreateTransfer(r)
    <2>1. UNCHANGED <<job, latest, reserved, sign, signed>>
      BY <1>6 DEF CreateWallet, Provision, NextDay, SaveQuote, Expire, CreateTransfer,
                  storeVars, historyVars, vars
    <2>2. QED
      BY <1>2, <1>3, <2>1 DEF OnRecord
  <1>7. QED
    BY <1>4, <1>5, <1>6 DEF Next

LEMMA OnRecordInvariant == Spec => []OnRecord
  <1>1. Init => OnRecord
    BY DEF Init, OnRecord, Granted, ApprovedIsReserved, LatestReserved, SignReserved,
           SignedIsReserved, Idle, Fresh, NoSign
  <1>2. QED
    BY <1>1, OnRecordStep, FittingInvariant, PTL DEF Spec

\* An approval the audit shows has consumed the cap of its day (S1).
THEOREM ApprovedConsumesCap == Spec => []ApprovedIsReserved
  <1>1. OnRecord => ApprovedIsReserved
    BY DEF OnRecord
  <1>2. QED
    BY <1>1, OnRecordInvariant, PTL

\* Nothing is prepared for signing that consumed no day's cap.
THEOREM SignedConsumedCap == Spec => []SignedIsReserved
  <1>1. OnRecord => SignedIsReserved
    BY DEF OnRecord
  <1>2. QED
    BY <1>1, OnRecordInvariant, PTL

-----------------------------------------------------------------------------
(* NeverUnderCounts, intent by intent: what keeps the row of an intent at what the *)
(* audit approved for it, and what alone can break that.                           *)

Evaluating(e, i) == job[e].pc # "idle" /\ job[e].req.id = i

Alone(i) == \A e, f \in Evaluators : Evaluating(e, i) /\ Evaluating(f, i) => e = f

\* A run on its way to the audit with an approval has its own value on record.
Paid(i) ==
  \A e \in Evaluators :
    job[e].pc \in {"bind", "audit"} /\ job[e].result = "approved" /\ job[e].req.id = i =>
      ledger[job[e].day][i] = job[e].usd

\* What the audit approved is on record, and nobody touches it any more.
Settled(i) ==
  \A d \in Days : reserved[d][i] > 0 =>
    /\ latest[i] = "approved"
    /\ reserved[d][i] <= ledger[d][i]
    /\ \A e \in Evaluators : ~Evaluating(e, i)

Exact(i) == Alone(i) /\ Paid(i) /\ Settled(i)

\* The intent is sent to the gate again: approved before, or still evaluated.
SentAgain(i) ==
  \E e \in Evaluators, r \in Requests :
    /\ Receive(e, r) /\ r.id = i
    /\ latest[i] = "approved" \/ \E f \in Evaluators : Evaluating(f, i)

\* A run keeps its request to the end; a run that starts has been sent one.
LEMMA OwnRequest ==
  ASSUME TypeOK, NEW e \in Evaluators, Evaluate(e) \/ Abort(e), NEW i \in Intents,
         Evaluating(e, i)'
  PROVE  Evaluating(e, i) \/ \E r \in Requests : Receive(e, r) /\ r.id = i
  <1> SUFFICES ASSUME job'[e].pc # "idle", job'[e].req.id = i
               PROVE  Evaluating(e, i) \/ \E r \in Requests : Receive(e, r) /\ r.id = i
    BY DEF Evaluating
  <1> USE DEF Evaluating
  <1>1. ASSUME NEW r \in Requests, Receive(e, r)
        PROVE  r.id = i
    <2>1. \E to \in {"audit", "policy"} : job' = [job EXCEPT ![e] = Fresh(to, r)]
      BY <1>1 DEF Receive
    <2>2. job'[e].req = r
      BY <2>1 DEF TypeOK, Fresh
    <2>3. QED
      BY <2>2
  <1>2. CASE ~\E r \in Requests : Receive(e, r)
    <2>1. ~Audit(e) /\ ~Abort(e)
      BY DEF Audit, Abort, Idle, Fresh, TypeOK
    <2>2. job[e].pc # "idle"
      BY <1>2, <2>1 DEF Evaluate, ReadPolicy, CheckDeploy, CheckQuote, Price, Lock, CheckTotal,
                        Reserve, Bind, At
    <2>3. job'[e].req = job[e].req
      <3>1. job[e] \in JobType
        BY <2>2, JobFacts
      <3>2. ASSUME NEW result, Decide(e, result)
            PROVE  job'[e].req = job[e].req
        BY <3>1, <3>2 DEF Decide, TypeOK, JobType
      <3>3. ASSUME NEW step, Go(e, step)
            PROVE  job'[e].req = job[e].req
        BY <3>1, <3>3 DEF Go, TypeOK, JobType
      <3>4. CASE ReadPolicy(e) \/ CheckDeploy(e) \/ CheckQuote(e) \/ Lock(e) \/ Reserve(e)
        BY <3>2, <3>3, <3>4 DEF ReadPolicy, CheckDeploy, CheckQuote, Lock, Reserve
      <3>5. CASE Price(e)
        <4>1. ASSUME NEW v, job' = [job EXCEPT ![e].pc = "lock", ![e].usd = v, ![e].day = today]
              PROVE  job'[e].req = job[e].req
          BY <3>1, <4>1 DEF TypeOK, JobType
        <4>2. QED
          BY <3>2, <3>5, <4>1 DEF Price
      <3>6. CASE CheckTotal(e)
        <4>1. ASSUME NEW result, job' = [job EXCEPT ![e].pc = "end", ![e].result = result]
              PROVE  job'[e].req = job[e].req
          BY <3>1, <4>1 DEF TypeOK, JobType
        <4>2. QED
          BY <3>6, <4>1 DEF CheckTotal
      <3>7. CASE Bind(e)
        BY <3>1, <3>3, <3>7 DEF Bind, TypeOK, JobType
      <3>8. QED
        BY <1>2, <2>1, <3>4, <3>5, <3>6, <3>7 DEF Evaluate
    <2>4. QED
      BY <2>2, <2>3
  <1>3. QED
    BY <1>1, <1>2

\* A run moves its own row only, and only by the end of its transaction.
LEMMA OwnRow ==
  ASSUME TypeOK, Fitting, NEW e \in Evaluators, Evaluate(e) \/ Abort(e),
         NEW d \in Days, NEW i \in Intents, ledger'[d][i] # ledger[d][i]
  PROVE  job[e].pc = "end" /\ d = job[e].day /\ i = job[e].req.id
  <1>1. job[e].pc = "end" /\ EndTransaction(e)
    BY DEF Evaluate, Abort, Receive, ReadPolicy, CheckDeploy, CheckQuote, Price, Lock, CheckTotal,
           Reserve, Bind, Audit, At
  <1>2. d = job[e].day
    BY <1>1, EndIsReserve
  <1>3. ledger'[d] = [ledger[d] EXCEPT ![job[e].req.id] = job[e].usd]
    BY <1>1, <1>2, EndIsReserve
  <1>4. ledger[d] \in [Intents -> Nat]
    BY DEF TypeOK, Row
  <1>5. QED
    BY <1>1, <1>2, <1>3, <1>4

\* A run that comes to the audit with an approval has just paid, or had before.
LEMMA PaidStep ==
  ASSUME TypeOK, Fitting, NEW i \in Intents, Alone(i), Paid(i), NEW e \in Evaluators,
         Evaluate(e) \/ Abort(e)
  PROVE  Paid(i)'
  <1>1. \A f \in Evaluators \ {e} : job'[f] = job[f]
    BY EvaluateAlone
  <1>2. ASSUME NEW f \in Evaluators \ {e}, job[f].pc \in {"bind", "audit"}, job[f].req.id = i
        PROVE  ledger'[job[f].day][i] = ledger[job[f].day][i]
    <2>1. job[f].day \in Days /\ Evaluating(f, i)
      BY <1>2, JobFacts DEF Evaluating
    <2>2. job[e].pc = "end" => job[e].req.id # i
      BY <2>1 DEF Alone, Evaluating
    <2>3. QED
      BY <2>1, <2>2, OwnRow
  <1>3. ASSUME job'[e].pc \in {"bind", "audit"}, job'[e].result = "approved", job'[e].req.id = i
        PROVE  ledger'[job'[e].day][i] = job'[e].usd
    <2>1. CASE \/ \E r \in Requests : Receive(e, r)
               \/ ReadPolicy(e) \/ CheckDeploy(e) \/ CheckQuote(e) \/ Price(e) \/ Lock(e)
      BY <1>3, <2>1, EarlyStep
    <2>2. ~CheckTotal(e) /\ ~Audit(e) /\ ~Abort(e)
      BY <1>3 DEF CheckTotal, Audit, Abort, Idle, Fresh, TypeOK, JobType
    <2>3. CASE Reserve(e)
      <3>1. /\ job[e].pc = "end" /\ Decide(e, job[e].result) /\ EndTransaction(e)
            /\ job[e].result \in Results /\ job[e].day \in Days /\ job[e].req.id \in Intents
        BY <2>3, JobFacts DEF Reserve, At, JobType
      <3>2. PICK j \in JobType :
              /\ job' = [job EXCEPT ![e] = j]
              /\ j.req = job[e].req /\ j.result = job[e].result
              /\ j.usd = job[e].usd /\ j.day = job[e].day
        BY <3>1, DecideType
      <3>3. job'[e] = j
        BY <3>2 DEF TypeOK
      <3>4. ledger'[job[e].day] = [ledger[job[e].day] EXCEPT ![job[e].req.id] = job[e].usd]
        BY <1>3, <3>1, <3>2, <3>3, EndIsReserve
      <3>5. ledger[job[e].day] \in [Intents -> Nat]
        BY <3>1 DEF TypeOK, Row
      <3>6. i = job[e].req.id /\ job'[e].day = job[e].day /\ job'[e].usd = job[e].usd
        BY <1>3, <3>2, <3>3
      <3>7. QED
        BY <3>1, <3>4, <3>5, <3>6
    <2>4. CASE Bind(e)
      <3>1. UNCHANGED ledger /\ job[e].pc = "bind"
        BY <2>4 DEF Bind, At
      <3>2. /\ job'[e].req = job[e].req /\ job'[e].day = job[e].day
            /\ job'[e].result = job[e].result /\ job'[e].usd = job[e].usd
        BY <1>3, <2>4 DEF Bind, Go, TypeOK, JobType
      <3>3. QED
        BY <1>3, <3>1, <3>2 DEF Paid
    <2>5. QED
      BY <2>1, <2>2, <2>3, <2>4 DEF Evaluate
  <1>4. QED
    BY <1>1, <1>2, <1>3 DEF Paid

LEMMA ExactStep ==
  ASSUME TypeOK, Fitting, NEW i \in Intents, Exact(i), ~SentAgain(i), NEW e \in Evaluators,
         Evaluate(e) \/ Abort(e)
  PROVE  Exact(i)'
  <1> USE DEF Exact
  <1>1. \A f \in Evaluators \ {e} : job'[f] = job[f]
    BY EvaluateAlone
  <1>2. ASSUME NEW r \in Requests, Receive(e, r), r.id = i
        PROVE  latest[i] # "approved" /\ \A f \in Evaluators : ~Evaluating(f, i)
    BY <1>2 DEF SentAgain
  <1>3. \A f \in Evaluators \ {e} : Evaluating(f, i)' <=> Evaluating(f, i)
    BY <1>1 DEF Evaluating
  <1>4. Alone(i)'
    <2> SUFFICES ASSUME NEW f \in Evaluators \ {e}, Evaluating(e, i)', Evaluating(f, i)'
                 PROVE  FALSE
      BY <1>3 DEF Alone
    <2>1. Evaluating(f, i)
      BY <1>3
    <2>2. Evaluating(e, i)
      BY <1>2, <2>1, OwnRequest
    <2>3. QED
      BY <2>1, <2>2 DEF Alone
  <1>5. Paid(i)'
    BY PaidStep
  <1>6. ASSUME NEW d \in Days, reserved'[d][i] = reserved[d][i], reserved[d][i] > 0
        PROVE  /\ latest'[i] = "approved" /\ reserved'[d][i] <= ledger'[d][i]
               /\ \A f \in Evaluators : ~Evaluating(f, i)'
    <2>1. /\ latest[i] = "approved" /\ reserved[d][i] <= ledger[d][i]
          /\ \A f \in Evaluators : ~Evaluating(f, i)
      BY <1>6 DEF Settled
    <2>2. ledger'[d][i] = ledger[d][i]
      BY <2>1, OwnRow DEF Evaluating
    <2>3. latest'[i] = latest[i]
      <3>1. CASE Audit(e)
        <4>1. job[e].req.id # i /\ latest' = [latest EXCEPT ![job[e].req.id] = job[e].result]
          BY <2>1, <3>1 DEF Audit, At, Evaluating
        <4>2. QED
          BY <4>1 DEF TypeOK
      <3>2. CASE ~Audit(e)
        BY <3>2 DEF Evaluate, Abort, Receive, ReadPolicy, CheckDeploy, CheckQuote, Price, Lock,
                    CheckTotal, Reserve, Bind
      <3>3. QED
        BY <3>1, <3>2
    <2>4. ~Evaluating(e, i)'
      BY <1>2, <2>1, OwnRequest
    <2>5. QED
      BY <1>3, <1>6, <2>1, <2>2, <2>3, <2>4
  <1>7. Settled(i)'
    <2> SUFFICES ASSUME NEW d \in Days, reserved'[d][i] > 0
                 PROVE  /\ latest'[i] = "approved" /\ reserved'[d][i] <= ledger'[d][i]
                        /\ \A f \in Evaluators : ~Evaluating(f, i)'
      BY DEF Settled
    <2>1. CASE reserved'[d][i] = reserved[d][i]
      BY <1>6, <2>1
    <2>2. CASE reserved'[d][i] # reserved[d][i]
      <3>1. Audit(e)
        BY <2>2 DEF Evaluate, Abort, Receive, ReadPolicy, CheckDeploy, CheckQuote, Price, Lock,
                    CheckTotal, Reserve, Bind, historyVars
      <3>2. /\ job[e].pc = "audit" /\ job'[e].pc = "idle" /\ ledger' = ledger
            /\ job[e].day \in Days /\ job[e].req.id \in Intents /\ job[e].usd \in Nat
            /\ latest' = [latest EXCEPT ![job[e].req.id] = job[e].result]
        BY <3>1, JobFacts DEF Audit, At, TypeOK, Idle, Fresh
      <3>3. /\ job[e].result = "approved"
            /\ reserved' = [reserved EXCEPT ![job[e].day] =
                              [reserved[job[e].day] EXCEPT ![job[e].req.id] = job[e].usd]]
        BY <2>2, <3>1 DEF Audit, Spend!With
      <3>4. reserved \in [Days -> [Intents -> Nat]]
        BY DEF TypeOK, Row
      <3>5. d = job[e].day /\ i = job[e].req.id /\ reserved'[d][i] = job[e].usd
        BY <2>2, <3>2, <3>3, <3>4
      <3>6. ledger'[d][i] = job[e].usd
        BY <3>2, <3>3, <3>5 DEF Paid
      <3>7. latest'[i] = "approved"
        BY <3>2, <3>3, <3>5 DEF TypeOK
      <3>8. \A f \in Evaluators : ~Evaluating(f, i)'
        <4>1. ~Evaluating(e, i)'
          BY <3>2 DEF Evaluating
        <4>2. Evaluating(e, i)
          BY <3>2, <3>5 DEF Evaluating
        <4>3. QED
          BY <1>3, <4>1, <4>2 DEF Alone
      <3>9. QED
        BY <3>2, <3>5, <3>6, <3>7, <3>8
    <2>3. QED
      BY <2>1, <2>2
  <1>8. QED
    BY <1>4, <1>5, <1>7

\* The ledger holds, for every intent, what its last approval of the day reserved, or
\* more, whatever evaluations die and whatever other intents do, until that intent is
\* sent to the gate again after an approval, or while it is evaluated (the run
\* under_count): no other step can make the ledger count too little.
THEOREM UnderCountsOnlyAgain ==
  Spec => /\ \A i \in Intents : Exact(i)
          /\ [][\A i \in Intents : Exact(i) => Exact(i)' \/ SentAgain(i)]_vars
          /\ []((\A i \in Intents : Exact(i)) => NeverUnderCounts)
  <1>1. Init => \A i \in Intents : Exact(i)
    BY DEF Init, Exact, Alone, Paid, Settled, Evaluating, Idle, Fresh
  <1>2. Base /\ Fitting /\ [Next]_vars =>
          [\A i \in Intents : Exact(i) => Exact(i)' \/ SentAgain(i)]_vars
    <2> SUFFICES ASSUME Base, Fitting, [Next]_vars, NEW i \in Intents, Exact(i), ~SentAgain(i)
                 PROVE  Exact(i)'
      OBVIOUS
    <2>1. ASSUME UNCHANGED <<job, ledger, latest, reserved>>
          PROVE  Exact(i)'
      BY <2>1 DEF Exact, Alone, Paid, Settled, Evaluating
    <2>2. ASSUME NEW e \in Evaluators, Evaluate(e) \/ Abort(e)
          PROVE  Exact(i)'
      BY <2>2, ExactStep DEF Base
    <2>3. ASSUME NEW g \in Signers, RequestSign(g) \/ AbortSign(g)
          PROVE  Exact(i)'
      <3>1. UNCHANGED <<job, ledger, latest, reserved>>
        BY <2>3 DEF RequestSign, AbortSign, FindIntent, CheckDecision, Preview, Sign, SignFrame,
                    historyVars
      <3>2. QED
        BY <2>1, <3>1
    <2>4. CASE \/ CreateWallet \/ Provision \/ NextDay \/ UNCHANGED vars
               \/ \E q \in Quotes : SaveQuote(q) \/ Expire(q)
               \/ \E r \in Requests : CreateTransfer(r)
      <3>1. UNCHANGED <<job, ledger, latest, reserved>>
        BY <2>4 DEF CreateWallet, Provision, NextDay, SaveQuote, Expire, CreateTransfer,
                    storeVars, historyVars, vars
      <3>2. QED
        BY <2>1, <3>1
    <2>5. QED
      BY <2>2, <2>3, <2>4 DEF Next
  <1>3. Base => ((\A i \in Intents : Exact(i)) => NeverUnderCounts)
    <2> SUFFICES ASSUME TypeOK, NEW d \in Days, NEW i \in Intents, Settled(i)
                 PROVE  reserved[d][i] <= ledger[d][i]
      BY DEF Base, Exact, NeverUnderCounts
    <2>1. reserved[d][i] \in Nat /\ ledger[d][i] \in Nat
      BY DEF TypeOK, Row
    <2>2. QED
      BY <2>1 DEF Settled
  <1>4. QED
    BY <1>1, <1>2, <1>3, FittingInvariant, PTL DEF Spec
=============================================================================
