-------------------------- MODULE OrderLifecycleProofs --------------------------
(* What becomes of an order, for every value of the constants: OrderWorker   *)
(* implements OrderLifecycle, a filled order was submitted once, and no order *)
(* is left where nothing leads out.                                          *)
EXTENDS OrderWorkerProofs

-----------------------------------------------------------------------------
(* FilledBySubmission and OrdersFollowLifecycle.                            *)

\* A step of another actor leaves the workers where they are.
LEMMA NoWorkerFrame ==
  ASSUME [Next]_vars, \A w \in Workers : ~(Work(w) \/ Swallow(w) \/ CrashWorker(w))
  PROVE  UNCHANGED <<workerVars, submissions>>
  <1>1. ASSUME NEW s \in Slots, Redeliver(s) \/ Finalize(s) \/ LoseFinalizer(s)
        PROVE  UNCHANGED <<workerVars, submissions>>
    BY <1>1 DEF Redeliver, Finalize, FinRead, FinPatch, FinOrder, FinSetOrder, FinAudit,
                FinStep, LoseFinalizer, historyVars
  <1>2. ASSUME NEW p \in Schedulers, Tick(p) \/ AbortTick(p)
        PROVE  UNCHANGED <<workerVars, submissions>>
    BY <1>2 DEF Tick, TickStart, TickList, TickOrder, TickEnqueue, TickRemove, TickAdd,
                TickEnd, TickFrame, AbortTick, historyVars
  <1>3. ASSUME NEW a \in Admins, SetMode(a) \/ Administer(a) \/ AbortAdmin(a)
        PROVE  UNCHANGED <<workerVars, submissions>>
    BY <1>3 DEF SetMode, Administer, ToggleQueue, FanOutList, FanOutCancel, FanOutEnd,
                AbortAdmin, AdminFrame
  <1>4. ASSUME (\E o \in Orders : CheckCreate(o) \/ Create(o) \/ Cancel(o)) \/ Advance
        PROVE  UNCHANGED <<workerVars, submissions>>
    BY <1>4 DEF CheckCreate, Create, Cancel, Advance, UserFrame, historyVars
  <1>5. QED
    BY <1>1, <1>2, <1>3, <1>4 DEF Next, vars, historyVars

\* A step that is not one of run() records no submission and leaves a worker
\* where it is, sends it to its acknowledgement or takes it off its slot.
LEMMA OtherFrame ==
  ASSUME TypeOK, [Next]_vars, \A w \in Workers : ~RunStep(w)
  PROVE  /\ submissions' = submissions
         /\ \A w \in Workers : \/ pc'[w] = pc[w] /\ cur'[w] = cur[w]
                               \/ pc'[w] \in {"idle", "claim"}
                               \/ pc'[w] = "ack" /\ cur'[w] = cur[w]
  <1>1. ASSUME NEW w \in Workers, Take(w) \/ Ack(w) \/ Throw(w) \/ Swallow(w) \/ CrashWorker(w)
        PROVE  /\ submissions' = submissions
               /\ \A v \in Workers : \/ pc'[v] = pc[v] /\ cur'[v] = cur[v]
                                     \/ pc'[v] \in {"idle", "claim"}
                                     \/ pc'[v] = "ack" /\ cur'[v] = cur[v]
    BY <1>1, QueueFrame
  <1>2. QED
    BY <1>1, NoWorkerFrame DEF Work, workerVars

\* The writes of the order store: run()'s of its own order, and the others.
LEMMA OrderWrites ==
  ASSUME TypeOK, [Next]_vars, \A w \in Workers : ~RunStep(w)
  PROVE  \/ orders' = orders
         \/ \E o \in Orders : o \in creating /\ orders' = [orders EXCEPT ![o] = "open"]
         \/ \E o \in Orders : SetStatus(o, "cancelled") \/ SetStatus(o, "failed")
  <1>1. ASSUME NEW w \in Workers, Take(w) \/ Ack(w) \/ Throw(w) \/ Swallow(w) \/ CrashWorker(w)
        PROVE  orders' = orders
    BY <1>1, QueueFrame
  <1>2. ASSUME NEW s \in Slots, Redeliver(s) \/ Finalize(s) \/ LoseFinalizer(s)
        PROVE  orders' = orders \/ SetStatus(s[1], "failed")
    BY <1>2 DEF Redeliver, Finalize, FinRead, FinPatch, FinOrder, FinSetOrder, FinAudit,
                LoseFinalizer
  <1>3. ASSUME NEW p \in Schedulers, Tick(p) \/ AbortTick(p)
        PROVE  orders' = orders
    BY <1>3 DEF Tick, TickStart, TickList, TickOrder, TickEnqueue, TickRemove, TickAdd,
                TickEnd, TickFrame, AbortTick
  <1>4. ASSUME NEW a \in Admins, SetMode(a) \/ Administer(a) \/ AbortAdmin(a)
        PROVE  orders' = orders \/ \E o \in Orders : SetStatus(o, "cancelled")
    <2>1. admin[a].todo \subseteq Orders
      BY DEF TypeOK, KillTypeOK
    <2>2. QED
      BY <1>4, <2>1 DEF SetMode, Administer, ToggleQueue, FanOutList, FanOutCancel, FanOutEnd,
                  AbortAdmin
  <1>5. ASSUME (\E o \in Orders : CheckCreate(o) \/ Create(o) \/ Cancel(o)) \/ Advance
        PROVE  \/ orders' = orders
               \/ \E o \in Orders : o \in creating /\ orders' = [orders EXCEPT ![o] = "open"]
               \/ \E o \in Orders : SetStatus(o, "cancelled")
    BY <1>5 DEF CheckCreate, Create, Cancel, Advance
  <1>6. QED
    BY <1>1, <1>2, <1>3, <1>4, <1>5, SlotOrder DEF Next, Work, vars

\* Who fills an order has just recorded its submission.
FillInv ==
  /\ \A w \in Workers : pc[w] = "settle" => submissions[cur[w]] = 1
  /\ \A o \in Limit : orders[o] = "filled" => submissions[<<o, 0>>] = 1

LEMMA FillInductive ==
  ASSUME TypeOK, OwnInv, OnceInv, OnceInv', FillInv, StopInv, [Next]_vars
  PROVE  FillInv'
  <1>1. ASSUME NEW w \in Workers, RunStep(w)
        PROVE  FillInv'
    <2>1. /\ cur[w] \in Slots /\ cur[w][1] \in Orders /\ cur' = cur
          /\ \A v \in Workers \ {w} : pc'[v] = pc[v]
          /\ \A s \in Slots \ {cur[w]} : submissions'[s] = submissions[s]
          /\ \A o \in Orders \ {cur[w][1]} : orders'[o] = orders[o]
      BY <1>1, RunFrame
    <2>2. \A s \in Slots : submissions[s] = 1 => submissions'[s] = 1
      <3>1. CASE Submit(w)
        <4>1. submissions'[cur[w]] = submissions[cur[w]] + 1
          BY <2>1, <3>1 DEF Submit, TypeOK
        <4>2. submissions'[cur[w]] <= 1 /\ submissions[cur[w]] \in Nat
          BY <2>1 DEF OnceInv, TypeOK
        <4>3. submissions[cur[w]] # 1
          BY <4>1, <4>2
        <4>4. QED
          BY <2>1, <4>3
      <3>2. CASE ~Submit(w)
        BY <1>1, <3>2 DEF RunStep, Claim, Find, Rearm, Reclaim, ReadKill, KillFail, KillCancel,
             RevertRead, RevertSet, ReadOrder, Mark, FindWallet, Quote, Quoted,
             CheckLimitBound, LimitFail, LimitOpen, Gate, Settle, Reject,
             RejectOrder, Fail, Reads, historyVars
      <3>3. QED
        BY <3>1, <3>2
    <2>3. pc'[w] = "settle" => submissions'[cur[w]] = 1
      <3>1. CASE Submit(w)
        <4>1. submissions'[cur[w]] = submissions[cur[w]] + 1
          BY <2>1, <3>1 DEF Submit, TypeOK
        <4>2. submissions'[cur[w]] <= 1 /\ submissions[cur[w]] \in Nat
          BY <2>1 DEF OnceInv, TypeOK
        <4>3. QED
          BY <4>1, <4>2
      <3>2. CASE ~Submit(w)
        BY <1>1, <3>2 DEF RunStep, Claim, Find, Rearm, Reclaim, ReadKill, KillFail, KillCancel,
             RevertRead, RevertSet, ReadOrder, Mark, FindWallet, Quote, Quoted,
             CheckLimitBound, LimitFail, LimitOpen, Gate, Settle, Reject,
             RejectOrder, Fail, Step, TypeOK, WorkersTypeOK
      <3>3. QED
        BY <3>1, <3>2
    <2>4. cur[w][1] \in Limit /\ orders'[cur[w][1]] = "filled"
            => submissions'[<<cur[w][1], 0>>] = 1
      <3> SUFFICES ASSUME cur[w][1] \in Limit, orders'[cur[w][1]] = "filled"
                   PROVE  submissions'[<<cur[w][1], 0>>] = 1
        OBVIOUS
      <3>1. cur[w] = <<cur[w][1], 0>>
        BY <2>1, OrdersAssumption DEF Slots
      <3>2. CASE Settle(w)
        BY <2>1, <2>2, <3>1, <3>2 DEF Settle, Step, FillInv
      <3>3. CASE ~Settle(w)
        <4>1. orders[cur[w][1]] = "filled"
          <5>1. CASE KillCancel(w) \/ RevertSet(w) \/ Mark(w) \/ LimitOpen(w) \/ RejectOrder(w)
            BY <2>1, <5>1 DEF KillCancel, RevertSet, Mark, LimitOpen, RejectOrder, SetStatus,
               TypeOK, StoresTypeOK
          <5>2. CASE ~(KillCancel(w) \/ RevertSet(w) \/ Mark(w) \/ LimitOpen(w) \/ RejectOrder(w))
            BY <1>1, <3>3, <5>2 DEF RunStep, Claim, Find, Rearm, Reclaim, ReadKill, KillFail,
               RevertRead, ReadOrder, FindWallet, Quote, Quoted, CheckLimitBound, LimitFail, Gate,
               Submit, Reject, Fail, Reads
          <5>3. QED
            BY <5>1, <5>2
        <4>2. QED
          BY <2>1, <2>2, <3>1, <4>1 DEF FillInv
      <3>4. QED
        BY <3>2, <3>3
    <2>5. \A o \in Limit : <<o, 0>> \in Slots /\ o \in Orders
      BY DEF Slots, Orders
    <2>6. \A v \in Workers : pc[v] = "settle" => cur[v] \in Slots
      BY DEF TypeOK, WorkersTypeOK
    <2>7. QED
      BY <2>1, <2>2, <2>3, <2>4, <2>5, <2>6 DEF FillInv
  <1>2. ASSUME \A w \in Workers : ~RunStep(w)
        PROVE  FillInv'
    <2>1. /\ submissions' = submissions
          /\ \A w \in Workers : \/ pc'[w] = pc[w] /\ cur'[w] = cur[w]
                                \/ pc'[w] \in {"idle", "claim", "ack"}
      BY <1>2, OtherFrame
    <2>2. \A o \in Orders : orders'[o] = "filled" => orders[o] = "filled"
      BY <1>2, OrderWrites DEF SetStatus, TypeOK, StoresTypeOK
    <2>3. QED
      BY <2>1, <2>2 DEF FillInv, Orders
  <1>3. QED
    BY <1>1, <1>2

\* Without a fault, what a limit order was submitted for is settled by the worker
\* that recorded it.
LiveFillInv ==
  \A o \in Limit :
    orders[o] \in LiveOrder /\ submissions[<<o, 0>>] > 0 =>
      \E w \in Workers : cur[w] = <<o, 0>> /\ pc[w] = "settle"

\* An order that is live after a step was so before, or did not exist.
LEMMA LiveBefore ==
  ASSUME TypeOK, StopInv, [Next]_vars, NEW o \in Orders, orders'[o] \in LiveOrder
  PROVE  orders[o] \in LiveOrder \cup {"absent"}
  <1>1. CASE UNCHANGED vars
    BY <1>1 DEF vars
  <1>2. CASE Next
    BY <1>2, TerminalKept DEF StopInv, TypeOK, StoresTypeOK, OrderStatus, LiveOrder, TerminalOrder
  <1>3. QED
    BY <1>1, <1>2

\* A fault is counted.
LEMMA FaultCounted ==
  ASSUME TypeOK, NEW kind, Fault(kind)
  PROVE  faults' # 0
  BY BoundsAssumption DEF Fault, TypeOK

LEMMA LiveFillInductive ==
  ASSUME TypeOK, StopInv, AbsentInv, LiveFillInv, [Next]_vars, faults' = 0
  PROVE  LiveFillInv'
  <1> SUFFICES ASSUME NEW o \in Limit, orders'[o] \in LiveOrder, submissions'[<<o, 0>>] > 0
               PROVE  \E w \in Workers : cur'[w] = <<o, 0>> /\ pc'[w] = "settle"
    BY DEF LiveFillInv
  <1>1. o \in Orders /\ <<o, 0>> \in Slots /\ <<o, 0>> \in SlotsOf(o)
    BY DEF Orders, Slots, SlotsOf
  <1>2. orders[o] \in LiveOrder \/ orders[o] = "absent"
    BY <1>1, LiveBefore
  <1>3. ASSUME NEW w \in Workers, Submit(w), RunStep(w), cur[w] = <<o, 0>>
        PROVE  cur'[w] = <<o, 0>> /\ pc'[w] = "settle"
    BY <1>3, RunFrame DEF Submit, Step, TypeOK, WorkersTypeOK
  <1>4. ASSUME \A w \in Workers : ~(Submit(w) /\ RunStep(w) /\ cur[w] = <<o, 0>>)
        PROVE  submissions'[<<o, 0>>] = submissions[<<o, 0>>]
    <2>1. ASSUME NEW w \in Workers, RunStep(w)
          PROVE  submissions'[<<o, 0>>] = submissions[<<o, 0>>]
      <3>1. CASE cur[w] # <<o, 0>>
        BY <1>1, <2>1, <3>1, RunFrame
      <3>2. CASE ~Submit(w)
        BY <2>1, <3>2 DEF RunStep, Claim, Find, Rearm, Reclaim, ReadKill, KillFail, KillCancel,
             RevertRead, RevertSet, ReadOrder, Mark, FindWallet, Quote, Quoted,
             CheckLimitBound, LimitFail, LimitOpen, Gate, Settle, Reject,
             RejectOrder, Fail, Reads, historyVars
      <3>3. QED
        BY <1>4, <2>1, <3>1, <3>2
    <2>2. QED
      BY <2>1, OtherFrame
  <1>5. CASE \E w \in Workers : Submit(w) /\ RunStep(w) /\ cur[w] = <<o, 0>>
    BY <1>3, <1>5
  <1>6. CASE \A w \in Workers : ~(Submit(w) /\ RunStep(w) /\ cur[w] = <<o, 0>>)
    <2>1. submissions[<<o, 0>>] > 0
      BY <1>4, <1>6
    <2>2. orders[o] \in LiveOrder
      BY <1>1, <1>2, <2>1 DEF AbsentInv, TypeOK
    <2>3. PICK w \in Workers : cur[w] = <<o, 0>> /\ pc[w] = "settle"
      BY <2>1, <2>2 DEF LiveFillInv
    <2>4. ASSUME NEW v \in Workers, RunStep(v)
          PROVE  cur'[w] = <<o, 0>> /\ pc'[w] = "settle"
      <3>1. cur'[w] = <<o, 0>>
        BY <2>3, <2>4, RunFrame
      <3>2. CASE v # w
        BY <2>3, <2>4, <3>1, <3>2, RunFrame
      <3>3. CASE v = w
        <4>1. Settle(w)
          BY <2>3, <2>4, <3>3 DEF RunStep, Claim, Find, Rearm, Reclaim, ReadKill, KillFail,
             KillCancel, RevertRead, RevertSet, ReadOrder, Mark, FindWallet, Quote, Quoted,
             CheckLimitBound, LimitFail, LimitOpen, Gate, Submit, Reject, RejectOrder, Fail, Step
        <4>2. orders'[o] = "filled"
          BY <1>1, <2>2, <2>3, <4>1, OrdersAssumption DEF Settle, SetStatus, FinalStatus, TypeOK,
             StoresTypeOK
        <4>3. QED
          BY <4>2 DEF LiveOrder
      <3>4. QED
        BY <3>2, <3>3
    <2>5. ASSUME \A v \in Workers : ~RunStep(v)
          PROVE  cur'[w] = <<o, 0>> /\ pc'[w] = "settle"
      <3>1. ~Swallow(w) /\ ~CrashWorker(w)
        BY FaultCounted DEF Swallow, CrashWorker
      <3>2. ~Take(w) /\ ~Ack(w)
        BY <2>3 DEF Take, Ack
      <3>3. ~Throw(w)
        <4>1. ~Unavailable(w) /\ pc[w] \notin Rejecting
          BY <2>3 DEF Unavailable, Rejecting
        <4>2. QED
          BY <4>1 DEF Throw
      <3>4. ASSUME NEW v \in Workers, Take(v) \/ Ack(v) \/ Throw(v) \/ Swallow(v) \/ CrashWorker(v)
            PROVE  cur'[w] = <<o, 0>> /\ pc'[w] = "settle"
        BY <2>3, <3>1, <3>2, <3>3, <3>4, QueueFrame
      <3>5. CASE ~\E v \in Workers : Work(v) \/ Swallow(v) \/ CrashWorker(v)
        BY <2>3, <3>5, NoWorkerFrame DEF workerVars
      <3>6. QED
        BY <2>5, <3>4, <3>5 DEF Work
    <2>6. QED
      BY <2>4, <2>5
  <1>7. QED
    BY <1>5, <1>6

\* What the initial state says of workers and orders.
LEMMA InitWorkers ==
  Init => AbsentInv /\ OwnInv /\ OnceInv /\ FillInv /\ LiveFillInv
  <1> SUFFICES ASSUME Init PROVE AbsentInv /\ OwnInv /\ OnceInv /\ FillInv /\ LiveFillInv
    OBVIOUS
  <1> USE DEF Init
  <1>1. AbsentInv
    BY NullsAssumption DEF AbsentInv, SlotsOf, IdleTick
  <1>2. OwnInv /\ OnceInv
    BY DEF OwnInv, OnceInv
  <1>3. FillInv /\ LiveFillInv
    BY DEF FillInv, LiveFillInv, LiveOrder, Orders
  <1>4. QED
    BY <1>1, <1>2, <1>3

\* While no lock has been lost, a filled limit order was submitted exactly once.
THEOREM FilledOnce ==
  Spec => [](LocksKept => \A o \in Limit : orders[o] = "filled" => submissions[<<o, 0>>] = 1)
  <1> DEFINE IInv == StopInv /\ (LocksKept => OwnInv /\ OnceInv /\ FillInv)
             Filled == \A o \in Limit : orders[o] = "filled" => submissions[<<o, 0>>] = 1
  <1>1. Init => IInv
    BY InitWorkers DEF Init, StopInv, StopWins
  <1>2. TypeOK /\ IInv /\ [Next]_vars => IInv'
    BY StopInductive, OwnInductive, OnceInductive, FillInductive, LocksKeptBefore
  <1>3. IInv => (LocksKept => Filled)
    BY DEF FillInv
  <1>4. QED
    BY <1>1, <1>2, <1>3, TypeCorrect, PTL DEF Spec

\* Until a fault, a limit order is filled by its one submission, and a live one
\* that was submitted has its worker still to settle it.
THEOREM FilledWhileFaultless == Spec => [](faults = 0 => FilledBySubmission)
  <1> DEFINE IInv == /\ StopInv /\ AbsentInv
                     /\ LocksKept => OwnInv /\ OnceInv /\ FillInv
                     /\ faults = 0 => LiveFillInv
  <1>1. Init => IInv
    BY InitWorkers DEF Init, StopInv, StopWins
  <1>2. TypeOK /\ IInv /\ [Next]_vars => IInv'
    BY StopInductive, AbsentInductive, OwnInductive, OnceInductive, FillInductive,
       LiveFillInductive, LocksKeptBefore, FaultsCounted
  <1>3. IInv => (faults = 0 => FilledBySubmission)
    <2> SUFFICES ASSUME IInv, faults = 0 PROVE FilledBySubmission
      OBVIOUS
    <2>1. OwnInv /\ FillInv /\ LiveFillInv
      BY DEF LocksKept
    <2>2. ASSUME NEW o \in Limit, orders[o] \in LiveOrder, submissions[<<o, 0>>] > 0
          PROVE  Attended(o)
      <3>1. PICK w \in Workers : cur[w] = <<o, 0>> /\ pc[w] = "settle"
        BY <2>1, <2>2 DEF LiveFillInv
      <3>2. jobs[<<o, 0>>] = "active" /\ <<o, 0>> \in SlotsOf(o)
        BY <2>1, <3>1 DEF OwnInv, SlotsOf, Slots
      <3>3. QED
        BY <3>2 DEF Attended
    <2>3. QED
      BY <2>1, <2>2 DEF FillInv, FilledBySubmission
  <1>4. QED
    BY <1>1, <1>2, <1>3, TypeCorrect, PTL DEF Spec

\* A limit order past its mark is no longer open: only its own worker writes it
\* back.
Running == {"wallet", "quote", "quoted", "bound", "gate", "kill2", "fresh", "submit", "settle"}

MarkedInv ==
  \A w \in Workers : pc[w] \in Running /\ cur[w][1] \in Limit => orders[cur[w][1]] # "open"

LEMMA MarkedInductive ==
  ASSUME TypeOK, StopInv, AbsentInv, OwnInv, MarkedInv, [Next]_vars
  PROVE  MarkedInv'
  <1>1. ASSUME NEW w \in Workers, RunStep(w)
        PROVE  MarkedInv'
    <2>1. /\ cur[w] \in Slots /\ cur[w][1] \in Orders /\ cur' = cur
          /\ \A v \in Workers \ {w} : pc'[v] = pc[v]
          /\ \A o \in Orders \ {cur[w][1]} : orders'[o] = orders[o]
      BY <1>1, RunFrame
    <2>2. pc'[w] \in Running /\ cur[w][1] \in Limit => orders'[cur[w][1]] # "open"
      <3> SUFFICES ASSUME pc'[w] \in Running, cur[w][1] \in Limit
                   PROVE  orders'[cur[w][1]] # "open"
        OBVIOUS
      <3>1. CASE Mark(w)
        BY <2>1, <3>1 DEF Mark, SetStatus, TypeOK, StoresTypeOK
      <3>2. CASE ReadOrder(w)
        BY <2>1, <3>2 DEF ReadOrder, Reads, Step, MayRun, LiveOrder, Running, MarkedInv, TypeOK,
           WorkersTypeOK
      <3>3. CASE ~(Mark(w) \/ ReadOrder(w))
        <4>1. pc[w] \in Running /\ orders' = orders
          BY <1>1, <3>3 DEF RunStep, Claim, Find, Rearm, Reclaim, ReadKill, KillFail, KillCancel,
             RevertRead, RevertSet, FindWallet, Quote, Quoted, CheckLimitBound, LimitFail,
             LimitOpen, Gate, Submit, Settle, Reject, RejectOrder, Fail, Reads, Step, Running,
             TypeOK, WorkersTypeOK
        <4>2. QED
          BY <4>1 DEF MarkedInv
      <3>4. QED
        BY <3>1, <3>2, <3>3
    <2>3. ASSUME NEW v \in Workers \ {w}, pc[v] \in Running, cur[v][1] \in Limit
          PROVE  orders'[cur[v][1]] # "open"
      <3>1. cur[v] \in Slots /\ cur[v] # cur[w] /\ cur[v][1] \in Orders
        BY <1>1, <2>3 DEF RunStep, Running, TypeOK, WorkersTypeOK, OwnInv, Orders
      <3>2. cur[v][1] # cur[w][1]
        BY <2>1, <2>3, <3>1, OrdersAssumption DEF Slots
      <3>3. QED
        BY <2>1, <2>3, <3>1, <3>2 DEF MarkedInv
    <2>4. QED
      BY <2>1, <2>2, <2>3 DEF MarkedInv
  <1>2. ASSUME \A w \in Workers : ~RunStep(w)
        PROVE  MarkedInv'
    <2> SUFFICES ASSUME NEW w \in Workers, pc'[w] \in Running, cur'[w][1] \in Limit
                 PROVE  orders'[cur'[w][1]] # "open"
      BY DEF MarkedInv
    <2>1. pc'[w] = pc[w] /\ cur'[w] = cur[w]
      BY <1>2, OtherFrame DEF Running
    <2>2. cur[w] \in Slots /\ cur[w][1] \in Orders /\ cur[w] \in SlotsOf(cur[w][1])
      BY <2>1, SlotOrder DEF TypeOK, WorkersTypeOK, Running, SlotsOf
    <2>3. orders[cur[w][1]] \notin {"open", "absent"}
      BY <2>1, <2>2 DEF MarkedInv, AbsentInv
    <2>4. QED
      BY <1>2, <2>1, <2>2, <2>3, OrderWrites DEF StopInv, SetStatus, TypeOK, StoresTypeOK
  <1>3. QED
    BY <1>1, <1>2

\* Each write of an order is a step of its life cycle, or changes nothing.
LEMMA LifecycleStep ==
  ASSUME TypeOK, StopInv, AbsentInv, OwnInv, OnceInv, OnceInv', FillInv, MarkedInv, [Next]_vars
  PROVE  [Lifecycle!Next]_(Lifecycle!vars)
  <1> USE DEF Lifecycle!vars
  <1>1. Lifecycle!Orders = Orders /\ Lifecycle!Live = LiveOrder
    BY DEF Lifecycle!Orders, Orders, Lifecycle!Live, LiveOrder
  <1>2. ASSUME NEW o \in Orders, SetStatus(o, "cancelled") \/ SetStatus(o, "failed"),
               submissions' = submissions
        PROVE  [Lifecycle!Next]_(Lifecycle!vars)
    <2>1. CASE orders[o] \in LiveOrder
      BY <1>1, <1>2, <2>1 DEF SetStatus, Lifecycle!Next, Lifecycle!Stop, Lifecycle!Move
    <2>2. CASE orders[o] \notin LiveOrder
      BY <1>2, <2>2 DEF SetStatus, TypeOK, StoresTypeOK
    <2>3. QED
      BY <2>1, <2>2
  <1>3. ASSUME NEW o \in Orders, SetStatus(o, "open"), submissions' = submissions,
               ~(o \in Limit /\ Lifecycle!Submitted(o))
        PROVE  [Lifecycle!Next]_(Lifecycle!vars)
    <2>1. CASE orders[o] = "triggered"
      BY <1>1, <1>3, <2>1 DEF SetStatus, LiveOrder, Lifecycle!Next, Lifecycle!Reopen, Lifecycle!Move
    <2>2. CASE orders[o] # "triggered"
      BY <1>3, <2>2 DEF SetStatus, LiveOrder, TypeOK, StoresTypeOK
    <2>3. QED
      BY <2>1, <2>2
  <1>4. ASSUME NEW w \in Workers, RunStep(w)
        PROVE  [Lifecycle!Next]_(Lifecycle!vars)
    <2>1. cur[w] \in Slots /\ cur[w][1] \in Orders /\ cur[w] \in SlotsOf(cur[w][1])
      BY <1>4, RunFrame
    <2>2. cur[w][1] \in Limit => \A s \in Slots : s[1] = cur[w][1] => s = cur[w]
      BY <2>1, OrdersAssumption DEF Slots
    <2>3. CASE Submit(w)
      <3>1. /\ submissions' = [submissions EXCEPT ![cur[w]] = submissions[cur[w]] + 1]
            /\ orders' = orders
        BY <2>3 DEF Submit
      <3>2. submissions[cur[w]] \in Nat /\ submissions'[cur[w]] <= 1
            /\ submissions'[cur[w]] = submissions[cur[w]] + 1
        BY <2>1, <3>1 DEF TypeOK, OnceInv
      <3>3. submissions[cur[w]] = 0 /\ submissions[cur[w]] + 1 = 1
        BY <3>2
      <3>4. orders[cur[w][1]] # "absent"
        BY <2>1 DEF AbsentInv
      <3>5. Lifecycle!Submit(cur[w])
        BY <3>1, <3>3, <3>4 DEF Lifecycle!Submit
      <3>6. QED
        BY <2>1, <3>5 DEF Lifecycle!Next
    <2>4. CASE ~Submit(w)
      <3>1. submissions' = submissions
        BY <1>4, <2>4 DEF RunStep, Claim, Find, Rearm, Reclaim, ReadKill, KillFail, KillCancel,
             RevertRead, RevertSet, ReadOrder, Mark, FindWallet, Quote, Quoted,
             CheckLimitBound, LimitFail, LimitOpen, Gate, Settle, Reject,
             RejectOrder, Fail, Reads, historyVars
      <3>2. CASE KillCancel(w) \/ RejectOrder(w)
        BY <1>2, <2>1, <3>1, <3>2 DEF KillCancel, RejectOrder
      <3>3. CASE RevertSet(w) \/ LimitOpen(w)
        <4>1. SetStatus(cur[w][1], "open") /\ pc[w] \in {"revertSet", "limitOpen"}
          BY <3>3 DEF RevertSet, LimitOpen, Step
        <4>2. submissions[cur[w]] = 0
          BY <2>1, <4>1 DEF OnceInv, TypeOK
        <4>3. cur[w][1] \in Limit => ~Lifecycle!Submitted(cur[w][1])
          BY <2>2, <4>2 DEF Lifecycle!Submitted
        <4>4. QED
          BY <1>3, <2>1, <3>1, <4>1, <4>3
      <3>4. CASE Mark(w)
        <4>1. CASE orders[cur[w][1]] = "open"
          BY <1>1, <2>1, <3>1, <3>4, <4>1 DEF Mark, SetStatus, LiveOrder, Lifecycle!Next,
             Lifecycle!Trigger, Lifecycle!Move
        <4>2. CASE orders[cur[w][1]] # "open"
          BY <2>1, <3>1, <3>4, <4>2 DEF Mark, SetStatus, LiveOrder, TypeOK, StoresTypeOK
        <4>3. QED
          BY <4>1, <4>2
      <3>5. CASE Settle(w)
        <4>1. SetStatus(cur[w][1], FinalStatus(cur[w][1])) /\ pc[w] = "settle"
          BY <3>5 DEF Settle, Step
        <4>2. CASE cur[w][1] \in Dca
          BY <1>3, <2>1, <3>1, <4>1, <4>2, OrdersAssumption DEF FinalStatus
        <4>3. CASE cur[w][1] \in Limit /\ orders[cur[w][1]] = "triggered"
          <5>1. Lifecycle!Submitted(cur[w][1])
            <6>1. submissions[cur[w]] > 0
              BY <4>1 DEF FillInv
            <6>2. QED
              BY <2>1, <6>1 DEF Lifecycle!Submitted
          <5>2. orders' = [orders EXCEPT ![cur[w][1]] = "filled"]
            BY <4>1, <4>3, OrdersAssumption DEF FinalStatus, SetStatus, LiveOrder
          <5>3. Lifecycle!Fill(cur[w][1])
            BY <3>1, <4>3, <5>1, <5>2 DEF Lifecycle!Fill, Lifecycle!Move
          <5>4. QED
            BY <1>1, <2>1, <5>3 DEF Lifecycle!Next
        <4>4. CASE cur[w][1] \in Limit /\ orders[cur[w][1]] # "triggered"
          <5>1. orders[cur[w][1]] # "open"
            BY <4>1, <4>4 DEF MarkedInv, Running
          <5>2. orders' = orders
            BY <2>1, <4>1, <4>4, <5>1 DEF SetStatus, LiveOrder, TypeOK, StoresTypeOK
          <5>3. QED
            BY <3>1, <5>2
        <4>5. QED
          BY <2>1, <4>2, <4>3, <4>4 DEF Orders
      <3>6. CASE ~(KillCancel(w) \/ RejectOrder(w) \/ RevertSet(w) \/ LimitOpen(w) \/ Mark(w) \/ Settle(w))
        <4>1. orders' = orders
          BY <1>4, <3>6 DEF RunStep, Claim, Find, Rearm, Reclaim, ReadKill, KillFail, RevertRead,
             ReadOrder, FindWallet, Quote, Quoted, CheckLimitBound, LimitFail, Gate, Submit,
             Reject, Fail, Reads
        <4>2. QED
          BY <3>1, <4>1
      <3>7. QED
        BY <3>2, <3>3, <3>4, <3>5, <3>6
    <2>5. QED
      BY <2>3, <2>4
  <1>5. ASSUME \A w \in Workers : ~RunStep(w)
        PROVE  [Lifecycle!Next]_(Lifecycle!vars)
    <2>1. submissions' = submissions
      BY <1>5, OtherFrame
    <2>2. CASE orders' = orders
      BY <2>1, <2>2
    <2>3. ASSUME NEW o \in Orders, o \in creating, orders' = [orders EXCEPT ![o] = "open"]
          PROVE  [Lifecycle!Next]_(Lifecycle!vars)
      BY <1>1, <2>1, <2>3 DEF StopInv, Lifecycle!Next, Lifecycle!Create, Lifecycle!Move
    <2>4. QED
      BY <1>2, <1>5, <2>1, <2>2, <2>3, OrderWrites
  <1>6. QED
    BY <1>4, <1>5

\* As long as no lock of a live worker expires, every behaviour of the workers,
\* schedulers, finalizers, administrators and users is one of OrderLifecycle,
\* whatever crashes and whichever store fails.
THEOREM ImplementsLifecycle ==
  ASSUME "lock_loss" \notin FaultKinds
  PROVE  Spec => OrdersFollowLifecycle
  <1> DEFINE IInv == StopInv /\ AbsentInv /\ OwnInv /\ OnceInv /\ FillInv /\ MarkedInv
  <1>1. Init => IInv
    BY InitWorkers DEF Init, StopInv, StopWins, MarkedInv, Running
  <1>2. TypeOK /\ IInv /\ [Next]_vars => IInv'
    BY StopInductive, AbsentInductive, OwnInductive, OnceInductive, FillInductive,
       MarkedInductive DEF LocksKept
  <1>3. Init => Lifecycle!Init
    BY DEF Init, Lifecycle!Init, Lifecycle!Orders, Orders
  <1>4. TypeOK /\ IInv /\ IInv' /\ [Next]_vars => [Lifecycle!Next]_(Lifecycle!vars)
    BY LifecycleStep
  <1>5. QED
    BY <1>1, <1>2, <1>3, <1>4, TypeCorrect, PTL DEF Spec, OrdersFollowLifecycle, Lifecycle!Spec

-----------------------------------------------------------------------------
(* NoDormantOrder, until the first fault.                                   *)

\* The steps of run() between winning the slot and finalizing its record.
MidRun == {"kill", "killFail", "order", "mark", "wallet", "quote", "quoted", "bound",
           "limitFail", "gate", "kill2", "fresh", "submit", "reject", "failDead",
           "failWallet"}

\* The order of the slot has ended, or a finalizer is about to end it.
Ended(s) == orders[s[1]] \in TerminalOrder \/ fin[s] \cap {"order", "setOrder"} # {}

\* A finalizer of an earlier delivery has patched the record and ends the order.
Patched(s) == execs[s] = "failed_retry" /\ Ended(s)

\* What a worker knows of its slot: the record is still its own to finalize, or it
\* is patched.
MidOK(w) ==
  /\ pc[w] \in MidRun => execs[cur[w]] \in Resumable \/ Patched(cur[w])
  /\ pc[w] \in {"find", "reclaim"} => execs[cur[w]] # "none"
  /\ pc[w] = "reclaim" => execs[cur[w]] \in Resumable \/ Patched(cur[w])
  /\ pc[w] = "rearm" => execs[cur[w]] \in Unspent \/ Patched(cur[w])
  /\ pc[w] = "failDead" => orders[cur[w][1]] \in TerminalOrder
  /\ pc[w] = "failWallet" => cur[w][1] \in Walletless

MidInv == \A w \in Workers : MidOK(w)

\* Steps of run() before the record is won, and those after it that still write
\* the order or fail the job.
Early == {"claim", "find", "reclaim"}
Late  == {"rearm", "kill", "killFail", "killCancel", "revertRead", "revertSet", "order",
          "mark", "wallet", "quote", "quoted", "bound", "limitFail", "limitOpen", "gate",
          "kill2", "fresh", "submit", "settle", "reject", "rejectOrder"}

\* Somebody runs, or will run, code that takes the order out of 'triggered'.
SlotResponsible(s) ==
  \/ fin[s] \cap {"read", "patch", "order", "setOrder"} # {}
  \/ /\ execs[s] \notin Spent
     /\ \/ jobs[s] = "waiting"
        \/ ReAdding(s)
        \/ \E w \in Workers : cur[w] = s /\ pc[w] \in Early
  \/ \E w \in Workers : cur[w] = s /\ pc[w] \in Late

TriggeredInv ==
  \A o \in Orders \ Walletless :
    orders[o] = "triggered" => \E s \in SlotsOf(o) : SlotResponsible(s)

\* A spent record goes with an ended order, unless it is a DCA slot that went
\* well or its worker is about to write the order.
SpentOK(s) ==
  \/ Ended(s)
  \/ execs[s] = "submitted" /\ (s[1] \in Dca \/ \E w \in Workers : cur[w] = s /\ pc[w] = "settle")
  \/ execs[s] = "gate_rejected" /\ \E w \in Workers : cur[w] = s /\ pc[w] = "rejectOrder"

SpentInv == \A s \in Slots : s[1] \notin Walletless /\ execs[s] \in Spent => SpentOK(s)

\* An order that has ended, or that a finalizer ends, stays so.
LEMMA EndedKept ==
  ASSUME TypeOK, StopInv, AbsentInv, [Next]_vars, faults' = 0, NEW s \in Slots, Ended(s)
  PROVE  Ended(s)'
  <1>1. s[1] \in Orders /\ s \in SlotsOf(s[1])
    BY SlotOrder DEF SlotsOf
  <1>2. CASE orders[s[1]] \in TerminalOrder
    BY <1>1, <1>2, TerminalKept DEF StopInv, Ended, vars
  <1>3. CASE orders[s[1]] \notin TerminalOrder
    <2>1. fin[s] \cap {"order", "setOrder"} # {}
      BY <1>3 DEF Ended
    <2>2. orders[s[1]] \in LiveOrder
      BY <1>1, <1>3, <2>1 DEF AbsentInv, TypeOK, StoresTypeOK, OrderStatus
    <2>3. CASE Finalize(s)
      <3>1. CASE FinRead(s) \/ FinPatch(s) \/ FinAudit(s)
        BY <2>1, <3>1 DEF FinRead, FinPatch, FinAudit, FinStep, Ended, TypeOK
      <3>2. CASE FinOrder(s)
        BY <2>2, <3>2 DEF FinOrder, FinStep, Ended, TypeOK
      <3>3. CASE FinSetOrder(s)
        BY <1>1, <2>2, <3>3 DEF FinSetOrder, SetStatus, Ended, TypeOK, StoresTypeOK, TerminalOrder
      <3>4. QED
        BY <2>3, <3>1, <3>2, <3>3 DEF Finalize
    <2>4. CASE ~Finalize(s)
      <3>1. fin[s] \subseteq fin'[s]
        <4>1. ASSUME NEW w \in Workers, Work(w) \/ Swallow(w) \/ CrashWorker(w)
              PROVE  fin[s] \subseteq fin'[s]
          BY <4>1 DEF Work, RunStep, Take, Ack, Throw, Swallow, CrashWorker, TypeOK
        <4>2. ASSUME NEW r \in Slots, Redeliver(r) \/ Finalize(r) \/ LoseFinalizer(r)
              PROVE  fin[s] \subseteq fin'[s]
          <5>1. CASE Redeliver(r)
            BY <5>1 DEF Redeliver
          <5>2. CASE Finalize(r)
            BY <2>4, <5>2, FinalizerFrame
          <5>3. ~LoseFinalizer(r)
            BY FaultCounted DEF LoseFinalizer
          <5>4. QED
            BY <4>2, <5>1, <5>2, <5>3
        <4>3. ASSUME NEW p \in Schedulers, Tick(p) \/ AbortTick(p)
              PROVE  fin' = fin
          BY <4>3 DEF Tick, TickStart, TickList, TickOrder, TickEnqueue, TickRemove, TickAdd,
                      TickEnd, TickFrame, AbortTick
        <4>4. ASSUME NEW a \in Admins, SetMode(a) \/ Administer(a) \/ AbortAdmin(a)
              PROVE  fin' = fin
          BY <4>4 DEF SetMode, Administer, ToggleQueue, FanOutList, FanOutCancel, FanOutEnd,
                      AbortAdmin, AdminFrame
        <4>5. ASSUME (\E o \in Orders : CheckCreate(o) \/ Create(o) \/ Cancel(o)) \/ Advance
              PROVE  fin' = fin
          BY <4>5 DEF CheckCreate, Create, Cancel, Advance, UserFrame
        <4>6. QED
          BY <4>1, <4>2, <4>3, <4>4, <4>5 DEF Next, vars
      <3>2. QED
        BY <2>1, <3>1 DEF Ended
    <2>5. QED
      BY <2>3, <2>4
  <1>4. QED
    BY <1>2, <1>3

\* What run() finds at its next step.
LEMMA MidStep ==
  ASSUME TypeOK, NEW w \in Workers, RunStep(w)
  PROVE  /\ pc'[w] \in MidRun => \/ execs'[cur[w]] \in Resumable
                                 \/ pc[w] \in MidRun /\ execs' = execs
         /\ pc'[w] = "find" => execs' = execs /\ execs[cur[w]] # "none"
         /\ pc'[w] = "reclaim" => execs' = execs /\ pc[w] = "find" /\ execs[cur[w]] \notin Terminal
         /\ pc'[w] = "rearm" => execs' = execs /\ execs[cur[w]] \in Unspent
         /\ pc'[w] = "failDead" => orders' = orders /\ orders[cur[w][1]] \notin LiveOrder
         /\ pc'[w] = "failWallet" => cur[w][1] \in Walletless
  <1> USE DEF TypeOK, StoresTypeOK, WorkersTypeOK, Step, MidRun
  <1>1. cur[w] \in Slots /\ pc \in [Workers -> WorkerPc]
    BY DEF RunStep
  <1>2. CASE Claim(w) \/ Find(w) \/ Rearm(w) \/ Reclaim(w)
    BY <1>1, <1>2 DEF Claim, Find, Rearm, Reclaim, Update, Resumable, Reads
  <1>3. CASE ReadKill(w) \/ RevertRead(w) \/ FindWallet(w) \/ Quote(w) \/ CheckLimitBound(w) \/ Gate(w)
    BY <1>1, <1>3 DEF ReadKill, RevertRead, FindWallet, Quote, CheckLimitBound, Gate, Reads
  <1>4. CASE ReadOrder(w)
    BY <1>1, <1>4 DEF ReadOrder, Reads, MayRun
  <1>5. CASE Quoted(w)
    BY <1>1, <1>5 DEF Quoted, Update, Resumable
  <1>6. CASE Mark(w)
    BY <1>1, <1>6 DEF Mark
  <1>7. CASE KillFail(w) \/ KillCancel(w) \/ RevertSet(w) \/ LimitFail(w) \/ LimitOpen(w)
             \/ Submit(w) \/ Settle(w) \/ Reject(w) \/ RejectOrder(w) \/ Fail(w)
    BY <1>1, <1>7 DEF KillFail, KillCancel, RevertSet, LimitFail, LimitOpen, Submit, Settle,
       Reject, RejectOrder, Fail
  <1>8. QED
    BY <1>2, <1>3, <1>4, <1>5, <1>6, <1>7 DEF RunStep

\* Only run() and the finalizer's patch write execution records.
LEMMA RecordFrame ==
  ASSUME [Next]_vars, \A w \in Workers : ~RunStep(w), \A s \in Slots : ~FinPatch(s)
  PROVE  execs' = execs
  <1>1. ASSUME NEW w \in Workers, Take(w) \/ Ack(w) \/ Throw(w) \/ Swallow(w) \/ CrashWorker(w)
        PROVE  execs' = execs
    BY <1>1 DEF Take, Ack, Throw, Swallow, CrashWorker
  <1>2. ASSUME NEW s \in Slots, Redeliver(s) \/ Finalize(s) \/ LoseFinalizer(s)
        PROVE  execs' = execs
    BY <1>2 DEF Redeliver, Finalize, FinRead, FinOrder, FinSetOrder, FinAudit, LoseFinalizer
  <1>3. ASSUME NEW p \in Schedulers, Tick(p) \/ AbortTick(p)
        PROVE  execs' = execs
    BY <1>3 DEF Tick, TickStart, TickList, TickOrder, TickEnqueue, TickRemove, TickAdd,
                TickEnd, TickFrame, AbortTick
  <1>4. ASSUME NEW a \in Admins, SetMode(a) \/ Administer(a) \/ AbortAdmin(a)
        PROVE  execs' = execs
    BY <1>4 DEF SetMode, Administer, ToggleQueue, FanOutList, FanOutCancel, FanOutEnd,
                AbortAdmin, AdminFrame
  <1>5. ASSUME (\E o \in Orders : CheckCreate(o) \/ Create(o) \/ Cancel(o)) \/ Advance
        PROVE  execs' = execs
    BY <1>5 DEF CheckCreate, Create, Cancel, Advance, UserFrame
  <1>6. QED
    BY <1>1, <1>2, <1>3, <1>4, <1>5 DEF Next, Work, vars

LEMMA MidInductive ==
  ASSUME TypeOK, StopInv, AbsentInv, OwnInv, MidInv, [Next]_vars, faults' = 0
  PROVE  MidInv'
  <1>1. \A s \in Slots : Patched(s) /\ execs'[s] = execs[s] => Patched(s)'
    BY EndedKept DEF Patched
  <1>2. \A w \in Workers : pc[w] # "idle" =>
          cur[w] \in Slots /\ cur[w][1] \in Orders /\ cur[w] \in SlotsOf(cur[w][1])
    BY SlotOrder DEF TypeOK, WorkersTypeOK, SlotsOf
  <1>3. \A o \in Orders : orders[o] \in TerminalOrder => orders'[o] \in TerminalOrder
    BY TerminalKept DEF StopInv, vars
  <1>4. ASSUME NEW v \in Workers, pc'[v] = pc[v], cur'[v] = cur[v],
               pc[v] # "idle" => execs'[cur[v]] = execs[cur[v]]
        PROVE  MidOK(v)'
    <2>1. CASE pc[v] = "idle"
      BY <1>4, <2>1 DEF MidOK, MidRun
    <2>2. CASE pc[v] # "idle"
      <3>1. PICK s \in Slots : s = cur[v] /\ s[1] \in Orders
        BY <1>2, <2>2
      <3>2. /\ pc[v] \in MidRun => execs[s] \in Resumable \/ Patched(s)
            /\ pc[v] \in {"find", "reclaim"} => execs[s] # "none"
            /\ pc[v] = "reclaim" => execs[s] \in Resumable \/ Patched(s)
            /\ pc[v] = "rearm" => execs[s] \in Unspent \/ Patched(s)
            /\ pc[v] = "failDead" => orders[s[1]] \in TerminalOrder
            /\ pc[v] = "failWallet" => s[1] \in Walletless
        BY <3>1 DEF MidInv, MidOK
      <3>3. cur'[v] = s /\ pc'[v] = pc[v] /\ execs'[s] = execs[s]
        BY <1>4, <2>2, <3>1
      <3>4. (Patched(s) => Patched(s)') /\ (orders[s[1]] \in TerminalOrder => orders'[s[1]] \in TerminalOrder)
        BY <1>1, <1>3, <3>1, <3>3
      <3>5. QED
        BY <3>2, <3>3, <3>4 DEF MidOK, Patched, Ended
    <2>3. QED
      BY <2>1, <2>2
  <1>5. ASSUME NEW w \in Workers, RunStep(w)
        PROVE  MidInv'
    <2>1. PICK s \in Slots : s = cur[w] /\ s[1] \in Orders /\ s \in SlotsOf(s[1])
      BY <1>5, RunFrame
    <2>2. /\ cur' = cur
          /\ \A v \in Workers \ {w} : pc'[v] = pc[v]
          /\ \A v \in Workers \ {w} : pc[v] # "idle" => execs'[cur[v]] = execs[cur[v]]
      <3>1. \A v \in Workers \ {w} : pc[v] # "idle" => cur[v] # cur[w]
        BY <1>5 DEF RunStep, OwnInv
      <3>2. QED
        BY <1>2, <1>5, <3>1, RunFrame
    <2>3. MidOK(w)'
      <3>1. pc'[w] \in MidRun => execs'[s] \in Resumable \/ Patched(s)'
        <4>1. CASE execs'[s] \in Resumable
          BY <4>1
        <4>2. CASE pc'[w] \in MidRun /\ execs'[s] \notin Resumable
          <5>1. execs' = execs /\ pc[w] \in MidRun
            BY <1>5, <2>1, <4>2, MidStep
          <5>2. Patched(s)
            BY <2>1, <4>2, <5>1 DEF MidInv, MidOK
          <5>3. QED
            BY <1>1, <5>1, <5>2
        <4>3. QED
          BY <4>1, <4>2
      <3>2. /\ pc'[w] = "find" => execs'[s] # "none"
            /\ pc'[w] = "rearm" => execs'[s] \in Unspent
            /\ pc'[w] = "failWallet" => s[1] \in Walletless
        BY <1>5, <2>1, MidStep
      <3>3. pc'[w] = "reclaim" => execs'[s] \in Resumable
        BY <1>5, <2>1, MidStep DEF MidInv, MidOK, TypeOK, StoresTypeOK, ExecStatus
      <3>4. pc'[w] = "failDead" => orders'[s[1]] \in TerminalOrder
        <4>1. orders[s[1]] \in OrderStatus \ {"absent"}
          BY <2>1 DEF AbsentInv, TypeOK, StoresTypeOK
        <4>2. QED
          BY <1>5, <2>1, <4>1, MidStep DEF OrderStatus
      <3>5. cur'[w] = s /\ "none" \notin Resumable
        BY <2>1, <2>2 DEF Resumable
      <3>6. QED
        BY <3>1, <3>2, <3>3, <3>4, <3>5 DEF MidOK, Patched, Ended
    <2>4. QED
      BY <1>4, <2>2, <2>3 DEF MidInv
  <1>6. ASSUME NEW s \in Slots, FinPatch(s)
        PROVE  MidInv'
    <2>1. /\ UNCHANGED workerVars /\ orders' = orders
          /\ execs' = [execs EXCEPT ![s] = "failed_retry"]
          /\ "order" \in fin'[s]
      BY <1>6 DEF FinPatch, FinStep, Update, TypeOK
    <2>2. Patched(s)'
      BY <2>1 DEF Patched, Ended, TypeOK, StoresTypeOK
    <2>3. ASSUME NEW v \in Workers, cur[v] = s
          PROVE  MidOK(v)'
      <3>1. /\ pc[v] = "failDead" => orders[s[1]] \in TerminalOrder
            /\ pc[v] = "failWallet" => s[1] \in Walletless
        BY <2>3 DEF MidInv, MidOK
      <3>2. cur'[v] = s /\ pc'[v] = pc[v] /\ orders' = orders /\ execs'[s] = "failed_retry"
        BY <2>1, <2>3 DEF workerVars, TypeOK, StoresTypeOK
      <3>3. QED
        BY <2>2, <3>1, <3>2 DEF MidOK, Patched, Ended
    <2>4. ASSUME NEW v \in Workers, cur[v] # s
          PROVE  MidOK(v)'
      <3>1. pc[v] # "idle" => execs'[cur[v]] = execs[cur[v]]
        BY <1>2, <2>1, <2>4 DEF TypeOK, StoresTypeOK
      <3>2. pc'[v] = pc[v] /\ cur'[v] = cur[v]
        BY <2>1 DEF workerVars
      <3>3. QED
        BY <1>4, <3>1, <3>2
    <2>5. QED
      BY <2>3, <2>4 DEF MidInv
  <1>7. ASSUME \A w \in Workers : ~RunStep(w), \A s \in Slots : ~FinPatch(s)
        PROVE  MidInv'
    <2>1. execs' = execs
      BY <1>7, RecordFrame
    <2> SUFFICES ASSUME NEW v \in Workers PROVE MidOK(v)'
      BY DEF MidInv
    <2>2. CASE pc'[v] \in {"idle", "claim", "ack"}
      BY <2>2 DEF MidOK, MidRun
    <2>3. CASE pc'[v] = pc[v] /\ cur'[v] = cur[v]
      BY <1>4, <2>1, <2>3
    <2>4. QED
      BY <1>7, <2>2, <2>3, OtherFrame
  <1>8. QED
    BY <1>5, <1>6, <1>7

\* Nobody but the worker at a slot moves on there, and until a fault it leaves it
\* by its own code only.
LEMMA StayFrame ==
  ASSUME TypeOK, [Next]_vars, faults' = 0, NEW w \in Workers, pc[w] # "idle",
         ~RunStep(w), ~Ack(w), ~Throw(w)
  PROVE  pc'[w] = pc[w] /\ cur'[w] = cur[w]
  <1>1. ~Swallow(w) /\ ~CrashWorker(w) /\ ~Take(w)
    BY FaultCounted DEF Swallow, CrashWorker, Take
  <1>2. ASSUME NEW v \in Workers \ {w}, RunStep(v)
        PROVE  pc'[w] = pc[w] /\ cur'[w] = cur[w]
    BY <1>2, RunFrame
  <1>3. ASSUME NEW v \in Workers \ {w}, Take(v) \/ Ack(v) \/ Throw(v) \/ Swallow(v) \/ CrashWorker(v)
        PROVE  pc'[w] = pc[w] /\ cur'[w] = cur[w]
    BY <1>3, QueueFrame
  <1>4. QED
    BY <1>1, <1>2, <1>3, NoWorkerFrame DEF Work, workerVars

\* A worker that settles or rejects an order leaves it ended.
LEMMA EndsOrder ==
  ASSUME TypeOK, AbsentInv, NEW w \in Workers, RunStep(w),
         \/ pc[w] = "settle" /\ cur[w][1] \notin Dca
         \/ pc[w] = "rejectOrder"
  PROVE  orders'[cur[w][1]] \in TerminalOrder
  <1>1. /\ cur[w] \in Slots /\ cur[w][1] \in Orders
        /\ orders[cur[w][1]] \in OrderStatus \ {"absent"}
    BY RunFrame DEF AbsentInv, TypeOK, StoresTypeOK
  <1>2. Settle(w) \/ RejectOrder(w)
    BY DEF RunStep, Claim, Find, Rearm, Reclaim, ReadKill, KillFail, KillCancel, RevertRead,
       RevertSet, ReadOrder, Mark, FindWallet, Quote, Quoted, CheckLimitBound, LimitFail,
       LimitOpen, Gate, Submit, Reject, Fail, Step
  <1>3. \E status \in {"filled", "failed"} : SetStatus(cur[w][1], status)
    BY <1>2 DEF Settle, RejectOrder, FinalStatus, Step
  <1>4. QED
    BY <1>1, <1>3 DEF SetStatus, OrderStatus, TerminalOrder, LiveOrder, TypeOK, StoresTypeOK

LEMMA SpentInductive ==
  ASSUME TypeOK, StopInv, AbsentInv, OwnInv, MidInv, SpentInv, [Next]_vars, faults' = 0
  PROVE  SpentInv'
  <1> SUFFICES ASSUME NEW s \in Slots, s[1] \notin Walletless, execs'[s] \in Spent
               PROVE  SpentOK(s)'
    BY DEF SpentInv
  <1>1. s[1] \in Orders
    BY SlotOrder
  <1>2. Ended(s) => Ended(s)'
    BY EndedKept
  <1>3. CASE execs'[s] = execs[s]
    <2>1. CASE Ended(s) \/ (execs[s] = "submitted" /\ s[1] \in Dca)
      BY <1>2, <1>3, <2>1 DEF SpentOK
    <2>2. ASSUME NEW w \in Workers, cur[w] = s,
                 \/ execs[s] = "submitted" /\ pc[w] = "settle" /\ s[1] \notin Dca
                 \/ execs[s] = "gate_rejected" /\ pc[w] = "rejectOrder"
          PROVE  SpentOK(s)'
      <3>1. CASE RunStep(w)
        BY <2>2, <3>1, EndsOrder DEF SpentOK, Ended
      <3>2. CASE ~RunStep(w)
        <4>1. ~Ack(w)
          BY <2>2 DEF Ack
        <4>2. ~Throw(w)
          <5>1. ~Unavailable(w) /\ pc[w] \notin Rejecting
            BY <2>2 DEF Unavailable, Rejecting
          <5>2. QED
            BY <5>1 DEF Throw
        <4>3. pc'[w] = pc[w] /\ cur'[w] = s
          BY <2>2, <3>2, <4>1, <4>2, StayFrame
        <4>4. QED
          BY <1>3, <2>2, <4>3 DEF SpentOK
      <3>3. QED
        BY <3>1, <3>2
    <2>3. QED
      BY <1>3, <2>1, <2>2 DEF SpentInv, SpentOK
  <1>4. CASE execs'[s] # execs[s]
    <2>1. ASSUME NEW w \in Workers, RunStep(w)
          PROVE  SpentOK(s)'
      <3>1. cur[w] = s /\ cur' = cur
        BY <1>4, <2>1, RunFrame
      <3>2. CASE Submit(w) \/ Reject(w)
        <4>1. \/ execs'[s] = "submitted" /\ pc'[w] = "settle"
              \/ execs'[s] = "gate_rejected" /\ pc'[w] = "rejectOrder"
          BY <3>1, <3>2 DEF Submit, Reject, Update, Step, TypeOK, StoresTypeOK, WorkersTypeOK
        <4>2. QED
          BY <3>1, <4>1 DEF SpentOK
      <3>3. CASE Fail(w)
        <4>1. pc[w] \in {"failDead", "failWallet"} /\ orders' = orders
          BY <3>3 DEF Fail, Step
        <4>2. orders[s[1]] \in TerminalOrder
          BY <3>1, <4>1 DEF MidInv, MidOK
        <4>3. QED
          BY <4>1, <4>2 DEF SpentOK, Ended
      <3>4. CASE ~(Submit(w) \/ Reject(w) \/ Fail(w))
        <4>1. execs'[s] \in Resumable \cup Unspent
          BY <1>4, <2>1, <3>1, <3>4 DEF RunStep, Claim, Find, Rearm, Reclaim, ReadKill, KillFail,
             KillCancel, RevertRead, RevertSet, ReadOrder, Mark, FindWallet, Quote, Quoted,
             CheckLimitBound, LimitFail, LimitOpen, Gate, Settle, RejectOrder, Reads, Update,
             Resumable, Unspent, TypeOK, StoresTypeOK
        <4>2. QED
          BY <4>1 DEF Spent, Terminal, Resumable
      <3>5. QED
        BY <3>2, <3>3, <3>4
    <2>2. ASSUME NEW r \in Slots, FinPatch(r)
          PROVE  SpentOK(s)'
      <3>1. r = s
        BY <1>4, <2>2 DEF FinPatch, Update, TypeOK, StoresTypeOK
      <3>2. "order" \in fin'[s]
        BY <2>2, <3>1 DEF FinPatch, FinStep, TypeOK
      <3>3. QED
        BY <3>2 DEF SpentOK, Ended
    <2>3. QED
      BY <1>4, <2>1, <2>2, RecordFrame
  <1>5. QED
    BY <1>3, <1>4

-----------------------------------------------------------------------------
(* A triggered order always has somebody who takes it out of 'triggered'.    *)

\* Nobody but the worker of the slot moves its record, unless a finalizer patches it.
LEMMA RunResponsible ==
  ASSUME TypeOK, OwnInv, MidInv, NEW w \in Workers, RunStep(w), NEW s \in Slots,
         s[1] \notin Walletless, SlotResponsible(s), orders[s[1]] = "triggered",
         orders'[s[1]] = "triggered"
  PROVE  SlotResponsible(s)'
  <1>1. /\ cur[w] \in Slots /\ UNCHANGED <<jobs, cur, fin, tick>>
        /\ \A v \in Workers \ {w} : pc'[v] = pc[v]
        /\ \A r \in Slots \ {cur[w]} : execs'[r] = execs[r]
    BY RunFrame DEF jobVars
  <1>2. ReAdding(s)' <=> ReAdding(s)
    BY <1>1 DEF ReAdding
  <1>3. CASE fin[s] \cap {"read", "patch", "order", "setOrder"} # {}
    BY <1>1, <1>3 DEF SlotResponsible
  <1>4. CASE cur[w] # s
    <2>1. execs'[s] = execs[s] /\ \A v \in Workers : cur[v] = s => cur'[v] = s /\ pc'[v] = pc[v]
      BY <1>1, <1>4
    <2>2. QED
      BY <1>1, <1>2, <2>1 DEF SlotResponsible
  <1>5. CASE cur[w] = s /\ fin[s] \cap {"read", "patch", "order", "setOrder"} = {}
    <2>1. jobs[s] = "active" /\ \A v \in Workers : pc[v] # "idle" /\ cur[v] = s => v = w
      BY <1>5 DEF RunStep, OwnInv
    <2>2. \/ pc[w] \in Early /\ execs[s] \notin Spent
          \/ pc[w] \in Late
      BY <1>5, <2>1 DEF SlotResponsible, ReAdding, Early, Late
    <2>3. ~Patched(s)
      BY <1>5 DEF Patched, Ended, TerminalOrder
    <2>4. \/ pc'[w] \in Late
          \/ pc'[w] \in Early /\ execs'[s] \notin Spent
      <3> USE DEF Step, TypeOK, WorkersTypeOK
      <3>1. CASE pc[w] \in Early /\ execs[s] \notin Spent
        <4>1. Claim(w) \/ Find(w) \/ Reclaim(w)
          BY <3>1 DEF Early, RunStep, Rearm, ReadKill, KillFail, KillCancel, RevertRead,
             RevertSet, ReadOrder, Mark, FindWallet, Quote, Quoted, CheckLimitBound, LimitFail,
             LimitOpen, Gate, Submit, Settle, Reject, RejectOrder, Fail
        <4>2. CASE Claim(w)
          BY <1>5, <3>1, <4>2 DEF Claim, Early, Late
        <4>3. CASE Find(w)
          BY <1>5, <3>1, <4>3 DEF Find, Reads, Early, Late, Spent
        <4>4. CASE Reclaim(w)
          <5>1. execs[s] \in Resumable
            BY <1>5, <2>3, <4>4 DEF Reclaim, MidInv, MidOK
          <5>2. QED
            BY <1>5, <4>4, <5>1 DEF Reclaim, CanReclaim, Late
        <4>5. QED
          BY <4>1, <4>2, <4>3, <4>4
      <3>2. CASE pc[w] \in Late
        <4>1. CASE KillCancel(w) \/ RevertSet(w) \/ LimitOpen(w) \/ Settle(w) \/ RejectOrder(w)
          <5>1. \E status \in {"cancelled", "open", "filled", "failed"} : SetStatus(s[1], status)
            BY <1>5, <4>1 DEF KillCancel, RevertSet, LimitOpen, Settle, FinalStatus, RejectOrder
          <5>2. s[1] \in Orders
            BY SlotOrder
          <5>3. QED
            BY <5>1, <5>2 DEF SetStatus, LiveOrder, StoresTypeOK
        <4>2. CASE RevertRead(w) \/ ReadOrder(w) \/ FindWallet(w)
          BY <1>5, <4>2 DEF RevertRead, Reverts, ReadOrder, MayRun, LiveOrder, FindWallet, Late
        <4>3. CASE ~(KillCancel(w) \/ RevertSet(w) \/ LimitOpen(w) \/ Settle(w) \/ RejectOrder(w)
                     \/ RevertRead(w) \/ ReadOrder(w) \/ FindWallet(w))
          BY <3>2, <4>3 DEF Late, RunStep, Claim, Find, Rearm, Reclaim, ReadKill, KillFail, Mark,
             Quote, Quoted, CheckLimitBound, LimitFail, Gate, Submit, Reject, Fail
        <4>4. QED
          BY <4>1, <4>2, <4>3
      <3>3. QED
        BY <2>2, <3>1, <3>2
    <2>5. QED
      BY <1>1, <1>5, <2>4 DEF SlotResponsible
  <1>6. QED
    BY <1>3, <1>4, <1>5

\* A job that goes back to the queue, or is exhausted, keeps its slot attended.
LEMMA QueueResponsible ==
  ASSUME TypeOK, OwnInv, MidInv, NEW w \in Workers, Take(w) \/ Ack(w) \/ Throw(w),
         faults' = 0, NEW s \in Slots, SlotResponsible(s), orders[s[1]] = "triggered"
  PROVE  SlotResponsible(s)'
  <1>1. /\ UNCHANGED <<orders, execs, tick>>
        /\ \A v \in Workers \ {w} : pc'[v] = pc[v] /\ cur'[v] = cur[v]
    BY QueueFrame
  <1>2. CASE Take(w)
    <2>1. PICK r \in Slots : jobs[r] = "waiting" /\ jobs' = [jobs EXCEPT ![r] = "active"]
                             /\ cur' = [cur EXCEPT ![w] = r]
      BY <1>2 DEF Take
    <2>2. pc'[w] = "claim" /\ pc[w] = "idle" /\ cur'[w] = r /\ fin' = fin
      BY <1>2, <2>1 DEF Take, TypeOK, WorkersTypeOK
    <2>3. CASE r = s
      <3>1. jobs[s] = "waiting" /\ ~ReAdding(s)
        BY <2>1, <2>3 DEF ReAdding
      <3>2. CASE fin[s] \cap {"read", "patch", "order", "setOrder"} # {}
        BY <2>2, <3>2 DEF SlotResponsible
      <3>3. CASE execs[s] \notin Spent
        BY <1>1, <2>2, <2>3, <3>3 DEF SlotResponsible, Early
      <3>4. ASSUME NEW v \in Workers, cur[v] = s, pc[v] \in Late
            PROVE  SlotResponsible(s)'
        <4>1. v # w
          BY <2>2, <3>4 DEF Late
        <4>2. QED
          BY <1>1, <3>4, <4>1 DEF SlotResponsible
      <3>5. QED
        BY <3>2, <3>3, <3>4 DEF SlotResponsible
    <2>4. CASE r # s
      <3>1. jobs'[s] = jobs[s] /\ (ReAdding(s)' <=> ReAdding(s))
        BY <1>1, <2>1, <2>4 DEF ReAdding, TypeOK, QueueTypeOK
      <3>2. \A v \in Workers : pc[v] # "idle" => pc'[v] = pc[v] /\ cur'[v] = cur[v]
        BY <1>1, <2>2
      <3>3. QED
        BY <1>1, <2>2, <3>1, <3>2 DEF SlotResponsible, Early, Late
    <2>5. QED
      BY <2>3, <2>4
  <1>3. CASE Ack(w) \/ Throw(w)
    <2>1. pc[w] # "idle" /\ cur[w] \in Slots
      BY <1>3 DEF Ack, Throw, Unavailable, Rejecting, TypeOK, WorkersTypeOK
    <2>2. jobs[cur[w]] = "active" /\ owner[cur[w]] = w
          /\ \A v \in Workers : pc[v] # "idle" /\ cur[v] = cur[w] => v = w
      BY <2>1 DEF OwnInv
    <2>3. fin[s] \subseteq fin'[s]
      BY <1>3 DEF Ack, Throw, TypeOK
    <2>4. CASE fin[s] \cap {"read", "patch", "order", "setOrder"} # {}
      BY <2>3, <2>4 DEF SlotResponsible
    <2>5. CASE cur[w] # s
      <3>1. jobs'[s] = jobs[s] /\ (ReAdding(s)' <=> ReAdding(s))
        BY <1>1, <1>3, <2>1, <2>5 DEF Ack, Throw, Leave, jobVars, ReAdding, TypeOK, QueueTypeOK
      <3>2. \A v \in Workers : cur[v] = s => pc'[v] = pc[v] /\ cur'[v] = cur[v]
        BY <1>1, <2>5
      <3>3. QED
        BY <1>1, <2>3, <3>1, <3>2 DEF SlotResponsible
    <2>6. CASE cur[w] = s /\ fin[s] \cap {"read", "patch", "order", "setOrder"} = {}
      <3>1. pc[w] \in Early \cup Late
        BY <2>2, <2>6 DEF SlotResponsible, ReAdding, Early, Late
      <3>2. Throw(w) /\ Unavailable(w)
        <4>1. ~Ack(w)
          BY <3>1 DEF Ack, Early, Late
        <4>2. QED
          BY <1>3, <4>1, FaultCounted DEF Throw
      <3>3. CASE Exhausted(s)
        BY <2>2, <2>6, <3>2, <3>3 DEF Throw, SlotResponsible, TypeOK
      <3>4. CASE ~Exhausted(s)
        <4>1. jobs'[s] = "waiting"
          BY <2>1, <2>2, <2>6, <3>2, <3>4 DEF Throw, Leave, TypeOK, QueueTypeOK
        <4>2. execs[s] \in Resumable
          BY <2>6, <3>2 DEF Unavailable, MidInv, MidOK, MidRun, Patched, Ended, TerminalOrder
        <4>3. execs'[s] \notin Spent
          BY <1>1, <4>2 DEF Resumable, Spent, Terminal
        <4>4. QED
          BY <4>1, <4>3 DEF SlotResponsible
      <3>5. QED
        BY <3>3, <3>4
    <2>7. QED
      BY <2>4, <2>5, <2>6
  <1>4. QED
    BY <1>2, <1>3

\* A finalizer that still has to end the order does, or another step remains.
LEMMA FinalizerResponsible ==
  ASSUME TypeOK, OwnInv, NEW r \in Slots, Redeliver(r) \/ Finalize(r), faults' = 0,
         NEW s \in Slots, SlotResponsible(s), orders[s[1]] = "triggered",
         orders'[s[1]] = "triggered"
  PROVE  SlotResponsible(s)'
  <1>1. CASE Redeliver(r)
    <2>1. /\ jobs[r] = "active" /\ jobs' = [jobs EXCEPT ![r] = "waiting"]
          /\ UNCHANGED <<execs, tick, pc, cur, fin>>
      BY <1>1 DEF Redeliver, workerVars
    <2>2. \A w \in Workers : ~(owner[r] = w /\ cur[w] = r)
      BY <1>1, FaultCounted DEF Redeliver
    <2>3. CASE r = s
      <3>1. \A w \in Workers : pc[w] # "idle" => cur[w] # s
        BY <2>2, <2>3 DEF OwnInv
      <3>2. fin[s] \cap {"read", "patch", "order", "setOrder"} # {}
        BY <2>1, <2>3, <3>1 DEF SlotResponsible, ReAdding, Early, Late
      <3>3. QED
        BY <2>1, <3>2 DEF SlotResponsible
    <2>4. CASE r # s
      <3>1. jobs'[s] = jobs[s]
        BY <2>1, <2>4 DEF TypeOK, QueueTypeOK
      <3>2. QED
        BY <2>1, <3>1 DEF SlotResponsible, ReAdding
    <2>5. QED
      BY <2>3, <2>4
  <1>2. CASE Finalize(r)
    <2>1. UNCHANGED <<jobs, tick, pc, cur>> /\ \A q \in Slots \ {r} : execs'[q] = execs[q] /\ fin'[q] = fin[q]
      BY <1>2, FinalizerFrame DEF jobVars, workerVars
    <2>2. CASE r # s
      BY <2>1, <2>2 DEF SlotResponsible, ReAdding
    <2>3. CASE r = s
      <3>1. CASE FinRead(s) \/ FinPatch(s) \/ FinOrder(s)
        BY <3>1 DEF FinRead, FinPatch, FinOrder, FinStep, SlotResponsible, LiveOrder, TypeOK
      <3>2. CASE FinSetOrder(s)
        BY <3>2, SlotOrder DEF FinSetOrder, SetStatus, LiveOrder, TypeOK, StoresTypeOK
      <3>3. CASE FinAudit(s)
        <4>1. execs' = execs /\ fin'[s] = fin[s] \ {"audit"}
          BY <3>3 DEF FinAudit, FinStep, TypeOK
        <4>2. QED
          BY <2>1, <4>1 DEF SlotResponsible, ReAdding
      <3>4. QED
        BY <1>2, <2>3, <3>1, <3>2, <3>3 DEF Finalize
    <2>4. QED
      BY <2>2, <2>3
  <1>3. QED
    BY <1>1, <1>2

\* A tick that takes a waiting job out of the queue adds it again.
LEMMA TickResponsible ==
  ASSUME TypeOK, NEW p \in Schedulers, Tick(p), NEW s \in Slots, SlotResponsible(s)
  PROVE  SlotResponsible(s)'
  <1>1. UNCHANGED <<execs, fin, pc, cur>>
    BY DEF Tick, TickStart, TickList, TickOrder, TickEnqueue, TickRemove, TickAdd, TickEnd,
           TickFrame, workerVars
  <1>2. \A q \in Schedulers \ {p} : tick'[q] = tick[q]
    BY DEF Tick, TickStart, TickList, TickOrder, TickEnqueue, TickRemove, TickAdd, TickEnd,
           TickStep, TypeOK, TicksTypeOK
  <1>3. jobs[s] = "waiting" \/ ReAdding(s) => (jobs[s] = "waiting" \/ ReAdding(s))'
    <2> SUFFICES ASSUME jobs[s] = "waiting" \/ ReAdding(s)
                 PROVE  (jobs[s] = "waiting" \/ ReAdding(s))'
      OBVIOUS
    <2>1. CASE TickAdd(p)
      <3>1. CASE tick[p].slot = s
        <4>1. jobs'[s] = "waiting"
          BY <2>1, <3>1 DEF TickAdd, Adds, ReAdding, TypeOK, QueueTypeOK
        <4>2. QED
          BY <4>1
      <3>2. CASE tick[p].slot # s
        <4>1. jobs'[s] = jobs[s]
          BY <2>1, <3>2 DEF TickAdd, TypeOK, QueueTypeOK
        <4>2. QED
          BY <1>2, <3>2, <4>1 DEF ReAdding
      <3>3. QED
        BY <3>1, <3>2
    <2>2. CASE TickRemove(p)
      <3>1. tick[p].pc # "add"
        BY <2>2 DEF TickRemove
      <3>2. CASE jobs[tick[p].slot] = "active" \/ tick[p].slot # s
        <4>1. jobs'[s] = jobs[s]
          BY <2>2, <3>2 DEF TickRemove, TypeOK, QueueTypeOK
        <4>2. QED
          BY <1>2, <3>1, <4>1 DEF ReAdding
      <3>3. CASE jobs[tick[p].slot] # "active" /\ tick[p].slot = s
        <4>1. /\ jobs'[s] = "none"
              /\ tick' = [tick EXCEPT ![p] = [tick[p] EXCEPT !.pc = "add"]]
          BY <2>2, <3>3 DEF TickRemove, TickStep, TypeOK, QueueTypeOK
        <4>2. tick'[p].pc = "add" /\ tick'[p].slot = s
          BY <3>3, <4>1 DEF TypeOK, TicksTypeOK
        <4>3. QED
          BY <4>1, <4>2 DEF ReAdding
      <3>4. QED
        BY <3>2, <3>3
    <2>3. CASE ~TickAdd(p) /\ ~TickRemove(p)
      <3>1. jobs' = jobs /\ tick[p].pc # "add"
        BY <2>3 DEF Tick, TickStart, TickList, TickOrder, TickEnqueue, TickEnd, TickStep
      <3>2. QED
        BY <1>2, <3>1 DEF ReAdding
    <2>4. QED
      BY <2>1, <2>2, <2>3
  <1>4. QED
    BY <1>1, <1>3 DEF SlotResponsible

\* Only run() marks an order 'triggered'.
LEMMA TriggeredBefore ==
  ASSUME TypeOK, [Next]_vars, NEW o \in Orders, orders'[o] = "triggered",
         \A w \in Workers : ~(Mark(w) /\ RunStep(w) /\ cur[w][1] = o)
  PROVE  orders[o] = "triggered"
  <1>1. ASSUME NEW w \in Workers, RunStep(w)
        PROVE  orders[o] = "triggered"
    <2>1. CASE cur[w][1] # o
      BY <1>1, <2>1, RunFrame
    <2>2. CASE KillCancel(w) \/ RevertSet(w) \/ LimitOpen(w) \/ Settle(w) \/ RejectOrder(w)
      BY <2>2 DEF KillCancel, RevertSet, LimitOpen, Settle, FinalStatus, RejectOrder, SetStatus,
         TypeOK, StoresTypeOK
    <2>3. CASE ~(Mark(w) \/ KillCancel(w) \/ RevertSet(w) \/ LimitOpen(w) \/ Settle(w) \/ RejectOrder(w))
      BY <1>1, <2>3 DEF RunStep, Claim, Find, Rearm, Reclaim, ReadKill, KillFail, RevertRead,
         ReadOrder, FindWallet, Quote, Quoted, CheckLimitBound, LimitFail, Gate, Submit,
         Reject, Fail, Reads
    <2>4. QED
      BY <1>1, <2>1, <2>2, <2>3
  <1>2. ASSUME \A w \in Workers : ~RunStep(w)
        PROVE  orders[o] = "triggered"
    BY <1>2, OrderWrites DEF SetStatus, TypeOK, StoresTypeOK
  <1>3. QED
    BY <1>1, <1>2

LEMMA TriggeredInductive ==
  ASSUME TypeOK, StopInv, AbsentInv, OwnInv, MidInv, TriggeredInv, [Next]_vars, faults' = 0
  PROVE  TriggeredInv'
  <1> SUFFICES ASSUME NEW o \in Orders \ Walletless, orders'[o] = "triggered"
               PROVE  \E s \in SlotsOf(o) : SlotResponsible(s)'
    BY DEF TriggeredInv, SlotsOf
  <1>1. ASSUME NEW w \in Workers, Mark(w), RunStep(w), cur[w][1] = o
        PROVE  \E s \in SlotsOf(o) : SlotResponsible(s)'
    <2>1. cur'[w] = cur[w] /\ cur[w] \in SlotsOf(o) /\ pc'[w] = "wallet"
      BY <1>1, RunFrame DEF Mark, Step, TypeOK, WorkersTypeOK
    <2>2. SlotResponsible(cur[w])'
      BY <2>1 DEF SlotResponsible, Late
    <2>3. QED
      BY <2>1, <2>2
  <1>2. CASE \A w \in Workers : ~(Mark(w) /\ RunStep(w) /\ cur[w][1] = o)
    <2>1. orders[o] = "triggered"
      BY <1>2, TriggeredBefore
    <2>2. PICK s \in SlotsOf(o) : SlotResponsible(s)
      BY <2>1 DEF TriggeredInv
    <2>3. s \in Slots /\ s[1] = o /\ orders[s[1]] = "triggered" /\ orders'[s[1]] = "triggered"
      BY <2>1, <2>2 DEF SlotsOf
    <2>4. ASSUME NEW w \in Workers, Work(w) \/ Swallow(w) \/ CrashWorker(w)
          PROVE  SlotResponsible(s)'
      <3>1. ~Swallow(w) /\ ~CrashWorker(w)
        BY FaultCounted DEF Swallow, CrashWorker
      <3>2. QED
        BY <2>2, <2>3, <2>4, <3>1, RunResponsible, QueueResponsible DEF Work
    <2>5. ASSUME NEW r \in Slots, Redeliver(r) \/ Finalize(r) \/ LoseFinalizer(r)
          PROVE  SlotResponsible(s)'
      <3>1. ~LoseFinalizer(r)
        BY FaultCounted DEF LoseFinalizer
      <3>2. QED
        BY <2>2, <2>3, <2>5, <3>1, FinalizerResponsible
    <2>6. ASSUME NEW p \in Schedulers, Tick(p) \/ AbortTick(p)
          PROVE  SlotResponsible(s)'
      <3>1. ~AbortTick(p)
        BY FaultCounted DEF AbortTick
      <3>2. QED
        BY <2>2, <2>3, <2>6, <3>1, TickResponsible
    <2>7. ASSUME UNCHANGED <<execs, jobs, fin, tick, pc, cur>>
          PROVE  SlotResponsible(s)'
      BY <2>2, <2>7 DEF SlotResponsible, ReAdding
    <2>8. ASSUME NEW a \in Admins, SetMode(a) \/ Administer(a) \/ AbortAdmin(a)
          PROVE  SlotResponsible(s)'
      <3>1. UNCHANGED <<execs, jobs, fin, tick, pc, cur>>
        BY <2>8 DEF SetMode, Administer, ToggleQueue, FanOutList, FanOutCancel, FanOutEnd,
                    AbortAdmin, AdminFrame, jobVars, workerVars
      <3>2. QED
        BY <2>7, <3>1
    <2>9. ASSUME (\E b \in Orders : CheckCreate(b) \/ Create(b) \/ Cancel(b)) \/ Advance
          PROVE  SlotResponsible(s)'
      <3>1. UNCHANGED <<execs, jobs, fin, tick, pc, cur>>
        BY <2>9 DEF CheckCreate, Create, Cancel, Advance, UserFrame, jobVars, workerVars
      <3>2. QED
        BY <2>7, <3>1
    <2>10. CASE UNCHANGED vars
      BY <2>7, <2>10 DEF vars, jobVars, workerVars
    <2>11. QED
      BY <2>4, <2>5, <2>6, <2>8, <2>9, <2>10 DEF Next
  <1>3. QED
    BY <1>1, <1>2

-----------------------------------------------------------------------------
(* Orders without a wallet.                                                  *)

\* Steps of run() after the wallet was found.
WithWallet == {"quote", "quoted", "bound", "limitFail", "limitOpen", "gate", "kill2", "fresh",
               "submit", "settle", "reject", "rejectOrder"}

\* A slot whose wallet nobody finds is quoted by nobody, and never submitted.
WalletInv ==
  /\ \A w \in Workers : pc[w] \in WithWallet => cur[w][1] \notin Walletless
  /\ \A s \in Slots : s[1] \in Walletless => execs[s] # "submitted"

LEMMA WalletInductive ==
  ASSUME TypeOK, WalletInv, [Next]_vars
  PROVE  WalletInv'
  <1>1. ASSUME NEW w \in Workers, RunStep(w)
        PROVE  WalletInv'
    <2>1. /\ cur[w] \in Slots /\ cur' = cur
          /\ \A v \in Workers \ {w} : pc'[v] = pc[v]
          /\ \A s \in Slots \ {cur[w]} : execs'[s] = execs[s]
      BY <1>1, RunFrame
    <2>2. pc'[w] \in WithWallet => cur[w][1] \notin Walletless
      <3>1. CASE FindWallet(w)
        BY <3>1 DEF FindWallet, Step, WithWallet, TypeOK, WorkersTypeOK
      <3>2. CASE ~FindWallet(w)
        <4>1. pc'[w] \in WithWallet => pc[w] \in WithWallet
          BY <1>1, <3>2 DEF RunStep, Claim, Find, Rearm, Reclaim, ReadKill, KillFail, KillCancel,
             RevertRead, RevertSet, ReadOrder, Mark, Quote, Quoted, CheckLimitBound, LimitFail,
             LimitOpen, Gate, Submit, Settle, Reject, RejectOrder, Fail, Step, WithWallet,
             TypeOK, WorkersTypeOK
        <4>2. QED
          BY <4>1 DEF WalletInv
      <3>3. QED
        BY <3>1, <3>2
    <2>3. cur[w][1] \in Walletless => execs'[cur[w]] # "submitted"
      <3>1. CASE Submit(w)
        BY <3>1 DEF Submit, Step, WithWallet, WalletInv
      <3>2. CASE ~Submit(w)
        <4>1. execs'[cur[w]] = execs[cur[w]] \/ execs'[cur[w]] # "submitted"
          BY <1>1, <2>1, <3>2 DEF RunStep, Claim, Find, Rearm, Reclaim, ReadKill, KillFail,
             KillCancel, RevertRead, RevertSet, ReadOrder, Mark, FindWallet, Quote, Quoted,
             CheckLimitBound, LimitFail, LimitOpen, Gate, Settle, Reject, RejectOrder, Fail,
             Reads, Update, TypeOK, StoresTypeOK
        <4>2. QED
          BY <2>1, <4>1 DEF WalletInv
      <3>3. QED
        BY <3>1, <3>2
    <2>4. QED
      BY <2>1, <2>2, <2>3 DEF WalletInv
  <1>2. ASSUME \A w \in Workers : ~RunStep(w)
        PROVE  WalletInv'
    <2>1. \A w \in Workers : pc'[w] \in WithWallet => pc'[w] = pc[w] /\ cur'[w] = cur[w]
      BY <1>2, OtherFrame DEF WithWallet
    <2>2. execs' = execs \/ \E s \in Slots : execs' = [execs EXCEPT ![s] = "failed_retry"]
      BY <1>2, RecordFrame DEF FinPatch, Update
    <2>3. \A s \in Slots : execs'[s] = execs[s] \/ execs'[s] # "submitted"
      BY <2>2 DEF TypeOK, StoresTypeOK
    <2>4. QED
      BY <2>1, <2>3 DEF WalletInv
  <1>3. QED
    BY <1>1, <1>2

\* A record that exists stays.
LEMMA RecordsStay ==
  ASSUME TypeOK, [Next]_vars, NEW s \in Slots, execs[s] # "none"
  PROVE  execs'[s] # "none"
  <1>1. ASSUME NEW w \in Workers, RunStep(w)
        PROVE  execs'[s] # "none"
    <2>1. cur[w] \in Slots
      BY <1>1, RunFrame
    <2>2. QED
      BY <1>1, <2>1 DEF RunStep, Claim, Find, Rearm, Reclaim, ReadKill, KillFail, KillCancel,
         RevertRead, RevertSet, ReadOrder, Mark, FindWallet, Quote, Quoted, CheckLimitBound,
         LimitFail, LimitOpen, Gate, Submit, Settle, Reject, RejectOrder, Fail, Reads, Update,
         TypeOK, StoresTypeOK
  <1>2. ASSUME \A w \in Workers : ~RunStep(w)
        PROVE  execs'[s] # "none"
    BY <1>2, RecordFrame DEF FinPatch, Update, TypeOK, StoresTypeOK
  <1>3. QED
    BY <1>1, <1>2

\* A triggered order has a slot that was claimed.
ClaimedInv ==
  \A o \in Orders : orders[o] = "triggered" => \E s \in SlotsOf(o) : execs[s] # "none"

LEMMA ClaimedInductive ==
  ASSUME TypeOK, MidInv, ClaimedInv, [Next]_vars
  PROVE  ClaimedInv'
  <1> SUFFICES ASSUME NEW o \in Orders, orders'[o] = "triggered"
               PROVE  \E s \in SlotsOf(o) : execs'[s] # "none"
    BY DEF ClaimedInv, SlotsOf
  <1>1. ASSUME NEW w \in Workers, Mark(w), RunStep(w), cur[w][1] = o
        PROVE  \E s \in SlotsOf(o) : execs'[s] # "none"
    <2>1. cur[w] \in SlotsOf(o) /\ cur[w] \in Slots
      BY <1>1, RunFrame
    <2>2. execs[cur[w]] # "none"
      BY <1>1 DEF Mark, Step, MidInv, MidOK, MidRun, Patched, Resumable
    <2>3. QED
      BY <2>1, <2>2, RecordsStay
  <1>2. CASE \A w \in Workers : ~(Mark(w) /\ RunStep(w) /\ cur[w][1] = o)
    <2>1. PICK s \in SlotsOf(o) : execs[s] # "none"
      BY <1>2, TriggeredBefore DEF ClaimedInv
    <2>2. s \in Slots
      BY DEF SlotsOf
    <2>3. QED
      BY <2>1, <2>2, RecordsStay
  <1>3. QED
    BY <1>1, <1>2

-----------------------------------------------------------------------------
(* The theorems.                                                             *)

\* What holds of the stores, the queue and the workers until the first fault.
UntilFault == OwnInv /\ MidInv /\ TriggeredInv /\ SpentInv /\ ClaimedInv

FaultlessInv == StopInv /\ AbsentInv /\ WalletInv /\ (faults = 0 => UntilFault)

LEMMA FaultlessInit ==
  ASSUME Init
  PROVE  FaultlessInv
  <1>1. StopInv /\ TriggeredInv /\ ClaimedInv
    BY DEF Init, StopInv, StopWins, TriggeredInv, ClaimedInv
  <1>2. MidInv
    BY DEF Init, MidInv, MidOK, MidRun
  <1>3. SpentInv /\ WalletInv
    BY DEF Init, SpentInv, Spent, Terminal, WalletInv, WithWallet
  <1>4. QED
    BY <1>1, <1>2, <1>3, InitWorkers DEF FaultlessInv, UntilFault

LEMMA FaultlessInductive ==
  ASSUME TypeOK, FaultlessInv, [Next]_vars
  PROVE  FaultlessInv'
  <1>1. StopInv' /\ AbsentInv' /\ WalletInv'
    BY StopInductive, AbsentInductive, WalletInductive DEF FaultlessInv
  <1>2. ASSUME faults' = 0
        PROVE  UntilFault'
    <2>1. faults = 0
      BY <1>2, FaultsCounted
    <2>2. UntilFault /\ StopInv /\ AbsentInv
      BY <2>1 DEF FaultlessInv
    <2>3. OwnInv'
      BY <1>2, <2>1, <2>2, OwnInductive DEF LocksKept, UntilFault
    <2>4. MidInv' /\ TriggeredInv' /\ SpentInv' /\ ClaimedInv'
      BY <1>2, <2>2, MidInductive, TriggeredInductive, SpentInductive, ClaimedInductive
         DEF UntilFault
    <2>5. QED
      BY <2>3, <2>4 DEF UntilFault
  <1>3. QED
    BY <1>1, <1>2 DEF FaultlessInv

\* A worker at a slot of the order attends it.
LEMMA WorkerAttends ==
  ASSUME OwnInv, NEW o \in Orders, NEW s \in SlotsOf(o), NEW w \in Workers, cur[w] = s,
         pc[w] # "idle"
  PROVE  Attended(o)
  BY DEF OwnInv, Attended

\* So does whoever takes it out of 'triggered'.
LEMMA TriggeredAttended ==
  ASSUME OwnInv, TriggeredInv, NEW o \in Orders \ Walletless, orders[o] = "triggered"
  PROVE  Attended(o)
  <1>1. PICK s \in SlotsOf(o) : SlotResponsible(s)
    BY DEF TriggeredInv
  <1>2. QED
    BY <1>1, WorkerAttends DEF SlotResponsible, Attended, Early, Late

\* No order is stranded in 'triggered', or in 'open' with its one-shot spent, until
\* a store fails, a process dies or a lock is lost.
THEOREM NoneDormant == Spec => [](faults = 0 => NoDormantOrder)
  <1>1. TypeOK /\ FaultlessInv => (faults = 0 => NoDormantOrder)
    <2> SUFFICES ASSUME TypeOK, UntilFault, NEW o \in Orders \ Walletless
                 PROVE  \/ Attended(o)
                        \/ orders[o] # "triggered" /\ ~(orders[o] = "open" /\ o \in Limit
                                                        /\ execs[<<o, 0>>] \in Spent)
      BY DEF NoDormantOrder, FaultlessInv
    <2> USE DEF UntilFault
    <2>1. CASE orders[o] = "triggered"
      BY <2>1, TriggeredAttended
    <2>2. CASE orders[o] = "open" /\ o \in Limit /\ execs[<<o, 0>>] \in Spent
      <3>1. PICK s \in SlotsOf(o) : s = <<o, 0>> /\ s \in Slots /\ s[1] = o
        BY <2>2 DEF SlotsOf, Slots
      <3>2. \/ fin[s] # {}
            \/ \E w \in Workers : cur[w] = s /\ pc[w] # "idle"
        BY <2>2, <3>1, OrdersAssumption DEF SpentInv, SpentOK, Ended, TerminalOrder
      <3>3. QED
        BY <3>1, <3>2, WorkerAttends DEF Attended
    <2>3. QED
      BY <2>1, <2>2
  <1>2. QED
    BY <1>1, FaultlessInit, FaultlessInductive, TypeCorrect, PTL DEF Spec

\* Until the first fault, a DCA order whose slots so far succeeded is back in 'open' or
\* has a job to come, as the comment on the last write of run() says.
THEOREM DcaReopened == Spec => [](faults = 0 => DcaReturnsToOpen)
  <1>1. TypeOK /\ FaultlessInv => (faults = 0 => DcaReturnsToOpen)
    <2> SUFFICES ASSUME TypeOK, WalletInv, UntilFault, NEW o \in Dca, orders[o] = "triggered",
                        \A s \in SlotsOf(o) : execs[s] \in {"none", "submitted"}
                 PROVE  Attended(o)
      BY DEF DcaReturnsToOpen, FaultlessInv
    <2>1. o \in Orders
      BY DEF Orders
    <2>2. PICK s \in SlotsOf(o) : execs[s] = "submitted"
      BY <2>1 DEF UntilFault, ClaimedInv
    <2>3. s \in Slots /\ s[1] = o
      BY DEF SlotsOf
    <2>4. o \notin Walletless
      BY <2>2, <2>3 DEF WalletInv
    <2>5. QED
      BY <2>1, <2>4, TriggeredAttended DEF UntilFault
  <1>2. QED
    BY <1>1, FaultlessInit, FaultlessInductive, TypeCorrect, PTL DEF Spec

-----------------------------------------------------------------------------
(* EndedSlotStands.                                                         *)

\* The steps of run() whose records are still its own to write.
Writing == MidRun \cup {"rearm"}

WritingInv == \A w \in Workers : pc[w] \in Writing => execs[cur[w]] \notin Concluded

\* A step of run() that concludes its slot is its last at the record, and one that
\* writes the record did not find it concluded.
LEMMA WritingStep ==
  ASSUME TypeOK, WritingInv, NEW w \in Workers, RunStep(w)
  PROVE  /\ pc'[w] \in Writing => execs'[cur[w]] \notin Concluded
         /\ execs' # execs => execs[cur[w]] \notin Concluded
  <1>1. pc[w] \in Writing => execs[cur[w]] \notin Concluded
    BY DEF WritingInv
  <1>2. cur[w] \in Slots
    BY RunFrame
  <1>3. pc'[w] \in Writing => execs'[cur[w]] \notin Concluded
    <2>1. CASE pc'[w] \in MidRun
      BY <1>1, <2>1, MidStep DEF Writing, Concluded, Spent, Terminal, Unspent, Resumable
    <2>2. CASE pc'[w] = "rearm"
      BY <2>2, MidStep DEF Concluded, Spent
    <2>3. QED
      BY <2>1, <2>2 DEF Writing
  <1>4. execs' # execs => pc[w] \in Writing \/ execs[cur[w]] \in {"none"} \cup Resumable
    BY <1>2 DEF RunStep, Claim, Find, Rearm, Reclaim, CanReclaim, ReadKill, KillFail, KillCancel,
       RevertRead, RevertSet, ReadOrder, Mark, FindWallet, Quote, Quoted, CheckLimitBound,
       LimitFail, LimitOpen, Gate, Submit, Settle, Reject, RejectOrder, Fail, Reads, Step,
       Writing, MidRun
  <1>5. ({"none"} \cup Resumable) \cap Concluded = {}
    BY DEF Resumable, Concluded, Spent, Terminal
  <1>6. QED
    BY <1>1, <1>3, <1>4, <1>5

LEMMA WritingInductive ==
  ASSUME TypeOK, OwnInv, WritingInv, [Next]_vars
  PROVE  WritingInv'
  <1>1. ASSUME NEW w \in Workers, RunStep(w)
        PROVE  WritingInv'
    <2>1. /\ cur[w] \in Slots /\ cur' = cur
          /\ \A v \in Workers \ {w} : pc'[v] = pc[v]
          /\ \A s \in Slots \ {cur[w]} : execs'[s] = execs[s]
      BY <1>1, RunFrame
    <2>2. \A v \in Workers \ {w} : pc[v] \in Writing => cur[v] \in Slots \ {cur[w]}
      <3>1. pc[w] # "idle" /\ "idle" \notin Writing
        BY <1>1 DEF RunStep, Writing, MidRun
      <3>2. QED
        BY <3>1 DEF OwnInv, TypeOK, WorkersTypeOK
    <2>3. pc'[w] \in Writing => execs'[cur[w]] \notin Concluded
      BY <1>1, WritingStep
    <2>4. QED
      BY <2>1, <2>2, <2>3 DEF WritingInv
  <1>2. ASSUME \A w \in Workers : ~RunStep(w)
        PROVE  WritingInv'
    <2>1. \A w \in Workers : pc'[w] \in Writing => pc'[w] = pc[w] /\ cur'[w] = cur[w]
      BY <1>2, OtherFrame DEF Writing, MidRun
    <2>2. \A s \in Slots : execs'[s] = execs[s] \/ execs'[s] = "failed_retry"
      BY <1>2, RecordFrame DEF FinPatch, Update, TypeOK, StoresTypeOK
    <2>3. \A w \in Workers : pc[w] \in Writing => cur[w] \in Slots
      BY DEF Writing, MidRun, TypeOK, WorkersTypeOK
    <2>4. QED
      BY <2>1, <2>2, <2>3 DEF WritingInv, Concluded
  <1>3. QED
    BY <1>1, <1>2

\* However often a slot is delivered, retried, re-armed and enqueued again, and
\* wherever its worker crashes, no run of it writes over the record that concluded it,
\* as long as no lock of a live worker has expired: only a finalizer that has read the
\* record before does.
THEOREM EndedStands == Spec => EndedSlotStands
  <1> DEFINE IInv == LocksKept => OwnInv /\ WritingInv
             Stands == LocksKept' =>
                \A s \in Slots : execs[s] \in Concluded /\ execs'[s] # execs[s] =>
                                  execs'[s] = "failed_retry" /\ "patch" \in fin[s]
  <1>1. Init => IInv
    BY InitWorkers DEF Init, WritingInv, Writing, MidRun
  <1>2. TypeOK /\ IInv /\ [Next]_vars => IInv'
    BY OwnInductive, WritingInductive, LocksKeptBefore
  <1>3. TypeOK /\ IInv /\ [Next]_vars => [Stands]_vars
    <2> SUFFICES ASSUME TypeOK, OwnInv, WritingInv, [Next]_vars, NEW s \in Slots,
                        execs[s] \in Concluded, execs'[s] # execs[s]
                 PROVE  execs'[s] = "failed_retry" /\ "patch" \in fin[s]
      BY LocksKeptBefore
    <2>1. ASSUME NEW w \in Workers, RunStep(w)
          PROVE  FALSE
      <3>1. execs[cur[w]] \notin Concluded
        BY <2>1, WritingStep
      <3>2. execs'[s] = execs[s]
        BY <2>1, <3>1, RunFrame
      <3>3. QED
        BY <3>2
    <2>2. PICK r \in Slots : FinPatch(r)
      BY <2>1, RecordFrame
    <2>3. QED
      BY <2>2 DEF FinPatch, FinStep, Update, TypeOK, StoresTypeOK
  <1>4. QED
    BY <1>1, <1>2, <1>3, TypeCorrect, PTL DEF Spec, EndedSlotStands
=============================================================================
