--------------------------- MODULE OrderWorkerProofs ---------------------------
(* Theorems about OrderWorker for every value of its constants.             *)
EXTENDS OrderWorker, TLAPS

\* A slot names an order.
LEMMA SlotOrder == \A s \in Slots : s[1] \in Orders
  BY DEF Slots, Orders

\* SetStatus writes a status of the order store.
LEMMA SetStatusType ==
  ASSUME orders \in [Orders -> OrderStatus],
         NEW o, NEW status \in OrderStatus, SetStatus(o, status)
  PROVE  orders' \in [Orders -> OrderStatus]
  BY DEF SetStatus

\* Update writes a status of the execution store.
LEMMA UpdateType ==
  ASSUME execs \in [Slots -> ExecStatus],
         NEW s, NEW status \in ExecStatus, Update(s, status)
  PROVE  execs' \in [Slots -> ExecStatus]
  BY DEF Update

\* The initial state is well typed.
LEMMA InitType == Init => TypeOK
  <1> SUFFICES ASSUME Init PROVE TypeOK
    OBVIOUS
  <1> USE DEF Init
  <1>1. StoresTypeOK
    BY DEF StoresTypeOK, OrderStatus, ExecStatus
  <1>2. QueueTypeOK
    <2>1. 0 \in 0 .. (MaxAttempts - 1)
      BY BoundsAssumption
    <2>2. QED
      BY <2>1 DEF QueueTypeOK, JobState
  <1>3. KillTypeOK
    BY BoundsAssumption DEF KillTypeOK, KillModes, AdminPc, IdleAdmin
  <1>4. WorkersTypeOK
    BY DEF WorkersTypeOK, WorkerPc, KillModes
  <1>5. TicksTypeOK
    BY BoundsAssumption DEF TicksTypeOK, TickPc, IdleTick
  <1>6. QED
    BY <1>1, <1>2, <1>3, <1>4, <1>5, BoundsAssumption DEF TypeOK

\* run() keeps the types, whichever call it has reached.
LEMMA RunStepType ==
  ASSUME TypeOK, NEW w \in Workers, RunStep(w)
  PROVE  TypeOK'
  <1>1. cur[w] \in Slots /\ cur[w][1] \in Orders
    BY SlotOrder DEF RunStep, TypeOK, WorkersTypeOK
  <1>2. /\ UNCHANGED <<creating, jobVars, queuePaused, killVars, cur, fin, tick, now, faults>>
    BY DEF RunStep
  <1>3. QueueTypeOK' /\ KillTypeOK' /\ TicksTypeOK'
    BY <1>2 DEF TypeOK, QueueTypeOK, KillTypeOK, TicksTypeOK, jobVars, killVars
  <1>4. /\ orders' \in [Orders -> OrderStatus]
        /\ execs' \in [Slots -> ExecStatus]
        /\ refused' \subseteq Slots
        /\ submissions' \in [Slots -> Nat]
    <2> USE <1>1 DEF TypeOK, StoresTypeOK, historyVars
    <2>1. CASE Claim(w)
      BY <2>1 DEF Claim, Update, ExecStatus, Resumable
    <2>2. CASE Find(w)
      BY <2>2 DEF Find, Reads
    <2>3. CASE Rearm(w)
      BY <2>3 DEF Rearm, Update, ExecStatus, Resumable
    <2>4. CASE Reclaim(w)
      BY <2>4 DEF Reclaim, Update, ExecStatus, Resumable
    <2>5. CASE ReadKill(w) \/ RevertRead(w) \/ ReadOrder(w) \/ FindWallet(w)
               \/ Quote(w) \/ CheckLimitBound(w)
      BY <2>5 DEF ReadKill, RevertRead, ReadOrder, FindWallet, Quote,
                  CheckLimitBound, Reads
    <2>6. CASE KillFail(w) \/ Quoted(w) \/ LimitFail(w) \/ Reject(w) \/ Fail(w)
      BY <2>6 DEF KillFail, Quoted, LimitFail, Reject, Fail, Update, ExecStatus,
                  Resumable, Terminal
    <2>7. CASE KillCancel(w) \/ RevertSet(w) \/ Mark(w) \/ LimitOpen(w) \/ Settle(w)
               \/ RejectOrder(w)
      <3>1. \E status \in OrderStatus : SetStatus(cur[w][1], status)
        BY <2>7 DEF KillCancel, RevertSet, Mark, LimitOpen, Settle, FinalStatus,
                    RejectOrder, OrderStatus, LiveOrder, TerminalOrder
      <3>2. orders' \in [Orders -> OrderStatus]
        BY <3>1, SetStatusType
      <3>3. QED
        BY <2>7, <3>2 DEF KillCancel, RevertSet, Mark, LimitOpen, Settle, RejectOrder
    <2>8. CASE Gate(w)
      BY <2>8 DEF Gate, AppendRefusal
    <2>9. CASE Submit(w)
      BY <2>9 DEF Submit, Update, ExecStatus, Terminal
    <2>10. QED
      BY <2>1, <2>2, <2>3, <2>4, <2>5, <2>6, <2>7, <2>8, <2>9 DEF RunStep
  <1>5. WorkersTypeOK'
    <2>1. /\ seen' \in [Workers -> KillModes]
          /\ stopped' \subseteq Workers
      BY DEF RunStep, Claim, Find, Rearm, Reclaim, ReadKill, KillFail, KillCancel,
             RevertRead, RevertSet, ReadOrder, Mark, FindWallet, Quote, Quoted,
             CheckLimitBound, LimitFail, LimitOpen, Gate, Submit, Settle, Reject,
             RejectOrder, Fail, Reads, historyVars, TypeOK, WorkersTypeOK, KillTypeOK
    <2>2. \E to \in WorkerPc \ {"idle"} : pc' = [pc EXCEPT ![w] = to]
      <3> USE DEF Step, WorkerPc, Swallowing, Rejecting
      <3>1. CASE Claim(w) \/ Find(w) \/ Rearm(w) \/ Reclaim(w) \/ ReadKill(w)
        BY <3>1 DEF Claim, Find, Rearm, Reclaim, ReadKill
      <3>2. CASE KillFail(w) \/ KillCancel(w) \/ RevertRead(w) \/ RevertSet(w)
                 \/ ReadOrder(w) \/ Mark(w) \/ FindWallet(w)
        BY <3>2 DEF KillFail, KillCancel, RevertRead, RevertSet, ReadOrder, Mark,
                    FindWallet
      <3>3. CASE Quote(w) \/ Quoted(w) \/ CheckLimitBound(w) \/ LimitFail(w)
                 \/ LimitOpen(w) \/ Gate(w)
        BY <3>3 DEF Quote, Quoted, CheckLimitBound, LimitFail, LimitOpen, Gate
      <3>4. CASE Submit(w) \/ Settle(w) \/ Reject(w) \/ RejectOrder(w) \/ Fail(w)
        BY <3>4 DEF Submit, Settle, Reject, RejectOrder, Fail
      <3>5. QED
        BY <3>1, <3>2, <3>3, <3>4 DEF RunStep
    <2>3. QED
      BY <1>2, <2>1, <2>2 DEF RunStep, TypeOK, WorkersTypeOK
  <1>6. QED
    BY <1>2, <1>3, <1>4, <1>5 DEF TypeOK, StoresTypeOK

\* A worker that leaves its slot keeps the queue's and the workers' types.
LEMMA LeaveType ==
  ASSUME TypeOK, NEW w \in Workers, pc[w] # "idle",
         NEW outcome \in JobState, NEW attempts \in 0 .. (MaxAttempts - 1),
         Leave(w, outcome, attempts)
  PROVE  /\ jobs' \in [Slots -> JobState]
         /\ owner' \in [Slots -> Workers \cup {NoWorker}]
         /\ tries' \in [Slots -> 0 .. (MaxAttempts - 1)]
         /\ WorkersTypeOK'
  <1>1. cur[w] \in Slots
    BY DEF TypeOK, WorkersTypeOK
  <1>2. WorkersTypeOK'
    BY DEF Leave, TypeOK, WorkersTypeOK, WorkerPc, KillModes
  <1>3. QED
    BY <1>1, <1>2 DEF Leave, TypeOK, QueueTypeOK, jobVars

\* Every operation of the queue and every fault of a worker keeps the types.
LEMMA QueueType ==
  ASSUME TypeOK, NEW w \in Workers,
         Take(w) \/ Ack(w) \/ Throw(w) \/ Swallow(w) \/ CrashWorker(w)
  PROVE  TypeOK'
  <1> USE BoundsAssumption
  <1>1. CASE Take(w)
    <2>1. StoresTypeOK' /\ KillTypeOK' /\ TicksTypeOK' /\ fin' = fin /\ faults' = faults
          /\ submissions' = submissions
      BY <1>1 DEF Take, TypeOK, StoresTypeOK, KillTypeOK, TicksTypeOK, killVars, historyVars
    <2>2. QueueTypeOK'
      BY <1>1 DEF Take, TypeOK, QueueTypeOK, JobState
    <2>3. WorkersTypeOK'
      BY <1>1, NullsAssumption DEF Take, TypeOK, WorkersTypeOK, WorkerPc, Rejecting, historyVars
    <2>4. QED
      BY <2>1, <2>2, <2>3 DEF TypeOK
  <1>2. CASE Ack(w)
    <2>1. StoresTypeOK' /\ KillTypeOK' /\ TicksTypeOK' /\ fin' = fin /\ faults' = faults
          /\ submissions' = submissions
      BY <1>2 DEF Ack, TypeOK, StoresTypeOK, KillTypeOK, TicksTypeOK, killVars
    <2>2. "completed" \in JobState /\ 0 \in 0 .. (MaxAttempts - 1) /\ pc[w] # "idle"
      BY <1>2 DEF JobState, Ack
    <2>3. QueueTypeOK' /\ WorkersTypeOK'
      BY <1>2, <2>2, LeaveType DEF Ack, TypeOK, QueueTypeOK
    <2>4. QED
      BY <2>1, <2>3 DEF TypeOK
  <1>3. CASE Throw(w)
    <2>1. StoresTypeOK' /\ KillTypeOK' /\ TicksTypeOK' /\ submissions' = submissions
      BY <1>3 DEF Throw, TypeOK, StoresTypeOK, KillTypeOK, TicksTypeOK, killVars
    <2>2. pc[w] # "idle" /\ cur[w] \in Slots
      BY <1>3 DEF Throw, Unavailable, Rejecting, TypeOK, WorkersTypeOK
    <2>3. faults' \in 0 .. MaxFaults
      BY <1>3 DEF Throw, Fault, TypeOK
    <2>4. \E outcome \in JobState, attempts \in 0 .. (MaxAttempts - 1) :
            Leave(w, outcome, attempts)
      <3>1. CASE Exhausted(cur[w])
        <4>1. "failed" \in JobState /\ 0 \in 0 .. (MaxAttempts - 1)
          BY DEF JobState
        <4>2. QED
          BY <1>3, <3>1, <4>1 DEF Throw
      <3>2. CASE ~Exhausted(cur[w])
        <4>1. "waiting" \in JobState /\ tries[cur[w]] + 1 \in 0 .. (MaxAttempts - 1)
          BY <2>2, <3>2 DEF JobState, Exhausted, TypeOK, QueueTypeOK
        <4>2. QED
          BY <1>3, <3>2, <4>1 DEF Throw
      <3>3. QED
        BY <3>1, <3>2
    <2>5. QueueTypeOK' /\ WorkersTypeOK'
      BY <1>3, <2>2, <2>4, LeaveType DEF Throw, TypeOK, QueueTypeOK
    <2>6. fin' \in [Slots -> SUBSET FinPc]
      BY <1>3, <2>2 DEF Throw, TypeOK, FinPc
    <2>7. QED
      BY <2>1, <2>3, <2>5, <2>6 DEF TypeOK
  <1>4. CASE Swallow(w)
    <2>1. WorkersTypeOK'
      BY <1>4 DEF Swallow, Swallowing, TypeOK, WorkersTypeOK, WorkerPc, historyVars
    <2>2. QED
      BY <1>4, <2>1 DEF Swallow, Fault, TypeOK, StoresTypeOK, QueueTypeOK, KillTypeOK,
                        TicksTypeOK, jobVars, killVars, historyVars
  <1>5. CASE CrashWorker(w)
    <2>1. WorkersTypeOK'
      BY <1>5 DEF CrashWorker, TypeOK, WorkersTypeOK, WorkerPc, KillModes
    <2>2. QED
      BY <1>5, <2>1 DEF CrashWorker, Fault, TypeOK, StoresTypeOK, QueueTypeOK, KillTypeOK,
                        TicksTypeOK, jobVars, killVars
  <1>6. QED
    BY <1>1, <1>2, <1>3, <1>4, <1>5

\* Redelivery and the finalizer keep the types.
LEMMA FinalizerType ==
  ASSUME TypeOK, NEW s \in Slots, Redeliver(s) \/ Finalize(s) \/ LoseFinalizer(s)
  PROVE  TypeOK'
  <1> USE BoundsAssumption
  <1>1. CASE Redeliver(s)
    <2>1. QueueTypeOK' /\ faults' \in 0 .. MaxFaults
      BY <1>1 DEF Redeliver, Fault, TypeOK, QueueTypeOK, JobState
    <2>2. QED
      BY <1>1, <2>1 DEF Redeliver, TypeOK, StoresTypeOK, KillTypeOK, WorkersTypeOK,
                        TicksTypeOK, killVars, workerVars, historyVars
  <1>2. CASE Finalize(s)
    <2>1. \E from \in FinPc, to \in SUBSET FinPc : FinStep(s, from, to)
      BY <1>2 DEF Finalize, FinRead, FinPatch, FinOrder, FinSetOrder, FinAudit, FinPc
    <2>2. fin' \in [Slots -> SUBSET FinPc]
      BY <2>1 DEF FinStep, TypeOK
    <2>3. StoresTypeOK'
      <3>1. creating' = creating
        BY <2>1 DEF FinStep
      <3>2. CASE FinRead(s) \/ FinOrder(s) \/ FinAudit(s)
        BY <3>1, <3>2 DEF FinRead, FinOrder, FinAudit, AppendRefusal, TypeOK, StoresTypeOK
      <3>3. CASE FinPatch(s)
        BY <3>1, <3>3 DEF FinPatch, Update, TypeOK, StoresTypeOK, ExecStatus, Terminal
      <3>4. CASE FinSetOrder(s)
        BY <3>1, <3>4 DEF FinSetOrder, SetStatus, TypeOK, StoresTypeOK, OrderStatus,
                          TerminalOrder
      <3>5. QED
        BY <1>2, <3>2, <3>3, <3>4 DEF Finalize
    <2>4. QED
      BY <2>1, <2>2, <2>3 DEF FinStep, TypeOK, QueueTypeOK, KillTypeOK, WorkersTypeOK,
                              TicksTypeOK, jobVars, killVars, workerVars, historyVars
  <1>3. CASE LoseFinalizer(s)
    <2>1. fin' \in [Slots -> SUBSET FinPc] /\ faults' \in 0 .. MaxFaults
      BY <1>3 DEF LoseFinalizer, Fault, TypeOK
    <2>2. QED
      BY <1>3, <2>1 DEF LoseFinalizer, TypeOK, StoresTypeOK, QueueTypeOK, KillTypeOK,
                        WorkersTypeOK, TicksTypeOK, jobVars, killVars, workerVars,
                        historyVars
  <1>4. QED
    BY <1>1, <1>2, <1>3

\* Every step of the scheduler keeps the types.
LEMMA TickType ==
  ASSUME TypeOK, NEW p \in Schedulers, Tick(p) \/ AbortTick(p)
  PROVE  TypeOK'
  <1> USE BoundsAssumption
  <1> DEFINE T == [pc : TickPc, todo : SUBSET Orders, slot : Slots \cup {NoSlot},
                   now : 0 .. MaxSlot]
  <1>1. tick[p] \in T /\ IdleTick \in T /\ now \in 0 .. MaxSlot
    BY DEF TypeOK, TicksTypeOK, IdleTick, TickPc
  <1>2. ASSUME NEW to \in T, tick' = [tick EXCEPT ![p] = to], now' = now,
               to.pc \in {"enqueue", "remove", "add"} => to.slot \in Slots
        PROVE  TicksTypeOK'
    BY <1>1, <1>2 DEF TypeOK, TicksTypeOK
  <1>3. ASSUME TickFrame, UNCHANGED <<jobs, tries>>
        PROVE  QueueTypeOK'
    BY <1>3 DEF TickFrame, TypeOK, QueueTypeOK
  <1>4. ASSUME TickFrame, TicksTypeOK', QueueTypeOK'
        PROVE  TypeOK'
    BY <1>4 DEF TickFrame, TypeOK, StoresTypeOK, KillTypeOK, WorkersTypeOK, killVars,
                workerVars, historyVars
  <1>5. CASE TickStart(p) \/ TickList(p) \/ TickEnd(p)
    <2>1. QueueTypeOK' /\ TickFrame
      BY <1>5, <1>3 DEF TickStart, TickList, TickEnd
    <2>2. TicksTypeOK'
      <3>1. CASE TickStart(p)
        BY <3>1, <1>1, <1>2, <2>1 DEF TickStart, TickStep, IdleTick, TickPc, TickFrame
      <3>2. CASE TickList(p)
        BY <3>2, <1>1, <1>2, <2>1 DEF TickList, TickStep, TickPc, TickFrame
      <3>3. CASE TickEnd(p)
        BY <3>3, <1>1, <1>2, <2>1 DEF TickEnd, TickStep, IdleTick, TickFrame
      <3>4. QED
        BY <1>5, <3>1, <3>2, <3>3
    <2>3. QED
      BY <1>4, <2>1, <2>2
  <1>6. CASE TickOrder(p)
    <2>1. QueueTypeOK' /\ TickFrame
      BY <1>6, <1>3 DEF TickOrder
    <2>2. \A o \in tick[p].todo : SlotOf(o, tick[p].now) \in Slots
      <3>1. Dca \subseteq Orders /\ \A o \in Orders \ Dca : o \in Limit
        BY DEF Orders
      <3>2. tick[p].todo \subseteq Orders /\ tick[p].now \in 0 .. MaxSlot
        BY <1>1
      <3>3. QED
        BY <3>1, <3>2 DEF SlotOf, Slots
    <2>3. PICK o \in tick[p].todo :
            \/ tick' = [tick EXCEPT ![p] = [[tick[p] EXCEPT !.todo = @ \ {o}]
                          EXCEPT !.pc = "enqueue", !.slot = SlotOf(o, tick[p].now)]]
            \/ tick' = [tick EXCEPT ![p] = [tick[p] EXCEPT !.todo = @ \ {o}]] /\ tick[p].pc = "next"
      BY <1>6 DEF TickOrder, TickStep
    <2>4. TicksTypeOK'
      BY <1>1, <1>2, <2>1, <2>2, <2>3 DEF TickFrame, TickPc
    <2>5. QED
      BY <1>4, <2>1, <2>4
  <1>7. CASE TickEnqueue(p)
    <2>1. QueueTypeOK' /\ TickFrame
      BY <1>7, <1>3 DEF TickEnqueue
    <2>2. TicksTypeOK'
      BY <1>7, <1>1, <1>2, <2>1 DEF TickEnqueue, TickStep, TickPc, TickFrame, TypeOK, TicksTypeOK
    <2>3. QED
      BY <1>4, <2>1, <2>2
  <1>8. CASE TickRemove(p)
    <2>1. TickFrame /\ tick[p].slot \in Slots
      BY <1>8 DEF TickRemove, TypeOK, TicksTypeOK
    <2>2. QueueTypeOK'
      BY <1>8, <2>1 DEF TickRemove, TickFrame, TypeOK, QueueTypeOK, JobState
    <2>3. TicksTypeOK'
      BY <1>8, <1>1, <1>2, <2>1 DEF TickRemove, TickStep, TickPc, TickFrame, IdleTick
    <2>4. QED
      BY <1>4, <2>1, <2>2, <2>3
  <1>9. CASE TickAdd(p)
    <2>1. TickFrame
      BY <1>9 DEF TickAdd
    <2>2. QueueTypeOK'
      <3>1. 0 \in 0 .. (MaxAttempts - 1)
        OBVIOUS
      <3>2. QED
        BY <1>9, <2>1, <3>1 DEF TickAdd, TickFrame, TypeOK, QueueTypeOK, JobState
    <2>3. TicksTypeOK'
      BY <1>9, <1>1, <1>2, <2>1 DEF TickAdd, TickStep, TickPc, TickFrame
    <2>4. QED
      BY <1>4, <2>1, <2>2, <2>3
  <1>10. CASE AbortTick(p)
    <2>1. TicksTypeOK'
      BY <1>10, <1>1, <1>2 DEF AbortTick, IdleTick
    <2>2. faults' \in 0 .. MaxFaults
      BY <1>10 DEF AbortTick, Fault, TypeOK
    <2>3. QED
      BY <1>10, <2>1, <2>2 DEF AbortTick, TypeOK, StoresTypeOK, QueueTypeOK, KillTypeOK,
            WorkersTypeOK, jobVars, killVars, workerVars, historyVars
  <1>11. QED
    BY <1>5, <1>6, <1>7, <1>8, <1>9, <1>10 DEF Tick

\* Every step of a kill-switch request keeps the types.
LEMMA AdminType ==
  ASSUME TypeOK, NEW a \in Admins, SetMode(a) \/ Administer(a) \/ AbortAdmin(a)
  PROVE  TypeOK'
  <1> USE BoundsAssumption
  <1>1. AdminFrame
    BY DEF SetMode, Administer, ToggleQueue, FanOutList, FanOutCancel, FanOutEnd, AbortAdmin
  <1>2. orders' \in [Orders -> OrderStatus]
    <2>1. CASE FanOutCancel(a)
      BY <2>1 DEF FanOutCancel, SetStatus, TypeOK, StoresTypeOK, OrderStatus, TerminalOrder
    <2>2. CASE ~FanOutCancel(a)
      BY <2>2 DEF SetMode, Administer, ToggleQueue, FanOutList, FanOutEnd, AbortAdmin,
                  TypeOK, StoresTypeOK
    <2>3. QED
      BY <2>1, <2>2
  <1>3. faults' \in 0 .. MaxFaults
    <2>1. faults' = faults \/ Fault("store") \/ Fault("crash")
      BY DEF SetMode, Administer, ToggleQueue, FanOutList, FanOutCancel, FanOutEnd, AbortAdmin
    <2>2. QED
      BY <2>1 DEF Fault, TypeOK
  <1>4. queuePaused' \in BOOLEAN
    BY DEF SetMode, Administer, ToggleQueue, Pauses, FanOutList, FanOutCancel, FanOutEnd,
           AbortAdmin, TypeOK, QueueTypeOK
  <1>5. stopped' \subseteq Workers
    BY DEF SetMode, Administer, ToggleQueue, FanOutList, FanOutCancel, FanOutEnd, AbortAdmin,
           TypeOK, WorkersTypeOK
  <1>6. KillTypeOK'
    <2> DEFINE A == [pc : AdminPc, mode : KillModes, todo : SUBSET Orders]
    <2>1. admin[a] \in A /\ IdleAdmin \in A
      BY DEF TypeOK, KillTypeOK, IdleAdmin, AdminPc, KillModes
    <2>2. \E to \in A : admin' = [admin EXCEPT ![a] = to]
      <3>1. CASE SetMode(a)
        BY <2>1, <3>1 DEF SetMode, AdminStep, IdleAdmin, AdminPc
      <3>2. CASE ToggleQueue(a)
        BY <2>1, <3>2 DEF ToggleQueue, AdminStep, AdminPc
      <3>3. CASE FanOutList(a)
        BY <2>1, <3>3 DEF FanOutList, AdminStep, AdminPc
      <3>4. CASE FanOutCancel(a)
        <4>1. PICK o \in admin[a].todo :
                admin' = [admin EXCEPT ![a] = [admin[a] EXCEPT !.todo = @ \ {o}]]
          BY <3>4 DEF FanOutCancel, AdminStep
        <4>2. [admin[a] EXCEPT !.todo = @ \ {o}] \in A
          BY <2>1
        <4>3. QED
          BY <4>1, <4>2
      <3>5. CASE FanOutEnd(a) \/ AbortAdmin(a)
        BY <2>1, <3>5 DEF FanOutEnd, AbortAdmin, AdminStep
      <3>6. QED
        BY <3>1, <3>2, <3>3, <3>4, <3>5 DEF Administer
    <2>3. killMode' \in KillModes /\ flips' \in 0 .. MaxFlips
      <3>1. CASE SetMode(a)
        <4>1. killMode' \in KillModes
          BY <3>1 DEF SetMode
        <4>2. flips < MaxFlips /\ flips' = flips + 1
          BY <3>1 DEF SetMode
        <4>3. QED
          BY <4>1, <4>2 DEF TypeOK, KillTypeOK
      <3>2. CASE ~SetMode(a)
        <4>1. UNCHANGED <<killMode, flips>>
          BY <3>2 DEF Administer, ToggleQueue, FanOutList, FanOutCancel, FanOutEnd, AbortAdmin
        <4>2. QED
          BY <4>1 DEF TypeOK, KillTypeOK
      <3>3. QED
        BY <3>1, <3>2
    <2>4. QED
      BY <2>2, <2>3 DEF TypeOK, KillTypeOK
  <1>7. QED
    BY <1>1, <1>2, <1>3, <1>4, <1>5, <1>6 DEF AdminFrame, TypeOK, StoresTypeOK, QueueTypeOK,
       WorkersTypeOK, TicksTypeOK, jobVars, workerVars

\* The operations on orders, and time, keep the types.
LEMMA UserType ==
  ASSUME TypeOK,
         (\E o \in Orders : CheckCreate(o) \/ Create(o) \/ Cancel(o)) \/ Advance
  PROVE  TypeOK'
  <1> USE BoundsAssumption
  <1>1. UserFrame
    BY DEF CheckCreate, Create, Cancel, Advance
  <1>2. StoresTypeOK'
    BY <1>1 DEF CheckCreate, Create, Cancel, Advance, SetStatus, UserFrame, TypeOK,
                StoresTypeOK, OrderStatus, LiveOrder, TerminalOrder
  <1>3. TicksTypeOK'
    BY <1>1 DEF CheckCreate, Create, Cancel, Advance, UserFrame, TypeOK, TicksTypeOK
  <1>4. QED
    BY <1>1, <1>2, <1>3 DEF UserFrame, TypeOK, QueueTypeOK, KillTypeOK, WorkersTypeOK,
       jobVars, killVars, workerVars, historyVars

\* A step that changes nothing keeps the types.
LEMMA StutterType == TypeOK /\ UNCHANGED vars => TypeOK'
  BY DEF vars, TypeOK, StoresTypeOK, QueueTypeOK, KillTypeOK, WorkersTypeOK, TicksTypeOK,
         jobVars, killVars, workerVars, historyVars

\* Every reachable state is well typed.
THEOREM TypeCorrect == Spec => []TypeOK
  <1>1. TypeOK /\ [Next]_vars => TypeOK'
    BY RunStepType, QueueType, FinalizerType, TickType, AdminType, UserType, StutterType
       DEF Next, Work
  <1>2. QED
    BY InitType, <1>1, PTL DEF Spec

-----------------------------------------------------------------------------
(* StopWins, under every kind of fault.                                     *)

\* What makes StopWins inductive: a worker approved after a stop goes on being
\* refused because the switch is still on or the order has ended for good, the
\* latter once it has read the switch; and an order that is being created does
\* not exist yet, so that creation cannot bring an ended order back.
StopInv ==
  /\ \A o \in creating : orders[o] = "absent"
  /\ \A w \in stopped : pc[w] # "idle" /\ (killMode # "off" \/ orders[cur[w][1]] \in TerminalOrder)
  /\ \A w \in stopped : pc[w] = "fresh" => orders[cur[w][1]] \in TerminalOrder
  /\ StopWins

\* An order that ended stays as it ended: no write of any actor revives it.
LEMMA TerminalKept ==
  ASSUME TypeOK, \A o \in creating : orders[o] = "absent", Next,
         NEW o \in Orders, orders[o] \in TerminalOrder
  PROVE  orders'[o] = orders[o]
  <1>1. ASSUME NEW b, NEW status, SetStatus(b, status)
        PROVE  orders'[o] = orders[o]
    BY <1>1 DEF SetStatus, LiveOrder, TerminalOrder, TypeOK, StoresTypeOK
  <1>2. ASSUME NEW w \in Workers, RunStep(w)
        PROVE  orders'[o] = orders[o]
    <2>1. orders' = orders \/ \E status : SetStatus(cur[w][1], status)
      BY <1>2 DEF RunStep, Claim, Find, Rearm, Reclaim, ReadKill, KillFail, KillCancel,
           RevertRead, RevertSet, ReadOrder, Mark, FindWallet, Quote, Quoted,
           CheckLimitBound, LimitFail, LimitOpen, Gate, Submit, Settle, Reject,
           RejectOrder, Fail, Reads
    <2>2. QED
      BY <1>1, <2>1
  <1>3. ASSUME NEW w \in Workers, Take(w) \/ Ack(w) \/ Throw(w) \/ Swallow(w) \/ CrashWorker(w)
        PROVE  orders' = orders
    BY <1>3 DEF Take, Ack, Throw, Swallow, CrashWorker
  <1>4. ASSUME NEW s \in Slots, Redeliver(s) \/ Finalize(s) \/ LoseFinalizer(s)
        PROVE  orders'[o] = orders[o]
    <2>1. orders' = orders \/ SetStatus(s[1], "failed")
      BY <1>4 DEF Redeliver, Finalize, FinRead, FinPatch, FinOrder, FinSetOrder, FinAudit,
                  LoseFinalizer
    <2>2. QED
      BY <1>1, <2>1
  <1>5. ASSUME NEW p \in Schedulers, Tick(p) \/ AbortTick(p)
        PROVE  orders' = orders
    BY <1>5 DEF Tick, TickStart, TickList, TickOrder, TickEnqueue, TickRemove, TickAdd,
                TickEnd, TickFrame, AbortTick
  <1>6. ASSUME NEW a \in Admins, SetMode(a) \/ Administer(a) \/ AbortAdmin(a)
        PROVE  orders'[o] = orders[o]
    <2>1. orders' = orders \/ \E b : SetStatus(b, "cancelled")
      BY <1>6 DEF SetMode, Administer, ToggleQueue, FanOutList, FanOutCancel, FanOutEnd,
                  AbortAdmin
    <2>2. QED
      BY <1>1, <2>1
  <1>7. ASSUME NEW b \in Orders, Create(b)
        PROVE  orders'[o] = orders[o]
    BY <1>7 DEF Create, TerminalOrder, TypeOK, StoresTypeOK
  <1>8. ASSUME NEW b \in Orders, CheckCreate(b) \/ Cancel(b)
        PROVE  orders'[o] = orders[o]
    BY <1>8, <1>1 DEF CheckCreate, Cancel
  <1>9. CASE Advance
    BY <1>9 DEF Advance
  <1>10. QED
    BY <1>2, <1>3, <1>4, <1>5, <1>6, <1>7, <1>8, <1>9 DEF Next, Work

\* run() never submits against a stop, and a stop once seen stays a stop.
LEMMA RunStepStop ==
  ASSUME TypeOK, StopInv, NEW w \in Workers, RunStep(w),
         \A o \in Orders : orders[o] \in TerminalOrder => orders'[o] = orders[o]
  PROVE  StopInv'
  <1>1. cur' = cur /\ killMode' = killMode /\ creating' = creating
    BY DEF RunStep, killVars
  <1>2. \A v \in Workers : pc[v] # "idle" => cur[v] \in Slots /\ cur[v][1] \in Orders
    BY SlotOrder DEF TypeOK, WorkersTypeOK
  <1>3. \A o \in creating' : orders'[o] = "absent"
    <2>1. \A o \in Orders : orders[o] \notin LiveOrder => orders'[o] = orders[o]
      <3>1. orders' = orders \/ \E status : SetStatus(cur[w][1], status)
        BY DEF RunStep, Claim, Find, Rearm, Reclaim, ReadKill, KillFail, KillCancel,
             RevertRead, RevertSet, ReadOrder, Mark, FindWallet, Quote, Quoted,
             CheckLimitBound, LimitFail, LimitOpen, Gate, Submit, Settle, Reject,
             RejectOrder, Fail, Reads
      <3>2. QED
        BY <3>1 DEF SetStatus, TypeOK, StoresTypeOK
    <2>2. QED
      BY <1>1, <2>1 DEF StopInv, TypeOK, StoresTypeOK, LiveOrder
  <1>4. CASE Gate(w)
    <2>1. /\ pc' = [pc EXCEPT ![w] = "kill2"] \/ pc' = [pc EXCEPT ![w] = "reject"]
          /\ \A v \in stopped' \ stopped :
               v = w /\ (killMode # "off" \/ orders[cur[w][1]] \in TerminalOrder)
          /\ orders' = orders
      BY <1>4 DEF Gate, Step
    <2>2. QED
      BY <1>1, <1>2, <1>3, <2>1, <1>4 DEF StopInv, StopWins, TypeOK, WorkersTypeOK, RunStep
  <1>5. CASE ~Gate(w)
    <2>1. stopped' = stopped
      BY <1>5 DEF RunStep, Claim, Find, Rearm, Reclaim, ReadKill, KillFail, KillCancel,
           RevertRead, RevertSet, ReadOrder, Mark, FindWallet, Quote, Quoted,
           CheckLimitBound, LimitFail, LimitOpen, Submit, Settle, Reject,
           RejectOrder, Fail, Reads, historyVars
    <2>2. \A v \in Workers \ {w} : pc'[v] = pc[v]
      BY DEF RunStep, Claim, Find, Rearm, Reclaim, ReadKill, KillFail, KillCancel,
           RevertRead, RevertSet, ReadOrder, Mark, FindWallet, Quote, Quoted,
           CheckLimitBound, LimitFail, LimitOpen, Gate, Submit, Settle, Reject,
           RejectOrder, Fail, Step, TypeOK, WorkersTypeOK
    <2>3. pc'[w] # "idle"
      BY DEF RunStep, Claim, Find, Rearm, Reclaim, ReadKill, KillFail, KillCancel,
           RevertRead, RevertSet, ReadOrder, Mark, FindWallet, Quote, Quoted,
           CheckLimitBound, LimitFail, LimitOpen, Gate, Submit, Settle, Reject,
           RejectOrder, Fail, Step, TypeOK, WorkersTypeOK
    <2>4. pc'[w] = "fresh" => killMode = "off"
      BY DEF RunStep, Claim, Find, Rearm, Reclaim, ReadKill, KillStops, KillFail, KillCancel,
           RevertRead, RevertSet, ReadOrder, Mark, FindWallet, Quote, Quoted,
           CheckLimitBound, LimitFail, LimitOpen, Gate, Submit, Settle, Reject,
           RejectOrder, Fail, Step, TypeOK, WorkersTypeOK
    <2>5. pc'[w] = "submit" => pc[w] = "fresh" /\ orders[cur[w][1]] \notin TerminalOrder
      BY DEF RunStep, Claim, Find, Rearm, Reclaim, ReadKill, KillFail, KillCancel,
           RevertRead, RevertSet, ReadOrder, MayRun, Mark, FindWallet, Quote, Quoted,
           CheckLimitBound, LimitFail, LimitOpen, Gate, Submit, Settle, Reject,
           RejectOrder, Fail, Step, TypeOK, WorkersTypeOK, LiveOrder, TerminalOrder
    <2>6. QED
      BY <1>1, <1>2, <1>3, <2>1, <2>2, <2>3, <2>4, <2>5
         DEF StopInv, StopWins, TypeOK, WorkersTypeOK
  <1>6. QED
    BY <1>4, <1>5

\* A step of another actor leaves the workers where they are, or frees one.
LEMMA OtherStepStop ==
  ASSUME TypeOK, StopInv, \E w \in Workers : Take(w) \/ Ack(w) \/ Throw(w) \/ Swallow(w) \/ CrashWorker(w)
  PROVE  StopInv'
  <1>1. PICK w \in Workers : Take(w) \/ Ack(w) \/ Throw(w) \/ Swallow(w) \/ CrashWorker(w)
    OBVIOUS
  <1>2. UNCHANGED <<creating, orders, killMode>>
    BY <1>1 DEF Take, Ack, Throw, Swallow, CrashWorker, killVars
  <1>3. \A v \in Workers \ {w} : pc'[v] = pc[v] /\ cur'[v] = cur[v]
    BY <1>1 DEF Take, Ack, Throw, Leave, Swallow, CrashWorker, TypeOK, WorkersTypeOK
  <1>4. stopped' \subseteq stopped
    BY <1>1 DEF Take, Ack, Throw, Leave, Swallow, CrashWorker, historyVars
  <1>5. w \in stopped' => pc'[w] = "ack" /\ cur'[w] = cur[w]
    <2>1. CASE Take(w)
      BY <2>1 DEF Take, historyVars, StopInv
    <2>2. CASE Ack(w) \/ Throw(w) \/ CrashWorker(w)
      BY <2>2 DEF Ack, Throw, Leave, CrashWorker
    <2>3. CASE Swallow(w)
      BY <2>3 DEF Swallow, TypeOK, WorkersTypeOK
    <2>4. QED
      BY <1>1, <2>1, <2>2, <2>3
  <1>6. pc'[w] # "submit"
    BY <1>1 DEF Take, Ack, Throw, Leave, Swallow, CrashWorker, TypeOK, WorkersTypeOK
  <1>7. QED
    BY <1>2, <1>3, <1>4, <1>5, <1>6 DEF StopInv, StopWins, TypeOK, WorkersTypeOK

LEMMA StopInductive ==
  ASSUME TypeOK, StopInv, [Next]_vars
  PROVE  StopInv'
  <1>1. CASE UNCHANGED vars
    BY <1>1 DEF vars, StopInv, StopWins, killVars, workerVars, historyVars
  <1>2. CASE Next
    <2>1. \A o \in Orders : orders[o] \in TerminalOrder => orders'[o] = orders[o]
      BY <1>2, TerminalKept DEF StopInv
    <2>2. \A v \in Workers : pc[v] # "idle" => cur[v] \in Slots /\ cur[v][1] \in Orders
      BY SlotOrder DEF TypeOK, WorkersTypeOK
    <2>3. CASE \E w \in Workers : RunStep(w)
      BY <2>1, <2>3, RunStepStop
    <2>4. CASE \E w \in Workers : Take(w) \/ Ack(w) \/ Throw(w) \/ Swallow(w) \/ CrashWorker(w)
      BY <2>4, OtherStepStop
    <2>5. ASSUME UNCHANGED <<creating, killMode, workerVars, stopped>>,
                 \A o \in Orders : orders[o] = "absent" => orders'[o] = "absent"
          PROVE  StopInv'
      BY <2>1, <2>2, <2>5 DEF workerVars, StopInv, StopWins, TypeOK, StoresTypeOK, WorkersTypeOK
    <2>6. ASSUME NEW o, NEW status, SetStatus(o, status)
          PROVE  \A b \in Orders : orders[b] = "absent" => orders'[b] = "absent"
      BY <2>6 DEF SetStatus, LiveOrder, TypeOK, StoresTypeOK
    <2>7. CASE \E s \in Slots : Redeliver(s) \/ Finalize(s) \/ LoseFinalizer(s)
      <3>1. PICK s \in Slots : Redeliver(s) \/ Finalize(s) \/ LoseFinalizer(s)
        BY <2>7
      <3>2. UNCHANGED <<creating, killMode, workerVars, stopped>>
        BY <3>1 DEF Redeliver, Finalize, FinRead, FinPatch, FinOrder, FinSetOrder, FinAudit,
                    FinStep, LoseFinalizer, killVars, historyVars
      <3>3. orders' = orders \/ SetStatus(s[1], "failed")
        BY <3>1 DEF Redeliver, Finalize, FinRead, FinPatch, FinOrder, FinSetOrder, FinAudit,
                    LoseFinalizer
      <3>4. QED
        BY <2>5, <2>6, <3>2, <3>3
    <2>8. CASE \E p \in Schedulers : Tick(p) \/ AbortTick(p)
      <3>1. UNCHANGED <<orders, creating, killMode, workerVars, stopped>>
        BY <2>8 DEF Tick, TickStart, TickList, TickOrder, TickEnqueue, TickRemove, TickAdd,
                    TickEnd, TickFrame, AbortTick, killVars, historyVars
      <3>2. QED
        BY <2>5, <3>1
    <2>9. CASE \E a \in Admins : SetMode(a)
      <3>1. PICK a \in Admins, mode \in KillModes :
              /\ killMode' = mode
              /\ stopped' = IF mode = "off"
                              THEN {w \in stopped : orders[cur[w][1]] \in TerminalOrder}
                              ELSE stopped
              /\ UNCHANGED <<orders, creating, workerVars>>
        BY <2>9 DEF SetMode, AdminFrame
      <3>2. QED
        BY <3>1 DEF workerVars, StopInv, StopWins
    <2>10. CASE \E a \in Admins : Administer(a) \/ AbortAdmin(a)
      <3>1. UNCHANGED <<creating, killMode, workerVars, stopped>>
        BY <2>10 DEF Administer, ToggleQueue, FanOutList, FanOutCancel, FanOutEnd, AbortAdmin,
                     AdminFrame
      <3>2. orders' = orders \/ \E o : SetStatus(o, "cancelled")
        BY <2>10 DEF Administer, ToggleQueue, FanOutList, FanOutCancel, FanOutEnd, AbortAdmin
      <3>3. QED
        BY <2>5, <2>6, <3>1, <3>2
    <2>11. CASE \E o \in Orders : CheckCreate(o) \/ Create(o)
      BY <2>1, <2>2, <2>11 DEF CheckCreate, Create, UserFrame, killVars, workerVars,
         historyVars, StopInv, StopWins, TypeOK, StoresTypeOK, WorkersTypeOK
    <2>12. CASE (\E o \in Orders : Cancel(o)) \/ Advance
      <3>1. UNCHANGED <<creating, killMode, workerVars, stopped>>
        BY <2>12 DEF Cancel, Advance, UserFrame, killVars, historyVars
      <3>2. orders' = orders \/ \E o : SetStatus(o, "cancelled")
        BY <2>12 DEF Cancel, Advance
      <3>3. QED
        BY <2>5, <2>6, <3>1, <3>2
    <2>13. QED
      BY <1>2, <2>3, <2>4, <2>7, <2>8, <2>9, <2>10, <2>11, <2>12 DEF Next, Work
  <1>3. QED
    BY <1>1, <1>2

\* A submission is never recorded against a stop that the approval came after,
\* unless the stop was lifted: under crashes, lost locks and store failures, and
\* with any number of workers, schedulers, administrators and orders.
THEOREM StopAlwaysWins == Spec => []StopWins
  <1>1. Init => StopInv
    BY DEF Init, StopInv, StopWins
  <1>2. StopInv => StopWins
    BY DEF StopInv
  <1>3. QED
    BY <1>1, <1>2, StopInductive, TypeCorrect, PTL DEF Spec

-----------------------------------------------------------------------------
(* SlotExclusive and AtMostOneSubmission, while no lock of a live worker has *)
(* expired.                                                                  *)

\* Faults are only counted up, one at a time.
LEMMA FaultsCounted ==
  ASSUME TypeOK, [Next]_vars
  PROVE  faults \in Nat /\ (UNCHANGED faults \/ faults' = faults + 1)
  <1>1. faults \in Nat
    BY BoundsAssumption DEF TypeOK
  <1>2. UNCHANGED faults \/ faults' = faults + 1
    <2>1. ASSUME NEW w \in Workers, Work(w) \/ Swallow(w) \/ CrashWorker(w)
          PROVE  UNCHANGED faults \/ faults' = faults + 1
      BY <2>1 DEF Work, RunStep, Take, Ack, Throw, Swallow, CrashWorker, Fault
    <2>2. ASSUME NEW s \in Slots, Redeliver(s) \/ Finalize(s) \/ LoseFinalizer(s)
          PROVE  UNCHANGED faults \/ faults' = faults + 1
      BY <2>2 DEF Redeliver, Finalize, FinRead, FinPatch, FinOrder, FinSetOrder, FinAudit,
                  FinStep, LoseFinalizer, Fault
    <2>3. ASSUME NEW p \in Schedulers, Tick(p) \/ AbortTick(p)
          PROVE  UNCHANGED faults \/ faults' = faults + 1
      BY <2>3 DEF Tick, TickStart, TickList, TickOrder, TickEnqueue, TickRemove, TickAdd,
                  TickEnd, TickFrame, AbortTick, Fault
    <2>4. ASSUME NEW a \in Admins, SetMode(a) \/ Administer(a) \/ AbortAdmin(a)
          PROVE  UNCHANGED faults \/ faults' = faults + 1
      BY <2>4 DEF SetMode, Administer, ToggleQueue, FanOutList, FanOutCancel, FanOutEnd,
                  AbortAdmin, Fault
    <2>5. ASSUME (\E o \in Orders : CheckCreate(o) \/ Create(o) \/ Cancel(o)) \/ Advance
          PROVE  UNCHANGED faults \/ faults' = faults + 1
      BY <2>5 DEF CheckCreate, Create, Cancel, Advance, UserFrame
    <2>6. QED
      BY <2>1, <2>2, <2>3, <2>4, <2>5 DEF Next, vars
  <1>3. QED
    BY <1>1, <1>2

\* A lock that was lost stays lost.
LEMMA LocksKeptBefore ==
  ASSUME TypeOK, [Next]_vars, LocksKept'
  PROVE  LocksKept
  BY FaultsCounted DEF LocksKept

\* A worker that runs a slot holds the lock of the slot's job.
OwnInv ==
  \A w \in Workers : pc[w] # "idle" => owner[cur[w]] = w /\ jobs[cur[w]] = "active"

\* A slot that was submitted has a record that no attempt runs again, and a
\* worker still at it has just recorded the submission or is about to find it.
OnceInv ==
  \A s \in Slots :
    /\ submissions[s] <= 1
    /\ submissions[s] = 1 =>
         /\ execs[s] \in {"submitted", "failed_retry"}
         /\ \A w \in Workers : cur[w] = s => pc[w] \in {"claim", "find", "settle", "ack"}

\* The holder of a lock is unique.
LEMMA OwnExclusive == TypeOK /\ (LocksKept => OwnInv) => SlotExclusive
  BY DEF TypeOK, WorkersTypeOK, OwnInv, SlotExclusive

\* Locks pass from worker to worker through the queue only.
LEMMA OwnInductive ==
  ASSUME TypeOK, OwnInv, [Next]_vars, LocksKept'
  PROVE  OwnInv'
  <1>1. CASE UNCHANGED vars
    BY <1>1 DEF vars, OwnInv, jobVars, workerVars
  <1>2. ASSUME UNCHANGED <<jobVars, cur>>, \A v \in Workers : pc[v] = "idle" => pc'[v] = "idle"
        PROVE  OwnInv'
    BY <1>2 DEF OwnInv, jobVars
  <1>3. ASSUME NEW w \in Workers, RunStep(w)
        PROVE  OwnInv'
    <2>1. \A v \in Workers : pc[v] = "idle" => pc'[v] = "idle"
      BY <1>3 DEF RunStep, Claim, Find, Rearm, Reclaim, ReadKill, KillFail, KillCancel,
           RevertRead, RevertSet, ReadOrder, Mark, FindWallet, Quote, Quoted,
           CheckLimitBound, LimitFail, LimitOpen, Gate, Submit, Settle, Reject,
           RejectOrder, Fail, Step, TypeOK, WorkersTypeOK
    <2>2. QED
      BY <1>2, <1>3, <2>1 DEF RunStep
  <1>4. ASSUME NEW w \in Workers, Take(w)
        PROVE  OwnInv'
    BY <1>4 DEF Take, OwnInv, TypeOK, QueueTypeOK, WorkersTypeOK
  <1>5. ASSUME NEW w \in Workers, pc[w] # "idle", NEW outcome, NEW attempts,
               Leave(w, outcome, attempts)
        PROVE  OwnInv'
    <2>1. \A v \in Workers \ {w} : pc[v] # "idle" => cur[v] # cur[w]
      BY <1>5 DEF OwnInv
    <2>2. QED
      BY <1>5, <2>1 DEF Leave, OwnInv, jobVars, TypeOK, QueueTypeOK, WorkersTypeOK
  <1>6. ASSUME NEW w \in Workers, Ack(w) \/ Throw(w)
        PROVE  OwnInv'
    <2>1. pc[w] # "idle"
      BY <1>6 DEF Ack, Throw, Unavailable, Rejecting
    <2>2. \E outcome, attempts : Leave(w, outcome, attempts)
      BY <1>6 DEF Ack, Throw
    <2>3. QED
      BY <1>5, <2>1, <2>2
  <1>7. ASSUME NEW w \in Workers, Swallow(w) \/ CrashWorker(w)
        PROVE  OwnInv'
    <2>1. CASE Swallow(w)
      BY <2>1 DEF Swallow, Swallowing, OwnInv, jobVars, TypeOK, WorkersTypeOK
    <2>2. CASE CrashWorker(w)
      BY <2>2 DEF CrashWorker, OwnInv, jobVars, TypeOK, WorkersTypeOK
    <2>3. QED
      BY <1>7, <2>1, <2>2
  <1>8. ASSUME NEW s \in Slots, Redeliver(s)
        PROVE  OwnInv'
    <2>1. \A w \in Workers : ~(owner[s] = w /\ cur[w] = s)
      BY <1>8 DEF Redeliver, Fault, LocksKept, TypeOK
    <2>2. \A w \in Workers : pc[w] # "idle" => cur[w] # s
      BY <2>1 DEF OwnInv
    <2>3. QED
      BY <1>8, <2>2 DEF Redeliver, workerVars, OwnInv, TypeOK, QueueTypeOK
  <1>9. ASSUME NEW s \in Slots, Finalize(s) \/ LoseFinalizer(s)
        PROVE  OwnInv'
    BY <1>9 DEF Finalize, FinRead, FinPatch, FinOrder, FinSetOrder, FinAudit, FinStep,
                LoseFinalizer, jobVars, workerVars, OwnInv
  <1>10. ASSUME NEW p \in Schedulers, Tick(p) \/ AbortTick(p)
         PROVE  OwnInv'
    <2>1. UNCHANGED <<owner, workerVars>>
      BY <1>10 DEF Tick, TickStart, TickList, TickOrder, TickEnqueue, TickRemove, TickAdd,
                   TickEnd, TickFrame, AbortTick, jobVars
    <2>2. \A s \in Slots : jobs[s] = "active" => jobs'[s] = "active"
      <3>1. CASE TickRemove(p) \/ TickAdd(p)
        BY <3>1 DEF TickRemove, TickAdd, Adds, TypeOK, QueueTypeOK, TicksTypeOK
      <3>2. CASE ~(TickRemove(p) \/ TickAdd(p))
        BY <1>10, <3>2 DEF Tick, TickStart, TickList, TickOrder, TickEnqueue, TickEnd,
                           AbortTick, jobVars
      <3>3. QED
        BY <3>1, <3>2
    <2>3. QED
      BY <2>1, <2>2 DEF workerVars, OwnInv, TypeOK, WorkersTypeOK
  <1>11. ASSUME NEW a \in Admins, SetMode(a) \/ Administer(a) \/ AbortAdmin(a)
         PROVE  OwnInv'
    BY <1>11 DEF SetMode, Administer, ToggleQueue, FanOutList, FanOutCancel, FanOutEnd,
                 AbortAdmin, AdminFrame, jobVars, workerVars, OwnInv
  <1>12. ASSUME (\E o \in Orders : CheckCreate(o) \/ Create(o) \/ Cancel(o)) \/ Advance
         PROVE  OwnInv'
    BY <1>12 DEF CheckCreate, Create, Cancel, Advance, UserFrame, jobVars, workerVars, OwnInv
  <1>13. QED
    BY <1>1, <1>3, <1>4, <1>6, <1>7, <1>8, <1>9, <1>10, <1>11, <1>12 DEF Next, Work

\* Two workers never run the same slot, as long as no lock of a live worker has
\* expired: the lock, and not the store's compare-and-set, is what keeps them
\* apart.
THEOREM SlotsExclusive == Spec => []SlotExclusive
  <1> DEFINE IInv == LocksKept => OwnInv
  <1>1. Init => IInv
    BY DEF Init, OwnInv
  <1>2. TypeOK /\ IInv /\ [Next]_vars => IInv'
    BY OwnInductive, LocksKeptBefore
  <1>3. TypeOK /\ IInv => SlotExclusive
    BY OwnExclusive
  <1>4. QED
    BY <1>1, <1>2, <1>3, TypeCorrect, PTL DEF Spec

LEMMA OnceInductive ==
  ASSUME TypeOK, OwnInv, OnceInv, [Next]_vars
  PROVE  OnceInv'
  <1>1. CASE UNCHANGED vars
    BY <1>1 DEF vars, OnceInv, workerVars, historyVars
  <1>2. ASSUME UNCHANGED <<execs, submissions>>,
               \A w \in Workers : \/ pc'[w] = pc[w] /\ cur'[w] = cur[w]
                                  \/ pc'[w] \in {"claim", "ack"}
                                  \/ cur'[w] \notin Slots
        PROVE  OnceInv'
    BY <1>2 DEF OnceInv
  <1>3. ASSUME NEW w \in Workers, RunStep(w)
        PROVE  OnceInv'
    <2>1. /\ cur[w] \in Slots /\ cur' = cur
          /\ \A v \in Workers \ {w} : cur[v] # cur[w]
      BY <1>3 DEF RunStep, TypeOK, WorkersTypeOK, OwnInv
    <2>2. \A v \in Workers \ {w} : pc'[v] = pc[v]
      BY <1>3 DEF RunStep, Claim, Find, Rearm, Reclaim, ReadKill, KillFail, KillCancel,
           RevertRead, RevertSet, ReadOrder, Mark, FindWallet, Quote, Quoted,
           CheckLimitBound, LimitFail, LimitOpen, Gate, Submit, Settle, Reject,
           RejectOrder, Fail, Step, TypeOK, WorkersTypeOK
    <2>3. \A s \in Slots \ {cur[w]} : execs'[s] = execs[s] /\ submissions'[s] = submissions[s]
      BY <1>3, <2>1 DEF RunStep, Claim, Find, Rearm, Reclaim, ReadKill, KillFail, KillCancel,
           RevertRead, RevertSet, ReadOrder, Mark, FindWallet, Quote, Quoted,
           CheckLimitBound, LimitFail, LimitOpen, Gate, Submit, Settle, Reject,
           RejectOrder, Fail, Reads, Update, historyVars, TypeOK, StoresTypeOK
    <2>4. CASE Submit(w)
      BY <2>1, <2>2, <2>3, <2>4 DEF Submit, Step, Update, OnceInv, TypeOK, StoresTypeOK, WorkersTypeOK
    <2>5. CASE ~Submit(w)
      <3>1. submissions' = submissions
        BY <1>3, <2>5 DEF RunStep, Claim, Find, Rearm, Reclaim, ReadKill, KillFail, KillCancel,
             RevertRead, RevertSet, ReadOrder, Mark, FindWallet, Quote, Quoted,
             CheckLimitBound, LimitFail, LimitOpen, Gate, Settle, Reject,
             RejectOrder, Fail, Reads, historyVars
      <3>2. CASE submissions[cur[w]] = 1
        <4>1. execs[cur[w]] \in {"submitted", "failed_retry"}
              /\ pc[w] \in {"claim", "find", "settle", "ack"}
          BY <2>1, <3>2 DEF OnceInv
        <4>2. Claim(w) \/ Find(w) \/ Settle(w)
          BY <1>3, <4>1, <2>5 DEF RunStep, Rearm, Reclaim, ReadKill, KillFail, KillCancel,
             RevertRead, RevertSet, ReadOrder, Mark, FindWallet, Quote, Quoted,
             CheckLimitBound, LimitFail, LimitOpen, Gate, Reject, RejectOrder, Fail, Step
        <4>3. execs' = execs /\ pc'[w] \in {"find", "ack"}
          BY <4>1, <4>2 DEF Claim, Find, Settle, Step, Reads, Unspent, Spent, Terminal,
             TypeOK, WorkersTypeOK
        <4>4. QED
          BY <2>1, <2>2, <3>1, <4>3 DEF OnceInv
      <3>3. CASE submissions[cur[w]] # 1
        BY <2>1, <2>2, <2>3, <3>1, <3>3 DEF OnceInv
      <3>4. QED
        BY <3>2, <3>3
    <2>6. QED
      BY <2>4, <2>5
  <1>4. ASSUME NEW w \in Workers, Take(w)
        PROVE  OnceInv'
    BY <1>2, <1>4 DEF Take, historyVars, TypeOK, WorkersTypeOK
  <1>5. ASSUME NEW w \in Workers, Ack(w) \/ Throw(w) \/ Swallow(w) \/ CrashWorker(w)
        PROVE  OnceInv'
    BY <1>2, <1>5, NullsAssumption DEF Ack, Throw, Leave, Swallow, CrashWorker, historyVars,
       TypeOK, WorkersTypeOK
  <1>6. ASSUME NEW s \in Slots, Redeliver(s) \/ LoseFinalizer(s)
        PROVE  OnceInv'
    BY <1>2, <1>6 DEF Redeliver, LoseFinalizer, workerVars, historyVars
  <1>7. ASSUME NEW s \in Slots, Finalize(s)
        PROVE  OnceInv'
    BY <1>7 DEF Finalize, FinRead, FinPatch, FinOrder, FinSetOrder, FinAudit, FinStep, Update,
                workerVars, historyVars, OnceInv, TypeOK, StoresTypeOK
  <1>8. ASSUME NEW p \in Schedulers, Tick(p) \/ AbortTick(p)
        PROVE  OnceInv'
    BY <1>2, <1>8 DEF Tick, TickStart, TickList, TickOrder, TickEnqueue, TickRemove, TickAdd,
                      TickEnd, TickFrame, AbortTick, workerVars, historyVars
  <1>9. ASSUME NEW a \in Admins, SetMode(a) \/ Administer(a) \/ AbortAdmin(a)
        PROVE  OnceInv'
    BY <1>2, <1>9 DEF SetMode, Administer, ToggleQueue, FanOutList, FanOutCancel, FanOutEnd,
                      AbortAdmin, AdminFrame, workerVars
  <1>10. ASSUME (\E o \in Orders : CheckCreate(o) \/ Create(o) \/ Cancel(o)) \/ Advance
         PROVE  OnceInv'
    BY <1>2, <1>10 DEF CheckCreate, Create, Cancel, Advance, UserFrame, workerVars, historyVars
  <1>11. QED
    BY <1>1, <1>3, <1>4, <1>5, <1>6, <1>7, <1>8, <1>9, <1>10 DEF Next, Work

\* A slot is submitted at most once however often its job is delivered, retried,
\* re-armed and enqueued again, and wherever its worker crashes, as long as no
\* lock of a live worker has expired.
THEOREM SubmittedOnce == Spec => []AtMostOneSubmission
  <1> DEFINE IInv == LocksKept => OwnInv /\ OnceInv
  <1>1. Init => IInv
    BY DEF Init, OwnInv, OnceInv
  <1>2. TypeOK /\ IInv /\ [Next]_vars => IInv'
    BY OwnInductive, OnceInductive, LocksKeptBefore
  <1>3. IInv => AtMostOneSubmission
    BY DEF OnceInv, AtMostOneSubmission
  <1>4. QED
    BY <1>1, <1>2, <1>3, TypeCorrect, PTL DEF Spec

-----------------------------------------------------------------------------
(* What one step of an actor can change.                                    *)

\* A step of run() moves its own worker, and touches its own slot and the order
\* of that slot.
LEMMA RunFrame ==
  ASSUME TypeOK, NEW w \in Workers, RunStep(w)
  PROVE  /\ cur[w] \in Slots /\ cur[w][1] \in Orders /\ cur[w] \in SlotsOf(cur[w][1])
         /\ UNCHANGED <<creating, jobVars, queuePaused, killVars, cur, fin, tick, now, faults>>
         /\ \A v \in Workers \ {w} : pc'[v] = pc[v]
         /\ \A s \in Slots \ {cur[w]} : execs'[s] = execs[s] /\ submissions'[s] = submissions[s]
         /\ \A o \in Orders \ {cur[w][1]} : orders'[o] = orders[o]
         /\ refused \subseteq refused'
  <1>1. cur[w] \in Slots /\ cur[w][1] \in Orders /\ cur[w] \in SlotsOf(cur[w][1])
    BY SlotOrder DEF RunStep, TypeOK, WorkersTypeOK, SlotsOf
  <1>2. UNCHANGED <<creating, jobVars, queuePaused, killVars, cur, fin, tick, now, faults>>
    BY DEF RunStep
  <1>3. \A v \in Workers \ {w} : pc'[v] = pc[v]
    BY DEF RunStep, Claim, Find, Rearm, Reclaim, ReadKill, KillFail, KillCancel,
         RevertRead, RevertSet, ReadOrder, Mark, FindWallet, Quote, Quoted,
         CheckLimitBound, LimitFail, LimitOpen, Gate, Submit, Settle, Reject,
         RejectOrder, Fail, Step, TypeOK, WorkersTypeOK
  <1>4. \A s \in Slots \ {cur[w]} : execs'[s] = execs[s] /\ submissions'[s] = submissions[s]
    BY <1>1 DEF RunStep, Claim, Find, Rearm, Reclaim, ReadKill, KillFail, KillCancel,
         RevertRead, RevertSet, ReadOrder, Mark, FindWallet, Quote, Quoted,
         CheckLimitBound, LimitFail, LimitOpen, Gate, Submit, Settle, Reject,
         RejectOrder, Fail, Reads, Update, historyVars, TypeOK, StoresTypeOK
  <1>5. \A o \in Orders \ {cur[w][1]} : orders'[o] = orders[o]
    BY <1>1 DEF RunStep, Claim, Find, Rearm, Reclaim, ReadKill, KillFail, KillCancel,
         RevertRead, RevertSet, ReadOrder, Mark, FindWallet, Quote, Quoted,
         CheckLimitBound, LimitFail, LimitOpen, Gate, Submit, Settle, Reject,
         RejectOrder, Fail, Reads, SetStatus, TypeOK, StoresTypeOK
  <1>6. refused \subseteq refused'
    BY DEF RunStep, Claim, Find, Rearm, Reclaim, ReadKill, KillFail, KillCancel,
         RevertRead, RevertSet, ReadOrder, Mark, FindWallet, Quote, Quoted,
         CheckLimitBound, LimitFail, LimitOpen, Gate, AppendRefusal, Submit, Settle, Reject,
         RejectOrder, Fail, Reads
  <1>7. QED
    BY <1>1, <1>2, <1>3, <1>4, <1>5, <1>6

\* The queue and the faults of a worker touch no store.
LEMMA QueueFrame ==
  ASSUME TypeOK, NEW w \in Workers, Take(w) \/ Ack(w) \/ Throw(w) \/ Swallow(w) \/ CrashWorker(w)
  PROVE  /\ UNCHANGED <<orders, creating, execs, refused, queuePaused, killVars, tick, now, submissions>>
         /\ \A v \in Workers \ {w} : pc'[v] = pc[v] /\ cur'[v] = cur[v]
         /\ \/ pc'[w] \in {"idle", "claim"}
            \/ pc'[w] = "ack" /\ cur'[w] = cur[w]
  <1>1. UNCHANGED <<orders, creating, execs, refused, queuePaused, killVars, tick, now, submissions>>
    BY DEF Take, Ack, Throw, Swallow, CrashWorker, historyVars
  <1>2. \A v \in Workers \ {w} : pc'[v] = pc[v] /\ cur'[v] = cur[v]
    BY DEF Take, Ack, Throw, Leave, Swallow, CrashWorker, TypeOK, WorkersTypeOK
  <1>3. \/ pc'[w] \in {"idle", "claim"}
        \/ pc'[w] = "ack" /\ cur'[w] = cur[w]
    BY DEF Take, Ack, Throw, Leave, Swallow, CrashWorker, TypeOK, WorkersTypeOK
  <1>4. QED
    BY <1>1, <1>2, <1>3

\* A step of a finalizer, of its slot and of the order of that slot.
LEMMA FinalizerFrame ==
  ASSUME TypeOK, NEW s \in Slots, Finalize(s)
  PROVE  /\ s[1] \in Orders /\ fin[s] # {}
         /\ UNCHANGED <<creating, jobVars, queuePaused, killVars, workerVars, tick, now, faults, historyVars>>
         /\ \A r \in Slots \ {s} : execs'[r] = execs[r] /\ fin'[r] = fin[r]
         /\ \A o \in Orders \ {s[1]} : orders'[o] = orders[o]
         /\ refused \subseteq refused'
  <1>1. s[1] \in Orders
    BY SlotOrder
  <1>2. PICK from \in FinPc : \E to : FinStep(s, from, to)
    BY DEF Finalize, FinRead, FinPatch, FinOrder, FinSetOrder, FinAudit, FinPc
  <1>3. \A r \in Slots \ {s} : execs'[r] = execs[r]
    BY DEF Finalize, FinRead, FinPatch, FinOrder, FinSetOrder, FinAudit, Update, TypeOK, StoresTypeOK
  <1>4. \A o \in Orders \ {s[1]} : orders'[o] = orders[o]
    BY <1>1 DEF Finalize, FinRead, FinPatch, FinOrder, FinSetOrder, FinAudit, SetStatus, TypeOK,
       StoresTypeOK
  <1>5. refused \subseteq refused'
    BY DEF Finalize, FinRead, FinPatch, FinOrder, FinSetOrder, FinAudit, AppendRefusal
  <1>6. QED
    BY <1>1, <1>2, <1>3, <1>4, <1>5 DEF FinStep, TypeOK

\* An order that does not exist is nowhere else in the system.
AbsentInv ==
  \A o \in Orders : orders[o] = "absent" =>
    /\ \A s \in SlotsOf(o) :
         /\ execs[s] = "none" /\ jobs[s] = "none" /\ fin[s] = {} /\ submissions[s] = 0
         /\ \A w \in Workers : cur[w] # s
         /\ \A p \in Schedulers : tick[p].slot # s
    /\ \A p \in Schedulers : o \notin tick[p].todo

\* No write makes an order that exists absent.
LEMMA AbsentBefore ==
  ASSUME TypeOK, Next, NEW o \in Orders, orders'[o] = "absent"
  PROVE  orders[o] = "absent"
  <1>1. ASSUME NEW b, NEW status \in OrderStatus \ {"absent"}, SetStatus(b, status)
        PROVE  orders[o] = "absent"
    BY <1>1 DEF SetStatus, TypeOK, StoresTypeOK
  <1>2. ASSUME NEW w \in Workers, RunStep(w)
        PROVE  orders[o] = "absent"
    <2>1. orders' = orders \/ \E status \in OrderStatus \ {"absent"} : SetStatus(cur[w][1], status)
      <3> USE DEF OrderStatus, LiveOrder, TerminalOrder
      <3>1. CASE KillCancel(w) \/ RevertSet(w) \/ Mark(w) \/ LimitOpen(w) \/ Settle(w) \/ RejectOrder(w)
        BY <3>1 DEF KillCancel, RevertSet, Mark, LimitOpen, Settle, FinalStatus, RejectOrder
      <3>2. CASE ~(KillCancel(w) \/ RevertSet(w) \/ Mark(w) \/ LimitOpen(w) \/ Settle(w) \/ RejectOrder(w))
        BY <1>2, <3>2 DEF RunStep, Claim, Find, Rearm, Reclaim, ReadKill, KillFail, RevertRead,
             ReadOrder, FindWallet, Quote, Quoted, CheckLimitBound, LimitFail, Gate, Submit, Reject,
             Fail, Reads
      <3>3. QED
        BY <3>1, <3>2
    <2>2. QED
      BY <1>1, <1>2, <2>1
  <1>3. ASSUME NEW w \in Workers, Take(w) \/ Ack(w) \/ Throw(w) \/ Swallow(w) \/ CrashWorker(w)
        PROVE  orders[o] = "absent"
    BY <1>3 DEF Take, Ack, Throw, Swallow, CrashWorker
  <1>4. ASSUME NEW s \in Slots, Redeliver(s) \/ Finalize(s) \/ LoseFinalizer(s)
        PROVE  orders[o] = "absent"
    <2>1. orders' = orders \/ SetStatus(s[1], "failed")
      BY <1>4 DEF Redeliver, Finalize, FinRead, FinPatch, FinOrder, FinSetOrder, FinAudit,
                  LoseFinalizer
    <2>2. QED
      BY <1>1, <2>1 DEF OrderStatus, TerminalOrder
  <1>5. ASSUME NEW p \in Schedulers, Tick(p) \/ AbortTick(p)
        PROVE  orders[o] = "absent"
    BY <1>5 DEF Tick, TickStart, TickList, TickOrder, TickEnqueue, TickRemove, TickAdd,
                TickEnd, TickFrame, AbortTick
  <1>6. ASSUME NEW a \in Admins, SetMode(a) \/ Administer(a) \/ AbortAdmin(a)
        PROVE  orders[o] = "absent"
    <2>1. orders' = orders \/ \E b : SetStatus(b, "cancelled")
      BY <1>6 DEF SetMode, Administer, ToggleQueue, FanOutList, FanOutCancel, FanOutEnd,
                  AbortAdmin
    <2>2. QED
      BY <1>1, <2>1 DEF OrderStatus, TerminalOrder
  <1>7. ASSUME NEW b \in Orders, CheckCreate(b) \/ Create(b) \/ Cancel(b)
        PROVE  orders[o] = "absent"
    BY <1>7, <1>1 DEF CheckCreate, Create, Cancel, OrderStatus, TerminalOrder, TypeOK, StoresTypeOK
  <1>8. CASE Advance
    BY <1>8 DEF Advance
  <1>9. QED
    BY <1>2, <1>3, <1>4, <1>5, <1>6, <1>7, <1>8 DEF Next, Work

LEMMA AbsentInductive ==
  ASSUME TypeOK, AbsentInv, [Next]_vars
  PROVE  AbsentInv'
  <1>1. CASE UNCHANGED vars
    BY <1>1 DEF vars, AbsentInv, SlotsOf, workerVars, jobVars, historyVars
  <1>2. CASE Next
    <2> SUFFICES ASSUME NEW o \in Orders, orders[o] = "absent",
                        orders'[o] = "absent"
        PROVE  /\ \A s \in SlotsOf(o) :
                    /\ execs'[s] = "none" /\ jobs'[s] = "none" /\ fin'[s] = {} /\ submissions'[s] = 0
                    /\ \A w \in Workers : cur'[w] # s
                    /\ \A p \in Schedulers : tick'[p].slot # s
               /\ \A p \in Schedulers : o \notin tick'[p].todo
      BY <1>2, AbsentBefore DEF AbsentInv, SlotsOf
    <2>1. /\ \A s \in SlotsOf(o) :
               /\ execs[s] = "none" /\ jobs[s] = "none" /\ fin[s] = {} /\ submissions[s] = 0
               /\ \A w \in Workers : cur[w] # s
               /\ \A p \in Schedulers : tick[p].slot # s
          /\ \A p \in Schedulers : o \notin tick[p].todo
      BY DEF AbsentInv
    <2>2. SlotsOf(o) \subseteq Slots /\ \A s \in SlotsOf(o) : s[1] = o
      BY DEF SlotsOf
    <2>3. ASSUME NEW w \in Workers, RunStep(w)
          PROVE  /\ \A s \in SlotsOf(o) : execs'[s] = execs[s] /\ submissions'[s] = submissions[s]
                 /\ UNCHANGED <<jobs, fin, cur, tick>>
      BY <2>1, <2>2, <2>3, RunFrame DEF jobVars
    <2>4. ASSUME NEW w \in Workers, Take(w) \/ Ack(w) \/ Throw(w) \/ Swallow(w) \/ CrashWorker(w)
          PROVE  /\ UNCHANGED <<execs, tick, submissions>>
                 /\ \A s \in SlotsOf(o) : /\ jobs'[s] = jobs[s] /\ fin'[s] = fin[s]
                                          /\ \A v \in Workers : cur'[v] # s
      <3>1. UNCHANGED <<execs, tick, submissions>>
        BY <2>4, QueueFrame
      <3>2. CASE Take(w)
        <4>1. PICK s \in Slots : jobs[s] = "waiting" /\ jobs' = [jobs EXCEPT ![s] = "active"]
                                 /\ cur' = [cur EXCEPT ![w] = s]
          BY <3>2 DEF Take
        <4>2. s \notin SlotsOf(o)
          BY <2>1, <4>1
        <4>3. fin' = fin
          BY <3>2 DEF Take
        <4>4. QED
          BY <2>1, <2>2, <3>1, <4>1, <4>2, <4>3 DEF TypeOK, QueueTypeOK, WorkersTypeOK
      <3>3. CASE Ack(w) \/ Throw(w)
        <4>1. cur[w] \in Slots \ SlotsOf(o)
          BY <2>1, <3>3 DEF Ack, Throw, Unavailable, Rejecting, TypeOK, WorkersTypeOK
        <4>2. /\ \A s \in SlotsOf(o) : jobs'[s] = jobs[s] /\ fin'[s] = fin[s]
              /\ cur' = [cur EXCEPT ![w] = NoSlot]
          BY <2>2, <3>3, <4>1 DEF Ack, Throw, Leave, jobVars, TypeOK, QueueTypeOK
        <4>3. QED
          BY <2>1, <2>2, <3>1, <4>2, NullsAssumption DEF TypeOK, WorkersTypeOK
      <3>4. CASE Swallow(w) \/ CrashWorker(w)
        BY <2>1, <2>2, <3>1, <3>4, NullsAssumption DEF Swallow, CrashWorker, jobVars, TypeOK, WorkersTypeOK
      <3>5. QED
        BY <2>4, <3>2, <3>3, <3>4
    <2>5. ASSUME NEW s \in Slots, Redeliver(s) \/ Finalize(s) \/ LoseFinalizer(s)
          PROVE  /\ UNCHANGED <<cur, tick, submissions>>
                 /\ \A r \in SlotsOf(o) : jobs'[r] = jobs[r] /\ fin'[r] = fin[r] /\ execs'[r] = execs[r]
      <3>1. CASE Redeliver(s)
        BY <2>1, <2>2, <3>1 DEF Redeliver, workerVars, historyVars, TypeOK, QueueTypeOK
      <3>2. CASE Finalize(s)
        BY <2>1, <2>2, <3>2, FinalizerFrame DEF workerVars, historyVars, jobVars
      <3>3. CASE LoseFinalizer(s)
        BY <2>1, <2>2, <3>3 DEF LoseFinalizer, workerVars, historyVars, jobVars, TypeOK
      <3>4. QED
        BY <2>5, <3>1, <3>2, <3>3
    <2>6. ASSUME NEW p \in Schedulers, Tick(p) \/ AbortTick(p)
          PROVE  /\ UNCHANGED <<execs, fin, cur, submissions>>
                 /\ \A s \in SlotsOf(o) : jobs'[s] = jobs[s] /\ \A q \in Schedulers : tick'[q].slot # s
                 /\ \A q \in Schedulers : o \notin tick'[q].todo
      <3>1. UNCHANGED <<execs, fin, cur, submissions>>
        BY <2>6 DEF Tick, TickStart, TickList, TickOrder, TickEnqueue, TickRemove, TickAdd,
                    TickEnd, TickFrame, AbortTick, workerVars, historyVars
      <3>2. \A s \in SlotsOf(o) : jobs'[s] = jobs[s]
        BY <2>1, <2>2, <2>6 DEF Tick, TickStart, TickList, TickOrder, TickEnqueue, TickRemove, TickAdd,
                    TickEnd, AbortTick, jobVars, TypeOK, QueueTypeOK, TicksTypeOK
      <3>3. /\ \A q \in Schedulers \ {p} : tick'[q] = tick[q]
            /\ o \notin tick'[p].todo
            /\ \A s \in SlotsOf(o) : tick'[p].slot # s
        <4>1. tick[p] \in [pc : TickPc, todo : SUBSET Orders, slot : Slots \cup {NoSlot}, now : 0 .. MaxSlot]
              /\ tick \in [Schedulers -> [pc : TickPc, todo : SUBSET Orders, slot : Slots \cup {NoSlot}, now : 0 .. MaxSlot]]
          BY DEF TypeOK, TicksTypeOK
        <4>2. NoSlot \notin SlotsOf(o)
          BY <2>2, NullsAssumption
        <4>3. ASSUME NEW to, tick' = [tick EXCEPT ![p] = to], o \notin to.todo,
                     to.slot \in {tick[p].slot, NoSlot}
              PROVE  /\ \A q \in Schedulers \ {p} : tick'[q] = tick[q]
                     /\ o \notin tick'[p].todo
                     /\ \A s \in SlotsOf(o) : tick'[p].slot # s
          BY <2>1, <4>1, <4>2, <4>3
        <4>4. CASE TickStart(p) \/ TickEnd(p) \/ AbortTick(p)
          <5>1. PICK to \in {IdleTick, [IdleTick EXCEPT !.pc = "list", !.now = now]} :
                  tick' = [tick EXCEPT ![p] = to]
            BY <4>4 DEF TickStart, TickEnd, AbortTick, TickStep
          <5>2. IdleTick.todo = {} /\ IdleTick.slot = NoSlot
            BY DEF IdleTick
          <5>3. [IdleTick EXCEPT !.pc = "list", !.now = now].todo = {}
                /\ [IdleTick EXCEPT !.pc = "list", !.now = now].slot = NoSlot
            BY DEF IdleTick
          <5>4. QED
            BY <4>3, <5>1, <5>2, <5>3
        <4>5. CASE TickList(p) \/ TickEnqueue(p) \/ TickAdd(p)
          <5>1. CASE TickList(p)
            <6> DEFINE open == {b \in Orders : orders[b] = "open"}
                       to == [tick[p] EXCEPT !.pc = "next", !.todo = open]
            <6>1. tick' = [tick EXCEPT ![p] = to] /\ o \notin open
              BY <5>1 DEF TickList, TickStep
            <6>2. to.todo = open /\ to.slot = tick[p].slot
              BY <4>1
            <6>3. QED
              BY <4>3, <6>1, <6>2
          <5>2. CASE TickEnqueue(p)
            <6>1. PICK label : tick' = [tick EXCEPT ![p] = [tick[p] EXCEPT !.pc = label]]
              BY <5>2 DEF TickEnqueue, TickStep
            <6>2. QED
              BY <2>1, <4>1, <4>3, <6>1
          <5>3. CASE TickAdd(p)
            <6> DEFINE to == [tick[p] EXCEPT !.pc = "next", !.slot = NoSlot]
            <6>1. tick' = [tick EXCEPT ![p] = to]
              BY <5>3 DEF TickAdd, TickStep
            <6>2. to.todo = tick[p].todo /\ to.slot = NoSlot
              BY <4>1
            <6> HIDE DEF to
            <6>3. QED
              BY <2>1, <4>3, <6>1, <6>2
          <5>4. QED
            BY <4>5, <5>1, <5>2, <5>3
        <4>6. CASE TickRemove(p)
          <5>1. \/ tick' = [tick EXCEPT ![p] = IdleTick]
                \/ tick' = [tick EXCEPT ![p] = [tick[p] EXCEPT !.pc = "add"]]
            BY <4>6 DEF TickRemove, TickStep
          <5>2. IdleTick.todo = {} /\ IdleTick.slot = NoSlot
            BY DEF IdleTick
          <5>3. QED
            BY <2>1, <4>1, <4>3, <5>1, <5>2
        <4>7. CASE TickOrder(p)
          <5>1. PICK b \in tick[p].todo :
                  \/ tick' = [tick EXCEPT ![p] = [[tick[p] EXCEPT !.todo = @ \ {b}]
                                EXCEPT !.pc = "enqueue", !.slot = SlotOf(b, tick[p].now)]]
                  \/ tick' = [tick EXCEPT ![p] = [tick[p] EXCEPT !.todo = @ \ {b}]]
            BY <4>7 DEF TickOrder, TickStep
          <5>2. b # o /\ SlotOf(b, tick[p].now)[1] = b
            BY <2>1 DEF SlotOf
          <5>3. SlotOf(b, tick[p].now) \notin SlotsOf(o)
            BY <2>2, <5>2
          <5> DEFINE rest == [tick[p] EXCEPT !.todo = @ \ {b}]
                     due  == [rest EXCEPT !.pc = "enqueue", !.slot = SlotOf(b, tick[p].now)]
          <5>4. /\ rest.todo \subseteq tick[p].todo /\ rest.slot = tick[p].slot
                /\ due.todo = rest.todo /\ due.slot = SlotOf(b, tick[p].now)
            BY <4>1
          <5>5. tick' = [tick EXCEPT ![p] = rest] \/ tick' = [tick EXCEPT ![p] = due]
            BY <5>1
          <5> HIDE DEF rest, due
          <5>6. QED
            BY <2>1, <4>1, <5>3, <5>4, <5>5
        <4>8. QED
          BY <2>6, <4>4, <4>5, <4>6, <4>7 DEF Tick
      <3>4. QED
        BY <2>1, <3>1, <3>2, <3>3
    <2>7. ASSUME NEW a \in Admins, SetMode(a) \/ Administer(a) \/ AbortAdmin(a)
          PROVE  UNCHANGED <<execs, jobs, fin, submissions, cur, tick>>
      BY <2>7 DEF SetMode, Administer, ToggleQueue, FanOutList, FanOutCancel, FanOutEnd,
                  AbortAdmin, AdminFrame, jobVars, workerVars
    <2>8. ASSUME (\E b \in Orders : CheckCreate(b) \/ Create(b) \/ Cancel(b)) \/ Advance
          PROVE  UNCHANGED <<execs, jobs, fin, submissions, cur, tick>>
      BY <2>8 DEF CheckCreate, Create, Cancel, Advance, UserFrame, jobVars, workerVars, historyVars
    <2>9. QED
      BY <1>2, <2>1, <2>2, <2>3, <2>4, <2>5, <2>6, <2>7, <2>8 DEF Next, Work
  <1>3. QED
    BY <1>1, <1>2

-----------------------------------------------------------------------------
(* FailedOrderExplained and QueueFollowsSwitch, while nothing but locks has  *)
(* failed.                                                                  *)

\* No store has failed and no process has died so far.
OnlyLocksFail == FaultKinds \subseteq {"lock_loss"} \/ faults = 0

LEMMA OnlyLocksFailBefore ==
  ASSUME TypeOK, [Next]_vars, OnlyLocksFail'
  PROVE  OnlyLocksFail
  BY FaultsCounted DEF OnlyLocksFail

LEMMA NotLocks ==
  ASSUME TypeOK, Fault("store") \/ Fault("crash")
  PROVE  ~OnlyLocksFail'
  <1>1. faults \in Nat
    BY BoundsAssumption DEF TypeOK
  <1>2. QED
    BY <1>1 DEF Fault, OnlyLocksFail

\* The audit comes before the failure of the order in a worker, and after it in
\* a finalizer.
ExplainInv ==
  /\ \A w \in Workers : pc[w] \in {"reject", "rejectOrder"} => cur[w] \in refused
  /\ FailedOrderExplained

LEMMA ExplainInductive ==
  ASSUME TypeOK, ExplainInv, [Next]_vars, OnlyLocksFail'
  PROVE  ExplainInv'
  <1>1. CASE UNCHANGED vars
    BY <1>1 DEF vars, ExplainInv, FailedOrderExplained, SlotsOf, workerVars
  <1>2. ASSUME \A o \in Orders : orders'[o] = "failed" =>
                 orders[o] = "failed" \/ \E s \in SlotsOf(o) : s \in refused' \/ "audit" \in fin'[s],
               refused \subseteq refused',
               \A s \in Slots : "audit" \in fin[s] => s \in refused' \/ "audit" \in fin'[s]
        PROVE  FailedOrderExplained'
    BY <1>2 DEF ExplainInv, FailedOrderExplained, SlotsOf
  <1>3. ASSUME UNCHANGED <<pc, cur>>, refused \subseteq refused'
        PROVE  \A w \in Workers : pc'[w] \in {"reject", "rejectOrder"} => cur'[w] \in refused'
    BY <1>3 DEF ExplainInv
  <1>4. ASSUME NEW w \in Workers, RunStep(w)
        PROVE  ExplainInv'
    <2>1. /\ cur[w] \in SlotsOf(cur[w][1]) /\ cur[w][1] \in Orders
          /\ UNCHANGED <<cur, fin>> /\ refused \subseteq refused'
          /\ \A v \in Workers \ {w} : pc'[v] = pc[v]
          /\ \A o \in Orders \ {cur[w][1]} : orders'[o] = orders[o]
      BY <1>4, RunFrame
    <2>2. pc'[w] \in {"reject", "rejectOrder"} => cur[w] \in refused'
      BY <1>4, <2>1 DEF RunStep, Claim, Find, Rearm, Reclaim, ReadKill, KillFail, KillCancel,
         RevertRead, RevertSet, ReadOrder, Mark, FindWallet, Quote, Quoted,
         CheckLimitBound, LimitFail, LimitOpen, Gate, AppendRefusal, Submit, Settle, Reject,
         RejectOrder, Fail, Step, TypeOK, WorkersTypeOK, ExplainInv
    <2>3. orders'[cur[w][1]] = "failed" => orders[cur[w][1]] = "failed" \/ cur[w] \in refused
      <3>1. CASE RejectOrder(w)
        BY <3>1 DEF RejectOrder, Step, ExplainInv
      <3>2. CASE KillCancel(w) \/ RevertSet(w) \/ Mark(w) \/ LimitOpen(w) \/ Settle(w)
        BY <2>1, <3>2 DEF KillCancel, RevertSet, Mark, LimitOpen, Settle, FinalStatus, SetStatus,
           TypeOK, StoresTypeOK
      <3>3. CASE ~(RejectOrder(w) \/ KillCancel(w) \/ RevertSet(w) \/ Mark(w) \/ LimitOpen(w) \/ Settle(w))
        BY <1>4, <3>3 DEF RunStep, Claim, Find, Rearm, Reclaim, ReadKill, KillFail, RevertRead,
             ReadOrder, FindWallet, Quote, Quoted, CheckLimitBound, LimitFail, Gate, Submit, Reject,
             Fail, Reads
      <3>4. QED
        BY <3>1, <3>2, <3>3
    <2>4. FailedOrderExplained'
      BY <1>2, <2>1, <2>3
    <2>5. QED
      BY <2>1, <2>2, <2>4 DEF ExplainInv
  <1>5. ASSUME NEW w \in Workers, Take(w) \/ Ack(w) \/ Throw(w) \/ Swallow(w) \/ CrashWorker(w)
        PROVE  ExplainInv'
    <2>1. /\ UNCHANGED <<orders, refused>>
          /\ \A v \in Workers \ {w} : pc'[v] = pc[v] /\ cur'[v] = cur[v]
          /\ pc'[w] \in {"idle", "claim", "ack"}
      BY <1>5, QueueFrame
    <2>2. \A s \in Slots : fin[s] \subseteq fin'[s]
      BY <1>5 DEF Take, Ack, Throw, Swallow, CrashWorker, TypeOK
    <2>3. FailedOrderExplained'
      BY <1>2, <2>1, <2>2
    <2>4. QED
      BY <2>1, <2>3 DEF ExplainInv
  <1>6. ASSUME NEW s \in Slots, Redeliver(s)
        PROVE  ExplainInv'
    BY <1>2, <1>3, <1>6 DEF Redeliver, workerVars, ExplainInv
  <1>7. ASSUME NEW s \in Slots, Finalize(s)
        PROVE  ExplainInv'
    <2>1. /\ s[1] \in Orders /\ refused \subseteq refused'
          /\ UNCHANGED <<pc, cur>>
          /\ \A r \in Slots \ {s} : fin'[r] = fin[r]
          /\ \A o \in Orders \ {s[1]} : orders'[o] = orders[o]
      BY <1>7, FinalizerFrame DEF workerVars
    <2>2. "audit" \in fin[s] => s \in refused' \/ "audit" \in fin'[s]
      BY <1>7 DEF Finalize, FinRead, FinPatch, FinOrder, FinSetOrder, FinAudit, FinStep,
                  AppendRefusal, TypeOK
    <2>3. orders'[s[1]] = "failed" => orders[s[1]] = "failed" \/ "audit" \in fin'[s]
      BY <1>7 DEF Finalize, FinRead, FinPatch, FinOrder, FinSetOrder, FinAudit, FinStep, TypeOK
    <2>4. FailedOrderExplained'
      BY <1>2, <2>1, <2>2, <2>3 DEF SlotsOf
    <2>5. QED
      BY <1>3, <2>1, <2>4 DEF ExplainInv
  <1>8. ASSUME NEW s \in Slots, LoseFinalizer(s)
        PROVE  FALSE
    BY <1>8, NotLocks DEF LoseFinalizer
  <1>9. ASSUME NEW p \in Schedulers, Tick(p) \/ AbortTick(p)
        PROVE  ExplainInv'
    <2>1. UNCHANGED <<orders, refused, fin, pc, cur>>
      BY <1>9 DEF Tick, TickStart, TickList, TickOrder, TickEnqueue, TickRemove, TickAdd,
                TickEnd, TickFrame, AbortTick, workerVars
    <2>2. QED
      BY <1>2, <1>3, <2>1 DEF ExplainInv
  <1>10. ASSUME NEW a \in Admins, SetMode(a) \/ Administer(a) \/ AbortAdmin(a)
         PROVE  ExplainInv'
    <2>1. UNCHANGED <<refused, fin, pc, cur>>
      BY <1>10 DEF SetMode, Administer, ToggleQueue, FanOutList, FanOutCancel, FanOutEnd,
                  AbortAdmin, AdminFrame, workerVars
    <2>2. orders' = orders \/ \E b : SetStatus(b, "cancelled")
      BY <1>10 DEF SetMode, Administer, ToggleQueue, FanOutList, FanOutCancel, FanOutEnd,
                  AbortAdmin
    <2>3. \A o \in Orders : orders'[o] = "failed" => orders[o] = "failed"
      BY <2>2 DEF SetStatus, TypeOK, StoresTypeOK
    <2>4. QED
      BY <1>2, <1>3, <2>1, <2>3 DEF ExplainInv
  <1>11. ASSUME (\E o \in Orders : CheckCreate(o) \/ Create(o) \/ Cancel(o)) \/ Advance
         PROVE  ExplainInv'
    <2>1. UNCHANGED <<refused, fin, pc, cur>>
      BY <1>11 DEF CheckCreate, Create, Cancel, Advance, UserFrame, workerVars
    <2>2. \A o \in Orders : orders'[o] = "failed" => orders[o] = "failed"
      BY <1>11 DEF CheckCreate, Create, Cancel, Advance, SetStatus, TypeOK, StoresTypeOK
    <2>3. QED
      BY <1>2, <1>3, <2>1, <2>2 DEF ExplainInv
  <1>12. QED
    BY <1>1, <1>4, <1>5, <1>6, <1>7, <1>8, <1>9, <1>10, <1>11 DEF Next, Work

\* Every failed order has its reason in the audit, or a finalizer about to append
\* it, however workers, finalizers and redeliveries of one order cross, as long as
\* no store has failed and no process has died.
THEOREM FailuresExplained == Spec => [](OnlyLocksFail => FailedOrderExplained)
  <1> DEFINE IInv == OnlyLocksFail => ExplainInv
  <1>1. Init => IInv
    BY DEF Init, ExplainInv, FailedOrderExplained
  <1>2. TypeOK /\ IInv /\ [Next]_vars => IInv'
    BY ExplainInductive, OnlyLocksFailBefore
  <1>3. IInv => (OnlyLocksFail => FailedOrderExplained)
    BY DEF ExplainInv
  <1>4. QED
    BY <1>1, <1>2, <1>3, TypeCorrect, PTL DEF Spec

\* A request that has not toggled the queue yet set the mode that is in force.
QueueInv ==
  /\ QueueFollowsSwitch
  /\ \A a \in Admins : admin[a].pc = "queue" => admin[a].mode = killMode

\* A request sets the mode between the mode and the queue of another.
Crosses == \E a, b \in Admins : SetMode(a) /\ b # a /\ admin[b].pc = "queue"

\* A request ends between its mode and the queue.
CutShort == \E a \in Admins : AbortAdmin(a) /\ admin[a].pc = "queue"

LEMMA QueueInductive ==
  ASSUME TypeOK, QueueInv, [Next]_vars, ~Crosses, ~CutShort
  PROVE  QueueInv'
  <1>1. ASSUME UNCHANGED <<queuePaused, killVars>>
        PROVE  QueueInv'
    BY <1>1 DEF killVars, QueueInv, QueueFollowsSwitch
  <1>2. ASSUME NEW a \in Admins, SetMode(a)
        PROVE  QueueInv'
    <2>1. PICK mode \in KillModes : killMode' = mode /\ admin' = [admin EXCEPT ![a] = [IdleAdmin EXCEPT !.pc = "queue", !.mode = mode]]
      BY <1>2 DEF SetMode, AdminStep
    <2>2. admin'[a].pc = "queue" /\ admin'[a].mode = killMode'
      <3> DEFINE to == [IdleAdmin EXCEPT !.pc = "queue", !.mode = mode]
      <3>1. to.pc = "queue" /\ to.mode = mode
        BY DEF IdleAdmin
      <3>2. admin'[a] = to
        BY <2>1 DEF TypeOK, KillTypeOK
      <3> HIDE DEF to
      <3>3. QED
        BY <2>1, <3>1, <3>2
    <2>3. admin[a].pc = "idle" /\ \A b \in Admins \ {a} : admin'[b] = admin[b]
      BY <1>2, <2>1 DEF SetMode, AdminStep, TypeOK, KillTypeOK
    <2>5. \A b \in Admins \ {a} : admin'[b].pc # "queue"
      BY <1>2, <2>3 DEF Crosses
    <2>6. QED
      BY <2>2, <2>5 DEF QueueInv, QueueFollowsSwitch
  <1>3. ASSUME NEW a \in Admins, ToggleQueue(a)
        PROVE  QueueInv'
    <2>1. /\ queuePaused' = (admin[a].mode # "off") /\ admin[a].mode = killMode
          /\ killMode' = killMode
      BY <1>3 DEF ToggleQueue, Pauses, AdminStep, QueueInv
    <2>2. admin'[a].pc # "queue" /\ \A b \in Admins \ {a} : admin'[b] = admin[b]
      BY <1>3 DEF ToggleQueue, AdminStep, IdleAdmin, TypeOK, KillTypeOK
    <2>3. QED
      BY <2>1, <2>2 DEF QueueInv, QueueFollowsSwitch
  <1>4. ASSUME NEW a \in Admins, FanOutList(a) \/ FanOutCancel(a) \/ FanOutEnd(a)
        PROVE  QueueInv'
    <2>1. UNCHANGED <<queuePaused, killMode>>
      BY <1>4 DEF FanOutList, FanOutCancel, FanOutEnd
    <2>2. /\ admin[a].pc # "queue" /\ admin'[a].pc # "queue"
          /\ \A b \in Admins \ {a} : admin'[b] = admin[b]
      <3>1. admin[a] \in [pc : AdminPc, mode : KillModes, todo : SUBSET Orders]
            /\ \A to : admin' = [admin EXCEPT ![a] = to] =>
                 admin'[a] = to /\ \A b \in Admins \ {a} : admin'[b] = admin[b]
        BY DEF TypeOK, KillTypeOK
      <3>2. CASE FanOutList(a)
        BY <3>1, <3>2 DEF FanOutList, AdminStep
      <3>3. CASE FanOutCancel(a)
        BY <3>1, <3>3 DEF FanOutCancel, AdminStep
      <3>4. CASE FanOutEnd(a)
        BY <3>1, <3>4 DEF FanOutEnd, AdminStep, IdleAdmin
      <3>5. QED
        BY <1>4, <3>2, <3>3, <3>4
    <2>3. QED
      BY <2>1, <2>2 DEF QueueInv, QueueFollowsSwitch
  <1>5. ASSUME NEW a \in Admins, AbortAdmin(a)
        PROVE  QueueInv'
    <2>1. /\ admin[a].pc # "queue" /\ UNCHANGED <<queuePaused, killMode>>
          /\ admin' = [admin EXCEPT ![a] = IdleAdmin]
      BY <1>5 DEF CutShort, AbortAdmin
    <2>2. admin'[a].pc # "queue" /\ \A b \in Admins \ {a} : admin'[b] = admin[b]
      BY <2>1 DEF IdleAdmin, TypeOK, KillTypeOK
    <2>3. QED
      BY <2>1, <2>2 DEF QueueInv, QueueFollowsSwitch
  <1>6. ASSUME NEW w \in Workers, Work(w) \/ Swallow(w) \/ CrashWorker(w)
        PROVE  UNCHANGED <<queuePaused, killVars>>
    BY <1>6 DEF Work, RunStep, Take, Ack, Throw, Swallow, CrashWorker
  <1>7. ASSUME NEW s \in Slots, Redeliver(s) \/ Finalize(s) \/ LoseFinalizer(s)
        PROVE  UNCHANGED <<queuePaused, killVars>>
    BY <1>7 DEF Redeliver, Finalize, FinRead, FinPatch, FinOrder, FinSetOrder, FinAudit,
                FinStep, LoseFinalizer
  <1>8. ASSUME NEW p \in Schedulers, Tick(p) \/ AbortTick(p)
        PROVE  UNCHANGED <<queuePaused, killVars>>
    BY <1>8 DEF Tick, TickStart, TickList, TickOrder, TickEnqueue, TickRemove, TickAdd,
                TickEnd, TickFrame, AbortTick
  <1>9. ASSUME (\E o \in Orders : CheckCreate(o) \/ Create(o) \/ Cancel(o)) \/ Advance
        PROVE  UNCHANGED <<queuePaused, killVars>>
    BY <1>9 DEF CheckCreate, Create, Cancel, Advance, UserFrame
  <1>10. QED
    BY <1>1, <1>2, <1>3, <1>4, <1>5, <1>6, <1>7, <1>8, <1>9 DEF Next, Administer, vars

\* The queue agrees with the switch at first, and two kinds of step alone can part
\* them: a request that sets the mode while another is between its mode and the queue
\* (the run crossed_switches), and one that fails or dies at that point.
THEOREM QueuePartsAtRequests ==
  Spec => QueueInv /\ [][QueueInv => QueueInv' \/ Crosses \/ CutShort]_vars
  <1>1. Init => QueueInv
    BY DEF Init, QueueInv, QueueFollowsSwitch, IdleAdmin
  <1>2. TypeOK /\ [Next]_vars => [QueueInv => QueueInv' \/ Crosses \/ CutShort]_vars
    BY QueueInductive
  <1>3. QED
    BY <1>1, <1>2, TypeCorrect, PTL DEF Spec
=============================================================================
