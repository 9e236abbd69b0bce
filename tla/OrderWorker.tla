------------------------------ MODULE OrderWorker ------------------------------
(***************************************************************************)
(* The order worker of apps/api/src/order-worker: limit and DCA orders, the *)
(* scheduler tick that enqueues their slots, the BullMQ execute queue, the  *)
(* workers that execute one (order, slot) each, the retry-exhaustion        *)
(* finalizer, the kill switch and the HTTP operations on orders.            *)
(*                                                                          *)
(* One action is the code between two awaits: every store, queue or gate    *)
(* call may be interleaved with any step of any other actor.  A worker is   *)
(* one BullMQ Worker (concurrency 1) of one API process, so the per-process *)
(* KeyedMutex never has a second caller to hold back.  Prices, quotes and   *)
(* gate decisions come from outside: each is a choice.                      *)
(***************************************************************************)
EXTENDS Integers, FiniteSets

CONSTANTS
  Limit,        \* ids of the limit orders that may be created
  Dca,          \* ids of the DCA orders that may be created
  Walletless,   \* the orders whose walletId names no wallet
  MaxOrders,    \* how many orders are created
  MaxSlot,      \* the DCA clock runs over slots 0..MaxSlot
  Workers,      \* execution workers, one per API process
  Schedulers,   \* trigger workers, one per API process
  Admins,       \* concurrent POST /automation/kill-switch requests
  NoWorker,     \* "nobody holds the job's lock"
  NoSlot,       \* "the worker runs no job"
  MaxAttempts,  \* job attempts before the finalizer runs (3 in the code)
  FaultKinds,   \* the kinds of fault the environment may inject
  MaxFaults,    \* how many of them
  MaxFlips      \* how many kill-switch requests are made

Orders == Limit \cup Dca
Slots  == (Limit \X {0}) \cup (Dca \X (0 .. MaxSlot))

ASSUME OrdersAssumption == Limit \cap Dca = {} /\ Walletless \subseteq Orders
ASSUME BoundsAssumption == /\ MaxOrders \in Nat
                           /\ MaxSlot \in Nat
                           /\ MaxAttempts \in Nat \ {0}
                           /\ MaxFaults \in Nat
                           /\ MaxFlips \in Nat
ASSUME NullsAssumption  == NoWorker \notin Workers /\ NoSlot \notin Slots
ASSUME FaultsAssumption == FaultKinds \subseteq {"crash", "lock_loss", "store"}

VARIABLES
  orders,       \* order -> its status in the order store
  creating,     \* orders whose creation has passed the kill-switch check
  execs,        \* slot -> its execution record
  refused,      \* slots with a refusal in the decision audit of their intent
  jobs,         \* slot -> state of its BullMQ job
  owner,        \* slot -> the worker that holds the job's lock
  tries,        \* slot -> failed attempts of the job
  queuePaused,  \* the execute queue is paused
  killMode,     \* mode of the kill-switch row
  flips,        \* kill-switch requests made so far (bound)
  admin,        \* admin -> progress of its kill-switch request
  pc, cur,      \* worker -> next step of run(), slot it runs
  seen,         \* worker -> kill mode it read last
  fin,          \* slot -> steps at which finalizers of the slot are
  tick,         \* scheduler -> progress of its tick
  now,          \* the DCA slot the clock is in
  faults,       \* faults injected so far (bound)
  submissions,  \* history: how often the slot was recorded 'submitted'
  stopped       \* history: workers whose approval came after a stop

jobVars     == <<jobs, owner, tries>>
killVars    == <<killMode, flips, admin>>
workerVars  == <<pc, cur, seen>>
historyVars == <<submissions, stopped>>
vars == <<orders, creating, execs, refused, jobVars, queuePaused, killVars,
          workerVars, fin, tick, now, faults, historyVars>>

-----------------------------------------------------------------------------
(* Values of the stores.  An execution record is its status; a failed one   *)
(* also carries the part of its detail that oneShotUnspent and the          *)
(* properties tell apart.                                                   *)

LiveOrder     == {"open", "triggered"}
TerminalOrder == {"filled", "cancelled", "failed"}
OrderStatus   == {"absent"} \cup LiveOrder \cup TerminalOrder

Resumable == {"claimed", "quoted"}
Terminal  == {"submitted", "gate_rejected", "failed_kill", "failed_limit",
              "failed_dead", "failed_wallet", "failed_retry"}
ExecStatus == {"none"} \cup Resumable \cup Terminal

\* oneShotUnspent: the terminal records whose slot may run again.
MutantUnspent == {"failed_kill", "failed_limit", "submitted"}
Unspent == {"failed_kill", "failed_limit"}
Spent   == Terminal \ Unspent

JobState    == {"none", "waiting", "active", "completed", "failed"}
KillModes   == {"off", "pause_new", "cancel_active"}

\* Steps of run() whose error the code swallows (.catch(() => undefined)).
Swallowing == {"killCancel", "revertSet", "limitOpen", "settle", "rejectOrder"}
\* Steps of run() whose error rejects the job: a retryable failure.
Rejecting == {"claim", "find", "rearm", "reclaim", "kill", "killFail",
              "revertRead", "order", "mark", "wallet", "quote", "quoted",
              "bound", "limitFail", "gate", "kill2", "fresh", "submit",
              "reject", "failDead", "failWallet"}
WorkerPc == {"idle", "ack"} \cup Swallowing \cup Rejecting

FinPc     == {"read", "patch", "order", "setOrder", "audit"}
TickPc    == {"idle", "list", "next", "enqueue", "remove", "add"}
AdminPc   == {"idle", "queue", "list", "cancel"}
IdleTick  == [pc |-> "idle", todo |-> {}, slot |-> NoSlot, now |-> 0]
IdleAdmin == [pc |-> "idle", mode |-> "off", todo |-> {}]

Init ==
  /\ orders = [o \in Orders |-> "absent"]
  /\ creating = {}
  /\ execs = [s \in Slots |-> "none"]
  /\ refused = {}
  /\ jobs = [s \in Slots |-> "none"]
  /\ owner = [s \in Slots |-> NoWorker]
  /\ tries = [s \in Slots |-> 0]
  /\ queuePaused = FALSE
  /\ killMode = "off"
  /\ flips = 0
  /\ admin = [a \in Admins |-> IdleAdmin]
  /\ pc = [w \in Workers |-> "idle"]
  /\ cur = [w \in Workers |-> NoSlot]
  /\ seen = [w \in Workers |-> "off"]
  /\ fin = [s \in Slots |-> {}]
  /\ tick = [p \in Schedulers |-> IdleTick]
  /\ now = 0
  /\ faults = 0
  /\ submissions = [s \in Slots |-> 0]
  /\ stopped = {}

-----------------------------------------------------------------------------
(* Store operations.                                                        *)

\* OrderStore.setStatus: a terminal order refuses the write.
MutantSetStatus(o, status) == orders' = [orders EXCEPT ![o] = status]

SetStatus(o, status) ==
  orders' = [orders EXCEPT ![o] = IF @ \in LiveOrder THEN status ELSE @]

\* ExecutionStore.update: unconditional.
Update(s, status) == execs' = [execs EXCEPT ![s] = status]

\* ExecutionStore.reclaim: the records a continuation may take over.
CanReclaim(s) == execs[s] \in Resumable

\* DecisionAudit.append of a rejection.  Approvals are appended too: nothing here
\* depends on them.
MutantAppendRefusal(s) == UNCHANGED refused
AppendRefusal(s) == refused' = refused \cup {s}

\* A fault the environment injects, within its budget.
Fault(kind) ==
  /\ kind \in FaultKinds
  /\ faults < MaxFaults
  /\ faults' = faults + 1

-----------------------------------------------------------------------------
(* ExecuteOrderSlotUseCase.run, one action per awaited call.  Each of these  *)
(* changes at most orders, execs, refused, pc, seen and the history.          *)

Step(w, from, to) == pc[w] = from /\ pc' = [pc EXCEPT ![w] = to]

Reads == UNCHANGED <<orders, execs, refused, historyVars>>

\* claim: the unique-key insert wins the slot, or the record is looked up.
Claim(w) ==
  /\ UNCHANGED <<orders, refused, seen, historyVars>>
  /\ \/ /\ execs[cur[w]] = "none"
        /\ Step(w, "claim", "kill")
        /\ Update(cur[w], "claimed")
     \/ /\ execs[cur[w]] # "none"
        /\ Step(w, "claim", "find")
        /\ UNCHANGED execs

Find(w) ==
  /\ \/ execs[cur[w]] \in Unspent /\ Step(w, "find", "rearm")
     \/ execs[cur[w]] \in Spent /\ Step(w, "find", "ack")
     \/ execs[cur[w]] \notin Terminal /\ Step(w, "find", "reclaim")
  /\ Reads /\ UNCHANGED seen

\* Re-arm: an unconditional update from a record read one call earlier.
Rearm(w) ==
  /\ Step(w, "rearm", "kill")
  /\ Update(cur[w], "claimed")
  /\ UNCHANGED <<orders, refused, seen, historyVars>>

Reclaim(w) ==
  /\ UNCHANGED <<orders, refused, seen, historyVars>>
  /\ \/ /\ CanReclaim(cur[w])
        /\ Step(w, "reclaim", "kill")
        /\ Update(cur[w], "claimed")
     \/ /\ ~CanReclaim(cur[w])
        /\ Step(w, "reclaim", "ack")
        /\ UNCHANGED execs

\* The two reads of the kill switch: at claim time and after the gate.
MutantKillStops(w) == pc[w] = "kill" /\ killMode # "off"

KillStops(w) == killMode # "off"

ReadKill(w) ==
  /\ \/ KillStops(w) /\ (Step(w, "kill", "killFail") \/ Step(w, "kill2", "killFail"))
     \/ ~KillStops(w) /\ (Step(w, "kill", "order") \/ Step(w, "kill2", "fresh"))
  /\ seen' = [seen EXCEPT ![w] = killMode]
  /\ Reads

KillFail(w) ==
  /\ Step(w, "killFail", IF seen[w] = "cancel_active" THEN "killCancel"
                                                      ELSE "revertRead")
  /\ Update(cur[w], "failed_kill")
  /\ UNCHANGED <<orders, refused, seen, historyVars>>

KillCancel(w) ==
  /\ Step(w, "killCancel", "ack")
  /\ SetStatus(cur[w][1], "cancelled")
  /\ UNCHANGED <<execs, refused, seen, historyVars>>

\* revertTriggeredToOpen: read, then set.
MutantReverts(o) == FALSE
Reverts(o) == orders[o] = "triggered"

RevertRead(w) ==
  /\ Step(w, "revertRead", IF Reverts(cur[w][1]) THEN "revertSet" ELSE "ack")
  /\ Reads /\ UNCHANGED seen

RevertSet(w) ==
  /\ Step(w, "revertSet", "ack")
  /\ SetStatus(cur[w][1], "open")
  /\ UNCHANGED <<execs, refused, seen, historyVars>>

\* The order must be live, both before the quote and after the gate.
MutantMayRun(status) == status # "filled"
MayRun(status) == status \in LiveOrder

ReadOrder(w) ==
  /\ LET status == orders[cur[w][1]] IN
     \/ ~MayRun(status) /\ (Step(w, "order", "failDead") \/ Step(w, "fresh", "failDead"))
     \/ MayRun(status) /\ Step(w, "fresh", "submit")
     \/ MayRun(status) /\ Step(w, "order", IF status = "open" THEN "mark" ELSE "wallet")
  /\ Reads /\ UNCHANGED seen

\* setStatus('triggered') is not caught: on an order that meanwhile became
\* terminal it throws, which Throw models.
Mark(w) ==
  /\ orders[cur[w][1]] \in LiveOrder
  /\ Step(w, "mark", "wallet")
  /\ SetStatus(cur[w][1], "triggered")
  /\ UNCHANGED <<execs, refused, seen, historyVars>>

FindWallet(w) ==
  /\ Step(w, "wallet", IF cur[w][1] \in Walletless THEN "failWallet" ELSE "quote")
  /\ Reads /\ UNCHANGED seen

Quote(w) == Step(w, "quote", "quoted") /\ Reads /\ UNCHANGED seen

Quoted(w) ==
  /\ Step(w, "quoted", IF cur[w][1] \in Limit THEN "bound" ELSE "gate")
  /\ Update(cur[w], "quoted")
  /\ UNCHANGED <<orders, refused, seen, historyVars>>

CheckLimitBound(w) ==
  /\ Step(w, "bound", "gate") \/ Step(w, "bound", "limitFail")
  /\ Reads /\ UNCHANGED seen

LimitFail(w) ==
  /\ Step(w, "limitFail", "limitOpen")
  /\ Update(cur[w], "failed_limit")
  /\ UNCHANGED <<orders, refused, seen, historyVars>>

LimitOpen(w) ==
  /\ Step(w, "limitOpen", "ack")
  /\ SetStatus(cur[w][1], "open")
  /\ UNCHANGED <<execs, refused, seen, historyVars>>

\* EvaluateIntentUseCase decides and audits.  The history records an approval
\* given while the switch was on or the order terminal.
Gate(w) ==
  /\ \/ /\ Step(w, "gate", "kill2")
        /\ UNCHANGED refused
        /\ stopped' = IF killMode # "off" \/ orders[cur[w][1]] \in TerminalOrder
                        THEN stopped \cup {w} ELSE stopped \ {w}
     \/ /\ Step(w, "gate", "reject")
        /\ AppendRefusal(cur[w])
        /\ UNCHANGED stopped
  /\ UNCHANGED <<orders, execs, seen, submissions>>

Submit(w) ==
  /\ Step(w, "submit", "settle")
  /\ Update(cur[w], "submitted")
  /\ submissions' = [submissions EXCEPT ![cur[w]] = @ + 1]
  /\ UNCHANGED <<orders, refused, seen, stopped>>

\* H1: a DCA order goes back to 'open', a limit order is filled.
MutantFinalStatus(o) == "open"

FinalStatus(o) == IF o \in Dca THEN "open" ELSE "filled"

Settle(w) ==
  /\ Step(w, "settle", "ack")
  /\ SetStatus(cur[w][1], FinalStatus(cur[w][1]))
  /\ UNCHANGED <<execs, refused, seen, historyVars>>

Reject(w) ==
  /\ Step(w, "reject", "rejectOrder")
  /\ Update(cur[w], "gate_rejected")
  /\ UNCHANGED <<orders, refused, seen, historyVars>>

RejectOrder(w) ==
  /\ Step(w, "rejectOrder", "ack")
  /\ SetStatus(cur[w][1], "failed")
  /\ UNCHANGED <<execs, refused, seen, historyVars>>

\* fail(): only the execution is finalized.
Fail(w) ==
  /\ \/ Step(w, "failDead", "ack") /\ Update(cur[w], "failed_dead")
     \/ Step(w, "failWallet", "ack") /\ Update(cur[w], "failed_wallet")
  /\ UNCHANGED <<orders, refused, seen, historyVars>>

RunStep(w) ==
  /\ pc[w] # "idle"
  /\ \/ Claim(w) \/ Find(w) \/ Rearm(w) \/ Reclaim(w) \/ ReadKill(w)
     \/ KillFail(w) \/ KillCancel(w) \/ RevertRead(w) \/ RevertSet(w)
     \/ ReadOrder(w) \/ Mark(w) \/ FindWallet(w) \/ Quote(w) \/ Quoted(w)
     \/ CheckLimitBound(w) \/ LimitFail(w) \/ LimitOpen(w) \/ Gate(w)
     \/ Submit(w) \/ Settle(w) \/ Reject(w) \/ RejectOrder(w) \/ Fail(w)
  /\ UNCHANGED <<creating, jobVars, queuePaused, killVars, cur, fin, tick, now,
                 faults>>

-----------------------------------------------------------------------------
(* The execute queue: BullMQ, at-least-once.                                *)

\* The worker lets go of the slot; the job moves to outcome if the worker
\* still holds its lock.
Leave(w, outcome, attempts) ==
  LET s == cur[w] IN
  /\ pc' = [pc EXCEPT ![w] = "idle"]
  /\ cur' = [cur EXCEPT ![w] = NoSlot]
  /\ seen' = [seen EXCEPT ![w] = "off"]
  /\ stopped' = stopped \ {w}
  /\ IF owner[s] = w
       THEN /\ jobs' = [jobs EXCEPT ![s] = outcome]
            /\ owner' = [owner EXCEPT ![s] = NoWorker]
            /\ tries' = [tries EXCEPT ![s] = attempts]
       ELSE UNCHANGED jobVars

\* A waiting job is handed to an idle worker unless the queue is paused.
Take(w) ==
  /\ pc[w] = "idle" /\ ~queuePaused
  /\ \E s \in Slots :
       /\ jobs[s] = "waiting"
       /\ jobs' = [jobs EXCEPT ![s] = "active"]
       /\ owner' = [owner EXCEPT ![s] = w]
       /\ cur' = [cur EXCEPT ![w] = s]
  /\ pc' = [pc EXCEPT ![w] = "claim"]
  /\ UNCHANGED <<orders, creating, execs, refused, tries, queuePaused, killVars,
                 seen, fin, tick, now, faults, historyVars>>

\* run() returned, or threw duplicate_execution, which acks.
Ack(w) ==
  /\ pc[w] = "ack"
  /\ Leave(w, "completed", 0)
  /\ UNCHANGED <<orders, creating, execs, refused, queuePaused, killVars, fin,
                 tick, now, faults, submissions>>

\* run() threw: the queue retries the job until its attempts are used up, and
\* then the 'failed' event starts the finalizer.
\* What throws without a store failing: the aggregator, the price feeds and the
\* gate, and setStatus('triggered') on an order that became terminal.
Unavailable(w) ==
  \/ pc[w] \in {"quote", "bound", "gate"}
  \/ pc[w] = "mark" /\ orders[cur[w][1]] \notin LiveOrder

MutantExhausted(s) == tries[s] + 1 > MaxAttempts
Exhausted(s) == tries[s] + 1 >= MaxAttempts

Throw(w) ==
  LET s == cur[w] IN
  /\ \/ Unavailable(w) /\ UNCHANGED faults
     \/ pc[w] \in Rejecting /\ Fault("store")
  /\ IF Exhausted(s) THEN Leave(w, "failed", 0)
                     ELSE Leave(w, "waiting", tries[s] + 1)
  /\ fin' = IF owner[s] = w /\ Exhausted(s)
              THEN [fin EXCEPT ![s] = @ \cup {"read"}] ELSE fin
  /\ UNCHANGED <<orders, creating, execs, refused, queuePaused, killVars, tick,
                 now, submissions>>

\* A caught store error: the write of the order is lost.
Swallow(w) ==
  /\ pc[w] \in Swallowing
  /\ Fault("store")
  /\ pc' = [pc EXCEPT ![w] = "ack"]
  /\ UNCHANGED <<orders, creating, execs, refused, jobVars, queuePaused, killVars,
                 cur, seen, fin, tick, now, historyVars>>

\* The process of the worker dies and restarts; its job stays locked.
CrashWorker(w) ==
  /\ pc[w] # "idle"
  /\ Fault("crash")
  /\ pc' = [pc EXCEPT ![w] = "idle"]
  /\ cur' = [cur EXCEPT ![w] = NoSlot]
  /\ seen' = [seen EXCEPT ![w] = "off"]
  /\ stopped' = stopped \ {w}
  /\ UNCHANGED <<orders, creating, execs, refused, jobVars, queuePaused, killVars,
                 fin, tick, now, submissions>>

\* The lock of a job expired and the job is delivered again: because its worker
\* died, or because a worker that still runs it could not renew the lock.
Redeliver(s) ==
  /\ jobs[s] = "active"
  /\ IF \E w \in Workers : owner[s] = w /\ cur[w] = s
       THEN Fault("lock_loss") ELSE UNCHANGED faults
  /\ jobs' = [jobs EXCEPT ![s] = "waiting"]
  /\ owner' = [owner EXCEPT ![s] = NoWorker]
  /\ UNCHANGED <<orders, creating, execs, refused, tries, queuePaused, killVars,
                 workerVars, fin, tick, now, historyVars>>

-----------------------------------------------------------------------------
(* FinalizeFailedExecutionUseCase, fired without being awaited.  fin[s] is   *)
(* the set of steps at which finalizers of s are: two at one step are one.  *)

FinStep(s, from, to) ==
  /\ from \in fin[s]
  /\ fin' = [fin EXCEPT ![s] = (@ \ {from}) \cup to]
  /\ UNCHANGED <<creating, jobVars, queuePaused, killVars, workerVars, tick, now,
                 faults, historyVars>>

\* The records the finalizer patches.
MutantPatchable == {"claimed"}
Patchable == Resumable

FinRead(s) ==
  /\ FinStep(s, "read", {IF execs[s] \in Patchable THEN "patch" ELSE "order"})
  /\ UNCHANGED <<orders, execs, refused>>

FinPatch(s) ==
  /\ FinStep(s, "patch", {"order"})
  /\ Update(s, "failed_retry")
  /\ UNCHANGED <<orders, refused>>

FinOrder(s) ==
  /\ FinStep(s, "order", {IF orders[s[1]] \in LiveOrder THEN "setOrder" ELSE "audit"})
  /\ UNCHANGED <<orders, execs, refused>>

FinSetOrder(s) ==
  /\ FinStep(s, "setOrder", {"audit"})
  /\ SetStatus(s[1], "failed")
  /\ UNCHANGED <<execs, refused>>

FinAudit(s) ==
  /\ FinStep(s, "audit", {})
  /\ AppendRefusal(s)
  /\ UNCHANGED <<orders, execs>>

Finalize(s) ==
  FinRead(s) \/ FinPatch(s) \/ FinOrder(s) \/ FinSetOrder(s) \/ FinAudit(s)

\* A finalizer whose store call fails is only logged; one whose process dies
\* is gone: nothing starts it again.
LoseFinalizer(s) ==
  /\ fin[s] # {}
  /\ \E step \in fin[s] : fin' = [fin EXCEPT ![s] = @ \ {step}]
  /\ Fault("store") \/ Fault("crash")
  /\ UNCHANGED <<orders, creating, execs, refused, jobVars, queuePaused, killVars,
                 workerVars, tick, now, historyVars>>

-----------------------------------------------------------------------------
(* SchedulerTickUseCase: the ticking flag is pc # "idle".                   *)

\* The slot of the order at time n: 'once', or the DCA slot of the clock.
SlotOf(o, n) == IF o \in Dca THEN <<o, n>> ELSE <<o, 0>>

TickStep(p, from, to) == tick[p].pc = from /\ tick' = [tick EXCEPT ![p] = to]

TickFrame == UNCHANGED <<orders, creating, execs, refused, owner, queuePaused,
                         killVars, workerVars, fin, now, faults, historyVars>>

\* Kill switch active: the tick is a no-op.
TickStart(p) ==
  /\ killMode = "off"
  /\ TickStep(p, "idle", [IdleTick EXCEPT !.pc = "list", !.now = now])
  /\ TickFrame /\ UNCHANGED <<jobs, tries>>

TickList(p) ==
  /\ TickStep(p, "list", [tick[p] EXCEPT !.pc = "next",
                            !.todo = {o \in Orders : orders[o] = "open"}])
  /\ TickFrame /\ UNCHANGED <<jobs, tries>>

\* tickDca enqueues a slot that has no record; tickLimit one whose trigger
\* fired and whose one-shot no record has spent.
Due(s) == execs[s] = "none" \/ (s[1] \in Limit /\ execs[s] \in Unspent)

TickOrder(p) ==
  /\ \E o \in tick[p].todo :
       LET s == SlotOf(o, tick[p].now)
           rest == [tick[p] EXCEPT !.todo = @ \ {o}]
       IN \/ Due(s) /\ TickStep(p, "next", [rest EXCEPT !.pc = "enqueue", !.slot = s])
          \/ (~Due(s) \/ o \in Limit) /\ TickStep(p, "next", rest)
  /\ TickFrame /\ UNCHANGED <<jobs, tries>>

\* enqueueExecution: look the job up, remove a finished one, add.
TickEnqueue(p) ==
  /\ tick[p].pc = "enqueue"
  /\ LET job == jobs[tick[p].slot]
         to(label) == [tick[p] EXCEPT !.pc = label]
     IN \/ job \in {"waiting", "active"} /\ TickStep(p, "enqueue", to("next"))
        \/ job \in {"completed", "failed"} /\ TickStep(p, "enqueue", to("remove"))
        \/ job = "none" /\ TickStep(p, "enqueue", to("add"))
  /\ TickFrame /\ UNCHANGED <<jobs, tries>>

\* Removing a job that became active again throws, which aborts the tick.
TickRemove(p) ==
  /\ tick[p].pc = "remove"
  /\ IF jobs[tick[p].slot] = "active"
       THEN TickStep(p, "remove", IdleTick) /\ UNCHANGED jobs
       ELSE /\ TickStep(p, "remove", [tick[p] EXCEPT !.pc = "add"])
            /\ jobs' = [jobs EXCEPT ![tick[p].slot] = "none"]
  /\ TickFrame /\ UNCHANGED tries

\* An add under an id the queue knows is a no-op.
MutantAdds(s) == TRUE
Adds(s) == jobs[s] = "none"

TickAdd(p) ==
  /\ TickStep(p, "add", [tick[p] EXCEPT !.pc = "next", !.slot = NoSlot])
  /\ IF Adds(tick[p].slot)
       THEN /\ jobs' = [jobs EXCEPT ![tick[p].slot] = "waiting"]
            /\ tries' = [tries EXCEPT ![tick[p].slot] = 0]
       ELSE UNCHANGED <<jobs, tries>>
  /\ TickFrame

TickEnd(p) ==
  /\ tick[p].todo = {}
  /\ TickStep(p, "next", IdleTick)
  /\ TickFrame /\ UNCHANGED <<jobs, tries>>

Tick(p) == \/ TickStart(p) \/ TickList(p) \/ TickOrder(p) \/ TickEnqueue(p)
           \/ TickRemove(p) \/ TickAdd(p) \/ TickEnd(p)

\* A tick that throws or whose process dies leaves the rest of its orders to
\* the next one.
AbortTick(p) ==
  /\ tick[p].pc # "idle"
  /\ tick' = [tick EXCEPT ![p] = IdleTick]
  /\ Fault("store") \/ Fault("crash")
  /\ UNCHANGED <<orders, creating, execs, refused, jobVars, queuePaused, killVars,
                 workerVars, fin, now, historyVars>>

-----------------------------------------------------------------------------
(* The kill switch: SetKillSwitchUseCase and the controller's fan-out.      *)

AdminStep(a, from, to) == admin[a].pc = from /\ admin' = [admin EXCEPT ![a] = to]

AdminFrame == UNCHANGED <<creating, execs, refused, jobVars, workerVars, fin, tick,
                          now, submissions>>

SetMode(a) ==
  /\ flips < MaxFlips /\ flips' = flips + 1
  /\ \E mode \in KillModes :
       /\ AdminStep(a, "idle", [IdleAdmin EXCEPT !.pc = "queue", !.mode = mode])
       /\ killMode' = mode
       /\ stopped' = IF mode = "off"
                       THEN {w \in stopped : orders[cur[w][1]] \in TerminalOrder}
                       ELSE stopped
  /\ AdminFrame /\ UNCHANGED <<orders, queuePaused, faults>>

\* Pause or resume the queue; cancel_active also fires the fan-out.
Pauses(mode) == mode # "off"

ToggleQueue(a) ==
  /\ AdminStep(a, "queue", IF admin[a].mode = "cancel_active"
                             THEN [admin[a] EXCEPT !.pc = "list"] ELSE IdleAdmin)
  /\ queuePaused' = Pauses(admin[a].mode)
  /\ AdminFrame /\ UNCHANGED <<orders, killMode, flips, faults, stopped>>

FanOutList(a) ==
  /\ AdminStep(a, "list", [admin[a] EXCEPT !.pc = "cancel",
                             !.todo = {o \in Orders : orders[o] = "open"}])
  /\ AdminFrame /\ UNCHANGED <<orders, queuePaused, killMode, flips, faults, stopped>>

\* One order at a time; an error is logged and the loop goes on.
FanOutCancel(a) ==
  /\ \E o \in admin[a].todo :
       /\ AdminStep(a, "cancel", [admin[a] EXCEPT !.todo = @ \ {o}])
       /\ \/ SetStatus(o, "cancelled") /\ UNCHANGED faults
          \/ Fault("store") /\ UNCHANGED orders
  /\ AdminFrame /\ UNCHANGED <<queuePaused, killMode, flips, stopped>>

FanOutEnd(a) ==
  /\ admin[a].todo = {}
  /\ AdminStep(a, "cancel", IdleAdmin)
  /\ AdminFrame /\ UNCHANGED <<orders, queuePaused, killMode, flips, faults, stopped>>

Administer(a) ==
  ToggleQueue(a) \/ FanOutList(a) \/ FanOutCancel(a) \/ FanOutEnd(a)

\* The request fails after the mode was set, or its process dies.
AbortAdmin(a) ==
  /\ admin[a].pc # "idle"
  /\ admin' = [admin EXCEPT ![a] = IdleAdmin]
  /\ Fault("store") \/ Fault("crash")
  /\ AdminFrame /\ UNCHANGED <<orders, queuePaused, killMode, flips, stopped>>

-----------------------------------------------------------------------------
(* HTTP operations on orders, and time.                                     *)

UserFrame == UNCHANGED <<execs, refused, jobVars, queuePaused, killVars, workerVars,
                         fin, tick, faults, historyVars>>

MoreOrders == Cardinality(creating \cup {x \in Orders : orders[x] # "absent"}) < MaxOrders

\* CreateOrderUseCase: the kill switch is read, then the order saved as open.
CheckCreate(o) ==
  /\ orders[o] = "absent" /\ o \notin creating
  /\ MoreOrders
  /\ killMode = "off"
  /\ creating' = creating \cup {o}
  /\ UserFrame /\ UNCHANGED <<orders, now>>

Create(o) ==
  /\ o \in creating
  /\ creating' = creating \ {o}
  /\ orders' = [orders EXCEPT ![o] = "open"]
  /\ UserFrame /\ UNCHANGED now

\* CancelOrderUseCase: its read only refuses what setStatus refuses too.
Cancel(o) ==
  /\ orders[o] \in LiveOrder
  /\ SetStatus(o, "cancelled")
  /\ UserFrame /\ UNCHANGED <<creating, now>>

Advance ==
  /\ now < MaxSlot
  /\ now' = now + 1
  /\ UserFrame /\ UNCHANGED <<orders, creating>>

-----------------------------------------------------------------------------
Work(w) == RunStep(w) \/ Take(w) \/ Ack(w) \/ Throw(w)

Next ==
  \/ \E w \in Workers : Work(w) \/ Swallow(w) \/ CrashWorker(w)
  \/ \E s \in Slots : Redeliver(s) \/ Finalize(s) \/ LoseFinalizer(s)
  \/ \E p \in Schedulers : Tick(p) \/ AbortTick(p)
  \/ \E a \in Admins : SetMode(a) \/ Administer(a) \/ AbortAdmin(a)
  \/ \E o \in Orders : CheckCreate(o) \/ Create(o) \/ Cancel(o)
  \/ Advance

Spec == Init /\ [][Next]_vars

\* The processes that run keep running: each worker, finalizer, kill-switch
\* request and timer tick takes its next step, and an expired lock is noticed.
\* Nothing obliges a user, an administrator, the clock or a fault.
Fairness ==
  /\ \A w \in Workers : WF_vars(Work(w))
  /\ \A s \in Slots : WF_vars(Finalize(s)) /\ WF_vars(Redeliver(s) /\ UNCHANGED faults)
  /\ \A p \in Schedulers : WF_vars(Tick(p))
  /\ \A a \in Admins : WF_vars(Administer(a))

FairSpec == Spec /\ Fairness

-----------------------------------------------------------------------------
(* Properties.                                                              *)

StoresTypeOK ==
  /\ orders \in [Orders -> OrderStatus]
  /\ creating \subseteq Orders
  /\ execs \in [Slots -> ExecStatus]
  /\ refused \subseteq Slots

QueueTypeOK ==
  /\ jobs \in [Slots -> JobState]
  /\ owner \in [Slots -> Workers \cup {NoWorker}]
  /\ tries \in [Slots -> 0 .. (MaxAttempts - 1)]
  /\ queuePaused \in BOOLEAN

KillTypeOK ==
  /\ killMode \in KillModes
  /\ flips \in 0 .. MaxFlips
  /\ admin \in [Admins -> [pc : AdminPc, mode : KillModes, todo : SUBSET Orders]]

WorkersTypeOK ==
  /\ pc \in [Workers -> WorkerPc]
  /\ cur \in [Workers -> Slots \cup {NoSlot}]
  /\ \A w \in Workers : pc[w] = "idle" <=> cur[w] = NoSlot
  /\ seen \in [Workers -> KillModes]
  /\ stopped \subseteq Workers

TicksTypeOK ==
  /\ tick \in [Schedulers -> [pc : TickPc, todo : SUBSET Orders,
                              slot : Slots \cup {NoSlot}, now : 0 .. MaxSlot]]
  /\ \A p \in Schedulers :
       tick[p].pc \in {"enqueue", "remove", "add"} => tick[p].slot \in Slots
  /\ now \in 0 .. MaxSlot

\* Every variable ranges over the values its store or actor can hold, a worker
\* runs a slot exactly when it is not idle, and a tick that enqueues has one.
TypeOK ==
  /\ StoresTypeOK /\ QueueTypeOK /\ KillTypeOK /\ WorkersTypeOK /\ TicksTypeOK
  /\ fin \in [Slots -> SUBSET FinPc]
  /\ faults \in 0 .. MaxFaults
  /\ submissions \in [Slots -> Nat]

\* No worker has lost the lock of a job it still runs: the runs that inject
\* lock loss inject no other fault.
LocksKept == "lock_loss" \notin FaultKinds \/ faults = 0

\* While no lock is lost, two workers never run the same slot at the same time:
\* what the reclaim compare-and-set is said to ensure (OW-2).
SlotExclusive ==
  LocksKept => \A v, w \in Workers : cur[v] = cur[w] /\ cur[v] # NoSlot => v = w

\* While no lock is lost, a slot is recorded 'submitted' at most once, whatever
\* is redelivered, retried, re-armed or enqueued again: the exactly-once anchor
\* of the claim.
AtMostOneSubmission == LocksKept => \A s \in Slots : submissions[s] <= 1

\* The records a worker writes to end a slot for good.
Concluded == Spent \ {"failed_retry"}

\* While no lock is lost, what a worker wrote to end a slot is never written over by
\* another run of it, though the writes of run() have no condition and the re-arm
\* follows a read made one call earlier.  Only the finalizer may, as the claim
\* FinalizerSparesTerminal below denies.
EndedSlotStands ==
  [][LocksKept' =>
       \A s \in Slots : execs[s] \in Concluded /\ execs'[s] # execs[s] =>
                         execs'[s] = "failed_retry" /\ "patch" \in fin[s]]_vars

\* An approval that came while the kill switch was on, or after the order was
\* cancelled, is never recorded as a submission unless the switch was lifted
\* in between (OW-1).
StopWins == \A w \in Workers : pc[w] = "submit" => w \notin stopped

SlotsOf(o) == {s \in Slots : s[1] = o}

\* A tick has taken the job of the slot out of the queue, to add it afresh.
ReAdding(s) == jobs[s] = "none" /\ \E p \in Schedulers : tick[p].pc = "add" /\ tick[p].slot = s

\* Something will still run for the order.
Attended(o) ==
  \E s \in SlotsOf(o) : jobs[s] \in {"waiting", "active"} \/ ReAdding(s) \/ fin[s] # {}

\* No order is left in a state nothing leads out of: 'triggered', which the
\* scheduler does not scan, or 'open' with its one-shot spent (D2).  Orders
\* without a wallet are the known exception.
NoDormantOrder ==
  \A o \in Orders \ Walletless :
    \/ Attended(o)
    \/ orders[o] # "triggered" /\ ~(orders[o] = "open" /\ o \in Limit
                                    /\ execs[<<o, 0>>] \in Spent)

\* A limit order is filled by exactly one submission, and a limit order that is
\* still live has none, unless the worker that made it is about to settle it.
FilledBySubmission ==
  \A o \in Limit :
    /\ orders[o] = "filled" => submissions[<<o, 0>>] = 1
    /\ orders[o] \in LiveOrder /\ submissions[<<o, 0>>] > 0 => Attended(o)

\* An order that automation failed has the decision that failed it in the audit
\* of one of its slots, or a finalizer is about to append it.
FailedOrderExplained ==
  \A o \in Orders : orders[o] = "failed" =>
    \E s \in SlotsOf(o) :
      s \in refused \/ "audit" \in fin[s]

\* Between kill-switch requests the queue is paused exactly when the switch is
\* on.
QueueFollowsSwitch ==
  (\A a \in Admins : admin[a].pc # "queue") => (queuePaused <=> killMode # "off")

\* The order and its submissions follow the life cycle automation promises: see
\* OrderLifecycle.
Lifecycle == INSTANCE OrderLifecycle
               WITH OneShot <- Limit, Recurring <- Dca, status <- orders
OrdersFollowLifecycle == Lifecycle!Spec

\* A claimed slot reaches a terminal record, if the queue does not stay paused.
SlotSettles ==
  <>[](~queuePaused) => \A s \in Slots : execs[s] \in Resumable ~> execs[s] \in Terminal

\* A triggered order is opened again or ends, if the queue does not stay paused.
TriggeredMovesOn ==
  <>[](~queuePaused) =>
    \A o \in Orders \ Walletless : orders[o] = "triggered" ~> orders[o] # "triggered"

-----------------------------------------------------------------------------
(* Claims of comments that the interleavings or faults below them refute.    *)

\* A terminal record is never overwritten by the finalizer
\* (finalize-failed-execution.usecase.ts:41-42).
FinalizerSparesTerminal ==
  [][\A s \in Slots :
       execs[s] \in Terminal /\ execs'[s] = "failed_retry" => execs[s] = "failed_retry"]_vars

\* A DCA order whose slots so far succeeded returns to 'open'
\* (execute-order-slot.usecase.ts:75-76): in 'triggered' it has a job to come.
DcaReturnsToOpen ==
  \A o \in Dca :
    orders[o] = "triggered" /\ (\A s \in SlotsOf(o) : execs[s] \in {"none", "submitted"})
      => Attended(o)
=============================================================================
