# Kryptr: specifications and proofs

TLA+ specifications of the parts of Kryptr where the order of events decides
whether the system is right: the order worker and its kill switch, the security
gate with its spend ledger, the launch contracts, the stores and caches around
them, and the screens of the trading front end. TLC checks each on small
instances; TLAPS proves what matters most for every value of the constants.
Paths below are relative to the root of the repository.

| Modules | What they are |
| --- | --- |
| `OrderWorker`, `OrderLifecycle`, `MCOrderWorker`, `OrderWorkerProofs`, `OrderLifecycleProofs` | orders, scheduler, queue, workers, finalizer, kill switch; the order's life cycle as its abstract specification |
| `SecurityGate`, `SpendLedger`, `MCSecurityGate`, `SecurityGateProofs` | evaluations of intents, the locked spend ledger, quotes, sign requests; the ledger port as its abstract specification |
| `TokenFactory`, `LaunchLedger`, `MCTokenFactory`, `TokenFactoryProofs` | the factory, its tokens and the bond sink that calls back; whole launches as its abstract specification |
| `ScreenRequests`, `LatestAnswer` | the composables that fetch for a part of the screen; abstractly, a part shows the answer to its last question |
| `LaunchConsent` | the consent screen of a token launch: draft, artifact, chip, consent |
| `KillSwitchRow`, `AuditedSwitch`, `SigningStores`, `WalletPolicies`, `LaunchRecords` | over both stores: the kill-switch row and its audit, with the switch they implement; the sign requests, their two writers and both bindings; the creation of a wallet and of its policy; the launch records |
| `KeyedMutex`, `PriceFeed`, `OrderTriggers`, `VerificationReads`, `MicroUsd` | in one process: the promise-chain mutex of the execution worker, the price cache, what makes an order due, the budget of the verification endpoint, decimal amounts to micro-USD and back |
| `PartsProofs`, `RowProofs`, `ProcessProofs` | the proofs about the last four rows: of the first two and of all together, of the third, of the fourth |
| `SumProofs` | sums over finite sets and induction over numbers, for `TokenFactoryProofs` and `ProcessProofs` |
| `MCParts` | the modules of those four rows, for one run |

To check: `tlc -config order_workers.cfg MCOrderWorker` (each `.cfg` names its
run; the table of runs gives its module) and `tlapm OrderWorkerProofs.tla`.

## 1. Inventory

### Order worker (`apps/api/src/order-worker`)

*State.* The order store (`order-store.port.ts`, in memory and Postgres), the
execution store keyed by (order, slot), the BullMQ queue `execute` in Redis with
one job id per (order, slot), the kill-switch row and its audit, and the decision
audit of the gate. In memory: a worker's local variables across its awaits, the
`ticking` flag of the trigger timer, the per-process `KeyedMutex`.

*Operations.* Create, list and cancel an order; `SchedulerTickUseCase` scans open
orders and enqueues due slots; `ExecuteOrderSlotUseCase` claims a slot, reads the
switch, marks the order, quotes, passes the gate, reads the switch and the order
again, records the submission (dry run) and settles the order;
`FinalizeFailedExecutionUseCase` runs when a job has used up its attempts;
`SetKillSwitchUseCase` writes the mode, pauses or resumes the queue, and on
`cancel_active` cancels open orders one by one.

*Hard behaviours.* Every store, queue and gate call is an await at which any other
actor may move. Delivery is at least once: a job comes back after a crash, a lost
lock or a retryable error, to a record that is claimed, quoted or terminal. Two API
processes tick over the same orders. Some errors are swallowed and others retried.
The kill switch is two writes to two systems. The finalizer is fired and not awaited.

*Correct when.* A slot is submitted at most once; a stop that came before the
approval wins; an order follows its life cycle and never comes back from its end;
nothing is left in a state that nothing leads out of; what automation failed is
explained in the audit; the queue is paused exactly when the switch is on.

### Security gate, spend ledger and signing (`apps/api/src/security`, `signing`)

*State.* The intent store, the policy of each wallet, the spend rows per (wallet,
UTC day, intent), the decision audit, `sign_requests`.

*Operations.* `EvaluateIntentUseCase`: save the intent, the automation firewall,
policy, payload, origin and chain, the deploy preconditions or the swap context, the
price, `reserveSpend`, `bind` for a swap, append the decision.
`CreateTransferUseCase` stores an intent. `RequestSignatureUseCase` reads the
intent, its latest decision, builds the preview and stores one sign request per
intent; `SigningService` is a second writer of the same table. Prices come through
a cache with a time to live. Reads: queues, timelines and an event stream over the
same stores.

*Hard behaviours.* Evaluations of one wallet race on the day's total, those of two
intents on one quote; the transaction may commit while its caller dies; midnight
falls between the calls; an intent may be evaluated again; the sign request reads
four stores in four calls.

*Correct when.* The cap of a day is never exceeded; what the audit calls approved has
consumed it; a quote serves one intent; nothing is prepared for signing that was not
approved, and a swap only from its own quote.

### Quotes and trading, wallets (`trading`, `wallet`, `chain`)

Quotes are kept by id with an expiry and a conditional single-use binding; a wallet is
looked up, saved and its policy provisioned in three calls, over stores that in memory
and on Postgres take different keys for it. Correct when whoever is told of a wallet
finds it and its policy. The aggregator and chain adapters are I/O and keep no state;
a trigger price is a quotient of two feeds beside a hint from the price cache, and
correct when neither source alone makes an order trade.

### Launchpad (`launchpad`) and contracts (`contracts/src`)

The API keeps launch and deploy records with conditional transitions, correct when no
step is skipped or credited to two operators, and an in-memory fixed-window rate limit
for reads of verification artifacts, correct when no client is refused its budget. On chain, `KryptrTokenFactory`
keeps the bond ledger and clones `KryptrLaunchTokenTemplate` at an address fixed by
deployer and parameters; it pays the bond to a sink in the same transaction. The
sink may be a contract that calls back before it returns or reverts. Correct when
ledger, clone and payment of a deployment stand or fall together, once per salt, and
tokens are conserved.

### Front office and back office (`apps/frontoffice`, `apps/backoffice`)

Composables hold the state of one screen and race requests against each other: a
sequence number decides which answer counts (`useQuote`, `useOrders`,
`useOrderExecutions`, `useWorkerHealth`, `useCreateOrder`, `useLaunchConsent`), or each
is taken as it comes (`useBalances`, `useWallets`, `useSignRequest`). The back office
polls a list under an abort signal (`useOrdersPolling`). Correct when the answer of a
superseded request never shows, loading ends, and a consent is for the draft on screen
and earned by its own artifact. Pages and components are presentation.

### How they meet

The scheduler reads orders and the switch and writes jobs. A worker reads jobs,
orders, the switch and wallets, asks trading for a quote and the gate for a decision,
and writes executions and orders. The gate writes the ledger, the binding of the
quote and the audit; the finalizer writes the same audit. Signing reads what the gate
left. Users and administrators enter through HTTP. All of them are processes that
share stores and call each other only through those stores and the queue.

`PROJECT.json` lists every component with its files and how far it is modelled, and
under `hazards` each place that is hard to test, with the properties that watch it.

## 2. The modules and the code

One action is the code between two awaits: whatever else happens, happens there. A
contract call is one action up to where it hands control to other code.

### OrderWorker

| Variable | In the code |
| --- | --- |
| `orders`, `execs` | order and execution stores; a failed record carries as much of its detail as `oneShotUnspent` reads |
| `refused` | slots with a rejection in the decision audit |
| `jobs`, `owner`, `tries`, `queuePaused` | the job of each slot, the lock on it, its failed attempts, the queue's pause |
| `killMode`, `admin` | the kill-switch row; each request between its two writes and during the fan-out |
| `pc`, `cur`, `seen` | a worker's place in `run()`, its slot, the mode it read last |
| `fin`, `tick` | finalizers and scheduler ticks, at their place |
| `creating` | orders between the switch check and the save |
| `now`, `flips`, `faults` | the DCA clock; bounds |
| `submissions`, `stopped` | history only: no guard reads them |

`Claim` to `Fail` are the awaited calls of `ExecuteOrderSlotUseCase.run` in their order.
`Take`, `Ack`, `Throw` and `Redeliver` are the queue; `Swallow` is an error the code
catches; `CrashWorker`, `LoseFinalizer`, `AbortTick` and `AbortAdmin` are failures of
the other actors. Trigger conditions, prices, quotes and the gate's answer are
choices. The clock moves from slot to slot. A worker has concurrency one, so the
mutex of its process never has a second caller and is left out.

The queue itself is external and modelled from how the adapter uses it: a job under
an id that exists is not added again, one worker holds its lock, a job whose lock
expired is delivered again, a failed one until its attempts are used up. BullMQ's limit
on how often a job may stall (`maxStalledCount`) is not modelled: the runs inject one
fault at most, which is within its default.

### OrderLifecycle

What `OrderStatus` and the contract freeze promise of one order: open and triggered
alternate, it ends once and in one of three ways, a slot is submitted at most once, a
limit order is filled exactly after its submission and never opened again, a DCA
order is never filled. `OrdersFollowLifecycle` is the refinement, under the mapping
`status <- orders`, with the history `submissions` itself.

### SecurityGate

One wallet, any number of concurrent evaluations (`job`) and sign requests (`sign`).
`Receive` to `Audit` are the awaited calls of an evaluation; `Lock`, `CheckTotal` and
`Reserve` are the statements of the transaction in `PostgresSpendLedger.reserveSpend`,
and `lock` its advisory lock per day. The row it writes shows to others at its commit.
`Abort` is a failure at any call: an open transaction is rolled back, or committed
with no one left to hear of it. `Provision` may never come, which leaves a wallet
that rejects everything. Payload, origin, chain, deploy and swap-context verdicts and
prices are choices, as is the margin the gate keeps before a quote expires: a quote
that still lives may be rejected. Values are positive: one that rounds to zero micros
would be a row that looks like no row. `reserved` and `claims` are history.

### SpendLedger

The port (`security/application/ports.ts`): a reservation is one atomic
compare-and-record. The in-memory ledger is this specification; `LedgerIsAtomic` says
the locked transaction implements it.

### TokenFactory

`world` is the storage of all contracts with what the factory holds and has paid out.
`Deploy` is `deployToken` up to the call of the sink, `SinkReturns` and `SinkFails` the
rest; in between, the contracts the sink leads to call anything, deploy again
included. `stack` keeps the world at the entry of each open deployment, as the machine
does, and `SinkFails` brings it back. `Initialize`, `Transfer`, `Approve` and
`TransferFrom` are the template's functions; `CloneElsewhere` is a clone made by someone
else, which anybody may initialize. Arithmetic is checked, as the compiler makes it,
against a width `Word`. A call that reverts changes nothing and is no step. The salt leaves
the fee shares out, as `deploySalt` does, so that two parameter sets compete for one
address. Hashes do not collide, names are their lengths, events are left out. Ether
forced into the factory by other means is not counted.

### LaunchLedger

What the chain shows between transactions: tokens get their terms once, the fees of
launched ones add up to the rate, one bond for each, none for what reverted, and the
template is never a token. `LaunchesAreAtomic` maps it to the committed world, the one
at the bottom of the stack.

### ScreenRequests, LatestAnswer

One part of a screen: `part` says which of eight composables it is. `Ask`, `Answer` and
`Drop` are what they share (a refresh up to its await, what follows the await, a reset);
each composable has its own actions made of them, with what it keeps on screen while it
asks. `seq` is `requestSeq`; the composables without one (`useBalances`, `useWallets`,
`useSignRequest`) take every answer. `Leave` is the disposal of the scope, which does
not invalidate in `useQuote`. An order of a type that is not supported is refused before
anything is sent (`RefuseOrder`). `LatestAnswer` is what a part with a sequence number
promises.

### LaunchConsent

`useLaunchConsent` with its two awaits, `DraftAnswered` and `ArtifactAnswered`, each
behind `if (seq !== requestSeq) return`. A draft is known by the refresh that fetched it;
whether an artifact matches is a choice. `mockMode`, which decides where a consent goes,
is set apart from the draft, as in the code. `checked` and `sent` are history. The button
is disabled while submitting, so a second consent waits for the first.

### KeyedMutex

A section is a call of `runExclusive`: `prev` is the tail it found, `Start` its turn,
`Settle` the end of its function, `Cleanup` the callback that drops the entry of the key.
Callbacks of different sections run in any order.

### KillSwitchRow

`PostgresKillSwitch.setMode`, one action per statement of its transaction. The database is
read committed: `findUnique` sees the last commit and locks nothing, `create` and `update`
hold the row until the end, and the numbers of the audit are a sequence that a rollback
does not give back. `getState` makes the row when there is none. OrderWorker takes the
change of the mode as one step, which this module justifies for the row and its audit; the
call to the queue after it stays a step of its own there.

`AuditedSwitch` says what makes that one step: the mode, its version and an audit entry that
comes after all others change together, as in `InMemoryKillSwitch`. `SwitchIsAudited` is the
refinement, under the mapping `mode, version <- InForce`, the committed row or the one
`getState` makes, and `journal <- Entries`. An entry's `from` is left out on both sides: two
transactions that cross read the same row and record the same one, which the in-memory switch
cannot.

### LaunchRecords, VerificationReads

`durable` chooses the store. In memory a transition is one step; on Postgres `Update` is the
conditional `UPDATE` and `ReadBack` the read of what it answers, between which another
operator may move the record. `trail` and `credits` are history. `VerificationReads` is the
fixed window shared by all clients, with a clock that may stand still.

### SigningStores

`persistent` chooses the bindings of signer and store. `RequestSign` is the call of the
sign use case, which SecurityGate has with its checks; `Prepare` and `Store` are the two
calls of `SigningService`. `Asked` is the call of the signer and `Answers` whether it returns.
`PostgresSigner` calls `$queryRawArray` (`postgres-signer.ts:38`), which the generated client
does not declare: without it (`rawQuery` false) every call throws before its insert. With it
the first call of an intent stores its row and then throws, since `RETURNING *` gives the
columns of the table and `mapEntity` reads `createdAt` (`:114`); a later call meets the conflict
and is answered from the row of that first one. So on Postgres nobody gets the answer to the
first request, though `postgres-signer.integration.spec.ts:31-50` expects one (it runs against a
database only), and `SigningService` never binds an intent, which `ServiceNeverBinds` proves:
its signer has thrown, or has made the very row the service then finds.

### WalletPolicies

`FindByAddress`, `Save` and `Provision` are the calls of `CreateWalletUseCase`;
`onPostgres` chooses the stores. An id is a pair of owner and address in memory and what
`walletIdFor` makes of it; on Postgres a wallet is stored under its address, an id without
an owner, and `Accepts` is the foreign key of the policies. SecurityGate models one wallet
whose policy is there or not yet; that on Postgres it never comes by this use case, and has
to be inserted otherwise, is `unknown_wallets`.

### PriceFeed, OrderTriggers, MicroUsd

`PriceFeed` is `CoingeckoPriceFeed` for a mapped asset with a key: readers fetch side by
side, and each stores its answer under the time of its arrival. `Health` is `health()`.
`OrderTriggers` takes a limit order through a tick and its job: the tick's clock, the print
(both feeds are read in one `Promise.all`, here one step), the hint, the judgement, and the
second print and clock of the execution; for a DCA order it has the slot of a time on a
skewed clock. Prices are integers and quotients are compared without rounding.
`MicroUsd` has the two conversions digit by digit; the digits of the unit and of a text are
parameters, 6 and 12 in the code, 2 and 4 in the run, any in the proof.

### MCParts

These parts share no state, and a product of them would only multiply. `focus` names the
part a behaviour is about; the others stay in one initial state. The module extends all of
them, which is why their initial states, steps and types carry the name of the part
(`ScreenInit`, `ConsentNext`, `MutexTypeOK`), and the run checks the invariants of all.

## 3. Runs

| Run | Module | Instance | Shows |
| --- | --- | --- | --- |
| `order_workers` | MCOrderWorker | one of two limit orders (one without a wallet) and a DCA order over 2 slots, 2 workers, scheduler, a kill-switch request | life cycle, one submission per slot, nothing dormant, filled by its submission, failures explained |
| `two_schedulers` | MCOrderWorker | a DCA order, 2 schedulers, 2 workers, cancellations, one lock lost by a live worker | no two workers on a slot and no record of an ended slot written over while no lock is lost; a stop wins also after |
| `faults` | MCOrderWorker | a limit order, 2 workers, a request, one crash or failed call anywhere, 2 attempts | one submission, a stop wins, life cycle |
| `liveness` | MCOrderWorker | a DCA order, 2 switch requests, 2 attempts, fairness | a claimed slot settles, a triggered order moves on |
| `gate` | MCSecurityGate | 2 evaluations and a sign request at once over 2 intents, 1 quote saved twice, 2 days | cap, atomic ledger, approval consumes the cap, quote used once, signing bound to both |
| `launches` | MCTokenFactory | a user and a sink, deployments two deep, 2 token calls | bonds accounted and forwarded, supply conserved, whole launches |
| `parts` | MCParts | the parts of section 2, one at a time | see below |
| `finalizer_overwrites` | MCOrderWorker | one worker | a terminal record is overwritten (violation) |
| `dca_not_reopened` | MCOrderWorker | one crash | a DCA order stays triggered (violation) |
| `crossed_switches` | MCOrderWorker | two requests at once | switch off, queue paused (violation) |
| `under_count` | MCSecurityGate | one intent evaluated twice | the ledger holds less than the last approval (violation) |
| `unknown_wallets` | MCParts | a wallet created on Postgres | a wallet without a policy (violation) |

No run checks for deadlock: every one of these systems may stop, when its users have
asked for all they will and the bounds are used up.

What `parts` shows, by property:

| Property | Of | Says |
| --- | --- | --- |
| `NewestAnswer`, `BusyIsAwaited` | ScreenRequests | the answer to the last request shows, in whatever order answers come; a spinner has an answer on its way, and a screen at rest has none |
| `ConsentIsEarned` | LaunchConsent | a consent is for a draft whose own artifact was checked, and never mixes fixtures with the API |
| `SectionsExclusive` | KeyedMutex | sections of a key exclude each other in the order of their calls; an entry is there exactly while it is needed |
| `StepsCredited` | LaunchRecords | a record walks its life cycle, each step credited once, no answer older than its step |
| `BudgetHolds` | VerificationReads | at most twice the budget in any stretch as long as the window, and no refusal of who has budget left |
| `AuditTellsMode` | KillSwitchRow | one audit entry for each version of the row, in order, the last one the mode in force |
| `SwitchIsAudited` | KillSwitchRow | row and audit change as one step of `AuditedSwitch`, by whole calls only |
| `SignedOnce` | SigningStores | an intent is bound to one sign request, and who was answered from the table was given what it holds |
| `PricesFresh` | PriceFeed | no price past its time to live is handed out; reported health agrees with what readers get |
| `TriggersSound` | OrderTriggers | a limit order fires and trades on fresh rounds and never on one source alone; DCA slots are whole intervals apart |
| `MicrosExact` | MicroUsd | nearest micro, ties away from zero, round trip exact |
| `AnswersStand` | WalletPolicies | whoever was told of a wallet finds it and its policy, also when requests for one address crossed |

*Bounds.* `MaxOrders` 1: orders share only the switch, the queue's pause and the workers,
and a worker that is busy with another order is a worker that is late; two slots of one
order (`MaxSlot` 1) give two jobs for two workers. `MaxAttempts` 1 or 2 against 3 in the
code: 2 has a first, a retried and a last attempt, 1 reaches the finalizer soonest where
actors multiply states. `MaxFlips` 1 has a stop, 2 a stop and its lifting, or two crossed
requests. `MaxFaults` 1 at every place where it can strike. `MaxEvals` 2 gives two
evaluations racing, or one intent evaluated twice; `Values` {1,2} under a cap of 3 with a
threshold of 2 make each fit alone and the largest two exceed it together. `MaxDay` 1 is one
midnight, `MaxRev` 2 a quote saved again. `Word` 8 with `Scale` 2 and supplies of 1 and 4 has
a supply that overflows; `Values` {1,7} have an amount that is small and the unlimited
allowance; `MaxDepth` 2 is a deployment in a deployment, `MaxCalls` 2 an approval and its
use. `Symmetry` permutes workers, schedulers or evaluations in runs without liveness.

In `parts`: three requests and a reset (`MaxAsks`, `MaxDrops`) are a stale answer, a newer
one and one after a reset; two refreshes and two consents have each overtake the other; five
sections over two keys have an entry dropped and made anew while others queue; one record
and two operators can both stand between update and read, and rivals for the two ends of the
life cycle; a window of 2 and a budget of 2 over 5 instants have two whole windows with their
seams; three switch requests of two callers cross, with one first making the row; three sign
requests over two intents and previews have a second preview for a bound intent; two readers
and a time to live of 1 have a slow answer, a failed one and an entry that expires; `FeedPrices`
and `HintPrices` lie on, beside and far from the limit; inputs of up to four digits after the
point with unit digits 2 have every cut, tie and carry; three creations over two owners and
addresses have two that cross and a third that finds the address taken.

*Fairness* (`FairSpec`). Weak fairness of each worker, finalizer, kill-switch request and
timer tick: they are processes that, while they run, take their next step; and of the
redelivery of a job whose worker is gone: BullMQ looks for expired locks on a timer. A
worker that throws has taken its step, so nothing promises a quote or a price. Nothing
obliges users, administrators, the clock or faults, and the liveness run has no faults: a
crash is a known way to strand an order (`dca_not_reopened`). Both properties ask for a queue
that does not stay paused, since two crossed requests can leave it so (`crossed_switches`).

*Findings.* Five statements of comments that the code refutes, each a run that fails with
the trace; `PROJECT.json` quotes them.

1. The finalizer "never overwrites" a terminal record: it reads, and patches later without
   a condition (`finalize-failed-execution.usecase.ts:51`).
2. A successful DCA slot "returns the order to 'open'": not if the process dies between the
   two writes, since the redelivered job finds a spent record and acks
   (`execute-order-slot.usecase.ts:141`).
3. A pause "means resume when lifted, not permanent dormancy": two requests whose row and
   queue writes cross leave the switch off and the queue paused
   (`set-kill-switch.usecase.ts:44`).
4. The ledger will "never under-count": an intent evaluated again has its row replaced by a
   smaller value before, and whether or not, the new decision is audited
   (`postgres-spend-ledger.ts:83`).
5. A wallet "can never exist without the gate knowing about it": on Postgres wallet and policy
   are written under different keys, the policy references no wallet and is refused, and the
   wallet stays (`create-wallet.usecase.ts:40`).

Orders whose wallet does not exist are excluded from `NoDormantOrder` and
`TriggeredMovesOn`: the code marks them triggered before it looks the wallet up, and
leaves them so; `order_workers` has one such order.

## 4. Proofs

For every value of the constants, from the assumptions named in the modules only. These say
that ids of different kinds differ, that bounds are numbers, that values are positive
(`OrdersAssumption`, `BoundsAssumption`, `NullsAssumption`, `FaultsAssumption`;
`RequestsAssumption`, `NullAssumption`, `BoundAssumption`; `AsksAssumption`, `ConsentAssumption`,
`MutexAssumption`, `SignAssumption`, `WalletAssumption`, `FeedAssumption`, `TriggerAssumption`); that accounts and parameter sets
are finite (`ParamsAssumption`, `AccountsAssumption`, `TokensAssumption`,
`NumbersAssumption`); that "off" is a mode and the absence of a row is no row
(`SwitchAssumption`); that a window is not empty (`ReadsAssumption`); that a text has at
least the digits of the unit (`MoneyAssumption`); that what the parts of MCParts out of focus begin
with is an input of theirs (`StartAssumption`). The bounds that keep TLC finite are any
values in the proofs. What a theorem asks for beyond that is in its statement, and named here.

**OrderWorkerProofs.**
`TypeCorrect`: `TypeOK` is inductive; that a worker is idle exactly when it has no slot is
part of it because every step of `run()` applies to that slot.
`StopAlwaysWins`: `StopWins` says too little to be inductive. `StopInv` adds that a worker
approved after a stop still faces it (the switch is on or its order has ended), that once
past the second read of the switch it is the order that has ended, and that an order being
created does not exist, so that nothing revives an ended one. It holds under every fault.
`SlotsExclusive`, `SubmittedOnce`: what they state holds while no live worker has lost its lock
(`LocksKept`, a part of the properties), under every other fault. `OwnInv`: a worker that runs
a slot holds the lock of its job. `OnceInv`: a submitted slot has a record no attempt runs
again, and a worker on it has just recorded that or is about to find it.
`FailuresExplained` holds until a store fails or a process dies (`OnlyLocksFail`), which is
what can come between the two writes of a rejection. `ExplainInv` adds that whoever is about to
fail an order for a rejection has that rejection in the audit.
`QueuePartsAtRequests` says what can part the pause of the queue from the switch. `QueueInv`: they
agree while no request is between its mode and the queue, and one that is there set the mode in
force. It holds at first, and every step keeps it but two: a request that sets the mode while
another is there (`Crosses`, the run `crossed_switches`), and one that fails or dies there
(`CutShort`). Nothing in the code excludes either, so the theorem has no hypothesis and
`QueueFollowsSwitch` is not claimed.

**OrderLifecycleProofs.**
`FilledOnce`: while `LocksKept`, a filled limit order was submitted exactly once. `FillInv`: a
worker about to settle has submitted its slot. `FilledWhileFaultless` is the whole of
`FilledBySubmission`, which says of a live order too that its submission is about to be settled:
true until the first fault only, since a worker that dies there leaves the order to nobody.
`LiveFillInv` names the worker.
`ImplementsLifecycle` is the refinement, when locks of live workers do not expire
(`"lock_loss" \notin FaultKinds`), under crashes and failing stores: a step of `run()` maps to a
step of its own order, what others write to a cancellation, a failure or a creation, and
anything else to a stutter. `MarkedInv`: past its mark a limit order is not "open" again before
its worker has settled it; `AbsentInv`: an order that does not exist has left no trace.
`NoneDormant` holds until the first fault; a crash between two writes is known to strand an order
(`dca_not_reopened`). Of the three invariants it rests on, `MidInv` says for each place in `run()`
what the record and the order are there, up to finalizers that end the order meanwhile;
`TriggeredInv` that a triggered order has a slot somebody is responsible for: a job that waits or
is being added again with a record that is not spent, a worker early in `run()` with such a
record or late in it with any, or a finalizer; and `SpentInv` that a spent record goes with an
ended order, unless it is a DCA slot that went well or its worker is about to write the order.
`DcaReopened` is the statement that `dca_not_reopened` refutes after a crash, until the first
fault: a triggered DCA order whose slots all went well still has somebody who opens it again. It
rests on the same invariants, with `ClaimedInv` (a triggered order has a record) and `WalletInv`
(past the wallet nobody runs an order without one, so none of its slots goes well).
`faults = 0` is no more than these three need: with one order, two workers and two attempts, TLC
breaks each of them by a single fault of any one kind, a crash, a lost lock or a failing store.
`EndedStands`: while `LocksKept`, and under every other fault, no run of a slot writes over the
record that concluded it. It is an action property; `WritingInv` makes it hold: between winning
the record (or reading it as unspent, before the re-arm) and writing its end, a worker never
faces a concluded one. With `OwnInv` no other worker could have concluded it meanwhile, and a
finalizer's `failed_retry` is the one record that may come in between, which is why a concluded
record is defined without it and why the finalizer, which `finalizer_overwrites` shows to be
able to overwrite, is the one exception in the property.

**SecurityGateProofs.**
`TypeCorrect` from `Base`: types, the holder of a lock is in its transaction, and a swap is
previewed with a quote. `LedgerAtomic` and `CapNeverExceeded` from `Fitting`: what a
transaction checked still fits when it commits, because the lock keeps every other one of
that day out. `QuoteUsedOnce` and `SignedHoldsQuote` from `Binding`: a binding never changes,
and whoever is past it has it. `ApprovedConsumesCap` and `SignedConsumedCap` from `OnRecord`:
a row is replaced and never removed, so what saw an approval saw a row.
`UnderCountsOnlyAgain` says what can make the ledger count too little. `Exact(i)`: a run is alone
with the intent, from its reservation to its audit the row holds its own value, and what was
approved is on record with nobody left to replace it. It holds for every intent at first, it
implies `NeverUnderCounts`, and every step keeps it for every intent but one: the intent is sent
to the gate again, after its approval or while it is evaluated (`SentAgain`), which nothing in
the gate prevents and `under_count` does.

**SumProofs.**
The library defines sums over sets by a recursive function, and its induction theorems are out
of the provers' reach here, since they take an operator. What they would give is had from
minimal sets: among the subsets of a finite set for which a statement fails one is smallest
(`Minimal`, from the well-foundedness of inclusion). So the recursion is shown to be defined, and
sums to take out any element, to agree on functions that do, to add, to grow with the set.
`Induction` is the same for the numbers: a set with 0 that is closed under successors has all.

**TokenFactoryProofs.**
A revert restores an old world, so the invariant `IInv` makes every world on the stack
`Sound`, the present one too, and orders them by `Grows`: terms, once there, stay. `Sound`
adds to the properties that a salt is never found cloned and not initialized, that terms and
"live" go together, and that the template has none. `TypeCorrect`, `BondsAlwaysAccounted` and
`BondsAlwaysForwarded` follow; `LaunchesAtomic` is the refinement: whatever closes, the
committed world before and after are both sound and the later one grew, which is a
transaction of `LaunchLedger`. `SupplyAlwaysConserved` from `SupplyInv`: in the world and on the
stack, a token's balances add up to its supply, and one that is not live has neither, from which
`initialize` starts.

**PartsProofs.**
`BusyAlwaysAwaited` and `NewestAnswerShown` need `Discipline`: no request in flight remembers a
number the part has not come to, and one that remembers the last number is the last request, for
which the part waits. An answer that is wanted is then the answer to the last request, which is
the step `Answer` of `LatestAnswer`; any other is a stutter. `Awaited` is the other half of
`BusyIsAwaited`: a part that waits has something to wait for.
`ConsentAlwaysEarned` from: a refresh that waits for an artifact and is current has its own
draft on screen, from the API (`OnScreen`); while it waits for its draft none is on screen
(`Waiting`); `mockMode` agrees with the draft, and a chip that says verified was checked with it.
`PartsTyped` is the type invariant of all eleven parts, for MCParts as a whole: the step of one
keeps its own type, which that part's proofs show, and leaves the others alone.

**RowProofs.**
`AuditAlwaysTells`: `OneHolds` (one transaction at most holds the row, and one about to update
without it has seen a committed row), `NextVersion` (what is held is the version after the
committed one, with the mode asked for) and `Numbered` (the number taken while the row is held is
later than all that were committed) make the commit append the right entry. One lemma,
`StepInside`, covers every step that others do not see. `SwitchAlwaysAudited` is the refinement from
the same invariant: a commit is a `SetMode`, and every other step a stutter, that of `getState` too.
`SignsOnce` from `Bound`: rows only gain entries, so that an answer given from them stays true,
and a binding has its row. `ServiceNeverBinds`: with the Postgres bindings a caller that comes to its
second call holds the row of the intent, which keeps it from storing. `AnswersAlwaysStand` from `Provisioned`: in memory, a creation about to
provision has stored the wallet its policy will name; on Postgres the foreign key refuses what
is not there. `GateKnowsInMemory` is what `unknown_wallets` refutes, over the stores in memory:
`Owed` says that a wallet without a policy has a creation that owes it one, or lost it.
`NoWalletKnownOnPostgres` is how far it fails on Postgres, which is always: no creation ever
succeeds there and no policy is ever stored, since what is stored has no owner in its id (`Unnamed`).
`StepsAlwaysCredited`: the trail of a record has each rank of the life cycle at its place and ends
where the record is (`Path`), so that no status comes twice; a step in hand was taken, is
credited to no one yet and is in no other hand (`Pending`); what is credited was taken, once
(`Claims`).

**ProcessProofs.**
`SectionsAlwaysExclusive`: an entry can be dropped and made anew, so the order of calls is not
in the map. `Chained` puts it in the chain: a section waits for the last one of its key called
before it, or all before it have ended; and whoever has started is alone. `Tailed` says that the
entry of a key is its last section, and that without an entry all have ended.
`PricesAlwaysFresh` from `Remembered`: the last success is the newest entry of the cache, and an
error that is remembered came after it; that makes the reported health what a reader would get.
`TriggersAlwaysSound`: a limit order carries through its pass and its job what was checked there
(`Pass`); of a DCA order each slot is a whole number of intervals after its creation (`SlotInv`).
`BudgetAlwaysHolds`: any stretch as long as the window meets two windows at most. `ReadsInv` says
that the counts are what was admitted since the window began (`Counted`) and that the stretch
before it had one budget at most (`Preceded`); `TwoWindows` adds them up.
`MicrosAlwaysExact`: digits written after a number multiply it by a power of ten and add less than
one such power (`MoreDigits`), noughts add nothing (`MoreNoughts`); so padding changes nothing and
cutting loses less than one of the last digit left, which is the one that decides (`Nearest`,
whether or not the fraction carries: `Conversion`). `DigitsWrite` is the way back.

Every property of a passing run is stated by a theorem, except `SlotSettles` and `TriggeredMovesOn`:
*model-checked only*, because they are liveness under fairness, out of the prover's reach. What the
five violation runs refute is bounded from the other side: `DcaReopened` (until the first fault) and
`GateKnowsInMemory` (over the stores in memory) say where it does hold, `QueuePartsAtRequests`
and `UnderCountsOnlyAgain` which steps alone break it, `EndedStands` that besides the finalizer
nothing writes over a concluded record while no lock is lost. `FailedOrderExplained`,
`FilledBySubmission`, `NoDormantOrder` and `OrdersFollowLifecycle` are proved under the hypotheses
above; the runs that check them have no fault, or none that the hypothesis excludes.

## 5. Not modelled, and the plan

Left out for good: authentication, the API shell, chain adapters, aggregator adapters, shared
UI, pages and components: I/O, framework or presentation, with no state that outlives a call.
The Prisma client is generated. Event stream and other reads: no state of their own. The
verification artifacts are constants, and the payload builders and the inspection of payloads
pure functions of one request, whose verdicts are choices.

Of the front end: `useTransfer` sends a chain the API does not know (`base-sepolia` is not among
`CHAINS`), so that every evaluation it asks for is refused before the gate; `useSwap` delegates to
an `evaluate` that `useTransfer` does not return; `useBalance` gives fixed values;
`useIntentStatus` is not used. `useWallets` appends what it created to its list, which is not
modelled. Of the back office, `useOrdersPolling` is listed as a hazard without a property.

The Postgres wiring does not compile at this commit: `getPrismaClient` lacks a closing brace
(`prisma-client.ts:32-63`). The adapters behind it are modelled as they are written.
`PostgresSecurityPolicyProvider.upsert` turns the cap and the threshold into micros by
`Math.round(usd * 1e6)` (`:26-29`), which `micro-usd.ts:10-14` forbids: an error of a double, which
`MicroUsd` does not have, so `MicrosExact` does not reach that path.

Of the parts that are modelled, these are not: the zero interval `P0D`, which makes every tick
fail (a hazard); the loss of in-memory stores with their process; `markStatus`,
`getSpentUsdToday` and `record`, which nothing calls; the in-memory queue of tests; BullMQ's
stall limit.

The map covers a small share of the repository's lines. Tests, generated client, pages, fixtures
and adapters are most of them; what keeps state or decides is covered.

Order of work. Done: the order worker and its life cycle; the gate and its ledger; the launch
contracts and their ledger; the front end's requests and consents; the signing stores; the
kill-switch row, its audit and the switch they implement; launch records and rate limit;
schedule, triggers, amounts, the mutex; wallets and policies; a theorem for every safety property
of a passing run, and one that bounds what each finding refutes. What is left:

1. Gate and worker composed: a DCA order's second slot meets a quote id already bound.
2. The back office's polling, with the effect that restarts it at every answer.
