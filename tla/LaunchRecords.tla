---------------------------- MODULE LaunchRecords ---------------------------
(* The records of a token launch: one row for each ceremony, which moves     *)
(* forward by steps that several operators may ask for at once.  The Postgres *)
(* store updates on a condition and reads the row again; the store in memory *)
(* does both at once.                                                        *)
EXTENDS Naturals, Sequences

CONSTANTS Records, Operators

VARIABLES
  durable,   \* the records are kept in Postgres
  record,    \* record -> its status, or "none"
  readback,  \* records that hold the time of a readback
  operator,  \* operator -> the step it is told of next
  trail,     \* history: record -> the statuses it went through
  credits    \* history: what callers were told, [id, to, status] -> how often

launchVars == <<durable, record, readback, operator, trail, credits>>

Transitions ==
  [none             |-> {},
   published        |-> {"signed_offchain"},
   signed_offchain  |-> {"broadcast"},
   broadcast        |-> {"readback_passed", "readback_rejected"},
   readback_passed  |-> {},
   readback_rejected |-> {}]

Statuses  == DOMAIN Transitions \ {"none"}
Readbacks == {"readback_passed", "readback_rejected"}
NoStep    == [id |-> "none", to |-> "none"]
Step      == [id : Records, to : Statuses]
Reply    == [id : Records, to : Statuses, status : Statuses]

LaunchInit ==
  /\ durable \in BOOLEAN
  /\ record = [id \in Records |-> "none"]
  /\ readback = {}
  /\ operator = [o \in Operators |-> NoStep]
  /\ trail = [id \in Records |-> <<>>]
  /\ credits = [a \in Reply |-> 0]

Moved(id, to) ==
  /\ record' = [record EXCEPT ![id] = to]
  /\ readback' = IF to \in Readbacks THEN readback \cup {id} ELSE readback
  /\ trail' = [trail EXCEPT ![id] = Append(@, to)]

Credit(id, to, status) ==
  credits' = [credits EXCEPT ![[id |-> id, to |-> to, status |-> status]] = @ + 1]

\* A second record of one id is refused by either store.
Publish(id) ==
  /\ record[id] = "none"
  /\ Moved(id, "published")
  /\ Credit(id, "published", "published")
  /\ UNCHANGED <<durable, operator>>

MutantMayMove(id, to) == record[id] # "none"
MayMove(id, to) == to \in Transitions[record[id]]

\* InMemoryLaunchRecordStore.transition
Transition(id, to) ==
  /\ ~durable /\ MayMove(id, to)
  /\ Moved(id, to)
  /\ Credit(id, to, to)
  /\ UNCHANGED <<durable, operator>>

\* PostgresDeployRecordStore.transition: UPDATE ... WHERE status IN (predecessors);
\* an update of no row ends in an error and has changed nothing.
Update(o, id, to) ==
  /\ durable /\ operator[o] = NoStep
  /\ MayMove(id, to)
  /\ Moved(id, to)
  /\ operator' = [operator EXCEPT ![o] = [id |-> id, to |-> to]]
  /\ UNCHANGED <<durable, credits>>

\* ... and the row as it is by now is the answer.
ReadBack(o) ==
  LET step == operator[o] IN
  /\ step # NoStep
  /\ Credit(step.id, step.to, record[step.id])
  /\ operator' = [operator EXCEPT ![o] = NoStep]
  /\ UNCHANGED <<durable, record, readback, trail>>

\* The process dies, or the second call fails: nobody hears of the step.
Abort(o) ==
  /\ operator[o] # NoStep
  /\ operator' = [operator EXCEPT ![o] = NoStep]
  /\ UNCHANGED <<durable, record, readback, trail, credits>>

LaunchNext ==
  \/ \E id \in Records : Publish(id)
  \/ \E id \in Records, to \in Statuses :
       Transition(id, to) \/ \E o \in Operators : Update(o, id, to)
  \/ \E o \in Operators : ReadBack(o) \/ Abort(o)

LaunchSpec == LaunchInit /\ [][LaunchNext]_launchVars

-----------------------------------------------------------------------------
LaunchTypeOK ==
  /\ durable \in BOOLEAN
  /\ record \in [Records -> DOMAIN Transitions]
  /\ readback \subseteq Records
  /\ operator \in [Operators -> Step \cup {NoStep}]
  /\ trail \in [Records -> Seq(Statuses)]
  /\ credits \in [Reply -> Nat]

\* What a caller may be told of a step: that it is where the record is, or a
\* place the record went to after it.
Told(id, to, status) ==
  \E i, j \in DOMAIN trail[id] : i <= j /\ trail[id][i] = to /\ trail[id][j] = status

\* The trail of a record is a path of the lifecycle from its publication to
\* where it is, and each of its steps is credited to one caller at most,
\* however callers cross; no answer shows a state before the step it answers.
StepsCredited ==
  /\ \A id \in Records :
       LET path == trail[id] IN
       /\ path = <<>> <=> record[id] = "none"
       /\ path # <<>> => path[1] = "published" /\ path[Len(path)] = record[id]
       /\ \A i \in 2 .. Len(path) : path[i] \in Transitions[path[i - 1]]
       /\ id \in readback <=> record[id] \in Readbacks
  /\ \A a \in Reply : credits[a] > 0 => credits[a] = 1 /\ Told(a.id, a.to, a.status)
  /\ \A a, b \in Reply :
       credits[a] > 0 /\ credits[b] > 0 /\ a.id = b.id /\ a.to = b.to => a = b
  /\ \A o \in Operators : operator[o] # NoStep =>
       /\ \A a \in Reply : credits[a] > 0 => <<a.id, a.to>> # <<operator[o].id, operator[o].to>>
       /\ \A p \in Operators \ {o} : operator[p] # operator[o]
=============================================================================
