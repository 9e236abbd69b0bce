------------------------------ MODULE SpendLedger ------------------------------
(***************************************************************************)
(* What the SpendLedger port of the security gate promises about one wallet *)
(* (apps/api/src/security/application/ports.ts): a reservation is one       *)
(* atomic compare-and-record per UTC day and intent.  The in-memory ledger  *)
(* is this specification, one synchronous tick per call.                    *)
(***************************************************************************)
EXTENDS Naturals, Functions

CONSTANTS Intents, Days, Values, Cap   \* values and cap in micro-USD

VARIABLE rows   \* day -> intent -> micro-USD on record, 0 when there is no row

Init == rows = [d \in Days |-> [i \in Intents |-> 0]]

Total(day) == SumFunction(day)

\* A repeated reservation replaces the intent's own earlier value.
With(day, i, v) == [day EXCEPT ![i] = v]

Reserve(d, i, v) ==
  /\ Total(With(rows[d], i, v)) <= Cap
  /\ rows' = [rows EXCEPT ![d] = With(@, i, v)]

Next == \E d \in Days, i \in Intents, v \in Values : Reserve(d, i, v)

Spec == Init /\ [][Next]_rows
=============================================================================
