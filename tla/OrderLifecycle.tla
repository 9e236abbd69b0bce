----------------------------- MODULE OrderLifecycle -----------------------------
(***************************************************************************)
(* What automation promises about one order, whatever its workers do: the   *)
(* life cycle of OrderStatus in packages/shared-types and of the contract   *)
(* freeze (docs/research/wave4-contract-freeze.md, section 1), and how it    *)
(* goes together with the submissions of the order's slots.                 *)
(*                                                                          *)
(* An order is created open.  While live it is triggered and opened again,  *)
(* and it ends in exactly one of three ways, for ever.  A slot is submitted *)
(* at most once.  A one-shot order (limit) that was submitted is never      *)
(* opened again, and only then can it be filled; a recurring one (DCA) is   *)
(* never filled.                                                            *)
(***************************************************************************)
EXTENDS Naturals

CONSTANTS OneShot, Recurring, Slots   \* a slot is <<order, number>>

VARIABLES status, submissions
vars == <<status, submissions>>

Orders == OneShot \cup Recurring
Live   == {"open", "triggered"}

Submitted(o) == \E s \in Slots : s[1] = o /\ submissions[s] > 0

Init == /\ status = [o \in Orders |-> "absent"]
        /\ submissions = [s \in Slots |-> 0]

Move(o, to) == status' = [status EXCEPT ![o] = to] /\ UNCHANGED submissions

Create(o)  == status[o] = "absent" /\ Move(o, "open")
Trigger(o) == status[o] = "open" /\ Move(o, "triggered")
Reopen(o)  == status[o] = "triggered" /\ ~(o \in OneShot /\ Submitted(o)) /\ Move(o, "open")
Fill(o)    == status[o] = "triggered" /\ o \in OneShot /\ Submitted(o) /\ Move(o, "filled")
Stop(o)    == status[o] \in Live /\ (Move(o, "cancelled") \/ Move(o, "failed"))

Submit(s) ==
  /\ status[s[1]] # "absent" /\ submissions[s] = 0
  /\ submissions' = [submissions EXCEPT ![s] = 1]
  /\ UNCHANGED status

Next == \/ \E o \in Orders : Create(o) \/ Trigger(o) \/ Reopen(o) \/ Fill(o) \/ Stop(o)
        \/ \E s \in Slots : Submit(s)

Spec == Init /\ [][Next]_vars
=============================================================================
