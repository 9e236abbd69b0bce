---------------------------- MODULE AuditedSwitch ----------------------------
(* What a kill switch with an audit promises, and what InMemoryKillSwitch    *)
(* does: a change of the mode and its entry in the audit are one step, and   *)
(* the entry comes after all others.                                         *)
EXTENDS Naturals

CONSTANT Modes

VARIABLES
  mode,     \* the mode in force
  version,  \* how often it was set
  journal   \* the entries of the audit: a number and the mode it changed to

Init == mode = "off" /\ version = 0 /\ journal = {}

\* An entry that is later than all there are.
ComesLast(entries, e) == \A other \in entries : other.id < e.id

SetMode(to) ==
  /\ mode' = to
  /\ version' = version + 1
  /\ \E e \in journal' : /\ e.to = to
                         /\ ComesLast(journal, e)
                         /\ journal' = journal \cup {e}

Next == \E to \in Modes : SetMode(to)

Spec == Init /\ [][Next]_<<mode, version, journal>>
=============================================================================
