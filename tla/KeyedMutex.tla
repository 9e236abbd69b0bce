----------------------------- MODULE KeyedMutex -----------------------------
(* The promise-chain mutex of the execution worker: a section waits for the  *)
(* tail that its key had when it was called, and becomes the tail itself.    *)
(* The event loop runs one callback at a time, in an order this module       *)
(* leaves open.                                                              *)
EXTENDS Naturals, Sequences

CONSTANTS Keys,
          MaxSections  \* sections that are called (bound)

ASSUME MutexAssumption == MaxSections \in Nat

VARIABLES
  sections,  \* every call so far: its key, the section it waits for, its stage
  tails      \* key -> the number of the last section, or 0 for no entry

mutexVars == <<sections, tails>>

Section == [key : Keys, prev : 0 .. MaxSections,
            stage : {"queued", "running", "settled", "done"}]

MutexInit ==
  /\ sections = <<>>
  /\ tails = [k \in Keys |-> 0]

RunExclusive(k) ==
  /\ Len(sections) < MaxSections
  /\ sections' = Append(sections, [key |-> k, prev |-> tails[k], stage |-> "queued"])
  /\ tails' = [tails EXCEPT ![k] = Len(sections) + 1]

Ended(t) == sections[t].stage \in {"settled", "done"}

\* prev.then(fn)
Start(t) ==
  /\ sections[t].stage = "queued"
  /\ sections[t].prev # 0 => Ended(sections[t].prev)
  /\ sections' = [sections EXCEPT ![t].stage = "running"]
  /\ UNCHANGED tails

\* The section resolves or rejects: its tail resolves either way.
Settle(t) ==
  /\ sections[t].stage = "running"
  /\ sections' = [sections EXCEPT ![t].stage = "settled"]
  /\ UNCHANGED tails

MutantIsTail(t) == TRUE
IsTail(t) == tails[sections[t].key] = t

\* tail.then(...): the entry of the key is dropped by its last section only
Cleanup(t) ==
  /\ sections[t].stage = "settled"
  /\ sections' = [sections EXCEPT ![t].stage = "done"]
  /\ tails' = IF IsTail(t) THEN [tails EXCEPT ![sections[t].key] = 0] ELSE tails

MutexNext ==
  \/ \E k \in Keys : RunExclusive(k)
  \/ \E t \in DOMAIN sections : Start(t) \/ Settle(t) \/ Cleanup(t)

MutexSpec == MutexInit /\ [][MutexNext]_mutexVars

-----------------------------------------------------------------------------
MutexTypeOK ==
  /\ sections \in Seq(Section)
  /\ Len(sections) <= MaxSections
  /\ tails \in [Keys -> 0 .. MaxSections]

SameKey(t, u) == sections[t].key = sections[u].key

\* The sections of key k.
Of(k) == {t \in DOMAIN sections : sections[t].key = k}

\* Sections of one key run one after another in the order of their calls, also
\* when the entry of the key was dropped and made anew in between; the entry is
\* there while a section has work to do, and not when all are done with it.
SectionsExclusive ==
  /\ \A t, u \in DOMAIN sections :
       u < t /\ SameKey(t, u) /\ sections[t].stage # "queued" => Ended(u)
  /\ \A k \in Keys :
       /\ tails[k] = 0 => \A t \in Of(k) : Ended(t)
       /\ (\A t \in Of(k) : sections[t].stage = "done") => tails[k] = 0
=============================================================================
