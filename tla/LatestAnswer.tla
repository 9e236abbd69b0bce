---------------------------- MODULE LatestAnswer ----------------------------
(* What a part of a screen that fetches promises: what it shows is nothing,  *)
(* what it showed when it asked again, or the answer to the last question.   *)
EXTENDS Naturals

VARIABLES
  asked,   \* how many questions were asked: the last one has this number
  shown,   \* the number of the question whose answer is on screen, 0 if none
  open     \* an answer to the last question may still be shown

vars == <<asked, shown, open>>

Init == asked = 0 /\ shown = 0 /\ ~open

Question ==
  /\ asked' = asked + 1
  /\ open'
  /\ shown' \in {0, shown}

\* Each question is answered at most once, by an answer or by an error.
Answer ==
  /\ open /\ ~open'
  /\ shown' \in {0, asked}
  /\ UNCHANGED asked

\* What was dropped stays away until something is asked again.
Drop ==
  /\ ~open'
  /\ shown' = 0
  /\ UNCHANGED asked

Next == Question \/ Answer \/ Drop

Spec == Init /\ [][Next]_vars
=============================================================================
