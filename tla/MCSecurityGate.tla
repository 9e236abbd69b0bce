---------------------------- MODULE MCSecurityGate ----------------------------
(* Instances of SecurityGate for TLC.                                       *)
EXTENDS SecurityGate, TLC

CONSTANTS i1, i2, q1

Transfer(i) == [id |-> i, kind |-> "transfer", quote |-> NoQuote, rev |-> 0,
                automation |-> FALSE]
Swap(i, q, n) == [id |-> i, kind |-> "swap", quote |-> q, rev |-> n,
                  automation |-> TRUE]
Deploy(i, auto) == [id |-> i, kind |-> "deploy", quote |-> NoQuote, rev |-> 0,
                    automation |-> auto]

\* i1 swaps on q1, on its next revision, or is sent again as a transfer; i2
\* competes for q1, or deploys, as a user and as automation.
MixedRequests == {Swap(i1, q1, 1), Swap(i1, q1, 2), Swap(i2, q1, 1), Transfer(i1),
                  Deploy(i2, FALSE), Deploy(i2, TRUE)}

\* One intent that is evaluated more than once.
OneTransfer == {Transfer(i1)}

\* Evaluations are interchangeable.
Symmetry == Permutations(Evaluators)
=============================================================================
