---------------------------- MODULE MCTokenFactory ----------------------------
(* Instances of TokenFactory for TLC.                                       *)
EXTENDS TokenFactory

CONSTANTS user, sink

Terms(supply, shares) ==
  [name |-> 1, symbol |-> 1, supply |-> supply, nonce |-> 0, shares |-> shares,
   recipients |-> <<user, user, user, user>>]

\* Two parameter sets with one salt and different fees, one whose scaled supply
\* is over the width, and one whose fees are not the rate.
LaunchParams == {Terms(1, <<1, 1, 0, 0>>), Terms(1, <<2, 0, 0, 0>>),
                 Terms(4, <<2, 0, 0, 0>>), Terms(1, <<1, 0, 0, 0>>)}
=============================================================================
