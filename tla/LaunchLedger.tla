------------------------------ MODULE LaunchLedger ------------------------------
(***************************************************************************)
(* What the launch contracts promise of every transaction on the chain,     *)
(* whatever runs inside it (INV-BOND-1, INV-FEE-1, INV-INIT-1 in            *)
(* contracts/src): a token gets its terms once and for good, the factory    *)
(* takes one bond for each token it launches and none for a transaction     *)
(* that reverts, the fee shares of what it launches add up to its rate, and *)
(* the template itself is never a token.                                    *)
(***************************************************************************)
EXTENDS Naturals, FiniteSets

CONSTANTS Salts,     \* the tokens the factory can launch
          Foreign,   \* clones of the template made without it
          Template,  \* what they are clones of
          Terms, NoTerms, Bond, Rate

VARIABLES terms,     \* token -> the parameters it was initialized with
          bonds      \* bonds collected

Tokens == Salts \cup Foreign \cup {Template}

Launched(ts) == {s \in Salts : ts[s] # NoTerms}
Total(p) == p.shares[1] + p.shares[2] + p.shares[3] + p.shares[4]

Init == /\ terms = [t \in Tokens |-> NoTerms]
        /\ bonds = 0

\* One transaction: it may launch several tokens.
Transaction ==
  /\ terms' \in [Tokens -> Terms \cup {NoTerms}]
  /\ \A t \in Tokens : terms[t] # NoTerms => terms'[t] = terms[t]
  /\ terms'[Template] = NoTerms
  /\ \A s \in Launched(terms') : Total(terms'[s]) = Rate
  /\ bonds' = bonds + Bond * Cardinality(Launched(terms') \ Launched(terms))

Spec == Init /\ [][Transaction]_<<terms, bonds>>
=============================================================================
