------------------------------ MODULE TokenFactory ------------------------------
(***************************************************************************)
(* The launch contracts of contracts/src: KryptrTokenFactory, the clones it *)
(* makes of KryptrLaunchTokenTemplate, and the ERC-20 calls on them.        *)
(*                                                                          *)
(* deployToken gives control away once, when it pays the bond sink: the     *)
(* sink may be a contract, which calls the factory and the tokens again     *)
(* before it returns or reverts.  One action is the code up to that point;  *)
(* a call that a require would revert changes nothing and is no action.     *)
(* The state at the entry of each open call is kept, as the machine does,   *)
(* for the revert.  Hashes do not collide; names are their lengths.         *)
(***************************************************************************)
EXTENDS Integers, Sequences, FiniteSets, Functions

CONSTANTS
  Accounts,    \* who calls: users and contracts
  Contracts,   \* the accounts that may run while the sink is being paid
  Zero,        \* address(0)
  Params,      \* parameter sets of a deployment
  NoParams,    \* "not initialized"
  Foreign,     \* clones of the template made without the factory
  Template,    \* the template itself
  Rate,        \* totalFeeBps
  Bond,        \* bondAmount
  Scale,       \* 10 ** decimals
  Word,        \* 2 ** 256
  Payments,    \* values a deployment may be sent with
  Values,      \* amounts of the ERC-20 calls
  MaxDepth,    \* how deep deployments nest
  MaxCalls     \* how many ERC-20 calls are made

\* The creator, the liquidity, the protocol and the buyback.
Shares     == [1 .. 4 -> 0 .. 65535]
Recipients == [1 .. 4 -> Accounts \cup {Zero}]
ParamType  == [name : Nat, symbol : Nat, supply : Nat, nonce : Nat,
               shares : Shares, recipients : Recipients]

\* deploySalt, which the address of the clone follows from.  The fee shares are
\* not part of it.
SaltOf(a, p) == <<a, p.name, p.symbol, p.supply, p.nonce>>
Salts  == {SaltOf(a, p) : a \in Accounts, p \in Params}
Tokens == Salts \cup Foreign \cup {Template}

ASSUME ParamsAssumption == Params \subseteq ParamType /\ NoParams \notin Params
ASSUME AccountsAssumption ==
  IsFiniteSet(Accounts) /\ IsFiniteSet(Params) /\ Contracts \subseteq Accounts /\ Zero \notin Accounts
ASSUME TokensAssumption ==
  Salts \cap Foreign = {} /\ Template \notin Salts \cup Foreign
ASSUME NumbersAssumption ==
  /\ Rate \in Nat /\ Bond \in Nat \ {0} /\ Scale \in Nat /\ Word \in Nat \ {0}
  /\ Payments \subseteq Nat /\ Values \subseteq 0 .. Word - 1
  /\ MaxDepth \in Nat /\ MaxCalls \in Nat

VARIABLES
  world,   \* the storage of all contracts, and the ether the factory handled
  stack,   \* the worlds at the entry of the open deployToken calls
  calls    \* ERC-20 calls made (bound)

vars == <<world, stack, calls>>

-----------------------------------------------------------------------------
(* A token, and the world: the bond ledger, the tokens, the ether the        *)
(* factory holds and what it paid to the sink.                               *)

NoBalance   == [a \in Accounts |-> 0]
NoAllowance == [a \in Accounts |-> NoBalance]

Token(state) == [state |-> state, terms |-> NoParams, supply |-> 0,
                 balance |-> NoBalance, allowance |-> NoAllowance]

\* The constructor of the template marks the template itself initialized.
Sealed == Token("live")

Init ==
  /\ world = [total |-> 0, by |-> NoBalance, held |-> 0, paid |-> 0,
              token |-> [t \in Tokens |-> IF t = Template THEN Sealed ELSE Token("absent")]]
  /\ stack = <<>>
  /\ calls = 0

\* Who can make a call now: anybody starts a transaction; while the sink is
\* paid, the contracts it leads to.
MayCall(a) == stack = <<>> \/ a \in Contracts

WithToken(t, token) == [world EXCEPT !.token[t] = token]

SharesSum(p) == p.shares[1] + p.shares[2] + p.shares[3] + p.shares[4]

\* The checks that the factory makes and the template repeats.
WellFormed(p) ==
  /\ \A k \in 1 .. 4 : p.recipients[k] # Zero
  /\ p.name \in 1 .. 64 /\ p.symbol \in 1 .. 12
  /\ p.supply > 0 /\ p.supply * Scale < Word

-----------------------------------------------------------------------------
(* KryptrLaunchTokenTemplate.                                               *)

\* initialize() on a token that is not initialized: the deployer gets the
\* whole supply.
Initialized(token, d, p) ==
  [token EXCEPT !.state = "live", !.terms = p, !.supply = p.supply * Scale,
                !.balance[d] = p.supply * Scale]

\* Anybody may clone the template without the factory.
CloneElsewhere(a, t) ==
  /\ MayCall(a)
  /\ world.token[t].state = "absent"
  /\ world' = WithToken(t, Token("raw"))
  /\ UNCHANGED <<stack, calls>>

\* Nothing is initialized twice.
MutantUninitialized(t) == world.token[t].state # "absent"
Uninitialized(t) == world.token[t].state = "raw"

\* initialize() trusts no caller, but it is the caller who passes the rate that
\* the shares must add up to, a uint16.
Initialize(a, t, d, p) ==
  /\ MayCall(a)
  /\ Uninitialized(t)
  /\ WellFormed(p) /\ SharesSum(p) <= 65535
  /\ world' = WithToken(t, Initialized(world.token[t], d, p))
  /\ UNCHANGED <<stack, calls>>

\* balanceOf[from] -= value; balanceOf[to] += value.
MutantMoved(b, from, to, v) == [b EXCEPT ![from] = b[from] - v, ![to] = b[to] + v]
Moved(b, from, to, v) == [[b EXCEPT ![from] = @ - v] EXCEPT ![to] = @ + v]

\* Both lines are checked arithmetic.
MutantCanMove(b, from, to, v) == Moved(b, from, to, v)[to] < Word
CanMove(b, from, to, v) ==
  v <= b[from] /\ Moved(b, from, to, v)[to] < Word

Call(a, t) ==
  /\ MayCall(a)
  /\ calls < MaxCalls /\ calls' = calls + 1
  /\ world.token[t].state # "absent"
  /\ UNCHANGED stack

Transfer(a, t, to, v) ==
  /\ Call(a, t)
  /\ CanMove(world.token[t].balance, a, to, v)
  /\ world' = WithToken(t, [world.token[t] EXCEPT !.balance = Moved(@, a, to, v)])

Approve(a, t, spender, v) ==
  /\ Call(a, t)
  /\ world' = WithToken(t, [world.token[t] EXCEPT !.allowance[a][spender] = v])

\* An allowance of 2 ** 256 - 1 is never used up.
Allowed(token, from, a, v) ==
  token.allowance[from][a] = Word - 1 \/ v <= token.allowance[from][a]

Charged(token, from, a, v) ==
  IF token.allowance[from][a] = Word - 1 THEN token
  ELSE [token EXCEPT !.allowance[from][a] = @ - v]

TransferFrom(a, t, from, to, v) ==
  /\ Call(a, t)
  /\ Allowed(world.token[t], from, a, v)
  /\ CanMove(world.token[t].balance, from, to, v)
  /\ world' = WithToken(t, [Charged(world.token[t], from, a, v)
                              EXCEPT !.balance = Moved(@, from, to, v)])

-----------------------------------------------------------------------------
(* KryptrTokenFactory.deployToken.                                          *)

\* The bond is paid exactly.
Accepts(value) == value = Bond

\* CREATE2 creates no contract where there is one.
MutantVacant(t) == TRUE
Vacant(t) == world.token[t].state = "absent"

\* Ledger, clone, initialization and the payment of the sink, which then runs.
Deploy(a, p, value) ==
  /\ MayCall(a)
  /\ Len(stack) < MaxDepth
  /\ Accepts(value)
  /\ SharesSum(p) = Rate
  /\ WellFormed(p)
  /\ world.total + Bond < Word
  /\ Vacant(SaltOf(a, p))
  /\ world' = [world EXCEPT !.total = @ + Bond, !.by[a] = @ + Bond,
                            !.held = @ + value - Bond, !.paid = @ + Bond,
                            !.token[SaltOf(a, p)] = Initialized(Token("raw"), a, p)]
  /\ stack' = Append(stack, world)
  /\ UNCHANGED calls

Caller == SubSeq(stack, 1, Len(stack) - 1)

\* The sink returns, and deployToken with it.
SinkReturns ==
  /\ stack # <<>>
  /\ stack' = Caller
  /\ UNCHANGED <<world, calls>>

\* The sink reverts: SinkTransferFailed undoes the whole call, with what the
\* sink did in it.
MutantAfterFailure == [world EXCEPT !.held = @ + Bond, !.paid = @ - Bond]
AfterFailure == stack[Len(stack)]

SinkFails ==
  /\ stack # <<>>
  /\ world' = AfterFailure
  /\ stack' = Caller
  /\ UNCHANGED calls

-----------------------------------------------------------------------------
Erc20(a, t) ==
  \E b \in Accounts, v \in Values :
    \/ Transfer(a, t, b, v)
    \/ Approve(a, t, b, v)
    \/ \E c \in Accounts : TransferFrom(a, t, b, c, v)

Next ==
  \/ \E a \in Accounts, p \in Params, value \in Payments : Deploy(a, p, value)
  \/ SinkReturns \/ SinkFails
  \/ \E a \in Accounts, t \in Foreign : CloneElsewhere(a, t)
  \/ \E a, d \in Accounts, t \in Tokens, p \in Params : Initialize(a, t, d, p)
  \/ \E a \in Accounts, t \in Tokens : Erc20(a, t)

Spec == Init /\ [][Next]_vars

-----------------------------------------------------------------------------
(* Properties.                                                              *)

TokenType == [state : {"absent", "raw", "live"}, terms : Params \cup {NoParams},
              supply : 0 .. Word - 1, balance : [Accounts -> 0 .. Word - 1],
              allowance : [Accounts -> [Accounts -> 0 .. Word - 1]]]
WorldType == [total : 0 .. Word - 1, by : [Accounts -> Nat], held : Nat, paid : Nat,
              token : [Tokens -> TokenType]]

\* Every word of storage fits its width, in the world and in every world a revert
\* may restore.
TypeOK ==
  /\ world \in WorldType
  /\ stack \in Seq(WorldType) /\ Len(stack) <= MaxDepth
  /\ calls \in 0 .. MaxCalls

LaunchedIn(w) == {s \in Salts : w.token[s].state = "live"}
LaunchedBy(w, a) == {s \in LaunchedIn(w) : s[1] = a}

Accounted(w) ==
  /\ w.total = Bond * Cardinality(LaunchedIn(w))
  /\ \A a \in Accounts : w.by[a] = Bond * Cardinality(LaunchedBy(w, a))
Forwarded(w) == w.held = 0 /\ w.paid = w.total

\* The bond ledger counts one bond for each token there is, in total and for each
\* deployer, at every point where other code can look at it (INV-BOND-1).
BondsAccounted == Accounted(world)

\* What was collected was paid to the sink, and the factory holds nothing
\* (INV-BOND-2), also while the sink runs.
BondsForwarded == Forwarded(world)

\* The balances of a token add up to its supply, whatever is transferred,
\* approved or reverted (INV-SUP-1).
SupplyConserved ==
  \A t \in Tokens : SumFunction(world.token[t].balance) = world.token[t].supply

Committed == IF stack = <<>> THEN world ELSE stack[1]

Ledger == INSTANCE LaunchLedger
            WITH Terms <- Params, NoTerms <- NoParams, bonds <- Committed.total,
                 terms <- [t \in Tokens |-> Committed.token[t].terms]

\* What the chain shows between transactions is a sequence of whole launches,
\* one bond each, with terms that never change: see LaunchLedger.
LaunchesAreAtomic == Ledger!Spec
=============================================================================
