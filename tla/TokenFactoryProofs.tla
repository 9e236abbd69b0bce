--------------------------- MODULE TokenFactoryProofs ---------------------------
(***************************************************************************)
(* Proofs about TokenFactory.  A call of deployToken may end in a revert    *)
(* that restores the world it began in, so the invariant speaks of every    *)
(* world: the present one and those kept on the stack.  Each of them is     *)
(* sound, and terms only accumulate from one to the next.                   *)
(***************************************************************************)
EXTENDS TokenFactory, SumProofs, FiniteSetTheorems, SequenceTheorems, TLAPS

\* What is true of the world whenever other code can look at it.
Sound(w) ==
  /\ w \in WorldType
  /\ Accounted(w)
  /\ Forwarded(w)
  /\ \A t \in Tokens \ {Template} : w.token[t].terms # NoParams <=> w.token[t].state = "live"
  /\ \A s \in Salts : /\ w.token[s].state # "raw"
                      /\ w.token[s].state = "live" => SharesSum(w.token[s].terms) = Rate
  /\ w.token[Template].state = "live" /\ w.token[Template].terms = NoParams

\* w comes after v: what has terms in v has the same terms in w.
Grows(v, w) ==
  \A t \in Tokens : v.token[t].terms # NoParams => w.token[t].terms = v.token[t].terms

IInv ==
  /\ stack \in Seq(WorldType) /\ Len(stack) <= MaxDepth /\ calls \in 0 .. MaxCalls
  /\ Sound(world)
  /\ \A k \in 1 .. Len(stack) : Sound(stack[k]) /\ Grows(stack[k], world)
  /\ \A j, k \in 1 .. Len(stack) : j <= k => Grows(stack[j], stack[k])

-----------------------------------------------------------------------------
(* Sets and numbers.                                                        *)

\* There are finitely many tokens to launch.
LEMMA SaltsFinite == IsFiniteSet(Salts)
<1> DEFINE D == Accounts \X Params
           f == [x \in D |-> SaltOf(x[1], x[2])]
<1>1. IsFiniteSet(D)
  BY AccountsAssumption, FS_Product
<1>2. f \in Surjection(D, Salts)
  <2>1. f \in [D -> Salts]
    BY DEF Salts
  <2>2. ASSUME NEW s \in Salts PROVE \E x \in D : f[x] = s
    <3>1. PICK a \in Accounts, p \in Params : s = SaltOf(a, p)
      BY DEF Salts
    <3>2. <<a, p>> \in D /\ f[<<a, p>>] = s
      BY <3>1
    <3> QED BY <3>2
  <2> QED BY <2>1, <2>2 DEF Surjection
<1> HIDE DEF D, f
<1> QED BY <1>1, <1>2, FS_Surjection

LEMMA TokenKinds ==
  /\ Salts \subseteq Tokens /\ Template \in Tokens /\ Template \notin Salts
  /\ Foreign \subseteq Tokens /\ Foreign \cap Salts = {} /\ Template \notin Foreign
BY TokensAssumption DEF Tokens

LEMMA SaltInSalts ==
  ASSUME NEW a \in Accounts, NEW p \in Params
  PROVE  SaltOf(a, p) \in Salts /\ SaltOf(a, p)[1] = a
BY DEF Salts, SaltOf

LEMMA NoNewLaunch ==
  /\ Cardinality({}) = 0 /\ Bond * 0 = 0
BY FS_EmptySet, NumbersAssumption

LEMMA NextBond ==
  ASSUME NEW n \in Nat
  PROVE  Bond * (n + 1) = Bond * n + Bond
BY NumbersAssumption

LEMMA BondSums ==
  ASSUME NEW m \in Nat, NEW n \in Nat
  PROVE  Bond * n = Bond * m + Bond * (n - m)
BY NumbersAssumption

LEMMA LaunchedFinite ==
  ASSUME NEW w, NEW a
  PROVE  /\ IsFiniteSet(LaunchedIn(w)) /\ Cardinality(LaunchedIn(w)) \in Nat
         /\ IsFiniteSet(LaunchedBy(w, a)) /\ Cardinality(LaunchedBy(w, a)) \in Nat
<1>1. LaunchedIn(w) \in SUBSET Salts /\ LaunchedBy(w, a) \in SUBSET Salts
  BY DEF LaunchedIn, LaunchedBy
<1> QED BY <1>1, SaltsFinite, FS_Subset, FS_CardinalityType

-----------------------------------------------------------------------------
(* Tokens and worlds.                                                       *)

\* A transfer that is allowed keeps every balance a word.
LEMMA MovedType ==
  ASSUME NEW b \in [Accounts -> 0 .. Word - 1], NEW from \in Accounts, NEW to \in Accounts,
         NEW v \in Values, CanMove(b, from, to, v)
  PROVE  Moved(b, from, to, v) \in [Accounts -> 0 .. Word - 1]
BY NumbersAssumption DEF CanMove, Moved

LEMMA NewTokenType ==
  ASSUME NEW state \in {"absent", "raw", "live"}
  PROVE  /\ Token(state) \in TokenType
         /\ Token(state).state = state /\ Token(state).terms = NoParams
BY NumbersAssumption DEF Token, TokenType, NoBalance, NoAllowance

\* initialize() makes a live token with the given terms.
LEMMA InitializedType ==
  ASSUME NEW token \in TokenType, NEW d \in Accounts, NEW p \in Params, WellFormed(p)
  PROVE  /\ Initialized(token, d, p) \in TokenType
         /\ Initialized(token, d, p).state = "live"
         /\ Initialized(token, d, p).terms = p
<1>1. p.supply \in Nat
  <2>1. p \in ParamType
    BY ParamsAssumption
  <2> QED BY <2>1 DEF ParamType
<1>2. p.supply * Scale \in Nat
  BY <1>1, NumbersAssumption
<1>3. p.supply * Scale \in 0 .. Word - 1
  BY <1>2, NumbersAssumption DEF WellFormed
<1> DEFINE n == p.supply * Scale
<1>4. n \in 0 .. Word - 1
  BY <1>3
<1>5. Initialized(token, d, p) = [token EXCEPT !.state = "live", !.terms = p, !.supply = n,
                                               !.balance = [token.balance EXCEPT ![d] = n]]
  BY DEF Initialized, TokenType
<1> HIDE DEF n
<1>6. [token.balance EXCEPT ![d] = n] \in [Accounts -> 0 .. Word - 1]
  BY <1>4 DEF TokenType
<1> QED BY <1>4, <1>5, <1>6 DEF TokenType

\* Changing a token in the world changes nothing else.
LEMMA WithTokenType ==
  ASSUME world \in WorldType, NEW t \in Tokens, NEW token \in TokenType
  PROVE  /\ WithToken(t, token) \in WorldType
         /\ WithToken(t, token).token[t] = token
         /\ \A u \in Tokens \ {t} : WithToken(t, token).token[u] = world.token[u]
         /\ WithToken(t, token).total = world.total /\ WithToken(t, token).by = world.by
         /\ WithToken(t, token).held = world.held /\ WithToken(t, token).paid = world.paid
<1> DEFINE tokens == [world.token EXCEPT ![t] = token]
<1>1. tokens \in [Tokens -> TokenType] /\ tokens[t] = token
      /\ \A u \in Tokens \ {t} : tokens[u] = world.token[u]
  BY DEF WorldType
<1>2. WithToken(t, token) = [world EXCEPT !.token = tokens]
  BY DEF WithToken, WorldType
<1> HIDE DEF tokens
<1> QED BY <1>1, <1>2 DEF WorldType

\* What the bond ledger counts depends on which salts are launched only.
LEMMA SameLaunches ==
  ASSUME NEW v, NEW w, Accounted(v), LaunchedIn(w) = LaunchedIn(v),
         w.total = v.total, w.by = v.by
  PROVE  Accounted(w)
<1>1. \A a \in Accounts : LaunchedBy(w, a) = LaunchedBy(v, a)
  BY DEF LaunchedBy
<1> QED BY <1>1 DEF Accounted

LEMMA GrowsTransitive ==
  ASSUME NEW u, NEW v, NEW w, Grows(u, v), Grows(v, w)
  PROVE  Grows(u, w)
BY DEF Grows

LEMMA GrowsReflexive == ASSUME NEW w PROVE Grows(w, w)
BY DEF Grows

-----------------------------------------------------------------------------
(* One call.                                                                *)

\* A call on one token that leaves its terms alone, or that works on a clone
\* made elsewhere that has none yet, keeps the world sound.
LEMMA TokenCallSound ==
  ASSUME Sound(world), NEW t \in Tokens, NEW token \in TokenType,
         \/ token.state = world.token[t].state /\ token.terms = world.token[t].terms
         \/ /\ t \in Foreign /\ world.token[t].terms = NoParams
            /\ token.terms # NoParams <=> token.state = "live"
  PROVE  Sound(WithToken(t, token)) /\ Grows(world, WithToken(t, token))
<1> DEFINE w == WithToken(t, token)
<1>1. /\ w \in WorldType /\ w.token[t] = token
      /\ \A u \in Tokens \ {t} : w.token[u] = world.token[u]
      /\ w.total = world.total /\ w.by = world.by
      /\ w.held = world.held /\ w.paid = world.paid
  BY WithTokenType DEF Sound
<1> HIDE DEF w
<1>2. \A s \in Salts : w.token[s].state = world.token[s].state /\ w.token[s].terms = world.token[s].terms
  BY <1>1, TokenKinds
<1>3. Accounted(w)
  <2>1. LaunchedIn(w) = LaunchedIn(world)
    BY <1>2 DEF LaunchedIn
  <2> QED BY <1>1, <2>1, SameLaunches DEF Sound
<1>4. Forwarded(w)
  BY <1>1 DEF Sound, Forwarded
<1>5. \A u \in Tokens \ {Template} : w.token[u].terms # NoParams <=> w.token[u].state = "live"
  BY <1>1 DEF Sound
<1>6. w.token[Template].state = "live" /\ w.token[Template].terms = NoParams
  BY <1>1, TokenKinds DEF Sound
<1>7. \A s \in Salts : /\ w.token[s].state # "raw"
                       /\ w.token[s].state = "live" => SharesSum(w.token[s].terms) = Rate
  BY <1>2 DEF Sound
<1>8. Grows(world, w)
  BY <1>1 DEF Grows
<1> QED BY <1>1, <1>3, <1>4, <1>5, <1>6, <1>7, <1>8 DEF Sound, w

\* What an ERC-20 call makes of a token: balances move, or nothing but an
\* allowance changes.
CallOf(T, token) ==
  /\ token.state = T.state /\ token.terms = T.terms /\ token.supply = T.supply
  /\ \/ token.balance = T.balance
     \/ \E from, to \in Accounts, v \in Values :
          CanMove(T.balance, from, to, v) /\ token.balance = Moved(T.balance, from, to, v)

LEMMA TransferToken ==
  ASSUME NEW T \in TokenType, NEW from \in Accounts, NEW to \in Accounts, NEW v \in Values,
         CanMove(T.balance, from, to, v)
  PROVE  LET token == [T EXCEPT !.balance = Moved(T.balance, from, to, v)]
         IN token \in TokenType /\ CallOf(T, token)
<1> DEFINE moved == Moved(T.balance, from, to, v)
           token == [T EXCEPT !.balance = moved]
<1>1. moved \in [Accounts -> 0 .. Word - 1]
  <2>1. T.balance \in [Accounts -> 0 .. Word - 1]
    BY DEF TokenType
  <2> QED BY <2>1, MovedType
<1>2. \E f, g \in Accounts, u \in Values :
        CanMove(T.balance, f, g, u) /\ moved = Moved(T.balance, f, g, u)
  OBVIOUS
<1> HIDE DEF moved
<1>3. /\ token \in TokenType /\ token.balance = moved
      /\ token.state = T.state /\ token.terms = T.terms /\ token.supply = T.supply
  BY <1>1 DEF TokenType
<1>4. CallOf(T, token)
  BY <1>2, <1>3 DEF CallOf
<1> QED BY <1>3, <1>4 DEF moved

LEMMA Erc20Token ==
  ASSUME Sound(world), NEW a \in Accounts, NEW t \in Tokens, Erc20(a, t)
  PROVE  \E token \in TokenType : world' = WithToken(t, token) /\ CallOf(world.token[t], token)
<1> DEFINE T == world.token[t]
<1>1. T \in TokenType
  BY DEF Sound, WorldType
<1>2. PICK b \in Accounts, v \in Values :
        \/ Transfer(a, t, b, v)
        \/ Approve(a, t, b, v)
        \/ \E c \in Accounts : TransferFrom(a, t, b, c, v)
  BY DEF Erc20
<1>3. v \in 0 .. Word - 1
  BY NumbersAssumption
<1>4. CASE Transfer(a, t, b, v)
  <2> DEFINE token == [T EXCEPT !.balance = Moved(T.balance, a, b, v)]
  <2>1. world' = WithToken(t, token) /\ CanMove(T.balance, a, b, v)
    BY <1>1, <1>4 DEF Transfer, TokenType
  <2>2. token \in TokenType /\ CallOf(T, token)
    <3> HIDE DEF T
    <3> QED BY <1>1, <2>1, TransferToken
  <2> QED BY <2>1, <2>2
<1>5. CASE Approve(a, t, b, v)
  <2> DEFINE spent == [T.allowance EXCEPT ![a][b] = v]
             token == [T EXCEPT !.allowance = spent]
  <2>1. T.allowance \in [Accounts -> [Accounts -> 0 .. Word - 1]]
    BY <1>1 DEF TokenType
  <2>2. spent \in [Accounts -> [Accounts -> 0 .. Word - 1]]
    BY <1>3, <2>1
  <2>3. world' = WithToken(t, token)
    BY <1>1, <1>5 DEF Approve, TokenType
  <2> HIDE DEF spent
  <2>4. token \in TokenType /\ CallOf(T, token)
    BY <1>1, <2>2 DEF TokenType, CallOf
  <2> QED BY <2>3, <2>4
<1>6. ASSUME NEW c \in Accounts, TransferFrom(a, t, b, c, v)
      PROVE  \E token \in TokenType : world' = WithToken(t, token) /\ CallOf(T, token)
  <2> DEFINE charged == Charged(T, b, a, v)
  <2>1. /\ charged \in TokenType /\ charged.balance = T.balance
        /\ charged.state = T.state /\ charged.terms = T.terms /\ charged.supply = T.supply
    <3>1. CASE T.allowance[b][a] = Word - 1
      BY <1>1, <3>1 DEF Charged
    <3>2. CASE T.allowance[b][a] # Word - 1
      <4> DEFINE left == [T.allowance EXCEPT ![b][a] = T.allowance[b][a] - v]
      <4>1. T.allowance \in [Accounts -> [Accounts -> 0 .. Word - 1]]
        BY <1>1 DEF TokenType
      <4>2. v <= T.allowance[b][a]
        BY <1>6, <3>2 DEF TransferFrom, Allowed
      <4>3. T.allowance[b][a] - v \in 0 .. Word - 1
        <5>1. T.allowance[b][a] \in 0 .. Word - 1
          BY <4>1
        <5> QED BY <1>3, <4>2, <5>1, NumbersAssumption
      <4>4. left \in [Accounts -> [Accounts -> 0 .. Word - 1]]
        BY <4>1, <4>3
      <4>5. charged = [T EXCEPT !.allowance = left]
        BY <1>1, <3>2, <4>1 DEF Charged, TokenType
      <4> HIDE DEF left, charged
      <4> QED BY <1>1, <4>4, <4>5 DEF TokenType
    <3> QED BY <3>1, <3>2
  <2> DEFINE token == [charged EXCEPT !.balance = Moved(charged.balance, b, c, v)]
  <2>2. world' = WithToken(t, token) /\ CanMove(T.balance, b, c, v)
    BY <1>6 DEF TransferFrom
  <2> HIDE DEF charged
  <2>3. token \in TokenType /\ CallOf(charged, token)
    BY <2>1, <2>2, TransferToken
  <2> HIDE DEF token
  <2>4. CallOf(T, token)
    BY <2>1, <2>3 DEF CallOf
  <2> QED BY <2>2, <2>3, <2>4
<1> QED BY <1>2, <1>4, <1>5, <1>6

\* The ERC-20 calls.
LEMMA Erc20Sound ==
  ASSUME Sound(world), calls \in 0 .. MaxCalls,
         NEW a \in Accounts, NEW t \in Tokens, Erc20(a, t)
  PROVE  Sound(world') /\ Grows(world, world') /\ stack' = stack /\ calls' \in 0 .. MaxCalls
<1>1. Call(a, t)
  BY Zenon DEF Erc20, Transfer, Approve, TransferFrom
<1>2. stack' = stack /\ calls' \in 0 .. MaxCalls
  BY <1>1, NumbersAssumption DEF Call
<1>3. PICK token \in TokenType : world' = WithToken(t, token) /\ CallOf(world.token[t], token)
  BY Erc20Token
<1>4. token.state = world.token[t].state /\ token.terms = world.token[t].terms
  BY <1>3 DEF CallOf
<1> QED BY <1>2, <1>3, <1>4, TokenCallSound

\* A clone made elsewhere.
LEMMA CloneSound ==
  ASSUME Sound(world), NEW a \in Accounts, NEW t \in Foreign, CloneElsewhere(a, t)
  PROVE  Sound(world') /\ Grows(world, world')
<1>1. t \in Tokens \ {Template} /\ Token("raw") \in TokenType
  BY TokenKinds, NewTokenType
<1>2. world.token[t].terms = NoParams
  BY <1>1 DEF Sound, CloneElsewhere
<1>3. world' = WithToken(t, Token("raw"))
  BY DEF CloneElsewhere
<1> QED BY <1>1, <1>2, <1>3, NewTokenType, TokenCallSound

\* Only a clone made elsewhere can be initialized from outside: the template is
\* sealed and what the factory makes is live when anybody can reach it.
LEMMA InitializeSound ==
  ASSUME Sound(world), NEW a \in Accounts, NEW d \in Accounts, NEW t \in Tokens, NEW p \in Params,
         Initialize(a, t, d, p)
  PROVE  Sound(world') /\ Grows(world, world')
<1>1. t \in Foreign
  BY DEF Sound, Initialize, Uninitialized, Tokens
<1>2. world.token[t] \in TokenType /\ world.token[t].terms = NoParams
  BY <1>1, TokenKinds DEF Sound, WorldType, Initialize, Uninitialized
<1> DEFINE token == Initialized(world.token[t], d, p)
<1>3. token \in TokenType /\ token.state = "live" /\ token.terms = p
  BY <1>2, InitializedType DEF Initialize
<1>4. token.terms # NoParams
  BY <1>3, ParamsAssumption
<1>5. world' = WithToken(t, token)
  BY DEF Initialize
<1> HIDE DEF token
<1> QED BY <1>1, <1>2, <1>3, <1>4, <1>5, TokenCallSound

\* A deployment adds one token and one bond to the ledger, and pays it out.
LEMMA DeploySound ==
  ASSUME Sound(world), NEW a \in Accounts, NEW p \in Params, NEW value \in Payments,
         Deploy(a, p, value)
  PROVE  Sound(world') /\ Grows(world, world')
<1> DEFINE s == SaltOf(a, p)
           token == Initialized(Token("raw"), a, p)
<1>1. s \in Salts /\ s \in Tokens /\ s # Template /\ s[1] = a
  BY SaltInSalts, TokenKinds
<1>2. token \in TokenType /\ token.state = "live" /\ token.terms = p /\ p # NoParams
  BY NewTokenType, InitializedType, ParamsAssumption DEF Deploy
<1>3. world.token[s].state = "absent" /\ world.token[s].terms = NoParams
  BY <1>1 DEF Deploy, Vacant, Sound
<1>4. /\ world \in WorldType /\ value = Bond /\ Bond \in Nat
      /\ world.total + Bond < Word /\ SharesSum(p) = Rate
  BY NumbersAssumption DEF Deploy, Accepts, Sound
<1> DEFINE tokens == [world.token EXCEPT ![s] = token]
           paidBy == [world.by EXCEPT ![a] = world.by[a] + Bond]
<1>5. /\ tokens \in [Tokens -> TokenType] /\ tokens[s] = token
      /\ \A u \in Tokens \ {s} : tokens[u] = world.token[u]
  BY <1>1, <1>2, <1>4 DEF WorldType
<1>6. /\ paidBy \in [Accounts -> Nat] /\ paidBy[a] = world.by[a] + Bond
      /\ \A b \in Accounts \ {a} : paidBy[b] = world.by[b]
  BY <1>4 DEF WorldType
<1>7. world' = [world EXCEPT !.total = world.total + Bond, !.by = paidBy,
                             !.held = world.held + value - Bond, !.paid = world.paid + Bond,
                             !.token = tokens]
  BY <1>4 DEF Deploy, WorldType
<1> HIDE DEF s, token, tokens, paidBy
<1>8. /\ world'.total = world.total + Bond /\ world'.by = paidBy
      /\ world'.held = world.held + value - Bond /\ world'.paid = world.paid + Bond
      /\ world'.token = tokens
  BY <1>4, <1>7 DEF WorldType
<1>9. world' \in WorldType
  <2>1. /\ world.total \in 0 .. Word - 1 /\ world.held \in Nat /\ world.paid \in Nat
    BY <1>4 DEF WorldType
  <2>2. /\ world.total + Bond \in 0 .. Word - 1 /\ world.held + value - Bond \in Nat
        /\ world.paid + Bond \in Nat
    BY <1>4, <2>1, NumbersAssumption
  <2> QED BY <1>4, <1>5, <1>6, <1>7, <2>2 DEF WorldType
<1>10. Accounted(world')
  <2>1. LaunchedIn(world') = LaunchedIn(world) \cup {s} /\ s \notin LaunchedIn(world)
    BY <1>1, <1>2, <1>3, <1>5, <1>8, TokenKinds DEF LaunchedIn
  <2>2. Cardinality(LaunchedIn(world')) = Cardinality(LaunchedIn(world)) + 1
    BY <2>1, LaunchedFinite, FS_AddElement
  <2>3. world'.total = Bond * Cardinality(LaunchedIn(world'))
    BY <1>8, <2>2, LaunchedFinite, NextBond DEF Sound, Accounted
  <2>4. LaunchedBy(world', a) = LaunchedBy(world, a) \cup {s} /\ s \notin LaunchedBy(world, a)
    BY <1>1, <2>1 DEF LaunchedBy
  <2>5. Cardinality(LaunchedBy(world', a)) = Cardinality(LaunchedBy(world, a)) + 1
    BY <2>4, LaunchedFinite, FS_AddElement
  <2>6. world'.by[a] = Bond * Cardinality(LaunchedBy(world', a))
    BY <1>6, <1>8, <2>5, LaunchedFinite, NextBond DEF Sound, Accounted
  <2>7. ASSUME NEW b \in Accounts \ {a}
        PROVE  world'.by[b] = Bond * Cardinality(LaunchedBy(world', b))
    <3>1. LaunchedBy(world', b) = LaunchedBy(world, b)
      BY <1>1, <2>1 DEF LaunchedBy
    <3> QED BY <1>6, <1>8, <3>1 DEF Sound, Accounted
  <2> QED BY <2>3, <2>6, <2>7 DEF Accounted
<1>11. Forwarded(world')
  <2>1. world.held = 0 /\ world.paid = world.total
    BY DEF Sound, Forwarded
  <2> QED BY <1>4, <1>8, <2>1 DEF Forwarded
<1>12. \A t \in Tokens \ {Template} : world'.token[t].terms # NoParams <=> world'.token[t].state = "live"
  BY <1>2, <1>5, <1>8 DEF Sound
<1>13. \A t \in Salts : /\ world'.token[t].state # "raw"
                        /\ world'.token[t].state = "live" => SharesSum(world'.token[t].terms) = Rate
  BY <1>2, <1>4, <1>5, <1>8, TokenKinds DEF Sound
<1>14. world'.token[Template].state = "live" /\ world'.token[Template].terms = NoParams
  BY <1>1, <1>5, <1>8, TokenKinds DEF Sound
<1>15. Grows(world, world')
  BY <1>3, <1>5, <1>8 DEF Grows
<1> QED BY <1>9, <1>10, <1>11, <1>12, <1>13, <1>14, <1>15 DEF Sound

\* The empty chain.
LEMMA InitSound ==
  ASSUME Init
  PROVE  Sound(world)
<1> DEFINE tokens == [t \in Tokens |-> IF t = Template THEN Sealed ELSE Token("absent")]
<1>1. tokens \in [Tokens -> TokenType]
  BY NewTokenType DEF Sealed
<1>2. /\ tokens[Template] = Token("live")
      /\ \A t \in Tokens \ {Template} : tokens[t] = Token("absent")
  BY TokenKinds DEF Sealed
<1>3. world = [total |-> 0, by |-> NoBalance, held |-> 0, paid |-> 0, token |-> tokens]
  BY DEF Init
<1> HIDE DEF tokens
<1>4. NoBalance \in [Accounts -> Nat] /\ \A a \in Accounts : NoBalance[a] = 0
  BY DEF NoBalance
<1>5. world \in WorldType
  BY <1>1, <1>3, <1>4, NumbersAssumption DEF WorldType
<1>6. Accounted(world)
  <2>1. LaunchedIn(world) = {} /\ \A a : LaunchedBy(world, a) = {}
    BY <1>2, <1>3, NewTokenType, TokenKinds DEF LaunchedIn, LaunchedBy
  <2> QED BY <1>3, <1>4, <2>1, NoNewLaunch DEF Accounted
<1>7. Forwarded(world)
  BY <1>3 DEF Forwarded
<1>8. \A t \in Tokens \ {Template} : world.token[t].terms # NoParams <=> world.token[t].state = "live"
  BY <1>2, <1>3, NewTokenType
<1>9. /\ \A s \in Salts : /\ world.token[s].state # "raw"
                          /\ world.token[s].state = "live" => SharesSum(world.token[s].terms) = Rate
      /\ world.token[Template].state = "live" /\ world.token[Template].terms = NoParams
  BY <1>2, <1>3, NewTokenType, TokenKinds
<1> QED BY <1>5, <1>6, <1>7, <1>8, <1>9 DEF Sound

-----------------------------------------------------------------------------
(* The stack of open calls.                                                 *)

\* A call that opens and closes no deployment.
LEMMA SameStack ==
  ASSUME IInv, Sound(world'), Grows(world, world'), stack' = stack, calls' \in 0 .. MaxCalls
  PROVE  IInv'
<1>1. \A k \in 1 .. Len(stack) : Grows(stack[k], world')
  BY GrowsTransitive DEF IInv
<1> QED BY <1>1 DEF IInv

\* A deployment that opens: the world at its entry is kept.
LEMMA StackPushed ==
  ASSUME IInv, Sound(world'), Grows(world, world'), stack' = Append(stack, world),
         Len(stack) < MaxDepth, calls' = calls
  PROVE  IInv'
<1> DEFINE n == Len(stack)
<1>1. n \in Nat /\ world \in WorldType
  BY LenProperties DEF IInv, Sound
<1>2. /\ stack' \in Seq(WorldType) /\ Len(stack') = n + 1
      /\ stack'[n + 1] = world
      /\ \A k \in 1 .. n : stack'[k] = stack[k]
  BY <1>1, AppendProperties DEF IInv
<1>3. \A k \in 1 .. n : Grows(stack[k], world')
  BY GrowsTransitive DEF IInv
<1> HIDE DEF n
<1>4. \A k \in 1 .. n + 1 : k = n + 1 \/ k \in 1 .. n
  BY <1>1
<1>5. \A k \in 1 .. n + 1 : Sound(stack'[k]) /\ Grows(stack'[k], world')
  BY <1>2, <1>3, <1>4 DEF IInv, n
<1>6. \A j, k \in 1 .. n + 1 : j <= k => Grows(stack'[j], stack'[k])
  <2> SUFFICES ASSUME NEW j \in 1 .. n + 1, NEW k \in 1 .. n + 1, j <= k
               PROVE  Grows(stack'[j], stack'[k])
    OBVIOUS
  <2>1. CASE j = n + 1
    BY <1>1, <1>2, <2>1, GrowsReflexive
  <2>2. CASE j \in 1 .. n /\ k = n + 1
    BY <1>2, <2>2 DEF IInv, n
  <2>3. CASE j \in 1 .. n /\ k \in 1 .. n
    BY <1>2, <2>3 DEF IInv, n
  <2> QED BY <1>4, <2>1, <2>2, <2>3
<1>7. Len(stack') <= MaxDepth
  BY <1>1, <1>2, NumbersAssumption DEF n
<1> QED BY <1>2, <1>5, <1>6, <1>7 DEF IInv

\* What closing the innermost deployment leaves.
LEMMA StackPopped ==
  ASSUME stack \in Seq(WorldType), stack # <<>>
  PROVE  /\ Len(stack) \in Nat /\ Len(stack) >= 1
         /\ Caller \in Seq(WorldType) /\ Len(Caller) = Len(stack) - 1
         /\ \A k \in 1 .. Len(Caller) : Caller[k] = stack[k]
<1>1. Len(stack) \in Nat /\ Len(stack) >= 1 /\ \A k \in 1 .. Len(stack) : stack[k] \in WorldType
  BY LenProperties, ElementOfSeq
<1> DEFINE n == Len(stack) - 1
<1>2. n \in Nat /\ \A k \in 1 .. n : stack[k] \in WorldType
  BY <1>1
<1>3. /\ SubSeq(stack, 1, n) \in Seq(WorldType)
      /\ Len(SubSeq(stack, 1, n)) = IF 1 <= n THEN n - 1 + 1 ELSE 0
      /\ \A k \in 1 .. n - 1 + 1 : SubSeq(stack, 1, n)[k] = stack[1 + k - 1]
  <2> HIDE DEF n
  <2>1. n \in Int /\ 1 \in Int
    BY <1>2
  <2> QED BY <1>2, <2>1, SubSeqProperties
<1>4. Caller = SubSeq(stack, 1, n)
  BY DEF Caller
<1> HIDE DEF n
<1>5. Len(Caller) = n /\ \A k \in 1 .. n : Caller[k] = stack[k]
  BY <1>2, <1>3, <1>4
<1> QED BY <1>1, <1>3, <1>4, <1>5 DEF n

LEMMA ReturnInv ==
  ASSUME IInv, SinkReturns
  PROVE  IInv'
<1>1. stack' = Caller /\ world' = world /\ calls' = calls /\ stack # <<>>
  BY DEF SinkReturns
<1>2. /\ Len(stack) \in Nat /\ Caller \in Seq(WorldType) /\ Len(Caller) = Len(stack) - 1
      /\ \A k \in 1 .. Len(Caller) : Caller[k] = stack[k]
  BY <1>1, StackPopped DEF IInv
<1>3. 1 .. Len(Caller) \subseteq 1 .. Len(stack) /\ Len(Caller) <= MaxDepth
  BY <1>2, NumbersAssumption DEF IInv
<1> QED BY <1>1, <1>2, <1>3 DEF IInv

\* The world that a revert brings back comes after those still on the stack.
LEMMA RevertInv ==
  ASSUME IInv, SinkFails
  PROVE  IInv'
<1>1. stack' = Caller /\ world' = stack[Len(stack)] /\ calls' = calls /\ stack # <<>>
  BY DEF SinkFails, AfterFailure
<1>2. /\ Len(stack) \in Nat /\ Len(stack) >= 1
      /\ Caller \in Seq(WorldType) /\ Len(Caller) = Len(stack) - 1
      /\ \A k \in 1 .. Len(Caller) : Caller[k] = stack[k]
  BY <1>1, StackPopped DEF IInv
<1>3. /\ 1 .. Len(Caller) \subseteq 1 .. Len(stack) /\ Len(Caller) <= MaxDepth
      /\ Len(stack) \in 1 .. Len(stack)
      /\ \A k \in 1 .. Len(Caller) : k <= Len(stack)
  BY <1>2, NumbersAssumption DEF IInv
<1>4. Sound(world')
  BY <1>1, <1>3 DEF IInv
<1>5. \A k \in 1 .. Len(Caller) : Grows(Caller[k], world')
  BY <1>1, <1>2, <1>3 DEF IInv
<1> QED BY <1>1, <1>2, <1>3, <1>4, <1>5 DEF IInv

LEMMA StepInv ==
  ASSUME IInv, [Next]_vars
  PROVE  IInv'
<1>1. Sound(world) /\ calls \in 0 .. MaxCalls
  BY DEF IInv
<1>2. ASSUME NEW a \in Accounts, NEW p \in Params, NEW value \in Payments, Deploy(a, p, value)
      PROVE  IInv'
  <2>1. stack' = Append(stack, world) /\ Len(stack) < MaxDepth /\ calls' = calls
    BY <1>2 DEF Deploy
  <2> QED BY <1>1, <1>2, <2>1, DeploySound, StackPushed
<1>3. CASE SinkReturns
  BY <1>3, ReturnInv
<1>4. CASE SinkFails
  BY <1>4, RevertInv
<1>5. ASSUME NEW a \in Accounts, NEW t \in Foreign, CloneElsewhere(a, t)
      PROVE  IInv'
  <2>1. stack' = stack /\ calls' = calls
    BY <1>5 DEF CloneElsewhere
  <2> QED BY <1>1, <1>5, <2>1, CloneSound, SameStack
<1>6. ASSUME NEW a \in Accounts, NEW d \in Accounts, NEW t \in Tokens, NEW p \in Params,
             Initialize(a, t, d, p)
      PROVE  IInv'
  <2>1. stack' = stack /\ calls' = calls
    BY <1>6 DEF Initialize
  <2> QED BY <1>1, <1>6, <2>1, InitializeSound, SameStack
<1>7. ASSUME NEW a \in Accounts, NEW t \in Tokens, Erc20(a, t)
      PROVE  IInv'
  BY <1>1, <1>7, Erc20Sound, SameStack
<1>8. CASE UNCHANGED vars
  BY <1>8 DEF vars, IInv
<1> QED BY <1>2, <1>3, <1>4, <1>5, <1>6, <1>7, <1>8 DEF Next

LEMMA InitInv == Init => IInv
<1> SUFFICES ASSUME Init PROVE IInv
  OBVIOUS
<1>1. stack \in Seq(WorldType) /\ Len(stack) = 0 /\ calls = 0
  BY EmptySeq DEF Init
<1> QED BY <1>1, InitSound, NumbersAssumption DEF IInv

LEMMA Invariance == Spec => []IInv
BY InitInv, StepInv, PTL DEF Spec

-----------------------------------------------------------------------------
(* Theorems.                                                                *)

\* Every word of storage fits its width, in the world and in every world that a
\* revert may bring back (TokenFactory.sol and TokenTemplate.sol).
THEOREM TypeCorrect == Spec => []TypeOK
<1>1. IInv => TypeOK
  BY DEF IInv, Sound, TypeOK
<1> QED BY <1>1, Invariance, PTL

\* At every point where other code runs, also while the sink is paid and calls
\* deployToken again, the ledger holds one bond for each token and each deployer.
THEOREM BondsAlwaysAccounted == Spec => []BondsAccounted
<1>1. IInv => BondsAccounted
  BY DEF IInv, Sound, BondsAccounted
<1> QED BY <1>1, Invariance, PTL

\* Everything collected is with the sink and the factory holds nothing.
THEOREM BondsAlwaysForwarded == Spec => []BondsForwarded
<1>1. IInv => BondsForwarded
  BY DEF IInv, Sound, BondsForwarded
<1> QED BY <1>1, Invariance, PTL

-----------------------------------------------------------------------------
(* The supply.                                                              *)

\* The balances of a token add up to its supply, and one that is not initialized
\* has neither: that is what initialize() starts from.
Kept(token) ==
  /\ Sum(token.balance, Accounts) = token.supply
  /\ token.state # "live" => token.supply = 0 /\ \A a \in Accounts : token.balance[a] = 0

Conserved(w) == \A t \in Tokens : Kept(w.token[t])

\* A revert may restore any world of the stack.
SupplyInv == Conserved(world) /\ \A k \in 1 .. Len(stack) : Conserved(stack[k])

\* What one account loses the other gains, also when they are the same.
LEMMA MovedKeeps ==
  ASSUME NEW b \in [Accounts -> 0 .. Word - 1], NEW from \in Accounts, NEW to \in Accounts,
         NEW v \in Values
  PROVE  Sum(Moved(b, from, to, v), Accounts) = Sum(b, Accounts)
<1>1. v \in Int /\ -v \in Int /\ b \in [Accounts -> Int] /\ IsFiniteSet(Accounts)
  BY NumbersAssumption, AccountsAssumption
<1> DEFINE taken == [b EXCEPT ![from] = b[from] + (-v)]
<1>2. taken \in [Accounts -> Int]
  BY <1>1
<1>3. Moved(b, from, to, v) = [taken EXCEPT ![to] = taken[to] + v]
  <2>1. taken = [b EXCEPT ![from] = b[from] - v]
    BY <1>1
  <2> HIDE DEF taken
  <2> QED BY <2>1 DEF Moved
<1>4. Sum(taken, Accounts) = Sum(b, Accounts) + (-v)
  BY <1>1, SumAdd
<1>5. Sum(Moved(b, from, to, v), Accounts) = Sum(taken, Accounts) + v
  <2>1. ASSUME NEW f \in [Accounts -> Int]
        PROVE  Sum([f EXCEPT ![to] = f[to] + v], Accounts) = Sum(f, Accounts) + v
    BY <1>1, SumAdd
  <2> HIDE DEF taken
  <2>2. Sum([taken EXCEPT ![to] = taken[to] + v], Accounts) = Sum(taken, Accounts) + v
    BY <1>2, <2>1
  <2> QED BY <1>3, <2>2
<1> HIDE DEF taken
<1>6. Sum(b, Accounts) \in Int
  BY <1>1, SumType DEF IntOn
<1> QED BY <1>1, <1>4, <1>5, <1>6

LEMMA CallKeeps ==
  ASSUME NEW T \in TokenType, NEW token \in TokenType, Kept(T), CallOf(T, token)
  PROVE  Kept(token)
<1>1. T.balance \in [Accounts -> 0 .. Word - 1] /\ token.supply = T.supply /\ token.state = T.state
  BY DEF TokenType, CallOf
<1>2. CASE token.balance = T.balance
  BY <1>1, <1>2 DEF Kept
<1>3. CASE token.balance # T.balance
  <2>1. PICK from \in Accounts, to \in Accounts, v \in Values :
          CanMove(T.balance, from, to, v) /\ token.balance = Moved(T.balance, from, to, v)
    BY <1>3 DEF CallOf
  <2>2. Sum(token.balance, Accounts) = T.supply
    BY <1>1, <2>1, MovedKeeps DEF Kept
  <2>3. ASSUME T.state # "live"
        PROVE  \A a \in Accounts : token.balance[a] = 0
    <3>1. \A a \in Accounts : T.balance[a] = 0
      BY <2>3 DEF Kept
    <3>2. v = 0
      BY <2>1, <3>1, NumbersAssumption DEF CanMove
    <3> QED BY <1>1, <2>1, <3>1, <3>2 DEF Moved
  <2> QED BY <1>1, <2>2, <2>3 DEF Kept
<1> QED BY <1>2, <1>3

\* The deployer has the whole supply.
LEMMA InitializedKept ==
  ASSUME NEW token \in TokenType, Kept(token), token.state # "live",
         NEW d \in Accounts, NEW p \in Params, WellFormed(p)
  PROVE  Kept(Initialized(token, d, p))
<1> DEFINE n == p.supply * Scale
           held == [token.balance EXCEPT ![d] = n]
<1>1. n \in Int
  <2>1. p \in ParamType
    BY ParamsAssumption
  <2>2. p.supply \in Nat
    BY <2>1 DEF ParamType
  <2> QED BY <2>2, NumbersAssumption
<1> HIDE DEF n
<1>2. /\ token.balance \in [Accounts -> Int] /\ token.balance[d] = 0
      /\ Sum(token.balance, Accounts) = 0
  BY DEF TokenType, Kept
<1>3. Sum(held, Accounts) = Sum(token.balance, Accounts) + held[d] - token.balance[d]
  <2>1. /\ IntOn(token.balance, Accounts) /\ IntOn(held, Accounts)
        /\ \A a \in Accounts \ {d} : token.balance[a] = held[a]
    BY <1>1, <1>2 DEF IntOn
  <2>2. IsFiniteSet(Accounts)
    BY AccountsAssumption
  <2> HIDE DEF held
  <2> QED BY <2>1, <2>2, SumChange
<1>4. Sum(held, Accounts) = n
  <2>1. held[d] = n
    BY <1>2
  <2> QED BY <1>1, <1>2, <1>3, <2>1
<1> HIDE DEF held
<1>5. /\ Initialized(token, d, p).state = "live" /\ Initialized(token, d, p).supply = n
      /\ Initialized(token, d, p).balance = held
  BY DEF Initialized, TokenType, n, held
<1> QED BY <1>4, <1>5 DEF Kept

LEMMA NewTokenKept ==
  ASSUME NEW state \in {"absent", "raw", "live"}
  PROVE  Kept(Token(state))
<1>1. /\ Token(state).state = state /\ Token(state).supply = 0
      /\ Token(state).balance = NoBalance
  BY DEF Token
<1>2. \A a \in Accounts : NoBalance[a] = 0
  BY DEF NoBalance
<1>3. Sum(NoBalance, Accounts) = 0
  BY <1>2, AccountsAssumption, SumOfZeros
<1> QED BY <1>1, <1>2, <1>3 DEF Kept

\* A call that works on one token.
LEMMA WithTokenConserved ==
  ASSUME world \in WorldType, Conserved(world), NEW t \in Tokens, NEW token \in TokenType,
         Kept(token), world' = WithToken(t, token)
  PROVE  Conserved(world')
<1>1. /\ world'.token[t] = token
      /\ \A u \in Tokens \ {t} : world'.token[u] = world.token[u]
  BY WithTokenType
<1> QED BY <1>1 DEF Conserved

LEMMA DeployConserved ==
  ASSUME Sound(world), Conserved(world), NEW a \in Accounts, NEW p \in Params,
         NEW value \in Payments, Deploy(a, p, value)
  PROVE  Conserved(world')
<1> DEFINE s == SaltOf(a, p)
           token == Initialized(Token("raw"), a, p)
<1>1. s \in Tokens
  BY SaltInSalts, TokenKinds
<1>2. Kept(token)
  BY NewTokenType, NewTokenKept, InitializedKept DEF Deploy
<1>3. world'.token = [world.token EXCEPT ![s] = token]
  BY DEF Deploy, Sound, WorldType
<1>4. DOMAIN world.token = Tokens
  BY DEF Sound, WorldType
<1> HIDE DEF s, token
<1> QED BY <1>1, <1>2, <1>3, <1>4 DEF Conserved

LEMMA InitSupply == Init => SupplyInv
<1> SUFFICES ASSUME Init PROVE SupplyInv
  OBVIOUS
<1>1. Len(stack) = 0
  BY EmptySeq DEF Init
<1>2. \A t \in Tokens : world.token[t] = Token("live") \/ world.token[t] = Token("absent")
  BY DEF Init, Sealed
<1>3. Conserved(world)
  BY <1>2, NewTokenKept DEF Conserved
<1> QED BY <1>1, <1>3 DEF SupplyInv

LEMMA StepSupply ==
  ASSUME IInv, SupplyInv, [Next]_vars
  PROVE  SupplyInv'
<1>1. Sound(world) /\ world \in WorldType /\ \A t \in Tokens : world.token[t] \in TokenType
  BY DEF IInv, Sound, WorldType
<1>2. ASSUME Conserved(world'), stack' = stack
      PROVE  SupplyInv'
  BY <1>2 DEF SupplyInv
<1>3. ASSUME NEW a \in Accounts, NEW p \in Params, NEW value \in Payments, Deploy(a, p, value)
      PROVE  SupplyInv'
  <2>1. stack' = Append(stack, world)
    BY <1>3 DEF Deploy
  <2>2. Len(stack) \in Nat /\ stack \in Seq(WorldType)
    BY LenProperties DEF IInv
  <2>3. /\ Len(stack') = Len(stack) + 1 /\ stack'[Len(stack) + 1] = world
        /\ \A k \in 1 .. Len(stack) : stack'[k] = stack[k]
    BY <1>1, <2>1, <2>2, AppendProperties
  <2>4. \A k \in 1 .. Len(stack') : k = Len(stack) + 1 \/ k \in 1 .. Len(stack)
    BY <2>2, <2>3
  <2>5. Conserved(world')
    BY <1>1, <1>3, DeployConserved DEF SupplyInv
  <2>6. \A k \in 1 .. Len(stack') : Conserved(stack'[k])
    BY <2>3, <2>4 DEF SupplyInv
  <2> QED BY <2>5, <2>6 DEF SupplyInv
<1>4. CASE SinkReturns \/ SinkFails
  <2>1. stack' = Caller /\ stack # <<>>
    BY <1>4 DEF SinkReturns, SinkFails
  <2>2. /\ Len(stack) \in Nat /\ Len(stack) >= 1 /\ Len(Caller) = Len(stack) - 1
        /\ \A k \in 1 .. Len(Caller) : Caller[k] = stack[k]
    BY <2>1, StackPopped DEF IInv
  <2>3. Len(stack) \in 1 .. Len(stack) /\ 1 .. Len(Caller) \subseteq 1 .. Len(stack)
    BY <2>2
  <2>4. world' = world \/ world' = stack[Len(stack)]
    BY <1>4 DEF SinkReturns, SinkFails, AfterFailure
  <2> QED BY <2>1, <2>2, <2>3, <2>4 DEF SupplyInv
<1>5. ASSUME NEW a \in Accounts, NEW t \in Foreign, CloneElsewhere(a, t)
      PROVE  SupplyInv'
  <2>1. t \in Tokens /\ Token("raw") \in TokenType /\ Kept(Token("raw"))
    BY TokenKinds, NewTokenType, NewTokenKept
  <2>2. world' = WithToken(t, Token("raw")) /\ stack' = stack
    BY <1>5 DEF CloneElsewhere
  <2> QED BY <1>1, <1>2, <2>1, <2>2, WithTokenConserved DEF SupplyInv
<1>6. ASSUME NEW a \in Accounts, NEW d \in Accounts, NEW t \in Tokens, NEW p \in Params,
             Initialize(a, t, d, p)
      PROVE  SupplyInv'
  <2> DEFINE token == Initialized(world.token[t], d, p)
  <2>1. world.token[t].state # "live" /\ WellFormed(p)
    BY <1>6 DEF Initialize, Uninitialized
  <2>2. token \in TokenType /\ Kept(token)
    BY <1>1, <2>1, InitializedType, InitializedKept DEF SupplyInv, Conserved
  <2>3. world' = WithToken(t, token) /\ stack' = stack
    BY <1>6 DEF Initialize
  <2> HIDE DEF token
  <2> QED BY <1>1, <1>2, <2>2, <2>3, WithTokenConserved DEF SupplyInv
<1>7. ASSUME NEW a \in Accounts, NEW t \in Tokens, Erc20(a, t)
      PROVE  SupplyInv'
  <2>1. PICK token \in TokenType : world' = WithToken(t, token) /\ CallOf(world.token[t], token)
    BY <1>1, <1>7, Erc20Token
  <2>2. Kept(token)
    BY <1>1, <2>1, CallKeeps DEF SupplyInv, Conserved
  <2>3. stack' = stack
    BY <1>7, Zenon DEF Erc20, Transfer, Approve, TransferFrom, Call
  <2> QED BY <1>1, <1>2, <2>1, <2>2, <2>3, WithTokenConserved DEF SupplyInv
<1>8. CASE UNCHANGED vars
  BY <1>8 DEF vars, SupplyInv
<1> QED BY <1>3, <1>4, <1>5, <1>6, <1>7, <1>8 DEF Next

\* Whatever is transferred, approved, initialized or reverted, the balances of every
\* token add up to its supply (INV-SUP-1).
THEOREM SupplyAlwaysConserved == Spec => []SupplyConserved
<1>1. IInv /\ SupplyInv => SupplyConserved
  <2> SUFFICES ASSUME IInv, SupplyInv, NEW t \in Tokens
               PROVE  SumFunction(world.token[t].balance) = world.token[t].supply
    BY DEF SupplyConserved
  <2>1. DOMAIN world.token[t].balance = Accounts
    BY DEF IInv, Sound, WorldType, TokenType
  <2>2. Sum(world.token[t].balance, Accounts) = world.token[t].supply
    BY DEF SupplyInv, Conserved, Kept
  <2> QED BY <2>1, <2>2 DEF SumFunction, Sum
<1>2. IInv /\ SupplyInv /\ [Next]_vars => SupplyInv'
  BY StepSupply
<1> QED BY <1>1, <1>2, InitSupply, Invariance, PTL DEF Spec

-----------------------------------------------------------------------------
(* Refinement.                                                              *)

TermsIn(w) == [t \in Tokens |-> w.token[t].terms]

LEMMA NotEmpty ==
  ASSUME NEW S, NEW seq \in Seq(S), seq # <<>>
  PROVE  1 \in 1 .. Len(seq)
BY EmptySeq, LenProperties

LEMMA CommittedSound ==
  ASSUME IInv
  PROVE  Sound(Committed) /\ Grows(Committed, world)
<1>1. CASE stack = <<>>
  BY <1>1, GrowsReflexive DEF Committed, IInv
<1>2. CASE stack # <<>>
  <2>1. 1 \in 1 .. Len(stack)
    BY <1>2, NotEmpty DEF IInv
  <2> QED BY <1>2, <2>1 DEF Committed, IInv
<1> QED BY <1>1, <1>2

LEMMA CommittedSoundNext ==
  ASSUME IInv'
  PROVE  Sound(Committed')
<1>1. CASE stack' = <<>>
  BY <1>1 DEF Committed, IInv
<1>2. CASE stack' # <<>>
  <2>1. 1 \in 1 .. Len(stack')
    BY <1>2, NotEmpty DEF IInv
  <2> QED BY <1>2, <2>1 DEF Committed, IInv
<1> QED BY <1>1, <1>2

\* Closing the innermost deployment leaves the outermost one as it is.
LEMMA PoppedCommitted ==
  ASSUME stack \in Seq(WorldType), stack # <<>>, stack' = Caller
  PROVE  \/ Len(stack) = 1 /\ Committed' = world' /\ Committed = stack[Len(stack)]
         \/ Committed' = Committed
<1>1. /\ Len(stack) \in Nat /\ Len(stack) >= 1
      /\ Caller \in Seq(WorldType) /\ Len(Caller) = Len(stack) - 1
      /\ \A k \in 1 .. Len(Caller) : Caller[k] = stack[k]
  BY StackPopped
<1>2. CASE Len(stack) = 1
  <2>1. Caller = <<>>
    BY <1>1, <1>2, EmptySeq
  <2> QED BY <1>2, <2>1 DEF Committed
<1>3. CASE Len(stack) # 1
  <2>1. 1 \in 1 .. Len(Caller) /\ Caller # <<>>
    BY <1>1, <1>3, EmptySeq
  <2> QED BY <1>1, <2>1 DEF Committed
<1> QED BY <1>2, <1>3

\* What the chain shows between transactions only grows.
LEMMA CommittedGrows ==
  ASSUME IInv, [Next]_vars
  PROVE  Grows(Committed, Committed')
<1>1. /\ stack \in Seq(WorldType) /\ world \in WorldType /\ Sound(world)
      /\ calls \in 0 .. MaxCalls
  BY DEF IInv, Sound
<1>2. ASSUME stack' = stack, Grows(world, world')
      PROVE  Grows(Committed, Committed')
  BY <1>2, GrowsReflexive DEF Committed
<1>3. ASSUME NEW a \in Accounts, NEW p \in Params, NEW value \in Payments, Deploy(a, p, value)
      PROVE  Grows(Committed, Committed')
  <2>1. stack' = Append(stack, world)
    BY <1>3 DEF Deploy
  <2>2. /\ stack' # <<>> /\ Len(stack) \in Nat
        /\ stack'[Len(stack) + 1] = world
        /\ \A k \in 1 .. Len(stack) : stack'[k] = stack[k]
    BY <1>1, <2>1, AppendProperties, LenProperties
  <2>3. Committed' = Committed
    <3>1. CASE stack = <<>>
      BY <2>2, <3>1, EmptySeq DEF Committed
    <3>2. CASE stack # <<>>
      BY <1>1, <2>2, <3>2, StackPopped DEF Committed
    <3> QED BY <3>1, <3>2
  <2> QED BY <2>3, GrowsReflexive
<1>4. CASE SinkReturns
  BY <1>1, <1>4, PoppedCommitted, CommittedSound, GrowsReflexive DEF SinkReturns
<1>5. CASE SinkFails
  BY <1>1, <1>5, PoppedCommitted, GrowsReflexive DEF SinkFails, AfterFailure
<1>6. ASSUME NEW a \in Accounts, NEW t \in Foreign, CloneElsewhere(a, t)
      PROVE  Grows(Committed, Committed')
  BY <1>1, <1>2, <1>6, CloneSound DEF CloneElsewhere
<1>7. ASSUME NEW a \in Accounts, NEW d \in Accounts, NEW t \in Tokens, NEW p \in Params,
             Initialize(a, t, d, p)
      PROVE  Grows(Committed, Committed')
  <2>1. stack' = stack
    BY <1>7 DEF Initialize
  <2> QED BY <1>1, <1>2, <1>7, <2>1, InitializeSound
<1>8. ASSUME NEW a \in Accounts, NEW t \in Tokens, Erc20(a, t)
      PROVE  Grows(Committed, Committed')
  BY <1>1, <1>2, <1>8, Erc20Sound
<1>9. CASE UNCHANGED vars
  BY <1>9, GrowsReflexive DEF vars, Committed
<1> QED BY <1>3, <1>4, <1>5, <1>6, <1>7, <1>8, <1>9 DEF Next

\* From one sound world to a later one is a transaction of the ledger.
LEMMA SoundTransaction ==
  ASSUME NEW v, NEW w, Sound(v), Sound(w), Grows(v, w)
  PROVE  /\ TermsIn(w) \in [Tokens -> Params \cup {NoParams}]
         /\ \A t \in Tokens : TermsIn(v)[t] # NoParams => TermsIn(w)[t] = TermsIn(v)[t]
         /\ TermsIn(w)[Template] = NoParams
         /\ \A s \in Salts : TermsIn(w)[s] # NoParams => SharesSum(TermsIn(w)[s]) = Rate
         /\ w.total = v.total + Bond * Cardinality(LaunchedIn(w) \ LaunchedIn(v))
<1>1. TermsIn(w) \in [Tokens -> Params \cup {NoParams}]
  <2>1. \A t \in Tokens : w.token[t].terms \in Params \cup {NoParams}
    BY DEF Sound, WorldType, TokenType
  <2> QED BY <2>1 DEF TermsIn
<1>2. \A t \in Tokens : TermsIn(v)[t] # NoParams => TermsIn(w)[t] = TermsIn(v)[t]
  BY DEF TermsIn, Grows
<1>3. TermsIn(w)[Template] = NoParams
  BY TokenKinds DEF TermsIn, Sound
<1>4. \A s \in Salts : TermsIn(w)[s] # NoParams => SharesSum(TermsIn(w)[s]) = Rate
  BY TokenKinds DEF TermsIn, Sound
<1>5. LaunchedIn(v) \subseteq LaunchedIn(w)
  BY TokenKinds DEF Sound, Grows, LaunchedIn
<1> DEFINE m == Cardinality(LaunchedIn(v))
           n == Cardinality(LaunchedIn(w))
<1>6. m \in Nat /\ n \in Nat /\ IsFiniteSet(LaunchedIn(w))
  BY LaunchedFinite
<1>7. Cardinality(LaunchedIn(w) \ LaunchedIn(v)) = n - m
  <2>1. LaunchedIn(w) \cap LaunchedIn(v) = LaunchedIn(v)
    BY <1>5
  <2> QED BY <1>6, <2>1, FS_Difference
<1>8. v.total = Bond * m /\ w.total = Bond * n
  BY DEF Sound, Accounted
<1>9. w.total = v.total + Bond * Cardinality(LaunchedIn(w) \ LaunchedIn(v))
  <2> HIDE DEF m, n
  <2> QED BY <1>6, <1>7, <1>8, BondSums
<1> QED BY <1>1, <1>2, <1>3, <1>4, <1>9

\* A salt is launched exactly when it has terms.
LEMMA LedgerLaunched ==
  ASSUME NEW w, Sound(w)
  PROVE  {s \in Salts : TermsIn(w)[s] # NoParams} = LaunchedIn(w)
BY TokenKinds DEF TermsIn, LaunchedIn, Sound

\* The launch contracts implement the ledger of launches: between transactions
\* the chain moves by whole launches, whatever reverts and however the sink calls
\* back, for any parameters, accounts, bond and depth.
THEOREM LaunchesAtomic == Spec => LaunchesAreAtomic
<1>1. Init => Ledger!Init
  <2> SUFFICES ASSUME Init PROVE Ledger!Init
    OBVIOUS
  <2>1. Committed = world /\ world.total = 0
    BY DEF Init, Committed
  <2>2. \A t \in Tokens : world.token[t].terms = NoParams
    BY NewTokenType DEF Init, Sealed
  <2>3. Ledger!Tokens = Tokens
    BY DEF Ledger!Tokens, Tokens
  <2> QED BY <2>1, <2>2, <2>3 DEF Ledger!Init
<1>2. IInv /\ IInv' /\ [Next]_vars => [Ledger!Transaction]_<<[t \in Tokens |-> Committed.token[t].terms], Committed.total>>
  <2> SUFFICES ASSUME IInv, IInv', [Next]_vars PROVE Ledger!Transaction
    OBVIOUS
  <2> DEFINE v == Committed
             w == Committed'
  <2>1. Sound(v) /\ Sound(w) /\ Grows(v, w)
    BY CommittedSound, CommittedSoundNext, CommittedGrows
  <2>2. /\ TermsIn(w) \in [Tokens -> Params \cup {NoParams}]
        /\ \A t \in Tokens : TermsIn(v)[t] # NoParams => TermsIn(w)[t] = TermsIn(v)[t]
        /\ TermsIn(w)[Template] = NoParams
        /\ \A s \in Salts : TermsIn(w)[s] # NoParams => SharesSum(TermsIn(w)[s]) = Rate
        /\ w.total = v.total + Bond * Cardinality(LaunchedIn(w) \ LaunchedIn(v))
    <3> HIDE DEF v, w
    <3> QED BY <2>1, SoundTransaction
  <2>3. /\ {s \in Salts : TermsIn(w)[s] # NoParams} = LaunchedIn(w)
        /\ {s \in Salts : TermsIn(v)[s] # NoParams} = LaunchedIn(v)
    <3> HIDE DEF v, w
    <3> QED BY <2>1, LedgerLaunched
  <2>4. /\ TermsIn(v) = [t \in Tokens |-> Committed.token[t].terms]
        /\ TermsIn(w) = [t \in Tokens |-> Committed'.token[t].terms]
    BY DEF TermsIn
  <2>5. Ledger!Tokens = Tokens /\ \A p : Ledger!Total(p) = SharesSum(p)
    BY DEF Ledger!Tokens, Tokens, Ledger!Total, SharesSum
  <2>6. \A S : Ledger!Cardinality(S) = Cardinality(S)
    BY DEF Ledger!Cardinality, Cardinality
  <2> HIDE DEF TermsIn
  <2> QED BY <2>2, <2>3, <2>4, <2>5, <2>6 DEF Ledger!Transaction, Ledger!Launched
<1> QED BY <1>1, <1>2, Invariance, PTL DEF Spec, LaunchesAreAtomic, Ledger!Spec
=============================================================================
