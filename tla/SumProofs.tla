------------------------------- MODULE SumProofs -------------------------------
(***************************************************************************)
(* Sums of integers over finite sets, as SumFunction and MapThenSumSet of    *)
(* the community modules define them: by a recursive function on the subsets *)
(* of the set, which takes out one element after the other.  That the        *)
(* recursion is defined, and what its sums are, is proved by taking a        *)
(* smallest subset for which it would not be so.                             *)
(***************************************************************************)
EXTENDS Integers, Functions, FiniteSets, FiniteSetTheorems, TLAPS

\* The element that the recursion takes out of s.
Any(s) == CHOOSE x \in s : TRUE

\* One turn of the recursion behind the sum of f over s, g being the sums over
\* smaller sets.
Turn(f, g, s) == IF s = {} THEN 0 ELSE f[Any(s)] + g[s \ {Any(s)}]

Sum(f, s) == SumFunctionOnSet(f, s)

IntOn(f, S) == \A x \in S : f[x] \in Int

\* What the definition of the sum comes to.
LEMMA SumIsChoice ==
  ASSUME NEW f, NEW S
  PROVE  Sum(f, S)
           = (CHOOSE g : g = [s \in SUBSET S |-> Turn(f, g, s)])[S]
  BY DEF Sum, SumFunctionOnSet, FoldFunctionOnSet, MapThenFoldSet, Turn, Any

LEMMA AnyIn ==
  ASSUME NEW s, s # {}
  PROVE  Any(s) \in s
  BY DEF Any

\* Sets of subsets of a finite set have minimal members.
LEMMA Minimal ==
  ASSUME NEW S, IsFiniteSet(S), NEW T \in SUBSET SUBSET S, T # {}
  PROVE  \E s \in T : \A r \in T : ~(r \subseteq s /\ r # s)
<1> DEFINE R == StrictSubsetOrdering(S)
<1>1. IsWellFoundedOn(R, SUBSET S)
  BY FS_StrictSubsetOrderingWellFounded, FS_FiniteSubsetsOfFinite
<1>2. \E s \in T : \A r \in T : ~(<<r, s>> \in R)
  <2> HIDE DEF R
  <2> QED BY <1>1, WFMin
<1>3. PICK s \in T : \A r \in T : ~(<<r, s>> \in R)
  BY <1>2
<1>4. ASSUME NEW r \in T, r \subseteq s, r # s
      PROVE  FALSE
  <2>1. <<r, s>> \in R
    BY <1>4 DEF StrictSubsetOrdering
  <2> HIDE DEF R
  <2> QED BY <1>3, <2>1
<1>5. \A r \in T : ~(r \subseteq s /\ r # s)
  BY <1>4
<1> QED BY <1>5

\* What holds of 0 and passes from each number to the next holds of all.
LEMMA Induction ==
  ASSUME NEW T, T \subseteq Nat, 0 \in T, \A n \in T : n + 1 \in T
  PROVE  T = Nat
<1>1. SUFFICES ASSUME NEW N \in Nat, N \notin T PROVE FALSE
  OBVIOUS
<1> DEFINE S   == 0 .. N
           Bad == {0 .. n : n \in S \ T}
<1>2. PICK s \in Bad : \A r \in Bad : ~(r \subseteq s /\ r # s)
  <2>1. IsFiniteSet(S)
    BY FS_Interval
  <2>2. Bad \in SUBSET SUBSET S
    OBVIOUS
  <2>3. Bad # {}
    BY <1>1
  <2> HIDE DEF S, Bad
  <2> QED BY <2>1, <2>2, <2>3, Minimal
<1>3. PICK n \in S \ T : s = 0 .. n
  BY <1>2
<1>4. n - 1 \in S \ T
  BY <1>3
<1>5. 0 .. n - 1 \in Bad
  BY <1>4
<1>6. 0 .. n - 1 \subseteq s /\ 0 .. n - 1 # s
  <2>1. n \in 0 .. n /\ n \notin 0 .. n - 1
    BY <1>3
  <2> QED BY <1>3, <2>1
<1> HIDE DEF Bad
<1> QED BY <1>2, <1>5, <1>6

-----------------------------------------------------------------------------
(* The recursion is defined.                                                *)

\* The subsets of S that have n elements at most, and the sums over them.
Small(S, n) == {s \in SUBSET S : Cardinality(s) <= n}

Solves(f, S, n, g) ==
  g \in [Small(S, n) -> Int] /\ \A s \in Small(S, n) : g[s] = Turn(f, g, s)

LEMMA Smaller ==
  ASSUME NEW S, IsFiniteSet(S), NEW s \in SUBSET S, s # {}
  PROVE  /\ s \ {Any(s)} \in SUBSET S
         /\ Cardinality(s) \in Nat /\ Cardinality(s \ {Any(s)}) = Cardinality(s) - 1
<1>1. IsFiniteSet(s)
  BY FS_Subset
<1> QED BY <1>1, AnyIn, FS_RemoveElement, FS_CardinalityType

\* Sums over sets of up to n elements give those over sets of up to n + 1.
LEMMA SolutionGrows ==
  ASSUME NEW f, NEW S, IsFiniteSet(S), IntOn(f, S), NEW n \in Nat, NEW g, Solves(f, S, n, g)
  PROVE  \E h : Solves(f, S, n + 1, h)
<1> DEFINE h == [s \in Small(S, n + 1) |-> Turn(f, g, s)]
<1>1. ASSUME NEW s \in Small(S, n + 1), s # {}
      PROVE  /\ s \ {Any(s)} \in Small(S, n) /\ s \ {Any(s)} \in Small(S, n + 1)
             /\ Any(s) \in S
  <2>1. s \in SUBSET S /\ Cardinality(s) <= n + 1
    BY <1>1 DEF Small
  <2>2. /\ s \ {Any(s)} \in SUBSET S
        /\ Cardinality(s) \in Nat /\ Cardinality(s \ {Any(s)}) = Cardinality(s) - 1
    BY <2>1, <1>1, Smaller
  <2>3. Cardinality(s \ {Any(s)}) <= n /\ Cardinality(s \ {Any(s)}) <= n + 1
    BY <2>1, <2>2
  <2> QED BY <1>1, <2>1, <2>2, <2>3, AnyIn DEF Small
<1>2. ASSUME NEW s \in Small(S, n + 1)
      PROVE  Turn(f, g, s) \in Int
  <2>1. CASE s = {}
    BY <2>1 DEF Turn
  <2>2. CASE s # {}
    <3>1. f[Any(s)] \in Int
      BY <1>1, <2>2 DEF IntOn
    <3>2. g[s \ {Any(s)}] \in Int
      BY <1>1, <2>2 DEF Solves
    <3> QED BY <2>2, <3>1, <3>2 DEF Turn
  <2> QED BY <2>1, <2>2
<1>3. ASSUME NEW s \in Small(S, n + 1)
      PROVE  h[s] = Turn(f, h, s)
  <2>1. h[s] = Turn(f, g, s)
    OBVIOUS
  <2>2. CASE s = {}
    BY <2>1, <2>2 DEF Turn
  <2>3. CASE s # {}
    <3>1. h[s \ {Any(s)}] = Turn(f, g, s \ {Any(s)})
      BY <1>1, <2>3
    <3>2. g[s \ {Any(s)}] = Turn(f, g, s \ {Any(s)})
      BY <1>1, <2>3 DEF Solves
    <3>3. h[s \ {Any(s)}] = g[s \ {Any(s)}]
      BY <3>1, <3>2
    <3> HIDE DEF h
    <3> QED BY <2>1, <2>3, <3>3 DEF Turn
  <2> QED BY <2>2, <2>3
<1>4. h \in [Small(S, n + 1) -> Int]
  BY <1>2
<1>5. Solves(f, S, n + 1, h)
  <2> HIDE DEF h
  <2> QED BY <1>3, <1>4 DEF Solves
<1> QED BY <1>5

LEMMA SolutionsExist ==
  ASSUME NEW f, NEW S, IsFiniteSet(S), IntOn(f, S)
  PROVE  \A s \in SUBSET S : \E g : Solves(f, S, Cardinality(s), g)
<1> DEFINE Bad == {s \in SUBSET S : ~\E g : Solves(f, S, Cardinality(s), g)}
<1>1. SUFFICES ASSUME Bad # {} PROVE FALSE
  OBVIOUS
<1>2. PICK s \in Bad : \A r \in Bad : ~(r \subseteq s /\ r # s)
  <2>1. Bad \in SUBSET SUBSET S
    OBVIOUS
  <2> HIDE DEF Bad
  <2> QED BY <1>1, <2>1, Minimal
<1>3. CASE s = {}
  <2> DEFINE g == [t \in Small(S, 0) |-> 0]
  <2>1. ASSUME NEW t \in Small(S, 0)
        PROVE  t = {}
    <3>1. t \in SUBSET S /\ Cardinality(t) <= 0
      BY DEF Small
    <3>2. IsFiniteSet(t)
      BY <3>1, FS_Subset
    <3>3. Cardinality(t) = 0
      BY <3>1, <3>2, FS_CardinalityType
    <3> QED BY <3>2, <3>3, FS_EmptySet
  <2>2. \A t \in Small(S, 0) : g[t] = Turn(f, g, t)
    BY <2>1 DEF Turn
  <2>3. g \in [Small(S, 0) -> Int]
    OBVIOUS
  <2>4. Solves(f, S, 0, g)
    <3> HIDE DEF g
    <3> QED BY <2>2, <2>3 DEF Solves
  <2>5. Cardinality(s) = 0
    BY <1>3, FS_EmptySet
  <2> QED BY <2>4, <2>5
<1>4. CASE s # {}
  <2> DEFINE r == s \ {Any(s)}
  <2>1. r \in SUBSET S /\ Cardinality(s) \in Nat /\ Cardinality(r) = Cardinality(s) - 1
    BY <1>4, Smaller
  <2>2. Cardinality(r) \in Nat
    BY <2>1, FS_Subset, FS_CardinalityType
  <2>3. r \notin Bad
    <3>1. r \subseteq s /\ r # s
      BY <1>4, AnyIn
    <3> HIDE DEF Bad
    <3> QED BY <3>1, <1>2
  <2>4. PICK g : Solves(f, S, Cardinality(r), g)
    BY <2>1, <2>3
  <2>5. \E h : Solves(f, S, Cardinality(r) + 1, h)
    <3> HIDE DEF r
    <3> QED BY <2>2, <2>4, SolutionGrows
  <2>6. Cardinality(r) + 1 = Cardinality(s)
    BY <2>1
  <2> QED BY <2>5, <2>6
<1> QED BY <1>3, <1>4

\* The sums over all subsets of S, at once.
Sums(f, S) == CHOOSE g : g = [s \in SUBSET S |-> Turn(f, g, s)]

\* The recursion is defined, and its sums are integers.
LEMMA SumsTurn ==
  ASSUME NEW f, NEW S, IsFiniteSet(S), IntOn(f, S), NEW s \in SUBSET S
  PROVE  Sums(f, S)[s] = Turn(f, Sums(f, S), s)
<1>1. PICK g : Solves(f, S, Cardinality(S), g)
  BY SolutionsExist
<1>2. Small(S, Cardinality(S)) = SUBSET S
  <2>1. ASSUME NEW t \in SUBSET S
        PROVE  Cardinality(t) <= Cardinality(S)
    BY FS_Subset
  <2> QED BY <2>1 DEF Small
<1>3. g = [t \in SUBSET S |-> Turn(f, g, t)]
  BY <1>1, <1>2 DEF Solves
<1>4. Sums(f, S) = [t \in SUBSET S |-> Turn(f, Sums(f, S), t)]
  BY <1>3 DEF Sums
<1> QED BY <1>4

LEMMA SumsType ==
  ASSUME NEW f, NEW S, IsFiniteSet(S), IntOn(f, S)
  PROVE  \A s \in SUBSET S : Sums(f, S)[s] \in Int
<1> DEFINE Bad == {s \in SUBSET S : Sums(f, S)[s] \notin Int}
<1>1. SUFFICES ASSUME Bad # {} PROVE FALSE
  OBVIOUS
<1>2. PICK s \in Bad : \A r \in Bad : ~(r \subseteq s /\ r # s)
  <2>1. Bad \in SUBSET SUBSET S
    OBVIOUS
  <2> HIDE DEF Bad
  <2> QED BY <1>1, <2>1, Minimal
<1>3. s \in SUBSET S /\ Sums(f, S)[s] \notin Int
  OBVIOUS
<1>4. Sums(f, S)[s] = Turn(f, Sums(f, S), s)
  BY <1>3, SumsTurn
<1>5. CASE s = {}
  BY <1>3, <1>4, <1>5 DEF Turn
<1>6. CASE s # {}
  <2>1. Any(s) \in s
    BY <1>6, AnyIn
  <2>2. s \ {Any(s)} \notin Bad
    <3> HIDE DEF Bad
    <3> QED BY <1>2, <2>1
  <2>3. Sums(f, S)[s \ {Any(s)}] \in Int
    BY <2>2, <1>3
  <2>4. f[Any(s)] \in Int
    BY <2>1, <1>3 DEF IntOn
  <2> HIDE DEF Bad
  <2> QED BY <1>3, <1>4, <1>6, <2>3, <2>4 DEF Turn
<1> QED BY <1>5, <1>6

\* The sum over a subset does not depend on the set it is taken in.
LEMMA SumsRestrict ==
  ASSUME NEW f, NEW S, IsFiniteSet(S), IntOn(f, S), NEW R \in SUBSET S
  PROVE  \A s \in SUBSET R : Sums(f, R)[s] = Sums(f, S)[s]
<1> DEFINE Bad == {s \in SUBSET R : Sums(f, R)[s] # Sums(f, S)[s]}
<1>1. SUFFICES ASSUME Bad # {} PROVE FALSE
  OBVIOUS
<1>2. IsFiniteSet(R) /\ IntOn(f, R)
  BY FS_Subset DEF IntOn
<1>3. PICK s \in Bad : \A r \in Bad : ~(r \subseteq s /\ r # s)
  <2>1. Bad \in SUBSET SUBSET R
    OBVIOUS
  <2> HIDE DEF Bad
  <2> QED BY <1>1, <1>2, <2>1, Minimal
<1>4. s \in SUBSET R /\ s \in SUBSET S /\ Sums(f, R)[s] # Sums(f, S)[s]
  OBVIOUS
<1>5. /\ Sums(f, R)[s] = Turn(f, Sums(f, R), s)
      /\ Sums(f, S)[s] = Turn(f, Sums(f, S), s)
  BY <1>2, <1>4, SumsTurn
<1>6. CASE s = {}
  BY <1>4, <1>5, <1>6 DEF Turn
<1>7. CASE s # {}
  <2>1. Any(s) \in s
    BY <1>7, AnyIn
  <2>2. s \ {Any(s)} \notin Bad
    <3> HIDE DEF Bad
    <3> QED BY <1>3, <2>1
  <2>3. Sums(f, R)[s \ {Any(s)}] = Sums(f, S)[s \ {Any(s)}]
    BY <2>2, <1>4
  <2> HIDE DEF Bad
  <2> QED BY <1>4, <1>5, <1>7, <2>3 DEF Turn
<1> QED BY <1>6, <1>7

-----------------------------------------------------------------------------
(* What the sums are.                                                       *)

\* A sum over nothing.
LEMMA SumEmpty == ASSUME NEW f PROVE Sum(f, {}) = 0
<1>1. IsFiniteSet({}) /\ IntOn(f, {})
  BY FS_EmptySet DEF IntOn
<1>2. Sum(f, {}) = Sums(f, {})[{}]
  BY SumIsChoice DEF Sums
<1>3. Sums(f, {})[{}] = Turn(f, Sums(f, {}), {})
  BY <1>1, SumsTurn
<1> QED BY <1>2, <1>3 DEF Turn

\* A sum of integers is one.
LEMMA SumType ==
  ASSUME NEW f, NEW S, IsFiniteSet(S), IntOn(f, S)
  PROVE  Sum(f, S) \in Int
<1>1. Sum(f, S) = Sums(f, S)[S]
  BY SumIsChoice DEF Sums
<1> QED BY <1>1, SumsType

\* The sum over a set is a value and the sum over the rest.
LEMMA SumTurn ==
  ASSUME NEW f, NEW S, IsFiniteSet(S), IntOn(f, S), S # {}
  PROVE  Any(S) \in S /\ Sum(f, S) = f[Any(S)] + Sum(f, S \ {Any(S)})
<1> DEFINE R == S \ {Any(S)}
<1>1. Sum(f, S) = Sums(f, S)[S] /\ Sum(f, R) = Sums(f, R)[R]
  BY SumIsChoice DEF Sums
<1>2. Sums(f, S)[S] = f[Any(S)] + Sums(f, S)[R]
  BY SumsTurn DEF Turn
<1>3. Sums(f, R)[R] = Sums(f, S)[R]
  <2>1. R \in SUBSET S
    OBVIOUS
  <2> HIDE DEF R
  <2> QED BY <2>1, SumsRestrict
<1> QED BY <1>1, <1>2, <1>3, AnyIn

\* What is summed over a set can be summed over a part of it.
LEMMA IntOnPart ==
  ASSUME NEW f, NEW S, IsFiniteSet(S), IntOn(f, S), NEW R \in SUBSET S
  PROVE  IsFiniteSet(R) /\ IntOn(f, R) /\ Sum(f, R) \in Int
<1>1. IsFiniteSet(R) /\ IntOn(f, R)
  BY FS_Subset DEF IntOn
<1> QED BY <1>1, SumType

\* Any element can be taken out of a sum, not only the one the recursion takes.
LEMMA SumRemove ==
  ASSUME NEW f, NEW S, IsFiniteSet(S), IntOn(f, S), NEW a \in S
  PROVE  Sum(f, S) = f[a] + Sum(f, S \ {a})
<1> DEFINE Bad == {s \in SUBSET S : \E b \in s : Sum(f, s) # f[b] + Sum(f, s \ {b})}
<1>1. SUFFICES ASSUME Bad # {} PROVE FALSE
  <2>1. S \in Bad \/ Sum(f, S) = f[a] + Sum(f, S \ {a})
    OBVIOUS
  <2> HIDE DEF Bad
  <2> QED BY <2>1
<1>2. PICK s \in Bad : \A r \in Bad : ~(r \subseteq s /\ r # s)
  <2>1. Bad \in SUBSET SUBSET S
    OBVIOUS
  <2> HIDE DEF Bad
  <2> QED BY <1>1, <2>1, Minimal
<1>3. PICK b \in s : Sum(f, s) # f[b] + Sum(f, s \ {b})
  OBVIOUS
<1>4. s \in SUBSET S
  OBVIOUS
<1>5. ASSUME NEW r \in SUBSET s, r # s, NEW c \in r
      PROVE  Sum(f, r) = f[c] + Sum(f, r \ {c})
  <2>1. r \notin Bad
    <3> HIDE DEF Bad
    <3> QED BY <1>2, <1>5
  <2>2. r \in SUBSET S
    BY <1>4
  <2> QED BY <2>1, <2>2
<1> HIDE DEF Bad
<1> DEFINE x == Any(s)
<1>6. IsFiniteSet(s) /\ IntOn(f, s)
  BY <1>4, IntOnPart
<1>7. x \in s /\ Sum(f, s) = f[x] + Sum(f, s \ {x})
  BY <1>6, SumTurn
<1> HIDE DEF x
<1>8. b # x
  BY <1>3, <1>7
<1>9. Sum(f, s \ {x}) = f[b] + Sum(f, (s \ {x}) \ {b})
  BY <1>5, <1>7, <1>8
<1>10. Sum(f, s \ {b}) = f[x] + Sum(f, (s \ {b}) \ {x})
  BY <1>5, <1>7, <1>8
<1>11. (s \ {x}) \ {b} = (s \ {b}) \ {x}
  OBVIOUS
<1>12. f[x] \in Int /\ f[b] \in Int
  BY <1>6, <1>7 DEF IntOn
<1>13. Sum(f, (s \ {b}) \ {x}) \in Int
  BY <1>6, IntOnPart
<1>14. Sum(f, (s \ {x}) \ {b}) = Sum(f, (s \ {b}) \ {x})
  BY <1>11
<1> QED BY <1>3, <1>7, <1>9, <1>10, <1>12, <1>13, <1>14

\* The sum depends on the values in the set only.
LEMMA SumAgree ==
  ASSUME NEW f, NEW g, NEW S, IsFiniteSet(S), IntOn(f, S), \A x \in S : f[x] = g[x]
  PROVE  Sum(f, S) = Sum(g, S)
<1> DEFINE Bad == {s \in SUBSET S : Sum(f, s) # Sum(g, s)}
<1>1. SUFFICES ASSUME Bad # {} PROVE FALSE
  <2>1. S \in Bad \/ Sum(f, S) = Sum(g, S)
    OBVIOUS
  <2> HIDE DEF Bad
  <2> QED BY <2>1
<1>2. PICK s \in Bad : \A r \in Bad : ~(r \subseteq s /\ r # s)
  <2>1. Bad \in SUBSET SUBSET S
    OBVIOUS
  <2> HIDE DEF Bad
  <2> QED BY <1>1, <2>1, Minimal
<1>3. s \in SUBSET S /\ Sum(f, s) # Sum(g, s)
  OBVIOUS
<1>4. IntOn(g, S)
  BY DEF IntOn
<1>5. IsFiniteSet(s) /\ IntOn(f, s) /\ IntOn(g, s)
  BY <1>3, <1>4, IntOnPart
<1>6. CASE s = {}
  BY <1>3, <1>6, SumEmpty
<1>7. CASE s # {}
  <2>1. /\ Any(s) \in s
        /\ Sum(f, s) = f[Any(s)] + Sum(f, s \ {Any(s)})
        /\ Sum(g, s) = g[Any(s)] + Sum(g, s \ {Any(s)})
    BY <1>5, <1>7, SumTurn
  <2>2. s \ {Any(s)} \notin Bad
    <3> HIDE DEF Bad
    <3> QED BY <1>2, <2>1
  <2>3. Sum(f, s \ {Any(s)}) = Sum(g, s \ {Any(s)})
    BY <2>2, <1>3
  <2>4. f[Any(s)] = g[Any(s)]
    BY <2>1, <1>3
  <2> HIDE DEF Bad
  <2> QED BY <1>3, <2>1, <2>3, <2>4
<1> QED BY <1>6, <1>7

\* Zeros add up to zero.
LEMMA SumOfZeros ==
  ASSUME NEW f, NEW S, IsFiniteSet(S), \A x \in S : f[x] = 0
  PROVE  Sum(f, S) = 0
<1> DEFINE Bad == {s \in SUBSET S : Sum(f, s) # 0}
<1>1. SUFFICES ASSUME Bad # {} PROVE FALSE
  <2>1. S \in Bad \/ Sum(f, S) = 0
    OBVIOUS
  <2> HIDE DEF Bad
  <2> QED BY <2>1
<1>2. PICK s \in Bad : \A r \in Bad : ~(r \subseteq s /\ r # s)
  <2>1. Bad \in SUBSET SUBSET S
    OBVIOUS
  <2> HIDE DEF Bad
  <2> QED BY <1>1, <2>1, Minimal
<1>3. s \in SUBSET S /\ Sum(f, s) # 0
  OBVIOUS
<1>4. IntOn(f, S)
  BY DEF IntOn
<1>5. IsFiniteSet(s) /\ IntOn(f, s)
  BY <1>3, <1>4, IntOnPart
<1>6. s # {}
  BY <1>3, SumEmpty
<1>7. Any(s) \in s /\ Sum(f, s) = f[Any(s)] + Sum(f, s \ {Any(s)})
  BY <1>5, <1>6, SumTurn
<1>8. s \ {Any(s)} \notin Bad
  <2> HIDE DEF Bad
  <2> QED BY <1>2, <1>7
<1>9. Sum(f, s \ {Any(s)}) = 0 /\ f[Any(s)] = 0
  BY <1>3, <1>7, <1>8
<1> HIDE DEF Bad
<1> QED BY <1>3, <1>7, <1>9

\* Changing one value changes the sum by as much.
LEMMA SumChange ==
  ASSUME NEW f, NEW g, NEW S, IsFiniteSet(S), IntOn(f, S), IntOn(g, S), NEW a \in S,
         \A x \in S \ {a} : f[x] = g[x]
  PROVE  Sum(g, S) = Sum(f, S) + g[a] - f[a]
<1>1. f[a] \in Int /\ g[a] \in Int
  BY DEF IntOn
<1>2. IsFiniteSet(S \ {a}) /\ IntOn(f, S \ {a}) /\ Sum(f, S \ {a}) \in Int
  BY IntOnPart
<1>3. Sum(f, S \ {a}) = Sum(g, S \ {a})
  BY <1>2, SumAgree
<1>4. Sum(f, S) = f[a] + Sum(f, S \ {a}) /\ Sum(g, S) = g[a] + Sum(g, S \ {a})
  BY SumRemove
<1> QED BY <1>1, <1>2, <1>3, <1>4

\* Adding to one value adds to the sum.
LEMMA SumAdd ==
  ASSUME NEW S, IsFiniteSet(S), NEW f \in [S -> Int], NEW a \in S, NEW d \in Int
  PROVE  Sum([f EXCEPT ![a] = f[a] + d], S) = Sum(f, S) + d
<1> DEFINE g == [f EXCEPT ![a] = f[a] + d]
<1>1. /\ IntOn(f, S) /\ IntOn(g, S) /\ g[a] = f[a] + d /\ f[a] \in Int
      /\ \A x \in S \ {a} : f[x] = g[x]
  BY DEF IntOn
<1> HIDE DEF g
<1>2. Sum(g, S) = Sum(f, S) + g[a] - f[a]
  BY <1>1, SumChange
<1>3. Sum(f, S) \in Int
  BY <1>1, SumType
<1>4. Sum(g, S) = Sum(f, S) + d
  BY <1>1, <1>2, <1>3
<1> QED BY <1>4 DEF g

\* A sum over two sets that do not meet.
LEMMA SumUnion ==
  ASSUME NEW f, NEW A, NEW B, IsFiniteSet(A), IsFiniteSet(B), A \cap B = {},
         IntOn(f, A), IntOn(f, B)
  PROVE  Sum(f, A \cup B) = Sum(f, A) + Sum(f, B)
<1> DEFINE Bad == {s \in SUBSET B : Sum(f, A \cup s) # Sum(f, A) + Sum(f, s)}
<1>1. SUFFICES ASSUME Bad # {} PROVE FALSE
  <2>1. B \in Bad \/ Sum(f, A \cup B) = Sum(f, A) + Sum(f, B)
    OBVIOUS
  <2> HIDE DEF Bad
  <2> QED BY <2>1
<1>2. PICK s \in Bad : \A r \in Bad : ~(r \subseteq s /\ r # s)
  <2>1. Bad \in SUBSET SUBSET B
    OBVIOUS
  <2> HIDE DEF Bad
  <2> QED BY <1>1, <2>1, Minimal
<1>3. s \in SUBSET B /\ Sum(f, A \cup s) # Sum(f, A) + Sum(f, s)
  OBVIOUS
<1>4. IsFiniteSet(A \cup B) /\ IntOn(f, A \cup B)
  BY FS_Union DEF IntOn
<1>5. /\ Sum(f, A) \in Int
      /\ IsFiniteSet(s) /\ IntOn(f, s) /\ Sum(f, s) \in Int
      /\ IsFiniteSet(A \cup s) /\ IntOn(f, A \cup s)
  <2>1. A \in SUBSET (A \cup B) /\ s \in SUBSET (A \cup B) /\ A \cup s \in SUBSET (A \cup B)
    BY <1>3
  <2> QED BY <1>4, <2>1, IntOnPart
<1>6. CASE s = {}
  <2>1. A \cup s = A /\ Sum(f, s) = 0
    BY <1>6, SumEmpty
  <2>2. Sum(f, A \cup s) = Sum(f, A)
    BY <2>1
  <2> HIDE DEF Bad
  <2> QED BY <1>3, <1>5, <2>1, <2>2
<1>7. CASE s # {}
  <2>1. PICK x \in s : TRUE
    BY <1>7
  <2>2. s \ {x} \notin Bad
    <3>1. s \ {x} \subseteq s /\ s \ {x} # s
      BY <2>1
    <3> HIDE DEF Bad
    <3> QED BY <1>2, <3>1
  <2>3. Sum(f, A \cup (s \ {x})) = Sum(f, A) + Sum(f, s \ {x})
    <3>1. s \ {x} \in SUBSET B
      BY <1>3
    <3> QED BY <2>2, <3>1
  <2>4. (A \cup s) \ {x} = A \cup (s \ {x})
    <3>1. x \in B
      BY <1>3, <2>1
    <3> QED BY <3>1
  <2>5. Sum(f, A \cup s) = f[x] + Sum(f, (A \cup s) \ {x}) /\ Sum(f, s) = f[x] + Sum(f, s \ {x})
    BY <1>5, <2>1, SumRemove
  <2>6. f[x] \in Int /\ Sum(f, s \ {x}) \in Int
    <3>1. s \ {x} \in SUBSET s
      OBVIOUS
    <3> QED BY <1>5, <3>1, IntOnPart DEF IntOn
  <2>7. Sum(f, (A \cup s) \ {x}) = Sum(f, A \cup (s \ {x}))
    BY <2>4
  <2> HIDE DEF Bad
  <2> QED BY <1>3, <1>5, <2>3, <2>5, <2>6, <2>7
<1> QED BY <1>6, <1>7

\* Sums of numbers that are not negative grow with the set.
LEMMA SumMonotone ==
  ASSUME NEW f, NEW B, IsFiniteSet(B), \A x \in B : f[x] \in Nat, NEW A \in SUBSET B
  PROVE  Sum(f, A) \in Nat /\ Sum(f, B) \in Nat /\ Sum(f, A) <= Sum(f, B)
<1>1. ASSUME NEW S \in SUBSET B
      PROVE  Sum(f, S) \in Nat
  <2> DEFINE Bad == {s \in SUBSET S : Sum(f, s) \notin Nat}
  <2>1. SUFFICES ASSUME Bad # {} PROVE FALSE
    <3>1. S \in Bad \/ Sum(f, S) \in Nat
      OBVIOUS
    <3> HIDE DEF Bad
    <3> QED BY <3>1
  <2>2. IsFiniteSet(S) /\ IntOn(f, S)
    BY <1>1, FS_Subset DEF IntOn
  <2>3. PICK s \in Bad : \A r \in Bad : ~(r \subseteq s /\ r # s)
    <3>1. Bad \in SUBSET SUBSET S
      OBVIOUS
    <3> HIDE DEF Bad
    <3> QED BY <2>1, <2>2, <3>1, Minimal
  <2>4. s \in SUBSET S /\ Sum(f, s) \notin Nat
    OBVIOUS
  <2>5. IsFiniteSet(s) /\ IntOn(f, s)
    BY <2>2, <2>4, IntOnPart
  <2>6. s # {}
    BY <2>4, SumEmpty
  <2>7. Any(s) \in s /\ Sum(f, s) = f[Any(s)] + Sum(f, s \ {Any(s)})
    BY <2>5, <2>6, SumTurn
  <2>8. s \ {Any(s)} \notin Bad
    <3> HIDE DEF Bad
    <3> QED BY <2>3, <2>7
  <2>9. Sum(f, s \ {Any(s)}) \in Nat /\ f[Any(s)] \in Nat
    BY <2>4, <2>7, <2>8
  <2> HIDE DEF Bad
  <2> QED BY <2>4, <2>7, <2>9
<1>2. Sum(f, A) \in Nat /\ Sum(f, B) \in Nat /\ Sum(f, B \ A) \in Nat
  BY <1>1
<1>3. IsFiniteSet(A) /\ IsFiniteSet(B \ A) /\ IntOn(f, A) /\ IntOn(f, B \ A)
  BY FS_Subset DEF IntOn
<1>4. Sum(f, A \cup (B \ A)) = Sum(f, A) + Sum(f, B \ A)
  BY <1>3, SumUnion
<1>5. A \cup (B \ A) = B
  OBVIOUS
<1> QED BY <1>2, <1>4, <1>5
================================================================================
