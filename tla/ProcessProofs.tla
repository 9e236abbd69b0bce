---------------------------- MODULE ProcessProofs ----------------------------
(* What the parts that live in one process ensure: the keyed mutex, the      *)
(* price cache, the triggers of orders, the budget of the verification       *)
(* reads, and the conversion of amounts.                                     *)
EXTENDS KeyedMutex, PriceFeed, OrderTriggers, VerificationReads, MicroUsd,
        SumProofs, SequenceTheorems, TLAPS

Called == [key : Keys, prev : Nat, stage : {"queued", "running", "settled", "done"}]

\* The section with record c has ended.
Over(c) == c.stage \in {"settled", "done"}

\* In the list s, p is the last section of the key of t that was called before t.
Follows(s, t, p) ==
  /\ p \in 1 .. Len(s) /\ p < t /\ s[p].key = s[t].key
  /\ \A u \in 1 .. Len(s) : p < u /\ u < t => s[u].key # s[t].key

\* Every section of the key of t that was called before t has ended.
Alone(s, t) == \A u \in 1 .. Len(s) : u < t /\ s[u].key = s[t].key => Over(s[u])

\* A section waits for the one before it of its key, or all before it have
\* ended; and whoever has started is alone.
Chained(s) ==
  \A t \in 1 .. Len(s) :
    /\ s[t].prev # 0 => Follows(s, t, s[t].prev)
    /\ s[t].prev = 0 => Alone(s, t)
    /\ s[t].stage # "queued" => Alone(s, t)

\* The entry of a key is its last section, which is not done; without an entry
\* all sections of the key have ended.
Tailed(s, entry) ==
  \A k \in Keys :
    /\ entry[k] # 0 => /\ entry[k] \in 1 .. Len(s)
                       /\ s[entry[k]].key = k /\ s[entry[k]].stage # "done"
                       /\ \A u \in 1 .. Len(s) : s[u].key = k => u <= entry[k]
    /\ entry[k] = 0 => \A u \in 1 .. Len(s) : s[u].key = k => Over(s[u])

MutexInv ==
  /\ sections \in Seq(Called) /\ tails \in [Keys -> Nat]
  /\ Chained(sections) /\ Tailed(sections, tails)

LEMMA MutexInitInv == MutexInit => MutexInv
  BY DEF MutexInit, MutexInv, Chained, Tailed

LEMMA Exclusion == MutexInv => SectionsExclusive
  <1> SUFFICES ASSUME MutexInv PROVE SectionsExclusive
    OBVIOUS
  <1>1. DOMAIN sections = 1 .. Len(sections)
    BY DEF MutexInv
  <1>2. ASSUME NEW t \in DOMAIN sections, NEW u \in DOMAIN sections,
               u < t, SameKey(t, u), sections[t].stage # "queued"
        PROVE  Ended(u)
    <2>1. Alone(sections, t)
      BY <1>1, <1>2 DEF MutexInv, Chained
    <2>2. QED
      BY <1>1, <1>2, <2>1 DEF Alone, SameKey, Ended, Over
  <1>3. ASSUME NEW k \in Keys, tails[k] = 0, NEW t \in Of(k)
        PROVE  Ended(t)
    BY <1>1, <1>3 DEF MutexInv, Tailed, Of, Ended, Over
  <1>4. ASSUME NEW k \in Keys, \A t \in Of(k) : sections[t].stage = "done"
        PROVE  tails[k] = 0
    BY <1>1, <1>4 DEF MutexInv, Tailed, Of
  <1>5. QED
    BY <1>2, <1>3, <1>4 DEF SectionsExclusive

\* A call appends a section that waits for the entry of its key.
LEMMA CallInv ==
  ASSUME MutexInv, NEW k \in Keys, RunExclusive(k)
  PROVE  MutexInv'
  <1> DEFINE s == sections
             new == [key |-> k, prev |-> tails[k], stage |-> "queued"]
             s2 == Append(s, new)
             n == Len(s) + 1
  <1>1. /\ sections' = s2 /\ tails' = [tails EXCEPT ![k] = n]
        /\ s \in Seq(Called) /\ tails \in [Keys -> Nat] /\ Chained(s) /\ Tailed(s, tails)
    BY DEF RunExclusive, MutexInv
  <1>2. /\ n \in Nat /\ n > 0 /\ Len(s) = n - 1 /\ Len(s2) = n
        /\ s2 \in Seq(Called) /\ s2[n] = new
        /\ \A u \in 1 .. Len(s) : s2[u] = s[u]
    <2>1. new \in Called
      BY <1>1 DEF Called
    <2>2. Len(s) \in Nat
      BY <1>1, LenProperties
    <2> HIDE DEF new
    <2>3. QED
      BY <1>1, <2>1, <2>2, AppendProperties
  <1> HIDE DEF s, s2, n
  <1>3. ASSUME NEW t \in 1 .. Len(s)
        PROVE  /\ s2[t].prev # 0 => Follows(s2, t, s2[t].prev)
               /\ s2[t].prev = 0 => Alone(s2, t)
               /\ s2[t].stage # "queued" => Alone(s2, t)
    <2>1. s2[t] = s[t] /\ t < n /\ t \in Nat
      BY <1>2
    <2>2. Alone(s, t) => Alone(s2, t)
      BY <1>2, <2>1 DEF Alone
    <2>3. ASSUME NEW p, Follows(s, t, p)
          PROVE  Follows(s2, t, p)
      BY <1>2, <2>1, <2>3 DEF Follows
    <2>4. QED
      BY <1>1, <2>1, <2>2, <2>3 DEF Chained
  <1>4. ASSUME tails[k] # 0
        PROVE  Follows(s2, n, tails[k])
    <2>1. /\ tails[k] \in 1 .. Len(s) /\ s[tails[k]].key = k
          /\ \A u \in 1 .. Len(s) : s[u].key = k => u <= tails[k]
      BY <1>1, <1>4 DEF Tailed
    <2>2. s2[tails[k]].key = k /\ s2[n].key = k
      BY <1>2, <2>1
    <2>3. ASSUME NEW u \in 1 .. Len(s2), tails[k] < u, u < n
          PROVE  s2[u].key # k
      BY <1>1, <1>2, <2>1, <2>3
    <2>4. QED
      BY <1>2, <2>1, <2>2, <2>3 DEF Follows
  <1>5. ASSUME tails[k] = 0
        PROVE  Alone(s2, n)
    <2>1. \A u \in 1 .. Len(s) : s[u].key = k => Over(s[u])
      BY <1>1, <1>5 DEF Tailed
    <2>2. s2[n].key = k
      BY <1>2
    <2>3. QED
      BY <1>2, <2>1, <2>2 DEF Alone
  <1>6. Chained(s2)
    <2> SUFFICES ASSUME NEW t \in 1 .. Len(s2)
                 PROVE  /\ s2[t].prev # 0 => Follows(s2, t, s2[t].prev)
                        /\ s2[t].prev = 0 => Alone(s2, t)
                        /\ s2[t].stage # "queued" => Alone(s2, t)
      BY DEF Chained
    <2>1. CASE t \in 1 .. Len(s)
      BY <1>3, <2>1
    <2>2. CASE t = n
      BY <1>2, <1>4, <1>5, <2>2
    <2>3. QED
      BY <1>2, <2>1, <2>2
  <1>7. Tailed(s2, tails')
    <2> SUFFICES ASSUME NEW j \in Keys
                 PROVE  /\ tails'[j] # 0 =>
                             /\ tails'[j] \in 1 .. Len(s2)
                             /\ s2[tails'[j]].key = j /\ s2[tails'[j]].stage # "done"
                             /\ \A u \in 1 .. Len(s2) : s2[u].key = j => u <= tails'[j]
                        /\ tails'[j] = 0 => \A u \in 1 .. Len(s2) : s2[u].key = j => Over(s2[u])
      BY DEF Tailed
    <2>1. CASE j = k
      <3>1. tails'[j] = n
        BY <1>1, <2>1
      <3>2. QED
        BY <1>2, <2>1, <3>1
    <2>2. CASE j # k
      <3>1. tails'[j] = tails[j] /\ tails[j] \in Nat /\ s2[n].key # j
        BY <1>1, <1>2, <2>2
      <3>2. \A u \in 1 .. Len(s2) : s2[u].key = j => u \in 1 .. Len(s) /\ s2[u] = s[u]
        BY <1>2, <3>1
      <3>3. CASE tails[j] # 0
        <4>1. tails[j] \in 1 .. Len(s) /\ s[tails[j]].key = j /\ s[tails[j]].stage # "done"
          BY <1>1, <3>3 DEF Tailed
        <4>2. \A u \in 1 .. Len(s) : s[u].key = j => u <= tails[j]
          BY <1>1, <3>3 DEF Tailed
        <4>3. QED
          BY <1>2, <3>1, <3>2, <3>3, <4>1, <4>2
      <3>4. CASE tails[j] = 0
        BY <1>1, <3>1, <3>2, <3>4 DEF Tailed
      <3>5. QED
        BY <3>3, <3>4
    <2>3. QED
      BY <2>1, <2>2
  <1>8. tails' \in [Keys -> Nat]
    BY <1>1, <1>2
  <1>9. QED
    BY <1>1, <1>2, <1>6, <1>7, <1>8 DEF MutexInv

\* A step of a section that is alone changes its stage only, and what has ended
\* stays so: the sections wait as before.
LEMMA StageStep ==
  ASSUME sections \in Seq(Called), Chained(sections),
         NEW t \in 1 .. Len(sections), Alone(sections, t),
         NEW stage \in {"queued", "running", "settled", "done"},
         Over(sections[t]) => stage \in {"settled", "done"},
         sections' = [sections EXCEPT ![t].stage = stage]
  PROVE  /\ sections' \in Seq(Called) /\ Len(sections') = Len(sections)
         /\ \A u \in 1 .. Len(sections) :
              /\ sections'[u].key = sections[u].key
              /\ sections'[u].stage = IF u = t THEN stage ELSE sections[u].stage
              /\ Over(sections[u]) => Over(sections'[u])
         /\ Chained(sections')
  <1> DEFINE s == sections
             c == [s[t] EXCEPT !.stage = stage]
             s2 == [s EXCEPT ![t] = c]
  <1>1. s[t] \in Called
    BY ElementOfSeq
  <1>2. c \in Called /\ c.key = s[t].key /\ c.prev = s[t].prev /\ c.stage = stage
    BY <1>1 DEF Called
  <1>3. sections' = s2 /\ s \in Seq(Called)
    OBVIOUS
  <1> HIDE DEF c
  <1>4. s2 \in Seq(Called) /\ Len(s2) = Len(s) /\ Len(s) \in Nat
        /\ \A u \in 1 .. Len(s) : s2[u] = IF u = t THEN c ELSE s[u]
    BY <1>2, <1>3, ExceptSeq
  <1> HIDE DEF s, s2
  <1>5. \A u \in 1 .. Len(s) : /\ s2[u].key = s[u].key /\ s2[u].prev = s[u].prev
                               /\ s2[u].stage = IF u = t THEN stage ELSE s[u].stage
    BY <1>2, <1>4
  <1>6. \A u \in 1 .. Len(s) : Over(s[u]) => Over(s2[u])
    BY <1>5 DEF Over, s
  <1>7. ASSUME NEW u \in 1 .. Len(s2)
        PROVE  /\ s2[u].prev # 0 => Follows(s2, u, s2[u].prev)
               /\ s2[u].prev = 0 => Alone(s2, u)
               /\ s2[u].stage # "queued" => Alone(s2, u)
    <2>1. Alone(s, u) => Alone(s2, u)
      BY <1>4, <1>5, <1>6 DEF Alone
    <2>2. ASSUME NEW p, Follows(s, u, p)
          PROVE  Follows(s2, u, p)
      BY <1>4, <1>5, <2>2 DEF Follows
    <2>3. /\ s[u].prev # 0 => Follows(s, u, s[u].prev)
          /\ s[u].prev = 0 => Alone(s, u)
          /\ s[u].stage # "queued" => Alone(s, u)
      BY <1>4 DEF Chained, s
    <2>4. s2[u].stage # "queued" => Alone(s, u)
      BY <1>4, <1>5, <2>3 DEF s
    <2>5. QED
      BY <1>4, <1>5, <2>1, <2>2, <2>3, <2>4
  <1>8. Chained(s2)
    BY <1>7 DEF Chained
  <1>9. QED
    BY <1>3, <1>4, <1>5, <1>6, <1>8 DEF s

\* The entries stay right when no section that has one is done.
LEMMA EntriesKept ==
  ASSUME Tailed(sections, tails), Len(sections') = Len(sections),
         \A u \in 1 .. Len(sections) :
           /\ sections'[u].key = sections[u].key
           /\ Over(sections[u]) => Over(sections'[u]),
         \A k \in Keys : tails[k] # 0 => sections'[tails[k]].stage # "done"
  PROVE  Tailed(sections', tails)
  <1>1. ASSUME NEW k \in Keys, tails[k] # 0
        PROVE  /\ tails[k] \in 1 .. Len(sections') /\ sections'[tails[k]].key = k
               /\ \A u \in 1 .. Len(sections') : sections'[u].key = k => u <= tails[k]
    BY <1>1 DEF Tailed
  <1>2. ASSUME NEW k \in Keys, tails[k] = 0, NEW u \in 1 .. Len(sections'), sections'[u].key = k
        PROVE  Over(sections'[u])
    BY <1>2 DEF Tailed
  <1>3. QED
    BY <1>1, <1>2 DEF Tailed

\* The section before t of its key has ended, and with it all that came earlier.
LEMMA StartInv ==
  ASSUME MutexInv, NEW t \in 1 .. Len(sections), Start(t)
  PROVE  MutexInv'
  <1> DEFINE s == sections
  <1>1. /\ s \in Seq(Called) /\ tails \in [Keys -> Nat] /\ Chained(s) /\ Tailed(s, tails)
        /\ s[t].stage = "queued" /\ (s[t].prev # 0 => Over(s[s[t].prev]))
        /\ sections' = [s EXCEPT ![t].stage = "running"] /\ tails' = tails
    BY DEF MutexInv, Start, Ended, Over
  <1>2. Alone(s, t)
    <2>1. CASE s[t].prev = 0
      BY <1>1, <2>1 DEF Chained
    <2>2. CASE s[t].prev # 0
      <3>1. PICK p \in 1 .. Len(s) : p = s[t].prev /\ Follows(s, t, p) /\ Over(s[p])
        BY <1>1, <2>2 DEF Chained, Follows
      <3>2. Alone(s, p)
        BY <1>1, <3>1 DEF Chained, Over
      <3>3. ASSUME NEW u \in 1 .. Len(s), u < t, s[u].key = s[t].key
            PROVE  Over(s[u])
        <4>1. CASE u < p
          BY <3>1, <3>2, <3>3, <4>1 DEF Alone, Follows
        <4>2. CASE p < u
          BY <3>1, <3>3, <4>2 DEF Follows
        <4>3. CASE u = p
          BY <3>1, <4>3
        <4>4. QED
          BY <4>1, <4>2, <4>3
      <3>4. QED
        BY <3>3 DEF Alone
    <2>3. QED
      BY <2>1, <2>2
  <1>3. ~Over(s[t])
    BY <1>1 DEF Over
  <1>4. /\ sections' \in Seq(Called) /\ Chained(sections') /\ Len(sections') = Len(s)
        /\ \A u \in 1 .. Len(s) : /\ sections'[u].key = s[u].key
                                  /\ sections'[u].stage = IF u = t THEN "running" ELSE s[u].stage
                                  /\ Over(s[u]) => Over(sections'[u])
    BY <1>1, <1>2, <1>3, StageStep
  <1>5. \A k \in Keys : tails[k] # 0 => sections'[tails[k]].stage # "done"
    BY <1>1, <1>4 DEF Tailed
  <1>6. Tailed(sections', tails)
    BY <1>1, <1>4, <1>5, EntriesKept
  <1>7. QED
    BY <1>1, <1>4, <1>6 DEF MutexInv

LEMMA SettleInv ==
  ASSUME MutexInv, NEW t \in 1 .. Len(sections), Settle(t)
  PROVE  MutexInv'
  <1> DEFINE s == sections
  <1>1. /\ s \in Seq(Called) /\ tails \in [Keys -> Nat] /\ Chained(s) /\ Tailed(s, tails)
        /\ s[t].stage = "running"
        /\ sections' = [s EXCEPT ![t].stage = "settled"] /\ tails' = tails
    BY DEF MutexInv, Settle
  <1>2. Alone(s, t)
    BY <1>1 DEF Chained
  <1>3. /\ sections' \in Seq(Called) /\ Chained(sections') /\ Len(sections') = Len(s)
        /\ \A u \in 1 .. Len(s) : /\ sections'[u].key = s[u].key
                                  /\ sections'[u].stage = IF u = t THEN "settled" ELSE s[u].stage
                                  /\ Over(s[u]) => Over(sections'[u])
    BY <1>1, <1>2, StageStep
  <1>4. \A k \in Keys : tails[k] # 0 => sections'[tails[k]].stage # "done"
    BY <1>1, <1>3 DEF Tailed
  <1>5. Tailed(sections', tails)
    BY <1>1, <1>3, <1>4, EntriesKept
  <1>6. QED
    BY <1>1, <1>3, <1>5 DEF MutexInv

\* Only the last section of a key drops its entry, and it is alone by then.
LEMMA CleanupInv ==
  ASSUME MutexInv, NEW t \in 1 .. Len(sections), Cleanup(t)
  PROVE  MutexInv'
  <1> DEFINE s == sections
             k == s[t].key
  <1>1. /\ s \in Seq(Called) /\ tails \in [Keys -> Nat] /\ Chained(s) /\ Tailed(s, tails)
        /\ s[t].stage = "settled"
        /\ sections' = [s EXCEPT ![t].stage = "done"]
        /\ tails' = IF tails[k] = t THEN [tails EXCEPT ![k] = 0] ELSE tails
    BY DEF MutexInv, Cleanup, IsTail
  <1>2. s[t] \in Called /\ k \in Keys
    <2>1. s[t] \in Called
      BY <1>1, ElementOfSeq
    <2>2. QED
      BY <2>1 DEF Called
  <1> HIDE DEF k
  <1>3. Alone(s, t)
    BY <1>1 DEF Chained
  <1>4. /\ sections' \in Seq(Called) /\ Chained(sections') /\ Len(sections') = Len(s)
        /\ \A u \in 1 .. Len(s) : /\ sections'[u].key = s[u].key
                                  /\ sections'[u].stage = IF u = t THEN "done" ELSE s[u].stage
                                  /\ Over(s[u]) => Over(sections'[u])
    BY <1>1, <1>3, StageStep
  <1>5. \A j \in Keys : tails[j] = t => t # 0 /\ j = k
    BY <1>1 DEF Tailed, k
  <1>6. ASSUME tails[k] # t
        PROVE  Tailed(sections', tails)
    <2>1. \A j \in Keys : tails[j] # 0 => sections'[tails[j]].stage # "done"
      BY <1>1, <1>4, <1>5, <1>6 DEF Tailed
    <2>2. QED
      BY <1>1, <1>4, <2>1, EntriesKept
  <1>7. ASSUME tails[k] = t
        PROVE  Tailed(sections', [tails EXCEPT ![k] = 0])
    <2> DEFINE entry == [tails EXCEPT ![k] = 0]
    <2>1. entry[k] = 0 /\ \A j \in Keys : j # k => entry[j] = tails[j]
      BY <1>1, <1>2
    <2>2. ASSUME NEW u \in 1 .. Len(s), s[u].key = k
          PROVE  Over(sections'[u])
      <3>1. t # 0 /\ u <= t
        BY <1>1, <1>2, <1>5, <1>7, <2>2 DEF Tailed
      <3>2. CASE u = t
        BY <1>4, <3>2 DEF Over
      <3>3. CASE u < t
        BY <1>3, <1>4, <2>2, <3>3 DEF Alone, k
      <3>4. QED
        BY <3>1, <3>2, <3>3
    <2> HIDE DEF entry
    <2>3. ASSUME NEW j \in Keys, entry[j] # 0
          PROVE  /\ entry[j] \in 1 .. Len(sections') /\ sections'[entry[j]].key = j
                 /\ sections'[entry[j]].stage # "done"
                 /\ \A u \in 1 .. Len(sections') : sections'[u].key = j => u <= entry[j]
      <3>1. j # k /\ entry[j] = tails[j] /\ tails[j] # t
        BY <1>5, <2>1, <2>3
      <3>2. QED
        BY <1>1, <1>4, <2>3, <3>1 DEF Tailed
    <2>4. ASSUME NEW j \in Keys, entry[j] = 0, NEW u \in 1 .. Len(sections'), sections'[u].key = j
          PROVE  Over(sections'[u])
      <3>1. CASE j = k
        BY <1>4, <2>2, <2>4, <3>1
      <3>2. CASE j # k
        BY <1>1, <1>4, <2>1, <2>4, <3>2 DEF Tailed
      <3>3. QED
        BY <3>1, <3>2
    <2>5. Tailed(sections', entry)
      BY <2>3, <2>4 DEF Tailed
    <2>6. QED
      BY <2>5 DEF entry
  <1>8. tails' \in [Keys -> Nat] /\ Tailed(sections', tails')
    BY <1>1, <1>6, <1>7
  <1>9. QED
    BY <1>4, <1>8 DEF MutexInv

LEMMA MutexStepInv == MutexInv /\ [MutexNext]_mutexVars => MutexInv'
  <1> SUFFICES ASSUME MutexInv, [MutexNext]_mutexVars PROVE MutexInv'
    OBVIOUS
  <1>1. CASE UNCHANGED mutexVars
    BY <1>1 DEF mutexVars, MutexInv
  <1>2. DOMAIN sections = 1 .. Len(sections)
    BY DEF MutexInv
  <1>3. QED
    BY <1>1, <1>2, CallInv, StartInv, SettleInv, CleanupInv DEF MutexNext

\* Sections of one key run one after another in the order of their calls, and
\* the entry of a key is there exactly while it is needed (KeyedMutex.runExclusive).
THEOREM SectionsAlwaysExclusive == MutexSpec => []SectionsExclusive
  <1>1. MutexInit => MutexInv
    BY MutexInitInv
  <1>2. MutexInv /\ [MutexNext]_mutexVars => MutexInv'
    BY MutexStepInv
  <1>3. MutexInv => SectionsExclusive
    BY Exclusion
  <1>4. QED
    BY <1>1, <1>2, <1>3, PTL DEF MutexSpec

LEMMA SectionsCounted ==
  ASSUME MutexInv, Len(sections) <= MaxSections, [MutexNext]_mutexVars
  PROVE  Len(sections') <= MaxSections
  <1>1. sections \in Seq(Called) /\ tails \in [Keys -> Nat] /\ Len(sections) \in Nat
        /\ DOMAIN sections = 1 .. Len(sections)
    BY LenProperties DEF MutexInv
  <1>2. ASSUME NEW k \in Keys, RunExclusive(k)
        PROVE  Len(sections') <= MaxSections
    <2> DEFINE new == [key |-> k, prev |-> tails[k], stage |-> "queued"]
    <2>1. new \in Called /\ sections' = Append(sections, new) /\ Len(sections) < MaxSections
      BY <1>1, <1>2 DEF RunExclusive, Called
    <2> HIDE DEF new
    <2>2. Len(sections') = Len(sections) + 1
      BY <1>1, <2>1, AppendProperties
    <2>3. QED
      BY <1>1, <2>1, <2>2, MutexAssumption
  <1>3. ASSUME NEW t \in DOMAIN sections, Start(t) \/ Settle(t) \/ Cleanup(t)
        PROVE  Len(sections') <= MaxSections
    <2>1. PICK stage \in {"running", "settled", "done"} :
            sections' = [sections EXCEPT ![t] = [@ EXCEPT !.stage = stage]]
      BY <1>3 DEF Start, Settle, Cleanup
    <2> DEFINE c == [sections[t] EXCEPT !.stage = stage]
    <2>2. c \in Called
      <3>1. sections[t] \in Called
        BY <1>1, ElementOfSeq
      <3>2. QED
        BY <3>1 DEF Called
    <2>3. sections' = [sections EXCEPT ![t] = c]
      BY <2>1
    <2> HIDE DEF c
    <2>4. Len(sections') = Len(sections)
      BY <1>1, <2>2, <2>3, ExceptSeq
    <2>5. QED
      BY <2>4
  <1>4. CASE UNCHANGED mutexVars
    BY <1>4 DEF mutexVars
  <1>5. QED
    BY <1>2, <1>3, <1>4 DEF MutexNext

LEMMA MutexTypeCorrect == MutexSpec => []MutexTypeOK
  <1> DEFINE Bounded == Len(sections) <= MaxSections
  <1>1. MutexInit => MutexInv /\ Bounded
    BY MutexInitInv, MutexAssumption DEF MutexInit
  <1>2. MutexInv /\ Bounded /\ [MutexNext]_mutexVars => (MutexInv /\ Bounded)'
    BY MutexStepInv, SectionsCounted
  <1>3. ASSUME MutexInv, Bounded PROVE MutexTypeOK
    <2>1. /\ sections \in Seq(Called) /\ tails \in [Keys -> Nat] /\ Len(sections) \in Nat
          /\ Chained(sections) /\ Tailed(sections, tails) /\ Len(sections) \in 0 .. MaxSections
      BY <1>3, LenProperties, MutexAssumption DEF MutexInv
    <2>2. ASSUME NEW t \in 1 .. Len(sections)
          PROVE  sections[t] \in Section
      <3>1. sections[t] \in Called
        BY <2>1, ElementOfSeq
      <3>2. sections[t].prev # 0 => sections[t].prev \in 1 .. Len(sections)
        BY <2>1 DEF Chained, Follows
      <3>3. sections[t].prev \in 0 .. MaxSections
        BY <2>1, <3>2, MutexAssumption
      <3>4. QED
        BY <3>1, <3>3 DEF Called, Section
    <2>3. sections \in Seq(Section)
      <3>1. sections \in [1 .. Len(sections) -> Called]
        BY <2>1, LenProperties
      <3>2. sections \in [1 .. Len(sections) -> Section]
        BY <2>2, <3>1
      <3>3. QED
        BY <2>1, <3>2, SeqDef
    <2>4. ASSUME NEW k \in Keys
          PROVE  tails[k] \in 0 .. MaxSections
      <3>1. tails[k] # 0 => tails[k] \in 1 .. Len(sections)
        BY <2>1 DEF Tailed
      <3>2. QED
        BY <2>1, <3>1, MutexAssumption
    <2>5. QED
      BY <1>3, <2>1, <2>3, <2>4 DEF MutexTypeOK
  <1> HIDE DEF Bounded
  <1>4. QED
    BY <1>1, <1>2, <1>3, PTL DEF MutexSpec

-----------------------------------------------------------------------------
\* What the health is judged by is what the cache holds: the last success is the
\* newest entry, and an error that is remembered came after it.
Remembered ==
  /\ \A a \in Assets : priceCache[a] # NoEntry =>
       /\ priceCache[a].taken <= priceCache[a].fetchedAt
       /\ priceCache[a].fetchedAt <= lastSuccessAt
  /\ lastSuccessAt # Never =>
       \E a \in Assets : priceCache[a] # NoEntry /\ priceCache[a].fetchedAt = lastSuccessAt
  /\ lastSuccessAt <= today /\ lastErrorAt <= today
  /\ lastErrorAt # Never <=> lastOutcome = "error"
  /\ lastErrorAt # Never => lastSuccessAt <= lastErrorAt

ServedFresh ==
  served # NoEntry =>
    /\ served.at - served.entry.fetchedAt <= TtlMs
    /\ served.entry.taken <= served.at

FeedInv == FeedTypeOK /\ Remembered /\ ServedFresh

\* What is served in time, from the cache or from an answer, is fresh.
LEMMA ServeStep ==
  ASSUME FeedTypeOK, NEW entry \in Entry, Serve(entry), entry.taken <= entry.fetchedAt,
         entry.fetchedAt <= today, today - entry.fetchedAt <= TtlMs
  PROVE  ServedFresh' /\ served' \in [entry : Entry, at : Instants]
  <1>1. served' = [entry |-> entry, at |-> today] /\ today \in Instants
    BY DEF Serve, FeedTypeOK
  <1>2. QED
    BY <1>1, FeedAssumption DEF ServedFresh, Entry, Instants

LEMMA GetSpotPriceInv ==
  ASSUME FeedInv, NEW r \in Readers, NEW a \in Assets, GetSpotPrice(r, a)
  PROVE  FeedInv'
  <1>1. FeedTypeOK /\ Remembered /\ ServedFresh
    BY DEF FeedInv
  <1>2. UNCHANGED <<today, priceCache, lastSuccessAt, lastErrorAt, lastOutcome>>
    BY DEF GetSpotPrice
  <1>3. Remembered'
    BY <1>1, <1>2 DEF Remembered
  <1>4. CASE Servable(a)
    <2>1. Serve(priceCache[a]) /\ UNCHANGED fetching
      BY <1>4 DEF GetSpotPrice
    <2>2. priceCache[a] \in Entry /\ priceCache[a].taken <= priceCache[a].fetchedAt
          /\ priceCache[a].fetchedAt <= today
      <3>1. priceCache[a] \in Entry
        BY <1>1, <1>4 DEF FeedTypeOK, Servable
      <3>2. /\ priceCache[a].taken <= priceCache[a].fetchedAt
            /\ priceCache[a].fetchedAt <= lastSuccessAt /\ lastSuccessAt <= today
        BY <1>1, <1>4 DEF Remembered, Servable
      <3>3. lastSuccessAt \in Int /\ today \in Int /\ priceCache[a].fetchedAt \in Int
        BY <1>1, <3>1 DEF FeedTypeOK, Entry, Instants, Never
      <3>4. QED
        BY <3>1, <3>2, <3>3
    <2>3. ServedFresh' /\ served' \in [entry : Entry, at : Instants]
      BY <1>1, <1>4, <2>1, <2>2, ServeStep DEF Servable
    <2>4. FeedTypeOK'
      BY <1>1, <1>2, <2>1, <2>3 DEF FeedTypeOK
    <2>5. QED
      BY <1>3, <2>3, <2>4 DEF FeedInv
  <1>5. CASE ~Servable(a)
    <2>1. /\ fetching' = [fetching EXCEPT ![r] = [asset |-> a, since |-> today]]
          /\ UNCHANGED served
      BY <1>5 DEF GetSpotPrice
    <2>2. fetching' \in [Readers -> [asset : Assets, since : Instants] \cup {NoFetch}]
      BY <1>1, <2>1 DEF FeedTypeOK
    <2>3. FeedTypeOK'
      BY <1>1, <1>2, <2>1, <2>2 DEF FeedTypeOK
    <2>4. ServedFresh'
      BY <1>1, <2>1 DEF ServedFresh
    <2>5. QED
      BY <1>3, <2>3, <2>4 DEF FeedInv
  <1>6. QED
    BY <1>4, <1>5

\* An answer is the newest entry there is, and there is no error since.
LEMMA RespondInv ==
  ASSUME FeedInv, NEW r \in Readers, Respond(r)
  PROVE  FeedInv'
  <1> DEFINE f == fetching[r]
  <1>1. FeedTypeOK /\ Remembered /\ ServedFresh
    BY DEF FeedInv
  <1>2. PICK taken \in f.since .. today :
          /\ priceCache' = [priceCache EXCEPT ![f.asset] = [fetchedAt |-> today, taken |-> taken]]
          /\ Serve([fetchedAt |-> today, taken |-> taken])
    BY DEF Respond
  <1> DEFINE entry == [fetchedAt |-> today, taken |-> taken]
  <1>3. /\ lastSuccessAt' = today /\ lastErrorAt' = Never /\ lastOutcome' = "success"
        /\ fetching' = [fetching EXCEPT ![r] = NoFetch] /\ UNCHANGED today
        /\ f # NoFetch
    BY DEF Respond
  <1>4. f.asset \in Assets /\ f.since \in Instants /\ today \in Instants
    BY <1>1, <1>3 DEF FeedTypeOK
  <1>5. entry \in Entry /\ entry.fetchedAt = today /\ entry.taken <= today
    BY <1>4, FeedAssumption DEF Entry, Instants
  <1>6. entry # NoEntry
    BY <1>5, FeedAssumption
  <1>7. priceCache' = [priceCache EXCEPT ![f.asset] = entry] /\ Serve(entry)
    BY <1>2
  <1> HIDE DEF f, entry
  <1>8. ServedFresh' /\ served' \in [entry : Entry, at : Instants]
    BY <1>1, <1>4, <1>5, <1>7, ServeStep, FeedAssumption DEF Instants
  <1>9. FeedTypeOK'
    <2>1. priceCache' \in [Assets -> Entry \cup {NoEntry}]
      BY <1>1, <1>4, <1>5, <1>7 DEF FeedTypeOK
    <2>2. fetching' \in [Readers -> [asset : Assets, since : Instants] \cup {NoFetch}]
      BY <1>1, <1>3 DEF FeedTypeOK
    <2>3. QED
      BY <1>3, <1>4, <1>8, <2>1, <2>2 DEF FeedTypeOK
  <1>10. priceCache'[f.asset] = entry
         /\ \A a \in Assets \ {f.asset} : priceCache'[a] = priceCache[a]
    BY <1>1, <1>4, <1>7 DEF FeedTypeOK
  <1>11. \A a \in Assets : priceCache'[a] # NoEntry =>
           /\ priceCache'[a].taken <= priceCache'[a].fetchedAt
           /\ priceCache'[a].fetchedAt <= today
    <2> SUFFICES ASSUME NEW a \in Assets, priceCache'[a] # NoEntry
                 PROVE  /\ priceCache'[a].taken <= priceCache'[a].fetchedAt
                        /\ priceCache'[a].fetchedAt <= today
      OBVIOUS
    <2>1. CASE a = f.asset
      BY <1>4, <1>5, <1>10, <2>1 DEF Instants
    <2>2. CASE a # f.asset
      <3>1. priceCache'[a] = priceCache[a] /\ priceCache[a] \in Entry
        BY <1>1, <1>10, <2>2 DEF FeedTypeOK
      <3>2. /\ priceCache[a].taken <= priceCache[a].fetchedAt
            /\ priceCache[a].fetchedAt <= lastSuccessAt /\ lastSuccessAt <= today
        BY <1>1, <3>1 DEF Remembered
      <3>3. lastSuccessAt \in Int /\ today \in Int /\ priceCache[a].fetchedAt \in Int
        BY <1>1, <3>1 DEF FeedTypeOK, Entry, Instants, Never
      <3>4. QED
        BY <3>1, <3>2, <3>3
    <2>3. QED
      BY <2>1, <2>2
  <1>12. Remembered'
    BY <1>3, <1>4, <1>5, <1>6, <1>10, <1>11 DEF Remembered, Never, Instants
  <1>13. QED
    BY <1>8, <1>9, <1>12 DEF FeedInv

LEMMA FeedStepInv ==
  ASSUME FeedInv, [FeedNext]_feedVars
  PROVE  FeedInv'
  <1>1. FeedTypeOK /\ Remembered /\ ServedFresh
    BY DEF FeedInv
  <1>2. CASE AdvanceToday
    <2>1. /\ today' = today + 1 /\ today < LastInstant
          /\ UNCHANGED <<priceCache, lastSuccessAt, lastErrorAt, fetching, served, lastOutcome>>
      BY <1>2 DEF AdvanceToday
    <2>2. FeedTypeOK'
      BY <1>1, <2>1, FeedAssumption DEF FeedTypeOK, Instants
    <2>3. Remembered'
      <3>1. lastSuccessAt \in Int /\ lastErrorAt \in Int /\ today \in Int
        BY <1>1 DEF FeedTypeOK, Instants, Never
      <3>2. lastSuccessAt <= today + 1 /\ lastErrorAt <= today + 1
        BY <1>1, <3>1 DEF Remembered
      <3>3. QED
        BY <1>1, <2>1, <3>2 DEF Remembered
    <2>4. ServedFresh'
      BY <1>1, <2>1 DEF ServedFresh
    <2>5. QED
      BY <2>2, <2>3, <2>4 DEF FeedInv
  <1>3. ASSUME NEW r \in Readers, FailFetch(r)
        PROVE  FeedInv'
    <2>1. /\ lastErrorAt' = today /\ lastOutcome' = "error"
          /\ fetching' = [fetching EXCEPT ![r] = NoFetch]
          /\ UNCHANGED <<today, priceCache, lastSuccessAt, served>>
      BY <1>3 DEF FailFetch
    <2>2. FeedTypeOK'
      BY <1>1, <2>1 DEF FeedTypeOK
    <2>3. Remembered'
      BY <1>1, <2>1 DEF Remembered, FeedTypeOK, Instants, Never
    <2>4. ServedFresh'
      BY <1>1, <2>1 DEF ServedFresh
    <2>5. QED
      BY <2>2, <2>3, <2>4 DEF FeedInv
  <1>4. CASE UNCHANGED feedVars
    BY <1>1, <1>4 DEF feedVars, FeedInv, FeedTypeOK, Remembered, ServedFresh
  <1>5. QED
    BY <1>2, <1>3, <1>4, GetSpotPriceInv, RespondInv DEF FeedNext

\* The health that is reported is what a reader would get.
LEMMA HealthAgrees ==
  ASSUME FeedInv
  PROVE  PricesFresh
  <1>1. FeedTypeOK /\ Remembered /\ ServedFresh
    BY DEF FeedInv
  <1>2. lastSuccessAt \in Instants \cup {Never} /\ lastErrorAt \in Instants \cup {Never}
        /\ today \in Int /\ TtlMs \in Int
    BY <1>1, FeedAssumption DEF FeedTypeOK, Instants
  <1>3. (lastSuccessAt # Never /\ today - lastSuccessAt <= TtlMs) <=>
          \E a \in Assets : priceCache[a] # NoEntry /\ today - priceCache[a].fetchedAt <= TtlMs
    <2>1. ASSUME lastSuccessAt # Never, today - lastSuccessAt <= TtlMs
          PROVE  \E a \in Assets :
                   priceCache[a] # NoEntry /\ today - priceCache[a].fetchedAt <= TtlMs
      BY <1>1, <2>1 DEF Remembered
    <2>2. ASSUME NEW a \in Assets, priceCache[a] # NoEntry,
                 today - priceCache[a].fetchedAt <= TtlMs
          PROVE  lastSuccessAt # Never /\ today - lastSuccessAt <= TtlMs
      <3>1. priceCache[a].fetchedAt \in Nat
        BY <1>1, <2>2 DEF FeedTypeOK, Entry, Instants
      <3>2. priceCache[a].fetchedAt <= lastSuccessAt
        BY <1>1, <2>2 DEF Remembered
      <3>3. QED
        BY <1>2, <2>2, <3>1, <3>2 DEF Never, Instants
    <2>3. QED
      BY <2>1, <2>2
  <1>4. Health \in {"healthy", "down", "stale"}
        /\ (Health = "healthy" <=> lastSuccessAt # Never /\ today - lastSuccessAt <= TtlMs)
    BY DEF Health
  <1>5. Health = "down" => lastOutcome = "error"
    BY <1>1 DEF Health, Remembered
  <1>6. Health = "stale" => lastOutcome # "error"
    <2> SUFFICES ASSUME Health = "stale", lastOutcome = "error"
                 PROVE  FALSE
      OBVIOUS
    <2>1. lastErrorAt # Never /\ lastSuccessAt <= lastErrorAt
      BY <1>1 DEF Remembered
    <2>2. lastErrorAt >= lastSuccessAt
      BY <1>2, <2>1 DEF Never, Instants
    <2>3. QED
      BY <2>1, <2>2 DEF Health
  <1>7. QED
    BY <1>1, <1>3, <1>4, <1>5, <1>6 DEF PricesFresh, ServedFresh

LEMMA FeedInitInv == FeedInit => FeedInv
  <1> SUFFICES ASSUME FeedInit PROVE FeedInv
    OBVIOUS
  <1>1. FeedTypeOK
    BY FeedAssumption DEF FeedInit, FeedTypeOK, Instants
  <1>2. Remembered /\ ServedFresh
    BY DEF FeedInit, Remembered, ServedFresh, Never
  <1>3. QED
    BY <1>1, <1>2 DEF FeedInv

LEMMA FeedTypeCorrect == FeedSpec => []FeedTypeOK
  <1>1. FeedInv => FeedTypeOK
    BY DEF FeedInv
  <1>2. QED
    BY <1>1, FeedInitInv, FeedStepInv, PTL DEF FeedSpec

\* No price is handed out later than its time to live after it arrived, and the
\* health that is reported agrees with what a reader would get, for any number of
\* assets and readers whose fetches cross or fail (CoingeckoPriceFeed).
THEOREM PricesAlwaysFresh == FeedSpec => []PricesFresh
  <1>1. FeedInit => FeedInv
    BY FeedInitInv
  <1>2. FeedInv /\ [FeedNext]_feedVars => FeedInv'
    BY FeedStepInv
  <1>3. FeedInv => PricesFresh
    BY HealthAgrees
  <1>4. QED
    BY <1>1, <1>2, <1>3, PTL DEF FeedSpec

-----------------------------------------------------------------------------
LEMMA MinOfTwo ==
  ASSUME NEW a \in Int, NEW b \in Int
  PROVE  Min({a, b}) \in {a, b} /\ Min({a, b}) <= a /\ Min({a, b}) <= b
  <1>1. \E x \in {a, b} : \A y \in {a, b} : x <= y
    OBVIOUS
  <1>2. QED
    BY <1>1 DEF Min

LEMMA MaxOfTwo ==
  ASSUME NEW a \in Int, NEW b \in Int
  PROVE  Max({a, b}) \in {a, b} /\ Max({a, b}) >= a /\ Max({a, b}) >= b
  <1>1. \E x \in {a, b} : \A y \in {a, b} : x >= y
    OBVIOUS
  <1>2. QED
    BY <1>1 DEF Max

\* A positive factor may be taken away from both sides.
LEMMA Cancel ==
  ASSUME NEW x \in Int, NEW y \in Int, NEW d \in Nat \ {0}, x * d <= y * d
  PROVE  x <= y
  <1> SUFFICES ASSUME x > y PROVE FALSE
    OBVIOUS
  <1>1. PICK e \in Nat : x = y + 1 + e
    <2>1. x - y - 1 \in Nat /\ x = y + 1 + (x - y - 1)
      OBVIOUS
    <2>2. QED
      BY <2>1
  <1>2. x * d = y * d + d + e * d
    BY <1>1
  <1>3. e * d \in Nat
    OBVIOUS
  <1>4. QED
    BY <1>2, <1>3

LEMMA Scale ==
  ASSUME NEW x \in Int, NEW y \in Int, NEW k \in Nat, x <= y
  PROVE  k * x <= k * y
  <1>1. PICK e \in Nat : y = x + e
    <2>1. y - x \in Nat /\ y = x + (y - x)
      OBVIOUS
    <2>2. QED
      BY <2>1
  <1>2. k * y = k * x + k * e
    BY <1>1
  <1>3. k * e \in Nat
    OBVIOUS
  <1>4. QED
    BY <1>2, <1>3

\* The hint is off the limit by no more than the deviation, when it agrees with a
\* print that is at the limit.
LEMMA HintNearLimit ==
  ASSUME NEW print, NEW hint \in Nat, print.num \in Nat \ {0}, print.den \in Nat \ {0},
         Agree(print, hint), AtLimit(print)
  PROVE  /\ kind = "buy" => 100 * hint <= LimitPrice * (100 + DeviationPct)
         /\ kind # "buy" => 100 * hint >= LimitPrice * (100 - DeviationPct)
  <1> DEFINE num == print.num
             den == print.den
             h   == hint * den
             off == DeviationPct * num
             lim == LimitPrice * den
  <1>1. /\ num \in Nat \ {0} /\ den \in Nat \ {0} /\ DeviationPct \in Nat
        /\ LimitPrice \in Nat \ {0}
    BY TriggerAssumption
  <1>2. h \in Nat /\ off \in Nat /\ lim \in Nat
    BY <1>1
  <1>3. 100 * (IF num < h THEN h - num ELSE num - h) <= off
    BY DEF Agree, Distance
  <1>4. IF kind = "buy" THEN num <= lim ELSE num >= lim
    BY DEF AtLimit
  <1>5. 100 * h = (100 * hint) * den
    BY <1>1
  <1> HIDE DEF num, den
  <1>6. CASE kind = "buy"
    <2> DEFINE k == 100 + DeviationPct
    <2>1. k \in Nat /\ k * num = 100 * num + off
      BY <1>1
    <2>2. k * lim = (LimitPrice * k) * den
      BY <1>1, <2>1
    <2> HIDE DEF k, h, off, lim
    <2>3. 100 * h <= k * num
      BY <1>1, <1>2, <1>3, <2>1
    <2>4. k * num <= k * lim
      BY <1>1, <1>2, <1>4, <1>6, <2>1, Scale
    <2>5. k * num \in Int /\ k * lim \in Int
      BY <1>1, <1>2, <2>1
    <2>6. (100 * hint) * den <= (LimitPrice * k) * den
      BY <1>2, <1>5, <2>2, <2>3, <2>4, <2>5
    <2>7. 100 * hint \in Int /\ LimitPrice * k \in Int
      BY <1>1, <2>1
    <2>8. 100 * hint <= LimitPrice * k
      BY <1>1, <2>6, <2>7, Cancel
    <2>9. QED
      BY <1>6, <2>8 DEF k
  <1>7. CASE kind # "buy" /\ DeviationPct <= 100
    <2> DEFINE k == 100 - DeviationPct
    <2>1. k \in Nat /\ k * num = 100 * num - off
      BY <1>1, <1>7
    <2>2. k * lim = (LimitPrice * k) * den
      BY <1>1, <2>1
    <2> HIDE DEF k, h, off, lim
    <2>3. k * num <= 100 * h
      BY <1>1, <1>2, <1>3, <2>1
    <2>4. k * lim <= k * num
      BY <1>1, <1>2, <1>4, <1>7, <2>1, Scale
    <2>5. k * num \in Int /\ k * lim \in Int
      BY <1>1, <1>2, <2>1
    <2>6. (LimitPrice * k) * den <= (100 * hint) * den
      BY <1>2, <1>5, <2>2, <2>3, <2>4, <2>5
    <2>7. 100 * hint \in Int /\ LimitPrice * k \in Int
      BY <1>1, <2>1
    <2>8. LimitPrice * k <= 100 * hint
      BY <1>1, <2>6, <2>7, Cancel
    <2>9. QED
      BY <1>7, <2>7, <2>8 DEF k
  <1>8. CASE kind # "buy" /\ DeviationPct > 100
    <2>1. LimitPrice * (DeviationPct - 100) \in Nat
      BY <1>1, <1>8
    <2>2. LimitPrice * (100 - DeviationPct) = -(LimitPrice * (DeviationPct - 100))
      BY <1>1
    <2>3. QED
      BY <1>1, <1>8, <2>1, <2>2
  <1>9. QED
    BY <1>1, <1>6, <1>7, <1>8

\* A print: a quotient of two positive answers, as old as the older of its rounds.
IsPrint(p) ==
  /\ p.num \in Nat \ {0} /\ p.den \in Nat \ {0}
  /\ p.observedAt \in Nat /\ p.rounds \subseteq Nat
  /\ \A at \in p.rounds : p.observedAt <= at

\* Where the scheduler's pass over a limit order is, with what it has read.
Pass ==
  /\ tick.pc \in {"primary", "hint", "fired", "trading"} => tick.nowMs \in Nat
  /\ tick.pc \in {"hint", "fired", "trading"} => IsPrint(tick.print)
  /\ tick.pc \in {"fired", "trading"} => ~IsStale(tick.print, tick.nowMs)
  /\ tick.pc = "fired" /\ kind = "buy" =>
       100 * tick.hint <= LimitPrice * (100 + DeviationPct)
  /\ tick.pc = "fired" /\ kind # "buy" =>
       100 * tick.hint >= LimitPrice * (100 - DeviationPct)

FeedsTyped ==
  /\ clock \in Nat
  /\ feeds \in [{"base", "quote"} -> [answer : Nat \ {0}, updatedAt : Nat]]

FireInv == FeedsTyped /\ Pass

LEMMA PrintRead ==
  ASSUME FeedsTyped
  PROVE  IsPrint(LatestPrint)
  <1>1. /\ feeds["base"].answer \in Nat \ {0} /\ feeds["quote"].answer \in Nat \ {0}
        /\ feeds["base"].updatedAt \in Nat /\ feeds["quote"].updatedAt \in Nat
    BY DEF FeedsTyped
  <1>2. /\ ObservedAt(feeds["base"], feeds["quote"]) \in Nat
        /\ ObservedAt(feeds["base"], feeds["quote"]) <= feeds["base"].updatedAt
        /\ ObservedAt(feeds["base"], feeds["quote"]) <= feeds["quote"].updatedAt
    <2> DEFINE b == feeds["base"].updatedAt
               q == feeds["quote"].updatedAt
    <2>1. b \in Nat /\ q \in Nat /\ ObservedAt(feeds["base"], feeds["quote"]) = Min({b, q})
      BY <1>1 DEF ObservedAt
    <2> HIDE DEF b, q
    <2>2. Min({b, q}) \in {b, q} /\ Min({b, q}) <= b /\ Min({b, q}) <= q
      BY <2>1, MinOfTwo
    <2>3. QED
      BY <2>1, <2>2 DEF b, q
  <1>3. /\ LatestPrint.num = feeds["base"].answer /\ LatestPrint.den = feeds["quote"].answer
        /\ LatestPrint.observedAt = ObservedAt(feeds["base"], feeds["quote"])
        /\ LatestPrint.rounds = {feeds["base"].updatedAt, feeds["quote"].updatedAt}
    BY DEF LatestPrint
  <1>4. QED
    BY <1>1, <1>2, <1>3 DEF IsPrint

LEMMA FireStepInv ==
  ASSUME FireInv, [TriggerNext]_triggerVars
  PROVE  FireInv'
  <1>1. FeedsTyped /\ Pass
    BY DEF FireInv
  <1>2. CASE AdvanceClock \/ UNCHANGED triggerVars \/ \E skew \in -1 .. 1 : TickDca(skew)
    <2>1. clock' \in {clock, clock + 1} /\ UNCHANGED <<kind, feeds, tick>>
      BY <1>2 DEF AdvanceClock, triggerVars, TickDca
    <2>2. FeedsTyped'
      BY <1>1, <2>1 DEF FeedsTyped
    <2>3. Pass'
      BY <1>1, <2>1 DEF Pass
    <2>4. QED
      BY <2>2, <2>3 DEF FireInv
  <1>3. ASSUME NEW leg \in {"base", "quote"}, NEW answer \in FeedPrices, NewRound(leg, answer)
        PROVE  FireInv'
    <2>1. FeedsTyped'
      BY <1>1, <1>3, TriggerAssumption DEF NewRound, FeedsTyped
    <2>2. Pass'
      BY <1>1, <1>3 DEF NewRound, Pass
    <2>3. QED
      BY <2>1, <2>2 DEF FireInv
  <1>4. CASE BeginTick \/ NoPrint \/ ReadPrimary \/ ReadHint \/ CheckLimitBound \/ EndJob
    <2>1. UNCHANGED <<kind, clock, feeds>>
      BY <1>4 DEF BeginTick, NoPrint, ReadPrimary, ReadHint, CheckLimitBound, EndJob
    <2>2. FeedsTyped'
      BY <1>1, <2>1 DEF FeedsTyped
    <2>3. ASSUME tick' = NoTick PROVE Pass'
      BY <2>3 DEF Pass, NoTick
    <2>4. ASSUME BeginTick PROVE Pass'
      BY <1>1, <2>4 DEF BeginTick, Pass, FeedsTyped
    <2>5. ASSUME ReadPrimary PROVE Pass'
      <3>1. tick' = [pc |-> "hint", nowMs |-> tick.nowMs, print |-> LatestPrint]
            /\ tick.pc = "primary"
        BY <2>5 DEF ReadPrimary
      <3>2. tick.nowMs \in Nat
        BY <1>1, <3>1 DEF Pass
      <3>3. tick'.pc = "hint" /\ tick'.nowMs \in Nat /\ IsPrint(tick'.print)
        BY <1>1, <3>1, <3>2, PrintRead
      <3>4. QED
        BY <3>3 DEF Pass
    <2>6. ASSUME ReadHint, tick' # NoTick PROVE Pass'
      <3>1. PICK hint \in HintPrices :
              /\ ~IsStale(tick.print, tick.nowMs) /\ Agree(tick.print, hint) /\ AtLimit(tick.print)
              /\ tick' = [pc |-> "fired", nowMs |-> tick.nowMs, print |-> tick.print,
                          hint |-> hint]
        BY <2>6 DEF ReadHint
      <3>2. tick.nowMs \in Nat /\ IsPrint(tick.print)
        BY <1>1, <2>6 DEF Pass, ReadHint
      <3>3. /\ kind = "buy" => 100 * hint <= LimitPrice * (100 + DeviationPct)
            /\ kind # "buy" => 100 * hint >= LimitPrice * (100 - DeviationPct)
        BY <3>1, <3>2, HintNearLimit, TriggerAssumption DEF IsPrint
      <3>4. /\ tick'.pc = "fired" /\ tick'.nowMs = tick.nowMs /\ tick'.print = tick.print
            /\ tick'.hint = hint
        BY <3>1
      <3>5. QED
        BY <2>1, <3>1, <3>2, <3>3, <3>4 DEF Pass
    <2>7. ASSUME CheckLimitBound, tick' # NoTick PROVE Pass'
      <3>1. ~IsStale(LatestPrint, clock)
            /\ tick' = [pc |-> "trading", nowMs |-> clock, print |-> LatestPrint]
        BY <2>7 DEF CheckLimitBound
      <3>2. IsPrint(LatestPrint) /\ clock \in Nat
        BY <1>1, PrintRead DEF FeedsTyped
      <3>3. tick'.pc = "trading" /\ tick'.nowMs = clock /\ tick'.print = LatestPrint
        BY <3>1
      <3>4. QED
        BY <3>1, <3>2, <3>3 DEF Pass
    <2>8. Pass'
      BY <1>4, <2>3, <2>4, <2>5, <2>6, <2>7 DEF NoPrint, EndJob
    <2>9. QED
      BY <2>2, <2>8 DEF FireInv
  <1>5. QED
    BY <1>2, <1>3, <1>4 DEF TriggerNext

\* The slots are numbered from the creation of the order.
Slot(n) == CreatedAt + n * Interval

SlotInv ==
  /\ clock \in Nat
  /\ \A s \in slots : \E n \in Nat : s = Slot(n) /\ (n = 0 \/ s <= clock + 1)

\* The slot of an instant starts a whole number of intervals after the creation,
\* and not after the instant.
LEMMA SlotOfInstant ==
  ASSUME NEW t \in Int
  PROVE  \E n \in Nat : SlotStart(t) = Slot(n) /\ (n = 0 \/ SlotStart(t) <= t)
  <1> DEFINE m == Max({0, t - CreatedAt})
             n == m \div Interval
  <1>1. CreatedAt \in Nat /\ Interval \in Nat \ {0}
    BY TriggerAssumption
  <1>2. m \in Nat /\ (m = 0 \/ m = t - CreatedAt)
    <2> DEFINE d == t - CreatedAt
    <2>1. d \in Int
      BY <1>1
    <2> HIDE DEF d
    <2>2. Max({0, d}) \in {0, d} /\ Max({0, d}) >= 0
      BY <2>1, MaxOfTwo
    <2>3. QED
      BY <2>1, <2>2 DEF d
  <1> HIDE DEF m
  <1>3. n \in Nat /\ n * Interval <= m
    BY <1>1, <1>2
  <1>4. SlotStart(t) = CreatedAt + n * Interval
    BY DEF SlotStart, m
  <1>5. m = 0 => n = 0
    BY <1>1
  <1> HIDE DEF n
  <1>6. m = t - CreatedAt => SlotStart(t) <= t
    BY <1>1, <1>2, <1>3, <1>4
  <1>7. QED
    BY <1>2, <1>3, <1>4, <1>5, <1>6 DEF Slot

LEMMA SlotStepInv ==
  ASSUME SlotInv, [TriggerNext]_triggerVars
  PROVE  SlotInv'
  <1>1. ASSUME NEW skew \in -1 .. 1, TickDca(skew)
        PROVE  SlotInv'
    <2> DEFINE t == clock + skew
    <2>1. clock \in Nat /\ clock' = clock /\ slots' = slots \cup {SlotStart(t)}
      BY <1>1 DEF SlotInv, TickDca
    <2>2. t \in Int /\ t <= clock + 1
      BY <2>1
    <2> HIDE DEF t
    <2>3. PICK n \in Nat : SlotStart(t) = Slot(n) /\ (n = 0 \/ SlotStart(t) <= t)
      BY <2>2, SlotOfInstant
    <2>4. Slot(n) \in Int
      BY TriggerAssumption DEF Slot
    <2>5. n = 0 \/ SlotStart(t) <= clock + 1
      BY <2>1, <2>2, <2>3, <2>4
    <2>6. QED
      BY <2>1, <2>3, <2>5 DEF SlotInv, Slot
  <1>2. CASE AdvanceClock
    <2>1. clock \in Nat /\ clock' = clock + 1 /\ slots' = slots
      BY <1>2 DEF SlotInv, AdvanceClock
    <2>2. ASSUME NEW s \in slots
          PROVE  \E n \in Nat : s = Slot(n) /\ (n = 0 \/ s <= (clock + 1) + 1)
      <3>1. PICK n \in Nat : s = Slot(n) /\ (n = 0 \/ s <= clock + 1)
        BY <2>2 DEF SlotInv
      <3>2. s \in Int
        BY <3>1, TriggerAssumption DEF Slot
      <3>3. QED
        BY <2>1, <3>1, <3>2
    <2>3. QED
      BY <2>1, <2>2 DEF SlotInv, Slot
  <1>3. CASE UNCHANGED <<clock, slots>>
    BY <1>3 DEF SlotInv, Slot
  <1>4. QED
    BY <1>1, <1>2, <1>3 DEF TriggerNext, triggerVars, NewRound, BeginTick, NoPrint, ReadPrimary,
                            ReadHint, CheckLimitBound, EndJob

\* Slots of different numbers are an interval apart.
LEMMA SlotsSpaced ==
  ASSUME SlotInv
  PROVE  SlotsApart
  <1>1. CreatedAt \in Nat /\ Interval \in Nat \ {0} /\ clock \in Nat
    BY TriggerAssumption DEF SlotInv
  <1>2. ASSUME NEW s \in slots, NEW t \in slots, s < t
        PROVE  t - s >= Interval
    <2>1. PICK m \in Nat : s = CreatedAt + m * Interval
      BY <1>2 DEF SlotInv, Slot
    <2>2. PICK n \in Nat : t = CreatedAt + n * Interval
      BY <1>2 DEF SlotInv, Slot
    <2>3. m < n
      <3>1. SUFFICES ASSUME n <= m PROVE FALSE
        OBVIOUS
      <3>2. Interval * n <= Interval * m
        BY <1>1, <3>1, Scale
      <3>3. m * Interval = Interval * m /\ n * Interval = Interval * n
        BY <1>1
      <3>4. m * Interval \in Int /\ n * Interval \in Int
        BY <1>1
      <3>5. QED
        BY <1>1, <1>2, <2>1, <2>2, <3>2, <3>3, <3>4
    <2>4. Interval * (m + 1) <= Interval * n
      BY <1>1, <2>3, Scale
    <2>5. Interval * (m + 1) = m * Interval + Interval /\ Interval * n = n * Interval
      BY <1>1
    <2>6. m * Interval \in Int /\ n * Interval \in Int
      BY <1>1
    <2>7. QED
      BY <1>1, <2>1, <2>2, <2>4, <2>5, <2>6
  <1>3. ASSUME NEW s \in slots
        PROVE  s = CreatedAt \/ s \in CreatedAt .. clock + 1
    <2>1. PICK n \in Nat : s = CreatedAt + n * Interval /\ (n = 0 \/ s <= clock + 1)
      BY <1>3 DEF SlotInv, Slot
    <2>2. n * Interval \in Nat /\ (n = 0 => n * Interval = 0)
      BY <1>1
    <2>3. QED
      BY <1>1, <2>1, <2>2
  <1>4. QED
    BY <1>2, <1>3 DEF SlotsApart

LEMMA TriggerInitInv ==
  ASSUME TriggerInit
  PROVE  FireInv /\ SlotInv
  <1>1. FeedsTyped
    <2>1. clock = 0 /\ feeds \in [{"base", "quote"} -> [answer : FeedPrices, updatedAt : {0}]]
      BY DEF TriggerInit
    <2>2. ASSUME NEW leg \in {"base", "quote"}
          PROVE  feeds[leg] \in [answer : Nat \ {0}, updatedAt : Nat]
      <3>1. feeds[leg] \in [answer : FeedPrices, updatedAt : {0}]
        BY <2>1
      <3>2. feeds[leg].answer \in FeedPrices /\ feeds[leg].updatedAt = 0
        BY <3>1
      <3>3. FeedPrices \subseteq Nat \ {0}
        BY TriggerAssumption
      <3>4. feeds[leg].answer \in Nat \ {0}
        BY <3>2, <3>3
      <3>5. feeds[leg] = [answer |-> feeds[leg].answer, updatedAt |-> feeds[leg].updatedAt]
        BY <3>1
      <3>6. QED
        BY <3>2, <3>4, <3>5
    <2>3. QED
      BY <2>1, <2>2 DEF FeedsTyped
  <1>2. Pass
    BY DEF TriggerInit, Pass, NoTick
  <1>3. SlotInv
    BY DEF TriggerInit, SlotInv
  <1>4. QED
    BY <1>1, <1>2, <1>3 DEF FireInv

\* What the rounds and the ticks are, whatever they lead to.
TriggerTyped ==
  /\ kind \in {"buy", "sell", "dca"} /\ clock \in Times
  /\ feeds \in [{"base", "quote"} -> [answer : FeedPrices, updatedAt : 0 .. clock]]
  /\ tick.pc \in {"idle", "primary", "hint", "fired", "trading"}
  /\ tick.pc # "idle" => tick.nowMs \in Times

LEMMA TriggerTypedStep ==
  ASSUME TriggerTyped, [TriggerNext]_triggerVars
  PROVE  TriggerTyped'
  <1>1. CASE AdvanceClock
    <2>1. clock' = clock + 1 /\ clock' \in Times /\ UNCHANGED <<kind, feeds, tick>>
      BY <1>1, TriggerAssumption DEF AdvanceClock, TriggerTyped, Times
    <2>2. [answer : FeedPrices, updatedAt : 0 .. clock]
            \subseteq [answer : FeedPrices, updatedAt : 0 .. clock']
      BY <2>1 DEF TriggerTyped, Times
    <2>3. feeds' \in [{"base", "quote"} -> [answer : FeedPrices, updatedAt : 0 .. clock']]
      BY <2>1, <2>2 DEF TriggerTyped
    <2>4. QED
      BY <2>1, <2>3 DEF TriggerTyped
  <1>2. ASSUME NEW leg \in {"base", "quote"}, NEW answer \in FeedPrices, NewRound(leg, answer)
        PROVE  TriggerTyped'
    <2>1. /\ feeds' = [feeds EXCEPT ![leg] = [answer |-> answer, updatedAt |-> clock]]
          /\ UNCHANGED <<kind, clock, tick>> /\ clock \in 0 .. clock
      BY <1>2 DEF NewRound, TriggerTyped, Times
    <2>2. feeds' \in [{"base", "quote"} -> [answer : FeedPrices, updatedAt : 0 .. clock]]
      BY <2>1 DEF TriggerTyped
    <2>3. QED
      BY <2>1, <2>2 DEF TriggerTyped
  <1>3. CASE BeginTick \/ NoPrint \/ ReadPrimary \/ ReadHint \/ CheckLimitBound \/ EndJob
    <2>1. UNCHANGED <<kind, clock, feeds>>
      BY <1>3 DEF BeginTick, NoPrint, ReadPrimary, ReadHint, CheckLimitBound, EndJob
    <2>2. /\ tick'.pc \in {"idle", "primary", "hint", "fired", "trading"}
          /\ tick'.pc # "idle" => tick'.nowMs \in Times
      BY <1>3 DEF BeginTick, NoPrint, ReadPrimary, ReadHint, CheckLimitBound, EndJob, NoTick,
                  TriggerTyped
    <2>3. QED
      BY <2>1, <2>2 DEF TriggerTyped
  <1>4. CASE UNCHANGED <<kind, clock, feeds, tick>>
    BY <1>4 DEF TriggerTyped
  <1>5. QED
    BY <1>1, <1>2, <1>3, <1>4 DEF TriggerNext, triggerVars, TickDca

LEMMA TriggerTypeCorrect == TriggerSpec => []TriggerTypeOK
  <1>1. TriggerInit => FireInv /\ SlotInv /\ TriggerTyped
    <2> SUFFICES ASSUME TriggerInit PROVE TriggerTyped
      BY TriggerInitInv
    <2>1. clock = 0 /\ clock \in Times
      BY TriggerAssumption DEF TriggerInit, Times
    <2>2. 0 .. clock = {0}
      BY <2>1
    <2>3. feeds \in [{"base", "quote"} -> [answer : FeedPrices, updatedAt : 0 .. clock]]
      BY <2>2 DEF TriggerInit
    <2>4. QED
      BY <2>1, <2>3 DEF TriggerInit, TriggerTyped, NoTick
  <1>2. FireInv /\ SlotInv /\ TriggerTyped /\ [TriggerNext]_triggerVars
        => (FireInv /\ SlotInv /\ TriggerTyped)'
    BY FireStepInv, SlotStepInv, TriggerTypedStep
  <1>3. ASSUME SlotInv, TriggerTyped PROVE TriggerTypeOK
    <2>1. \A n \in Nat : Slot(n) \in Nat
      BY TriggerAssumption DEF Slot
    <2>2. slots \subseteq Nat
      BY <1>3, <2>1 DEF SlotInv
    <2>3. \A leg \in DOMAIN feeds :
            feeds[leg].answer \in FeedPrices /\ feeds[leg].updatedAt \in 0 .. clock
      BY <1>3 DEF TriggerTyped
    <2>4. QED
      BY <1>3, <2>2, <2>3 DEF TriggerTyped, TriggerTypeOK
  <1>4. QED
    BY <1>1, <1>2, <1>3, PTL DEF TriggerSpec

\* A limit order fires only on prices that are fresh and that agree, and the slots
\* of a DCA order are whole intervals apart, for any prices, ages, deviations and
\* intervals (evaluateLimitTrigger, checkLimitBound and dcaSlotFor).
THEOREM TriggersAlwaysSound == TriggerSpec => []TriggersSound
  <1>1. TriggerInit => FireInv /\ SlotInv
    BY TriggerInitInv
  <1>2. FireInv /\ SlotInv /\ [TriggerNext]_triggerVars => (FireInv /\ SlotInv)'
    BY FireStepInv, SlotStepInv
  <1>3. FireInv /\ SlotInv => TriggersSound
    <2> SUFFICES ASSUME FireInv, SlotInv PROVE FiresAgreed
      BY SlotsSpaced DEF TriggersSound
    <2>1. Pass
      BY DEF FireInv
    <2>2. ASSUME tick.pc \in {"fired", "trading"}
          PROVE  \A at \in tick.print.rounds : tick.nowMs - at <= MaxAge
      <3>1. tick.nowMs \in Nat /\ IsPrint(tick.print) /\ ~IsStale(tick.print, tick.nowMs)
        BY <2>1, <2>2 DEF Pass
      <3>2. QED
        BY <3>1, TriggerAssumption DEF IsPrint, IsStale
    <2>3. QED
      BY <2>1, <2>2 DEF Pass, FiresAgreed
  <1>4. QED
    BY <1>1, <1>2, <1>3, PTL DEF TriggerSpec

-----------------------------------------------------------------------------
(* The budget of the verification reads.                                    *)

\* The instants since w, the stretch as long as the window before w, and the one
\* that ends with t.
Since(w)  == {s \in Moments : s >= w}
Before(w) == {s \in Moments : w - WindowMs <= s /\ s < w}
UpTo(t)   == {s \in Moments : t - WindowMs < s /\ s <= t}

ReadsTyped ==
  /\ instant \in Moments /\ windowStart \in 0 .. instant
  /\ counts \in [Clients -> 0 .. MaxPerWindow]
  /\ admitted \in [Clients -> [Moments -> Nat]]
  /\ refused \subseteq Clients \X Moments

\* The counts are those of the window: all that was admitted since it began, which
\* was before it ended.
Counted(w, n, a) ==
  \A c \in Clients : /\ n[c] = Sum(a[c], Since(w))
                     /\ \A t \in Moments : t >= w + WindowMs => a[c][t] = 0

\* The stretch before a window has the requests of one window at most: the one
\* before it began no later than that stretch.
Preceded(w, a) == \A c \in Clients : Sum(a[c], Before(w)) <= MaxPerWindow

\* Nothing is admitted ahead of the clock.
NotYet(a) == \A c \in Clients, t \in Moments : t > instant => a[c][t] = 0

\* What BudgetHolds says of those admitted, and of those refused.
Limited(a) == \A c \in Clients, t \in Moments : Sum(a[c], UpTo(t)) <= 2 * MaxPerWindow

Earned(a) == \A r \in refused : Sum(a[r[1]], UpTo(r[2])) >= MaxPerWindow

\* The window that is open, the stretch before it, and what follows for any other.
ReadsInv ==
  /\ ReadsTyped
  /\ Counted(windowStart, counts, admitted)
  /\ Preceded(windowStart, admitted)
  /\ NotYet(admitted) /\ Limited(admitted) /\ Earned(admitted)

LEMMA Stretches ==
  ASSUME NEW w
  PROVE  /\ IsFiniteSet(Since(w)) /\ IsFiniteSet(Before(w)) /\ IsFiniteSet(UpTo(w))
         /\ Since(w) \in SUBSET Moments /\ Before(w) \in SUBSET Moments
         /\ UpTo(w) \in SUBSET Moments
<1>1. IsFiniteSet(Moments)
  BY ReadsAssumption, FS_Interval DEF Moments
<1>2. /\ Since(w) \in SUBSET Moments /\ Before(w) \in SUBSET Moments
      /\ UpTo(w) \in SUBSET Moments
  BY DEF Since, Before, UpTo
<1> QED BY <1>1, <1>2, FS_Subset

\* Sums over a stretch of what one client was admitted are numbers.
LEMMA AdmittedSums ==
  ASSUME NEW f \in [Moments -> Nat], NEW S \in SUBSET Moments
  PROVE  IsFiniteSet(S) /\ IntOn(f, S) /\ Sum(f, S) \in Nat
<1>1. IsFiniteSet(Moments)
  BY ReadsAssumption, FS_Interval DEF Moments
<1>2. IsFiniteSet(S)
  BY <1>1, FS_Subset
<1>3. \A x \in S : f[x] \in Nat
  OBVIOUS
<1> QED BY <1>2, <1>3, SumMonotone DEF IntOn

LEMMA AdmittedGrows ==
  ASSUME NEW f \in [Moments -> Nat], NEW S \in SUBSET Moments, NEW T \in SUBSET S
  PROVE  Sum(f, T) <= Sum(f, S)
<1>1. IsFiniteSet(S) /\ \A x \in S : f[x] \in Nat
  BY AdmittedSums
<1> QED BY <1>1, SumMonotone

\* A stretch that ends in a window or after it reaches back no further than the
\* stretch before the window.
LEMMA TwoWindows ==
  ASSUME NEW f \in [Moments -> Nat], NEW w \in Nat, NEW t \in Moments, w <= t,
         Sum(f, Since(w)) <= MaxPerWindow, Sum(f, Before(w)) <= MaxPerWindow
  PROVE  Sum(f, UpTo(t)) <= 2 * MaxPerWindow
<1> DEFINE S == Before(w) \cup Since(w)
<1>1. Before(w) \in SUBSET Moments /\ Since(w) \in SUBSET Moments
  BY Stretches
<1>2. Before(w) \cap Since(w) = {}
  BY DEF Before, Since, Moments
<1>3. UpTo(t) \in SUBSET S
  BY ReadsAssumption DEF UpTo, Before, Since, Moments
<1>4. Sum(f, S) = Sum(f, Before(w)) + Sum(f, Since(w))
  BY <1>1, <1>2, AdmittedSums, SumUnion
<1>5. S \in SUBSET Moments
  BY <1>1
<1> HIDE DEF S
<1>6. Sum(f, UpTo(t)) <= Sum(f, S)
  BY <1>3, <1>5, AdmittedGrows
<1>7. /\ Sum(f, UpTo(t)) \in Nat /\ Sum(f, Before(w)) \in Nat /\ Sum(f, Since(w)) \in Nat
      /\ MaxPerWindow \in Nat
  BY <1>1, AdmittedSums, Stretches, ReadsAssumption
<1> QED BY <1>4, <1>6, <1>7

\* The window a request finds, which may be one that it opens.
LEMMA WindowFound ==
  ASSUME ReadsInv
  PROVE  /\ WindowFrom \in 0 .. instant /\ instant < WindowFrom + WindowMs
         /\ windowStart <= WindowFrom
         /\ Counted(WindowFrom, [d \in Clients |-> Used(d)], admitted)
         /\ Preceded(WindowFrom, admitted)
         /\ \A d \in Clients : Used(d) \in 0 .. MaxPerWindow
<1>1. /\ instant \in Nat /\ windowStart \in Nat /\ windowStart <= instant
      /\ WindowMs \in Nat \ {0} /\ MaxPerWindow \in Nat
  BY ReadsAssumption DEF ReadsInv, ReadsTyped, Moments
<1>2. CASE ~Expired
  <2>1. WindowFrom = windowStart /\ \A d \in Clients : Used(d) = counts[d]
    BY <1>2 DEF WindowFrom, Used
  <2>2. instant < windowStart + WindowMs
    BY <1>1, <1>2 DEF Expired
  <2>3. [d \in Clients |-> Used(d)] = counts
    BY <2>1 DEF ReadsInv, ReadsTyped
  <2> QED BY <1>1, <2>1, <2>2, <2>3 DEF ReadsInv, ReadsTyped
<1>3. CASE Expired
  <2>1. WindowFrom = instant /\ \A d \in Clients : Used(d) = 0
    BY <1>3 DEF WindowFrom, Used
  <2>2. instant >= windowStart + WindowMs
    BY <1>3 DEF Expired
  <2>3. ASSUME NEW c \in Clients
        PROVE  \A t \in Moments : t >= instant => admitted[c][t] = 0
    <3>1. \A t \in Moments : t >= windowStart + WindowMs => admitted[c][t] = 0
      BY DEF ReadsInv, Counted
    <3>2. \A t \in Moments : t >= instant => t >= windowStart + WindowMs
      BY <1>1, <2>2 DEF Moments
    <3> QED BY <3>1, <3>2
  <2>4. ASSUME NEW c \in Clients
        PROVE  Sum(admitted[c], Since(instant)) = 0
    <3>1. \A s \in Since(instant) : admitted[c][s] = 0
      BY <2>3 DEF Since
    <3> QED BY <3>1, Stretches, SumOfZeros
  <2>5. \A t \in Moments : t >= instant + WindowMs => t >= instant
    BY <1>1 DEF Moments
  <2>6. Counted(instant, [d \in Clients |-> Used(d)], admitted)
    BY <2>1, <2>3, <2>4, <2>5 DEF Counted
  <2>7. ASSUME NEW c \in Clients
        PROVE  Sum(admitted[c], Before(instant)) <= MaxPerWindow
    <3>1. Before(instant) \in SUBSET Since(windowStart)
      BY <1>1, <2>2 DEF Before, Since, Moments
    <3>2. admitted[c] \in [Moments -> Nat] /\ Since(windowStart) \in SUBSET Moments
      BY Stretches DEF ReadsInv, ReadsTyped
    <3>3. Sum(admitted[c], Before(instant)) <= Sum(admitted[c], Since(windowStart))
      BY <3>1, <3>2, AdmittedGrows
    <3>4. Sum(admitted[c], Since(windowStart)) = counts[c] /\ counts[c] \in 0 .. MaxPerWindow
      BY DEF ReadsInv, ReadsTyped, Counted
    <3>5. Sum(admitted[c], Before(instant)) \in Nat
      BY <3>2, AdmittedSums, Stretches
    <3> QED BY <1>1, <3>3, <3>4, <3>5
  <2>8. instant < instant + WindowMs /\ instant \in 0 .. instant /\ 0 \in 0 .. MaxPerWindow
    BY <1>1
  <2> QED BY <1>1, <2>1, <2>6, <2>7, <2>8 DEF Preceded
<1> QED BY <1>2, <1>3

\* A request that is refused: its client has had its budget in this window, which
\* is part of the stretch that ends now.
LEMMA RefusalEarned ==
  ASSUME ReadsInv, NEW c \in Clients, Used(c) >= MaxPerWindow
  PROVE  Sum(admitted[c], UpTo(instant)) >= MaxPerWindow
<1>1. /\ WindowFrom \in 0 .. instant /\ instant < WindowFrom + WindowMs
      /\ Used(c) = Sum(admitted[c], Since(WindowFrom))
  BY WindowFound DEF Counted
<1>2. /\ instant \in Nat /\ WindowMs \in Nat /\ MaxPerWindow \in Nat
      /\ admitted[c] \in [Moments -> Nat]
  BY ReadsAssumption DEF ReadsInv, ReadsTyped, Moments
<1> DEFINE late == Since(WindowFrom) \ UpTo(instant)
           seen == Since(WindowFrom) \cap UpTo(instant)
<1>3. \A s \in late : admitted[c][s] = 0
  <2>1. \A s \in late : s \in Moments /\ s > instant
    BY <1>1, <1>2 DEF Since, UpTo, Moments
  <2> QED BY <2>1 DEF ReadsInv, NotYet
<1>4. Since(WindowFrom) \in SUBSET Moments /\ UpTo(instant) \in SUBSET Moments
  BY Stretches
<1>5. /\ late \in SUBSET Moments /\ seen \in SUBSET Moments /\ seen \in SUBSET UpTo(instant)
      /\ late \cap seen = {} /\ late \cup seen = Since(WindowFrom)
  BY <1>4
<1> HIDE DEF late, seen
<1>6. Sum(admitted[c], late) = 0
  BY <1>2, <1>3, <1>5, AdmittedSums, SumOfZeros
<1>7. Sum(admitted[c], late \cup seen) = Sum(admitted[c], late) + Sum(admitted[c], seen)
  BY <1>2, <1>5, AdmittedSums, SumUnion
<1>8. Sum(admitted[c], seen) <= Sum(admitted[c], UpTo(instant))
  BY <1>2, <1>4, <1>5, AdmittedGrows
<1>9. Sum(admitted[c], seen) \in Nat /\ Sum(admitted[c], UpTo(instant)) \in Nat
  BY <1>2, <1>4, <1>5, AdmittedSums
<1>10. Sum(admitted[c], late \cup seen) = Sum(admitted[c], Since(WindowFrom))
  BY <1>5
<1>11. Used(c) \in Nat
  BY <1>2, WindowFound
<1> QED BY <1>1, <1>2, <1>6, <1>7, <1>8, <1>9, <1>10, <1>11

\* What one more request at instant i does to a sum.
LEMMA OneMore ==
  ASSUME NEW f \in [Moments -> Nat], NEW i \in Moments, NEW S \in SUBSET Moments,
         NEW g \in [Moments -> Nat], g[i] = f[i] + 1, \A s \in Moments \ {i} : g[s] = f[s]
  PROVE  /\ i \in S => Sum(g, S) = Sum(f, S) + 1
         /\ i \notin S => Sum(g, S) = Sum(f, S)
         /\ Sum(g, S) >= Sum(f, S)
<1>1. IsFiniteSet(S) /\ IntOn(f, S) /\ IntOn(g, S) /\ Sum(f, S) \in Nat /\ f[i] \in Nat
  BY AdmittedSums
<1>2. CASE i \in S
  <2>1. \A s \in S \ {i} : f[s] = g[s]
    OBVIOUS
  <2>2. Sum(g, S) = Sum(f, S) + g[i] - f[i]
    BY <1>1, <1>2, <2>1, SumChange
  <2> QED BY <1>1, <1>2, <2>2
<1>3. CASE i \notin S
  <2>1. \A s \in S : f[s] = g[s]
    BY <1>3
  <2>2. Sum(f, S) = Sum(g, S)
    BY <1>1, <2>1, SumAgree
  <2> QED BY <1>1, <1>3, <2>2
<1> QED BY <1>2, <1>3

\* A request that is admitted is the one more that the count says.
LEMMA AdmitStep ==
  ASSUME ReadsInv, NEW c \in Clients, ~(Used(c) >= MaxPerWindow),
         windowStart' = WindowFrom, instant' = instant, refused' = refused,
         counts' = [[d \in Clients |-> Used(d)] EXCEPT ![c] = @ + 1],
         admitted' = [admitted EXCEPT ![c][instant] = @ + 1]
  PROVE  ReadsInv'
<1> DEFINE w == WindowFrom
<1>1. /\ w \in 0 .. instant /\ instant < w + WindowMs
      /\ Counted(w, [d \in Clients |-> Used(d)], admitted)
      /\ Preceded(w, admitted)
      /\ \A d \in Clients : Used(d) \in 0 .. MaxPerWindow
  BY WindowFound
<1> HIDE DEF w
<1>2. /\ instant \in Moments /\ instant \in Nat /\ WindowMs \in Nat \ {0} /\ MaxPerWindow \in Nat
      /\ admitted \in [Clients -> [Moments -> Nat]] /\ w \in Nat /\ w <= instant
  BY <1>1, ReadsAssumption DEF ReadsInv, ReadsTyped, Moments
<1>3. PICK f \in [Moments -> Nat] : f = admitted[c]
  BY <1>2
<1>4. PICK g \in [Moments -> Nat] : g = [f EXCEPT ![instant] = f[instant] + 1]
  <2>1. f[instant] + 1 \in Nat
    BY <1>2
  <2>2. [f EXCEPT ![instant] = f[instant] + 1] \in [Moments -> Nat]
    BY <2>1
  <2> QED BY <2>2
<1>5. g[instant] = f[instant] + 1 /\ \A s \in Moments \ {instant} : g[s] = f[s]
  BY <1>2, <1>4
<1>6. /\ admitted' = [admitted EXCEPT ![c] = g]
      /\ admitted' \in [Clients -> [Moments -> Nat]]
      /\ admitted'[c] = g /\ \A d \in Clients \ {c} : admitted'[d] = admitted[d]
  BY <1>2, <1>3, <1>4
<1>7. \A t : /\ Since(t) \in SUBSET Moments /\ Before(t) \in SUBSET Moments
             /\ UpTo(t) \in SUBSET Moments
  BY Stretches
<1>8. \A d \in Clients, S \in SUBSET Moments :
        /\ Sum(admitted'[d], S) >= Sum(admitted[d], S)
        /\ instant \notin S => Sum(admitted'[d], S) = Sum(admitted[d], S)
  <2> SUFFICES ASSUME NEW d \in Clients, NEW S \in SUBSET Moments
               PROVE  /\ Sum(admitted'[d], S) >= Sum(admitted[d], S)
                      /\ instant \notin S => Sum(admitted'[d], S) = Sum(admitted[d], S)
    OBVIOUS
  <2>1. CASE d = c
    <3>1. /\ Sum(g, S) >= Sum(f, S)
          /\ instant \notin S => Sum(g, S) = Sum(f, S)
      BY <1>2, <1>5, OneMore
    <3> QED BY <1>3, <1>6, <2>1, <3>1
  <2>2. CASE d # c
    <3>1. Sum(admitted[d], S) \in Nat
      BY <1>2, AdmittedSums
    <3> QED BY <1>6, <2>2, <3>1
  <2> QED BY <2>1, <2>2
<1>9. counts' \in [Clients -> 0 .. MaxPerWindow] /\ counts'[c] = Used(c) + 1
      /\ \A d \in Clients \ {c} : counts'[d] = Used(d)
  <2>1. Used(c) \in 0 .. MaxPerWindow /\ Used(c) + 1 \in 0 .. MaxPerWindow
    BY <1>1, <1>2
  <2> QED BY <1>1, <2>1
<1>10. Counted(w, counts', admitted')
  <2> SUFFICES ASSUME NEW d \in Clients
               PROVE  /\ counts'[d] = Sum(admitted'[d], Since(w))
                      /\ \A t \in Moments : t >= w + WindowMs => admitted'[d][t] = 0
    BY DEF Counted
  <2>1. /\ Used(d) = Sum(admitted[d], Since(w))
        /\ \A t \in Moments : t >= w + WindowMs => admitted[d][t] = 0
    BY <1>1 DEF Counted
  <2>2. CASE d = c
    <3>1. instant \in Since(w)
      BY <1>2 DEF Since
    <3>2. Sum(g, Since(w)) = Sum(f, Since(w)) + 1
      BY <1>2, <1>5, <1>7, <3>1, OneMore
    <3>3. \A t \in Moments : t >= w + WindowMs => t # instant
      BY <1>1, <1>2
    <3> QED BY <1>3, <1>5, <1>6, <1>9, <2>1, <2>2, <3>2, <3>3
  <2>3. CASE d # c
    BY <1>6, <1>9, <2>1, <2>3
  <2> QED BY <2>2, <2>3
<1>11. Preceded(w, admitted')
  <2>1. instant \notin Before(w)
    BY <1>2 DEF Before
  <2> QED BY <1>1, <1>7, <1>8, <2>1 DEF Preceded
<1>12. NotYet(admitted)'
  <2> SUFFICES ASSUME NEW d \in Clients, NEW t \in Moments, t > instant
               PROVE  admitted'[d][t] = 0
    BY DEF NotYet
  <2>1. admitted[d][t] = 0 /\ t # instant
    BY <1>2 DEF ReadsInv, NotYet, Moments
  <2> QED BY <1>3, <1>5, <1>6, <2>1
<1>13. Limited(admitted')
  <2> SUFFICES ASSUME NEW d \in Clients, NEW t \in Moments
               PROVE  Sum(admitted'[d], UpTo(t)) <= 2 * MaxPerWindow
    BY DEF Limited
  <2>1. CASE w <= t
    <3>1. PICK h \in [Moments -> Nat] : h = admitted'[d]
      BY <1>6
    <3>2. Sum(h, Before(w)) <= MaxPerWindow /\ Sum(h, Since(w)) <= MaxPerWindow
      <4>1. counts'[d] \in 0 .. MaxPerWindow
        BY <1>9
      <4> QED BY <1>10, <1>11, <3>1, <4>1 DEF Counted, Preceded
    <3>3. Sum(h, UpTo(t)) <= 2 * MaxPerWindow
      BY <1>2, <2>1, <3>2, TwoWindows
    <3> QED BY <3>1, <3>3
  <2>2. CASE ~(w <= t)
    <3>1. instant \notin UpTo(t)
      BY <1>2, <2>2 DEF UpTo, Moments
    <3> QED BY <1>7, <1>8, <3>1 DEF ReadsInv, Limited
  <2> QED BY <2>1, <2>2
<1>14. Earned(admitted)'
  <2> SUFFICES ASSUME NEW r \in refused
               PROVE  Sum(admitted'[r[1]], UpTo(r[2])) >= MaxPerWindow
    BY DEF Earned
  <2>1. r[1] \in Clients
    BY DEF ReadsInv, ReadsTyped
  <2>2. /\ Sum(admitted'[r[1]], UpTo(r[2])) >= Sum(admitted[r[1]], UpTo(r[2]))
        /\ Sum(admitted[r[1]], UpTo(r[2])) >= MaxPerWindow
    BY <1>7, <1>8, <2>1 DEF ReadsInv, Earned
  <2>3. /\ Sum(admitted'[r[1]], UpTo(r[2])) \in Nat /\ Sum(admitted[r[1]], UpTo(r[2])) \in Nat
    BY <1>2, <1>6, <1>7, <2>1, AdmittedSums
  <2> QED BY <1>2, <2>2, <2>3
<1>15. ReadsTyped'
  BY <1>1, <1>2, <1>6, <1>9 DEF ReadsInv, ReadsTyped, w
<1> QED BY <1>10, <1>11, <1>12, <1>13, <1>14, <1>15 DEF ReadsInv, w

\* A request that is refused counts for nothing.
LEMMA RefuseStep ==
  ASSUME ReadsInv, NEW c \in Clients, Used(c) >= MaxPerWindow,
         windowStart' = WindowFrom, instant' = instant, admitted' = admitted,
         counts' = [d \in Clients |-> Used(d)], refused' = refused \cup {<<c, instant>>}
  PROVE  ReadsInv'
<1>1. /\ WindowFrom \in 0 .. instant
      /\ Counted(WindowFrom, [d \in Clients |-> Used(d)], admitted)
      /\ Preceded(WindowFrom, admitted)
      /\ \A d \in Clients : Used(d) \in 0 .. MaxPerWindow
  BY WindowFound
<1>2. ReadsTyped'
  BY <1>1 DEF ReadsInv, ReadsTyped
<1>3. Earned(admitted)'
  <2>1. Sum(admitted[c], UpTo(instant)) >= MaxPerWindow
    BY RefusalEarned
  <2> QED BY <2>1 DEF ReadsInv, Earned
<1> QED BY <1>1, <1>2, <1>3 DEF ReadsInv, NotYet, Limited

LEMMA ReadsStep ==
  ASSUME ReadsInv, [ReadsNext]_readsVars
  PROVE  ReadsInv'
<1>1. ASSUME NEW c \in Clients, ReadArtifact(c)
      PROVE  ReadsInv'
  <2>1. windowStart' = WindowFrom /\ instant' = instant
    BY <1>1 DEF ReadArtifact
  <2>2. CASE Used(c) >= MaxPerWindow
    <3>1. /\ counts' = [d \in Clients |-> Used(d)]
          /\ refused' = refused \cup {<<c, instant>>} /\ admitted' = admitted
      BY <1>1, <2>2 DEF ReadArtifact
    <3> QED BY <2>1, <2>2, <3>1, RefuseStep
  <2>3. CASE ~(Used(c) >= MaxPerWindow)
    <3>1. /\ counts' = [[d \in Clients |-> Used(d)] EXCEPT ![c] = @ + 1]
          /\ admitted' = [admitted EXCEPT ![c][instant] = @ + 1] /\ refused' = refused
      BY <1>1, <2>3 DEF ReadArtifact
    <3> QED BY <2>1, <2>3, <3>1, AdmitStep
  <2> QED BY <2>2, <2>3
<1>2. CASE AdvanceInstant
  <2>1. /\ instant' = instant + 1 /\ instant < Horizon
        /\ UNCHANGED <<windowStart, counts, admitted, refused>>
    BY <1>2 DEF AdvanceInstant
  <2>2. ReadsTyped'
    BY <2>1, ReadsAssumption DEF ReadsInv, ReadsTyped, Moments
  <2>3. NotYet(admitted)'
    BY <2>1 DEF ReadsInv, ReadsTyped, NotYet, Moments
  <2> QED BY <2>1, <2>2, <2>3 DEF ReadsInv, Counted, Preceded, Limited, Earned
<1>3. CASE UNCHANGED readsVars
  BY <1>3 DEF readsVars, ReadsInv, ReadsTyped, Counted, Preceded, NotYet, Limited, Earned
<1> QED BY <1>1, <1>2, <1>3 DEF ReadsNext

LEMMA ReadsStart == ReadsInit => ReadsInv
<1> SUFFICES ASSUME ReadsInit PROVE ReadsInv
  OBVIOUS
<1>1. /\ instant = 0 /\ windowStart = 0 /\ counts = [c \in Clients |-> 0]
      /\ admitted = [c \in Clients |-> [t \in Moments |-> 0]] /\ refused = {}
      /\ MaxPerWindow \in Nat /\ WindowMs \in Nat /\ 2 * MaxPerWindow >= 0
  BY ReadsAssumption DEF ReadsInit
<1>2. ReadsTyped
  BY <1>1, ReadsAssumption DEF ReadsTyped, Moments
<1>3. \A c \in Clients : \A t \in Moments : admitted[c][t] = 0
  BY <1>1
<1>4. \A c \in Clients, S \in SUBSET Moments : Sum(admitted[c], S) = 0
  <2> SUFFICES ASSUME NEW c \in Clients, NEW S \in SUBSET Moments
               PROVE  Sum(admitted[c], S) = 0
    OBVIOUS
  <2>1. admitted[c] \in [Moments -> Nat]
    BY <1>2 DEF ReadsTyped
  <2>2. IsFiniteSet(S) /\ \A s \in S : admitted[c][s] = 0
    BY <1>3, <2>1, AdmittedSums
  <2> QED BY <2>2, SumOfZeros
<1>5. \A w : /\ Since(w) \in SUBSET Moments /\ Before(w) \in SUBSET Moments
             /\ UpTo(w) \in SUBSET Moments
  BY Stretches
<1> QED BY <1>1, <1>2, <1>3, <1>4, <1>5
      DEF ReadsInv, Counted, Preceded, NotYet, Limited, Earned

\* No client is served more than twice its budget in a stretch as long as the
\* window, wherever windows begin, and none is refused that has not had its budget in
\* the stretch before: for any window, budget and number of clients
\* (InMemoryFixedWindowRateLimit.tryConsume).
THEOREM BudgetAlwaysHolds == ReadsSpec => []BudgetHolds
<1>1. ReadsInv => BudgetHolds
  <2> SUFFICES ASSUME ReadsInv PROVE BudgetHolds
    OBVIOUS
  <2>1. \A c, t : Recent(c, t) = Sum(admitted[c], UpTo(t))
    BY DEF Recent, UpTo, MapThenSumSet, Sum, SumFunctionOnSet, FoldFunctionOnSet
  <2> QED BY <2>1 DEF ReadsInv, Limited, Earned, BudgetHolds
<1> QED BY <1>1, ReadsStart, ReadsStep, PTL DEF ReadsSpec

LEMMA ReadsTypeCorrect == ReadsSpec => []ReadsTypeOK
<1>1. ASSUME ReadsInv PROVE ReadsTypeOK
  <2>1. ASSUME NEW c \in Clients, NEW t \in Moments
        PROVE  admitted[c][t] \in 0 .. 2 * MaxPerWindow
    <3>1. admitted[c] \in [Moments -> Nat] /\ UpTo(t) \in SUBSET Moments
      BY <1>1, Stretches DEF ReadsInv, ReadsTyped
    <3>2. t \in UpTo(t)
      BY ReadsAssumption DEF UpTo, Moments
    <3>3. IsFiniteSet(UpTo(t)) /\ IntOn(admitted[c], UpTo(t))
      BY <3>1, AdmittedSums
    <3> DEFINE rest == Sum(admitted[c], UpTo(t) \ {t})
    <3>4. Sum(admitted[c], UpTo(t)) = admitted[c][t] + rest
      BY <3>2, <3>3, SumRemove
    <3>5. rest \in Nat
      <4>1. UpTo(t) \ {t} \in SUBSET Moments
        BY <3>1
      <4>2. QED
        BY <3>1, <4>1, AdmittedSums
    <3>6. Sum(admitted[c], UpTo(t)) <= 2 * MaxPerWindow
      BY <1>1 DEF ReadsInv, Limited
    <3> HIDE DEF rest
    <3>7. admitted[c][t] \in Nat
      BY <3>1
    <3> QED BY <3>4, <3>5, <3>6, <3>7, ReadsAssumption
  <2> QED BY <1>1, <2>1 DEF ReadsInv, ReadsTyped, ReadsTypeOK
<1> QED BY <1>1, ReadsStart, ReadsStep, PTL DEF ReadsSpec

-----------------------------------------------------------------------------
(* Numbers by their digits.                                                 *)

\* v[i] is what a number that begins with a is after i more digits of d.
Written(a, d, n, v) ==
  v \in [0 .. n -> Nat] /\ v[0] = a /\ \A i \in 1 .. n : v[i] = 10 * v[i - 1] + d[i]

\* The first n members of d are digits, or those of e; after i they are noughts.
DigitsTo(d, n)    == \A j \in 1 .. n : d[j] \in 0 .. 9
Alike(d, e, n)    == \A j \in 1 .. n : d[j] = e[j]
Noughts(d, i, n)  == \A j \in 1 .. n : i < j => d[j] = 0

\* d is m digits of f and of noughts after its end L.
Pads(d, f, L, m) == \A i \in 1 .. m : d[i] = (IF i <= L THEN f[i] ELSE 0) /\ d[i] \in 0 .. 9

LEMMA WrittenExists ==
  ASSUME NEW a \in Nat, NEW d, NEW N \in Nat, \A i \in 1 .. N : d[i] \in Nat
  PROVE  \E v : Written(a, d, N, v)
<1> DEFINE T == {n \in Nat : n <= N => \E v : Written(a, d, n, v)}
<1>1. 0 \in T
  <2> DEFINE v == [i \in 0 .. 0 |-> a]
  <2>1. v \in [0 .. 0 -> Nat] /\ v[0] = a /\ \A i \in 1 .. 0 : v[i] = 10 * v[i - 1] + d[i]
    OBVIOUS
  <2>2. Written(a, d, 0, v)
    <3> HIDE DEF v
    <3> QED BY <2>1 DEF Written
  <2> QED BY <2>2
<1>2. ASSUME NEW n \in T
      PROVE  n + 1 \in T
  <2>1. n \in Nat /\ n + 1 \in Nat
    OBVIOUS
  <2>2. SUFFICES ASSUME n + 1 <= N PROVE \E v : Written(a, d, n + 1, v)
    BY <2>1
  <2>3. PICK v : Written(a, d, n, v)
    BY <2>1, <2>2
  <2> DEFINE last == 10 * v[n] + d[n + 1]
             u == [i \in 0 .. n + 1 |-> IF i = n + 1 THEN last ELSE v[i]]
  <2>4. last \in Nat
    <3>1. v[n] \in Nat /\ d[n + 1] \in Nat
      BY <2>1, <2>2, <2>3 DEF Written
    <3> QED BY <3>1
  <2>5. u \in [0 .. n + 1 -> Nat]
    <3>1. \A i \in 0 .. n : v[i] \in Nat
      BY <2>3 DEF Written
    <3>2. \A i \in 0 .. n + 1 : i = n + 1 \/ i \in 0 .. n
      BY <2>1
    <3> HIDE DEF last
    <3> QED BY <2>4, <3>1, <3>2
  <2>6. u[0] = a
    BY <2>1, <2>3 DEF Written
  <2>7. ASSUME NEW i \in 1 .. n + 1
        PROVE  u[i] = 10 * u[i - 1] + d[i]
    <3>1. CASE i = n + 1
      <4>1. u[i] = last /\ u[i - 1] = v[n]
        BY <2>1, <3>1
      <4> HIDE DEF u
      <4> QED BY <3>1, <4>1
    <3>2. CASE i # n + 1
      <4>1. u[i] = v[i] /\ u[i - 1] = v[i - 1] /\ i \in 1 .. n
        BY <2>1, <3>2
      <4> HIDE DEF u
      <4> QED BY <2>3, <4>1 DEF Written
    <3> QED BY <3>1, <3>2
  <2>8. Written(a, d, n + 1, u)
    <3> HIDE DEF u
    <3> QED BY <2>5, <2>6, <2>7 DEF Written
  <2> QED BY <2>8
<1>3. T = Nat
  <2>1. T \subseteq Nat
    OBVIOUS
  <2> HIDE DEF T
  <2> QED BY <1>1, <1>2, <2>1, Induction
<1> QED BY <1>3

\* Equal digits write equal numbers.
LEMMA WrittenAlike ==
  ASSUME NEW a, NEW d, NEW n \in Nat, NEW v, Written(a, d, n, v),
         NEW e, NEW m \in Nat, NEW u, Written(a, e, m, u),
         NEW k \in Nat, k <= n, k <= m, Alike(d, e, k)
  PROVE  v[k] = u[k]
<1> DEFINE T == {j \in Nat : j <= k => v[j] = u[j]}
<1>1. 0 \in T
  BY DEF Written
<1>2. ASSUME NEW j \in T
      PROVE  j + 1 \in T
  <2>1. SUFFICES ASSUME j + 1 <= k PROVE v[j + 1] = u[j + 1]
    OBVIOUS
  <2>2. j \in Nat /\ v[j] = u[j]
    BY <2>1
  <2>3. j + 1 \in 1 .. k /\ j + 1 \in 1 .. n /\ j + 1 \in 1 .. m /\ (j + 1) - 1 = j
    BY <2>1, <2>2
  <2>4. v[j + 1] = 10 * v[j] + d[j + 1] /\ u[j + 1] = 10 * u[j] + e[j + 1]
    BY <2>3 DEF Written
  <2> QED BY <2>2, <2>3, <2>4 DEF Alike
<1>3. T = Nat
  <2>1. T \subseteq Nat
    OBVIOUS
  <2> HIDE DEF T
  <2> QED BY <1>1, <1>2, <2>1, Induction
<1> QED BY <1>3

-----------------------------------------------------------------------------
(* Powers of ten.                                                           *)

LEMMA TenToDefined == TenTo = [n \in Nat |-> IF n = 0 THEN 1 ELSE 10 * TenTo[n - 1]]
<1> DEFINE nought == [i \in Nat |-> 0]
           upTo(n) == CHOOSE v : Written(1, nought, n, v)
           g == [n \in Nat |-> upTo(n)[n]]
<1>1. ASSUME NEW n \in Nat
      PROVE  Written(1, nought, n, upTo(n))
  <2>1. \A i \in 1 .. n : nought[i] \in Nat
    OBVIOUS
  <2>2. \E v : Written(1, nought, n, v)
    <3> HIDE DEF nought
    <3> QED BY <2>1, WrittenExists
  <2> QED BY <2>2
<1>2. g[0] = 1
  <2> HIDE DEF nought, upTo
  <2> QED BY <1>1 DEF Written
<1>3. ASSUME NEW n \in Nat, n # 0
      PROVE  g[n] = 10 * g[n - 1]
  <2>1. n - 1 \in Nat /\ n \in 1 .. n /\ nought[n] = 0
    BY <1>3
  <2>2. Written(1, nought, n, upTo(n)) /\ Written(1, nought, n - 1, upTo(n - 1))
    <3> HIDE DEF nought, upTo
    <3> QED BY <1>1, <2>1
  <2> HIDE DEF nought, upTo
  <2>3. upTo(n)[n] = 10 * upTo(n)[n - 1] + nought[n] /\ upTo(n)[n - 1] \in Nat
    <3>1. n - 1 \in 0 .. n
      BY <2>1
    <3> QED BY <2>1, <2>2, <3>1 DEF Written
  <2>4. upTo(n)[n - 1] = upTo(n - 1)[n - 1]
    <3>1. Alike(nought, nought, n - 1)
      BY DEF Alike
    <3> QED BY <2>1, <2>2, <3>1, WrittenAlike
  <2> QED BY <2>1, <2>3, <2>4
<1>4. g = [n \in Nat |-> IF n = 0 THEN 1 ELSE 10 * g[n - 1]]
  <2>1. \A n \in Nat : g[n] = IF n = 0 THEN 1 ELSE 10 * g[n - 1]
    <3> HIDE DEF g
    <3> QED BY <1>2, <1>3
  <2>2. g = [n \in Nat |-> g[n]]
    OBVIOUS
  <2> HIDE DEF g
  <2> QED BY <2>1, <2>2
<1> HIDE DEF g
<1> QED BY <1>4 DEF TenTo

LEMMA TenToType ==
  TenTo[0] = 1 /\ \A n \in Nat : TenTo[n] \in Nat /\ TenTo[n] >= 1 /\ TenTo[n + 1] = 10 * TenTo[n]
<1>1. TenTo[0] = 1
  BY TenToDefined
<1>2. \A n \in Nat : TenTo[n + 1] = 10 * TenTo[n]
  <2>1. ASSUME NEW n \in Nat PROVE TenTo[n + 1] = 10 * TenTo[n]
    <3>1. n + 1 \in Nat /\ n + 1 # 0 /\ (n + 1) - 1 = n
      OBVIOUS
    <3> QED BY <3>1, TenToDefined
  <2> QED BY <2>1
<1> DEFINE T == {n \in Nat : TenTo[n] \in Nat /\ TenTo[n] >= 1}
<1>3. T = Nat
  <2>1. T \subseteq Nat /\ 0 \in T
    BY <1>1
  <2>2. \A n \in T : n + 1 \in T
    BY <1>2
  <2> HIDE DEF T
  <2> QED BY <2>1, <2>2, Induction
<1> QED BY <1>1, <1>2, <1>3

LEMMA TenToSum ==
  ASSUME NEW m \in Nat, NEW k \in Nat
  PROVE  TenTo[m + k] = TenTo[m] * TenTo[k]
<1> DEFINE T == {n \in Nat : TenTo[m + n] = TenTo[m] * TenTo[n]}
<1>1. 0 \in T
  BY TenToType
<1>2. ASSUME NEW n \in T
      PROVE  n + 1 \in T
  <2>1. n \in Nat /\ TenTo[m + n] = TenTo[m] * TenTo[n]
    OBVIOUS
  <2>2. m + n \in Nat /\ m + (n + 1) = (m + n) + 1
    BY <2>1
  <2>3. /\ TenTo[m + (n + 1)] = 10 * TenTo[m + n]
        /\ TenTo[n + 1] = 10 * TenTo[n] /\ TenTo[n] \in Nat /\ TenTo[m] \in Nat
    BY <2>1, <2>2, TenToType
  <2>4. 10 * (TenTo[m] * TenTo[n]) = TenTo[m] * (10 * TenTo[n])
    BY <2>3
  <2> QED BY <2>1, <2>3, <2>4
<1>3. T = Nat
  <2>1. T \subseteq Nat
    OBVIOUS
  <2> HIDE DEF T
  <2> QED BY <1>1, <1>2, <2>1, Induction
<1> QED BY <1>3

\* More digits: the number before them in units of the last one, and less than
\* one such unit more.
LEMMA MoreDigits ==
  ASSUME NEW a, NEW d, NEW n \in Nat, NEW v, Written(a, d, n, v), NEW i \in 0 .. n,
         DigitsTo(d, n), NEW k \in Nat, i + k <= n
  PROVE  /\ v[i] \in Nat /\ v[i + k] \in Nat
         /\ v[i] * TenTo[k] <= v[i + k] /\ v[i + k] + 1 <= (v[i] + 1) * TenTo[k]
<1> DEFINE T == {q \in Nat : i + q <= n =>
                   v[i] * TenTo[q] <= v[i + q] /\ v[i + q] + 1 <= (v[i] + 1) * TenTo[q]}
<1>1. v[i] \in Nat
  BY DEF Written
<1>2. 0 \in T
  BY <1>1, TenToType
<1>3. ASSUME NEW q \in T
      PROVE  q + 1 \in T
  <2>1. SUFFICES ASSUME i + (q + 1) <= n
        PROVE  /\ v[i] * TenTo[q + 1] <= v[i + (q + 1)]
               /\ v[i + (q + 1)] + 1 <= (v[i] + 1) * TenTo[q + 1]
    OBVIOUS
  <2>2. q \in Nat
    OBVIOUS
  <2>3. /\ i + q \in 0 .. n /\ i + (q + 1) \in 1 .. n /\ (i + (q + 1)) - 1 = i + q
    BY <2>1, <2>2
  <2>4. v[i] * TenTo[q] <= v[i + q] /\ v[i + q] + 1 <= (v[i] + 1) * TenTo[q]
    BY <2>2, <2>3
  <2>5. /\ v[i + (q + 1)] = 10 * v[i + q] + d[i + (q + 1)]
        /\ d[i + (q + 1)] \in 0 .. 9 /\ v[i + q] \in Nat
    BY <2>3 DEF Written, DigitsTo
  <2>6. TenTo[q] \in Nat /\ TenTo[q + 1] = 10 * TenTo[q]
    BY <2>2, TenToType
  <2> DEFINE low == v[i] * TenTo[q]
             high == (v[i] + 1) * TenTo[q]
  <2>7. /\ v[i] * TenTo[q + 1] = 10 * low /\ (v[i] + 1) * TenTo[q + 1] = 10 * high
        /\ low \in Int /\ high \in Int
    BY <1>1, <2>6
  <2>8. low <= v[i + q] /\ v[i + q] + 1 <= high
    BY <2>4
  <2> HIDE DEF low, high
  <2> QED BY <2>5, <2>7, <2>8
<1>4. T = Nat
  <2>1. T \subseteq Nat
    OBVIOUS
  <2> HIDE DEF T
  <2> QED BY <1>2, <1>3, <2>1, Induction
<1>5. v[i + k] \in Nat
  BY DEF Written
<1> QED BY <1>1, <1>4, <1>5

\* More noughts: the number before them in units of the last one.
LEMMA MoreNoughts ==
  ASSUME NEW a, NEW d, NEW n \in Nat, NEW v, Written(a, d, n, v), NEW i \in 0 .. n,
         Noughts(d, i, n), NEW k \in Nat, i + k <= n
  PROVE  v[i + k] = v[i] * TenTo[k]
<1> DEFINE T == {q \in Nat : i + q <= n => v[i + q] = v[i] * TenTo[q]}
<1>1. v[i] \in Nat
  BY DEF Written
<1>2. 0 \in T
  BY <1>1, TenToType
<1>3. ASSUME NEW q \in T
      PROVE  q + 1 \in T
  <2>1. SUFFICES ASSUME i + (q + 1) <= n
        PROVE  v[i + (q + 1)] = v[i] * TenTo[q + 1]
    OBVIOUS
  <2>2. q \in Nat
    OBVIOUS
  <2>3. /\ i + q \in 0 .. n /\ i + (q + 1) \in 1 .. n /\ (i + (q + 1)) - 1 = i + q
        /\ i < i + (q + 1)
    BY <2>1, <2>2
  <2>4. v[i + q] = v[i] * TenTo[q]
    BY <2>2, <2>3
  <2>5. v[i + (q + 1)] = 10 * v[i + q] + 0 /\ v[i + q] \in Nat
    BY <2>3 DEF Written, Noughts
  <2>6. TenTo[q] \in Nat /\ TenTo[q + 1] = 10 * TenTo[q]
    BY <2>2, TenToType
  <2>7. v[i] * (10 * TenTo[q]) = 10 * (v[i] * TenTo[q])
    BY <1>1, <2>6
  <2> QED BY <2>4, <2>5, <2>6, <2>7
<1>4. T = Nat
  <2>1. T \subseteq Nat
    OBVIOUS
  <2> HIDE DEF T
  <2> QED BY <1>2, <1>3, <2>1, Induction
<1> QED BY <1>4

\* The value of a text is what its digits write.
LEMMA ValueWritten ==
  ASSUME NEW ds, Len(ds) \in Nat, \A i \in 1 .. Len(ds) : ds[i] \in Nat
  PROVE  \E v : Written(0, ds, Len(ds), v) /\ Value(ds) = v[Len(ds)]
<1> DEFINE n == Len(ds)
           Turns(v) == [i \in 0 .. n |-> IF i = 0 THEN 0 ELSE 10 * v[i - 1] + ds[i]]
           upTo == CHOOSE v : v = Turns(v)
<1>1. Value(ds) = upTo[n]
  BY DEF Value
<1>2. PICK v : Written(0, ds, n, v)
  <2> HIDE DEF n
  <2> QED BY WrittenExists DEF n
<1>3. v = Turns(v)
  BY <1>2 DEF Written
<1>4. upTo = Turns(upTo)
  <2> HIDE DEF Turns
  <2> QED BY <1>3
<1>5. Written(0, ds, n, upTo)
  <2>1. upTo[0] = 0
    <3> HIDE DEF upTo
    <3> QED BY <1>4
  <2>2. \A i \in 1 .. n : upTo[i] = 10 * upTo[i - 1] + ds[i]
    <3> HIDE DEF upTo
    <3> QED BY <1>4
  <2>3. DOMAIN upTo = 0 .. n /\ upTo = [i \in 0 .. n |-> upTo[i]]
    <3> HIDE DEF upTo
    <3> QED BY <1>4
  <2> DEFINE T == {j \in Nat : j <= n => upTo[j] \in Nat}
  <2>4. T = Nat
    <3> HIDE DEF upTo
    <3>1. T \subseteq Nat /\ 0 \in T
      BY <2>1
    <3>2. ASSUME NEW j \in T
          PROVE  j + 1 \in T
      <4>1. j + 1 <= n => j + 1 \in 1 .. n /\ (j + 1) - 1 = j
        OBVIOUS
      <4> QED BY <4>1, <2>2
    <3> HIDE DEF T
    <3> QED BY <3>1, <3>2, Induction
  <2>5. upTo \in [0 .. n -> Nat]
    <3> HIDE DEF upTo
    <3> QED BY <2>3, <2>4
  <2> HIDE DEF upTo
  <2> QED BY <2>1, <2>2, <2>5 DEF Written
<1> QED BY <1>1, <1>5

-----------------------------------------------------------------------------
(* MicrosExact.                                                             *)

\* A text as usdToMicros admits it.
Text(in) ==
  /\ in.negative \in BOOLEAN /\ in.int \in Nat
  /\ in.frac \in Seq(0 .. 9) /\ Len(in.frac) <= MaxDigits

Signed(in, n) == IF in.negative THEN -n ELSE n

\* What the digit after the unit makes of the digits before it.
Rounded(cut, digit) == IF digit >= 5 THEN cut + 1 ELSE cut

LEMMA FirstOnes ==
  ASSUME NEW s, NEW n \in Nat
  PROVE  SubSeq(s, 1, n) = [i \in 1 .. n |-> s[i]]
OBVIOUS

\* Padding adds noughts, and cuts what lies beyond the digit after the unit.
LEMMA PaddedDigits ==
  ASSUME NEW in, Text(in)
  PROVE  /\ Len(Padded(in)) = UnitDigits + 1
         /\ \A i \in 1 .. UnitDigits + 1 :
              /\ Padded(in)[i] = IF i <= Len(in.frac) THEN in.frac[i] ELSE 0
              /\ Padded(in)[i] \in 0 .. 9
<1> DEFINE U == UnitDigits + 1
           long == in.frac \o Zeros(U)
<1>1. U \in Nat /\ in.frac \in Seq(0 .. 9) /\ Len(in.frac) \in Nat
  BY MoneyAssumption DEF Text
<1>2. Zeros(U) \in Seq(0 .. 9) /\ Len(Zeros(U)) = U /\ \A i \in 1 .. U : Zeros(U)[i] = 0
  BY <1>1 DEF Zeros
<1>3. /\ long \in Seq(0 .. 9) /\ Len(long) = Len(in.frac) + U
      /\ \A i \in 1 .. Len(in.frac) : long[i] = in.frac[i]
      /\ \A i \in Len(in.frac) + 1 .. Len(in.frac) + U : long[i] = 0
  <2>1. /\ long \in Seq(0 .. 9) /\ Len(long) = Len(in.frac) + U
        /\ \A i \in 1 .. Len(in.frac) + U :
             long[i] = IF i <= Len(in.frac) THEN in.frac[i] ELSE Zeros(U)[i - Len(in.frac)]
    <3> DEFINE S == 0 .. 9
               z == Zeros(U)
    <3>1. in.frac \in Seq(S) /\ z \in Seq(S)
      BY <1>1, <1>2
    <3>2. Len(z) = U
      BY <1>2
    <3> HIDE DEF S, z
    <3>3. /\ in.frac \o z \in Seq(S) /\ Len(in.frac \o z) = Len(in.frac) + Len(z)
          /\ \A i \in 1 .. Len(in.frac) + Len(z) :
               (in.frac \o z)[i] = IF i <= Len(in.frac) THEN in.frac[i] ELSE z[i - Len(in.frac)]
      BY <3>1, ConcatProperties
    <3> QED BY <3>2, <3>3 DEF S, z
  <2>2. ASSUME NEW i \in Len(in.frac) + 1 .. Len(in.frac) + U
        PROVE  long[i] = 0
    <3>1. /\ i \in 1 .. Len(in.frac) + U /\ ~(i <= Len(in.frac))
          /\ i - Len(in.frac) \in 1 .. U
      BY <1>1
    <3> HIDE DEF U, long
    <3> QED BY <1>2, <2>1, <3>1
  <2>3. ASSUME NEW i \in 1 .. Len(in.frac)
        PROVE  long[i] = in.frac[i]
    <3>1. i \in 1 .. Len(in.frac) + U /\ i <= Len(in.frac)
      BY <1>1
    <3> HIDE DEF U, long
    <3> QED BY <2>1, <3>1
  <2> QED BY <2>1, <2>2, <2>3
<1>4. /\ Len(SubSeq(long, 1, U)) = U
      /\ \A i \in 1 .. U : SubSeq(long, 1, U)[i] = long[i]
  <2>1. SubSeq(long, 1, U) = [i \in 1 .. U |-> long[i]]
    <3> HIDE DEF long, U
    <3> QED BY <1>1, FirstOnes
  <2> HIDE DEF long
  <2> QED BY <1>1, <2>1
<1>5. Padded(in) = SubSeq(long, 1, U)
  BY DEF Padded
<1>6. ASSUME NEW i \in 1 .. U
      PROVE  /\ Padded(in)[i] = IF i <= Len(in.frac) THEN in.frac[i] ELSE 0
             /\ Padded(in)[i] \in 0 .. 9
  <2>1. Padded(in)[i] = long[i]
    BY <1>4, <1>5
  <2>2. CASE i <= Len(in.frac)
    <3>1. i \in 1 .. Len(in.frac)
      BY <2>2, <1>1
    <3>2. in.frac[i] \in 0 .. 9
      BY <3>1, <1>1
    <3> HIDE DEF long
    <3> QED BY <2>1, <2>2, <3>1, <3>2, <1>3
  <2>3. CASE ~(i <= Len(in.frac))
    <3>1. i \in Len(in.frac) + 1 .. Len(in.frac) + U
      BY <2>3, <1>1
    <3> HIDE DEF long
    <3> QED BY <2>1, <2>3, <3>1, <1>3
  <2> QED BY <2>2, <2>3
<1> HIDE DEF long
<1> QED BY <1>4, <1>5, <1>6

\* What usdToMicros returns, whether or not the fraction carries.
LEMMA Conversion ==
  ASSUME NEW in, Text(in), NEW w, Written(0, Padded(in), UnitDigits + 1, w)
  PROVE  UsdToMicros(in)
           = Signed(in, in.int * PerUsd + Rounded(w[UnitDigits], Padded(in)[UnitDigits + 1]))
<1> DEFINE D   == Padded(in)
           cut == Value(SubSeq(D, 1, UnitDigits))
<1>1. UnitDigits \in Nat /\ in.int \in Nat /\ PerUsd \in Nat
  BY MoneyAssumption, TenToType DEF Text, PerUsd
<1>2. /\ Len(D) = UnitDigits + 1
      /\ \A i \in 1 .. UnitDigits + 1 : D[i] \in 0 .. 9
  BY PaddedDigits
<1>3. cut = w[UnitDigits] /\ cut \in Nat
  <2> DEFINE ds == SubSeq(D, 1, UnitDigits)
  <2>1. ds = [i \in 1 .. UnitDigits |-> D[i]]
    BY <1>1, FirstOnes
  <2>2. Len(ds) = UnitDigits /\ \A i \in 1 .. UnitDigits : ds[i] = D[i]
    BY <1>1, <2>1
  <2>3. \A i \in 1 .. Len(ds) : ds[i] \in Nat
    <3> HIDE DEF ds, D
    <3> QED BY <1>1, <1>2, <2>2
  <2>4. PICK v : Written(0, ds, UnitDigits, v) /\ Value(ds) = v[UnitDigits]
    <3> HIDE DEF ds
    <3> QED BY <1>1, <2>2, <2>3, ValueWritten
  <2>5. v[UnitDigits] = w[UnitDigits]
    <3> HIDE DEF ds, D
    <3> DEFINE m == UnitDigits + 1
               a == 0
    <3>1. Written(a, D, m, w)
      BY DEF D
    <3>2. /\ m \in Nat /\ UnitDigits <= m /\ UnitDigits <= UnitDigits
          /\ Alike(ds, D, UnitDigits)
      BY <1>1, <2>2 DEF Alike
    <3>3. Written(a, ds, UnitDigits, v)
      BY <2>4
    <3> HIDE DEF m, a
    <3> QED BY <1>1, <3>1, <3>2, <3>3, WrittenAlike
  <2>6. v[UnitDigits] \in Nat
    BY <2>4, <1>1 DEF Written
  <2> QED BY <2>4, <2>5, <2>6
<1>4. CASE D[UnitDigits + 1] >= 5
  <2>1. CASE cut + 1 = PerUsd
    <3>1. Carry(cut) = [int |-> 1, frac |-> 0]
      BY <2>1 DEF Carry
    <3>2. UsdToMicros(in) = Signed(in, (in.int + 1) * PerUsd + 0)
      BY <1>4, <3>1 DEF UsdToMicros, Signed
    <3>3. (in.int + 1) * PerUsd + 0 = in.int * PerUsd + (cut + 1)
      BY <1>1, <2>1
    <3> QED BY <1>3, <1>4, <3>2, <3>3 DEF Rounded
  <2>2. CASE cut + 1 # PerUsd
    <3>1. Carry(cut) = [int |-> 0, frac |-> cut + 1]
      BY <2>2 DEF Carry
    <3>2. UsdToMicros(in) = Signed(in, (in.int + 0) * PerUsd + (cut + 1))
      BY <1>4, <3>1 DEF UsdToMicros, Signed
    <3> QED BY <1>1, <1>3, <1>4, <3>2 DEF Rounded
  <2> QED BY <2>1, <2>2
<1>5. CASE ~(D[UnitDigits + 1] >= 5)
  <2>1. UsdToMicros(in) = Signed(in, (in.int + 0) * PerUsd + cut)
    BY <1>5 DEF UsdToMicros, Signed
  <2> QED BY <1>1, <1>3, <1>5, <2>1 DEF Rounded
<1> QED BY <1>4, <1>5

\* The sign and the whole units play no part in how a fraction is rounded:
\* cut digits at the unit, one digit after it, and of the rest of the fraction
\* that it is less than one of that digit.
LEMMA Nearest ==
  ASSUME NEW cut \in Nat, NEW digit \in 0 .. 9, NEW q \in Nat, q >= 1, NEW exact \in Nat,
         (10 * cut + digit) * q <= exact, exact + 1 <= (10 * cut + digit + 1) * q
  PROVE  LET off == Rounded(cut, digit) * (10 * q) - exact
         IN -(10 * q) < 2 * off /\ 2 * off <= 10 * q
<1> DEFINE c == cut * q
           d == digit * q
<1>1. c \in Int /\ d \in Int
  OBVIOUS
<1>2. (10 * cut + digit) * q = 10 * c + d /\ (10 * cut + digit + 1) * q = 10 * c + d + q
  OBVIOUS
<1>3. CASE digit >= 5
  <2>1. 5 * q <= d
    BY <1>3
  <2>2. (cut + 1) * (10 * q) = 10 * c + 10 * q
    OBVIOUS
  <2>3. Rounded(cut, digit) = cut + 1
    BY <1>3 DEF Rounded
  <2>4. d <= 9 * q
    OBVIOUS
  <2> HIDE DEF c, d
  <2> QED BY <1>1, <1>2, <2>1, <2>2, <2>3, <2>4
<1>4. CASE digit < 5
  <2>1. d <= 4 * q /\ 0 <= d
    BY <1>4
  <2>2. cut * (10 * q) = 10 * c
    OBVIOUS
  <2>3. Rounded(cut, digit) = cut
    BY <1>4 DEF Rounded
  <2> HIDE DEF c, d
  <2> QED BY <1>1, <1>2, <2>1, <2>2, <2>3
<1> QED BY <1>3, <1>4

LEMMA TimesMonotone ==
  ASSUME NEW x \in Nat, NEW y \in Nat, x <= y, NEW s \in Nat
  PROVE  x * s <= y * s
<1>1. PICK z \in Nat : y = x + z
  <2>1. y - x \in Nat /\ y = x + (y - x)
    OBVIOUS
  <2> QED BY <2>1
<1>2. y * s = x * s + z * s /\ x * s \in Nat /\ z * s \in Nat
  BY <1>1
<1> QED BY <1>2

LEMMA Scaled ==
  ASSUME NEW x \in Nat, NEW y \in Nat, NEW r \in Nat, NEW s \in Nat, s >= 1,
         x * r <= y, y + 1 <= (x + 1) * r
  PROVE  x * (r * s) <= y * s /\ y * s + 1 <= (x + 1) * (r * s)
<1>1. (x * r) * s <= y * s
  <2>1. x * r \in Nat
    OBVIOUS
  <2> QED BY <2>1, TimesMonotone
<1>2. (y + 1) * s <= ((x + 1) * r) * s
  <2>1. (x + 1) * r \in Nat /\ y + 1 \in Nat
    OBVIOUS
  <2> QED BY <2>1, TimesMonotone
<1>3. x * (r * s) = (x * r) * s /\ (x + 1) * (r * s) = ((x + 1) * r) * s
  OBVIOUS
<1>4. (y + 1) * s = y * s + s /\ y * s \in Nat /\ ((x + 1) * r) * s \in Nat
  OBVIOUS
<1>5. y * s + 1 <= (y + 1) * s
  BY <1>4
<1>6. y * s + 1 <= ((x + 1) * r) * s
  BY <1>2, <1>4, <1>5
<1> QED BY <1>1, <1>3, <1>6

\* A text whose digits fill up with noughts is as it was.
LEMMA Shorter ==
  ASSUME NEW a, NEW f, NEW L \in Nat, NEW v, Written(a, f, L, v),
         NEW d, NEW m \in Nat, NEW w, Written(a, d, m, w),
         Alike(f, d, L), Noughts(d, L, m), NEW n \in Nat, L <= n, n <= m
  PROVE  w[n] = v[L] * TenTo[n - L]
<1>1. L \in 0 .. m /\ L <= L /\ L <= m
  OBVIOUS
<1>2. v[L] = w[L]
  BY <1>1, WrittenAlike
<1> DEFINE k == n - L
<1>3. k \in Nat /\ L + k = n /\ L + k <= m
  OBVIOUS
<1> HIDE DEF k
<1>4. w[L + k] = w[L] * TenTo[k]
  BY <1>1, <1>3, MoreNoughts
<1> QED BY <1>2, <1>3, <1>4 DEF k

\* A text that is cut after m digits loses less than one of the last that is left.
LEMMA Longer ==
  ASSUME NEW a, NEW f, NEW L \in Nat, NEW v, Written(a, f, L, v), DigitsTo(f, L),
         NEW d, NEW m \in Nat, NEW w, Written(a, d, m, w), Alike(f, d, m),
         NEW k \in Nat, m + k = L, NEW e \in Nat
  PROVE  /\ w[m] * TenTo[k + e] <= v[L] * TenTo[e]
         /\ v[L] * TenTo[e] + 1 <= (w[m] + 1) * TenTo[k + e]
<1>1. m <= L /\ m <= m /\ m \in 0 .. L /\ m + k <= L
  OBVIOUS
<1>2. v[m] = w[m]
  BY <1>1, WrittenAlike
<1>3. /\ v[m] \in Nat /\ v[L] \in Nat
      /\ v[m] * TenTo[k] <= v[L] /\ v[L] + 1 <= (v[m] + 1) * TenTo[k]
  BY <1>1, MoreDigits
<1>4. TenTo[k + e] = TenTo[k] * TenTo[e] /\ TenTo[k] \in Nat /\ TenTo[e] \in Nat /\ TenTo[e] >= 1
  BY TenToSum, TenToType
<1> QED BY <1>2, <1>3, <1>4, Scaled

\* A fraction in units of its last possible digit, and its rounding: of U and
\* of M digits, padded to m = U + 1.
LEMMA FractionRounded ==
  ASSUME NEW a, a = 0, NEW U \in Nat, NEW M \in Nat, U <= M, NEW m \in Nat, m = U + 1,
         NEW f, NEW L \in Nat, L <= M, DigitsTo(f, L), NEW v, Written(a, f, L, v),
         NEW d, Pads(d, f, L, m), NEW w, Written(a, d, m, w)
  PROVE  LET scale == TenTo[M - U]
             off   == Rounded(w[U], d[m]) * scale - v[L] * TenTo[M - L]
         IN -scale < 2 * off /\ 2 * off <= scale
<1>1. /\ v[L] \in Nat /\ w[U] \in Nat /\ w[m] = 10 * w[U] + d[m] /\ d[m] \in 0 .. 9
  <2>1. m \in 1 .. m /\ m - 1 = U /\ U \in 0 .. m /\ L \in 0 .. L
    OBVIOUS
  <2> QED BY <2>1 DEF Written, Pads
<1>2. CASE L <= U
  <2>1. PICK k \in Nat : L + k = U
    <3>1. U - L \in Nat /\ L + (U - L) = U
      BY <1>2
    <3> QED BY <3>1
  <2>2. PICK e \in Nat : U + e = M
    <3>1. M - U \in Nat /\ U + (M - U) = M
      OBVIOUS
    <3> QED BY <3>1
  <2>3. U <= m /\ Alike(f, d, L) /\ Noughts(d, L, m)
    BY <1>2, <2>1 DEF Alike, Noughts, Pads
  <2>4. w[U] * TenTo[e] = v[L] * TenTo[k + e]
    <3>1. w[U] = v[L] * TenTo[U - L]
      BY <1>2, <2>3, Shorter
    <3>2. U - L = k
      BY <2>1
    <3>3. TenTo[k + e] = TenTo[k] * TenTo[e] /\ TenTo[k] \in Nat /\ TenTo[e] \in Nat
      BY TenToSum, TenToType
    <3>4. \A x, y, z \in Nat : (x * y) * z = x * (y * z)
      OBVIOUS
    <3> QED BY <1>1, <3>1, <3>2, <3>3, <3>4
  <2>5. M - U = e /\ M - L = k + e
    BY <2>1, <2>2
  <2>6. d[m] = 0
    BY <1>2 DEF Pads
  <2>7. Rounded(w[U], d[m]) = w[U]
    BY <2>6 DEF Rounded
  <2>8. Rounded(w[U], d[m]) * TenTo[M - U] = v[L] * TenTo[M - L]
    BY <2>1, <2>4, <2>5, <2>7
  <2>9. TenTo[M - U] \in Nat /\ TenTo[M - U] >= 1 /\ TenTo[M - L] \in Nat
    <3>1. M - U \in Nat /\ M - L \in Nat
      OBVIOUS
    <3> QED BY <3>1, TenToType
  <2> DEFINE y == v[L] * TenTo[M - L]
             scale == TenTo[M - U]
  <2>10. y \in Int /\ scale \in Nat /\ scale >= 1
    BY <1>1, <2>9
  <2>11. Rounded(w[U], d[m]) * scale = y
    BY <2>8
  <2> HIDE DEF y, scale
  <2>12. -scale < 2 * (y - y) /\ 2 * (y - y) <= scale
    BY <2>10
  <2> QED BY <2>11, <2>12 DEF y, scale
<1>3. CASE L > U
  <2>1. PICK k \in Nat : m + k = L
    <3>1. L - m \in Nat /\ m + (L - m) = L
      BY <1>3
    <3> QED BY <3>1
  <2>2. PICK e \in Nat : L + e = M
    <3>1. M - L \in Nat /\ L + (M - L) = M
      OBVIOUS
    <3> QED BY <3>1
  <2>3. Alike(f, d, m)
    BY <1>3 DEF Alike, Pads
  <2>4. /\ w[m] * TenTo[k + e] <= v[L] * TenTo[e]
        /\ v[L] * TenTo[e] + 1 <= (w[m] + 1) * TenTo[k + e]
    BY <2>1, <2>3, Longer
  <2>5. M - L = e /\ M - U = (k + e) + 1 /\ k + e \in Nat
    BY <2>1, <2>2
  <2> DEFINE q == TenTo[k + e]
             exact == v[L] * TenTo[e]
  <2>6. q \in Nat /\ q >= 1 /\ exact \in Nat /\ TenTo[M - U] = 10 * q
    <3>1. TenTo[e] \in Nat /\ q \in Nat /\ q >= 1
      BY <2>5, TenToType
    <3>2. exact \in Nat
      BY <1>1, <3>1
    <3>3. TenTo[(k + e) + 1] = 10 * TenTo[k + e]
      BY <2>5, TenToType
    <3> QED BY <2>5, <3>1, <3>2, <3>3
  <2>7. exact = v[L] * TenTo[M - L]
    BY <2>5
  <2>8. w[m] * q <= exact /\ exact + 1 <= (w[m] + 1) * q
    BY <2>4
  <2> HIDE DEF q, exact
  <2>9. (10 * w[U] + d[m]) * q <= exact /\ exact + 1 <= (10 * w[U] + d[m] + 1) * q
    BY <1>1, <2>8
  <2>10. /\ -(10 * q) < 2 * (Rounded(w[U], d[m]) * (10 * q) - exact)
         /\ 2 * (Rounded(w[U], d[m]) * (10 * q) - exact) <= 10 * q
    BY <1>1, <2>6, <2>9, Nearest
  <2> QED BY <2>6, <2>7, <2>10
<1> QED BY <1>2, <1>3

\* The amount is rounded to the nearest micro, a tie away from zero.
LEMMA ConvertsNearest ==
  ASSUME NEW in, Text(in)
  PROVE  LET scale == TenTo[MaxDigits - UnitDigits]
             off   == UsdToMicros(in) * scale - Exact(in)
         IN /\ -scale <= 2 * off /\ 2 * off <= scale
            /\ 2 * off = scale => ~in.negative
            /\ 2 * off = -scale => in.negative
            /\ UsdToMicros(in) \in Int
<1> DEFINE U == UnitDigits
           M == MaxDigits
           L == Len(in.frac)
           D == Padded(in)
           scale == TenTo[M - U]
           a == 0
           m == U + 1
<1>1. /\ U \in Nat /\ L \in Nat /\ M \in Nat /\ U <= M /\ L <= M /\ m \in Nat
      /\ DigitsTo(in.frac, L) /\ in.int \in Nat
  BY MoneyAssumption DEF Text, DigitsTo
<1>2. Pads(D, in.frac, L, m) /\ DigitsTo(D, m) /\ Len(D) = m
  BY PaddedDigits DEF Pads, DigitsTo
<1>3. PICK v : Written(a, in.frac, L, v) /\ Value(in.frac) = v[L]
  <2>1. \A i \in 1 .. L : in.frac[i] \in Nat
    BY <1>1 DEF DigitsTo
  <2> QED BY <1>1, <2>1, ValueWritten
<1>4. PICK w : Written(a, D, m, w)
  <2>1. \A i \in 1 .. m : D[i] \in Nat
    BY <1>2 DEF DigitsTo
  <2>2. a \in Nat
    OBVIOUS
  <2> HIDE DEF a, D, m
  <2> QED BY <1>1, <2>1, <2>2, WrittenExists
<1> DEFINE rounded  == Rounded(w[U], D[m])
           fraction == v[L] * TenTo[M - L]
           off      == rounded * scale - fraction
<1>5. /\ v[L] \in Nat /\ w[U] \in Nat /\ D[m] \in 0 .. 9 /\ rounded \in Nat
  <2>1. U \in 0 .. m /\ L \in 0 .. L /\ m \in 1 .. m
    BY <1>1
  <2>2. v[L] \in Nat /\ w[U] \in Nat /\ D[m] \in 0 .. 9
    <3> HIDE DEF D, m, L
    <3> QED BY <1>2, <1>3, <1>4, <2>1 DEF Written, DigitsTo
  <2> HIDE DEF D, m, L
  <2> QED BY <2>2 DEF Rounded
<1>6. -scale < 2 * off /\ 2 * off <= scale
  <2>1. a = 0 /\ m = U + 1
    OBVIOUS
  <2>2. /\ -TenTo[M - U] < 2 * (Rounded(w[U], D[m]) * TenTo[M - U] - v[L] * TenTo[M - L])
        /\ 2 * (Rounded(w[U], D[m]) * TenTo[M - U] - v[L] * TenTo[M - L]) <= TenTo[M - U]
    <3> HIDE DEF a, m, U, M, L, D
    <3> QED BY <1>1, <1>2, <1>3, <1>4, <2>1, FractionRounded
  <2> QED BY <2>2
<1>7. /\ scale \in Nat /\ scale >= 1 /\ fraction \in Nat /\ PerUsd \in Nat
      /\ TenTo[M] = PerUsd * scale
  <2>1. M - U \in Nat /\ M - L \in Nat /\ M = U + (M - U)
    BY <1>1
  <2>2. TenTo[M - U] \in Nat /\ TenTo[M - U] >= 1 /\ TenTo[M - L] \in Nat /\ TenTo[U] \in Nat
    BY <1>1, <2>1, TenToType
  <2>3. TenTo[M] = TenTo[U] * TenTo[M - U]
    BY <1>1, <2>1, TenToSum
  <2> QED BY <1>5, <2>2, <2>3 DEF PerUsd
<1> DEFINE sum   == in.int * PerUsd + rounded
           value == in.int * TenTo[M] + fraction
<1>8. UsdToMicros(in) = Signed(in, sum) /\ Exact(in) = Signed(in, value)
  <2>1. UsdToMicros(in) = Signed(in, sum)
    BY <1>4, Conversion
  <2> QED BY <1>3, <2>1 DEF Exact, Signed
<1>9. sum \in Int /\ value \in Int /\ sum * scale - value = off /\ off \in Int
  <2> HIDE DEF rounded, fraction, scale, M
  <2>1. (in.int * PerUsd + rounded) * scale = in.int * (PerUsd * scale) + rounded * scale
    BY <1>1, <1>5, <1>7
  <2>2. in.int * PerUsd \in Nat /\ in.int * (PerUsd * scale) \in Nat /\ rounded * scale \in Nat
    BY <1>1, <1>5, <1>7
  <2> DEFINE x == in.int * (PerUsd * scale)
             y == rounded * scale
  <2>3. sum * scale = x + y /\ value = x + fraction /\ off = y - fraction
    BY <1>7, <2>1
  <2>4. sum \in Int /\ x \in Int /\ y \in Int /\ fraction \in Int
    BY <1>5, <1>7, <2>2
  <2> HIDE DEF x, y, sum, value, off
  <2> QED BY <2>3, <2>4
<1>10. (-sum) * scale - (-value) = -off
  <2> HIDE DEF sum, value, off, scale
  <2>1. (-sum) * scale = -(sum * scale)
    BY <1>7, <1>9
  <2> QED BY <1>7, <1>9, <2>1
<1> HIDE DEF sum, value, off
<1>11. CASE in.negative
  <2>1. UsdToMicros(in) = -sum /\ Exact(in) = -value
    BY <1>8, <1>11 DEF Signed
  <2>2. UsdToMicros(in) * scale - Exact(in) = -off
    BY <1>10, <2>1
  <2> HIDE DEF scale
  <2>3. /\ -scale <= 2 * (-off) /\ 2 * (-off) <= scale /\ 2 * (-off) # scale
    BY <1>6, <1>7, <1>9
  <2> QED BY <1>9, <1>11, <2>1, <2>2, <2>3 DEF scale
<1>12. CASE ~in.negative
  <2>1. UsdToMicros(in) = sum /\ Exact(in) = value
    BY <1>8, <1>12 DEF Signed
  <2>2. UsdToMicros(in) * scale - Exact(in) = off
    BY <1>9, <2>1
  <2> HIDE DEF scale
  <2>3. -scale <= 2 * off /\ 2 * off <= scale /\ 2 * off # -scale
    BY <1>6, <1>7, <1>9
  <2> QED BY <1>9, <1>12, <2>1, <2>2, <2>3 DEF scale
<1> QED BY <1>11, <1>12

\* What is left of a number without its last digits, digit by digit.
LEMMA DropDigit ==
  ASSUME NEW x \in Nat, NEW p \in Nat, p >= 1
  PROVE  /\ x \div p \in Nat /\ x \div (10 * p) \in Nat /\ (x \div p) % 10 \in 0 .. 9
         /\ x \div p = 10 * (x \div (10 * p)) + ((x \div p) % 10)
<1> DEFINE y == x \div p
           z == y \div 10
           r == x % p
           d == y % 10
<1>1. x = p * y + r /\ r \in 0 .. p - 1 /\ y \in Nat
  OBVIOUS
<1>2. y = 10 * z + d /\ d \in 0 .. 9 /\ z \in Nat
  <2> HIDE DEF y
  <2> QED BY <1>1
<1>3. x \div (10 * p) = z
  <2> HIDE DEF y, z, r, d
  <2>1. x = (10 * p) * z + (p * d + r)
    BY <1>1, <1>2
  <2>2. p * d + r \in 0 .. 10 * p - 1
    <3>1. p * d <= p * 9 /\ p * d \in Nat
      BY <1>2, TimesMonotone
    <3> QED BY <1>1, <3>1
  <2>3. 10 * p \in Nat /\ 10 * p >= 1
    OBVIOUS
  <2> DEFINE P == 10 * p
             R == p * d + r
  <2>4. x = P * z + R /\ R \in 0 .. P - 1 /\ P \in Nat /\ P >= 1
    BY <2>1, <2>2, <2>3
  <2> HIDE DEF P, R
  <2>5. x \div P = z
    BY <1>2, <2>4
  <2> QED BY <2>5 DEF P
<1> QED BY <1>1, <1>2, <1>3

\* The digits of a number below 10 ^ U, first digit first, write that number.
LEMMA DigitsWrite ==
  ASSUME NEW U \in Nat, NEW x \in Nat, x < TenTo[U],
         NEW f, f = [i \in 1 .. U |-> (x \div TenTo[U - i]) % 10]
  PROVE  /\ DigitsTo(f, U)
         /\ \E v : Written(0, f, U, v) /\ v[U] = x
<1> DEFINE v == [i \in 0 .. U |-> x \div TenTo[U - i]]
<1>1. ASSUME NEW i \in 1 .. U
      PROVE  f[i] \in 0 .. 9 /\ v[i] \in Nat /\ v[i - 1] \in Nat /\ v[i] = 10 * v[i - 1] + f[i]
  <2> DEFINE p == TenTo[U - i]
  <2>1. U - i \in Nat /\ (U - i) + 1 = U - (i - 1) /\ i - 1 \in 0 .. U /\ i \in 0 .. U
    OBVIOUS
  <2>2. p \in Nat /\ p >= 1 /\ TenTo[U - (i - 1)] = 10 * p
    BY <2>1, TenToType
  <2>3. v[i] = x \div p /\ v[i - 1] = x \div (10 * p) /\ f[i] = (x \div p) % 10
    BY <2>1, <2>2
  <2> HIDE DEF p, v
  <2> QED BY <2>2, <2>3, DropDigit
<1>2. v[U] = x /\ v[U] \in Nat
  <2>1. U \in 0 .. U /\ U - U = 0
    OBVIOUS
  <2>2. v[U] = x \div 1
    BY <2>1, TenToType
  <2> QED BY <2>2
<1>3. v[0] = 0
  <2>1. 0 \in 0 .. U /\ U - 0 = U /\ TenTo[U] \in Nat /\ TenTo[U] >= 1
    BY TenToType
  <2>2. v[0] = x \div TenTo[U]
    BY <2>1
  <2> DEFINE P == TenTo[U]
  <2>3. P \in Nat /\ P >= 1 /\ x < P
    BY <2>1
  <2> HIDE DEF P
  <2>4. x \div P = 0
    BY <2>3
  <2> QED BY <2>2, <2>4 DEF P
<1>4. v \in [0 .. U -> Nat]
  <2>1. \A i \in 0 .. U : i = 0 \/ i \in 1 .. U
    OBVIOUS
  <2>2. \A i \in 0 .. U : v[i] \in Nat
    <3> HIDE DEF v
    <3> QED BY <1>1, <1>3, <2>1
  <2>3. v = [i \in 0 .. U |-> v[i]]
    OBVIOUS
  <2> HIDE DEF v
  <2> QED BY <2>2, <2>3
<1> HIDE DEF v
<1>5. Written(0, f, U, v)
  BY <1>1, <1>3, <1>4 DEF Written
<1> QED BY <1>1, <1>2, <1>5 DEF DigitsTo

\* An amount that is written out is a text, and is read as it was.
LEMMA RoundTrip ==
  ASSUME NEW n \in Int
  PROVE  Text(UsdOf(n)) /\ UsdToMicros(UsdOf(n)) = n
<1> DEFINE U   == UnitDigits
           in  == UsdOf(n)
           abs == IF n < 0 THEN -n ELSE n
           x   == abs % PerUsd
           D   == Padded(in)
           m   == U + 1
           a   == 0
<1>1. U \in Nat /\ m \in Nat /\ U <= MaxDigits /\ PerUsd \in Nat /\ PerUsd >= 1 /\ PerUsd = TenTo[U]
  BY MoneyAssumption, TenToType DEF PerUsd
<1>2. abs \in Nat
  OBVIOUS
<1>3. /\ x \in Nat /\ x < PerUsd /\ abs \div PerUsd \in Nat
      /\ (abs \div PerUsd) * PerUsd + x = abs
  <2> HIDE DEF abs
  <2> QED BY <1>1, <1>2
<1>4. /\ in.negative = (n < 0) /\ in.int = abs \div PerUsd
      /\ in.frac = [i \in 1 .. U |-> (x \div TenTo[U - i]) % 10]
  BY DEF UsdOf
<1> HIDE DEF in, x, abs
<1>5. /\ DigitsTo(in.frac, U)
      /\ \E v : Written(0, in.frac, U, v) /\ v[U] = x
  <2>1. x < TenTo[U]
    BY <1>1, <1>3
  <2> HIDE DEF U
  <2> QED BY <1>1, <1>3, <1>4, <2>1, DigitsWrite
<1>6. Len(in.frac) = U /\ in.frac \in Seq(0 .. 9)
  BY <1>1, <1>4, <1>5 DEF DigitsTo
<1>7. Text(in)
  BY <1>1, <1>3, <1>4, <1>6 DEF Text
<1>8. Pads(D, in.frac, U, m) /\ Len(D) = m
  BY <1>6, <1>7, PaddedDigits DEF Pads
<1>9. PICK w : Written(a, D, m, w)
  <2>1. \A i \in 1 .. m : D[i] \in Nat
    BY <1>8 DEF Pads
  <2>2. a \in Nat
    OBVIOUS
  <2> HIDE DEF a, D, m
  <2> QED BY <1>1, <2>1, <2>2, WrittenExists
<1>10. w[U] = x
  <2>1. PICK v : Written(a, in.frac, U, v) /\ v[U] = x
    BY <1>5
  <2>2. Alike(in.frac, D, U) /\ U <= U /\ U <= m
    BY <1>1, <1>8 DEF Alike, Pads
  <2> HIDE DEF a, D, m, U
  <2> QED BY <1>1, <1>9, <2>1, <2>2, WrittenAlike
<1>11. D[m] = 0
  BY <1>1, <1>8 DEF Pads
<1>12. UsdToMicros(in) = Signed(in, (abs \div PerUsd) * PerUsd + x)
  <2>1. UsdToMicros(in) = Signed(in, in.int * PerUsd + Rounded(w[U], D[m]))
    BY <1>7, <1>9, Conversion
  <2>2. Rounded(w[U], D[m]) = x
    BY <1>10, <1>11 DEF Rounded
  <2> QED BY <1>4, <2>1, <2>2
<1>13. UsdToMicros(in) = Signed(in, abs)
  BY <1>3, <1>12
<1>14. UsdToMicros(in) = n
  <2>1. Signed(in, abs) = IF n < 0 THEN -abs ELSE abs
    BY <1>4 DEF Signed
  <2>2. (IF n < 0 THEN -abs ELSE abs) = n
    BY DEF abs
  <2> QED BY <1>13, <2>1, <2>2
<1> QED BY <1>7, <1>14 DEF in

MoneyInv == Text(usd) /\ micros \in Int

LEMMA MoneyInitInv == MoneyInit => MoneyInv
<1>1. ASSUME NEW n \in 0 .. MaxDigits, NEW f \in [1 .. n -> Digits]
      PROVE  f \in Seq(0 .. 9) /\ Len(f) <= MaxDigits
  <2>1. n \in Nat /\ n <= MaxDigits
    BY MoneyAssumption
  <2>2. \A i \in 1 .. n : f[i] \in 0 .. 9
    <3>1. \A i \in 1 .. n : f[i] \in Digits
      OBVIOUS
    <3> QED BY <3>1, MoneyAssumption
  <2> QED BY <2>1, <2>2
<1>2. ASSUME NEW in \in Input
      PROVE  Text(in)
  <2>1. /\ in.negative \in BOOLEAN /\ in.int \in Nat
        /\ \E n \in 0 .. MaxDigits : in.frac \in [1 .. n -> Digits]
    BY MoneyAssumption DEF Input
  <2> QED BY <1>1, <2>1 DEF Text
<1> QED BY <1>2 DEF MoneyInit, MoneyInv

LEMMA MoneyStepInv == MoneyInv /\ [MoneyNext]_moneyVars => MoneyInv'
<1> SUFFICES ASSUME MoneyInv, [MoneyNext]_moneyVars PROVE MoneyInv'
  OBVIOUS
<1>1. CASE Convert
  <2>1. UsdToMicros(usd) \in Int
    BY ConvertsNearest DEF MoneyInv
  <2> QED BY <1>1, <2>1 DEF Convert, MoneyInv
<1>2. CASE Reread
  <2>1. Text(UsdOf(micros))
    BY RoundTrip DEF MoneyInv
  <2>2. ASSUME NEW in, Text(in), usd' = in
        PROVE  Text(usd)'
    BY <2>2 DEF Text
  <2> QED BY <1>2, <2>1, <2>2 DEF Reread, MoneyInv
<1>3. CASE UNCHANGED moneyVars
  BY <1>3 DEF moneyVars, MoneyInv, Text
<1> QED BY <1>1, <1>2, <1>3 DEF MoneyNext

\* For any number of digits of the unit and of the text, an amount in decimals
\* becomes the nearest number of units, a tie going away from zero, and what is
\* written out again is read as it was.  This is usdToMicros and
\* microsToUsdString of common/micro-usd.ts.
THEOREM MicrosAlwaysExact == MoneySpec => []MicrosExact
<1>1. MoneyInv => MicrosExact
  <2> SUFFICES ASSUME MoneyInv PROVE MicrosExact
    OBVIOUS
  <2>1. Text(usd) /\ micros \in Int
    BY DEF MoneyInv
  <2>2. UsdToMicros(UsdOf(micros)) = micros
    BY <2>1, RoundTrip
  <2> DEFINE scale == TenTo[MaxDigits - UnitDigits]
             off   == UsdToMicros(usd) * scale - Exact(usd)
  <2>3. /\ -scale <= 2 * off /\ 2 * off <= scale
        /\ 2 * off = scale => ~usd.negative
        /\ 2 * off = -scale => usd.negative
    BY <2>1, ConvertsNearest
  <2> HIDE DEF scale, off
  <2> QED BY <2>2, <2>3 DEF MicrosExact, scale, off
<1> QED BY <1>1, MoneyInitInv, MoneyStepInv, PTL DEF MoneySpec

LEMMA MoneyTypeCorrect == MoneySpec => []MoneyTypeOK
<1>1. ASSUME MoneyInv PROVE MoneyTypeOK
  <2>1. Text(usd) /\ micros \in Int
    BY <1>1 DEF MoneyInv
  <2>2. \A i \in DOMAIN usd.frac : usd.frac[i] \in 0 .. 9
    BY <2>1, ElementOfSeq DEF Text
  <2> QED BY <2>1, <2>2 DEF Text, MoneyTypeOK
<1> QED BY <1>1, MoneyInitInv, MoneyStepInv, PTL DEF MoneySpec
=============================================================================
