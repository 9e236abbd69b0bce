---- MODULE PartsProofs ----
(* What the composables of the trading front end ensure, for any number of   *)
(* requests, resets, refreshes and consents; and that the state of every part *)
(* MCParts joins is well typed.                                              *)
EXTENDS MCParts, RowProofs, ProcessProofs, TLAPS

\* The steps of a part are requests, answers, drops and three of their own.
LEMMA ScreenSteps ==
  ASSUME ScreenTypeOK, [ScreenNext]_screenVars
  PROVE  \/ \E p \in Parts : \E kept \in {0, shown} : Ask(p, kept)
         \/ \E p \in Parts : Answer(p) \/ Drop(p)
         \/ QuoteLapses \/ RefuseOrder \/ Leave
         \/ UNCHANGED screenVars
  BY DEF ScreenNext, Parts, Sequenced, RefreshQuote, QuoteAnswered, ClearQuote, RefreshOrders,
         OrdersAnswered, LoadExecutions, ExecutionsAnswered, ResetExecutions, CheckHealth,
         HealthAnswered, CreateOrder, OrderCreated, ResetCreate, RefreshBalances,
         BalancesAnswered, RefreshWallets, WalletsAnswered, RequestSignature,
         SignatureAnswered, ResetSignRequest

LEMMA TypeInductive ==
  ASSUME ScreenTypeOK, [ScreenNext]_screenVars
  PROVE  ScreenTypeOK'
  <1>1. ASSUME NEW p \in Parts, NEW kept \in {0, shown}, Ask(p, kept)
        PROVE  ScreenTypeOK'
    BY <1>1, AsksAssumption DEF Ask, Ticket, ScreenTypeOK, Phases
  <1>2. ASSUME NEW p \in Parts, Answer(p)
        PROVE  ScreenTypeOK'
    <2>1. PICK r \in inFlight :
            /\ inFlight' = inFlight \ {r}
            /\ phase' \in {phase, "ready", "error"} /\ shown' \in {shown, r.n, 0}
      BY <1>2 DEF Answer
    <2>2. r.n \in 1 .. asked
      BY DEF ScreenTypeOK
    <2>3. QED
      BY <1>2, <2>1, <2>2 DEF Answer, ScreenTypeOK, Phases
  <1>3. ASSUME NEW p \in Parts, Drop(p)
        PROVE  ScreenTypeOK'
    BY <1>3, AsksAssumption DEF Drop, Invalidates, ScreenTypeOK, Phases
  <1>4. CASE QuoteLapses \/ RefuseOrder \/ Leave
    <2>1. seq' \in {seq, seq + 1} /\ UNCHANGED <<part, asked, inFlight>>
      BY <1>4 DEF QuoteLapses, RefuseOrder, Leave
    <2>2. inFlight' \subseteq [n : 1 .. asked', seq : 1 .. seq' + 1] /\ seq' \in Nat
      BY <2>1 DEF ScreenTypeOK
    <2>3. phase' \in Phases /\ drops' \in 0 .. MaxDrops /\ shown' \in 0 .. asked
      BY <1>4, AsksAssumption DEF QuoteLapses, RefuseOrder, Leave, ScreenTypeOK, Phases
    <2>4. left' \in BOOLEAN
      BY <1>4 DEF QuoteLapses, RefuseOrder, Leave, ScreenTypeOK
    <2>5. QED
      BY <2>1, <2>2, <2>3, <2>4 DEF ScreenTypeOK
  <1>5. CASE UNCHANGED screenVars
    BY <1>5 DEF screenVars, ScreenTypeOK
  <1>6. QED
    BY <1>1, <1>2, <1>3, <1>4, <1>5, ScreenSteps

THEOREM TypeCorrect == ScreenSpec => []ScreenTypeOK
  <1>1. ASSUME ScreenInit PROVE ScreenTypeOK
    <2>1. phase \in Phases
      BY <1>1 DEF ScreenInit, Phases
    <2>2. left \in BOOLEAN
      BY <1>1 DEF ScreenInit
    <2>3. QED
      BY <1>1, <2>1, <2>2, AsksAssumption DEF ScreenInit, ScreenTypeOK
  <1>2. QED
    BY <1>1, TypeInductive, PTL DEF ScreenSpec

-----------------------------------------------------------------------------
\* No request in flight remembers a number the part has not come to; one that
\* remembers the last number is the last request, and the part waits for it.
Discipline ==
  part \in Sequenced =>
    \A r \in inFlight :
      /\ r.seq <= seq
      /\ r.seq = seq => r.n = asked /\ phase = "loading"

\* A part that waits has something to wait for.
Awaited ==
  asked > 0 /\ ~left /\ phase = "loading" => \E r \in inFlight : Wanted(r)

LEMMA DisciplineInductive ==
  ASSUME ScreenTypeOK, Discipline, [ScreenNext]_screenVars
  PROVE  Discipline'
  <1>1. ASSUME NEW p \in Parts, NEW kept \in {0, shown}, Ask(p, kept)
        PROVE  Discipline'
    BY <1>1 DEF Ask, Ticket, ScreenTypeOK, Discipline
  <1>2. ASSUME NEW p \in Parts, Answer(p)
        PROVE  Discipline'
    <2>1. PICK r \in inFlight :
            /\ inFlight' = inFlight \ {r}
            /\ ~Wanted(r) => UNCHANGED phase
      BY <1>2 DEF Answer
    <2>2. SUFFICES ASSUME part \in Sequenced, NEW x \in inFlight, x # r
                   PROVE  x.seq <= seq /\ (x.seq = seq => x.n = asked /\ phase' = "loading")
      BY <1>2, <2>1 DEF Answer, Discipline
    <2>3. r.seq = seq => x.seq # seq
      \* the last request is in flight once
      <3>1. r.n # x.n \/ r.seq # x.seq
        BY <2>2 DEF ScreenTypeOK
      <3>2. QED
        BY <2>2, <3>1 DEF Discipline
    <2>4. QED
      BY <2>1, <2>2, <2>3 DEF Discipline, Wanted
  <1>3. ASSUME NEW p \in Parts, Drop(p)
        PROVE  Discipline'
    BY <1>3 DEF Drop, Invalidates, ScreenTypeOK, Discipline
  <1>4. CASE QuoteLapses
    BY <1>4 DEF QuoteLapses, ScreenTypeOK, Discipline
  <1>5. CASE RefuseOrder \/ Leave
    BY <1>5 DEF RefuseOrder, Leave, ScreenTypeOK, Discipline, Sequenced
  <1>6. CASE UNCHANGED screenVars
    BY <1>6 DEF screenVars, Discipline
  <1>7. QED
    BY <1>1, <1>2, <1>3, <1>4, <1>5, <1>6, ScreenSteps

LEMMA AwaitedInductive ==
  ASSUME ScreenTypeOK, Discipline, Awaited, [ScreenNext]_screenVars
  PROVE  Awaited'
  <1>1. ASSUME NEW p \in Parts, NEW kept \in {0, shown}, Ask(p, kept)
        PROVE  Awaited'
    <2>1. PICK r : r = [n |-> asked + 1, seq |-> Ticket]
      OBVIOUS
    <2>2. r \in inFlight' /\ (part' \in Sequenced => r.seq = seq')
      BY <1>1, <2>1 DEF Ask, Ticket
    <2>3. QED
      BY <2>1, <2>2 DEF Wanted, Awaited
  <1>2. ASSUME NEW p \in Parts, Answer(p)
        PROVE  Awaited'
    BY <1>2 DEF Answer, Wanted, ScreenTypeOK, Awaited
  <1>3. ASSUME NEW p \in Parts, Drop(p)
        PROVE  Awaited'
    BY <1>3 DEF Drop, Awaited
  <1>4. CASE QuoteLapses \/ RefuseOrder \/ Leave
    BY <1>4 DEF QuoteLapses, RefuseOrder, Leave, Awaited
  <1>5. CASE UNCHANGED screenVars
    BY <1>5 DEF screenVars, Awaited, Wanted
  <1>6. QED
    BY <1>1, <1>2, <1>3, <1>4, <1>5, ScreenSteps

\* A part that says it is loading has an answer on its way that ends it, and a
\* part with a sequence number that does not has none that changes it.
THEOREM BusyAlwaysAwaited == ScreenSpec => []BusyIsAwaited
  <1>1. ScreenInit => Discipline /\ Awaited
    BY DEF ScreenInit, Discipline, Awaited
  <1>2. ScreenTypeOK /\ Discipline /\ Awaited /\ [ScreenNext]_screenVars => Discipline' /\ Awaited'
    BY DisciplineInductive, AwaitedInductive
  <1>3. Discipline /\ Awaited => BusyIsAwaited
    BY DEF Discipline, Awaited, BusyIsAwaited, Wanted
  <1>4. QED
    BY <1>1, <1>2, <1>3, TypeCorrect, PTL DEF ScreenSpec

\* Every step of a part is a step of LatestAnswer, or none.
LEMMA StepIsLatest ==
  ASSUME ScreenTypeOK, Discipline, [ScreenNext]_screenVars
  PROVE  [Latest!Next]_(Latest!vars)
  <1> USE DEF Latest!vars, Latest!Next, Latest!Question, Latest!Answer, Latest!Drop
  <1>1. ASSUME NEW p \in Parts, NEW kept \in {0, shown}, Ask(p, kept)
        PROVE  [Latest!Next]_(Latest!vars)
    BY <1>1 DEF Ask, ScreenTypeOK
  <1>2. ASSUME NEW p \in Parts, Answer(p)
        PROVE  [Latest!Next]_(Latest!vars)
    BY <1>2 DEF Answer, Wanted, ScreenTypeOK, Discipline
  <1>3. ASSUME NEW p \in Parts, Drop(p)
        PROVE  [Latest!Next]_(Latest!vars)
    BY <1>3 DEF Drop
  <1>4. CASE QuoteLapses \/ RefuseOrder \/ Leave
    BY <1>4 DEF QuoteLapses, RefuseOrder, Leave
  <1>5. CASE UNCHANGED screenVars
    BY <1>5 DEF screenVars
  <1>6. QED
    BY <1>1, <1>2, <1>3, <1>4, <1>5, ScreenSteps

\* The parts with a sequence number implement LatestAnswer: what they show is
\* nothing or the answer to their last request.
THEOREM NewestAnswerShown == ScreenSpec => NewestAnswer
  <1>1. ScreenInit => Latest!Init /\ Discipline
    BY DEF ScreenInit, Latest!Init, Discipline
  <1>2. ScreenTypeOK /\ Discipline /\ [ScreenNext]_screenVars => Discipline'
    BY DisciplineInductive
  <1>3. ScreenTypeOK /\ Discipline /\ [ScreenNext]_screenVars => [Latest!Next]_(Latest!vars)
    BY StepIsLatest
  <1>4. QED
    BY <1>1, <1>2, <1>3, TypeCorrect, PTL DEF ScreenSpec, NewestAnswer, Latest!Spec

-----------------------------------------------------------------------------
\* A refresh that waits is one of those made, and while the last one waits for
\* its draft, none is on screen and no artifact is asked for.
Waiting ==
  /\ requestSeq \in Nat
  /\ drafts \subseteq 1 .. requestSeq
  /\ artifacts \subseteq 1 .. requestSeq
  /\ requestSeq \in drafts => context = NoDraft /\ requestSeq \notin artifacts

\* What is on screen came from where the screen says it came from, and the
\* artifact that the last refresh waits for is the one of that draft.
OnScreen ==
  /\ context # NoDraft => mockMode = context.fixture
  /\ requestSeq \in artifacts => context = [of |-> requestSeq, fixture |-> FALSE]
  /\ verification = "verified" => checked = context

ConsentInv == Waiting /\ OnScreen /\ ConsentIsEarned

\* Nothing is sent or on screen when the page opens.
LEMMA ConsentInitInv == ConsentInit => ConsentInv
  BY DEF ConsentInit, ConsentInv, Waiting, OnScreen, ConsentIsEarned

LEMMA RefreshInv == ConsentInv /\ Refresh => ConsentInv'
  BY DEF ConsentInv, Waiting, OnScreen, ConsentIsEarned, Refresh

\* A draft that is taken is that of the last refresh, which found the screen
\* empty; its artifact is asked for under the same number.
LEMMA DraftInv == ConsentInv /\ DraftAnswered => ConsentInv'
<1> SUFFICES ASSUME ConsentInv, DraftAnswered PROVE ConsentInv'
  OBVIOUS
<1> USE DEF ConsentInv
<1>1. ConsentIsEarned'
  BY DEF DraftAnswered, ConsentIsEarned
<1>2. PICK of \in drafts :
        /\ drafts' = drafts \ {of}
        /\ IF Current(of)
             THEN LiveDraft(of) \/ FixtureDraft(of) \/ NoDraftComes
             ELSE UNCHANGED <<draftState, context, mockMode, verification, checked, artifacts>>
  BY DEF DraftAnswered
<1>3. UNCHANGED requestSeq
  BY DEF DraftAnswered
<1>4. CASE ~Current(of)
  BY <1>1, <1>2, <1>3, <1>4 DEF Waiting, OnScreen
<1>5. CASE Current(of) /\ LiveDraft(of)
  BY <1>1, <1>2, <1>3, <1>5 DEF Waiting, OnScreen, LiveDraft, LiveMode, Show, Current
<1>6. CASE Current(of) /\ FixtureDraft(of)
  BY <1>1, <1>2, <1>3, <1>6 DEF Waiting, OnScreen, FixtureDraft, Show, Current
<1>7. CASE Current(of) /\ NoDraftComes
  BY <1>1, <1>2, <1>3, <1>7 DEF Waiting, OnScreen, NoDraftComes
<1> QED
  BY <1>2, <1>4, <1>5, <1>6, <1>7

LEMMA ArtifactInv == ConsentInv /\ ArtifactAnswered => ConsentInv'
<1> SUFFICES ASSUME ConsentInv, ArtifactAnswered PROVE ConsentInv'
  OBVIOUS
<1> USE DEF ConsentInv
<1>1. ConsentIsEarned'
  BY DEF ArtifactAnswered, ConsentIsEarned
<1>2. Waiting'
  BY DEF ArtifactAnswered, Waiting
<1>3. OnScreen'
  BY DEF ArtifactAnswered, Waiting, OnScreen, Current
<1> QED
  BY <1>1, <1>2, <1>3

\* The button is there for a draft that was checked, and the screen knows then
\* whether it is a fixture.
LEMMA SubmitInv == ConsentInv /\ SubmitConsent => ConsentInv'
<1> SUFFICES ASSUME ConsentInv, SubmitConsent PROVE ConsentInv'
  OBVIOUS
<1> USE DEF ConsentInv
<1>1. checked = context /\ mockMode = context.fixture
  BY DEF SubmitConsent, ConsentReady, OnScreen
<1>2. ConsentIsEarned'
  BY <1>1 DEF SubmitConsent, ConsentIsEarned
<1>3. Waiting' /\ OnScreen'
  BY DEF SubmitConsent, Waiting, OnScreen
<1> QED
  BY <1>2, <1>3

LEMMA ConsentStepInv == ConsentInv /\ [ConsentNext]_consentVars => ConsentInv'
<1> SUFFICES ASSUME ConsentInv, [ConsentNext]_consentVars PROVE ConsentInv'
  OBVIOUS
<1> USE DEF ConsentInv
<1>1. CASE ConsentAnswered
  BY <1>1 DEF ConsentAnswered, Waiting, OnScreen, ConsentIsEarned
<1>2. CASE LeaveConsent
  BY <1>2 DEF LeaveConsent, Waiting, OnScreen, ConsentIsEarned
<1>3. CASE UNCHANGED consentVars
  BY <1>3 DEF consentVars, Waiting, OnScreen, ConsentIsEarned
<1> QED
  BY <1>1, <1>2, <1>3, RefreshInv, DraftInv, ArtifactInv, SubmitInv DEF ConsentNext

\* Every consent that is sent is for a draft whose own artifact was checked, and
\* goes to the API or to the stub as that draft does.
THEOREM ConsentAlwaysEarned == ConsentSpec => []ConsentIsEarned
<1>1. ConsentInit => ConsentInv
  BY ConsentInitInv
<1>2. ConsentInv /\ [ConsentNext]_consentVars => ConsentInv'
  BY ConsentStepInv
<1>3. ConsentInv => ConsentIsEarned
  BY DEF ConsentInv
<1> QED
  BY <1>1, <1>2, <1>3, PTL DEF ConsentSpec

\* The type of the consent screen, and that it is refreshed only while it is there.
ConsentTyped == ConsentTypeOK /\ (~away => requestSeq <= MaxRefreshes)

LEMMA ConsentTypedStep ==
  ASSUME ConsentTyped, ConsentInv, [ConsentNext]_consentVars
  PROVE  ConsentTyped'
  <1>1. ConsentTypeOK /\ Waiting /\ OnScreen /\ (~away => requestSeq <= MaxRefreshes)
    BY DEF ConsentTyped, ConsentInv
  <1>2. CASE Refresh
    <2>1. requestSeq' = requestSeq + 1 /\ requestSeq' \in 1 .. MaxRefreshes
      BY <1>1, <1>2, ConsentAssumption DEF Refresh, Waiting
    <2>2. QED
      BY <1>1, <1>2, <2>1, ConsentAssumption DEF Refresh, ConsentTypeOK, ConsentTyped, Chip
  <1>3. CASE DraftAnswered
    <2>1. PICK of \in drafts :
            /\ drafts' = drafts \ {of}
            /\ IF Current(of)
                 THEN LiveDraft(of) \/ FixtureDraft(of) \/ NoDraftComes
                 ELSE UNCHANGED <<draftState, context, mockMode, verification, checked, artifacts>>
      BY <1>3 DEF DraftAnswered
    <2>2. UNCHANGED <<requestSeq, consents, submitting, consented, sent, away>>
      BY <1>3 DEF DraftAnswered
    <2>3. of \in 1 .. MaxRefreshes
      BY <1>1 DEF ConsentTypeOK
    <2>4. /\ drafts' \cup artifacts' \subseteq 1 .. MaxRefreshes
          /\ verification' \in Chip /\ draftState' \in {"loading", "ready", "error"}
      BY <1>1, <2>1, <2>3 DEF LiveDraft, FixtureDraft, NoDraftComes, Show, ConsentTypeOK, Chip
    <2>5. {context', checked'} \subseteq Draft \cup {NoDraft}
          /\ (draftState' = "ready" <=> context' # NoDraft)
      <3>1. \A fixture \in BOOLEAN : [of |-> of, fixture |-> fixture] \in Draft
        BY <2>3 DEF Draft
      <3>2. CASE ~Current(of)
        BY <1>1, <2>1, <3>2 DEF ConsentTypeOK
      <3>3. CASE Current(of) /\ NoDraftComes
        BY <1>1, <3>3 DEF NoDraftComes, ConsentTypeOK, Waiting, Current
      <3>4. CASE Current(of) /\ (LiveDraft(of) \/ FixtureDraft(of))
        <4>1. PICK fixture \in BOOLEAN :
                /\ context' = [of |-> of, fixture |-> fixture] /\ draftState' = "ready"
                /\ checked' \in {checked, context'}
          BY <3>4 DEF LiveDraft, FixtureDraft, Show
        <4>2. context' \in Draft
          BY <3>1, <4>1
        <4>3. QED
          BY <1>1, <4>1, <4>2, ConsentAssumption DEF ConsentTypeOK
      <3>5. QED
        BY <2>1, <3>2, <3>3, <3>4
    <2>6. mockMode' \in BOOLEAN
      BY <1>1, <2>1 DEF LiveDraft, LiveMode, FixtureDraft, NoDraftComes, ConsentTypeOK
    <2>7. QED
      BY <1>1, <2>2, <2>4, <2>5, <2>6 DEF ConsentTypeOK, ConsentTyped
  <1>4. CASE ArtifactAnswered
    <2>1. PICK of \in artifacts :
            /\ artifacts' = artifacts \ {of}
            /\ verification' \in {verification, "verified", "unverified"}
            /\ checked' \in {checked, [of |-> of, fixture |-> FALSE]}
      BY <1>4 DEF ArtifactAnswered
    <2>2. [of |-> of, fixture |-> FALSE] \in Draft
      BY <1>1 DEF ConsentTypeOK, Draft
    <2>3. UNCHANGED <<requestSeq, draftState, context, mockMode, drafts, consents, submitting,
                      consented, sent, away>>
      BY <1>4 DEF ArtifactAnswered
    <2>4. checked' \in Draft \cup {NoDraft} /\ verification' \in Chip
      BY <1>1, <2>1, <2>2 DEF ConsentTypeOK, Chip
    <2>5. QED
      BY <1>1, <2>1, <2>3, <2>4 DEF ConsentTypeOK, ConsentTyped
  <1>5. CASE SubmitConsent
    <2>1. context \in Draft /\ checked = context /\ mockMode \in BOOLEAN
      BY <1>1, <1>5 DEF SubmitConsent, ConsentReady, ConsentTypeOK, OnScreen
    <2>2. [draft |-> context, checked |-> checked, stub |-> mockMode]
            \in [draft : Draft, checked : Draft, stub : BOOLEAN]
      BY <2>1
    <2>3. /\ consents' = consents \cup {context} /\ submitting' = TRUE
          /\ sent' = sent \cup {[draft |-> context, checked |-> checked, stub |-> mockMode]}
          /\ UNCHANGED <<requestSeq, draftState, context, mockMode, verification, checked, drafts,
                         artifacts, consented, away>>
      BY <1>5 DEF SubmitConsent
    <2>4. consents' \subseteq Draft /\ sent' \subseteq [draft : Draft, checked : Draft, stub : BOOLEAN]
      BY <1>1, <2>1, <2>2, <2>3 DEF ConsentTypeOK
    <2>5. QED
      BY <1>1, <2>3, <2>4 DEF ConsentTypeOK, ConsentTyped
  <1>6. CASE ConsentAnswered
    <2>1. PICK draft \in consents : /\ consents' = consents \ {draft}
                                    /\ consented' \in {consented, draft}
      BY <1>6 DEF ConsentAnswered
    <2>2. consented' \in Draft \cup {NoDraft} /\ consents' \subseteq Draft
      BY <1>1, <2>1 DEF ConsentTypeOK
    <2>3. /\ submitting' = FALSE
          /\ UNCHANGED <<requestSeq, draftState, context, mockMode, verification, checked, drafts,
                         artifacts, sent, away>>
      BY <1>6 DEF ConsentAnswered
    <2>4. QED
      BY <1>1, <2>2, <2>3 DEF ConsentTypeOK, ConsentTyped
  <1>7. CASE LeaveConsent
    <2>1. requestSeq' = requestSeq + 1 /\ requestSeq \in 0 .. MaxRefreshes /\ away' = TRUE
      BY <1>1, <1>7, ConsentAssumption DEF LeaveConsent, Waiting
    <2>2. requestSeq' \in 0 .. MaxRefreshes + 1
      BY <2>1, ConsentAssumption
    <2>3. UNCHANGED <<draftState, context, mockMode, verification, checked, drafts, artifacts,
                      consents, submitting, consented, sent>>
      BY <1>7 DEF LeaveConsent
    <2>4. QED
      BY <1>1, <2>1, <2>2, <2>3 DEF ConsentTypeOK, ConsentTyped
  <1>8. CASE UNCHANGED consentVars
    BY <1>1, <1>8 DEF consentVars, ConsentTypeOK, ConsentTyped
  <1>9. QED
    BY <1>2, <1>3, <1>4, <1>5, <1>6, <1>7, <1>8 DEF ConsentNext

LEMMA ConsentTypeCorrect == ConsentSpec => []ConsentTypeOK
  <1>1. ASSUME ConsentInit PROVE ConsentTyped
    <2>1. {mockMode, submitting, away} \subseteq BOOLEAN
      BY <1>1 DEF ConsentInit
    <2>2. QED
      BY <1>1, <2>1, ConsentAssumption DEF ConsentInit, ConsentTyped, ConsentTypeOK, Chip
  <1>2. ConsentInv /\ ConsentTyped /\ [ConsentNext]_consentVars => (ConsentInv /\ ConsentTyped)'
    BY ConsentStepInv, ConsentTypedStep
  <1>3. ConsentTyped => ConsentTypeOK
    BY DEF ConsentTyped
  <1>4. QED
    BY <1>1, <1>2, <1>3, ConsentInitInv, PTL DEF ConsentSpec

-----------------------------------------------------------------------------
(* The parts together: each runs by its own specification, whichever is in   *)
(* focus.                                                                    *)
AllVars == <<focus, screenVars, consentVars, mutexVars, launchVars, readsVars, switchVars, signVars,
             feedVars, triggerVars, moneyVars, walletVars>>

\* A part moves by a step of its own or stays as it is.
LEMMA PartSteps ==
  ASSUME [MCNext]_AllVars
  PROVE  /\ [ScreenNext]_screenVars
         /\ [ConsentNext]_consentVars
         /\ [MutexNext]_mutexVars
         /\ [LaunchNext]_launchVars
         /\ [ReadsNext]_readsVars
         /\ [SwitchNext]_switchVars
         /\ [SignNext]_signVars
         /\ [FeedNext]_feedVars
         /\ [TriggerNext]_triggerVars
         /\ [MoneyNext]_moneyVars
         /\ [WalletNext]_walletVars
  <1>1. CASE UNCHANGED AllVars
    <2>1. /\ screenVars' = screenVars
          /\ consentVars' = consentVars
          /\ mutexVars' = mutexVars
          /\ launchVars' = launchVars
          /\ readsVars' = readsVars
          /\ switchVars' = switchVars
          /\ signVars' = signVars
          /\ feedVars' = feedVars
          /\ triggerVars' = triggerVars
          /\ moneyVars' = moneyVars
          /\ walletVars' = walletVars
      BY <1>1 DEF AllVars
    <2>2. QED
      BY <2>1
  <1>2. CASE MCNext
    <2>1. [ScreenNext]_screenVars
      BY <1>2 DEF MCNext, KeepOthers, Keep
    <2>2. [ConsentNext]_consentVars
      BY <1>2 DEF MCNext, KeepOthers, Keep
    <2>3. [MutexNext]_mutexVars
      BY <1>2 DEF MCNext, KeepOthers, Keep
    <2>4. [LaunchNext]_launchVars
      BY <1>2 DEF MCNext, KeepOthers, Keep
    <2>5. [ReadsNext]_readsVars
      BY <1>2 DEF MCNext, KeepOthers, Keep
    <2>6. [SwitchNext]_switchVars
      BY <1>2 DEF MCNext, KeepOthers, Keep
    <2>7. [SignNext]_signVars
      BY <1>2 DEF MCNext, KeepOthers, Keep
    <2>8. [FeedNext]_feedVars
      BY <1>2 DEF MCNext, KeepOthers, Keep
    <2>9. [TriggerNext]_triggerVars
      BY <1>2 DEF MCNext, KeepOthers, Keep
    <2>10. [MoneyNext]_moneyVars
      BY <1>2 DEF MCNext, KeepOthers, Keep
    <2>11. [WalletNext]_walletVars
      BY <1>2 DEF MCNext, KeepOthers, Keep
    <2>12. QED
      BY <2>1, <2>2, <2>3, <2>4, <2>5, <2>6, <2>7, <2>8, <2>9, <2>10, <2>11
  <1>3. QED
    BY <1>1, <1>2

\* The text of nought, which the amounts begin with, is an input.
LEMMA PartStarts ==
  ASSUME MCInit
  PROVE  /\ ScreenInit
         /\ ConsentInit
         /\ MutexInit
         /\ LaunchInit
         /\ ReadsInit
         /\ SwitchInit
         /\ SignInit
         /\ FeedInit
         /\ TriggerInit
         /\ MoneyInit
         /\ WalletInit
  <1>1. /\ ScreenInit /\ ConsentInit /\ MutexInit /\ LaunchInit /\ ReadsInit /\ SwitchInit
        /\ SignInit /\ FeedInit /\ WalletInit
    BY DEF MCInit
  <1>2. TriggerInit
    <2>1. CASE focus = "triggers"
      BY <2>1 DEF MCInit
    <2>2. CASE focus # "triggers"
      <3>1. /\ kind = "dca" /\ clock = 0 /\ tick = NoTick /\ slots = {}
            /\ feeds = [leg \in {"base", "quote"} |-> [answer |-> 9, updatedAt |-> 0]]
        BY <2>2 DEF MCInit
      <3>2. [answer |-> 9, updatedAt |-> 0] \in [answer : FeedPrices, updatedAt : {0}]
        BY StartAssumption
      <3>3. feeds \in [{"base", "quote"} -> [answer : FeedPrices, updatedAt : {0}]]
        BY <3>1, <3>2
      <3>4. QED
        BY <3>1, <3>3 DEF TriggerInit
    <2>3. QED
      BY <2>1, <2>2
  <1>3. MoneyInit
    <2>1. CASE focus = "money"
      BY <2>1 DEF MCInit
    <2>2. CASE focus # "money"
      <3>1. usd = [negative |-> FALSE, int |-> 0, frac |-> <<>>] /\ micros = 0
        BY <2>2 DEF MCInit
      <3>2. <<>> \in [1 .. 0 -> Digits] /\ 0 \in 0 .. MaxDigits
        BY MoneyAssumption
      <3>3. <<>> \in UNION {[1 .. n -> Digits] : n \in 0 .. MaxDigits}
        BY <3>2
      <3>4. QED
        BY <3>1, <3>3, StartAssumption DEF MoneyInit, Input
    <2>3. QED
      BY <2>1, <2>2
  <1>4. QED
    BY <1>1, <1>2, <1>3

\* The behaviours of the parts together are behaviours of each, so that what is
\* proved of a part holds among the others.
LEMMA PartsRun ==
  MCSpec => /\ ScreenSpec
            /\ ConsentSpec
            /\ MutexSpec
            /\ LaunchSpec
            /\ ReadsSpec
            /\ SwitchSpec
            /\ SignSpec
            /\ FeedSpec
            /\ TriggerSpec
            /\ MoneySpec
            /\ WalletSpec
  <1>1. MCSpec => ScreenSpec
    BY PartStarts, PartSteps, PTL DEF MCSpec, AllVars, ScreenSpec
  <1>2. MCSpec => ConsentSpec
    BY PartStarts, PartSteps, PTL DEF MCSpec, AllVars, ConsentSpec
  <1>3. MCSpec => MutexSpec
    BY PartStarts, PartSteps, PTL DEF MCSpec, AllVars, MutexSpec
  <1>4. MCSpec => LaunchSpec
    BY PartStarts, PartSteps, PTL DEF MCSpec, AllVars, LaunchSpec
  <1>5. MCSpec => ReadsSpec
    BY PartStarts, PartSteps, PTL DEF MCSpec, AllVars, ReadsSpec
  <1>6. MCSpec => SwitchSpec
    BY PartStarts, PartSteps, PTL DEF MCSpec, AllVars, SwitchSpec
  <1>7. MCSpec => SignSpec
    BY PartStarts, PartSteps, PTL DEF MCSpec, AllVars, SignSpec
  <1>8. MCSpec => FeedSpec
    BY PartStarts, PartSteps, PTL DEF MCSpec, AllVars, FeedSpec
  <1>9. MCSpec => TriggerSpec
    BY PartStarts, PartSteps, PTL DEF MCSpec, AllVars, TriggerSpec
  <1>10. MCSpec => MoneySpec
    BY PartStarts, PartSteps, PTL DEF MCSpec, AllVars, MoneySpec
  <1>11. MCSpec => WalletSpec
    BY PartStarts, PartSteps, PTL DEF MCSpec, AllVars, WalletSpec
  <1>12. QED
    BY <1>1, <1>2, <1>3, <1>4, <1>5, <1>6, <1>7, <1>8, <1>9, <1>10, <1>11

\* Every part keeps its types at any sizes: the versions of the kill switch stay
\* within the calls of setMode, the price rounds within the clock, the sections of
\* the mutex wait for sections before them, and so on.
THEOREM PartsTyped == MCSpec => []TypesOK
  <1>1. MCSpec => /\ []ScreenTypeOK
                  /\ []ConsentTypeOK
                  /\ []MutexTypeOK
                  /\ []LaunchTypeOK
                  /\ []ReadsTypeOK
                  /\ []SwitchTypeOK
                  /\ []SignTypeOK
                  /\ []FeedTypeOK
                  /\ []TriggerTypeOK
                  /\ []MoneyTypeOK
                  /\ []WalletTypeOK
    BY PartsRun, TypeCorrect, ConsentTypeCorrect, MutexTypeCorrect, LaunchTypeCorrect, ReadsTypeCorrect, SwitchTypeCorrect, SignTypeCorrect, FeedTypeCorrect, TriggerTypeCorrect, MoneyTypeCorrect, WalletTypeCorrect
  <1>2. ScreenTypeOK /\ ConsentTypeOK /\ MutexTypeOK /\ LaunchTypeOK /\ ReadsTypeOK /\ SwitchTypeOK
        /\ SignTypeOK /\ FeedTypeOK /\ TriggerTypeOK /\ MoneyTypeOK /\ WalletTypeOK
        => TypesOK
    BY DEF TypesOK
  <1>3. QED
    BY <1>1, <1>2, PTL
=============================================================================
