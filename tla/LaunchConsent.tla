---------------------------- MODULE LaunchConsent ---------------------------
(* useLaunchConsent: the consent screen of a token launch.  A refresh fetches *)
(* the draft and then, with a second call, the artifact its claims are       *)
(* checked against; the consent may be given once the chip says verified.    *)
EXTENDS Naturals, FiniteSets

CONSTANTS MaxRefreshes, \* how often the screen is refreshed (bound)
          MaxConsents,  \* how often the consent is given (bound)
          NoDraft       \* no draft is on screen

VARIABLES
  requestSeq,    \* the number of the last refresh
  draftState,    \* "loading", "ready" or "error"
  context,       \* the draft on screen
  mockMode,      \* the draft came from fixtures
  verification,  \* the state of the chip
  checked,       \* history: the draft whose artifact the chip was checked with
  drafts,        \* refreshes that wait for their draft
  artifacts,     \* refreshes that wait for the artifact of their draft
  consents,      \* consents that wait for an answer, each by its draft
  submitting, consented,
  sent,          \* history: consents sent, with what the screen knew
  away           \* the screen was left, its effect scope disposed

consentVars == <<requestSeq, draftState, context, mockMode, verification, checked,
          drafts, artifacts, consents, submitting, consented, sent, away>>

\* A draft is known by the refresh that fetched it; fixture tells one that
\* stands in for an API that could not be reached.
Draft == [of : 1 .. MaxRefreshes, fixture : BOOLEAN]

ASSUME ConsentAssumption == MaxRefreshes \in Nat /\ MaxConsents \in Nat /\ NoDraft \notin Draft

Chip  == {"idle", "loading", "verified", "unverified"}

ConsentInit ==
  /\ requestSeq = 0
  /\ draftState = "loading"
  /\ context = NoDraft
  /\ mockMode = FALSE
  /\ verification = "idle"
  /\ checked = NoDraft
  /\ drafts = {} /\ artifacts = {} /\ consents = {}
  /\ submitting = FALSE
  /\ consented = NoDraft
  /\ sent = {}
  /\ away = FALSE

Refresh ==
  /\ ~away /\ requestSeq < MaxRefreshes
  /\ requestSeq' = requestSeq + 1
  /\ drafts' = drafts \cup {requestSeq + 1}
  /\ draftState' = "loading"
  /\ context' = NoDraft
  /\ consented' = NoDraft
  /\ verification' = "idle"
  /\ checked' = NoDraft
  /\ UNCHANGED <<mockMode, artifacts, consents, submitting, sent, away>>

\* if (seq !== requestSeq) return, after either call
MutantCurrent(of) == TRUE
Current(of) == of = requestSeq

Show(draft) ==
  /\ context' = draft
  /\ draftState' = "ready"

MutantLiveMode == UNCHANGED mockMode
LiveMode == mockMode' = FALSE

\* The API answers with a draft, which may lack a reference to an artifact.
LiveDraft(of) ==
  /\ Show([of |-> of, fixture |-> FALSE])
  /\ LiveMode
  /\ \/ verification' = "unverified" /\ UNCHANGED artifacts
     \/ verification' = "loading" /\ artifacts' = artifacts \cup {of}
  /\ UNCHANGED checked

\* The API is unreachable: the fixtures are shown, and agree with each other.
FixtureDraft(of) ==
  /\ Show([of |-> of, fixture |-> TRUE])
  /\ mockMode' = TRUE
  /\ verification' = "verified"
  /\ checked' = context'
  /\ UNCHANGED artifacts

\* Any other error is shown as it is.
NoDraftComes ==
  /\ draftState' = "error"
  /\ UNCHANGED <<context, mockMode, verification, checked, artifacts>>

DraftAnswered ==
  /\ \E of \in drafts :
       /\ drafts' = drafts \ {of}
       /\ IF Current(of)
            THEN LiveDraft(of) \/ FixtureDraft(of) \/ NoDraftComes
            ELSE UNCHANGED <<draftState, context, mockMode, verification, checked, artifacts>>
  /\ UNCHANGED <<requestSeq, consents, submitting, consented, sent, away>>

\* The artifact matches the reference of its draft, or it does not, or does not
\* come at all.
ArtifactAnswered ==
  /\ \E of \in artifacts :
       /\ artifacts' = artifacts \ {of}
       /\ IF Current(of)
            THEN \/ verification' = "verified" /\ checked' = [of |-> of, fixture |-> FALSE]
                 \/ verification' = "unverified" /\ UNCHANGED checked
            ELSE UNCHANGED <<verification, checked>>
  /\ UNCHANGED <<requestSeq, draftState, context, mockMode, drafts, consents, submitting,
                 consented, sent, away>>

ConsentReady == draftState = "ready" /\ verification = "verified"

\* submitConsent, from the button, which is disabled while submitting
SubmitConsent ==
  /\ ~away /\ context # NoDraft /\ ConsentReady
  /\ ~submitting
  /\ Cardinality(sent) < MaxConsents
  /\ submitting' = TRUE
  /\ consents' = consents \cup {context}
  /\ sent' = sent \cup {[draft |-> context, checked |-> checked, stub |-> mockMode]}
  /\ UNCHANGED <<requestSeq, draftState, context, mockMode, verification, checked, drafts,
                 artifacts, consented, away>>

\* The answer is stored whatever is on screen by now; the stub only refuses.
ConsentAnswered ==
  /\ \E draft \in consents :
       /\ consents' = consents \ {draft}
       /\ \/ consented' = draft /\ ~draft.fixture
          \/ UNCHANGED consented
  /\ submitting' = FALSE
  /\ UNCHANGED <<requestSeq, draftState, context, mockMode, verification, checked, drafts,
                 artifacts, sent, away>>

\* The scope is disposed.
LeaveConsent ==
  /\ ~away /\ away' = TRUE
  /\ requestSeq' = requestSeq + 1
  /\ UNCHANGED <<draftState, context, mockMode, verification, checked, drafts, artifacts,
                 consents, submitting, consented, sent>>

ConsentNext == Refresh \/ DraftAnswered \/ ArtifactAnswered \/ SubmitConsent \/ ConsentAnswered \/ LeaveConsent

ConsentSpec == ConsentInit /\ [][ConsentNext]_consentVars

-----------------------------------------------------------------------------
ConsentTypeOK ==
  /\ requestSeq \in 0 .. MaxRefreshes + 1
  /\ draftState \in {"loading", "ready", "error"}
  /\ {context, checked, consented} \subseteq Draft \cup {NoDraft}
  /\ draftState = "ready" <=> context # NoDraft
  /\ verification \in Chip
  /\ drafts \cup artifacts \subseteq 1 .. MaxRefreshes
  /\ consents \subseteq Draft
  /\ sent \subseteq [draft : Draft, checked : Draft, stub : BOOLEAN]
  /\ {mockMode, submitting, away} \subseteq BOOLEAN

\* Every consent that is sent is for a draft whose own artifact was checked and
\* matched, although draft and artifact come by two calls and a refresh may
\* come between them; and what is sent to the API is a draft of the API, never
\* a fixture, nor is a draft of the API given to the stub.
ConsentIsEarned ==
  \A c \in sent : c.checked = c.draft /\ c.stub = c.draft.fixture
=============================================================================
