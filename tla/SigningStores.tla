---------------------------- MODULE SigningStores ---------------------------
(* The sign requests and their two writers: SigningService, which asks the   *)
(* signer and then stores what it got, and the sign use case, which only asks *)
(* the signer.  In memory the signer keeps a map of its own; on Postgres it  *)
(* writes the very table the store writes.                                   *)
EXTENDS Naturals

CONSTANTS SignIntents, Previews, SignCallers,
          MaxSigns,  \* requests for a signature (bound)
          NoPreview

ASSUME SignAssumption == MaxSigns \in Nat /\ NoPreview \notin Previews

VARIABLES
  persistent,    \* SIGNER and SIGN_REQUEST_STORE are bound to Postgres
  rawQuery,      \* its client has $queryRawArray, which the generated one does not declare
  sequence,      \* requests the signer has been given
  requestRows,   \* intent -> the preview of its stored request
  signCall,      \* caller -> what it holds between its two calls
  signAnswers,   \* history: answers, each to a caller of one of the writers
  bindings       \* history: intent -> how often SigningService succeeded

signVars == <<persistent, rawQuery, sequence, requestRows, signCall, signAnswers, bindings>>

NoCall == [pc |-> "idle", intent |-> NoPreview, preview |-> NoPreview]

SignInit ==
  /\ persistent \in BOOLEAN /\ rawQuery \in BOOLEAN /\ (rawQuery => persistent)
  /\ sequence = 0
  /\ requestRows = [i \in SignIntents |-> NoPreview]
  /\ signCall = [c \in SignCallers |-> NoCall]
  /\ signAnswers = {}
  /\ bindings = [i \in SignIntents |-> 0]

MutantUnbound(i) == TRUE
Unbound(i) == requestRows[i] = NoPreview

\* INSERT ... ON CONFLICT (intent_id) DO NOTHING
Stored(i, preview) ==
  IF Unbound(i) THEN [requestRows EXCEPT ![i] = preview] ELSE requestRows

\* SIGNER.requestSignature.  DryRunSigner hands back what it was given.  Of
\* PostgresSigner the call throws: before the insert, when there is no
\* $queryRawArray, or after it, since the columns of the row it returns are not
\* the fields mapEntity reads.  Only a conflict, which returns no row, leads to
\* an answer: the row of the intent as findFirst gives it, of an earlier call.
Asked(i, preview) ==
  /\ sequence < MaxSigns
  /\ sequence' = sequence + 1
  /\ requestRows' = IF rawQuery THEN Stored(i, preview) ELSE requestRows
  /\ UNCHANGED <<persistent, rawQuery>>

Answers(i) == persistent => rawQuery /\ ~Unbound(i)

Prepared(i, preview) == IF persistent THEN requestRows[i] ELSE preview

\* RequestSignatureUseCase, after its checks
RequestSign(i, preview) ==
  /\ Asked(i, preview)
  /\ \/ /\ Answers(i)
        /\ signAnswers' = signAnswers \cup
             {[intent |-> i, asked |-> preview, given |-> Prepared(i, preview),
               service |-> FALSE]}
     \/ ~Answers(i) /\ UNCHANGED signAnswers
  /\ UNCHANGED <<signCall, bindings>>

\* SigningService.requestSignature up to its second call
Prepare(c, i, preview) ==
  /\ signCall[c] = NoCall
  /\ Asked(i, preview)
  /\ \/ /\ Answers(i)
        /\ signCall' = [signCall EXCEPT ![c] =
             [pc |-> "store", intent |-> i, preview |-> Prepared(i, preview)]]
     \/ ~Answers(i) /\ UNCHANGED signCall
  /\ UNCHANGED <<signAnswers, bindings>>

\* createIfAbsent, and the error when another request holds the intent
Store(c) ==
  LET call == signCall[c] IN
  /\ call.pc = "store"
  /\ requestRows' = Stored(call.intent, call.preview)
  /\ IF Unbound(call.intent)
       THEN /\ bindings' = [bindings EXCEPT ![call.intent] = @ + 1]
            /\ signAnswers' = signAnswers \cup
                 {[intent |-> call.intent, asked |-> call.preview,
                   given |-> call.preview, service |-> TRUE]}
       ELSE UNCHANGED <<bindings, signAnswers>>
  /\ signCall' = [signCall EXCEPT ![c] = NoCall]
  /\ UNCHANGED <<persistent, rawQuery, sequence>>

\* The caller dies between its calls.
Die(c) ==
  /\ signCall[c] # NoCall
  /\ signCall' = [signCall EXCEPT ![c] = NoCall]
  /\ UNCHANGED <<persistent, rawQuery, sequence, requestRows, signAnswers, bindings>>

SignNext ==
  \/ \E i \in SignIntents, preview \in Previews :
       RequestSign(i, preview) \/ \E c \in SignCallers : Prepare(c, i, preview)
  \/ \E c \in SignCallers : Store(c) \/ Die(c)

SignSpec == SignInit /\ [][SignNext]_signVars

-----------------------------------------------------------------------------
SignTypeOK ==
  /\ persistent \in BOOLEAN /\ rawQuery \in BOOLEAN /\ (rawQuery => persistent)
  /\ sequence \in 0 .. MaxSigns
  /\ requestRows \in [SignIntents -> Previews \cup {NoPreview}]
  /\ signCall \in [SignCallers -> [pc : {"store"}, intent : SignIntents, preview : Previews]
                                    \cup {NoCall}]
  /\ signAnswers \subseteq [intent : SignIntents, asked : Previews, given : Previews,
                            service : BOOLEAN]
  /\ bindings \in [SignIntents -> 0 .. MaxSigns]

\* No intent is bound to two sign requests, across callers and replicas: the
\* service succeeds once for it at most, and whoever was answered from the table
\* was given what the table still holds, which is the preview of the first call,
\* though that call itself went unanswered.  (On Postgres once is in fact never:
\* the service's own signer has thrown, or has found the intent bound.)
SignedOnce ==
  /\ \A i \in SignIntents : bindings[i] <= 1
  /\ \A a \in signAnswers : a.service \/ persistent => a.given = requestRows[a.intent]
=============================================================================
