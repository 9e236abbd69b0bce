-------------------------- MODULE VerificationReads -------------------------
(* GET /launchpad/verification/:id: a budget of requests for each client,    *)
(* counted in windows that start with the first request after the last one.  *)
EXTENDS Integers, FiniteSetsExt

CONSTANTS Clients,
          MaxPerWindow, WindowMs,
          Horizon  \* the last instant (bound)

ASSUME ReadsAssumption ==
  MaxPerWindow \in Nat /\ WindowMs \in Nat \ {0} /\ Horizon \in Nat

VARIABLES
  instant,
  windowStart,
  counts,    \* client -> the requests counted in this window
  admitted,  \* history: client -> instant -> requests that reached the store
  refused    \* history: <<client, instant>> of requests that did not

readsVars == <<instant, windowStart, counts, admitted, refused>>

Moments == 0 .. Horizon

ReadsInit ==
  /\ instant = 0
  /\ windowStart = 0
  /\ counts = [c \in Clients |-> 0]
  /\ admitted = [c \in Clients |-> [t \in Moments |-> 0]]
  /\ refused = {}

AdvanceInstant ==
  /\ instant < Horizon
  /\ instant' = instant + 1
  /\ UNCHANGED <<windowStart, counts, admitted, refused>>

Expired == instant >= windowStart + WindowMs

MutantWindowFrom == windowStart
WindowFrom == IF Expired THEN instant ELSE windowStart

Used(c) == IF Expired THEN 0 ELSE counts[c]

\* tryConsume, and the read of the store when it succeeds: an id that is not
\* there costs as much as one that is.
ReadArtifact(c) ==
  LET kept == [d \in Clients |-> Used(d)] IN
  /\ windowStart' = WindowFrom
  /\ IF Used(c) >= MaxPerWindow
       THEN /\ counts' = kept
            /\ refused' = refused \cup {<<c, instant>>}
            /\ UNCHANGED admitted
       ELSE /\ counts' = [kept EXCEPT ![c] = @ + 1]
            /\ admitted' = [admitted EXCEPT ![c][instant] = @ + 1]
            /\ UNCHANGED refused
  /\ UNCHANGED instant

ReadsNext == AdvanceInstant \/ \E c \in Clients : ReadArtifact(c)

ReadsSpec == ReadsInit /\ [][ReadsNext]_readsVars

-----------------------------------------------------------------------------
ReadsTypeOK ==
  /\ instant \in Moments /\ windowStart \in 0 .. instant
  /\ counts \in [Clients -> 0 .. MaxPerWindow]
  /\ \A c \in Clients, t \in Moments : admitted[c][t] \in 0 .. 2 * MaxPerWindow
  /\ refused \subseteq Clients \X Moments

\* The requests of client c in the window of time that ends with t.
Recent(c, t) ==
  MapThenSumSet(LAMBDA s : admitted[c][s], {s \in Moments : t - WindowMs < s /\ s <= t})

\* In no stretch of time as long as the window does a client get more than twice
\* its budget, wherever the windows begin; and no client is refused who has not
\* had its budget in the last such stretch, whatever other clients ask for.
BudgetHolds ==
  /\ \A c \in Clients, t \in Moments : Recent(c, t) <= 2 * MaxPerWindow
  /\ \A r \in refused : Recent(r[1], r[2]) >= MaxPerWindow
=============================================================================
