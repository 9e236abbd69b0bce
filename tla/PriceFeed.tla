------------------------------ MODULE PriceFeed -----------------------------
(* CoingeckoPriceFeed: a cache with a time to live, filled by whoever reads  *)
(* an asset that is not fresh.  Reads do not wait for one another, and an    *)
(* answer may take any time.                                                 *)
EXTENDS Integers

CONSTANTS Assets, Readers,
          TtlMs,
          LastInstant,  \* the end of the clock (bound)
          NoEntry

VARIABLES
  today,          \* the clock
  priceCache,     \* asset -> when its entry arrived and when its price was taken
  lastSuccessAt, lastErrorAt,
  fetching,       \* reader -> the asset it fetches, and since when
  served,         \* history: the last price handed out
  lastOutcome     \* history: how the last fetch ended

feedVars == <<today, priceCache, lastSuccessAt, lastErrorAt, fetching, served, lastOutcome>>

Never    == -1
Instants == 0 .. LastInstant
Entry    == [fetchedAt : Instants, taken : Instants]
NoFetch  == [asset |-> NoEntry, since |-> 0]

ASSUME FeedAssumption ==
  /\ TtlMs \in Nat /\ LastInstant \in Nat
  /\ NoEntry \notin Assets \cup Entry \cup [entry : Entry, at : Instants]

FeedInit ==
  /\ today = 0
  /\ priceCache = [a \in Assets |-> NoEntry]
  /\ lastSuccessAt = Never
  /\ lastErrorAt = Never
  /\ fetching = [r \in Readers |-> NoFetch]
  /\ served = NoEntry
  /\ lastOutcome = "none"

AdvanceToday ==
  /\ today < LastInstant
  /\ today' = today + 1
  /\ UNCHANGED <<priceCache, lastSuccessAt, lastErrorAt, fetching, served, lastOutcome>>

MutantServable(a) == priceCache[a] # NoEntry
Servable(a) == priceCache[a] # NoEntry /\ today - priceCache[a].fetchedAt <= TtlMs

Serve(entry) == served' = [entry |-> entry, at |-> today]

\* getSpotPrice of a mapped asset, with a key: the cache or a fetch
GetSpotPrice(r, a) ==
  /\ fetching[r] = NoFetch
  /\ IF Servable(a)
       THEN Serve(priceCache[a]) /\ UNCHANGED fetching
       ELSE /\ fetching' = [fetching EXCEPT ![r] = [asset |-> a, since |-> today]]
            /\ UNCHANGED served
  /\ UNCHANGED <<today, priceCache, lastSuccessAt, lastErrorAt, lastOutcome>>

\* The price was taken at some time since the call, and is dated by its arrival.
Respond(r) ==
  LET f == fetching[r] IN
  /\ f # NoFetch
  /\ \E taken \in f.since .. today :
       LET entry == [fetchedAt |-> today, taken |-> taken] IN
       /\ priceCache' = [priceCache EXCEPT ![f.asset] = entry]
       /\ Serve(entry)
  /\ lastSuccessAt' = today
  /\ lastErrorAt' = Never
  /\ lastOutcome' = "success"
  /\ fetching' = [fetching EXCEPT ![r] = NoFetch]
  /\ UNCHANGED today

\* No answer, a bad one, or one without a price: null, also when another reader
\* has filled the cache meanwhile.
FailFetch(r) ==
  /\ fetching[r] # NoFetch
  /\ lastErrorAt' = today
  /\ lastOutcome' = "error"
  /\ fetching' = [fetching EXCEPT ![r] = NoFetch]
  /\ UNCHANGED <<today, priceCache, lastSuccessAt, served>>

FeedNext ==
  \/ AdvanceToday
  \/ \E r \in Readers : Respond(r) \/ FailFetch(r) \/ \E a \in Assets : GetSpotPrice(r, a)

FeedSpec == FeedInit /\ [][FeedNext]_feedVars

\* health(), which the health endpoint reports
Health ==
  IF lastSuccessAt # Never /\ today - lastSuccessAt <= TtlMs THEN "healthy"
  ELSE IF lastErrorAt # Never /\ (lastSuccessAt = Never \/ lastErrorAt >= lastSuccessAt)
         THEN "down"
         ELSE "stale"

-----------------------------------------------------------------------------
FeedTypeOK ==
  /\ today \in Instants
  /\ priceCache \in [Assets -> Entry \cup {NoEntry}]
  /\ {lastSuccessAt, lastErrorAt} \subseteq Instants \cup {Never}
  /\ fetching \in [Readers -> [asset : Assets, since : Instants] \cup {NoFetch}]
  /\ served = NoEntry \/ served \in [entry : Entry, at : Instants]
  /\ lastOutcome \in {"none", "success", "error"}

\* No price is handed out later than its time to live after it arrived, whoever
\* fetched it and whatever fetches failed meanwhile; and the health that is
\* reported agrees with what a reader would get: healthy when some asset is
\* served from the cache, down when none is and the last fetch failed.
PricesFresh ==
  /\ served # NoEntry =>
       /\ served.at - served.entry.fetchedAt <= TtlMs
       /\ served.entry.taken <= served.at
  /\ Health = "healthy" <=>
       \E a \in Assets : priceCache[a] # NoEntry /\ today - priceCache[a].fetchedAt <= TtlMs
  /\ Health = "down" => lastOutcome = "error"
  /\ Health = "stale" => lastOutcome # "error"
=============================================================================
