---------------------------- MODULE OrderTriggers ---------------------------
(* What makes an order due.  A limit order takes two sources that agree: the *)
(* price on chain, a quotient of two feeds, and a hint; the execution reads  *)
(* the first again.  A DCA order takes the slot of the time.  Prices are     *)
(* numbers and quotients are compared without rounding.                      *)
EXTENDS Integers, FiniteSetsExt

CONSTANTS FeedPrices, HintPrices,
          MaxAge,        \* TRIGGER_MAX_AGE_MS
          DeviationPct,  \* TRIGGER_DEVIATION_BPS, in percent
          LimitPrice,
          Interval,      \* of the DCA order, positive
          CreatedAt, LastTick

\* A round that is not positive is no print, and the configuration refuses
\* bounds that are negative.
ASSUME TriggerAssumption ==
  /\ FeedPrices \subseteq Nat \ {0} /\ HintPrices \subseteq Nat
  /\ MaxAge \in Nat /\ DeviationPct \in Nat
  /\ LimitPrice \in Nat \ {0} /\ Interval \in Nat \ {0}
  /\ CreatedAt \in Nat /\ LastTick \in Nat

VARIABLES
  kind,    \* "buy", "sell" (limit orders) or "dca"
  clock,
  feeds,   \* base, quote -> the last round: its answer and its time
  tick,    \* the scheduler's pass over the order, or the job it started
  slots    \* DCA: the starts of the slots that came up

triggerVars == <<kind, clock, feeds, tick, slots>>

Times  == 0 .. LastTick
NoTick == [pc |-> "idle"]

TriggerInit ==
  /\ kind \in {"buy", "sell", "dca"}
  /\ clock = 0
  /\ feeds \in [{"base", "quote"} -> [answer : FeedPrices, updatedAt : {0}]]
  /\ tick = NoTick
  /\ slots = {}

AdvanceClock ==
  /\ clock < LastTick
  /\ clock' = clock + 1
  /\ UNCHANGED <<kind, feeds, tick, slots>>

NewRound(leg, answer) ==
  /\ kind # "dca"
  /\ feeds' = [feeds EXCEPT ![leg] = [answer |-> answer, updatedAt |-> clock]]
  /\ UNCHANGED <<kind, clock, tick, slots>>

\* A print is as old as the older of its two rounds.
MutantObservedAt(base, quote) == Max({base.updatedAt, quote.updatedAt})
ObservedAt(base, quote) == Min({base.updatedAt, quote.updatedAt})

LatestPrint ==
  [num |-> feeds["base"].answer, den |-> feeds["quote"].answer,
   observedAt |-> ObservedAt(feeds["base"], feeds["quote"]),
   rounds |-> {feeds["base"].updatedAt, feeds["quote"].updatedAt}]

IsStale(print, nowMs) == nowMs - print.observedAt > MaxAge

AtLimit(print) ==
  IF kind = "buy" THEN print.num <= LimitPrice * print.den
                  ELSE print.num >= LimitPrice * print.den

\* |primary - hint| / primary, in percent, is no more than the bound
Distance(x, y) == IF x < y THEN y - x ELSE x - y
Agree(print, hint) == 100 * Distance(print.num, hint * print.den) <= DeviationPct * print.num

\* tick() reads the clock once, before the orders and their prices.
BeginTick ==
  /\ kind # "dca" /\ tick.pc = "idle"
  /\ tick' = [pc |-> "primary", nowMs |-> clock]
  /\ UNCHANGED <<kind, clock, feeds, slots>>

\* A failed read of either source is a null, and the order stays as it is.
NoPrint ==
  /\ tick.pc \in {"primary", "hint"}
  /\ tick' = NoTick
  /\ UNCHANGED <<kind, clock, feeds, slots>>

ReadPrimary ==
  /\ tick.pc = "primary"
  /\ tick' = [pc |-> "hint", nowMs |-> tick.nowMs, print |-> LatestPrint]
  /\ UNCHANGED <<kind, clock, feeds, slots>>

\* The hint, which is dated by its reading and so never stale, although the price
\* feed behind it may have had it for a while; then evaluateLimitTrigger.
ReadHint ==
  /\ tick.pc = "hint"
  /\ \E hint \in HintPrices :
       tick' = IF ~IsStale(tick.print, tick.nowMs) /\ Agree(tick.print, hint)
                    /\ AtLimit(tick.print)
                 THEN [pc |-> "fired", nowMs |-> tick.nowMs, print |-> tick.print,
                       hint |-> hint]
                 ELSE NoTick
  /\ UNCHANGED <<kind, clock, feeds, slots>>

\* checkLimitBound, on a print and a clock of its own, before the intent
CheckLimitBound ==
  /\ tick.pc = "fired"
  /\ tick' = IF ~IsStale(LatestPrint, clock) /\ AtLimit(LatestPrint)
               THEN [pc |-> "trading", nowMs |-> clock, print |-> LatestPrint]
               ELSE NoTick
  /\ UNCHANGED <<kind, clock, feeds, slots>>

\* The job ends, and the order may be looked at again.
EndJob ==
  /\ tick.pc \in {"fired", "trading"}
  /\ tick' = NoTick
  /\ UNCHANGED <<kind, clock, feeds, slots>>

MutantSlotStart(nowMs) == CreatedAt + Max({0, nowMs - CreatedAt})
SlotStart(nowMs) == CreatedAt + (Max({0, nowMs - CreatedAt}) \div Interval) * Interval

\* tickDca, by a process whose clock is off by skew: a slot that has come up
\* before is on record under its start.
TickDca(skew) ==
  /\ kind = "dca"
  /\ slots' = slots \cup {SlotStart(clock + skew)}
  /\ UNCHANGED <<kind, clock, feeds, tick>>

TriggerNext ==
  \/ AdvanceClock
  \/ \E leg \in {"base", "quote"}, answer \in FeedPrices : NewRound(leg, answer)
  \/ BeginTick \/ NoPrint \/ ReadPrimary \/ ReadHint \/ CheckLimitBound \/ EndJob
  \/ \E skew \in -1 .. 1 : TickDca(skew)

TriggerSpec == TriggerInit /\ [][TriggerNext]_triggerVars

-----------------------------------------------------------------------------
TriggerTypeOK ==
  /\ kind \in {"buy", "sell", "dca"} /\ clock \in Times
  /\ \A leg \in DOMAIN feeds :
       feeds[leg].answer \in FeedPrices /\ feeds[leg].updatedAt \in 0 .. clock
  /\ tick.pc \in {"idle", "primary", "hint", "fired", "trading"}
  /\ tick.pc # "idle" => tick.nowMs \in Times
  /\ slots \subseteq Nat

\* A limit order fires, and trades, only on a price both of whose rounds were
\* reported within the age bound of the clock that judged them; when it fires the
\* hint as well is at the limit or off it by no more than the deviation, so that
\* neither source alone can make it fire.
FiresAgreed ==
  /\ tick.pc \in {"fired", "trading"} => \A at \in tick.print.rounds : tick.nowMs - at <= MaxAge
  /\ tick.pc = "fired" /\ kind = "buy" =>
       100 * tick.hint <= LimitPrice * (100 + DeviationPct)
  /\ tick.pc = "fired" /\ kind = "sell" =>
       100 * tick.hint >= LimitPrice * (100 - DeviationPct)

\* The slots of a DCA order lie whole intervals apart from its creation, whatever
\* the clocks of the processes that tick say: at most one for each interval that
\* has begun on the fastest of them.
SlotsApart ==
  /\ \A s, t \in slots : s < t => t - s >= Interval
  /\ \A s \in slots : s = CreatedAt \/ s \in CreatedAt .. clock + 1

\* Both kinds of orders come due when they should, and only then.
TriggersSound == FiresAgreed /\ SlotsApart
=============================================================================
