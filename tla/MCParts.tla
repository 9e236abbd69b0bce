-------------------------------- MODULE MCParts -------------------------------
(* The parts of the API and of the trading front end that share no state     *)
(* with one another, for TLC: a behaviour is one of the part in focus, the   *)
(* others stay as they began.                                                *)
EXTENDS ScreenRequests, LaunchConsent, KeyedMutex, LaunchRecords, VerificationReads,
        KillSwitchRow, SigningStores, PriceFeed, OrderTriggers, MicroUsd, WalletPolicies

VARIABLE focus

\* What the parts out of focus begin with is an input of theirs.
ASSUME StartAssumption == 9 \in FeedPrices /\ 0 \in IntParts

\* A part out of focus begins in one of its initial states only.
MCInit ==
  /\ focus \in {"screen", "consent", "mutex", "launches", "reads", "switch", "signing", "feed",
                "triggers", "money", "wallets"}
  /\ ScreenInit /\ (focus # "screen" => part = "quote")
  /\ ConsentInit /\ MutexInit /\ ReadsInit /\ SwitchInit /\ FeedInit
  /\ LaunchInit /\ (focus # "launches" => ~durable)
  /\ SignInit /\ (focus # "signing" => ~persistent)
  /\ WalletInit /\ (focus # "wallets" => ~onPostgres)
  /\ IF focus = "triggers"
       THEN TriggerInit
       ELSE /\ kind = "dca" /\ clock = 0 /\ tick = NoTick /\ slots = {}
            /\ feeds = [leg \in {"base", "quote"} |-> [answer |-> 9, updatedAt |-> 0]]
  /\ IF focus = "money"
       THEN MoneyInit
       ELSE usd = [negative |-> FALSE, int |-> 0, frac |-> <<>>] /\ micros = 0

\* What stays as it is: everything but the part in focus.
Keep(name, state) == IF focus = name THEN TRUE ELSE UNCHANGED state

KeepOthers ==
  /\ Keep("screen", screenVars)    /\ Keep("consent", consentVars)
  /\ Keep("mutex", mutexVars)      /\ Keep("launches", launchVars)
  /\ Keep("reads", readsVars)      /\ Keep("switch", switchVars)
  /\ Keep("signing", signVars)     /\ Keep("feed", feedVars)
  /\ Keep("triggers", triggerVars) /\ Keep("money", moneyVars)
  /\ Keep("wallets", walletVars)

MCNext ==
  /\ UNCHANGED focus
  /\ \/ focus = "screen"   /\ ScreenNext
     \/ focus = "consent"  /\ ConsentNext
     \/ focus = "mutex"    /\ MutexNext
     \/ focus = "launches" /\ LaunchNext
     \/ focus = "reads"    /\ ReadsNext
     \/ focus = "switch"   /\ SwitchNext
     \/ focus = "signing"  /\ SignNext
     \/ focus = "feed"     /\ FeedNext
     \/ focus = "triggers" /\ TriggerNext
     \/ focus = "money"    /\ MoneyNext
     \/ focus = "wallets"  /\ WalletNext
  /\ KeepOthers

MCSpec ==
  MCInit /\ [][MCNext]_<<focus, screenVars, consentVars, mutexVars, launchVars, readsVars,
                         switchVars, signVars, feedVars, triggerVars, moneyVars, walletVars>>

TypesOK ==
  /\ ScreenTypeOK /\ ConsentTypeOK /\ MutexTypeOK /\ LaunchTypeOK /\ ReadsTypeOK
  /\ SwitchTypeOK /\ SignTypeOK /\ FeedTypeOK /\ TriggerTypeOK /\ MoneyTypeOK /\ WalletTypeOK
=============================================================================
