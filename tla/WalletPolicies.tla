---------------------------- MODULE WalletPolicies ---------------------------
(* CreateWalletUseCase over its two stores: look the address up, save the    *)
(* wallet, provision its policy.  The id of a wallet is derived from owner   *)
(* and address; on Postgres a wallet is stored under its address instead, and *)
(* a policy needs the row of the wallet that it names.                       *)
EXTENDS Naturals

CONSTANTS Owners, Addresses, ChainSets, Creators,
          MaxCreations,  \* requests to create a wallet (bound)
          NoOwner, NoChains

ASSUME WalletAssumption ==
  MaxCreations \in Nat /\ NoChains \notin ChainSets /\ NoOwner \notin Owners

VARIABLES
  onPostgres,   \* PERSISTENCE_MODE
  stored,       \* id -> the chains of the wallet that findById gives, or none
  byAddress,    \* the ids that findByAddress may give: one for each address
  policies,     \* id -> the chains its policy allows, or none
  creation,     \* creator -> its request and where it is
  creations,    \* requests so far (bound)
  created,      \* history: ids of wallets that callers were given
  lostCreation  \* history: a request died between two calls

walletVars == <<onPostgres, stored, byAddress, policies, creation, creations, created, lostCreation>>

\* walletIdFor; without an owner, an address that is used as an id
Id(owner, address) == [owner |-> owner, address |-> address]
Ids == [owner : Owners \cup {NoOwner}, address : Addresses]

StoredId(wallet) ==
  Id(IF onPostgres THEN NoOwner ELSE wallet.owner, wallet.address)

WalletRequest == [owner : Owners, address : Addresses, chains : ChainSets]
Idle    == [pc |-> "idle"]

WalletInit ==
  /\ onPostgres \in BOOLEAN
  /\ stored = [id \in Ids |-> NoChains]
  /\ byAddress = {}
  /\ policies = [id \in Ids |-> NoChains]
  /\ creation = [c \in Creators |-> Idle]
  /\ creations = 0
  /\ created = {}
  /\ lostCreation = FALSE

\* findByAddress: an address that has a wallet is refused.
Taken(address) == \E id \in byAddress : id.address = address

FindByAddress(c, wallet) ==
  /\ creation[c] = Idle /\ creations < MaxCreations
  /\ creations' = creations + 1
  /\ creation' = IF Taken(wallet.address)
                   THEN creation
                   ELSE [creation EXCEPT ![c] = [pc |-> "save", wallet |-> wallet]]
  /\ UNCHANGED <<onPostgres, stored, byAddress, policies, created, lostCreation>>

\* The later of two that crossed wins the address, and on Postgres the row.
Save(c) ==
  LET wallet == creation[c].wallet
      id     == StoredId(wallet)
  IN
  /\ creation[c].pc = "save"
  /\ stored' = [stored EXCEPT ![id] = wallet.chains]
  /\ byAddress' = {other \in byAddress : other.address # wallet.address} \cup {id}
  /\ creation' = [creation EXCEPT ![c].pc = "policy"]
  /\ UNCHANGED <<onPostgres, policies, creations, created, lostCreation>>

\* The policy names the wallet by the id that buildWallet derived.
PolicyId(wallet) == Id(wallet.owner, wallet.address)

\* security_policies.wallet_address references wallets.address: without that row
\* the upsert fails, and the request with it.
MutantAccepts(id) == TRUE
Accepts(id) == onPostgres => stored[id] # NoChains

Provision(c) ==
  LET wallet == creation[c].wallet
      id     == PolicyId(wallet)
  IN
  /\ creation[c].pc = "policy"
  /\ IF Accepts(id)
       THEN /\ policies' = [policies EXCEPT ![id] = wallet.chains]
            /\ created' = created \cup {id}
       ELSE UNCHANGED <<policies, created>>
  /\ creation' = [creation EXCEPT ![c] = Idle]
  /\ UNCHANGED <<onPostgres, stored, byAddress, creations, lostCreation>>

\* The process dies, or a call fails for reasons of its own.
Lose(c) ==
  /\ creation[c] # Idle
  /\ creation' = [creation EXCEPT ![c] = Idle]
  /\ lostCreation' = TRUE
  /\ UNCHANGED <<onPostgres, stored, byAddress, policies, creations, created>>

WalletNext ==
  \E c \in Creators :
    \/ \E wallet \in WalletRequest : FindByAddress(c, wallet)
    \/ Save(c) \/ Provision(c) \/ Lose(c)

WalletSpec == WalletInit /\ [][WalletNext]_walletVars

-----------------------------------------------------------------------------
WalletTypeOK ==
  /\ {onPostgres, lostCreation} \subseteq BOOLEAN
  /\ stored \in [Ids -> ChainSets \cup {NoChains}]
  /\ policies \in [Ids -> ChainSets \cup {NoChains}]
  /\ byAddress \subseteq Ids /\ created \subseteq Ids
  /\ creation \in [Creators -> [pc : {"save", "policy"}, wallet : WalletRequest] \cup {Idle}]
  /\ creations \in 0 .. MaxCreations

\* Whoever is told that a wallet was created finds it, and its policy, under the
\* id it was given, also when requests for one address crossed; a policy never
\* stands without its wallet; and an address leads to one wallet that is there.
AnswersStand ==
  /\ \A id \in created : policies[id] # NoChains
  /\ \A id \in Ids : policies[id] # NoChains => stored[id] # NoChains
  /\ \A id, other \in byAddress : id.address = other.address => id = other
  /\ \A id \in byAddress : stored[id] # NoChains

\* What create-wallet.usecase.ts:22-24 says: a wallet never exists without the
\* gate knowing about it.  Taken where it could hold at all: no creation is under
\* way and none was lost.
GateKnowsWallets ==
  (\A c \in Creators : creation[c] = Idle) /\ ~lostCreation =>
    \A id \in Ids : stored[id] # NoChains => policies[id] # NoChains
=============================================================================
