---------------------------- MODULE AgentWallet ----------------------------
(***************************************************************************)
(* The Agent Wallet on chain: the shared objects TradingPolicy and         *)
(* PandaVault that agent_wallet::setup_agent_wallet creates together, the  *)
(* owner's operations on them, the agent's chain_proof_executor, the       *)
(* PandaTrainingToken credit a vault holds, and as much of the Panda NFT   *)
(* (its owner and its trading lock) as decides who may set up a wallet.    *)
(*                                                                         *)
(* A Move transaction either aborts and changes nothing or takes effect as *)
(* a whole, so one entry function is one action and its assert!s are the   *)
(* action's guards.  Every shared object may be used by any sender: the    *)
(* sender and the arguments are the bound variables of Next.               *)
(*                                                                         *)
(* Left out: the policy fields no Move code reads (mode, leverage, open    *)
(* positions, cooldown, policy_hash, timestamps), and deposit_panda_coin,  *)
(* whose argument cannot exist: the package has no init that would create  *)
(* the PANDA_COIN witness, so panda_coin_balance stays zero.               *)
(***************************************************************************)
EXTENDS Integers, Sequences, FiniteSetsExt

CONSTANTS
    Panda,        \* Panda NFT ids
    User,         \* addresses that may own a Panda
    Agent,        \* addresses of agent signers
    ZeroAddress,  \* @0x0, which signs nothing
    Wallet,       \* ids of the (TradingPolicy, PandaVault) pairs to create
    PairsHash,    \* values of allowed_pairs_hash
    Amount,       \* notionals and loss limits offered to the calls (u64)
    Expiry,       \* expires_at_ms values offered at setup; 0 means never
    DailyCap,     \* max_proofs_per_day values offered at setup
    ProofKey      \* values of proof_key_hash

CONSTANTS         \* bounds on what grows without limit in the code
    MaxTime, MaxVersion, MaxProofs, MaxCredit

ASSUME AmountAssumption ==
    /\ Amount \subseteq Nat
    /\ Expiry \subseteq Nat
    /\ DailyCap \subseteq Nat

ASSUME BoundAssumption ==
    /\ MaxTime \in Nat
    /\ MaxVersion \in Nat \ {0}
    /\ MaxProofs \in Nat
    /\ MaxCredit \in Nat

ASSUME FiniteAssumption ==
    /\ IsFiniteSet(User)
    /\ IsFiniteSet(Agent)
    /\ IsFiniteSet(Wallet)

ASSUME ZeroAddressAssumption == ZeroAddress \notin User \cup Agent

VARIABLES
    pandaOwner,   \* the owner of each Panda
    isTrading,    \* Panda.is_trading, the transfer lock
    policy,       \* the TradingPolicy objects that exist, by wallet id
    vault,        \* the PandaVault objects that exist, by wallet id
    proofs,       \* the ChainProofRecorded events, in the order of the chain
    credit,       \* PandaTrainingToken coins held by each address
    minted,       \* PandaTrainingToken minted so far
    now           \* the Clock, in units of expires_at_ms

vars == <<pandaOwner, isTrading, policy, vault, proofs, credit, minted, now>>

Address == User \cup Agent

Policy == [panda : Panda, owner : User, agent : Address \cup {ZeroAddress},
           pairs : PairsHash, maxNotional : Nat, maxLoss : Nat,
           maxProofs : Nat, expires : Nat, paused : BOOLEAN,
           revoked : BOOLEAN, version : Nat \ {0}]

Vault == [panda : Panda, owner : User, policyId : Wallet,
          status : {"active", "paused"}, balance : Nat]

ProofRecorded == [vaultId : Wallet, policyId : Wallet, panda : Panda,
                  agent : Address, pair : PairsHash, notional : Nat,
                  key : ProofKey, version : Nat \ {0}, time : Nat]

TypeOK ==
    /\ pandaOwner \in [Panda -> User]
    /\ isTrading \in [Panda -> BOOLEAN]
    /\ DOMAIN policy \subseteq Wallet
    /\ policy \in [DOMAIN policy -> Policy]
    /\ DOMAIN vault \subseteq Wallet
    /\ vault \in [DOMAIN vault -> Vault]
    /\ proofs \in Seq(ProofRecorded)
    /\ credit \in [Address -> Nat]
    /\ minted \in Nat
    /\ now \in Nat

Init ==
    /\ pandaOwner \in [Panda -> User]
    /\ isTrading = [p \in Panda |-> FALSE]
    /\ policy = <<>>
    /\ vault = <<>>
    /\ proofs = <<>>
    /\ credit = [a \in Address |-> 0]
    /\ minted = 0
    /\ now = 0

-----------------------------------------------------------------------------
(* Object store: an object that is created, changed or deleted.            *)

With(store, id, object) ==
    [x \in DOMAIN store \cup {id} |-> IF x = id THEN object ELSE store[x]]

Without(store, id) == [x \in DOMAIN store \ {id} |-> store[x]]

-----------------------------------------------------------------------------
(* The Panda NFT and the clock.                                            *)

LockTrading(p) ==
    /\ isTrading' = [isTrading EXCEPT ![p] = TRUE]
    /\ UNCHANGED <<pandaOwner, policy, vault, proofs, credit, minted, now>>

UnlockTrading(p) ==
    /\ isTrading' = [isTrading EXCEPT ![p] = FALSE]
    /\ UNCHANGED <<pandaOwner, policy, vault, proofs, credit, minted, now>>

\* The policy and the vault of a Panda stay with the owner who set them up.
TransferPanda(sender, p, recipient) ==
    /\ pandaOwner[p] = sender
    /\ ~isTrading[p]
    /\ pandaOwner' = [pandaOwner EXCEPT ![p] = recipient]
    /\ UNCHANGED <<isTrading, policy, vault, proofs, credit, minted, now>>

Tick ==
    /\ now < MaxTime
    /\ now' = now + 1
    /\ UNCHANGED <<pandaOwner, isTrading, policy, vault, proofs, credit, minted>>

-----------------------------------------------------------------------------
(* agent_wallet::setup_agent_wallet.  The call takes &Panda, an owned      *)
(* object, so only the Panda's owner can make it.                          *)

SetupAgentWallet(sender, p, w, agent, pairs, notional, loss, cap, expires) ==
    /\ pandaOwner[p] = sender
    /\ w \in Wallet \ DOMAIN policy
    /\ policy' = With(policy, w,
                      [panda |-> p, owner |-> sender, agent |-> agent,
                       pairs |-> pairs, maxNotional |-> notional,
                       maxLoss |-> loss, maxProofs |-> cap,
                       expires |-> expires, paused |-> FALSE,
                       revoked |-> FALSE, version |-> 1])
    /\ vault' = With(vault, w,
                     [panda |-> p, owner |-> sender, policyId |-> w,
                      status |-> "active", balance |-> 0])
    /\ UNCHANGED <<pandaOwner, isTrading, proofs, credit, minted, now>>

-----------------------------------------------------------------------------
(* trading_policy: the owner's operations.                                 *)

\* MUTANT of NextVersion: an update that does not bump the version.
SameVersion(pol) == pol.version

NextVersion(pol) == pol.version + 1

\* MUTANT of NoLooser: the notional cap is not compared.
NoLooserLossOnly(pol, notional, loss) == loss <= pol.maxLoss

NoLooser(pol, notional, loss) ==
    /\ notional <= pol.maxNotional
    /\ loss <= pol.maxLoss

\* tighten_policy is update_policy under another name.
UpdatePolicy(sender, w, pairs, notional, loss, cap) ==
    /\ w \in DOMAIN policy
    /\ sender = policy[w].owner
    /\ NoLooser(policy[w], notional, loss)
    /\ policy[w].version < MaxVersion
    /\ policy' = [policy EXCEPT ![w].pairs = pairs,
                                ![w].maxNotional = notional,
                                ![w].maxLoss = loss,
                                ![w].maxProofs = cap,
                                ![w].version = NextVersion(policy[w])]
    /\ UNCHANGED <<pandaOwner, isTrading, vault, proofs, credit, minted, now>>

\* MUTANT of PausePolicy: unpausing gives a revoked agent its seat back.
PausePolicyReinstates(sender, w, flag) ==
    /\ w \in DOMAIN policy
    /\ sender = policy[w].owner
    /\ policy' = [policy EXCEPT ![w].paused = flag, ![w].revoked = @ /\ flag]
    /\ UNCHANGED <<pandaOwner, isTrading, vault, proofs, credit, minted, now>>

PausePolicy(sender, w, flag) ==
    /\ w \in DOMAIN policy
    /\ sender = policy[w].owner
    /\ policy' = [policy EXCEPT ![w].paused = flag]
    /\ UNCHANGED <<pandaOwner, isTrading, vault, proofs, credit, minted, now>>

RevokeAgent(sender, w) ==
    /\ w \in DOMAIN policy
    /\ sender = policy[w].owner
    /\ policy' = [policy EXCEPT ![w].agent = ZeroAddress,
                                ![w].revoked = TRUE,
                                ![w].paused = TRUE]
    /\ UNCHANGED <<pandaOwner, isTrading, vault, proofs, credit, minted, now>>

-----------------------------------------------------------------------------
(* panda_vault: the owner's operations, and the minter of the credit.      *)

PauseVault(sender, w) ==
    /\ w \in DOMAIN vault
    /\ sender = vault[w].owner
    /\ vault' = [vault EXCEPT ![w].status = "paused"]
    /\ UNCHANGED <<pandaOwner, isTrading, policy, proofs, credit, minted, now>>

\* MUTANT of IsEmpty: the balance is dropped, not destroyed as a zero.
IsEmptyUnchecked(v) == TRUE

IsEmpty(v) == v.balance = 0

CloseVault(sender, w) ==
    /\ w \in DOMAIN vault
    /\ sender = vault[w].owner
    /\ IsEmpty(vault[w])
    /\ vault' = Without(vault, w)
    /\ UNCHANGED <<pandaOwner, isTrading, policy, proofs, credit, minted, now>>

MintTrainingCredit(recipient, amount) ==
    /\ minted + amount <= MaxCredit
    /\ minted' = minted + amount
    /\ credit' = [credit EXCEPT ![recipient] = @ + amount]
    /\ UNCHANGED <<pandaOwner, isTrading, policy, vault, proofs, now>>

DepositTrainingCredit(sender, w, amount) ==
    /\ w \in DOMAIN vault
    /\ sender = vault[w].owner
    /\ amount <= credit[sender]
    /\ credit' = [credit EXCEPT ![sender] = @ - amount]
    /\ vault' = [vault EXCEPT ![w].balance = @ + amount]
    /\ UNCHANGED <<pandaOwner, isTrading, policy, proofs, minted, now>>

\* MUTANT of Covers: the withdrawal is not compared with the balance.
CoversAnything(v, amount) == TRUE

Covers(v, amount) == amount <= v.balance

WithdrawTrainingCredit(sender, w, amount) ==
    /\ w \in DOMAIN vault
    /\ sender = vault[w].owner
    /\ Covers(vault[w], amount)
    /\ credit' = [credit EXCEPT ![sender] = @ + amount]
    /\ vault' = [vault EXCEPT ![w].balance = @ - amount]
    /\ UNCHANGED <<pandaOwner, isTrading, policy, proofs, minted, now>>

-----------------------------------------------------------------------------
(* chain_proof_executor::submit_chain_proof: the caller names any vault    *)
(* and any policy, states a policy version and the day's loss, and an      *)
(* event is emitted.  A side other than BUY or SELL aborts and is not      *)
(* offered; the event's side, price and hashes are not told apart.         *)

AssertAgent(pol, sender) == ~pol.revoked /\ sender = pol.agent

\* MUTANT of AssertActive: the expiry is taken as inclusive.
AssertActiveInclusive(pol) ==
    /\ ~pol.paused
    /\ ~pol.revoked
    /\ pol.expires = 0 \/ now <= pol.expires

AssertActive(pol) ==
    /\ ~pol.paused
    /\ ~pol.revoked
    /\ pol.expires = 0 \/ now < pol.expires

AssertTradeAllowed(pol, sender, pair, notional, loss) ==
    /\ AssertAgent(pol, sender)
    /\ AssertActive(pol)
    /\ pair = pol.pairs
    /\ notional <= pol.maxNotional
    /\ loss <= pol.maxLoss

\* MUTANT of AssertBindings: the vault need not be bound to this policy.
AssertBindingsPandaOnly(v, w, pol, version) ==
    /\ v.panda = pol.panda
    /\ pol.version = version
    /\ v.status = "active"

\* MUTANT of AssertBindings: the vault's status is not looked at.
AssertBindingsAnyStatus(v, w, pol, version) ==
    /\ v.panda = pol.panda
    /\ v.policyId = w
    /\ pol.version = version

AssertBindings(v, w, pol, version) ==
    /\ v.panda = pol.panda
    /\ v.policyId = w
    /\ pol.version = version
    /\ v.status = "active"

SubmitChainProof(sender, v, w, pair, notional, loss, key, version) ==
    /\ v \in DOMAIN vault
    /\ w \in DOMAIN policy
    /\ Len(proofs) < MaxProofs
    /\ AssertBindings(vault[v], w, policy[w], version)
    /\ AssertTradeAllowed(policy[w], sender, pair, notional, loss)
    /\ proofs' = Append(proofs,
                        [vaultId |-> v, policyId |-> w,
                         panda |-> vault[v].panda, agent |-> sender,
                         pair |-> pair, notional |-> notional, key |-> key,
                         version |-> version, time |-> now])
    /\ UNCHANGED <<pandaOwner, isTrading, policy, vault, credit, minted, now>>

-----------------------------------------------------------------------------
PandaNext ==
    \E p \in Panda :
        \/ LockTrading(p)
        \/ UnlockTrading(p)
        \/ \E u, r \in User : TransferPanda(u, p, r)

SetupNext ==
    \E u \in User, p \in Panda, w \in Wallet, a \in Address, h \in PairsHash,
       n, l \in Amount, c \in DailyCap, e \in Expiry :
        SetupAgentWallet(u, p, w, a, h, n, l, c, e)

PolicyNext ==
    \E s \in Address, w \in Wallet :
        \/ \E h \in PairsHash, n, l \in Amount, c \in DailyCap :
              UpdatePolicy(s, w, h, n, l, c)
        \/ \E flag \in BOOLEAN : PausePolicy(s, w, flag)
        \/ RevokeAgent(s, w)

VaultNext ==
    \E s \in Address :
        \/ \E w \in Wallet :
              \/ PauseVault(s, w)
              \/ CloseVault(s, w)
              \/ \E amount \in 1..MaxCredit :
                    \/ DepositTrainingCredit(s, w, amount)
                    \/ WithdrawTrainingCredit(s, w, amount)
        \/ \E amount \in 1..MaxCredit : MintTrainingCredit(s, amount)

ProofNext ==
    \E s \in Address, v, w \in Wallet, h \in PairsHash, n, l \in Amount,
       k \in ProofKey, version \in 1..MaxVersion :
        SubmitChainProof(s, v, w, h, n, l, k, version)

Next == PandaNext \/ SetupNext \/ PolicyNext \/ VaultNext \/ ProofNext \/ Tick

Spec == Init /\ [][Next]_vars

-----------------------------------------------------------------------------
(* Invariants.                                                             *)

\* Every vault that exists is bound to an existing policy of the same Panda
\* and owner, and every recorded proof names a vault and a policy that were
\* created together: panda_vault::assert_bindings against a caller who mixes
\* the shared objects of two wallets.
WalletsStayBound ==
    /\ \A w \in DOMAIN vault :
        /\ vault[w].policyId = w
        /\ w \in DOMAIN policy
        /\ vault[w].panda = policy[w].panda
        /\ vault[w].owner = policy[w].owner
    /\ \A i \in DOMAIN proofs :
        /\ proofs[i].policyId \in DOMAIN policy
        /\ proofs[i].vaultId = proofs[i].policyId
        /\ proofs[i].panda = policy[proofs[i].policyId].panda

\* The policy_version of a ChainProofRecorded event pins the collar the trade
\* was checked against: as long as the policy still has that version, the
\* recorded notional and pair are within its present limits.  It fails as soon
\* as some owner operation changes a limit and keeps the version.
VersionPinsCollar ==
    \A i \in DOMAIN proofs :
        LET pol == policy[proofs[i].policyId] IN
        /\ proofs[i].version <= pol.version
        /\ proofs[i].version = pol.version =>
              /\ proofs[i].notional <= pol.maxNotional
              /\ proofs[i].pair = pol.pairs

\* No event of an expiring policy carries a timestamp at or past the expiry
\* its owner set, whatever updates came in between (assert_active).
NoProofAfterExpiry ==
    \A i \in DOMAIN proofs :
        LET pol == policy[proofs[i].policyId] IN
        pol.expires = 0 \/ proofs[i].time < pol.expires

\* The training credit in the vault of each wallet, none where there is none.
VaultCredit ==
    [w \in Wallet |-> IF w \in DOMAIN vault THEN vault[w].balance ELSE 0]

\* Training credit is neither created nor lost by deposits, withdrawals and
\* the closing of vaults: what addresses and vaults hold is what was minted.
CreditConserved == SumFunction(credit) + SumFunction(VaultCredit) = minted

-----------------------------------------------------------------------------
(* Action properties.                                                      *)

\* The events a step appends to the log.
NewProofs == {proofs'[i] : i \in DOMAIN proofs' \ DOMAIN proofs}

\* After revoke_agent a policy never authorizes anyone again and no proof is
\* ever recorded under it, although its owner may still unpause and update it.
RevocationIsFinal ==
    [][\A w \in DOMAIN policy :
         policy[w].revoked =>
           /\ policy'[w].revoked
           /\ \A e \in NewProofs : e.policyId # w]_vars

\* A paused vault records no further proof: it can be closed but no owner or
\* agent operation makes it active again (there is no unpause_vault).
VaultPauseIsFinal ==
    [][\A w \in DOMAIN vault :
         vault[w].status = "paused" =>
           /\ w \in DOMAIN vault' => vault'[w].status = "paused"
           /\ \A e \in NewProofs : e.vaultId # w]_vars

\* Both caps of a policy only ever shrink, its expiry, Panda and owner never
\* change, and each change of pair or cap raises the version, so a proof that
\* was prepared against the old collar aborts (E_POLICY_LOOSEN, E_VERSION_STALE).
CollarNeverLoosens ==
    [][\A w \in DOMAIN policy :
         LET old == policy[w]
             new == policy'[w]
         IN  /\ w \in DOMAIN policy'
             /\ new.maxNotional <= old.maxNotional
             /\ new.maxLoss <= old.maxLoss
             /\ new.expires = old.expires
             /\ new.owner = old.owner /\ new.panda = old.panda
             /\ <<new.pairs, new.maxNotional, new.maxLoss, new.maxProofs>>
                  # <<old.pairs, old.maxNotional, old.maxLoss, old.maxProofs>>
                => new.version > old.version]_vars
=============================================================================
