------------------------- MODULE AgentWalletProofs -------------------------
(***************************************************************************)
(* Theorems about AgentWallet for every set of Pandas, users, agents,      *)
(* wallets and limits: type correctness, the binding of vaults, policies   *)
(* and proofs, what a recorded policy version pins, expiry, and the three  *)
(* action properties.  CreditConserved is proved in ConservationProofs.    *)
(***************************************************************************)
EXTENDS AgentWallet, TLAPS

-----------------------------------------------------------------------------
(* The object store.                                                       *)

\* Adding or replacing one object leaves every other object alone.
LEMMA WithStore ==
    ASSUME NEW store, NEW id, NEW object
    PROVE  /\ DOMAIN With(store, id, object) = DOMAIN store \cup {id}
           /\ With(store, id, object)[id] = object
           /\ \A x \in DOMAIN store \ {id} :
                 With(store, id, object)[x] = store[x]
    BY DEF With

\* A store of well-typed objects stays one when a well-typed one is added.
LEMMA WithType ==
    ASSUME NEW store, NEW id, NEW object, NEW Type,
           store \in [DOMAIN store -> Type], object \in Type
    PROVE  With(store, id, object)
             \in [DOMAIN With(store, id, object) -> Type]
    BY DEF With

\* The log after a submitted proof: the old entries and one new one.
LEMMA AppendProof ==
    ASSUME NEW Entry, NEW log \in Seq(Entry), NEW e \in Entry
    PROVE  /\ Append(log, e) \in Seq(Entry)
           /\ DOMAIN Append(log, e) = DOMAIN log \cup {Len(log) + 1}
           /\ Len(log) + 1 \notin DOMAIN log
           /\ \A i \in DOMAIN log : Append(log, e)[i] = log[i]
           /\ Append(log, e)[Len(log) + 1] = e
    OBVIOUS

-----------------------------------------------------------------------------
(* Type correctness.                                                       *)

LEMMA InitTypeOK == Init => TypeOK
  <1> SUFFICES ASSUME Init PROVE TypeOK
    OBVIOUS
  <1>1. policy \in [DOMAIN policy -> Policy] /\ DOMAIN policy \subseteq Wallet
    BY DEF Init
  <1>2. vault \in [DOMAIN vault -> Vault] /\ DOMAIN vault \subseteq Wallet
    BY DEF Init
  <1>3. proofs \in Seq(ProofRecorded)
    BY DEF Init
  <1>4. QED
    BY <1>1, <1>2, <1>3 DEF Init, TypeOK

LEMMA NextTypeOK == TypeOK /\ [Next]_vars => TypeOK'
  <1> SUFFICES ASSUME TypeOK, [Next]_vars PROVE TypeOK'
    OBVIOUS
  <1> USE AmountAssumption, BoundAssumption
  <1>1. CASE PandaNext
    BY <1>1 DEF TypeOK, PandaNext, LockTrading, UnlockTrading, TransferPanda
  <1>2. CASE SetupNext
    <2> PICK u \in User, p \in Panda, w \in Wallet, a \in Address,
             h \in PairsHash, n \in Amount, l \in Amount, c \in DailyCap,
             e \in Expiry :
             SetupAgentWallet(u, p, w, a, h, n, l, c, e)
      BY <1>2 DEF SetupNext
    <2> DEFINE pol == [panda |-> p, owner |-> u, agent |-> a, pairs |-> h,
                       maxNotional |-> n, maxLoss |-> l, maxProofs |-> c,
                       expires |-> e, paused |-> FALSE, revoked |-> FALSE,
                       version |-> 1]
               vlt == [panda |-> p, owner |-> u, policyId |-> w,
                       status |-> "active", balance |-> 0]
    <2>1. pol \in Policy /\ vlt \in Vault
      BY DEF Policy, Vault
    <2>2. policy' = With(policy, w, pol) /\ vault' = With(vault, w, vlt)
      BY DEF SetupAgentWallet
    <2> HIDE DEF pol, vlt
    <2>3. policy' \in [DOMAIN policy' -> Policy]
      BY <2>1, <2>2, WithType DEF TypeOK
    <2>4. vault' \in [DOMAIN vault' -> Vault]
      BY <2>1, <2>2, WithType DEF TypeOK
    <2>5. DOMAIN policy' \subseteq Wallet /\ DOMAIN vault' \subseteq Wallet
      BY <2>2 DEF TypeOK, With
    <2> QED
      BY <2>3, <2>4, <2>5 DEF TypeOK, SetupAgentWallet
  <1>3. CASE PolicyNext
    <2> PICK s \in Address, w \in Wallet :
          \/ \E h \in PairsHash, n, l \in Amount, c \in DailyCap :
                UpdatePolicy(s, w, h, n, l, c)
          \/ \E flag \in BOOLEAN : PausePolicy(s, w, flag)
          \/ RevokeAgent(s, w)
      BY <1>3 DEF PolicyNext
    <2> DEFINE Goal == /\ w \in DOMAIN policy
                       /\ \E pol \in Policy : policy' = [policy EXCEPT ![w] = pol]
                       /\ UNCHANGED <<pandaOwner, isTrading, vault, proofs,
                                      credit, minted, now>>
    <2>1. ASSUME NEW h \in PairsHash, NEW n \in Amount, NEW l \in Amount,
                 NEW c \in DailyCap, UpdatePolicy(s, w, h, n, l, c)
          PROVE  Goal
      <3> DEFINE new == [policy[w] EXCEPT !.pairs = h, !.maxNotional = n,
                           !.maxLoss = l, !.maxProofs = c,
                           !.version = NextVersion(policy[w])]
      <3>1. w \in DOMAIN policy /\ policy' = [policy EXCEPT ![w] = new]
        BY <2>1 DEF UpdatePolicy
      <3>2. policy[w] \in Policy
        BY <3>1 DEF TypeOK
      <3>3. NextVersion(policy[w]) \in Nat \ {0}
        BY <3>2 DEF Policy, NextVersion
      <3>4. n \in Nat /\ l \in Nat /\ c \in Nat
        OBVIOUS
      <3>5. new \in Policy
        BY <3>2, <3>3, <3>4 DEF Policy
      <3> QED
        BY <2>1, <3>1, <3>5 DEF UpdatePolicy
    <2>2. ASSUME NEW flag \in BOOLEAN, PausePolicy(s, w, flag)
          PROVE  Goal
      <3> DEFINE new == [policy[w] EXCEPT !.paused = flag]
      <3>1. w \in DOMAIN policy /\ policy' = [policy EXCEPT ![w] = new]
        BY <2>2 DEF PausePolicy
      <3>2. policy[w] \in Policy
        BY <3>1 DEF TypeOK
      <3>3. new \in Policy
        BY <3>2 DEF Policy
      <3> QED
        BY <2>2, <3>1, <3>3 DEF PausePolicy
    <2>3. ASSUME RevokeAgent(s, w) PROVE Goal
      <3> DEFINE new == [policy[w] EXCEPT !.agent = ZeroAddress,
                           !.revoked = TRUE, !.paused = TRUE]
      <3>1. w \in DOMAIN policy /\ policy' = [policy EXCEPT ![w] = new]
        BY <2>3 DEF RevokeAgent
      <3>2. policy[w] \in Policy
        BY <3>1 DEF TypeOK
      <3>3. new \in Policy
        BY <3>2 DEF Policy
      <3> QED
        BY <2>3, <3>1, <3>3 DEF RevokeAgent
    <2>4. Goal
      BY <2>1, <2>2, <2>3
    <2>5. policy' \in [DOMAIN policy' -> Policy] /\ DOMAIN policy' = DOMAIN policy
      BY <2>4 DEF TypeOK
    <2> QED
      BY <2>4, <2>5 DEF TypeOK
  <1>4. CASE VaultNext
    <2>1. ASSUME NEW s \in Address, NEW amount \in 1..MaxCredit,
                 MintTrainingCredit(s, amount)
          PROVE  TypeOK'
      BY <2>1 DEF TypeOK, MintTrainingCredit
    <2>2. ASSUME NEW s \in Address, NEW w \in Wallet, PauseVault(s, w)
          PROVE  TypeOK'
      BY ZenonT(60), <2>2 DEF TypeOK, PauseVault, Vault
    <2>3. ASSUME NEW s \in Address, NEW w \in Wallet, CloseVault(s, w)
          PROVE  TypeOK'
      BY <2>3 DEF TypeOK, CloseVault, Without
    <2>4. ASSUME NEW s \in Address, NEW w \in Wallet,
                 NEW amount \in 1..MaxCredit, DepositTrainingCredit(s, w, amount)
          PROVE  TypeOK'
      <3>1. /\ w \in DOMAIN vault /\ s \in Address
            /\ vault[w] \in Vault /\ amount \in Nat
            /\ vault[w].balance \in Nat /\ credit[s] \in Nat
            /\ vault[w].balance + amount \in Nat /\ credit[s] - amount \in Nat
        BY <2>4 DEF TypeOK, DepositTrainingCredit, Vault
      <3>2. [vault[w] EXCEPT !.balance = @ + amount] \in Vault
        BY <3>1 DEF Vault
      <3>3. vault' \in [DOMAIN vault' -> Vault] /\ DOMAIN vault' = DOMAIN vault
        BY <2>4, <3>1, <3>2 DEF TypeOK, DepositTrainingCredit
      <3>4. credit' \in [Address -> Nat]
        BY <2>4, <3>1 DEF TypeOK, DepositTrainingCredit
      <3> QED
        BY <2>4, <3>3, <3>4 DEF TypeOK, DepositTrainingCredit
    <2>5. ASSUME NEW s \in Address, NEW w \in Wallet,
                 NEW amount \in 1..MaxCredit, WithdrawTrainingCredit(s, w, amount)
          PROVE  TypeOK'
      <3>1. /\ w \in DOMAIN vault /\ s \in Address
            /\ vault[w] \in Vault /\ amount \in Nat
            /\ vault[w].balance \in Nat /\ credit[s] \in Nat
            /\ vault[w].balance - amount \in Nat /\ credit[s] + amount \in Nat
        BY <2>5 DEF TypeOK, WithdrawTrainingCredit, Covers, Vault
      <3>2. [vault[w] EXCEPT !.balance = @ - amount] \in Vault
        BY <3>1 DEF Vault
      <3>3. vault' \in [DOMAIN vault' -> Vault] /\ DOMAIN vault' = DOMAIN vault
        BY <2>5, <3>1, <3>2 DEF TypeOK, WithdrawTrainingCredit
      <3>4. credit' \in [Address -> Nat]
        BY <2>5, <3>1 DEF TypeOK, WithdrawTrainingCredit
      <3> QED
        BY <2>5, <3>3, <3>4 DEF TypeOK, WithdrawTrainingCredit
    <2> QED
      BY <1>4, <2>1, <2>2, <2>3, <2>4, <2>5 DEF VaultNext
  <1>5. CASE ProofNext
    <2> PICK s \in Address, v \in Wallet, w \in Wallet, h \in PairsHash,
             n \in Amount, l \in Amount, k \in ProofKey, ver \in 1..MaxVersion :
             SubmitChainProof(s, v, w, h, n, l, k, ver)
      BY <1>5 DEF ProofNext
    <2> DEFINE e == [vaultId |-> v, policyId |-> w, panda |-> vault[v].panda,
                     agent |-> s, pair |-> h, notional |-> n, key |-> k,
                     version |-> ver, time |-> now]
    <2>1. e \in ProofRecorded
      BY DEF SubmitChainProof, TypeOK, Vault, ProofRecorded
    <2>2. proofs' \in Seq(ProofRecorded)
      BY <2>1, AppendProof DEF SubmitChainProof, TypeOK
    <2> QED
      BY <2>2 DEF SubmitChainProof, TypeOK
  <1>6. CASE Tick
    BY <1>6 DEF TypeOK, Tick
  <1>7. CASE UNCHANGED vars
    BY <1>7 DEF TypeOK, vars
  <1>8. QED
    BY <1>1, <1>2, <1>3, <1>4, <1>5, <1>6, <1>7 DEF Next

\* Every reachable state of the Move objects is well typed: no balance or
\* credit is ever negative, no entry of the log is malformed.
THEOREM TypeCorrect == Spec => []TypeOK
  <1>1. QED
    BY InitTypeOK, NextTypeOK, PTL DEF Spec

-----------------------------------------------------------------------------
(* What one step may do to a policy, to a vault and to the log.            *)

\* Which of the policies, the vaults and the log each kind of step leaves
\* alone.
LEMMA Frame ==
    /\ PandaNext => UNCHANGED <<policy, vault, proofs>>
    /\ SetupNext => UNCHANGED proofs
    /\ PolicyNext => UNCHANGED <<vault, proofs>>
    /\ VaultNext => UNCHANGED <<policy, proofs>>
    /\ ProofNext => UNCHANGED <<policy, vault>>
    /\ Tick => UNCHANGED <<policy, vault, proofs>>
    /\ UNCHANGED vars => UNCHANGED <<policy, vault, proofs>>
  <1>1. PandaNext => UNCHANGED <<policy, vault, proofs>>
    BY DEF PandaNext, LockTrading, UnlockTrading, TransferPanda
  <1>2. SetupNext => UNCHANGED proofs
    BY DEF SetupNext, SetupAgentWallet
  <1>3. PolicyNext => UNCHANGED <<vault, proofs>>
    <2>1. \A s, w, h, n, l, c : UpdatePolicy(s, w, h, n, l, c)
            => UNCHANGED <<vault, proofs>>
      BY DEF UpdatePolicy
    <2>2. \A s, w, flag : PausePolicy(s, w, flag) => UNCHANGED <<vault, proofs>>
      BY DEF PausePolicy
    <2>3. \A s, w : RevokeAgent(s, w) => UNCHANGED <<vault, proofs>>
      BY DEF RevokeAgent
    <2> QED
      BY <2>1, <2>2, <2>3 DEF PolicyNext
  <1>4. VaultNext => UNCHANGED <<policy, proofs>>
    BY DEF VaultNext, PauseVault, CloseVault, MintTrainingCredit,
           DepositTrainingCredit, WithdrawTrainingCredit
  <1>5. ProofNext => UNCHANGED <<policy, vault>>
    BY DEF ProofNext, SubmitChainProof
  <1>6. Tick => UNCHANGED <<policy, vault, proofs>>
    BY DEF Tick
  <1>7. UNCHANGED vars => UNCHANGED <<policy, vault, proofs>>
    BY DEF vars
  <1> QED
    BY <1>1, <1>2, <1>3, <1>4, <1>5, <1>6, <1>7

\* A policy object survives every step; only its owner's operations change
\* it, and they keep its identity, its revocation and the order of versions.
LEMMA PolicyStep ==
    ASSUME TypeOK, [Next]_vars, NEW w \in DOMAIN policy
    PROVE  /\ w \in DOMAIN policy'
           /\ policy'[w].panda = policy[w].panda
           /\ policy'[w].owner = policy[w].owner
           /\ policy'[w].expires = policy[w].expires
           /\ policy'[w].maxNotional <= policy[w].maxNotional
           /\ policy'[w].maxLoss <= policy[w].maxLoss
           /\ policy'[w].version >= policy[w].version
           /\ policy'[w].version = policy[w].version =>
                 /\ policy'[w].pairs = policy[w].pairs
                 /\ policy'[w].maxNotional = policy[w].maxNotional
                 /\ policy'[w].maxLoss = policy[w].maxLoss
                 /\ policy'[w].maxProofs = policy[w].maxProofs
           /\ policy[w].revoked => policy'[w].revoked
  <1> DEFINE Goal == /\ w \in DOMAIN policy'
                     /\ policy'[w].panda = policy[w].panda
                     /\ policy'[w].owner = policy[w].owner
                     /\ policy'[w].expires = policy[w].expires
                     /\ policy'[w].maxNotional <= policy[w].maxNotional
                     /\ policy'[w].maxLoss <= policy[w].maxLoss
                     /\ policy'[w].version >= policy[w].version
                     /\ policy'[w].version = policy[w].version =>
                           /\ policy'[w].pairs = policy[w].pairs
                           /\ policy'[w].maxNotional = policy[w].maxNotional
                           /\ policy'[w].maxLoss = policy[w].maxLoss
                           /\ policy'[w].maxProofs = policy[w].maxProofs
                     /\ policy[w].revoked => policy'[w].revoked
  <1>1. /\ policy[w] \in Policy
        /\ policy[w].version \in Nat /\ policy[w].maxNotional \in Nat
        /\ policy[w].maxLoss \in Nat
    BY DEF TypeOK, Policy
  <1>2. ASSUME w \in DOMAIN policy', policy'[w] = policy[w] PROVE Goal
    BY <1>1, <1>2
  <1> SUFFICES Goal
    OBVIOUS
  <1> HIDE DEF Goal
  <1>3. CASE policy' = policy
    BY <1>2, <1>3
  <1>4. CASE SetupNext
    <2> PICK u \in User, p \in Panda, x \in Wallet, a \in Address,
             h \in PairsHash, n \in Amount, l \in Amount, c \in DailyCap,
             e \in Expiry : SetupAgentWallet(u, p, x, a, h, n, l, c, e)
      BY <1>4 DEF SetupNext
    <2>1. w # x /\ w \in DOMAIN policy' /\ policy'[w] = policy[w]
      BY DEF SetupAgentWallet, With
    <2> QED
      BY <1>2, <2>1
  <1>5. CASE PolicyNext
    <2>1. ASSUME NEW s \in Address, NEW x \in Wallet, NEW h \in PairsHash,
                 NEW n \in Amount, NEW l \in Amount, NEW c \in DailyCap,
                 UpdatePolicy(s, x, h, n, l, c)
          PROVE  Goal
      <3>1. CASE x # w
        BY <1>2, <2>1, <3>1 DEF UpdatePolicy
      <3>2. CASE x = w
        <4>1. /\ w \in DOMAIN policy'
              /\ policy'[w] = [policy[w] EXCEPT !.pairs = h, !.maxNotional = n,
                                 !.maxLoss = l, !.maxProofs = c,
                                 !.version = policy[w].version + 1]
              /\ n <= policy[w].maxNotional /\ l <= policy[w].maxLoss
          BY <2>1, <3>2 DEF UpdatePolicy, NextVersion, NoLooser
        <4> QED
          BY <1>1, <4>1 DEF Goal, Policy
      <3> QED
        BY <3>1, <3>2
    <2>2. ASSUME NEW s \in Address, NEW x \in Wallet, NEW flag \in BOOLEAN,
                 PausePolicy(s, x, flag)
          PROVE  Goal
      <3>1. CASE x # w
        BY <1>2, <2>2, <3>1 DEF PausePolicy
      <3>2. CASE x = w
        <4>1. /\ w \in DOMAIN policy'
              /\ policy'[w] = [policy[w] EXCEPT !.paused = flag]
          BY <2>2, <3>2 DEF PausePolicy
        <4> QED
          BY <1>1, <4>1 DEF Goal, Policy
      <3> QED
        BY <3>1, <3>2
    <2>3. ASSUME NEW s \in Address, NEW x \in Wallet, RevokeAgent(s, x)
          PROVE  Goal
      <3>1. CASE x # w
        BY <1>2, <2>3, <3>1 DEF RevokeAgent
      <3>2. CASE x = w
        <4>1. /\ w \in DOMAIN policy'
              /\ policy'[w] = [policy[w] EXCEPT !.agent = ZeroAddress,
                                 !.revoked = TRUE, !.paused = TRUE]
          BY <2>3, <3>2 DEF RevokeAgent
        <4> QED
          BY <1>1, <4>1 DEF Goal, Policy
      <3> QED
        BY <3>1, <3>2
    <2> QED
      BY <1>5, <2>1, <2>2, <2>3 DEF PolicyNext
  <1>7. Goal
    BY <1>3, <1>4, <1>5, Frame DEF Next
  <1> QED
    BY <1>7

\* A vault after a step was there before with the same bindings and is not
\* active again once paused, or it was set up by the step with its policy.
LEMMA VaultStep ==
    ASSUME TypeOK, [Next]_vars, NEW w \in DOMAIN vault'
    PROVE  \/ /\ w \in DOMAIN vault
              /\ vault'[w].panda = vault[w].panda
              /\ vault'[w].owner = vault[w].owner
              /\ vault'[w].policyId = vault[w].policyId
              /\ vault[w].status = "paused" => vault'[w].status = "paused"
           \/ /\ w \notin DOMAIN policy /\ w \in DOMAIN policy'
              /\ vault'[w].policyId = w
              /\ vault'[w].panda = policy'[w].panda
              /\ vault'[w].owner = policy'[w].owner
  <1> DEFINE Kept == /\ w \in DOMAIN vault
                     /\ vault'[w].panda = vault[w].panda
                     /\ vault'[w].owner = vault[w].owner
                     /\ vault'[w].policyId = vault[w].policyId
                     /\ vault[w].status = "paused" => vault'[w].status = "paused"
             Made == /\ w \notin DOMAIN policy /\ w \in DOMAIN policy'
                     /\ vault'[w].policyId = w
                     /\ vault'[w].panda = policy'[w].panda
                     /\ vault'[w].owner = policy'[w].owner
  <1> SUFFICES Kept \/ Made
    OBVIOUS
  <1>1. CASE vault' = vault
    BY <1>1
  <1>2. CASE SetupNext
    <2> PICK u \in User, p \in Panda, x \in Wallet, a \in Address,
             h \in PairsHash, n \in Amount, l \in Amount, c \in DailyCap,
             e \in Expiry : SetupAgentWallet(u, p, x, a, h, n, l, c, e)
      BY <1>2 DEF SetupNext
    <2>1. CASE w = x
      <3>1. /\ w \notin DOMAIN policy /\ w \in DOMAIN policy'
            /\ policy'[w].panda = p /\ policy'[w].owner = u
        BY <2>1 DEF SetupAgentWallet, With
      <3>2. vault'[w].panda = p /\ vault'[w].owner = u /\ vault'[w].policyId = w
        BY <2>1 DEF SetupAgentWallet, With
      <3> QED
        BY <3>1, <3>2
    <2>2. CASE w # x
      <3>1. w \in DOMAIN vault /\ vault'[w] = vault[w]
        BY <2>2 DEF SetupAgentWallet, With
      <3> QED
        BY <3>1
    <2> QED
      BY <2>1, <2>2
  <1>3. CASE VaultNext
    <2>1. ASSUME NEW s \in Address, NEW x \in Wallet, PauseVault(s, x)
          PROVE  Kept
      BY <2>1 DEF PauseVault, TypeOK, Vault
    <2>2. ASSUME NEW s \in Address, NEW x \in Wallet, CloseVault(s, x)
          PROVE  Kept
      BY <2>2 DEF CloseVault, Without
    <2>3. ASSUME NEW s \in Address, NEW x \in Wallet,
                 NEW amount \in 1..MaxCredit, DepositTrainingCredit(s, x, amount)
          PROVE  Kept
      BY <2>3 DEF DepositTrainingCredit, TypeOK, Vault
    <2>4. ASSUME NEW s \in Address, NEW x \in Wallet,
                 NEW amount \in 1..MaxCredit, WithdrawTrainingCredit(s, x, amount)
          PROVE  Kept
      BY <2>4 DEF WithdrawTrainingCredit, TypeOK, Vault
    <2>5. ASSUME NEW s \in Address, NEW amount \in 1..MaxCredit,
                 MintTrainingCredit(s, amount)
          PROVE  Kept
      BY <2>5 DEF MintTrainingCredit
    <2> HIDE DEF Kept
    <2>6. Kept
      BY <1>3, <2>1, <2>2, <2>3, <2>4, <2>5 DEF VaultNext
    <2> QED
      BY <2>6 DEF Kept
  <1> HIDE DEF Kept, Made
  <1> QED
    BY <1>1, <1>2, <1>3, Frame DEF Next

\* What the executor has checked of the event it appends.
Checked(e) ==
    /\ e \in ProofRecorded
    /\ e.vaultId \in DOMAIN vault
    /\ e.policyId \in DOMAIN policy
    /\ vault[e.vaultId].policyId = e.policyId
    /\ vault[e.vaultId].status = "active"
    /\ e.panda = policy[e.policyId].panda
    /\ ~policy[e.policyId].revoked
    /\ e.version = policy[e.policyId].version
    /\ e.pair = policy[e.policyId].pairs
    /\ e.notional <= policy[e.policyId].maxNotional
    /\ policy[e.policyId].expires = 0 \/ e.time < policy[e.policyId].expires

\* A step leaves the log alone, or appends one checked event and changes no
\* policy and no vault.
LEMMA LogStep ==
    ASSUME TypeOK, [Next]_vars
    PROVE  \/ proofs' = proofs
           \/ /\ policy' = policy /\ vault' = vault
              /\ \E e : Checked(e) /\ proofs' = Append(proofs, e)
  <1> USE AmountAssumption, BoundAssumption
  <1>1. CASE ProofNext
    <2> PICK s \in Address, v \in Wallet, w \in Wallet, h \in PairsHash,
             n \in Amount, l \in Amount, k \in ProofKey, ver \in 1..MaxVersion :
             SubmitChainProof(s, v, w, h, n, l, k, ver)
      BY <1>1 DEF ProofNext
    <2> DEFINE e == [vaultId |-> v, policyId |-> w, panda |-> vault[v].panda,
                     agent |-> s, pair |-> h, notional |-> n, key |-> k,
                     version |-> ver, time |-> now]
    <2>1. e \in ProofRecorded
      BY DEF SubmitChainProof, TypeOK, Vault, ProofRecorded
    <2>2. Checked(e)
      BY <2>1 DEF SubmitChainProof, AssertBindings, AssertTradeAllowed,
                  AssertAgent, AssertActive, Checked
    <2>3. policy' = policy /\ vault' = vault /\ proofs' = Append(proofs, e)
      BY DEF SubmitChainProof
    <2> QED
      BY <2>2, <2>3
  <1> QED
    BY <1>1, Frame DEF Next

-----------------------------------------------------------------------------
(* The inductive invariant.  TypeOK alone does not say that a policy named *)
(* by an old event still exists, nor that its version never ran behind the *)
(* event's; the safety invariants say so and are inductive together.       *)

IInv ==
    /\ TypeOK
    /\ WalletsStayBound
    /\ VersionPinsCollar
    /\ NoProofAfterExpiry

LEMMA InitIInv == Init => IInv
  <1> SUFFICES ASSUME Init PROVE IInv
    OBVIOUS
  <1>1. TypeOK
    BY InitTypeOK
  <1>2. DOMAIN vault = {} /\ DOMAIN proofs = {}
    BY DEF Init
  <1> QED
    BY <1>1, <1>2
       DEF IInv, WalletsStayBound, VersionPinsCollar, NoProofAfterExpiry

\* An old event is still covered by the policy it names after any step.
LEMMA OldEventStep ==
    ASSUME IInv, [Next]_vars, NEW i \in DOMAIN proofs
    PROVE  LET e == proofs[i] IN
           /\ e.policyId \in DOMAIN policy'
           /\ e.vaultId = e.policyId
           /\ e.panda = policy'[e.policyId].panda
           /\ e.version <= policy'[e.policyId].version
           /\ e.version = policy'[e.policyId].version =>
                 /\ e.notional <= policy'[e.policyId].maxNotional
                 /\ e.pair = policy'[e.policyId].pairs
           /\ \/ policy'[e.policyId].expires = 0
              \/ e.time < policy'[e.policyId].expires
  <1> DEFINE e == proofs[i]
             w == e.policyId
  <1>1. TypeOK /\ w \in DOMAIN policy
    BY DEF IInv, WalletsStayBound
  <1>2. /\ e \in ProofRecorded
        /\ e.version \in Nat /\ policy[w].version \in Nat
        /\ policy[w] \in Policy
    <2>1. e \in ProofRecorded
      BY <1>1 DEF TypeOK
    <2>2. policy[w] \in Policy
      BY <1>1 DEF TypeOK
    <2> HIDE DEF e, w
    <2> QED
      BY <2>1, <2>2 DEF Policy, ProofRecorded
  <1>3. policy'[w].version \in Nat
    <2>1. TypeOK'
      BY <1>1, NextTypeOK
    <2>2. w \in DOMAIN policy'
      BY <1>1, PolicyStep
    <2>3. policy'[w] \in Policy
      BY <2>1, <2>2 DEF TypeOK
    <2> HIDE DEF w
    <2> QED
      BY <2>3 DEF Policy
  <1>4. /\ e.vaultId = w /\ e.panda = policy[w].panda
        /\ e.version <= policy[w].version
        /\ e.version = policy[w].version =>
              /\ e.notional <= policy[w].maxNotional
              /\ e.pair = policy[w].pairs
        /\ policy[w].expires = 0 \/ e.time < policy[w].expires
    BY DEF IInv, WalletsStayBound, VersionPinsCollar, NoProofAfterExpiry
  <1>5. /\ w \in DOMAIN policy'
        /\ policy'[w].panda = policy[w].panda
        /\ policy'[w].expires = policy[w].expires
        /\ policy'[w].version >= policy[w].version
        /\ policy'[w].version = policy[w].version =>
              /\ policy'[w].pairs = policy[w].pairs
              /\ policy'[w].maxNotional = policy[w].maxNotional
    BY <1>1, PolicyStep
  <1> HIDE DEF w
  <1> QED
    BY <1>2, <1>3, <1>4, <1>5 DEF w

LEMMA NextIInv == IInv /\ [Next]_vars => IInv'
  <1> SUFFICES ASSUME IInv, [Next]_vars PROVE IInv'
    OBVIOUS
  <1>1. TypeOK /\ TypeOK'
    BY NextTypeOK DEF IInv
  <1>2. \A w \in DOMAIN vault' :
          /\ vault'[w].policyId = w
          /\ w \in DOMAIN policy'
          /\ vault'[w].panda = policy'[w].panda
          /\ vault'[w].owner = policy'[w].owner
    <2> TAKE w \in DOMAIN vault'
    <2>1. CASE /\ w \in DOMAIN vault
               /\ vault'[w].panda = vault[w].panda
               /\ vault'[w].owner = vault[w].owner
               /\ vault'[w].policyId = vault[w].policyId
      <3>1. /\ w \in DOMAIN policy /\ vault[w].policyId = w
            /\ vault[w].panda = policy[w].panda
            /\ vault[w].owner = policy[w].owner
        BY <2>1 DEF IInv, WalletsStayBound
      <3>2. /\ w \in DOMAIN policy'
            /\ policy'[w].panda = policy[w].panda
            /\ policy'[w].owner = policy[w].owner
        BY <1>1, <3>1, PolicyStep
      <3> QED
        BY <2>1, <3>1, <3>2
    <2> QED
      BY <1>1, <2>1, VaultStep
  <1>3. \A i \in DOMAIN proofs' :
          LET e == proofs'[i] IN
          /\ e.policyId \in DOMAIN policy'
          /\ e.vaultId = e.policyId
          /\ e.panda = policy'[e.policyId].panda
          /\ e.version <= policy'[e.policyId].version
          /\ e.version = policy'[e.policyId].version =>
                /\ e.notional <= policy'[e.policyId].maxNotional
                /\ e.pair = policy'[e.policyId].pairs
          /\ \/ policy'[e.policyId].expires = 0
             \/ e.time < policy'[e.policyId].expires
    <2>1. CASE proofs' = proofs
      BY <2>1, OldEventStep
    <2>2. ASSUME NEW e, Checked(e), proofs' = Append(proofs, e),
                 policy' = policy, vault' = vault,
                 NEW i \in DOMAIN proofs'
          PROVE  LET f == proofs'[i] IN
                 /\ f.policyId \in DOMAIN policy'
                 /\ f.vaultId = f.policyId
                 /\ f.panda = policy'[f.policyId].panda
                 /\ f.version <= policy'[f.policyId].version
                 /\ f.version = policy'[f.policyId].version =>
                       /\ f.notional <= policy'[f.policyId].maxNotional
                       /\ f.pair = policy'[f.policyId].pairs
                 /\ \/ policy'[f.policyId].expires = 0
                    \/ f.time < policy'[f.policyId].expires
      <3>1. /\ proofs \in Seq(ProofRecorded) /\ e \in ProofRecorded
        BY <1>1, <2>2 DEF TypeOK, Checked
      <3>2. i \in DOMAIN proofs \/ proofs'[i] = e
        BY <2>2, <3>1, AppendProof
      <3>3. i \in DOMAIN proofs => proofs'[i] = proofs[i]
        BY <2>2, <3>1, AppendProof
      <3>4. /\ e.vaultId = e.policyId
            /\ e.version \in Nat
        BY <2>2, <3>1 DEF Checked, IInv, WalletsStayBound, ProofRecorded
      <3>5. CASE i \in DOMAIN proofs
        BY <3>3, <3>5, OldEventStep
      <3>6. CASE proofs'[i] = e
        BY <2>2, <3>4, <3>6 DEF Checked
      <3> QED
        BY <3>2, <3>5, <3>6
    <2> QED
      BY <1>1, <2>1, <2>2, LogStep
  <1> QED
    BY <1>1, <1>2, <1>3
       DEF IInv, WalletsStayBound, VersionPinsCollar, NoProofAfterExpiry

LEMMA Inductive == Spec => []IInv
  BY InitIInv, NextIInv, PTL DEF Spec

-----------------------------------------------------------------------------
(* The safety invariants and the action properties.                        *)

\* Whatever vault and policy objects callers combine, every recorded proof
\* belongs to a vault and a policy that were set up together, for one Panda.
THEOREM BindingsHold == Spec => []WalletsStayBound
  <1>1. IInv => WalletsStayBound
    BY DEF IInv
  <1> QED
    BY <1>1, Inductive, PTL

\* The version recorded with a proof pins the limits it was checked against.
THEOREM VersionsPinCollars == Spec => []VersionPinsCollar
  <1>1. IInv => VersionPinsCollar
    BY DEF IInv
  <1> QED
    BY <1>1, Inductive, PTL

\* No proof is ever recorded at or past the expiry of its policy.
THEOREM ExpiryHolds == Spec => []NoProofAfterExpiry
  <1>1. IInv => NoProofAfterExpiry
    BY DEF IInv
  <1> QED
    BY <1>1, Inductive, PTL

\* Every event a step appends has passed the executor's checks before it.
LEMMA NewProofChecked ==
    ASSUME TypeOK, [Next]_vars, NEW e \in NewProofs
    PROVE  Checked(e)
  <1>1. CASE proofs' = proofs
    BY <1>1 DEF NewProofs
  <1>2. ASSUME NEW f, Checked(f), proofs' = Append(proofs, f)
        PROVE  e = f
    <2>1. proofs \in Seq(ProofRecorded) /\ f \in ProofRecorded
      BY <1>2 DEF TypeOK, Checked
    <2>2. DOMAIN proofs' \ DOMAIN proofs = {Len(proofs) + 1}
      BY <1>2, <2>1, AppendProof
    <2>3. proofs'[Len(proofs) + 1] = f
      BY <1>2, <2>1, AppendProof
    <2> QED
      BY <2>2, <2>3 DEF NewProofs
  <1> QED
    BY <1>1, <1>2, LogStep

\* After revoke_agent no proof is ever recorded under the policy again, and
\* nothing its owner does takes the revocation back.
THEOREM RevocationHolds == Spec => RevocationIsFinal
  <1>1. TypeOK /\ [Next]_vars =>
          [\A w \in DOMAIN policy :
             policy[w].revoked =>
               /\ policy'[w].revoked
               /\ \A e \in NewProofs : e.policyId # w]_vars
    BY PolicyStep, NewProofChecked DEF Checked
  <1> QED
    BY <1>1, TypeCorrect, PTL DEF Spec, RevocationIsFinal

\* A paused vault records no further proof and never becomes active again.
THEOREM VaultPauseHolds == Spec => VaultPauseIsFinal
  <1>1. ASSUME IInv, [Next]_vars, NEW w \in DOMAIN vault,
               vault[w].status = "paused"
        PROVE  /\ w \in DOMAIN vault' => vault'[w].status = "paused"
               /\ \A e \in NewProofs : e.vaultId # w
    <2>1. w \in DOMAIN policy /\ TypeOK
      BY <1>1 DEF IInv, WalletsStayBound
    <2>2. w \in DOMAIN vault' => vault'[w].status = "paused"
      BY <1>1, <2>1, VaultStep
    <2>3. \A e \in NewProofs : e.vaultId # w
      BY <1>1, <2>1, NewProofChecked DEF Checked
    <2> QED
      BY <2>2, <2>3
  <1>2. IInv /\ [Next]_vars =>
          [\A w \in DOMAIN vault :
             vault[w].status = "paused" =>
               /\ w \in DOMAIN vault' => vault'[w].status = "paused"
               /\ \A e \in NewProofs : e.vaultId # w]_vars
    BY <1>1
  <1> QED
    BY <1>2, Inductive, PTL DEF Spec, VaultPauseIsFinal

\* No owner operation loosens a cap or keeps the version over a change.
THEOREM CollarHolds == Spec => CollarNeverLoosens
  <1>1. ASSUME TypeOK, [Next]_vars, NEW w \in DOMAIN policy
        PROVE  LET old == policy[w]
                   new == policy'[w]
               IN  /\ w \in DOMAIN policy'
                   /\ new.maxNotional <= old.maxNotional
                   /\ new.maxLoss <= old.maxLoss
                   /\ new.expires = old.expires
                   /\ new.owner = old.owner /\ new.panda = old.panda
                   /\ <<new.pairs, new.maxNotional, new.maxLoss, new.maxProofs>>
                        # <<old.pairs, old.maxNotional, old.maxLoss, old.maxProofs>>
                      => new.version > old.version
    <2>1. policy[w].version \in Nat /\ w \in DOMAIN policy'
      BY <1>1, PolicyStep DEF TypeOK, Policy
    <2>2. policy'[w].version \in Nat
      BY <1>1, <2>1, NextTypeOK DEF TypeOK, Policy
    <2> QED
      BY <1>1, <2>1, <2>2, PolicyStep
  <1>2. TypeOK /\ [Next]_vars =>
          [\A w \in DOMAIN policy :
             LET old == policy[w]
                 new == policy'[w]
             IN  /\ w \in DOMAIN policy'
                 /\ new.maxNotional <= old.maxNotional
                 /\ new.maxLoss <= old.maxLoss
                 /\ new.expires = old.expires
                 /\ new.owner = old.owner /\ new.panda = old.panda
                 /\ <<new.pairs, new.maxNotional, new.maxLoss, new.maxProofs>>
                      # <<old.pairs, old.maxNotional, old.maxLoss, old.maxProofs>>
                    => new.version > old.version]_vars
    BY <1>1
  <1> QED
    BY <1>2, TypeCorrect, PTL DEF Spec, CollarNeverLoosens

=============================================================================
