---------------------------- MODULE PolicyMirror ----------------------------
(***************************************************************************)
(* How the backend's mirror of one Panda's TradingPolicy and PandaVault    *)
(* follows the chain.  The owner signs a transaction, the page then sends  *)
(* its digest and its action to sync_owner_action_from_tx, and the handler *)
(* reads the mirror, awaits the RPC node, and writes the mirror.           *)
(*                                                                         *)
(* Several handlers may be between their read and their write, and the ORM *)
(* updates only the columns whose new value differs from the value read:   *)
(* each open sync keeps the mirror it has seen.  PostgreSQL runs at READ   *)
(* COMMITTED and nothing compares versions at commit.                      *)
(*                                                                         *)
(* One number, cap, stands for the caps of the collar (notional and daily  *)
(* loss).  Left out: columns nothing here reads back (updated_tx_digest,   *)
(* vault.policy_version), the training budget (see TrainingLedger), and    *)
(* the refusal of an unpause whose own transaction also revokes, which no  *)
(* page builds.                                                            *)
(***************************************************************************)
EXTENDS Integers, Sequences, FiniteSetsExt

CONSTANTS
    Handler,   \* API calls that can be inside the sync at once
    Cap,       \* caps the owner may choose when tightening
    InitCap,   \* the cap of the policy at setup
    MaxTx      \* bound on the owner's transactions

ASSUME CapAssumption == Cap \subseteq Nat /\ InitCap \in Nat
ASSUME MaxTxAssumption == MaxTx \in Nat

VARIABLES
    chain,     \* the TradingPolicy object: paused, revoked, cap, version
    ownerTx,   \* the owner's transactions, in the order of the chain
    requests,  \* the transactions whose digest has not been delivered yet
    sync,      \* what each handler has read, or Idle
    mirror     \* the committed trading_policies and panda_vaults rows

VARIABLES      \* history: what the properties say of a run so far
    serial,    \* no sync has begun while another was open
    orderly    \* each transaction was offered by the page, with the sync of
               \* the one before it done

mirrorVars == <<chain, ownerTx, requests, sync, mirror, serial, orderly>>

OwnerAction == {"pause", "unpause", "revoke", "tighten"}

ChainPolicy == [paused : BOOLEAN, revoked : BOOLEAN, cap : Nat, version : Nat]

OwnerTx == [action : OwnerAction, cap : Nat, version : Nat]

Mirror == [paused : BOOLEAN, agent : BOOLEAN, cap : Nat, version : Nat,
           status : {"active", "paused", "revoked"}]

Idle == [tx |-> 0]

Busy(h) == sync[h].tx # 0

MirrorTypeOK ==
    /\ chain \in ChainPolicy
    /\ ownerTx \in Seq(OwnerTx)
    /\ requests \subseteq DOMAIN ownerTx
    /\ \A h \in Handler :
          sync[h] = Idle \/ sync[h] \in [tx : DOMAIN ownerTx, seen : Mirror]
    /\ DOMAIN sync = Handler
    /\ mirror \in Mirror
    /\ serial \in BOOLEAN
    /\ orderly \in BOOLEAN

\* The state sync_setup_from_tx commits: chain and mirror agree.
MirrorInit ==
    /\ chain = [paused |-> FALSE, revoked |-> FALSE, cap |-> InitCap, version |-> 1]
    /\ ownerTx = <<>>
    /\ requests = {}
    /\ sync = [h \in Handler |-> Idle]
    /\ mirror = [paused |-> FALSE, agent |-> TRUE, cap |-> InitCap,
                 version |-> 1, status |-> "active"]
    /\ serial = TRUE
    /\ orderly = TRUE

-----------------------------------------------------------------------------
(* The chain: trading_policy's owner operations, as AgentWallet has them.  *)

RiskStatus ==
    IF mirror.status = "revoked" \/ ~mirror.agent THEN "revoked"
    ELSE IF mirror.paused THEN "paused" ELSE "active"

\* The buttons get_safety_status enables.
Offered(action) ==
    RiskStatus \in [pause   |-> {"active"},
                    unpause |-> {"paused"},
                    revoke  |-> {"active", "paused"},
                    tighten |-> {"active"}][action]

Executed(action, cap) ==
    CASE action = "pause"   -> [chain EXCEPT !.paused = TRUE]
      [] action = "unpause" -> [chain EXCEPT !.paused = FALSE]
      [] action = "revoke"  -> [chain EXCEPT !.paused = TRUE, !.revoked = TRUE]
      [] action = "tighten" -> [chain EXCEPT !.cap = cap, !.version = @ + 1]

AllDelivered == requests = {} /\ \A h \in Handler : ~Busy(h)

Sign(action, cap) ==
    /\ Len(ownerTx) < MaxTx
    /\ action = "tighten" => cap <= chain.cap
    /\ chain' = Executed(action, cap)
    /\ ownerTx' = Append(ownerTx, [action |-> action, cap |-> cap,
                                   version |-> chain'.version])
    /\ requests' = requests \cup {Len(ownerTx) + 1}
    /\ orderly' = (orderly /\ AllDelivered /\ Offered(action))
    /\ UNCHANGED <<sync, mirror, serial>>

-----------------------------------------------------------------------------
(* The backend: sync_owner_action_from_tx.                                 *)

\* The handler selects the two rows, then awaits fetch_owner_action_from_tx.
SyncRead(h, i) ==
    /\ ~Busy(h)
    /\ i \in requests
    /\ requests' = requests \ {i}
    /\ sync' = [sync EXCEPT ![h] = [tx |-> i, seen |-> mirror]]
    /\ serial' = (serial /\ \A g \in Handler : ~Busy(g))
    /\ UNCHANGED <<chain, ownerTx, mirror, orderly>>

\* The RPC node does not answer, or the draft is refused: nothing is written
\* and the owner may send the digest again.
SyncFail(h) ==
    /\ Busy(h)
    /\ requests' = requests \cup {sync[h].tx}
    /\ sync' = [sync EXCEPT ![h] = Idle]
    /\ UNCHANGED <<chain, ownerTx, mirror, serial, orderly>>

NewVersion(m, t) == IF t.version > m.version THEN t.version ELSE m.version

\* MUTANT of Assigned: a revoke pauses the mirror and keeps the agent.
AssignedKeepingAgent(m, t) ==
    CASE t.action \in {"pause", "revoke"} -> [m EXCEPT !.paused = TRUE, !.status = "paused"]
      [] t.action = "unpause" -> [m EXCEPT !.paused = FALSE, !.status = "active"]
      [] t.action = "tighten" -> [m EXCEPT !.cap = t.cap, !.version = NewVersion(m, t),
                                           !.paused = FALSE]

\* MUTANT of Assigned: a tighten takes the version and not the caps.
AssignedWithoutCap(m, t) ==
    CASE t.action = "pause"   -> [m EXCEPT !.paused = TRUE, !.status = "paused"]
      [] t.action = "unpause" -> [m EXCEPT !.paused = FALSE, !.status = "active"]
      [] t.action = "revoke"  -> [m EXCEPT !.paused = TRUE, !.agent = FALSE,
                                           !.status = "revoked"]
      [] t.action = "tighten" -> [m EXCEPT !.version = NewVersion(m, t), !.paused = FALSE]

\* The attributes the handler sets, as a new mirror.
Assigned(m, t) ==
    CASE t.action = "pause"   -> [m EXCEPT !.paused = TRUE, !.status = "paused"]
      [] t.action = "unpause" -> [m EXCEPT !.paused = FALSE, !.status = "active"]
      [] t.action = "revoke"  -> [m EXCEPT !.paused = TRUE, !.agent = FALSE,
                                           !.status = "revoked"]
      [] t.action = "tighten" ->
            [m EXCEPT !.cap = t.cap, !.version = NewVersion(m, t), !.paused = FALSE,
                      !.status = IF @ = "revoked" THEN @ ELSE "active"]

\* The columns the commit updates: those that differ from what was read.
Net(old, new, current) == IF new = old THEN current ELSE new

Flushed(old, new, current) ==
    [paused  |-> Net(old.paused, new.paused, current.paused),
     agent   |-> Net(old.agent, new.agent, current.agent),
     cap     |-> Net(old.cap, new.cap, current.cap),
     version |-> Net(old.version, new.version, current.version),
     status  |-> Net(old.status, new.status, current.status)]

SyncCommit(h) ==
    /\ Busy(h)
    /\ LET seen == sync[h].seen
       IN mirror' = Flushed(seen, Assigned(seen, ownerTx[sync[h].tx]), mirror)
    /\ sync' = [sync EXCEPT ![h] = Idle]
    /\ UNCHANGED <<chain, ownerTx, requests, serial, orderly>>

OwnerSigns == \E action \in OwnerAction, cap \in Cap : Sign(action, cap)

MirrorNext ==
    \/ OwnerSigns
    \/ \E h \in Handler : \/ \E i \in requests : SyncRead(h, i)
                          \/ SyncFail(h)
                          \/ SyncCommit(h)

MirrorSpec == MirrorInit /\ [][MirrorNext]_mirrorVars

-----------------------------------------------------------------------------
(* Properties.                                                             *)

\* PolicyGate.evaluate passes no executable intent: mirror_synced holds from
\* setup on, so what is left is agent_revoked and paused.
GateOpen == mirror.agent /\ ~mirror.paused

\* Once every revocation has been delivered, in whatever order and however
\* interleaved with pauses and unpauses, the gate is shut: no stale read of
\* another handler puts the agent back (agent_wallet.py:463, policy_gate.py:68).
RevokeShutsGate == AllDelivered /\ chain.revoked => ~GateOpen

\* Whenever nothing is outstanding: syncs delivered one at a time, in any
\* order, have left the mirror at the version of the chain (the comparison at
\* agent_wallet.py:530), so that an intent stamped later is not stale; and an
\* owner who acts from one page, which awaits each sync, sees a mirror that
\* agrees with the chain, in both rows.
MirrorAgrees ==
    AllDelivered =>
        /\ serial => mirror.version = chain.version
        /\ orderly => /\ mirror.paused = chain.paused
                      /\ mirror.agent = ~chain.revoked
                      /\ mirror.cap = chain.cap
                      /\ mirror.version = chain.version
                      /\ mirror.status = "active" <=> ~chain.paused

\* docs/user-journey.md:185 of the owner's pause: "Backend policy mirror
\* updates; future Mode 1 and Mode 2 actions are blocked".
PauseShutsGate == AllDelivered /\ chain.paused => ~GateOpen

=============================================================================
