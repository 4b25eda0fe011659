---------------------- MODULE ChainProofPipelineProofs ----------------------
(***************************************************************************)
(* What PolicyMirror and ChainProofPipeline, which is built on it, promise *)
(* for any handlers, caps, facts, sessions, attempts, crashes and owner    *)
(* transactions.  Part one, about the mirror under MirrorSpec: a delivered *)
(* revocation shuts the gate however the syncs interleave, and the mirror  *)
(* follows the chain.  Part two, about the pipeline: the rows agree with   *)
(* one another and with the chain, and a key is proved once.               *)
(***************************************************************************)
EXTENDS ChainProofPipeline, TLAPS

-----------------------------------------------------------------------------
(* The operators, one case of their CASE at a time.                        *)

\* What the chain holds after an owner operation is a policy again, and only
\* a revocation sets its revoked flag.
LEMMA ExecutedType ==
    ASSUME chain \in ChainPolicy, NEW action \in OwnerAction, NEW cap \in Nat
    PROVE  /\ Executed(action, cap) \in ChainPolicy
           /\ Executed(action, cap).revoked = (chain.revoked \/ action = "revoke")
  <1> DEFINE Goal == /\ Executed(action, cap) \in ChainPolicy
                     /\ Executed(action, cap).revoked = (chain.revoked \/ action = "revoke")
  <1> SUFFICES Goal
    OBVIOUS
  <1>1. ASSUME action = "pause" PROVE Goal
    <2>1. Executed(action, cap) = [chain EXCEPT !.paused = TRUE]
      BY <1>1 DEF Executed
    <2>2. QED
      BY <1>1, <2>1 DEF ChainPolicy
  <1>2. ASSUME action = "unpause" PROVE Goal
    <2>1. Executed(action, cap) = [chain EXCEPT !.paused = FALSE]
      BY <1>2 DEF Executed
    <2>2. QED
      BY <1>2, <2>1 DEF ChainPolicy
  <1>3. ASSUME action = "revoke" PROVE Goal
    <2>1. Executed(action, cap) = [chain EXCEPT !.paused = TRUE, !.revoked = TRUE]
      BY <1>3 DEF Executed
    <2>2. QED
      BY <1>3, <2>1 DEF ChainPolicy
  <1>4. ASSUME action = "tighten" PROVE Goal
    <2>1. Executed(action, cap) = [chain EXCEPT !.cap = cap, !.version = @ + 1]
      BY <1>4 DEF Executed
    <2>2. chain.version + 1 \in Nat /\ chain.revoked \in BOOLEAN
      BY DEF ChainPolicy
    <2>3. Executed(action, cap) \in ChainPolicy
      BY <2>1, <2>2 DEF ChainPolicy
    <2>4. Executed(action, cap).revoked = chain.revoked
      BY <2>1 DEF ChainPolicy
    <2>5. QED
      BY <1>4, <2>2, <2>3, <2>4
  <1>5. QED
    BY <1>1, <1>2, <1>3, <1>4 DEF OwnerAction

\* What a handler assigns is a mirror again, whatever it has read, and its
\* agent is gone after a revocation or if it was gone before.
LEMMA AssignedType ==
    ASSUME NEW m \in Mirror, NEW t \in OwnerTx
    PROVE  /\ Assigned(m, t) \in Mirror
           /\ Assigned(m, t).agent = (m.agent /\ t.action # "revoke")
  <1> DEFINE Goal == /\ Assigned(m, t) \in Mirror
                     /\ Assigned(m, t).agent = (m.agent /\ t.action # "revoke")
  <1> SUFFICES Goal
    OBVIOUS
  <1>1. ASSUME t.action = "pause" PROVE Goal
    <2>1. Assigned(m, t) = [m EXCEPT !.paused = TRUE, !.status = "paused"]
      BY <1>1 DEF Assigned
    <2>2. QED
      BY <1>1, <2>1 DEF Mirror
  <1>2. ASSUME t.action = "unpause" PROVE Goal
    <2>1. Assigned(m, t) = [m EXCEPT !.paused = FALSE, !.status = "active"]
      BY <1>2 DEF Assigned
    <2>2. QED
      BY <1>2, <2>1 DEF Mirror
  <1>3. ASSUME t.action = "revoke" PROVE Goal
    <2>1. Assigned(m, t) = [m EXCEPT !.paused = TRUE, !.agent = FALSE,
                                     !.status = "revoked"]
      BY <1>3 DEF Assigned
    <2>2. QED
      BY <1>3, <2>1 DEF Mirror
  <1>4. ASSUME t.action = "tighten" PROVE Goal
    <2>1. NewVersion(m, t) \in Nat
      BY DEF NewVersion, Mirror, OwnerTx
    <2>2. Assigned(m, t) = [m EXCEPT !.cap = t.cap, !.version = NewVersion(m, t),
                                     !.paused = FALSE,
                                     !.status = IF @ = "revoked" THEN @ ELSE "active"]
      BY <1>4 DEF Assigned
    <2>3. QED
      BY <1>4, <2>1, <2>2 DEF Mirror, OwnerTx
  <1>5. QED
    BY <1>1, <1>2, <1>3, <1>4 DEF OwnerTx, OwnerAction

\* A flush takes each column from one of two mirrors.
LEMMA FlushedType ==
    ASSUME NEW old \in Mirror, NEW new \in Mirror, NEW current \in Mirror
    PROVE  /\ Flushed(old, new, current) \in Mirror
           /\ Flushed(old, new, current).agent = Net(old.agent, new.agent, current.agent)
    BY DEF Flushed, Net, Mirror

-----------------------------------------------------------------------------
(* Type correctness.                                                       *)

LEMMA InitMirrorTypeOK == MirrorInit => MirrorTypeOK
  <1> SUFFICES ASSUME MirrorInit PROVE MirrorTypeOK
    OBVIOUS
  <1>1. chain \in ChainPolicy
    BY CapAssumption DEF MirrorInit, ChainPolicy
  <1>2. mirror \in Mirror
    BY CapAssumption DEF MirrorInit, Mirror
  <1>3. ownerTx \in Seq(OwnerTx) /\ requests \subseteq DOMAIN ownerTx
    BY DEF MirrorInit
  <1>4. DOMAIN sync = Handler /\ \A h \in Handler : sync[h] = Idle
    BY DEF MirrorInit
  <1>5. serial \in BOOLEAN /\ orderly \in BOOLEAN
    BY DEF MirrorInit
  <1>6. QED
    BY <1>1, <1>2, <1>3, <1>4, <1>5 DEF MirrorTypeOK

\* The transaction an open sync is about, and what it has read.
LEMMA OpenSync ==
    ASSUME MirrorTypeOK, NEW h \in Handler, Busy(h)
    PROVE  /\ sync[h] \in [tx : DOMAIN ownerTx, seen : Mirror]
           /\ sync[h].tx \in DOMAIN ownerTx
           /\ sync[h].seen \in Mirror
           /\ ownerTx[sync[h].tx] \in OwnerTx
  <1>1. sync[h] # Idle
    BY DEF Busy, Idle
  <1>2. sync[h] \in [tx : DOMAIN ownerTx, seen : Mirror]
    BY <1>1 DEF MirrorTypeOK
  <1>3. sync[h].tx \in DOMAIN ownerTx /\ sync[h].seen \in Mirror
    BY <1>2
  <1>4. ownerTx[sync[h].tx] \in OwnerTx
    BY <1>3 DEF MirrorTypeOK
  <1>5. QED
    BY <1>2, <1>3, <1>4

\* A signed transaction: the history grows by one entry at its end.
LEMMA SignAppends ==
    ASSUME MirrorTypeOK, NEW action \in OwnerAction, NEW cap \in Cap, Sign(action, cap)
    PROVE  /\ chain' \in ChainPolicy
           /\ ownerTx' \in Seq(OwnerTx)
           /\ DOMAIN ownerTx' = DOMAIN ownerTx \cup {Len(ownerTx) + 1}
           /\ Len(ownerTx) + 1 \notin DOMAIN ownerTx
           /\ \A i \in DOMAIN ownerTx : ownerTx'[i] = ownerTx[i]
           /\ ownerTx'[Len(ownerTx) + 1].action = action
  <1> DEFINE tx == [action |-> action, cap |-> cap, version |-> chain'.version]
  <1>1. chain' \in ChainPolicy
    BY ExecutedType, CapAssumption DEF Sign, MirrorTypeOK
  <1>2. tx \in OwnerTx /\ tx.action = action
    BY <1>1, CapAssumption DEF OwnerTx, ChainPolicy
  <1>3. ownerTx' = Append(ownerTx, tx)
    BY DEF Sign
  <1> HIDE DEF tx
  <1>4. QED
    BY <1>1, <1>2, <1>3 DEF MirrorTypeOK

LEMMA NextMirrorTypeOK == MirrorTypeOK /\ [MirrorNext]_mirrorVars => MirrorTypeOK'
  <1> SUFFICES ASSUME MirrorTypeOK, [MirrorNext]_mirrorVars PROVE MirrorTypeOK'
    OBVIOUS
  <1>1. ASSUME NEW action \in OwnerAction, NEW cap \in Cap, Sign(action, cap)
        PROVE  MirrorTypeOK'
    <2>1. /\ chain' \in ChainPolicy
          /\ ownerTx' \in Seq(OwnerTx)
          /\ DOMAIN ownerTx' = DOMAIN ownerTx \cup {Len(ownerTx) + 1}
      BY <1>1, SignAppends
    <2>2. requests' \subseteq DOMAIN ownerTx'
      BY <1>1, <2>1 DEF Sign, MirrorTypeOK
    <2>3. sync' = sync /\ mirror' = mirror
      BY <1>1 DEF Sign
    <2>4. \A h \in Handler :
             sync[h] = Idle \/ sync[h] \in [tx : DOMAIN ownerTx', seen : Mirror]
      BY <2>1 DEF MirrorTypeOK
    <2>5. orderly' \in BOOLEAN
      BY <1>1 DEF Sign
    <2>6. serial' \in BOOLEAN
      BY <1>1 DEF Sign, MirrorTypeOK
    <2>7. QED
      BY <2>1, <2>2, <2>3, <2>4, <2>5, <2>6 DEF MirrorTypeOK
  <1>2. ASSUME NEW h \in Handler, NEW i \in requests, SyncRead(h, i)
        PROVE  MirrorTypeOK'
    <2>1. [tx |-> i, seen |-> mirror] \in [tx : DOMAIN ownerTx, seen : Mirror]
      BY <1>2 DEF MirrorTypeOK
    <2>2. serial' \in BOOLEAN
      BY <1>2 DEF SyncRead
    <2>3. /\ requests' \subseteq DOMAIN ownerTx
          /\ UNCHANGED <<chain, ownerTx, mirror, orderly>>
          /\ sync' = [sync EXCEPT ![h] = [tx |-> i, seen |-> mirror]]
      BY <1>2 DEF SyncRead, MirrorTypeOK
    <2>4. QED
      BY <2>1, <2>2, <2>3 DEF MirrorTypeOK
  <1>3. ASSUME NEW h \in Handler, SyncFail(h)
        PROVE  MirrorTypeOK'
    <2>1. sync[h].tx \in DOMAIN ownerTx
      BY <1>3, OpenSync DEF SyncFail
    <2>2. QED
      BY <1>3, <2>1 DEF SyncFail, MirrorTypeOK
  <1>4. ASSUME NEW h \in Handler, SyncCommit(h)
        PROVE  MirrorTypeOK'
    <2>1. sync[h].seen \in Mirror /\ ownerTx[sync[h].tx] \in OwnerTx
      BY <1>4, OpenSync DEF SyncCommit
    <2>2. Assigned(sync[h].seen, ownerTx[sync[h].tx]) \in Mirror
      BY <2>1, AssignedType
    <2>3. mirror' \in Mirror
      BY <1>4, <2>1, <2>2, FlushedType DEF SyncCommit, MirrorTypeOK
    <2>4. QED
      BY <1>4, <2>3 DEF SyncCommit, MirrorTypeOK
  <1>5. CASE UNCHANGED mirrorVars
    BY <1>5 DEF mirrorVars, MirrorTypeOK
  <1>6. QED
    BY <1>1, <1>2, <1>3, <1>4, <1>5 DEF MirrorNext, OwnerSigns

\* Mirror, chain and open syncs stay well typed: a sync never writes a risk
\* status the vault column does not have, and each open sync is about a
\* transaction that happened.
THEOREM MirrorTypeCorrect == MirrorSpec => []MirrorTypeOK
  <1>1. QED
    BY InitMirrorTypeOK, NextMirrorTypeOK, PTL DEF MirrorSpec

-----------------------------------------------------------------------------
(* A delivered revocation.                                                 *)

\* The revocations of the history that some step still has to write.
Underway(i) == i \in requests \/ \E h \in Handler : sync[h].tx = i

\* The invariant behind RevokeShutsGate: a revoked policy has a revocation in
\* its history; each of them is underway or has cleared the agent; and a
\* handler that has read the agent as gone read what still holds, so that its
\* flush, which then leaves the column alone, brings nothing back.
RevocationTold ==
    /\ chain.revoked => \E i \in DOMAIN ownerTx : ownerTx[i].action = "revoke"
    /\ \A i \in DOMAIN ownerTx :
          ownerTx[i].action = "revoke" => Underway(i) \/ ~mirror.agent
    /\ \A h \in Handler : Busy(h) /\ ~sync[h].seen.agent => ~mirror.agent

LEMMA InitRevocationTold == MirrorInit => RevocationTold
    BY DEF MirrorInit, RevocationTold, Busy, Idle

\* A commit keeps the agent, or clears it; a revocation's commit clears it.
LEMMA CommitAgent ==
    ASSUME MirrorTypeOK, RevocationTold, NEW h \in Handler, SyncCommit(h)
    PROVE  /\ mirror'.agent => mirror.agent
           /\ ownerTx[sync[h].tx].action = "revoke" => ~mirror'.agent
  <1> DEFINE seen == sync[h].seen
             t    == ownerTx[sync[h].tx]
             new  == Assigned(seen, t)
  <1>1. Busy(h) /\ mirror' = Flushed(seen, new, mirror)
    BY DEF SyncCommit
  <1>2. seen \in Mirror /\ t \in OwnerTx /\ mirror \in Mirror
    BY <1>1, OpenSync DEF MirrorTypeOK
  <1>3. ~seen.agent => ~mirror.agent
    BY <1>1 DEF RevocationTold
  <1> HIDE DEF seen, t
  <1>4. new \in Mirror /\ new.agent = (seen.agent /\ t.action # "revoke")
    BY <1>2, AssignedType
  <1> HIDE DEF new
  <1>5. mirror'.agent = Net(seen.agent, new.agent, mirror.agent)
    BY <1>1, <1>2, <1>4, FlushedType
  <1>6. seen.agent \in BOOLEAN /\ mirror.agent \in BOOLEAN
    BY <1>2 DEF Mirror
  <1>7. /\ mirror'.agent => mirror.agent
        /\ t.action = "revoke" => ~mirror'.agent
    BY <1>3, <1>4, <1>5, <1>6 DEF Net
  <1>8. QED
    BY <1>7 DEF t

LEMMA NextRevocationTold ==
    MirrorTypeOK /\ RevocationTold /\ [MirrorNext]_mirrorVars => RevocationTold'
  <1> SUFFICES ASSUME MirrorTypeOK, RevocationTold, [MirrorNext]_mirrorVars
               PROVE  RevocationTold'
    OBVIOUS
  <1>1. ASSUME NEW action \in OwnerAction, NEW cap \in Cap, Sign(action, cap)
        PROVE  RevocationTold'
    <2>1. /\ DOMAIN ownerTx' = DOMAIN ownerTx \cup {Len(ownerTx) + 1}
          /\ \A i \in DOMAIN ownerTx : ownerTx'[i] = ownerTx[i]
          /\ ownerTx'[Len(ownerTx) + 1].action = action
      BY <1>1, SignAppends
    <2>2. /\ requests' = requests \cup {Len(ownerTx) + 1}
          /\ sync' = sync /\ mirror' = mirror
      BY <1>1 DEF Sign
    <2>3. chain'.revoked = (chain.revoked \/ action = "revoke")
      BY <1>1, ExecutedType, CapAssumption DEF Sign, MirrorTypeOK
    <2>4. chain'.revoked => \E i \in DOMAIN ownerTx' : ownerTx'[i].action = "revoke"
      BY <2>1, <2>3 DEF RevocationTold
    <2>5. \A i \in DOMAIN ownerTx' :
             ownerTx'[i].action = "revoke" => Underway(i)' \/ ~mirror'.agent
      BY <2>1, <2>2 DEF RevocationTold, Underway
    <2>6. \A h \in Handler : Busy(h)' /\ ~sync'[h].seen.agent => ~mirror'.agent
      BY <2>2 DEF RevocationTold, Busy
    <2>7. QED
      BY <2>4, <2>5, <2>6 DEF RevocationTold
  <1>2. ASSUME NEW h \in Handler, NEW i \in requests, SyncRead(h, i)
        PROVE  RevocationTold'
    <2>1. /\ requests' = requests \ {i}
          /\ sync' = [sync EXCEPT ![h] = [tx |-> i, seen |-> mirror]]
          /\ ~Busy(h) /\ UNCHANGED <<chain, ownerTx, mirror>>
      BY <1>2 DEF SyncRead
    <2>2. /\ sync'[h].tx = i /\ sync'[h].seen = mirror
          /\ \A g \in Handler \ {h} : sync'[g] = sync[g]
      BY <2>1 DEF MirrorTypeOK
    <2>3. ASSUME NEW j \in DOMAIN ownerTx, Underway(j)
          PROVE  Underway(j)'
      <3>1. CASE j \in requests
        BY <3>1, <2>1, <2>2 DEF Underway
      <3>2. ASSUME NEW g \in Handler, sync[g].tx = j
            PROVE  Underway(j)'
        <4>1. j # 0
          BY DEF MirrorTypeOK
        <4>2. g # h
          BY <2>1, <3>2, <4>1 DEF Busy
        <4>3. QED
          BY <2>2, <3>2, <4>2 DEF Underway
      <3>3. QED
        BY <2>3, <3>1, <3>2 DEF Underway
    <2>4. \A g \in Handler : Busy(g)' /\ ~sync'[g].seen.agent => ~mirror'.agent
      BY <2>1, <2>2 DEF RevocationTold, Busy
    <2>5. QED
      BY <2>1, <2>3, <2>4 DEF RevocationTold
  <1>3. ASSUME NEW h \in Handler, SyncFail(h)
        PROVE  RevocationTold'
    <2>1. /\ requests' = requests \cup {sync[h].tx}
          /\ sync' = [sync EXCEPT ![h] = Idle]
          /\ UNCHANGED <<chain, ownerTx, mirror>>
      BY <1>3 DEF SyncFail
    <2>2. /\ sync'[h].tx = 0
          /\ \A g \in Handler \ {h} : sync'[g] = sync[g]
      BY <2>1 DEF MirrorTypeOK, Idle
    <2>3. \A j \in DOMAIN ownerTx : Underway(j) => Underway(j)'
      BY <2>1, <2>2 DEF Underway
    <2>4. \A g \in Handler : Busy(g)' /\ ~sync'[g].seen.agent => ~mirror'.agent
      BY <2>1, <2>2 DEF RevocationTold, Busy
    <2>5. QED
      BY <2>1, <2>3, <2>4 DEF RevocationTold
  <1>4. ASSUME NEW h \in Handler, SyncCommit(h)
        PROVE  RevocationTold'
    <2>1. /\ sync' = [sync EXCEPT ![h] = Idle]
          /\ UNCHANGED <<chain, ownerTx, requests>>
      BY <1>4 DEF SyncCommit
    <2>2. /\ sync'[h].tx = 0
          /\ \A g \in Handler \ {h} : sync'[g] = sync[g]
      BY <2>1 DEF MirrorTypeOK, Idle
    <2>3. /\ mirror'.agent => mirror.agent
          /\ ownerTx[sync[h].tx].action = "revoke" => ~mirror'.agent
      BY <1>4, CommitAgent
    <2>4. \A j \in DOMAIN ownerTx :
             ownerTx[j].action = "revoke" => Underway(j)' \/ ~mirror'.agent
      BY <2>1, <2>2, <2>3 DEF RevocationTold, Underway
    <2>5. \A g \in Handler : Busy(g)' /\ ~sync'[g].seen.agent => ~mirror'.agent
      BY <2>2, <2>3 DEF RevocationTold, Busy
    <2>6. QED
      BY <2>1, <2>4, <2>5 DEF RevocationTold
  <1>5. CASE UNCHANGED mirrorVars
    BY <1>5 DEF mirrorVars, RevocationTold, Underway, Busy
  <1>6. QED
    BY <1>1, <1>2, <1>3, <1>4, <1>5 DEF MirrorNext, OwnerSigns

\* Once every owner transaction has been delivered, a revoked policy leaves
\* no gate open, whatever was read before whatever else was written: the
\* syncs of sync_owner_action_from_tx need no lock for a revocation to hold.
THEOREM RevocationShutsGate == MirrorSpec => []RevokeShutsGate
  <1>1. MirrorTypeOK /\ RevocationTold => RevokeShutsGate
    <2> SUFFICES ASSUME MirrorTypeOK, RevocationTold, AllDelivered, chain.revoked
                 PROVE  ~GateOpen
      BY DEF RevokeShutsGate
    <2>1. PICK i \in DOMAIN ownerTx : ownerTx[i].action = "revoke"
      BY DEF RevocationTold
    <2>2. i # 0
      BY DEF MirrorTypeOK
    <2>3. ~Underway(i)
      BY <2>2 DEF AllDelivered, Underway, Busy
    <2>4. QED
      BY <2>1, <2>3 DEF RevocationTold, GateOpen
  <1>2. MirrorSpec => []RevocationTold
    BY MirrorTypeCorrect, InitRevocationTold, NextRevocationTold, PTL DEF MirrorSpec
  <1>3. QED
    BY MirrorTypeCorrect, <1>1, <1>2, PTL

-----------------------------------------------------------------------------
(* The mirror follows the chain.                                           *)

\* What a step leaves of the open syncs.
LEMMA SyncMoves ==
    ASSUME MirrorTypeOK, NEW h \in Handler, NEW r, sync' = [sync EXCEPT ![h] = r]
    PROVE  sync'[h] = r /\ \A g \in Handler : g # h => sync'[g] = sync[g]
  BY DEF MirrorTypeOK

LEMMA IdleMoves ==
    ASSUME MirrorTypeOK, NEW h \in Handler, sync' = [sync EXCEPT ![h] = Idle]
    PROVE  sync'[h].tx = 0 /\ \A g \in Handler : g # h => sync'[g] = sync[g]
  BY DEF MirrorTypeOK, Idle

\* The transactions of the history are well-formed.
LEMMA TxTyped ==
    ASSUME MirrorTypeOK
    PROVE  \A i \in DOMAIN ownerTx :
              i # 0 /\ ownerTx[i] \in OwnerTx /\ ownerTx[i].version \in Nat
  <1>1. \A i \in DOMAIN ownerTx : i # 0 /\ ownerTx[i] \in OwnerTx
    BY DEF MirrorTypeOK
  <1> QED
    BY <1>1 DEF OwnerTx

\* A handler that has read what still holds writes just what it assigns.
LEMMA FreshFlush ==
    ASSUME NEW m \in Mirror, NEW new \in Mirror
    PROVE  Flushed(m, new, m) = new
  BY DEF Flushed, Net, Mirror

\* Only a tighten moves a version, on the chain by one, in the mirror up to
\* the transaction's.
LEMMA VersionsMove ==
    ASSUME NEW m \in Mirror, NEW t \in OwnerTx
    PROVE  /\ t.action # "tighten" => Assigned(m, t).version = m.version
           /\ t.action = "tighten" => Assigned(m, t).version = NewVersion(m, t)
  <1>1. CASE t.action = "pause"
    <2>1. Assigned(m, t) = [m EXCEPT !.paused = TRUE, !.status = "paused"]
      BY <1>1 DEF Assigned
    <2> QED
      BY <1>1, <2>1 DEF Mirror
  <1>2. CASE t.action = "unpause"
    <2>1. Assigned(m, t) = [m EXCEPT !.paused = FALSE, !.status = "active"]
      BY <1>2 DEF Assigned
    <2> QED
      BY <1>2, <2>1 DEF Mirror
  <1>3. CASE t.action = "revoke"
    <2>1. Assigned(m, t) = [m EXCEPT !.paused = TRUE, !.agent = FALSE, !.status = "revoked"]
      BY <1>3 DEF Assigned
    <2> QED
      BY <1>3, <2>1 DEF Mirror
  <1>4. CASE t.action = "tighten"
    <2>1. Assigned(m, t) = [m EXCEPT !.cap = t.cap, !.version = NewVersion(m, t),
                                     !.paused = FALSE,
                                     !.status = IF @ = "revoked" THEN @ ELSE "active"]
      BY <1>4 DEF Assigned
    <2> QED
      BY <1>4, <2>1 DEF Mirror
  <1> QED
    BY <1>1, <1>2, <1>3, <1>4 DEF OwnerTx, OwnerAction

LEMMA ChainVersionMoves ==
    ASSUME chain \in ChainPolicy, NEW action \in OwnerAction, NEW cap \in Nat
    PROVE  Executed(action, cap).version =
               IF action = "tighten" THEN chain.version + 1 ELSE chain.version
  <1>1. CASE action = "pause"
    <2>1. Executed(action, cap) = [chain EXCEPT !.paused = TRUE]
      BY <1>1 DEF Executed
    <2> QED
      BY <1>1, <2>1 DEF ChainPolicy
  <1>2. CASE action = "unpause"
    <2>1. Executed(action, cap) = [chain EXCEPT !.paused = FALSE]
      BY <1>2 DEF Executed
    <2> QED
      BY <1>2, <2>1 DEF ChainPolicy
  <1>3. CASE action = "revoke"
    <2>1. Executed(action, cap) = [chain EXCEPT !.paused = TRUE, !.revoked = TRUE]
      BY <1>3 DEF Executed
    <2> QED
      BY <1>3, <2>1 DEF ChainPolicy
  <1>4. CASE action = "tighten"
    <2>1. Executed(action, cap) = [chain EXCEPT !.cap = cap, !.version = @ + 1]
      BY <1>4 DEF Executed
    <2> QED
      BY <1>4, <2>1 DEF ChainPolicy
  <1> QED
    BY <1>1, <1>2, <1>3, <1>4 DEF OwnerAction

\* Syncs delivered one at a time read what still holds; the mirror is behind
\* the chain only while the tighten that put the chain ahead is underway, and
\* never behind a tighten that is not.
FreshReads ==
    /\ \A g, h \in Handler : Busy(g) /\ Busy(h) => g = h
    /\ \A h \in Handler : Busy(h) => sync[h].seen = mirror

VersionTold ==
    /\ mirror.version <= chain.version
    /\ \/ mirror.version = chain.version
       \/ \E i \in DOMAIN ownerTx :
             ownerTx[i].action = "tighten" /\ ownerTx[i].version = chain.version
    /\ \A i \in DOMAIN ownerTx :
          /\ ownerTx[i].version <= chain.version
          /\ ownerTx[i].action = "tighten" /\ ~Underway(i) =>
                 ownerTx[i].version <= mirror.version

SerialTold == serial => FreshReads /\ VersionTold

LEMMA InitSerialTold == MirrorInit => SerialTold
  BY DEF MirrorInit, SerialTold, FreshReads, VersionTold, Busy, Idle

\* What the steps of the backend do to the transactions underway.
LEMMA UnderwayMoves ==
    ASSUME MirrorTypeOK, NEW h \in Handler
    PROVE  /\ \A i \in requests : SyncRead(h, i) =>
                 \A j \in DOMAIN ownerTx : Underway(j)' <=> Underway(j)
           /\ SyncFail(h) => \A j \in DOMAIN ownerTx : Underway(j)' <=> Underway(j)
           /\ SyncCommit(h) =>
                 \A j \in DOMAIN ownerTx : Underway(j) => Underway(j)' \/ j = sync[h].tx
  <1>0. \A j \in DOMAIN ownerTx : j # 0
    BY DEF MirrorTypeOK
  <1>1. ASSUME NEW i \in requests, SyncRead(h, i), NEW j \in DOMAIN ownerTx
        PROVE  Underway(j)' <=> Underway(j)
    <2>1. requests' = requests \ {i} /\ sync[h].tx = 0
      BY <1>1 DEF SyncRead, Busy
    <2>2. sync'[h].tx = i /\ \A g \in Handler : g # h => sync'[g] = sync[g]
      BY <1>1 DEF SyncRead, MirrorTypeOK
    <2> QED
      BY <1>0, <2>1, <2>2 DEF Underway
  <1>2. ASSUME SyncFail(h), NEW j \in DOMAIN ownerTx
        PROVE  Underway(j)' <=> Underway(j)
    <2>1. requests' = requests \cup {sync[h].tx}
      BY <1>2 DEF SyncFail
    <2>2. sync'[h].tx = 0 /\ \A g \in Handler : g # h => sync'[g] = sync[g]
      BY <1>2, IdleMoves DEF SyncFail
    <2> QED
      BY <1>0, <2>1, <2>2 DEF Underway
  <1>3. ASSUME SyncCommit(h), NEW j \in DOMAIN ownerTx, Underway(j), j # sync[h].tx
        PROVE  Underway(j)'
    <2>1. requests' = requests
      BY <1>3 DEF SyncCommit
    <2>2. \A g \in Handler : g # h => sync'[g] = sync[g]
      BY <1>3, SyncMoves DEF SyncCommit
    <2> QED
      BY <1>3, <2>1, <2>2 DEF Underway
  <1> QED
    BY <1>1, <1>2, <1>3

\* A handler that read what still holds commits what it assigns.
LEMMA FreshCommit ==
    ASSUME MirrorTypeOK, FreshReads, NEW h \in Handler, SyncCommit(h)
    PROVE  /\ mirror' = Assigned(mirror, ownerTx[sync[h].tx])
           /\ mirror \in Mirror /\ mirror' \in Mirror
           /\ sync[h].tx \in DOMAIN ownerTx /\ ownerTx[sync[h].tx] \in OwnerTx
           /\ \A g \in Handler : ~Busy(g)'
  <1>1. Busy(h) /\ sync[h].seen = mirror
    BY DEF SyncCommit, FreshReads
  <1>2. /\ sync[h].tx \in DOMAIN ownerTx /\ ownerTx[sync[h].tx] \in OwnerTx
        /\ mirror \in Mirror
    BY <1>1, OpenSync DEF MirrorTypeOK
  <1>3. Assigned(mirror, ownerTx[sync[h].tx]) \in Mirror
    BY <1>2, AssignedType
  <1>4. mirror' = Assigned(mirror, ownerTx[sync[h].tx])
    BY <1>1, <1>2, <1>3, FreshFlush DEF SyncCommit
  <1>5. sync'[h].tx = 0 /\ \A g \in Handler : g # h => sync'[g] = sync[g]
    BY IdleMoves DEF SyncCommit
  <1>6. \A g \in Handler : ~Busy(g)'
    BY <1>1, <1>5 DEF FreshReads, Busy
  <1> QED
    BY <1>2, <1>3, <1>4, <1>6

\* One handler begins while none is open, or its call fails.
LEMMA FreshKept ==
    ASSUME MirrorTypeOK, FreshReads, NEW h \in Handler,
           \/ \E i \in requests : SyncRead(h, i) /\ \A g \in Handler : ~Busy(g)
           \/ SyncFail(h)
    PROVE  FreshReads'
  <1>1. ASSUME NEW i \in requests, SyncRead(h, i), \A g \in Handler : ~Busy(g)
        PROVE  FreshReads'
    <2>1. /\ sync'[h] = [tx |-> i, seen |-> mirror] /\ mirror' = mirror
          /\ \A g \in Handler : g # h => sync'[g] = sync[g]
      BY <1>1, SyncMoves DEF SyncRead
    <2> QED
      BY <1>1, <2>1 DEF FreshReads, Busy
  <1>2. ASSUME SyncFail(h) PROVE FreshReads'
    <2>1. /\ sync'[h].tx = 0 /\ mirror' = mirror
          /\ \A g \in Handler : g # h => sync'[g] = sync[g]
      BY <1>2, IdleMoves DEF SyncFail
    <2> QED
      BY <2>1 DEF FreshReads, Busy
  <1> QED
    BY <1>1, <1>2

LEMMA NextSerialTold ==
    MirrorTypeOK /\ SerialTold /\ [MirrorNext]_mirrorVars => SerialTold'
  <1> SUFFICES ASSUME MirrorTypeOK, SerialTold, [MirrorNext]_mirrorVars, serial'
               PROVE  FreshReads' /\ VersionTold'
    BY DEF SerialTold
  <1>0. serial /\ FreshReads /\ VersionTold
    BY DEF SerialTold, MirrorNext, OwnerSigns, Sign, SyncRead, SyncFail, SyncCommit, mirrorVars
  <1> USE <1>0
  <1>1. ASSUME NEW action \in OwnerAction, NEW cap \in Cap, Sign(action, cap)
        PROVE  FreshReads' /\ VersionTold'
    <2> DEFINE last == Len(ownerTx) + 1
    <2>1. /\ DOMAIN ownerTx' = DOMAIN ownerTx \cup {last} /\ last \notin DOMAIN ownerTx
          /\ \A i \in DOMAIN ownerTx : ownerTx'[i] = ownerTx[i]
          /\ ownerTx'[last].action = action
      BY <1>1, SignAppends
    <2>2. ownerTx'[last].version = chain'.version
      BY <1>1 DEF Sign, MirrorTypeOK
    <2>3. /\ requests' = requests \cup {last} /\ UNCHANGED <<sync, mirror>>
      BY <1>1 DEF Sign
    <2>4. chain.version \in Nat /\ mirror.version \in Nat
      BY DEF MirrorTypeOK, ChainPolicy, Mirror
    <2>5. chain'.version = IF action = "tighten" THEN chain.version + 1 ELSE chain.version
      BY <1>1, ChainVersionMoves, CapAssumption DEF Sign, MirrorTypeOK
    <2>6. FreshReads'
      BY <2>3 DEF FreshReads, Busy
    <2>7. mirror'.version <= chain'.version
      BY <2>3, <2>4, <2>5 DEF VersionTold
    <2>8. \/ mirror'.version = chain'.version
          \/ \E i \in DOMAIN ownerTx' :
                ownerTx'[i].action = "tighten" /\ ownerTx'[i].version = chain'.version
      BY <2>1, <2>2, <2>3, <2>5 DEF VersionTold
    <2>9. ASSUME NEW i \in DOMAIN ownerTx'
          PROVE  /\ ownerTx'[i].version <= chain'.version
                 /\ ownerTx'[i].action = "tighten" /\ ~Underway(i)' =>
                        ownerTx'[i].version <= mirror'.version
      <3>1. CASE i = last
        <4>1. Underway(i)'
          BY <2>3, <3>1 DEF Underway
        <4> QED
          BY <2>2, <2>4, <2>5, <3>1, <4>1
      <3>2. CASE i \in DOMAIN ownerTx
        <4>1. Underway(i) => Underway(i)'
          BY <2>3 DEF Underway
        <4>2. ownerTx[i].version \in Nat /\ ownerTx'[i] = ownerTx[i]
          BY <2>1, <3>2, TxTyped
        <4> QED
          BY <2>3, <2>4, <2>5, <3>2, <4>1, <4>2 DEF VersionTold
      <3> QED
        BY <2>1, <3>1, <3>2
    <2> QED
      BY <2>6, <2>7, <2>8, <2>9 DEF VersionTold
  <1>2. ASSUME NEW h \in Handler, NEW i \in requests, SyncRead(h, i)
        PROVE  FreshReads' /\ VersionTold'
    <2>1. FreshReads'
      BY <1>2, FreshKept DEF SyncRead
    <2> QED
      BY <1>2, <2>1, UnderwayMoves DEF SyncRead, VersionTold
  <1>3. ASSUME NEW h \in Handler, SyncFail(h)  PROVE FreshReads' /\ VersionTold'
    <2>1. FreshReads'
      BY <1>3, FreshKept
    <2> QED
      BY <1>3, <2>1, UnderwayMoves DEF SyncFail, VersionTold
  <1>4. ASSUME NEW h \in Handler, SyncCommit(h)  PROVE FreshReads' /\ VersionTold'
    <2> DEFINE k == sync[h].tx
    <2>1. /\ mirror' = Assigned(mirror, ownerTx[k]) /\ mirror \in Mirror
          /\ k \in DOMAIN ownerTx /\ ownerTx[k] \in OwnerTx
          /\ \A g \in Handler : ~Busy(g)'
      BY <1>4, FreshCommit
    <2>2. FreshReads'
      BY <2>1 DEF FreshReads
    <2>3. UNCHANGED <<chain, ownerTx>>
      BY <1>4 DEF SyncCommit
    <2>4. /\ mirror.version \in Nat /\ chain.version \in Nat
          /\ \A i \in DOMAIN ownerTx : ownerTx[i].version \in Nat
      BY <2>1, TxTyped DEF MirrorTypeOK, ChainPolicy, Mirror
    <2>5. mirror'.version = IF /\ ownerTx[k].action = "tighten"
                               /\ ownerTx[k].version > mirror.version
                            THEN ownerTx[k].version ELSE mirror.version
      BY <2>1, VersionsMove DEF NewVersion
    <2>6. mirror.version <= mirror'.version /\ mirror'.version <= chain.version
      BY <2>1, <2>4, <2>5 DEF VersionTold
    <2>7. \A i \in DOMAIN ownerTx :
             ownerTx[i].action = "tighten" /\ ~Underway(i)' =>
                 ownerTx[i].version <= mirror'.version
      BY <1>4, <2>1, <2>4, <2>5, <2>6, UnderwayMoves DEF VersionTold
    <2>8. mirror.version = chain.version => mirror'.version = chain.version
      BY <2>1, <2>4, <2>5, <2>6
    <2> QED
      BY <2>2, <2>3, <2>6, <2>7, <2>8 DEF VersionTold
  <1>5. CASE UNCHANGED mirrorVars
    BY <1>5 DEF mirrorVars, FreshReads, VersionTold, Underway, Busy
  <1>6. QED
    BY <1>1, <1>2, <1>3, <1>4, <1>5 DEF MirrorNext, OwnerSigns

-----------------------------------------------------------------------------
(* An owner who acts from one page.                                        *)

\* What MirrorAgrees asks of a mirror m and a chain c.
Follows(m, c) ==
    /\ m.paused = c.paused
    /\ m.agent = ~c.revoked
    /\ m.cap = c.cap
    /\ m.version = c.version
    /\ m.status = "active" <=> ~c.paused

\* One transaction at a time is underway, and its sync, written on the mirror
\* as it is, will make it follow the chain; with none underway it does.
OneAtATime ==
    /\ \A i, j \in DOMAIN ownerTx : Underway(i) /\ Underway(j) => i = j
    /\ \A h \in Handler : Busy(h) => requests = {}
    /\ FreshReads
    /\ AllDelivered => Follows(mirror, chain)
    /\ \A i \in DOMAIN ownerTx : Underway(i) => Follows(Assigned(mirror, ownerTx[i]), chain)

OrderlyTold == orderly => OneAtATime

LEMMA InitOrderlyTold == MirrorInit => OrderlyTold
  <1> SUFFICES ASSUME MirrorInit PROVE OneAtATime
    BY DEF OrderlyTold
  <1>1. DOMAIN ownerTx = {} /\ \A h \in Handler : ~Busy(h)
    BY DEF MirrorInit, Busy, Idle
  <1>2. Follows(mirror, chain)
    BY DEF MirrorInit, Follows
  <1> QED
    BY <1>1, <1>2 DEF OneAtATime, FreshReads

\* A risk status opens the buttons of its own actions only.
LEMMA OfferedWhen ==
    ASSUME NEW action \in OwnerAction, Offered(action)
    PROVE  /\ action \in {"pause", "tighten"} => RiskStatus = "active"
           /\ action = "unpause" => RiskStatus = "paused"
  BY DEF Offered, OwnerAction

\* An offered action moves the chain and, once synced, a mirror that followed
\* it, to the same place.
LEMMA OfferedFollows ==
    ASSUME MirrorTypeOK, Follows(mirror, chain),
           NEW action \in OwnerAction, Offered(action), NEW cap \in Nat, NEW t \in OwnerTx,
           t = [action |-> action, cap |-> cap, version |-> Executed(action, cap).version]
    PROVE  Follows(Assigned(mirror, t), Executed(action, cap))
  <1>0. mirror \in Mirror /\ chain \in ChainPolicy
    BY DEF MirrorTypeOK
  <1>1. CASE action = "pause"
    <2>1. /\ Executed(action, cap) = [chain EXCEPT !.paused = TRUE]
          /\ Assigned(mirror, t) = [mirror EXCEPT !.paused = TRUE, !.status = "paused"]
      BY <1>1 DEF Executed, Assigned
    <2> QED
      BY <1>0, <2>1 DEF Follows, Mirror, ChainPolicy
  <1>2. CASE action = "unpause"
    <2>1. /\ Executed(action, cap) = [chain EXCEPT !.paused = FALSE]
          /\ Assigned(mirror, t) = [mirror EXCEPT !.paused = FALSE, !.status = "active"]
      BY <1>2 DEF Executed, Assigned
    <2> QED
      BY ZenonT(60), <1>0, <2>1 DEF Follows, Mirror, ChainPolicy
  <1>3. CASE action = "revoke"
    <2>1. /\ Executed(action, cap) = [chain EXCEPT !.paused = TRUE, !.revoked = TRUE]
          /\ Assigned(mirror, t) = [mirror EXCEPT !.paused = TRUE, !.agent = FALSE,
                                                  !.status = "revoked"]
      BY <1>3 DEF Executed, Assigned
    <2> QED
      BY <1>0, <2>1 DEF Follows, Mirror, ChainPolicy
  <1>4. CASE action = "tighten"
    <2>1. mirror.status # "revoked" /\ ~mirror.paused
      BY <1>4, OfferedWhen DEF RiskStatus
    <2>2. /\ Executed(action, cap) = [chain EXCEPT !.cap = cap, !.version = @ + 1]
          /\ Assigned(mirror, t) =
                [mirror EXCEPT !.cap = t.cap, !.version = NewVersion(mirror, t),
                               !.paused = FALSE,
                               !.status = IF @ = "revoked" THEN @ ELSE "active"]
      BY <1>4 DEF Executed, Assigned
    <2>3. t.version = chain.version + 1 /\ t.cap = cap
      BY <1>0, <2>2 DEF ChainPolicy
    <2>4. mirror.version = chain.version /\ chain.version \in Nat
      BY <1>0 DEF Follows, ChainPolicy
    <2>5. NewVersion(mirror, t) = chain.version + 1
      BY <2>3, <2>4 DEF NewVersion
    <2>6. /\ Assigned(mirror, t).cap = cap
          /\ Assigned(mirror, t).version = chain.version + 1
          /\ Assigned(mirror, t).paused = FALSE
          /\ Assigned(mirror, t).status = "active"
          /\ Assigned(mirror, t).agent = mirror.agent
      BY <1>0, <2>1, <2>2, <2>3, <2>5 DEF Mirror
    <2>7. /\ Executed(action, cap).cap = cap
          /\ Executed(action, cap).version = chain.version + 1
          /\ Executed(action, cap).paused = chain.paused
          /\ Executed(action, cap).revoked = chain.revoked
      BY <1>0, <2>2 DEF ChainPolicy
    <2>8. chain.paused = FALSE
      BY <1>0, <2>1 DEF Follows, Mirror
    <2> QED
      BY <2>6, <2>7, <2>8 DEF Follows
  <1> QED
    BY <1>1, <1>2, <1>3, <1>4 DEF OwnerAction

LEMMA NextOrderlyTold ==
    MirrorTypeOK /\ OrderlyTold /\ [MirrorNext]_mirrorVars => OrderlyTold'
  <1> SUFFICES ASSUME MirrorTypeOK, OrderlyTold, [MirrorNext]_mirrorVars, orderly'
               PROVE  OneAtATime'
    BY DEF OrderlyTold
  <1>0. orderly /\ OneAtATime
    BY DEF OrderlyTold, MirrorNext, OwnerSigns, Sign, SyncRead, SyncFail, SyncCommit, mirrorVars
  <1> USE <1>0
  <1>00. FreshReads /\ \A i \in DOMAIN ownerTx : i # 0
    BY DEF OneAtATime, MirrorTypeOK
  <1>1. ASSUME NEW action \in OwnerAction, NEW cap \in Cap, Sign(action, cap)
        PROVE  OneAtATime'
    <2> DEFINE last == Len(ownerTx) + 1
               tx   == [action |-> action, cap |-> cap, version |-> chain'.version]
    <2>1. /\ DOMAIN ownerTx' = DOMAIN ownerTx \cup {last} /\ last \notin DOMAIN ownerTx
          /\ \A i \in DOMAIN ownerTx : ownerTx'[i] = ownerTx[i]
          /\ chain' \in ChainPolicy
      BY <1>1, SignAppends
    <2>2. ownerTx'[last] = tx /\ chain' = Executed(action, cap)
      BY <1>1 DEF Sign, MirrorTypeOK
    <2>3. /\ requests' = requests \cup {last} /\ UNCHANGED <<sync, mirror>>
          /\ AllDelivered /\ Offered(action)
      BY <1>1 DEF Sign
    <2>4. tx \in OwnerTx /\ cap \in Nat
      BY <2>1, CapAssumption DEF OwnerTx, ChainPolicy
    <2>5. \A i \in DOMAIN ownerTx' : Underway(i)' => i = last
      BY <1>00, <2>1, <2>3 DEF AllDelivered, Underway, Busy
    <2>6. Follows(Assigned(mirror, tx), chain')
      BY <2>2, <2>3, <2>4, OfferedFollows DEF OneAtATime
    <2>7. ~AllDelivered' /\ FreshReads'
      BY <1>00, <2>3 DEF AllDelivered, FreshReads, Busy
    <2>8. \A g \in Handler : ~Busy(g)'
      BY <2>3 DEF AllDelivered, Busy
    <2>9. \A i \in DOMAIN ownerTx' :
             Underway(i)' => Follows(Assigned(mirror', ownerTx'[i]), chain')
      BY <2>2, <2>3, <2>5, <2>6
    <2> QED
      BY <2>5, <2>7, <2>8, <2>9 DEF OneAtATime
  <1>2. ASSUME NEW h \in Handler, NEW i \in requests, SyncRead(h, i)
        PROVE  OneAtATime'
    <2>1. /\ UNCHANGED <<chain, ownerTx, mirror>> /\ i \in DOMAIN ownerTx /\ Underway(i)
      BY <1>2 DEF SyncRead, MirrorTypeOK, Underway
    <2>2. \A g \in Handler : ~Busy(g)
      BY DEF OneAtATime
    <2>3. FreshReads'
      BY <1>00, <1>2, <2>2, FreshKept
    <2>4. ~AllDelivered'
      BY <1>00, <1>2, <2>1 DEF SyncRead, AllDelivered, Busy, MirrorTypeOK
    <2>5. requests' = {}
      BY <1>2, <2>1 DEF SyncRead, MirrorTypeOK, OneAtATime, Underway
    <2> QED
      BY <1>2, <2>1, <2>3, <2>4, <2>5, UnderwayMoves DEF OneAtATime
  <1>3. ASSUME NEW h \in Handler, SyncFail(h)  PROVE OneAtATime'
    <2>1. FreshReads'
      BY <1>00, <1>3, FreshKept
    <2>2. ~AllDelivered' /\ UNCHANGED <<chain, ownerTx, mirror>>
      BY <1>3 DEF SyncFail, AllDelivered
    <2>3. \A g \in Handler : ~Busy(g)'
      BY ZenonT(60), <1>00, <1>3, IdleMoves DEF SyncFail, FreshReads, Busy
    <2> QED
      BY <1>3, <2>1, <2>2, <2>3, UnderwayMoves DEF OneAtATime
  <1>4. ASSUME NEW h \in Handler, SyncCommit(h)  PROVE OneAtATime'
    <2> DEFINE k == sync[h].tx
    <2>1. /\ mirror' = Assigned(mirror, ownerTx[k])
          /\ k \in DOMAIN ownerTx
          /\ \A g \in Handler : ~Busy(g)'
      BY <1>00, <1>4, FreshCommit
    <2>2. Underway(k) /\ UNCHANGED <<chain, ownerTx, requests>>
      BY <1>4 DEF SyncCommit, Underway
    <2>3. Follows(mirror', chain)
      BY <2>1, <2>2 DEF OneAtATime
    <2>4. \A i \in DOMAIN ownerTx : ~Underway(i)'
      BY <1>00, <1>4, <2>1, <2>2 DEF SyncCommit, OneAtATime, Underway, Busy
    <2> QED
      BY <2>1, <2>2, <2>3, <2>4 DEF OneAtATime, FreshReads
  <1>5. CASE UNCHANGED mirrorVars
    BY <1>5 DEF mirrorVars, OneAtATime, FreshReads, Follows, Underway, AllDelivered, Busy
  <1>6. QED
    BY <1>1, <1>2, <1>3, <1>4, <1>5 DEF MirrorNext, OwnerSigns

\* Whenever nothing is outstanding: syncs one at a time have left the mirror
\* at the chain's version, in whatever order the digests came, and an owner
\* who acts from one page sees a mirror that agrees with the chain.
THEOREM MirrorFollowsChain == MirrorSpec => []MirrorAgrees
  <1>1. MirrorTypeOK /\ SerialTold /\ OrderlyTold => MirrorAgrees
    <2> SUFFICES ASSUME MirrorTypeOK, SerialTold, OrderlyTold, AllDelivered
                 PROVE  /\ serial => mirror.version = chain.version
                        /\ orderly => Follows(mirror, chain)
      BY DEF MirrorAgrees, Follows
    <2>1. ASSUME serial PROVE mirror.version = chain.version
      <3>1. \A i \in DOMAIN ownerTx : ~Underway(i)
        BY DEF AllDelivered, Underway, Busy, MirrorTypeOK
      <3>2. mirror.version \in Nat /\ chain.version \in Nat
        BY DEF MirrorTypeOK, Mirror, ChainPolicy
      <3> QED
        BY <2>1, <3>1, <3>2 DEF SerialTold, VersionTold
    <2> QED
      BY <2>1 DEF OrderlyTold, OneAtATime
  <1>2. MirrorSpec => []SerialTold
    BY MirrorTypeCorrect, InitSerialTold, NextSerialTold, PTL DEF MirrorSpec
  <1>3. MirrorSpec => []OrderlyTold
    BY MirrorTypeCorrect, InitOrderlyTold, NextOrderlyTold, PTL DEF MirrorSpec
  <1>4. QED
    BY MirrorTypeCorrect, <1>1, <1>2, <1>3, PTL

-----------------------------------------------------------------------------
(* Part two: the pipeline.                                                 *)

USE DEF rows, cancels, history, proofVars, allVars

-----------------------------------------------------------------------------
(* The sessions.                                                           *)

\* The places at which a session holds the lock of its job.
Held == {"claimed", "valid", "sent", "refused"}

\* A session that works on a fact knows it; its attempts are within the bound;
\* it has selected each job once and works on none that it has yet to do.
GoodSessions ==
    {r \in Sessions :
        /\ r.at \in Held \cup {"checked"} => r.f \in Fact
        /\ r.at \in Held => r.attempts \in 0..MaxAttempts
        /\ r.at \in Held => \A b \in r.batch : b[1] # r.f
        /\ r.batch \subseteq Fact \X (0..(MaxAttempts - 1))
        /\ \A b, c \in r.batch : b[1] = c[1] => b = c}

\* A session without a job in its hands: where Release leaves one.
Freed(batch) == IF batch = {} THEN Start ELSE [Start EXCEPT !.at = "polled", !.batch = batch]

LEMMA StartGood ==
    /\ Start \in GoodSessions
    /\ Start.at = "idle" /\ Start.batch = {}
  BY DEF Start, GoodSessions, Sessions, Held

LEMMA FreedGood ==
    ASSUME NEW batch \in SUBSET (Fact \X (0..(MaxAttempts - 1))),
           \A b, c \in batch : b[1] = c[1] => b = c
    PROVE  /\ Freed(batch) \in GoodSessions
           /\ Freed(batch).at \in {"idle", "polled"}
           /\ Freed(batch).batch = batch
<1>1. batch \in SUBSET (Fact \X Nat)
  BY PipelineAssumption
<1> QED
  BY <1>1, StartGood DEF Freed, Start, GoodSessions, Sessions, Held

LEMMA GotoGood ==
    ASSUME NEW r \in GoodSessions, NEW place \in Held, r.at \in Held
    PROVE  [r EXCEPT !.at = place] \in GoodSessions
  BY DEF GoodSessions, Sessions, Held

\* What a session's own step makes of the sessions.
LEMMA SessionMoves ==
    ASSUME session \in [Session -> GoodSessions], NEW s \in Session,
           NEW r \in GoodSessions, session' = [session EXCEPT ![s] = r]
    PROVE  /\ session' \in [Session -> GoodSessions]
           /\ session'[s] = r
           /\ \A t \in Session : t # s => session'[t] = session[t]
  OBVIOUS

-----------------------------------------------------------------------------
(* Types.                                                                  *)

ProofTyped ==
    /\ ProofTypeOK
    /\ session \in [Session -> GoodSessions]

LEMMA AfterErrorTyped ==
    ASSUME NEW n \in 0..MaxAttempts
    PROVE  /\ AfterError(n) \in Job
           /\ AfterError(n) # NoJob
           /\ AfterError(n).status \in {"failed", "pending"}
<1> USE PipelineAssumption
<1>1. CASE n >= MaxAttempts
  BY <1>1 DEF AfterError, Job, JobStatus, NoJob
<1>2. CASE ~(n >= MaxAttempts)
  <2>1. n \in 0..(MaxAttempts - 1)
    BY <1>2
  <2> QED
    BY <1>2, <2>1 DEF AfterError, Job, JobStatus, NoJob
<1> QED
  BY <1>1, <1>2

\* The record each step of a session leaves behind.
LEMMA ReleaseMoves ==
    ASSUME ProofTyped, NEW s \in Session, Release(s)
    PROVE  /\ Freed(session[s].batch) \in GoodSessions
           /\ Freed(session[s].batch).at \in {"idle", "polled"}
           /\ Freed(session[s].batch).batch = session[s].batch
           /\ session' = [session EXCEPT ![s] = Freed(session[s].batch)]
<1>1. session[s] \in GoodSessions
  BY DEF ProofTyped
<1>2. session[s].batch \in SUBSET (Fact \X (0..(MaxAttempts - 1)))
      /\ \A b, c \in session[s].batch : b[1] = c[1] => b = c
  BY <1>1 DEF GoodSessions
<1>3. session' = [session EXCEPT ![s] = Freed(session[s].batch)]
  BY DEF ProofTyped, Release, Freed
<1> QED
  BY <1>2, <1>3, FreedGood

LEMMA GotoMoves ==
    ASSUME ProofTyped, NEW s \in Session, NEW place \in Held,
           session[s].at \in Held, Goto(s, place)
    PROVE  /\ [session[s] EXCEPT !.at = place] \in GoodSessions
           /\ session' = [session EXCEPT ![s] = [session[s] EXCEPT !.at = place]]
<1>1. session[s] \in GoodSessions
  BY DEF ProofTyped
<1> QED
  BY <1>1, GotoGood DEF ProofTyped, Goto

LEMMA PollMoves ==
    ASSUME ProofTyped, NEW s \in Session, Poll(s)
    PROVE  \E batch \in SUBSET (Fact \X (0..(MaxAttempts - 1))) :
              /\ batch = {<<f, job[f].attempts>> : f \in Pending}
              /\ Freed(batch) \in GoodSessions
              /\ Freed(batch).at \in {"idle", "polled"}
              /\ Freed(batch).batch = batch
              /\ session' = [session EXCEPT ![s] = Freed(batch)]
<1> DEFINE batch == {<<f, job[f].attempts>> : f \in Pending}
<1>1. \A f \in Pending : f \in Fact /\ job[f].attempts \in 0..(MaxAttempts - 1)
  <2> SUFFICES ASSUME NEW f \in Fact, job[f].status = "pending"
               PROVE  job[f].attempts \in 0..(MaxAttempts - 1)
    BY DEF Pending
  <2>1. job[f] \in Job
    BY DEF ProofTyped, ProofTypeOK
  <2> QED
    BY <2>1 DEF Job, NoJob, JobStatus
<1>2. batch \in SUBSET (Fact \X (0..(MaxAttempts - 1)))
  BY <1>1
<1>3. \A b, c \in batch : b[1] = c[1] => b = c
  OBVIOUS
<1>4. session' = [session EXCEPT ![s] = Freed(batch)]
  <2>1. CASE Pending = {}
    BY <2>1 DEF Poll, Freed
  <2>2. CASE Pending # {}
    <3>1. batch # {}
      BY <2>2
    <3>2. session' = [session EXCEPT ![s] = [Start EXCEPT !.at = "polled", !.batch = batch]]
      BY <2>2 DEF Poll
    <3> HIDE DEF batch
    <3> QED
      BY <3>1, <3>2 DEF Freed
  <2> QED
    BY <2>1, <2>2
<1> QED
  BY <1>2, <1>3, <1>4, FreedGood

LEMMA ClaimMoves ==
    ASSUME ProofTyped, NEW s \in Session, NEW b \in session[s].batch, Claim(s, b)
    PROVE  \E r \in GoodSessions :
              /\ r.at = "claimed" /\ r.f = b[1] /\ r.batch \subseteq session[s].batch
              /\ session' = [session EXCEPT ![s] = r]
<1> DEFINE r == [at |-> "claimed", batch |-> session[s].batch \ {b},
                 f |-> b[1], attempts |-> b[2] + 1, seen |-> session[s].seen]
<1>1. session[s] \in GoodSessions
  BY DEF ProofTyped
<1>2. b[1] \in Fact /\ b[2] \in 0..(MaxAttempts - 1)
  BY <1>1 DEF GoodSessions
<1>3. b[2] + 1 \in Nat /\ b[2] + 1 \in 0..MaxAttempts
  BY <1>2, PipelineAssumption
<1>4. r \in Sessions
  BY <1>1, <1>2, <1>3 DEF GoodSessions, Sessions
<1>5. \A c \in session[s].batch \ {b} : c[1] # b[1]
  BY <1>1 DEF GoodSessions
<1>6. r \in GoodSessions
  BY <1>1, <1>2, <1>3, <1>4, <1>5 DEF GoodSessions
<1>7. session' = [session EXCEPT ![s] = r]
  BY DEF Claim, ProofTyped
<1> QED
  BY <1>6, <1>7

\* The steps, each by its name.
LEMMA ProofSteps ==
    ASSUME [ProofNext]_allVars
    PROVE  \/ UNCHANGED allVars
           \/ \E s \in Session :
                 \/ \E f \in Fact : CheckRequest(s, f)
                 \/ Enqueue(s) \/ EnqueueFails(s) \/ Poll(s)
                 \/ \E b \in session[s].batch : Claim(s, b)
                 \/ Validate(s) \/ ValidateFails(s) \/ Submit(s) \/ SubmitFails(s)
                 \/ Confirm(s) \/ RecordFailure(s) \/ Crash(s)
           \/ \E h \in Handler : CancelSelect(h) \/ OwnerSync(h) \/ OwnerSyncFails(h)
           \/ UNCHANGED proofVars
           \/ CooldownEnds \/ DayEnds
  BY DEF ProofNext, Work, Owner

LEMMA ProofTypeInit == ProofInit => ProofTyped
<1> SUFFICES ASSUME ProofInit PROVE ProofTyped
  OBVIOUS
<1> USE PipelineAssumption
<1>1. session \in [Session -> GoodSessions]
  BY StartGood DEF ProofInit
<1>2. session \in [Session -> Sessions]
  BY <1>1 DEF GoodSessions
<1>3. job \in [Fact -> Job]
  BY DEF ProofInit, Job
<1>4. events \in [Fact -> Nat] /\ doomed \in [Handler -> SUBSET Fact]
  BY DEF ProofInit
<1>5. /\ fact \in [Fact -> {"none", "requested", "confirmed", "failed"}]
      /\ log \in [Fact -> {"none", "confirmed", "failed"}]
  BY DEF ProofInit
<1>6. today = {} /\ recent = {} /\ cancelling = {} /\ tangled = {} /\ crashes \in 0..MaxCrashes
  BY DEF ProofInit
<1> QED
  BY <1>1, <1>2, <1>3, <1>4, <1>5, <1>6 DEF ProofTyped, ProofTypeOK

\* The types of all but the sessions.
RowsTyped ==
    /\ fact \in [Fact -> {"none", "requested", "confirmed", "failed"}]
    /\ job \in [Fact -> Job]
    /\ log \in [Fact -> {"none", "confirmed", "failed"}]
    /\ today \subseteq Fact /\ recent \subseteq Fact
    /\ events \in [Fact -> Nat]
    /\ cancelling \subseteq Handler
    /\ doomed \in [Handler -> SUBSET Fact]
    /\ crashes \in 0..MaxCrashes
    /\ tangled \subseteq Fact

LEMMA TypedParts == ProofTyped <=> RowsTyped /\ session \in [Session -> GoodSessions]
  BY DEF ProofTyped, ProofTypeOK, RowsTyped, GoodSessions

\* What a session that holds a job knows of it.
LEMMA HeldKnows ==
    ASSUME ProofTyped, NEW s \in Session, session[s].at \in Held \cup {"checked"}
    PROVE  /\ session[s].f \in Fact
           /\ session[s].at \in Held => session[s].attempts \in 0..MaxAttempts
           /\ session[s].seen \in {"none", "requested", "confirmed", "failed"}
<1>1. session[s] \in GoodSessions
  BY DEF ProofTyped
<1> QED
  BY <1>1 DEF GoodSessions, Sessions

LEMMA SessionTypeStep ==
    ASSUME ProofTyped, [ProofNext]_allVars
    PROVE  session' \in [Session -> GoodSessions]
<1>0. session \in [Session -> GoodSessions]
  BY DEF ProofTyped
<1>1. CASE UNCHANGED session
  BY <1>0, <1>1
<1>2. ASSUME NEW s \in Session, NEW f \in Fact, CheckRequest(s, f)
      PROVE  session' \in [Session -> GoodSessions]
  <2> DEFINE r == [session[s] EXCEPT !.at = "checked", !.f = f]
  <2>1. r \in GoodSessions
    <3>1. session[s] \in GoodSessions
      BY <1>0
    <3>2. r \in Sessions
      BY <3>1 DEF GoodSessions, Sessions
    <3>3. r.at = "checked" /\ r.f = f /\ r.batch = session[s].batch
      BY <3>1 DEF GoodSessions, Sessions
    <3> HIDE DEF r
    <3> QED
      BY <3>1, <3>2, <3>3 DEF GoodSessions, Held
  <2>2. session' = [session EXCEPT ![s] = r]
    BY <1>2, <1>0 DEF CheckRequest
  <2> HIDE DEF r
  <2> QED
    BY <1>0, <2>1, <2>2, SessionMoves
<1>3. ASSUME NEW s \in Session, Enqueue(s)  PROVE session' \in [Session -> GoodSessions]
  <2>1. CASE session' = [session EXCEPT ![s] = Start]
    BY <1>0, <2>1, StartGood, SessionMoves
  <2>2. CASE Goto(s, "queued")
    <3> DEFINE r == [session[s] EXCEPT !.at = "queued"]
    <3>1. r \in GoodSessions
      BY <1>0 DEF GoodSessions, Sessions, Held
    <3>2. session' = [session EXCEPT ![s] = r]
      BY <2>2, <1>0 DEF Goto
    <3> HIDE DEF r
    <3> QED
      BY <1>0, <3>1, <3>2, SessionMoves
  <2> QED
    BY <1>3, <2>1, <2>2 DEF Enqueue
<1>4. ASSUME NEW s \in Session, EnqueueFails(s) \/ Crash(s)
      PROVE  session' \in [Session -> GoodSessions]
  BY <1>0, <1>4, StartGood, SessionMoves DEF EnqueueFails, Crash
<1>5. ASSUME NEW s \in Session, Poll(s)  PROVE session' \in [Session -> GoodSessions]
  BY <1>0, <1>5, PollMoves, SessionMoves
<1>6. ASSUME NEW s \in Session, NEW b \in session[s].batch, Claim(s, b)
      PROVE  session' \in [Session -> GoodSessions]
  BY <1>0, <1>6, ClaimMoves, SessionMoves
<1>7. ASSUME NEW s \in Session, Validate(s)  PROVE session' \in [Session -> GoodSessions]
  <2> DEFINE r == [session[s] EXCEPT !.at = "valid", !.seen = fact[session[s].f]]
  <2>1. session[s].at \in Held
    BY <1>7 DEF Validate, Held
  <2>2. fact[session[s].f] \in {"none", "requested", "confirmed", "failed"}
    BY <2>1, HeldKnows DEF ProofTyped, ProofTypeOK
  <2>3. r \in GoodSessions
    <3>1. session[s] \in GoodSessions
      BY <1>0
    <3>2. r \in Sessions
      BY <2>2, <3>1 DEF GoodSessions, Sessions
    <3>3. /\ r.at = "valid" /\ r.f = session[s].f /\ r.batch = session[s].batch
          /\ r.attempts = session[s].attempts
      BY <3>1 DEF GoodSessions, Sessions
    <3> HIDE DEF r
    <3> QED
      BY <2>1, <3>1, <3>2, <3>3 DEF GoodSessions, Held
  <2>4. session' = [session EXCEPT ![s] = r]
    BY <1>7, <1>0 DEF Validate
  <2> HIDE DEF r
  <2> QED
    BY <1>0, <2>3, <2>4, SessionMoves
<1>8. ASSUME NEW s \in Session, Release(s)  PROVE session' \in [Session -> GoodSessions]
  BY <1>0, <1>8, ReleaseMoves, SessionMoves
<1>9. ASSUME NEW s \in Session, Submit(s) \/ SubmitFails(s)
      PROVE  session' \in [Session -> GoodSessions]
  <2>1. session[s].at \in Held /\ \E place \in Held : Goto(s, place)
    BY <1>9 DEF Submit, SubmitFails, Held
  <2> QED
    BY <1>0, <2>1, GotoMoves, SessionMoves
<1>10. ASSUME NEW s \in Session, ValidateFails(s) \/ Confirm(s) \/ RecordFailure(s)
       PROVE  session' \in [Session -> GoodSessions]
  BY <1>8, <1>10 DEF ValidateFails, Confirm, RecordFailure
<1>11. ASSUME NEW h \in Handler, CancelSelect(h) \/ OwnerSync(h) \/ OwnerSyncFails(h)
       PROVE  session' \in [Session -> GoodSessions]
  BY <1>1, <1>11 DEF CancelSelect, OwnerSync, OwnerSyncFails
<1>12. CASE CooldownEnds \/ DayEnds
  BY <1>1, <1>12 DEF CooldownEnds, DayEnds
<1> QED
  BY <1>1, <1>2, <1>3, <1>4, <1>5, <1>6, <1>7, <1>9, <1>10, <1>11, <1>12, ProofSteps

LEMMA RowsTypeStep ==
    ASSUME ProofTyped, [ProofNext]_allVars
    PROVE  RowsTyped'
<1>0. RowsTyped
  BY TypedParts
<1> USE <1>0
<1>1. CASE UNCHANGED <<rows, events, cancels, history>>
  BY <1>1 DEF RowsTyped
<1>2. ASSUME NEW s \in Session, NEW f \in Fact, CheckRequest(s, f)  PROVE RowsTyped'
  BY <1>1, <1>2 DEF CheckRequest
<1>3. ASSUME NEW s \in Session, Enqueue(s)  PROVE RowsTyped'
  <2>1. session[s].f \in Fact
    BY <1>3, HeldKnows DEF Enqueue
  <2>2. [status |-> "pending", attempts |-> 0] \in Job
    BY PipelineAssumption DEF Job
  <2>3. job' \in [Fact -> Job]
    BY <1>3, <2>1, <2>2 DEF Enqueue, RowsTyped
  <2>4. fact' \in [Fact -> {"none", "requested", "confirmed", "failed"}]
    BY <1>3 DEF Enqueue, RowsTyped
  <2> QED
    BY <1>3, <2>3, <2>4 DEF Enqueue, RowsTyped
<1>4. ASSUME NEW s \in Session,
             EnqueueFails(s) \/ Validate(s) \/ SubmitFails(s)
             \/ \E b \in session[s].batch : Claim(s, b)
      PROVE  RowsTyped'
  BY <1>1, <1>4 DEF EnqueueFails, Validate, SubmitFails, Claim
<1>5. ASSUME NEW s \in Session, Poll(s)  PROVE RowsTyped'
  BY <1>5 DEF Poll, RowsTyped, Pending
<1>6. ASSUME NEW s \in Session, Submit(s)  PROVE RowsTyped'
  <2>1. session[s].f \in Fact
    BY <1>6, HeldKnows DEF Submit, Held
  <2>2. events' \in [Fact -> Nat]
    BY <1>6, <2>1 DEF Submit, RowsTyped
  <2> QED
    BY <1>6, <2>1, <2>2 DEF Submit, RowsTyped
<1>7. ASSUME NEW s \in Session, ValidateFails(s) \/ RecordFailure(s) \/ Confirm(s)
      PROVE  RowsTyped'
  <2>1. /\ session[s].f \in Fact /\ session[s].attempts \in 0..MaxAttempts
        /\ session[s].seen \in {"none", "requested", "confirmed", "failed"}
    BY <1>7, HeldKnows DEF ValidateFails, RecordFailure, Confirm, Held
  <2>2. AfterError(session[s].attempts) \in Job
    BY <2>1, AfterErrorTyped
  <2>3. [status |-> "completed", attempts |-> session[s].attempts] \in Job
    BY <2>1 DEF Job, JobStatus
  <2>4. job' \in [Fact -> Job]
    BY <1>7, <2>1, <2>2, <2>3 DEF ValidateFails, RecordFailure, Confirm, RowsTyped
  <2>5. fact' \in [Fact -> {"none", "requested", "confirmed", "failed"}]
    BY <1>7, <2>1 DEF ValidateFails, RecordFailure, Confirm, RowsTyped, Net
  <2>6. log' \in [Fact -> {"none", "confirmed", "failed"}]
    BY <1>7 DEF ValidateFails, RecordFailure, Confirm, RowsTyped
  <2>7. today' \subseteq Fact /\ recent' \subseteq Fact
    BY <1>7, <2>1 DEF ValidateFails, RecordFailure, Confirm, Created, RowsTyped
  <2> QED
    BY <1>7, <2>4, <2>5, <2>6, <2>7 DEF ValidateFails, RecordFailure, Confirm, RowsTyped
<1>8. ASSUME NEW s \in Session, Crash(s)  PROVE RowsTyped'
  <2>1. tangled' \subseteq Fact
    BY <1>8, HeldKnows DEF Crash, Held, RowsTyped
  <2>2. crashes' \in 0..MaxCrashes
    BY <1>8, PipelineAssumption DEF Crash, RowsTyped
  <2> QED
    BY <1>8, <2>1, <2>2 DEF Crash, RowsTyped
<1>9. ASSUME NEW h \in Handler, CancelSelect(h)  PROVE RowsTyped'
  BY <1>9 DEF CancelSelect, RowsTyped, Pending
<1>10. ASSUME NEW h \in Handler, OwnerSync(h)  PROVE RowsTyped'
  <2>1. ASSUME NEW f \in Fact PROVE [job[f] EXCEPT !.status = "cancelled"] \in Job
    <3>1. job[f] \in Job
      BY DEF RowsTyped
    <3>2. job[f].attempts \in 0..MaxAttempts
          /\ DOMAIN job[f] = {"status", "attempts"}
      BY <3>1, PipelineAssumption DEF Job, NoJob
    <3>3. [job[f] EXCEPT !.status = "cancelled"]
            = [status |-> "cancelled", attempts |-> job[f].attempts]
      BY <3>1 DEF Job, NoJob
    <3> QED
      BY <3>2, <3>3 DEF Job, JobStatus
  <2>2. job' \in [Fact -> Job]
    BY <1>10, <2>1 DEF OwnerSync, RowsTyped
  <2>3. doomed' \in [Handler -> SUBSET Fact] /\ cancelling' \subseteq Handler
    BY <1>10 DEF OwnerSync, RowsTyped
  <2> QED
    BY <1>10, <2>2, <2>3 DEF OwnerSync, RowsTyped
<1>11. ASSUME NEW h \in Handler, OwnerSyncFails(h)  PROVE RowsTyped'
  BY <1>11 DEF OwnerSyncFails, RowsTyped
<1>12. CASE CooldownEnds \/ DayEnds
  BY <1>12 DEF CooldownEnds, DayEnds, RowsTyped
<1> QED
  BY <1>1, <1>2, <1>3, <1>4, <1>5, <1>6, <1>7, <1>8, <1>9, <1>10, <1>11, <1>12, ProofSteps

LEMMA ProofIsTyped == ProofSpec => []ProofTyped
<1>1. ProofTyped /\ [ProofNext]_allVars => ProofTyped'
  <2> SUFFICES ASSUME ProofTyped, [ProofNext]_allVars PROVE ProofTyped'
    OBVIOUS
  <2>1. session' \in [Session -> GoodSessions] /\ RowsTyped'
    BY SessionTypeStep, RowsTypeStep
  <2>2. session' \in [Session -> Sessions]
    BY <2>1 DEF GoodSessions
  <2> QED
    BY <2>1, <2>2 DEF ProofTyped, ProofTypeOK, RowsTyped
<1> QED
  BY <1>1, ProofTypeInit, PTL DEF ProofSpec

\* Rows, jobs and sessions keep their types, however sessions write over one
\* another: above all no job is pending without an attempt left.
THEOREM ProofTypeCorrect == ProofSpec => []ProofTypeOK
  BY ProofIsTyped, PTL DEF ProofTyped

-----------------------------------------------------------------------------
(* The rows agree.                                                         *)

\* Two sessions never hold the lock of one job.
OneHolder ==
    \A s, t \in Session :
        session[s].at \in Held /\ session[t].at \in Held /\ session[s].f = session[t].f
            => s = t

\* The status a session has read is still there, or a request has come since:
\* without this a flush of changed columns could leave a stale one behind.
ReadsHold ==
    \A s \in Session :
        session[s].at \in {"valid", "sent", "refused"} =>
            fact[session[s].f] \in {session[s].seen, "requested"}

SentHappened ==
    \A s \in Session : session[s].at = "sent" => events[session[s].f] >= 1

\* A session holds or has selected only jobs that exist.
JobsKnown ==
    \A s \in Session :
        /\ session[s].at \in Held => job[session[s].f] # NoJob
        /\ \A b \in session[s].batch : job[b[1]] # NoJob

RowsInv == RowsAgree /\ OneHolder /\ ReadsHold /\ SentHappened /\ JobsKnown

LEMMA RowsInit == ProofInit => RowsInv
  BY StartGood
  DEF ProofInit, RowsInv, RowsAgree, OneHolder, ReadsHold, SentHappened, JobsKnown, NoJob, Held

\* A session moves, and the rows stay as they are.
LEMMA RowsSessionStep ==
    ASSUME ProofTyped, RowsInv, NEW s \in Session, NEW r \in GoodSessions,
           session' = [session EXCEPT ![s] = r],
           UNCHANGED <<fact, job, log>>,
           events' \in [Fact -> Nat], \A f \in Fact : events'[f] >= events[f],
           r.at \in Held => \/ session[s].at \in Held /\ session[s].f = r.f
                            \/ ~Locked(r.f),
           r.at \in Held => job[r.f] # NoJob,
           r.at \in {"valid", "sent", "refused"} => fact[r.f] \in {r.seen, "requested"},
           r.at = "sent" => events'[r.f] >= 1,
           \A b \in r.batch : job[b[1]] # NoJob
    PROVE  RowsInv'
<1>0. session \in [Session -> GoodSessions] /\ events \in [Fact -> Nat]
  BY DEF ProofTyped, ProofTypeOK
<1>1. session'[s] = r /\ \A t \in Session : t # s => session'[t] = session[t]
  BY <1>0
<1>2. RowsAgree'
  <2>1. \A f \in Fact : log[f] = "confirmed" => events'[f] >= 1
    BY <1>0 DEF RowsInv, RowsAgree
  <2> QED
    BY <2>1 DEF RowsInv, RowsAgree
<1>3. OneHolder'
  <2>1. ASSUME NEW t \in Session, t # s, session[t].at \in Held, r.at \in Held
        PROVE  session[t].f # r.f
    BY <2>1 DEF RowsInv, OneHolder, Locked, LockedBy, Held
  <2> QED
    BY <1>1, <2>1 DEF RowsInv, OneHolder
<1>4. ReadsHold'
  BY <1>1 DEF RowsInv, ReadsHold
<1>5. SentHappened'
  <2>1. ASSUME NEW t \in Session, session[t].at = "sent"  PROVE events'[session[t].f] >= 1
    <3>1. session[t].f \in Fact
      BY <2>1, HeldKnows DEF Held
    <3>2. events[session[t].f] >= 1
      BY <2>1 DEF RowsInv, SentHappened
    <3> QED
      BY <1>0, <3>1, <3>2
  <2> QED
    BY <1>1, <2>1 DEF SentHappened
<1>6. JobsKnown'
  BY <1>1 DEF RowsInv, JobsKnown
<1> QED
  BY <1>2, <1>3, <1>4, <1>5, <1>6 DEF RowsInv

\* A session commits what it did with the job it held.
LEMMA RowsWriteStep ==
    ASSUME ProofTyped, RowsInv, NEW s \in Session, session[s].at \in Held,
           NEW f \in Fact, f = session[s].f,
           NEW r \in GoodSessions, r.at \in {"idle", "polled"}, r.batch = session[s].batch,
           session' = [session EXCEPT ![s] = r],
           UNCHANGED events,
           \A g \in Fact \ {f} : job'[g] = job[g] /\ fact'[g] = fact[g] /\ log'[g] = log[g],
           job'[f] # NoJob,
           job'[f].status = "completed" => log'[f] = "confirmed",
           fact'[f] = "confirmed" => log'[f] = "confirmed",
           fact'[f] = "failed" => log'[f] = "failed",
           log'[f] = "confirmed" => events[f] >= 1
    PROVE  RowsInv'
<1>0. session \in [Session -> GoodSessions]
  BY DEF ProofTyped
<1>1. session'[s] = r /\ \A t \in Session : t # s => session'[t] = session[t]
  BY <1>0
<1>2. \A t \in Session : session[t].at \in Held =>
          session[t].f \in Fact /\ (t # s => session[t].f # f)
  BY HeldKnows DEF RowsInv, OneHolder
<1>3. \A t \in Session : session'[t].at \in Held => t # s /\ session[t].at \in Held
  BY <1>1 DEF Held
<1>4. RowsAgree'
  BY DEF RowsInv, RowsAgree
<1>5. OneHolder'
  BY <1>1, <1>3 DEF RowsInv, OneHolder
<1>6. ReadsHold'
  BY <1>1, <1>2, <1>3 DEF RowsInv, ReadsHold, Held
<1>7. SentHappened'
  BY <1>1, <1>3 DEF RowsInv, SentHappened, Held
<1>8. JobsKnown'
  <2>1. ASSUME NEW t \in Session, NEW b \in session[t].batch
        PROVE  job'[b[1]] # NoJob
    <3>1. b[1] \in Fact
      BY <1>0, <2>1 DEF GoodSessions
    <3> QED
      BY <3>1, <2>1 DEF RowsInv, JobsKnown
  <2> QED
    BY <1>1, <1>2, <1>3, <2>1 DEF RowsInv, JobsKnown
<1> QED
  BY <1>4, <1>5, <1>6, <1>7, <1>8 DEF RowsInv

LEMMA RowsStep ==
    ASSUME ProofTyped, RowsInv, [ProofNext]_allVars
    PROVE  RowsInv'
<1>0. session \in [Session -> GoodSessions] /\ events \in [Fact -> Nat]
  BY DEF ProofTyped, ProofTypeOK
<1>t. \A n \in Nat : n >= n
  OBVIOUS
<1>1. CASE UNCHANGED <<fact, job, log, events, session>>
  BY <1>1
  DEF RowsInv, RowsAgree, OneHolder, ReadsHold, SentHappened, JobsKnown
<1>2. ASSUME NEW s \in Session, NEW r \in GoodSessions,
             session' = [session EXCEPT ![s] = r], UNCHANGED <<fact, job, log, events>>,
             r.at \notin Held, r.batch \subseteq session[s].batch
      PROVE  RowsInv'
  <2>1. \A b \in r.batch : job[b[1]] # NoJob
    BY <1>2 DEF RowsInv, JobsKnown
  <2>2. events' \in [Fact -> Nat] /\ \A f \in Fact : events'[f] >= events[f]
    BY <1>0, <1>2
  <2>3. r.at \notin {"valid", "sent", "refused"}
    BY <1>2 DEF Held
  <2> QED
    BY <1>2, <2>1, <2>2, <2>3, RowsSessionStep
<1>3. ASSUME NEW s \in Session, NEW f \in Fact, CheckRequest(s, f)  PROVE RowsInv'
  <2>1. UNCHANGED <<fact, job, log, events>>
    BY <1>3 DEF CheckRequest
  <2>2. session'[s] \in GoodSessions
    BY SessionTypeStep
  <2>3. /\ session'[s].at = "checked" /\ session'[s].batch = session[s].batch
        /\ session' = [session EXCEPT ![s] = session'[s]]
    BY <1>0, <1>3 DEF CheckRequest, GoodSessions, Sessions
  <2>4. session'[s].at \notin Held
    BY <2>3 DEF Held
  <2> QED
    BY <1>2, <2>1, <2>2, <2>3, <2>4
<1>4. ASSUME NEW s \in Session, Enqueue(s)  PROVE RowsInv'
  <2>1. session[s].f \in Fact
    BY <1>4, HeldKnows DEF Enqueue
  <2>2. /\ session'[s].at \notin Held /\ session'[s].batch \subseteq session[s].batch
        /\ \A t \in Session : t # s => session'[t] = session[t]
    BY <1>0, <1>4, StartGood DEF Enqueue, Goto, Held, GoodSessions, Sessions
  <2>3. /\ fact' = [fact EXCEPT ![session[s].f] = "requested"]
        /\ UNCHANGED <<log, events>>
        /\ \A f \in Fact : job[f] # NoJob => job'[f] = job[f]
    BY <1>4, <2>1 DEF Enqueue, ProofTyped, ProofTypeOK
  <2>4. \A f \in Fact : job'[f].status = "completed" => job[f].status = "completed"
    BY <1>4, <2>1 DEF Enqueue, ProofTyped, ProofTypeOK
  <2>5. fact \in [Fact -> {"none", "requested", "confirmed", "failed"}]
    BY DEF ProofTyped, ProofTypeOK
  <2>6. \A t \in Session : session'[t].at \in Held =>
            t # s /\ session[t].at \in Held /\ session[t].f \in Fact
    BY <2>2, HeldKnows
  <2>7. RowsAgree'
    BY <2>1, <2>3, <2>4, <2>5 DEF RowsInv, RowsAgree
  <2>8. OneHolder'
    BY <2>2, <2>6 DEF RowsInv, OneHolder
  <2>9. ReadsHold'
    BY <2>2, <2>3, <2>5, <2>6 DEF RowsInv, ReadsHold, Held
  <2>10. SentHappened'
    BY <2>2, <2>3, <2>6 DEF RowsInv, SentHappened, Held
  <2>11. JobsKnown'
    <3>1. ASSUME NEW t \in Session, NEW b \in session'[t].batch  PROVE job'[b[1]] # NoJob
      <4>1. b \in session[t].batch
        BY <2>2, <3>1
      <4>2. b[1] \in Fact
        BY <1>0, <4>1 DEF GoodSessions
      <4> QED
        BY <2>3, <4>1, <4>2 DEF RowsInv, JobsKnown
    <3> QED
      BY <2>2, <2>3, <2>6, <3>1 DEF RowsInv, JobsKnown
  <2> QED
    BY <2>7, <2>8, <2>9, <2>10, <2>11 DEF RowsInv
<1>5. ASSUME NEW s \in Session, EnqueueFails(s) \/ Crash(s)  PROVE RowsInv'
  <2>1. session' = [session EXCEPT ![s] = Start] /\ UNCHANGED <<fact, job, log, events>>
    BY <1>5 DEF EnqueueFails, Crash
  <2>2. Start.at \notin Held /\ Start.batch \subseteq session[s].batch
    BY StartGood DEF Held
  <2> QED
    BY <1>2, <2>1, <2>2, StartGood
<1>6. ASSUME NEW s \in Session, Poll(s)  PROVE RowsInv'
  <2>1. PICK batch \in SUBSET (Fact \X (0..(MaxAttempts - 1))) :
              /\ batch = {<<f, job[f].attempts>> : f \in Pending}
              /\ Freed(batch) \in GoodSessions
              /\ Freed(batch).at \in {"idle", "polled"}
              /\ Freed(batch).batch = batch
              /\ session' = [session EXCEPT ![s] = Freed(batch)]
    BY <1>6, PollMoves
  <2>2. UNCHANGED <<fact, job, log, events>>
    BY <1>6 DEF Poll
  <2>3. \A b \in batch : job[b[1]] # NoJob
    BY <2>1 DEF Pending, NoJob
  <2>4. Freed(batch).at \notin Held /\ Freed(batch).at \notin {"valid", "sent", "refused"}
    BY <2>1 DEF Held
  <2>5. events' \in [Fact -> Nat] /\ \A f \in Fact : events'[f] >= events[f]
    BY <1>0, <2>2
  <2> QED
    BY <2>1, <2>2, <2>3, <2>4, <2>5, RowsSessionStep
<1>7. ASSUME NEW s \in Session, NEW b \in session[s].batch, Claim(s, b)  PROVE RowsInv'
  <2>1. PICK r \in GoodSessions :
              /\ r.at = "claimed" /\ r.f = b[1] /\ r.batch \subseteq session[s].batch
              /\ session' = [session EXCEPT ![s] = r]
    BY <1>7, ClaimMoves
  <2>2. UNCHANGED <<fact, job, log, events>> /\ ~Locked(r.f)
    BY <1>7, <2>1 DEF Claim
  <2>3. job[r.f] # NoJob /\ \A c \in r.batch : job[c[1]] # NoJob
    BY <2>1 DEF RowsInv, JobsKnown
  <2>4. events' \in [Fact -> Nat] /\ \A f \in Fact : events'[f] >= events[f]
    BY <1>0, <2>2
  <2> QED
    BY <2>1, <2>2, <2>3, <2>4, RowsSessionStep
<1>8. ASSUME NEW s \in Session, Validate(s)  PROVE RowsInv'
  <2>1. /\ session[s].at \in Held /\ UNCHANGED <<fact, job, log, events>>
        /\ session' = [session EXCEPT ![s].at = "valid", ![s].seen = fact[session[s].f]]
    BY <1>8 DEF Validate, Held
  <2>2. session'[s] \in GoodSessions
    BY SessionTypeStep
  <2>3. /\ session'[s].at = "valid" /\ session'[s].f = session[s].f
        /\ session'[s].seen = fact[session[s].f] /\ session'[s].batch = session[s].batch
        /\ session' = [session EXCEPT ![s] = session'[s]]
    <3> DEFINE R == [session[s] EXCEPT !.at = "valid", !.seen = fact[session[s].f]]
    <3>1. session' = [session EXCEPT ![s] = R]
      BY <1>0, <2>1
    <3>2. /\ R.at = "valid" /\ R.f = session[s].f
          /\ R.seen = fact[session[s].f] /\ R.batch = session[s].batch
      BY <1>0 DEF GoodSessions, Sessions
    <3>3. session'[s] = R
      BY <1>0, <3>1
    <3> HIDE DEF R
    <3> QED
      BY <3>1, <3>2, <3>3
  <2>4. events' \in [Fact -> Nat] /\ \A f \in Fact : events'[f] >= events[f]
    BY <1>0, <2>1
  <2>5. /\ job[session[s].f] # NoJob
        /\ \A b \in session'[s].batch : job[b[1]] # NoJob
    BY <2>1, <2>3 DEF RowsInv, JobsKnown
  <2>6. /\ fact[session'[s].f] \in {session'[s].seen, "requested"}
        /\ session'[s].at # "sent"
    BY <2>3
  <2>7. /\ session[s].at \in Held /\ UNCHANGED <<fact, job, log>>
        /\ session[s].f = session'[s].f /\ job[session'[s].f] # NoJob
        /\ session' = [session EXCEPT ![s] = session'[s]]
    BY <2>1, <2>3, <2>5
  <2> QED
    BY <2>2, <2>4, <2>5, <2>6, <2>7, RowsSessionStep
<1>9. ASSUME NEW s \in Session, Submit(s) \/ SubmitFails(s)  PROVE RowsInv'
  <2>1. /\ session[s].at = "valid" /\ UNCHANGED <<fact, job, log>>
        /\ \/ Goto(s, "refused")
           \/ Goto(s, "sent") /\ events' = [events EXCEPT ![session[s].f] = @ + 1]
    BY <1>9 DEF Submit, SubmitFails
  <2>2. session[s].at \in Held /\ session[s].f \in Fact
    BY <2>1, HeldKnows DEF Held
  <2>3. events' = events \/ events' = [events EXCEPT ![session[s].f] = @ + 1]
    BY <1>9 DEF Submit, SubmitFails
  <2>4. events' \in [Fact -> Nat] /\ \A f \in Fact : events'[f] >= events[f]
    BY <1>0, <2>2, <2>3
  <2>5. session'[s] \in GoodSessions
    BY SessionTypeStep
  <2>6. /\ session'[s].at \in {"sent", "refused"} /\ session'[s].f = session[s].f
        /\ session'[s].seen = session[s].seen /\ session'[s].batch = session[s].batch
        /\ session' = [session EXCEPT ![s] = session'[s]]
    BY <1>0, <2>1 DEF Goto, GoodSessions, Sessions
  <2>7. session'[s].at = "sent" => events'[session[s].f] >= 1
    BY <1>0, <2>1, <2>2 DEF Goto, GoodSessions, Sessions
  <2>8. /\ job[session[s].f] # NoJob
        /\ \A b \in session'[s].batch : job[b[1]] # NoJob
        /\ fact[session[s].f] \in {session[s].seen, "requested"}
    BY <2>1, <2>2, <2>6 DEF RowsInv, JobsKnown, ReadsHold
  <2> QED
    BY <2>1, <2>2, <2>4, <2>5, <2>6, <2>7, <2>8, RowsSessionStep
<1>10. ASSUME NEW s \in Session, ValidateFails(s) \/ Confirm(s) \/ RecordFailure(s)
       PROVE  RowsInv'
  <2> DEFINE f == session[s].f
             r == Freed(session[s].batch)
  <2>1. session[s].at \in Held /\ Release(s) /\ UNCHANGED events
    BY <1>10 DEF ValidateFails, Confirm, RecordFailure, Held
  <2>2. f \in Fact /\ session[s].attempts \in 0..MaxAttempts
    BY <2>1, HeldKnows
  <2>3. /\ r \in GoodSessions /\ r.at \in {"idle", "polled"} /\ r.batch = session[s].batch
        /\ session' = [session EXCEPT ![s] = r]
    BY <2>1, ReleaseMoves
  <2>4. /\ fact \in [Fact -> {"none", "requested", "confirmed", "failed"}]
        /\ job \in [Fact -> Job] /\ log \in [Fact -> {"none", "confirmed", "failed"}]
    BY DEF ProofTyped, ProofTypeOK
  <2>5. AfterError(session[s].attempts) # NoJob
        /\ AfterError(session[s].attempts).status # "completed"
    BY <2>2, AfterErrorTyped
  <2> HIDE DEF r
  <2>6. CASE ValidateFails(s)
    <3>1. job' = [job EXCEPT ![f] = AfterError(session[s].attempts)] /\ UNCHANGED <<fact, log>>
      BY <2>6 DEF ValidateFails
    <3>2. /\ \A g \in Fact \ {f} : job'[g] = job[g] /\ fact'[g] = fact[g] /\ log'[g] = log[g]
          /\ job'[f] # NoJob /\ job'[f].status # "completed"
      BY <2>2, <2>4, <2>5, <3>1
    <3>3. /\ fact'[f] = "confirmed" => log'[f] = "confirmed"
          /\ fact'[f] = "failed" => log'[f] = "failed"
          /\ log'[f] = "confirmed" => events[f] >= 1
      BY <2>2, <3>1 DEF RowsInv, RowsAgree
    <3> QED
      BY <2>1, <2>2, <2>3, <3>2, <3>3, RowsWriteStep
  <2>7. CASE Confirm(s)
    <3>1. /\ job' = [job EXCEPT ![f] = [status |-> "completed", attempts |-> session[s].attempts]]
          /\ log' = [log EXCEPT ![f] = "confirmed"]
          /\ fact' = [fact EXCEPT ![f] = Net(session[s].seen, "confirmed", fact[f])]
      BY <2>2, <2>4, <2>7 DEF Confirm
    <3>2. events[f] >= 1 /\ fact[f] \in {session[s].seen, "requested"}
      BY <2>7 DEF Confirm, RowsInv, SentHappened, ReadsHold
    <3>3. fact'[f] # "failed"
      BY <2>2, <2>4, <3>1, <3>2 DEF Net
    <3>4. /\ \A g \in Fact \ {f} : job'[g] = job[g] /\ fact'[g] = fact[g] /\ log'[g] = log[g]
          /\ job'[f] # NoJob /\ log'[f] = "confirmed"
      BY <2>2, <2>4, <3>1 DEF NoJob
    <3> QED
      BY <2>1, <2>2, <2>3, <3>2, <3>3, <3>4, RowsWriteStep
  <2>8. CASE RecordFailure(s)
    <3>1. /\ job' = [job EXCEPT ![f] = AfterError(session[s].attempts)]
          /\ log' = [log EXCEPT ![f] = "failed"]
          /\ fact' = [fact EXCEPT ![f] = Net(session[s].seen, "failed", fact[f])]
      BY <2>2, <2>4, <2>8 DEF RecordFailure
    <3>2. fact[f] \in {session[s].seen, "requested"}
      BY <2>8 DEF RecordFailure, RowsInv, ReadsHold
    <3>3. fact'[f] # "confirmed"
      BY <2>2, <2>4, <3>1, <3>2 DEF Net
    <3>4. /\ \A g \in Fact \ {f} : job'[g] = job[g] /\ fact'[g] = fact[g] /\ log'[g] = log[g]
          /\ job'[f] # NoJob /\ job'[f].status # "completed" /\ log'[f] = "failed"
      BY <2>2, <2>4, <2>5, <3>1
    <3> QED
      BY <2>1, <2>2, <2>3, <3>3, <3>4, RowsWriteStep
  <2> QED
    BY <1>10, <2>6, <2>7, <2>8
<1>11. ASSUME NEW h \in Handler, OwnerSync(h)  PROVE RowsInv'
  <2>1. UNCHANGED <<fact, log, events, session>>
    BY <1>11 DEF OwnerSync
  <2>2. ASSUME NEW f \in Fact
        PROVE  /\ job'[f].status = "completed" => job[f].status = "completed"
               /\ job[f] # NoJob => job'[f] # NoJob
    <3>1. job'[f] = IF f \in doomed[h] THEN [job[f] EXCEPT !.status = "cancelled"] ELSE job[f]
      BY <1>11 DEF OwnerSync
    <3>2. job[f] \in Job
      BY DEF ProofTyped, ProofTypeOK
    <3>3. [job[f] EXCEPT !.status = "cancelled"].status = "cancelled"
      BY <3>2 DEF Job, NoJob
    <3> QED
      BY <3>1, <3>3 DEF NoJob
  <2>3. RowsAgree'
    BY <2>1, <2>2 DEF RowsInv, RowsAgree
  <2>4. JobsKnown'
    <3>1. ASSUME NEW s \in Session, NEW b \in session[s].batch  PROVE job'[b[1]] # NoJob
      <4>1. b[1] \in Fact
        BY <1>0, <3>1 DEF GoodSessions
      <4> QED
        BY <2>2, <3>1, <4>1 DEF RowsInv, JobsKnown
    <3>2. ASSUME NEW s \in Session, session[s].at \in Held  PROVE job'[session[s].f] # NoJob
      BY <2>2, <3>2, HeldKnows DEF RowsInv, JobsKnown
    <3> QED
      BY <2>1, <3>1, <3>2 DEF JobsKnown
  <2> QED
    BY <2>1, <2>3, <2>4 DEF RowsInv, OneHolder, ReadsHold, SentHappened
<1>12. ASSUME NEW h \in Handler, CancelSelect(h) \/ OwnerSyncFails(h)  PROVE RowsInv'
  BY <1>1, <1>12 DEF CancelSelect, OwnerSyncFails
<1>13. CASE CooldownEnds \/ DayEnds
  BY <1>1, <1>13 DEF CooldownEnds, DayEnds
<1> QED
  BY <1>1, <1>3, <1>4, <1>5, <1>6, <1>7, <1>8, <1>9, <1>10, <1>11, <1>12, <1>13, ProofSteps

LEMMA RowsInvHolds == ProofSpec => []RowsInv
  BY RowsInit, RowsStep, ProofIsTyped, PTL DEF ProofSpec

\* What three tables tell of a fact stays the same story, and one the chain
\* confirms, for any number of sessions that race, retry, are cancelled or die.
THEOREM RowsTellOneStory == ProofSpec => []RowsAgree
  BY RowsInvHolds, PTL DEF RowsInv

-----------------------------------------------------------------------------
(* One event for a key.                                                    *)

\* A session record that has the job of f in its hands or still to do.
HeldBy(r, f) == (r.at \in Held /\ r.f = f) \/ \E b \in r.batch : b[1] = f

LEMMA HoldsIsHeld == \A s \in Session, f \in Fact : Holds(s, f) <=> HeldBy(session[s], f)
  BY DEF Holds, LockedBy, HeldBy, Held

\* The execution of f is under way to its log.
SentBy(r, f) == r.at = "sent" /\ r.f = f

\* A fact that nothing has tangled is in the hands of one session at a time;
\* the chain has its event exactly when that session is about to record it or
\* the log has it, and then no session has the job or will get it.
OnceInv ==
    \A f \in Fact \ tangled :
        /\ \A s, t \in Session : HeldBy(session[s], f) /\ HeldBy(session[t], f) => s = t
        /\ events[f] = IF log[f] = "confirmed" \/ \E s \in Session : SentBy(session[s], f)
                       THEN 1 ELSE 0
        /\ log[f] = "confirmed" =>
              job[f].status # "pending" /\ \A s \in Session : ~HeldBy(session[s], f)

LEMMA OnceInit == ProofInit => OnceInv
  BY StartGood DEF ProofInit, OnceInv, HeldBy, SentBy, Held

\* A session moves and takes up no job that it did not have; nothing becomes
\* pending that is confirmed; what is sent stays so.
LEMMA OnceSessionStep ==
    ASSUME ProofTyped, OnceInv, NEW s \in Session, NEW r \in GoodSessions,
           session' = [session EXCEPT ![s] = r],
           UNCHANGED <<log, events>>, tangled \subseteq tangled',
           \A f \in Fact : job'[f].status = "pending" =>
                              job[f].status = "pending" \/ log[f] # "confirmed",
           \A f \in Fact \ tangled' : HeldBy(r, f) => HeldBy(session[s], f),
           \A f \in Fact \ tangled' : SentBy(r, f) <=> SentBy(session[s], f)
    PROVE  OnceInv'
<1>0. session \in [Session -> GoodSessions]
  BY DEF ProofTyped
<1>1. session'[s] = r /\ \A t \in Session : t # s => session'[t] = session[t]
  BY <1>0
<1> SUFFICES ASSUME NEW f \in Fact \ tangled'
             PROVE  /\ \A q, t \in Session :
                          HeldBy(session'[q], f) /\ HeldBy(session'[t], f) => q = t
                    /\ events'[f] = IF \/ log'[f] = "confirmed"
                                       \/ \E t \in Session : SentBy(session'[t], f)
                                    THEN 1 ELSE 0
                    /\ log'[f] = "confirmed" =>
                          job'[f].status # "pending" /\ \A t \in Session : ~HeldBy(session'[t], f)
  BY DEF OnceInv, HeldBy, SentBy
<1>2. f \in Fact \ tangled
  OBVIOUS
<1>3. \A t \in Session : HeldBy(session'[t], f) => HeldBy(session[t], f)
  BY <1>1
<1>4. \A t \in Session : SentBy(session'[t], f) <=> SentBy(session[t], f)
  BY <1>1
<1> QED
  BY <1>2, <1>3, <1>4 DEF OnceInv

LEMMA OnceStep ==
    ASSUME ProofTyped, RowsInv, OnceInv, [ProofNext]_allVars
    PROVE  OnceInv'
<1>0. /\ session \in [Session -> GoodSessions] /\ events \in [Fact -> Nat]
      /\ job \in [Fact -> Job] /\ log \in [Fact -> {"none", "confirmed", "failed"}]
  BY DEF ProofTyped, ProofTypeOK
<1>1. CASE UNCHANGED <<job, log, events, session, tangled>>
  BY <1>1 DEF OnceInv, HeldBy, SentBy
<1>2. ASSUME NEW s \in Session, NEW r \in GoodSessions,
             session' = [session EXCEPT ![s] = r],
             UNCHANGED <<job, log, events, tangled>>,
             r.at \notin Held, session[s].at # "sent", r.batch \subseteq session[s].batch
      PROVE  OnceInv'
  <2>1. \A f \in Fact : HeldBy(r, f) => HeldBy(session[s], f)
    BY <1>2 DEF HeldBy
  <2>2. \A f \in Fact : ~SentBy(r, f) /\ ~SentBy(session[s], f)
    BY <1>2 DEF SentBy, Held
  <2> QED
    BY <1>2, <2>1, <2>2, OnceSessionStep
<1>3. ASSUME NEW s \in Session, NEW f \in Fact, CheckRequest(s, f)  PROVE OnceInv'
  <2>1. UNCHANGED <<job, log, events, tangled>> /\ session[s].at # "sent"
    BY <1>3 DEF CheckRequest
  <2>2. session'[s] \in GoodSessions
    BY SessionTypeStep
  <2>3. /\ session'[s].at = "checked" /\ session'[s].batch = session[s].batch
        /\ session' = [session EXCEPT ![s] = session'[s]]
    BY <1>0, <1>3 DEF CheckRequest, GoodSessions, Sessions
  <2>4. session'[s].at \notin Held
    BY <2>3 DEF Held
  <2> QED
    BY <1>2, <2>1, <2>2, <2>3, <2>4
<1>4. ASSUME NEW s \in Session, Enqueue(s)  PROVE OnceInv'
  <2>1. session[s].f \in Fact /\ session[s].at = "checked"
    BY <1>4, HeldKnows DEF Enqueue
  <2>2. session'[s] \in GoodSessions
    BY SessionTypeStep
  <2>3. /\ session'[s].at \notin Held /\ session'[s].batch \subseteq session[s].batch
        /\ session' = [session EXCEPT ![s] = session'[s]]
    BY <1>0, <1>4, StartGood DEF Enqueue, Goto, Held, GoodSessions, Sessions
  <2>4. UNCHANGED <<log, events, tangled>>
    BY <1>4 DEF Enqueue
  <2>5. \A f \in Fact : job'[f].status = "pending" =>
                           job[f].status = "pending" \/ log[f] # "confirmed"
    <3>1. ASSUME NEW f \in Fact, job'[f] # job[f]  PROVE job[f] = NoJob
      BY <1>0, <1>4, <2>1, <3>1 DEF Enqueue
    <3>2. \A f \in Fact : log[f] = "confirmed" => job[f] # NoJob
      BY DEF RowsInv, RowsAgree
    <3> QED
      BY <3>1, <3>2
  <2>6. \A f \in Fact : HeldBy(session'[s], f) => HeldBy(session[s], f)
    BY <2>3 DEF HeldBy
  <2>7. \A f \in Fact : ~SentBy(session'[s], f) /\ ~SentBy(session[s], f)
    BY <2>1, <2>3 DEF SentBy, Held
  <2> QED
    BY <2>2, <2>3, <2>4, <2>5, <2>6, <2>7, OnceSessionStep
<1>5. ASSUME NEW s \in Session, EnqueueFails(s)  PROVE OnceInv'
  <2>1. session' = [session EXCEPT ![s] = Start] /\ UNCHANGED <<job, log, events, tangled>>
    BY <1>5 DEF EnqueueFails
  <2>2. Start.at \notin Held /\ Start.batch \subseteq session[s].batch
    BY StartGood DEF Held
  <2>3. session[s].at # "sent"
    BY <1>5 DEF EnqueueFails
  <2> QED
    BY <1>2, <2>1, <2>2, <2>3, StartGood
<1>6. ASSUME NEW s \in Session, Crash(s)  PROVE OnceInv'
  <2>1. session' = [session EXCEPT ![s] = Start] /\ UNCHANGED <<job, log, events>>
    BY <1>6 DEF Crash
  <2>2. \A f \in Fact : ~HeldBy(Start, f) /\ ~SentBy(Start, f)
    BY StartGood DEF HeldBy, SentBy, Held
  <2>3. tangled \subseteq tangled' /\ \A f \in Fact \ tangled' : ~SentBy(session[s], f)
    BY <1>6 DEF Crash, SentBy
  <2> QED
    BY <2>1, <2>2, <2>3, StartGood, OnceSessionStep
<1>7. ASSUME NEW s \in Session, Poll(s)  PROVE OnceInv'
  <2>1. PICK batch \in SUBSET (Fact \X (0..(MaxAttempts - 1))) :
              /\ batch = {<<f, job[f].attempts>> : f \in Pending}
              /\ Freed(batch) \in GoodSessions
              /\ Freed(batch).at \in {"idle", "polled"}
              /\ Freed(batch).batch = batch
              /\ session' = [session EXCEPT ![s] = Freed(batch)]
    BY <1>7, PollMoves
  <2>2. /\ UNCHANGED <<job, log, events>>
        /\ tangled' = tangled \cup {f \in Pending : \E t \in Session \ {s} : Holds(t, f)}
        /\ session[s].at \in {"idle", "queued"}
    BY <1>7 DEF Poll
  <2>3. session'[s] = Freed(batch) /\ \A t \in Session : t # s => session'[t] = session[t]
    BY <1>0, <2>1
  <2>4. ASSUME NEW f \in Fact, HeldBy(session'[s], f)  PROVE f \in Pending
    <3>1. Freed(batch).at \notin Held
      BY <2>1 DEF Held
    <3>2. \E b \in batch : b[1] = f
      BY <2>1, <2>3, <2>4, <3>1 DEF HeldBy
    <3> QED
      BY <2>1, <3>2
  <2>5. \A f \in Fact : ~SentBy(session'[s], f) /\ ~SentBy(session[s], f)
    BY <2>1, <2>2, <2>3 DEF SentBy
  <2>6. \A t \in Session, f \in Fact : SentBy(session'[t], f) <=> SentBy(session[t], f)
    BY <2>3, <2>5
  <2> SUFFICES ASSUME NEW f \in Fact \ tangled'
               PROVE  /\ \A q, t \in Session :
                            HeldBy(session'[q], f) /\ HeldBy(session'[t], f) => q = t
                      /\ events'[f] = IF \/ log'[f] = "confirmed"
                                         \/ \E t \in Session : SentBy(session'[t], f)
                                      THEN 1 ELSE 0
                      /\ log'[f] = "confirmed" =>
                            job'[f].status # "pending" /\ \A t \in Session : ~HeldBy(session'[t], f)
    BY DEF OnceInv, HeldBy, SentBy
  <2>7. f \in Fact \ tangled
    BY <2>2
  <2>8. f \in Pending => \A t \in Session \ {s} : ~HeldBy(session[t], f)
    BY <2>2, HoldsIsHeld
  <2>9. f \in Pending => log[f] # "confirmed"
    BY <2>7 DEF OnceInv, Pending
  <2>10. \A q, t \in Session : HeldBy(session'[q], f) /\ HeldBy(session'[t], f) => q = t
    BY <2>3, <2>4, <2>7, <2>8 DEF OnceInv
  <2>11. events'[f] = IF log'[f] = "confirmed" \/ \E t \in Session : SentBy(session'[t], f)
                      THEN 1 ELSE 0
    BY <2>2, <2>6, <2>7 DEF OnceInv
  <2>12. log'[f] = "confirmed" =>
            job'[f].status # "pending" /\ \A t \in Session : ~HeldBy(session'[t], f)
    BY <2>2, <2>3, <2>4, <2>7, <2>9 DEF OnceInv
  <2> QED
    BY <2>10, <2>11, <2>12
<1>8. ASSUME NEW s \in Session, NEW b \in session[s].batch, Claim(s, b)  PROVE OnceInv'
  <2>1. PICK r \in GoodSessions :
              /\ r.at = "claimed" /\ r.f = b[1] /\ r.batch \subseteq session[s].batch
              /\ session' = [session EXCEPT ![s] = r]
    BY <1>8, ClaimMoves
  <2>2. UNCHANGED <<job, log, events, tangled>> /\ session[s].at = "polled"
    BY <1>8 DEF Claim
  <2>3. \A f \in Fact : HeldBy(r, f) => HeldBy(session[s], f)
    BY <2>1 DEF HeldBy
  <2>4. \A f \in Fact : ~SentBy(r, f) /\ ~SentBy(session[s], f)
    BY <2>1, <2>2 DEF SentBy
  <2> QED
    BY <2>1, <2>2, <2>3, <2>4, OnceSessionStep
<1>9. ASSUME NEW s \in Session, Validate(s) \/ SubmitFails(s)  PROVE OnceInv'
  <2>1. /\ UNCHANGED <<job, log, events, tangled>> /\ session[s].at \in {"claimed", "valid"}
    BY <1>9 DEF Validate, SubmitFails
  <2>2. session'[s] \in GoodSessions
    BY SessionTypeStep
  <2>3. /\ session'[s].at \in {"valid", "refused"} /\ session'[s].f = session[s].f
        /\ session'[s].batch = session[s].batch
        /\ session' = [session EXCEPT ![s] = session'[s]]
    <3>1. CASE Validate(s)
      <4> DEFINE R == [session[s] EXCEPT !.at = "valid", !.seen = fact[session[s].f]]
      <4>1. session' = [session EXCEPT ![s] = R]
        BY <1>0, <3>1 DEF Validate
      <4>2. R.at = "valid" /\ R.f = session[s].f /\ R.batch = session[s].batch
        BY <1>0 DEF GoodSessions, Sessions
      <4>3. session'[s] = R
        BY <1>0, <4>1
      <4> HIDE DEF R
      <4> QED
        BY <4>1, <4>2, <4>3
    <3>2. CASE SubmitFails(s)
      BY <1>0, <3>2 DEF SubmitFails, Goto, GoodSessions, Sessions
    <3> QED
      BY <1>9, <3>1, <3>2
  <2>4. \A f \in Fact : HeldBy(session'[s], f) => HeldBy(session[s], f)
    BY <2>1, <2>3 DEF HeldBy, Held
  <2>5. \A f \in Fact : ~SentBy(session'[s], f) /\ ~SentBy(session[s], f)
    BY <2>1, <2>3 DEF SentBy
  <2>6. UNCHANGED <<job, log, events, tangled>>
        /\ session' = [session EXCEPT ![s] = session'[s]]
    BY <2>1, <2>3
  <2> QED
    BY <2>2, <2>4, <2>5, <2>6, OnceSessionStep
<1>10. ASSUME NEW s \in Session, ValidateFails(s)  PROVE OnceInv'
  <2>1. /\ Release(s) /\ UNCHANGED <<log, events, tangled>> /\ session[s].at = "claimed"
        /\ job' = [job EXCEPT ![session[s].f] = AfterError(session[s].attempts)]
    BY <1>10 DEF ValidateFails
  <2>2. /\ Freed(session[s].batch) \in GoodSessions
        /\ Freed(session[s].batch).at \in {"idle", "polled"}
        /\ Freed(session[s].batch).batch = session[s].batch
        /\ session' = [session EXCEPT ![s] = Freed(session[s].batch)]
    BY <2>1, ReleaseMoves
  <2> DEFINE r == Freed(session[s].batch)
  <2>3. HeldBy(session[s], session[s].f) /\ session[s].f \in Fact
    BY <2>1, HeldKnows DEF HeldBy, Held
  <2>4. \A f \in Fact : HeldBy(r, f) => HeldBy(session[s], f)
    BY <2>2 DEF HeldBy, Held
  <2>5. \A f \in Fact : ~SentBy(r, f) /\ ~SentBy(session[s], f)
    BY <2>1, <2>2 DEF SentBy
  <2> SUFFICES ASSUME NEW f \in Fact \ tangled'
               PROVE  /\ \A q, t \in Session :
                            HeldBy(session'[q], f) /\ HeldBy(session'[t], f) => q = t
                      /\ events'[f] = IF \/ log'[f] = "confirmed"
                                         \/ \E t \in Session : SentBy(session'[t], f)
                                      THEN 1 ELSE 0
                      /\ log'[f] = "confirmed" =>
                            job'[f].status # "pending" /\ \A t \in Session : ~HeldBy(session'[t], f)
    BY DEF OnceInv, HeldBy, SentBy
  <2> HIDE DEF r
  <2>6. session'[s] = r /\ \A t \in Session : t # s => session'[t] = session[t]
    BY <1>0, <2>2 DEF r
  <2>7. /\ \A t \in Session : HeldBy(session'[t], f) => HeldBy(session[t], f)
        /\ \A t \in Session : SentBy(session'[t], f) <=> SentBy(session[t], f)
    BY <2>4, <2>5, <2>6
  <2>8. f \in Fact \ tangled
    BY <2>1
  <2>9. log[f] = "confirmed" => job'[f] = job[f]
    BY <1>0, <2>1, <2>3, <2>8 DEF OnceInv
  <2> QED
    BY <2>1, <2>7, <2>8, <2>9 DEF OnceInv
<1>11. ASSUME NEW s \in Session, Submit(s)  PROVE OnceInv'
  <2>1. /\ session[s].at = "valid" /\ UNCHANGED <<job, log>>
        /\ events' = [events EXCEPT ![session[s].f] = @ + 1]
        /\ \/ Goto(s, "sent") /\ UNCHANGED tangled
           \/ Goto(s, "refused") /\ tangled' = tangled \cup {session[s].f}
    BY <1>11 DEF Submit
  <2> DEFINE h == session[s].f
  <2>2. HeldBy(session[s], h) /\ h \in Fact
    BY <2>1, HeldKnows DEF HeldBy, Held
  <2>3. \A t \in Session : t # s => session'[t] = session[t]
    BY <1>0, <2>1 DEF Goto
  <2>4. /\ session'[s].f = h /\ session'[s].batch = session[s].batch
        /\ session'[s].at \in {"sent", "refused"}
        /\ session'[s].at = "refused" => h \in tangled'
    BY <1>0, <2>1 DEF Goto, GoodSessions, Sessions
  <2>5. tangled \subseteq tangled'
    BY <2>1
  <2> HIDE DEF h
  <2> SUFFICES ASSUME NEW f \in Fact \ tangled'
               PROVE  /\ \A q, t \in Session :
                            HeldBy(session'[q], f) /\ HeldBy(session'[t], f) => q = t
                      /\ events'[f] = IF \/ log'[f] = "confirmed"
                                         \/ \E t \in Session : SentBy(session'[t], f)
                                      THEN 1 ELSE 0
                      /\ log'[f] = "confirmed" =>
                            job'[f].status # "pending" /\ \A t \in Session : ~HeldBy(session'[t], f)
    BY DEF OnceInv, HeldBy, SentBy
  <2>6. f \in Fact \ tangled
    BY <2>5
  <2>7. \A t \in Session : HeldBy(session'[t], f) => HeldBy(session[t], f)
    BY <2>1, <2>2, <2>3, <2>4 DEF HeldBy, Held, h
  <2>8. /\ \A q, t \in Session : HeldBy(session'[q], f) /\ HeldBy(session'[t], f) => q = t
        /\ log'[f] = "confirmed" =>
              job'[f].status # "pending" /\ \A t \in Session : ~HeldBy(session'[t], f)
    BY <2>1, <2>6, <2>7 DEF OnceInv
  <2>9. CASE f = h
    <3>1. log[f] # "confirmed" /\ \A t \in Session : ~SentBy(session[t], f)
      <4>1. \A t \in Session : SentBy(session[t], f) => HeldBy(session[t], f)
        BY DEF SentBy, HeldBy, Held
      <4>2. ~SentBy(session[s], f)
        BY <2>1 DEF SentBy
      <4> QED
        BY <2>2, <2>6, <2>9, <4>1, <4>2 DEF OnceInv
    <3>2. events[f] = 0
      BY <2>6, <3>1 DEF OnceInv
    <3>3. events'[f] = 1
      BY <1>0, <2>1, <2>2, <2>9, <3>2 DEF h
    <3>4. SentBy(session'[s], f)
      BY <2>4, <2>9 DEF SentBy
    <3> QED
      BY <2>8, <3>3, <3>4
  <2>10. CASE f # h
    <3>1. events'[f] = events[f]
      BY <1>0, <2>1, <2>10 DEF h
    <3>2. \A t \in Session : SentBy(session'[t], f) <=> SentBy(session[t], f)
      BY <2>1, <2>3, <2>4, <2>10 DEF SentBy, h
    <3> QED
      BY <2>1, <2>6, <2>8, <3>1, <3>2 DEF OnceInv
  <2> QED
    BY <2>9, <2>10
<1>12. ASSUME NEW s \in Session, Confirm(s) \/ RecordFailure(s)  PROVE OnceInv'
  <2> DEFINE h == session[s].f
             r == Freed(session[s].batch)
  <2>1. /\ Release(s) /\ UNCHANGED <<events, tangled>> /\ session[s].at \in Held
        /\ \/ /\ session[s].at = "sent" /\ log' = [log EXCEPT ![h] = "confirmed"]
              /\ job' = [job EXCEPT ![h] = [status |-> "completed",
                                            attempts |-> session[s].attempts]]
           \/ /\ session[s].at = "refused" /\ log' = [log EXCEPT ![h] = "failed"]
              /\ job' = [job EXCEPT ![h] = AfterError(session[s].attempts)]
    BY <1>12 DEF Confirm, RecordFailure, Held
  <2>2. HeldBy(session[s], h) /\ h \in Fact
    BY <2>1, HeldKnows DEF HeldBy
  <2>3. /\ r \in GoodSessions /\ r.at \in {"idle", "polled"} /\ r.batch = session[s].batch
        /\ session' = [session EXCEPT ![s] = r]
    BY <2>1, ReleaseMoves
  <2>4. session'[s] = r /\ \A t \in Session : t # s => session'[t] = session[t]
    BY <1>0, <2>3
  <2>5. ~HeldBy(r, h)
    <3>1. \A b \in session[s].batch : b[1] # h
      BY <1>0, <2>1 DEF GoodSessions
    <3> QED
      BY <2>3, <3>1 DEF HeldBy, Held
  <2>6. \A f \in Fact : HeldBy(r, f) => HeldBy(session[s], f)
    BY <2>3 DEF HeldBy, Held
  <2>7. \A f \in Fact : ~SentBy(r, f) /\ (f # h => ~SentBy(session[s], f))
    BY <2>3 DEF SentBy
  <2>8. \A f \in Fact, t \in Session : SentBy(session[t], f) => HeldBy(session[t], f)
    BY DEF SentBy, HeldBy, Held
  <2>9. SentBy(session[s], h) <=> session[s].at = "sent"
    BY DEF SentBy
  <2>10. job'[h].status = "pending" => log'[h] = "failed"
    BY <1>0, <2>1, <2>2
  <2>11. \A f \in Fact : f # h => job'[f] = job[f] /\ log'[f] = log[f]
    BY <1>0, <2>1
  <2>12. log'[h] = IF session[s].at = "sent" THEN "confirmed" ELSE "failed"
    BY <1>0, <2>1, <2>2
  <2> HIDE DEF h, r
  <2> SUFFICES ASSUME NEW f \in Fact \ tangled'
               PROVE  /\ \A q, t \in Session :
                            HeldBy(session'[q], f) /\ HeldBy(session'[t], f) => q = t
                      /\ events'[f] = IF \/ log'[f] = "confirmed"
                                         \/ \E t \in Session : SentBy(session'[t], f)
                                      THEN 1 ELSE 0
                      /\ log'[f] = "confirmed" =>
                            job'[f].status # "pending" /\ \A t \in Session : ~HeldBy(session'[t], f)
    BY DEF OnceInv, HeldBy, SentBy
  <2>13. f \in Fact \ tangled /\ events' = events
    BY <2>1
  <2>14. \A q, t \in Session : HeldBy(session'[q], f) /\ HeldBy(session'[t], f) => q = t
    <3>1. \A t \in Session : HeldBy(session'[t], f) => HeldBy(session[t], f)
      BY <2>4, <2>6
    <3> QED
      BY <2>13, <3>1 DEF OnceInv
  <2>15. CASE f = h
    <3>1. \A t \in Session : t # s => ~HeldBy(session[t], f)
      BY <2>2, <2>13, <2>15 DEF OnceInv
    <3>2. \A t \in Session : ~HeldBy(session'[t], f) /\ ~SentBy(session'[t], f)
      BY <2>4, <2>5, <2>7, <2>8, <2>15, <3>1
    <3>3. log[f] # "confirmed"
      BY <2>2, <2>13, <2>15 DEF OnceInv
    <3>4. events[f] = IF SentBy(session[s], f) THEN 1 ELSE 0
      BY <2>8, <2>13, <3>1, <3>3 DEF OnceInv
    <3> QED
      BY <2>9, <2>10, <2>12, <2>13, <2>14, <2>15, <3>2, <3>4
  <2>16. CASE f # h
    <3>1. \A t \in Session : SentBy(session'[t], f) <=> SentBy(session[t], f)
      BY <2>4, <2>7, <2>16
    <3>2. \A t \in Session : HeldBy(session'[t], f) => HeldBy(session[t], f)
      BY <2>4, <2>6
    <3> QED
      BY <2>11, <2>13, <2>14, <2>16, <3>1, <3>2 DEF OnceInv
  <2> QED
    BY <2>15, <2>16
<1>13. ASSUME NEW h \in Handler, OwnerSync(h)  PROVE OnceInv'
  <2>1. UNCHANGED <<log, events, session, tangled>>
    BY <1>13 DEF OwnerSync
  <2>2. ASSUME NEW f \in Fact
        PROVE  job'[f].status = "pending" => job[f].status = "pending"
    <3>1. job'[f] = IF f \in doomed[h] THEN [job[f] EXCEPT !.status = "cancelled"] ELSE job[f]
      BY <1>13 DEF OwnerSync
    <3>2. [job[f] EXCEPT !.status = "cancelled"].status = "cancelled"
      BY <1>0 DEF Job, NoJob
    <3> QED
      BY <3>1, <3>2
  <2> QED
    BY <2>1, <2>2 DEF OnceInv, HeldBy, SentBy
<1>14. ASSUME NEW h \in Handler, CancelSelect(h) \/ OwnerSyncFails(h)  PROVE OnceInv'
  BY <1>1, <1>14 DEF CancelSelect, OwnerSyncFails
<1>15. CASE CooldownEnds \/ DayEnds
  BY <1>1, <1>15 DEF CooldownEnds, DayEnds
<1> QED
  BY <1>1, <1>3, <1>4, <1>5, <1>6, <1>7, <1>8, <1>9, <1>10, <1>11, <1>12, <1>13, <1>14, <1>15,
     ProofSteps

LEMMA OnceIsOncePerKey == ASSUME ProofTyped, OnceInv PROVE OncePerKey
<1> SUFFICES ASSUME NEW f \in Fact \ tangled
             PROVE  /\ events[f] <= 1
                    /\ Locked(f) \/ (log[f] = "confirmed" <=> events[f] = 1)
  BY DEF OncePerKey
<1>1. events[f] = IF log[f] = "confirmed" \/ \E s \in Session : SentBy(session[s], f)
                  THEN 1 ELSE 0
  BY DEF OnceInv
<1>2. ASSUME NEW s \in Session, SentBy(session[s], f)  PROVE Locked(f)
  BY <1>2 DEF SentBy, Locked, LockedBy
<1> QED
  BY <1>1, <1>2

\* The chain records a key once, and the log says what the chain did, however
\* many sessions, attempts and crashes there are: two events for a key need
\* two sessions that held its job at once, a lost reply, or a session that
\* died between the submission and its record.
THEOREM KeyProvedOnce == ProofSpec => []OncePerKey
<1>1. ProofSpec => []OnceInv
  BY OnceInit, OnceStep, RowsInvHolds, ProofIsTyped, PTL DEF ProofSpec
<1> QED
  BY <1>1, OnceIsOncePerKey, ProofIsTyped, PTL

=============================================================================
