--------------------------- MODULE MintFlowProofs ---------------------------
(***************************************************************************)
(* What MintFlow promises of the Panda that was minted, for every number   *)
(* of Pandas, users and flows, whatever the bounds.                        *)
(***************************************************************************)
EXTENDS MintFlow, TLAPS

USE DEF chain, server, page, count, history, mintVars

-----------------------------------------------------------------------------
(* The flows.                                                              *)

\* What Begin does to the flows, for a record that is a flow under way.
LEMMA BeginTyped ==
    ASSUME FlowsOK,
           NEW f \in Flow, NEW record \in Flows,
           record.at # "none", record.user # None,
           record.at # "signing" => record.nft # None,
           Begin(f, record), deaf' = deaf
    PROVE  /\ FlowsOK'
           /\ mine' = f
           /\ f \in Active' \ deaf'
           /\ Active' = Active \cup {f}
           /\ f \notin Active
  BY DEF FlowsOK, Begin, Active, Flows

\* A flow that moves on stays under way.
LEMMA GotoTyped ==
    ASSUME FlowsOK, deaf' = deaf,
           NEW f \in Active, flow[f].at # "signing",
           NEW place \in {"sent", "checked", "registered", "refused"},
           Goto(f, place)
    PROVE  FlowsOK' /\ Active' = Active
  BY DEF FlowsOK, Goto, Active, Flows

\* A flow that ends is heard of no more.
LEMMA EndTyped ==
    ASSUME FlowsOK, NEW f \in Active, End(f)
    PROVE  /\ FlowsOK'
           /\ Active' = Active \ {f}
           /\ deaf' = deaf \ {f}
  BY DEF FlowsOK, End, NoFlow, Active, Flows

\* The user of a flow, and its Panda once it is signed.
LEMMA FlowKnows ==
    ASSUME FlowsOK, NEW f \in Active
    PROVE  /\ f \in Flow /\ flow[f] \in Flows
           /\ flow[f].user \in User
           /\ flow[f].at # "signing" => flow[f].nft \in Nft
<1>1. f \in Flow /\ flow[f] \in Flows
  BY DEF FlowsOK, Active
<1>2. flow[f].user \in User \cup {None} /\ flow[f].nft \in Nft \cup {None}
  BY <1>1 DEF Flows
<1>3. flow[f].user # None /\ (flow[f].at # "signing" => flow[f].nft # None)
  BY DEF FlowsOK
<1> QED
  BY <1>1, <1>2, <1>3

\* A step of a flow is one of a flow under way.
StepOf(f) ==
    Proceed(f) \/ SignUnheard(f) \/ ResolveFails(f) \/ RequestFails(f) \/ ReplyLost(f)

LEMMA StepIsActive ==
    ASSUME NEW f \in Flow, StepOf(f)
    PROVE  f \in Active
  BY DEF StepOf, Proceed, Declined, Sign, Resolve, Decide, Commit, Registered, Refused,
         SignUnheard, ResolveFails, RequestFails, ReplyLost, At, Active

-----------------------------------------------------------------------------
(* Types.                                                                  *)

LEMMA MintTypeStep ==
    ASSUME MintTypeOK, [MintNext]_mintVars
    PROVE  MintTypeOK'
<1> USE MintAssumption
<1>1. CASE UNCHANGED mintVars
  BY <1>1 DEF MintTypeOK, FlowsOK, Active
<1>2. CASE OpenModal \/ CloseModal
  BY <1>2 DEF MintTypeOK, FlowsOK, OpenModal, CloseModal, Active
<1>9. CASE ChangeUser
  <2>1. UNCHANGED <<owner, holder, rows, status, pend, shown, modal, mine, stored, flow, deaf, kept, doubled>>
    BY <1>9 DEF ChangeUser
  <2>2. user' \in User \cup {None}
    BY <1>9 DEF ChangeUser
  <2>3. moves' \in 0..MaxMoves /\ faults' \in 0..MaxFaults
    BY <1>9 DEF ChangeUser, Move, MintTypeOK
  <2> QED
    BY <2>1, <2>2, <2>3 DEF MintTypeOK, FlowsOK, Active
<1>10. CASE Transfer
  <2>1. UNCHANGED <<owner, rows, user, status, pend, shown, modal, mine, stored, flow, deaf, kept, doubled>>
    BY <1>10 DEF Transfer
  <2>2. holder' \in [Nft -> User \cup {None}]
    BY <1>10 DEF Transfer, MintTypeOK
  <2>3. moves' \in 0..MaxMoves /\ faults' \in 0..MaxFaults
    BY <1>10 DEF Transfer, Move, MintTypeOK
  <2> QED
    BY <2>1, <2>2, <2>3 DEF MintTypeOK, FlowsOK, Active
<1>3. CASE Reset
  <2>1. doubled' \in BOOLEAN
    BY <1>3, Zenon DEF Reset
  <2> QED
    BY <1>3, <2>1 DEF Reset, MintTypeOK, FlowsOK, Active, Pending
<1>4. CASE Revisit
  <2>1. moves' \in 0..MaxMoves /\ faults' \in 0..MaxFaults
    BY <1>4 DEF Revisit, Move, MintTypeOK
  <2>2. mine' \notin deaf'
    BY <1>4 DEF Revisit, Fresh, MintTypeOK, FlowsOK, Active
  <2> QED
    BY <1>4, <2>1, <2>2 DEF Revisit, Fresh, MintTypeOK, FlowsOK, Active, Pending
<1>5. CASE Confirm
  <2>1. doubled' \in BOOLEAN
    BY <1>5, Zenon DEF Confirm, MintTypeOK
  <2>2. CASE user = None
    BY <1>5, <2>1, <2>2 DEF Confirm, MintTypeOK, FlowsOK, Pending, Active
  <2>3. CASE user # None
    <3> DEFINE record == [NoFlow EXCEPT !.at = "signing", !.user = user]
    <3>1. PICK f \in Flow : Begin(f, record)
      BY <1>5, <2>3 DEF Confirm
    <3>2. record \in Flows /\ record.at = "signing" /\ record.user # None
      BY <2>3 DEF MintTypeOK, NoFlow, Flows
    <3>3. deaf' = deaf
      BY <1>5 DEF Confirm
    <3> HIDE DEF record
    <3>4. FlowsOK' /\ mine' \in Flow /\ mine' \in Active' \ deaf'
      BY <3>1, <3>2, <3>3, BeginTyped DEF MintTypeOK
    <3> QED
      BY <1>5, <2>1, <2>3, <3>4 DEF Confirm, MintTypeOK, Pending
  <2> QED
    BY <2>2, <2>3
<1>6. CASE RetryRegistration
  <2> DEFINE record == [at |-> "sent", nft |-> pend, user |-> user]
  <2>1. PICK f \in Flow : Begin(f, record)
    BY <1>6 DEF RetryRegistration
  <2>2. record \in Flows /\ record.at = "sent" /\ record.user # None /\ record.nft # None
    BY <1>6 DEF RetryRegistration, MintTypeOK, Flows
  <2>3. deaf' = deaf
    BY <1>6 DEF RetryRegistration
  <2> HIDE DEF record
  <2>4. FlowsOK' /\ mine' \in Flow /\ mine' \in Active' \ deaf'
    BY <2>1, <2>2, <2>3, BeginTyped DEF MintTypeOK
  <2> QED
    BY <1>6, <2>4 DEF RetryRegistration, MintTypeOK, Pending
<1>7. CASE Reload
  <2>1. FlowsOK'
    BY <1>7 DEF Reload, MintTypeOK, FlowsOK, NoFlow, Flows, Active
  <2>2. moves' \in 0..MaxMoves /\ faults' \in 0..MaxFaults
    BY <1>7 DEF Reload, Move, MintTypeOK
  <2>3. mine' \notin deaf'
    BY <1>7 DEF Reload, Fresh, Active
  <2> QED
    BY <1>7, <2>1, <2>2, <2>3 DEF Reload, Fresh, MintTypeOK, Pending
<1>8. ASSUME NEW f \in Flow, StepOf(f)
      PROVE  MintTypeOK'
  <2>1. f \in Active /\ FlowsOK
    BY <1>8, StepIsActive DEF MintTypeOK
  <2>2. flow[f].user \in User /\ (flow[f].at # "signing" => flow[f].nft \in Nft)
    BY <2>1, FlowKnows
  <2>3. CASE Declined(f) \/ Refused(f) \/ ReplyLost(f) \/ ResolveFails(f) \/ SignUnheard(f)
    <3>1. Failed(f)
      BY <2>3 DEF Declined, Refused, ReplyLost, ResolveFails, SignUnheard
    <3>2. FlowsOK' /\ Active' = Active \ {f} /\ deaf' = deaf \ {f}
      BY <2>1, <3>1, EndTyped DEF Failed
    <3>3. /\ status' \in {"idle", "success", "error"} \cup Pending
          /\ mine' \notin deaf' /\ (status' \in Pending => mine' \in Active')
      BY <3>1, <3>2 DEF Failed, SetPage, MintTypeOK, Pending
    <3>4. /\ owner' \in [Nft -> User \cup {None}] /\ holder' \in [Nft -> User \cup {None}]
          /\ rows' \in [Nft -> User \cup {None}]
      BY <2>2, <2>3 DEF Declined, Refused, ReplyLost, ResolveFails, SignUnheard, MintOnChain,
                        MintTypeOK
    <3>5. faults' \in 0..MaxFaults /\ UNCHANGED <<user, moves, history>>
      BY <2>3 DEF Declined, Refused, ReplyLost, ResolveFails, SignUnheard, Fault, MintTypeOK
    <3> QED
      BY <3>1, <3>2, <3>3, <3>4, <3>5 DEF Failed, MintTypeOK
  <2>4. CASE Sign(f)
    <3>1. PICK n \in Nft : flow' = [flow EXCEPT ![f].at = "minting", ![f].nft = n]
      BY <2>4 DEF Sign
    <3>3. deaf' = deaf /\ n # None
      BY <2>4 DEF Sign
    <3>4. flow' \in [Flow -> Flows]
      BY ZenonT(60), <2>1, <3>1 DEF FlowsOK, Flows
    <3>5. /\ Active' = Active
          /\ \A g \in Active :
                /\ flow'[g].user # None
                /\ flow'[g].at # "signing" => flow'[g].nft # None
      BY <2>1, <3>1, <3>3 DEF FlowsOK, Active, Flows
    <3>6. FlowsOK'
      BY <2>1, <3>3, <3>4, <3>5 DEF FlowsOK
    <3>2. /\ owner' \in [Nft -> User \cup {None}] /\ holder' \in [Nft -> User \cup {None}]
          /\ rows' \in [Nft -> User \cup {None}]
      BY <2>2, <2>4 DEF Sign, MintOnChain, MintTypeOK
    <3> QED
      BY <2>1, <2>4, <3>2, <3>5, <3>6 DEF Sign, SetPage, MintTypeOK, Pending
  <2>5. CASE Resolve(f)
    <3>1. FlowsOK' /\ Active' = Active
      BY <2>1, <2>5, GotoTyped DEF Resolve, At
    <3> QED
      BY <2>1, <2>2, <2>5, <3>1 DEF Resolve, At, SetPage, MintTypeOK, Pending
  <2>6. CASE Decide(f) \/ Commit(f) \/ RequestFails(f)
    <3>1. PICK place \in {"sent", "checked", "registered", "refused"} : Goto(f, place)
      BY <2>6 DEF Decide, Commit, RequestFails
    <3>2. FlowsOK' /\ Active' = Active
      BY <2>1, <2>6, <3>1, GotoTyped DEF Decide, Commit, RequestFails, At
    <3>3. /\ owner' \in [Nft -> User \cup {None}] /\ holder' \in [Nft -> User \cup {None}]
          /\ rows' \in [Nft -> User \cup {None}]
      BY <2>2, <2>6 DEF Decide, Commit, RequestFails, MintTypeOK
    <3> QED
      BY <2>6, <3>2, <3>3 DEF Decide, Commit, RequestFails, Fault, MintTypeOK
  <2>7. CASE Registered(f)
    <3>1. FlowsOK' /\ Active' = Active \ {f} /\ deaf' = deaf \ {f}
      BY <2>1, <2>7, EndTyped DEF Registered
    <3> QED
      BY <2>2, <2>7, <3>1 DEF Registered, At, MintTypeOK, Pending
  <2> QED
    BY <1>8, <2>3, <2>4, <2>5, <2>6, <2>7 DEF StepOf, Proceed
<1> QED
  BY <1>1, <1>2, <1>3, <1>4, <1>5, <1>6, <1>7, <1>8, <1>9, <1>10
     DEF MintNext, StepOf

LEMMA MintTypeInit ==
    ASSUME MintInit
    PROVE  MintTypeOK
<1>1. flow \in [Flow -> Flows] /\ Active = {}
  BY DEF MintInit, Flows, NoFlow, Active
<1>2. FlowsOK
  BY <1>1 DEF MintInit, FlowsOK
<1>3. mine \notin deaf /\ status \notin Pending
  BY DEF MintInit, Pending
<1>4. modal \in BOOLEAN /\ doubled \in BOOLEAN
  BY DEF MintInit
<1> QED
  BY <1>2, <1>3, <1>4, MintAssumption DEF MintInit, MintTypeOK

\* The page, its flows, the storage and the rows stay well typed, and a page
\* that waits has a flow of its own under way that will be heard.
THEOREM MintTypeCorrect == MintSpec => []MintTypeOK
<1>1. MintInit => MintTypeOK
  BY MintTypeInit
<1>2. MintTypeOK /\ [MintNext]_mintVars => MintTypeOK'
  BY MintTypeStep
<1> QED
  BY <1>1, <1>2, PTL DEF MintSpec

-----------------------------------------------------------------------------
(* Who a Panda is registered for.                                          *)

\* A request that has passed the checks is of the user who minted the Panda,
\* and one that has succeeded left a row.
RequestsKnown ==
    \A f \in Flow :
        /\ At(f, "checked") => owner[flow[f].nft] = flow[f].user
        /\ At(f, "registered") => rows[flow[f].nft] # None

RegisteredInv == RegisteredToMinter /\ RequestsKnown

LEMMA RegisteredStep ==
    ASSUME MintTypeOK, RegisteredInv, [MintNext]_mintVars
    PROVE  RegisteredInv'
<1> USE MintAssumption DEF RegisteredInv
<1>0. FlowsOK /\ owner \in [Nft -> User \cup {None}] /\ rows \in [Nft -> User \cup {None}]
  BY DEF MintTypeOK
<1>1. CASE UNCHANGED <<owner, rows, flow>>
  BY <1>1 DEF RegisteredToMinter, RequestsKnown, At
<1>2. ASSUME UNCHANGED <<owner, rows>>, NEW f \in Flow, NEW record \in Flows,
             Begin(f, record), record.at \in {"signing", "sent"}
      PROVE  RegisteredInv'
  <2>1. flow'[f].at \in {"signing", "sent"} /\ \A g \in Flow : g # f => flow'[g] = flow[g]
    BY <1>0, <1>2 DEF Begin, FlowsOK
  <2> QED
    BY <1>2, <2>1 DEF RegisteredToMinter, RequestsKnown, At
<1>3. CASE Reload
  BY <1>0, <1>3 DEF Reload, FlowsOK, NoFlow, RegisteredToMinter, RequestsKnown, At
<1>4. ASSUME NEW f \in Flow, StepOf(f)
      PROVE  RegisteredInv'
  <2>1. f \in Active
    BY <1>4, StepIsActive
  <2>2. flow[f].user \in User /\ (flow[f].at # "signing" => flow[f].nft \in Nft)
    BY <1>0, <2>1, FlowKnows
  <2>3. ASSUME UNCHANGED rows, NEW n \in Nft, MintOnChain(f, n)
        PROVE  /\ RegisteredToMinter'
               /\ \A m \in Nft : owner[m] # None => owner'[m] = owner[m]
    BY <1>0, <2>3 DEF MintOnChain, RegisteredToMinter
  <2>4. \A g \in Flow : At(g, "checked") =>
            flow[g].nft \in Nft /\ owner[flow[g].nft] # None
    BY <1>0, FlowKnows DEF At, Active, RequestsKnown
  <2>5. \A g \in Flow : At(g, "registered") => flow[g].nft \in Nft
    BY <1>0, FlowKnows DEF At, Active
  <2>6. CASE UNCHANGED <<owner, rows>> /\ End(f)
    BY <1>0, <2>6 DEF End, FlowsOK, NoFlow, RegisteredToMinter, RequestsKnown, At
  <2>7. CASE SignUnheard(f)
    <3>1. PICK n \in Nft : MintOnChain(f, n)
      BY <2>7 DEF SignUnheard
    <3>2. UNCHANGED rows /\ End(f)
      BY <2>7 DEF SignUnheard, Failed
    <3>3. \A g \in Flow : g # f => flow'[g] = flow[g]
      BY <1>0, <3>2 DEF End, FlowsOK
    <3>4. flow'[f].at = "none"
      BY <1>0, <3>2 DEF End, NoFlow, FlowsOK
    <3> QED
      BY <2>3, <2>4, <3>1, <3>2, <3>3, <3>4 DEF RequestsKnown, At
  <2>8. CASE Sign(f)
    <3>1. PICK n \in Nft : /\ MintOnChain(f, n)
                           /\ flow' = [flow EXCEPT ![f].at = "minting", ![f].nft = n]
      BY <2>8 DEF Sign
    <3>2. UNCHANGED rows
      BY <2>8 DEF Sign
    <3>3. \A g \in Flow : g # f => flow'[g] = flow[g]
      BY <1>0, <3>1 DEF FlowsOK
    <3>4. flow'[f].at = "minting"
      BY <1>0, <3>1 DEF FlowsOK, Flows
    <3>5. /\ RegisteredToMinter'
          /\ \A m \in Nft : owner[m] # None => owner'[m] = owner[m]
      BY <2>3, <3>1, <3>2
    <3>6. \A g \in Flow : At(g, "checked")' \/ At(g, "registered")' => g # f
      BY <3>4 DEF At
    <3> QED
      BY <2>4, <3>2, <3>3, <3>5, <3>6 DEF RequestsKnown, At
  <2>9. CASE Resolve(f) \/ RequestFails(f)
    <3>1. PICK place \in {"sent", "refused"} : Goto(f, place)
      BY <2>9 DEF Resolve, RequestFails
    <3>2. UNCHANGED <<owner, rows>>
      BY <2>9 DEF Resolve, RequestFails
    <3>3. \A g \in Flow : g # f => flow'[g] = flow[g]
      BY <1>0, <3>1 DEF Goto, FlowsOK
    <3>4. flow'[f].at \in {"sent", "refused"}
      BY <1>0, <3>1 DEF Goto, FlowsOK, Flows
    <3> QED
      BY <3>2, <3>3, <3>4 DEF RegisteredToMinter, RequestsKnown, At
  <2>10. CASE Decide(f)
    <3>1. PICK place \in {"checked", "registered", "refused"} :
              /\ Goto(f, place)
              /\ place = "registered" => rows[flow[f].nft] = flow[f].user
              /\ place = "checked" => owner[flow[f].nft] = flow[f].user
      BY <2>10 DEF Decide, MayRegister
    <3>2. UNCHANGED <<owner, rows>>
      BY <2>10 DEF Decide
    <3>3. \A g \in Flow : g # f => flow'[g] = flow[g]
      BY <1>0, <3>1 DEF Goto, FlowsOK
    <3>4. flow'[f].at = place /\ flow'[f].nft = flow[f].nft /\ flow'[f].user = flow[f].user
      BY <1>0, <3>1 DEF Goto, FlowsOK, Flows
    <3> QED
      BY <2>2, <3>1, <3>2, <3>3, <3>4 DEF RegisteredToMinter, RequestsKnown, At
  <2>11. CASE Commit(f)
    <3>1. flow[f].nft \in Nft /\ owner[flow[f].nft] = flow[f].user
      BY <2>2, <2>11 DEF Commit, At, RequestsKnown
    <3>2. UNCHANGED owner
      BY <2>11 DEF Commit
    <3>3. PICK place \in {"registered", "refused"} :
              /\ Goto(f, place)
              /\ place = "registered" => rows' = [rows EXCEPT ![flow[f].nft] = flow[f].user]
              /\ place = "refused" => rows' = rows
      BY <2>11 DEF Commit
    <3>4. \A g \in Flow : g # f => flow'[g] = flow[g]
      BY <1>0, <3>3 DEF Goto, FlowsOK
    <3>5. flow'[f].at = place /\ flow'[f].nft = flow[f].nft
      BY <1>0, <3>3 DEF Goto, FlowsOK, Flows
    <3>6. /\ \A m \in Nft : rows[m] # None => rows'[m] # None
          /\ place = "registered" => rows'[flow[f].nft] # None
      BY <1>0, <2>2, <3>1, <3>3
    <3>7. RegisteredToMinter'
      BY <1>0, <3>1, <3>2, <3>3 DEF RegisteredToMinter
    <3> QED
      BY <2>5, <3>2, <3>3, <3>4, <3>5, <3>6, <3>7 DEF RequestsKnown, At
  <2> QED
    BY <1>4, <2>6, <2>7, <2>8, <2>9, <2>10, <2>11
       DEF StepOf, Proceed, Declined, Registered, Refused, ResolveFails, ReplyLost, Failed
<1>5. CASE Confirm
  <2> DEFINE record == [NoFlow EXCEPT !.at = "signing", !.user = user]
  <2>1. record \in Flows /\ record.at = "signing"
    BY DEF MintTypeOK, NoFlow, Flows
  <2>2. CASE user = None
    BY <1>1, <1>5, <2>2 DEF Confirm
  <2>3. CASE user # None
    BY <1>2, <1>5, <2>1, <2>3 DEF Confirm
  <2> QED
    BY <2>2, <2>3
<1>7. CASE RetryRegistration
  <2> DEFINE record == [at |-> "sent", nft |-> pend, user |-> user]
  <2>1. record \in Flows /\ record.at = "sent"
    BY DEF MintTypeOK, Flows
  <2> QED
    BY <1>2, <1>7, <2>1 DEF RetryRegistration
<1>6. CASE OpenModal \/ CloseModal \/ Reset \/ Revisit \/ ChangeUser \/ Transfer
  BY <1>1, <1>6 DEF OpenModal, CloseModal, Reset, Revisit, ChangeUser, Transfer
<1> QED
  BY <1>1, <1>3, <1>4, <1>5, <1>6, <1>7 DEF MintNext, StepOf

\* Nobody ever registers a Panda that another user minted, whoever retries
\* with whatever is pending.
THEOREM RegisteredForMinter == MintSpec => []RegisteredToMinter
<1>1. MintInit => RegisteredInv
  BY DEF MintInit, RegisteredInv, RegisteredToMinter, RequestsKnown, NoFlow, At
<1>2. MintTypeOK /\ RegisteredInv /\ [MintNext]_mintVars => RegisteredInv'
  BY RegisteredStep
<1>3. RegisteredInv => RegisteredToMinter
  BY DEF RegisteredInv
<1> QED
  BY <1>1, <1>2, <1>3, MintTypeCorrect, PTL DEF MintSpec

-----------------------------------------------------------------------------
(* What is stored until it is registered.                                  *)

\* A Panda is in the storage, or it has left it registered.
Settled(n) == stored = n \/ (stored = None /\ rows[n] # None)

\* A mint has the storage for itself and meets no registration: the page that
\* began it offers no retry while it waits.
MintsAlone ==
    \A g \in Flow : flow[g].at \in {"signing", "minting"} =>
        /\ Active = {g} /\ stored = None /\ status # "success"
        /\ pend = None \/ (mine = g /\ status \in {"signing", "minting"} /\ ~modal)

RequestsSettled ==
    \A f \in Flow : flow[f].at \in {"sent", "checked", "registered", "refused"} =>
        Settled(flow[f].nft)

PendingSettled == pend # None => Settled(pend)

Kept == \A n \in kept : rows[n] # None \/ stored = n

SuccessClears == status = "success" => stored = None

SettledParts ==
    MintsAlone /\ RequestsSettled /\ PendingSettled /\ Kept /\ SuccessClears

SettledInv == ~doubled => SettledParts

\* A row stays.
LEMMA RowsStay ==
    ASSUME MintTypeOK, [MintNext]_mintVars, NEW n \in Nft, rows[n] # None
    PROVE  rows'[n] = rows[n]
<1>1. ASSUME NEW f \in Flow, StepOf(f)
      PROVE  rows'[n] = rows[n]
  <2>1. flow[f].nft \in Nft \/ ~Commit(f)
    BY <1>1, StepIsActive, FlowKnows DEF Commit, At, MintTypeOK
  <2> QED
    BY <1>1, <2>1 DEF StepOf, Proceed, Declined, Sign, Resolve, Decide, Commit, Registered,
                      Refused, SignUnheard, ResolveFails, RequestFails, ReplyLost, MintTypeOK
<1> QED
  BY <1>1 DEF MintNext, StepOf, OpenModal, CloseModal, Confirm, RetryRegistration, Reset,
              Revisit, Reload, ChangeUser, Transfer

\* History: once doubled, always doubled.
LEMMA DoubledStays ==
    ASSUME MintTypeOK, [MintNext]_mintVars, ~doubled'
    PROVE  ~doubled
<1>1. ASSUME NEW f \in Flow, StepOf(f)
      PROVE  doubled' = doubled
  BY <1>1 DEF StepOf, Proceed, Declined, Sign, Resolve, Decide, Commit, Registered, Refused,
              SignUnheard, ResolveFails, RequestFails, ReplyLost
<1>2. CASE Confirm \/ Reset
  BY <1>2, Zenon DEF Confirm, Reset
<1>3. CASE UNCHANGED doubled
  BY <1>3
<1> QED
  BY <1>1, <1>2, <1>3 DEF MintNext, StepOf, OpenModal, CloseModal, RetryRegistration,
                          Revisit, Reload, ChangeUser, Transfer

\* The steps of the page.
LEMMA PageSettled ==
    ASSUME MintTypeOK, SettledParts, ~doubled', ~doubled,
           \/ OpenModal \/ CloseModal \/ Confirm \/ RetryRegistration \/ Reset
           \/ Revisit \/ Reload \/ ChangeUser \/ Transfer
    PROVE  SettledParts'
<1> USE MintAssumption
<1>0. FlowsOK /\ kept \subseteq Nft /\ stored \in Nft \cup {None} /\ pend \in Nft \cup {None}
  BY DEF MintTypeOK
<1>1. CASE OpenModal \/ CloseModal \/ ChangeUser \/ Transfer
  BY <1>1 DEF OpenModal, CloseModal, ChangeUser, Transfer, SettledParts, MintsAlone, RequestsSettled,
              PendingSettled, Kept, SuccessClears, Settled, Active
<1>2. CASE Confirm /\ user = None
  BY <1>2 DEF Confirm, SettledParts, MintsAlone, RequestsSettled,
              PendingSettled, Kept, SuccessClears, Settled, Active
<1>3. CASE Confirm /\ user # None
  <2> DEFINE record == [NoFlow EXCEPT !.at = "signing", !.user = user]
  <2>1. PICK f \in Flow : Begin(f, record)
    BY <1>3 DEF Confirm
  <2>2. stored = None /\ Active = {}
    BY <1>3, Zenon DEF Confirm
  <2>3. /\ UNCHANGED <<rows, pend, stored, kept>>
        /\ status' = "signing" /\ modal' = FALSE /\ mine' = f
    BY <1>3, <2>1 DEF Confirm, Begin
  <2>4. flow' = [flow EXCEPT ![f] = record] /\ record.at = "signing"
    BY <2>1 DEF Begin, NoFlow
  <2>5. Active' = {f} /\ flow'[f].at = "signing"
    BY <1>0, <2>2, <2>4 DEF FlowsOK, Active
  <2>6. \A g \in Flow : g # f => flow'[g].at = "none"
    BY <1>0, <2>5 DEF Active
  <2>7. MintsAlone'
    BY <2>2, <2>3, <2>5, <2>6 DEF MintsAlone
  <2>8. RequestsSettled'
    BY <2>5, <2>6 DEF RequestsSettled
  <2> QED
    BY <2>3, <2>7, <2>8 DEF SettledParts, PendingSettled, Kept, SuccessClears, Settled
<1>4. CASE RetryRegistration
  <2> DEFINE record == [at |-> "sent", nft |-> pend, user |-> user]
  <2>1. PICK f \in Flow : Begin(f, record)
    BY <1>4 DEF RetryRegistration
  <2>2. /\ UNCHANGED <<rows, pend, stored, kept, modal>>
        /\ status = "error" /\ status' = "registering" /\ pend # None
    BY <1>4 DEF RetryRegistration
  <2>3. \A g \in Flow : flow[g].at \notin {"signing", "minting"}
    BY <2>2 DEF SettledParts, MintsAlone
  <2>4. flow'[f].at = "sent" /\ flow'[f].nft = pend /\ \A g \in Flow : g # f => flow'[g] = flow[g]
    BY <1>0, <2>1 DEF Begin, FlowsOK
  <2>5. MintsAlone'
    BY <2>3, <2>4 DEF MintsAlone
  <2>6. RequestsSettled'
    BY <2>2, <2>4 DEF SettledParts, RequestsSettled, PendingSettled, Settled
  <2> QED
    BY <2>2, <2>5, <2>6 DEF SettledParts, PendingSettled, Kept, SuccessClears, Settled
<1>5. CASE Reset
  <2>1. stored = None
    <3>1. CASE status = "success"
      BY <3>1 DEF SettledParts, SuccessClears
    <3>2. CASE status = "error"
      BY <1>5, <3>2, Zenon DEF Reset
    <3> QED
      BY <1>5, <3>1, <3>2 DEF Reset
  <2> QED
    BY <1>5, <2>1 DEF Reset, SettledParts, MintsAlone, RequestsSettled,
                      PendingSettled, Kept, SuccessClears, Settled, Active
<1>6. CASE Revisit
  BY <1>6 DEF Revisit, Fresh, SettledParts, MintsAlone, RequestsSettled,
              PendingSettled, Kept, SuccessClears, Settled, Active
<1>7. CASE Reload
  <2>1. \A f \in Flow : flow'[f].at \notin {"signing", "minting"}
    BY <1>0, <1>7 DEF Reload, NoFlow, FlowsOK
  <2>2. \A f \in Flow : flow'[f] = flow[f] \/ flow'[f].at = "none"
    BY <1>0, <1>7 DEF Reload, NoFlow, FlowsOK
  <2>3. /\ UNCHANGED <<rows, stored, kept>>
        /\ status' = "idle" /\ pend' = stored
    BY <1>7 DEF Reload, Fresh
  <2>4. MintsAlone'
    BY <2>1 DEF MintsAlone
  <2>5. RequestsSettled'
    BY <2>2, <2>3 DEF SettledParts, RequestsSettled, Settled
  <2> QED
    BY <2>3, <2>4, <2>5 DEF SettledParts, PendingSettled, Kept, SuccessClears, Settled
<1> QED
  BY <1>1, <1>2, <1>3, <1>4, <1>5, <1>6, <1>7

\* The steps of a flow.
LEMMA FlowSettled ==
    ASSUME MintTypeOK, RequestsKnown, SettledParts, NEW f \in Flow, StepOf(f)
    PROVE  SettledParts'
<1> USE MintAssumption
<1>0. FlowsOK /\ kept \subseteq Nft /\ stored \in Nft \cup {None} /\ pend \in Nft \cup {None}
  BY DEF MintTypeOK
<1>1. f \in Active
  BY StepIsActive
<1>2. flow[f].at # "signing" => flow[f].nft \in Nft
  BY <1>0, <1>1, FlowKnows
<1>3. \A n \in Nft : rows[n] # None => rows'[n] # None
  BY RowsStay DEF MintNext, StepOf
<1>4. \A g \in Flow : g # f => flow'[g] = flow[g]
  BY <1>0 DEF StepOf, Proceed, Declined, Sign, Resolve, Decide, Commit, Registered, Refused,
              SignUnheard, ResolveFails, RequestFails, ReplyLost, Failed, End, Goto, FlowsOK
<1>5. \A g \in Flow : flow[g].at \in {"signing", "minting"} => g = f
  BY <1>1 DEF SettledParts, MintsAlone
<1>6. \A g \in Flow : flow[g].at \in {"sent", "checked", "registered", "refused"} =>
          flow[g].nft \in Nft
  BY <1>0, FlowKnows DEF Active
<1>7. CASE Failed(f) /\ UNCHANGED <<rows, kept>>
  <2>1. flow'[f].at = "none" /\ UNCHANGED <<pend, stored>> /\ status' \in {status, "error"}
    BY <1>0, <1>7 DEF Failed, End, NoFlow, SetPage, FlowsOK
  <2>2. MintsAlone'
    BY <1>4, <1>5, <2>1 DEF MintsAlone
  <2>3. RequestsSettled'
    BY <1>4, <1>6, <1>7, <2>1 DEF SettledParts, RequestsSettled, Settled
  <2> QED
    BY <1>0, <1>7, <2>1, <2>2, <2>3
       DEF SettledParts, PendingSettled, Kept, SuccessClears, Settled
<1>8. CASE Sign(f)
  <2>1. /\ flow'[f].at = "minting" /\ Active' = Active
        /\ UNCHANGED <<rows, pend, modal, mine, stored, kept>>
        /\ status' = IF mine = f THEN "minting" ELSE status
    BY <1>0, <1>1, <1>8 DEF Sign, SetPage, FlowsOK, Flows, Active
  <2>2. /\ Active = {f} /\ stored = None /\ status # "success"
        /\ pend = None \/ (mine = f /\ status \in {"signing", "minting"} /\ ~modal)
    BY <1>8 DEF Sign, At, SettledParts, MintsAlone
  <2>3. MintsAlone'
    BY <1>4, <1>5, <2>1, <2>2 DEF MintsAlone
  <2>4. RequestsSettled'
    BY <1>4, <2>1 DEF SettledParts, RequestsSettled, Settled
  <2> QED
    BY <2>1, <2>2, <2>3, <2>4 DEF SettledParts, PendingSettled, Kept, SuccessClears, Settled
<1>9. CASE Resolve(f)
  <2>1. Active = {f} /\ stored = None /\ status # "success" /\ (pend = None \/ mine = f)
    BY <1>9 DEF Resolve, At, SettledParts, MintsAlone
  <2>2. \A g \in Flow : g # f => flow'[g].at = "none"
    BY <1>4, <2>1 DEF Active
  <2>3. flow'[f].at = "sent" /\ flow'[f].nft = flow[f].nft /\ flow[f].nft \in Nft
    BY <1>0, <1>2, <1>9 DEF Resolve, At, Goto, FlowsOK, Flows
  <2>4. /\ stored' = flow[f].nft /\ kept' = kept \cup {flow[f].nft} /\ rows' = rows
        /\ pend' = IF mine = f THEN flow[f].nft ELSE pend
        /\ status' = IF mine = f THEN "registering" ELSE status
    BY <1>9 DEF Resolve, SetPage
  <2>5. MintsAlone'
    BY <2>2, <2>3 DEF MintsAlone
  <2>6. RequestsSettled'
    BY <2>2, <2>3, <2>4 DEF RequestsSettled, Settled
  <2>7. Kept'
    BY <1>0, <2>1, <2>4 DEF SettledParts, Kept
  <2> QED
    BY <2>1, <2>4, <2>5, <2>6, <2>7 DEF SettledParts, PendingSettled, SuccessClears, Settled
<1>10. CASE Decide(f) \/ Commit(f) \/ RequestFails(f)
  <2>1. PICK place \in {"checked", "registered", "refused"} : Goto(f, place)
    BY <1>10 DEF Decide, Commit, RequestFails
  <2>2. flow[f].at \in {"sent", "checked"} /\ UNCHANGED <<page, stored, kept>>
    BY <1>10 DEF Decide, Commit, RequestFails, At
  <2>3. flow'[f].at = place /\ flow'[f].nft = flow[f].nft
    BY <1>0, <2>1 DEF Goto, FlowsOK, Flows
  <2>4. MintsAlone'
    BY <1>4, <1>5, <2>2, <2>3 DEF MintsAlone
  <2>5. \A n \in Nft : Settled(n) => Settled(n)'
    BY <1>3, <2>2 DEF Settled
  <2>6. RequestsSettled'
    BY <1>4, <1>6, <2>2, <2>3, <2>5 DEF SettledParts, RequestsSettled
  <2>7. PendingSettled'
    BY <1>0, <2>2, <2>5 DEF SettledParts, PendingSettled
  <2>8. Kept'
    BY <1>0, <1>3, <2>2 DEF SettledParts, Kept
  <2> QED
    BY <2>2, <2>4, <2>6, <2>7, <2>8 DEF SettledParts, SuccessClears
<1>11. CASE Registered(f)
  <2>1. flow[f].at = "registered" /\ flow[f].nft \in Nft /\ rows[flow[f].nft] # None
    BY <1>2, <1>11 DEF Registered, At, RequestsKnown
  <2>2. Settled(flow[f].nft)
    BY <2>1 DEF SettledParts, RequestsSettled
  <2>3. /\ flow'[f].at = "none" /\ UNCHANGED <<rows, kept>>
        /\ stored' = IF f \in deaf THEN stored ELSE None
        /\ IF mine = f THEN pend' = None ELSE UNCHANGED <<status, pend>>
    BY <1>0, <1>11 DEF Registered, End, NoFlow, FlowsOK
  <2>4. \A n \in Nft : Settled(n) => Settled(n)'
    BY <2>1, <2>2, <2>3 DEF Settled
  <2>5. MintsAlone'
    BY <1>4, <1>5, <2>1, <2>3 DEF MintsAlone
  <2>6. RequestsSettled'
    BY <1>4, <1>6, <2>3, <2>4 DEF SettledParts, RequestsSettled
  <2>7. PendingSettled'
    BY <1>0, <2>3, <2>4 DEF SettledParts, PendingSettled
  <2>8. Kept'
    BY <1>0, <2>1, <2>2, <2>3 DEF SettledParts, Kept, Settled
  <2>9. SuccessClears'
    BY <2>3 DEF SettledParts, SuccessClears, MintTypeOK
  <2> QED
    BY <2>5, <2>6, <2>7, <2>8, <2>9 DEF SettledParts
<1> QED
  BY <1>7, <1>8, <1>9, <1>10, <1>11
     DEF StepOf, Proceed, Declined, Refused, SignUnheard, ResolveFails, ReplyLost

LEMMA SettledStep ==
    ASSUME MintTypeOK, RegisteredInv, SettledInv, [MintNext]_mintVars
    PROVE  SettledInv'
<1>1. SUFFICES ASSUME ~doubled' PROVE SettledParts'
  BY DEF SettledInv
<1>2. ~doubled
  BY <1>1, DoubledStays
<1>3. SettledParts
  BY <1>2 DEF SettledInv
<1>4. CASE UNCHANGED mintVars
  BY <1>3, <1>4 DEF SettledParts, MintsAlone, RequestsSettled, PendingSettled, Kept,
                    SuccessClears, Settled, Active
<1> QED
  BY <1>1, <1>2, <1>3, <1>4, PageSettled, FlowSettled DEF MintNext, StepOf, RegisteredInv

\* A Panda once stored is never forgotten before it is registered, while one
\* mint at a time is made.
THEOREM StoredIsKept == MintSpec => []KeptUntilRegistered
<1>1. MintInit => SettledInv
  BY DEF MintInit, SettledInv, SettledParts, MintsAlone, RequestsSettled, PendingSettled,
         Kept, SuccessClears, NoFlow
<1>2. MintInit => RegisteredInv
  BY DEF MintInit, RegisteredInv, RegisteredToMinter, RequestsKnown, NoFlow, At
<1>3. MintTypeOK /\ RegisteredInv /\ [MintNext]_mintVars => RegisteredInv'
  BY RegisteredStep
<1>4. MintTypeOK /\ RegisteredInv /\ SettledInv /\ [MintNext]_mintVars => SettledInv'
  BY SettledStep
<1>5. SettledInv => KeptUntilRegistered
  BY DEF SettledInv, SettledParts, Kept, KeptUntilRegistered
<1> QED
  BY <1>1, <1>2, <1>3, <1>4, <1>5, MintTypeCorrect, PTL DEF MintSpec

-----------------------------------------------------------------------------
(* The success page.                                                       *)

ShownRegistered == status = "success" => shown \in Nft /\ rows[shown] # None

LEMMA ShownStep ==
    ASSUME MintTypeOK, RegisteredInv, ShownRegistered, [MintNext]_mintVars
    PROVE  ShownRegistered'
<1>1. \A n \in Nft : rows[n] # None => rows'[n] # None
  BY RowsStay
<1>2. ASSUME status' = "success" => status = "success" /\ shown' = shown
      PROVE  ShownRegistered'
  BY <1>1, <1>2 DEF ShownRegistered
<1>3. ASSUME NEW f \in Flow, Registered(f)
      PROVE  ShownRegistered'
  <2>1. flow[f].at = "registered" /\ f \in Active
    BY <1>3 DEF Registered, At, Active
  <2>2. flow[f].nft \in Nft /\ rows[flow[f].nft] # None
    BY <2>1, FlowKnows DEF MintTypeOK, RegisteredInv, RequestsKnown, At
  <2> QED
    BY <1>2, <1>3, <2>2 DEF Registered, ShownRegistered
<1> QED
  BY <1>2, <1>3
     DEF MintNext, Proceed, OpenModal, CloseModal, Confirm, RetryRegistration, Reset, Revisit,
         Reload, ChangeUser, Transfer, Fresh, Declined, Sign, Resolve, Decide, Commit, Refused,
         SignUnheard, ResolveFails, RequestFails, ReplyLost, Failed, SetPage

\* The success page shows a registered Panda, and while one mint at a time is
\* made nothing is left in the storage behind it.
THEOREM SuccessStays == MintSpec => []SuccessIsFinal
<1>1. MintInit => SettledInv /\ RegisteredInv /\ ShownRegistered
  BY DEF MintInit, SettledInv, SettledParts, MintsAlone, RequestsSettled, PendingSettled,
         Kept, SuccessClears, NoFlow, RegisteredInv, RegisteredToMinter, RequestsKnown, At,
         ShownRegistered
<1>2. MintTypeOK /\ RegisteredInv /\ [MintNext]_mintVars => RegisteredInv'
  BY RegisteredStep
<1>3. MintTypeOK /\ RegisteredInv /\ SettledInv /\ [MintNext]_mintVars => SettledInv'
  BY SettledStep
<1>4. MintTypeOK /\ RegisteredInv /\ ShownRegistered /\ [MintNext]_mintVars => ShownRegistered'
  BY ShownStep
<1>5. SettledInv /\ ShownRegistered => SuccessIsFinal
  BY DEF SettledInv, SettledParts, SuccessClears, ShownRegistered, SuccessIsFinal
<1> QED
  BY <1>1, <1>2, <1>3, <1>4, <1>5, MintTypeCorrect, PTL DEF MintSpec

=============================================================================
