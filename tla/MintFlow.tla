------------------------------- MODULE MintFlow -------------------------------
(***************************************************************************)
(* Minting a Panda from one tab: the mint page and its hook (useMintPanda),*)
(* the pending registration it keeps in sessionStorage (pendingMint), the  *)
(* transaction on chain, and the registration of the minted object with    *)
(* the backend (register_mint), which may be retried.                      *)
(*                                                                         *)
(* A flow is one call of executeMint or retryRegistration with the request *)
(* it makes.  It belongs to the page that began it: a flow whose page was  *)
(* left goes on without one, and one whose page was reloaded goes on at    *)
(* the backend only.  The wallet that signs is that of the session.        *)
(*                                                                         *)
(* The object and the digest of a request come from one transaction, in    *)
(* Resolve, and are stored together: the backend's rewriting of an object  *)
(* that is not the digest's never applies to them, and a Panda stands for  *)
(* both.  The event of the mint always names the minter (panda.move).      *)
(***************************************************************************)
EXTENDS Integers

CONSTANTS
    Nft,       \* Pandas that may be minted
    User,
    None,
    Flow,      \* flows under way at one time, 1..n
    MaxMoves,  \* bound on page loads, visits, session changes and transfers
    MaxFaults  \* bound on lost replies and failed calls

ASSUME MintAssumption ==
    /\ None \notin Nft \cup User
    /\ Flow \subseteq Nat \ {0}
    /\ MaxMoves \in Nat /\ MaxFaults \in Nat

VARIABLES
    owner,    \* on chain: who minted each Panda, as the event of its digest says
    holder,   \* on chain: the address that owns it, None for one kept in an object
    rows,     \* pandas: owner_id of each registered one
    user,     \* the session of the tab
    status,   \* of the page
    pend,     \* pendingRegistration
    shown,    \* result
    modal,    \* signModalOpen
    mine,     \* the flow of this page
    stored,   \* tp-pending-mint-registration in sessionStorage
    flow,
    deaf,     \* flows whose page was reloaded: nobody hears the reply
    kept,     \* history: Pandas that have been stored
    doubled,  \* history: a mint began, or an error was reset, with a flow of an
              \*   earlier visit under way or a Panda stored
    moves, faults

page == <<status, pend, shown, modal, mine>>
chain == <<owner, holder>>
server == <<chain, rows>>
count == <<moves, faults>>
history == <<kept, doubled>>
mintVars == <<server, user, page, stored, flow, deaf, history, count>>

NoFlow == [at |-> "none", nft |-> None, user |-> None]

Flows == [at : {"none", "signing", "minting", "sent", "checked", "registered", "refused"},
          nft : Nft \cup {None}, user : User \cup {None}]

MintInit ==
    /\ owner = [n \in Nft |-> None] /\ holder = [n \in Nft |-> None]
    /\ rows = [n \in Nft |-> None]
    /\ user = None
    /\ status = "idle" /\ pend = None /\ shown = None /\ modal = FALSE /\ mine = 0
    /\ stored = None
    /\ flow = [f \in Flow |-> NoFlow]
    /\ deaf = {}
    /\ kept = {} /\ doubled = FALSE
    /\ moves = 0 /\ faults = 0

At(f, place) == flow[f].at = place

Goto(f, place) == flow' = [flow EXCEPT ![f].at = place]

End(f) == flow' = [flow EXCEPT ![f] = NoFlow] /\ deaf' = deaf \ {f}

Active == {f \in Flow : flow[f].at # "none"}

Pending == {"signing", "minting", "registering"}

Move == moves < MaxMoves /\ moves' = moves + 1 /\ UNCHANGED faults

Fault == faults < MaxFaults /\ faults' = faults + 1 /\ UNCHANGED moves

\* A flow sets the state of its own page, if that is still there.
SetPage(f, s) == status' = IF mine = f THEN s ELSE status

\* The first flow that is free.
Begin(f, record) ==
    /\ f \notin Active /\ \A g \in Flow : g < f => g \in Active
    /\ flow' = [flow EXCEPT ![f] = record]
    /\ mine' = f

-----------------------------------------------------------------------------
(* The page.                                                               *)

\* "Mint Panda NFT"; an error with a pending Panda offers the retry instead.
OpenModal ==
    /\ user # None /\ ~modal
    /\ status = "idle" \/ (status = "error" /\ pend = None)
    /\ modal' = TRUE
    /\ UNCHANGED <<server, user, status, pend, shown, mine, stored, flow, deaf, history, count>>

CloseModal ==
    /\ modal
    /\ modal' = FALSE
    /\ UNCHANGED <<server, user, status, pend, shown, mine, stored, flow, deaf, history, count>>

\* executeMint up to the signature; signed out it is an error.
Confirm ==
    /\ modal
    /\ IF user = None
       THEN status' = "error" /\ UNCHANGED <<shown, modal, mine, flow, doubled>>
       ELSE /\ status' = "signing"
            /\ shown' = None /\ modal' = FALSE
            /\ \E f \in Flow : Begin(f, [NoFlow EXCEPT !.at = "signing", !.user = user])
            /\ doubled' = (doubled \/ stored # None \/ Active # {})
    /\ UNCHANGED <<server, user, pend, stored, deaf, kept, count>>

\* "Retry backend sync"
RetryRegistration ==
    /\ user # None
    /\ status = "error" /\ pend # None
    /\ status' = "registering"
    /\ \E f \in Flow : Begin(f, [at |-> "sent", nft |-> pend, user |-> user])
    /\ UNCHANGED <<server, user, pend, shown, modal, stored, deaf, history, count>>

\* "Try again" and "Mint another"
Reset ==
    /\ ~modal
    /\ (status = "error" /\ pend = None /\ user # None) \/ status = "success"
    /\ doubled' = (doubled \/ (status = "error" /\ (Active # {} \/ stored # None)))
    /\ status' = "idle" /\ pend' = None /\ shown' = None /\ modal' = FALSE
    /\ stored' = None
    /\ UNCHANGED <<server, user, mine, flow, deaf, kept, count>>

\* The page is new: the effect of the hook loads what is stored.
Fresh ==
    /\ status' = "idle" /\ pend' = stored /\ shown' = None /\ modal' = FALSE /\ mine' = 0

\* Another page of the application and back; flows go on.
Revisit ==
    /\ Move
    /\ Fresh
    /\ UNCHANGED <<server, user, stored, flow, deaf, history>>

\* Requests that were sent go on.
Reload ==
    /\ Move
    /\ Fresh
    /\ flow' = [f \in Flow |-> IF flow[f].at \in {"signing", "minting"} THEN NoFlow ELSE flow[f]]
    /\ deaf' = {f \in Active : flow[f].at \notin {"signing", "minting"}}
    /\ UNCHANGED <<server, user, stored, history>>

\* Sign-in, sign-out or another account; flows keep the token they began with.
ChangeUser ==
    /\ Move
    /\ \E u \in (User \cup {None}) \ {user} : user' = u
    /\ UNCHANGED <<server, page, stored, flow, deaf, history>>

-----------------------------------------------------------------------------
(* executeMint, from the signature to the request.                         *)

\* MUTANT of Failed: the pending registration is dropped with the error.
FailedDrops(f) ==
    /\ End(f)
    /\ IF f \in deaf THEN UNCHANGED <<status, stored>>
       ELSE SetPage(f, "error") /\ stored' = None
    /\ UNCHANGED <<pend, shown, modal, mine>>

\* The catch of both calls: the page shows the error, what is stored stays.
Failed(f) ==
    /\ End(f)
    /\ SetPage(f, "error")
    /\ UNCHANGED <<pend, shown, modal, mine, stored>>

\* The user declines, or the wallet fails before it sends anything.
Declined(f) ==
    /\ At(f, "signing")
    /\ Failed(f)
    /\ UNCHANGED <<server, user, history, count>>

MintOnChain(f, n) ==
    /\ owner[n] = None
    /\ owner' = [owner EXCEPT ![n] = flow[f].user]
    /\ holder' = [holder EXCEPT ![n] = flow[f].user]

\* A Panda has "store": whoever holds it gives it to another address, or keeps
\* it in an object, and takes it out again.
Transfer ==
    /\ Move
    /\ \E n \in Nft : \E h \in (User \cup {None}) \ {holder[n]} :
          owner[n] # None /\ holder' = [holder EXCEPT ![n] = h]
    /\ UNCHANGED <<owner, rows, user, page, stored, flow, deaf, history>>

\* The transaction runs and the page has its digest.
Sign(f) ==
    /\ At(f, "signing")
    /\ \E n \in Nft :
          /\ MintOnChain(f, n)
          /\ flow' = [flow EXCEPT ![f].at = "minting", ![f].nft = n]
    /\ SetPage(f, "minting")
    /\ UNCHANGED <<rows, user, pend, shown, modal, mine, stored, deaf, history, count>>

\* It runs and the answer is lost: nothing of the Panda is known here.
SignUnheard(f) ==
    /\ Fault
    /\ At(f, "signing")
    /\ \E n \in Nft : MintOnChain(f, n)
    /\ Failed(f)
    /\ UNCHANGED <<rows, user, history>>

\* resolvePandaObjectIdFromDigest; the Panda is stored before it is registered.
Resolve(f) ==
    /\ At(f, "minting")
    /\ stored' = flow[f].nft
    /\ pend' = IF mine = f THEN flow[f].nft ELSE pend
    /\ kept' = kept \cup {flow[f].nft}
    /\ Goto(f, "sent")
    /\ SetPage(f, "registering")
    /\ UNCHANGED <<server, user, shown, modal, mine, deaf, doubled, count>>

\* The node does not answer in time: the digest is not kept.
ResolveFails(f) ==
    /\ Fault
    /\ At(f, "minting")
    /\ Failed(f)
    /\ UNCHANGED <<server, user, history>>

-----------------------------------------------------------------------------
(* register_mint.                                                          *)

\* MUTANT of MayRegister: who minted the Panda is not compared.
MayRegisterAny(u, n) == holder[n] \in {u, None}

\* The user is the sender of the mint transaction, and the owner of the object
\* now if that is an address.
MayRegister(u, n) == owner[n] = u /\ holder[n] \in {u, None}

\* decide_existing_mint and the checks on chain.
Decide(f) ==
    /\ At(f, "sent")
    /\ LET n == flow[f].nft
           u == flow[f].user
       IN  Goto(f, IF rows[n] = u THEN "registered"
                   ELSE IF rows[n] # None \/ ~MayRegister(u, n) THEN "refused"
                   ELSE "checked")
    /\ UNCHANGED <<server, user, page, stored, deaf, history, count>>

\* The insert, which the unique sui_object_id refuses the second time.
Commit(f) ==
    /\ At(f, "checked")
    /\ LET n == flow[f].nft
       IN  IF rows[n] = None
           THEN rows' = [rows EXCEPT ![n] = flow[f].user] /\ Goto(f, "registered")
           ELSE UNCHANGED rows /\ Goto(f, "refused")
    /\ UNCHANGED <<chain, user, page, stored, deaf, history, count>>

\* The request fails on the way or at the chain's node.
RequestFails(f) ==
    /\ Fault
    /\ At(f, "sent") \/ At(f, "checked")
    /\ Goto(f, "refused")
    /\ UNCHANGED <<server, user, page, stored, deaf, history>>

\* MUTANT of Registered: what is stored stays.
RegisteredKeeps(f) ==
    /\ At(f, "registered")
    /\ End(f)
    /\ IF mine = f
       THEN status' = "success" /\ pend' = None /\ shown' = flow[f].nft
       ELSE UNCHANGED <<status, pend, shown>>
    /\ UNCHANGED <<server, user, modal, mine, stored, history, count>>

\* registerOnBackend has its answer; the storage is cleared whatever it holds.
Registered(f) ==
    /\ At(f, "registered")
    /\ End(f)
    /\ stored' = IF f \in deaf THEN stored ELSE None
    /\ IF mine = f
       THEN status' = "success" /\ pend' = None /\ shown' = flow[f].nft
       ELSE UNCHANGED <<status, pend, shown>>
    /\ UNCHANGED <<server, user, modal, mine, history, count>>

Refused(f) ==
    /\ At(f, "refused")
    /\ Failed(f)
    /\ UNCHANGED <<server, user, history, count>>

\* The row is there but the reply does not arrive.
ReplyLost(f) ==
    /\ Fault
    /\ At(f, "registered")
    /\ Failed(f)
    /\ UNCHANGED <<server, user, history>>

-----------------------------------------------------------------------------
Proceed(f) ==
    \/ Declined(f) \/ Sign(f) \/ Resolve(f)
    \/ Decide(f) \/ Commit(f) \/ Registered(f) \/ Refused(f)

MintNext ==
    \/ OpenModal \/ CloseModal \/ Confirm \/ RetryRegistration \/ Reset
    \/ Revisit \/ Reload \/ ChangeUser \/ Transfer
    \/ \E f \in Flow :
          Proceed(f) \/ SignUnheard(f) \/ ResolveFails(f) \/ RequestFails(f) \/ ReplyLost(f)

MintSpec == MintInit /\ [][MintNext]_mintVars

-----------------------------------------------------------------------------
(* Properties.                                                             *)

\* Every flow knows its user and, once signed, its Panda.
FlowsOK ==
    /\ flow \in [Flow -> Flows]
    /\ \A f \in Active :
          /\ flow[f].user # None
          /\ flow[f].at # "signing" => flow[f].nft # None
    /\ deaf \subseteq Active

\* Types; and a page that waits has a flow of its own under way.
MintTypeOK ==
    /\ owner \in [Nft -> User \cup {None}] /\ holder \in [Nft -> User \cup {None}]
    /\ rows \in [Nft -> User \cup {None}]
    /\ user \in User \cup {None}
    /\ status \in {"idle", "success", "error"} \cup Pending
    /\ pend \in Nft \cup {None} /\ shown \in Nft \cup {None} /\ stored \in Nft \cup {None}
    /\ modal \in BOOLEAN /\ mine \in Flow \cup {0}
    /\ mine \notin deaf /\ (status \in Pending => mine \in Active)
    /\ FlowsOK
    /\ kept \subseteq Nft /\ doubled \in BOOLEAN
    /\ moves \in 0..MaxMoves /\ faults \in 0..MaxFaults

\* A Panda is registered for the user who minted it, whoever holds it by then
\* and whoever retries with the registration that another user of the tab left
\* pending.
RegisteredToMinter == \A n \in Nft : rows[n] # None => rows[n] = owner[n]

\* A Panda that was stored stays stored until it is registered, over lost
\* replies, failed requests, retries, reloads, visits and other users.  A mint
\* that begins while one is under way or pending breaks it: there is room for
\* one, and the first registration that succeeds clears it.
KeptUntilRegistered ==
    \A n \in kept : ~doubled => rows[n] # None \/ stored = n

\* The success page shows a Panda that is registered, and leaves nothing
\* behind that a later visit would offer to register again.
SuccessIsFinal ==
    status = "success" => rows[shown] # None /\ (~doubled => stored = None)

=============================================================================
