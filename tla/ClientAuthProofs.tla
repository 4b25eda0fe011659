--------------------------- MODULE ClientAuthProofs ---------------------------
(***************************************************************************)
(* What ClientAuth promises of the session in one tab, for any number of   *)
(* wallet accounts and whatever the user, the wallet and the clock do.     *)
(***************************************************************************)
EXTENDS ClientAuth, TLAPS

USE DEF session, wallet, lock, onboarding, rendered, history, authVars

\* The steps, in the groups that the proofs below go through.
AccountSteps == (\E a \in Addr : AutoConnect(a) \/ PickWallet(a)) \/ WalletChanges

GoogleSteps == StartGoogle \/ GoogleFails \/ GoogleReturns \/ GoogleOk

CheckSteps == CheckSession \/ CheckOk \/ CheckFails

LEMMA AuthSteps ==
    ASSUME [AuthNext]_authVars
    PROVE  \/ UNCHANGED authVars
           \/ Sync
           \/ \E a \in Addr : LoginOk(a) \/ LoginFails(a)
           \/ AccountSteps \/ GoogleSteps \/ CheckSteps
           \/ TokenExpires \/ SignIn \/ OpenModal \/ OpenMintModal \/ CloseModal
           \/ Logout \/ Reload
  BY DEF AuthNext, EndLogin, AccountSteps, GoogleSteps, CheckSteps

LEMMA SyncSteps ==
    ASSUME Sync
    PROVE  /\ LiftBlocks \/ ClearOther \/ TryLogin
           /\ UNCHANGED <<wallet, modal, google, onboarding, moves>>
  BY DEF Sync

\* The login effect begins a login of the connected account, or none.
LEMMA TryLoginSteps ==
    ASSUME TryLogin
    PROVE  /\ \/ shown = None /\ account # None /\ ~held /\ BeginLogin(account)
              \/ UNCHANGED <<lock, logins>>
           /\ UNCHANGED <<session, oauth, out, left>>
  BY DEF TryLogin

-----------------------------------------------------------------------------
(* Types.                                                                  *)

Flags ==
    /\ expired \in BOOLEAN /\ held \in BOOLEAN /\ auto \in BOOLEAN
    /\ oauth \in BOOLEAN /\ checked \in BOOLEAN
    /\ out \in BOOLEAN /\ hushed \in BOOLEAN

Values ==
    /\ who \in Addr \cup {Google, None} /\ check \in Addr \cup {Google, None}
    /\ method \in {"none", "wallet", "zklogin"} /\ (method = "none" <=> who = None)
    /\ account \in Addr \cup {None}
    /\ inFlight \in Addr \cup {None} /\ failed \in Addr \cup {None}
    /\ logins \in [Addr -> Nat] /\ drops \in [Addr -> Nat]
    /\ modal \in {"no", "open", "leaving"}
    /\ google \in {"none", "preparing", "callback"}
    /\ asked \subseteq {"expired", "replaced"}
    /\ left \subseteq Addr \cup {Google}
    /\ moves \in 0..MaxMoves

\* What the last render saw, and the effects it asked for.
Seen == shown \in Addr \cup {Google, None} /\ due \subseteq Effects

LEMMA TypeParts == AuthTypeOK <=> Flags /\ Values /\ Seen
  BY DEF AuthTypeOK, Flags, Values, Seen

LEMMA AuthTypeInit == AuthInit => Flags /\ Values /\ Seen
<1> SUFFICES ASSUME AuthInit PROVE Flags /\ Values /\ Seen
  OBVIOUS
<1>1. Flags /\ Seen
  BY DEF AuthInit, Flags, Seen
<1>2. logins \in [Addr -> Nat] /\ drops \in [Addr -> Nat]
  BY DEF AuthInit
<1>3. moves \in 0..MaxMoves
  BY AuthAssumption DEF AuthInit
<1> QED
  BY <1>1, <1>2, <1>3 DEF AuthInit, Values

LEMMA FlagsStep ==
    ASSUME Flags, [AuthNext]_authVars
    PROVE  Flags'
<1> USE DEF Flags
<1>1. CASE UNCHANGED authVars
  BY <1>1
<1>2. CASE Sync
  BY <1>2, SyncSteps DEF LiftBlocks, ClearOther, TryLogin, ClearAuth
<1>3. ASSUME NEW a \in Addr, LoginOk(a) \/ LoginFails(a)  PROVE Flags'
  BY <1>3 DEF LoginOk, LoginFails, SetNewToken, SetAuth
<1>4. CASE AccountSteps
  BY <1>4 DEF AccountSteps, AutoConnect, PickWallet, WalletChanges, SetAccount, Allow
<1>5. CASE GoogleSteps
  BY ZenonT(60), <1>5
  DEF GoogleSteps, StartGoogle, GoogleFails, GoogleReturns, GoogleOk, Load, SetNewToken, SetAuth
<1>6. CASE CheckSteps
  BY <1>6 DEF CheckSteps, CheckSession, CheckOk, CheckFails, SetAuth
<1>7. CASE TokenExpires \/ CloseModal \/ OpenMintModal \/ Logout \/ Reload
  BY <1>7 DEF TokenExpires, CloseModal, OpenMintModal, Logout, ClearAuth, Reload, Load
<1>8. CASE SignIn \/ OpenModal
  BY <1>8 DEF SignIn, OpenModal, Allow
<1> QED
  BY <1>1, <1>2, <1>3, <1>4, <1>5, <1>6, <1>7, <1>8, AuthSteps

LEMMA SeenRender ==
    ASSUME Values', NEW pending, pending \subseteq Effects, Render(pending)
    PROVE  Seen'
  BY DEF Seen, Values, Render, Token, Effects

LEMMA Dropped ==
    ASSUME Values, Drop
    PROVE  drops' \in [Addr -> Nat]
  BY DEF Values, Drop

LEMMA ValuesStep ==
    ASSUME Values, [AuthNext]_authVars
    PROVE  Values'
<1> USE AuthAssumption DEF Values
<1>1. CASE UNCHANGED authVars
  BY <1>1
<1>2. CASE Sync
  <2>1. CASE LiftBlocks \/ ClearOther
    <3>1. drops' \in [Addr -> Nat]
      BY <2>1, Dropped DEF LiftBlocks, ClearOther, ClearAuth, Unlock
    <3> QED
      BY <1>2, <2>1, <3>1, SyncSteps DEF LiftBlocks, ClearOther, ClearAuth, Unlock
  <2>2. CASE TryLogin
    <3>1. /\ logins' \in [Addr -> Nat] /\ drops' \in [Addr -> Nat]
          /\ inFlight' \in Addr \cup {None} /\ failed' = failed
      BY <2>2, TryLoginSteps, Dropped DEF BeginLogin
    <3> QED
      BY <1>2, <2>2, <3>1, SyncSteps, TryLoginSteps
  <2> QED
    BY <1>2, <2>1, <2>2, SyncSteps
<1>3. ASSUME NEW a \in Addr, LoginOk(a) \/ LoginFails(a)  PROVE Values'
  <2>1. logins' \in [Addr -> Nat]
    BY <1>3 DEF LoginOk, LoginFails
  <2>2. CASE LoginOk(a)
    BY <2>1, <2>2 DEF LoginOk, SetNewToken, SetAuth, Release
  <2>3. CASE LoginFails(a)
    BY <2>1, <2>3 DEF LoginFails, Release
  <2> QED
    BY <1>3, <2>2, <2>3
<1>4. CASE AccountSteps
  <2>1. ASSUME NEW a \in Addr, AutoConnect(a)  PROVE Values'
    BY <2>1 DEF AutoConnect, SetAccount
  <2>2. ASSUME NEW a \in Addr, PickWallet(a)  PROVE Values'
    BY <2>2, Dropped DEF PickWallet, Allow
  <2>3. CASE WalletChanges
    BY <2>3 DEF WalletChanges, SetAccount, Move
  <2> QED
    BY <1>4, <2>1, <2>2, <2>3 DEF AccountSteps
<1>5. CASE GoogleSteps
  <2>1. CASE StartGoogle
    BY <2>1 DEF StartGoogle, Move
  <2>2. CASE GoogleFails
    BY <2>2 DEF GoogleFails
  <2>3. CASE GoogleReturns
    <3>1. logins' \in [Addr -> Nat] /\ drops' \in [Addr -> Nat]
      BY <2>3 DEF GoogleReturns, Load
    <3> QED
      BY <2>3, <3>1 DEF GoogleReturns, Load
  <2>4. CASE GoogleOk
    BY <2>4 DEF GoogleOk, SetNewToken, SetAuth
  <2> QED
    BY <1>5, <2>1, <2>2, <2>3, <2>4 DEF GoogleSteps
<1>6. CASE CheckSteps
  <2>1. CASE CheckSession \/ CheckFails
    BY <2>1 DEF CheckSession, CheckFails
  <2>2. CASE CheckOk
    BY <2>2 DEF CheckOk, SetAuth
  <2> QED
    BY <1>6, <2>1, <2>2 DEF CheckSteps
<1>7. CASE TokenExpires
  <2>1. asked' \subseteq {"expired", "replaced"}
    BY <1>7 DEF TokenExpires
  <2> QED
    BY <1>7, <2>1 DEF TokenExpires, Move
<1>8. CASE CloseModal \/ OpenMintModal
  <2>1. moves' \in 0..MaxMoves /\ modal' \in {"no", "open", "leaving"}
    BY <1>8 DEF CloseModal, OpenMintModal, Move
  <2> QED
    BY <1>8, <2>1 DEF CloseModal, OpenMintModal
<1>9. CASE Logout
  <2>1. drops' \in [Addr -> Nat] /\ UnderWay \subseteq Addr \cup {Google}
    BY <1>9, Dropped DEF Logout, ClearAuth, Unlock, UnderWay
  <2> QED
    BY <1>9, <2>1 DEF Logout, ClearAuth, Unlock, Move
<1>10. CASE SignIn
  <2>1. logins' \in [Addr -> Nat] /\ drops' \in [Addr -> Nat]
    BY <1>10, Dropped DEF SignIn, Allow
  <2> QED
    BY <1>10, <2>1 DEF SignIn, Allow, Move
<1>11. CASE OpenModal
  BY <1>11, Dropped DEF OpenModal, Allow, Move
<1>12. CASE Reload
  <2>1. logins' \in [Addr -> Nat] /\ drops' \in [Addr -> Nat]
    BY <1>12 DEF Reload, Load
  <2> QED
    BY <1>12, <2>1 DEF Reload, Load, Move
<1> QED
  BY <1>1, <1>2, <1>3, <1>4, <1>5, <1>6, <1>7, <1>8, <1>9, <1>10, <1>11, <1>12, AuthSteps

\* Whatever a step does, it renders or leaves the last render as it is.
LEMMA RenderOrNot ==
    ASSUME Seen, [AuthNext]_authVars
    PROVE  \/ \E pending \in SUBSET Effects : Render(pending)
           \/ due' \subseteq due /\ UNCHANGED shown
<1> USE DEF Seen
<1>1. CASE UNCHANGED authVars
  BY <1>1
<1>2. CASE Sync
  BY <1>2 DEF Sync, LiftBlocks, ClearOther, TryLogin
<1>3. ASSUME NEW a \in Addr, LoginOk(a) \/ LoginFails(a)
      PROVE  \/ \E pending \in SUBSET Effects : Render(pending)
             \/ due' \subseteq due /\ UNCHANGED shown
  BY <1>3 DEF LoginOk, LoginFails, SetNewToken
<1>4. CASE AccountSteps
  BY <1>4 DEF AccountSteps, AutoConnect, PickWallet, WalletChanges, SetAccount, Allow
<1>5. CASE GoogleSteps
  BY <1>5 DEF GoogleSteps, StartGoogle, GoogleFails, GoogleReturns, GoogleOk, Load, SetNewToken
<1>6. CASE CheckSteps
  BY <1>6 DEF CheckSteps, CheckSession, CheckOk, CheckFails
<1>7. CASE TokenExpires \/ CloseModal \/ OpenMintModal \/ Logout \/ Reload
  BY <1>7 DEF TokenExpires, CloseModal, OpenMintModal, Logout, Reload, Load
<1>8. CASE SignIn \/ OpenModal
  BY <1>8 DEF SignIn, OpenModal, Allow
<1> QED
  BY <1>1, <1>2, <1>3, <1>4, <1>5, <1>6, <1>7, <1>8, AuthSteps

LEMMA SeenStep ==
    ASSUME Values', Seen, [AuthNext]_authVars
    PROVE  Seen'
<1>1. CASE \E pending \in SUBSET Effects : Render(pending)
  BY <1>1, SeenRender
<1>2. CASE due' \subseteq due /\ UNCHANGED shown
  BY <1>2 DEF Seen
<1> QED
  BY <1>1, <1>2, RenderOrNot

LEMMA AuthParts == AuthSpec => [](Flags /\ Values /\ Seen)
  BY AuthTypeInit, FlagsStep, ValuesStep, SeenStep, PTL DEF AuthSpec

\* A session has a method and a method a session, and no login counter goes
\* below zero, in every order of effects, logins, checks and page loads.
THEOREM AuthTypeCorrect == AuthSpec => []AuthTypeOK
  BY AuthParts, TypeParts, PTL

-----------------------------------------------------------------------------
(* The session is the connected account's.                                 *)

\* A token that counts has been shown; and unless an effect is to see to it, a
\* wallet session that is shown is the account's.
SessionHolds ==
    /\ Token # None => shown = Token
    /\ "match" \notin due /\ shown # None /\ method = "wallet" /\ account # None
          => who = account

LEMMA SessionInit == AuthInit => SessionHolds
  BY DEF AuthInit, SessionHolds, Token

\* A render asks for the effect if the account or the session is another one.
LEMMA SessionRender ==
    ASSUME SessionHolds, NEW pending, due \subseteq pending, Render(pending)
    PROVE  SessionHolds'
<1>1. CASE <<account, method, who, Token>>' # <<account, method, who, shown>>
  <2>1. "match" \in due'
    BY <1>1 DEF Render
  <2> QED
    BY <2>1 DEF SessionHolds, Render
<1>2. CASE <<account, method, who, Token>>' = <<account, method, who, shown>>
  <2>1. shown' = shown /\ shown' = Token' /\ UNCHANGED <<account, method, who>>
    BY <1>2 DEF Render
  <2>2. "match" \notin due' => "match" \notin due
    BY DEF Render
  <2> QED
    BY <2>1, <2>2 DEF SessionHolds
<1> QED
  BY <1>1, <1>2

\* A step that does not render, and stores no session.
LEMMA SessionKept ==
    ASSUME SessionHolds, UNCHANGED <<who, method, account, shown, due>>,
           expired' = expired \/ expired' = TRUE
    PROVE  SessionHolds'
  BY DEF SessionHolds, Token

LEMMA SessionStep ==
    ASSUME Seen, SessionHolds, [AuthNext]_authVars
    PROVE  SessionHolds'
<1> USE DEF Seen
<1>1. CASE UNCHANGED authVars
  BY <1>1, SessionKept
<1>2. CASE Sync
  <2>1. CASE LiftBlocks
    BY <1>2, <2>1, SyncSteps DEF LiftBlocks, SessionHolds, Render
  <2>2. CASE ClearOther
    BY <2>2 DEF ClearOther, ClearAuth, SessionHolds, Render, Token
  <2>3. CASE TryLogin
    <3>1. UNCHANGED <<who, method, expired, account>>
      BY <1>2, <2>3, SyncSteps, TryLoginSteps
    <3>2. UNCHANGED shown \/ shown' = Token'
      BY <2>3 DEF TryLogin, Render
    <3>3. "match" \in due => account = None \/ ~Mismatch
      BY <2>3 DEF TryLogin
    <3> QED
      BY <3>1, <3>2, <3>3 DEF SessionHolds, Mismatch, Token
  <2> QED
    BY <1>2, <2>1, <2>2, <2>3, SyncSteps
<1>3. ASSUME NEW a \in Addr, LoginOk(a) \/ LoginFails(a)  PROVE SessionHolds'
  <2>1. CASE LoginOk(a)
    BY <2>1, SessionRender DEF LoginOk, SetNewToken
  <2>2. CASE LoginFails(a)
    BY <2>2, SessionRender, SessionKept DEF LoginFails
  <2> QED
    BY <1>3, <2>1, <2>2
<1>4. CASE AccountSteps
  BY <1>4, SessionRender DEF AccountSteps, AutoConnect, PickWallet, WalletChanges, SetAccount, Allow
<1>5. CASE GoogleSteps
  BY <1>5, SessionRender, SessionKept
  DEF GoogleSteps, StartGoogle, GoogleFails, GoogleReturns, GoogleOk, Load, SetNewToken
<1>6. CASE CheckSteps
  BY <1>6, SessionRender, SessionKept DEF CheckSteps, CheckSession, CheckOk, CheckFails
<1>7. CASE TokenExpires \/ CloseModal \/ OpenMintModal
  BY <1>7, SessionKept DEF TokenExpires, CloseModal, OpenMintModal
<1>8. CASE SignIn \/ OpenModal \/ Logout \/ Reload
  BY <1>8, SessionRender DEF SignIn, OpenModal, Allow, Logout, Reload, Load
<1> QED
  BY <1>1, <1>2, <1>3, <1>4, <1>5, <1>6, <1>7, <1>8, AuthSteps

\* Once the effects of WalletAuthSync have run, a wallet session is the
\* connected account's, however late a login, a check or Google sign-in ended.
THEOREM SessionIsAccounts == AuthSpec => []SessionMatches
<1>1. AuthSpec => []SessionHolds
  BY SessionInit, SessionStep, AuthParts, PTL DEF AuthSpec
<1>2. SessionHolds => SessionMatches
  BY DEF SessionHolds, SessionMatches
<1> QED
  BY <1>1, <1>2, PTL

-----------------------------------------------------------------------------
(* Signed out.                                                             *)

\* While somebody is out, no session is left, not even an expired one, and
\* signing in is suppressed.
OutHolds == out => who = None /\ held /\ UnderWay \subseteq left

LEMMA OutInit == AuthInit => OutHolds
  BY DEF AuthInit, OutHolds

\* A step in which the calls under way do not grow.
LEMMA OutKept ==
    ASSUME OutHolds, out' = out, out => who' = None /\ held' /\ left' = left,
           UnderWay' \subseteq UnderWay
    PROVE  OutHolds'
  BY DEF OutHolds

LEMMA OutStep ==
    ASSUME Flags, Values, OutHolds, [AuthNext]_authVars
    PROVE  OutHolds'
<1> USE AuthAssumption
<1>1. CASE UNCHANGED authVars
  BY <1>1 DEF OutHolds, UnderWay
<1>2. CASE Sync
  <2>1. CASE LiftBlocks
    BY <2>1 DEF LiftBlocks, OutHolds
  <2>2. CASE ClearOther
    <3>1. UnderWay' = UnderWay
      BY <1>2, <2>2, SyncSteps DEF ClearOther, UnderWay
    <3> QED
      BY <2>2, <3>1, OutKept DEF ClearOther, ClearAuth
  <2>3. CASE TryLogin
    <3>1. CASE UNCHANGED <<lock, logins>>
      <4>1. UnderWay' = UnderWay
        BY <1>2, <3>1, SyncSteps DEF UnderWay
      <4> QED
        BY <2>3, <4>1, TryLoginSteps DEF OutHolds
    <3>2. CASE ~held
      BY <2>3, <3>2, TryLoginSteps DEF OutHolds
    <3> QED
      BY <2>3, <3>1, <3>2, TryLoginSteps
  <2> QED
    BY <1>2, <2>1, <2>2, <2>3, SyncSteps
<1>3. ASSUME NEW a \in Addr, LoginOk(a) \/ LoginFails(a)  PROVE OutHolds'
  <2>1. CASE LoginOk(a)
    BY <2>1 DEF LoginOk, SetNewToken, SetAuth, OutHolds
  <2>2. CASE LoginFails(a)
    <3>1. /\ logins' = [logins EXCEPT ![a] = @ - 1] /\ logins[a] > 0
          /\ check' = check /\ google' = google
      BY <2>2 DEF LoginFails
    <3>2. \A b \in Addr : logins'[b] > 0 => logins[b] > 0
      BY <3>1 DEF Values
    <3>3. UnderWay' \subseteq UnderWay
      BY <3>1, <3>2 DEF UnderWay
    <3> QED
      BY <2>2, <3>3 DEF LoginFails, OutHolds
  <2> QED
    BY <1>3, <2>1, <2>2
<1>4. CASE AccountSteps
  <2>1. ASSUME NEW a \in Addr, AutoConnect(a)  PROVE OutHolds'
    BY <2>1 DEF AutoConnect, SetAccount, OutHolds, UnderWay
  <2>2. ASSUME NEW a \in Addr, PickWallet(a)  PROVE OutHolds'
    BY <2>2 DEF PickWallet, Allow, OutHolds
  <2>3. CASE WalletChanges
    BY <2>3 DEF WalletChanges, SetAccount, OutHolds, UnderWay
  <2> QED
    BY <1>4, <2>1, <2>2, <2>3 DEF AccountSteps
<1>5. CASE StartGoogle \/ GoogleReturns \/ GoogleOk \/ Reload
  BY <1>5 DEF StartGoogle, GoogleReturns, GoogleOk, Reload, Load, SetNewToken, SetAuth, OutHolds
<1>6. CASE GoogleFails
  <2>1. UnderWay' \subseteq UnderWay
    BY <1>6 DEF GoogleFails, UnderWay
  <2> QED
    BY <1>6, <2>1 DEF GoogleFails, OutHolds
<1>7. CASE CheckSession
  <2>1. ~out'
    BY <1>7 DEF CheckSession, OutHolds
  <2> QED
    BY <2>1 DEF OutHolds
<1>8. CASE CheckOk
  BY <1>8 DEF CheckOk, SetAuth, OutHolds
<1>9. CASE CheckFails
  <2>1. UnderWay' \subseteq UnderWay
    BY <1>9 DEF CheckFails, UnderWay
  <2> QED
    BY <1>9, <2>1 DEF CheckFails, OutHolds
<1>10. CASE TokenExpires \/ CloseModal \/ OpenMintModal
  <2>1. UnderWay' = UnderWay
    BY <1>10 DEF TokenExpires, CloseModal, OpenMintModal, UnderWay
  <2> QED
    BY <1>10, <2>1 DEF TokenExpires, CloseModal, OpenMintModal, OutHolds
<1>11. CASE Logout
  <2>1. UnderWay' = UnderWay
    BY <1>11 DEF Logout, UnderWay
  <2> QED
    BY <1>11, <2>1 DEF Logout, ClearAuth, OutHolds
<1>12. CASE SignIn \/ OpenModal
  BY <1>12 DEF SignIn, OpenModal, Allow, OutHolds
<1> QED
  BY <1>1, <1>2, <1>3, <1>4, <1>5, <1>6, <1>7, <1>8, <1>9, <1>10, <1>11, <1>12, AuthSteps
  DEF GoogleSteps, CheckSteps

\* Who has signed out stays out, with the wallet still connected, and nothing is
\* begun in their name until they ask to sign in, disconnect or load the page.
THEOREM SignedOutHolds == AuthSpec => []SignedOutStays
<1>1. AuthSpec => []OutHolds
  BY OutInit, OutStep, AuthParts, PTL DEF AuthSpec
<1>2. OutHolds => SignedOutStays
  BY DEF OutHolds, SignedOutStays
<1> QED
  BY <1>1, <1>2, PTL

-----------------------------------------------------------------------------
(* One login.                                                              *)

\* Logins of an address but for the one that holds the lock.
Beside(a) == logins[a] - (IF inFlight = a THEN 1 ELSE 0)

\* The lock is held by a login that runs, and the others are those it was
\* taken from.
LoginHolds ==
    \A a \in Addr : (inFlight = a => logins[a] > 0) /\ Beside(a) <= drops[a]

LEMMA LoginInit == AuthInit => LoginHolds
<1> SUFFICES ASSUME AuthInit, NEW a \in Addr
             PROVE  (inFlight = a => logins[a] > 0) /\ Beside(a) <= drops[a]
  BY DEF LoginHolds
<1>1. logins[a] = 0 /\ drops[a] = 0 /\ inFlight = None /\ None \notin Addr
  BY AuthAssumption DEF AuthInit
<1> QED
  BY <1>1 DEF Beside

LEMMA LoginKept ==
    ASSUME LoginHolds, UNCHANGED <<lock, logins>>
    PROVE  LoginHolds'
  BY DEF LoginHolds, Beside

\* A page load ends every login.
LEMMA LoginNone ==
    ASSUME inFlight' = None, logins' = [a \in Addr |-> 0], drops' = [a \in Addr |-> 0]
    PROVE  LoginHolds'
<1> SUFFICES ASSUME NEW a \in Addr
             PROVE  (inFlight' = a => logins'[a] > 0) /\ Beside(a)' <= drops'[a]
  BY DEF LoginHolds
<1>1. logins'[a] = 0 /\ drops'[a] = 0 /\ None \notin Addr
  BY AuthAssumption
<1> QED
  BY <1>1 DEF Beside

\* Whoever takes the lock from a login is counted.
LEMMA LoginDropped ==
    ASSUME Values, LoginHolds, Drop, inFlight' = None, logins' = logins
    PROVE  LoginHolds'
<1> SUFFICES ASSUME NEW a \in Addr
             PROVE  (inFlight' = a => logins'[a] > 0) /\ Beside(a)' <= drops'[a]
  BY DEF LoginHolds
<1>1. logins[a] \in Nat /\ drops[a] \in Nat /\ Beside(a) <= drops[a] /\ None \notin Addr
  BY AuthAssumption DEF Values, LoginHolds
<1>2. CASE inFlight = a
  <2>1. drops'[a] = drops[a] + 1
    BY <1>1, <1>2 DEF Drop, Values
  <2> QED
    BY <1>1, <1>2, <2>1 DEF Beside
<1>3. CASE inFlight # a
  <2>1. drops'[a] = drops[a]
    BY <1>3 DEF Drop, Values
  <2> QED
    BY <1>1, <1>3, <2>1 DEF Beside
<1> QED
  BY <1>2, <1>3

\* A login that begins holds the lock, which whoever held it loses.
LEMMA LoginBegun ==
    ASSUME Values, LoginHolds, NEW b \in Addr, inFlight' = b,
           logins' = [logins EXCEPT ![b] = @ + 1], Drop
    PROVE  LoginHolds'
<1> SUFFICES ASSUME NEW a \in Addr
             PROVE  (inFlight' = a => logins'[a] > 0) /\ Beside(a)' <= drops'[a]
  BY DEF LoginHolds
<1>1. logins[a] \in Nat /\ drops[a] \in Nat /\ Beside(a) <= drops[a] /\ None \notin Addr
  BY AuthAssumption DEF Values, LoginHolds
<1>2. logins'[a] = IF a = b THEN logins[a] + 1 ELSE logins[a]
  BY DEF Values
<1>3. drops'[a] = IF inFlight = a THEN drops[a] + 1 ELSE drops[a]
  BY <1>1 DEF Drop, Values
<1> QED
  BY <1>1, <1>2, <1>3 DEF Beside

LEMMA LoginStep ==
    ASSUME Values, LoginHolds, [AuthNext]_authVars
    PROVE  LoginHolds'
<1>1. CASE UNCHANGED authVars
  BY <1>1, LoginKept
<1>2. CASE Sync
  <2>1. CASE LiftBlocks \/ ClearOther
    BY <2>1, LoginDropped DEF LiftBlocks, ClearOther, ClearAuth, Unlock
  <2>2. CASE TryLogin
    <3>1. CASE UNCHANGED <<lock, logins>>
      BY <3>1, LoginKept
    <3>2. CASE account # None /\ BeginLogin(account) /\ ~UNCHANGED <<lock, logins>>
      <4>1. account \in Addr /\ inFlight # account
        BY <3>2 DEF Values, BeginLogin, MayLogin
      <4>2. inFlight' = account /\ logins' = [logins EXCEPT ![account] = @ + 1] /\ Drop
        BY <3>2, <4>1 DEF BeginLogin
      <4> QED
        BY <4>1, <4>2, LoginBegun
    <3> QED
      BY <2>2, <3>1, <3>2, TryLoginSteps
  <2> QED
    BY <1>2, <2>1, <2>2, SyncSteps
<1>3. ASSUME NEW b \in Addr, LoginOk(b) \/ LoginFails(b)  PROVE LoginHolds'
  <2>1. logins' = [logins EXCEPT ![b] = @ - 1] /\ logins[b] > 0 /\ Release(b)
    BY <1>3 DEF LoginOk, LoginFails
  <2> SUFFICES ASSUME NEW a \in Addr
               PROVE  (inFlight' = a => logins'[a] > 0) /\ Beside(a)' <= drops'[a]
    BY DEF LoginHolds
  <2>2. /\ logins[a] \in Nat /\ drops[a] \in Nat /\ Beside(a) <= drops[a]
        /\ inFlight = a => logins[a] > 0
        /\ None \notin Addr
    BY AuthAssumption DEF Values, LoginHolds
  <2>3. logins'[a] = (IF a = b THEN logins[a] - 1 ELSE logins[a]) /\ drops'[a] = drops[a]
    BY <2>1 DEF Values, Release
  <2>4. inFlight' = IF inFlight = b THEN None ELSE inFlight
    BY <2>1 DEF Release
  <2> QED
    BY <2>1, <2>2, <2>3, <2>4 DEF Beside
<1>4. CASE AccountSteps
  <2>1. CASE (\E a \in Addr : AutoConnect(a)) \/ WalletChanges
    BY <2>1, LoginKept DEF AutoConnect, WalletChanges, SetAccount
  <2>2. ASSUME NEW a \in Addr, PickWallet(a)  PROVE LoginHolds'
    BY <2>2, LoginDropped DEF PickWallet, Allow
  <2> QED
    BY <1>4, <2>1, <2>2 DEF AccountSteps
<1>5. CASE StartGoogle \/ GoogleFails \/ GoogleOk
  BY <1>5, LoginKept DEF StartGoogle, GoogleFails, GoogleOk
<1>6. CASE GoogleReturns \/ Reload
  BY <1>6, LoginNone DEF GoogleReturns, Reload, Load
<1>7. CASE CheckSteps
  BY <1>7, LoginKept DEF CheckSteps, CheckSession, CheckOk, CheckFails
<1>8. CASE TokenExpires \/ CloseModal \/ OpenMintModal
  BY <1>8, LoginKept DEF TokenExpires, CloseModal, OpenMintModal
<1>9. CASE Logout
  BY <1>9, LoginDropped DEF Logout, ClearAuth, Unlock
<1>10. CASE SignIn
  <2>1. account \in Addr
    BY <1>10 DEF SignIn, Values
  <2> QED
    BY <1>10, <2>1, LoginBegun DEF SignIn, Allow
<1>11. CASE OpenModal
  BY <1>11, LoginDropped DEF OpenModal, Allow
<1> QED
  BY <1>1, <1>2, <1>3, <1>4, <1>5, <1>6, <1>7, <1>8, <1>9, <1>10, <1>11, AuthSteps
  DEF GoogleSteps

\* An address has one login beside those that the lock was taken from, in every
\* order of effects, buttons, sign-outs, account switches and late answers.
THEOREM OneLoginHolds == AuthSpec => []OneLogin
<1>1. AuthSpec => []LoginHolds
  BY LoginInit, LoginStep, AuthParts, PTL DEF AuthSpec
<1>2. ASSUME Values, LoginHolds
      PROVE  OneLogin
  <2> SUFFICES ASSUME NEW a \in Addr
               PROVE  logins[a] + (IF inFlight = a THEN 0 ELSE 1) <= 1 + drops[a]
    BY DEF OneLogin
  <2>1. logins[a] \in Nat /\ drops[a] \in Nat /\ Beside(a) <= drops[a]
    BY <1>2 DEF Values, LoginHolds
  <2> QED
    BY <2>1 DEF Beside
<1> QED
  BY <1>1, <1>2, AuthParts, PTL

=============================================================================
