------------------------------ MODULE ClientAuth ------------------------------
(***************************************************************************)
(* Who is signed in, in one tab: the session in the auth store, the wallet *)
(* account that the browser has connected, the wallet logins under way and *)
(* the lock on them (walletLoginSession), the effects that keep session    *)
(* and account together (WalletAuthSync), Google sign-in with its redirect *)
(* and the onboarding check.                                               *)
(*                                                                         *)
(* A login is one call: nonce, signature and connect end together, well or *)
(* not; so is connecting a wallet.  A change of the store, the account or  *)
(* the lock renders WalletAuthSync again; its effects run some time later. *)
(* That a token has expired is seen by a render and by nothing else.  The  *)
(* network a wallet is on, the wording of errors, other tabs and the       *)
(* survey's own page are left out.                                         *)
(***************************************************************************)
EXTENDS Integers

CONSTANTS
    Addr,     \* wallet accounts
    Google,   \* the zkLogin address
    None,
    MaxMoves  \* bound on what the user, the wallet and the clock do

ASSUME AuthAssumption == Google # None /\ {Google, None} \cap Addr = {} /\ MaxMoves \in Nat

VARIABLES
    who,      \* user and tokens of the store, which are set together
    method,   \* authMethod
    expired,  \* the access token is
    held,     \* walletAutoLoginSuppressed
    account,  \* useCurrentAccount
    auto,     \* SafeWalletAutoConnect has not tried yet
    inFlight, failed, \* inFlightAddress, failedAddress
    drops,    \* history: how often the lock was taken from a login of an address
    logins,   \* wallet logins under way, for each address
    oauth,    \* the suppress flag of OAuth in sessionStorage
    modal,    \* the connect modal, with its suppress flag; leaving: a wallet is connected
    google,   \* where Google sign-in is
    check,    \* OnboardingGuard: the session it asks about, Google sign-in's included
    asked,    \* what has become of the token it asked with
    checked,  \* its ref: it has asked
    shown,    \* the effective token at the last render of WalletAuthSync
    due,      \* its effects that a render has found changed dependencies of
    out,      \* history: the user has signed out and has not asked to come back
    left,     \* history: whose calls were under way when they did
    hushed,   \* history: the effect on login was silenced, or had no cause to run
    moves

session == <<who, method, expired, held>>
wallet == <<account, auto>>
lock == <<inFlight, failed, drops>>
onboarding == <<check, asked, checked>>
rendered == <<shown, due>>
history == <<out, left, hushed>>
authVars == <<session, wallet, lock, logins, oauth, modal, google, onboarding, rendered,
              history, moves>>

\* The effect on a session of another account, and the one that signs in.
Effects == {"match", "login"}

AuthInit ==
    /\ who = None /\ method = "none" /\ expired = FALSE /\ held = FALSE
    /\ account = None /\ auto = TRUE
    /\ inFlight = None /\ failed = None
    /\ logins = [a \in Addr |-> 0] /\ drops = [a \in Addr |-> 0]
    /\ oauth = FALSE /\ modal = "no" /\ google = "none"
    /\ check = None /\ asked = {} /\ checked = FALSE
    /\ shown = None /\ due = Effects
    /\ out = FALSE /\ left = {} /\ hushed = FALSE
    /\ moves = 0

\* resolveEffectiveAccessToken
Token == IF expired THEN None ELSE who

Move == moves < MaxMoves /\ moves' = moves + 1

\* WalletAuthSync renders: pending effects and those with a changed dependency.
Render(pending) ==
    /\ shown' = Token'
    /\ due' = pending
          \cup {e \in {"match"} : <<account, method, who, Token>>' # <<account, method, who, shown>>}
          \cup {e \in {"login"} : <<account, method, held, Token>>' # <<account, method, held, shown>>}

-----------------------------------------------------------------------------
(* The store.                                                              *)

SetAuth(owner, how, old) ==
    /\ who' = owner
    /\ method' = IF how # "none" THEN how ELSE IF method # "none" THEN method ELSE "wallet"
    /\ expired' = old
    /\ held' = FALSE
    /\ out' = FALSE

\* A login or Google sign-in stores a token that no render has seen.
SetNewToken(owner, how) ==
    /\ SetAuth(owner, how, FALSE)
    /\ asked' = {a \in asked \cup {"replaced"} : check # None}
    /\ Render(Effects)

\* What resetWalletLoginState and clearWalletLoginFailure do to a login that runs.
Drop == drops' = IF inFlight = None THEN drops ELSE [drops EXCEPT ![inFlight] = @ + 1]

Unlock == inFlight' = None /\ failed' = None /\ Drop

\* MUTANT of ClearAuth: the method stays.
ClearAuthKeepsMethod ==
    /\ who' = None /\ UNCHANGED method /\ expired' = FALSE
    /\ held' = TRUE
    /\ Unlock

\* clearAuth, which drops the lock of a login under way as well.
ClearAuth ==
    /\ who' = None /\ method' = "none" /\ expired' = FALSE
    /\ held' = TRUE
    /\ Unlock

-----------------------------------------------------------------------------
(* The wallet login.                                                       *)

\* MUTANT of MayLogin: any login under way refuses another.
MayLoginAlone(a) == inFlight = None /\ failed # a

\* MUTANT of MayLogin: a login under way is not looked at.
MayLoginAgain(a) == failed # a

\* tryAcquireWalletLogin
MayLogin(a) == inFlight # a /\ failed # a

\* loginWithWallet up to its first await; the lock of another address is lost.
BeginLogin(a) ==
    IF MayLogin(a)
    THEN /\ inFlight' = a
         /\ logins' = [logins EXCEPT ![a] = @ + 1]
         /\ IF inFlight = a THEN UNCHANGED drops ELSE Drop
         /\ UNCHANGED failed
    ELSE UNCHANGED <<lock, logins>>

Release(a) == inFlight' = (IF inFlight = a THEN None ELSE inFlight) /\ UNCHANGED drops

LoginOk(a) ==
    /\ logins[a] > 0
    /\ logins' = [logins EXCEPT ![a] = @ - 1]
    /\ Release(a)
    /\ UNCHANGED <<failed, wallet, oauth, modal, google, check, checked, left, hushed, moves>>
    /\ SetNewToken(a, "wallet")

LoginFails(a) ==
    /\ logins[a] > 0
    /\ logins' = [logins EXCEPT ![a] = @ - 1]
    /\ failed' = a
    /\ Release(a)
    /\ UNCHANGED <<session, wallet, oauth, modal, google, onboarding, history, moves>>
    /\ IF inFlight = a THEN Render(due) ELSE UNCHANGED rendered

-----------------------------------------------------------------------------
(* WalletAuthSync.                                                         *)

\* MUTANT of Mismatch: only a session that is no wallet's is compared.
MismatchOfOthers == shown # None /\ method # "wallet" /\ account # None /\ who # account

Mismatch == shown # None /\ method = "wallet" /\ account # None /\ who # account

\* Without an account every block on signing in is lifted.
LiftBlocks ==
    /\ "match" \in due /\ account = None
    /\ Unlock
    /\ oauth' = FALSE /\ held' = FALSE
    /\ out' = FALSE
    /\ UNCHANGED <<who, method, expired, logins, left, hushed>>
    /\ Render({})

\* The session of another account is cleared; the login, which has rendered
\* with that session, waits for the next effects.
ClearOther ==
    /\ "match" \in due /\ Mismatch
    /\ ClearAuth
    /\ UNCHANGED <<logins, oauth, history>>
    /\ Render({})

\* The login effect, where it has cause to run and nothing silences it.
TryLogin ==
    /\ ~("match" \in due /\ (account = None \/ Mismatch))
    /\ LET asks == "login" \in due /\ account # None /\ shown = None
       IN  /\ IF asks /\ ~held /\ ~oauth /\ modal = "no" /\ method # "zklogin"
              THEN BeginLogin(account) ELSE UNCHANGED <<lock, logins>>
           /\ hushed' = IF asks THEN oauth \/ modal # "no" ELSE hushed
    /\ UNCHANGED <<session, oauth, out, left>>
    /\ IF inFlight' # inFlight THEN Render({}) ELSE due' = {} /\ UNCHANGED shown

\* The effects, in the order of the component.
Sync ==
    /\ due # {}
    /\ UNCHANGED <<wallet, modal, google, onboarding, moves>>
    /\ LiftBlocks \/ ClearOther \/ TryLogin

-----------------------------------------------------------------------------
(* The wallet and the clock.                                               *)

SetAccount(a) ==
    /\ account' = a
    /\ UNCHANGED <<session, lock, logins, oauth, google, onboarding, left>>
    /\ Render(due)

\* SafeWalletAutoConnect, once after a page load.
AutoConnect(a) ==
    /\ auto /\ account = None
    /\ auto' = FALSE
    /\ SetAccount(a)
    /\ UNCHANGED <<modal, out, hushed, moves>>

\* In the wallet: another account, or none any more.
WalletChanges ==
    /\ Move
    /\ account # None
    /\ \E a \in (Addr \cup {None}) \ {account} : SetAccount(a)
    /\ UNCHANGED <<auto, modal, out, hushed>>

\* Nothing is told of it: no timer, and no answer of the backend clears the
\* session.  A token that the check has asked with is no newer.
TokenExpires ==
    /\ Move
    /\ Token # None
    /\ expired' = TRUE
    /\ asked' = {a \in asked \cup {"expired"} : check # None}
    /\ UNCHANGED <<who, method, held, wallet, lock, logins, oauth, modal, google, check,
                   checked, rendered, history>>

-----------------------------------------------------------------------------
(* The buttons.                                                            *)

\* resetWalletLoginState and allowWalletAutoLogin
Allow ==
    /\ failed' = None
    /\ Drop
    /\ oauth' = FALSE /\ held' = FALSE
    /\ out' = FALSE
    /\ UNCHANGED <<who, method, expired, auto, google, onboarding, left>>
    /\ Render(due)

\* "Sign In" beside a connected wallet; it is disabled while a login runs.
SignIn ==
    /\ Move
    /\ account # None /\ Token = None
    /\ held \/ inFlight = None
    /\ UNCHANGED <<account, modal, hushed>>
    /\ Allow
    /\ inFlight' = account
    /\ logins' = [logins EXCEPT ![account] = @ + 1]

\* "Connect Wallet" of the navigation bar, without one.
OpenModal ==
    /\ Move
    /\ account = None /\ Token = None /\ modal = "no"
    /\ held \/ inFlight = None
    /\ modal' = "open"
    /\ UNCHANGED <<account, logins, hushed>>
    /\ Allow
    /\ inFlight' = None

\* "Connect Wallet" of the mint page, without a session or without a signer;
\* it allows nothing.
OpenMintModal ==
    /\ Move
    /\ Token = None \/ (account = None /\ who # Google)
    /\ inFlight = None /\ modal = "no"
    /\ modal' = "open"
    /\ UNCHANGED <<session, wallet, lock, logins, oauth, google, onboarding, rendered, history>>

\* handleConnect.  The account that is connected already changes nothing.
PickWallet(a) ==
    /\ modal = "open"
    /\ modal' = "leaving"
    /\ account' = a
    /\ hushed' = (hushed \/ a = account)
    /\ UNCHANGED <<logins, moves>>
    /\ Allow
    /\ inFlight' = None

\* After the choice or without one: nothing tells the effects.
CloseModal ==
    /\ modal # "no"
    /\ modal' = "no"
    /\ UNCHANGED <<session, wallet, lock, logins, oauth, google, onboarding, rendered, history,
                   moves>>

\* Those whose call may still end in a session.
UnderWay ==
    {a \in Addr : logins[a] > 0} \cup ({check} \ {None}) \cup {g \in {Google} : google # "none"}

\* MUTANT of Logout: signing in again is not suppressed.
LogoutAllows ==
    /\ Move
    /\ shown # None
    /\ who' = None /\ method' = "none" /\ expired' = FALSE
    /\ held' = FALSE
    /\ Unlock
    /\ out' = TRUE /\ left' = UnderWay
    /\ UNCHANGED <<wallet, logins, oauth, modal, google, onboarding, hushed>>
    /\ Render(due)

\* A button that has not rendered since the token expired still offers it.
Logout ==
    /\ Move
    /\ shown # None
    /\ ClearAuth
    /\ out' = TRUE /\ left' = UnderWay
    /\ UNCHANGED <<wallet, logins, oauth, modal, google, onboarding, hushed>>
    /\ Render(due)

-----------------------------------------------------------------------------
(* Google sign-in, which leaves the page and comes back.                   *)

\* In the connect modal.
StartGoogle ==
    /\ Move
    /\ modal = "open" /\ google = "none"
    /\ oauth' = TRUE
    /\ google' = "preparing"
    /\ out' = FALSE
    /\ UNCHANGED <<session, wallet, lock, logins, modal, onboarding, rendered, left, hushed>>

\* prepareZkLoginOAuthSession or the URL fails: the flag stays.
GoogleFails ==
    /\ google \in {"preparing", "callback"}
    /\ google' = "none"
    /\ UNCHANGED <<session, wallet, lock, logins, oauth, modal, onboarding, rendered, history,
                   moves>>

\* A page load: the store is read from localStorage, where held is not kept,
\* and no wallet is connected.
Load(at) ==
    /\ google' = at
    /\ held' = FALSE
    /\ account' = None /\ auto' = TRUE
    /\ inFlight' = None /\ failed' = None
    /\ logins' = [a \in Addr |-> 0] /\ drops' = [a \in Addr |-> 0]
    /\ modal' = "no"
    /\ check' = None /\ asked' = {} /\ checked' = FALSE
    /\ out' = FALSE /\ left' = {} /\ hushed' = FALSE
    /\ UNCHANGED <<who, method, expired, oauth>>
    /\ Render(Effects)

GoogleReturns == google = "preparing" /\ Load("callback") /\ UNCHANGED moves

Reload == Move /\ Load("none")

\* completeWithIdToken
GoogleOk ==
    /\ google = "callback"
    /\ google' = "none"
    /\ oauth' = FALSE
    /\ UNCHANGED <<wallet, lock, logins, modal, check, checked, left, hushed, moves>>
    /\ SetNewToken(Google, "zklogin")

-----------------------------------------------------------------------------
(* OnboardingGuard: once a load, for a user without a survey.              *)

CheckSession ==
    /\ who # None /\ ~checked
    /\ checked' = TRUE
    /\ check' = who
    /\ asked' = {a \in {"expired"} : expired}
    /\ UNCHANGED <<session, wallet, lock, logins, oauth, modal, google, rendered, history, moves>>

\* The answer is stored with the token of the question, which may be an older
\* one than the session's and may have expired.
CheckOk ==
    /\ check # None
    /\ check' = None /\ asked' = {}
    /\ UNCHANGED <<wallet, lock, logins, oauth, modal, google, checked, left, hushed, moves>>
    /\ \E old \in BOOLEAN :
          /\ "expired" \in asked => old
          /\ SetAuth(check, "none", old)
    /\ Render(due \cup {e \in Effects : "replaced" \in asked})

CheckFails ==
    /\ check # None
    /\ check' = None /\ asked' = {} /\ checked' = FALSE
    /\ UNCHANGED <<session, wallet, lock, logins, oauth, modal, google, rendered, history, moves>>

-----------------------------------------------------------------------------
EndLogin(a) == LoginOk(a) \/ LoginFails(a)

AuthNext ==
    \/ Sync
    \/ \E a \in Addr : EndLogin(a) \/ AutoConnect(a) \/ PickWallet(a)
    \/ WalletChanges \/ TokenExpires
    \/ SignIn \/ OpenModal \/ OpenMintModal \/ CloseModal \/ Logout \/ Reload
    \/ StartGoogle \/ GoogleFails \/ GoogleReturns \/ GoogleOk
    \/ CheckSession \/ CheckOk \/ CheckFails

\* Effects run.  Nothing else is asked for: a wallet may never answer a login.
AuthSpec == AuthInit /\ [][AuthNext]_authVars /\ WF_authVars(Sync)

-----------------------------------------------------------------------------
(* Properties.                                                             *)

\* Types; and a method goes with a session and only with one.
AuthTypeOK ==
    /\ {who, check, shown} \subseteq Addr \cup {Google, None}
    /\ method \in {"none", "wallet", "zklogin"} /\ (method = "none" <=> who = None)
    /\ {expired, held, auto, oauth, checked, out, hushed} \subseteq BOOLEAN
    /\ {account, inFlight, failed} \subseteq Addr \cup {None}
    /\ logins \in [Addr -> Nat] /\ drops \in [Addr -> Nat]
    /\ modal \in {"no", "open", "leaving"}
    /\ google \in {"none", "preparing", "callback"}
    /\ asked \subseteq {"expired", "replaced"} /\ due \subseteq Effects
    /\ left \subseteq Addr \cup {Google}
    /\ moves \in 0..MaxMoves

\* Once the effects have run, a wallet session is the connected account's,
\* whichever login, check or Google sign-in ended late and for whom.
SessionMatches ==
    "match" \notin due /\ Token # None /\ method = "wallet" /\ account # None => who = account

\* Who has signed out stays out until they ask to sign in, disconnect or load
\* the page again, though their wallet is still connected and the effects run
\* again.  No call is made in their name meanwhile: only one that was under
\* way when they signed out can bring a session back.
SignedOutStays == out => who = None /\ UnderWay \subseteq left

\* The effects and the button ask for the same login.  An address has no more
\* logins under way than the one that holds the lock and those that the lock
\* was taken from, by a sign-out, a button or a login of another address.
OneLogin == \A a \in Addr : logins[a] + (IF inFlight = a THEN 0 ELSE 1) <= 1 + drops[a]

\* For a connected account without a session a login is begun, or was refused,
\* or it is left to the user, who has signed out or has a dialogue open; it is
\* not forgotten.  It is while nothing has rendered since the session's token
\* expired, and after effects that a dialogue silenced: they are not run again
\* when it closes.
AccountSignedIn ==
    account # None /\ Token = None /\ failed = None /\ method # "zklogin"
        ~> \/ account = None \/ Token # None \/ failed = account
           \/ \E a \in Addr : account = a /\ logins[a] > 0
           \/ held \/ oauth \/ modal # "no" \/ hushed
           \/ shown # None

=============================================================================
