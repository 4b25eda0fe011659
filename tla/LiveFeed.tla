------------------------------- MODULE LiveFeed -------------------------------
(***************************************************************************)
(* One tab of the frontend on the user's hub: the connection that          *)
(* useWebSocket opens, drops and opens again, the market subscription of   *)
(* the candle chart (useMarketCandles), the simulation subscription of the *)
(* Panda page (useSimulationWs), and the hub itself (UserHub).  The user's *)
(* other tabs appear as what they do to the hub: join, command, leave.     *)
(*                                                                         *)
(* What a socket carries is ordered, its opening and closing take time,    *)
(* and the effects of a page run with the status change that triggers      *)
(* them.  Delays, back-off and close codes are left out: a timer may fire  *)
(* at any time.  All tokens are the same user's.                           *)
(***************************************************************************)
EXTENDS UserHub

CONSTANTS
    Socket,    \* the tab's sockets, 1..n; one that has ended may stand for a later one
    Guest,     \* sockets of other tabs
    MaxMoves,  \* bound on what users do
    MaxFaults  \* bound on failures

ASSUME FeedAssumption ==
    /\ Conn = Socket \cup Guest /\ Socket \cap Guest = {}
    /\ Socket \subseteq Nat \ {0}
    /\ MaxMoves \in Nat /\ MaxFaults \in Nat

VARIABLES
    authed,   \* a token is held
    status,   \* of useWebSocket
    ref,      \* wsRef, None for null
    again,    \* shouldReconnectRef
    debounce, \* connectDebounceRef is armed
    timer,    \* reconnectTimer is armed
    sock,     \* readyState of each socket, "free" when it has ended
    up,       \* commands on their way to the hub
    view,     \* the pair of a chart with live ticks (wsEnabled), as a set
    key,      \* marketSubKeyRef
    watch,    \* the Panda whose running simulation the page shows, as a set
    moves, faults,
    crossed,  \* history: a socket was left behind: opened beside one that had
              \*   not ended, or dropped before it was open
    taken     \* history: another tab's command touched what this tab needs

line == <<status, ref, again, debounce, timer, sock>>
page == <<view, key, watch>>
count == <<moves, faults, taken>>
feedVars == <<hub, authed, line, up, page, count, crossed>>

None == 0

\* The page is loaded, with a persisted token or without one.
FeedInit ==
    /\ HubInit
    /\ authed \in BOOLEAN /\ debounce = authed
    /\ status = "idle" /\ ref = None
    /\ again = TRUE /\ timer = FALSE
    /\ sock = [s \in Socket |-> "free"]
    /\ up = [s \in Socket |-> <<>>]
    /\ view = {} /\ key = {} /\ watch = {}
    /\ moves = 0 /\ faults = 0
    /\ crossed = FALSE /\ taken = FALSE

IsOpen(s) == s # None /\ sock[s] = "open"

\* sendCommand: on the socket that is referred to, if it is open.
Send(cmds) == up' = IF IsOpen(ref) THEN [up EXCEPT ![ref] = @ \o cmds] ELSE up

Move == moves < MaxMoves /\ moves' = moves + 1 /\ UNCHANGED <<faults, taken>>

Fault == faults < MaxFaults /\ faults' = faults + 1 /\ UNCHANGED <<moves, taken>>

-----------------------------------------------------------------------------
(* useWebSocket.                                                           *)

\* The effect on the token arms the connect.
SignIn ==
    /\ Move
    /\ ~authed
    /\ authed' = TRUE
    /\ debounce' = TRUE
    /\ UNCHANGED <<hub, status, ref, again, timer, sock, up, page, crossed>>

\* MUTANT of SignOut: the socket is forgotten and not closed.
SignOutForgets ==
    /\ Move
    /\ authed
    /\ authed' = FALSE
    /\ debounce' = FALSE /\ timer' = FALSE /\ again' = FALSE
    /\ ref' = None
    /\ status' = "idle"
    /\ key' = {}
    /\ crossed' = (crossed \/ (ref # None /\ ~IsOpen(ref)))
    /\ UNCHANGED <<hub, sock, up, view, watch>>

\* disconnect: a socket that is still connecting is forgotten, not closed.
SignOut ==
    /\ Move
    /\ authed
    /\ authed' = FALSE
    /\ debounce' = FALSE /\ timer' = FALSE /\ again' = FALSE
    /\ sock' = IF IsOpen(ref) THEN [sock EXCEPT ![ref] = "closing"] ELSE sock
    /\ ref' = None
    /\ status' = "idle"
    /\ key' = {}
    /\ crossed' = (crossed \/ (ref # None /\ ~IsOpen(ref)))
    /\ UNCHANGED <<hub, up, view, watch>>

\* connect, by the debounce or the reconnect timer.
Connect ==
    /\ authed
    /\ debounce \/ timer
    /\ debounce' = FALSE /\ timer' = FALSE /\ again' = TRUE
    /\ status' = "connecting"
    /\ key' = {}
    /\ \E s \in Socket :
          /\ sock[s] = "free" /\ s \notin Sockets
          /\ \A x \in Socket : x < s => sock[x] # "free" \/ x \in Sockets
          /\ ref' = s
          /\ sock' = [x \in Socket |-> IF x = s THEN "connecting"
                                       ELSE IF x = ref THEN "closing" ELSE sock[x]]
    /\ crossed' = (crossed \/ \E x \in Socket : sock[x] # "free")
    /\ UNCHANGED <<hub, authed, up, view, watch, count>>

\* onopen, and the effects of the two subscriptions if the tab was not
\* connected: what they send goes to the socket referred to.
Opened(s) ==
    /\ sock[s] = "connecting" /\ s \in Sockets
    /\ sock' = [sock EXCEPT ![s] = "open"]
    /\ status' = "open"
    /\ IF status = "open" THEN UNCHANGED <<key, up>>
       ELSE /\ key' = view
            /\ LET cmds == (IF view = {} THEN <<>> ELSE <<SubscribeMarket(view)>>)
                           \o SetToSeq({SubscribeSimulation(k) : k \in watch})
               IN  up' = IF ref = s \/ IsOpen(ref) THEN [up EXCEPT ![ref] = @ \o cmds] ELSE up
    /\ UNCHANGED <<hub, authed, ref, again, debounce, timer, view, watch, count, crossed>>

\* MUTANT of OnClose: it does not connect again.
OnCloseGivesUp(s) ==
    /\ sock' = [sock EXCEPT ![s] = "free"]
    /\ up' = [up EXCEPT ![s] = <<>>]
    /\ ref' = None
    /\ status' = "closed"
    /\ key' = {}
    /\ UNCHANGED <<authed, again, debounce, timer, view, watch, crossed>>

\* onclose of any socket, the one referred to or an older one.
OnClose(s) ==
    /\ sock' = [sock EXCEPT ![s] = "free"]
    /\ up' = [up EXCEPT ![s] = <<>>]
    /\ ref' = None
    /\ status' = "closed"
    /\ key' = {}
    /\ timer' = (timer \/ again)
    /\ UNCHANGED <<authed, again, debounce, view, watch, crossed>>

\* The closing handshake is over: the hub has heard of it, or began it.
Closed(s) ==
    /\ sock[s] \in {"open", "closing"}
    /\ (sock[s] = "closing" /\ s \notin Sockets) \/ s \in shut
    /\ OnClose(s)
    /\ UNCHANGED <<hub, count>>

-----------------------------------------------------------------------------
(* The page.                                                               *)

\* A chart with live ticks is opened, or turned to another pair.
ShowPair(p) ==
    /\ Move
    /\ view # {p}
    /\ view' = {p}
    /\ IF status = "open" THEN key' = {p} /\ Send(<<SubscribeMarket({p})>>)
       ELSE UNCHANGED <<key, up>>
    /\ UNCHANGED <<hub, authed, line, watch, crossed>>

\* The chart is turned to an interval without ticks.
ShowHistory ==
    /\ Move
    /\ view # {}
    /\ view' = {}
    /\ key' = {}
    /\ IF key # {} THEN Send(<<UnsubscribeMarket>>) ELSE UNCHANGED up
    /\ UNCHANGED <<hub, authed, line, watch, crossed>>

\* The page with the chart is left: it sends nothing.
LeaveChart ==
    /\ Move
    /\ view # {}
    /\ view' = {} /\ key' = {}
    /\ UNCHANGED <<hub, authed, line, up, watch, crossed>>

\* useSimulationWs: the effect subscribes, its cleanup unsubscribes.
Watch(k) ==
    /\ Move
    /\ watch = {}
    /\ watch' = {k}
    /\ IF status = "open" THEN Send(<<SubscribeSimulation(k)>>) ELSE UNCHANGED up
    /\ UNCHANGED <<hub, authed, line, view, key, crossed>>

Unwatch(k) ==
    /\ Move
    /\ k \in watch
    /\ watch' = {}
    /\ IF status = "open" THEN Send(<<UnsubscribeSimulation(k)>>) ELSE UNCHANGED up
    /\ UNCHANGED <<hub, authed, line, view, key, crossed>>

-----------------------------------------------------------------------------
(* The tab's sockets at the hub, and the other tabs.                       *)

tabVars == <<authed, line, page, crossed>>

Reach(s) ==
    /\ sock[s] = "connecting"
    /\ Fetch(s)
    /\ UNCHANGED <<tabVars, up, count>>

Deliver(s) ==
    /\ s \in Sockets \ shut
    /\ up[s] # <<>>
    /\ Handle(Head(up[s]))
    /\ up' = [up EXCEPT ![s] = Tail(@)]
    /\ UNCHANGED <<tabVars, count>>

\* The hub hears that a socket was closed, after what it carried.
Heard(s) ==
    /\ sock[s] \in {"closing", "free"}
    /\ up[s] = <<>> \/ s \in shut
    /\ SocketClosed(s)
    /\ up' = [up EXCEPT ![s] = <<>>]
    /\ UNCHANGED <<tabVars, count>>

GuestJoins(g) == Move /\ Fetch(g) /\ UNCHANGED <<tabVars, up>>

GuestLeaves(g) == SocketClosed(g) /\ UNCHANGED <<tabVars, up, count>>

\* The hub keeps one selection per user: another tab's replaces or drops it.
GuestCommands(g) ==
    /\ moves < MaxMoves
    /\ moves' = moves + 1
    /\ g \in Sockets \ shut
    /\ \E c \in {SubscribeMarket({p}) : p \in Pair} \cup {UnsubscribeMarket}
               \cup {SubscribeSimulation(k) : k \in Panda}
               \cup {UnsubscribeSimulation(k) : k \in Panda} :
          Handle(c) /\ taken' = (taken \/ (view \cup watch) \cap (c.drop \ c.add) # {})
    /\ UNCHANGED <<tabVars, up, faults>>

-----------------------------------------------------------------------------
(* Faults.                                                                 *)

\* The connection fails, before it is made or later; the hub may hear later.
Drop(s) ==
    /\ Fault
    /\ sock[s] \in {"connecting", "open", "closing"}
    /\ OnClose(s)
    /\ UNCHANGED hub

\* Sockets the hub had accepted are lost with it.
HubRestarts ==
    /\ Fault
    /\ Restart
    /\ sock' = [s \in Socket |-> IF s \in Sockets THEN "free" ELSE sock[s]]
    /\ up' = [s \in Socket |-> IF s \in Sockets THEN <<>> ELSE up[s]]
    /\ IF \E s \in Socket \cap Sockets : sock[s] # "free"
       THEN /\ ref' = None /\ status' = "closed" /\ key' = {}
            /\ timer' = (timer \/ again)
       ELSE UNCHANGED <<ref, status, key, timer>>
    /\ UNCHANGED <<authed, again, debounce, view, watch, crossed>>

-----------------------------------------------------------------------------
Carry(s) == Reach(s) \/ Opened(s) \/ Closed(s) \/ Deliver(s) \/ Heard(s)

HubWorks == FinishStop /\ UNCHANGED <<tabVars, up, count>>

FeedNext ==
    \/ SignIn \/ SignOut \/ Connect
    \/ \E s \in Socket : Carry(s) \/ Drop(s)
    \/ \E p \in Pair : ShowPair(p)
    \/ ShowHistory \/ LeaveChart
    \/ \E k \in Panda : Watch(k) \/ Unwatch(k)
    \/ \E g \in Guest : GuestJoins(g) \/ GuestLeaves(g) \/ GuestCommands(g)
    \/ HubWorks
    \/ Hibernate /\ UNCHANGED <<tabVars, up, count>>
    \/ HubRestarts

\* Armed timers fire, and what is on a socket arrives.
FeedFairness ==
    /\ WF_feedVars(Connect)
    /\ \A s \in Socket : WF_feedVars(Carry(s))

FeedSpec == FeedInit /\ [][FeedNext]_feedVars /\ FeedFairness

-----------------------------------------------------------------------------
(* Properties.                                                             *)

FeedTypeOK ==
    /\ HubTypeOK
    /\ {authed, again, debounce, timer, crossed, taken} \subseteq BOOLEAN
    /\ status \in {"idle", "connecting", "open", "closed"}
    /\ ref \in Socket \cup {None}
    /\ sock \in [Socket -> {"free", "connecting", "open", "closing"}]
    /\ up \in [Socket -> Seq(Command)]
    /\ {view, key} \subseteq SUBSET Pair /\ watch \subseteq Panda
    /\ moves \in 0..MaxMoves /\ faults \in 0..MaxFaults

Live == {s \in Socket : sock[s] \in {"connecting", "open"}}

\* "One Hub WebSocket per authenticated user", and none without a token: but
\* for a socket left behind by an earlier sign-out, the sockets that live are
\* the one the tab refers to, and the status it shows is that socket's.
OneSocket ==
    ~crossed => /\ Live \subseteq {ref}
                /\ ~authed => Live = {} /\ status # "open"
                /\ status = "open" => IsOpen(ref)

\* How often the tab receives an event of a topic.
Copies(topic) ==
    Cardinality({s \in Socket : sock[s] = "open" /\ s \in Sockets \ shut})
    * (Cardinality({i \in DOMAIN strays : topic \in strays[i]})
       + IF topic \in current THEN 1 ELSE 0)

Settled == pending = <<>> /\ shut = {} /\ \A s \in Socket : up[s] = <<>>

\* A connected tab gets every event of what it shows, and gets it once,
\* after any sequence of views, drops, restarts and reconnects: the
\* subscription was lost with the socket, or kept by the hub, or both.  Four
\* things break it: a socket left behind, stops that crossed, another tab that
\* subscribes to its own pair, and a hub that slept and has no state.
OneCopy ==
    Settled /\ status = "open" /\ ~(crossed \/ tangled \/ taken \/ unheard)
        => \A t \in view \cup watch : Copies(t) = 1

\* A tab that holds a token comes to have a socket it can send on, whatever
\* was dropped, evicted or restarted.  A socket left behind may prevent it for
\* ever: when the hub evicts it, its onclose makes the tab forget the new one
\* and open a third, for which the hub evicts the next.
Reconnects == authed ~> ~authed \/ crossed \/ (status = "open" /\ IsOpen(ref))

=============================================================================
