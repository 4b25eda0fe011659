------------------------------- MODULE UserHub -------------------------------
(***************************************************************************)
(* The Durable Object that serves one user's live feed: the sockets of all *)
(* the user's tabs, one set of subscriptions for all of them, and one      *)
(* Redis subscriber that streams the subscribed channels to every socket.  *)
(*                                                                         *)
(* An event handler of the object runs alone but for its awaits on the     *)
(* outside: stopping a subscriber is one, and other events run during it.  *)
(* Storage is not one, so the stored state and the one in memory agree,    *)
(* and `subs' stands for both.  A topic is a panda or a market pair, with  *)
(* all its channels; the text of messages, the replies (which no page      *)
(* reads), the heartbeat and the rate limit are left out.                  *)
(***************************************************************************)
EXTENDS Integers, Sequences, SequencesExt, FiniteSets

CONSTANTS
    Conn,    \* sockets
    Pair,    \* market pairs
    Panda,
    MaxConn  \* MAX_CONNECTIONS_PER_USER

ASSUME HubAssumption == MaxConn \in Nat \ {0} /\ Pair \cap Panda = {}

VARIABLES
    subs,    \* subscriptions: the topics
    awake,   \* this.state is loaded; a hub that hibernated has none
    conns,   \* ctx.getWebSockets(), by connectedAt
    shut,    \* those of them the hub has closed
    current, \* topics of redisSubscriber, {} for null
    dying,   \* redisSubscriber.stop() was called
    pending, \* awaited stops: the topics each will subscribe to afterwards
    strays,  \* topics of streams nobody holds any more
    tangled, \* history: a stop was awaited when another was asked for, or a refresh
    unheard  \* history: a command met a hub without state

stream == <<current, dying, pending, strays>>
hub == <<subs, awake, conns, shut, stream, tangled, unheard>>

Topic == Pair \cup Panda

Command == [drop : SUBSET Topic, add : SUBSET Topic]

SubscribeMarket(pairs) == [drop |-> Pair, add |-> pairs]
UnsubscribeMarket == [drop |-> Pair, add |-> {}]
SubscribeSimulation(k) == [drop |-> {}, add |-> {k}]
UnsubscribeSimulation(k) == [drop |-> {k}, add |-> {}]

HubInit ==
    /\ subs = {} /\ awake = FALSE
    /\ conns = <<>> /\ shut = {}
    /\ current = {} /\ dying = FALSE /\ pending = <<>> /\ strays = <<>>
    /\ tangled = FALSE /\ unheard = FALSE

Sockets == ToSet(conns)

-----------------------------------------------------------------------------
(* The Redis subscriber.                                                   *)

\* stopRedisSubscriber, and then the subscription to topics, if any.
StopThen(topics) ==
    /\ IF current = {}
       THEN current' = topics /\ UNCHANGED <<dying, pending>>
       ELSE dying' = TRUE /\ pending' = Append(pending, topics) /\ UNCHANGED current
    /\ UNCHANGED strays

\* refreshRedisSubscriber, for the topics of that moment.
Refresh(topics) ==
    /\ IF topics # {} /\ topics = current THEN UNCHANGED stream ELSE StopThen(topics)
    /\ tangled' = (tangled \/ pending # <<>>)

\* MUTANT of FinishStop: the stream that was stopped is kept.
FinishStopKeeps ==
    /\ \E i \in DOMAIN pending :
          /\ strays' = IF current # {} THEN Append(strays, current) ELSE strays
          /\ current' = pending[i]
          /\ pending' = RemoveAt(pending, i)
    /\ dying' = FALSE
    /\ UNCHANGED <<subs, awake, conns, shut, tangled, unheard>>

\* An awaited stop returns: redisSubscriber becomes null, whichever stream it
\* holds by then, and the subscription that waited is made.
FinishStop ==
    /\ \E i \in DOMAIN pending :
          /\ strays' = IF current # {} /\ ~dying THEN Append(strays, current) ELSE strays
          /\ current' = pending[i]
          /\ pending' = RemoveAt(pending, i)
    /\ dying' = FALSE
    /\ UNCHANGED <<subs, awake, conns, shut, tangled, unheard>>

-----------------------------------------------------------------------------
(* Events of the object.                                                   *)

\* MUTANT of Evicted: one socket too few is closed.
EvictedLate == ToSet(SubSeq(conns, 1, Len(conns) - MaxConn))

\* evictConnectionsIfNeeded: the oldest, those already closing included.
Evicted == ToSet(SubSeq(conns, 1, Len(conns) - MaxConn + 1))

\* fetch: the only event that loads the state.
Fetch(s) ==
    /\ s \notin Sockets
    /\ awake' = TRUE
    /\ shut' = shut \cup Evicted
    /\ conns' = Append(conns, s)
    /\ Refresh(subs)
    /\ UNCHANGED <<subs, unheard>>

\* MUTANT of Handle: the subscriber is refreshed before the command applies.
HandleLate(c) ==
    IF awake
    THEN /\ subs' = (subs \ c.drop) \cup c.add
         /\ Refresh(subs)
         /\ UNCHANGED <<awake, conns, shut, unheard>>
    ELSE unheard' = TRUE /\ UNCHANGED <<subs, awake, conns, shut, stream, tangled>>

\* handleCommand: without state it returns in silence.
Handle(c) ==
    IF awake
    THEN /\ subs' = (subs \ c.drop) \cup c.add
         /\ Refresh(subs')
         /\ UNCHANGED <<awake, conns, shut, unheard>>
    ELSE unheard' = TRUE /\ UNCHANGED <<subs, awake, conns, shut, stream, tangled>>

\* webSocketClose: the closed socket may or may not be counted by then.
SocketClosed(s) ==
    /\ \E i \in DOMAIN conns : conns[i] = s /\ conns' = RemoveAt(conns, i)
    /\ shut' = shut \ {s}
    /\ \/ UNCHANGED <<stream, tangled>>
       \/ /\ conns' = <<>> /\ current # {}
          /\ StopThen({})
          /\ tangled' = (tangled \/ pending # <<>>)
    /\ UNCHANGED <<subs, awake, unheard>>

\* An idle object without a stream leaves memory; its sockets stay.
Hibernate ==
    /\ awake
    /\ current = {} /\ pending = <<>> /\ strays = <<>>
    /\ awake' = FALSE
    /\ UNCHANGED <<subs, conns, shut, stream, tangled, unheard>>

\* The object is restarted, with a deploy or after a fault: only storage stays.
Restart ==
    /\ awake' = FALSE
    /\ conns' = <<>> /\ shut' = {}
    /\ current' = {} /\ dying' = FALSE /\ pending' = <<>> /\ strays' = <<>>
    /\ UNCHANGED <<subs, tangled, unheard>>

-----------------------------------------------------------------------------
(* Properties.                                                             *)

\* Types; and never more than MaxConn sockets the hub has not closed, however
\* joins, evictions and closes that are not yet answered interleave.
HubTypeOK ==
    /\ {subs, current} \subseteq SUBSET Topic
    /\ {awake, dying, tangled, unheard} \subseteq BOOLEAN
    /\ conns \in Seq(Conn) /\ IsInjective(conns)
    /\ shut \subseteq Sockets
    /\ Cardinality(Sockets \ shut) <= MaxConn
    /\ {pending, strays} \subseteq Seq(SUBSET Topic)

\* One stream at a time, and with no stop under way it carries exactly the
\* subscriptions if anyone is connected: no join, command, close, hibernation
\* or restart leaves a stream behind, or subscriptions without one.  An event
\* that comes while a stop is awaited breaks it: the stop that returns last
\* forgets the stream the other event has made.
OneStream ==
    ~tangled =>
        /\ strays = <<>>
        /\ pending = <<>> => current \in {{}, subs}
        /\ pending = <<>> /\ awake /\ conns # <<>> => current = subs

=============================================================================
