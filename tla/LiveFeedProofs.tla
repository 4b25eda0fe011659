---------------------------- MODULE LiveFeedProofs ----------------------------
(***************************************************************************)
(* What a tab and the hub promise of the live feed, for any number of      *)
(* sockets, tabs, pairs, moves and faults: the hub holds one stream, the   *)
(* tab one socket, and what the tab shows it is told once.                 *)
(***************************************************************************)
EXTENDS LiveFeed, SequenceTheorems, FiniteSetTheorems, TLAPS

USE DEF stream, hub, line, page, count, feedVars, tabVars

-----------------------------------------------------------------------------
(* Sequences and the sets of their elements.                               *)

\* What RemoveAt leaves.
LEMMA RemoveAtProperties ==
    ASSUME NEW S, NEW s \in Seq(S), NEW i \in 1..Len(s)
    PROVE  /\ RemoveAt(s, i) \in Seq(S)
           /\ Len(RemoveAt(s, i)) = Len(s) - 1
           /\ \A j \in 1..Len(s)-1 : RemoveAt(s, i)[j] = IF j < i THEN s[j] ELSE s[j + 1]
<1> DEFINE a == SubSeq(s, 1, i - 1)
           b == SubSeq(s, i + 1, Len(s))
           c == a \o b
           n == Len(s)
<1>1. n \in Nat /\ i \in 1..n /\ \A j \in 1..n : s[j] \in S
  OBVIOUS
<1>2. a \in Seq(S) /\ Len(a) = i - 1 /\ \A j \in 1..i-1 : a[j] = s[j]
  BY <1>1, SubSeqProperties
<1>3. b \in Seq(S) /\ Len(b) = n - i /\ \A j \in 1..n-i : b[j] = s[i + j]
  BY <1>1, SubSeqProperties
<1> HIDE DEF a, b, n
<1>4. /\ c \in Seq(S) /\ Len(c) = Len(a) + Len(b)
      /\ \A j \in 1..Len(a)+Len(b) : c[j] = IF j <= Len(a) THEN a[j] ELSE b[j - Len(a)]
  BY <1>2, <1>3, ConcatProperties
<1> HIDE DEF c
<1>5. Len(c) = n - 1
  BY <1>1, <1>2, <1>3, <1>4
<1>6. ASSUME NEW j \in 1..n-1  PROVE c[j] = IF j < i THEN s[j] ELSE s[j + 1]
  <2>1. j \in 1..Len(a)+Len(b)
    BY <1>1, <1>2, <1>3
  <2>2. CASE j < i
    <3>1. j <= Len(a) /\ a[j] = s[j]
      BY <1>1, <1>2, <2>2
    <3> QED
      BY <1>4, <2>1, <2>2, <3>1
  <2>3. CASE ~(j < i)
    <3> DEFINE k == j - Len(a)
    <3>1. k \in 1..n-i /\ i + k = j + 1 /\ ~(j <= Len(a))
      BY <1>1, <1>2, <1>3, <2>3
    <3>2. c[j] = b[k]
      BY <1>4, <2>1, <3>1
    <3> HIDE DEF k
    <3> QED
      BY <1>3, <2>3, <3>1, <3>2
  <2> QED
    BY <2>2, <2>3
<1> QED
  BY <1>1, <1>4, <1>5, <1>6 DEF c, a, b, n, RemoveAt

\* The first k elements.
LEMMA PrefixProperties ==
    ASSUME NEW S, NEW s \in Seq(S), NEW k \in Int, k <= Len(s)
    PROVE  /\ SubSeq(s, 1, k) \in Seq(S)
           /\ Len(SubSeq(s, 1, k)) = IF 1 <= k THEN k ELSE 0
           /\ \A i \in 1..k : SubSeq(s, 1, k)[i] = s[i]
<1>1. \A i \in 1..k : s[i] \in S
  OBVIOUS
<1> QED
  BY <1>1, SubSeqProperties

\* An element removed from a sequence without repetition is out of it.
LEMMA RemoveOnce ==
    ASSUME NEW S, NEW s \in Seq(S), IsInjective(s), NEW i \in DOMAIN s
    PROVE  /\ RemoveAt(s, i) \in Seq(S)
           /\ IsInjective(RemoveAt(s, i))
           /\ ToSet(RemoveAt(s, i)) = ToSet(s) \ {s[i]}
           /\ s # <<>>
<1> DEFINE r == RemoveAt(s, i)
           n == Len(s)
<1>1. n \in Nat /\ DOMAIN s = 1..n /\ i \in 1..n
  OBVIOUS
<1>2. /\ r \in Seq(S) /\ Len(r) = n - 1
      /\ \A j \in 1..n-1 : r[j] = IF j < i THEN s[j] ELSE s[j + 1]
  BY <1>1, RemoveAtProperties
<1> HIDE DEF r
<1>3. DOMAIN r = 1..n-1
  BY <1>1, <1>2
<1> HIDE DEF n
<1>4. \A j \in 1..n-1 : \E k \in 1..n : k # i /\ r[j] = s[k] /\ k = IF j < i THEN j ELSE j + 1
  BY <1>1, <1>2
<1>5. IsInjective(r)
  <2> SUFFICES ASSUME NEW j \in 1..n-1, NEW k \in 1..n-1, r[j] = r[k]  PROVE j = k
    BY <1>3 DEF IsInjective
  <2> DEFINE jj == IF j < i THEN j ELSE j + 1
             kk == IF k < i THEN k ELSE k + 1
  <2>1. jj \in 1..n /\ kk \in 1..n /\ r[j] = s[jj] /\ r[k] = s[kk]
    BY <1>1, <1>2
  <2>2. jj = kk
    <3> HIDE DEF jj, kk
    <3> QED
      BY <1>1, <2>1 DEF IsInjective
  <2> QED
    BY <1>1, <2>2
<1>6. ASSUME NEW k \in 1..n, k # i  PROVE \E j \in 1..n-1 : r[j] = s[k]
  <2>1. CASE k < i
    BY <1>1, <1>2, <2>1
  <2>2. CASE ~(k < i)
    <3>1. k - 1 \in 1..n-1 /\ ~(k - 1 < i) /\ (k - 1) + 1 = k
      BY <1>1, <1>6, <2>2
    <3> QED
      BY <1>2, <3>1
  <2> QED
    BY <2>1, <2>2
<1>7. ToSet(r) = ToSet(s) \ {s[i]}
  <2>1. ASSUME NEW x \in ToSet(r)  PROVE x \in ToSet(s) \ {s[i]}
    <3>1. PICK j \in 1..n-1 : x = r[j]
      BY <1>3 DEF ToSet
    <3>2. PICK k \in 1..n : k # i /\ x = s[k]
      BY <1>4, <3>1
    <3> QED
      BY <1>1, <3>2 DEF ToSet, IsInjective
  <2>2. ASSUME NEW x \in ToSet(s) \ {s[i]}  PROVE x \in ToSet(r)
    <3>1. PICK k \in 1..n : k # i /\ x = s[k]
      BY <1>1 DEF ToSet
    <3> QED
      BY <1>3, <1>6, <3>1 DEF ToSet
  <2> QED
    BY <2>1, <2>2
<1> QED
  BY <1>1, <1>2, <1>5, <1>7 DEF r, n

\* A new element at the end of a sequence without repetition.
LEMMA AppendOnce ==
    ASSUME NEW S, NEW s \in Seq(S), IsInjective(s), NEW e \in S, e \notin ToSet(s)
    PROVE  /\ Append(s, e) \in Seq(S)
           /\ IsInjective(Append(s, e))
           /\ ToSet(Append(s, e)) = ToSet(s) \cup {e}
           /\ Append(s, e) # <<>>
<1> DEFINE r == Append(s, e)
           n == Len(s)
<1>1. n \in Nat /\ DOMAIN s = 1..n
  OBVIOUS
<1>2. /\ r \in Seq(S) /\ r # <<>> /\ Len(r) = n + 1
      /\ \A i \in 1..n : r[i] = s[i]
      /\ r[n + 1] = e
  BY AppendProperties
<1> HIDE DEF r
<1>3. DOMAIN r = 1..n+1
  BY <1>1, <1>2
<1> HIDE DEF n
<1>4. \A i \in 1..n+1 : i \in 1..n \/ i = n + 1
  BY <1>1
<1>5. \A i \in 1..n : i \in 1..n+1
  BY <1>1
<1>6. ToSet(r) = ToSet(s) \cup {e}
  BY <1>1, <1>2, <1>3, <1>4, <1>5 DEF ToSet
<1>7. \A i \in 1..n : s[i] # e
  BY <1>1 DEF ToSet
<1>8. IsInjective(r)
  BY <1>1, <1>2, <1>3, <1>4, <1>7 DEF IsInjective
<1> QED
  BY <1>2, <1>6, <1>8 DEF r

\* No more values than arguments.
LEMMA ImageCount ==
    ASSUME NEW f, NEW D, IsFiniteSet(D)
    PROVE  /\ IsFiniteSet({f[i] : i \in D})
           /\ Cardinality({f[i] : i \in D}) <= Cardinality(D)
<1> DEFINE T == {f[i] : i \in D}
           g == [i \in D |-> f[i]]
<1>1. g \in Surjection(D, T)
  BY DEF Surjection
<1> HIDE DEF g, T
<1>2. IsFiniteSet(T) /\ Cardinality(T) <= Cardinality(D)
  BY <1>1, FS_Surjection
<1> QED
  BY <1>2 DEF T

LEMMA ElementsFinite == ASSUME NEW S, NEW s \in Seq(S) PROVE IsFiniteSet(ToSet(s))
<1>1. IsFiniteSet(1..Len(s)) /\ DOMAIN s = 1..Len(s)
  BY FS_Interval
<1> QED
  BY <1>1, ImageCount DEF ToSet

-----------------------------------------------------------------------------
(* The events of the hub.                                                  *)

\* Whatever the tab and the others do, the hub sees one of its own events.
HubEvent ==
    \/ FinishStop \/ Hibernate \/ Restart
    \/ \E s \in Conn : Fetch(s) \/ SocketClosed(s)
    \/ \E c \in Command : Handle(c)

LEMMA Commands ==
    /\ \A pairs \in SUBSET Pair : SubscribeMarket(pairs) \in Command
    /\ UnsubscribeMarket \in Command
    /\ \A k \in Panda : SubscribeSimulation(k) \in Command /\ UnsubscribeSimulation(k) \in Command
  BY DEF Command, Topic, SubscribeMarket, UnsubscribeMarket, SubscribeSimulation,
         UnsubscribeSimulation

LEMMA HubSees ==
    ASSUME up \in [Socket -> Seq(Command)], FeedNext
    PROVE  HubEvent \/ UNCHANGED hub
<1> USE FeedAssumption
<1>1. CASE SignIn \/ SignOut \/ Connect
  BY <1>1 DEF SignIn, SignOut, Connect
<1>2. ASSUME NEW s \in Socket, Carry(s) \/ Drop(s)  PROVE HubEvent \/ UNCHANGED hub
  <2>1. CASE Reach(s)
    BY <2>1 DEF Reach, HubEvent
  <2>2. CASE Opened(s) \/ Closed(s) \/ Drop(s)
    BY <2>2 DEF Opened, Closed, Drop
  <2>3. CASE Deliver(s)
    <3>1. Head(up[s]) \in Command /\ Handle(Head(up[s]))
      BY <2>3 DEF Deliver
    <3> QED
      BY <3>1 DEF HubEvent
  <2>4. CASE Heard(s)
    BY <2>4 DEF Heard, HubEvent
  <2> QED
    BY <1>2, <2>1, <2>2, <2>3, <2>4 DEF Carry
<1>3. ASSUME NEW p \in Pair, ShowPair(p)  PROVE UNCHANGED hub
  BY <1>3 DEF ShowPair
<1>4. CASE ShowHistory \/ LeaveChart
  BY <1>4 DEF ShowHistory, LeaveChart
<1>5. ASSUME NEW k \in Panda, Watch(k) \/ Unwatch(k)  PROVE UNCHANGED hub
  BY <1>5 DEF Watch, Unwatch
<1>6. ASSUME NEW g \in Guest, GuestJoins(g) \/ GuestLeaves(g) \/ GuestCommands(g)
      PROVE  HubEvent
  <2>1. CASE GuestJoins(g) \/ GuestLeaves(g)
    BY <2>1 DEF GuestJoins, GuestLeaves, HubEvent
  <2>2. CASE GuestCommands(g)
    <3>1. \E c \in Command : Handle(c)
      BY <2>2, Commands DEF GuestCommands
    <3> QED
      BY <3>1 DEF HubEvent
  <2> QED
    BY <1>6, <2>1, <2>2
<1>7. CASE HubWorks \/ (Hibernate /\ UNCHANGED <<tabVars, up, count>>) \/ HubRestarts
  BY <1>7 DEF HubWorks, HubRestarts, HubEvent
<1> QED
  BY <1>1, <1>2, <1>3, <1>4, <1>5, <1>6, <1>7 DEF FeedNext

\* The sockets still counted after an eviction and a join.
LEMMA Evicts ==
    ASSUME HubTypeOK, NEW s \in Conn, Fetch(s)
    PROVE  /\ Evicted \subseteq Sockets
           /\ Cardinality(Sockets' \ shut') <= MaxConn
<1> DEFINE n == Len(conns)
           m == IF n - MaxConn + 2 < 1 THEN 1 ELSE n - MaxConn + 2
           b == n + 1
           T == {conns'[i] : i \in m..b}
           e == SubSeq(conns, 1, n - MaxConn + 1)
<1>1. n \in Nat /\ conns \in Seq(Conn) /\ DOMAIN conns = 1..n /\ MaxConn \in Nat /\ MaxConn >= 1
  BY HubAssumption DEF HubTypeOK
<1>2. /\ conns' \in Seq(Conn) /\ Len(conns') = n + 1
      /\ \A i \in 1..n : conns'[i] = conns[i]
  BY <1>1, AppendProperties DEF Fetch
<1>3. /\ e \in Seq(Conn)
      /\ Len(e) = IF 1 <= n - MaxConn + 1 THEN n - MaxConn + 1 ELSE 0
      /\ \A i \in 1..n-MaxConn+1 : e[i] = conns[i]
  <2>1. n - MaxConn + 1 \in Int /\ n - MaxConn + 1 <= Len(conns)
    BY <1>1
  <2> QED
    BY <1>1, <2>1, PrefixProperties
<1> HIDE DEF e
<1>4. DOMAIN e = 1..(IF 1 <= n - MaxConn + 1 THEN n - MaxConn + 1 ELSE 0)
  BY <1>3
<1>5. Evicted = ToSet(e)
  BY DEF Evicted, e
<1> HIDE DEF n
<1>6. ToSet(e) \subseteq Sockets
  <2>1. \A i \in DOMAIN e : i \in 1..n /\ e[i] = conns[i]
    BY <1>1, <1>3, <1>4
  <2> QED
    BY <1>1, <2>1 DEF ToSet, Sockets
<1>7. Sockets' \ shut' \subseteq T
  <2> SUFFICES ASSUME NEW x \in Sockets' \ shut'  PROVE x \in T
    OBVIOUS
  <2>1. DOMAIN conns' = 1..n+1
    BY <1>1, <1>2
  <2>2. PICK i \in 1..n+1 : x = conns'[i]
    BY <2>1 DEF Sockets, ToSet
  <2>3. CASE i \in m..b
    BY <2>2, <2>3
  <2>4. CASE i \notin m..b
    <3>1. i \in 1..n /\ i \in 1..n-MaxConn+1 /\ i \in DOMAIN e
      BY <1>1, <1>4, <2>4
    <3>2. x = e[i]
      BY <1>2, <1>3, <2>2, <3>1
    <3>3. x \in Evicted
      BY <1>5, <3>1, <3>2 DEF ToSet
    <3> QED
      BY <3>3 DEF Fetch
  <2> QED
    BY <2>3, <2>4
<1>8. /\ m \in Int /\ b \in Int
      /\ (IF m > b THEN 0 ELSE b - m + 1) <= MaxConn
      /\ (IF m > b THEN 0 ELSE b - m + 1) \in Nat
  BY <1>1
<1> HIDE DEF m, b
<1>9. IsFiniteSet(m..b) /\ Cardinality(m..b) = IF m > b THEN 0 ELSE b - m + 1
  BY <1>8, FS_Interval
<1>10. IsFiniteSet(T) /\ Cardinality(T) <= Cardinality(m..b)
  BY <1>9, ImageCount
<1> HIDE DEF T
<1>11. IsFiniteSet(Sockets' \ shut') /\ Cardinality(Sockets' \ shut') <= Cardinality(T)
  BY <1>7, <1>10, FS_Subset
<1>12. Cardinality(Sockets' \ shut') \in Nat /\ Cardinality(T) \in Nat
  BY <1>10, <1>11, FS_CardinalityType
<1> QED
  BY <1>1, <1>5, <1>6, <1>8, <1>9, <1>10, <1>11, <1>12

\* A stop that is asked for, and a refresh, keep the stream's types.
StreamTyped ==
    /\ current \subseteq Topic /\ dying \in BOOLEAN
    /\ pending \in Seq(SUBSET Topic) /\ strays \in Seq(SUBSET Topic)

LEMMA StopTyped ==
    ASSUME StreamTyped, NEW topics \in SUBSET Topic, StopThen(topics)
    PROVE  StreamTyped'
<1>1. CASE current = {}
  BY <1>1 DEF StopThen, StreamTyped
<1>2. CASE current # {}
  <2>1. pending' \in Seq(SUBSET Topic)
    BY <1>2, AppendProperties DEF StopThen, StreamTyped
  <2> QED
    BY <1>2, <2>1 DEF StopThen, StreamTyped
<1> QED
  BY <1>1, <1>2

LEMMA RefreshTyped ==
    ASSUME StreamTyped, tangled \in BOOLEAN, NEW topics \in SUBSET Topic, Refresh(topics)
    PROVE  StreamTyped' /\ tangled' \in BOOLEAN
<1>1. tangled' \in BOOLEAN
  BY DEF Refresh
<1>2. CASE topics # {} /\ topics = current
  BY <1>1, <1>2 DEF Refresh, StreamTyped
<1>3. CASE ~(topics # {} /\ topics = current)
  BY <1>1, <1>3, StopTyped DEF Refresh
<1> QED
  BY <1>2, <1>3

LEMMA HubTypeInit == HubInit => HubTypeOK
<1> SUFFICES ASSUME HubInit PROVE HubTypeOK
  OBVIOUS
<1>1. conns = <<>> /\ shut = {} /\ Sockets = {}
  BY DEF HubInit, Sockets, ToSet
<1>2. Cardinality(Sockets \ shut) <= MaxConn
  BY <1>1, FS_EmptySet, HubAssumption
<1>3. conns \in Seq(Conn) /\ IsInjective(conns)
  BY <1>1 DEF IsInjective
<1>4. {pending, strays} \subseteq Seq(SUBSET Topic)
  BY DEF HubInit
<1>5. {subs, current} \subseteq SUBSET Topic
  BY DEF HubInit
<1> QED
  BY <1>1, <1>2, <1>3, <1>4, <1>5 DEF HubInit, HubTypeOK

LEMMA HubTypeStep ==
    ASSUME HubTypeOK, HubEvent \/ UNCHANGED hub
    PROVE  HubTypeOK'
<1>0. StreamTyped
  BY DEF HubTypeOK, StreamTyped
<1>1. CASE UNCHANGED hub
  BY <1>1 DEF HubTypeOK, Sockets
<1>2. CASE FinishStop
  <2>1. PICK i \in DOMAIN pending :
           /\ strays' = IF current # {} /\ ~dying THEN Append(strays, current) ELSE strays
           /\ current' = pending[i]
           /\ pending' = RemoveAt(pending, i)
    BY <1>2 DEF FinishStop
  <2>2. i \in 1..Len(pending) /\ pending \in Seq(SUBSET Topic) /\ current' \subseteq Topic
    BY <1>0, <2>1 DEF StreamTyped
  <2>3. pending' \in Seq(SUBSET Topic)
    BY <2>1, <2>2, RemoveAtProperties
  <2>4. strays' \in Seq(SUBSET Topic)
    BY <1>0, <2>1, AppendProperties DEF StreamTyped
  <2>5. UNCHANGED <<subs, awake, conns, shut, tangled, unheard>> /\ dying' = FALSE
    BY <1>2 DEF FinishStop
  <2> QED
    BY <2>2, <2>3, <2>4, <2>5 DEF HubTypeOK, Sockets
<1>3. CASE Hibernate
  BY <1>3 DEF Hibernate, HubTypeOK, Sockets
<1>4. CASE Restart
  <2>1. /\ conns' = <<>> /\ shut' = {} /\ Sockets' = {}
    BY <1>4 DEF Restart, Sockets, ToSet
  <2>2. Cardinality(Sockets' \ shut') <= MaxConn
    BY <2>1, FS_EmptySet, HubAssumption
  <2>3. conns' \in Seq(Conn) /\ IsInjective(conns')
    BY <2>1 DEF IsInjective
  <2>4. {pending', strays'} \subseteq Seq(SUBSET Topic)
    BY <1>4 DEF Restart
  <2>5. {subs', current'} \subseteq SUBSET Topic
    BY <1>4 DEF Restart, HubTypeOK
  <2> QED
    BY <1>4, <2>1, <2>2, <2>3, <2>4, <2>5 DEF Restart, HubTypeOK
<1>5. ASSUME NEW s \in Conn, Fetch(s)  PROVE HubTypeOK'
  <2>1. conns' \in Seq(Conn) /\ IsInjective(conns') /\ Sockets' = Sockets \cup {s}
    BY <1>5, AppendOnce DEF Fetch, HubTypeOK, Sockets
  <2>2. shut' \subseteq Sockets' /\ Cardinality(Sockets' \ shut') <= MaxConn
    BY <1>5, <2>1, Evicts DEF Fetch, HubTypeOK
  <2>3. StreamTyped' /\ tangled' \in BOOLEAN
    BY <1>0, <1>5, RefreshTyped DEF Fetch, HubTypeOK
  <2> QED
    BY <1>5, <2>1, <2>2, <2>3 DEF Fetch, HubTypeOK, StreamTyped
<1>6. ASSUME NEW s \in Conn, SocketClosed(s)  PROVE HubTypeOK'
  <2>1. PICK i \in DOMAIN conns : conns[i] = s /\ conns' = RemoveAt(conns, i)
    BY <1>6 DEF SocketClosed
  <2>2. conns' \in Seq(Conn) /\ IsInjective(conns') /\ Sockets' = Sockets \ {s}
    BY <2>1, RemoveOnce DEF HubTypeOK, Sockets
  <2>3. shut' \subseteq Sockets' /\ Sockets' \ shut' \subseteq Sockets \ shut
    BY <1>6, <2>2 DEF SocketClosed, HubTypeOK
  <2>4. Cardinality(Sockets' \ shut') <= MaxConn
    <3>1. IsFiniteSet(Sockets \ shut)
      BY ElementsFinite, FS_Difference DEF HubTypeOK, Sockets
    <3>2. /\ IsFiniteSet(Sockets' \ shut')
          /\ Cardinality(Sockets' \ shut') <= Cardinality(Sockets \ shut)
      BY <2>3, <3>1, FS_Subset
    <3>3. Cardinality(Sockets' \ shut') \in Nat /\ Cardinality(Sockets \ shut) \in Nat
      BY <3>1, <3>2, FS_CardinalityType
    <3> QED
      BY <3>2, <3>3, HubAssumption DEF HubTypeOK
  <2>5. StreamTyped' /\ tangled' \in BOOLEAN
    <3>1. CASE UNCHANGED <<stream, tangled>>
      BY <1>0, <3>1 DEF StreamTyped, HubTypeOK
    <3>2. CASE StopThen({}) /\ tangled' = (tangled \/ pending # <<>>)
      BY <1>0, <3>2, StopTyped
    <3> QED
      BY <1>6, <3>1, <3>2 DEF SocketClosed
  <2> QED
    BY <1>6, <2>2, <2>3, <2>4, <2>5 DEF SocketClosed, HubTypeOK, StreamTyped
<1>7. ASSUME NEW c \in Command, Handle(c)  PROVE HubTypeOK'
  <2>1. CASE awake
    <3>1. subs' \subseteq Topic
      BY <1>7, <2>1 DEF Handle, Command, HubTypeOK
    <3>2. StreamTyped' /\ tangled' \in BOOLEAN
      BY <1>0, <1>7, <2>1, <3>1, RefreshTyped DEF Handle, HubTypeOK
    <3> QED
      BY <1>7, <2>1, <3>1, <3>2 DEF Handle, HubTypeOK, StreamTyped, Sockets
  <2>2. CASE ~awake
    BY <1>7, <2>2 DEF Handle, HubTypeOK, Sockets
  <2> QED
    BY <2>1, <2>2
<1> QED
  BY <1>1, <1>2, <1>3, <1>4, <1>5, <1>6, <1>7 DEF HubEvent

-----------------------------------------------------------------------------
(* One stream.                                                             *)

\* The topics that will be streamed when the awaited stop has returned.
Coming == IF pending = <<>> THEN current ELSE pending[1]

\* Until stops cross: one stream is held, at most one stop is awaited and it is
\* that stream's; what comes after it is what the users subscribed to, or
\* nothing once the last socket is gone; a hub without state streams nothing.
StreamHolds ==
    ~tangled =>
        /\ strays = <<>>
        /\ dying <=> pending # <<>>
        /\ pending # <<>> => Len(pending) = 1 /\ current # {} /\ awake
        /\ ~awake => current = {}
        /\ Coming \in {{}, subs}
        /\ conns # <<>> => Coming = subs

LEMMA StreamInit == HubInit => StreamHolds
  BY DEF HubInit, StreamHolds, Coming

\* A stop that is the only one asked for.
LEMMA StopHolds ==
    ASSUME HubTypeOK, StreamHolds, ~tangled, pending = <<>>,
           NEW topics \in SUBSET Topic, StopThen(topics)
    PROVE  /\ strays' = <<>>
           /\ dying' <=> pending' # <<>>
           /\ pending' # <<>> => Len(pending') = 1 /\ current' # {} /\ current # {}
           /\ Coming' = topics
<1>1. CASE current = {}
  BY <1>1 DEF StopThen, StreamHolds, Coming
<1>2. CASE current # {}
  <2>1. pending' = <<topics>>
    BY <1>2 DEF StopThen
  <2> QED
    BY <1>2, <2>1 DEF StopThen, StreamHolds, Coming
<1> QED
  BY <1>1, <1>2

LEMMA RefreshHolds ==
    ASSUME HubTypeOK, StreamHolds, NEW topics \in SUBSET Topic, Refresh(topics), ~tangled'
    PROVE  /\ ~tangled /\ pending = <<>>
           /\ strays' = <<>>
           /\ dying' <=> pending' # <<>>
           /\ pending' # <<>> => Len(pending') = 1 /\ current' # {}
           /\ Coming' = topics
<1>1. ~tangled /\ pending = <<>>
  BY DEF Refresh
<1>2. CASE topics # {} /\ topics = current
  BY <1>1, <1>2 DEF Refresh, StreamHolds, Coming
<1>3. CASE ~(topics # {} /\ topics = current)
  BY <1>1, <1>3, StopHolds DEF Refresh
<1> QED
  BY <1>1, <1>2, <1>3

LEMMA StreamStep ==
    ASSUME HubTypeOK, StreamHolds, HubEvent \/ UNCHANGED hub
    PROVE  StreamHolds'
<1> SUFFICES ASSUME ~tangled' PROVE StreamHolds'
  BY DEF StreamHolds
<1>1. CASE UNCHANGED hub
  BY <1>1 DEF StreamHolds, Coming
<1>2. CASE FinishStop
  <2>1. PICK i \in DOMAIN pending :
           /\ strays' = IF current # {} /\ ~dying THEN Append(strays, current) ELSE strays
           /\ current' = pending[i]
           /\ pending' = RemoveAt(pending, i)
    BY <1>2 DEF FinishStop
  <2>2. UNCHANGED <<subs, awake, conns, tangled>> /\ dying' = FALSE
    BY <1>2 DEF FinishStop
  <2>3. pending \in Seq(SUBSET Topic) /\ DOMAIN pending = 1..Len(pending)
    BY DEF HubTypeOK
  <2>4. pending # <<>>
    BY <2>1
  <2>5. Len(pending) = 1 /\ i = 1 /\ dying /\ awake
    BY <2>1, <2>2, <2>3, <2>4 DEF StreamHolds
  <2>6. pending' = <<>>
    <3>0. i \in 1..Len(pending)
      BY <2>3
    <3>1. pending' \in Seq(SUBSET Topic) /\ Len(pending') = Len(pending) - 1
      BY ZenonT(60), <2>1, <2>3, <3>0, RemoveAtProperties
    <3> QED
      BY <2>5, <3>1
  <2>7. current' = pending[1] /\ strays' = strays
    BY <2>1, <2>5
  <2> QED
    BY <2>2, <2>4, <2>5, <2>6, <2>7 DEF StreamHolds, Coming
<1>3. CASE Hibernate
  BY <1>3 DEF Hibernate, StreamHolds, Coming
<1>4. CASE Restart
  BY <1>4 DEF Restart, StreamHolds, Coming
<1>5. ASSUME NEW s \in Conn, Fetch(s)  PROVE StreamHolds'
  <2>1. subs \in SUBSET Topic /\ Refresh(subs) /\ subs' = subs /\ awake' = TRUE
    BY <1>5 DEF Fetch, HubTypeOK
  <2> QED
    BY <2>1, RefreshHolds DEF StreamHolds
<1>6. ASSUME NEW s \in Conn, SocketClosed(s)  PROVE StreamHolds'
  <2>1. conns # <<>> /\ subs' = subs /\ awake' = awake
    BY <1>6 DEF SocketClosed
  <2>2. CASE UNCHANGED <<stream, tangled>>
    BY <2>1, <2>2 DEF StreamHolds, Coming
  <2>3. CASE /\ conns' = <<>> /\ current # {}
             /\ StopThen({}) /\ tangled' = (tangled \/ pending # <<>>)
    <3>1. ~tangled /\ pending = <<>> /\ awake
      BY <2>3 DEF StreamHolds
    <3>2. /\ strays' = <<>>
          /\ dying' <=> pending' # <<>>
          /\ pending' # <<>> => Len(pending') = 1 /\ current' # {} /\ current # {}
          /\ Coming' = {}
      BY <2>3, <3>1, StopHolds
    <3> QED
      BY <2>1, <2>3, <3>1, <3>2 DEF StreamHolds
  <2> QED
    BY <1>6, <2>2, <2>3 DEF SocketClosed
<1>7. ASSUME NEW c \in Command, Handle(c)  PROVE StreamHolds'
  <2>1. CASE awake
    <3>1. subs' \in SUBSET Topic /\ Refresh(subs') /\ awake' = awake
      BY <1>7, <2>1 DEF Handle, Command, HubTypeOK
    <3> QED
      BY <2>1, <3>1, RefreshHolds DEF StreamHolds
  <2>2. CASE ~awake
    BY <1>7, <2>2 DEF Handle, StreamHolds, Coming
  <2> QED
    BY <2>1, <2>2
<1> QED
  BY <1>1, <1>2, <1>3, <1>4, <1>5, <1>6, <1>7 DEF HubEvent

-----------------------------------------------------------------------------
(* Types of the tab.                                                       *)

\* A page watches one Panda at most.
FeedTyped == FeedTypeOK /\ (watch = {} \/ \E k \in Panda : watch = {k})

\* The commands of the effect that subscribes to what is watched.
LEMMA WatchCommands ==
    ASSUME watch = {} \/ \E k \in Panda : watch = {k}
    PROVE  LET cmds == SetToSeq({SubscribeSimulation(k) : k \in watch})
           IN  \/ watch = {} /\ cmds = <<>>
               \/ \E k \in Panda : watch = {k} /\ cmds = <<SubscribeSimulation(k)>>
<1>1. CASE watch = {}
  <2>1. {SubscribeSimulation(k) : k \in watch} = {} /\ Cardinality({}) = 0
    BY <1>1, FS_EmptySet
  <2>2. SetToSeq({}) = <<>>
    BY <2>1 DEF SetToSeq, IsInjective
  <2> QED
    BY <1>1, <2>1, <2>2
<1>2. CASE \E k \in Panda : watch = {k}
  <2>1. PICK k \in Panda : watch = {k}
    BY <1>2
  <2> DEFINE c == SubscribeSimulation(k)
  <2>2. {SubscribeSimulation(x) : x \in watch} = {c}
    BY <2>1
  <2> HIDE DEF c
  <2>3. Cardinality({c}) = 1
    BY FS_Singleton
  <2>4. SetToSeq({c}) = <<c>>
    BY <2>3 DEF SetToSeq, IsInjective
  <2> QED
    BY <2>1, <2>2, <2>4 DEF c
<1> QED
  BY <1>1, <1>2

\* What the socket referred to carries after a command is sent on it.
LEMMA Queued ==
    ASSUME up \in [Socket -> Seq(Command)], NEW cmds \in Seq(Command),
           ref \in Socket, up' = [up EXCEPT ![ref] = @ \o cmds]
    PROVE  /\ up' \in [Socket -> Seq(Command)]
           /\ up'[ref] = up[ref] \o cmds
           /\ \A s \in Socket : s # ref => up'[s] = up[s]
<1>1. up[ref] \o cmds \in Seq(Command)
  BY ConcatProperties
<1> QED
  BY <1>1

LEMMA SendTyped ==
    ASSUME up \in [Socket -> Seq(Command)], ref \in Socket \cup {None},
           NEW cmds \in Seq(Command), Send(cmds)
    PROVE  up' \in [Socket -> Seq(Command)]
<1>1. CASE IsOpen(ref)
  BY <1>1, Queued DEF Send, IsOpen
<1>2. CASE ~IsOpen(ref)
  BY <1>2 DEF Send
<1> QED
  BY <1>1, <1>2

LEMMA FeedTypeInit == FeedInit => FeedTyped
<1> SUFFICES ASSUME FeedInit PROVE FeedTyped
  OBVIOUS
<1>1. HubTypeOK
  BY HubTypeInit DEF FeedInit
<1>2. up \in [Socket -> Seq(Command)]
  BY DEF FeedInit
<1>3. moves \in 0..MaxMoves /\ faults \in 0..MaxFaults
  BY FeedAssumption DEF FeedInit
<1> QED
  BY <1>1, <1>2, <1>3 DEF FeedInit, FeedTyped, FeedTypeOK

LEMMA FeedTypeStep ==
    ASSUME FeedTyped, [FeedNext]_feedVars
    PROVE  FeedTyped'
<1> USE FeedAssumption
<1>0. HubTypeOK'
  <2>1. HubTypeOK /\ up \in [Socket -> Seq(Command)]
    BY DEF FeedTyped, FeedTypeOK
  <2> QED
    BY <2>1, HubSees, HubTypeStep
<1> USE <1>0
<1>1. CASE UNCHANGED feedVars
  BY <1>1 DEF FeedTyped, FeedTypeOK
<1>2. CASE SignIn
  BY <1>2 DEF SignIn, Move, FeedTyped, FeedTypeOK
<1>3. CASE SignOut
  <2>1. sock' \in [Socket -> {"free", "connecting", "open", "closing"}]
    BY <1>3 DEF SignOut, FeedTyped, FeedTypeOK
  <2>2. crossed' \in BOOLEAN
    BY <1>3 DEF SignOut
  <2>3. /\ status' = "idle" /\ ref' = None /\ key' = {} /\ moves' = moves + 1
        /\ authed' = FALSE /\ debounce' = FALSE /\ timer' = FALSE /\ again' = FALSE
        /\ UNCHANGED <<up, view, watch, faults, taken>> /\ moves < MaxMoves
    BY <1>3 DEF SignOut, Move
  <2>4. moves' \in 0..MaxMoves /\ faults' \in 0..MaxFaults
    BY <2>3 DEF FeedTyped, FeedTypeOK
  <2>5. /\ up' \in [Socket -> Seq(Command)] /\ view' \subseteq Pair
        /\ watch' \subseteq Panda /\ taken' \in BOOLEAN
        /\ watch' = {} \/ \E k \in Panda : watch' = {k}
    BY <2>3 DEF FeedTyped, FeedTypeOK
  <2> QED
    BY <2>1, <2>2, <2>3, <2>4, <2>5 DEF FeedTyped, FeedTypeOK
<1>4. CASE Connect
  <2>1. sock' \in [Socket -> {"free", "connecting", "open", "closing"}] /\ ref' \in Socket
    BY <1>4 DEF Connect, FeedTyped, FeedTypeOK
  <2>2. crossed' \in BOOLEAN
    BY <1>4 DEF Connect
  <2> QED
    BY <1>4, <2>1, <2>2 DEF Connect, FeedTyped, FeedTypeOK
<1>5. ASSUME NEW s \in Socket, Opened(s)  PROVE FeedTyped'
  <2>1. up' \in [Socket -> Seq(Command)]
    <3>1. CASE status = "open"
      BY <1>5, <3>1 DEF Opened, FeedTyped, FeedTypeOK
    <3>2. CASE status # "open"
      <4> DEFINE a == IF view = {} THEN <<>> ELSE <<SubscribeMarket(view)>>
                 b == SetToSeq({SubscribeSimulation(k) : k \in watch})
                 cmds == a \o b
      <4>1. a \in Seq(Command)
        BY Commands DEF FeedTyped, FeedTypeOK
      <4>2. b \in Seq(Command)
        <5>1. b = <<>> \/ \E k \in Panda : b = <<SubscribeSimulation(k)>>
          BY WatchCommands DEF FeedTyped
        <5> HIDE DEF b
        <5>2. CASE b = <<>>
          BY <5>2
        <5>3. CASE \E k \in Panda : b = <<SubscribeSimulation(k)>>
          <6>1. PICK k \in Panda : b = <<SubscribeSimulation(k)>>
            BY <5>3
          <6>2. SubscribeSimulation(k) \in Command
            BY Commands
          <6> QED
            BY <6>1, <6>2
        <5> QED
          BY <5>1, <5>2, <5>3
      <4>3. up' = IF ref = s \/ IsOpen(ref) THEN [up EXCEPT ![ref] = @ \o cmds] ELSE up
        BY <1>5, <3>2 DEF Opened
      <4> HIDE DEF a, b
      <4>4. cmds \in Seq(Command)
        BY <4>1, <4>2
      <4> HIDE DEF cmds
      <4> QED
        BY <4>3, <4>4, Queued DEF IsOpen, FeedTyped, FeedTypeOK
    <3> QED
      BY <3>1, <3>2
  <2>2. key' \subseteq Pair
    BY <1>5 DEF Opened, FeedTyped, FeedTypeOK
  <2> QED
    BY <1>5, <2>1, <2>2 DEF Opened, FeedTyped, FeedTypeOK
<1>6. ASSUME NEW s \in Socket, Closed(s) \/ Drop(s)  PROVE FeedTyped'
  <2>1. OnClose(s) /\ taken' = taken /\ moves' = moves /\ faults' \in 0..MaxFaults
    BY <1>6 DEF Closed, Drop, Fault, FeedTyped, FeedTypeOK
  <2>2. up' \in [Socket -> Seq(Command)]
    BY <2>1 DEF OnClose, FeedTyped, FeedTypeOK
  <2>3. timer' \in BOOLEAN
    BY <2>1 DEF OnClose
  <2> QED
    BY <2>1, <2>2, <2>3 DEF OnClose, FeedTyped, FeedTypeOK
<1>7. ASSUME NEW p \in Pair, ShowPair(p)  PROVE FeedTyped'
  <2>1. up' \in [Socket -> Seq(Command)]
    <3>1. <<SubscribeMarket({p})>> \in Seq(Command)
      BY Commands
    <3> QED
      BY <1>7, <3>1, SendTyped DEF ShowPair, FeedTyped, FeedTypeOK
  <2>2. key' \subseteq Pair
    BY <1>7 DEF ShowPair, FeedTyped, FeedTypeOK
  <2> QED
    BY <1>7, <2>1, <2>2 DEF ShowPair, Move, FeedTyped, FeedTypeOK
<1>8. CASE ShowHistory
  <2>1. up' \in [Socket -> Seq(Command)]
    <3>1. <<UnsubscribeMarket>> \in Seq(Command)
      BY Commands
    <3> QED
      BY <1>8, <3>1, SendTyped DEF ShowHistory, FeedTyped, FeedTypeOK
  <2> QED
    BY <1>8, <2>1 DEF ShowHistory, Move, FeedTyped, FeedTypeOK
<1>9. CASE LeaveChart
  BY <1>9 DEF LeaveChart, Move, FeedTyped, FeedTypeOK
<1>10. ASSUME NEW k \in Panda, Watch(k) \/ Unwatch(k)  PROVE FeedTyped'
  <2>1. up' \in [Socket -> Seq(Command)]
    <3>1. /\ <<SubscribeSimulation(k)>> \in Seq(Command)
          /\ <<UnsubscribeSimulation(k)>> \in Seq(Command)
      BY Commands
    <3> QED
      BY <1>10, <3>1, SendTyped DEF Watch, Unwatch, FeedTyped, FeedTypeOK
  <2> QED
    BY <1>10, <2>1 DEF Watch, Unwatch, Move, FeedTyped, FeedTypeOK
<1>11. ASSUME NEW s \in Socket, Reach(s) \/ Deliver(s) \/ Heard(s)  PROVE FeedTyped'
  <2>1. up' \in [Socket -> Seq(Command)]
    <3>1. CASE Deliver(s)
      <4>1. Tail(up[s]) \in Seq(Command)
        BY <3>1 DEF Deliver, FeedTyped, FeedTypeOK
      <4> QED
        BY <3>1, <4>1 DEF Deliver, FeedTyped, FeedTypeOK
    <3>2. CASE Reach(s)
      BY <3>2 DEF Reach, FeedTyped, FeedTypeOK
    <3>3. CASE Heard(s)
      <4>1. up' = [up EXCEPT ![s] = <<>>] /\ <<>> \in Seq(Command)
        BY <3>3 DEF Heard
      <4> QED
        BY <4>1 DEF FeedTyped, FeedTypeOK
    <3> QED
      BY <1>11, <3>1, <3>2, <3>3
  <2> QED
    BY <1>11, <2>1 DEF Reach, Deliver, Heard, FeedTyped, FeedTypeOK
<1>12. ASSUME NEW g \in Guest, GuestJoins(g) \/ GuestLeaves(g) \/ GuestCommands(g)
       PROVE  FeedTyped'
  <2>1. UNCHANGED <<tabVars, up>>
    BY <1>12 DEF GuestJoins, GuestLeaves, GuestCommands
  <2>2. moves' \in 0..MaxMoves /\ faults' = faults
    BY <1>12 DEF GuestJoins, GuestLeaves, GuestCommands, Move, FeedTyped, FeedTypeOK
  <2>3. taken' \in BOOLEAN
    <3>1. CASE GuestJoins(g) \/ GuestLeaves(g)
      BY <3>1 DEF GuestJoins, GuestLeaves, Move, FeedTyped, FeedTypeOK
    <3>2. CASE GuestCommands(g)
      <4>1. \E c : taken' = (taken \/ (view \cup watch) \cap (c.drop \ c.add) # {})
        BY <3>2 DEF GuestCommands
      <4> QED
        BY <4>1
    <3> QED
      BY <1>12, <3>1, <3>2
  <2> QED
    BY <2>1, <2>2, <2>3 DEF FeedTyped, FeedTypeOK
<1>13. CASE HubWorks \/ (Hibernate /\ UNCHANGED <<tabVars, up, count>>)
  BY <1>13 DEF HubWorks, FeedTyped, FeedTypeOK
<1>14. CASE HubRestarts
  <2>1. up' \in [Socket -> Seq(Command)]
    BY <1>14 DEF HubRestarts, FeedTyped, FeedTypeOK
  <2>2. sock' \in [Socket -> {"free", "connecting", "open", "closing"}]
    BY <1>14 DEF HubRestarts, FeedTyped, FeedTypeOK
  <2>3. /\ ref' \in Socket \cup {None} /\ key' \subseteq Pair /\ timer' \in BOOLEAN
        /\ status' \in {"idle", "connecting", "open", "closed"}
    BY <1>14 DEF HubRestarts, FeedTyped, FeedTypeOK
  <2> QED
    BY <1>14, <2>1, <2>2, <2>3 DEF HubRestarts, Fault, FeedTyped, FeedTypeOK
<1> QED
  BY <1>1, <1>2, <1>3, <1>4, <1>5, <1>6, <1>7, <1>8, <1>9, <1>10, <1>11, <1>12, <1>13, <1>14
  DEF FeedNext, Carry

LEMMA FeedIsTyped == FeedSpec => []FeedTyped
  BY FeedTypeInit, FeedTypeStep, PTL DEF FeedSpec

\* Hub and tab keep their types, and the hub never counts more sockets that it
\* has not closed than MAX_CONNECTIONS_PER_USER, whatever joins, evictions and
\* late closes interleave.
THEOREM FeedTypeCorrect == FeedSpec => []FeedTypeOK
  BY FeedIsTyped, PTL DEF FeedTyped

LEMMA StreamAlways == FeedSpec => []StreamHolds
<1>1. FeedInit => StreamHolds
  BY StreamInit DEF FeedInit
<1>2. FeedTyped /\ StreamHolds /\ [FeedNext]_feedVars => StreamHolds'
  BY HubSees, StreamStep DEF FeedTyped, FeedTypeOK
<1> QED
  BY <1>1, <1>2, FeedIsTyped, PTL DEF FeedSpec

\* The hub holds one stream, of exactly the subscriptions while anyone is
\* connected and no stop is awaited, unless an event came during a stop.
THEOREM OneHubStream == FeedSpec => []OneStream
<1>1. StreamHolds => OneStream
  BY DEF StreamHolds, OneStream, Coming
<1> QED
  BY <1>1, StreamAlways, PTL

-----------------------------------------------------------------------------
(* One socket.                                                             *)

\* What the events of the hub do to the sockets it counts.
LEMMA HubSockets ==
    ASSUME HubTypeOK
    PROVE  /\ \A s \in Conn : Fetch(s) => Sockets' = Sockets \cup {s}
           /\ \A s \in Conn : SocketClosed(s) => Sockets' = Sockets \ {s}
           /\ FinishStop \/ Hibernate \/ (\E c \in Command : Handle(c)) => Sockets' = Sockets
           /\ Restart => Sockets' = {}
<1>1. ASSUME NEW s \in Conn, Fetch(s)  PROVE Sockets' = Sockets \cup {s}
  BY <1>1, AppendOnce DEF Fetch, HubTypeOK, Sockets
<1>2. ASSUME NEW s \in Conn, SocketClosed(s)  PROVE Sockets' = Sockets \ {s}
  BY <1>2, RemoveOnce DEF SocketClosed, HubTypeOK, Sockets
<1>3. ASSUME FinishStop \/ Hibernate \/ \E c \in Command : Handle(c)
      PROVE  Sockets' = Sockets
  <2>1. conns' = conns
    BY <1>3 DEF FinishStop, Hibernate, Handle
  <2> QED
    BY <2>1 DEF Sockets
<1>4. Restart => Sockets' = {}
  BY DEF Restart, Sockets, ToSet
<1> QED
  BY <1>1, <1>2, <1>3, <1>4

\* A socket that is open has been accepted, and the hub has not heard that it
\* was closed; one that carries commands is open or was.
SocketTold ==
    \A s \in Socket :
        /\ sock[s] = "open" => s \in Sockets
        /\ sock[s] \in {"free", "connecting"} => up[s] = <<>>

\* What keeps it: no socket more that is open or fresh, and a fresh one given
\* nothing to carry.
LEMMA SocketKept ==
    ASSUME SocketTold, Sockets \subseteq Sockets',
           \A s \in Socket :
              /\ sock'[s] = "open" => sock[s] = "open"
              /\ sock'[s] \in {"free", "connecting"} =>
                    sock[s] \in {"free", "connecting"} /\ up'[s] = up[s]
    PROVE  SocketTold'
  BY DEF SocketTold

LEMMA SendKeeps ==
    ASSUME FeedTypeOK, NEW cmds \in Seq(Command), Send(cmds) \/ UNCHANGED up
    PROVE  \A s \in Socket : sock[s] \in {"free", "connecting"} => up'[s] = up[s]
<1>1. CASE UNCHANGED up
  BY <1>1
<1>2. CASE Send(cmds) /\ IsOpen(ref)
  <2>1. ref \in Socket /\ sock[ref] = "open"
    BY <1>2 DEF IsOpen, FeedTypeOK
  <2> QED
    BY <1>2, <2>1, Queued DEF Send, FeedTypeOK
<1>3. CASE Send(cmds) /\ ~IsOpen(ref)
  BY <1>3 DEF Send
<1> QED
  BY <1>1, <1>2, <1>3

LEMMA SocketInit == FeedInit => SocketTold
  BY DEF FeedInit, SocketTold

\* The moves of the page are sent on the open socket, if on any.
PageMoves ==
    \/ \E p \in Pair : ShowPair(p)
    \/ ShowHistory \/ LeaveChart
    \/ \E k \in Panda : Watch(k) \/ Unwatch(k)

LEMMA PageSends ==
    ASSUME PageMoves
    PROVE  /\ UNCHANGED <<hub, authed, line, crossed, taken>>
           /\ \E cmds \in Seq(Command) : Send(cmds) \/ UNCHANGED up
<1>1. /\ \A p \in Pair : <<SubscribeMarket({p})>> \in Seq(Command)
      /\ <<UnsubscribeMarket>> \in Seq(Command) /\ <<>> \in Seq(Command)
      /\ \A k \in Panda : /\ <<SubscribeSimulation(k)>> \in Seq(Command)
                          /\ <<UnsubscribeSimulation(k)>> \in Seq(Command)
  <2>1. \A p \in Pair : SubscribeMarket({p}) \in Command
    BY Commands
  <2> QED
    BY <2>1, Commands
<1>2. CASE \E p \in Pair : ShowPair(p)
  BY <1>1, <1>2 DEF ShowPair, Move
<1>3. CASE ShowHistory
  BY <1>1, <1>3 DEF ShowHistory, Move
<1>4. CASE LeaveChart
  BY <1>1, <1>4 DEF LeaveChart, Move
<1>5. CASE \E k \in Panda : Watch(k) \/ Unwatch(k)
  BY <1>1, <1>5 DEF Watch, Unwatch, Move
<1> QED
  BY <1>2, <1>3, <1>4, <1>5 DEF PageMoves

LEMMA SocketStep ==
    ASSUME FeedTyped, SocketTold, [FeedNext]_feedVars
    PROVE  SocketTold'
<1> USE FeedAssumption DEF FeedTyped
<1>0. HubTypeOK /\ sock \in [Socket -> {"free", "connecting", "open", "closing"}]
      /\ up \in [Socket -> Seq(Command)]
  BY DEF FeedTypeOK
<1>1. CASE UNCHANGED feedVars
  BY <1>1 DEF SocketTold, Sockets
<1>2. CASE SignIn \/ SignOut
  <2>1. Sockets' = Sockets /\ up' = up
    BY <1>2 DEF SignIn, SignOut, Sockets
  <2>2. \A s \in Socket : sock'[s] = sock[s] \/ sock'[s] = "closing"
    BY <1>0, <1>2 DEF SignIn, SignOut
  <2> QED
    BY <2>1, <2>2, SocketKept
<1>3. CASE Connect
  <2>1. Sockets' = Sockets /\ up' = up
    BY <1>3 DEF Connect, Sockets
  <2>2. \A s \in Socket : \/ sock'[s] = sock[s] \/ sock'[s] = "closing"
                          \/ sock[s] = "free" /\ sock'[s] = "connecting"
    BY <1>3 DEF Connect
  <2> QED
    BY <2>1, <2>2, SocketKept
<1>4. ASSUME NEW s \in Socket, Opened(s)  PROVE SocketTold'
  <2>1. Sockets' = Sockets /\ s \in Sockets /\ sock' = [sock EXCEPT ![s] = "open"]
    BY <1>4 DEF Opened, Sockets
  <2>2. ASSUME NEW x \in Socket, x # s, sock[x] \in {"free", "connecting"}  PROVE up'[x] = up[x]
    <3>1. CASE status = "open"
      BY <1>4, <3>1 DEF Opened
    <3>2. CASE status # "open"
      <4>1. \/ up' = up
            \/ \E cmds : ref \in {s} \cup {y \in Socket : sock[y] = "open"}
                            /\ up' = [up EXCEPT ![ref] = @ \o cmds]
        BY <1>4, <3>2 DEF Opened, IsOpen, FeedTypeOK
      <4> QED
        BY <1>0, <2>2, <4>1
    <3> QED
      BY <3>1, <3>2
  <2> QED
    BY <1>0, <2>1, <2>2 DEF SocketTold
<1>5. ASSUME NEW s \in Socket, Closed(s) \/ Drop(s)  PROVE SocketTold'
  <2>1. Sockets' = Sockets /\ OnClose(s)
    BY <1>5 DEF Closed, Drop, Sockets
  <2> QED
    BY <1>0, <2>1 DEF OnClose, SocketTold
<1>6. CASE PageMoves
  <2>1. Sockets' = Sockets /\ sock' = sock
    BY <1>6, PageSends DEF Sockets
  <2>2. \A s \in Socket : sock[s] \in {"free", "connecting"} => up'[s] = up[s]
    BY <1>6, PageSends, SendKeeps
  <2> QED
    BY <2>1, <2>2, SocketKept
<1>7. ASSUME NEW s \in Socket, Reach(s)  PROVE SocketTold'
  <2>1. Sockets' = Sockets \cup {s} /\ UNCHANGED <<sock, up>>
    BY <1>0, <1>7, HubSockets DEF Reach
  <2> QED
    BY <2>1, SocketKept
<1>8. ASSUME NEW s \in Socket, Deliver(s)  PROVE SocketTold'
  <2>1. sock' = sock /\ up' = [up EXCEPT ![s] = Tail(@)] /\ up[s] # <<>>
        /\ Head(up[s]) \in Command /\ Handle(Head(up[s]))
    BY <1>0, <1>8 DEF Deliver
  <2>2. Sockets' = Sockets
    BY <1>0, <2>1, HubSockets
  <2>3. sock[s] \notin {"free", "connecting"}
    BY <2>1 DEF SocketTold
  <2>4. \A x \in Socket : x # s => up'[x] = up[x]
    BY <1>0, <2>1
  <2> QED
    BY <2>1, <2>2, <2>3, <2>4, SocketKept
<1>9. ASSUME NEW s \in Socket, Heard(s)  PROVE SocketTold'
  <2>1. Sockets' = Sockets \ {s} /\ sock' = sock /\ sock[s] # "open"
        /\ up' = [up EXCEPT ![s] = <<>>]
    BY <1>0, <1>9, HubSockets DEF Heard
  <2> QED
    BY <1>0, <2>1 DEF SocketTold
<1>10. ASSUME NEW g \in Guest, GuestJoins(g) \/ GuestLeaves(g) \/ GuestCommands(g)
       PROVE  SocketTold'
  <2>1. UNCHANGED <<sock, up>> /\ g \notin Socket
    BY <1>10 DEF GuestJoins, GuestLeaves, GuestCommands
  <2>2. Sockets' \in {Sockets, Sockets \cup {g}, Sockets \ {g}}
    <3>1. CASE GuestJoins(g) \/ GuestLeaves(g)
      BY <1>0, <3>1, HubSockets DEF GuestJoins, GuestLeaves
    <3>2. CASE GuestCommands(g)
      <4>1. \E c \in Command : Handle(c)
        BY <3>2, Commands DEF GuestCommands
      <4> QED
        BY <1>0, <4>1, HubSockets
    <3> QED
      BY <1>10, <3>1, <3>2
  <2> QED
    BY <2>1, <2>2 DEF SocketTold
<1>11. CASE HubWorks \/ (Hibernate /\ UNCHANGED <<tabVars, up, count>>)
  <2>1. Sockets' = Sockets /\ UNCHANGED <<sock, up>>
    BY <1>0, <1>11, HubSockets DEF HubWorks
  <2> QED
    BY <2>1, SocketKept
<1>12. CASE HubRestarts
  <2>1. /\ sock' = [s \in Socket |-> IF s \in Sockets THEN "free" ELSE sock[s]]
        /\ up' = [s \in Socket |-> IF s \in Sockets THEN <<>> ELSE up[s]]
    BY <1>12 DEF HubRestarts
  <2> QED
    BY <2>1 DEF SocketTold
<1> QED
  BY <1>1, <1>2, <1>3, <1>4, <1>5, <1>6, <1>7, <1>8, <1>9, <1>10, <1>11, <1>12
  DEF FeedNext, Carry, PageMoves

\* Until a socket is left behind: the one the tab refers to is the only one that
\* has not ended, none lives without a reference or a token, and the status
\* "open" is that socket's.
OneLine ==
    ~crossed =>
        /\ ref # None => /\ sock[ref] # "free"
                         /\ \A s \in Socket : sock[s] # "free" => s = ref
        /\ Live \subseteq {ref}
        /\ ~authed => Live = {} /\ status # "open"
        /\ status = "open" => IsOpen(ref)

LEMMA LineInit == FeedInit => OneLine
  BY DEF FeedInit, OneLine, Live

\* The steps that leave the tab's line as it is.
LEMMA LineKept ==
    ASSUME OneLine, UNCHANGED <<authed, status, ref, sock, crossed>>
    PROVE  OneLine'
  BY DEF OneLine, Live, IsOpen

LEMMA LineStep ==
    ASSUME FeedTyped, SocketTold, OneLine, [FeedNext]_feedVars
    PROVE  OneLine'
<1> USE FeedAssumption DEF FeedTyped
<1>0. /\ sock \in [Socket -> {"free", "connecting", "open", "closing"}]
      /\ ref \in Socket \cup {None} /\ None \notin Socket
  BY DEF FeedTypeOK, None
<1>1. CASE UNCHANGED feedVars
  BY <1>1, LineKept
<1>2. CASE SignIn
  BY <1>2 DEF SignIn, OneLine, Live, IsOpen
<1>3. CASE SignOut
  <2> SUFFICES ASSUME ~crossed' PROVE OneLine'
    BY DEF OneLine
  <2>1. /\ ~crossed /\ (ref = None \/ IsOpen(ref))
        /\ ref' = None /\ status' = "idle"
        /\ sock' = IF IsOpen(ref) THEN [sock EXCEPT ![ref] = "closing"] ELSE sock
    BY <1>3 DEF SignOut
  <2>2. Live' = {}
    BY <1>0, <2>1 DEF OneLine, Live, IsOpen
  <2> QED
    BY <2>1, <2>2 DEF OneLine
<1>4. CASE Connect
  <2> SUFFICES ASSUME ~crossed' PROVE OneLine'
    BY DEF OneLine
  <2>1. \A s \in Socket : sock[s] = "free"
    BY <1>4 DEF Connect
  <2>2. PICK s \in Socket :
           /\ ref' = s
           /\ sock' = [x \in Socket |-> IF x = s THEN "connecting"
                                        ELSE IF x = ref THEN "closing" ELSE sock[x]]
    BY <1>4 DEF Connect
  <2>3. ~crossed /\ authed /\ authed' = authed /\ status' = "connecting"
    BY <1>4 DEF Connect
  <2>4. ASSUME NEW x \in Socket, x # s  PROVE sock'[x] = "free"
    <3>1. x # ref
      BY <1>0, <2>1, <2>3 DEF OneLine
    <3> QED
      BY <2>1, <2>2, <2>4, <3>1
  <2> QED
    BY <2>2, <2>3, <2>4 DEF OneLine, Live
<1>5. ASSUME NEW s \in Socket, Opened(s)  PROVE OneLine'
  <2> SUFFICES ASSUME ~crossed PROVE OneLine'
    BY <1>5 DEF Opened, OneLine
  <2>1. s = ref /\ authed
    BY <1>5 DEF Opened, OneLine, Live
  <2>2. /\ sock' = [sock EXCEPT ![s] = "open"]
        /\ status' = "open" /\ ref' = ref /\ authed' = authed
    BY <1>5 DEF Opened
  <2> QED
    BY <1>0, <2>1, <2>2 DEF OneLine, Live, IsOpen
<1>6. ASSUME NEW s \in Socket, Closed(s) \/ Drop(s)  PROVE OneLine'
  <2> SUFFICES ASSUME ~crossed PROVE OneLine'
    BY <1>6 DEF Closed, Drop, OnClose, OneLine
  <2>1. sock[s] # "free"
    BY <1>6 DEF Closed, Drop
  <2>2. /\ sock' = [sock EXCEPT ![s] = "free"]
        /\ ref' = None /\ status' = "closed"
    BY <1>6 DEF Closed, Drop, OnClose
  <2>3. Live' = {}
    BY <1>0, <2>1, <2>2 DEF OneLine, Live
  <2> QED
    BY <2>2, <2>3 DEF OneLine
<1>7. CASE PageMoves
  BY <1>7, PageSends, LineKept
<1>8. ASSUME NEW s \in Socket, Reach(s) \/ Deliver(s) \/ Heard(s)  PROVE OneLine'
  BY <1>8, LineKept DEF Reach, Deliver, Heard
<1>9. ASSUME NEW g \in Guest, GuestJoins(g) \/ GuestLeaves(g) \/ GuestCommands(g)
      PROVE  OneLine'
  BY <1>9, LineKept DEF GuestJoins, GuestLeaves, GuestCommands
<1>10. CASE HubWorks \/ (Hibernate /\ UNCHANGED <<tabVars, up, count>>)
  BY <1>10, LineKept DEF HubWorks
<1>11. CASE HubRestarts
  <2> SUFFICES ASSUME ~crossed PROVE OneLine'
    BY <1>11 DEF HubRestarts, OneLine
  <2>1. /\ sock' = [s \in Socket |-> IF s \in Sockets THEN "free" ELSE sock[s]]
        /\ authed' = authed
    BY <1>11 DEF HubRestarts
  <2>2. Live' \subseteq Live
    BY <2>1 DEF Live
  <2>3. CASE \E s \in Socket \cap Sockets : sock[s] # "free"
    <3>1. ref' = None /\ status' = "closed"
      BY <1>11, <2>3 DEF HubRestarts
    <3>2. Live' = {}
      BY <1>0, <2>1, <2>3 DEF OneLine, Live
    <3> QED
      BY <3>1, <3>2 DEF OneLine
  <2>4. CASE ~ \E s \in Socket \cap Sockets : sock[s] # "free"
    <3>1. sock' = sock
      BY <1>0, <2>1, <2>4
    <3>2. UNCHANGED <<ref, status>> /\ crossed' = crossed
      BY <1>11, <2>4 DEF HubRestarts
    <3> QED
      BY <2>1, <3>1, <3>2, LineKept
  <2> QED
    BY <2>3, <2>4
<1> QED
  BY <1>1, <1>2, <1>3, <1>4, <1>5, <1>6, <1>7, <1>8, <1>9, <1>10, <1>11
  DEF FeedNext, Carry, PageMoves

LEMMA SocketAlways == FeedSpec => []SocketTold
  BY SocketInit, SocketStep, FeedIsTyped, PTL DEF FeedSpec

LEMMA LineAlways == FeedSpec => []OneLine
  BY LineInit, LineStep, SocketAlways, FeedIsTyped, PTL DEF FeedSpec

\* A tab has one socket, none without a token, and the status it shows is that
\* socket's, unless a sign-out left one behind before it was open.
THEOREM OneTabSocket == FeedSpec => []OneSocket
<1>1. OneLine => OneSocket
  BY DEF OneLine, OneSocket
<1> QED
  BY <1>1, LineAlways, PTL

-----------------------------------------------------------------------------
(* What the tab shows, subscribed once.                                    *)

\* A command takes a topic away.
Dropped(t, c) == t \in c.drop \ c.add

\* A hub that holds the topics held, and has the commands q to come, ends with
\* the topic t: it holds it and nothing drops it, or a command adds it and none
\* after that drops it.
Kept(t, held, q) ==
    \/ t \in held /\ \A i \in DOMAIN q : ~Dropped(t, q[i])
    \/ \E i \in DOMAIN q :
          t \in q[i].add /\ \A j \in DOMAIN q : j > i => ~Dropped(t, q[j])

\* What a connected tab shows, the hub has or is on its way to have.
Covered ==
    status = "open" /\ ~(crossed \/ taken \/ unheard)
        => \A t \in view \cup watch : Kept(t, subs, up[ref])

LEMMA KeptSent ==
    ASSUME NEW t, NEW held, NEW q \in Seq(Command), NEW c \in Command,
           (Kept(t, held, q) /\ ~Dropped(t, c)) \/ t \in c.add
    PROVE  Kept(t, held, q \o <<c>>)
<1> DEFINE r == q \o <<c>>
           n == Len(q)
<1>1. n \in Nat /\ DOMAIN q = 1..n
  OBVIOUS
<1>2. DOMAIN r = 1..n+1 /\ r[n + 1] = c /\ \A i \in 1..n : r[i] = q[i]
  OBVIOUS
<1> HIDE DEF r, n
<1>3. \A i \in 1..n+1 : i \in 1..n \/ i = n + 1
  BY <1>1
<1>4. n + 1 \in 1..n+1 /\ (\A i \in 1..n : i \in 1..n+1) /\ \A i \in 1..n+1 : ~(i > n + 1)
  BY <1>1
<1>5. CASE t \in c.add
  BY <1>2, <1>4, <1>5 DEF Kept, r
<1>6. CASE Kept(t, held, q) /\ ~Dropped(t, c)
  <2>1. CASE t \in held /\ \A i \in DOMAIN q : ~Dropped(t, q[i])
    <3>1. \A i \in 1..n+1 : ~Dropped(t, r[i])
      BY <1>1, <1>2, <1>3, <1>6, <2>1
    <3> QED
      BY <1>2, <2>1, <3>1 DEF Kept, r
  <2>2. ASSUME NEW i \in DOMAIN q, t \in q[i].add,
               \A j \in DOMAIN q : j > i => ~Dropped(t, q[j])
        PROVE  Kept(t, held, r)
    <3>1. \A j \in 1..n+1 : j > i => ~Dropped(t, r[j])
      BY <1>1, <1>2, <1>3, <1>6, <2>2
    <3>2. i \in DOMAIN r /\ t \in r[i].add
      BY <1>1, <1>2, <1>4, <2>2
    <3> QED
      BY <1>2, <3>1, <3>2 DEF Kept
  <2> QED
    BY <1>6, <2>1, <2>2 DEF Kept, r
<1> QED
  BY <1>5, <1>6

LEMMA KeptHandled ==
    ASSUME NEW t, NEW held, NEW q \in Seq(Command), q # <<>>, Kept(t, held, q)
    PROVE  Kept(t, (held \ Head(q).drop) \cup Head(q).add, Tail(q))
<1> DEFINE c == Head(q)
           r == Tail(q)
           n == Len(q)
           got == (held \ c.drop) \cup c.add
<1>1. n \in Nat /\ n >= 1 /\ DOMAIN q = 1..n /\ c = q[1]
  OBVIOUS
<1>2. DOMAIN r = 1..n-1 /\ \A i \in 1..n-1 : r[i] = q[i + 1]
  OBVIOUS
<1> HIDE DEF c, r, n
<1>3. 1 \in 1..n /\ \A i \in 1..n-1 : i + 1 \in 1..n /\ i + 1 > 1
  BY <1>1
<1>4. CASE t \in held /\ \A i \in DOMAIN q : ~Dropped(t, q[i])
  <2>1. t \in got
    BY <1>1, <1>3, <1>4 DEF Dropped
  <2>2. \A i \in 1..n-1 : ~Dropped(t, r[i])
    BY <1>1, <1>2, <1>3, <1>4
  <2> QED
    BY <1>2, <2>1, <2>2 DEF Kept, c, r
<1>5. ASSUME NEW i \in DOMAIN q, t \in q[i].add,
             \A j \in DOMAIN q : j > i => ~Dropped(t, q[j])
      PROVE  Kept(t, got, r)
  <2>1. CASE i = 1
    <3>1. t \in got
      BY <1>1, <1>5, <2>1
    <3>2. \A j \in 1..n-1 : ~Dropped(t, r[j])
      BY <1>1, <1>2, <1>3, <1>5, <2>1
    <3> QED
      BY <1>2, <3>1, <3>2 DEF Kept
  <2>2. CASE i # 1
    <3>1. i - 1 \in 1..n-1 /\ (i - 1) + 1 = i /\ \A j \in 1..n-1 : j > i - 1 => j + 1 > i
      BY <1>1, <2>2
    <3>2. t \in r[i - 1].add
      BY <1>2, <1>5, <3>1
    <3>3. \A j \in 1..n-1 : j > i - 1 => ~Dropped(t, r[j])
      BY <1>1, <1>2, <1>3, <1>5, <3>1
    <3> DEFINE k == i - 1
    <3>4. k \in DOMAIN r /\ t \in r[k].add /\ \A j \in DOMAIN r : j > k => ~Dropped(t, r[j])
      BY <1>2, <3>1, <3>2, <3>3
    <3> HIDE DEF k
    <3> QED
      BY <3>4 DEF Kept
  <2> QED
    BY <2>1, <2>2
<1> QED
  BY <1>4, <1>5 DEF Kept, c, r

LEMMA KeptHeld ==
    ASSUME NEW t, NEW held, NEW q, NEW c, Kept(t, held, q), ~Dropped(t, c)
    PROVE  Kept(t, (held \ c.drop) \cup c.add, q)
  BY DEF Kept, Dropped

LEMMA CoverInit == FeedInit => Covered
  BY DEF FeedInit, Covered

\* The steps that leave alone what the hub has and the tab's socket carries.
LEMMA CoverKept ==
    ASSUME Covered,
           status' = "open" => /\ status = "open"
                               /\ crossed => crossed'
                               /\ taken => taken'
                               /\ unheard => unheard'
                               /\ view' \cup watch' \subseteq view \cup watch
                               /\ subs' = subs /\ up'[ref'] = up[ref]
    PROVE  Covered'
  BY DEF Covered

\* What one command of the page does.
LEMMA CoverSent ==
    ASSUME FeedTyped, OneLine, Covered, NEW c \in Command,
           status = "open" => Send(<<c>>),
           UNCHANGED <<status, ref, subs, crossed, taken, unheard>>,
           \A t \in view' \cup watch' : t \in c.add \/ (t \in view \cup watch /\ ~Dropped(t, c))
    PROVE  Covered'
<1> SUFFICES ASSUME status = "open", ~(crossed \/ taken \/ unheard),
                    NEW t \in view' \cup watch'
             PROVE  Kept(t, subs, up'[ref])
  BY DEF Covered
<1>1. IsOpen(ref) /\ ref \in Socket /\ up \in [Socket -> Seq(Command)]
  BY DEF OneLine, IsOpen, FeedTyped, FeedTypeOK
<1>2. up'[ref] = up[ref] \o <<c>> /\ up[ref] \in Seq(Command)
  BY <1>1 DEF Send
<1>3. t \in c.add \/ (Kept(t, subs, up[ref]) /\ ~Dropped(t, c))
  BY DEF Covered
<1> QED
  BY <1>2, <1>3, KeptSent

\* What the two effects send when the tab is connected.
LEMMA CoverOpened ==
    ASSUME FeedTyped, SocketTold, OneLine, NEW s \in Socket, Opened(s)
    PROVE  Covered'
<1> SUFFICES ASSUME ~crossed, NEW t \in view \cup watch
             PROVE  Kept(t, subs, up'[ref])
  BY DEF Covered, Opened
<1> USE FeedAssumption DEF FeedTyped
<1>1. s = ref /\ status # "open" /\ up[s] = <<>> /\ ref \in Socket
  BY DEF Opened, OneLine, Live, IsOpen, SocketTold
<1> DEFINE a == IF view = {} THEN <<>> ELSE <<SubscribeMarket(view)>>
           b == SetToSeq({SubscribeSimulation(k) : k \in watch})
           m == SubscribeMarket(view)
           cmds == a \o b
<1>2. up' = [up EXCEPT ![ref] = @ \o cmds]
  BY <1>1 DEF Opened
<1>3. \/ watch = {} /\ b = <<>>
      \/ \E k \in Panda : watch = {k} /\ b = <<SubscribeSimulation(k)>>
  BY WatchCommands
<1>4. view \subseteq Pair
  BY DEF FeedTypeOK
<1>5. m.add = view /\ m \in Command
  BY <1>4, Commands DEF SubscribeMarket
<1>6. a = IF view = {} THEN <<>> ELSE <<m>>
  OBVIOUS
<1> HIDE DEF a, b, m
<1>7. a \in Seq(Command) /\ (t \in view => Kept(t, subs, a))
  <2>1. CASE view = {}
    BY <1>6, <2>1
  <2>2. CASE view # {}
    <3>1. a = <<m>>
      BY <1>6, <2>2
    <3> QED
      BY <1>5, <3>1 DEF Kept
  <2> QED
    BY <2>1, <2>2
<1>8. cmds \in Seq(Command) /\ Kept(t, subs, cmds)
  <2>1. CASE watch = {} /\ b = <<>>
    <3>1. cmds = a
      BY <1>7, <2>1
    <3> HIDE DEF cmds
    <3> QED
      BY <1>7, <2>1, <3>1
  <2>2. ASSUME NEW k \in Panda, watch = {k}, b = <<SubscribeSimulation(k)>>
        PROVE  cmds \in Seq(Command) /\ Kept(t, subs, cmds)
    <3> DEFINE c == SubscribeSimulation(k)
    <3>1. c \in Command /\ c.drop = {} /\ c.add = {k}
      BY Commands DEF SubscribeSimulation
    <3>2. cmds = a \o <<c>>
      BY <2>2
    <3>3. ~Dropped(t, c) /\ (t \in view \/ t \in c.add)
      BY <2>2, <3>1 DEF Dropped
    <3> HIDE DEF c, cmds
    <3>4. cmds \in Seq(Command)
      BY <1>7, <3>1, <3>2
    <3> QED
      BY <1>7, <3>1, <3>2, <3>3, <3>4, KeptSent
  <2> HIDE DEF cmds
  <2> QED
    BY <1>3, <2>1, <2>2
<1> HIDE DEF cmds
<1>9. up'[ref] = <<>> \o cmds /\ <<>> \o cmds = cmds
  BY <1>1, <1>2, <1>8 DEF FeedTypeOK
<1> QED
  BY <1>8, <1>9

LEMMA CoverStep ==
    ASSUME FeedTyped, SocketTold, OneLine, Covered, [FeedNext]_feedVars
    PROVE  Covered'
<1> USE FeedAssumption DEF FeedTyped
<1>0. /\ up \in [Socket -> Seq(Command)]
      /\ view \subseteq Pair /\ watch \subseteq Panda /\ Pair \cap Panda = {}
  BY HubAssumption DEF FeedTypeOK
<1>1. CASE UNCHANGED feedVars
  BY <1>1, CoverKept
<1>2. CASE SignIn
  BY <1>2, CoverKept DEF SignIn, Move
<1>3. CASE SignOut \/ Connect
  BY <1>3 DEF SignOut, Connect, Covered
<1>4. ASSUME NEW s \in Socket, Opened(s)  PROVE Covered'
  BY <1>4, CoverOpened
<1>5. ASSUME NEW s \in Socket, Closed(s) \/ Drop(s)  PROVE Covered'
  BY <1>5 DEF Closed, Drop, OnClose, Covered
<1>6. ASSUME NEW p \in Pair, ShowPair(p)  PROVE Covered'
  <2> DEFINE c == SubscribeMarket({p})
  <2>1. c \in Command /\ c.drop = Pair /\ c.add = {p}
    BY Commands DEF SubscribeMarket
  <2>2. status = "open" => Send(<<c>>)
    BY <1>6 DEF ShowPair
  <2> HIDE DEF c
  <2>3. UNCHANGED <<status, ref, subs, crossed, taken, unheard, watch>> /\ view' = {p}
    BY <1>6 DEF ShowPair, Move
  <2>4. \A t \in view' \cup watch' : t \in c.add \/ (t \in view \cup watch /\ ~Dropped(t, c))
    BY <1>0, <2>1, <2>3 DEF Dropped
  <2> QED
    BY <2>1, <2>2, <2>3, <2>4, CoverSent
<1>7. CASE ShowHistory
  <2> DEFINE c == UnsubscribeMarket
  <2>1. c \in Command /\ c.drop = Pair /\ c.add = {}
    BY Commands DEF UnsubscribeMarket
  <2>2. key # {} => Send(<<c>>)
    BY <1>7 DEF ShowHistory
  <2> HIDE DEF c
  <2>3. UNCHANGED <<status, ref, subs, crossed, taken, unheard, watch>> /\ view' = {}
    BY <1>7 DEF ShowHistory, Move
  <2>4. CASE key = {}
    <3>1. up' = up
      BY <1>7, <2>4 DEF ShowHistory
    <3> QED
      BY <2>3, <3>1, CoverKept
  <2>5. CASE key # {}
    <3>1. \A t \in view' \cup watch' : t \in view \cup watch /\ ~Dropped(t, c)
      BY <1>0, <2>1, <2>3 DEF Dropped
    <3> QED
      BY <2>1, <2>2, <2>3, <2>5, <3>1, CoverSent
  <2> QED
    BY <2>4, <2>5
<1>8. CASE LeaveChart
  BY <1>8, CoverKept DEF LeaveChart, Move
<1>9. ASSUME NEW k \in Panda, Watch(k)  PROVE Covered'
  <2> DEFINE c == SubscribeSimulation(k)
  <2>1. c \in Command /\ c.drop = {} /\ c.add = {k}
    BY Commands DEF SubscribeSimulation
  <2>2. status = "open" => Send(<<c>>)
    BY <1>9 DEF Watch
  <2> HIDE DEF c
  <2>3. UNCHANGED <<status, ref, subs, crossed, taken, unheard, view>> /\ watch' = {k}
    BY <1>9 DEF Watch, Move
  <2>4. \A t \in view' \cup watch' : t \in c.add \/ (t \in view \cup watch /\ ~Dropped(t, c))
    BY <2>1, <2>3 DEF Dropped
  <2> QED
    BY <2>1, <2>2, <2>3, <2>4, CoverSent
<1>10. ASSUME NEW k \in Panda, Unwatch(k)  PROVE Covered'
  <2> DEFINE c == UnsubscribeSimulation(k)
  <2>1. c \in Command /\ c.drop = {k} /\ c.add = {}
    BY Commands DEF UnsubscribeSimulation
  <2>2. status = "open" => Send(<<c>>)
    BY <1>10 DEF Unwatch
  <2> HIDE DEF c
  <2>3. UNCHANGED <<status, ref, subs, crossed, taken, unheard, view>> /\ watch' = {}
    BY <1>10 DEF Unwatch, Move
  <2>4. \A t \in view' \cup watch' : t \in view \cup watch /\ ~Dropped(t, c)
    BY <1>0, <2>1, <2>3 DEF Dropped
  <2> QED
    BY <2>1, <2>2, <2>3, <2>4, CoverSent
<1>11. ASSUME NEW s \in Socket, Reach(s)  PROVE Covered'
  BY <1>11, CoverKept DEF Reach, Fetch
<1>12. ASSUME NEW s \in Socket, Deliver(s)  PROVE Covered'
  <2> SUFFICES ASSUME status = "open", ~(crossed \/ taken \/ unheard'),
                      NEW t \in view \cup watch
               PROVE  Kept(t, subs', up'[ref])
    BY <1>12 DEF Deliver, Covered
  <2>1. up[s] # <<>> /\ Handle(Head(up[s])) /\ up' = [up EXCEPT ![s] = Tail(@)]
    BY <1>12 DEF Deliver
  <2>2. s = ref
    BY <2>1 DEF SocketTold, OneLine, IsOpen
  <2>3. awake /\ ~unheard /\ subs' = (subs \ Head(up[s]).drop) \cup Head(up[s]).add
    BY <2>1 DEF Handle
  <2>4. Kept(t, subs, up[s]) /\ up[s] \in Seq(Command) /\ up'[ref] = Tail(up[s])
    BY <1>0, <2>1, <2>2, <2>3 DEF Covered
  <2> QED
    BY <2>1, <2>3, <2>4, KeptHandled
<1>13. ASSUME NEW s \in Socket, Heard(s)  PROVE Covered'
  <2> SUFFICES ASSUME status = "open", ~(crossed \/ taken \/ unheard)
               PROVE  Covered'
    BY <1>13 DEF Heard, SocketClosed, Covered
  <2>1. s # ref /\ ref \in Socket
    BY <1>13 DEF Heard, OneLine, IsOpen, FeedTypeOK
  <2>2. up'[ref] = up[ref]
    BY <1>0, <1>13, <2>1 DEF Heard
  <2> QED
    BY <1>13, <2>2, CoverKept DEF Heard, SocketClosed
<1>14. ASSUME NEW g \in Guest, GuestJoins(g) \/ GuestLeaves(g)  PROVE Covered'
  BY <1>14, CoverKept DEF GuestJoins, GuestLeaves, Fetch, SocketClosed, Move
<1>15. ASSUME NEW g \in Guest, GuestCommands(g)  PROVE Covered'
  <2> SUFFICES ASSUME status = "open", ~(crossed \/ taken' \/ unheard'),
                      NEW t \in view \cup watch
               PROVE  Kept(t, subs', up[ref])
    BY <1>15 DEF GuestCommands, Covered
  <2>1. PICK c : Handle(c) /\ taken' = (taken \/ (view \cup watch) \cap (c.drop \ c.add) # {})
    BY <1>15 DEF GuestCommands
  <2>2. ~taken /\ ~Dropped(t, c)
    BY <2>1 DEF Dropped
  <2>3. ~unheard /\ subs' = (subs \ c.drop) \cup c.add
    BY <2>1 DEF Handle
  <2>4. Kept(t, subs, up[ref])
    BY <2>2, <2>3 DEF Covered
  <2> QED
    BY <2>2, <2>3, <2>4, KeptHeld
<1>16. CASE HubWorks
  BY <1>16, CoverKept DEF HubWorks, FinishStop
<1>17. CASE Hibernate /\ UNCHANGED <<tabVars, up, count>>
  BY <1>17, CoverKept DEF Hibernate
<1>18. CASE HubRestarts
  <2> SUFFICES ASSUME status = "open", status' = "open", ~(crossed \/ taken \/ unheard)
               PROVE  Covered'
    BY <1>18 DEF HubRestarts, Restart, Fault, Covered
  <2>1. ref \in Socket \cap Sockets /\ sock[ref] # "free"
    BY DEF OneLine, IsOpen, SocketTold, FeedTypeOK
  <2> QED
    BY <1>18, <2>1 DEF HubRestarts
<1> QED
  BY <1>1, <1>2, <1>3, <1>4, <1>5, <1>6, <1>7, <1>8, <1>9, <1>10, <1>11, <1>12, <1>13,
     <1>14, <1>15, <1>16, <1>17, <1>18
  DEF FeedNext, Carry

LEMMA CoverAlways == FeedSpec => []Covered
  BY CoverInit, CoverStep, LineAlways, SocketAlways, FeedIsTyped, PTL DEF FeedSpec

\* The tab's socket is accepted and the hub's one stream has what it shows.
LEMMA CopiedOnce ==
    ASSUME FeedTyped, StreamHolds, SocketTold, OneLine, Covered
    PROVE  OneCopy
<1> SUFFICES ASSUME Settled, status = "open", ~(crossed \/ tangled \/ taken \/ unheard),
                    NEW t \in view \cup watch
             PROVE  Copies(t) = 1
  BY DEF OneCopy
<1>1. ref \in Socket /\ sock[ref] = "open" /\ ref \in Sockets \ shut /\ up[ref] = <<>>
  BY DEF OneLine, IsOpen, SocketTold, Settled, FeedTyped, FeedTypeOK
<1>2. t \in subs
  BY <1>1 DEF Covered, Kept
<1>3. conns # <<>>
  BY <1>1 DEF Sockets, ToSet
<1>4. t \in current /\ strays = <<>>
  BY <1>2, <1>3 DEF StreamHolds, Coming, Settled
<1>5. {s \in Socket : sock[s] = "open" /\ s \in Sockets \ shut} = {ref}
  BY <1>1 DEF OneLine, Live
<1>6. Cardinality({ref}) = 1
  BY FS_Singleton
<1>7. {i \in DOMAIN strays : t \in strays[i]} = {} /\ Cardinality({}) = 0
  BY <1>4, FS_EmptySet
<1>8. Copies(t) = Cardinality({ref}) * (Cardinality({}) + 1)
  BY <1>4, <1>5, <1>7, Zenon DEF Copies
<1> QED
  BY <1>6, <1>7, <1>8

\* Once the hub is at rest a connected tab gets every event of what it shows,
\* and gets it once, after any sequence of views, drops, restarts, evictions and
\* reconnects.
THEOREM CopiedToTab == FeedSpec => []OneCopy
  BY CopiedOnce, CoverAlways, LineAlways, SocketAlways, StreamAlways, FeedIsTyped, PTL

=============================================================================
