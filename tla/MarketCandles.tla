--------------------------- MODULE MarketCandles ---------------------------
(***************************************************************************)
(* The bars of the chart as useMarketCandles keeps them: the initial load  *)
(* of a pool and interval, the older pages a scroll asks for, the tail it  *)
(* refreshes once per interval, and the live tick of each new bar, all     *)
(* merged into one array by candleStore.  No request is cancelled when the *)
(* view changes, and a reply is applied whenever it arrives.               *)
(*                                                                         *)
(* A view is a pool at an interval; Ticking are those of one minute, the   *)
(* only ones with a live feed.  Time counts bars of the shown interval.    *)
(* A view has a bar at the times of Traded and at no other: a bar without  *)
(* a trade does not exist, and the first trade of a bar counts as made     *)
(* when it opens.  A bar is its view, its time and whether the value is    *)
(* the closed bar's: prices and volumes are left out.                      *)
(***************************************************************************)
EXTENDS Integers, FiniteSets, Sequences, SequencesExt

CONSTANTS
    View,      \* a pool at an interval
    Traded,    \* for each view, the times at which it has a bar
    Cap,       \* CANDLES_MEMORY_CAP
    Start,     \* the time of the forming bar when the page opens
    MaxNow,    \* bound on the clock
    Ticking,   \* views at interval "1m"
    Request,   \* requests that may be in flight at once
    PageSize,  \* CANDLES_PAGE_SIZE
    TailFetch, \* CANDLES_TAIL_FETCH
    MaxWire,   \* bound on ticks in flight
    MaxMoves   \* bound on what the user does: change the view or reload

ASSUME CandlesAssumption ==
    /\ Ticking \subseteq View
    /\ Traded \in [View -> SUBSET (Nat \ {0})]
    /\ {PageSize, TailFetch, Cap, Start} \subseteq Nat \ {0}
    /\ 1 < TailFetch
    /\ MaxNow \in Nat /\ Start <= MaxNow /\ MaxWire \in Nat /\ MaxMoves \in Nat

VARIABLES
    now,          \* the time of the forming bar; earlier bars are closed
    view,         \* the pool and interval the page shows
    bars,         \* the array of bars
    hasMore,      \* hasMoreRef
    loadingMore,  \* loadingMoreRef
    failed,       \* historyError is set
    lastTick,     \* the last market.tick, at most one
    stirred,      \* lastTick changed and its effect has not run
    wire,         \* ticks on their way through the hub
    net,          \* requests in flight
    due,          \* the tail timer has fired for this bar
    moves,
    synced,       \* history: a page read since the last bar opened is applied
    missed,       \* history: bars that opened in a row without that
    late,         \* history: more of them than the tail makes up for
    crossed,      \* history: a load overlapped with something in flight
    clipped       \* history: a page read since the last load cuts a bar in two

candles == <<bars, hasMore, loadingMore, failed>>
feed == <<lastTick, stirred, wire>>
past == <<synced, missed, late, crossed, clipped>>
vars == <<now, view, candles, feed, net, due, moves, past>>

Window == INSTANCE CandleWindow WITH shown <- ToSet(bars)

Times(S) == Window!Times(S)

NoTick == {}
Idle == [kind |-> "idle"]
Bar == Window!Bar
Page == [view : View, seq : Seq(Bar), more : BOOLEAN, at : 1..MaxNow]

Busy(r) == net[r].kind # "idle"

Loading == \E r \in Request : net[r].kind = "replace"

CandlesTypeOK ==
    /\ now \in Start..MaxNow
    /\ view \in View
    /\ bars \in Seq(Bar) /\ Len(bars) <= Cap
    /\ \A i \in 1..Len(bars) - 1 : bars[i].t < bars[i + 1].t
    /\ {hasMore, failed, stirred, due} \subseteq BOOLEAN
    /\ lastTick \subseteq Bar /\ Cardinality(lastTick) <= 1
    /\ wire \in Seq(Bar) /\ Len(wire) <= MaxWire
    /\ \A r \in Request : Busy(r) =>
          /\ net[r].kind \in {"replace", "prepend", "merge"}
          /\ net[r].page # {} => net[r].page \subseteq Page
    /\ loadingMore = (\E r \in Request : net[r].kind = "prepend")
    /\ Cardinality({r \in Request : net[r].kind = "prepend"}) <= 1
    /\ moves \in 0..MaxMoves /\ missed \in Nat

-----------------------------------------------------------------------------
(* candleStore.                                                            *)

Sorted(S) ==
    [i \in 1..Cardinality(S) |-> CHOOSE b \in S : Cardinality({c \in S : c.t <= b.t}) = i]

\* MUTANT of MergeBars: the bar already held wins.
MergeBarsKeepingOld(existing, incoming) ==
    Sorted(ToSet(existing)
             \cup {b \in ToSet(incoming) : b.t \notin Times(ToSet(existing))})

\* A Map keyed by time, in which the incoming bars come last, then sorted.
MergeBars(existing, incoming) ==
    Sorted(ToSet(incoming)
             \cup {b \in ToSet(existing) : b.t \notin Times(ToSet(incoming))})

\* MUTANT of CapBars: the oldest bars are kept.
CapBarsOldest(seq) == IF Len(seq) <= Cap THEN seq ELSE SubSeq(seq, 1, Cap)

\* MUTANT of CapBars: one bar too many.
CapBarsInclusive(seq) == IF Len(seq) <= Cap THEN seq ELSE SubSeq(seq, Len(seq) - Cap, Len(seq))

CapBars(seq) == IF Len(seq) <= Cap THEN seq ELSE SubSeq(seq, Len(seq) - Cap + 1, Len(seq))

OldestTime(seq) == seq[1].t

-----------------------------------------------------------------------------
(* market-monitor.                                                         *)

MarketBar(v, t) == [view |-> v, t |-> t, closed |-> t < now]

\* The last time that a page before a given one (0: the latest) may hold.
LastOf(before, n) == IF before = 0 THEN n ELSE before - 1

\* compute_indexer_window: twice as many times as bars are asked for.
InWindow(v, limit, last) == {t \in Traded[v] : last - 2 * limit < t /\ t <= last}

\* The window may start inside the bar before these.  The indexer leaves it
\* out; from the fills it is made of those of its trades that lie inside.
AtEdge(v, limit, last) ==
    {{}} \cup {{[view |-> v, t |-> t, closed |-> whole]} :
                  t \in Traded[v] \cap {last - 2 * limit}, whole \in BOOLEAN}

\* trim_candles.
Newest(S, limit) == {b \in S : Cardinality({c \in S : b.t <= c.t}) <= limit}

\* build_page_result: a full page may have more before it.  (Its floor on
\* the history lies before the first bar of the market here.)
PageOf(v, S, limit) ==
    [view |-> v, seq |-> Sorted(S), more |-> S # {} /\ Cardinality(S) >= limit, at |-> now]

\* What get_candles_page may answer: the newest bars of the window, or none
\* of them when it cannot read the market, which is no error to the page.
ReadPage(v, limit, before) ==
    LET last == LastOf(before, now)
        inside == {MarketBar(v, t) : t \in InWindow(v, limit, last)}
    IN  {PageOf(v, Newest(inside \cup edge, limit), limit) : edge \in AtEdge(v, limit, last)}
           \cup {PageOf(v, {}, limit)}

-----------------------------------------------------------------------------
CandlesInit ==
    /\ now = Start
    /\ view \in View
    /\ bars = <<>>
    /\ hasMore = FALSE /\ loadingMore = FALSE /\ failed = FALSE
    /\ lastTick = NoTick /\ stirred = FALSE /\ wire = <<>>
    /\ \E r \in Request :
          net = [q \in Request |->
                   IF q = r THEN [kind |-> "replace", view |-> view, limit |-> PageSize,
                                  before |-> 0, page |-> {}]
                            ELSE Idle]
    /\ due = FALSE
    /\ moves = 0
    /\ synced = FALSE /\ missed = 0 /\ late = FALSE /\ crossed = FALSE /\ clipped = FALSE

\* fetchMarketCandles, on a request that is free.
Ask(kind, v, limit, before) ==
    \E r \in Request :
        /\ ~Busy(r)
        /\ net' = [net EXCEPT ![r] = [kind |-> kind, view |-> v, limit |-> limit,
                                      before |-> before, page |-> {}]]

\* The market monitor answers.
Answer(r) ==
    /\ Busy(r)
    /\ net[r].page = {}
    /\ \E page \in ReadPage(net[r].view, net[r].limit, net[r].before) :
          net' = [net EXCEPT ![r].page = {page}]
    /\ UNCHANGED <<now, view, candles, feed, due, moves, past>>

\* A bar opens and the one before is closed.
OpenBar ==
    /\ now < MaxNow
    /\ now' = now + 1
    /\ due' = TRUE
    /\ synced' = FALSE
    /\ missed' = IF synced THEN 0 ELSE missed + 1
    /\ late' = (late \/ missed' > TailFetch - 2)
    /\ UNCHANGED <<view, candles, feed, net, moves, crossed, clipped>>

\* The monitor publishes the newest candle of the pool subscribed to: a new
\* bar, or one it has published before, still forming or closed since.  It
\* need not publish each, and the feed may lose what it does.
PublishTick ==
    /\ view \in Ticking
    /\ Len(wire) < MaxWire
    /\ \E t \in Traded[view] :
          /\ t <= now /\ \A u \in Traded[view] : u <= now => u <= t
          /\ wire' = Append(wire, MarketBar(view, t))
    /\ UNCHANGED <<now, view, candles, lastTick, stirred, net, due, moves, past>>

\* Bars learnt by a merge, and what the history says of input n bars old.
Keep(seq, age) ==
    /\ bars' = CapBars(seq)
    /\ synced' = (IF age = 0 THEN synced ELSE FALSE)
    /\ missed' = (IF age - 1 > missed THEN age - 1 ELSE missed)
    /\ late' = (late \/ missed' > TailFetch - 2)
    /\ UNCHANGED crossed

\* How old a tick is: a closed bar inside the chart never ages.
Age(b) == IF b.closed /\ \E c \in ToSet(bars) : c.t <= b.t THEN 0 ELSE now - b.t

\* barFromMarketTick, merged into the bars whatever pool it is of.
WithTick == MergeBars(bars, [i \in 1..Cardinality(lastTick) |-> CHOOSE b \in lastTick : TRUE])

\* The effect on lastTick; at any interval but 1m the tick is dropped.
TickEffect ==
    IF view \in Ticking
    THEN /\ \A b \in lastTick : Keep(WithTick, Age(b))
         /\ UNCHANGED <<lastTick, clipped>>
    ELSE /\ lastTick' = NoTick
         /\ UNCHANGED <<bars, past>>

\* handleWsEvent: a second tick before the effect runs replaces the first.
ReceiveTick ==
    /\ wire # <<>>
    /\ lastTick' = {Head(wire)}
    /\ wire' = Tail(wire)
    /\ stirred' = TRUE
    /\ UNCHANGED <<now, view, candles, net, due, moves, past>>

Render ==
    /\ stirred
    /\ TickEffect
    /\ stirred' = FALSE
    /\ UNCHANGED <<now, view, hasMore, loadingMore, failed, wire, net, due, moves>>

-----------------------------------------------------------------------------
(* What the page asks for.                                                 *)

\* The interval timer: one refreshTail per bar.
RefreshTail ==
    /\ due
    /\ Ask("merge", view, TailFetch, 0)
    /\ due' = FALSE
    /\ UNCHANGED <<now, view, candles, feed, moves, past>>

\* loadMoreOlder, as the chart is scrolled to its left end.
LoadMoreOlder ==
    /\ ~loadingMore /\ hasMore
    /\ bars # <<>>
    /\ Ask("prepend", view, PageSize, OldestTime(bars))
    /\ loadingMore' = TRUE
    /\ crossed' = (crossed \/ Loading)
    /\ UNCHANGED <<now, view, bars, hasMore, failed, feed, due, moves, synced, missed, late, clipped>>

\* reloadHistory, from the refresh button.
Reload ==
    /\ moves < MaxMoves
    /\ Ask("replace", view, PageSize, 0)
    /\ failed' = FALSE
    /\ moves' = moves + 1
    /\ crossed' = (crossed \/ loadingMore)
    /\ UNCHANGED <<now, view, bars, hasMore, loadingMore, feed, due, synced, missed, late, clipped>>

\* Another pool or interval: loadInitial of the new view, a new timer, and
\* the tick's effect when the interval is another one.  The old view's
\* bars, its requests and its ticks stay.
SwitchView(v) ==
    /\ v # view
    /\ moves < MaxMoves
    /\ Ask("replace", v, PageSize, 0)
    /\ view' = v
    /\ failed' = FALSE
    /\ moves' = moves + 1
    /\ due' = FALSE
    /\ IF (v \in Ticking) # (view \in Ticking)
       THEN /\ bars' = IF v \in Ticking THEN CapBars(WithTick) ELSE bars
            /\ lastTick' = IF v \in Ticking THEN lastTick ELSE NoTick
            /\ stirred' = FALSE
       ELSE UNCHANGED <<bars, lastTick, stirred>>
    /\ crossed' = (crossed \/ stirred \/ wire # <<>> \/ \E r \in Request : Busy(r))
    /\ synced' = FALSE
    /\ UNCHANGED <<now, hasMore, loadingMore, wire, missed, late, clipped>>

-----------------------------------------------------------------------------
(* applyPage, and the ways a request fails.                                *)

Settle(r) == net' = [net EXCEPT ![r] = Idle]

Alone(r) == ~stirred /\ wire = <<>> /\ \A q \in Request \ {r} : ~Busy(q)

Clips(page) == \E b \in ToSet(page.seq) : b.t < page.at /\ ~b.closed

\* A page without bars tells the chart nothing of the market.
ApplyReplace(r, page) ==
    /\ bars' = CapBars(page.seq)
    /\ hasMore' = page.more
    /\ synced' = (page.seq # <<>> /\ page.at = now)
    /\ missed' = (IF page.seq = <<>> \/ page.at = now THEN 0 ELSE now - page.at - 1)
    /\ late' = (missed' > TailFetch - 2)
    /\ crossed' = (crossed /\ ~(Alone(r) /\ page.view = view))
    /\ clipped' = Clips(page)
    /\ UNCHANGED <<loadingMore, failed>>

ApplyPrepend(page) ==
    /\ bars' = CapBars(MergeBars(page.seq, bars))
    /\ hasMore' = page.more
    /\ loadingMore' = FALSE
    /\ clipped' = (clipped \/ Clips(page))
    /\ UNCHANGED <<failed, synced, missed, late, crossed>>

ApplyTail(page) ==
    /\ \/ page.seq = <<>> /\ UNCHANGED <<bars, synced, missed, late, crossed>>
       \/ /\ page.seq # <<>> /\ page.at = now
          /\ bars' = CapBars(MergeBars(bars, page.seq))
          /\ synced' = TRUE
          /\ missed' = 0
          /\ UNCHANGED <<late, crossed>>
       \/ /\ page.seq # <<>> /\ page.at # now
          /\ Keep(MergeBars(bars, page.seq), now - page.at)
    /\ clipped' = (clipped \/ Clips(page))
    /\ UNCHANGED <<hasMore, loadingMore, failed>>

Resolve(r) ==
    /\ Busy(r)
    /\ \E page \in net[r].page :
          \/ net[r].kind = "replace" /\ ApplyReplace(r, page)
          \/ net[r].kind = "prepend" /\ ApplyPrepend(page)
          \/ net[r].kind = "merge" /\ ApplyTail(page)
    /\ Settle(r)
    /\ UNCHANGED <<now, view, feed, due, moves>>

\* A failed load empties the chart, whichever view it was for.
FailLoad(r) ==
    /\ net[r].kind = "replace"
    /\ bars' = <<>>
    /\ hasMore' = FALSE
    /\ failed' = TRUE
    /\ synced' = FALSE /\ missed' = 0 /\ late' = FALSE /\ clipped' = FALSE
    /\ crossed' = (crossed /\ ~Alone(r))
    /\ UNCHANGED loadingMore

FailMore(r) ==
    /\ net[r].kind = "prepend"
    /\ failed' = TRUE
    /\ loadingMore' = FALSE
    /\ UNCHANGED <<bars, hasMore, past>>

\* Best effort: a failed tail changes nothing.
FailTail(r) ==
    /\ net[r].kind = "merge"
    /\ UNCHANGED <<candles, past>>

Reject(r) ==
    /\ FailLoad(r) \/ FailMore(r) \/ FailTail(r)
    /\ Settle(r)
    /\ UNCHANGED <<now, view, feed, due, moves>>

CandlesNext ==
    \/ OpenBar \/ PublishTick \/ ReceiveTick \/ Render
    \/ RefreshTail \/ LoadMoreOlder \/ Reload
    \/ \E v \in View : SwitchView(v)
    \/ \E r \in Request : Answer(r) \/ Resolve(r) \/ Reject(r)

CandlesSpec == CandlesInit /\ [][CandlesNext]_vars

-----------------------------------------------------------------------------
(* Properties.                                                             *)

\* In a minute whose tail has been applied, the chart shows the pool it
\* names and nothing else, from its oldest bar to the newest with every bar
\* the market had, each closed one with its last value: ticks lost, doubled
\* up, repeated or late, tails missed for a bar, empty or answered out of
\* order and older pages in between are all made good by the few bars of
\* one tail.  Provided no load overlapped with another view's requests
\* (crossed), no more bars opened without a tail than it reaches back (late)
\* and no page's window began inside a bar (clipped).
SyncedIsTrue ==
    synced /\ ~late /\ ~crossed /\ ~clipped /\ ~Loading =>
        /\ now \in Traded[view] => now \in Times(ToSet(bars))
        /\ \A b \in ToSet(bars) : b = MarketBar(view, b.t)
        /\ \A b \in ToSet(bars) : \A t \in Traded[view] :
              b.t < t /\ t <= now => t \in Times(ToSet(bars))

\* The array of bars is a CandleWindow: whatever arrives in whatever order,
\* every bar is one the market had, one per time, and only a load or the
\* cap takes a bar away, the oldest first.
IsCandleWindow == Window!WindowSpec

=============================================================================
