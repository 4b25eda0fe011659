---------------------------- MODULE CandleWindow ----------------------------
(***************************************************************************)
(* What a chart promises of the bars it holds, whatever the order in which *)
(* pages and ticks reach it: every bar is one the market really had, there *)
(* is one bar per time, and a bar once shown goes away only when a new     *)
(* load replaces the whole window or when the memory cap cuts the oldest.  *)
(***************************************************************************)
EXTENDS Integers, FiniteSets

CONSTANTS
    View,    \* a pool at an interval
    Traded,  \* for each view, the times at which it has a bar
    Cap,     \* CANDLES_MEMORY_CAP
    Start,   \* the time of the forming bar when the page opens
    MaxNow   \* bound on the clock

VARIABLES
    now,     \* the time of the forming bar; earlier bars are closed
    shown    \* the bars the chart holds

Bar == [view : View, t : 1..MaxNow, closed : BOOLEAN]

Times(S) == {b.t : b \in S}

\* There was a trade at its time, and a closed bar has its last value; one
\* that is not may have been read earlier, or in part.
Existed(b, n) == b.t \in Traded[b.view] /\ b.t <= n /\ (b.closed => b.t < n)

Sound(S, n) ==
    /\ \A b \in S : Existed(b, n)
    /\ Cardinality(Times(S)) = Cardinality(S)
    /\ Cardinality(S) <= Cap

\* No trade between two bars is left out.
Unbroken(S) ==
    \A b, c \in S : \A t \in Traded[b.view] : b.t < t /\ t < c.t => t \in Times(S)

WindowInit == now = Start /\ shown = {}

Open == now < MaxNow /\ now' = now + 1 /\ UNCHANGED shown

Load ==
    /\ Sound(shown', now)
    /\ Unbroken(shown')
    /\ \A b, c \in shown' : b.view = c.view
    /\ UNCHANGED now

Learn ==
    /\ Sound(shown', now)
    /\ \A b \in shown :
          \/ b.t \in Times(shown')
          \/ Cardinality(shown') = Cap /\ \A c \in shown' : b.t < c.t
    /\ UNCHANGED now

WindowNext == Open \/ Load \/ Learn

WindowSpec == WindowInit /\ [][WindowNext]_<<now, shown>>

=============================================================================
