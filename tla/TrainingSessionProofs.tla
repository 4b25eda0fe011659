------------------------ MODULE TrainingSessionProofs ------------------------
(***************************************************************************)
(* What TrainingSession promises of the rows and of the actor in memory,   *)
(* for any number of tabs, starts and failures, with a recovery that runs  *)
(* beside the calls.                                                       *)
(***************************************************************************)
EXTENDS TrainingSession, FiniteSetTheorems, WellFoundedInduction, TLAPS

USE DEF server, client, history, vars

-----------------------------------------------------------------------------
(* The latest running row, and the calls of a tab.                         *)

\* None stands for no row.
LEMMA NoneIsNoRow == None \in SimOrNone /\ None \notin Sim /\ Sim \subseteq SimOrNone
  BY SessionAssumption DEF None, Sim, SimOrNone

\* A set of rows that is not empty has a last one.
LEMMA LastRow ==
    ASSUME NEW S \in SUBSET Sim, S # {}
    PROVE  \E s \in S : \A r \in S : r <= s
<1> DEFINE T == {MaxSim - s : s \in S}
<1>1. T \subseteq Nat /\ T # {}
  <2>1. \A s \in S : MaxSim - s \in Nat
    BY SessionAssumption DEF Sim
  <2> QED
    BY <2>1
<1>2. PICK x \in T : \A y \in T : ~ (<<y, x>> \in OpToRel(<, Nat))
  <2> HIDE DEF T
  <2> QED  BY <1>1, NatLessThanWellFounded, WFMin
<1>3. PICK s \in S : x = MaxSim - s
  BY <1>2
<1>4. ASSUME NEW r \in S PROVE r <= s
  <2>1. MaxSim - r \in T
    OBVIOUS
  <2>2. ~ (MaxSim - r < x)
    BY <1>1, <1>2, <2>1 DEF OpToRel
  <2> QED
    BY <1>3, <2>2, SessionAssumption DEF Sim
<1> QED
  BY <1>4

\* No row, or one of the set.
LEMMA LastOfIn ==
    ASSUME NEW S \in SUBSET Sim
    PROVE  /\ S = {} => LastOf(S) = None
           /\ S # {} => LastOf(S) \in S
           /\ LastOf(S) \in SimOrNone
<1>1. ASSUME S # {} PROVE LastOf(S) \in S
  BY <1>1, LastRow DEF LastOf
<1>2. ASSUME S = {} PROVE LastOf(S) = None
  BY <1>2 DEF LastOf
<1> QED
  BY <1>1, <1>2, NoneIsNoRow

LEMMA LatestRuns ==
    /\ Running \in SUBSET Sim
    /\ IF Running = {} THEN Latest = None ELSE Latest \in Running /\ Latest \in Sim
<1>1. Running \in SUBSET Sim
  BY DEF Running
<1> QED
  BY <1>1, LastOfIn DEF Latest

LEMMA CallsOfTab ==
    ASSUME NEW t \in Tab
    PROVE  /\ Toggle(t) \in Call /\ Poll(t) \in Call
           /\ Toggle(t)[2] = "toggle" /\ Poll(t)[2] = "poll"
           /\ Toggle(t) # Poll(t) /\ Toggle(t) # Boot /\ Poll(t) # Boot
  BY DEF Toggle, Poll, Boot, Call

LEMMA BootCalls == Boot \in Call /\ NoCall \notin Call
  BY DEF Boot, NoCall, Call

-----------------------------------------------------------------------------
(* Types, and how the calls move.                                          *)

Places == {"idle", "checking", "cleared", "starting", "hydrating", "failing", "running",
           "refused", "loaded", "awaiting", "committing", "stopped", "asked", "answered",
           "booting", "closing"}

\* A call that starts an actor knows the row it starts it for.
KnowsItsRow(c) == At(c, {"starting", "hydrating", "failing"}) => call[c].sim \in Sim

\* Where the recovery may be.
BootPlaces == {"idle", "booting", "starting", "hydrating", "closing"}

CallsTyped ==
    /\ call \in [Call -> Calls]
    /\ \A c \in Call : KnowsItsRow(c)
    /\ At(Boot, BootPlaces)

SessionTyped == SessionTypeOK /\ CallsTyped

\* Only c moves, from one place to another.
Moves(c, from, to) ==
    /\ call[c].at = from /\ call'[c].at = to
    /\ \A d \in Call : d # c => call'[d] = call[d]

\* It keeps its row and its flag.
Keeps(c) == call'[c].sim = call[c].sim /\ call'[c].flag = call[c].flag

\* A call that becomes a well-formed record leaves the calls well-formed.
LEMMA Becomes ==
    ASSUME CallsTyped, NEW c \in Call, NEW record \in Calls,
           record.at \in {"starting", "hydrating", "failing"} => record.sim \in Sim,
           c = Boot => record.at \in BootPlaces,
           call' = [call EXCEPT ![c] = record]
    PROVE  CallsTyped' /\ call'[c] = record /\ Moves(c, call[c].at, record.at)
<1>1. call'[c] = record /\ \A d \in Call : d # c => call'[d] = call[d]
  BY DEF CallsTyped
<1>2. call' \in [Call -> Calls]
  BY DEF CallsTyped
<1>3. \A d \in Call : KnowsItsRow(d)'
  BY <1>1 DEF CallsTyped, KnowsItsRow, At
<1>4. At(Boot, BootPlaces)'
  BY <1>1, BootCalls DEF CallsTyped, At
<1> QED
  BY <1>1, <1>2, <1>3, <1>4 DEF CallsTyped, Moves

\* What a record is made of.
LEMMA RecordTyped ==
    ASSUME NEW at \in Places, NEW sim \in SimOrNone, NEW flag \in BOOLEAN,
           NEW tsk \in SimOrNone, NEW active \in BOOLEAN
    PROVE  [at |-> at, sim |-> sim, flag |-> flag, task |-> tsk, active |-> active] \in Calls
  BY DEF Calls, Places

LEMMA CallIs ==
    ASSUME CallsTyped, NEW c \in Call
    PROVE  /\ call[c] = [at |-> call[c].at, sim |-> call[c].sim, flag |-> call[c].flag,
                         task |-> call[c].task, active |-> call[c].active]
           /\ call[c].at \in Places /\ call[c].sim \in SimOrNone /\ call[c].flag \in BOOLEAN
           /\ call[c].task \in SimOrNone /\ call[c].active \in BOOLEAN
  BY DEF CallsTyped, Calls, Places

LEMMA QuietIsCall == Quiet \in Calls /\ Quiet.at = "idle"
  BY NoneIsNoRow DEF Quiet, Calls

\* A call goes on to another place as it is.
LEMMA GotoMoves ==
    ASSUME CallsTyped, NEW c \in Call, NEW place \in Places,
           place \in {"starting", "hydrating", "failing"} => call[c].sim \in Sim,
           c = Boot => place \in BootPlaces,
           Goto(c, place)
    PROVE  CallsTyped' /\ Moves(c, call[c].at, place) /\ Keeps(c)
<1> DEFINE R == [call[c] EXCEPT !.at = place]
<1>1. R \in Calls /\ R.at = place /\ R.sim = call[c].sim /\ R.flag = call[c].flag
  BY DEF CallsTyped, Calls, Places
<1>2. call' = [call EXCEPT ![c] = R]
  BY DEF Goto, CallsTyped
<1> HIDE DEF R
<1> QED
  BY <1>1, <1>2, Becomes DEF Keeps

\* Where a start ends.
After(c) == IF c = Boot THEN "closing" ELSE IF c[2] = "poll" THEN "answered" ELSE "running"

LEMMA StartedMoves ==
    ASSUME CallsTyped, NEW c \in Call, Started(c)
    PROVE  /\ CallsTyped' /\ Moves(c, call[c].at, After(c))
           /\ batch' = IF c = Boot THEN [batch EXCEPT !.left = {}] ELSE batch
<1>1. call[c].sim \in SimOrNone /\ call[c].flag \in BOOLEAN
  BY CallIs
<1>2. CASE c = Boot
  <2> DEFINE R == [Quiet EXCEPT !.at = "closing", !.flag = call[c].flag]
  <2>1. R \in Calls /\ R.at = "closing"
    BY <1>1, NoneIsNoRow DEF Quiet, Calls
  <2>2. call' = [call EXCEPT ![c] = R]
    BY <1>2 DEF Started
  <2> HIDE DEF R
  <2>3. CallsTyped' /\ Moves(c, call[c].at, R.at)
    BY <2>1, <2>2, Becomes DEF BootPlaces
  <2> QED
    BY <1>2, <2>1, <2>3 DEF After, Started
<1>3. CASE c # Boot /\ c[2] = "poll"
  <2> DEFINE R == [Quiet EXCEPT !.at = "answered", !.sim = call[c].sim, !.active = TRUE]
  <2>1. R \in Calls /\ R.at = "answered"
    BY <1>1, NoneIsNoRow DEF Quiet, Calls
  <2>2. call' = [call EXCEPT ![c] = R]
    BY <1>3 DEF Started
  <2> HIDE DEF R
  <2>3. CallsTyped' /\ Moves(c, call[c].at, R.at)
    BY <1>3, <2>1, <2>2, Becomes
  <2> QED
    BY <1>3, <2>1, <2>3 DEF After, Started
<1>4. CASE c # Boot /\ c[2] # "poll"
  <2> DEFINE R == [Quiet EXCEPT !.at = "running"]
  <2>1. R \in Calls /\ R.at = "running"
    BY NoneIsNoRow DEF Quiet, Calls
  <2>2. call' = [call EXCEPT ![c] = R]
    BY <1>4 DEF Started
  <2> HIDE DEF R
  <2>3. CallsTyped' /\ Moves(c, call[c].at, R.at)
    BY <1>4, <2>1, <2>2, Becomes
  <2> QED
    BY <1>4, <2>1, <2>3 DEF After, Started
<1> QED
  BY <1>2, <1>3, <1>4

LEMMA BeginMoves ==
    ASSUME CallsTyped, NEW c \in Call, BeginStart(c)
    PROVE  /\ CallsTyped'
           /\ IF actor # None THEN Moves(c, "starting", After(c))
              ELSE Moves(c, "starting", "hydrating") /\ Keeps(c) /\ batch' = batch
           /\ actor # None => batch' = IF c = Boot THEN [batch EXCEPT !.left = {}] ELSE batch
<1>1. call[c].at = "starting" /\ call[c].sim \in Sim
  BY DEF BeginStart, At, CallsTyped, KnowsItsRow
<1>2. CASE actor # None
  BY <1>1, <1>2, StartedMoves DEF BeginStart
<1>3. CASE actor = None
  <2>1. Goto(c, "hydrating") /\ batch' = batch
    BY <1>3 DEF BeginStart
  <2> QED
    BY <1>1, <1>3, <2>1, GotoMoves DEF Places, BootPlaces
<1> QED
  BY <1>2, <1>3

LEMMA FinishMoves ==
    ASSUME CallsTyped, NEW c \in Call, FinishStart(c)
    PROVE  /\ CallsTyped' /\ Moves(c, "hydrating", After(c)) /\ call[c].sim \in Sim
           /\ batch' = IF c = Boot THEN [batch EXCEPT !.left = {}] ELSE batch
<1>1. call[c].at = "hydrating" /\ call[c].sim \in Sim
  BY DEF FinishStart, At, CallsTyped, KnowsItsRow
<1> QED
  BY <1>1, StartedMoves DEF FinishStart

LEMMA FailMoves ==
    ASSUME CallsTyped, NEW c \in Call, FailStart(c)
    PROVE  CallsTyped' /\ Moves(c, "hydrating", "failing") /\ Keeps(c) /\ call[c].sim \in Sim
<1>1. call[c].at = "hydrating" /\ call[c].sim \in Sim
  BY DEF FailStart, BreakOff, At, CallsTyped, KnowsItsRow
<1> QED
  BY <1>1, GotoMoves DEF FailStart, Places

LEMMA StopRowMoves ==
    ASSUME CallsTyped, NEW c \in Call, StopRow(c)
    PROVE  /\ CallsTyped' /\ call[c].sim \in Sim /\ c # Boot
           /\ Moves(c, "failing", IF c[2] = "poll" THEN "answered" ELSE "refused")
<1> DEFINE P == IF c[2] = "poll" THEN "answered" ELSE "refused"
           R == [Quiet EXCEPT !.at = P]
<1>1. call[c].at = "failing" /\ call[c].sim \in Sim /\ c # Boot
  BY DEF StopRow, At, CallsTyped, KnowsItsRow, BootPlaces
<1>2. R \in Calls /\ R.at = P
  BY NoneIsNoRow DEF Quiet, Calls
<1>3. P \notin {"starting", "hydrating", "failing"}
  OBVIOUS
<1>4. call' = [call EXCEPT ![c] = R]
  BY DEF StopRow
<1> HIDE DEF R, P
<1>5. CallsTyped' /\ Moves(c, call[c].at, R.at)
  BY <1>1, <1>2, <1>3, <1>4, Becomes
<1> QED
  BY <1>1, <1>2, <1>5 DEF P

LEMMA BreakMoves ==
    ASSUME CallsTyped, NEW t \in Tab, BreakStart(t)
    PROVE  CallsTyped' /\ Moves(Toggle(t), "hydrating", "refused")
<1> DEFINE R == [Quiet EXCEPT !.at = "refused"]
<1>1. call[Toggle(t)].at = "hydrating"
  BY DEF BreakStart, BreakOff, At
<1>2. R \in Calls /\ R.at = "refused"
  BY NoneIsNoRow DEF Quiet, Calls
<1>3. call' = [call EXCEPT ![Toggle(t)] = R]
  BY DEF BreakStart
<1> HIDE DEF R
<1>4. CallsTyped' /\ Moves(Toggle(t), call[Toggle(t)].at, R.at)
  BY <1>2, <1>3, Becomes, CallsOfTab
<1> QED
  BY <1>1, <1>2, <1>4

\* The recovery goes on with the last of the rows that are left, or ends.
LEMMA GoOnMoves ==
    ASSUME CallsTyped, NEW rows \in SUBSET Sim, NEW flag \in BOOLEAN,
           call' = [call EXCEPT ![Boot] = GoOn(rows, flag)]
    PROVE  /\ CallsTyped'
           /\ Moves(Boot, call[Boot].at, IF rows = {} THEN "closing" ELSE "starting")
           /\ call'[Boot].flag = flag /\ call'[Boot].sim = LastOf(rows)
           /\ rows # {} => LastOf(rows) \in rows
<1> DEFINE P == IF rows = {} THEN "closing" ELSE "starting"
           L == LastOf(rows)
           R == [Quiet EXCEPT !.at = P, !.sim = L, !.flag = flag]
<1>1. call' = [call EXCEPT ![Boot] = R]
  BY DEF GoOn
<1>2. P \in BootPlaces /\ P \notin {"hydrating", "failing"}
  BY DEF BootPlaces
<1>3. (P = "starting" => L \in Sim) /\ L \in SimOrNone /\ (rows # {} => L \in rows)
  BY LastOfIn
<1>4. R \in Calls /\ R.at = P /\ R.sim = L /\ R.flag = flag
  <2>1. L \in SimOrNone
    BY <1>3
  <2> HIDE DEF L
  <2> QED
    BY <2>1, NoneIsNoRow DEF Quiet, Calls
<1> HIDE DEF R
<1>5. CallsTyped' /\ call'[Boot] = R /\ Moves(Boot, call[Boot].at, R.at)
  <2> HIDE DEF P, L
  <2> QED
    BY <1>1, <1>2, <1>3, <1>4, Becomes, BootCalls
<1> QED
  BY <1>3, <1>4, <1>5

\* The rows that the recovery sets out with.
Left == IF actor = None THEN Running ELSE {}

LEMMA QueryRowsMoves ==
    ASSUME SessionTyped, QueryRows
    PROVE  /\ CallsTyped'
           /\ Moves(Boot, "booting", IF Left = {} THEN "closing" ELSE "starting")
           /\ call'[Boot].flag = trading /\ call'[Boot].sim = LastOf(Left)
           /\ Left # {} => LastOf(Left) \in Left
           /\ batch' = [left |-> Left \ {LastOf(Left)}, bad |-> {}]
           /\ overlapped' = (overlapped \/ (Left # {} /\ Closing))
<1>1. Left \in SUBSET Sim /\ trading \in BOOLEAN /\ call[Boot].at = "booting"
  BY LatestRuns DEF Left, SessionTyped, SessionTypeOK, QueryRows, At
<1>2. /\ call' = [call EXCEPT ![Boot] = GoOn(Left, trading)]
      /\ batch' = [left |-> Left \ {LastOf(Left)}, bad |-> {}]
      /\ overlapped' = (overlapped \/ (Left # {} /\ Closing))
  BY DEF QueryRows, Left
<1> QED
  BY <1>1, <1>2, GoOnMoves DEF SessionTyped

LEMMA FailRowMoves ==
    ASSUME SessionTyped, FailRow
    PROVE  /\ CallsTyped' /\ call[Boot].sim \in Sim
           /\ Moves(Boot, "hydrating", IF batch.left = {} THEN "closing" ELSE "starting")
           /\ call'[Boot].flag = call[Boot].flag /\ call'[Boot].sim = LastOf(batch.left)
           /\ batch' = [left |-> batch.left \ {LastOf(batch.left)},
                        bad |-> batch.bad \cup {call[Boot].sim}]
<1>1. /\ batch.left \in SUBSET Sim /\ call[Boot].flag \in BOOLEAN
      /\ call[Boot].at = "hydrating" /\ call[Boot].sim \in Sim
  BY BootCalls, CallIs
  DEF SessionTyped, SessionTypeOK, CallsTyped, KnowsItsRow, FailRow, BreakOff, At
<1> QED
  BY <1>1, GoOnMoves DEF SessionTyped, FailRow

LEMMA RecoveryMoves ==
    ASSUME CallsTyped, CommitRecovery \/ FailRecovery
    PROVE  CallsTyped' /\ Moves(Boot, call[Boot].at, "idle")
  BY Becomes, QuietIsCall, BootCalls DEF CommitRecovery, FailRecovery, BootPlaces

LEMMA ReplyMoves ==
    ASSUME CallsTyped, NEW t \in Tab,
           StartReply(t) \/ RefusedReply(t) \/ StopReply(t) \/ LoseReply(t)
    PROVE  /\ CallsTyped' /\ Moves(Toggle(t), call[Toggle(t)].at, "idle")
           /\ call[Toggle(t)].at \in {"running", "refused", "stopped"}
  BY Becomes, QuietIsCall, CallsOfTab
  DEF StartReply, RefusedReply, StopReply, LoseReply, At

LEMMA ClickMoves ==
    ASSUME SessionTyped, NEW t \in Tab, ClickStart(t) \/ ClickStop(t)
    PROVE  /\ CallsTyped'
           /\ ClickStart(t) => Moves(Toggle(t), "idle", "checking")
           /\ ClickStop(t) => Moves(Toggle(t), "idle", "loaded")
           /\ call'[Toggle(t)].flag = trading
<1>1. call[Toggle(t)].at = "idle" /\ trading \in BOOLEAN
  BY DEF ClickStart, ClickStop, At, SessionTyped, SessionTypeOK
<1>2. ASSUME NEW place \in {"checking", "loaded"},
             call' = [call EXCEPT ![Toggle(t)] = [Quiet EXCEPT !.at = place, !.flag = trading]]
      PROVE  CallsTyped' /\ Moves(Toggle(t), "idle", place) /\ call'[Toggle(t)].flag = trading
  <2> DEFINE R == [Quiet EXCEPT !.at = place, !.flag = trading]
  <2>1. R \in Calls /\ R.at = place /\ R.flag = trading
    BY <1>1, NoneIsNoRow DEF Quiet, Calls
  <2> HIDE DEF R
  <2>2. call' = [call EXCEPT ![Toggle(t)] = R]
    BY <1>2 DEF R
  <2>3. CallsTyped' /\ call'[Toggle(t)] = R /\ Moves(Toggle(t), call[Toggle(t)].at, R.at)
    BY <2>1, <2>2, Becomes, CallsOfTab DEF SessionTyped
  <2> QED
    BY <1>1, <2>1, <2>3
<1>3. ASSUME ClickStart(t)
      PROVE  CallsTyped' /\ Moves(Toggle(t), "idle", "checking") /\ call'[Toggle(t)].flag = trading
  BY <1>2, <1>3 DEF ClickStart
<1>4. ASSUME ClickStop(t)
      PROVE  CallsTyped' /\ Moves(Toggle(t), "idle", "loaded") /\ call'[Toggle(t)].flag = trading
  BY <1>2, <1>4 DEF ClickStop
<1> QED
  BY <1>3, <1>4

LEMMA QueryMoves ==
    ASSUME CallsTyped, NEW t \in Tab, QueryRunning(t)
    PROVE  /\ CallsTyped' /\ Keeps(Toggle(t))
           /\ Moves(Toggle(t), "checking", IF MayStart THEN "cleared" ELSE "refused")
<1> DEFINE P == IF MayStart THEN "cleared" ELSE "refused"
<1>1. P \in Places \ {"starting", "hydrating", "failing"}
  BY DEF Places
<1>2. call[Toggle(t)].at = "checking" /\ Goto(Toggle(t), P)
  BY DEF QueryRunning, At
<1> HIDE DEF P
<1>3. CallsTyped' /\ Keeps(Toggle(t)) /\ Moves(Toggle(t), "checking", P)
  BY <1>1, <1>2, GotoMoves, CallsOfTab
<1> QED
  BY <1>3 DEF P

LEMMA InsertMoves ==
    ASSUME SessionTyped, NEW t \in Tab, InsertRow(t)
    PROVE  /\ CallsTyped' /\ Moves(Toggle(t), "cleared", "starting")
           /\ call'[Toggle(t)].flag = TRUE /\ call'[Toggle(t)].sim \in Sim
           /\ row' = [row EXCEPT ![call'[Toggle(t)].sim] = "running"]
<1>1. PICK s \in Sim : /\ call' = [call EXCEPT ![Toggle(t)].at = "starting",
                                              ![Toggle(t)].sim = s, ![Toggle(t)].flag = TRUE]
                       /\ row' = [row EXCEPT ![s] = "running"]
  BY DEF InsertRow
<1> DEFINE R == [call[Toggle(t)] EXCEPT !.at = "starting", !.sim = s, !.flag = TRUE]
<1>2. R \in Calls /\ R.sim = s /\ R.at = "starting" /\ R.flag = TRUE
  <2>1. call[Toggle(t)] \in Calls /\ s \in SimOrNone
    BY CallsOfTab, NoneIsNoRow DEF SessionTyped, SessionTypeOK
  <2> QED
    BY <2>1 DEF Calls
<1>3. call' = [call EXCEPT ![Toggle(t)] = R]
  BY <1>1, CallsOfTab DEF SessionTyped, SessionTypeOK
<1> HIDE DEF R
<1>4. CallsTyped' /\ call'[Toggle(t)] = R /\ Moves(Toggle(t), call[Toggle(t)].at, R.at)
  BY <1>2, <1>3, Becomes, CallsOfTab DEF SessionTyped
<1>5. call[Toggle(t)].at = "cleared"
  BY DEF InsertRow, At
<1> QED
  BY <1>1, <1>2, <1>4, <1>5

\* A stop takes the task, if there is one, and waits for it.
LEMMA TakingMoves ==
    ASSUME SessionTyped, NEW t \in Tab, NEW place \in {"awaiting", "committing"},
           Taking(t, place)
    PROVE  /\ CallsTyped' /\ Moves(Toggle(t), "loaded", place)
           /\ call'[Toggle(t)].task = task /\ call'[Toggle(t)].sim = Latest
           /\ call'[Toggle(t)].flag = call[Toggle(t)].flag
<1> DEFINE R == [call[Toggle(t)] EXCEPT !.at = place, !.sim = Latest, !.task = task]
<1>1. /\ R \in Calls /\ R.at = place /\ R.sim = Latest /\ R.task = task
      /\ R.flag = call[Toggle(t)].flag
  <2>1. /\ call[Toggle(t)] \in Calls /\ Latest \in SimOrNone /\ task \in SimOrNone
        /\ place \in Places
    BY CallsOfTab, NoneIsNoRow, LatestRuns DEF SessionTyped, SessionTypeOK, Places
  <2> HIDE DEF Latest
  <2> QED
    BY <2>1 DEF Calls, Places
<1>2. call' = [call EXCEPT ![Toggle(t)] = R]
  BY CallsOfTab DEF Taking, SessionTyped, SessionTypeOK
<1> HIDE DEF R
<1>3. CallsTyped' /\ call'[Toggle(t)] = R /\ Moves(Toggle(t), call[Toggle(t)].at, R.at)
  BY <1>1, <1>2, Becomes, CallsOfTab DEF SessionTyped
<1>4. call[Toggle(t)].at = "loaded"
  BY DEF Taking, At
<1> QED
  BY <1>1, <1>3, <1>4

LEMMA CancelMoves ==
    ASSUME SessionTyped, NEW t \in Tab, CancelTask(t)
    PROVE  /\ CallsTyped'
           /\ Moves(Toggle(t), "loaded", IF task # None THEN "awaiting" ELSE "committing")
           /\ call'[Toggle(t)].task = task /\ call'[Toggle(t)].sim = Latest
           /\ call'[Toggle(t)].flag = call[Toggle(t)].flag
<1>1. CASE task # None
  BY <1>1, TakingMoves DEF CancelTask
<1>2. CASE task = None
  BY <1>2, TakingMoves DEF CancelTask
<1> QED
  BY <1>1, <1>2

LEMMA TaskEndsMoves ==
    ASSUME SessionTyped, NEW t \in Tab, TaskEnds(t)
    PROVE  CallsTyped' /\ Moves(Toggle(t), "awaiting", "committing") /\ Keeps(Toggle(t))
<1> DEFINE C == call[Toggle(t)]
           R == [C EXCEPT !.at = "committing", !.task = None]
<1>1. R \in Calls /\ R.at = "committing" /\ R.sim = C.sim /\ R.flag = C.flag
  <2>1. C \in Calls
    BY CallsOfTab DEF SessionTyped, SessionTypeOK
  <2> HIDE DEF C
  <2> QED
    BY <2>1, NoneIsNoRow DEF Calls
<1>2. call' = [call EXCEPT ![Toggle(t)] = R]
  BY CallsOfTab DEF TaskEnds, SessionTyped, SessionTypeOK
<1>3. C.at = "awaiting"
  BY DEF TaskEnds, At
<1> HIDE DEF R
<1>4. CallsTyped' /\ call'[Toggle(t)] = R /\ Moves(Toggle(t), C.at, R.at)
  BY <1>1, <1>2, Becomes, CallsOfTab DEF SessionTyped
<1> QED
  BY <1>1, <1>3, <1>4 DEF Keeps

LEMMA CommitMoves ==
    ASSUME CallsTyped, NEW t \in Tab, CommitStop(t)
    PROVE  CallsTyped' /\ Moves(Toggle(t), "committing", "stopped")
<1> DEFINE R == [Quiet EXCEPT !.at = "stopped"]
<1>1. R \in Calls /\ R.at = "stopped"
  BY NoneIsNoRow DEF Quiet, Calls
<1>2. call' = [call EXCEPT ![Toggle(t)] = R] /\ call[Toggle(t)].at = "committing"
  BY DEF CommitStop, At
<1> HIDE DEF R
<1>3. CallsTyped' /\ Moves(Toggle(t), call[Toggle(t)].at, R.at)
  BY <1>1, <1>2, Becomes, CallsOfTab
<1> QED
  BY <1>1, <1>2, <1>3

LEMMA AskMoves ==
    ASSUME SessionTyped, NEW t \in Tab, AskStatus(t)
    PROVE  /\ CallsTyped' /\ Moves(Poll(t), "idle", "asked")
           /\ call'[Poll(t)].flag = trading
<1> DEFINE R == [Quiet EXCEPT !.at = "asked", !.flag = trading]
<1>1. R \in Calls /\ R.at = "asked" /\ R.flag = trading
  BY NoneIsNoRow DEF Quiet, Calls, SessionTyped, SessionTypeOK
<1>2. call' = [call EXCEPT ![Poll(t)] = R] /\ call[Poll(t)].at = "idle"
  BY DEF AskStatus, At
<1> HIDE DEF R
<1>3. CallsTyped' /\ call'[Poll(t)] = R /\ Moves(Poll(t), call[Poll(t)].at, R.at)
  BY <1>1, <1>2, Becomes, CallsOfTab DEF SessionTyped
<1> QED
  BY <1>1, <1>2, <1>3

LEMMA ReadMoves ==
    ASSUME SessionTyped, NEW t \in Tab, ReadStatus(t)
    PROVE  /\ CallsTyped'
           /\ Lost => /\ Moves(Poll(t), "asked", "starting")
                      /\ call'[Poll(t)].sim = Latest /\ call'[Poll(t)].flag = call[Poll(t)].flag
           /\ ~Lost => Moves(Poll(t), "asked", "answered")
<1>1. Latest \in SimOrNone /\ (Lost => Latest \in Sim)
  BY LatestRuns, NoneIsNoRow DEF Lost
<1> DEFINE C == call[Poll(t)]
<1>2. C \in Calls /\ C.at = "asked"
  BY CallsOfTab DEF SessionTyped, SessionTypeOK, ReadStatus, At
<1>3. CASE Lost
  <2> DEFINE R == [C EXCEPT !.at = "starting", !.sim = Latest]
  <2>1. R \in Calls /\ R.at = "starting" /\ R.sim = Latest /\ R.flag = C.flag
    <3> HIDE DEF C, Latest
    <3> QED
      BY <1>1, <1>2 DEF Calls
  <2>2. call' = [call EXCEPT ![Poll(t)] = R]
    BY <1>3, CallsOfTab DEF ReadStatus, SessionTyped, SessionTypeOK
  <2> HIDE DEF R
  <2>3. CallsTyped' /\ call'[Poll(t)] = R /\ Moves(Poll(t), C.at, R.at)
    BY <1>1, <1>3, <2>1, <2>2, Becomes, CallsOfTab DEF SessionTyped
  <2> QED
    BY <1>2, <1>3, <2>1, <2>3
<1>4. CASE ~Lost
  <2> DEFINE R == [Quiet EXCEPT !.at = "answered", !.sim = Latest, !.active = (actor # None)]
  <2>1. R \in Calls /\ R.at = "answered"
    <3> HIDE DEF Latest
    <3> QED
      BY <1>1, NoneIsNoRow DEF Quiet, Calls
  <2>2. call' = [call EXCEPT ![Poll(t)] = R]
    BY <1>4 DEF ReadStatus
  <2> HIDE DEF R
  <2>3. CallsTyped' /\ Moves(Poll(t), C.at, R.at)
    BY <2>1, <2>2, Becomes, CallsOfTab DEF SessionTyped
  <2> QED
    BY <1>2, <1>4, <2>1, <2>3
<1> QED
  BY <1>3, <1>4

LEMMA AnswerMoves ==
    ASSUME CallsTyped, NEW t \in Tab, StatusAnswer(t)
    PROVE  CallsTyped' /\ Moves(Poll(t), "answered", "idle")
<1>1. call' = [call EXCEPT ![Poll(t)] = Quiet] /\ call[Poll(t)].at = "answered"
  BY DEF StatusAnswer, At
<1>2. CallsTyped' /\ Moves(Poll(t), call[Poll(t)].at, Quiet.at)
  BY <1>1, Becomes, QuietIsCall, CallsOfTab
<1> QED
  BY <1>1, <1>2, QuietIsCall

LEMMA CrashMoves ==
    ASSUME call' = Restarted
    PROVE  /\ CallsTyped'
           /\ \A c \in Call : call'[c].at = IF c = Boot THEN "booting" ELSE "idle"
<1>1. [Quiet EXCEPT !.at = "booting"] \in Calls
  BY NoneIsNoRow DEF Quiet, Calls
<1>2. \A c \in Call : call'[c].at = IF c = Boot THEN "booting" ELSE "idle"
  BY DEF Restarted, Quiet
<1>3. call' \in [Call -> Calls]
  BY <1>1, QuietIsCall DEF Restarted
<1> QED
  BY <1>2, <1>3, BootCalls DEF CallsTyped, KnowsItsRow, At, BootPlaces

-----------------------------------------------------------------------------
(* Type correctness.                                                       *)

\* All but the calls.
RowsTyped == row \in [Sim -> {"none", "running", "stopped"}] /\ trading \in BOOLEAN
MemoryTyped ==
    /\ {actor, task} \subseteq SimOrNone /\ alive \subseteq Sim
    /\ lock \in Call \cup {NoCall} /\ batch \in [left : SUBSET Sim, bad : SUBSET Sim]
PagesTyped ==
    /\ phase \in [Tab -> {"idle", "starting", "running", "stopping", "error"}]
    /\ seen \in [Tab -> SimOrNone \X BOOLEAN] /\ dirty \subseteq Watching
    /\ clicks \in 0..MaxClicks
HistoryTyped ==
    /\ failures \in 0..MaxFailures
    /\ {raced, crossing, overlapped, abandoned} \subseteq BOOLEAN

LEMMA TypedParts ==
    SessionTyped <=> CallsTyped /\ RowsTyped /\ MemoryTyped /\ PagesTyped /\ HistoryTyped
  BY DEF SessionTyped, SessionTypeOK, CallsTyped, RowsTyped, MemoryTyped, PagesTyped, HistoryTyped

LEMMA BatchTyped ==
    ASSUME MemoryTyped
    PROVE  [batch EXCEPT !.left = {}] \in [left : SUBSET Sim, bad : SUBSET Sim]
  BY DEF MemoryTyped

LEMMA FailureCounted ==
    ASSUME HistoryTyped, failures < MaxFailures, failures' = failures + 1
    PROVE  failures' \in 0..MaxFailures
  BY SessionAssumption DEF HistoryTyped

LEMMA SessionTypeStep == SessionTyped /\ [SessionNext]_vars => SessionTyped'
<1> SUFFICES ASSUME SessionTyped, [SessionNext]_vars
             PROVE  CallsTyped' /\ RowsTyped' /\ MemoryTyped' /\ PagesTyped' /\ HistoryTyped'
  BY DEF SessionTyped, SessionTypeOK, CallsTyped, RowsTyped, MemoryTyped, PagesTyped, HistoryTyped
<1> DEFINE Typed == CallsTyped /\ RowsTyped /\ MemoryTyped /\ PagesTyped /\ HistoryTyped
<1>0. CallsTyped /\ RowsTyped /\ MemoryTyped /\ PagesTyped /\ HistoryTyped
  BY TypedParts
<1>1. CASE UNCHANGED vars
  BY <1>0, <1>1
  DEF CallsTyped, RowsTyped, MemoryTyped, PagesTyped, HistoryTyped, KnowsItsRow, At
<1>2. ASSUME NEW c \in Call, BeginStart(c)  PROVE Typed'
  <2>1. CallsTyped'
    BY <1>0, <1>2, BeginMoves
  <2>2. RowsTyped' /\ PagesTyped' /\ HistoryTyped'
    BY <1>0, <1>2 DEF BeginStart, RowsTyped, PagesTyped, HistoryTyped
  <2>3. MemoryTyped'
    <3>1. actor' = actor /\ task' = task /\ alive' = alive /\ lock' \in {lock, c}
      BY <1>2 DEF BeginStart
    <3>2. batch' = batch \/ batch' = [batch EXCEPT !.left = {}]
      BY <1>0, <1>2, BeginMoves
    <3> QED
      BY <1>0, <3>1, <3>2, BatchTyped DEF MemoryTyped
  <2> QED
    BY <2>1, <2>2, <2>3
<1>3. ASSUME NEW c \in Call, FinishStart(c)  PROVE Typed'
  <2>1. CallsTyped' /\ call[c].sim \in Sim
    BY <1>0, <1>3, FinishMoves
  <2>2. RowsTyped' /\ PagesTyped' /\ HistoryTyped'
    BY <1>0, <1>3 DEF FinishStart, RowsTyped, PagesTyped, HistoryTyped
  <2>3. MemoryTyped'
    <3>1. /\ actor' = call[c].sim /\ task' = call[c].sim /\ alive' = alive \cup {call[c].sim}
          /\ lock' = NoCall
      BY <1>3 DEF FinishStart
    <3>2. batch' = batch \/ batch' = [batch EXCEPT !.left = {}]
      BY <1>0, <1>3, FinishMoves
    <3> QED
      BY <1>0, <2>1, <3>1, <3>2, BatchTyped, NoneIsNoRow DEF MemoryTyped
  <2> QED
    BY <2>1, <2>2, <2>3
<1>4. ASSUME NEW c \in Call, FailStart(c)  PROVE Typed'
  <2>1. CallsTyped'
    BY <1>0, <1>4, FailMoves
  <2>2. RowsTyped' /\ PagesTyped' /\ MemoryTyped'
    BY <1>0, <1>4 DEF FailStart, BreakOff, RowsTyped, PagesTyped, MemoryTyped
  <2>3. HistoryTyped'
    <3>1. failures' \in 0..MaxFailures
      BY <1>0, <1>4, FailureCounted DEF FailStart, BreakOff
    <3> QED
      BY <1>0, <1>4, <3>1 DEF FailStart, BreakOff, HistoryTyped
  <2> QED
    BY <2>1, <2>2, <2>3
<1>5. ASSUME NEW c \in Call, StopRow(c)  PROVE Typed'
  <2>1. CallsTyped'
    BY <1>0, <1>5, StopRowMoves
  <2>2. RowsTyped'
    BY <1>0, <1>5 DEF StopRow, RowsTyped
  <2>3. PagesTyped' /\ MemoryTyped' /\ HistoryTyped'
    BY <1>0, <1>5 DEF StopRow, PagesTyped, MemoryTyped, HistoryTyped
  <2> QED
    BY <2>1, <2>2, <2>3
<1>6. ASSUME NEW t \in Tab, BreakStart(t)  PROVE Typed'
  <2>1. CallsTyped'
    BY <1>0, <1>6, BreakMoves
  <2>2. RowsTyped' /\ PagesTyped' /\ MemoryTyped'
    BY <1>0, <1>6 DEF BreakStart, BreakOff, RowsTyped, PagesTyped, MemoryTyped
  <2>3. HistoryTyped'
    <3>1. failures' \in 0..MaxFailures
      BY <1>0, <1>6, FailureCounted DEF BreakStart, BreakOff
    <3> QED
      BY <1>0, <1>6, <3>1 DEF BreakStart, BreakOff, HistoryTyped
  <2> QED
    BY <2>1, <2>2, <2>3
<1>7. CASE QueryRows
  <2>1. CallsTyped' /\ batch' = [left |-> Left \ {LastOf(Left)}, bad |-> {}]
    BY <1>7, QueryRowsMoves
  <2>2. RowsTyped' /\ PagesTyped' /\ HistoryTyped'
    BY <1>0, <1>7 DEF QueryRows, RowsTyped, PagesTyped, HistoryTyped
  <2>3. Left \in SUBSET Sim
    BY LatestRuns DEF Left
  <2>4. batch' \in [left : SUBSET Sim, bad : SUBSET Sim]
    BY <2>1, <2>3
  <2>5. MemoryTyped'
    BY <1>0, <1>7, <2>4 DEF QueryRows, MemoryTyped
  <2> QED
    BY <2>1, <2>2, <2>5
<1>8. CASE FailRow
  <2>1. /\ CallsTyped' /\ call[Boot].sim \in Sim
        /\ batch' = [left |-> batch.left \ {LastOf(batch.left)},
                     bad |-> batch.bad \cup {call[Boot].sim}]
    BY <1>8, FailRowMoves
  <2>2. RowsTyped' /\ PagesTyped'
    BY <1>0, <1>8 DEF FailRow, BreakOff, RowsTyped, PagesTyped
  <2>3. batch' \in [left : SUBSET Sim, bad : SUBSET Sim]
    BY <1>0, <2>1 DEF MemoryTyped
  <2>4. MemoryTyped'
    BY <1>0, <1>8, <2>3 DEF FailRow, BreakOff, MemoryTyped
  <2>5. HistoryTyped'
    <3>1. failures' \in 0..MaxFailures
      BY <1>0, <1>8, FailureCounted DEF FailRow, BreakOff
    <3> QED
      BY <1>0, <1>8, <3>1 DEF FailRow, BreakOff, HistoryTyped
  <2> QED
    BY <2>1, <2>2, <2>4, <2>5
<1>9. CASE CommitRecovery
  <2>1. CallsTyped'
    BY <1>0, <1>9, RecoveryMoves
  <2>2. RowsTyped'
    BY <1>0, <1>9 DEF CommitRecovery, RowsTyped
  <2>3. PagesTyped' /\ HistoryTyped' /\ MemoryTyped'
    BY <1>0, <1>9 DEF CommitRecovery, NoRows, PagesTyped, HistoryTyped, MemoryTyped
  <2> QED
    BY <2>1, <2>2, <2>3
<1>10. CASE FailRecovery
  <2>1. CallsTyped'
    BY <1>0, <1>10, RecoveryMoves
  <2>2. RowsTyped' /\ PagesTyped' /\ MemoryTyped'
    BY <1>0, <1>10 DEF FailRecovery, NoRows, RowsTyped, PagesTyped, MemoryTyped
  <2>3. HistoryTyped'
    <3>1. failures' \in 0..MaxFailures
      BY <1>0, <1>10, FailureCounted DEF FailRecovery
    <3> QED
      BY <1>0, <1>10, <3>1 DEF FailRecovery, HistoryTyped
  <2> QED
    BY <2>1, <2>2, <2>3
<1>11. ASSUME NEW t \in Tab, StartReply(t) \/ RefusedReply(t) \/ StopReply(t) \/ LoseReply(t)
       PROVE  Typed'
  <2>1. CallsTyped'
    BY <1>0, <1>11, ReplyMoves
  <2>2. RowsTyped' /\ MemoryTyped'
    BY <1>0, <1>11
    DEF StartReply, RefusedReply, StopReply, LoseReply, RowsTyped, MemoryTyped
  <2>3. PagesTyped'
    BY <1>0, <1>11
    DEF StartReply, RefusedReply, StopReply, LoseReply, PagesTyped
  <2>4. HistoryTyped'
    <3>1. failures' \in 0..MaxFailures
      BY <1>0, <1>11, FailureCounted
      DEF StartReply, RefusedReply, StopReply, LoseReply, HistoryTyped
    <3> QED
      BY <1>0, <1>11, <3>1 DEF StartReply, RefusedReply, StopReply, LoseReply, HistoryTyped
  <2> QED
    BY <2>1, <2>2, <2>3, <2>4
<1>12. ASSUME NEW t \in Tab, ClickStart(t) \/ ClickStop(t)  PROVE Typed'
  <2>1. CallsTyped'
    BY <1>12, ClickMoves
  <2>2. RowsTyped' /\ MemoryTyped' /\ HistoryTyped'
    BY <1>0, <1>12 DEF ClickStart, ClickStop, RowsTyped, MemoryTyped, HistoryTyped
  <2>3. clicks' \in 0..MaxClicks
    BY <1>0, <1>12, SessionAssumption DEF ClickStart, ClickStop, PagesTyped
  <2>4. PagesTyped'
    BY <1>0, <1>12, <2>3 DEF ClickStart, ClickStop, PagesTyped
  <2> QED
    BY <2>1, <2>2, <2>4
<1>13. ASSUME NEW t \in Tab, QueryRunning(t)  PROVE Typed'
  <2>1. CallsTyped'
    BY <1>0, <1>13, QueryMoves
  <2>2. RowsTyped' /\ MemoryTyped' /\ PagesTyped' /\ HistoryTyped'
    BY <1>0, <1>13 DEF QueryRunning, RowsTyped, MemoryTyped, PagesTyped, HistoryTyped
  <2> QED
    BY <2>1, <2>2
<1>14. ASSUME NEW t \in Tab, InsertRow(t)  PROVE Typed'
  <2>1. CallsTyped'
    BY <1>14, InsertMoves
  <2>2. row' \in [Sim -> {"none", "running", "stopped"}]
    BY <1>0, <1>14, InsertMoves DEF RowsTyped
  <2>3. RowsTyped'
    BY <1>14, <2>2 DEF InsertRow, RowsTyped
  <2>4. MemoryTyped' /\ PagesTyped' /\ HistoryTyped'
    BY <1>0, <1>14 DEF InsertRow, MemoryTyped, PagesTyped, HistoryTyped
  <2> QED
    BY <2>1, <2>3, <2>4
<1>15. ASSUME NEW t \in Tab, CancelTask(t)  PROVE Typed'
  <2>1. CallsTyped'
    BY <1>15, CancelMoves
  <2>2. /\ actor' \in {actor, None} /\ task' = None
        /\ UNCHANGED <<row, trading, alive, lock, batch, client, failures,
                       raced, overlapped, abandoned>>
        /\ crossing' \in BOOLEAN
    BY <1>15 DEF CancelTask, Taking
  <2> QED
    BY <1>0, <2>1, <2>2, NoneIsNoRow DEF RowsTyped, MemoryTyped, PagesTyped, HistoryTyped
<1>16. ASSUME NEW t \in Tab, TaskEnds(t)  PROVE Typed'
  <2>1. CallsTyped'
    BY <1>16, TaskEndsMoves
  <2>2. RowsTyped' /\ MemoryTyped' /\ PagesTyped' /\ HistoryTyped'
    BY <1>0, <1>16, NoneIsNoRow DEF TaskEnds, RowsTyped, MemoryTyped, PagesTyped, HistoryTyped
  <2> QED
    BY <2>1, <2>2
<1>17. ASSUME NEW t \in Tab, CommitStop(t)  PROVE Typed'
  <2>1. CallsTyped'
    BY <1>0, <1>17, CommitMoves
  <2>2. RowsTyped'
    BY <1>0, <1>17 DEF CommitStop, RowsTyped
  <2>3. MemoryTyped' /\ PagesTyped' /\ HistoryTyped'
    BY <1>0, <1>17 DEF CommitStop, MemoryTyped, PagesTyped, HistoryTyped
  <2> QED
    BY <2>1, <2>2, <2>3
<1>18. ASSUME NEW t \in Tab, AskStatus(t) \/ ReadStatus(t)  PROVE Typed'
  <2>1. CallsTyped'
    BY <1>18, AskMoves, ReadMoves
  <2>2. RowsTyped' /\ MemoryTyped'
    BY <1>0, <1>18 DEF AskStatus, ReadStatus, RowsTyped, MemoryTyped
  <2>3. PagesTyped'
    <3>1. CASE AskStatus(t)
      BY <1>0, <3>1 DEF AskStatus, PagesTyped
    <3>2. CASE ReadStatus(t)
      BY <1>0, <3>2 DEF ReadStatus, PagesTyped
    <3> QED
      BY <1>18, <3>1, <3>2
  <2>4. HistoryTyped'
    BY <1>0, <1>18 DEF AskStatus, ReadStatus, HistoryTyped
  <2> QED
    BY <2>1, <2>2, <2>3, <2>4
<1>19. ASSUME NEW t \in Tab, StatusAnswer(t)  PROVE Typed'
  <2>1. CallsTyped'
    BY <1>0, <1>19, AnswerMoves
  <2>2. call[Poll(t)].sim \in SimOrNone /\ call[Poll(t)].active \in BOOLEAN
    BY <1>0, CallsOfTab, CallIs
  <2>3. seen' \in [Tab -> SimOrNone \X BOOLEAN]
    BY <1>0, <1>19, <2>2 DEF StatusAnswer, PagesTyped
  <2>4. phase' \in [Tab -> {"idle", "starting", "running", "stopping", "error"}]
    BY <1>0, <1>19 DEF StatusAnswer, PagesTyped
  <2>5. PagesTyped'
    BY <1>0, <1>19, <2>3, <2>4 DEF StatusAnswer, PagesTyped
  <2>6. RowsTyped' /\ MemoryTyped' /\ HistoryTyped'
    BY <1>0, <1>19 DEF StatusAnswer, RowsTyped, MemoryTyped, HistoryTyped
  <2> QED
    BY <2>1, <2>5, <2>6
<1>20. CASE Crash
  <2>1. CallsTyped'
    BY <1>20, CrashMoves DEF Crash
  <2>2. RowsTyped' /\ MemoryTyped'
    BY <1>0, <1>20, NoneIsNoRow DEF Crash, NoRows, RowsTyped, MemoryTyped
  <2>3. phase' \in [Tab -> {"idle", "starting", "running", "stopping", "error"}]
    BY <1>0, <1>20 DEF Crash, PagesTyped
  <2>4. PagesTyped'
    BY <1>0, <1>20, <2>3 DEF Crash, PagesTyped
  <2>5. HistoryTyped'
    <3>1. failures' \in 0..MaxFailures
      BY <1>0, <1>20, FailureCounted DEF Crash
    <3> QED
      BY <1>0, <1>20, <3>1 DEF Crash, HistoryTyped
  <2> QED
    BY <2>1, <2>2, <2>4, <2>5
<1> QED
  BY <1>1, <1>2, <1>3, <1>4, <1>5, <1>6, <1>7, <1>8, <1>9, <1>10, <1>11, <1>12, <1>13, <1>14,
     <1>15, <1>16, <1>17, <1>18, <1>19, <1>20
  DEF SessionNext, Serve, ServeToggle, Recover

LEMMA SessionTypeInit == SessionInit => SessionTyped
<1> SUFFICES ASSUME SessionInit PROVE SessionTyped
  OBVIOUS
<1>1. CallsTyped
  <2>1. call = Restarted
    BY DEF SessionInit
  <2>2. [Quiet EXCEPT !.at = "booting"] \in Calls
    BY NoneIsNoRow DEF Quiet, Calls
  <2>3. \A c \in Call : call[c].at = IF c = Boot THEN "booting" ELSE "idle"
    BY <2>1 DEF Restarted, Quiet
  <2>4. call \in [Call -> Calls]
    BY <2>1, <2>2, QuietIsCall DEF Restarted
  <2> QED
    BY <2>3, <2>4, BootCalls DEF CallsTyped, KnowsItsRow, At, BootPlaces
<1>2. RowsTyped
  BY DEF SessionInit, RowsTyped
<1>3. MemoryTyped
  BY NoneIsNoRow DEF SessionInit, NoRows, MemoryTyped
<1>4. clicks \in 0..MaxClicks /\ failures \in 0..MaxFailures
  BY SessionAssumption DEF SessionInit
<1>5. 1 \in SimOrNone
  BY SessionAssumption DEF SimOrNone
<1>6. phase \in [Tab -> {"idle", "starting", "running", "stopping", "error"}]
  BY DEF SessionInit
<1>7. seen \in [Tab -> SimOrNone \X BOOLEAN]
  <2>1. <<1, TRUE>> \in SimOrNone \X BOOLEAN /\ <<None, FALSE>> \in SimOrNone \X BOOLEAN
    BY <1>5, NoneIsNoRow
  <2>2. PICK showing \in SUBSET Tab :
          seen = [t \in Tab |-> IF t \in showing THEN <<1, TRUE>> ELSE <<None, FALSE>>]
    BY DEF SessionInit
  <2> QED
    BY <2>1, <2>2, Zenon
<1>8. PagesTyped /\ HistoryTyped
  BY <1>4, <1>6, <1>7 DEF SessionInit, PagesTyped, HistoryTyped
<1> QED
  BY <1>1, <1>2, <1>3, <1>8, TypedParts

LEMMA SessionIsTyped == SessionSpec => []SessionTyped
  BY SessionTypeInit, SessionTypeStep, PTL DEF SessionSpec

\* The rows, the memory of the process, the calls, the recovery and the pages
\* keep their types through every start, stop, poll, failure and restart.
THEOREM SessionTypeCorrect == SessionSpec => []SessionTypeOK
  BY SessionIsTyped, PTL DEF SessionTyped

-----------------------------------------------------------------------------
(* One running row.                                                        *)

\* Until two starts race, the call that found no running row is alone in it
\* and its answer still holds.
ClearedHolds ==
    ~raced =>
        /\ \A r, s \in Running : r = s
        /\ \A c, d \in Call : At(c, {"cleared"}) /\ At(d, {"cleared"}) => c = d
        /\ \A c \in Call : At(c, {"cleared"}) => Running = {}

\* What keeps it: no new running row, no new call that found none.
LEMMA ClearedKept ==
    ASSUME ClearedHolds, raced' = raced,
           Running' \subseteq Running,
           \A c \in Call : At(c, {"cleared"})' => At(c, {"cleared"})
    PROVE  ClearedHolds'
  BY DEF ClearedHolds

\* A call that goes on to another place leaves it so.
LEMMA ClearedLeft ==
    ASSUME NEW c \in Call, NEW from, NEW to, to # "cleared", Moves(c, from, to)
    PROVE  \A d \in Call : At(d, {"cleared"})' => At(d, {"cleared"})
  BY DEF Moves, At

\* Only an insert makes a row run.
LEMMA RowsStop ==
    ASSUME SessionTyped, [SessionNext]_vars, \A t \in Tab : ~InsertRow(t)
    PROVE  Running' \subseteq Running
<1>1. \/ row' = row
      \/ \E c \in Call : row' = [row EXCEPT ![call[c].sim] = "stopped"]
      \/ row' = [s \in Sim |-> IF s \in batch.bad THEN "stopped" ELSE row[s]]
      \/ \E t \in Tab : row' = [s \in Sim |-> IF s = call[Toggle(t)].sim THEN "stopped" ELSE row[s]]
  BY DEF SessionNext, ClickStart, ClickStop, ServeToggle, QueryRunning, StartReply, RefusedReply,
         CancelTask, Taking, TaskEnds, CommitStop, StopReply, BreakStart, BreakOff, Serve, BeginStart,
         FinishStart, StopRow, FailStart, AskStatus, ReadStatus, StatusAnswer, LoseReply, Recover,
         QueryRows, CommitRecovery, FailRow, FailRecovery, Crash
<1> QED
  BY <1>1 DEF Running, SessionTyped, SessionTypeOK

LEMMA ClearedStep ==
    ASSUME SessionTyped, ClearedHolds, [SessionNext]_vars
    PROVE  ClearedHolds'
<1>0. CallsTyped
  BY DEF SessionTyped
<1>1. CASE UNCHANGED vars
  BY <1>1, ClearedKept DEF Running, At
<1>2. ASSUME NEW t \in Tab, QueryRunning(t)  PROVE ClearedHolds'
  <2>1. Running' = Running
    BY <1>2 DEF QueryRunning, Running
  <2>2. CASE MayStart
    <3>1. \A d \in Call : At(d, {"cleared"})' => At(d, {"cleared"}) \/ d = Toggle(t)
      BY <1>0, <1>2, QueryMoves DEF Moves, At
    <3>2. ~raced' => ~raced /\ \A c \in Call : ~At(c, {"cleared"})
      BY <1>2, <2>2 DEF QueryRunning
    <3> QED
      BY <2>1, <2>2, <3>1, <3>2 DEF ClearedHolds, MayStart
  <2>3. CASE ~MayStart
    <3>1. \A d \in Call : At(d, {"cleared"})' => At(d, {"cleared"})
      BY <1>0, <1>2, <2>3, QueryMoves DEF Moves, At
    <3>2. raced' = raced
      BY <1>2, <2>3 DEF QueryRunning, SessionTyped, SessionTypeOK
    <3> QED
      BY <2>1, <3>1, <3>2, ClearedKept
  <2> QED
    BY <2>2, <2>3
<1>3. ASSUME NEW t \in Tab, InsertRow(t)  PROVE ClearedHolds'
  <2>1. Toggle(t) \in Call /\ At(Toggle(t), {"cleared"}) /\ raced' = raced
    BY <1>3, CallsOfTab DEF InsertRow
  <2>2. PICK s \in Sim : row' = [row EXCEPT ![s] = "running"]
    BY <1>3 DEF InsertRow
  <2>3. Running' \subseteq Running \cup {s}
    BY <2>2 DEF Running, SessionTyped, SessionTypeOK
  <2>4. \A d \in Call : At(d, {"cleared"})' => At(d, {"cleared"}) /\ d # Toggle(t)
    BY <1>3, InsertMoves DEF Moves, At
  <2> QED
    BY <2>1, <2>3, <2>4 DEF ClearedHolds
<1>4. ASSUME \A t \in Tab : ~QueryRunning(t) /\ ~InsertRow(t), SessionNext
      PROVE  ClearedHolds'
  <2>1. Running' \subseteq Running
    BY <1>4, RowsStop
  <2>2. raced' = raced
    BY <1>4
    DEF SessionNext, ClickStart, ClickStop, ServeToggle, StartReply, RefusedReply, CancelTask,
        Taking, TaskEnds, CommitStop, StopReply, BreakStart, BreakOff, Serve, BeginStart,
        FinishStart, StopRow, FailStart, AskStatus, ReadStatus, StatusAnswer, LoseReply, Recover,
        QueryRows, CommitRecovery, FailRow, FailRecovery, Crash
  <2>3. \A d \in Call : At(d, {"cleared"})' => At(d, {"cleared"})
    <3>1. ASSUME NEW c \in Call, BeginStart(c) \/ FinishStart(c) \/ FailStart(c) \/ StopRow(c)
          PROVE  \A d \in Call : At(d, {"cleared"})' => At(d, {"cleared"})
      <4>1. After(c) # "cleared"
        BY DEF After
      <4>2. CASE BeginStart(c)
        BY <1>0, <4>1, <4>2, BeginMoves, ClearedLeft
      <4>3. CASE FinishStart(c)
        BY <1>0, <4>1, <4>3, FinishMoves, ClearedLeft
      <4>4. CASE FailStart(c)
        BY <1>0, <4>4, FailMoves, ClearedLeft
      <4>5. CASE StopRow(c)
        BY <1>0, <4>5, StopRowMoves, ClearedLeft
      <4> QED
        BY <3>1, <4>2, <4>3, <4>4, <4>5
    <3>2. ASSUME QueryRows \/ FailRow \/ CommitRecovery \/ FailRecovery
          PROVE  \A d \in Call : At(d, {"cleared"})' => At(d, {"cleared"})
      BY <1>0, <3>2, QueryRowsMoves, FailRowMoves, RecoveryMoves, ClearedLeft, BootCalls
    <3>3. ASSUME NEW t \in Tab, ClickStart(t) \/ ClickStop(t) \/ BreakStart(t)
          PROVE  \A d \in Call : At(d, {"cleared"})' => At(d, {"cleared"})
      BY <1>0, <3>3, ClickMoves, BreakMoves, ClearedLeft, CallsOfTab
    <3>4. ASSUME NEW t \in Tab, CancelTask(t) \/ TaskEnds(t) \/ CommitStop(t)
          PROVE  \A d \in Call : At(d, {"cleared"})' => At(d, {"cleared"})
      BY <1>0, <3>4, CancelMoves, TaskEndsMoves, CommitMoves, ClearedLeft, CallsOfTab
    <3>5. ASSUME NEW t \in Tab, StartReply(t) \/ RefusedReply(t) \/ StopReply(t) \/ LoseReply(t)
          PROVE  \A d \in Call : At(d, {"cleared"})' => At(d, {"cleared"})
      BY <1>0, <3>5, ReplyMoves, ClearedLeft, CallsOfTab
    <3>6. ASSUME NEW t \in Tab, AskStatus(t) \/ ReadStatus(t) \/ StatusAnswer(t)
          PROVE  \A d \in Call : At(d, {"cleared"})' => At(d, {"cleared"})
      BY <1>0, <3>6, AskMoves, ReadMoves, AnswerMoves, ClearedLeft, CallsOfTab
    <3>7. ASSUME Crash
          PROVE  \A d \in Call : At(d, {"cleared"})' => At(d, {"cleared"})
      BY <3>7, CrashMoves DEF Crash, At
    <3> QED
      BY <1>4, <3>1, <3>2, <3>3, <3>4, <3>5, <3>6, <3>7 DEF SessionNext, Serve, ServeToggle, Recover
  <2> QED
    BY <2>1, <2>2, <2>3, ClearedKept
<1> QED
  BY <1>1, <1>2, <1>3, <1>4

LEMMA ClearedInit == SessionInit => ClearedHolds
<1> SUFFICES ASSUME SessionInit PROVE ClearedHolds
  OBVIOUS
<1>1. \A c \in Call : ~At(c, {"cleared"})
  BY DEF SessionInit, Restarted, Quiet, At
<1>2. \A r \in Running : r = 1
  BY DEF SessionInit, Running
<1> QED
  BY <1>1, <1>2 DEF ClearedHolds

LEMMA OneRow == ClearedHolds => OneRunning
<1> SUFFICES ASSUME ClearedHolds, ~raced PROVE Cardinality(Running) <= 1
  BY DEF OneRunning
<1>1. CASE Running = {}
  BY <1>1, FS_EmptySet
<1>2. CASE Running # {}
  <2>1. PICK s : s \in Running
    BY <1>2
  <2>2. Running = {s}
    BY <2>1 DEF ClearedHolds
  <2> QED
    BY <2>2, FS_Singleton
<1> QED
  BY <1>1, <1>2

\* A Panda has one running row unless two starts raced between the query for
\* a running row and the insert, whatever stops, fails, crashes, is polled or
\* is recovered.
THEOREM OneRunningRow == SessionSpec => []OneRunning
<1>1. SessionSpec => []ClearedHolds
  BY ClearedInit, ClearedStep, SessionIsTyped, PTL DEF SessionSpec
<1> QED
  BY <1>1, OneRow, PTL

-----------------------------------------------------------------------------
(* One actor.                                                              *)

\* Hydration is exclusive, and no actor is registered under it.
LockHeld == \A c \in Call : At(c, {"hydrating"}) => lock = c /\ actor = None

\* Until a stop meets the actor whose task another waits for: the registered
\* actor's task is the one that runs, held by _tasks or by the one stop that
\* waits for it.
MemoryAgrees ==
    ~crossing =>
        /\ alive = IF actor = None THEN {} ELSE {actor}
        /\ \A c, d \in Call : At(c, {"awaiting"}) /\ At(d, {"awaiting"}) => c = d
        /\ \A c \in Call : At(c, {"awaiting"}) =>
               actor # None /\ call[c].task = actor /\ task = None
        /\ (\A c \in Call : ~At(c, {"awaiting"})) => task = actor

\* A call that is not a start or a stop in its critical steps leaves the memory.
Aside ==
    \E c \in Call : \E from, to \in Places :
        /\ Moves(c, from, to)
        /\ from # "awaiting" /\ to \notin {"awaiting", "hydrating"}
        /\ actor' = actor /\ task' = task /\ alive' = alive /\ crossing' = crossing
        /\ lock' = lock \/ (lock' = NoCall /\ from = "hydrating")

LEMMA AsideSteps ==
    ASSUME SessionTyped, SessionNext, ~Crash,
           \A c \in Call : ~BeginStart(c) /\ ~FinishStart(c),
           \A t \in Tab : ~CancelTask(t) /\ ~TaskEnds(t)
    PROVE  Aside
<1>0. CallsTyped
  BY DEF SessionTyped
<1>1. ASSUME NEW c \in Call, FailStart(c) \/ StopRow(c)
      PROVE  Aside
  <2>1. CASE FailStart(c)
    BY <1>0, <2>1, FailMoves DEF FailStart, BreakOff, Aside, Places
  <2>2. CASE StopRow(c)
    <3>1. \E to \in {"answered", "refused"} : Moves(c, "failing", to)
      BY <1>0, <2>2, StopRowMoves
    <3> QED
      BY <2>2, <3>1 DEF StopRow, Aside, Places
  <2> QED
    BY <1>1, <2>1, <2>2
<1>2. ASSUME QueryRows \/ FailRow
      PROVE  Aside
  <2>1. CASE QueryRows
    <3>1. \E to \in {"closing", "starting"} : Moves(Boot, "booting", to)
      BY <2>1, QueryRowsMoves
    <3> QED
      BY <2>1, <3>1, BootCalls DEF QueryRows, Aside, Places
  <2>2. CASE FailRow
    <3>1. \E to \in {"closing", "starting"} : Moves(Boot, "hydrating", to)
      BY <2>2, FailRowMoves
    <3> QED
      BY <2>2, <3>1, BootCalls DEF FailRow, BreakOff, Aside, Places
  <2> QED
    BY <1>2, <2>1, <2>2
<1>3. ASSUME CommitRecovery \/ FailRecovery
      PROVE  Aside
  <2>1. \E from \in {"booting", "closing"} : Moves(Boot, from, "idle")
    BY <1>0, <1>3, RecoveryMoves DEF CommitRecovery, FailRecovery, At
  <2> QED
    BY <1>3, <2>1, BootCalls DEF CommitRecovery, FailRecovery, Aside, Places
<1>4. ASSUME NEW t \in Tab, BreakStart(t)  PROVE Aside
  BY <1>0, <1>4, BreakMoves, CallsOfTab DEF BreakStart, BreakOff, Aside, Places
<1>5. ASSUME NEW t \in Tab, ClickStart(t) \/ ClickStop(t)  PROVE Aside
  <2>1. \E to \in {"checking", "loaded"} : Moves(Toggle(t), "idle", to)
    BY <1>5, ClickMoves
  <2> QED
    BY <1>5, <2>1, CallsOfTab DEF ClickStart, ClickStop, Aside, Places
<1>6. ASSUME NEW t \in Tab, QueryRunning(t)  PROVE Aside
  <2>1. \E to \in {"cleared", "refused"} : Moves(Toggle(t), "checking", to)
    BY <1>0, <1>6, QueryMoves
  <2> QED
    BY <1>6, <2>1, CallsOfTab DEF QueryRunning, Aside, Places
<1>7. ASSUME NEW t \in Tab, InsertRow(t)  PROVE Aside
  BY <1>7, InsertMoves, CallsOfTab DEF InsertRow, Aside, Places
<1>8. ASSUME NEW t \in Tab, CommitStop(t)  PROVE Aside
  BY <1>0, <1>8, CommitMoves, CallsOfTab DEF CommitStop, Aside, Places
<1>9. ASSUME NEW t \in Tab, StartReply(t) \/ RefusedReply(t) \/ StopReply(t) \/ LoseReply(t)
      PROVE  Aside
  <2>1. \E from \in {"running", "refused", "stopped"} : Moves(Toggle(t), from, "idle")
    BY <1>0, <1>9, ReplyMoves
  <2> QED
    BY <1>9, <2>1, CallsOfTab
    DEF StartReply, RefusedReply, StopReply, LoseReply, Aside, Places
<1>10. ASSUME NEW t \in Tab, AskStatus(t)  PROVE Aside
  BY <1>10, AskMoves, CallsOfTab DEF AskStatus, Aside, Places
<1>11. ASSUME NEW t \in Tab, ReadStatus(t)  PROVE Aside
  <2>1. \E to \in {"starting", "answered"} : Moves(Poll(t), "asked", to)
    BY <1>11, ReadMoves
  <2> QED
    BY <1>11, <2>1, CallsOfTab DEF ReadStatus, Aside, Places
<1>12. ASSUME NEW t \in Tab, StatusAnswer(t)  PROVE Aside
  BY <1>0, <1>12, AnswerMoves, CallsOfTab DEF StatusAnswer, Aside, Places
<1> QED
  BY <1>1, <1>2, <1>3, <1>4, <1>5, <1>6, <1>7, <1>8, <1>9, <1>10, <1>11, <1>12
  DEF SessionNext, Serve, ServeToggle, Recover

LEMMA LockInit == SessionInit => LockHeld
  BY DEF SessionInit, Restarted, LockHeld, At, Quiet

LEMMA LockStep ==
    ASSUME SessionTyped, LockHeld, [SessionNext]_vars
    PROVE  LockHeld'
<1>0. CallsTyped
  BY DEF SessionTyped
<1>1. CASE UNCHANGED vars
  BY <1>1 DEF LockHeld, At
<1>2. ASSUME NEW c \in Call, BeginStart(c)  PROVE LockHeld'
  <2>1. lock = NoCall /\ actor' = actor
    BY <1>2 DEF BeginStart
  <2>2. \A d \in Call : ~At(d, {"hydrating"})
    BY <2>1, BootCalls DEF LockHeld
  <2>3. CASE actor # None
    <3>1. Moves(c, "starting", After(c)) /\ After(c) # "hydrating"
      BY <1>0, <1>2, <2>3, BeginMoves DEF After
    <3> QED
      BY <2>2, <3>1 DEF LockHeld, Moves, At
  <2>4. CASE actor = None
    <3>1. Moves(c, "starting", "hydrating") /\ lock' = c
      BY <1>0, <1>2, <2>4, BeginMoves DEF BeginStart
    <3> QED
      BY <2>1, <2>2, <2>4, <3>1 DEF LockHeld, Moves, At
  <2> QED
    BY <2>3, <2>4
<1>3. ASSUME NEW c \in Call, FinishStart(c)  PROVE LockHeld'
  <2>1. Moves(c, "hydrating", After(c)) /\ After(c) # "hydrating"
    BY <1>0, <1>3, FinishMoves DEF After
  <2> QED
    BY <2>1 DEF LockHeld, Moves, At
<1>4. ASSUME NEW t \in Tab, CancelTask(t) \/ TaskEnds(t)  PROVE LockHeld'
  <2>1. \E from \in {"loaded", "awaiting"} : \E to \in {"awaiting", "committing"} :
            Moves(Toggle(t), from, to)
    BY <1>4, CancelMoves, TaskEndsMoves
  <2>2. lock' = lock /\ actor' \in {actor, None}
    BY <1>4 DEF CancelTask, Taking, TaskEnds
  <2> QED
    BY <2>1, <2>2 DEF LockHeld, Moves, At
<1>5. CASE Crash
  BY <1>5, CrashMoves DEF Crash, LockHeld, At
<1>6. CASE Aside
  <2>1. PICK c \in Call : \E from, to \in Places :
            /\ Moves(c, from, to) /\ to # "hydrating" /\ actor' = actor
            /\ lock' = lock \/ (lock' = NoCall /\ from = "hydrating")
    BY <1>6 DEF Aside
  <2> QED
    BY <2>1 DEF LockHeld, Moves, At
<1> QED
  BY <1>1, <1>2, <1>3, <1>4, <1>5, <1>6, AsideSteps

LEMMA SessionLock == SessionSpec => []LockHeld
  BY LockInit, LockStep, SessionIsTyped, PTL DEF SessionSpec

LEMMA MemoryInit == SessionInit => MemoryAgrees
  BY DEF SessionInit, Restarted, MemoryAgrees, At, Quiet

LEMMA MemoryStep ==
    ASSUME SessionTyped, LockHeld, MemoryAgrees, [SessionNext]_vars
    PROVE  MemoryAgrees'
<1>0. CallsTyped /\ crossing \in BOOLEAN
  BY DEF SessionTyped, SessionTypeOK
<1>1. CASE UNCHANGED vars
  BY <1>1 DEF MemoryAgrees, At
<1>2. ASSUME NEW c \in Call, BeginStart(c)  PROVE MemoryAgrees'
  <2>1. \E to \in Places : Moves(c, "starting", to) /\ to # "awaiting"
    BY <1>0, <1>2, BeginMoves DEF After, Places
  <2>2. UNCHANGED <<actor, task, alive, crossing>>
    BY <1>2 DEF BeginStart
  <2> QED
    BY <2>1, <2>2 DEF MemoryAgrees, Moves, At
<1>3. ASSUME NEW c \in Call, FinishStart(c)  PROVE MemoryAgrees'
  <2>1. Moves(c, "hydrating", After(c)) /\ After(c) # "awaiting" /\ call[c].sim \in Sim
    BY <1>0, <1>3, FinishMoves DEF After
  <2>2. /\ actor' = call[c].sim /\ task' = call[c].sim /\ alive' = alive \cup {call[c].sim}
        /\ crossing' = crossing
    BY <1>3 DEF FinishStart
  <2>3. actor = None
    BY <2>1 DEF LockHeld, Moves, At
  <2> QED
    BY <2>1, <2>2, <2>3, NoneIsNoRow DEF MemoryAgrees, Moves, At
<1>4. ASSUME NEW t \in Tab, CancelTask(t)  PROVE MemoryAgrees'
  <2>1. /\ Toggle(t) \in Call
        /\ Moves(Toggle(t), "loaded", IF task # None THEN "awaiting" ELSE "committing")
        /\ call'[Toggle(t)].task = task
    BY <1>4, CancelMoves, CallsOfTab
  <2>2. /\ task' = None /\ alive' = alive
        /\ actor' = IF task # None THEN actor ELSE None
        /\ crossing' = (crossing \/ (task = None /\ actor # None))
    BY <1>4 DEF CancelTask, Taking
  <2> QED
    BY <1>0, <2>1, <2>2 DEF MemoryAgrees, Moves, At
<1>5. ASSUME NEW t \in Tab, TaskEnds(t)  PROVE MemoryAgrees'
  <2>1. Toggle(t) \in Call /\ Moves(Toggle(t), "awaiting", "committing")
    BY <1>5, TaskEndsMoves, CallsOfTab
  <2>2. /\ alive' = alive \ {call[Toggle(t)].task} /\ actor' = None
        /\ task' = task /\ crossing' = crossing
    BY <1>5 DEF TaskEnds
  <2> QED
    BY <2>1, <2>2 DEF MemoryAgrees, Moves, At
<1>6. CASE Crash
  BY <1>6, CrashMoves DEF Crash, MemoryAgrees, At
<1>7. CASE Aside
  <2>1. PICK c \in Call : \E from, to \in Places :
            /\ Moves(c, from, to) /\ from # "awaiting" /\ to # "awaiting"
            /\ actor' = actor /\ task' = task /\ alive' = alive /\ crossing' = crossing
    BY <1>7 DEF Aside
  <2> QED
    BY <2>1 DEF MemoryAgrees, Moves, At
<1> QED
  BY <1>1, <1>2, <1>3, <1>4, <1>5, <1>6, <1>7, AsideSteps

LEMMA OneTask == SessionTyped /\ MemoryAgrees => OneActor
<1> SUFFICES ASSUME SessionTyped, MemoryAgrees, ~crossing
             PROVE  Cardinality(alive) <= 1 /\ (actor = None <=> alive = {})
  BY DEF OneActor
<1>1. CASE actor = None
  BY <1>1, FS_EmptySet DEF MemoryAgrees
<1>2. CASE actor # None
  <2>1. alive = {actor}
    BY <1>2 DEF MemoryAgrees
  <2> QED
    BY <1>2, <2>1, FS_Singleton
<1> QED
  BY <1>1, <1>2

\* A Panda trades once, however many tabs, polls, crashes, failed starts and
\* failed recoveries there are, with the recovery running beside the calls:
\* until two stops cross, one actor task runs at most and it is the registered
\* actor's.
THEOREM OneActorTask == SessionSpec => []OneActor
<1>1. SessionSpec => []MemoryAgrees
  BY MemoryInit, MemoryStep, SessionIsTyped, SessionLock, PTL DEF SessionSpec
<1> QED
  BY <1>1, OneTask, SessionIsTyped, PTL

-----------------------------------------------------------------------------
(* The rows, the flag and the memory.                                      *)

\* About to have an actor for its row, or to stop the row.
Bringing(c) == At(c, {"starting", "hydrating"}) \/ Unwritten(c)

\* The flag says whether a row runs, and one runs at most.
Flagged == trading = (Running # {}) /\ \A r, s \in Running : r = s

\* The recovery has no row left, and those that failed are written next.
Recovered == batch.left = {} /\ (batch.bad # {} => At(Boot, {"closing"}))

OneCleared == \A c, d \in Call : At(c, {"cleared"}) /\ At(d, {"cleared"}) => c = d

\* No stop is under way: the registered actor's task runs, for a running row,
\* and a running row without it is being brought one, or is abandoned.
Settled ==
    (\A c \in Call : ~Stopping(c)) =>
        /\ task = actor
        /\ alive = IF actor = None THEN {} ELSE {actor}
        /\ alive \subseteq Running
        /\ actor = None /\ Running # {} =>
             abandoned \/ At(Boot, {"booting"}) \/ \E c \in Call : Bringing(c)

\* A start knows the running row, and one that failed is alone with it.
StartHolds(c) ==
    /\ At(c, {"checking"}) => (call[c].flag => trading)
    /\ At(c, {"cleared"}) => Running = {} /\ ~call[c].flag
    /\ At(c, {"starting", "hydrating"}) => Running = {call[c].sim}
    /\ Unwritten(c) =>
         /\ call[c].flag /\ actor = None
         /\ Running = IF c = Boot THEN batch.bad ELSE {call[c].sim}
         /\ \A d \in Call : Starting(d) => d = c

\* A stop meets no start, and leaves no task but those that are waited for.
StopHolds(c) ==
    /\ \A d \in Call : ~Starting(d)
    /\ trading => call[c].flag
    /\ \A a \in alive : a = task \/ \E d \in Call : At(d, {"awaiting"}) /\ call[d].task = a
    /\ At(c, {"awaiting", "committing"}) => task = None /\ Running \subseteq {call[c].sim}
    /\ At(c, {"committing"}) => actor = None

\* What the session read of is_trading still holds when the row is to be
\* stopped, or there will be no row to stop.
Informed(c) ==
    \/ call[c].flag \/ ~trading \/ actor # None
    \/ \E d \in Call : Stopping(d) \/ (At(d, {"starting", "hydrating"}) /\ call[d].flag)

StartsHold == \A c \in Call : Starting(c) => StartHolds(c)
StopsHold == \A c \in Call : Stopping(c) => StopHolds(c)
AllInformed == \A c \in Call : At(c, {"asked", "starting", "hydrating"}) => Informed(c)

AllAgree ==
    Flagged /\ Recovered /\ OneCleared /\ Settled /\ StartsHold /\ StopsHold /\ AllInformed

\* Until an actor is being started beside a stop, a race or a failed start.
RowsAgree == ~overlapped => AllAgree

\* Where a call does not touch the rows nor the memory.
Elsewhere == {"idle", "running", "refused", "stopped", "answered", "asked"}

\* Answers, and questions that are asked with the flag as it is.
LEMMA ElsewhereAgrees ==
    ASSUME AllAgree, NEW c \in Call, c # Boot, NEW from \in Elsewhere \cup {"checking"},
           NEW to \in Elsewhere, Moves(c, from, to),
           to = "asked" => call'[c].flag = trading,
           UNCHANGED <<server, abandoned>>
    PROVE  AllAgree'
<1>0. Flagged /\ Recovered /\ OneCleared /\ Settled /\ StartsHold /\ StopsHold /\ AllInformed
  BY DEF AllAgree
<1>1. Running' = Running
  BY DEF Running
<1>2. \A d \in Call : Stopping(d)' <=> Stopping(d)
  BY DEF Stopping, At, Moves, Elsewhere
<1>3. \A d \in Call : Unwritten(d)' <=> Unwritten(d)
  BY DEF Unwritten, At, Moves, Elsewhere
<1>4. \A d \in Call : At(d, {"starting", "hydrating"})' <=> At(d, {"starting", "hydrating"})
  BY DEF At, Moves, Elsewhere
<1>5. \A d \in Call : Starting(d)' => Starting(d)
  BY <1>3 DEF Starting, At, Moves, Elsewhere
<1>6. \A d \in Call : Starting(d)' \/ Stopping(d)' => d # c /\ call'[d] = call[d]
  BY <1>2, <1>3 DEF Stopping, Starting, Unwritten, At, Moves, Elsewhere
<1>7. Flagged' /\ Recovered' /\ OneCleared'
  <2>1. Flagged'
    BY <1>0, <1>1 DEF Flagged
  <2>2. Recovered'
    BY <1>0, BootCalls DEF Recovered, At, Moves
  <2>3. OneCleared'
    BY <1>0 DEF OneCleared, At, Moves, Elsewhere
  <2> QED
    BY <2>1, <2>2, <2>3
<1>8. Settled'
  <2>1. \A d \in Call : Bringing(d)' <=> Bringing(d)
    BY <1>3, <1>4 DEF Bringing
  <2>2. At(Boot, {"booting"})' <=> At(Boot, {"booting"})
    BY BootCalls DEF At, Moves
  <2> QED
    BY <1>0, <1>1, <1>2, <2>1, <2>2 DEF Settled
<1>9. StartsHold'
  BY <1>0, <1>1, <1>3, <1>5, <1>6 DEF StartsHold, StartHolds, At
<1>10. StopsHold'
  BY <1>0, <1>1, <1>2, <1>5, <1>6 DEF StopsHold, StopHolds, At, Moves, Elsewhere
<1>11. AllInformed'
  BY <1>0, <1>2, <1>4 DEF AllInformed, Informed, At, Moves, Elsewhere
<1> QED
  BY <1>7, <1>8, <1>9, <1>10, <1>11 DEF AllAgree

\* A stop is on its way alone with stops, a failed start alone with no start.
LEMMA StopsAlone ==
    ASSUME AllAgree, NEW c \in Call
    PROVE  /\ Starting(c) => \A d \in Call : ~Stopping(d)
           /\ Unwritten(c) => \A d \in Call : Starting(d) => d = c
           /\ Starting(c) => StartHolds(c)
           /\ Stopping(c) => StopHolds(c)
<1>1. (Starting(c) => StartHolds(c)) /\ (Stopping(c) => StopHolds(c))
  BY DEF AllAgree, StartsHold, StopsHold
<1>2. \A d \in Call : Stopping(d) => ~Starting(c)
  BY DEF AllAgree, StopsHold, StopHolds
<1>3. Unwritten(c) => \A d \in Call : Starting(d) => d = c
  BY <1>1 DEF StartHolds, Starting
<1> QED
  BY <1>1, <1>2, <1>3 DEF Starting

LEMMA ClickStartAgrees ==
    ASSUME SessionTyped, AllAgree, NEW t \in Tab, ClickStart(t), ~overlapped'
    PROVE  AllAgree'
<1> DEFINE c == Toggle(t)
<1>0. Flagged /\ Recovered /\ OneCleared /\ Settled /\ StartsHold /\ StopsHold /\ AllInformed
  BY DEF AllAgree
<1>1. c \in Call /\ c # Boot /\ Moves(c, "idle", "checking") /\ call'[c].flag = trading
  BY CallsOfTab, ClickMoves
<1>2. UNCHANGED <<row, trading, actor, task, alive, batch, abandoned>> /\ ~Closing
  BY DEF ClickStart
<1>3. Running' = Running
  BY <1>2 DEF Running
<1> HIDE DEF c
<1>4. \A d \in Call : ~Stopping(d) /\ ~Unwritten(d)
  BY <1>2 DEF Closing
<1>5. \A d \in Call : ~Stopping(d)' /\ ~Unwritten(d)'
  BY <1>1, <1>2, <1>4 DEF Stopping, Unwritten, Moves, At
<1>6. Flagged' /\ Recovered'
  BY <1>0, <1>1, <1>2, <1>3, BootCalls DEF Flagged, Recovered, Moves, At
<1>7. OneCleared'
  BY <1>0, <1>1 DEF OneCleared, Moves, At
<1>8. Settled'
  BY <1>0, <1>1, <1>2, <1>3, <1>4, BootCalls DEF Settled, Bringing, Unwritten, Moves, At
<1>9. StartsHold'
  BY <1>0, <1>1, <1>2, <1>3, <1>4, <1>5 DEF StartsHold, StartHolds, Starting, Moves, At
<1>10. StopsHold'
  BY <1>5 DEF StopsHold
<1>11. AllInformed'
  BY <1>0, <1>1, <1>2, <1>4 DEF AllInformed, Informed, Moves, At
<1> QED
  BY <1>6, <1>7, <1>8, <1>9, <1>10, <1>11 DEF AllAgree

LEMMA ClickStopAgrees ==
    ASSUME SessionTyped, AllAgree, NEW t \in Tab, ClickStop(t), ~overlapped'
    PROVE  AllAgree'
<1> DEFINE c == Toggle(t)
<1>0. Flagged /\ Recovered /\ OneCleared /\ Settled /\ StartsHold /\ StopsHold /\ AllInformed
  BY DEF AllAgree
<1>1. c \in Call /\ c # Boot /\ Moves(c, "idle", "loaded") /\ call'[c].flag = trading
  BY CallsOfTab, ClickMoves
<1>2. /\ UNCHANGED <<row, trading, actor, task, alive, batch, abandoned>>
      /\ \A d \in Call : ~Starting(d)
  BY DEF ClickStop
<1>3. Running' = Running
  BY <1>2 DEF Running
<1> HIDE DEF c
<1>4. \A d \in Call : ~Starting(d)'
  BY <1>1, <1>2 DEF Starting, Unwritten, Moves, At
<1>5. Stopping(c)'
  BY <1>1 DEF Stopping, Moves, At
<1>6. Flagged' /\ Recovered'
  BY <1>0, <1>1, <1>2, <1>3, BootCalls DEF Flagged, Recovered, Moves, At
<1>7. OneCleared'
  BY <1>4 DEF OneCleared, Starting, At
<1>8. Settled'
  BY <1>1, <1>5 DEF Settled
<1>9. StartsHold'
  BY <1>4 DEF StartsHold
<1>10. StopsHold'
  <2>1. \A a \in alive : a = task \/ \E d \in Call : At(d, {"awaiting"}) /\ call[d].task = a
    <3>1. CASE \E d \in Call : Stopping(d)
      BY <1>0, <3>1 DEF StopsHold, StopHolds
    <3>2. CASE \A d \in Call : ~Stopping(d)
      BY <1>0, <3>2 DEF Settled
    <3> QED
      BY <3>1, <3>2
  <2>2. \A a \in alive' : a = task' \/ \E d \in Call : (At(d, {"awaiting"}) /\ call[d].task = a)'
    BY <1>1, <1>2, <2>1 DEF Moves, At
  <2>3. StopHolds(c)'
    BY <1>1, <1>2, <1>4, <2>2 DEF StopHolds, Moves, At
  <2>4. ASSUME NEW d \in Call, d # c, Stopping(d)'  PROVE StopHolds(d)'
    <3>1. call'[d] = call[d] /\ StopHolds(d)
      BY <1>0, <1>1, <2>4 DEF StopsHold, Stopping, Moves, At
    <3> QED
      BY <1>2, <1>3, <1>4, <2>2, <3>1 DEF StopHolds, At
  <2> QED
    BY <2>3, <2>4 DEF StopsHold
<1>11. AllInformed'
  BY <1>1, <1>5 DEF AllInformed, Informed
<1> QED
  BY <1>6, <1>7, <1>8, <1>9, <1>10, <1>11 DEF AllAgree

LEMMA ClearedAgrees ==
    ASSUME SessionTyped, AllAgree, NEW t \in Tab, QueryRunning(t), MayStart, ~overlapped'
    PROVE  AllAgree'
<1> DEFINE c == Toggle(t)
<1>0. Flagged /\ Recovered /\ OneCleared /\ Settled /\ StartsHold /\ StopsHold /\ AllInformed
  BY DEF AllAgree
<1>1. c \in Call /\ c # Boot /\ Moves(c, "checking", "cleared") /\ call'[c].flag = call[c].flag
  BY CallsOfTab, QueryMoves DEF SessionTyped, Keeps
<1>2. /\ UNCHANGED <<row, trading, actor, task, alive, batch, abandoned>>
      /\ \A d \in Call : ~At(d, {"cleared"})
      /\ Running = {}
  BY DEF QueryRunning, MayStart
<1>3. Running' = Running
  BY <1>2 DEF Running
<1> HIDE DEF c
<1>4. Starting(c) /\ ~Unwritten(c)
  BY <1>1 DEF Starting, Unwritten, Moves, At
<1>5. \A d \in Call : ~Stopping(d) /\ ~Unwritten(d)
  BY <1>1, <1>4, StopsAlone
<1>6. \A d \in Call : ~Stopping(d)' /\ ~Unwritten(d)'
  BY <1>1, <1>2, <1>5 DEF Stopping, Unwritten, Moves, At
<1>7. Flagged' /\ Recovered'
  BY <1>0, <1>1, <1>2, <1>3, BootCalls DEF Flagged, Recovered, Moves, At
<1>8. OneCleared'
  BY <1>1, <1>2 DEF OneCleared, Moves, At
<1>9. Settled'
  BY <1>0, <1>2, <1>3, <1>5 DEF Settled
<1>10. StartsHold'
  <2>1. StartHolds(c)'
    <3>1. ~call'[c].flag
      BY <1>0, <1>1, <1>2, <1>4 DEF StartsHold, StartHolds, Flagged, Moves, At
    <3> QED
      BY <1>1, <1>2, <1>3, <1>6, <3>1 DEF StartHolds, Moves, At
  <2>2. ASSUME NEW d \in Call, d # c, Starting(d)'  PROVE StartHolds(d)'
    <3>1. call'[d] = call[d] /\ StartHolds(d)
      BY <1>0, <1>1, <1>2, <2>2 DEF StartsHold, Starting, Unwritten, Moves, At
    <3> QED
      BY <1>2, <1>3, <1>6, <2>2, <3>1 DEF StartHolds, At
  <2> QED
    BY <2>1, <2>2 DEF StartsHold
<1>11. StopsHold'
  BY <1>6 DEF StopsHold
<1>12. AllInformed'
  BY <1>0, <1>1, <1>2, <1>5 DEF AllInformed, Informed, Moves, At
<1> QED
  BY <1>7, <1>8, <1>9, <1>10, <1>11, <1>12 DEF AllAgree

LEMMA InsertAgrees ==
    ASSUME SessionTyped, AllAgree, NEW t \in Tab, InsertRow(t)
    PROVE  AllAgree'
<1> DEFINE c == Toggle(t)
           s == call'[c].sim
<1>0. Flagged /\ Recovered /\ OneCleared /\ Settled /\ StartsHold /\ StopsHold /\ AllInformed
  BY DEF AllAgree
<1>1. /\ c \in Call /\ c # Boot /\ Moves(c, "cleared", "starting")
      /\ call'[c].flag = TRUE /\ s \in Sim /\ row' = [row EXCEPT ![s] = "running"]
  BY CallsOfTab, InsertMoves
<1>2. UNCHANGED <<actor, task, alive, batch, abandoned>> /\ trading' = (trading \/ ~call[c].flag)
  BY DEF InsertRow
<1>3. Running' = Running \cup {s}
  BY <1>1 DEF Running, SessionTyped, SessionTypeOK
<1> HIDE DEF c, s
<1>4. Starting(c) /\ ~Unwritten(c) /\ StartHolds(c)
  BY <1>0, <1>1 DEF StartsHold, Starting, Unwritten, Moves, At
<1>5. Running = {} /\ ~call[c].flag
  BY <1>1, <1>4 DEF StartHolds, Moves, At
<1>6. Running' = {s} /\ trading' = TRUE
  BY <1>2, <1>3, <1>5
<1>7. \A d \in Call : ~Stopping(d) /\ ~Unwritten(d)
  BY <1>1, <1>4, StopsAlone
<1>8. \A d \in Call : ~Stopping(d)' /\ ~Unwritten(d)'
  BY <1>1, <1>2, <1>7 DEF Stopping, Unwritten, Moves, At
<1>9. \A d \in Call : d # c => ~At(d, {"cleared", "starting", "hydrating"})
  <2>1. \A d \in Call : d # c => ~At(d, {"cleared"})
    BY <1>0, <1>1 DEF OneCleared, Moves, At
  <2>2. \A d \in Call : ~At(d, {"starting", "hydrating"})
    BY <1>0, <1>5 DEF StartsHold, StartHolds, Starting, At
  <2> QED
    BY <2>1, <2>2 DEF At
<1>10. Flagged' /\ Recovered'
  BY <1>0, <1>1, <1>2, <1>6, BootCalls DEF Flagged, Recovered, Moves, At
<1>11. OneCleared'
  BY <1>1, <1>9 DEF OneCleared, Moves, At
<1>12. Settled'
  <2>1. Bringing(c)'
    BY <1>1 DEF Bringing, Moves, At
  <2> QED
    BY <1>0, <1>1, <1>2, <1>5, <1>7, <2>1 DEF Settled
<1>13. StartsHold'
  <2>1. StartHolds(c)'
    BY <1>1, <1>6, <1>8 DEF StartHolds, Moves, At, s
  <2>2. ASSUME NEW d \in Call, d # c, Starting(d)'  PROVE StartHolds(d)'
    <3>1. call'[d].at = "checking"
      BY <1>1, <1>8, <1>9, <2>2 DEF Starting, Moves, At
    <3> QED
      BY <1>6, <1>8, <3>1 DEF StartHolds, At
  <2> QED
    BY <2>1, <2>2 DEF StartsHold
<1>14. StopsHold'
  BY <1>8 DEF StopsHold
<1>15. AllInformed'
  <2>1. (At(c, {"starting", "hydrating"}) /\ call[c].flag)'
    BY <1>1 DEF Moves, At
  <2> QED
    BY <1>1, <2>1 DEF AllInformed, Informed
<1> QED
  BY <1>10, <1>11, <1>12, <1>13, <1>14, <1>15 DEF AllAgree

LEMMA BeginAgrees ==
    ASSUME SessionTyped, AllAgree, NEW c \in Call, BeginStart(c)
    PROVE  AllAgree'
<1>0. /\ Flagged /\ Recovered /\ OneCleared /\ Settled /\ StartsHold /\ StopsHold /\ AllInformed
      /\ CallsTyped
  BY DEF AllAgree, SessionTyped
<1>1. UNCHANGED <<row, trading, actor, task, alive, abandoned>>
  BY DEF BeginStart
<1>2. Running' = Running
  BY <1>1 DEF Running
<1>3. Starting(c) /\ ~Stopping(c) /\ StartHolds(c) /\ At(c, {"starting"})
  BY <1>0 DEF BeginStart, StartsHold, Starting, Stopping, At
<1>4. \A d \in Call : ~Stopping(d)
  BY <1>3, StopsAlone
<1>5. CASE actor = None
  <2>1. Moves(c, "starting", "hydrating") /\ Keeps(c) /\ batch' = batch
    BY <1>0, <1>5, BeginMoves
  <2>2. \A d \in Call : ~Stopping(d)'
    BY <1>4, <2>1 DEF Stopping, Moves, At
  <2>3. \A d \in Call : /\ Starting(d)' <=> Starting(d)
                        /\ Unwritten(d)' <=> Unwritten(d)
                        /\ At(d, {"starting", "hydrating"})' <=> At(d, {"starting", "hydrating"})
    BY <2>1 DEF Starting, Unwritten, Moves, At
  <2>4. Flagged' /\ Recovered'
    BY <1>0, <1>1, <1>2, <2>1, BootCalls DEF Flagged, Recovered, Moves, At
  <2>5. OneCleared'
    BY <1>0, <2>1 DEF OneCleared, Moves, At
  <2>6. Settled'
    <3>1. Bringing(c)'
      BY <2>1 DEF Bringing, Moves, At
    <3> QED
      BY <1>0, <1>1, <1>2, <1>4, <3>1 DEF Settled
  <2>7. StartsHold'
    <3>1. ASSUME NEW d \in Call, Starting(d)'  PROVE StartHolds(d)'
      <4>1. StartHolds(d) /\ call'[d].sim = call[d].sim /\ call'[d].flag = call[d].flag
        BY <1>0, <2>1, <2>3, <3>1 DEF StartsHold, Moves, Keeps
      <4>2. /\ At(d, {"checking"})' => At(d, {"checking"})
            /\ At(d, {"cleared"})' => At(d, {"cleared"})
        BY <2>1 DEF Moves, At
      <4> QED
        BY <1>1, <1>2, <2>1, <2>3, <4>1, <4>2 DEF StartHolds
    <3> QED
      BY <3>1 DEF StartsHold
  <2>8. StopsHold'
    BY <2>2 DEF StopsHold
  <2>9. AllInformed'
    <3>1. \A d \in Call : /\ call'[d].flag = call[d].flag
                          /\ At(d, {"asked", "starting", "hydrating"})'
                               => At(d, {"asked", "starting", "hydrating"})
      BY <2>1 DEF Moves, Keeps, At
    <3> QED
      BY <1>0, <1>1, <1>4, <2>3, <3>1 DEF AllInformed, Informed
  <2> QED
    BY <2>4, <2>5, <2>6, <2>7, <2>8, <2>9 DEF AllAgree
<1>6. CASE actor # None
  <2>1. /\ Moves(c, "starting", After(c)) /\ After(c) \in {"closing", "answered", "running"}
        /\ batch'.left \in {batch.left, {}} /\ batch'.bad = batch.bad
        /\ c = Boot => batch.bad = {}
    <3>1. batch \in [left : SUBSET Sim, bad : SUBSET Sim]
      BY DEF SessionTyped, SessionTypeOK
    <3>2. batch' = IF c = Boot THEN [batch EXCEPT !.left = {}] ELSE batch
      BY <1>0, <1>6, BeginMoves
    <3>3. batch'.left \in {batch.left, {}} /\ batch'.bad = batch.bad
      BY <3>1, <3>2
    <3>4. c = Boot => batch.bad = {}
      BY <1>0, <1>3 DEF Recovered, At
    <3> QED
      BY <1>0, <1>6, <3>3, <3>4, BeginMoves DEF After
  <2>2. \A d \in Call : ~Unwritten(d)
    BY <1>0, <1>6 DEF StartsHold, StartHolds, Starting
  <2>3. \A d \in Call : ~Unwritten(d)' /\ ~Stopping(d)'
    BY <1>4, <2>1, <2>2 DEF Unwritten, Stopping, Moves, At
  <2>4. \A d \in Call : Starting(d)' => Starting(d) /\ d # c /\ call'[d] = call[d]
    BY <2>1, <2>3 DEF Starting, Moves, At
  <2>5. Flagged' /\ Recovered'
    <3>1. Flagged'
      BY <1>0, <1>1, <1>2 DEF Flagged
    <3>2. Recovered'
      BY <1>0, <2>1, BootCalls DEF Recovered, Moves, At
    <3> QED
      BY <3>1, <3>2
  <2>6. OneCleared'
    BY <1>0, <2>1 DEF OneCleared, Moves, At
  <2>7. Settled'
    BY <1>0, <1>1, <1>2, <1>4, <1>6 DEF Settled
  <2>8. StartsHold'
    BY <1>0, <1>1, <1>2, <2>3, <2>4 DEF StartsHold, StartHolds, At
  <2>9. StopsHold'
    BY <2>3 DEF StopsHold
  <2>10. AllInformed'
    BY <1>1, <1>6 DEF AllInformed, Informed
  <2> QED
    BY <2>5, <2>6, <2>7, <2>8, <2>9, <2>10 DEF AllAgree
<1> QED
  BY <1>5, <1>6

LEMMA FinishAgrees ==
    ASSUME SessionTyped, LockHeld, AllAgree, NEW c \in Call, FinishStart(c)
    PROVE  AllAgree'
<1>0. /\ Flagged /\ Recovered /\ OneCleared /\ Settled /\ StartsHold /\ StopsHold /\ AllInformed
      /\ CallsTyped
  BY DEF AllAgree, SessionTyped
<1> DEFINE s == call[c].sim
<1>1. /\ actor' = s /\ task' = s /\ alive' = alive \cup {s} /\ s # None
      /\ UNCHANGED <<row, trading>>
  BY <1>0, FinishMoves, NoneIsNoRow DEF FinishStart
<1>2. Running' = Running
  BY <1>1 DEF Running
<1>3. Starting(c) /\ StartHolds(c) /\ At(c, {"hydrating"})
  BY <1>0 DEF FinishStart, StartsHold, Starting, At
<1>4. Running = {s} /\ actor = None
  BY <1>3 DEF StartHolds, LockHeld, At
<1> HIDE DEF s
<1>5. \A d \in Call : ~Stopping(d)
  BY <1>3, StopsAlone
<1>6. /\ Moves(c, "hydrating", After(c)) /\ After(c) \in {"closing", "answered", "running"}
      /\ batch'.left \in {batch.left, {}} /\ batch'.bad = batch.bad
      /\ c = Boot => batch.bad = {}
  <2>1. batch \in [left : SUBSET Sim, bad : SUBSET Sim]
    BY DEF SessionTyped, SessionTypeOK
  <2>2. batch' = IF c = Boot THEN [batch EXCEPT !.left = {}] ELSE batch
    BY <1>0, FinishMoves
  <2>3. batch'.left \in {batch.left, {}} /\ batch'.bad = batch.bad
    BY <2>1, <2>2
  <2>4. c = Boot => batch.bad = {}
    BY <1>0, <1>3 DEF Recovered, At
  <2> QED
    BY <1>0, <2>3, <2>4, FinishMoves DEF After
<1>7. \A d \in Call : ~Unwritten(d)
  <2>1. ASSUME NEW d \in Call, Unwritten(d)  PROVE FALSE
    <3>1. c = d
      BY <1>3, <2>1, StopsAlone
    <3> QED
      BY <1>3, <1>6, <2>1, <3>1 DEF Unwritten, At
  <2> QED
    BY <2>1
<1>8. \A d \in Call : ~Unwritten(d)' /\ ~Stopping(d)'
  BY <1>5, <1>6, <1>7 DEF Unwritten, Stopping, Moves, At
<1>9. \A d \in Call : Starting(d)' => Starting(d) /\ d # c /\ call'[d] = call[d]
  BY <1>6, <1>8 DEF Starting, Moves, At
<1>10. Flagged'
  BY <1>0, <1>1, <1>2 DEF Flagged
<1>11. Recovered'
  BY <1>0, <1>6, BootCalls DEF Recovered, Moves, At
<1>12. OneCleared'
  BY <1>0, <1>6 DEF OneCleared, Moves, At
<1>13. Settled'
  <2>1. alive = {}
    BY <1>0, <1>4, <1>5 DEF Settled
  <2> QED
    BY <1>1, <1>2, <1>4, <2>1 DEF Settled
<1>14. StartsHold'
  BY <1>0, <1>1, <1>2, <1>8, <1>9 DEF StartsHold, StartHolds, At
<1>15. StopsHold'
  BY <1>8 DEF StopsHold
<1>16. AllInformed'
  BY <1>1 DEF AllInformed, Informed
<1> QED
  BY <1>10, <1>11, <1>12, <1>13, <1>14, <1>15, <1>16 DEF AllAgree

\* A start that fails alone knows that the flag is TRUE.
LEMMA FailsInformed ==
    ASSUME LockHeld, AllAgree, NEW c \in Call, At(c, {"hydrating"}),
           \A d \in Call \ {c} : ~Starting(d) /\ ~Asking(d)
    PROVE  /\ call[c].flag /\ actor = None /\ Running = {call[c].sim}
           /\ \A d \in Call : ~Stopping(d)
<1>1. Starting(c)
  BY DEF Starting, At
<1>2. StartHolds(c) /\ \A d \in Call : ~Stopping(d)
  BY <1>1, StopsAlone
<1>3. actor = None /\ Running = {call[c].sim} /\ trading
  BY <1>2 DEF LockHeld, StartHolds, AllAgree, Flagged, At
<1>4. Informed(c)
  BY DEF AllAgree, AllInformed, At
<1>5. \A d \in Call : At(d, {"starting", "hydrating"}) => d = c
  BY DEF Starting, At
<1> QED
  BY <1>2, <1>3, <1>4, <1>5 DEF Informed

LEMMA FailAgrees ==
    ASSUME SessionTyped, LockHeld, AllAgree, NEW c \in Call, FailStart(c), ~overlapped'
    PROVE  AllAgree'
<1>0. /\ Flagged /\ Recovered /\ OneCleared /\ Settled /\ StartsHold /\ StopsHold /\ AllInformed
      /\ CallsTyped
  BY DEF AllAgree, SessionTyped
<1>1. /\ UNCHANGED <<row, trading, actor, task, alive, batch, abandoned>> /\ c # Boot
      /\ At(c, {"hydrating"}) /\ \A d \in Call \ {c} : ~Starting(d) /\ ~Asking(d)
  BY DEF FailStart, BreakOff
<1>2. Running' = Running
  BY <1>1 DEF Running
<1>3. /\ call[c].flag /\ actor = None /\ Running = {call[c].sim}
      /\ \A d \in Call : ~Stopping(d)
  BY <1>1, FailsInformed
<1>4. Moves(c, "hydrating", "failing") /\ Keeps(c)
  BY <1>0, FailMoves
<1>5. \A d \in Call : ~Stopping(d)' /\ (Starting(d)' => d = c)
  BY <1>1, <1>3, <1>4 DEF Stopping, Starting, Unwritten, Moves, At
<1>6. Flagged'
  BY <1>0, <1>1, <1>2 DEF Flagged
<1>7. Recovered'
  BY <1>0, <1>1, <1>4, BootCalls DEF Recovered, Moves, At
<1>8. OneCleared'
  BY <1>5 DEF OneCleared, Starting, At
<1>9. Settled'
  <2>1. Bringing(c)'
    BY <1>4 DEF Bringing, Unwritten, Moves, At
  <2> QED
    BY <1>0, <1>1, <1>2, <1>3, <2>1 DEF Settled
<1>10. StartsHold'
  <2>1. StartHolds(c)'
    BY <1>1, <1>2, <1>3, <1>4, <1>5 DEF StartHolds, Moves, Keeps, At
  <2> QED
    BY <1>5, <2>1 DEF StartsHold
<1>11. StopsHold'
  BY <1>5 DEF StopsHold
<1>12. AllInformed'
  <2>1. \A d \in Call : ~At(d, {"asked", "starting", "hydrating"})'
    BY <1>1, <1>4 DEF Starting, Asking, Moves, At
  <2> QED
    BY <2>1 DEF AllInformed
<1> QED
  BY <1>6, <1>7, <1>8, <1>9, <1>10, <1>11, <1>12 DEF AllAgree

LEMMA BreakAgrees ==
    ASSUME SessionTyped, LockHeld, AllAgree, NEW t \in Tab, BreakStart(t), ~overlapped'
    PROVE  AllAgree'
<1> DEFINE c == Toggle(t)
<1>0. /\ Flagged /\ Recovered /\ OneCleared /\ Settled /\ StartsHold /\ StopsHold /\ AllInformed
      /\ CallsTyped
  BY DEF AllAgree, SessionTyped
<1>1. /\ UNCHANGED <<row, trading, actor, task, alive, batch>> /\ abandoned'
      /\ c \in Call /\ c # Boot
      /\ At(c, {"hydrating"}) /\ \A d \in Call \ {c} : ~Starting(d) /\ ~Asking(d)
  BY CallsOfTab DEF BreakStart, BreakOff
<1>2. Running' = Running
  BY <1>1 DEF Running
<1>3. Moves(c, "hydrating", "refused")
  BY <1>0, BreakMoves
<1> HIDE DEF c
<1>4. \A d \in Call : ~Stopping(d)
  BY <1>1, FailsInformed
<1>5. \A d \in Call : ~Stopping(d)' /\ ~Starting(d)'
  <2>1. ~Unwritten(c)
    BY <1>1 DEF Unwritten, At
  <2> QED
    BY <1>1, <1>3, <1>4, <2>1 DEF Stopping, Starting, Unwritten, Moves, At
<1>6. Flagged'
  BY <1>0, <1>1, <1>2 DEF Flagged
<1>7. Recovered'
  BY <1>0, <1>1, <1>3, BootCalls DEF Recovered, Moves, At
<1>8. OneCleared'
  BY <1>5 DEF OneCleared, Starting, At
<1>9. Settled'
  BY <1>0, <1>1, <1>2, <1>4 DEF Settled
<1>10. StartsHold' /\ StopsHold'
  BY <1>5 DEF StartsHold, StopsHold
<1>11. AllInformed'
  <2>1. \A d \in Call : ~At(d, {"asked", "starting", "hydrating"})'
    BY <1>1, <1>3 DEF Starting, Asking, Moves, At
  <2> QED
    BY <2>1 DEF AllInformed
<1> QED
  BY <1>6, <1>7, <1>8, <1>9, <1>10, <1>11 DEF AllAgree

\* A row that is stopped leaves nothing running, and the flag FALSE.
LEMMA StopRowAgrees ==
    ASSUME SessionTyped, AllAgree, NEW c \in Call, StopRow(c)
    PROVE  AllAgree'
<1>0. /\ Flagged /\ Recovered /\ OneCleared /\ Settled /\ StartsHold /\ StopsHold /\ AllInformed
      /\ CallsTyped
  BY DEF AllAgree, SessionTyped
<1>1. /\ UNCHANGED <<actor, task, alive, batch, abandoned>> /\ c # Boot /\ At(c, {"failing"})
      /\ row' = [row EXCEPT ![call[c].sim] = "stopped"] /\ trading' = (trading /\ ~call[c].flag)
  BY <1>0, StopRowMoves DEF StopRow
<1>2. Starting(c) /\ Unwritten(c) /\ StartHolds(c)
  BY <1>0, <1>1 DEF StartsHold, Starting, Unwritten
<1>3. /\ call[c].flag /\ actor = None /\ Running = {call[c].sim}
      /\ \A d \in Call : ~Stopping(d) /\ (Starting(d) => d = c)
  BY <1>1, <1>2, StopsAlone DEF StartHolds
<1>4. Running' = {} /\ ~trading'
  BY <1>1, <1>3 DEF Running, SessionTyped, SessionTypeOK
<1>5. \E to \in {"answered", "refused"} : Moves(c, "failing", to)
  BY <1>0, StopRowMoves
<1>6. batch.bad = {}
  <2>1. ~Unwritten(Boot)
    BY <1>1, <1>3, BootCalls DEF Starting
  <2> QED
    BY <2>1 DEF Unwritten
<1>7. \A d \in Call : ~Stopping(d)' /\ ~Starting(d)'
  BY <1>1, <1>3, <1>5, <1>6 DEF Stopping, Starting, Unwritten, Moves, At
<1>8. Flagged' /\ Recovered'
  BY <1>0, <1>1, <1>4, <1>6 DEF Flagged, Recovered
<1>9. OneCleared'
  BY <1>7 DEF OneCleared, Starting, At
<1>10. Settled'
  BY <1>0, <1>1, <1>3, <1>4 DEF Settled
<1>11. StartsHold' /\ StopsHold'
  BY <1>7 DEF StartsHold, StopsHold
<1>12. AllInformed'
  BY <1>4 DEF AllInformed, Informed
<1> QED
  BY <1>8, <1>9, <1>10, <1>11, <1>12 DEF AllAgree

LEMMA QueryRowsAgrees ==
    ASSUME SessionTyped, AllAgree, QueryRows, ~overlapped'
    PROVE  AllAgree'
<1>0. /\ Flagged /\ Recovered /\ OneCleared /\ Settled /\ StartsHold /\ StopsHold /\ AllInformed
      /\ trading \in BOOLEAN /\ Boot \in Call
  BY BootCalls DEF AllAgree, SessionTyped, SessionTypeOK
<1>1. UNCHANGED <<row, trading, actor, task, alive, abandoned>>
  BY DEF QueryRows
<1>2. Running' = Running
  BY <1>1 DEF Running
<1>3. /\ Moves(Boot, "booting", IF Left = {} THEN "closing" ELSE "starting")
      /\ call'[Boot].flag = trading /\ call'[Boot].sim = LastOf(Left)
      /\ Left # {} => LastOf(Left) \in Left /\ ~Closing
      /\ batch'.left = Left \ {LastOf(Left)} /\ batch'.bad = {}
  <2>1. /\ Moves(Boot, "booting", IF Left = {} THEN "closing" ELSE "starting")
        /\ call'[Boot].flag = trading /\ call'[Boot].sim = LastOf(Left)
        /\ Left # {} => LastOf(Left) \in Left
        /\ batch' = [left |-> Left \ {LastOf(Left)}, bad |-> {}]
        /\ overlapped' = (overlapped \/ (Left # {} /\ Closing))
    BY QueryRowsMoves
  <2>2. Left # {} => ~Closing
    BY <2>1
  <2> HIDE DEF Left
  <2> QED
    BY <2>1, <2>2
<1>4. batch.bad = {}
  BY <1>0, <1>3 DEF Recovered, Moves, At
<1>5. \A d \in Call : /\ Stopping(d)' <=> Stopping(d)
                      /\ Unwritten(d)' <=> Unwritten(d)
                      /\ At(d, {"cleared"})' <=> At(d, {"cleared"})
                      /\ d # Boot => (Starting(d)' <=> Starting(d)) /\ call'[d] = call[d]
  BY <1>3, <1>4 DEF Stopping, Unwritten, Starting, Moves, At
<1>6. Flagged' /\ OneCleared'
  BY <1>0, <1>1, <1>2, <1>5 DEF Flagged, OneCleared
<1>7. CASE Left = {}
  <2>1. Moves(Boot, "booting", "closing") /\ (actor = None => Running = {})
    BY <1>3, <1>7 DEF Left
  <2>2. Recovered'
    BY <1>3, <1>7 DEF Recovered
  <2>3. Settled'
    BY <1>0, <1>1, <1>2, <1>5, <2>1 DEF Settled
  <2>4. \A d \in Call : Starting(d)' => Starting(d) /\ d # Boot
    BY <1>0, <1>3, <1>5, <2>1 DEF Starting, Unwritten, Moves, At
  <2>5. StartsHold'
    BY <1>0, <1>1, <1>2, <1>5, <2>4 DEF StartsHold, StartHolds, At
  <2>6. StopsHold'
    <3>1. \A d \in Call : Stopping(d)' => Stopping(d) /\ d # Boot
      BY <1>5, <2>1 DEF Stopping, Moves, At
    <3>2. \A d \in Call : At(d, {"awaiting"})' <=> At(d, {"awaiting"})
      BY <2>1 DEF Moves, At
    <3>3. \A d \in Call : At(d, {"awaiting"}) => call'[d] = call[d]
      BY <2>1 DEF Moves, At
    <3> QED
      BY <1>0, <1>1, <1>2, <1>5, <2>4, <3>1, <3>2, <3>3 DEF StopsHold, StopHolds, At
  <2>7. AllInformed'
    <3>1. \A d \in Call : At(d, {"starting", "hydrating"})' <=> At(d, {"starting", "hydrating"})
      BY <2>1 DEF Moves, At
    <3>2. \A d \in Call : At(d, {"starting", "hydrating"}) => call'[d] = call[d]
      BY <2>1 DEF Moves, At
    <3>3. \A d \in Call : At(d, {"asked", "starting", "hydrating"})' =>
              At(d, {"asked", "starting", "hydrating"}) /\ call'[d] = call[d]
      BY <2>1 DEF Moves, At
    <3> QED
      BY <1>0, <1>1, <1>5, <3>1, <3>2, <3>3 DEF AllInformed, Informed
  <2> QED
    BY <1>6, <2>2, <2>3, <2>5, <2>6, <2>7 DEF AllAgree
<1>8. CASE Left # {}
  <2>1. /\ Moves(Boot, "booting", "starting") /\ actor = None
        /\ Running = {call'[Boot].sim} /\ batch'.left = {}
    <3>1. Left = Running /\ actor = None
      BY <1>8 DEF Left
    <3>2. \A r, s \in Running : r = s
      BY <1>0 DEF Flagged
    <3>3. Running = {LastOf(Left)}
      BY <1>3, <1>8, <3>1, <3>2
    <3> HIDE DEF Left
    <3> QED
      BY <1>3, <1>8, <3>1, <3>3
  <2>2. \A d \in Call : ~Stopping(d) /\ ~Unwritten(d)
    BY <1>3, <1>8 DEF Closing
  <2>3. Recovered'
    BY <1>3, <2>1 DEF Recovered
  <2>4. Settled'
    <3>1. Bringing(Boot)'
      BY <2>1 DEF Bringing, Moves, At
    <3> QED
      BY <1>0, <1>1, <1>2, <2>2, <3>1 DEF Settled
  <2>5. StartsHold'
    <3>1. StartHolds(Boot)'
      <4>1. ~Unwritten(Boot)' /\ Running' = {call'[Boot].sim} /\ call'[Boot].at = "starting"
        BY <1>0, <1>2, <1>5, <2>1, <2>2 DEF Moves
      <4> QED
        BY <4>1 DEF StartHolds, At
    <3>2. ASSUME NEW d \in Call, d # Boot, Starting(d)'  PROVE StartHolds(d)'
      <4>1. StartHolds(d) /\ call'[d] = call[d] /\ ~Unwritten(d)'
        BY <1>0, <1>5, <2>2, <3>2 DEF StartsHold
      <4> QED
        BY <1>1, <1>2, <4>1 DEF StartHolds, At
    <3> QED
      BY <3>1, <3>2 DEF StartsHold
  <2>6. StopsHold'
    BY <1>5, <2>2 DEF StopsHold
  <2>7. AllInformed'
    <3>1. Informed(Boot)'
      BY <1>0, <1>1, <1>3 DEF Informed
    <3>2. ASSUME NEW d \in Call, d # Boot, At(d, {"asked", "starting", "hydrating"})'
          PROVE  Informed(d)'
      <4>1. Informed(d) /\ call'[d] = call[d]
        BY <1>0, <1>5, <3>2 DEF AllInformed, At
      <4>2. \A e \in Call : At(e, {"starting", "hydrating"}) =>
                At(e, {"starting", "hydrating"})' /\ call'[e] = call[e]
        BY <2>1 DEF Moves, At
      <4> QED
        BY <1>1, <2>2, <4>1, <4>2 DEF Informed
    <3> QED
      BY <3>1, <3>2 DEF AllInformed
  <2> QED
    BY <1>6, <2>3, <2>4, <2>5, <2>6, <2>7 DEF AllAgree
<1> QED
  BY <1>7, <1>8

LEMMA FailRowAgrees ==
    ASSUME SessionTyped, LockHeld, AllAgree, FailRow, ~overlapped'
    PROVE  AllAgree'
<1>0. /\ Flagged /\ Recovered /\ OneCleared /\ Settled /\ StartsHold /\ StopsHold /\ AllInformed
      /\ Boot \in Call
  BY BootCalls DEF AllAgree
<1>1. /\ UNCHANGED <<row, trading, actor, task, alive, abandoned>>
      /\ At(Boot, {"hydrating"}) /\ \A d \in Call \ {Boot} : ~Starting(d) /\ ~Asking(d)
  BY DEF FailRow, BreakOff
<1>2. Running' = Running
  BY <1>1 DEF Running
<1>3. /\ call[Boot].flag /\ actor = None /\ Running = {call[Boot].sim}
      /\ \A d \in Call : ~Stopping(d)
  BY <1>0, <1>1, FailsInformed
<1>4. batch.left = {} /\ batch.bad = {}
  BY <1>0, <1>1 DEF Recovered, At
<1>5. /\ Moves(Boot, "hydrating", "closing") /\ call'[Boot].flag = call[Boot].flag
      /\ batch'.left = {} /\ batch'.bad = {call[Boot].sim}
  BY <1>4, FailRowMoves
<1>6. \A d \in Call : ~Stopping(d)' /\ (Starting(d)' => d = Boot)
  BY <1>1, <1>3, <1>5 DEF Stopping, Starting, Unwritten, Moves, At
<1>7. Flagged' /\ Recovered'
  BY <1>0, <1>1, <1>2, <1>5 DEF Flagged, Recovered, Moves, At
<1>8. OneCleared'
  BY <1>6 DEF OneCleared, Starting, At
<1>9. Settled'
  <2>1. Bringing(Boot)'
    BY <1>5 DEF Bringing, Unwritten
  <2> QED
    BY <1>0, <1>1, <1>2, <1>3, <2>1 DEF Settled
<1>10. StartsHold'
  <2>1. StartHolds(Boot)'
    BY <1>1, <1>2, <1>3, <1>5, <1>6 DEF StartHolds, Moves, At
  <2> QED
    BY <1>6, <2>1 DEF StartsHold
<1>11. StopsHold'
  BY <1>6 DEF StopsHold
<1>12. AllInformed'
  <2>1. \A d \in Call : ~At(d, {"asked", "starting", "hydrating"})'
    BY <1>1, <1>5 DEF Starting, Asking, Moves, At
  <2> QED
    BY <2>1 DEF AllInformed
<1> QED
  BY <1>7, <1>8, <1>9, <1>10, <1>11, <1>12 DEF AllAgree

\* The recovery ends without a row to stop, or fails.
LEMMA RecoveryEnds ==
    ASSUME AllAgree, NEW from \in {"booting", "closing"}, Moves(Boot, from, "idle"),
           UNCHANGED <<row, trading, actor, task, alive>>, batch' = NoRows,
           abandoned => abandoned',
           actor = None => abandoned' \/ (from = "closing" /\ batch.bad = {})
    PROVE  AllAgree'
<1>0. /\ Flagged /\ Recovered /\ OneCleared /\ Settled /\ StartsHold /\ StopsHold /\ AllInformed
      /\ Boot \in Call
  BY BootCalls DEF AllAgree
<1>1. Running' = Running
  BY DEF Running
<1>2. batch'.left = {} /\ batch'.bad = {}
  BY DEF NoRows
<1>3. \A d \in Call : /\ Stopping(d)' <=> Stopping(d)
                      /\ At(d, {"starting", "hydrating"})' <=> At(d, {"starting", "hydrating"})
                      /\ At(d, {"awaiting"})' <=> At(d, {"awaiting"})
                      /\ d # Boot => call'[d] = call[d]
  BY DEF Stopping, Moves, At
<1>4. \A d \in Call : Stopping(d)' \/ Starting(d)' \/ At(d, {"awaiting", "starting", "hydrating"})
                         => d # Boot
  BY <1>2 DEF Stopping, Starting, Unwritten, Moves, At
<1>5. \A d \in Call : d # Boot => /\ Starting(d)' <=> Starting(d)
                                  /\ Unwritten(d)' <=> Unwritten(d)
  BY DEF Starting, Unwritten, Moves, At
<1>6. Flagged' /\ Recovered'
  BY <1>0, <1>1, <1>2 DEF Flagged, Recovered
<1>7. OneCleared'
  BY <1>0 DEF OneCleared, Moves, At
<1>8. Settled'
  <2>1. from = "closing" /\ batch.bad = {} => ~At(Boot, {"booting"}) /\ ~Bringing(Boot)
    BY <1>0 DEF Bringing, Unwritten, Moves, At
  <2>2. \A d \in Call : d # Boot => (Bringing(d) => Bringing(d)')
    BY <1>3, <1>5 DEF Bringing
  <2> QED
    BY <1>0, <1>1, <1>3, <2>1, <2>2 DEF Settled
<1>9. StartsHold'
  BY <1>0, <1>1, <1>3, <1>4, <1>5 DEF StartsHold, StartHolds, At
<1>10. StopsHold'
  BY <1>0, <1>1, <1>3, <1>4, <1>5 DEF StopsHold, StopHolds, At
<1>11. AllInformed'
  BY <1>0, <1>3, <1>4 DEF AllInformed, Informed, Moves, At
<1> QED
  BY <1>6, <1>7, <1>8, <1>9, <1>10, <1>11 DEF AllAgree

LEMMA FailRecoveryAgrees ==
    ASSUME SessionTyped, AllAgree, FailRecovery
    PROVE  AllAgree'
<1>1. PICK from \in {"booting", "closing"} : Moves(Boot, from, "idle")
  BY RecoveryMoves DEF FailRecovery, At, SessionTyped
<1>2. /\ UNCHANGED <<row, trading, actor, task, alive>> /\ batch' = NoRows
      /\ abandoned' = (abandoned \/ actor = None)
  BY DEF FailRecovery
<1> QED
  BY <1>1, <1>2, RecoveryEnds

LEMMA CommitRecoveryAgrees ==
    ASSUME SessionTyped, AllAgree, CommitRecovery
    PROVE  AllAgree'
<1>0. /\ Flagged /\ Recovered /\ OneCleared /\ Settled /\ StartsHold /\ StopsHold /\ AllInformed
      /\ Boot \in Call
  BY BootCalls DEF AllAgree
<1>1. Moves(Boot, "closing", "idle")
  BY RecoveryMoves DEF CommitRecovery, At, SessionTyped
<1>2. /\ UNCHANGED <<actor, task, alive, abandoned>> /\ batch' = NoRows
      /\ row' = [s \in Sim |-> IF s \in batch.bad THEN "stopped" ELSE row[s]]
      /\ trading' = (trading /\ ~(batch.bad # {} /\ call[Boot].flag))
  BY DEF CommitRecovery
<1>3. CASE batch.bad = {}
  <2>1. row' = row /\ trading' = trading
    BY <1>2, <1>3 DEF SessionTyped, SessionTypeOK
  <2> QED
    BY <1>1, <1>2, <1>3, <2>1, RecoveryEnds
<1>4. CASE batch.bad # {}
  <2>1. Starting(Boot) /\ Unwritten(Boot) /\ StartHolds(Boot)
    BY <1>0, <1>4 DEF StartsHold, Starting, Unwritten
  <2>2. /\ call[Boot].flag /\ actor = None /\ Running = batch.bad
        /\ \A d \in Call : ~Stopping(d) /\ (Starting(d) => d = Boot)
    BY <1>0, <2>1, StopsAlone DEF StartHolds
  <2>3. Running' = {} /\ ~trading'
    BY <1>2, <1>4, <2>2 DEF Running
  <2>4. \A d \in Call : ~Stopping(d)' /\ ~Starting(d)'
    BY <1>1, <1>2, <2>2 DEF Stopping, Starting, Unwritten, NoRows, Moves, At
  <2>5. Flagged' /\ Recovered'
    BY <1>0, <1>2, <2>3 DEF Flagged, Recovered, NoRows
  <2>6. OneCleared'
    BY <2>4 DEF OneCleared, Starting, At
  <2>7. Settled'
    BY <1>0, <1>2, <2>2, <2>3 DEF Settled
  <2>8. StartsHold' /\ StopsHold'
    BY <2>4 DEF StartsHold, StopsHold
  <2>9. AllInformed'
    BY <2>3 DEF AllInformed, Informed
  <2> QED
    BY <2>5, <2>6, <2>7, <2>8, <2>9 DEF AllAgree
<1> QED
  BY <1>3, <1>4

LEMMA CancelAgrees ==
    ASSUME SessionTyped, AllAgree, NEW t \in Tab, CancelTask(t)
    PROVE  AllAgree'
<1> DEFINE c == Toggle(t)
<1>0. Flagged /\ Recovered /\ OneCleared /\ Settled /\ StartsHold /\ StopsHold /\ AllInformed
  BY DEF AllAgree
<1>1. /\ c \in Call /\ c # Boot
      /\ Moves(c, "loaded", IF task # None THEN "awaiting" ELSE "committing")
      /\ call'[c].task = task /\ call'[c].sim = Latest /\ call'[c].flag = call[c].flag
  BY CallsOfTab, CancelMoves
<1>2. /\ UNCHANGED <<row, trading, alive, batch, abandoned>> /\ task' = None
      /\ actor' = IF task # None THEN actor ELSE None
  BY DEF CancelTask, Taking
<1>3. Running' = Running
  BY <1>2 DEF Running
<1> HIDE DEF c
<1>4. Stopping(c) /\ StopHolds(c)
  BY <1>0, <1>1 DEF StopsHold, Stopping, Moves, At
<1>5. /\ \A d \in Call : ~Starting(d)
      /\ \A a \in alive : a = task \/ \E d \in Call : At(d, {"awaiting"}) /\ call[d].task = a
      /\ trading => call[c].flag
  BY <1>4 DEF StopHolds
<1>6. Stopping(c)' /\ \A d \in Call : ~Starting(d)'
  BY <1>1, <1>2, <1>5 DEF Stopping, Starting, Unwritten, Moves, At
<1>7. Flagged' /\ Recovered'
  BY <1>0, <1>1, <1>2, <1>3, BootCalls DEF Flagged, Recovered, Moves, At
<1>8. OneCleared' /\ StartsHold'
  BY <1>6 DEF OneCleared, StartsHold, Starting, At
<1>9. Settled'
  BY <1>1, <1>6 DEF Settled
<1>10. StopsHold'
  <2>1. \A a \in alive' : a = task' \/ \E d \in Call : (At(d, {"awaiting"}) /\ call[d].task = a)'
    <3>1. ASSUME NEW a \in alive
          PROVE  \E d \in Call : At(d, {"awaiting"})' /\ call'[d].task = a
      <4>1. a # None
        BY NoneIsNoRow DEF SessionTyped, SessionTypeOK
      <4>2. CASE a = task
        BY <1>1, <4>1, <4>2 DEF Moves, At
      <4>3. CASE a # task
        <5>1. PICK d \in Call : At(d, {"awaiting"}) /\ call[d].task = a
          BY <1>5, <4>3
        <5>2. d # c
          BY <1>1, <5>1 DEF Moves, At
        <5> QED
          BY <1>1, <5>1, <5>2 DEF Moves, At
      <4> QED
        BY <4>2, <4>3
    <3> QED
      BY <1>2, <3>1
  <2>2. StopHolds(c)'
    <3>1. Running \subseteq {Latest}
      BY <1>0, LatestRuns DEF Flagged
    <3>2. At(c, {"committing"})' => actor' = None
      BY <1>1, <1>2 DEF Moves, At
    <3> HIDE DEF Latest
    <3> QED
      BY <1>1, <1>2, <1>3, <1>5, <1>6, <2>1, <3>1, <3>2 DEF StopHolds
  <2>3. ASSUME NEW d \in Call, d # c, Stopping(d)'  PROVE StopHolds(d)'
    <3>1. call'[d] = call[d] /\ StopHolds(d)
      BY <1>0, <1>1, <2>3 DEF StopsHold, Stopping, Moves, At
    <3> QED
      BY <1>2, <1>3, <1>6, <2>1, <3>1 DEF StopHolds, At
  <2> QED
    BY <2>2, <2>3 DEF StopsHold
<1>11. AllInformed'
  BY <1>1, <1>6 DEF AllInformed, Informed
<1> QED
  BY <1>7, <1>8, <1>9, <1>10, <1>11 DEF AllAgree

LEMMA TaskEndsAgrees ==
    ASSUME SessionTyped, AllAgree, NEW t \in Tab, TaskEnds(t)
    PROVE  AllAgree'
<1> DEFINE c == Toggle(t)
<1>0. Flagged /\ Recovered /\ OneCleared /\ Settled /\ StartsHold /\ StopsHold /\ AllInformed
  BY DEF AllAgree
<1>1. c \in Call /\ c # Boot /\ Moves(c, "awaiting", "committing") /\ Keeps(c)
  BY CallsOfTab, TaskEndsMoves
<1>2. /\ UNCHANGED <<row, trading, task, batch, abandoned>>
      /\ alive' = alive \ {call[c].task} /\ actor' = None
  BY DEF TaskEnds
<1>3. Running' = Running
  BY <1>2 DEF Running
<1> HIDE DEF c
<1>4. Stopping(c) /\ StopHolds(c)
  BY <1>0, <1>1 DEF StopsHold, Stopping, Moves, At
<1>5. /\ \A d \in Call : ~Starting(d)
      /\ \A a \in alive : a = task \/ \E d \in Call : At(d, {"awaiting"}) /\ call[d].task = a
      /\ (trading => call[c].flag) /\ task = None /\ Running \subseteq {call[c].sim}
  BY <1>1, <1>4 DEF StopHolds, Moves, At
<1>6. Stopping(c)' /\ \A d \in Call : ~Starting(d)'
  BY <1>1, <1>2, <1>5 DEF Stopping, Starting, Unwritten, Moves, At
<1>7. Flagged' /\ Recovered'
  BY <1>0, <1>1, <1>2, <1>3, BootCalls DEF Flagged, Recovered, Moves, At
<1>8. OneCleared' /\ StartsHold'
  BY <1>6 DEF OneCleared, StartsHold, Starting, At
<1>9. Settled'
  BY <1>1, <1>6 DEF Settled
<1>10. StopsHold'
  <2>1. \A a \in alive' : a = task' \/ \E d \in Call : (At(d, {"awaiting"}) /\ call[d].task = a)'
    BY <1>1, <1>2, <1>5 DEF Moves, At
  <2>2. StopHolds(c)'
    BY <1>1, <1>2, <1>3, <1>5, <1>6, <2>1 DEF StopHolds, Keeps
  <2>3. ASSUME NEW d \in Call, d # c, Stopping(d)'  PROVE StopHolds(d)'
    <3>1. call'[d] = call[d] /\ StopHolds(d)
      BY <1>0, <1>1, <2>3 DEF StopsHold, Stopping, Moves, At
    <3> QED
      BY <1>2, <1>3, <1>6, <2>1, <3>1 DEF StopHolds, At
  <2> QED
    BY <2>2, <2>3 DEF StopsHold
<1>11. AllInformed'
  BY <1>1, <1>6 DEF AllInformed, Informed
<1> QED
  BY <1>7, <1>8, <1>9, <1>10, <1>11 DEF AllAgree

LEMMA CommitAgrees ==
    ASSUME SessionTyped, AllAgree, NEW t \in Tab, CommitStop(t)
    PROVE  AllAgree'
<1> DEFINE c == Toggle(t)
<1>0. Flagged /\ Recovered /\ OneCleared /\ Settled /\ StartsHold /\ StopsHold /\ AllInformed
  BY DEF AllAgree
<1>1. c \in Call /\ c # Boot /\ Moves(c, "committing", "stopped")
  BY CallsOfTab, CommitMoves DEF SessionTyped
<1>2. /\ UNCHANGED <<actor, task, alive, batch, abandoned>>
      /\ row' = [s \in Sim |-> IF s = call[c].sim THEN "stopped" ELSE row[s]]
      /\ trading' = (trading /\ ~call[c].flag)
  BY DEF CommitStop
<1> HIDE DEF c
<1>3. Stopping(c) /\ StopHolds(c)
  BY <1>0, <1>1 DEF StopsHold, Stopping, Moves, At
<1>4. /\ \A d \in Call : ~Starting(d)
      /\ \A a \in alive : a = task \/ \E d \in Call : At(d, {"awaiting"}) /\ call[d].task = a
      /\ (trading => call[c].flag) /\ task = None /\ Running \subseteq {call[c].sim} /\ actor = None
  BY <1>1, <1>3 DEF StopHolds, Moves, At
<1>5. Running' = {} /\ ~trading'
  BY <1>2, <1>4 DEF Running
<1>6. /\ \A d \in Call : ~Starting(d)'
      /\ \A d \in Call : At(d, {"awaiting"})' <=> At(d, {"awaiting"})
      /\ \A d \in Call : At(d, {"awaiting"}) \/ Stopping(d)' => call'[d] = call[d] /\ Stopping(d)
  BY <1>1, <1>2, <1>4 DEF Stopping, Starting, Unwritten, Moves, At
<1>7. Flagged' /\ Recovered'
  BY <1>0, <1>1, <1>2, <1>5, BootCalls DEF Flagged, Recovered, Moves, At
<1>8. OneCleared' /\ StartsHold'
  BY <1>6 DEF OneCleared, StartsHold, Starting, At
<1>9. \A a \in alive : a # None
  BY NoneIsNoRow DEF SessionTyped, SessionTypeOK
<1>10. Settled'
  <2>1. ASSUME \A d \in Call : ~Stopping(d)'  PROVE alive = {}
    BY <1>4, <1>6, <1>9, <2>1 DEF Stopping, At
  <2> QED
    BY <1>2, <1>4, <1>5, <2>1 DEF Settled
<1>11. StopsHold'
  BY <1>0, <1>2, <1>5, <1>6 DEF StopsHold, StopHolds, At
<1>12. AllInformed'
  BY <1>5 DEF AllInformed, Informed
<1> QED
  BY <1>7, <1>8, <1>10, <1>11, <1>12 DEF AllAgree

LEMMA ReconcileAgrees ==
    ASSUME SessionTyped, AllAgree, NEW t \in Tab, ReadStatus(t), Lost, ~overlapped'
    PROVE  AllAgree'
<1> DEFINE c == Poll(t)
<1>0. Flagged /\ Recovered /\ OneCleared /\ Settled /\ StartsHold /\ StopsHold /\ AllInformed
  BY DEF AllAgree
<1>1. /\ c \in Call /\ c # Boot /\ Moves(c, "asked", "starting")
      /\ call'[c].sim = Latest /\ call'[c].flag = call[c].flag
  BY CallsOfTab, ReadMoves
<1>2. UNCHANGED <<row, trading, actor, task, alive, batch, abandoned>> /\ ~Closing
  BY DEF ReadStatus
<1>3. Running' = Running
  BY <1>2 DEF Running
<1>4. Running = {Latest}
  BY <1>0, LatestRuns DEF Lost, Flagged
<1> HIDE DEF c, Latest
<1>5. \A d \in Call : ~Stopping(d) /\ ~Unwritten(d)
  BY <1>2 DEF Closing
<1>6. \A d \in Call : ~Stopping(d)' /\ ~Unwritten(d)'
  BY <1>1, <1>2, <1>5 DEF Stopping, Unwritten, Moves, At
<1>7. Flagged' /\ Recovered'
  BY <1>0, <1>1, <1>2, <1>3, BootCalls DEF Flagged, Recovered, Moves, At
<1>8. OneCleared'
  BY <1>0, <1>1 DEF OneCleared, Moves, At
<1>9. Settled'
  <2>1. Bringing(c)'
    BY <1>1 DEF Bringing, Moves, At
  <2> QED
    BY <1>0, <1>1, <1>2, <1>3, <1>5, <2>1 DEF Settled
<1>10. StartsHold'
  <2>1. StartHolds(c)'
    BY <1>1, <1>3, <1>4, <1>6 DEF StartHolds, Moves, At
  <2>2. ASSUME NEW d \in Call, d # c, Starting(d)'  PROVE StartHolds(d)'
    <3>1. StartHolds(d) /\ call'[d] = call[d]
      BY <1>0, <1>1, <1>6, <2>2 DEF StartsHold, Starting, Moves, At
    <3> QED
      BY <1>2, <1>3, <1>6, <3>1 DEF StartHolds, At
  <2> QED
    BY <2>1, <2>2 DEF StartsHold
<1>11. StopsHold'
  BY <1>6 DEF StopsHold
<1>12. AllInformed'
  BY <1>0, <1>1, <1>2, <1>5 DEF AllInformed, Informed, Moves, At
<1> QED
  BY <1>7, <1>8, <1>9, <1>10, <1>11, <1>12 DEF AllAgree

LEMMA CrashAgrees ==
    ASSUME AllAgree, Crash
    PROVE  AllAgree'
<1>0. Flagged /\ Boot \in Call
  BY BootCalls DEF AllAgree
<1>1. \A c \in Call : call'[c].at = IF c = Boot THEN "booting" ELSE "idle"
  BY CrashMoves DEF Crash
<1>2. /\ UNCHANGED <<row, trading>> /\ actor' = None /\ task' = None /\ alive' = {}
      /\ batch'.left = {} /\ batch'.bad = {}
  BY DEF Crash, NoRows
<1>3. Running' = Running
  BY <1>2 DEF Running
<1>4. \A c \in Call : ~Starting(c)' /\ ~Stopping(c)'
  BY <1>1, <1>2 DEF Starting, Stopping, Unwritten, At
<1>5. Flagged' /\ Recovered'
  BY <1>0, <1>2, <1>3 DEF Flagged, Recovered
<1>6. OneCleared' /\ StartsHold' /\ StopsHold'
  BY <1>4 DEF OneCleared, StartsHold, StopsHold, Starting, At
<1>7. Settled'
  BY <1>0, <1>1, <1>2 DEF Settled, At
<1>8. AllInformed'
  BY <1>1 DEF AllInformed, At
<1> QED
  BY <1>5, <1>6, <1>7, <1>8 DEF AllAgree

\* The history is never taken back.
LEMMA OverlapStays ==
    ASSUME SessionTyped, SessionNext, ~overlapped'
    PROVE  ~overlapped
<1>1. ASSUME NEW t \in Tab, ClickStart(t) \/ ClickStop(t)
      PROVE  ~overlapped
  BY <1>1, Zenon DEF ClickStart, ClickStop
<1>2. ASSUME NEW t \in Tab, QueryRunning(t)
      PROVE  ~overlapped
  BY <1>2 DEF QueryRunning
<1>3. ASSUME NEW t \in Tab, ReadStatus(t)
      PROVE  ~overlapped
  BY <1>3, Zenon DEF ReadStatus
<1>4. ASSUME NEW c \in Call, BreakOff(c)
      PROVE  ~overlapped
  BY <1>4, Zenon DEF BreakOff
<1>5. CASE QueryRows
  BY <1>5 DEF QueryRows
<1>6. CASE UNCHANGED overlapped
  BY <1>6
<1>7. ASSUME NEW t \in Tab, ServeToggle(t)
      PROVE  ~overlapped
  BY <1>2, <1>6, <1>7, Zenon
     DEF ServeToggle, InsertRow, StartReply, RefusedReply, CancelTask, Taking, TaskEnds,
         CommitStop, StopReply
<1>8. CASE Serve \/ Recover \/ FailRow \/ FailRecovery \/ Crash
  BY <1>4, <1>5, <1>6, <1>8, BootCalls
     DEF Serve, BeginStart, FinishStart, StopRow, Recover, CommitRecovery, FailRow, FailRecovery,
         Crash
<1>9. ASSUME NEW t \in Tab, AskStatus(t) \/ ReadStatus(t) \/ StatusAnswer(t) \/ LoseReply(t)
      PROVE  ~overlapped
  BY <1>3, <1>6, <1>9 DEF AskStatus, StatusAnswer, LoseReply
<1>10. ASSUME NEW t \in Tab, BreakStart(t)
       PROVE  ~overlapped
  BY <1>4, <1>10, CallsOfTab DEF BreakStart
<1>11. ASSUME NEW c \in Call, FailStart(c)
       PROVE  ~overlapped
  BY <1>4, <1>11 DEF FailStart
<1> QED
  BY <1>1, <1>7, <1>8, <1>9, <1>10, <1>11 DEF SessionNext

LEMMA RowsStep ==
    ASSUME SessionTyped, LockHeld, RowsAgree, [SessionNext]_vars
    PROVE  RowsAgree'
<1>1. CASE UNCHANGED vars
  BY <1>1
  DEF RowsAgree, AllAgree, Flagged, Recovered, OneCleared, Settled, StartsHold, StopsHold,
      AllInformed, Bringing, Informed, StartHolds, StopHolds, Starting, Stopping, Unwritten,
      At, Running
<1>2. ASSUME SessionNext, ~overlapped'  PROVE AllAgree'
  <2>0. AllAgree /\ CallsTyped
    BY <1>2, OverlapStays DEF RowsAgree, SessionTyped
  <2>1. ASSUME NEW c \in Call, BeginStart(c) \/ FinishStart(c) \/ FailStart(c) \/ StopRow(c)
        PROVE  AllAgree'
    BY <1>2, <2>0, <2>1, BeginAgrees, FinishAgrees, FailAgrees, StopRowAgrees
  <2>2. ASSUME NEW t \in Tab, ClickStart(t) \/ ClickStop(t) \/ BreakStart(t) \/ InsertRow(t)
        PROVE  AllAgree'
    BY <1>2, <2>0, <2>2, ClickStartAgrees, ClickStopAgrees, BreakAgrees, InsertAgrees
  <2>3. ASSUME NEW t \in Tab, QueryRunning(t)
        PROVE  AllAgree'
    <3>1. CASE MayStart
      BY <1>2, <2>0, <2>3, <3>1, ClearedAgrees
    <3>2. CASE ~MayStart
      <4>1. Moves(Toggle(t), "checking", "refused") /\ UNCHANGED <<server, abandoned>>
        BY <2>0, <2>3, <3>2, QueryMoves DEF QueryRunning
      <4> QED
        BY <2>0, <4>1, ElsewhereAgrees, CallsOfTab DEF Elsewhere
    <3> QED
      BY <3>1, <3>2
  <2>4. ASSUME NEW t \in Tab, CancelTask(t) \/ TaskEnds(t) \/ CommitStop(t)
        PROVE  AllAgree'
    BY <1>2, <2>0, <2>4, CancelAgrees, TaskEndsAgrees, CommitAgrees
  <2>5. ASSUME NEW t \in Tab, StartReply(t) \/ RefusedReply(t) \/ StopReply(t) \/ LoseReply(t)
        PROVE  AllAgree'
    <3>1. PICK from \in {"running", "refused", "stopped"} : Moves(Toggle(t), from, "idle")
      BY <2>0, <2>5, ReplyMoves
    <3>2. UNCHANGED <<server, abandoned>>
      BY <2>5 DEF StartReply, RefusedReply, StopReply, LoseReply
    <3> QED
      BY <2>0, <3>1, <3>2, ElsewhereAgrees, CallsOfTab DEF Elsewhere
  <2>6. ASSUME NEW t \in Tab, AskStatus(t)
        PROVE  AllAgree'
    <3>1. /\ Moves(Poll(t), "idle", "asked") /\ call'[Poll(t)].flag = trading
          /\ UNCHANGED <<server, abandoned>>
      BY <2>6, AskMoves DEF AskStatus
    <3> QED
      BY <2>0, <3>1, ElsewhereAgrees, CallsOfTab DEF Elsewhere
  <2>7. ASSUME NEW t \in Tab, ReadStatus(t)
        PROVE  AllAgree'
    <3>1. CASE Lost
      BY <1>2, <2>0, <2>7, <3>1, ReconcileAgrees
    <3>2. CASE ~Lost
      <4>1. Moves(Poll(t), "asked", "answered") /\ UNCHANGED <<server, abandoned>>
        BY <2>7, <3>2, ReadMoves DEF ReadStatus
      <4> QED
        BY <2>0, <4>1, ElsewhereAgrees, CallsOfTab DEF Elsewhere
    <3> QED
      BY <3>1, <3>2
  <2>8. ASSUME NEW t \in Tab, StatusAnswer(t)
        PROVE  AllAgree'
    <3>1. Moves(Poll(t), "answered", "idle") /\ UNCHANGED <<server, abandoned>>
      BY <2>0, <2>8, AnswerMoves DEF StatusAnswer
    <3> QED
      BY <2>0, <3>1, ElsewhereAgrees, CallsOfTab DEF Elsewhere
  <2>9. ASSUME QueryRows \/ FailRow \/ CommitRecovery \/ FailRecovery \/ Crash
        PROVE  AllAgree'
    BY <1>2, <2>0, <2>9, QueryRowsAgrees, FailRowAgrees, CommitRecoveryAgrees,
       FailRecoveryAgrees, CrashAgrees
  <2> QED
    BY <1>2, <2>1, <2>2, <2>3, <2>4, <2>5, <2>6, <2>7, <2>8, <2>9
    DEF SessionNext, Serve, ServeToggle, Recover
<1> QED
  BY <1>1, <1>2 DEF RowsAgree

LEMMA RowsInit == SessionInit => RowsAgree
<1> SUFFICES ASSUME SessionInit PROVE AllAgree
  BY DEF RowsAgree
<1>1. \A c \in Call : call[c].at = IF c = Boot THEN "booting" ELSE "idle"
  BY DEF SessionInit, Restarted, Quiet
<1>2. actor = None /\ task = None /\ alive = {} /\ batch.left = {} /\ batch.bad = {}
  BY DEF SessionInit, NoRows
<1>3. \A c \in Call : ~Starting(c) /\ ~Stopping(c)
  BY <1>1, <1>2 DEF Starting, Stopping, Unwritten, At
<1>4. Flagged
  <2>1. PICK left \in BOOLEAN :
            row = [s \in Sim |-> IF left /\ s = 1 THEN "running" ELSE "none"] /\ trading = left
    BY DEF SessionInit
  <2>2. 1 \in Sim
    BY SessionAssumption DEF Sim
  <2> QED
    BY <2>1, <2>2 DEF Flagged, Running
<1>5. Recovered /\ OneCleared /\ StartsHold /\ StopsHold
  BY <1>2, <1>3 DEF Recovered, OneCleared, StartsHold, StopsHold, Starting, At
<1>6. Settled /\ AllInformed
  BY <1>1, <1>2, BootCalls DEF Settled, AllInformed, At
<1> QED
  BY <1>4, <1>5, <1>6 DEF AllAgree

LEMMA RestingRows == RowsAgree => RestAgrees
<1> SUFFICES ASSUME AllAgree, Rest
             PROVE  alive \subseteq Running /\ trading = (Running # {}) /\ (Running # alive => abandoned)
  BY DEF RowsAgree, RestAgrees
<1>1. Flagged /\ Recovered /\ Settled
  BY DEF AllAgree
<1>2. \A c \in Call : ~Stopping(c) /\ ~Bringing(c) /\ ~At(c, {"booting"})
  BY <1>1, BootCalls DEF Rest, Stopping, Bringing, Unwritten, Recovered, At
<1>3. /\ alive = (IF actor = None THEN {} ELSE {actor}) /\ alive \subseteq Running
      /\ actor = None /\ Running # {} => abandoned
  BY <1>1, <1>2, BootCalls DEF Settled
<1> QED
  BY <1>1, <1>3 DEF Flagged

\* With every call answered and the recovery over, an actor that trades is a
\* running row's, is_trading says whether a row runs, and a row runs without
\* its actor only where the start or the recovery that was to bring it broke
\* off: unless an actor was being started while its row was stopped, by a
\* stop or by another start that failed.
THEOREM RestingSessionAgrees == SessionSpec => []RestAgrees
<1>1. SessionSpec => []RowsAgree
  BY RowsInit, RowsStep, SessionIsTyped, SessionLock, PTL DEF SessionSpec
<1> QED
  BY <1>1, RestingRows, PTL

=============================================================================
