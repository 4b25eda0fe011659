--------------------------- MODULE TrainingSession ---------------------------
(***************************************************************************)
(* A training session of one Panda from the button to the actor and back:  *)
(* the page's phase and its status polling (useSimulationSession), the     *)
(* start, stop and status calls (panda_simulation.py) on the simulations   *)
(* rows and pandas.is_trading, and the ActorManager that keeps the actor   *)
(* and its task in the memory of the one backend process.                  *)
(*                                                                         *)
(* Between two awaits nothing else runs in that process; the calls of all  *)
(* tabs interleave at every await.  A crash loses the memory and every     *)
(* call; the restart serves at once, and a background task recovers the    *)
(* actors of the running rows beside the calls, and may fail.  A shutdown  *)
(* leaves the rows alone too and shows no more than a crash.               *)
(* Wallet and strategy checks, speed and pools are left out, as is the     *)
(* limit on actors, which one Panda does not reach; a hydration that fails *)
(* stands for every way an actor cannot start.  A tab has one toggle and   *)
(* one poll under way at a time.                                           *)
(***************************************************************************)
EXTENDS Integers, FiniteSets

CONSTANTS
    Tab,         \* pages open on the Panda
    Watching,    \* those in the foreground: only they poll the status
    MaxSim,      \* bound on simulations rows
    MaxClicks,   \* bound on the button's clicks
    MaxFailures  \* bound on crashes, lost replies, failed starts and recoveries

ASSUME SessionAssumption ==
    Watching \subseteq Tab /\ MaxSim \in Nat \ {0} /\ {MaxClicks, MaxFailures} \subseteq Nat

VARIABLES
    row,       \* simulations.status, by order of start
    trading,   \* pandas.is_trading
    actor,     \* _actors[panda]: the simulation its actor runs, or None
    task,      \* _tasks[panda]
    alive,     \* the actor tasks that still run
    lock,      \* the call that holds ActorManager._lock
    batch,     \* rows the recovery has not come to, and those it could not start
    call,      \* what each call is doing
    phase,     \* SessionPhase of each tab
    seen,      \* simStatus: the last status answer each tab holds
    dirty,     \* tabs whose status query is invalidated
    clicks,
    failures,
    raced,     \* history: a start looked for a running row before another's was in
    crossing,  \* history: a stop met the actor of a task another stop waits for
    overlapped,\* history: an actor was being started beside a stop, a race of
               \* starts, or a start that failed
    abandoned  \* history: a start or the recovery broke off, and no actor since

server == <<row, trading, actor, task, alive, lock, batch>>
client == <<phase, seen, dirty, clicks>>
history == <<failures, raced, crossing, overlapped, abandoned>>
vars == <<server, call, client, history>>

None == 0
Sim == 1..MaxSim
SimOrNone == 0..MaxSim

\* A tab's two kinds of call, and the recovery that runs beside them.
Toggle(t) == <<t, "toggle">>
Poll(t) == <<t, "poll">>
Boot == <<"backend", "boot">>
Call == (Tab \X {"toggle", "poll"}) \cup {Boot}

NoCall == <<"no", "call">>

Quiet == [at |-> "idle", sim |-> None, flag |-> FALSE, task |-> None, active |-> FALSE]

Calls ==
    [at : {"idle", "checking", "cleared", "starting", "hydrating", "failing", "running", "refused",
           "loaded", "awaiting", "committing", "stopped",
           "asked", "answered", "booting", "closing"},
     sim : SimOrNone,    \* the row it works on
     flag : BOOLEAN,     \* panda.is_trading as the session holds it
     task : SimOrNone,   \* the task a stop waits for
     active : BOOLEAN]   \* actor_active of the answer

SessionTypeOK ==
    /\ row \in [Sim -> {"none", "running", "stopped"}]
    /\ trading \in BOOLEAN
    /\ {actor, task} \subseteq SimOrNone
    /\ alive \subseteq Sim
    /\ lock \in Call \cup {NoCall}
    /\ batch \in [left : SUBSET Sim, bad : SUBSET Sim]
    /\ call \in [Call -> Calls]
    /\ phase \in [Tab -> {"idle", "starting", "running", "stopping", "error"}]
    /\ seen \in [Tab -> SimOrNone \X BOOLEAN]
    /\ dirty \subseteq Watching
    /\ clicks \in 0..MaxClicks /\ failures \in 0..MaxFailures
    /\ {raced, crossing, overlapped, abandoned} \subseteq BOOLEAN

NoRows == [left |-> {}, bad |-> {}]

\* The process has just started: no call, and the recovery in the background.
Restarted == [c \in Call |-> IF c = Boot THEN [Quiet EXCEPT !.at = "booting"] ELSE Quiet]

\* An earlier process may have left a session running, which some tabs show.
SessionInit ==
    /\ \E left \in BOOLEAN, showing \in SUBSET Tab :
          /\ showing # {} => left
          /\ row = [s \in Sim |-> IF left /\ s = 1 THEN "running" ELSE "none"]
          /\ trading = left
          /\ phase = [t \in Tab |-> IF t \in showing THEN "running" ELSE "idle"]
          /\ seen = [t \in Tab |-> IF t \in showing THEN <<1, TRUE>> ELSE <<None, FALSE>>]
    /\ actor = None /\ task = None /\ alive = {}
    /\ lock = NoCall
    /\ batch = NoRows
    /\ call = Restarted
    /\ dirty = {}
    /\ clicks = 0 /\ failures = 0
    /\ raced = FALSE /\ crossing = FALSE /\ overlapped = FALSE /\ abandoned = FALSE

Running == {s \in Sim : row[s] = "running"}

LastOf(S) == IF S = {} THEN None ELSE CHOOSE s \in S : \A r \in S : r <= s

\* The query for the latest running row.
Latest == LastOf(Running)

At(c, places) == call[c].at \in places

Goto(c, place) == call' = [call EXCEPT ![c].at = place]

Stopping(c) == At(c, {"loaded", "awaiting", "committing"})

\* A start has failed and its row is still to be stopped.
Unwritten(c) == At(c, {"failing"}) \/ (c = Boot /\ batch.bad # {})

\* A row is about to be stopped.
Closing == \E c \in Call : Stopping(c) \/ Unwritten(c)

\* On its way to start an actor, or to stop the row that could not.
Starting(c) == At(c, {"checking", "cleared", "starting", "hydrating"}) \/ Unwritten(c)

\* Reads what it may start an actor on.
Asking(c) == At(c, {"asked"})

-----------------------------------------------------------------------------
(* ActorManager.start, by a start call, by a status call that reconciles,  *)
(* or by the recovery.                                                     *)

\* start() has returned: the toggle is done, the poll answers with its row,
\* and the recovery takes its other rows for running as well.
Started(c) ==
    /\ call' = [call EXCEPT ![c] =
                  CASE c = Boot -> [Quiet EXCEPT !.at = "closing", !.flag = call[c].flag]
                    [] c # Boot /\ c[2] = "poll" ->
                         [Quiet EXCEPT !.at = "answered", !.sim = call[c].sim, !.active = TRUE]
                    [] OTHER -> [Quiet EXCEPT !.at = "running"]]
    /\ batch' = IF c = Boot THEN [batch EXCEPT !.left = {}] ELSE batch

\* With an actor registered it returns at once, whichever simulation it runs.
BeginStart(c) ==
    /\ At(c, {"starting"})
    /\ lock = NoCall
    /\ IF actor # None
       THEN Started(c) /\ UNCHANGED lock
       ELSE lock' = c /\ Goto(c, "hydrating") /\ UNCHANGED batch
    /\ UNCHANGED <<row, trading, actor, task, alive, client, history>>

\* The actor hydrated from the database: register it and create its task.
FinishStart(c) ==
    /\ At(c, {"hydrating"})
    /\ actor' = call[c].sim
    /\ task' = call[c].sim
    /\ alive' = alive \cup {call[c].sim}
    /\ lock' = NoCall
    /\ Started(c)
    /\ abandoned' = FALSE
    /\ UNCHANGED <<row, trading, client, failures, raced, crossing, overlapped>>

\* The lock is released by an exception; another start may have been on its way.
BreakOff(c) ==
    /\ At(c, {"hydrating"})
    /\ failures < MaxFailures
    /\ failures' = failures + 1
    /\ lock' = NoCall
    /\ overlapped' = (overlapped \/ \E d \in Call \ {c} : Starting(d) \/ Asking(d))
    /\ UNCHANGED <<actor, task, alive, client, raced, crossing>>

\* RuntimeError, or in a status call any exception: the row is to be stopped.
FailStart(c) ==
    /\ c # Boot
    /\ BreakOff(c)
    /\ Goto(c, "failing")
    /\ UNCHANGED <<row, trading, batch, abandoned>>

\* The commit, by the start call or after reconcile.  An UPDATE of is_trading
\* is sent only if the session held it TRUE.
StopRow(c) ==
    /\ At(c, {"failing"})
    /\ row' = [row EXCEPT ![call[c].sim] = "stopped"]
    /\ trading' = (trading /\ ~call[c].flag)
    /\ call' = [call EXCEPT ![c] =
                  [Quiet EXCEPT !.at = IF c[2] = "poll" THEN "answered" ELSE "refused"]]
    /\ UNCHANGED <<actor, task, alive, lock, batch, client, history>>

\* Any other exception leaves the start call's row as it was inserted.
BreakStart(t) ==
    /\ BreakOff(Toggle(t))
    /\ call' = [call EXCEPT ![Toggle(t)] = [Quiet EXCEPT !.at = "refused"]]
    /\ abandoned' = TRUE
    /\ UNCHANGED <<row, trading, batch>>

-----------------------------------------------------------------------------
(* recover_running_simulations, in the background of a process that serves.*)

\* The recovery's next row, the latest of those left; without one it commits.
GoOn(left, flag) ==
    [Quiet EXCEPT !.at = IF left = {} THEN "closing" ELSE "starting",
                  !.sim = LastOf(left), !.flag = flag]

\* The query for the running rows.  Those of a Panda with an actor are skipped.
QueryRows ==
    /\ At(Boot, {"booting"})
    /\ LET rows == IF actor = None THEN Running ELSE {}
       IN  /\ call' = [call EXCEPT ![Boot] = GoOn(rows, trading)]
           /\ batch' = [left |-> rows \ {LastOf(rows)}, bad |-> {}]
           /\ overlapped' = (overlapped \/ (rows # {} /\ Closing))
    /\ UNCHANGED <<row, trading, actor, task, alive, lock, client, failures,
                   raced, crossing, abandoned>>

\* An actor that cannot start: its row is to be stopped, with the others'.
FailRow ==
    /\ BreakOff(Boot)
    /\ call' = [call EXCEPT ![Boot] = GoOn(batch.left, call[Boot].flag)]
    /\ batch' = [left |-> batch.left \ {LastOf(batch.left)}, bad |-> batch.bad \cup {call[Boot].sim}]
    /\ UNCHANGED <<row, trading, abandoned>>

\* MUTANT of CommitRecovery: the rows that could not be started stay running.
CommitRecoveryKeepsRows ==
    /\ At(Boot, {"closing"})
    /\ call' = [call EXCEPT ![Boot] = Quiet]
    /\ batch' = NoRows
    /\ UNCHANGED <<row, trading, actor, task, alive, lock, client, history>>

\* One commit for all rows.
CommitRecovery ==
    /\ At(Boot, {"closing"})
    /\ row' = [s \in Sim |-> IF s \in batch.bad THEN "stopped" ELSE row[s]]
    /\ trading' = (trading /\ ~(batch.bad # {} /\ call[Boot].flag))
    /\ call' = [call EXCEPT ![Boot] = Quiet]
    /\ batch' = NoRows
    /\ UNCHANGED <<actor, task, alive, lock, client, history>>

\* The query or the commit raises: main.py logs it and goes on without.
FailRecovery ==
    /\ At(Boot, {"booting", "closing"})
    /\ failures < MaxFailures
    /\ failures' = failures + 1
    /\ call' = [call EXCEPT ![Boot] = Quiet]
    /\ batch' = NoRows
    /\ abandoned' = (abandoned \/ actor = None)
    /\ UNCHANGED <<row, trading, actor, task, alive, lock, client,
                   raced, crossing, overlapped>>

-----------------------------------------------------------------------------
(* toggleTraining: the start call.                                         *)

\* The button, and start_simulation up to the Panda it loads.
ClickStart(t) ==
    /\ At(Toggle(t), {"idle"})
    /\ clicks < MaxClicks
    /\ clicks' = clicks + 1
    /\ phase[t] \in {"idle", "error"}
    /\ phase' = [phase EXCEPT ![t] = "starting"]
    /\ call' = [call EXCEPT ![Toggle(t)] = [Quiet EXCEPT !.at = "checking", !.flag = trading]]
    /\ overlapped' = (overlapped \/ Closing)
    /\ UNCHANGED <<server, seen, dirty, failures, raced, crossing, abandoned>>

\* MUTANT of MayStart: the memory is asked instead of the rows.
MayStartByActor == actor = None

MayStart == Running = {}

\* The query for a running row: one is SIM_ALREADY_RUNNING, and two make
\* scalar_one_or_none raise.
QueryRunning(t) ==
    /\ At(Toggle(t), {"checking"})
    /\ Goto(Toggle(t), IF MayStart THEN "cleared" ELSE "refused")
    /\ LET race == MayStart /\ \E c \in Call : At(c, {"cleared"})
       IN  raced' = (raced \/ race) /\ overlapped' = (overlapped \/ race)
    /\ UNCHANGED <<server, client, failures, crossing, abandoned>>

\* The row is inserted and committed before the actor starts.
InsertRow(t) ==
    /\ At(Toggle(t), {"cleared"})
    /\ \E s \in Sim :
          /\ row[s] = "none"
          /\ \A r \in Sim : r < s => row[r] # "none"
          /\ row' = [row EXCEPT ![s] = "running"]
          /\ call' = [call EXCEPT ![Toggle(t)].at = "starting", ![Toggle(t)].sim = s,
                                  ![Toggle(t)].flag = TRUE]
    /\ trading' = (trading \/ ~call[Toggle(t)].flag)
    /\ UNCHANGED <<actor, task, alive, lock, batch, client, history>>

StartReply(t) ==
    /\ At(Toggle(t), {"running"})
    /\ phase' = [phase EXCEPT ![t] = "running"]
    /\ dirty' = dirty \cup ({t} \cap Watching)
    /\ call' = [call EXCEPT ![Toggle(t)] = Quiet]
    /\ UNCHANGED <<server, clicks, seen, history>>

\* startTraining threw: 409, 500, 503.
RefusedReply(t) ==
    /\ At(Toggle(t), {"refused"})
    /\ phase' = [phase EXCEPT ![t] = "error"]
    /\ call' = [call EXCEPT ![Toggle(t)] = Quiet]
    /\ UNCHANGED <<server, clicks, seen, dirty, history>>

-----------------------------------------------------------------------------
(* toggleTraining: the stop call.                                          *)

\* The button, and stop_simulation up to the Panda it loads.
ClickStop(t) ==
    /\ At(Toggle(t), {"idle"})
    /\ clicks < MaxClicks
    /\ clicks' = clicks + 1
    /\ phase[t] = "running"
    /\ phase' = [phase EXCEPT ![t] = "stopping"]
    /\ call' = [call EXCEPT ![Toggle(t)] = [Quiet EXCEPT !.at = "loaded", !.flag = trading]]
    /\ overlapped' = (overlapped \/ \E c \in Call : Starting(c))
    /\ UNCHANGED <<server, seen, dirty, failures, raced, crossing, abandoned>>

\* The stop of ActorManager, with the task it takes: the row is the one that
\* stop_simulation has just queried.
Taking(t, place) ==
    /\ At(Toggle(t), {"loaded"})
    /\ call' = [call EXCEPT ![Toggle(t)].at = place, ![Toggle(t)].sim = Latest,
                            ![Toggle(t)].task = task]
    /\ task' = None
    /\ crossing' = (crossing \/ (task = None /\ actor # None))
    /\ UNCHANGED <<row, trading, alive, lock, batch, client, failures, raced, overlapped, abandoned>>

\* MUTANT of CancelTask: the actor is dropped before its task has ended.
CancelTaskDropsActor(t) ==
    /\ Taking(t, IF task # None THEN "awaiting" ELSE "committing")
    /\ actor' = None

\* It takes no lock.  With a task it cancels it and waits; without one it drops
\* the actor at once.
CancelTask(t) ==
    \/ task # None /\ Taking(t, "awaiting") /\ UNCHANGED actor
    \/ task = None /\ Taking(t, "committing") /\ actor' = None

\* The task has ended; whatever actor is registered by now is dropped.
TaskEnds(t) ==
    /\ At(Toggle(t), {"awaiting"})
    /\ alive' = alive \ {call[Toggle(t)].task}
    /\ actor' = None
    /\ call' = [call EXCEPT ![Toggle(t)].at = "committing", ![Toggle(t)].task = None]
    /\ UNCHANGED <<row, trading, task, lock, batch, client, history>>

\* MUTANT of CommitStop: the row takes a status no query knows.
CommitStopEnded(t) ==
    /\ At(Toggle(t), {"committing"})
    /\ row' = [s \in Sim |-> IF s = call[Toggle(t)].sim THEN "ended" ELSE row[s]]
    /\ trading' = (trading /\ ~call[Toggle(t)].flag)
    /\ call' = [call EXCEPT ![Toggle(t)] = [Quiet EXCEPT !.at = "stopped"]]
    /\ UNCHANGED <<actor, task, alive, lock, batch, client, history>>

CommitStop(t) ==
    /\ At(Toggle(t), {"committing"})
    /\ row' = [s \in Sim |-> IF s = call[Toggle(t)].sim THEN "stopped" ELSE row[s]]
    /\ trading' = (trading /\ ~call[Toggle(t)].flag)
    /\ call' = [call EXCEPT ![Toggle(t)] = [Quiet EXCEPT !.at = "stopped"]]
    /\ UNCHANGED <<actor, task, alive, lock, batch, client, history>>

StopReply(t) ==
    /\ At(Toggle(t), {"stopped"})
    /\ phase' = [phase EXCEPT ![t] = "idle"]
    /\ dirty' = dirty \cup ({t} \cap Watching)
    /\ call' = [call EXCEPT ![Toggle(t)] = Quiet]
    /\ UNCHANGED <<server, clicks, seen, history>>

-----------------------------------------------------------------------------
(* The status query: every two seconds while running, when the window gets *)
(* focus, and after a toggle.                                              *)

\* MUTANT of Lost: a status call reconciles nothing.
LostNever == FALSE

Lost == Latest # None /\ actor = None

\* The query, and simulation_status up to the Panda it loads.
AskStatus(t) ==
    /\ t \in Watching
    /\ At(Poll(t), {"idle"})
    /\ call' = [call EXCEPT ![Poll(t)] = [Quiet EXCEPT !.at = "asked", !.flag = trading]]
    /\ dirty' = dirty \ {t}
    /\ UNCHANGED <<server, clicks, phase, seen, history>>

\* It reads the latest running row and then, at once, the actor; a row without
\* an actor is reconciled, that is started.
ReadStatus(t) ==
    /\ At(Poll(t), {"asked"})
    /\ call' = [call EXCEPT ![Poll(t)] =
                  IF Lost THEN [@ EXCEPT !.at = "starting", !.sim = Latest]
                  ELSE [Quiet EXCEPT !.at = "answered", !.sim = Latest,
                                     !.active = (actor # None)]]
    /\ overlapped' = (overlapped \/ (Lost /\ Closing))
    /\ UNCHANGED <<server, client, failures, raced, crossing, abandoned>>

\* The effect on simStatus runs only when the answer differs from the one
\* held; that of a live actor carries its numbers, so it may differ anyhow.
StatusAnswer(t) ==
    /\ At(Poll(t), {"answered"})
    /\ LET c == call[Poll(t)]
           answer == <<c.sim, c.active>>
           up == c.active \/ c.sim # None
       IN  /\ seen' = [seen EXCEPT ![t] = answer]
           /\ \/ /\ answer # seen[t] \/ c.active
                 /\ phase' = [phase EXCEPT ![t] = IF up THEN "running"
                                                  ELSE IF @ = "running" THEN "idle" ELSE @]
              \/ answer = seen[t] /\ UNCHANGED phase
    /\ call' = [call EXCEPT ![Poll(t)] = Quiet]
    /\ UNCHANGED <<server, clicks, dirty, history>>

-----------------------------------------------------------------------------
(* Failures.                                                               *)

\* The reply of a toggle is lost: the page is in error, whatever was done.
LoseReply(t) ==
    /\ failures < MaxFailures
    /\ At(Toggle(t), {"running", "stopped"})
    /\ failures' = failures + 1
    /\ phase' = [phase EXCEPT ![t] = "error"]
    /\ call' = [call EXCEPT ![Toggle(t)] = Quiet]
    /\ UNCHANGED <<server, clicks, seen, dirty, raced, crossing, overlapped, abandoned>>

\* The process dies with its memory and its calls; what comes up serves at
\* once and recovers beside it.
Crash ==
    /\ failures < MaxFailures
    /\ failures' = failures + 1
    /\ actor' = None /\ task' = None /\ alive' = {}
    /\ lock' = NoCall
    /\ batch' = NoRows
    /\ call' = Restarted
    /\ phase' = [t \in Tab |-> IF At(Toggle(t), {"idle"}) THEN phase[t] ELSE "error"]
    /\ dirty' = dirty \cup {t \in Watching : ~At(Poll(t), {"idle"})}
    /\ UNCHANGED <<row, trading, clicks, seen, raced, crossing, overlapped, abandoned>>

-----------------------------------------------------------------------------
ServeToggle(t) ==
    \/ QueryRunning(t) \/ InsertRow(t) \/ StartReply(t) \/ RefusedReply(t)
    \/ CancelTask(t) \/ TaskEnds(t) \/ CommitStop(t) \/ StopReply(t)

Serve == \E c \in Call : BeginStart(c) \/ FinishStart(c) \/ StopRow(c)

Recover == QueryRows \/ CommitRecovery

SessionNext ==
    \/ \E t \in Tab : ClickStart(t) \/ ClickStop(t) \/ ServeToggle(t) \/ BreakStart(t)
    \/ Serve \/ \E c \in Call : FailStart(c)
    \/ \E t \in Tab : AskStatus(t) \/ ReadStatus(t) \/ StatusAnswer(t) \/ LoseReply(t)
    \/ Recover \/ FailRow \/ FailRecovery
    \/ Crash

\* Starts are served, and a page that is running or invalidated polls.  Nothing
\* is asked of the toggles nor of the recovery.
Fairness ==
    /\ WF_vars(Serve)
    /\ \A t \in Watching :
          /\ WF_vars(AskStatus(t) /\ (phase[t] = "running" \/ t \in dirty))
          /\ WF_vars(ReadStatus(t) \/ StatusAnswer(t))

SessionSpec == SessionInit /\ [][SessionNext]_vars /\ Fairness

-----------------------------------------------------------------------------
(* Properties.                                                             *)

\* A Panda trades once: one actor task runs, and it is the registered one,
\* whatever polls, starts, crashes, failed starts and the recovery that runs
\* beside them interleave.  A second stop breaks it if it finds the task taken
\* by a stop that still waits: stop() has no lock and drops the actor whose
\* task goes on, and the first stop then drops any actor started since.
OneActor ==
    ~crossing => Cardinality(alive) <= 1 /\ (actor = None <=> alive = {})

\* One running row at most, unless two starts raced: nothing but the query of
\* start_simulation keeps a second row out.
OneRunning == ~raced => Cardinality(Running) <= 1

Rest == \A c \in Call : At(c, {"idle"})

\* When every call is answered and the recovery is over, an actor that trades
\* is a running row's, is_trading, on which strategy edits are refused, says
\* whether a row runs, and a running row has its actor unless the start or
\* the recovery that was to bring it broke off.  The rows, the flag and the
\* memory are written in different steps of calls that fail between them;
\* starts, polls that reconcile and the recovery may all start the same row at
\* once, and stops may cross.  What breaks it is an actor being started while
\* its row is stopped, by a stop or by another start that fails.
RestAgrees ==
    Rest /\ ~overlapped =>
        /\ alive \subseteq Running
        /\ trading = (Running # {})
        /\ Running # alive => abandoned

\* A page that shows a running session comes to have an actor behind it or to
\* show that it is over, whatever crash, race, failed start or failed recovery
\* came between: its own polls restart the actor of a running row, or learn
\* that no row runs.  But for a page whose session ended before its first
\* poll: the answer it gets again and again is the one it holds, so the effect
\* never runs.
PageMeetsActor ==
    \A t \in Watching :
        phase[t] = "running" /\ seen[t] # <<None, FALSE>> /\ actor = None
            ~> phase[t] # "running" \/ actor # None

=============================================================================
