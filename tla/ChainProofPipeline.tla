------------------------- MODULE ChainProofPipeline -------------------------
(***************************************************************************)
(* A Chain Proof from its request to its confirmation: request_chain_proof *)
(* and its eligibility check, the async_jobs row, process_pending_jobs as  *)
(* the background poller and every requesting API call run it, the agent   *)
(* signer, the chain_execution_logs row, and the owner's pause or revoke   *)
(* that cancels pending jobs.  It composes PolicyMirror: eligibility and   *)
(* the signer read the mirror, the chain judges by its own policy.         *)
(*                                                                         *)
(* A session is a database session with the code that runs in it.  What it *)
(* wrote since its last commit is visible to itself only, and the row it   *)
(* updated is locked until it commits; reads see committed rows.  Between  *)
(* two awaits nothing else of the session's own process runs, but several  *)
(* sessions interleave at every await.                                     *)
(*                                                                         *)
(* A fact stands for a Trade Fact with its Order Intent, made under policy *)
(* version 1 within every cap, and for its proof_key and its job: one key  *)
(* hashes one fact, version and decision.  The job queue is polled as a    *)
(* set: the order of a batch is left open.  Left out: the dry run of a     *)
(* server with no signer key, and the kinds of job other than              *)
(* chain_proof_requested.                                                  *)
(***************************************************************************)
EXTENDS PolicyMirror

CONSTANTS
    Fact,          \* executable Trade Facts of one Panda
    NoFact,        \* what a session without one works on
    Poller,        \* background job runners, one per backend process
    Api,           \* API calls that request a proof
    MaxAttempts,   \* async_jobs.max_attempts
    DailyLimit,    \* settings.chain_proof_daily_cap
    LostReplies,   \* TRUE: the RPC node may execute and its reply be lost
    MaxCrashes     \* bound on sessions that die

ASSUME PipelineAssumption ==
    /\ MaxAttempts \in Nat \ {0}
    /\ DailyLimit \in Nat
    /\ MaxCrashes \in Nat
    /\ LostReplies \in BOOLEAN
    /\ Poller \cap Api = {}
    /\ NoFact \notin Fact

VARIABLES
    fact,      \* trade_facts.proof_status
    job,       \* async_jobs: the job of each fact
    log,       \* chain_execution_logs.status of each proof_key
    today,     \* facts whose log row was created on this day
    recent,    \* facts whose log row is younger than the cooldown
    events,    \* ChainProofRecorded events on chain, by proof_key
    session,   \* what each session is doing
    cancelling, \* owner-action handlers that have selected what to cancel
    doomed,    \* the jobs they selected
    crashes,
    tangled    \* history: facts whose job two sessions held at once, or whose
               \* execution on chain no session lived to learn of

rows == <<fact, job, log, today, recent>>
cancels == <<cancelling, doomed>>
history == <<crashes, tangled>>

proofVars == <<rows, events, session, cancels, history>>
allVars == <<mirrorVars, proofVars>>

Session == Poller \cup Api

NoJob == [status |-> "none", attempts |-> 0]

JobStatus == {"pending", "completed", "failed", "cancelled"}

Job ==
    {NoJob} \cup [status : {"pending"}, attempts : 0..(MaxAttempts - 1)]
            \cup [status : JobStatus \ {"pending"}, attempts : 0..MaxAttempts]

\* A session: at is where it stands, batch the jobs it selected with their
\* attempts, f the fact it works on, seen the proof_status it has read.
Sessions ==
    [at : {"idle", "checked", "queued", "polled", "claimed", "valid", "sent", "refused"},
     batch : SUBSET (Fact \X Nat),
     f : Fact \cup {NoFact}, attempts : Nat, seen : {"none", "requested", "confirmed", "failed"}]

ProofTypeOK ==
    /\ fact \in [Fact -> {"none", "requested", "confirmed", "failed"}]
    /\ job \in [Fact -> Job]
    /\ log \in [Fact -> {"none", "confirmed", "failed"}]
    /\ today \subseteq Fact
    /\ recent \subseteq Fact
    /\ events \in [Fact -> Nat]
    /\ session \in [Session -> Sessions]
    /\ cancelling \subseteq Handler
    /\ doomed \in [Handler -> SUBSET Fact]
    /\ crashes \in 0..MaxCrashes
    /\ tangled \subseteq Fact

Start == [at |-> "idle", batch |-> {}, f |-> NoFact,
          attempts |-> 0, seen |-> "none"]

ProofInit ==
    /\ MirrorInit
    /\ fact = [f \in Fact |-> "none"]
    /\ job = [f \in Fact |-> NoJob]
    /\ log = [f \in Fact |-> "none"]
    /\ today = {}
    /\ recent = {}
    /\ events = [f \in Fact |-> 0]
    /\ session = [s \in Session |-> Start]
    /\ cancelling = {}
    /\ doomed = [h \in Handler |-> {}]
    /\ crashes = 0
    /\ tangled = {}

Goto(s, place) == session' = [session EXCEPT ![s].at = place]

Pending == {f \in Fact : job[f].status = "pending"}

\* The job row is locked from the flush of dispatch_job to its commit.
LockedBy(s, f) ==
    session[s].f = f /\ session[s].at \in {"claimed", "valid", "sent", "refused"}

Locked(f) == \E s \in Session : LockedBy(s, f)

\* The session has the job in its batch or in its hands.
Holds(s, f) == LockedBy(s, f) \/ \E b \in session[s].batch : b[1] = f

-----------------------------------------------------------------------------
(* request_chain_proof.                                                    *)

ProofsToday == Cardinality({f \in today : log[f] = "confirmed"})

CoolingDown == \E f \in recent : log[f] = "confirmed"

\* evaluate_eligibility: it compares no policy version.
Eligible(f) ==
    /\ fact[f] \notin {"requested", "confirmed"}
    /\ GateOpen
    /\ ~CoolingDown
    /\ ProofsToday < DailyLimit

\* Eligible, and no log row yet: a log that exists, failed or not, is
\* CHAIN_PROOF_DUPLICATE.
CheckRequest(s, f) ==
    /\ s \in Api
    /\ session[s].at = "idle"
    /\ Eligible(f)
    /\ log[f] = "none"
    /\ session' = [session EXCEPT ![s].at = "checked", ![s].f = f]
    /\ UNCHANGED <<mirrorVars, rows, events, cancels, history>>

\* enqueue_job and the commit.  A job that exists is left alone and the call
\* ends; the fact is marked either way.
Enqueue(s) ==
    /\ session[s].at = "checked"
    /\ LET f == session[s].f
       IN /\ fact' = [fact EXCEPT ![f] = "requested"]
          /\ IF job[f] = NoJob
             THEN /\ job' = [job EXCEPT ![f] = [status |-> "pending", attempts |-> 0]]
                  /\ Goto(s, "queued")
             ELSE /\ UNCHANGED job
                  /\ session' = [session EXCEPT ![s] = Start]
    /\ UNCHANGED <<mirrorVars, log, today, recent, events, cancels, history>>

\* The job was inserted between enqueue_job's SELECT and the flush: the
\* unique index on idempotency_key fails the commit.
EnqueueFails(s) ==
    /\ session[s].at = "checked"
    /\ job[session[s].f] # NoJob
    /\ session' = [session EXCEPT ![s] = Start]
    /\ UNCHANGED <<mirrorVars, rows, events, cancels, history>>

-----------------------------------------------------------------------------
(* process_pending_jobs and dispatch_job.                                  *)

\* SELECT ... WHERE status = 'pending', with no FOR UPDATE.
Poll(s) ==
    /\ session[s].at = IF s \in Poller THEN "idle" ELSE "queued"
    /\ s \in Poller => Pending # {}
    /\ session' = [session EXCEPT ![s] =
                      IF Pending = {} THEN Start
                      ELSE [Start EXCEPT !.at = "polled",
                                         !.batch = {<<f, job[f].attempts>> : f \in Pending}]]
    /\ tangled' = tangled \cup {f \in Pending : \E t \in Session \ {s} : Holds(t, f)}
    /\ UNCHANGED <<mirrorVars, rows, events, cancels, crashes>>

\* The flush of status 'running' waits for the row's lock, and writes the
\* row whatever it has become since the poll.
Claim(s, b) ==
    /\ session[s].at = "polled"
    /\ b \in session[s].batch
    /\ ~Locked(b[1])
    /\ session' = [session EXCEPT ![s] = [at |-> "claimed", batch |-> @.batch \ {b},
                                          f |-> b[1], attempts |-> b[2] + 1,
                                          seen |-> @.seen]]
    /\ UNCHANGED <<mirrorVars, rows, events, cancels, history>>

\* The session turns to the next job it has selected, or is done.
Release(s) ==
    session' = [session EXCEPT ![s] =
                    IF @.batch = {} THEN Start
                    ELSE [Start EXCEPT !.at = "polled", !.batch = session[s].batch]]

\* MUTANT of AfterError: the comparison is off by one.
AfterErrorOffByOne(attempts) ==
    [status   |-> IF attempts > MaxAttempts THEN "failed" ELSE "pending",
     attempts |-> attempts]

\* MUTANT of AfterError: the attempt is rolled back with the rest.
AfterErrorUncounted(attempts) ==
    [status   |-> IF attempts >= MaxAttempts THEN "failed" ELSE "pending",
     attempts |-> attempts - 1]

\* The job after an exception.
AfterError(attempts) ==
    [status   |-> IF attempts >= MaxAttempts THEN "failed" ELSE "pending",
     attempts |-> attempts]

\* validate_preconditions, on the mirror as it is committed now.
SignerAgrees ==
    /\ mirror.agent
    /\ ~mirror.paused
    /\ mirror.status = "active"
    /\ mirror.version = 1

Validate(s) ==
    /\ session[s].at = "claimed"
    /\ SignerAgrees
    /\ session' = [session EXCEPT ![s].at = "valid", ![s].seen = fact[session[s].f]]
    /\ UNCHANGED <<mirrorVars, rows, events, cancels, history>>

\* The refusal is raised before anything is recorded: log and fact keep
\* their status, only the job's attempt counts.
ValidateFails(s) ==
    /\ session[s].at = "claimed"
    /\ ~SignerAgrees
    /\ job' = [job EXCEPT ![session[s].f] = AfterError(session[s].attempts)]
    /\ Release(s)
    /\ UNCHANGED <<mirrorVars, fact, log, today, recent, events, cancels, history>>

-----------------------------------------------------------------------------
(* submit_chain_proof, on the policy of the chain; see AgentWallet.        *)

ChainAllows == ~chain.paused /\ ~chain.revoked /\ chain.version = 1

Submit(s) ==
    /\ session[s].at = "valid"
    /\ ChainAllows
    /\ events' = [events EXCEPT ![session[s].f] = @ + 1]
    /\ \/ Goto(s, "sent") /\ UNCHANGED tangled
       \/ LostReplies /\ Goto(s, "refused") /\ tangled' = tangled \cup {session[s].f}
    /\ UNCHANGED <<mirrorVars, rows, cancels, crashes>>

\* The chain aborts the transaction or the RPC node does not take it.
SubmitFails(s) ==
    /\ session[s].at = "valid"
    /\ Goto(s, "refused")
    /\ UNCHANGED <<mirrorVars, rows, events, cancels, history>>

\* A log row is created once and keeps its created_at.
Created(f) ==
    /\ today' = IF log[f] = "none" THEN today \cup {f} ELSE today
    /\ recent' = IF log[f] = "none" THEN recent \cup {f} ELSE recent

\* MUTANT of Confirm: the job is given back to the queue.
ConfirmKeepingJob(s) ==
    /\ session[s].at = "sent"
    /\ LET f == session[s].f
       IN /\ log' = [log EXCEPT ![f] = "confirmed"]
          /\ fact' = [fact EXCEPT ![f] = Net(session[s].seen, "confirmed", @)]
          /\ Created(f)
    /\ Release(s)
    /\ UNCHANGED <<mirrorVars, job, events, cancels, history>>

\* attach_execution_result, the job's completion and the commit.
Confirm(s) ==
    /\ session[s].at = "sent"
    /\ LET f == session[s].f
       IN /\ log' = [log EXCEPT ![f] = "confirmed"]
          /\ fact' = [fact EXCEPT ![f] = Net(session[s].seen, "confirmed", @)]
          /\ job' = [job EXCEPT ![f] = [status |-> "completed",
                                        attempts |-> session[s].attempts]]
          /\ Created(f)
    /\ Release(s)
    /\ UNCHANGED <<mirrorVars, events, cancels, history>>

\* MUTANT of RecordFailure: the exception rolls the failure row back.
RecordFailureLost(s) ==
    /\ session[s].at = "refused"
    /\ LET f == session[s].f
       IN /\ fact' = [fact EXCEPT ![f] = Net(session[s].seen, "failed", @)]
          /\ job' = [job EXCEPT ![f] = AfterError(session[s].attempts)]
    /\ Release(s)
    /\ UNCHANGED <<mirrorVars, log, today, recent, events, cancels, history>>

\* _record_failure, then the exception path of dispatch_job.
RecordFailure(s) ==
    /\ session[s].at = "refused"
    /\ LET f == session[s].f
       IN /\ log' = [log EXCEPT ![f] = "failed"]
          /\ fact' = [fact EXCEPT ![f] = Net(session[s].seen, "failed", @)]
          /\ job' = [job EXCEPT ![f] = AfterError(session[s].attempts)]
          /\ Created(f)
    /\ Release(s)
    /\ UNCHANGED <<mirrorVars, events, cancels, history>>

-----------------------------------------------------------------------------
(* The owner, the clock, and a session that dies.                          *)

Cancels(h) == ownerTx[sync[h].tx].action \in {"pause", "revoke"}

\* cancel_pending_chain_proof_jobs selects, and the commit writes when no
\* session holds a selected row.
CancelSelect(h) ==
    /\ Busy(h)
    /\ Cancels(h)
    /\ h \notin cancelling
    /\ cancelling' = cancelling \cup {h}
    /\ doomed' = [doomed EXCEPT ![h] = Pending]
    /\ UNCHANGED <<mirrorVars, rows, events, session, history>>

OwnerSync(h) ==
    /\ SyncCommit(h)
    /\ Cancels(h) => h \in cancelling
    /\ \A f \in doomed[h] : ~Locked(f)
    /\ job' = [f \in Fact |-> IF f \in doomed[h]
                              THEN [job[f] EXCEPT !.status = "cancelled"] ELSE job[f]]
    /\ cancelling' = cancelling \ {h}
    /\ doomed' = [doomed EXCEPT ![h] = {}]
    /\ UNCHANGED <<fact, log, today, recent, events, session, history>>

OwnerSyncFails(h) ==
    /\ SyncFail(h)
    /\ cancelling' = cancelling \ {h}
    /\ doomed' = [doomed EXCEPT ![h] = {}]
    /\ UNCHANGED <<rows, events, session, history>>

Owner ==
    \/ OwnerSigns /\ UNCHANGED proofVars
    \/ \E h \in Handler : \/ \E i \in requests : SyncRead(h, i) /\ UNCHANGED proofVars
                          \/ CancelSelect(h)
                          \/ OwnerSync(h)
                          \/ OwnerSyncFails(h)

CooldownEnds ==
    /\ recent # {}
    /\ recent' = {}
    /\ UNCHANGED <<mirrorVars, fact, job, log, today, events, session, cancels, history>>

DayEnds ==
    /\ today # {}
    /\ today' = {}
    /\ UNCHANGED <<mirrorVars, fact, job, log, recent, events, session, cancels, history>>

\* The process stops or its connection drops: PostgreSQL rolls back what the
\* session had not committed; what the chain has executed stays.
Crash(s) ==
    /\ session[s].at # "idle"
    /\ crashes < MaxCrashes
    /\ session' = [session EXCEPT ![s] = Start]
    /\ crashes' = crashes + 1
    /\ tangled' = IF session[s].at = "sent" THEN tangled \cup {session[s].f} ELSE tangled
    /\ UNCHANGED <<mirrorVars, rows, events, cancels>>

Work(s) ==
    \/ Enqueue(s)
    \/ EnqueueFails(s)
    \/ Poll(s)
    \/ \E b \in session[s].batch : Claim(s, b)
    \/ Validate(s)
    \/ ValidateFails(s)
    \/ Submit(s)
    \/ SubmitFails(s)
    \/ Confirm(s)
    \/ RecordFailure(s)

ProofNext ==
    \/ \E s \in Session : \/ \E f \in Fact : CheckRequest(s, f)
                          \/ Work(s)
                          \/ Crash(s)
    \/ Owner
    \/ CooldownEnds
    \/ DayEnds

ProofSpec == ProofInit /\ [][ProofNext]_allVars

\* Every session that has work goes on with it: the poller's loop comes round
\* again, an RPC call returns or raises, a lock that was released is taken.
FairSpec == ProofSpec /\ \A s \in Session : WF_allVars(Work(s))

-----------------------------------------------------------------------------
(* Properties.                                                             *)

\* What one transaction writes to three tables stays told the same by them,
\* whatever sessions interleave or die: a completed job and a confirmed fact
\* have a confirmed log, which has an event on chain; a failed fact has a
\* failed log; no log is without a job.
RowsAgree ==
    \A f \in Fact :
        /\ job[f].status = "completed" => log[f] = "confirmed"
        /\ fact[f] = "confirmed" => log[f] = "confirmed"
        /\ fact[f] = "failed" => log[f] = "failed"
        /\ log[f] = "confirmed" => events[f] >= 1
        /\ log[f] # "none" => job[f] # NoJob

\* No job stays in the queue: it completes, is cancelled, or runs out of
\* attempts, even when a session dies with it.
QueueDrains ==
    \A f \in Fact : job[f].status = "pending" ~> job[f].status # "pending"

\* Only two sessions that held the same job, a lost reply or a session that
\* died after its submission can prove a fact twice: for every other fact the
\* chain records at most one event, and the log says what the chain did,
\* unless a session is at it.
OncePerKey ==
    \A f \in Fact \ tangled :
        /\ events[f] <= 1
        /\ Locked(f) \/ (log[f] = "confirmed" <=> events[f] = 1)

\* docs/PRD.md:646: "Duplicate proof jobs for the same proof key must resolve
\* to the existing chain execution log."
OneEventPerKey == \A f \in Fact : events[f] <= 1

=============================================================================
