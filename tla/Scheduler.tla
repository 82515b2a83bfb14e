------------------------------ MODULE Scheduler ------------------------------
(***************************************************************************)
(* Scheduled jobs (src/scheduler/scheduler.ts, scheduler-service.ts): the  *)
(* polls that claim due rows of scheduled_jobs and hand them to detached   *)
(* runs, the completion of a run, the watchdog that recovers stuck rows,   *)
(* the operator's commands, and the wakes of backlog tasks.                *)
(*                                                                         *)
(* One action is one SQL statement, or one run of code between two awaits. *)
(* Time is abstract: next_run_at is due, later or never, and a run is late *)
(* once its recovery timeout has passed. A run's id stands for the         *)
(* run_started_at its claim wrote.                                         *)
(***************************************************************************)
EXTENDS Integers, Sequences, FiniteSets, SequencesExt

CONSTANTS
    Jobs,           \* rows of scheduled_jobs
    Cron,           \* rows with a cron_expr
    Wakes,          \* one-shot task-wake rows
    Anchored,       \* cron rows whose runs the drift detector checks
    Unrunnable,     \* rows whose agent is not registered or whose cron_expr is corrupt
    Polls,          \* polls that may overlap
    MaxInFlight,    \* scheduler.maxInFlight
    SuspendThreshold,
    MaxRuns,        \* bound: runs ever claimed
    MaxTicks,       \* bound: how often a row falls due again
    FaultKinds,     \* which of "claim", "publish", "response", "complete" may fail
    MaxFaults,      \* bound: failures
    MaxCrashes,     \* bound: process ends
    Commands,       \* which of "cancel", "pause", "resume", "edit", "reschedule", "finish",
                    \* "heartbeat" are given
    MaxCommands,    \* bound: commands
    None

ASSUME SchedulerAssumption ==
    /\ Cron \subseteq Jobs /\ Wakes \subseteq Jobs \ Cron
    /\ Anchored \subseteq Cron /\ Unrunnable \subseteq Jobs
    /\ {MaxInFlight, SuspendThreshold} \subseteq Nat \ {0}
    /\ {MaxRuns, MaxTicks, MaxFaults, MaxCrashes, MaxCommands} \subseteq Nat
    /\ None \notin Jobs

Runs == 1 .. MaxRuns

VARIABLES
    status, next, started, fails, deferred,  \* the row: status, next_run_at, run_started_at
                                             \* (0: NULL), consecutive_failures, and whether
                                             \* deferred_wake_at is set
    taskOpen,   \* rows whose task is neither done nor cancelled
    inFlight,   \* the counter of reserved slots
    tracked,    \* the runs in pendingJobs, in insertion order
    todo,       \* [Polls -> SUBSET Jobs]: the rows a poll has read and not yet tried
    at,         \* [Polls -> the row a poll has a slot for and is claiming]
    runJob,     \* [Runs -> the row]
    run,        \* [Runs -> where the detached publish is]
    slots,      \* runs that hold their slot
    late,       \* runs whose recovery timeout has passed
    comp,       \* [Runs -> where handleCompletion is]
    ok,         \* runs that answered without an error
    got,        \* [Runs -> consecutive_failures as completeJobRun read it]
    stuck, wdAt, wdGot,  \* the watchdog: rows selected, the one in hand, its failures as read
    resuming,   \* rows unsuspendJob has read and not yet written
    ticks, faults, crashes, commands

row == <<status, next, started, fails, deferred>>
pollVars == <<todo, at>>
runVars == <<runJob, run, slots, late, comp, ok, got>>
watch == <<stuck, wdAt, wdGot>>
bounds == <<ticks, faults, crashes, commands>>
vars == <<row, taskOpen, inFlight, tracked, pollVars, runVars, watch, resuming, bounds>>

Statuses == {"pending", "running", "completed", "failed", "suspended", "paused", "cancelled"}
Stages == {"none", "publishing", "turn", "ended", "over"}
CompStages == {"none", "checking", "asked", "settled", "read", "over"}

\* Every variable keeps its type.
TypeOK ==
    /\ status \in [Jobs -> Statuses] /\ next \in [Jobs -> {"due", "later", "never"}]
    /\ started \in [Jobs -> 0 .. MaxRuns] /\ fails \in [Jobs -> Nat]
    /\ deferred \subseteq Wakes /\ taskOpen \subseteq Jobs
    /\ inFlight \in 0 .. MaxInFlight /\ ToSet(tracked) \subseteq Runs
    /\ todo \in [Polls -> SUBSET Jobs] /\ at \in [Polls -> Jobs \cup {None}]
    /\ runJob \in [Runs -> Jobs \cup {None}] /\ run \in [Runs -> Stages]
    /\ slots \subseteq Runs /\ late \subseteq Runs /\ ok \subseteq Runs
    /\ comp \in [Runs -> CompStages] /\ got \in [Runs -> Nat]
    /\ stuck \subseteq Jobs /\ wdAt \in Jobs \cup {None} /\ wdGot \in Nat
    /\ resuming \subseteq Jobs /\ ticks \in [Jobs -> 0 .. MaxTicks]
    /\ faults \in 0 .. MaxFaults /\ crashes \in 0 .. MaxCrashes /\ commands \in 0 .. MaxCommands

\* Rows are created pending and due.
Init ==
    /\ status = [j \in Jobs |-> "pending"] /\ next = [j \in Jobs |-> "due"]
    /\ started = [j \in Jobs |-> 0] /\ fails = [j \in Jobs |-> 0]
    /\ deferred = {} /\ taskOpen = Jobs
    /\ inFlight = 0 /\ tracked = <<>>
    /\ todo = [p \in Polls |-> {}] /\ at = [p \in Polls |-> None]
    /\ runJob = [r \in Runs |-> None] /\ run = [r \in Runs |-> "none"]
    /\ slots = {} /\ late = {} /\ ok = {}
    /\ comp = [r \in Runs |-> "none"] /\ got = [r \in Runs |-> 0]
    /\ stuck = {} /\ wdAt = None /\ wdGot = 0 /\ resuming = {}
    /\ ticks = [j \in Jobs |-> 0] /\ faults = 0 /\ crashes = 0 /\ commands = 0

Fault(kind) == kind \in FaultKinds /\ faults < MaxFaults /\ faults' = faults + 1

Command(kind) == kind \in Commands /\ commands < MaxCommands /\ commands' = commands + 1

Claimable == {"pending", "failed"}

\* pendingJobs without run r, and without the first entry of row j.
Untrack(r) == RemoveFirst(tracked, r)
UntrackFirst(j) == RemoveFirstMatch(tracked, LAMBDA r : runJob[r] = j)

\* A one-shot row goes back to pending, at its deferred time if it has one.
Arm(j) ==
    /\ status' = [status EXCEPT ![j] = "pending"]
    /\ next' = IF j \in deferred THEN [next EXCEPT ![j] = "later"] ELSE next
    /\ deferred' = deferred \ {j}

\* Time: a row falls due.
Tick(j) ==
    /\ next[j] = "later" /\ ticks[j] < MaxTicks
    /\ next' = [next EXCEPT ![j] = "due"]
    /\ ticks' = [ticks EXCEPT ![j] = @ + 1]
    /\ UNCHANGED <<status, started, fails, deferred, taskOpen, inFlight, tracked, pollVars,
                   runVars, watch, resuming, faults, crashes, commands>>

(***************************************************************************)
(* The poll.                                                               *)
(***************************************************************************)
\* pollDueJobs reads as many due rows as there are free slots.
PollSelect(p) ==
    /\ todo[p] = {} /\ at[p] = None
    /\ LET due == {j \in Jobs : status[j] \in Claimable /\ next[j] = "due"}
           free == MaxInFlight - inFlight IN
       \E js \in SUBSET due :
         /\ js # {} /\ Cardinality(js) <= free
         /\ js # due => Cardinality(js) = free
         /\ todo' = [todo EXCEPT ![p] = js]
    /\ UNCHANGED <<row, taskOpen, inFlight, tracked, at, runVars, watch, resuming, bounds>>

\* Mutant: the cap is checked by the poll's read alone.
MutReserveUncapped(p) ==
    /\ at[p] = None
    /\ \E j \in todo[p] :
         /\ todo' = [todo EXCEPT ![p] = @ \ {j}]
         /\ at' = [at EXCEPT ![p] = j]
    /\ inFlight' = inFlight + 1
    /\ UNCHANGED <<row, taskOpen, tracked, runVars, watch, resuming, bounds>>

\* fireJob reserves a slot before its first await, or ends the poll at the cap.
Reserve(p) ==
    /\ at[p] = None
    /\ \/ /\ inFlight < MaxInFlight
          /\ \E j \in todo[p] :
               /\ todo' = [todo EXCEPT ![p] = @ \ {j}]
               /\ at' = [at EXCEPT ![p] = j]
          /\ inFlight' = inFlight + 1
       \/ /\ inFlight >= MaxInFlight /\ todo[p] # {}
          /\ todo' = [todo EXCEPT ![p] = {}]
          /\ UNCHANGED <<at, inFlight>>
    /\ UNCHANGED <<row, taskOpen, tracked, runVars, watch, resuming, bounds>>

\* Mutant: the claim does not re-check that the row is due.
MutClaimMatches(j) ==
    /\ status[j] \in Claimable
    /\ j \in Wakes => j \in taskOpen

\* The claim's WHERE. A cron row must still be due; a wake's task must be open.
ClaimMatches(j) ==
    /\ status[j] \in Claimable
    /\ j \in Cron => next[j] = "due"
    /\ j \in Wakes => j \in taskOpen

\* The claim's SET: a cron row also advances to its next occurrence.
ClaimRow(j, r) ==
    /\ status' = [status EXCEPT ![j] = "running"]
    /\ started' = [started EXCEPT ![j] = r]
    /\ next' = IF j \in Cron THEN [next EXCEPT ![j] = "later"] ELSE next
    /\ UNCHANGED <<fails, deferred>>

Fresh(r) == run[r] = "none" /\ \A q \in 1 .. r - 1 : run[q] # "none"

\* claimAndDispatch when the claim matches: the run is tracked before its publish starts.
Claim(p, r) ==
    LET j == at[p] IN
    /\ j \in Jobs \ Unrunnable /\ ClaimMatches(j) /\ Fresh(r)
    /\ ClaimRow(j, r)
    /\ at' = [at EXCEPT ![p] = None]
    /\ runJob' = [runJob EXCEPT ![r] = j]
    /\ run' = [run EXCEPT ![r] = "publishing"]
    /\ slots' = slots \cup {r}
    /\ tracked' = Append(tracked, r)
    /\ UNCHANGED <<taskOpen, inFlight, todo, late, comp, ok, got, watch, resuming, bounds>>

\* Mutant: the wake of a finished task is not retired.
MutSkipsOnly(p) ==
    /\ at[p] # None /\ ~ClaimMatches(at[p])
    /\ at' = [at EXCEPT ![p] = None]
    /\ inFlight' = inFlight - 1
    /\ UNCHANGED <<row, taskOpen, tracked, todo, runVars, watch, resuming, bounds>>

\* claimAndDispatch otherwise: a row nobody can run fails for good, the wake of a finished
\* task is retired, any other row is left alone. The slot is given back.
ClaimSkips(p) ==
    LET j == at[p] IN
    /\ j # None
    /\ \/ /\ j \in Unrunnable
          /\ IF status[j] \in Claimable
             THEN /\ status' = [status EXCEPT ![j] = "failed"]
                  /\ next' = [next EXCEPT ![j] = "never"]
             ELSE UNCHANGED <<status, next>>
          /\ UNCHANGED deferred
       \/ /\ j \notin Unrunnable /\ ~ClaimMatches(j)
          /\ IF j \in Wakes \ taskOpen /\ status[j] \in Claimable
             THEN /\ status' = [status EXCEPT ![j] = "cancelled"]
                  /\ deferred' = deferred \ {j}
             ELSE UNCHANGED <<status, deferred>>
          /\ UNCHANGED next
    /\ at' = [at EXCEPT ![p] = None]
    /\ inFlight' = inFlight - 1
    /\ UNCHANGED <<started, fails, taskOpen, tracked, todo, runVars, watch, resuming, bounds>>

\* The claim throws, its UPDATE applied or not; the poll's catch reverts by job id alone.
ClaimThrows(p) ==
    LET j == at[p] IN
    /\ j \in Jobs \ Unrunnable /\ Fault("claim")
    /\ at' = [at EXCEPT ![p] = None]
    /\ inFlight' = inFlight - 1
    /\ tracked' = UntrackFirst(j)
    /\ \/ /\ ClaimMatches(j)
          /\ status' = [status EXCEPT ![j] = "pending"]
          /\ next' = IF j \in Cron \/ j \in deferred THEN [next EXCEPT ![j] = "later"] ELSE next
          /\ deferred' = deferred \ {j}
       \/ status[j] = "running" /\ Arm(j)
       \/ status[j] # "running" /\ UNCHANGED <<status, next, deferred>>
    /\ UNCHANGED <<started, fails, taskOpen, todo, runVars, watch, resuming, ticks, crashes,
                   commands>>

\* The claim applied and threw, and so did the revert: a running row without a run.
ClaimLost(p, r) ==
    LET j == at[p] IN
    /\ j \in Jobs \ Unrunnable /\ ClaimMatches(j) /\ Fresh(r) /\ Fault("claim")
    /\ ClaimRow(j, r)
    /\ at' = [at EXCEPT ![p] = None]
    /\ inFlight' = inFlight - 1
    /\ tracked' = UntrackFirst(j)
    /\ runJob' = [runJob EXCEPT ![r] = j]
    /\ run' = [run EXCEPT ![r] = "over"]
    /\ UNCHANGED <<taskOpen, todo, slots, late, comp, ok, got, watch, resuming, ticks,
                   crashes, commands>>

(***************************************************************************)
(* The run.                                                                *)
(***************************************************************************)
\* Mutant: a slot released by the timeout is released again when the run settles.
MutFreeTwice(r) ==
    /\ slots' = slots \ {r}
    /\ inFlight' = inFlight - 1

FreeSlot(r) ==
    /\ slots' = slots \ {r}
    /\ inFlight' = IF r \in slots THEN inFlight - 1 ELSE inFlight

\* agent.task is written ahead and reaches the agent.
TurnStarts(r) ==
    /\ run[r] = "publishing"
    /\ run' = [run EXCEPT ![r] = "turn"]
    /\ UNCHANGED <<row, taskOpen, inFlight, tracked, pollVars, runJob, slots, late, comp, ok,
                   got, watch, resuming, bounds>>

\* publishFire rejects: revertFailedFire for this run only. The revert may fail as well,
\* which leaves a running row without a run.
PublishFails(r) ==
    LET j == runJob[r] IN
    /\ run[r] = "publishing" /\ Fault("publish")
    /\ run' = [run EXCEPT ![r] = "over"]
    /\ tracked' = Untrack(r)
    /\ \/ status[j] = "running" /\ started[j] = r /\ Arm(j)
       \/ UNCHANGED <<status, next, deferred>>
    /\ FreeSlot(r)
    /\ UNCHANGED <<started, fails, taskOpen, pollVars, runJob, late, comp, ok, got, watch,
                   resuming, ticks, crashes, commands>>

\* agent.response: handleCompletion takes the run out of pendingJobs, or ignores a run it
\* no longer tracks.
Respond(r, success) ==
    /\ run[r] = "turn"
    /\ run' = [run EXCEPT ![r] = "ended"]
    /\ tracked' = Untrack(r)
    /\ comp' = [comp EXCEPT ![r] = IF r \in ToSet(tracked) THEN "checking" ELSE "over"]
    /\ ok' = IF success /\ r \in ToSet(tracked) THEN ok \cup {r} ELSE ok
    /\ UNCHANGED <<row, taskOpen, inFlight, pollVars, runJob, slots, late, got, watch,
                   resuming, bounds>>

\* The turn ends and its agent.response is lost.
ResponseLost(r) ==
    /\ run[r] = "turn" /\ Fault("response")
    /\ run' = [run EXCEPT ![r] = "ended"]
    /\ UNCHANGED <<row, taskOpen, inFlight, tracked, pollVars, runJob, slots, late, comp, ok,
                   got, watch, resuming, ticks, crashes, commands>>

\* The detached publish settles.
Settle(r) ==
    /\ run[r] = "ended"
    /\ run' = [run EXCEPT ![r] = "over"]
    /\ FreeSlot(r)
    /\ UNCHANGED <<row, taskOpen, tracked, pollVars, runJob, late, comp, ok, got, watch,
                   resuming, bounds>>

\* The recovery timeout passes: the slot is released, the run goes on.
Timeout(r) ==
    /\ r \notin late
    /\ \/ run[r] \notin {"none", "over"}
       \/ run[r] = "over" /\ status[runJob[r]] = "running" /\ started[runJob[r]] = r
    /\ late' = late \cup {r}
    /\ FreeSlot(r)
    /\ UNCHANGED <<row, taskOpen, tracked, pollVars, runJob, run, comp, ok, got, watch,
                   resuming, bounds>>

(***************************************************************************)
(* handleCompletion.                                                       *)
(***************************************************************************)
\* The handler is over; what it knew of the run goes with it.
CompOver(r) ==
    /\ comp' = [comp EXCEPT ![r] = "over"]
    /\ ok' = ok \ {r} /\ got' = [got EXCEPT ![r] = 0]

\* The drift detector's verdict is a pause.
DriftPause(r) ==
    LET j == runJob[r] IN
    /\ comp[r] = "checking" /\ r \in ok /\ j \in Anchored
    /\ CompOver(r)
    /\ status' = [status EXCEPT ![j] = IF @ \in {"cancelled", "completed"} THEN @ ELSE "paused"]
    /\ UNCHANGED <<next, started, fails, deferred, taskOpen, inFlight, tracked, pollVars,
                   runJob, run, slots, late, watch, resuming, bounds>>

\* holdForDisposition: a wake that left its task open gets one follow-up turn, tracked for
\* the same row.
AskDisposition(r) ==
    LET j == runJob[r] IN
    /\ comp[r] = "checking" /\ r \in ok /\ j \in Wakes
    /\ j \in taskOpen /\ j \notin deferred
    /\ comp' = [comp EXCEPT ![r] = "asked"]
    /\ tracked' = Append(tracked, r)
    /\ UNCHANGED <<row, taskOpen, inFlight, pollVars, runJob, run, slots, late, ok, got, watch,
                   resuming, bounds>>

\* The follow-up turn ends, well or not.
DispositionEnds(r) ==
    /\ comp[r] = "asked"
    /\ tracked' = Untrack(r)
    /\ IF r \in ToSet(tracked)
       THEN comp' = [comp EXCEPT ![r] = "settled"] /\ UNCHANGED <<ok, got>>
       ELSE CompOver(r)
    /\ UNCHANGED <<row, taskOpen, inFlight, pollVars, runJob, run, slots, late, watch,
                   resuming, bounds>>

\* completeJobRun reads the row.
CompleteRead(r) ==
    /\ comp[r] \in {"checking", "settled"}
    /\ comp' = [comp EXCEPT ![r] = "read"]
    /\ got' = [got EXCEPT ![r] = fails[runJob[r]]]
    /\ UNCHANGED <<row, taskOpen, inFlight, tracked, pollVars, runJob, run, slots, late, ok,
                   watch, resuming, bounds>>

\* Mutant: a success completes the row whatever it was rescheduled to.
MutCompleteDrops(j, success, n) ==
    /\ status' = [status EXCEPT ![j] =
                    IF success THEN (IF j \in Cron THEN "pending" ELSE "completed")
                    ELSE IF n >= SuspendThreshold THEN "suspended" ELSE "failed"]
    /\ next' = IF success /\ j \in Cron THEN [next EXCEPT ![j] = "later"] ELSE next
    /\ fails' = [fails EXCEPT ![j] = IF success THEN 0 ELSE n]
    /\ started' = [started EXCEPT ![j] = 0]
    /\ deferred' = IF success THEN deferred \ {j} ELSE deferred

\* completeJobRun writes a success, or a failure counted from what it read.
CompleteRow(j, success, n) ==
    LET arm == j \in deferred /\ (success \/ n < SuspendThreshold) IN
    /\ status' = [status EXCEPT ![j] =
                    IF arm \/ (success /\ j \in Cron) THEN "pending"
                    ELSE IF success THEN "completed"
                    ELSE IF n >= SuspendThreshold THEN "suspended" ELSE "failed"]
    /\ next' = IF arm \/ (success /\ j \in Cron) THEN [next EXCEPT ![j] = "later"] ELSE next
    /\ fails' = [fails EXCEPT ![j] = IF success THEN 0 ELSE n]
    /\ started' = [started EXCEPT ![j] = 0]
    /\ deferred' = IF arm THEN deferred \ {j} ELSE deferred

\* The write is fenced on paused and cancelled.
CompleteWrite(r) ==
    LET j == runJob[r] IN
    /\ comp[r] = "read"
    /\ CompOver(r)
    /\ IF status[j] \notin {"paused", "cancelled"}
       THEN CompleteRow(j, r \in ok, got[r] + 1)
       ELSE UNCHANGED row
    /\ UNCHANGED <<taskOpen, inFlight, tracked, pollVars, runJob, run, slots, late, watch,
                   resuming, bounds>>

\* A query of handleCompletion throws: logged, and the row is left to the watchdog.
CompleteFails(r) ==
    /\ comp[r] \in {"checking", "settled", "read"} /\ Fault("complete")
    /\ CompOver(r)
    /\ UNCHANGED <<row, taskOpen, inFlight, tracked, pollVars, runJob, run, slots, late, watch,
                   resuming, ticks, crashes, commands>>

(***************************************************************************)
(* The watchdog.                                                           *)
(***************************************************************************)
\* Mutant: the watchdog recovers only the runs this process tracks.
MutStuckTracked(j) ==
    status[j] = "running" /\ started[j] \in late \cap ToSet(tracked)

Stuck(j) == status[j] = "running" /\ (started[j] = 0 \/ started[j] \in late)

\* recoverStuckJobs reads the stuck rows.
WatchSelect ==
    /\ stuck = {} /\ wdAt = None
    /\ stuck' = {j \in Jobs : Stuck(j)} /\ stuck' # {}
    /\ UNCHANGED <<row, taskOpen, inFlight, tracked, pollVars, runVars, wdAt, wdGot, resuming,
                   bounds>>

\* recoverStuckJob reads one of them again.
WatchRead ==
    /\ wdAt = None
    /\ \E j \in stuck : wdAt' = j /\ wdGot' = fails[j] /\ stuck' = stuck \ {j}
    /\ UNCHANGED <<row, taskOpen, inFlight, tracked, pollVars, runVars, resuming, bounds>>

\* recoverStuckJob's UPDATE, if the row is still running: back to pending or suspended, and
\* the row's tracked run is dropped.
WatchWrite ==
    LET j == wdAt
        suspend == wdGot + 1 >= SuspendThreshold
        arm == j \in deferred /\ ~suspend IN
    /\ j # None
    /\ wdAt' = None /\ wdGot' = 0
    /\ IF status[j] = "running"
       THEN /\ status' = [status EXCEPT ![j] = IF suspend THEN "suspended" ELSE "pending"]
            /\ next' = [next EXCEPT ![j] = IF arm \/ j \in Cron THEN "later" ELSE "due"]
            /\ started' = [started EXCEPT ![j] = 0]
            /\ fails' = [fails EXCEPT ![j] = wdGot + 1]
            /\ deferred' = IF arm THEN deferred \ {j} ELSE deferred
            /\ tracked' = UntrackFirst(j)
       ELSE UNCHANGED <<row, tracked>>
    /\ UNCHANGED <<taskOpen, inFlight, pollVars, runVars, stuck, resuming, bounds>>

(***************************************************************************)
(* Commands.                                                               *)
(***************************************************************************)
\* cancelJob, with the linked task.
Cancel(j) ==
    /\ Command("cancel")
    /\ status' = [status EXCEPT ![j] = "cancelled"]
    /\ taskOpen' = taskOpen \ {j}
    /\ UNCHANGED <<next, started, fails, deferred, inFlight, tracked, pollVars, runVars, watch,
                   resuming, ticks, faults, crashes>>

\* pauseJob.
Pause(j) ==
    /\ Command("pause") /\ status[j] \notin {"cancelled", "completed"}
    /\ status' = [status EXCEPT ![j] = "paused"]
    /\ UNCHANGED <<next, started, fails, deferred, taskOpen, inFlight, tracked, pollVars,
                   runVars, watch, resuming, ticks, faults, crashes>>

\* unsuspendJob reads the row ...
ResumeRead(j) ==
    /\ Command("resume") /\ status[j] \in {"suspended", "paused"}
    /\ resuming' = resuming \cup {j}
    /\ UNCHANGED <<row, taskOpen, inFlight, tracked, pollVars, runVars, watch, ticks, faults,
                   crashes>>

\* ... and writes it by id: a one-shot row at its deferred time, or at once.
ResumeWrite(j) ==
    /\ j \in resuming
    /\ resuming' = resuming \ {j}
    /\ status' = [status EXCEPT ![j] = "pending"]
    /\ fails' = [fails EXCEPT ![j] = 0]
    /\ next' = [next EXCEPT ![j] = IF j \in Cron \cup deferred THEN "later" ELSE "due"]
    /\ deferred' = deferred \ {j}
    /\ UNCHANGED <<started, taskOpen, inFlight, tracked, pollVars, runVars, watch, bounds>>

\* updateJob with a new schedule.
Edit(j) ==
    /\ Command("edit")
    /\ next' = [next EXCEPT ![j] = "later"]
    /\ UNCHANGED <<status, started, fails, deferred, taskOpen, inFlight, tracked, pollVars,
                   runVars, watch, resuming, ticks, faults, crashes>>

\* updateTask with wake_at: a pending wake moves, a running one keeps the time for its
\* completion, a terminal one is revived. For a paused row it would insert a second one.
Reschedule(j) ==
    /\ Command("reschedule") /\ j \in Wakes \cap taskOpen /\ status[j] # "paused"
    /\ IF status[j] = "running"
       THEN /\ deferred' = deferred \cup {j}
            /\ UNCHANGED <<status, next, started, fails>>
       ELSE /\ status' = [status EXCEPT ![j] = "pending"]
            /\ next' = [next EXCEPT ![j] = "later"]
            /\ started' = IF status[j] = "pending" THEN started
                          ELSE [started EXCEPT ![j] = 0]
            /\ fails' = IF status[j] \in {"completed", "cancelled"}
                        THEN [fails EXCEPT ![j] = 0] ELSE fails
            /\ deferred' = deferred \ {j}
    /\ UNCHANGED <<taskOpen, inFlight, tracked, pollVars, runVars, watch, resuming, ticks,
                   faults, crashes>>

\* completeTask, or updateTask to a terminal status: the task's wake is cancelled, unless it
\* is running or failed.
FinishTask(j) ==
    /\ Command("finish") /\ j \in Wakes \cap taskOpen
    /\ taskOpen' = taskOpen \ {j}
    /\ status' = [status EXCEPT ![j] = IF @ \in {"pending", "suspended", "paused"}
                                       THEN "cancelled" ELSE @]
    /\ deferred' = IF status[j] \in {"pending", "running", "suspended", "paused"}
                   THEN deferred \ {j} ELSE deferred
    /\ UNCHANGED <<next, started, fails, inFlight, tracked, pollVars, runVars, watch, resuming,
                   ticks, faults, crashes>>

\* enqueueTaskWake: the idle task's terminal wake is revived and due.
EnqueueTaskWake(j) ==
    /\ Command("heartbeat") /\ j \in Wakes \cap taskOpen
    /\ status[j] \in {"completed", "failed", "suspended", "cancelled"}
    /\ status' = [status EXCEPT ![j] = "pending"]
    /\ next' = [next EXCEPT ![j] = "due"]
    /\ started' = [started EXCEPT ![j] = 0]
    /\ fails' = [fails EXCEPT ![j] = IF status[j] \in {"failed", "suspended"} THEN @ ELSE 0]
    /\ UNCHANGED <<deferred, taskOpen, inFlight, tracked, pollVars, runVars, watch, resuming,
                   ticks, faults, crashes>>

\* The process ends and starts again: the rows stay, everything in memory is gone.
Restart ==
    /\ crashes < MaxCrashes
    /\ crashes' = crashes + 1
    /\ inFlight' = 0 /\ tracked' = <<>>
    /\ todo' = [p \in Polls |-> {}] /\ at' = [p \in Polls |-> None]
    /\ run' = [r \in Runs |-> IF run[r] = "none" THEN "none" ELSE "over"]
    /\ comp' = [r \in Runs |-> IF run[r] = "none" THEN "none" ELSE "over"]
    /\ slots' = {} /\ ok' = {} /\ got' = [r \in Runs |-> 0]
    /\ stuck' = {} /\ wdAt' = None /\ wdGot' = 0 /\ resuming' = {}
    /\ UNCHANGED <<row, taskOpen, runJob, late, ticks, faults, commands>>

Run(r) == \/ TurnStarts(r) \/ PublishFails(r) \/ Respond(r, TRUE) \/ Respond(r, FALSE)
          \/ ResponseLost(r) \/ Settle(r)

Complete(r) == \/ DriftPause(r) \/ AskDisposition(r) \/ DispositionEnds(r)
               \/ CompleteRead(r) \/ CompleteWrite(r) \/ CompleteFails(r)

Fire(p) == \/ Reserve(p) \/ ClaimSkips(p) \/ ClaimThrows(p)
           \/ \E r \in Runs : Claim(p, r) \/ ClaimLost(p, r)

Watch == WatchSelect \/ WatchRead \/ WatchWrite

Operate(j) == \/ Cancel(j) \/ Pause(j) \/ ResumeRead(j) \/ ResumeWrite(j) \/ Edit(j)
              \/ Reschedule(j) \/ FinishTask(j) \/ EnqueueTaskWake(j)

Next ==
    \/ \E j \in Jobs : Tick(j) \/ Operate(j)
    \/ \E p \in Polls : PollSelect(p) \/ Fire(p)
    \/ \E r \in Runs : Run(r) \/ Timeout(r) \/ Complete(r)
    \/ Watch \/ Restart

\* Polls and the watchdog recur, timers fire, and database calls return. A turn may hang.
Fairness ==
    /\ \A p \in Polls : WF_vars(PollSelect(p)) /\ WF_vars(Fire(p))
    /\ \A j \in Jobs : WF_vars(Tick(j))
    /\ \A r \in Runs : WF_vars(Timeout(r)) /\ WF_vars(CompleteRead(r) \/ CompleteWrite(r))
    /\ WF_vars(WatchSelect) /\ WF_vars(WatchRead) /\ WF_vars(WatchWrite)

Spec == Init /\ [][Next]_vars /\ Fairness

(***************************************************************************)
(* Properties.                                                             *)
(***************************************************************************)
RunsOf(j) == {r \in Runs : runJob[r] = j}
Live(r) == run[r] \in {"publishing", "turn"}

\* The two daily digests of #1159: a recurring job runs at most once for every time it
\* falls due, over overlapping polls, reverts, recoveries, edits and restarts.
OncePerOccurrence == \A j \in Cron : Cardinality(RunsOf(j)) <= 1 + ticks[j]

\* The in-flight counter counts the polls in a claim and the runs that hold a slot, although
\* a run gives its slot back from either its settling or its timeout.
SlotsAccounted ==
    inFlight = Cardinality(slots) + Cardinality({p \in Polls : at[p] # None})

\* #1938: a time the wake's own run asked for is armed, whichever of completion, revert,
\* recovery and resume ends that run; only the end of the task drops it.
DeferralArmed ==
    [][\A j \in deferred \ deferred' :
          \/ status'[j] = "pending" /\ next'[j] = "later"
          \/ j \notin taskOpen']_vars

\* A row does not stay running: not after a lost response, a failed write or a restart.
RunningEnds == \A j \in Jobs : status[j] = "running" ~> status[j] # "running"

\* #2378: the wake of a finished task stops being claimable, although finishing the task
\* leaves a failed or running wake as it is.
FinishedWakeRetires ==
    \A j \in Wakes : j \notin taskOpen ~> status[j] \notin Claimable
=============================================================================
