----------------------------- MODULE EmailIntake -----------------------------
(***************************************************************************)
(* Inbound mail of one account (src/channels/email/email-adapter.ts): the  *)
(* poll with its high-water mark, the write-ahead of inbound.message, the  *)
(* per-thread runner with its cap, stop, crash, and replay on start.       *)
(*                                                                         *)
(* The audit log and the persisted mark survive a crash; everything else   *)
(* the adapter knows is in memory.                                         *)
(***************************************************************************)
EXTENDS Integers, Sequences, FiniteSets, SequencesExt

CONSTANTS
    Mail,           \* Nylas message ids
    Threads,
    Date,           \* [Mail -> Nat]: Unix second of each message
    Thread,         \* [Mail -> Threads]
    Skipped,        \* mail filtered on purpose, or whose conversion fails
    PageSize,       \* EMAIL_POLL_PAGE_SIZE
    MaxTurns,       \* maxConcurrentTurns
    RetryLimit,     \* WRITE_AHEAD_RETRY_LIMIT
    FaultKinds,     \* which of "outage", "poison", "persist", "ack", "mark", "replay" may happen
    MaxFaults,      \* bound: failures of those kinds
    MaxCrashes,     \* bound: process ends, by crash or after stop
    InOrder,        \* TRUE: Nylas lists mail as it is dated, second by second
    SlowPost,       \* TRUE: the channel.poll publish may outlast the polling interval
    None

ASSUME EmailAssumption ==
    /\ Date \in [Mail -> Nat] /\ Thread \in [Mail -> Threads]
    /\ {PageSize, MaxTurns, RetryLimit} \subseteq Nat \ {0}
    /\ FaultKinds \subseteq {"outage", "poison", "persist", "ack", "mark", "replay"}
    /\ MaxFaults \in Nat /\ MaxCrashes \in Nat
    /\ InOrder \in BOOLEAN /\ SlowPost \in BOOLEAN
    /\ None \notin Mail

VARIABLES
    inbox,      \* unread mail at the provider
    diskMark,   \* the persisted lastSeenTimestamp, NoMark before the first write
    log,        \* inbound.message rows of the audit log, the latest per message, in order
    acked,      \* mail whose latest row is acknowledged
    up,         \* the process is running
    running,    \* between start() and stop()
    mark,       \* lastSeenTimestamp
    staged,     \* stagedInboundIds
    failures,   \* writeAheadFailures
    replay,     \* unacknowledged rows start() has still to queue
    poll,       \* "idle" | "loop" | "staging" | "staged": `processing` and where it is
    batch,      \* fetched mail the poll has not handled yet
    cur,        \* the message being written ahead
    prev,       \* prevWatermark
    durable,    \* durableWatermark
    posting,    \* prevWatermark of each poll still in its post-poll accounting
    pending,    \* pendingByThread
    owner,      \* threadOwner; a thread is in runningThreads iff it has an owner
    slots,      \* slotWaiters, oldest first
    inFlight,   \* messages whose delivery has not settled
    fetched, givenUp, begun,    \* history: ever fetched, skipped on failure, delivered
    here,       \* history: delivered by this process
    unreplayed, \* history: unacknowledged when a start failed to query them
    dropped,    \* history: not written ahead when a start without a stored mark passed them
    clock,      \* history: the last second a start took for its mark
    faults, crashes

durables == <<inbox, diskMark, log, acked>>
pollVars == <<poll, batch, cur, prev, durable, posting>>
runner == <<pending, owner, slots, inFlight, begun, here>>
bounds == <<faults, crashes>>
missed == <<unreplayed, dropped, clock>>
vars == <<durables, up, running, mark, staged, failures, replay, pollVars, runner,
          fetched, givenUp, missed, bounds>>

\* A mark is the second of a message or the one after it.
Marks == {0} \cup {Date[m] : m \in Mail} \cup {Date[m] + 1 : m \in Mail}
NoMark == -1

\* Every variable keeps its type.
TypeOK ==
    /\ inbox \subseteq Mail /\ acked \subseteq ToSet(log) /\ ToSet(log) \subseteq Mail
    /\ diskMark \in Marks \cup {NoMark}
    /\ {mark, prev, durable, clock} \cup posting \subseteq Marks
    /\ up \in BOOLEAN /\ running \in BOOLEAN
    /\ staged \subseteq Mail /\ failures \in [Mail -> 0 .. RetryLimit - 1]
    /\ ToSet(replay) \subseteq Mail
    /\ poll \in {"idle", "loop", "staging", "staged"} /\ batch \subseteq Mail
    /\ cur \in Mail \cup {None}
    /\ \A th \in Threads : ToSet(pending[th]) \subseteq Mail
    /\ owner \in [Threads -> Mail \cup {None}]
    /\ ToSet(slots) \subseteq Threads /\ inFlight \subseteq Mail
    /\ fetched \subseteq Mail /\ givenUp \subseteq Mail /\ here \subseteq begun /\ begun \subseteq Mail
    /\ unreplayed \subseteq Mail /\ dropped \subseteq Mail
    /\ faults \in 0 .. MaxFaults /\ crashes \in 0 .. MaxCrashes

\* A first boot, or a start with the mark a process before it has stored.
Init ==
    /\ inbox = {} /\ diskMark \in {NoMark, 0} /\ log = <<>> /\ acked = {}
    /\ up = TRUE /\ running = TRUE /\ mark = 0
    /\ staged = {} /\ failures = [m \in Mail |-> 0] /\ replay = <<>>
    /\ poll = "idle" /\ batch = {} /\ cur = None
    /\ prev = 0 /\ durable = 0 /\ posting = {}
    /\ pending = [th \in Threads |-> <<>>] /\ owner = [th \in Threads |-> None]
    /\ slots = <<>> /\ inFlight = {}
    /\ fetched = {} /\ givenUp = {} /\ begun = {} /\ here = {}
    /\ unreplayed = {} /\ dropped = {} /\ clock = 0
    /\ faults = 0 /\ crashes = 0

Fault(kind) == kind \in FaultKinds /\ faults < MaxFaults /\ faults' = faults + 1

(***************************************************************************)
(* The runner.                                                             *)
(***************************************************************************)
Full == Cardinality(inFlight) >= MaxTurns

\* s has x at most once.
Without(s, x) == RemoveFirst(s, x)

\* startThread: the head of q is delivered and owns the thread.
StartThread(th, q, ws, flying) ==
    /\ pending' = [pending EXCEPT ![th] = Tail(q)]
    /\ owner' = [owner EXCEPT ![th] = Head(q)]
    /\ inFlight' = flying \cup {Head(q)}
    /\ begun' = begun \cup {Head(q)} /\ here' = here \cup {Head(q)}
    /\ slots' = Without(ws, th)

\* enqueueInbound and scheduleThread.
Enqueue(m) ==
    LET th == Thread[m]
        q == Append(pending[th], m) IN
    \/ /\ owner[th] # None
       /\ pending' = [pending EXCEPT ![th] = q]
       /\ UNCHANGED <<owner, slots, inFlight, begun, here>>
    \/ /\ owner[th] = None /\ Full
       /\ pending' = [pending EXCEPT ![th] = q]
       /\ slots' = IF th \in ToSet(slots) THEN slots ELSE Append(slots, th)
       /\ UNCHANGED <<owner, inFlight, begun, here>>
    \/ /\ owner[th] = None /\ ~Full
       /\ StartThread(th, q, slots, inFlight)

\* drainSlotWaiters, over slots ws with the deliveries flying and the owners own: threads
\* that are running or have nothing queued are dropped, and the first other one starts.
DrainSlots(ws, flying, own) ==
    LET Ready(th) == own[th] = None /\ pending[th] # <<>>
        first == SelectInSeq(ws, Ready) IN
    IF Cardinality(flying) >= MaxTurns \/ first = 0
    THEN /\ slots' = IF Cardinality(flying) >= MaxTurns THEN ws ELSE <<>>
         /\ inFlight' = flying /\ owner' = own
         /\ UNCHANGED <<pending, begun, here>>
    ELSE LET th == ws[first] IN
         /\ slots' = Without(SubSeq(ws, first + 1, Len(ws)), th)
         /\ owner' = [own EXCEPT ![th] = Head(pending[th])]
         /\ pending' = [pending EXCEPT ![th] = Tail(@)]
         /\ inFlight' = flying \cup {Head(pending[th])}
         /\ begun' = begun \cup {Head(pending[th])}
         /\ here' = here \cup {Head(pending[th])}

\* Mutant: a thread with mail left is not queued again.
MutRequeueForgets(th, ws) == ws

\* A thread with mail left goes to the back of the waiters.
Requeue(th, ws) == IF pending[th] # <<>> THEN Append(Without(ws, th), th) ELSE ws

\* releaseRunningThread once the dispatcher has settled m's intake: the next message of
\* the thread may start beside m, within the cap.
IntakeSettled(m) ==
    LET th == Thread[m] IN
    /\ m \in inFlight /\ owner[th] = m
    /\ LET own == [owner EXCEPT ![th] = None] IN
       IF running
       THEN DrainSlots(Requeue(th, slots), inFlight, own)
       ELSE owner' = own /\ UNCHANGED <<pending, slots, inFlight, begun, here>>
    /\ UNCHANGED <<durables, up, running, mark, staged, failures, replay, pollVars,
                   fetched, givenUp, missed, bounds>>

\* m's delivery settles: the bus acknowledges its row, or logs that it could not, and the
\* runner's finally frees the thread and the slot.
DeliveryEnds(m) ==
    LET th == Thread[m]
        own == [owner EXCEPT ![th] = IF @ = m THEN None ELSE @] IN
    /\ m \in inFlight
    /\ \/ acked' = acked \cup {m} /\ UNCHANGED faults
       \/ Fault("ack") /\ UNCHANGED acked
    /\ IF running
       THEN DrainSlots(Requeue(th, slots), inFlight \ {m}, own)
       ELSE owner' = own /\ inFlight' = inFlight \ {m} /\ UNCHANGED <<pending, slots, begun, here>>
    /\ UNCHANGED <<inbox, diskMark, log, up, running, mark, staged, failures, replay,
                   pollVars, fetched, givenUp, missed, crashes>>

(***************************************************************************)
(* The poll.                                                               *)
(***************************************************************************)
\* External: the provider lists a message.
Arrive(m) ==
    /\ m \notin inbox
    /\ InOrder => clock <= Date[m] /\ \A f \in fetched : Date[f] < Date[m]
    /\ inbox' = inbox \cup {m}
    /\ UNCHANGED <<diskMark, log, acked, up, running, mark, staged, failures, replay,
                   pollVars, runner, fetched, givenUp, missed, bounds>>

\* The newest page of unread mail since the mark.
Page(p) ==
    LET since == {m \in inbox : Date[m] >= mark} IN
    /\ p \subseteq since
    /\ Cardinality(p) <= PageSize
    /\ \A n \in since \ p : Cardinality(p) = PageSize /\ \A m \in p : Date[n] <= Date[m]

\* poll(): one at a time up to the end of its loop; post-poll accounting may overlap.
Fetch ==
    /\ up /\ running /\ replay = <<>> /\ poll = "idle"
    /\ ~SlowPost => posting = {}
    /\ \E p \in SUBSET inbox :
         /\ Page(p) /\ p # {}
         /\ batch' = p
         /\ fetched' = fetched \cup p
    /\ poll' = "loop" /\ prev' = mark /\ durable' = mark
    /\ UNCHANGED <<durables, up, running, mark, staged, failures, replay, cur, posting,
                   runner, givenUp, missed, bounds>>

Later(m) == IF Date[m] >= mark THEN Date[m] + 1 ELSE mark

\* Mutant: the page is handled in the order the provider lists it, newest first.
MutNewestFirst(m) == m \in batch /\ \A n \in batch : Date[n] <= Date[m]

Oldest(m) == m \in batch /\ \A n \in batch : Date[m] <= Date[n]

\* The loop's next message is already staged, or skipped on purpose.
PollSkip ==
    /\ poll = "loop" /\ running
    /\ \E m \in batch :
         /\ Oldest(m) /\ m \in staged \cup Skipped
         /\ batch' = batch \ {m}
         /\ mark' = Later(m) /\ durable' = Later(m)
    /\ UNCHANGED <<durables, up, running, staged, failures, replay, poll, cur, prev,
                   posting, runner, fetched, givenUp, missed, bounds>>

\* The mark moves in memory before stagePublish is awaited.
PollStage ==
    /\ poll = "loop" /\ running
    /\ \E m \in batch :
         /\ Oldest(m) /\ m \notin staged \cup Skipped
         /\ cur' = m /\ batch' = batch \ {m}
         /\ mark' = Later(m)
    /\ poll' = "staging"
    /\ UNCHANGED <<durables, up, running, staged, failures, replay, prev, durable, posting,
                   runner, fetched, givenUp, missed, bounds>>

\* Mutant: the message is queued and no row was written.
MutWriteNothing ==
    /\ poll = "staging" /\ poll' = "staged"
    /\ UNCHANGED <<durables, up, running, mark, staged, failures, replay, batch, cur, prev,
                   durable, posting, runner, fetched, givenUp, missed, bounds>>

\* The row is in the audit log.
WriteAhead ==
    /\ poll = "staging"
    /\ log' = Append(Without(log, cur), cur) /\ acked' = acked \ {cur}
    /\ poll' = "staged"
    /\ UNCHANGED <<inbox, diskMark, up, running, mark, staged, failures, replay, batch, cur,
                   prev, durable, posting, runner, fetched, givenUp, missed, bounds>>

\* Mutant: the id is not remembered.
MutQueueForgetsId ==
    /\ poll = "staged" /\ running
    /\ failures' = [failures EXCEPT ![cur] = 0]
    /\ cur' = None
    /\ Enqueue(cur)
    /\ durable' = mark /\ poll' = "loop"
    /\ UNCHANGED <<mark, batch, staged>>
    /\ UNCHANGED <<durables, up, running, replay, prev, posting, fetched, givenUp,
                   missed, bounds>>

\* stagePublish returns: queue the message, or leave it behind the mark when stop() has
\* landed meanwhile.
PollQueue ==
    /\ poll = "staged"
    /\ staged' = staged \cup {cur}
    /\ failures' = [failures EXCEPT ![cur] = 0]
    /\ cur' = None
    /\ \/ /\ running
          /\ Enqueue(cur)
          /\ durable' = mark /\ poll' = "loop"
          /\ UNCHANGED <<mark, batch>>
       \/ /\ ~running
          /\ mark' = durable /\ poll' = "idle" /\ batch' = {}
          /\ UNCHANGED <<durable, runner>>
    /\ UNCHANGED <<durables, up, running, replay, prev, posting, fetched, givenUp,
                   missed, bounds>>

\* Mutant: the mark is not rolled back.
MutRetryKeepsMark ==
    /\ poll = "staging"
    /\ Fault("outage")
    /\ batch' = {} /\ cur' = None /\ poll' = "idle"
    /\ posting' = IF running THEN posting \cup {prev} ELSE posting
    /\ UNCHANGED <<durables, up, running, mark, staged, failures, replay, prev, durable,
                   runner, fetched, givenUp, missed, crashes>>

\* stagePublish throws and the message will be retried: the mark is rolled back to
\* include it and the batch ends.
PollRetry ==
    /\ poll = "staging"
    /\ \/ Fault("outage") /\ UNCHANGED failures
       \/ /\ Fault("poison") /\ failures[cur] + 1 < RetryLimit
          /\ failures' = [failures EXCEPT ![cur] = @ + 1]
    /\ mark' = IF durable < Date[cur] THEN durable ELSE Date[cur]
    /\ batch' = {} /\ cur' = None
    /\ IF running THEN poll' = "idle" /\ posting' = posting \cup {prev}
                  ELSE poll' = "idle" /\ UNCHANGED posting
    /\ UNCHANGED <<durables, up, running, staged, replay, prev, durable, runner, fetched,
                   givenUp, missed, crashes>>

\* The last allowed failure: the message is skipped.
PollGiveUp ==
    /\ poll = "staging" /\ Fault("poison") /\ failures[cur] + 1 >= RetryLimit
    /\ failures' = [failures EXCEPT ![cur] = 0]
    /\ givenUp' = givenUp \cup {cur}
    /\ durable' = mark /\ cur' = None /\ poll' = "loop"
    /\ UNCHANGED <<durables, up, running, mark, staged, replay, batch, prev, posting,
                   runner, fetched, missed, crashes>>

\* The loop is done, or finds the adapter stopped with mail left.
PollEnd ==
    /\ poll = "loop"
    /\ \/ /\ batch = {} /\ UNCHANGED mark
       \/ /\ batch # {} /\ ~running
          /\ mark' = durable
    /\ poll' = "idle" /\ batch' = {}
    /\ posting' = IF running THEN posting \cup {prev} ELSE posting
    /\ UNCHANGED <<durables, up, running, staged, failures, replay, cur, prev, durable,
                   runner, fetched, givenUp, missed, bounds>>

\* channel.poll is published; the mark, as it is now, is persisted if it moved.
PersistMark ==
    /\ up
    /\ \E p \in posting :
         /\ posting' = posting \ {p}
         /\ \/ /\ diskMark' = IF mark # p THEN mark ELSE diskMark
               /\ UNCHANGED faults
            \/ /\ mark # p /\ Fault("persist") /\ UNCHANGED diskMark
    /\ UNCHANGED <<inbox, log, acked, up, running, mark, staged, failures, replay, poll,
                   batch, cur, prev, durable, runner, fetched, givenUp, missed,
                   crashes>>

(***************************************************************************)
(* Stop, crash, start.                                                     *)
(***************************************************************************)
Stop ==
    /\ up /\ running /\ crashes < MaxCrashes
    /\ running' = FALSE
    /\ pending' = [th \in Threads |-> <<>>] /\ slots' = <<>>
    /\ UNCHANGED <<durables, up, mark, staged, failures, replay, pollVars, owner, inFlight,
                   begun, here, fetched, givenUp, missed, bounds>>

\* The process ends, after stop() or without it.
Crash ==
    /\ up /\ crashes < MaxCrashes
    /\ crashes' = crashes + 1
    /\ up' = FALSE /\ running' = FALSE
    /\ mark' = 0 /\ prev' = 0 /\ durable' = 0 /\ posting' = {}
    /\ staged' = {} /\ failures' = [m \in Mail |-> 0] /\ replay' = <<>>
    /\ poll' = "idle" /\ batch' = {} /\ cur' = None
    /\ pending' = [th \in Threads |-> <<>>] /\ owner' = [th \in Threads |-> None]
    /\ slots' = <<>> /\ inFlight' = {} /\ here' = {}
    /\ UNCHANGED <<durables, begun, fetched, givenUp, missed, faults>>

\* listUnacknowledgedInbound: the rows that are not acknowledged, in the order of the log.
Unacknowledged == ToSet(log) \ acked
Precedes(m, n) == \E i, k \in DOMAIN log : i < k /\ log[i] = m /\ log[k] = n
Listing(l) ==
    /\ ToSet(l) = Unacknowledged
    /\ \A i, k \in DOMAIN l : i < k => Precedes(l[i], l[k])

\* The mark is restored.  On a first boot, or when the stored mark cannot be read or is not a
\* number, it is the time of the start, and mail before that is not fetched.
RestoreMark(unread) ==
    \/ /\ ~unread /\ diskMark # NoMark
       /\ mark' = diskMark /\ UNCHANGED <<dropped, clock>>
    \/ /\ unread \/ diskMark = NoMark
       /\ \E now \in Marks :
            /\ clock <= now /\ \A m \in inbox : Date[m] <= now
            /\ mark' = now /\ clock' = now
            /\ dropped' = dropped \cup {m \in inbox \ ToSet(log) : Date[m] < now}

\* Mutant: start() does not load the unacknowledged rows.
MutLoadNothing(failed) == UNCHANGED <<replay, unreplayed>>

\* The unacknowledged rows are loaded, unless the query fails.
LoadReplay(failed) ==
    IF failed
    THEN unreplayed' = unreplayed \cup Unacknowledged /\ UNCHANGED replay
    ELSE /\ \E l \in BoundedSeq(Unacknowledged, Len(log)) : Listing(l) /\ replay' = l
         /\ UNCHANGED unreplayed

\* start(): restore the mark, then load the unacknowledged rows, oldest first; each read may
\* fail.
Start ==
    /\ ~up
    /\ up' = TRUE /\ running' = TRUE
    /\ \E unread, failed \in BOOLEAN :
         /\ unread => "mark" \in FaultKinds
         /\ failed => "replay" \in FaultKinds
         /\ faults' = faults + (IF unread THEN 1 ELSE 0) + (IF failed THEN 1 ELSE 0)
         /\ faults' <= MaxFaults
         /\ RestoreMark(unread) /\ LoadReplay(failed)
    /\ UNCHANGED <<durables, staged, failures, pollVars, runner, fetched, givenUp, crashes>>

\* replayUnacknowledgedInbound queues the next row; it stops when the adapter does.
Replay ==
    /\ replay # <<>>
    /\ \/ /\ running
          /\ staged' = staged \cup {Head(replay)}
          /\ Enqueue(Head(replay))
          /\ replay' = Tail(replay)
       \/ ~running /\ replay' = <<>> /\ UNCHANGED <<staged, runner>>
    /\ UNCHANGED <<durables, up, running, mark, failures, pollVars, fetched, givenUp,
                   missed, bounds>>

PollStep == \/ Fetch \/ PollSkip \/ PollStage \/ WriteAhead \/ PollQueue
            \/ PollRetry \/ PollGiveUp \/ PollEnd

Next ==
    \/ \E m \in Mail : Arrive(m) \/ IntakeSettled(m) \/ DeliveryEnds(m)
    \/ PollStep \/ PersistMark \/ Stop \/ Crash \/ Start \/ Replay

\* The poll's interval fires, awaited calls return, and a stopped or crashed process is
\* started again.
Fairness ==
    /\ WF_vars(PollStep) /\ WF_vars(PersistMark) /\ WF_vars(Replay) /\ WF_vars(Start)
    /\ WF_vars(Crash /\ ~running)
    /\ \A m \in Mail : WF_vars(DeliveryEnds(m))

Spec == Init /\ [][Next]_vars /\ Fairness

(***************************************************************************)
(* Properties.                                                             *)
(***************************************************************************)
\* docs/specs/04-channels.md: the persisted mark moves only through messages skipped on
\* purpose or written ahead, so a restart that reads it fetches or replays the rest.  A start
\* that has no stored mark to read drops the mail it passes.
MarkCoversNothingNew ==
    \A m \in inbox : Date[m] < diskMark => m \in ToSet(log) \cup Skipped \cup givenUp \cup dropped

\* No lost wakeup: a thread with queued mail and no delivery of its own is waiting for a
\* slot, and every slot is taken.
NoIdleThread ==
    \A th \in Threads : running /\ pending[th] # <<>> /\ owner[th] = None =>
        th \in ToSet(slots) /\ Full

\* The cap bounds deliveries, also when intake settles early and threads change owners.
CapHolds == Cardinality(inFlight) <= MaxTurns /\ (slots # <<>> => Full)

\* Slots are used up to the cap and no further: CapHolds alone holds of an adapter that
\* delivers nothing.
SlotsWellUsed == NoIdleThread /\ CapHolds

\* In one thread mail starts oldest first, over retries, stops, crashes and replays; only
\* mail that a starting process failed to query, or passed for want of a mark, may be overtaken.
OldestFirst ==
    [][\A m \in inbox, n \in inFlight' \ inFlight :
          /\ Thread[m] = Thread[n] /\ Date[m] < Date[n]
          => m \in begun \cup Skipped \cup givenUp \cup unreplayed \cup dropped]_vars

\* One process starts a message's delivery once, however often a rolled-back mark makes
\* the poll fetch it again.
OncePerProcess == [][(inFlight' \ inFlight) \cap here = {}]_vars

\* Mail behind a mark that a start took from the clock.
Passed == {m \in dropped : Date[m] < mark}

\* Once mail stops coming, all that was listed has had its turn or was skipped, waited in the
\* log when a starting process failed to query it, or is dated before the start of a process
\* that found no mark: over outages, poison messages, failed reads and writes, stop, restart.
MailIsDelivered ==
    []<>(inbox \subseteq begun \cup Skipped \cup givenUp \cup unreplayed \cup Passed)
=============================================================================
