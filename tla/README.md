# Curia in TLA+

A verification project for Curia, an assistant that receives messages on several channels,
runs agent turns on them and on scheduled work, and asks a human principal before it acts
beyond its mandate. Everything runs in one Node.js process over one PostgreSQL database, so
the hard behaviour is not parallelism but what happens between two `await`s, between two SQL
statements, and across a crash.

Paths below are relative to the repository root (`src/`, `docs/`).

## 1. The system and its parts

| Part | State it keeps | Operations | Hard behaviour | What makes it correct |
|---|---|---|---|---|
| Turn lanes, `src/dispatch/turn-lanes.ts` | per conversation: holder, phase, accepted count, queue, pending follow-ups, waiters, input signal; parked follow-ups of all conversations | reserve, acquire, tryInject, takeQueued, confirmDrained, closeIfIdle, release, flushRetained, cancelReservation, wait timer | three callers interleave at awaits; failures between store, audit and confirm; timeout while the holder runs | one working turn per conversation; every follow-up answered once |
| Dispatcher, `src/dispatch/dispatcher.ts` | task routing, relay contexts | routeInbound, handleAgentResponse, handleOutboundBlocked | publishes inside the delivery of another event | nothing waits on itself; intake always settles |
| Agent runtime, `src/agents/runtime.ts` | the turn | handleTask, processTask, drainInjected, publishAgentResponse | error paths at every await | release before respond; the reply is stored before the release |
| Email intake, `src/channels/email/email-adapter.ts` | high-water mark (memory and disk), staged ids, failure counts, per-thread queues, slots | start, poll, stop, replay, thread runner | crash, stop during a poll, retries, overlapping polls, a capped runner | no mail lost, none started twice in a process, oldest first in a thread |
| Event bus, `src/bus/bus.ts` | subscribers, hooks | publish, stagePublish, publishDetached, deliverPersisted | write-ahead before delivery; swallowed handler errors | an event is in the audit log before any handler sees it |
| Audit log, `src/audit/` | rows, acknowledgements, hash chain | append, acknowledge, replay scans, verify | restart between append and acknowledge | unacknowledged rows are replayed; the chain has no gap |
| Scheduler, `src/scheduler/` | `scheduled_jobs` rows; in-flight counter, tracked runs | poll, claim, publish, completion, disposition turn, watchdog, commands | overlapping polls, late responses, recovery racing completion, restart | one run per occurrence; no row stuck; a rescheduled time is not lost |
| Task wakes, `src/db/task-repo.ts`, `src/scheduler/backlog-heartbeat.ts` | tasks and their wake row | updateTask, completeTask, heartbeat tick | a running wake reschedules its own row | wakes of finished tasks stop |
| Approvals, `src/autonomy/` | action log rows, notification claims | request, approve, deny, expire, deliver | two decisions racing, delivery retries, expiry | one decision, executed once |
| Late delegation, `src/agents/late-delegation*.ts` | waits, parked answers | delegate, time out, deliver late, sweep | an answer racing its timeout | an answer is delivered exactly once |
| Resumable tasks and plans, `src/agents/resumable-*.ts`, `plan-*.ts` | task blocks, circuit state | continue, break, replan | continuation racing completion | no two slices of one task at once |
| Bullpen, `src/memory/bullpen.ts`, `src/dispatch/bullpen-dispatcher.ts` | threads, read watermarks | post, wake, close | a post between a read and its stamp | no post is left unread |
| Outbound gateway and queue, `src/skills/` | queued sends | claim, send, retry, expire | crash between send and mark | no send lost; duplicates bounded |
| Rate limiter, reply lock, secrets, verifications, contacts, knowledge graph | windows, locks, grants, rows | | expiry, merge | see the plan |
| Other channels, voice, models, startup, dashboards, browser | | | outside services, audio, text | not planned |

How they interact: a channel adapter writes `inbound.message` ahead and delivers it on the
bus; the dispatcher either injects it into the turn that holds the conversation's lane or
publishes `agent.task`; the runtime's subscriber acquires the lane, runs the turn and
publishes `agent.response`; the dispatcher's subscriber sends the reply, and a blocked reply
becomes a new `agent.task` *inside* that delivery. `bus.publish` returns when all subscribers
have, so callers wait on callees through the bus. The scheduler publishes `agent.task` from a
detached promise and hears of the end through `agent.response`. The email adapter asks the
lanes when the dispatcher has decided a message (`intakeSettled`), to let the thread's next
message in.

## 2. Modules

| Module | Models | Kind |
|---|---|---|
| `TurnLanes` | turn lanes with the dispatcher's and the runtime's side of the protocol | specification |
| `SerialTurns` | what the lanes promise a conversation, without lanes, queues or timers | abstract specification; `TurnLanes` implements it |
| `TurnLanesProofs` | theorems of `TurnLanes`, the refinement among them | proofs |
| `EmailIntake` | the email adapter's intake, with the bus's write-ahead and the audit log's rows | specification |
| `Scheduler` | polls, runs, completions, watchdog, commands, task wakes | specification |
| `Approvals` | a pending approval from filing to its end, with the card request behind it | specification |
| `OutboundQueue` | a channel's durable queue and its flushes | specification |
| `LateDelegation` | the handle of a delegation that timed out, until its result is handed over | specification |
| `Bullpen` | a thread between agents and one reader's two watermarks | specification |
| `TurnLanesFollowUps` | theorems of `TurnLanes` about follow-ups, on top of `TurnLanesProofs` | proofs |
| `EmailIntakeProofs`, `SchedulerProofs`, `ApprovalsProofs`, `OutboundQueueProofs`, `LateDelegationProofs`, `BullpenProofs` | theorems of the specification of that name | proofs |
| `MCTurnLanes`, `MCEmailIntake`, `MCScheduler`, `MCApprovals`, `MCOutboundQueue`, `MCLateDelegation`, `MCBullpen` | instances | TLC |

In all of them an action is one stretch of code between two awaits, or one SQL statement.
Definitions named `Mut...` are plausible bugs of the definition that follows them; no
specification uses them. PROJECT.json maps every other definition to its lines.

### TurnLanes

State: the `Lane` record per conversation as functions (`holder`, `phase`, `accepted`,
`queue`, `pending`, `aborted`, `waiters`), the ticket of each follow-up, the parked list
(`retained`), working memory's user rows (`rows`) and replies (`replied`), what each turn
read (`seen`), and `pc`, the place of each task's handler. A task created for an inbound has
the inbound's id. Three kinds of task share a lane: inbound messages, which are reserved by
the dispatcher before the runtime acquires; synthetic wakes, which are only acquired; and
content-block rewrites, which are published inside their host's `agent.response`, so the host
cannot end before they do (`Finally`).

`Join`, `GrantNext`, `Release`, `FailOpen` are the lane's methods of those names. `Inject`,
`RouteOwnTask`, `RouteReturned`, `PublishTask`, `PublishTaskFails` are `routeInbound`;
`TakeQueued`, `StoreFollowUp`, `AuditFollowUp` and their failures are `drainInjected`;
`Finish`/`StopEarly` the two ways out of the tool loop; `PersistReply`, `Respond`, `Finally`,
`FlushAudit` the end of the turn.

Abstractions: lanes are enabled and the agent has memory, as the coordinator does; a message
is its id, contact, and whether it is clean; `acquireRequested` is `pc = "acquiring"`; a
failed `addTurn` is taken as not applied; the publish of a rewrite does not fail; an inbound
id is tried once, so `tryInject`'s answer for an id it knows is left out. A crash empties all
of this state, and what it means for a message is EmailIntake's subject.

`SerialTurns` is ADR-053 as a specification of its own: a task waits, works and is over; it
begins when no other turn of its conversation works, or was let through; it reads the replies
given so far, and leaves its own before it is over. The mapping (`TurnMap`) sends a task's
`pc` to one of the three stages, `through` to `timedOut`, `history` to `replied` and `read` to
`seen`; injection, parking, flushing and tickets are stutters.

### EmailIntake

State: what survives a crash (`inbox` at the provider, `diskMark`, `log`, `acked`) and what
does not (mark, staged ids, failure counts, the poll in progress, the runner). Actions follow
the poll: `Fetch`, `PollSkip`, `PollStage`, `WriteAhead`, `PollQueue`, `PollRetry`,
`PollGiveUp`, `PollEnd`, `PersistMark`; the runner: `IntakeSettled`, `DeliveryEnds`; and the
process: `Stop`, `Crash`, `Start`, `Replay`. `DrainSlots` starts one thread: the call frees
at most one slot, and the loop in the code goes round again only when a slot is still free
(that one start leaves no waiter beside a free slot is part of what `DrainKeeps` in
`EmailIntakeProofs` proves). `Listing` is the replay query: the rows that are not acknowledged,
each once, in the order of the log.

`Start` reads twice, and each read may fail. `RestoreMark` takes the stored mark or, on a first
boot, on a failed read, or on a value that is not a number, the clock's second; what is unread,
not in the log and older than that is then `dropped` (history), and `clock` keeps the second for
`InOrder`, so that mail does not arrive dated before a start that has happened. `LoadReplay`
queries the unacknowledged rows; what a failed query leaves out is `unreplayed`. `Init` covers a
first boot and a process that finds a mark; the mark of the very first process is second 0, before
all mail.

The provider is external: `Arrive` lists a message and `Page` is the newest page since the
mark. `InOrder` states the assumption that mail is listed in date order, second by second;
`SlowPost` lets the `channel.poll` publish outlast the polling interval. Not modelled: the
24-hour and 500-row limits of the replay, the eviction of old staged ids, an adapter without a
`configStore` (every start of it is a start without a mark), the health watchdog, and sending.

### Scheduler

State: the columns of a `scheduled_jobs` row the control depends on, the in-memory counter
and `pendingJobs`, each poll's place, each run's place (`run` for the detached publish,
`comp` for `handleCompletion`), the watchdog's and the resume's read-then-write. Time is
abstract: `next_run_at` is due, later or never; a run is `late` once its recovery timeout has
passed. A run's number stands for the `run_started_at` its claim wrote.

Statements are separate actions wherever the code reads and then writes: `PollSelect` /
`Claim`, `CompleteRead` / `CompleteWrite`, `WatchSelect` / `WatchRead` / `WatchWrite`,
`ResumeRead` / `ResumeWrite`. Commands are `Cancel`, `Pause`, `Edit`, `Reschedule`,
`FinishTask`, `EnqueueTaskWake`. Not modelled: creation and declarative loading of jobs,
delegation-retry wakes (their claim is exempt from the finished-task check), the
`cron_expr`/`timezone` text guard of the claim, burst counters, summaries and run contexts,
the needs-disposition tag, notifications, and the second row `updateTask` inserts beside a
paused wake.

### Approvals

State: the action-log row (`outcome`, `age`, `sentAt` with the number of its claim, `bound`), the
card request behind it (`card`, `ref`), a call of `deliver` by the agent's turn and one by the
safety net (`dlv`), the sweep (`swp`), and each decision in hand (`dec`). What the principal got
to see (`shown`, `queued`, `pings`) and what was done (`runs`, `cont`) is kept for the properties.
`Look`, `Claim`, `Send`, `Release` are `deliverPendingApproval` and its claim; a send may fail, or
end in the queue, although the provider had accepted it (`SendFails`, `SendQueued`), and `ghosts`
counts those. `Receive` is the arrival of an answer at its adapter, which is the time the code
stamps and compares; when it was written is not in the model because it is not in the code; the
sweep expires, reconciles card requests and runs the net; a decision reads the row, resolves it by
compare-and-set and only then replays. Time has three values per row (live, edge, past) because
two thirty-minute rules meet at the edge. Batches, digests, the wording of messages, and e-mail
and web answers are left out.

### OutboundQueue

One channel: all tables and sets of this part are keyed by channel. State: the transport (`ready`,
`events`, `timer`), the flush in flight, each call of `send` on its way through the advisory lock,
the count, the INSERT and the COMMIT, and the table (`rows`, `order`, `expired`). `order` is the
order of `enqueued_at`, which is the start of the transaction and not its end; `List` gives the
rows in it (`ORDER BY enqueued_at`). `wire` counts what the provider accepted. The policy pipeline
before the queue decides text and is left out, as is the 24-hour clock behind `expired`.

### LateDelegation

State: the delegate call, the specialist's answer in the audit log, the handle's row with its
claim token and lease, the review task (`review`, `waits`, `tagged`), the wake events and the
audited outcomes. `Resolvers` are the live subscriber, one call per delegation, and the sweep;
each walks `Classify`, `Claim`, `Mark`, `Name`, `Publish`, `Deliver`, `TurnEnds`, `Renew`,
`Check`, `Record`, `AuditOutcome`, `Finalize`, or backs out through `Unmark` and `Release`. All
delegations are of one specialist from one conversation, which is the case in which a handle
blocks another call. `Return` may fail in both of its statements and leave the row running. A
woken turn may last for ever: `TurnEnds` has no fairness, `Lapse` takes the lease from under it,
and as long as the sweep is the one that waits, no tick runs. `torn` marks three handles: one
whose holder outlived its lease in the bookkeeping after the turn, one whose holder did not find
the audited outcome, and one whose wake is logged and was not handed over. Two properties leave
those out, and section 4 says what happens to them; crashes and lost answers everywhere else are
in.

### Bullpen

One thread and one of its participants, the reader. State: where each post is between its checks
and its transaction, `createdAt`, the thread's row, the announcement of each message, the reader's
row of `bullpen_thread_reads`, and the reader's turn: the snapshot of the thread it was woken for,
the ambient block of its latest round, what it was shown, whether it acted. `Pick` and `Read` are
the two queries of `getPendingThreadsForAgent`; `Stamp` is the choice of
`selectThreadsToWatermark` and the write it leads to. `touched` is what a turn had been shown when
it last acted on the thread; the code keeps only that it acted, and stamps all the turn was shown.
`looks`, `handled`, `trailing`, `slipped` and `passed` are history: `handled` was shown in a woken
turn or to a turn before it acted, `trailing` to a turn only after it had acted. A message slips
in when it is stored behind a newer one (its `createdAt` is taken before its transaction), between
the two queries, or under a woken turn whose snapshot failed (that turn stamps the live thread);
the safety properties are about the others. `passed` holds the messages `last_message_at` has gone
back behind: two posts that commit in the other order of their `createdAt` leave it at the older
one, and `already_injected`, which compares it with the watermark, is then wrong about the newer;
`SecondLook` leaves those out by name, and the `trailing` ones. Not modelled: the five slots of
the block, the window, the fifteen messages of an excerpt, the deduplication of threads by source
message, and ties within a millisecond.

## 3. Runs

All runs disable deadlock checking: each system is quiet when no message, mail or job is left.

| Run | Shows | Bounds |
|---|---|---|
| `lanes_inject` | `TypeOK`, `OpenTicketOwned`, `FollowUpStored`, `LaneRecordExact` | three messages of one contact and a wake of another on one conversation, one injection per hold, two failures: enough for a hold with more follow-ups than the cap, for store-then-audit-failure, park, flush failure, second flush, and a flush by a stranger's task. One conversation: lanes share nothing but the parked list, which any task flushes |
| `lanes_turns` | `NoWaitOnParent`, `NoBlindTurns`, `OneTurnPerConversation`, `TurnsAreSerial`, `EveryInboundHandled` | two messages and a rewrite, two failures; either message may be the rewrite's host, and any waiter may time out |
| `email_intake` | `TypeOK`, `MarkCoversNothingNew`, `SlotsWellUsed`, `OncePerProcess`, `MailIsDelivered`, `OldestFirst` | four messages on two threads, one skipped on purpose, two of one second on different threads; one slot, which two threads compete for; two failures of any kind, a first boot or a stored mark, a stop and a process end: enough for a start that finds no mark beside mail that waits |
| `scheduler_cron` | `TypeOK`, `OncePerOccurrence`, `SlotsAccounted` | one recurring job, two polls, two slots, three runs, one failure, two commands, one restart |
| `scheduler_wake` | `DeferralArmed`, `RunningEnds`, `FinishedWakeRetires` | a wake and a job nobody can run, two slots, two runs, one failure, one command of the task's owner, a restart |
| `approvals` | `TypeOK`, `AtMostOnce`, `AnswerFollowsClaim`, `EveryApprovalIsSent`, `ExpiredCardSettles` | one approval, of a card or of another action, a turn and a reaction that decide it, two answers of the principal, a channel that queues, one fault, which may be a send that fails after it was accepted |
| `outbound_queue` | `TypeOK`, `CapHolds`, `SentOnce`, `AnswersAreKept`, `FlushInOrder` | three sends, a queue of two, two reconnects, one expired row, one fault: enough for a cap reached by overlapping enqueues and for a flush stopped in its middle |
| `late_delegation` | `TypeOK`, `OneWake`, `OneOutcome`, `ClosedForAReason`, `EveryHandleCloses` | one delegation, the subscriber and the sweep, two faults: a claim lost and taken again, and the second holder failing too; the woken turn may never end |
| `bullpen` | `TypeOK`, `SeenWasShown`, `SecondLook`, `MentionIsShownAgain` | two mentions and a reply, one turn of the reader at a time, any number of rounds and turns, one fault |
| `outbound_stranded` | `NoStrandedRow` violated | no fault, one reconnect |
| `late_delegation_lost` | `ResolvedMeansWoken` violated | one crash |
| `bullpen_second_look` | `EveryMentionHasSecondLook` violated | no fault |

The safety properties of `Bullpen` were also run with two concurrent turns of the reader over
two mentions (4.2 million states): the watermarks only grow (`GREATEST`), so two turns that
stamp one row do not undo each other. Four messages with one of them closing the thread were
run as well (6.6 million states).

`SuspendThreshold` is 2 in the runs and 3 in the code: with 2 a job is suspended within the
runs a model can afford, and nothing else depends on the number. `WRITE_AHEAD_RETRY_LIMIT` is
2 for 3 likewise. Polls are symmetric in `scheduler_cron`, the
messages in `lanes_inject` (one contact, one conversation, all clean), the sends in
`outbound_queue`; no liveness run uses symmetry.

Some properties are conjunctions of two or three named parts that say one thing from two
sides (`FollowUpStored`, `SlotsWellUsed`, `AnswersAreKept`): each part alone holds of a program
that does nothing, or of one that does everything.

Every property of a passing run has a mutant in PROJECT.json, a change of one definition that
breaks it.

### Fairness

- TurnLanes: handlers run on to their next await, the wait timer fires, and calls return,
  except in the tasks of `Hung`. Nothing makes a message arrive. The JavaScript event loop
  justifies the first, `setTimeout` the second; the third is what `Hung` is there to deny.
- EmailIntake: the interval fires, awaited calls return, deliveries end, a stopped process
  ends and an ended one is started (the deployment restarts it). Crashes are not forced. Nothing
  makes a delivery's intake settle early.
- Scheduler: polls and the watchdog recur (`setInterval`), timers fire, database calls
  return, time passes. No fairness on a run: a turn may hang for ever, and `RunningEnds`
  still holds.
- Approvals: the sweep recurs and the calls of a delivery return. Nobody has to answer.
- OutboundQueue: none; its properties are safety.
- LateDelegation: calls return, a lease and a handle run out, the subscriber handles an
  answer, and the sweep comes back to an open handle again and again while it is idle (its
  interval; `SF`, because a row is listed and not listed as leases come and go). Nothing makes a
  specialist answer, and nothing makes a woken turn end: the code has no cap on it. The subscriber's
  handle closes all the same, because its lease lapses and the sweep takes it. A turn that the
  sweep itself woke holds the sweep, so `EveryHandleCloses` says in its statement what it needs:
  the sweep is again and again not in such a turn.
- Bullpen: calls return, a turn that goes on ends (`SF` on `End`: the model may ask for rounds
  only finitely often, which the turn budget guarantees), the reader keeps having other turns,
  and now and then the block fits the budget. Nobody has to post, and no announcement has to
  arrive.

## 4. What the code does not keep

| Run | Finding |
|---|---|
| `outbound_stranded` | A send that found the transport down writes its row after the reconnect's flush has listed the queue. No timer is armed on this path: the row waits for the next reconnect. |
| `late_delegation_lost` | The review task is tagged before the wake goes out. A reply of another turn closes it, the process ends, and the retry takes the closed task for a human's decision: the result is dropped. |
| `bullpen_second_look` | `already_injected` and the messages come from two queries. A mention stored in between is shown under a mark that is about older messages, and is retired the first time it is left untouched. |

More gaps are behaviours of the models that no run is spent on; the bounds of the passing
runs are set so that they do not occur, or the properties leave them out by name:

- turn lanes: an injected follow-up waits for its ticket without a timeout, so a hung holder
  keeps it (`Hung` non-empty violates `EveryInboundHandled`); ADR-053 says a hang cannot
  swallow a message. A follow-up whose audit failed is parked until some later task ends
  (turn-lanes.ts:510): `EveryInboundHandled` counts it as decided, and on a quiet system its
  handler waits. A row whose `addTurn` committed and yet rejected is stored twice;
- email intake: a start that has no readable mark (a first boot, a failed read of the
  configuration, a value that is not a number) takes the time for it, and unread mail that is
  older and was not written ahead is never fetched (email-adapter.ts:495-531). The log message
  there says that messages may be dropped, the comment above it (498-499) that they may be
  re-fetched; the code drops them. `MarkCoversNothingNew`, `MailIsDelivered` and `OldestFirst`
  leave that mail out by name (`dropped`). A process that ends before its first persist leaves no
  mark, and the next start is such a start. The poll reads one page, newest first, and older
  unread mail beyond it falls below the mark (`PageSize` below the unread mail violates
  `MarkCoversNothingNew`); a `channel.poll` publish slower than the interval persists the next
  poll's mark (`SlowPost`); after a restart from a mark that was not persisted, acknowledged mail
  is delivered again; mail listed late with an old date is never fetched; the bus acknowledges an
  inbound whose `agent.task` could not be published;
- scheduler: a completion past its `pendingJobs` lookup completes the row the watchdog has
  just reset; resume overwrites a cancel that lands between its two statements; the heartbeat
  revives a suspended wake without a resume; the claim of a one-shot row does not re-check
  `next_run_at`; two failures counted from one SELECT are one failure;
- approvals: the gateway answers failure, or re-queues, also when the provider has accepted the
  message and only its answer was lost (outbound-gateway.ts:4617-4629, 4691-4699). The claim is
  then released (approval-delivery.ts:150-155) and the request goes out again: `AtMostOnce` allows
  one more message per such send and no other. A message written before the claim and received
  after it approves the card, because the time that is compared is the one of arrival
  (dispatcher.ts:1053-1056, signal-adapter.ts:283), while approve-action/handler.ts:87 and the
  refusal text at card-use-service.ts:86-88 speak of a message "sent before". For a channel that
  queues, a claim counts as delivery, so the request need not even have left; a process that ends
  between approval and replay leaves an approved row that never runs; a row is not compared with
  its expiry when it is resolved;
- outbound queue: a permanent failure at the head stops every flush until the row expires; a
  direct send does not look at the queue and overtakes it;
- late delegation: a wake whose insert committed but whose answer was lost, or whose process ended
  before it was delivered, is taken for delivered. A woken turn has no cap
  (late-delegation.ts:171-180), and the comment before it (158-161) says that the sweep recovers
  such a handle. It does when the subscriber waits for the turn; when the sweep does, it awaits
  the publish inside its tick, and no later tick runs before a restart
  (late-delegation-sweep.ts:74-90, 119-137), for this handle or any other. A holder that outlives
  its lease in the bookkeeping, or cannot find out whether the outcome was audited, may audit it
  twice. When both statements of a return fail, the row stays running and the sweep may deliver
  the answer a second time, to a caller that had it (pending-delegations.ts:441-446); a sweep that
  finds no answer abandons the row although the answer has arrived since;
- bullpen: a turn that acted on the thread stamps all it was shown, also what a later round of it
  was shown after the act and nobody acted on (bullpen.ts:923; the touches are gathered over the
  whole turn). Such a mention is retired at its first showing, which ADR-043:37 denies of
  mentions; `SecondLook` and `MentionIsShownAgain` leave it out by name (`trailing`). A message
  whose `createdAt` is older than one already stored and shown is behind the watermark from the
  start and is never shown in the pending tier.

## 5. Proofs

`TurnLanesProofs` proves, for every set of conversations and tasks, every cap and every
number of failures:

- `Typing`: `Spec => []TypeOK`;
- `LaneInvariant`: `Spec => []LaneInv`;
- `LaneExclusion`: `Spec => []OneTurnPerConversation`;
- `NoTurnIsBlind`: `Spec => []NoBlindTurns`;
- `LanesSerialise`: `Spec => TurnsAreSerial`, the lanes implement `SerialTurns`.

The assumptions are `LaneAssumption`: the three kinds of task are disjoint, every task has a
conversation and a contact, the cap is positive, and `None` is not a task.

Neither turn property is inductive. `OneTurnPerConversation` follows from `WorkingHolds`: a
task that works and was not let through by the timeout is the lane's holder, and a lane has
one holder. `NoBlindTurns` speaks of replies already given, so a step that stores a reply
needs to know that the turn has read all earlier ones: `HistoryCurrent`. That in turn holds
because a reply is stored before its lane is released, so no other turn of the conversation
was working when it was stored (`WorkingHolds`), and because a task whose reply is stored
never works again (`RepliedIsOver`). `DrainingHasWork` is needed for typing: `drainInjected`
takes the head of its inputs. `LaneInv` is the conjunction; TLC checked it as an invariant of
`lanes_turns` before it was proved. The proof is one lemma per part and per group of actions;
the lane's methods have lemmas of their own, which say what `Join`, `GrantNext` and `Release`
do to the holder.

`LanesSerialise` maps every step to a step of `SerialTurns` or a stutter under `LaneInv`: a
step into `Working` finds the conversation free because the lane's holder is the task itself
and every other worker that was not let through would have to hold the lane too
(`WorkingHolds`); a reply is new because its task works and no task in `replied` does
(`RepliedIsOver`).

`TurnLanesFollowUps` adds three layers to it, each an invariant on top of the one before.
`HoldInv` says who holds a lane and who waits for it; `FollowInv` where a follow-up is while
somebody waits for its ticket; `CapInv` how many a hold has taken.

The other proof modules prove safety of their component, again for every set of rows, polls,
sends, mail, deliveries, messages or resolvers and every bound on failures. Each rests on its
component's named assumption and on an invariant that says who owns what while a call is on
its way:

| Theorem | States | Inductive invariant |
|---|---|---|
| `TurnLanesFollowUps!RewriteNeverBlocksItsHost` | `Spec => []NoWaitOnParent` | `ParentOver`, over `HoldInv`: a rewrite is asked for in the delivery of the host's response, and by then the host has released; nothing takes it back |
| `TurnLanesFollowUps!FollowUpsStoredOnce` | `Spec => []FollowUpStored` | `FollowInv`: a queue fits its holder; only the holder takes from it; what is stored is never handed back, so it is never given a task, and a stored row names the turn that took it |
| `TurnLanesFollowUps!TicketsAreOwned` | `Spec => []OpenTicketOwned` | itself, over `FollowInv`: each operation that takes a follow-up from one place puts it in another or resolves its ticket |
| `TurnLanesFollowUps!LaneRecordKept` | `Spec => []LaneRecordExact` | `CapInv`: what a turn stored, has in hand and has queued is no more than the lane's counter; and a raised signal means a queue that is not empty |
| `EmailIntakeProofs!AdapterKeepsTypes` | `Spec => []TypeOK` | `LogInv`: what is staged or waits for replay has a row, so a delivery that ends acknowledges one; in the log and the replay each message is once |
| `EmailIntakeProofs!RunnerUsesSlots` | `Spec => []SlotsWellUsed` | `RunnerInv`: an owner is a delivery of its thread that is in flight, no thread waits twice, and waiting threads mean a full cap. A settled delivery frees at most one slot, and the first waiter that can start takes it |
| `EmailIntakeProofs!ProcessDeliversOnce` | `Spec => OncePerProcess` | `RunnerInv` and `LogInv`: a queue holds only what is staged and not begun, each once; the message being written and the rows to replay are not staged |
| `EmailIntakeProofs!MarkIsSafe` | `Spec /\ []PageHoldsAll => []MarkCoversNothingNew` if `InOrder` and not `SlowPost` | `CoverInv`: while a poll works, listed mail that is neither handled nor dropped is in its batch, is the message in hand, or is newer than all that was fetched and than every start that took the clock; no mark is ahead of that. The mark itself covers only between polls, which is when it is persisted |
| `EmailIntakeProofs!ThreadsKeepOrder` | `Spec /\ []PageHoldsAll => OldestFirst`, likewise | `OrderInv`, over `CoverInv`: the log, the replay and each queue are in date order but for mail that has had its turn; while the adapter runs, a logged message without its turn is queued, waits for replay or has just been written |
| `SchedulerProofs!CounterIsExact` | `Spec => [](SlotsAccounted /\ inFlight \in 0 .. MaxInFlight)` | `SlotInv`: slots belong to runs that were claimed, so that a claim hands the poll's slot to a run that holds none; the sets counted are finite |
| `SchedulerProofs!OneRunEachTime` | `Spec => []OncePerOccurrence` | `DueMeansOwed`: while a recurring row is due, the occurrence it is due for has not run. Only a tick makes it due; the claim re-checks that it is and moves it on in the same statement |
| `SchedulerProofs!SchedulerTyping` | `Spec => []TypeOK` | `RunsHaveRows`: a run that was claimed has a row, and only such a run is completed |
| `SchedulerProofs!DeferredTimeIsArmed` | `Spec => DeferralArmed` | the types: six statements drop a deferred time, and each arms it or finds the task ended |
| `OutboundQueueProofs!CapIsKept` | `Spec => []CapHolds` | `CountedHasRoom`: whoever has counted holds the advisory lock, and there is still room for its row; others only take live rows away meanwhile |
| `OutboundQueueProofs!TypesAreKept` | `Spec => []TypeOK` | `RowsAreSends`: a send has a place in the order from its BEGIN on and a row from its COMMIT on |
| `OutboundQueueProofs!MessagesGoOutOnce` | `Spec => []SentOnce` | `WireInv` and `OneFlush`: what can still go to the provider has been there no more often than something tore, and one flush at a time has a row in hand |
| `OutboundQueueProofs!AnswersHold` | `Spec => []AnswersAreKept` | `AnswerInv`: a committed row stays until it is sent or pruned, and an answer of refused leaves no row unless the COMMIT's answer was lost |
| `OutboundQueueProofs!FlushesKeepOrder` | `Spec => FlushInOrder` | `OrderInv`: a flush holds rows in the order of `enqueued_at`, and a row answered for before another one began is in the hand that holds the other |
| `LateDelegationProofs!DelegationTyping` | `Spec => []TypeOK` | a delegation that has not been dispatched has no row |
| `LateDelegationProofs!WokenOnce` | `Spec => []OneWake` | `Inserted`: the wake is inserted once, by its primary key, and delivered by the holder that inserted it; the turn need not end |
| `LateDelegationProofs!AuditedOnce` | `Spec => []OneOutcome` | `HolderInv`: resolvers at work on one handle have different claim numbers, at most one relies on its claim (it is past the turn and the renewal of the lease), and that one has the last number under a live lease; what it records is not audited yet. Others may wait in a turn whose lease lapsed, and stop at the renewal |
| `LateDelegationProofs!TasksCloseForAReason` | `Spec => []ClosedForAReason` | `HolderInv`: a logged wake had its turn run or is in the hand that delivers it, and a holder that is past the wake had it logged. The half about a waiting sender is inductive over typing |
| `BullpenProofs!WatermarksKeepTypes` | `Spec => []TypeOK` | `PoolInv`: the thread's count is the number of its messages, and no watermark or showing passes the newest |
| `BullpenProofs!SeenCoversShown` | `Spec => []SeenWasShown` | `Covers`: what a turn was shown is all there is, but for what slipped in, up to the date it will stamp; later messages are newer than that date |
| `BullpenProofs!MentionsGetSecondLook` | `Spec => []SecondLook` | `ShownBefore` and `NoneOpen`: a showing that counts as already injected is the second of everything it covers, and one that saw no open mention covers only answered ones; what an acting turn stamps beyond what it touched is `trailing` |
| `ApprovalsProofs!ApprovalTyping` | `Spec => []TypeOK` | a call or a decision under way has a row |
| `ApprovalsProofs!OnlyOnce` | `Spec => []AtMostOnce` | three of them. `RunInv`: a resolved row stays so, and one decider holds a row that was won and not yet replayed. `PingInv`: a delivery claim has one holder until it is undone, and before it no more was sent than went out as a ghost. `ContInv`: a continued card request is never pending again |
| `ApprovalsProofs!ApprovedByAnswer` | `Spec => []AnswerFollowsClaim` | `AnswerInv`: what a decider read it read of a row as it was then, and a claim once made is counted for good. "Follows" is arrival after the claim, as the code compares it |

Two theorems have hypotheses beyond the component's assumption, and they are those under which
the property is true of the code. `MarkIsSafe` and `ThreadsKeepOrder` suppose that the provider
lists mail in date order (`InOrder`), that the `channel.poll` publish does not outlast the
polling interval (`SlowPost` is false), and that the unread mail from the mark on fits the page
(`PageHoldsAll`, a condition on the behaviour and not on the set of mail). The run
`email_intake` is an instance of all three; section 4 says what happens without them.

TLC checked the invariants on small instances before they were proved, and twice found that
the model or the property had to change: already-injected of `Bullpen` is wrong about messages
in `passed`, and a delivery of `EmailIntake` may end while its thread is owned by the next one,
so a thread can wait for a slot while it runs.

Only model-checked: the liveness properties (`EveryInboundHandled`, `MailIsDelivered`,
`RunningEnds`, `FinishedWakeRetires`, `EveryApprovalIsSent`, `ExpiredCardSettles`,
`EveryHandleCloses`, `MentionIsShownAgain`), which rest on fairness and on ENABLED, beyond this
prover. Every safety invariant and every action property of a passing run is a theorem. The
three violated properties are not theorems because they are false.

## 6. Not modelled, and what is next

Every run answers a question of its own, and together they are as many as one still reads and
waits for; a further component comes with runs of its own only if it is worth one of these.

Next, in this order: an abstract specification of the outbound queue and of the late
delegation, with the refinement proved from the invariants above; the step lemmas the liveness
properties rest on (what stays enabled until it is taken); `MailToTurn`, EmailIntake composed with
TurnLanes over `intakeSettled`; resumable tasks and the plan frontier; the audit hash chain;
rate limiter, verifications, knowledge-graph merge.

Not modelled: adapters to outside services and the voice channel (protocols and audio), model
clients and prompt text, contact resolution and retrieval (queries), scores (arithmetic over
samples), views and reports (read-only), startup and registry (wiring), the browser (an
outside process). Sender resolution, scanning and the policy pipeline decide about text; the
models take their verdicts as inputs (`Clean`, `Resolved`, sends that passed).
