---------------------------- MODULE OutboundQueue ----------------------------
(***************************************************************************)
(* The durable queue of one channel that queues                            *)
(* (src/skills/outbound-gateway.ts, src/skills/outbound-queue-repo.ts): a  *)
(* send that meets a closed transport, or fails in a way worth a retry, is *)
(* written to outbound_queue, and a flush sends the rows again on          *)
(* channel.reconnect or when the retry timer fires.                        *)
(*                                                                         *)
(* Every table and every in-memory set of this part is keyed by channel:   *)
(* the channels do not interact. Rows survive a crash, and nothing else    *)
(* does.                                                                   *)
(***************************************************************************)
EXTENDS Naturals, Sequences, FiniteSets, SequencesExt

CONSTANTS
    Sends,          \* calls of send that passed the policy pipeline
    Cap,            \* maxPerChannel
    MaxConnects,    \* bound: times the transport comes up
    MaxExpired,     \* bound: rows that outlive the 24 hours
    MaxFaults,      \* bound: crashes, failed statements, publishes and provider calls
    None

ASSUME QueueAssumption ==
    /\ Cap \in Nat \ {0} /\ {MaxConnects, MaxExpired, MaxFaults} \subseteq Nat
    /\ None \notin Sends

VARIABLES
    ready,      \* the channel's readiness probe
    events,     \* channel.reconnect events published and not yet handled
    timer,      \* flushRetryTimers has the channel
    flushing,   \* flushInFlight has the channel
    flush,      \* [Callers -> a call of flushChannel: where it is, rows it has still to send]
    send,       \* [Sends -> where a call of send is, or what it answered]
    late,       \* sends on their way to the queue through a failed dispatch
    lock,       \* the send that holds the advisory lock
    rows,       \* outbound_queue
    order,      \* sends in the order of enqueued_at, the start of their transaction
    expired,    \* rows whose expires_at has passed
    wire,       \* history: times the provider accepted a send
    torn,       \* history: times nobody recorded that the provider, or the table, accepted it
    pruned,     \* history: rows deleted because they had expired
    before,     \* history: [Sends -> sends queued when this one began to enqueue]
    connects, faults

channel == <<ready, events, timer, connects>>
flusher == <<flushing, flush>>
caller == <<send, late, lock>>
table == <<rows, order, expired>>
history == <<wire, torn, pruned, before>>
vars == <<channel, flusher, caller, table, history, faults>>

Callers == {"reconnect", "timer"}
Answers == {"sent", "queued", "refused"}
NoFlush == [at |-> "idle", rows |-> <<>>]

\* Every variable keeps its type.
TypeOK ==
    /\ {ready, timer, flushing} \subseteq BOOLEAN /\ events \in 0 .. MaxConnects
    /\ \A c \in Callers : /\ flush[c].at \in {"idle", "listing", "sending", "deleting"}
                          /\ flush[c].rows \in Seq(Sends)
                          /\ (flush[c].at \in {"sending", "deleting"}) <=> (flush[c].rows # <<>>)
    /\ send \in [Sends -> Answers \cup {"new", "dispatch", "begun", "counted",
                                        "committed", "lost"}]
    /\ lock \in Sends \cup {None}
    /\ {late, rows, expired, pruned} \subseteq SUBSET Sends /\ expired \subseteq rows
    /\ order \in Seq(Sends) /\ IsInjective(order) /\ rows \subseteq ToSet(order)
    /\ {wire, torn} \subseteq [Sends -> Nat] /\ before \in [Sends -> SUBSET Sends]
    /\ connects \in 0 .. MaxConnects /\ faults \in 0 .. MaxFaults

Init ==
    /\ ready = FALSE /\ events = 0 /\ timer = FALSE /\ connects = 0
    /\ flushing = FALSE /\ flush = [c \in Callers |-> NoFlush]
    /\ send = [s \in Sends |-> "new"] /\ late = {} /\ lock = None
    /\ rows = {} /\ order = <<>> /\ expired = {}
    /\ wire = [s \in Sends |-> 0] /\ torn = [s \in Sends |-> 0]
    /\ pruned = {} /\ before = [s \in Sends |-> {}]
    /\ faults = 0

Fault == faults < MaxFaults /\ faults' = faults + 1
Bump(f, s) == [f EXCEPT ![s] = @ + 1]
At(s, at) == send' = [send EXCEPT ![s] = at]

\* DELETE ... WHERE expires_at < now().
Prune == rows' = rows \ expired /\ expired' = {} /\ pruned' = pruned \cup expired

(***************************************************************************)
(* The transport. The adapter publishes channel.reconnect when it comes up *)
(* and only logs a publish that fails.                                     *)
(***************************************************************************)
Connect ==
    /\ ~ready /\ connects < MaxConnects
    /\ ready' = TRUE /\ connects' = connects + 1
    /\ \/ events' = events + 1 /\ UNCHANGED faults
       \/ Fault /\ UNCHANGED events
    /\ UNCHANGED <<timer, flusher, caller, table, history>>

Disconnect ==
    /\ ready /\ ready' = FALSE
    /\ UNCHANGED <<events, timer, connects, flusher, caller, table, history, faults>>

Expire(s) ==
    /\ s \in rows \ expired /\ Cardinality(pruned \cup expired) < MaxExpired
    /\ expired' = expired \cup {s}
    /\ UNCHANGED <<channel, flusher, caller, rows, order, history, faults>>

(***************************************************************************)
(* send: dispatchOrEnqueue.                                                *)
(***************************************************************************)
\* BEGIN, whose time will be enqueued_at.
Begin(s) ==
    /\ At(s, "begun") /\ order' = Append(order, s)
    /\ before' = [before EXCEPT ![s] = {r \in Sends : send[r] = "queued"}]

Route(s) ==
    /\ send[s] = "new"
    /\ IF ready THEN At(s, "dispatch") /\ UNCHANGED <<order, before>> ELSE Begin(s)
    /\ UNCHANGED <<channel, flusher, late, lock, rows, expired, wire, torn, pruned, faults>>

\* What dispatchEmail, dispatchSignal, dispatchSlack and dispatchSms make of the provider's answer.
Delivers(s) == ready /\ wire' = Bump(wire, s) /\ UNCHANGED <<torn, faults>>
FailsQueueable(s) ==
    \/ ~ready /\ UNCHANGED <<wire, torn, faults>>
    \/ Fault /\ UNCHANGED <<wire, torn>>
    \* The provider accepted the message and its answer was lost.
    \/ ready /\ Fault /\ wire' = Bump(wire, s) /\ torn' = Bump(torn, s)
FailsForGood(s) == Fault /\ UNCHANGED <<wire, torn>>

Dispatch(s) ==
    /\ send[s] = "dispatch"
    /\ \/ Delivers(s) /\ At(s, "sent") /\ UNCHANGED <<late, order, before>>
       \/ FailsForGood(s) /\ At(s, "refused") /\ UNCHANGED <<late, order, before>>
       \/ FailsQueueable(s) /\ Begin(s) /\ late' = late \cup {s}
    /\ UNCHANGED <<channel, flusher, lock, rows, expired, pruned>>

\* Mutant: an enqueue without the lock.
MutLockFree == TRUE

\* pg_advisory_xact_lock is held until the transaction ends.
LockFree == lock = None

\* The lock, the pruning and the count.
Count(s) ==
    /\ send[s] = "begun" /\ LockFree
    /\ IF Cardinality(rows \ expired) >= Cap
       THEN At(s, "refused") /\ UNCHANGED <<lock, rows, expired, pruned>>    \* ROLLBACK
       ELSE At(s, "counted") /\ lock' = s /\ Prune
    /\ UNCHANGED <<channel, flusher, late, order, wire, torn, before, faults>>

Commit(s) ==
    /\ send[s] = "counted"
    /\ At(s, "committed") /\ rows' = rows \cup {s} /\ lock' = None
    /\ UNCHANGED <<channel, flusher, late, order, expired, history, faults>>

\* A statement fails, or the connection is lost while COMMIT is under way.
EnqueueFails(s) ==
    /\ send[s] \in {"begun", "counted"}
    /\ Fault /\ At(s, "refused") /\ lock' = IF lock = s THEN None ELSE lock
    /\ \/ UNCHANGED <<rows, torn>>
       \/ send[s] = "counted" /\ rows' = rows \cup {s} /\ torn' = Bump(torn, s)
    /\ UNCHANGED <<channel, flusher, late, order, expired, wire, pruned, before>>

\* The queue's answer reaches the caller; only a failed dispatch arms the timer.
Answer(s) ==
    /\ send[s] = "committed"
    /\ At(s, "queued") /\ timer' = (timer \/ (s \in late /\ ready)) /\ late' = late \ {s}
    /\ UNCHANGED <<ready, events, connects, flusher, lock, table, history, faults>>

(***************************************************************************)
(* flushChannel.                                                           *)
(***************************************************************************)
MayFlush == ~flushing /\ ready

StartFlush(c) ==
    IF MayFlush
    THEN flushing' = TRUE /\ flush' = [flush EXCEPT ![c] = [at |-> "listing", rows |-> <<>>]]
    ELSE UNCHANGED flusher

OnReconnect ==
    /\ events > 0 /\ events' = events - 1
    /\ StartFlush("reconnect")
    /\ UNCHANGED <<ready, timer, connects, caller, table, history, faults>>

OnTimer ==
    /\ timer /\ timer' = FALSE
    /\ StartFlush("timer")
    /\ UNCHANGED <<ready, events, connects, caller, table, history, faults>>

\* The loop ends, by its last row, a break or an exception: finally.
EndFlush(c) == flushing' = FALSE /\ flush' = [flush EXCEPT ![c] = NoFlush]

GoOn(c, rest) ==
    IF rest = <<>> THEN EndFlush(c)
    ELSE flush' = [flush EXCEPT ![c] = [at |-> "sending", rows |-> rest]] /\ UNCHANGED flushing

\* ORDER BY enqueued_at.
Precedes(r, s) == \E i, j \in DOMAIN order : i < j /\ order[i] = r /\ order[j] = s
Ordered(l) == \A i, j \in DOMAIN l : i < j => Precedes(l[i], l[j])

\* listPending: prune, then the rows that are left, in their order.
List(c) ==
    /\ flush[c].at = "listing"
    /\ \/ /\ Prune
          /\ LET live == rows \ expired IN
             \E l \in [1 .. Cardinality(live) -> live] :
                 ToSet(l) = live /\ Ordered(l) /\ GoOn(c, l)
          /\ UNCHANGED faults
       \/ Fault /\ EndFlush(c) /\ UNCHANGED <<rows, expired, pruned>>
    /\ UNCHANGED <<channel, caller, order, wire, torn, before>>

\* Mutant: the flush goes on with the row after the one that failed.
MutStopAt(c) == GoOn(c, Tail(flush[c].rows))

\* Mutant: the rows still to send are kept for the next flush.
MutStopKeeps(c) == flushing' = FALSE /\ flush' = [flush EXCEPT ![c].at = "idle"]

\* A failed dispatch ends the flush: later rows stay queued.
StopAt(c) == EndFlush(c)

FlushSend(c) ==
    /\ flush[c].at = "sending"
    /\ LET s == Head(flush[c].rows) IN
       \/ /\ Delivers(s) /\ UNCHANGED <<flushing, timer>>
          /\ flush' = [flush EXCEPT ![c].at = "deleting"]
       \/ FailsQueueable(s) /\ timer' = TRUE /\ StopAt(c)
       \/ FailsForGood(s) /\ StopAt(c) /\ UNCHANGED timer
    /\ UNCHANGED <<ready, events, connects, caller, table, pruned, before>>

\* Mutant: every listed row is deleted with the first.
MutSent(c) == ToSet(flush[c].rows)

\* Mutant: the row just sent is left to be deleted after the loop.
MutKeepsSent(c) == {}

\* deleteByIds of the row just sent, before the next is sent.
Sent(c) == {Head(flush[c].rows)}

FlushDelete(c) ==
    /\ flush[c].at = "deleting"
    /\ rows' = rows \ Sent(c) /\ expired' = expired \ Sent(c)
    /\ GoOn(c, Tail(flush[c].rows))
    /\ UNCHANGED <<channel, caller, order, history, faults>>

FlushDeleteFails(c) ==
    /\ flush[c].at = "deleting"
    /\ Fault /\ torn' = Bump(torn, Head(flush[c].rows))
    /\ EndFlush(c)
    /\ UNCHANGED <<channel, caller, table, wire, pruned, before>>

(***************************************************************************)
(* The process ends and a new one starts: open transactions roll back, the *)
(* callers and the timer are gone, a row being deleted is still there.     *)
(***************************************************************************)
Crash ==
    /\ Fault
    /\ ready' = FALSE /\ events' = 0 /\ timer' = FALSE
    /\ flushing' = FALSE /\ flush' = [c \in Callers |-> NoFlush]
    /\ send' = [s \in Sends |-> IF send[s] \in Answers \cup {"new"} THEN send[s] ELSE "lost"]
    /\ lock' = None /\ late' = {}
    /\ torn' = [s \in Sends |-> torn[s] + Cardinality(
                    {c \in Callers : flush[c].at = "deleting" /\ Head(flush[c].rows) = s})]
    /\ UNCHANGED <<connects, table, wire, pruned, before>>

FlushStep(c) == List(c) \/ FlushSend(c) \/ FlushDelete(c) \/ FlushDeleteFails(c)
SendStep(s) ==
    Route(s) \/ Dispatch(s) \/ Count(s) \/ Commit(s) \/ EnqueueFails(s) \/ Answer(s)

Next ==
    \/ Connect \/ Disconnect \/ Crash \/ OnReconnect \/ OnTimer
    \/ \E s \in Sends : Expire(s) \/ SendStep(s)
    \/ \E c \in Callers : FlushStep(c)

Spec == Init /\ [][Next]_vars

(***************************************************************************)
(* Properties.                                                             *)
(***************************************************************************)
\* However enqueues overlap, the channel never has more than maxPerChannel live rows.
CapHolds == Cardinality(rows \ expired) <= Cap

\* Two flushes, a retry and a crash send a message twice only when nobody recorded that it was
\* sent, or a transaction that was reported as failed had committed.
SentOnce == \A s \in Sends : wire[s] <= 1 + torn[s]

\* What send answered "queued" is in the table until it is sent or its 24 hours are over.
QueuedIsKept == \A s \in Sends : send[s] = "queued" => s \in rows \cup pruned \/ wire[s] > 0

\* What send answered "refused", which the agent may try again, is not sent after all.
RefusedIsNotSent ==
    \A s \in Sends : send[s] = "refused" /\ torn[s] = 0 => wire[s] = 0 /\ s \notin rows

\* What send answered is what becomes of the message, although the process may end between the
\* two. Together: a queue that keeps nothing refuses correctly, one that keeps all queues correctly.
AnswersAreKept == QueuedIsKept /\ RefusedIsNotSent

\* A flush sends no row while one that was queued before it began to enqueue waits.
FlushInOrder ==
    [][\A c \in Callers : flush[c].at = "sending" /\ flush'[c].at = "deleting" =>
           before[Head(flush[c].rows)] \cap (rows \ expired) = {}]_vars

\* While the transport is up, a queued row has something to send it: docs/specs/04-channels.md.
NoStrandedRow ==
    ready /\ (\E s \in rows \ expired : send[s] = "queued") => flushing \/ timer \/ events > 0
==============================================================================
