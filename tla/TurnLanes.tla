------------------------------ MODULE TurnLanes ------------------------------
(***************************************************************************)
(* Turn lanes (src/dispatch/turn-lanes.ts) with their two callers: the     *)
(* dispatcher's routeInbound, which injects a follow-up into the running   *)
(* turn or reserves a turn of its own, and the agent runtime, which        *)
(* acquires the lane, drains follow-ups between model rounds and releases. *)
(*                                                                         *)
(* One action is one run of code between two awaits: the lane's methods    *)
(* are synchronous, and everything else interleaves at await points.       *)
(* The model is of `enabled: true`; disabled lanes do nothing.             *)
(***************************************************************************)
EXTENDS Integers, Sequences, FiniteSets, SequencesExt

CONSTANTS
    Convs,          \* conversation ids
    Inbounds,       \* inbound.message events; the task an inbound gets has its id
    Wakes,          \* synthetic tasks published on their own (resume, late delegation)
    Rewrites,       \* content-block rewrites, published inside a host's agent.response
    Conv,           \* [Tasks -> Convs]
    Contact,        \* [Tasks -> contact ids]: the sender, or the copied originator
    Resolved,       \* tasks whose originator is stamped from a resolved contact
    Clean,          \* inbounds that are not auto-generated and have no scanner finding
    MaxInjections,  \* maxInjectionsPerTurn
    MaxFaults,      \* bound: failures of a publish or of a working-memory write
    Hung,           \* tasks whose tool or model call never returns
    None            \* no holder

Tasks == Inbounds \cup Wakes \cup Rewrites

ASSUME LaneAssumption ==
    /\ Inbounds \cap Wakes = {} /\ Inbounds \cap Rewrites = {} /\ Wakes \cap Rewrites = {}
    /\ Conv \in [Tasks -> Convs]
    /\ DOMAIN Contact = Tasks
    /\ Hung \subseteq Tasks
    /\ MaxInjections \in Nat \ {0} /\ MaxFaults \in Nat
    /\ None \notin Tasks

VARIABLES
    holder, phase, accepted, queue, pending, aborted,  \* the Lane record, per conversation
    waiters,    \* [Convs -> Seq(Tasks)]: the FIFO of tasks waiting for the lane
    stored,     \* inbounds whose queued record has `persisted` set
    retained,   \* inbounds parked by release until their audit event is published
    ticket,     \* [Inbounds -> "none" | "open" | "drained" | "returned"]
    settled,    \* inbounds whose intake the dispatcher has marked settled
    pc,         \* [Tasks -> where the task's handler is]
    timedOut,   \* tasks that run without the lane, after laneWaitTimeoutMs
    work,       \* [Tasks -> Seq(Inbounds)]: drainInjected's inputs still to handle
    batch,      \* [Tasks -> SUBSET Inbounds]: flushRetained's entries still to publish
    parent,     \* [Rewrites -> the task whose agent.response published it]
    rows,       \* [Inbounds -> SUBSET Tasks]: user rows in working memory, by turn
    replied,    \* tasks whose assistant row is in working memory
    seen,       \* [Tasks -> SUBSET Tasks]: the replies in the history the turn read
    faults      \* failures so far

lane == <<holder, phase, accepted, queue, pending, aborted, waiters>>
tickets == <<stored, retained, ticket, settled>>
turns == <<timedOut, work, batch, parent>>
memory == <<rows, replied, seen>>
vars == <<lane, tickets, pc, turns, memory, faults>>

Phases == {"idle", "reserved", "running", "closing"}
TicketStates == {"none", "open", "drained", "returned"}

\* Where a task's handler is. "publishing": routeInbound awaits the write-ahead of
\* agent.task; "acquiring": the runtime awaits the grant; "running": the tool loop;
\* "draining": inside drainInjected; "finishing": the loop is over and the lane still
\* held; "failing": an error path, likewise; "replied": the assistant row is stored;
\* "responding": agent.response is being delivered; "flushing": handleTask's finally;
\* "dropped": the publish failed.
Stages == {"none", "publishing", "acquiring", "running", "draining", "finishing",
           "failing", "replied", "responding", "flushing", "done", "dropped"}

\* The stages in which a turn reads history, calls tools and writes memory.
Working == {"running", "draining", "finishing", "failing", "replied"}

LaneTypeOK ==
    /\ holder \in [Convs -> Tasks \cup {None}]
    /\ phase \in [Convs -> Phases]
    /\ accepted \in [Convs -> 0 .. MaxInjections]
    /\ queue \in [Convs -> Seq(Inbounds)]
    /\ pending \in [Convs -> SUBSET Inbounds]
    /\ aborted \in [Convs -> BOOLEAN]
    /\ waiters \in [Convs -> Seq(Tasks)]

TicketTypeOK ==
    /\ stored \subseteq Inbounds /\ retained \subseteq Inbounds /\ settled \subseteq Inbounds
    /\ ticket \in [Inbounds -> TicketStates]

TurnTypeOK ==
    /\ timedOut \subseteq Tasks
    /\ work \in [Tasks -> Seq(Inbounds)]
    /\ batch \in [Tasks -> SUBSET Inbounds]
    /\ parent \in [Rewrites -> Tasks \cup {None}]

MemoryTypeOK ==
    /\ rows \in [Inbounds -> SUBSET Tasks]
    /\ replied \subseteq Tasks
    /\ seen \in [Tasks -> SUBSET Tasks]

\* Every variable keeps its type.
TypeOK ==
    /\ LaneTypeOK /\ TicketTypeOK /\ TurnTypeOK /\ MemoryTypeOK
    /\ pc \in [Tasks -> Stages]
    /\ faults \in 0 .. MaxFaults

Init ==
    /\ holder = [c \in Convs |-> None]
    /\ phase = [c \in Convs |-> "idle"]
    /\ accepted = [c \in Convs |-> 0]
    /\ queue = [c \in Convs |-> <<>>]
    /\ pending = [c \in Convs |-> {}]
    /\ aborted = [c \in Convs |-> FALSE]
    /\ waiters = [c \in Convs |-> <<>>]
    /\ stored = {} /\ retained = {} /\ settled = {}
    /\ ticket = [i \in Inbounds |-> "none"]
    /\ pc = [t \in Tasks |-> "none"]
    /\ timedOut = {} /\ replied = {}
    /\ work = [t \in Tasks |-> <<>>]
    /\ batch = [t \in Tasks |-> {}]
    /\ parent = [r \in Rewrites |-> None]
    /\ rows = [i \in Inbounds |-> {}]
    /\ seen = [t \in Tasks |-> {}]
    /\ faults = 0

(***************************************************************************)
(* The lane's methods.                                                     *)
(***************************************************************************)
Waits(t) == \E k \in DOMAIN waiters[Conv[t]] : waiters[Conv[t]][k] = t
Holds(t) == holder[Conv[t]] = t

\* beginHold, and with None what release leaves behind: the hold's counters, queue and
\* input signal start afresh.
BeginHold(c, t, ph) ==
    /\ holder' = [holder EXCEPT ![c] = t]
    /\ phase' = [phase EXCEPT ![c] = ph]
    /\ accepted' = [accepted EXCEPT ![c] = 0]
    /\ queue' = [queue EXCEPT ![c] = <<>>]
    /\ pending' = [pending EXCEPT ![c] = {}]
    /\ aborted' = [aborted EXCEPT ![c] = FALSE]

\* Mutant: join without the test for a holder.
MutJoinTakes(t, ph) == BeginHold(Conv[t], t, ph) /\ UNCHANGED waiters

\* join: a task that holds only moves on from reserved, a task that waits keeps its
\* place, a free lane is taken, and otherwise the task queues.
Join(t, ph) ==
    LET c == Conv[t] IN
    \/ /\ Holds(t)
       /\ phase' = [phase EXCEPT ![c] = IF @ = "reserved" THEN ph ELSE @]
       /\ UNCHANGED <<holder, accepted, queue, pending, aborted, waiters>>
    \/ /\ ~Holds(t) /\ Waits(t)
       /\ UNCHANGED lane
    \/ /\ ~Waits(t) /\ holder[c] = None
       /\ BeginHold(c, t, ph)
       /\ UNCHANGED waiters
    \/ /\ ~Waits(t) /\ holder[c] \notin {t, None}
       /\ waiters' = [waiters EXCEPT ![c] = Append(@, t)]
       /\ UNCHANGED <<holder, phase, accepted, queue, pending, aborted>>

\* eligible, behind the dispatcher's own admission checks.
Eligible(i, h) ==
    /\ h \in Resolved /\ i \in Resolved /\ i \in Clean
    /\ Contact[i] = Contact[h]

\* Mutant: no cap.
MutNoCap(i, c) == phase[c] \in {"reserved", "running"} /\ Eligible(i, holder[c])

\* tryInject accepts i on conversation c.
CanInject(i, c) ==
    /\ phase[c] \in {"reserved", "running"}
    /\ Eligible(i, holder[c])
    /\ accepted[c] < MaxInjections

\* grantNext: the first waiter begins its hold, as running once its runtime has asked.
GrantNext(c) ==
    IF waiters[c] = <<>>
    THEN BeginHold(c, None, "idle") /\ UNCHANGED waiters
    ELSE /\ BeginHold(c, Head(waiters[c]),
                      IF pc[Head(waiters[c])] = "acquiring" THEN "running" ELSE "reserved")
         /\ waiters' = [waiters EXCEPT ![c] = Tail(@)]

\* The follow-ups queued on a hold or taken and not yet confirmed.
Undrained(c) == ToSet(queue[c]) \cup pending[c]

\* Mutant: release hands stored follow-ups back as well.
MutReturnsStored(t) ==
    IF ~Holds(t)
    THEN UNCHANGED <<lane, retained, ticket>>
    ELSE /\ ticket' = [i \in Inbounds |->
                         IF i \in Undrained(Conv[t]) THEN "returned" ELSE ticket[i]]
         /\ GrantNext(Conv[t]) /\ UNCHANGED retained

\* Mutant: release forgets the follow-ups that were queued and never taken.
MutForgetsQueue(t) ==
    IF ~Holds(t)
    THEN UNCHANGED <<lane, retained, ticket>>
    ELSE /\ ticket' = [i \in Inbounds |->
                         IF i \in pending[Conv[t]] \ stored THEN "returned" ELSE ticket[i]]
         /\ retained' = retained \cup (pending[Conv[t]] \cap stored)
         /\ GrantNext(Conv[t])

\* release: no-op unless t holds. Unstored follow-ups are handed back to routeInbound;
\* stored ones are parked with their ticket open.
Release(t) ==
    LET c == Conv[t] IN
    IF ~Holds(t)
    THEN UNCHANGED <<lane, retained, ticket>>
    ELSE /\ ticket' = [i \in Inbounds |->
                         IF i \in Undrained(c) \ stored THEN "returned" ELSE ticket[i]]
         /\ retained' = retained \cup (Undrained(c) \cap stored)
         /\ GrantNext(c)

\* Removal of a waiter from the FIFO, by cancelReservation or the wait timer.
Unqueue(t) ==
    LET c == Conv[t] IN
    \E k \in DOMAIN waiters[c] :
        /\ waiters[c][k] = t
        /\ waiters' = [waiters EXCEPT ![c] = RemoveAt(@, k)]

Fault == faults < MaxFaults /\ faults' = faults + 1

(***************************************************************************)
(* The dispatcher.                                                         *)
(***************************************************************************)
\* createAgentTask, reserve and settleIntake, up to the await of the publish.
CreateTask(i) ==
    /\ Join(i, "reserved")
    /\ pc' = [pc EXCEPT ![i] = "publishing"]
    /\ settled' = settled \cup {i}
    /\ UNCHANGED <<stored, retained, turns, memory, faults>>

\* routeInbound when tryInject answers `queued`: the handler awaits the ticket.
Inject(i) ==
    LET c == Conv[i] IN
    /\ ticket[i] = "none" /\ pc[i] = "none"
    /\ CanInject(i, c)
    /\ queue' = [queue EXCEPT ![c] = Append(@, i)]
    /\ accepted' = [accepted EXCEPT ![c] = @ + 1]
    /\ aborted' = [aborted EXCEPT ![c] = TRUE]
    /\ ticket' = [ticket EXCEPT ![i] = "open"]
    /\ UNCHANGED <<holder, phase, pending, waiters, stored, retained, settled, pc,
                   turns, memory, faults>>

\* routeInbound when tryInject answers `not_injected`.
RouteOwnTask(i) ==
    /\ ticket[i] = "none" /\ pc[i] = "none"
    /\ ~CanInject(i, Conv[i])
    /\ CreateTask(i)
    /\ UNCHANGED ticket

\* routeInbound after its ticket came back `returned`.
RouteReturned(i) ==
    /\ ticket[i] = "returned" /\ pc[i] = "none"
    /\ CreateTask(i)
    /\ UNCHANGED ticket

\* handleInbound after its ticket came back `drained`: return, and the finally settles.
RouteDrained(i) ==
    /\ ticket[i] = "drained" /\ i \notin settled
    /\ settled' = settled \cup {i}
    /\ UNCHANGED <<lane, stored, retained, ticket, pc, turns, memory, faults>>

\* The write-ahead of agent.task succeeds; the runtime's subscriber calls acquire.
PublishTask(i) ==
    /\ pc[i] = "publishing"
    /\ Join(i, "running")
    /\ pc' = [pc EXCEPT ![i] = "acquiring"]
    /\ UNCHANGED <<tickets, turns, memory, faults>>

\* The write-ahead rejects: release, cancelReservation, rethrow.
PublishTaskFails(i) ==
    /\ pc[i] = "publishing" /\ Fault
    /\ pc' = [pc EXCEPT ![i] = "dropped"]
    /\ \/ Holds(i) /\ Release(i)
       \/ /\ ~Holds(i)
          /\ IF Waits(i) THEN Unqueue(i) ELSE UNCHANGED waiters
          /\ UNCHANGED <<holder, phase, accepted, queue, pending, aborted, retained, ticket>>
    /\ UNCHANGED <<stored, settled, turns, memory>>

(***************************************************************************)
(* Synthetic tasks: no reservation, the first the lane hears is acquire.   *)
(***************************************************************************)
PublishWake(w) ==
    /\ w \in Wakes /\ pc[w] = "none"
    /\ Join(w, "running")
    /\ pc' = [pc EXCEPT ![w] = "acquiring"]
    /\ UNCHANGED <<tickets, turns, memory, faults>>

\* handleOutboundBlocked, inside the delivery of t's agent.response: same conversation,
\* same originator, and t's publish does not return before r's turn is over.
PublishRewrite(t, r) ==
    /\ pc[t] = "responding" /\ pc[r] = "none"
    /\ Conv[r] = Conv[t] /\ Contact[r] = Contact[t]
    /\ Join(r, "running")
    /\ pc' = [pc EXCEPT ![r] = "acquiring"]
    /\ parent' = [parent EXCEPT ![r] = t]
    /\ UNCHANGED <<tickets, timedOut, work, batch, memory, faults>>

(***************************************************************************)
(* The runtime.                                                            *)
(***************************************************************************)
\* failOpen. A task whose publish is still in flight loses its place and queues again
\* when the runtime acquires; one already acquiring runs without the lane.
FailOpen(t) ==
    /\ Unqueue(t)
    /\ timedOut' = IF pc[t] = "acquiring" THEN timedOut \cup {t} ELSE timedOut
    /\ UNCHANGED <<holder, phase, accepted, queue, pending, aborted, tickets, pc, work,
                   batch, parent, memory, faults>>

Granted(t) == pc[t] = "acquiring" /\ (Holds(t) \/ t \in timedOut)

\* Mutant: replies still being delivered are missing from the history.
MutBeginBlind(t) ==
    /\ Granted(t)
    /\ pc' = [pc EXCEPT ![t] = "running"]
    /\ seen' = [seen EXCEPT ![t] = {u \in replied : Conv[u] = Conv[t] /\ pc[u] = "done"}]
    /\ rows' = [i \in Inbounds |-> IF i = t THEN rows[i] \cup {t} ELSE rows[i]]
    /\ UNCHANGED <<lane, tickets, turns, replied, faults>>

\* processTask up to the tool loop: history is read once, then the user row is stored.
Begin(t) ==
    /\ Granted(t)
    /\ pc' = [pc EXCEPT ![t] = "running"]
    /\ seen' = [seen EXCEPT ![t] = {u \in replied : Conv[u] = Conv[t]}]
    /\ rows' = [i \in Inbounds |-> IF i = t THEN rows[i] \cup {t} ELSE rows[i]]
    /\ UNCHANGED <<lane, tickets, turns, replied, faults>>

\* The history read or the user row's write throws.
BeginFails(t) ==
    /\ Granted(t) /\ Fault
    /\ pc' = [pc EXCEPT ![t] = "failing"]
    /\ UNCHANGED <<lane, tickets, turns, memory>>

\* Mutant: the cap counts only what is queued now.
MutTakeResetsCap(t) ==
    LET c == Conv[t] IN
    /\ pc[t] = "running" /\ Holds(t) /\ queue[c] # <<>>
    /\ work' = [work EXCEPT ![t] = queue[c]]
    /\ pending' = [pending EXCEPT ![c] = @ \cup ToSet(queue[c])]
    /\ queue' = [queue EXCEPT ![c] = <<>>]
    /\ aborted' = [aborted EXCEPT ![c] = FALSE]
    /\ accepted' = [accepted EXCEPT ![c] = 0]
    /\ pc' = [pc EXCEPT ![t] = "draining"]
    /\ UNCHANGED <<holder, phase, waiters, tickets, timedOut, batch, parent, memory, faults>>

\* drainInjected at a round, or at the exit: takeQueued moves the queue to pending and
\* replaces the input signal.
TakeQueued(t) ==
    LET c == Conv[t] IN
    /\ pc[t] = "running" /\ Holds(t) /\ queue[c] # <<>>
    /\ work' = [work EXCEPT ![t] = queue[c]]
    /\ pending' = [pending EXCEPT ![c] = @ \cup ToSet(queue[c])]
    /\ queue' = [queue EXCEPT ![c] = <<>>]
    /\ aborted' = [aborted EXCEPT ![c] = FALSE]
    /\ pc' = [pc EXCEPT ![t] = "draining"]
    /\ UNCHANGED <<holder, phase, accepted, waiters, tickets, timedOut, batch, parent,
                   memory, faults>>

\* memory.addTurn for the next follow-up, then deferAudit.
StoreFollowUp(t) ==
    /\ pc[t] = "draining" /\ Head(work[t]) \notin stored
    /\ rows' = [rows EXCEPT ![Head(work[t])] = @ \cup {t}]
    /\ stored' = stored \cup {Head(work[t])}
    /\ UNCHANGED <<lane, retained, ticket, settled, pc, turns, replied, seen, faults>>

\* memory.addTurn throws out of the tool loop.
StoreFollowUpFails(t) ==
    /\ pc[t] = "draining" /\ Head(work[t]) \notin stored /\ Fault
    /\ work' = [work EXCEPT ![t] = <<>>]
    /\ pc' = [pc EXCEPT ![t] = "failing"]
    /\ UNCHANGED <<lane, tickets, timedOut, batch, parent, memory>>

NextFollowUp(t) ==
    /\ work' = [work EXCEPT ![t] = Tail(@)]
    /\ pc' = [pc EXCEPT ![t] = IF Tail(work[t]) = <<>> THEN "running" ELSE @]

\* The audit event is published: confirmDrained settles the ticket.
AuditFollowUp(t) ==
    LET i == Head(work[t]) IN
    /\ pc[t] = "draining" /\ i \in stored
    /\ pending' = [pending EXCEPT ![Conv[t]] = @ \ {i}]
    /\ ticket' = [ticket EXCEPT ![i] = "drained"]
    /\ NextFollowUp(t)
    /\ UNCHANGED <<holder, phase, accepted, queue, aborted, waiters, stored, retained,
                   settled, timedOut, batch, parent, memory, faults>>

\* Mutant: a failed audit drops the follow-up from pending.
MutAuditDrops(t) ==
    /\ pc[t] = "draining" /\ Head(work[t]) \in stored /\ Fault
    /\ pending' = [pending EXCEPT ![Conv[t]] = @ \ {Head(work[t])}]
    /\ NextFollowUp(t)
    /\ UNCHANGED <<holder, phase, accepted, queue, aborted, waiters, tickets, timedOut, batch,
                   parent, memory>>

\* The audit publish fails: the follow-up stays pending, stored and unconfirmed.
AuditFollowUpFails(t) ==
    /\ pc[t] = "draining" /\ Head(work[t]) \in stored /\ Fault
    /\ NextFollowUp(t)
    /\ UNCHANGED <<lane, tickets, timedOut, batch, parent, memory>>

\* Mutant: the lane is released before the reply is stored.
MutFinishReleases(t) ==
    /\ pc[t] = "running"
    /\ Holds(t) => queue[Conv[t]] = <<>>
    /\ Release(t)
    /\ pc' = [pc EXCEPT ![t] = "finishing"]
    /\ UNCHANGED <<stored, settled, turns, memory, faults>>

\* beforeFinish: closeIfIdle on an empty queue marks the hold closing. A task without
\* the lane has nothing to close.
Finish(t) ==
    LET c == Conv[t] IN
    /\ pc[t] = "running"
    /\ Holds(t) => queue[c] = <<>>
    /\ phase' = [phase EXCEPT ![c] = IF Holds(t) THEN "closing" ELSE @]
    /\ pc' = [pc EXCEPT ![t] = "finishing"]
    /\ UNCHANGED <<holder, accepted, queue, pending, aborted, waiters, tickets, turns,
                   memory, faults>>

\* The loop ends without closeIfIdle having closed the hold: beforeFinish finds the
\* budget spent, or the turn stops with an error. Follow-ups stay queued, and more may
\* still be accepted.
StopEarly(t) ==
    /\ pc[t] = "running"
    /\ \E s \in {"finishing", "failing"} : pc' = [pc EXCEPT ![t] = s]
    /\ UNCHANGED <<lane, tickets, turns, memory, faults>>

\* The assistant row is stored before the lane is released.
PersistReply(t) ==
    /\ pc[t] = "finishing"
    /\ replied' = replied \cup {t}
    /\ pc' = [pc EXCEPT ![t] = "replied"]
    /\ UNCHANGED <<lane, tickets, turns, rows, seen, faults>>

\* memory.addTurn of the reply throws.
PersistReplyFails(t) ==
    /\ pc[t] = "finishing" /\ Fault
    /\ pc' = [pc EXCEPT ![t] = "failing"]
    /\ UNCHANGED <<lane, tickets, turns, memory>>

\* Mutant: the release is left to the finally.
MutRespondHolds(t) ==
    /\ pc[t] \in {"failing", "replied"}
    /\ pc' = [pc EXCEPT ![t] = "responding"]
    /\ UNCHANGED <<lane, tickets, turns, memory, faults>>

\* publishAgentResponse: release, then publish the reply or the error response.
Respond(t) ==
    /\ pc[t] \in {"failing", "replied"}
    /\ Release(t)
    /\ pc' = [pc EXCEPT ![t] = "responding"]
    /\ UNCHANGED <<stored, settled, turns, memory, faults>>

\* handleTask's finally: release again, and take every parked audit. It is reached from a
\* delivered agent.response, or directly when no response could be published.
Finally(t) ==
    /\ \/ pc[t] = "responding" /\ UNCHANGED faults
       \/ pc[t] = "failing" /\ Fault
    /\ \A r \in Rewrites : parent[r] = t => pc[r] \in {"done", "dropped"}
    /\ LET c == Conv[t] IN
       IF Holds(t)
       THEN /\ ticket' = [i \in Inbounds |->
                            IF i \in Undrained(c) \ stored THEN "returned" ELSE ticket[i]]
            /\ batch' = [batch EXCEPT ![t] = retained \cup (Undrained(c) \cap stored)]
            /\ GrantNext(c)
       ELSE /\ batch' = [batch EXCEPT ![t] = retained]
            /\ UNCHANGED <<lane, ticket>>
    /\ retained' = {}
    /\ pc' = [pc EXCEPT ![t] = "flushing"]
    /\ UNCHANGED <<stored, settled, timedOut, work, parent, memory>>

\* flushRetained publishes one parked audit.
FlushAudit(t) ==
    /\ pc[t] = "flushing"
    /\ \E i \in batch[t] :
         /\ batch' = [batch EXCEPT ![t] = @ \ {i}]
         /\ \/ ticket' = [ticket EXCEPT ![i] = "drained"] /\ UNCHANGED <<retained, faults>>
            \/ retained' = retained \cup {i} /\ Fault /\ UNCHANGED ticket
    /\ UNCHANGED <<lane, stored, settled, pc, timedOut, work, parent, memory>>

EndTask(t) ==
    /\ pc[t] = "flushing" /\ batch[t] = {}
    /\ pc' = [pc EXCEPT ![t] = "done"]
    /\ UNCHANGED <<lane, tickets, turns, memory, faults>>

(***************************************************************************)
(* The system.                                                             *)
(***************************************************************************)
Route(i) == RouteReturned(i) \/ RouteDrained(i) \/ PublishTask(i) \/ PublishTaskFails(i)

Drain(t) == StoreFollowUp(t) \/ StoreFollowUpFails(t)
            \/ AuditFollowUp(t) \/ AuditFollowUpFails(t)

Turn(t) == \/ Begin(t) \/ BeginFails(t) \/ TakeQueued(t) \/ Drain(t)
           \/ Finish(t) \/ StopEarly(t) \/ PersistReply(t) \/ PersistReplyFails(t)
           \/ Respond(t) \/ Finally(t) \/ FlushAudit(t) \/ EndTask(t)

Next ==
    \/ \E i \in Inbounds : Inject(i) \/ RouteOwnTask(i) \/ Route(i)
    \/ \E w \in Wakes : PublishWake(w)
    \/ \E t \in Tasks, r \in Rewrites : PublishRewrite(t, r)
    \/ \E t \in Tasks : FailOpen(t) \/ Turn(t)

\* Handlers run to their next await, timers fire, and calls return, except in the tasks
\* that hang. Nothing obliges a message or a wake to arrive.
Fairness ==
    /\ \A i \in Inbounds : WF_vars(Route(i))
    /\ \A t \in Tasks : WF_vars(FailOpen(t))
    /\ \A t \in Tasks \ Hung : WF_vars(Turn(t))

Spec == Init /\ [][Next]_vars /\ Fairness

(***************************************************************************)
(* Properties.                                                             *)
(***************************************************************************)
\* ADR-053 decision 1: at most one turn works on a conversation, unless a waiter was let
\* through by the wait timeout.
OneTurnPerConversation ==
    \A t, u \in Tasks \ timedOut :
        pc[t] \in Working /\ pc[u] \in Working /\ Conv[t] = Conv[u] => t = u

\* The incident behind ADR-053: of two turns that answered on one conversation, one read
\* the other's reply in its history. Neither is blind to the other.
NoBlindTurns ==
    \A t, u \in replied \ timedOut :
        Conv[t] = Conv[u] /\ t # u => t \in seen[u] \/ u \in seen[t]

\* An inbound's text is stored for one turn only: a follow-up stored in its host's turn
\* never gets a task of its own, whichever of store, audit, release and flush failed.
StoredForOneTurn ==
    \A i \in Inbounds :
        /\ Cardinality(rows[i]) <= 1
        /\ rows[i] \ {i} # {} => pc[i] = "none"

\* An unresolved ticket always has someone who will resolve it: the hold it was queued on,
\* the parked list, or a flush in progress.
OpenTicketOwned ==
    \A i \in Inbounds : ticket[i] = "open" =>
        \/ \E c \in Convs : holder[c] # None /\ i \in Undrained(c)
        \/ i \in retained
        \/ \E t \in Tasks : pc[t] = "flushing" /\ i \in batch[t]

\* ADR-053 decision 2: a follow-up is stored only in a turn of its own resolved contact,
\* on its own conversation, and only if it is clean.
SameContactRows ==
    \A i \in Inbounds : \A t \in rows[i] \ {i} :
        /\ {i, t} \subseteq Resolved /\ i \in Clean
        /\ Contact[i] = Contact[t] /\ Conv[i] = Conv[t]

\* The cap holds for what a turn really stored, however often the queue was taken.
InjectionCap ==
    \A t \in Tasks : Cardinality({i \in Inbounds : t \in rows[i] \ {i}}) <= MaxInjections

\* inputSignal means something is queued now: a delegate wait is cut short by a waiting
\* follow-up and not by one already taken.
SignalMeansQueued == \A c \in Convs : aborted[c] <=> queue[c] # <<>>

\* ADR-053 decision 5: a rewrite never waits behind the host whose response it is
\* published in, which would wait for it.
NoWaitOnParent ==
    \A r \in Rewrites : parent[r] # None /\ Waits(r) => holder[Conv[r]] # parent[r]

\* A follow-up is stored for one turn, and for one it may be stored in.
FollowUpStored == StoredForOneTurn /\ SameContactRows

\* What a conversation remembers of its follow-ups is what became of them.
LaneRecordExact == InjectionCap /\ SignalMeansQueued

(***************************************************************************)
(* The strengthening that makes the two turn invariants inductive.         *)
(***************************************************************************)
\* drainInjected only runs with inputs to handle.
DrainingHasWork == \A t \in Tasks : pc[t] = "draining" => work[t] # <<>>

\* A working turn holds its lane until it releases, unless it was let through.
WorkingHolds == \A t \in Tasks \ timedOut : pc[t] \in Working => Holds(t)

\* A reply is stored once, and its task never works again.
RepliedIsOver == \A t \in replied : pc[t] \in {"replied", "responding", "flushing", "done"}

\* A turn in progress has read every reply given on its conversation so far.
HistoryCurrent ==
    \A t \in replied \ timedOut, u \in Tasks \ timedOut :
        /\ pc[u] \in {"running", "draining", "finishing"}
        /\ Conv[t] = Conv[u] /\ t # u
        => t \in seen[u]

LaneInv ==
    /\ TypeOK /\ DrainingHasWork
    /\ WorkingHolds /\ RepliedIsOver /\ HistoryCurrent /\ NoBlindTurns

(***************************************************************************)
(* The abstract specification the lanes implement.                         *)
(***************************************************************************)
\* Where SerialTurns sees a task that is at stage s.
TurnAt(s) == IF s \in Working THEN "working"
             ELSE IF s \in {"responding", "flushing", "done"} THEN "over"
             ELSE "waiting"

TurnMap == [t \in Tasks |-> TurnAt(pc[t])]

Serial == INSTANCE SerialTurns
            WITH turn <- TurnMap, through <- timedOut, history <- replied, read <- seen

\* ADR-053: the lanes, with their injections, hand-backs and failures, amount to turns that
\* run one after the other on the history the one before left. Every step of dispatcher and
\* runtime is a step of SerialTurns or none.
TurnsAreSerial == Serial!Spec

Arrived(i) == ticket[i] # "none" \/ pc[i] # "none"

\* What the model gets to see of an inbound: its row, or the visible failure of its turn.
Answered(i) == rows[i] # {} \/ pc[i] \in {"failing", "responding", "flushing", "done", "dropped"}

\* ADR-053 decision 6: "A hang cannot swallow a message".
EveryInboundAnswered == \A i \in Inbounds : Arrived(i) ~> Answered(i)

\* The email adapter is let on to the next message of a thread, unless the follow-up is
\* stored and only its audit event is missing.
IntakeDecided == \A i \in Inbounds : Arrived(i) ~> (i \in settled \/ i \in retained)

\* Both sides of an inbound come to an end: the sender's and the intake's.
EveryInboundHandled == EveryInboundAnswered /\ IntakeDecided
=============================================================================
