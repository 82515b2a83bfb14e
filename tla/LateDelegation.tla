---------------------------- MODULE LateDelegation ----------------------------
(***************************************************************************)
(* Late delegation (src/agents/late-delegation*.ts,                        *)
(* src/db/queries/pending-delegations.ts, skills/delegate): an agent hands *)
(* work to a specialist and waits. When the wait ends first, a durable     *)
(* handle is left behind, and the answer that comes later is matched to it *)
(* by the live subscriber or by the sweep, whoever claims it: the agent is *)
(* woken with a result, anything else is noted on the review task.         *)
(*                                                                         *)
(* All delegations are of one specialist from one conversation. One action *)
(* is one statement, or one run of code between two awaits; the audit log, *)
(* the handles and the review tasks survive a crash. Notes that differ in  *)
(* wording only, and the codes a note is scrubbed of, are left out.        *)
(***************************************************************************)
EXTENDS Naturals, FiniteSets

CONSTANTS
    Delegations,    \* delegate agent.task events
    MaxFaults,      \* bound: crashes, failed statements and publishes, stalls of a holder
    None

ASSUME DelegationAssumption ==
    /\ MaxFaults \in Nat /\ {None, "sweep"} \cap Delegations = {}
    /\ None \notin {"running", "pending", "claimed", "resolved", "deleted"}
    /\ None \notin {"result", "other", "never", "open", "closed", "human"}

VARIABLES
    call,       \* [Delegations -> where the delegate handler is]
    answer,     \* the specialist's agent.response in the audit log (never: it died)
    row,        \* pending_delegations.status
    token,      \* claim_token, as the number of its claim
    overdue,    \* rows whose expires_at has passed
    lapsed,     \* claims older than the lease
    linked,     \* rows with a review_task_id
    named,      \* rows with a wake_task_event_id
    review,     \* the review task: open, closed by this mechanism, or by a human
    waits,      \* review tasks that record an outside sender waiting for a reply
    tagged,     \* review tasks tagged reply-pending
    act,        \* [Resolvers -> the handle in hand]
    wakes,      \* wake events in the audit log
    outcomes,   \* delegation.late_resolved events of the audit log, per delegation
    turns,      \* history: wakes that reached the agent runtime
    replied,    \* history: senders a message of a later turn reached
    torn,       \* history: handles whose holder outlived its lease in the bookkeeping or did not
                \* find the outcome, or whose wake is logged and was not handed over
    faults

delegate == <<call, answer>>
handle == <<row, token, overdue, lapsed, linked, named>>
task == <<review, waits, tagged>>
log == <<wakes, outcomes>>
vars == <<delegate, handle, task, act, log, turns, replied, torn, faults>>

\* The live subscriber, for the answer of one delegation each, and the sweep.
Resolvers == Delegations \cup {"sweep"}
NoHandle == [at |-> "idle", of |-> None, kind |-> "note", token |-> 0]

Places == {"idle", "look", "read", "claim", "mark", "name", "publish", "deliver", "turn", "renew",
           "check", "record", "audit", "finalize", "unmark", "release"}

\* A resolver that is at work has a handle in hand.
ActOK ==
    /\ act \in [Resolvers -> [at : Places, of : Delegations \cup {None},
                              kind : {"deliver", "note"}, token : Nat]]
    /\ \A a \in Resolvers : act[a].at # "idle" => act[a].of \in Delegations

\* Every variable keeps its type; only what was claimed has a lapsed lease.
TypeOK ==
    /\ call \in [Delegations -> {"new", "waiting", "timedout", "answered", "over"}]
    /\ answer \in [Delegations -> {None, "result", "other", "never"}]
    /\ row \in [Delegations -> {None, "running", "pending", "claimed", "resolved", "deleted"}]
    /\ {token, outcomes, turns} \subseteq [Delegations -> Nat]
    /\ {overdue, lapsed, linked, named, waits, tagged, wakes, replied, torn}
           \subseteq SUBSET Delegations
    /\ review \in [Delegations -> {None, "open", "closed", "human"}]
    /\ ActOK
    /\ \A d \in lapsed : row[d] \in {"claimed", "resolved"}
    /\ faults \in 0 .. MaxFaults

Init ==
    /\ call = [d \in Delegations |-> "new"] /\ answer = [d \in Delegations |-> None]
    /\ row = [d \in Delegations |-> None] /\ token = [d \in Delegations |-> 0]
    /\ overdue = {} /\ lapsed = {} /\ linked = {} /\ named = {}
    /\ review = [d \in Delegations |-> None] /\ waits = {} /\ tagged = {}
    /\ act = [a \in Resolvers |-> NoHandle]
    /\ wakes = {} /\ outcomes = [d \in Delegations |-> 0]
    /\ turns = [d \in Delegations |-> 0] /\ replied = {} /\ torn = {}
    /\ faults = 0

Fault == faults < MaxFaults /\ faults' = faults + 1
Put(f, d, v) == [f EXCEPT ![d] = v]
Goes(a, at) == act' = [act EXCEPT ![a].at = at]
Idle(a) == act' = [act EXCEPT ![a] = NoHandle]

(***************************************************************************)
(* The delegate call: a claim at dispatch, the wait, and its end.          *)
(***************************************************************************)
Acquire(d) ==
    /\ call[d] = "new"
    /\ \A e \in Delegations : row[e] \notin {"running", "pending"}
    /\ row' = Put(row, d, "running") /\ call' = Put(call, d, "waiting")
    /\ UNCHANGED <<answer, token, overdue, lapsed, linked, named, task, act, log, turns, replied,
                   torn, faults>>

\* The wait's timer fires, or a queued follow-up ends it.
WaitEnds(d) ==
    /\ call[d] = "waiting" /\ call' = Put(call, d, "timedout")
    /\ UNCHANGED <<answer, handle, task, act, log, turns, replied, torn, faults>>

\* The review task is made (not for an interrupted wait), then delegation.timed_out turns the
\* dispatch claim into the handle, unless the sweep has it or the publish or the INSERT fails.
Promote(d) ==
    /\ call[d] = "timedout" /\ call' = Put(call, d, "over")
    /\ \E made \in BOOLEAN :
           /\ review' = IF made THEN Put(review, d, "open") ELSE review
           /\ \/ UNCHANGED waits
              \/ made /\ waits' = waits \cup {d}
           /\ \/ /\ row[d] = "running" /\ row' = Put(row, d, "pending")
                 /\ linked' = (IF made THEN linked \cup {d} ELSE linked)
                 /\ overdue' = overdue \ {d} /\ UNCHANGED faults
              \/ row[d] # "running" /\ UNCHANGED <<row, overdue, linked, faults>>
              \/ Fault /\ UNCHANGED <<row, overdue, linked>>
    /\ UNCHANGED <<answer, token, lapsed, named, tagged, act, log, turns, replied, torn>>

\* The specialist answers: the audit log has it, then the subscribers.
Respond(d) ==
    /\ call[d] # "new" /\ answer[d] = None
    /\ \E kind \in {"result", "other"} : answer' = Put(answer, d, kind)
    /\ act' = [act EXCEPT ![d] = [at |-> "look", of |-> d, kind |-> "note", token |-> 0]]
    /\ UNCHANGED <<call, handle, task, log, turns, replied, torn, faults>>

\* handleResponse reads the handle; the delegate call's own subscriber comes after it.
Look(d) ==
    /\ act[d].at = "look"
    /\ IF row[d] = "pending" THEN Goes(d, "read") /\ UNCHANGED call
       ELSE Idle(d) /\ call' = IF call[d] = "waiting" THEN Put(call, d, "answered") ELSE call
    /\ UNCHANGED <<answer, handle, task, log, turns, replied, torn, faults>>

\* releaseRunning, with its fallback when the DELETE fails; when that fails too, the row stays.
Return(d) ==
    /\ call[d] = "answered" /\ call' = Put(call, d, "over")
    /\ \/ row' = (IF row[d] = "running" THEN Put(row, d, "deleted") ELSE row)
          /\ UNCHANGED faults
       \/ Fault /\ row' \in {row, IF row[d] = "running" THEN Put(row, d, "resolved") ELSE row}
    /\ UNCHANGED <<answer, token, overdue, lapsed, linked, named, task, act, log, turns, replied,
                   torn>>

(***************************************************************************)
(* Time. A live claim is renewed while the woken turn runs, for half an    *)
(* hour; past that it lapses under its holder, as it does under one that   *)
(* stalls in the bookkeeping or has crashed.                               *)
(***************************************************************************)
Expire(d) ==
    /\ d \notin overdue
    /\ row[d] \in {"pending", "claimed"} \/ (row[d] = "running" /\ call[d] \in {"timedout", "over"})
    /\ overdue' = overdue \cup {d}
    /\ UNCHANGED <<delegate, row, token, lapsed, linked, named, task, act, log, turns, replied,
                   torn, faults>>

Holds(a, d) == act[a].of = d /\ token[d] > 0 /\ act[a].token = token[d]

Lapse(d) ==
    /\ row[d] = "claimed" /\ d \notin lapsed
    /\ \A a \in Resolvers : Holds(a, d) =>
           act[a].at \in {"turn", "check", "record", "audit", "finalize"}
    /\ IF \E a \in Resolvers : Holds(a, d) /\ act[a].at # "turn"
       THEN Fault /\ torn' = torn \cup {d}
       ELSE UNCHANGED <<torn, faults>>
    /\ lapsed' = lapsed \cup {d}
    /\ UNCHANGED <<delegate, row, token, overdue, linked, named, task, act, log, turns, replied>>

(***************************************************************************)
(* Resolution: resolveLateDelegation.                                      *)
(***************************************************************************)
\* Mutant: the sweep lists pending rows only.
MutOpen(d) == row[d] = "pending"

\* listOpenPendingDelegations.
Open(d) ==
    \/ row[d] = "pending"
    \/ row[d] = "running" /\ d \in overdue
    \/ row[d] = "claimed" /\ d \in lapsed

\* The tick takes the rows it listed one by one, and looks for an answer in the audit log.
SweepPicks(d) ==
    /\ act["sweep"].at = "idle" /\ Open(d)
    /\ LET answered == answer[d] \in {"result", "other"} IN
       /\ answered \/ d \in overdue
       /\ act' = [act EXCEPT !["sweep"] = [at |-> IF answered THEN "read" ELSE "claim", of |-> d,
                                           kind |-> "note", token |-> 0]]
    /\ UNCHANGED <<delegate, handle, task, log, turns, replied, torn, faults>>

\* classifyLateResponse, on the review task's status as it is now.
Classify(a) ==
    /\ act[a].at = "read"
    /\ LET d == act[a].of
           disposed == d \in linked /\ review[d] \in {"closed", "human"}
       IN  \/ /\ act' = [act EXCEPT ![a].at = "claim",
                     ![a].kind = IF answer[d] = "result" /\ ~disposed THEN "deliver" ELSE "note"]
              /\ UNCHANGED faults
           \* The status could not be read.
           \/ /\ Fault
              /\ act' = [act EXCEPT ![a].at = "claim",
                     ![a].kind = IF answer[d] = "result" THEN "deliver" ELSE "note"]
    /\ UNCHANGED <<delegate, handle, task, log, turns, replied, torn>>

\* Mutant: a claim is taken over however old its lease is.
MutClaimable(d) == row[d] \in {"pending", "running", "claimed"}

\* The WHERE clause of claimPendingDelegation.
Claimable(d) == row[d] \in {"pending", "running"} \/ (row[d] = "claimed" /\ d \in lapsed)

Claim(a) ==
    /\ act[a].at = "claim"
    /\ LET d == act[a].of IN
       \/ /\ Claimable(d)
          /\ row' = Put(row, d, "claimed") /\ token' = [token EXCEPT ![d] = @ + 1]
          /\ lapsed' = lapsed \ {d} /\ UNCHANGED faults
          /\ act' = [act EXCEPT ![a] = [at |-> IF @.kind = "deliver" THEN "mark" ELSE "check",
                                        of |-> d, kind |-> @.kind, token |-> token[d] + 1]]
       \/ ~Claimable(d) /\ Idle(a) /\ UNCHANGED <<row, token, lapsed, faults>>
       \/ Fault /\ Idle(a) /\ UNCHANGED <<row, token, lapsed>>
    /\ UNCHANGED <<delegate, overdue, linked, named, task, log, turns, replied, torn>>

Writable(d) == d \in linked /\ review[d] = "open"

\* markReplyPending never blocks the wake.
Mark(a) ==
    /\ act[a].at = "mark" /\ Goes(a, "name")
    /\ LET d == act[a].of IN
       \/ tagged' = (IF Writable(d) /\ d \in waits THEN tagged \cup {d} ELSE tagged)
          /\ UNCHANGED faults
       \/ Fault /\ UNCHANGED tagged
    /\ UNCHANGED <<delegate, handle, review, waits, log, turns, replied, torn>>

\* setPendingDelegationWakeEventId: the row names the wake before it is published.
Name(a) ==
    /\ act[a].at = "name" /\ Goes(a, "publish")
    /\ \/ named' = named \cup {act[a].of} /\ UNCHANGED faults
       \/ Fault /\ UNCHANGED named
    /\ UNCHANGED <<delegate, row, token, overdue, lapsed, linked, task, log, turns, replied, torn>>

\* Mutant: every attempt mints its own event id.
MutFenced(d) == FALSE

\* The write-ahead insert of the derived wake id meets its primary key.
Fenced(d) == d \in wakes

\* The wake did not go out.
NotSent(a) == Goes(a, "unmark")

Publish(a) ==
    /\ act[a].at = "publish"
    /\ LET d == act[a].of IN
       \/ ~Fenced(d) /\ wakes' = wakes \cup {d} /\ Goes(a, "deliver") /\ UNCHANGED <<torn, faults>>
       \/ Fenced(d) /\ Goes(a, "renew") /\ UNCHANGED <<wakes, torn, faults>>
       \/ Fault /\ NotSent(a) /\ UNCHANGED <<wakes, torn>>
       \* The insert committed and its answer was lost.
       \/ /\ ~Fenced(d) /\ Fault /\ NotSent(a)
          /\ wakes' = wakes \cup {d} /\ torn' = torn \cup {d}
    /\ UNCHANGED <<delegate, handle, task, outcomes, turns, replied>>

\* The bus reaches the agent runtime; the turn runs inside the publish.
Deliver(a) ==
    /\ act[a].at = "deliver" /\ Goes(a, "turn")
    /\ turns' = [turns EXCEPT ![act[a].of] = @ + 1]
    /\ UNCHANGED <<delegate, handle, task, log, replied, torn, faults>>

\* There is no limit on a turn.
TurnEnds(a) ==
    /\ act[a].at = "turn" /\ Goes(a, "renew")
    /\ UNCHANGED <<delegate, handle, task, log, turns, replied, torn, faults>>

Owns(a) == row[act[a].of] = "claimed" /\ token[act[a].of] = act[a].token

\* The lease is refreshed after the wake: a holder that lost it leaves the rest to the next.
Renew(a) ==
    /\ act[a].at = "renew"
    /\ \/ Owns(a) /\ Goes(a, "check") /\ lapsed' = lapsed \ {act[a].of} /\ UNCHANGED <<torn, faults>>
       \/ ~Owns(a) /\ Idle(a) /\ UNCHANGED <<lapsed, torn, faults>>
       \* A refresh that fails does not stop the bookkeeping.
       \/ /\ Fault /\ Goes(a, "check") /\ UNCHANGED lapsed
          /\ torn' = IF Owns(a) /\ act[a].of \notin lapsed THEN torn ELSE torn \cup {act[a].of}
    /\ UNCHANGED <<delegate, row, token, overdue, linked, named, task, log, turns, replied>>

\* hasDelegationLateResolvedAudit; a failed lookup counts as "not yet".
Check(a) ==
    /\ act[a].at = "check"
    /\ \/ /\ Goes(a, IF outcomes[act[a].of] > 0 THEN "finalize" ELSE "record")
          /\ UNCHANGED <<torn, faults>>
       \/ /\ Fault /\ Goes(a, "record")
          /\ torn' = IF outcomes[act[a].of] > 0 THEN torn \cup {act[a].of} ELSE torn
    /\ UNCHANGED <<delegate, handle, task, log, turns, replied>>

Closes(a) == act[a].kind = "deliver" /\ act[a].of \notin waits

\* recordOnReviewTask: close it on delivery, or leave a note.
Record(a) ==
    /\ act[a].at = "record"
    /\ LET d == act[a].of IN
       \/ /\ Goes(a, "audit")
          /\ review' = IF Writable(d) /\ Closes(a) THEN Put(review, d, "closed") ELSE review
          /\ tagged' = IF Writable(d) /\ act[a].kind = "deliver" /\ ~Closes(a)
                       THEN tagged \cup {d} ELSE tagged
          /\ UNCHANGED faults
       \* It could not be written: retried, unless the agent was woken already.
       \/ /\ Writable(d) /\ Fault
             /\ Goes(a, IF act[a].kind = "deliver" \/ d \in named THEN "audit" ELSE "release")
          /\ UNCHANGED task
    /\ UNCHANGED <<delegate, handle, waits, log, turns, replied, torn>>

AuditOutcome(a) ==
    /\ act[a].at = "audit" /\ Goes(a, "finalize")
    /\ \/ outcomes' = [outcomes EXCEPT ![act[a].of] = @ + 1] /\ UNCHANGED faults
       \/ Fault /\ UNCHANGED outcomes
    /\ UNCHANGED <<delegate, handle, task, wakes, turns, replied, torn>>

Finalize(a) ==
    /\ act[a].at = "finalize" /\ Idle(a)
    /\ \/ row' = (IF Owns(a) THEN Put(row, act[a].of, "resolved") ELSE row) /\ UNCHANGED faults
       \/ Fault /\ UNCHANGED row
    /\ UNCHANGED <<delegate, token, overdue, lapsed, linked, named, task, log, turns, replied,
                   torn>>

Unmark(a) ==
    /\ act[a].at = "unmark" /\ Goes(a, "release")
    /\ \/ tagged' = (IF Writable(act[a].of) THEN tagged \ {act[a].of} ELSE tagged)
          /\ UNCHANGED faults
       \/ Fault /\ UNCHANGED tagged
    /\ UNCHANGED <<delegate, handle, review, waits, log, turns, replied, torn>>

\* Mutant: the claim's time is kept.
MutCleared(d) == lapsed

\* claimed_at = NULL.
Cleared(d) == lapsed \ {d}

\* releasePendingDelegationClaim; if it fails, the lease runs out.
Release(a) ==
    /\ act[a].at = "release" /\ Idle(a)
    /\ \/ row' = (IF Owns(a) THEN Put(row, act[a].of, "pending") ELSE row)
          /\ lapsed' = (IF Owns(a) THEN Cleared(act[a].of) ELSE lapsed) /\ UNCHANGED faults
       \/ Fault /\ UNCHANGED <<row, lapsed>>
    /\ UNCHANGED <<delegate, token, overdue, linked, named, task, log, turns, replied, torn>>

(***************************************************************************)
(* The review task, from outside.                                          *)
(***************************************************************************)
\* Mutant: the timed-out turn's own message counts as the answer.
MutCounts(d, own) == TRUE

\* The message is not from one of the origin turns of the review task.
Counts(d, own) == ~own

\* A message reaches the waiting sender: closeAnsweredReviewTasks.
Reply(d, own) ==
    /\ d \in waits
    /\ \/ /\ review' = IF d \in tagged /\ review[d] = "open" /\ Counts(d, own)
                       THEN Put(review, d, "closed") ELSE review
          /\ UNCHANGED faults
       \/ Fault /\ UNCHANGED review
    /\ replied' = IF own THEN replied ELSE replied \cup {d}
    /\ UNCHANGED <<delegate, handle, waits, tagged, act, log, turns, torn>>

\* The principal takes over.
HumanCloses(d) ==
    /\ review[d] = "open" /\ review' = Put(review, d, "human")
    /\ UNCHANGED <<delegate, handle, waits, tagged, act, log, turns, replied, torn, faults>>

\* The process ends and a new one starts: every wait, specialist and resolver is gone.
Crash ==
    /\ Fault
    /\ call' = [d \in Delegations |-> IF call[d] = "new" THEN "new" ELSE "over"]
    /\ answer' = [d \in Delegations |->
                      IF call[d] # "new" /\ answer[d] = None THEN "never" ELSE answer[d]]
    /\ act' = [a \in Resolvers |-> NoHandle]
    /\ torn' = torn \cup {act[a].of : a \in {a \in Resolvers : act[a].at = "deliver"}}
    /\ UNCHANGED <<handle, task, log, turns, replied>>

ResolveStep(a) ==
    \/ Classify(a) \/ Claim(a) \/ Mark(a) \/ Name(a) \/ Publish(a) \/ Deliver(a) \/ Renew(a)
    \/ Check(a) \/ Record(a) \/ AuditOutcome(a) \/ Finalize(a) \/ Unmark(a) \/ Release(a)

CallStep(d) == WaitEnds(d) \/ Promote(d) \/ Return(d)

Next ==
    \/ \E d \in Delegations :
           \/ Acquire(d) \/ CallStep(d) \/ Respond(d) \/ Expire(d) \/ Lapse(d) \/ SweepPicks(d)
           \/ Look(d) \/ HumanCloses(d) \/ \E own \in BOOLEAN : Reply(d, own)
    \/ \E a \in Resolvers : ResolveStep(a) \/ TurnEnds(a)
    \/ Crash

\* A wait has a timer and time passes; statements and publishes answer or fail; every tick goes
\* over every open row.  Nothing makes a woken turn end: its holder's lease lapses.
Fairness ==
    /\ \A d \in Delegations :
           /\ WF_vars(CallStep(d)) /\ WF_vars(Expire(d)) /\ WF_vars(Lapse(d))
           /\ WF_vars(Look(d)) /\ SF_vars(SweepPicks(d))
    /\ \A a \in Resolvers : WF_vars(ResolveStep(a))

Spec == Init /\ [][Next]_vars /\ Fairness

(***************************************************************************)
(* Properties.                                                             *)
(***************************************************************************)
\* However often the handle is claimed, the woken turn runs once: late-delegation.ts:183.
OneWake == \A d \in Delegations : turns[d] <= 1

\* The outcome is audited once, whoever crashes, unless two holders were at it.
OneOutcome == \A d \in Delegations : d \notin torn => outcomes[d] <= 1

\* A review task nobody waits for is closed only when the agent has the result, unless the wake
\* was logged and not handed over.
ClosedHasResult ==
    \A d \in Delegations \ waits : review[d] = "closed" /\ d \notin torn => turns[d] > 0

\* A review task somebody waits for is closed by a message of another turn than the one that
\* timed out.
SenderIsAnswered == \A d \in waits : review[d] = "closed" => d \in replied

\* A review task is closed for a reason: the result was handed over, or its sender answered.
ClosedForAReason == ClosedHasResult /\ SenderIsAnswered

\* Every handle is closed, whatever fails and however long the turns that answers wake, unless a
\* turn that the sweep itself woke never ends: then the sweep waits with it.
EveryHandleCloses ==
    []<>(act["sweep"].at # "turn") =>
        \A d \in Delegations :
            row[d] \in {"running", "pending", "claimed"} ~> row[d] \in {"resolved", "deleted"}

\* When the handle is closed, so that nothing tries again, and so is the review task, the agent
\* has the result: the comment at late-delegation.ts:891.
ResolvedMeansWoken ==
    \A d \in Delegations :
        row[d] = "resolved" /\ review[d] = "closed" => turns[d] > 0
==============================================================================
