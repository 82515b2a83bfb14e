------------------------------ MODULE Approvals ------------------------------
(***************************************************************************)
(* Approvals (src/autonomy, skills/autonomy, the card-use files of         *)
(* src/secrets): an action the gates blocked is filed as a row pending     *)
(* approval, shown to the principal once, and approved, denied, dismissed  *)
(* or expired by whoever comes first. An approved row is replayed; the     *)
(* replay of a card-use row writes a grant and lets the agent continue.    *)
(*                                                                         *)
(* One action is one SQL statement, or one run of code between two awaits. *)
(* Time is abstract: a row is live, at the edge (its card request is older *)
(* than the 30 minutes, the row filed just after it is not), or past its   *)
(* expiry.                                                                 *)
(***************************************************************************)
EXTENDS Integers, Sequences

CONSTANTS
    Rows,           \* approvals ever raised
    Turns,          \* turns of the coordinator in hand at once
    Reactions,      \* reactions in hand at once
    Channels,       \* the principal's channels, in the safety net's order
    Bindable,       \* channels whose message a reaction can answer
    Queueing,       \* channels that queue a message while they are down
    Wants,          \* what the principal's messages ask
    MaxMessages,    \* bound: answers of the principal
    MaxFaults,      \* bound: process ends, failed sends, publishes, statements and replays
    None

Kinds == Bindable \cup Queueing \cup {"email"}

ASSUME ApprovalsAssumption ==
    /\ Channels \in Seq(Kinds) /\ Channels # <<>>
    /\ {MaxMessages, MaxFaults} \subseteq Nat
    /\ Wants \subseteq {"approved", "denied", "dismissed"}
    /\ None \notin Rows \cup Turns \cup Reactions
    /\ None \notin {"pending", "approved", "denied", "dismissed", "expired", "rejected"}

Deciders == Turns \cup Reactions

VARIABLES
    outcome, age,               \* the row: outcome (None: not filed) and age
    sentAt, claims,             \* notification_sent_at, as the number of its claim (0: NULL)
    bound,                      \* rows with a bound message
    card, ref,                  \* card_use_requests: status (None: no such request for this row),
                                \* and whether approval_short_ref is set
    filing, filedBy,            \* cards whose filing has begun; the turn that filed a row
    dlv,                        \* [agent, net -> a call of deliver]
    swp,                        \* the sweep
    dec,                        \* [Deciders -> a decision in hand]
    shown, queued, lost,        \* rows whose message arrived, is queued, was claimed for nothing
    pings, ghosts,              \* messages sent, per row, and those of them whose send failed
                                \* for the caller though the provider had accepted it
    runs, cont,                 \* replays run, continuations started, per row
    messages, faults

table == <<outcome, age, sentAt, claims, bound>>
cards == <<card, ref, filing, filedBy>>
truth == <<shown, queued, lost, pings, ghosts>>
done == <<runs, cont>>
vars == <<table, cards, dlv, swp, dec, truth, done, messages, faults>>

Deliverers == {"agent", "net"}
Outcomes == {None, "pending", "approved", "denied", "dismissed", "expired", "rejected"}
Statuses == {None, "pending", "approved", "denied", "expired"}
Counts == [Rows -> Nat]

Calls == [at : {"idle", "asked", "found", "sending", "failed"}, row : Rows \cup {None},
          left : Seq(Kinds)]
Decisions == [at : {"idle", "asked", "read", "won", "failed"},
              want : {"approved", "denied", "dismissed"}, row : Rows \cup {None}, seen : Counts]

\* A call of deliver has a row and a channel left to try.
DlvOK ==
    /\ dlv \in [Deliverers -> Calls]
    /\ \A p \in Deliverers : dlv[p].at # "idle" => dlv[p].row \in Rows /\ dlv[p].left # <<>>

\* A decision that was looked up has a row.
DecOK ==
    /\ dec \in [Deciders -> Decisions]
    /\ \A d \in Deciders : dec[d].at \notin {"idle", "asked"} => dec[d].row \in Rows

\* Every variable keeps its type.
TypeOK ==
    /\ outcome \in [Rows -> Outcomes] /\ age \in [Rows -> {"live", "edge", "past"}]
    /\ {sentAt, claims, pings, ghosts, runs, cont} \subseteq Counts
    /\ card \in [Rows -> Statuses]
    /\ {bound, shown, queued, lost, ref} \subseteq SUBSET Rows
    /\ filing \in [Rows -> {"no", "created", "filed"}] /\ filedBy \in [Rows -> Turns \cup {None}]
    /\ DlvOK
    /\ swp \in [at : {"idle", "net", "reconcile", "expire", "settle"}, rows : SUBSET Rows]
    /\ DecOK
    /\ messages \in 0 .. MaxMessages /\ faults \in 0 .. MaxFaults

NoCall == [at |-> "idle", row |-> None, left |-> <<>>]
NoTick == [at |-> "idle", rows |-> {}]
NoDecision == [at |-> "idle", want |-> "approved", row |-> None, seen |-> [r \in Rows |-> 0]]

Init ==
    /\ outcome = [r \in Rows |-> None] /\ age = [r \in Rows |-> "live"]
    /\ sentAt = [r \in Rows |-> 0]
    /\ claims = [r \in Rows |-> 0] /\ bound = {}
    /\ card = [r \in Rows |-> None] /\ ref = {}
    /\ filing = [r \in Rows |-> "no"] /\ filedBy = [r \in Rows |-> None]
    /\ dlv = [p \in Deliverers |-> NoCall] /\ swp = NoTick /\ dec = [d \in Deciders |-> NoDecision]
    /\ shown = {} /\ queued = {} /\ lost = {} /\ pings = [r \in Rows |-> 0]
    /\ ghosts = [r \in Rows |-> 0]
    /\ runs = [r \in Rows |-> 0] /\ cont = [r \in Rows |-> 0]
    /\ messages = 0 /\ faults = 0

Fault == faults < MaxFaults /\ faults' = faults + 1

\* outcome = 'pending_approval' AND expires_at > now().
Pending(r) == outcome[r] = "pending"
IsCard(r) == card[r] # None
Live(r) == Pending(r) /\ age[r] \in {"live", "edge"}

Bump(f, r) == [f EXCEPT ![r] = @ + 1]

(***************************************************************************)
(* Filing.                                                                 *)
(***************************************************************************)
InsertPending(r) == outcome' = [outcome EXCEPT ![r] = "pending"]

\* Turn d, or an agent's (None), has an action blocked: ApprovalTriggerService.request.
File(r, d) ==
    /\ ~IsCard(r) /\ outcome[r] = None
    /\ d # None => dec[d].at = "asked"
    /\ InsertPending(r)
    /\ filedBy' = [filedBy EXCEPT ![r] = d]
    /\ UNCHANGED <<age, sentAt, claims, bound, card, ref, filing, dlv, swp, dec, truth, done,
                   messages, faults>>

\* card-use-request creates the request ...
OpenCard(r, d) ==
    /\ ~IsCard(r) /\ outcome[r] = None
    /\ d # None => dec[d].at = "asked"
    /\ card' = [card EXCEPT ![r] = "pending"]
    /\ filing' = [filing EXCEPT ![r] = "created"] /\ filedBy' = [filedBy EXCEPT ![r] = d]
    /\ UNCHANGED <<table, ref, dlv, swp, dec, truth, done, messages, faults>>

\* ... files its approval ...
FileCard(r) ==
    /\ filing[r] = "created" /\ InsertPending(r)
    /\ filing' = [filing EXCEPT ![r] = "filed"]
    /\ UNCHANGED <<age, sentAt, claims, bound, card, ref, filedBy, dlv, swp, dec, truth, done,
                   messages, faults>>

\* ... and ties the two together.
LinkCard(r) ==
    /\ filing[r] = "filed"
    /\ ref' = ref \cup {r} /\ filing' = [filing EXCEPT ![r] = "no"]
    /\ UNCHANGED <<table, card, filedBy, dlv, swp, dec, truth, done, messages, faults>>

\* When that fails, or the publish after it (linked), the request is settled as expired.
LinkFails(r, linked) ==
    /\ filing[r] = "filed" /\ Fault
    /\ ref' = IF linked THEN ref \cup {r} ELSE ref
    /\ card' = [card EXCEPT ![r] = IF @ = "pending" THEN "expired" ELSE @]
    /\ filing' = [filing EXCEPT ![r] = "no"]
    /\ UNCHANGED <<table, filedBy, dlv, swp, dec, truth, done, messages>>

\* Time passes for row r.
Age(r) ==
    /\ outcome[r] # None
    /\ age[r] # "past"
    /\ age' = [age EXCEPT ![r] = IF @ = "live" /\ IsCard(r) THEN "edge" ELSE "past"]
    /\ UNCHANGED <<outcome, sentAt, claims, bound, cards, dlv, swp, dec, truth, done,
                   messages, faults>>

(***************************************************************************)
(* Delivery: deliver-approval, or the sweep's safety net.                  *)
(***************************************************************************)
AgentDelivers(r, i) ==
    /\ Live(r) /\ dlv["agent"].at = "idle" /\ sentAt[r] = 0
    /\ dlv' = [dlv EXCEPT !["agent"] = [at |-> "asked", row |-> r, left |-> <<Channels[i]>>]]
    /\ UNCHANGED <<table, cards, swp, dec, truth, done, messages, faults>>

\* The row is read again, by its reference.
Look(p) ==
    /\ dlv[p].at = "asked"
    /\ LET r == dlv[p].row IN
       dlv' = [dlv EXCEPT ![p] = IF Live(r) /\ sentAt[r] = 0 THEN [@ EXCEPT !.at = "found"]
                                 ELSE NoCall]
    /\ UNCHANGED <<table, cards, swp, dec, truth, done, messages, faults>>

\* claimNotification: of two callers exactly one gets to send.
CanClaim(r) == sentAt[r] = 0 /\ Pending(r)
Claim(p) ==
    /\ dlv[p].at = "found"
    /\ LET r == dlv[p].row IN
       IF CanClaim(r)
       THEN /\ claims' = Bump(claims, r) /\ sentAt' = [sentAt EXCEPT ![r] = claims'[r]]
            /\ dlv' = [dlv EXCEPT ![p].at = "sending"]
       ELSE dlv' = [dlv EXCEPT ![p] = NoCall] /\ UNCHANGED <<sentAt, claims>>
    /\ UNCHANGED <<outcome, age, bound, cards, swp, dec, truth, done, messages, faults>>

\* The message is out, and bound for reactions; binding is best effort.
Send(p) ==
    /\ dlv[p].at = "sending"
    /\ LET r == dlv[p].row IN
       /\ pings' = Bump(pings, r) /\ shown' = shown \cup {r}
       /\ bound' = IF Head(dlv[p].left) \in Bindable THEN bound \cup {r} ELSE bound
    /\ dlv' = [dlv EXCEPT ![p] = NoCall]
    /\ UNCHANGED <<outcome, age, sentAt, claims, cards, swp, dec, queued, lost, ghosts, done,
                   messages, faults>>

\* The provider has accepted row r's message, and the call that sent it fails all the same.
Ghost(r) == ghosts' = Bump(ghosts, r) /\ shown' = shown \cup {r}

\* The channel is down, or its send fails in a way that may pass: the message is queued, and the
\* claim stands.  The provider may have accepted it before: then it goes out once more.
SendQueued(p) ==
    /\ dlv[p].at = "sending" /\ Head(dlv[p].left) \in Queueing
    /\ LET r == dlv[p].row IN
       /\ queued' = queued \cup {r}
       /\ \/ pings' = Bump(pings, r) /\ UNCHANGED <<shown, ghosts, faults>>
          \/ pings' = Bump(Bump(pings, r), r) /\ Ghost(r) /\ Fault
    /\ dlv' = [dlv EXCEPT ![p] = NoCall]
    /\ UNCHANGED <<table, cards, swp, dec, lost, done, messages>>

\* The channel is back: the mapper binds the message if its row is still live.
Reconnect(r) ==
    /\ r \in queued /\ queued' = queued \ {r} /\ shown' = shown \cup {r}
    /\ bound' = IF Live(r) THEN bound \cup {r} ELSE bound
    /\ UNCHANGED <<outcome, age, sentAt, claims, cards, dlv, swp, dec, lost, pings, ghosts, done,
                   messages, faults>>

\* The send fails for its caller: nothing was sent, or the provider has accepted it.
SendFails(p) ==
    /\ dlv[p].at = "sending" /\ Fault
    /\ \/ UNCHANGED <<shown, pings, ghosts>>
       \/ pings' = Bump(pings, dlv[p].row) /\ Ghost(dlv[p].row)
    /\ dlv' = [dlv EXCEPT ![p].at = "failed"]
    /\ UNCHANGED <<table, cards, swp, dec, queued, lost, done, messages>>

\* The claim is undone; the safety net tries its next channel.
NextChannel(p) ==
    dlv' = [dlv EXCEPT ![p] = IF Len(@.left) = 1 THEN NoCall
                              ELSE [at |-> "asked", row |-> @.row, left |-> Tail(@.left)]]
\* Mutant: a failed send keeps its claim.
MutKeepsClaim(p) ==
    /\ dlv[p].at = "failed" /\ NextChannel(p)
    /\ UNCHANGED <<table, cards, swp, dec, truth, done, messages, faults>>

Release(p) ==
    /\ dlv[p].at = "failed" /\ NextChannel(p)
    /\ sentAt' = [sentAt EXCEPT ![dlv[p].row] = 0]
    /\ UNCHANGED <<outcome, age, claims, bound, cards, swp, dec, truth, done, messages, faults>>

\* The release fails too (the fault of the send counts for both): the claim stands.
ReleaseFails(p) ==
    /\ dlv[p].at = "failed" /\ NextChannel(p)
    /\ lost' = lost \cup {dlv[p].row}
    /\ UNCHANGED <<table, cards, swp, dec, shown, queued, pings, ghosts, done, messages, faults>>

(***************************************************************************)
(* CardUseService: a decision is committed, then published; the publish    *)
(* resumes the waiting agent unless all its tries fail.                    *)
(***************************************************************************)
Continue(r) == (cont' = Bump(cont, r) /\ UNCHANGED faults) \/ (UNCHANGED cont /\ Fault)

Decline(r, status) ==
    IF card[r] = "pending"
    THEN card' = [card EXCEPT ![r] = status] /\ Continue(r)
    ELSE UNCHANGED <<card, cont, faults>>

\* confirm: approved inside the 30 minutes of the request, expired after.
Confirm(r) ==
    IF card[r] = "pending"
    THEN card' = [card EXCEPT ![r] = IF age[r] = "live" THEN "approved" ELSE "expired"]
         /\ Continue(r)
    ELSE UNCHANGED <<card, cont, faults>>

(***************************************************************************)
(* The sweep: safety net, stranded card requests, expiry.                  *)
(***************************************************************************)
SweepVars == <<table, cards, dlv, dec, truth, done, messages, faults>>

TickStarts ==
    /\ swp.at = "idle"
    /\ swp' = [at |-> "net", rows |-> {r \in Rows : Live(r) /\ sentAt[r] = 0}]
    /\ UNCHANGED SweepVars

NetPicks(r) ==
    /\ swp.at = "net" /\ r \in swp.rows /\ dlv["net"].at = "idle"
    /\ dlv' = [dlv EXCEPT !["net"] = [at |-> "asked", row |-> r, left |-> Channels]]
    /\ swp' = [swp EXCEPT !.rows = @ \ {r}]
    /\ UNCHANGED <<table, cards, dec, truth, done, messages, faults>>

\* findStrandedByExpiry.
Stranded == {r \in ref : card[r] = "pending" /\ outcome[r] = "expired"}
\* Mutant: no tick looks for stranded requests.
MutNoReconcile ==
    /\ swp.at = "net" /\ swp.rows = {} /\ dlv["net"].at = "idle"
    /\ swp' = [at |-> "reconcile", rows |-> {}]
    /\ UNCHANGED SweepVars

NetDone ==
    /\ swp.at = "net" /\ swp.rows = {} /\ dlv["net"].at = "idle"
    /\ swp' = [at |-> "reconcile", rows |-> Stranded]
    /\ UNCHANGED SweepVars

\* decline('expired'), which may fail before it commits: logged, and the next row is tried.
SweepSettles(r) ==
    /\ swp.at \in {"reconcile", "settle"} /\ r \in swp.rows
    /\ swp' = [swp EXCEPT !.rows = @ \ {r}]
    /\ Decline(r, "expired") \/ (Fault /\ UNCHANGED <<card, cont>>)
    /\ UNCHANGED <<table, ref, filing, filedBy, dlv, dec, truth, runs, messages>>

FindExpired ==
    /\ swp.at = "reconcile" /\ swp.rows = {}
    /\ swp' = [at |-> "expire", rows |-> {r \in Rows : Pending(r) /\ age[r] = "past"}]
    /\ UNCHANGED SweepVars

\* expireRows: those still pending; their card requests are settled next.
ExpireRows ==
    /\ swp.at = "expire"
    /\ LET expired == {r \in swp.rows : Pending(r)} IN
       /\ outcome' = [r \in Rows |-> IF r \in expired THEN "expired" ELSE outcome[r]]
       /\ swp' = [at |-> "settle", rows |-> {r \in expired : IsCard(r)}]
    /\ UNCHANGED <<age, sentAt, claims, bound, cards, dlv, dec, truth, done, messages, faults>>

TickEnds ==
    /\ swp.at = "settle" /\ swp.rows = {}
    /\ swp' = NoTick
    /\ UNCHANGED SweepVars

(***************************************************************************)
(* Decisions: approve-action, deny-action and dismiss-action in a turn of  *)
(* the coordinator, and reactions.                                         *)
(***************************************************************************)
Decides(d, record) == dec' = [dec EXCEPT ![d] = record]
DecVars == <<table, cards, dlv, swp, truth, done, messages, faults>>

\* An answer of the principal reaches its adapter and will have a turn: its time is the time it
\* arrived, whenever it was written.  What the last turn filed is not this one's.
Receive(d, want) ==
    /\ dec[d].at = "idle" /\ messages < MaxMessages /\ messages' = messages + 1
    /\ Decides(d, [at |-> "asked", want |-> want, row |-> None, seen |-> claims])
    /\ filedBy' = [q \in Rows |-> IF filedBy[q] = d THEN None ELSE filedBy[q]]
    /\ UNCHANGED <<table, card, ref, filing, dlv, swp, truth, done, faults>>

\* Mutant: an undelivered card-use row is not refused.
MutUndelivered(d, r) == filedBy[r] # d /\ dec[d].seen[r] >= sentAt[r]

\* What approve-action asks of a card-use row: its delivery is claimed, this turn did not file
\* it, and the answer did not arrive before that claim.
CardAnswerable(d, r) == sentAt[r] # 0 /\ filedBy[r] # d /\ dec[d].seen[r] >= sentAt[r]

\* resolvePending: a live row, by the number or reference the coordinator gives, or the only one.
Answers(d, r) == Live(r) /\ (dec[d].want = "approved" /\ IsCard(r) => CardAnswerable(d, r))

Read(d) ==
    /\ dec[d].at = "asked"
    /\ \E r \in Rows : /\ Answers(d, r)
                       /\ Decides(d, [at |-> "read", want |-> dec[d].want, row |-> r,
                                      seen |-> dec[d].seen])
    /\ UNCHANGED DecVars

\* Not found, ambiguous or refused: the row stays as it is, and the turn ends.
Refuse(d) ==
    /\ dec[d].at = "asked"
    /\ Decides(d, NoDecision)
    /\ UNCHANGED DecVars

\* A reaction on a bound message.
React(d, r, want) ==
    /\ dec[d].at = "idle" /\ messages < MaxMessages /\ messages' = messages + 1
    /\ r \in bound \cap shown /\ Live(r) /\ want # "dismissed"
    /\ Decides(d, [at |-> "read", want |-> want, row |-> r, seen |-> claims])
    /\ UNCHANGED <<table, cards, dlv, swp, truth, done, faults>>

\* rejectStaleApproval: the recipient the send was approved for has changed since.
RejectStale(d) ==
    /\ dec[d].at = "read" /\ dec[d].want = "approved" /\ ~IsCard(dec[d].row)
    /\ outcome' = [outcome EXCEPT ![dec[d].row] = IF @ = "pending" THEN "rejected" ELSE @]
    /\ Decides(d, NoDecision)
    /\ UNCHANGED <<age, sentAt, claims, bound, cards, dlv, swp, truth, done, messages, faults>>

\* Mutant: resolveRow updates by id alone.
MutResolvable(r) == outcome[r] # None

\* resolveRow: the first to find the row pending decides it, expired or not.
Resolvable(r) == Pending(r)
ResolveRow(d) ==
    /\ dec[d].at = "read"
    /\ LET r == dec[d].row IN
       IF Resolvable(r)
       THEN /\ outcome' = [outcome EXCEPT ![r] = dec[d].want]
            /\ Decides(d, [dec[d] EXCEPT !.at = IF dec[d].want = "approved" THEN "won"
                                                ELSE "failed"])
       ELSE Decides(d, NoDecision) /\ UNCHANGED outcome
    /\ UNCHANGED <<age, sentAt, claims, bound, cards, dlv, swp, truth, done, messages, faults>>

\* The action is replayed; card-use-confirm is the replay of a card-use row.
Replay(d) ==
    /\ dec[d].at = "won"
    /\ LET r == dec[d].row IN
       /\ runs' = Bump(runs, r)
       /\ IF IsCard(r) THEN Confirm(r) ELSE UNCHANGED <<card, cont, faults>>
    /\ Decides(d, NoDecision)
    /\ UNCHANGED <<table, ref, filing, filedBy, dlv, swp, truth, messages>>

\* The replay of a card-use row throws, before it did anything, or times out once it has.
ReplayFails(d) ==
    /\ dec[d].at = "won" /\ IsCard(dec[d].row) /\ Fault
    /\ LET r == dec[d].row
           confirms == card[r] = "pending" /\ age[r] = "live" IN
       /\ runs' = Bump(runs, r)
       /\ \/ UNCHANGED <<card, cont>>
          \/ confirms /\ card' = [card EXCEPT ![r] = "approved"] /\ cont' \in {cont, Bump(cont, r)}
    /\ Decides(d, [dec[d] EXCEPT !.at = "failed"])
    /\ UNCHANGED <<table, ref, filing, filedBy, dlv, swp, truth, messages>>

\* Mutant: the status of a failed replay is stored as it is.
MutStoresFailed(d) ==
    /\ dec[d].at = "failed"
    /\ Decline(dec[d].row, IF dec[d].want = "approved" THEN "failed" ELSE "denied")
    /\ Decides(d, NoDecision)
    /\ UNCHANGED <<table, ref, filing, filedBy, dlv, swp, truth, runs, messages>>

\* What a no, or a failed replay, leaves of a card request is settled; a failure is logged.
Settle(d) ==
    /\ dec[d].at = "failed"
    /\ \/ Decline(dec[d].row, IF dec[d].want = "approved" THEN "expired" ELSE "denied")
       \/ IsCard(dec[d].row) /\ Fault /\ UNCHANGED <<card, cont>>
    /\ Decides(d, NoDecision)
    /\ UNCHANGED <<table, ref, filing, filedBy, dlv, swp, truth, runs, messages>>

\* The process ends: what was in hand is gone, the tables are not.
Crash ==
    /\ Fault
    /\ lost' = lost \cup {dlv[p].row : p \in {p \in Deliverers : dlv[p].at \in {"sending", "failed"}}}
    /\ filing' = [r \in Rows |-> "no"] /\ filedBy' = [r \in Rows |-> None]
    /\ dlv' = [p \in Deliverers |-> NoCall] /\ swp' = NoTick
    /\ dec' = [d \in Deciders |-> NoDecision]
    /\ UNCHANGED <<table, card, ref, shown, queued, pings, ghosts, done, messages>>

Filing ==
    \E r \in Rows : \/ \E d \in Turns \cup {None} : File(r, d) \/ OpenCard(r, d)
                    \/ FileCard(r) \/ LinkCard(r) \/ (\E l \in BOOLEAN : LinkFails(r, l))
                    \/ Age(r)

Delivery ==
    \/ \E r \in Rows, i \in DOMAIN Channels : AgentDelivers(r, i)
    \/ \E r \in Rows : Reconnect(r)
    \/ \E p \in Deliverers : \/ Look(p) \/ Claim(p) \/ Send(p) \/ SendQueued(p) \/ SendFails(p)
                             \/ Release(p) \/ ReleaseFails(p)

Sweep ==
    \/ TickStarts \/ NetDone \/ FindExpired \/ ExpireRows \/ TickEnds
    \/ \E r \in Rows : NetPicks(r) \/ SweepSettles(r)

Deciding ==
    \/ \E d \in Turns, want \in Wants : Receive(d, want)
    \/ \E d \in Reactions, want \in Wants, r \in Rows : React(d, r, want)
    \/ \E d \in Deciders :
        \/ Read(d) \/ Refuse(d) \/ RejectStale(d) \/ ResolveRow(d)
        \/ Replay(d) \/ ReplayFails(d) \/ Settle(d)

Next == Filing \/ Delivery \/ Sweep \/ Deciding \/ Crash

\* The interval timer runs the sweep, and a call that has begun goes on.
Fairness ==
    /\ WF_vars(Sweep)
    /\ \A p \in Deliverers : WF_vars(Look(p) \/ Claim(p) \/ Send(p) \/ Release(p))

Spec == Init /\ [][Next]_vars /\ Fairness

(***************************************************************************)
(* Properties.                                                             *)
(***************************************************************************)
\* An action is replayed at most once, and only if its row is approved; a card is granted only by
\* that replay (resolveRow is the one guard every path shares).
RunOnce ==
    \A r \in Rows : /\ runs[r] <= 1 /\ (runs[r] = 1 => outcome[r] = "approved")
                    /\ (card[r] = "approved" => runs[r] = 1)

\* The agent and the safety net never both send an approval to the principal: a second message
\* follows only a send that failed, or was queued, though the provider had accepted it.
OnePing == \A r \in Rows : pings[r] <= 1 + ghosts[r]

\* A waiting checkout is continued at most once: "a second continuation would double-drive the
\* checkout" (card-use-resume-subscriber.ts:8).
OneContinuation == \A r \in Rows : cont[r] <= 1

\* An approval is sent (but for such sends), run and continued at most once, whoever races for it.
AtMostOnce == RunOnce /\ OnePing /\ OneContinuation

\* A card is approved only for an answer, or a reaction, that reached its adapter after a delivery
\* of that card was begun, however often deliveries fail, are released and begin again.
AnswerFollowsClaim ==
    \A d \in Deciders : dec[d].at = "won" /\ IsCard(dec[d].row) => dec[d].seen[dec[d].row] > 0

\* A live approval is sent, or resolved, or runs out, unless a claim was lost with nothing sent.
EveryApprovalIsSent ==
    \A r \in Rows : Live(r) ~> (pings[r] > 0 \/ ~Live(r) \/ r \in lost)

\* A card request left pending by an expired approval is settled by a later tick, though the
\* process ended between the two.
ExpiredCardSettles ==
    \A r \in Rows : (r \in Stranded) ~> (r \notin Stranded)
==============================================================================
