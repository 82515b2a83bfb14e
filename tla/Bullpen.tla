------------------------------- MODULE Bullpen -------------------------------
(***************************************************************************)
(* One bullpen thread and one of its participants, the reader              *)
(* (src/memory/bullpen.ts, src/dispatch/bullpen-dispatcher.ts, the         *)
(* bullpen tier of src/agents/runtime.ts). Messages are posted and         *)
(* announced; an announcement wakes the reader, and every other turn of    *)
(* the reader is shown the thread while it is pending. Two watermarks of   *)
(* the reader say what is not shown again: seen_through, and               *)
(* injected_through for a mention that was shown once and left untouched.  *)
(*                                                                         *)
(* createdAt is taken before the transaction that stores the message, so   *)
(* messages may be stored in another order. Dates differ by a millisecond  *)
(* at least, are within the pending window, and 0 stands for NULL.         *)
(***************************************************************************)
EXTENDS Naturals, FiniteSets

CONSTANTS
    Messages, First,    \* First opens the thread
    Mine,               \* messages of the reader
    Mention,            \* messages of others that mention the reader
    Closing,            \* messages sent with close_after
    Cap,                \* message cap of a thread
    Turns,              \* turns of the reader that may run at a time
    MaxFaults,          \* bound: failed statements, publishes and turns, crashes
    None

ASSUME BullpenAssumption ==
    /\ First \in Messages \ Mine /\ Mine \subseteq Messages /\ Mention \subseteq Messages \ Mine
    /\ Closing \subseteq Messages \ {First}
    /\ Cap \in Nat \ {0} /\ MaxFaults \in Nat /\ None \notin Messages

VARIABLES
    clock,      \* the latest createdAt
    post,       \* [Messages -> where a post is]
    date,       \* createdAt
    thread,     \* status, message_count, last_message_at
    notice,     \* [Messages -> the agent.discuss event, or the reader's task made of it]
    reads,      \* the reader's row of bullpen_thread_reads
    turn,       \* [Turns -> a turn of the reader]
    looks,      \* history: turns that were shown the message and ended, up to 2
    handled,    \* history: shown in a turn woken by the thread, or before it acted on the thread
    trailing,   \* history: first shown to a turn after the last time it acted on the thread
    slipped,    \* history: messages stored behind a newer one, or between the two queries of a
                \* showing, and those a turn that was shown nothing stamped
    passed,     \* history: messages last_message_at has gone back behind
    faults

board == <<clock, post, date, thread>>
history == <<looks, handled, trailing, slipped, passed>>
vars == <<board, notice, reads, turn, history, faults>>

NoShowing == [through |-> 0, mention |-> FALSE, already |-> FALSE]
NoTurn == [at |-> "idle", woken |-> FALSE, woke |-> 0, fits |-> "unknown", already |-> FALSE,
           ambient |-> NoShowing, shown |-> {}, acted |-> FALSE, touched |-> {}, reply |-> None]

Posted == {m \in Messages : post[m] = "posted"}
Largest(S) == CHOOSE n \in S : \A k \in S : k <= n
Latest == Largest({date[m] : m \in Posted})

\* Every variable keeps its type, the thread counts its messages and keeps the cap, and no
\* watermark passes the newest message (a stamp of the wall clock would hide what is being stored).
TypeOK ==
    /\ clock \in Nat /\ date \in [Messages -> 0 .. clock]
    /\ post \in [Messages -> {"new", "checked", "posted", "refused"}]
    /\ thread \in [status : {"open", "closed"}, count : 0 .. Cap, last : 0 .. clock]
    /\ thread.count = Cardinality(Posted)
    /\ notice \in [Messages -> {"none", "discuss", "wake", "over"}]
    /\ reads \in [seen : 0 .. Latest, injected : 0 .. Latest]
    /\ \A u \in Turns :
           /\ turn[u].at \in {"idle", "load", "pick", "read", "work", "stamp"}
           /\ {turn[u].woken, turn[u].already, turn[u].acted} \subseteq BOOLEAN
           /\ turn[u].fits \in {"unknown", "yes", "no"}
           /\ {turn[u].woke, turn[u].ambient.through} \subseteq 0 .. clock
           /\ turn[u].touched \subseteq turn[u].shown /\ turn[u].shown \subseteq Posted \ Mine
           /\ turn[u].reply \in Mine \cup {None}
    /\ looks \in [Messages -> 0 .. 2] /\ handled \cup trailing \cup slipped \cup passed \subseteq Posted
    /\ faults \in 0 .. MaxFaults

Init ==
    /\ clock = 1
    /\ post = [m \in Messages |-> IF m = First THEN "posted" ELSE "new"]
    /\ date = [m \in Messages |-> IF m = First THEN 1 ELSE 0]
    /\ thread = [status |-> "open", count |-> 1, last |-> 1]
    /\ notice = [m \in Messages |-> IF m = First THEN "discuss" ELSE "none"]
    /\ reads = [seen |-> 0, injected |-> 0]
    /\ turn = [u \in Turns |-> NoTurn]
    /\ looks = [m \in Messages |-> 0] /\ handled = {} /\ trailing = {} /\ slipped = {} /\ passed = {}
    /\ faults = 0

Fault == faults < MaxFaults /\ faults' = faults + 1
Goes(u, at) == turn' = [turn EXCEPT ![u].at = at]

(***************************************************************************)
(* Posting. The reader posts from one of its turns, the others at any time.*)
(***************************************************************************)
\* WHERE status = 'open' AND message_count < 100.
Writable == thread.status = "open" /\ thread.count < Cap

\* getThread and the checks, then new Date().
Check(m) ==
    /\ post[m] = "new"
    /\ IF m \in Mine
       THEN \E u \in Turns : /\ turn[u].at = "work" /\ turn[u].reply = None
                             /\ turn' = [turn EXCEPT ![u].reply = m]
       ELSE UNCHANGED turn
    /\ IF thread.status = "open" /\ thread.count < Cap
       THEN /\ post' = [post EXCEPT ![m] = "checked"]
            /\ clock' = clock + 1 /\ date' = [date EXCEPT ![m] = clock + 1]
       ELSE post' = [post EXCEPT ![m] = "refused"] /\ UNCHANGED <<clock, date>>
    /\ UNCHANGED <<thread, notice, reads, history, faults>>

\* A message stored now is missed by a showing that has read the thread's row, and by every
\* showing when a newer message is stored already.
Slips(m) ==
    \/ \E u \in Turns : turn[u].at = "read"
    \/ date[m] < Latest

\* The transaction: INSERT, guarded UPDATE, COMMIT; then the publish, which nobody awaits.
Commit(m) ==
    /\ post[m] = "checked"
    /\ IF Writable
       THEN /\ post' = [post EXCEPT ![m] = "posted"]
            /\ thread' = [status |-> IF m \in Closing THEN "closed" ELSE thread.status,
                          count |-> thread.count + 1, last |-> date[m]]
            /\ slipped' = IF Slips(m) THEN slipped \cup {m} ELSE slipped
            /\ passed' = passed \cup {k \in Posted : date[m] < date[k]}
            /\ \/ notice' = [notice EXCEPT ![m] = "discuss"] /\ UNCHANGED faults
               \/ Fault /\ UNCHANGED notice
       ELSE /\ post' = [post EXCEPT ![m] = "refused"]
            /\ UNCHANGED <<thread, notice, slipped, passed, faults>>
    /\ UNCHANGED <<clock, date, reads, turn, looks, handled, trailing>>

CommitFails(m) ==
    /\ post[m] = "checked" /\ Fault
    /\ post' = [post EXCEPT ![m] = "refused"]
    /\ UNCHANGED <<clock, date, thread, notice, reads, turn, history>>

\* bullpen-close, by the creator or the coordinator.
Close ==
    /\ thread.status = "open" /\ thread' = [thread EXCEPT !.status = "closed"]
    /\ UNCHANGED <<clock, post, date, notice, reads, turn, history, faults>>

\* handleDiscuss: a task for the reader, unless the thread cannot be read or is at its cap.
Discuss(m) ==
    /\ notice[m] = "discuss"
    /\ \/ /\ notice' = [notice EXCEPT ![m] = IF m \in Mine \/ thread.count >= Cap THEN "over"
                                             ELSE "wake"]
          /\ UNCHANGED faults
       \/ Fault /\ notice' = [notice EXCEPT ![m] = "over"]
    /\ UNCHANGED <<board, reads, turn, history>>

(***************************************************************************)
(* A turn of the reader: woken by a message of the thread, or on other     *)
(* business.                                                               *)
(***************************************************************************)
Woken(u, m) ==
    /\ turn[u].at = "idle" /\ notice[m] = "wake"
    /\ notice' = [notice EXCEPT ![m] = "over"]
    /\ turn' = [turn EXCEPT ![u] = [NoTurn EXCEPT !.at = "load", !.woken = TRUE]]
    /\ UNCHANGED <<board, reads, history, faults>>

StartOther(u) ==
    /\ turn[u].at = "idle" /\ Goes(u, "pick")
    /\ UNCHANGED <<board, notice, reads, history, faults>>

\* The snapshot of the thread the turn was woken for, which its task tells it to read.
Load(u) ==
    /\ turn[u].at = "load"
    /\ \/ /\ turn' = [turn EXCEPT ![u].at = "pick", ![u].woke = Latest,
                                  ![u].shown = Posted \ Mine]
          /\ UNCHANGED faults
       \/ Fault /\ Goes(u, "pick")
    /\ UNCHANGED <<board, notice, reads, history>>

\* Mutant: the thread is pending until it has been injected.
MutPending == thread.status = "open" /\ thread.last > reads.injected

\* Open, something after seen_through, and the latest message is not the reader's.
Pending ==
    /\ thread.status = "open" /\ thread.last > reads.seen
    /\ \A m \in Posted : date[m] = Latest => m \notin Mine

\* getPendingThreadsForAgent, the query of the threads. Only the block of a turn's first showing
\* is held against the context budget.
Pick(u) ==
    /\ turn[u].at = "pick"
    /\ \/ /\ Pending
          /\ turn' = [turn EXCEPT ![u].at = "read", ![u].already = thread.last <= reads.injected]
          /\ UNCHANGED faults
       \/ /\ turn' = [turn EXCEPT ![u].at = "work", ![u].fits = "yes"]
          /\ (~Pending /\ UNCHANGED faults) \/ Fault
    /\ UNCHANGED <<board, notice, reads, history>>

\* A message after the reader's own latest one mentions the reader.
OpenMention ==
    \E m \in Posted \cap Mention : \A r \in Posted \cap Mine : date[r] < date[m]

\* The query of the messages, and the block in the prompt unless it does not fit.
Read(u) ==
    /\ turn[u].at = "read"
    /\ \/ /\ turn' = [turn EXCEPT
                 ![u].at = "work", ![u].fits = "yes", ![u].shown = Posted \ Mine,
                 ![u].ambient = [through |-> Latest, mention |-> OpenMention,
                                 already |-> turn[u].already]]
          /\ UNCHANGED faults
       \/ /\ turn[u].fits = "unknown" /\ UNCHANGED faults
          /\ turn' = [turn EXCEPT ![u].at = "work", ![u].fits = "no"]
       \/ Fault /\ turn' = [turn EXCEPT ![u].at = "work", ![u].fits = "yes"]
    /\ UNCHANGED <<board, notice, reads, history>>

\* Before each further round of the model the block is made again.
NextRound(u) ==
    /\ turn[u].at = "work" /\ turn[u].reply = None /\ turn[u].fits = "yes"
    /\ Goes(u, "pick")
    /\ UNCHANGED <<board, notice, reads, history, faults>>

\* A reply that was stored, or another call that carries the thread: it acts on what the turn has
\* been shown so far.
Act(u) ==
    /\ turn[u].at = "work"
    /\ LET touch == [turn[u] EXCEPT !.reply = None, !.acted = TRUE, !.touched = turn[u].shown] IN
       \/ /\ turn[u].reply # None /\ post[turn[u].reply] = "posted"
          /\ turn' = [turn EXCEPT ![u] = touch]
       \/ /\ turn[u].reply # None /\ post[turn[u].reply] = "refused"
          /\ turn' = [turn EXCEPT ![u].reply = None]
       \/ /\ turn[u].reply = None /\ turn[u].touched # turn[u].shown
          /\ turn' = [turn EXCEPT ![u] = touch]
    /\ UNCHANGED <<board, notice, reads, history, faults>>

End(u) ==
    /\ turn[u].at = "work" /\ turn[u].reply = None
    /\ Goes(u, "stamp")
    /\ looks' = [m \in Messages |-> IF m \in turn[u].shown /\ looks[m] < 2 THEN looks[m] + 1
                                    ELSE looks[m]]
    /\ handled' = handled \cup (IF turn[u].woken THEN turn[u].shown ELSE turn[u].touched)
    /\ trailing' = IF turn[u].acted THEN trailing \cup (turn[u].shown \ turn[u].touched)
                   ELSE trailing
    /\ UNCHANGED <<board, notice, reads, slipped, passed, faults>>

\* A turn that ends in an error stamps nothing.
TurnFails(u) ==
    /\ turn[u].at \in {"load", "pick", "read", "work"} /\ turn[u].reply = None /\ Fault
    /\ turn' = [turn EXCEPT ![u] = NoTurn]
    /\ UNCHANGED <<board, notice, reads, history>>

\* Mutant: an untouched mention is seen the first time it is shown.
MutHandled(t) == TRUE

\* selectThreadsToWatermark: what goes to seen_through, the rest being deferred.
Handled(t) == t.woken \/ ~t.ambient.mention \/ t.ambient.already \/ t.acted

\* Mutant: the live last_message_at is stamped.
MutThrough(t) == thread.last

\* Mutant: the wall clock is stamped.
MutNow(t) == clock

\* SHOWN_THROUGH_SQL of what the turn was shown.
Through(t) ==
    LET shown == IF t.ambient.through > 0 THEN t.ambient.through ELSE t.woke
    IN  IF shown = 0 \/ shown > thread.last THEN thread.last ELSE shown

\* A turn that was shown nothing and not woken by the thread leaves its row alone.
Silent(t) == ~t.woken /\ t.ambient.through = 0

\* markThreadsSeen or recordUnhandledInjection; a failure is only logged.
Stamp(u) ==
    /\ turn[u].at = "stamp" /\ turn' = [turn EXCEPT ![u] = NoTurn]
    /\ LET t == turn[u] IN
       \/ Silent(t) /\ UNCHANGED <<reads, slipped, faults>>
       \/ /\ ~Silent(t) /\ UNCHANGED faults
          /\ reads' = IF Handled(t) THEN [reads EXCEPT !.seen = Largest({@, Through(t)})]
                      ELSE [reads EXCEPT !.injected = Largest({@, Through(t)})]
          /\ slipped' = IF t.woke = 0 /\ t.ambient.through = 0
                        THEN slipped \cup (Posted \ t.shown) ELSE slipped
       \/ ~Silent(t) /\ Fault /\ UNCHANGED <<reads, slipped>>
    /\ UNCHANGED <<board, notice, looks, handled, trailing, passed>>

\* The process ends: turns, posts and announcements are gone, what was stored is not.
Crash ==
    /\ Fault
    /\ post' = [m \in Messages |-> IF post[m] = "checked" THEN "refused" ELSE post[m]]
    /\ notice' = [m \in Messages |-> IF notice[m] = "none" THEN "none" ELSE "over"]
    /\ turn' = [u \in Turns |-> NoTurn]
    /\ UNCHANGED <<clock, date, thread, reads, history>>

PostStep(m) == Commit(m) \/ CommitFails(m)
TurnStep(u) == Load(u) \/ Pick(u) \/ Read(u) \/ Act(u) \/ End(u) \/ TurnFails(u) \/ Stamp(u)

Next ==
    \/ \E m \in Messages : Check(m) \/ PostStep(m) \/ Discuss(m)
    \/ \E u \in Turns : TurnStep(u) \/ NextRound(u) \/ StartOther(u)
    \/ \E u \in Turns, m \in Messages : Woken(u, m)
    \/ Close \/ Crash

\* Calls return, a turn has finitely many rounds and comes to its end, and the reader goes on
\* having other turns whose block fits: docs/adr/043-bullpen-pending-window.md relies on the next
\* one. Nothing makes anyone post, and no announcement need arrive.
Fairness ==
    /\ \A m \in Messages : WF_vars(PostStep(m))
    /\ \A u \in Turns :
           /\ WF_vars(Load(u) \/ Pick(u) \/ Read(u) \/ Stamp(u)) /\ SF_vars(End(u))
           /\ WF_vars(turn[u].reply # None /\ Act(u)) /\ SF_vars(StartOther(u))
           /\ SF_vars(turn[u].fits = "unknown" /\ Read(u) /\ turn'[u].fits = "yes")

Spec == Init /\ [][Next]_vars /\ Fairness

(***************************************************************************)
(* Properties.                                                             *)
(***************************************************************************)
\* What seen_through covers was shown to the reader in a turn that ended, except messages that
\* slipped in.
SeenWasShown == \A m \in Posted \ (Mine \cup slipped) : date[m] <= reads.seen => looks[m] > 0

\* The reader has posted after the message.
Answered(m) == \E r \in Posted \cap Mine : date[r] > date[m]

\* A mention that nobody acted on is retired after two turns at the earliest that were shown it,
\* unless it slipped in or last_message_at, which already_injected is computed from, went back behind
\* it: docs/adr/043-bullpen-pending-window.md:37.  Not so a mention that a turn was shown after it
\* had acted: that turn counts as acting on all it was shown, and retires it at first sight.
SecondLook ==
    \A m \in (Posted \cap Mention) \ (slipped \cup passed \cup trailing) :
        date[m] <= reads.seen /\ ~Answered(m) => m \in handled \/ looks[m] = 2

\* The same of every mention that is not trailing.
EveryMentionHasSecondLook ==
    \A m \in (Posted \cap Mention) \ trailing :
        date[m] <= reads.seen /\ ~Answered(m) => m \in handled \/ looks[m] = 2

\* A mention that nobody acted on is shown twice though its announcement may be lost, as long as
\* the thread stays open, the reader does not post past it, nothing slips in and no turn that is
\* shown it has acted before.
MentionIsShownAgain ==
    \A m \in Mention :
        post[m] = "posted" ~> \/ m \in handled \/ looks[m] = 2 \/ m \in trailing
                             \/ thread.status = "closed" \/ Answered(m) \/ slipped # {}
==============================================================================
