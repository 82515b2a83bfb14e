--------------------------- MODULE BullpenProofs ---------------------------
(***************************************************************************)
(* Proofs about Bullpen, for every set of messages, every number of turns  *)
(* of the reader at a time and every number of failures: its types and     *)
(* counts, that the seen watermark covers what was shown, and that a       *)
(* mention left alone has its second look.                                 *)
(*                                                                         *)
(* The argument follows the dates. A message that is stored later is newer *)
(* than all that is there, or has slipped in; so what a watermark or a     *)
(* showing covers is what was there when it was made, and that was shown   *)
(* (TurnOK, ReadsOK).                                                      *)
(***************************************************************************)
EXTENDS Bullpen, FiniteSetTheorems, TLAPS

Places == {"idle", "load", "pick", "read", "work", "stamp"}
Showing == [through : Nat, mention : BOOLEAN, already : BOOLEAN]
Turn == [at : Places, woken : BOOLEAN, woke : Nat, fits : {"unknown", "yes", "no"},
         already : BOOLEAN, ambient : Showing, shown : SUBSET Messages, acted : BOOLEAN,
         touched : SUBSET Messages, reply : Mine \cup {None}]

\* The types of the variables, as functions and records.
Typed ==
    /\ clock \in Nat /\ date \in [Messages -> Nat]
    /\ post \in [Messages -> {"new", "checked", "posted", "refused"}]
    /\ thread \in [status : {"open", "closed"}, count : 0 .. Cap, last : Nat]
    /\ notice \in [Messages -> {"none", "discuss", "wake", "over"}]
    /\ reads \in [seen : Nat, injected : Nat]
    /\ turn \in [Turns -> Turn]
    /\ looks \in [Messages -> 0 .. 2]
    /\ handled \subseteq Messages /\ trailing \subseteq Messages
    /\ slipped \subseteq Messages /\ passed \subseteq Messages
    /\ faults \in 0 .. MaxFaults

\* Some message is the newest.
Newest == \E m \in Posted : \A k \in Posted : date[k] <= date[m]

\* The thread has its first message, counts its messages, and last_message_at is the date of one of
\* them, ahead of all it has not gone back behind.
ThreadOK ==
    /\ First \in Posted /\ Newest
    /\ IsFiniteSet(Posted) /\ thread.count = Cardinality(Posted)
    /\ \E m \in Posted : thread.last = date[m]
    /\ \A m \in Posted \ passed : date[m] <= thread.last

\* No two messages have the same date, and none is ahead of the clock.
DatesOK ==
    /\ \A m \in Messages : date[m] <= clock
    /\ \A m \in Messages : post[m] \in {"checked", "posted"} => date[m] > 0
    /\ \A m, k \in Messages : date[m] = date[k] /\ date[m] > 0 => m = k

\* What the reader is to be shown, and of it what already_injected is right about.
Owed == Posted \ (Mine \cup slipped)
Firm == Owed \ passed

\* What the histories speak of was posted.
HistoryOK ==
    /\ handled \subseteq Posted /\ trailing \subseteq Posted
    /\ slipped \subseteq Posted /\ passed \subseteq Posted

\* No watermark passes the newest message, and both cover only what a finished turn was shown.
ReadsOK ==
    /\ reads.seen <= Latest /\ reads.injected <= Latest
    /\ \A m \in Owed : date[m] <= reads.seen \/ date[m] <= reads.injected => looks[m] > 0

\* What a turn was shown is all there is up to the date it will stamp.
Covers(t) ==
    /\ t.woke <= Latest /\ t.ambient.through <= Latest
    /\ t.shown \subseteq Posted \ Mine /\ t.touched \subseteq t.shown
    /\ \A m \in Owed : date[m] <= t.woke \/ date[m] <= t.ambient.through => m \in t.shown

\* A showing without an open mention: every mention up to it is answered.
NoneOpen(t) ==
    t.ambient.through > 0 /\ ~t.ambient.mention =>
        \A m \in Owed \cap Mention : date[m] <= t.ambient.through => Answered(m)

\* A showing that was already injected: it was shown in a turn before, and in this one.
ShownBefore(t) ==
    /\ t.at = "read" /\ t.already => \A m \in Firm : looks[m] > 0
    /\ t.ambient.already =>
           \A m \in Firm : date[m] <= t.ambient.through => looks[m] > 0
    /\ t.ambient.already /\ t.at = "stamp" =>
           \A m \in Firm : date[m] <= t.ambient.through => looks[m] = 2

\* A turn that is over has left its mark on what it was shown.
Marked(t) ==
    t.at = "stamp" => /\ \A m \in t.shown : looks[m] > 0
                      /\ t.woken \/ t.acted => t.shown \subseteq handled \cup trailing

TurnOK(t) == Covers(t) /\ NoneOpen(t) /\ ShownBefore(t) /\ Marked(t)

PoolInv ==
    /\ Typed /\ ThreadOK /\ DatesOK /\ HistoryOK /\ ReadsOK /\ SecondLook
    /\ \A u \in Turns : TurnOK(turn[u])

(***************************************************************************)
(* Largest, and the date of the newest message.                            *)
(***************************************************************************)
LEMMA LargestIs ==
    ASSUME NEW S \in SUBSET Nat, NEW n \in S, \A k \in S : k <= n
    PROVE  Largest(S) = n
<1>1. Largest(S) \in S /\ \A k \in S : k <= Largest(S)
  BY DEF Largest
<1>2. Largest(S) \in Nat /\ n \in Nat /\ Largest(S) <= n /\ n <= Largest(S)
  BY <1>1
<1> QED
  BY <1>2

LEMMA LargestOfTwo ==
    ASSUME NEW a \in Nat, NEW b \in Nat
    PROVE  Largest({a, b}) = IF a <= b THEN b ELSE a
<1>1. CASE a <= b
  BY <1>1, LargestIs
<1>2. CASE ~(a <= b)
  BY <1>2, LargestIs
<1> QED
  BY <1>1, <1>2

LEMMA LargestDate ==
    ASSUME NEW P \in SUBSET Messages, NEW d \in [Messages -> Nat],
           \E m \in P : \A k \in P : d[k] <= d[m]
    PROVE  LET L == Largest({d[m] : m \in P})
           IN  L \in Nat /\ (\A k \in P : d[k] <= L) /\ (\E m \in P : d[m] = L)
<1>1. PICK m \in P : \A k \in P : d[k] <= d[m]
  OBVIOUS
<1>2. Largest({d[k] : k \in P}) = d[m]
  BY <1>1, LargestIs
<1> QED
  BY <1>1, <1>2

LEMMA LatestDate ==
    ASSUME date \in [Messages -> Nat], Newest
    PROVE  /\ Latest \in Nat /\ \A k \in Posted : date[k] <= Latest
           /\ \E m \in Posted : date[m] = Latest
BY LargestDate DEF Newest, Latest, Posted

LEMMA LatestDateNext ==
    ASSUME (date \in [Messages -> Nat])', Newest'
    PROVE  /\ (Latest \in Nat)' /\ (\A k \in Posted : date[k] <= Latest)'
           /\ (\E m \in Posted : date[m] = Latest)'
<1>1. Posted' \in SUBSET Messages
  BY DEF Posted
<1> QED
  BY <1>1, LargestDate DEF Newest, Latest

(***************************************************************************)
(* Types.                                                                  *)
(***************************************************************************)
LEMMA NoTurnIsTurn == NoTurn \in Turn
BY DEF NoTurn, NoShowing, Turn, Showing, Places

LEMMA FaultType ==
    ASSUME faults \in 0 .. MaxFaults, Fault \/ UNCHANGED faults
    PROVE  faults' \in 0 .. MaxFaults
BY BullpenAssumption DEF Fault

LEMMA GoesType ==
    ASSUME turn \in [Turns -> Turn], NEW u \in Turns, NEW at \in Places, Goes(u, at)
    PROVE  turn' \in [Turns -> Turn]
BY DEF Goes, Turn

LEMMA FitsType ==
    ASSUME NEW t \in Turn, NEW fits \in {"yes", "no"}
    PROVE  [t EXCEPT !.at = "work", !.fits = fits] \in Turn
BY DEF Turn, Places

LEMMA StampType ==
    ASSUME NEW t \in Turn
    PROVE  [t EXCEPT !.at = "stamp"] \in Turn
BY DEF Turn, Places

LEMMA ShownType ==
    ASSUME NEW t \in Turn, NEW shown \in SUBSET Messages, NEW ambient \in Showing
    PROVE  [t EXCEPT !.at = "work", !.fits = "yes", !.shown = shown, !.ambient = ambient] \in Turn
BY DEF Turn, Places

LEMMA InitTyped == Init => Typed
<1> SUFFICES ASSUME Init PROVE Typed
  OBVIOUS
<1>1. turn \in [Turns -> Turn]
  BY NoTurnIsTurn DEF Init
<1>2. faults \in 0 .. MaxFaults /\ 1 \in 0 .. Cap
  BY BullpenAssumption DEF Init
<1> QED
  BY <1>1, <1>2 DEF Init, Typed

LEMMA PostTyped ==
    ASSUME Typed, NEW m \in Messages, Check(m) \/ PostStep(m) \/ Discuss(m)
    PROVE  Typed'
<1>1. CASE Check(m)
  <2>1. turn' \in [Turns -> Turn]
    BY <1>1 DEF Check, Typed, Turn
  <2>2. clock' \in Nat /\ date' \in [Messages -> Nat]
    BY <1>1 DEF Check, Typed
  <2> QED
    BY <1>1, <2>1, <2>2 DEF Check, Typed, history
<1>2. CASE Commit(m)
  <2>1. faults' \in 0 .. MaxFaults
    BY <1>2, FaultType DEF Commit, Typed
  <2>2. thread' \in [status : {"open", "closed"}, count : 0 .. Cap, last : Nat]
    BY <1>2, BullpenAssumption DEF Commit, Writable, Typed
  <2>3. slipped' \subseteq Messages /\ passed' \subseteq Messages
    BY <1>2 DEF Commit, Typed, Posted
  <2> QED
    BY <1>2, <2>1, <2>2, <2>3 DEF Commit, Typed
<1>3. CASE CommitFails(m)
  BY <1>3, FaultType DEF CommitFails, Typed, history
<1>4. CASE Discuss(m)
  BY <1>4, FaultType DEF Discuss, Typed, board, history
<1> QED
  BY <1>1, <1>2, <1>3, <1>4 DEF PostStep

LEMMA TurnTyped ==
    ASSUME Typed, Newest, NEW u \in Turns,
           TurnStep(u) \/ NextRound(u) \/ StartOther(u) \/ \E m \in Messages : Woken(u, m)
    PROVE  Typed'
<1>0. Latest \in Nat
  BY LatestDate DEF Typed
<1>1. CASE Load(u)
  <2>1. faults' \in 0 .. MaxFaults
    BY <1>1, FaultType DEF Load, Typed
  <2>2. turn' \in [Turns -> Turn]
    <3>0. turn[u] \in Turn /\ Posted \ Mine \in SUBSET Messages
      BY DEF Typed, Posted
    <3>1. [turn[u] EXCEPT !.at = "pick"] \in Turn
      BY <3>0 DEF Turn, Places
    <3>2. [turn[u] EXCEPT !.at = "pick", !.woke = Latest, !.shown = Posted \ Mine] \in Turn
      <4> DEFINE seen == Posted \ Mine
      <4> HIDE DEF seen
      <4>1. seen \in SUBSET Messages
        BY <3>0 DEF seen
      <4>2. [turn[u] EXCEPT !.at = "pick", !.woke = Latest, !.shown = seen] \in Turn
        BY <1>0, <3>0, <4>1 DEF Turn, Places
      <4> QED
        BY <4>2 DEF seen
    <3>3. \/ turn' = [turn EXCEPT ![u] = [turn[u] EXCEPT !.at = "pick"]]
          \/ turn' = [turn EXCEPT ![u] = [turn[u] EXCEPT !.at = "pick", !.woke = Latest,
                                                        !.shown = Posted \ Mine]]
      BY <1>1 DEF Load, Goes, Typed
    <3> QED
      BY <3>1, <3>2, <3>3 DEF Typed
  <2> QED
    BY <1>1, <2>1, <2>2 DEF Load, Typed, board, history
<1>2. CASE Pick(u)
  <2>1. faults' \in 0 .. MaxFaults
    BY <1>2, FaultType DEF Pick, Typed
  <2>2. turn' \in [Turns -> Turn]
    BY <1>2 DEF Pick, Typed, Turn, Places
  <2> QED
    BY <1>2, <2>1, <2>2 DEF Pick, Typed, board, history
<1>3. CASE Read(u)
  <2>1. faults' \in 0 .. MaxFaults
    BY <1>3, FaultType DEF Read, Typed
  <2>2. [through |-> Latest, mention |-> OpenMention, already |-> turn[u].already] \in Showing
    BY <1>0 DEF Typed, Turn, Showing, OpenMention
  <2>3. [turn[u] EXCEPT !.at = "work", !.fits = "yes", !.shown = Posted \ Mine,
                        !.ambient = [through |-> Latest, mention |-> OpenMention,
                                     already |-> turn[u].already]] \in Turn
    BY <2>2, ShownType DEF Typed, Posted
  <2>4. \A fits \in {"yes", "no"} : [turn[u] EXCEPT !.at = "work", !.fits = fits] \in Turn
    <3>1. turn[u] \in Turn
      BY DEF Typed
    <3> QED
      BY <3>1, FitsType, Zenon
  <2>5. turn' \in [Turns -> Turn]
    BY <1>3, <2>3, <2>4 DEF Read, Typed
  <2> QED
    BY <1>3, <2>1, <2>5 DEF Read, Typed, board, history
<1>4. CASE Act(u)
  <2>0. turn[u] \in Turn
    BY DEF Typed
  <2>1. [turn[u] EXCEPT !.reply = None, !.acted = TRUE, !.touched = turn[u].shown] \in Turn
    BY <2>0 DEF Turn
  <2>2. [turn[u] EXCEPT !.reply = None] \in Turn
    BY <2>0 DEF Turn
  <2>3. turn' \in [Turns -> Turn]
    BY <1>4, <2>1, <2>2 DEF Act, Typed
  <2> QED
    BY <1>4, <2>3 DEF Act, Typed, board, history
<1>5. CASE End(u)
  <2>1. turn' \in [Turns -> Turn]
    BY <1>5, GoesType DEF End, Typed, Places
  <2>2. looks' \in [Messages -> 0 .. 2]
    BY <1>5 DEF End, Typed
  <2>3. handled' \subseteq Messages /\ trailing' \subseteq Messages
    BY <1>5 DEF End, Typed, Turn
  <2> QED
    BY <1>5, <2>1, <2>2, <2>3 DEF End, Typed, board
<1>6. CASE TurnFails(u)
  <2>1. faults' \in 0 .. MaxFaults
    BY <1>6, FaultType DEF TurnFails, Typed
  <2>2. turn' \in [Turns -> Turn]
    BY <1>6, NoTurnIsTurn DEF TurnFails, Typed
  <2> QED
    BY <1>6, <2>1, <2>2 DEF TurnFails, Typed, board, history
<1>7. CASE Stamp(u)
  <2>1. faults' \in 0 .. MaxFaults
    BY <1>7, FaultType DEF Stamp, Typed
  <2>2. turn' \in [Turns -> Turn]
    BY <1>7, NoTurnIsTurn DEF Stamp, Typed
  <2>3. Through(turn[u]) \in Nat
    BY DEF Through, Typed, Turn, Showing
  <2>4. /\ Largest({reads.seen, Through(turn[u])}) \in Nat
        /\ Largest({reads.injected, Through(turn[u])}) \in Nat
    BY <2>3, LargestOfTwo DEF Typed
  <2>5. reads' \in [seen : Nat, injected : Nat]
    BY <1>7, <2>4 DEF Stamp, Typed
  <2>6. slipped' \subseteq Messages
    BY <1>7 DEF Stamp, Typed, Posted
  <2> QED
    BY <1>7, <2>1, <2>2, <2>5, <2>6 DEF Stamp, Typed, board
<1>8. CASE NextRound(u)
  <2>1. turn' \in [Turns -> Turn]
    BY <1>8, GoesType DEF NextRound, Typed, Places
  <2> QED
    BY <1>8, <2>1 DEF NextRound, Typed, board, history
<1>9. CASE StartOther(u)
  <2>1. turn' \in [Turns -> Turn]
    BY <1>9, GoesType DEF StartOther, Typed, Places
  <2> QED
    BY <1>9, <2>1 DEF StartOther, Typed, board, history
<1>10. ASSUME NEW m \in Messages, Woken(u, m) PROVE Typed'
  <2>1. [NoTurn EXCEPT !.at = "load", !.woken = TRUE] \in Turn
    BY NoTurnIsTurn DEF Turn, Places
  <2>2. turn' \in [Turns -> Turn]
    BY <1>10, <2>1 DEF Woken, Typed
  <2> QED
    BY <1>10, <2>2 DEF Woken, Typed, board, history
<1> QED
  BY <1>1, <1>2, <1>3, <1>4, <1>5, <1>6, <1>7, <1>8, <1>9, <1>10 DEF TurnStep

LEMMA OutsideTyped ==
    ASSUME Typed, Close \/ Crash
    PROVE  Typed'
<1>1. CASE Close
  BY <1>1 DEF Close, Typed, history
<1>2. CASE Crash
  BY <1>2, FaultType, NoTurnIsTurn DEF Crash, Typed, history
<1> QED
  BY <1>1, <1>2

(***************************************************************************)
(* What is shown and covered stays so as messages are added.               *)
(***************************************************************************)
\* A step adds messages that are newer than all there are, or have slipped in, and forgets nothing.
Grows ==
    /\ Posted \subseteq Posted' /\ \A m \in Posted : date'[m] = date[m]
    /\ \A m \in Owed' \ Posted : date'[m] > Latest /\ \A u \in Turns : turn[u].at # "read"
    /\ slipped \subseteq slipped' /\ passed \subseteq passed'
    /\ handled \subseteq handled' /\ trailing \subseteq trailing'
    /\ \A m \in Messages : looks[m] <= looks'[m]
    /\ Latest <= Latest'

LEMMA SameLatest ==
    ASSUME Posted' = Posted, \A m \in Posted : date'[m] = date[m]
    PROVE  Latest' = Latest
<1>1. {date[m] : m \in Posted}' = {date[m] : m \in Posted}
  OBVIOUS
<1> QED
  BY <1>1 DEF Latest

LEMMA SamePosted ==
    ASSUME PoolInv, Typed', Posted' = Posted, \A m \in Posted : date'[m] = date[m],
           slipped \subseteq slipped', passed \subseteq passed', handled \subseteq handled',
           trailing \subseteq trailing',
           \A m \in Messages : looks[m] <= looks'[m]
    PROVE  Grows /\ Owed' \subseteq Posted
<1>1. Latest' = Latest /\ Latest \in Nat
  BY SameLatest, LatestDate DEF PoolInv, Typed, ThreadOK
<1> QED
  BY <1>1 DEF Grows, Owed

LEMMA AnsweredStays ==
    ASSUME Grows, NEW m \in Posted, Answered(m)
    PROVE  Answered(m)'
BY DEF Grows, Answered

LEMMA TurnKept ==
    ASSUME PoolInv, Typed', Grows, Newest', NEW t \in Turn, TurnOK(t),
           t.at = "read" => Owed' \subseteq Posted \/ \E v \in Turns : turn[v].at = "read"
    PROVE  TurnOK(t)'
<1>1. Latest \in Nat /\ Latest' \in Nat
  BY LatestDate, LatestDateNext DEF PoolInv, Typed, ThreadOK
<1>2. Latest \in Nat /\ t.woke \in Nat /\ t.ambient.through \in Nat
  BY <1>1 DEF Turn, Showing
<1>3. \A m \in Owed' : m \in Owed \/ (date'[m] > Latest /\ m \in Messages /\ date'[m] \in Nat)
  BY DEF Grows, Owed, Posted, Typed
<1>4. t.woke <= Latest /\ t.ambient.through <= Latest
  BY DEF TurnOK, Covers
<1>5. \A m \in Owed' :
          date'[m] <= t.woke \/ date'[m] <= t.ambient.through => m \in Owed /\ date'[m] = date[m]
  BY <1>2, <1>3, <1>4 DEF Grows, Owed
<1>6. \A m \in Messages : looks[m] \in 0 .. 2 /\ looks'[m] \in 0 .. 2 /\ looks[m] <= looks'[m]
  BY DEF Grows, PoolInv, Typed
<1>7. Covers(t)'
  <2>1. Latest <= Latest' /\ Posted \subseteq Posted'
    BY DEF Grows
  <2>2. t.woke <= Latest' /\ t.ambient.through <= Latest'
    BY <1>1, <1>2, <1>4, <2>1
  <2> QED
    BY <1>5, <2>1, <2>2 DEF TurnOK, Covers
<1>8. NoneOpen(t)'
  BY <1>5, AnsweredStays DEF TurnOK, NoneOpen, Owed
<1>9. ShownBefore(t)'
  <2>1. ASSUME t.at = "read", t.already, NEW m \in Firm' PROVE looks'[m] > 0
    <3>1. m \in Firm /\ m \in Messages
      BY <2>1 DEF Grows, Firm, Owed, Posted
    <3> QED
      BY <1>6, <2>1, <3>1 DEF TurnOK, ShownBefore
  <2>2. ASSUME NEW m \in Firm', date'[m] <= t.ambient.through
        PROVE  m \in Firm /\ date[m] <= t.ambient.through /\ m \in Messages
    BY <1>5, <2>2 DEF Grows, Firm, Owed, Posted
  <2>3. ASSUME t.ambient.already, NEW m \in Firm', date'[m] <= t.ambient.through
        PROVE  looks'[m] > 0
    BY <1>6, <2>2, <2>3 DEF TurnOK, ShownBefore
  <2>4. ASSUME t.ambient.already, t.at = "stamp", NEW m \in Firm', date'[m] <= t.ambient.through
        PROVE  looks'[m] = 2
    BY <1>6, <2>2, <2>4 DEF TurnOK, ShownBefore
  <2> QED
    BY <2>1, <2>3, <2>4 DEF ShownBefore
<1>10. Marked(t)'
  BY <1>6 DEF Grows, TurnOK, Covers, Marked, Posted
<1> QED
  BY <1>7, <1>8, <1>9, <1>10 DEF TurnOK

LEMMA ReadsKept ==
    ASSUME PoolInv, Typed', Grows, Newest', UNCHANGED reads
    PROVE  ReadsOK' /\ SecondLook'
<1>1. Latest \in Nat /\ Latest' \in Nat /\ Latest <= Latest'
  BY LatestDate, LatestDateNext DEF PoolInv, Typed, ThreadOK, Grows
<1>2. /\ reads.seen \in Nat /\ reads.injected \in Nat
      /\ reads.seen <= Latest /\ reads.injected <= Latest
  BY DEF PoolInv, Typed, ReadsOK
<1>3. \A m \in Owed' : m \in Owed \/ (date'[m] > Latest /\ date'[m] \in Nat)
  BY DEF Grows, Owed, Posted, Typed
<1>4. \A m \in Owed' :
          date'[m] <= reads.seen \/ date'[m] <= reads.injected => m \in Owed /\ date'[m] = date[m]
  BY <1>1, <1>2, <1>3 DEF Grows, Owed
<1>5. \A m \in Messages : looks[m] \in 0 .. 2 /\ looks'[m] \in 0 .. 2 /\ looks[m] <= looks'[m]
  BY DEF Grows, PoolInv, Typed
<1>6. ReadsOK'
  <2>1. reads.seen <= Latest' /\ reads.injected <= Latest'
    BY <1>1, <1>2
  <2>2. \A m \in Owed' : m \in Messages
    BY DEF Owed, Posted
  <2> QED
    BY <1>4, <1>5, <2>1, <2>2 DEF PoolInv, ReadsOK
<1>7. SecondLook'
  <2> SUFFICES ASSUME NEW m \in (Posted \cap Mention)' \ (slipped \cup passed \cup trailing)',
                      date'[m] <= reads.seen, ~Answered(m)'
               PROVE  m \in handled' \/ looks'[m] = 2
    BY DEF SecondLook
  <2>1. m \in Owed' /\ m \in Messages
    BY BullpenAssumption DEF Owed, Posted
  <2>2. m \in Owed /\ date'[m] = date[m]
    BY <1>4, <2>1
  <2>3. m \in (Posted \cap Mention) \ (slipped \cup passed \cup trailing) /\ ~Answered(m)
    BY <2>2, AnsweredStays DEF Grows, Owed
  <2>4. m \in handled \/ looks[m] = 2
    BY <2>2, <2>3 DEF PoolInv, SecondLook
  <2> QED
    BY <1>5, <2>1, <2>4 DEF Grows
<1> QED
  BY <1>6, <1>7

LEMMA BoardKept ==
    ASSUME PoolInv, UNCHANGED board, passed \subseteq passed'
    PROVE  ThreadOK' /\ DatesOK' /\ Posted' = Posted /\ \A m \in Messages : date'[m] = date[m]
<1>1. Posted' = Posted
  BY DEF board, Posted
<1>2. Newest'
  BY <1>1 DEF board, PoolInv, ThreadOK, Newest
<1>3. ThreadOK'
  BY <1>1, <1>2 DEF board, PoolInv, ThreadOK
<1>4. DatesOK'
  BY DEF board, PoolInv, DatesOK
<1> QED
  BY <1>1, <1>3, <1>4 DEF board

\* The turn of a step that leaves the thread, the watermarks and the histories alone.
LEMMA QuietInv ==
    ASSUME PoolInv, Typed', UNCHANGED <<board, reads, history>>,
           NEW u \in Turns, NEW t, turn' = [turn EXCEPT ![u] = t], TurnOK(t)
    PROVE  PoolInv'
<1>1. ThreadOK' /\ DatesOK' /\ Posted' = Posted /\ \A m \in Messages : date'[m] = date[m]
  BY BoardKept DEF history
<1>2. Grows /\ Owed' \subseteq Posted
  <2>1. \A m \in Messages : looks[m] <= looks'[m]
    BY DEF history, PoolInv, Typed
  <2> QED
    BY <1>1, <2>1, SamePosted DEF history, Posted
<1>3. HistoryOK'
  BY <1>1 DEF history, PoolInv, HistoryOK
<1>4. ReadsOK' /\ SecondLook'
  BY <1>1, <1>2, ReadsKept DEF ThreadOK
<1>5. ASSUME NEW v \in Turns PROVE TurnOK(turn[v])'
  <2>1. TurnOK(turn'[v]) /\ turn'[v] \in Turn
    BY DEF PoolInv, Typed
  <2> QED
    BY <1>1, <1>2, <2>1, TurnKept DEF ThreadOK
<1> QED
  BY <1>1, <1>3, <1>4, <1>5 DEF PoolInv

LEMMA FreshTurnOK ==
    ASSUME PoolInv, NEW t, t.woke = 0, t.ambient = NoShowing, t.shown = {},
           t.touched = {}, t.at \notin {"read", "stamp"}
    PROVE  TurnOK(t)
<1>1. Latest \in Nat /\ \A m \in Owed : date[m] \in Nat /\ date[m] > 0
  BY LatestDate DEF PoolInv, Typed, ThreadOK, DatesOK, Owed, Posted
<1>2. t.ambient.through = 0 /\ t.ambient.already = FALSE
  BY DEF NoShowing
<1>3. Covers(t)
  BY <1>1, <1>2 DEF Covers
<1> QED
  BY <1>2, <1>3 DEF TurnOK, NoneOpen, ShownBefore, Marked

\* Only what a turn was shown, the flag of the coming showing and how it ended matter.
LEMMA SameTurnOK ==
    ASSUME NEW s, NEW t, TurnOK(s), t.woke = s.woke, t.ambient = s.ambient, t.shown = s.shown,
           t.touched \in {s.touched, s.shown}, t.at \notin {"read", "stamp"}
    PROVE  TurnOK(t)
BY DEF TurnOK, Covers, NoneOpen, ShownBefore, Marked

(***************************************************************************)
(* The steps of a turn.                                                    *)
(***************************************************************************)
LEMMA LoadInv ==
    ASSUME PoolInv, Typed', NEW u \in Turns, Load(u)
    PROVE  PoolInv'
<1>1. Latest \in Nat
  BY LatestDate DEF PoolInv, Typed, ThreadOK
<1> DEFINE t == [turn[u] EXCEPT !.at = "pick", !.woke = Latest, !.shown = Posted \ Mine]
<1>2. t.at = "pick" /\ t.woke = Latest /\ t.shown = Posted \ Mine /\ t.ambient = turn[u].ambient
      /\ t.touched = turn[u].touched
  BY DEF PoolInv, Typed, Turn
<1>3. TurnOK(t)
  <2> HIDE DEF t
  <2>1. TurnOK(turn[u])
    BY DEF PoolInv
  <2>2. Covers(t)
    BY <1>1, <1>2, <2>1 DEF TurnOK, Covers, Owed
  <2> QED
    BY <1>2, <2>1, <2>2 DEF TurnOK, NoneOpen, ShownBefore, Marked
<1>4. TurnOK([turn[u] EXCEPT !.at = "pick"])
  <2> DEFINE s == [turn[u] EXCEPT !.at = "pick"]
  <2>1. TurnOK(turn[u])
    BY DEF PoolInv
  <2>2. /\ s.at = "pick" /\ s.woke = turn[u].woke
        /\ s.ambient = turn[u].ambient /\ s.shown = turn[u].shown
        /\ s.touched = turn[u].touched
    BY DEF PoolInv, Typed, Turn
  <2> HIDE DEF s
  <2>3. TurnOK(s)
    BY <2>1, <2>2, SameTurnOK
  <2> QED
    BY <2>3 DEF s
<1>5. \/ turn' = [turn EXCEPT ![u] = t]
      \/ turn' = [turn EXCEPT ![u] = [turn[u] EXCEPT !.at = "pick"]]
  BY DEF Load, Goes, PoolInv, Typed
<1> HIDE DEF t
<1> QED
  BY <1>3, <1>4, <1>5, QuietInv DEF Load

LEMMA PickInv ==
    ASSUME PoolInv, Typed', NEW u \in Turns, Pick(u)
    PROVE  PoolInv'
<1> DEFINE already == thread.last <= reads.injected
<1> DEFINE r == [turn[u] EXCEPT !.at = "read", !.already = already]
<1> DEFINE w == [turn[u] EXCEPT !.at = "work", !.fits = "yes"]
<1>1. TurnOK(turn[u])
  BY DEF PoolInv
<1>2. already => \A m \in Firm : looks[m] > 0
  <2> SUFFICES ASSUME already, NEW m \in Firm PROVE looks[m] > 0
    OBVIOUS
  <2>1. date[m] <= thread.last
    BY DEF Firm, Owed, PoolInv, ThreadOK
  <2>2. date[m] \in Nat /\ thread.last \in Nat /\ reads.injected \in Nat
    BY DEF Firm, Owed, Posted, PoolInv, Typed
  <2>3. date[m] <= reads.injected
    BY <2>1, <2>2
  <2> QED
    BY <2>3 DEF Firm, PoolInv, ReadsOK
<1>3. TurnOK(r)
  <2>1. /\ r.at = "read" /\ r.already = already /\ r.woke = turn[u].woke
        /\ r.ambient = turn[u].ambient /\ r.shown = turn[u].shown
        /\ r.touched = turn[u].touched
    BY DEF PoolInv, Typed, Turn
  <2> HIDE DEF r, already
  <2> QED
    BY <1>1, <1>2, <2>1 DEF TurnOK, Covers, NoneOpen, ShownBefore, Marked
<1>4. TurnOK(w)
  <2>1. /\ w.at = "work" /\ w.woke = turn[u].woke
        /\ w.ambient = turn[u].ambient /\ w.shown = turn[u].shown
        /\ w.touched = turn[u].touched
    BY DEF PoolInv, Typed, Turn
  <2> HIDE DEF w
  <2> QED
    BY <1>1, <2>1, SameTurnOK
<1>5. turn' = [turn EXCEPT ![u] = r] \/ turn' = [turn EXCEPT ![u] = w]
  BY DEF Pick, PoolInv, Typed
<1> HIDE DEF r, w
<1> QED
  BY <1>3, <1>4, <1>5, QuietInv DEF Pick

LEMMA ReadInv ==
    ASSUME PoolInv, Typed', NEW u \in Turns, Read(u)
    PROVE  PoolInv'
<1> DEFINE showing == [through |-> Latest, mention |-> OpenMention, already |-> turn[u].already]
<1> DEFINE r == [turn[u] EXCEPT !.at = "work", !.fits = "yes", !.shown = Posted \ Mine,
                                !.ambient = showing]
<1>1. Latest \in Nat /\ \A m \in Owed : m \in Posted /\ date[m] \in Nat /\ date[m] <= Latest
  BY LatestDate DEF PoolInv, Typed, ThreadOK, Owed, Posted
<1>2. TurnOK(turn[u])
  BY DEF PoolInv
<1>3. TurnOK(r)
  <2>1. /\ r.at = "work" /\ r.woke = turn[u].woke /\ r.shown = Posted \ Mine
        /\ r.ambient = showing /\ r.touched = turn[u].touched
    BY DEF PoolInv, Typed, Turn
  <2>2. r.ambient.through = Latest /\ r.ambient.mention = OpenMention
        /\ r.ambient.already = turn[u].already
    BY <2>1
  <2> HIDE DEF r, showing
  <2>3. Covers(r)
    BY <1>1, <1>2, <2>1, <2>2 DEF TurnOK, Covers, Owed
  <2>4. NoneOpen(r)
    <3> SUFFICES ASSUME ~OpenMention, NEW m \in Owed \cap Mention PROVE Answered(m)
      BY <2>2 DEF NoneOpen
    <3>1. m \in Posted \cap Mention /\ m \notin Mine
      BY DEF Owed
    <3>2. PICK q \in Posted \cap Mine : ~(date[q] < date[m])
      BY <3>1 DEF OpenMention
    <3>3. q # m /\ q \in Messages /\ m \in Messages /\ date[q] > 0 /\ date[m] > 0
      BY <3>1, <3>2 DEF Posted, PoolInv, DatesOK
    <3>4. date[q] # date[m] /\ date[q] \in Nat /\ date[m] \in Nat
      BY <3>3 DEF PoolInv, DatesOK, Typed
    <3>5. date[q] > date[m]
      BY <3>2, <3>4
    <3> QED
      BY <3>5 DEF Answered
  <2>5. ShownBefore(r)
    BY <1>2, <2>1, <2>2 DEF Read, TurnOK, ShownBefore
  <2> QED
    BY <2>1, <2>3, <2>4, <2>5 DEF TurnOK, Marked
<1>4. ASSUME NEW fits \in {"yes", "no"}
      PROVE  TurnOK([turn[u] EXCEPT !.at = "work", !.fits = fits])
  <2> DEFINE w == [turn[u] EXCEPT !.at = "work", !.fits = fits]
  <2>1. /\ w.at = "work" /\ w.woke = turn[u].woke
        /\ w.ambient = turn[u].ambient /\ w.shown = turn[u].shown
        /\ w.touched = turn[u].touched
    BY DEF PoolInv, Typed, Turn
  <2> HIDE DEF w
  <2>2. TurnOK(w)
    BY <1>2, <2>1, SameTurnOK
  <2> QED
    BY <2>2 DEF w
<1>5. \/ turn' = [turn EXCEPT ![u] = r]
      \/ \E fits \in {"yes", "no"} :
             turn' = [turn EXCEPT ![u] = [turn[u] EXCEPT !.at = "work", !.fits = fits]]
  BY DEF Read, PoolInv, Typed
<1> HIDE DEF r
<1> QED
  BY <1>3, <1>4, <1>5, QuietInv DEF Read

LEMMA ActInv ==
    ASSUME PoolInv, Typed', NEW u \in Turns, Act(u)
    PROVE  PoolInv'
<1>1. TurnOK(turn[u]) /\ turn[u].at = "work" /\ turn[u] \in Turn
  BY DEF Act, PoolInv, Typed
<1>2. /\ turn' = [turn EXCEPT ![u] = turn'[u]]
      /\ turn'[u].at = "work" /\ turn'[u].woke = turn[u].woke
      /\ turn'[u].ambient = turn[u].ambient /\ turn'[u].shown = turn[u].shown
      /\ turn'[u].touched \in {turn[u].shown, turn[u].touched}
  <2>1. PICK t \in {[turn[u] EXCEPT !.reply = None, !.acted = TRUE, !.touched = turn[u].shown],
                   [turn[u] EXCEPT !.reply = None]} : turn' = [turn EXCEPT ![u] = t]
    BY DEF Act, PoolInv, Typed
  <2>2. /\ t.at = "work" /\ t.woke = turn[u].woke
        /\ t.ambient = turn[u].ambient /\ t.shown = turn[u].shown
        /\ t.touched \in {turn[u].shown, turn[u].touched}
    BY <1>1, <2>1 DEF Turn
  <2>3. turn'[u] = t
    BY <2>1 DEF PoolInv, Typed
  <2> QED
    BY <2>1, <2>2, <2>3
<1>3. TurnOK(turn'[u])
  BY <1>1, <1>2, SameTurnOK
<1> QED
  BY <1>2, <1>3, QuietInv DEF Act

LEMMA BetweenInv ==
    ASSUME PoolInv, Typed', NEW u \in Turns,
           NextRound(u) \/ StartOther(u) \/ TurnFails(u) \/ \E m \in Messages : Woken(u, m)
    PROVE  PoolInv'
<1>1. CASE NextRound(u) \/ StartOther(u)
  <2>1. turn' = [turn EXCEPT ![u] = [turn[u] EXCEPT !.at = "pick"]]
    BY <1>1 DEF NextRound, StartOther, Goes, PoolInv, Typed
  <2>2. TurnOK([turn[u] EXCEPT !.at = "pick"])
    <3> DEFINE w == [turn[u] EXCEPT !.at = "pick"]
    <3>1. /\ w.at = "pick" /\ w.woke = turn[u].woke
          /\ w.ambient = turn[u].ambient /\ w.shown = turn[u].shown
          /\ w.touched = turn[u].touched
      BY DEF PoolInv, Typed, Turn
    <3>2. TurnOK(turn[u])
      BY DEF PoolInv
    <3> HIDE DEF w
    <3>3. TurnOK(w)
      BY <3>1, <3>2, SameTurnOK
    <3> QED
      BY <3>3 DEF w
  <2> QED
    BY <1>1, <2>1, <2>2, QuietInv DEF NextRound, StartOther
<1>2. CASE TurnFails(u)
  <2>1. TurnOK(NoTurn)
    BY FreshTurnOK DEF NoTurn
  <2> QED
    BY <1>2, <2>1, QuietInv DEF TurnFails
<1>3. ASSUME NEW m \in Messages, Woken(u, m) PROVE PoolInv'
  <2>1. TurnOK([NoTurn EXCEPT !.at = "load", !.woken = TRUE])
    BY FreshTurnOK DEF NoTurn
  <2> QED
    BY <1>3, <2>1, QuietInv DEF Woken
<1> QED
  BY <1>1, <1>2, <1>3

\* The end of a turn adds a look to what it was shown, and that has had one already if the showing
\* was already injected.
LEMMA EndHistories ==
    ASSUME PoolInv, Typed', NEW u \in Turns, End(u)
    PROVE  /\ ThreadOK' /\ DatesOK' /\ HistoryOK' /\ Posted' = Posted
           /\ Grows /\ Owed' \subseteq Posted
           /\ \A m \in Messages : /\ looks[m] \in 0 .. 2 /\ looks'[m] \in 0 .. 2
                                  /\ looks'[m] = IF m \in turn[u].shown /\ looks[m] < 2
                                                 THEN looks[m] + 1 ELSE looks[m]
<1>1. /\ ThreadOK' /\ DatesOK' /\ Posted' = Posted /\ \A m \in Messages : date'[m] = date[m]
      /\ slipped' = slipped /\ passed' = passed
  BY BoardKept DEF End
<1>2. \A m \in Messages : /\ looks[m] \in 0 .. 2 /\ looks'[m] \in 0 .. 2
                          /\ looks'[m] = IF m \in turn[u].shown /\ looks[m] < 2
                                         THEN looks[m] + 1 ELSE looks[m]
  BY DEF End, PoolInv, Typed
<1>3. Grows /\ Owed' \subseteq Posted
  <2>1. handled \subseteq handled' /\ trailing \subseteq trailing' /\ \A m \in Messages : looks[m] <= looks'[m]
    BY <1>2 DEF End
  <2> QED
    BY <1>1, <2>1, SamePosted DEF Posted
<1>4. HistoryOK'
  BY <1>1 DEF End, PoolInv, HistoryOK, TurnOK, Covers
<1> QED
  BY <1>1, <1>2, <1>3, <1>4

LEMMA EndTurnOK ==
    ASSUME PoolInv, Typed', NEW u \in Turns, End(u), NEW t \in Turn, t = turn[u],
           NEW s \in Turn, s = [t EXCEPT !.at = "stamp"]
    PROVE  TurnOK(s)'
<1>1. /\ ThreadOK' /\ Posted' = Posted /\ Grows /\ Owed' \subseteq Posted
      /\ \A m \in Messages : /\ looks[m] \in 0 .. 2 /\ looks'[m] \in 0 .. 2
                             /\ looks'[m] = IF m \in t.shown /\ looks[m] < 2
                                            THEN looks[m] + 1 ELSE looks[m]
  BY EndHistories
<1>2. TurnOK(t) /\ t.at = "work"
  BY DEF PoolInv, End
<1>3. TurnOK(t)'
  BY <1>1, <1>2, TurnKept DEF ThreadOK
<1>4. /\ s.at = "stamp" /\ s.woke = t.woke /\ s.ambient = t.ambient /\ s.shown = t.shown
      /\ s.woken = t.woken /\ s.acted = t.acted /\ s.touched = t.touched
  BY DEF Turn
<1>5. Covers(s)' /\ NoneOpen(s)'
  BY <1>3, <1>4 DEF TurnOK, Covers, NoneOpen
<1>6. ShownBefore(s)'
  <2>1. ASSUME t.ambient.already, NEW m \in Firm', date'[m] <= t.ambient.through
        PROVE  looks'[m] = 2 /\ looks'[m] > 0
    <3>1. m \in Firm /\ m \in Owed /\ m \in Messages /\ date'[m] = date[m]
      BY <1>1, <2>1 DEF Grows, Firm, Owed, Posted
    <3>2. m \in t.shown /\ looks[m] > 0
      BY <1>2, <2>1, <3>1 DEF TurnOK, Covers, ShownBefore
    <3> QED
      BY <1>1, <3>1, <3>2
  <2> QED
    BY <1>4, <2>1 DEF ShownBefore
<1>7. Marked(s)'
  <2>1. t.shown \subseteq Messages
    BY DEF Turn
  <2>2. t.woken \/ t.acted => t.shown \subseteq handled' \cup trailing'
    BY DEF End
  <2> QED
    BY <1>1, <1>4, <2>1, <2>2 DEF Marked
<1> QED
  BY <1>5, <1>6, <1>7 DEF TurnOK

LEMMA EndInv ==
    ASSUME PoolInv, Typed', NEW u \in Turns, End(u)
    PROVE  PoolInv'
<1>1. ThreadOK' /\ DatesOK' /\ HistoryOK' /\ Grows /\ Owed' \subseteq Posted
  BY EndHistories
<1>2. ReadsOK' /\ SecondLook'
  BY <1>1, ReadsKept DEF End, ThreadOK
<1>3. ASSUME NEW v \in Turns PROVE TurnOK(turn[v])'
  <2>1. CASE v = u
    <3>1. turn[u] \in Turn /\ [turn[u] EXCEPT !.at = "stamp"] \in Turn
      BY StampType DEF PoolInv, Typed
    <3>2. \A s \in Turn : s = [turn[u] EXCEPT !.at = "stamp"] => TurnOK(s)'
      BY <3>1, EndTurnOK
    <3>3. turn'[v] = [turn[u] EXCEPT !.at = "stamp"] /\ turn'[v] \in Turn
      BY <2>1, <3>1 DEF End, Goes, PoolInv, Typed
    <3> QED
      BY <3>2, <3>3
  <2>2. CASE v # u
    <3>1. turn'[v] = turn[v] /\ turn[v] \in Turn /\ TurnOK(turn[v])
      BY <2>2 DEF End, Goes, PoolInv, Typed
    <3> QED
      BY <1>1, <3>1, TurnKept DEF ThreadOK
  <2> QED
    BY <2>1, <2>2
<1> QED
  BY <1>1, <1>2, <1>3 DEF PoolInv

(***************************************************************************)
(* The stamp.                                                              *)
(***************************************************************************)
LEMMA ThroughBound ==
    ASSUME PoolInv, NEW t \in Turn
    PROVE  /\ Through(t) \in Nat /\ Through(t) <= Latest /\ Latest \in Nat
           /\ t.ambient.through > 0 => Through(t) <= t.ambient.through
           /\ t.ambient.through = 0 /\ t.woke > 0 => Through(t) <= t.woke
<1>1. thread.last \in Nat /\ t.ambient.through \in Nat /\ t.woke \in Nat
  BY DEF PoolInv, Typed, Turn, Showing
<1>2. Latest \in Nat /\ thread.last <= Latest
  BY LatestDate DEF PoolInv, Typed, ThreadOK
<1>3. Through(t) \in Nat /\ Through(t) <= thread.last
  BY <1>1 DEF Through
<1>4. t.ambient.through > 0 => Through(t) <= t.ambient.through
  BY <1>1 DEF Through
<1>5. t.ambient.through = 0 /\ t.woke > 0 => Through(t) <= t.woke
  BY <1>1 DEF Through
<1> QED
  BY <1>1, <1>2, <1>3, <1>4, <1>5

\* Up to its stamp a turn was shown all there was, and what it may retire is settled.
LEMMA StampCovers ==
    ASSUME PoolInv, NEW t \in Turn, TurnOK(t), t.at = "stamp", ~Silent(t),
           t.woke = 0 /\ t.ambient.through = 0 => Owed' \subseteq t.shown,
           Owed' \subseteq Owed, Firm' \subseteq Firm, NEW m \in Owed', date[m] <= Through(t)
    PROVE  /\ looks[m] > 0
           /\ Handled(t) /\ m \in Firm' \cap Mention => Answered(m) \/ m \in handled \cup trailing \/ looks[m] = 2
<1>1. /\ Through(t) \in Nat /\ date[m] \in Nat /\ m \in Owed
      /\ t.ambient.through \in Nat /\ t.woke \in Nat
  BY ThroughBound DEF PoolInv, Typed, Turn, Showing, Owed, Posted
<1>2. t.ambient.through > 0 => date[m] <= t.ambient.through
  BY <1>1, ThroughBound
<1>3. t.ambient.through = 0 /\ t.woke > 0 => date[m] <= t.woke
  BY <1>1, ThroughBound
<1>4. m \in t.shown
  BY <1>1, <1>2, <1>3 DEF TurnOK, Covers
<1>5. looks[m] > 0
  BY <1>4 DEF TurnOK, Marked
<1>6. ASSUME Handled(t), m \in Firm' \cap Mention
      PROVE  Answered(m) \/ m \in handled \cup trailing \/ looks[m] = 2
  <2>1. CASE t.woken \/ t.acted
    BY <1>4, <2>1 DEF TurnOK, Marked
  <2>2. CASE ~t.woken /\ ~t.acted
    <3>1. t.ambient.through > 0 /\ date[m] <= t.ambient.through
      BY <1>1, <1>2, <2>2 DEF Silent
    <3>2. CASE ~t.ambient.mention
      BY <1>1, <1>6, <3>1, <3>2 DEF TurnOK, NoneOpen
    <3>3. CASE t.ambient.already
      BY <1>6, <3>1, <3>3 DEF TurnOK, ShownBefore
    <3> QED
      BY <1>6, <2>2, <3>2, <3>3 DEF Handled
  <2> QED
    BY <2>1, <2>2
<1> QED
  BY <1>5, <1>6

LEMMA StampReads ==
    ASSUME PoolInv, Typed', NEW u \in Turns, turn[u].at = "stamp", ~Silent(turn[u]),
           reads' = IF Handled(turn[u])
                    THEN [reads EXCEPT !.seen = Largest({@, Through(turn[u])})]
                    ELSE [reads EXCEPT !.injected = Largest({@, Through(turn[u])})],
           slipped' = IF turn[u].woke = 0 /\ turn[u].ambient.through = 0
                      THEN slipped \cup (Posted \ turn[u].shown) ELSE slipped,
           UNCHANGED <<board, looks, handled, trailing, passed>>
    PROVE  ReadsOK' /\ SecondLook'
<1> DEFINE t == turn[u]
<1> DEFINE th == Through(turn[u])
<1>1. /\ t \in Turn /\ TurnOK(t) /\ th \in Nat /\ th <= Latest /\ Latest \in Nat
      /\ reads.seen \in Nat /\ reads.injected \in Nat
      /\ reads.seen <= Latest /\ reads.injected <= Latest
  BY ThroughBound DEF PoolInv, Typed, ReadsOK
<1>2. /\ Posted' = Posted /\ date' = date /\ Latest' = Latest
      /\ \A m \in Posted : Answered(m)' <=> Answered(m)
  BY SameLatest DEF board, Posted, Answered
<1>3. slipped \subseteq slipped' /\ Owed' \subseteq Owed /\ Firm' \subseteq Firm
  BY <1>2 DEF Owed, Firm
<1>4. t.woke = 0 /\ t.ambient.through = 0 => Owed' \subseteq t.shown
  BY <1>2 DEF Owed
<1>5. \A m \in Owed' : date[m] <= th => looks[m] > 0
  BY <1>1, <1>3, <1>4, StampCovers
<1>6. \A m \in Owed' : /\ date[m] <= th /\ Handled(t) /\ m \in Firm' \cap Mention
                       => Answered(m) \/ m \in handled \cup trailing \/ looks[m] = 2
  BY <1>1, <1>3, <1>4, StampCovers
<1>7. /\ reads'.seen = reads.seen \/ (reads'.seen = th /\ Handled(t))
      /\ reads'.injected = reads.injected \/ reads'.injected = th
  BY <1>1, LargestOfTwo DEF PoolInv, Typed
<1> HIDE DEF t, th
<1>8. ReadsOK'
  <2>1. reads'.seen <= Latest' /\ reads'.injected <= Latest'
    BY <1>1, <1>2, <1>7
  <2>2. ASSUME NEW m \in Owed', date'[m] <= reads'.seen \/ date'[m] <= reads'.injected
        PROVE  looks'[m] > 0
    <3>1. m \in Owed
      BY <1>3
    <3>2. \/ date[m] <= th
          \/ date[m] <= reads.seen \/ date[m] <= reads.injected
      BY <1>2, <1>7, <2>2
    <3> QED
      BY <1>5, <3>1, <3>2 DEF PoolInv, ReadsOK
  <2> QED
    BY <2>1, <2>2 DEF ReadsOK
<1>9. SecondLook'
  <2> SUFFICES ASSUME NEW m \in (Posted \cap Mention)' \ (slipped \cup passed \cup trailing)',
                      date'[m] <= reads'.seen, ~Answered(m)'
               PROVE  m \in handled' \/ looks'[m] = 2
    BY DEF SecondLook
  <2>1. m \in Owed' /\ m \in Firm' /\ ~Answered(m) /\ m \in Mention
    BY <1>2, BullpenAssumption DEF Owed, Firm
  <2>2. CASE date[m] <= reads.seen
    <3>1. m \in (Posted \cap Mention) \ (slipped \cup passed \cup trailing)
      BY <1>2, <1>3
    <3> QED
      BY <2>1, <2>2, <3>1 DEF PoolInv, SecondLook
  <2>3. CASE ~(date[m] <= reads.seen)
    <3>1. date[m] <= th /\ Handled(t)
      BY <1>2, <1>7, <2>3
    <3> QED
      BY <1>6, <2>1, <3>1
  <2> QED
    BY <2>2, <2>3
<1> QED
  BY <1>8, <1>9

LEMMA StampInv ==
    ASSUME PoolInv, Typed', NEW u \in Turns, Stamp(u)
    PROVE  PoolInv'
<1>1. TurnOK(NoTurn) /\ turn' = [turn EXCEPT ![u] = NoTurn] /\ turn[u].at = "stamp"
  BY FreshTurnOK DEF NoTurn, Stamp
<1>2. CASE UNCHANGED <<reads, slipped>>
  BY <1>1, <1>2, QuietInv DEF Stamp, history
<1>3. CASE ~UNCHANGED <<reads, slipped>>
  <2>1. ~Silent(turn[u])
    BY <1>3 DEF Stamp
  <2>2. /\ reads' = IF Handled(turn[u])
                    THEN [reads EXCEPT !.seen = Largest({@, Through(turn[u])})]
                    ELSE [reads EXCEPT !.injected = Largest({@, Through(turn[u])})]
        /\ slipped' = IF turn[u].woke = 0 /\ turn[u].ambient.through = 0
                      THEN slipped \cup (Posted \ turn[u].shown) ELSE slipped
        /\ UNCHANGED <<board, looks, handled, trailing, passed>>
    BY <1>3 DEF Stamp
  <2>3. ReadsOK' /\ SecondLook'
    BY <1>1, <2>1, <2>2, StampReads
  <2>4. /\ ThreadOK' /\ DatesOK' /\ Posted' = Posted
        /\ \A m \in Messages : date'[m] = date[m]
    BY <2>2, BoardKept
  <2>5. Grows /\ Owed' \subseteq Posted
    <3>1. slipped \subseteq slipped' /\ \A m \in Messages : looks[m] <= looks'[m]
      BY <2>2 DEF PoolInv, Typed
    <3> QED
      BY <2>2, <2>4, <3>1, SamePosted DEF Posted
  <2>6. HistoryOK'
    BY <2>2, <2>4 DEF PoolInv, HistoryOK
  <2>7. ASSUME NEW v \in Turns PROVE TurnOK(turn[v])'
    <3>1. TurnOK(turn'[v]) /\ turn'[v] \in Turn
      BY <1>1 DEF PoolInv, Typed
    <3> QED
      BY <2>4, <2>5, <3>1, TurnKept DEF ThreadOK
  <2> QED
    BY <2>3, <2>4, <2>6, <2>7 DEF PoolInv
<1> QED
  BY <1>2, <1>3

(***************************************************************************)
(* Posting, announcing, closing, and the end of the process.               *)
(***************************************************************************)
\* The invariant of the next state, from what it was shown of the turns.
LEMMA OutsideInv ==
    ASSUME PoolInv, Typed', Grows, ThreadOK', DatesOK', HistoryOK', UNCHANGED reads,
           Owed' \subseteq Posted \/ UNCHANGED turn, \A v \in Turns : TurnOK(turn'[v])
    PROVE  PoolInv'
<1>1. ReadsOK' /\ SecondLook'
  BY ReadsKept DEF ThreadOK
<1>2. ASSUME NEW v \in Turns PROVE TurnOK(turn[v])'
  <2>1. turn'[v] \in Turn /\ TurnOK(turn'[v])
    BY DEF Typed
  <2>2. turn'[v].at = "read" => Owed' \subseteq Posted \/ \E w \in Turns : turn[w].at = "read"
    OBVIOUS
  <2> QED
    BY <2>1, <2>2, TurnKept DEF ThreadOK
<1> QED
  BY <1>1, <1>2 DEF PoolInv

LEMMA CheckInv ==
    ASSUME PoolInv, Typed', NEW m \in Messages, Check(m)
    PROVE  PoolInv'
<1>1. Posted' = Posted /\ m \notin Posted
  BY DEF Check, Posted, PoolInv, Typed
<1>2. /\ \A k \in Messages : k # m => date'[k] = date[k]
      /\ \/ date'[m] = date[m] /\ clock' = clock
         \/ date'[m] = clock + 1 /\ clock' = clock + 1
  BY DEF Check, PoolInv, Typed
<1>3. \A k \in Posted : date'[k] = date[k]
  BY <1>1, <1>2 DEF Posted
<1>4. Grows /\ Owed' \subseteq Posted
  <2>1. \A k \in Messages : looks[k] <= looks'[k]
    BY DEF Check, history, PoolInv, Typed
  <2> QED
    BY <1>1, <1>3, <2>1, SamePosted DEF Check, history
<1>5. ThreadOK'
  <2>1. Newest'
    BY <1>1, <1>3 DEF PoolInv, ThreadOK, Newest
  <2> QED
    BY <1>1, <1>3, <2>1 DEF Check, history, PoolInv, ThreadOK
<1>6. DatesOK'
  <2>1. clock \in Nat /\ \A k \in Messages : date[k] \in Nat /\ date[k] <= clock
    BY DEF PoolInv, Typed, DatesOK
  <2>2. \A k \in Messages : date'[k] <= clock'
    BY <1>2, <2>1
  <2>3. \A k \in Messages : post'[k] \in {"checked", "posted"} => date'[k] > 0
    BY <1>2, <2>1 DEF Check, PoolInv, Typed, DatesOK
  <2>4. \A j, k \in Messages : date'[j] = date'[k] /\ date'[j] > 0 => j = k
    <3> SUFFICES ASSUME NEW j \in Messages, NEW k \in Messages, date'[j] = date'[k],
                        date'[j] > 0, j # k
                 PROVE  FALSE
      OBVIOUS
    <3>1. CASE date'[m] = clock + 1
      BY <1>2, <2>1, <3>1 DEF PoolInv, DatesOK
    <3>2. CASE date'[m] = date[m]
      BY <1>2, <2>1, <3>2 DEF PoolInv, DatesOK
    <3> QED
      BY <1>2, <3>1, <3>2
  <2> QED
    BY <2>2, <2>3, <2>4 DEF DatesOK
<1>7. HistoryOK'
  BY <1>1 DEF Check, history, PoolInv, HistoryOK
<1>8. ASSUME NEW v \in Turns PROVE TurnOK(turn'[v])
  <2>1. TurnOK(turn[v])
    BY DEF PoolInv
  <2>2. CASE turn' = turn
    BY <2>1, <2>2
  <2>3. CASE turn' # turn
    <3>1. PICK u \in Turns : turn[u].at = "work" /\ turn' = [turn EXCEPT ![u].reply = m]
      BY <2>3 DEF Check
    <3>2. CASE v = u
      <4>1. /\ turn'[v].at = "work" /\ turn'[v].woke = turn[v].woke
            /\ turn'[v].ambient = turn[v].ambient /\ turn'[v].shown = turn[v].shown
            /\ turn'[v].touched = turn[v].touched
        BY <3>1, <3>2 DEF PoolInv, Typed, Turn
      <4> QED
        BY <2>1, <4>1, SameTurnOK
    <3>3. CASE v # u
      BY <2>1, <3>1, <3>3 DEF PoolInv, Typed
    <3> QED
      BY <3>2, <3>3
  <2> QED
    BY <2>2, <2>3
<1> QED
  BY <1>4, <1>5, <1>6, <1>7, <1>8, OutsideInv DEF Check

LEMMA RefusedInv ==
    ASSUME PoolInv, Typed', UNCHANGED <<clock, date, reads, history>>,
           thread'.count = thread.count, thread'.last = thread.last,
           \A m \in Messages : post'[m] = post[m] \/ (post[m] = "checked" /\ post'[m] = "refused"),
           \A u \in Turns : TurnOK(turn'[u])
    PROVE  PoolInv'
<1>1. Posted' = Posted
  BY DEF Posted
<1>2. Grows /\ Owed' \subseteq Posted
  <2>1. \A k \in Messages : looks[k] <= looks'[k]
    BY DEF history, PoolInv, Typed
  <2> QED
    BY <1>1, <2>1, SamePosted DEF history
<1>3. Newest'
  BY <1>1 DEF PoolInv, ThreadOK, Newest
<1>4. ThreadOK'
  BY <1>1, <1>3 DEF history, PoolInv, ThreadOK
<1>5. DatesOK'
  BY DEF PoolInv, DatesOK
<1>6. HistoryOK'
  BY <1>1 DEF history, PoolInv, HistoryOK
<1> QED
  BY <1>2, <1>4, <1>5, <1>6, OutsideInv

\* The newest message and the count of a thread that a message is added to.
LEMMA CommitThread ==
    ASSUME PoolInv, Typed', NEW m \in Messages, Commit(m), Writable
    PROVE  /\ Posted' = Posted \cup {m} /\ m \notin Posted
           /\ UNCHANGED <<clock, date, reads, turn, looks, handled, trailing>>
           /\ ThreadOK' /\ Latest <= Latest' /\ date[m] > 0
<1>1. /\ Posted' = Posted \cup {m} /\ m \notin Posted
      /\ UNCHANGED <<clock, date, reads, turn, looks, handled, trailing>>
  BY DEF Commit, Posted, PoolInv, Typed
<1>2. \A k \in Posted' : date'[k] = date[k] /\ date[k] \in Nat
  BY <1>1 DEF PoolInv, Typed, Posted
<1>3. Newest'
  <2>1. PICK n \in Posted : \A k \in Posted : date[k] <= date[n]
    BY DEF PoolInv, ThreadOK, Newest
  <2>2. CASE date[n] <= date[m]
    <3>1. m \in Posted' /\ \A k \in Posted' : date'[k] <= date'[m]
      BY <1>1, <1>2, <2>1, <2>2
    <3> QED
      BY <3>1 DEF Newest
  <2>3. CASE date[m] <= date[n]
    <3>1. n \in Posted' /\ \A k \in Posted' : date'[k] <= date'[n]
      BY <1>1, <1>2, <2>1, <2>3
    <3> QED
      BY <3>1 DEF Newest
  <2> QED
    BY <1>1, <1>2, <2>1, <2>2, <2>3
<1>4. Latest <= Latest'
  <2>1. \E k \in Posted : date[k] = Latest
    BY LatestDate DEF PoolInv, Typed, ThreadOK
  <2>2. \A k \in Posted' : date'[k] <= Latest'
    BY <1>3, LatestDateNext DEF Typed
  <2> QED
    BY <1>1, <1>2, <2>1, <2>2
<1>5. IsFiniteSet(Posted') /\ Cardinality(Posted') = Cardinality(Posted) + 1
  BY <1>1, FS_AddElement DEF PoolInv, ThreadOK
<1>6. thread'.count = thread.count + 1 /\ thread'.last = date[m]
  BY DEF Commit
<1>7. \A k \in Posted' \ passed' : date'[k] <= thread'.last
  <2>1. passed' = passed \cup {k \in Posted : date[m] < date[k]}
    BY DEF Commit
  <2>2. ASSUME NEW k \in Posted' \ passed' PROVE date'[k] <= thread'.last
    <3>1. ~(date[m] < date[k])
      BY <1>1, <1>2, <2>1, <2>2
    <3>2. date[k] \in Nat /\ date[m] \in Nat
      BY <1>1, <1>2
    <3> QED
      BY <1>1, <1>6, <3>1, <3>2
  <2> QED
    BY <2>2
<1>8. ThreadOK'
  <2>1. m \in Posted' /\ First \in Posted' /\ thread'.last = date'[m]
    BY <1>1, <1>6 DEF PoolInv, ThreadOK
  <2>2. thread'.count = Cardinality(Posted')
    BY <1>5, <1>6 DEF PoolInv, ThreadOK
  <2> QED
    BY <1>3, <1>5, <1>7, <2>1, <2>2 DEF ThreadOK
<1> QED
  BY <1>1, <1>4, <1>8 DEF Commit, PoolInv, DatesOK

LEMMA CommitInv ==
    ASSUME PoolInv, Typed', NEW m \in Messages, Commit(m)
    PROVE  PoolInv'
<1>1. CASE ~Writable
  <2>1. \A k \in Messages :
            post'[k] = post[k] \/ (post[k] = "checked" /\ post'[k] = "refused")
    BY <1>1 DEF Commit, PoolInv, Typed
  <2> QED
    BY <1>1, <2>1, RefusedInv DEF Commit, history, PoolInv
<1>2. CASE Writable
  <2>1. /\ Posted' = Posted \cup {m} /\ m \notin Posted
        /\ UNCHANGED <<clock, date, reads, turn, looks, handled, trailing>>
        /\ ThreadOK' /\ Latest <= Latest' /\ date[m] > 0
    BY <1>2, CommitThread
  <2>2. /\ slipped' = IF Slips(m) THEN slipped \cup {m} ELSE slipped
        /\ passed' = passed \cup {k \in Posted : date[m] < date[k]}
        /\ \A k \in Messages : k # m => post'[k] = post[k]
    BY <1>2 DEF Commit, PoolInv, Typed
  <2>3. Grows
    <3>1. ASSUME ~Slips(m) PROVE date'[m] > Latest /\ \A u \in Turns : turn[u].at # "read"
      <4>1. /\ Latest \in Nat /\ date[m] \in Nat
            /\ \E k \in Posted : k \in Messages /\ date[k] = Latest
        BY LatestDate DEF PoolInv, Typed, ThreadOK, Posted
      <4>2. date[m] # Latest
        BY <2>1, <4>1 DEF PoolInv, DatesOK
      <4> QED
        BY <2>1, <3>1, <4>1, <4>2 DEF Slips
    <3>2. \A k \in Owed' \ Posted : k = m /\ ~Slips(m)
      BY <2>1, <2>2 DEF Owed
    <3>3. \A k \in Messages : looks[k] <= looks'[k]
      BY <2>1 DEF PoolInv, Typed
    <3> QED
      BY <2>1, <2>2, <3>1, <3>2, <3>3 DEF Grows
  <2>4. DatesOK'
    BY <2>1, <2>2 DEF PoolInv, DatesOK
  <2>5. HistoryOK'
    BY <2>1, <2>2 DEF PoolInv, HistoryOK
  <2> QED
    BY <2>1, <2>3, <2>4, <2>5, OutsideInv DEF PoolInv
<1> QED
  BY <1>1, <1>2

LEMMA StepInv ==
    ASSUME PoolInv, Next
    PROVE  PoolInv'
<1>0. Typed /\ Newest
  BY DEF PoolInv, ThreadOK
<1>1. ASSUME NEW m \in Messages, Check(m) \/ PostStep(m) \/ Discuss(m) PROVE PoolInv'
  <2>0. Typed'
    BY <1>0, <1>1, PostTyped
  <2>1. CASE Check(m)
    BY <2>0, <2>1, CheckInv
  <2>2. CASE Commit(m)
    BY <2>0, <2>2, CommitInv
  <2>3. CASE CommitFails(m)
    <3>1. \A k \in Messages :
              post'[k] = post[k] \/ (post[k] = "checked" /\ post'[k] = "refused")
      BY <2>3 DEF CommitFails, PoolInv, Typed
    <3> QED
      BY <2>0, <2>3, <3>1, RefusedInv DEF CommitFails, PoolInv
  <2>4. CASE Discuss(m)
    BY <2>0, <2>4, RefusedInv DEF Discuss, board, PoolInv
  <2> QED
    BY <1>1, <2>1, <2>2, <2>3, <2>4 DEF PostStep
<1>2. ASSUME NEW u \in Turns,
             TurnStep(u) \/ NextRound(u) \/ StartOther(u) \/ \E m \in Messages : Woken(u, m)
      PROVE  PoolInv'
  <2>0. Typed'
    BY <1>0, <1>2, TurnTyped
  <2> QED
    BY <1>2, <2>0, LoadInv, PickInv, ReadInv, ActInv, EndInv, StampInv, BetweenInv DEF TurnStep
<1>3. CASE Close
  <2>0. Typed'
    BY <1>0, <1>3, OutsideTyped
  <2>1. thread'.count = thread.count /\ thread'.last = thread.last
    BY <1>3 DEF Close, PoolInv, Typed
  <2> QED
    BY <1>3, <2>0, <2>1, RefusedInv DEF Close, PoolInv
<1>4. CASE Crash
  <2>0. Typed'
    BY <1>0, <1>4, OutsideTyped
  <2>1. \A k \in Messages :
            post'[k] = post[k] \/ (post[k] = "checked" /\ post'[k] = "refused")
    BY <1>4 DEF Crash, PoolInv, Typed
  <2>2. \A u \in Turns : TurnOK(turn'[u])
    <3>1. TurnOK(NoTurn)
      BY FreshTurnOK DEF NoTurn
    <3> QED
      BY <1>4, <3>1 DEF Crash
  <2> QED
    BY <1>4, <2>0, <2>1, <2>2, RefusedInv DEF Crash
<1> QED
  BY <1>1, <1>2, <1>3, <1>4 DEF Next

LEMMA InitInv == Init => PoolInv
<1> SUFFICES ASSUME Init PROVE PoolInv
  OBVIOUS
<1>1. Typed
  BY InitTyped
<1>2. Posted = {First} /\ First \in Messages /\ First \notin Mine
  BY BullpenAssumption DEF Init, Posted
<1>3. date[First] = 1 /\ \A m \in Messages : m # First => date[m] = 0
  BY <1>2 DEF Init
<1>4. ThreadOK
  <2>1. Newest
    BY <1>2, <1>3 DEF Newest
  <2>2. IsFiniteSet({First}) /\ Cardinality({First}) = 1
    BY FS_Singleton
  <2> QED
    BY <1>2, <1>3, <2>1, <2>2 DEF Init, ThreadOK
<1>5. DatesOK /\ HistoryOK
  BY <1>2, <1>3 DEF Init, DatesOK, HistoryOK
<1>6. Latest \in Nat
  BY <1>1, <1>4, LatestDate DEF Typed, ThreadOK
<1>7. ReadsOK /\ SecondLook
  BY <1>2, <1>3, <1>6 DEF Init, ReadsOK, SecondLook, Owed
<1>8. \A u \in Turns : TurnOK(turn[u])
  <2>1. \A u \in Turns : turn[u] = NoTurn
    BY DEF Init
  <2>2. \A m \in Owed : date[m] > 0 /\ date[m] \in Nat
    BY <1>2, <1>3 DEF Owed
  <2>3. Covers(NoTurn)
    BY <1>6, <2>2 DEF Covers, NoTurn, NoShowing
  <2>4. NoneOpen(NoTurn) /\ ShownBefore(NoTurn) /\ Marked(NoTurn)
    BY DEF NoneOpen, ShownBefore, Marked, NoTurn, NoShowing
  <2> QED
    BY <2>1, <2>3, <2>4 DEF TurnOK
<1> QED
  BY <1>1, <1>4, <1>5, <1>7, <1>8 DEF PoolInv

(***************************************************************************)
(* What the runs check.                                                    *)
(***************************************************************************)
LEMMA InvariantHolds == Spec => []PoolInv
<1>1. PoolInv /\ UNCHANGED vars => PoolInv'
  <2> SUFFICES ASSUME PoolInv, UNCHANGED vars PROVE PoolInv'
    OBVIOUS
  <2>1. Typed'
    BY DEF vars, board, history, PoolInv, Typed
  <2> QED
    BY <2>1, RefusedInv DEF vars, board, PoolInv
<1> QED
  BY <1>1, InitInv, StepInv, PTL DEF Spec

\* Every variable keeps its type, the thread counts the messages it holds and never goes over its
\* cap, and neither watermark of the reader passes the newest message, whatever the order in which
\* posts are stored (bullpen.ts: postMessage, markThreadsSeen, recordUnhandledInjection).
THEOREM WatermarksKeepTypes == Spec => []TypeOK
<1>1. PoolInv => TypeOK
  <2> SUFFICES ASSUME PoolInv PROVE TypeOK
    OBVIOUS
  <2>1. Latest \in Nat /\ Latest <= clock /\ clock \in Nat
    <3>1. Latest \in Nat /\ \E m \in Posted : date[m] = Latest
      BY LatestDate DEF PoolInv, Typed, ThreadOK
    <3> QED
      BY <3>1 DEF PoolInv, Typed, DatesOK, Posted
  <2>2. date \in [Messages -> 0 .. clock]
    BY <2>1 DEF PoolInv, Typed, DatesOK
  <2>3. thread.last \in 0 .. clock
    BY <2>1, <2>2 DEF PoolInv, Typed, ThreadOK, Posted
  <2>4. thread \in [status : {"open", "closed"}, count : 0 .. Cap, last : 0 .. clock]
    BY <2>3 DEF PoolInv, Typed
  <2>5. reads \in [seen : 0 .. Latest, injected : 0 .. Latest]
    BY <2>1 DEF PoolInv, Typed, ReadsOK
  <2>6. ASSUME NEW u \in Turns
        PROVE  /\ turn[u].at \in {"idle", "load", "pick", "read", "work", "stamp"}
               /\ {turn[u].woken, turn[u].already, turn[u].acted} \subseteq BOOLEAN
               /\ turn[u].fits \in {"unknown", "yes", "no"}
               /\ {turn[u].woke, turn[u].ambient.through} \subseteq 0 .. clock
               /\ turn[u].touched \subseteq turn[u].shown /\ turn[u].shown \subseteq Posted \ Mine
               /\ turn[u].reply \in Mine \cup {None}
    <3>1. turn[u] \in Turn /\ Covers(turn[u])
      BY DEF PoolInv, Typed, TurnOK
    <3>2. turn[u].woke \in 0 .. clock /\ turn[u].ambient.through \in 0 .. clock
      BY <2>1, <3>1 DEF Covers, Turn, Showing
    <3>3. turn[u].woken \in BOOLEAN /\ turn[u].already \in BOOLEAN /\ turn[u].acted \in BOOLEAN
      BY <3>1 DEF Turn
    <3> QED
      BY <3>1, <3>2, <3>3 DEF Covers, Turn, Places
  <2> QED
    BY <2>1, <2>2, <2>4, <2>5, <2>6 DEF TypeOK, PoolInv, Typed, ThreadOK, HistoryOK
<1> QED
  BY <1>1, InvariantHolds, PTL

\* What seen_through covers was shown to the reader in a turn that ended, whatever turns run at the
\* same time and whatever is posted meanwhile, unless the message slipped in
\* (selectThreadsToWatermark in runtime.ts, SHOWN_THROUGH_SQL in bullpen.ts).
THEOREM SeenCoversShown == Spec => []SeenWasShown
<1>1. PoolInv => SeenWasShown
  BY DEF PoolInv, ReadsOK, Owed, SeenWasShown
<1> QED
  BY <1>1, InvariantHolds, PTL

\* A mention that was shown to no woken turn, and to no turn before it acted on the thread, is
\* retired only after two turns that were shown it, unless it slipped in, last_message_at went back
\* behind it, or it was shown to a turn that had acted: such a turn is counted as acting on all it
\* was shown (already_injected in bullpen.ts, selectThreadsToWatermark in runtime.ts).
THEOREM MentionsGetSecondLook == Spec => []SecondLook
<1>1. PoolInv => SecondLook
  BY DEF PoolInv
<1> QED
  BY <1>1, InvariantHolds, PTL
==============================================================================
