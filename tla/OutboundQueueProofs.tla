------------------------- MODULE OutboundQueueProofs -------------------------
(***************************************************************************)
(* Proofs about OutboundQueue, for every set of sends, finite or not,      *)
(* every cap and every number of connections, expiries and failures: the   *)
(* cap (CapInv), and on top of it what the queue owes the senders          *)
(* (QueueInv): a message goes out once, answers hold, rows go in order.    *)
(***************************************************************************)
EXTENDS OutboundQueue, FiniteSetTheorems, SequenceTheorems, TLAPS

SendStates == Answers \cup {"new", "dispatch", "begun", "counted", "committed", "lost"}

\* The part of the types the cap depends on.
TableOK ==
    /\ send \in [Sends -> SendStates]
    /\ lock \in Sends \cup {None}
    /\ rows \subseteq Sends /\ IsFiniteSet(rows)

\* Whoever has counted holds the lock, and there is still room for its row.
CountedHasRoom ==
    \A s \in Sends : send[s] = "counted" => lock = s /\ Cardinality(rows \ expired) < Cap

CapInv == TableOK /\ CountedHasRoom /\ CapHolds

\* Taking live rows away leaves a finite set that is no larger.
LEMMA LiveShrinks ==
    ASSUME TableOK, rows' \subseteq rows, rows' \ expired' \subseteq rows \ expired
    PROVE  /\ rows' \subseteq Sends /\ IsFiniteSet(rows')
           /\ Cardinality(rows' \ expired') <= Cardinality(rows \ expired)
           /\ Cardinality(rows' \ expired') \in Nat /\ Cardinality(rows \ expired) \in Nat
<1>1. IsFiniteSet(rows) /\ IsFiniteSet(rows \ expired)
  BY FS_Subset DEF TableOK
<1> QED
  BY <1>1, FS_Subset, FS_CardinalityType DEF TableOK

\* A step that adds no row, and after which no other send has counted, keeps the cap.
LEMMA ShrinkKeeps ==
    ASSUME CapInv, rows' \subseteq rows, rows' \ expired' \subseteq rows \ expired,
           send' \in [Sends -> SendStates], lock' \in Sends \cup {None},
           \A s \in Sends : send'[s] = "counted" => send[s] = "counted" /\ lock' = lock
    PROVE  CapInv'
<1>1. /\ rows' \subseteq Sends /\ IsFiniteSet(rows')
      /\ Cardinality(rows' \ expired') <= Cardinality(rows \ expired)
      /\ Cardinality(rows' \ expired') \in Nat /\ Cardinality(rows \ expired) \in Nat
  BY LiveShrinks DEF CapInv
<1>2. Cap \in Nat
  BY QueueAssumption
<1>3. TableOK'
  BY <1>1 DEF TableOK
<1>4. CountedHasRoom'
  BY <1>1, <1>2 DEF CapInv, CountedHasRoom
<1>5. CapHolds'
  BY <1>1, <1>2 DEF CapInv, CapHolds
<1> QED
  BY <1>3, <1>4, <1>5 DEF CapInv

\* The holder of the lock inserts its row, and lets go.
LEMMA InsertKeeps ==
    ASSUME CapInv, NEW s \in Sends, NEW at \in SendStates \ {"counted"}, send[s] = "counted",
           rows' = rows \cup {s}, expired' = expired, At(s, at), lock' = None
    PROVE  CapInv'
<1>1. IsFiniteSet(rows) /\ IsFiniteSet(rows \ expired)
  BY FS_Subset DEF CapInv, TableOK
<1>2. /\ rows' \subseteq Sends /\ IsFiniteSet(rows')
      /\ send' \in [Sends -> SendStates]
  BY <1>1, FS_AddElement DEF CapInv, TableOK, At
<1>3. IsFiniteSet((rows \ expired) \cup {s})
      /\ Cardinality((rows \ expired) \cup {s}) <= Cardinality(rows \ expired) + 1
      /\ Cardinality(rows \ expired) \in Nat
  <2> DEFINE S == rows \ expired
  <2>1. IsFiniteSet(S)
    BY <1>1
  <2> HIDE DEF S
  <2>2. /\ IsFiniteSet(S \cup {s})
        /\ Cardinality(S \cup {s}) = IF s \in S THEN Cardinality(S) ELSE Cardinality(S) + 1
    BY <2>1, FS_AddElement
  <2>3. Cardinality(S) \in Nat
    BY <2>1, FS_CardinalityType
  <2>4. Cardinality(S \cup {s}) <= Cardinality(S) + 1
    BY <2>2, <2>3
  <2> QED
    BY <2>2, <2>3, <2>4 DEF S
<1>4. rows' \ expired' \subseteq (rows \ expired) \cup {s}
  OBVIOUS
<1>5. Cardinality(rows' \ expired') <= Cardinality((rows \ expired) \cup {s})
      /\ Cardinality(rows' \ expired') \in Nat /\ Cardinality((rows \ expired) \cup {s}) \in Nat
  BY <1>3, <1>4, FS_Subset, FS_CardinalityType
<1>6. Cardinality(rows \ expired) < Cap /\ lock = s /\ Cap \in Nat
  BY QueueAssumption DEF CapInv, CountedHasRoom
<1>7. CapHolds'
  BY <1>3, <1>5, <1>6 DEF CapHolds
<1>8. \A r \in Sends : send'[r] # "counted"
  BY <1>6 DEF CapInv, TableOK, CountedHasRoom, At
<1> QED
  BY <1>2, <1>7, <1>8 DEF CapInv, TableOK, CountedHasRoom

LEMMA PruneShrinks ==
    ASSUME Prune
    PROVE  rows' \subseteq rows /\ rows' \ expired' = rows \ expired
BY DEF Prune

LEMMA SendCap ==
    ASSUME CapInv, NEW s \in Sends, SendStep(s)
    PROVE  CapInv'
<1>0. send \in [Sends -> SendStates] /\ lock \in Sends \cup {None}
  BY DEF CapInv, TableOK
<1>1. CASE Route(s) \/ Dispatch(s)
  <2>1. UNCHANGED <<lock, rows, expired>>
    BY <1>1 DEF Route, Dispatch
  <2>2. PICK at \in {"dispatch", "begun", "sent", "refused"} : At(s, at)
    BY <1>1 DEF Route, Dispatch, Begin
  <2>3. send' \in [Sends -> SendStates]
        /\ \A r \in Sends : send'[r] = "counted" => send[r] = "counted"
    BY <1>0, <2>2 DEF At, SendStates, Answers
  <2> QED
    BY <1>0, <2>1, <2>3, ShrinkKeeps
<1>2. CASE Count(s) /\ Cardinality(rows \ expired) >= Cap
  <2>1. At(s, "refused") /\ UNCHANGED <<lock, rows, expired>>
    BY <1>2 DEF Count
  <2>2. send' \in [Sends -> SendStates]
        /\ \A r \in Sends : send'[r] = "counted" => send[r] = "counted"
    BY <1>0, <2>1 DEF At, SendStates, Answers
  <2> QED
    BY <1>0, <2>1, <2>2, ShrinkKeeps
<1>3. CASE Count(s) /\ ~(Cardinality(rows \ expired) >= Cap)
  <2>1. At(s, "counted") /\ lock' = s /\ lock = None /\ Prune
    BY <1>3 DEF Count, LockFree
  <2>2. rows' \subseteq rows /\ rows' \ expired' = rows \ expired
    BY <2>1, PruneShrinks
  <2>3. /\ rows' \subseteq Sends /\ IsFiniteSet(rows')
        /\ Cardinality(rows \ expired) \in Nat
    BY <2>2, LiveShrinks DEF CapInv
  <2>4. Cardinality(rows' \ expired') < Cap
    BY <1>3, <2>2, <2>3, QueueAssumption
  <2>5. \A r \in Sends : send'[r] = "counted" => r = s
    BY <1>0, <2>1, QueueAssumption DEF At, CapInv, CountedHasRoom
  <2>6. send' \in [Sends -> SendStates]
    BY <1>0, <2>1 DEF At, SendStates
  <2>7. CapHolds'
    BY <2>2 DEF CapHolds, CapInv
  <2> QED
    BY <2>1, <2>3, <2>4, <2>5, <2>6, <2>7 DEF CapInv, TableOK, CountedHasRoom
<1>4. CASE Commit(s)
  BY <1>4, InsertKeeps DEF Commit, SendStates
<1>5. CASE EnqueueFails(s)
  <2>1. At(s, "refused") /\ expired' = expired /\ lock' = IF lock = s THEN None ELSE lock
    BY <1>5 DEF EnqueueFails
  <2>2. CASE UNCHANGED rows
    <3>1. send' \in [Sends -> SendStates]
      BY <1>0, <2>1 DEF At, SendStates, Answers
    <3>2. \A r \in Sends : send'[r] = "counted" => send[r] = "counted" /\ r # s
      BY <1>0, <2>1 DEF At
    <3>3. \A r \in Sends : send'[r] = "counted" => send[r] = "counted" /\ lock' = lock
      BY <2>1, <3>2 DEF CapInv, CountedHasRoom
    <3> QED
      BY <1>0, <2>1, <2>2, <3>1, <3>3, ShrinkKeeps
  <2>3. CASE send[s] = "counted" /\ rows' = rows \cup {s}
    <3>1. lock' = None
      BY <2>1, <2>3 DEF CapInv, CountedHasRoom
    <3> QED
      BY <2>1, <2>3, <3>1, InsertKeeps DEF SendStates, Answers
  <2> QED
    BY <1>5, <2>2, <2>3 DEF EnqueueFails
<1>6. CASE Answer(s)
  <2>1. At(s, "queued") /\ UNCHANGED <<lock, rows, expired>>
    BY <1>6 DEF Answer, table
  <2>2. send' \in [Sends -> SendStates]
        /\ \A r \in Sends : send'[r] = "counted" => send[r] = "counted"
    BY <1>0, <2>1 DEF At, SendStates, Answers
  <2> QED
    BY <1>0, <2>1, <2>2, ShrinkKeeps
<1> QED
  BY <1>1, <1>2, <1>3, <1>4, <1>5, <1>6 DEF SendStep

\* Flushes, expiry and the transport only take rows away.
LEMMA FlushCap ==
    ASSUME CapInv,
           \/ Connect \/ Disconnect \/ OnReconnect \/ OnTimer
           \/ \E s \in Sends : Expire(s)
           \/ \E c \in Callers : FlushStep(c)
    PROVE  CapInv'
<1>1. UNCHANGED <<send, lock>> /\ rows' \subseteq rows /\ rows' \ expired' \subseteq rows \ expired
  <2>1. CASE Connect \/ Disconnect \/ OnReconnect \/ OnTimer
    BY <2>1 DEF Connect, Disconnect, OnReconnect, OnTimer, caller, table
  <2>2. CASE \E s \in Sends : Expire(s)
    BY <2>2 DEF Expire, caller
  <2>3. ASSUME NEW c \in Callers, List(c)
        PROVE  UNCHANGED caller /\ rows' \subseteq rows /\ rows' \ expired' \subseteq rows \ expired
    BY <2>3 DEF List, Prune
  <2>4. ASSUME NEW c \in Callers, FlushSend(c) \/ FlushDeleteFails(c)
        PROVE  UNCHANGED <<caller, rows, expired>>
    BY <2>4 DEF FlushSend, FlushDeleteFails, table
  <2>5. ASSUME NEW c \in Callers, FlushDelete(c)
        PROVE  UNCHANGED caller /\ rows' \subseteq rows /\ rows' \ expired' \subseteq rows \ expired
    BY <2>5 DEF FlushDelete
  <2> QED
    BY <2>1, <2>2, <2>3, <2>4, <2>5 DEF FlushStep, caller
<1> QED
  BY <1>1, ShrinkKeeps DEF CapInv, TableOK

LEMMA CrashCap ==
    ASSUME CapInv, Crash
    PROVE  CapInv'
<1>1. /\ UNCHANGED <<rows, expired>> /\ lock' = None
      /\ send' = [s \in Sends |-> IF send[s] \in Answers \cup {"new"} THEN send[s] ELSE "lost"]
  BY DEF Crash, table
<1>2. send' \in [Sends -> SendStates] /\ \A s \in Sends : send'[s] # "counted"
  BY <1>1 DEF SendStates, Answers
<1> QED
  BY <1>1, <1>2, ShrinkKeeps

LEMMA CapInvInit == Init => CapInv
<1> SUFFICES ASSUME Init PROVE CapInv
  OBVIOUS
<1>1. IsFiniteSet(rows) /\ rows \ expired = {} /\ Cardinality(rows \ expired) = 0
  BY FS_EmptySet DEF Init
<1>2. send \in [Sends -> SendStates] /\ \A s \in Sends : send[s] # "counted"
  BY DEF Init, SendStates
<1>3. 0 <= Cap
  BY QueueAssumption
<1> QED
  BY <1>1, <1>2, <1>3 DEF Init, CapInv, TableOK, CountedHasRoom, CapHolds

LEMMA CapInvStep == CapInv /\ [Next]_vars => CapInv'
<1> SUFFICES ASSUME CapInv, [Next]_vars PROVE CapInv'
  OBVIOUS
<1>1. CASE UNCHANGED vars
  BY <1>1, ShrinkKeeps DEF vars, caller, table, CapInv, TableOK
<1>2. CASE Next
  BY <1>2, SendCap, FlushCap, CrashCap DEF Next
<1> QED
  BY <1>1, <1>2

\* However many sends enqueue at once, the count under the advisory lock keeps the channel's live
\* rows within maxPerChannel, over failed transactions, flushes and crashes.
THEOREM CapIsKept == Spec => []CapHolds
<1>1. CapInv => CapHolds
  BY DEF CapInv
<1> QED
  BY CapInvInit, CapInvStep, <1>1, PTL DEF Spec

(***************************************************************************)
(* What the table and the flushes owe the senders. The rows a flush still  *)
(* holds are Listed; a send whose row is being deleted is Acknowledged.    *)
(***************************************************************************)
FlushState == [at : {"idle", "listing", "sending", "deleting"}, rows : Seq(Sends)]
Listed == UNION {ToSet(flush[c].rows) : c \in Callers}
Acknowledged(s) == \E c \in Callers : flush[c].at = "deleting" /\ Head(flush[c].rows) = s

\* The types, and that a flush has rows in hand exactly while it sends and deletes.
Typed ==
    /\ {ready, timer, flushing} \subseteq BOOLEAN /\ events \in 0 .. connects
    /\ flush \in [Callers -> FlushState]
    /\ \A c \in Callers : (flush[c].at \in {"sending", "deleting"}) <=> (flush[c].rows # <<>>)
    /\ send \in [Sends -> SendStates] /\ lock \in Sends \cup {None}
    /\ late \subseteq Sends /\ pruned \subseteq Sends /\ expired \subseteq rows
    /\ order \in Seq(Sends) /\ IsInjective(order) /\ rows \subseteq ToSet(order)
    /\ wire \in [Sends -> Nat] /\ torn \in [Sends -> Nat] /\ before \in [Sends -> SUBSET Sends]
    /\ connects \in 0 .. MaxConnects /\ faults \in 0 .. MaxFaults

\* flushInFlight keeps two flushes of the channel apart.
OneFlush ==
    \A c \in Callers : flush[c].at # "idle" =>
        flushing /\ \A d \in Callers \ {c} : flush[d].at = "idle"

\* A send has an enqueued_at from its BEGIN on, and a row from its COMMIT on.
RowsAreSends ==
    \A s \in Sends :
        /\ s \in rows \cup Listed => send[s] \in {"committed", "queued", "refused", "lost"}
        /\ s \in ToSet(order) => send[s] \notin {"new", "dispatch"}
        /\ send[s] \in {"begun", "counted", "committed", "queued"} => s \in ToSet(order)

\* What may still go to the provider has not been there, but for the tears.
WireInv ==
    \A s \in Sends :
        /\ wire[s] <= 1 + torn[s]
        /\ Acknowledged(s) => wire[s] > 0
        /\ /\ send[s] \in {"new", "dispatch", "begun", "counted"} \/ s \in rows \cup Listed
           /\ ~Acknowledged(s)
           => wire[s] <= torn[s]

\* What the answers promise.
AnswerInv ==
    \A s \in Sends :
        /\ send[s] \in {"committed", "queued"} => s \in rows \cup pruned \/ wire[s] > 0
        /\ send[s] = "refused" /\ torn[s] = 0 => wire[s] = 0 /\ s \notin rows \cup Listed

\* A flush holds the rows in their order, and every row that was answered for before one of
\* them began is among them while it waits.
OrderInv ==
    /\ \A c \in Callers : Ordered(flush[c].rows) /\ ToSet(flush[c].rows) \subseteq ToSet(order)
    /\ \A s \in Sends : \A r \in before[s] : send[r] = "queued" /\ Precedes(r, s)
    /\ \A c \in Callers : \A s \in ToSet(flush[c].rows) :
           before[s] \cap (rows \ expired) \subseteq ToSet(flush[c].rows)

QueueInv == Typed /\ OneFlush /\ RowsAreSends /\ WireInv /\ AnswerInv /\ OrderInv

(***************************************************************************)
(* The order of the rows, and the sequences a flush holds.                 *)
(***************************************************************************)
\* enqueued_at orders the sends strictly.
LEMMA PrecedesStrict ==
    ASSUME Typed, NEW r, NEW s
    PROVE  Precedes(r, s) => ~Precedes(s, r)
<1>1. DOMAIN order \subseteq Nat
  BY LenProperties DEF Typed
<1> QED
  BY <1>1 DEF Typed, Precedes, IsInjective

LEMMA PrecedesUnchanged ==
    ASSUME UNCHANGED order
    PROVE  \A r, s : Precedes(r, s) => Precedes(r, s)'
BY DEF Precedes

\* A send that begins comes after all that have begun.
LEMMA PrecedesAppend ==
    ASSUME Typed, NEW s \in Sends, s \notin ToSet(order), order' = Append(order, s)
    PROVE  /\ \A r, t : Precedes(r, t) => Precedes(r, t)'
           /\ \A r \in ToSet(order) : Precedes(r, s)'
           /\ order' \in Seq(Sends) /\ IsInjective(order') /\ ToSet(order') = ToSet(order) \cup {s}
<1>1. order \in Seq(Sends) /\ IsInjective(order)
  BY DEF Typed
<1>2. /\ order' \in Seq(Sends) /\ Len(order') = Len(order) + 1 /\ Len(order) \in Nat
      /\ \A j \in 1 .. Len(order) : order'[j] = order[j]
      /\ order'[Len(order) + 1] = s
  BY <1>1, AppendProperties, LenProperties
<1>3. DOMAIN order = 1 .. Len(order) /\ DOMAIN order' = 1 .. (Len(order) + 1)
  BY <1>1, <1>2, LenProperties
<1>4. \A r, t : Precedes(r, t) => Precedes(r, t)'
  BY <1>2, <1>3 DEF Precedes
<1>5. \A r \in ToSet(order) : Precedes(r, s)'
  BY <1>2, <1>3 DEF Precedes, ToSet
<1>6. IsInjective(order')
  BY <1>1, <1>2, <1>3 DEF IsInjective, ToSet
<1>7. ToSet(order') = ToSet(order) \cup {s}
  BY <1>2, <1>3 DEF ToSet
<1> QED
  BY <1>2, <1>4, <1>5, <1>6, <1>7

\* What is left of an ordered list when its head is taken.
LEMMA OrderedTail ==
    ASSUME Typed, NEW l \in Seq(Sends), l # <<>>, Ordered(l)
    PROVE  /\ Head(l) \in ToSet(l) /\ Head(l) \in Sends
           /\ Tail(l) \in Seq(Sends) /\ Ordered(Tail(l))
           /\ ToSet(Tail(l)) = ToSet(l) \ {Head(l)}
           /\ \A s \in ToSet(Tail(l)) : Precedes(Head(l), s)
<1>1. /\ Head(l) = l[1] /\ Tail(l) \in Seq(Sends)
      /\ Len(Tail(l)) = Len(l) - 1 /\ Len(l) \in Nat /\ Len(l) > 0
      /\ \A j \in 1 .. Len(Tail(l)) : Tail(l)[j] = l[j + 1]
  BY HeadTailProperties, EmptySeq, LenProperties
<1>2. DOMAIN l = 1 .. Len(l) /\ DOMAIN Tail(l) = 1 .. (Len(l) - 1)
  BY <1>1, LenProperties
<1>3. \A j \in DOMAIN l : l[j] \in Sends
  BY ElementOfSeq, <1>2
<1>4. Ordered(Tail(l))
  BY <1>1, <1>2 DEF Ordered
<1>5. \A s \in ToSet(Tail(l)) : Precedes(Head(l), s)
  BY <1>1, <1>2 DEF Ordered, ToSet
<1>6. \A s : ~Precedes(s, s)
  BY PrecedesStrict
<1>7. ASSUME NEW s \in ToSet(Tail(l)) PROVE s \in ToSet(l) \ {Head(l)}
  <2>1. PICK j \in 1 .. (Len(l) - 1) : s = Tail(l)[j]
    BY <1>2 DEF ToSet
  <2>2. j + 1 \in DOMAIN l /\ s = l[j + 1]
    BY <1>1, <1>2, <2>1
  <2>3. s # Head(l)
    BY <1>5, <1>6
  <2> QED
    BY <2>2, <2>3 DEF ToSet
<1>8. ASSUME NEW s \in ToSet(l), s # Head(l) PROVE s \in ToSet(Tail(l))
  <2>1. PICK j \in DOMAIN l : s = l[j]
    BY DEF ToSet
  <2>2. j # 1
    BY <1>1, <1>8, <2>1
  <2>3. j - 1 \in DOMAIN Tail(l) /\ Tail(l)[j - 1] = s
    BY <1>1, <1>2, <2>1, <2>2
  <2> QED
    BY <2>3 DEF ToSet
<1>9. Head(l) \in ToSet(l)
  BY <1>1, <1>2 DEF ToSet
<1> QED
  BY <1>1, <1>2, <1>3, <1>4, <1>5, <1>7, <1>8, <1>9

LEMMA NoRows == ToSet(<<>>) = {} /\ Ordered(<<>>) /\ <<>> \in Seq(Sends)
BY DEF ToSet, Ordered

\* The typed list of the live rows.
LEMMA ListTyped ==
    ASSUME IsFiniteSet(rows), NEW l \in [1 .. Cardinality(rows \ expired) -> rows \ expired], Typed
    PROVE  l \in Seq(Sends) /\ ToSet(l) \subseteq ToSet(order)
<1>1. Cardinality(rows \ expired) \in Nat
  BY FS_Subset, FS_CardinalityType
<1>2. rows \ expired \subseteq Sends
  <2>1. \A j \in DOMAIN order : order[j] \in Sends
    BY ElementOfSeq, LenProperties DEF Typed
  <2> QED
    BY <2>1 DEF Typed, ToSet
<1>3. l \in [1 .. Cardinality(rows \ expired) -> Sends]
  BY <1>2
<1>4. l \in Seq(Sends)
  BY <1>1, <1>3, SeqDef
<1>5. ToSet(l) \subseteq rows
  BY DEF ToSet
<1> QED
  BY <1>4, <1>5 DEF Typed

(***************************************************************************)
(* What the flushes hold.                                                  *)
(***************************************************************************)
LEMMA SameFlush ==
    ASSUME UNCHANGED flush
    PROVE  Listed' = Listed /\ \A s : Acknowledged(s)' <=> Acknowledged(s)
BY DEF Listed, Acknowledged

\* While one caller flushes, what it holds is all that is held.
LEMMA OnlyFlush ==
    ASSUME Typed, OneFlush, NEW c \in Callers, flush[c].at # "idle"
    PROVE  /\ flushing /\ \A d \in Callers \ {c} : flush[d].at = "idle" /\ flush[d].rows = <<>>
           /\ Listed = ToSet(flush[c].rows)
           /\ \A s : Acknowledged(s) <=> flush[c].at = "deleting" /\ Head(flush[c].rows) = s
<1>1. flushing /\ \A d \in Callers \ {c} : flush[d].at = "idle" /\ flush[d].rows = <<>>
  BY DEF Typed, OneFlush
<1>2. \A d \in Callers \ {c} : ToSet(flush[d].rows) = {}
  BY <1>1, NoRows
<1>3. Listed = ToSet(flush[c].rows)
  BY <1>2 DEF Listed
<1> QED
  BY <1>1, <1>3 DEF Acknowledged

\* The same of the step that changes what it holds.
LEMMA OnlyFlushNext ==
    ASSUME Typed, NEW c \in Callers, NEW state \in FlushState,
           \A d \in Callers \ {c} : flush[d].at = "idle" /\ flush[d].rows = <<>>,
           flush' = [flush EXCEPT ![c] = state]
    PROVE  /\ flush' \in [Callers -> FlushState] /\ flush'[c] = state
           /\ \A d \in Callers \ {c} : flush'[d] = flush[d] /\ flush'[d].rows = <<>>
           /\ Listed' = ToSet(state.rows)
           /\ \A s : Acknowledged(s)' <=> state.at = "deleting" /\ Head(state.rows) = s
<1>1. /\ flush' \in [Callers -> FlushState] /\ flush'[c] = state
      /\ \A d \in Callers \ {c} : flush'[d] = flush[d] /\ flush'[d].rows = <<>>
  BY DEF Typed
<1>2. \A d \in Callers \ {c} : ToSet(flush'[d].rows) = {}
  BY <1>1, NoRows
<1>3. Listed' = ToSet(state.rows)
  BY <1>1, <1>2 DEF Listed
<1>4. \A d \in Callers \ {c} : flush'[d].at = "idle"
  BY <1>1
<1> QED
  BY <1>1, <1>3, <1>4 DEF Acknowledged

(***************************************************************************)
(* A step of send.                                                         *)
(***************************************************************************)
LEMMA AtMoves ==
    ASSUME Typed, NEW s \in Sends, NEW at \in SendStates, At(s, at)
    PROVE  /\ send' \in [Sends -> SendStates] /\ send'[s] = at
           /\ \A r \in Sends \ {s} : send'[r] = send[r]
BY DEF Typed, At

LEMMA Bumped ==
    ASSUME NEW f \in [Sends -> Nat], NEW s \in Sends
    PROVE  /\ Bump(f, s) \in [Sends -> Nat] /\ Bump(f, s)[s] = f[s] + 1
           /\ \A r \in Sends \ {s} : Bump(f, s)[r] = f[r]
BY DEF Bump

\* BEGIN puts a send that has not begun at the end of the order.
LEMMA BeginAppends ==
    ASSUME Typed, RowsAreSends, NEW s \in Sends, send[s] \in {"new", "dispatch"}, Begin(s)
    PROVE  /\ order' \in Seq(Sends) /\ IsInjective(order') /\ ToSet(order') = ToSet(order) \cup {s}
           /\ before' \in [Sends -> SUBSET Sends]
           /\ \A r, t : Precedes(r, t) => Precedes(r, t)'
           /\ \A r \in ToSet(order) : Precedes(r, s)'
           /\ before'[s] = {r \in Sends : send[r] = "queued"}
           /\ \A r \in Sends \ {s} : before'[r] = before[r]
           /\ At(s, "begun")
<1>1. s \notin ToSet(order)
  BY DEF RowsAreSends
<1>2. before' = [before EXCEPT ![s] = {r \in Sends : send[r] = "queued"}] /\ At(s, "begun")
      /\ order' = Append(order, s)
  BY DEF Begin
<1>3. /\ before' \in [Sends -> SUBSET Sends]
      /\ before'[s] = {r \in Sends : send[r] = "queued"}
      /\ \A r \in Sends \ {s} : before'[r] = before[r]
  BY <1>2 DEF Typed
<1> QED
  BY <1>1, <1>2, <1>3, PrecedesAppend

LEMMA FaultTyped ==
    ASSUME Typed, Fault
    PROVE  faults' \in 0 .. MaxFaults
BY QueueAssumption DEF Typed, Fault

LEMMA SendTyped ==
    ASSUME CapInv, Typed, RowsAreSends, NEW s \in Sends, SendStep(s)
    PROVE  Typed' /\ UNCHANGED <<flush, flushing>>
<1>1. CASE Route(s)
  <2>1. CASE ready
    <3>1. send' \in [Sends -> SendStates]
      BY <1>1, <2>1, AtMoves DEF Route, SendStates
    <3> QED
      BY <1>1, <2>1, <3>1 DEF Route, Typed, channel, flusher
  <2>2. CASE ~ready
    <3>1. Begin(s) /\ send[s] = "new"
      BY <1>1, <2>2 DEF Route
    <3>2. send' \in [Sends -> SendStates]
      BY <3>1, AtMoves DEF Begin, SendStates
    <3> QED
      BY <1>1, <3>1, <3>2, BeginAppends DEF Route, channel, flusher, Typed
  <2> QED
    BY <2>1, <2>2
<1>2. CASE Dispatch(s)
  <2>1. faults' \in 0 .. MaxFaults /\ wire' \in [Sends -> Nat] /\ torn' \in [Sends -> Nat]
    <3>1. CASE Delivers(s)
      BY <3>1, Bumped DEF Delivers, Typed
    <3>2. CASE FailsForGood(s)
      BY <3>2, FaultTyped DEF FailsForGood, Typed
    <3>3. CASE FailsQueueable(s)
      <4>1. Bump(wire, s) \in [Sends -> Nat] /\ Bump(torn, s) \in [Sends -> Nat]
        BY Bumped DEF Typed
      <4> QED
        BY <3>3, <4>1, FaultTyped DEF FailsQueueable, Typed
    <3> QED
      BY <1>2, <3>1, <3>2, <3>3 DEF Dispatch
  <2>2. CASE Begin(s) /\ late' = late \cup {s}
    <3>1. send[s] = "dispatch" /\ UNCHANGED <<channel, flusher, lock, rows, expired, pruned>>
      BY <1>2 DEF Dispatch
    <3>2. send' \in [Sends -> SendStates]
      BY <2>2, AtMoves DEF Begin, SendStates
    <3>3. late' \subseteq Sends
      BY <2>2 DEF Typed
    <3> QED
      BY <2>1, <2>2, <3>1, <3>2, <3>3, BeginAppends DEF channel, flusher, Typed
  <2>3. CASE UNCHANGED <<late, order, before>> /\ (At(s, "sent") \/ At(s, "refused"))
    <3>1. UNCHANGED <<channel, flusher, lock, rows, expired, pruned>>
      BY <1>2 DEF Dispatch
    <3>2. send' \in [Sends -> SendStates]
      BY <2>3, AtMoves DEF SendStates, Answers
    <3> QED
      BY <2>1, <2>3, <3>1, <3>2 DEF channel, flusher, Typed
  <2> QED
    BY <1>2, <2>2, <2>3 DEF Dispatch
<1>3. CASE Count(s)
  <2>1. /\ rows' \subseteq rows /\ expired' \subseteq rows' /\ pruned' \subseteq Sends
        /\ lock' \in Sends \cup {None}
    BY <1>3 DEF Count, Prune, Typed, CapInv, TableOK
  <2>2. send' \in [Sends -> SendStates]
    BY <1>3, AtMoves DEF Count, SendStates, Answers
  <2> QED
    BY <1>3, <2>1, <2>2 DEF Count, Typed, channel, flusher
<1>4. CASE Commit(s)
  <2>1. rows' = rows \cup {s} /\ s \in ToSet(order) /\ lock' = None
    BY <1>4 DEF Commit, RowsAreSends
  <2>2. send' \in [Sends -> SendStates]
    BY <1>4, AtMoves DEF Commit, SendStates, Answers
  <2> QED
    BY <1>4, <2>1, <2>2 DEF Commit, Typed, channel, flusher, history
<1>5. CASE EnqueueFails(s)
  <2>1. /\ rows \subseteq rows' /\ rows' \subseteq ToSet(order) /\ lock' \in Sends \cup {None}
        /\ torn' \in [Sends -> Nat] /\ faults' \in 0 .. MaxFaults
    <3>1. Bump(torn, s) \in [Sends -> Nat] /\ s \in ToSet(order)
      BY <1>5, Bumped DEF Typed, EnqueueFails, RowsAreSends
    <3> QED
      BY <1>5, <3>1, FaultTyped DEF EnqueueFails, Typed
  <2>2. send' \in [Sends -> SendStates]
    BY <1>5, AtMoves DEF EnqueueFails, SendStates, Answers
  <2> QED
    BY <1>5, <2>1, <2>2 DEF EnqueueFails, Typed, channel, flusher
<1>6. CASE Answer(s)
  <2>1. send' \in [Sends -> SendStates]
    BY <1>6, AtMoves DEF Answer, SendStates, Answers
  <2> QED
    BY <1>6, <2>1 DEF Answer, Typed, flusher, table, history
<1> QED
  BY <1>1, <1>2, <1>3, <1>4, <1>5, <1>6 DEF SendStep

\* What a step of send does to the state of the sends and to the rows.
LEMMA SendMoves ==
    ASSUME CapInv, Typed, RowsAreSends, NEW s \in Sends, SendStep(s)
    PROVE  /\ \A r \in Sends \ {s} : send'[r] = send[r]
           /\ \/ /\ send[s] = "new" /\ send'[s] \in {"dispatch", "begun"} /\ UNCHANGED rows
              \/ /\ send[s] = "dispatch" /\ send'[s] \in {"sent", "refused", "begun"}
                 /\ UNCHANGED rows
              \/ /\ send[s] = "begun" /\ send'[s] \in {"refused", "counted"} /\ rows' \subseteq rows
              \/ send[s] = "counted" /\ send'[s] = "refused" /\ UNCHANGED rows
              \/ /\ send[s] = "counted" /\ send'[s] \in {"refused", "committed"}
                 /\ rows' = rows \cup {s}
              \/ send[s] = "committed" /\ send'[s] = "queued" /\ UNCHANGED rows
           /\ \/ UNCHANGED order /\ send'[s] # "begun"
              \/ send'[s] = "begun" /\ ToSet(order') = ToSet(order) \cup {s}
<1>0. ASSUME NEW at \in SendStates, At(s, at)
      PROVE  send'[s] = at /\ \A r \in Sends \ {s} : send'[r] = send[r]
  BY <1>0, AtMoves
<1>1. CASE Route(s) /\ ready
  BY <1>0, <1>1 DEF Route, SendStates
<1>2. CASE Route(s) /\ ~ready
  <2>1. Begin(s) /\ send[s] = "new" /\ At(s, "begun") /\ UNCHANGED rows
    BY <1>2 DEF Route, Begin
  <2> QED
    BY <1>0, <2>1, BeginAppends DEF SendStates
<1>3. CASE Dispatch(s) /\ Begin(s)
  <2>1. send[s] = "dispatch" /\ At(s, "begun") /\ UNCHANGED rows
    BY <1>3 DEF Dispatch, Begin
  <2> QED
    BY <1>0, <1>3, <2>1, BeginAppends DEF SendStates
<1>4. CASE Dispatch(s) /\ UNCHANGED order /\ (At(s, "sent") \/ At(s, "refused"))
  BY <1>0, <1>4 DEF Dispatch, SendStates, Answers
<1>5. CASE Count(s)
  <2>1. send[s] = "begun" /\ rows' \subseteq rows /\ UNCHANGED order
    BY <1>5 DEF Count, Prune
  <2> QED
    BY <1>0, <1>5, <2>1 DEF Count, SendStates, Answers
<1>6. CASE Commit(s)
  BY <1>0, <1>6 DEF Commit, SendStates
<1>7. CASE EnqueueFails(s)
  <2>1. send'[s] = "refused" /\ \A r \in Sends \ {s} : send'[r] = send[r]
    BY <1>0, <1>7 DEF EnqueueFails, SendStates, Answers
  <2> QED
    BY <1>7, <2>1 DEF EnqueueFails
<1>8. CASE Answer(s)
  BY <1>0, <1>8 DEF Answer, SendStates, Answers, table
<1> QED
  BY <1>1, <1>2, <1>3, <1>4, <1>5, <1>6, <1>7, <1>8 DEF SendStep, Dispatch

LEMMA SendRows ==
    ASSUME CapInv, Typed, OneFlush, RowsAreSends, NEW s \in Sends, SendStep(s)
    PROVE  OneFlush' /\ RowsAreSends'
<1>1. UNCHANGED <<flush, flushing>> /\ Listed' = Listed
  BY SendTyped, SameFlush
<1>2. OneFlush'
  BY <1>1 DEF OneFlush
<1>3. RowsAreSends'
  <2> SUFFICES ASSUME NEW r \in Sends
               PROVE  /\ r \in rows' \cup Listed' => send'[r] \in {"committed", "queued", "refused", "lost"}
                      /\ r \in ToSet(order') => send'[r] \notin {"new", "dispatch"}
                      /\ send'[r] \in {"begun", "counted", "committed", "queued"} => r \in ToSet(order')
    BY DEF RowsAreSends
  <2>1. ToSet(order') \subseteq ToSet(order) \cup {s} /\ ToSet(order) \subseteq ToSet(order')
        /\ rows' \subseteq rows \cup {s}
    BY SendMoves
  <2>2. CASE r # s
    <3>1. send'[r] = send[r]
      BY <2>2, SendMoves
    <3> QED
      BY <1>1, <2>1, <2>2, <3>1 DEF RowsAreSends
  <2>3. CASE r = s
    BY <1>1, <2>1, <2>3, SendMoves DEF RowsAreSends
  <2> QED
    BY <2>2, <2>3
<1> QED
  BY <1>2, <1>3

\* A row is deleted while it is in hand.
LEMMA AcknowledgedIsListed ==
    ASSUME Typed, NEW s, Acknowledged(s)
    PROVE  s \in Listed
<1>1. PICK c \in Callers : flush[c].at = "deleting" /\ Head(flush[c].rows) = s
  BY DEF Acknowledged
<1>2. flush[c].rows \in Seq(Sends) /\ flush[c].rows # <<>>
  BY <1>1 DEF Typed, FlushState
<1>3. 1 \in DOMAIN flush[c].rows /\ s = flush[c].rows[1]
  BY <1>1, <1>2, HeadTailProperties, EmptySeq, LenProperties
<1> QED
  BY <1>3 DEF Listed, ToSet

\* What a step of send does to the provider's count, and to the count of tears.
LEMMA SendWires ==
    ASSUME CapInv, Typed, RowsAreSends, NEW s \in Sends, SendStep(s)
    PROVE  /\ \A r \in Sends \ {s} : wire'[r] = wire[r] /\ torn'[r] = torn[r]
           /\ \/ UNCHANGED <<wire, torn>>
                 /\ (send[s] = "counted" /\ send'[s] = "refused" => UNCHANGED rows)
              \/ /\ send[s] = "dispatch" /\ send'[s] = "sent"
                 /\ wire'[s] = wire[s] + 1 /\ torn'[s] = torn[s]
              \/ /\ send[s] = "dispatch" /\ send'[s] = "begun"
                 /\ wire'[s] = wire[s] + 1 /\ torn'[s] = torn[s] + 1
              \/ /\ send[s] = "counted" /\ send'[s] = "refused"
                 /\ wire'[s] = wire[s] /\ torn'[s] = torn[s] + 1
<1>0. /\ Bump(wire, s)[s] = wire[s] + 1 /\ Bump(torn, s)[s] = torn[s] + 1
      /\ \A r \in Sends \ {s} : Bump(wire, s)[r] = wire[r] /\ Bump(torn, s)[r] = torn[r]
  BY Bumped DEF Typed
<1>1. CASE Route(s) \/ Count(s) \/ Commit(s) \/ Answer(s)
  <2>1. UNCHANGED <<wire, torn>>
    BY <1>1 DEF Route, Count, Commit, Answer, history
  <2>2. ~(send[s] = "counted" /\ send'[s] = "refused")
    BY <1>1, AtMoves DEF Route, Count, Commit, Answer, SendStates, Answers
  <2> QED
    BY <2>1, <2>2
<1>2. CASE Dispatch(s) /\ Delivers(s) /\ At(s, "sent")
  BY <1>0, <1>2, AtMoves DEF Dispatch, Delivers, SendStates, Answers
<1>3. CASE Dispatch(s) /\ FailsForGood(s)
  BY <1>3, AtMoves DEF Dispatch, FailsForGood
<1>4. CASE Dispatch(s) /\ FailsQueueable(s) /\ Begin(s)
  <2>1. send'[s] = "begun" /\ send[s] = "dispatch"
    BY <1>4, AtMoves DEF Begin, Dispatch, SendStates
  <2> QED
    BY <1>0, <1>4, <2>1 DEF FailsQueueable
<1>5. CASE EnqueueFails(s)
  <2>1. send'[s] = "refused"
    BY <1>5, AtMoves DEF EnqueueFails, SendStates, Answers
  <2> QED
    BY <1>0, <1>5, <2>1 DEF EnqueueFails
<1> QED
  BY <1>1, <1>2, <1>3, <1>4, <1>5 DEF SendStep, Dispatch

\* What a step of send does to the table.
LEMMA SendTable ==
    ASSUME NEW s \in Sends, SendStep(s)
    PROVE  /\ rows \cup pruned \subseteq rows' \cup pruned'
           /\ rows' \ expired' \subseteq (rows \ expired) \cup {s}
           /\ UNCHANGED <<order, before>> \/ (send[s] \in {"new", "dispatch"} /\ Begin(s))
<1>1. CASE Route(s)
  BY <1>1 DEF Route
<1>2. CASE Dispatch(s)
  BY <1>2 DEF Dispatch
<1>3. CASE Count(s)
  BY <1>3 DEF Count, Prune
<1>4. CASE Commit(s)
  BY <1>4 DEF Commit, history
<1>5. CASE EnqueueFails(s)
  BY <1>5 DEF EnqueueFails
<1>6. CASE Answer(s)
  BY <1>6 DEF Answer, table, history
<1> QED
  BY <1>1, <1>2, <1>3, <1>4, <1>5, <1>6 DEF SendStep

LEMMA SendWire ==
    ASSUME CapInv, QueueInv, NEW s \in Sends, SendStep(s)
    PROVE  WireInv' /\ AnswerInv'
<1>1. /\ Typed /\ RowsAreSends /\ WireInv /\ AnswerInv
      /\ wire \in [Sends -> Nat] /\ torn \in [Sends -> Nat]
  BY DEF QueueInv, Typed
<1>2. Listed' = Listed /\ \A r : Acknowledged(r)' <=> Acknowledged(r)
  BY <1>1, SendTyped, SameFlush
<1>3. Acknowledged(s) => send[s] \in {"committed", "queued", "refused", "lost"}
  BY <1>1, AcknowledgedIsListed DEF RowsAreSends
<1>4. rows' \subseteq rows \cup {s} /\ rows \cup pruned \subseteq rows' \cup pruned'
  BY <1>1, SendMoves, SendTable
<1>5. ASSUME NEW r \in Sends
      PROVE  /\ wire'[r] <= 1 + torn'[r]
             /\ Acknowledged(r)' => wire'[r] > 0
             /\ /\ send'[r] \in {"new", "dispatch", "begun", "counted"} \/ r \in rows' \cup Listed'
                /\ ~Acknowledged(r)'
                => wire'[r] <= torn'[r]
             /\ send'[r] \in {"committed", "queued"} => r \in rows' \cup pruned' \/ wire'[r] > 0
             /\ send'[r] = "refused" /\ torn'[r] = 0 => wire'[r] = 0 /\ r \notin rows' \cup Listed'
  <2>0. wire[r] \in Nat /\ torn[r] \in Nat
    BY <1>1
  <2>1. CASE r # s
    <3>1. send'[r] = send[r] /\ wire'[r] = wire[r] /\ torn'[r] = torn[r]
      BY <1>1, <2>1, SendMoves, SendWires
    <3>2. (r \in rows' => r \in rows) /\ (r \in rows \cup pruned => r \in rows' \cup pruned')
      BY <1>4, <2>1
    <3> QED
      BY <1>1, <1>2, <3>1, <3>2 DEF WireInv, AnswerInv
  <2>2. CASE r = s
    <3>1. /\ wire[s] <= 1 + torn[s] /\ (Acknowledged(s) => wire[s] > 0)
          /\ (send[s] \in {"new", "dispatch", "begun", "counted"} => wire[s] <= torn[s])
          /\ (s \in rows \cup Listed /\ ~Acknowledged(s) => wire[s] <= torn[s])
      BY <1>1, <1>3 DEF WireInv
    <3>2. s \in rows \cup Listed => send[s] \in {"committed", "queued", "refused", "lost"}
      BY <1>1 DEF RowsAreSends
    <3>3. CASE UNCHANGED <<wire, torn>> /\ (send[s] = "counted" /\ send'[s] = "refused" => UNCHANGED rows)
      <4>1. CASE send[s] \in {"new", "dispatch", "begun"}
        <5>1. s \notin rows' \cup Listed' /\ send'[s] \notin {"committed", "queued"}
          BY <1>1, <1>2, <3>2, <4>1, SendMoves
        <5> QED
          BY <1>2, <2>0, <2>2, <3>1, <3>3, <4>1, <5>1
      <4>2. CASE send[s] = "counted"
        <5>1. send'[s] = "refused" => s \notin rows' \cup Listed'
          BY <1>2, <3>2, <3>3, <4>2
        <5>2. send'[s] \in {"refused", "committed"} /\ (send'[s] = "committed" => s \in rows')
          BY <1>1, <4>2, SendMoves
        <5> QED
          BY <1>2, <2>0, <2>2, <3>1, <3>3, <4>2, <5>1, <5>2
      <4>3. CASE send[s] = "committed"
        <5>1. send'[s] = "queued" /\ UNCHANGED rows
          BY <1>1, <4>3, SendMoves
        <5>2. s \in rows \cup pruned \/ wire[s] > 0
          BY <1>1, <4>3 DEF AnswerInv
        <5> QED
          BY <1>2, <1>4, <2>0, <2>2, <3>1, <3>3, <5>1, <5>2
      <4> QED
        BY <1>1, <4>1, <4>2, <4>3, SendMoves
    <3>4. CASE send[s] = "dispatch" /\ send'[s] = "sent"
               /\ wire'[s] = wire[s] + 1 /\ torn'[s] = torn[s]
      <4>1. s \notin rows' \cup Listed'
        BY <1>1, <1>2, <3>2, <3>4, SendMoves
      <4> QED
        BY <1>2, <1>3, <2>0, <2>2, <3>1, <3>4, <4>1
    <3>5. CASE send[s] = "dispatch" /\ send'[s] = "begun"
               /\ wire'[s] = wire[s] + 1 /\ torn'[s] = torn[s] + 1
      BY <1>2, <1>3, <2>0, <2>2, <3>1, <3>5
    <3>6. CASE send[s] = "counted" /\ send'[s] = "refused"
               /\ wire'[s] = wire[s] /\ torn'[s] = torn[s] + 1
      BY <1>2, <1>3, <2>0, <2>2, <3>1, <3>6
    <3> QED
      BY <1>1, <3>3, <3>4, <3>5, <3>6, SendWires
  <2> QED
    BY <2>1, <2>2
<1> QED
  BY <1>5 DEF WireInv, AnswerInv

LEMMA SendOrder ==
    ASSUME CapInv, QueueInv, NEW s \in Sends, SendStep(s)
    PROVE  OrderInv'
<1>1. Typed /\ RowsAreSends /\ OrderInv /\ UNCHANGED flush /\ before \in [Sends -> SUBSET Sends]
  BY SendTyped DEF QueueInv, Typed
<1>2. /\ \A r \in Sends \ {s} : send'[r] = send[r]
      /\ send[s] # "queued"
      /\ rows' \ expired' \subseteq (rows \ expired) \cup {s}
      /\ ToSet(order) \subseteq ToSet(order')
  BY <1>1, SendMoves, SendTable
<1>3. \A r, t : Precedes(r, t) => Precedes(r, t)'
  BY <1>1, SendTable, PrecedesUnchanged, BeginAppends
<1>4. \A c \in Callers : Ordered(flush[c].rows)' /\ ToSet(flush'[c].rows) \subseteq ToSet(order')
  BY <1>1, <1>2, <1>3 DEF OrderInv, Ordered
<1>5. ASSUME NEW t \in Sends, NEW r \in before'[t] PROVE send'[r] = "queued" /\ Precedes(r, t)'
  <2>1. CASE before'[t] = before[t]
    <3>1. r \in Sends /\ send[r] = "queued" /\ Precedes(r, t)
      BY <1>1, <1>5, <2>1 DEF OrderInv
    <3> QED
      BY <1>2, <1>3, <3>1
  <2>2. CASE t = s /\ Begin(s) /\ send[s] \in {"new", "dispatch"}
    <3>1. r \in Sends /\ send[r] = "queued"
      BY <1>1, <1>5, <2>2, BeginAppends
    <3>2. r \in ToSet(order)
      BY <1>1, <3>1 DEF RowsAreSends
    <3> QED
      BY <1>1, <1>2, <2>2, <3>1, <3>2, BeginAppends
  <2> QED
    BY <1>1, <2>1, <2>2, SendTable, BeginAppends
<1>6. ASSUME NEW c \in Callers, NEW t \in ToSet(flush'[c].rows), NEW r \in before'[t] \cap (rows' \ expired')
      PROVE  r \in ToSet(flush'[c].rows)
  <2>1. t \in Listed /\ t \in ToSet(flush[c].rows)
    BY <1>1, <1>6 DEF Listed
  <2>2. t \in Sends
    <3>1. flush[c].rows \in Seq(Sends)
      BY <1>1 DEF Typed, FlushState
    <3> QED
      BY <2>1, <3>1, ElementOfSeq, LenProperties DEF ToSet
  <2>3. before'[t] = before[t]
    <3>1. send[t] \notin {"new", "dispatch"}
      BY <1>1, <2>1, <2>2 DEF RowsAreSends
    <3> QED
      BY <1>1, <2>2, <3>1, SendTable, BeginAppends
  <2>4. send[r] = "queued"
    BY <1>1, <1>6, <2>2, <2>3 DEF OrderInv
  <2>5. r \in before[t] \cap (rows \ expired)
    BY <1>2, <1>6, <2>3, <2>4
  <2> QED
    BY <1>1, <2>1, <2>5 DEF OrderInv
<1> QED
  BY <1>4, <1>5, <1>6 DEF OrderInv

(***************************************************************************)
(* The transport, the triggers of a flush, and expiry.                     *)
(***************************************************************************)
LEMMA TransportKeeps ==
    ASSUME QueueInv,
           Connect \/ Disconnect \/ OnReconnect \/ OnTimer \/ \E s \in Sends : Expire(s)
    PROVE  QueueInv'
<1>0. /\ Typed /\ OneFlush /\ RowsAreSends /\ WireInv /\ AnswerInv /\ OrderInv
  BY DEF QueueInv
<1>1. /\ UNCHANGED <<caller, rows, order, history>>
      /\ expired \subseteq expired' /\ expired' \subseteq rows
      /\ faults' \in 0 .. MaxFaults /\ ready' \in BOOLEAN /\ timer' \in BOOLEAN
      /\ connects' \in 0 .. MaxConnects /\ events' \in 0 .. connects'
  <2>1. CASE Connect
    <3>1. connects + 1 \in 0 .. MaxConnects
      BY <1>0, <2>1, QueueAssumption DEF Connect, Typed
    <3> QED
      BY <1>0, <2>1, <3>1, FaultTyped DEF Connect, Typed, table
  <2>2. CASE Disconnect
    BY <1>0, <2>2 DEF Disconnect, Typed, table
  <2>3. CASE OnReconnect \/ OnTimer
    <3>1. events > 0 => events - 1 \in 0 .. connects
      BY <1>0, QueueAssumption DEF Typed
    <3>2. /\ UNCHANGED <<ready, connects, caller, rows, order, expired, history, faults>>
          /\ timer' \in BOOLEAN /\ (events' = events \/ (events > 0 /\ events' = events - 1))
      <4>1. CASE OnReconnect
        BY <1>0, <4>1 DEF OnReconnect, table, Typed
      <4>2. CASE OnTimer
        <5>1. timer' = FALSE
          BY <4>2 DEF OnTimer
        <5>2. /\ UNCHANGED <<ready, connects, caller, rows, order, expired, history, faults>>
              /\ events' = events
          BY <4>2 DEF OnTimer, table
        <5> QED
          BY <5>1, <5>2
      <4> QED
        BY <2>3, <4>1, <4>2
    <3> QED
      BY <1>0, <3>1, <3>2 DEF Typed
  <2>4. CASE \E s \in Sends : Expire(s)
    BY <1>0, <2>4 DEF Expire, Typed, channel
  <2> QED
    BY <2>1, <2>2, <2>3, <2>4
<1>2. \/ UNCHANGED flusher
      \/ \E c \in Callers : /\ flushing = FALSE /\ flushing' = TRUE
                            /\ flush' = [flush EXCEPT ![c] = [at |-> "listing", rows |-> <<>>]]
  BY <1>0 DEF Connect, Disconnect, OnReconnect, OnTimer, Expire, StartFlush, MayFlush, Callers,
              Typed
<1>3. /\ flush' \in [Callers -> FlushState] /\ flushing' \in BOOLEAN
      /\ \A c \in Callers : /\ flush'[c].rows = flush[c].rows
                            /\ (flush'[c].at = "deleting") <=> (flush[c].at = "deleting")
                            /\ (flush'[c].at \in {"sending", "deleting"}) <=> (flush'[c].rows # <<>>)
      /\ OneFlush'
  <2>1. CASE UNCHANGED flusher
    BY <1>0, <2>1 DEF flusher, Typed, OneFlush
  <2>2. ASSUME NEW c \in Callers, flushing = FALSE, flushing' = TRUE,
               flush' = [flush EXCEPT ![c] = [at |-> "listing", rows |-> <<>>]]
        PROVE  <1>3
    <3>1. \A d \in Callers : flush[d].at = "idle" /\ flush[d].rows = <<>>
      BY <1>0, <2>2 DEF OneFlush, Typed
    <3>2. [at |-> "listing", rows |-> <<>>] \in FlushState
      BY NoRows DEF FlushState
    <3>3. /\ flush' \in [Callers -> FlushState] /\ flush'[c] = [at |-> "listing", rows |-> <<>>]
          /\ \A d \in Callers \ {c} : flush'[d] = flush[d]
      BY <1>0, <2>2, <3>2 DEF Typed
    <3> QED
      BY <2>2, <3>1, <3>3 DEF OneFlush
  <2> QED
    BY <1>2, <2>1, <2>2
<1>4. Listed' = Listed /\ \A s : Acknowledged(s)' <=> Acknowledged(s)
  BY <1>3 DEF Listed, Acknowledged
<1>5. Typed'
  BY <1>0, <1>1, <1>3 DEF Typed, caller, history
<1>6. RowsAreSends' /\ WireInv' /\ AnswerInv'
  BY <1>0, <1>1, <1>4 DEF RowsAreSends, WireInv, AnswerInv, caller, history
<1>7. OrderInv'
  <2>1. \A r, t : Precedes(r, t) => Precedes(r, t)'
    BY <1>1, PrecedesUnchanged
  <2>2. \A l : Ordered(l) => Ordered(l)'
    BY <2>1 DEF Ordered
  <2>4. \A c \in Callers : ToSet(flush'[c].rows) = ToSet(flush[c].rows)
    BY <1>3
  <2>5. rows' \ expired' \subseteq rows \ expired /\ UNCHANGED <<before, send, order>>
    BY <1>1 DEF history, caller
  <2> QED
    BY <1>0, <1>3, <2>1, <2>2, <2>4, <2>5 DEF OrderInv
<1> QED
  BY <1>3, <1>5, <1>6, <1>7 DEF QueueInv

(***************************************************************************)
(* A step of a flush.                                                      *)
(***************************************************************************)
\* The flush of c goes on with some rows, or ends.
Lands(c, state) ==
    /\ flush' = [flush EXCEPT ![c] = state]
    /\ \/ state = NoFlush /\ flushing' = FALSE
       \/ state.at \in {"sending", "deleting"} /\ state.rows # <<>> /\ UNCHANGED flushing

LEMMA EndLands ==
    ASSUME NEW c, EndFlush(c)
    PROVE  /\ NoFlush \in FlushState /\ NoFlush.rows = <<>> /\ NoFlush.at = "idle"
           /\ Lands(c, NoFlush)
BY NoRows DEF EndFlush, Lands, NoFlush, FlushState

LEMMA GoOnLands ==
    ASSUME NEW c, NEW rest \in Seq(Sends), GoOn(c, rest)
    PROVE  \E state \in FlushState :
               Lands(c, state) /\ state.rows = rest /\ state.at # "deleting"
<1>1. CASE rest = <<>>
  BY <1>1, EndLands DEF GoOn
<1>2. CASE rest # <<>>
  <2> DEFINE state == [at |-> "sending", rows |-> rest]
  <2>1. state \in FlushState /\ state.rows = rest /\ state.at = "sending"
    BY DEF FlushState
  <2>2. Lands(c, state)
    BY <1>2, <2>1 DEF GoOn, Lands
  <2> QED
    BY <2>1, <2>2
<1> QED
  BY <1>1, <1>2

LEMMA LandsKeeps ==
    ASSUME QueueInv, NEW c \in Callers, flush[c].at # "idle",
           NEW state \in FlushState, Lands(c, state)
    PROVE  /\ OneFlush' /\ flushing' \in BOOLEAN /\ flush' \in [Callers -> FlushState]
           /\ \A d \in Callers : /\ (flush'[d].at \in {"sending", "deleting"}) <=> (flush'[d].rows # <<>>)
                                 /\ flush'[d].rows # <<>> => d = c
           /\ flush'[c] = state
           /\ Listed = ToSet(flush[c].rows) /\ Listed' = ToSet(state.rows)
           /\ \A s : Acknowledged(s) <=> flush[c].at = "deleting" /\ Head(flush[c].rows) = s
           /\ \A s : Acknowledged(s)' <=> state.at = "deleting" /\ Head(state.rows) = s
<1>0. Typed /\ OneFlush
  BY DEF QueueInv
<1>1. /\ flushing /\ flushing \in BOOLEAN
      /\ \A d \in Callers \ {c} : flush[d].at = "idle" /\ flush[d].rows = <<>>
      /\ Listed = ToSet(flush[c].rows)
      /\ \A s : Acknowledged(s) <=> flush[c].at = "deleting" /\ Head(flush[c].rows) = s
  BY <1>0, OnlyFlush DEF Typed
<1>2. flush' = [flush EXCEPT ![c] = state]
  BY DEF Lands
<1>3. /\ flush' \in [Callers -> FlushState] /\ flush'[c] = state
      /\ \A d \in Callers \ {c} : flush'[d] = flush[d] /\ flush'[d].rows = <<>>
      /\ Listed' = ToSet(state.rows)
      /\ \A s : Acknowledged(s)' <=> state.at = "deleting" /\ Head(state.rows) = s
  BY <1>0, <1>1, <1>2, OnlyFlushNext
<1>4. /\ flushing' \in BOOLEAN
      /\ (state.at \in {"sending", "deleting"}) <=> (state.rows # <<>>)
      /\ state.at # "idle" => flushing'
  <2>1. CASE state = NoFlush /\ flushing' = FALSE
    BY <2>1 DEF NoFlush
  <2>2. CASE state.at \in {"sending", "deleting"} /\ state.rows # <<>> /\ UNCHANGED flushing
    <3>1. flushing' = flushing
      BY <2>2
    <3>2. flushing' /\ flushing' \in BOOLEAN
      BY <1>1, <3>1
    <3> QED
      BY <2>2, <3>2
  <2> QED
    BY <2>1, <2>2 DEF Lands
<1>5. OneFlush'
  BY <1>1, <1>3, <1>4 DEF OneFlush
<1>6. \A d \in Callers : /\ (flush'[d].at \in {"sending", "deleting"}) <=> (flush'[d].rows # <<>>)
                         /\ flush'[d].rows # <<>> => d = c
  BY <1>1, <1>3, <1>4
<1> QED
  BY <1>1, <1>3, <1>4, <1>5, <1>6

\* What every step of a flush leaves alone.
LEMMA FlushFrame ==
    ASSUME QueueInv, NEW c \in Callers, flush[c].at # "idle",
           NEW state \in FlushState, Lands(c, state),
           UNCHANGED <<ready, events, connects, caller, order, before>>,
           timer' \in BOOLEAN, faults' \in 0 .. MaxFaults, pruned' \subseteq Sends,
           expired' \subseteq rows', rows' \subseteq rows,
           wire' \in [Sends -> Nat], torn' \in [Sends -> Nat],
           rows' \cup Listed' \subseteq rows \cup Listed,
           rows' \ expired' \subseteq rows \ expired, Ordered(state.rows),
           ToSet(state.rows) \subseteq ToSet(order),
           \A t \in ToSet(state.rows) : before[t] \cap (rows' \ expired') \subseteq ToSet(state.rows)
    PROVE  Typed' /\ OneFlush' /\ RowsAreSends' /\ OrderInv'
<1>0. Typed /\ RowsAreSends /\ OrderInv
  BY DEF QueueInv
<1>1. /\ OneFlush' /\ flushing' \in BOOLEAN /\ flush' \in [Callers -> FlushState]
      /\ \A d \in Callers : /\ (flush'[d].at \in {"sending", "deleting"}) <=> (flush'[d].rows # <<>>)
                            /\ flush'[d].rows # <<>> => d = c
      /\ flush'[c] = state
  BY LandsKeeps
<1>2. Typed'
  BY <1>0, <1>1 DEF Typed, caller
<1>3. RowsAreSends'
  BY <1>0 DEF RowsAreSends, caller
<1>4. OrderInv'
  <2>1. \A r, t : Precedes(r, t) => Precedes(r, t)'
    BY PrecedesUnchanged
  <2>2. \A l : Ordered(l) => Ordered(l)'
    BY <2>1 DEF Ordered
  <2>3. \A d \in Callers : d = c \/ flush'[d].rows = <<>>
    BY <1>1
  <2>4. \A d \in Callers : /\ Ordered(flush'[d].rows) /\ ToSet(flush'[d].rows) \subseteq ToSet(order)
                           /\ \A t \in ToSet(flush'[d].rows) :
                                  before[t] \cap (rows' \ expired') \subseteq ToSet(flush'[d].rows)
    BY <1>1, <2>3, NoRows
  <2>5. send' = send
    BY DEF caller
  <2> QED
    BY <1>0, <2>1, <2>2, <2>4, <2>5 DEF OrderInv
<1> QED
  BY <1>1, <1>2, <1>3, <1>4

LEMMA ListKeeps ==
    ASSUME CapInv, QueueInv, NEW c \in Callers, List(c)
    PROVE  QueueInv'
<1>0. /\ Typed /\ WireInv /\ AnswerInv /\ flush[c].at = "listing" /\ flush[c].at # "idle"
      /\ UNCHANGED <<channel, caller, order, wire, torn, before>>
      /\ timer \in BOOLEAN /\ faults \in 0 .. MaxFaults /\ expired \subseteq rows
      /\ wire \in [Sends -> Nat] /\ torn \in [Sends -> Nat] /\ pruned \subseteq Sends
  BY DEF QueueInv, List, Typed
<1>1. rows \subseteq Sends /\ IsFiniteSet(rows)
  BY DEF CapInv, TableOK
<1>2. CASE Prune /\ UNCHANGED faults
           /\ \E l \in [1 .. Cardinality(rows \ expired) -> rows \ expired] :
                 ToSet(l) = rows \ expired /\ Ordered(l) /\ GoOn(c, l)
  <2>1. PICK l \in [1 .. Cardinality(rows \ expired) -> rows \ expired] :
            ToSet(l) = rows \ expired /\ Ordered(l) /\ GoOn(c, l)
    BY <1>2
  <2>2. l \in Seq(Sends) /\ ToSet(l) \subseteq ToSet(order)
    BY <1>0, <1>1, ListTyped
  <2>3. PICK state \in FlushState : Lands(c, state) /\ state.rows = l /\ state.at # "deleting"
    BY <2>1, <2>2, GoOnLands
  <2>4. /\ Listed' = rows \ expired
        /\ \A s : ~Acknowledged(s) /\ ~Acknowledged(s)'
    BY <1>0, <2>1, <2>3, LandsKeeps
  <2>5. rows' = rows \ expired /\ expired' = {} /\ pruned' = pruned \cup expired
    BY <1>2 DEF Prune
  <2>6. pruned' \subseteq Sends
    BY <1>0, <1>1, <2>5
  <2>7. Typed' /\ OneFlush' /\ RowsAreSends' /\ OrderInv'
    BY <1>0, <1>2, <2>1, <2>2, <2>3, <2>4, <2>5, <2>6, FlushFrame DEF channel
  <2>8. WireInv' /\ AnswerInv'
    BY <1>0, <2>4, <2>5 DEF WireInv, AnswerInv, caller
  <2> QED
    BY <2>7, <2>8 DEF QueueInv
<1>3. CASE Fault /\ EndFlush(c) /\ UNCHANGED <<rows, expired, pruned>>
  <2>1. NoFlush \in FlushState /\ NoFlush.rows = <<>> /\ NoFlush.at = "idle" /\ Lands(c, NoFlush)
    BY <1>3, EndLands
  <2>2. /\ Listed' = {} /\ \A s : ~Acknowledged(s) /\ ~Acknowledged(s)'
    BY <1>0, <2>1, LandsKeeps, NoRows
  <2>3. Typed' /\ OneFlush' /\ RowsAreSends' /\ OrderInv'
    BY <1>0, <1>3, <2>1, <2>2, NoRows, FaultTyped, FlushFrame DEF channel
  <2>4. WireInv' /\ AnswerInv'
    BY <1>0, <1>3, <2>2 DEF WireInv, AnswerInv, caller
  <2> QED
    BY <2>3, <2>4 DEF QueueInv
<1> QED
  BY <1>2, <1>3 DEF List

\* What a sending or deleting flush knows of its head.
LEMMA HeadInHand ==
    ASSUME QueueInv, NEW c \in Callers, flush[c].at \in {"sending", "deleting"}
    PROVE  /\ flush[c].rows \in Seq(Sends) /\ flush[c].rows # <<>> /\ Ordered(flush[c].rows)
           /\ Head(flush[c].rows) \in Sends /\ Head(flush[c].rows) \in ToSet(flush[c].rows)
           /\ Tail(flush[c].rows) \in Seq(Sends) /\ Ordered(Tail(flush[c].rows))
           /\ ToSet(Tail(flush[c].rows)) = ToSet(flush[c].rows) \ {Head(flush[c].rows)}
           /\ \A s \in ToSet(Tail(flush[c].rows)) : Precedes(Head(flush[c].rows), s)
           /\ Listed = ToSet(flush[c].rows)
           /\ \A s : Acknowledged(s) <=> flush[c].at = "deleting" /\ Head(flush[c].rows) = s
           /\ ToSet(flush[c].rows) \subseteq ToSet(order)
           /\ \A t \in ToSet(flush[c].rows) :
                  before[t] \cap (rows \ expired) \subseteq ToSet(flush[c].rows)
<1>1. /\ Typed /\ OneFlush /\ OrderInv
  BY DEF QueueInv
<1>2. flush[c].rows \in Seq(Sends) /\ flush[c].rows # <<>>
  BY <1>1 DEF Typed, FlushState
<1>3. /\ Ordered(flush[c].rows) /\ ToSet(flush[c].rows) \subseteq ToSet(order)
      /\ \A t \in ToSet(flush[c].rows) :
             before[t] \cap (rows \ expired) \subseteq ToSet(flush[c].rows)
  BY <1>1 DEF OrderInv
<1>4. /\ Listed = ToSet(flush[c].rows)
      /\ \A s : Acknowledged(s) <=> flush[c].at = "deleting" /\ Head(flush[c].rows) = s
  BY <1>1, OnlyFlush
<1> QED
  BY <1>1, <1>2, <1>3, <1>4, OrderedTail

\* A step that moves the counts of the row in hand, and of no other.
LEMMA FlushWires ==
    ASSUME QueueInv, NEW s \in Sends, s \in Listed, UNCHANGED send,
           rows' \cup Listed' \subseteq rows \cup Listed,
           \A r \in Sends \ {s} : /\ wire'[r] = wire[r] /\ torn'[r] = torn[r]
                                  /\ ~Acknowledged(r) /\ ~Acknowledged(r)'
                                  /\ r \in rows \cup pruned => r \in rows' \cup pruned',
           wire'[s] \in Nat, torn'[s] \in Nat, wire[s] <= wire'[s], torn[s] <= torn'[s],
           wire'[s] <= 1 + torn'[s], Acknowledged(s)' => wire'[s] > 0,
           s \in rows' \cup Listed' /\ ~Acknowledged(s)' => wire'[s] <= torn'[s],
           s \in rows \cup pruned => s \in rows' \cup pruned' \/ wire'[s] > 0
    PROVE  WireInv' /\ AnswerInv'
<1>0. /\ RowsAreSends /\ WireInv /\ AnswerInv
      /\ wire \in [Sends -> Nat] /\ torn \in [Sends -> Nat]
  BY DEF QueueInv, Typed
<1>1. ASSUME NEW r \in Sends
      PROVE  /\ wire'[r] <= 1 + torn'[r]
             /\ Acknowledged(r)' => wire'[r] > 0
             /\ /\ send'[r] \in {"new", "dispatch", "begun", "counted"} \/ r \in rows' \cup Listed'
                /\ ~Acknowledged(r)'
                => wire'[r] <= torn'[r]
             /\ send'[r] \in {"committed", "queued"} => r \in rows' \cup pruned' \/ wire'[r] > 0
             /\ send'[r] = "refused" /\ torn'[r] = 0 => wire'[r] = 0 /\ r \notin rows' \cup Listed'
  <2>1. CASE r # s
    <3>1. wire'[r] = wire[r] /\ torn'[r] = torn[r] /\ ~Acknowledged(r) /\ ~Acknowledged(r)'
          /\ (r \in rows \cup pruned => r \in rows' \cup pruned') /\ send'[r] = send[r]
      BY <2>1
    <3> QED
      BY <1>0, <3>1 DEF WireInv, AnswerInv
  <2>2. CASE r = s
    <3>1. send[s] \notin {"new", "dispatch", "begun", "counted"}
      BY <1>0 DEF RowsAreSends
    <3>2. wire[s] \in Nat /\ torn[s] \in Nat
      BY <1>0
    <3>3. ~(send[s] = "refused" /\ torn'[s] = 0)
      BY <1>0, <3>2 DEF AnswerInv
    <3>4. send[s] \in {"committed", "queued"} => s \in rows' \cup pruned' \/ wire'[s] > 0
      BY <1>0, <3>2 DEF AnswerInv
    <3> QED
      BY <2>2, <3>1, <3>3, <3>4
  <2> QED
    BY <2>1, <2>2
<1> QED
  BY <1>1 DEF WireInv, AnswerInv

LEMMA FlushSendKeeps ==
    ASSUME QueueInv, NEW c \in Callers, FlushSend(c)
    PROVE  QueueInv'
<1> DEFINE s == Head(flush[c].rows)
<1>0. /\ Typed /\ WireInv /\ AnswerInv /\ flush[c].at = "sending"
      /\ flush[c].at # "idle" /\ flush[c].at \in {"sending", "deleting"}
      /\ UNCHANGED <<ready, events, connects, caller, table, pruned, before>>
      /\ timer \in BOOLEAN /\ faults \in 0 .. MaxFaults /\ expired \subseteq rows
      /\ wire \in [Sends -> Nat] /\ torn \in [Sends -> Nat] /\ pruned \subseteq Sends
  BY DEF QueueInv, FlushSend, Typed
<1>1. /\ s \in Sends /\ s \in Listed /\ flush[c].rows \in Seq(Sends) /\ flush[c].rows # <<>>
      /\ \A r : ~Acknowledged(r)
  BY <1>0, HeadInHand
<1>2. /\ Bump(wire, s) \in [Sends -> Nat] /\ Bump(wire, s)[s] = wire[s] + 1
      /\ Bump(torn, s) \in [Sends -> Nat] /\ Bump(torn, s)[s] = torn[s] + 1
      /\ \A r \in Sends \ {s} : Bump(wire, s)[r] = wire[r] /\ Bump(torn, s)[r] = torn[r]
  BY <1>0, <1>1, Bumped
<1>3. /\ wire[s] <= torn[s] /\ wire[s] \in Nat /\ torn[s] \in Nat
      /\ ~(send[s] = "refused" /\ torn[s] = 0)
  BY <1>0, <1>1 DEF WireInv, AnswerInv
<1> HIDE DEF s
<1>4. CASE /\ Delivers(s) /\ UNCHANGED <<flushing, timer>>
           /\ flush' = [flush EXCEPT ![c].at = "deleting"]
  <2> DEFINE state == [at |-> "deleting", rows |-> flush[c].rows]
  <2>1. state \in FlushState /\ state.rows = flush[c].rows /\ state.at = "deleting"
    BY <1>1 DEF FlushState
  <2>2. flush' = [flush EXCEPT ![c] = state]
    <3>1. flush[c] \in FlushState /\ flush \in [Callers -> FlushState]
      BY <1>0 DEF Typed
    <3>2. [flush[c] EXCEPT !.at = "deleting"] = state
      BY <3>1 DEF FlushState
    <3> QED
      BY <1>4, <3>1, <3>2
  <2>3. Lands(c, state)
    BY <1>1, <1>4, <2>1, <2>2 DEF Lands
  <2> HIDE DEF state
  <2>4. /\ Listed' = Listed /\ \A r : Acknowledged(r)' <=> r = s
    BY <1>0, <2>1, <2>3, LandsKeeps DEF s
  <2>5. wire' = Bump(wire, s) /\ UNCHANGED <<torn, faults>>
    BY <1>4 DEF Delivers
  <2>6. Typed' /\ OneFlush' /\ RowsAreSends' /\ OrderInv'
    BY <1>0, <1>2, <1>4, <2>1, <2>3, <2>4, <2>5, HeadInHand, FlushFrame DEF table
  <2>7. ASSUME NEW r \in Sends, r # s PROVE wire'[r] = wire[r]
    BY <1>2, <2>5, <2>7
  <2>8. wire'[s] = wire[s] + 1
    BY <1>2, <2>5
  <2>9. WireInv' /\ AnswerInv'
    <3>1. UNCHANGED <<send, rows, pruned>> /\ torn'[s] = torn[s]
      BY <1>0, <2>5 DEF caller, table
    <3>2. \A r \in Sends \ {s} : torn'[r] = torn[r] /\ ~Acknowledged(r) /\ ~Acknowledged(r)'
      BY <1>1, <2>4, <2>5
    <3> QED
      BY <1>1, <1>3, <2>4, <2>7, <2>8, <3>1, <3>2, FlushWires
  <2> QED
    BY <2>6, <2>9 DEF QueueInv
<1>5. CASE /\ FailsQueueable(s) \/ FailsForGood(s)
           /\ EndFlush(c) /\ timer' \in BOOLEAN
  <2>1. NoFlush \in FlushState /\ NoFlush.rows = <<>> /\ NoFlush.at = "idle" /\ Lands(c, NoFlush)
    BY <1>5, EndLands
  <2>2. /\ Listed' = {} /\ \A r : ~Acknowledged(r)'
    BY <1>0, <2>1, LandsKeeps, NoRows
  <2>3. /\ wire' \in [Sends -> Nat] /\ torn' \in [Sends -> Nat] /\ faults' \in 0 .. MaxFaults
        /\ \A r \in Sends \ {s} : wire'[r] = wire[r] /\ torn'[r] = torn[r]
        /\ \/ wire'[s] = wire[s] /\ torn'[s] = torn[s]
           \/ wire'[s] = wire[s] + 1 /\ torn'[s] = torn[s] + 1
    BY <1>0, <1>2, <1>5, FaultTyped DEF FailsQueueable, FailsForGood
  <2>4. Typed' /\ OneFlush' /\ RowsAreSends' /\ OrderInv'
    BY <1>0, <1>5, <2>1, <2>2, <2>3, NoRows, FlushFrame DEF table
  <2>5. WireInv' /\ AnswerInv'
    <3>1. UNCHANGED <<send, rows, pruned>>
      BY <1>0 DEF caller, table
    <3>2. /\ wire'[s] \in Nat /\ torn'[s] \in Nat /\ wire[s] <= wire'[s] /\ torn[s] <= torn'[s]
          /\ wire'[s] <= torn'[s]
      BY <1>1, <1>3, <2>3
    <3>3. wire'[s] <= 1 + torn'[s]
      BY <3>2
    <3> QED
      BY <1>1, <2>2, <2>3, <3>1, <3>2, <3>3, FlushWires
  <2> QED
    BY <2>4, <2>5 DEF QueueInv
<1>6. \/ /\ Delivers(s) /\ UNCHANGED <<flushing, timer>>
         /\ flush' = [flush EXCEPT ![c].at = "deleting"]
      \/ /\ FailsQueueable(s) \/ FailsForGood(s)
         /\ EndFlush(c) /\ timer' \in BOOLEAN
  BY <1>0 DEF FlushSend, StopAt, s
<1> QED
  BY <1>4, <1>5, <1>6

LEMMA FlushDeleteKeeps ==
    ASSUME QueueInv, NEW c \in Callers, FlushDelete(c) \/ FlushDeleteFails(c)
    PROVE  QueueInv'
<1> DEFINE s == Head(flush[c].rows)
<1>0. /\ Typed /\ WireInv /\ AnswerInv /\ flush[c].at = "deleting"
      /\ flush[c].at # "idle" /\ flush[c].at \in {"sending", "deleting"}
      /\ UNCHANGED <<channel, caller, order, wire, pruned, before>>
      /\ timer \in BOOLEAN /\ faults \in 0 .. MaxFaults /\ expired \subseteq rows
      /\ wire \in [Sends -> Nat] /\ torn \in [Sends -> Nat] /\ pruned \subseteq Sends
  BY DEF QueueInv, FlushDelete, FlushDeleteFails, Typed, history, table
<1>1. /\ s \in Sends /\ s \in Listed /\ flush[c].rows \in Seq(Sends) /\ flush[c].rows # <<>>
      /\ \A r : Acknowledged(r) <=> r = s
  BY <1>0, HeadInHand
<1>2. wire[s] > 0 /\ wire[s] <= 1 + torn[s] /\ wire[s] \in Nat /\ torn[s] \in Nat
  BY <1>0, <1>1 DEF WireInv
<1> HIDE DEF s
<1>3. CASE FlushDelete(c)
  <2>1. /\ rows' = rows \ {s} /\ expired' = expired \ {s} /\ GoOn(c, Tail(flush[c].rows))
        /\ UNCHANGED <<torn, faults>>
    BY <1>3 DEF FlushDelete, Sent, history, s
  <2>2. PICK state \in FlushState :
            Lands(c, state) /\ state.rows = Tail(flush[c].rows) /\ state.at # "deleting"
    BY <1>0, <2>1, HeadInHand, GoOnLands
  <2>3. /\ Listed' = Listed \ {s} /\ \A r : ~Acknowledged(r)'
    <3>1. Listed' = ToSet(Tail(flush[c].rows)) /\ \A r : ~Acknowledged(r)'
      BY <1>0, <2>2, LandsKeeps
    <3> QED
      BY <1>0, <3>1, HeadInHand DEF s
  <2>4. \A t \in ToSet(state.rows) : before[t] \cap (rows' \ expired') \subseteq ToSet(state.rows)
    BY <1>0, <2>1, <2>2, HeadInHand DEF s
  <2>5. Ordered(state.rows) /\ ToSet(state.rows) \subseteq ToSet(order)
    BY <1>0, <2>2, HeadInHand
  <2>6. Typed' /\ OneFlush' /\ RowsAreSends' /\ OrderInv'
    BY <1>0, <2>1, <2>2, <2>3, <2>4, <2>5, FlushFrame DEF channel
  <2>7. WireInv' /\ AnswerInv'
    <3>1. UNCHANGED <<send, pruned, wire, torn>>
      BY <1>0, <2>1 DEF caller
    <3> QED
      BY <1>1, <1>2, <2>1, <2>3, <3>1, FlushWires
  <2> QED
    BY <2>6, <2>7 DEF QueueInv
<1>4. CASE FlushDeleteFails(c)
  <2>1. NoFlush \in FlushState /\ NoFlush.rows = <<>> /\ NoFlush.at = "idle" /\ Lands(c, NoFlush)
    BY <1>4, EndLands DEF FlushDeleteFails
  <2>2. /\ Listed' = {} /\ \A r : ~Acknowledged(r)'
    BY <1>0, <2>1, LandsKeeps, NoRows
  <2>3. /\ UNCHANGED table /\ faults' \in 0 .. MaxFaults /\ torn' = Bump(torn, s)
    BY <1>0, <1>4, FaultTyped DEF FlushDeleteFails, s
  <2>4. /\ torn' \in [Sends -> Nat] /\ torn'[s] = torn[s] + 1
        /\ \A r \in Sends \ {s} : torn'[r] = torn[r]
    BY <1>0, <1>1, <2>3, Bumped
  <2>5. Typed' /\ OneFlush' /\ RowsAreSends' /\ OrderInv'
    BY <1>0, <2>1, <2>2, <2>3, <2>4, NoRows, FlushFrame DEF table, channel
  <2>6. WireInv' /\ AnswerInv'
    <3>1. UNCHANGED <<send, rows, pruned, wire>>
      BY <1>0, <2>3 DEF caller, table
    <3> QED
      BY <1>1, <1>2, <2>2, <2>4, <3>1, FlushWires
  <2> QED
    BY <2>5, <2>6 DEF QueueInv
<1> QED
  BY <1>3, <1>4

(***************************************************************************)
(* The end of the process, and the theorems.                               *)
(***************************************************************************)
LEMMA CrashKeeps ==
    ASSUME QueueInv, Crash
    PROVE  QueueInv'
<1> DEFINE doomed(s) == {c \in Callers : flush[c].at = "deleting" /\ Head(flush[c].rows) = s}
<1>0. /\ Typed /\ RowsAreSends /\ WireInv /\ AnswerInv /\ OrderInv
      /\ wire \in [Sends -> Nat] /\ torn \in [Sends -> Nat] /\ send \in [Sends -> SendStates]
  BY DEF QueueInv, Typed
<1>1. /\ send' = [s \in Sends |-> IF send[s] \in Answers \cup {"new"} THEN send[s] ELSE "lost"]
      /\ torn' = [s \in Sends |-> torn[s] + Cardinality(doomed(s))]
      /\ flushing' = FALSE /\ flush' = [c \in Callers |-> NoFlush]
      /\ ready' = FALSE /\ events' = 0 /\ timer' = FALSE /\ lock' = None /\ late' = {}
      /\ UNCHANGED <<connects, rows, order, expired, wire, pruned, before>>
  BY DEF Crash, table
<1>2. faults' \in 0 .. MaxFaults
  BY <1>0, FaultTyped DEF Crash
<1>3. ASSUME NEW s \in Sends
      PROVE  Cardinality(doomed(s)) \in Nat /\ (Acknowledged(s) => Cardinality(doomed(s)) >= 1)
  <2>1. IsFiniteSet(Callers)
    <3>1. Callers = {"reconnect"} \cup {"timer"}
      BY DEF Callers
    <3>2. IsFiniteSet({"reconnect"}) /\ IsFiniteSet({"timer"})
      BY FS_Singleton
    <3> QED
      BY <3>1, <3>2, FS_Union
  <2>2. IsFiniteSet(doomed(s))
    BY <2>1, FS_Subset
  <2>3. Cardinality(doomed(s)) \in Nat
    BY <2>2, FS_CardinalityType
  <2>4. ASSUME Acknowledged(s) PROVE Cardinality(doomed(s)) # 0
    <3>1. doomed(s) # {}
      BY <2>4 DEF Acknowledged
    <3> QED
      BY <2>2, <3>1, FS_EmptySet
  <2> QED
    BY <2>3, <2>4
<1> HIDE DEF doomed
<1>4. /\ NoFlush \in FlushState /\ NoFlush.rows = <<>> /\ NoFlush.at = "idle"
  BY NoRows DEF NoFlush, FlushState
<1>5. /\ Listed' = {} /\ \A s : ~Acknowledged(s)'
  BY <1>1, <1>4, NoRows DEF Listed, Acknowledged
<1>6. ASSUME NEW s \in Sends
      PROVE  /\ send'[s] = send[s] \/ (send[s] \notin {"queued", "refused"} /\ send'[s] = "lost")
             /\ send'[s] \in Answers \cup {"new", "lost"} /\ send'[s] \in SendStates
             /\ send[s] \in {"queued", "refused", "sent", "new"} => send'[s] = send[s]
             /\ torn'[s] \in Nat /\ torn[s] <= torn'[s]
             /\ Acknowledged(s) => torn'[s] >= torn[s] + 1
  <2>1. torn'[s] = torn[s] + Cardinality(doomed(s)) /\ torn[s] \in Nat
    BY <1>0, <1>1
  <2>2. torn'[s] \in Nat /\ torn[s] <= torn'[s] /\ (Acknowledged(s) => torn'[s] >= torn[s] + 1)
    BY <1>3, <2>1
  <2>3. send'[s] = IF send[s] \in Answers \cup {"new"} THEN send[s] ELSE "lost"
    BY <1>1
  <2> QED
    BY <2>2, <2>3 DEF Answers, SendStates
<1>7. Typed' /\ OneFlush'
  <2>1. send' \in [Sends -> SendStates] /\ torn' \in [Sends -> Nat]
    BY <1>1, <1>6
  <2>2. \A c \in Callers : flush'[c] = NoFlush
    BY <1>1
  <2>3. flush' \in [Callers -> FlushState]
    BY <1>1, <1>4
  <2>4. OneFlush'
    BY <1>4, <2>2 DEF OneFlush
  <2>5. 0 \in 0 .. connects'
    BY <1>0, <1>1, QueueAssumption DEF Typed
  <2>6. Typed'
    BY <1>0, <1>1, <1>2, <1>4, <2>1, <2>2, <2>3, <2>5 DEF Typed
  <2> QED
    BY <2>4, <2>6
<1>8. RowsAreSends'
  <2> SUFFICES ASSUME NEW s \in Sends
               PROVE  /\ s \in rows' => send'[s] \in {"committed", "queued", "refused", "lost"}
                      /\ s \in ToSet(order') => send'[s] \notin {"new", "dispatch"}
                      /\ send'[s] \in {"begun", "counted", "committed", "queued"} => s \in ToSet(order')
    BY <1>5 DEF RowsAreSends
  <2> QED
    BY <1>0, <1>1, <1>6 DEF RowsAreSends, Answers
<1>9. WireInv' /\ AnswerInv'
  <2>1. ASSUME NEW s \in Sends
        PROVE  /\ wire'[s] <= 1 + torn'[s]
               /\ send'[s] = "new" \/ s \in rows' => wire'[s] <= torn'[s]
               /\ send'[s] \notin {"dispatch", "begun", "counted", "committed"}
               /\ send'[s] = "queued" => s \in rows' \cup pruned' \/ wire'[s] > 0
               /\ send'[s] = "refused" /\ torn'[s] = 0 => wire'[s] = 0 /\ s \notin rows'
    <3>1. wire'[s] = wire[s] /\ wire[s] \in Nat /\ torn[s] \in Nat /\ rows' = rows /\ pruned' = pruned
      BY <1>0, <1>1
    <3>2. /\ wire[s] <= 1 + torn[s]
          /\ (send[s] = "new" \/ s \in rows) /\ ~Acknowledged(s) => wire[s] <= torn[s]
          /\ send[s] = "queued" => s \in rows \cup pruned \/ wire[s] > 0
          /\ send[s] = "refused" /\ torn[s] = 0 => wire[s] = 0 /\ s \notin rows
      BY <1>0 DEF WireInv, AnswerInv
    <3>3. /\ torn'[s] \in Nat /\ torn[s] <= torn'[s]
          /\ Acknowledged(s) => torn'[s] >= torn[s] + 1
          /\ send'[s] \in {"new", "queued", "refused"} => send[s] = send'[s]
          /\ send'[s] \notin {"dispatch", "begun", "counted", "committed"}
      BY <1>6 DEF Answers
    <3>4. wire'[s] <= 1 + torn'[s] /\ (send'[s] = "new" \/ s \in rows' => wire'[s] <= torn'[s])
      BY <3>1, <3>2, <3>3
    <3> QED
      BY <3>1, <3>2, <3>3, <3>4
  <2> QED
    BY <1>5, <2>1 DEF WireInv, AnswerInv
<1>10. OrderInv'
  <2>1. \A r, t : Precedes(r, t) => Precedes(r, t)'
    BY <1>1, PrecedesUnchanged
  <2>2. \A l : Ordered(l) => Ordered(l)'
    BY <2>1 DEF Ordered
  <2>3. \A c \in Callers : flush'[c].rows = <<>>
    BY <1>1, <1>4
  <2>4. \A c \in Callers : Ordered(flush'[c].rows) /\ ToSet(flush'[c].rows) = {}
    BY <2>3, NoRows
  <2>5. \A s \in Sends : \A r \in before'[s] : send'[r] = "queued" /\ Precedes(r, s)'
    <3>1. before \in [Sends -> SUBSET Sends] /\ before' = before
      BY <1>0, <1>1 DEF Typed
    <3> QED
      BY <1>0, <1>6, <2>1, <3>1 DEF OrderInv
  <2> QED
    BY <2>2, <2>4, <2>5 DEF OrderInv
<1> QED
  BY <1>7, <1>8, <1>9, <1>10 DEF QueueInv

LEMMA QueueInvInit == Init => QueueInv
<1> SUFFICES ASSUME Init PROVE QueueInv
  OBVIOUS
<1>1. /\ NoFlush \in FlushState /\ NoFlush.rows = <<>> /\ NoFlush.at = "idle"
  BY NoRows DEF NoFlush, FlushState
<1>2. \A c \in Callers : flush[c] = NoFlush /\ flush[c].rows = <<>> /\ flush[c].at = "idle"
  BY <1>1 DEF Init
<1>3. Listed = {} /\ \A s : ~Acknowledged(s)
  BY <1>2, NoRows DEF Listed, Acknowledged
<1>4. order = <<>> /\ order \in Seq(Sends) /\ ToSet(order) = {} /\ IsInjective(order)
  BY NoRows DEF Init, IsInjective
<1>5. Typed
  <2>1. send \in [Sends -> SendStates]
    BY DEF Init, SendStates
  <2>2. flush \in [Callers -> FlushState]
    BY <1>1 DEF Init
  <2>3. 0 \in 0 .. MaxConnects /\ 0 \in 0 .. MaxFaults /\ 0 \in 0 .. 0
    BY QueueAssumption
  <2> QED
    BY <1>1, <1>2, <1>4, <2>1, <2>2, <2>3 DEF Init, Typed
<1>6. OneFlush
  BY <1>2 DEF OneFlush
<1>7. RowsAreSends /\ WireInv /\ AnswerInv
  BY <1>3, <1>4 DEF Init, RowsAreSends, WireInv, AnswerInv
<1>8. OrderInv
  BY <1>2, <1>4, NoRows DEF Init, OrderInv
<1> QED
  BY <1>5, <1>6, <1>7, <1>8 DEF QueueInv

LEMMA QueueInvStep == CapInv /\ QueueInv /\ [Next]_vars => QueueInv'
<1> SUFFICES ASSUME CapInv, QueueInv, [Next]_vars PROVE QueueInv'
  OBVIOUS
<1>1. ASSUME NEW s \in Sends, SendStep(s) PROVE QueueInv'
  BY <1>1, SendTyped, SendRows, SendWire, SendOrder DEF QueueInv
<1>2. ASSUME NEW c \in Callers, FlushStep(c) PROVE QueueInv'
  BY <1>2, ListKeeps, FlushSendKeeps, FlushDeleteKeeps DEF FlushStep
<1>3. CASE UNCHANGED vars
  <2>1. /\ UNCHANGED <<ready, events, timer, connects, flushing, flush, send, late, lock, rows>>
        /\ UNCHANGED <<order, expired, wire, torn, pruned, before, faults>>
    BY <1>3 DEF vars, channel, flusher, caller, table, history
  <2>2. Listed' = Listed /\ \A s : Acknowledged(s)' <=> Acknowledged(s)
    BY <2>1, SameFlush
  <2>3. Typed' /\ OneFlush'
    BY <2>1 DEF QueueInv, Typed, OneFlush
  <2>4. RowsAreSends' /\ WireInv' /\ AnswerInv'
    BY <2>1, <2>2 DEF QueueInv, RowsAreSends, WireInv, AnswerInv
  <2>5. \A r, t : Precedes(r, t) => Precedes(r, t)'
    BY <2>1, PrecedesUnchanged
  <2>6. \A l : Ordered(l) => Ordered(l)'
    BY <2>5 DEF Ordered
  <2>7. OrderInv'
    BY <2>1, <2>5, <2>6 DEF QueueInv, OrderInv
  <2> QED
    BY <2>3, <2>4, <2>7 DEF QueueInv
<1> QED
  BY <1>1, <1>2, <1>3, TransportKeeps, CrashKeeps DEF Next

LEMMA QueueInvAlways == Spec => [](CapInv /\ QueueInv)
BY CapInvInit, CapInvStep, QueueInvInit, QueueInvStep, PTL DEF Spec

\* The variables keep their types: among them, that the rows are sends that have begun, each at one
\* place of the order of enqueued_at, and that a flush holds rows only while it sends and deletes.
THEOREM TypesAreKept == Spec => []TypeOK
<1>1. QueueInv => TypeOK
  <2> SUFFICES ASSUME QueueInv PROVE TypeOK
    OBVIOUS
  <2>1. Typed
    BY DEF QueueInv
  <2>2. events \in 0 .. MaxConnects
    BY <2>1, QueueAssumption DEF Typed
  <2>3. rows \subseteq Sends
    <3>1. \A j \in DOMAIN order : order[j] \in Sends
      BY <2>1, ElementOfSeq, LenProperties DEF Typed
    <3> QED
      BY <2>1, <3>1 DEF Typed, ToSet
  <2>4. \A c \in Callers : /\ flush[c].at \in {"idle", "listing", "sending", "deleting"}
                           /\ flush[c].rows \in Seq(Sends)
    BY <2>1 DEF Typed, FlushState
  <2>5. {late, rows, expired, pruned} \subseteq SUBSET Sends /\ {wire, torn} \subseteq [Sends -> Nat]
    BY <2>1, <2>3 DEF Typed
  <2>6. {ready, timer, flushing} \subseteq BOOLEAN
    BY <2>1 DEF Typed
  <2> QED
    BY <2>1, <2>2, <2>4, <2>5, <2>6 DEF Typed, TypeOK, SendStates
<1> QED
  BY QueueInvAlways, <1>1, PTL

\* Whatever flushes, retries and crashes overlap, the provider accepts a message a second time only
\* after a tear: an acceptance nobody recorded, or a row whose enqueue was answered as failed.
THEOREM MessagesGoOutOnce == Spec => []SentOnce
<1>1. QueueInv => SentOnce
  BY DEF QueueInv, WireInv, SentOnce
<1> QED
  BY QueueInvAlways, <1>1, PTL

\* What send answered is what becomes of the message, over pruning, flushes and crashes: "queued"
\* stays in the table until it is sent or has expired, "refused" is not sent after all.
THEOREM AnswersHold == Spec => []AnswersAreKept
<1>1. QueueInv => AnswersAreKept
  BY DEF QueueInv, AnswerInv, AnswersAreKept, QueuedIsKept, RefusedIsNotSent
<1> QED
  BY QueueInvAlways, <1>1, PTL

\* A flush sends nothing ahead of a row that was answered for before it began to enqueue,
\* although rows arrive, expire and go while it runs.
THEOREM FlushesKeepOrder == Spec => FlushInOrder
<1> DEFINE InOrder == \A c \in Callers : flush[c].at = "sending" /\ flush'[c].at = "deleting" =>
                          before[Head(flush[c].rows)] \cap (rows \ expired) = {}
<1>1. QueueInv => InOrder
  <2> SUFFICES ASSUME QueueInv, NEW c \in Callers, flush[c].at = "sending",
                      NEW r \in before[Head(flush[c].rows)] \cap (rows \ expired)
               PROVE  FALSE
    OBVIOUS
  <2> DEFINE s == Head(flush[c].rows)
  <2>1. /\ s \in Sends /\ s \in ToSet(flush[c].rows)
        /\ ToSet(Tail(flush[c].rows)) = ToSet(flush[c].rows) \ {s}
        /\ \A t \in ToSet(Tail(flush[c].rows)) : Precedes(s, t)
        /\ before[s] \cap (rows \ expired) \subseteq ToSet(flush[c].rows)
    BY HeadInHand
  <2>2. Typed /\ Precedes(r, s)
    BY <2>1 DEF QueueInv, OrderInv
  <2>3. r \in ToSet(flush[c].rows)
    BY <2>1
  <2>4. r = s \/ Precedes(s, r)
    BY <2>1, <2>3
  <2> QED
    BY <2>2, <2>4, PrecedesStrict
<1>2. QueueInv /\ [Next]_vars => [InOrder]_vars
  BY <1>1
<1> QED
  BY QueueInvAlways, <1>2, PTL DEF Spec, FlushInOrder
==============================================================================
