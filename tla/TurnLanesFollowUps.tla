-------------------------- MODULE TurnLanesFollowUps --------------------------
(***************************************************************************)
(* Proofs about TurnLanes: what becomes of a follow-up, and who waits for  *)
(* whom, for every set of conversations, inbounds and synthetic tasks,     *)
(* every cap and every number of failures.                                 *)
(*                                                                         *)
(* The argument has three layers, each an invariant on top of the one      *)
(* before: who holds a lane and who waits for it (HoldInv), which          *)
(* follow-ups are queued, taken and stored (FollowInv), and how many       *)
(* (CapInv).                                                               *)
(***************************************************************************)
EXTENDS TurnLanesProofs, FiniteSetTheorems

(***************************************************************************)
(* Sequences.                                                              *)
(***************************************************************************)
\* RemoveAt closes the gap it makes.
LEMMA RemoveAtElements ==
    ASSUME NEW S, NEW s \in Seq(S), NEW k \in DOMAIN s
    PROVE  /\ DOMAIN RemoveAt(s, k) = 1 .. (Len(s) - 1)
           /\ \A j \in 1 .. (Len(s) - 1) :
                RemoveAt(s, k)[j] = IF j < k THEN s[j] ELSE s[j + 1]
<1>1. k \in 1 .. Len(s) /\ Len(s) \in Nat
  BY LenProperties
<1> DEFINE a == SubSeq(s, 1, k - 1)
           b == SubSeq(s, k + 1, Len(s))
<1>2. a \in Seq(S) /\ Len(a) = k - 1 /\ \A j \in 1 .. (k - 1) : a[j] = s[j]
  BY <1>1, SubSeqProperties, LenProperties
<1>3. b \in Seq(S) /\ Len(b) = Len(s) - k /\ \A j \in 1 .. (Len(s) - k) : b[j] = s[k + j]
  BY <1>1, SubSeqProperties, LenProperties
<1>4. RemoveAt(s, k) = a \o b
  BY DEF RemoveAt
<1>5. /\ a \o b \in Seq(S) /\ Len(a \o b) = Len(s) - 1
      /\ \A j \in 1 .. (Len(s) - 1) :
           (a \o b)[j] = IF j <= Len(a) THEN a[j] ELSE b[j - Len(a)]
  <2> HIDE DEF a, b
  <2>1. Len(a) + Len(b) = Len(s) - 1
    BY <1>1, <1>2, <1>3
  <2>2. /\ a \o b \in Seq(S) /\ Len(a \o b) = Len(a) + Len(b)
        /\ \A j \in 1 .. (Len(a) + Len(b)) :
             (a \o b)[j] = IF j <= Len(a) THEN a[j] ELSE b[j - Len(a)]
    BY <1>2, <1>3, ConcatProperties
  <2> QED
    BY <2>1, <2>2
<1>6. ASSUME NEW j \in 1 .. (Len(s) - 1)
      PROVE  (a \o b)[j] = IF j < k THEN s[j] ELSE s[j + 1]
  <2> HIDE DEF a, b
  <2>1. CASE j < k
    BY <1>1, <1>2, <1>5, <2>1
  <2>2. CASE ~(j < k)
    <3>1. (a \o b)[j] = b[j - (k - 1)]
      BY <1>1, <1>2, <1>5, <2>2
    <3>2. j - (k - 1) \in 1 .. (Len(s) - k)
      BY <1>1, <2>2
    <3>3. b[j - (k - 1)] = s[k + (j - (k - 1))]
      BY <1>3, <3>2
    <3>4. k + (j - (k - 1)) = j + 1
      BY <1>1
    <3> QED
      BY <2>2, <3>1, <3>3, <3>4
  <2> QED
    BY <2>1, <2>2
<1> HIDE DEF a, b
<1> QED
  BY <1>4, <1>5, <1>6, LenProperties

\* The elements of a sequence that grows at its end, or loses its head.
LEMMA ToSetAppend ==
    ASSUME NEW S, NEW s \in Seq(S), NEW x \in S
    PROVE  ToSet(Append(s, x)) = ToSet(s) \cup {x}
<1>1. /\ Append(s, x) \in Seq(S) /\ Len(Append(s, x)) = Len(s) + 1 /\ Len(s) \in Nat
      /\ \A j \in 1 .. Len(s) : Append(s, x)[j] = s[j]
      /\ Append(s, x)[Len(s) + 1] = x
  BY AppendProperties, LenProperties
<1>2. DOMAIN s = 1 .. Len(s) /\ DOMAIN Append(s, x) = 1 .. (Len(s) + 1)
  BY <1>1, LenProperties
<1> QED
  BY <1>1, <1>2 DEF ToSet

LEMMA ToSetHeadTail ==
    ASSUME NEW S, NEW s \in Seq(S), s # <<>>
    PROVE  ToSet(s) = {Head(s)} \cup ToSet(Tail(s))
<1>1. /\ Tail(s) \in Seq(S) /\ Len(Tail(s)) = Len(s) - 1 /\ Head(s) = s[1]
      /\ \A j \in 1 .. Len(Tail(s)) : Tail(s)[j] = s[j + 1]
  BY HeadTailProperties
<1>2. Len(s) \in Nat \ {0} /\ DOMAIN s = 1 .. Len(s) /\ DOMAIN Tail(s) = 1 .. (Len(s) - 1)
  BY <1>1, LenProperties, EmptySeq
<1>3. ASSUME NEW x \in ToSet(s) PROVE x \in {Head(s)} \cup ToSet(Tail(s))
  <2>1. PICK j \in 1 .. Len(s) : s[j] = x
    BY <1>2 DEF ToSet
  <2>2. j = 1 \/ (j - 1 \in 1 .. (Len(s) - 1) /\ (j - 1) + 1 = j)
    BY <1>2
  <2> QED
    BY <1>1, <1>2, <2>1, <2>2 DEF ToSet
<1>4. ASSUME NEW x \in ToSet(Tail(s)) PROVE x \in ToSet(s)
  <2>1. PICK j \in 1 .. (Len(s) - 1) : Tail(s)[j] = x
    BY <1>2 DEF ToSet
  <2>2. j + 1 \in 1 .. Len(s)
    BY <1>2
  <2> QED
    BY <1>1, <1>2, <2>1, <2>2 DEF ToSet
<1>5. Head(s) \in ToSet(s)
  BY <1>1, <1>2 DEF ToSet
<1> QED
  BY <1>3, <1>4, <1>5

LEMMA ToSetEmpty == ToSet(<<>>) = {}
BY DEF ToSet

(***************************************************************************)
(* Who holds a lane and who waits for it.                                  *)
(***************************************************************************)
Queueing == {"publishing", "acquiring"}

\* A lane is held by a task of its conversation, from its reservation to its release.
HolderActs ==
    \A c \in Convs : holder[c] # None =>
        Conv[holder[c]] = c /\ pc[holder[c]] \in Queueing \cup Working

FreeIsIdle == \A c \in Convs : holder[c] = None => phase[c] = "idle"

\* The FIFO holds tasks of the conversation that have not begun, each once and not the
\* holder.
WaitersWait ==
    \A c \in Convs : \A k \in DOMAIN waiters[c] :
        /\ Conv[waiters[c][k]] = c /\ pc[waiters[c][k]] \in Queueing
        /\ waiters[c][k] # holder[c]
        /\ \A j \in DOMAIN waiters[c] : waiters[c][j] = waiters[c][k] => j = k

\* Follow-ups are taken from a queue only by the task that holds the lane.
DrainHolds == \A t \in Tasks : pc[t] = "draining" => Holds(t)

\* A task let through by the wait timeout never queues again.
ThroughIsOut == \A t \in timedOut : pc[t] \notin {"none", "publishing"} /\ ~Waits(t)

HoldInv == HolderActs /\ FreeIsIdle /\ WaitersWait /\ DrainHolds /\ ThroughIsOut

LEMMA HoldInit == Init => HoldInv
BY DEF Init, HoldInv, HolderActs, FreeIsIdle, WaitersWait, DrainHolds, ThroughIsOut

\* A task's handler moves on while the lanes stay with whom they are.
LEMMA HoldMove ==
    ASSUME Typed, HoldInv, NEW t \in Tasks, NEW s \in Stages \ {"none", "publishing"},
           pc' = [pc EXCEPT ![t] = s], UNCHANGED <<holder, waiters, timedOut>>,
           \A c \in Convs : holder[c] = None => phase'[c] = phase[c],
           s \in Queueing \cup Working \/ ~Holds(t),
           s \in Queueing \/ ~Waits(t),
           s = "draining" => Holds(t)
    PROVE  HoldInv'
<1>1. \A u \in Tasks : pc'[u] = IF u = t THEN s ELSE pc[u]
  BY DEF Typed, TypeOK
<1>2. HolderActs'
  BY <1>1 DEF HoldInv, HolderActs, Typed, TypeOK, LaneTypeOK, Holds
<1>3. FreeIsIdle'
  BY DEF HoldInv, FreeIsIdle
<1>4. WaitersWait'
  <2> SUFFICES ASSUME NEW c \in Convs, NEW k \in DOMAIN waiters[c]
               PROVE  pc'[waiters[c][k]] \in Queueing
    BY DEF HoldInv, WaitersWait
  <2>1. Conv[waiters[c][k]] = c /\ pc[waiters[c][k]] \in Queueing
    BY DEF HoldInv, WaitersWait
  <2>2. waiters[c][k] \in Tasks
    BY ElementOfSeq, LenProperties DEF Typed, TypeOK, LaneTypeOK
  <2>3. waiters[c][k] = t => Waits(t)
    BY <2>1 DEF Waits
  <2> QED
    BY <1>1, <2>1, <2>2, <2>3
<1>5. DrainHolds'
  BY <1>1 DEF HoldInv, DrainHolds, Holds
<1>6. ThroughIsOut'
  BY <1>1 DEF HoldInv, ThroughIsOut, Waits, Typed, TypeOK, TurnTypeOK
<1> QED
  BY <1>2, <1>3, <1>4, <1>5, <1>6 DEF HoldInv

\* A task that has not begun joins its lane.
LEMMA HoldJoin ==
    ASSUME Typed, HoldInv, NEW t \in Tasks, NEW s \in Queueing,
           NEW ph \in {"reserved", "running"},
           Join(t, ph), pc' = [pc EXCEPT ![t] = s], UNCHANGED timedOut,
           pc[t] \in {"none", "publishing"}
    PROVE  HoldInv'
<1> DEFINE c == Conv[t]
<1>0. c \in Convs /\ waiters[c] \in Seq(Tasks)
  BY ConvType DEF Typed, TypeOK, LaneTypeOK
<1>1. \A u \in Tasks : pc'[u] = IF u = t THEN s ELSE pc[u]
  BY DEF Typed, TypeOK
<1>2. s \in Stages /\ t \notin timedOut
  BY DEF Queueing, Stages, HoldInv, ThroughIsOut
<1>3. \A d \in Convs : \A k \in DOMAIN waiters[d] :
        waiters[d][k] \in Tasks /\ pc'[waiters[d][k]] \in Queueing
  <2> SUFFICES ASSUME NEW d \in Convs, NEW k \in DOMAIN waiters[d]
               PROVE  waiters[d][k] \in Tasks /\ pc'[waiters[d][k]] \in Queueing
    OBVIOUS
  <2>1. waiters[d][k] \in Tasks
    BY ElementOfSeq, LenProperties DEF Typed, TypeOK, LaneTypeOK
  <2> QED
    BY <1>1, <2>1 DEF HoldInv, WaitersWait
<1>4. \A u \in Tasks : pc'[u] = "draining" => pc[u] = "draining" /\ Holds(u)
  BY <1>1 DEF Queueing, HoldInv, DrainHolds
<1>5. CASE UNCHANGED <<holder, waiters>> /\ \A d \in Convs : holder[d] = None => phase'[d] = phase[d]
  <2>1. HolderActs'
    BY <1>1, <1>5 DEF HoldInv, HolderActs, Typed, TypeOK, LaneTypeOK
  <2>2. FreeIsIdle' /\ WaitersWait' /\ DrainHolds'
    BY <1>3, <1>4, <1>5 DEF HoldInv, FreeIsIdle, WaitersWait, DrainHolds, Holds
  <2>3. ThroughIsOut'
    BY <1>1, <1>2, <1>5 DEF HoldInv, ThroughIsOut, Waits, Typed, TypeOK, TurnTypeOK
  <2> QED
    BY <2>1, <2>2, <2>3 DEF HoldInv
<1>6. CASE ~Waits(t) /\ holder[c] = None /\ BeginHold(c, t, ph) /\ UNCHANGED waiters
  <2>1. /\ \A d \in Convs : holder'[d] = IF d = c THEN t ELSE holder[d]
        /\ \A d \in Convs : phase'[d] = IF d = c THEN ph ELSE phase[d]
    BY <1>0, <1>6 DEF BeginHold, Typed, TypeOK, LaneTypeOK
  <2>2. HolderActs'
    BY <1>1, <2>1 DEF HoldInv, HolderActs, Typed, TypeOK, LaneTypeOK
  <2>3. FreeIsIdle'
    BY <2>1, LaneAssumption DEF HoldInv, FreeIsIdle
  <2>4. WaitersWait'
    BY <1>3, <1>6, <2>1 DEF HoldInv, WaitersWait, Waits
  <2>5. DrainHolds'
    BY <1>4, <1>6, <2>1, ConvType, LaneAssumption DEF DrainHolds, Holds
  <2>6. ThroughIsOut'
    BY <1>1, <1>2, <1>6 DEF HoldInv, ThroughIsOut, Waits, Typed, TypeOK, TurnTypeOK
  <2> QED
    BY <2>2, <2>3, <2>4, <2>5, <2>6 DEF HoldInv
<1>7. CASE /\ ~Waits(t) /\ holder[c] \notin {t, None}
           /\ waiters' = [waiters EXCEPT ![c] = Append(@, t)]
           /\ UNCHANGED <<holder, phase>>
  <2> DEFINE w == waiters[c]
             a == Append(w, t)
             n == Len(w)
  <2>1. /\ n \in Nat /\ DOMAIN a = 1 .. (n + 1) /\ DOMAIN w = 1 .. n
        /\ \A j \in 1 .. n : a[j] = w[j]
        /\ a[n + 1] = t
    BY <1>0, AppendProperties, LenProperties
  <2>2. \A d \in Convs : waiters'[d] = IF d = c THEN a ELSE waiters[d]
    BY <1>0, <1>7 DEF Typed, TypeOK, LaneTypeOK
  <2> HIDE DEF a, n
  <2>3. HolderActs' /\ FreeIsIdle' /\ DrainHolds'
    BY <1>1, <1>4, <1>7
    DEF HoldInv, HolderActs, FreeIsIdle, DrainHolds, Holds, Typed, TypeOK, LaneTypeOK
  <2>4. WaitersWait'
    <3> SUFFICES ASSUME NEW d \in Convs, NEW k \in DOMAIN waiters'[d]
                 PROVE  /\ Conv[waiters'[d][k]] = d /\ pc'[waiters'[d][k]] \in Queueing
                        /\ waiters'[d][k] # holder[d]
                        /\ \A j \in DOMAIN waiters'[d] : waiters'[d][j] = waiters'[d][k] => j = k
      BY <1>7 DEF WaitersWait
    <3>1. CASE d # c
      BY <1>3, <2>2, <3>1 DEF HoldInv, WaitersWait
    <3>2. CASE d = c /\ k \in 1 .. n
      BY <1>3, <1>7, <2>1, <2>2, <3>2 DEF HoldInv, WaitersWait, Waits
    <3>3. CASE d = c /\ k = n + 1
      BY <1>1, <1>7, <2>1, <2>2, <3>3 DEF Waits
    <3>4. d = c => k \in 1 .. n \/ k = n + 1
      BY <2>1, <2>2
    <3> QED
      BY <3>1, <3>2, <3>3, <3>4
  <2>5. ThroughIsOut'
    <3> SUFFICES ASSUME NEW u \in timedOut, NEW k \in DOMAIN waiters'[Conv[u]],
                        waiters'[Conv[u]][k] = u
                 PROVE  FALSE
      BY <1>1, <1>2 DEF HoldInv, ThroughIsOut, Waits, Typed, TypeOK, TurnTypeOK
    <3>1. Conv[u] \in Convs /\ u # t
      BY <1>2, ConvType DEF Typed, TypeOK, TurnTypeOK
    <3>2. CASE Conv[u] # c
      BY <2>2, <3>1, <3>2 DEF HoldInv, ThroughIsOut, Waits
    <3>3. CASE Conv[u] = c
      <4>1. k \in 1 .. n \/ k = n + 1
        BY <1>0, <2>1, <2>2, <3>3
      <4> QED
        BY <1>0, <2>1, <2>2, <3>1, <3>3, <4>1 DEF HoldInv, ThroughIsOut, Waits
    <3> QED
      BY <3>2, <3>3
  <2> QED
    BY <2>3, <2>4, <2>5 DEF HoldInv
<1>8. CASE Holds(t) /\ phase' = [phase EXCEPT ![c] = IF @ = "reserved" THEN ph ELSE @]
           /\ UNCHANGED <<holder, waiters>>
  <2>1. \A d \in Convs : holder[d] = None => phase'[d] = phase[d]
    BY <1>0, <1>8, LaneAssumption DEF Holds, Typed, TypeOK, LaneTypeOK
  <2> QED
    BY <1>5, <1>8, <2>1
<1> QED
  BY <1>5, <1>6, <1>7, <1>8 DEF Join, lane

\* A task that holds its lane, or does not wait for it, gives it up for good.
LEMMA HoldRelease ==
    ASSUME Typed, HoldInv, NEW t \in Tasks, NEW s \in {"dropped", "responding", "flushing"},
           pc' = [pc EXCEPT ![t] = s], UNCHANGED timedOut,
           IF Holds(t) THEN GrantNext(Conv[t]) ELSE ~Waits(t) /\ UNCHANGED lane
    PROVE  HoldInv'
<1> DEFINE c == Conv[t]
           w == waiters[c]
<1>0. c \in Convs /\ w \in Seq(Tasks)
  BY ConvType DEF Typed, TypeOK, LaneTypeOK
<1>1. \A u \in Tasks : pc'[u] = IF u = t THEN s ELSE pc[u]
  BY DEF Typed, TypeOK
<1>2. s \in Stages /\ s \notin Queueing \cup Working /\ s \notin {"none", "publishing", "draining"}
  BY DEF Queueing, Working, Stages
<1>3. CASE ~Holds(t)
  BY <1>2, <1>3, HoldMove DEF lane
<1>4. CASE Holds(t)
  <2>1. \A d \in Convs : \A k \in DOMAIN waiters[d] :
          waiters[d][k] \in Tasks /\ waiters[d][k] # t /\ pc'[waiters[d][k]] \in Queueing
    <3> SUFFICES ASSUME NEW d \in Convs, NEW k \in DOMAIN waiters[d]
                 PROVE  /\ waiters[d][k] \in Tasks /\ waiters[d][k] # t
                        /\ pc'[waiters[d][k]] \in Queueing
      OBVIOUS
    <3>1. waiters[d][k] \in Tasks
      BY ElementOfSeq, LenProperties DEF Typed, TypeOK, LaneTypeOK
    <3>2. Conv[waiters[d][k]] = d /\ waiters[d][k] # holder[d] /\ pc[waiters[d][k]] \in Queueing
      BY DEF HoldInv, WaitersWait
    <3> QED
      BY <1>1, <1>4, <3>1, <3>2 DEF Holds
  <2>2. \A u \in Tasks : pc'[u] = "draining" => pc[u] = "draining" /\ Holds(u) /\ Conv[u] # c
    BY <1>1, <1>2, <1>4 DEF HoldInv, DrainHolds, Holds
  <2>3. \A d \in Convs \ {c} : holder'[d] = holder[d] /\ phase'[d] = phase[d] /\ waiters'[d] = waiters[d]
    BY <1>0, <1>4 DEF GrantNext, BeginHold, Typed, TypeOK, LaneTypeOK
  <2>4. DrainHolds'
    BY <2>2, <2>3, ConvType DEF DrainHolds, Holds
  <2>5. \A d \in Convs \ {c} : holder[d] # None =>
          Conv[holder[d]] = d /\ pc'[holder[d]] \in Queueing \cup Working
    BY <1>1, <1>4 DEF HoldInv, HolderActs, Typed, TypeOK, LaneTypeOK
  <2>6. CASE w = <<>>
    <3>1. holder'[c] = None /\ phase'[c] = "idle" /\ waiters' = waiters
      BY <1>0, <1>4, <2>6 DEF GrantNext, BeginHold, Typed, TypeOK, LaneTypeOK
    <3>2. HolderActs' /\ FreeIsIdle'
      BY <2>3, <2>5, <3>1 DEF HoldInv, HolderActs, FreeIsIdle
    <3>3. WaitersWait'
      BY <2>1, <2>3, <2>6, <3>1 DEF HoldInv, WaitersWait
    <3>4. ThroughIsOut'
      BY <1>1, <1>2, <3>1 DEF HoldInv, ThroughIsOut, Waits, Typed, TypeOK, TurnTypeOK
    <3> QED
      BY <2>4, <3>2, <3>3, <3>4 DEF HoldInv
  <2>7. CASE w # <<>>
    <3> DEFINE h == Head(w)
               v == Tail(w)
    <3>1. holder'[c] = h /\ phase'[c] # "idle" /\ waiters'[c] = v
      BY <1>0, <1>4, <2>7 DEF GrantNext, BeginHold, Typed, TypeOK, LaneTypeOK
    <3>2. /\ h = w[1] /\ 1 \in DOMAIN w
          /\ \A j \in DOMAIN v : v[j] = w[j + 1] /\ j + 1 \in DOMAIN w /\ j + 1 # 1
          /\ \A j, k \in DOMAIN v : j + 1 = k + 1 => j = k
      <4>1. Len(w) \in Nat /\ Len(w) > 0 /\ Len(v) = Len(w) - 1
        BY <1>0, <2>7, HeadTailProperties, EmptySeq, LenProperties
      <4>2. DOMAIN w = 1 .. Len(w) /\ DOMAIN v = 1 .. Len(v)
        BY <1>0, <2>7, HeadTailProperties, LenProperties
      <4>3. h = w[1] /\ \A j \in 1 .. Len(v) : v[j] = w[j + 1]
        BY <1>0, <2>7, HeadTailProperties
      <4> HIDE DEF h, v, w
      <4> QED
        BY <4>1, <4>2, <4>3
    <3> HIDE DEF h, v
    <3>3. h \in Tasks /\ Conv[h] = c /\ pc'[h] \in Queueing
      BY <1>0, <2>1, <3>2 DEF HoldInv, WaitersWait
    <3>4. HolderActs'
      BY <2>3, <2>5, <3>1, <3>3 DEF HolderActs
    <3>5. FreeIsIdle'
      BY <2>3, <3>1, <3>3, LaneAssumption DEF HoldInv, FreeIsIdle
    <3>6. WaitersWait'
      <4> SUFFICES ASSUME NEW d \in Convs, NEW k \in DOMAIN waiters'[d]
                   PROVE  /\ Conv[waiters'[d][k]] = d /\ pc'[waiters'[d][k]] \in Queueing
                          /\ waiters'[d][k] # holder'[d]
                          /\ \A j \in DOMAIN waiters'[d] : waiters'[d][j] = waiters'[d][k] => j = k
        BY DEF WaitersWait
      <4>1. CASE d # c
        BY <2>1, <2>3, <4>1 DEF HoldInv, WaitersWait
      <4>2. CASE d = c
        <5>1. \A j, l \in DOMAIN w : /\ Conv[w[l]] = c /\ pc'[w[l]] \in Queueing
                                     /\ w[j] = w[l] => j = l
          BY <1>0, <2>1 DEF HoldInv, WaitersWait
        <5> HIDE DEF w
        <5> QED
          BY <3>1, <3>2, <4>2, <5>1
      <4> QED
        BY <4>1, <4>2
    <3>7. ThroughIsOut'
      <4>1. \A u \in Tasks : ~Waits(u) => \A k \in DOMAIN waiters'[Conv[u]] : waiters'[Conv[u]][k] # u
        <5> SUFFICES ASSUME NEW u \in Tasks, ~Waits(u), NEW k \in DOMAIN waiters'[Conv[u]]
                     PROVE  waiters'[Conv[u]][k] # u
          OBVIOUS
        <5>1. CASE Conv[u] = c
          BY <3>1, <3>2, <5>1 DEF Waits
        <5>2. CASE Conv[u] # c
          BY <2>3, <5>2, ConvType DEF Waits
        <5> QED
          BY <5>1, <5>2
      <4> QED
        BY <1>1, <1>2, <4>1 DEF HoldInv, ThroughIsOut, Waits, Typed, TypeOK, TurnTypeOK
    <3> QED
      BY <2>4, <3>4, <3>5, <3>6, <3>7 DEF HoldInv
  <2> QED
    BY <2>6, <2>7
<1> QED
  BY <1>3, <1>4

\* A waiter leaves the FIFO, by the wait timer or a failed publish.
LEMMA HoldUnqueue ==
    ASSUME Typed, HoldInv, NEW t \in Tasks, NEW s \in Stages, pc' = [pc EXCEPT ![t] = s],
           Unqueue(t), UNCHANGED <<holder, phase>>,
           s = pc[t] \/ (s = "dropped" /\ ~Holds(t)),
           timedOut' \subseteq timedOut \cup {t},
           t \in timedOut' => pc[t] \notin {"none", "publishing"}
    PROVE  HoldInv'
<1> DEFINE c == Conv[t]
           w == waiters[c]
<1>0. c \in Convs /\ w \in Seq(Tasks)
  BY ConvType DEF Typed, TypeOK, LaneTypeOK
<1>1. \A u \in Tasks : pc'[u] = IF u = t THEN s ELSE pc[u]
  BY DEF Typed, TypeOK
<1>2. PICK k \in DOMAIN w : w[k] = t /\ waiters' = [waiters EXCEPT ![c] = RemoveAt(@, k)]
  BY DEF Unqueue
<1> DEFINE v == RemoveAt(w, k)
<1>3. \A d \in Convs : waiters'[d] = IF d = c THEN v ELSE waiters[d]
  BY <1>0, <1>2 DEF Typed, TypeOK, LaneTypeOK
<1>4. \A j \in DOMAIN v : \E l \in DOMAIN w :
        v[j] = w[l] /\ l # k /\ \A m \in DOMAIN v : v[m] = w[l] => m = j \/ \E n \in DOMAIN w : n # l /\ w[n] = w[l]
  <2>1. /\ DOMAIN v = 1 .. (Len(w) - 1) /\ DOMAIN w = 1 .. Len(w) /\ Len(w) \in Nat
        /\ \A j \in 1 .. (Len(w) - 1) : v[j] = IF j < k THEN w[j] ELSE w[j + 1]
    BY <1>0, RemoveAtElements, LenProperties
  <2> HIDE DEF v, w
  <2> SUFFICES ASSUME NEW j \in 1 .. (Len(w) - 1)
               PROVE  \E l \in DOMAIN w : /\ v[j] = w[l] /\ l # k
                        /\ \A m \in DOMAIN v : v[m] = w[l] =>
                             m = j \/ \E n \in DOMAIN w : n # l /\ w[n] = w[l]
    BY <2>1
  <2> DEFINE l == IF j < k THEN j ELSE j + 1
  <2>2. l \in DOMAIN w /\ v[j] = w[l] /\ l # k
    BY <2>1
  <2>3. ASSUME NEW m \in DOMAIN v, v[m] = w[l], m # j
        PROVE  \E n \in DOMAIN w : n # l /\ w[n] = w[l]
    <3> DEFINE n == IF m < k THEN m ELSE m + 1
    <3>1. n \in DOMAIN w /\ v[m] = w[n] /\ n # l
      BY <2>1, <2>3
    <3> QED
      BY <2>3, <3>1
  <2> QED
    BY <2>2, <2>3
<1> HIDE DEF v
<1>5. HolderActs' /\ FreeIsIdle'
  BY <1>1 DEF HoldInv, HolderActs, FreeIsIdle, Holds, Typed, TypeOK, LaneTypeOK
<1>6. DrainHolds'
  BY <1>1 DEF HoldInv, DrainHolds, Holds
<1>7. \A l \in DOMAIN w : l # k => w[l] # t
  BY <1>0, <1>2 DEF HoldInv, WaitersWait
<1>8. WaitersWait'
  <2> SUFFICES ASSUME NEW d \in Convs, NEW j \in DOMAIN waiters'[d]
               PROVE  /\ Conv[waiters'[d][j]] = d /\ pc'[waiters'[d][j]] \in Queueing
                      /\ waiters'[d][j] # holder[d]
                      /\ \A m \in DOMAIN waiters'[d] : waiters'[d][m] = waiters'[d][j] => m = j
    BY DEF WaitersWait
  <2>1. CASE d = c
    <3>1. PICK l \in DOMAIN w : v[j] = w[l] /\ l # k
             /\ \A m \in DOMAIN v : v[m] = w[l] => m = j \/ \E n \in DOMAIN w : n # l /\ w[n] = w[l]
      BY <1>3, <1>4, <2>1
    <3>2. w[l] \in Tasks /\ w[l] # t
      BY <1>0, <1>7, <3>1, ElementOfSeq, LenProperties
    <3> QED
      BY <1>0, <1>1, <1>3, <2>1, <3>1, <3>2 DEF HoldInv, WaitersWait
  <2>2. CASE d # c
    <3>1. waiters'[d] = waiters[d] /\ waiters[d][j] \in Tasks
      BY <1>3, <2>2, ElementOfSeq, LenProperties DEF Typed, TypeOK, LaneTypeOK
    <3>2. waiters[d][j] # t
      BY <2>2, <3>1 DEF HoldInv, WaitersWait
    <3> QED
      BY <1>1, <3>1, <3>2 DEF HoldInv, WaitersWait
  <2> QED
    BY <2>1, <2>2
<1>9. ThroughIsOut'
  <2> SUFFICES ASSUME NEW u \in timedOut'
               PROVE  /\ pc'[u] \notin {"none", "publishing"}
                      /\ \A j \in DOMAIN waiters'[Conv[u]] : waiters'[Conv[u]][j] # u
    BY DEF ThroughIsOut, Waits
  <2>1. u \in Tasks /\ Conv[u] \in Convs
    BY ConvType DEF Typed, TypeOK, TurnTypeOK
  <2>2. pc'[u] \notin {"none", "publishing"}
    BY <1>1, <2>1 DEF HoldInv, ThroughIsOut
  <2>3. u = t \/ ~Waits(u)
    BY DEF HoldInv, ThroughIsOut
  <2>4. \A j \in DOMAIN waiters'[Conv[u]] : waiters'[Conv[u]][j] # u
    BY <1>3, <1>4, <1>7, <2>1, <2>3 DEF Waits
  <2> QED
    BY <2>2, <2>4
<1> QED
  BY <1>5, <1>6, <1>8, <1>9 DEF HoldInv

\* Steps that move no task and no lane.
LEMMA HoldStutter ==
    ASSUME HoldInv, UNCHANGED <<holder, phase, waiters, pc, timedOut>>
    PROVE  HoldInv'
BY DEF HoldInv, HolderActs, FreeIsIdle, WaitersWait, DrainHolds, ThroughIsOut, Holds, Waits

\* Whoever waits has not begun, and does not hold the lane.
LEMMA WaiterQueues ==
    ASSUME HoldInv, NEW t \in Tasks, Waits(t)
    PROVE  pc[t] \in Queueing /\ ~Holds(t) /\ t \notin timedOut
BY ConvType DEF HoldInv, WaitersWait, ThroughIsOut, Waits, Holds

\* Whoever holds a lane has begun or is about to.
LEMMA HolderBusy ==
    ASSUME HoldInv, NEW t \in Tasks, Holds(t)
    PROVE  pc[t] \in Queueing \cup Working
BY ConvType, LaneAssumption DEF HoldInv, HolderActs, Holds

LEMMA HoldRoute ==
    ASSUME Typed, HoldInv, NEW i \in Inbounds, Inject(i) \/ RouteOwnTask(i) \/ Route(i)
    PROVE  HoldInv'
<1>0. i \in Tasks
  BY InboundIsTask
<1>1. CASE Inject(i) \/ RouteDrained(i)
  BY <1>1, HoldStutter DEF Inject, RouteDrained, turns, lane
<1>2. CASE RouteOwnTask(i) \/ RouteReturned(i)
  BY <1>0, <1>2, HoldJoin DEF RouteOwnTask, RouteReturned, CreateTask, turns, Queueing
<1>3. CASE PublishTask(i)
  BY <1>0, <1>3, HoldJoin DEF PublishTask, turns, Queueing
<1>4. CASE PublishTaskFails(i)
  <2>1. pc[i] = "publishing" /\ pc' = [pc EXCEPT ![i] = "dropped"] /\ UNCHANGED timedOut
    BY <1>4 DEF PublishTaskFails, turns
  <2>2. CASE Holds(i) /\ Release(i)
    BY <1>0, <2>1, <2>2, HoldRelease DEF Release
  <2>3. CASE ~Holds(i) /\ Unqueue(i) /\ UNCHANGED <<holder, phase>>
    <3>1. i \notin timedOut
      BY <2>1 DEF HoldInv, ThroughIsOut
    <3> QED
      BY <1>0, <2>1, <2>3, <3>1, HoldUnqueue DEF Stages
  <2>4. CASE ~Holds(i) /\ ~Waits(i) /\ UNCHANGED <<holder, phase, waiters>>
    BY <1>0, <2>1, <2>4, HoldMove DEF Stages
  <2> QED
    BY <1>4, <2>2, <2>3, <2>4 DEF PublishTaskFails
<1> QED
  BY <1>1, <1>2, <1>3, <1>4 DEF Route

LEMMA HoldPublish ==
    ASSUME Typed, HoldInv,
           \/ \E w \in Wakes : PublishWake(w)
           \/ \E t \in Tasks, r \in Rewrites : PublishRewrite(t, r)
           \/ \E t \in Tasks : FailOpen(t)
    PROVE  HoldInv'
<1>1. ASSUME NEW w \in Wakes, PublishWake(w) PROVE HoldInv'
  BY <1>1, InboundIsTask, HoldJoin DEF PublishWake, turns, Queueing
<1>2. ASSUME NEW t \in Tasks, NEW r \in Rewrites, PublishRewrite(t, r) PROVE HoldInv'
  BY <1>2, InboundIsTask, HoldJoin DEF PublishRewrite, Queueing
<1>3. ASSUME NEW t \in Tasks, FailOpen(t) PROVE HoldInv'
  <2>1. Unqueue(t) /\ UNCHANGED <<holder, phase, pc>>
    BY <1>3 DEF FailOpen
  <2>2. Waits(t)
    BY <2>1 DEF Unqueue, Waits
  <2>3. t \notin timedOut
    BY <2>2, WaiterQueues
  <2>4. timedOut' \subseteq timedOut \cup {t} /\ (t \in timedOut' => pc[t] \notin {"none", "publishing"})
    BY <1>3, <2>3 DEF FailOpen
  <2>5. pc[t] \in Stages /\ pc' = [pc EXCEPT ![t] = pc[t]]
    BY <2>1 DEF Typed, TypeOK
  <2> QED
    BY <2>1, <2>4, <2>5, HoldUnqueue
<1> QED
  BY <1>1, <1>2, <1>3

LEMMA HoldTurn ==
    ASSUME Typed, HoldInv, NEW t \in Tasks, Turn(t)
    PROVE  HoldInv'
<1> USE DEF Queueing, Working, Stages
<1>1. CASE FlushAudit(t) \/ StoreFollowUp(t)
  BY <1>1, HoldStutter DEF FlushAudit, StoreFollowUp, lane, turns
<1>2. CASE Begin(t) \/ BeginFails(t)
  <2>1. Granted(t) /\ UNCHANGED <<holder, waiters, phase, timedOut>>
    BY <1>2 DEF Begin, BeginFails, lane, turns
  <2>2. ~Waits(t)
    BY <2>1, WaiterQueues DEF Granted
  <2>3. PICK s \in {"running", "failing"} : pc' = [pc EXCEPT ![t] = s]
    BY <1>2 DEF Begin, BeginFails
  <2> QED
    BY <2>1, <2>2, <2>3, HoldMove
<1>3. CASE \/ TakeQueued(t) \/ StoreFollowUpFails(t) \/ AuditFollowUp(t)
           \/ AuditFollowUpFails(t) \/ StopEarly(t) \/ PersistReply(t) \/ PersistReplyFails(t)
  <2> USE DEF TakeQueued, StoreFollowUpFails, AuditFollowUp, AuditFollowUpFails,
              NextFollowUp, StopEarly, PersistReply, PersistReplyFails
  <2>1. pc[t] \in Working /\ UNCHANGED <<holder, waiters, phase, timedOut>>
    BY <1>3 DEF lane, turns
  <2>2. ~Waits(t)
    BY <2>1, WaiterQueues
  <2>3. PICK s \in Working : pc' = [pc EXCEPT ![t] = s] /\ (s = "draining" => Holds(t))
    BY <1>3, <2>1 DEF HoldInv, DrainHolds
  <2> QED
    BY <2>1, <2>2, <2>3, HoldMove
<1>4. CASE Finish(t)
  <2>1. pc[t] = "running" /\ pc' = [pc EXCEPT ![t] = "finishing"] /\ UNCHANGED <<holder, waiters, timedOut>>
    BY <1>4 DEF Finish, turns
  <2>2. ~Waits(t)
    BY <2>1, WaiterQueues
  <2>3. \A c \in Convs : holder[c] = None => phase'[c] = phase[c]
    BY <1>4, LaneAssumption DEF Finish, Holds, Typed, TypeOK, LaneTypeOK
  <2> QED
    BY <2>1, <2>2, <2>3, HoldMove
<1>5. CASE Respond(t)
  <2>1. ~Waits(t)
    BY <1>5, WaiterQueues DEF Respond
  <2> QED
    BY <1>5, <2>1, HoldRelease DEF Respond, Release, turns
<1>6. CASE Finally(t)
  <2>1. ~Waits(t)
    BY <1>6, WaiterQueues DEF Finally
  <2> QED
    BY <1>6, <2>1, HoldRelease DEF Finally
<1>7. CASE EndTask(t)
  <2>1. pc[t] = "flushing" /\ pc' = [pc EXCEPT ![t] = "done"] /\ UNCHANGED <<holder, waiters, phase, timedOut>>
    BY <1>7 DEF EndTask, lane, turns
  <2>2. ~Waits(t) /\ ~Holds(t)
    BY <2>1, WaiterQueues, HolderBusy
  <2> QED
    BY <2>1, <2>2, HoldMove
<1> QED
  BY <1>1, <1>2, <1>3, <1>4, <1>5, <1>6, <1>7 DEF Turn, Drain

LEMMA HoldStep ==
    ASSUME Typed, HoldInv, [Next]_vars
    PROVE  HoldInv'
<1>1. CASE UNCHANGED vars
  BY <1>1, HoldStutter DEF vars, lane, turns
<1>2. CASE Next
  BY <1>2, HoldRoute, HoldPublish, HoldTurn DEF Next
<1> QED
  BY <1>1, <1>2

(***************************************************************************)
(* A rewrite does not wait for its host.                                   *)
(***************************************************************************)
\* The host of a rewrite is past its lane: it is delivering its response, or later.
ParentOver ==
    \A r \in Rewrites : parent[r] # None =>
        parent[r] \in Tasks /\ pc[parent[r]] \in {"responding", "flushing", "done"}

\* No step takes a task back from there.
LEMMA ParentMove ==
    ASSUME Typed, ParentOver, NEW t \in Tasks, NEW s \in Stages, pc' = [pc EXCEPT ![t] = s],
           pc[t] \in {"responding", "flushing", "done"} => s \in {"responding", "flushing", "done"},
           UNCHANGED parent
    PROVE  ParentOver'
BY DEF ParentOver, Typed, TypeOK

LEMMA ParentStep ==
    ASSUME Typed, ParentOver, [Next]_vars
    PROVE  ParentOver'
<1> USE DEF Stages
<1>1. CASE UNCHANGED <<pc, parent>>
  BY <1>1 DEF ParentOver
<1>2. ASSUME NEW i \in Inbounds, Inject(i) \/ RouteOwnTask(i) \/ Route(i) PROVE ParentOver'
  <2>1. CASE Inject(i) \/ RouteDrained(i)
    BY <1>1, <2>1 DEF Inject, RouteDrained, turns
  <2>2. CASE RouteOwnTask(i) \/ RouteReturned(i) \/ PublishTask(i) \/ PublishTaskFails(i)
    <3>1. pc[i] \in {"none", "publishing"} /\ UNCHANGED parent
      BY <2>2 DEF RouteOwnTask, RouteReturned, CreateTask, PublishTask, PublishTaskFails, turns
    <3>2. PICK s \in {"publishing", "acquiring", "dropped"} : pc' = [pc EXCEPT ![i] = s]
      BY <2>2 DEF RouteOwnTask, RouteReturned, CreateTask, PublishTask, PublishTaskFails
    <3> QED
      BY <3>1, <3>2, InboundIsTask, ParentMove
  <2> QED
    BY <1>2, <2>1, <2>2 DEF Route
<1>3. ASSUME NEW w \in Wakes, PublishWake(w) PROVE ParentOver'
  BY <1>3, InboundIsTask, ParentMove DEF PublishWake, turns
<1>4. ASSUME NEW t \in Tasks, NEW r \in Rewrites, PublishRewrite(t, r) PROVE ParentOver'
  <2>1. \A u \in Tasks : pc'[u] = IF u = r THEN "acquiring" ELSE pc[u]
    BY <1>4, InboundIsTask DEF PublishRewrite, Typed, TypeOK
  <2>2. \A q \in Rewrites : parent'[q] = IF q = r THEN t ELSE parent[q]
    BY <1>4 DEF PublishRewrite, Typed, TypeOK, TurnTypeOK
  <2>3. pc[t] = "responding" /\ pc[r] = "none"
    BY <1>4 DEF PublishRewrite
  <2> QED
    BY <2>1, <2>2, <2>3 DEF ParentOver
<1>5. ASSUME NEW t \in Tasks, FailOpen(t) PROVE ParentOver'
  BY <1>1, <1>5 DEF FailOpen
<1>6. ASSUME NEW t \in Tasks, Turn(t) PROVE ParentOver'
  <2> USE DEF Begin, BeginFails, TakeQueued, StoreFollowUp, StoreFollowUpFails, AuditFollowUp,
              AuditFollowUpFails, NextFollowUp, Finish, StopEarly, PersistReply,
              PersistReplyFails, Respond, Finally, FlushAudit, EndTask, Granted
  <2>1. UNCHANGED parent
    BY <1>6 DEF Turn, Drain, turns
  <2>2. CASE FlushAudit(t) \/ StoreFollowUp(t)
    BY <1>1, <2>1, <2>2
  <2>3. CASE Respond(t) \/ Finally(t) \/ EndTask(t)
    <3>1. PICK s \in {"responding", "flushing", "done"} : pc' = [pc EXCEPT ![t] = s]
      BY <2>3
    <3> QED
      BY <2>1, <3>1, ParentMove
  <2>4. CASE \/ Begin(t) \/ BeginFails(t) \/ TakeQueued(t) \/ StoreFollowUpFails(t)
             \/ AuditFollowUp(t) \/ AuditFollowUpFails(t) \/ Finish(t) \/ StopEarly(t)
             \/ PersistReply(t) \/ PersistReplyFails(t)
    <3>1. pc[t] \in {"acquiring", "running", "draining", "finishing"}
      BY <2>4
    <3>2. PICK s \in Working : pc' = [pc EXCEPT ![t] = s]
      BY <2>4, <3>1 DEF Working
    <3> QED
      BY <2>1, <3>1, <3>2, ParentMove DEF Working
  <2> QED
    BY <1>6, <2>2, <2>3, <2>4 DEF Turn, Drain
<1>7. CASE UNCHANGED vars
  BY <1>1, <1>7 DEF vars, turns
<1> QED
  BY <1>2, <1>3, <1>4, <1>5, <1>6, <1>7 DEF Next

\* A content-block rewrite never waits behind the host whose agent.response it is published
\* in: that host has released its lane, and cannot return from its publish before the rewrite
\* is over.
THEOREM RewriteNeverBlocksItsHost == Spec => []NoWaitOnParent
<1> DEFINE Inv == Typed /\ HoldInv /\ ParentOver
<1>1. Init => Inv
  BY TypedInit, HoldInit DEF Init, ParentOver
<1>2. Inv /\ [Next]_vars => Inv'
  BY TypedStep, HoldStep, ParentStep
<1>3. Inv => NoWaitOnParent
  <2> SUFFICES ASSUME HoldInv, ParentOver, NEW r \in Rewrites, parent[r] # None,
                      holder[Conv[r]] = parent[r]
               PROVE  FALSE
    BY DEF NoWaitOnParent
  <2>1. pc[parent[r]] \in Queueing \cup Working
    BY InboundIsTask, ConvType DEF HoldInv, HolderActs
  <2> QED
    BY <2>1 DEF ParentOver, Queueing, Working
<1> QED
  BY <1>1, <1>2, <1>3, PTL DEF Spec

(***************************************************************************)
(* Which follow-ups are queued, taken and stored.                          *)
(***************************************************************************)
\* An inbound its sender's handler still waits for, or whose turn has taken it.
Kept(i) == ticket[i] \in {"open", "drained"}

\* i may be stored in t's turn.
Fit(i, t) ==
    /\ {i, t} \subseteq Resolved /\ i \in Clean
    /\ Contact[i] = Contact[t] /\ Conv[i] = Conv[t]

QueuedFits ==
    \A c \in Convs :
        /\ \A i \in ToSet(queue[c]) : holder[c] # None /\ Fit(i, holder[c]) /\ Kept(i)
        /\ \A i \in Undrained(c) : Conv[i] = c

WorkFits ==
    \A t \in Tasks :
        /\ work[t] # <<>> => pc[t] = "draining"
        /\ \A i \in ToSet(work[t]) : Fit(i, t) /\ Kept(i)

KeptHasNoTask == \A i \in Inbounds : Kept(i) => pc[i] = "none"

\* What is stored is never handed back.
StoredKept ==
    /\ \A i \in stored : Kept(i)
    /\ retained \subseteq stored /\ \A t \in Tasks : batch[t] \subseteq stored

Early == {"none", "publishing", "acquiring", "dropped"}

\* The rows of an inbound: at most one, of its own turn once that has begun, or of the
\* turn it was stored in.
RowsFit ==
    \A i \in Inbounds :
        /\ \A t, u \in rows[i] : t = u
        /\ \A t \in rows[i] \ {i} : i \in stored /\ Fit(i, t)
        /\ i \in rows[i] => pc[i] \notin Early

FollowInv == QueuedFits /\ WorkFits /\ KeptHasNoTask /\ StoredKept /\ RowsFit

LEMMA FollowInit == Init => FollowInv
BY ToSetEmpty
DEF Init, FollowInv, QueuedFits, WorkFits, KeptHasNoTask, StoredKept, RowsFit, Kept, Undrained

\* A lane is left alone, but for confirmed follow-ups, or starts afresh.
LanesShrink ==
    \A c \in Convs :
        \/ holder'[c] = holder[c] /\ queue'[c] = queue[c] /\ pending'[c] \subseteq pending[c]
        \/ queue'[c] = <<>> /\ pending'[c] = {}

LEMMA SameLanes ==
    ASSUME UNCHANGED <<holder, queue, pending>>
    PROVE  LanesShrink
BY DEF LanesShrink

LEMMA JoinShrinks ==
    ASSUME Typed, NEW t \in Tasks, NEW ph, Join(t, ph)
    PROVE  LanesShrink
BY ConvType DEF Join, BeginHold, LanesShrink, lane, Typed, TypeOK, LaneTypeOK

LEMMA GrantShrinks ==
    ASSUME Typed, NEW c \in Convs, GrantNext(c)
    PROVE  LanesShrink
BY DEF GrantNext, BeginHold, LanesShrink, Typed, TypeOK, LaneTypeOK

\* No ticket is taken up again, and what is stored, queued or being handled stays out of
\* the sender's hands.
TicketsKeep ==
    \A i \in Inbounds :
        /\ Kept(i)' => Kept(i)
        /\ \/ i \in stored
           \/ \E c \in Convs : i \in ToSet(queue'[c])
           \/ \E u \in Tasks : i \in ToSet(work'[u])
           => (Kept(i) => Kept(i)')

LEMMA SameTickets ==
    ASSUME UNCHANGED ticket
    PROVE  TicketsKeep
BY DEF TicketsKeep, Kept

\* release hands back only follow-ups that were on the hold and are not stored.
LEMMA ReleaseTickets ==
    ASSUME Typed, HoldInv, FollowInv, NEW t \in Tasks, Holds(t), pc[t] # "draining",
           GrantNext(Conv[t]), UNCHANGED work,
           ticket' = [i \in Inbounds |->
                        IF i \in Undrained(Conv[t]) \ stored THEN "returned" ELSE ticket[i]]
    PROVE  TicketsKeep
<1> DEFINE c == Conv[t]
<1>0. c \in Convs
  BY ConvType
<1>1. \A d \in Convs : queue'[d] = IF d = c THEN <<>> ELSE queue[d]
  BY <1>0 DEF GrantNext, BeginHold, Typed, TypeOK, LaneTypeOK
<1>2. ASSUME NEW i \in Inbounds, NEW d \in Convs, i \in ToSet(queue'[d]) PROVE i \notin Undrained(c)
  <2>1. d # c /\ i \in Undrained(d)
    BY <1>1, <1>2, ToSetEmpty DEF Undrained
  <2> QED
    BY <1>0, <2>1 DEF FollowInv, QueuedFits
<1>3. ASSUME NEW i \in Inbounds, NEW u \in Tasks, i \in ToSet(work[u]) PROVE i \notin Undrained(c)
  <2>1. pc[u] = "draining" /\ Conv[i] = Conv[u]
    BY <1>3, ToSetEmpty DEF FollowInv, WorkFits, Fit
  <2>2. Holds(u) /\ u # t
    BY <2>1 DEF HoldInv, DrainHolds
  <2>3. Conv[u] # c
    BY <2>2 DEF Holds
  <2> QED
    BY <1>0, <2>1, <2>3 DEF FollowInv, QueuedFits
<1> QED
  BY <1>2, <1>3 DEF TicketsKeep, Kept

LEMMA QueuedShrink ==
    ASSUME Typed, FollowInv, LanesShrink, TicketsKeep
    PROVE  QueuedFits'
<1> SUFFICES ASSUME NEW c \in Convs
             PROVE  /\ \A i \in ToSet(queue'[c]) :
                         holder'[c] # None /\ Fit(i, holder'[c]) /\ Kept(i)'
                    /\ \A i \in Undrained(c)' : Conv[i] = c
  BY DEF QueuedFits, Fit
<1>1. CASE holder'[c] = holder[c] /\ queue'[c] = queue[c] /\ pending'[c] \subseteq pending[c]
  <2>1. ToSet(queue[c]) \subseteq Inbounds
    BY ToSetType DEF Typed, TypeOK, LaneTypeOK
  <2> QED
    BY <1>1, <2>1 DEF FollowInv, QueuedFits, TicketsKeep, Undrained
<1>2. CASE queue'[c] = <<>> /\ pending'[c] = {}
  BY <1>2, ToSetEmpty DEF Undrained
<1> QED
  BY <1>1, <1>2 DEF LanesShrink

\* A step of one task that stores nothing and takes nothing from a queue.
LEMMA FollowKeep ==
    ASSUME Typed, FollowInv, NEW t \in Tasks, NEW s \in Stages, pc' = [pc EXCEPT ![t] = s],
           LanesShrink, TicketsKeep, UNCHANGED <<stored, rows>>,
           retained' \subseteq stored, \A u \in Tasks : batch'[u] \subseteq stored,
           \A u \in Tasks :
               /\ ToSet(work'[u]) \subseteq ToSet(work[u])
               /\ work'[u] # <<>> => work[u] # <<>> /\ pc'[u] = "draining",
           t \in Inbounds /\ Kept(t) => pc[t] # "none",
           s \in Early => pc[t] \in Early
    PROVE  FollowInv'
<1> USE DEF FollowInv
<1>1. \A u \in Tasks : pc'[u] = IF u = t THEN s ELSE pc[u]
  BY DEF Typed, TypeOK
<1>2. \A u \in Tasks : ToSet(work[u]) \subseteq Inbounds
  BY ToSetType DEF Typed, TypeOK, TurnTypeOK
<1>3. QueuedFits'
  BY QueuedShrink
<1>4. WorkFits'
  BY <1>2 DEF WorkFits, TicketsKeep, Fit
<1>5. KeptHasNoTask'
  BY <1>1, InboundIsTask DEF KeptHasNoTask, TicketsKeep
<1>6. StoredKept'
  BY DEF StoredKept, TicketsKeep, Typed, TypeOK, TicketTypeOK
<1>7. RowsFit'
  BY <1>1, InboundIsTask DEF RowsFit, Fit
<1> QED
  BY <1>3, <1>4, <1>5, <1>6, <1>7

\* Steps that move no task but may shrink a lane, a batch or the parked list.
LEMMA FollowStay ==
    ASSUME Typed, FollowInv, LanesShrink, TicketsKeep, UNCHANGED <<pc, stored, rows, work>>,
           retained' \subseteq stored, \A u \in Tasks : batch'[u] \subseteq stored
    PROVE  FollowInv'
<1>1. \A u \in Tasks : ToSet(work[u]) \subseteq Inbounds
  BY ToSetType DEF Typed, TypeOK, TurnTypeOK
<1>2. QueuedFits'
  BY QueuedShrink
<1>3. WorkFits' /\ KeptHasNoTask' /\ StoredKept' /\ RowsFit'
  BY <1>1 DEF FollowInv, WorkFits, KeptHasNoTask, StoredKept, RowsFit, TicketsKeep, Fit,
              Typed, TypeOK, TicketTypeOK
<1> QED
  BY <1>2, <1>3 DEF FollowInv

\* tryInject accepts a follow-up of the holder's contact.
LEMMA FollowInject ==
    ASSUME Typed, HoldInv, FollowInv, NEW i \in Inbounds, Inject(i)
    PROVE  FollowInv'
<1> DEFINE c == Conv[i]
<1>0. c \in Convs /\ i \in Tasks
  BY InboundIsTask, ConvType
<1>1. holder[c] # None /\ Fit(i, holder[c])
  <2>1. holder[c] # None
    BY <1>0 DEF Inject, CanInject, HoldInv, FreeIsIdle
  <2> QED
    BY <1>0, <2>1 DEF Inject, CanInject, Eligible, Fit, HoldInv, HolderActs
<1>2. \A d \in Convs : ToSet(queue'[d]) = IF d = c THEN ToSet(queue[d]) \cup {i} ELSE ToSet(queue[d])
  <2>1. \A d \in Convs : queue'[d] = IF d = c THEN Append(queue[c], i) ELSE queue[d]
    BY <1>0 DEF Inject, Typed, TypeOK, LaneTypeOK
  <2>2. ToSet(Append(queue[c], i)) = ToSet(queue[c]) \cup {i}
    <3>1. queue[c] \in Seq(Inbounds)
      BY <1>0 DEF Typed, TypeOK, LaneTypeOK
    <3> QED
      BY <3>1, ToSetAppend
  <2> QED
    BY <2>1, <2>2
<1>3. \A j \in Inbounds : (Kept(j)' <=> (j = i \/ Kept(j)))
  BY DEF Inject, Kept, Typed, TypeOK, TicketTypeOK
<1>4. UNCHANGED <<holder, pending, stored, retained, pc, work, batch, rows>>
  BY DEF Inject, turns, memory
<1>5. \A d \in Convs : ToSet(queue[d]) \subseteq Inbounds
  BY ToSetType DEF Typed, TypeOK, LaneTypeOK
<1>6. \A u \in Tasks : ToSet(work[u]) \subseteq Inbounds
  BY ToSetType DEF Typed, TypeOK, TurnTypeOK
<1>7. QueuedFits'
  <2> SUFFICES ASSUME NEW d \in Convs
               PROVE  /\ \A j \in ToSet(queue'[d]) :
                           holder'[d] # None /\ Fit(j, holder'[d]) /\ Kept(j)'
                      /\ \A j \in Undrained(d)' : Conv[j] = d
    BY DEF QueuedFits, Fit
  <2>1. Undrained(d)' = ToSet(queue'[d]) \cup pending[d] /\ holder'[d] = holder[d]
    BY <1>4 DEF Undrained
  <2>2. /\ \A j \in ToSet(queue[d]) : holder[d] # None /\ Fit(j, holder[d]) /\ Kept(j)
        /\ \A j \in ToSet(queue[d]) \cup pending[d] : Conv[j] = d
    BY DEF FollowInv, QueuedFits, Undrained
  <2>3. ToSet(queue'[d]) = ToSet(queue[d]) \/ (d = c /\ ToSet(queue'[d]) = ToSet(queue[d]) \cup {i})
    BY <1>2
  <2>4. \A j \in ToSet(queue'[d]) : holder'[d] # None /\ Fit(j, holder'[d])
    BY <1>1, <2>1, <2>2, <2>3
  <2>5. \A j \in ToSet(queue'[d]) : j \in Inbounds /\ (j = i \/ Kept(j))
    BY <1>5, <2>2, <2>3
  <2>6. \A j \in ToSet(queue'[d]) : Kept(j)'
    BY <1>3, <2>5
  <2>7. \A j \in Undrained(d)' : Conv[j] = d
    BY <2>1, <2>2, <2>3
  <2> QED
    BY <2>4, <2>6, <2>7
<1>8. KeptHasNoTask'
  BY <1>3, <1>4 DEF Inject, FollowInv, KeptHasNoTask
<1>9. WorkFits' /\ StoredKept' /\ RowsFit'
  BY <1>3, <1>4, <1>6
  DEF FollowInv, WorkFits, StoredKept, RowsFit, Fit, Typed, TypeOK, TicketTypeOK
<1> QED
  BY <1>7, <1>8, <1>9 DEF FollowInv

\* takeQueued hands the queue to the turn that holds the lane.
LEMMA FollowTake ==
    ASSUME Typed, FollowInv, NEW t \in Tasks, TakeQueued(t)
    PROVE  FollowInv'
<1> DEFINE c == Conv[t]
<1>0. c \in Convs /\ holder[c] = t
  BY ConvType DEF TakeQueued, Holds
<1>1. /\ \A u \in Tasks : pc'[u] = IF u = t THEN "draining" ELSE pc[u]
      /\ \A u \in Tasks : work'[u] = IF u = t THEN queue[c] ELSE work[u]
      /\ \A d \in Convs : queue'[d] = IF d = c THEN <<>> ELSE queue[d]
      /\ \A d \in Convs : pending'[d] = IF d = c THEN pending[c] \cup ToSet(queue[c]) ELSE pending[d]
      /\ UNCHANGED <<holder, stored, retained, ticket, batch, rows>>
  BY <1>0 DEF TakeQueued, Typed, TypeOK, LaneTypeOK, TurnTypeOK, tickets, memory
<1>2. pc[t] = "running"
  BY DEF TakeQueued
<1>3. QueuedFits'
  <2> SUFFICES ASSUME NEW d \in Convs
               PROVE  /\ \A j \in ToSet(queue'[d]) :
                           holder'[d] # None /\ Fit(j, holder'[d]) /\ Kept(j)'
                      /\ \A j \in Undrained(d)' : Conv[j] = d
    BY DEF QueuedFits, Fit
  <2> QED
    BY <1>1, ToSetEmpty DEF FollowInv, QueuedFits, Undrained, Kept
<1>4. WorkFits'
  BY <1>0, <1>1 DEF FollowInv, WorkFits, QueuedFits, Fit, Kept
<1>5. KeptHasNoTask' /\ StoredKept'
  BY <1>1, <1>2, InboundIsTask DEF FollowInv, KeptHasNoTask, StoredKept, Kept
<1>6. RowsFit'
  BY <1>1, <1>2, InboundIsTask DEF FollowInv, RowsFit, Fit, Early
<1> QED
  BY <1>3, <1>4, <1>5, <1>6 DEF FollowInv

\* A turn stores its own user row: no other turn has stored that text, or its ticket would
\* have kept it from getting a turn.
LEMMA FollowBegin ==
    ASSUME Typed, FollowInv, NEW t \in Tasks, Begin(t)
    PROVE  FollowInv'
<1>1. /\ \A u \in Tasks : pc'[u] = IF u = t THEN "running" ELSE pc[u]
      /\ \A i \in Inbounds : rows'[i] = IF i = t THEN rows[i] \cup {t} ELSE rows[i]
      /\ UNCHANGED <<holder, queue, pending, stored, retained, ticket, work, batch>>
  BY DEF Begin, Typed, TypeOK, lane, tickets, turns
<1>2. pc[t] = "acquiring"
  BY DEF Begin, Granted
<1>3. t \in Inbounds => rows[t] = {}
  BY <1>2 DEF FollowInv, RowsFit, StoredKept, KeptHasNoTask, Early
<1>4. QueuedFits' /\ WorkFits' /\ KeptHasNoTask' /\ StoredKept'
  BY <1>1, <1>2, InboundIsTask
  DEF FollowInv, QueuedFits, WorkFits, KeptHasNoTask, StoredKept, Kept, Undrained, Fit
<1>5. RowsFit'
  <2> SUFFICES ASSUME NEW i \in Inbounds
               PROVE  /\ \A u, v \in rows'[i] : u = v
                      /\ \A u \in rows'[i] \ {i} : i \in stored /\ Fit(i, u)
                      /\ i \in rows'[i] => pc'[i] \notin Early
    BY <1>1 DEF RowsFit, Fit
  <2>1. CASE i = t
    BY <1>1, <1>3, <2>1 DEF Early
  <2>2. CASE i # t
    BY <1>1, <2>2, InboundIsTask DEF FollowInv, RowsFit
  <2> QED
    BY <2>1, <2>2
<1> QED
  BY <1>4, <1>5 DEF FollowInv

\* A follow-up is stored in the turn that took it: it was stored nowhere before.
LEMMA FollowStore ==
    ASSUME Typed, FollowInv, NEW t \in Tasks, StoreFollowUp(t)
    PROVE  FollowInv'
<1> DEFINE h == Head(work[t])
<1>0. work[t] \in Seq(Inbounds) /\ work[t] # <<>> /\ pc[t] = "draining" /\ h \notin stored
  BY DEF StoreFollowUp, Typed, DrainingHasWork, TypeOK, TurnTypeOK
<1>1. h \in ToSet(work[t]) /\ h \in Inbounds
  BY <1>0, ToSetHeadTail, HeadTailProperties
<1>2. /\ \A i \in Inbounds : rows'[i] = IF i = h THEN rows[i] \cup {t} ELSE rows[i]
      /\ stored' = stored \cup {h}
      /\ UNCHANGED <<holder, queue, pending, retained, ticket, pc, work, batch>>
  BY <1>1 DEF StoreFollowUp, Typed, TypeOK, MemoryTypeOK, lane, turns
<1>3. Fit(h, t) /\ Kept(h) /\ pc[h] = "none" /\ h # t
  BY <1>0, <1>1 DEF FollowInv, WorkFits, KeptHasNoTask
<1> HIDE DEF h
<1>4. rows[h] = {}
  BY <1>0, <1>1, <1>3 DEF FollowInv, RowsFit, Early
<1>5. QueuedFits' /\ WorkFits' /\ KeptHasNoTask' /\ StoredKept'
  BY <1>2, <1>3
  DEF FollowInv, QueuedFits, WorkFits, KeptHasNoTask, StoredKept, Kept, Undrained, Fit
<1>6. RowsFit'
  <2> SUFFICES ASSUME NEW i \in Inbounds
               PROVE  /\ \A u, v \in rows'[i] : u = v
                      /\ \A u \in rows'[i] \ {i} : i \in stored' /\ Fit(i, u)
                      /\ i \in rows'[i] => pc'[i] \notin Early
    BY DEF RowsFit, Fit
  <2>1. CASE i = h
    BY <1>2, <1>3, <1>4, <2>1
  <2>2. CASE i # h
    BY <1>2, <2>2 DEF FollowInv, RowsFit
  <2> QED
    BY <2>1, <2>2
<1> QED
  BY <1>5, <1>6 DEF FollowInv

\* A step of one task that leaves the follow-ups as they are.
LEMMA FollowMove ==
    ASSUME Typed, FollowInv, NEW t \in Tasks, NEW s \in Stages, pc' = [pc EXCEPT ![t] = s],
           LanesShrink, UNCHANGED <<tickets, work, batch, rows>>,
           pc[t] # "draining",
           t \in Inbounds /\ Kept(t) => pc[t] # "none",
           s \in Early => pc[t] \in Early
    PROVE  FollowInv'
<1>1. \A u \in Tasks : work[u] # <<>> => pc'[u] = "draining"
  BY DEF FollowInv, WorkFits, Typed, TypeOK
<1>2. TicketsKeep
  BY SameTickets DEF tickets
<1> QED
  BY <1>1, <1>2, FollowKeep DEF FollowInv, StoredKept, tickets

LEMMA FollowRoute ==
    ASSUME Typed, HoldInv, FollowInv, NEW i \in Inbounds,
           Inject(i) \/ RouteOwnTask(i) \/ Route(i)
    PROVE  FollowInv'
<1>0. i \in Tasks
  BY InboundIsTask
<1>1. CASE Inject(i)
  BY <1>1, FollowInject
<1>2. CASE RouteOwnTask(i) \/ RouteReturned(i)
  <2>1. CreateTask(i) /\ ticket[i] \in {"none", "returned"} /\ UNCHANGED ticket
    BY <1>2 DEF RouteOwnTask, RouteReturned
  <2>2. pc[i] = "none" /\ ~Kept(i)
    BY <1>2, <2>1 DEF RouteOwnTask, RouteReturned, Kept
  <2>3. LanesShrink /\ TicketsKeep
    BY <1>0, <2>1, JoinShrinks, SameTickets DEF CreateTask
  <2>4. UNCHANGED <<stored, rows, retained, batch, work>> /\ pc' = [pc EXCEPT ![i] = "publishing"]
    BY <2>1 DEF CreateTask, turns, memory
  <2>5. \A u \in Tasks : work[u] # <<>> => pc'[u] = "draining"
    BY <2>2, <2>4 DEF FollowInv, WorkFits, Typed, TypeOK
  <2> QED
    BY <1>0, <2>2, <2>3, <2>4, <2>5, FollowKeep DEF FollowInv, StoredKept, Stages, Early
<1>3. CASE RouteDrained(i)
  <2>1. LanesShrink /\ TicketsKeep
    BY <1>3, SameLanes, SameTickets DEF RouteDrained, lane
  <2> QED
    BY <1>3, <2>1, FollowStay DEF RouteDrained, turns, memory, FollowInv, StoredKept
<1>4. CASE PublishTask(i)
  <2>1. LanesShrink
    BY <1>0, <1>4, JoinShrinks DEF PublishTask
  <2> QED
    BY <1>0, <1>4, <2>1, FollowMove DEF PublishTask, turns, memory, Stages, Early
<1>5. CASE PublishTaskFails(i)
  <2>1. /\ pc[i] = "publishing" /\ pc' = [pc EXCEPT ![i] = "dropped"]
        /\ UNCHANGED <<stored, settled, turns, memory>>
    BY <1>5 DEF PublishTaskFails
  <2>2. \A u \in Tasks : work[u] # <<>> => pc'[u] = "draining"
    BY <2>1 DEF FollowInv, WorkFits, Typed, TypeOK
  <2>3. CASE Holds(i) /\ Release(i)
    <3>1. GrantNext(Conv[i]) /\ retained' \subseteq retained \cup stored
      BY <2>3 DEF Release
    <3>2. LanesShrink
      BY <1>0, <3>1, ConvType, GrantShrinks
    <3>3. TicketsKeep
      BY <1>0, <2>1, <2>3, <3>1, ReleaseTickets DEF Release, turns
    <3> QED
      BY <1>0, <2>1, <2>2, <3>1, <3>2, <3>3, FollowKeep
      DEF FollowInv, StoredKept, turns, memory, Stages, Early
  <2>4. CASE UNCHANGED <<holder, queue, pending, retained, ticket>>
    BY <1>0, <2>1, <2>4, SameLanes, FollowMove DEF tickets, turns, memory, Stages, Early
  <2> QED
    BY <1>5, <2>3, <2>4 DEF PublishTaskFails
<1> QED
  BY <1>1, <1>2, <1>3, <1>4, <1>5 DEF Route

LEMMA FollowPublish ==
    ASSUME Typed, FollowInv,
           \/ \E w \in Wakes : PublishWake(w)
           \/ \E t \in Tasks, r \in Rewrites : PublishRewrite(t, r)
           \/ \E t \in Tasks : FailOpen(t)
    PROVE  FollowInv'
<1>1. ASSUME NEW w \in Wakes, PublishWake(w) PROVE FollowInv'
  <2>1. w \in Tasks /\ w \notin Inbounds /\ LanesShrink
    BY <1>1, InboundIsTask, LaneAssumption, JoinShrinks DEF PublishWake
  <2> QED
    BY <1>1, <2>1, FollowMove DEF PublishWake, turns, memory, Stages, Early
<1>2. ASSUME NEW t \in Tasks, NEW r \in Rewrites, PublishRewrite(t, r) PROVE FollowInv'
  <2>1. r \in Tasks /\ r \notin Inbounds /\ LanesShrink
    BY <1>2, InboundIsTask, LaneAssumption, JoinShrinks DEF PublishRewrite
  <2> QED
    BY <1>2, <2>1, FollowMove DEF PublishRewrite, memory, Stages, Early
<1>3. ASSUME NEW t \in Tasks, FailOpen(t) PROVE FollowInv'
  <2>1. LanesShrink /\ TicketsKeep
    BY <1>3, SameLanes, SameTickets DEF FailOpen, tickets
  <2> QED
    BY <1>3, <2>1, FollowStay DEF FailOpen, tickets, memory, FollowInv, StoredKept
<1> QED
  BY <1>1, <1>2, <1>3

\* The audit of a follow-up that is taken, and stored, succeeds or fails.
LEMMA FollowAudit ==
    ASSUME Typed, FollowInv, NEW t \in Tasks, AuditFollowUp(t) \/ AuditFollowUpFails(t)
    PROVE  FollowInv'
<1> DEFINE h == Head(work[t])
<1>0. work[t] \in Seq(Inbounds) /\ work[t] # <<>> /\ pc[t] = "draining" /\ h \in stored
  BY DEF AuditFollowUp, AuditFollowUpFails, Typed, DrainingHasWork, TypeOK, TurnTypeOK
<1>1. ToSet(Tail(work[t])) \subseteq ToSet(work[t])
  BY <1>0, ToSetHeadTail
<1>2. h \in Inbounds /\ Kept(h)
  BY <1>0 DEF FollowInv, StoredKept, Typed, TypeOK, TicketTypeOK
<1>3. \A u \in Tasks : work'[u] = IF u = t THEN Tail(work[t]) ELSE work[u]
  BY DEF AuditFollowUp, AuditFollowUpFails, NextFollowUp, Typed, TypeOK, TurnTypeOK
<1>4. PICK s \in {"running", "draining"} :
        pc' = [pc EXCEPT ![t] = s] /\ (s = "running" => Tail(work[t]) = <<>>)
  BY <1>0 DEF AuditFollowUp, AuditFollowUpFails, NextFollowUp
<1>5. \A u \in Tasks : work'[u] # <<>> => work[u] # <<>> /\ pc'[u] = "draining"
  BY <1>0, <1>3, <1>4 DEF FollowInv, WorkFits, Typed, TypeOK
<1>6. LanesShrink
  <2>1. CASE AuditFollowUp(t)
    BY <2>1 DEF AuditFollowUp, LanesShrink, Typed, TypeOK, LaneTypeOK
  <2>2. CASE AuditFollowUpFails(t)
    BY <2>2, SameLanes DEF AuditFollowUpFails, lane
  <2> QED
    BY <2>1, <2>2
<1>7. TicketsKeep
  BY <1>2 DEF AuditFollowUp, AuditFollowUpFails, tickets, TicketsKeep, Kept, Typed, TypeOK, TicketTypeOK
<1>8. UNCHANGED <<stored, retained, rows, batch>>
  BY DEF AuditFollowUp, AuditFollowUpFails, tickets, memory
<1> QED
  BY <1>0, <1>1, <1>3, <1>4, <1>5, <1>6, <1>7, <1>8, FollowKeep
  DEF FollowInv, StoredKept, Stages, Early

\* The lane is released with the reply's publish, or in handleTask's finally.
LEMMA FollowRelease ==
    ASSUME Typed, HoldInv, FollowInv, NEW t \in Tasks, Respond(t) \/ Finally(t)
    PROVE  FollowInv'
<1>1. pc[t] \in {"failing", "replied", "responding"} /\ UNCHANGED <<stored, rows, work>>
  BY DEF Respond, Finally, turns, memory
<1>2. PICK s \in {"responding", "flushing"} : pc' = [pc EXCEPT ![t] = s]
  BY DEF Respond, Finally
<1>3. \A u \in Tasks : work[u] # <<>> => pc'[u] = "draining"
  BY <1>1, <1>2 DEF FollowInv, WorkFits, Typed, TypeOK
<1>4. LanesShrink /\ TicketsKeep
  <2>1. CASE Holds(t)
    <3>1. GrantNext(Conv[t])
      BY <2>1 DEF Respond, Finally, Release
    <3>2. TicketsKeep
      BY <1>1, <2>1, <3>1, ReleaseTickets DEF Respond, Finally, Release
    <3> QED
      BY <3>1, <3>2, ConvType, GrantShrinks
  <2>2. CASE ~Holds(t)
    BY <2>2, SameLanes, SameTickets DEF Respond, Finally, Release, lane
  <2> QED
    BY <2>1, <2>2
<1>5. retained' \subseteq stored /\ \A u \in Tasks : batch'[u] \subseteq stored
  <2>1. retained \subseteq stored /\ \A u \in Tasks : batch[u] \subseteq stored
    BY DEF FollowInv, StoredKept
  <2>2. CASE Respond(t)
    BY <2>1, <2>2 DEF Respond, Release, turns
  <2>3. CASE Finally(t)
    <3>1. PICK B \in SUBSET stored : batch' = [batch EXCEPT ![t] = B]
      BY <2>1, <2>3 DEF Finally
    <3> QED
      BY <2>1, <2>3, <3>1 DEF Finally, Typed, TypeOK, TurnTypeOK
  <2> QED
    BY <2>2, <2>3
<1> QED
  BY <1>1, <1>2, <1>3, <1>4, <1>5, FollowKeep DEF Stages, Early

LEMMA FollowTurn ==
    ASSUME Typed, HoldInv, FollowInv, NEW t \in Tasks, Turn(t)
    PROVE  FollowInv'
<1> USE DEF Stages, Early
<1>1. CASE Begin(t)
  BY <1>1, FollowBegin
<1>2. CASE TakeQueued(t)
  BY <1>2, FollowTake
<1>3. CASE StoreFollowUp(t)
  BY <1>3, FollowStore
<1>4. CASE AuditFollowUp(t) \/ AuditFollowUpFails(t)
  BY <1>4, FollowAudit
<1>5. CASE Respond(t) \/ Finally(t)
  BY <1>5, FollowRelease
<1>6. CASE \/ BeginFails(t) \/ Finish(t) \/ StopEarly(t) \/ PersistReply(t)
           \/ PersistReplyFails(t) \/ EndTask(t)
  <2> USE DEF BeginFails, Granted, Finish, StopEarly, PersistReply, PersistReplyFails, EndTask
  <2>1. /\ pc[t] \in {"acquiring", "running", "finishing", "flushing"}
        /\ UNCHANGED <<holder, queue, pending, tickets, work, batch, rows>>
    BY <1>6 DEF lane, turns, memory
  <2>2. PICK s \in {"failing", "finishing", "replied", "done"} : pc' = [pc EXCEPT ![t] = s]
    BY <1>6
  <2> QED
    BY <2>1, <2>2, SameLanes, FollowMove
<1>7. CASE StoreFollowUpFails(t)
  <2>1. /\ pc[t] = "draining" /\ pc' = [pc EXCEPT ![t] = "failing"]
        /\ \A u \in Tasks : work'[u] = IF u = t THEN <<>> ELSE work[u]
        /\ UNCHANGED <<lane, tickets, batch, rows>>
    BY <1>7 DEF StoreFollowUpFails, memory, Typed, TypeOK, TurnTypeOK
  <2>2. \A u \in Tasks : /\ ToSet(work'[u]) \subseteq ToSet(work[u])
                         /\ work'[u] # <<>> => work[u] # <<>> /\ pc'[u] = "draining"
    BY <2>1, ToSetEmpty DEF FollowInv, WorkFits, Typed, TypeOK
  <2>3. LanesShrink /\ TicketsKeep
    BY <2>1, SameLanes, SameTickets DEF lane, tickets
  <2> QED
    BY <2>1, <2>2, <2>3, FollowKeep DEF FollowInv, StoredKept, tickets
<1>8. CASE FlushAudit(t)
  <2>1. PICK i \in batch[t] :
          /\ batch' = [batch EXCEPT ![t] = @ \ {i}]
          /\ \/ ticket' = [ticket EXCEPT ![i] = "drained"] /\ UNCHANGED retained
             \/ retained' = retained \cup {i} /\ UNCHANGED ticket
    BY <1>8 DEF FlushAudit
  <2>2. i \in stored /\ i \in Inbounds /\ Kept(i)
    BY DEF FollowInv, StoredKept, Typed, TypeOK, TicketTypeOK
  <2>3. LanesShrink /\ UNCHANGED <<pc, stored, rows, work>>
    BY <1>8, SameLanes DEF FlushAudit, lane, memory
  <2>4. TicketsKeep
    BY <2>1, <2>2, <2>3 DEF TicketsKeep, Kept, Typed, TypeOK, TicketTypeOK
  <2>5. retained' \subseteq stored /\ \A u \in Tasks : batch'[u] \subseteq stored
    BY <2>1, <2>2 DEF FollowInv, StoredKept, Typed, TypeOK, TurnTypeOK
  <2> QED
    BY <2>3, <2>4, <2>5, FollowStay
<1> QED
  BY <1>1, <1>2, <1>3, <1>4, <1>5, <1>6, <1>7, <1>8 DEF Turn, Drain

LEMMA FollowStep ==
    ASSUME Typed, HoldInv, FollowInv, [Next]_vars
    PROVE  FollowInv'
<1>1. CASE UNCHANGED vars
  <2>1. LanesShrink /\ TicketsKeep
    BY <1>1, SameLanes, SameTickets DEF vars, lane, tickets
  <2> QED
    BY <1>1, <2>1, FollowStay DEF vars, tickets, turns, memory, FollowInv, StoredKept
<1>2. CASE Next
  BY <1>2, FollowRoute, FollowPublish, FollowTurn DEF Next
<1> QED
  BY <1>1, <1>2

\* A follow-up is stored for one turn only, whichever of store, audit, release and flush
\* failed, and only in a turn of its own resolved contact on its own conversation; its text
\* never gets a second turn.
THEOREM FollowUpsStoredOnce == Spec => []FollowUpStored
<1> DEFINE Inv == Typed /\ HoldInv /\ FollowInv
<1>1. Init => Inv
  BY TypedInit, HoldInit, FollowInit
<1>2. Inv /\ [Next]_vars => Inv'
  BY TypedStep, HoldStep, FollowStep
<1>3. Inv => FollowUpStored
  <2> SUFFICES ASSUME Inv PROVE FollowUpStored
    OBVIOUS
  <2>1. SameContactRows
    BY DEF FollowInv, RowsFit, Fit, SameContactRows
  <2>2. StoredForOneTurn
    <3> SUFFICES ASSUME NEW i \in Inbounds
                 PROVE  /\ Cardinality(rows[i]) <= 1
                        /\ rows[i] \ {i} # {} => pc[i] = "none"
      BY DEF StoredForOneTurn
    <3>1. rows[i] = {} \/ \E t : rows[i] = {t}
      <4>1. CASE rows[i] # {}
        <5>1. PICK t : t \in rows[i]
          BY <4>1
        <5>2. rows[i] = {t}
          BY <5>1 DEF FollowInv, RowsFit
        <5> QED
          BY <5>2
      <4> QED
        BY <4>1
    <3>2. Cardinality(rows[i]) <= 1
      <4>1. CASE rows[i] = {}
        <5>1. Cardinality({}) = 0
          BY FS_EmptySet
        <5> QED
          BY <4>1, <5>1
      <4>2. ASSUME NEW t, rows[i] = {t} PROVE Cardinality(rows[i]) <= 1
        <5>1. Cardinality({t}) = 1
          BY FS_Singleton
        <5> QED
          BY <4>2, <5>1
      <4> QED
        BY <3>1, <4>1, <4>2
    <3>3. rows[i] \ {i} # {} => pc[i] = "none"
      BY DEF FollowInv, RowsFit, StoredKept, KeptHasNoTask
    <3> QED
      BY <3>2, <3>3
  <2> QED
    BY <2>1, <2>2 DEF FollowUpStored
<1> QED
  BY <1>1, <1>2, <1>3, PTL DEF Spec

(***************************************************************************)
(* Every open ticket has an owner.                                         *)
(***************************************************************************)
\* The holds and the flushes in progress that own an open ticket go on owning it.
OwnersKeep ==
    /\ \A c \in Convs : holder[c] # None =>
         /\ holder'[c] # None
         /\ \A i \in Undrained(c) : ticket'[i] = "open" => i \in Undrained(c)'
    /\ \A u \in Tasks : pc[u] = "flushing" /\ batch[u] # {} => pc'[u] = "flushing"

LEMMA OwnedStep ==
    ASSUME OpenTicketOwned, OwnersKeep, UNCHANGED <<retained, batch>>,
           \A i \in Inbounds : ticket'[i] = "open" =>
               \/ ticket[i] = "open"
               \/ \E c \in Convs : holder'[c] # None /\ i \in Undrained(c)'
    PROVE  OpenTicketOwned'
<1> SUFFICES ASSUME NEW i \in Inbounds, ticket'[i] = "open"
             PROVE  \/ \E c \in Convs : holder'[c] # None /\ i \in Undrained(c)'
                    \/ i \in retained'
                    \/ \E t \in Tasks : pc'[t] = "flushing" /\ i \in batch'[t]
  BY DEF OpenTicketOwned
<1>1. CASE ticket[i] = "open"
  <2>1. CASE \E c \in Convs : holder[c] # None /\ i \in Undrained(c)
    BY <2>1 DEF OwnersKeep
  <2>2. CASE i \in retained
    BY <2>2
  <2>3. CASE \E t \in Tasks : pc[t] = "flushing" /\ i \in batch[t]
    BY <2>3 DEF OwnersKeep
  <2> QED
    BY <1>1, <2>1, <2>2, <2>3 DEF OpenTicketOwned
<1>2. CASE \E c \in Convs : holder'[c] # None /\ i \in Undrained(c)'
  BY <1>2
<1> QED
  BY <1>1, <1>2

\* A step of one task that leaves the tickets alone and only lets holds begin.
LEMMA OwnedMove ==
    ASSUME Typed, OpenTicketOwned, NEW t \in Tasks, NEW s \in Stages, pc' = [pc EXCEPT ![t] = s],
           pc[t] = "flushing" => batch[t] = {},
           UNCHANGED <<retained, batch, ticket>>,
           \A c \in Convs : holder[c] # None => holder'[c] # None /\ Undrained(c)' = Undrained(c)
    PROVE  OpenTicketOwned'
<1>1. OwnersKeep
  BY DEF OwnersKeep, Typed, TypeOK
<1> QED
  BY <1>1, OwnedStep

LEMMA JoinOwns ==
    ASSUME Typed, NEW t \in Tasks, NEW ph, Join(t, ph)
    PROVE  \A c \in Convs : holder[c] # None => holder'[c] # None /\ Undrained(c)' = Undrained(c)
BY ConvType, LaneAssumption DEF Join, BeginHold, Undrained, lane, Typed, TypeOK, LaneTypeOK

\* What a released hold owned is handed back, or parked.
LEMMA ReleaseOwns ==
    ASSUME Typed, HoldInv, NEW t \in Tasks, Holds(t), GrantNext(Conv[t]),
           NEW i \in Inbounds, NEW c \in Convs, holder[c] # None, i \in Undrained(c),
           ticket' = [j \in Inbounds |->
                        IF j \in Undrained(Conv[t]) \ stored THEN "returned" ELSE ticket[j]],
           ticket'[i] = "open"
    PROVE  \/ holder'[c] # None /\ i \in Undrained(c)'
           \/ i \in Undrained(Conv[t]) \cap stored
<1>1. CASE c = Conv[t]
  BY <1>1
<1>2. CASE c # Conv[t]
  <2>1. holder'[c] = holder[c] /\ queue'[c] = queue[c] /\ pending'[c] = pending[c]
    BY <1>2, ConvType DEF GrantNext, BeginHold, Typed, TypeOK, LaneTypeOK
  <2> QED
    BY <2>1 DEF Undrained
<1> QED
  BY <1>1, <1>2

LEMMA OwnedRelease ==
    ASSUME Typed, HoldInv, OpenTicketOwned, NEW t \in Tasks, NEW s \in Stages,
           Holds(t), Release(t), pc' = [pc EXCEPT ![t] = s], pc[t] # "flushing", UNCHANGED batch
    PROVE  OpenTicketOwned'
<1>1. /\ ticket' = [j \in Inbounds |->
                      IF j \in Undrained(Conv[t]) \ stored THEN "returned" ELSE ticket[j]]
      /\ retained' = retained \cup (Undrained(Conv[t]) \cap stored)
      /\ GrantNext(Conv[t])
  BY DEF Release
<1> SUFFICES ASSUME NEW i \in Inbounds, ticket'[i] = "open"
             PROVE  \/ \E c \in Convs : holder'[c] # None /\ i \in Undrained(c)'
                    \/ i \in retained'
                    \/ \E u \in Tasks : pc'[u] = "flushing" /\ i \in batch'[u]
  BY DEF OpenTicketOwned
<1>2. ticket[i] = "open"
  BY <1>1
<1>3. CASE \E c \in Convs : holder[c] # None /\ i \in Undrained(c)
  BY <1>1, <1>3, ReleaseOwns
<1>4. CASE i \in retained
  BY <1>1, <1>4
<1>5. CASE \E u \in Tasks : pc[u] = "flushing" /\ i \in batch[u]
  BY <1>5 DEF Typed, TypeOK
<1> QED
  BY <1>2, <1>3, <1>4, <1>5 DEF OpenTicketOwned

\* handleTask's finally takes over what its own hold and earlier releases left.
LEMMA OwnedFinally ==
    ASSUME Typed, HoldInv, OpenTicketOwned, NEW t \in Tasks, Finally(t)
    PROVE  OpenTicketOwned'
<1>0. pc'[t] = "flushing" /\ \A u \in Tasks : pc[u] = "flushing" => u # t /\ pc'[u] = "flushing"
  BY DEF Finally, Typed, TypeOK
<1> SUFFICES ASSUME NEW i \in Inbounds, ticket'[i] = "open"
             PROVE  \/ \E c \in Convs : holder'[c] # None /\ i \in Undrained(c)'
                    \/ i \in retained'
                    \/ \E u \in Tasks : pc'[u] = "flushing" /\ i \in batch'[u]
  BY DEF OpenTicketOwned
<1>1. \A u \in Tasks \ {t} : batch'[u] = batch[u]
  BY DEF Finally, Typed, TypeOK, TurnTypeOK
<1>2. ticket[i] = "open"
  BY DEF Finally
<1>3. i \in retained => i \in batch'[t]
  BY DEF Finally, Typed, TypeOK, TurnTypeOK
<1>4. CASE \E c \in Convs : holder[c] # None /\ i \in Undrained(c)
  <2>1. CASE Holds(t)
    <3>1. batch'[t] = retained \cup (Undrained(Conv[t]) \cap stored)
      BY <2>1 DEF Finally, Typed, TypeOK, TurnTypeOK
    <3> QED
      BY <1>0, <1>4, <2>1, <3>1, ReleaseOwns DEF Finally
  <2>2. CASE ~Holds(t)
    BY <1>4, <2>2 DEF Finally, lane, Undrained
  <2> QED
    BY <2>1, <2>2
<1>5. CASE \E u \in Tasks : pc[u] = "flushing" /\ i \in batch[u]
  BY <1>0, <1>1, <1>5
<1> QED
  BY <1>0, <1>2, <1>3, <1>4, <1>5 DEF OpenTicketOwned

\* flushRetained settles a parked audit's ticket, or parks it again.
LEMMA OwnedFlush ==
    ASSUME Typed, OpenTicketOwned, NEW t \in Tasks, FlushAudit(t)
    PROVE  OpenTicketOwned'
<1>1. PICK i \in batch[t] :
        /\ batch' = [batch EXCEPT ![t] = @ \ {i}]
        /\ \/ ticket' = [ticket EXCEPT ![i] = "drained"] /\ UNCHANGED retained
           \/ retained' = retained \cup {i} /\ UNCHANGED ticket
  BY DEF FlushAudit
<1>2. UNCHANGED <<holder, queue, pending, pc>> /\ i \in Inbounds
  BY DEF FlushAudit, lane, Typed, TypeOK, TurnTypeOK
<1>3. \A u \in Tasks : batch'[u] = IF u = t THEN batch[t] \ {i} ELSE batch[u]
  BY <1>1 DEF Typed, TypeOK, TurnTypeOK
<1> SUFFICES ASSUME NEW j \in Inbounds, ticket'[j] = "open"
             PROVE  \/ \E c \in Convs : holder'[c] # None /\ j \in Undrained(c)'
                    \/ j \in retained'
                    \/ \E u \in Tasks : pc'[u] = "flushing" /\ j \in batch'[u]
  BY DEF OpenTicketOwned
<1>4. ticket[j] = "open" /\ (j = i => j \in retained')
  BY <1>1, <1>2 DEF Typed, TypeOK, TicketTypeOK
<1>5. CASE \E c \in Convs : holder[c] # None /\ j \in Undrained(c)
  BY <1>2, <1>5 DEF Undrained
<1>6. CASE j \in retained
  BY <1>1, <1>6
<1>7. CASE \E u \in Tasks : pc[u] = "flushing" /\ j \in batch[u]
  BY <1>2, <1>3, <1>4, <1>7
<1> QED
  BY <1>4, <1>5, <1>6, <1>7 DEF OpenTicketOwned

LEMMA OwnedRoute ==
    ASSUME Typed, HoldInv, OpenTicketOwned, NEW i \in Inbounds,
           Inject(i) \/ RouteOwnTask(i) \/ Route(i)
    PROVE  OpenTicketOwned'
<1>0. i \in Tasks
  BY InboundIsTask
<1> USE DEF Stages
<1>1. CASE Inject(i)
  <2> DEFINE c == Conv[i]
  <2>1. c \in Convs /\ holder[c] # None /\ queue[c] \in Seq(Inbounds)
    BY <1>0, <1>1, ConvType
    DEF Inject, CanInject, HoldInv, FreeIsIdle, Typed, TypeOK, LaneTypeOK
  <2>2. \A d \in Convs : queue'[d] = IF d = c THEN Append(queue[c], i) ELSE queue[d]
    BY <1>1, <2>1 DEF Inject, Typed, TypeOK, LaneTypeOK
  <2>3. ToSet(Append(queue[c], i)) = ToSet(queue[c]) \cup {i}
    BY <2>1, ToSetAppend
  <2>4. UNCHANGED <<holder, pending, pc, batch, retained>>
    BY <1>1 DEF Inject, turns
  <2>5. \A d \in Convs : Undrained(d) \subseteq Undrained(d)' /\ i \in Undrained(c)'
    BY <2>1, <2>2, <2>3, <2>4 DEF Undrained
  <2>6. OwnersKeep
    BY <2>4, <2>5 DEF OwnersKeep
  <2>7. \A j \in Inbounds : ticket'[j] = "open" => ticket[j] = "open" \/ j = i
    BY <1>1 DEF Inject, Typed, TypeOK, TicketTypeOK
  <2> QED
    BY <2>1, <2>4, <2>5, <2>6, <2>7, OwnedStep
<1>2. CASE RouteOwnTask(i) \/ RouteReturned(i)
  <2>1. CreateTask(i) /\ UNCHANGED ticket /\ pc[i] = "none"
    BY <1>2 DEF RouteOwnTask, RouteReturned
  <2> QED
    BY <1>0, <2>1, JoinOwns, OwnedMove DEF CreateTask, turns
<1>3. CASE RouteDrained(i)
  <2>1. OwnersKeep
    BY <1>3 DEF RouteDrained, lane, OwnersKeep, Undrained
  <2> QED
    BY <1>3, <2>1, OwnedStep DEF RouteDrained, turns
<1>4. CASE PublishTask(i)
  BY <1>0, <1>4, JoinOwns, OwnedMove DEF PublishTask, tickets, turns
<1>5. CASE PublishTaskFails(i)
  <2>1. pc[i] = "publishing" /\ pc' = [pc EXCEPT ![i] = "dropped"] /\ UNCHANGED batch
    BY <1>5 DEF PublishTaskFails, turns
  <2>2. CASE Holds(i) /\ Release(i)
    BY <1>0, <2>1, <2>2, OwnedRelease
  <2>3. CASE UNCHANGED <<holder, queue, pending, retained, ticket>>
    BY <1>0, <2>1, <2>3, OwnedMove DEF Undrained
  <2> QED
    BY <1>5, <2>2, <2>3 DEF PublishTaskFails
<1> QED
  BY <1>1, <1>2, <1>3, <1>4, <1>5 DEF Route

LEMMA OwnedTurn ==
    ASSUME Typed, HoldInv, OpenTicketOwned, NEW t \in Tasks, Turn(t)
    PROVE  OpenTicketOwned'
<1> USE DEF Stages
<1>1. CASE FlushAudit(t)
  BY <1>1, OwnedFlush
<1>2. CASE Finally(t)
  BY <1>2, OwnedFinally
<1>3. CASE Respond(t)
  <2>1. pc[t] \in {"failing", "replied"} /\ pc' = [pc EXCEPT ![t] = "responding"] /\ UNCHANGED batch
    BY <1>3 DEF Respond, turns
  <2>2. CASE Holds(t)
    BY <1>3, <2>1, <2>2, OwnedRelease DEF Respond
  <2>3. CASE ~Holds(t)
    BY <1>3, <2>1, <2>3, OwnedMove DEF Respond, Release, lane, Undrained
  <2> QED
    BY <2>2, <2>3
<1>4. CASE TakeQueued(t) \/ AuditFollowUp(t)
  <2>1. /\ \A u \in Tasks : pc[u] = "flushing" => pc'[u] = "flushing"
        /\ UNCHANGED <<holder, retained, batch>>
    BY <1>4 DEF TakeQueued, AuditFollowUp, NextFollowUp, tickets, Typed, TypeOK
  <2>2. \A j \in Inbounds : ticket'[j] = "open" => ticket[j] = "open"
    BY <1>4 DEF TakeQueued, AuditFollowUp, tickets, Typed, TypeOK, TicketTypeOK
  <2>3. \A c \in Convs : \A j \in Undrained(c) : ticket'[j] = "open" => j \in Undrained(c)'
    <3>1. CASE TakeQueued(t)
      <4>1. \A c \in Convs : /\ queue'[c] = IF c = Conv[t] THEN <<>> ELSE queue[c]
                             /\ pending'[c] = IF c = Conv[t] THEN pending[c] \cup ToSet(queue[c])
                                              ELSE pending[c]
        BY <3>1 DEF TakeQueued, Typed, TypeOK, LaneTypeOK
      <4> QED
        BY <4>1 DEF Undrained
    <3>2. CASE AuditFollowUp(t)
      <4> DEFINE h == Head(work[t])
      <4>1. \A c \in Convs : queue'[c] = queue[c] /\ pending[c] \ {h} \subseteq pending'[c]
        BY <3>2 DEF AuditFollowUp, Typed, TypeOK, LaneTypeOK
      <4>2. h \in Inbounds /\ ticket'[h] = "drained"
        BY <3>2 DEF AuditFollowUp, Typed, TypeOK, TicketTypeOK
      <4> HIDE DEF h
      <4> QED
        BY <4>1, <4>2 DEF Undrained
    <3> QED
      BY <1>4, <3>1, <3>2
  <2>4. OwnersKeep
    BY <2>1, <2>3 DEF OwnersKeep
  <2> QED
    BY <2>1, <2>2, <2>4, OwnedStep
<1>5. CASE \/ Begin(t) \/ BeginFails(t) \/ StoreFollowUp(t) \/ StoreFollowUpFails(t)
           \/ AuditFollowUpFails(t) \/ Finish(t) \/ StopEarly(t) \/ PersistReply(t)
           \/ PersistReplyFails(t) \/ EndTask(t)
  <2> USE DEF Begin, BeginFails, Granted, StoreFollowUp, StoreFollowUpFails, AuditFollowUpFails,
              NextFollowUp, Finish, StopEarly, PersistReply, PersistReplyFails, EndTask
  <2>1. UNCHANGED <<holder, queue, pending, ticket, retained, batch>>
    BY <1>5 DEF lane, tickets, turns
  <2>2. \A u \in Tasks : pc[u] = "flushing" /\ batch[u] # {} => pc'[u] = "flushing"
    BY <1>5 DEF Typed, TypeOK
  <2>3. OwnersKeep
    BY <2>1, <2>2 DEF OwnersKeep, Undrained
  <2> QED
    BY <2>1, <2>3, OwnedStep
<1> QED
  BY <1>1, <1>2, <1>3, <1>4, <1>5 DEF Turn, Drain

LEMMA OwnedNext ==
    ASSUME Typed, HoldInv, OpenTicketOwned, [Next]_vars
    PROVE  OpenTicketOwned'
<1> USE DEF Stages
<1>1. CASE UNCHANGED vars
  BY <1>1 DEF vars, lane, tickets, turns, OpenTicketOwned, Undrained
<1>2. ASSUME NEW w \in Wakes, PublishWake(w) PROVE OpenTicketOwned'
  BY <1>2, InboundIsTask, JoinOwns, OwnedMove DEF PublishWake, tickets, turns
<1>3. ASSUME NEW t \in Tasks, NEW r \in Rewrites, PublishRewrite(t, r) PROVE OpenTicketOwned'
  BY <1>3, InboundIsTask, JoinOwns, OwnedMove DEF PublishRewrite, tickets
<1>4. ASSUME NEW t \in Tasks, FailOpen(t) PROVE OpenTicketOwned'
  <2>1. OwnersKeep
    BY <1>4 DEF FailOpen, tickets, OwnersKeep, Undrained
  <2> QED
    BY <1>4, <2>1, OwnedStep DEF FailOpen, tickets
<1> QED
  BY <1>1, <1>2, <1>3, <1>4, OwnedRoute, OwnedTurn DEF Next

\* A sender's handler is never left waiting on a ticket nobody will resolve: whatever is
\* released, cancelled or fails, the follow-up is still on a hold, parked, or in the batch of
\* a flush in progress.
THEOREM TicketsAreOwned == Spec => []OpenTicketOwned
<1> DEFINE Inv == Typed /\ HoldInv /\ OpenTicketOwned
<1>1. Init => Inv
  BY TypedInit, HoldInit DEF Init, OpenTicketOwned
<1>2. Inv /\ [Next]_vars => Inv'
  BY TypedStep, HoldStep, OwnedNext
<1> QED
  BY <1>1, <1>2, PTL DEF Spec

(***************************************************************************)
(* How many follow-ups a turn takes.                                       *)
(***************************************************************************)
Unbegun == {"none", "publishing", "acquiring"}

\* The follow-ups stored in t's turn.
Stores(t) == {i \in Inbounds : t \in rows[i] \ {i}}

\* Those, what t is about to store, and what is queued on its hold.
Taken(t) == Stores(t) \cup ToSet(work[t]) \cup (IF Holds(t) THEN ToSet(queue[Conv[t]]) ELSE {})

\* What the lane's counter allows them to be.
Allowed(t) == IF Holds(t) THEN accepted[Conv[t]] ELSE MaxInjections

CapInv ==
    \A t \in Tasks :
        /\ IsFiniteSet(Taken(t)) /\ Cardinality(Taken(t)) <= Allowed(t)
        /\ pc[t] \in Unbegun => Stores(t) = {}

LEMMA AllowedType ==
    ASSUME Typed, NEW t \in Tasks
    PROVE  Allowed(t) \in Nat /\ Allowed(t) <= MaxInjections
BY ConvType, LaneAssumption DEF Allowed, Typed, TypeOK, LaneTypeOK

LEMMA CapInit == Init => CapInv
<1> SUFFICES ASSUME Init, NEW t \in Tasks
             PROVE  /\ IsFiniteSet(Taken(t)) /\ Cardinality(Taken(t)) <= Allowed(t)
                    /\ Stores(t) = {}
  BY DEF CapInv
<1>1. Taken(t) = {} /\ Stores(t) = {}
  BY ConvType, ToSetEmpty DEF Init, Taken, Stores
<1>2. Allowed(t) \in Nat
  BY TypedInit, AllowedType
<1> QED
  BY <1>1, <1>2, FS_EmptySet

\* Taking less, or being allowed more, keeps the cap.
LEMMA CapKeep ==
    ASSUME Typed, Typed', CapInv,
           \A u \in Tasks :
               /\ \/ Taken(u)' \subseteq Taken(u) /\ Allowed(u) <= Allowed(u)'
                  \/ Taken(u)' = {}
               /\ pc'[u] \in Unbegun => Stores(u)' = {}
    PROVE  CapInv'
<1> SUFFICES ASSUME NEW u \in Tasks
             PROVE  IsFiniteSet(Taken(u)') /\ Cardinality(Taken(u)') <= Allowed(u)'
  BY DEF CapInv
<1>0. Allowed(u) \in Nat /\ Allowed(u)' \in Nat
  BY ConvType, LaneAssumption DEF Allowed, Typed, TypeOK, LaneTypeOK
<1>1. CASE Taken(u)' = {}
  BY <1>0, <1>1, FS_EmptySet
<1>2. CASE Taken(u)' \subseteq Taken(u) /\ Allowed(u) <= Allowed(u)'
  <2>1. IsFiniteSet(Taken(u)) /\ Cardinality(Taken(u)) <= Allowed(u)
    BY DEF CapInv
  <2>2. IsFiniteSet(Taken(u)') /\ Cardinality(Taken(u)') <= Cardinality(Taken(u))
    BY <1>2, <2>1, FS_Subset
  <2>3. Cardinality(Taken(u)) \in Nat /\ Cardinality(Taken(u)') \in Nat
    BY <2>1, <2>2, FS_CardinalityType
  <2> QED
    BY <1>0, <1>2, <2>1, <2>2, <2>3
<1> QED
  BY <1>1, <1>2

\* Each lane stays as it is, is given up, or is taken by a task that has not begun; no hold
\* that goes on gains a follow-up or loses count of one.
HoldsMove ==
    \A u \in Tasks :
        \/ /\ Holds(u)' <=> Holds(u)
           /\ queue'[Conv[u]] = queue[Conv[u]] /\ accepted'[Conv[u]] = accepted[Conv[u]]
        \/ ~Holds(u)'
        \/ Holds(u)' /\ pc[u] \in Unbegun /\ queue'[Conv[u]] = <<>>

LEMMA SameHolds ==
    ASSUME UNCHANGED <<holder, queue, accepted>>
    PROVE  HoldsMove
BY DEF HoldsMove, Holds

LEMMA JoinHolds ==
    ASSUME Typed, NEW t \in Tasks, NEW ph, Join(t, ph), pc[t] \in Unbegun
    PROVE  HoldsMove
<1>1. CASE UNCHANGED <<holder, queue, accepted>>
  BY <1>1, SameHolds
<1>2. CASE holder[Conv[t]] = None /\ BeginHold(Conv[t], t, ph)
  BY <1>2, ConvType, LaneAssumption DEF BeginHold, HoldsMove, Holds, Typed, TypeOK, LaneTypeOK
<1> QED
  BY <1>1, <1>2 DEF Join, lane

LEMMA GrantHolds ==
    ASSUME Typed, HoldInv, NEW t \in Tasks, Holds(t), GrantNext(Conv[t])
    PROVE  HoldsMove
<1> DEFINE c == Conv[t]
           w == waiters[c]
<1>0. c \in Convs /\ w \in Seq(Tasks)
  BY ConvType DEF Typed, TypeOK, LaneTypeOK
<1>1. /\ \A d \in Convs \ {c} : holder'[d] = holder[d] /\ queue'[d] = queue[d] /\ accepted'[d] = accepted[d]
      /\ queue'[c] = <<>>
      /\ holder'[c] = IF w = <<>> THEN None ELSE Head(w)
  BY <1>0 DEF GrantNext, BeginHold, Typed, TypeOK, LaneTypeOK
<1>2. w # <<>> => pc[Head(w)] \in Unbegun
  <2> SUFFICES ASSUME w # <<>> PROVE pc[Head(w)] \in Unbegun
    OBVIOUS
  <2>1. Head(w) = w[1] /\ 1 \in DOMAIN w
    BY <1>0, HeadTailProperties, LenProperties, EmptySeq
  <2> QED
    BY <1>0, <2>1 DEF HoldInv, WaitersWait, Queueing, Unbegun
<1> SUFFICES ASSUME NEW u \in Tasks
             PROVE  \/ /\ Holds(u)' <=> Holds(u)
                       /\ queue'[Conv[u]] = queue[Conv[u]] /\ accepted'[Conv[u]] = accepted[Conv[u]]
                    \/ ~Holds(u)'
                    \/ Holds(u)' /\ pc[u] \in Unbegun /\ queue'[Conv[u]] = <<>>
  BY DEF HoldsMove
<1>3. CASE Conv[u] = c
  BY <1>1, <1>2, <1>3, LaneAssumption DEF Holds
<1>4. CASE Conv[u] # c
  BY <1>1, <1>4, ConvType DEF Holds
<1> QED
  BY <1>3, <1>4

\* A step that stores nothing and takes nothing from a queue.
LEMMA CapMove ==
    ASSUME Typed, Typed', FollowInv, CapInv, HoldsMove, UNCHANGED rows,
           \A u \in Tasks : /\ ToSet(work'[u]) \subseteq ToSet(work[u])
                            /\ pc'[u] \in Unbegun => pc[u] \in Unbegun
    PROVE  CapInv'
<1> SUFFICES ASSUME NEW u \in Tasks
             PROVE  /\ \/ Taken(u)' \subseteq Taken(u) /\ Allowed(u) <= Allowed(u)'
                       \/ Taken(u)' = {}
                    /\ pc'[u] \in Unbegun => Stores(u)' = {}
  BY CapKeep
<1>0. /\ Stores(u)' = Stores(u) /\ (pc'[u] \in Unbegun => Stores(u)' = {})
      /\ ToSet(work'[u]) \subseteq ToSet(work[u])
      /\ Allowed(u) \in Nat /\ Allowed(u) <= MaxInjections /\ MaxInjections \in Nat
  BY AllowedType, LaneAssumption DEF CapInv, Stores
<1>1. CASE /\ Holds(u)' <=> Holds(u)
           /\ queue'[Conv[u]] = queue[Conv[u]] /\ accepted'[Conv[u]] = accepted[Conv[u]]
  <2>1. Taken(u)' \subseteq Taken(u)
    <3>1. CASE Holds(u)
      BY <1>0, <1>1, <3>1 DEF Taken
    <3>2. CASE ~Holds(u)
      BY <1>0, <1>1, <3>2 DEF Taken
    <3> QED
      BY <3>1, <3>2
  <2>2. Allowed(u)' = Allowed(u)
    BY <1>1 DEF Allowed
  <2> QED
    BY <1>0, <2>1, <2>2
<1>2. CASE ~Holds(u)'
  <2>1. Taken(u)' = Stores(u)' \cup ToSet(work'[u]) /\ Allowed(u)' = MaxInjections
    BY <1>2 DEF Taken, Allowed
  <2> QED
    BY <1>0, <2>1 DEF Taken
<1>3. CASE Holds(u)' /\ pc[u] \in Unbegun /\ queue'[Conv[u]] = <<>>
  <2>1. work[u] = <<>> /\ Stores(u) = {}
    BY <1>3 DEF FollowInv, WorkFits, CapInv, Unbegun
  <2>2. Taken(u)' = Stores(u)' \cup ToSet(work'[u]) \cup ToSet(<<>>)
    BY <1>3 DEF Taken
  <2> QED
    BY <1>0, <2>1, <2>2, ToSetEmpty
<1> QED
  BY <1>1, <1>2, <1>3 DEF HoldsMove

\* One more follow-up is accepted, and counted.
LEMMA CapInject ==
    ASSUME Typed, Typed', HoldInv, CapInv, NEW i \in Inbounds, Inject(i)
    PROVE  CapInv'
<1> DEFINE c == Conv[i]
<1>0. c \in Convs /\ queue[c] \in Seq(Inbounds)
  BY InboundIsTask, ConvType DEF Typed, TypeOK, LaneTypeOK
<1>1. /\ \A d \in Convs : queue'[d] = IF d = c THEN Append(queue[c], i) ELSE queue[d]
      /\ \A d \in Convs : accepted'[d] = IF d = c THEN accepted[c] + 1 ELSE accepted[d]
      /\ UNCHANGED <<holder, work, rows, pc>>
  BY <1>0 DEF Inject, Typed, TypeOK, LaneTypeOK, turns, memory
<1>2. ToSet(Append(queue[c], i)) = ToSet(queue[c]) \cup {i}
  BY <1>0, ToSetAppend
<1> SUFFICES ASSUME NEW u \in Tasks
             PROVE  /\ IsFiniteSet(Taken(u)') /\ Cardinality(Taken(u)') <= Allowed(u)'
                    /\ pc'[u] \in Unbegun => Stores(u)' = {}
  BY DEF CapInv
<1>3. IsFiniteSet(Taken(u)) /\ Cardinality(Taken(u)) <= Allowed(u) /\ Allowed(u) \in Nat
  BY AllowedType DEF CapInv
<1>4. Stores(u)' = Stores(u) /\ (Holds(u)' <=> Holds(u)) /\ (pc'[u] \in Unbegun => Stores(u)' = {})
  BY <1>1 DEF CapInv, Stores, Holds
<1>5. CASE Holds(u) /\ Conv[u] = c
  <2>1. Taken(u)' = Taken(u) \cup {i}
    <3>1. Taken(u) = Stores(u) \cup ToSet(work[u]) \cup ToSet(queue[c])
      BY <1>5 DEF Taken
    <3>2. Taken(u)' = Stores(u)' \cup ToSet(work'[u]) \cup ToSet(queue'[c])
      BY <1>4, <1>5 DEF Taken
    <3>3. ToSet(queue'[c]) = ToSet(queue[c]) \cup {i} /\ work'[u] = work[u]
      BY <1>0, <1>1, <1>2
    <3> QED
      BY <1>4, <3>1, <3>2, <3>3
  <2>2. Allowed(u)' = Allowed(u) + 1
    BY <1>0, <1>1, <1>4, <1>5 DEF Allowed
  <2>3. /\ IsFiniteSet(Taken(u) \cup {i}) /\ Cardinality(Taken(u)) \in Nat
        /\ Cardinality(Taken(u) \cup {i}) \in Nat
        /\ Cardinality(Taken(u) \cup {i}) <= Cardinality(Taken(u)) + 1
    <3>1. IsFiniteSet(Taken(u) \cup {i}) /\ Cardinality(Taken(u)) \in Nat
      BY <1>3, FS_CardinalityType, FS_AddElement
    <3>2. Cardinality(Taken(u) \cup {i}) \in Nat
      BY <3>1, FS_CardinalityType
    <3> QED
      BY <1>3, <3>1, <3>2, FS_AddElement
  <2> QED
    BY <1>3, <1>4, <2>1, <2>2, <2>3
<1>6. CASE ~(Holds(u) /\ Conv[u] = c)
  <2>1. Taken(u)' = Taken(u) /\ Allowed(u)' = Allowed(u)
    <3>1. CASE ~Holds(u)
      BY <1>1, <1>4, <3>1 DEF Taken, Allowed
    <3>2. CASE Holds(u)
      <4>1. queue'[Conv[u]] = queue[Conv[u]] /\ accepted'[Conv[u]] = accepted[Conv[u]]
        BY <1>1, <1>6, <3>2, ConvType
      <4> QED
        BY <1>1, <1>4, <3>2, <4>1 DEF Taken, Allowed
    <3> QED
      BY <3>1, <3>2
  <2> QED
    BY <1>3, <1>4, <2>1
<1> QED
  BY <1>5, <1>6

\* What is taken from the queue was counted when it was accepted.
LEMMA CapTake ==
    ASSUME Typed, Typed', FollowInv, CapInv, NEW t \in Tasks, TakeQueued(t)
    PROVE  CapInv'
<1> DEFINE c == Conv[t]
<1>0. c \in Convs /\ Holds(t) /\ pc[t] = "running"
  BY ConvType DEF TakeQueued
<1>1. /\ \A u \in Tasks : pc'[u] = IF u = t THEN "draining" ELSE pc[u]
      /\ \A u \in Tasks : work'[u] = IF u = t THEN queue[c] ELSE work[u]
      /\ \A d \in Convs : queue'[d] = IF d = c THEN <<>> ELSE queue[d]
      /\ UNCHANGED <<holder, accepted, rows>>
  BY <1>0 DEF TakeQueued, Typed, TypeOK, LaneTypeOK, TurnTypeOK, memory
<1> SUFFICES ASSUME NEW u \in Tasks
             PROVE  /\ Taken(u)' \subseteq Taken(u) /\ Allowed(u) <= Allowed(u)'
                    /\ pc'[u] \in Unbegun => Stores(u)' = {}
  BY CapKeep
<1>2. Stores(u)' = Stores(u) /\ (Holds(u)' <=> Holds(u)) /\ (pc'[u] \in Unbegun => Stores(u)' = {})
  BY <1>1 DEF CapInv, Stores, Holds, Unbegun
<1>3. Allowed(u)' = Allowed(u) /\ Allowed(u) \in Nat
  BY <1>1, <1>2, AllowedType DEF Allowed
<1>4. CASE u = t
  BY <1>0, <1>1, <1>2, <1>3, <1>4, ToSetEmpty DEF Taken
<1>5. CASE u # t
  <2>1. Holds(u) => Conv[u] # c
    BY <1>0, <1>5 DEF Holds
  <2>2. Taken(u)' = Taken(u)
    <3>1. CASE Holds(u)
      BY <1>1, <1>2, <1>5, <2>1, <3>1, ConvType DEF Taken
    <3>2. CASE ~Holds(u)
      BY <1>1, <1>2, <1>5, <3>2 DEF Taken
    <3> QED
      BY <3>1, <3>2
  <2> QED
    BY <1>2, <1>3, <2>2
<1> QED
  BY <1>4, <1>5

\* What is stored was taken.
LEMMA CapStore ==
    ASSUME Typed, Typed', CapInv, NEW t \in Tasks, StoreFollowUp(t)
    PROVE  CapInv'
<1> DEFINE h == Head(work[t])
<1>0. work[t] \in Seq(Inbounds) /\ work[t] # <<>> /\ pc[t] = "draining"
  BY DEF StoreFollowUp, Typed, DrainingHasWork, TypeOK, TurnTypeOK
<1>1. h \in ToSet(work[t]) /\ h \in Inbounds
  BY <1>0, ToSetHeadTail, HeadTailProperties
<1>2. /\ \A i \in Inbounds : rows'[i] = IF i = h THEN rows[i] \cup {t} ELSE rows[i]
      /\ UNCHANGED <<holder, queue, accepted, work, pc>>
  BY <1>1 DEF StoreFollowUp, Typed, TypeOK, MemoryTypeOK, lane, turns
<1> HIDE DEF h
<1> SUFFICES ASSUME NEW u \in Tasks
             PROVE  /\ Taken(u)' \subseteq Taken(u) /\ Allowed(u) <= Allowed(u)'
                    /\ pc'[u] \in Unbegun => Stores(u)' = {}
  BY CapKeep
<1>3. Stores(u)' \subseteq Stores(u) \cup (IF u = t THEN {h} ELSE {})
  BY <1>2 DEF Stores
<1>4. Taken(u)' \subseteq Taken(u)
  <2>1. Taken(u)' \subseteq Stores(u)' \cup Taken(u)
    BY <1>2 DEF Taken, Holds
  <2>2. Stores(u)' \subseteq Taken(u)
    BY <1>1, <1>3 DEF Taken
  <2> QED
    BY <2>1, <2>2
<1>5. Allowed(u)' = Allowed(u) /\ Allowed(u) \in Nat
  BY <1>2, AllowedType DEF Allowed, Holds
<1>6. pc'[u] \in Unbegun => Stores(u)' = {}
  BY <1>0, <1>2, <1>3 DEF CapInv, Unbegun
<1> QED
  BY <1>4, <1>5, <1>6

\* A turn's own row is not a follow-up.
LEMMA CapBegin ==
    ASSUME Typed, Typed', CapInv, NEW t \in Tasks, Begin(t)
    PROVE  CapInv'
<1>1. /\ \A u \in Tasks : pc'[u] = IF u = t THEN "running" ELSE pc[u]
      /\ \A i \in Inbounds : rows'[i] = IF i = t THEN rows[i] \cup {t} ELSE rows[i]
      /\ UNCHANGED <<holder, queue, accepted, work>>
  BY DEF Begin, Typed, TypeOK, lane, turns
<1> SUFFICES ASSUME NEW u \in Tasks
             PROVE  /\ Taken(u)' \subseteq Taken(u) /\ Allowed(u) <= Allowed(u)'
                    /\ pc'[u] \in Unbegun => Stores(u)' = {}
  BY CapKeep
<1>2. Stores(u)' = Stores(u)
  BY <1>1 DEF Stores
<1>3. Taken(u)' = Taken(u) /\ Allowed(u)' = Allowed(u) /\ Allowed(u) \in Nat
  BY <1>1, <1>2, AllowedType DEF Taken, Allowed, Holds
<1> QED
  BY <1>1, <1>2, <1>3 DEF CapInv, Unbegun

LEMMA CapRoute ==
    ASSUME Typed, Typed', HoldInv, FollowInv, CapInv, NEW i \in Inbounds,
           Inject(i) \/ RouteOwnTask(i) \/ Route(i)
    PROVE  CapInv'
<1>0. i \in Tasks
  BY InboundIsTask
<1> USE DEF Unbegun
<1>1. CASE Inject(i)
  BY <1>1, CapInject
<1>2. CASE RouteOwnTask(i) \/ RouteReturned(i)
  <2>1. CreateTask(i) /\ pc[i] = "none"
    BY <1>2 DEF RouteOwnTask, RouteReturned
  <2>2. HoldsMove
    BY <1>0, <2>1, JoinHolds DEF CreateTask
  <2>3. UNCHANGED <<rows, work>> /\ \A u \in Tasks : pc'[u] \in Unbegun => pc[u] \in Unbegun
    BY <2>1 DEF CreateTask, turns, memory, Typed, TypeOK
  <2> QED
    BY <2>2, <2>3, CapMove
<1>3. CASE RouteDrained(i)
  BY <1>3, SameHolds, CapMove DEF RouteDrained, lane, turns, memory
<1>4. CASE PublishTask(i)
  <2>1. HoldsMove
    BY <1>0, <1>4, JoinHolds DEF PublishTask
  <2>2. UNCHANGED <<rows, work>> /\ \A u \in Tasks : pc'[u] \in Unbegun => pc[u] \in Unbegun
    BY <1>4 DEF PublishTask, turns, memory, Typed, TypeOK
  <2> QED
    BY <2>1, <2>2, CapMove
<1>5. CASE PublishTaskFails(i)
  <2>1. HoldsMove
    BY <1>0, <1>5, GrantHolds, SameHolds DEF PublishTaskFails, Release
  <2>2. UNCHANGED <<rows, work>> /\ \A u \in Tasks : pc'[u] \in Unbegun => pc[u] \in Unbegun
    BY <1>5 DEF PublishTaskFails, turns, memory, Typed, TypeOK
  <2> QED
    BY <2>1, <2>2, CapMove
<1> QED
  BY <1>1, <1>2, <1>3, <1>4, <1>5 DEF Route

LEMMA CapTurn ==
    ASSUME Typed, Typed', HoldInv, FollowInv, CapInv, NEW t \in Tasks, Turn(t)
    PROVE  CapInv'
<1>1. CASE Begin(t)
  BY <1>1, CapBegin
<1>2. CASE TakeQueued(t)
  BY <1>2, CapTake
<1>3. CASE StoreFollowUp(t)
  BY <1>3, CapStore
<1>4. CASE AuditFollowUp(t) \/ AuditFollowUpFails(t) \/ StoreFollowUpFails(t)
  <2>1. work[t] \in Seq(Inbounds) /\ work[t] # <<>> /\ pc[t] = "draining"
    BY <1>4
    DEF AuditFollowUp, AuditFollowUpFails, StoreFollowUpFails, Typed, DrainingHasWork, TypeOK,
        TurnTypeOK
  <2>2. UNCHANGED <<holder, queue, accepted, rows>>
    BY <1>4 DEF AuditFollowUp, AuditFollowUpFails, StoreFollowUpFails, lane, memory
  <2>3. \A u \in Tasks : work'[u] \in {work[u], <<>>} \/ (u = t /\ work'[u] = Tail(work[t]))
    BY <1>4 DEF AuditFollowUp, AuditFollowUpFails, StoreFollowUpFails, NextFollowUp, Typed, TypeOK,
                TurnTypeOK
  <2>4. \A u \in Tasks : ToSet(work'[u]) \subseteq ToSet(work[u])
    BY <2>1, <2>3, ToSetHeadTail, ToSetEmpty
  <2>5. \A u \in Tasks : pc'[u] \in Unbegun => pc[u] \in Unbegun
    BY <1>4 DEF AuditFollowUp, AuditFollowUpFails, StoreFollowUpFails, NextFollowUp, Typed, TypeOK,
                Unbegun
  <2> QED
    BY <2>2, <2>4, <2>5, SameHolds, CapMove
<1>5. CASE Respond(t) \/ Finally(t)
  <2>1. HoldsMove
    <3>1. CASE Holds(t)
      BY <1>5, <3>1, GrantHolds DEF Respond, Finally, Release
    <3>2. CASE ~Holds(t)
      BY <1>5, <3>2, SameHolds DEF Respond, Finally, Release, lane
    <3> QED
      BY <3>1, <3>2
  <2>2. UNCHANGED <<rows, work>> /\ \A u \in Tasks : pc'[u] \in Unbegun => pc[u] \in Unbegun
    BY <1>5 DEF Respond, Finally, turns, memory, Typed, TypeOK, Unbegun
  <2> QED
    BY <2>1, <2>2, CapMove
<1>6. CASE \/ BeginFails(t) \/ Finish(t) \/ StopEarly(t) \/ PersistReply(t)
           \/ PersistReplyFails(t) \/ FlushAudit(t) \/ EndTask(t)
  <2> USE DEF BeginFails, Finish, StopEarly, PersistReply, PersistReplyFails, FlushAudit, EndTask
  <2>1. UNCHANGED <<holder, queue, accepted, rows, work>>
    BY <1>6 DEF lane, turns, memory
  <2>2. \A u \in Tasks : pc'[u] \in Unbegun => pc[u] \in Unbegun
    BY <1>6 DEF Typed, TypeOK, Unbegun
  <2> QED
    BY <2>1, <2>2, SameHolds, CapMove
<1> QED
  BY <1>1, <1>2, <1>3, <1>4, <1>5, <1>6 DEF Turn, Drain

LEMMA CapStep ==
    ASSUME Typed, Typed', HoldInv, FollowInv, CapInv, [Next]_vars
    PROVE  CapInv'
<1>1. CASE UNCHANGED vars
  BY <1>1, SameHolds, CapMove DEF vars, lane, turns, memory
<1>2. ASSUME NEW w \in Wakes, PublishWake(w) PROVE CapInv'
  <2>1. HoldsMove
    BY <1>2, InboundIsTask, JoinHolds DEF PublishWake, Unbegun
  <2>2. UNCHANGED <<rows, work>> /\ \A u \in Tasks : pc'[u] \in Unbegun => pc[u] \in Unbegun
    BY <1>2 DEF PublishWake, turns, memory, Typed, TypeOK, Unbegun
  <2> QED
    BY <2>1, <2>2, CapMove
<1>3. ASSUME NEW t \in Tasks, NEW r \in Rewrites, PublishRewrite(t, r) PROVE CapInv'
  <2>1. HoldsMove
    BY <1>3, InboundIsTask, JoinHolds DEF PublishRewrite, Unbegun
  <2>2. UNCHANGED <<rows, work>> /\ \A u \in Tasks : pc'[u] \in Unbegun => pc[u] \in Unbegun
    BY <1>3 DEF PublishRewrite, memory, Typed, TypeOK, Unbegun
  <2> QED
    BY <2>1, <2>2, CapMove
<1>4. ASSUME NEW t \in Tasks, FailOpen(t) PROVE CapInv'
  BY <1>4, SameHolds, CapMove DEF FailOpen, memory
<1> QED
  BY <1>1, <1>2, <1>3, <1>4, CapRoute, CapTurn DEF Next

\* The input signal follows the queue through every step.
LEMMA SignalStep ==
    ASSUME Typed, SignalMeansQueued, [Next]_vars
    PROVE  SignalMeansQueued'
<1> USE DEF SignalMeansQueued
<1>1. CASE UNCHANGED <<queue, aborted>>
  BY <1>1
<1>2. ASSUME NEW t \in Tasks, NEW ph, Join(t, ph) PROVE SignalMeansQueued'
  BY <1>2, ConvType DEF Join, BeginHold, lane, Typed, TypeOK, LaneTypeOK
<1>3. ASSUME NEW c \in Convs, GrantNext(c) PROVE SignalMeansQueued'
  BY <1>3 DEF GrantNext, BeginHold, Typed, TypeOK, LaneTypeOK
<1>4. ASSUME NEW t \in Tasks, Release(t) PROVE SignalMeansQueued'
  BY <1>1, <1>3, <1>4, ConvType DEF Release, lane
<1>5. ASSUME NEW i \in Inbounds, Inject(i) \/ RouteOwnTask(i) \/ Route(i) PROVE SignalMeansQueued'
  <2>1. CASE Inject(i)
    <3>1. Conv[i] \in Convs /\ queue[Conv[i]] \in Seq(Inbounds)
      BY InboundIsTask, ConvType DEF Typed, TypeOK, LaneTypeOK
    <3>2. Append(queue[Conv[i]], i) # <<>>
      BY <3>1, AppendProperties
    <3> QED
      BY <2>1, <3>1, <3>2 DEF Inject, Typed, TypeOK, LaneTypeOK
  <2>2. CASE RouteOwnTask(i) \/ RouteReturned(i) \/ PublishTask(i)
    BY <1>2, <2>2, InboundIsTask DEF RouteOwnTask, RouteReturned, CreateTask, PublishTask
  <2>3. CASE RouteDrained(i) \/ PublishTaskFails(i)
    BY <1>1, <1>4, <2>3, InboundIsTask DEF RouteDrained, PublishTaskFails, lane
  <2> QED
    BY <1>5, <2>1, <2>2, <2>3 DEF Route
<1>6. ASSUME NEW t \in Tasks, Turn(t) PROVE SignalMeansQueued'
  <2>1. CASE TakeQueued(t)
    BY <2>1, ConvType DEF TakeQueued, Typed, TypeOK, LaneTypeOK
  <2>2. CASE Respond(t)
    BY <1>4, <2>2 DEF Respond
  <2>3. CASE Finally(t)
    BY <1>1, <1>3, <2>3, ConvType DEF Finally, lane
  <2>4. CASE \/ Begin(t) \/ BeginFails(t) \/ Drain(t) \/ Finish(t) \/ StopEarly(t)
             \/ PersistReply(t) \/ PersistReplyFails(t) \/ FlushAudit(t) \/ EndTask(t)
    BY <1>1, <2>4
    DEF Begin, BeginFails, Drain, StoreFollowUp, StoreFollowUpFails, AuditFollowUp,
        AuditFollowUpFails, Finish, StopEarly, PersistReply, PersistReplyFails, FlushAudit,
        EndTask, lane
  <2> QED
    BY <1>6, <2>1, <2>2, <2>3, <2>4 DEF Turn
<1>7. ASSUME NEW w \in Wakes, PublishWake(w) PROVE SignalMeansQueued'
  BY <1>2, <1>7, InboundIsTask DEF PublishWake
<1>8. ASSUME NEW t \in Tasks, NEW r \in Rewrites, PublishRewrite(t, r) PROVE SignalMeansQueued'
  BY <1>2, <1>8, InboundIsTask DEF PublishRewrite
<1>9. ASSUME NEW t \in Tasks, FailOpen(t) PROVE SignalMeansQueued'
  BY <1>1, <1>9 DEF FailOpen
<1>10. CASE UNCHANGED vars
  BY <1>1, <1>10 DEF vars, lane
<1> QED
  BY <1>5, <1>6, <1>7, <1>8, <1>9, <1>10 DEF Next

\* However often a turn drains its queue, it stores at most maxInjectionsPerTurn follow-ups,
\* and its input signal is raised exactly while one is waiting.
THEOREM LaneRecordKept == Spec => []LaneRecordExact
<1> DEFINE Inv == Typed /\ HoldInv /\ FollowInv /\ CapInv /\ SignalMeansQueued
<1>1. Init => Inv
  BY TypedInit, HoldInit, FollowInit, CapInit DEF Init, SignalMeansQueued
<1>2. Inv /\ [Next]_vars => Inv'
  BY TypedStep, HoldStep, FollowStep, CapStep, SignalStep
<1>3. Inv => LaneRecordExact
  <2> SUFFICES ASSUME Inv, NEW t \in Tasks PROVE Cardinality(Stores(t)) <= MaxInjections
    BY DEF LaneRecordExact, InjectionCap, Stores
  <2>1. IsFiniteSet(Taken(t)) /\ Cardinality(Taken(t)) <= Allowed(t)
    BY DEF CapInv
  <2>2. Stores(t) \subseteq Taken(t)
    BY DEF Taken
  <2>3. IsFiniteSet(Stores(t)) /\ Cardinality(Stores(t)) <= Cardinality(Taken(t))
    BY <2>1, <2>2, FS_Subset
  <2>4. Cardinality(Stores(t)) \in Nat /\ Cardinality(Taken(t)) \in Nat
    BY <2>1, <2>3, FS_CardinalityType
  <2> QED
    BY <2>1, <2>3, <2>4, AllowedType, LaneAssumption
<1> QED
  BY <1>1, <1>2, <1>3, PTL DEF Spec
==============================================================================
