------------------------- MODULE EmailIntakeProofs -------------------------
(***************************************************************************)
(* Proofs about EmailIntake, for every set of mail, every cap and every    *)
(* number of failures, stops and restarts: its types, the use of the slots *)
(* by the per-thread runner, and that a process delivers a message once.   *)
(* For a provider that lists mail in order, pages that are not cut and     *)
(* polls that do not overlap, also that the persisted mark passes only     *)
(* mail that is in the log, skipped, given up, or dropped by a start that  *)
(* had no mark to read, and that the mail of one thread starts oldest      *)
(* first.                                                                  *)
(***************************************************************************)
EXTENDS EmailIntake, FiniteSetTheorems, TLAPS

NoRepeats(s) == \A i, k \in DOMAIN s : s[i] = s[k] => i = k

(***************************************************************************)
(* Sequences.                                                              *)
(***************************************************************************)
LEMMA LeastNatural ==
    ASSUME NEW S \in SUBSET Nat, S # {}
    PROVE  \E m \in S : \A n \in S : m <= n
<1> DEFINE R == OpToRel(<, Nat)
<1>1. PICK m \in S : \A n \in S : ~(<<n, m>> \in R)
  <2> HIDE DEF R
  <2>1. IsWellFoundedOn(R, Nat)
    BY NatLessThanWellFounded DEF R
  <2> QED
    BY <2>1, WFMin
<1>2. \A n \in Nat : n < m => <<n, m>> \in R
  BY DEF OpToRel
<1> HIDE DEF R
<1>3. \A n \in S : n \in Nat /\ m \in Nat /\ ~(n < m)
  BY <1>1, <1>2
<1> QED
  BY <1>3

LEMMA MinType ==
    ASSUME NEW S \in SUBSET Nat, S # {}
    PROVE  Min(S) \in S /\ \A n \in S : Min(S) <= n
BY LeastNatural DEF Min

LEMMA RemoveAtIs ==
    ASSUME NEW T, NEW s \in Seq(T), NEW k \in 1 .. Len(s)
    PROVE  /\ RemoveAt(s, k) \in Seq(T) /\ Len(RemoveAt(s, k)) = Len(s) - 1
           /\ \A i \in 1 .. Len(s) - 1 : RemoveAt(s, k)[i] = IF i < k THEN s[i] ELSE s[i + 1]
<1> DEFINE a == SubSeq(s, 1, k - 1)
           b == SubSeq(s, k + 1, Len(s))
<1>1. /\ a \in Seq(T) /\ Len(a) = k - 1 /\ \A i \in 1 .. k - 1 : a[i] = s[i]
      /\ b \in Seq(T) /\ Len(b) = Len(s) - k /\ \A i \in 1 .. Len(s) - k : b[i] = s[k + i]
  OBVIOUS
<1> HIDE DEF a, b
<1>2. /\ a \o b \in Seq(T) /\ Len(a \o b) = Len(s) - 1
      /\ \A i \in 1 .. Len(s) - 1 : (a \o b)[i] = IF i <= k - 1 THEN a[i] ELSE b[i - (k - 1)]
  BY <1>1
<1>3. \A i \in 1 .. Len(s) - 1 : (a \o b)[i] = IF i < k THEN s[i] ELSE s[i + 1]
  <2> SUFFICES ASSUME NEW i \in 1 .. Len(s) - 1
               PROVE  (a \o b)[i] = IF i < k THEN s[i] ELSE s[i + 1]
    OBVIOUS
  <2>1. CASE i < k
    BY <1>1, <1>2, <2>1
  <2>2. CASE ~(i < k)
    <3>1. i - (k - 1) \in 1 .. Len(s) - k /\ k + (i - (k - 1)) = i + 1 /\ ~(i <= k - 1)
      BY <2>2
    <3> QED
      BY <1>1, <1>2, <2>2, <3>1
  <2> QED
    BY <2>1, <2>2
<1>4. RemoveAt(s, k) = a \o b
  BY DEF RemoveAt, a, b
<1> QED
  BY <1>2, <1>3, <1>4

\* Without takes an entry out and keeps the others.
LEMMA WithoutIs ==
    ASSUME NEW T, NEW s \in Seq(T), NoRepeats(s), NEW x
    PROVE  /\ Without(s, x) \in Seq(T) /\ NoRepeats(Without(s, x))
           /\ ToSet(Without(s, x)) = ToSet(s) \ {x}
<1>1. CASE \E i \in 1 .. Len(s) : s[i] = x
  <2> DEFINE I == {i \in 1 .. Len(s) : s[i] = x}
             k == Min(I)
             w == RemoveAt(s, k)
  <2>1. I # {} /\ I \in SUBSET Nat
    BY <1>1
  <2>2. SelectInSeq(s, LAMBDA v : v = x) = Min(I)
    BY <2>1 DEF SelectInSeq
  <2>3. k \in 1 .. Len(s) /\ s[k] = x
    BY <2>1, MinType
  <2>4. Without(s, x) = w
    BY <1>1, <2>2 DEF Without, RemoveFirst
  <2> HIDE DEF I, k
  <2>5. /\ w \in Seq(T) /\ Len(w) = Len(s) - 1
        /\ \A i \in 1 .. Len(s) - 1 : w[i] = IF i < k THEN s[i] ELSE s[i + 1]
    BY <2>3, RemoveAtIs
  <2> HIDE DEF w
  <2>6. NoRepeats(w)
    <3> SUFFICES ASSUME NEW i \in 1 .. Len(s) - 1, NEW j \in 1 .. Len(s) - 1, w[i] = w[j]
                 PROVE  i = j
      BY <2>5 DEF NoRepeats
    <3>1. \E p, q \in 1 .. Len(s) : /\ p = (IF i < k THEN i ELSE i + 1)
                                    /\ q = (IF j < k THEN j ELSE j + 1) /\ s[p] = s[q]
      BY <2>3, <2>5
    <3>2. (IF i < k THEN i ELSE i + 1) = (IF j < k THEN j ELSE j + 1)
      BY <3>1 DEF NoRepeats
    <3> QED
      BY <2>3, <3>2
  <2>7. \A i \in 1 .. Len(w) : w[i] \in ToSet(s) \ {x}
    <3> SUFFICES ASSUME NEW i \in 1 .. Len(s) - 1 PROVE w[i] \in ToSet(s) \ {x}
      BY <2>5
    <3>1. PICK p \in 1 .. Len(s) : p # k /\ w[i] = s[p]
      BY <2>3, <2>5
    <3> QED
      BY <2>3, <3>1 DEF NoRepeats, ToSet
  <2>8. \A p \in 1 .. Len(s) : s[p] # x => \E i \in 1 .. Len(w) : w[i] = s[p]
    <3> SUFFICES ASSUME NEW p \in 1 .. Len(s), s[p] # x
                 PROVE  \E i \in 1 .. Len(w) : w[i] = s[p]
      OBVIOUS
    <3>1. CASE p < k
      BY <2>3, <2>5, <3>1
    <3>2. CASE p > k
      <4>1. p - 1 \in 1 .. Len(s) - 1 /\ ~(p - 1 < k) /\ (p - 1) + 1 = p
        BY <2>3, <3>2
      <4>2. w[p - 1] = s[p] /\ p - 1 \in 1 .. Len(w)
        BY <2>5, <4>1
      <4> QED
        BY <4>2
    <3> QED
      BY <2>3, <3>1, <3>2
  <2>9. ToSet(w) = ToSet(s) \ {x}
    <3>1. ToSet(w) \subseteq ToSet(s) \ {x}
      <4> SUFFICES ASSUME NEW i \in 1 .. Len(w) PROVE w[i] \in ToSet(s) \ {x}
        BY <2>5 DEF ToSet
      <4> QED
        BY <2>7
    <3>2. ToSet(s) \ {x} \subseteq ToSet(w)
      <4> SUFFICES ASSUME NEW p \in 1 .. Len(s), s[p] # x PROVE s[p] \in ToSet(w)
        BY DEF ToSet
      <4> QED
        BY <2>5, <2>8 DEF ToSet
    <3> QED
      BY <3>1, <3>2
  <2> QED
    BY <2>4, <2>5, <2>6, <2>9
<1>2. CASE ~\E i \in 1 .. Len(s) : s[i] = x
  BY <1>2 DEF Without, RemoveFirst, ToSet
<1> QED
  BY <1>1, <1>2

LEMMA AppendIs ==
    ASSUME NEW T, NEW s \in Seq(T), NoRepeats(s), NEW x \in T, x \notin ToSet(s)
    PROVE  /\ Append(s, x) \in Seq(T) /\ Append(s, x) # <<>> /\ NoRepeats(Append(s, x))
           /\ ToSet(Append(s, x)) = ToSet(s) \cup {x}
<1>1. /\ Append(s, x) \in Seq(T) /\ Len(Append(s, x)) = Len(s) + 1
      /\ \A i \in 1 .. Len(s) : Append(s, x)[i] = s[i]
      /\ Append(s, x)[Len(s) + 1] = x
  OBVIOUS
<1>2. DOMAIN Append(s, x) = 1 .. Len(s) + 1 /\ DOMAIN s = 1 .. Len(s)
  BY <1>1
<1>3. \A i \in 1 .. Len(s) + 1 : i \in 1 .. Len(s) \/ i = Len(s) + 1
  OBVIOUS
<1>4. \A i \in 1 .. Len(s) : s[i] # x
  BY DEF ToSet
<1>5. NoRepeats(Append(s, x))
  BY <1>1, <1>2, <1>3, <1>4 DEF NoRepeats
<1>6. ToSet(Append(s, x)) = ToSet(s) \cup {x}
  BY <1>1, <1>2, <1>3 DEF ToSet
<1> QED
  BY <1>1, <1>5, <1>6

LEMMA TailIs ==
    ASSUME NEW T, NEW s \in Seq(T), NoRepeats(s), s # <<>>
    PROVE  /\ Tail(s) \in Seq(T) /\ NoRepeats(Tail(s)) /\ Head(s) \in ToSet(s) /\ Head(s) \in T
           /\ ToSet(Tail(s)) = ToSet(s) \ {Head(s)}
<1>1. /\ Tail(s) \in Seq(T) /\ Len(Tail(s)) = Len(s) - 1 /\ Len(s) >= 1 /\ Len(s) \in Nat
      /\ \A i \in 1 .. Len(s) - 1 : Tail(s)[i] = s[i + 1]
      /\ Head(s) = s[1] /\ DOMAIN s = 1 .. Len(s) /\ DOMAIN Tail(s) = 1 .. Len(s) - 1
  OBVIOUS
<1>2. NoRepeats(Tail(s))
  BY <1>1 DEF NoRepeats
<1>3. ToSet(Tail(s)) \subseteq ToSet(s) \ {Head(s)}
  BY <1>1 DEF NoRepeats, ToSet
<1>4. ToSet(s) \ {Head(s)} \subseteq ToSet(Tail(s))
  <2> SUFFICES ASSUME NEW i \in 1 .. Len(s), s[i] # s[1] PROVE s[i] \in ToSet(Tail(s))
    BY <1>1 DEF ToSet
  <2>1. i - 1 \in 1 .. Len(s) - 1 /\ (i - 1) + 1 = i
    BY <1>1
  <2> QED
    BY <1>1, <2>1 DEF ToSet
<1>5. Head(s) \in ToSet(s)
  <2>1. 1 \in DOMAIN s /\ s[1] = Head(s)
    BY <1>1
  <2> QED
    BY <2>1 DEF ToSet
<1>6. Head(s) \in T
  BY <1>1
<1>7. ToSet(Tail(s)) = ToSet(s) \ {Head(s)}
  BY <1>3, <1>4
<1> QED
  BY <1>1, <1>2, <1>5, <1>6, <1>7

(***************************************************************************)
(* The runner.  What a thread has queued is staged and not yet delivered   *)
(* by this process; an owner is a delivery of its thread; threads wait for *)
(* slots only while every slot is taken.                                   *)
(***************************************************************************)
RunnerTypes ==
    /\ pending \in [Threads -> Seq(Mail)] /\ owner \in [Threads -> Mail \cup {None}]
    /\ slots \in Seq(Threads) /\ NoRepeats(slots)
    /\ IsFiniteSet(inFlight) /\ inFlight \subseteq here
    /\ here \subseteq staged /\ here \subseteq begun
    /\ staged \subseteq Mail /\ begun \subseteq Mail

QueuesAreNew ==
    \A th \in Threads : /\ NoRepeats(pending[th])
                        /\ \A m \in ToSet(pending[th]) : m \in staged \ here /\ Thread[m] = th

OwnersInFlight ==
    \A th \in Threads : owner[th] # None => owner[th] \in inFlight /\ Thread[owner[th]] = th

StoppedIsEmpty == ~running => slots = <<>> /\ \A th \in Threads : pending[th] = <<>>

RunnerInv == RunnerTypes /\ QueuesAreNew /\ OwnersInFlight /\ StoppedIsEmpty /\ SlotsWellUsed

LEMMA RunnerFrame ==
    ASSUME RunnerInv, UNCHANGED <<runner, staged, running>>
    PROVE  RunnerInv'
BY DEF RunnerInv, RunnerTypes, QueuesAreNew, OwnersInFlight, StoppedIsEmpty, SlotsWellUsed,
       NoIdleThread, CapHolds, Full, runner

\* Where drainSlotWaiters stops: at a full cap, at the end of the waiters, or with the first
\* waiter that can start.
LEMMA DrainChooses ==
    ASSUME NEW ws \in Seq(Threads), NEW flying, NEW own, DrainSlots(ws, flying, own)
    PROVE  \/ /\ Cardinality(flying) >= MaxTurns
              /\ slots' = ws /\ inFlight' = flying /\ owner' = own
              /\ UNCHANGED <<pending, begun, here>>
           \/ /\ ~(Cardinality(flying) >= MaxTurns)
              /\ \A i \in 1 .. Len(ws) : ~(own[ws[i]] = None /\ pending[ws[i]] # <<>>)
              /\ slots' = <<>> /\ inFlight' = flying /\ owner' = own
              /\ UNCHANGED <<pending, begun, here>>
           \/ /\ ~(Cardinality(flying) >= MaxTurns)
              /\ \E k \in 1 .. Len(ws) :
                   /\ own[ws[k]] = None /\ pending[ws[k]] # <<>>
                   /\ \A i \in 1 .. k - 1 : ~(own[ws[i]] = None /\ pending[ws[i]] # <<>>)
                   /\ slots' = Without(SubSeq(ws, k + 1, Len(ws)), ws[k])
                   /\ owner' = [own EXCEPT ![ws[k]] = Head(pending[ws[k]])]
                   /\ pending' = [pending EXCEPT ![ws[k]] = Tail(@)]
                   /\ inFlight' = flying \cup {Head(pending[ws[k]])}
                   /\ begun' = begun \cup {Head(pending[ws[k]])}
                   /\ here' = here \cup {Head(pending[ws[k]])}
<1> DEFINE I == {i \in 1 .. Len(ws) : own[ws[i]] = None /\ pending[ws[i]] # <<>>}
           first == IF I # {} THEN Min(I) ELSE 0
<1>1. IF Cardinality(flying) >= MaxTurns \/ first = 0
      THEN /\ slots' = IF Cardinality(flying) >= MaxTurns THEN ws ELSE <<>>
           /\ inFlight' = flying /\ owner' = own
           /\ UNCHANGED <<pending, begun, here>>
      ELSE /\ slots' = Without(SubSeq(ws, first + 1, Len(ws)), ws[first])
           /\ owner' = [own EXCEPT ![ws[first]] = Head(pending[ws[first]])]
           /\ pending' = [pending EXCEPT ![ws[first]] = Tail(@)]
           /\ inFlight' = flying \cup {Head(pending[ws[first]])}
           /\ begun' = begun \cup {Head(pending[ws[first]])}
           /\ here' = here \cup {Head(pending[ws[first]])}
  BY DEF DrainSlots, SelectInSeq
<1>2. I \in SUBSET Nat
  OBVIOUS
<1>3. I = {} => first = 0
  OBVIOUS
<1>4. I # {} => first \in I /\ \A i \in I : first <= i
  BY <1>2, MinType
<1> HIDE DEF first
<1>5. CASE I = {}
  BY <1>1, <1>3, <1>5
<1>6. CASE I # {}
  <2>1. first \in 1 .. Len(ws) /\ own[ws[first]] = None /\ pending[ws[first]] # <<>>
    BY <1>4, <1>6
  <2>2. first # 0
    BY <2>1
  <2>3. \A i \in 1 .. first - 1 : ~(own[ws[i]] = None /\ pending[ws[i]] # <<>>)
    <3> SUFFICES ASSUME NEW i \in 1 .. first - 1, i \in I PROVE FALSE
      BY <2>1
    <3> QED
      BY <1>4, <1>6, <2>1
  <2> QED
    BY <1>1, <2>1, <2>2, <2>3
<1> QED
  BY <1>5, <1>6

LEMMA SlotCounts ==
    ASSUME NEW flying \in SUBSET Mail, IsFiniteSet(flying)
    PROVE  /\ Cardinality(flying) \in Nat /\ MaxTurns \in Nat \ {0}
           /\ \A m \in Mail : /\ IsFiniteSet(flying \cup {m})
                              /\ m \notin flying => Cardinality(flying \cup {m}) = Cardinality(flying) + 1
BY FS_CardinalityType, FS_AddElement, EmailAssumption

LEMMA FromIs ==
    ASSUME NEW T, NEW s \in Seq(T), NoRepeats(s), NEW k \in 1 .. Len(s)
    PROVE  LET r == SubSeq(s, k + 1, Len(s)) IN
           /\ r \in Seq(T) /\ NoRepeats(r) /\ Len(r) = Len(s) - k
           /\ \A i \in k + 1 .. Len(s) : s[i] \in ToSet(r)
<1> DEFINE r == SubSeq(s, k + 1, Len(s))
<1>1. r \in Seq(T) /\ Len(r) = Len(s) - k /\ \A i \in 1 .. Len(s) - k : r[i] = s[k + i]
  OBVIOUS
<1>2. Len(s) \in Nat /\ DOMAIN s = 1 .. Len(s)
  OBVIOUS
<1> HIDE DEF r
<1>3. NoRepeats(r)
  <2> SUFFICES ASSUME NEW i \in 1 .. Len(s) - k, NEW j \in 1 .. Len(s) - k, r[i] = r[j]
               PROVE  i = j
    BY <1>1 DEF NoRepeats
  <2>1. k + i \in DOMAIN s /\ k + j \in DOMAIN s /\ s[k + i] = s[k + j]
    BY <1>1, <1>2
  <2> QED
    BY <2>1 DEF NoRepeats
<1>4. \A i \in k + 1 .. Len(s) : s[i] \in ToSet(r)
  <2> SUFFICES ASSUME NEW i \in k + 1 .. Len(s) PROVE s[i] \in ToSet(r)
    OBVIOUS
  <2>1. i - k \in 1 .. Len(s) - k /\ k + (i - k) = i
    BY <1>2
  <2>2. i - k \in DOMAIN r /\ r[i - k] = s[i]
    BY <1>1, <2>1
  <2> QED
    BY <2>2 DEF ToSet
<1> QED
  BY <1>1, <1>3, <1>4 DEF r

\* drainSlotWaiters: after a delivery or an intake has settled, one thread that waits starts.
LEMMA DrainKeeps ==
    ASSUME RunnerInv, running, UNCHANGED <<staged, running>>,
           NEW ws \in Seq(Threads), NoRepeats(ws),
           NEW flying \in SUBSET inFlight, Cardinality(flying) <= MaxTurns,
           NEW own \in [Threads -> Mail \cup {None}],
           \A th \in Threads : own[th] # None => own[th] \in flying /\ Thread[own[th]] = th,
           \A th \in Threads : pending[th] # <<>> /\ own[th] = None => th \in ToSet(ws),
           Len(ws) >= 2 => Cardinality(flying) + 1 >= MaxTurns,
           DrainSlots(ws, flying, own)
    PROVE  RunnerInv' /\ (inFlight' \ inFlight) \cap here = {}
<1>1. IsFiniteSet(flying) /\ flying \in SUBSET Mail
  BY FS_Subset DEF RunnerInv, RunnerTypes
<1>2. /\ Cardinality(flying) \in Nat /\ MaxTurns \in Nat \ {0}
      /\ \A m \in Mail : /\ IsFiniteSet(flying \cup {m})
                         /\ m \notin flying => Cardinality(flying \cup {m}) = Cardinality(flying) + 1
  BY <1>1, SlotCounts
<1>3. CASE /\ Cardinality(flying) >= MaxTurns
           /\ slots' = ws /\ inFlight' = flying /\ owner' = own
           /\ UNCHANGED <<pending, begun, here>>
  BY <1>1, <1>3 DEF RunnerInv, RunnerTypes, QueuesAreNew, OwnersInFlight, StoppedIsEmpty,
       SlotsWellUsed, NoIdleThread, CapHolds, Full
<1>4. CASE /\ ~(Cardinality(flying) >= MaxTurns)
           /\ \A i \in 1 .. Len(ws) : ~(own[ws[i]] = None /\ pending[ws[i]] # <<>>)
           /\ slots' = <<>> /\ inFlight' = flying /\ owner' = own
           /\ UNCHANGED <<pending, begun, here>>
  <2>1. \A th \in Threads : ~(own[th] = None /\ pending[th] # <<>>)
    BY <1>4 DEF ToSet
  <2>2. <<>> \in Seq(Threads) /\ NoRepeats(<<>>)
    BY DEF NoRepeats
  <2> QED
    BY <1>1, <1>4, <2>1, <2>2 DEF RunnerInv, RunnerTypes, QueuesAreNew, OwnersInFlight,
         StoppedIsEmpty, SlotsWellUsed, NoIdleThread, CapHolds, Full
<1>5. ASSUME ~(Cardinality(flying) >= MaxTurns), NEW k \in 1 .. Len(ws), NEW th, th = ws[k],
             NEW q, q = pending[th], NEW m, m = Head(q),
             own[th] = None, q # <<>>,
             \A i \in 1 .. k - 1 : ~(own[ws[i]] = None /\ pending[ws[i]] # <<>>),
             slots' = Without(SubSeq(ws, k + 1, Len(ws)), th),
             owner' = [own EXCEPT ![th] = m],
             pending' = [pending EXCEPT ![th] = Tail(q)],
             inFlight' = flying \cup {m}, begun' = begun \cup {m}, here' = here \cup {m}
      PROVE  RunnerInv' /\ (inFlight' \ inFlight) \cap here = {}
  <2>1. th \in Threads
    BY <1>5
  <2>2. /\ Tail(q) \in Seq(Mail) /\ NoRepeats(Tail(q)) /\ m \in ToSet(q) /\ m \in Mail
        /\ ToSet(Tail(q)) = ToSet(q) \ {m}
    <3>1. q \in Seq(Mail) /\ NoRepeats(q)
      BY <1>5, <2>1 DEF RunnerInv, RunnerTypes, QueuesAreNew
    <3> QED
      BY <1>5, <3>1, TailIs
  <2>3. m \in staged \ here /\ Thread[m] = th /\ m # None /\ m \notin flying
    BY <1>5, <2>1, <2>2, EmailAssumption DEF RunnerInv, RunnerTypes, QueuesAreNew
  <2> DEFINE r == SubSeq(ws, k + 1, Len(ws))
  <2>4. /\ r \in Seq(Threads) /\ NoRepeats(r) /\ Len(r) = Len(ws) - k
        /\ \A i \in k + 1 .. Len(ws) : ws[i] \in ToSet(r)
    BY <1>5, FromIs
  <2> HIDE DEF r
  <2>5. slots' \in Seq(Threads) /\ NoRepeats(slots') /\ ToSet(slots') = ToSet(r) \ {th}
    <3>1. slots' = Without(r, th)
      BY <1>5 DEF r
    <3>2. /\ Without(r, th) \in Seq(Threads) /\ NoRepeats(Without(r, th))
          /\ ToSet(Without(r, th)) = ToSet(r) \ {th}
      BY <2>4, WithoutIs
    <3> QED
      BY <3>1, <3>2
  <2>6. RunnerTypes'
    BY <1>1, <1>2, <1>5, <2>1, <2>2, <2>3, <2>5 DEF RunnerInv, RunnerTypes
  <2>7. QueuesAreNew'
    <3> SUFFICES ASSUME NEW t \in Threads
                 PROVE  /\ NoRepeats(pending'[t])
                        /\ \A x \in ToSet(pending'[t]) : x \in staged' \ here' /\ Thread[x] = t
      BY DEF QueuesAreNew, NoRepeats
    <3>1. /\ NoRepeats(pending[t])
          /\ \A x \in ToSet(pending[t]) : x \in staged \ here /\ Thread[x] = t
      BY DEF RunnerInv, QueuesAreNew
    <3>2. CASE t = th
      <4>1. pending'[t] = Tail(q)
        BY <1>5, <2>1, <3>2 DEF RunnerInv, RunnerTypes
      <4> QED
        BY <1>5, <2>2, <3>1, <3>2, <4>1
    <3>3. CASE t # th
      <4>1. pending'[t] = pending[t]
        BY <1>5, <3>3 DEF RunnerInv, RunnerTypes
      <4> QED
        BY <1>5, <2>3, <3>1, <3>3, <4>1
    <3> QED
      BY <3>2, <3>3
  <2>8. OwnersInFlight'
    BY <1>5, <2>3 DEF OwnersInFlight
  <2>9. StoppedIsEmpty'
    BY DEF StoppedIsEmpty
  <2>10. \A t \in Threads : pending'[t] # <<>> /\ owner'[t] = None => t \in ToSet(slots')
    <3> SUFFICES ASSUME NEW t \in Threads, pending'[t] # <<>>, owner'[t] = None
                 PROVE  t \in ToSet(slots')
      OBVIOUS
    <3>1. t # th
      BY <1>5, <2>1, <2>3
    <3>2. pending[t] # <<>> /\ own[t] = None
      BY <1>5, <3>1 DEF RunnerInv, RunnerTypes
    <3>3. PICK i \in 1 .. Len(ws) : ws[i] = t
      BY <3>2 DEF ToSet
    <3>4. ~(i \in 1 .. k - 1) /\ i # k
      BY <1>5, <3>1, <3>2, <3>3
    <3>5. i \in k + 1 .. Len(ws)
      BY <1>5, <3>3, <3>4
    <3> QED
      BY <2>4, <2>5, <3>1, <3>3, <3>5
  <2>11. (\E t : t \in ToSet(slots')) => Len(ws) >= 2
    <3> SUFFICES ASSUME NEW t, t \in ToSet(r) PROVE Len(ws) >= 2
      BY <2>5
    <3>1. Len(r) >= 1
      BY <2>4 DEF ToSet
    <3> QED
      BY <1>5, <2>4, <3>1
  <2>12. Cardinality(inFlight') = Cardinality(flying) + 1
    BY <1>2, <1>5, <2>2, <2>3
  <2>13. slots' # <<>> => \E t : t \in ToSet(slots')
    <3> SUFFICES ASSUME slots' # <<>> PROVE \E t : t \in ToSet(slots')
      OBVIOUS
    <3>1. Head(slots') \in ToSet(slots')
      BY <2>5, TailIs
    <3> QED
      BY <3>1
  <2>14. CapHolds' /\ NoIdleThread'
    <3>1. slots' # <<>> => Cardinality(inFlight') >= MaxTurns
      BY <1>2, <2>11, <2>12, <2>13
    <3>2. Cardinality(inFlight') <= MaxTurns
      BY <1>2, <1>5, <2>12
    <3>3. \A t \in Threads : t \in ToSet(slots') => slots' # <<>>
      BY DEF ToSet
    <3>4. NoIdleThread'
      BY <2>10, <3>1, <3>3 DEF NoIdleThread, Full
    <3>5. CapHolds'
      BY <3>1, <3>2 DEF CapHolds, Full
    <3> QED
      BY <3>4, <3>5
  <2> QED
    BY <1>5, <2>3, <2>6, <2>7, <2>8, <2>9, <2>14 DEF RunnerInv, SlotsWellUsed
<1> HIDE DEF DrainSlots
<1>6. CASE /\ ~(Cardinality(flying) >= MaxTurns)
           /\ \E k \in 1 .. Len(ws) :
                /\ own[ws[k]] = None /\ pending[ws[k]] # <<>>
                /\ \A i \in 1 .. k - 1 : ~(own[ws[i]] = None /\ pending[ws[i]] # <<>>)
                /\ slots' = Without(SubSeq(ws, k + 1, Len(ws)), ws[k])
                /\ owner' = [own EXCEPT ![ws[k]] = Head(pending[ws[k]])]
                /\ pending' = [pending EXCEPT ![ws[k]] = Tail(@)]
                /\ inFlight' = flying \cup {Head(pending[ws[k]])}
                /\ begun' = begun \cup {Head(pending[ws[k]])}
                /\ here' = here \cup {Head(pending[ws[k]])}
  <2>1. PICK k \in 1 .. Len(ws) :
                /\ own[ws[k]] = None /\ pending[ws[k]] # <<>>
                /\ \A i \in 1 .. k - 1 : ~(own[ws[i]] = None /\ pending[ws[i]] # <<>>)
                /\ slots' = Without(SubSeq(ws, k + 1, Len(ws)), ws[k])
                /\ owner' = [own EXCEPT ![ws[k]] = Head(pending[ws[k]])]
                /\ pending' = [pending EXCEPT ![ws[k]] = Tail(@)]
                /\ inFlight' = flying \cup {Head(pending[ws[k]])}
                /\ begun' = begun \cup {Head(pending[ws[k]])}
                /\ here' = here \cup {Head(pending[ws[k]])}
    BY <1>6
  <2>2. pending' = [pending EXCEPT ![ws[k]] = Tail(pending[ws[k]])]
    BY <2>1
  <2> QED
    BY <1>5, <1>6, <2>1, <2>2
<1> QED
  BY <1>3, <1>4, <1>6, DrainChooses

\* The waiters after a thread's delivery or intake has settled.
LEMMA RequeueIs ==
    ASSUME RunnerInv, NEW th \in Threads
    PROVE  /\ Requeue(th, slots) \in Seq(Threads) /\ NoRepeats(Requeue(th, slots))
           /\ ToSet(slots) \subseteq ToSet(Requeue(th, slots))
           /\ pending[th] # <<>> => th \in ToSet(Requeue(th, slots))
           /\ Len(Requeue(th, slots)) >= 2 => slots # <<>>
<1>1. slots \in Seq(Threads) /\ NoRepeats(slots)
  BY DEF RunnerInv, RunnerTypes
<1>2. CASE pending[th] = <<>>
  <2>1. Requeue(th, slots) = slots
    BY <1>2 DEF Requeue
  <2>2. Len(slots) >= 2 => slots # <<>>
    BY <1>1
  <2> QED
    BY <1>1, <1>2, <2>1, <2>2
<1>3. CASE pending[th] # <<>>
  <2> DEFINE w == Without(slots, th)
  <2>1. w \in Seq(Threads) /\ NoRepeats(w) /\ ToSet(w) = ToSet(slots) \ {th}
    BY <1>1, WithoutIs
  <2>2. Requeue(th, slots) = Append(w, th)
    BY <1>3 DEF Requeue
  <2>3. slots = <<>> => w = <<>>
    BY DEF Without, RemoveFirst
  <2> HIDE DEF w
  <2>4. /\ Append(w, th) \in Seq(Threads) /\ NoRepeats(Append(w, th))
        /\ ToSet(Append(w, th)) = ToSet(w) \cup {th}
    BY <2>1, AppendIs
  <2>5. Len(Append(w, th)) >= 2 => slots # <<>>
    BY <2>1, <2>3
  <2> QED
    BY <2>1, <2>2, <2>4, <2>5
<1> QED
  BY <1>2, <1>3

\* A settled delivery or intake lets go of its thread, and of its slot or not.
LEMMA SettleKeeps ==
    ASSUME RunnerInv, UNCHANGED <<staged, running>>, NEW th \in Threads,
           NEW flying \in SUBSET inFlight,
           NEW own \in [Threads -> Mail \cup {None}],
           \A t \in Threads : own[t] # None => own[t] = owner[t] /\ own[t] \in flying,
           \A t \in Threads : t # th => own[t] = owner[t],
           Cardinality(flying) <= Cardinality(inFlight),
           Cardinality(flying) + 1 >= Cardinality(inFlight),
           IF running
           THEN DrainSlots(Requeue(th, slots), flying, own)
           ELSE owner' = own /\ inFlight' = flying /\ UNCHANGED <<pending, slots, begun, here>>
    PROVE  RunnerInv' /\ (inFlight' \ inFlight) \cap here = {}
<1>1. /\ Cardinality(inFlight) \in Nat /\ Cardinality(flying) \in Nat /\ MaxTurns \in Nat
      /\ IsFiniteSet(flying)
  BY FS_CardinalityType, FS_Subset, EmailAssumption DEF RunnerInv, RunnerTypes
<1>2. Cardinality(flying) <= MaxTurns
  BY <1>1 DEF RunnerInv, SlotsWellUsed, CapHolds
<1>3. \A t \in Threads : own[t] # None => own[t] \in flying /\ Thread[own[t]] = t
  BY DEF RunnerInv, OwnersInFlight
<1>4. CASE running
  <2> DEFINE ws == Requeue(th, slots)
  <2>1. /\ ws \in Seq(Threads) /\ NoRepeats(ws) /\ ToSet(slots) \subseteq ToSet(ws)
        /\ pending[th] # <<>> => th \in ToSet(ws)
        /\ Len(ws) >= 2 => slots # <<>>
    BY RequeueIs
  <2>2. DrainSlots(ws, flying, own)
    BY <1>4
  <2> HIDE DEF ws
  <2>3. \A t \in Threads : pending[t] # <<>> /\ own[t] = None => t \in ToSet(ws)
    BY <1>4, <2>1 DEF RunnerInv, SlotsWellUsed, NoIdleThread
  <2>4. Len(ws) >= 2 => Cardinality(flying) + 1 >= MaxTurns
    BY <1>1, <2>1 DEF RunnerInv, SlotsWellUsed, CapHolds, Full
  <2> QED
    BY <1>2, <1>3, <1>4, <2>1, <2>2, <2>3, <2>4, DrainKeeps
<1>5. CASE ~running
  <2>1. owner' = own /\ inFlight' = flying /\ UNCHANGED <<pending, slots, begun, here>>
    BY <1>5
  <2>2. slots' = <<>> /\ \A t \in Threads : pending'[t] = <<>>
    BY <1>5, <2>1 DEF RunnerInv, StoppedIsEmpty
  <2> QED
    BY <1>1, <1>2, <1>3, <1>5, <2>1, <2>2 DEF RunnerInv, RunnerTypes, QueuesAreNew, OwnersInFlight,
         StoppedIsEmpty, SlotsWellUsed, NoIdleThread, CapHolds
<1> QED
  BY <1>4, <1>5

LEMMA IntakeKeeps ==
    ASSUME RunnerInv, NEW m \in Mail, IntakeSettled(m)
    PROVE  RunnerInv' /\ (inFlight' \ inFlight) \cap here = {}
<1> DEFINE own == [owner EXCEPT ![Thread[m]] = None]
<1>1. Thread[m] \in Threads
  BY EmailAssumption
<1>2. /\ UNCHANGED <<staged, running>>
      /\ IF running
         THEN DrainSlots(Requeue(Thread[m], slots), inFlight, own)
         ELSE owner' = own /\ inFlight' = inFlight /\ UNCHANGED <<pending, slots, begun, here>>
  BY DEF IntakeSettled
<1>3. /\ own \in [Threads -> Mail \cup {None}]
      /\ \A t \in Threads : own[t] # None => own[t] = owner[t] /\ own[t] \in inFlight
      /\ \A t \in Threads : t # Thread[m] => own[t] = owner[t]
  BY <1>1 DEF RunnerInv, RunnerTypes, OwnersInFlight
<1>4. Cardinality(inFlight) \in Nat
  BY FS_CardinalityType DEF RunnerInv, RunnerTypes
<1>5. Cardinality(inFlight) <= Cardinality(inFlight) /\ Cardinality(inFlight) + 1 >= Cardinality(inFlight)
  BY <1>4
<1> HIDE DEF own
<1> QED
  BY <1>1, <1>2, <1>3, <1>5, SettleKeeps

LEMMA DeliveryKeeps ==
    ASSUME RunnerInv, NEW m \in Mail, DeliveryEnds(m)
    PROVE  RunnerInv' /\ (inFlight' \ inFlight) \cap here = {}
<1> DEFINE own == [owner EXCEPT ![Thread[m]] = IF @ = m THEN None ELSE @]
           flying == inFlight \ {m}
<1>1. Thread[m] \in Threads
  BY EmailAssumption
<1>2. /\ UNCHANGED <<staged, running>> /\ m \in inFlight
      /\ IF running
         THEN DrainSlots(Requeue(Thread[m], slots), flying, own)
         ELSE owner' = own /\ inFlight' = flying /\ UNCHANGED <<pending, slots, begun, here>>
  BY DEF DeliveryEnds
<1>3. own \in [Threads -> Mail \cup {None}]
  BY <1>1 DEF RunnerInv, RunnerTypes
<1>4. \A t \in Threads : t # Thread[m] => own[t] = owner[t]
  BY DEF RunnerInv, RunnerTypes
<1>5. own[Thread[m]] = IF owner[Thread[m]] = m THEN None ELSE owner[Thread[m]]
  BY <1>1 DEF RunnerInv, RunnerTypes
<1>6. \A t \in Threads : own[t] # None =>
          own[t] = owner[t] /\ own[t] \in flying /\ Thread[own[t]] = t
  BY <1>1, <1>4, <1>5 DEF RunnerInv, OwnersInFlight
<1>7. flying \in SUBSET inFlight /\ Cardinality(flying) = Cardinality(inFlight) - 1
  BY <1>2, FS_RemoveElement DEF RunnerInv, RunnerTypes
<1>8. Cardinality(inFlight) \in Nat
  BY FS_CardinalityType DEF RunnerInv, RunnerTypes
<1>9. /\ Cardinality(flying) <= Cardinality(inFlight)
      /\ Cardinality(flying) + 1 >= Cardinality(inFlight)
  BY <1>7, <1>8
<1> HIDE DEF own, flying
<1> QED
  BY <1>1, <1>2, <1>3, <1>4, <1>6, <1>7, <1>9, SettleKeeps

\* enqueueInbound, of a message this process has not queued before.
LEMMA EnqueueKeeps ==
    ASSUME RunnerInv, running, running' = running, NEW m \in Mail, m \notin staged,
           staged' = staged \cup {m}, Enqueue(m)
    PROVE  RunnerInv' /\ (inFlight' \ inFlight) \cap here = {}
<1> DEFINE th == Thread[m]
           q == Append(pending[th], m)
<1>1. th \in Threads /\ Thread[m] = th
  BY EmailAssumption
<1>2. /\ q \in Seq(Mail) /\ NoRepeats(q) /\ ToSet(q) = ToSet(pending[th]) \cup {m}
  <2>1. pending[th] \in Seq(Mail) /\ NoRepeats(pending[th]) /\ m \notin ToSet(pending[th])
    BY <1>1 DEF RunnerInv, RunnerTypes, QueuesAreNew
  <2> QED
    BY <2>1, AppendIs
<1>3. m \notin here /\ m \notin inFlight
  BY DEF RunnerInv, RunnerTypes
<1>4. pending[th] \in Seq(Mail)
  BY <1>1 DEF RunnerInv, RunnerTypes
<1>5. \/ /\ owner[th] # None
         /\ pending' = [pending EXCEPT ![th] = q]
         /\ UNCHANGED <<owner, slots, inFlight, begun, here>>
      \/ /\ owner[th] = None /\ Full
         /\ pending' = [pending EXCEPT ![th] = q]
         /\ slots' = IF th \in ToSet(slots) THEN slots ELSE Append(slots, th)
         /\ UNCHANGED <<owner, inFlight, begun, here>>
      \/ /\ owner[th] = None /\ ~Full
         /\ pending' = [pending EXCEPT ![th] = Tail(q)]
         /\ owner' = [owner EXCEPT ![th] = Head(q)]
         /\ inFlight' = inFlight \cup {Head(q)}
         /\ begun' = begun \cup {Head(q)} /\ here' = here \cup {Head(q)}
         /\ slots' = Without(slots, th)
  BY DEF Enqueue, StartThread
<1> HIDE DEF th, q
<1>6. ASSUME pending' = [pending EXCEPT ![th] = q], here' = here
      PROVE  pending' \in [Threads -> Seq(Mail)] /\ QueuesAreNew'
  <2>1. pending' \in [Threads -> Seq(Mail)]
    BY <1>2, <1>6 DEF RunnerInv, RunnerTypes
  <2>2. ASSUME NEW t \in Threads
        PROVE  /\ NoRepeats(pending'[t])
               /\ \A x \in ToSet(pending'[t]) : x \in staged' \ here' /\ Thread[x] = t
    <3>1. /\ NoRepeats(pending[t])
          /\ \A x \in ToSet(pending[t]) : x \in staged \ here /\ Thread[x] = t
      BY DEF RunnerInv, QueuesAreNew
    <3>2. CASE t = th
      <4>1. pending'[t] = q
        BY <1>6, <3>2 DEF RunnerInv, RunnerTypes
      <4> QED
        BY <1>1, <1>2, <1>3, <1>6, <3>1, <3>2, <4>1
    <3>3. CASE t # th
      <4>1. pending'[t] = pending[t]
        BY <1>6, <3>3 DEF RunnerInv, RunnerTypes
      <4> QED
        BY <1>6, <3>1, <4>1
    <3> QED
      BY <3>2, <3>3
  <2> QED
    BY <2>1, <2>2 DEF QueuesAreNew, NoRepeats
<1>7. \A t \in Threads : t # th => pending'[t] = pending[t]
  BY <1>5 DEF RunnerInv, RunnerTypes
<1>8. CASE /\ owner[th] # None
           /\ pending' = [pending EXCEPT ![th] = q]
           /\ UNCHANGED <<owner, slots, inFlight, begun, here>>
  <2>1. NoIdleThread'
    BY <1>7, <1>8 DEF RunnerInv, SlotsWellUsed, NoIdleThread, Full
  <2> QED
    BY <1>6, <1>8, <2>1 DEF RunnerInv, RunnerTypes, OwnersInFlight, StoppedIsEmpty, SlotsWellUsed,
         CapHolds, Full
<1>9. CASE /\ owner[th] = None /\ Full
           /\ pending' = [pending EXCEPT ![th] = q]
           /\ slots' = IF th \in ToSet(slots) THEN slots ELSE Append(slots, th)
           /\ UNCHANGED <<owner, inFlight, begun, here>>
  <2>1. slots \in Seq(Threads) /\ NoRepeats(slots)
    BY DEF RunnerInv, RunnerTypes
  <2>2. /\ slots' \in Seq(Threads) /\ NoRepeats(slots')
        /\ ToSet(slots') = ToSet(slots) \cup {th}
    <3>1. CASE th \in ToSet(slots)
      BY <1>9, <2>1, <3>1
    <3>2. CASE th \notin ToSet(slots)
      BY <1>1, <1>9, <2>1, <3>2, AppendIs
    <3> QED
      BY <3>1, <3>2
  <2>3. NoIdleThread'
    BY <1>7, <1>9, <2>2 DEF RunnerInv, SlotsWellUsed, NoIdleThread, Full
  <2> QED
    BY <1>6, <1>9, <2>2, <2>3 DEF RunnerInv, RunnerTypes, OwnersInFlight, StoppedIsEmpty,
         SlotsWellUsed, CapHolds, Full
<1>10. CASE /\ owner[th] = None /\ ~Full
            /\ pending' = [pending EXCEPT ![th] = Tail(q)]
            /\ owner' = [owner EXCEPT ![th] = Head(q)]
            /\ inFlight' = inFlight \cup {Head(q)}
            /\ begun' = begun \cup {Head(q)} /\ here' = here \cup {Head(q)}
            /\ slots' = Without(slots, th)
  <2>1. pending[th] = <<>> /\ slots = <<>>
    BY <1>1, <1>10 DEF RunnerInv, SlotsWellUsed, NoIdleThread, CapHolds
  <2>2. Head(q) = m /\ Tail(q) = <<>>
    BY <2>1 DEF q
  <2>3. slots' = <<>>
    BY <1>10, <2>1 DEF Without, RemoveFirst
  <2>4. pending' = pending
    BY <1>10, <2>1, <2>2 DEF RunnerInv, RunnerTypes
  <2>5. /\ IsFiniteSet(inFlight') /\ Cardinality(inFlight') = Cardinality(inFlight) + 1
        /\ Cardinality(inFlight) \in Nat /\ MaxTurns \in Nat
    <3>1. inFlight \in SUBSET Mail /\ IsFiniteSet(inFlight)
      BY DEF RunnerInv, RunnerTypes
    <3> QED
      BY <1>3, <1>10, <2>2, <3>1, SlotCounts
  <2>6. RunnerTypes'
    <3>1. owner' \in [Threads -> Mail \cup {None}]
      BY <1>10, <2>2 DEF RunnerInv, RunnerTypes
    <3> QED
      BY <1>10, <2>1, <2>2, <2>3, <2>4, <2>5, <3>1 DEF RunnerInv, RunnerTypes
  <2>7. QueuesAreNew'
    <3> SUFFICES ASSUME NEW t \in Threads
                 PROVE  /\ NoRepeats(pending'[t])
                        /\ \A x \in ToSet(pending'[t]) : x \in staged' \ here' /\ Thread[x] = t
      BY DEF QueuesAreNew, NoRepeats
    <3>1. /\ NoRepeats(pending[t])
          /\ \A x \in ToSet(pending[t]) : x \in staged \ here /\ Thread[x] = t
      BY DEF RunnerInv, QueuesAreNew
    <3> QED
      BY <1>10, <2>2, <2>4, <3>1
  <2>8. OwnersInFlight'
    BY <1>1, <1>10, <2>2 DEF RunnerInv, RunnerTypes, OwnersInFlight
  <2>9. NoIdleThread'
    BY <1>1, <1>10, <2>1, <2>4, EmailAssumption DEF RunnerInv, RunnerTypes, SlotsWellUsed, NoIdleThread
  <2>10. CapHolds'
    BY <1>10, <2>3, <2>5 DEF CapHolds, Full
  <2> QED
    BY <1>3, <1>10, <2>2, <2>3, <2>6, <2>7, <2>8, <2>9, <2>10 DEF RunnerInv, StoppedIsEmpty,
         SlotsWellUsed
<1> QED
  BY <1>5, <1>8, <1>9, <1>10

(***************************************************************************)
(* The process and the log around the runner: what is staged or waits for  *)
(* replay has a row, and no message is in two of these places.             *)
(***************************************************************************)
LogInv ==
    /\ log \in Seq(Mail) /\ NoRepeats(log) /\ acked \subseteq ToSet(log)
    /\ staged \subseteq ToSet(log)
    /\ replay \in Seq(Mail) /\ NoRepeats(replay)
    /\ ToSet(replay) \subseteq ToSet(log) /\ ToSet(replay) \cap staged = {}
    /\ poll \in {"idle", "loop", "staging", "staged"} /\ cur \in Mail \cup {None}
    /\ poll # "idle" => replay = <<>>
    /\ poll \in {"staging", "staged"} => cur \in Mail \ staged
    /\ poll = "staged" => cur \in ToSet(log)

ProcessInv ==
    /\ up \in BOOLEAN /\ running \in BOOLEAN
    /\ ~up => /\ ~running /\ poll = "idle" /\ cur = None /\ batch = {}
              /\ staged = {} /\ here = {} /\ inFlight = {} /\ replay = <<>> /\ posting = {}

MarkTypes ==
    /\ inbox \subseteq Mail /\ batch \subseteq Mail /\ fetched \subseteq Mail
    /\ givenUp \subseteq Mail /\ unreplayed \subseteq Mail
    /\ dropped \subseteq Mail /\ clock \in Marks
    /\ diskMark \in Marks \cup {NoMark} /\ mark \in Marks /\ prev \in Marks /\ durable \in Marks
    /\ posting \subseteq Marks
    /\ failures \in [Mail -> 0 .. RetryLimit - 1]
    /\ faults \in 0 .. MaxFaults /\ crashes \in 0 .. MaxCrashes

IntakeInv == RunnerInv /\ LogInv /\ ProcessInv /\ MarkTypes

\* One step of the adapter, on the runner.
LEMMA RunnerStep ==
    ASSUME RunnerInv, LogInv, ProcessInv, [Next]_vars
    PROVE  RunnerInv' /\ (inFlight' \ inFlight) \cap here = {}
<1> USE DEF durables, pollVars, missed, bounds
<1>1. ASSUME UNCHANGED <<runner, staged, running>>
      PROVE  RunnerInv' /\ (inFlight' \ inFlight) \cap here = {}
  BY <1>1, RunnerFrame DEF runner
<1>2. CASE UNCHANGED vars
  BY <1>1, <1>2 DEF vars
<1>3. ASSUME NEW m \in Mail, Arrive(m)
      PROVE  RunnerInv' /\ (inFlight' \ inFlight) \cap here = {}
  BY <1>1, <1>3 DEF Arrive
<1>4. CASE Fetch \/ PollSkip \/ PollStage \/ WriteAhead \/ PollRetry \/ PollGiveUp \/ PollEnd
  BY <1>1, <1>4 DEF Fetch, PollSkip, PollStage, WriteAhead, PollRetry, PollGiveUp, PollEnd
<1>5. CASE PollQueue
  <2>1. poll = "staged" /\ staged' = staged \cup {cur} /\ UNCHANGED <<running>>
    BY <1>5 DEF PollQueue
  <2>2. cur \in Mail /\ cur \notin staged
    BY <2>1 DEF LogInv
  <2>3. CASE running /\ Enqueue(cur)
    BY <2>1, <2>2, <2>3, EnqueueKeeps
  <2>4. CASE ~running /\ UNCHANGED runner
    BY <2>1, <2>2, <2>4 DEF RunnerInv, RunnerTypes, QueuesAreNew, OwnersInFlight, StoppedIsEmpty,
         SlotsWellUsed, NoIdleThread, CapHolds, Full, runner
  <2> QED
    BY <1>5, <2>3, <2>4 DEF PollQueue
<1>6. CASE PersistMark
  BY <1>1, <1>6 DEF PersistMark
<1>7. CASE Stop
  <2>1. /\ running' = FALSE /\ pending' = [th \in Threads |-> <<>>] /\ slots' = <<>>
        /\ UNCHANGED <<staged, owner, inFlight, begun, here>>
    BY <1>7 DEF Stop
  <2>2. NoRepeats(<<>>) /\ ToSet(<<>>) = {} /\ <<>> \in Seq(Mail) /\ <<>> \in Seq(Threads)
    BY DEF NoRepeats, ToSet
  <2> QED
    BY <2>1, <2>2 DEF RunnerInv, RunnerTypes, QueuesAreNew, OwnersInFlight, StoppedIsEmpty,
         SlotsWellUsed, NoIdleThread, CapHolds, Full
<1>8. CASE Crash
  <2>1. /\ running' = FALSE /\ pending' = [th \in Threads |-> <<>>] /\ slots' = <<>>
        /\ staged' = {} /\ owner' = [th \in Threads |-> None] /\ inFlight' = {} /\ here' = {}
        /\ UNCHANGED begun
    BY <1>8 DEF Crash
  <2>2. NoRepeats(<<>>) /\ ToSet(<<>>) = {} /\ <<>> \in Seq(Mail) /\ <<>> \in Seq(Threads)
    BY DEF NoRepeats, ToSet
  <2>3. IsFiniteSet({}) /\ Cardinality({}) = 0 /\ MaxTurns \in Nat
    BY FS_EmptySet, EmailAssumption
  <2> QED
    BY <2>1, <2>2, <2>3 DEF RunnerInv, RunnerTypes, QueuesAreNew, OwnersInFlight, StoppedIsEmpty,
         SlotsWellUsed, NoIdleThread, CapHolds, Full
<1>9. CASE Start
  <2>1. ~up /\ UNCHANGED <<runner, staged>>
    BY <1>9 DEF Start
  <2>2. slots = <<>> /\ \A th \in Threads : pending[th] = <<>>
    BY <2>1 DEF ProcessInv, RunnerInv, StoppedIsEmpty
  <2> QED
    BY <2>1, <2>2 DEF RunnerInv, RunnerTypes, QueuesAreNew, OwnersInFlight, StoppedIsEmpty,
         SlotsWellUsed, NoIdleThread, CapHolds, Full, runner
<1>10. CASE Replay
  <2>1. replay # <<>> /\ UNCHANGED <<running>>
    BY <1>10 DEF Replay
  <2>2. CASE running /\ staged' = staged \cup {Head(replay)} /\ Enqueue(Head(replay))
    <3>1. Head(replay) \in Mail /\ Head(replay) \notin staged
      BY <2>1, TailIs DEF LogInv
    <3> QED
      BY <2>1, <2>2, <3>1, EnqueueKeeps
  <2>3. CASE UNCHANGED <<staged, runner>>
    BY <1>1, <2>1, <2>3
  <2> QED
    BY <1>10, <2>2, <2>3 DEF Replay
<1> QED
  BY <1>2, <1>3, <1>4, <1>5, <1>6, <1>7, <1>8, <1>9, <1>10, IntakeKeeps, DeliveryKeeps
     DEF Next, PollStep

\* What a starting process loads, oldest row first, has no message twice.
LEMMA ListingIs ==
    ASSUME log \in Seq(Mail), NoRepeats(log), NEW l \in BoundedSeq(Unacknowledged, Len(log)), Listing(l)
    PROVE  l \in Seq(Mail) /\ NoRepeats(l) /\ ToSet(l) \subseteq ToSet(log)
<1>1. ToSet(log) \subseteq Mail
  BY DEF ToSet
<1>2. ToSet(l) \subseteq ToSet(log)
  BY DEF Listing, Unacknowledged
<1>3. PICK n \in Nat : l \in [1 .. n -> Unacknowledged]
  BY DEF BoundedSeq, SeqOf
<1>4. l \in Seq(Mail)
  <2>1. l \in [1 .. n -> Mail]
    BY <1>1, <1>3 DEF Unacknowledged
  <2> QED
    BY <2>1
<1>5. \A i, k \in DOMAIN l : i < k => l[i] # l[k]
  <2> SUFFICES ASSUME NEW i \in DOMAIN l, NEW k \in DOMAIN l, i < k, l[i] = l[k] PROVE FALSE
    OBVIOUS
  <2>1. PICK a, b \in DOMAIN log : a < b /\ log[a] = l[i] /\ log[b] = l[k]
    BY DEF Listing, Precedes
  <2>2. a = b /\ a \in Nat
    BY <2>1 DEF NoRepeats
  <2> QED
    BY <2>1, <2>2
<1>6. NoRepeats(l)
  <2> SUFFICES ASSUME NEW i \in DOMAIN l, NEW k \in DOMAIN l, l[i] = l[k] PROVE i = k
    BY DEF NoRepeats
  <2>1. i \in Nat /\ k \in Nat
    BY <1>4
  <2>2. ~(i < k) /\ ~(k < i)
    BY <1>5
  <2> QED
    BY <2>1, <2>2
<1> QED
  BY <1>2, <1>4, <1>6

LEMMA LogFrame ==
    ASSUME LogInv, UNCHANGED <<log, acked, staged, replay, poll, cur>>
    PROVE  LogInv'
BY DEF LogInv

\* One step of the adapter, on the log and what is kept from it.
LEMMA LogStep ==
    ASSUME RunnerInv, LogInv, ProcessInv, MarkTypes, [Next]_vars
    PROVE  LogInv'
<1> USE DEF durables, pollVars, missed, bounds
<1>0. NoRepeats(<<>>) /\ ToSet(<<>>) = {} /\ <<>> \in Seq(Mail)
  BY DEF NoRepeats, ToSet
<1>1. CASE UNCHANGED vars
  BY <1>1, LogFrame DEF vars
<1>2. ASSUME NEW m \in Mail, Arrive(m) \/ IntakeSettled(m) PROVE LogInv'
  BY <1>2, LogFrame DEF Arrive, IntakeSettled
<1>3. ASSUME NEW m \in Mail, DeliveryEnds(m) PROVE LogInv'
  <2>1. /\ m \in inFlight /\ acked' \in {acked, acked \cup {m}}
        /\ UNCHANGED <<log, staged, replay, poll, cur>>
    BY <1>3 DEF DeliveryEnds
  <2>2. m \in ToSet(log)
    BY <2>1 DEF RunnerInv, RunnerTypes, LogInv
  <2> QED
    BY <2>1, <2>2 DEF LogInv
<1>4. CASE Fetch
  BY <1>4 DEF Fetch, LogInv
<1>5. CASE PollSkip
  BY <1>5, LogFrame DEF PollSkip
<1>6. CASE PollStage
  <2>1. PICK m \in batch : m \notin staged \cup Skipped /\ cur' = m
    BY <1>6 DEF PollStage
  <2>2. m \in Mail
    BY DEF MarkTypes
  <2>3. poll = "loop" /\ poll' = "staging" /\ UNCHANGED <<log, acked, staged, replay>>
    BY <1>6 DEF PollStage
  <2> QED
    BY <2>1, <2>2, <2>3 DEF LogInv
<1>7. CASE WriteAhead
  <2>1. /\ poll = "staging" /\ log' = Append(Without(log, cur), cur) /\ acked' = acked \ {cur}
        /\ poll' = "staged" /\ UNCHANGED <<staged, replay, cur>>
    BY <1>7 DEF WriteAhead
  <2>2. cur \in Mail \ staged /\ log \in Seq(Mail) /\ NoRepeats(log)
    BY <2>1 DEF LogInv
  <2> DEFINE w == Without(log, cur)
  <2>3. w \in Seq(Mail) /\ NoRepeats(w) /\ ToSet(w) = ToSet(log) \ {cur}
    BY <2>2, WithoutIs
  <2> HIDE DEF w
  <2>4. /\ Append(w, cur) \in Seq(Mail) /\ NoRepeats(Append(w, cur))
        /\ ToSet(Append(w, cur)) = ToSet(w) \cup {cur}
    BY <2>2, <2>3, AppendIs
  <2>5. /\ log' \in Seq(Mail) /\ NoRepeats(log') /\ ToSet(log') = ToSet(log) \cup {cur}
    BY <2>1, <2>3, <2>4 DEF w
  <2> QED
    BY <2>1, <2>2, <2>5 DEF LogInv
<1>8. CASE PollQueue
  <2>1. /\ poll = "staged" /\ staged' = staged \cup {cur} /\ cur' = None
        /\ poll' \in {"loop", "idle"} /\ UNCHANGED <<log, acked, replay>>
    BY <1>8 DEF PollQueue
  <2>2. replay = <<>> /\ cur \in ToSet(log)
    BY <2>1 DEF LogInv
  <2> QED
    BY <1>0, <2>1, <2>2 DEF LogInv
<1>9. CASE PollRetry \/ PollGiveUp \/ PollEnd
  <2>1. /\ poll' \in {"idle", "loop"} /\ cur' \in {cur, None} /\ poll # "idle"
        /\ UNCHANGED <<log, acked, staged, replay>>
    BY <1>9 DEF PollRetry, PollGiveUp, PollEnd
  <2> QED
    BY <2>1 DEF LogInv
<1>10. CASE PersistMark \/ Stop
  BY <1>10, LogFrame DEF PersistMark, Stop
<1>11. CASE Crash
  BY <1>0, <1>11 DEF Crash, LogInv
<1>12. CASE Start
  <2>1. ~up /\ UNCHANGED <<log, acked, staged, poll, cur>>
    BY <1>12 DEF Start
  <2>2. staged = {} /\ poll = "idle" /\ replay = <<>>
    BY <2>1 DEF ProcessInv
  <2>3. replay' \in Seq(Mail) /\ NoRepeats(replay') /\ ToSet(replay') \subseteq ToSet(log)
    <3>1. CASE \E l \in BoundedSeq(Unacknowledged, Len(log)) : Listing(l) /\ replay' = l
      BY <3>1, ListingIs DEF LogInv
    <3>2. CASE UNCHANGED replay
      BY <1>0, <2>2, <3>2
    <3> QED
      BY <1>12, <3>1, <3>2 DEF Start, LoadReplay
  <2> QED
    BY <2>1, <2>2, <2>3 DEF LogInv
<1>13. CASE Replay
  <2>1. replay # <<>> /\ UNCHANGED <<log, acked, poll, cur>>
    BY <1>13 DEF Replay
  <2>2. /\ Tail(replay) \in Seq(Mail) /\ NoRepeats(Tail(replay)) /\ Head(replay) \in ToSet(replay)
        /\ ToSet(Tail(replay)) = ToSet(replay) \ {Head(replay)}
    BY <2>1, TailIs DEF LogInv
  <2>3. CASE staged' = staged \cup {Head(replay)} /\ replay' = Tail(replay)
    BY <2>1, <2>2, <2>3 DEF LogInv
  <2>4. CASE replay' = <<>> /\ UNCHANGED staged
    BY <1>0, <2>1, <2>4 DEF LogInv
  <2> QED
    BY <1>13, <2>3, <2>4 DEF Replay
<1> QED
  BY <1>1, <1>2, <1>3, <1>4, <1>5, <1>6, <1>7, <1>8, <1>9, <1>10, <1>11, <1>12, <1>13
     DEF Next, PollStep

LEMMA ProcessStep ==
    ASSUME RunnerInv, LogInv, ProcessInv, [Next]_vars
    PROVE  ProcessInv'
<1> USE DEF durables, pollVars, missed, bounds
<1>1. CASE UNCHANGED vars
  BY <1>1 DEF vars, runner, ProcessInv
<1>2. ASSUME up, up' = up, running' \in {running, FALSE} PROVE ProcessInv'
  BY <1>2 DEF ProcessInv
<1>3. ASSUME NEW m \in Mail, Arrive(m) PROVE ProcessInv'
  BY <1>3 DEF Arrive, ProcessInv, runner
<1>4. ASSUME NEW m \in Mail, IntakeSettled(m) \/ DeliveryEnds(m) PROVE ProcessInv'
  <2>1. m \in inFlight /\ UNCHANGED <<up, running>>
    BY <1>4 DEF IntakeSettled, DeliveryEnds
  <2>2. up
    BY <2>1 DEF ProcessInv
  <2> QED
    BY <1>2, <2>1, <2>2
<1>5. CASE PollStep
  <2>1. poll # "idle" \/ up
    BY <1>5 DEF PollStep, Fetch, PollSkip, PollStage, WriteAhead, PollQueue, PollRetry, PollGiveUp,
         PollEnd
  <2>2. UNCHANGED <<up, running>>
    BY <1>5 DEF PollStep, Fetch, PollSkip, PollStage, WriteAhead, PollQueue, PollRetry, PollGiveUp,
         PollEnd
  <2> QED
    BY <1>2, <2>1, <2>2 DEF ProcessInv
<1>6. CASE PersistMark \/ Stop
  BY <1>2, <1>6 DEF PersistMark, Stop
<1>7. CASE Crash
  BY <1>7 DEF Crash, ProcessInv
<1>8. CASE Start
  BY <1>8 DEF Start, ProcessInv
<1>9. CASE Replay
  <2>1. replay # <<>> /\ UNCHANGED <<up, running>>
    BY <1>9 DEF Replay
  <2> QED
    BY <1>2, <2>1 DEF ProcessInv
<1> QED
  BY <1>1, <1>3, <1>4, <1>5, <1>6, <1>7, <1>8, <1>9 DEF Next

LEMMA LaterIsMark ==
    ASSUME mark \in Marks, NEW m \in Mail
    PROVE  Later(m) \in Marks
BY DEF Later, Marks

LEMMA FaultCounts ==
    ASSUME NEW kind, Fault(kind), faults \in 0 .. MaxFaults
    PROVE  faults' \in 0 .. MaxFaults
BY EmailAssumption DEF Fault

LEMMA MarkFrame ==
    ASSUME MarkTypes, faults' = faults \/ \E kind \in FaultKinds : Fault(kind),
           UNCHANGED <<inbox, batch, fetched, givenUp, missed, diskMark, mark, prev, durable,
                       posting, failures, crashes>>
    PROVE  MarkTypes'
BY FaultCounts DEF MarkTypes, missed

\* Where start() leaves the mark: at the stored one, or at the time of the start.
LEMMA RestoreChooses ==
    ASSUME MarkTypes, NEW unread \in BOOLEAN, RestoreMark(unread)
    PROVE  \/ mark' = diskMark /\ mark' \in Marks /\ UNCHANGED <<dropped, clock>>
           \/ /\ mark' \in Marks /\ clock' = mark' /\ clock <= mark'
              /\ dropped' = dropped \cup {m \in inbox \ ToSet(log) : Date[m] < mark'}
              /\ dropped' \subseteq Mail
BY DEF RestoreMark, MarkTypes

\* One step of the adapter, on the marks, the sets of mail and the counters.
LEMMA MarkStep ==
    ASSUME LogInv, MarkTypes, [Next]_vars
    PROVE  MarkTypes'
<1> USE DEF durables, pollVars, missed, bounds, MarkTypes
<1>1. CASE UNCHANGED vars
  BY <1>1, MarkFrame DEF vars
<1>2. ASSUME NEW m \in Mail, Arrive(m) PROVE MarkTypes'
  BY <1>2 DEF Arrive
<1>3. ASSUME NEW m \in Mail, IntakeSettled(m) PROVE MarkTypes'
  BY <1>3, MarkFrame DEF IntakeSettled
<1>4. ASSUME NEW m \in Mail, DeliveryEnds(m) PROVE MarkTypes'
  <2>1. faults' = faults \/ Fault("ack")
    BY <1>4 DEF DeliveryEnds
  <2>2. faults' \in 0 .. MaxFaults
    BY <2>1, FaultCounts
  <2> QED
    BY <1>4, <2>2 DEF DeliveryEnds
<1>5. CASE Fetch
  BY <1>5 DEF Fetch
<1>6. CASE PollSkip
  <2>1. PICK m \in batch : batch' = batch \ {m} /\ mark' = Later(m) /\ durable' = Later(m)
    BY <1>6 DEF PollSkip
  <2>2. Later(m) \in Marks
    BY LaterIsMark
  <2> QED
    BY <1>6, <2>1, <2>2 DEF PollSkip
<1>7. CASE PollStage
  <2>1. PICK m \in batch : batch' = batch \ {m} /\ mark' = Later(m)
    BY <1>7 DEF PollStage
  <2>2. Later(m) \in Marks
    BY LaterIsMark
  <2> QED
    BY <1>7, <2>1, <2>2 DEF PollStage
<1>8. CASE WriteAhead
  BY <1>8, MarkFrame DEF WriteAhead
<1>9. CASE PollQueue
  <2>1. cur \in Mail
    BY <1>9 DEF PollQueue, LogInv
  <2>2. failures' \in [Mail -> 0 .. RetryLimit - 1]
    <3>1. failures' = [failures EXCEPT ![cur] = 0] /\ 0 \in 0 .. RetryLimit - 1
      BY <1>9, EmailAssumption DEF PollQueue
    <3> QED
      BY <2>1, <3>1
  <2> QED
    BY <1>9, <2>2 DEF PollQueue
<1>10. CASE PollRetry
  <2>1. cur \in Mail /\ Date[cur] \in Marks
    BY <1>10 DEF PollRetry, LogInv, Marks
  <2>2. failures' \in [Mail -> 0 .. RetryLimit - 1]
    <3>1. CASE UNCHANGED failures
      BY <3>1
    <3>2. CASE failures[cur] + 1 < RetryLimit /\ failures' = [failures EXCEPT ![cur] = @ + 1]
      <4>1. failures[cur] + 1 \in 0 .. RetryLimit - 1
        BY <2>1, <3>2, EmailAssumption
      <4> QED
        BY <2>1, <3>2, <4>1
    <3> QED
      BY <1>10, <3>1, <3>2 DEF PollRetry
  <2>3. faults' \in 0 .. MaxFaults
    <3>1. Fault("outage") \/ Fault("poison")
      BY <1>10 DEF PollRetry
    <3> QED
      BY <3>1, FaultCounts
  <2>4. mark' \in Marks /\ posting' \subseteq Marks /\ batch' = {}
    BY <1>10, <2>1 DEF PollRetry
  <2> QED
    BY <1>10, <2>2, <2>3, <2>4 DEF PollRetry
<1>11. CASE PollGiveUp
  <2>1. cur \in Mail
    BY <1>11 DEF PollGiveUp, LogInv
  <2>2. failures' \in [Mail -> 0 .. RetryLimit - 1]
    <3>1. failures' = [failures EXCEPT ![cur] = 0] /\ 0 \in 0 .. RetryLimit - 1
      BY <1>11, EmailAssumption DEF PollGiveUp
    <3> QED
      BY <2>1, <3>1
  <2>3. faults' \in 0 .. MaxFaults
    BY <1>11, FaultCounts DEF PollGiveUp
  <2> QED
    BY <1>11, <2>1, <2>2, <2>3 DEF PollGiveUp
<1>12. CASE PollEnd
  <2>1. mark' \in Marks /\ posting' \subseteq Marks /\ batch' = {}
    BY <1>12 DEF PollEnd
  <2> QED
    BY <1>12, <2>1 DEF PollEnd
<1>13. CASE PersistMark
  <2>1. posting' \subseteq Marks /\ diskMark' \in Marks \cup {NoMark}
    BY <1>13 DEF PersistMark
  <2>2. faults' \in 0 .. MaxFaults
    <3>1. faults' = faults \/ Fault("persist")
      BY <1>13 DEF PersistMark
    <3> QED
      BY <3>1, FaultCounts
  <2> QED
    BY <1>13, <2>1, <2>2 DEF PersistMark
<1>14. CASE Stop
  BY <1>14, MarkFrame DEF Stop
<1>15. CASE Crash
  <2>1. /\ crashes' \in 0 .. MaxCrashes /\ failures' \in [Mail -> 0 .. RetryLimit - 1]
        /\ 0 \in Marks
    BY <1>15, EmailAssumption DEF Crash, Marks
  <2> QED
    BY <1>15, <2>1 DEF Crash
<1>16. CASE Start
  <2>1. faults' \in 0 .. MaxFaults
    BY <1>16, EmailAssumption DEF Start
  <2>2. unreplayed' \subseteq Mail
    BY <1>16 DEF Start, LoadReplay, Unacknowledged, LogInv, ToSet
  <2>3. mark' \in Marks /\ clock' \in Marks /\ dropped' \subseteq Mail
    BY <1>16, RestoreChooses DEF Start
  <2> QED
    BY <1>16, <2>1, <2>2, <2>3 DEF Start
<1>17. CASE Replay
  BY <1>17, MarkFrame DEF Replay
<1> QED
  BY <1>1, <1>2, <1>3, <1>4, <1>5, <1>6, <1>7, <1>8, <1>9, <1>10, <1>11, <1>12, <1>13, <1>14,
     <1>15, <1>16, <1>17 DEF Next, PollStep

LEMMA IntakeInvInit == Init => IntakeInv
<1> SUFFICES ASSUME Init PROVE IntakeInv
  OBVIOUS
<1>1. NoRepeats(<<>>) /\ ToSet(<<>>) = {} /\ <<>> \in Seq(Mail) /\ <<>> \in Seq(Threads)
  BY DEF NoRepeats, ToSet
<1>2. IsFiniteSet({}) /\ Cardinality({}) = 0 /\ MaxTurns \in Nat /\ RetryLimit - 1 \in Nat
  BY FS_EmptySet, EmailAssumption
<1>3. 0 \in Marks
  BY DEF Marks
<1>4. RunnerInv
  BY <1>1, <1>2 DEF Init, RunnerInv, RunnerTypes, QueuesAreNew, OwnersInFlight, StoppedIsEmpty,
       SlotsWellUsed, NoIdleThread, CapHolds, Full
<1>5. LogInv
  BY <1>1 DEF Init, LogInv
<1>6. ProcessInv
  BY DEF Init, ProcessInv
<1>7. MarkTypes
  BY <1>2, <1>3, EmailAssumption DEF Init, MarkTypes
<1> QED
  BY <1>4, <1>5, <1>6, <1>7 DEF IntakeInv

LEMMA IntakeInvStep ==
    IntakeInv /\ [Next]_vars => IntakeInv' /\ (inFlight' \ inFlight) \cap here = {}
BY RunnerStep, LogStep, ProcessStep, MarkStep DEF IntakeInv

LEMMA IntakeInvAlways == Spec => []IntakeInv
BY IntakeInvInit, IntakeInvStep, PTL DEF Spec

\* Every variable of the adapter, the provider and the log keeps its type, over failures,
\* stop, crash and start (src/channels/email/email-adapter.ts).
THEOREM AdapterKeepsTypes == Spec => []TypeOK
<1>1. IntakeInv => TypeOK
  BY DEF IntakeInv, RunnerInv, RunnerTypes, QueuesAreNew, LogInv, ProcessInv, MarkTypes, TypeOK, ToSet
<1> QED
  BY <1>1, IntakeInvAlways, PTL

\* scheduleThread and drainSlotWaiters lose no wakeup and keep the cap: a thread with queued
\* mail and no delivery of its own waits for a slot, and then every slot is taken.
THEOREM RunnerUsesSlots == Spec => []SlotsWellUsed
<1>1. IntakeInv => SlotsWellUsed
  BY DEF IntakeInv, RunnerInv
<1> QED
  BY <1>1, IntakeInvAlways, PTL

\* stagedInboundIds: a process delivers a message once, whether the poll, the poll after a
\* rollback of the mark, or replayUnacknowledgedInbound hands it over.
THEOREM ProcessDeliversOnce == Spec => OncePerProcess
<1>1. IntakeInv /\ [Next]_vars => [(inFlight' \ inFlight) \cap here = {}]_vars
  BY IntakeInvStep
<1> QED
  BY <1>1, IntakeInvAlways, PTL DEF Spec, OncePerProcess

(***************************************************************************)
(* The mark.  Nylas lists mail in order, polls do not overlap, and the     *)
(* page holds all mail the mark has not passed: a poll then has in hand    *)
(* every message that is neither written ahead, skipped nor given up, but  *)
(* for those that came after it fetched.                                   *)
(***************************************************************************)

\* The page of the next fetch is not cut.
PageHoldsAll == Cardinality({m \in inbox : Date[m] >= mark}) <= PageSize

Handled == ToSet(log) \cup Skipped \cup givenUp \cup dropped

Passes(k) == \A m \in inbox : Date[m] < k => m \in Handled

\* A mark is at most a second a start took from the clock, or the second after that of a
\* message a poll has fetched.
Behind(k) == k <= clock \/ \E f \in fetched : k <= Date[f] + 1

FetchedFirst ==
    /\ IsFiniteSet(inbox) /\ fetched \subseteq inbox
    /\ batch \subseteq fetched /\ ToSet(log) \subseteq fetched
    /\ Behind(mark) /\ Behind(diskMark) /\ Behind(durable)

\* Dated after all that a poll has fetched, and not before a start that took the time.
Newest(m) == clock <= Date[m] /\ \A f \in fetched : Date[f] < Date[m]

InHand ==
    /\ poll \in {"idle", "loop"} => cur = None
    /\ poll \in {"staging", "staged"} => cur \in fetched /\ \A m \in batch : Date[cur] <= Date[m]
    /\ poll # "idle" =>
          /\ posting = {}
          /\ \A m \in inbox \ Handled : m \in batch \/ m = cur \/ Newest(m)

CoverInv ==
    /\ FetchedFirst /\ InHand /\ MarkCoversNothingNew
    /\ poll = "idle" /\ (running \/ posting # {}) => Passes(mark)

LEMMA MarksAreNat == Marks \subseteq Nat
BY EmailAssumption DEF Marks

LEMMA CoverFrame ==
    ASSUME CoverInv, running' => running,
           UNCHANGED <<inbox, log, givenUp, dropped, clock, fetched, mark, diskMark, durable, poll, posting, batch,
                       cur>>
    PROVE  CoverInv'
BY DEF CoverInv, FetchedFirst, InHand, MarkCoversNothingNew, Passes, Behind, Handled, Newest

\* Fetch: the page has all mail that is not handled yet.
LEMMA FetchCovers ==
    ASSUME IntakeInv, CoverInv, ~SlowPost, PageHoldsAll, Fetch
    PROVE  CoverInv'
<1>1. PICK p \in SUBSET inbox : Page(p) /\ batch' = p /\ fetched' = fetched \cup p
  BY DEF Fetch
<1>2. /\ running /\ poll = "idle" /\ posting = {} /\ poll' = "loop" /\ durable' = mark
      /\ UNCHANGED <<inbox, log, givenUp, dropped, clock, mark, diskMark, posting, cur, running>>
  BY DEF Fetch, durables, missed
<1> DEFINE since == {m \in inbox : Date[m] >= mark}
<1>3. IsFiniteSet(since) /\ Cardinality(since) \in Nat /\ Cardinality(since) <= PageSize
  BY FS_Subset, FS_CardinalityType DEF CoverInv, FetchedFirst, PageHoldsAll
<1>4. /\ p \subseteq since
      /\ \A n \in since \ p : Cardinality(p) = PageSize
  BY <1>1 DEF Page
<1> HIDE DEF since
<1>5. p = since
  <2> SUFFICES ASSUME p # since PROVE FALSE
    OBVIOUS
  <2>1. Cardinality(p) < Cardinality(since) /\ Cardinality(p) \in Nat
    BY <1>3, <1>4, FS_Subset, FS_CardinalityType
  <2>2. Cardinality(p) = PageSize
    BY <1>4
  <2> QED
    BY <1>3, <2>1, <2>2, EmailAssumption
<1>6. mark \in Nat /\ \A m \in inbox : Date[m] \in Nat
  BY MarksAreNat, EmailAssumption DEF IntakeInv, MarkTypes
<1>7. FetchedFirst'
  BY <1>1, <1>2 DEF CoverInv, FetchedFirst, Behind
<1>8. \A m \in inbox \ Handled : m \in p
  BY <1>2, <1>5, <1>6 DEF CoverInv, Passes, since
<1>9. cur = None
  BY <1>2 DEF CoverInv, InHand
<1>10. InHand'
  BY <1>1, <1>2, <1>8, <1>9 DEF InHand, Handled
<1>11. MarkCoversNothingNew'
  BY <1>2 DEF CoverInv, MarkCoversNothingNew
<1> QED
  BY <1>2, <1>7, <1>10, <1>11 DEF CoverInv

\* Mail that is listed now is newer than every mark.
LEMMA NewerThanMarks ==
    ASSUME IntakeInv, FetchedFirst, NEW m \in Mail, Newest(m), NEW k \in Marks \cup {NoMark}, Behind(k)
    PROVE  ~(Date[m] < k)
<1>1. k \in Int /\ clock \in Nat /\ Date[m] \in Nat /\ \A f \in fetched : Date[f] \in Nat
  BY MarksAreNat, EmailAssumption DEF IntakeInv, MarkTypes, NoMark
<1> QED
  BY <1>1 DEF Behind, Newest

LEMMA ArriveCovers ==
    ASSUME IntakeInv, CoverInv, InOrder, NEW m \in Mail, Arrive(m)
    PROVE  CoverInv'
<1>1. /\ inbox' = inbox \cup {m} /\ Newest(m)
      /\ UNCHANGED <<log, givenUp, dropped, clock, fetched, mark, diskMark, durable, poll, posting, batch, cur,
                     running>>
  BY DEF Arrive, pollVars, missed, Newest
<1>2. ~(Date[m] < mark) /\ ~(Date[m] < diskMark)
  BY <1>1, NewerThanMarks DEF IntakeInv, MarkTypes, CoverInv, FetchedFirst
<1>3. IsFiniteSet(inbox')
  BY <1>1, FS_AddElement DEF CoverInv, FetchedFirst
<1>4. FetchedFirst'
  BY <1>1, <1>3 DEF CoverInv, FetchedFirst, Behind
<1>5. InHand'
  BY <1>1 DEF CoverInv, InHand, Handled, Newest
<1>6. MarkCoversNothingNew' /\ (Passes(mark) => Passes(mark)')
  BY <1>1, <1>2 DEF CoverInv, MarkCoversNothingNew, Passes, Handled
<1> QED
  BY <1>1, <1>4, <1>5, <1>6 DEF CoverInv

\* The loop takes its oldest message, and the mark moves past it.
LEMMA TakeCovers ==
    ASSUME IntakeInv, CoverInv, NEW m \in batch, Oldest(m), poll = "loop",
           batch' = batch \ {m}, mark' = Later(m), durable' \in {durable, mark'},
           \/ poll' = "loop" /\ cur' = cur /\ m \in Handled
           \/ poll' = "staging" /\ cur' = m,
           UNCHANGED <<inbox, log, givenUp, dropped, clock, fetched, diskMark, posting, running>>
    PROVE  CoverInv'
<1>1. m \in fetched /\ cur = None /\ m # None
  BY EmailAssumption DEF CoverInv, FetchedFirst, InHand, IntakeInv, MarkTypes
<1>2. Behind(Later(m))
  <2>1. Date[m] + 1 <= Date[m] + 1
    BY EmailAssumption DEF IntakeInv, MarkTypes
  <2> QED
    BY <1>1, <2>1 DEF CoverInv, FetchedFirst, Behind, Later
<1>3. FetchedFirst'
  BY <1>2 DEF CoverInv, FetchedFirst, Behind
<1>4. InHand'
  <2>1. /\ posting = {} /\ posting' = {} /\ inbox' = inbox /\ fetched' = fetched /\ Handled' = Handled
        /\ \A n \in inbox \ Handled : n \in batch \/ n = cur \/ Newest(n)
        /\ \A n \in inbox : Newest(n)' <=> Newest(n)
    BY DEF CoverInv, InHand, Handled, Newest
  <2>2. \A n \in inbox : n # None
    BY EmailAssumption DEF IntakeInv, MarkTypes
  <2>3. CASE poll' = "loop" /\ cur' = cur /\ m \in Handled
    <3>1. \A n \in inbox \ Handled : n \in batch' \/ Newest(n)
      BY <1>1, <2>1, <2>2, <2>3
    <3> QED
      BY <1>1, <2>1, <2>3, <3>1 DEF InHand
  <2>4. CASE poll' = "staging" /\ cur' = m
    <3>1. \A n \in inbox \ Handled : n \in batch' \/ n = m \/ Newest(n)
      BY <1>1, <2>1, <2>2
    <3>2. \A n \in batch' : Date[m] <= Date[n]
      BY DEF Oldest
    <3> QED
      BY <1>1, <2>1, <2>4, <3>1, <3>2 DEF InHand
  <2> QED
    BY <2>3, <2>4
<1> QED
  BY <1>3, <1>4 DEF CoverInv, MarkCoversNothingNew, Handled

\* The message in hand is handled: its row is written, it is queued, or it is given up.
LEMMA HandleCovers ==
    ASSUME IntakeInv, CoverInv, poll \in {"staging", "staged"},
           ToSet(log') \subseteq ToSet(log) \cup {cur}, Handled \subseteq Handled', cur \in Handled',
           \/ poll' = "staged" /\ cur' = cur
           \/ poll' = "loop" /\ cur' = None,
           durable' \in {durable, mark},
           UNCHANGED <<inbox, fetched, dropped, clock, mark, diskMark, posting, batch, running>>
    PROVE  CoverInv'
<1>1. FetchedFirst'
  BY DEF CoverInv, FetchedFirst, InHand, Behind
<1>2. InHand'
  BY DEF CoverInv, InHand, Newest
<1> QED
  BY <1>1, <1>2 DEF CoverInv, MarkCoversNothingNew, Handled

\* A poll ends: the mark has passed only what is handled, or the adapter has stopped.
LEMMA EndCovers ==
    ASSUME IntakeInv, CoverInv, poll # "idle", poll' = "idle", cur' = None, batch' = {},
           mark' \in Marks, Behind(mark'),
           IF running THEN Passes(mark') ELSE posting' = {},
           UNCHANGED <<inbox, log, givenUp, dropped, clock, fetched, diskMark, durable, running>>
    PROVE  CoverInv'
<1>1. FetchedFirst'
  BY DEF CoverInv, FetchedFirst, Behind
<1>2. InHand'
  BY DEF CoverInv, InHand
<1>3. Passes(mark') => Passes(mark)'
  BY DEF Passes, Handled
<1> QED
  BY <1>1, <1>2, <1>3 DEF CoverInv, MarkCoversNothingNew, Handled

\* One step of the adapter, on what the mark has passed.
LEMMA CoverStep ==
    ASSUME IntakeInv, IntakeInv', CoverInv, InOrder, ~SlowPost, PageHoldsAll, [Next]_vars
    PROVE  CoverInv'
<1> USE DEF durables, pollVars, missed, bounds
<1>1. CASE UNCHANGED vars
  BY <1>1, CoverFrame DEF vars
<1>2. ASSUME NEW m \in Mail, IntakeSettled(m) \/ DeliveryEnds(m) PROVE CoverInv'
  BY <1>2, CoverFrame DEF IntakeSettled, DeliveryEnds
<1>3. CASE PollSkip
  <2>1. PICK m \in batch : /\ Oldest(m) /\ m \in staged \cup Skipped
                           /\ batch' = batch \ {m} /\ mark' = Later(m) /\ durable' = Later(m)
    BY <1>3 DEF PollSkip
  <2>2. m \in Handled
    BY <2>1 DEF IntakeInv, LogInv, Handled
  <2>3. /\ poll = "loop" /\ poll' = "loop" /\ cur' = cur
        /\ UNCHANGED <<inbox, log, givenUp, dropped, clock, fetched, diskMark, posting, running>>
    BY <1>3 DEF PollSkip
  <2> QED
    BY <2>1, <2>2, <2>3, TakeCovers
<1>4. CASE PollStage
  <2>1. PICK m \in batch : Oldest(m) /\ cur' = m /\ batch' = batch \ {m} /\ mark' = Later(m)
    BY <1>4 DEF PollStage
  <2>2. /\ poll = "loop" /\ poll' = "staging" /\ durable' = durable
        /\ UNCHANGED <<inbox, log, givenUp, dropped, clock, fetched, diskMark, posting, running>>
    BY <1>4 DEF PollStage
  <2> QED
    BY <2>1, <2>2, TakeCovers
<1>5. CASE WriteAhead
  <2>1. /\ poll = "staging" /\ log' = Append(Without(log, cur), cur) /\ poll' = "staged"
        /\ UNCHANGED <<inbox, givenUp, dropped, clock, fetched, mark, diskMark, durable, posting, batch, cur, running>>
    BY <1>5 DEF WriteAhead
  <2>2. ToSet(log') = ToSet(log) \cup {cur}
    <3> DEFINE w == Without(log, cur)
    <3>1. log \in Seq(Mail) /\ NoRepeats(log) /\ cur \in Mail
      BY <2>1 DEF IntakeInv, LogInv
    <3>2. w \in Seq(Mail) /\ NoRepeats(w) /\ ToSet(w) = ToSet(log) \ {cur}
      BY <3>1, WithoutIs
    <3> HIDE DEF w
    <3>3. ToSet(Append(w, cur)) = ToSet(w) \cup {cur}
      BY <3>1, <3>2, AppendIs
    <3>4. log' = Append(w, cur)
      BY <2>1 DEF w
    <3> QED
      BY <3>2, <3>3, <3>4
  <2>3. Handled \subseteq Handled' /\ cur \in Handled'
    BY <2>1, <2>2 DEF Handled
  <2> QED
    BY <2>1, <2>2, <2>3, HandleCovers
<1>6. CASE PollQueue
  <2>1. /\ poll = "staged" /\ cur' = None
        /\ UNCHANGED <<inbox, log, givenUp, dropped, clock, fetched, diskMark, posting, running>>
    BY <1>6 DEF PollQueue
  <2>2. cur \in Handled
    BY <2>1 DEF IntakeInv, LogInv, Handled
  <2>3. CASE running
    <3>1. durable' = mark /\ poll' = "loop" /\ UNCHANGED <<mark, batch>>
      BY <1>6, <2>3 DEF PollQueue
    <3>2. Handled' = Handled
      BY <2>1 DEF Handled
    <3> QED
      BY <2>1, <2>2, <3>1, <3>2, HandleCovers
  <2>4. CASE ~running
    <3>1. mark' = durable /\ poll' = "idle" /\ batch' = {} /\ UNCHANGED durable
      BY <1>6, <2>4 DEF PollQueue
    <3>2. posting' = {} /\ Behind(durable) /\ durable \in Marks
      BY <2>1 DEF CoverInv, FetchedFirst, InHand, IntakeInv, MarkTypes
    <3> QED
      BY <2>1, <2>4, <3>1, <3>2, EndCovers
  <2> QED
    BY <2>3, <2>4
<1>7. CASE PollRetry
  <2>1. /\ poll = "staging" /\ mark' = (IF durable < Date[cur] THEN durable ELSE Date[cur])
        /\ batch' = {} /\ cur' = None /\ poll' = "idle"
        /\ UNCHANGED <<inbox, log, givenUp, dropped, clock, fetched, diskMark, durable, running>>
    BY <1>7 DEF PollRetry
  <2>2. ~running => posting' = {}
    BY <1>7, <2>1 DEF PollRetry, CoverInv, InHand
  <2>3. /\ cur \in fetched /\ cur \in Mail /\ Date[cur] \in Nat /\ durable \in Nat
        /\ mark' \in Marks /\ \A m \in inbox : Date[m] \in Nat
    BY <2>1, MarksAreNat, EmailAssumption DEF CoverInv, InHand, IntakeInv, MarkTypes, LogInv
  <2>4. mark' <= Date[cur] /\ mark' \in Nat
    BY <2>1, <2>3
  <2>5. Behind(mark')
    <3>1. mark' <= Date[cur] + 1
      BY <2>3, <2>4
    <3> QED
      BY <2>3, <3>1 DEF Behind
  <2>6. Passes(mark')
    <3> SUFFICES ASSUME NEW m \in inbox \ Handled, Date[m] < mark' PROVE FALSE
      BY DEF Passes
    <3>1. Date[m] < Date[cur]
      BY <2>3, <2>4
    <3>2. m \notin batch /\ m # cur /\ ~Newest(m)
      BY <2>1, <2>3, <3>1, EmailAssumption DEF CoverInv, InHand, IntakeInv, MarkTypes, Newest
    <3> QED
      BY <2>1, <3>2 DEF CoverInv, InHand
  <2> QED
    BY <2>1, <2>2, <2>3, <2>5, <2>6, EndCovers
<1>8. CASE PollGiveUp
  <2>1. /\ poll = "staging" /\ givenUp' = givenUp \cup {cur} /\ durable' = mark /\ cur' = None
        /\ poll' = "loop"
        /\ UNCHANGED <<inbox, log, fetched, dropped, clock, mark, diskMark, posting, batch, running>>
    BY <1>8 DEF PollGiveUp
  <2>2. Handled \subseteq Handled' /\ cur \in Handled'
    BY <2>1 DEF Handled
  <2> QED
    BY <2>1, <2>2, HandleCovers
<1>9. CASE PollEnd
  <2>1. /\ poll = "loop" /\ poll' = "idle" /\ batch' = {} /\ cur' = None
        /\ UNCHANGED <<inbox, log, givenUp, dropped, clock, fetched, diskMark, durable, running>>
        /\ running => batch = {} /\ mark' = mark
        /\ mark' \in {mark, durable}
    BY <1>9 DEF PollEnd, CoverInv, InHand
  <2>2. ~running => posting' = {}
    BY <1>9, <2>1 DEF PollEnd, CoverInv, InHand
  <2>3. Behind(mark') /\ mark' \in Marks
    BY <2>1 DEF CoverInv, FetchedFirst, IntakeInv, MarkTypes
  <2>4. running => Passes(mark')
    <3> SUFFICES ASSUME running, NEW m \in inbox \ Handled, Date[m] < mark PROVE FALSE
      BY <2>1 DEF Passes
    <3>1. m # None /\ m \in Mail
      BY EmailAssumption DEF IntakeInv, MarkTypes
    <3>2. Newest(m)
      BY <2>1, <3>1 DEF CoverInv, InHand
    <3> QED
      BY <3>1, <3>2, NewerThanMarks DEF CoverInv, FetchedFirst, IntakeInv, MarkTypes
  <2> QED
    BY <2>1, <2>2, <2>3, <2>4, EndCovers
<1>10. CASE PersistMark
  <2>1. posting # {} /\ diskMark' \in {mark, diskMark} /\ posting' \subseteq posting
    BY <1>10 DEF PersistMark
  <2>2. UNCHANGED <<inbox, log, givenUp, dropped, clock, fetched, mark, durable, poll, batch, cur, running>>
    BY <1>10 DEF PersistMark
  <2>3. poll = "idle" /\ Passes(mark)
    BY <2>1 DEF CoverInv, InHand, IntakeInv, LogInv
  <2>4. MarkCoversNothingNew' /\ Passes(mark)'
    BY <2>1, <2>2, <2>3 DEF CoverInv, MarkCoversNothingNew, Passes, Handled
  <2>5. FetchedFirst'
    BY <2>1, <2>2 DEF CoverInv, FetchedFirst, Behind
  <2>6. InHand'
    BY <2>2, <2>3 DEF CoverInv, InHand
  <2> QED
    BY <2>4, <2>5, <2>6 DEF CoverInv
<1>11. CASE Stop
  BY <1>11, CoverFrame DEF Stop
<1>12. CASE Crash
  <2>1. /\ mark' = 0 /\ durable' = 0 /\ posting' = {} /\ poll' = "idle"
        /\ batch' = {} /\ cur' = None /\ running' = FALSE
        /\ UNCHANGED <<inbox, diskMark, log, fetched, givenUp, dropped, clock>>
    BY <1>12 DEF Crash
  <2>2. 0 <= clock
    BY MarksAreNat DEF IntakeInv, MarkTypes
  <2> QED
    BY <2>1, <2>2 DEF CoverInv, FetchedFirst, InHand, MarkCoversNothingNew, Handled, Behind
<1>13. CASE Start
  <2>1. UNCHANGED <<inbox, diskMark, log, fetched, givenUp, durable, posting, poll, batch, cur>>
    BY <1>13 DEF Start
  <2>2. poll = "idle" /\ cur = None
    BY <1>13 DEF Start, IntakeInv, ProcessInv
  <2>3. CASE mark' = diskMark /\ UNCHANGED <<dropped, clock>>
    BY <2>1, <2>2, <2>3 DEF CoverInv, FetchedFirst, InHand, MarkCoversNothingNew, Handled, Behind, Passes
  <2>4. ASSUME clock' = mark', mark' \in Marks, clock <= mark',
               dropped' = dropped \cup {m \in inbox \ ToSet(log) : Date[m] < mark'}
        PROVE  CoverInv'
    <3>1. \A k \in Marks \cup {NoMark} : Behind(k) => Behind(k)'
      BY <2>1, <2>4, MarksAreNat DEF Behind, IntakeInv, MarkTypes, NoMark
    <3>2. mark' <= clock'
      BY <2>4, MarksAreNat
    <3>3. FetchedFirst'
      BY <2>1, <3>1, <3>2 DEF CoverInv, FetchedFirst, IntakeInv, MarkTypes, Behind
    <3>4. MarkCoversNothingNew' /\ Passes(mark)'
      BY <2>1, <2>4 DEF CoverInv, MarkCoversNothingNew, Passes, Handled
    <3>5. InHand'
      BY <2>1, <2>2 DEF InHand
    <3> QED
      BY <3>3, <3>4, <3>5 DEF CoverInv
  <2> QED
    BY <1>13, <2>3, <2>4, RestoreChooses DEF Start, IntakeInv
<1>14. CASE Replay
  BY <1>14, CoverFrame DEF Replay
<1> QED
  BY <1>1, <1>2, <1>3, <1>4, <1>5, <1>6, <1>7, <1>8, <1>9, <1>10, <1>11, <1>12, <1>13, <1>14,
     ArriveCovers, FetchCovers DEF Next, PollStep

LEMMA CoverInvInit == Init => CoverInv
BY FS_EmptySet DEF Init, CoverInv, FetchedFirst, InHand, MarkCoversNothingNew, Passes, Behind, ToSet,
   NoMark

\* poll, persistLastSeen and the rollback of the mark (src/channels/email/email-adapter.ts):
\* while the provider lists mail in order, no poll starts before the last one has persisted its
\* mark and no page is cut, the persisted mark passes a message only when its row is in the log,
\* it was skipped or given up, or it was older than a start that took the time for its mark,
\* because none was stored or the read failed: over failed writes, rows and reads, stop, crash
\* and start.  What such a start drops is lost, as the code says itself.
THEOREM MarkIsSafe ==
    ASSUME InOrder, ~SlowPost
    PROVE  Spec /\ []PageHoldsAll => []MarkCoversNothingNew
<1>1. Init => IntakeInv /\ CoverInv
  BY IntakeInvInit, CoverInvInit
<1>2. (IntakeInv /\ CoverInv) /\ PageHoldsAll /\ [Next]_vars => (IntakeInv /\ CoverInv)'
  BY IntakeInvStep, CoverStep
<1>3. IntakeInv /\ CoverInv => MarkCoversNothingNew
  BY DEF CoverInv
<1> QED
  BY <1>1, <1>2, <1>3, PTL DEF Spec

(***************************************************************************)
(* The order of delivery.  The log, the rows to replay and each thread's   *)
(* queue are in date order, except for mail that has had its turn; and     *)
(* while the adapter runs, what the log has and has not had its turn is    *)
(* queued, waits for replay, or is just written.                           *)
(***************************************************************************)
Done == begun \cup Skipped \cup givenUp \cup unreplayed \cup dropped

Sorted(s, D) == \A i, k \in DOMAIN s : i < k /\ Date[s[k]] < Date[s[i]] => s[k] \in D

LogOrder ==
    /\ acked \subseteq begun /\ Sorted(log, Done)
    /\ \A m \in inbox \ Handled : \A n \in ToSet(log) : Date[n] <= Date[m]
    /\ poll = "staging" => cur \notin ToSet(log) \ Done
    /\ poll = "staged" => \A n \in ToSet(log) : Date[cur] < Date[n] => cur \in Done

QueueOrder ==
    /\ running => \A m \in ToSet(log) \ Done : \/ m \in ToSet(pending[Thread[m]])
                                               \/ m \in ToSet(replay)
                                               \/ poll = "staged" /\ m = cur
    /\ \A th \in Threads : Sorted(pending[th], Done)
    /\ Sorted(replay, Done)
    /\ \A m \in ToSet(replay) : \A n \in ToSet(pending[Thread[m]]) : Date[m] < Date[n] => m \in Done

LEMMA WithoutKeepsOrder ==
    ASSUME NEW s \in Seq(Mail), NEW x, NEW D, Sorted(s, D)
    PROVE  Sorted(Without(s, x), D)
<1>1. CASE \E i \in 1 .. Len(s) : s[i] = x
  <2> DEFINE I == {i \in 1 .. Len(s) : s[i] = x}
             k == Min(I)
             w == RemoveAt(s, k)
  <2>1. I # {} /\ I \in SUBSET Nat
    BY <1>1
  <2>2. SelectInSeq(s, LAMBDA v : v = x) = Min(I)
    BY <2>1 DEF SelectInSeq
  <2>3. k \in 1 .. Len(s)
    BY <2>1, MinType
  <2>4. Without(s, x) = w
    BY <1>1, <2>2 DEF Without, RemoveFirst
  <2> HIDE DEF I, k
  <2>5. /\ w \in Seq(Mail) /\ Len(w) = Len(s) - 1
        /\ \A i \in 1 .. Len(s) - 1 : w[i] = IF i < k THEN s[i] ELSE s[i + 1]
    BY <2>3, RemoveAtIs
  <2> HIDE DEF w
  <2>6. Sorted(w, D)
    <3> SUFFICES ASSUME NEW i \in 1 .. Len(s) - 1, NEW j \in 1 .. Len(s) - 1, i < j,
                        Date[w[j]] < Date[w[i]]
                 PROVE  w[j] \in D
      BY <2>5 DEF Sorted
    <3>1. \E p, q \in 1 .. Len(s) : p < q /\ s[p] = w[i] /\ s[q] = w[j]
      <4>1. PICK p \in 1 .. Len(s) : p = (IF i < k THEN i ELSE i + 1)
        BY <2>3
      <4>2. PICK q \in 1 .. Len(s) : q = (IF j < k THEN j ELSE j + 1)
        BY <2>3
      <4>3. p < q
        BY <2>3, <4>1, <4>2
      <4>4. s[p] = w[i] /\ s[q] = w[j]
        BY <2>5, <4>1, <4>2
      <4> QED
        BY <4>3, <4>4
    <3> QED
      BY <3>1 DEF Sorted
  <2> QED
    BY <2>4, <2>6
<1>2. CASE ~\E i \in 1 .. Len(s) : s[i] = x
  BY <1>2 DEF Without, RemoveFirst
<1> QED
  BY <1>1, <1>2

LEMMA AppendKeepsOrder ==
    ASSUME NEW s \in Seq(Mail), NEW x \in Mail, NEW D, Sorted(s, D),
           \A n \in ToSet(s) : Date[x] < Date[n] => x \in D
    PROVE  Sorted(Append(s, x), D)
<1> DEFINE a == Append(s, x)
<1>1. /\ a \in Seq(Mail) /\ Len(a) = Len(s) + 1 /\ Len(s) \in Nat
      /\ \A i \in 1 .. Len(s) : a[i] = s[i]
      /\ a[Len(s) + 1] = x
  OBVIOUS
<1> HIDE DEF a
<1>2. SUFFICES ASSUME NEW i \in 1 .. Len(s) + 1, NEW k \in 1 .. Len(s) + 1, i < k,
                      Date[a[k]] < Date[a[i]]
               PROVE  a[k] \in D
  BY <1>1 DEF Sorted, a
<1>3. i \in 1 .. Len(s) /\ a[i] = s[i] /\ a[i] \in ToSet(s)
  BY <1>1, <1>2 DEF ToSet
<1>4. CASE k \in 1 .. Len(s)
  BY <1>1, <1>2, <1>3, <1>4 DEF Sorted
<1>5. CASE k = Len(s) + 1
  BY <1>1, <1>2, <1>3, <1>5
<1> QED
  BY <1>4, <1>5

LEMMA TailKeepsOrder ==
    ASSUME NEW s \in Seq(Mail), NEW D, Sorted(s, D), s # <<>>
    PROVE  /\ Sorted(Tail(s), D)
           /\ \A n \in ToSet(s) : Date[n] < Date[Head(s)] => n \in D
<1>1. /\ Tail(s) \in Seq(Mail) /\ Len(Tail(s)) = Len(s) - 1 /\ Len(s) >= 1 /\ Len(s) \in Nat
      /\ \A i \in 1 .. Len(s) - 1 : Tail(s)[i] = s[i + 1]
      /\ Head(s) = s[1] /\ DOMAIN s = 1 .. Len(s) /\ DOMAIN Tail(s) = 1 .. Len(s) - 1
  OBVIOUS
<1>2. Sorted(Tail(s), D)
  BY <1>1 DEF Sorted
<1>3. ASSUME NEW k \in 1 .. Len(s), Date[s[k]] < Date[s[1]] PROVE s[k] \in D
  <2>1. Date[s[1]] \in Nat /\ 1 \in DOMAIN s
    BY <1>1, EmailAssumption
  <2>2. k # 1
    BY <1>3, <2>1
  <2> QED
    BY <1>1, <1>3, <2>1, <2>2 DEF Sorted
<1> QED
  BY <1>1, <1>2, <1>3 DEF ToSet

LEMMA MoreDone ==
    ASSUME NEW s, NEW D, NEW E, Sorted(s, D), D \subseteq E
    PROVE  Sorted(s, E)
BY DEF Sorted

LEMMA NothingToSort == \A D : Sorted(<<>>, D)
BY DEF Sorted

OrderInv == LogOrder /\ QueueOrder

\* In date order, what is before a logged message is logged, or has had its turn.
LEMMA OldIsLogged ==
    ASSUME IntakeInv, LogOrder, NEW m \in inbox, NEW n \in ToSet(log), Date[m] < Date[n], m \notin Done
    PROVE  m \in ToSet(log)
<1>1. m \in Mail /\ n \in Mail
  BY DEF IntakeInv, MarkTypes, LogInv, ToSet
<1>2. Date[m] \in Nat /\ Date[n] \in Nat
  BY <1>1, EmailAssumption
<1> QED
  BY <1>2 DEF LogOrder, Handled, Done

\* A settled delivery or intake starts the head of one queue, or nothing.
LEMMA SettleMoves ==
    ASSUME IntakeInv, NEW m \in Mail, IntakeSettled(m) \/ DeliveryEnds(m)
    PROVE  \/ UNCHANGED <<pending, begun>> /\ inFlight' \subseteq inFlight
           \/ \E th \in Threads :
                /\ running /\ pending[th] # <<>>
                /\ pending' = [pending EXCEPT ![th] = Tail(pending[th])]
                /\ begun' = begun \cup {Head(pending[th])}
                /\ inFlight' \subseteq inFlight \cup {Head(pending[th])}
<1>1. ASSUME NEW flying \in SUBSET inFlight, NEW own,
             IF running
             THEN DrainSlots(Requeue(Thread[m], slots), flying, own)
             ELSE inFlight' = flying /\ UNCHANGED <<pending, begun>>
      PROVE  \/ UNCHANGED <<pending, begun>> /\ inFlight' \subseteq inFlight
             \/ \E th \in Threads :
                  /\ running /\ pending[th] # <<>>
                  /\ pending' = [pending EXCEPT ![th] = Tail(pending[th])]
                  /\ begun' = begun \cup {Head(pending[th])}
                  /\ inFlight' \subseteq inFlight \cup {Head(pending[th])}
  <2>1. CASE running
    <3> DEFINE ws == Requeue(Thread[m], slots)
    <3>1. ws \in Seq(Threads)
      BY RequeueIs, EmailAssumption DEF IntakeInv
    <3>2. DrainSlots(ws, flying, own)
      BY <1>1, <2>1
    <3> HIDE DEF ws
    <3>3. \/ UNCHANGED <<pending, begun>> /\ inFlight' = flying
          \/ \E k \in 1 .. Len(ws) :
               /\ pending[ws[k]] # <<>>
               /\ pending' = [pending EXCEPT ![ws[k]] = Tail(@)]
               /\ begun' = begun \cup {Head(pending[ws[k]])}
               /\ inFlight' = flying \cup {Head(pending[ws[k]])}
      BY <3>1, <3>2, DrainChooses
    <3>4. \A k \in 1 .. Len(ws) : ws[k] \in Threads
      BY <3>1
    <3> QED
      BY <2>1, <3>3, <3>4
  <2>2. CASE ~running
    BY <1>1, <2>2
  <2> QED
    BY <2>1, <2>2
<1>2. CASE IntakeSettled(m)
  <2> DEFINE own == [owner EXCEPT ![Thread[m]] = None]
  <2>1. IF running
        THEN DrainSlots(Requeue(Thread[m], slots), inFlight, own)
        ELSE inFlight' = inFlight /\ UNCHANGED <<pending, begun>>
    BY <1>2 DEF IntakeSettled
  <2> HIDE DEF own
  <2> QED
    BY <1>1, <2>1
<1>3. CASE DeliveryEnds(m)
  <2> DEFINE own == [owner EXCEPT ![Thread[m]] = IF @ = m THEN None ELSE @]
             flying == inFlight \ {m}
  <2>1. IF running
        THEN DrainSlots(Requeue(Thread[m], slots), flying, own)
        ELSE inFlight' = flying /\ UNCHANGED <<pending, begun>>
    BY <1>3 DEF DeliveryEnds
  <2>2. flying \in SUBSET inFlight
    OBVIOUS
  <2> HIDE DEF own, flying
  <2> QED
    BY <1>1, <2>1, <2>2
<1> QED
  BY <1>2, <1>3

\* enqueueInbound puts a message at the end of its thread's queue, or starts it.
LEMMA EnqueueMoves ==
    ASSUME IntakeInv, running, NEW m \in Mail, Enqueue(m)
    PROVE  \/ /\ pending' = [pending EXCEPT ![Thread[m]] = Append(pending[Thread[m]], m)]
              /\ UNCHANGED <<begun, inFlight>>
           \/ /\ pending[Thread[m]] = <<>> /\ pending' = pending
              /\ begun' = begun \cup {m} /\ inFlight' = inFlight \cup {m}
<1> DEFINE th == Thread[m]
           q == Append(pending[th], m)
<1>1. th \in Threads /\ pending[th] \in Seq(Mail)
  BY EmailAssumption DEF IntakeInv, RunnerInv, RunnerTypes
<1>2. CASE owner[th] # None \/ Full
  BY <1>2 DEF Enqueue
<1>3. CASE owner[th] = None /\ ~Full
  <2>1. /\ pending' = [pending EXCEPT ![th] = Tail(q)]
        /\ inFlight' = inFlight \cup {Head(q)} /\ begun' = begun \cup {Head(q)}
    BY <1>3 DEF Enqueue, StartThread
  <2>2. pending[th] = <<>>
    BY <1>1, <1>3 DEF IntakeInv, RunnerInv, SlotsWellUsed, NoIdleThread
  <2>3. Head(q) = m /\ Tail(q) = <<>>
    BY <2>2
  <2> HIDE DEF q
  <2>4. pending' = pending
    BY <2>1, <2>2, <2>3 DEF IntakeInv, RunnerInv, RunnerTypes
  <2> QED
    BY <2>1, <2>2, <2>3, <2>4
<1> QED
  BY <1>2, <1>3

\* The head of a thread's queue is the oldest message of its thread that has not had its turn.
LEMMA HeadIsOldest ==
    ASSUME IntakeInv, OrderInv, running, NEW th \in Threads, pending[th] # <<>>,
           NEW m \in inbox, Thread[m] = th, Date[m] < Date[Head(pending[th])]
    PROVE  m \in Done
<1> DEFINE n == Head(pending[th])
<1> SUFFICES ASSUME m \notin Done PROVE FALSE
  OBVIOUS
<1>1. pending[th] \in Seq(Mail) /\ NoRepeats(pending[th])
  BY DEF IntakeInv, RunnerInv, RunnerTypes, QueuesAreNew
<1>2. n \in ToSet(pending[th])
  BY <1>1, TailIs
<1>3. n \in ToSet(log)
  BY <1>2 DEF IntakeInv, RunnerInv, QueuesAreNew, LogInv
<1> HIDE DEF n
<1>4. m \in ToSet(log) \ Done
  BY <1>3, OldIsLogged DEF OrderInv, n
<1>5. m \notin ToSet(pending[th])
  <2>1. \A x \in ToSet(pending[th]) : Date[x] < Date[n] => x \in Done
    BY <1>1, TailKeepsOrder DEF OrderInv, QueueOrder, n
  <2> QED
    BY <1>4, <2>1 DEF n
<1>6. m \notin ToSet(replay)
  BY <1>2, <1>4 DEF OrderInv, QueueOrder, n
<1>7. ~(poll = "staged" /\ m = cur)
  BY <1>3, <1>4 DEF OrderInv, LogOrder, n
<1> QED
  BY <1>4, <1>5, <1>6, <1>7 DEF OrderInv, QueueOrder

LEMMA DoneGrows ==
    ASSUME IntakeInv, [Next]_vars
    PROVE  /\ Done \subseteq Done' /\ begun \subseteq begun' /\ givenUp \subseteq givenUp'
           /\ dropped \subseteq dropped'
<1> USE DEF durables, pollVars, missed, bounds, runner
<1>1. begun \subseteq begun'
  <2>1. ASSUME NEW m \in Mail, IntakeSettled(m) \/ DeliveryEnds(m) PROVE begun \subseteq begun'
    BY <2>1, SettleMoves
  <2>2. CASE PollQueue
    <3>1. cur \in Mail
      BY <2>2 DEF PollQueue, IntakeInv, LogInv
    <3> QED
      BY <2>2, <3>1, EnqueueMoves DEF PollQueue
  <2>3. CASE Replay
    <3>1. Head(replay) \in Mail
      BY <2>3, TailIs DEF Replay, IntakeInv, LogInv
    <3> QED
      BY <2>3, <3>1, EnqueueMoves DEF Replay
  <2> QED
    BY <2>1, <2>2, <2>3 DEF Next, vars, PollStep, Arrive, Fetch, PollSkip, PollStage, WriteAhead,
       PollRetry, PollGiveUp, PollEnd, PersistMark, Stop, Crash, Start
<1>2. /\ givenUp \subseteq givenUp' /\ unreplayed \subseteq unreplayed'
      /\ dropped \subseteq dropped'
  <2>1. CASE Start
    <3>1. unreplayed \subseteq unreplayed' /\ UNCHANGED givenUp
      BY <2>1 DEF Start, LoadReplay
    <3>2. dropped \subseteq dropped'
      BY <2>1 DEF Start, RestoreMark
    <3> QED
      BY <3>1, <3>2
  <2> QED
    BY <2>1 DEF Next, vars, PollStep, Arrive, IntakeSettled, DeliveryEnds, Fetch, PollSkip,
       PollStage, WriteAhead, PollQueue, PollRetry, PollGiveUp, PollEnd, PersistMark, Stop, Crash,
       Replay
<1> QED
  BY <1>1, <1>2 DEF Done

LEMMA LogOrderFrame ==
    ASSUME LogOrder, Done \subseteq Done', begun \subseteq begun', givenUp \subseteq givenUp',
           dropped \subseteq dropped', acked' \subseteq begun', UNCHANGED <<inbox, log>>,
           poll' \in {"idle", "loop"} \/ UNCHANGED <<poll, cur>>
    PROVE  LogOrder'
<1>1. Sorted(log, Done)'
  BY DEF LogOrder, Sorted
<1>2. Handled \subseteq Handled'
  BY DEF Handled
<1> QED
  BY <1>1, <1>2 DEF LogOrder

\* One step of the adapter, on the order of the log.
LEMMA LogOrderStep ==
    ASSUME IntakeInv, IntakeInv', CoverInv, InOrder, OrderInv, [Next]_vars
    PROVE  LogOrder'
<1> USE DEF durables, pollVars, missed, bounds
<1>0. /\ LogOrder /\ Done \subseteq Done' /\ begun \subseteq begun' /\ givenUp \subseteq givenUp'
      /\ dropped \subseteq dropped'
  BY DoneGrows DEF OrderInv
<1>1. ASSUME UNCHANGED <<inbox, log, acked>>, poll' \in {"idle", "loop"} \/ UNCHANGED <<poll, cur>>
      PROVE  LogOrder'
  <2>1. acked' \subseteq begun'
    BY <1>0, <1>1 DEF LogOrder
  <2> QED
    BY <1>0, <1>1, <2>1, LogOrderFrame
<1>2. CASE UNCHANGED vars
  BY <1>1, <1>2 DEF vars
<1>3. ASSUME NEW m \in Mail, Arrive(m) PROVE LogOrder'
  <2>1. /\ inbox' = inbox \cup {m} /\ \A f \in fetched : Date[f] < Date[m]
        /\ UNCHANGED <<log, acked, poll, cur, givenUp, dropped>>
    BY <1>3 DEF Arrive
  <2>2. \A n \in ToSet(log) : Date[n] <= Date[m]
    <3> SUFFICES ASSUME NEW n \in ToSet(log) PROVE Date[n] <= Date[m]
      OBVIOUS
    <3>1. n \in fetched /\ n \in Mail
      BY DEF CoverInv, FetchedFirst, IntakeInv, LogInv, ToSet
    <3> QED
      BY <2>1, <3>1, EmailAssumption
  <2>3. Sorted(log, Done)'
    BY <1>0, <2>1 DEF LogOrder, Sorted
  <2> QED
    BY <1>0, <2>1, <2>2, <2>3 DEF LogOrder, Handled
<1>4. ASSUME NEW m \in Mail, IntakeSettled(m) PROVE LogOrder'
  BY <1>1, <1>4 DEF IntakeSettled
<1>5. ASSUME NEW m \in Mail, DeliveryEnds(m) PROVE LogOrder'
  <2>1. m \in begun /\ acked' \subseteq acked \cup {m} /\ UNCHANGED <<inbox, log, poll, cur>>
    BY <1>5 DEF DeliveryEnds, IntakeInv, RunnerInv, RunnerTypes
  <2>2. acked' \subseteq begun'
    BY <1>0, <2>1 DEF LogOrder
  <2> QED
    BY <1>0, <2>1, <2>2, LogOrderFrame
<1>6. CASE Fetch \/ PollSkip \/ PollQueue \/ PollRetry \/ PollGiveUp \/ PollEnd
  <2>1. UNCHANGED <<inbox, log, acked>> /\ poll' \in {"idle", "loop"}
    BY <1>6 DEF Fetch, PollSkip, PollQueue, PollRetry, PollGiveUp, PollEnd
  <2> QED
    BY <1>1, <2>1
<1>7. CASE PollStage
  <2>1. PICK m \in batch : m \notin staged \cup Skipped /\ cur' = m
    BY <1>7 DEF PollStage
  <2>2. poll = "loop" /\ running /\ poll' = "staging"
        /\ UNCHANGED <<inbox, log, acked, begun, givenUp, unreplayed, dropped>>
    BY <1>7 DEF PollStage, runner
  <2>3. m \in Mail /\ m \notin ToSet(pending[Thread[m]]) /\ m \notin ToSet(replay)
    BY <2>1, <2>2, EmailAssumption DEF IntakeInv, MarkTypes, LogInv, RunnerInv, QueuesAreNew, ToSet
  <2>4. m \notin ToSet(log) \ Done
    BY <2>2, <2>3 DEF OrderInv, QueueOrder
  <2> QED
    BY <1>0, <2>1, <2>2, <2>4 DEF LogOrder, Handled, Done
<1>8. CASE WriteAhead
  <2>1. /\ poll = "staging" /\ log' = Append(Without(log, cur), cur) /\ acked' = acked \ {cur}
        /\ poll' = "staged" /\ cur' = cur
        /\ UNCHANGED <<inbox, begun, givenUp, unreplayed, dropped, batch, fetched>>
    BY <1>8 DEF WriteAhead, runner
  <2> DEFINE w == Without(log, cur)
  <2>2. log \in Seq(Mail) /\ NoRepeats(log) /\ cur \in Mail /\ cur \notin ToSet(log) \ Done
    BY <2>1 DEF IntakeInv, LogInv, OrderInv, LogOrder
  <2>3. w \in Seq(Mail) /\ NoRepeats(w) /\ ToSet(w) = ToSet(log) \ {cur}
    BY <2>2, WithoutIs
  <2>4. Sorted(w, Done)
    BY <2>2, WithoutKeepsOrder DEF OrderInv, LogOrder
  <2> HIDE DEF w
  <2>5. ToSet(Append(w, cur)) = ToSet(log) \cup {cur}
    BY <2>2, <2>3, AppendIs
  <2>6. log' = Append(w, cur) /\ Done' = Done
    BY <2>1 DEF w, Done
  <2>7. \A n \in ToSet(log) \cup {cur} : n \in Mail /\ Date[n] \in Nat
    BY <2>2, EmailAssumption DEF ToSet
  <2>8. \A n \in ToSet(log) \cup {cur} : Date[cur] < Date[n] => cur \in Done
    <3> SUFFICES ASSUME NEW n \in ToSet(log), Date[cur] < Date[n], cur \notin Done PROVE FALSE
      BY <2>7
    <3>1. cur \notin ToSet(log)
      BY <2>2
    <3>2. cur \in inbox
      BY <2>1 DEF CoverInv, FetchedFirst, InHand
    <3>3. cur \in inbox \ Handled
      BY <3>1, <3>2 DEF Handled, Done
    <3> QED
      BY <2>7, <3>3 DEF OrderInv, LogOrder
  <2>9. Sorted(log', Done')
    <3>1. \A n \in ToSet(w) : Date[cur] < Date[n] => cur \in Done
      BY <2>3, <2>8
    <3> QED
      BY <2>2, <2>3, <2>4, <2>6, <3>1, AppendKeepsOrder
  <2>10. \A m \in inbox \ Handled' : Date[cur] <= Date[m]
    <3> SUFFICES ASSUME NEW m \in inbox \ Handled, m # cur PROVE Date[cur] <= Date[m]
      BY <2>1, <2>5, <2>6 DEF Handled
    <3>1. m \in batch \/ \A f \in fetched : Date[f] < Date[m]
      BY <2>1 DEF CoverInv, InHand, Newest
    <3>2. cur \in fetched /\ \A b \in batch : Date[cur] <= Date[b]
      BY <2>1 DEF CoverInv, InHand
    <3>3. Date[m] \in Nat /\ Date[cur] \in Nat
      BY <2>2, EmailAssumption DEF IntakeInv, MarkTypes
    <3> QED
      BY <3>1, <3>2, <3>3
  <2>11. \A m \in inbox' \ Handled' : \A n \in ToSet(log') : Date[n] <= Date[m]
    <3> SUFFICES ASSUME NEW m \in inbox \ Handled', NEW n \in ToSet(log) \cup {cur}
                 PROVE  Date[n] <= Date[m]
      BY <2>1, <2>5, <2>6
    <3>1. m \notin Handled
      BY <2>1, <2>5, <2>6 DEF Handled
    <3> QED
      BY <2>10, <3>1 DEF OrderInv, LogOrder
  <2>12. \A n \in ToSet(log') : Date[cur] < Date[n] => cur \in Done'
    BY <2>5, <2>6, <2>8
  <2>13. acked' \subseteq begun'
    BY <2>1 DEF OrderInv, LogOrder
  <2>14. Sorted(log, Done)'
    BY <2>9
  <2> QED
    BY <2>1, <2>11, <2>12, <2>13, <2>14 DEF LogOrder
<1>9. CASE PersistMark \/ Stop \/ Start \/ Replay
  BY <1>1, <1>9 DEF PersistMark, Stop, Start, Replay
<1>10. CASE Crash
  BY <1>1, <1>10 DEF Crash
<1> QED
  BY <1>2, <1>3, <1>4, <1>5, <1>6, <1>7, <1>8, <1>9, <1>10 DEF Next, PollStep

LEMMA QueueOrderFrame ==
    ASSUME QueueOrder, Done \subseteq Done', running' => running,
           UNCHANGED <<log, pending, replay>>, poll = "staged" => UNCHANGED <<poll, cur>>
    PROVE  QueueOrder'
<1>1. \A th \in Threads : Sorted(pending[th], Done)'
  BY DEF QueueOrder, Sorted
<1>2. Sorted(replay, Done)'
  BY DEF QueueOrder, Sorted
<1> QED
  BY <1>1, <1>2 DEF QueueOrder

\* The head of a queue has had its turn, and leaves it.
LEMMA HeadLeaves ==
    ASSUME IntakeInv, QueueOrder, NEW th \in Threads, pending[th] # <<>>,
           Done' = Done \cup {Head(pending[th])}, pending' = [pending EXCEPT ![th] = Tail(pending[th])],
           UNCHANGED <<log, replay, poll, cur, running>>
    PROVE  QueueOrder'
<1>1. pending \in [Threads -> Seq(Mail)] /\ NoRepeats(pending[th])
  BY DEF IntakeInv, RunnerInv, RunnerTypes, QueuesAreNew
<1>2. /\ ToSet(Tail(pending[th])) = ToSet(pending[th]) \ {Head(pending[th])}
      /\ Sorted(Tail(pending[th]), Done)
  <2>1. Sorted(pending[th], Done)
    BY DEF QueueOrder
  <2> QED
    BY <1>1, <2>1, TailIs, TailKeepsOrder
<1>3. \A t \in Threads : pending'[t] = IF t = th THEN Tail(pending[th]) ELSE pending[t]
  BY <1>1
<1>4. \A t \in Threads : Sorted(pending'[t], Done')
  BY <1>2, <1>3, MoreDone DEF QueueOrder
<1>5. \A t \in Threads : Sorted(pending[t], Done)'
  BY <1>4
<1>6. Sorted(replay, Done)'
  BY MoreDone DEF QueueOrder
<1>7. \A m \in ToSet(log) \cup ToSet(replay) : Thread[m] \in Threads
  BY EmailAssumption DEF IntakeInv, LogInv, ToSet
<1>8. ASSUME running, NEW m \in ToSet(log) \ Done'
      PROVE  \/ m \in ToSet(pending'[Thread[m]]) \/ m \in ToSet(replay)
             \/ (poll = "staged" /\ m = cur)
  <2>1. m \notin Done /\ m # Head(pending[th])
    BY <1>8
  <2>2. \/ m \in ToSet(pending[Thread[m]]) \/ m \in ToSet(replay)
        \/ (poll = "staged" /\ m = cur)
    BY <1>8, <2>1 DEF QueueOrder
  <2>3. m \in ToSet(pending[Thread[m]]) => m \in ToSet(pending'[Thread[m]])
    BY <1>2, <1>3, <1>7, <1>8, <2>1
  <2> QED
    BY <2>2, <2>3
<1>9. \A m \in ToSet(replay) : \A n \in ToSet(pending'[Thread[m]]) : Date[m] < Date[n] => m \in Done'
  BY <1>2, <1>3, <1>7 DEF QueueOrder
<1> QED
  BY <1>5, <1>6, <1>8, <1>9 DEF QueueOrder

\* A message comes to the end of its thread's queue, or starts; rest is what is left to replay.
LEMMA TurnComes ==
    ASSUME IntakeInv, QueueOrder, NEW m \in Mail, running, running' = running, log' = log,
           \/ /\ pending' = [pending EXCEPT ![Thread[m]] = Append(pending[Thread[m]], m)]
              /\ Done' = Done
           \/ pending' = pending /\ Done' = Done \cup {m},
           m \notin staged,
           \A n \in ToSet(pending[Thread[m]]) : Date[m] < Date[n] => m \in Done,
           replay' \in Seq(Mail), Sorted(replay', Done), ToSet(replay') \subseteq ToSet(replay),
           \A n \in ToSet(replay') : Date[n] < Date[m] => n \in Done,
           \A n \in ToSet(log) \ Done : \/ n \in ToSet(pending[Thread[n]])
                                        \/ n \in ToSet(replay')
                                        \/ n = m
    PROVE  QueueOrder'
<1> DEFINE th == Thread[m]
<1>1. th \in Threads /\ Done \subseteq Done'
  BY EmailAssumption
<1>2. pending \in [Threads -> Seq(Mail)] /\ NoRepeats(pending[th]) /\ m \notin ToSet(pending[th])
  BY <1>1 DEF IntakeInv, RunnerInv, RunnerTypes, QueuesAreNew
<1>3. Sorted(replay, Done)'
  BY <1>1, MoreDone
<1>4. \A n \in ToSet(log) \cup ToSet(replay') : Thread[n] \in Threads
  BY EmailAssumption DEF IntakeInv, LogInv, ToSet
<1>5. CASE pending' = pending /\ Done' = Done \cup {m}
  <2>1. \A t \in Threads : Sorted(pending[t], Done)'
    BY <1>1, <1>5, MoreDone DEF QueueOrder
  <2>2. \A n \in ToSet(replay') : \A k \in ToSet(pending'[Thread[n]]) : Date[n] < Date[k] => n \in Done'
    BY <1>1, <1>5 DEF QueueOrder
  <2>3. \A n \in ToSet(log') \ Done' : n \in ToSet(pending'[Thread[n]]) \/ n \in ToSet(replay')
    BY <1>5
  <2> QED
    BY <1>3, <2>1, <2>2, <2>3 DEF QueueOrder
<1>6. CASE pending' = [pending EXCEPT ![th] = Append(pending[th], m)] /\ Done' = Done
  <2> DEFINE q == Append(pending[th], m)
  <2>1. ToSet(q) = ToSet(pending[th]) \cup {m} /\ Sorted(q, Done)
    <3>1. Sorted(pending[th], Done)
      BY <1>1 DEF QueueOrder
    <3>2. Sorted(q, Done)
      BY <1>1, <1>2, <3>1, AppendKeepsOrder
    <3>3. ToSet(q) = ToSet(pending[th]) \cup {m}
      BY <1>1, <1>2, AppendIs
    <3> QED
      BY <3>2, <3>3
  <2> HIDE DEF q
  <2>2. \A t \in Threads : pending'[t] = IF t = th THEN q ELSE pending[t]
    BY <1>2, <1>6 DEF q
  <2>3. \A t \in Threads : Sorted(pending'[t], Done')
    BY <1>6, <2>1, <2>2 DEF QueueOrder
  <2>4. \A t \in Threads : Sorted(pending[t], Done)'
    BY <2>3
  <2>5. \A n \in ToSet(replay') : \A k \in ToSet(pending'[Thread[n]]) : Date[n] < Date[k] => n \in Done'
    BY <1>4, <1>6, <2>1, <2>2 DEF QueueOrder
  <2>6. \A n \in ToSet(log') \ Done' : n \in ToSet(pending'[Thread[n]]) \/ n \in ToSet(replay')
    BY <1>4, <1>6, <2>1, <2>2
  <2> QED
    BY <1>3, <2>4, <2>5, <2>6 DEF QueueOrder
<1> QED
  BY <1>5, <1>6

\* What a step starts is the oldest message of its thread that has not had its turn.
StartsOldest ==
    \A m \in inbox, n \in inFlight' \ inFlight :
        Thread[m] = Thread[n] /\ Date[m] < Date[n] => m \in Done

\* One step of the adapter, on the order of the queues and on what it starts.
LEMMA QueueOrderStep ==
    ASSUME IntakeInv, IntakeInv', OrderInv, [Next]_vars
    PROVE  QueueOrder' /\ StartsOldest
<1> USE DEF durables, pollVars, missed, bounds
<1>0. QueueOrder /\ Done \subseteq Done'
  BY DoneGrows DEF OrderInv
<1>1. ASSUME running' => running, UNCHANGED <<log, pending, replay>>, inFlight' \subseteq inFlight,
             poll = "staged" => UNCHANGED <<poll, cur>>
      PROVE  QueueOrder' /\ StartsOldest
  BY <1>0, <1>1, QueueOrderFrame DEF StartsOldest
<1>2. CASE UNCHANGED vars
  BY <1>1, <1>2 DEF vars, runner
<1>3. ASSUME NEW m \in Mail, Arrive(m) PROVE QueueOrder' /\ StartsOldest
  BY <1>1, <1>3 DEF Arrive, runner
<1>4. ASSUME NEW x \in Mail, IntakeSettled(x) \/ DeliveryEnds(x) PROVE QueueOrder' /\ StartsOldest
  <2>1. UNCHANGED <<log, replay, poll, cur, running, givenUp, unreplayed, dropped>>
    BY <1>4 DEF IntakeSettled, DeliveryEnds
  <2>2. CASE UNCHANGED <<pending, begun>> /\ inFlight' \subseteq inFlight
    BY <1>1, <2>1, <2>2
  <2>3. ASSUME NEW th \in Threads, running, pending[th] # <<>>,
               pending' = [pending EXCEPT ![th] = Tail(pending[th])],
               begun' = begun \cup {Head(pending[th])},
               inFlight' \subseteq inFlight \cup {Head(pending[th])}
        PROVE  QueueOrder' /\ StartsOldest
    <3>1. Done' = Done \cup {Head(pending[th])}
      BY <2>1, <2>3 DEF Done
    <3>2. QueueOrder'
      BY <1>0, <2>1, <2>3, <3>1, HeadLeaves
    <3>3. Thread[Head(pending[th])] = th
      BY <2>3, TailIs DEF IntakeInv, RunnerInv, RunnerTypes, QueuesAreNew
    <3>4. StartsOldest
      BY <2>3, <3>3, HeadIsOldest DEF StartsOldest
    <3> QED
      BY <3>2, <3>4
  <2> QED
    BY <1>4, <2>2, <2>3, SettleMoves
<1>5. CASE Fetch \/ PollSkip \/ PollStage \/ PollRetry \/ PollGiveUp \/ PollEnd
  <2>1. UNCHANGED <<log, pending, replay, running, inFlight>> /\ poll # "staged"
    BY <1>5 DEF Fetch, PollSkip, PollStage, PollRetry, PollGiveUp, PollEnd, runner
  <2> QED
    BY <1>1, <2>1
<1>6. CASE WriteAhead
  <2>1. /\ poll = "staging" /\ poll' = "staged" /\ log' = Append(Without(log, cur), cur)
        /\ UNCHANGED <<pending, replay, running, inFlight, cur, begun, givenUp, unreplayed, dropped>>
    BY <1>6 DEF WriteAhead, runner
  <2>2. ToSet(log') = ToSet(log) \cup {cur} /\ Done' = Done
    <3> DEFINE w == Without(log, cur)
    <3>1. log \in Seq(Mail) /\ NoRepeats(log) /\ cur \in Mail
      BY <2>1 DEF IntakeInv, LogInv
    <3>2. w \in Seq(Mail) /\ NoRepeats(w) /\ ToSet(w) = ToSet(log) \ {cur}
      BY <3>1, WithoutIs
    <3> HIDE DEF w
    <3>3. ToSet(Append(w, cur)) = ToSet(w) \cup {cur}
      BY <3>1, <3>2, AppendIs
    <3>4. log' = Append(w, cur)
      BY <2>1 DEF w
    <3> QED
      BY <2>1, <3>2, <3>3, <3>4 DEF Done
  <2>3. \A th \in Threads : Sorted(pending[th], Done)'
    BY <2>1, <2>2 DEF OrderInv, QueueOrder
  <2>4. Sorted(replay, Done)'
    BY <2>1, <2>2 DEF OrderInv, QueueOrder
  <2>5. QueueOrder'
    BY <2>1, <2>2, <2>3, <2>4 DEF OrderInv, QueueOrder
  <2> QED
    BY <2>1, <2>5 DEF StartsOldest
<1>7. CASE PollQueue
  <2>1. poll = "staged" /\ UNCHANGED <<log, replay, running, givenUp, unreplayed, dropped>>
    BY <1>7 DEF PollQueue
  <2>2. /\ cur \in Mail /\ cur \notin staged /\ cur \in ToSet(log) /\ replay = <<>>
        /\ \A th \in Threads : ToSet(pending[th]) \subseteq ToSet(log)
    BY <2>1 DEF IntakeInv, LogInv, RunnerInv, QueuesAreNew
  <2>3. CASE running
    <3>1. Enqueue(cur)
      BY <1>7, <2>3 DEF PollQueue
    <3>2. ToSet(replay) = {} /\ replay \in Seq(Mail) /\ Thread[cur] \in Threads
      BY <2>2, EmailAssumption DEF ToSet
    <3>3. \A n \in ToSet(pending[Thread[cur]]) : Date[cur] < Date[n] => cur \in Done
      BY <2>1, <2>2, <3>2 DEF OrderInv, LogOrder
    <3>4. \A n \in ToSet(log) \ Done : n \in ToSet(pending[Thread[n]]) \/ n = cur
      BY <2>3, <3>2 DEF OrderInv, QueueOrder
    <3>5. \/ /\ pending' = [pending EXCEPT ![Thread[cur]] = Append(pending[Thread[cur]], cur)]
             /\ UNCHANGED <<begun, inFlight>>
          \/ /\ pending[Thread[cur]] = <<>> /\ pending' = pending
             /\ begun' = begun \cup {cur} /\ inFlight' = inFlight \cup {cur}
      BY <2>2, <2>3, <3>1, EnqueueMoves
    <3>6. \/ /\ pending' = [pending EXCEPT ![Thread[cur]] = Append(pending[Thread[cur]], cur)]
             /\ Done' = Done
          \/ pending' = pending /\ Done' = Done \cup {cur}
      BY <2>1, <3>5 DEF Done
    <3>7. QueueOrder'
      BY <1>0, <2>1, <2>2, <2>3, <3>2, <3>3, <3>4, <3>6, NothingToSort, TurnComes
    <3>8. StartsOldest
      <4> SUFFICES ASSUME NEW m \in inbox, NEW n \in inFlight' \ inFlight,
                          Thread[m] = Thread[n], Date[m] < Date[n], m \notin Done
                   PROVE  FALSE
        BY DEF StartsOldest
      <4>1. n = cur /\ pending[Thread[cur]] = <<>>
        BY <3>5
      <4>2. m \in ToSet(log)
        BY <2>2, <4>1, OldIsLogged DEF OrderInv
      <4>3. Date[m] # Date[n]
        BY <2>2, <4>1, EmailAssumption DEF IntakeInv, MarkTypes
      <4>4. m \in ToSet(pending[Thread[cur]])
        BY <3>4, <4>1, <4>2, <4>3
      <4> QED
        BY <4>1, <4>4 DEF ToSet
    <3> QED
      BY <3>7, <3>8
  <2>4. CASE ~running
    <3>1. UNCHANGED runner
      BY <1>7, <2>4 DEF PollQueue
    <3>2. \A th \in Threads : Sorted(pending[th], Done)'
      BY <1>0, <3>1, MoreDone DEF QueueOrder, runner
    <3>3. Sorted(replay, Done)'
      BY <1>0, <2>1, MoreDone DEF QueueOrder
    <3> QED
      BY <1>0, <2>1, <2>4, <3>1, <3>2, <3>3 DEF QueueOrder, StartsOldest, runner
  <2> QED
    BY <2>3, <2>4
<1>8. CASE PersistMark
  BY <1>1, <1>8 DEF PersistMark, runner
<1>9. CASE Stop \/ Crash
  <2>1. /\ running' = FALSE /\ pending' = [th \in Threads |-> <<>>] /\ replay' \in {replay, <<>>}
        /\ inFlight' \subseteq inFlight
    BY <1>9 DEF Stop, Crash
  <2>2. \A th \in Threads : pending'[th] = <<>>
    BY <2>1
  <2>3. \A th \in Threads : Sorted(pending[th], Done)'
    BY <2>2 DEF Sorted
  <2>4. Sorted(replay, Done)'
    BY <1>0, <2>1, NothingToSort, MoreDone DEF QueueOrder
  <2>5. \A m \in ToSet(replay') : Thread[m] \in Threads
    BY <2>1, EmailAssumption DEF IntakeInv, LogInv, ToSet
  <2>6. QueueOrder'
    BY <2>1, <2>2, <2>3, <2>4, <2>5 DEF QueueOrder, ToSet
  <2> QED
    BY <2>1, <2>6 DEF StartsOldest
<1>10. CASE Start
  <2>1. /\ ~up /\ UNCHANGED <<log, acked, staged, poll, cur, runner, givenUp>>
    BY <1>10 DEF Start
  <2>2. /\ poll = "idle" /\ replay = <<>> /\ \A th \in Threads : pending[th] = <<>>
    BY <2>1 DEF IntakeInv, ProcessInv, RunnerInv, StoppedIsEmpty
  <2>3. \A th \in Threads : Sorted(pending[th], Done)'
    BY <2>1, <2>2 DEF Sorted, runner
  <2>4. CASE UNCHANGED replay /\ unreplayed' = unreplayed \cup Unacknowledged
    <3>1. \A m \in ToSet(log) : m \in Done'
      BY <2>1, <2>4 DEF Unacknowledged, Done, OrderInv, LogOrder, runner
    <3>2. Sorted(replay, Done)' /\ ToSet(replay') = {}
      BY <2>2, <2>4 DEF Sorted, ToSet
    <3> QED
      BY <2>1, <2>3, <3>1, <3>2 DEF QueueOrder, StartsOldest, runner
  <2>5. ASSUME NEW l \in BoundedSeq(Unacknowledged, Len(log)), Listing(l), replay' = l,
               UNCHANGED unreplayed
        PROVE  QueueOrder' /\ StartsOldest
    <3>2. log \in Seq(Mail) /\ NoRepeats(log) /\ Sorted(log, Done)
      BY DEF IntakeInv, LogInv, OrderInv, LogOrder
    <3>3. l \in Seq(Mail) /\ ToSet(l) = Unacknowledged
      BY <2>5, <3>2, ListingIs DEF Listing
    <3>4. Sorted(l, Done)
      <4> SUFFICES ASSUME NEW i \in DOMAIN l, NEW k \in DOMAIN l, i < k, Date[l[k]] < Date[l[i]]
                   PROVE  l[k] \in Done
        BY DEF Sorted
      <4>1. PICK a, b \in DOMAIN log : a < b /\ log[a] = l[i] /\ log[b] = l[k]
        BY <2>5 DEF Listing, Precedes
      <4> QED
        BY <3>2, <4>1 DEF Sorted
    <3>5. \A m \in ToSet(log) \ Done' : m \in ToSet(l)
      BY <1>0, <3>3 DEF Unacknowledged, Done, OrderInv, LogOrder
    <3>6. \A m \in ToSet(l) : ToSet(pending'[Thread[m]]) = {}
      <4> SUFFICES ASSUME NEW m \in ToSet(l) PROVE ToSet(pending'[Thread[m]]) = {}
        OBVIOUS
      <4>1. Thread[m] \in Threads
        BY <3>3, EmailAssumption DEF ToSet
      <4> QED
        BY <2>1, <2>2, <4>1 DEF ToSet, runner
    <3>7. Sorted(replay, Done)'
      BY <1>0, <2>5, <3>4, MoreDone
    <3> QED
      BY <2>1, <2>3, <2>5, <3>5, <3>6, <3>7 DEF QueueOrder, StartsOldest, runner
  <2>6. PICK failed \in BOOLEAN : LoadReplay(failed)
    BY <1>10 DEF Start
  <2> QED
    BY <2>4, <2>5, <2>6 DEF LoadReplay
<1>11. CASE Replay
  <2>1. replay # <<>> /\ UNCHANGED <<log, poll, cur, running, givenUp, unreplayed, dropped>>
    BY <1>11 DEF Replay
  <2>2. poll = "idle" /\ replay \in Seq(Mail) /\ NoRepeats(replay) /\ Sorted(replay, Done)
    BY <2>1 DEF IntakeInv, LogInv, OrderInv, QueueOrder
  <2> DEFINE x == Head(replay)
  <2>3. /\ Tail(replay) \in Seq(Mail) /\ x \in ToSet(replay) /\ x \in Mail
        /\ ToSet(Tail(replay)) = ToSet(replay) \ {x}
        /\ Sorted(Tail(replay), Done)
        /\ \A n \in ToSet(replay) : Date[n] < Date[x] => n \in Done
    BY <2>1, <2>2, TailIs, TailKeepsOrder
  <2>4. CASE running /\ Enqueue(x) /\ replay' = Tail(replay)
    <3> HIDE DEF x
    <3>1. x \notin staged /\ x \in ToSet(log)
      BY <2>3 DEF IntakeInv, LogInv
    <3>2. \A n \in ToSet(pending[Thread[x]]) : Date[x] < Date[n] => x \in Done
      BY <2>3 DEF OrderInv, QueueOrder
    <3>3. \A n \in ToSet(log) \ Done : \/ n \in ToSet(pending[Thread[n]])
                                       \/ n \in ToSet(replay') \/ n = x
      BY <2>2, <2>3, <2>4 DEF OrderInv, QueueOrder
    <3>4. \/ /\ pending' = [pending EXCEPT ![Thread[x]] = Append(pending[Thread[x]], x)]
             /\ UNCHANGED <<begun, inFlight>>
          \/ /\ pending[Thread[x]] = <<>> /\ pending' = pending
             /\ begun' = begun \cup {x} /\ inFlight' = inFlight \cup {x}
      BY <2>3, <2>4, EnqueueMoves
    <3>5. \/ /\ pending' = [pending EXCEPT ![Thread[x]] = Append(pending[Thread[x]], x)]
             /\ Done' = Done
          \/ pending' = pending /\ Done' = Done \cup {x}
      BY <2>1, <3>4 DEF Done
    <3>6. /\ replay' \in Seq(Mail) /\ Sorted(replay', Done) /\ ToSet(replay') \subseteq ToSet(replay)
          /\ \A n \in ToSet(replay') : Date[n] < Date[x] => n \in Done
      BY <2>3, <2>4
    <3>7. QueueOrder'
      BY <1>0, <2>1, <2>3, <2>4, <3>1, <3>2, <3>3, <3>5, <3>6, TurnComes
    <3>8. StartsOldest
      <4> SUFFICES ASSUME NEW m \in inbox, NEW n \in inFlight' \ inFlight,
                          Thread[m] = Thread[n], Date[m] < Date[n], m \notin Done
                   PROVE  FALSE
        BY DEF StartsOldest
      <4>1. n = x /\ pending[Thread[x]] = <<>>
        BY <3>4
      <4>2. m \in ToSet(log)
        BY <3>1, <4>1, OldIsLogged DEF OrderInv
      <4>3. Date[m] # Date[n]
        BY <2>3, <4>1, EmailAssumption DEF IntakeInv, MarkTypes
      <4>4. m \in ToSet(pending[Thread[x]]) \/ m \in ToSet(replay')
        BY <3>3, <4>1, <4>2, <4>3
      <4>5. m \notin ToSet(replay')
        BY <3>6, <4>1
      <4> QED
        BY <4>1, <4>4, <4>5 DEF ToSet
    <3> QED
      BY <3>7, <3>8
  <2>5. CASE ~running /\ replay' = <<>> /\ UNCHANGED runner
    <3>1. \A th \in Threads : Sorted(pending[th], Done)'
      BY <1>0, <2>5, MoreDone DEF QueueOrder, runner
    <3>2. Sorted(replay, Done)' /\ ToSet(replay') = {}
      BY <2>5 DEF Sorted, ToSet
    <3> QED
      BY <2>1, <2>5, <3>1, <3>2 DEF QueueOrder, StartsOldest, runner
  <2> QED
    BY <1>11, <2>4, <2>5 DEF Replay
<1> QED
  BY <1>2, <1>3, <1>4, <1>5, <1>6, <1>7, <1>8, <1>9, <1>10, <1>11 DEF Next, PollStep

LEMMA OrderInvInit == Init => OrderInv
<1> SUFFICES ASSUME Init PROVE OrderInv
  OBVIOUS
<1>1. /\ log = <<>> /\ acked = {} /\ replay = <<>> /\ poll = "idle" /\ inbox = {}
      /\ \A th \in Threads : pending[th] = <<>>
  BY DEF Init
<1>2. ToSet(<<>>) = {}
  BY DEF ToSet
<1> QED
  BY <1>1, <1>2, NothingToSort DEF OrderInv, LogOrder, QueueOrder

\* poll's sort by date, scheduleThread, replayUnacknowledgedInbound and the rollback of the mark
\* (src/channels/email/email-adapter.ts): under the same conditions, the mail of one thread
\* starts oldest first over retries, stops, crashes and replays; only mail that a starting
\* process failed to query, or passed for want of a mark, may be overtaken.
THEOREM ThreadsKeepOrder ==
    ASSUME InOrder, ~SlowPost
    PROVE  Spec /\ []PageHoldsAll => OldestFirst
<1> DEFINE Inv == IntakeInv /\ CoverInv /\ OrderInv
<1>1. Init => Inv
  BY IntakeInvInit, CoverInvInit, OrderInvInit
<1>2. Inv /\ PageHoldsAll /\ [Next]_vars => Inv' /\ StartsOldest
  BY IntakeInvStep, CoverStep, LogOrderStep, QueueOrderStep DEF OrderInv
<1>3. StartsOldest =>
        [\A m \in inbox, n \in inFlight' \ inFlight :
            /\ Thread[m] = Thread[n] /\ Date[m] < Date[n]
            => m \in begun \cup Skipped \cup givenUp \cup unreplayed \cup dropped]_vars
  BY DEF StartsOldest, Done
<1> HIDE DEF Inv
<1> QED
  BY <1>1, <1>2, <1>3, PTL DEF Spec, OldestFirst
==============================================================================
