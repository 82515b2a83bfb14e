------------------------ MODULE LateDelegationProofs ------------------------
(***************************************************************************)
(* Proofs about LateDelegation, for every set of delegations and every     *)
(* number of failures: its types, the single wake, the answer of a waiting *)
(* sender, and, from who holds a handle under a live claim (HolderInv),    *)
(* the single outcome and the reason a review task is closed for.          *)
(***************************************************************************)
EXTENDS LateDelegation, TLAPS

\* A delegation that has not been dispatched has no row.
NewHasNoRow == \A d \in Delegations : call[d] = "new" => row[d] = None

TypeInv == TypeOK /\ NewHasNoRow

\* The wake of a delegation is inserted once, and is delivered by the holder that inserted it.
Inserted ==
    /\ \A d \in Delegations : turns[d] = 0 \/ (turns[d] = 1 /\ d \in wakes)
    /\ \A a \in Resolvers : act[a].at = "deliver" =>
           act[a].of \in wakes /\ turns[act[a].of] = 0
    /\ \A a, b \in Resolvers :
           act[a].at = "deliver" /\ act[b].at = "deliver" /\ act[a].of = act[b].of => a = b

\* A step of a resolver, or the end of the turn it woke.
HolderStep(a) == ResolveStep(a) \/ TurnEnds(a)

LEMMA DelegationIsResolver == Delegations \subseteq Resolvers /\ "sweep" \in Resolvers
BY DEF Resolvers

(***************************************************************************)
(* Types.                                                                  *)
(***************************************************************************)
\* The resolver moves on with what it has in hand.
LEMMA GoesType ==
    ASSUME ActOK, NEW a \in Resolvers, NEW at \in Places, act[a].at # "idle", Goes(a, at)
    PROVE  ActOK'
BY DEF ActOK, Goes

LEMMA IdleType ==
    ASSUME ActOK, NEW a \in Resolvers, Idle(a)
    PROVE  ActOK'
BY DEF ActOK, Idle, NoHandle, Places

LEMMA FaultType ==
    ASSUME faults \in 0 .. MaxFaults, Fault \/ UNCHANGED faults
    PROVE  faults' \in 0 .. MaxFaults
BY DelegationAssumption DEF Fault

LEMMA TypeInit == Init => TypeInv
<1> SUFFICES ASSUME Init PROVE TypeInv
  OBVIOUS
<1>1. ActOK
  BY DEF Init, ActOK, NoHandle, Places
<1>2. faults \in 0 .. MaxFaults
  BY DelegationAssumption DEF Init
<1> QED
  BY <1>1, <1>2 DEF Init, TypeInv, TypeOK, NewHasNoRow

\* The delegate call.
LEMMA CallType ==
    ASSUME TypeInv, NEW d \in Delegations,
           Acquire(d) \/ CallStep(d) \/ Respond(d) \/ Look(d)
    PROVE  TypeInv'
<1> USE DEF TypeInv, TypeOK, NewHasNoRow, Put
<1>0. d \in Resolvers
  BY DelegationIsResolver
<1>1. CASE Acquire(d)
  <2>1. d \notin lapsed
    BY <1>1, DelegationAssumption DEF Acquire
  <2>2. ActOK'
    BY <1>1 DEF Acquire, ActOK
  <2> QED
    BY <1>1, <2>1, <2>2 DEF Acquire, task, log
<1>2. CASE WaitEnds(d)
  BY <1>2 DEF WaitEnds, ActOK, handle, task, log
<1>3. CASE Promote(d)
  <2>1. faults' \in 0 .. MaxFaults
    BY <1>3, FaultType DEF Promote
  <2>2. ActOK'
    BY <1>3 DEF Promote, ActOK
  <2> QED
    BY <1>3, <2>1, <2>2 DEF Promote, log
<1>4. CASE Respond(d)
  <2>1. ActOK'
    BY <1>0, <1>4 DEF Respond, ActOK, Places
  <2> QED
    BY <1>4, <2>1 DEF Respond, handle, task, log
<1>5. CASE Look(d)
  <2>1. ActOK'
    BY <1>0, <1>5, GoesType, IdleType DEF Look, Places
  <2> QED
    BY <1>5, <2>1 DEF Look, handle, task, log
<1>6. CASE Return(d)
  <2>1. faults' \in 0 .. MaxFaults
    BY <1>6, FaultType DEF Return
  <2>2. ActOK'
    BY <1>6 DEF Return, ActOK
  <2> QED
    BY <1>6, <2>1, <2>2 DEF Return, task, log
<1> QED
  BY <1>1, <1>2, <1>3, <1>4, <1>5, <1>6 DEF CallStep

\* Time, the sweep's choice, the review task and the end of the process.
LEMMA OutsideType ==
    ASSUME TypeInv,
           \/ \E d \in Delegations : \/ Expire(d) \/ Lapse(d) \/ SweepPicks(d) \/ HumanCloses(d)
                                     \/ \E own \in BOOLEAN : Reply(d, own)
           \/ Crash
    PROVE  TypeInv'
<1> USE DEF TypeInv, TypeOK, NewHasNoRow, Put
<1>1. ASSUME NEW d \in Delegations, Expire(d) PROVE TypeInv'
  BY <1>1 DEF Expire, ActOK, delegate, task, log
<1>2. ASSUME NEW d \in Delegations, Lapse(d) PROVE TypeInv'
  <2>1. faults' \in 0 .. MaxFaults
    BY <1>2, FaultType DEF Lapse
  <2>2. ActOK'
    BY <1>2 DEF Lapse, ActOK
  <2> QED
    BY <1>2, <2>1, <2>2 DEF Lapse, delegate, task, log
<1>3. ASSUME NEW d \in Delegations, SweepPicks(d) PROVE TypeInv'
  <2>1. ActOK'
    BY <1>3, DelegationIsResolver DEF SweepPicks, ActOK, Places
  <2> QED
    BY <1>3, <2>1 DEF SweepPicks, delegate, handle, task, log
<1>4. ASSUME NEW d \in Delegations, HumanCloses(d) PROVE TypeInv'
  BY <1>4 DEF HumanCloses, ActOK, delegate, handle, log
<1>5. ASSUME NEW d \in Delegations, NEW own \in BOOLEAN, Reply(d, own) PROVE TypeInv'
  <2>1. faults' \in 0 .. MaxFaults
    BY <1>5, FaultType DEF Reply
  <2>2. ActOK'
    BY <1>5 DEF Reply, ActOK
  <2> QED
    BY <1>5, <2>1, <2>2 DEF Reply, delegate, handle, log
<1>6. CASE Crash
  <2>1. faults' \in 0 .. MaxFaults
    BY <1>6, FaultType DEF Crash
  <2>2. ActOK'
    BY <1>6 DEF Crash, ActOK, NoHandle, Places
  <2>3. torn' \subseteq Delegations
    BY <1>6 DEF Crash, ActOK
  <2> QED
    BY <1>6, <2>1, <2>2, <2>3 DEF Crash, handle, task, log
<1> QED
  BY <1>1, <1>2, <1>3, <1>4, <1>5, <1>6

\* A resolver's step works on the handle it has in hand.
LEMMA ResolveType ==
    ASSUME TypeInv, NEW a \in Resolvers, HolderStep(a)
    PROVE  TypeInv'
<1> USE DEF TypeInv, TypeOK, NewHasNoRow, Put
<1> DEFINE d == act[a].of
<1>0. act[a].at # "idle" /\ d \in Delegations /\ act[a].kind \in {"deliver", "note"}
  BY DEF ActOK, HolderStep, ResolveStep, Classify, Claim, Mark, Name, Publish, Deliver, TurnEnds, Renew,
         Check, Record, AuditOutcome, Finalize, Unmark, Release
<1>00. faults' \in 0 .. MaxFaults
  BY FaultType DEF HolderStep, ResolveStep, Classify, Claim, Mark, Name, Publish, Deliver, TurnEnds, Renew,
         Check, Record, AuditOutcome, Finalize, Unmark, Release
<1>1. CASE Classify(a)
  <2>1. ActOK'
    <3>1. PICK kind \in {"deliver", "note"} :
              act' = [act EXCEPT ![a].at = "claim", ![a].kind = kind]
      BY <1>1 DEF Classify
    <3>2. act[a] \in [at : Places, of : Delegations \cup {None},
                      kind : {"deliver", "note"}, token : Nat]
      BY DEF ActOK
    <3>3. [act[a] EXCEPT !.at = "claim", !.kind = kind]
              \in [at : Places, of : Delegations, kind : {"deliver", "note"}, token : Nat]
      BY <1>0, <3>2 DEF Places
    <3>4. act' = [act EXCEPT ![a] = [act[a] EXCEPT !.at = "claim", !.kind = kind]]
      BY <3>1
    <3> HIDE DEF d
    <3> QED
      BY <3>3, <3>4 DEF ActOK
  <2> QED
    BY <1>00, <1>1, <2>1 DEF Classify, delegate, handle, task, log
<1>2. CASE Claim(a)
  <2>1. ActOK'
    <3>1. CASE Idle(a)
      BY <3>1, IdleType
    <3>2. CASE act' = [act EXCEPT ![a] =
                   [at |-> IF @.kind = "deliver" THEN "mark" ELSE "check", of |-> d,
                    kind |-> @.kind, token |-> token[d] + 1]]
      <4>1. token[d] + 1 \in Nat
        BY <1>0
      <4> QED
        BY <1>0, <3>2, <4>1 DEF ActOK, Places
    <3> QED
      BY <1>2, <3>1, <3>2 DEF Claim
  <2>2. CASE UNCHANGED <<row, token, lapsed>>
    BY <1>00, <1>2, <2>1, <2>2 DEF Claim, delegate, task, log
  <2>3. CASE /\ Claimable(d) /\ row' = Put(row, d, "claimed")
             /\ token' = [token EXCEPT ![d] = @ + 1] /\ lapsed' = lapsed \ {d}
    <3>1. row[d] # None
      BY <2>3, DelegationAssumption DEF Claimable
    <3>2. /\ row' \in [Delegations -> {None, "running", "pending", "claimed", "resolved", "deleted"}]
          /\ token' \in [Delegations -> Nat] /\ lapsed' \subseteq Delegations
          /\ \A e \in lapsed' : row'[e] \in {"claimed", "resolved"}
      BY <1>0, <2>3
    <3>3. NewHasNoRow'
      BY <1>0, <1>2, <2>3, <3>1 DEF Claim, delegate
    <3> QED
      BY <1>00, <1>2, <2>1, <3>2, <3>3 DEF Claim, delegate, task, log
  <2> QED
    BY <1>2, <2>2, <2>3 DEF Claim
<1>3. CASE Mark(a) \/ Name(a)
  <2>1. ActOK'
    BY <1>0, <1>3, GoesType DEF Mark, Name, Places
  <2> QED
    BY <1>0, <1>00, <1>3, <2>1 DEF Mark, Name, delegate, handle, task, log
<1>4. CASE Publish(a)
  <2>1. ActOK'
    BY <1>0, <1>4, GoesType DEF Publish, NotSent, Places
  <2> QED
    BY <1>0, <1>00, <1>4, <2>1 DEF Publish, delegate, handle, task
<1>5. CASE Deliver(a) \/ TurnEnds(a)
  <2>1. ActOK'
    BY <1>0, <1>5, GoesType DEF Deliver, TurnEnds, Places
  <2> QED
    BY <1>0, <1>00, <1>5, <2>1 DEF Deliver, TurnEnds, delegate, handle, task, log
<1>6. CASE Renew(a)
  <2>1. ActOK'
    BY <1>0, <1>6, GoesType, IdleType DEF Renew, Places
  <2> QED
    BY <1>0, <1>00, <1>6, <2>1 DEF Renew, delegate, task, log
<1>7. CASE Check(a)
  <2>1. ActOK'
    BY <1>0, <1>7, GoesType DEF Check, Places
  <2> QED
    BY <1>0, <1>00, <1>7, <2>1 DEF Check, delegate, handle, task, log
<1>8. CASE Record(a)
  <2>1. ActOK'
    BY <1>0, <1>8, GoesType DEF Record, Places
  <2> QED
    BY <1>0, <1>00, <1>8, <2>1 DEF Record, delegate, handle, task, log
<1>9. CASE AuditOutcome(a)
  <2>1. ActOK'
    BY <1>0, <1>9, GoesType DEF AuditOutcome, Places
  <2> QED
    BY <1>0, <1>00, <1>9, <2>1 DEF AuditOutcome, delegate, handle, task
<1>10. CASE Finalize(a)
  <2>1. ActOK'
    BY <1>10, IdleType DEF Finalize
  <2>2. row' = row \/ (row[d] = "claimed" /\ row' = Put(row, d, "resolved"))
    BY <1>10 DEF Finalize, Owns
  <2> QED
    BY <1>0, <1>00, <1>10, <2>1, <2>2, DelegationAssumption DEF Finalize, delegate, task, log
<1>11. CASE Unmark(a)
  <2>1. ActOK'
    BY <1>0, <1>11, GoesType DEF Unmark, Places
  <2> QED
    BY <1>0, <1>00, <1>11, <2>1 DEF Unmark, delegate, handle, log
<1>12. CASE Release(a)
  <2>1. ActOK'
    BY <1>12, IdleType DEF Release
  <2>2. \/ UNCHANGED <<row, lapsed>>
        \/ row[d] = "claimed" /\ row' = Put(row, d, "pending") /\ lapsed' = lapsed \ {d}
    BY <1>12 DEF Release, Owns, Cleared
  <2> QED
    BY <1>0, <1>00, <1>12, <2>1, <2>2, DelegationAssumption DEF Release, delegate, task, log
<1> QED
  BY <1>1, <1>2, <1>3, <1>4, <1>5, <1>6, <1>7, <1>8, <1>9, <1>10, <1>11, <1>12 DEF HolderStep, ResolveStep

LEMMA TypeStep == TypeInv /\ [Next]_vars => TypeInv'
<1> SUFFICES ASSUME TypeInv, [Next]_vars PROVE TypeInv'
  OBVIOUS
<1>1. CASE UNCHANGED vars
  BY <1>1 DEF vars, delegate, handle, task, log, TypeInv, TypeOK, ActOK, NewHasNoRow
<1>2. CASE Next
  BY <1>2, CallType, OutsideType, ResolveType DEF Next, HolderStep
<1> QED
  BY <1>1, <1>2

LEMMA TypeInvariant == Spec => []TypeInv
BY TypeInit, TypeStep, PTL DEF Spec

\* Every variable keeps its type, and a lapsed lease belongs to a claim or to what became of it.
THEOREM DelegationTyping == Spec => []TypeOK
<1>1. TypeInv => TypeOK
  BY DEF TypeInv
<1> QED
  BY TypeInvariant, <1>1, PTL

(***************************************************************************)
(* The wake.                                                               *)
(***************************************************************************)
LEMMA InsertedInit == Init => Inserted
BY DEF Init, Inserted, NoHandle

\* A step that brings no resolver to the delivery, and leaves wakes and turns alone.
LEMMA InsertedKeeps ==
    ASSUME Inserted, UNCHANGED turns, wakes \subseteq wakes',
           \A a \in Resolvers : act'[a].at = "deliver" => act'[a] = act[a]
    PROVE  Inserted'
BY DEF Inserted

LEMMA InsertedResolve ==
    ASSUME TypeInv, Inserted, NEW a \in Resolvers, HolderStep(a)
    PROVE  Inserted'
<1> DEFINE d == act[a].of
<1>0. /\ act \in [Resolvers -> [at : Places, of : Delegations \cup {None},
                                kind : {"deliver", "note"}, token : Nat]]
      /\ turns \in [Delegations -> Nat]
  BY DEF TypeInv, TypeOK, ActOK
<1>1. CASE Publish(a) /\ Goes(a, "deliver") /\ wakes' = wakes \cup {d}
  <2>1. UNCHANGED turns /\ act[a].at = "publish" /\ d \in Delegations
    BY <1>1 DEF Publish, TypeInv, TypeOK, ActOK
  <2>2. d \notin wakes
    BY <1>1, <2>1, <1>0 DEF Publish, Fenced, Goes, NotSent
  <2>3. turns[d] = 0 /\ \A b \in Resolvers : act[b].at = "deliver" => act[b].of # d
    BY <2>1, <2>2 DEF Inserted
  <2>4. /\ act'[a].at = "deliver" /\ act'[a].of = d
        /\ \A b \in Resolvers \ {a} : act'[b] = act[b]
    BY <1>0, <1>1 DEF Goes
  <2> QED
    BY <1>1, <2>1, <2>3, <2>4 DEF Inserted
<1>2. CASE Deliver(a)
  <2>1. /\ act[a].at = "deliver" /\ act'[a].at = "turn" /\ UNCHANGED wakes
        /\ \A b \in Resolvers \ {a} : act'[b] = act[b]
        /\ turns' = [turns EXCEPT ![d] = @ + 1]
    BY <1>0, <1>2 DEF Deliver, Goes, log
  <2>2. d \in wakes /\ turns[d] = 0 /\ d \in Delegations
    BY <2>1 DEF Inserted, TypeInv, TypeOK, ActOK
  <2>3. turns'[d] = 1 /\ \A e \in Delegations \ {d} : turns'[e] = turns[e]
    BY <1>0, <2>1, <2>2
  <2>4. \A b \in Resolvers : act'[b].at = "deliver" => b # a /\ act'[b] = act[b] /\ act[b].of # d
    BY <2>1 DEF Inserted
  <2>5. \A b \in Resolvers : act'[b].at = "deliver" => act[b].of \in Delegations
    BY <2>4 DEF TypeInv, TypeOK, ActOK
  <2> QED
    BY <2>1, <2>2, <2>3, <2>4, <2>5 DEF Inserted
<1>3. CASE ~(Publish(a) /\ Goes(a, "deliver") /\ wakes' = wakes \cup {d}) /\ ~Deliver(a)
  <2>1. UNCHANGED turns /\ wakes \subseteq wakes'
    BY <1>3 DEF HolderStep, ResolveStep, Classify, Claim, Mark, Name, Publish, TurnEnds, Renew, Check, Record,
                AuditOutcome, Finalize, Unmark, Release, log
  <2>2. \A b \in Resolvers : b # a => act'[b] = act[b]
    BY <1>0, <1>3 DEF HolderStep, ResolveStep, Classify, Claim, Mark, Name, Publish, NotSent, TurnEnds, Renew,
                Check, Record, AuditOutcome, Finalize, Unmark, Release, Goes, Idle
  <2>3. act'[a].at # "deliver"
    <3>1. CASE Classify(a) \/ Claim(a)
      BY <1>0, <3>1 DEF Classify, Claim, Idle, NoHandle
    <3>2. CASE Publish(a)
      BY <1>0, <1>3, <3>2 DEF Publish, NotSent, Goes
    <3>3. CASE Mark(a) \/ Name(a) \/ TurnEnds(a) \/ Renew(a) \/ Check(a)
      BY <1>0, <3>3 DEF Mark, Name, TurnEnds, Renew, Check, Goes, Idle, NoHandle
    <3>4. CASE Record(a) \/ AuditOutcome(a) \/ Finalize(a) \/ Unmark(a) \/ Release(a)
      BY <1>0, <3>4 DEF Record, AuditOutcome, Finalize, Unmark, Release, Goes, Idle, NoHandle
    <3> QED
      BY <1>3, <3>1, <3>2, <3>3, <3>4 DEF HolderStep, ResolveStep
  <2> QED
    BY <2>1, <2>2, <2>3, InsertedKeeps
<1> QED
  BY <1>1, <1>2, <1>3

LEMMA InsertedStep == TypeInv /\ Inserted /\ [Next]_vars => Inserted'
<1> SUFFICES ASSUME TypeInv, Inserted, [Next]_vars PROVE Inserted'
  OBVIOUS
<1>0. act \in [Resolvers -> [at : Places, of : Delegations \cup {None},
                             kind : {"deliver", "note"}, token : Nat]]
  BY DEF TypeInv, TypeOK, ActOK
<1>1. CASE UNCHANGED vars
  BY <1>1, InsertedKeeps DEF vars, log
<1>2. ASSUME NEW d \in Delegations,
             \/ Acquire(d) \/ CallStep(d) \/ Expire(d) \/ Lapse(d) \/ HumanCloses(d)
             \/ \E own \in BOOLEAN : Reply(d, own)
      PROVE  Inserted'
  <2>1. UNCHANGED <<turns, wakes, act>>
    BY <1>2 DEF Acquire, CallStep, WaitEnds, Promote, Return, Expire, Lapse, HumanCloses, Reply, log
  <2> QED
    BY <2>1, InsertedKeeps
<1>3. ASSUME NEW d \in Delegations, Respond(d) \/ Look(d) \/ SweepPicks(d) PROVE Inserted'
  <2>1. UNCHANGED <<turns, wakes>>
    BY <1>3 DEF Respond, Look, SweepPicks, log
  <2>2. \A a \in Resolvers : act'[a].at = "deliver" => act'[a] = act[a]
    <3>1. CASE Respond(d)
      BY <1>0, <3>1, DelegationIsResolver DEF Respond
    <3>2. CASE Look(d)
      BY <1>0, <3>2, DelegationIsResolver DEF Look, Goes, Idle, NoHandle
    <3>3. CASE SweepPicks(d)
      BY <1>0, <3>3, DelegationIsResolver DEF SweepPicks
    <3> QED
      BY <1>3, <3>1, <3>2, <3>3
  <2> QED
    BY <2>1, <2>2, InsertedKeeps
<1>4. CASE Crash
  BY <1>4, InsertedKeeps DEF Crash, NoHandle, log
<1>5. ASSUME NEW a \in Resolvers, HolderStep(a) PROVE Inserted'
  BY <1>5, InsertedResolve
<1> QED
  BY <1>1, <1>2, <1>3, <1>4, <1>5 DEF Next, HolderStep

\* Whoever claims the handle, however often, and whatever fails in between: the woken turn runs at
\* most once, because the second insert of the derived wake id meets its primary key.
THEOREM WokenOnce == Spec => []OneWake
<1>1. Inserted => OneWake
  BY DEF Inserted, OneWake
<1> QED
  BY TypeInvariant, InsertedInit, InsertedStep, <1>1, PTL DEF Spec

(***************************************************************************)
(* The waiting sender.                                                     *)
(***************************************************************************)
LEMMA AnsweredStep == TypeInv /\ SenderIsAnswered /\ [Next]_vars => SenderIsAnswered'
<1> SUFFICES ASSUME TypeInv, SenderIsAnswered, [Next]_vars PROVE SenderIsAnswered'
  OBVIOUS
<1> USE DEF SenderIsAnswered
<1>0. review \in [Delegations -> {None, "open", "closed", "human"}]
  BY DEF TypeInv, TypeOK
<1>1. CASE UNCHANGED <<review, waits, replied>>
  BY <1>1
<1>2. ASSUME NEW d \in Delegations, Promote(d) PROVE SenderIsAnswered'
  BY <1>0, <1>2 DEF Promote, Put
<1>3. ASSUME NEW d \in Delegations, NEW own \in BOOLEAN, Reply(d, own) PROVE SenderIsAnswered'
  <2>1. UNCHANGED waits /\ (review[d] # "closed" /\ review'[d] = "closed" => own = FALSE)
        /\ \A e \in Delegations \ {d} : review'[e] = review[e]
    BY <1>0, <1>3 DEF Reply, Put, Counts
  <2>2. replied \subseteq replied' /\ (own = FALSE => d \in replied')
    BY <1>3 DEF Reply
  <2>3. waits \subseteq Delegations
    BY DEF TypeInv, TypeOK
  <2> QED
    BY <2>1, <2>2, <2>3
<1>4. ASSUME NEW d \in Delegations, HumanCloses(d) PROVE SenderIsAnswered'
  BY <1>0, <1>4 DEF HumanCloses, Put
<1>5. ASSUME NEW a \in Resolvers, Record(a) PROVE SenderIsAnswered'
  <2>1. UNCHANGED <<waits, replied>>
    BY <1>5 DEF Record, task
  <2>2. \/ UNCHANGED review
        \/ act[a].of \notin waits /\ review' = [review EXCEPT ![act[a].of] = "closed"]
    BY <1>5 DEF Record, Put, Closes, task
  <2>3. waits \subseteq Delegations
    BY DEF TypeInv, TypeOK
  <2> QED
    BY <1>0, <2>1, <2>2, <2>3
<1>6. ASSUME NEW d \in Delegations,
             \/ Acquire(d) \/ WaitEnds(d) \/ Return(d) \/ Respond(d) \/ Look(d) \/ Expire(d)
             \/ Lapse(d) \/ SweepPicks(d)
      PROVE  UNCHANGED <<review, waits, replied>>
  BY <1>6 DEF Acquire, WaitEnds, Return, Respond, Look, Expire, Lapse, SweepPicks, task
<1>7. ASSUME NEW a \in Resolvers, HolderStep(a), ~Record(a) PROVE UNCHANGED <<review, waits, replied>>
  BY <1>7 DEF HolderStep, ResolveStep, Classify, Claim, Mark, Name, Publish, Deliver, TurnEnds, Renew, Check,
              AuditOutcome, Finalize, Unmark, Release, task
<1>8. CASE UNCHANGED vars \/ Crash
  BY <1>1, <1>8 DEF vars, Crash, task
<1> QED
  BY <1>1, <1>2, <1>3, <1>4, <1>5, <1>6, <1>7, <1>8 DEF Next, CallStep, HolderStep

\* A review task that records a waiting sender is closed by this mechanism only when a message of
\* another turn than the one that timed out has reached the sender.
LEMMA SendersAnswered == Spec => []SenderIsAnswered
<1>1. Init => SenderIsAnswered
  BY DelegationAssumption DEF Init, SenderIsAnswered
<1> QED
  BY <1>1, TypeInvariant, AnsweredStep, PTL DEF Spec

(***************************************************************************)
(* The holder of a handle.                                                 *)
(***************************************************************************)
\* A resolver that has claimed the handle of d, and is not done with it.
Working == Places \ {"idle", "look", "read", "claim"}
Works(a, d) == act[a].of = d /\ act[a].at \in Working

\* It waits for no turn: it relies on its claim.
Live(a, d) == Works(a, d) /\ act[a].at \notin {"turn", "renew"}

\* While nothing tore: each holder has a claim number of its own, and one that is not waiting for
\* a turn has the last one, under a live lease; the outcome is audited by nobody who has not seen
\* that it was not; the wake was delivered, or its holder is about to.
HandleOK(d) ==
    /\ outcomes[d] <= 1
    /\ d \in wakes => turns[d] > 0 \/ \E a \in Resolvers : act[a].at = "deliver" /\ act[a].of = d
    /\ d \notin waits /\ review[d] = "closed" => turns[d] > 0
    /\ \A a \in Resolvers : Works(a, d) =>
           /\ act[a].token > 0 /\ act[a].token <= token[d]
           /\ \A b \in Resolvers : Works(b, d) /\ act[b].token = act[a].token => a = b
           /\ Live(a, d) => row[d] = "claimed" /\ d \notin lapsed /\ act[a].token = token[d]
           /\ act[a].at \in {"record", "audit"} => outcomes[d] = 0
           /\ act[a].at \in {"turn", "renew"} => turns[d] > 0
           /\ act[a].at \in {"check", "record"} /\ act[a].kind = "deliver" => turns[d] > 0

\* The live subscriber of a delegation has nothing in hand before the answer.
SubscriberIdle == \A d \in Delegations : answer[d] = None => act[d].at = "idle"

HolderInv == SubscriberIdle /\ \A d \in Delegations \ torn : HandleOK(d)

LEMMA GoesFields ==
    ASSUME TypeInv, NEW a \in Resolvers, NEW at, Goes(a, at)
    PROVE  /\ act'[a].at = at /\ act'[a].of = act[a].of /\ act'[a].kind = act[a].kind
           /\ act'[a].token = act[a].token
           /\ \A b \in Resolvers \ {a} : act'[b] = act[b]
BY DEF TypeInv, TypeOK, ActOK, Goes

LEMMA IdleFields ==
    ASSUME TypeInv, NEW a \in Resolvers, Idle(a)
    PROVE  /\ act'[a].at = "idle" /\ \A d : ~Works(a, d)'
           /\ \A b \in Resolvers \ {a} : act'[b] = act[b]
BY DEF TypeInv, TypeOK, ActOK, Idle, NoHandle, Works, Working

\* A step that leaves the holders of d alone, and all that its handle depends on.
LEMMA HandleFrame ==
    ASSUME NEW d, HandleOK(d),
           row'[d] = row[d] \/ ~\E a \in Resolvers : Live(a, d),
           token'[d] = token[d], d \in lapsed' => d \in lapsed \/ ~\E a \in Resolvers : Live(a, d),
           outcomes'[d] = outcomes[d], turns'[d] = turns[d], d \in wakes' => d \in wakes,
           d \notin waits' => d \notin waits, d \notin waits' /\ review'[d] = "closed" => review[d] = "closed",
           \A a \in Resolvers : /\ Works(a, d)' => Works(a, d)
                                /\ Works(a, d) => act'[a] = act[a]
    PROVE  HandleOK(d)'
<1>1. \A a \in Resolvers : Works(a, d)' => Works(a, d) /\ act'[a] = act[a]
  OBVIOUS
<1>2. d \in wakes' => turns'[d] > 0 \/ \E a \in Resolvers : act'[a].at = "deliver" /\ act'[a].of = d
  <2>1. \A a \in Resolvers : act[a].at = "deliver" /\ act[a].of = d => Works(a, d)
    BY DEF Works, Working, Places
  <2> QED
    BY <2>1 DEF HandleOK
<1>3. \A a \in Resolvers : Live(a, d)' => Live(a, d)
  BY <1>1 DEF Live
<1> QED
  BY <1>1, <1>2, <1>3 DEF HandleOK

\* A holder moves on: to a place where it relies on its claim only with the last one.
LEMMA HolderMoves ==
    ASSUME TypeInv, NEW a \in Resolvers, NEW d \in Delegations, HandleOK(d), Works(a, d),
           NEW at, Goes(a, at),
           row'[d] = row[d], token'[d] = token[d], d \in lapsed' => d \in lapsed,
           at \in {"turn", "renew"}
               \/ (row[d] = "claimed" /\ act[a].token = token[d] /\ d \notin lapsed'),
           outcomes'[d] = outcomes[d] \/ Live(a, d),
           outcomes'[d] <= 1, at \in {"record", "audit"} => outcomes'[d] = 0,
           turns[d] > 0 => turns'[d] > 0,
           at \in {"turn", "renew"} => turns'[d] > 0,
           at \in {"check", "record"} /\ act[a].kind = "deliver" => turns'[d] > 0,
           d \in wakes' => turns'[d] > 0 \/ at = "deliver",
           d \notin waits' /\ review'[d] = "closed" => turns'[d] > 0
    PROVE  HandleOK(d)'
<1>1. /\ act'[a].at = at /\ act'[a].of = d /\ act'[a].kind = act[a].kind
      /\ act'[a].token = act[a].token
      /\ \A b \in Resolvers \ {a} : act'[b] = act[b]
  BY GoesFields DEF Works
<1>2. \A b \in Resolvers : Works(b, d)' => Works(b, d) /\ act'[b].token = act[b].token
  BY <1>1 DEF Works
<1>3. \A b \in Resolvers : Works(b, d)' =>
          /\ act'[b].token > 0 /\ act'[b].token <= token'[d]
          /\ \A c \in Resolvers : Works(c, d)' /\ act'[c].token = act'[b].token => b = c
  BY <1>2 DEF HandleOK
<1>4. ASSUME NEW b \in Resolvers, b # a, Works(b, d)'
      PROVE  /\ Live(b, d)' => row'[d] = "claimed" /\ d \notin lapsed' /\ act'[b].token = token'[d]
             /\ act'[b].at \in {"record", "audit"} => outcomes'[d] = 0
             /\ act'[b].at \in {"turn", "renew"} => turns'[d] > 0
             /\ act'[b].at \in {"check", "record"} /\ act'[b].kind = "deliver" => turns'[d] > 0
  <2>1. act'[b] = act[b] /\ Works(b, d) /\ (Live(b, d)' <=> Live(b, d))
    BY <1>1, <1>2, <1>4 DEF Live, Works
  <2>2. act[b].at \in {"record", "audit"} => outcomes'[d] = outcomes[d]
    BY <1>4, <2>1 DEF HandleOK, Live
  <2> QED
    BY <2>1, <2>2 DEF HandleOK
<1>5. /\ Live(a, d)' => row'[d] = "claimed" /\ d \notin lapsed' /\ act'[a].token = token'[d]
      /\ act'[a].at \in {"record", "audit"} => outcomes'[d] = 0
      /\ act'[a].at \in {"turn", "renew"} => turns'[d] > 0
      /\ act'[a].at \in {"check", "record"} /\ act'[a].kind = "deliver" => turns'[d] > 0
  BY <1>1 DEF Live
<1>6. d \in wakes' => turns'[d] > 0 \/ \E b \in Resolvers : act'[b].at = "deliver" /\ act'[b].of = d
  BY <1>1
<1> QED
  BY <1>3, <1>4, <1>5, <1>6 DEF HandleOK

\* A holder is done, and changes the row only if it owns it.
LEMMA HolderEnds ==
    ASSUME TypeInv, NEW a \in Resolvers, NEW d \in Delegations, HandleOK(d), Works(a, d), Idle(a),
           act[a].at # "deliver",
           row'[d] = row[d] \/ Owns(a), d \in lapsed' => d \in lapsed,
           UNCHANGED <<token, outcomes, turns, wakes, waits, review>>
    PROVE  HandleOK(d)'
<1>1. /\ ~Works(a, d)' /\ \A b \in Resolvers \ {a} : act'[b] = act[b]
  BY IdleFields
<1>2. \A b \in Resolvers : Works(b, d)' => b # a /\ Works(b, d) /\ act'[b] = act[b]
  BY <1>1 DEF Works
<1>3. \A b \in Resolvers : Live(b, d)' => Live(b, d)
  BY <1>2 DEF Live
<1>4. ASSUME NEW b \in Resolvers, Live(b, d)' PROVE row'[d] = row[d]
  <2>1. b # a /\ Works(b, d) /\ act[b].token = token[d]
    BY <1>2, <1>3, <1>4 DEF Live, HandleOK
  <2> QED
    BY <2>1 DEF HandleOK, Owns, Works
<1>5. \A b \in Resolvers : act[b].at = "deliver" /\ act[b].of = d => act'[b] = act[b]
  BY <1>1
<1> QED
  BY <1>2, <1>3, <1>4, <1>5 DEF HandleOK

\* The wake of a holder that is not about to deliver it has been delivered.
LEMMA WokenBefore ==
    ASSUME NEW a \in Resolvers, NEW d, HandleOK(d), Works(a, d), act[a].at # "deliver"
    PROVE  d \in wakes => turns[d] > 0
<1>1. ASSUME NEW b \in Resolvers, act[b].at = "deliver", act[b].of = d PROVE turns[d] > 0
  <2>1. Live(b, d) /\ act[b].token = token[d] /\ a # b
    BY <1>1 DEF Live, Works, Working, Places, HandleOK
  <2>2. CASE Live(a, d)
    BY <2>1, <2>2 DEF HandleOK, Live
  <2>3. CASE ~Live(a, d)
    BY <2>3 DEF HandleOK, Live
  <2> QED
    BY <2>2, <2>3
<1> QED
  BY <1>1 DEF HandleOK

\* A resolver's step on the handle it has in hand.
LEMMA ClaimKeeps ==
    ASSUME TypeInv, HolderInv, NEW a \in Resolvers, Classify(a) \/ Claim(a),
           NEW d \in Delegations, d \notin torn', act[a].of = d
    PROVE  HandleOK(d)'
<1>0. /\ HandleOK(d) /\ ~Works(a, d) /\ torn' = torn
      /\ act \in [Resolvers -> [at : Places, of : Delegations \cup {None},
                                kind : {"deliver", "note"}, token : Nat]]
      /\ row \in [Delegations -> {None, "running", "pending", "claimed", "resolved", "deleted"}]
      /\ token \in [Delegations -> Nat]
      /\ UNCHANGED <<outcomes, wakes, turns, waits, review>>
  BY DEF Classify, Claim, HolderInv, TypeInv, TypeOK, ActOK, Works, Working, task, log
<1>1. CASE act'[a].at \in {"idle", "claim"} /\ (\A b \in Resolvers \ {a} : act'[b] = act[b])
           /\ UNCHANGED <<row, token, lapsed>>
  <2>1. ~Works(a, d)'
    BY <1>1 DEF Works, Working
  <2>2. \A b \in Resolvers \ {a} : Works(b, d)' <=> Works(b, d)
    BY <1>1 DEF Works
  <2>3. \A b \in Resolvers : /\ Works(b, d)' => Works(b, d)
                             /\ Works(b, d) => act'[b] = act[b]
    BY <1>0, <1>1, <2>1, <2>2
  <2> QED
    BY <1>0, <1>1, <2>3, HandleFrame
<1>2. CASE /\ Claimable(d) /\ row' = Put(row, d, "claimed") /\ token' = [token EXCEPT ![d] = @ + 1]
           /\ lapsed' = lapsed \ {d}
           /\ act' = [act EXCEPT ![a] = [at |-> IF @.kind = "deliver" THEN "mark" ELSE "check",
                                         of |-> d, kind |-> @.kind, token |-> token[d] + 1]]
  <2>1. \A b \in Resolvers : ~Live(b, d)
    BY <1>0, <1>2, DelegationAssumption DEF HandleOK, Claimable, Live
  <2>2. /\ act'[a].token = token[d] + 1 /\ act'[a].of = d
        /\ act'[a].at \in {"mark", "check"} /\ (act'[a].at = "check" => act'[a].kind # "deliver")
        /\ \A b \in Resolvers \ {a} : act'[b] = act[b]
    BY <1>0, <1>2
  <2>3. \A b \in Resolvers \ {a} : Works(b, d)' =>
            Works(b, d) /\ ~Live(b, d) /\ act'[b] = act[b] /\ act[b].at \in {"turn", "renew"}
    BY <2>1, <2>2 DEF Works, Live
  <2>4. /\ row'[d] = "claimed" /\ token'[d] = token[d] + 1 /\ token[d] \in Nat /\ d \notin lapsed'
        /\ act'[a].token = token'[d] /\ token'[d] > 0
    BY <1>0, <1>2, <2>2 DEF Put
  <2>5. d \in wakes => turns[d] > 0
    <3>1. \A b \in Resolvers : act[b].at = "deliver" /\ act[b].of = d => Live(b, d)
      BY DEF Works, Working, Places, Live
    <3> QED
      BY <1>0, <2>1, <3>1 DEF HandleOK
  <2>6. \A b \in Resolvers \ {a} : Works(b, d)' =>
           /\ act'[b].token > 0 /\ act'[b].token <= token[d] /\ act'[b].token < token'[d]
           /\ \A c \in Resolvers \ {a} : Works(c, d)' /\ act'[c].token = act'[b].token => b = c
           /\ act'[b].at \in {"turn", "renew"} /\ turns'[d] > 0
    <3> SUFFICES ASSUME NEW b \in Resolvers \ {a}, Works(b, d)'
                 PROVE  /\ act'[b].token > 0 /\ act'[b].token <= token[d] /\ act'[b].token < token'[d]
                        /\ \A c \in Resolvers \ {a} : Works(c, d)' /\ act'[c].token = act'[b].token => b = c
                        /\ act'[b].at \in {"turn", "renew"} /\ turns'[d] > 0
      OBVIOUS
    <3>1. /\ act[b].token > 0 /\ act[b].token <= token[d] /\ act[b].token \in Nat
          /\ turns[d] > 0 /\ act'[b] = act[b]
          /\ \A c \in Resolvers : Works(c, d) /\ act[c].token = act[b].token => b = c
      BY <1>0, <2>3 DEF HandleOK
    <3> QED
      BY <1>0, <2>3, <2>4, <3>1
  <2>7. \A b \in Resolvers : Works(b, d)' =>
           /\ act'[b].token > 0 /\ act'[b].token <= token'[d]
           /\ \A c \in Resolvers : Works(c, d)' /\ act'[c].token = act'[b].token => b = c
           /\ Live(b, d)' => row'[d] = "claimed" /\ d \notin lapsed' /\ act'[b].token = token'[d]
           /\ ~(act'[b].at \in {"record", "audit"})
           /\ act'[b].at \in {"turn", "renew"} => turns'[d] > 0
           /\ ~(act'[b].at \in {"check", "record"} /\ act'[b].kind = "deliver")
    <3>1. \A b \in Resolvers \ {a} : Works(b, d)' => ~Live(b, d)'
      BY <2>6 DEF Live
    <3>2. \A b \in Resolvers \ {a} : Works(b, d)' => act'[b].token # act'[a].token
      BY <1>0, <2>3, <2>4, <2>6
    <3>3. token'[d] <= token'[d] /\ \A b \in Resolvers \ {a} : Works(b, d)' => act'[b].token <= token'[d]
      BY <1>0, <2>3, <2>4, <2>6
    <3> QED
      BY <2>2, <2>4, <2>6, <3>1, <3>2, <3>3
  <2> QED
    <3>1. outcomes'[d] <= 1 /\ (d \in wakes' => turns'[d] > 0)
          /\ (d \notin waits' /\ review'[d] = "closed" => turns'[d] > 0)
      BY <1>0, <2>5 DEF HandleOK
    <3> QED
      BY <2>7, <3>1 DEF HandleOK
<1>3. CASE Classify(a)
  <2>1. act'[a].at = "claim" /\ \A b \in Resolvers \ {a} : act'[b] = act[b]
    BY <1>0, <1>3 DEF Classify
  <2> QED
    BY <1>1, <1>3, <2>1 DEF Classify, handle
<1>4. CASE Claim(a)
  BY <1>1, <1>2, <1>4, IdleFields DEF Claim
<1> QED
  BY <1>3, <1>4

LEMMA HolderKeeps ==
    ASSUME TypeInv, HolderInv, NEW a \in Resolvers, HolderStep(a), ~Classify(a), ~Claim(a),
           NEW d \in Delegations, d \notin torn', act[a].of = d
    PROVE  HandleOK(d)'
<1>0. /\ Works(a, d) /\ torn \subseteq torn' /\ HandleOK(d)
  <2>1. torn \subseteq torn'
    BY DEF HolderStep, ResolveStep, Mark, Name, Publish, Deliver, TurnEnds, Renew, Check, Record,
           AuditOutcome, Finalize, Unmark, Release
  <2>2. Works(a, d)
    BY DEF HolderStep, ResolveStep, Mark, Name, Publish, Deliver, TurnEnds, Renew, Check, Record,
           AuditOutcome, Finalize, Unmark, Release, Works, Working, Places
  <2> QED
    BY <2>1, <2>2 DEF HolderInv
<1>1. /\ outcomes[d] <= 1
      /\ d \notin waits /\ review[d] = "closed" => turns[d] > 0
      /\ act[a].at # "deliver" => (d \in wakes => turns[d] > 0)
      /\ act[a].at \notin {"turn", "renew"} =>
             row[d] = "claimed" /\ act[a].token = token[d] /\ d \notin lapsed /\ Live(a, d)
      /\ outcomes \in [Delegations -> Nat] /\ turns \in [Delegations -> Nat]
      /\ review \in [Delegations -> {None, "open", "closed", "human"}]
      /\ row \in [Delegations -> {None, "running", "pending", "claimed", "resolved", "deleted"}]
  BY <1>0, WokenBefore DEF HandleOK, Live, TypeInv, TypeOK
<1>2. CASE Mark(a)
  BY <1>0, <1>1, <1>2, HolderMoves DEF Mark, handle, log
<1>3. CASE Name(a)
  BY <1>0, <1>1, <1>3, HolderMoves DEF Name, task, log
<1>4. CASE Publish(a)
  <2>1. CASE Goes(a, "deliver")
    BY <1>0, <1>1, <1>4, <2>1, HolderMoves DEF Publish, handle, task
  <2>2. CASE Fenced(d) /\ Goes(a, "renew") /\ UNCHANGED wakes
    BY <1>0, <1>1, <1>4, <2>2, HolderMoves DEF Publish, Fenced, handle, task
  <2>3. CASE NotSent(a) /\ UNCHANGED wakes
    BY <1>0, <1>1, <1>4, <2>3, HolderMoves DEF Publish, NotSent, handle, task
  <2> QED
    BY <1>4, <2>1, <2>2, <2>3 DEF Publish
<1>5. CASE Deliver(a)
  <2>1. turns'[d] > 0
    BY <1>1, <1>5 DEF Deliver
  <2> QED
    BY <1>0, <1>1, <1>5, <2>1, HolderMoves DEF Deliver, handle, task, log
<1>6. CASE TurnEnds(a)
  <2>1. turns[d] > 0
    BY <1>0, <1>6 DEF TurnEnds, HandleOK
  <2> QED
    BY <1>0, <1>1, <1>6, <2>1, HolderMoves DEF TurnEnds, handle, task, log
<1>7. CASE Renew(a)
  <2>1. turns[d] > 0
    BY <1>0, <1>7 DEF Renew, HandleOK
  <2>2. CASE Idle(a)
    BY <1>0, <1>7, <2>2, HolderEnds DEF Renew, task, log
  <2>3. CASE ~Idle(a)
    <3>1. Goes(a, "check") /\ Owns(a) /\ d \notin lapsed' /\ (d \in lapsed' => d \in lapsed)
      BY <1>1, <1>7, <2>3 DEF Renew
    <3>2. row[d] = "claimed" /\ act[a].token = token[d]
      BY <3>1 DEF Owns
    <3> QED
      BY <1>0, <1>1, <1>7, <2>1, <3>1, <3>2, HolderMoves DEF Renew, task, log
  <2> QED
    BY <2>2, <2>3
<1>8. CASE Check(a)
  <2>1. act[a].kind = "deliver" => turns[d] > 0
    BY <1>0, <1>8 DEF Check, HandleOK
  <2>2. CASE outcomes[d] > 0
    <3>1. Goes(a, "finalize")
      BY <1>8, <2>2 DEF Check
    <3> QED
      BY <1>0, <1>1, <1>8, <3>1, HolderMoves DEF Check, handle, task, log
  <2>3. CASE ~(outcomes[d] > 0)
    <3>1. Goes(a, "record") /\ outcomes[d] = 0
      BY <1>1, <1>8, <2>3 DEF Check
    <3> QED
      BY <1>0, <1>1, <1>8, <2>1, <3>1, HolderMoves DEF Check, handle, task, log
  <2> QED
    BY <2>2, <2>3
<1>9. CASE Record(a)
  <2>1. outcomes[d] = 0 /\ (act[a].kind = "deliver" => turns[d] > 0)
    BY <1>0, <1>9 DEF Record, HandleOK
  <2>2. Goes(a, "audit") \/ Goes(a, "release")
    BY <1>9 DEF Record
  <2>3. UNCHANGED <<waits, row, token, lapsed, outcomes, wakes, turns>>
    BY <1>9 DEF Record, handle, task, log
  <2>4. review'[d] = review[d] \/ act[a].kind = "deliver"
    BY <1>9 DEF Record, Closes, task
  <2>5. d \notin waits' /\ review'[d] = "closed" => turns'[d] > 0
    BY <1>1, <2>1, <2>3, <2>4
  <2> QED
    BY <1>0, <1>1, <1>9, <2>1, <2>2, <2>3, <2>5, HolderMoves DEF Record
<1>10. CASE AuditOutcome(a)
  <2>1. outcomes[d] = 0
    BY <1>0, <1>10 DEF AuditOutcome, HandleOK
  <2>2. outcomes'[d] <= 1
    BY <1>1, <1>10, <2>1 DEF AuditOutcome
  <2> QED
    BY <1>0, <1>1, <1>10, <2>2, HolderMoves DEF AuditOutcome, handle, task
<1>11. CASE Finalize(a)
  BY <1>0, <1>11, HolderEnds DEF Finalize, task, log
<1>12. CASE Release(a)
  BY <1>0, <1>12, HolderEnds DEF Release, Cleared, task, log
<1>13. CASE Unmark(a)
  BY <1>0, <1>1, <1>13, HolderMoves DEF Unmark, handle, log
<1> QED
  BY <1>2, <1>3, <1>4, <1>5, <1>6, <1>7, <1>8, <1>9, <1>10, <1>11, <1>12, <1>13
     DEF HolderStep, ResolveStep

\* A resolver touches no handle but its own.
LEMMA ResolveOther ==
    ASSUME TypeInv, HolderInv, NEW a \in Resolvers, HolderStep(a),
           NEW d \in Delegations, d \notin torn', act[a].of # d
    PROVE  HandleOK(d)'
<1>0. /\ row \in [Delegations -> {None, "running", "pending", "claimed", "resolved", "deleted"}]
      /\ token \in [Delegations -> Nat] /\ outcomes \in [Delegations -> Nat]
      /\ turns \in [Delegations -> Nat] /\ act[a].of \in Delegations
      /\ review \in [Delegations -> {None, "open", "closed", "human"}]
      /\ act \in [Resolvers -> [at : Places, of : Delegations \cup {None},
                                kind : {"deliver", "note"}, token : Nat]]
  <2>1. act[a].at # "idle"
    BY DEF HolderStep, ResolveStep, Classify, Claim, Mark, Name, Publish, Deliver, TurnEnds, Renew, Check,
           Record, AuditOutcome, Finalize, Unmark, Release
  <2> QED
    BY <2>1 DEF TypeInv, TypeOK, ActOK
<1>1. /\ torn \subseteq torn' /\ UNCHANGED waits
      /\ row'[d] = row[d] /\ token'[d] = token[d] /\ outcomes'[d] = outcomes[d]
      /\ turns'[d] = turns[d] /\ review'[d] = review[d]
      /\ (d \in lapsed' => d \in lapsed) /\ (d \in wakes' => d \in wakes)
  <2>1. CASE Classify(a) \/ Claim(a) \/ Mark(a) \/ Name(a)
    BY <1>0, <2>1 DEF Classify, Claim, Mark, Name, Put, handle, task, log
  <2>2. CASE Publish(a) \/ Deliver(a) \/ TurnEnds(a) \/ Renew(a)
    BY <1>0, <2>2 DEF Publish, Deliver, TurnEnds, Renew, handle, task, log
  <2>3. CASE Check(a) \/ AuditOutcome(a) \/ Unmark(a)
    BY <1>0, <2>3 DEF Check, AuditOutcome, Unmark, handle, task, log
  <2>4. CASE Record(a)
    BY <1>0, <2>4 DEF Record, Put, handle, task, log
  <2>5. CASE Finalize(a) \/ Release(a)
    BY <1>0, <2>5 DEF Finalize, Release, Put, Cleared, task, log
  <2> QED
    BY <2>1, <2>2, <2>3, <2>4, <2>5 DEF HolderStep, ResolveStep
<1>2. /\ \A b \in Resolvers \ {a} : act'[b] = act[b]
      /\ act'[a].of # d \/ act'[a].at = "idle"
  <2>1. CASE Classify(a) \/ Claim(a)
    BY <1>0, <2>1 DEF Classify, Claim, Idle, NoHandle
  <2>2. ASSUME NEW at, Goes(a, at) PROVE <1>2
    BY <2>2, GoesFields
  <2>3. CASE Idle(a)
    BY <2>3, IdleFields
  <2>4. CASE Mark(a) \/ Name(a) \/ Publish(a) \/ Deliver(a) \/ TurnEnds(a) \/ Renew(a) \/ Check(a)
    BY <2>2, <2>3, <2>4 DEF Mark, Name, Publish, NotSent, Deliver, TurnEnds, Renew, Check
  <2>5. CASE Record(a) \/ AuditOutcome(a) \/ Finalize(a) \/ Unmark(a) \/ Release(a)
    BY <2>2, <2>3, <2>5 DEF Record, AuditOutcome, Finalize, Unmark, Release
  <2> QED
    BY <2>1, <2>4, <2>5 DEF HolderStep, ResolveStep
<1>3. \A b \in Resolvers : /\ Works(b, d)' => Works(b, d)
                           /\ Works(b, d) => act'[b] = act[b]
  BY <1>2 DEF Works, Working
<1>4. HandleOK(d)
  BY <1>1 DEF HolderInv
<1> QED
  BY <1>1, <1>3, <1>4, HandleFrame

LEMMA ResolveHolder ==
    ASSUME TypeInv, HolderInv, NEW a \in Resolvers, HolderStep(a)
    PROVE  HolderInv'
<1>1. \A d \in Delegations \ torn' : HandleOK(d)'
  BY ClaimKeeps, HolderKeeps, ResolveOther
<1>2. UNCHANGED answer
  BY DEF HolderStep, ResolveStep, Classify, Claim, Mark, Name, Publish, Deliver, TurnEnds, Renew, Check,
         Record, AuditOutcome, Finalize, Unmark, Release, delegate
<1>3. act[a].at # "idle" /\ \A b \in Resolvers \ {a} : act'[b] = act[b]
  <2>1. act[a].at # "idle"
    BY DEF HolderStep, ResolveStep, Classify, Claim, Mark, Name, Publish, Deliver, TurnEnds, Renew, Check,
           Record, AuditOutcome, Finalize, Unmark, Release
  <2>2. ASSUME NEW at, Goes(a, at) PROVE \A b \in Resolvers \ {a} : act'[b] = act[b]
    BY <2>2, GoesFields
  <2>3. CASE Idle(a)
    BY <2>1, <2>3, IdleFields
  <2>4. CASE Classify(a) \/ Claim(a)
    BY <2>1, <2>3, <2>4 DEF Classify, Claim, TypeInv, TypeOK, ActOK
  <2>5. CASE Mark(a) \/ Name(a) \/ Publish(a) \/ Deliver(a) \/ TurnEnds(a) \/ Renew(a) \/ Check(a)
    BY <2>1, <2>2, <2>3, <2>5 DEF Mark, Name, Publish, NotSent, Deliver, TurnEnds, Renew, Check
  <2>6. CASE Record(a) \/ AuditOutcome(a) \/ Finalize(a) \/ Unmark(a) \/ Release(a)
    BY <2>1, <2>2, <2>3, <2>6 DEF Record, AuditOutcome, Finalize, Unmark, Release
  <2> QED
    BY <2>4, <2>5, <2>6 DEF HolderStep, ResolveStep
<1>4. SubscriberIdle'
  <2> SUFFICES ASSUME NEW d \in Delegations, answer'[d] = None PROVE act'[d].at = "idle"
    BY DEF SubscriberIdle
  <2>1. act[d].at = "idle" /\ d \in Resolvers
    BY <1>2, DelegationIsResolver DEF HolderInv, SubscriberIdle
  <2> QED
    BY <1>3, <2>1
<1> QED
  BY <1>1, <1>4 DEF HolderInv

\* The delegate call, the choice of a handle, time and the review task disturb no holder.
LEMMA OutsideHolder ==
    ASSUME TypeInv, HolderInv, NEW d \in Delegations,
           \/ Acquire(d) \/ CallStep(d) \/ Respond(d) \/ Look(d) \/ Expire(d) \/ Lapse(d)
           \/ SweepPicks(d) \/ HumanCloses(d) \/ \E own \in BOOLEAN : Reply(d, own)
    PROVE  HolderInv'
<1>0. /\ row \in [Delegations -> {None, "running", "pending", "claimed", "resolved", "deleted"}]
      /\ review \in [Delegations -> {None, "open", "closed", "human"}]
      /\ act \in [Resolvers -> [at : Places, of : Delegations \cup {None},
                                kind : {"deliver", "note"}, token : Nat]]
      /\ answer \in [Delegations -> {None, "result", "other", "never"}]
      /\ d \in Resolvers /\ "sweep" \in Resolvers /\ SubscriberIdle
  BY DelegationIsResolver, DelegationAssumption DEF TypeInv, TypeOK, ActOK, HolderInv
<1>1. UNCHANGED <<token, outcomes, turns, wakes>> /\ torn \subseteq torn' /\ waits \subseteq waits'
  BY DEF Acquire, CallStep, WaitEnds, Promote, Return, Respond, Look, Expire, Lapse, SweepPicks,
         HumanCloses, Reply, handle, task, log
<1>2. \A e \in Delegations : row'[e] = row[e] \/ row[e] # "claimed"
  <2>1. CASE Acquire(d)
    <3>1. row[d] # "claimed"
      BY <2>1, DelegationAssumption DEF Acquire, TypeInv, NewHasNoRow
    <3> QED
      BY <1>0, <2>1, <3>1 DEF Acquire, Put
  <2>2. CASE CallStep(d)
    BY <1>0, <2>2 DEF CallStep, WaitEnds, Promote, Return, Put, handle
  <2>3. CASE ~Acquire(d) /\ ~CallStep(d)
    BY <2>3 DEF Respond, Look, Expire, Lapse, SweepPicks, HumanCloses, Reply, handle
  <2> QED
    BY <2>1, <2>2, <2>3
<1>3. \A e \in Delegations : e \notin waits' /\ review'[e] = "closed" => review[e] = "closed"
  <2>1. CASE CallStep(d)
    BY <1>0, <2>1 DEF CallStep, WaitEnds, Promote, Return, Put, task
  <2>2. CASE HumanCloses(d)
    BY <1>0, <2>2 DEF HumanCloses, Put
  <2>3. ASSUME NEW own \in BOOLEAN, Reply(d, own) PROVE <1>3
    BY <1>0, <2>3 DEF Reply, Put
  <2>4. CASE Acquire(d) \/ Respond(d) \/ Look(d) \/ Expire(d) \/ Lapse(d) \/ SweepPicks(d)
    BY <2>4 DEF Acquire, Respond, Look, Expire, Lapse, SweepPicks, task
  <2> QED
    BY <2>1, <2>2, <2>3, <2>4
<1>4. \A e \in Delegations \ torn' :
          e \in lapsed' => e \in lapsed \/ ~\E a \in Resolvers : Live(a, e)
  <2>1. CASE Lapse(d)
    <3> SUFFICES ASSUME NEW a \in Resolvers, d \notin torn', Live(a, d) PROVE FALSE
      BY <2>1 DEF Lapse
    <3>1. Works(a, d) /\ act[a].at # "turn" /\ token[d] > 0 /\ act[a].token = token[d]
      BY <1>1 DEF Live, HolderInv, HandleOK
    <3>2. Holds(a, d)
      BY <3>1 DEF Holds, Works
    <3> QED
      BY <2>1, <3>1, <3>2 DEF Lapse
  <2>2. CASE ~Lapse(d)
    BY <2>2 DEF Acquire, CallStep, WaitEnds, Promote, Return, Respond, Look, Expire, SweepPicks,
                HumanCloses, Reply, handle
  <2> QED
    BY <2>1, <2>2
<1>5. \A a \in Resolvers :
          act'[a] = act[a] \/ (act[a].at \notin Working /\ act'[a].at \notin Working)
  <2>1. CASE Respond(d)
    BY <1>0, <2>1 DEF Respond, SubscriberIdle, Working
  <2>2. CASE Look(d)
    BY <1>0, <2>2, GoesFields, IdleFields DEF Look, Working
  <2>3. CASE SweepPicks(d)
    BY <1>0, <2>3 DEF SweepPicks, Working
  <2>4. CASE ~Respond(d) /\ ~Look(d) /\ ~SweepPicks(d)
    BY <2>4 DEF Acquire, CallStep, WaitEnds, Promote, Return, Expire, Lapse, HumanCloses, Reply
  <2> QED
    BY <2>1, <2>2, <2>3, <2>4
<1>6. ASSUME NEW e \in Delegations, e \notin torn' PROVE HandleOK(e)'
  <2>1. HandleOK(e)
    BY <1>1, <1>6 DEF HolderInv
  <2>2. \A a \in Resolvers : /\ Works(a, e)' => Works(a, e)
                             /\ Works(a, e) => act'[a] = act[a]
    BY <1>5 DEF Works
  <2>3. row'[e] = row[e] \/ ~\E a \in Resolvers : Live(a, e)
    BY <1>2, <2>1 DEF HandleOK, Live
  <2> QED
    BY <1>1, <1>3, <1>4, <1>6, <2>1, <2>2, <2>3, HandleFrame
<1>7. SubscriberIdle'
  <2> SUFFICES ASSUME NEW e \in Delegations, answer'[e] = None PROVE act'[e].at = "idle"
    BY DEF SubscriberIdle
  <2>1. CASE Respond(d)
    <3>1. answer'[d] \in {"result", "other"} /\ \A f \in Delegations \ {d} :
              answer'[f] = answer[f] /\ act'[f] = act[f]
      BY <1>0, <2>1, DelegationIsResolver DEF Respond, Put
    <3>2. None \notin {"result", "other"}
      BY DelegationAssumption
    <3> QED
      BY <1>0, <3>1, <3>2 DEF SubscriberIdle
  <2>2. CASE Look(d)
    <3>1. act[e].at = "idle" /\ act[d].at = "look"
      BY <1>0, <2>2 DEF Look, delegate, SubscriberIdle
    <3> QED
      BY <2>2, <3>1, GoesFields, IdleFields, DelegationIsResolver DEF Look
  <2>3. CASE SweepPicks(d)
    BY <1>0, <2>3, DelegationIsResolver, DelegationAssumption DEF SweepPicks, delegate, SubscriberIdle
  <2>4. CASE ~Respond(d) /\ ~Look(d) /\ ~SweepPicks(d)
    BY <1>0, <2>4 DEF Acquire, CallStep, WaitEnds, Promote, Return, Expire, Lapse, HumanCloses,
                      Reply, delegate, SubscriberIdle
  <2> QED
    BY <2>1, <2>2, <2>3, <2>4
<1> QED
  BY <1>6, <1>7 DEF HolderInv

\* A crash takes every holder away, and marks the handle whose wake it keeps from its turn as torn.
LEMMA CrashHolder ==
    ASSUME TypeInv, HolderInv, Crash
    PROVE  HolderInv'
<1>1. /\ act' = [a \in Resolvers |-> NoHandle]
      /\ torn' = torn \cup {act[a].of : a \in {a \in Resolvers : act[a].at = "deliver"}}
      /\ UNCHANGED <<outcomes, wakes, turns, waits, review>>
  BY DEF Crash, task, log
<1>2. \A a \in Resolvers : act'[a].at = "idle" /\ \A d : ~Works(a, d)'
  BY <1>1 DEF NoHandle, Works, Working
<1>3. ASSUME NEW d \in Delegations, d \notin torn' PROVE HandleOK(d)'
  <2>1. HandleOK(d) /\ \A a \in Resolvers : act[a].at = "deliver" => act[a].of # d
    BY <1>1, <1>3 DEF HolderInv
  <2> QED
    BY <1>1, <1>2, <2>1 DEF HandleOK
<1>4. SubscriberIdle'
  BY <1>2, DelegationIsResolver DEF SubscriberIdle
<1> QED
  BY <1>3, <1>4 DEF HolderInv

LEMMA HolderInvInit == Init => HolderInv
<1> SUFFICES ASSUME Init PROVE HolderInv
  OBVIOUS
<1>1. \A a \in Resolvers : act[a].at = "idle" /\ \A d : ~Works(a, d)
  BY DEF Init, NoHandle, Works, Working
<1>2. SubscriberIdle
  BY <1>1, DelegationIsResolver DEF SubscriberIdle
<1>3. ASSUME NEW d \in Delegations PROVE HandleOK(d)
  <2>1. outcomes[d] = 0 /\ d \notin wakes /\ review[d] # "closed"
    BY DelegationAssumption DEF Init
  <2> QED
    BY <1>1, <2>1 DEF HandleOK
<1> QED
  BY <1>2, <1>3 DEF HolderInv

LEMMA HolderInvStep == TypeInv /\ HolderInv /\ [Next]_vars => HolderInv'
<1> SUFFICES ASSUME TypeInv, HolderInv, [Next]_vars PROVE HolderInv'
  OBVIOUS
<1>1. CASE UNCHANGED vars
  BY <1>1 DEF vars, delegate, handle, task, log, HolderInv, SubscriberIdle, HandleOK, Works, Live
<1> QED
  BY <1>1, OutsideHolder, ResolveHolder, CrashHolder DEF Next, HolderStep

\* However the subscriber and the sweep claim a handle, wherever the process crashes and whatever
\* fails, the outcome of the delegation is audited once, unless a holder outlived its lease in the
\* bookkeeping, the lookup that would have found the outcome failed, or a wake was logged and not
\* handed over (torn).
THEOREM AuditedOnce == Spec => []OneOutcome
<1>1. HolderInv => OneOutcome
  BY DEF HolderInv, HandleOK, OneOutcome
<1> QED
  BY TypeInvariant, HolderInvInit, HolderInvStep, <1>1, PTL DEF Spec

\* A review task is closed for a reason: the woken agent had the result, or a message of another
\* turn reached the sender who waits.  The first part again leaves out what tore; the crashes
\* between the wake and the end of the bookkeeping are in.
THEOREM TasksCloseForAReason == Spec => []ClosedForAReason
<1>1. HolderInv => ClosedHasResult
  BY DEF HolderInv, HandleOK, ClosedHasResult
<1>2. ClosedHasResult /\ SenderIsAnswered => ClosedForAReason
  BY DEF ClosedForAReason
<1> QED
  BY TypeInvariant, HolderInvInit, HolderInvStep, SendersAnswered, <1>1, <1>2, PTL DEF Spec
==============================================================================
