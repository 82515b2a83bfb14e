--------------------------- MODULE TurnLanesProofs ---------------------------
(***************************************************************************)
(* Proofs about TurnLanes, for every set of conversations, inbounds and    *)
(* synthetic tasks, every cap and every number of failures.                *)
(***************************************************************************)
EXTENDS TurnLanes, SequenceTheorems, TLAPS

\* Taking a waiter out of the FIFO leaves a sequence of tasks.
LEMMA RemoveAtType ==
    ASSUME NEW S, NEW s \in Seq(S), NEW k \in DOMAIN s
    PROVE  RemoveAt(s, k) \in Seq(S)
<1>1. k \in 1 .. Len(s)
  BY LenProperties
<1>2. SubSeq(s, 1, k - 1) \in Seq(S)
  BY <1>1, SubSeqProperties, LenProperties
<1>3. SubSeq(s, k + 1, Len(s)) \in Seq(S)
  BY <1>1, SubSeqProperties, LenProperties
<1> QED
  BY <1>2, <1>3, ConcatProperties DEF RemoveAt

\* The inbounds of a queue are inbounds.
LEMMA ToSetType ==
    ASSUME NEW S, NEW s \in Seq(S)
    PROVE  ToSet(s) \subseteq S
BY ElementOfSeq, LenProperties DEF ToSet

LEMMA InboundIsTask == Inbounds \subseteq Tasks /\ Wakes \subseteq Tasks /\ Rewrites \subseteq Tasks
BY DEF Tasks

LEMMA ConvType == \A t \in Tasks : Conv[t] \in Convs
BY LaneAssumption

\* A new hold, or none, keeps the lane's types.
LEMMA BeginHoldType ==
    ASSUME LaneTypeOK, NEW c \in Convs, NEW t \in Tasks \cup {None}, NEW ph \in Phases,
           BeginHold(c, t, ph), waiters' \in [Convs -> Seq(Tasks)]
    PROVE  LaneTypeOK'
<1>1. 0 \in 0 .. MaxInjections
  BY LaneAssumption
<1>2. <<>> \in Seq(Inbounds)
  OBVIOUS
<1> QED
  BY <1>1, <1>2 DEF LaneTypeOK, BeginHold

LEMMA JoinType ==
    ASSUME LaneTypeOK, NEW t \in Tasks, NEW ph \in {"reserved", "running"}, Join(t, ph)
    PROVE  LaneTypeOK'
<1> DEFINE c == Conv[t]
<1>0. c \in Convs /\ ph \in Phases
  BY ConvType DEF Phases
<1>1. CASE Holds(t) /\ phase' = [phase EXCEPT ![c] = IF @ = "reserved" THEN ph ELSE @]
           /\ UNCHANGED <<holder, accepted, queue, pending, aborted, waiters>>
  BY <1>0, <1>1 DEF LaneTypeOK
<1>2. CASE UNCHANGED lane
  BY <1>2 DEF LaneTypeOK, lane
<1>3. CASE BeginHold(c, t, ph) /\ UNCHANGED waiters
  <2>1. waiters' \in [Convs -> Seq(Tasks)]
    BY <1>3 DEF LaneTypeOK
  <2> QED
    BY <1>0, <1>3, <2>1, BeginHoldType
<1>4. CASE /\ waiters' = [waiters EXCEPT ![c] = Append(@, t)]
           /\ UNCHANGED <<holder, phase, accepted, queue, pending, aborted>>
  <2>1. Append(waiters[c], t) \in Seq(Tasks)
    BY <1>0, AppendProperties DEF LaneTypeOK
  <2> QED
    BY <1>0, <1>4, <2>1 DEF LaneTypeOK
<1> QED
  BY <1>1, <1>2, <1>3, <1>4 DEF Join

LEMMA GrantNextType ==
    ASSUME LaneTypeOK, NEW c \in Convs, GrantNext(c)
    PROVE  LaneTypeOK'
<1>1. CASE waiters[c] = <<>>
  <2>1. BeginHold(c, None, "idle") /\ waiters' = waiters
    BY <1>1 DEF GrantNext
  <2>2. waiters' \in [Convs -> Seq(Tasks)] /\ "idle" \in Phases
    BY <2>1 DEF LaneTypeOK, Phases
  <2> QED
    BY <2>1, <2>2, BeginHoldType
<1>2. CASE waiters[c] # <<>>
  <2> DEFINE h == Head(waiters[c])
             ph == IF pc[h] = "acquiring" THEN "running" ELSE "reserved"
  <2>1. BeginHold(c, h, ph) /\ waiters' = [waiters EXCEPT ![c] = Tail(@)]
    BY <1>2 DEF GrantNext
  <2>2. waiters[c] \in Seq(Tasks)
    BY DEF LaneTypeOK
  <2>3. h \in Tasks /\ Tail(waiters[c]) \in Seq(Tasks)
    BY <1>2, <2>2, HeadTailProperties
  <2>4. waiters' \in [Convs -> Seq(Tasks)]
    BY <2>1, <2>3 DEF LaneTypeOK
  <2>5. ph \in Phases
    BY DEF Phases
  <2>6. h \in Tasks \cup {None}
    BY <2>3
  <2> HIDE DEF h, ph
  <2> QED
    BY <2>1, <2>4, <2>5, <2>6, BeginHoldType
<1> QED
  BY <1>1, <1>2

LEMMA UnqueueType ==
    ASSUME LaneTypeOK, NEW t \in Tasks, Unqueue(t)
    PROVE  waiters' \in [Convs -> Seq(Tasks)]
<1> DEFINE c == Conv[t]
<1>1. c \in Convs /\ waiters[c] \in Seq(Tasks)
  BY ConvType DEF LaneTypeOK
<1>2. PICK k \in DOMAIN waiters[c] : waiters' = [waiters EXCEPT ![c] = RemoveAt(@, k)]
  BY DEF Unqueue
<1>3. RemoveAt(waiters[c], k) \in Seq(Tasks)
  BY <1>1, RemoveAtType
<1> QED
  BY <1>1, <1>2, <1>3 DEF LaneTypeOK

LEMMA UndrainedType ==
    ASSUME LaneTypeOK, NEW c \in Convs
    PROVE  Undrained(c) \subseteq Inbounds
<1>1. ToSet(queue[c]) \subseteq Inbounds
  BY ToSetType DEF LaneTypeOK
<1> QED
  BY <1>1 DEF Undrained, LaneTypeOK

LEMMA ReleaseType ==
    ASSUME LaneTypeOK, TicketTypeOK, NEW t \in Tasks, Release(t), UNCHANGED <<stored, settled>>
    PROVE  LaneTypeOK' /\ TicketTypeOK'
<1>1. CASE ~Holds(t)
  BY <1>1 DEF Release, LaneTypeOK, TicketTypeOK, lane
<1>2. CASE Holds(t)
  <2> DEFINE c == Conv[t]
  <2>1. c \in Convs
    BY ConvType
  <2>2. GrantNext(c)
    BY <1>2 DEF Release
  <2>3. Undrained(c) \subseteq Inbounds
    BY <2>1, UndrainedType
  <2>4. /\ ticket' = [i \in Inbounds |->
                        IF i \in Undrained(c) \ stored THEN "returned" ELSE ticket[i]]
        /\ retained' = retained \cup (Undrained(c) \cap stored)
    BY <1>2 DEF Release
  <2>5. LaneTypeOK'
    BY <2>1, <2>2, GrantNextType
  <2>6. TicketTypeOK'
    BY <2>3, <2>4 DEF TicketTypeOK, TicketStates
  <2> QED
    BY <2>5, <2>6
<1> QED
  BY <1>1, <1>2

(***************************************************************************)
(* Typing, with the fact that drainInjected always has an input left.      *)
(***************************************************************************)
Typed == TypeOK /\ DrainingHasWork

LEMMA TypedInit == Init => Typed
<1> SUFFICES ASSUME Init PROVE Typed
  OBVIOUS
<1>1. LaneTypeOK
  <2>1. 0 \in 0 .. MaxInjections /\ <<>> \in Seq(Inbounds) /\ <<>> \in Seq(Tasks)
    BY LaneAssumption
  <2> QED
    BY <2>1 DEF Init, LaneTypeOK, Phases
<1>2. TicketTypeOK
  BY DEF Init, TicketTypeOK, TicketStates
<1>3. TurnTypeOK
  BY DEF Init, TurnTypeOK
<1>4. MemoryTypeOK
  BY DEF Init, MemoryTypeOK
<1>5. pc \in [Tasks -> Stages] /\ faults \in 0 .. MaxFaults /\ DrainingHasWork
  BY LaneAssumption DEF Init, Stages, DrainingHasWork
<1> QED
  BY <1>1, <1>2, <1>3, <1>4, <1>5 DEF Typed, TypeOK

\* A failure is counted up to the bound.
LEMMA FaultType ==
    ASSUME faults \in 0 .. MaxFaults, Fault
    PROVE  faults' \in 0 .. MaxFaults
BY LaneAssumption DEF Fault

LEMMA TypedRoute ==
    ASSUME Typed, NEW i \in Inbounds, Inject(i) \/ RouteOwnTask(i) \/ Route(i)
    PROVE  Typed'
<1>0. i \in Tasks /\ Conv[i] \in Convs
  BY InboundIsTask, ConvType
<1> USE <1>0 DEF Typed, TypeOK
<1>1. CASE Inject(i)
  <2>1. LaneTypeOK'
    <3>1. Append(queue[Conv[i]], i) \in Seq(Inbounds)
      BY AppendProperties DEF LaneTypeOK
    <3>2. accepted[Conv[i]] + 1 \in 0 .. MaxInjections
      BY <1>1, LaneAssumption DEF Inject, CanInject, LaneTypeOK
    <3> QED
      BY <1>1, <3>1, <3>2 DEF Inject, LaneTypeOK
  <2>2. TicketTypeOK' /\ TurnTypeOK' /\ MemoryTypeOK'
    BY <1>1 DEF Inject, TicketTypeOK, TicketStates, TurnTypeOK, MemoryTypeOK, turns, memory
  <2> QED
    BY <1>1, <2>1, <2>2 DEF Inject, DrainingHasWork, turns
<1>2. ASSUME CreateTask(i), UNCHANGED ticket PROVE Typed'
  <2>1. LaneTypeOK'
    BY <1>2, JoinType DEF CreateTask
  <2>2. TicketTypeOK' /\ TurnTypeOK' /\ MemoryTypeOK'
    BY <1>2 DEF CreateTask, TicketTypeOK, TurnTypeOK, MemoryTypeOK, turns, memory
  <2> QED
    BY <1>2, <2>1, <2>2 DEF CreateTask, DrainingHasWork, turns, Stages
<1>3. CASE RouteOwnTask(i)
  BY <1>2, <1>3 DEF RouteOwnTask
<1>4. CASE RouteReturned(i)
  BY <1>2, <1>4 DEF RouteReturned
<1>5. CASE RouteDrained(i)
  <2>1. LaneTypeOK' /\ TicketTypeOK' /\ TurnTypeOK' /\ MemoryTypeOK'
    BY <1>5 DEF RouteDrained, LaneTypeOK, TicketTypeOK, TurnTypeOK, MemoryTypeOK, lane, turns, memory
  <2> QED
    BY <1>5, <2>1 DEF RouteDrained, DrainingHasWork, turns
<1>6. CASE PublishTask(i)
  <2>1. LaneTypeOK'
    BY <1>6, JoinType DEF PublishTask
  <2>2. TicketTypeOK' /\ TurnTypeOK' /\ MemoryTypeOK'
    BY <1>6 DEF PublishTask, TicketTypeOK, TurnTypeOK, MemoryTypeOK, tickets, turns, memory
  <2> QED
    BY <1>6, <2>1, <2>2 DEF PublishTask, DrainingHasWork, turns, Stages
<1>7. CASE PublishTaskFails(i)
  <2>1. LaneTypeOK' /\ TicketTypeOK'
    <3>1. CASE Holds(i) /\ Release(i)
      BY <1>7, <3>1, ReleaseType DEF PublishTaskFails
    <3>2. CASE /\ IF Waits(i) THEN Unqueue(i) ELSE UNCHANGED waiters
               /\ UNCHANGED <<holder, phase, accepted, queue, pending, aborted, retained, ticket>>
      <4>1. waiters' \in [Convs -> Seq(Tasks)]
        BY <3>2, UnqueueType DEF LaneTypeOK
      <4> QED
        BY <1>7, <3>2, <4>1 DEF LaneTypeOK, TicketTypeOK, PublishTaskFails
    <3> QED
      BY <1>7, <3>1, <3>2 DEF PublishTaskFails
  <2>2. TurnTypeOK' /\ MemoryTypeOK'
    BY <1>7 DEF PublishTaskFails, TurnTypeOK, MemoryTypeOK, turns, memory
  <2>3. faults' \in 0 .. MaxFaults
    BY <1>7, FaultType DEF PublishTaskFails
  <2> QED
    BY <1>7, <2>1, <2>2, <2>3 DEF PublishTaskFails, DrainingHasWork, turns, Stages
<1> QED
  BY <1>1, <1>3, <1>4, <1>5, <1>6, <1>7 DEF Route

LEMMA TypedPublish ==
    ASSUME Typed,
           \/ \E w \in Wakes : PublishWake(w)
           \/ \E t \in Tasks, r \in Rewrites : PublishRewrite(t, r)
           \/ \E t \in Tasks : FailOpen(t)
    PROVE  Typed'
<1> USE DEF Typed, TypeOK
<1>1. ASSUME NEW w \in Wakes, PublishWake(w) PROVE Typed'
  <2>1. LaneTypeOK'
    BY <1>1, InboundIsTask, JoinType DEF PublishWake
  <2>2. TicketTypeOK' /\ TurnTypeOK' /\ MemoryTypeOK'
    BY <1>1 DEF PublishWake, TicketTypeOK, TurnTypeOK, MemoryTypeOK, tickets, turns, memory
  <2> QED
    BY <1>1, <2>1, <2>2 DEF PublishWake, DrainingHasWork, turns, Stages
<1>2. ASSUME NEW t \in Tasks, NEW r \in Rewrites, PublishRewrite(t, r) PROVE Typed'
  <2>1. LaneTypeOK'
    BY <1>2, InboundIsTask, JoinType DEF PublishRewrite
  <2>2. TicketTypeOK' /\ TurnTypeOK' /\ MemoryTypeOK'
    BY <1>2 DEF PublishRewrite, TicketTypeOK, TurnTypeOK, MemoryTypeOK, tickets, memory
  <2> QED
    BY <1>2, <2>1, <2>2 DEF PublishRewrite, DrainingHasWork, Stages
<1>3. ASSUME NEW t \in Tasks, FailOpen(t) PROVE Typed'
  <2>1. waiters' \in [Convs -> Seq(Tasks)]
    BY <1>3, UnqueueType DEF FailOpen
  <2>2. LaneTypeOK' /\ TicketTypeOK' /\ TurnTypeOK' /\ MemoryTypeOK'
    BY <1>3, <2>1
    DEF FailOpen, LaneTypeOK, TicketTypeOK, TurnTypeOK, MemoryTypeOK, tickets, memory
  <2> QED
    BY <1>3, <2>2 DEF FailOpen, DrainingHasWork
<1> QED
  BY <1>1, <1>2, <1>3

\* The steps of a turn that leave the lane alone.
LEMMA TypedQuiet ==
    ASSUME Typed, NEW t \in Tasks,
           \/ Begin(t) \/ BeginFails(t) \/ StopEarly(t) \/ PersistReply(t)
           \/ PersistReplyFails(t) \/ EndTask(t)
    PROVE  Typed'
<1> USE DEF Typed, TypeOK
<1>1. CASE Begin(t)
  <2>1. LaneTypeOK' /\ TicketTypeOK' /\ TurnTypeOK' /\ MemoryTypeOK'
    BY <1>1 DEF Begin, LaneTypeOK, TicketTypeOK, TurnTypeOK, MemoryTypeOK, lane, tickets, turns
  <2> QED
    BY <1>1, <2>1 DEF Begin, DrainingHasWork, Stages, turns
<1>2. CASE BeginFails(t) \/ PersistReplyFails(t)
  <2>1. LaneTypeOK' /\ TicketTypeOK' /\ TurnTypeOK' /\ MemoryTypeOK'
    BY <1>2 DEF BeginFails, PersistReplyFails, LaneTypeOK, TicketTypeOK, TurnTypeOK,
                MemoryTypeOK, lane, tickets, turns, memory
  <2>2. faults' \in 0 .. MaxFaults
    BY <1>2, FaultType DEF BeginFails, PersistReplyFails
  <2> QED
    BY <1>2, <2>1, <2>2 DEF BeginFails, PersistReplyFails, DrainingHasWork, Stages, turns
<1>3. CASE StopEarly(t) \/ EndTask(t)
  <2>1. LaneTypeOK' /\ TicketTypeOK' /\ TurnTypeOK' /\ MemoryTypeOK'
    BY <1>3 DEF StopEarly, EndTask, LaneTypeOK, TicketTypeOK, TurnTypeOK, MemoryTypeOK,
                lane, tickets, turns, memory
  <2> QED
    BY <1>3, <2>1 DEF StopEarly, EndTask, DrainingHasWork, Stages, turns
<1>4. CASE PersistReply(t)
  <2>1. LaneTypeOK' /\ TicketTypeOK' /\ TurnTypeOK' /\ MemoryTypeOK'
    BY <1>4 DEF PersistReply, LaneTypeOK, TicketTypeOK, TurnTypeOK, MemoryTypeOK,
                lane, tickets, turns
  <2> QED
    BY <1>4, <2>1 DEF PersistReply, DrainingHasWork, Stages, turns
<1> QED
  BY <1>1, <1>2, <1>3, <1>4

LEMMA TypedDrain ==
    ASSUME Typed, NEW t \in Tasks, TakeQueued(t) \/ Drain(t)
    PROVE  Typed'
<1>0. Conv[t] \in Convs
  BY ConvType
<1> USE <1>0 DEF Typed, TypeOK
<1>1. CASE TakeQueued(t)
  <2>1. ToSet(queue[Conv[t]]) \subseteq Inbounds
    BY ToSetType DEF LaneTypeOK
  <2>2. LaneTypeOK'
    BY <1>1, <2>1 DEF TakeQueued, LaneTypeOK
  <2>3. TicketTypeOK' /\ TurnTypeOK' /\ MemoryTypeOK'
    BY <1>1 DEF TakeQueued, LaneTypeOK, TicketTypeOK, TurnTypeOK, MemoryTypeOK, tickets, memory
  <2>4. DrainingHasWork'
    BY <1>1 DEF TakeQueued, DrainingHasWork, TurnTypeOK
  <2> QED
    BY <1>1, <2>2, <2>3, <2>4 DEF TakeQueued, Stages
<1>2. ASSUME pc[t] = "draining"
      PROVE  Head(work[t]) \in Inbounds /\ Tail(work[t]) \in Seq(Inbounds)
  BY <1>2, HeadTailProperties DEF DrainingHasWork, TurnTypeOK
<1>3. CASE StoreFollowUp(t)
  <2>1. LaneTypeOK' /\ TicketTypeOK' /\ TurnTypeOK' /\ MemoryTypeOK'
    BY <1>2, <1>3 DEF StoreFollowUp, LaneTypeOK, TicketTypeOK, TurnTypeOK, MemoryTypeOK,
                      lane, turns
  <2> QED
    BY <1>3, <2>1 DEF StoreFollowUp, DrainingHasWork, turns
<1>4. CASE StoreFollowUpFails(t)
  <2>1. LaneTypeOK' /\ TicketTypeOK' /\ TurnTypeOK' /\ MemoryTypeOK'
    BY <1>4 DEF StoreFollowUpFails, LaneTypeOK, TicketTypeOK, TurnTypeOK, MemoryTypeOK,
                lane, tickets, memory
  <2>2. faults' \in 0 .. MaxFaults
    BY <1>4, FaultType DEF StoreFollowUpFails
  <2>3. pc' \in [Tasks -> Stages] /\ DrainingHasWork'
    BY <1>4 DEF StoreFollowUpFails, DrainingHasWork, Stages, TurnTypeOK
  <2> QED
    BY <2>1, <2>2, <2>3
<1>5. ASSUME pc[t] = "draining", NextFollowUp(t)
      PROVE  /\ pc' \in [Tasks -> Stages] /\ DrainingHasWork'
             /\ work' \in [Tasks -> Seq(Inbounds)]
  BY <1>2, <1>5 DEF NextFollowUp, DrainingHasWork, Stages, TurnTypeOK
<1>6. CASE AuditFollowUp(t)
  <2>1. LaneTypeOK' /\ TicketTypeOK' /\ MemoryTypeOK'
    BY <1>2, <1>6 DEF AuditFollowUp, LaneTypeOK, TicketTypeOK, TicketStates, MemoryTypeOK, memory
  <2>2. TurnTypeOK'
    BY <1>5, <1>6 DEF AuditFollowUp, TurnTypeOK
  <2> QED
    BY <1>5, <1>6, <2>1, <2>2 DEF AuditFollowUp
<1>7. CASE AuditFollowUpFails(t)
  <2>1. LaneTypeOK' /\ TicketTypeOK' /\ MemoryTypeOK'
    BY <1>7 DEF AuditFollowUpFails, LaneTypeOK, TicketTypeOK, MemoryTypeOK, lane, tickets, memory
  <2>2. TurnTypeOK'
    BY <1>5, <1>7 DEF AuditFollowUpFails, TurnTypeOK
  <2>3. faults' \in 0 .. MaxFaults
    BY <1>7, FaultType DEF AuditFollowUpFails
  <2> QED
    BY <1>5, <1>7, <2>1, <2>2, <2>3 DEF AuditFollowUpFails
<1> QED
  BY <1>1, <1>3, <1>4, <1>6, <1>7 DEF Drain

LEMMA TypedEnd ==
    ASSUME Typed, NEW t \in Tasks, Finish(t) \/ Respond(t) \/ Finally(t) \/ FlushAudit(t)
    PROVE  Typed'
<1>0. Conv[t] \in Convs
  BY ConvType
<1> USE <1>0 DEF Typed, TypeOK
<1>1. CASE Finish(t)
  <2>1. LaneTypeOK' /\ TicketTypeOK' /\ TurnTypeOK' /\ MemoryTypeOK'
    BY <1>1 DEF Finish, LaneTypeOK, Phases, TicketTypeOK, TurnTypeOK, MemoryTypeOK,
                tickets, turns, memory
  <2> QED
    BY <1>1, <2>1 DEF Finish, DrainingHasWork, Stages, turns
<1>2. CASE Respond(t)
  <2>1. LaneTypeOK' /\ TicketTypeOK'
    BY <1>2, ReleaseType DEF Respond
  <2>2. TurnTypeOK' /\ MemoryTypeOK'
    BY <1>2 DEF Respond, TurnTypeOK, MemoryTypeOK, turns, memory
  <2> QED
    BY <1>2, <2>1, <2>2 DEF Respond, DrainingHasWork, Stages, turns
<1>3. CASE Finally(t)
  <2>1. Undrained(Conv[t]) \subseteq Inbounds
    BY UndrainedType
  <2>2. LaneTypeOK'
    BY <1>3, GrantNextType DEF Finally, LaneTypeOK, lane
  <2>3. TicketTypeOK'
    BY <1>3, <2>1 DEF Finally, TicketTypeOK, TicketStates
  <2>4. TurnTypeOK' /\ MemoryTypeOK'
    <3>1. PICK B \in SUBSET Inbounds : batch' = [batch EXCEPT ![t] = B]
      BY <1>3, <2>1 DEF Finally, TicketTypeOK
    <3>2. TurnTypeOK'
      BY <1>3, <3>1 DEF Finally, TurnTypeOK
    <3> QED
      BY <1>3, <3>2 DEF Finally, MemoryTypeOK, memory
  <2>5. faults' \in 0 .. MaxFaults
    BY <1>3, FaultType DEF Finally
  <2> QED
    BY <1>3, <2>2, <2>3, <2>4, <2>5 DEF Finally, DrainingHasWork, Stages
<1>4. CASE FlushAudit(t)
  <2>1. PICK i \in batch[t] :
          /\ batch' = [batch EXCEPT ![t] = @ \ {i}]
          /\ \/ ticket' = [ticket EXCEPT ![i] = "drained"] /\ UNCHANGED <<retained, faults>>
             \/ retained' = retained \cup {i} /\ Fault /\ UNCHANGED ticket
    BY <1>4 DEF FlushAudit
  <2>2. i \in Inbounds
    BY <2>1 DEF TurnTypeOK
  <2>3. LaneTypeOK' /\ TurnTypeOK' /\ MemoryTypeOK'
    BY <1>4, <2>1 DEF FlushAudit, LaneTypeOK, TurnTypeOK, MemoryTypeOK, lane, memory
  <2>4. TicketTypeOK'
    BY <1>4, <2>1, <2>2 DEF FlushAudit, TicketTypeOK, TicketStates
  <2>5. faults' \in 0 .. MaxFaults
    BY <2>1, FaultType
  <2> QED
    BY <1>4, <2>3, <2>4, <2>5 DEF FlushAudit, DrainingHasWork
<1> QED
  BY <1>1, <1>2, <1>3, <1>4

LEMMA TypedStep == Typed /\ [Next]_vars => Typed'
<1> SUFFICES ASSUME Typed, [Next]_vars PROVE Typed'
  OBVIOUS
<1>1. CASE UNCHANGED vars
  BY <1>1 DEF vars, lane, tickets, turns, memory, Typed, TypeOK, LaneTypeOK, TicketTypeOK,
              TurnTypeOK, MemoryTypeOK, DrainingHasWork
<1>2. CASE Next
  BY <1>2, TypedRoute, TypedPublish, TypedQuiet, TypedDrain, TypedEnd DEF Next, Turn
<1> QED
  BY <1>1, <1>2

\* Every variable of the lanes, the dispatcher and the runtime keeps its type.
THEOREM Typing == Spec => []TypeOK
<1>1. Typed => TypeOK
  BY DEF Typed
<1> QED
  BY TypedInit, TypedStep, <1>1, PTL DEF Spec

(***************************************************************************)
(* One turn per conversation. Every step moves at most one task from one   *)
(* stage to another; what matters of it is stated in the lemma's           *)
(* hypotheses, and each action is shown to meet them.                      *)
(***************************************************************************)
Reading == {"running", "draining", "finishing"}
Over == {"replied", "responding", "flushing", "done"}

TurnInv == WorkingHolds /\ RepliedIsOver /\ HistoryCurrent /\ NoBlindTurns

\* A task that goes on working keeps its lane.
HoldersKeep == \A u \in Tasks : pc'[u] \in Working /\ Holds(u) => holder'[Conv[u]] = u

\* A step from stage to stage that neither reads history nor stores a reply.
LEMMA StageStep ==
    ASSUME Typed, TurnInv, NEW t \in Tasks, NEW s \in Stages,
           pc' = [pc EXCEPT ![t] = s], UNCHANGED <<timedOut, replied, seen>>,
           s \in Working => pc[t] \in Working \/ t \in timedOut \/ Holds(t),
           s \in Reading => pc[t] \in Reading,
           pc[t] \in Over => s \in Over,
           HoldersKeep
    PROVE  TurnInv'
<1>1. \A u \in Tasks : pc'[u] = IF u = t THEN s ELSE pc[u]
  BY DEF Typed, TypeOK
<1>2. WorkingHolds'
  BY <1>1 DEF TurnInv, WorkingHolds, HoldersKeep, Holds
<1>3. RepliedIsOver'
  BY <1>1 DEF TurnInv, RepliedIsOver, Over, Typed, TypeOK, MemoryTypeOK
<1>4. HistoryCurrent'
  BY <1>1 DEF TurnInv, HistoryCurrent, Reading
<1>5. NoBlindTurns'
  BY DEF TurnInv, NoBlindTurns
<1> QED
  BY <1>2, <1>3, <1>4, <1>5 DEF TurnInv

\* Joining takes a lane from nobody.
LEMMA JoinKeeps ==
    ASSUME Typed, NEW t \in Tasks, NEW ph, Join(t, ph)
    PROVE  HoldersKeep
<1> USE DEF Typed, TypeOK, LaneTypeOK, HoldersKeep, Holds
<1>1. CASE UNCHANGED holder
  BY <1>1
<1>2. CASE holder[Conv[t]] = None /\ BeginHold(Conv[t], t, ph)
  BY <1>2, ConvType, LaneAssumption DEF BeginHold
<1> QED
  BY <1>1, <1>2 DEF Join, lane

\* Granting the lane of c changes no other lane.
LEMMA GrantElsewhere ==
    ASSUME Typed, NEW c \in Convs, GrantNext(c)
    PROVE  \A d \in Convs \ {c} : holder'[d] = holder[d]
BY DEF GrantNext, BeginHold, Typed, TypeOK, LaneTypeOK

\* Releasing takes the lane from the releasing task only.
LEMMA ReleaseKeeps ==
    ASSUME Typed, NEW t \in Tasks, Release(t), pc'[t] \notin Working
    PROVE  HoldersKeep
<1>1. CASE ~Holds(t)
  BY <1>1 DEF Release, lane, HoldersKeep, Holds
<1>2. CASE Holds(t)
  <2>1. \A d \in Convs \ {Conv[t]} : holder'[d] = holder[d]
    BY <1>2, ConvType, GrantElsewhere DEF Release
  <2> QED
    BY <1>2, <2>1, ConvType DEF HoldersKeep, Holds
<1> QED
  BY <1>1, <1>2

\* processTask reads the history: every reply so far on the conversation.
LEMMA BeginTurn ==
    ASSUME Typed, TurnInv, NEW t \in Tasks, Begin(t)
    PROVE  TurnInv'
<1>1. \A u \in Tasks : pc'[u] = IF u = t THEN "running" ELSE pc[u]
  BY DEF Begin, Typed, TypeOK
<1>2. t \notin replied
  BY DEF TurnInv, RepliedIsOver, Begin, Granted
<1>3. \A u \in Tasks : seen'[u] = IF u = t THEN {v \in replied : Conv[v] = Conv[t]} ELSE seen[u]
  BY DEF Begin, Typed, TypeOK, MemoryTypeOK
<1>4. UNCHANGED <<timedOut, replied, holder>>
  BY DEF Begin, turns, lane
<1>5. WorkingHolds'
  BY <1>1, <1>4 DEF Begin, Granted, TurnInv, WorkingHolds, Holds
<1>6. RepliedIsOver'
  BY <1>1, <1>2, <1>4 DEF TurnInv, RepliedIsOver, Typed, TypeOK, MemoryTypeOK
<1>7. HistoryCurrent'
  <2> SUFFICES ASSUME NEW v \in replied \ timedOut, NEW u \in Tasks \ timedOut,
                      pc'[u] \in Reading, Conv[v] = Conv[u], v # u
               PROVE  v \in seen'[u]
    BY <1>4 DEF HistoryCurrent, Reading
  <2>1. CASE u = t
    BY <1>3, <2>1
  <2>2. CASE u # t
    BY <1>1, <1>3, <2>2 DEF TurnInv, HistoryCurrent, Reading
  <2> QED
    BY <2>1, <2>2
<1>8. NoBlindTurns'
  BY <1>2, <1>3, <1>4 DEF TurnInv, NoBlindTurns, Typed, TypeOK, MemoryTypeOK
<1> QED
  BY <1>5, <1>6, <1>7, <1>8 DEF TurnInv

\* The reply is stored while its turn is the only one at work on the conversation.
LEMMA PersistReplyTurn ==
    ASSUME Typed, TurnInv, NEW t \in Tasks, PersistReply(t)
    PROVE  TurnInv'
<1>1. \A u \in Tasks : pc'[u] = IF u = t THEN "replied" ELSE pc[u]
  BY DEF PersistReply, Typed, TypeOK
<1>2. UNCHANGED <<timedOut, seen, holder>> /\ replied' = replied \cup {t}
  BY DEF PersistReply, turns, lane
<1>3. pc[t] = "finishing"
  BY DEF PersistReply
<1>4. WorkingHolds'
  BY <1>1, <1>2, <1>3 DEF TurnInv, WorkingHolds, Holds, Working
<1>5. RepliedIsOver'
  BY <1>1, <1>2 DEF TurnInv, RepliedIsOver, Typed, TypeOK, MemoryTypeOK
<1>6. HistoryCurrent'
  <2> SUFFICES ASSUME NEW v \in (replied \cup {t}) \ timedOut, NEW u \in Tasks \ timedOut,
                      pc'[u] \in Reading, Conv[v] = Conv[u], v # u
               PROVE  v \in seen[u]
    BY <1>2 DEF HistoryCurrent, Reading
  <2>1. u # t /\ pc[u] \in Reading
    BY <1>1 DEF Reading
  <2>2. v # t
    BY <1>3, <2>1 DEF TurnInv, WorkingHolds, Holds, Working, Reading
  <2> QED
    BY <2>1, <2>2 DEF TurnInv, HistoryCurrent, Reading
<1>7. NoBlindTurns'
  BY <1>2, <1>3 DEF TurnInv, NoBlindTurns, HistoryCurrent
<1> QED
  BY <1>4, <1>5, <1>6, <1>7 DEF TurnInv

\* Letting a waiter through without the lane only narrows what is claimed.
LEMMA FailOpenTurn ==
    ASSUME Typed, TurnInv, NEW t \in Tasks, FailOpen(t)
    PROVE  TurnInv'
<1>1. UNCHANGED <<pc, holder, replied, seen>> /\ timedOut \subseteq timedOut'
  BY DEF FailOpen, memory
<1> QED
  BY <1>1 DEF TurnInv, WorkingHolds, RepliedIsOver, HistoryCurrent, NoBlindTurns, Holds

\* Steps that change neither a stage nor a holder.
LEMMA StutterTurn ==
    ASSUME TurnInv, UNCHANGED <<pc, holder, timedOut, replied, seen>>
    PROVE  TurnInv'
BY DEF TurnInv, WorkingHolds, RepliedIsOver, HistoryCurrent, NoBlindTurns, Holds

LEMMA RouteTurn ==
    ASSUME Typed, TurnInv, NEW i \in Inbounds, Inject(i) \/ RouteOwnTask(i) \/ Route(i)
    PROVE  TurnInv'
<1>0. i \in Tasks
  BY InboundIsTask
<1>1. CASE Inject(i) \/ RouteDrained(i)
  BY <1>1, StutterTurn DEF Inject, RouteDrained, turns, memory, lane
<1>2. CASE RouteOwnTask(i) \/ RouteReturned(i)
  <2>1. CreateTask(i) /\ pc[i] = "none"
    BY <1>2 DEF RouteOwnTask, RouteReturned
  <2>2. HoldersKeep
    BY <1>0, <2>1, JoinKeeps DEF CreateTask
  <2> QED
    BY <1>0, <2>1, <2>2, StageStep DEF CreateTask, turns, memory, Working, Reading, Over, Stages
<1>3. CASE PublishTask(i)
  <2>1. HoldersKeep
    BY <1>0, <1>3, JoinKeeps DEF PublishTask
  <2> QED
    BY <1>0, <1>3, <2>1, StageStep DEF PublishTask, turns, memory, Working, Reading, Over, Stages
<1>4. CASE PublishTaskFails(i)
  <2>1. pc'[i] = "dropped"
    BY <1>0, <1>4 DEF PublishTaskFails, Typed, TypeOK
  <2>2. HoldersKeep
    BY <1>0, <1>4, <2>1, ReleaseKeeps DEF PublishTaskFails, HoldersKeep, Holds, Working
  <2> QED
    BY <1>0, <1>4, <2>2, StageStep
    DEF PublishTaskFails, turns, memory, Working, Reading, Over, Stages
<1> QED
  BY <1>1, <1>2, <1>3, <1>4 DEF Route

LEMMA PublishTurn ==
    ASSUME Typed, TurnInv,
           \/ \E w \in Wakes : PublishWake(w)
           \/ \E t \in Tasks, r \in Rewrites : PublishRewrite(t, r)
    PROVE  TurnInv'
<1>1. ASSUME NEW w \in Wakes, PublishWake(w) PROVE TurnInv'
  <2>1. w \in Tasks /\ HoldersKeep
    BY <1>1, InboundIsTask, JoinKeeps DEF PublishWake
  <2> QED
    BY <1>1, <2>1, StageStep DEF PublishWake, turns, memory, Working, Reading, Over, Stages
<1>2. ASSUME NEW t \in Tasks, NEW r \in Rewrites, PublishRewrite(t, r) PROVE TurnInv'
  <2>1. r \in Tasks /\ HoldersKeep
    BY <1>2, InboundIsTask, JoinKeeps DEF PublishRewrite
  <2> QED
    BY <1>2, <2>1, StageStep DEF PublishRewrite, memory, Working, Reading, Over, Stages
<1> QED
  BY <1>1, <1>2

LEMMA RunTurn ==
    ASSUME Typed, TurnInv, NEW t \in Tasks, Turn(t)
    PROVE  TurnInv'
<1> USE DEF Working, Reading, Over, Stages
<1>1. CASE Begin(t)
  BY <1>1, BeginTurn
<1>2. CASE PersistReply(t)
  BY <1>2, PersistReplyTurn
<1>3. CASE FlushAudit(t) \/ StoreFollowUp(t)
  BY <1>3, StutterTurn DEF FlushAudit, StoreFollowUp, lane, turns, memory
<1>4. ASSUME UNCHANGED holder PROVE HoldersKeep
  BY <1>4 DEF HoldersKeep, Holds
<1>5. CASE BeginFails(t)
  <2>1. HoldersKeep
    BY <1>4, <1>5 DEF BeginFails, lane
  <2> QED
    BY <1>5, <2>1, StageStep DEF BeginFails, Granted, turns, memory
<1>6. CASE TakeQueued(t) \/ StoreFollowUpFails(t)
  <2>1. HoldersKeep
    BY <1>4, <1>6 DEF TakeQueued, StoreFollowUpFails, lane
  <2> QED
    BY <1>6, <2>1, StageStep DEF TakeQueued, StoreFollowUpFails, memory
<1>7. CASE AuditFollowUp(t) \/ AuditFollowUpFails(t)
  <2>1. HoldersKeep
    BY <1>4, <1>7 DEF AuditFollowUp, AuditFollowUpFails, lane
  <2>2. pc[t] = "draining" /\ UNCHANGED <<timedOut, replied, seen>>
    BY <1>7 DEF AuditFollowUp, AuditFollowUpFails, memory
  <2>3. PICK s \in {"running", "draining"} : pc' = [pc EXCEPT ![t] = s]
    BY <1>7, <2>2 DEF AuditFollowUp, AuditFollowUpFails, NextFollowUp
  <2> QED
    BY <2>1, <2>2, <2>3, StageStep
<1>8. CASE Finish(t) \/ StopEarly(t)
  <2>1. HoldersKeep
    BY <1>4, <1>8 DEF Finish, StopEarly, lane
  <2>2. pc[t] = "running" /\ UNCHANGED <<timedOut, replied, seen>>
    BY <1>8 DEF Finish, StopEarly, turns, memory
  <2>3. PICK s \in {"finishing", "failing"} : pc' = [pc EXCEPT ![t] = s]
    BY <1>8 DEF Finish, StopEarly
  <2> QED
    BY <2>1, <2>2, <2>3, StageStep
<1>9. CASE PersistReplyFails(t) \/ EndTask(t)
  <2>1. HoldersKeep
    BY <1>4, <1>9 DEF PersistReplyFails, EndTask, lane
  <2> QED
    BY <1>9, <2>1, StageStep DEF PersistReplyFails, EndTask, turns, memory
<1>10. CASE Respond(t)
  <2>1. pc'[t] = "responding"
    BY <1>10 DEF Respond, Typed, TypeOK
  <2>2. HoldersKeep
    BY <1>10, <2>1, ReleaseKeeps DEF Respond
  <2> QED
    BY <1>10, <2>2, StageStep DEF Respond, turns, memory
<1>11. CASE Finally(t)
  <2>1. pc'[t] = "flushing"
    BY <1>11 DEF Finally, Typed, TypeOK
  <2>2. HoldersKeep
    <3>1. CASE ~Holds(t)
      BY <1>4, <1>11, <3>1 DEF Finally, lane
    <3>2. CASE Holds(t)
      <4>1. \A d \in Convs \ {Conv[t]} : holder'[d] = holder[d]
        BY <1>11, <3>2, ConvType, GrantElsewhere DEF Finally
      <4> QED
        BY <2>1, <3>2, <4>1, ConvType DEF HoldersKeep, Holds
    <3> QED
      BY <3>1, <3>2
  <2> QED
    BY <1>11, <2>2, StageStep DEF Finally, memory
<1> QED
  BY <1>1, <1>2, <1>3, <1>5, <1>6, <1>7, <1>8, <1>9, <1>10, <1>11 DEF Turn, Drain

LEMMA LaneInvInit == Init => LaneInv
<1> SUFFICES ASSUME Init PROVE LaneInv
  OBVIOUS
<1>1. Typed
  BY TypedInit
<1>2. TurnInv
  BY DEF Init, TurnInv, WorkingHolds, RepliedIsOver, HistoryCurrent, NoBlindTurns, Working
<1> QED
  BY <1>1, <1>2 DEF LaneInv, Typed, TurnInv

LEMMA LaneInvStep == LaneInv /\ [Next]_vars => LaneInv'
<1> SUFFICES ASSUME LaneInv, [Next]_vars PROVE LaneInv'
  OBVIOUS
<1>0. Typed /\ TurnInv
  BY DEF LaneInv, Typed, TurnInv
<1>1. Typed'
  BY <1>0, TypedStep
<1>2. TurnInv'
  <2>1. CASE UNCHANGED vars
    BY <1>0, <2>1, StutterTurn DEF vars, lane, turns, memory
  <2>2. CASE Next
    BY <1>0, <2>2, RouteTurn, PublishTurn, FailOpenTurn, RunTurn DEF Next
  <2> QED
    BY <2>1, <2>2
<1> QED
  BY <1>1, <1>2 DEF LaneInv, Typed, TurnInv

\* The inductive invariant holds throughout.
THEOREM LaneInvariant == Spec => []LaneInv
BY LaneInvInit, LaneInvStep, PTL DEF Spec

\* However many messages, wakes, rewrites and failures there are, two turns work on one
\* conversation at a time only when the wait timeout let one of them through.
THEOREM LaneExclusion == Spec => []OneTurnPerConversation
<1>1. LaneInv => OneTurnPerConversation
  BY DEF LaneInv, WorkingHolds, OneTurnPerConversation, Holds
<1> QED
  BY LaneInvariant, <1>1, PTL

\* Of two turns that answered on one conversation, one had the other's reply in the
\* history it read.
THEOREM NoTurnIsBlind == Spec => []NoBlindTurns
<1>1. LaneInv => NoBlindTurns
  BY DEF LaneInv
<1> QED
  BY LaneInvariant, <1>1, PTL

(***************************************************************************)
(* The lanes implement SerialTurns.                                        *)
(***************************************************************************)
\* A step of one task from stage to stage moves its turn and no other.
LEMMA TurnMapStep ==
    ASSUME Typed, NEW t \in Tasks, NEW s \in Stages, pc' = [pc EXCEPT ![t] = s]
    PROVE  TurnMap' = [TurnMap EXCEPT ![t] = TurnAt(s)] /\ TurnMap[t] = TurnAt(pc[t])
BY DEF TurnMap, Typed, TypeOK

\* A step that changes no turn and none of what the turns share is no step of SerialTurns.
LEMMA SerialStutter ==
    ASSUME TurnMap' = TurnMap, UNCHANGED <<timedOut, replied, seen>>
    PROVE  UNCHANGED Serial!vars
BY DEF Serial!vars

\* A step between two stages that SerialTurns does not tell apart, or that ends a turn.
LEMMA SerialMove ==
    ASSUME Typed, NEW t \in Tasks, NEW s \in Stages, pc' = [pc EXCEPT ![t] = s],
           UNCHANGED <<timedOut, replied, seen>>,
           TurnAt(s) = TurnAt(pc[t]) \/ (pc[t] \in Working /\ TurnAt(s) = "over")
    PROVE  [Serial!Next]_(Serial!vars)
<1>1. TurnMap' = [TurnMap EXCEPT ![t] = TurnAt(s)] /\ TurnMap[t] = TurnAt(pc[t])
  BY TurnMapStep
<1>2. CASE TurnAt(s) = TurnAt(pc[t])
  <2>1. TurnMap' = TurnMap
    BY <1>1, <1>2 DEF TurnMap
  <2> QED
    BY <2>1, SerialStutter
<1>3. CASE pc[t] \in Working /\ TurnAt(s) = "over"
  <2>1. TurnMap[t] = "working" /\ TurnMap' = [TurnMap EXCEPT ![t] = "over"]
    BY <1>1, <1>3 DEF TurnAt
  <2>2. Serial!End(t)
    BY <2>1 DEF Serial!End
  <2> QED
    BY <2>2 DEF Serial!Next
<1> QED
  BY <1>2, <1>3

\* A granted task finds its conversation free: whoever works on it without having been let
\* through holds the same lane.
LEMMA GrantedIsFree ==
    ASSUME Typed, WorkingHolds, NEW t \in Tasks, Granted(t), t \notin timedOut
    PROVE  Serial!Free(Conv[t])
<1> SUFFICES ASSUME NEW u \in Tasks \ timedOut, TurnMap[u] = "working"
             PROVE  Conv[u] # Conv[t]
  BY DEF Serial!Free
<1>1. pc[u] \in Working
  BY DEF TurnMap, TurnAt
<1>2. Holds(u) /\ Holds(t)
  BY <1>1 DEF WorkingHolds, Granted
<1>3. u # t
  BY <1>1 DEF Granted, Working
<1> QED
  BY <1>2, <1>3 DEF Holds

LEMMA SerialBegin ==
    ASSUME Typed, WorkingHolds, NEW t \in Tasks, Begin(t) \/ BeginFails(t)
    PROVE  Serial!Begin(t)
<1>1. Granted(t) /\ UNCHANGED <<timedOut, replied>>
  BY DEF Begin, BeginFails, turns, memory
<1>2. t \in timedOut \/ Serial!Free(Conv[t])
  BY <1>1, GrantedIsFree
<1>3. PICK s \in {"running", "failing"} : pc' = [pc EXCEPT ![t] = s]
  BY DEF Begin, BeginFails
<1>4. TurnMap' = [TurnMap EXCEPT ![t] = "working"] /\ TurnMap[t] = "waiting"
  BY <1>1, <1>3, TurnMapStep DEF Granted, TurnAt, Working, Stages
<1>5. \/ seen' = [seen EXCEPT ![t] = {u \in replied : Conv[u] = Conv[t]}]
      \/ UNCHANGED seen
  BY DEF Begin, BeginFails, memory
<1> QED
  BY <1>1, <1>2, <1>4, <1>5 DEF Serial!Begin

LEMMA SerialReply ==
    ASSUME Typed, RepliedIsOver, NEW t \in Tasks, PersistReply(t)
    PROVE  Serial!Reply(t)
<1>1. pc[t] = "finishing" /\ pc' = [pc EXCEPT ![t] = "replied"]
  BY DEF PersistReply
<1>2. TurnMap' = TurnMap /\ TurnMap[t] = "working"
  <2>1. TurnAt("finishing") = "working" /\ TurnAt("replied") = "working"
    BY DEF TurnAt, Working
  <2>2. \A u \in Tasks : pc'[u] = IF u = t THEN "replied" ELSE pc[u]
    BY <1>1 DEF Typed, TypeOK
  <2> QED
    BY <1>1, <2>1, <2>2 DEF TurnMap
<1>3. t \notin replied
  BY <1>1 DEF RepliedIsOver
<1>4. replied' = replied \cup {t} /\ UNCHANGED <<timedOut, seen>>
  BY DEF PersistReply, turns
<1> QED
  BY <1>2, <1>3, <1>4 DEF Serial!Reply

LEMMA SerialFailOpen ==
    ASSUME Typed, NEW t \in Tasks, FailOpen(t)
    PROVE  [Serial!Next]_(Serial!vars)
<1>1. TurnMap' = TurnMap /\ UNCHANGED <<replied, seen>>
  BY DEF FailOpen, memory, TurnMap
<1>2. CASE pc[t] = "acquiring"
  <2>1. TurnMap[t] = "waiting" /\ timedOut' = timedOut \cup {t}
    BY <1>2 DEF FailOpen, TurnMap, TurnAt, Working
  <2>2. Serial!LetThrough(t)
    BY <1>1, <2>1 DEF Serial!LetThrough
  <2> QED
    BY <2>2 DEF Serial!Next
<1>3. CASE pc[t] # "acquiring"
  BY <1>1, <1>3, SerialStutter DEF FailOpen
<1> QED
  BY <1>2, <1>3

\* The dispatcher and the publishers of synthetic tasks begin and end no turn.
LEMMA SerialRoute ==
    ASSUME Typed,
           \/ \E i \in Inbounds : Inject(i) \/ RouteOwnTask(i) \/ Route(i)
           \/ \E w \in Wakes : PublishWake(w)
           \/ \E t \in Tasks, r \in Rewrites : PublishRewrite(t, r)
    PROVE  [Serial!Next]_(Serial!vars)
<1> USE DEF TurnAt, Working, Stages
<1>1. ASSUME NEW i \in Inbounds, Inject(i) \/ RouteDrained(i) PROVE UNCHANGED Serial!vars
  BY <1>1, SerialStutter DEF Inject, RouteDrained, turns, memory, TurnMap
<1>2. ASSUME NEW i \in Inbounds, RouteOwnTask(i) \/ RouteReturned(i)
      PROVE  [Serial!Next]_(Serial!vars)
  BY <1>2, SerialMove, InboundIsTask DEF RouteOwnTask, RouteReturned, CreateTask, turns, memory
<1>3. ASSUME NEW i \in Inbounds, PublishTask(i) \/ PublishTaskFails(i)
      PROVE  [Serial!Next]_(Serial!vars)
  <2>1. pc[i] = "publishing" /\ UNCHANGED <<timedOut, replied, seen>>
    BY <1>3 DEF PublishTask, PublishTaskFails, turns, memory
  <2>2. PICK s \in {"acquiring", "dropped"} : pc' = [pc EXCEPT ![i] = s]
    BY <1>3 DEF PublishTask, PublishTaskFails
  <2> QED
    BY <2>1, <2>2, SerialMove, InboundIsTask
<1>4. ASSUME NEW w \in Wakes, PublishWake(w) PROVE [Serial!Next]_(Serial!vars)
  BY <1>4, SerialMove, InboundIsTask DEF PublishWake, turns, memory
<1>5. ASSUME NEW t \in Tasks, NEW r \in Rewrites, PublishRewrite(t, r)
      PROVE  [Serial!Next]_(Serial!vars)
  BY <1>5, SerialMove, InboundIsTask DEF PublishRewrite, memory
<1> QED
  BY <1>1, <1>2, <1>3, <1>4, <1>5 DEF Route

LEMMA SerialTurn ==
    ASSUME Typed, WorkingHolds, RepliedIsOver, NEW t \in Tasks, Turn(t)
    PROVE  [Serial!Next]_(Serial!vars)
<1>1. CASE Begin(t) \/ BeginFails(t)
  BY <1>1, SerialBegin DEF Serial!Next
<1>2. CASE PersistReply(t)
  BY <1>2, SerialReply DEF Serial!Next
<1>3. CASE FlushAudit(t) \/ StoreFollowUp(t)
  BY <1>3, SerialStutter DEF FlushAudit, StoreFollowUp, turns, memory, TurnMap
<1>4. CASE \/ TakeQueued(t) \/ StoreFollowUpFails(t) \/ AuditFollowUp(t)
           \/ AuditFollowUpFails(t) \/ Finish(t) \/ StopEarly(t) \/ PersistReplyFails(t)
  <2> USE DEF TakeQueued, StoreFollowUpFails, AuditFollowUp, AuditFollowUpFails,
              NextFollowUp, Finish, StopEarly, PersistReplyFails
  <2>1. pc[t] \in {"running", "draining", "finishing"} /\ UNCHANGED <<timedOut, replied, seen>>
    BY <1>4 DEF turns, memory
  <2>2. PICK s \in {"running", "draining", "finishing", "failing"} : pc' = [pc EXCEPT ![t] = s]
    BY <1>4, <2>1
  <2> QED
    BY <2>1, <2>2, SerialMove DEF TurnAt, Working, Stages
<1>5. CASE Respond(t) \/ Finally(t) \/ EndTask(t)
  <2> USE DEF Respond, Finally, EndTask
  <2>1. /\ pc[t] \in {"failing", "replied", "responding", "flushing"}
        /\ UNCHANGED <<timedOut, replied, seen>>
    BY <1>5 DEF turns, memory
  <2>2. PICK s \in {"responding", "flushing", "done"} : pc' = [pc EXCEPT ![t] = s]
    BY <1>5
  <2> QED
    BY <2>1, <2>2, SerialMove DEF TurnAt, Working, Stages
<1> QED
  BY <1>1, <1>2, <1>3, <1>4, <1>5 DEF Turn, Drain

LEMMA SerialInit == Init => Serial!Init
<1> SUFFICES ASSUME Init PROVE Serial!Init
  OBVIOUS
<1>1. TurnMap = [t \in Tasks |-> "waiting"]
  BY DEF Init, TurnMap, TurnAt, Working
<1> QED
  BY <1>1 DEF Init, Serial!Init

LEMMA SerialStep == LaneInv /\ [Next]_vars => [Serial!Next]_(Serial!vars)
<1> SUFFICES ASSUME LaneInv, [Next]_vars PROVE [Serial!Next]_(Serial!vars)
  OBVIOUS
<1>0. Typed /\ WorkingHolds /\ RepliedIsOver
  BY DEF LaneInv, Typed
<1>1. CASE UNCHANGED vars
  BY <1>1, SerialStutter DEF vars, turns, memory, TurnMap
<1>2. CASE Next
  BY <1>0, <1>2, SerialRoute, SerialFailOpen, SerialTurn DEF Next
<1> QED
  BY <1>1, <1>2

\* The lanes implement SerialTurns: with whatever is injected, handed back, rewritten or
\* failing, the turns of a conversation amount to turns taken one after the other, each on
\* the history the one before it left.
THEOREM LanesSerialise == Spec => TurnsAreSerial
BY SerialInit, SerialStep, LaneInvariant, PTL DEF Spec, TurnsAreSerial, Serial!Spec
==============================================================================
