--------------------------- MODULE ApprovalsProofs ---------------------------
(***************************************************************************)
(* Proofs about Approvals, for every set of rows, turns, reactions and     *)
(* channels and every number of messages and faults: its types, that an    *)
(* approval is sent, replayed and continued at most once, and that a card  *)
(* is approved only by an answer to a delivery.                            *)
(***************************************************************************)
EXTENDS Approvals, SequenceTheorems, TLAPS

LEMMA FaultType ==
    ASSUME faults \in 0 .. MaxFaults, Fault \/ UNCHANGED faults
    PROVE  faults' \in 0 .. MaxFaults
BY ApprovalsAssumption DEF Fault

LEMMA BumpCounts ==
    ASSUME NEW f \in Counts, NEW r \in Rows
    PROVE  /\ Bump(f, r) \in Counts /\ Bump(f, r)[r] = f[r] + 1
           /\ \A q \in Rows \ {r} : Bump(f, r)[q] = f[q]
BY DEF Bump, Counts

\* What a decision, or the sweep, does to a card request: nothing, or it leaves "pending" and the
\* agent is continued at most once.
CardMoves(r, statuses) ==
    \/ UNCHANGED <<card, cont>>
    \/ /\ card[r] = "pending" /\ \E status \in statuses : card' = [card EXCEPT ![r] = status]
       /\ cont' \in {cont, Bump(cont, r)}

Settled == {"approved", "denied", "expired"}

LEMMA DeclineMoves ==
    ASSUME NEW r \in Rows, NEW status \in {"denied", "expired"}, Decline(r, status)
    PROVE  CardMoves(r, {"denied", "expired"}) /\ (Fault \/ UNCHANGED faults)
BY DEF Decline, Continue, CardMoves

LEMMA ConfirmMoves ==
    ASSUME NEW r \in Rows, Confirm(r)
    PROVE  CardMoves(r, {"approved", "expired"}) /\ (Fault \/ UNCHANGED faults)
BY DEF Confirm, Continue, CardMoves

LEMMA MovesType ==
    ASSUME NEW r \in Rows, NEW statuses \in SUBSET Settled, CardMoves(r, statuses),
           card \in [Rows -> Statuses], cont \in Counts
    PROVE  card' \in [Rows -> Statuses] /\ cont' \in Counts
BY BumpCounts DEF CardMoves, Statuses, Settled

(***************************************************************************)
(* Types.                                                                  *)
(***************************************************************************)
LEMMA NoCallType == NoCall \in Calls
BY DEF NoCall, Calls

LEMMA NoDecisionType == NoDecision \in Decisions
BY DEF NoDecision, Decisions, Counts

LEMMA TypeInit == Init => TypeOK
<1> SUFFICES ASSUME Init PROVE TypeOK
  OBVIOUS
<1>1. DlvOK
  BY NoCallType DEF Init, DlvOK, NoCall
<1>2. DecOK
  BY NoDecisionType DEF Init, DecOK, NoDecision
<1>3. messages \in 0 .. MaxMessages /\ faults \in 0 .. MaxFaults
  BY ApprovalsAssumption DEF Init
<1> QED
  BY <1>1, <1>2, <1>3 DEF Init, TypeOK, NoTick, Outcomes, Statuses, Counts

\* A call that goes on with what it has, and one that ends.
LEMMA DlvGoes ==
    ASSUME DlvOK, NEW p \in Deliverers, dlv[p].at # "idle",
           NEW at \in {"asked", "found", "sending", "failed"}, dlv' = [dlv EXCEPT ![p].at = at]
    PROVE  DlvOK'
BY DEF DlvOK, Calls

LEMMA DlvEnds ==
    ASSUME DlvOK, NEW p \in Deliverers, dlv' = [dlv EXCEPT ![p] = NoCall]
    PROVE  DlvOK'
BY NoCallType DEF DlvOK, NoCall

LEMMA DlvBegins ==
    ASSUME DlvOK, NEW p \in Deliverers, NEW r \in Rows, NEW left \in Seq(Kinds), left # <<>>,
           dlv' = [dlv EXCEPT ![p] = [at |-> "asked", row |-> r, left |-> left]]
    PROVE  DlvOK'
BY DEF DlvOK, Calls

LEMMA TailLeft ==
    ASSUME NEW seq \in Seq(Kinds), seq # <<>>, Len(seq) # 1
    PROVE  Tail(seq) \in Seq(Kinds) /\ Tail(seq) # <<>>
<1> DEFINE t == Tail(seq)
<1>1. t \in Seq(Kinds) /\ Len(t) = Len(seq) - 1
  BY HeadTailProperties
<1>2. \A q \in Seq(Kinds) : q = <<>> <=> Len(q) = 0
  BY EmptySeq
<1>3. Len(seq) \in Nat /\ Len(seq) # 0
  BY <1>2, LenProperties
<1> HIDE DEF t
<1>4. Len(t) # 0
  BY <1>1, <1>3
<1>5. t # <<>>
  BY <1>1, <1>2, <1>4
<1> QED
  BY <1>1, <1>5 DEF t

LEMMA DlvNext ==
    ASSUME DlvOK, NEW p \in Deliverers, dlv[p].at # "idle", NextChannel(p)
    PROVE  DlvOK'
<1>1. CASE Len(dlv[p].left) = 1
  <2>1. dlv' = [dlv EXCEPT ![p] = NoCall]
    BY <1>1 DEF NextChannel
  <2> QED
    BY <2>1, DlvEnds
<1>2. CASE Len(dlv[p].left) # 1
  <2> DEFINE left == Tail(dlv[p].left)
  <2>1. dlv[p] \in Calls /\ dlv[p].row \in Rows /\ dlv[p].left # <<>>
    BY DEF DlvOK
  <2>2. dlv[p].left \in Seq(Kinds)
    BY <2>1 DEF Calls
  <2>3. left \in Seq(Kinds) /\ left # <<>>
    BY <1>2, <2>1, <2>2, TailLeft
  <2>4. dlv' = [dlv EXCEPT ![p] = [at |-> "asked", row |-> dlv[p].row, left |-> left]]
    BY <1>2 DEF NextChannel, DlvOK
  <2> QED
    BY <2>1, <2>3, <2>4, DlvBegins
<1> QED
  BY <1>1, <1>2

LEMMA DecEnds ==
    ASSUME DecOK, NEW d \in Deciders, Decides(d, NoDecision)
    PROVE  DecOK'
BY NoDecisionType DEF DecOK, Decides, NoDecision

LEMMA FilingType ==
    ASSUME TypeOK, Filing
    PROVE  TypeOK'
<1> USE DEF TypeOK, table, truth, done
<1>1. ASSUME NEW r \in Rows, NEW d \in Turns \cup {None}, File(r, d) PROVE TypeOK'
  BY <1>1 DEF File, InsertPending, Outcomes, DlvOK, DecOK
<1>2. ASSUME NEW r \in Rows, NEW d \in Turns \cup {None}, OpenCard(r, d) PROVE TypeOK'
  BY <1>2 DEF OpenCard, Statuses, DlvOK, DecOK
<1>3. ASSUME NEW r \in Rows, FileCard(r) PROVE TypeOK'
  BY <1>3 DEF FileCard, InsertPending, Outcomes, DlvOK, DecOK
<1>4. ASSUME NEW r \in Rows, LinkCard(r) PROVE TypeOK'
  BY <1>4 DEF LinkCard, DlvOK, DecOK
<1>5. ASSUME NEW r \in Rows, NEW l \in BOOLEAN, LinkFails(r, l) PROVE TypeOK'
  <2>1. faults' \in 0 .. MaxFaults
    BY <1>5, FaultType DEF LinkFails
  <2>2. card' \in [Rows -> Statuses] /\ ref' \in SUBSET Rows
    BY <1>5 DEF LinkFails, Statuses
  <2> QED
    BY <1>5, <2>1, <2>2 DEF LinkFails, DlvOK, DecOK
<1>6. ASSUME NEW r \in Rows, Age(r) PROVE TypeOK'
  BY <1>6 DEF Age, cards, DlvOK, DecOK
<1> QED
  BY <1>1, <1>2, <1>3, <1>4, <1>5, <1>6 DEF Filing

LEMMA DeliveryType ==
    ASSUME TypeOK, Delivery
    PROVE  TypeOK'
<1> USE DEF TypeOK
<1>0. ASSUME NEW p \in Deliverers, dlv[p].at # "idle"
      PROVE  dlv[p].row \in Rows
  BY <1>0 DEF DlvOK
<1>1. ASSUME NEW r \in Rows, NEW i \in DOMAIN Channels, AgentDelivers(r, i) PROVE TypeOK'
  <2>1. <<Channels[i]>> \in Seq(Kinds) /\ <<Channels[i]>> # <<>>
    BY ApprovalsAssumption
  <2>2. DlvOK'
    BY <1>1, <2>1, DlvBegins DEF AgentDelivers, Deliverers
  <2> QED
    BY <1>1, <2>2 DEF AgentDelivers, table, cards, truth, done, DecOK
<1>2. ASSUME NEW r \in Rows, Reconnect(r) PROVE TypeOK'
  BY <1>2 DEF Reconnect, cards, done, DlvOK, DecOK
<1>3. ASSUME NEW p \in Deliverers, Look(p) PROVE TypeOK'
  <2>1. DlvOK'
    <3>1. dlv' = [dlv EXCEPT ![p].at = "found"] \/ dlv' = [dlv EXCEPT ![p] = NoCall]
      BY <1>3 DEF Look, DlvOK
    <3> QED
      BY <1>3, <3>1, DlvGoes, DlvEnds DEF Look
  <2> QED
    BY <1>3, <2>1 DEF Look, table, cards, truth, done, DecOK
<1>4. ASSUME NEW p \in Deliverers, Claim(p) PROVE TypeOK'
  <2>1. DlvOK'
    BY <1>4, DlvGoes, DlvEnds DEF Claim
  <2>2. claims' \in Counts /\ sentAt' \in Counts
    <3>1. dlv[p].row \in Rows
      BY <1>0, <1>4 DEF Claim
    <3>2. CASE UNCHANGED <<sentAt, claims>>
      BY <3>2
    <3>3. CASE claims' = Bump(claims, dlv[p].row)
               /\ sentAt' = [sentAt EXCEPT ![dlv[p].row] = claims'[dlv[p].row]]
      <4>1. claims \in Counts /\ sentAt \in Counts
        OBVIOUS
      <4> HIDE DEF TypeOK
      <4>2. claims' \in Counts
        BY <3>1, <3>3, <4>1, BumpCounts
      <4> QED
        BY <3>1, <3>3, <4>1, <4>2 DEF Counts
    <3> QED
      BY <1>4, <3>2, <3>3 DEF Claim
  <2> QED
    BY <1>4, <2>1, <2>2 DEF Claim, cards, truth, done, DecOK
<1>5. ASSUME NEW p \in Deliverers, Send(p) PROVE TypeOK'
  <2>1. DlvOK' /\ pings' \in Counts
    BY <1>0, <1>5, DlvEnds, BumpCounts DEF Send
  <2> QED
    BY <1>0, <1>5, <2>1 DEF Send, cards, done, DecOK
<1>6. ASSUME NEW p \in Deliverers, SendQueued(p) PROVE TypeOK'
  <2>1. DlvOK' /\ dlv[p].row \in Rows
    BY <1>0, <1>6, DlvEnds DEF SendQueued
  <2>2. /\ Bump(pings, dlv[p].row) \in Counts /\ Bump(ghosts, dlv[p].row) \in Counts
        /\ Bump(Bump(pings, dlv[p].row), dlv[p].row) \in Counts
    BY <2>1, BumpCounts
  <2>3. pings' \in Counts /\ ghosts' \in Counts /\ shown' \in SUBSET Rows
    BY <1>6, <2>1, <2>2 DEF SendQueued, Ghost
  <2>4. faults' \in 0 .. MaxFaults
    BY <1>6, FaultType DEF SendQueued
  <2> QED
    BY <1>6, <2>1, <2>3, <2>4 DEF SendQueued, table, cards, done, DecOK
<1>7. ASSUME NEW p \in Deliverers, SendFails(p) PROVE TypeOK'
  <2>1. DlvOK' /\ faults' \in 0 .. MaxFaults
    BY <1>7, DlvGoes, FaultType DEF SendFails
  <2>2. pings' \in Counts /\ ghosts' \in Counts /\ shown' \in SUBSET Rows
    BY <1>0, <1>7, BumpCounts DEF SendFails, Ghost
  <2> QED
    BY <1>7, <2>1, <2>2 DEF SendFails, table, cards, done, DecOK
<1>8. ASSUME NEW p \in Deliverers, Release(p) PROVE TypeOK'
  <2>1. DlvOK' /\ sentAt' \in Counts
    BY <1>8, DlvNext DEF Release, Counts
  <2> QED
    BY <1>8, <2>1 DEF Release, cards, truth, done, DecOK
<1>9. ASSUME NEW p \in Deliverers, ReleaseFails(p) PROVE TypeOK'
  <2>1. DlvOK'
    BY <1>9, DlvNext DEF ReleaseFails
  <2> QED
    BY <1>0, <1>9, <2>1 DEF ReleaseFails, table, cards, done, DecOK
<1> QED
  BY <1>1, <1>2, <1>3, <1>4, <1>5, <1>6, <1>7, <1>8, <1>9 DEF Delivery

LEMMA SweepType ==
    ASSUME TypeOK, Sweep
    PROVE  TypeOK'
<1> USE DEF TypeOK
<1>1. CASE TickStarts \/ NetDone \/ FindExpired \/ TickEnds
  <2>1. swp' \in [at : {"idle", "net", "reconcile", "expire", "settle"}, rows : SUBSET Rows]
    BY <1>1 DEF TickStarts, NetDone, FindExpired, TickEnds, NoTick, Stranded
  <2>2. UNCHANGED SweepVars
    BY <1>1 DEF TickStarts, NetDone, FindExpired, TickEnds
  <2> QED
    BY <2>1, <2>2 DEF SweepVars, table, cards, truth, done, DlvOK, DecOK
<1>2. CASE ExpireRows
  <2>1. outcome' \in [Rows -> Outcomes]
    BY <1>2 DEF ExpireRows, Outcomes
  <2>2. swp' \in [at : {"idle", "net", "reconcile", "expire", "settle"}, rows : SUBSET Rows]
    BY <1>2 DEF ExpireRows
  <2> QED
    BY <1>2, <2>1, <2>2 DEF ExpireRows, cards, truth, done, DlvOK, DecOK
<1>3. ASSUME NEW r \in Rows, NetPicks(r) PROVE TypeOK'
  <2>1. DlvOK'
    BY <1>3, DlvBegins, ApprovalsAssumption DEF NetPicks, Deliverers
  <2>2. swp' \in [at : {"idle", "net", "reconcile", "expire", "settle"}, rows : SUBSET Rows]
    BY <1>3 DEF NetPicks
  <2> QED
    BY <1>3, <2>1, <2>2 DEF NetPicks, table, cards, truth, done, DecOK
<1>4. ASSUME NEW r \in Rows, SweepSettles(r) PROVE TypeOK'
  <2>1. swp' \in [at : {"idle", "net", "reconcile", "expire", "settle"}, rows : SUBSET Rows]
    BY <1>4 DEF SweepSettles
  <2>2. CardMoves(r, {"denied", "expired"}) /\ (Fault \/ UNCHANGED faults)
    BY <1>4, DeclineMoves DEF SweepSettles, CardMoves
  <2>3. card' \in [Rows -> Statuses] /\ cont' \in Counts /\ faults' \in 0 .. MaxFaults
    BY <2>2, MovesType, FaultType DEF Settled
  <2> QED
    BY <1>4, <2>1, <2>3 DEF SweepSettles, table, truth, DlvOK, DecOK
<1> QED
  BY <1>1, <1>2, <1>3, <1>4 DEF Sweep

LEMMA DecidingType ==
    ASSUME TypeOK, Deciding
    PROVE  TypeOK'
<1> USE DEF TypeOK
<1>0. ASSUME NEW d \in Deciders, dec[d].at \notin {"idle", "asked"}
      PROVE  dec[d].row \in Rows
  BY <1>0 DEF DecOK
<1>1. ASSUME NEW d \in Turns, NEW want \in Wants, Receive(d, want) PROVE TypeOK'
  <2>2. DecOK'
    BY <1>1, ApprovalsAssumption DEF Receive, Decides, DecOK, Decisions, Deciders
  <2>3. messages' \in 0 .. MaxMessages
    BY <1>1, ApprovalsAssumption DEF Receive
  <2> QED
    BY <1>1, <2>2, <2>3 DEF Receive, table, truth, done, DlvOK
<1>2. ASSUME NEW d \in Reactions, NEW want \in Wants, NEW r \in Rows, React(d, r, want)
      PROVE  TypeOK'
  <2>2. DecOK'
    BY <1>2, ApprovalsAssumption DEF React, Decides, DecOK, Decisions, Deciders
  <2>3. messages' \in 0 .. MaxMessages
    BY <1>2, ApprovalsAssumption DEF React
  <2> QED
    BY <1>2, <2>2, <2>3 DEF React, table, cards, truth, done, DlvOK
<1>3. ASSUME NEW d \in Deciders, Read(d) PROVE TypeOK'
  <2>1. PICK r \in Rows :
            Decides(d, [at |-> "read", want |-> dec[d].want, row |-> r, seen |-> dec[d].seen])
    BY <1>3 DEF Read
  <2>2. DecOK'
    BY <2>1 DEF Decides, DecOK, Decisions
  <2> QED
    BY <1>3, <2>2 DEF Read, DecVars, table, cards, truth, done, DlvOK
<1>4. ASSUME NEW d \in Deciders, Refuse(d) PROVE TypeOK'
  BY <1>4, DecEnds DEF Refuse, DecVars, table, cards, truth, done, DlvOK
<1>5. ASSUME NEW d \in Deciders, RejectStale(d) PROVE TypeOK'
  <2>1. DecOK' /\ outcome' \in [Rows -> Outcomes]
    BY <1>5, DecEnds DEF RejectStale, Outcomes
  <2> QED
    BY <1>5, <2>1 DEF RejectStale, cards, truth, done, DlvOK
<1>6. ASSUME NEW d \in Deciders, ResolveRow(d) PROVE TypeOK'
  <2>1. outcome' \in [Rows -> Outcomes]
    BY <1>6 DEF ResolveRow, DecOK, Decisions, Outcomes
  <2>2. DecOK'
    <3>1. CASE Decides(d, NoDecision)
      BY <3>1, DecEnds
    <3>2. CASE Decides(d, [dec[d] EXCEPT !.at = IF dec[d].want = "approved" THEN "won"
                                                ELSE "failed"])
      BY <1>0, <1>6, <3>2 DEF ResolveRow, Decides, DecOK, Decisions
    <3> QED
      BY <1>6, <3>1, <3>2 DEF ResolveRow
  <2> QED
    BY <1>6, <2>1, <2>2 DEF ResolveRow, cards, truth, done, DlvOK
<1>7. ASSUME NEW d \in Deciders, Replay(d) PROVE TypeOK'
  <2>1. dec[d].row \in Rows
    BY <1>0, <1>7 DEF Replay
  <2>2. CardMoves(dec[d].row, {"approved", "expired"}) /\ (Fault \/ UNCHANGED faults)
    BY <1>7, <2>1, ConfirmMoves DEF Replay, CardMoves
  <2>3. card' \in [Rows -> Statuses] /\ cont' \in Counts /\ faults' \in 0 .. MaxFaults
    BY <2>1, <2>2, MovesType, FaultType DEF Settled
  <2>4. runs' \in Counts /\ DecOK'
    BY <1>7, <2>1, BumpCounts, DecEnds DEF Replay
  <2> QED
    BY <1>7, <2>3, <2>4 DEF Replay, table, truth, DlvOK
<1>8. ASSUME NEW d \in Deciders, ReplayFails(d) PROVE TypeOK'
  <2>1. dec[d].row \in Rows
    BY <1>0, <1>8 DEF ReplayFails
  <2>2. CardMoves(dec[d].row, {"approved"}) /\ Fault
    BY <1>8 DEF ReplayFails, CardMoves
  <2>3. card' \in [Rows -> Statuses] /\ cont' \in Counts /\ faults' \in 0 .. MaxFaults
    BY <2>1, <2>2, MovesType, FaultType DEF Settled
  <2>4. runs' \in Counts
    BY <1>8, <2>1, BumpCounts DEF ReplayFails
  <2>5. DecOK'
    BY <1>8, <2>1 DEF ReplayFails, Decides, DecOK, Decisions
  <2> QED
    BY <1>8, <2>3, <2>4, <2>5 DEF ReplayFails, table, truth, DlvOK
<1>9. ASSUME NEW d \in Deciders, Settle(d) PROVE TypeOK'
  <2>1. dec[d].row \in Rows
    BY <1>0, <1>9 DEF Settle
  <2>2. CardMoves(dec[d].row, {"denied", "expired"}) /\ (Fault \/ UNCHANGED faults)
    BY <1>9, <2>1, DeclineMoves DEF Settle, CardMoves
  <2>3. card' \in [Rows -> Statuses] /\ cont' \in Counts /\ faults' \in 0 .. MaxFaults
    BY <2>1, <2>2, MovesType, FaultType DEF Settled
  <2>4. DecOK'
    BY <1>9, DecEnds DEF Settle
  <2> QED
    BY <1>9, <2>3, <2>4 DEF Settle, table, truth, DlvOK
<1> QED
  BY <1>1, <1>2, <1>3, <1>4, <1>5, <1>6, <1>7, <1>8, <1>9 DEF Deciding

LEMMA CrashType ==
    ASSUME TypeOK, Crash
    PROVE  TypeOK'
<1> USE DEF TypeOK
<1>1. DlvOK' /\ DecOK'
  BY NoCallType, NoDecisionType DEF Crash, DlvOK, DecOK, NoCall, NoDecision
<1>2. lost' \in SUBSET Rows
  BY DEF Crash, DlvOK
<1>3. faults' \in 0 .. MaxFaults
  BY FaultType DEF Crash
<1> QED
  BY <1>1, <1>2, <1>3 DEF Crash, NoTick, table, done

LEMMA TypeStep == TypeOK /\ [Next]_vars => TypeOK'
<1> SUFFICES ASSUME TypeOK, [Next]_vars PROVE TypeOK'
  OBVIOUS
<1>1. CASE UNCHANGED vars
  BY <1>1 DEF vars, table, cards, truth, done, TypeOK, DlvOK, DecOK
<1>2. CASE Next
  BY <1>2, FilingType, DeliveryType, SweepType, DecidingType, CrashType DEF Next
<1> QED
  BY <1>1, <1>2

\* Every variable keeps its type: a call of deliver and a decision always have the row they need.
THEOREM ApprovalTyping == Spec => []TypeOK
BY TypeInit, TypeStep, PTL DEF Spec

(***************************************************************************)
(* One replay: an approved row stays approved, and one decider holds it.   *)
(***************************************************************************)
Won(d) ==
    dec[d].at = "won" => /\ dec[d].want = "approved" /\ outcome[dec[d].row] = "approved"
                         /\ runs[dec[d].row] = 0

RunInv ==
    /\ RunOnce
    /\ \A r \in Rows : filing[r] = "created" => outcome[r] = None /\ card[r] # None
    /\ \A d \in Deciders : Won(d)
    /\ \A d, e \in Deciders :
           dec[d].at = "won" /\ dec[e].at = "won" /\ dec[d].row = dec[e].row => d = e

\* A step that runs nothing, approves no row or card, and opens no request.
LEMMA RunKeeps ==
    ASSUME TypeOK, RunInv, UNCHANGED runs,
           \A r \in Rows : outcome[r] = "approved" => outcome'[r] = "approved",
           \A r \in Rows : card'[r] = "approved" => card[r] = "approved",
           \A r \in Rows : filing'[r] = "created" =>
               filing[r] = "created" /\ outcome'[r] = outcome[r] /\ card'[r] # None,
           \A d \in Deciders : dec'[d].at = "won" => dec'[d] = dec[d]
    PROVE  RunInv'
<1>1. RunOnce'
  BY DEF RunInv, RunOnce
<1>2. \A d \in Deciders : Won(d)'
  BY DEF TypeOK, DecOK, RunInv, Won
<1> QED
  BY <1>1, <1>2 DEF RunInv

LEMMA RunFiling ==
    ASSUME TypeOK, RunInv, Filing
    PROVE  RunInv'
<1>0. /\ outcome \in [Rows -> Outcomes] /\ card \in [Rows -> Statuses]
      /\ filing \in [Rows -> {"no", "created", "filed"}]
  BY DEF TypeOK
<1>1. ASSUME NEW r \in Rows, NEW d \in Turns \cup {None}, File(r, d) PROVE RunInv'
  <2>1. UNCHANGED <<card, filing, runs, dec>> /\ outcome[r] = None /\ card[r] = None
        /\ outcome' = [outcome EXCEPT ![r] = "pending"]
    BY <1>1 DEF File, InsertPending, IsCard, done
  <2>2. filing[r] # "created"
    BY <2>1 DEF RunInv
  <2> QED
    BY <1>0, <2>1, <2>2, RunKeeps, ApprovalsAssumption DEF RunInv
<1>2. ASSUME NEW r \in Rows, NEW d \in Turns \cup {None}, OpenCard(r, d) PROVE RunInv'
  <2>1. /\ UNCHANGED <<outcome, runs, dec>> /\ outcome[r] = None
        /\ card' = [card EXCEPT ![r] = "pending"] /\ filing' = [filing EXCEPT ![r] = "created"]
    BY <1>2 DEF OpenCard, table, done
  <2>2. card'[r] # None /\ \A q \in Rows : card'[q] = "approved" => card[q] = "approved"
    BY <1>0, <2>1, ApprovalsAssumption
  <2>3. RunOnce'
    BY <2>1, <2>2 DEF RunInv, RunOnce
  <2>4. \A q \in Rows : filing'[q] = "created" => outcome'[q] = None /\ card'[q] # None
    BY <1>0, <2>1, <2>2 DEF RunInv
  <2> QED
    BY <2>1, <2>3, <2>4 DEF RunInv, Won
<1>3. ASSUME NEW r \in Rows, FileCard(r) PROVE RunInv'
  <2>1. /\ UNCHANGED <<card, runs, dec>> /\ filing[r] = "created"
        /\ outcome' = [outcome EXCEPT ![r] = "pending"]
        /\ filing' = [filing EXCEPT ![r] = "filed"]
    BY <1>3 DEF FileCard, InsertPending, done
  <2>2. outcome[r] = None
    BY <2>1 DEF RunInv
  <2> QED
    BY <1>0, <2>1, <2>2, RunKeeps, ApprovalsAssumption DEF RunInv
<1>4. ASSUME NEW r \in Rows, NEW l \in BOOLEAN, LinkCard(r) \/ LinkFails(r, l) PROVE RunInv'
  <2>1. /\ UNCHANGED <<outcome, runs, dec>> /\ filing' = [filing EXCEPT ![r] = "no"]
        /\ UNCHANGED card \/ card' = [card EXCEPT ![r] = "expired"]
    BY <1>0, <1>4 DEF LinkCard, LinkFails, table, done
  <2> QED
    BY <1>0, <2>1, RunKeeps, ApprovalsAssumption DEF RunInv
<1>5. ASSUME NEW r \in Rows, Age(r) PROVE RunInv'
  BY <1>5, RunKeeps DEF Age, cards, done, RunInv
<1> QED
  BY <1>1, <1>2, <1>3, <1>4, <1>5 DEF Filing

\* The row d holds is run: no other decider holds it, and its outcome is final.
LEMMA RunReplays ==
    ASSUME TypeOK, RunInv, NEW d \in Deciders, dec[d].at = "won", UNCHANGED <<outcome, filing>>,
           runs' = Bump(runs, dec[d].row), dec'[d].at # "won",
           \A e \in Deciders \ {d} : dec'[e] = dec[e],
           CardMoves(dec[d].row, {"approved", "expired"})
    PROVE  RunInv'
<1> DEFINE r == dec[d].row
<1>0. /\ outcome \in [Rows -> Outcomes] /\ card \in [Rows -> Statuses]
      /\ r \in Rows /\ runs \in Counts
  BY DEF TypeOK, DecOK
<1>1. outcome[r] = "approved" /\ runs[r] = 0
  BY DEF RunInv, Won
<1>2. runs'[r] = 1 /\ \A q \in Rows \ {r} : runs'[q] = runs[q]
  BY <1>0, <1>1, BumpCounts DEF Counts
<1>3. /\ \A q \in Rows \ {r} : card'[q] = card[q]
      /\ card'[r] = None => card[r] = None
  BY <1>0, ApprovalsAssumption DEF CardMoves
<1>4. RunOnce'
  BY <1>1, <1>2, <1>3 DEF RunInv, RunOnce
<1>5. \A q \in Rows : filing'[q] = "created" => outcome'[q] = None /\ card'[q] # None
  BY <1>3 DEF RunInv
<1>6. \A e \in Deciders \ {d} : dec[e].at = "won" => dec[e].row \in Rows \ {r}
  BY DEF TypeOK, DecOK, RunInv
<1>7. \A e \in Deciders : Won(e)'
  BY <1>2, <1>6 DEF RunInv, Won
<1> QED
  BY <1>4, <1>5, <1>7 DEF RunInv

LEMMA RunDeciding ==
    ASSUME TypeOK, RunInv, Deciding
    PROVE  RunInv'
<1>0. /\ outcome \in [Rows -> Outcomes] /\ card \in [Rows -> Statuses]
      /\ dec \in [Deciders -> Decisions]
      /\ \A d \in Deciders : dec[d].at \notin {"idle", "asked"} => dec[d].row \in Rows
  BY DEF TypeOK, DecOK
<1>1. ASSUME NEW d \in Deciders, NEW want \in Wants, NEW r \in Rows, React(d, r, want)
      PROVE  RunInv'
  <2>1. UNCHANGED <<outcome, card, filing, runs>>
    BY <1>1 DEF React, table, cards, done
  <2>2. \A e \in Deciders : dec'[e].at = "won" => dec'[e] = dec[e]
    BY <1>0, <1>1 DEF React, Decides
  <2> QED
    BY <2>1, <2>2, RunKeeps DEF RunInv
<1>2. ASSUME NEW d \in Deciders, RejectStale(d) PROVE RunInv'
  <2>1. /\ UNCHANGED <<card, filing, runs>> /\ dec[d].row \in Rows
        /\ dec' = [dec EXCEPT ![d] = NoDecision]
        /\ \/ UNCHANGED outcome
           \/ /\ outcome[dec[d].row] = "pending"
              /\ outcome' = [outcome EXCEPT ![dec[d].row] = "rejected"]
    BY <1>0, <1>2 DEF RejectStale, Decides, cards, done
  <2>2. \A e \in Deciders : dec'[e].at = "won" => dec'[e] = dec[e]
    BY <1>0, <2>1 DEF NoDecision
  <2> QED
    BY <1>0, <2>1, <2>2, RunKeeps, ApprovalsAssumption DEF RunInv
<1>3. ASSUME NEW d \in Deciders, ResolveRow(d) PROVE RunInv'
  <2> DEFINE r == dec[d].row
  <2>0. UNCHANGED <<card, filing, runs>> /\ r \in Rows /\ dec[d] \in Decisions
    BY <1>0, <1>3 DEF ResolveRow, cards, done
  <2>1. CASE ~Pending(r)
    <3>1. UNCHANGED outcome /\ dec' = [dec EXCEPT ![d] = NoDecision]
      BY <1>3, <2>1 DEF ResolveRow, Resolvable, Decides
    <3>2. \A e \in Deciders : dec'[e].at = "won" => dec'[e] = dec[e]
      BY <1>0, <3>1 DEF NoDecision
    <3> QED
      BY <2>0, <3>1, <3>2, RunKeeps DEF RunInv
  <2>2. CASE Pending(r)
    <3>1. /\ outcome[r] = "pending" /\ outcome' = [outcome EXCEPT ![r] = dec[d].want]
          /\ dec' = [dec EXCEPT ![d] = [dec[d] EXCEPT !.at =
                         IF dec[d].want = "approved" THEN "won" ELSE "failed"]]
      BY <1>3, <2>2 DEF ResolveRow, Resolvable, Decides, Pending
    <3>2. /\ filing[r] # "created" /\ runs[r] = 0
          /\ \A e \in Deciders : dec[e].at = "won" => dec[e].row # r
      <4>1. filing[r] # "created"
        BY <2>0, <3>1, ApprovalsAssumption DEF RunInv
      <4>2. runs[r] \in Nat /\ runs[r] <= 1 /\ runs[r] # 1
        BY <2>0, <3>1 DEF TypeOK, Counts, RunInv, RunOnce
      <4>3. \A e \in Deciders : dec[e].at = "won" => dec[e].row # r
        BY <3>1 DEF RunInv, Won
      <4> QED
        BY <4>1, <4>2, <4>3
    <3>3. /\ dec'[d].row = r /\ dec'[d].want = dec[d].want
          /\ dec'[d].at = IF dec[d].want = "approved" THEN "won" ELSE "failed"
          /\ \A e \in Deciders \ {d} : dec'[e] = dec[e]
      BY <1>0, <2>0, <3>1 DEF Decisions
    <3>4. outcome'[r] = dec[d].want /\ \A q \in Rows \ {r} : outcome'[q] = outcome[q]
      BY <1>0, <2>0, <3>1
    <3>5. RunOnce'
      BY <2>0, <3>2, <3>4 DEF RunInv, RunOnce
    <3>6. \A q \in Rows : filing'[q] = "created" => outcome'[q] = None /\ card'[q] # None
      BY <2>0, <3>2, <3>4 DEF RunInv
    <3>7. \A e \in Deciders : Won(e)'
      <4>1. Won(d)'
        BY <2>0, <3>2, <3>3, <3>4 DEF Won
      <4>2. ASSUME NEW e \in Deciders \ {d} PROVE Won(e)'
        BY <1>0, <2>0, <3>2, <3>3, <3>4 DEF RunInv, Won
      <4> QED
        BY <4>1, <4>2
    <3>8. \A e, f \in Deciders :
              dec'[e].at = "won" /\ dec'[f].at = "won" /\ dec'[e].row = dec'[f].row => e = f
      BY <3>2, <3>3 DEF RunInv
    <3> QED
      BY <3>5, <3>6, <3>7, <3>8 DEF RunInv
  <2> QED
    BY <2>1, <2>2
<1>4. ASSUME NEW d \in Deciders, Replay(d) \/ ReplayFails(d) PROVE RunInv'
  <2>1. /\ dec[d].at = "won" /\ dec[d].row \in Rows /\ UNCHANGED <<outcome, filing>>
        /\ runs' = Bump(runs, dec[d].row)
    BY <1>0, <1>4 DEF Replay, ReplayFails, table
  <2>2. CardMoves(dec[d].row, {"approved", "expired"})
    BY <1>4, <2>1, ConfirmMoves DEF Replay, ReplayFails, CardMoves
  <2>3. dec'[d].at # "won" /\ \A e \in Deciders \ {d} : dec'[e] = dec[e]
    BY <1>0, <1>4 DEF Replay, ReplayFails, Decides, NoDecision, Decisions
  <2> QED
    BY <2>1, <2>2, <2>3, RunReplays
<1>5. ASSUME NEW d \in Deciders, Settle(d) PROVE RunInv'
  <2>1. dec[d].row \in Rows /\ UNCHANGED <<outcome, filing, runs>>
    BY <1>0, <1>5 DEF Settle, table
  <2>2. CardMoves(dec[d].row, {"denied", "expired"})
    BY <1>5, <2>1, DeclineMoves DEF Settle, CardMoves
  <2>3. /\ \A q \in Rows : card'[q] = "approved" => card[q] = "approved"
        /\ \A q \in Rows : card'[q] = None => card[q] = None
    BY <1>0, <2>1, <2>2, ApprovalsAssumption DEF CardMoves
  <2>4. \A e \in Deciders : dec'[e].at = "won" => dec'[e] = dec[e]
    BY <1>0, <1>5 DEF Settle, Decides, NoDecision
  <2> QED
    BY <2>1, <2>3, <2>4, RunKeeps DEF RunInv
<1>6. ASSUME NEW want \in Wants, NEW d \in Turns, Receive(d, want) PROVE RunInv'
  <2>1. UNCHANGED <<outcome, card, filing, runs>>
    BY <1>6 DEF Receive, table, done
  <2>2. \A e \in Deciders : dec'[e].at = "won" => dec'[e] = dec[e]
    BY <1>0, <1>6 DEF Receive, Decides, Deciders
  <2> QED
    BY <2>1, <2>2, RunKeeps DEF RunInv
<1>7. ASSUME NEW d \in Deciders, Read(d) \/ Refuse(d) PROVE RunInv'
  <2>1. UNCHANGED <<outcome, card, filing, runs>>
    BY <1>7 DEF Read, Refuse, DecVars, table, cards, done
  <2>2. \A e \in Deciders : dec'[e].at = "won" => dec'[e] = dec[e]
    <3>1. dec'[d].at # "won" /\ \A e \in Deciders \ {d} : dec'[e] = dec[e]
      <4>1. CASE Read(d)
        BY <1>0, <4>1 DEF Read, Decides
      <4>2. CASE Refuse(d)
        BY <1>0, <4>2 DEF Refuse, Decides, NoDecision
      <4> QED
        BY <1>7, <4>1, <4>2
    <3> QED
      BY <3>1
  <2> QED
    BY <2>1, <2>2, RunKeeps DEF RunInv
<1> QED
  BY <1>1, <1>2, <1>3, <1>4, <1>5, <1>6, <1>7 DEF Deciding, Deciders

LEMMA RunElsewhere ==
    ASSUME TypeOK, RunInv, Delivery \/ Sweep \/ Crash
    PROVE  RunInv'
<1>0. outcome \in [Rows -> Outcomes] /\ card \in [Rows -> Statuses]
  BY DEF TypeOK
<1>1. CASE Delivery
  <2>1. UNCHANGED <<outcome, card, filing, runs, dec>>
    BY <1>1 DEF Delivery, AgentDelivers, Reconnect, Look, Claim, Send, SendQueued, SendFails,
                Release, ReleaseFails, table, cards, done
  <2> QED
    BY <2>1, RunKeeps DEF RunInv
<1>2. CASE TickStarts \/ NetDone \/ FindExpired \/ TickEnds \/ \E r \in Rows : NetPicks(r)
  <2>1. UNCHANGED <<outcome, card, filing, runs, dec>>
    BY <1>2 DEF TickStarts, NetDone, FindExpired, TickEnds, NetPicks, SweepVars, table, cards, done
  <2> QED
    BY <2>1, RunKeeps DEF RunInv
<1>3. CASE ExpireRows
  <2>1. /\ UNCHANGED <<card, filing, runs, dec>>
        /\ \A r \in Rows : outcome'[r] = outcome[r] \/ outcome[r] = "pending"
    BY <1>3 DEF ExpireRows, Pending, cards, done
  <2> QED
    BY <1>0, <2>1, RunKeeps, ApprovalsAssumption DEF RunInv
<1>4. ASSUME NEW r \in Rows, SweepSettles(r) PROVE RunInv'
  <2>1. UNCHANGED <<outcome, filing, runs, dec>>
    BY <1>4 DEF SweepSettles, table
  <2>2. CardMoves(r, {"denied", "expired"})
    BY <1>4, DeclineMoves DEF SweepSettles, CardMoves
  <2>3. /\ \A q \in Rows : card'[q] = "approved" => card[q] = "approved"
        /\ \A q \in Rows : card'[q] = None => card[q] = None
    BY <1>0, <2>2, ApprovalsAssumption DEF CardMoves
  <2> QED
    BY <2>1, <2>3, RunKeeps DEF RunInv
<1>5. CASE Crash
  <2>1. /\ UNCHANGED <<outcome, card, runs>> /\ \A r \in Rows : filing'[r] = "no"
        /\ \A d \in Deciders : dec'[d].at = "idle"
    BY <1>5 DEF Crash, NoDecision, table, done
  <2> QED
    BY <2>1, RunKeeps DEF RunInv
<1> QED
  BY <1>1, <1>2, <1>3, <1>4, <1>5 DEF Sweep

LEMMA RunStep == TypeOK /\ RunInv /\ [Next]_vars => RunInv'
<1> SUFFICES ASSUME TypeOK, RunInv, [Next]_vars PROVE RunInv'
  OBVIOUS
<1>1. CASE UNCHANGED vars
  BY <1>1, RunKeeps DEF vars, table, cards, done, RunInv
<1>2. CASE Next
  BY <1>2, RunFiling, RunDeciding, RunElsewhere DEF Next
<1> QED
  BY <1>1, <1>2

(***************************************************************************)
(* One message: the claim is held by one caller, until it is undone.       *)
(***************************************************************************)
Holder(p) == dlv[p].at \in {"sending", "failed"}

PingInv ==
    /\ OnePing
    /\ \A r \in Rows : sentAt[r] = 0 => pings[r] = ghosts[r]
    /\ \A p \in Deliverers : Holder(p) => sentAt[dlv[p].row] # 0 /\ pings[dlv[p].row] = ghosts[dlv[p].row]
    /\ \A p, q \in Deliverers : Holder(p) /\ Holder(q) /\ dlv[p].row = dlv[q].row => p = q

LEMMA PingKeeps ==
    ASSUME PingInv, UNCHANGED <<sentAt, pings, ghosts>>,
           \A p \in Deliverers : Holder(p)' => Holder(p) /\ dlv'[p].row = dlv[p].row
    PROVE  PingInv'
BY DEF PingInv, OnePing

\* The holder of a claim sends, and has no claim any more.
LEMMA PingSends ==
    ASSUME TypeOK, PingInv, NEW p \in Deliverers, Holder(p), UNCHANGED sentAt,
           \/ pings' = Bump(pings, dlv[p].row) /\ UNCHANGED ghosts
           \/ pings' = Bump(Bump(pings, dlv[p].row), dlv[p].row) /\ ghosts' = Bump(ghosts, dlv[p].row),
           dlv' = [dlv EXCEPT ![p] = NoCall]
    PROVE  PingInv'
<1> DEFINE r == dlv[p].row
<1>1. /\ r \in Rows /\ pings \in Counts /\ ghosts \in Counts
      /\ sentAt[r] # 0 /\ pings[r] = ghosts[r]
  BY DEF TypeOK, DlvOK, PingInv, Holder
<1>2. /\ pings'[r] <= 1 + ghosts'[r]
      /\ \A q \in Rows \ {r} : pings'[q] = pings[q] /\ ghosts'[q] = ghosts[q]
  BY <1>1, BumpCounts DEF Counts
<1>3. ~Holder(p)' /\ \A q \in Deliverers \ {p} : dlv'[q] = dlv[q]
  BY DEF TypeOK, DlvOK, Holder, NoCall
<1>4. \A q \in Deliverers \ {p} : Holder(q) => dlv[q].row \in Rows \ {r}
  BY DEF TypeOK, DlvOK, PingInv, Holder
<1>5. OnePing'
  BY <1>2 DEF PingInv, OnePing
<1>6. \A q \in Rows : sentAt'[q] = 0 => pings'[q] = ghosts'[q]
  BY <1>1, <1>2 DEF PingInv
<1>7. \A q \in Deliverers : Holder(q)' => q # p /\ Holder(q) /\ dlv'[q] = dlv[q]
  BY <1>3 DEF Holder
<1> QED
  BY <1>2, <1>4, <1>5, <1>6, <1>7 DEF PingInv

LEMMA PingDelivery ==
    ASSUME TypeOK, PingInv, Delivery
    PROVE  PingInv'
<1>0. /\ dlv \in [Deliverers -> Calls] /\ sentAt \in Counts /\ claims \in Counts
      /\ \A p \in Deliverers : dlv[p].at # "idle" => dlv[p].row \in Rows
  BY DEF TypeOK, DlvOK
<1>1. ASSUME NEW r \in Rows, NEW i \in DOMAIN Channels, AgentDelivers(r, i) PROVE PingInv'
  <2>1. UNCHANGED <<sentAt, pings, ghosts>>
    BY <1>1 DEF AgentDelivers, table, truth
  <2>2. \A p \in Deliverers : Holder(p)' => Holder(p) /\ dlv'[p].row = dlv[p].row
    BY <1>0, <1>1 DEF AgentDelivers, Holder, Deliverers
  <2> QED
    BY <2>1, <2>2, PingKeeps
<1>2. ASSUME NEW r \in Rows, Reconnect(r) PROVE PingInv'
  BY <1>2, PingKeeps DEF Reconnect, Holder
<1>3. ASSUME NEW p \in Deliverers, Look(p) PROVE PingInv'
  <2>1. UNCHANGED <<sentAt, pings, ghosts>>
    BY <1>3 DEF Look, table, truth
  <2>2. dlv' = [dlv EXCEPT ![p].at = "found"] \/ dlv' = [dlv EXCEPT ![p] = NoCall]
    BY <1>0, <1>3 DEF Look
  <2>3. \A q \in Deliverers : Holder(q)' => Holder(q) /\ dlv'[q].row = dlv[q].row
    <3>1. CASE dlv' = [dlv EXCEPT ![p].at = "found"]
      BY <1>0, <3>1 DEF Holder, Calls
    <3>2. CASE dlv' = [dlv EXCEPT ![p] = NoCall]
      BY <1>0, <3>2 DEF Holder, NoCall
    <3> QED
      BY <2>2, <3>1, <3>2
  <2> QED
    BY <2>1, <2>3, PingKeeps
<1>4. ASSUME NEW p \in Deliverers, Claim(p) PROVE PingInv'
  <2> DEFINE r == dlv[p].row
  <2>0. r \in Rows /\ UNCHANGED <<pings, ghosts>>
    BY <1>0, <1>4 DEF Claim, truth
  <2>1. CASE ~CanClaim(r)
    <3>1. UNCHANGED sentAt /\ dlv' = [dlv EXCEPT ![p] = NoCall]
      BY <1>4, <2>1 DEF Claim
    <3>2. \A q \in Deliverers : Holder(q)' => Holder(q) /\ dlv'[q].row = dlv[q].row
      BY <1>0, <3>1 DEF Holder, NoCall
    <3> QED
      BY <2>0, <3>1, <3>2, PingKeeps
  <2>2. CASE CanClaim(r)
    <3>1. /\ sentAt[r] = 0 /\ claims' = Bump(claims, r)
          /\ sentAt' = [sentAt EXCEPT ![r] = claims'[r]]
          /\ dlv' = [dlv EXCEPT ![p].at = "sending"]
      BY <1>4, <2>2 DEF Claim, CanClaim
    <3>2. sentAt'[r] # 0 /\ \A q \in Rows \ {r} : sentAt'[q] = sentAt[q]
      BY <1>0, <2>0, <3>1, BumpCounts DEF Counts
    <3>3. /\ dlv'[p].row = r /\ \A q \in Deliverers \ {p} : dlv'[q] = dlv[q]
      BY <1>0, <3>1 DEF Calls
    <3>4. pings[r] = ghosts[r] /\ \A q \in Deliverers : Holder(q) => dlv[q].row \in Rows \ {r}
      BY <1>0, <2>0, <3>1 DEF PingInv, Holder
    <3>5. OnePing' /\ \A q \in Rows : sentAt'[q] = 0 => pings'[q] = ghosts'[q]
      BY <2>0, <3>2, <3>4 DEF PingInv, OnePing
    <3>6. \A q \in Deliverers : Holder(q)' => q = p \/ (Holder(q) /\ dlv'[q] = dlv[q])
      BY <3>3 DEF Holder
    <3> QED
      BY <2>0, <3>2, <3>3, <3>4, <3>5, <3>6 DEF PingInv
  <2> QED
    BY <2>1, <2>2
<1>5. ASSUME NEW p \in Deliverers, Send(p) PROVE PingInv'
  BY <1>5, PingSends DEF Send, Holder
<1>6. ASSUME NEW p \in Deliverers, SendQueued(p) PROVE PingInv'
  <2>1. \/ pings' = Bump(pings, dlv[p].row) /\ UNCHANGED ghosts
        \/ pings' = Bump(Bump(pings, dlv[p].row), dlv[p].row) /\ ghosts' = Bump(ghosts, dlv[p].row)
    BY <1>6 DEF SendQueued, Ghost
  <2>2. Holder(p) /\ UNCHANGED sentAt /\ dlv' = [dlv EXCEPT ![p] = NoCall]
    BY <1>6 DEF SendQueued, Holder, table
  <2> QED
    BY <2>1, <2>2, PingSends
<1>7. ASSUME NEW p \in Deliverers, SendFails(p) PROVE PingInv'
  <2>1. \A q \in Deliverers : Holder(q)' => Holder(q) /\ dlv'[q].row = dlv[q].row
    BY <1>0, <1>7 DEF SendFails, Holder, Calls
  <2>2. CASE UNCHANGED <<pings, ghosts>>
    BY <1>7, <2>1, <2>2, PingKeeps DEF SendFails, table
  <2>3. CASE pings' = Bump(pings, dlv[p].row) /\ ghosts' = Bump(ghosts, dlv[p].row)
    <3>1. dlv[p].row \in Rows /\ pings \in Counts /\ ghosts \in Counts /\ UNCHANGED sentAt
      BY <1>0, <1>7 DEF SendFails, table, TypeOK
    <3>2. \A q \in Rows : \/ pings'[q] = pings[q] /\ ghosts'[q] = ghosts[q]
                          \/ pings'[q] = pings[q] + 1 /\ ghosts'[q] = ghosts[q] + 1
      BY <2>3, <3>1, BumpCounts
    <3>3. OnePing'
      BY <3>1, <3>2 DEF PingInv, OnePing, Counts
    <3>4. \A q \in Rows : pings[q] = ghosts[q] => pings'[q] = ghosts'[q]
      BY <3>2
    <3>5. \A q \in Deliverers : Holder(q) => dlv[q].row \in Rows
      BY <1>0 DEF Holder
    <3> QED
      BY <2>1, <3>1, <3>3, <3>4, <3>5 DEF PingInv
  <2> QED
    BY <1>7, <2>2, <2>3 DEF SendFails, Ghost
<1>8. ASSUME NEW p \in Deliverers, dlv[p].at = "failed", NextChannel(p)
      PROVE  ~Holder(p)' /\ \A q \in Deliverers \ {p} : dlv'[q] = dlv[q]
  BY <1>0, <1>8 DEF NextChannel, Holder, NoCall
<1>9. ASSUME NEW p \in Deliverers, Release(p) PROVE PingInv'
  <2> DEFINE r == dlv[p].row
  <2>1. /\ dlv[p].at = "failed" /\ NextChannel(p) /\ r \in Rows /\ UNCHANGED <<pings, ghosts>>
        /\ sentAt' = [sentAt EXCEPT ![r] = 0]
    BY <1>0, <1>9 DEF Release, truth
  <2>2. ~Holder(p)' /\ \A q \in Deliverers \ {p} : dlv'[q] = dlv[q]
    BY <1>8, <2>1
  <2>3. pings[r] = ghosts[r] /\ \A q \in Deliverers \ {p} : Holder(q) => dlv[q].row \in Rows \ {r}
    BY <1>0, <2>1 DEF PingInv, Holder
  <2>4. \A q \in Rows \ {r} : sentAt'[q] = sentAt[q]
    BY <1>0, <2>1 DEF Counts
  <2>5. OnePing' /\ \A q \in Rows : sentAt'[q] = 0 => pings'[q] = ghosts'[q]
    BY <2>1, <2>3, <2>4 DEF PingInv, OnePing
  <2>6. \A q \in Deliverers : Holder(q)' => q # p /\ Holder(q) /\ dlv'[q] = dlv[q]
    BY <2>2 DEF Holder
  <2> QED
    BY <2>1, <2>3, <2>4, <2>5, <2>6 DEF PingInv
<1>10. ASSUME NEW p \in Deliverers, ReleaseFails(p) PROVE PingInv'
  <2>1. UNCHANGED <<sentAt, pings, ghosts>> /\ ~Holder(p)' /\ \A q \in Deliverers \ {p} : dlv'[q] = dlv[q]
    BY <1>8, <1>10 DEF ReleaseFails, table
  <2>2. \A q \in Deliverers : Holder(q)' => Holder(q) /\ dlv'[q].row = dlv[q].row
    BY <2>1 DEF Holder
  <2> QED
    BY <2>1, <2>2, PingKeeps
<1> QED
  BY <1>1, <1>2, <1>3, <1>4, <1>5, <1>6, <1>7, <1>9, <1>10 DEF Delivery

LEMMA PingStep == TypeOK /\ PingInv /\ [Next]_vars => PingInv'
<1> SUFFICES ASSUME TypeOK, PingInv, [Next]_vars PROVE PingInv'
  OBVIOUS
<1>1. CASE UNCHANGED <<sentAt, pings, ghosts, dlv>>
  BY <1>1, PingKeeps DEF Holder
<1>2. CASE Filing
  BY <1>1, <1>2 DEF Filing, File, OpenCard, FileCard, LinkCard, LinkFails, Age, table, truth
<1>3. CASE TickStarts \/ NetDone \/ FindExpired \/ ExpireRows \/ TickEnds
           \/ \E r \in Rows : SweepSettles(r)
  BY <1>1, <1>3 DEF TickStarts, NetDone, FindExpired, ExpireRows, TickEnds, SweepSettles, SweepVars,
                    table, truth
<1>4. ASSUME NEW r \in Rows, NetPicks(r) PROVE PingInv'
  <2>1. UNCHANGED <<sentAt, pings, ghosts>>
    BY <1>4 DEF NetPicks, table, truth
  <2>2. \A p \in Deliverers : Holder(p)' => Holder(p) /\ dlv'[p].row = dlv[p].row
    BY <1>4 DEF NetPicks, Holder, TypeOK, DlvOK, Deliverers
  <2> QED
    BY <2>1, <2>2, PingKeeps
<1>5. CASE Deciding
  BY <1>1, <1>5 DEF Deciding, Receive, React, Read, Refuse, RejectStale, ResolveRow, Replay,
                    ReplayFails, Settle, DecVars, table, truth
<1>6. CASE Crash
  BY <1>6, PingKeeps DEF Crash, Holder, NoCall, table
<1>7. CASE UNCHANGED vars
  BY <1>1, <1>7 DEF vars, table, truth
<1> QED
  BY <1>2, <1>3, <1>4, <1>5, <1>6, <1>7, PingDelivery DEF Next, Sweep

(***************************************************************************)
(* One continuation: a request that was continued is not pending again.    *)
(***************************************************************************)
ContInv == \A r \in Rows : cont[r] <= 1 /\ (card[r] \in {None, "pending"} => cont[r] = 0)

LEMMA ContKeeps ==
    ASSUME ContInv, UNCHANGED cont,
           \A r \in Rows : card'[r] \in {None, "pending"} => card[r] \in {None, "pending"}
    PROVE  ContInv'
BY DEF ContInv

LEMMA ContMoves ==
    ASSUME TypeOK, ContInv, NEW r \in Rows, NEW statuses \in SUBSET Settled, CardMoves(r, statuses)
    PROVE  ContInv'
<1>0. card \in [Rows -> Statuses] /\ cont \in Counts
  BY DEF TypeOK
<1>1. CASE UNCHANGED <<card, cont>>
  BY <1>1 DEF ContInv
<1>2. CASE /\ card[r] = "pending" /\ cont' \in {cont, Bump(cont, r)}
           /\ \E status \in statuses : card' = [card EXCEPT ![r] = status]
  <2>1. cont[r] = 0
    BY <1>2 DEF ContInv
  <2>2. cont'[r] <= 1 /\ \A q \in Rows \ {r} : cont'[q] = cont[q]
    BY <1>0, <1>2, <2>1, BumpCounts
  <2>3. card'[r] \notin {None, "pending"} /\ \A q \in Rows \ {r} : card'[q] = card[q]
    BY <1>0, <1>2, ApprovalsAssumption DEF Settled
  <2> QED
    BY <2>2, <2>3 DEF ContInv
<1> QED
  BY <1>1, <1>2 DEF CardMoves

LEMMA ContStep == TypeOK /\ ContInv /\ [Next]_vars => ContInv'
<1> SUFFICES ASSUME TypeOK, ContInv, [Next]_vars PROVE ContInv'
  OBVIOUS
<1>0. card \in [Rows -> Statuses]
      /\ \A d \in Deciders : dec[d].at \notin {"idle", "asked"} => dec[d].row \in Rows
  BY DEF TypeOK, DecOK
<1>1. CASE UNCHANGED <<card, cont>>
  BY <1>1, ContKeeps
<1>2. CASE Filing
  <2>1. CASE \E r \in Rows, d \in Turns \cup {None} : OpenCard(r, d)
    BY <1>0, <2>1, ContKeeps DEF OpenCard, IsCard, done
  <2>2. CASE \E r \in Rows, l \in BOOLEAN : LinkFails(r, l)
    BY <1>0, <2>2, ContKeeps DEF LinkFails, done
  <2>3. CASE \E r \in Rows : \/ FileCard(r) \/ LinkCard(r) \/ Age(r)
                             \/ \E d \in Turns \cup {None} : File(r, d)
    BY <1>1, <2>3 DEF File, FileCard, LinkCard, Age, cards, done
  <2> QED
    BY <1>2, <2>1, <2>2, <2>3 DEF Filing
<1>3. CASE Delivery
  BY <1>1, <1>3 DEF Delivery, AgentDelivers, Reconnect, Look, Claim, Send, SendQueued, SendFails,
                    Release, ReleaseFails, cards, done
<1>4. CASE TickStarts \/ NetDone \/ FindExpired \/ ExpireRows \/ TickEnds
           \/ \E r \in Rows : NetPicks(r)
  BY <1>1, <1>4 DEF TickStarts, NetDone, FindExpired, ExpireRows, TickEnds, NetPicks, SweepVars,
                    cards, done
<1>5. ASSUME NEW r \in Rows, SweepSettles(r) PROVE ContInv'
  <2>1. CardMoves(r, {"denied", "expired"})
    BY <1>5, DeclineMoves DEF SweepSettles, CardMoves
  <2> QED
    BY <2>1, ContMoves DEF Settled
<1>6. ASSUME NEW d \in Deciders, Replay(d) \/ ReplayFails(d) \/ Settle(d) PROVE ContInv'
  <2>1. dec[d].row \in Rows
    BY <1>0, <1>6 DEF Replay, ReplayFails, Settle
  <2>2. CASE Replay(d) \/ ReplayFails(d)
    <3>1. CardMoves(dec[d].row, {"approved", "expired"})
      BY <2>1, <2>2, ConfirmMoves DEF Replay, ReplayFails, CardMoves
    <3> QED
      BY <2>1, <3>1, ContMoves DEF Settled
  <2>3. CASE Settle(d)
    <3>1. CardMoves(dec[d].row, {"denied", "expired"})
      BY <2>1, <2>3, DeclineMoves DEF Settle, CardMoves
    <3> QED
      BY <2>1, <3>1, ContMoves DEF Settled
  <2> QED
    BY <1>6, <2>2, <2>3
<1>7. ASSUME NEW d \in Deciders, Read(d) \/ Refuse(d) \/ RejectStale(d) \/ ResolveRow(d)
      PROVE  ContInv'
  BY <1>1, <1>7 DEF Read, Refuse, RejectStale, ResolveRow, DecVars, cards, done
<1>8. CASE \/ \E d \in Turns, want \in Wants : Receive(d, want)
           \/ \E d \in Reactions, want \in Wants, r \in Rows : React(d, r, want)
  BY <1>1, <1>8 DEF Receive, React, cards, done
<1>9. CASE Crash \/ UNCHANGED vars
  BY <1>1, <1>9 DEF Crash, vars, cards, done
<1> QED
  BY <1>2, <1>3, <1>4, <1>5, <1>6, <1>7, <1>8, <1>9 DEF Next, Sweep, Deciding

LEMMA OnceInit == Init => RunInv /\ PingInv /\ ContInv
<1> SUFFICES ASSUME Init PROVE RunInv /\ PingInv /\ ContInv
  OBVIOUS
<1>1. RunInv
  BY ApprovalsAssumption DEF Init, RunInv, RunOnce, Won, NoDecision
<1>2. PingInv
  BY DEF Init, PingInv, OnePing, Holder, NoCall
<1>3. ContInv
  <2>1. ASSUME NEW r \in Rows PROVE cont[r] <= 1 /\ cont[r] = 0
    <3>1. cont[r] = 0
      BY DEF Init
    <3>2. 0 <= 1
      OBVIOUS
    <3> QED
      BY <3>1, <3>2
  <2> QED
    BY <2>1 DEF ContInv
<1> QED
  BY <1>1, <1>2, <1>3

\* Whoever races for an approval - turns, reactions, the sweep, two deliveries, a restart - it is
\* sent to the principal at most once, and once more for each send that failed, or was queued,
\* after the provider had accepted it; it is replayed at most once and only if it was approved,
\* and the waiting checkout is continued at most once.
THEOREM OnlyOnce == Spec => []AtMostOnce
<1>1. RunInv /\ PingInv /\ ContInv => AtMostOnce
  BY DEF RunInv, PingInv, ContInv, AtMostOnce, OneContinuation
<1> QED
  BY ApprovalTyping, OnceInit, RunStep, PingStep, ContStep, <1>1, PTL DEF Spec

(***************************************************************************)
(* A card is approved by an answer.                                        *)
(***************************************************************************)
Answering(d) ==
    dec[d].at \in {"read", "won"} =>
        /\ outcome[dec[d].row] # None
        /\ dec[d].want = "approved" /\ IsCard(dec[d].row) => dec[d].seen[dec[d].row] > 0
        /\ dec[d].at = "won" => dec[d].want = "approved"

AnswerInv ==
    /\ \A r \in Rows : sentAt[r] # 0 => claims[r] > 0
    /\ \A r \in shown \cup queued \cup bound : claims[r] > 0
    /\ \A d \in Deciders : Answering(d)

\* A step of the deciders, or of nobody: what was delivered stays delivered.
LEMMA AnswerKeeps ==
    ASSUME TypeOK, AnswerInv, UNCHANGED <<sentAt, claims, shown, queued, bound>>,
           \A d \in Deciders : Answering(d)'
    PROVE  AnswerInv'
BY DEF AnswerInv

\* No decision moves, no row is unfiled, and no filed row becomes a card request.
LEMMA AnsweringKeeps ==
    ASSUME TypeOK, AnswerInv, NEW d \in Deciders, dec'[d] = dec[d],
           \A r \in Rows : outcome[r] # None => outcome'[r] # None /\ (card[r] = None => card'[r] = None)
    PROVE  Answering(d)'
BY DEF TypeOK, DecOK, AnswerInv, Answering, IsCard

LEMMA AnswerFiling ==
    ASSUME TypeOK, AnswerInv, Filing
    PROVE  AnswerInv'
<1>0. outcome \in [Rows -> Outcomes] /\ card \in [Rows -> Statuses]
  BY DEF TypeOK
<1>1. UNCHANGED <<sentAt, claims, shown, queued, bound, dec>>
  BY DEF Filing, File, OpenCard, FileCard, LinkCard, LinkFails, Age, table, truth
<1>2. \A r \in Rows : outcome[r] # None =>
          outcome'[r] # None /\ (card[r] = None => card'[r] = None)
  <2>1. CASE \E r \in Rows, d \in Turns \cup {None} : File(r, d)
    BY <1>0, <2>1, ApprovalsAssumption DEF File, InsertPending
  <2>2. CASE \E r \in Rows, d \in Turns \cup {None} : OpenCard(r, d)
    BY <1>0, <2>2 DEF OpenCard, table
  <2>3. CASE \E r \in Rows : FileCard(r)
    BY <1>0, <2>3, ApprovalsAssumption DEF FileCard, InsertPending
  <2>4. CASE \E r \in Rows : \/ LinkCard(r) \/ Age(r) \/ \E l \in BOOLEAN : LinkFails(r, l)
    BY <1>0, <2>4, ApprovalsAssumption DEF LinkCard, LinkFails, Age, table, cards
  <2> QED
    BY <2>1, <2>2, <2>3, <2>4 DEF Filing
<1>3. \A d \in Deciders : Answering(d)'
  BY <1>1, <1>2, AnsweringKeeps
<1> QED
  BY <1>1, <1>3, AnswerKeeps

\* Whatever reaches the principal was claimed first.
LEMMA AnswerDelivery ==
    ASSUME TypeOK, PingInv, AnswerInv, Delivery
    PROVE  AnswerInv'
<1>0. /\ sentAt \in Counts /\ claims \in Counts
      /\ \A p \in Deliverers : dlv[p].at # "idle" => dlv[p].row \in Rows
  BY DEF TypeOK, DlvOK
<1>1. UNCHANGED <<outcome, card, dec>>
  BY DEF Delivery, AgentDelivers, Reconnect, Look, Claim, Send, SendQueued, SendFails, Release,
         ReleaseFails, table, cards
<1>2. \A d \in Deciders : Answering(d)'
  BY <1>1 DEF AnswerInv, Answering, IsCard
<1>3. ASSUME NEW p \in Deliverers, Claim(p) PROVE AnswerInv'
  <2> DEFINE r == dlv[p].row
  <2>0. r \in Rows /\ UNCHANGED <<shown, queued, bound>>
    BY <1>0, <1>3 DEF Claim, truth
  <2>1. CASE UNCHANGED <<sentAt, claims>>
    BY <1>2, <2>0, <2>1 DEF AnswerInv
  <2>2. CASE claims' = Bump(claims, r) /\ sentAt' = [sentAt EXCEPT ![r] = claims'[r]]
    <3>1. claims'[r] > 0 /\ \A q \in Rows \ {r} : claims'[q] = claims[q] /\ sentAt'[q] = sentAt[q]
      BY <1>0, <2>0, <2>2, BumpCounts DEF Counts
    <3> QED
      BY <1>2, <2>0, <3>1 DEF TypeOK, AnswerInv
  <2> QED
    BY <1>3, <2>1, <2>2 DEF Claim
<1>4. ASSUME NEW p \in Deliverers, Send(p) \/ SendQueued(p) \/ SendFails(p) PROVE AnswerInv'
  <2> DEFINE r == dlv[p].row
  <2>1. r \in Rows /\ dlv[p].at = "sending" /\ UNCHANGED <<sentAt, claims>>
    BY <1>0, <1>4 DEF Send, SendQueued, SendFails, table
  <2>2. claims[r] > 0
    BY <2>1 DEF PingInv, Holder, AnswerInv
  <2>3. (shown' \cup queued' \cup bound') \subseteq (shown \cup queued \cup bound) \cup {r}
    BY <1>4 DEF Send, SendQueued, SendFails, Ghost, table
  <2> QED
    BY <1>2, <2>1, <2>2, <2>3 DEF AnswerInv
<1>5. ASSUME NEW r \in Rows, Reconnect(r) PROVE AnswerInv'
  <2>1. UNCHANGED <<sentAt, claims>>
        /\ (shown' \cup queued' \cup bound') \subseteq (shown \cup queued \cup bound)
    BY <1>5 DEF Reconnect
  <2> QED
    BY <1>2, <2>1 DEF AnswerInv
<1>6. ASSUME NEW p \in Deliverers, Release(p) PROVE AnswerInv'
  <2>1. UNCHANGED <<claims, shown, queued, bound>>
        /\ \A q \in Rows : sentAt'[q] # 0 => sentAt[q] # 0
    BY <1>0, <1>6 DEF Release, truth, Counts
  <2> QED
    BY <1>2, <2>1 DEF AnswerInv
<1>7. CASE \/ \E r \in Rows, i \in DOMAIN Channels : AgentDelivers(r, i)
           \/ \E p \in Deliverers : Look(p) \/ ReleaseFails(p)
  <2>1. UNCHANGED <<sentAt, claims, shown, queued, bound>>
    BY <1>7 DEF AgentDelivers, Look, ReleaseFails, table, truth
  <2> QED
    BY <1>2, <2>1, AnswerKeeps
<1> QED
  BY <1>3, <1>4, <1>5, <1>6, <1>7 DEF Delivery

LEMMA AnswerSweep ==
    ASSUME TypeOK, AnswerInv, Sweep
    PROVE  AnswerInv'
<1>0. outcome \in [Rows -> Outcomes] /\ card \in [Rows -> Statuses]
  BY DEF TypeOK
<1>1. UNCHANGED <<sentAt, claims, shown, queued, bound, dec>>
  BY DEF Sweep, TickStarts, NetDone, FindExpired, ExpireRows, TickEnds, NetPicks, SweepSettles,
         SweepVars, table, truth
<1>2. \A r \in Rows : outcome[r] # None =>
          outcome'[r] # None /\ (card[r] = None => card'[r] = None)
  <2>1. CASE TickStarts \/ NetDone \/ FindExpired \/ TickEnds \/ \E r \in Rows : NetPicks(r)
    BY <2>1 DEF TickStarts, NetDone, FindExpired, TickEnds, NetPicks, SweepVars, table, cards
  <2>2. CASE ExpireRows
    BY <2>2, ApprovalsAssumption DEF ExpireRows, cards
  <2>3. ASSUME NEW r \in Rows, SweepSettles(r)
        PROVE  UNCHANGED outcome /\ \A q \in Rows : card[q] = None => card'[q] = None
    <3>1. CardMoves(r, {"denied", "expired"})
      BY <2>3, DeclineMoves DEF SweepSettles, CardMoves
    <3> QED
      BY <1>0, <2>3, <3>1, ApprovalsAssumption DEF SweepSettles, CardMoves, table
  <2> QED
    BY <2>1, <2>2, <2>3 DEF Sweep
<1>3. \A d \in Deciders : Answering(d)'
  BY <1>1, <1>2, AnsweringKeeps
<1> QED
  BY <1>1, <1>3, AnswerKeeps

LEMMA AnswerDeciding ==
    ASSUME TypeOK, AnswerInv, Deciding
    PROVE  AnswerInv'
<1>0. /\ outcome \in [Rows -> Outcomes] /\ card \in [Rows -> Statuses]
      /\ dec \in [Deciders -> Decisions] /\ sentAt \in Counts /\ claims \in Counts
      /\ \A d \in Deciders : dec[d].at \notin {"idle", "asked"} => dec[d].row \in Rows
  BY DEF TypeOK, DecOK
<1>1. UNCHANGED <<sentAt, claims, shown, queued, bound>>
  BY DEF Deciding, Receive, React, Read, Refuse, RejectStale, ResolveRow, Replay, ReplayFails,
         Settle, DecVars, table, truth
\* It is enough that the decider that moves answers a filed row.
<1>2. ASSUME NEW d \in Deciders, Answering(d)',
             \A e \in Deciders \ {d} : dec'[e] = dec[e],
             \A r \in Rows : outcome[r] # None =>
                 outcome'[r] # None /\ (card[r] = None => card'[r] = None)
      PROVE  AnswerInv'
  BY <1>1, <1>2, AnsweringKeeps, AnswerKeeps
<1>3. ASSUME NEW d \in Turns, NEW want \in Wants, Receive(d, want) PROVE AnswerInv'
  <2>1. /\ d \in Deciders /\ UNCHANGED <<outcome, card>> /\ Answering(d)'
        /\ \A e \in Deciders \ {d} : dec'[e] = dec[e]
    BY <1>0, <1>3 DEF Receive, Decides, Deciders, Answering, table
  <2> QED
    BY <1>2, <2>1
<1>4. ASSUME NEW d \in Reactions, NEW want \in Wants, NEW r \in Rows, React(d, r, want)
      PROVE  AnswerInv'
  <2>1. claims[r] > 0 /\ outcome[r] # None
    BY <1>4, ApprovalsAssumption DEF React, AnswerInv, Live, Pending
  <2>2. /\ d \in Deciders /\ UNCHANGED <<outcome, card>>
        /\ \A e \in Deciders \ {d} : dec'[e] = dec[e]
        /\ dec'[d] = [at |-> "read", want |-> want, row |-> r, seen |-> claims]
    BY <1>0, <1>4 DEF React, Decides, Deciders, table, cards
  <2>3. Answering(d)'
    BY <2>1, <2>2 DEF Answering
  <2> QED
    BY <1>2, <2>2, <2>3
<1>5. ASSUME NEW d \in Deciders, Read(d) PROVE AnswerInv'
  <2>1. PICK r \in Rows :
            /\ Answers(d, r)
            /\ Decides(d, [at |-> "read", want |-> dec[d].want, row |-> r, seen |-> dec[d].seen])
    BY <1>5 DEF Read
  <2>2. /\ UNCHANGED <<outcome, card>> /\ \A e \in Deciders \ {d} : dec'[e] = dec[e]
        /\ dec'[d] = [at |-> "read", want |-> dec[d].want, row |-> r, seen |-> dec[d].seen]
    BY <1>0, <1>5, <2>1 DEF Read, Decides, DecVars, table, cards
  <2>3. dec[d].seen[r] \in Nat /\ sentAt[r] \in Nat
    BY <1>0 DEF Decisions, Counts
  <2>4. outcome[r] # None /\ (dec[d].want = "approved" /\ IsCard(r) => dec[d].seen[r] > 0)
    BY <2>1, <2>3, ApprovalsAssumption DEF Answers, CardAnswerable, Live, Pending
  <2>5. Answering(d)'
    BY <2>2, <2>4 DEF Answering, IsCard
  <2> QED
    BY <1>2, <2>2, <2>5
<1>6. ASSUME NEW d \in Deciders, Refuse(d) PROVE AnswerInv'
  <2>1. /\ UNCHANGED <<outcome, card>> /\ Answering(d)'
        /\ \A e \in Deciders \ {d} : dec'[e] = dec[e]
    BY <1>0, <1>6 DEF Refuse, Decides, NoDecision, Answering, DecVars, table, cards
  <2> QED
    BY <1>2, <2>1
<1>7. ASSUME NEW d \in Deciders, RejectStale(d) PROVE AnswerInv'
  <2>1. /\ UNCHANGED card /\ Answering(d)' /\ \A e \in Deciders \ {d} : dec'[e] = dec[e]
    BY <1>0, <1>7 DEF RejectStale, Decides, NoDecision, Answering, cards
  <2>2. \A r \in Rows : outcome[r] # None => outcome'[r] # None
    BY <1>0, <1>7, ApprovalsAssumption DEF RejectStale
  <2> QED
    BY <1>2, <2>1, <2>2
<1>8. ASSUME NEW d \in Deciders, ResolveRow(d) PROVE AnswerInv'
  <2> DEFINE r == dec[d].row
  <2>1. /\ UNCHANGED card /\ r \in Rows /\ dec[d] \in Decisions /\ dec[d].at = "read"
    BY <1>0, <1>8 DEF ResolveRow, cards
  <2>2. dec[d].want # None
    BY <2>1, ApprovalsAssumption DEF Decisions
  <2>3. \A q \in Rows : outcome[q] # None => outcome'[q] # None
    BY <1>0, <1>8, <2>2 DEF ResolveRow
  <2>4. \A e \in Deciders \ {d} : dec'[e] = dec[e]
    BY <1>0, <1>8 DEF ResolveRow, Decides
  <2>5. \/ dec'[d].at \notin {"read", "won"}
        \/ /\ dec'[d].row = r /\ dec'[d].want = "approved" /\ dec[d].want = "approved"
           /\ dec'[d].seen = dec[d].seen
    <3>1. CASE dec' = [dec EXCEPT ![d] = NoDecision]
      BY <1>0, <3>1 DEF NoDecision
    <3>2. CASE dec' = [dec EXCEPT ![d] = [dec[d] EXCEPT !.at =
                          IF dec[d].want = "approved" THEN "won" ELSE "failed"]]
      BY <1>0, <2>1, <3>2 DEF Decisions
    <3> QED
      BY <1>8, <3>1, <3>2 DEF ResolveRow, Decides
  <2>6. outcome[r] # None /\ (dec[d].want = "approved" /\ IsCard(r) => dec[d].seen[r] > 0)
    BY <2>1 DEF AnswerInv, Answering
  <2>7. Answering(d)'
    BY <2>1, <2>3, <2>5, <2>6 DEF Answering, IsCard
  <2> QED
    BY <1>2, <2>1, <2>3, <2>4, <2>7
<1>9. ASSUME NEW d \in Deciders, Replay(d) \/ ReplayFails(d) \/ Settle(d) PROVE AnswerInv'
  <2>1. dec[d].row \in Rows /\ UNCHANGED outcome
    BY <1>0, <1>9 DEF Replay, ReplayFails, Settle, table
  <2>2. CardMoves(dec[d].row, Settled)
    <3>1. CASE Replay(d) \/ ReplayFails(d)
      BY <2>1, <3>1, ConfirmMoves DEF Replay, ReplayFails, CardMoves, Settled
    <3>2. CASE Settle(d)
      BY <2>1, <3>2, DeclineMoves DEF Settle, CardMoves, Settled
    <3> QED
      BY <1>9, <3>1, <3>2
  <2>3. \A q \in Rows : card[q] = None => card'[q] = None
    BY <1>0, <2>1, <2>2, ApprovalsAssumption DEF CardMoves
  <2>4. Answering(d)' /\ \A e \in Deciders \ {d} : dec'[e] = dec[e]
    <3>1. CASE Replay(d) \/ Settle(d)
      BY <1>0, <3>1 DEF Replay, Settle, Decides, NoDecision, Answering
    <3>2. CASE ReplayFails(d)
      BY <1>0, <3>2 DEF ReplayFails, Decides, Answering, Decisions
    <3> QED
      BY <1>9, <3>1, <3>2
  <2> QED
    BY <1>2, <2>1, <2>3, <2>4
<1> QED
  BY <1>3, <1>4, <1>5, <1>6, <1>7, <1>8, <1>9 DEF Deciding

LEMMA AnswerStep == TypeOK /\ PingInv /\ AnswerInv /\ [Next]_vars => AnswerInv'
<1> SUFFICES ASSUME TypeOK, PingInv, AnswerInv, [Next]_vars PROVE AnswerInv'
  OBVIOUS
<1>1. CASE UNCHANGED vars
  BY <1>1 DEF vars, table, cards, truth, AnswerInv, Answering, IsCard
<1>2. CASE Crash
  <2>1. UNCHANGED <<sentAt, claims, shown, queued, bound>>
    BY <1>2 DEF Crash, table
  <2>2. \A d \in Deciders : Answering(d)'
    BY <1>2 DEF Crash, NoDecision, Answering
  <2> QED
    BY <2>1, <2>2, AnswerKeeps
<1> QED
  BY <1>1, <1>2, AnswerFiling, AnswerDelivery, AnswerSweep, AnswerDeciding DEF Next

LEMMA AnswerInit == Init => AnswerInv
BY DEF Init, AnswerInv, Answering, NoDecision

\* However the decisions, the deliveries and a restart interleave, a card is approved only for an
\* answer that reached its adapter after a delivery of the approval had begun: approve-action
\* compares the time of arrival, so it says nothing of when the answer was written.
THEOREM ApprovedByAnswer == Spec => []AnswerFollowsClaim
<1>1. TypeOK /\ AnswerInv => AnswerFollowsClaim
  BY DEF TypeOK, DecOK, AnswerInv, Answering, AnswerFollowsClaim
<1> QED
  BY ApprovalTyping, OnceInit, PingStep, AnswerInit, AnswerStep, <1>1, PTL DEF Spec
==============================================================================
