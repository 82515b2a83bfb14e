--------------------------- MODULE SchedulerProofs ---------------------------
(***************************************************************************)
(* Proofs about Scheduler: the slot counter, one run per occurrence of a   *)
(* recurring job, the types, and the deferred time of a wake, for every    *)
(* set of rows, polls and commands and every cap, threshold and number of  *)
(* failures and restarts.                                                  *)
(***************************************************************************)
EXTENDS Scheduler, FiniteSetTheorems, TLAPS

Claiming == {p \in Polls : at[p] # None}

\* The part of the types the counter depends on.
SlotTypes ==
    /\ at \in [Polls -> Jobs \cup {None}]
    /\ todo \in [Polls -> SUBSET Jobs]
    /\ run \in [Runs -> Stages]
    /\ inFlight \in 0 .. MaxInFlight

\* A slot is held by a run that was claimed, so that a fresh run takes a new one.
SlotHolders == slots \subseteq {r \in Runs : run[r] # "none"} /\ IsFiniteSet(Claiming)

SlotInv == SlotTypes /\ SlotHolders /\ SlotsAccounted

LEMMA SlotsFinite ==
    ASSUME SlotHolders
    PROVE  /\ IsFiniteSet(slots) /\ Cardinality(slots) \in Nat
           /\ IsFiniteSet(Claiming) /\ Cardinality(Claiming) \in Nat
<1>1. MaxRuns \in Nat /\ 1 \in Int
  BY SchedulerAssumption
<1>2. IsFiniteSet(1 .. MaxRuns)
  BY <1>1, FS_Interval
<1>3. slots \subseteq Runs
  BY DEF SlotHolders
<1>4. IsFiniteSet(slots)
  BY <1>2, <1>3, FS_Subset DEF Runs
<1> QED
  BY <1>4, FS_CardinalityType DEF SlotHolders

\* A step that neither takes nor returns a slot.
LEMMA NoSlotMoves ==
    ASSUME SlotInv, UNCHANGED <<inFlight, slots, at>>,
           todo' \in [Polls -> SUBSET Jobs], run' \in [Runs -> Stages],
           \A r \in Runs : run[r] # "none" => run'[r] # "none"
    PROVE  SlotInv'
<1>1. Claiming' = Claiming
  BY DEF Claiming
<1>2. SlotTypes' /\ SlotHolders'
  BY <1>1 DEF SlotInv, SlotTypes, SlotHolders
<1>3. SlotsAccounted'
  BY DEF SlotInv, SlotsAccounted
<1> QED
  BY <1>2, <1>3 DEF SlotInv

\* A run gives its slot back, or has done so before.
LEMMA FreeSlotKeeps ==
    ASSUME SlotInv, NEW r \in Runs, FreeSlot(r), UNCHANGED <<at, todo>>,
           run' \in [Runs -> Stages],
           \A q \in Runs : run[q] # "none" => run'[q] # "none"
    PROVE  SlotInv'
<1>1. /\ IsFiniteSet(slots) /\ Cardinality(slots) \in Nat
      /\ IsFiniteSet(Claiming) /\ Cardinality(Claiming) \in Nat
  BY SlotsFinite DEF SlotInv
<1>2. Claiming' = Claiming
  BY DEF Claiming
<1>3. /\ IsFiniteSet(slots \ {r})
      /\ Cardinality(slots \ {r}) =
           IF r \in slots THEN Cardinality(slots) - 1 ELSE Cardinality(slots)
  BY <1>1, FS_RemoveElement
<1>4. Cardinality(slots \ {r}) \in Nat
  BY <1>3, FS_CardinalityType
<1>5. inFlight = Cardinality(slots) + Cardinality(Claiming) /\ inFlight \in 0 .. MaxInFlight
  BY DEF SlotInv, SlotTypes, SlotsAccounted, Claiming
<1>6. slots' = slots \ {r} /\ inFlight' = IF r \in slots THEN inFlight - 1 ELSE inFlight
  BY DEF FreeSlot
<1>7. MaxInFlight \in Nat
  BY SchedulerAssumption
<1>8. inFlight' = Cardinality(slots') + Cardinality(Claiming') /\ inFlight' \in 0 .. MaxInFlight
  BY <1>1, <1>2, <1>3, <1>4, <1>5, <1>6, <1>7
<1>9. SlotTypes' /\ SlotHolders'
  BY <1>2, <1>6, <1>8 DEF SlotInv, SlotTypes, SlotHolders
<1> QED
  BY <1>8, <1>9 DEF SlotInv, SlotsAccounted, Claiming

\* A poll gives its slot back.
LEMMA ClaimEnds ==
    ASSUME SlotInv, NEW p \in Polls, at[p] # None, at' = [at EXCEPT ![p] = None],
           inFlight' = inFlight - 1, UNCHANGED <<slots, todo>>,
           run' \in [Runs -> Stages],
           \A r \in Runs : run[r] # "none" => run'[r] # "none"
    PROVE  SlotInv'
<1>1. /\ IsFiniteSet(slots) /\ Cardinality(slots) \in Nat
      /\ IsFiniteSet(Claiming) /\ Cardinality(Claiming) \in Nat
  BY SlotsFinite DEF SlotInv
<1>2. Claiming' = Claiming \ {p} /\ p \in Claiming
  BY DEF SlotInv, SlotTypes, Claiming
<1>3. Cardinality(Claiming') = Cardinality(Claiming) - 1 /\ IsFiniteSet(Claiming')
  BY <1>1, <1>2, FS_RemoveElement
<1>4. Cardinality(Claiming') \in Nat
  BY <1>3, FS_CardinalityType
<1>5. inFlight = Cardinality(slots) + Cardinality(Claiming) /\ inFlight \in 0 .. MaxInFlight
  BY DEF SlotInv, SlotTypes, SlotsAccounted, Claiming
<1>6. MaxInFlight \in Nat
  BY SchedulerAssumption
<1>7. inFlight' = Cardinality(slots') + Cardinality(Claiming') /\ inFlight' \in 0 .. MaxInFlight
  BY <1>1, <1>3, <1>4, <1>5, <1>6
<1>8. SlotTypes' /\ SlotHolders'
  BY <1>3, <1>7 DEF SlotInv, SlotTypes, SlotHolders
<1> QED
  BY <1>7, <1>8 DEF SlotInv, SlotsAccounted, Claiming

LEMMA ReserveSlots ==
    ASSUME SlotInv, NEW p \in Polls, Reserve(p)
    PROVE  SlotInv'
<1>1. /\ IsFiniteSet(slots) /\ Cardinality(slots) \in Nat
      /\ IsFiniteSet(Claiming) /\ Cardinality(Claiming) \in Nat
  BY SlotsFinite DEF SlotInv
<1>2. CASE inFlight < MaxInFlight /\ inFlight' = inFlight + 1
  <2>1. PICK j \in todo[p] : /\ todo' = [todo EXCEPT ![p] = @ \ {j}]
                             /\ at' = [at EXCEPT ![p] = j]
    BY <1>2, SchedulerAssumption DEF Reserve, SlotInv, SlotTypes
  <2>2. j \in Jobs /\ j # None /\ at[p] = None
    BY SchedulerAssumption DEF Reserve, SlotInv, SlotTypes
  <2>3. Claiming' = Claiming \cup {p} /\ p \notin Claiming
    BY <2>1, <2>2 DEF SlotInv, SlotTypes, Claiming
  <2>4. IsFiniteSet(Claiming') /\ Cardinality(Claiming') = Cardinality(Claiming) + 1
    BY <1>1, <2>3, FS_AddElement
  <2>5. UNCHANGED <<slots, run>>
    BY DEF Reserve, runVars
  <2>6. inFlight = Cardinality(slots) + Cardinality(Claiming) /\ inFlight \in 0 .. MaxInFlight
    BY DEF SlotInv, SlotTypes, SlotsAccounted, Claiming
  <2>7. MaxInFlight \in Nat
    BY SchedulerAssumption
  <2>8. inFlight' = Cardinality(slots') + Cardinality(Claiming') /\ inFlight' \in 0 .. MaxInFlight
    BY <1>1, <1>2, <2>4, <2>5, <2>6, <2>7
  <2>9. SlotTypes' /\ SlotHolders'
    BY <2>1, <2>2, <2>4, <2>5, <2>8 DEF SlotInv, SlotTypes, SlotHolders
  <2> QED
    BY <2>8, <2>9 DEF SlotInv, SlotsAccounted, Claiming
<1>3. CASE todo' = [todo EXCEPT ![p] = {}] /\ UNCHANGED <<at, inFlight>>
  BY <1>3, NoSlotMoves DEF Reserve, runVars, SlotInv, SlotTypes
<1> QED
  BY <1>2, <1>3 DEF Reserve

\* The claim hands the poll's slot to the run it starts.
LEMMA ClaimSlots ==
    ASSUME SlotInv, NEW p \in Polls, NEW r \in Runs, Claim(p, r)
    PROVE  SlotInv'
<1>1. /\ IsFiniteSet(slots) /\ Cardinality(slots) \in Nat
      /\ IsFiniteSet(Claiming) /\ Cardinality(Claiming) \in Nat
  BY SlotsFinite DEF SlotInv
<1>2. /\ at[p] # None /\ run[r] = "none"
      /\ at' = [at EXCEPT ![p] = None] /\ run' = [run EXCEPT ![r] = "publishing"]
      /\ slots' = slots \cup {r} /\ UNCHANGED <<inFlight, todo>>
  BY SchedulerAssumption DEF Claim, Fresh
<1>3. r \notin slots
  BY <1>2 DEF SlotInv, SlotHolders
<1>4. Cardinality(slots') = Cardinality(slots) + 1
  BY <1>1, <1>2, <1>3, FS_AddElement
<1>5. Claiming' = Claiming \ {p} /\ p \in Claiming
  BY <1>2 DEF SlotInv, SlotTypes, Claiming
<1>6. Cardinality(Claiming') = Cardinality(Claiming) - 1 /\ IsFiniteSet(Claiming')
  BY <1>1, <1>5, FS_RemoveElement
<1>7. inFlight = Cardinality(slots) + Cardinality(Claiming)
  BY DEF SlotInv, SlotsAccounted, Claiming
<1>8. inFlight' = Cardinality(slots') + Cardinality(Claiming')
  BY <1>1, <1>2, <1>4, <1>6, <1>7
<1>9. SlotTypes' /\ SlotHolders'
  BY <1>2, <1>6 DEF SlotInv, SlotTypes, SlotHolders, Stages
<1> QED
  BY <1>8, <1>9 DEF SlotInv, SlotsAccounted, Claiming

LEMMA FireSlots ==
    ASSUME SlotInv, NEW p \in Polls, Fire(p)
    PROVE  SlotInv'
<1>1. CASE ClaimSkips(p)
  BY <1>1, ClaimEnds DEF ClaimSkips, runVars, SlotInv, SlotTypes
<1>2. CASE ClaimThrows(p)
  <2>1. at[p] # None
    BY <1>2, SchedulerAssumption DEF ClaimThrows
  <2> QED
    BY <1>2, <2>1, ClaimEnds DEF ClaimThrows, runVars, SlotInv, SlotTypes
<1>3. ASSUME NEW r \in Runs, ClaimLost(p, r)
      PROVE  SlotInv'
  <2>1. at[p] # None
    BY <1>3, SchedulerAssumption DEF ClaimLost
  <2>2. run' \in [Runs -> Stages] /\ \A q \in Runs : run[q] # "none" => run'[q] # "none"
    BY <1>3 DEF ClaimLost, SlotInv, SlotTypes, Stages
  <2> QED
    BY <1>3, <2>1, <2>2, ClaimEnds DEF ClaimLost
<1> QED
  BY <1>1, <1>2, <1>3, ReserveSlots, ClaimSlots DEF Fire

LEMMA RunSlots ==
    ASSUME SlotInv, NEW r \in Runs, Run(r) \/ Timeout(r)
    PROVE  SlotInv'
<1> USE DEF SlotInv, SlotTypes, Stages
<1>1. CASE TurnStarts(r)
  BY <1>1, NoSlotMoves DEF TurnStarts, pollVars
<1>2. CASE PublishFails(r)
  BY <1>2, FreeSlotKeeps DEF PublishFails, pollVars
<1>3. ASSUME NEW success \in BOOLEAN, Respond(r, success)
      PROVE  SlotInv'
  BY <1>3, NoSlotMoves DEF Respond, pollVars
<1>4. CASE ResponseLost(r)
  BY <1>4, NoSlotMoves DEF ResponseLost, pollVars
<1>5. CASE Settle(r)
  BY <1>5, FreeSlotKeeps DEF Settle, pollVars
<1>6. CASE Timeout(r)
  BY <1>6, FreeSlotKeeps DEF Timeout, pollVars
<1> QED
  BY <1>1, <1>2, <1>3, <1>4, <1>5, <1>6 DEF Run

LEMMA CompleteSlots ==
    ASSUME SlotInv, NEW r \in Runs, Complete(r)
    PROVE  SlotInv'
<1>1. UNCHANGED <<inFlight, slots, at, todo, run>>
  BY DEF Complete, DriftPause, AskDisposition, DispositionEnds, CompleteRead, CompleteWrite,
         CompleteFails, pollVars
<1> QED
  BY <1>1, NoSlotMoves DEF SlotInv, SlotTypes

LEMMA OperateSlots ==
    ASSUME SlotInv, NEW j \in Jobs, Tick(j) \/ Operate(j)
    PROVE  SlotInv'
<1>1. UNCHANGED <<inFlight, slots, at, todo, run>>
  BY DEF Tick, Operate, Cancel, Pause, ResumeRead, ResumeWrite, Edit, Reschedule, FinishTask,
         EnqueueTaskWake, pollVars, runVars
<1> QED
  BY <1>1, NoSlotMoves DEF SlotInv, SlotTypes

LEMMA WatchSlots ==
    ASSUME SlotInv, Watch
    PROVE  SlotInv'
<1>1. UNCHANGED <<inFlight, slots, at, todo, run>>
  BY DEF Watch, WatchSelect, WatchRead, WatchWrite, pollVars, runVars
<1> QED
  BY <1>1, NoSlotMoves DEF SlotInv, SlotTypes

LEMMA PollSelectSlots ==
    ASSUME SlotInv, NEW p \in Polls, PollSelect(p)
    PROVE  SlotInv'
<1>1. UNCHANGED <<inFlight, slots, at, run>>
  BY DEF PollSelect, runVars
<1>2. PICK js \in SUBSET Jobs : todo' = [todo EXCEPT ![p] = js]
  BY DEF PollSelect
<1> QED
  BY <1>1, <1>2, NoSlotMoves DEF SlotInv, SlotTypes

LEMMA RestartSlots ==
    ASSUME SlotInv, Restart
    PROVE  SlotInv'
<1>1. /\ inFlight' = 0 /\ slots' = {} /\ at' = [p \in Polls |-> None]
      /\ todo' = [p \in Polls |-> {}]
      /\ run' = [r \in Runs |-> IF run[r] = "none" THEN "none" ELSE "over"]
  BY DEF Restart
<1>2. Claiming' = {} /\ {p \in Polls : at'[p] # None} = {}
  BY <1>1 DEF Claiming
<1>3. MaxInFlight \in Nat
  BY SchedulerAssumption
<1>4. SlotTypes' /\ SlotHolders'
  BY <1>1, <1>2, <1>3, FS_EmptySet DEF SlotTypes, SlotHolders, Stages
<1>5. SlotsAccounted'
  BY <1>1, <1>2, FS_EmptySet DEF SlotsAccounted
<1> QED
  BY <1>4, <1>5 DEF SlotInv

LEMMA SlotInvInit == Init => SlotInv
<1> SUFFICES ASSUME Init PROVE SlotInv
  OBVIOUS
<1>1. /\ inFlight = 0 /\ slots = {} /\ at = [p \in Polls |-> None]
      /\ todo = [p \in Polls |-> {}] /\ run = [r \in Runs |-> "none"]
  BY DEF Init
<1>2. Claiming = {} /\ {p \in Polls : at[p] # None} = {}
  BY <1>1 DEF Claiming
<1>3. MaxInFlight \in Nat
  BY SchedulerAssumption
<1>4. SlotTypes /\ SlotHolders
  BY <1>1, <1>2, <1>3, FS_EmptySet DEF SlotTypes, SlotHolders, Stages
<1>5. SlotsAccounted
  BY <1>1, <1>2, FS_EmptySet DEF SlotsAccounted
<1> QED
  BY <1>4, <1>5 DEF SlotInv

LEMMA SlotInvStep == SlotInv /\ [Next]_vars => SlotInv'
<1> SUFFICES ASSUME SlotInv, [Next]_vars PROVE SlotInv'
  OBVIOUS
<1>1. CASE UNCHANGED vars
  BY <1>1, NoSlotMoves DEF vars, pollVars, runVars, SlotInv, SlotTypes
<1>2. CASE Next
  BY <1>2, FireSlots, RunSlots, CompleteSlots, OperateSlots, WatchSlots, PollSelectSlots,
     RestartSlots DEF Next
<1> QED
  BY <1>1, <1>2

\* The in-flight counter is exact, and within maxInFlight, whatever combination of settling,
\* timeout, skip, failure and restart gives the slots back.
THEOREM CounterIsExact == Spec => [](SlotsAccounted /\ inFlight \in 0 .. MaxInFlight)
<1>1. SlotInv => SlotsAccounted /\ inFlight \in 0 .. MaxInFlight
  BY DEF SlotInv, SlotTypes
<1> QED
  BY SlotInvInit, SlotInvStep, <1>1, PTL DEF Spec

-----------------------------------------------------------------------------

Times == {"due", "later", "never"}

OccTypes ==
    /\ next \in [Jobs -> Times]
    /\ ticks \in [Jobs -> Nat]
    /\ runJob \in [Runs -> Jobs \cup {None}]

\* While a recurring row is due, the occurrence it is due for has not run.
DueMeansOwed ==
    \A j \in Cron :
      Cardinality(RunsOf(j)) <= IF next[j] = "due" THEN ticks[j] ELSE 1 + ticks[j]

OccInv == OccTypes /\ DueMeansOwed

LEMMA RunsFinite ==
    ASSUME NEW S, S \subseteq Runs
    PROVE  IsFiniteSet(S) /\ Cardinality(S) \in Nat
<1>1. MaxRuns \in Int /\ 1 \in Int
  BY SchedulerAssumption
<1>2. IsFiniteSet(1 .. MaxRuns)
  BY <1>1, FS_Interval
<1>3. IsFiniteSet(S)
  BY <1>2, FS_Subset DEF Runs
<1> QED
  BY <1>3, FS_CardinalityType

\* A step that claims nothing and makes no recurring row due.
LEMMA NothingFallsDue ==
    ASSUME OccInv, UNCHANGED <<runJob, ticks>>, next' \in [Jobs -> Times],
           \A j \in Cron : next'[j] = "due" => next[j] = "due"
    PROVE  OccInv'
<1>1. OccTypes'
  BY DEF OccInv, OccTypes
<1>2. ASSUME NEW j \in Cron
      PROVE  Cardinality(RunsOf(j)') <= IF next'[j] = "due" THEN ticks'[j] ELSE 1 + ticks'[j]
  <2>1. RunsOf(j)' = RunsOf(j)
    BY DEF RunsOf
  <2>2. Cardinality(RunsOf(j)) \in Nat
    BY RunsFinite DEF RunsOf
  <2>3. ticks[j] \in Nat /\ ticks' = ticks
    BY SchedulerAssumption DEF OccInv, OccTypes
  <2>4. Cardinality(RunsOf(j)) <= IF next[j] = "due" THEN ticks[j] ELSE 1 + ticks[j]
    BY DEF OccInv, DueMeansOwed
  <2> QED
    BY <2>1, <2>2, <2>3, <2>4
<1>3. DueMeansOwed'
  BY <1>2 DEF DueMeansOwed
<1> QED
  BY <1>1, <1>3 DEF OccInv

\* A row falls due, and with it one more run is owed.
LEMMA TickOcc ==
    ASSUME OccInv, NEW i \in Jobs, Tick(i)
    PROVE  OccInv'
<1>1. /\ next[i] = "later" /\ next' = [next EXCEPT ![i] = "due"]
      /\ ticks' = [ticks EXCEPT ![i] = @ + 1] /\ runJob' = runJob
  BY DEF Tick, runVars
<1>2. OccTypes'
  BY <1>1 DEF OccInv, OccTypes, Times
<1>3. ASSUME NEW j \in Cron
      PROVE  Cardinality(RunsOf(j)') <= IF next'[j] = "due" THEN ticks'[j] ELSE 1 + ticks'[j]
  <2>1. RunsOf(j)' = RunsOf(j)
    BY <1>1 DEF RunsOf
  <2>2. Cardinality(RunsOf(j)) \in Nat
    BY RunsFinite DEF RunsOf
  <2>3. ticks[j] \in Nat /\ j \in Jobs
    BY SchedulerAssumption DEF OccInv, OccTypes
  <2>4. Cardinality(RunsOf(j)) <= IF next[j] = "due" THEN ticks[j] ELSE 1 + ticks[j]
    BY DEF OccInv, DueMeansOwed
  <2>5. CASE j = i
    <3>1. next'[j] = "due" /\ ticks'[j] = ticks[j] + 1 /\ next[j] # "due"
      BY <1>1, <2>3, <2>5 DEF OccInv, OccTypes
    <3> QED
      BY <2>1, <2>2, <2>3, <2>4, <3>1
  <2>6. CASE j # i
    <3>1. next'[j] = next[j] /\ ticks'[j] = ticks[j]
      BY <1>1, <2>3, <2>6 DEF OccInv, OccTypes
    <3> QED
      BY <2>1, <2>2, <2>3, <2>4, <3>1
  <2> QED
    BY <2>5, <2>6
<1>4. DueMeansOwed'
  BY <1>3 DEF DueMeansOwed
<1> QED
  BY <1>2, <1>4 DEF OccInv

\* The claim of a recurring row re-checks that it is due and moves it to its next occurrence.
LEMMA ClaimOcc ==
    ASSUME OccInv, NEW i \in Jobs, NEW r \in Runs, ClaimMatches(i), ClaimRow(i, r),
           runJob' = [runJob EXCEPT ![r] = i], ticks' = ticks
    PROVE  OccInv'
<1>1. /\ next' = IF i \in Cron THEN [next EXCEPT ![i] = "later"] ELSE next
      /\ i \in Cron => next[i] = "due"
  BY DEF ClaimMatches, ClaimRow
<1>2. OccTypes'
  BY <1>1 DEF OccInv, OccTypes, Times
<1>3. ASSUME NEW j \in Cron
      PROVE  Cardinality(RunsOf(j)') <= IF next'[j] = "due" THEN ticks'[j] ELSE 1 + ticks'[j]
  <2>1. IsFiniteSet(RunsOf(j)) /\ Cardinality(RunsOf(j)) \in Nat
    BY RunsFinite DEF RunsOf
  <2>2. ticks[j] \in Nat /\ j \in Jobs
    BY SchedulerAssumption DEF OccInv, OccTypes
  <2>3. Cardinality(RunsOf(j)) <= IF next[j] = "due" THEN ticks[j] ELSE 1 + ticks[j]
    BY DEF OccInv, DueMeansOwed
  <2>4. Cardinality(RunsOf(j)') \in Nat
    BY RunsFinite DEF RunsOf
  <2>5. CASE j = i
    <3>1. RunsOf(j)' \subseteq RunsOf(j) \cup {r}
      BY DEF RunsOf, OccInv, OccTypes
    <3>2. /\ IsFiniteSet(RunsOf(j) \cup {r})
          /\ Cardinality(RunsOf(j) \cup {r}) =
               IF r \in RunsOf(j) THEN Cardinality(RunsOf(j)) ELSE Cardinality(RunsOf(j)) + 1
      BY <2>1, FS_AddElement
    <3>3. Cardinality(RunsOf(j)') <= Cardinality(RunsOf(j) \cup {r})
      BY <3>1, <3>2, FS_Subset
    <3>4. next[j] = "due" /\ next'[j] = "later" /\ ticks'[j] = ticks[j]
      BY <1>1, <2>2, <2>5 DEF OccInv, OccTypes
    <3> QED
      BY <2>1, <2>2, <2>3, <2>4, <3>2, <3>3, <3>4
  <2>6. CASE j # i
    <3>1. RunsOf(j)' \subseteq RunsOf(j)
      BY <2>6 DEF RunsOf, OccInv, OccTypes
    <3>2. Cardinality(RunsOf(j)') <= Cardinality(RunsOf(j))
      BY <2>1, <3>1, FS_Subset
    <3>3. next'[j] = next[j] /\ ticks'[j] = ticks[j]
      BY <1>1, <2>2, <2>6 DEF OccInv, OccTypes
    <3> QED
      BY <2>1, <2>2, <2>3, <2>4, <3>2, <3>3
  <2> QED
    BY <2>5, <2>6
<1>4. DueMeansOwed'
  BY <1>3 DEF DueMeansOwed
<1> QED
  BY <1>2, <1>4 DEF OccInv

LEMMA PollOcc ==
    ASSUME OccInv, NEW p \in Polls, PollSelect(p) \/ Fire(p)
    PROVE  OccInv'
<1> USE DEF OccInv, OccTypes, Times
<1>1. CASE PollSelect(p)
  BY <1>1, NothingFallsDue DEF PollSelect, row, runVars, bounds
<1>2. CASE Reserve(p)
  BY <1>2, NothingFallsDue DEF Reserve, row, runVars, bounds
<1>3. CASE ClaimSkips(p)
  <2>1. next' = next \/ next' = [next EXCEPT ![at[p]] = "never"]
    BY <1>3 DEF ClaimSkips
  <2>2. next' \in [Jobs -> Times] /\ \A j \in Cron : next'[j] = "due" => next[j] = "due"
    BY <2>1, SchedulerAssumption
  <2> QED
    BY <1>3, <2>2, NothingFallsDue DEF ClaimSkips, runVars, bounds
<1>4. CASE ClaimThrows(p)
  <2>1. next' = next \/ next' = [next EXCEPT ![at[p]] = "later"]
    BY <1>4 DEF ClaimThrows, Arm
  <2>2. next' \in [Jobs -> Times] /\ \A j \in Cron : next'[j] = "due" => next[j] = "due"
    BY <2>1, SchedulerAssumption
  <2> QED
    BY <1>4, <2>2, NothingFallsDue DEF ClaimThrows, runVars
<1>5. ASSUME NEW r \in Runs, Claim(p, r) \/ ClaimLost(p, r)
      PROVE  OccInv'
  BY <1>5, ClaimOcc DEF Claim, ClaimLost, bounds
<1> QED
  BY <1>1, <1>2, <1>3, <1>4, <1>5 DEF Fire

LEMMA RunOcc ==
    ASSUME OccInv, NEW r \in Runs, Run(r) \/ Timeout(r)
    PROVE  OccInv'
<1>1. next' = next \/ next' = [next EXCEPT ![runJob[r]] = "later"]
  BY DEF Run, TurnStarts, PublishFails, Respond, ResponseLost, Settle, Timeout, Arm, row
<1>2. next' \in [Jobs -> Times] /\ \A j \in Cron : next'[j] = "due" => next[j] = "due"
  BY <1>1, SchedulerAssumption DEF OccInv, OccTypes, Times
<1>3. UNCHANGED <<runJob, ticks>>
  BY DEF Run, TurnStarts, PublishFails, Respond, ResponseLost, Settle, Timeout, bounds
<1> QED
  BY <1>2, <1>3, NothingFallsDue

LEMMA CompleteOcc ==
    ASSUME OccInv, NEW r \in Runs, Complete(r)
    PROVE  OccInv'
<1>1. next' = next \/ next' = [next EXCEPT ![runJob[r]] = "later"]
  BY DEF Complete, DriftPause, AskDisposition, DispositionEnds, CompleteRead, CompleteWrite,
         CompleteFails, CompleteRow, row
<1>2. next' \in [Jobs -> Times] /\ \A j \in Cron : next'[j] = "due" => next[j] = "due"
  BY <1>1, SchedulerAssumption DEF OccInv, OccTypes, Times
<1>3. UNCHANGED <<runJob, ticks>>
  BY DEF Complete, DriftPause, AskDisposition, DispositionEnds, CompleteRead, CompleteWrite,
         CompleteFails, bounds
<1> QED
  BY <1>2, <1>3, NothingFallsDue

LEMMA WatchOcc ==
    ASSUME OccInv, Watch
    PROVE  OccInv'
<1>1. \/ next' = next
      \/ next' = [next EXCEPT ![wdAt] = "later"]
      \/ wdAt \notin Cron /\ next' = [next EXCEPT ![wdAt] = "due"]
  BY DEF Watch, WatchSelect, WatchRead, WatchWrite, row
<1>2. next' \in [Jobs -> Times] /\ \A j \in Cron : next'[j] = "due" => next[j] = "due"
  BY <1>1, SchedulerAssumption DEF OccInv, OccTypes, Times
<1>3. UNCHANGED <<runJob, ticks>>
  BY DEF Watch, WatchSelect, WatchRead, WatchWrite, runVars, bounds
<1> QED
  BY <1>2, <1>3, NothingFallsDue

LEMMA OperateOcc ==
    ASSUME OccInv, NEW i \in Jobs, Operate(i)
    PROVE  OccInv'
<1>1. \/ next' = next
      \/ next' = [next EXCEPT ![i] = "later"]
      \/ i \notin Cron /\ next' = [next EXCEPT ![i] = "due"]
  BY SchedulerAssumption DEF Operate, Cancel, Pause, ResumeRead, ResumeWrite, Edit, Reschedule,
         FinishTask, EnqueueTaskWake, row
<1>2. next' \in [Jobs -> Times] /\ \A j \in Cron : next'[j] = "due" => next[j] = "due"
  BY <1>1, SchedulerAssumption DEF OccInv, OccTypes, Times
<1>3. UNCHANGED <<runJob, ticks>>
  BY DEF Operate, Cancel, Pause, ResumeRead, ResumeWrite, Edit, Reschedule, FinishTask,
         EnqueueTaskWake, runVars, bounds
<1> QED
  BY <1>2, <1>3, NothingFallsDue

LEMMA RestartOcc ==
    ASSUME OccInv, Restart
    PROVE  OccInv'
<1>1. UNCHANGED <<next, runJob, ticks>>
  BY DEF Restart, row
<1> QED
  BY <1>1, NothingFallsDue DEF OccInv, OccTypes

LEMMA OccInvInit == Init => OccInv
<1> SUFFICES ASSUME Init PROVE OccInv
  OBVIOUS
<1>1. OccTypes
  BY DEF Init, OccTypes, Times
<1>2. ASSUME NEW j \in Cron
      PROVE  Cardinality(RunsOf(j)) <= IF next[j] = "due" THEN ticks[j] ELSE 1 + ticks[j]
  <2>1. j \in Jobs /\ j # None
    BY SchedulerAssumption
  <2>2. RunsOf(j) = {} /\ ticks[j] = 0
    BY <2>1 DEF Init, RunsOf
  <2> QED
    BY <2>2, FS_EmptySet
<1> QED
  BY <1>1, <1>2 DEF OccInv, DueMeansOwed

LEMMA OccInvStep == OccInv /\ [Next]_vars => OccInv'
<1> SUFFICES ASSUME OccInv, [Next]_vars PROVE OccInv'
  OBVIOUS
<1>1. CASE UNCHANGED vars
  BY <1>1, NothingFallsDue DEF vars, row, runVars, bounds, OccInv, OccTypes
<1>2. CASE Next
  BY <1>2, TickOcc, OperateOcc, PollOcc, RunOcc, CompleteOcc, WatchOcc, RestartOcc DEF Next
<1> QED
  BY <1>1, <1>2

\* However polls overlap, and whatever fails, is edited, recovered or restarted, a recurring
\* job runs at most once for every time it falls due.
THEOREM OneRunEachTime == Spec => []OncePerOccurrence
<1>1. OccInv => OncePerOccurrence
  <2> SUFFICES ASSUME OccInv, NEW j \in Cron
               PROVE  Cardinality(RunsOf(j)) <= 1 + ticks[j]
    BY DEF OncePerOccurrence
  <2>1. Cardinality(RunsOf(j)) \in Nat
    BY RunsFinite DEF RunsOf
  <2>2. ticks[j] \in Nat
    BY SchedulerAssumption DEF OccInv, OccTypes
  <2>3. Cardinality(RunsOf(j)) <= IF next[j] = "due" THEN ticks[j] ELSE 1 + ticks[j]
    BY DEF OccInv, DueMeansOwed
  <2> QED
    BY <2>1, <2>2, <2>3
<1> QED
  BY OccInvInit, OccInvStep, <1>1, PTL DEF Spec

(***************************************************************************)
(* Sequences: the first entry of pendingJobs that matches is taken out.    *)
(***************************************************************************)
LEMMA LeastNatural ==
    ASSUME NEW S \in SUBSET Nat, S # {}
    PROVE  \E m \in S : \A n \in S : m <= n
<1> DEFINE R == OpToRel(<, Nat)
<1>1. PICK m \in S : \A n \in S : ~(<<n, m>> \in R)
  <2> HIDE DEF R
  <2>1. IsWellFoundedOn(R, Nat)
    BY NatLessThanWellFounded DEF R
  <2> QED
    BY <2>1, WFMin
<1>2. \A n \in Nat : n < m => <<n, m>> \in R
  BY DEF OpToRel
<1> HIDE DEF R
<1>3. \A n \in S : n \in Nat /\ m \in Nat /\ ~(n < m)
  BY <1>1, <1>2
<1> QED
  BY <1>3

LEMMA MinType ==
    ASSUME NEW S \in SUBSET Nat, S # {}
    PROVE  Min(S) \in S
BY LeastNatural DEF Min

LEMMA RemoveAtType ==
    ASSUME NEW T, NEW s \in Seq(T), NEW k \in 1 .. Len(s)
    PROVE  RemoveAt(s, k) \in Seq(T)
BY DEF RemoveAt

LEMMA UntrackType ==
    ASSUME tracked \in Seq(Runs), NEW r
    PROVE  Untrack(r) \in Seq(Runs)
<1>1. CASE \E i \in 1 .. Len(tracked) : tracked[i] = r
  <2> DEFINE I == {i \in 1 .. Len(tracked) : tracked[i] = r}
  <2>1. I # {} /\ I \in SUBSET Nat
    BY <1>1
  <2>2. SelectInSeq(tracked, LAMBDA v : v = r) = Min(I)
    BY <2>1 DEF SelectInSeq
  <2>3. Min(I) \in I
    BY <2>1, MinType
  <2>4. Untrack(r) = RemoveAt(tracked, Min(I))
    BY <1>1, <2>2 DEF Untrack, RemoveFirst
  <2> QED
    BY <2>3, <2>4, RemoveAtType
<1>2. CASE ~\E i \in 1 .. Len(tracked) : tracked[i] = r
  BY <1>2 DEF Untrack, RemoveFirst
<1> QED
  BY <1>1, <1>2

LEMMA UntrackFirstType ==
    ASSUME tracked \in Seq(Runs), NEW j
    PROVE  UntrackFirst(j) \in Seq(Runs)
<1>1. CASE \E i \in 1 .. Len(tracked) : runJob[tracked[i]] = j
  <2> DEFINE I == {i \in 1 .. Len(tracked) : runJob[tracked[i]] = j}
  <2>1. I # {} /\ I \in SUBSET Nat
    BY <1>1
  <2>2. SelectInSeq(tracked, LAMBDA v : runJob[v] = j) = Min(I)
    BY <2>1 DEF SelectInSeq
  <2>3. Min(I) \in I
    BY <2>1, MinType
  <2>4. UntrackFirst(j) = RemoveAt(tracked, Min(I))
    BY <1>1, <2>2 DEF UntrackFirst, RemoveFirstMatch
  <2> QED
    BY <2>3, <2>4, RemoveAtType
<1>2. CASE ~\E i \in 1 .. Len(tracked) : runJob[tracked[i]] = j
  BY <1>2 DEF UntrackFirst, RemoveFirstMatch
<1> QED
  BY <1>1, <1>2

(***************************************************************************)
(* Types.                                                                  *)
(***************************************************************************)
RowTypes ==
    /\ status \in [Jobs -> Statuses] /\ next \in [Jobs -> {"due", "later", "never"}]
    /\ started \in [Jobs -> 0 .. MaxRuns] /\ fails \in [Jobs -> Nat]
    /\ deferred \subseteq Wakes /\ taskOpen \subseteq Jobs

RunTypes ==
    /\ runJob \in [Runs -> Jobs \cup {None}] /\ run \in [Runs -> Stages]
    /\ slots \subseteq Runs /\ late \subseteq Runs /\ ok \subseteq Runs
    /\ comp \in [Runs -> CompStages] /\ got \in [Runs -> Nat]

\* What the process keeps of polls, runs, the watchdog and commands between two awaits.
ProcessTypes ==
    /\ tracked \in Seq(Runs)
    /\ todo \in [Polls -> SUBSET Jobs] /\ at \in [Polls -> Jobs \cup {None}]
    /\ stuck \subseteq Jobs /\ wdAt \in Jobs \cup {None} /\ wdGot \in Nat
    /\ resuming \subseteq Jobs

BoundTypes ==
    /\ ticks \in [Jobs -> 0 .. MaxTicks]
    /\ faults \in 0 .. MaxFaults /\ crashes \in 0 .. MaxCrashes /\ commands \in 0 .. MaxCommands

\* A run that was claimed has a row, and only such a run is completed.
RunsHaveRows ==
    \A r \in Runs : /\ run[r] # "none" => runJob[r] \in Jobs
                    /\ comp[r] # "none" => run[r] # "none"

Types == RowTypes /\ RunTypes /\ ProcessTypes /\ BoundTypes /\ RunsHaveRows

LEMMA FaultType ==
    ASSUME faults \in 0 .. MaxFaults, NEW kind, Fault(kind)
    PROVE  faults' \in 0 .. MaxFaults
BY SchedulerAssumption DEF Fault

LEMMA CommandType ==
    ASSUME commands \in 0 .. MaxCommands, NEW kind, Command(kind)
    PROVE  commands' \in 0 .. MaxCommands
BY SchedulerAssumption DEF Command

LEMMA ArmType ==
    ASSUME RowTypes, NEW j \in Jobs, Arm(j), UNCHANGED <<started, fails, taskOpen>>
    PROVE  RowTypes'
BY DEF RowTypes, Arm, Statuses

LEMMA ClaimRowType ==
    ASSUME RowTypes, NEW j \in Jobs, NEW r \in Runs, ClaimRow(j, r), UNCHANGED taskOpen
    PROVE  RowTypes'
<1>1. r \in 0 .. MaxRuns
  BY SchedulerAssumption DEF Runs
<1> QED
  BY <1>1 DEF RowTypes, ClaimRow, Statuses

LEMMA CompleteRowType ==
    ASSUME RowTypes, NEW j \in Jobs, NEW success \in BOOLEAN, NEW n \in Nat,
           CompleteRow(j, success, n), UNCHANGED taskOpen
    PROVE  RowTypes'
<1>1. started' \in [Jobs -> 0 .. MaxRuns] /\ fails' \in [Jobs -> Nat]
  BY SchedulerAssumption DEF RowTypes, CompleteRow
<1>2. status' \in [Jobs -> Statuses]
  BY DEF RowTypes, CompleteRow, Statuses
<1>3. next' \in [Jobs -> {"due", "later", "never"}] /\ deferred' \subseteq Wakes
  BY DEF RowTypes, CompleteRow
<1> QED
  BY <1>1, <1>2, <1>3 DEF RowTypes

\* A step that leaves the runs alone leaves their rows alone.
LEMMA RunsKept ==
    ASSUME RunTypes, RunsHaveRows, UNCHANGED runVars
    PROVE  RunTypes' /\ RunsHaveRows'
BY DEF RunTypes, RunsHaveRows, runVars

LEMMA PollTypes ==
    ASSUME Types, NEW p \in Polls, PollSelect(p) \/ Reserve(p) \/ ClaimSkips(p) \/ ClaimThrows(p)
    PROVE  Types'
<1> USE DEF Types
<1>1. CASE PollSelect(p)
  <2>1. ProcessTypes'
    BY <1>1 DEF PollSelect, ProcessTypes, watch
  <2> QED
    BY <1>1, <2>1, RunsKept DEF PollSelect, RowTypes, row, BoundTypes, bounds
<1>2. CASE Reserve(p)
  <2>1. todo' \in [Polls -> SUBSET Jobs] /\ at' \in [Polls -> Jobs \cup {None}]
    BY <1>2 DEF Reserve, ProcessTypes
  <2>2. ProcessTypes'
    BY <1>2, <2>1 DEF Reserve, ProcessTypes, watch
  <2> QED
    BY <1>2, <2>2, RunsKept DEF Reserve, RowTypes, row, BoundTypes, bounds
<1>3. CASE ClaimSkips(p)
  <2>1. at[p] \in Jobs
    BY <1>3 DEF ClaimSkips, ProcessTypes
  <2>2. RowTypes'
    BY <1>3, <2>1 DEF ClaimSkips, RowTypes, Statuses
  <2>3. ProcessTypes'
    BY <1>3 DEF ClaimSkips, ProcessTypes, watch
  <2> QED
    BY <1>3, <2>2, <2>3, RunsKept DEF ClaimSkips, BoundTypes, bounds
<1>4. CASE ClaimThrows(p)
  <2>1. at[p] \in Jobs
    BY <1>4 DEF ClaimThrows, ProcessTypes
  <2>2. RowTypes'
    BY <1>4, <2>1 DEF ClaimThrows, Arm, RowTypes, Statuses
  <2>3. ProcessTypes'
    BY <1>4, UntrackFirstType DEF ClaimThrows, ProcessTypes, watch
  <2>4. BoundTypes'
    BY <1>4, FaultType DEF ClaimThrows, BoundTypes
  <2> QED
    BY <1>4, <2>2, <2>3, <2>4, RunsKept DEF ClaimThrows
<1> QED
  BY <1>1, <1>2, <1>3, <1>4

LEMMA ClaimTypes ==
    ASSUME Types, NEW p \in Polls, NEW r \in Runs, Claim(p, r) \/ ClaimLost(p, r)
    PROVE  Types'
<1> USE DEF Types
<1>1. CASE Claim(p, r)
  <2>1. at[p] \in Jobs
    BY <1>1 DEF Claim
  <2>2. RowTypes'
    BY <1>1, <2>1, ClaimRowType DEF Claim
  <2>3. ProcessTypes'
    BY <1>1 DEF Claim, ProcessTypes, watch
  <2>4. RunTypes' /\ RunsHaveRows'
    BY <1>1, <2>1 DEF Claim, RunTypes, RunsHaveRows, Stages
  <2> QED
    BY <1>1, <2>2, <2>3, <2>4 DEF Claim, BoundTypes, bounds
<1>2. CASE ClaimLost(p, r)
  <2>1. at[p] \in Jobs
    BY <1>2 DEF ClaimLost
  <2>2. RowTypes'
    BY <1>2, <2>1, ClaimRowType DEF ClaimLost
  <2>3. ProcessTypes'
    BY <1>2, UntrackFirstType DEF ClaimLost, ProcessTypes, watch
  <2>4. RunTypes' /\ RunsHaveRows'
    BY <1>2, <2>1 DEF ClaimLost, RunTypes, RunsHaveRows, Stages
  <2>5. BoundTypes'
    BY <1>2, FaultType DEF ClaimLost, BoundTypes
  <2> QED
    BY <2>2, <2>3, <2>4, <2>5
<1> QED
  BY <1>1, <1>2

LEMMA RunStepTypes ==
    ASSUME Types, NEW r \in Runs, Run(r) \/ Timeout(r)
    PROVE  Types'
<1> USE DEF Types
<1>1. CASE TurnStarts(r)
  BY <1>1 DEF TurnStarts, RowTypes, row, RunTypes, RunsHaveRows, Stages, ProcessTypes, pollVars,
              watch, BoundTypes, bounds
<1>2. CASE PublishFails(r)
  <2>1. runJob[r] \in Jobs
    BY <1>2 DEF PublishFails, RunsHaveRows
  <2>2. RowTypes'
    BY <1>2, <2>1, ArmType DEF PublishFails, RowTypes
  <2>3. ProcessTypes'
    BY <1>2, UntrackType DEF PublishFails, ProcessTypes, pollVars, watch
  <2>4. RunTypes' /\ RunsHaveRows'
    BY <1>2, <2>1 DEF PublishFails, FreeSlot, RunTypes, RunsHaveRows, Stages
  <2>5. BoundTypes'
    BY <1>2, FaultType DEF PublishFails, BoundTypes
  <2> QED
    BY <2>2, <2>3, <2>4, <2>5
<1>3. ASSUME NEW success \in BOOLEAN, Respond(r, success) PROVE Types'
  <2>1. ProcessTypes'
    BY <1>3, UntrackType DEF Respond, ProcessTypes, pollVars, watch
  <2>2. RunTypes' /\ RunsHaveRows'
    BY <1>3 DEF Respond, RunTypes, RunsHaveRows, Stages, CompStages
  <2> QED
    BY <1>3, <2>1, <2>2 DEF Respond, RowTypes, row, BoundTypes, bounds
<1>4. CASE ResponseLost(r)
  <2>1. RunTypes' /\ RunsHaveRows'
    BY <1>4 DEF ResponseLost, RunTypes, RunsHaveRows, Stages
  <2>2. BoundTypes'
    BY <1>4, FaultType DEF ResponseLost, BoundTypes
  <2> QED
    BY <1>4, <2>1, <2>2 DEF ResponseLost, RowTypes, row, ProcessTypes, pollVars, watch
<1>5. CASE Settle(r)
  <2>1. RunTypes' /\ RunsHaveRows'
    BY <1>5 DEF Settle, FreeSlot, RunTypes, RunsHaveRows, Stages
  <2> QED
    BY <1>5, <2>1 DEF Settle, RowTypes, row, ProcessTypes, pollVars, watch, BoundTypes, bounds
<1>6. CASE Timeout(r)
  <2>1. RunTypes' /\ RunsHaveRows'
    BY <1>6 DEF Timeout, FreeSlot, RunTypes, RunsHaveRows
  <2> QED
    BY <1>6, <2>1 DEF Timeout, RowTypes, row, ProcessTypes, pollVars, watch, BoundTypes, bounds
<1> QED
  BY <1>1, <1>2, <1>3, <1>4, <1>5, <1>6 DEF Run

LEMMA CompleteTypes ==
    ASSUME Types, NEW r \in Runs, Complete(r)
    PROVE  Types'
<1> USE DEF Types
<1>1. CASE DriftPause(r)
  <2>1. RowTypes'
    BY <1>1 DEF DriftPause, RowTypes, Statuses
  <2>2. RunTypes' /\ RunsHaveRows'
    BY <1>1 DEF DriftPause, CompOver, RunTypes, RunsHaveRows, CompStages
  <2> QED
    BY <1>1, <2>1, <2>2 DEF DriftPause, ProcessTypes, pollVars, watch, BoundTypes, bounds
<1>2. CASE AskDisposition(r)
  <2>1. ProcessTypes'
    BY <1>2 DEF AskDisposition, ProcessTypes, pollVars, watch
  <2>2. RunTypes' /\ RunsHaveRows'
    BY <1>2 DEF AskDisposition, RunTypes, RunsHaveRows, CompStages
  <2> QED
    BY <1>2, <2>1, <2>2 DEF AskDisposition, RowTypes, row, BoundTypes, bounds
<1>3. CASE DispositionEnds(r)
  <2>1. ProcessTypes'
    BY <1>3, UntrackType DEF DispositionEnds, ProcessTypes, pollVars, watch
  <2>2. RunTypes' /\ RunsHaveRows'
    BY <1>3 DEF DispositionEnds, CompOver, RunTypes, RunsHaveRows, CompStages
  <2> QED
    BY <1>3, <2>1, <2>2 DEF DispositionEnds, RowTypes, row, BoundTypes, bounds
<1>4. CASE CompleteRead(r)
  <2>1. runJob[r] \in Jobs
    BY <1>4 DEF CompleteRead, RunsHaveRows
  <2>2. RunTypes' /\ RunsHaveRows'
    BY <1>4, <2>1 DEF CompleteRead, RunTypes, RowTypes, RunsHaveRows, CompStages
  <2> QED
    BY <1>4, <2>2 DEF CompleteRead, RowTypes, row, ProcessTypes, pollVars, watch, BoundTypes,
                      bounds
<1>5. CASE CompleteWrite(r)
  <2>1. runJob[r] \in Jobs /\ got[r] + 1 \in Nat
    BY <1>5 DEF CompleteWrite, RunsHaveRows, RunTypes
  <2>2. RowTypes'
    <3>1. (r \in ok) \in BOOLEAN
      OBVIOUS
    <3>2. CASE CompleteRow(runJob[r], r \in ok, got[r] + 1)
      <4>1. UNCHANGED taskOpen
        BY <1>5 DEF CompleteWrite
      <4> QED
        BY <2>1, <3>1, <3>2, <4>1, CompleteRowType
    <3>3. CASE UNCHANGED row
      BY <1>5, <3>3 DEF CompleteWrite, RowTypes, row
    <3> QED
      BY <1>5, <3>2, <3>3 DEF CompleteWrite
  <2>3. RunTypes' /\ RunsHaveRows'
    BY <1>5 DEF CompleteWrite, CompOver, RunTypes, RunsHaveRows, CompStages
  <2> QED
    BY <1>5, <2>2, <2>3 DEF CompleteWrite, ProcessTypes, pollVars, watch, BoundTypes, bounds
<1>6. CASE CompleteFails(r)
  <2>1. RunTypes' /\ RunsHaveRows'
    BY <1>6 DEF CompleteFails, CompOver, RunTypes, RunsHaveRows, CompStages
  <2>2. BoundTypes'
    BY <1>6, FaultType DEF CompleteFails, BoundTypes
  <2> QED
    BY <1>6, <2>1, <2>2 DEF CompleteFails, RowTypes, row, ProcessTypes, pollVars, watch
<1> QED
  BY <1>1, <1>2, <1>3, <1>4, <1>5, <1>6 DEF Complete

LEMMA WatchTypes ==
    ASSUME Types, Watch
    PROVE  Types'
<1> USE DEF Types
<1>1. CASE WatchSelect \/ WatchRead
  <2>1. ProcessTypes'
    BY <1>1 DEF WatchSelect, WatchRead, ProcessTypes, RowTypes, pollVars
  <2> QED
    BY <1>1, <2>1, RunsKept DEF WatchSelect, WatchRead, RowTypes, row, BoundTypes, bounds
<1>2. CASE WatchWrite
  <2>1. wdAt \in Jobs /\ wdGot + 1 \in Nat
    BY <1>2 DEF WatchWrite, ProcessTypes
  <2>2. RowTypes'
    <3>1. CASE status[wdAt] = "running"
      <4>1. started' \in [Jobs -> 0 .. MaxRuns] /\ fails' \in [Jobs -> Nat]
        BY <1>2, <2>1, <3>1, SchedulerAssumption DEF WatchWrite, RowTypes
      <4>2. /\ status' \in [Jobs -> Statuses] /\ next' \in [Jobs -> {"due", "later", "never"}]
            /\ deferred' \subseteq Wakes
        BY <1>2, <2>1, <3>1 DEF WatchWrite, RowTypes, Statuses
      <4> QED
        BY <1>2, <4>1, <4>2 DEF WatchWrite, RowTypes
    <3>2. CASE status[wdAt] # "running"
      BY <1>2, <3>2 DEF WatchWrite, RowTypes, row
    <3> QED
      BY <3>1, <3>2
  <2>3. ProcessTypes'
    BY <1>2, UntrackFirstType DEF WatchWrite, ProcessTypes, pollVars
  <2> QED
    BY <1>2, <2>2, <2>3, RunsKept DEF WatchWrite, BoundTypes, bounds
<1> QED
  BY <1>1, <1>2 DEF Watch

LEMMA OperateTypes ==
    ASSUME Types, NEW j \in Jobs, Operate(j) \/ Tick(j)
    PROVE  Types'
<1> USE DEF Types
<1>1. CASE Cancel(j)
  <2>1. BoundTypes'
    BY <1>1, CommandType DEF Cancel, BoundTypes
  <2>2. RowTypes'
    BY <1>1 DEF Cancel, RowTypes, Statuses
  <2>3. ProcessTypes'
    BY <1>1 DEF Cancel, ProcessTypes, pollVars, watch
  <2> QED
    BY <1>1, <2>1, <2>2, <2>3, RunsKept DEF Cancel
<1>2. CASE Pause(j)
  <2>1. BoundTypes'
    BY <1>2, CommandType DEF Pause, BoundTypes
  <2>2. RowTypes'
    BY <1>2 DEF Pause, RowTypes, Statuses
  <2>3. ProcessTypes'
    BY <1>2 DEF Pause, ProcessTypes, pollVars, watch
  <2> QED
    BY <1>2, <2>1, <2>2, <2>3, RunsKept DEF Pause
<1>3. CASE ResumeRead(j)
  <2>1. BoundTypes'
    BY <1>3, CommandType DEF ResumeRead, BoundTypes
  <2>2. RowTypes'
    BY <1>3 DEF ResumeRead, RowTypes, row
  <2>3. ProcessTypes'
    BY <1>3 DEF ResumeRead, ProcessTypes, pollVars, watch
  <2> QED
    BY <1>3, <2>1, <2>2, <2>3, RunsKept DEF ResumeRead
<1>4. CASE ResumeWrite(j)
  <2>1. BoundTypes'
    BY <1>4 DEF ResumeWrite, BoundTypes, bounds
  <2>2. RowTypes'
    BY <1>4 DEF ResumeWrite, RowTypes, Statuses
  <2>3. ProcessTypes'
    BY <1>4 DEF ResumeWrite, ProcessTypes, pollVars, watch
  <2> QED
    BY <1>4, <2>1, <2>2, <2>3, RunsKept DEF ResumeWrite
<1>5. CASE Edit(j)
  <2>1. BoundTypes'
    BY <1>5, CommandType DEF Edit, BoundTypes
  <2>2. RowTypes'
    BY <1>5 DEF Edit, RowTypes, Statuses
  <2>3. ProcessTypes'
    BY <1>5 DEF Edit, ProcessTypes, pollVars, watch
  <2> QED
    BY <1>5, <2>1, <2>2, <2>3, RunsKept DEF Edit
<1>6. CASE Reschedule(j)
  <2>1. BoundTypes'
    BY <1>6, CommandType DEF Reschedule, BoundTypes
  <2>2. RowTypes'
    BY <1>6, SchedulerAssumption DEF Reschedule, RowTypes, Statuses
  <2>3. ProcessTypes'
    BY <1>6 DEF Reschedule, ProcessTypes, pollVars, watch
  <2> QED
    BY <1>6, <2>1, <2>2, <2>3, RunsKept DEF Reschedule
<1>7. CASE FinishTask(j)
  <2>1. BoundTypes'
    BY <1>7, CommandType DEF FinishTask, BoundTypes
  <2>2. RowTypes'
    BY <1>7 DEF FinishTask, RowTypes, Statuses
  <2>3. ProcessTypes'
    BY <1>7 DEF FinishTask, ProcessTypes, pollVars, watch
  <2> QED
    BY <1>7, <2>1, <2>2, <2>3, RunsKept DEF FinishTask
<1>8. CASE EnqueueTaskWake(j)
  <2>1. BoundTypes'
    BY <1>8, CommandType DEF EnqueueTaskWake, BoundTypes
  <2>2. RowTypes'
    BY <1>8, SchedulerAssumption DEF EnqueueTaskWake, RowTypes, Statuses
  <2>3. ProcessTypes'
    BY <1>8 DEF EnqueueTaskWake, ProcessTypes, pollVars, watch
  <2> QED
    BY <1>8, <2>1, <2>2, <2>3, RunsKept DEF EnqueueTaskWake
<1>9. CASE Tick(j)
  <2>1. BoundTypes'
    BY <1>9, SchedulerAssumption DEF Tick, BoundTypes
  <2>2. RowTypes'
    BY <1>9 DEF Tick, RowTypes
  <2> QED
    BY <1>9, <2>1, <2>2, RunsKept DEF Tick, ProcessTypes, pollVars, watch
<1> QED
  BY <1>1, <1>2, <1>3, <1>4, <1>5, <1>6, <1>7, <1>8, <1>9 DEF Operate

LEMMA RestartTypes ==
    ASSUME Types, Restart
    PROVE  Types'
<1> USE DEF Types
<1>1. RunTypes' /\ RunsHaveRows'
  BY DEF Restart, RunTypes, RunsHaveRows, Stages, CompStages
<1>2. ProcessTypes'
  BY DEF Restart, ProcessTypes
<1>3. BoundTypes'
  BY SchedulerAssumption DEF Restart, BoundTypes
<1> QED
  BY <1>1, <1>2, <1>3 DEF Restart, RowTypes, row

LEMMA InitTypes == Init => Types
<1> SUFFICES ASSUME Init PROVE Types
  OBVIOUS
<1>1. RowTypes
  BY SchedulerAssumption DEF Init, RowTypes, Statuses
<1>2. RunTypes /\ RunsHaveRows
  BY DEF Init, RunTypes, RunsHaveRows, Stages, CompStages
<1>3. ProcessTypes
  BY DEF Init, ProcessTypes
<1>4. BoundTypes
  BY SchedulerAssumption DEF Init, BoundTypes
<1> QED
  BY <1>1, <1>2, <1>3, <1>4 DEF Types

LEMMA TypesStep == Types /\ [Next]_vars => Types'
<1> SUFFICES ASSUME Types, [Next]_vars PROVE Types'
  OBVIOUS
<1>1. CASE Next
  BY <1>1, PollTypes, ClaimTypes, RunStepTypes, CompleteTypes, WatchTypes, OperateTypes,
     RestartTypes DEF Next, Fire
<1>2. CASE UNCHANGED vars
  BY <1>2, RunsKept DEF vars, row, runVars, Types, RowTypes, ProcessTypes, BoundTypes, pollVars,
                        watch, bounds
<1> QED
  BY <1>1, <1>2

LEMMA TypesHold == Spec => []Types
BY InitTypes, TypesStep, PTL DEF Spec

\* Every variable keeps its type, and the counter its range, for any rows, polls, commands, faults
\* and restarts (scheduler.ts, scheduler-service.ts).
THEOREM SchedulerTyping == Spec => []TypeOK
<1>1. Types /\ inFlight \in 0 .. MaxInFlight => TypeOK
  <2> SUFFICES ASSUME Types, inFlight \in 0 .. MaxInFlight PROVE TypeOK
    OBVIOUS
  <2>1. ToSet(tracked) \subseteq Runs
    BY DEF Types, ProcessTypes, ToSet
  <2> QED
    BY <2>1 DEF Types, RowTypes, RunTypes, ProcessTypes, BoundTypes, TypeOK
<1> QED
  BY <1>1, TypesHold, CounterIsExact, PTL

(***************************************************************************)
(* The deferred time of a wake.                                            *)
(***************************************************************************)
DeferralStep ==
    \A j \in deferred \ deferred' :
        \/ status'[j] = "pending" /\ next'[j] = "later"
        \/ j \notin taskOpen'

LEMMA DeferralKept ==
    ASSUME Types, [Next]_vars
    PROVE  DeferralStep
<1>0. /\ deferred \subseteq Jobs
      /\ status \in [Jobs -> Statuses] /\ next \in [Jobs -> {"due", "later", "never"}]
  BY SchedulerAssumption DEF Types, RowTypes
<1>1. CASE UNCHANGED deferred
  BY <1>1 DEF DeferralStep
<1>2. ASSUME NEW p \in Polls, ClaimSkips(p) PROVE DeferralStep
  BY <1>2 DEF ClaimSkips, DeferralStep
<1>3. ASSUME NEW p \in Polls, ClaimThrows(p) PROVE DeferralStep
  BY <1>0, <1>3 DEF ClaimThrows, Arm, DeferralStep
<1>4. ASSUME NEW r \in Runs, PublishFails(r) PROVE DeferralStep
  BY <1>0, <1>4 DEF PublishFails, Arm, DeferralStep
<1>5. ASSUME NEW r \in Runs, CompleteWrite(r) PROVE DeferralStep
  BY <1>0, <1>5 DEF CompleteWrite, CompleteRow, row, DeferralStep
<1>6. CASE WatchWrite
  BY <1>0, <1>6 DEF WatchWrite, row, DeferralStep
<1>7. ASSUME NEW j \in Jobs, ResumeWrite(j) \/ Reschedule(j) \/ FinishTask(j) PROVE DeferralStep
  BY <1>0, <1>7 DEF ResumeWrite, Reschedule, FinishTask, DeferralStep
<1>8. CASE Next /\ deferred' # deferred
  <2>1. \/ \E p \in Polls : ClaimSkips(p) \/ ClaimThrows(p)
        \/ \E r \in Runs : PublishFails(r) \/ CompleteWrite(r)
        \/ WatchWrite
        \/ \E j \in Jobs : ResumeWrite(j) \/ Reschedule(j) \/ FinishTask(j)
    BY <1>8 DEF Next, Operate, Fire, Run, Complete, Watch, Tick, PollSelect, Reserve, Claim,
                ClaimRow, ClaimLost, TurnStarts, Respond, ResponseLost, Settle, Timeout,
                DriftPause, AskDisposition, DispositionEnds, CompleteRead, CompleteFails,
                WatchSelect, WatchRead, Cancel, Pause, ResumeRead, Edit, EnqueueTaskWake, Restart,
                row
  <2> QED
    BY <2>1, <1>2, <1>3, <1>4, <1>5, <1>6, <1>7
<1> QED
  BY <1>1, <1>8 DEF vars, row

\* A time the wake's own run asked for is armed by whichever of completion, revert, recovery, resume
\* and rescheduling drops it from the row; only the end of the task loses it (deferred_wake_at in
\* scheduler-service.ts: completeJobRun, revertFailedFire, recoverStuckJob, unsuspendJob).
THEOREM DeferredTimeIsArmed == Spec => DeferralArmed
<1>1. Types /\ [Next]_vars => [DeferralStep]_vars
  BY DeferralKept
<1> QED
  BY <1>1, TypesHold, PTL DEF Spec, DeferralArmed, DeferralStep
==============================================================================
