----------------------------- MODULE SerialTurns -----------------------------
(***************************************************************************)
(* What turn lanes promise a conversation (ADR-053), without lanes, queues *)
(* or timers: its turns run one after the other, each reading the history  *)
(* the one before it left, except a turn that was let through because the  *)
(* wait grew too long. TurnLanes implements it.                            *)
(***************************************************************************)
CONSTANTS Convs, Tasks, Conv

VARIABLES
    turn,       \* [Tasks -> "waiting" | "working" | "over"]
    through,    \* tasks let through without their conversation
    history,    \* tasks whose reply is in their conversation's history
    read        \* [Tasks -> SUBSET Tasks]: the replies a turn read when it began

Free(c) == \A t \in Tasks \ through : turn[t] = "working" => Conv[t] # c

Init ==
    /\ turn = [t \in Tasks |-> "waiting"]
    /\ through = {} /\ history = {}
    /\ read = [t \in Tasks |-> {}]

\* The wait is given up.
LetThrough(t) ==
    /\ turn[t] = "waiting"
    /\ through' = through \cup {t}
    /\ UNCHANGED <<turn, history, read>>

\* A turn begins when its conversation is free. One that fails before it has read the
\* history has read nothing.
Begin(t) ==
    /\ turn[t] = "waiting"
    /\ t \in through \/ Free(Conv[t])
    /\ turn' = [turn EXCEPT ![t] = "working"]
    /\ \/ read' = [read EXCEPT ![t] = {u \in history : Conv[u] = Conv[t]}]
       \/ UNCHANGED read
    /\ UNCHANGED <<through, history>>

\* The reply enters the history before the turn is over, and once.
Reply(t) ==
    /\ turn[t] = "working" /\ t \notin history
    /\ history' = history \cup {t}
    /\ UNCHANGED <<turn, through, read>>

End(t) ==
    /\ turn[t] = "working"
    /\ turn' = [turn EXCEPT ![t] = "over"]
    /\ UNCHANGED <<through, history, read>>

Next == \E t \in Tasks : LetThrough(t) \/ Begin(t) \/ Reply(t) \/ End(t)

vars == <<turn, through, history, read>>

Spec == Init /\ [][Next]_vars
==============================================================================
