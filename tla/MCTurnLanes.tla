----------------------------- MODULE MCTurnLanes -----------------------------
(***************************************************************************)
(* Instances of TurnLanes for TLC.                                         *)
(***************************************************************************)
EXTENDS TurnLanes

CONSTANTS c1, m1, m2, m3, w1, r1

\* Everybody on one conversation.
OneConv == [t \in Tasks |-> c1]

\* One contact writes every message and is the originator of every synthetic task.
OneContact == [t \in Tasks |-> "a"]

\* The wake is of another contact: no message may be stored in its turn.
WakeOfB == [t \in Tasks |-> IF t = w1 THEN "b" ELSE "a"]

\* Clean messages of one contact on one conversation are alike.
MessageSymmetry == Permutations({m1, m2, m3})
==============================================================================
