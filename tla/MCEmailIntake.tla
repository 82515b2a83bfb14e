---------------------------- MODULE MCEmailIntake ----------------------------
(***************************************************************************)
(* Instances of EmailIntake for TLC: a thread with up to three messages of *)
(* different seconds, and a message on another thread that shares the      *)
(* first one's second.                                                     *)
(***************************************************************************)
EXTENDS EmailIntake

CONSTANTS a1, a2, a3, b1, ta, tb

MCDate == [m \in Mail |-> IF m = a3 THEN 3 ELSE IF m = a2 THEN 2 ELSE 1]
MCThread == [m \in Mail |-> IF m = b1 THEN tb ELSE ta]
==============================================================================
