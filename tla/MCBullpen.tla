------------------------------ MODULE MCBullpen ------------------------------
(***************************************************************************)
(* Instances of Bullpen for TLC: a mention that opens the thread, another  *)
(* one, the reader's reply, and one turn of the reader at a time.          *)
(***************************************************************************)
EXTENDS Bullpen

CONSTANTS m1, m2, r1, u1
==============================================================================
