--------------------------- MODULE MCLateDelegation ---------------------------
(***************************************************************************)
(* Instances of LateDelegation for TLC: delegations do not share a handle, *)
(* a review task or a claim, so one is enough for the hazards of one.      *)
(***************************************************************************)
EXTENDS LateDelegation

CONSTANTS d1
==============================================================================
