----------------------------- MODULE MCApprovals -----------------------------
(***************************************************************************)
(* Instances of Approvals for TLC: one approval, of a card checkout or of  *)
(* another action, two turns or reactions, and a queueing channel.         *)
(***************************************************************************)
EXTENDS Approvals

CONSTANTS request, d1, d2

OneChannel == <<"signal">>
==============================================================================
