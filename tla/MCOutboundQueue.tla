--------------------------- MODULE MCOutboundQueue ---------------------------
(***************************************************************************)
(* Instances of OutboundQueue for TLC: three sends, one more than the      *)
(* queue takes.                                                            *)
(***************************************************************************)
EXTENDS OutboundQueue, TLC

CONSTANTS s1, s2, s3

\* Sends differ in nothing but their name.
Symmetry == Permutations(Sends)
==============================================================================
