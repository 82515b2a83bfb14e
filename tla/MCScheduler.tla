----------------------------- MODULE MCScheduler -----------------------------
(***************************************************************************)
(* Instances of Scheduler for TLC: a recurring job, a one-shot wake of a   *)
(* task, a recurring job nobody can run, and two polls that overlap.       *)
(***************************************************************************)
EXTENDS Scheduler

CONSTANTS cron, wake, orphan, p1, p2

\* Polls differ in nothing but their name.
PollSymmetry == Permutations(Polls)
==============================================================================
