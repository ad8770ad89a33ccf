------------------------------ MODULE MCTimers ------------------------------
(***************************************************************************)
(* Two tasks that sleep and set timers and may be awakened by others.      *)
(***************************************************************************)
EXTENDS Timers, TLC

\* Both tasks may be on the BSP, and nothing else tells them apart.
Symmetry == Permutations(Task)
=============================================================================
