-------------------------- MODULE MCSchedulerBoot --------------------------
(* Two CPUs entering the scheduler. *)
EXTENDS SchedulerBoot

CONSTANTS c1, c2, t1

MCCPU == {c1, c2}
MCTask == {t1}
=============================================================================
