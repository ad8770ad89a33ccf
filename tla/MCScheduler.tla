---------------------------- MODULE MCScheduler ----------------------------
(* Small instances of the scheduler under its most general client. *)
EXTENDS Scheduler, TLC

CONSTANTS c1, c2, t1, t2

MCCPU == {c1, c2}
MCOneCPU == {c1}
MCTask == {t1, t2}

MCSymmetry == Permutations(MCCPU)

\* With slices of one tick a tick leaves 0 of any slice, an idle thread wants to
\* be preempted whatever is left of its slice, and no invariant reads it: states
\* that differ only in it are one.
MCView == <<desired, [t \in Task |-> slice[t]], pending, skipped, rqLocked, current,
            run, prevReady, needs, preempt, ints, kpc, irq, saved, guards, child,
            panic>>
=============================================================================
