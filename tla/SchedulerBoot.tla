--------------------------- MODULE SchedulerBoot ---------------------------
(***************************************************************************)
(* How the CPUs enter the scheduler: kernel/src/lib.rs start and           *)
(* bootstrap_secondary_cpu, and start_scheduler in schedcore.rs.  The      *)
(* bootstrap stack of CPU c is modelled by extra locations of its idle     *)
(* task: no code of the idle task runs before start_scheduler.  Interrupts *)
(* are on all the while: init_interrupts has enabled them.                 *)
(***************************************************************************)
EXTENDS Scheduler, FiniteSets

CONSTANT BSP   \* the bootstrap processor

VARIABLES
  bootstrapped,  \* NUM_CPUS_BOOTSTRAPPED
  overwritten    \* CPUs whose idle task's saved rsp is a bootstrap stack

bootVars == <<vars, bootstrapped, overwritten>>

BootLocs == {"boot", "booted", "ticking", "shell"}

\* The last steps of every CPU before start_scheduler may leave.
BootStep(c, from, to) ==
  /\ kpc[c] = from
  /\ kpc' = [kpc EXCEPT ![c] = to]
  /\ run[c] = c
  /\ irq[c] = "none"
  /\ UNCHANGED <<slice, skipped, rqLocked, current, run, prevReady, flagVars,
                 irq, saved, guards, child, panic, overwritten>>

\* later_per_cpu_setup; the BSP wakes the other CPUs after its own.
LaterPerCpuSetup(c) ==
  /\ c = BSP \/ bootstrapped > 0
  /\ BootStep(c, "boot", "booted")
  /\ bootstrapped' = bootstrapped + 1
  /\ UNCHANGED <<desired, pending>>

\* start: all CPUs have counted themselves, so the BSP starts the tick ...
TickInit(c) ==
  /\ c = BSP
  /\ bootstrapped >= Cardinality(CPU)
  /\ BootStep(c, "booted", "ticking")
  /\ UNCHANGED <<desired, pending, bootstrapped>>

\* ... and creates the shell.
StartShell(c) ==
  /\ BootStep(c, "ticking", "shell")
  /\ ~rqLocked
  /\ desired' = [desired EXCEPT ![Shell] = "ReadyToRun"]
  /\ pending' = Append(pending, Shell)
  /\ UNCHANGED bootstrapped

\* start_scheduler: switch_to_task from the bootstrap stack to the saved rsp of
\* the idle task, without a lock on RUN_QUEUE.  When a switch has overwritten
\* that rsp the CPU returns into dead frames; nothing is modelled after that.
StartScheduler(c) ==
  /\ BootStep(c, IF c = BSP THEN "shell" ELSE "booted",
                 IF c \in overwritten THEN "lost" ELSE "start")
  /\ UNCHANGED <<desired, pending, bootstrapped>>

Ticking == kpc[BSP] \notin {"boot", "booted"}

BootInit ==
  /\ desired = [t \in Thread |-> IF t \in CPU THEN "ReadyToRun" ELSE "Unborn"]
  /\ slice = [t \in Thread |-> 0]
  /\ pending = <<>>
  /\ skipped = <<>>
  /\ rqLocked = FALSE
  /\ current = [c \in CPU |-> c]
  /\ run = [c \in CPU |-> c]
  /\ prevReady = [c \in CPU |-> FALSE]
  /\ needs = [c \in CPU |-> FALSE]
  /\ preempt = [c \in CPU |-> 0]
  /\ ints = [c \in CPU |-> TRUE]
  /\ kpc = [t \in Thread |-> IF t \in CPU THEN "boot" ELSE "start"]
  /\ irq = [t \in Thread |-> "none"]
  /\ saved = [t \in Thread |-> FALSE]
  /\ guards = [t \in Thread |-> 0]
  /\ child = [t \in Thread |-> {}]
  /\ panic = FALSE
  /\ bootstrapped = 0
  /\ overwritten = {}

\* switch_to_task stores the stack it leaves in the idle task's registers.
SaveBootStack(c) ==
  overwritten' = IF run[c] = c /\ run'[c] # c /\ kpc[c] \in BootLocs
                   THEN overwritten \cup {c} ELSE overwritten

BootNext ==
  \E c \in CPU :
    \/ LaterPerCpuSetup(c)
    \/ TickInit(c)
    \/ StartShell(c)
    \/ StartScheduler(c)
    \/ /\ ~panic
       /\ KernelStep(c) \/ ClientStep(c)
       /\ SaveBootStack(c)
       /\ UNCHANGED bootstrapped
    \/ /\ ~panic
       /\ Ticking
       /\ kpc[c] # "lost"
       /\ Interrupt(c, {}, TRUE)
       /\ UNCHANGED <<bootstrapped, overwritten>>

BootSpec == BootInit /\ [][BootNext]_bootVars

-----------------------------------------------------------------------------
(* What comments say and the code does not do *)

\* "Take a lock on the run queue and disable interrupts. It is very important
\* we hold this lock past switch_to_task!" (schedcore.rs:188-189): a CPU that
\* works on the run queue holds its lock, also while other CPUs start.
LockHeldPastSwitch ==
  \A c \in CPU : top[run[c]] \in {"reap", "pop", "switch"} => rqLocked

\* start_scheduler "switches from the bootstrap code, which isn't a task, to
\* the first actual kernel task" (schedcore.rs:134-135): the scheduler never
\* leaves a bootstrap stack to come back to it.
BootstrapIsNoTask ==
  \A c \in CPU : kpc[c] \in BootLocs => run[c] = c
=============================================================================
