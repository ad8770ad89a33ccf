---------------------------- MODULE MCInterrupts ----------------------------
(***************************************************************************)
(* Interrupts: their set-up while the CPUs boot, and the spin locks that   *)
(* tasks and handlers share once the kernel runs.  The two models meet in  *)
(* no state, so a behaviour takes the steps of the part Init chooses:      *)
(*   "vectors"   set-up and delivery, sources raise whenever they like;    *)
(*   "paced"     the same with interrupts further apart than they take;    *)
(*   "one_cpu"   locks, one CPU that also reads disks and starts programs; *)
(*   "two_cpus"  locks, two CPUs that take locks with interrupts off only; *)
(*   "any_code"  locks, two CPUs, and one of them runs every kind of code  *)
(*               that can be interrupted while it holds a lock.            *)
(***************************************************************************)
EXTENDS KernelLocks

CONSTANTS block, rng

VARIABLES part,
          plan, iflag, lapic, irr, isr, frame, need, table, lock, next, vec,
          dest, ticking, bootstrapped, panic

vectorVars == <<plan, iflag, lapic, irr, isr, frame, need, table, lock, next, vec,
                dest, ticking, bootstrapped, panic>>
allVars == <<part, vectorVars, vars>>

V == INSTANCE Interrupts
       WITH BSP <- 0, IoapicId <- 0, Device <- {block, rng}, CPUTick <- 48,
            Spurious <- 53, Comparators <- 3, Paced <- FALSE
P == INSTANCE Interrupts
       WITH BSP <- 0, IoapicId <- 0, Device <- {block}, CPUTick <- 48,
            Spurious <- 53, Comparators <- 3, Paced <- TRUE

\* "any_code" is KernelLocks with these constants: the interrupts go to CPU 0,
\* and CPU 1 competes for the locks that its handlers and tasks need.
AnyCode ==
  [c \in CPU |->
     IF c = 0 THEN {"response", "ls_tasks", "lock_wait", "unlock", "kill_task", "sleep", "schedule"}
     ELSE {"new_task", "request", "lock"}]
ToCpu0 == {0} \X {"tick", "broadcast", "written", "key"}
OneEach == [c \in CPU |-> 1]

Two == INSTANCE KernelLocks
         WITH TaskCode <- [c \in CPU |->
                             IF c = 0 THEN {"alloc", "new_task", "schedule", "request", "drop_task"}
                             ELSE {"new_task", "schedule", "request"}],
              Interrupts <- (CPU \X {"tick"}) \cup ({0} \X {"broadcast", "written"}),
              MaxPrograms <- OneEach, MaxRaised <- 1

One == INSTANCE KernelLocks
         WITH TaskCode <- [c \in CPU |-> {"alloc", "new_task", "schedule", "request", "drop_task",
                                          "response", "exec"}],
              Interrupts <- {0} \X {"tick", "broadcast", "read"},
              MaxPrograms <- [c \in CPU |-> IF c = 0 THEN 2 ELSE 0], MaxRaised <- 3

MCInit ==
  /\ Init
  /\ \/ part = "vectors" /\ V!Init
     \/ part = "paced" /\ P!Init
     \/ part \in {"one_cpu", "two_cpus", "any_code"} /\ P!Init /\ lapic = [c \in CPU |-> FALSE]

Vectors == part = "vectors" /\ V!Next /\ UNCHANGED <<part, vars>>
PacedVectors == part = "paced" /\ P!Next /\ UNCHANGED <<part, vars>>
OneCpu == part = "one_cpu" /\ One!Next /\ UNCHANGED <<part, vectorVars>>
TwoCpus == part = "two_cpus" /\ Two!Next /\ UNCHANGED <<part, vectorVars>>
AnyCodeRuns == part = "any_code" /\ Next /\ UNCHANGED <<part, vectorVars>>

\* Every CPU executes and takes pending interrupts while they are on, and the
\* HPET is periodic.
Fairness(c) ==
  /\ WF_vectorVars(part = "paced" /\ P!SetUp(c))
  /\ WF_vectorVars(part = "paced" /\ P!Interrupted(c))
  /\ WF_vars(part = "one_cpu" /\ One!Move(c))
  /\ WF_vars(part = "one_cpu" /\ One!Deliver(c))
  /\ WF_vars(part = "two_cpus" /\ Two!Move(c))
  /\ WF_vars(part = "two_cpus" /\ Two!Deliver(c))

MCSpec ==
  /\ MCInit /\ [][Vectors \/ PacedVectors \/ OneCpu \/ TwoCpus \/ AnyCodeRuns]_allVars
  /\ WF_vectorVars(part = "paced" /\ P!Raise("hpet"))
  /\ \A c \in CPU : Fairness(c)

-----------------------------------------------------------------------------
(* interrupts.rs, ioapic.rs, hpet.rs, tick.rs: whatever is requested of a  *)
(* CPU during set-up can be handled there, and a request is served, unless *)
(* it arrives while its CPU stores a handler.                              *)
RequestedVectorsHandled == part = "vectors" => V!RequestedVectorsHandled
RequestsServed == part = "paced" => P!RequestsServed

(* Every program and every interrupt comes to its end where no code that   *)
(* a handler interrupts holds a lock the handler waits for.                *)
ProgramsEnd == part # "any_code" => AllGetThrough
=============================================================================
