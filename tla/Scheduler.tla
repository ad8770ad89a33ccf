----------------------------- MODULE Scheduler -----------------------------
(***************************************************************************)
(* The kernel scheduler: kernel/src/sched/schedcore.rs, with the pieces of *)
(* task.rs, preempt.rs, spin_lock.rs, tick.rs and interrupts.rs that it is *)
(* made of.                                                                *)
(*                                                                         *)
(* Every CPU executes on the stack of one thread.  A thread is a task or   *)
(* the idle task of a CPU; the idle task of CPU c is written c.  A stack   *)
(* holds at most two levels: kpc[t] is where the thread's own code stands, *)
(* irq[t] where the interrupt handler on top of it stands ("none" when     *)
(* there is none).  Both levels call run_scheduler, and a task may be      *)
(* switched away in either and resumed by another CPU.                     *)
(*                                                                         *)
(* Tasks run the most general client: a task that is not inside the        *)
(* scheduler may call any operation the scheduler exports, in any order.   *)
(* Modules for concrete clients extend this one and conjoin its actions    *)
(* with their own control state.                                           *)
(*                                                                         *)
(* One action is one critical section or one access to shared state.       *)
(* Accesses to TASKS are single steps: its lock is held, with interrupts   *)
(* off, for the one access.  The model stops at the first panic.  Locals   *)
(* (prevReady, saved, a freed stack) are reset once nothing reads them.    *)
(***************************************************************************)
EXTENDS Integers, Sequences, Functions

CONSTANTS
  CPU,         \* processors; c also names the idle task of c
  Task,        \* ids Tasks::new_task can hand out
  Shell,       \* the first task, created by lib.rs start
  SliceTicks,  \* DEFAULT_TIME_SLICE / TICK_MILLIS
  MaxGuards    \* bound on the preempt guards one task holds at a time

ASSUME SchedConstants ==
  /\ CPU \cap Task = {}
  /\ Shell \in Task
  /\ SliceTicks \in Nat \ {0}
  /\ MaxGuards \in Nat

Thread == CPU \cup Task

VARIABLES
  desired,    \* Task::desired_state; Unborn and Deleted are not in TASKS
  slice,      \* Task::remaining_slice, in ticks
  pending,    \* RunQueue::pending_tasks
  skipped,    \* the deque the reap and pop loops build before storing it back
  rqLocked,   \* the lock word of RUN_QUEUE
  current,    \* CURRENT_TASK_ID of every CPU
  run,        \* the thread whose stack the CPU executes on
  prevReady,  \* task_swap_parameters: prev_task_state == ReadyToRun
  needs,      \* NEEDS_RESCHEDULE of every CPU
  preempt,    \* PREEMPT_COUNT of every CPU
  ints,       \* the CPU's interrupt flag
  kpc,        \* where the thread's own code stands
  irq,        \* where the interrupt handler on its stack stands
  saved,      \* needs_enabling of the thread's own RUN_QUEUE guard
  guards,     \* preempt guards of other spin locks the thread holds
  child,      \* the task new_task created and has not queued yet, as a set
  panic       \* TRUE after get_task_assert found no task

vars == <<desired, slice, pending, skipped, rqLocked, current, run, prevReady,
          needs, preempt, ints, kpc, irq, saved, guards, child, panic>>

\* The variables by who changes them, for UNCHANGED.
queueVars == <<pending, skipped, rqLocked, current, run, prevReady>>
flagVars  == <<needs, preempt, ints>>
stackVars == <<kpc, irq, saved, guards, child>>

InTasks(t) == desired[t] \in {"ReadyToRun", "Sleeping", "Killed"}

\* Where the innermost level of every thread's stack stands.
top == [t \in Thread |-> IF irq[t] = "none" THEN kpc[t] ELSE irq[t]]

Goto(t, l) ==
  IF irq[t] = "none"
    THEN kpc' = [kpc EXCEPT ![t] = l] /\ UNCHANGED irq
    ELSE irq' = [irq EXCEPT ![t] = l] /\ UNCHANGED kpc

\* The CPU executes code outside the scheduler and outside any handler.
InClient(c) == top[run[c]] = "run" /\ irq[run[c]] = "none"

TaskInClient(c) == InClient(c) /\ run[c] \in Task

-----------------------------------------------------------------------------
(* run_scheduler *)

\* check_current_task_needs_preemption, given the state and slice it loads.
NeedsPreemption(c, state, ticks) ==
  /\ preempt[c] = 0
  /\ current[c] = c \/ state # "ReadyToRun" \/ ticks = 0

\* A call of run_scheduler up to the decision to take the run queue.
RunScheduler(c) ==
  /\ InClient(c)
  /\ needs' = [needs EXCEPT ![c] = FALSE]
  /\ kpc' = [kpc EXCEPT ![run[c]] =
       IF NeedsPreemption(c, desired[current[c]], slice[current[c]])
         THEN "rs_guard" ELSE "run"]
  /\ UNCHANGED <<desired, slice, queueVars, preempt, ints, irq, saved, guards,
                 child, panic>>

\* lock_disable_interrupts: the preempt guard comes first ...
RunQueueGuard(c) ==
  /\ top[run[c]] = "rs_guard"
  /\ preempt' = [preempt EXCEPT ![c] = @ + 1]
  /\ Goto(run[c], "rs_cli")
  /\ UNCHANGED <<desired, slice, queueVars, needs, ints, saved, guards, child,
                 panic>>

\* ... then the interrupt flag is saved and cleared ...
RunQueueCli(c) ==
  /\ top[run[c]] = "rs_cli"
  /\ saved' = [saved EXCEPT ![run[c]] = ints[c]]
  /\ ints' = [ints EXCEPT ![c] = FALSE]
  /\ Goto(run[c], "lock")
  /\ UNCHANGED <<desired, slice, queueVars, needs, preempt, guards, child,
                 panic>>

\* ... and the spin loop ends.
RunQueueLock(c) ==
  /\ top[run[c]] = "lock"
  /\ ~rqLocked
  /\ rqLocked' = TRUE
  /\ Goto(run[c], "reap")
  /\ UNCHANGED <<desired, slice, pending, skipped, current, run, prevReady,
                 flagVars, saved, guards, child, panic>>

\* remove_killed_pending_tasks: one iteration that deletes a killed task and
\* frees its stack.
ReapKilled(c) ==
  /\ top[run[c]] = "reap"
  /\ pending # <<>>
  /\ desired[Head(pending)] = "Killed"
  /\ desired' = [desired EXCEPT ![Head(pending)] = "Deleted"]
  /\ pending' = Tail(pending)
  /\ slice' = [slice EXCEPT ![Head(pending)] = 0]
  /\ kpc' = [kpc EXCEPT ![Head(pending)] = "start"]
  /\ irq' = [irq EXCEPT ![Head(pending)] = "none"]
  /\ saved' = [saved EXCEPT ![Head(pending)] = FALSE]
  /\ UNCHANGED <<skipped, rqLocked, current, run, prevReady, flagVars, guards,
                 child, panic>>

\* remove_killed_pending_tasks: one iteration that keeps the task.
ReapKeep(c) ==
  /\ top[run[c]] = "reap"
  /\ pending # <<>>
  /\ desired[Head(pending)] # "Killed"
  /\ pending' = Tail(pending)
  /\ skipped' = Append(skipped, Head(pending))
  /\ UNCHANGED <<desired, slice, rqLocked, current, run, prevReady, flagVars,
                 stackVars, panic>>

\* The loop ends and task_swap_parameters loads the state of prev_task.
ReapDone(c) ==
  /\ top[run[c]] = "reap"
  /\ pending = <<>>
  /\ pending' = skipped
  /\ skipped' = <<>>
  /\ prevReady' = [prevReady EXCEPT ![c] = desired[current[c]] = "ReadyToRun"]
  /\ Goto(run[c], "pop")
  /\ UNCHANGED <<desired, slice, rqLocked, current, run, flagVars, saved,
                 guards, child, panic>>

\* Mutant of PopSkip: the task goes back to the queue being scanned.
PopRescan(c) ==
  /\ top[run[c]] = "pop"
  /\ pending # <<>>
  /\ desired[Head(pending)] # "ReadyToRun"
  /\ pending' = Append(Tail(pending), Head(pending))
  /\ UNCHANGED skipped
  /\ UNCHANGED <<desired, slice, rqLocked, current, run, prevReady, flagVars,
                 stackVars, panic>>

\* pop_next_ready_pending_task: one iteration over a task that is not ready.
PopSkip(c) ==
  /\ top[run[c]] = "pop"
  /\ pending # <<>>
  /\ desired[Head(pending)] # "ReadyToRun"
  /\ pending' = Tail(pending)
  /\ skipped' = Append(skipped, Head(pending))
  /\ UNCHANGED <<desired, slice, rqLocked, current, run, prevReady, flagVars,
                 stackVars, panic>>

\* Mutant of SwapTo: only a task that is ready is queued again.
SwapKeepsReady(c, next, queue) ==
  /\ current' = [current EXCEPT ![c] = next]
  /\ pending' = IF current[c] = c \/ ~prevReady[c] THEN queue
                                             ELSE Append(queue, current[c])
  /\ skipped' = <<>>
  /\ slice' = [slice EXCEPT ![next] = SliceTicks]
  /\ prevReady' = [prevReady EXCEPT ![c] = FALSE]
  /\ Goto(run[c], IF next = current[c] THEN "unlock" ELSE "switch")
  /\ UNCHANGED <<desired, rqLocked, run, flagVars, saved, guards, child, panic>>

\* The rest of task_swap_parameters once the next thread is known and queue
\* is what pop_next_ready_pending_task left: the previous task goes to the
\* back unless it is the idle task.
SwapTo(c, next, queue) ==
  /\ current' = [current EXCEPT ![c] = next]
  /\ pending' = IF current[c] = c THEN queue ELSE Append(queue, current[c])
  /\ skipped' = <<>>
  /\ slice' = [slice EXCEPT ![next] = SliceTicks]
  /\ prevReady' = [prevReady EXCEPT ![c] = FALSE]
  /\ Goto(run[c], IF next = current[c] THEN "unlock" ELSE "switch")
  /\ UNCHANGED <<desired, rqLocked, run, flagVars, saved, guards, child, panic>>

\* A ready task is popped; the tasks skipped before it move to the back.
PopReady(c) ==
  /\ top[run[c]] = "pop"
  /\ pending # <<>>
  /\ desired[Head(pending)] = "ReadyToRun"
  /\ SwapTo(c, Head(pending), Tail(pending) \o skipped)

\* Nothing is ready and the current thread may go on.
PopNoneStay(c) ==
  /\ top[run[c]] = "pop"
  /\ pending = <<>>
  /\ current[c] = c \/ prevReady[c]
  /\ pending' = skipped
  /\ skipped' = <<>>
  /\ prevReady' = [prevReady EXCEPT ![c] = FALSE]
  /\ Goto(run[c], "unlock")
  /\ UNCHANGED <<desired, slice, rqLocked, current, run, flagVars, saved,
                 guards, child, panic>>

\* Nothing is ready and the current task wants to stop: run the idle task.
PopNoneIdle(c) ==
  /\ top[run[c]] = "pop"
  /\ pending = <<>>
  /\ ~(current[c] = c \/ prevReady[c])
  /\ SwapTo(c, c, skipped)

\* switch_to_task, with the run queue still locked.
SwitchToTask(c) ==
  /\ top[run[c]] = "switch"
  /\ run' = [run EXCEPT ![c] = current[c]]
  /\ Goto(run[c], "unlock")
  /\ UNCHANGED <<desired, slice, pending, skipped, rqLocked, current,
                 prevReady, flagVars, saved, guards, child, panic>>

\* The RUN_QUEUE guard of a run_scheduler the thread called itself is
\* dropped: unlock, then restore the interrupt flag.
UnlockTask(c) ==
  /\ top[run[c]] = "unlock"
  /\ irq[run[c]] = "none"
  /\ rqLocked' = FALSE
  /\ ints' = [ints EXCEPT ![c] = saved[run[c]]]
  /\ saved' = [saved EXCEPT ![run[c]] = FALSE]
  /\ kpc' = [kpc EXCEPT ![run[c]] = "rs_dec"]
  /\ UNCHANGED <<desired, slice, pending, skipped, current, run, prevReady,
                 needs, preempt, irq, guards, child, panic>>

\* Its preempt guard is the last part to go.
DropPreempt(c) ==
  /\ top[run[c]] = "rs_dec"
  /\ preempt' = [preempt EXCEPT ![c] = @ - 1]
  /\ Goto(run[c], "run")
  /\ UNCHANGED <<desired, slice, queueVars, needs, ints, saved, guards, child,
                 panic>>

\* The same guard in a handler, where interrupts stay off until iretq.
UnlockIrq(c) ==
  /\ top[run[c]] = "unlock"
  /\ irq[run[c]] # "none"
  /\ rqLocked' = FALSE
  /\ preempt' = [preempt EXCEPT ![c] = @ - 1]
  /\ irq' = [irq EXCEPT ![run[c]] = "none"]
  /\ ints' = [ints EXCEPT ![c] = TRUE]
  /\ UNCHANGED <<desired, slice, pending, skipped, current, run, prevReady,
                 needs, kpc, saved, guards, child, panic>>

-----------------------------------------------------------------------------
(* Starting threads *)

\* Mutant of ForceUnlockScheduler: a new task does not release RUN_QUEUE.
StartLocked(c) ==
  /\ top[run[c]] = "start"
  /\ UNCHANGED rqLocked
  /\ ints' = [ints EXCEPT ![c] = TRUE]
  /\ Goto(run[c], "setup")
  /\ UNCHANGED <<desired, slice, pending, skipped, current, run, prevReady,
                 needs, preempt, saved, guards, child, panic>>

\* task_setup calls force_unlock_scheduler: unlock, enable interrupts ...
ForceUnlockScheduler(c) ==
  /\ top[run[c]] = "start"
  /\ rqLocked' = FALSE
  /\ ints' = [ints EXCEPT ![c] = TRUE]
  /\ Goto(run[c], "setup")
  /\ UNCHANGED <<desired, slice, pending, skipped, current, run, prevReady,
                 needs, preempt, saved, guards, child, panic>>

\* Mutant of SetPreemptCount: a new task keeps the count it inherits.
KeepPreemptCount(c) ==
  /\ top[run[c]] = "setup"
  /\ UNCHANGED preempt
  /\ Goto(run[c], "run")
  /\ UNCHANGED <<desired, slice, queueVars, needs, ints, saved, guards, child,
                 panic>>

\* ... and set_preempt_count(0); then the task's function runs.
SetPreemptCount(c) ==
  /\ top[run[c]] = "setup"
  /\ preempt' = [preempt EXCEPT ![c] = 0]
  /\ Goto(run[c], "run")
  /\ UNCHANGED <<desired, slice, queueVars, needs, ints, saved, guards, child,
                 panic>>

\* idle_task_start: no reschedule is asked for, so hlt.
IdleHalt(c) ==
  /\ InClient(c)
  /\ run[c] = c
  /\ ~needs[c]
  /\ kpc' = [kpc EXCEPT ![c] = "hlt"]
  /\ UNCHANGED <<desired, slice, queueVars, flagVars, irq, saved, guards,
                 child, panic>>

-----------------------------------------------------------------------------
(* Interrupts *)

\* awaken_task for every task of S that is still in TASKS.
Woken(S) ==
  [t \in Thread |-> IF t \in S /\ InTasks(t) THEN "ReadyToRun" ELSE desired[t]]

\* scheduler_tick: the slice saturates at 0.
Charged(ticks) == IF ticks > 0 THEN ticks - 1 ELSE 0

\* common_external_interrupt_handler on CPU c.  The handler awakens the tasks
\* in woken (timers, device completions), and a CPU tick runs scheduler_tick.
\* Then run_scheduler_if_needed runs up to the decision to take the run
\* queue.  A halted CPU resumes after hlt.
Interrupt(c, woken, tick) ==
  LET t == current[c]
      left == IF tick THEN Charged(slice[t]) ELSE slice[t]
      resched == \/ needs[c]
                 \/ \E u \in woken : desired[u] # "ReadyToRun"
                 \/ tick /\ left = 0
      preempted == resched /\ NeedsPreemption(c, Woken(woken)[t], left)
  IN
  /\ ints[c]
  /\ \A u \in woken : desired[u] # "Unborn"
  /\ panic' = \E u \in woken : ~InTasks(u)
  /\ desired' = Woken(woken)
  /\ slice' = [slice EXCEPT ![t] = left]
  /\ needs' = [needs EXCEPT ![c] = FALSE]
  /\ kpc' = [kpc EXCEPT ![run[c]] = IF @ = "hlt" THEN "run" ELSE @]
  /\ irq' = [irq EXCEPT ![run[c]] = IF preempted THEN "lock" ELSE "none"]
  /\ preempt' = [preempt EXCEPT ![c] = IF preempted THEN @ + 1 ELSE @]
  /\ ints' = [ints EXCEPT ![c] = ~preempted]
  /\ UNCHANGED <<queueVars, saved, guards, child>>

-----------------------------------------------------------------------------
(* What a task may call *)

\* Mutant of PrepareToSleep: NEEDS_RESCHEDULE as one flag for all CPUs.
PrepareToSleepGlobal(c) ==
  /\ TaskInClient(c)
  /\ needs' = [d \in CPU |-> TRUE]
  /\ kpc' = [kpc EXCEPT ![run[c]] = "sleep"]
  /\ UNCHANGED <<desired, slice, queueVars, preempt, ints, irq, saved, guards,
                 child, panic>>

\* prepare_to_sleep: ask for a reschedule ...
PrepareToSleep(c) ==
  /\ TaskInClient(c)
  /\ needs' = [needs EXCEPT ![c] = TRUE]
  /\ kpc' = [kpc EXCEPT ![run[c]] = "sleep"]
  /\ UNCHANGED <<desired, slice, queueVars, preempt, ints, irq, saved, guards,
                 child, panic>>

\* ... and swap desired_state.
SwapSleeping(c) ==
  /\ top[run[c]] = "sleep"
  /\ desired' = [desired EXCEPT ![run[c]] = "Sleeping"]
  /\ Goto(run[c], "run")
  /\ UNCHANGED <<slice, queueVars, flagVars, saved, guards, child, panic>>

\* Mutant of SwapKilled: the task deletes itself on the spot.
DeleteAtOnce(c) ==
  /\ TaskInClient(c)
  /\ desired' = [desired EXCEPT ![run[c]] = "Deleted"]
  /\ UNCHANGED <<slice, queueVars, flagVars, stackVars, panic>>

\* kill_current_task up to the swap of desired_state.
SwapKilled(c) ==
  /\ TaskInClient(c)
  /\ desired' = [desired EXCEPT ![run[c]] = "Killed"]
  /\ UNCHANGED <<slice, queueVars, flagVars, stackVars, panic>>

\* awaken_task: panics when the task has left TASKS, else swaps its state ...
AwakenTask(c, u) ==
  /\ TaskInClient(c)
  /\ desired[u] # "Unborn"
  /\ panic' = ~InTasks(u)
  /\ desired' = Woken({u})
  /\ kpc' = [kpc EXCEPT ![run[c]] =
       IF desired[u] = "ReadyToRun" THEN "run" ELSE "awaken"]
  /\ UNCHANGED <<slice, queueVars, flagVars, irq, saved, guards, child>>

\* ... and asks for a reschedule, on the CPU it runs on by now.
AwakenNeeds(c) ==
  /\ top[run[c]] = "awaken"
  /\ needs' = [needs EXCEPT ![c] = TRUE]
  /\ Goto(run[c], "run")
  /\ UNCHANGED <<desired, slice, queueVars, preempt, ints, saved, guards,
                 child, panic>>

\* new_task, first lock: Tasks::new_task and Task::new.
NewTask(c, u) ==
  /\ TaskInClient(c)
  /\ desired[u] = "Unborn"
  /\ desired' = [desired EXCEPT ![u] = "ReadyToRun"]
  /\ child' = [child EXCEPT ![run[c]] = {u}]
  /\ kpc' = [kpc EXCEPT ![run[c]] = "new_push"]
  /\ UNCHANGED <<slice, queueVars, flagVars, irq, saved, guards, panic>>

\* new_task, second lock: push_back on the run queue.
PushNewTask(c) ==
  /\ top[run[c]] = "new_push"
  /\ ~rqLocked
  /\ \E u \in child[run[c]] : pending' = Append(pending, u)
  /\ child' = [child EXCEPT ![run[c]] = {}]
  /\ Goto(run[c], "run")
  /\ UNCHANGED <<desired, slice, skipped, rqLocked, current, run, prevReady,
                 flagVars, saved, guards, panic>>

\* SpinLock::lock: PreemptGuard::new, then the lock itself.
SpinGuard(c) ==
  /\ TaskInClient(c)
  /\ guards[run[c]] < MaxGuards
  /\ guards' = [guards EXCEPT ![run[c]] = @ + 1]
  /\ preempt' = [preempt EXCEPT ![c] = @ + 1]
  /\ UNCHANGED <<desired, slice, queueVars, needs, ints, kpc, irq, saved,
                 child, panic>>

\* The guard is dropped.
SpinGuardDrop(c) ==
  /\ TaskInClient(c)
  /\ guards[run[c]] > 0
  /\ guards' = [guards EXCEPT ![run[c]] = @ - 1]
  /\ preempt' = [preempt EXCEPT ![c] = @ - 1]
  /\ UNCHANGED <<desired, slice, queueVars, needs, ints, kpc, irq, saved,
                 child, panic>>

\* The interrupt flag changes: syscall entry and exit, and the guards of
\* lock_disable_interrupts on other locks.
SetInterrupts(c) ==
  /\ TaskInClient(c)
  /\ ints' = [ints EXCEPT ![c] = ~@]
  /\ UNCHANGED <<desired, slice, queueVars, needs, preempt, stackVars, panic>>

-----------------------------------------------------------------------------
(* Specification *)

\* What the scheduler does on its own: everything but the tasks' calls.
KernelStep(c) ==
  \/ RunQueueGuard(c)
  \/ RunQueueCli(c)
  \/ RunQueueLock(c)
  \/ ReapKilled(c)
  \/ ReapKeep(c)
  \/ ReapDone(c)
  \/ PopSkip(c)
  \/ PopReady(c)
  \/ PopNoneStay(c)
  \/ PopNoneIdle(c)
  \/ SwitchToTask(c)
  \/ UnlockTask(c)
  \/ DropPreempt(c)
  \/ UnlockIrq(c)
  \/ ForceUnlockScheduler(c)
  \/ SetPreemptCount(c)
  \/ IdleHalt(c)
  \/ SwapSleeping(c)
  \/ AwakenNeeds(c)
  \/ PushNewTask(c)

ClientStep(c) ==
  \/ (run[c] \in Task \/ needs[c]) /\ RunScheduler(c)
  \/ PrepareToSleep(c)
  \/ SwapKilled(c)
  \/ SpinGuard(c)
  \/ SpinGuardDrop(c)
  \/ SetInterrupts(c)
  \/ \E u \in Task : AwakenTask(c, u) \/ NewTask(c, u)

\* panic_handler: the CPU halts for good.  Nothing is modelled after that.
Halted ==
  /\ panic
  /\ UNCHANGED vars

Next ==
  \/ /\ ~panic
     /\ \E c \in CPU :
          \/ KernelStep(c)
          \/ ClientStep(c)
          \/ \E woken \in SUBSET Task, tick \in BOOLEAN :
               Interrupt(c, woken, tick)
  \/ Halted

\* All CPUs are in their idle loop and the shell waits to be run.
Init ==
  /\ desired = [t \in Thread |-> IF t \in CPU \cup {Shell} THEN "ReadyToRun"
                                                           ELSE "Unborn"]
  /\ slice = [t \in Thread |-> 0]
  /\ pending = <<Shell>>
  /\ skipped = <<>>
  /\ rqLocked = FALSE
  /\ current = [c \in CPU |-> c]
  /\ run = [c \in CPU |-> c]
  /\ prevReady = [c \in CPU |-> FALSE]
  /\ needs = [c \in CPU |-> FALSE]
  /\ preempt = [c \in CPU |-> 0]
  /\ ints = [c \in CPU |-> TRUE]
  /\ kpc = [t \in Thread |-> IF t \in CPU THEN "run" ELSE "start"]
  /\ irq = [t \in Thread |-> "none"]
  /\ saved = [t \in Thread |-> FALSE]
  /\ guards = [t \in Thread |-> 0]
  /\ child = [t \in Thread |-> {}]
  /\ panic = FALSE

Spec == Init /\ [][Next]_vars

\* A CPU that executes scheduler code keeps executing it.
FairSpec == Spec /\ \A c \in CPU : WF_vars(~panic /\ KernelStep(c))

-----------------------------------------------------------------------------
(* Properties *)

States == {"Unborn", "ReadyToRun", "Sleeping", "Killed", "Deleted"}

KernelLocs == {"start", "setup", "run", "hlt", "sleep", "awaken", "new_push",
               "rs_guard", "rs_cli", "lock", "reap", "pop", "switch",
               "unlock", "rs_dec"}

IrqLocs == {"none", "lock", "reap", "pop", "switch", "unlock"}

\* The type invariant: in particular saturating_sub in scheduler_tick keeps
\* remaining_slice between 0 and DEFAULT_TIME_SLICE.
TypeOK ==
  /\ desired \in [Thread -> States]
  /\ slice \in [Thread -> 0..SliceTicks]
  /\ pending \in Seq(Task)
  /\ skipped \in Seq(Task)
  /\ rqLocked \in BOOLEAN
  /\ current \in [CPU -> Thread]
  /\ run \in [CPU -> Thread]
  /\ prevReady \in [CPU -> BOOLEAN]
  /\ needs \in [CPU -> BOOLEAN]
  /\ preempt \in [CPU -> Nat]
  /\ ints \in [CPU -> BOOLEAN]
  /\ kpc \in [Thread -> KernelLocs]
  /\ irq \in [Thread -> IrqLocs]
  /\ saved \in [Thread -> BOOLEAN]
  /\ guards \in [Thread -> 0..MaxGuards]
  /\ child \in [Thread -> SUBSET Task]
  /\ panic \in BOOLEAN

\* The code at these places runs under the lock of RUN_QUEUE: taken by the
\* thread itself, or, for a new thread, by the thread that switched to it.
LockedLocs == {"reap", "pop", "switch", "unlock", "start"}

HoldsRunQueue(c) == top[run[c]] \in LockedLocs

\* The lock is handed over by switch_to_task and released by whoever runs
\* next (the resumed run_scheduler or force_unlock_scheduler): at all times
\* it is held exactly when some CPU is in a critical section, and never two.
RunQueueExclusion ==
  /\ rqLocked <=> \E c \in CPU : HoldsRunQueue(c)
  /\ \A c, d \in CPU : HoldsRunQueue(c) /\ HoldsRunQueue(d) => c = d

\* Two CPUs never execute on the same stack, no CPU executes on the stack of
\* a task that delete_task freed, and CURRENT_TASK_ID agrees with the stack
\* except just before switch_to_task.
StacksSafe ==
  \A c \in CPU :
    /\ InTasks(run[c]) /\ InTasks(current[c])
    /\ top[run[c]] # "switch" => current[c] = run[c]
    /\ \A d \in CPU : run[c] = run[d] \/ current[c] = current[d] => c = d

Queued == Range(pending) \cup Range(skipped)

\* RunQueue::pending_tasks holds "all tasks that are not running, except for
\* the idle tasks" (schedcore.rs:33): a task in TASKS is current on a CPU, or
\* new and not pushed yet, or queued, and it is queued at most once.  No task
\* is lost, and none is handed to two CPUs.
QueueComplete ==
  /\ \A t \in Task :
       /\ InTasks(t) <=> \/ t \in Range(current)
                         \/ t \in Queued
                         \/ t \in UNION Range(child)
       /\ t \in Queued => t \notin Range(current)
       /\ t \in UNION Range(child) => t \notin Range(current) \cup Queued
  /\ Range(pending) \cap Range(skipped) = {}
  /\ IsInjective(pending)
  /\ IsInjective(skipped)

\* Where the thread's RUN_QUEUE guard, or the one it inherited, counts.
CountedLocs == LockedLocs \cup {"rs_cli", "lock", "rs_dec", "setup"}

\* PREEMPT_COUNT is per CPU while guards live on stacks that migrate: the
\* count of a CPU is always the number of guards on the stack it executes,
\* and a thread that is not executing holds none ("the scheduler will not
\* switch off the current task", preempt.rs:7).
PreemptBalanced ==
  /\ \A c \in CPU : preempt[c] = guards[run[c]] +
                     (IF top[run[c]] \in CountedLocs THEN 1 ELSE 0)
  /\ \A t \in Thread : (\A c \in CPU : run[c] # t) => guards[t] = 0

\* From before the spin on RUN_QUEUE until after its release no interrupt
\* can arrive, so no handler spins on the lock its own CPU holds ("or else we
\* could get an interrupt + a deadlock", schedcore.rs:26).
NoInterruptUnderLock ==
  \A c \in CPU : top[run[c]] \in LockedLocs \cup {"lock"} => ~ints[c]

\* Whoever takes RUN_QUEUE releases it: the loops over the queue end, and the
\* switch leads to code that unlocks.
RunQueueReleased == rqLocked ~> ~rqLocked \/ panic

\* The idle task runs on its own CPU only, and never reaches hlt with a
\* reschedule request pending: every path that switches to it has consumed
\* NEEDS_RESCHEDULE.
IdleOwnCpu ==
  \A c \in CPU : run[c] \in CPU => run[c] = c /\ ~needs[c]

ClientLocs == {"run", "sleep", "awaken", "new_push"}

\* A handler that reached the scheduler interrupted code without guards, and
\* guards of other locks are held in a task's own code only.
FrameShape ==
  \A t \in Thread :
    /\ irq[t] # "none" => kpc[t] \notin CountedLocs \cup {"hlt"}
    /\ guards[t] > 0 => irq[t] = "none" /\ kpc[t] \in ClientLocs

\* A thread no CPU executes is new or stands right after switch_to_task.
OffCpuShape ==
  \A t \in Thread :
    (\A c \in CPU : run[c] # t) => top[t] \in {"start", "unlock"}

\* new_task has at most one task in hand, and no two calls the same one.
ChildShape ==
  /\ \A t \in Thread :
       child[t] # {} => kpc[t] = "new_push" \/ desired[t] = "Deleted"
  /\ \A t, u \in Thread : \A v \in child[t], w \in child[u] : t = u <=> v = w

\* The idle tasks are always ready, hold no guards, call nothing but
\* run_scheduler and are current on their own CPU only.
IdleShape ==
  \A c \in CPU :
    /\ desired[c] = "ReadyToRun"
    /\ guards[c] = 0
    /\ kpc[c] \notin {"sleep", "awaken", "new_push"}
    /\ current[c] \in CPU => current[c] = c

\* switch_to_task is called for two different threads.
SwitchShape ==
  \A c \in CPU : top[run[c]] = "switch" => current[c] # run[c]

\* A reschedule request belongs to a task's own code.
NeedsShape ==
  \A c \in CPU : needs[c] => run[c] \in Task /\ top[run[c]] \in ClientLocs

\* The loops' second deque is empty outside the loops.
SkippedShape ==
  skipped # <<>> => \E c \in CPU : top[run[c]] \in {"reap", "pop"}

\* What the stacks and the working variables of run_scheduler look like
\* between any two steps; with the properties above it is inductive.
ThreadShape ==
  /\ FrameShape
  /\ OffCpuShape
  /\ ChildShape
  /\ IdleShape
  /\ SwitchShape
  /\ NeedsShape
  /\ SkippedShape

Abstract == INSTANCE TaskScheduling WITH
  desired <- [t \in Task |-> desired[t]],
  on <- Range(current) \cap Task

\* What run_scheduler, the handlers and the tasks' calls do to TASKS and to
\* CURRENT_TASK_ID is what TaskScheduling allows: only a ready task is put on
\* a CPU and only while it is on none, only a task on a CPU changes its own
\* state, and only a killed task that is on no CPU is deleted.
ImplementsTaskScheduling == Abstract!SchedSpec
=============================================================================
