---------------------------- MODULE KernelLocks -----------------------------
(***************************************************************************)
(* The spin locks of the kernel taken together: which code takes which     *)
(* locks in which order, with interrupts on or off, in tasks and in        *)
(* interrupt handlers, on several CPUs.                                    *)
(*                                                                         *)
(* The code that runs is a sequence of lock steps; what is done under a    *)
(* lock is left out, and a loop that takes the same locks again is one     *)
(* round of it.  A switch of tasks changes nothing here: it happens with a *)
(* preemption count of 0, when the task holds no spin lock.  Left out are  *)
(* locks that nobody competes for: that of a task's own page table, since  *)
(* a running task is never in the run queue, and those of the shell's line *)
(* and the screen, which one task uses.                                    *)
(***************************************************************************)
EXTENDS Integers, Sequences

CONSTANTS
  CPU,           \* CPUs
  TaskCode,      \* for each CPU, what tasks run there: names of Programs
  Interrupts,    \* pairs <<CPU, name of a handler>>: who gets which interrupt
  MaxPrograms,   \* bound: for each CPU, the programs started on it
  MaxRaised,     \* bound: interrupts raised in all
  Free           \* a lock that nobody holds

VARIABLES
  owner,     \* for each lock Free or [cpu, enable, off]: needs_enabling of the
             \* guard, and whether interrupts were off when it was taken
  ints,      \* the interrupt flag of each CPU
  preempt,   \* PREEMPT_COUNT of each CPU
  task,      \* what is left of the code of the task
  irq,       \* what is left of the code of the handler that interrupted it
  pending,   \* interrupts raised and not yet delivered
  started,
  raised

vars == <<owner, ints, preempt, task, irq, pending, started, raised>>

Lock == {"tasks", "runqueue", "stacks", "table", "physical", "heap", "device",
         "timers", "handlers", "logger",
         "waiting",    \* waiting_tasks of a Mutex
         "cell",       \* waiting_tasks of a WaitCell
         "keyboard"}

-----------------------------------------------------------------------------
(* The code.  Locked is lock(), LockedOff is lock_disable_interrupts().    *)
Locked(l, body) ==
  <<[op |-> "lock", lock |-> l]>> \o body \o <<[op |-> "unlock", lock |-> l]>>
LockedOff(l, body) ==
  <<[op |-> "lock_off", lock |-> l]>> \o body \o <<[op |-> "unlock", lock |-> l]>>

HeapWithInterrupts == Locked("heap", << >>)
HeapCall == LockedOff("heap", << >>)
Log == LockedOff("logger", << >>)
Physical == Locked("physical", << >>)
KernelTable == Locked("table", Physical)
CurrentTask == LockedOff("tasks", << >>)
AwakenTask == LockedOff("tasks", << >>)

(* The guard page is unmapped, the others are mapped; freed page by page.  *)
MapStack == KernelTable \o KernelTable
FreeStack == KernelTable
AllocateStack == LockedOff("stacks", MapStack)
DropStack == LockedOff("stacks", FreeStack)

(* new_task: the stack and the page table are made under the lock of TASKS. *)
NewTaskNested ==
  LockedOff("tasks", AllocateStack \o KernelTable \o HeapCall \o LockedOff("runqueue", HeapCall))
NewTask ==
  LockedOff("tasks", AllocateStack \o KernelTable \o HeapCall)
    \o LockedOff("runqueue", HeapCall)

(* task_swap_parameters under the lock of the run queue: a killed task is  *)
(* removed and its stack freed, the next task is found, the switch logged. *)
SwapTasks ==
  LockedOff("runqueue",
    CurrentTask \o LockedOff("tasks", HeapCall) \o DropStack
      \o CurrentTask \o LockedOff("tasks", << >>) \o Log)
RunScheduler == CurrentTask \o <<[op |-> "preempt?"]>>

AddRequest == LockedOff("device", Physical \o HeapCall)
SysfsTasks == Locked("tasks", HeapCall)
DropBuffer == Physical
SetUpSegments == CurrentTask \o Physical

(* Mutex::lock: the waiter is queued, then it has the mutex or it sleeps.  *)
QueueForMutex == CurrentTask \o LockedOff("waiting", HeapCall)
WakeTasks == Locked("waiting", AwakenTask)

(* WaitCell, for the end of a task.                                        *)
QueueForCell == CurrentTask \o CurrentTask \o LockedOff("cell", HeapCall)
KillCurrentTask ==
  CurrentTask \o Log \o LockedOff("cell", AwakenTask) \o RunScheduler

AddTimer == Locked("timers", HeapCall)

Programs ==
  [alloc     |-> HeapCall,
   new_task  |-> NewTask,
   schedule  |-> RunScheduler,
   request   |-> AddRequest,
   response  |-> DropBuffer,   \* a read response is dropped
   exec      |-> SetUpSegments,
   drop_task |-> DropStack,    \* the last reference to a finished task
   ls_tasks  |-> SysfsTasks,
   lock      |-> QueueForMutex \o AwakenTask,
   lock_wait |-> QueueForMutex \o RunScheduler,
   unlock    |-> WakeTasks,
   wait_task |-> QueueForCell \o RunScheduler,
   kill_task |-> KillCurrentTask,
   timer     |-> AddTimer,
   sleep     |-> CurrentTask \o AddTimer \o RunScheduler]

(* The locks that programs take by lock() while interrupts are on.         *)
TakenWithInterruptsOn ==
  [response |-> "physical", exec |-> "physical", ls_tasks |-> "tasks",
   unlock |-> "waiting", timer |-> "timers", sleep |-> "timers"]
InterruptibleLocks ==
  {TakenWithInterruptsOn[p] :
     p \in (UNION {TaskCode[c] : c \in CPU}) \cap DOMAIN TakenWithInterruptsOn}

TickBroadcast == Locked("timers", AwakenTask \o HeapCall)
SchedulerTick == CurrentTask
(* virtio_block_interrupt, for a read and for a write or an ID.            *)
ReadDone == LockedOff("device", AwakenTask \o HeapCall)
WriteDone == LockedOff("device", AwakenTask \o DropBuffer)

KeyPressed == Locked("keyboard", Log)

Handlers ==
  [broadcast |-> TickBroadcast, tick |-> SchedulerTick, read |-> ReadDone,
   written |-> WriteDone, key |-> KeyPressed]

(* common_external_interrupt_handler.                                      *)
CommonHandler(name) ==
  Locked("handlers", << >>) \o Handlers[name] \o <<[op |-> "resched?"], [op |-> "iret"]>>

-----------------------------------------------------------------------------
Code(c) == IF irq[c] # << >> THEN irq[c] ELSE task[c]
At(c, op) == Code(c) # << >> /\ Head(Code(c)).op = op
Step(c) == Head(Code(c))

(* The rest of the code of c, with some steps put before it.               *)
Continue(c, steps) ==
  IF irq[c] # << >>
  THEN irq' = [irq EXCEPT ![c] = steps \o Tail(@)] /\ UNCHANGED task
  ELSE task' = [task EXCEPT ![c] = steps \o Tail(@)] /\ UNCHANGED irq

(* lock() and lock_disable_interrupts() up to the loop that spins.         *)
Prepare(c) ==
  /\ At(c, "lock") \/ At(c, "lock_off")
  /\ preempt' = [preempt EXCEPT ![c] = @ + 1]
  /\ ints' = [ints EXCEPT ![c] = @ /\ At(c, "lock")]
  /\ Continue(c, <<[op |-> "spin", lock |-> Step(c).lock,
                    enable |-> ints[c] /\ At(c, "lock_off")]>>)
  /\ UNCHANGED <<owner, pending, started, raised>>

Acquire(c) ==
  /\ At(c, "spin") /\ owner[Step(c).lock] = Free
  /\ owner' = [owner EXCEPT ![Step(c).lock] =
                 [cpu |-> c, enable |-> Step(c).enable, off |-> ~ints[c]]]
  /\ Continue(c, << >>)
  /\ UNCHANGED <<ints, preempt, pending, started, raised>>

(* The fields of the guard are dropped in order: the lock, then the        *)
(* interrupts, then the preemption count.                                  *)
Unlock(c) ==
  /\ At(c, "unlock")
  /\ owner' = [owner EXCEPT ![Step(c).lock] = Free]
  /\ Continue(c, <<[op |-> "restore", enable |-> owner[Step(c).lock].enable]>>)
  /\ UNCHANGED <<ints, preempt, pending, started, raised>>

NeverEnabled(enable) == FALSE
Enabling(enable) == enable
Restore(c) ==
  /\ At(c, "restore")
  /\ ints' = [ints EXCEPT ![c] = @ \/ Enabling(Step(c).enable)]
  /\ preempt' = [preempt EXCEPT ![c] = @ - 1]
  /\ Continue(c, << >>)
  /\ UNCHANGED <<owner, pending, started, raised>>

(* check_current_task_needs_preemption: not under a lock, and not while    *)
(* the time slice lasts.                                                   *)
CheckPreemption(c) ==
  /\ At(c, "preempt?")
  /\ \E next \in IF preempt[c] > 0 THEN {Log} ELSE {<< >>, SwapTasks} : Continue(c, next)
  /\ UNCHANGED <<owner, ints, preempt, pending, started, raised>>

(* run_scheduler_if_needed.                                                *)
RunIfNeeded(c) ==
  /\ At(c, "resched?")
  /\ \E next \in {<< >>, RunScheduler} : Continue(c, next)
  /\ UNCHANGED <<owner, ints, preempt, pending, started, raised>>

Return(c) ==
  /\ At(c, "iret")
  /\ ints' = [ints EXCEPT ![c] = TRUE]
  /\ Continue(c, << >>)
  /\ UNCHANGED <<owner, preempt, pending, started, raised>>

Deliver(c) ==
  /\ ints[c] /\ irq[c] = << >>
  /\ \E i \in pending :
       /\ i[1] = c
       /\ irq' = [irq EXCEPT ![c] = CommonHandler(i[2])]
       /\ pending' = pending \ {i}
  /\ ints' = [ints EXCEPT ![c] = FALSE]
  /\ UNCHANGED <<owner, preempt, task, started, raised>>

Start(c) ==
  /\ Code(c) = << >> /\ started[c] < MaxPrograms[c]
  /\ \E p \in TaskCode[c] : task' = [task EXCEPT ![c] = Programs[p]]
  /\ started' = [started EXCEPT ![c] = @ + 1]
  /\ UNCHANGED <<owner, ints, preempt, irq, pending, raised>>

Raise ==
  /\ raised < MaxRaised
  /\ \E i \in Interrupts \ pending : pending' = pending \cup {i}
  /\ raised' = raised + 1
  /\ UNCHANGED <<owner, ints, preempt, task, irq, started>>

Init ==
  /\ owner = [l \in Lock |-> Free]
  /\ ints = [c \in CPU |-> TRUE] /\ preempt = [c \in CPU |-> 0]
  /\ task = [c \in CPU |-> << >>] /\ irq = [c \in CPU |-> << >>]
  /\ pending = {} /\ started = [c \in CPU |-> 0] /\ raised = 0

Move(c) ==
  \/ Prepare(c) \/ Acquire(c) \/ Unlock(c) \/ Restore(c)
  \/ CheckPreemption(c) \/ RunIfNeeded(c) \/ Return(c)

Next == Raise \/ \E c \in CPU : Move(c) \/ Deliver(c) \/ Start(c)

Spec == Init /\ [][Next]_vars

-----------------------------------------------------------------------------
WaitsFor(c) == IF At(c, "spin") THEN owner[Step(c).lock] ELSE Free

(* The orders in which all the locks are taken, by tasks and by handlers,  *)
(* fit together.  CPUs come to spin on locks that only they could release  *)
(* in one way alone: a handler runs on top of code that holds one of these *)
(* locks, taken by lock() while interrupts were on.                        *)
NoCircularWait ==
  \A cs \in (SUBSET CPU) \ {{}} :
    (\A c \in cs : WaitsFor(c) # Free /\ WaitsFor(c).cpu \in cs)
      => \E c \in cs : ~WaitsFor(c).off /\ irq[WaitsFor(c).cpu] # << >>

(* "Note: ordering is very important here!": a lock taken with interrupts  *)
(* off, by lock_disable_interrupts or under such a lock or in a handler,   *)
(* is given back before they come on, however guards nest.  No lock but    *)
(* those that the programs themselves take by lock() is ever held with     *)
(* interrupts on, so code that spins for one of the others with interrupts *)
(* off waits for a holder that cannot be interrupted.                      *)
HoldersCannotBeInterrupted ==
  \A l \in Lock : owner[l] # Free =>
    IF owner[l].off THEN ~ints[owner[l].cpu] ELSE l \in InterruptibleLocks

Quiet(c) == Code(c) = << >> /\ \A i \in pending : i[1] # c

(* Every program and every interrupt comes to its end: no CPU is left with *)
(* interrupts off, and nobody spins for ever.                              *)
AllGetThrough == \A c \in CPU : []<>Quiet(c)

-----------------------------------------------------------------------------
(* What comments say and the code does not do *)

(* README, on a spin lock that a handler tries to take while the code it   *)
(* interrupted holds it: CPUs never wait for one another in a circle.  A   *)
(* tick that finds a read response being dropped, a timer being added or   *)
(* sysfs being listed may spin for ever.                                   *)
NoWaitForEver ==
  \A cs \in (SUBSET CPU) \ {{}} :
    \E c \in cs : WaitsFor(c) = Free \/ WaitsFor(c).cpu \notin cs
=============================================================================
