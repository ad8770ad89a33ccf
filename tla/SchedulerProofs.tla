-------------------------- MODULE SchedulerProofs --------------------------
(***************************************************************************)
(* The idle loop, the calls by which tasks sleep, exit, wake and create    *)
(* each other, guards, interrupts and the initial state complete the       *)
(* argument: the inductive invariant holds in every state of every         *)
(* behaviour, and with it the scheduler's safety properties and the view   *)
(* of it that TaskScheduling gives, for any number of CPUs and tasks.      *)
(***************************************************************************)
EXTENDS SchedulerInvariant

-----------------------------------------------------------------------------
(* The idle loop.                                                          *)

\* hlt in the idle loop.
LEMMA IdleHaltInv ==
  ASSUME IInv, NEW c \in CPU, IdleHalt(c)
  PROVE  IInv'
<1> USE DEF IInv, ThreadShape, IdleHalt, InClient, TaskInClient, queueVars,
    flagVars, stackVars
<1>1. TypeOK /\ Typed /\ run[c] \in Thread /\ current[c] \in Thread
  BY ZenonT(60), TypedHolds DEF Typed
<1>2. Goto(run[c], "hlt")
  BY ZenonT(60) DEF Goto
<1>3. guards[run[c]] = 0
  BY ZenonT(60) DEF IdleShape
<1>4. Moves(c) /\ top'[run[c]] = "hlt"
  BY ZenonT(60), <1>2, GotoKeeps
<1>5. TypeOK'
  BY ZenonT(60) DEF TypeOK, KernelLocs
<1>6. /\ QueueComplete' /\ IdleOwnCpu'
  BY ZenonT(60), Kept, SameDesired DEF NoNewRequest
<1>7. /\ RunQueueExclusion' /\ StacksSafe' /\ PreemptBalanced'
      /\ NoInterruptUnderLock' /\ FrameShape' /\ OffCpuShape'
      /\ ChildShape' /\ IdleShape' /\ SwitchShape'
      /\ NeedsShape' /\ SkippedShape'
  BY ZenonT(60), <1>2, <1>3, <1>4, Moved, GotoKeeps, SameDesired
     DEF NoNewRequest,
         LockedLocs, CountedLocs
<1> QED BY ZenonT(60), <1>5, <1>6, <1>7

-----------------------------------------------------------------------------
(* Sleeping, exiting and waking a task.                                    *)

\* A task asks for a reschedule of its own CPU.
LEMMA PrepareToSleepInv ==
  ASSUME IInv, NEW c \in CPU, PrepareToSleep(c)
  PROVE  IInv'
<1> USE DEF IInv, ThreadShape, PrepareToSleep, InClient, TaskInClient,
    queueVars, flagVars, stackVars
<1>1. TypeOK /\ Typed /\ run[c] \in Thread /\ current[c] \in Thread
  BY ZenonT(60), TypedHolds DEF Typed
<1>2. run[c] \in Task /\ run[c] \notin CPU /\ kpc[run[c]] = "run"
  BY ZenonT(60), <1>1 DEF Typed, top
<1>3. Goto(run[c], "sleep")
  BY ZenonT(60) DEF Goto
<1>4. \A d \in CPU : needs'[d] <=> needs[d] \/ d = c
  BY ZenonT(60), <1>1 DEF Typed
<1>5. Moves(c) /\ top'[run[c]] = "sleep"
  BY ZenonT(60), <1>3, GotoKeeps
<1>6. TypeOK'
  BY ZenonT(60) DEF TypeOK, KernelLocs
<1>7. /\ QueueComplete'
  BY ZenonT(60), Kept, SameDesired
<1>8. /\ RunQueueExclusion' /\ StacksSafe' /\ PreemptBalanced'
      /\ NoInterruptUnderLock' /\ FrameShape' /\ OffCpuShape'
      /\ ChildShape' /\ SwitchShape' /\ SkippedShape'
  BY ZenonT(60), <1>3, <1>5, Moved, GotoKeeps, SameDesired DEF LockedLocs,
     CountedLocs,
         ClientLocs
<1>9. IdleOwnCpu'
  BY ZenonT(60), <1>2, <1>4 DEF IdleOwnCpu
<1>10. IdleShape'
  <2>1. /\ \A d \in CPU : kpc'[d] = kpc[d]
        /\ IdleShape /\ UNCHANGED <<guards, current>>
        /\ \A d \in CPU : desired'[d] = desired[d]
    BY ZenonT(60), <1>1, <1>2 DEF Typed
  <2> QED BY ONLY ZenonT(60), <2>1 DEF IdleShape
<1>11. NeedsShape'
  BY SMTT(30), SMTT(60), <1>5, Moved DEF ClientLocs
<1> QED BY ZenonT(60), <1>6, <1>7, <1>8, <1>9, <1>10, <1>11

\* A task that is going to sleep stays in TASKS.
LEMMA SwapSleepingInv ==
  ASSUME IInv, NEW c \in CPU, SwapSleeping(c)
  PROVE  IInv'
<1> USE DEF IInv, ThreadShape, SwapSleeping, InClient, TaskInClient, queueVars,
    flagVars, stackVars
<1>1. TypeOK /\ Typed /\ run[c] \in Thread /\ current[c] \in Thread
  BY ZenonT(60), TypedHolds DEF Typed
<1>2. irq[run[c]] = "none" /\ kpc[run[c]] = "sleep"
  BY ZenonT(60), <1>1 DEF Typed, top, IrqLocs
<1>3. run[c] \in Task /\ run[c] \notin CPU
  BY ZenonT(60), <1>1, <1>2 DEF Typed, IdleShape
<1>4. SameTasks /\ child[run[c]] = {}
  BY SMTT(30), SMTT(60), <1>2, NoChild DEF SameTasks, InTasks, StacksSafe
<1>5. /\ kpc' = [kpc EXCEPT ![run[c]] = "run"]
      /\ desired' = [desired EXCEPT ![run[c]] = "Sleeping"]
      /\ desired' \in [Thread -> States]
  BY ZenonT(60), <1>1, <1>2 DEF Goto, Typed, States
<1>6. Moves(c) /\ top'[run[c]] = "run"
  BY ZenonT(60), GotoKeeps
<1>7. TypeOK'
  <2>1. irq[run[c]] # "none" => "run" \in IrqLocs
    BY ZenonT(60), <1>1 DEF Typed, top, IrqLocs
  <2>2. kpc' \in [Thread -> KernelLocs] /\ irq' \in [Thread -> IrqLocs]
    BY ZenonT(60), <2>1, GotoKeeps DEF KernelLocs
  <2> QED BY ZenonT(60), <1>5, <2>2 DEF TypeOK
<1>8. /\ IdleOwnCpu'
  BY ZenonT(60), Kept DEF NoNewRequest
<1>9. /\ RunQueueExclusion' /\ PreemptBalanced' /\ NoInterruptUnderLock'
      /\ FrameShape' /\ OffCpuShape' /\ SwitchShape'
      /\ NeedsShape' /\ SkippedShape'
  BY ZenonT(60), <1>6, Moved, GotoKeeps DEF NoNewRequest, LockedLocs,
     CountedLocs,
         ClientLocs
<1>10. StacksSafe'
  BY ZenonT(60), <1>4, <1>6, Moved
<1>11. QueueComplete'
  BY ZenonT(60), <1>4, Kept
<1>12. ChildShape'
  BY SMTT(30), SMTT(60), <1>4, <1>5 DEF ChildShape
<1>13. IdleShape'
  BY SMTT(30), SMTT(60), <1>2, <1>5 DEF IdleShape
<1> QED BY ONLY ZenonT(60), <1>7, <1>8, <1>9, <1>10, <1>11, <1>12, <1>13

\* A task that is killed stays in TASKS until it is reaped.
LEMMA SwapKilledInv ==
  ASSUME IInv, NEW c \in CPU, SwapKilled(c)
  PROVE  IInv'
<1> USE DEF IInv, ThreadShape, SwapKilled, InClient, TaskInClient, queueVars,
    flagVars, stackVars
<1>1. TypeOK /\ Typed /\ run[c] \in Thread /\ current[c] \in Thread
  BY ZenonT(60), TypedHolds DEF Typed
<1>2. run[c] \in Task /\ run[c] \notin CPU /\ kpc[run[c]] = "run"
  BY ZenonT(60), <1>1 DEF Typed, top
<1>3. SameTasks /\ child[run[c]] = {}
  BY SMTT(30), SMTT(60), <1>2, NoChild DEF SameTasks, InTasks, StacksSafe
<1>4. /\ desired' = [desired EXCEPT ![run[c]] = "Killed"]
      /\ desired' \in [Thread -> States]
  BY ZenonT(60), <1>1 DEF Typed, States
<1>5. UNCHANGED top
  BY ZenonT(40), ZenonT(60) DEF top
<1>6. TypeOK'
  BY ZenonT(60), <1>4 DEF TypeOK
<1>7. /\ RunQueueExclusion' /\ PreemptBalanced' /\ NoInterruptUnderLock'
      /\ IdleOwnCpu' /\ FrameShape' /\ OffCpuShape'
      /\ SwitchShape' /\ NeedsShape' /\ SkippedShape'
  BY ZenonT(60), <1>5, Kept DEF NoNewRequest
<1>8. StacksSafe'
  BY ZenonT(60), <1>3, <1>5, Kept
<1>9. QueueComplete'
  BY ZenonT(60), <1>3, Kept
<1>10. ChildShape'
  BY SMTT(30), SMTT(60), <1>3 DEF ChildShape
<1>11. IdleShape'
  BY ZenonT(60), <1>1 DEF IdleShape, Typed
<1> QED BY ONLY ZenonT(60), <1>6, <1>7, <1>8, <1>9, <1>10, <1>11

\* awaken_task changes the state of a task that is still in TASKS.
LEMMA AwakenTaskInv ==
  ASSUME IInv, NEW c \in CPU, NEW u \in Task, AwakenTask(c, u)
  PROVE  IInv'
<1> USE DEF IInv, ThreadShape, AwakenTask, InClient, TaskInClient, queueVars,
    flagVars, stackVars
<1>1. TypeOK /\ Typed /\ run[c] \in Thread /\ current[c] \in Thread
  BY ZenonT(60), TypedHolds DEF Typed
<1>2. run[c] \in Task /\ run[c] \notin CPU /\ kpc[run[c]] = "run"
  BY ZenonT(60), <1>1 DEF Typed, top
<1>3. PICK l \in {"run", "awaken"} : kpc' = [kpc EXCEPT ![run[c]] = l]
  BY ZenonT(60)
<1>4. /\ SameTasks /\ desired' \in [Thread -> States]
      /\ \A t \in Thread : desired'[t] = "Deleted" <=> desired[t] = "Deleted"
      /\ \A t \in Thread : t \notin Task => desired'[t] = desired[t]
  BY ZenonT(60), <1>1 DEF SameTasks, InTasks, Woken, Typed, States
<1>5. Goto(run[c], l) /\ UNCHANGED <<child, current, pending, skipped, needs>>
  BY ZenonT(60), <1>3 DEF Goto
<1>6. Moves(c) /\ top'[run[c]] = l
  BY ZenonT(60), <1>1, <1>2, <1>3, <1>4, <1>5, GotoKeeps
<1>7. TypeOK'
  <2>1. panic' \in BOOLEAN
    BY ZenonT(40)
  <2>2. kpc' \in [Thread -> KernelLocs]
    BY ZenonT(60), <1>1 DEF Typed, KernelLocs
  <2> QED BY ZenonT(60), <1>4, <2>2 DEF TypeOK
<1>8. /\ IdleOwnCpu'
  BY ZenonT(60), Kept DEF NoNewRequest
<1>9. /\ RunQueueExclusion' /\ PreemptBalanced' /\ NoInterruptUnderLock'
      /\ OffCpuShape' /\ SwitchShape' /\ NeedsShape'
      /\ SkippedShape'
  BY ZenonT(60), <1>6, Moved DEF LockedLocs, CountedLocs, ClientLocs
<1>10. StacksSafe'
  BY ZenonT(60), <1>4, <1>6, Moved
<1>11. QueueComplete'
  BY ZenonT(60), <1>4, Kept
<1>12. FrameShape'
  <2>1. l \in ClientLocs /\ l # "none" /\ UNCHANGED <<guards, run>>
    BY ZenonT(60) DEF ClientLocs
  <2> QED BY ONLY ZenonT(60), IInv, <1>5, <2>1, GotoKeeps
<1>13. ChildShape'
  <2>1. child[run[c]] = {}
    BY ZenonT(60), <1>2, NoChild
  <2>2. \A t \in Thread : t # run[c] => kpc'[t] = kpc[t]
    BY ZenonT(60), <1>1, <1>3 DEF Typed
  <2>3. ChildShape /\ UNCHANGED child
    BY ZenonT(60), <1>5
  <2> QED BY ONLY SMTT(30), SMTT(60), <1>4, <2>1, <2>2, <2>3 DEF ChildShape
<1>14. IdleShape'
  <2>1. \A d \in CPU : /\ desired'[d] = desired[d]
                        /\ kpc'[d] = kpc[d] /\ guards'[d] = guards[d]
    BY ZenonT(60), <1>1, <1>4 DEF Typed
  <2> QED BY ZenonT(60), <2>1, Kept
<1> QED BY ZenonT(60), <1>7, <1>8, <1>9, <1>10, <1>11, <1>12, <1>13, <1>14

\* The request goes to the CPU the waker runs on.
LEMMA AwakenNeedsInv ==
  ASSUME IInv, NEW c \in CPU, AwakenNeeds(c)
  PROVE  IInv'
<1> USE DEF IInv, ThreadShape, AwakenNeeds, InClient, TaskInClient, queueVars,
    flagVars, stackVars
<1>1. TypeOK /\ Typed /\ run[c] \in Thread /\ current[c] \in Thread
  BY ZenonT(60), TypedHolds DEF Typed
<1>2. irq[run[c]] = "none" /\ kpc[run[c]] = "awaken"
  BY ZenonT(60), <1>1 DEF Typed, top, IrqLocs
<1>3. run[c] \in Task /\ run[c] \notin CPU
  BY ZenonT(60), <1>1, <1>2 DEF Typed, IdleShape
<1>4. \A d \in CPU : needs'[d] <=> needs[d] \/ d = c
  BY ZenonT(60), <1>1 DEF Typed
<1>5. Moves(c) /\ top'[run[c]] = "run"
  BY ZenonT(60), GotoKeeps
<1>6. TypeOK'
  <2>1. irq[run[c]] # "none" => "run" \in IrqLocs
    BY ZenonT(60), <1>1 DEF Typed, top, IrqLocs
  <2>2. kpc' \in [Thread -> KernelLocs] /\ irq' \in [Thread -> IrqLocs]
    BY ZenonT(60), <2>1, GotoKeeps DEF KernelLocs
  <2> QED BY ZenonT(60), <2>2 DEF TypeOK
<1>7. /\ QueueComplete'
  BY ZenonT(60), Kept, SameDesired
<1>8. /\ RunQueueExclusion' /\ StacksSafe' /\ PreemptBalanced'
      /\ NoInterruptUnderLock' /\ FrameShape' /\ OffCpuShape'
      /\ ChildShape' /\ IdleShape' /\ SwitchShape'
      /\ SkippedShape'
  BY ZenonT(60), <1>5, Moved, GotoKeeps, SameDesired DEF LockedLocs,
     CountedLocs,
         ClientLocs
<1>9. IdleOwnCpu'
  BY ZenonT(60), <1>3, <1>4 DEF IdleOwnCpu
<1>10. NeedsShape'
  BY SMTT(30), SMTT(60), <1>3, <1>5, Moved DEF ClientLocs
<1> QED BY ZenonT(60), <1>6, <1>7, <1>8, <1>9, <1>10

-----------------------------------------------------------------------------
(* A new task.                                                             *)

\* A new task is known to its creator only.
LEMMA NewTaskInv ==
  ASSUME IInv, NEW c \in CPU, NEW u \in Task, NewTask(c, u)
  PROVE  IInv'
<1> USE DEF IInv, ThreadShape, NewTask, InClient, TaskInClient, queueVars,
    flagVars, stackVars
<1>1. TypeOK /\ Typed /\ run[c] \in Thread /\ current[c] \in Thread
  BY ZenonT(60), TypedHolds DEF Typed
<1>2. run[c] \in Task /\ run[c] \notin CPU /\ kpc[run[c]] = "run"
  BY ZenonT(60), <1>1 DEF Typed, top
<1>3. u \in Thread /\ u \notin CPU /\ ~InTasks(u) /\ child[run[c]] = {}
  BY ZenonT(60), <1>1, <1>2, NoChild DEF Typed, InTasks
<1>4. /\ desired' = [desired EXCEPT ![u] = "ReadyToRun"]
      /\ child' = [child EXCEPT ![run[c]] = {u}]
      /\ desired' \in [Thread -> States] /\ child' \in [Thread -> SUBSET Task]
  BY ZenonT(60), <1>1 DEF Typed, States
<1>5. \A t \in Thread : InTasks(t)' <=> InTasks(t) \/ t = u
  BY ZenonT(60), <1>1 DEF InTasks, Typed
<1>6. Goto(run[c], "new_push")
  BY ZenonT(40), ZenonT(60) DEF Goto
<1>7. Moves(c) /\ top'[run[c]] = "new_push"
  BY ZenonT(60), <1>6, GotoKeeps
<1>8. TypeOK'
  <2>1. kpc' \in [Thread -> KernelLocs]
    BY ZenonT(60), <1>1 DEF Typed, KernelLocs
  <2> QED BY ZenonT(60), <1>4, <2>1 DEF TypeOK
<1>9. /\ IdleOwnCpu'
  BY ZenonT(60), Kept DEF NoNewRequest
<1>10. /\ RunQueueExclusion' /\ PreemptBalanced' /\ NoInterruptUnderLock'
      /\ FrameShape' /\ OffCpuShape' /\ SwitchShape'
      /\ NeedsShape' /\ SkippedShape'
  BY ZenonT(60), <1>6, <1>7, Moved, GotoKeeps DEF LockedLocs, CountedLocs,
     ClientLocs
<1>11. StacksSafe'
  BY SMTT(30), SMTT(60), <1>1, <1>5, <1>7 DEF StacksSafe, Moves, Typed
<1>12. QueueComplete'
  <2>1. DOMAIN child = Thread
    BY ZenonT(60), <1>1 DEF Typed
  <2>2. UNION Range(child') = (UNION Range(child)) \cup {u}
    <3>1. PICK f, g, r : f = child /\ g = child' /\ r = run[c]
      BY ONLY ZenonT(60)
    <3>2. /\ DOMAIN f = Thread /\ r \in Thread /\ f[r] = {}
          /\ DOMAIN g = Thread /\ g[r] = {u}
          /\ \A t \in Thread : t # r => g[t] = f[t]
      BY ONLY SMTT(30), SMTT(60), <1>3, <1>4, <3>1
    <3>3. UNION Range(g) = (UNION Range(f)) \cup g[r]
      BY ONLY SMTT(30), SMTT(60), <3>2, UnionInsert
    <3> QED BY ONLY ZenonT(60), <3>1, <3>2, <3>3
  <2>3. UNCHANGED <<Queued, Range(current), pending, skipped>>
    BY ZenonT(60) DEF Queued
  <2>4. u \notin Queued /\ u \notin Range(current)
    BY ZenonT(60), <1>3 DEF QueueComplete
  <2>5. u \notin UNION Range(child)
    BY ZenonT(60), <1>3 DEF QueueComplete
  <2>6. Range(pending)' = Range(pending) /\ Range(skipped)' = Range(skipped)
    BY ZenonT(60)
  <2>7. PICK N, N1, C, Q : N = UNION Range(child) /\ N1 = UNION Range(child')
                         /\ C = Range(current) /\ Q = Queued
    BY ZenonT(60)
  <2>8. \A t \in Task : /\ InTasks(t) <=> t \in C \/ t \in Q \/ t \in N
                        /\ t \in Q => t \notin C
                        /\ t \in N => t \notin C \cup Q
    BY ZenonT(60), <2>7 DEF QueueComplete
  <2>9. \A t \in Task : /\ InTasks(t)' <=> t \in C \/ t \in Q \/ t \in N1
                        /\ t \in N1 => t \notin C \cup Q
    <3>1. Task \subseteq Thread /\ u \in Task /\ \A t : t \in N1 <=> t \in N \/ t = u
      <4>1. N1 = N \cup {u}
        BY ONLY ZenonT(60), <2>2, <2>7
      <4> QED BY ZenonT(60), <1>1, <4>1 DEF Typed
    <3>2. \A t \in Thread : InTasks(t)' <=> InTasks(t) \/ t = u
      BY ZenonT(60), <1>5
    <3>3. u \notin C /\ u \notin Q
      BY ONLY ZenonT(60), <2>4, <2>7
    <3> QED BY ONLY ZenonT(60), <2>8, <3>1, <3>2, <3>3
  <2> QED BY ZenonT(60), <2>3, <2>7, <2>9 DEF QueueComplete
<1>13. ChildShape'
  <2>1. \A t \in Thread : u \notin child[t]
    BY ZenonT(60), <1>1, <1>3, Ranges DEF QueueComplete
  <2>2. /\ \A t \in Thread : child'[t] = IF t = run[c] THEN {u} ELSE child[t]
        /\ \A t \in Thread : t # run[c] => kpc'[t] = kpc[t]
        /\ kpc'[run[c]] = "new_push"
    BY ZenonT(60), <1>1 DEF Typed
  <2>3. \A t \in Thread : desired[t] = "Deleted" => desired'[t] = "Deleted"
    BY SMTT(30), SMTT(60)
  <2> QED BY SMTT(30), SMTT(60), <2>1, <2>2 DEF ChildShape
<1>14. IdleShape'
  <2>1. \A d \in CPU : /\ desired'[d] = desired[d]
                        /\ kpc'[d] = kpc[d] /\ guards'[d] = guards[d]
    BY ZenonT(60), <1>1 DEF Typed
  <2> QED BY ZenonT(60), <2>1, Kept
<1> QED BY ONLY ZenonT(60), <1>8, <1>9, <1>10, <1>11, <1>12, <1>13, <1>14

\* The creator hands the new task to the queue.
LEMMA PushNewTaskInv ==
  ASSUME IInv, NEW c \in CPU, PushNewTask(c)
  PROVE  IInv'
<1> USE DEF IInv, ThreadShape, PushNewTask, InClient, TaskInClient, queueVars,
    flagVars, stackVars
<1>1. TypeOK /\ Typed /\ run[c] \in Thread /\ current[c] \in Thread
  BY ZenonT(60), TypedHolds DEF Typed
<1>2. irq[run[c]] = "none" /\ kpc[run[c]] = "new_push"
  BY ZenonT(60), <1>1 DEF Typed, top, IrqLocs
<1>3. PICK u \in child[run[c]] : pending' = Append(pending, u)
  BY ZenonT(60)
<1>4. u \in Task /\ u \notin Queued /\ u \notin Range(current) /\ u \in UNION Range(child)
  BY ZenonT(60), <1>1, Ranges DEF QueueComplete, Typed
<1>5. /\ pending' \in Seq(Task)
      /\ Range(pending') = Range(pending) \cup {u}
      /\ IsInjective(pending')
  BY SMTT(30), SMTT(60), <1>3, <1>4, SeqAppend DEF TypeOK, QueueComplete, Queued
<1>6. /\ child' = [child EXCEPT ![run[c]] = {}]
      /\ kpc' = [kpc EXCEPT ![run[c]] = "run"] /\ UNCHANGED irq
      /\ child' \in [Thread -> SUBSET Task]
  BY ZenonT(60), <1>1, <1>2 DEF Goto, Typed
<1>7. Moves(c) /\ top'[run[c]] = "run"
  BY ZenonT(60), GotoKeeps
<1>8. TypeOK'
  <2>1. irq[run[c]] # "none" => "run" \in IrqLocs
    BY ZenonT(60), <1>1 DEF Typed, top, IrqLocs
  <2>2. kpc' \in [Thread -> KernelLocs] /\ irq' \in [Thread -> IrqLocs]
    BY ZenonT(60), <2>1, GotoKeeps DEF KernelLocs
  <2> QED BY SMTT(30), SMTT(60), <1>1, <2>2 DEF TypeOK
<1>9. /\ IdleOwnCpu'
  BY ZenonT(60), Kept DEF NoNewRequest
<1>10. /\ RunQueueExclusion' /\ StacksSafe' /\ PreemptBalanced'
      /\ NoInterruptUnderLock' /\ OffCpuShape' /\ IdleShape'
      /\ SwitchShape' /\ NeedsShape' /\ SkippedShape'
  BY ZenonT(60), <1>7, Moved, GotoKeeps, SameDesired DEF NoNewRequest,
     LockedLocs,
         CountedLocs, ClientLocs
<1>11. QueueComplete'
  <2>1. DOMAIN child = Thread /\ child[run[c]] = {u}
    BY SMTT(30), SMTT(60), <1>1 DEF Typed, ChildShape
  <2>2. \A t \in Thread : t # run[c] => child[t] \cap child[run[c]] = {}
    <3>1. \A t \in Thread : t # run[c] => u \notin child[t]
      <4>1. ChildShape /\ run[c] \in Thread /\ u \in child[run[c]]
        BY ZenonT(60), <1>1, <1>3
      <4> QED BY ONLY SMTT(30), SMTT(60), <4>1 DEF ChildShape
    <3> QED BY ONLY ZenonT(60), <2>1, <3>1
  <2>3. UNION Range(child') = (UNION Range(child)) \ {u}
    <3>1. PICK f, g, r : f = child /\ g = child' /\ r = run[c]
      BY ZenonT(60)
    <3>2. /\ DOMAIN f = Thread /\ r \in Thread /\ f[r] = {u}
          /\ DOMAIN g = Thread /\ g[r] = {}
          /\ \A t \in Thread : t # r => g[t] = f[t]
          /\ \A t \in Thread : t # r => f[t] \cap f[r] = {}
      BY ZenonT(60), <1>1, <2>1, <2>2, <3>1
    <3>3. UNION Range(g) = (UNION Range(f)) \ f[r]
      BY ONLY SMTT(30), SMTT(60), <3>2, UnionRemove
    <3> QED BY ONLY ZenonT(60), <3>1, <3>2, <3>3
  <2>4. Queued' = Queued \cup {u} /\ u \notin Range(skipped)
    BY ZenonT(60), <1>4, <1>5 DEF Queued
  <2>5. PICK N, N1, C, Q : N = UNION Range(child) /\ N1 = UNION Range(child')
                         /\ C = Range(current) /\ Q = Queued
    BY ZenonT(60)
  <2>6. \A t \in Task : /\ InTasks(t) <=> t \in C \/ t \in Q \/ t \in N
                        /\ t \in Q => t \notin C
                        /\ t \in N => t \notin C \cup Q
    BY ZenonT(60), <2>5 DEF QueueComplete
  <2>7. \A t \in Task : /\ InTasks(t)' <=> t \in C \/ t \in Queued' \/ t \in N1
                        /\ t \in Queued' => t \notin C
                        /\ t \in N1 => t \notin C \cup Queued'
    <3>1. \A t \in Task : InTasks(t)' <=> InTasks(t)
      BY ZenonT(60) DEF InTasks
    <3>2. /\ \A t : t \in N1 <=> t \in N /\ t # u
          /\ \A t : t \in Queued' <=> t \in Q \/ t = u
          /\ u \in Task /\ u \in N /\ u \notin C /\ u \notin Q
      <4>1. /\ N1 = N \ {u} /\ Queued' = Q \cup {u}
            /\ u \in Task /\ u \in N /\ u \notin C /\ u \notin Q
        BY ONLY ZenonT(60), <1>4, <2>3, <2>4, <2>5
      <4> QED BY ZenonT(60), <4>1
    <3> QED BY ONLY ZenonT(60), <2>6, <3>1, <3>2
  <2> QED BY ZenonT(60), <1>5, <2>4, <2>5, <2>7 DEF QueueComplete
<1>12. FrameShape'
  <2>1. FrameShape /\ UNCHANGED guards
        /\ \A t \in Thread : kpc'[t] = IF t = run[c] THEN "run" ELSE kpc[t]
    BY ZenonT(60), <1>1, <1>6 DEF Typed
  <2> QED BY ONLY ZenonT(60), <1>2, <1>6, <2>1 DEF FrameShape, CountedLocs,
             LockedLocs, ClientLocs
<1>13. ChildShape'
  BY SMTT(30), SMTT(60), <1>6 DEF ChildShape
<1> QED BY ZenonT(60), <1>8, <1>9, <1>10, <1>11, <1>12, <1>13

-----------------------------------------------------------------------------
(* Guards, the interrupt flag, interrupts and the initial state.           *)

\* A guard of a task is counted on the CPU it runs on.
LEMMA SpinGuardInv ==
  ASSUME IInv, NEW c \in CPU, SpinGuard(c)
  PROVE  IInv'
<1> USE DEF IInv, ThreadShape, SpinGuard, InClient, TaskInClient, queueVars,
    flagVars, stackVars
<1>1. TypeOK /\ Typed /\ run[c] \in Thread /\ current[c] \in Thread
  BY ZenonT(60), TypedHolds DEF Typed
<1>2. run[c] \in Task /\ run[c] \notin CPU /\ kpc[run[c]] = "run"
  BY ZenonT(60), <1>1 DEF Typed, top
<1>3. /\ preempt' = [preempt EXCEPT ![c] = @ + 1] /\ preempt' \in [CPU -> Nat]
      /\ guards' = [guards EXCEPT ![run[c]] = @ + 1]
  BY SMTT(30), SMTT(60), <1>1 DEF Typed
<1>4. guards' \in [Thread -> 0..MaxGuards]
  BY SMTT(30), SMTT(60), SchedConstants DEF TypeOK
<1>5. UNCHANGED top
  BY ZenonT(60) DEF top
<1>6. TypeOK'
  BY ZenonT(60), <1>3, <1>4 DEF TypeOK
<1>7. /\ RunQueueExclusion' /\ StacksSafe' /\ QueueComplete'
      /\ NoInterruptUnderLock' /\ IdleOwnCpu' /\ OffCpuShape'
      /\ ChildShape' /\ SwitchShape' /\ NeedsShape'
      /\ SkippedShape'
  BY ZenonT(60), <1>5, Kept, SameDesired DEF NoNewRequest
<1>8. PreemptBalanced'
  <2>1. /\ PreemptBalanced /\ UNCHANGED <<run, top>> /\ run \in [CPU -> Thread]
        /\ preempt \in [CPU -> Nat] /\ guards \in [Thread -> Nat]
        /\ \A d \in CPU : run[d] = run[c] => d = c
    BY ZenonT(60), <1>1, <1>5 DEF StacksSafe, Typed
  <2> QED BY ONLY SMTT(30), SMTT(60), <1>1, <1>3, <1>4, <2>1 DEF PreemptBalanced
<1>9. FrameShape'
  BY SMTT(30), SMTT(60), <1>2 DEF FrameShape, ClientLocs
<1>10. IdleShape'
  BY SMTT(30), SMTT(60), <1>1 DEF IdleShape, Typed
<1> QED BY ONLY ZenonT(60), <1>6, <1>7, <1>8, <1>9, <1>10

\* It is dropped on the CPU that counts it.
LEMMA SpinGuardDropInv ==
  ASSUME IInv, NEW c \in CPU, SpinGuardDrop(c)
  PROVE  IInv'
<1> USE DEF IInv, ThreadShape, SpinGuardDrop, InClient, TaskInClient,
    queueVars, flagVars, stackVars
<1>1. TypeOK /\ Typed /\ run[c] \in Thread /\ current[c] \in Thread
  BY ZenonT(60), TypedHolds DEF Typed
<1>2. run[c] \in Task /\ run[c] \notin CPU /\ kpc[run[c]] = "run"
  BY ZenonT(60), <1>1 DEF Typed, top
<1>3. preempt[c] - 1 \in Nat /\ guards[run[c]] - 1 \in Nat
  <2>1. guards[run[c]] > 0 /\ guards[run[c]] \in Nat /\ preempt[c] \in Nat
    BY ZenonT(60), <1>1 DEF Typed
  <2>2. preempt[c] # 0
    BY SMTT(30), SMTT(60), <2>1, GuardsCounted
  <2> QED BY ONLY SMTT(30), SMTT(60), <2>1, <2>2
<1>4. /\ preempt' = [preempt EXCEPT ![c] = @ - 1] /\ preempt' \in [CPU -> Nat]
      /\ guards' = [guards EXCEPT ![run[c]] = @ - 1]
  BY ZenonT(60), <1>1, <1>3 DEF Typed
<1>5. guards' \in [Thread -> 0..MaxGuards]
  BY SMTT(30), SMTT(60), SchedConstants DEF TypeOK
<1>6. UNCHANGED top
  BY ZenonT(60) DEF top
<1>7. TypeOK'
  BY ZenonT(60), <1>3, <1>5 DEF TypeOK
<1>8. /\ RunQueueExclusion' /\ StacksSafe' /\ QueueComplete'
      /\ NoInterruptUnderLock' /\ IdleOwnCpu' /\ OffCpuShape'
      /\ ChildShape' /\ SwitchShape' /\ NeedsShape'
      /\ SkippedShape'
  BY ZenonT(60), <1>6, Kept, SameDesired DEF NoNewRequest
<1>9. PreemptBalanced'
  <2>1. /\ PreemptBalanced /\ UNCHANGED <<run, top>> /\ run \in [CPU -> Thread]
        /\ preempt \in [CPU -> Nat] /\ guards \in [Thread -> Nat]
        /\ \A d \in CPU : run[d] = run[c] => d = c
    BY ZenonT(60), <1>1, <1>6 DEF StacksSafe, Typed
  <2> QED BY ONLY SMTT(30), SMTT(60), <1>1, <1>3, <1>4, <2>1 DEF PreemptBalanced
<1>10. FrameShape'
  BY SMTT(30), SMTT(60) DEF FrameShape
<1>11. IdleShape'
  BY SMTT(30), SMTT(60) DEF IdleShape
<1> QED BY ONLY ZenonT(60), <1>7, <1>8, <1>9, <1>10, <1>11

\* A task's own use of the interrupt flag is harmless.
LEMMA SetInterruptsInv ==
  ASSUME IInv, NEW c \in CPU, SetInterrupts(c)
  PROVE  IInv'
<1> USE DEF IInv, ThreadShape, SetInterrupts, InClient, TaskInClient,
    queueVars, flagVars, stackVars
<1>1. TypeOK /\ Typed /\ run[c] \in Thread /\ current[c] \in Thread
  BY ZenonT(60), TypedHolds DEF Typed
<1>2. UNCHANGED top
  BY ZenonT(60) DEF top
<1>3. TypeOK'
  BY ZenonT(60) DEF TypeOK
<1>4. /\ RunQueueExclusion' /\ StacksSafe' /\ QueueComplete'
      /\ PreemptBalanced' /\ IdleOwnCpu' /\ FrameShape'
      /\ OffCpuShape' /\ ChildShape' /\ IdleShape'
      /\ SwitchShape' /\ NeedsShape' /\ SkippedShape'
  BY ZenonT(60), <1>2, Kept, SameDesired DEF NoNewRequest
<1>5. NoInterruptUnderLock'
  BY SMTT(30), SMTT(60), <1>2 DEF NoInterruptUnderLock, LockedLocs
<1> QED BY ZenonT(60), <1>3, <1>4, <1>5

\* The state after common_external_interrupt_handler has run the handler.
LEMMA InterruptInv ==
  ASSUME IInv, NEW c \in CPU, NEW woken \in SUBSET Task, NEW tick \in BOOLEAN,
         Interrupt(c, woken, tick)
  PROVE  IInv'
<1> USE DEF IInv, ThreadShape
<1> DEFINE t == current[c]
           left == IF tick THEN Charged(slice[t]) ELSE slice[t]
           resched == \/ needs[c]
                      \/ \E u \in woken : desired[u] # "ReadyToRun"
                      \/ tick /\ left = 0
           preempted == resched /\ NeedsPreemption(c, Woken(woken)[t], left)
<1>1. TypeOK /\ Typed /\ run[c] \in Thread /\ current[c] \in Thread
  BY ZenonT(60), TypedHolds DEF Typed
<1>2. /\ ints[c]
      /\ panic' = \E u \in woken : ~InTasks(u)
      /\ desired' = Woken(woken)
      /\ slice' = [slice EXCEPT ![t] = left]
      /\ needs' = [needs EXCEPT ![c] = FALSE]
      /\ kpc' = [kpc EXCEPT ![run[c]] = IF @ = "hlt" THEN "run" ELSE @]
      /\ irq' = [irq EXCEPT ![run[c]] = IF preempted THEN "lock" ELSE "none"]
      /\ preempt' = [preempt EXCEPT ![c] = IF preempted THEN @ + 1 ELSE @]
      /\ ints' = [ints EXCEPT ![c] = ~preempted]
      /\ UNCHANGED <<pending, skipped, rqLocked, current, run, prevReady,
                     saved, guards, child>>
  BY ZenonT(60) DEF Interrupt, queueVars
<1>3. /\ irq[run[c]] = "none" /\ top[run[c]] = kpc[run[c]]
      /\ kpc[run[c]] \notin LockedLocs \cup {"lock"}
  <2>1. top[run[c]] \notin LockedLocs \cup {"lock"}
    BY ZenonT(60), <1>2 DEF NoInterruptUnderLock
  <2> QED BY ZenonT(60), <1>1, <2>1 DEF Typed, top, IrqLocs, LockedLocs
<1>4. preempted => preempt[c] = 0
  BY ZenonT(60) DEF NeedsPreemption
<1>5. slice' \in [Thread -> 0..SliceTicks]
  <2>1. slice[t] \in 0..SliceTicks
    BY ZenonT(60) DEF TypeOK
  <2>2. left \in 0..SliceTicks
    BY SMTT(30), SMTT(60), <2>1, SchedConstants DEF Charged
  <2> HIDE DEF left
  <2> QED BY ZenonT(60), <1>2, <2>2 DEF TypeOK
<1> HIDE DEF left, resched, preempted
<1>6. /\ SameTasks /\ desired' \in [Thread -> States]
      /\ \A u \in Thread : desired'[u] = "Deleted" <=> desired[u] = "Deleted"
      /\ \A u \in Thread : u \notin Task => desired'[u] = desired[u]
  BY ONLY ZenonT(60), <1>1, <1>2 DEF SameTasks, InTasks, Woken, Typed, States
<1>7. /\ kpc' \in [Thread -> KernelLocs]
      /\ \A u \in Thread : kpc'[u] = IF kpc[u] = "hlt" /\ u = run[c]
                                       THEN "run" ELSE kpc[u]
  BY ZenonT(60), <1>1, <1>2 DEF Typed, KernelLocs
<1>8. panic' \in BOOLEAN
  BY ZenonT(60), <1>2
<1>9. NoNewRequest /\ ~needs'[c]
  BY ZenonT(60), <1>1, <1>2 DEF NoNewRequest, Typed
<1>10. QueueComplete' /\ IdleOwnCpu'
  BY ZenonT(60), <1>2, <1>6, <1>9, Kept
<1>11. ChildShape'
  <2>1. \A u \in Thread :
          /\ kpc[u] = "new_push" => kpc'[u] = "new_push"
          /\ desired[u] = "Deleted" => desired'[u] = "Deleted"
    BY ZenonT(60), <1>6, <1>7
  <2>2. UNCHANGED child
    BY ZenonT(60), <1>2
  <2> QED BY SMTT(30), SMTT(60), <2>1, <2>2 DEF ChildShape
<1>12. IdleShape'
  <2>1. \A d \in CPU : desired'[d] = "ReadyToRun" /\ guards'[d] = 0
    BY ZenonT(60), <1>1, <1>2, <1>6 DEF IdleShape, Typed
  <2>2. \A d \in CPU : kpc'[d] \notin {"sleep", "awaken", "new_push"}
    BY ZenonT(60), <1>1, <1>7 DEF IdleShape, Typed
  <2>3. \A d \in CPU : current'[d] \in CPU => current'[d] = d
    BY ZenonT(60), <1>2 DEF IdleShape
  <2> QED BY ONLY ZenonT(60), <2>1, <2>2, <2>3 DEF IdleShape
<1>13. CASE preempted
  <2>1. guards[run[c]] = 0 /\ top[run[c]] \notin CountedLocs
    BY ZenonT(60), <1>4, <1>13, GuardsCounted
  <2>2. /\ irq' = [irq EXCEPT ![run[c]] = "lock"]
        /\ preempt' = [preempt EXCEPT ![c] = @ + 1]
        /\ ints' = [ints EXCEPT ![c] = FALSE]
        /\ preempt[c] = 0
    BY ONLY ZenonT(60), <1>2, <1>4, <1>13
  <2>3. Moves(c) /\ top'[run[c]] = "lock"
    BY SMTT(30), SMTT(60), <1>1, <1>2, <2>2 DEF top, Typed, Moves
  <2>4. TypeOK'
    <3>1. irq' \in [Thread -> IrqLocs] /\ preempt' \in [CPU -> Nat]
          /\ ints' \in [CPU -> BOOLEAN] /\ needs' \in [CPU -> BOOLEAN]
      BY ONLY SMTT(30), SMTT(60), <1>1, <1>2 DEF Typed, IrqLocs
    <3> QED BY ZenonT(60), <1>2, <1>5, <1>6, <1>7, <3>1 DEF TypeOK
  <2>5. /\ RunQueueExclusion' /\ StacksSafe' /\ OffCpuShape' /\ SwitchShape'
        /\ NeedsShape' /\ SkippedShape'
    BY ZenonT(60), <1>2, <1>3, <1>6, <1>9, <2>3, Moved DEF LockedLocs
  <2>6. /\ \A d \in CPU : d # c => run[d] # run[c] /\ run[d] \in Thread
        /\ \A d \in CPU : d # c => preempt'[d] = preempt[d] /\ ints'[d] = ints[d]
        /\ preempt'[c] = 1 /\ ~ints'[c]
    BY SMTT(30), SMTT(60), <1>1, <2>2 DEF StacksSafe, Typed
  <2>7. NoInterruptUnderLock'
    BY ZenonT(60), <2>3, <2>6 DEF NoInterruptUnderLock, Moves
  <2>8. PreemptBalanced'
    BY SMTT(30), SMTT(60), <1>1, <1>2, <2>3, <2>6 DEF PreemptBalanced,
       CountedLocs, Moves, Typed
  <2>9. FrameShape'
    BY SMTT(30), SMTT(60), <1>1, <1>2, <1>3, <2>1 DEF FrameShape, CountedLocs,
       LockedLocs, Typed
  <2> QED BY ZenonT(60), <1>10, <1>11, <1>12, <2>4, <2>5, <2>7, <2>8, <2>9
<1>14. CASE ~preempted
  <2>1. irq' = irq /\ preempt' = preempt /\ ints' = ints
    BY ONLY ZenonT(60), <1>1, <1>2, <1>3, <1>14 DEF Typed
  <2>2. Moves(c) /\ top'[run[c]] = IF top[run[c]] = "hlt" THEN "run" ELSE top[run[c]]
    <3>1. run[c] \in Thread /\ UNCHANGED run
      BY ZenonT(60), <1>1, <1>2
    <3> QED BY ONLY ZenonT(60), <1>3, <1>7, <2>1, <3>1
            DEF top, Moves
  <2>3. TypeOK'
    <3>1. needs' \in [CPU -> BOOLEAN]
      BY ZenonT(60), <1>1, <1>2 DEF Typed
    <3> QED BY ZenonT(60), <1>2, <1>5, <1>6, <1>7, <2>1 DEF TypeOK
  <2>4. /\ top'[run[c]] \in LockedLocs <=> top[run[c]] \in LockedLocs
        /\ top'[run[c]] \in CountedLocs <=> top[run[c]] \in CountedLocs
        /\ top'[run[c]] # "lock" /\ top[run[c]] \notin LockedLocs
    BY ZenonT(60), <1>3, <2>2 DEF LockedLocs, CountedLocs
  <2>5. /\ RunQueueExclusion' /\ StacksSafe' /\ PreemptBalanced'
        /\ NoInterruptUnderLock' /\ OffCpuShape' /\ SwitchShape'
        /\ NeedsShape' /\ SkippedShape'
    BY ZenonT(60), <1>2, <1>6, <1>9, <2>1, <2>2, <2>4, Moved DEF LockedLocs
  <2>6. FrameShape'
    <3>1. FrameShape /\ UNCHANGED guards
      BY ZenonT(60), <1>2
    <3> QED BY ONLY ZenonT(60), <1>7, <2>1, <3>1 DEF FrameShape, ClientLocs,
               CountedLocs,
              LockedLocs
  <2> QED BY ONLY ZenonT(60), <1>10, <1>11, <1>12, <2>3, <2>5, <2>6
<1> QED BY ZenonT(60), <1>13, <1>14

\* The state start_scheduler leaves behind satisfies the invariant.
LEMMA InitInv == Init => IInv
<1> SUFFICES ASSUME Init PROVE IInv
  BY ZenonT(60)
<1> USE DEF Init
<1>1. /\ CPU \subseteq Thread /\ Task \subseteq Thread /\ Shell \in Task
      /\ \A t \in Thread : t \in CPU <=> t \notin Task
  BY ZenonT(60), SchedConstants DEF Thread
<1>2. TypeOK
  <2>1. pending \in Seq(Task) /\ skipped \in Seq(Task)
    BY SMTT(30), SMTT(60), <1>1
  <2>2. slice \in [Thread -> 0..SliceTicks] /\ guards \in [Thread -> 0..MaxGuards]
    BY SMTT(30), SMTT(60), SchedConstants
  <2> QED BY ZenonT(60), <1>1, <2>1, <2>2 DEF TypeOK, States, KernelLocs,
             IrqLocs
<1>3. Typed
  BY ONLY ZenonT(60), <1>2, TypedHolds
<1>4. top = [t \in Thread |-> IF t \in CPU THEN "run" ELSE "start"]
  BY ZenonT(60) DEF top
<1>5. QueueComplete
  <2>1. Range(pending) = {Shell} /\ Range(skipped) = {}
        /\ IsInjective(pending) /\ IsInjective(skipped)
    BY SMTT(30), SMTT(60) DEF Range, IsInjective
  <2>2. Queued = {Shell}
    BY ZenonT(60), <2>1 DEF Queued
  <2>3. \A x \in Task : x \notin Range(current) /\ x \notin UNION Range(child)
    <3>1. \A d \in CPU : current[d] = d
      BY ZenonT(60)
    <3>2. \A t \in Thread : child[t] = {}
      BY ZenonT(60)
    <3>3. /\ \A x : x \in Range(current) <=> \E d \in CPU : current[d] = x
          /\ \A x : x \in UNION Range(child) <=> \E t \in Thread : x \in child[t]
      BY ZenonT(60), <1>3, Ranges
    <3> QED BY ONLY SMTT(30), SMTT(60), <1>1, <3>1, <3>2, <3>3
  <2>4. \A x \in Task : InTasks(x) <=> x = Shell
    BY ZenonT(60), <1>1 DEF InTasks
  <2>5. Range(pending) \cap Range(skipped) = {}
    BY ONLY ZenonT(60), <2>1
  <2> QED BY ONLY ZenonT(60), <2>1, <2>2, <2>3, <2>4 DEF QueueComplete
<1>6. RunQueueExclusion /\ StacksSafe /\ PreemptBalanced
  BY SMTT(30), SMTT(60), <1>1, <1>4 DEF RunQueueExclusion, HoldsRunQueue,
     LockedLocs, StacksSafe,
         InTasks, PreemptBalanced, CountedLocs
<1>7. NoInterruptUnderLock /\ IdleOwnCpu
  BY ZenonT(60), <1>1, <1>4 DEF NoInterruptUnderLock, LockedLocs, IdleOwnCpu
<1>8. ThreadShape
  BY SMTT(30), SMTT(60), <1>1, <1>4 DEF ThreadShape, FrameShape, OffCpuShape,
     ChildShape,
         IdleShape, SwitchShape, NeedsShape, SkippedShape
<1> QED BY ZenonT(60), <1>2, <1>5, <1>6, <1>7, <1>8 DEF IInv

\* Every step preserves the invariant.
LEMMA NextInv == IInv /\ [Next]_vars => IInv'
<1> SUFFICES ASSUME IInv, [Next]_vars PROVE IInv'
  BY ZenonT(60)
<1>1. CASE UNCHANGED vars
  <2>1. UNCHANGED <<desired, slice, pending, skipped, rqLocked, current, run,
                    prevReady, needs, preempt, ints, kpc, irq, saved, guards,
                    child, panic>>
    BY ZenonT(60), <1>1 DEF vars
  <2>2. UNCHANGED top
    BY ZenonT(60), <2>1 DEF top
  <2>3. TypeOK'
    BY ZenonT(60), <2>1 DEF IInv, TypeOK
  <2> QED BY ZenonT(60), <2>1, <2>2, <2>3, Kept, SameDesired DEF NoNewRequest,
             IInv, ThreadShape
<1>2. ASSUME NEW c \in CPU, KernelStep(c) PROVE IInv'
  BY ZenonT(60), <1>2, RunQueueGuardInv, RunQueueCliInv, RunQueueLockInv,
     ReapKilledInv,
     ReapKeepInv, ReapDoneInv, PopSkipInv, PopReadyInv, PopNoneStayInv,
     PopNoneIdleInv, SwitchToTaskInv, UnlockTaskInv, DropPreemptInv,
     UnlockIrqInv, ForceUnlockSchedulerInv, SetPreemptCountInv, IdleHaltInv,
     SwapSleepingInv, AwakenNeedsInv, PushNewTaskInv
     DEF KernelStep
<1>3. ASSUME NEW c \in CPU, ClientStep(c) PROVE IInv'
  BY ZenonT(60), <1>3, RunSchedulerInv, PrepareToSleepInv, SwapKilledInv,
     SpinGuardInv,
     SpinGuardDropInv, SetInterruptsInv, AwakenTaskInv, NewTaskInv
     DEF ClientStep
<1> QED BY ZenonT(60), <1>1, <1>2, <1>3, InterruptInv DEF Next, Halted

\* The scheduler's invariants, together, hold in every reachable state.
THEOREM InvariantHolds == Spec => []IInv
<1> QED BY InitInv, NextInv, PTL DEF Spec

\* Every variable keeps its type: in particular time slices stay within one
\* DEFAULT_TIME_SLICE and PREEMPT_COUNT never goes below 0 (schedcore.rs:313,
\* preempt.rs:46).
THEOREM TypeCorrect == Spec => []TypeOK
<1>1. IInv => TypeOK
  BY ZenonT(60) DEF IInv
<1> QED BY <1>1, InvariantHolds, PTL

\* The RUN_QUEUE lock, released by another thread than the one that took it,
\* still gives mutual exclusion (run_scheduler, force_unlock_scheduler).
THEOREM LockExcludes == Spec => []RunQueueExclusion
<1>1. IInv => RunQueueExclusion
  BY ZenonT(60) DEF IInv
<1> QED BY <1>1, InvariantHolds, PTL

\* No two CPUs share a stack and no CPU runs on a freed one, whatever the
\* order of switches, kills and reaps (switch_to_task,
\* remove_killed_pending_tasks).
THEOREM StacksAreSafe == Spec => []StacksSafe
<1>1. IInv => StacksSafe
  BY ZenonT(60) DEF IInv
<1> QED BY <1>1, InvariantHolds, PTL

\* Every live task is current on one CPU, queued once, or about to be queued
\* by new_task (pop_next_ready_pending_task, task_swap_parameters).
THEOREM NoTaskLost == Spec => []QueueComplete
<1>1. IInv => QueueComplete
  BY ZenonT(60) DEF IInv
<1> QED BY <1>1, InvariantHolds, PTL

\* PREEMPT_COUNT of a CPU counts the guards on the stack it executes, through
\* every migration (PreemptGuard, task_setup).
THEOREM PreemptCountExact == Spec => []PreemptBalanced
<1>1. IInv => PreemptBalanced
  BY ZenonT(60) DEF IInv
<1> QED BY <1>1, InvariantHolds, PTL

\* Interrupts are off wherever RUN_QUEUE is wanted or held
\* (lock_disable_interrupts, force_unlock_scheduler).
THEOREM NoSelfDeadlock == Spec => []NoInterruptUnderLock
<1>1. IInv => NoInterruptUnderLock
  BY ZenonT(60) DEF IInv
<1> QED BY <1>1, InvariantHolds, PTL

\* An idle task runs on its own CPU only, and only when that CPU has no
\* reschedule request (idle_task_start, task_swap_parameters).
THEOREM IdleStaysHome == Spec => []IdleOwnCpu
<1>1. IInv => IdleOwnCpu
  BY ONLY ZenonT(60) DEF IInv
<1> QED BY <1>1, InvariantHolds, PTL

-----------------------------------------------------------------------------
(* The scheduler with its run queue, locks, stacks and per-CPU flags       *)
(* implements TaskScheduling, the view of it the sleeping primitives are   *)
(* built on, for any number of CPUs and tasks.  Most steps are stutters of *)
(* that view.  The others need the invariant: the task at the head of the  *)
(* queue is current nowhere, the task that leaves a CPU is current on that *)
(* CPU alone, and a thread in its own code is the current task of its CPU. *)

\* Nothing of TASKS and of CURRENT_TASK_ID changes: a stutter.
LEMMA Stutters ==
  ASSUME UNCHANGED <<desired, current>>
  PROVE  UNCHANGED Abstract!schedVars
BY ZenonT(60) DEF Abstract!schedVars

\* All CPUs start in their idle tasks, and a task is ready or does not exist.
LEMMA InitRefines == Init => Abstract!SchedInit
<1> SUFFICES ASSUME Init PROVE Abstract!SchedInit
  OBVIOUS
<1>1. /\ CPU \subseteq Thread /\ Task \subseteq Thread
      /\ \A t \in Thread : t \in CPU <=> t \notin Task
  BY ZenonT(60), SchedConstants DEF Thread
<1>2. [t \in Task |-> desired[t]] \in [Task -> {"ReadyToRun", "Unborn"}]
  BY ZenonT(60), <1>1 DEF Init
<1>3. Range(current) \cap Task = {}
  BY ZenonT(60), <1>1 DEF Init, Range
<1> QED BY ONLY ZenonT(60), <1>2, <1>3 DEF Abstract!SchedInit

\* remove_killed_pending_tasks deletes killed tasks that no CPU runs.
LEMMA ReapKilledRefines ==
  ASSUME IInv, NEW c \in CPU, ReapKilled(c)
  PROVE  Abstract!SchedNext
<1>1. Typed /\ pending \in Seq(Task) /\ pending # <<>>
  BY ZenonT(60), TypedHolds DEF IInv, TypeOK, ReapKilled
<1>2. PICK u \in Task : u = Head(pending) /\ u \in Range(pending)
  BY ONLY SMTT(30), SMTT(60), <1>1, SeqTail
<1>3. u \notin Range(current)
  BY ZenonT(60), <1>2 DEF IInv, QueueComplete, Queued
<1>4. /\ desired[u] = "Killed" /\ UNCHANGED current
      /\ desired' = [desired EXCEPT ![u] = "Deleted"]
  BY ZenonT(60), <1>2 DEF ReapKilled
<1>5. [t \in Task |-> desired[t]]' =
        [[t \in Task |-> desired[t]] EXCEPT ![u] = "Deleted"]
  BY ONLY ZenonT(60), <1>1, <1>2, <1>4 DEF Typed
<1>6. Abstract!DeleteTask(u)
  BY ONLY ZenonT(60), <1>2, <1>3, <1>4, <1>5 DEF Abstract!DeleteTask
<1> QED BY ZenonT(60), <1>6 DEF Abstract!SchedNext

\* task_swap_parameters takes one task (or the idle task) off the CPU and
\* puts one task (or the idle task) on it.
LEMMA SwapToRefines ==
  ASSUME IInv, NEW c \in CPU, NEW next \in Thread, NEW queue,
         SwapTo(c, next, queue),
         next \in CPU => next = c,
         next \in Task => desired[next] = "ReadyToRun" /\ next \notin Range(current)
  PROVE  Abstract!SchedNext
<1> DEFINE leaving == {current[c]} \cap Task
           entering == {next} \cap Task
<1>1. Typed /\ current[c] \in Thread
  BY ZenonT(60), TypedHolds DEF IInv, Typed
<1>2. /\ current' = [current EXCEPT ![c] = next] /\ UNCHANGED desired
      /\ \A d \in CPU : d # c => current[d] # current[c]
  BY ZenonT(60) DEF SwapTo, IInv, StacksSafe
<1>3. /\ \A x : x \in Range(current) <=> \E d \in CPU : current[d] = x
      /\ \A x : x \in Range(current') <=> \E d \in CPU : current'[d] = x
  BY ONLY ZenonT(60), <1>1, <1>2 DEF Typed, Range
<1>4. /\ current'[c] = next
      /\ \A d \in CPU : d # c => current'[d] = current[d]
  BY ONLY ZenonT(60), <1>1, <1>2 DEF Typed
<1>5. Range(current') \cap Task = ((Range(current) \cap Task) \ leaving) \cup entering
  <2>1. ASSUME NEW x PROVE x \in Range(current') <=>
                            x \in Range(current) \ {current[c]} \/ x = next
    <3>1. ASSUME x \in Range(current')
          PROVE  x \in Range(current) \ {current[c]} \/ x = next
      <4>1. PICK d \in CPU : current'[d] = x
        BY ONLY ZenonT(60), <1>3, <3>1
      <4>2. d # c => current[d] = x /\ current[d] # current[c]
        BY ONLY ZenonT(60), <1>2, <1>4, <4>1
      <4> QED BY ONLY ZenonT(60), <1>3, <1>4, <4>1, <4>2
    <3>2. ASSUME x \in Range(current), x # current[c]
          PROVE  x \in Range(current')
      <4>1. PICK d \in CPU : current[d] = x
        BY ONLY ZenonT(60), <1>3, <3>2
      <4> QED BY ONLY ZenonT(60), <1>3, <1>4, <3>2, <4>1
    <3>3. next \in Range(current')
      BY ONLY ZenonT(60), <1>3, <1>4
    <3> QED BY ONLY ZenonT(60), <3>1, <3>2, <3>3
  <2> QED BY ONLY ZenonT(60), <2>1
<1>6. /\ leaving \subseteq Range(current) \cap Task
      /\ entering \cap (Range(current) \cap Task) = {}
      /\ \A t \in entering : [x \in Task |-> desired[x]][t] = "ReadyToRun"
  BY ZenonT(60), <1>3
<1>7. leaving \in Abstract!AtMostOne /\ entering \in Abstract!AtMostOne
  BY ZenonT(60) DEF Abstract!AtMostOne
<1> HIDE DEF leaving, entering
<1>8. Abstract!Switch(leaving, entering)
  BY ZenonT(60), <1>2, <1>5, <1>6 DEF Abstract!Switch
<1> QED BY ONLY ZenonT(60), <1>7, <1>8 DEF Abstract!SchedNext

\* A popped task is ready and current nowhere.
LEMMA PopReadyRefines ==
  ASSUME IInv, NEW c \in CPU, PopReady(c)
  PROVE  Abstract!SchedNext
<1>1. Typed /\ pending \in Seq(Task) /\ pending # <<>>
  BY ZenonT(60), TypedHolds DEF IInv, TypeOK, PopReady
<1>2. Head(pending) \in Task /\ Head(pending) \in Range(pending)
  BY ONLY SMTT(30), SMTT(60), <1>1, SeqTail
<1>3. Head(pending) \notin Range(current)
  BY ZenonT(60), <1>2 DEF IInv, QueueComplete, Queued
<1>4. Head(pending) \in Thread /\ Head(pending) \notin CPU
  BY ONLY ZenonT(60), <1>1, <1>2 DEF Typed
<1> QED BY ZenonT(60), <1>3, <1>4, SwapToRefines DEF PopReady

\* With nothing to run the CPU goes to its own idle task.
LEMMA PopNoneIdleRefines ==
  ASSUME IInv, NEW c \in CPU, PopNoneIdle(c)
  PROVE  Abstract!SchedNext
<1>1. c \in Thread /\ c \notin Task
  BY ZenonT(60), TypedHolds DEF IInv, Typed
<1> QED BY ZenonT(60), <1>1, SwapToRefines DEF PopNoneIdle

\* A task that is in its own code, or halfway through prepare_to_sleep, is
\* current on its CPU.
LEMMA ChangesOwnState ==
  ASSUME IInv, NEW c \in CPU, NEW state, NEW t \in Task, t = run[c],
         top[run[c]] # "switch", UNCHANGED current,
         desired' = [desired EXCEPT ![run[c]] = state]
  PROVE  Abstract!SetDesired(t, state)
<1>1. Typed /\ current[c] = t
  BY ZenonT(60), TypedHolds DEF IInv, StacksSafe
<1>2. t \in Range(current) \cap Task
  BY ZenonT(60), <1>1, Ranges
<1>3. [u \in Task |-> desired[u]]' =
        [[u \in Task |-> desired[u]] EXCEPT ![t] = state]
  BY ZenonT(60), <1>1 DEF Typed
<1> QED BY ZenonT(60), <1>2, <1>3 DEF Abstract!SetDesired

\* The second half of prepare_to_sleep: only a task reaches it.
LEMMA SwapSleepingRefines ==
  ASSUME IInv, NEW c \in CPU, SwapSleeping(c)
  PROVE  Abstract!SchedNext
<1>1. Typed /\ run[c] \in Thread /\ top[run[c]] = "sleep"
  BY ZenonT(60), TypedHolds DEF IInv, Typed, SwapSleeping
<1>2. irq[run[c]] = "none" /\ kpc[run[c]] = "sleep"
  BY ONLY ZenonT(60), <1>1 DEF Typed, top, IrqLocs
<1>3. PICK t \in Task : t = run[c]
  BY ZenonT(60), <1>1, <1>2 DEF IInv, ThreadShape, IdleShape, Typed
<1>4. /\ desired' = [desired EXCEPT ![run[c]] = "Sleeping"]
      /\ UNCHANGED current
  BY ZenonT(60) DEF SwapSleeping, queueVars
<1>5. Abstract!PrepareToSleep(t)
  BY ZenonT(60), <1>1, <1>3, <1>4, ChangesOwnState DEF Abstract!PrepareToSleep
<1> QED BY ONLY ZenonT(60), <1>5 DEF Abstract!SchedNext

\* kill_current_task changes the state of the task that calls it.
LEMMA SwapKilledRefines ==
  ASSUME IInv, NEW c \in CPU, SwapKilled(c)
  PROVE  Abstract!SchedNext
<1>1. PICK t \in Task : t = run[c] /\ top[run[c]] = "run"
  BY ZenonT(60) DEF SwapKilled, TaskInClient, InClient
<1>2. /\ desired' = [desired EXCEPT ![run[c]] = "Killed"]
      /\ UNCHANGED current
  BY ZenonT(60) DEF SwapKilled, queueVars
<1>3. Abstract!SwapKilled(t)
  BY ZenonT(60), <1>1, <1>2, ChangesOwnState DEF Abstract!SwapKilled
<1> QED BY ONLY ZenonT(60), <1>3 DEF Abstract!SchedNext

\* awaken_task, called by a task or by a handler.
LEMMA WokenRefines ==
  ASSUME IInv, NEW S \in SUBSET Task, desired' = Woken(S), UNCHANGED current
  PROVE  Abstract!SchedNext
<1>1. Typed
  BY ZenonT(60), TypedHolds DEF IInv
<1>2. Abstract!Awaken(S)
  BY ZenonT(60), <1>1 DEF Abstract!Awaken, Abstract!Known, Woken,
     InTasks, Typed
<1> QED BY ZenonT(60), <1>2 DEF Abstract!SchedNext

\* new_task brings a task to life that TASKS never held.
LEMMA NewTaskRefines ==
  ASSUME IInv, NEW c \in CPU, NEW u \in Task, NewTask(c, u)
  PROVE  Abstract!SchedNext
<1>1. Typed
  BY ZenonT(60), TypedHolds DEF IInv
<1>2. /\ desired[u] = "Unborn" /\ UNCHANGED current
      /\ desired' = [desired EXCEPT ![u] = "ReadyToRun"]
  BY ZenonT(60) DEF NewTask, queueVars
<1>3. [t \in Task |-> desired[t]]' =
        [[t \in Task |-> desired[t]] EXCEPT ![u] = "ReadyToRun"]
  BY ONLY ZenonT(60), <1>1, <1>2 DEF Typed
<1>4. Abstract!NewTask(u)
  BY ZenonT(60), <1>2, <1>3 DEF Abstract!NewTask
<1> QED BY ZenonT(60), <1>4 DEF Abstract!SchedNext

\* Every step of the scheduler is a step of TaskScheduling or a stutter.
LEMMA NextRefines == IInv /\ [Next]_vars => [Abstract!SchedNext]_Abstract!schedVars
<1> SUFFICES ASSUME IInv, [Next]_vars
             PROVE  Abstract!SchedNext \/ UNCHANGED Abstract!schedVars
  BY ZenonT(60)
<1>1. CASE UNCHANGED vars
  BY ZenonT(60), <1>1, Stutters DEF vars
<1>2. ASSUME NEW c \in CPU, KernelStep(c)
      PROVE  Abstract!SchedNext \/ UNCHANGED Abstract!schedVars
  <2>1. \/ ReapKilled(c) \/ PopReady(c) \/ PopNoneIdle(c) \/ SwapSleeping(c)
        \/ UNCHANGED <<desired, current>>
    BY ZenonT(60), <1>2 DEF KernelStep, RunQueueGuard, RunQueueCli,
       RunQueueLock, ReapKeep,
       ReapDone, PopSkip, PopNoneStay, SwitchToTask, UnlockTask, DropPreempt,
       UnlockIrq, ForceUnlockScheduler, SetPreemptCount, IdleHalt,
       AwakenNeeds, PushNewTask, queueVars
  <2> QED BY ZenonT(60), <2>1, ReapKilledRefines, PopReadyRefines,
             PopNoneIdleRefines,
             SwapSleepingRefines, Stutters
<1>3. ASSUME NEW c \in CPU, ClientStep(c)
      PROVE  Abstract!SchedNext \/ UNCHANGED Abstract!schedVars
  <2>1. ASSUME NEW u \in Task, AwakenTask(c, u) PROVE Abstract!SchedNext
    <3>1. desired' = Woken({u}) /\ UNCHANGED current /\ {u} \in SUBSET Task
      BY ZenonT(60), <2>1 DEF AwakenTask, queueVars
    <3> QED BY ZenonT(60), <3>1, WokenRefines
  <2>2. \/ SwapKilled(c)
        \/ \E u \in Task : AwakenTask(c, u) \/ NewTask(c, u)
        \/ UNCHANGED <<desired, current>>
    BY ZenonT(60), <1>3 DEF ClientStep, RunScheduler, PrepareToSleep, SpinGuard,
       SpinGuardDrop, SetInterrupts, queueVars
  <2> QED BY ZenonT(60), <2>1, <2>2, SwapKilledRefines, NewTaskRefines, Stutters
<1>4. ASSUME NEW c \in CPU, NEW woken \in SUBSET Task, NEW tick \in BOOLEAN,
             Interrupt(c, woken, tick)
      PROVE  Abstract!SchedNext
  <2>1. desired' = Woken(woken) /\ UNCHANGED current
    BY ZenonT(40), ZenonT(60), <1>4 DEF Interrupt, queueVars
  <2> QED BY ZenonT(60), <2>1, WokenRefines
<1> QED BY ZenonT(60), <1>1, <1>2, <1>3, <1>4 DEF Next, Halted

\* Whatever run_scheduler, the handlers and the tasks' calls do, on any
\* number of CPUs, a task is put on a CPU only while it is ready and on none,
\* changes its own state only while on one, and is deleted only when killed
\* and on none (task_swap_parameters, prepare_to_sleep, kill_current_task,
\* awaken_task, remove_killed_pending_tasks).
THEOREM SchedulerImplementsTasks == Spec => ImplementsTaskScheduling
<1> QED BY InvariantHolds, InitRefines, NextRefines, PTL
        DEF Spec, ImplementsTaskScheduling, Abstract!SchedSpec
=============================================================================
