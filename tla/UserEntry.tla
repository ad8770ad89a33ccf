----------------------------- MODULE UserEntry -----------------------------
(***************************************************************************)
(* How CPUs go to user mode and come back: jump_to_userspace               *)
(* (sched/userspace.rs), the entry and exit of system calls                *)
(* (sched/syscall.rs), interrupts with their swapgs (interrupts.rs), the   *)
(* TSS (gdt.rs), and what a task switch does to the per-CPU stack pointers *)
(* (sched/schedcore.rs).                                                   *)
(*                                                                         *)
(* pc[t] is where the task's own code stands: "setup" is kernel code,      *)
(* "stored", "rsp" and "swapped" follow the instructions of                *)
(* jump_to_userspace, where interrupts are on; "enter" is a system call    *)
(* before its registers are pushed and "sys" after.  irq[t] is the         *)
(* handler on top of it.  A kernel stack is the sequence of the frames on  *)
(* it; a frame holds the task whose user stack pointer was saved in it.    *)
(* A stack pointer is a stack and the number of frames below it.           *)
(***************************************************************************)
EXTENDS Integers, Sequences

CONSTANTS
  CPU,
  UserTask,
  KernelTask  \* among them the idle task of every CPU, named as the CPU is

Task == UserTask \cup KernelTask

VARIABLES
  cur,      \* CURRENT_TASK_ID; CPU c starts on its idle task c
  pc, irq,
  frames,   \* the frames on every kernel stack
  usp,      \* the stack pointer of a task in user mode
  gs,       \* GSBASE: the per-CPU area of the CPU, or the user's value
  scratch,  \* USER_STACK_SCRATCH
  topks,    \* TOP_OF_KERNEL_STACK
  rsp0      \* TSS privilege_stack_table[0]

vars == <<cur, pc, irq, frames, usp, gs, scratch, topks, rsp0>>
perCpu == <<scratch, topks, rsp0>>

None == "none"
NoHandler == <<>>
TopAddr(t) == [stack |-> t, depth |-> 0]
Unset == [stack |-> None, depth |-> 0]

\* The frames of stack s below depth n.
Below(s, n) == SubSeq(s, 1, IF n < Len(s) THEN n ELSE Len(s))

\* Push a frame at a stack pointer; what was deeper is overwritten.
PushAt(sp, f) == [frames EXCEPT ![sp.stack] = Append(Below(@, sp.depth), f)]

\* The frame on top of the stack of task t.
TopFrame(t) == frames[t][Len(frames[t])]

Pop(t) == [frames EXCEPT ![t] = SubSeq(@, 1, Len(@) - 1)]

Swap(g) == IF g = "kernel" THEN "user" ELSE "kernel"

\* The code that runs on the CPU is the task's own, not a handler.
At(c, l) == irq[cur[c]] = NoHandler /\ pc[cur[c]] = l

-----------------------------------------------------------------------------
(* Task switches *)

SetTssRsp0(c, sp) == rsp0' = [rsp0 EXCEPT ![c] = sp]

\* task_swap_parameters: "Reset per CPU kernel stack pointer and TSS rsp0".
ResetStackPointers(c, t) ==
  /\ topks' = [topks EXCEPT ![c] = TopAddr(t)]
  /\ SetTssRsp0(c, TopAddr(t))

\* run_scheduler in kernel code, at the end of a system call or of a handler.
SwitchToTask(c, t) ==
  /\ irq[cur[c]] # NoHandler \/ pc[cur[c]] \in {"setup", "sys", "dead"}
  /\ \A d \in CPU : cur[d] # t
  /\ pc[t] # "dead" /\ (t \in CPU => t = c)
  /\ cur' = [cur EXCEPT ![c] = t]
  /\ ResetStackPointers(c, t)
  /\ IF pc[t] = "new"
       THEN /\ pc' = [pc EXCEPT ![t] = "setup"]
            /\ frames' = [frames EXCEPT ![t] = <<t>>]
       ELSE UNCHANGED <<pc, frames>>
  /\ UNCHANGED <<irq, usp, gs, scratch>>

-----------------------------------------------------------------------------
(* To user mode *)

\* "mov gs:TOP_OF_KERNEL_STACK, rsp"
StoreKernelStack(c) ==
  /\ At(c, "setup") /\ cur[c] \in UserTask
  /\ topks' = [topks EXCEPT ![c] =
                 [stack |-> cur[c], depth |-> Len(frames[cur[c]])]]
  /\ pc' = [pc EXCEPT ![cur[c]] = "stored"]
  /\ UNCHANGED <<cur, irq, frames, usp, gs, scratch, rsp0>>

\* "mov rsp, rsi": from here on an interrupt pushes on the user stack.
LoadUserStack(c) ==
  /\ At(c, "stored")
  /\ usp' = [usp EXCEPT ![cur[c]] = cur[c]]
  /\ pc' = [pc EXCEPT ![cur[c]] = "rsp"]
  /\ UNCHANGED <<cur, irq, frames, gs, perCpu>>

SwapGs(c) ==
  /\ At(c, "rsp")
  /\ gs' = [gs EXCEPT ![c] = Swap(@)]
  /\ pc' = [pc EXCEPT ![cur[c]] = "swapped"]
  /\ UNCHANGED <<cur, irq, frames, usp, perCpu>>

Sysret(c) ==
  /\ At(c, "swapped")
  /\ pc' = [pc EXCEPT ![cur[c]] = "user"]
  /\ UNCHANGED <<cur, irq, frames, usp, gs, perCpu>>

-----------------------------------------------------------------------------
(* System calls *)

\* swapgs, the user stack to the scratch variable, the kernel stack.
SyscallEntry(c) ==
  /\ At(c, "user")
  /\ gs' = [gs EXCEPT ![c] = Swap(@)]
  /\ scratch' = [scratch EXCEPT ![c] = usp[cur[c]]]
  /\ pc' = [pc EXCEPT ![cur[c]] = "enter"]
  /\ UNCHANGED <<cur, irq, frames, usp, topks, rsp0>>

\* The registers are pushed from where TOP_OF_KERNEL_STACK points.
PushRegisters(c) ==
  /\ At(c, "enter")
  /\ frames' = PushAt(topks[c], scratch[c])
  /\ pc' = [pc EXCEPT ![cur[c]] = "sys"]
  /\ UNCHANGED <<cur, irq, usp, gs, perCpu>>

SyscallExit(c) ==
  /\ At(c, "sys")
  /\ pc' = [pc EXCEPT ![cur[c]] = "dead"]
  /\ UNCHANGED <<cur, irq, frames, usp, gs, perCpu>>

\* "pop rax": the stack pointer that was pushed on entry.
UserStackPointer(c) == TopFrame(cur[c])

SyscallReturn(c) ==
  /\ At(c, "sys")
  /\ usp' = [usp EXCEPT ![cur[c]] = UserStackPointer(c)]
  /\ frames' = Pop(cur[c])
  /\ topks' = [topks EXCEPT ![c] =
                 [stack |-> cur[c], depth |-> Len(frames[cur[c]]) - 1]]
  /\ gs' = [gs EXCEPT ![c] = Swap(@)]
  /\ pc' = [pc EXCEPT ![cur[c]] = "user"]
  /\ UNCHANGED <<cur, irq, scratch, rsp0>>

-----------------------------------------------------------------------------
(* Interrupts *)

\* SFMASK turns interrupts off in system calls, interrupt gates in handlers.
InterruptsOn(t) ==
  irq[t] = NoHandler /\ pc[t] \in {"setup", "stored", "rsp", "swapped", "user"}

\* Mutant of CameFromKernel: decided by the privilege level.
CameFromRing0(c) == pc[cur[c]] # "user"

\* gsbase_is_kernel
CameFromKernel(c) == gs[c] = "kernel"

\* The frame goes to RSP0 from user mode, else to the stack in use: between
\* "mov rsp" and sysretq that is the user stack.
Interrupt(c) ==
  LET t == cur[c]
      on == CASE pc[t] = "user" -> rsp0[c]
              [] pc[t] \in {"rsp", "swapped"} -> Unset
              [] OTHER -> [stack |-> t, depth |-> Len(frames[t])]
  IN /\ InterruptsOn(t)
     /\ irq' = [irq EXCEPT ![t] =
                  <<[kernelGs |-> CameFromKernel(c), frame |-> on # Unset]>>]
     /\ frames' = IF on = Unset THEN frames ELSE PushAt(on, usp[t])
     /\ gs' = [gs EXCEPT ![c] = IF CameFromKernel(c) THEN @ ELSE Swap(@)]
     /\ UNCHANGED <<cur, pc, usp, perCpu>>

\* The end of with_swapgs_accounting, and iretq.
InterruptReturn(c) ==
  LET t == cur[c]
  IN /\ irq[t] # NoHandler
     /\ gs' = [gs EXCEPT ![c] = IF irq[t][1].kernelGs THEN @ ELSE Swap(@)]
     /\ IF irq[t][1].frame
          THEN usp' = [usp EXCEPT ![t] = TopFrame(t)] /\ frames' = Pop(t)
          ELSE UNCHANGED <<usp, frames>>
     /\ irq' = [irq EXCEPT ![t] = NoHandler]
     /\ UNCHANGED <<cur, pc, perCpu>>

-----------------------------------------------------------------------------

\* start_scheduler has switched to the idle tasks and set no stack pointer.
Init ==
  /\ cur = [c \in CPU |-> c]
  /\ pc = [t \in Task |-> IF t \in CPU THEN "setup" ELSE "new"]
  /\ irq = [t \in Task |-> NoHandler]
  /\ frames = [t \in Task |-> IF t \in CPU THEN <<t>> ELSE <<>>]
  /\ usp = [t \in Task |-> t]
  /\ gs = [c \in CPU |-> "kernel"]
  /\ scratch = [c \in CPU |-> None]
  /\ topks = [c \in CPU |-> Unset]
  /\ rsp0 = [c \in CPU |-> Unset]

Next ==
  \E c \in CPU :
    \/ StoreKernelStack(c) \/ LoadUserStack(c) \/ SwapGs(c) \/ Sysret(c)
    \/ SyscallEntry(c) \/ PushRegisters(c) \/ SyscallExit(c) \/ SyscallReturn(c)
    \/ Interrupt(c) \/ InterruptReturn(c)
    \/ \E t \in Task : SwitchToTask(c, t)

Spec == Init /\ [][Next]_vars

-----------------------------------------------------------------------------
(* Properties *)

InUserMode(t) == irq[t] = NoHandler /\ pc[t] = "user"

\* User code, and the last instruction before it, runs with the user's GS; all
\* other code with the per-CPU area, wherever an interrupt or a switch came in
\* between (with_swapgs_accounting tests GSBASE, not the ring).  User code runs
\* with RSP0 "set to the kernel stack for the task currently running on the
\* CPU", where a system call enters, too, and with its own stack pointer; what
\* is saved on a task's kernel stack is its own, whatever ran in between.
ModesKeptApart ==
  /\ \A c \in CPU :
       /\ gs[c] = "user" <=> irq[cur[c]] = NoHandler /\ pc[cur[c]] \in {"swapped", "user"}
       /\ InUserMode(cur[c]) => rsp0[c] = TopAddr(cur[c]) /\ topks[c].stack = cur[c]
  /\ \A t \in Task :
       /\ InUserMode(t) => usp[t] = t
       /\ pc[t] = "sys" => frames[t] # <<>>
       /\ \A i \in DOMAIN frames[t] : frames[t][i] = t
============================================================================
