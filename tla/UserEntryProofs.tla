-------------------------- MODULE UserEntryProofs ---------------------------
(***************************************************************************)
(* User and kernel mode are kept apart on any number of CPUs and for any   *)
(* number of tasks: proofs about UserEntry.                                *)
(***************************************************************************)
EXTENDS UserEntry, TLAPS

\* Every CPU has an idle task of its own, and idle tasks stay in the kernel.
UserConstants == CPU \subseteq KernelTask /\ UserTask \cap KernelTask = {}

Locs == {"new", "setup", "stored", "rsp", "swapped", "user", "enter", "sys", "dead"}

StackPointer == [stack : Task \cup {None}, depth : Nat]

Typed ==
  /\ cur \in [CPU -> Task]
  /\ pc \in [Task -> Locs]
  /\ irq \in [Task -> Seq([kernelGs : BOOLEAN, frame : BOOLEAN])]
  /\ frames \in [Task -> Seq(Task)]
  /\ usp \in [Task -> Task]
  /\ gs \in [CPU -> {"kernel", "user"}]
  /\ scratch \in [CPU -> Task \cup {None}]
  /\ topks \in [CPU -> StackPointer]
  /\ rsp0 \in [CPU -> StackPointer]

\* What a CPU's registers and per-CPU variables say of the task on it.  They
\* mean something only for tasks that go to user mode: the idle tasks start
\* before any of them is set.
CpuFits(c) ==
  /\ gs[c] = "user" <=> irq[cur[c]] = NoHandler /\ pc[cur[c]] \in {"swapped", "user"}
  /\ cur[c] \in UserTask => rsp0[c] = TopAddr(cur[c]) /\ topks[c].stack = cur[c]
  /\ pc[cur[c]] = "enter" => scratch[c] = cur[c]
  /\ pc[cur[c]] # "new"

Own(s, t) == \A i \in DOMAIN s : s[i] = t

\* What is saved for a task is its own, and a handler knows what it interrupted.
TaskFits(t) ==
  /\ usp[t] = t
  /\ Own(frames[t], t)
  /\ pc[t] \notin {"new", "setup"} => t \in UserTask
  /\ pc[t] = "sys" => frames[t] # <<>>
  /\ irq[t] # NoHandler =>
       /\ pc[t] \in {"setup", "stored", "rsp", "swapped", "user"}
       /\ irq[t][1].kernelGs <=> pc[t] \notin {"swapped", "user"}
       /\ irq[t][1].frame => frames[t] # <<>>

\* A task that is on no CPU was switched away from in kernel code.
AwayInKernel(t) == irq[t] # NoHandler \/ pc[t] \in {"new", "setup", "sys", "dead"}

Inv ==
  /\ Typed
  /\ \A c, d \in CPU : cur[c] = cur[d] => c = d
  /\ \A c \in CPU : CpuFits(c)
  /\ \A t \in Task : TaskFits(t) /\ (AwayInKernel(t) \/ \E c \in CPU : cur[c] = t)

-----------------------------------------------------------------------------
(* Kernel stacks *)

LEMMA PushOwn ==
  ASSUME NEW t \in Task, NEW s \in Seq(Task), Own(s, t), NEW n \in Nat
  PROVE  /\ Append(Below(s, n), t) \in Seq(Task)
         /\ Append(Below(s, n), t) # <<>>
         /\ Own(Append(Below(s, n), t), t)
<1> DEFINE k == IF n < Len(s) THEN n ELSE Len(s)
           b == SubSeq(s, 1, k)
<1>1. k \in Nat /\ k <= Len(s) /\ Len(s) \in Nat /\ DOMAIN s = 1..Len(s)
  OBVIOUS
<1>2. b \in Seq(Task) /\ Len(b) = k /\ \A i \in 1..k : b[i] = s[i]
  BY <1>1
<1>3. \A i \in 1..k : b[i] = t
  BY <1>1, <1>2 DEF Own
<1> HIDE DEF k, b
<1>4. /\ Append(b, t) \in Seq(Task) /\ Append(b, t) # <<>>
      /\ \A i \in DOMAIN Append(b, t) : Append(b, t)[i] = t
  BY SMTT(30), SMTT(60), <1>1, <1>2, <1>3
<1> QED BY <1>4 DEF Own, Below, b, k

LEMMA PopOwn ==
  ASSUME NEW t \in Task, NEW s \in Seq(Task), Own(s, t), s # <<>>
  PROVE  /\ SubSeq(s, 1, Len(s) - 1) \in Seq(Task)
         /\ Own(SubSeq(s, 1, Len(s) - 1), t)
         /\ s[Len(s)] = t /\ Len(s) - 1 \in Nat
<1>1. Len(s) \in Nat \ {0} /\ DOMAIN s = 1..Len(s)
  OBVIOUS
<1>2. /\ SubSeq(s, 1, Len(s) - 1) \in Seq(Task) /\ Len(SubSeq(s, 1, Len(s) - 1)) = Len(s) - 1
      /\ \A i \in 1..(Len(s) - 1) : SubSeq(s, 1, Len(s) - 1)[i] = s[i]
  BY <1>1
<1> QED BY <1>1, <1>2 DEF Own

-----------------------------------------------------------------------------
(* The steps of a CPU *)

\* A step that leaves the CPU on its task concerns that CPU and that task only.
LEMMA OneCpu ==
  ASSUME Inv, NEW c \in CPU, UNCHANGED cur, Typed',
         \A d \in CPU \ {c} :
           /\ gs'[d] = gs[d] /\ scratch'[d] = scratch[d]
           /\ topks'[d] = topks[d] /\ rsp0'[d] = rsp0[d],
         \A u \in Task \ {cur[c]} :
           /\ pc'[u] = pc[u] /\ irq'[u] = irq[u]
           /\ frames'[u] = frames[u] /\ usp'[u] = usp[u],
         CpuFits(c)', TaskFits(cur[c])'
  PROVE  Inv'
<1>1. cur[c] \in Task /\ \A d \in CPU : cur[d] \in Task /\ (d # c => cur[d] # cur[c])
  BY DEF Inv, Typed
<1>2. ASSUME NEW d \in CPU PROVE CpuFits(d)'
  <2>1. CASE d = c
    BY <2>1
  <2>2. CASE d # c
    BY <1>1, <2>2 DEF Inv, CpuFits
  <2> QED BY <2>1, <2>2
<1>3. ASSUME NEW u \in Task
      PROVE  TaskFits(u)' /\ (AwayInKernel(u)' \/ \E d \in CPU : cur'[d] = u)
  <2>1. CASE u = cur[c]
    BY SMTT(30), SMTT(60), <2>1
  <2>2. CASE u # cur[c]
    BY <2>2 DEF Inv, TaskFits, AwayInKernel
  <2> QED BY SMTT(30), SMTT(60), <2>1, <2>2
<1> QED BY <1>2, <1>3 DEF Inv

LEMMA InitInv ==
  ASSUME UserConstants
  PROVE  Init => Inv
<1> SUFFICES ASSUME Init PROVE Inv
  OBVIOUS
<1>1. CPU \subseteq Task /\ \A c \in CPU : c \notin UserTask
  BY DEF UserConstants, Task
<1>2. Unset \in StackPointer
  BY DEF Unset, StackPointer
<1>3. Typed
  BY <1>1, <1>2 DEF Init, Typed, NoHandler, Locs
<1>4. \A c \in CPU : cur[c] = c /\ CpuFits(c)
  BY ZenonT(60), <1>1 DEF Init, CpuFits
<1>5. \A t \in Task : TaskFits(t) /\ AwayInKernel(t)
  BY DEF Init, TaskFits, AwayInKernel, Own, NoHandler
<1> QED BY <1>3, <1>4, <1>5 DEF Inv

\* Steps of the task's own code that move no frame.
LEMMA OwnCodeInv ==
  ASSUME Inv, NEW c \in CPU,
         \/ StoreKernelStack(c) \/ LoadUserStack(c) \/ SwapGs(c) \/ Sysret(c)
         \/ SyscallEntry(c) \/ SyscallExit(c)
  PROVE  Inv'
<1> DEFINE t == cur[c]
<1> USE DEF At
<1>1. /\ Typed /\ t \in Task /\ CpuFits(c) /\ TaskFits(t) /\ UNCHANGED <<cur, irq, frames>>
      /\ irq[t] = NoHandler /\ frames[t] \in Seq(Task) /\ Len(frames[t]) \in Nat
  BY SMTT(30), SMTT(60) DEF Inv, Typed, StoreKernelStack, LoadUserStack, SwapGs, Sysret, SyscallEntry, SyscallExit
<1>2. CASE StoreKernelStack(c)
  <2>1. Typed'
    BY <1>1, <1>2 DEF Typed, StoreKernelStack, StackPointer, Locs
  <2>2. CpuFits(c)' /\ TaskFits(t)'
    BY <1>1, <1>2 DEF Typed, StoreKernelStack, CpuFits, TaskFits
  <2> QED BY ZenonT(60), <1>1, <1>2, <2>1, <2>2, OneCpu DEF Typed, StoreKernelStack
<1>3. CASE LoadUserStack(c)
  <2>1. Typed'
    BY <1>1, <1>3 DEF Typed, LoadUserStack, perCpu, Locs
  <2>2. CpuFits(c)' /\ TaskFits(t)'
    BY <1>1, <1>3 DEF Typed, LoadUserStack, perCpu, CpuFits, TaskFits
  <2> QED BY ZenonT(60), <1>1, <1>3, <2>1, <2>2, OneCpu DEF Typed, LoadUserStack, perCpu
<1>4. CASE SwapGs(c)
  <2>1. Typed'
    BY <1>1, <1>4 DEF Typed, SwapGs, Swap, perCpu, Locs
  <2>2. CpuFits(c)' /\ TaskFits(t)'
    BY <1>1, <1>4 DEF Typed, SwapGs, Swap, perCpu, CpuFits, TaskFits
  <2> QED BY ZenonT(60), <1>1, <1>4, <2>1, <2>2, OneCpu DEF Typed, SwapGs, perCpu
<1>5. CASE Sysret(c)
  <2>1. Typed'
    BY <1>1, <1>5 DEF Typed, Sysret, perCpu, Locs
  <2>2. CpuFits(c)' /\ TaskFits(t)'
    BY <1>1, <1>5 DEF Typed, Sysret, perCpu, CpuFits, TaskFits
  <2> QED BY ZenonT(60), <1>1, <1>5, <2>1, <2>2, OneCpu DEF Typed, Sysret, perCpu
<1>6. CASE SyscallEntry(c)
  <2>1. Typed'
    BY <1>1, <1>6 DEF Typed, SyscallEntry, Swap, Locs
  <2>2. CpuFits(c)' /\ TaskFits(t)'
    BY <1>1, <1>6 DEF Typed, SyscallEntry, Swap, CpuFits, TaskFits
  <2> QED BY ZenonT(60), <1>1, <1>6, <2>1, <2>2, OneCpu DEF Typed, SyscallEntry
<1>7. CASE SyscallExit(c)
  <2>1. Typed'
    BY <1>1, <1>7 DEF Typed, SyscallExit, perCpu, Locs
  <2>2. CpuFits(c)' /\ TaskFits(t)'
    BY <1>1, <1>7 DEF Typed, SyscallExit, perCpu, CpuFits, TaskFits
  <2> QED BY ZenonT(60), <1>1, <1>7, <2>1, <2>2, OneCpu DEF Typed, SyscallExit, perCpu
<1> QED BY SMTT(30), SMTT(60), <1>2, <1>3, <1>4, <1>5, <1>6, <1>7

\* The registers of a system call go to the task's own stack.
LEMMA PushRegistersInv ==
  ASSUME Inv, NEW c \in CPU, PushRegisters(c)
  PROVE  Inv'
<1> DEFINE t == cur[c]
           s == Append(Below(frames[t], topks[c].depth), t)
<1>1. /\ Typed /\ t \in Task /\ CpuFits(c) /\ TaskFits(t) /\ UNCHANGED cur
      /\ irq[t] = NoHandler /\ pc[t] = "enter" /\ t \in UserTask
  BY ZenonT(60) DEF Inv, Typed, PushRegisters, At, TaskFits
<1>2. /\ topks[c].stack = t /\ scratch[c] = t /\ topks[c].depth \in Nat
      /\ frames[t] \in Seq(Task) /\ Own(frames[t], t)
  BY <1>1 DEF CpuFits, TaskFits, Typed, StackPointer
<1>3. s \in Seq(Task) /\ s # <<>> /\ Own(s, t)
  BY SMTT(30), SMTT(60), <1>1, <1>2, PushOwn
<1>4. frames' = [frames EXCEPT ![t] = s] /\ pc' = [pc EXCEPT ![t] = "sys"]
  BY SMTT(30), SMTT(60), <1>2 DEF PushRegisters, PushAt
<1> HIDE DEF s
<1>5. Typed'
  BY SMTT(30), SMTT(60), <1>1, <1>3, <1>4 DEF PushRegisters, Typed, perCpu, Locs
<1>6. CpuFits(c)' /\ TaskFits(t)'
  BY SMTT(30), SMTT(60), <1>1, <1>3, <1>4 DEF PushRegisters, Typed, perCpu, CpuFits, TaskFits
<1> QED BY ZenonT(60), <1>1, <1>4, <1>5, <1>6, OneCpu DEF PushRegisters, Typed, perCpu

\* A system call returns to the stack pointer that it saved.
LEMMA SyscallReturnInv ==
  ASSUME Inv, NEW c \in CPU, SyscallReturn(c)
  PROVE  Inv'
<1> DEFINE t == cur[c]
           s == SubSeq(frames[t], 1, Len(frames[t]) - 1)
<1>1. /\ Typed /\ t \in Task /\ CpuFits(c) /\ TaskFits(t) /\ UNCHANGED <<cur, irq>>
      /\ irq[t] = NoHandler /\ pc[t] = "sys"
  BY DEF Inv, Typed, SyscallReturn, At
<1>2. s \in Seq(Task) /\ Own(s, t) /\ TopFrame(t) = t /\ Len(frames[t]) - 1 \in Nat
  BY <1>1, PopOwn DEF TaskFits, Typed, TopFrame
<1>3. /\ frames' = [frames EXCEPT ![t] = s] /\ pc' = [pc EXCEPT ![t] = "user"]
      /\ usp' = [usp EXCEPT ![t] = t] /\ gs' = [gs EXCEPT ![c] = Swap(@)]
      /\ topks' = [topks EXCEPT ![c] = [stack |-> t, depth |-> Len(frames[t]) - 1]]
      /\ UNCHANGED <<scratch, rsp0>>
  BY <1>2 DEF SyscallReturn, UserStackPointer, Pop
<1>4. [stack |-> t, depth |-> Len(frames[t]) - 1] \in StackPointer
  BY <1>1, <1>2 DEF StackPointer
<1> HIDE DEF s
<1>5. Typed'
  BY SMTT(30), SMTT(60), <1>1, <1>2, <1>3, <1>4 DEF Typed, Swap, Locs
<1>6. CpuFits(c)' /\ TaskFits(t)'
  BY <1>1, <1>2, <1>3, <1>4 DEF Typed, Swap, CpuFits, TaskFits
<1> QED BY ZenonT(60), <1>1, <1>3, <1>5, <1>6, OneCpu DEF Typed

\* An interrupt saves its frame on the task's own kernel stack, or on the user
\* stack between "mov rsp" and sysretq.
LEMMA InterruptInv ==
  ASSUME Inv, NEW c \in CPU, Interrupt(c)
  PROVE  Inv'
<1> DEFINE t == cur[c]
           h(f) == <<[kernelGs |-> gs[c] = "kernel", frame |-> f]>>
<1>1. /\ Typed /\ t \in Task /\ CpuFits(c) /\ TaskFits(t) /\ UNCHANGED <<cur, pc, usp, perCpu>>
      /\ irq[t] = NoHandler /\ pc[t] \in {"setup", "stored", "rsp", "swapped", "user"}
      /\ gs' = [gs EXCEPT ![c] = "kernel"]
  BY ZenonT(60) DEF Inv, Typed, Interrupt, InterruptsOn, CameFromKernel, Swap
<1>2. PICK f \in BOOLEAN, n \in Nat :
        /\ irq' = [irq EXCEPT ![t] = h(f)]
        /\ frames' = IF f THEN [frames EXCEPT ![t] = Append(Below(@, n), t)] ELSE frames
  <2>1. frames[t] \in Seq(Task) /\ Len(frames[t]) \in Nat /\ usp[t] = t
    BY <1>1 DEF Typed, TaskFits
  <2>2. CASE pc[t] = "user"
    <3>1. rsp0[c] = TopAddr(t)
      BY <1>1, <2>2 DEF CpuFits, TaskFits
    <3> DEFINE f == TopAddr(t) # Unset
    <3>2. /\ irq' = [irq EXCEPT ![t] = h(f)]
          /\ frames' = IF ~f THEN frames ELSE PushAt(TopAddr(t), t)
      BY <2>1, <2>2, <3>1 DEF Interrupt, CameFromKernel
    <3>3. PushAt(TopAddr(t), t) = [frames EXCEPT ![t] = Append(Below(@, 0), t)]
      BY DEF PushAt, TopAddr
    <3> HIDE DEF f, h
    <3>4. f \in BOOLEAN
      BY SMTT(30), SMTT(60) DEF f
    <3> QED BY ZenonT(60), <3>2, <3>3, <3>4
  <2>3. CASE pc[t] \in {"rsp", "swapped"}
    BY ZenonT(60), <2>1, <2>3 DEF Interrupt, CameFromKernel
  <2>4. CASE pc[t] \in {"setup", "stored"}
    BY ZenonT(60), <2>1, <2>4 DEF Interrupt, PushAt, CameFromKernel
  <2> QED BY ZenonT(60), <1>1, <2>2, <2>3, <2>4
<1>3. /\ Append(Below(frames[t], n), t) \in Seq(Task)
      /\ Append(Below(frames[t], n), t) # <<>>
      /\ Own(Append(Below(frames[t], n), t), t)
  BY ZenonT(60), <1>1, PushOwn DEF Typed, TaskFits
<1>4. /\ h(f) \in Seq([kernelGs : BOOLEAN, frame : BOOLEAN]) /\ h(f) # NoHandler
      /\ h(f)[1].kernelGs <=> gs[c] = "kernel"
      /\ h(f)[1].frame <=> f
  <2> DEFINE r == [kernelGs |-> gs[c] = "kernel", frame |-> f]
  <2>1. /\ r \in [kernelGs : BOOLEAN, frame : BOOLEAN]
        /\ (r.kernelGs <=> gs[c] = "kernel") /\ (r.frame <=> f)
    BY ZenonT(60)
  <2> HIDE DEF r
  <2>2. /\ <<r>> \in Seq([kernelGs : BOOLEAN, frame : BOOLEAN])
        /\ <<r>> # <<>> /\ <<r>>[1] = r
    BY <2>1
  <2> QED BY ZenonT(60), <2>1, <2>2 DEF NoHandler, r
<1> HIDE DEF h
<1>5. /\ irq'[t] = h(f) /\ frames'[t] \in Seq(Task) /\ Own(frames'[t], t)
      /\ f => frames'[t] # <<>>
  BY SMTT(30), SMTT(60), <1>1, <1>2, <1>3 DEF Typed, TaskFits
<1>6. Typed'
  BY SMTT(30), SMTT(60), <1>1, <1>2, <1>3, <1>4 DEF Typed, perCpu
<1>7. CpuFits(c)' /\ TaskFits(t)'
  BY SMTT(30), SMTT(60), <1>1, <1>4, <1>5 DEF Typed, perCpu, CpuFits, TaskFits
<1> QED BY ZenonT(60), <1>1, <1>2, <1>6, <1>7, OneCpu DEF Typed, perCpu

\* The end of a handler restores what its start found.
LEMMA InterruptReturnInv ==
  ASSUME Inv, NEW c \in CPU, InterruptReturn(c)
  PROVE  Inv'
<1> DEFINE t == cur[c]
           s == SubSeq(frames[t], 1, Len(frames[t]) - 1)
<1>1. /\ Typed /\ t \in Task /\ CpuFits(c) /\ TaskFits(t) /\ UNCHANGED <<cur, pc, perCpu>>
      /\ irq[t] # NoHandler /\ irq' = [irq EXCEPT ![t] = NoHandler]
      /\ gs' = [gs EXCEPT ![c] = IF irq[t][1].kernelGs THEN @ ELSE Swap(@)]
  BY DEF Inv, Typed, InterruptReturn
<1>2. gs[c] = "kernel" /\ (irq[t][1].kernelGs <=> pc[t] \notin {"swapped", "user"})
  BY <1>1 DEF CpuFits, TaskFits, Typed
<1>3. PICK q \in Seq(Task) :
        /\ Own(q, t) /\ frames' = [frames EXCEPT ![t] = q] /\ usp' = [usp EXCEPT ![t] = t]
  <2>1. CASE irq[t][1].frame
    <3>1. s \in Seq(Task) /\ Own(s, t) /\ TopFrame(t) = t
      BY <1>1, <2>1, PopOwn DEF TaskFits, Typed, TopFrame
    <3> QED BY ZenonT(60), <2>1, <3>1 DEF InterruptReturn, Pop
  <2>2. CASE ~irq[t][1].frame
    <3>1. UNCHANGED <<usp, frames>>
      BY <2>2 DEF InterruptReturn
    <3>2. usp = [usp EXCEPT ![t] = t] /\ frames = [frames EXCEPT ![t] = frames[t]]
      BY <1>1 DEF Typed, TaskFits
    <3> QED BY <1>1, <3>1, <3>2 DEF Typed, TaskFits
  <2> QED BY <2>1, <2>2
<1>4. Typed'
  BY <1>1, <1>3 DEF Typed, perCpu, NoHandler, Swap
<1>5. CpuFits(c)' /\ TaskFits(t)'
  BY SMTT(30), SMTT(60), <1>1, <1>2, <1>3 DEF Typed, perCpu, CpuFits, TaskFits, Swap
<1> QED BY ZenonT(60), <1>1, <1>3, <1>4, <1>5, OneCpu DEF Typed, perCpu

\* A switch leaves a task in kernel code, enters one that was left in kernel code
\* or is new, and points the per-CPU stack pointers at its stack.
LEMMA SwitchInv ==
  ASSUME Inv, NEW c \in CPU, NEW t \in Task, SwitchToTask(c, t)
  PROVE  Inv'
<1>1. /\ Typed /\ cur[c] \in Task /\ CpuFits(c) /\ TaskFits(t) /\ cur[c] # t
      /\ \A d \in CPU : cur[d] # t /\ cur[d] \in Task
      /\ AwayInKernel(t) /\ AwayInKernel(cur[c])
      /\ UNCHANGED <<irq, usp, gs, scratch>>
  BY SMTT(30), SMTT(60) DEF Inv, Typed, SwitchToTask, AwayInKernel
<1>2. /\ cur' = [cur EXCEPT ![c] = t] /\ topks' = [topks EXCEPT ![c] = TopAddr(t)]
      /\ rsp0' = [rsp0 EXCEPT ![c] = TopAddr(t)] /\ TopAddr(t) \in StackPointer
      /\ TopAddr(t).stack = t
  BY SMTT(30), SMTT(60) DEF SwitchToTask, ResetStackPointers, SetTssRsp0, TopAddr, StackPointer
<1>3. /\ pc' = [pc EXCEPT ![t] = IF @ = "new" THEN "setup" ELSE @]
      /\ frames' = [frames EXCEPT ![t] = IF pc[t] = "new" THEN <<t>> ELSE @]
  BY SMTT(30), SMTT(60), <1>1 DEF SwitchToTask, Typed
<1>4. Typed'
  BY <1>1, <1>2, <1>3 DEF Typed, Locs
<1>5. ASSUME NEW d \in CPU PROVE CpuFits(d)'
  <2>1. CASE d = c
    <3>1. gs[c] = "kernel" /\ cur'[c] = t /\ pc'[t] # "new" /\ pc'[t] # "enter"
      BY SMTT(30), SMTT(60), <1>1, <1>2, <1>3 DEF Typed, CpuFits, TaskFits, AwayInKernel
    <3>2. irq[t] # NoHandler \/ pc'[t] \notin {"swapped", "user"}
      BY SMTT(30), SMTT(60), <1>1, <1>3 DEF Typed, AwayInKernel
    <3> QED BY SMTT(30), SMTT(60), <1>1, <1>2, <2>1, <3>1, <3>2 DEF Typed, CpuFits
  <2>2. CASE d # c
    <3>1. cur'[d] = cur[d] /\ pc'[cur[d]] = pc[cur[d]] /\ topks'[d] = topks[d] /\ rsp0'[d] = rsp0[d]
      BY <1>1, <1>2, <1>3, <2>2 DEF Typed
    <3> QED BY SMTT(30), SMTT(60), <1>1, <3>1 DEF Inv, CpuFits
  <2> QED BY SMTT(30), SMTT(60), <2>1, <2>2
<1>6. ASSUME NEW u \in Task
      PROVE  TaskFits(u)' /\ (AwayInKernel(u)' \/ \E d \in CPU : cur'[d] = u)
  <2>1. CASE u = t
    <3>1. TaskFits(t)'
      <4>1. Own(<<t>>, t) /\ <<t>> # <<>>
        BY SMTT(30), SMTT(60) DEF Own
      <4>2. CASE pc[t] = "new"
        BY SMTT(30), SMTT(60), <1>1, <1>3, <4>1, <4>2 DEF Typed, TaskFits
      <4>3. CASE pc[t] # "new"
        BY <1>1, <1>3, <4>3 DEF Typed, TaskFits
      <4> QED BY <4>2, <4>3
    <3> QED BY <1>1, <1>2, <2>1, <3>1 DEF Typed
  <2>2. CASE u # t
    <3>1. pc'[u] = pc[u] /\ frames'[u] = frames[u]
      BY SMTT(30), SMTT(60), <1>1, <1>3, <2>2 DEF Typed
    <3>2. TaskFits(u)'
      BY SMTT(30), SMTT(60), <1>1, <3>1 DEF Inv, TaskFits
    <3>3. AwayInKernel(u)' \/ \E d \in CPU : cur'[d] = u
      BY SMTT(30), SMTT(60), <1>1, <1>2, <3>1 DEF Inv, AwayInKernel, Typed
    <3> QED BY SMTT(30), SMTT(60), <3>2, <3>3
  <2> QED BY SMTT(30), SMTT(60), <2>1, <2>2
<1>7. \A d, e \in CPU : cur'[d] = cur'[e] => d = e
  BY <1>1, <1>2 DEF Inv, Typed
<1> QED BY SMTT(30), SMTT(60), <1>4, <1>5, <1>6, <1>7 DEF Inv

-----------------------------------------------------------------------------
(* The theorem *)

\* Wherever interrupts and task switches come between the instructions of
\* jump_to_userspace, of a system call and of the handlers, on any number of CPUs:
\* user code runs with the user's GS and all other code with the per-CPU area,
\* RSP0 and the system call stack of user code are its own task's, and what is
\* saved on a task's kernel stack is the task's own.
THEOREM UserModeKeptApart ==
  ASSUME UserConstants
  PROVE  Spec => []ModesKeptApart
<1>1. Inv /\ [Next]_vars => Inv'
  <2> SUFFICES ASSUME Inv, [Next]_vars PROVE Inv'
    BY SMTT(30), SMTT(60)
  <2>1. CASE UNCHANGED vars
    BY SMTT(30), SMTT(60), <2>1 DEF vars, Inv, Typed, CpuFits, TaskFits, AwayInKernel
  <2>2. CASE Next
    BY SMTT(30), SMTT(60), <2>2, OwnCodeInv, PushRegistersInv, SyscallReturnInv, InterruptInv, InterruptReturnInv,
       SwitchInv DEF Next
  <2> QED BY <2>1, <2>2
<1>2. Inv => ModesKeptApart
  <2> SUFFICES ASSUME Inv PROVE ModesKeptApart
    BY SMTT(30), SMTT(60)
  <2>1. ASSUME NEW c \in CPU
        PROVE  /\ gs[c] = "user" <=> irq[cur[c]] = NoHandler /\ pc[cur[c]] \in {"swapped", "user"}
               /\ InUserMode(cur[c]) => rsp0[c] = TopAddr(cur[c]) /\ topks[c].stack = cur[c]
    BY SMTT(30), SMTT(60) DEF Inv, Typed, CpuFits, TaskFits, InUserMode
  <2>2. ASSUME NEW t \in Task
        PROVE  /\ InUserMode(t) => usp[t] = t
               /\ pc[t] = "sys" => frames[t] # <<>>
               /\ \A i \in DOMAIN frames[t] : frames[t][i] = t
    BY DEF Inv, TaskFits, Own
  <2> QED BY <2>1, <2>2 DEF ModesKeptApart
<1> QED BY InitInv, <1>1, <1>2, PTL DEF Spec
=============================================================================
