------------------------ MODULE SchedulerInvariant ------------------------
(***************************************************************************)
(* The inductive invariant of the scheduler and what its proof rests on:   *)
(* facts about queues without repetition, and which parts of the invariant *)
(* survive a step that leaves their variables alone or only moves one      *)
(* thread along its code.  Then one lemma per step of run_scheduler and of *)
(* the switch to the next thread.                                          *)
(***************************************************************************)
EXTENDS Scheduler, TLAPS

\* The inductive invariant: every part is needed to preserve another one.
IInv ==
  /\ TypeOK
  /\ RunQueueExclusion
  /\ StacksSafe
  /\ QueueComplete
  /\ PreemptBalanced
  /\ NoInterruptUnderLock
  /\ IdleOwnCpu
  /\ ThreadShape

-----------------------------------------------------------------------------
(* Sequences without repetition *)

LEMMA SeqTail ==
  ASSUME NEW S, NEW s \in Seq(S), s # <<>>
  PROVE  /\ Head(s) \in S
         /\ Tail(s) \in Seq(S)
         /\ Range(s) = {Head(s)} \cup Range(Tail(s))
         /\ IsInjective(s) => Head(s) \notin Range(Tail(s))
         /\ IsInjective(s) => IsInjective(Tail(s))
<1>1. /\ Tail(s) \in Seq(S) /\ Head(s) \in S /\ Head(s) = s[1]
      /\ Len(s) \in Nat \ {0} /\ DOMAIN s = 1..Len(s)
      /\ DOMAIN Tail(s) = 1..Len(s) - 1
      /\ \A i \in 1..Len(s) - 1 : Tail(s)[i] = s[i + 1]
  BY SMTT(30), SMTT(60)
<1>2. \A i \in 2..Len(s) : i - 1 \in 1..Len(s) - 1 /\ Tail(s)[i - 1] = s[i]
  BY SMTT(30), SMTT(60), <1>1
<1>3. Range(s) = {Head(s)} \cup Range(Tail(s))
  <2>1. ASSUME NEW i \in 1..Len(s) PROVE s[i] \in {Head(s)} \cup Range(Tail(s))
    <3>1. CASE i = 1
      BY ZenonT(60), <1>1, <3>1
    <3>2. CASE i # 1
      <4>1. i - 1 \in DOMAIN Tail(s) /\ Tail(s)[i - 1] = s[i]
        BY SMTT(30), SMTT(60), <1>1, <1>2, <3>2
      <4> QED BY ZenonT(60), <4>1 DEF Range
    <3> QED BY ZenonT(60), <3>1, <3>2
  <2>2. ASSUME NEW i \in 1..Len(s) - 1 PROVE Tail(s)[i] \in Range(s)
    <3>1. i + 1 \in DOMAIN s /\ Tail(s)[i] = s[i + 1]
      BY SMTT(30), SMTT(60), <1>1
    <3> QED BY ZenonT(60), <3>1 DEF Range
  <2>3. Head(s) \in Range(s)
    BY SMTT(30), SMTT(60), <1>1 DEF Range
  <2> QED BY SMTT(30), SMTT(60), <1>1, <2>1, <2>2, <2>3 DEF Range
<1>4. IsInjective(s) => Head(s) \notin Range(Tail(s)) /\ IsInjective(Tail(s))
  BY SMTT(30), SMTT(60), <1>1 DEF Range, IsInjective
<1> QED BY ZenonT(60), <1>1, <1>3, <1>4

LEMMA SeqAppend ==
  ASSUME NEW S, NEW s \in Seq(S), NEW x \in S
  PROVE  /\ Append(s, x) \in Seq(S)
         /\ Range(Append(s, x)) = Range(s) \cup {x}
         /\ IsInjective(s) /\ x \notin Range(s) => IsInjective(Append(s, x))
<1>1. /\ Append(s, x) \in Seq(S) /\ Len(s) \in Nat /\ DOMAIN s = 1..Len(s)
      /\ DOMAIN Append(s, x) = 1..Len(s) + 1
      /\ \A i \in 1..Len(s) : Append(s, x)[i] = s[i]
      /\ Append(s, x)[Len(s) + 1] = x
  BY SMTT(30), SMTT(60)
<1> QED BY SMTT(30), SMTT(60), <1>1 DEF Range, IsInjective

LEMMA SeqConcat ==
  ASSUME NEW S, NEW s \in Seq(S), NEW q \in Seq(S)
  PROVE  /\ s \o q \in Seq(S)
         /\ Range(s \o q) = Range(s) \cup Range(q)
         /\ /\ IsInjective(s)
            /\ IsInjective(q)
            /\ Range(s) \cap Range(q) = {}
            => IsInjective(s \o q)
<1>1. /\ s \o q \in Seq(S) /\ Len(s) \in Nat /\ Len(q) \in Nat
      /\ DOMAIN s = 1..Len(s) /\ DOMAIN q = 1..Len(q)
      /\ DOMAIN (s \o q) = 1..Len(s) + Len(q)
      /\ \A i \in 1..Len(s) + Len(q) :
           (s \o q)[i] = IF i <= Len(s) THEN s[i] ELSE q[i - Len(s)]
  BY SMTT(30), SMTT(60)
<1>2. Range(s \o q) = Range(s) \cup Range(q)
  <2>1. ASSUME NEW k \in 1..Len(s) PROVE s[k] \in Range(s \o q)
    <3>1. k \in DOMAIN (s \o q) /\ (s \o q)[k] = s[k]
      BY SMTT(30), SMTT(60), <1>1
    <3> QED BY ZenonT(60), <3>1 DEF Range
  <2>2. ASSUME NEW k \in 1..Len(q) PROVE q[k] \in Range(s \o q)
    <3>1. Len(s) + k \in DOMAIN (s \o q) /\ (s \o q)[Len(s) + k] = q[k]
      BY SMTT(30), SMTT(60), <1>1
    <3> QED BY ZenonT(60), <3>1 DEF Range
  <2>3. ASSUME NEW k \in 1..Len(s) + Len(q)
        PROVE  (s \o q)[k] \in Range(s) \cup Range(q)
    <3>1. CASE k <= Len(s)
      <4>1. k \in DOMAIN s /\ (s \o q)[k] = s[k]
        BY SMTT(30), SMTT(60), <1>1, <3>1
      <4> QED BY ZenonT(60), <4>1 DEF Range
    <3>2. CASE k > Len(s)
      <4>1. k - Len(s) \in DOMAIN q /\ (s \o q)[k] = q[k - Len(s)]
        BY SMTT(30), SMTT(60), <1>1, <3>2
      <4> QED BY ZenonT(60), <4>1 DEF Range
    <3> QED BY SMTT(30), SMTT(60), <1>1, <3>1, <3>2
  <2> QED BY ZenonT(60), <1>1, <2>1, <2>2, <2>3 DEF Range
<1>3. ASSUME IsInjective(s), IsInjective(q), Range(s) \cap Range(q) = {}
      PROVE  IsInjective(s \o q)
  <2> SUFFICES ASSUME NEW i \in 1..Len(s) + Len(q), NEW j \in 1..Len(s) + Len(q),
                      (s \o q)[i] = (s \o q)[j]
               PROVE  i = j
    BY ZenonT(60), <1>1 DEF IsInjective
  <2>1. CASE i <= Len(s) /\ j <= Len(s)
    BY SMTT(30), SMTT(60), <1>1, <1>3, <2>1 DEF IsInjective
  <2>2. CASE i > Len(s) /\ j > Len(s)
    BY SMTT(30), SMTT(60), <1>1, <1>3, <2>2 DEF IsInjective
  <2>3. ASSUME NEW k \in 1..Len(s) + Len(q)
        PROVE  /\ k <= Len(s) => (s \o q)[k] \in Range(s)
               /\ k > Len(s) => (s \o q)[k] \in Range(q)
    <3>1. CASE k <= Len(s)
      BY SMTT(30), SMTT(60), <1>1, <3>1 DEF Range
    <3>2. CASE k > Len(s)
      <4>1. k - Len(s) \in DOMAIN q /\ (s \o q)[k] = q[k - Len(s)]
        BY SMTT(30), SMTT(60), <1>1, <3>2
      <4> QED BY ONLY SMTT(30), SMTT(60), <1>1, <3>2, <4>1 DEF Range
    <3> QED BY ZenonT(60), <1>1, <3>1, <3>2
  <2>4. CASE (i <= Len(s)) # (j <= Len(s))
    BY SMTT(30), SMTT(60), <1>1, <1>3, <2>3, <2>4
  <2> QED BY SMTT(30), SMTT(60), <1>1, <2>1, <2>2, <2>3, <2>4
<1> QED BY ZenonT(60), <1>1, <1>2, <1>3

\* What pop_next_ready_pending_task leaves behind when it pops a task.
LEMMA SeqRotate ==
  ASSUME NEW S, NEW s \in Seq(S), NEW q \in Seq(S), s # <<>>,
         IsInjective(s), IsInjective(q), Range(s) \cap Range(q) = {}
  PROVE  /\ Tail(s) \o q \in Seq(S)
         /\ Range(Tail(s) \o q) = (Range(s) \cup Range(q)) \ {Head(s)}
         /\ IsInjective(Tail(s) \o q)
<1>1. PICK r : r = Tail(s)
  BY ZenonT(60)
<1>2. /\ r \in Seq(S) /\ IsInjective(r) /\ Head(s) \notin Range(r)
      /\ Range(s) = {Head(s)} \cup Range(r)
  BY ZenonT(60), <1>1, SeqTail
<1>3. /\ r \o q \in Seq(S) /\ Range(r \o q) = Range(r) \cup Range(q)
      /\ IsInjective(r \o q)
  BY ONLY SMTT(30), SMTT(60), <1>2, q \in Seq(S), IsInjective(q),
          Range(s) \cap Range(q) = {},
     SeqConcat
<1>4. Range(r) \cup Range(q) = (Range(s) \cup Range(q)) \ {Head(s)}
  BY ONLY ZenonT(60), <1>2, Range(s) \cap Range(q) = {}
<1> QED BY ZenonT(60), <1>1, <1>3, <1>4

\* The union of a function's values when one value changes.
LEMMA UnionInsert ==
  ASSUME NEW D, NEW f, NEW g, NEW t \in D, DOMAIN f = D, DOMAIN g = D,
         f[t] = {}, \A u \in D : u # t => g[u] = f[u]
  PROVE  UNION Range(g) = (UNION Range(f)) \cup g[t]
<1>1. DOMAIN g = D /\ \A u \in D : u # t => g[u] = f[u]
  OBVIOUS
<1>2. PICK U, V : U = UNION Range(f) /\ V = UNION Range(g)
  BY ZenonT(60)
<1>3. \A x : x \in U <=> \E u \in D : x \in f[u]
  BY ZenonT(60), <1>2 DEF Range
<1>4. \A x : x \in V <=> \E u \in D : x \in g[u]
  BY ZenonT(60), <1>1, <1>2 DEF Range
<1>5. V = U \cup g[t]
  BY ONLY ZenonT(60), <1>1, <1>3, <1>4, t \in D, f[t] = {}
<1> QED BY ONLY ZenonT(60), <1>2, <1>5

LEMMA UnionRemove ==
  ASSUME NEW D, NEW f, NEW g, NEW t \in D, DOMAIN f = D, DOMAIN g = D,
         \A u \in D : u # t => f[u] \cap f[t] = {},
         g[t] = {}, \A u \in D : u # t => g[u] = f[u]
  PROVE  UNION Range(g) = (UNION Range(f)) \ f[t]
<1>1. DOMAIN g = D /\ g[t] = {} /\ \A u \in D : u # t => g[u] = f[u]
  OBVIOUS
<1>2. PICK U, V : U = UNION Range(f) /\ V = UNION Range(g)
  BY ZenonT(60)
<1>3. \A x : x \in U <=> \E u \in D : x \in f[u]
  BY ZenonT(60), <1>2 DEF Range
<1>4. \A x : x \in V <=> \E u \in D : x \in g[u]
  BY ZenonT(60), <1>1, <1>2 DEF Range
<1>5. \A u \in D : u # t => f[u] \cap f[t] = {}
  OBVIOUS
<1>6. V = U \ f[t]
  BY ONLY ZenonT(60), <1>1, <1>3, <1>4, <1>5, t \in D
<1> QED BY ONLY ZenonT(60), <1>2, <1>6

-----------------------------------------------------------------------------
(* The stacks *)

Loc == KernelLocs \cup IrqLocs

\* The part of TypeOK the steps below rest on.
Typed ==
  /\ CPU \subseteq Thread /\ Task \subseteq Thread
  /\ \A t \in Thread : t \in CPU <=> t \notin Task
  /\ top \in [Thread -> Loc]
  /\ run \in [CPU -> Thread] /\ current \in [CPU -> Thread]
  /\ kpc \in [Thread -> KernelLocs] /\ irq \in [Thread -> IrqLocs]
  /\ desired \in [Thread -> States] /\ child \in [Thread -> SUBSET Task]
  /\ needs \in [CPU -> BOOLEAN] /\ ints \in [CPU -> BOOLEAN]
  /\ preempt \in [CPU -> Nat] /\ guards \in [Thread -> Nat]

LEMMA TypedHolds == TypeOK => Typed
<1> SUFFICES ASSUME TypeOK PROVE Typed
  OBVIOUS
<1>1. top \in [Thread -> Loc]
  BY ZenonT(60) DEF TypeOK, top, Loc
<1>2. guards \in [Thread -> Nat]
  BY SMTT(30), SMTT(60), SchedConstants DEF TypeOK
<1>3. /\ CPU \subseteq Thread /\ Task \subseteq Thread
      /\ \A t \in Thread : t \in CPU <=> t \notin Task
  BY ZenonT(60), SchedConstants DEF Thread
<1> QED BY ZenonT(60), <1>1, <1>2, <1>3 DEF TypeOK, Typed

LEMMA GotoTop ==
  ASSUME TypeOK, NEW t \in Thread, NEW l, l # "none", Goto(t, l)
  PROVE  top' = [top EXCEPT ![t] = l]
BY ZenonT(60) DEF TypeOK, top, Goto

\* While a CPU works on the run queue, every CPU executes its current task.
LEMMA LockedRun ==
  ASSUME IInv, NEW c \in CPU, top[run[c]] \in {"reap", "pop"}
  PROVE  \A d \in CPU : run[d] = current[d]
BY ZenonT(60)
   DEF IInv, RunQueueExclusion, HoldsRunQueue, LockedLocs, StacksSafe

\* A thread that holds a guard cannot be preempted.
LEMMA GuardsCounted ==
  ASSUME IInv, NEW c \in CPU, preempt[c] = 0
  PROVE  guards[run[c]] = 0 /\ top[run[c]] \notin CountedLocs
<1>1. /\ preempt[c] = guards[run[c]] +
                      (IF top[run[c]] \in CountedLocs THEN 1 ELSE 0)
      /\ guards[run[c]] \in Nat
  BY ZenonT(60), TypedHolds DEF IInv, PreemptBalanced, Typed
<1> QED BY SMTT(30), SMTT(60), <1>1

\* Who is current, and who is in the hands of new_task.
LEMMA Ranges ==
  ASSUME Typed
  PROVE  /\ \A x : x \in Range(current) <=> \E d \in CPU : current[d] = x
         /\ \A x : x \in UNION Range(child) <=> \E t \in Thread : x \in child[t]
BY SMTT(30), SMTT(60) DEF Typed, Range

LEMMA QueuedTasks == TypeOK => Queued \subseteq Task
<1>1. ASSUME NEW q \in Seq(Task) PROVE Range(q) \subseteq Task
  BY SMTT(30), SMTT(60) DEF Range
<1> QED BY ZenonT(60), <1>1 DEF TypeOK, Queued

LEMMA NoGuards ==
  ASSUME IInv, NEW c \in CPU, top[run[c]] \notin ClientLocs
  PROVE  guards[run[c]] = 0
<1>1. run[c] \in Thread /\ guards[run[c]] \in Nat
  BY ZenonT(60), TypedHolds DEF IInv, Typed
<1>2. irq[run[c]] = "none" => top[run[c]] = kpc[run[c]]
  BY ZenonT(60), <1>1 DEF top
<1> QED BY SMTT(30), SMTT(60), <1>1, <1>2 DEF IInv, ThreadShape, FrameShape

\* Only a task inside new_task has a child that is not queued.
LEMMA NoChild ==
  ASSUME IInv, NEW c \in CPU, kpc[run[c]] # "new_push"
  PROVE  child[run[c]] = {}
<1>1. run[c] \in Thread
  BY ZenonT(60), TypedHolds DEF IInv, Typed
<1>2. desired[run[c]] # "Deleted"
  BY ZenonT(60) DEF IInv, StacksSafe, InTasks
<1> QED BY ZenonT(60), <1>1, <1>2 DEF IInv, ThreadShape, ChildShape

-----------------------------------------------------------------------------
(* What a step leaves alone *)

SameTasks == \A t \in Thread : InTasks(t)' <=> InTasks(t)

NoNewRequest == \A d \in CPU : needs'[d] => needs[d]

LEMMA SameDesired == UNCHANGED desired => SameTasks
BY ZenonT(60) DEF SameTasks, InTasks

\* A part of the invariant survives when its variables keep their values.
LEMMA Kept ==
  ASSUME IInv
  PROVE  /\ UNCHANGED <<rqLocked, run, top>> => RunQueueExclusion'
         /\ SameTasks /\ UNCHANGED <<current, run, top>> => StacksSafe'
         /\ SameTasks /\ UNCHANGED <<pending, skipped, current, child>>
            => QueueComplete'
         /\ UNCHANGED <<preempt, guards, run, top>> => PreemptBalanced'
         /\ UNCHANGED <<ints, run, top>> => NoInterruptUnderLock'
         /\ NoNewRequest /\ UNCHANGED run => IdleOwnCpu'
         /\ UNCHANGED <<irq, kpc, guards>> => FrameShape'
         /\ UNCHANGED <<run, top>> => OffCpuShape'
         /\ UNCHANGED <<child, kpc, desired>> => ChildShape'
         /\ /\ \A d \in CPU : /\ desired'[d] = desired[d]
                             /\ guards'[d] = guards[d] /\ kpc'[d] = kpc[d]
            /\ UNCHANGED current
            => IdleShape'
         /\ UNCHANGED <<run, top, current>> => SwitchShape'
         /\ NoNewRequest /\ UNCHANGED <<run, top>> => NeedsShape'
         /\ UNCHANGED <<skipped, run, top>> => SkippedShape'
<1> USE DEF IInv, ThreadShape
<1>1. UNCHANGED <<rqLocked, run, top>> => RunQueueExclusion'
  BY SMTT(30), SMTT(60) DEF RunQueueExclusion, HoldsRunQueue
<1>2. SameTasks /\ UNCHANGED <<current, run, top>> => StacksSafe'
  <2>1. \A d \in CPU : run[d] \in Thread /\ current[d] \in Thread
    BY ZenonT(60), TypedHolds DEF Typed
  <2> QED BY ZenonT(60), <2>1 DEF SameTasks, StacksSafe
<1>3. SameTasks /\ UNCHANGED <<pending, skipped, current, child>>
      => QueueComplete'
  <2>1. Task \subseteq Thread
    BY ZenonT(60) DEF Thread
  <2> QED BY ZenonT(60), <2>1 DEF SameTasks, QueueComplete, Queued
<1>4. UNCHANGED <<preempt, guards, run, top>> => PreemptBalanced'
  BY ZenonT(60) DEF PreemptBalanced
<1>5. UNCHANGED <<ints, run, top>> => NoInterruptUnderLock'
  BY ZenonT(60) DEF NoInterruptUnderLock
<1>6. NoNewRequest /\ UNCHANGED run => IdleOwnCpu'
  BY ZenonT(60) DEF NoNewRequest, IdleOwnCpu
<1>7. UNCHANGED <<irq, kpc, guards>> => FrameShape'
  BY ZenonT(60) DEF FrameShape
<1>8. UNCHANGED <<run, top>> => OffCpuShape'
  BY ZenonT(60) DEF OffCpuShape
<1>9. UNCHANGED <<child, kpc, desired>> => ChildShape'
  BY SMTT(30), SMTT(60) DEF ChildShape
<1>10. /\ \A d \in CPU : /\ desired'[d] = desired[d]
                         /\ guards'[d] = guards[d] /\ kpc'[d] = kpc[d]
       /\ UNCHANGED current
       => IdleShape'
  BY ZenonT(60) DEF IdleShape
<1>11. UNCHANGED <<run, top, current>> => SwitchShape'
  BY ZenonT(60) DEF SwitchShape
<1>12. NoNewRequest /\ UNCHANGED <<run, top>> => NeedsShape'
  BY ZenonT(60) DEF NoNewRequest, NeedsShape
<1>13. UNCHANGED <<skipped, run, top>> => SkippedShape'
  BY ZenonT(60) DEF SkippedShape
<1> QED BY ZenonT(60), <1>1, <1>2, <1>3, <1>4, <1>5, <1>6, <1>7, <1>8, <1>9,
           <1>10, <1>11,
           <1>12, <1>13

\* Only the thread CPU c executes goes on, and no CPU switches.
Moves(c) ==
  /\ \A t \in Thread : t # run[c] => top'[t] = top[t]
  /\ UNCHANGED run

\* What a move preserves, by the places it leaves and enters.
LEMMA Moved ==
  ASSUME IInv, NEW c \in CPU, Moves(c)
  PROVE  /\ /\ UNCHANGED rqLocked
            /\ top'[run[c]] \in LockedLocs <=> top[run[c]] \in LockedLocs
            => RunQueueExclusion'
         /\ ~rqLocked' /\ top[run[c]] \in LockedLocs
            /\ top'[run[c]] \notin LockedLocs
            => RunQueueExclusion'
         /\ SameTasks /\ UNCHANGED current /\ top'[run[c]] # "switch"
            /\ top[run[c]] # "switch"
            => StacksSafe'
         /\ /\ UNCHANGED <<preempt, guards>>
            /\ top'[run[c]] \in CountedLocs <=> top[run[c]] \in CountedLocs
            => PreemptBalanced'
         /\ /\ UNCHANGED ints
            /\ top'[run[c]] \in LockedLocs \cup {"lock"}
               => top[run[c]] \in LockedLocs \cup {"lock"}
            => NoInterruptUnderLock'
         /\ OffCpuShape'
         /\ UNCHANGED current /\ top'[run[c]] # "switch" => SwitchShape'
         /\ NoNewRequest /\ (~needs'[c] \/ top'[run[c]] \in ClientLocs
                             \/ top[run[c]] \notin ClientLocs)
            => NeedsShape'
         /\ (\A d \in CPU : needs'[d] => needs[d] \/ d = c)
            /\ run[c] \in Task /\ top'[run[c]] \in ClientLocs
            => NeedsShape'
         /\ skipped' = <<>> \/ top'[run[c]] \in {"reap", "pop"} => SkippedShape'
         /\ UNCHANGED skipped /\ top[run[c]] \notin {"reap", "pop"}
            => SkippedShape'
<1> USE DEF IInv, ThreadShape
<1>1. /\ \A d \in CPU : run'[d] = run[d] /\ run[d] \in Thread
                        /\ current[d] \in Thread
      /\ \A d \in CPU : run[d] = run[c] => d = c
      /\ \A t \in Thread : t # run[c] => top'[t] = top[t]
  BY ZenonT(60), TypedHolds DEF Moves, Typed, StacksSafe
<1>2. ASSUME UNCHANGED rqLocked, top'[run[c]] \in LockedLocs <=> top[run[c]] \in LockedLocs
      PROVE  RunQueueExclusion'
  BY SMTT(30), SMTT(60), <1>1, <1>2 DEF RunQueueExclusion, HoldsRunQueue
<1>3. ASSUME SameTasks, UNCHANGED current, top'[run[c]] # "switch", top[run[c]] # "switch"
      PROVE  StacksSafe'
  BY SMTT(30), SMTT(60), <1>1, <1>3 DEF SameTasks, StacksSafe
<1>4. ASSUME UNCHANGED <<preempt, guards>>,
             top'[run[c]] \in CountedLocs <=> top[run[c]] \in CountedLocs
      PROVE  PreemptBalanced'
  BY SMTT(30), SMTT(60), <1>1, <1>4 DEF PreemptBalanced
<1>5. ASSUME UNCHANGED ints,
             top'[run[c]] \in LockedLocs \cup {"lock"}
             => top[run[c]] \in LockedLocs \cup {"lock"}
      PROVE  NoInterruptUnderLock'
  BY ZenonT(60), <1>1, <1>5 DEF NoInterruptUnderLock
<1>6. OffCpuShape'
  BY ZenonT(60), <1>1 DEF OffCpuShape
<1>7. ASSUME UNCHANGED current, top'[run[c]] # "switch" PROVE SwitchShape'
  BY ZenonT(60), <1>1, <1>7 DEF SwitchShape
<1>8. ASSUME NoNewRequest,
             ~needs'[c] \/ top'[run[c]] \in ClientLocs \/ top[run[c]] \notin ClientLocs
      PROVE  NeedsShape'
  BY ZenonT(60), <1>1, <1>8 DEF NoNewRequest, NeedsShape
<1>9. ASSUME skipped' = <<>> \/ top'[run[c]] \in {"reap", "pop"} PROVE SkippedShape'
  BY ZenonT(60), <1>1, <1>9 DEF SkippedShape
<1>10. ASSUME UNCHANGED skipped, top[run[c]] \notin {"reap", "pop"}
       PROVE  SkippedShape'
  BY ZenonT(60), <1>1, <1>10 DEF SkippedShape
<1>11. ASSUME ~rqLocked', top[run[c]] \in LockedLocs,
              top'[run[c]] \notin LockedLocs
       PROVE  RunQueueExclusion'
  BY SMTT(30), SMTT(60), <1>1, <1>11 DEF RunQueueExclusion, HoldsRunQueue
<1>12. ASSUME \A d \in CPU : needs'[d] => needs[d] \/ d = c,
              run[c] \in Task, top'[run[c]] \in ClientLocs
       PROVE  NeedsShape'
  BY ZenonT(60), <1>1, <1>12 DEF NeedsShape
<1> QED BY SMTT(30), SMTT(60), <1>2, <1>3, <1>4, <1>5, <1>6, <1>7, <1>8, <1>9,
           <1>10, <1>11, <1>12

\* Goto moves the innermost level of the stack and keeps it well formed.
LEMMA GotoKeeps ==
  ASSUME IInv, NEW c \in CPU, NEW l, Goto(run[c], l), l # "none", UNCHANGED run
  PROVE  /\ Moves(c) /\ top'[run[c]] = l
         /\ l \in KernelLocs /\ (irq[run[c]] # "none" => l \in IrqLocs)
            => /\ kpc' \in [Thread -> KernelLocs]
               /\ irq' \in [Thread -> IrqLocs]
         /\ UNCHANGED guards /\ (guards[run[c]] = 0 \/ l \in ClientLocs)
            => FrameShape'
         /\ UNCHANGED <<child, desired>> /\ top[run[c]] # "new_push"
            => ChildShape'
         /\ UNCHANGED <<desired, guards, current>>
            /\ l \notin {"sleep", "awaken", "new_push"}
            => IdleShape'
<1> USE DEF IInv, ThreadShape
<1>1. TypeOK /\ Typed /\ run[c] \in Thread
  BY ZenonT(60), TypedHolds DEF Typed
<1>2. /\ \A t \in Thread : kpc'[t] = IF t = run[c] /\ irq[t] = "none"
                                       THEN l ELSE kpc[t]
      /\ \A t \in Thread : irq'[t] = IF t = run[c] /\ irq[t] # "none"
                                       THEN l ELSE irq[t]
  BY ZenonT(60), <1>1 DEF Goto, Typed
<1>3. Moves(c) /\ top'[run[c]] = l
  BY SMTT(30), SMTT(60), <1>1, GotoTop DEF Moves, Typed
<1>4. ASSUME l \in KernelLocs, irq[run[c]] # "none" => l \in IrqLocs
      PROVE  kpc' \in [Thread -> KernelLocs] /\ irq' \in [Thread -> IrqLocs]
  BY ZenonT(60), <1>1, <1>4 DEF TypeOK, Goto
<1>5. ASSUME UNCHANGED guards, guards[run[c]] = 0 \/ l \in ClientLocs
      PROVE  FrameShape'
  BY SMTT(30), SMTT(60), <1>1, <1>2, <1>5 DEF FrameShape, Typed
<1>6. ASSUME UNCHANGED <<child, desired>>, top[run[c]] # "new_push"
      PROVE  ChildShape'
  <2>1. irq[run[c]] = "none" => kpc[run[c]] # "new_push"
    BY ONLY ZenonT(60), <1>1, <1>6 DEF top
  <2> QED BY SMTT(30), SMTT(60), <1>1, <1>2, <1>6, <2>1 DEF ChildShape
<1>7. ASSUME UNCHANGED <<desired, guards, current>>,
             l \notin {"sleep", "awaken", "new_push"}
      PROVE  IdleShape'
  BY ZenonT(60), <1>1, <1>2, <1>7 DEF IdleShape, Typed
<1> QED BY ZenonT(60), <1>3, <1>4, <1>5, <1>6, <1>7

-----------------------------------------------------------------------------
(* run_scheduler on the run queue, from the call to the end of the scans. *)

\* run_scheduler clears NEEDS_RESCHEDULE and goes on only without a guard.
LEMMA RunSchedulerInv ==
  ASSUME IInv, NEW c \in CPU, RunScheduler(c)
  PROVE  IInv'
<1> USE DEF IInv, ThreadShape, RunScheduler, InClient, TaskInClient, queueVars,
    flagVars, stackVars
<1>1. TypeOK /\ Typed /\ run[c] \in Thread /\ current[c] \in Thread
  BY ZenonT(60), TypedHolds DEF Typed
<1>2. PICK l \in {"rs_guard", "run"} :
        /\ kpc' = [kpc EXCEPT ![run[c]] = l]
        /\ l = "rs_guard" => preempt[c] = 0
  BY ZenonT(60) DEF NeedsPreemption
<1>3. Goto(run[c], l) /\ ~needs'[c] /\ NoNewRequest
  BY ZenonT(60), <1>1, <1>2 DEF Goto, NoNewRequest, Typed
<1>4. Moves(c) /\ top'[run[c]] = l
  BY ZenonT(60), <1>3, GotoKeeps
<1>5. TypeOK'
  BY ZenonT(60) DEF TypeOK, KernelLocs
<1>6. /\ QueueComplete' /\ IdleOwnCpu'
  BY SMTT(30), SMTT(60), Kept, SameDesired DEF NoNewRequest
<1>7. /\ RunQueueExclusion' /\ StacksSafe' /\ PreemptBalanced'
      /\ NoInterruptUnderLock' /\ OffCpuShape' /\ ChildShape'
      /\ IdleShape' /\ SwitchShape' /\ NeedsShape'
      /\ SkippedShape'
  BY ZenonT(60), <1>3, Moved, GotoKeeps, SameDesired DEF LockedLocs, CountedLocs
<1>8. FrameShape'
  <2>1. guards[run[c]] = 0 \/ l = "run"
    BY ZenonT(60), <1>2, GuardsCounted
  <2> QED BY ZenonT(60), <1>3, <2>1, GotoKeeps DEF ClientLocs
<1> QED BY ONLY ZenonT(60), <1>5, <1>6, <1>7, <1>8

\* The preempt guard of lock_disable_interrupts is counted.
LEMMA RunQueueGuardInv ==
  ASSUME IInv, NEW c \in CPU, RunQueueGuard(c)
  PROVE  IInv'
<1> USE DEF IInv, ThreadShape, RunQueueGuard, InClient, TaskInClient,
    queueVars, flagVars, stackVars
<1>1. TypeOK /\ Typed /\ run[c] \in Thread /\ current[c] \in Thread
  BY ZenonT(60), TypedHolds DEF Typed
<1>2. Moves(c) /\ top'[run[c]] = "rs_cli"
  BY ZenonT(60), GotoKeeps
<1>3. TypeOK'
  <2>1. irq[run[c]] # "none" => "rs_cli" \in IrqLocs
    BY ZenonT(60), <1>1 DEF Typed, top, IrqLocs
  <2>2. kpc' \in [Thread -> KernelLocs] /\ irq' \in [Thread -> IrqLocs]
    BY ZenonT(60), <2>1, GotoKeeps DEF KernelLocs
  <2>3. preempt' \in [CPU -> Nat]
    BY SMTT(30), SMTT(60), <1>1 DEF Typed
  <2> QED BY SMTT(30), SMTT(60), <2>2 DEF TypeOK
<1>4. /\ QueueComplete' /\ IdleOwnCpu'
  BY ZenonT(60), Kept, SameDesired DEF NoNewRequest
<1>5. /\ RunQueueExclusion' /\ StacksSafe' /\ NoInterruptUnderLock'
      /\ FrameShape' /\ OffCpuShape' /\ ChildShape'
      /\ IdleShape' /\ SwitchShape' /\ NeedsShape'
      /\ SkippedShape'
  BY ZenonT(60), <1>2, Moved, GotoKeeps, NoGuards, SameDesired DEF NoNewRequest,
         LockedLocs, ClientLocs
<1>6. PreemptBalanced'
  BY SMTT(30), SMTT(60), <1>1, <1>2 DEF Moves, Typed, PreemptBalanced,
     CountedLocs, LockedLocs,
         StacksSafe
<1> QED BY ONLY ZenonT(60), <1>3, <1>4, <1>5, <1>6

\* Interrupts go off before the lock is tried.
LEMMA RunQueueCliInv ==
  ASSUME IInv, NEW c \in CPU, RunQueueCli(c)
  PROVE  IInv'
<1> USE DEF IInv, ThreadShape, RunQueueCli, InClient, TaskInClient, queueVars,
    flagVars, stackVars
<1>1. TypeOK /\ Typed /\ run[c] \in Thread /\ current[c] \in Thread
  BY ZenonT(60), TypedHolds DEF Typed
<1>2. Moves(c) /\ top'[run[c]] = "lock"
  BY ZenonT(60), GotoKeeps
<1>3. TypeOK'
  <2>1. irq[run[c]] # "none" => "lock" \in IrqLocs
    BY ZenonT(60) DEF IrqLocs
  <2>2. kpc' \in [Thread -> KernelLocs] /\ irq' \in [Thread -> IrqLocs]
    BY ZenonT(60), <2>1, GotoKeeps DEF KernelLocs
  <2> QED BY ZenonT(60), <2>2 DEF TypeOK
<1>4. /\ QueueComplete' /\ IdleOwnCpu'
  BY ZenonT(60), Kept, SameDesired DEF NoNewRequest
<1>5. /\ RunQueueExclusion' /\ StacksSafe' /\ PreemptBalanced'
      /\ FrameShape' /\ OffCpuShape' /\ ChildShape'
      /\ IdleShape' /\ SwitchShape' /\ NeedsShape'
      /\ SkippedShape'
  BY ZenonT(60), <1>2, Moved, GotoKeeps, NoGuards, SameDesired DEF NoNewRequest,
         LockedLocs, CountedLocs, ClientLocs
<1>6. NoInterruptUnderLock'
  BY SMTT(30), SMTT(60), <1>1, <1>2 DEF Moves, Typed, NoInterruptUnderLock,
     StacksSafe
<1> QED BY ONLY ZenonT(60), <1>3, <1>4, <1>5, <1>6

\* The lock is taken when no one holds it.
LEMMA RunQueueLockInv ==
  ASSUME IInv, NEW c \in CPU, RunQueueLock(c)
  PROVE  IInv'
<1> USE DEF IInv, ThreadShape, RunQueueLock, InClient, TaskInClient, queueVars,
    flagVars, stackVars
<1>1. TypeOK /\ Typed /\ run[c] \in Thread /\ current[c] \in Thread
  BY ZenonT(60), TypedHolds DEF Typed
<1>2. Moves(c) /\ top'[run[c]] = "reap"
  BY ZenonT(60), GotoKeeps
<1>3. TypeOK'
  <2>1. irq[run[c]] # "none" => "reap" \in IrqLocs
    BY ZenonT(60) DEF IrqLocs
  <2>2. kpc' \in [Thread -> KernelLocs] /\ irq' \in [Thread -> IrqLocs]
    BY ZenonT(60), <2>1, GotoKeeps DEF KernelLocs
  <2> QED BY ZenonT(60), <2>2 DEF TypeOK
<1>4. /\ QueueComplete' /\ IdleOwnCpu'
  BY ZenonT(60), Kept, SameDesired DEF NoNewRequest
<1>5. /\ StacksSafe' /\ PreemptBalanced' /\ NoInterruptUnderLock'
      /\ FrameShape' /\ OffCpuShape' /\ ChildShape'
      /\ IdleShape' /\ SwitchShape' /\ NeedsShape'
      /\ SkippedShape'
  BY ZenonT(60), <1>2, Moved, GotoKeeps, NoGuards, SameDesired DEF NoNewRequest,
         LockedLocs, CountedLocs, ClientLocs
<1>6. RunQueueExclusion'
  BY SMTT(30), SMTT(60), <1>1, <1>2 DEF Moves, Typed, RunQueueExclusion,
     HoldsRunQueue, LockedLocs,
         StacksSafe
<1> QED BY ONLY ZenonT(60), <1>3, <1>4, <1>5, <1>6

\* A reaped task is off every CPU, so its stack may be freed.
LEMMA ReapKilledInv ==
  ASSUME IInv, NEW c \in CPU, ReapKilled(c)
  PROVE  IInv'
<1> USE DEF IInv, ThreadShape, ReapKilled, InClient, TaskInClient, queueVars,
    flagVars, stackVars
<1>1. TypeOK /\ Typed /\ run[c] \in Thread /\ current[c] \in Thread
  BY ZenonT(60), TypedHolds DEF Typed
<1>2. /\ Head(pending) \in Task /\ Tail(pending) \in Seq(Task)
      /\ Range(pending) = {Head(pending)} \cup Range(Tail(pending))
      /\ Head(pending) \notin Range(Tail(pending))
      /\ IsInjective(Tail(pending))
  BY ZenonT(60), SeqTail DEF TypeOK, QueueComplete
<1>3. Head(pending) \in Queued /\ Head(pending) \in Thread
  BY ONLY ZenonT(60), <1>1, <1>2 DEF Queued, Typed
<1>4. \A d \in CPU : run[d] # Head(pending) /\ current[d] # Head(pending)
  BY SMTT(30), SMTT(60), <1>1, <1>2, <1>3, LockedRun, Ranges DEF QueueComplete
<1>5. top' = [top EXCEPT ![Head(pending)] = "start"]
  BY ZenonT(60), <1>1 DEF top, Typed
<1>6. TypeOK'
  <2>1. desired' \in [Thread -> States] /\ slice' \in [Thread -> 0..SliceTicks]
    <3>1. 0 \in 0..SliceTicks
      BY ONLY SMTT(30), SMTT(60), SchedConstants
    <3> QED BY ZenonT(60), <1>3, <3>1 DEF TypeOK, States
  <2>2. kpc' \in [Thread -> KernelLocs] /\ irq' \in [Thread -> IrqLocs]
    BY ZenonT(60) DEF TypeOK, KernelLocs, IrqLocs
  <2>3. saved' \in [Thread -> BOOLEAN]
    BY ZenonT(60) DEF TypeOK
  <2> QED BY ZenonT(60), <1>2, <2>1, <2>2 DEF TypeOK
<1>7. /\ IdleOwnCpu'
  BY ZenonT(60), Kept DEF NoNewRequest
<1>8. RunQueueExclusion'
  BY SMTT(30), SMTT(60), <1>4, <1>5 DEF RunQueueExclusion, HoldsRunQueue
<1>9. StacksSafe'
  BY ZenonT(60), <1>1, <1>4, <1>5 DEF StacksSafe, InTasks, Typed
<1>10. QueueComplete'
  <2>1. /\ UNCHANGED <<current, child, skipped>> /\ pending' = Tail(pending)
        /\ \A t \in Task : InTasks(t)' <=> InTasks(t) /\ t # Head(pending)
    BY ZenonT(60), <1>1 DEF InTasks, Typed
  <2>2. QueueComplete
    BY ZenonT(60)
  <2> QED BY ONLY ZenonT(60), <1>2, <2>1, <2>2 DEF QueueComplete, Queued
<1>11. PreemptBalanced'
  <2>1. /\ Head(pending) \in Thread /\ UNCHANGED <<run, preempt, guards>>
        /\ \A d \in CPU : run[d] \in Thread
        /\ \A t \in Thread : t # Head(pending) => top'[t] = top[t]
    BY ZenonT(60), <1>1, <1>3, <1>5 DEF Typed, top
  <2>2. \A d \in CPU : top'[run'[d]] = top[run[d]]
    BY ONLY ZenonT(60), <1>4, <2>1
  <2>3. PreemptBalanced
    BY ZenonT(60)
  <2> QED BY ONLY ZenonT(60), <1>4, <2>1, <2>2, <2>3 DEF PreemptBalanced
<1>12. NoInterruptUnderLock'
  BY SMTT(30), SMTT(60), <1>4, <1>5 DEF NoInterruptUnderLock
<1>13. FrameShape'
  <2>1. guards[Head(pending)] = 0
    BY ZenonT(60), <1>3, <1>4 DEF PreemptBalanced
  <2> QED BY SMTT(30), SMTT(60), <1>1, <2>1 DEF FrameShape, Typed
<1>14. OffCpuShape'
  BY SMTT(30), SMTT(60), <1>5 DEF OffCpuShape
<1>15. ChildShape'
  BY SMTT(30), SMTT(60), <1>1 DEF Typed, ChildShape
<1>16. IdleShape'
  BY SMTT(30), SMTT(60) DEF IdleShape
<1>17. SwitchShape'
  BY SMTT(30), SMTT(60), <1>5 DEF SwitchShape
<1>18. NeedsShape'
  BY SMTT(30), SMTT(60), <1>4, <1>5 DEF NeedsShape
<1>19. SkippedShape'
  BY SMTT(30), SMTT(60), <1>4, <1>5 DEF SkippedShape
<1> QED BY ONLY ZenonT(60), <1>6, <1>7, <1>8, <1>9, <1>10, <1>11, <1>12, <1>13,
           <1>14, <1>15,
           <1>16, <1>17, <1>18, <1>19

\* A task that is kept moves to the other deque.
LEMMA ReapKeepInv ==
  ASSUME IInv, NEW c \in CPU, ReapKeep(c)
  PROVE  IInv'
<1> USE DEF IInv, ThreadShape, ReapKeep, InClient, TaskInClient, queueVars,
    flagVars, stackVars
<1>1. TypeOK /\ Typed /\ run[c] \in Thread /\ current[c] \in Thread
  BY ZenonT(60), TypedHolds DEF Typed
<1>2. /\ Head(pending) \in Task /\ Tail(pending) \in Seq(Task)
      /\ Range(pending) = {Head(pending)} \cup Range(Tail(pending))
      /\ Head(pending) \notin Range(Tail(pending))
      /\ IsInjective(Tail(pending))
  BY ZenonT(60), SeqTail DEF TypeOK, QueueComplete
<1>3. /\ skipped' \in Seq(Task)
      /\ Range(skipped') = Range(skipped) \cup {Head(pending)}
      /\ IsInjective(skipped')
  BY SMTT(30), SMTT(60), <1>2, SeqAppend DEF TypeOK, QueueComplete
<1>4. UNCHANGED top
  BY ZenonT(60) DEF top
<1>5. TypeOK'
  BY ZenonT(60), <1>2, <1>3 DEF TypeOK
<1>6. /\ RunQueueExclusion' /\ StacksSafe' /\ PreemptBalanced'
      /\ NoInterruptUnderLock' /\ IdleOwnCpu' /\ FrameShape'
      /\ OffCpuShape' /\ ChildShape' /\ IdleShape'
      /\ SwitchShape' /\ NeedsShape'
  BY ZenonT(60), <1>4, Kept, SameDesired DEF NoNewRequest
<1>7. QueueComplete'
  BY SMTT(30), SMTT(60), <1>2, <1>3 DEF QueueComplete, Queued, InTasks
<1>8. SkippedShape'
  BY ZenonT(60), <1>4 DEF SkippedShape
<1> QED BY ZenonT(60), <1>5, <1>6, <1>7, <1>8

\* The deques are swapped back after the scan.
LEMMA ReapDoneInv ==
  ASSUME IInv, NEW c \in CPU, ReapDone(c)
  PROVE  IInv'
<1> USE DEF IInv, ThreadShape, ReapDone, InClient, TaskInClient, queueVars,
    flagVars, stackVars
<1>1. TypeOK /\ Typed /\ run[c] \in Thread /\ current[c] \in Thread
  BY ZenonT(60), TypedHolds DEF Typed
<1>2. Moves(c) /\ top'[run[c]] = "pop"
  BY ZenonT(60), GotoKeeps
<1>3. TypeOK'
  <2>1. irq[run[c]] # "none" => "pop" \in IrqLocs
    BY ZenonT(60) DEF IrqLocs
  <2>2. kpc' \in [Thread -> KernelLocs] /\ irq' \in [Thread -> IrqLocs]
    BY ZenonT(60), <2>1, GotoKeeps DEF KernelLocs
  <2> QED BY ZenonT(60), <2>2 DEF TypeOK
<1>4. /\ IdleOwnCpu'
  BY ZenonT(60), Kept DEF NoNewRequest
<1>5. /\ RunQueueExclusion' /\ StacksSafe' /\ PreemptBalanced'
      /\ NoInterruptUnderLock' /\ FrameShape' /\ OffCpuShape'
      /\ ChildShape' /\ IdleShape' /\ SwitchShape'
      /\ NeedsShape'
  BY ZenonT(60), <1>2, Moved, GotoKeeps, NoGuards, SameDesired DEF NoNewRequest,
         LockedLocs, CountedLocs, ClientLocs
<1>6. QueueComplete'
  BY ZenonT(60) DEF QueueComplete, Queued, InTasks
<1>7. SkippedShape'
  BY ZenonT(60) DEF SkippedShape
<1> QED BY ZenonT(60), <1>3, <1>4, <1>5, <1>6, <1>7

\* A task that is not ready moves to the other deque.
LEMMA PopSkipInv ==
  ASSUME IInv, NEW c \in CPU, PopSkip(c)
  PROVE  IInv'
<1> USE DEF IInv, ThreadShape, PopSkip, InClient, TaskInClient, queueVars,
    flagVars, stackVars
<1>1. TypeOK /\ Typed /\ run[c] \in Thread /\ current[c] \in Thread
  BY ZenonT(60), TypedHolds DEF Typed
<1>2. /\ Head(pending) \in Task /\ Tail(pending) \in Seq(Task)
      /\ Range(pending) = {Head(pending)} \cup Range(Tail(pending))
      /\ Head(pending) \notin Range(Tail(pending))
      /\ IsInjective(Tail(pending))
  BY ZenonT(60), SeqTail DEF TypeOK, QueueComplete
<1>3. /\ skipped' \in Seq(Task)
      /\ Range(skipped') = Range(skipped) \cup {Head(pending)}
      /\ IsInjective(skipped')
  BY SMTT(30), SMTT(60), <1>2, SeqAppend DEF TypeOK, QueueComplete
<1>4. UNCHANGED top
  BY ZenonT(60) DEF top
<1>5. TypeOK'
  BY ZenonT(60), <1>2, <1>3 DEF TypeOK
<1>6. /\ RunQueueExclusion' /\ StacksSafe' /\ PreemptBalanced'
      /\ NoInterruptUnderLock' /\ IdleOwnCpu' /\ FrameShape'
      /\ OffCpuShape' /\ ChildShape' /\ IdleShape'
      /\ SwitchShape' /\ NeedsShape'
  BY ZenonT(60), <1>4, Kept, SameDesired DEF NoNewRequest
<1>7. QueueComplete'
  BY SMTT(30), SMTT(60), <1>2, <1>3 DEF QueueComplete, Queued, InTasks
<1>8. SkippedShape'
  BY ZenonT(60), <1>4 DEF SkippedShape
<1> QED BY ZenonT(60), <1>5, <1>6, <1>7, <1>8

\* No switch: the queue is put back.
LEMMA PopNoneStayInv ==
  ASSUME IInv, NEW c \in CPU, PopNoneStay(c)
  PROVE  IInv'
<1> USE DEF IInv, ThreadShape, PopNoneStay, InClient, TaskInClient, queueVars,
    flagVars, stackVars
<1>1. TypeOK /\ Typed /\ run[c] \in Thread /\ current[c] \in Thread
  BY ZenonT(60), TypedHolds DEF Typed
<1>2. Moves(c) /\ top'[run[c]] = "unlock"
  BY ZenonT(60), GotoKeeps
<1>3. TypeOK'
  <2>1. irq[run[c]] # "none" => "unlock" \in IrqLocs
    BY ONLY Zenon DEF IrqLocs
  <2>2. kpc' \in [Thread -> KernelLocs] /\ irq' \in [Thread -> IrqLocs]
    BY ZenonT(60), <2>1, GotoKeeps DEF KernelLocs
  <2> QED BY ZenonT(60), <2>2 DEF TypeOK
<1>4. /\ IdleOwnCpu'
  BY ZenonT(60), Kept DEF NoNewRequest
<1>5. /\ RunQueueExclusion' /\ StacksSafe' /\ PreemptBalanced'
      /\ NoInterruptUnderLock' /\ FrameShape' /\ OffCpuShape'
      /\ ChildShape' /\ IdleShape' /\ SwitchShape'
      /\ NeedsShape'
  BY ZenonT(60), <1>2, Moved, GotoKeeps, NoGuards, SameDesired DEF NoNewRequest,
         LockedLocs, CountedLocs, ClientLocs
<1>6. QueueComplete'
  BY ZenonT(60) DEF QueueComplete, Queued, InTasks
<1>7. SkippedShape'
  BY ZenonT(60) DEF SkippedShape
<1> QED BY ZenonT(60), <1>3, <1>4, <1>5, <1>6, <1>7

-----------------------------------------------------------------------------
(* The switch to the next thread, its release of the run queue, and the    *)
(* start of a new thread.                                                  *)

\* The next task leaves the queue and the previous one joins it.
LEMMA SwapToInv ==
  ASSUME IInv, NEW c \in CPU, NEW next \in Thread, NEW queue \in Seq(Task),
         top[run[c]] = "pop", InTasks(next), next # current[c],
         next \in CPU => next = c, next \in Task => next \in Queued,
         IsInjective(queue), Range(queue) = Queued \ {next},
         SwapTo(c, next, queue)
  PROVE  IInv'
<1> USE DEF IInv, ThreadShape, SwapTo, InClient, TaskInClient, queueVars,
    flagVars, stackVars
<1>1. TypeOK /\ Typed /\ run[c] \in Thread /\ current[c] \in Thread
  BY ZenonT(60), TypedHolds DEF Typed
<1>2. \A d \in CPU : run[d] = current[d] /\ current[d] \notin Queued
  BY ZenonT(60), <1>1, LockedRun, Ranges, QueuedTasks DEF QueueComplete
<1>3. \A d \in CPU : current[d] # next
  BY SMTT(30), SMTT(60), <1>1, <1>2 DEF IdleShape, Typed
<1>4. /\ pending' \in Seq(Task) /\ IsInjective(pending') /\ skipped' = <<>>
      /\ Range(pending') = (Queued \ {next}) \cup ({current[c]} \cap Task)
  <2>1. CASE current[c] = c
    BY SMTT(30), SMTT(60), <1>1, <2>1 DEF Typed
  <2>2. CASE current[c] # c
    <3>1. current[c] \in Task /\ current[c] \notin Range(queue)
      BY ZenonT(60), <1>1, <1>2, <2>2 DEF IdleShape, Typed
    <3> QED BY SMTT(30), SMTT(60), <2>2, <3>1, SeqAppend
  <2> QED BY ONLY ZenonT(60), <2>1, <2>2
<1>5. /\ current' = [current EXCEPT ![c] = next]
      /\ Range(skipped') = {} /\ IsInjective(skipped')
  BY SMTT(30), SMTT(60) DEF Range, IsInjective
<1>6. Moves(c) /\ top'[run[c]] = "switch"
  BY ZenonT(60), GotoKeeps
<1>7. TypeOK'
  <2>1. irq[run[c]] # "none" => "switch" \in IrqLocs
    BY ONLY Zenon DEF IrqLocs
  <2>2. kpc' \in [Thread -> KernelLocs] /\ irq' \in [Thread -> IrqLocs]
    BY ZenonT(60), <2>1, GotoKeeps DEF KernelLocs
  <2>3. current' \in [CPU -> Thread] /\ slice' \in [Thread -> 0..SliceTicks]
    <3>1. SliceTicks \in 0..SliceTicks
      BY ONLY SMTT(30), SMTT(60), SchedConstants
    <3> QED BY ZenonT(60), <3>1 DEF TypeOK
  <2>4. prevReady' \in [CPU -> BOOLEAN]
    BY ZenonT(60) DEF TypeOK
  <2> QED BY SMTT(30), SMTT(60), <1>1, <1>4, <2>2, SchedConstants DEF TypeOK
<1>8. /\ IdleOwnCpu'
  BY ZenonT(60), Kept DEF NoNewRequest
<1>9. /\ RunQueueExclusion' /\ PreemptBalanced' /\ NoInterruptUnderLock'
      /\ FrameShape' /\ OffCpuShape' /\ ChildShape'
      /\ NeedsShape'
  BY ZenonT(60), Moved, GotoKeeps, NoGuards DEF NoNewRequest, LockedLocs,
     CountedLocs,
         ClientLocs
<1>10. StacksSafe'
  BY SMTT(30), SMTT(60), <1>1, <1>3, <1>6 DEF Moves, Typed, StacksSafe, InTasks
<1>11. QueueComplete'
  <2>1. \A x : x \in Range(current') <=> \E d \in CPU : current'[d] = x
    BY ZenonT(60), <1>1 DEF Typed, Range
  <2>2. Queued' = (Queued \ {next}) \cup ({current[c]} \cap Task)
    BY ZenonT(60), <1>4, <1>5 DEF Queued
  <2>3. \A d \in CPU : current'[d] = IF d = c THEN next ELSE current[d]
    BY ZenonT(60), <1>1 DEF Typed
  <2>4. \A d \in CPU : d # c => current[d] # current[c]
    BY ZenonT(60) DEF StacksSafe
  <2>5. \A t \in Task : t \in Range(current') <=>
          t = next \/ (t \in Range(current) /\ t # current[c])
    <3>1. \A x : x \in Range(current) <=> \E d \in CPU : current[d] = x
      BY ZenonT(60), <1>1, Ranges
    <3> QED BY ONLY SMTT(30), SMTT(60), <2>1, <2>3, <2>4, <3>1
  <2>6. /\ current[c] \in Range(current)
        /\ Range(pending') = Queued' /\ Range(skipped') = {}
        /\ UNCHANGED <<desired, child>>
    BY ZenonT(60), <1>1, <1>5, Ranges DEF Queued
  <2>7. \A t \in Task :
          /\ InTasks(t)' <=> \/ t \in Range(current')
                             \/ t \in Queued'
                             \/ t \in UNION Range(child')
          /\ t \in Queued' => t \notin Range(current')
          /\ t \in UNION Range(child') => t \notin Range(current') \cup Queued'
    BY ONLY SMTT(30), SMTT(60), IInv, <2>2, <2>5, <2>6,
       next \in Task => next \in Queued
       DEF QueueComplete, InTasks
  <2> QED BY ZenonT(60), <1>4, <1>5, <2>7 DEF QueueComplete
<1>12. IdleShape'
  BY SMTT(30), SMTT(60), <1>1 DEF Typed, IdleShape, Goto
<1>13. SwitchShape'
  BY SMTT(30), SMTT(60), <1>1, <1>6 DEF Moves, Typed, SwitchShape, StacksSafe
<1>14. SkippedShape'
  BY ZenonT(60) DEF SkippedShape
<1> QED BY ONLY ZenonT(60), <1>7, <1>8, <1>9, <1>10, <1>11, <1>12, <1>13, <1>14

\* Switching to the first ready task.
LEMMA PopReadyInv ==
  ASSUME IInv, NEW c \in CPU, PopReady(c)
  PROVE  IInv'
<1> USE DEF IInv, ThreadShape, PopReady
<1>1. TypeOK /\ Typed
  BY ZenonT(60), TypedHolds
<1>2. Head(pending) \in Task /\ Head(pending) \in Queued
  BY SMTT(30), SMTT(60), <1>1, SeqTail DEF TypeOK, Queued
<1>3. /\ Tail(pending) \o skipped \in Seq(Task)
      /\ Range(Tail(pending) \o skipped) = Queued \ {Head(pending)}
      /\ IsInjective(Tail(pending) \o skipped)
  BY ZenonT(60), <1>1, SeqRotate DEF TypeOK, QueueComplete, Queued
<1>4. /\ Head(pending) \notin CPU /\ Head(pending) \in Thread
      /\ InTasks(Head(pending))
  BY ZenonT(60), <1>1, <1>2 DEF Typed, InTasks
<1>5. Head(pending) # current[c]
  BY ZenonT(60), <1>1, <1>2, Ranges DEF QueueComplete
<1> QED BY ZenonT(60), <1>2, <1>3, <1>4, <1>5, SwapToInv

\* Switching to the idle task.
LEMMA PopNoneIdleInv ==
  ASSUME IInv, NEW c \in CPU, PopNoneIdle(c)
  PROVE  IInv'
<1> USE DEF IInv, ThreadShape, PopNoneIdle
<1>1. TypeOK /\ Typed /\ c \in Thread /\ c \notin Task /\ c \notin Queued
  BY ZenonT(60), TypedHolds, QueuedTasks DEF Typed
<1>2. skipped \in Seq(Task) /\ IsInjective(skipped) /\ Range(skipped) = Queued
  BY SMTT(30), SMTT(60), <1>1 DEF TypeOK, QueueComplete, Queued, Range
<1>3. InTasks(c) /\ c # current[c]
  BY ZenonT(60) DEF IdleShape, InTasks
<1> QED BY ZenonT(60), <1>1, <1>2, <1>3, SwapToInv

\* The stack changes while RUN_QUEUE stays locked.
LEMMA SwitchToTaskInv ==
  ASSUME IInv, NEW c \in CPU, SwitchToTask(c)
  PROVE  IInv'
<1> USE DEF IInv, ThreadShape, SwitchToTask, InClient, TaskInClient, queueVars,
    flagVars, stackVars
<1>1. TypeOK /\ Typed /\ run[c] \in Thread /\ current[c] \in Thread
  BY ZenonT(60), TypedHolds DEF Typed
<1>2. /\ current[c] # run[c]
      /\ \A d \in CPU : d # c => run[d] = current[d] /\ run[d] # current[c]
      /\ \A d \in CPU : d # c => run[d] # run[c]
  BY SMTT(30), SMTT(60) DEF SwitchShape, StacksSafe, RunQueueExclusion,
     HoldsRunQueue, LockedLocs
<1>3. top[current[c]] \in {"start", "unlock"} /\ guards[current[c]] = 0
  BY ZenonT(60), <1>1, <1>2 DEF OffCpuShape, PreemptBalanced
<1>4. guards[run[c]] = 0
  BY ZenonT(60), NoGuards DEF ClientLocs
<1>5. \A d \in CPU : run'[d] = IF d = c THEN current[c] ELSE run[d]
  BY ZenonT(60), <1>1 DEF Typed
<1>6. top' = [top EXCEPT ![run[c]] = "unlock"]
  BY ZenonT(60), <1>1, GotoTop
<1>7. TypeOK'
  <2>1. irq[run[c]] # "none" => "unlock" \in IrqLocs
    BY ZenonT(60) DEF IrqLocs
  <2>2. kpc' \in [Thread -> KernelLocs] /\ irq' \in [Thread -> IrqLocs]
    BY ZenonT(60), <2>1 DEF TypeOK, Goto, KernelLocs
  <2>3. run' \in [CPU -> Thread]
    BY ZenonT(60) DEF TypeOK
  <2> QED BY ZenonT(60), <2>2 DEF TypeOK
<1>8. /\ QueueComplete'
  BY ZenonT(60), Kept, SameDesired
<1>9. RunQueueExclusion'
  <2>1. \A d \in CPU : HoldsRunQueue(d)' <=> HoldsRunQueue(d)
    BY SMTT(30), SMTT(60), <1>3, <1>6 DEF HoldsRunQueue, LockedLocs
  <2> QED BY ZenonT(60), <2>1 DEF RunQueueExclusion
<1>10. StacksSafe'
  BY ZenonT(60), <1>1, <1>2 DEF Typed, StacksSafe, InTasks
<1>11. PreemptBalanced'
  BY SMTT(30), SMTT(60), <1>3, <1>4, <1>6 DEF PreemptBalanced, CountedLocs,
     LockedLocs
<1>12. NoInterruptUnderLock'
  BY SMTT(30), SMTT(60), <1>6 DEF NoInterruptUnderLock, LockedLocs
<1>13. IdleOwnCpu'
  BY SMTT(30), SMTT(60) DEF IdleOwnCpu, IdleShape, NeedsShape, ClientLocs
<1>14. FrameShape'
  BY ZenonT(60), <1>1 DEF Typed, FrameShape, ClientLocs, top, Goto
<1>15. OffCpuShape'
  BY ZenonT(60), <1>1, <1>6 DEF Typed, OffCpuShape
<1>16. ChildShape'
  BY SMTT(30), SMTT(60), <1>1 DEF Typed, ChildShape, top, Goto
<1>17. IdleShape'
  BY SMTT(30), SMTT(60), <1>1 DEF Typed, IdleShape, Goto
<1>18. SwitchShape'
  BY SMTT(30), SMTT(60), <1>3, <1>6 DEF SwitchShape
<1>19. NeedsShape'
  BY SMTT(30), SMTT(60), <1>6 DEF NeedsShape, ClientLocs
<1>20. SkippedShape'
  BY SMTT(30), SMTT(60), <1>6 DEF SkippedShape
<1> QED BY ONLY ZenonT(60), <1>7, <1>8, <1>9, <1>10, <1>11, <1>12, <1>13, <1>14,
           <1>15, <1>16,
           <1>17, <1>18, <1>19, <1>20

\* The thread switched in releases the lock it inherited.
LEMMA UnlockTaskInv ==
  ASSUME IInv, NEW c \in CPU, UnlockTask(c)
  PROVE  IInv'
<1> USE DEF IInv, ThreadShape, UnlockTask, InClient, TaskInClient, queueVars,
    flagVars, stackVars
<1>1. TypeOK /\ Typed /\ run[c] \in Thread /\ current[c] \in Thread
  BY ZenonT(60), TypedHolds DEF Typed
<1>2. Goto(run[c], "rs_dec")
  BY ZenonT(60) DEF Goto
<1>3. Moves(c) /\ top'[run[c]] = "rs_dec"
  BY ZenonT(60), <1>2, GotoKeeps
<1>4. TypeOK'
  BY ZenonT(60) DEF TypeOK, KernelLocs
<1>5. /\ QueueComplete' /\ IdleOwnCpu'
  BY ZenonT(60), Kept, SameDesired DEF NoNewRequest
<1>6. /\ StacksSafe' /\ PreemptBalanced' /\ FrameShape'
      /\ OffCpuShape' /\ ChildShape' /\ IdleShape'
      /\ SwitchShape' /\ NeedsShape' /\ SkippedShape'
  BY ZenonT(60), <1>2, <1>3, Moved, GotoKeeps, NoGuards, SameDesired
     DEF NoNewRequest,
         LockedLocs, CountedLocs, ClientLocs
<1>7. RunQueueExclusion'
  BY ZenonT(60), <1>3, Moved DEF LockedLocs
<1>8. NoInterruptUnderLock'
  BY ZenonT(60), <1>1, <1>3 DEF Moves, Typed, NoInterruptUnderLock, LockedLocs
<1> QED BY ONLY ZenonT(60), <1>4, <1>5, <1>6, <1>7, <1>8

\* The preempt guard is dropped last.
LEMMA DropPreemptInv ==
  ASSUME IInv, NEW c \in CPU, DropPreempt(c)
  PROVE  IInv'
<1> USE DEF IInv, ThreadShape, DropPreempt, InClient, TaskInClient, queueVars,
    flagVars, stackVars
<1>1. TypeOK /\ Typed /\ run[c] \in Thread /\ current[c] \in Thread
  BY ZenonT(60), TypedHolds DEF Typed
<1>2. preempt[c] = guards[run[c]] + 1 /\ preempt[c] - 1 \in Nat
  BY SMTT(30), SMTT(60), <1>1 DEF PreemptBalanced, CountedLocs, Typed
<1>3. Moves(c) /\ top'[run[c]] = "run"
  BY ZenonT(60), GotoKeeps
<1>4. TypeOK'
  <2>1. irq[run[c]] # "none" => "run" \in IrqLocs
    BY ZenonT(60), <1>1 DEF Typed, top, IrqLocs
  <2>2. kpc' \in [Thread -> KernelLocs] /\ irq' \in [Thread -> IrqLocs]
    BY ZenonT(60), <2>1, GotoKeeps DEF KernelLocs
  <2>3. preempt' \in [CPU -> Nat]
    BY ZenonT(60), <1>1, <1>2 DEF Typed
  <2> QED BY ZenonT(60), <1>2, <2>2 DEF TypeOK
<1>5. /\ QueueComplete' /\ IdleOwnCpu'
  BY ZenonT(60), Kept, SameDesired DEF NoNewRequest
<1>6. /\ RunQueueExclusion' /\ StacksSafe' /\ NoInterruptUnderLock'
      /\ FrameShape' /\ OffCpuShape' /\ ChildShape'
      /\ IdleShape' /\ SwitchShape' /\ NeedsShape'
      /\ SkippedShape'
  BY ZenonT(60), <1>3, Moved, GotoKeeps, SameDesired DEF NoNewRequest,
     LockedLocs,
         ClientLocs
<1>7. PreemptBalanced'
  BY SMTT(30), SMTT(60), <1>1, <1>3 DEF Moves, Typed, PreemptBalanced,
     CountedLocs, LockedLocs,
         StacksSafe
<1> QED BY ZenonT(60), <1>4, <1>5, <1>6, <1>7

\* The same release in an interrupt handler, up to iretq.
LEMMA UnlockIrqInv ==
  ASSUME IInv, NEW c \in CPU, UnlockIrq(c)
  PROVE  IInv'
<1> USE DEF IInv, ThreadShape, UnlockIrq, InClient, TaskInClient, queueVars,
    flagVars, stackVars
<1>1. TypeOK /\ Typed /\ run[c] \in Thread /\ current[c] \in Thread
  BY ZenonT(60), TypedHolds DEF Typed
<1>2. kpc[run[c]] \notin CountedLocs /\ kpc[run[c]] # "hlt"
  BY ZenonT(60), <1>1 DEF FrameShape
<1>3. kpc[run[c]] \notin LockedLocs \cup {"lock", "switch", "reap", "pop"}
  BY ONLY ZenonT(60), <1>2 DEF CountedLocs, LockedLocs
<1>4. preempt[c] = guards[run[c]] + 1 /\ preempt[c] - 1 \in Nat
  BY SMTT(30), SMTT(60), <1>1 DEF PreemptBalanced, CountedLocs, LockedLocs,
     Typed
<1>5. Moves(c) /\ top'[run[c]] = kpc[run[c]]
  BY ZenonT(60), <1>1 DEF top, Typed, Moves
<1>6. TypeOK'
  <2>1. preempt' \in [CPU -> Nat]
    BY ZenonT(60), <1>1, <1>4 DEF Typed
  <2> QED BY ZenonT(60), <1>4 DEF TypeOK, IrqLocs
<1>7. /\ QueueComplete' /\ IdleOwnCpu'
  BY ZenonT(60), Kept, SameDesired DEF NoNewRequest
<1>8. /\ StacksSafe' /\ OffCpuShape' /\ SwitchShape'
      /\ NeedsShape' /\ SkippedShape'
  BY ZenonT(60), <1>2, <1>5, Moved, SameDesired DEF NoNewRequest, LockedLocs,
     CountedLocs,
         ClientLocs
<1>9. RunQueueExclusion'
  BY ZenonT(60), <1>3, <1>5, Moved DEF LockedLocs
<1>10. PreemptBalanced'
  BY SMTT(30), SMTT(60), <1>1, <1>2, <1>5 DEF Moves, Typed, PreemptBalanced,
     CountedLocs,
         LockedLocs, StacksSafe
<1>11. NoInterruptUnderLock'
  BY ZenonT(60), <1>1, <1>3, <1>5 DEF Moves, Typed, NoInterruptUnderLock
<1>12. FrameShape'
  BY SMTT(30), SMTT(60) DEF FrameShape
<1>13. ChildShape'
  BY ZenonT(60), Kept
<1>14. IdleShape'
  BY ZenonT(60), Kept
<1> QED BY ONLY ZenonT(60), <1>6, <1>7, <1>8, <1>9, <1>10, <1>11, <1>12, <1>13, <1>14

\* A new task releases the lock its predecessor took.
LEMMA ForceUnlockSchedulerInv ==
  ASSUME IInv, NEW c \in CPU, ForceUnlockScheduler(c)
  PROVE  IInv'
<1> USE DEF IInv, ThreadShape, ForceUnlockScheduler, InClient, TaskInClient,
    queueVars, flagVars, stackVars
<1>1. TypeOK /\ Typed /\ run[c] \in Thread /\ current[c] \in Thread
  BY ZenonT(60), TypedHolds DEF Typed
<1>2. Moves(c) /\ top'[run[c]] = "setup"
  BY ZenonT(60), GotoKeeps
<1>3. TypeOK'
  <2>1. irq[run[c]] # "none" => "setup" \in IrqLocs
    BY ZenonT(60), <1>1 DEF Typed, top, IrqLocs
  <2>2. kpc' \in [Thread -> KernelLocs] /\ irq' \in [Thread -> IrqLocs]
    BY ZenonT(60), <2>1, GotoKeeps DEF KernelLocs
  <2> QED BY ZenonT(60), <2>2 DEF TypeOK
<1>4. /\ QueueComplete' /\ IdleOwnCpu'
  BY ZenonT(60), Kept, SameDesired DEF NoNewRequest
<1>5. /\ StacksSafe' /\ PreemptBalanced' /\ FrameShape'
      /\ OffCpuShape' /\ ChildShape' /\ IdleShape'
      /\ SwitchShape' /\ NeedsShape' /\ SkippedShape'
  BY ZenonT(60), <1>2, Moved, GotoKeeps, NoGuards, SameDesired DEF NoNewRequest,
         LockedLocs, CountedLocs, ClientLocs
<1>6. RunQueueExclusion'
  BY ZenonT(60), <1>2, Moved DEF LockedLocs
<1>7. NoInterruptUnderLock'
  BY ZenonT(60), <1>1, <1>2 DEF Moves, Typed, NoInterruptUnderLock, LockedLocs
<1> QED BY ZenonT(60), <1>3, <1>4, <1>5, <1>6, <1>7

\* A new task starts with no guard counted.
LEMMA SetPreemptCountInv ==
  ASSUME IInv, NEW c \in CPU, SetPreemptCount(c)
  PROVE  IInv'
<1> USE DEF IInv, ThreadShape, SetPreemptCount, InClient, TaskInClient,
    queueVars, flagVars, stackVars
<1>1. TypeOK /\ Typed /\ run[c] \in Thread /\ current[c] \in Thread
  BY ZenonT(60), TypedHolds DEF Typed
<1>2. guards[run[c]] = 0
  BY ZenonT(60), NoGuards DEF ClientLocs
<1>3. Moves(c) /\ top'[run[c]] = "run"
  BY ZenonT(60), GotoKeeps
<1>4. TypeOK'
  <2>1. irq[run[c]] # "none" => "run" \in IrqLocs
    BY ZenonT(60), <1>1 DEF Typed, top, IrqLocs
  <2>2. kpc' \in [Thread -> KernelLocs] /\ irq' \in [Thread -> IrqLocs]
    BY ZenonT(60), <2>1, GotoKeeps DEF KernelLocs
  <2>3. preempt' \in [CPU -> Nat]
    BY ZenonT(60), <1>1 DEF Typed
  <2> QED BY ZenonT(60), <2>2 DEF TypeOK
<1>5. /\ QueueComplete' /\ IdleOwnCpu'
  BY ZenonT(60), Kept, SameDesired DEF NoNewRequest
<1>6. /\ RunQueueExclusion' /\ StacksSafe' /\ NoInterruptUnderLock'
      /\ FrameShape' /\ OffCpuShape' /\ ChildShape'
      /\ IdleShape' /\ SwitchShape' /\ NeedsShape'
      /\ SkippedShape'
  BY ZenonT(60), <1>3, Moved, GotoKeeps, SameDesired DEF NoNewRequest,
     LockedLocs,
         ClientLocs
<1>7. PreemptBalanced'
  BY SMTT(30), SMTT(60), <1>1, <1>2, <1>3 DEF Moves, Typed, PreemptBalanced,
     CountedLocs,
         LockedLocs, StacksSafe
<1> QED BY ZenonT(60), <1>4, <1>5, <1>6, <1>7
=============================================================================
