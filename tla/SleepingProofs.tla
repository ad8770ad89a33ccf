--------------------------- MODULE SleepingProofs ---------------------------
(***************************************************************************)
(* The sleeping mutex and the timers keep their promises for any number of *)
(* tasks, on any number of CPUs: proofs about Mutex and Timers.            *)
(***************************************************************************)
EXTENDS Mutex, Timers, TLAPS

-----------------------------------------------------------------------------
(* Mutex *)

States == {"Unborn", "ReadyToRun", "Sleeping", "Killed", "Deleted"}

MutexLocs == {"idle", "retry", "prepared", "pushed", "acquired", "failed",
              "critical", "pop", "awaken", "release"}

MutexTyped ==
  /\ desired \in [Task -> States]
  /\ on \subseteq Task
  /\ mpc \in [Task -> MutexLocs]
  /\ rounds \in [Task -> Nat]
  /\ locked \in BOOLEAN
  /\ waiting \in Seq(Task)
  /\ woken \subseteq Task

\* The tasks whose ids are in waiting_tasks or in the hands of wake_tasks.
Listed == Range(waiting) \cup woken

\* A task that neither waits for the mutex nor has it is not listed: it has
\* emptied waiting_tasks, its own id included, before it gave the mutex back.
ListedTasksLock ==
  \A t \in Task : mpc[t] \in {"idle", "release"} => t \notin Listed

\* Only a task that is done with the mutex exits.
ExitedTasksDone ==
  \A t \in Task : desired[t] \notin {"ReadyToRun", "Sleeping"} =>
    mpc[t] = "idle" /\ rounds[t] = Rounds

\* From the push on, a task that sleeps will still be popped, or it has been
\* popped and is about to be awakened.
PushedFound ==
  \A t \in Task :
    mpc[t] \in {"pushed", "failed", "retry"} /\ desired[t] = "Sleeping" =>
      \/ t \in Range(waiting)
      \/ t \in woken /\ \E u \in Task : mpc[u] = "awaken"

MutexInv ==
  /\ MutexTyped
  /\ MutualExclusion
  /\ ListedTasksLock
  /\ ExitedTasksDone
  /\ PushedFound

LEMMA SeqFacts ==
  ASSUME NEW S, NEW s \in Seq(S)
  PROVE  /\ Range(s) \subseteq S
         /\ Range(<<>>) = {}
         /\ \A x \in S : Append(s, x) \in Seq(S) /\ Range(Append(s, x)) = Range(s) \cup {x}
         /\ s # <<>> => /\ Head(s) \in S /\ Tail(s) \in Seq(S)
                        /\ Range(s) = {Head(s)} \cup Range(Tail(s))
<1>1. Range(s) \subseteq S /\ Range(<<>>) = {}
  BY DEF Range
<1>2. ASSUME NEW x \in S
      PROVE  Append(s, x) \in Seq(S) /\ Range(Append(s, x)) = Range(s) \cup {x}
  <2>1. /\ Append(s, x) \in Seq(S) /\ Len(Append(s, x)) = Len(s) + 1
        /\ \A i \in 1..Len(s) : Append(s, x)[i] = s[i]
        /\ Append(s, x)[Len(s) + 1] = x
    OBVIOUS
  <2>2. DOMAIN Append(s, x) = 1..(Len(s) + 1) /\ DOMAIN s = 1..Len(s) /\ Len(s) \in Nat
    BY <2>1
  <2> QED BY <2>1, <2>2 DEF Range
<1>3. ASSUME s # <<>>
      PROVE  /\ Head(s) \in S /\ Tail(s) \in Seq(S)
             /\ Range(s) = {Head(s)} \cup Range(Tail(s))
  <2>1. /\ Head(s) \in S /\ Tail(s) \in Seq(S) /\ Len(s) \in Nat \ {0}
        /\ Len(Tail(s)) = Len(s) - 1 /\ Head(s) = s[1]
        /\ \A i \in 1..(Len(s) - 1) : Tail(s)[i] = s[i + 1]
    BY <1>3
  <2>2. DOMAIN s = 1..Len(s) /\ DOMAIN Tail(s) = 1..(Len(s) - 1)
    BY <2>1
  <2>3. \A i \in 1..Len(s) : i = 1 \/ (i - 1 \in 1..(Len(s) - 1) /\ (i - 1) + 1 = i)
    BY <2>1
  <2>4. ASSUME NEW i \in 1..Len(s) PROVE s[i] \in {Head(s)} \cup Range(Tail(s))
    <3>1. CASE i = 1
      BY <2>1, <3>1
    <3>2. CASE i # 1
      <4>1. i - 1 \in DOMAIN Tail(s) /\ Tail(s)[i - 1] = s[i]
        BY <2>1, <2>2, <2>3, <3>2
      <4> QED BY ZenonT(60), <4>1 DEF Range
    <3> QED BY <3>1, <3>2
  <2>5. ASSUME NEW i \in 1..(Len(s) - 1) PROVE Tail(s)[i] \in Range(s)
    <3>1. i + 1 \in DOMAIN s /\ Tail(s)[i] = s[i + 1]
      BY <2>1, <2>2
    <3> QED BY <3>1 DEF Range
  <2>6. Head(s) \in Range(s)
    BY <2>1, <2>2 DEF Range
  <2> QED BY SMTT(30), SMTT(60), <2>1, <2>2, <2>4, <2>5, <2>6 DEF Range
<1> QED BY <1>1, <1>2, <1>3

LEMMA MutexInitInv == MutexInit => MutexInv
<1> SUFFICES ASSUME MutexInit PROVE MutexInv
  OBVIOUS
<1>1. <<>> \in Seq(Task) /\ Range(waiting) = {}
  BY DEF MutexInit, Range
<1> QED BY ZenonT(60), <1>1 DEF MutexInit, MutexInv, MutexTyped, MutualExclusion, Owners,
      Listed, ListedTasksLock, ExitedTasksDone, PushedFound, States, MutexLocs

LEMMA MutexNextInv ==
  ASSUME Rounds \in Nat, MutexInv, [MutexNext]_vars
  PROVE  MutexInv'
<1> USE DEF MutexInv, MutexTyped, States, MutexLocs, Listed, ListedTasksLock,
        ExitedTasksDone, PushedFound, MutualExclusion, Owners, Goto, At,
        schedVars, mutexVars
<1>1. CASE UNCHANGED vars
  BY <1>1 DEF vars
<1>2. ASSUME NEW t \in Task, LockPrepare(t) PROVE MutexInv'
  BY <1>2 DEF LockPrepare, PrepareToSleep, SetDesired
<1>3. ASSUME NEW t \in Task, LockPush(t) PROVE MutexInv'
  <2>1. waiting' \in Seq(Task) /\ Range(waiting') = Range(waiting) \cup {t}
    BY <1>3, SeqFacts DEF LockPush
  <2> QED BY <1>3, <2>1 DEF LockPush
<1>4. ASSUME NEW t \in Task, LockTry(t) PROVE MutexInv'
  <2>1. mpc[t] = "pushed" /\ UNCHANGED <<desired, on, rounds, waiting, woken>>
    BY <1>4 DEF LockTry
  <2>2. CASE ~locked /\ locked' = TRUE /\ mpc' = [mpc EXCEPT ![t] = "acquired"]
    BY SMTT(30), SMTT(60), <2>1, <2>2
  <2>3. CASE UNCHANGED locked /\ mpc' = [mpc EXCEPT ![t] = "failed"]
    BY SMTT(30), SMTT(60), <2>1, <2>3
  <2> QED BY ZenonT(60), <1>4, <2>2, <2>3 DEF LockTry, TryLock
<1>5. ASSUME NEW t \in Task, LockDone(t) PROVE MutexInv'
  BY <1>5 DEF LockDone, Awaken, Known
<1>6. ASSUME NEW t \in Task, LockSleep(t) PROVE MutexInv'
  BY <1>6 DEF LockSleep, SwitchAway, Switch
<1>7. ASSUME NEW t \in Task, Drop(t) PROVE MutexInv'
  BY SMTT(30), SMTT(60), <1>7 DEF Drop, Waking
<1>8. ASSUME NEW t \in Task, WakePop(t) PROVE MutexInv'
  <2>1. /\ waiting' \in Seq(Task) /\ Range(waiting) = woken' \cup Range(waiting')
        /\ woken' \subseteq Task
    BY <1>8, SeqFacts DEF WakePop, MoreToPop
  <2> QED BY SMTT(30), SMTT(60), <1>8, <2>1 DEF WakePop
<1>9. ASSUME NEW t \in Task, WakeAwaken(t) PROVE MutexInv'
  BY <1>9 DEF WakeAwaken, Awaken, Known
<1>10. ASSUME NEW t \in Task, WakeDone(t) PROVE MutexInv'
  <2>1. Range(waiting) = {}
    BY SMTT(30), SMTT(60), <1>10 DEF WakeDone, MoreToPop, Range
  <2> QED BY <1>10, <2>1 DEF WakeDone
<1>11. ASSUME NEW t \in Task, Release(t) PROVE MutexInv'
  <2>1. /\ mpc[t] = "release" /\ mpc' = [mpc EXCEPT ![t] = "idle"] /\ locked' = FALSE
        /\ UNCHANGED <<desired, on, waiting, woken>>
        /\ rounds' = [rounds EXCEPT ![t] = @ + 1]
    BY <1>11 DEF Release
  <2>2. MutexTyped' /\ MutualExclusion'
    <3>1. MutexTyped'
      <4>1. rounds' \in [Task -> Nat]
        BY ONLY <2>1, MutexTyped DEF MutexTyped
      <4> QED BY ONLY ZenonT(60), <2>1, <4>1, MutexTyped DEF MutexTyped, MutexLocs
    <3>2. \A u \in Task : u # t => u \notin Owners
      BY <2>1
    <3>3. \A u \in Task : mpc'[u] = IF u = t THEN "idle" ELSE mpc[u]
      BY SMTT(30), SMTT(60), <2>1
    <3> QED BY ZenonT(60), <3>1, <3>2, <3>3
  <2>3. desired[t] \in {"ReadyToRun", "Sleeping"}
    BY SMTT(30), SMTT(60), <2>1
  <2>4. ListedTasksLock' /\ ExitedTasksDone' /\ PushedFound'
    BY SMTT(30), SMTT(60), <2>1, <2>3
  <2> QED BY SMTT(30), SMTT(60), <2>2, <2>4 DEF MutexInv
<1>12. ASSUME NEW t \in Task, Exit(t) PROVE MutexInv'
  BY SMTT(30), SMTT(60), <1>12 DEF Exit, SwapKilled, SetDesired
<1>13. ASSUME NEW t \in Task, Leave(t) \/ Preempt(t) PROVE MutexInv'
  BY SMTT(30), SMTT(60), <1>13 DEF Leave, Preempt, SwitchAway, Switch
<1>14. ASSUME NEW t \in Task, Delete(t) PROVE MutexInv'
  BY SMTT(30), SMTT(60), <1>14 DEF Delete, DeleteTask
<1>15. ASSUME NEW t \in Task, Resume(t) PROVE MutexInv'
  BY <1>15 DEF Resume, Dispatch, Switch
<1> QED
  BY ONLY ZenonT(60), [MutexNext]_vars, <1>1, <1>2, <1>3, <1>4, <1>5, <1>6, <1>7, <1>8, <1>9,
     <1>10, <1>11, <1>12, <1>13, <1>14, <1>15 DEF MutexNext, Step
LEMMA MutexInvHolds ==
  ASSUME Rounds \in Nat
  PROVE  MutexSpec => []MutexInv
<1>1. MutexInv /\ [MutexNext]_vars => MutexInv'
  BY MutexNextInv
<1> QED BY MutexInitInv, <1>1, PTL DEF MutexSpec

\* For any number of tasks at most one is between the lock and the end of the
\* drop of its guard, and meanwhile the inner lock is set (Mutex::lock, the Drop
\* of MutexGuard).
THEOREM MutexExcludes ==
  ASSUME Rounds \in Nat
  PROVE  MutexSpec => []MutualExclusion
<1>1. MutexInv => MutualExclusion
  BY DEF MutexInv
<1> QED BY MutexInvHolds, <1>1, PTL

\* No task sleeps for the mutex without standing in waiting_tasks or being
\* awakened, and wake_tasks never meets a task that has exited: for any number of
\* tasks, however often each takes the mutex (Mutex::lock, wake_tasks).
THEOREM MutexFindsSleepers ==
  ASSUME Rounds \in Nat
  PROVE  MutexSpec => []SleepersQueued
<1>1. MutexInv => SleepersQueued
  <2> SUFFICES ASSUME MutexInv PROVE SleepersQueued
    OBVIOUS
  <2> USE DEF MutexInv, Listed
  <2>1. \A t \in Task : mpc[t] \in {"failed", "retry"} /\ desired[t] = "Sleeping" =>
          t \in Range(waiting) \cup woken
    BY DEF PushedFound
  <2>2. Listed \subseteq Task
    BY SeqFacts DEF MutexTyped
  <2>3. \A t \in Listed : desired[t] \in {"ReadyToRun", "Sleeping"}
    BY ZenonT(60), <2>2 DEF ListedTasksLock, ExitedTasksDone
  <2> QED BY <2>1, <2>3 DEF SleepersQueued
<1> QED BY MutexInvHolds, <1>1, PTL
-----------------------------------------------------------------------------
(* Timers *)

\* The clock wraps after some number of ticks.
TimerConstants ==
  /\ WrapMs \in Nat \ {0}
  /\ Timeouts \subseteq Nat

TimerLocs == {"run", "clock", "lock", "push", "sched"}

TimerTyped ==
  /\ desired \in [Task -> {"ReadyToRun", "Sleeping"}]
  /\ on \subseteq Task
  /\ tpc \in [Task -> TimerLocs]
  /\ job \in [Task -> [timeout : Nat, expiration : Nat, wakes : SUBSET Task]]
  /\ \A t \in Task : job[t].wakes \subseteq {t}
  /\ slept \in [Task -> Nat]
  /\ timers \subseteq [expiration : Nat, wakes : SUBSET Task]
  /\ now \in Nat

\* If the clock reaches the expiration now, then t has slept long enough.
LongBy(t, expiration) ==
  slept[t] >= job[t].timeout \/ slept[t] + expiration >= now + job[t].timeout

\* The facts below are about tasks that only timers awaken.

\* Until its timer is in TIMERS a task is as it was when it called: it sleeps if
\* it is in sleep_timeout, and its timer will not expire too soon.
TimerInHand(t) == t \notin disturbed =>
  /\ tpc[t] \in {"clock", "lock", "push"} =>
       job[t].wakes = IF desired[t] = "Sleeping" THEN {t} ELSE {}
  /\ tpc[t] \in {"lock", "push"} /\ desired[t] = "Sleeping" =>
       LongBy(t, job[t].expiration)

\* A task that is ready has slept as long as it asked for; so has a task in its
\* own code, which is ready.
ReadyInTime(t) == t \notin disturbed =>
  /\ t \in on /\ tpc[t] = "run" => desired[t] = "ReadyToRun"
  /\ tpc[t] \in {"sched", "run"} /\ desired[t] = "ReadyToRun" =>
       slept[t] >= job[t].timeout

\* A timer that wakes a task belongs to the sleep the task is in, is the only one
\* that does, and does not expire too soon.
TimersCurrent ==
  \A x \in timers : \A t \in x.wakes \ disturbed :
    /\ desired[t] = "Sleeping" /\ tpc[t] \in {"sched", "run"}
    /\ LongBy(t, x.expiration)
    /\ \A y \in timers : t \in y.wakes => x = y

TimerInv ==
  /\ TimerTyped
  /\ \A t \in Task : TimerInHand(t) /\ ReadyInTime(t)
  /\ TimersCurrent

\* The clock never runs ahead of the ticks.
LEMMA ClockSlow ==
  ASSUME TimerConstants, NEW n \in Nat
  PROVE  Elapsed(n) \in Nat /\ Elapsed(n) <= n
BY DEF TimerConstants, Elapsed

LEMMA TimerInitInv ==
  ASSUME TimerConstants
  PROVE  TimerInit => TimerInv
  BY DEF TimerInit, NoJob, TimerInv, TimerTyped, TimerLocs,
      TimerInHand, ReadyInTime, TimersCurrent

\* A step of one task leaves the others as they were, and also the timers, if no
\* timer wakes that task, its sleep goes on, or others may awaken it.
LEMMA TimerOneTask ==
  ASSUME TimerInv, NEW t \in Task, TimerTyped', UNCHANGED <<timers, now>>,
         \A u \in Task \ {t} :
           /\ desired'[u] = desired[u] /\ tpc'[u] = tpc[u]
           /\ job'[u] = job[u] /\ slept'[u] = slept[u] /\ (u \in on' => u \in on)
           /\ (u \in disturbed => u \in disturbed'),
         TimerInHand(t)', ReadyInTime(t)',
         \/ t \in disturbed'
         \/ \A x \in timers : t \notin x.wakes
         \/ /\ t \notin disturbed
            /\ desired'[t] = desired[t] /\ tpc'[t] \in {"sched", "run"}
            /\ job'[t] = job[t] /\ slept'[t] = slept[t]
  PROVE  TimerInv'
<1>1. ASSUME NEW u \in Task PROVE TimerInHand(u)' /\ ReadyInTime(u)'
  BY ZenonT(60) DEF TimerInv, TimerInHand, ReadyInTime, LongBy
<1>2. TimersCurrent'
  <2> SUFFICES ASSUME NEW x \in timers, NEW u \in x.wakes \ disturbed'
               PROVE  /\ desired'[u] = "Sleeping" /\ tpc'[u] \in {"sched", "run"}
                      /\ LongBy(u, x.expiration)'
                      /\ \A y \in timers : u \in y.wakes => x = y
    BY DEF TimersCurrent
  <2>0. u \in Task /\ u \notin disturbed
    BY DEF TimerInv, TimerTyped
  <2>1. /\ u \in Task /\ desired[u] = "Sleeping" /\ tpc[u] \in {"sched", "run"}
        /\ LongBy(u, x.expiration)
        /\ \A y \in timers : u \in y.wakes => x = y
    BY <2>0 DEF TimerInv, TimersCurrent
  <2>2. /\ desired'[u] = desired[u] /\ job'[u] = job[u] /\ slept'[u] = slept[u]
        /\ tpc'[u] \in {"sched", "run"}
    BY <2>1
  <2> QED BY <2>1, <2>2 DEF LongBy
<1> QED BY <1>1, <1>2 DEF TimerInv

LEMMA TimerNextInv ==
  ASSUME TimerConstants, TimerInv, [TimerNext]_sleepVars
  PROVE  TimerInv'
<1>0. \A k \in Timeouts : k \in Nat
  BY DEF TimerConstants
<1> USE DEF Continue, Executes, schedVars, timerVars
<1>a. /\ TimerTyped
      /\ \A t \in Task : /\ TimerInHand(t) /\ ReadyInTime(t)
                         /\ job[t] \in [timeout : Nat, expiration : Nat,
                                        wakes : SUBSET Task]
  BY DEF TimerInv, TimerTyped
<1>b. \A t \in Task \ disturbed : tpc[t] \notin {"sched", "run"} \/ desired[t] = "ReadyToRun" =>
        \A x \in timers : t \notin x.wakes
  BY SMTT(30), SMTT(60) DEF TimerInv, TimersCurrent
<1>1. CASE UNCHANGED sleepVars
  BY ZenonT(60), <1>1 DEF sleepVars, TimerInv, TimerTyped, TimerInHand, ReadyInTime, TimersCurrent, LongBy
<1>2. ASSUME NEW t \in Task, NEW ms \in Timeouts, SleepTimeout(t, ms) PROVE TimerInv'
  <2>1. /\ t \in on /\ tpc[t] = "run" /\ ms \in Nat
        /\ desired' = [desired EXCEPT ![t] = "Sleeping"]
        /\ job' = [job EXCEPT ![t] = [timeout |-> ms, expiration |-> 0, wakes |-> {t}]]
        /\ slept' = [slept EXCEPT ![t] = 0]
        /\ tpc' = [tpc EXCEPT ![t] = "clock"]
        /\ disturbed' = IF TimersOf(t) = {} THEN disturbed \ {t} ELSE disturbed \cup {t}
        /\ UNCHANGED <<on, timers, now>>
    BY <1>0, <1>2 DEF SleepTimeout, PrepareToSleep, SetDesired
  <2>2. TimerTyped'
    BY <1>a, <2>1 DEF TimerTyped, TimerLocs
  <2>3. TimerInHand(t)' /\ ReadyInTime(t)'
    BY <1>a, <2>1 DEF TimerTyped, TimerInHand, ReadyInTime
  <2>4. t \in disturbed' \/ \A x \in timers : t \notin x.wakes
    BY <2>1 DEF TimersOf
  <2> QED BY <1>a, <2>1, <2>2, <2>3, <2>4, TimerOneTask DEF TimerTyped
<1>3. ASSUME NEW t \in Task, NEW ms \in Timeouts, TimerCommand(t, ms) PROVE TimerInv'
  <2>1. /\ t \in on /\ tpc[t] = "run" /\ ms \in Nat
        /\ job' = [job EXCEPT ![t] = [timeout |-> ms, expiration |-> 0, wakes |-> {}]]
        /\ slept' = [slept EXCEPT ![t] = 0]
        /\ tpc' = [tpc EXCEPT ![t] = "clock"]
        /\ UNCHANGED <<desired, on, timers, now, disturbed>>
    BY SMTT(30), SMTT(60), <1>0, <1>3 DEF TimerCommand
  <2>2. TimerTyped'
    BY SMTT(30), SMTT(60), <1>a, <2>1 DEF TimerTyped, TimerLocs
  <2>3. t \notin disturbed => desired[t] = "ReadyToRun" /\ \A x \in timers : t \notin x.wakes
    BY SMTT(30), SMTT(60), <1>a, <1>b, <2>1 DEF ReadyInTime
  <2>4. TimerInHand(t)' /\ ReadyInTime(t)'
    BY SMTT(30), SMTT(60), <1>a, <2>1, <2>3 DEF TimerTyped, TimerInHand, ReadyInTime
  <2> QED BY <1>a, <2>1, <2>2, <2>3, <2>4, TimerOneTask DEF TimerTyped
<1>4. ASSUME NEW t \in Task, AddRelativeTimer(t) PROVE TimerInv'
  <2>1. /\ tpc[t] = "clock"
        /\ job' = [job EXCEPT ![t].expiration = now + job[t].timeout]
        /\ tpc' = [tpc EXCEPT ![t] = "lock"]
        /\ UNCHANGED <<desired, on, slept, timers, now, disturbed>>
    BY <1>4 DEF AddRelativeTimer
  <2>2. /\ job'[t].expiration = now + job[t].timeout /\ job'[t].timeout = job[t].timeout
        /\ job'[t].wakes = job[t].wakes /\ job[t].timeout \in Nat
    BY <1>0, <1>a, <2>1 DEF TimerTyped
  <2>3. TimerTyped'
    <3>1. job' \in [Task -> [timeout : Nat, expiration : Nat, wakes : SUBSET Task]]
      BY <1>0, <1>a, <2>1, <2>2 DEF TimerTyped
    <3> QED BY SMTT(30), SMTT(60), <1>a, <2>1, <3>1 DEF TimerTyped, TimerLocs
  <2>4. TimerInHand(t)' /\ ReadyInTime(t)'
    <3>1. tpc'[t] = "lock" /\ slept[t] \in Nat /\ now \in Nat
      BY SMTT(30), SMTT(60), <1>a, <2>1 DEF TimerTyped
    <3>2. LongBy(t, job[t].expiration)'
      BY <2>1, <2>2, <3>1 DEF LongBy
    <3>3. TimerInHand(t)'
      BY ZenonT(60), <1>a, <2>1, <2>2, <3>1, <3>2 DEF TimerInHand
    <3> QED BY SMTT(30), SMTT(60), <3>1, <3>3 DEF ReadyInTime
  <2>5. t \notin disturbed => \A x \in timers : t \notin x.wakes
    BY SMTT(30), SMTT(60), <1>b, <2>1
  <2> QED BY SMTT(30), SMTT(60), <1>a, <2>1, <2>3, <2>4, <2>5, TimerOneTask DEF TimerTyped
<1>5. ASSUME NEW t \in Task, LockTimers(t) PROVE TimerInv'
  <2>1. /\ tpc[t] = "lock" /\ tpc' = [tpc EXCEPT ![t] = "push"]
        /\ UNCHANGED <<desired, on, job, slept, timers, now, disturbed>>
    BY SMTT(30), SMTT(60), <1>5 DEF LockTimers
  <2>2. TimerTyped'
    BY SMTT(30), SMTT(60), <1>a, <2>1 DEF TimerTyped, TimerLocs
  <2>3. TimerInHand(t)' /\ ReadyInTime(t)'
    <3>1. tpc'[t] = "push"
      BY <1>a, <2>1 DEF TimerTyped
    <3>2. TimerInHand(t)'
      BY ZenonT(60), <1>a, <2>1, <3>1 DEF TimerInHand, LongBy
    <3> QED BY SMTT(30), SMTT(60), <3>1, <3>2 DEF ReadyInTime
  <2>4. t \notin disturbed => \A x \in timers : t \notin x.wakes
    BY SMTT(30), SMTT(60), <1>b, <2>1
  <2> QED BY SMTT(30), SMTT(60), <1>a, <2>1, <2>2, <2>3, <2>4, TimerOneTask DEF TimerTyped
<1>6. ASSUME NEW t \in Task, PushTimer(t) PROVE TimerInv'
  <2> DEFINE new == [expiration |-> job[t].expiration, wakes |-> job[t].wakes]
  <2>1. /\ tpc[t] = "push" /\ timers' = timers \cup {new}
        /\ UNCHANGED <<desired, on, slept, now, disturbed>>
        /\ job' = [job EXCEPT ![t] = IF job[t].wakes = {} THEN NoJob
                                     ELSE [NoJob EXCEPT !.timeout = job[t].timeout]]
        /\ tpc' = [tpc EXCEPT ![t] = IF job[t].wakes = {} THEN "run" ELSE "sched"]
    BY <1>6 DEF PushTimer
  <2>2. /\ new \in [expiration : Nat, wakes : SUBSET Task] /\ job[t].timeout \in Nat
        /\ new.wakes \subseteq {t}
        /\ new.wakes = job[t].wakes /\ new.expiration = job[t].expiration
        /\ t \notin disturbed =>
             /\ new.wakes = (IF desired[t] = "Sleeping" THEN {t} ELSE {})
             /\ \A x \in timers : t \notin x.wakes
    <3>1. /\ new \in [expiration : Nat, wakes : SUBSET Task] /\ job[t].timeout \in Nat
          /\ new.wakes = job[t].wakes /\ new.expiration = job[t].expiration
      BY <1>a
    <3>2. job[t].wakes \subseteq {t}
      BY <1>a, Zenon DEF TimerTyped
    <3>3. t \notin disturbed => \A x \in timers : t \notin x.wakes
      BY <1>b, <2>1
    <3>4. t \notin disturbed => job[t].wakes = (IF desired[t] = "Sleeping" THEN {t} ELSE {})
      BY <1>a, <2>1, Zenon DEF TimerInHand
    <3> HIDE DEF new
    <3> QED BY <3>1, <3>2, <3>3, <3>4, Zenon
  <2>3. /\ t \notin disturbed =>
             /\ job'[t].timeout = (IF desired[t] = "Sleeping" THEN job[t].timeout ELSE 0)
             /\ tpc'[t] = (IF desired[t] = "Sleeping" THEN "sched" ELSE "run")
        /\ \A u \in Task : u # t => job'[u] = job[u] /\ tpc'[u] = tpc[u]
    BY <1>a, <2>1, <2>2 DEF NoJob, TimerTyped
  <2> HIDE DEF new
  <2>4. TimerTyped'
    <3>1. job' \in [Task -> [timeout : Nat, expiration : Nat, wakes : SUBSET Task]]
      BY SMTT(30), SMTT(60), <1>0, <1>a, <2>1 DEF TimerTyped, NoJob
    <3>2. \A u \in Task : job'[u].wakes \subseteq {u}
      BY <1>a, <2>1, <2>2 DEF TimerTyped, NoJob
    <3>3. timers' \subseteq [expiration : Nat, wakes : SUBSET Task]
      BY <1>a, <2>1, <2>2 DEF TimerTyped
    <3>4. tpc' \in [Task -> TimerLocs]
      BY <1>a, <2>1 DEF TimerTyped, TimerLocs
    <3> QED BY <1>a, <2>1, <3>1, <3>2, <3>3, <3>4, Zenon DEF TimerTyped
  <2>5. ASSUME NEW u \in Task PROVE TimerInHand(u)' /\ ReadyInTime(u)'
    <3>1. CASE u = t
      BY <1>a, <2>1, <2>2, <2>3, <3>1 DEF TimerInHand, ReadyInTime, TimerTyped
    <3>2. CASE u # t
      BY ZenonT(60), <1>a, <2>1, <2>3, <3>2 DEF TimerInHand, ReadyInTime, LongBy
    <3> QED BY SMTT(30), SMTT(60), <3>1, <3>2
  <2>6. ASSUME NEW u \in Task \ disturbed, NEW e \in Nat, LongBy(u, e) PROVE LongBy(u, e)'
    BY <1>a, <2>1, <2>2, <2>3, <2>6 DEF LongBy, TimerTyped
  <2>7. TimersCurrent'
    <3>1. ASSUME NEW x \in timers', NEW u \in x.wakes \ disturbed
          PROVE  /\ desired[u] = "Sleeping" /\ tpc'[u] \in {"sched", "run"}
                 /\ LongBy(u, x.expiration)'
                 /\ \A y \in timers' : u \in y.wakes => x = y
      <4>1. CASE x = new
        <5>0. u \in Task /\ u = t /\ t \notin disturbed /\ desired[t] = "Sleeping"
          BY Zenon, <2>2, <4>1
        <5>1. u \in Task /\ u = t /\ desired[t] = "Sleeping" /\ LongBy(t, new.expiration)
          BY Zenon, <1>a, <2>1, <2>2, <5>0 DEF TimerInHand
        <5>2. \A y \in timers' : u \in y.wakes => x = y
          BY Zenon, <2>1, <2>2, <4>1, <5>0, <5>1
        <5>3. desired[u] = "Sleeping" /\ tpc'[u] \in {"sched", "run"}
          BY Zenon, <2>3, <5>0, <5>1
        <5>4. x.expiration \in Nat /\ LongBy(u, x.expiration)
          BY SMTT(30), SMTT(60), <2>2, <4>1, <5>1
        <5> QED BY <2>6, <5>0, <5>2, <5>3, <5>4, Zenon
      <4>2. CASE x # new
        <5>1. /\ x \in timers /\ u \in Task /\ u # t /\ x.expiration \in Nat
          BY <1>a, <2>1, <2>2, <4>2 DEF TimerTyped
        <5>2. u \notin new.wakes
          BY <2>2, <5>1
        <5> QED BY <2>1, <2>3, <2>6, <5>1, <5>2 DEF TimerInv, TimersCurrent
      <4> QED BY SMTT(30), SMTT(60), <4>1, <4>2
    <3> QED BY <2>1, <3>1 DEF TimersCurrent
  <2> QED BY SMTT(30), SMTT(60), <2>4, <2>5, <2>7 DEF TimerInv
<1>7. ASSUME NEW t \in Task, RunScheduler(t) PROVE TimerInv'
  <2>1. /\ t \in on /\ tpc[t] = "sched" /\ tpc' = [tpc EXCEPT ![t] = "run"]
        /\ on' \subseteq on /\ (t \in on' => desired[t] = "ReadyToRun")
        /\ UNCHANGED <<desired, job, slept, timers, now, disturbed>>
    BY <1>7 DEF RunScheduler, SwitchAway, Switch
  <2>2. TimerTyped'
    BY SMTT(30), SMTT(60), <1>a, <2>1 DEF TimerTyped, TimerLocs
  <2>3. TimerInHand(t)' /\ ReadyInTime(t)'
    BY ZenonT(60), <1>a, <2>1 DEF TimerTyped, TimerInHand, ReadyInTime
  <2>4. tpc'[t] \in {"sched", "run"}
    BY <1>a, <2>1 DEF TimerTyped
  <2> QED BY <1>a, <2>1, <2>2, <2>3, <2>4, TimerOneTask DEF TimerTyped
<1>8. ASSUME NEW t \in Task, PreemptTask(t) \/ ResumeTask(t) PROVE TimerInv'
  <2>1. /\ on' \subseteq on \cup {t} /\ (t \in on' => desired[t] = "ReadyToRun")
        /\ UNCHANGED <<desired, tpc, job, slept, timers, now, disturbed>>
    BY <1>8 DEF PreemptTask, ResumeTask, SwitchAway, Dispatch, Switch
  <2>2. TimerTyped'
    BY <1>a, <2>1 DEF TimerTyped
  <2>3. TimerInHand(t)' /\ ReadyInTime(t)'
    BY ZenonT(60), <1>a, <2>1 DEF TimerTyped, TimerInHand, ReadyInTime, LongBy
  <2>4. t \in disturbed \/ tpc'[t] \in {"sched", "run"} \/ \A x \in timers : t \notin x.wakes
    BY <1>b, <2>1
  <2> QED BY <1>a, <2>1, <2>2, <2>3, <2>4, TimerOneTask DEF TimerTyped
<1>9. ASSUME NEW context \in Task \cup {Idle}, TickArrives(context) PROVE TimerInv'
  <2>1. /\ UNCHANGED <<desired, on, tpc, job, timers, disturbed>> /\ now' = Elapsed(now + 1)
        /\ slept' = [t \in Task |-> IF slept[t] < job[t].timeout THEN slept[t] + 1 ELSE slept[t]]
    BY <1>9 DEF TickArrives
  <2>2. now' \in Nat /\ now' <= now + 1
    BY <1>a, <2>1, ClockSlow DEF TimerTyped
  <2>3. TimerTyped'
    BY <1>0, <1>a, <2>1, <2>2 DEF TimerTyped
  <2>4. ASSUME NEW t \in Task
        PROVE  /\ slept'[t] >= slept[t] /\ job'[t] = job[t]
               /\ slept[t] >= job[t].timeout \/ slept'[t] = slept[t] + 1
               /\ slept[t] \in Nat /\ slept'[t] \in Nat /\ job[t].timeout \in Nat
    BY <1>0, <1>a, <2>1 DEF TimerTyped
  <2>5. ASSUME NEW t \in Task, NEW e \in Nat, LongBy(t, e) PROVE LongBy(t, e)'
    BY <1>a, <2>2, <2>4, <2>5 DEF LongBy, TimerTyped
  <2>6. ASSUME NEW t \in Task PROVE TimerInHand(t)' /\ ReadyInTime(t)'
    <3>1. job[t].expiration \in Nat /\ job'[t] = job[t]
      BY <1>a, <2>1
    <3>2. TimerInHand(t)'
      BY ZenonT(60), <1>a, <2>1, <2>5, <3>1 DEF TimerInHand
    <3>3. ReadyInTime(t)'
      BY <1>a, <2>1, <2>4 DEF ReadyInTime
    <3> QED BY SMTT(30), SMTT(60), <3>2, <3>3
  <2>7. TimersCurrent'
    <3>1. \A x \in timers : x.expiration \in Nat /\ x.wakes \subseteq Task
      BY SMTT(30), SMTT(60), <1>a DEF TimerTyped
    <3> QED BY ZenonT(60), <2>1, <2>5, <3>1 DEF TimerInv, TimersCurrent
  <2> QED BY <2>3, <2>6, <2>7 DEF TimerInv
<1>10. ASSUME TickBroadcast PROVE TimerInv'
  <2> DEFINE fired == UNION {timer.wakes : timer \in timers \ Remaining}
  <2>1. /\ desired' = [t \in Task |-> IF t \in fired /\ Known(t) THEN "ReadyToRun"
                                                                  ELSE desired[t]]
        /\ timers' = Remaining /\ UNCHANGED <<on, tpc, job, slept, now, disturbed>>
    BY <1>10 DEF TickBroadcast, Awaken
  <2>2. Remaining \subseteq timers
    BY SMTT(30), SMTT(60) DEF Remaining
  <2>3. TimerTyped'
    BY SMTT(30), SMTT(60), <1>a, <2>1, <2>2 DEF TimerTyped
  <2>4. ASSUME NEW t \in fired \ disturbed
        PROVE  /\ t \in Task /\ tpc[t] \in {"sched", "run"} /\ desired'[t] = "ReadyToRun"
               /\ slept[t] >= job[t].timeout
               /\ \A x \in Remaining : t \notin x.wakes
    <3>1. PICK x \in timers : x \notin Remaining /\ t \in x.wakes
      BY SMTT(30), SMTT(60)
    <3>2. /\ t \in Task /\ desired[t] = "Sleeping" /\ tpc[t] \in {"sched", "run"}
          /\ LongBy(t, x.expiration)
          /\ \A y \in timers : t \in y.wakes => x = y
      BY SMTT(30), SMTT(60), <1>a, <3>1 DEF TimerInv, TimersCurrent, TimerTyped
    <3>3. x.expiration <= now /\ x.expiration \in Nat
      BY SMTT(30), SMTT(60), <1>a, <3>1 DEF Remaining, Expired, TimerTyped
    <3>4. slept[t] >= job[t].timeout
      BY SMTT(30), SMTT(60), <1>0, <1>a, <3>2, <3>3 DEF LongBy, TimerTyped
    <3>5. desired'[t] = "ReadyToRun"
      BY SMTT(30), SMTT(60), <2>1, <3>2 DEF Known
    <3> QED BY SMTT(30), SMTT(60), <2>2, <3>1, <3>2, <3>4, <3>5
  <2>5. \A t \in Task : t \notin fired => desired'[t] = desired[t]
    BY <2>1
  <2> HIDE DEF fired
  <2>6. ASSUME NEW t \in Task PROVE TimerInHand(t)' /\ ReadyInTime(t)'
    <3>0. CASE t \in disturbed
      BY <2>1, <3>0 DEF TimerInHand, ReadyInTime
    <3>1. CASE t \in fired \ disturbed
      BY SMTT(30), SMTT(60), <2>1, <2>4, <3>1 DEF TimerInHand, ReadyInTime
    <3>2. CASE t \notin fired
      BY ZenonT(60), <1>a, <2>1, <2>5, <3>2 DEF TimerInHand, ReadyInTime, LongBy
    <3> QED BY SMTT(30), SMTT(60), <3>0, <3>1, <3>2
  <2>7. TimersCurrent'
    <3> SUFFICES ASSUME NEW x \in Remaining, NEW t \in x.wakes \ disturbed
                 PROVE  /\ desired'[t] = "Sleeping" /\ tpc[t] \in {"sched", "run"}
                        /\ LongBy(t, x.expiration)
                        /\ \A y \in Remaining : t \in y.wakes => x = y
      BY <2>1 DEF TimersCurrent, LongBy
    <3>1. t \in Task /\ t \notin fired
      BY <1>a, <2>2, <2>4 DEF TimerTyped
    <3> QED BY <2>2, <2>5, <3>1 DEF TimerInv, TimersCurrent
  <2> QED BY SMTT(30), SMTT(60), <2>3, <2>6, <2>7 DEF TimerInv
<1>11. ASSUME NEW t \in Task, AwakenedByOther(t) PROVE TimerInv'
  <2>1. /\ desired' = [u \in Task |-> IF u \in {t} /\ Known(u) THEN "ReadyToRun"
                                                            ELSE desired[u]]
        /\ disturbed' = disturbed \cup {t}
        /\ UNCHANGED <<on, tpc, job, slept, timers, now>>
    BY <1>11 DEF AwakenedByOther, Awaken
  <2>2. \A u \in Task \ {t} : desired'[u] = desired[u]
    BY <2>1
  <2>3. TimerTyped'
    BY SMTT(30), SMTT(60), <1>a, <2>1 DEF TimerTyped
  <2>4. TimerInHand(t)' /\ ReadyInTime(t)'
    BY <2>1 DEF TimerInHand, ReadyInTime
  <2> QED BY <2>1, <2>2, <2>3, <2>4, TimerOneTask
<1> QED
  BY ONLY ZenonT(60), [TimerNext]_sleepVars, <1>1, <1>2, <1>3, <1>4, <1>5, <1>6, <1>7, <1>8,
     <1>9, <1>10, <1>11 DEF TimerNext, TaskStep

\* No timer ends a sleep early: a task that began its sleep without old timers of
\* its own, and that nothing but timers awakened since, is back in its own code only
\* after as many ticks as it asked sleep_timeout for, although interrupts stop it
\* anywhere, the clock wraps and tasks share the list of timers.  For any number of
\* tasks and any wakers of the others.
THEOREM NoSleepEndsEarly ==
  ASSUME TimerConstants
  PROVE  TimerSpec => []SleepsLongEnough
<1>1. TimerInv /\ [TimerNext]_sleepVars => TimerInv'
  BY TimerNextInv
<1>2. TimerInv => SleepsLongEnough
  BY DEF TimerInv, ReadyInTime, SleepsLongEnough
<1> QED BY TimerInitInv, <1>1, <1>2, PTL DEF TimerSpec
=============================================================================
