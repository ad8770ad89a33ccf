------------------------------- MODULE Mutex --------------------------------
(***************************************************************************)
(* The sleeping mutex: kernel/src/sync/mutex.rs on TaskScheduling.  The    *)
(* queue of waiting tasks is held under a spin lock with preemption off,   *)
(* so a push is one step and wake_tasks excludes other pushes; the inner   *)
(* spin lock is taken with try_lock_allow_preempt, so its holder can be    *)
(* preempted and can sleep.                                                *)
(***************************************************************************)
EXTENDS TaskScheduling, Naturals, Sequences, Functions

CONSTANTS
  Preemptible,  \* the tasks that interrupts take off their CPU
  Rounds        \* how often a task takes the mutex before it exits

VARIABLES
  mpc,      \* where the task stands in lock, in its critical section or in drop
  rounds,   \* critical sections the task has left
  locked,   \* the inner spin lock
  waiting,  \* waiting_tasks
  woken     \* ids that the task in wake_tasks has popped, as a set

mutexVars == <<mpc, rounds, locked, waiting, woken>>
vars == <<schedVars, mutexVars>>

MutexInit ==
  /\ desired = [t \in Task |-> "ReadyToRun"]
  /\ on = {}
  /\ mpc = [t \in Task |-> "idle"]
  /\ rounds = [t \in Task |-> 0]
  /\ locked = FALSE
  /\ waiting = <<>>
  /\ woken = {}

At(t, l) == t \in on /\ mpc[t] = l

Goto(t, l) == mpc' = [mpc EXCEPT ![t] = l]

\* Some task is in wake_tasks and holds the lock of waiting_tasks.
Waking == \E t \in Task : mpc[t] \in {"pop", "awaken"}

\* lock, from its start or after a failed attempt.
LockPrepare(t) ==
  /\ mpc[t] \in {"idle", "retry"}
  /\ rounds[t] < Rounds
  /\ PrepareToSleep(t)
  /\ Goto(t, "prepared")
  /\ UNCHANGED <<rounds, locked, waiting, woken>>

LockPush(t) ==
  /\ At(t, "prepared")
  /\ ~Waking
  /\ waiting' = Append(waiting, t)
  /\ Goto(t, "pushed")
  /\ UNCHANGED <<schedVars, rounds, locked, woken>>

\* Mutant of TryLock: the attempt always succeeds.
TryLockAlways == TRUE

\* try_lock_allow_preempt of the inner lock.
TryLock == ~locked

LockTry(t) ==
  /\ At(t, "pushed")
  /\ IF TryLock THEN locked' = TRUE /\ Goto(t, "acquired")
                ELSE UNCHANGED locked /\ Goto(t, "failed")
  /\ UNCHANGED <<schedVars, rounds, waiting, woken>>

\* awaken_task of itself, on success.
LockDone(t) ==
  /\ At(t, "acquired")
  /\ Awaken({t})
  /\ Goto(t, "critical")
  /\ UNCHANGED <<rounds, locked, waiting, woken>>

\* Mutant of LockSleep: the state becomes Sleeping after the check.
LockSleepLate(t) ==
  /\ At(t, "failed")
  /\ desired' = [desired EXCEPT ![t] = "Sleeping"]
  /\ on' = on \ {t}
  /\ Goto(t, "retry")
  /\ UNCHANGED <<rounds, locked, waiting, woken>>

\* run_scheduler, on failure.
LockSleep(t) ==
  /\ At(t, "failed")
  /\ IF desired[t] = "ReadyToRun" THEN UNCHANGED schedVars ELSE SwitchAway(t)
  /\ Goto(t, "retry")
  /\ UNCHANGED <<rounds, locked, waiting, woken>>

\* The drop of the guard enters wake_tasks ...
Drop(t) ==
  /\ At(t, "critical")
  /\ ~Waking
  /\ Goto(t, "pop")
  /\ UNCHANGED <<schedVars, rounds, locked, waiting, woken>>

MoreToPop == waiting # <<>>

\* ... which pops and awakens every waiting task, one by one ...
WakePop(t) ==
  /\ At(t, "pop")
  /\ MoreToPop
  /\ woken' = {Head(waiting)}
  /\ waiting' = Tail(waiting)
  /\ Goto(t, "awaken")
  /\ UNCHANGED <<schedVars, rounds, locked>>

WakeAwaken(t) ==
  /\ At(t, "awaken")
  /\ Awaken(woken)
  /\ Goto(t, "pop")
  /\ UNCHANGED <<rounds, locked, waiting, woken>>

WakeDone(t) ==
  /\ At(t, "pop")
  /\ ~MoreToPop
  /\ woken' = {}
  /\ Goto(t, "release")
  /\ UNCHANGED <<schedVars, rounds, locked, waiting>>

\* ... and only then drops the guard of the inner lock.
Release(t) ==
  /\ At(t, "release")
  /\ locked' = FALSE
  /\ rounds' = [rounds EXCEPT ![t] = @ + 1]
  /\ Goto(t, "idle")
  /\ UNCHANGED <<schedVars, waiting, woken>>

\* The task is done with the mutex and exits; later it is deleted.
Exit(t) ==
  /\ At(t, "idle")
  /\ rounds[t] = Rounds
  /\ SwapKilled(t)
  /\ UNCHANGED mutexVars

Leave(t) ==
  /\ desired[t] = "Killed"
  /\ SwitchAway(t)
  /\ UNCHANGED mutexVars

Delete(t) == DeleteTask(t) /\ UNCHANGED mutexVars

\* An interrupt ends in run_scheduler.  In wake_tasks preemption is off.
Preempt(t) ==
  /\ t \in Preemptible
  /\ mpc[t] \notin {"pop", "awaken"}
  /\ desired[t] # "Killed"
  /\ SwitchAway(t)
  /\ UNCHANGED mutexVars

Resume(t) == Dispatch(t) /\ UNCHANGED mutexVars

Step(t) ==
  \/ LockPush(t) \/ LockTry(t) \/ LockDone(t) \/ LockSleep(t)
  \/ Drop(t) \/ WakePop(t) \/ WakeAwaken(t) \/ WakeDone(t) \/ Release(t)

MutexNext ==
  \E t \in Task :
    \/ LockPrepare(t) \/ Step(t) \/ Exit(t) \/ Leave(t) \/ Delete(t) \/ Preempt(t) \/ Resume(t)

MutexSpec == MutexInit /\ [][MutexNext]_vars

\* What a task does once it is on a CPU: it also leaves its critical section.
Progress(t) == Step(t) \/ (mpc[t] = "retry" /\ LockPrepare(t))

-----------------------------------------------------------------------------
(* Properties *)

Owners == {t \in Task : mpc[t] \in {"acquired", "critical", "pop", "awaken", "release"}}

\* At most one task is between lock and the end of drop, although owners are
\* preempted, sleep and migrate, and then the inner lock is set.
MutualExclusion == \A t, u \in Owners : t = u /\ locked

\* A task that failed to lock and went to sleep in run_scheduler stands in
\* waiting_tasks, or is being awakened: setting the state to Sleeping before
\* the push closes the window in which wake_tasks would pass it by.  And tasks
\* that succeed stay in waiting_tasks, but their ids are gone before they can
\* exit: awaken_task never asserts on a task that was deleted and never makes
\* a killed task ready.
SleepersQueued ==
  /\ \A t \in Task :
       mpc[t] \in {"failed", "retry"} /\ desired[t] = "Sleeping" =>
         t \in Range(waiting) \cup woken
  /\ \A t \in woken \cup Range(waiting) : desired[t] \in {"ReadyToRun", "Sleeping"}

-----------------------------------------------------------------------------
(* What comments say and the code does not do *)

\* "Set desired_state to sleeping before checking value to avoid race condition
\* where we get woken up before we go to sleep" (mutex.rs:42-43): whoever waits
\* for the mutex gets it.
LockSucceeds == \A t \in Task : mpc[t] = "prepared" ~> mpc[t] = "critical"

\* A "Mutex that puts processes to sleep while waiting for access" (mutex.rs:9):
\* a task that has access is not left asleep.
OwnerNotAsleep == \A t \in Owners : t \in on \/ desired[t] = "ReadyToRun"
=============================================================================
