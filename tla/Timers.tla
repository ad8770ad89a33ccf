------------------------------- MODULE Timers -------------------------------
(***************************************************************************)
(* Timers and timed sleep: kernel/src/tick.rs, sleep_timeout in            *)
(* schedcore.rs, the clock of hpet.rs and the timer commands of shell.rs,  *)
(* on top of TaskScheduling.                                               *)
(*                                                                         *)
(* The tick interrupt goes to one CPU, the BSP.  It lands on the stack of  *)
(* the task that is on that CPU (a task of BspTasks) or on the idle task,  *)
(* and that code does not move until the handler returns.                  *)
(***************************************************************************)
EXTENDS TaskScheduling, Integers, FiniteSets

CONSTANTS
  BspTasks,   \* tasks that may be on the BSP when it ticks
  Idle,       \* the BSP's idle task
  Timeouts,   \* the timeouts callers ask for, in ticks
  WrapMs,     \* elapsed_milliseconds wraps here (2^64 femtoseconds)
  MaxTimers   \* bound on the timers there are when another is asked for

VARIABLES
  tpc,     \* where the task stands in sleep_timeout or add_relative_timer
  job,     \* the timeout it asked for, its timer's expiration, whom it wakes
  slept,   \* ticks since the task called sleep_timeout, up to its timeout
  timers,  \* TIMERS, as a set: expired timers fire in one step, equal ones alike
  holder,  \* who holds the lock of TIMERS, as a set
  now,     \* elapsed_milliseconds, in ticks
  tickAt,  \* the code the tick handler interrupted, as a set
  disturbed  \* history: tasks whose last sleep began with an old timer of theirs
             \* in TIMERS, or had a waker that is not a timer

timerVars == <<tpc, job, slept, timers, holder, now, tickAt, disturbed>>
sleepVars == <<schedVars, timerVars>>

NoJob == [timeout |-> 0, expiration |-> 0, wakes |-> {}]

TimerInit ==
  /\ desired = [t \in Task |-> "ReadyToRun"]
  /\ on = {}
  /\ tpc = [t \in Task |-> "run"]
  /\ job = [t \in Task |-> NoJob]
  /\ slept = [t \in Task |-> 0]
  /\ timers = {}
  /\ holder = {}
  /\ now = 0
  /\ tickAt = {}
  /\ disturbed = {}

\* The task executes, at l.
Executes(t, l) ==
  /\ t \in on
  /\ tpc[t] = l
  /\ t \notin tickAt

Continue(t, l) == tpc' = [tpc EXCEPT ![t] = l]

\* The timers that awaken t.
TimersOf(t) == {timer \in timers : t \in timer.wakes}

\* sleep_timeout, up to prepare_to_sleep.
SleepTimeout(t, ms) ==
  /\ Executes(t, "run")
  /\ Cardinality(timers) < MaxTimers
  /\ PrepareToSleep(t)
  /\ job' = [job EXCEPT ![t] = [timeout |-> ms, expiration |-> 0, wakes |-> {t}]]
  /\ slept' = [slept EXCEPT ![t] = 0]
  /\ Continue(t, "clock")
  /\ disturbed' = IF TimersOf(t) = {} THEN disturbed \ {t} ELSE disturbed \cup {t}
  /\ UNCHANGED <<timers, holder, now, tickAt>>

\* The shell's timer command: a timer whose callback only logs.
TimerCommand(t, ms) ==
  /\ Executes(t, "run")
  /\ Cardinality(timers) < MaxTimers
  /\ job' = [job EXCEPT ![t] = [timeout |-> ms, expiration |-> 0, wakes |-> {}]]
  /\ slept' = [slept EXCEPT ![t] = 0]
  /\ Continue(t, "clock")
  /\ UNCHANGED <<schedVars, timers, holder, now, tickAt, disturbed>>

\* add_relative_timer.
AddRelativeTimer(t) ==
  /\ Executes(t, "clock")
  /\ job' = [job EXCEPT ![t].expiration = now + job[t].timeout]
  /\ Continue(t, "lock")
  /\ UNCHANGED <<schedVars, slept, timers, holder, now, tickAt, disturbed>>

\* add_timer takes TIMERS with SpinLock::lock: interrupts stay on ...
LockTimers(t) ==
  /\ Executes(t, "lock")
  /\ holder = {}
  /\ holder' = {t}
  /\ Continue(t, "push")
  /\ UNCHANGED <<schedVars, job, slept, timers, now, tickAt, disturbed>>

\* ... and pushes the timer.  A caller that does not sleep is done.
PushTimer(t) ==
  /\ Executes(t, "push")
  /\ timers' = timers \cup {[expiration |-> job[t].expiration, wakes |-> job[t].wakes]}
  /\ holder' = {}
  /\ job' = [job EXCEPT ![t] = IF job[t].wakes = {} THEN NoJob
                                ELSE [NoJob EXCEPT !.timeout = job[t].timeout]]
  /\ Continue(t, IF job[t].wakes = {} THEN "run" ELSE "sched")
  /\ UNCHANGED <<schedVars, slept, now, tickAt, disturbed>>

\* run_scheduler at the end of sleep_timeout: a task that sleeps leaves the
\* CPU, one that is ready again goes on.
RunScheduler(t) ==
  /\ Executes(t, "sched")
  /\ IF desired[t] = "ReadyToRun" THEN UNCHANGED schedVars ELSE SwitchAway(t)
  /\ Continue(t, "run")
  /\ UNCHANGED <<job, slept, timers, holder, now, tickAt, disturbed>>

\* An interrupt ends in run_scheduler on this task's stack.  The preempt guard
\* of TIMERS keeps its holder on the CPU.
PreemptTask(t) ==
  /\ t \notin holder
  /\ t \notin tickAt
  /\ SwitchAway(t)
  /\ UNCHANGED timerVars

ResumeTask(t) ==
  /\ Dispatch(t)
  /\ UNCHANGED timerVars

\* elapsed_milliseconds: the product of counter and period is a u64.
Elapsed(ticks) == ticks % WrapMs

\* The HPET interrupt of the next tick.
TickArrives(context) ==
  /\ tickAt = {}
  /\ context \in (BspTasks \cap on) \cup {Idle}
  /\ tickAt' = {context}
  /\ now' = Elapsed(now + 1)
  /\ slept' = [t \in Task |-> IF slept[t] < job[t].timeout THEN slept[t] + 1 ELSE slept[t]]
  /\ UNCHANGED <<schedVars, tpc, job, timers, holder, disturbed>>

\* Mutant of Expired: timers fire a tick early.
ExpiredEarly(timer) == timer.expiration <= now + 1

Expired(timer) == timer.expiration <= now

\* What retain_mut keeps.
Remaining == {timer \in timers : ~Expired(timer)}

\* tick_broadcast_handler: under the lock of TIMERS every expired timer calls
\* back and is removed.
TickBroadcast ==
  /\ tickAt # {}
  /\ holder = {}
  /\ Awaken(UNION {timer.wakes : timer \in timers \ Remaining})
  /\ timers' = Remaining
  /\ tickAt' = {}
  /\ UNCHANGED <<tpc, job, slept, holder, now, disturbed>>

\* awaken_task from anywhere else: a sender whose message the task saw before it
\* was awakened, or a mutex whose list still has the task.  It changes something
\* only for a task that is Sleeping.  Its timer stays in TIMERS.
AwakenedByOther(t) ==
  /\ desired[t] = "Sleeping"
  /\ Awaken({t})
  /\ disturbed' = disturbed \cup {t}
  /\ UNCHANGED <<tpc, job, slept, timers, holder, now, tickAt>>

TaskStep(t) ==
  \/ AddRelativeTimer(t)
  \/ LockTimers(t)
  \/ PushTimer(t)
  \/ RunScheduler(t)

TimerNext ==
  \/ \E t \in Task :
       \/ \E ms \in Timeouts : SleepTimeout(t, ms) \/ TimerCommand(t, ms)
       \/ TaskStep(t)
       \/ PreemptTask(t)
       \/ ResumeTask(t)
       \/ AwakenedByOther(t)
  \/ \E context \in Task \cup {Idle} : TickArrives(context)
  \/ TickBroadcast

TimerSpec == TimerInit /\ [][TimerNext]_sleepVars

-----------------------------------------------------------------------------
(* Properties *)

\* A sleep_timeout that returns too soon was ended by another waker, or by the
\* timer of an earlier sleep that another waker had ended: timers themselves never
\* end a sleep early, although ticks interrupt the caller anywhere, the clock wraps
\* and all tasks share TIMERS.
SleepsLongEnough ==
  \A t \in Task : t \in on /\ tpc[t] = "run" /\ t \notin disturbed
                    => slept[t] >= job[t].timeout

-----------------------------------------------------------------------------
(* What comments say and the code does not do *)

\* sleep_timeout "puts the current task to sleep for the given number of
\* milliseconds" (schedcore.rs:319): a task that left its CPU asleep has a
\* timer to end the sleep.
SleeperHasTimer ==
  \A t \in Task : t \notin on /\ desired[t] = "Sleeping" => TimersOf(t) # {}

\* "For the given number of milliseconds" (schedcore.rs:319), whoever else knows
\* the task: sleep_timeout does not check why it runs again.
SleepUndisturbed ==
  \A t \in Task : t \in on /\ tpc[t] = "run" => slept[t] >= job[t].timeout

\* "Global tick system that runs every TICK_HZ times per second" (tick.rs:1):
\* the tick handler always gets TIMERS and returns.
TickReturns == tickAt # {} ~> tickAt = {}

\* add_timer "adds a timer to be called after the global milliseconds since
\* boot reaches the given number of milliseconds" (tick.rs:77-78): a timer
\* leaves the list.
TimersFire ==
  \A x \in [expiration : {n + ms : n \in 0..WrapMs - 1, ms \in Timeouts}, wakes : SUBSET Task] :
    x \in timers ~> x \notin timers
=============================================================================
