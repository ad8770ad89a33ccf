--------------------------- MODULE TaskScheduling ---------------------------
(***************************************************************************)
(* What the scheduler promises the code that sleeps and wakes: which tasks *)
(* are on a CPU, and the state each task asks for.  Run queue, per-CPU     *)
(* flags, time slices and locks are gone.  Scheduler implements this       *)
(* module; the modules of the sleeping primitives are built on it.         *)
(*                                                                         *)
(* A task on a CPU may be taken off at any moment, because a tick or a     *)
(* reschedule request can end in run_scheduler; it comes back only once    *)
(* its desired state is ReadyToRun.                                        *)
(***************************************************************************)
CONSTANT Task

VARIABLES
  desired,  \* Task::desired_state; Unborn and Deleted are not in TASKS
  on        \* the tasks that are CURRENT_TASK_ID of some CPU

schedVars == <<desired, on>>

Known(t) == desired[t] \in {"ReadyToRun", "Sleeping", "Killed"}

\* task_swap_parameters from task t (or the idle task: leaving = {}) to a
\* ready task (or the idle task: entering = {}).
Switch(leaving, entering) ==
  /\ leaving \subseteq on
  /\ entering \cap on = {}
  /\ \A t \in entering : desired[t] = "ReadyToRun"
  /\ on' = (on \ leaving) \cup entering
  /\ UNCHANGED desired

Dispatch(t) == Switch({}, {t})

SwitchAway(t) == Switch({t}, {})

SetDesired(t, state) ==
  /\ t \in on
  /\ desired' = [desired EXCEPT ![t] = state]
  /\ UNCHANGED on

\* prepare_to_sleep and kill_current_task, up to their swap of the state.
PrepareToSleep(t) == SetDesired(t, "Sleeping")
SwapKilled(t) == SetDesired(t, "Killed")

\* awaken_task for the tasks of S that are still in TASKS.  It does not look
\* at the old state: a killed task becomes ready again.
Awaken(S) ==
  /\ desired' = [t \in Task |-> IF t \in S /\ Known(t) THEN "ReadyToRun"
                                                     ELSE desired[t]]
  /\ UNCHANGED on

\* delete_task, of a killed task that is on no CPU.
DeleteTask(t) ==
  /\ desired[t] = "Killed"
  /\ t \notin on
  /\ desired' = [desired EXCEPT ![t] = "Deleted"]
  /\ UNCHANGED on

NewTask(t) ==
  /\ desired[t] = "Unborn"
  /\ desired' = [desired EXCEPT ![t] = "ReadyToRun"]
  /\ UNCHANGED on

AtMostOne == {{}} \cup {{t} : t \in Task}

SchedNext ==
  \/ \E leaving, entering \in AtMostOne : Switch(leaving, entering)
  \/ \E t \in Task : \/ PrepareToSleep(t)
                     \/ SwapKilled(t)
                     \/ DeleteTask(t)
                     \/ NewTask(t)
  \/ \E S \in SUBSET Task : Awaken(S)

SchedInit ==
  /\ desired \in [Task -> {"ReadyToRun", "Unborn"}]
  /\ on = {}

SchedSpec == SchedInit /\ [][SchedNext]_schedVars
=============================================================================
