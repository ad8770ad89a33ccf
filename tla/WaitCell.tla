------------------------------ MODULE WaitCell ------------------------------
(***************************************************************************)
(* Waiting for a task to exit: wait_on_task and kill_current_task of       *)
(* schedcore.rs over WaitCell and OnceCell (kernel/src/sync), on           *)
(* TaskScheduling.  The target runs kill_current_task; waiters run         *)
(* wait_on_task(target) and may exit afterwards.                           *)
(*                                                                         *)
(* OnceCell keeps its value in a RefCell, whose borrow counter is an       *)
(* ordinary integer: borrow and release are a read and a later write.      *)
(***************************************************************************)
EXTENDS TaskScheduling, Integers, Sequences, SequencesExt

CONSTANTS
  Target,
  Preemptible,  \* the tasks that interrupts take off their CPU
  Exiting       \* the waiters that exit once they have their answer

Waiter == Task \ {Target}

VARIABLES
  wpc,      \* where each task stands
  ready,    \* OnceCell::ready
  borrow,   \* borrow counter of OnceCell::message
  seen,     \* the counter as read by the task
  waiting,  \* waiting_tasks
  drained,  \* the id the target is about to awaken, as a set
  panic     \* the panics that stopped the kernel

cellVars == <<wpc, ready, borrow, seen, waiting, drained, panic>>
vars == <<schedVars, cellVars>>

WaitCellInit ==
  /\ desired = [t \in Task |-> "ReadyToRun"]
  /\ on = {}
  /\ wpc = [t \in Task |-> "start"]
  /\ ready = FALSE
  /\ borrow = 0
  /\ seen = [t \in Task |-> 0]
  /\ waiting = <<>>
  /\ drained = {}
  /\ panic = {}

Running(t) == panic = {} /\ t \in on

At(t, l) == Running(t) /\ wpc[t] = l

Goto(t, l) == wpc' = [wpc EXCEPT ![t] = l]

\* The target holds the lock of waiting_tasks, with interrupts disabled.
Draining == wpc[Target] \in {"drain", "awaken"}

-----------------------------------------------------------------------------
(* The waiter *)

\* wait_on_task: no answer for a task that is gone.
WaitOnTask(w) ==
  /\ At(w, "start")
  /\ Goto(w, IF Known(Target) THEN "loop" ELSE "returned")
  /\ UNCHANGED <<schedVars, ready, borrow, seen, waiting, drained, panic>>

WaitPrepare(w) ==
  /\ At(w, "loop")
  /\ PrepareToSleep(w)
  /\ Goto(w, "prepared")
  /\ UNCHANGED <<ready, borrow, seen, waiting, drained, panic>>

WaitPush(w) ==
  /\ At(w, "prepared")
  /\ ~Draining
  /\ waiting' = Append(waiting, w)
  /\ Goto(w, "pushed")
  /\ UNCHANGED <<schedVars, ready, borrow, seen, drained, panic>>

\* get_clone: the flag first ...
GetClone(w) ==
  /\ At(w, "pushed")
  /\ Goto(w, IF ready THEN "borrow" ELSE "failed")
  /\ UNCHANGED <<schedVars, ready, borrow, seen, waiting, drained, panic>>

\* ... then RefCell::borrow, which panics while the counter is negative, and
\* the release at the end of the statement.
ReadBorrow(w) ==
  /\ wpc[w] \in {"borrow", "cloned"}
  /\ Running(w)
  /\ seen' = [seen EXCEPT ![w] = borrow]
  /\ panic' = IF wpc[w] = "borrow" /\ borrow < 0 THEN {"BorrowError"} ELSE panic
  /\ Goto(w, IF wpc[w] = "borrow" THEN "borrowing" ELSE "releasing")
  /\ UNCHANGED <<schedVars, ready, borrow, waiting, drained>>

WriteBorrow(w) ==
  /\ wpc[w] \in {"borrowing", "releasing"}
  /\ Running(w)
  /\ borrow' = IF wpc[w] = "borrowing" THEN seen[w] + 1 ELSE seen[w] - 1
  /\ Goto(w, IF wpc[w] = "borrowing" THEN "cloned" ELSE "got")
  /\ UNCHANGED <<schedVars, ready, seen, waiting, drained, panic>>

\* awaken_task of itself, and the return of wait_sleep.
WaitDone(w) ==
  /\ At(w, "got")
  /\ Awaken({w})
  /\ Goto(w, "returned")
  /\ UNCHANGED <<ready, borrow, seen, waiting, drained, panic>>

WaitSleep(w) ==
  /\ At(w, "failed")
  /\ IF desired[w] = "ReadyToRun" THEN UNCHANGED schedVars ELSE SwitchAway(w)
  /\ Goto(w, "loop")
  /\ UNCHANGED <<ready, borrow, seen, waiting, drained, panic>>

-----------------------------------------------------------------------------
(* kill_current_task *)

Kill(t) ==
  /\ \/ t = Target /\ At(t, "start")
     \/ t \in Exiting /\ At(t, "returned")
  /\ SwapKilled(t)
  /\ Goto(t, IF t = Target THEN "killed" ELSE "dead")
  /\ UNCHANGED <<ready, borrow, seen, waiting, drained, panic>>

\* OnceCell::set, in send_all_consumers.
SetCell ==
  /\ At(Target, "killed")
  /\ ready' = TRUE
  /\ Goto(Target, "send")
  /\ UNCHANGED <<schedVars, borrow, seen, waiting, drained, panic>>

\* Mutant of DrainWaiters: one waiter is taken, the others stay.
DrainFirst ==
  /\ wpc[Target] \in {"send", "drain"}
  /\ Running(Target)
  /\ Goto(Target, IF waiting = <<>> \/ wpc[Target] = "drain" THEN "dead" ELSE "awaken")
  /\ drained' = IF waiting = <<>> \/ wpc[Target] = "drain" THEN {} ELSE {Head(waiting)}
  /\ waiting' = IF waiting = <<>> \/ wpc[Target] = "drain" THEN waiting ELSE Tail(waiting)
  /\ UNCHANGED <<schedVars, ready, borrow, seen, panic>>

\* The drain of waiting_tasks, up to the next id or to the end.
DrainWaiters ==
  /\ wpc[Target] \in {"send", "drain"}
  /\ Running(Target)
  /\ Goto(Target, IF waiting = <<>> THEN "dead" ELSE "awaken")
  /\ drained' = IF waiting = <<>> THEN {} ELSE {Head(waiting)}
  /\ waiting' = IF waiting = <<>> THEN waiting ELSE Tail(waiting)
  /\ UNCHANGED <<schedVars, ready, borrow, seen, panic>>

\* awaken_task, which panics in get_task_assert when the task is gone.
AwakenWaiter ==
  /\ At(Target, "awaken")
  /\ Awaken(drained)
  /\ panic' = IF \A w \in drained : Known(w) THEN panic ELSE {"no such task"}
  /\ Goto(Target, "drain")
  /\ UNCHANGED <<ready, borrow, seen, waiting, drained>>

\* The last run_scheduler of kill_current_task, which must not return.
Die(t) ==
  /\ At(t, "dead")
  /\ IF desired[t] = "Killed" THEN SwitchAway(t) /\ UNCHANGED panic
     ELSE panic' = {"run_scheduler returned"} /\ UNCHANGED schedVars
  /\ UNCHANGED <<wpc, ready, borrow, seen, waiting, drained>>

Delete(t) == DeleteTask(t) /\ UNCHANGED cellVars

Preempt(t) ==
  /\ t \in Preemptible
  /\ ~(t = Target /\ Draining)
  /\ SwitchAway(t)
  /\ UNCHANGED cellVars

Resume(t) == Dispatch(t) /\ UNCHANGED cellVars

Step(t) ==
  \/ t = Target /\ (SetCell \/ DrainWaiters \/ AwakenWaiter)
  \/ t # Target /\ (\/ WaitOnTask(t) \/ WaitPrepare(t) \/ WaitPush(t)
                    \/ GetClone(t) \/ ReadBorrow(t) \/ WriteBorrow(t)
                    \/ WaitDone(t) \/ WaitSleep(t))

WaitCellNext ==
  \E t \in Task : Step(t) \/ Kill(t) \/ Die(t) \/ Delete(t) \/ Preempt(t) \/ Resume(t)

WaitCellSpec == WaitCellInit /\ [][WaitCellNext]_vars

\* What a task does once it is on a CPU.
Progress(t) == Step(t) \/ Kill(t) \/ Die(t)

-----------------------------------------------------------------------------
(* Properties *)

\* A task that an interrupt took off its CPU in the middle of wait_sleep, when
\* its state was Sleeping already and it had not called run_scheduler itself.
CaughtPrepared(w) ==
  w \notin on /\ desired[w] = "Sleeping" /\ wpc[w] \notin {"failed", "loop"}

\* Everyone who waits for the target gets an answer, whatever preemptions and
\* spurious wake-ups come in between.  The exceptions are the three ends that
\* wait_sleep and kill_current_task leave open: the waiter stays caught between
\* prepare_to_sleep and run_scheduler, the target is taken off its CPU for good
\* between the change of its state to Killed and the last wake-up, or the kernel
\* panics.
WaitReturns ==
  \A w \in Waiter :
    []<>~CaughtPrepared(w) =>
      (wpc[w] = "loop" ~> \/ wpc[w] = "returned"
                          \/ desired[Target] = "Deleted" /\ wpc[Target] # "dead"
                          \/ panic # {})

-----------------------------------------------------------------------------
(* What comments say and the code does not do *)

\* "Tasks sleep while they wait, and they are woken up when the value is
\* written" (wait_cell.rs:9-10).
WokenWhenWritten ==
  wpc[Target] = "dead" => \A w \in Waiter : desired[w] = "Sleeping" => w \in on

\* "Inform waiters that the task has exited" (schedcore.rs:337): a task that
\* is gone has written its exit code.
GoneTasksInformed == desired[Target] = "Deleted" => ready

\* get_task_assert fetches only tasks that exist (task.rs:57).
NoDeletedTaskFetched == "no such task" \notin panic

\* run_scheduler in kill_current_task does not return (schedcore.rs:346).
KillIsFinal == "run_scheduler returned" \notin panic

\* "A thread-safe cell" (once_cell.rs:4): the counter of a RefCell that nobody
\* borrows is zero.
BorrowsBalance ==
  (\A w \in Waiter : wpc[w] \notin {"borrow", "borrowing", "cloned", "releasing"})
    => borrow = 0
=============================================================================
