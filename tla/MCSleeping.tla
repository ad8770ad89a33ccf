----------------------------- MODULE MCSleeping -----------------------------
(***************************************************************************)
(* The primitives that put tasks to sleep: the mutex, the wait for a       *)
(* task's exit and the one-message channel.  They meet only in the         *)
(* scheduler, so a behaviour takes the steps of the primitive that Init    *)
(* chooses and the others rest in their initial state.                     *)
(***************************************************************************)
EXTENDS Mutex

CONSTANTS t1, t2, t3,
          Parts,        \* the primitives to explore
          MaxMessages   \* messages a receiver waits for

VARIABLES part,
          soloDesired, soloOn,  \* the receiver's scheduler state
          wpc, cellReady, borrow, seen, cellWaiting, drained, cellPanic,
          rpc, received, ready, senders, fired, panic

cellVars == <<wpc, cellReady, borrow, seen, cellWaiting, drained, cellPanic>>
channelVars == <<soloDesired, soloOn, rpc, received, ready, senders, fired, panic>>
allVars == <<part, vars, cellVars, channelVars>>

C == INSTANCE WaitCell
       WITH Target <- t1, Exiting <- {t2},
            ready <- cellReady, waiting <- cellWaiting, panic <- cellPanic
O == INSTANCE OnceChannel
       WITH Task <- {t1}, Exiting <- {t1}, desired <- soloDesired, on <- soloOn

Init == part \in Parts /\ MutexInit /\ C!WaitCellInit /\ O!OnceChannelInit

Locking == part = "mutex" /\ MutexNext /\ UNCHANGED <<part, cellVars, channelVars>>
Waiting == part = "cell" /\ C!WaitCellNext /\ UNCHANGED <<part, mutexVars, channelVars>>
Receiving == part = "channel" /\ O!OnceChannelNext /\ UNCHANGED <<part, vars, cellVars>>

Spec == Init /\ [][Locking \/ Waiting \/ Receiving]_allVars

\* A task that gets a CPU time and again executes, a ready task is run again
\* (the run queue is first in, first out), killed tasks are deleted, devices
\* answer and their handlers run to the end.
MutexFairness(t) ==
  /\ SF_vars(part = "mutex" /\ Progress(t))
  /\ WF_vars(part = "mutex" /\ Resume(t))

WaitCellFairness(t) ==
  /\ SF_<<schedVars, cellVars>>(part = "cell" /\ C!Progress(t))
  /\ WF_<<schedVars, cellVars>>(part = "cell" /\ C!Resume(t))
  /\ WF_<<schedVars, cellVars>>(part = "cell" /\ C!Delete(t))

OnceChannelFairness(t) ==
  /\ SF_channelVars(part = "channel" /\ O!Receive(t))
  /\ WF_channelVars(part = "channel" /\ O!Send(t))
  /\ WF_channelVars(part = "channel" /\ O!Resume(t))

FairMutex == Spec /\ \A t \in Task : MutexFairness(t)
FairWaits == Spec /\ OnceChannelFairness(t1) /\ \A t \in Task : WaitCellFairness(t)

-----------------------------------------------------------------------------
(* wait_on_task and kill_current_task: every waiter gets an answer, but    *)
(* for the three ends WaitCell names.                                      *)
WaitReturns == C!WaitReturns

(* once_channel.rs: every receiver receives, unless an interrupt leaves it *)
(* asleep inside wait_sleep.                                               *)
WaitsEnd == O!WaitsEnd
=============================================================================
