----------------------------- MODULE OnceChannel ----------------------------
(***************************************************************************)
(* once_channel (kernel/src/sync/once_channel.rs) on TaskScheduling.  A    *)
(* receiver makes a channel, hands the sender to a driver and sleeps until *)
(* the message is there; the driver's interrupt handler sends.  Between    *)
(* two messages a receiver may also sleep on a timer, as sleep_timeout     *)
(* does, or exit.                                                          *)
(***************************************************************************)
EXTENDS TaskScheduling, Naturals

CONSTANTS
  Preemptible,  \* the tasks that interrupts take off their CPU
  Exiting,      \* the tasks that exit when they have received
  MaxMessages   \* messages each receiver waits for

VARIABLES
  rpc,       \* where the receiver stands
  received,  \* messages it has received
  ready,     \* OnceCell::ready of the channel it waits on
  senders,   \* per receiver, the senders that have not finished send
  fired,     \* the timer of the receiver's sleep has fired
  panic

channelVars == <<rpc, received, ready, senders, fired, panic>>
vars == <<schedVars, channelVars>>

OnceChannelInit ==
  /\ desired = [t \in Task |-> "ReadyToRun"]
  /\ on = {}
  /\ rpc = [t \in Task |-> "run"]
  /\ received = [t \in Task |-> 0]
  /\ ready = [t \in Task |-> FALSE]
  /\ senders = [t \in Task |-> {}]
  /\ fired = [t \in Task |-> FALSE]
  /\ panic = {}

At(t, l) == panic = {} /\ t \in on /\ rpc[t] = l

Goto(t, l) == rpc' = [rpc EXCEPT ![t] = l]

\* once_channel; the sender goes to the driver.  A channel is named by the
\* number of messages received before it.
MakeChannel(t) ==
  /\ At(t, "run")
  /\ received[t] < MaxMessages
  /\ ready' = [ready EXCEPT ![t] = FALSE]
  /\ senders' = [senders EXCEPT ![t] = @ \cup {[channel |-> received[t], sent |-> FALSE]}]
  /\ Goto(t, "loop")
  /\ UNCHANGED <<schedVars, received, fired, panic>>

\* OnceReceiver::wait_sleep.
ReceivePrepare(t) ==
  /\ At(t, "loop")
  /\ PrepareToSleep(t)
  /\ Goto(t, "check")
  /\ UNCHANGED <<received, ready, senders, fired, panic>>

\* get_once: the swap of the flag lets one reader take the message.
GetOnce(t) ==
  /\ At(t, "check")
  /\ ready' = [ready EXCEPT ![t] = FALSE]
  /\ Goto(t, IF ready[t] THEN "got" ELSE "failed")
  /\ UNCHANGED <<schedVars, received, senders, fired, panic>>

Received(t) ==
  /\ At(t, "got")
  /\ Awaken({t})
  /\ received' = [received EXCEPT ![t] = @ + 1]
  /\ Goto(t, "run")
  /\ UNCHANGED <<ready, senders, fired, panic>>

ReceiveSleep(t) ==
  /\ At(t, "failed")
  /\ IF desired[t] = "ReadyToRun" THEN UNCHANGED schedVars ELSE SwitchAway(t)
  /\ Goto(t, "loop")
  /\ UNCHANGED <<received, ready, senders, fired, panic>>

\* OnceSender::send: the message ...
SetMessage(t, s) ==
  /\ panic = {}
  /\ s \in senders[t]
  /\ ~s.sent
  /\ ready' = [ready EXCEPT ![t] = TRUE]
  /\ senders' = [senders EXCEPT ![t] = (@ \ {s}) \cup {[s EXCEPT !.sent = TRUE]}]
  /\ UNCHANGED <<schedVars, rpc, received, fired, panic>>

\* Mutant of Awakened: the wake-up is left out.
AwakenedNobody(t) == {}

Awakened(t) == {t}

\* ... then the wake-up, which asserts that the receiver still exists.
AwakenReceiver(t, s) ==
  /\ panic = {}
  /\ s \in senders[t]
  /\ s.sent
  /\ Awaken(Awakened(t))
  /\ panic' = IF Known(t) THEN panic ELSE {"no such task"}
  /\ senders' = [senders EXCEPT ![t] = @ \ {s}]
  /\ UNCHANGED <<rpc, received, ready, fired>>

\* sleep_timeout with its timer in the list, and the timer.
Nap(t) ==
  /\ At(t, "run")
  /\ received[t] > 0
  /\ PrepareToSleep(t)
  /\ fired' = [fired EXCEPT ![t] = FALSE]
  /\ Goto(t, "nap")
  /\ UNCHANGED <<received, ready, senders, panic>>

FireTimer(t) ==
  /\ rpc[t] = "nap"
  /\ ~fired[t]
  /\ Awaken({t})
  /\ fired' = [fired EXCEPT ![t] = TRUE]
  /\ UNCHANGED <<rpc, received, ready, senders, panic>>

NapSleep(t) ==
  /\ At(t, "nap")
  /\ IF desired[t] = "ReadyToRun" THEN UNCHANGED schedVars ELSE SwitchAway(t)
  /\ Goto(t, "awake")
  /\ UNCHANGED <<received, ready, senders, fired, panic>>

NapDone(t) ==
  /\ At(t, "awake")
  /\ Goto(t, "run")
  /\ UNCHANGED <<schedVars, received, ready, senders, fired, panic>>

Exit(t) ==
  /\ t \in Exiting
  /\ At(t, "run")
  /\ received[t] > 0
  /\ SwapKilled(t)
  /\ Goto(t, "dead")
  /\ UNCHANGED <<received, ready, senders, fired, panic>>

Leave(t) == At(t, "dead") /\ SwitchAway(t) /\ UNCHANGED channelVars

Delete(t) == DeleteTask(t) /\ UNCHANGED channelVars

Preempt(t) == t \in Preemptible /\ SwitchAway(t) /\ UNCHANGED channelVars

Resume(t) == Dispatch(t) /\ UNCHANGED channelVars

Receive(t) ==
  ReceivePrepare(t) \/ GetOnce(t) \/ Received(t) \/ ReceiveSleep(t)

Send(t) == \E s \in senders[t] : SetMessage(t, s) \/ AwakenReceiver(t, s)

OnceChannelNext ==
  \E t \in Task :
    \/ MakeChannel(t) \/ Receive(t) \/ Send(t)
    \/ Nap(t) \/ FireTimer(t) \/ NapSleep(t) \/ NapDone(t)
    \/ Exit(t) \/ Leave(t) \/ Delete(t) \/ Preempt(t) \/ Resume(t)

OnceChannelSpec == OnceChannelInit /\ [][OnceChannelNext]_vars

-----------------------------------------------------------------------------
(* Properties *)

\* An interrupt took the receiver off its CPU in the middle of wait_sleep, when
\* its state was Sleeping already and it had not called run_scheduler itself.
CaughtPrepared(t) ==
  t \notin on /\ desired[t] = "Sleeping" /\ rpc[t] \in {"check", "got"}

\* Every receiver that waits receives, however late the wake-ups of earlier
\* messages come and whatever preemptions there are, unless it stays caught
\* between prepare_to_sleep and run_scheduler or the kernel panics.
WaitsEnd ==
  \A t \in Task :
    []<>~CaughtPrepared(t) => (rpc[t] = "loop" ~> rpc[t] = "run" \/ panic # {})

-----------------------------------------------------------------------------
(* What comments say and the code does not do *)

\* "While waiting, the receiver is put to sleep, and the sender ensures the
\* receiver is woken up when the value is sent" (once_channel.rs:11-12).
SenderWakesReceiver ==
  \A t \in Task :
    ~(CaughtPrepared(t) /\ ready[t] /\ ~\E s \in senders[t] : s.sent /\ s.channel = received[t])

\* sleep_timeout "puts the current task to sleep for the given number of
\* milliseconds" (schedcore.rs:319): it returns when its timer has fired.
NapsUndisturbed == \A t \in Task : t \in on /\ rpc[t] = "awake" => fired[t]

\* awaken_task asserts that the task exists (task.rs:57): the handler that
\* sends never meets a receiver that is gone.
ReceiverExists == panic = {}
=============================================================================
