----------------------------- MODULE MCVirtQueue -----------------------------
(***************************************************************************)
(* Two tasks on one of three devices: a block device whose queue has room  *)
(* for all requests, finished in any order; a block device whose queue is  *)
(* full with two requests and whose descriptor table wraps; an entropy     *)
(* device with a queue of two entries, full most of the time.              *)
(***************************************************************************)
EXTENDS VirtQueue

SomeRequests == {[type |-> "In", sector |-> 3, amount |-> 1],
                 [type |-> "Out", sector |-> 4, amount |-> 700],
                 [type |-> "GetID", sector |-> 0, amount |-> 0],
                 [type |-> "Rng", sector |-> 0, amount |-> 2]}

Machine(driver, size, inOrder, maxRequests) ==
    [driver |-> driver, size |-> size, inOrder |-> inOrder, maxRequests |-> maxRequests]

SomeDevices == {Machine("block", 16, FALSE, 3), Machine("block", 8, TRUE, 5),
                Machine("rng", 2, TRUE, 7)}

\* A task that holds the lock runs with interrupts off, interrupts are delivered
\* once the lock is free, and the device goes on: it takes what it is given, and
\* the chain it has had for longest is finished at last.
Fairness ==
  /\ \A t \in Tasks : WF_vars(TaskStep(t))
  /\ WF_vars(DeviceTake)
  /\ WF_vars(Interrupt)
  /\ WF_vars(\E s \in Statuses, w \in Written :
               devWork # <<>> /\ DeviceComplete(1, s, w))

FairSpec == Spec /\ Fairness
=============================================================================
