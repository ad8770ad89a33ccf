---------------------------- MODULE RequestChannel ----------------------------
(***************************************************************************)
(* What a driver with a virtqueue promises to the tasks that use it: a     *)
(* task hands over one request, later finds exactly one answer, and the    *)
(* answer is one that its own request allows.  Nothing is said about       *)
(* rings, descriptors, buffers or interrupts, and requests of different    *)
(* tasks may be answered in any order.                                     *)
(***************************************************************************)
CONSTANTS Tasks, Requests, Answers(_), None

VARIABLES asked, answered

channelVars == <<asked, answered>>

Init == /\ asked = [t \in Tasks |-> None]
        /\ answered = [t \in Tasks |-> None]

Ask(t, r) == /\ asked[t] = None
             /\ asked' = [asked EXCEPT ![t] = r]
             /\ UNCHANGED answered

(* One interrupt may answer several tasks at once. *)
Answer(ts) == /\ \A t \in ts : asked[t] # None /\ answered[t] = None
              /\ \A t \in ts : answered'[t] \in Answers(asked[t])
              /\ \A t \in Tasks \ ts : answered'[t] = answered[t]
              /\ DOMAIN answered' = Tasks
              /\ UNCHANGED asked

Receive(t) == /\ answered[t] # None
              /\ asked' = [asked EXCEPT ![t] = None]
              /\ answered' = [answered EXCEPT ![t] = None]

Next == \/ \E t \in Tasks : Receive(t) \/ \E r \in Requests : Ask(t, r)
        \/ \E ts \in SUBSET Tasks : Answer(ts)

Spec == Init /\ [][Next]_channelVars
===============================================================================
