----------------------------- MODULE RingBuffer -----------------------------
(***************************************************************************)
(* crates/ring_buffer: a fixed array of N elements and the index of the    *)
(* next free location.  The element at index 0 is the newest.              *)
(***************************************************************************)
EXTENDS Integers, Sequences

CONSTANTS
  N,        \* the size of the array
  Nothing   \* an element that was never pushed

ASSUME NAssumption == N \in Nat \ {0}

VARIABLES
  elements,   \* RingBuffer.elements
  nextFree    \* RingBuffer.next_free

RingLen == IF elements[nextFree] # Nothing THEN N ELSE nextFree

SlotWithoutWrap(i) == IF i < nextFree THEN nextFree - i - 1 ELSE i
Slot(i) == IF i < nextFree THEN nextFree - i - 1 ELSE N - 1 - (i - nextFree)

(* get and get_mut; None is Nothing.                                       *)
Get(i) == IF i >= N THEN Nothing ELSE elements[Slot(i)]

(* RingBufferIter: from the newest element to the oldest.                  *)
Iterated == [i \in 1..RingLen |-> Get(i - 1)]

SlotAfter(n) == (n + 1) % N

Push(e) ==
  /\ elements' = [elements EXCEPT ![nextFree] = e]
  /\ nextFree' = SlotAfter(nextFree)

RingInit == elements = [i \in 0..(N - 1) |-> Nothing] /\ nextFree = 0
=============================================================================
