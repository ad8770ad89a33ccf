---------------------------- MODULE RingHistory -----------------------------
(***************************************************************************)
(* What a ring buffer promises: at every moment it holds the last N of all *)
(* the elements that were pushed, for every N.                             *)
(***************************************************************************)
EXTENDS RingBuffer

CONSTANTS
  Elements,
  MaxPushed   \* bound: elements pushed

ASSUME ElementsAssumption == Nothing \notin Elements

VARIABLE pushed   \* history: every element, in the order of the pushes

historyVars == <<elements, nextFree, pushed>>

HistoryInit == RingInit /\ pushed = << >>

PushElement(e) ==
  /\ Len(pushed) < MaxPushed
  /\ Push(e)
  /\ pushed' = Append(pushed, e)

HistoryNext == \E e \in Elements : PushElement(e)

HistorySpec == HistoryInit /\ [][HistoryNext]_historyVars

-----------------------------------------------------------------------------
(* get(i) is the i-th newest element, None when there are not so many, and *)
(* len() is their number, before and after next_free wraps around.         *)
HoldsLastPushed ==
  /\ \A i \in 0..N : Get(i) = IF i < N /\ i < Len(pushed) THEN pushed[Len(pushed) - i]
                              ELSE Nothing
  /\ RingLen = IF Len(pushed) < N THEN Len(pushed) ELSE N

(* Before the array is full, next_free counts the elements.                *)
RingInv ==
  /\ pushed \in Seq(Elements)
  /\ nextFree \in 0..(N - 1)
  /\ elements \in [0..(N - 1) -> Elements \cup {Nothing}]
  /\ Len(pushed) < N => nextFree = Len(pushed)
  /\ \A i \in 0..(N - 1) :
       elements[Slot(i)] = IF i < Len(pushed) THEN pushed[Len(pushed) - i] ELSE Nothing
=============================================================================
