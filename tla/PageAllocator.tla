--------------------------- MODULE PageAllocator ---------------------------
(***************************************************************************)
(* What the kernel expects of a page allocator: a call takes the first     *)
(* block of free pages that is long enough, or reports that there is none, *)
(* and a page has one owner until it is given back.                        *)
(***************************************************************************)
EXTENDS Integers

CONSTANTS NumPages, Reserved, MaxBlock

VARIABLES owned,   \* pages handed out and not given back
          answer   \* what the last call returned

Pages == 0..NumPages - 1

Block(start, num) == start..start + num - 1

FreeBlock(start, num) ==
  /\ Block(start, num) \subseteq Pages
  /\ Block(start, num) \cap (owned \cup Reserved) = {}

Init ==
  /\ owned = {}
  /\ answer = "none"

\* The lowest block that fits is returned.
AllocateSome(start, num) ==
  /\ FreeBlock(start, num)
  /\ \A s \in 0..start - 1 : ~FreeBlock(s, num)
  /\ owned' = owned \cup Block(start, num)
  /\ answer' = "some"

\* "Returns None if no such block exists", and only then.
AllocateNone(num) ==
  /\ \A s \in Pages : ~FreeBlock(s, num)
  /\ answer' = "none"
  /\ UNCHANGED owned

Free(start, num) ==
  /\ Block(start, num) \subseteq owned
  /\ owned' = owned \ Block(start, num)
  /\ UNCHANGED answer

Next ==
  \E num \in 1..MaxBlock :
    \/ \E start \in Pages : AllocateSome(start, num) \/ Free(start, num)
    \/ AllocateNone(num)

Spec == Init /\ [][Next]_<<owned, answer>>
=============================================================================
