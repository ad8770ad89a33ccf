---------------------------- MODULE BitmapAlloc ----------------------------
(***************************************************************************)
(* The bitmap allocator, crates/bitmap-alloc/src/alloc.rs, under the lock  *)
(* of its users (memory/physical.rs, sched/stack.rs).  find_next_contiguous*)
(* is modelled one bit per step, with its own locals, because the          *)
(* shortcut for single pages starts the scan in the middle of the bitmap.  *)
(***************************************************************************)
EXTENDS Integers

CONSTANTS
  ChunkBits,   \* BITS_PER_CHUNK
  NumChunks,   \* bitmap.len()
  Reserved,    \* pages marked used before the first call
  MaxBlock     \* bound on the block sizes callers ask for

NumPages == ChunkBits * NumChunks
Pages == 0..NumPages - 1

ASSUME BitmapConstants ==
  /\ ChunkBits \in Nat \ {0}
  /\ NumChunks \in Nat \ {0}
  /\ NumPages \in Nat
  /\ Reserved \subseteq Pages
  /\ MaxBlock \in Nat \ {0}

None == -1

VARIABLES
  used,      \* the pages whose bit is set
  last,      \* last_single_page_allocation
  owned,     \* pages callers hold
  answer,    \* what the last allocate_contiguous returned
  num,       \* the pending call: its num_pages, 0 when there is none
  start,     \* locals of find_next_contiguous
  len,
  bit,       \* the next bit of the scan, i * BITS_PER_CHUNK + bit
  asserted   \* TRUE after an assertion of mark_used or mark_unused failed

vars == <<used, last, owned, answer, num, start, len, bit, asserted>>

Block(s, n) == s..s + n - 1

Init ==
  /\ used = Reserved
  /\ last = None
  /\ owned = {}
  /\ answer = "none"
  /\ num = 0
  /\ start = 0
  /\ len = 0
  /\ bit = 0
  /\ asserted = FALSE

\* allocate_contiguous enters find_next_contiguous.  The scan of a single
\* page begins at the chunk that holds the last single page.
Allocate(n) ==
  LET first == IF n = 1 /\ last # None THEN last ELSE 0 IN
  /\ num = 0
  /\ num' = n
  /\ start' = first
  /\ len' = 0
  /\ bit' = (first \div ChunkBits) * ChunkBits
  /\ UNCHANGED <<used, last, owned, answer, asserted>>

\* A bit that is set: the block can begin after it at the earliest.
ScanUsed ==
  /\ num > 0
  /\ bit < NumPages
  /\ bit \in used
  /\ start' = bit + 1
  /\ len' = 0
  /\ bit' = bit + 1
  /\ UNCHANGED <<used, last, owned, answer, num, asserted>>

\* A bit that is clear, and the block is not long enough yet.
ScanFree ==
  /\ num > 0
  /\ bit < NumPages
  /\ bit \notin used
  /\ len + 1 < num
  /\ len' = len + 1
  /\ bit' = bit + 1
  /\ UNCHANGED <<used, last, owned, answer, num, start, asserted>>

\* The block is complete: allocate_contiguous marks its pages.
Found ==
  /\ num > 0
  /\ bit < NumPages
  /\ bit \notin used
  /\ len + 1 = num
  /\ asserted' = (Block(start, num) \cap used # {})
  /\ used' = used \cup Block(start, num)
  /\ owned' = owned \cup Block(start, num)
  /\ last' = IF num = 1 THEN start ELSE last
  /\ answer' = "some"
  /\ num' = 0
  /\ start' = 0
  /\ len' = 0
  /\ bit' = 0

\* The scan is over without a block.
NotFound ==
  /\ num > 0
  /\ bit >= NumPages
  /\ last' = IF num = 1 THEN None ELSE last
  /\ answer' = "none"
  /\ num' = 0
  /\ start' = 0
  /\ len' = 0
  /\ bit' = 0
  /\ UNCHANGED <<used, owned, asserted>>

\* Mutant of Free: one page too many is given back.
FreeOneTooMany(s, n) ==
  /\ num = 0
  /\ Block(s, n) \subseteq owned
  /\ asserted' = ~(Block(s, n + 1) \subseteq used)
  /\ used' = used \ Block(s, n + 1)
  /\ owned' = owned \ Block(s, n)
  /\ last' = IF last # None /\ s < last THEN s ELSE last
  /\ UNCHANGED <<answer, num, start, len, bit>>

\* Mutant of Free: last_single_page_allocation is left alone.
FreeKeepsLast(s, n) ==
  /\ num = 0
  /\ Block(s, n) \subseteq owned
  /\ asserted' = ~(Block(s, n) \subseteq used)
  /\ used' = used \ Block(s, n)
  /\ owned' = owned \ Block(s, n)
  /\ UNCHANGED last
  /\ UNCHANGED <<answer, num, start, len, bit>>

\* free_contiguous of pages the caller holds.
Free(s, n) ==
  /\ num = 0
  /\ Block(s, n) \subseteq owned
  /\ asserted' = ~(Block(s, n) \subseteq used)
  /\ used' = used \ Block(s, n)
  /\ owned' = owned \ Block(s, n)
  /\ last' = IF last # None /\ s < last THEN s ELSE last
  /\ UNCHANGED <<answer, num, start, len, bit>>

Next ==
  /\ ~asserted
  /\ \/ \E n \in 1..MaxBlock : Allocate(n)
     \/ ScanUsed
     \/ ScanFree
     \/ Found
     \/ NotFound
     \/ \E s \in Pages, n \in 1..MaxBlock : Free(s, n)

Spec == Init /\ [][Next]_vars

-----------------------------------------------------------------------------
(* Properties *)

\* The type invariant: find_next_contiguous never indexes past the bitmap.
TypeOK ==
  /\ used \subseteq Pages
  /\ last \in Pages \cup {None}
  /\ owned \subseteq Pages
  /\ answer \in {"none", "some"}
  /\ num \in 0..MaxBlock
  /\ start \in 0..NumPages
  /\ len \in 0..MaxBlock
  /\ bit \in 0..NumPages
  /\ asserted \in BOOLEAN

\* The bitmap is the truth about ownership: a set bit is a reserved page or
\* one page of one caller, so no page is handed out twice and none leaks.
BitmapIsOwnership ==
  /\ used = Reserved \cup owned
  /\ Reserved \cap owned = {}

\* Neither "page is already used" nor "page is already unused" fails, as long
\* as callers give back only what they hold.
NoAssertFails == ~asserted

\* "We can start searching from here": every page below the last single page
\* is used.  free_contiguous has to lower the mark for this to stay true.
BelowLastUsed == last # None => 0..last - 1 \subseteq used

\* The block under construction is free, and it is the first that may fit.
ScanInv ==
  num > 0 =>
    /\ len < num
    /\ \/ start + len = bit /\ Block(start, len) \cap used = {}
       \/ num = 1 /\ len = 0 /\ start = last /\ bit <= start
    /\ \A s \in 0..start - 1 : Block(s, num) \cap used # {}

Abstract == INSTANCE PageAllocator

\* With the scan hidden, the allocator is the page allocator it promises to
\* be: allocate_contiguous returns the first block that fits, and None only
\* when no block exists.
RefinesPageAllocator == Abstract!Spec
=============================================================================
