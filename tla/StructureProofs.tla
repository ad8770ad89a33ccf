--------------------------- MODULE StructureProofs --------------------------
(***************************************************************************)
(* Proofs about code that walks over a data structure, for every size: the *)
(* ring buffer and the bitmap allocator of crates/, reading a file in      *)
(* pieces (vfs/fs.rs, fs/ext2, fs/sysfs.rs), and the first bitmap of the   *)
(* physical memory (crates/bitmap-alloc/src/bootstrap.rs).                 *)
(***************************************************************************)
EXTENDS BitmapAlloc, AllocBootstrap, RingHistory, FileRead, WellFoundedInduction, TLAPS

-----------------------------------------------------------------------------
(* The ring buffer                                                         *)

(* The location after n is n + 1, or 0 after the last one.                 *)
LEMMA SlotAfterWraps ==
  ASSUME NEW n \in 0..(N - 1)
  PROVE  SlotAfter(n) = IF n = N - 1 THEN 0 ELSE n + 1
  BY NAssumption DEF SlotAfter

(* The invariant holds for an empty ring buffer.                           *)
LEMMA RingInit_Inv == HistoryInit => RingInv
  BY NAssumption DEF HistoryInit, RingInit, RingInv, Slot

(* A push keeps it: the new element gets index 0, the others move by one.  *)
LEMMA RingPush_Inv ==
  ASSUME RingInv, NEW e \in Elements, PushElement(e)
  PROVE  RingInv'
<1>1. nextFree' = IF nextFree = N - 1 THEN 0 ELSE nextFree + 1
  BY SlotAfterWraps DEF PushElement, Push, RingInv
<1>2. /\ pushed' \in Seq(Elements)
      /\ Len(pushed') = Len(pushed) + 1
      /\ \A k \in 1..Len(pushed) : pushed'[k] = pushed[k]
      /\ pushed'[Len(pushed) + 1] = e
  BY DEF PushElement, RingInv
<1>3. elements' = [elements EXCEPT ![nextFree] = e]
  BY DEF PushElement, Push
<1>4. /\ nextFree' \in 0..(N - 1)
      /\ elements' \in [0..(N - 1) -> Elements \cup {Nothing}]
      /\ Len(pushed') < N => nextFree' = Len(pushed')
      /\ Len(pushed) \in Nat
  BY SMTT(60), <1>1, <1>2, <1>3, NAssumption DEF RingInv
<1>5. ASSUME NEW i \in 0..(N - 1)
      PROVE  elements'[Slot(i)'] =
               IF i < Len(pushed') THEN pushed'[Len(pushed') - i] ELSE Nothing
  <2>1. CASE i = 0
    <3>1. Slot(i)' = nextFree
      BY <1>1, <2>1, NAssumption DEF Slot, RingInv
    <3>2. QED
      BY <3>1, <2>1, <1>2, <1>3, <1>4 DEF RingInv
  <2>2. CASE i > 0
    <3>1. /\ i - 1 \in 0..(N - 1)
          /\ Slot(i)' = Slot(i - 1)
          /\ Slot(i - 1) \in 0..(N - 1)
          /\ Slot(i - 1) # nextFree
      BY <1>1, <2>2, NAssumption DEF Slot, RingInv
    <3>2. elements'[Slot(i)'] = elements[Slot(i - 1)]
      BY <3>1, <1>3 DEF RingInv
    <3>3. elements[Slot(i - 1)] =
            IF i - 1 < Len(pushed) THEN pushed[Len(pushed) - (i - 1)] ELSE Nothing
      BY <3>1 DEF RingInv
    <3>4. CASE i - 1 < Len(pushed)
      <4>1. /\ i < Len(pushed')
            /\ Len(pushed') - i = Len(pushed) - (i - 1)
            /\ Len(pushed) - (i - 1) \in 1..Len(pushed)
        BY <3>4, <2>2, <1>2, <1>4
      <4>2. QED
        BY <4>1, <3>2, <3>3, <3>4, <1>2
    <3>5. CASE ~(i - 1 < Len(pushed))
      BY <3>5, <3>2, <3>3, <1>2, <1>4
    <3>6. QED
      BY <3>4, <3>5
  <2>3. QED
    BY <2>1, <2>2
<1>6. QED
  BY <1>2, <1>4, <1>5 DEF RingInv

(* The invariant says what get and len return.                             *)
LEMMA RingInv_Holds == RingInv => HoldsLastPushed
<1>1. SUFFICES ASSUME RingInv PROVE HoldsLastPushed
  OBVIOUS
<1>2. \A i \in 0..N : Get(i) = IF i < N /\ i < Len(pushed) THEN pushed[Len(pushed) - i]
                               ELSE Nothing
  BY <1>1, NAssumption DEF RingInv, Get
<1>3. Slot(N - 1) = nextFree
  BY <1>1, NAssumption DEF RingInv, Slot
<1>4. elements[nextFree] = IF N - 1 < Len(pushed) THEN pushed[Len(pushed) - (N - 1)]
                           ELSE Nothing
  BY <1>1, <1>3, NAssumption DEF RingInv
<1>5. N - 1 < Len(pushed) => elements[nextFree] # Nothing
  <2>1. ASSUME N - 1 < Len(pushed) PROVE pushed[Len(pushed) - (N - 1)] \in Elements
    BY <1>1, <2>1, NAssumption DEF RingInv
  <2>2. QED
    BY <1>4, <2>1, ElementsAssumption
<1>6. RingLen = IF Len(pushed) < N THEN Len(pushed) ELSE N
  BY <1>1, <1>4, <1>5, NAssumption DEF RingLen, RingInv
<1>7. QED
  BY <1>2, <1>6 DEF HoldsLastPushed

(* A ring buffer of any size always holds the last N elements pushed: what *)
(* push, get and len of crates/ring_buffer promise together.               *)
THEOREM RingBufferCorrect == HistorySpec => []HoldsLastPushed
<1>1. RingInv /\ [HistoryNext]_historyVars => RingInv'
  <2>1. SUFFICES ASSUME RingInv, [HistoryNext]_historyVars PROVE RingInv'
    OBVIOUS
  <2>2. CASE HistoryNext
    BY <2>1, <2>2, RingPush_Inv DEF HistoryNext
  <2>3. CASE UNCHANGED historyVars
    BY <2>1, <2>3 DEF RingInv, Slot, historyVars
  <2>4. QED
    BY <2>1, <2>2, <2>3
<1>2. QED
  BY <1>1, RingInit_Inv, RingInv_Holds, PTL DEF HistorySpec

-----------------------------------------------------------------------------
(* The bitmap allocator                                                    *)

\* The inductive invariant.  BelowLastUsed is what makes the shortcut for
\* single pages sound, and ScanInv carries a call from step to step.
IndInv ==
  /\ TypeOK
  /\ BitmapIsOwnership
  /\ NoAssertFails
  /\ BelowLastUsed
  /\ ScanInv

\* The chunk of a page begins at or before it (byte_idx * BITS_PER_CHUNK).
LEMMA ChunkStart ==
  ASSUME NEW a \in Nat, NEW d \in Nat \ {0}
  PROVE  /\ (a \div d) * d \in Nat
         /\ (a \div d) * d <= a
OBVIOUS

LEMMA InitInv == Init => IndInv
<1> SUFFICES ASSUME Init PROVE IndInv
  OBVIOUS
<1> USE BitmapConstants DEF Init
<1>1. TypeOK
  <2>1. asserted \in BOOLEAN
    BY ZenonT(60)
  <2>2. /\ used \subseteq Pages /\ last \in Pages \cup {None}
        /\ owned \subseteq Pages /\ answer \in {"none", "some"}
        /\ num \in 0..MaxBlock /\ start \in 0..NumPages
        /\ len \in 0..MaxBlock /\ bit \in 0..NumPages
    OBVIOUS
  <2> QED BY <2>1, <2>2 DEF TypeOK
<1>2. BitmapIsOwnership /\ NoAssertFails /\ BelowLastUsed /\ ScanInv
  BY DEF BitmapIsOwnership, NoAssertFails, BelowLastUsed, ScanInv
<1> QED BY <1>1, <1>2 DEF IndInv

\* The scan of a call begins where nothing before it can fit.
LEMMA AllocateInv ==
  ASSUME IndInv, NEW n \in 1..MaxBlock, Allocate(n)
  PROVE  IndInv'
<1> DEFINE first == IF n = 1 /\ last # None THEN last ELSE 0
<1> USE BitmapConstants DEF IndInv
<1>1. /\ num' = n /\ start' = first /\ len' = 0
      /\ bit' = (first \div ChunkBits) * ChunkBits
      /\ UNCHANGED <<used, last, owned, answer, asserted>>
  BY DEF Allocate
<1>2. first \in Nat /\ first <= NumPages
  BY DEF TypeOK, Pages, None
<1>3. bit' \in Nat /\ bit' <= first /\ (first = 0 => bit' = 0)
  BY <1>1, <1>2, ChunkStart
<1>4. TypeOK'
  BY <1>1, <1>2, <1>3 DEF TypeOK
<1>5. BitmapIsOwnership' /\ NoAssertFails' /\ BelowLastUsed'
  BY <1>1 DEF BitmapIsOwnership, NoAssertFails, BelowLastUsed
<1>6. ScanInv'
  <2>1. CASE n = 1 /\ last # None
    BY <1>1, <1>3, <2>1 DEF ScanInv, TypeOK, Pages, Block, BelowLastUsed, None
  <2>2. CASE ~(n = 1 /\ last # None)
    BY <1>1, <1>3, <2>2 DEF ScanInv, TypeOK, Block
  <2> QED BY <2>1, <2>2
<1> QED BY <1>4, <1>5, <1>6

LEMMA ScanUsedInv == ASSUME IndInv, ScanUsed PROVE IndInv'
<1> USE BitmapConstants DEF IndInv, ScanUsed
<1>1. TypeOK'
  BY DEF TypeOK
<1>2. BitmapIsOwnership' /\ NoAssertFails' /\ BelowLastUsed'
  BY DEF BitmapIsOwnership, NoAssertFails, BelowLastUsed
<1>3. ScanInv'
  <2>1. num \in Nat /\ bit \in Nat /\ len \in Nat /\ start \in Nat
    BY DEF TypeOK
  <2>2. ASSUME NEW s \in 0..bit PROVE Block(s, num) \cap used # {}
    <3>1. CASE s < start
      BY <2>1, <3>1 DEF ScanInv
    <3>2. CASE s >= start
      BY <2>1, <3>2 DEF ScanInv, Block
    <3> QED BY <2>1, <3>1, <3>2
  <2> QED BY <2>1, <2>2 DEF ScanInv, Block
<1> QED BY <1>1, <1>2, <1>3

\* A clear bit can only extend a block that really is free: if the scan still
\* were below its start, BelowLastUsed would make the bit a set one.
LEMMA FreeBitExtends ==
  ASSUME IndInv, num > 0, bit < NumPages, bit \notin used
  PROVE  start + len = bit /\ Block(start, len) \cap used = {}
<1> USE BitmapConstants DEF IndInv
<1>1. bit \in Nat /\ start \in Nat /\ len \in Nat
  BY DEF TypeOK
<1>2. SUFFICES ASSUME num = 1, len = 0, start = last, bit <= start
              PROVE  start + len = bit /\ Block(start, len) \cap used = {}
  BY DEF ScanInv
<1>3. last # None /\ ~(bit < last)
  BY <1>1, <1>2 DEF BelowLastUsed, None
<1> QED BY <1>1, <1>2, <1>3 DEF Block

LEMMA ScanFreeInv == ASSUME IndInv, ScanFree PROVE IndInv'
<1> USE BitmapConstants DEF IndInv, ScanFree
<1>1. TypeOK'
  BY DEF TypeOK
<1>2. BitmapIsOwnership' /\ NoAssertFails' /\ BelowLastUsed'
  BY DEF BitmapIsOwnership, NoAssertFails, BelowLastUsed
<1>3. start + len = bit /\ Block(start, len) \cap used = {}
  BY FreeBitExtends
<1>4. ScanInv'
  BY <1>3 DEF ScanInv, TypeOK, Block
<1> QED BY <1>1, <1>2, <1>4

\* What a successful call returns is free and lies inside the bitmap.
LEMMA FoundBlock ==
  ASSUME IndInv, Found
  PROVE  Block(start, num) \cap used = {} /\ Block(start, num) \subseteq Pages
<1> USE BitmapConstants DEF IndInv, Found
<1>1. start + len = bit /\ Block(start, len) \cap used = {}
  BY FreeBitExtends
<1> QED BY <1>1 DEF Block, TypeOK, Pages

LEMMA FoundInv == ASSUME IndInv, Found PROVE IndInv'
<1> USE BitmapConstants DEF IndInv
<1>1. Block(start, num) \cap used = {} /\ Block(start, num) \subseteq Pages
  BY FoundBlock
<1>2. /\ used' = used \cup Block(start, num)
      /\ owned' = owned \cup Block(start, num)
      /\ last' = IF num = 1 THEN start ELSE last
      /\ answer' = "some" /\ num' = 0 /\ start' = 0 /\ len' = 0 /\ bit' = 0
      /\ num > 0
  BY DEF Found
<1>3. ~asserted'
  BY ZenonT(60), <1>1 DEF Found
<1>4. start \in Pages /\ start \in Nat /\ num \in Nat
  BY <1>1, <1>2 DEF Block, TypeOK, Pages
<1>5. TypeOK'
  <2>1. asserted' \in BOOLEAN
    BY DEF Found
  <2>2. used' \subseteq Pages /\ owned' \subseteq Pages
    BY <1>1, <1>2 DEF TypeOK
  <2>3. last' \in Pages \cup {None} /\ answer' \in {"none", "some"}
    BY <1>2, <1>4 DEF TypeOK
  <2>4. /\ num' \in 0..MaxBlock /\ start' \in 0..NumPages
        /\ len' \in 0..MaxBlock /\ bit' \in 0..NumPages
    BY <1>2
  <2> QED BY <2>1, <2>2, <2>3, <2>4 DEF TypeOK
<1>6. BitmapIsOwnership' /\ NoAssertFails'
  BY <1>1, <1>2, <1>3 DEF BitmapIsOwnership, NoAssertFails
<1>7. BelowLastUsed'
  <2>1. CASE num = 1
    <3>1. ASSUME NEW s \in 0..start - 1 PROVE s \in used
      BY <2>1, <1>4, <3>1 DEF ScanInv, Block
    <3> QED BY <1>2, <2>1, <3>1 DEF BelowLastUsed
  <2>2. CASE num # 1
    BY <1>2, <2>2 DEF BelowLastUsed
  <2> QED BY <2>1, <2>2
<1>8. ScanInv'
  BY <1>2 DEF ScanInv
<1> QED BY <1>5, <1>6, <1>7, <1>8

LEMMA NotFoundInv == ASSUME IndInv, NotFound PROVE IndInv'
BY BitmapConstants
DEF IndInv, NotFound, TypeOK, BitmapIsOwnership, NoAssertFails, BelowLastUsed,
    ScanInv, None

LEMMA FreeInv ==
  ASSUME IndInv, NEW s \in Pages, NEW n \in 1..MaxBlock, Free(s, n)
  PROVE  IndInv'
<1> USE BitmapConstants DEF IndInv, Free
<1>1. TypeOK'
  BY DEF TypeOK
<1>2. BitmapIsOwnership' /\ NoAssertFails'
  BY ZenonT(60) DEF BitmapIsOwnership, NoAssertFails
<1>3. BelowLastUsed'
  BY DEF BelowLastUsed, Block, TypeOK, None, Pages
<1>4. ScanInv'
  BY DEF ScanInv
<1> QED BY <1>1, <1>2, <1>3, <1>4

LEMMA NextInv == IndInv /\ [Next]_vars => IndInv'
<1> SUFFICES ASSUME IndInv, [Next]_vars PROVE IndInv'
  OBVIOUS
<1>1. CASE UNCHANGED vars
  BY <1>1 DEF vars, IndInv, TypeOK, BitmapIsOwnership, NoAssertFails,
              BelowLastUsed, ScanInv
<1>2. CASE Next
  BY <1>2, AllocateInv, ScanUsedInv, ScanFreeInv, FoundInv, NotFoundInv,
     FreeInv DEF Next
<1> QED BY <1>1, <1>2

\* The invariants of alloc.rs hold in every reachable state.
THEOREM InvariantHolds == Spec => []IndInv
BY InitInv, NextInv, PTL DEF Spec

\* mark_used and mark_unused never meet a bit in the wrong state.
THEOREM AssertionsHold == Spec => []NoAssertFails
BY InvariantHolds, PTL DEF IndInv

\* A page has at most one owner, and the bitmap says which pages have one.
THEOREM OwnershipHolds == Spec => []BitmapIsOwnership
BY InvariantHolds, PTL DEF IndInv

-----------------------------------------------------------------------------
(* The allocator implements the page allocator. *)

LEMMA SameFreeBlocks ==
  ASSUME IndInv, NEW s \in Nat, NEW n \in Nat
  PROVE  Abstract!FreeBlock(s, n) <=>
           /\ Block(s, n) \subseteq Pages
           /\ Block(s, n) \cap used = {}
BY DEF Abstract!FreeBlock, Abstract!Block, Abstract!Pages, Block, Pages, IndInv,
       BitmapIsOwnership

LEMMA FoundRefines ==
  ASSUME IndInv, Found
  PROVE  Abstract!AllocateSome(start, num)
<1> USE BitmapConstants DEF IndInv
<1>1. start \in Nat /\ num \in Nat
  BY DEF TypeOK
<1>2. Abstract!FreeBlock(start, num)
  BY <1>1, FoundBlock, SameFreeBlocks
<1>3. ASSUME NEW s \in 0..start - 1 PROVE ~Abstract!FreeBlock(s, num)
  BY <1>1, <1>3, SameFreeBlocks DEF ScanInv, Found
<1> QED
  BY <1>2, <1>3 DEF Abstract!AllocateSome, Abstract!Block, Block, Found

LEMMA NotFoundRefines ==
  ASSUME IndInv, NotFound
  PROVE  Abstract!AllocateNone(num)
<1> USE BitmapConstants DEF IndInv, NotFound
<1>1. start \in Nat /\ num \in Nat /\ len \in Nat /\ bit = NumPages
  BY DEF TypeOK
<1>2. ASSUME NEW s \in Abstract!Pages PROVE ~Abstract!FreeBlock(s, num)
  <2>1. s \in Nat
    BY DEF Abstract!Pages
  <2>2. CASE s < start
    BY <1>1, <2>1, <2>2, SameFreeBlocks DEF ScanInv
  <2>3. CASE s >= start
    <3>1. start + len = NumPages /\ len < num
      BY <1>1 DEF ScanInv, TypeOK, Pages, None
    <3>2. s + num - 1 \in Block(s, num) /\ s + num - 1 \notin Pages
      BY SMTT(60), <1>1, <2>1, <2>3, <3>1 DEF Block, Pages
    <3> QED BY SMTT(60), <1>1, <2>1, <3>2, SameFreeBlocks
  <2> QED BY <1>1, <2>1, <2>2, <2>3
<1> QED BY <1>2 DEF Abstract!AllocateNone

LEMMA StepRefines ==
  ASSUME IndInv, [Next]_vars
  PROVE  [Abstract!Next]_<<owned, answer>>
<1> USE DEF IndInv
<1>1. CASE UNCHANGED <<owned, answer>>
  BY <1>1
<1>2. CASE Found
  <2>1. start \in Abstract!Pages /\ num \in 1..MaxBlock
    BY <1>2, FoundBlock DEF Found, TypeOK, Block, Pages, Abstract!Pages
  <2> QED BY SMTT(60), <1>2, <2>1, FoundRefines DEF Abstract!Next
<1>3. CASE NotFound
  <2>1. num \in 1..MaxBlock
    BY <1>3 DEF NotFound, TypeOK
  <2> QED BY <1>3, <2>1, NotFoundRefines DEF Abstract!Next
<1>4. ASSUME NEW s \in Pages, NEW n \in 1..MaxBlock, Free(s, n)
      PROVE  Abstract!Next
  BY <1>4 DEF Abstract!Next, Abstract!Free, Abstract!Block, Abstract!Pages,
              Free, Block, Pages
<1> QED
  BY <1>1, <1>2, <1>3, <1>4 DEF Next, vars, Allocate, ScanUsed, ScanFree

\* With the scan hidden, allocate_contiguous takes the first block that fits,
\* returns None only when none does, and no page ever has two owners.
THEOREM Refinement == Spec => RefinesPageAllocator
<1>1. Init => Abstract!Init
  BY DEF Init, Abstract!Init
<1> QED
  BY <1>1, StepRefines, InvariantHolds, PTL
  DEF Spec, RefinesPageAllocator, Abstract!Spec

-----------------------------------------------------------------------------
(* Reading a file.                                                          *)

\* A rounded up quotient counts the blocks that begin before e.
LEMMA DivCeilLess ==
  ASSUME NEW e \in Nat, NEW b \in Nat, b > 0, NEW k \in Nat
  PROVE  DivCeil(e, b) \in Nat /\ (k < DivCeil(e, b) <=> k * b < e)
  BY SMTT(30) DEF DivCeil

\* Multiples of a block's size.
LEMMA Multiples ==
  ASSUME NEW b \in Nat, b > 0
  PROVE  /\ \A n \in Nat : n % b = 0 => n \div b \in Nat /\ n = (n \div b) * b
         /\ \A k \in Nat : k * b \in Nat /\ (k * b) % b = 0
  BY SMTT(30)

\* Two whole numbers of blocks are a whole number of blocks.
LEMMA SumOfMultiples ==
  ASSUME NEW n \in Nat, NEW m \in Nat, NEW b \in Nat, b > 0, n % b = 0, m % b = 0
  PROVE  (n + m) % b = 0
<1>1. PICK p \in Nat, q \in Nat : n = p * b /\ m = q * b
  BY Multiples
<1>2. n + m = (p + q) * b /\ p + q \in Nat
  BY <1>1
<1> QED BY <1>2, Multiples, Zenon

\* Products are ordered as their factors are.
LEMMA ProductOrder ==
  ASSUME NEW k \in Nat, NEW m \in Nat, NEW b \in Nat, b > 0
  PROVE  /\ k * b \in Nat /\ (k + 1) * b = k * b + b
         /\ k * b < m * b => k < m
  BY SMTT(30)

\* read_all begins with nothing read.
LEMMA ReadInitInv == ReadInit => ReadInv
<1> SUFFICES ASSUME ReadInit PROVE ReadInv
  OBVIOUS
<1>1. file \in Files /\ file.size \in Nat /\ offset = 0 /\ pc = "call"
  BY ReadConstants DEF ReadInit
<1>2. file.kind = "ext2" => offset % file.bs = 0
  BY <1>1, ReadConstants
<1>3. buffer = [i \in 1 .. offset |-> i]
  BY <1>1 DEF ReadInit
<1> QED BY <1>1, <1>2, <1>3 DEF ReadInv

\* The loop over the blocks begins at the offset.
LEMMA CallReadInv == ASSUME ReadInv, CallRead PROVE ReadInv'
<1>1. /\ file \in Files /\ file.size \in Nat /\ Chunk \in Nat /\ offset \in Nat
      /\ offset <= file.size /\ offset % file.bs = 0 /\ file.bs \in Nat /\ file.bs > 0
      /\ buffer = [i \in 1 .. offset |-> i]
  BY ReadConstants DEF ReadInv, CallRead
<1>2. /\ file' = file /\ offset' = offset /\ buffer' = buffer /\ pc' = "blocks"
      /\ block' = offset \div file.bs /\ current' = offset /\ file.kind = "ext2"
      /\ readBuffer' = [i \in 1 .. Chunk |-> 0]
  BY DEF CallRead, Zeroes
<1>3. block' \in Nat /\ block' * file.bs = offset
  BY <1>1, <1>2, Multiples, Zenon
<1>4. End' = Smaller(file.size, offset + Chunk)
  BY <1>2 DEF End, Smaller
<1>5. current' = Smaller(block' * file.bs, End')
  BY <1>1, <1>2, <1>3, <1>4 DEF Smaller
<1>6. readBuffer' = Filled(current - offset)'
  <2>1. \A i \in 1 .. Chunk : ~(i <= current' - offset')
    BY <1>1, <1>2
  <2> QED BY <1>2, <2>1 DEF Filled
<1>7. /\ offset' <= block' * file'.bs /\ current' = Smaller(block' * file'.bs, End')
      /\ file' \in Files /\ offset' \in Nat /\ offset' <= file'.size
      /\ offset' % file'.bs = 0 /\ buffer' = [i \in 1 .. offset' |-> i]
  BY <1>1, <1>2, <1>3, <1>5
<1> QED BY <1>2, <1>3, <1>6, <1>7, Zenon DEF ReadInv

\* What holds in the loop over the blocks.
LEMMA InBlocks ==
  ASSUME ReadInv, pc = "blocks"
  PROVE  /\ file \in Files /\ file.size \in Nat /\ Chunk \in Nat /\ Chunk > 0 /\ offset \in Nat
         /\ offset <= file.size /\ file.bs \in Nat /\ file.bs > 0 /\ NumDirect \in Nat
         /\ offset % file.bs = 0 /\ buffer = [i \in 1 .. offset |-> i]
         /\ file.kind = "ext2" /\ block \in Nat /\ block * file.bs \in Nat
         /\ offset <= block * file.bs /\ current = Smaller(block * file.bs, End)
         /\ readBuffer = Filled(current - offset)
         /\ file.size <= NumDirect * file.bs
         /\ End \in Nat /\ End <= file.size /\ End <= offset + Chunk /\ offset <= End
         /\ End = file.size \/ End = offset + Chunk
<1>1. /\ file \in Files /\ offset \in Nat /\ offset <= file.size /\ offset % file.bs = 0
      /\ buffer = [i \in 1 .. offset |-> i] /\ file.kind = "ext2" /\ block \in Nat
      /\ offset <= block * file.bs /\ current = Smaller(block * file.bs, End)
      /\ readBuffer = Filled(current - offset)
  BY Zenon DEF ReadInv
<1>2. /\ file.size \in Nat /\ file.bs \in Nat /\ file.bs > 0 /\ Chunk \in Nat /\ Chunk > 0
      /\ NumDirect \in Nat /\ file.size <= NumDirect * file.bs
  BY <1>1, ReadConstants
<1>3. block * file.bs \in Nat
  BY <1>1, <1>2, ProductOrder, Zenon
<1>4. /\ End \in Nat /\ End <= file.size /\ End <= offset + Chunk /\ offset <= End
      /\ End = file.size \/ End = offset + Chunk
  BY <1>1, <1>2 DEF End, Smaller
<1> QED BY <1>1, <1>2, <1>3, <1>4, Zenon

\* The slice of a block that is read begins where the last one ended: every
\* block but the last is read to its end.
LEMMA SliceIsNext ==
  ASSUME ReadInv, pc = "blocks", block < EndBlock
  PROVE  /\ current = block * file.bs /\ current < End /\ block < NumDirect
         /\ SliceStart = 0 /\ SliceEnd \in Nat /\ SliceEnd <= file.bs
         /\ current + SliceEnd = Smaller((block + 1) * file.bs, End)
<1>1. block * file.bs < End
  BY InBlocks, DivCeilLess, Zenon DEF EndBlock
<1>2. current = block * file.bs
  BY <1>1, InBlocks DEF Smaller
<1>3. block < NumDirect
  <2>1. block * file.bs < NumDirect * file.bs
    <3>1. NumDirect * file.bs \in Nat
      BY InBlocks, ProductOrder, Zenon
    <3>2. /\ block * file.bs \in Nat /\ End \in Nat /\ file.size \in Nat
          /\ End <= file.size /\ file.size <= NumDirect * file.bs
      BY InBlocks, Zenon
    <3> QED BY ONLY <1>1, <3>1, <3>2
  <2> QED BY <2>1, InBlocks, ProductOrder, Zenon
<1>4. SliceStart = 0
  BY <1>2, InBlocks, Multiples, Zenon DEF SliceStart
<1>5. (block + 1) * file.bs = current + file.bs
  BY <1>2, InBlocks, ProductOrder, Zenon
<1>6. /\ SliceEnd \in Nat /\ SliceEnd <= file.bs
      /\ current + SliceEnd = Smaller(current + file.bs, End)
  <2>1. current \in Nat /\ End \in Nat /\ file.bs \in Nat /\ current < End
    BY <1>1, <1>2, InBlocks, Zenon
  <2> QED BY ONLY <2>1 DEF SliceEnd, Smaller
<1> QED BY <1>1, <1>2, <1>3, <1>4, <1>5, <1>6, Zenon

\* A round of the loop appends the bytes of its block.
LEMMA ReadBlockInv == ASSUME ReadInv, ReadBlock PROVE ReadInv'
<1> DEFINE slice == SubSeq(BlockData(block), SliceStart + 1, SliceEnd)
<1>1. pc = "blocks" /\ block < EndBlock
  BY Zenon DEF ReadBlock
<1>2. /\ current = block * file.bs /\ current < End /\ block < NumDirect
      /\ SliceStart = 0 /\ SliceEnd \in Nat /\ SliceEnd <= file.bs
      /\ current + SliceEnd = Smaller((block + 1) * file.bs, End)
  BY <1>1, SliceIsNext, Zenon
<1>3. current \in Nat /\ offset <= current /\ BytesRead = current - offset
  BY <1>1, <1>2, InBlocks, Zenon DEF BytesRead
<1>4. /\ BlockData(block) \in Seq(Nat) /\ Len(BlockData(block)) = file.bs
      /\ \A k \in 1 .. file.bs : current + k <= file.size => BlockData(block)[k] = current + k
  <2>1. FileBlock(block) = block
    BY <1>2, Zenon DEF FileBlock
  <2>2. BlockData(block) = [k \in 1 .. file.bs |-> Byte(current + k - 1)]
    BY <1>2, <2>1, Zenon DEF BlockData
  <2>3. file.size \in Nat /\ file.bs \in Nat
    BY <1>1, InBlocks, Zenon
  <2>4. ASSUME NEW k \in 1 .. file.bs
        PROVE  /\ Byte(current + k - 1) \in Nat
               /\ current + k <= file.size => Byte(current + k - 1) = current + k
    BY ONLY <1>3, <2>3, <2>4 DEF Byte
  <2> QED BY ONLY <2>2, <2>3, <2>4
<1>5. /\ Len(slice) = SliceEnd /\ current + SliceEnd <= End
      /\ \A k \in 1 .. SliceEnd : slice[k] = current + k
  <2>1. file.bs \in Nat /\ file.size \in Nat /\ End \in Nat /\ End <= file.size
    BY <1>1, InBlocks, Zenon
  <2>2. current + SliceEnd <= End
    <3>1. block + 1 \in Nat
      BY <1>1, InBlocks
    <3>2. (block + 1) * file.bs \in Nat
      BY <1>1, <3>1, InBlocks, ProductOrder, Zenon
    <3> QED BY ONLY <1>2, <2>1, <3>2 DEF Smaller
  <2>3. slice = SubSeq(BlockData(block), 1, SliceEnd)
    BY <1>2
  <2>4. /\ Len(slice) = SliceEnd
        /\ \A k \in 1 .. SliceEnd : slice[k] = BlockData(block)[k]
    <3> HIDE DEF slice
    <3> QED BY ONLY <1>2, <1>4, <2>1, <2>3
  <2> HIDE DEF slice
  <2>5. ASSUME NEW k \in 1 .. SliceEnd PROVE k \in 1 .. file.bs /\ current + k <= file.size
    <3>1. SliceEnd \in Nat /\ SliceEnd <= file.bs
      BY <1>2, Zenon
    <3> QED BY ONLY <1>3, <2>1, <2>2, <2>5, <3>1
  <2> QED BY <1>4, <2>2, <2>4, <2>5, Zenon
<1> HIDE DEF slice
<1>6. BytesRead + SliceEnd <= Chunk
  <2>1. /\ End \in Nat /\ End <= offset + Chunk /\ Chunk \in Nat /\ offset \in Nat
    BY <1>1, InBlocks, Zenon
  <2>2. SliceEnd \in Nat /\ current + SliceEnd <= End
    BY <1>2, <1>5, Zenon
  <2> QED BY ONLY <1>3, <2>1, <2>2
<1>7. /\ readBuffer' = [i \in 1 .. Chunk |-> IF i \in BytesRead + 1 .. BytesRead + SliceEnd
                                             THEN slice[i - BytesRead] ELSE readBuffer[i]]
      /\ current' = current + SliceEnd /\ block' = block + 1 /\ pc' = pc
      /\ file' = file /\ offset' = offset /\ buffer' = buffer /\ result' = result
  <2>1. ~(SliceStart > SliceEnd \/ BytesRead + Len(slice) > Chunk)
    <3>1. SliceStart = 0 /\ SliceEnd \in Nat /\ Len(slice) = SliceEnd
      BY <1>2, <1>5, Zenon
    <3>2. Chunk \in Nat /\ offset \in Nat
      BY <1>1, InBlocks, Zenon
    <3> QED BY ONLY <1>3, <1>6, <3>1, <3>2
  <2> QED BY <1>5, <2>1, Zenon DEF ReadBlock, slice
<1>8. readBuffer' = Filled(current - offset)'
  <2>1. /\ readBuffer = [i \in 1 .. Chunk |-> IF i <= current - offset THEN offset + i ELSE 0]
        /\ Chunk \in Nat /\ offset \in Nat
    BY <1>1, InBlocks, Zenon DEF Filled
  <2>2. ASSUME NEW i \in 1 .. Chunk
        PROVE  (IF i \in BytesRead + 1 .. BytesRead + SliceEnd
                THEN slice[i - BytesRead] ELSE readBuffer[i])
               = IF i <= (current + SliceEnd) - offset THEN offset + i ELSE 0
    <3>1. SliceEnd \in Nat
      BY <1>2, Zenon
    <3>2. readBuffer[i] = IF i <= current - offset THEN offset + i ELSE 0
      BY <2>1, <2>2, Zenon
    <3>3. CASE i \in BytesRead + 1 .. BytesRead + SliceEnd
      <4>1. i - BytesRead \in 1 .. SliceEnd /\ i <= (current + SliceEnd) - offset
        BY ONLY <1>3, <2>1, <2>2, <3>1, <3>3
      <4>2. slice[i - BytesRead] = current + (i - BytesRead)
        BY <1>5, <4>1, Zenon
      <4>3. current + (i - BytesRead) = offset + i
        BY ONLY <1>3, <2>1, <2>2
      <4> QED BY <3>3, <4>1, <4>2, <4>3, Zenon
    <3>4. CASE i \notin BytesRead + 1 .. BytesRead + SliceEnd
      <4>1. i <= current - offset <=> i <= (current + SliceEnd) - offset
        BY ONLY <1>3, <2>1, <2>2, <3>1, <3>4
      <4> QED BY <3>2, <3>4, <4>1, Zenon
    <3> QED BY <3>3, <3>4, Zenon
  <2>3. readBuffer' = [i \in 1 .. Chunk |->
                         IF i <= (current + SliceEnd) - offset THEN offset + i ELSE 0]
    BY <1>7, <2>2, Zenon
  <2>4. current' - offset' = (current + SliceEnd) - offset
    BY <1>7, Zenon
  <2>5. ASSUME NEW i \in 1 .. Chunk
        PROVE  (IF i <= (current + SliceEnd) - offset THEN offset + i ELSE 0)
               = IF i <= current' - offset' THEN offset' + i ELSE 0
    BY <1>7, <2>4, Zenon
  <2>6. readBuffer' = [i \in 1 .. Chunk |-> IF i <= current' - offset' THEN offset' + i ELSE 0]
    BY <2>3, <2>5, Zenon
  <2> QED BY <2>6, Zenon DEF Filled
<1>9. /\ block' \in Nat /\ offset' <= block' * file'.bs
      /\ current' = Smaller(block' * file'.bs, End')
  <2>1. (block + 1) * file.bs = block * file.bs + file.bs
    BY <1>1, InBlocks, ProductOrder, Zenon
  <2>2. End' = End
    BY <1>7, Zenon DEF End
  <2>3. /\ block \in Nat /\ file.bs \in Nat /\ offset <= block * file.bs
        /\ offset \in Nat /\ block * file.bs \in Nat
    BY <1>1, InBlocks, Zenon
  <2>4. block + 1 \in Nat /\ offset <= (block + 1) * file.bs
    BY ONLY <2>1, <2>3
  <2> QED BY <1>2, <1>7, <2>2, <2>4, Zenon
<1>10. /\ file' \in Files /\ offset' \in Nat /\ offset' <= file'.size
       /\ offset' % file'.bs = 0 /\ buffer' = [i \in 1 .. offset' |-> i]
       /\ file'.kind = "ext2" /\ pc' = "blocks"
  BY <1>1, <1>7, InBlocks, Zenon
<1> QED BY <1>8, <1>9, <1>10, Zenon DEF ReadInv
\* The loop ends when it has read up to the end of the file or of the buffer.
LEMMA Ext2ReturnsInv == ASSUME ReadInv, Ext2Returns PROVE ReadInv'
<1>1. /\ pc = "blocks" /\ ~(block < EndBlock) /\ pc' = "returned"
      /\ result' = IF End = file.size THEN BytesRead ELSE Success
      /\ file' = file /\ offset' = offset /\ buffer' = buffer /\ readBuffer' = readBuffer
  <2>1. /\ pc = "blocks" /\ block >= EndBlock /\ pc' = "returned"
        /\ result' = IF End = file.size THEN BytesRead ELSE Success
        /\ file' = file /\ offset' = offset /\ buffer' = buffer /\ readBuffer' = readBuffer
    BY Zenon DEF Ext2Returns
  <2>2. block \in Nat /\ EndBlock \in Nat
    BY <2>1, InBlocks, DivCeilLess, Zenon DEF EndBlock
  <2> QED BY <2>1, <2>2
<1>2. current = End
  <2>1. ~(block * file.bs < End)
    BY <1>1, InBlocks, DivCeilLess, Zenon DEF EndBlock
  <2>2. /\ block * file.bs \in Nat /\ End \in Nat /\ current = Smaller(block * file.bs, End)
    BY <1>1, InBlocks, Zenon
  <2> QED BY ONLY <2>1, <2>2 DEF Smaller
<1>3. /\ file \in Files /\ file.size \in Nat /\ offset \in Nat /\ Chunk \in Nat /\ Chunk > 0
      /\ offset <= file.size /\ offset % file.bs = 0 /\ file.kind = "ext2"
      /\ buffer = [i \in 1 .. offset |-> i] /\ readBuffer = Filled(End - offset)
  BY <1>1, <1>2, InBlocks, Zenon
<1>4. CASE End = file.size
  <2>1. result' = file.size - offset
    BY <1>1, <1>2, <1>4, Zenon DEF BytesRead
  <2>2. file.size - offset <= Chunk
    BY ONLY <1>3, <1>4 DEF End, Smaller
  <2>3. readBuffer' = Filled(result)'
    BY <1>1, <1>3, <1>4, <2>1, Zenon DEF Filled
  <2> QED BY <1>1, <1>3, <2>1, <2>2, <2>3, Zenon DEF ReadInv
<1>5. CASE End # file.size
  <2>1. End = offset + Chunk /\ offset + Chunk < file.size /\ End - offset = Chunk
    BY ONLY <1>3, <1>5 DEF End, Smaller
  <2>2. readBuffer' = Filled(Chunk)'
    BY <1>1, <1>3, <2>1, Zenon DEF Filled
  <2>3. result' = Success
    BY <1>1, <1>5, Zenon
  <2> QED BY <1>1, <1>3, <2>1, <2>2, <2>3, Zenon DEF ReadInv, Success
<1> QED BY <1>4, <1>5, Zenon

\* A file of sysfs fits into one buffer, so it is read by one call.
LEMMA SysfsReadInv == ASSUME ReadInv, SysfsRead PROVE ReadInv'
<1>1. /\ pc = "call" /\ file.kind = "sysfs" /\ pc' = "returned"
      /\ result' = IF End = file.size THEN file.size ELSE Success
      /\ readBuffer' = [i \in 1 .. Chunk |-> IF Smaller(offset, file.size) + i <= End
                          THEN Byte(Smaller(offset, file.size) + i - 1) ELSE 0]
      /\ file' = file /\ offset' = offset /\ buffer' = buffer
  BY Zenon DEF SysfsRead
<1>2. /\ file \in Files /\ offset = 0 /\ buffer = [i \in 1 .. offset |-> i]
  BY <1>1, Zenon DEF ReadInv
<1>3. file.size \in Nat /\ file.size <= Chunk /\ Chunk \in Nat /\ file.kind # "ext2"
  BY <1>1, <1>2, ReadConstants
<1>4. Smaller(offset, file.size) = 0 /\ End = file.size
  BY ONLY <1>2, <1>3 DEF Smaller, End
<1>5. \A i \in 1 .. Chunk : (IF 0 + i <= file.size THEN Byte(0 + i - 1) ELSE 0)
                            = IF i <= file.size THEN offset + i ELSE 0
  BY ONLY <1>2, <1>3 DEF Byte
<1>6. readBuffer' = [i \in 1 .. Chunk |-> IF i <= file.size THEN offset + i ELSE 0]
  BY <1>1, <1>4, <1>5, Zenon
<1>7. result' = file.size
  BY <1>1, <1>4, Zenon
<1>8. readBuffer' = Filled(result)'
  BY <1>1, <1>6, <1>7, Zenon DEF Filled
<1>9. /\ offset' \in Nat /\ offset' <= file'.size /\ result' = file'.size - offset'
      /\ result' <= Chunk
  BY <1>1, <1>2, <1>3, <1>7
<1> QED BY <1>1, <1>2, <1>3, <1>8, <1>9, Zenon DEF ReadInv
\* A full buffer is appended.
LEMMA ExtendInv == ASSUME ReadInv, Extend PROVE ReadInv'
<1>1. /\ pc = "returned" /\ result = -1 /\ buffer' = buffer \o readBuffer
      /\ offset' = offset + Chunk /\ pc' = "call" /\ file' = file
  BY Zenon DEF Extend, Success
<1>2. /\ file \in Files /\ offset \in Nat /\ offset <= file.size
      /\ file.kind = "ext2" => offset % file.bs = 0
      /\ buffer = [i \in 1 .. offset |-> i]
      /\ \/ offset + Chunk < file.size /\ readBuffer = Filled(Chunk) /\ file.kind = "ext2"
         \/ result = file.size - offset
  BY <1>1, Zenon DEF ReadInv
<1>3. /\ file.size \in Nat /\ Chunk \in Nat
      /\ file.kind = "ext2" => file.bs \in Nat /\ file.bs > 0 /\ Chunk % file.bs = 0
  BY <1>2, ReadConstants
<1>4. /\ offset + Chunk < file.size /\ readBuffer = Filled(Chunk) /\ file.kind = "ext2"
  BY <1>1, <1>2, <1>3
<1>5. (offset + Chunk) % file.bs = 0
  BY <1>2, <1>3, <1>4, SumOfMultiples, Zenon
<1>6. readBuffer = [i \in 1 .. Chunk |-> offset + i]
  <2>1. readBuffer = [i \in 1 .. Chunk |-> IF i <= Chunk THEN offset + i ELSE 0]
    BY <1>4, Zenon DEF Filled
  <2>2. \A i \in 1 .. Chunk : i <= Chunk
    BY <1>3
  <2> QED BY <2>1, <2>2, Zenon
<1>7. buffer' = [i \in 1 .. offset + Chunk |-> i]
  BY ONLY <1>1, <1>2, <1>3, <1>6
<1>8. offset' \in Nat /\ offset' <= file'.size
  BY ONLY <1>1, <1>2, <1>3, <1>4
<1> QED BY <1>1, <1>2, <1>4, <1>5, <1>7, <1>8, Zenon DEF ReadInv

\* The last bytes are appended, and the file is complete.
LEMMA ReadAllDoneInv == ASSUME ReadInv, ReadAllDone PROVE ReadInv'
<1>1. /\ pc = "returned" /\ result # Success /\ file' = file /\ offset' = offset
      /\ IF result > Chunk THEN pc' = "panic" /\ UNCHANGED buffer
         ELSE pc' = "done" /\ buffer' = buffer \o SubSeq(readBuffer, 1, result)
  BY Zenon DEF ReadAllDone
<1>2. /\ file \in Files /\ offset \in Nat /\ offset <= file.size
      /\ file.kind = "ext2" => offset % file.bs = 0
      /\ file.kind = "sysfs" => offset = 0
      /\ buffer = [i \in 1 .. offset |-> i]
      /\ result = file.size - offset /\ result <= Chunk
      /\ readBuffer = [i \in 1 .. Chunk |-> IF i <= result THEN offset + i ELSE 0]
  BY <1>1, Zenon DEF ReadInv, Filled
<1>3. file.size \in Nat /\ Chunk \in Nat
  BY <1>2, ReadConstants
<1>4. result \in Nat /\ offset + result = file.size
  BY ONLY <1>2, <1>3
<1>5. pc' = "done" /\ buffer' = buffer \o SubSeq(readBuffer, 1, result)
  <2>1. ~(result > Chunk)
    BY ONLY <1>2, <1>3, <1>4
  <2> QED BY <1>1, <2>1, Zenon
<1>6. SubSeq(readBuffer, 1, result) = [i \in 1 .. result |-> offset + i]
  <2>1. readBuffer \in Seq(Nat) /\ Len(readBuffer) = Chunk
    BY ONLY <1>2, <1>3, <1>4
  <2>2. \A i \in 1 .. result : readBuffer[i] = offset + i
    BY ONLY <1>2, <1>3, <1>4
  <2>3. result \in Nat /\ result <= Chunk
    BY <1>2, <1>4, Zenon
  <2>4. SubSeq(readBuffer, 1, result) = [i \in 1 .. result |-> readBuffer[i]]
    BY ONLY <1>3, <2>1, <2>3
  <2> QED BY <2>2, <2>4, Zenon
<1>7. buffer' = [i \in 1 .. offset + result |-> i]
  <2>1. buffer' = [i \in 1 .. offset |-> i] \o [i \in 1 .. result |-> offset + i]
    BY <1>2, <1>5, <1>6, Zenon
  <2>2. offset \in Nat /\ result \in Nat
    BY <1>2, <1>4, Zenon
  <2> QED BY ONLY <2>1, <2>2
<1> QED BY <1>1, <1>2, <1>4, <1>5, <1>7, Zenon DEF ReadInv

\* The bytes before the offset, and before the place where ext2's loop stands,
\* are those of the file.
THEOREM ReadHolds == ReadSpec => []ReadInv
<1>1. ReadInv /\ UNCHANGED readVars => ReadInv'
  <2> SUFFICES ASSUME ReadInv, UNCHANGED readVars PROVE ReadInv'
    OBVIOUS
  <2>1. /\ file' = file /\ offset' = offset /\ buffer' = buffer /\ readBuffer' = readBuffer
        /\ block' = block /\ current' = current /\ pc' = pc /\ result' = result
    BY DEF readVars
  <2> QED BY <2>1, ZenonT(60) DEF ReadInv, Filled, End
<1>2. ReadInv /\ [ReadNext]_readVars => ReadInv'
  BY <1>1, CallReadInv, ReadBlockInv, Ext2ReturnsInv, SysfsReadInv, ExtendInv, ReadAllDoneInv,
     Zenon DEF ReadNext, ReadStopped
<1> QED BY <1>2, ReadInitInv, PTL DEF ReadSpec

\* read_all returns the file byte for byte, for every chunk and file within the
\* documented limits: a call of read that says Success filled the whole buffer,
\* one that says Done tells how much of the file was left, and no slice is out
\* of bounds.
THEOREM ReadAllCorrect == ReadSpec => []ReadContract
<1>1. ReadInv => ReadContract
  <2> SUFFICES ASSUME ReadInv PROVE ReadContract
    OBVIOUS
  <2>1. pc # "panic" /\ (pc = "done" => buffer = [i \in 1 .. file.size |-> i])
    BY Zenon DEF ReadInv
  <2>2. ASSUME pc = "returned"
        PROVE  LET n == IF result = Success THEN Chunk ELSE result
               IN  /\ n <= Chunk
                   /\ result # Success => n = file.size - offset
                   /\ \A i \in 1 .. n : /\ readBuffer[i] = Byte(offset + i - 1)
                                         /\ readBuffer[i] # 0
    <3>1. /\ file \in Files /\ offset \in Nat /\ offset <= file.size
          /\ \/ result = -1 /\ offset + Chunk < file.size
                /\ readBuffer = [i \in 1 .. Chunk |-> IF i <= Chunk THEN offset + i ELSE 0]
             \/ result = file.size - offset /\ result <= Chunk
                /\ readBuffer = [i \in 1 .. Chunk |-> IF i <= result THEN offset + i ELSE 0]
      BY <2>2, Zenon DEF ReadInv, Filled, Success
    <3>2. file.size \in Nat /\ Chunk \in Nat
      BY <3>1, ReadConstants
    <3> QED BY ONLY <3>1, <3>2, SMTT(30) DEF Byte, Success
  <2> QED BY <2>1, <2>2, Zenon DEF ReadContract
<1> QED BY <1>1, ReadHolds, PTL

-----------------------------------------------------------------------------
(* The first bitmap.                                                        *)

\* A quotient rounded up: how many blocks of d it takes to hold n.
LEMMA DivUpFacts ==
  ASSUME NEW n \in Nat, NEW d \in Nat, d > 0
  PROVE  /\ DivUp(n, d) \in Nat
         /\ \A k \in Nat : DivUp(n, d) <= k <=> n <= k * d
  BY SMTT(30) DEF DivUp

\* A quotient rounded down: how many whole blocks of d there are in n.
LEMMA DivDownFacts ==
  ASSUME NEW n \in Nat, NEW d \in Nat, d > 0
  PROVE  /\ n \div d \in Nat /\ n = d * (n \div d) + (n % d) /\ n % d \in 0..(d - 1)
         /\ \A k \in Nat : k < n \div d <=> (k + 1) * d <= n
<1>1. n \div d \in Nat /\ n % d \in 0..(d - 1)
  BY SMTT(30)
<1>2. n = d * (n \div d) + (n % d)
  BY SMTT(30)
<1>3. ASSUME NEW k \in Nat PROVE k < n \div d <=> (k + 1) * d <= n
  BY SMTT(30)
<1> QED BY <1>1, <1>2, <1>3, Zenon

\* Whole blocks have the quotient they are made of.
LEMMA WholeBlocks ==
  ASSUME NEW k \in Nat, NEW d \in Nat, d > 0
  PROVE  k * d \in Nat /\ d * k = k * d /\ (k * d) \div d = k /\ (k + 1) * d = k * d + d
  BY SMTT(30)

\* Blocks come one after the other.
LEMMA BlockOrder ==
  ASSUME NEW k \in Nat, NEW m \in Nat, NEW d \in Nat, d > 0
  PROVE  /\ k < m <=> (k + 1) * d <= m * d
         /\ k <= m <=> k * d <= m * d
  BY SMTT(30)

\* Where the regions of a map begin and end.
LEMMA RegionFacts ==
  ASSUME regions \in MemoryMaps, NEW i \in DOMAIN regions
  PROVE  /\ PageBytes \in Nat /\ PageBytes > 0
         /\ regions[i].start \in Nat /\ regions[i].len \in Nat /\ EndOf(regions[i]) \in Nat
         /\ EndOf(regions[i]) = regions[i].start + regions[i].len
  BY BootConstants DEF EndOf

\* The pages of a region, counted.
LEMMA PagesOfRegion ==
  ASSUME PageBytes \in Nat, PageBytes > 0, NEW r, r.start \in Nat, r.len \in Nat
  PROVE  /\ r.free => PagesOf(r) = DivUp(r.start, PageBytes)..((EndOf(r) \div PageBytes) - 1)
         /\ ~r.free => PagesOf(r) = (r.start \div PageBytes)..(DivUp(EndOf(r), PageBytes) - 1)
<1> DEFINE P == PageBytes
<1>1. EndOf(r) \in Nat
  BY DEF EndOf
<1>2. ASSUME NEW v \in Nat
      PROVE  ShiftUp(v) \div P = DivUp(v, P) /\ ShiftDown(v) \div P = v \div P
  <2>1. ShiftUp(v) \div P = DivUp(v, P)
    BY DivUpFacts, WholeBlocks, Zenon DEF ShiftUp
  <2>2. v \div P \in Nat /\ v = P * (v \div P) + (v % P) /\ v % P \in 0..(P - 1)
    BY DivDownFacts, Zenon
  <2>3. P * (v \div P) = (v \div P) * P /\ (v \div P) * P \in Nat
    BY <2>2, WholeBlocks, Zenon
  <2>4. ShiftDown(v) = (v \div P) * P
    <3>1. \A a \in Nat, b \in 0..(P - 1) : v = a + b => v - b = a
      OBVIOUS
    <3> QED BY <2>2, <2>3, <3>1, Zenon DEF ShiftDown
  <2> QED BY <2>1, <2>2, <2>4, WholeBlocks, Zenon
<1>3. CASE r.free
  <2>1. Aligned(r).lo = ShiftUp(r.start) /\ Aligned(r).hi = ShiftDown(EndOf(r))
    BY <1>3 DEF Aligned
  <2> QED BY <1>1, <1>2, <1>3, <2>1, Zenon DEF PagesOf
<1>4. CASE ~r.free
  <2>1. Aligned(r).lo = ShiftDown(r.start) /\ Aligned(r).hi = ShiftUp(EndOf(r))
    BY <1>4 DEF Aligned
  <2> QED BY <1>1, <1>2, <1>4, <2>1, Zenon DEF PagesOf
<1> QED BY <1>3, <1>4, Zenon

\* A page of a free region is one that lies in it with every byte.
LEMMA FreePage ==
  ASSUME PageBytes \in Nat, PageBytes > 0, NEW r, r.start \in Nat, r.len \in Nat, r.free,
         NEW p \in Nat
  PROVE  p \in PagesOf(r) <=> r.start <= p * PageBytes /\ (p + 1) * PageBytes <= EndOf(r)
<1>1. EndOf(r) \in Nat
  BY DEF EndOf
<1>2. p \in PagesOf(r) <=> DivUp(r.start, PageBytes) <= p /\ p < EndOf(r) \div PageBytes
  <2>1. DivUp(r.start, PageBytes) \in Nat /\ EndOf(r) \div PageBytes \in Nat
    BY <1>1, DivUpFacts, DivDownFacts, Zenon
  <2>2. PagesOf(r) = DivUp(r.start, PageBytes)..((EndOf(r) \div PageBytes) - 1)
    BY PagesOfRegion, Zenon
  <2> QED BY ONLY <2>1, <2>2, p \in Nat
<1>3. DivUp(r.start, PageBytes) <= p <=> r.start <= p * PageBytes
  BY DivUpFacts, Zenon
<1>4. p < EndOf(r) \div PageBytes <=> (p + 1) * PageBytes <= EndOf(r)
  BY <1>1, DivDownFacts, Zenon
<1> QED BY <1>2, <1>3, <1>4, Zenon

LEMMA WithinRegion ==
  ASSUME PageBytes \in Nat, PageBytes > 0, NEW r, r.start \in Nat, r.len \in Nat, r.free,
         NEW p \in Nat
  PROVE  Within(p, r) <=> p \in PagesOf(r)
<1>1. EndOf(r) \in Nat
  BY DEF EndOf
<1>2. /\ p * PageBytes \in Nat /\ (p + 1) * PageBytes = p * PageBytes + PageBytes
  BY WholeBlocks, Zenon
<1>3. Within(p, r) <=> r.start <= p * PageBytes /\ (p + 1) * PageBytes <= EndOf(r)
  <2> DEFINE a == p * PageBytes
             b == (p + 1) * PageBytes
  <2>1. a \in Nat /\ b = a + PageBytes
    BY <1>2, Zenon
  <2>2. Within(p, r) <=> a..(b - 1) \subseteq r.start..(EndOf(r) - 1)
    BY Zenon DEF Within, BytesOf
  <2> HIDE DEF a, b
  <2>3. b - 1 \in a..(b - 1) /\ a \in a..(b - 1)
    BY ONLY <2>1, PageBytes \in Nat, PageBytes > 0
  <2>4. a..(b - 1) \subseteq r.start..(EndOf(r) - 1) <=> r.start <= a /\ b <= EndOf(r)
    BY ONLY <1>1, <2>1, <2>3, r.start \in Nat, PageBytes \in Nat, PageBytes > 0
  <2> QED BY <2>2, <2>4, Zenon DEF a, b
<1> QED BY <1>3, FreePage, Zenon

\* A set of natural numbers has a least one.
LEMMA LeastNatural ==
  ASSUME NEW T, T \subseteq Nat, T # {}
  PROVE  \E x \in T : \A y \in T : x <= y
<1>1. PICK x \in T : \A y \in T : ~(<<y, x>> \in OpToRel(<, Nat))
  <2>1. IsWellFoundedOn(OpToRel(<, Nat), Nat)
    BY NatLessThanWellFounded, Zenon
  <2> QED BY <2>1, WFMin, Zenon
<1>2. ASSUME NEW y \in T PROVE x <= y
  <2>1. ~(y < x)
    BY <1>1, Zenon DEF OpToRel
  <2> QED BY <2>1
<1> QED BY <1>2, Zenon

\* One of finitely many numbers is the largest: otherwise there would be a
\* least number of them without a largest one.
LEMMA LargestOf ==
  ASSUME NEW n \in Nat \ {0}, NEW e \in [1..n -> Nat]
  PROVE  \E i \in 1..n : \A j \in 1..n : e[j] <= e[i]
<1> DEFINE Top(k) == \E i \in 1..k : \A j \in 1..k : e[j] <= e[i]
           Bad == {k \in 1..n : ~Top(k)}
<1>1. SUFFICES ASSUME Bad # {} PROVE FALSE
  <2>1. n \in 1..n
    OBVIOUS
  <2> QED BY <2>1, Zenon
<1>2. Bad \subseteq Nat
  OBVIOUS
<1>3. PICK x \in Bad : \A y \in Bad : x <= y
  BY <1>1, <1>2, LeastNatural, Zenon
<1>4. x \in 1..n /\ ~Top(x)
  OBVIOUS
<1>5. x # 1
  <2>1. Top(1)
    OBVIOUS
  <2> QED BY <1>4, <2>1, Zenon
<1>6. x - 1 \in 1..n /\ ~(x <= x - 1)
  BY <1>4, <1>5
<1>7. Top(x - 1)
  BY <1>3, <1>6, Zenon
<1>8. PICK i \in 1..(x - 1) : \A j \in 1..(x - 1) : e[j] <= e[i]
  BY <1>7
<1>9. /\ i \in 1..x /\ x \in 1..x /\ e[i] \in Nat /\ e[x] \in Nat
      /\ \A j \in 1..x : e[j] \in Nat /\ (j = x \/ j \in 1..(x - 1))
  BY <1>4, <1>8
<1> HIDE DEF Bad
<1>10. CASE e[x] <= e[i]
  <2>1. \A j \in 1..x : e[j] <= e[i]
    BY <1>8, <1>9, <1>10, Zenon
  <2> QED BY <1>4, <1>9, <2>1, Zenon
<1>11. CASE ~(e[x] <= e[i])
  <2>1. \A j \in 1..x : e[j] <= e[x]
    BY ONLY <1>8, <1>9, <1>11, SMTT(30)
  <2> QED BY <1>4, <1>9, <2>1, Zenon
<1> QED BY <1>10, <1>11, Zenon

\* total_mem_bytes is the end of a region, and no region ends behind it.
LEMMA TotalFacts ==
  ASSUME regions \in MemoryMaps
  PROVE  /\ TotalMemory \in Nat
         /\ \A i \in DOMAIN regions : EndOf(regions[i]) <= TotalMemory
         /\ \E i \in DOMAIN regions : TotalMemory = EndOf(regions[i])
<1> DEFINE n == Len(regions)
           e == [i \in 1..n |-> EndOf(regions[i])]
           S == RegionEnds
<1>1. n \in Nat \ {0} /\ DOMAIN regions = 1..n
  BY BootConstants
<1>2. \A i \in 1..n : EndOf(regions[i]) \in Nat
  BY <1>1, RegionFacts, Zenon
<1>3. e \in [1..n -> Nat] /\ \A i \in 1..n : e[i] = EndOf(regions[i])
  BY <1>2, Zenon
<1> HIDE DEF n, e
<1>4. PICK i \in 1..n : \A j \in 1..n : e[j] <= e[i]
  BY <1>1, <1>3, LargestOf, Zenon
<1>5. \E x \in S : \A y \in S : y <= x
  <2>1. EndOf(regions[i]) \in S
    BY <1>1, <1>4, Zenon DEF RegionEnds
  <2>2. ASSUME NEW y \in S PROVE y <= EndOf(regions[i])
    <3>1. PICK j \in 1..n : y = EndOf(regions[j])
      BY <1>1, <2>2, Zenon DEF RegionEnds
    <3>2. EndOf(regions[j]) <= EndOf(regions[i])
      BY <1>3, <1>4, <3>1, Zenon
    <3> QED BY <3>1, <3>2, Zenon
  <2> QED BY <2>1, <2>2, Zenon
<1>6. TotalMemory \in S /\ \A y \in S : y <= TotalMemory
  BY <1>5, Zenon DEF TotalMemory
<1>7. PICK k \in DOMAIN regions : TotalMemory = EndOf(regions[k])
  BY <1>6, Zenon DEF RegionEnds
<1>8. TotalMemory \in Nat
  BY <1>1, <1>2, <1>7, Zenon
<1>9. ASSUME NEW j \in DOMAIN regions PROVE EndOf(regions[j]) <= TotalMemory
  <2>1. EndOf(regions[j]) \in S
    BY Zenon DEF RegionEnds
  <2> QED BY <1>6, <2>1, Zenon
<1> QED BY <1>7, <1>8, <1>9, Zenon

\* The bitmap has a bit for every page of the map.
LEMMA BitForEveryPage ==
  ASSUME regions \in MemoryMaps
  PROVE  /\ BitmapBytes \in Nat
         /\ \A i \in DOMAIN regions : PagesOf(regions[i]) \subseteq Bits(BitmapBytes)
<1> DEFINE B == BitmapBytes * BitsPerChunk
<1>1. /\ PageBytes \in Nat /\ PageBytes > 0 /\ BitsPerChunk \in Nat /\ BitsPerChunk > 0
  BY BootConstants
<1>2. BitmapBits \in Nat /\ TotalMemory <= BitmapBits * PageBytes
  <2>1. BitmapBits \in Nat /\ BitmapBits <= BitmapBits
    BY <1>1, TotalFacts, DivUpFacts DEF BitmapBits
  <2> QED BY <1>1, <2>1, TotalFacts, DivUpFacts, Zenon DEF BitmapBits
<1>3. BitmapBytes \in Nat /\ BitmapBits <= B
  <2>1. BitmapBytes \in Nat /\ BitmapBytes <= BitmapBytes
    BY <1>1, <1>2, DivUpFacts DEF BitmapBytes
  <2> QED BY <1>1, <1>2, <2>1, DivUpFacts, Zenon DEF BitmapBytes
<1>4. B \in Nat
  BY <1>1, <1>3, WholeBlocks, Zenon
<1> HIDE DEF B
<1>5. ASSUME NEW i \in DOMAIN regions PROVE PagesOf(regions[i]) \subseteq 0..(B - 1)
  <2> DEFINE r == regions[i]
             limit == DivUp(EndOf(r), PageBytes)
  <2>1. r.start \in Nat /\ r.len \in Nat /\ EndOf(r) \in Nat
    BY RegionFacts, Zenon
  <2>2. EndOf(r) <= BitmapBits * PageBytes
    <3>1. BitmapBits * PageBytes \in Nat /\ EndOf(r) <= TotalMemory /\ TotalMemory \in Nat
      BY <1>1, <1>2, TotalFacts, WholeBlocks, Zenon
    <3>2. TotalMemory <= BitmapBits * PageBytes
      BY <1>2, Zenon
    <3> QED BY ONLY <2>1, <3>1, <3>2
  <2>3. limit \in Nat /\ limit <= BitmapBits
    BY <1>1, <1>2, <2>1, <2>2, DivUpFacts, Zenon
  <2>4. ASSUME NEW p \in PagesOf(r) PROVE p \in Nat /\ p < limit
    <3>1. CASE ~r.free
      <4>1. r.start \div PageBytes \in Nat
        BY <1>1, <2>1, DivDownFacts, Zenon
      <4>2. p \in (r.start \div PageBytes)..(limit - 1)
        BY <1>1, <2>1, <2>4, <3>1, PagesOfRegion, Zenon
      <4> HIDE DEF limit
      <4> QED BY ONLY <2>3, <4>1, <4>2
    <3>2. CASE r.free
      <4>1. DivUp(r.start, PageBytes) \in Nat /\ EndOf(r) \div PageBytes \in Nat
        BY <1>1, <2>1, DivUpFacts, DivDownFacts, Zenon
      <4>2. p \in DivUp(r.start, PageBytes)..((EndOf(r) \div PageBytes) - 1)
        BY <1>1, <2>1, <2>4, <3>2, PagesOfRegion, Zenon
      <4>3. p \in Nat
        BY ONLY <4>1, <4>2
      <4>4. (p + 1) * PageBytes <= EndOf(r)
        BY <1>1, <2>1, <2>4, <3>2, <4>3, FreePage, Zenon
      <4>5. ~(EndOf(r) <= p * PageBytes)
        <5>1. p * PageBytes \in Nat /\ (p + 1) * PageBytes = p * PageBytes + PageBytes
          BY <1>1, <4>3, WholeBlocks, Zenon
        <5> QED BY ONLY <1>1, <2>1, <4>4, <5>1
      <4>6. ~(limit <= p)
        BY <1>1, <2>1, <4>3, <4>5, DivUpFacts, Zenon
      <4> HIDE DEF limit
      <4> QED BY ONLY <2>3, <4>3, <4>6
    <3> QED BY <3>1, <3>2, Zenon
  <2> HIDE DEF limit
  <2> QED BY ONLY <1>2, <1>3, <1>4, <2>3, <2>4
<1> QED BY <1>3, <1>5, Zenon DEF Bits, B

\* Two free regions have no page in common.
LEMMA FreeApart ==
  ASSUME regions \in MemoryMaps, NEW i \in DOMAIN regions, NEW j \in DOMAIN regions, i # j,
         regions[i].free, regions[j].free, NEW p \in Nat,
         p \in PagesOf(regions[i]), p \in PagesOf(regions[j])
  PROVE  FALSE
<1>1. /\ PageBytes \in Nat /\ PageBytes > 0
      /\ regions[i].start \in Nat /\ regions[i].len \in Nat /\ EndOf(regions[i]) \in Nat
      /\ regions[j].start \in Nat /\ regions[j].len \in Nat /\ EndOf(regions[j]) \in Nat
  BY RegionFacts, Zenon
<1>2. /\ regions[i].start <= p * PageBytes /\ (p + 1) * PageBytes <= EndOf(regions[i])
      /\ regions[j].start <= p * PageBytes /\ (p + 1) * PageBytes <= EndOf(regions[j])
  BY <1>1, FreePage, Zenon
<1>3. p * PageBytes \in Nat /\ (p + 1) * PageBytes = p * PageBytes + PageBytes
  BY <1>1, WholeBlocks, Zenon
<1>4. EndOf(regions[i]) <= regions[j].start \/ EndOf(regions[j]) <= regions[i].start
  BY BootConstants, Zenon
<1> QED BY ONLY <1>1, <1>2, <1>3, <1>4

\* The bytes the code takes back begin with the first page of a free region, and
\* the pages they reach into are pages of that region.
LEMMA BitmapPages ==
  ASSUME regions \in MemoryMaps, chunks = BitmapBytes, NEW i \in Candidates,
         bitmapStart = Aligned(regions[i]).lo
  PROVE  /\ i \in DOMAIN regions /\ regions[i].free /\ chunks \in Nat \ {0}
         /\ PagesOf(BitmapRegion) \subseteq PagesOf(regions[i])
         /\ \E q \in Nat :
              /\ bitmapStart = q * PageBytes
              /\ \A p \in Nat : p \in PagesOf(BitmapRegion) <=>
                   q <= p /\ ~(q * PageBytes + chunks <= p * PageBytes)
<1> DEFINE r == regions[i]
           q == DivUp(r.start, PageBytes)
           c == EndOf(r) \div PageBytes
<1>1. /\ i \in DOMAIN regions /\ r.free /\ Aligned(r).lo < Aligned(r).hi
  BY Zenon DEF Candidates, Holds
<1>2. /\ PageBytes \in Nat /\ PageBytes > 0
      /\ r.start \in Nat /\ r.len \in Nat /\ EndOf(r) \in Nat
  BY <1>1, RegionFacts, Zenon
<1>3. q \in Nat /\ c \in Nat
  BY <1>2, DivUpFacts, DivDownFacts, Zenon
<1>4. bitmapStart = q * PageBytes /\ Aligned(r).lo = q * PageBytes
  BY <1>1 DEF Aligned, ShiftUp
<1>5. PagesOf(r) = q..(c - 1)
  BY <1>1, <1>2, PagesOfRegion, Zenon
<1>6. q < c /\ q * PageBytes \in Nat /\ c * PageBytes \in Nat /\ Aligned(r).hi = c * PageBytes
  <2>1. /\ EndOf(r) = PageBytes * c + (EndOf(r) % PageBytes)
        /\ EndOf(r) % PageBytes \in 0..(PageBytes - 1)
    BY <1>2, DivDownFacts, Zenon
  <2>2. Aligned(r).hi = EndOf(r) - (EndOf(r) % PageBytes)
    BY <1>1 DEF Aligned, ShiftDown
  <2>3. PageBytes * c = c * PageBytes /\ c * PageBytes \in Nat
    BY <1>2, <1>3, WholeBlocks, Zenon
  <2>4. Aligned(r).hi = c * PageBytes
    <3>1. \A a \in Nat, b \in 0..(PageBytes - 1) : EndOf(r) = a + b => EndOf(r) - b = a
      BY ONLY <1>2
    <3> QED BY <2>1, <2>2, <2>3, <3>1, Zenon
  <2>5. q * PageBytes < c * PageBytes /\ q * PageBytes \in Nat
    BY <1>1, <1>2, <1>3, <1>4, <2>4, WholeBlocks, Zenon
  <2>6. ~(c * PageBytes <= q * PageBytes)
    BY ONLY <2>3, <2>5
  <2>7. ~(c <= q)
    BY <1>2, <1>3, <2>6, BlockOrder, Zenon
  <2>8. q < c
    <3> HIDE DEF q, c
    <3> QED BY ONLY <1>3, <2>7
  <2> QED BY <2>3, <2>4, <2>5, <2>8, Zenon
<1> HIDE DEF q, c
<1>7. q \in PagesOf(r)
  BY ONLY <1>3, <1>5, <1>6
<1>8. chunks \in Nat /\ chunks > 0
  <2>1. chunks \in Nat /\ q \in 0..(chunks * BitsPerChunk - 1)
    BY <1>1, <1>7, BitForEveryPage, Zenon DEF Bits
  <2>2. chunks # 0
    <3>1. BitsPerChunk \in Nat
      BY BootConstants
    <3> QED BY ONLY <2>1, <3>1
  <2> QED BY ONLY <2>1, <2>2
<1> DEFINE b == BitmapRegion
           d == DivUp(EndOf(b), PageBytes)
<1>9. /\ EndOf(b) = q * PageBytes + chunks /\ EndOf(b) \in Nat
      /\ d \in Nat /\ PagesOf(b) = q..(d - 1)
      /\ \A m \in Nat : d <= m <=> q * PageBytes + chunks <= m * PageBytes
  <2>1. /\ b.start = q * PageBytes /\ b.len = chunks /\ ~b.free
        /\ EndOf(b) = q * PageBytes + chunks
    BY <1>4 DEF BitmapRegion, EndOf
  <2>2. q * PageBytes \in Nat /\ (q * PageBytes) \div PageBytes = q
    BY <1>2, <1>3, WholeBlocks, Zenon
  <2>3. EndOf(b) \in Nat
    <3>1. EndOf(b) = q * PageBytes + chunks
      BY <2>1, Zenon
    <3> QED BY ONLY <1>8, <2>2, <3>1
  <2>4. d \in Nat /\ \A m \in Nat : d <= m <=> EndOf(b) <= m * PageBytes
    BY <1>2, <2>3, DivUpFacts, Zenon
  <2>5. PagesOf(b) = q..(d - 1)
    <3>1. b.start \in Nat /\ b.len \in Nat
      BY <1>8, <2>1, <2>2, Zenon
    <3> QED BY <1>2, <2>1, <2>2, <3>1, PagesOfRegion, Zenon
  <2> QED BY <2>1, <2>3, <2>4, <2>5, Zenon
<1>10. d <= c
  <2>1. chunks <= Aligned(r).hi - Aligned(r).lo
    BY Zenon DEF Candidates, Holds
  <2>2. chunks <= c * PageBytes - q * PageBytes
    BY <1>4, <1>6, <2>1, Zenon
  <2>3. q * PageBytes + chunks <= c * PageBytes
    BY ONLY <1>6, <1>8, <2>2
  <2> QED BY <1>3, <1>9, <2>3, Zenon
<1> HIDE DEF b, d
<1>11. PagesOf(b) \subseteq PagesOf(r)
  BY ONLY <1>3, <1>5, <1>9, <1>10
<1>12. ASSUME NEW p \in Nat
       PROVE  p \in PagesOf(b) <=> q <= p /\ ~(q * PageBytes + chunks <= p * PageBytes)
  <2>1. d <= p <=> q * PageBytes + chunks <= p * PageBytes
    BY <1>9, Zenon
  <2>2. d \in Nat /\ PagesOf(b) = q..(d - 1)
    BY <1>9, Zenon
  <2>3. p \in q..(d - 1) <=> q <= p /\ ~(d <= p)
    BY ONLY <1>3, <2>2, p \in Nat
  <2> QED BY <2>1, <2>2, <2>3, Zenon
<1>13. chunks \in Nat \ {0}
  BY <1>8
<1> QED BY <1>1, <1>3, <1>4, <1>11, <1>12, <1>13, Zenon DEF b

\* Pages are natural numbers.
LEMMA PagesAreNat ==
  ASSUME regions \in MemoryMaps, NEW i \in DOMAIN regions
  PROVE  PagesOf(regions[i]) \subseteq Nat
<1>1. PagesOf(regions[i]) \subseteq 0..(BitmapBytes * BitsPerChunk - 1)
  BY BitForEveryPage, Zenon DEF Bits
<1> QED BY <1>1

LEMMA BootInitInv == BootInit => BootInv
  BY ZenonT(60) DEF BootInit, BootInv

\* What a step that leaves the memory map alone leaves alone with it.
LEMMA SameMap ==
  ASSUME regions' = regions
  PROVE  /\ Candidates' = Candidates /\ BitmapBytes' = BitmapBytes
         /\ \A n : FreedBy(n)' = FreedBy(n)
  BY Zenon DEF Candidates, Holds, BitmapBytes, BitmapBits, TotalMemory,
               RegionEnds, FreedBy

LEMMA PlaceInv == ASSUME BootInv, Place PROVE BootInv'
<1>1. /\ bootPc = "place" /\ regions' = regions /\ nextRegion' = nextRegion
      /\ regions \in MemoryMaps /\ nextRegion = 1 /\ chunks = 0
  BY Zenon DEF Place, BootInv
<1>2. CASE Candidates = {}
  <2>1. bootPc' = "panic" /\ chunks' = chunks
    BY <1>2, Zenon DEF Place
  <2> QED BY <1>1, <1>2, <2>1, SameMap, Zenon DEF BootInv
<1>3. CASE Candidates # {}
  <2>1. /\ \E i \in Candidates : bitmapStart' = Aligned(regions[i]).lo
        /\ chunks' = BitmapBytes /\ bootPc' = "fill"
    BY <1>3, Zenon DEF Place
  <2> QED BY <1>1, <2>1, SameMap, ZenonT(60) DEF BootInv
<1> QED BY <1>2, <1>3, Zenon

LEMMA FillInv == ASSUME BootInv, Fill PROVE BootInv'
<1>1. /\ bootPc = "fill" /\ bootPc' = "free" /\ regions' = regions /\ nextRegion' = 1
      /\ chunks' = chunks /\ bitmapStart' = bitmapStart /\ usedBits' = Bits(chunks)
      /\ regions \in MemoryMaps /\ chunks = BitmapBytes
      /\ \E i \in Candidates : bitmapStart = Aligned(regions[i]).lo
  BY Zenon DEF Fill, FillAll, BootInv
<1>2. FreedBy(nextRegion - 1)' = {}
  <2>1. 1..(1 - 1) = {}
    OBVIOUS
  <2>2. FreedBy(nextRegion - 1)'
        = UNION {PagesOf(regions[i]) : i \in {k \in 1..(1 - 1) : regions[k].free}}
    BY <1>1, Zenon DEF FreedBy
  <2> QED BY <2>1, <2>2, Zenon
<1>3. nextRegion' \in 1..(Len(regions') + 1)
  <2>1. Len(regions) \in Nat
    BY <1>1, BootConstants
  <2>2. 1 \in 1..(Len(regions) + 1)
    BY <2>1
  <2> QED BY <1>1, <2>2, Zenon
<1>4. usedBits' = Bits(chunks)' \ FreedBy(nextRegion - 1)'
  BY <1>1, <1>2, Zenon DEF Bits
<1> QED BY <1>1, <1>3, <1>4, SameMap, ZenonT(60) DEF BootInv

\* mark_unused finds the bits of the region set: they exist, and no earlier
\* region has its pages.
LEMMA FreeRegionInv == ASSUME BootInv, FreeRegion PROVE BootInv'
<1> DEFINE r == regions[nextRegion]
           pages == IF r.free THEN PagesOf(r) ELSE {}
<1>1. /\ bootPc = "free" /\ nextRegion <= Len(regions) /\ regions' = regions
      /\ nextRegion' = nextRegion + 1 /\ chunks' = chunks /\ bitmapStart' = bitmapStart
      /\ IF pages \subseteq usedBits THEN usedBits' = usedBits \ pages /\ bootPc' = bootPc
         ELSE bootPc' = "panic" /\ usedBits' = usedBits
  BY Zenon DEF FreeRegion
<1>2. /\ regions \in MemoryMaps /\ chunks = BitmapBytes
      /\ \E i \in Candidates : bitmapStart = Aligned(regions[i]).lo
      /\ nextRegion \in 1..(Len(regions) + 1)
      /\ usedBits = Bits(chunks) \ FreedBy(nextRegion - 1)
  BY <1>1, Zenon DEF BootInv
<1>3. Len(regions) \in Nat /\ DOMAIN regions = 1..Len(regions)
  BY <1>2, BootConstants
<1>4. /\ nextRegion \in DOMAIN regions /\ nextRegion \in Nat
      /\ nextRegion' \in 1..(Len(regions) + 1) /\ nextRegion' - 1 = nextRegion
      /\ \A k \in 1..(nextRegion - 1) : k \in DOMAIN regions /\ k # nextRegion
      /\ 1..nextRegion = 1..(nextRegion - 1) \cup {nextRegion}
  BY ONLY <1>1, <1>2, <1>3
<1>5. pages \subseteq usedBits
  <2> SUFFICES ASSUME NEW p \in pages PROVE p \in usedBits
    BY Zenon
  <2>1. r.free /\ p \in PagesOf(r)
    BY Zenon
  <2>2. p \in Bits(chunks) /\ p \in Nat
    BY <1>2, <1>4, <2>1, BitForEveryPage, PagesAreNat, Zenon
  <2>3. ASSUME NEW k \in 1..(nextRegion - 1), regions[k].free, p \in PagesOf(regions[k])
        PROVE  FALSE
    BY <1>2, <1>4, <2>1, <2>2, <2>3, FreeApart, Zenon
  <2>4. p \notin FreedBy(nextRegion - 1)
    BY <2>3, Zenon DEF FreedBy
  <2> QED BY <1>2, <2>2, <2>4, Zenon
<1>6. FreedBy(nextRegion) = FreedBy(nextRegion - 1) \cup pages
  BY <1>4, Zenon DEF FreedBy
<1>7. /\ bootPc' = "free" /\ usedBits' = Bits(chunks) \ FreedBy(nextRegion)
  BY <1>1, <1>2, <1>5, <1>6, Zenon
<1>8. usedBits' = Bits(chunks)' \ FreedBy(nextRegion - 1)'
  <2>1. FreedBy(nextRegion - 1)' = FreedBy(nextRegion)
    BY <1>1, <1>4, Zenon DEF FreedBy
  <2> QED BY <1>1, <1>7, <2>1, Zenon DEF Bits
<1> HIDE DEF pages, r
<1> QED BY <1>1, <1>2, <1>4, <1>7, <1>8, SameMap, ZenonT(60) DEF BootInv

LEMMA FreeDoneInv == ASSUME BootInv, FreeDone PROVE BootInv'
<1>1. /\ bootPc = "free" /\ nextRegion > Len(regions) /\ regions' = regions
      /\ bootPc' = "reserve" /\ usedBits' = usedBits
      /\ chunks' = chunks /\ bitmapStart' = bitmapStart
  BY Zenon DEF FreeDone
<1>2. /\ regions \in MemoryMaps /\ chunks = BitmapBytes
      /\ \E i \in Candidates : bitmapStart = Aligned(regions[i]).lo
      /\ nextRegion \in 1..(Len(regions) + 1)
      /\ usedBits = Bits(chunks) \ FreedBy(nextRegion - 1)
  BY <1>1, Zenon DEF BootInv
<1>3. nextRegion - 1 = Len(regions)
  <2>1. Len(regions) \in Nat
    BY <1>2, BootConstants
  <2> QED BY <1>1, <1>2, <2>1
<1>4. usedBits' = Bits(chunks)' \ FreedBy(Len(regions))'
  BY <1>1, <1>2, <1>3, Zenon DEF Bits, FreedBy
<1> QED BY <1>1, <1>2, <1>4, SameMap, ZenonT(60) DEF BootInv

\* mark_used finds the bits of the bitmap's pages clear: their region is free.
LEMMA ReserveInv == ASSUME BootInv, Reserve PROVE BootInv'
<1> DEFINE pages == PagesOf(BitmapRegion)
<1>1. /\ bootPc = "reserve" /\ regions' = regions
      /\ chunks' = chunks /\ bitmapStart' = bitmapStart
      /\ IF pages \cap usedBits = {} /\ pages \subseteq Bits(chunks)
         THEN usedBits' = usedBits \cup pages /\ bootPc' = "done"
         ELSE bootPc' = "panic" /\ usedBits' = usedBits
  BY Zenon DEF Reserve
<1>2. /\ regions \in MemoryMaps /\ chunks = BitmapBytes
      /\ \E i \in Candidates : bitmapStart = Aligned(regions[i]).lo
      /\ usedBits = Bits(chunks) \ FreedBy(Len(regions))
  BY <1>1, Zenon DEF BootInv
<1>3. PICK i \in Candidates : bitmapStart = Aligned(regions[i]).lo
  BY <1>2, Zenon
<1>4. pages \subseteq PagesOf(regions[i]) /\ i \in DOMAIN regions /\ regions[i].free
  BY <1>2, <1>3, BitmapPages, Zenon
<1>5. DOMAIN regions = 1..Len(regions)
  BY <1>2, BootConstants
<1>6. pages \subseteq FreedBy(Len(regions)) /\ pages \subseteq Bits(chunks)
  BY <1>2, <1>4, <1>5, BitForEveryPage, Zenon DEF FreedBy
<1> HIDE DEF pages
<1>7. /\ bootPc' = "done"
      /\ usedBits' = (Bits(chunks) \ FreedBy(Len(regions))) \cup pages
  <2>1. pages \cap usedBits = {} /\ pages \subseteq Bits(chunks)
    BY <1>2, <1>6, Zenon
  <2> QED BY <1>1, <1>2, <2>1, Zenon
<1>8. usedBits' = ((Bits(chunks) \ FreedBy(Len(regions))) \cup PagesOf(BitmapRegion))'
  BY <1>1, <1>7, Zenon DEF Bits, FreedBy, BitmapRegion, pages
<1> QED BY <1>1, <1>2, <1>7, <1>8, SameMap, ZenonT(60) DEF BootInv

\* After each step of bootstrap_allocator the bits are those its loops ask for.
THEOREM BootHolds == BootSpec => []BootInv
<1>1. BootInv /\ UNCHANGED bootVars => BootInv'
  <2> SUFFICES ASSUME BootInv, UNCHANGED bootVars PROVE BootInv'
    OBVIOUS
  <2>1. /\ regions' = regions /\ bootPc' = bootPc /\ bitmapStart' = bitmapStart
        /\ chunks' = chunks /\ nextRegion' = nextRegion /\ usedBits' = usedBits
    BY DEF bootVars
  <2>2. /\ Bits(chunks)' = Bits(chunks) /\ FreedBy(nextRegion - 1)' = FreedBy(nextRegion - 1)
        /\ FreedBy(Len(regions))' = FreedBy(Len(regions))
        /\ PagesOf(BitmapRegion)' = PagesOf(BitmapRegion)
    BY <2>1, Zenon DEF Bits, FreedBy, BitmapRegion
  <2> QED BY <2>1, <2>2, SameMap, ZenonT(60) DEF BootInv
<1>2. BootInv /\ [BootNext]_bootVars => BootInv'
  BY <1>1, PlaceInv, FillInv, FreeRegionInv, FreeDoneInv, ReserveInv, Zenon
     DEF BootNext, BootStopped
<1> QED BY <1>2, BootInitInv, PTL DEF BootSpec

\* Which pages n bytes from the start of page q on reach into.
LEMMA PageMeets ==
  ASSUME NEW q \in Nat, NEW p \in Nat, NEW n \in Nat, PageBytes \in Nat, PageBytes > 0, n > 0
  PROVE  BytesOf(p) \cap ((q * PageBytes)..(q * PageBytes + n - 1)) # {} <=>
           q <= p /\ ~(q * PageBytes + n <= p * PageBytes)
<1> DEFINE a == q * PageBytes
           b == p * PageBytes
<1>1. a \in Nat /\ b \in Nat /\ (p + 1) * PageBytes = b + PageBytes
  BY WholeBlocks, Zenon
<1>2. BytesOf(p) = b..(b + PageBytes - 1)
  BY <1>1 DEF BytesOf
<1>3. (q <= p => a <= b) /\ (~(q <= p) => b + PageBytes <= a)
  <2>1. q <= p <=> a <= b
    BY BlockOrder, Zenon
  <2>2. p < q => (p + 1) * PageBytes <= a
    BY BlockOrder, Zenon
  <2>3. q <= p \/ p < q
    BY ONLY p \in Nat, q \in Nat
  <2> QED BY <1>1, <2>1, <2>2, <2>3, Zenon
<1> HIDE DEF a, b
<1>4. CASE q <= p /\ ~(a + n <= b)
  <2>1. b \in BytesOf(p) /\ b \in a..(a + n - 1)
    BY ONLY <1>1, <1>2, <1>3, <1>4, n \in Nat, PageBytes \in Nat, PageBytes > 0
  <2> QED BY <1>4, <2>1, Zenon DEF a, b
<1>5. CASE ~(q <= p /\ ~(a + n <= b))
  <2>1. BytesOf(p) \cap (a..(a + n - 1)) = {}
    BY ONLY <1>1, <1>2, <1>3, <1>5, n \in Nat, PageBytes \in Nat, PageBytes > 0
  <2> QED BY <1>5, <2>1, Zenon DEF a, b
<1> QED BY <1>4, <1>5, Zenon

\* What lies in the whole pages that n bytes need lies in pages n bytes reach.
LEMMA RoundedReach ==
  ASSUME NEW q \in Nat, NEW p \in Nat, NEW n \in Nat, NEW m \in Nat,
         PageBytes \in Nat, PageBytes > 0, m <= ShiftUp(n), q <= p,
         ~(q * PageBytes + m <= p * PageBytes)
  PROVE  ~(q * PageBytes + n <= p * PageBytes)
<1> DEFINE k == DivUp(n, PageBytes)
           e == p - q
<1>1. k \in Nat /\ ShiftUp(n) = k * PageBytes
  BY DivUpFacts, Zenon DEF ShiftUp
<1>2. e \in Nat
  OBVIOUS
<1>3. /\ q * PageBytes \in Nat /\ p * PageBytes \in Nat
      /\ e * PageBytes \in Nat /\ k * PageBytes \in Nat
  BY <1>1, <1>2, WholeBlocks, Zenon
<1>4. e * PageBytes = p * PageBytes - q * PageBytes
  BY ONLY p \in Nat, q \in Nat, PageBytes \in Nat, SMTT(30)
<1>5. (k <= e <=> n <= e * PageBytes) /\ (k <= e <=> k * PageBytes <= e * PageBytes)
  BY <1>1, <1>2, DivUpFacts, BlockOrder, Zenon
<1>6. m <= k * PageBytes
  BY <1>1, Zenon
<1> DEFINE qb == q * PageBytes
           pb == p * PageBytes
           eb == e * PageBytes
           kb == k * PageBytes
<1>7. /\ qb \in Nat /\ pb \in Nat /\ eb \in Nat /\ kb \in Nat /\ m <= kb /\ eb = pb - qb
      /\ (n <= eb => kb <= eb) /\ ~(qb + m <= pb)
  BY <1>3, <1>4, <1>5, <1>6, Zenon
<1> HIDE DEF qb, pb, eb, kb
<1>8. ~(qb + n <= pb)
  BY ONLY <1>7, n \in Nat, m \in Nat
<1> QED BY <1>8, Zenon DEF qb, pb

\* For every page size, chunk size and memory map of regions that do not overlap,
\* bootstrap_allocator fails only for want of a place, every page has a bit, and
\* the allocator is left exactly the whole pages of free memory in which nothing
\* is taken back for the bitmap.  No u64 of the bitmap is in one of them as long
\* as the bitmap fits the pages taken back.
THEOREM BootstrapCorrect == BootSpec => []FirstBitmapRight
<1>1. BootInv => FirstBitmapRight
  <2> SUFFICES ASSUME BootInv PROVE FirstBitmapRight
    OBVIOUS
  <2>1. regions \in MemoryMaps /\ (bootPc = "panic" => Candidates = {})
    BY Zenon DEF BootInv
  <2>2. /\ DOMAIN regions = 1..Len(regions) /\ PageBytes \in Nat /\ PageBytes > 0
        /\ ChunkBytes \in Nat /\ ChunkBytes > 0
    BY <2>1, BootConstants
  <2>3. chunks > 0 => \A i \in DOMAIN regions : PagesOf(regions[i]) \subseteq Bits(chunks)
    <3>1. chunks = 0 \/ chunks = BitmapBytes
      BY Zenon DEF BootInv
    <3>2. ~(0 > 0)
      OBVIOUS
    <3> QED BY <2>1, <3>1, <3>2, BitForEveryPage, Zenon
  <2>4. ASSUME bootPc = "done", NEW p \in Bits(chunks)
        PROVE  /\ p \notin usedBits <=> /\ \E r \in FreeRegions : Within(p, r)
                                        /\ BytesOf(p) \cap TakenBack = {}
               /\ chunks * ChunkBytes <= ShiftUp(chunks) /\ p \notin usedBits
                    => BytesOf(p) \cap BitmapMemory = {}
    <3>1. /\ chunks = BitmapBytes
          /\ \E i \in Candidates : bitmapStart = Aligned(regions[i]).lo
          /\ usedBits = (Bits(chunks) \ FreedBy(Len(regions))) \cup PagesOf(BitmapRegion)
      BY <2>4, Zenon DEF BootInv
    <3>2. /\ chunks \in Nat \ {0}
          /\ \E q \in Nat :
               /\ bitmapStart = q * PageBytes
               /\ \A o \in Nat : o \in PagesOf(BitmapRegion) <=>
                    q <= o /\ ~(q * PageBytes + chunks <= o * PageBytes)
      <4>1. PICK i \in Candidates : bitmapStart = Aligned(regions[i]).lo
        BY <3>1, Zenon
      <4> QED BY <2>1, <3>1, <4>1, BitmapPages, Zenon
    <3>3. p \in Nat
      BY <3>2, <2>4, BootConstants DEF Bits
    <3>4. PICK q \in Nat :
            /\ bitmapStart = q * PageBytes
            /\ p \in PagesOf(BitmapRegion) <=>
                 q <= p /\ ~(q * PageBytes + chunks <= p * PageBytes)
      BY <3>2, <3>3, Zenon
    <3>5. p \in FreedBy(Len(regions)) <=> \E r \in FreeRegions : Within(p, r)
      <4>1. \A i \in DOMAIN regions : regions[i].free =>
              (Within(p, regions[i]) <=> p \in PagesOf(regions[i]))
        BY <2>1, <2>2, <3>3, RegionFacts, WithinRegion, Zenon
      <4>2. \A r : r \in FreeRegions <=> \E i \in DOMAIN regions : r = regions[i] /\ r.free
        BY Zenon DEF FreeRegions
      <4>3. p \in FreedBy(Len(regions)) <=>
              \E i \in DOMAIN regions : regions[i].free /\ p \in PagesOf(regions[i])
        BY <2>2, Zenon DEF FreedBy
      <4>4. ASSUME p \in FreedBy(Len(regions)) PROVE \E r \in FreeRegions : Within(p, r)
        <5>1. PICK i \in DOMAIN regions : regions[i].free /\ p \in PagesOf(regions[i])
          BY <4>3, <4>4, Zenon
        <5> QED BY <4>1, <4>2, <5>1, Zenon
      <4>5. ASSUME NEW r \in FreeRegions, Within(p, r) PROVE p \in FreedBy(Len(regions))
        <5>1. PICK i \in DOMAIN regions : r = regions[i] /\ r.free
          BY <4>2, <4>5, Zenon
        <5>2. regions[i].free /\ Within(p, regions[i])
          BY <4>5, <5>1, Zenon
        <5> QED BY <4>1, <4>3, <5>2, Zenon
      <4> QED BY <4>4, <4>5, Zenon
    <3>6. p \notin usedBits <=> p \in FreedBy(Len(regions)) /\ p \notin PagesOf(BitmapRegion)
      BY <2>4, <3>1, Zenon
    <3>7. BytesOf(p) \cap TakenBack # {} <=> p \in PagesOf(BitmapRegion)
      <4>1. chunks \in Nat /\ chunks > 0
        BY <3>2
      <4> QED BY <2>2, <3>3, <3>4, <4>1, PageMeets, Zenon DEF TakenBack
    <3>8. ASSUME chunks * ChunkBytes <= ShiftUp(chunks), p \notin PagesOf(BitmapRegion)
          PROVE  BytesOf(p) \cap BitmapMemory = {}
      <4>1. chunks * ChunkBytes \in Nat /\ chunks * ChunkBytes > 0 /\ chunks \in Nat
        BY ONLY <2>2, <3>2
      <4>2. BytesOf(p) \cap BitmapMemory # {} <=>
              q <= p /\ ~(q * PageBytes + chunks * ChunkBytes <= p * PageBytes)
        BY <2>2, <3>3, <3>4, <4>1, PageMeets, Zenon DEF BitmapMemory
      <4> QED BY <2>2, <3>3, <3>4, <3>8, <4>1, <4>2, RoundedReach, Zenon
    <3> QED BY <3>5, <3>6, <3>7, <3>8, Zenon
  <2>5. chunks * ChunkBytes <= ShiftUp(chunks) => BitmapReserved
    BY <2>4, Zenon DEF BitmapReserved
  <2> QED BY <2>1, <2>3, <2>4, <2>5, Zenon DEF FirstBitmapRight
<1> QED BY <1>1, BootHolds, PTL
=============================================================================
