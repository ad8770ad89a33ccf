--------------------------- MODULE AllocBootstrap ---------------------------
(***************************************************************************)
(* bootstrap_allocator: from the memory map of the bootloader to the first *)
(* bitmap of the physical allocator.  The bitmap lives in the memory it    *)
(* describes: the code finds a free region for it, marks everything used,  *)
(* frees the pages of the free regions and takes back its own.             *)
(*                                                                         *)
(* A region is [start, len, free] in bytes.  Page size and chunk size are  *)
(* constants so that small memories show the cases of large ones; a chunk  *)
(* is a u64 of the bitmap, BitsPerChunk bits in ChunkBytes bytes.          *)
(***************************************************************************)
EXTENDS Integers, Sequences

CONSTANTS
  MemoryMaps,   \* sequences of regions the bootloader may report
  PageBytes,
  BitsPerChunk,
  ChunkBytes

VARIABLES
  regions,      \* the memory map
  bootPc,       \* "place", "fill", "free", "reserve", "done" or "panic"
  bitmapStart,  \* bitmap_start
  chunks,       \* the length the code computes for the bitmap
  nextRegion,   \* the region the freeing loop is at
  usedBits      \* the bits that are 1, as page numbers

bootVars == <<regions, bootPc, bitmapStart, chunks, nextRegion, usedBits>>

DivUp(n, d) == (n + d - 1) \div d
ShiftUp(v) == DivUp(v, PageBytes) * PageBytes
ShiftDown(v) == v - (v % PageBytes)
EndOf(r) == r.start + r.len

(* A memory map has at least one region, and its regions do not overlap.   *)
ASSUME BootConstants ==
  /\ {PageBytes, BitsPerChunk, ChunkBytes} \subseteq Nat \ {0}
  /\ \A m \in MemoryMaps :
       /\ Len(m) \in Nat \ {0} /\ DOMAIN m = 1..Len(m)
       /\ \A i \in DOMAIN m :
            /\ m[i].start \in Nat /\ m[i].len \in Nat /\ m[i].free \in BOOLEAN
            /\ \A j \in DOMAIN m \ {i} :
                 EndOf(m[i]) <= m[j].start \/ EndOf(m[j]) <= m[i].start

(* page_aligned_start_end_address; an empty interval stands for None.      *)
RoundedDown(r) ==
  [lo |-> ShiftDown(r.start),
   hi |-> IF r.free THEN ShiftDown(EndOf(r)) ELSE ShiftUp(EndOf(r))]
Aligned(r) ==
  IF r.free THEN [lo |-> ShiftUp(r.start), hi |-> ShiftDown(EndOf(r))]
  ELSE [lo |-> ShiftDown(r.start), hi |-> ShiftUp(EndOf(r))]
PagesOf(r) == (Aligned(r).lo \div PageBytes)..((Aligned(r).hi \div PageBytes) - 1)

RegionEnds == {EndOf(regions[i]) : i \in DOMAIN regions}
TotalMemory == CHOOSE e \in RegionEnds : \A f \in RegionEnds : f <= e
BitmapBits == DivUp(TotalMemory, PageBytes)
Bits(n) == 0..(n * BitsPerChunk - 1)

(* bitmap_bytes of the code: the number of chunks.                         *)
BitmapBytes == DivUp(BitmapBits, BitsPerChunk)

Holds(r) == /\ r.free
            /\ Aligned(r).lo < Aligned(r).hi
            /\ BitmapBytes <= Aligned(r).hi - Aligned(r).lo
Candidates == {i \in DOMAIN regions : Holds(regions[i])}

Place ==
  /\ bootPc = "place"
  /\ IF Candidates = {} THEN bootPc' = "panic" /\ UNCHANGED <<bitmapStart, chunks>>
     ELSE /\ \E i \in Candidates :
               /\ \A j \in Candidates : i <= j
               /\ bitmapStart' = Aligned(regions[i]).lo
          /\ chunks' = BitmapBytes
          /\ bootPc' = "fill"
  /\ UNCHANGED <<regions, nextRegion, usedBits>>

FillAll == Bits(chunks)
Fill ==
  /\ bootPc = "fill"
  /\ usedBits' = FillAll
  /\ bootPc' = "free"
  /\ UNCHANGED <<regions, bitmapStart, chunks, nextRegion>>

(* mark_unused: the bit must exist and be set.                             *)
FreeRegion ==
  /\ bootPc = "free" /\ nextRegion <= Len(regions)
  /\ LET pages == IF regions[nextRegion].free THEN PagesOf(regions[nextRegion]) ELSE {} IN
     IF pages \subseteq usedBits
     THEN usedBits' = usedBits \ pages /\ UNCHANGED bootPc
     ELSE bootPc' = "panic" /\ UNCHANGED usedBits
  /\ nextRegion' = nextRegion + 1
  /\ UNCHANGED <<regions, bitmapStart, chunks>>

FreeDone == /\ bootPc = "free" /\ nextRegion > Len(regions)
            /\ bootPc' = "reserve"
            /\ UNCHANGED <<regions, bitmapStart, chunks, nextRegion, usedBits>>

BitmapRegion == [start |-> bitmapStart, len |-> chunks, free |-> FALSE]

(* mark_used: the bits must exist and be clear.                            *)
Reserve ==
  /\ bootPc = "reserve"
  /\ LET pages == PagesOf(BitmapRegion) IN
     IF pages \cap usedBits = {} /\ pages \subseteq Bits(chunks)
     THEN usedBits' = usedBits \cup pages /\ bootPc' = "done"
     ELSE bootPc' = "panic" /\ UNCHANGED usedBits
  /\ UNCHANGED <<regions, bitmapStart, chunks, nextRegion>>

BootStopped == bootPc \in {"done", "panic"} /\ UNCHANGED bootVars

BootInit ==
  /\ regions \in MemoryMaps
  /\ bootPc = "place" /\ bitmapStart = 0 /\ chunks = 0 /\ nextRegion = 1 /\ usedBits = {}

BootNext == Place \/ Fill \/ FreeRegion \/ FreeDone \/ Reserve \/ BootStopped

BootSpec == BootInit /\ [][BootNext]_bootVars

-----------------------------------------------------------------------------
BytesOf(page) == (page * PageBytes)..((page + 1) * PageBytes - 1)
FreeRegions == {regions[i] : i \in {k \in DOMAIN regions : regions[k].free}}
Within(p, r) == BytesOf(p) \subseteq r.start..(EndOf(r) - 1)

(* Where the u64s of the bitmap are: from_raw_parts_mut takes the number   *)
(* the code computes as a number of u64s.  What the code takes back from   *)
(* the allocator is as many bytes.                                         *)
BitmapMemory == bitmapStart..(bitmapStart + chunks * ChunkBytes - 1)
TakenBack == bitmapStart..(bitmapStart + chunks - 1)

(* "We need to ensure that the pages the bitmap is located in are marked   *)
(* as used in the bitmap" (bootstrap.rs:63-64).  The code does not once    *)
(* the u64s need more pages than their number of bytes does, from 128 MiB  *)
(* on with the pages of the machine.                                       *)
BitmapReserved ==
  bootPc = "done" => \A p \in Bits(chunks) \ usedBits : BytesOf(p) \cap BitmapMemory = {}

(* A memory map whose regions do not overlap is never refused by an assert *)
(* of mark_used or mark_unused: the panic is only the missing place for    *)
(* the bitmap.  The bitmap has a bit for every page of the map.  In the    *)
(* end the allocator may hand out exactly the pages that lie in a free     *)
(* region with every byte and in which nothing was taken back: rounding,   *)
(* holes and the tail of the last chunk all go the safe way.  The bitmap's *)
(* own memory is safe as long as it fits the pages taken back.             *)
FirstBitmapRight ==
  /\ bootPc = "panic" => Candidates = {}
  /\ chunks > 0 => \A i \in DOMAIN regions : PagesOf(regions[i]) \subseteq Bits(chunks)
  /\ bootPc = "done" =>
       \A p \in Bits(chunks) :
         p \notin usedBits <=> /\ \E r \in FreeRegions : Within(p, r)
                              /\ BytesOf(p) \cap TakenBack = {}
  /\ chunks * ChunkBytes <= ShiftUp(chunks) => BitmapReserved

(* The invariant behind it: what is free after each region of the loop.    *)
FreedBy(n) == UNION {PagesOf(regions[i]) : i \in {k \in 1..n : regions[k].free}}

BootInv ==
  /\ regions \in MemoryMaps
  /\ bootPc \in {"place", "fill", "free", "reserve", "done", "panic"}
  /\ bootPc = "panic" => Candidates = {}
  /\ bootPc \in {"place", "fill"} => nextRegion = 1
  /\ bootPc \in {"place", "panic"} => chunks = 0
  /\ bootPc \in {"fill", "free", "reserve", "done"} =>
       /\ chunks = BitmapBytes
       /\ \E i \in Candidates : bitmapStart = Aligned(regions[i]).lo
  /\ bootPc = "free" =>
       /\ nextRegion \in 1..(Len(regions) + 1)
       /\ usedBits = Bits(chunks) \ FreedBy(nextRegion - 1)
  /\ bootPc = "reserve" => usedBits = Bits(chunks) \ FreedBy(Len(regions))
  /\ bootPc = "done" =>
       usedBits = (Bits(chunks) \ FreedBy(Len(regions))) \cup PagesOf(BitmapRegion)
=============================================================================
