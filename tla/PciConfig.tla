------------------------------ MODULE PciConfig ------------------------------
(***************************************************************************)
(* What the kernel reads out of the configuration space of a PCI function: *)
(* where the space of a function lies, the layout of its header, its base  *)
(* address registers (BARs), the list of its capabilities and its MSI-X    *)
(* tables.  Pure operators; VirtioInit is the code that uses them.         *)
(*                                                                         *)
(* A function is a record of its registers: vendor, device, header,        *)
(* hasCaps, capPtr, caps (a function from offsets in the space to          *)
(* capability records) and bars (six raw registers).  A 64-bit address is  *)
(* a pair <<hi, lo>> of 32-bit halves.  A panic of the code is the result  *)
(* Panicked.                                                               *)
(***************************************************************************)
EXTENDS Integers, Sequences, SequencesExt, FiniteSets

CONSTANTS Panicked,   \* the code panics
          None        \* Option::None

Page4K == 4096
Bits(x, low, width) == (x \div 2^low) % 2^width
ClearLow(x, width) == x - (x % 2^width)

-----------------------------------------------------------------------------
(* Offset of a function's space in the ECAM region; the three numbers do   *)
(* not overlap, so the bitwise or is a sum.                                *)
DeviceBaseAddress(bus, device, function) ==
  bus * 2^20 + device * 2^15 + function * 2^12

LayoutOf(code) ==
  CASE code = 0 -> "GeneralDevice"
    [] code = 1 -> "PCIToPCIBridge"
    [] OTHER    -> Panicked
Layout(headerType) == LayoutOf(Bits(headerType, 0, 3))

-----------------------------------------------------------------------------
(* BARAddresses::interpreted.  One pass from the first register; a 64-bit  *)
(* register consumes the next one.  The results are in register order,     *)
(* None for a register that is not implemented or is an upper half.        *)
IsMem(raw)   == Bits(raw, 0, 1) = 0
Is64(raw)    == raw # 0 /\ IsMem(raw) /\ Bits(raw, 1, 2) = 2
Mem32(raw)   == [kind |-> "Mem32", addr |-> <<0, ClearLow(raw, 4)>>]
Mem64(raw, upper) == [kind |-> "Mem64", addr |-> <<upper, ClearLow(raw, 4)>>]
IoPort(raw)  == [kind |-> "IO", addr |-> <<0, ClearLow(raw, 2)>>]

NextAfter64KeepsUpper(i) == i + 1
NextAfter64(i) == i + 2

Interpreted(bars) ==
  LET N == Len(bars)
      From[i \in 1..(N + 2)] ==
        IF i > N THEN [j \in 1..N |-> None]
        ELSE LET raw == bars[i] IN
             CASE raw = 0 -> From[i + 1]
               [] raw # 0 /\ IsMem(raw) /\ Bits(raw, 1, 2) = 0 ->
                    [From[i + 1] EXCEPT ![i] = Mem32(raw)]
               [] Is64(raw) /\ i < N ->
                    [From[NextAfter64(i)] EXCEPT ![i] = Mem64(raw, bars[i + 1])]
               [] ~IsMem(raw) ->
                    [From[i + 1] EXCEPT ![i] = IoPort(raw)]
               [] OTHER -> [j \in 1..N |-> [kind |-> "panic"]]
  IN  From[1]

(* Interpreted panics when it meets a register it cannot decode; entries   *)
(* decoded before that one do not matter then.                             *)
InterpretPanics(bars) ==
  \E i \in DOMAIN bars : Interpreted(bars)[i] # None
                            /\ Interpreted(bars)[i].kind = "panic"

Bar(bars, idx) ==
  IF \/ InterpretPanics(bars)
     \/ idx >= Len(bars)
     \/ Interpreted(bars)[idx + 1] = None
  THEN Panicked
  ELSE Interpreted(bars)[idx + 1]

(* bar_region_physical_address: the start of the region and the pages it   *)
(* identity-maps, or a panic for an I/O BAR.                               *)
DivCeil(n, d) == (n + d - 1) \div d
PagesFrom(addr, num) ==
  {<<addr[1], (addr[2] \div Page4K) + k>> : k \in 0..(num - 1)}
BarRegion(bars, idx, offset, size) ==
  LET bar == Bar(bars, idx) IN
  IF bar = Panicked \/ bar.kind = "IO" THEN Panicked
  ELSE LET addr == <<bar.addr[1], bar.addr[2] + offset>>
       IN  [addr |-> addr, pages |-> PagesFrom(addr, DivCeil(size, Page4K))]

-----------------------------------------------------------------------------
(* Capabilities.  iter_capabilities follows the next pointers from the     *)
(* capability pointer until it reads 0; Walk gives the offsets in order.   *)
(* The iterator would not end on a list that comes back to itself, which   *)
(* WalkEnds excludes.                                                      *)
VendorSpecificId == 9
MsixId == 17

NextCapability(fn, ptr) == fn.caps[ptr].next
Walk(fn) ==
  LET From[n \in 0..Cardinality(DOMAIN fn.caps), ptr \in {0} \cup DOMAIN fn.caps] ==
        IF n = 0 \/ ptr = 0 THEN << >>
        ELSE <<ptr>> \o From[n - 1, NextCapability(fn, ptr)]
  IN  From[Cardinality(DOMAIN fn.caps), fn.capPtr]
WalkEnds(fn) == fn.capPtr # 0 => NextCapability(fn, Last(Walk(fn))) = 0
IterCapabilities(fn) == IF fn.hasCaps THEN Walk(fn) ELSE << >>

Capability(cap) ==
  CASE cap.id = MsixId           -> "MSIX"
    [] cap.id = VendorSpecificId -> "VendorSpecific"
    [] OTHER                     -> "Other"

(* MSIXConfig::new on the first MSI-X capability: the size of the table,   *)
(* its address, and the pages mapped for the table and the pending bits.   *)
TableEntryBytes == 16
PbaEntryBytes == 8
TableSize(cap) == cap.tableSize + 1
Bir(raw)       == Bits(raw, 0, 3)
TableOffset(raw) == ClearLow(raw, 3)

MsixCapabilities(fn) ==
  SelectSeq(IterCapabilities(fn), LAMBDA p : Capability(fn.caps[p]) = "MSIX")

MsixConfigOf(fn, cap) ==
  LET table == BarRegion(fn.bars, Bir(cap.table), TableOffset(cap.table),
                         TableSize(cap) * TableEntryBytes)
      pba   == BarRegion(fn.bars, Bir(cap.pba), TableOffset(cap.pba),
                         TableSize(cap) * PbaEntryBytes)
  IN  IF table = Panicked \/ pba = Panicked THEN Panicked
      ELSE [size |-> TableSize(cap), addr |-> table.addr,
            pages |-> table.pages \cup pba.pages]

MsixConfig(fn) ==
  IF MsixCapabilities(fn) = << >> THEN None
  ELSE MsixConfigOf(fn, fn.caps[Head(MsixCapabilities(fn))])

(* MSIXTable::entry: the address of an entry of the table.                 *)
TableEntry(msix, index) ==
  IF index >= msix.size THEN Panicked
  ELSE <<msix.addr[1], msix.addr[2] + index * TableEntryBytes>>
=============================================================================
