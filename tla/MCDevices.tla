------------------------------ MODULE MCDevices ------------------------------
(***************************************************************************)
(* Machines with a few PCI functions (part "machine"), and the BARs of one *)
(* function, which firmware programs in any order (part "bars").           *)
(*                                                                         *)
(* A function is laid out like one of QEMU's: the structures of a VirtIO   *)
(* device lie in a 64-bit BAR 4, its MSI-X table and pending bits in one   *)
(* page of a 32-bit BAR 1.                                                 *)
(***************************************************************************)
EXTENDS VirtioInit

At(bus, dev, fn) == bus * 1048576 + dev * 32768 + fn * 4096

Cap(next, type, offset, length) ==
  [id |-> 9, next |-> next, cfgType |-> type, bar |-> 4, offset |-> offset,
   length |-> length, capLen |-> IF type = 2 THEN 20 ELSE 16,
   multiplier |-> 4]

(* MSI-X, a PCI access capability, the four structures, and a second,      *)
(* less preferred notification structure.                                  *)
Caps == (64  :> [id |-> 17, next |-> 84, tableSize |-> 1, table |-> 1, pba |-> 2049])
     @@ (84  :> Cap(104, 5, 0, 0))
     @@ (104 :> Cap(124, 2, 12288, 4096))
     @@ (124 :> Cap(144, 4, 8192, 4096))
     @@ (144 :> Cap(164, 3, 4096, 4096))
     @@ (164 :> Cap(184, 1, 0, 4096))
     @@ (184 :> Cap(0, 2, 16384, 4096))

Features == {1, 2, 9, 12, 28, 29, 32, 38}

Device(id, bar4, size) ==
  [vendor |-> 6900, device |-> id, header |-> 0, hasCaps |-> TRUE,
   capPtr |-> 64, caps |-> Caps,
   bars |-> <<0, 1073741824, 0, 0, bar4 + 12, 8>>,
   offered |-> Features, accepts |-> Features, numQueues |-> 2,
   queueSize |-> size, notifyOff |-> 3, refusesVector |-> FALSE, leftBy |-> {"ACKNOWLEDGE", "DRIVER"}]

RngAt(a, size) == a :> Device(4164, 65536, size)
BlockAt(a, n, size) == a :> Device(4162, 65536 * n, size)
Net == Device(4161, 65536 * 9, 256)
Bridge == [vendor |-> 32902, device |-> 1, header |-> 129]

(* The entropy device is the second function of a device, one block device *)
(* is on the second bus, and other functions lie in between.               *)
Healthy ==
  { (At(0, 0, 0) :> Bridge) @@ RngAt(At(0, 0, 1), 8) @@ BlockAt(At(0, 1, 0), 2, 256)
      @@ (At(1, 0, 0) :> Net) @@ BlockAt(At(1, 1, 1), 3, 512),
    RngAt(At(1, 1, 1), 512) @@ BlockAt(At(0, 0, 0), 2, 1) }

Broken(d) ==
  { [d EXCEPT !.header = 1],
    [d EXCEPT !.header = 2],
    [d EXCEPT !.hasCaps = FALSE],
    [d EXCEPT !.capPtr = 184],
    [d EXCEPT !.caps[164].cfgType = 7],
    [d EXCEPT !.caps[104].bar = 5],
    [d EXCEPT !.bars = <<0, 1073741824, 0, 0, 49153, 0>>],
    [d EXCEPT !.bars = <<0, 0, 0, 0, 65548, 8>>],
    [d EXCEPT !.caps[84] = Cap(104, 8, 0, 4096)],
    [d EXCEPT !.caps[64].id = 1],
    [d EXCEPT !.accepts = {32}],
    [d EXCEPT !.numQueues = 0],
    [d EXCEPT !.queueSize = 0],
    [d EXCEPT !.queueSize = 6],
    [d EXCEPT !.queueSize = 32768],
    [d EXCEPT !.refusesVector = TRUE] }

AnyMachine ==
  Healthy \cup {BlockAt(At(0, 0, 0), 2, 8) @@ (At(1, 0, 1) :> d) :
                  d \in Broken(Device(4162, 65536 * 3, 8))}

-----------------------------------------------------------------------------
CONSTANT RawBars   \* values firmware leaves in a BAR

VARIABLES part, bars

DevicesInit ==
  /\ Init /\ bars = <<0, 0, 0, 0, 0, 0>>
  /\ \/ part = "machine"
     \/ part = "bars" /\ machine = CHOOSE m \in Machines : TRUE

(* Firmware writes one register.                                           *)
ProgramBar == \E i \in 1..6, raw \in RawBars : bars' = [bars EXCEPT ![i] = raw]

DevicesNext ==
  \/ part = "machine" /\ Next /\ UNCHANGED <<part, bars>>
  \/ part = "bars" /\ ProgramBar /\ UNCHANGED <<part, vars>>

(* The bootstrap CPU does nothing else while it scans.                     *)
DevicesSpec ==
  DevicesInit /\ [][DevicesNext]_<<part, bars, vars>> /\ WF_vars(part = "machine" /\ Cpu)

-----------------------------------------------------------------------------
(* On a machine whose devices are in order the bootstrap CPU gets through  *)
(* the scan of lib.rs with every device registered, also when a device     *)
(* fails meanwhile.                                                        *)
MachineComesUp ==
  part = "machine" /\ machine \in Healthy => <>(pc = "done" /\ Driven \subseteq Registered)

(* The lower half of a 64-bit BAR is the register before, so register i is *)
(* an upper half iff an odd number of registers with the 64-bit type bits  *)
(* precede it without a gap.                                               *)
IsUpperHalf(i) ==
  \E k \in 1..(i - 1) : /\ k % 2 = 1
                        /\ \A j \in (i - k)..(i - 1) : Is64(bars[j])
                        /\ i - k = 1 \/ ~Is64(bars[i - k - 1])

Undecodable(i) ==
  /\ ~IsUpperHalf(i)
  /\ \/ Bits(bars[i], 0, 3) \in {2, 6}
     \/ Is64(bars[i]) /\ i = 6

(* BARAddresses::interpreted: whatever the registers hold, every register  *)
(* that starts a BAR is decoded to the address it encodes, every upper     *)
(* half to nothing although it may look like a BAR of its own, and the     *)
(* code panics exactly when some BAR has reserved type bits or lacks its   *)
(* upper half.                                                             *)
BarsDecoded ==
  IF \E i \in 1..6 : Undecodable(i) THEN InterpretPanics(bars)
  ELSE \A i \in 1..6 :
    Interpreted(bars)[i] =
      IF bars[i] = 0 \/ IsUpperHalf(i) THEN None
      ELSE IF bars[i] % 2 = 1 THEN [kind |-> "IO", addr |-> <<0, (bars[i] \div 4) * 4>>]
      ELSE IF Is64(bars[i])
      THEN [kind |-> "Mem64", addr |-> <<bars[i + 1], (bars[i] \div 16) * 16>>]
      ELSE [kind |-> "Mem32", addr |-> <<0, (bars[i] \div 16) * 16>>]
=============================================================================
