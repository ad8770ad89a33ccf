-------------------------- MODULE MCAddressSpaces --------------------------
(***************************************************************************)
(* Two CPUs and their tasks: address spaces with programs (part "tasks"),  *)
(* with a task that execs every kind of file (part "files") or with        *)
(* regions of devices (part "regions"), and the way to user mode and back  *)
(* (part "modes").  A behaviour is one of its part.                        *)
(***************************************************************************)
EXTENDS UserEntry, TLC

CONSTANTS
  SpaceTask, FileTask, Ram, PAGE_SIZE, KERNEL_STACK_SIZE_PAGES, MAX_KERNEL_STACKS, HEAP_PAGES,
  USER_STACK_START, USER_STACK_PAGES,
  TableSize,           \* entries of a table
  TableSizeRegions     \* the same with regions: one more entry for the direct map

VARIABLES
  part,
  up, mem, free, stacks, life, slot, root, todo, image, on, making, cr3, tlb, mapped, panic

spaceVars == <<up, mem, free, stacks, life, slot, root, todo, image, on, making, cr3, tlb,
               mapped, panic>>
allVars == <<part, spaceVars, vars>>

Segment(vaddr, memsz, flags) ==
  [type |-> "PT_LOAD", paddr |-> vaddr, vaddr |-> vaddr, memsz |-> memsz,
   flags |-> flags, align |-> PAGE_SIZE]

Program(segments) ==
  [type |-> "ET_EXEC", machine |-> "EM_X86_64", segments |-> segments]

SmallProgram == Program(<<Segment(4, 5, {"READABLE", "EXECUTABLE"})>>)

\* Text and data in two pages of one table, the shape of the programs under
\* userspace/, with a note, and a segment that nobody may read, so that its page
\* ends up not present.  The parser refuses the other file.
Files ==
  {Program(<<Segment(4, 2, {"READABLE", "EXECUTABLE"}),
             [Segment(4, 4, {"EXECUTABLE"}) EXCEPT !.type = "PT_NOTE"],
             Segment(8, 3, {"READABLE", "WRITABLE"}),
             Segment(12, 4, {"EXECUTABLE"})>>),
   Program(<<[Segment(4, 4, {}) EXCEPT !.paddr = 8]>>)}

\* A region the loader's direct map covers, and one in the range of the next
\* top-level entry.
Regions ==
  {[address |-> 140, offset |-> 0, size |-> 3],
   [address |-> TableSizeRegions^3 * PAGE_SIZE, offset |-> 4, size |-> 5]}

Tasks == INSTANCE AddressSpaces WITH
           N <- TableSize, Task <- SpaceTask \cup CPU, cur <- on,
           Executables <- {SmallProgram}, BarRegions <- {}
Exec == INSTANCE AddressSpaces WITH
          N <- TableSize, Task <- {FileTask} \cup CPU, cur <- on,
          Executables <- Files, BarRegions <- {}
Devices == INSTANCE AddressSpaces WITH
             N <- TableSizeRegions, Task <- SpaceTask \cup CPU, cur <- on, Executables <- {},
             BarRegions <- Regions

MCInit ==
  /\ Init
  /\ \/ part \in {"tasks", "modes"} /\ Tasks!Init
     \/ part = "files" /\ Exec!Init
     \/ part = "regions" /\ Devices!Init

MCNext ==
  /\ \/ part = "tasks" /\ Tasks!Next /\ UNCHANGED vars
     \/ part = "files" /\ Exec!Next /\ UNCHANGED vars
     \/ part = "regions" /\ Devices!Next /\ UNCHANGED vars
     \/ part = "modes" /\ Next /\ UNCHANGED spaceVars
  /\ UNCHANGED part

MCSpec == MCInit /\ [][MCNext]_allVars

MCSymmetry == Permutations(CPU) \cup Permutations(SpaceTask)

-----------------------------------------------------------------------------
(* The properties of AddressSpaces, of its parts; the one of UserEntry is  *)
(* taken as it is.                                                         *)
\* No frame of physical memory has two uses (Level4PageTable, KernelStack).
FramesOwnedOnce ==
  /\ part = "tasks" => Tasks!FramesOwnedOnce
  /\ part = "files" => Exec!FramesOwnedOnce
  /\ part = "regions" => Devices!FramesOwnedOnce

\* No CPU uses a translation that its table has no more (page.flush()).
NoStaleTranslation ==
  /\ part = "tasks" => Tasks!NoStaleTranslation
  /\ part = "files" => Exec!NoStaleTranslation
  /\ part = "regions" => Devices!NoStaleTranslation

\* The kernel's half is right and shared by all (fill_top_half_entries).
KernelHalfShared ==
  /\ part = "tasks" => Tasks!KernelHalfShared
  /\ part = "files" => Exec!KernelHalfShared
  /\ part = "regions" => Devices!KernelHalfShared

\* User code reaches its segments, as their headers say, its stack, and nothing
\* of the kernel (set_up_elf_segments).
UserAccess ==
  /\ part = "tasks" => Tasks!UserAccess
  /\ part = "files" => Exec!UserAccess
============================================================================
