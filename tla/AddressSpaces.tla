--------------------------- MODULE AddressSpaces ---------------------------
(***************************************************************************)
(* The address spaces of the kernel and of its tasks: the boot of memory   *)
(* (memory/mod.rs, mapping.rs, heap.rs), kernel stacks (sched/stack.rs),   *)
(* the page tables of tasks (sched/task.rs), loading of ELF files          *)
(* (sched/userspace.rs, elf.rs) and the mapping of PCI regions             *)
(* (pci/device.rs), on the page tables of PageTable.                       *)
(*                                                                         *)
(* Every CPU has a TLB.  page.flush() drops a page from the TLB of the CPU *)
(* that calls it only, a load of CR3 drops everything: whether a stale     *)
(* translation can be used is a question about all CPUs.  Addresses are    *)
(* bytes, PAGE_SIZE of them to a page; virtual pages are laid out as the   *)
(* table at the head of mapping.rs: the direct map, the heap in the last   *)
(* but one top-level entry and the stacks in the last.                     *)
(***************************************************************************)
EXTENDS PageTable

CONSTANTS
  CPU,
  Task,              \* ids Tasks::new_task can hand out; a CPU's name is the
                     \* id of its idle task
  Ram,               \* frames the physical allocator starts with
  PAGE_SIZE,
  KERNEL_STACK_SIZE_PAGES,
  MAX_KERNEL_STACKS,
  HEAP_PAGES,        \* HEAP_SIZE in pages
  USER_STACK_START,  \* stack_start of set_up_elf_segments, as a page
  USER_STACK_PAGES,
  Executables,       \* what ElfBytes parses the files of the tasks to
  BarRegions         \* regions of PCI devices that capabilities ask for

NoTask == 0          \* boot code, which is no task
KernelRoot == 1      \* KERNEL_PAGE_TABLE, the table CR3 holds at boot
NoSlot == -1

VARIABLES
  up,        \* memory::init has run
  mem, free, \* physical memory, the allocator's free frames
  stacks,    \* the slots KERNEL_STACK_ALLOCATOR has handed out
  life,      \* "none", "stack" (in Task::new), "ready", "exec", "user",
             \* "dead", "gone"
  slot,      \* Task::kernel_stack
  root,      \* Task::page_table
  todo,      \* segments set_up_elf_segments has yet to map
  image,     \* user pages that are set up, with the flags they asked for
  cur,       \* the task every CPU runs
  making,    \* the task Task::new is building on the CPU, or NoTask
  cr3, tlb,
  mapped,    \* BAR regions a driver has asked for
  panic

memory == <<mem, free>>
tasks == <<life, slot, root, todo, image>>
cpus == <<cur, cr3>>
vars == <<up, memory, stacks, tasks, cpus, making, tlb, mapped, panic>>

-----------------------------------------------------------------------------
(* Layout *)

KERNEL_PHYSICAL_MAPPING_START == (N \div 2) * PageSize(4)
KERNEL_HEAP_REGION_START == (N - 2) * PageSize(4)
KERNEL_STACK_REGION_START == (N - 1) * PageSize(4)

StackStart(k) == KERNEL_STACK_REGION_START + k * KERNEL_STACK_SIZE_PAGES

PhysicallyMappedPages(k) ==
  PageRange(StackStart(k) + 1, KERNEL_STACK_SIZE_PAGES - 1)

IsKernelGuardPage(page) ==
  /\ page >= KERNEL_STACK_REGION_START
  /\ page < KERNEL_STACK_REGION_START
             + MAX_KERNEL_STACKS * KERNEL_STACK_SIZE_PAGES
  /\ (page - KERNEL_STACK_REGION_START) % KERNEL_STACK_SIZE_PAGES = 0

\* PageRange::from_num_bytes
PagesFor(numBytes) == (numBytes + PAGE_SIZE - 1) \div PAGE_SIZE

KernelFlags == {"PRESENT", "WRITABLE"}
UserFlags == {"PRESENT", "WRITABLE", "USER_ACCESSIBLE"}

-----------------------------------------------------------------------------
(* The TLB *)

\* page.flush() of map_to, set_flags and unmap, for every page of a range.
Flush(cached, pages) == {e \in cached : e.page \notin Range(pages)}

\* The CPU uses the pages: what it has no translation of, it looks up.
Touch(cached, m, table, pages) ==
  cached \cup UNION {{[page |-> p, frame |-> x.frame, flags |-> x.flags] :
                        x \in TranslateAddress(m, table, p)} :
                      p \in {q \in Range(pages) :
                               ~\E e \in cached : e.page = q}}

-----------------------------------------------------------------------------
(* Boot *)

St == [mem |-> mem, free |-> free, res |-> "Ok"]

\* memory::init on the boot CPU: mapping, clean_up_kernel_page_table, heap.
MemoryInit ==
  /\ ~up
  /\ LET s == AllocateAndMapPages(
                FillTopHalfEntries(UnmapLowerHalf(St, KernelRoot), KernelRoot),
                KernelRoot, PageRange(KERNEL_HEAP_REGION_START, HEAP_PAGES),
                KernelFlags)
     IN mem' = s.mem /\ free' = s.free /\ panic' = (s.res # "Ok")
  /\ up' = TRUE
  /\ UNCHANGED <<stacks, tasks, cpus, making, tlb, mapped>>

-----------------------------------------------------------------------------
(* Kernel stacks and tasks *)

Running(c) == up /\ ~panic /\ making[c] = NoTask

\* Task::new up to allocate_stack; TASKS is locked and interrupts are off
\* until the task is complete, so that the CPU does nothing else.  A CPU makes
\* its idle task first (per_cpu_init); when all have (NUM_CPUS_BOOTSTRAPPED),
\* the boot code makes the first other task.
AllocateStack(c, t) ==
  /\ Running(c) /\ life[t] = "none"
  /\ \A d \in CPU : making[d] = NoTask
  /\ IF t \in CPU THEN t = c
     ELSE /\ \A d \in CPU : life[d] = "ready"
          /\ cur[c] = NoTask => \A u \in Task \ CPU : life[u] = "none"
  /\ cur[c] # NoTask => life[cur[c]] # "dead"
  /\ LET open == (0..MAX_KERNEL_STACKS - 1) \ stacks
         k == Min(open)
         s == AllocateAndMapPages(St, KernelRoot, PhysicallyMappedPages(k),
                                  KernelFlags)
         guard == Unmap(St, KernelRoot, StackStart(k), FALSE)
     IN IF open = {} \/ guard.res # "PageNotMapped" \/ s.res # "Ok"
        THEN panic' = TRUE /\ UNCHANGED <<memory, stacks, tasks, making, tlb>>
        ELSE /\ mem' = s.mem /\ free' = s.free
             /\ stacks' = stacks \cup {k}
             /\ tlb' = [tlb EXCEPT ![c] =
                  Touch(Flush(@, PhysicallyMappedPages(k)), s.mem,
                        cr3[c], PhysicallyMappedPages(k))]
             /\ slot' = [slot EXCEPT ![t] = k]
             /\ life' = [life EXCEPT ![t] = "stack"]
             /\ making' = [making EXCEPT ![c] = t]
             /\ UNCHANGED <<root, todo, image, panic>>
  /\ UNCHANGED <<up, cpus, mapped>>

\* ... and clone_kernel_page_table.
CloneTable(c) ==
  /\ ~panic /\ making[c] # NoTask
  /\ LET s == AllocateClone(St, KernelRoot)
     IN IF s.res # "Ok"
        THEN panic' = TRUE /\ UNCHANGED <<memory, life, root, making>>
        ELSE /\ mem' = s.mem /\ free' = s.free
             /\ root' = [root EXCEPT ![making[c]] = AllocatePage(free)]
             /\ life' = [life EXCEPT ![making[c]] = "ready"]
             /\ making' = [making EXCEPT ![c] = NoTask]
             /\ UNCHANGED panic
  /\ UNCHANGED <<up, stacks, slot, todo, image, cpus, tlb, mapped>>

\* Mutant of TlbAfterSwitch: CR3 is not loaded again.
TlbKept(cached) == cached

\* mov cr3 empties the TLB, also when the task is the same.
TlbAfterSwitch(cached) == {}

\* switch_to_task; the registers of t are popped from its stack.
LoadTask(c, t) ==
  /\ cur' = [cur EXCEPT ![c] = t]
  /\ cr3' = [cr3 EXCEPT ![c] = root[t]]
  /\ tlb' = [tlb EXCEPT ![c] =
       Touch(TlbAfterSwitch(@), mem, root[t], PhysicallyMappedPages(slot[t]))]
  /\ UNCHANGED <<up, memory, stacks, tasks, making, mapped, panic>>

StartScheduler(c) ==
  /\ Running(c) /\ cur[c] = NoTask /\ life[c] = "ready"
  /\ LoadTask(c, c)

SwitchToTask(c, t) ==
  /\ Running(c) /\ cur[c] # NoTask
  /\ t \in CPU => t = c
  /\ life[t] \in {"ready", "exec", "user"} /\ \A d \in CPU : cur[d] # t
  /\ LoadTask(c, t)

UserPages(t) == {x.page : x \in image[t]}

\* The task uses its stack, and its memory once it runs in user mode.
UseMemory(c) ==
  /\ Running(c) /\ cur[c] # NoTask
  /\ tlb' = [tlb EXCEPT ![c] =
       Touch(@, mem, cr3[c], PhysicallyMappedPages(slot[cur[c]])
                             \o SetToSeq(UserPages(cur[c])))]
  /\ UNCHANGED <<up, memory, stacks, tasks, cpus, making, mapped, panic>>

\* The idle tasks never return.
RunsOrdinaryTask(c) == Running(c) /\ cur[c] \in Task \ CPU

ExitTask(c) ==
  /\ RunsOrdinaryTask(c) /\ life[cur[c]] \in {"ready", "user"}
  /\ life' = [life EXCEPT ![cur[c]] = "dead"]
  /\ UNCHANGED <<up, memory, stacks, slot, root, todo, image, cpus, making, tlb,
                 mapped, panic>>

\* The last Arc of the task goes: KernelStack::drop.  The page table and the
\* user pages have no destructor.
DropTask(c, t) ==
  /\ Running(c) /\ life[t] = "dead" /\ \A d \in CPU : cur[d] # t
  /\ LET Free(s, p) == Unmap(s, KernelRoot, p, TRUE)
         s == ForEach(St, PhysicallyMappedPages(slot[t]), Free)
     IN /\ mem' = s.mem /\ free' = s.free /\ panic' = (s.res # "Ok")
        /\ tlb' = [tlb EXCEPT ![c] = Flush(@, PhysicallyMappedPages(slot[t]))]
  /\ stacks' = stacks \ {slot[t]}
  /\ life' = [life EXCEPT ![t] = "gone"]
  /\ slot' = [slot EXCEPT ![t] = NoSlot]
  /\ UNCHANGED <<up, root, todo, image, cpus, making, mapped>>

-----------------------------------------------------------------------------
(* ELF files *)

LoadableSegments(exe) ==
  SelectSeq(exe.segments, LAMBDA h : h.type = "PT_LOAD")

\* ElfExecutableHeader::parse
ParseOk(exe) ==
  /\ exe.type = "ET_EXEC" /\ exe.machine = "EM_X86_64"
  /\ exe.segments # <<>>
  /\ \A h \in Range(LoadableSegments(exe)) :
       /\ h.paddr = 0 \/ h.paddr = h.vaddr
       /\ h.flags \subseteq {"EXECUTABLE", "WRITABLE", "READABLE"}

\* LoadableSegmentFlags::page_table_entry_flags
PageTableEntryFlags(flags) ==
  (IF "EXECUTABLE" \in flags THEN {} ELSE {"NO_EXECUTE"})
  \cup (flags \cap {"WRITABLE"})
  \cup (IF "READABLE" \in flags THEN {"PRESENT"} ELSE {})

\* task_userspace_setup: a file that is no executable ends the task.
ParseElf(c, exe) ==
  /\ RunsOrdinaryTask(c) /\ life[cur[c]] = "ready"
  /\ life' = [life EXCEPT ![cur[c]] = IF ParseOk(exe) THEN "exec" ELSE "dead"]
  /\ todo' = [todo EXCEPT ![cur[c]] =
                IF ParseOk(exe) THEN LoadableSegments(exe) ELSE <<>>]
  /\ UNCHANGED <<up, memory, stacks, slot, root, image, cpus, making, tlb,
                 mapped, panic>>

\* The pages are mapped and flushed, filled, and flushed with their last flags.
SegmentTlb(cached, m, table, pages) ==
  Flush(Touch(Flush(cached, pages), m, table, pages), pages)

\* One round of the loop of set_up_elf_segments.
SetUpSegment(c) ==
  /\ RunsOrdinaryTask(c) /\ todo[cur[c]] # <<>>
  /\ LET t == cur[c]
         h == Head(todo[t])
         pages == PageRange(h.vaddr \div PAGE_SIZE, PagesFor(h.memsz))
         flags == PageTableEntryFlags(h.flags) \cup {"USER_ACCESSIBLE"}
         s == AllocateAndMapPages(St, root[t], pages, UserFlags)
         r == SetPageFlags(s, root[t], pages, flags)
     IN /\ panic' = \/ h.align # PAGE_SIZE \/ h.vaddr % PAGE_SIZE # 0
                    \/ r.res # "Ok"
        /\ mem' = r.mem /\ free' = r.free
        /\ tlb' = [tlb EXCEPT ![c] = SegmentTlb(@, s.mem, cr3[c], pages)]
        /\ todo' = [todo EXCEPT ![t] = Tail(@)]
        /\ image' = [image EXCEPT ![t] = @ \cup
             {[page |-> p, flags |-> flags] : p \in Range(pages)}]
  /\ UNCHANGED <<up, stacks, life, slot, root, cpus, making, mapped>>

UserStack == PageRange(USER_STACK_START, USER_STACK_PAGES)

\* After the loop: the user stack, which gets the arguments.
SetUpUserStack(c) ==
  /\ RunsOrdinaryTask(c) /\ life[cur[c]] = "exec" /\ todo[cur[c]] = <<>>
  /\ LET t == cur[c]
         s == AllocateAndMapPages(St, root[t], UserStack, UserFlags)
     IN /\ mem' = s.mem /\ free' = s.free /\ panic' = (s.res # "Ok")
        /\ tlb' = [tlb EXCEPT ![c] =
                     Touch(Flush(@, UserStack), s.mem, cr3[c], UserStack)]
        /\ life' = [life EXCEPT ![t] = "user"]
        /\ image' = [image EXCEPT ![t] = @ \cup
             {[page |-> p, flags |-> UserFlags] : p \in Range(UserStack)}]
  /\ UNCHANGED <<up, stacks, slot, root, todo, cpus, making, mapped>>

-----------------------------------------------------------------------------
(* PCI regions *)

\* bar_region_physical_address: from the page that holds the first byte.
RegionFrames(bar) ==
  PageRange((bar.address + bar.offset) \div PAGE_SIZE, PagesFor(bar.size))

\* The pages of the direct map that map_to has to map for a region.
UnmappedPages(bar) ==
  SelectSeq([i \in DOMAIN RegionFrames(bar) |->
               KERNEL_PHYSICAL_MAPPING_START + RegionFrames(bar)[i]],
            LAMBDA p : TranslateAddress(mem, KernelRoot, p) = {})

MapBarRegion(c, bar) ==
  /\ Running(c) /\ bar \notin mapped
  /\ LET s == IdentityMapPhysicalPages(St, KernelRoot,
                KERNEL_PHYSICAL_MAPPING_START, RegionFrames(bar), KernelFlags)
     IN mem' = s.mem /\ free' = s.free /\ panic' = (s.res # "Ok")
  /\ tlb' = [tlb EXCEPT ![c] = Flush(@, UnmappedPages(bar))]
  /\ mapped' = mapped \cup {bar}
  /\ UNCHANGED <<up, stacks, tasks, cpus, making>>

-----------------------------------------------------------------------------

\* What frames hold before they are used: anything.  Read as a table, every
\* entry is present and leads back to the root.
Garbage == [i \in Index |-> [addr |-> KernelRoot, flags |-> KernelFlags]]

\* The boot loader's table: something in the lower half, and the direct map
\* of RAM as one huge page.
LoaderRoot == 1
LoaderLow == 2
LoaderDirect == 3

LoaderMemory ==
  [f \in Ram \cup {LoaderRoot, LoaderLow, LoaderDirect} |->
     CASE f = LoaderRoot ->
            [ZeroPage EXCEPT
               ![0] = [addr |-> LoaderLow, flags |-> KernelFlags],
               ![N \div 2] = [addr |-> LoaderDirect, flags |-> KernelFlags]]
       [] f \in {LoaderLow, LoaderDirect} ->
            [ZeroPage EXCEPT
               ![0] = [addr |-> 0, flags |-> KernelFlags \cup {"HUGE_PAGE"}]]
       [] OTHER -> Garbage]

Init ==
  /\ up = FALSE /\ panic = FALSE
  /\ mem = LoaderMemory /\ free = Ram
  /\ stacks = {}
  /\ life = [t \in Task |-> "none"]
  /\ slot = [t \in Task |-> NoSlot]
  /\ root = [t \in Task |-> KernelRoot]
  /\ todo = [t \in Task |-> <<>>]
  /\ image = [t \in Task |-> {}]
  /\ cur = [c \in CPU |-> NoTask]
  /\ making = [c \in CPU |-> NoTask]
  /\ cr3 = [c \in CPU |-> KernelRoot]
  /\ tlb = [c \in CPU |-> {}]
  /\ mapped = {}

Next ==
  \/ MemoryInit
  \/ \E c \in CPU :
       \/ CloneTable(c) \/ UseMemory(c) \/ ExitTask(c) \/ SetUpSegment(c)
       \/ SetUpUserStack(c) \/ StartScheduler(c)
       \/ \E t \in Task : AllocateStack(c, t) \/ DropTask(c, t) \/ SwitchToTask(c, t)
       \/ \E exe \in Executables : ParseElf(c, exe)
       \/ \E bar \in BarRegions : MapBarRegion(c, bar)

Spec == Init /\ [][Next]_vars

-----------------------------------------------------------------------------
(* Properties *)

Entry == [addr : Nat, flags : SUBSET Flag]

HasTable(t) == life[t] \in {"ready", "exec", "user", "dead"}

StackPagesOf(k) == Range(PhysicallyMappedPages(k))
AllStacks == UNION {StackPagesOf(k) : k \in stacks}
HeapPages ==
  Range(PageRange(KERNEL_HEAP_REGION_START, HEAP_PAGES))

\* "we are just ensuring these addresses are identity mapped in the page table
\* so they don't fault": every byte of a region that was asked for.
RegionsIdentityMapped ==
  \A bar \in mapped : \A b \in 0..bar.size - 1 :
    LET f == (bar.address + bar.offset + b) \div PAGE_SIZE
    IN \E x \in TranslateAddress(mem, KernelRoot,
                                 KERNEL_PHYSICAL_MAPPING_START + f) :
         x.frame = f

\* The kernel's half is right and is the same for all.  Every stack is backed by
\* writable memory and has a guard page below it, so that a push past its end
\* faults and page_fault_handler can tell; regions of devices are identity
\* mapped; and the table of every task maps all of it as the kernel's table
\* does, also what was mapped after it was cloned (fill_top_half_entries).
KernelHalfShared ==
  ~panic =>
  /\ \A k \in stacks :
       /\ \A p \in StackPagesOf(k) :
            /\ \E x \in TranslateAddress(mem, KernelRoot, p) : x.flags = KernelFlags
            /\ ~IsKernelGuardPage(p)
       /\ TranslateAddress(mem, KernelRoot, StackStart(k)) = {}
       /\ IsKernelGuardPage(StackStart(k))
  /\ RegionsIdentityMapped
  /\ \A p \in AllStacks \cup HeapPages
              \cup {KERNEL_PHYSICAL_MAPPING_START + f :
                      f \in UNION {Range(RegionFrames(b)) : b \in mapped}} :
       LET kernel == TranslateAddress(mem, KernelRoot, p)
       IN \A t \in Task : HasTable(t) => TranslateAddress(mem, root[t], p) = kernel

\* The tables and pages below an entry, the direct map left out.
FramesUnder(table, level, entries) ==
  LET below[l \in 0..4, e \in Entry] ==
        CASE Target(e, l) = "NextTable" ->
               {e.addr} \cup UNION {below[l - 1, mem[e.addr][i]] : i \in Index}
          [] Target(e, l) = "Page" /\ "HUGE_PAGE" \notin e.flags -> {e.addr}
          [] OTHER -> {}
  IN UNION {below[level, mem[table][i]] : i \in entries}

KernelFrames == {KernelRoot} \cup FramesUnder(KernelRoot, 4, UpperHalf)
UserFrames(t) == {root[t]} \cup FramesUnder(root[t], 4, LowerHalf)

\* No frame has two uses: a frame of the free list backs nothing, what backs
\* the memory of one task backs neither the kernel nor another task, and two
\* stacks never share a frame.
FramesOwnedOnce ==
  up =>
  /\ LET kernel == KernelFrames
         tables == {t \in Task : HasTable(t)}
     IN /\ (kernel \cap Ram) \cap free = {}
        /\ \A t \in tables :
             LET user == UserFrames(t)
             IN /\ user \cap (free \cup kernel) = {}
                /\ \A u \in tables \ {t} : user \cap UserFrames(u) = {}
  /\ Cardinality(UNION {TranslateAddress(mem, KernelRoot, p) :
                          p \in AllStacks \cup HeapPages})
       = Cardinality(AllStacks \cup HeapPages)

\* A translation a CPU may use is the one of the table: the TLB flush of map_to
\* and set_flags is local, and that is enough, because a CPU meets memory it
\* did not map only after a load of CR3.
NoStaleTranslation ==
  \A c \in CPU : \A e \in tlb[c] :
    e.page \in (IF making[c] # NoTask THEN StackPagesOf(slot[making[c]]) ELSE {})
               \cup (IF cur[c] # NoTask
                       THEN StackPagesOf(slot[cur[c]]) \cup UserPages(cur[c])
                       ELSE {})
      => TranslateAddress(mem, cr3[c], e.page)
           = {[frame |-> e.frame, flags |-> e.flags]}

\* The entries the processor meets on the way to a page.
Path(table, page) ==
  LET from[level \in 1..4, f \in Nat] ==
        LET e == mem[f][EntryIndex(level, page)]
        IN {e} \cup (IF Target(e, level) = "NextTable"
                       THEN from[level - 1, e.addr] ELSE {})
  IN from[4, table]

\* A segment of an executable is accessible to its task as its program header
\* says and its user stack is readable and writable, at all levels of the
\* table; kernel stacks and heap are not accessible to
\* user code through any table.
UserAccess ==
  \A t \in Task : HasTable(t) /\ ~panic =>
    /\ \A x \in image[t] :
         IF "PRESENT" \in x.flags
           THEN /\ \E y \in TranslateAddress(mem, root[t], x.page) :
                     y.flags = x.flags
                /\ \A e \in Path(root[t], x.page) : "USER_ACCESSIBLE" \in e.flags
                /\ "WRITABLE" \in x.flags =>
                     \A e \in Path(root[t], x.page) : "WRITABLE" \in e.flags
           ELSE TranslateAddress(mem, root[t], x.page) = {}
    /\ \A p \in AllStacks \cup HeapPages :
         \E e \in Path(root[t], p) : "USER_ACCESSIBLE" \notin e.flags
============================================================================
