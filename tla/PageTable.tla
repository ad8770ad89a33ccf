---------------------------- MODULE PageTable ----------------------------
(***************************************************************************)
(* Four-level page tables: kernel/src/memory/page_table.rs and the         *)
(* wrappers of mapping.rs.  A table has N entries in place of 512 and a    *)
(* virtual page is its page number, so that its index at a level is one    *)
(* digit in base N.  Physical memory is a function from frames to what     *)
(* the frame holds when it is read as a table.  An operation takes and     *)
(* returns a record with that memory, the frames the allocator has left,   *)
(* and the result; every one runs with the locks of the table and of the   *)
(* allocator held.                                                         *)
(***************************************************************************)
EXTENDS Integers, FiniteSets, FiniteSetsExt, SequencesExt, Bitwise

CONSTANT N  \* NUM_PAGE_TABLE_ENTRIES, even

Index == 0..N - 1
Flag == {"PRESENT", "WRITABLE", "USER_ACCESSIBLE", "HUGE_PAGE", "NO_EXECUTE"}
NoEntry == [addr |-> 0, flags |-> {}]
ZeroPage == [i \in Index |-> NoEntry]
LowerHalf == 0..(N \div 2) - 1
UpperHalf == (N \div 2)..N - 1

\* The number of 4 KiB pages an entry of the level stands for.
PageSize(level) == N^(level - 1)

EntryIndex(level, page) == (page \div PageSize(level)) % N

-----------------------------------------------------------------------------
(* Entries *)

SetFlags(e, flags) == [e EXCEPT !.flags = flags]

SetAddress(e, frame) == [e EXCEPT !.addr = @ | frame]

SetTarget(e, frame, flags) ==
  SetFlags(SetAddress(e, frame), flags \cup {"PRESENT"})

\* "panic": a huge page where the hardware has none.
Target(e, level) ==
  CASE "PRESENT" \notin e.flags -> "Unmapped"
    [] "HUGE_PAGE" \in e.flags -> IF level \in {2, 3} THEN "Page" ELSE "panic"
    [] OTHER -> IF level = 1 THEN "Page" ELSE "NextTable"

\* The loop of translate_address, set_flags and unmap: down to the first
\* entry that is not a table.
Walk(mem, root, page) ==
  LET from[level \in 1..4, table \in Nat] ==
        LET e == mem[table][EntryIndex(level, page)]
        IN IF Target(e, level) = "NextTable"
             THEN from[level - 1, e.addr]
             ELSE [table |-> table, level |-> level, entry |-> e,
                   target |-> Target(e, level)]
  IN from[4, root]

\* The frame behind the page and the flags of its entry, as a set of at most
\* one; a huge page covers a run of frames.
TranslateAddress(mem, root, page) ==
  LET w == Walk(mem, root, page)
  IN IF w.target = "Page"
       THEN {[frame |-> w.entry.addr + (page % PageSize(w.level)),
              flags |-> w.entry.flags]}
       ELSE {}

-----------------------------------------------------------------------------
(* Operations on [mem, free, res] *)

\* physical.rs allocate_page: the bitmap allocator hands out the first free one.
AllocatePage(free) == Min(free)

\* allocate_and_map_child_table: entry i of s.table gets a new table, the
\* walk goes on there.
AllocateChildTable(s, i, flags) ==
  IF s.free = {} THEN [s EXCEPT !.res = "AllocError"]
  ELSE LET f == AllocatePage(s.free)
       IN [s EXCEPT !.mem = [@ EXCEPT ![f] = ZeroPage,
                                      ![s.table][i] = SetTarget(@, f, flags)],
                    !.free = @ \ {f}, !.table = f]

\* get_target_page and set_target_page; frame 0 stands for NewPhysPage.
SetTargetPage(s, i, frame, flags) ==
  IF frame # 0 THEN [s EXCEPT !.mem[s.table][i] = SetTarget(@, frame, flags)]
  ELSE IF s.free = {} THEN [s EXCEPT !.res = "AllocError"]
  ELSE LET f == AllocatePage(s.free)
       IN [s EXCEPT !.mem[s.table][i] = SetTarget(@, f, flags),
                    !.free = @ \ {f}]

\* Mutant of ParentFlags: the tables above a user page are kernel-only.
KernelParentFlags(flags) == flags \cap {"PRESENT", "WRITABLE"}

ParentFlags(flags) == flags \cap {"PRESENT", "WRITABLE", "USER_ACCESSIBLE"}

\* One round of the loop of map_to.
MapLevel(s, level, page, frame, flags) ==
  LET i == EntryIndex(level, page)
      e == s.mem[s.table][i]
      t == Target(e, level)
  IN CASE s.res # "Ok" -> s
       [] s.res = "Ok" /\ t = "NextTable" -> [s EXCEPT !.table = e.addr]
       [] s.res = "Ok" /\ t \in {"Page", "panic"} ->
            [s EXCEPT !.res = IF t = "Page" THEN "PageAlreadyMapped" ELSE t]
       [] s.res = "Ok" /\ t = "Unmapped" ->
            IF level = 1 THEN SetTargetPage(s, i, frame, flags)
                         ELSE AllocateChildTable(s, i, ParentFlags(flags))

MapTo(st, root, page, frame, flags) ==
  LET Level(s, level) == MapLevel(s, level, page, frame, flags)
      s == FoldLeft(Level, [mem |-> st.mem, free |-> st.free, res |-> "Ok",
                            table |-> root], <<4, 3, 2, 1>>)
  IN [mem |-> s.mem, free |-> s.free, res |-> s.res]

\* Level4PageTable::set_flags
SetPageFlag(st, root, page, flags) ==
  LET w == Walk(st.mem, root, page)
  IN IF w.target = "Page"
       THEN [st EXCEPT !.mem[w.table][EntryIndex(w.level, page)] =
                         SetFlags(@, flags)]
       ELSE [st EXCEPT !.res = "PageNotMapped"]

\* Mutant of Unmap: the frame is freed and the entry stays.
UnmapKeepsEntry(st, root, page, freePage) ==
  LET w == Walk(st.mem, root, page)
  IN CASE w.target # "Page" -> [st EXCEPT !.res = "PageNotMapped"]
       [] w.target = "Page" /\ w.level # 1 -> [st EXCEPT !.res = "PageWrongSize"]
       [] OTHER -> [st EXCEPT !.free = IF freePage THEN @ \cup {w.entry.addr}
                                                   ELSE @]

Unmap(st, root, page, freePage) ==
  LET w == Walk(st.mem, root, page)
  IN CASE w.target # "Page" -> [st EXCEPT !.res = "PageNotMapped"]
       [] w.target = "Page" /\ w.level # 1 -> [st EXCEPT !.res = "PageWrongSize"]
       [] OTHER -> [st EXCEPT !.mem[w.table][EntryIndex(1, page)] = NoEntry,
                              !.free = IF freePage THEN @ \cup {w.entry.addr}
                                                   ELSE @]

UnmapLowerHalf(st, root) ==
  [st EXCEPT !.mem[root] =
     [i \in Index |-> IF i \in LowerHalf THEN NoEntry ELSE @[i]]]

\* Mutant of FillTopHalfEntries: only what is mapped already is kept.
FillNothing(st, root) == st

FillTopHalfEntries(st, root) ==
  LET flags == {"PRESENT", "WRITABLE"}
      Fill(s, i) ==
        CASE s.res # "Ok" -> s
          [] s.res = "Ok" /\ Target(s.mem[root][i], 4) = "Unmapped" ->
               [AllocateChildTable(s, i, flags) EXCEPT !.table = root]
          [] s.res = "Ok" /\ Target(s.mem[root][i], 4) = "NextTable" ->
               [s EXCEPT !.mem[root][i] = SetFlags(@, flags)]
          [] OTHER -> [s EXCEPT !.res = "panic"]
      s == FoldLeft(Fill, [mem |-> st.mem, free |-> st.free, res |-> st.res,
                           table |-> root],
                    [k \in 1..N \div 2 |-> k - 1 + N \div 2])
  IN [mem |-> s.mem, free |-> s.free, res |-> s.res]

\* Level4PageTable::allocate_clone: the new table is AllocatePage(st.free).
AllocateClone(st, root) ==
  IF st.free = {} THEN [st EXCEPT !.res = "AllocError"]
  ELSE [st EXCEPT !.mem[AllocatePage(st.free)] = st.mem[root],
                  !.free = @ \ {AllocatePage(st.free)}]

-----------------------------------------------------------------------------
(* Ranges of pages *)

\* PageRange::from_num_bytes, iterated.
PageRange(start, num) == [k \in 1..num |-> start + k - 1]

\* The loops of mapping.rs stop at the first error and keep what is done.
ForEach(st, pages, Op(_, _)) ==
  LET Step(s, p) == IF s.res = "Ok" THEN Op(s, p) ELSE s
  IN FoldLeft(Step, st, pages)

AllocateAndMapPages(st, root, pages, flags) ==
  LET Map(s, p) == MapTo(s, root, p, 0, flags) IN ForEach(st, pages, Map)

SetPageFlags(st, root, pages, flags) ==
  LET Set(s, p) == SetPageFlag(s, root, p, flags) IN ForEach(st, pages, Set)

\* identity_map_physical_pages: base is the page the direct map starts at.
IdentityMapPhysicalPages(st, root, base, frames, flags) ==
  LET Map(s, f) ==
        LET r == MapTo(s, root, base + f, f, flags)
        IN IF r.res = "PageAlreadyMapped" THEN [r EXCEPT !.res = "Ok"] ELSE r
  IN ForEach(st, frames, Map)
============================================================================
