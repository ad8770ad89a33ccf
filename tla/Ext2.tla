--------------------------------- MODULE Ext2 ---------------------------------
(***************************************************************************)
(* The ext2 driver (kernel/src/fs/ext2) on a disk that survives crashes.   *)
(* One Mutex serialises the operations, so that one operation is in        *)
(* progress at a time; each of its steps ends with the flush of one block, *)
(* and the machine may stop between any two of them.  The superblock and   *)
(* the block group descriptors are cached in memory from mount on; bitmaps,*)
(* inodes and directory blocks are read from the disk by every operation.  *)
(* A directory has one block, as on the disk images of the repository.     *)
(***************************************************************************)
EXTENDS Integers, FiniteSetsExt, SequencesExt

CONSTANTS
    Groups,             \* number of block groups
    InodesPerGroup, BlocksPerGroup,
    BitmapBits,         \* bits of the block that holds a bitmap
    FirstDataBlock,     \* 0, or 1 when blocks are 1 KiB
    MetaBlocks,         \* bits of each group that hold its metadata
    BlockSize,          \* bytes
    NameLens,           \* lengths of the names of new files
    WriteLens,          \* lengths of the data written to files
    MaxMounts,          \* bound: mounts, and so crashes, of a behaviour
    None

VARIABLES
    inodeBits, blockBits,   \* on disk: the used bits of each group
    inodeTable,             \* on disk: inode number -> inode, None if never written
    dirBlock,               \* on disk: directory inode -> its sequence of entries
    content,                \* on disk: address -> the file that wrote it, or None
    gdFree, sbFree,         \* on disk: free_inodes_count of groups and superblock
    mountCount,
    mem,                    \* the cached counters, None when not mounted
    op                      \* the operation in progress, None when there is none

diskVars == <<inodeBits, blockBits, inodeTable, dirBlock, content, gdFree, sbFree,
              mountCount>>
vars == <<diskVars, mem, op>>

Group == 0 .. Groups - 1
InodeNumbers == 1 .. Groups * InodesPerGroup
RootDirectory == 2

(* Superblock::inode_location and inode_number. *)
GroupOf(ino) == (ino - 1) \div InodesPerGroup
LocalIndex(ino) == (ino - 1) % InodesPerGroup
InodeNumber(g, local) == g * InodesPerGroup + local + 1

(* The block that a bit of a group's block bitmap stands for. *)
BlockOf(g, bit) == FirstDataBlock + g * BlocksPerGroup + bit
Addresses == 0 .. FirstDataBlock + Groups * BlocksPerGroup - 1

RequiredSpace(nameLen) == ((8 + nameLen + 3) \div 4) * 4
Entry(ino, recLen, nameLen) == [inode |-> ino, recLen |-> recLen, nameLen |-> nameLen]

(* One directory in every group, the root in group 0: what mkfs leaves. *)
DirOf(g) == IF g = 0 THEN RootDirectory ELSE InodeNumber(g, 0)
Directories == {DirOf(g) : g \in Group}
DirBit == MetaBlocks
NewDirectory(g) == <<Entry(DirOf(g), 12, 1), Entry(RootDirectory, BlockSize - 12, 2)>>

(* mkfs sets the bits behind the last inode and the last block of a group. *)
Padding(size) == size .. BitmapBits - 1
UsedAtFirst(g) == 0 .. LocalIndex(DirOf(g))
FreeAtFirst(g) == InodesPerGroup - (LocalIndex(DirOf(g)) + 1)

Total(f) == FoldFunction(+, 0, f)

Init ==
    /\ inodeBits = [g \in Group |-> UsedAtFirst(g) \cup Padding(InodesPerGroup)]
    /\ blockBits = [g \in Group |-> (0 .. DirBit) \cup Padding(BlocksPerGroup)]
    /\ inodeTable = [i \in InodeNumbers |->
         IF i \in Directories
         THEN [type |-> "dir", size |-> BlockSize, block |-> BlockOf(GroupOf(i), DirBit)]
         ELSE None]
    /\ dirBlock = [d \in Directories |-> NewDirectory(GroupOf(d))]
    /\ content = [a \in Addresses |-> None]
    /\ gdFree = [g \in Group |-> FreeAtFirst(g)]
    /\ sbFree = Total([g \in Group |-> FreeAtFirst(g)])
    /\ mountCount = 0 /\ mem = None /\ op = None

(* FileSystem::read. *)
Mount ==
    /\ mem = None /\ mountCount < MaxMounts
    /\ mem' = [gdFree |-> gdFree, sbFree |-> sbFree]
    /\ mountCount' = mountCount + 1
    /\ UNCHANGED <<inodeBits, blockBits, inodeTable, dirBlock, content, gdFree, sbFree, op>>

(* The machine stops: memory is lost, what was flushed stays. *)
Crash == /\ mem # None
         /\ mem' = None /\ op' = None
         /\ UNCHANGED diskVars

-----------------------------------------------------------------------------
(* Bitmap::reserve_next_free: the lowest free bit of the whole block. *)
LastFreeBit(used) ==     \* mutant: also a used bit when there is no free one
    LET free == (0 .. BitmapBits - 1) \ used
    IN  IF free = {} THEN InodesPerGroup - 1 ELSE Min(free)
NextFreeBit(used) ==
    LET free == (0 .. BitmapBits - 1) \ used
    IN  IF free = {} THEN None ELSE Min(free)

(* BlockBitmap::reserve_next_free: the bit's index becomes the address. *)
AddressOfBit(g, bit) == bit

At(step) == op # None /\ op.step = step
GoTo(step) == op' = [op EXCEPT !.step = step]
Finished == op' = None

(* create_file, one action per flush.  First the inode's bit ... *)
CreateFile(dir, nameLen) ==
    LET g == GroupOf(dir)
        bit == NextFreeBit(inodeBits[g])
    IN  /\ mem # None /\ op = None
        /\ inodeTable[dir].type = "dir"
        /\ IF bit = None THEN UNCHANGED <<inodeBits, op>>
           ELSE /\ inodeBits' = [inodeBits EXCEPT ![g] = @ \cup {bit}]
                /\ op' = [step |-> "block", dir |-> dir, nameLen |-> nameLen,
                          ino |-> InodeNumber(g, bit), block |-> 0, size |-> 0]
        /\ UNCHANGED <<blockBits, inodeTable, dirBlock, content, gdFree, sbFree,
                       mountCount, mem>>

(* ... then the bit of one block, unless the group has none left ... *)
ReserveBlock ==
    LET g == GroupOf(op.dir)
        bit == NextFreeBit(blockBits[g])
    IN  /\ At("block")
        /\ IF bit = None THEN Finished /\ UNCHANGED blockBits
           ELSE /\ blockBits' = [blockBits EXCEPT ![g] = @ \cup {bit}]
                /\ op' = [op EXCEPT !.step = "inode", !.block = AddressOfBit(g, bit)]
        /\ UNCHANGED <<inodeBits, inodeTable, dirBlock, content, gdFree, sbFree,
                       mountCount, mem>>

(* write_inode: one flush; it asserts that the inode's bit is set. *)
WriteInode(ino, inode) == inodeTable' = [inodeTable EXCEPT ![ino] = inode]

\* Mutant: the inode is not flushed.
CreateInodeNoFlush ==
    /\ At("inode")
    /\ UNCHANGED inodeTable
    /\ GoTo("entry")
    /\ UNCHANGED <<inodeBits, blockBits, dirBlock, content, gdFree, sbFree, mountCount, mem>>

(* ... then the inode, empty and with one block ... *)
CreateInode ==
    /\ At("inode")
    /\ WriteInode(op.ino, [type |-> "file", size |-> 0, block |-> op.block])
    /\ GoTo("entry")
    /\ UNCHANGED <<inodeBits, blockBits, dirBlock, content, gdFree, sbFree, mountCount, mem>>

(* DirectoryBlock::insert_entry: the slack after an entry. *)
Slack(e) == e.recLen - RequiredSpace(e.nameLen)

Fits(es, len) == {i \in DOMAIN es : Slack(es[i]) >= RequiredSpace(len)}

Insert(es, i, ino, len) ==
    LET need == RequiredSpace(es[i].nameLen)
    IN  SubSeq(es, 1, i - 1)
        \o <<[es[i] EXCEPT !.recLen = need], Entry(ino, es[i].recLen - need, len)>>
        \o SubSeq(es, i + 1, Len(es))

(* ... then the directory entry, unless the directory's block is full ... *)
InsertEntry ==
    LET es == dirBlock[op.dir]
        free == Fits(es, op.nameLen)
    IN  /\ At("entry")
        /\ IF free = {} THEN Finished /\ UNCHANGED dirBlock
           ELSE /\ dirBlock' = [dirBlock EXCEPT ![op.dir] =
                      Insert(es, Min(free), op.ino, op.nameLen)]
                /\ GoTo("group")
        /\ UNCHANGED <<inodeBits, blockBits, inodeTable, content, gdFree, sbFree,
                       mountCount, mem>>

(* ... then the counters, in the cache and on disk. *)
AdjustGroup ==
    LET g == GroupOf(op.dir)
    IN  /\ At("group")
        /\ mem' = [mem EXCEPT !.gdFree[g] = @ - 1]
        /\ gdFree' = mem'.gdFree
        /\ GoTo("superblock")
        /\ UNCHANGED <<inodeBits, blockBits, inodeTable, dirBlock, content, sbFree, mountCount>>

AdjustSuperblock ==
    /\ At("superblock")
    /\ mem' = [mem EXCEPT !.sbFree = @ - 1]
    /\ sbFree' = mem'.sbFree
    /\ Finished
    /\ UNCHANGED <<inodeBits, blockBits, inodeTable, dirBlock, content, gdFree, mountCount>>

\* Mutant: the blocks are not flushed.
WriteFileNoFlush(dir, i, len) ==
    LET ino == dirBlock[dir][i].inode
        file == inodeTable[ino]
    IN  /\ mem # None /\ op = None /\ ino \notin Directories
        /\ UNCHANGED content
        /\ IF len > BlockSize THEN mem' = None /\ op' = None
           ELSE /\ op' = [step |-> "size", dir |-> dir, nameLen |-> 0, ino |-> ino,
                          block |-> file.block, size |-> len]
                /\ UNCHANGED mem
        /\ UNCHANGED <<inodeBits, blockBits, inodeTable, dirBlock, gdFree, sbFree,
                       mountCount>>

-----------------------------------------------------------------------------
(* FileInode::write on a file reached through a directory: the data goes to *)
(* the file's block, zero padded, unless there is no data; data for more    *)
(* than one block ends in an assertion failure once the block is written.   *)
WriteFile(dir, i, len) ==
    LET ino == dirBlock[dir][i].inode
        file == inodeTable[ino]
    IN  /\ mem # None /\ op = None /\ ino \notin Directories
        /\ content' = IF len = 0 THEN content ELSE [content EXCEPT ![file.block] = ino]
        /\ IF len > BlockSize THEN mem' = None /\ op' = None
           ELSE /\ op' = [step |-> "size", dir |-> dir, nameLen |-> 0, ino |-> ino,
                          block |-> file.block, size |-> len]
                /\ UNCHANGED mem
        /\ UNCHANGED <<inodeBits, blockBits, inodeTable, dirBlock, gdFree, sbFree,
                       mountCount>>

WriteSize ==
    /\ At("size")
    /\ WriteInode(op.ino, [type |-> "file", size |-> op.size, block |-> op.block])
    /\ Finished
    /\ UNCHANGED <<inodeBits, blockBits, dirBlock, content, gdFree, sbFree, mountCount, mem>>

Next == \/ Mount \/ Crash
        \/ \E d \in Directories, n \in NameLens : CreateFile(d, n)
        \/ ReserveBlock \/ CreateInode \/ InsertEntry \/ AdjustGroup \/ AdjustSuperblock
        \/ \E d \in Directories, n \in WriteLens :
             \E i \in DOMAIN dirBlock[d] : WriteFile(d, i, n)
        \/ WriteSize

Spec == Init /\ [][Next]_vars

-----------------------------------------------------------------------------
(* The inodes that a directory lists. *)
Listed == {e.inode : e \in UNION {Range(dirBlock[d]) : d \in Directories}}

(* After a stop at any point, the entries of a directory tile its block,    *)
(* each with room for its name, so that from_existing_block finds every     *)
(* entry and stops at the end; and they name only inodes that are marked    *)
(* used and have been written, with blocks that are marked used, because    *)
(* create_file flushes what an entry refers to before the entry.            *)
DirectoriesSound ==
    /\ \A d \in Directories :
         /\ \A i \in DOMAIN dirBlock[d] :
              Slack(dirBlock[d][i]) >= 0 /\ dirBlock[d][i].recLen % 4 = 0
         /\ Total([i \in DOMAIN dirBlock[d] |-> dirBlock[d][i].recLen]) = BlockSize
    /\ \A i \in Listed :
         /\ LocalIndex(i) \in inodeBits[GroupOf(i)]
         /\ inodeTable[i] # None
         /\ \E g \in Group : \E b \in blockBits[g] : inodeTable[i].block = BlockOf(g, b)

(* Nothing is counted, or used, twice.  No block belongs to two inodes, or  *)
(* to an inode and the metadata of a group.  The counters never fall below  *)
(* the number of free bits, whichever step is cut off, so that              *)
(* "free_inodes_count -= 1" cannot underflow; the superblock, written last, *)
(* is never ahead of the groups, and the inode of the operation in progress *)
(* is marked used, as write_inode asserts.                                  *)
AllocationsSound ==
    /\ \A i \in InodeNumbers :
         inodeTable[i] # None =>
           /\ \A j \in InodeNumbers \ {i} :
                inodeTable[j] # None => inodeTable[i].block # inodeTable[j].block
           /\ \A g \in Group, b \in 0 .. MetaBlocks - 1 : inodeTable[i].block # BlockOf(g, b)
    /\ \A g \in Group : gdFree[g] >= BitmapBits - Cardinality(inodeBits[g])
    /\ sbFree >= Total(gdFree)
    /\ mem # None => mem.gdFree = gdFree /\ mem.sbFree = sbFree
    /\ At("inode") \/ At("size") => LocalIndex(op.ino) \in inodeBits[GroupOf(op.ino)]

(* A file shows only bytes that were written to it: a new file has size 0   *)
(* until its block, which create_file does not clear, has been overwritten. *)
VisibleDataIsOwn ==
    \A i \in InodeNumbers \ Directories :
      inodeTable[i] # None /\ inodeTable[i].size > 0 => content[inodeTable[i].block] = i
===============================================================================
