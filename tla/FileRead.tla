------------------------------- MODULE FileRead -------------------------------
(***************************************************************************)
(* Reading a whole file: FileInode::read_all of the VFS calls read with a  *)
(* buffer of Chunk bytes until it says Done.  Two file systems implement   *)
(* read: ext2, block by block through the block numbers of the inode, and  *)
(* sysfs, from a string.  Byte p of the file is the number p + 1, so that  *)
(* a wrong byte, a repeated one and a zero are all told apart.             *)
(***************************************************************************)
EXTENDS Integers, Sequences

CONSTANTS
    Chunk,              \* 4096 in the code
    Files,              \* the files to read: [kind, size, bs]
    NumDirect,          \* 12: direct blocks of an inode
    BlockIndexBytes,    \* 8: size_of::<BlockIndex>()
    BlockAddressBytes   \* 4: size_of::<BlockAddress>()

(* Where read keeps its contract: the files of ext2 have no block beyond    *)
(* the direct ones and blocks that fit the buffer a whole number of times,  *)
(* those of sysfs fit it at once.                                           *)
ASSUME ReadConstants ==
    /\ Chunk \in Nat /\ Chunk > 0 /\ NumDirect \in Nat
    /\ \A f \in Files :
         /\ f.size \in Nat /\ f.kind \in {"ext2", "sysfs"}
         /\ f.kind = "ext2" => /\ f.bs \in Nat /\ f.bs > 0 /\ Chunk % f.bs = 0
                              /\ f.size <= NumDirect * f.bs
         /\ f.kind = "sysfs" => f.size <= Chunk

VARIABLES
    file,               \* the file being read: kind, size, block size
    offset, buffer,     \* of read_all
    readBuffer,         \* the buffer handed to read
    block, current,     \* of ext2's read: next block, current_offset
    pc, result

readVars == <<file, offset, buffer, readBuffer, block, current, pc, result>>

Smaller(a, b) == IF a < b THEN a ELSE b
DivCeil(a, b) == (a + b - 1) \div b
Zeroes(n) == [i \in 1 .. n |-> 0]
Byte(p) == IF p < file.size THEN p + 1 ELSE 0

ReadInit ==
    /\ file \in Files
    /\ offset = 0 /\ buffer = <<>> /\ readBuffer = <<>>
    /\ block = 0 /\ current = 0 /\ pc = "call" /\ result = 0

End == Smaller(file.size, offset + Chunk)
EndBlockRoundedDown == End \div file.bs    \* mutant
EndBlock == DivCeil(End, file.bs)
BytesRead == current - offset

(* read_all allocates a zeroed buffer and calls read; ext2 starts at the    *)
(* block of the offset.                                                     *)
CallRead ==
    /\ pc = "call" /\ file.kind = "ext2"
    /\ readBuffer' = Zeroes(Chunk)
    /\ block' = offset \div file.bs /\ current' = offset
    /\ pc' = "blocks"
    /\ UNCHANGED <<file, offset, buffer, result>>

(* read_inode_block: the file block that the code reads for a block index.  *)
(* The place in the indirect block does not depend on the index.            *)
IndirectEntry == (file.bs \div BlockIndexBytes - NumDirect) \div BlockAddressBytes
FileBlock(i) == IF i < NumDirect THEN i ELSE NumDirect + IndirectEntry

BlockData(i) == [k \in 1 .. file.bs |-> Byte(FileBlock(i) * file.bs + k - 1)]

SliceStart == current % file.bs
SliceEnd == Smaller(file.bs, End - current)

(* One round of the loop: a slice of the block goes to the buffer; a slice  *)
(* that ends before it starts, or does not fit, is a panic.                 *)
ReadBlock ==
    LET slice == SubSeq(BlockData(block), SliceStart + 1, SliceEnd)
    IN  /\ pc = "blocks" /\ block < EndBlock
        /\ IF SliceStart > SliceEnd \/ BytesRead + Len(slice) > Chunk
           THEN pc' = "panic" /\ UNCHANGED <<readBuffer, current, block>>
           ELSE /\ readBuffer' = [i \in 1 .. Chunk |->
                     IF i \in BytesRead + 1 .. BytesRead + Len(slice)
                     THEN slice[i - BytesRead] ELSE readBuffer[i]]
                /\ current' = current + Len(slice)
                /\ block' = block + 1
                /\ UNCHANGED pc
        /\ UNCHANGED <<file, offset, buffer, result>>

Success == -1

Ext2Returns ==
    /\ pc = "blocks" /\ block >= EndBlock
    /\ result' = IF End = file.size THEN BytesRead ELSE Success
    /\ pc' = "returned"
    /\ UNCHANGED <<file, offset, buffer, readBuffer, block, current>>

(* sysfs_read_file. *)
SysfsRead ==
    LET start == Smaller(offset, file.size)
    IN  /\ pc = "call" /\ file.kind = "sysfs"
        /\ readBuffer' = [i \in 1 .. Chunk |->
             IF start + i <= End THEN Byte(start + i - 1) ELSE 0]
        /\ result' = IF End = file.size THEN file.size ELSE Success
        /\ pc' = "returned"
        /\ UNCHANGED <<file, offset, buffer, block, current>>

(* read_all takes the answer: a full buffer, or the last bytes. *)
Extend ==
    /\ pc = "returned" /\ result = Success
    /\ buffer' = buffer \o readBuffer
    /\ offset' = offset + Chunk
    /\ pc' = "call"
    /\ UNCHANGED <<file, readBuffer, block, current, result>>

ReadAllDone ==
    /\ pc = "returned" /\ result # Success
    /\ IF result > Chunk THEN pc' = "panic" /\ UNCHANGED buffer
       ELSE pc' = "done" /\ buffer' = buffer \o SubSeq(readBuffer, 1, result)
    /\ UNCHANGED <<file, offset, readBuffer, block, current, result>>

ReadStopped == pc \in {"done", "panic"} /\ UNCHANGED readVars

ReadNext ==
    CallRead \/ ReadBlock \/ Ext2Returns \/ SysfsRead \/ Extend \/ ReadAllDone \/ ReadStopped
ReadSpec == ReadInit /\ [][ReadNext]_readVars

-----------------------------------------------------------------------------
(* The contract of FileInodeReadResult: Success means that the whole buffer *)
(* was filled from the file; Done tells how many bytes were read, and they  *)
(* are the rest of the file.  So read_all returns the file, byte for byte,  *)
(* and no slice is out of bounds.                                           *)
ReadContract ==
    /\ pc = "returned" =>
         LET n == IF result = Success THEN Chunk ELSE result
         IN  /\ n <= Chunk
             /\ result # Success => n = file.size - offset
             /\ \A i \in 1 .. n : readBuffer[i] = Byte(offset + i - 1) /\ readBuffer[i] # 0
    /\ pc = "done" => buffer = [i \in 1 .. file.size |-> i]
    /\ pc # "panic"

(* The invariant behind it: the bytes before the offset, and before the     *)
(* place where ext2's loop stands, are those of the file.                   *)
Filled(n) == [i \in 1 .. Chunk |-> IF i <= n THEN offset + i ELSE 0]

ReadInv ==
    /\ file \in Files /\ offset \in Nat /\ offset <= file.size
    /\ file.kind = "ext2" => offset % file.bs = 0
    /\ file.kind = "sysfs" => offset = 0
    /\ pc \in {"call", "blocks", "returned", "done"}
    /\ pc # "done" => buffer = [i \in 1 .. offset |-> i]
    /\ pc = "blocks" =>
         /\ file.kind = "ext2" /\ block \in Nat
         /\ offset <= block * file.bs /\ current = Smaller(block * file.bs, End)
         /\ readBuffer = Filled(current - offset)
    /\ pc = "returned" =>
         \/ result = Success /\ offset + Chunk < file.size /\ readBuffer = Filled(Chunk)
            /\ file.kind = "ext2"
         \/ result = file.size - offset /\ result <= Chunk /\ readBuffer = Filled(result)
    /\ pc = "done" => buffer = [i \in 1 .. file.size |-> i]
===============================================================================
