------------------------------- MODULE MCShell -------------------------------
(***************************************************************************)
(* What stands between the shell and its data, one part at a time: the     *)
(* ring buffer and the console that draws its lines, the ext2 driver on    *)
(* its disk, the reading of files, and the shell's commands over the       *)
(* virtual file system.  A behaviour is one of its part; the variables of  *)
(* the others stay as they are at first.                                   *)
(***************************************************************************)
EXTENDS RingHistory, FileRead, TLC

CONSTANTS
  W, Chars, Newline, NoChar, FontWidth, FontHeight, MaxWritten,
  Groups, InodesPerGroup, BlocksPerGroup, BitmapBits, FirstDataBlock, MetaBlocks, BlockSize,
  NameLens, WriteLens, MaxMounts, None,
  Disks, MaxTasks, MaxProcesses, MaxCommands

(* Framebuffers that can show all of the text, a part of it or nothing.    *)
Screens ==
  {[width |-> w, height |-> h, pitch |-> w * 4 + extra] :
     w \in {8, 9, 27}, h \in {13, 14, 43}, extra \in {0, 8}}

(* Files of up to three buffers and a byte; blocks of 1, 2 and 4 stand for *)
(* 1, 2 and 4 KiB.  The files of sysfs are shorter than a buffer.          *)
FilesRead ==
  [kind : {"ext2"}, size : 0..13, bs : {1, 2, 4}] \cup [kind : {"sysfs"}, size : 0..4, bs : {1}]

(* A disk with a program, a text file and a directory.                     *)
Tree == [d \in Disks |->
  (<< >> :> "dir" @@ <<"bin">> :> "dir" @@ <<"bin", "p">> :> "elf" @@ <<"x">> :> "text")]
TypedPaths ==
  {<<"/">>, <<"/", "bin", "/", "/", "p">>, <<"/", "x">>, <<"/", "x", "/", "p">>, <<"x">>,
   <<"/", "new">>, <<"/", "tasks", "/", "1", "/">>, <<"/", "tasks", "/", "2", "/", "info">>}

VARIABLES
  part,
  lines, nextLine, cursor, fb, text,
  inodeBits, blockBits, inodeTable, dirBlock, content, gdFree, sbFree, mountCount, mem, op,
  root, mounted, disk, tasks, ended, nextId, look, task, shell, typed, window, execFs

ringVars == historyVars
textVars == <<lines, nextLine, cursor, fb, text>>
diskVars == <<inodeBits, blockBits, inodeTable, dirBlock, content, gdFree, sbFree, mountCount,
              mem, op>>
shellVars == <<root, mounted, disk, tasks, ended, nextId, look, task, shell, typed, window,
               execFs>>
allVars == <<part, ringVars, textVars, diskVars, readVars, shellVars>>

Console == INSTANCE TextBuffer WITH
             elements <- lines, nextFree <- nextLine, Framebuffers <- Screens
Ext2 == INSTANCE Ext2
Commands == INSTANCE ShellFiles WITH Files <- Tree, Typed <- TypedPaths

ShellInit ==
  /\ part \in {"ring", "console", "ext2", "read", "commands"}
  /\ HistoryInit /\ Ext2!Init /\ Commands!Init
  /\ Console!Init /\ (part # "console" => fb = CHOOSE s \in Screens : TRUE)
  /\ ReadInit /\ (part # "read" => file = CHOOSE f \in FilesRead : TRUE)

Ring == /\ part = "ring" /\ HistoryNext
        /\ UNCHANGED <<part, textVars, diskVars, readVars, shellVars>>
Write == /\ part = "console" /\ Console!Next
         /\ UNCHANGED <<part, ringVars, diskVars, readVars, shellVars>>
Ext2Step == /\ part = "ext2" /\ Ext2!Next
            /\ UNCHANGED <<part, ringVars, textVars, readVars, shellVars>>
ReadStep == /\ part = "read" /\ ReadNext
            /\ UNCHANGED <<part, ringVars, textVars, diskVars, shellVars>>
Command == /\ part = "commands" /\ Commands!Next
           /\ UNCHANGED <<part, ringVars, textVars, diskVars, readVars>>

ShellSpec == ShellInit /\ [][Ring \/ Write \/ Ext2Step \/ ReadStep \/ Command]_allVars

-----------------------------------------------------------------------------
(* The properties of the modules, of their part.                           *)
(* A directory lists only what was flushed before it (create_file).        *)
DirectoriesSound == part = "ext2" => Ext2!DirectoriesSound

(* No block is allocated twice, no counter underflows (reserve_next_free). *)
AllocationsSound == part = "ext2" => Ext2!AllocationsSound

(* A file shows only what was written to it (FileInode::write).            *)
VisibleDataIsOwn == part = "ext2" => Ext2!VisibleDataIsOwn

(* A lookup's answer was right at some moment of it (traverse_path).       *)
LookupsLinearizable == part = "commands" => Commands!LookupsLinearizable

(* The console shows the end of the text (TextBuffer::flush).              *)
ShowsEndOfText == part = "console" => Console!ShowsEndOfText
=============================================================================
