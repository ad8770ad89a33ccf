----------------------------- MODULE ShellFiles -----------------------------
(***************************************************************************)
(* The shell's file commands over the virtual file system: the mounted     *)
(* root behind its Mutex, the traversal of a path, the tree that sysfs     *)
(* makes of the tasks table, and the tasks that exec starts, which look up *)
(* their program while the shell and their siblings go on.                 *)
(*                                                                         *)
(* An inode is a file system and the names that lead to it.                *)
(***************************************************************************)
EXTENDS Integers, Sequences, FiniteSets, SequencesExt, TLC

CONSTANTS
  Disks,        \* block devices with an ext2 file system
  Files,        \* Files[d]: name sequence -> "dir", "elf" or "text"
  Typed,        \* the paths that are typed: sequences of names and "/"
  MaxTasks,     \* bound: tasks created
  MaxProcesses, \* bound: <nproc> of one command
  MaxCommands   \* bound: commands typed

Shell == 0
Nobody == -1
TaskIds == 1..MaxTasks
Actors == {Shell} \cup TaskIds
NoFs == "none"
Sysfs == "sysfs"

VARIABLES
  root,      \* the holder of MOUNTED_ROOT_FILE_SYSTEM, or Nobody
  mounted,   \* its value: a disk, Sysfs or NoFs
  disk,      \* disk[d]: the tree on the device
  tasks,     \* the ids in TASKS
  ended,     \* the tasks whose exit_wait_cell was sent to
  nextId,
  look,      \* look[a]: a's call of get_path_inode
  task,      \* task[t]: where the body of task t is
  shell,     \* the command that is run
  typed,     \* the number of commands typed
  window,    \* history: window[a], what a's path resolved to since the call
  execFs     \* history: what was mounted when the command was typed

vars == <<root, mounted, disk, tasks, ended, nextId, look, task, shell, typed, window, execFs>>

-----------------------------------------------------------------------------
(* FilePath::parse: splitting at "/" and dropping the empty parts leaves   *)
(* the names.  A path that is neither absolute nor has a name is no path.  *)
Parse(s) == [absolute |-> s # << >> /\ Head(s) = "/",
             components |-> SelectSeq(s, LAMBDA x : x # "/")]
IsPath(p) == p.absolute \/ p.components # << >>
Paths == {p \in {Parse(s) : s \in Typed} : IsPath(p)}

Dirname(p) == [p EXCEPT !.components = Front(@)]

(* DirectoryEntry::name of a task's directory.                             *)
TaskName(t) == ToString(t)

Inode(fs, at) == [fs |-> fs, at |-> at]

(* The trees: InodeType and subdirectories() of an inode, at this moment.  *)
IsDirectory(n) ==
  IF n.fs = Sysfs THEN Len(n.at) < 3 ELSE disk[n.fs][n.at] = "dir"
Entries(n) ==
  IF n.fs # Sysfs
  THEN {x[Len(x)] : x \in {y \in DOMAIN disk[n.fs] : y # << >> /\ Front(y) = n.at}}
  ELSE CASE Len(n.at) = 0 -> {"tasks"}
         [] Len(n.at) = 1 -> {TaskName(t) : t \in tasks}
         [] Len(n.at) = 2 -> {"info"}

-----------------------------------------------------------------------------
(* get_path_inode: what a lookup is, and its steps.                        *)
NoCall == [pc |-> "none", path |-> Parse(<<"/">>), inode |-> Inode(NoFs, << >>), rest |-> << >>]
Call(p) == [NoCall EXCEPT !.pc = "start", !.path = p]

GetPathInode(a) ==
  /\ look[a].pc = "start" /\ root = Nobody
  /\ IF mounted = NoFs \/ ~look[a].path.absolute
     THEN look' = [look EXCEPT ![a].pc = "missing"] /\ UNCHANGED root
     ELSE /\ root' = a
          /\ look' = [look EXCEPT ![a].pc = "walk", ![a].inode = Inode(mounted, << >>),
                                  ![a].rest = look[a].path.components]
  /\ UNCHANGED <<mounted, disk, tasks, ended, nextId, task, shell, typed, execFs>>

(* One round of traverse_path.  The entries of a directory are collected   *)
(* and searched; the guard of the Mutex is dropped with the answer.        *)
LastReached(rest) == "found"
Answer(rest) == IF rest = << >> THEN "found" ELSE "missing"
TraversePath(a) ==
  LET n == look[a].inode
      rest == look[a].rest IN
  /\ look[a].pc = "walk"
  /\ IF rest # << >> /\ IsDirectory(n) /\ Head(rest) \in Entries(n)
     THEN /\ look' = [look EXCEPT ![a].inode.at = Append(@, Head(rest)), ![a].rest = Tail(rest)]
          /\ UNCHANGED root
     ELSE /\ look' = [look EXCEPT ![a].pc = Answer(rest)]
          /\ root' = Nobody
  /\ UNCHANGED <<mounted, disk, tasks, ended, nextId, task, shell, typed, execFs>>

IsFile(a) == look[a].pc = "found" /\ ~IsDirectory(look[a].inode)

-----------------------------------------------------------------------------
(* The shell.  A command begins at the prompt and ends there.              *)
Prompt == [pc |-> "prompt", path |-> Parse(<<"/">>), left |-> 0, ids |-> << >>,
           holds |-> FALSE, said |-> "none"]
AtPrompt(said) == [Prompt EXCEPT !.said = said]

TypeCommand == shell.pc = "prompt" /\ typed < MaxCommands /\ typed' = typed + 1

Mount(fs) ==
  /\ TypeCommand /\ root = Nobody
  /\ mounted' = fs /\ execFs' = fs
  /\ shell' = AtPrompt("none")
  /\ UNCHANGED <<root, disk, tasks, ended, nextId, look, task>>

(* ls, cat and write-to-file begin with a lookup of the path.              *)
LookUp(cmd, p) ==
  /\ TypeCommand
  /\ shell' = [Prompt EXCEPT !.pc = cmd, !.path = p]
  /\ look' = [look EXCEPT ![Shell] = Call(p)]
  /\ UNCHANGED <<root, mounted, disk, tasks, ended, nextId, task, execFs>>

Done(said) == shell' = [AtPrompt(said) EXCEPT !.path = shell.path] /\ look' = [look EXCEPT ![Shell] = NoCall]

Ls ==
  /\ shell.pc = "ls" /\ look[Shell].pc \in {"found", "missing"}
  /\ Done(IF look[Shell].pc = "missing" \/ ~IsDirectory(look[Shell].inode) THEN "error" ELSE "listed")
  /\ UNCHANGED <<root, mounted, disk, tasks, ended, nextId, task, typed, execFs>>

(* The file is read after the guard is dropped: a task can be gone by now. *)
Cat ==
  /\ shell.pc = "cat" /\ look[Shell].pc \in {"found", "missing"}
  /\ Done(IF ~IsFile(Shell) THEN "error"
          ELSE IF look[Shell].inode.fs = Sysfs /\ look[Shell].inode.at[2] \notin {TaskName(t) : t \in tasks}
          THEN "task not found"
          ELSE "content")
  /\ UNCHANGED <<root, mounted, disk, tasks, ended, nextId, task, typed, execFs>>

(* WriteToFile: an existing file is written.  For a missing one the parent *)
(* directory is looked up: by the path of the file itself.                 *)
ParentLookup(p) == p
WriteToFile ==
  /\ shell.pc = "write" /\ look[Shell].pc \in {"found", "missing"}
  /\ IF look[Shell].pc = "missing" /\ shell.path.components # << >>
     THEN /\ shell' = [shell EXCEPT !.pc = "create"]
          /\ look' = [look EXCEPT ![Shell] = Call(ParentLookup(shell.path))]
     ELSE Done(IF IsFile(Shell) THEN "written" ELSE "error")
  /\ UNCHANGED <<root, mounted, disk, tasks, ended, nextId, task, typed, execFs>>

(* create_file is implemented by ext2 only.                                *)
CreateFile ==
  /\ shell.pc = "create" /\ look[Shell].pc \in {"found", "missing"}
  /\ LET n == look[Shell].inode
         creates == look[Shell].pc = "found" /\ IsDirectory(n) /\ n.fs \in Disks IN
       /\ disk' = IF creates
                  THEN [disk EXCEPT ![n.fs] = @ @@ (shell.path.components :> "text")]
                  ELSE disk
       /\ Done(IF creates THEN "written"
               ELSE IF look[Shell].pc = "missing" THEN "parent not found" ELSE "error")
  /\ UNCHANGED <<root, mounted, tasks, ended, nextId, task, typed, execFs>>

(* exec and prime create their tasks one by one; exec and "prime sync"     *)
(* then wait for them in the order of their creation.                      *)
Spawn(cmd, p, n) ==
  /\ TypeCommand /\ nextId + n <= MaxTasks + 1
  /\ shell' = [Prompt EXCEPT !.pc = cmd, !.path = p, !.left = n]
  /\ execFs' = mounted
  /\ UNCHANGED <<root, mounted, disk, tasks, ended, nextId, look, task>>

CreateTask ==
  /\ shell.pc \in {"exec", "async", "sync"} /\ shell.left > 0
  /\ tasks' = tasks \cup {nextId}
  /\ nextId' = nextId + 1
  /\ task' = [task EXCEPT ![nextId] = IF shell.pc = "exec" THEN "setup" ELSE "running"]
  /\ look' = IF shell.pc = "exec" THEN [look EXCEPT ![nextId] = Call(shell.path)] ELSE look
  /\ shell' = [shell EXCEPT !.left = @ - 1,
                            !.ids = IF shell.pc = "async" THEN @ ELSE Append(@, nextId)]
  /\ UNCHANGED <<root, mounted, disk, ended, typed, execFs>>

(* wait_on_task: the next task is over when it is not in TASKS any more;   *)
(* otherwise the shell holds it and sleeps until the exit code is there.   *)
WaitOver == IF shell.holds THEN Head(shell.ids) \in ended ELSE Head(shell.ids) \notin tasks
WaitOnTasks ==
  /\ shell.pc \in {"exec", "async", "sync"} /\ shell.left = 0
  /\ \/ shell.ids = << >> /\ shell' = AtPrompt("none")
     \/ shell.ids # << >> /\ WaitOver /\ shell' = [shell EXCEPT !.ids = Tail(@), !.holds = FALSE]
     \/ /\ shell.ids # << >> /\ ~shell.holds /\ Head(shell.ids) \in tasks
        /\ shell' = [shell EXCEPT !.holds = TRUE]
  /\ UNCHANGED <<root, mounted, disk, tasks, ended, nextId, look, task, typed, execFs>>

-----------------------------------------------------------------------------
(* task_userspace_setup: read the file found, parse it as ELF and enter    *)
(* the program, or return, which ends the task.                            *)
IsElf(n) == n.fs \in Disks /\ disk[n.fs][n.at] = "elf"
TaskSetup(t) ==
  /\ task[t] = "setup" /\ look[t].pc \in {"found", "missing"}
  /\ task' = [task EXCEPT ![t] = IF IsFile(t) /\ IsElf(look[t].inode) THEN "running" ELSE "exit"]
  /\ look' = [look EXCEPT ![t] = NoCall]
  /\ UNCHANGED <<root, mounted, disk, tasks, ended, nextId, shell, typed, execFs>>

(* The program, or the calculation of a prime, ends.                       *)
TaskRuns(t) ==
  /\ task[t] = "running"
  /\ task' = [task EXCEPT ![t] = "exit"]
  /\ UNCHANGED <<root, mounted, disk, tasks, ended, nextId, look, shell, typed, execFs>>

(* kill_current_task marks the task killed and then sends the exit code.   *)
(* run_scheduler, on any CPU, removes a killed task that was switched out, *)
(* be it before the exit code was sent.                                    *)
MarkKilled(t) ==
  /\ task[t] = "exit"
  /\ task' = [task EXCEPT ![t] = "killed"]
  /\ UNCHANGED <<root, mounted, disk, tasks, ended, nextId, look, shell, typed, execFs>>
SendExitCode(t) ==
  /\ task[t] = "killed" /\ t \in tasks \ ended
  /\ ended' = ended \cup {t}
  /\ UNCHANGED <<root, mounted, disk, tasks, nextId, look, task, shell, typed, execFs>>
RemoveTask(t) ==
  /\ task[t] = "killed" /\ t \in tasks
  /\ tasks' = tasks \ {t}
  /\ UNCHANGED <<root, mounted, disk, ended, nextId, look, task, shell, typed, execFs>>

-----------------------------------------------------------------------------
(* What a path leads to, all at once: the meaning of a lookup.             *)
Missing == Inode(NoFs, << >>)
Resolve(p) ==
  LET at(k) == Inode(mounted, SubSeq(p.components, 1, k)) IN
    IF /\ mounted # NoFs /\ p.absolute
       /\ \A k \in 1..Len(p.components) :
            IsDirectory(at(k - 1)) /\ p.components[k] \in Entries(at(k - 1))
    THEN at(Len(p.components))
    ELSE Missing

(* History: every answer that was right at some moment since the call.     *)
Observe ==
  window' = [a \in Actors |->
    CASE look'[a].pc = "none" -> {}
      [] look'[a].pc = "start" -> {Resolve(look[a].path)'}
      [] OTHER -> window[a] \cup {Resolve(look[a].path)'}]

ShellStep ==
  \/ \E fs \in Disks \cup {Sysfs, NoFs} : Mount(fs)
  \/ \E p \in Paths : \/ \E cmd \in {"ls", "cat", "write"} : LookUp(cmd, p)
                      \/ \E n \in 0..MaxProcesses : Spawn("exec", p, n)
  \/ \E n \in 0..MaxProcesses : Spawn("async", Parse(<<"/">>), n)
  \/ Spawn("sync", Parse(<<"/">>), 1)
  \/ Ls \/ Cat \/ WriteToFile \/ CreateFile \/ CreateTask \/ WaitOnTasks

TaskStep(t) == TaskSetup(t) \/ TaskRuns(t) \/ MarkKilled(t) \/ SendExitCode(t) \/ RemoveTask(t)

Next ==
  /\ \/ ShellStep
     \/ \E a \in Actors : GetPathInode(a) \/ TraversePath(a)
     \/ \E t \in TaskIds : TaskStep(t)
  /\ Observe

Init ==
  /\ root = Nobody /\ mounted = NoFs /\ disk = Files
  /\ tasks = {} /\ ended = {} /\ nextId = 1
  /\ look = [a \in Actors |-> NoCall]
  /\ task = [t \in TaskIds |-> "none"]
  /\ shell = Prompt /\ typed = 0
  /\ window = [a \in Actors |-> {}] /\ execFs = NoFs

Spec == Init /\ [][Next]_vars

-----------------------------------------------------------------------------
(* What a lookup answers was the right answer at some moment of the call,  *)
(* although tasks come and go while traverse_path is under way.  For a task *)
(* that exec started this is in the file system that was mounted when the  *)
(* command was typed: exec returns to the prompt, and so to mount and      *)
(* umount, only after all of its tasks are done.                           *)
LookupsLinearizable ==
  /\ \A a \in Actors :
       /\ look[a].pc = "found" => look[a].inode \in window[a]
       /\ look[a].pc = "missing" => Missing \in window[a]
  /\ \A t \in TaskIds : task[t] = "setup" =>
       /\ mounted = execFs
       /\ look[t].pc \in {"walk", "found"} => look[t].inode.fs = execFs

-----------------------------------------------------------------------------
(* What comments say and the code does not do *)

(* write-to-file says that the parent directory of a new file is not found *)
(* only when no directory is there.                                        *)
ParentReallyMissing ==
  shell.said = "parent not found" => Resolve(Dirname(shell.path)) = Missing
=============================================================================
