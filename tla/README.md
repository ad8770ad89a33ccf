# Verification of the rust-os kernel

TLA+ models of the kernel in this repository, the TLC runs that check small
instances of them, and TLAPS proofs for every size. Source paths below are
relative to `src/`; `sched/` and the like are under `kernel/src/`.

## 1. The system

rust-os is a preemptive, multiprocessor kernel. Every CPU executes on the stack
of one *thread*: a task, or the idle task of the CPU. All CPUs share one run
queue behind one spin lock. Interrupts run on the stack of the thread they
interrupt and may end in the scheduler, so a thread can be switched away in its
own code or in a handler, and resumed by another CPU.

| part | what is hard | what should hold | modules |
|---|---|---|---|
| Scheduler core, tasks, preemption count, spin lock (`sched/schedcore.rs`, `task.rs`, `preempt.rs`, `sync/spin_lock.rs`) | a lock taken by one thread and released by another; interrupts at any instruction; guards on stacks that migrate | one owner of the lock, no shared or freed stack in use, no lost task, no self-deadlock | `Scheduler`, `TaskScheduling` |
| CPU bring-up (`lib.rs`) | CPUs enter the scheduler and enable interrupts at different times | the run queue lock is respected from the start | `SchedulerBoot`, `Interrupts` |
| Sleeping primitives (`sync/mutex.rs`, `wait_cell.rs`, `once_cell.rs`, `once_channel.rs`) | lost wake-ups, preemption between "Sleeping" and registration, wake-ups of tasks that are gone | a sleeper is awakened, a dead task is not | `Mutex`, `WaitCell`, `OnceChannel` |
| Timers (`tick.rs`, `hpet.rs`) | a lock shared with a handler, a clock that wraps | timers fire, sleeps last | `Timers` |
| Interrupts (`interrupts.rs`, `apic.rs`, `ioapic.rs`, `hpet.rs`, `keyboard.rs`) | handlers are installed while earlier ones already run | a requested vector has a handler and is served | `Interrupts` |
| All spin locks together | orders across tasks, handlers and CPUs | no cycle, and no lock held with interrupts on but the few that the code takes so | `KernelLocks` |
| Bitmap allocator and its bootstrap (`crates/bitmap-alloc`, `memory/physical.rs`) | a search that starts in the middle; a bitmap inside the memory it describes | first fit, one owner per page | `BitmapAlloc`, `PageAllocator`, `AllocBootstrap` |
| Page tables, stacks, address spaces (`memory/`, `sched/stack.rs`, `pci/device.rs`) | huge pages, cloned tables, one TLB per CPU | no frame with two owners, no stale translation in use | `PageTable`, `AddressSpaces` |
| User mode (`sched/userspace.rs`, `syscall.rs`, `gdt.rs`) | `swapgs` and stack pointers under interrupts and switches | kernel code never runs with the user's GS or on another task's stack | `UserEntry` |
| PCI and VirtIO set-up (`pci/`, `virtio/config.rs`, `device.rs`) | devices that fail, refuse or lie in unexpected places | a live device is completely set up | `PciConfig`, `VirtioInit` |
| VirtIO queues (`virtio/queue.rs`, `block.rs`, `rng.rs`) | rings shared with a device, indices that wrap | each request is answered once, by its own answer | `VirtQueue`, `RequestChannel` |
| ext2 (`fs/ext2`) | several flushes per operation, a stop between any two | what is on the disk stays consistent | `Ext2` |
| VFS, sysfs, shell commands (`vfs/`, `fs/sysfs.rs`, `shell.rs`) | lookups while tasks and mounts change; reads in pieces | lookups and reads answer what was there | `ShellFiles`, `FileRead` |
| Console (`crates/ring_buffer`, `graphics/`) | a ring that wraps | the screen shows the end of the text | `RingBuffer`, `RingHistory`, `TextBuffer` |

`PROJECT.json` lists every component with its files and status, and the hazards
at the lines where they bite.

## 2. Modules

`PROJECT.json` maps each definition to the lines it models. The `MC` modules
hold the instances that TLC checks, one `.cfg` per run. Components that a run
takes together without shared state (a mutex and a channel, the console and the
disk) are instances side by side: the variable `part` of the `MC` module says
which of them a behaviour is about, `Init` chooses it, and the variables of the
others stay as they are at first.

| instances | modules |
|---|---|
| `MCScheduler`, `MCSchedulerBoot` | `Scheduler`, `SchedulerBoot` |
| `MCMemory` | `BitmapAlloc`, `AllocBootstrap` |
| `MCSleeping` | `Mutex`, `WaitCell`, `OnceChannel` |
| `MCTimers` | `Timers` |
| `MCInterrupts` | `Interrupts`, `KernelLocks` |
| `MCVirtQueue` | `VirtQueue`, three devices |
| `MCShell` | `RingHistory`, `TextBuffer`, `Ext2`, `FileRead`, `ShellFiles` |
| `MCAddressSpaces` | `AddressSpaces` with small programs, with every kind of file and with device regions, `UserEntry` |
| `MCDevices` | `VirtioInit`, `PciConfig` |

Components that do interact are composed: the sleeping primitives extend
`TaskScheduling`, which `Scheduler` implements; `SchedulerBoot` extends
`Scheduler`; `AddressSpaces` works on `PageTable`, `VirtioInit` on `PciConfig`,
`TextBuffer` on `RingBuffer`.

| module | what it is |
|---|---|
| `Scheduler` | the scheduler with tasks, preemption count, spin lock and interrupts |
| `TaskScheduling` | what the scheduler promises: which tasks are on a CPU, and the state each asks for |
| `SchedulerBoot` | CPUs that enter the scheduler |
| `SchedulerInvariant`, `SchedulerProofs` | the inductive invariant, one lemma per action, the theorems, and the proof that `Scheduler` implements `TaskScheduling` |
| `Mutex`, `WaitCell`, `OnceChannel`, `Timers` | the code that sleeps and wakes, on `TaskScheduling` |
| `SleepingProofs` | proofs about the mutex and the timers |
| `Interrupts` | installation and delivery of interrupts while the CPUs come up |
| `KernelLocks`, `KernelLocksProofs` | the locks of the kernel taken together, and the proof that their orders fit |
| `PageAllocator`, `BitmapAlloc` | the promise of a page allocator, the bitmap allocator |
| `StructureProofs` | proofs about the bitmap allocator, the first bitmap, the ring buffer and reading a file |
| `AllocBootstrap` | from the boot loader's memory map to the first bitmap |
| `PageTable` | the operations on page tables, as operators on physical memory |
| `AddressSpaces` | boot of memory, stacks, tasks' tables, exec and PCI regions over `PageTable`, with TLBs |
| `UserEntry`, `UserEntryProofs` | entry to and exit from user mode, and the proof that the modes are kept apart |
| `PciConfig` | configuration space, as operators |
| `VirtioInit` | the boot scan and the handshake with the devices, over `PciConfig` |
| `RequestChannel`, `VirtQueue` | the promise of a driver; queue, block and entropy drivers and their device |
| `VirtQueueInvariant`, `VirtQueueProofs` | the inductive invariant of a virtqueue with its steps; the theorems, and the proof that `VirtQueue` implements `RequestChannel` |
| `Ext2` | creation and writing of files on a disk that survives a stop |
| `FileRead` | `read_all` over ext2 and sysfs |
| `ShellFiles` | path lookup, mounts, sysfs and the shell's file and exec commands |
| `RingBuffer`, `RingHistory`, `TextBuffer` | the ring buffer, its history, the console on top of it |

### Scheduler

State: `desired` and `slice` are the fields of `Task` (a task not in `TASKS` is
`Unborn` or `Deleted`), `pending` is the run queue, `skipped` the local deque of
the two loops over it, `rqLocked` the lock word. `current`, `needs`, `preempt`
and `ints` are the per-CPU variables and the interrupt flag. `run[c]` is the
stack the CPU executes on; it differs from `current[c]` between the assignment
of `CURRENT_TASK_ID` and `switch_to_task`. `kpc` and `irq` say where the two
levels of a stack stand, `saved` and `guards` which guards it holds.

Actions: `RunScheduler` is a call up to the decision to go on;
`RunQueueGuard`, `RunQueueCli` and `RunQueueLock` are the three steps of
`lock_disable_interrupts`; `ReapKilled`, `ReapKeep` and `ReapDone` are
`remove_killed_pending_tasks`; `PopSkip`, `PopReady`, `PopNoneStay` and
`PopNoneIdle` are `pop_next_ready_pending_task` with the rest of
`task_swap_parameters` (`SwapTo`); `SwitchToTask` changes the stack;
`UnlockTask`, `DropPreempt` and `UnlockIrq` drop the guard on whatever stack the
CPU is on by then; `ForceUnlockScheduler` and `SetPreemptCount` start a thread;
`Interrupt` is the whole external interrupt handler up to the decision to
reschedule. The rest are the calls a task can make.

The client is the most general one: a task outside the scheduler may call any
operation at any time, awaken any task that was ever created, take spin locks,
and switch the interrupt flag. What is proved therefore holds for every use the
kernel makes of the scheduler. After a panic nothing moves (`Halted`).

Steps are atomic where the code cannot tell the difference:

* An access to `TASKS` is one step, because its lock is held with interrupts off
  for that access alone.
* `RunScheduler` clears `NEEDS_RESCHEDULE` and evaluates the check in one step.
  What the check reads (the thread's own state and slice, the count of the CPU
  it runs on) can change between the two only by an interrupt, and an interrupt
  at that point has the effect of one just before or just after the call.
* `Interrupt` awakens tasks, charges the slice and evaluates the check in one
  step: interrupts are off on that CPU, and another CPU's wake-up in the middle
  has the effect of one before it.
* `delete_task` frees the stack at once. In the code the last `Arc` frees it, at
  this point or later; the model takes the earliest.

Two things the model makes visible: the idle task's own call of `run_scheduler`
never happens, because a request is never pending when it looks
(`IdleOwnCpu`), and the branch "Tried to switch to the same task" of
`task_swap_parameters` is never taken (the current task is never in the queue,
`QueueComplete`).

### SchedulerBoot

`later_per_cpu_setup` on each CPU, then on the bootstrap processor the tick and
the shell, and `start_scheduler` on every CPU at its own pace. The bootstrap
stack of a CPU is represented by extra locations of its idle task, since no code
of the idle task runs before. The tick can interrupt a CPU only after it enabled
interrupts.

### BitmapAlloc

`used` is the set of pages with their bit set, `last` is
`last_single_page_allocation`. A call of `allocate_contiguous` is `Allocate`
(which chooses where the scan starts), one `ScanUsed` or `ScanFree` per bit, and
`Found` or `NotFound`. `owned` is what callers hold; they free only pages they
hold, in parts if they like. `asserted` records a failed assertion of
`mark_used` or `mark_unused`. `Reserved` stands for the pages `bootstrap.rs`
leaves marked.

`PageAllocator` is the promise: the lowest block that fits, or none if there is
none, and pages belong to one owner.

### TaskScheduling, Mutex, WaitCell, OnceChannel, Timers

`TaskScheduling` keeps two variables of the scheduler: `desired`, the state each
task asks for, and `on`, the tasks that are current on a CPU. A task on a CPU may
be taken off at any moment; it comes back only when it is `ReadyToRun`.
`Scheduler` implements it with `on` = the tasks among the values of `current`.

The four modules of sleeping code extend it. Each has a location per task
(`mpc`, `wpc`, `rpc`, `tpc`), one action per access to shared state, and the
actions `Preempt` and `Resume`, which are `TaskScheduling`'s switches. The
constant `Preemptible` (not in `Timers`) says which tasks may be switched away, so
that a run can ask its question with and without preemption; `Exiting` says
which may exit afterwards. `awaken_task` replaces any state, as in the code, so
a late wake-up can hit a task that sleeps for another reason, that is being
killed, or that is gone.

* `Mutex`: `waiting` is `waiting_tasks`, `locked` the inner lock taken with
  `try_lock_allow_preempt`. `MutexGuard::drop` is `Drop`, `WakePop`,
  `WakeAwaken`, `WakeDone` and, after them, `Release`.
* `WaitCell`: the target runs `kill_current_task` (`Kill`, `SetCell`,
  `DrainWaiters`, `AwakenWaiter`, `Die`), the others `wait_on_task`. The borrow
  counter of `OnceCell`'s `RefCell` is a plain integer: `ReadBorrow` and
  `WriteBorrow` are two steps.
* `OnceChannel`: receivers sleep for a message; senders are interrupt handlers,
  which first make the message readable and then awaken. Between messages a
  receiver may sleep on a timer (`Nap`) or exit.
* `Timers`: `TIMERS` (a set: a tick looks at all of it) with its lock, `sleep_timeout` and the shell's timer
  command, and the tick handler, which runs on top of whatever the bootstrap
  processor executes. `now` is the elapsed milliseconds modulo `WrapMs`, because
  the product of the counter and the period is a 64-bit number. A task that
  sleeps can be awakened by anything else that knows it (`AwakenedByOther`: a late
  sender, a mutex whose list still has the task), and `sleep_timeout` does not
  check why it runs again. The history variable `disturbed` holds the tasks whose
  current sleep began with a timer of an earlier one left over, or that were
  awakened in it by another than a timer.

### Interrupts

Each CPU works through `plan`, the steps of `lib.rs` that concern interrupts, in
their order: IDT, table entries under the table's lock, IOAPIC and MSI-X
entries, local APIC, scheduler, the wake-up of the other CPUs, the HPET.
Interrupts are on from the load of the IDT. A source raises its vector; the
local APIC holds it (`irr`), delivers it, and waits for the EOI (`isr`); the
handler looks its source up in the table (`Lookup`), runs (`Handle`), and ends
(`EndOfInterrupt`, `Return`). Vectors 48 to 53 stand for 48 to 255: the last one
is the spurious vector.

### KernelLocks

Each piece of code is the sequence of its lock operations: `lock()` or
`lock_disable_interrupts()`, the order of nesting, and where the scheduler may
be called. `Prepare` raises the preemption count and, if asked to, saves and
clears the interrupt flag; `Acquire` ends the spin; `Unlock` and `Restore` drop
the guard. An owner word also records whether interrupts were off when the lock
was taken. `Programs` has the code of tasks: the heap, task creation and exit,
the scheduler, disk requests and their buffers, `exec`, sysfs, `Mutex`,
`WaitCell`, timers. `Handlers` has the two ticks, the ends of a read and of a
write, and the keyboard. `TaskCode` and `Interrupts` choose which code runs on
which CPU and which interrupts it gets. `InterruptibleLocks` are the locks that
the chosen programs take with `lock()` while interrupts are on.

Of the parts of `MCInterrupts`, `any_code` has every such lock on one CPU, with
any handler on top and a second CPU that competes; `one_cpu` and `two_cpus` have
the pairs of code and interrupts that cannot wait for each other, and there
`ProgramsEnd` asks that everything ends.

### AllocBootstrap

`Place` finds the region for the bitmap, `Fill` marks everything used,
`FreeRegion` frees the free regions with their rounding, and `Reserve` takes the
bitmap's pages back. The assertions of the code lead to `panic`. The code counts
the `u64`s of the bitmap and uses this number as its bytes: `BitmapMemory` is
where the bitmap is, `TakenBack` what the code takes back for it. `BootConstants`
only says that the regions of a map do not overlap.

### PageTable, AddressSpaces

`PageTable` holds the operations of `page_table.rs` and `mapping.rs` as operators
from physical memory to physical memory: `mem` maps a frame to what it holds
when it is read as a table, and a frame the allocator hands out may hold
anything (`Garbage`). `AddressSpaces` applies them: `MemoryInit`, stacks
(`AllocateStack`, `DropTask`), `CloneTable` for a new task, `StartScheduler` and
`SwitchToTask` with their load of CR3 (`LoadTask`), `ParseElf`, `SetUpSegment` and
`SetUpUserStack`, `MapBarRegion`. The idle task of a CPU is a task with a stack
and a table like any other; it is made before the CPUs pass the barrier of
`lib.rs`, and never exits. `UseMemory` fills the TLB of a CPU with any
translation the hardware could cache; `page.flush()` drops an entry on the
calling CPU only.

### UserEntry

The instructions of `jump_to_userspace`, of the entry and exit of system calls
and of the interrupt stubs between which something can go wrong: each store to
a per-CPU variable, each change of stack and each `swapgs`. A kernel stack is a
sequence of frames, and a stack pointer names a stack and a depth, so a frame
written over another one is visible.

### PciConfig, VirtioInit

`PciConfig` decodes BARs, capabilities and MSI-X tables; the iterator over
capabilities would not end on a list that comes back to itself, and `ListsEnd`
says that the machines have none. In `VirtioInit` the
bootstrap CPU visits every function (`SkipFunction`, `FoundDevice`), reads its
capabilities one by one, goes through the handshake (`Acknowledge`, `Driver`,
`Negotiate`, `FeaturesOk`, `CheckFeatures`, `SetupQueue`, `DriverOk`) and
registers the driver. A device obeys its status register and may fail at any
moment (`DeviceFails`).

### RequestChannel, VirtQueue

`RequestChannel` promises one answer per request, and one that the request
allows. In `VirtQueue` a task fills descriptors (`AddRequest`), the available
ring (`AddEntry`) and the index (`Publish`); the device takes chains and
completes them in any order, or in order if it is `inOrder`; `Interrupt` is the
handler, which processes the new entries and sends the answers. `device` is the
device the driver found, one of `Devices`: its driver, the size of its queue,
whether it works in order, and the bound on the requests of a behaviour. The 16-bit
indices count modulo `IndexRange`, a multiple of the queue size as 65536 is.

### Ext2, FileRead, ShellFiles

`Ext2` has the state of the disk and, in `mem`, the counters that are cached from
mount on. An operation is a sequence of steps that end in a flush each:
`ReserveBlock`, `CreateInode`, `InsertEntry`, `AdjustGroup`, `AdjustSuperblock`,
and `WriteFile`, `WriteSize`. A bitmap is a whole block, whose bits behind the last
inode or block mkfs has set. `Crash` may come between any two; the next `Mount`
reads the disk.

`FileRead` is one call of `read_all`: `CallRead`, then ext2's loop over blocks
(`ReadBlock`, `Ext2Returns`) or `SysfsRead`, then `Extend` or `ReadAllDone`. Byte
`p` of the file is the number `p + 1`, so misplaced bytes are told apart.
`ReadConstants` says which files are considered.

`ShellFiles` runs `mount`, `umount`, `ls`, `cat`, `write-to-file`, `prime` and
`exec`. `GetPathInode` takes the lock of the mounted root for the first step
only; `TraversePath` goes on one component at a time while tasks appear and
disappear in sysfs. The tasks of `exec` look up their program themselves. The
history variables `window` and `execFs` record what a path resolved to during a
call, and what was mounted when the command was typed.

### RingBuffer, RingHistory, TextBuffer

`RingBuffer` is `push`, `get`, `len` and the iterator; `RingHistory` adds the
sequence of everything pushed. `TextBuffer` is `write_char` and `new_line` over a
ring of lines, and the pixels that a flush draws.

## 3. Runs

| run | checks | what it shows |
|---|---|---|
| `scheduler` | `RunQueueExclusion`, `StacksSafe`, `QueueComplete`, `PreemptBalanced`, `IdleOwnCpu` | Two CPUs and two tasks under the most general client: the run queue lock that switch_to_task hands over excludes, no stack is shared or used after it is freed, no task is lost or queued twice, the preempt count follows the guards across CPUs, and an idle CPU never halts with a request pending. |
| `scheduler_live` | `RunQueueReleased`, `ImplementsTaskScheduling` | One CPU, two tasks that hold spin locks, and slices of two ticks: every critical section of the run queue ends, and the scheduler implements TaskScheduling. |
| `memory` | `NoAssertFails`, `FirstBitmapRight`, `RefinesPageAllocator` | The bitmap allocator is a first-fit page allocator whose assertions hold, and the first bitmap built from any memory map of three stretches, one to three pages large, offers exactly the free pages of which nothing was taken back for the bitmap. |
| `sleeping` | `MutualExclusion`, `SleepersQueued`, `WaitReturns`, `WaitsEnd` | Three tasks at a mutex, two that wait for a third to exit, and a receiver of messages, preempted anywhere: the mutex excludes, whoever sleeps for it is queued, and the other waits end, but for the cases the properties name. |
| `timers` | `SleepsLongEnough` | Two tasks that sleep and set timers, preempted, interrupted by ticks and awakened by others anywhere: no timer ends a sleep early, and a sleep is cut short only by another waker or by the timer left over from a sleep that was. |
| `interrupts` | `RequestedVectorsHandled`, `NoCircularWait`, `HoldersCannotBeInterrupted`, `RequestsServed`, `ProgramsEnd` | Interrupts while two CPUs boot, and the spin locks tasks and handlers share afterwards: requested vectors have handlers, requests are served unless they arrive while their CPU stores a handler, the lock orders fit together but for handlers that interrupt the holder of a lock taken with interrupts on, and where no handler waits for such a holder every program gets through. |
| `virtqueue` | `DeviceOwnsItsChains`, `PanicOnlyOnDeviceError`, `ImplementsRequestChannel`, `RequestsAnswered` | Two tasks on a block or entropy device that works in any order: chains stay intact while the device has them, and every task gets the answer to its own request. |
| `shell` | `HoldsLastPushed`, `ShowsEndOfText`, `DirectoriesSound`, `AllocationsSound`, `VisibleDataIsOwn`, `ReadContract`, `LookupsLinearizable` | Ring buffer and console, ext2 with a stop between any two flushes, reading of files and the shell's commands: what is shown, read and looked up is what was written. |
| `address_spaces` | `FramesOwnedOnce`, `NoStaleTranslation`, `KernelHalfShared`, `UserAccess`, `ModesKeptApart` | Two CPUs start the scheduler, create, switch and drop tasks with programs and user stacks, fall back to their idle tasks, map device regions and go to user mode and back: no frame has two uses, no stale translation is used, and each mode has its own stack and GS base. |
| `devices` | `LiveDevicesReady`, `DriversFindDevices`, `BarsDecoded`, `MachineComesUp` | Machines with healthy and defective PCI functions: a device goes live only when it is set up, handlers find it, BARs are decoded right and a healthy machine comes up. |

Two runs end in a counterexample. Each checks one statement of a comment;
`PROJECT.json` quotes it (`findings`).

* `scheduler_boot`, `LockHeldPastSwitch`: the comment in `run_scheduler` says that
  it is very important to hold the lock past `switch_to_task`. `start_scheduler`
  switches to the idle task without the lock, and the first thing a new thread
  does is to release it (`force_unlock_scheduler` in `task_setup`). When another
  CPU is inside its critical section at that moment, it goes on without the
  lock. The start-up barrier does not prevent it: `NUM_CPUS_BOOTSTRAPPED` is
  counted before `start_scheduler`.
* `mutex_lost_wakeup`, `LockSucceeds`: `MutexGuard::drop` awakens the waiters and
  releases the lock after that. A waiter that tries in between fails, queues
  again and sleeps, and nobody is left to awaken it. No preemption is needed.

### Statements the code does not meet

The modules state more of what comments, assertions and messages of the
repository say and the code does not do, under the heading "What comments say
and the code does not do". They are in no run. TLC refutes each of them when it
is checked in the named module with the constants below; where none are given,
those of the run of the module do. The rows of `FileRead` have constants that
`ReadConstants` excludes, so this assumption must be taken out to see them.

| module | statement | with | where | what happens |
|---|---|---|---|---|
| `SchedulerBoot` | `BootstrapIsNoTask` | | `sched/schedcore.rs:142` | Interrupts are on before `start_scheduler`: a tick schedules away the bootstrap code as if it were the idle task. |
| `Timers` | `SleeperHasTimer` | | `sched/schedcore.rs:321` | A task preempted inside `sleep_timeout` before its timer exists never wakes. |
| `Timers` | `SleepUndisturbed` | | `sched/schedcore.rs:325` | A task awakened by another than its timer returns from `sleep_timeout` too soon. |
| `Timers` | `TickReturns` | fairness of tasks and ticks | `tick.rs:83` | A tick that lands inside `add_timer` waits for the lock its own CPU holds. |
| `Timers` | `TimersFire` | fairness of tasks and ticks | `hpet.rs:97` | A timer set shortly before the femtosecond product wraps never expires. |
| `Mutex` | `OwnerNotAsleep` | | `sync/mutex.rs:50` | A task preempted between taking the inner lock and awakening itself sleeps with the mutex held. |
| `WaitCell` | `WokenWhenWritten` | | `sync/wait_cell.rs:41` | A waiter preempted before it registers sleeps for ever. |
| `WaitCell` | `GoneTasksInformed` | | `sched/schedcore.rs:335` | A task preempted between becoming Killed and informing its waiters is deleted silently. |
| `WaitCell` | `NoDeletedTaskFetched` | | `sync/wait_cell.rs:32` | A waiter that reads the value before the drain reaches its id can be gone when it is awakened. |
| `WaitCell` | `KillIsFinal` | | `sched/schedcore.rs:362` | The late wake-up makes a killed waiter ready again, and its `kill_current_task` returns. |
| `WaitCell` | `BorrowsBalance` | | `sync/once_cell.rs:75` | Two CPUs clone the value at once and lose an update of the `RefCell`'s counter. |
| `OnceChannel` | `SenderWakesReceiver` | | `sync/once_channel.rs:66` | A receiver preempted between `prepare_to_sleep` and its check sleeps on a message that was sent before. |
| `OnceChannel` | `NapsUndisturbed` | | `sched/schedcore.rs:325` | A receiver that saw the message early is awakened by its sender in the middle of a later `sleep_timeout`. |
| `OnceChannel` | `ReceiverExists` | | `sync/once_channel.rs:46` | The sender awakens a receiver that took the message, exited and was deleted. |
| `Interrupts` | `HandlersReachTable` | one CPU, fairness | `interrupts.rs:202` | A key pressed while the BSP stores a handler: the handler waits for the lock its own CPU holds. |
| `Interrupts` | `AllVectorsHaveStubs` | | `interrupts.rs:143` | The spurious vector has no stub: a spurious interrupt stops the kernel. |
| `Interrupts` | `TimerZeroExists` | `Comparators = 1` | `hpet.rs:144` | An HPET with one timer is refused. |
| `Interrupts` | `TicksArrive` | one CPU, `IoapicId = 1`, fairness | `ioapic.rs:29` | An IOAPIC whose id is not the id of a CPU: no tick ever arrives. |
| `KernelLocks` | `NoWaitForEver` | two CPUs, `{"response"}` and `{"new_task"}`, `"tick"` on the first | `memory/physical.rs:48` | One CPU drops a read response, a tick interrupts it under the lock of the physical allocator, and the other CPU is creating a task: both spin for ever. |
| `KernelLocks` | `NoWaitForEver` | one CPU, `{"response"}`, `"written"` | `memory/physical.rs:48` | The handler of a finished write waits for the physical allocator's lock that its own CPU holds. |
| `KernelLocks` | `NoWaitForEver` | one CPU, `{"timer"}`, `"broadcast"` | `tick.rs:83` | The tick handler waits for `TIMERS`, which the code it interrupted holds. |
| `KernelLocks` | `NoWaitForEver` | one CPU, `{"ls_tasks"}`, `"tick"` | `fs/sysfs.rs:52` | A tick waits for the lock of `TASKS` that listing sysfs holds with interrupts on. |
| `AllocBootstrap` | `BitmapReserved` | | `crates/bitmap-alloc/src/bootstrap.rs:83` | The bitmap takes more than a page of `u64`s (from 128 MiB on): its later pages stay free. |
| `AddressSpaces` | `KernelHalfShared` | a region that crosses a page | `pci/device.rs:358` | The last page of a PCI region that starts inside a page and ends in the next one is not mapped. |
| `VirtQueue` | `NoCompletionLost` | a device with `maxRequests >= IndexRange` | `virtio/queue.rs:172` | The used index wraps, and the completion that wraps it is never handed to its task. |
| `VirtQueue` | `DeviceOwnsItsChains` | a device with `size = 8`, not `inOrder` | `virtio/queue.rs:295` | One slow request: later ones go round the descriptor table and overwrite the chain the device still owns. |
| `VirtioInit` | `RegionsMapped` | a structure of three pages | `virtio/config.rs:265` | A notification structure is mapped by the length of its capability, one page. |
| `VirtioInit` | `SplitQueuesNegotiated` | feature 34 offered | `virtio/device.rs:67` | A device that offers packed virtqueues is told to use them. |
| `VirtioInit` | `BrokenDeviceNotDriven` | | `virtio/device.rs:148` | A device that has failed during the handshake is set live. |
| `VirtioInit` | `NotificationDataNegotiated` | | `virtio/config.rs:448` | NOTIFICATION_DATA is never negotiated, although a comment assumes it is. |
| `VirtioInit` | `LiveDevicesReady` | two entropy devices | `virtio/rng.rs:30` | The second entropy device frees the rings of the first, which stays live. |
| `Ext2` | `AllocationsSound` | `FirstDataBlock = 1` | `fs/ext2/block_group.rs:40` | The first file created is given the block of the root directory. |
| `FileRead` | `ReadContract` | a sysfs file longer than `Chunk` | `fs/sysfs.rs:145` | The last read reports the length of the whole file. |
| `FileRead` | `ReadContract` | blocks of `2 * Chunk` | `fs/ext2/vfs.rs:84` | A read that starts inside a block returns too few bytes. |
| `FileRead` | `ReadContract` | `NumDirect = 2`, 19 bytes | `fs/ext2/file_system.rs:191` | Every block after the direct ones is read from the same place. |
| `ShellFiles` | `ParentReallyMissing` | | `shell.rs:609` | `write-to-file` for a file that does not exist reports a missing parent directory that is there. |

The passing runs stand beside these: they say what does hold under the same
interleavings. `WaitReturns`, `WaitsEnd`, `SleepsLongEnough`, `RequestsServed`,
`NoCircularWait`, `HoldersCannotBeInterrupted` and the last line of
`FirstBitmapRight` name what the rows above are about as their exceptions;
`ProgramsEnd` is about the parts of `interrupts` that leave out the pairs of code
and interrupt in the rows of `KernelLocks`. For the kernel as the `Makefile`
starts it, with 2 GiB, the exception of `FirstBitmapRight` is the rule.

### Bounds

* Scheduler: two CPUs and two tasks are enough for a task to be left by one CPU
  and resumed by the other while a second task is skipped, reaped or created. A
  slice of one tick lets every tick reschedule; `scheduler_live` has slices that
  survive a tick. In both a task may hold a lock when the tick arrives. Task ids are
  not reused (`next_task_id` only grows), so two tasks are two creations in the
  life of the system. The CPUs are symmetric in `scheduler`, which has no temporal
  property; tasks are not, because the shell is one of them. `MCView` leaves out
  the slices of the idle threads there: with slices of one tick, a tick leaves 0
  of any slice, an idle thread wants to be preempted whatever its slice, and no
  invariant reads one. `MaxGuards` bounds nested guards. The proofs remove these
  bounds.
* Bitmap: two chunks, because the shortcut rounds down to a chunk and blocks can
  cross the border, and a reserved page in each so that blocks are interrupted.
  Bootstrap: pages of 8 bytes, chunks of 2 bytes with 16 bits, and every memory
  map of three stretches of free, used or unreported memory, of 3 to 400 bytes. It
  has up to 150 pages: bitmaps fill one to three pages, and the code takes back
  one or two.
* Mutex: three tasks and two rounds, so that a task can queue while a second
  drops and a third holds, and a task can be awakened by an entry of its first
  round. WaitCell: two waiters, so that one can read while the other is drained.
  Two of the three tasks may be preempted, anywhere; the third gives its CPU up
  only where it goes to sleep.
  OnceChannel: three messages, so that the wake-up of one can meet the next two.
* Timers: two tasks, timeouts of one and two ticks, and a clock that wraps after
  three; `MaxTimers` bounds the timers in the list. Either task may be awakened by
  others at any time. The tasks are symmetric.
* Interrupts: two CPUs, two devices, keyboard and HPET; one device where liveness
  is checked. KernelLocks: two programs on one CPU with three interrupts, or one
  on each of two CPUs with one (`MaxPrograms`, `MaxRaised`). A circle needs no
  more: one program and one handler on top of it on one CPU, and a program on
  another. The proofs remove these bounds.
* VirtQueue: a block request is three descriptors. A queue of 16 holds all
  requests of the first device; a queue of 8 with five requests makes
  chains wrap around the end of the table; a queue of 2 is full most of the time.
  `IndexRange` is a multiple of the queue size, as 65536 is, and above the number
  of requests. `maxRequests` of a device bounds the requests, `Buffers` the buffers
  in use.
* Ext2: one group with six inodes and six blocks, bitmaps of eight bits, a directory block that holds a
  few names, three mounts: inodes, blocks and directory space all run out within
  the run. FileRead: buffers of 4 bytes, files of up to three buffers and one
  byte, 13 direct blocks so that no file needs the indirect one. ShellFiles: four
  commands, three tasks, two processes per `exec`: a listing of sysfs can overlap
  a `prime` task and both programs of an `exec`. TextBuffer: three lines of two
  columns and seven characters, so the ring wraps. RingHistory: three elements
  and eight pushes.
* AddressSpaces: tables of 6 or 8 entries, 33 frames, pages of 4 bytes, kernel
  stacks of two pages and user stacks of one, four stack slots for two idle tasks
  and two others, so that slots and frames are reused. Two tasks run a program of
  one segment, and one task any of the files. The four
  levels and the huge pages of the boot loader are kept. UserEntry: two user
  tasks and two CPUs, each with its idle task; nesting is bounded by the code.
  The CPUs are symmetric, and so are the tasks of AddressSpaces.
* VirtioInit: two buses of two devices of two functions; two healthy machines
  and sixteen that each have one defect; one failure of a device. Their lists of
  capabilities end (`ListsEnd`). PciConfig: six
  registers with five contents each, all combinations.

Deadlock checking is off where the bounded instance ends (all requests sent, all
tasks gone) and where the code itself stops for good.

### Fairness

Weak fairness, and only of what keeps going by itself, but for one case:

* `Scheduler`: a CPU that executes scheduler code goes on executing it. Nothing
  is assumed of the tasks' calls or of interrupts.
* `Mutex`, `WaitCell`, `OnceChannel`: a ready task gets a CPU again (weak), because
  the run queue is first in, first out over the ready tasks and `SliceTicks`
  bounds a turn. A task that is on a CPU time and again executes its code
  (strong): a tick can take it off its CPU before any step, but a turn lasts
  several ticks and a tick takes far less than the time between two of them, so
  it cannot do so before the same step for ever. Killed tasks are deleted by the
  next run of the scheduler. The sender of `OnceChannel` is an interrupt handler,
  which goes on.
* `VirtQueue`: tasks, handler and device go on; the device finishes the
  chain it has had for longest at last, and so every chain it takes, in whatever
  order.
* `VirtioInit`: the bootstrap CPU goes on. Devices need not fail.
* `Interrupts`: CPUs go on with set-up and handlers, and a running HPET ticks.
  Keys need not be pressed.
* `KernelLocks`: CPUs go on, and a pending interrupt is delivered once the flag
  allows it. A spin loop that loses the race for a lock tries again; the programs
  of a run are finitely many, so it does not lose for ever. Part `any_code` has no
  fairness: only invariants are asked of it.

## 4. Proofs

All theorems hold for every value of the constants that the named assumptions
allow; nothing else is assumed. `SchedConstants`, `BitmapConstants`, `NAssumption`,
`BootConstants` and `ReadConstants` are `ASSUME`s that TLC evaluates. The other
components state theirs as hypotheses of the theorems:

| assumption | what it says |
|---|---|
| `BootConstants` | the regions of a memory map do not overlap; pages and chunks have any size |
| `ReadConstants` | an ext2 file has direct blocks only and its blocks divide the buffer of `read_all`; a sysfs file fits the buffer. Each of the three is needed (the table in section 3) |
| `Rounds \in Nat` | each task takes the mutex some number of times |
| `TimerConstants` | the clock wraps after some number of ticks, and timeouts are natural numbers |
| `UserConstants` | every CPU has an idle task, and idle tasks stay in the kernel |
| `LockConstants` | any CPUs, on each of them any of the programs, any number of times, and any of the handlers |
| `QueueConstants` | indices count modulo a multiple of the queue's size, no behaviour makes as many requests as there are indices, and each device either has room for all requests of a behaviour or finishes in order and has room for one request per task |

**Scheduler.** `SchedulerInvariant` states `IInv`: `TypeOK`, the safety properties
of the runs, `NoInterruptUnderLock`, `IdleOwnCpu` and `ThreadShape`. The properties are not inductive alone. That a
resumed thread releases the lock needs to know that every thread off the CPUs
stands right after `switch_to_task` or at its start (`OffCpuShape`); that it
does so with the right count needs to know that it was switched away without
guards, in its own code or in a handler over code without guards (`FrameShape`);
that the deque of the loops is nobody else's needs `SkippedShape`; that a new
task is in exactly one pair of hands needs `ChildShape`; that the stack changes
to another one needs `SwitchShape`. `ThreadShape` collects these.

The argument has one lemma per action. Most actions move one thread from one
place to another and change little else, so the common part is proved once:
`Kept` says which conjuncts survive when no stack pointer and no count changes,
`Moved` which survive when one thread moves between places of the same kind.
Each action lemma then treats the conjuncts the action can disturb. Together they
give `InvariantHolds`, and from it `TypeCorrect`, `LockExcludes`,
`StacksAreSafe`, `NoTaskLost`, `PreemptCountExact`, `NoSelfDeadlock` and
`IdleStaysHome`.

It also proves `SchedulerImplementsTasks`: the scheduler implements
`TaskScheduling`, so what the modules of the sleeping primitives assume of it
holds for any number of CPUs and tasks. Most actions leave `desired` and
`current` alone and are stutters. The others use the invariant: the task at the
head of the queue is current nowhere (`QueueComplete`), so it may be deleted or
put on a CPU; the task that leaves a CPU is current on that CPU alone
(`StacksSafe`), so it really leaves; and a thread that changes its own state is
the current task of its CPU (`StacksSafe`) and not an idle task (`IdleShape`).

**Bitmap allocator.** The invariant is the conjunction of `TypeOK`, `BitmapIsOwnership`,
`NoAssertFails`, `BelowLastUsed` and `ScanInv`. `BelowLastUsed` is what makes the shortcut sound: everything below
the mark is used, so starting there misses nothing. `ScanInv` carries it through
a call: no block fits before `start`, and the pages from `start` on are free.
From it follow `AssertionsHold`, `OwnershipHolds` and `Refinement`.

**Ring buffer.** `RingBufferCorrect`: for every size `N`, `len` and `get` describe
exactly the last `N` elements pushed. The invariant `RingInv` says where the
element pushed `k` steps ago lies; that the slots of the last `N` pushes are
different is the arithmetic of `%`, proved as lemmas.

**First bitmap.** `BootInv` says what each phase of `bootstrap_allocator` has made of the
bits: all set, then all but those of the free regions before `nextRegion`, then
also those of the bitmap. Four facts carry the steps: the pages of a free region
are those that lie in it with every byte (`FreePage`), so that two of them share
none (`FreeApart`) and `mark_unused` finds its bits set; the bitmap has a bit for
every page (`BitForEveryPage`); and the pages taken back are the first ones of a
free region (`BitmapPages`), so that `mark_used` finds their bits clear. `BootstrapCorrect`
is `FirstBitmapRight`, for memory of any size. That the bitmap lies in the pages
taken back is not proved, since it is false from 128 MiB on (`BitmapReserved`); the
theorem says so under the condition that it fits them. That a memory map has a last end is an induction over its
regions, done with the least number principle (`LeastNatural`, `LargestOf`).

**Reading files.** `ReadInv` says that `buffer` holds the bytes before `offset`, that the
offset stands on a block boundary, and that ext2's loop has read up to the
start of its block or to `end` (`current`, `Filled`). So the slice of a block
starts at 0 (`SliceIsNext`), which is what the code's `slice_end` is right for.
`ReadAllCorrect` is `ReadContract`.

**Mutex.** `MutexInv` adds to `MutualExclusion` that a task which neither waits for
the mutex nor has it stands in no list (`ListedTasksLock`), that only such tasks
exit (`ExitedTasksDone`), and that a sleeper is still in `waiting_tasks` or in the
hands of a `wake_tasks` that has not yet awakened it (`PushedFound`). The first two
are why an old entry never makes `awaken_task` meet a deleted task. `MutexExcludes`
and `MutexFindsSleepers` follow.

**Timers.** `NoSleepEndsEarly` needs three things of `TimerInv`: a timer that wakes a
task belongs to the sleep the task is in and is the only one that does
(`TimersCurrent`), so no timer of an earlier sleep ends a later one; a timer
still in the hands of `sleep_timeout` expires no sooner than asked for
(`TimerInHand`); and a task that is ready has slept long enough (`ReadyInTime`).
That the clock wraps only delays: it never runs ahead of the ticks (`ClockSlow`).
All three are about tasks that are not `disturbed`. That a task which nobody but
timers awakened starts its next sleep without a timer left over follows from the
first and the third.

**User mode.** `Inv` of `UserEntryProofs` relates each CPU to the task on it
(`CpuFits`: GS base, `RSP0`, the system call stack, the scratch slot), each task to
what is saved for it (`TaskFits`: its frames are its own, and the outermost handler
knows what it interrupted), and says that a task on no CPU was left in kernel code.
The last is what makes a switch sound: the next CPU finds the task with the
kernel's GS. `UserModeKeptApart` reads off `ModesKeptApart`.

**Locks.** The code a CPU has still to run is a sequence of steps, so the invariant
must say that all of it is in order. What a piece of code holds is a `State`: the
locks it took while interrupts were on, and what keeps interrupts off.
`Runs(s, H, K)` says that the code `s` can run from holding `H` to holding `K`, every
step taking a lock above those held in one fixed order (`Rank`): being in a
handler, then `handlers`, `keyboard`, `timers`, `device`, `waiting`, `cell`,
`runqueue`, `tasks`, `stacks`, `table`, `physical`, `heap`, `logger`. One lemma per
piece of code shows that it runs (`ProgramsRun`, `HandlersRun`). A handler and the
task under it are two pieces of code: each keeps the order, but a lock the task
holds with interrupts on need not be below those the handler takes. So `LockInv`
says that what each CPU executes runs from what this code holds, that the task
under a handler can go on from the locks it kept (`Resumable`), and that the owner
words agree with both. Because the order is total, CPUs that wait in a circle would
climb for ever, unless one of them waits for a lock of a task that has a handler on
top (`LockOrdersFit`). Because a guard that switches interrupts on was the first to
switch them off, a lock taken with interrupts off is given back before they come on;
and the steps that call `lock()` with interrupts on are those of
`InterruptibleLocks` (`LocksKeepInterruptsOff`). The exceptions are real: the rows
of `KernelLocks` in section 3 have one instance for each of three locks.

**Virtqueues.** The drivers do not keep track of free descriptors: they take the next
slots in a circle. So the invariant counts requests from the start. `Fits(d, num, own)` says
of a device `d` that task `t` made request number `num[t]`, whose chain therefore lies in the
slots `At(d, num[t], k)`, in buffer `own[t]`; `QueueInv` says that such numbers
and buffers exist. Its parts: the chain of a request that is not yet answered is as
the request wrote it (`TaskFits`), tasks have different numbers and buffers
(`OwnersFit`), the available ring holds the chains the device has not taken
(`RingFits`), what the device works on (`WorkFits`) and what the handler has still to read
(`UsedFits`) are chains of waiting tasks, each once, and all open requests lie
within `Room(d)` numbers of each other (`OrderFits`, `Flow`). The last is what makes
the circle safe: chains whose numbers are less than `Room(d)` apart share no slot.
It needs the hypothesis: one slow request on a device that works in any order breaks it
(the table in section 3). `VirtQueueInvariant` has the lemmas on remainders and slots and
those for the steps of a request, of the device and of the handler; `VirtQueueProofs` has the new request,
`QueueHolds`, and what follows: `ChainsOwned`, `PanicNeedsDeviceError`, and
`AnswersOwnRequest`, the refinement of `RequestChannel`: the handler's step is
an answer to each task it serves, and all others are an `Ask`, a `Receive` or a stutter.
`CompletionsKept` (`NoCompletionLost`, which no run checks) needs in addition that
an interrupt is pending while used entries are unread (`LostInv`).

Only model-checked: all liveness properties; the safety properties of the modules
without theorems. Fairness and
`ENABLED` are outside the prover, and so is what the folds in `TextBuffer` and
`Ext2` compute. `PageTable` and `AddressSpaces` use bit operations the prover does
not know. `BootInv` and `ReadInv` are in no run; TLC finds them true on the
instances of `memory` and `shell` when they are added to the configurations.

## 5. Not modelled, and why

Left out of modelled parts:

* `KernelLocks`: the lock of a task's own page table and those of the shell's line
  and the screen (nobody competes for them; the serial port has none), the read
  side of the block device's `RwLock`, and repeated rounds of a loop that takes the
  same locks.
* `Interrupts`: CPU exceptions. Their handlers print and stop.
* `Ext2`: directories of more than one block, double indirection (a `TODO` in the
  code) and the text of names. The number of groups is a
  parameter; the runs have one, because with two a file created in the second
  group is given a block of the first: `reserve_next_free` leaves out the start
  of the group there too, the same addition that fails with `FirstDataBlock = 1`.
* `AddressSpaces`: the bytes of user pages and of segments. Whether a fresh frame
  is cleared before a program sees it (`sched/userspace.rs:96` copies only the
  bytes of the file) is therefore not asked. Frames of a dead task's
  tables are never returned by the code, and no statement of the repository
  contradicts that.
* `UserEntry`: the ELF format, the bytes of the arguments on the user stack, the system calls'
  own effects.
* `Scheduler`: contents of registers and of the first frame of a stack.

Not modelled at all:

* Thin wrappers over atomics and over libraries (`sync/atomic_int.rs`, `init_cell.rs`,
  the heap's free list in `linked_list_allocator`): no control of their own.
* The arithmetic of block sizes in `block.rs`, ACPI and boot loader tables, names of
  PCI vendors, FAT (one structure that is printed), glyphs and colours, ANSI
  codes, line editing, serial output and logging beyond their locks: conversions
  and output without state that a property of the kernel depends on.
* The test harness, the programs under `userspace/`, and the code under
  `old-code/`, which is not part of the build.

Hazards in `PROJECT.json` that no property covers say why in their note.
