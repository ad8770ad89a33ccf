----------------------------- MODULE Interrupts -----------------------------
(***************************************************************************)
(* External interrupts while the CPUs come up: interrupts.rs, apic.rs,     *)
(* ioapic.rs, hpet.rs, keyboard.rs, the set-up of tick.rs and the MSI-X    *)
(* handlers of virtio, in the order of lib.rs.                             *)
(*                                                                         *)
(* Every CPU works through its plan, the sequence of the set-up steps that *)
(* concern interrupts.  Interrupts are on from the load of the IDT, so any *)
(* later step can be interrupted by the handlers installed so far.         *)
(***************************************************************************)
EXTENDS Naturals, Sequences, SequencesExt, FiniteSets

CONSTANTS
  CPU,          \* local APIC ids
  BSP,
  IoapicId,     \* the id in the IOAPIC's own register
  Device,       \* VirtIO devices with an MSI-X interrupt
  CPUTick,      \* the reserved vector; the next one is the first open vector
  Spurious,     \* SPURIOUS_INTERRUPT_VECTOR_INDEX
  Comparators,  \* how many timers the HPET has
  Paced         \* TRUE: interrupts come so slowly that those before are taken
                \* (ticks are 50 ms apart)

VARIABLES
  plan,         \* set-up steps a CPU has yet to do
  iflag,        \* interrupt flag
  lapic,        \* the local APIC is enabled
  irr, isr,     \* vectors the local APIC holds: requested, in service
  frame,        \* what the CPU executes: its code or a step of the handler
  need,         \* NEEDS_RESCHEDULE
  table,        \* EXTERNAL_INTERRUPT_HANDLERS: the source each vector serves
  lock,         \* the CPU that holds its lock, as a set
  next,         \* NEXT_OPEN_INTERRUPT_INDEX
  vec,          \* the vector of each source, once it has one
  dest,         \* destination of each unmasked IOAPIC or MSI-X entry
  ticking,      \* the HPET's periodic timer is on
  bootstrapped, \* NUM_CPUS_BOOTSTRAPPED, as the set of those CPUs
  panic

cpuVars == <<iflag, frame, need>>
apicVars == <<lapic, irr, isr>>
setupVars == <<table, lock, next, vec, dest, ticking, bootstrapped>>
vars == <<plan, cpuVars, apicVars, setupVars, panic>>

Source == {"key", "hpet", "cputick"} \cup Device
Vector == CPUTick..Spurious

\* Mutant of Install: the entry is unmasked before the handler is stored.
InstallLate(s) == << <<"vector", s>>, <<"unmask", s>>, <<"lock", s>>, <<"store", s>>,
                     <<"route", s>> >>

\* install_interrupt for the next open vector, and the route to it.
Install(s) == << <<"vector", s>>, <<"lock", s>>, <<"store", s>>, <<"unmask", s>>,
                 <<"route", s>> >>

\* early_per_cpu_setup: interrupts on, then tick::per_cpu_init.
Early == << <<"idt", BSP>>, <<"lock", "cputick">>, <<"store", "cputick">> >>

\* later_per_cpu_setup.
Later == << <<"lapic", BSP>>, <<"sched", BSP>> >>

\* init_keyboard, and install_virtqueue_msix_handler for each device.
InitKeyboard == Install("key")
InstallDevice(d) == Install(d)

\* global_setup.
GlobalSetup ==
  InitKeyboard \o FlattenSeq([i \in 1..Cardinality(Device) |->
                                InstallDevice(SetToSeq(Device)[i])])

\* enable_periodic_timer_handler, called by tick::global_init.
TickGlobalInit == Install("hpet") \o << <<"hpet", BSP>> >>

\* bootstrap_secondary_cpu.
SecondaryPlan == << <<"woken", BSP>> >> \o Early \o Later

\* start.
Plan(c) ==
  IF c = BSP
  THEN Early \o GlobalSetup \o Later \o << <<"wake", BSP>>, <<"wait", BSP>> >>
       \o TickGlobalInit
  ELSE SecondaryPlan

Init ==
  /\ plan = [c \in CPU |-> Plan(c)]
  /\ iflag = [c \in CPU |-> FALSE]
  \* The firmware may leave the BSP's local APIC enabled.
  /\ lapic \in {[c \in CPU |-> on /\ c = BSP] : on \in BOOLEAN}
  /\ irr = [c \in CPU |-> {}]
  /\ isr = [c \in CPU |-> {}]
  /\ frame = [c \in CPU |-> "code"]
  /\ need = [c \in CPU |-> FALSE]
  /\ table = [v \in Vector |-> "default"]
  /\ lock = {}
  /\ next = CPUTick + 1
  /\ vec = [s \in {"cputick"} |-> CPUTick]
  /\ dest = [s \in {} |-> BSP]
  /\ ticking = FALSE
  /\ bootstrapped = {}
  /\ panic = {}

-----------------------------------------------------------------------------
(* The set-up steps *)

\* CPU c, in its own code, does the step op of its plan; s is its argument.
Step(c, op, s) ==
  /\ panic = {}
  /\ frame[c] = "code"
  /\ plan[c] # <<>>
  /\ Head(plan[c]) = <<op, s>>
  /\ plan' = [plan EXCEPT ![c] = Tail(plan[c])]

With(f, x, y) == [z \in DOMAIN f \cup {x} |-> IF z = x THEN y ELSE f[z]]

\* init_interrupts: IDT, PIC off, interrupts on.
InitInterrupts(c) ==
  /\ Step(c, "idt", BSP)
  /\ iflag' = [iflag EXCEPT ![c] = TRUE]
  /\ UNCHANGED <<frame, need, apicVars, setupVars, panic>>

\* The first half of install_interrupt: the vector, which must be below the
\* spurious one.
TakeVector(c, s) ==
  /\ Step(c, "vector", s)
  /\ vec' = With(vec, s, next)
  /\ next' = next + 1
  /\ panic' = IF next < Spurious THEN panic ELSE {"Ran out of interrupt vectors"}
  /\ UNCHANGED <<cpuVars, apicVars, table, lock, dest, ticking, bootstrapped>>

\* The second half takes the lock of the table, with interrupts on ...
LockTable(c, s) ==
  /\ Step(c, "lock", s)
  /\ lock = {}
  /\ lock' = {c}
  /\ UNCHANGED <<cpuVars, apicVars, table, next, vec, dest, ticking, bootstrapped, panic>>

\* ... stores the handler and releases it.
StoreHandler(c, s) ==
  /\ Step(c, "store", s)
  /\ table' = [table EXCEPT ![vec[s]] = s]
  /\ lock' = {}
  /\ UNCHANGED <<cpuVars, apicVars, next, vec, dest, ticking, bootstrapped, panic>>

\* install_irq sends the interrupts of the IOAPIC to the APIC id that the IOAPIC
\* reads in its own id register, set_interrupt_vector those of a device to the
\* processor it is given, the BSP.
Destination(s) == IF s \in Device THEN BSP ELSE IoapicId

\* write_64_bit_register writes the low half of the entry first: it is unmasked
\* while its destination is still the one after reset, 0.  The address of an
\* MSI-X entry is written before it is unmasked.
Unmask(c, s) ==
  /\ Step(c, "unmask", s)
  /\ dest' = With(dest, s, IF s \in Device THEN Destination(s) ELSE 0)
  /\ UNCHANGED <<cpuVars, apicVars, table, lock, next, vec, ticking, bootstrapped, panic>>

Route(c, s) ==
  /\ Step(c, "route", s)
  /\ dest' = With(dest, s, Destination(s))
  /\ UNCHANGED <<cpuVars, apicVars, table, lock, next, vec, ticking, bootstrapped, panic>>

\* apic::per_cpu_init.
EnableLapic(c) ==
  /\ Step(c, "lapic", BSP)
  /\ lapic' = [lapic EXCEPT ![c] = TRUE]
  /\ UNCHANGED <<cpuVars, irr, isr, setupVars, panic>>

\* sched::per_cpu_init, and the CPU is counted.
InitScheduler(c) ==
  /\ Step(c, "sched", BSP)
  /\ bootstrapped' = bootstrapped \cup {c}
  /\ UNCHANGED <<cpuVars, apicVars, table, lock, next, vec, dest, ticking, panic>>

\* bootstrap_cpu for the other CPUs.
WakeCPUs(c) ==
  /\ Step(c, "wake", BSP)
  /\ UNCHANGED <<cpuVars, apicVars, setupVars, panic>>

Woken(c) ==
  /\ \A i \in DOMAIN plan[BSP] : plan[BSP][i][1] # "wake"
  /\ Step(c, "woken", BSP)
  /\ UNCHANGED <<cpuVars, apicVars, setupVars, panic>>

AllBootstrapped == bootstrapped = CPU

WaitForCPUs(c) ==
  /\ Step(c, "wait", BSP)
  /\ AllBootstrapped
  /\ UNCHANGED <<cpuVars, apicVars, setupVars, panic>>

\* enable_periodic_timer for timer 0; number_of_timers is one less than the
\* number of timers.
EnableHpet(c) ==
  /\ Step(c, "hpet", BSP)
  /\ IF 0 < Comparators - 1 THEN ticking' = TRUE /\ UNCHANGED panic
     ELSE panic' = {"HPET only has"} /\ UNCHANGED ticking
  /\ UNCHANGED <<cpuVars, apicVars, table, lock, next, vec, dest, bootstrapped>>

-----------------------------------------------------------------------------
(* Interrupts *)

\* Keys may be pressed at any time; a device answers requests, and only tasks
\* make requests.
Active(s) ==
  \/ s = "key"
  \/ s = "hpet" /\ ticking
  \/ s \in Device /\ plan[BSP] = <<>>

\* A source raises its interrupt.  The message is lost when its entry is still
\* masked or no enabled local APIC has the destination's id.
Raise(s) ==
  /\ panic = {}
  /\ Active(s)
  /\ Paced => \A c \in CPU : irr[c] = {}
  /\ s \in DOMAIN dest
  /\ dest[s] \in CPU
  /\ lapic[dest[s]]
  /\ irr' = [irr EXCEPT ![dest[s]] = @ \cup {vec[s]}]
  /\ UNCHANGED <<plan, cpuVars, lapic, isr, setupVars, panic>>

\* The CPU takes the highest requested vector; the gate turns interrupts off.
Deliver(c) ==
  /\ panic = {}
  /\ iflag[c]
  /\ frame[c] = "code"
  /\ isr[c] = {}
  /\ \E v \in irr[c] :
       /\ \A u \in irr[c] : u <= v
       /\ irr' = [irr EXCEPT ![c] = @ \ {v}]
       /\ isr' = [isr EXCEPT ![c] = {v}]
  /\ iflag' = [iflag EXCEPT ![c] = FALSE]
  /\ frame' = [frame EXCEPT ![c] = "lookup"]
  /\ UNCHANGED <<plan, need, lapic, setupVars, panic>>

\* The local APIC delivers the spurious vector, for which init_idt has set up
\* no stub: the exception handler panics.
DeliverSpurious(c) ==
  /\ panic = {}
  /\ iflag[c]
  /\ lapic[c]
  /\ frame[c] = "code"
  /\ panic' = {"segment not present"}
  /\ UNCHANGED <<plan, cpuVars, apicVars, setupVars>>

\* common_external_interrupt_handler: the handler is copied under the lock.
Lookup(c) ==
  /\ panic = {}
  /\ frame[c] = "lookup"
  /\ lock = {}
  /\ frame' = [frame EXCEPT ![c] = "handler"]
  /\ UNCHANGED <<plan, iflag, need, apicVars, setupVars, panic>>

Handler(c) == CHOOSE s \in Source \cup {"default"} : \E v \in isr[c] : table[v] = s

\* send_ipi_all_cpus, to every local APIC that is enabled, its own included.
SendIpiAllCpus(v) == [k \in CPU |-> IF lapic[k] THEN irr[k] \cup {v} ELSE irr[k]]

\* default_external_interrupt_handler panics, and so does cpu_tick_handler before
\* there is a current task to charge.
HandlerPanic(c) ==
  CASE Handler(c) = "default" -> {"Unhandled external interrupt"}
    [] Handler(c) = "cputick" /\ c \notin bootstrapped -> {"no current task"}
    [] OTHER -> {}

\* The handler: tick_broadcast_handler sends CPUTick to all CPUs; the handlers of
\* ticks and devices may ask for the scheduler.
Handle(c) ==
  /\ panic = {}
  /\ frame[c] = "handler"
  /\ irr' = IF Handler(c) = "hpet" THEN SendIpiAllCpus(CPUTick) ELSE irr
  /\ panic' = HandlerPanic(c)
  /\ need' \in IF Handler(c) \in {"key", "default"} THEN {need}
               ELSE {need, [need EXCEPT ![c] = TRUE]}
  /\ frame' = [frame EXCEPT ![c] = "eoi"]
  /\ UNCHANGED <<plan, iflag, lapic, isr, setupVars>>

\* Mutant of EndOfInterrupt: the EOI is left out when the scheduler runs.
EndWithoutEoi(c) ==
  /\ panic = {}
  /\ frame[c] = "eoi"
  /\ isr' = IF need[c] THEN isr ELSE [isr EXCEPT ![c] = {}]
  /\ frame' = [frame EXCEPT ![c] = "return"]
  /\ UNCHANGED <<plan, iflag, need, lapic, irr, setupVars, panic>>

\* end_of_interrupt.
EndOfInterrupt(c) ==
  /\ panic = {}
  /\ frame[c] = "eoi"
  /\ isr' = [isr EXCEPT ![c] = {}]
  /\ frame' = [frame EXCEPT ![c] = "return"]
  /\ UNCHANGED <<plan, iflag, need, lapic, irr, setupVars, panic>>

\* run_scheduler_if_needed and the return: this task or another goes on, with
\* interrupts on.
Return(c) ==
  /\ panic = {}
  /\ frame[c] = "return"
  /\ need' = [need EXCEPT ![c] = FALSE]
  /\ iflag' = [iflag EXCEPT ![c] = TRUE]
  /\ frame' = [frame EXCEPT ![c] = "code"]
  /\ UNCHANGED <<plan, apicVars, setupVars, panic>>

SetUp(c) ==
  \/ InitInterrupts(c) \/ EnableLapic(c) \/ InitScheduler(c)
  \/ WakeCPUs(c) \/ Woken(c) \/ WaitForCPUs(c) \/ EnableHpet(c)
  \/ \E s \in Source : \/ TakeVector(c, s) \/ LockTable(c, s)
                       \/ StoreHandler(c, s) \/ Unmask(c, s) \/ Route(c, s)

Interrupted(c) ==
  Deliver(c) \/ Lookup(c) \/ Handle(c) \/ EndOfInterrupt(c) \/ Return(c)

Next ==
  \/ \E c \in CPU : SetUp(c) \/ Interrupted(c) \/ DeliverSpurious(c)
  \/ \E s \in Source : Raise(s)

Spec == Init /\ [][Next]_vars

-----------------------------------------------------------------------------
(* Properties *)

\* A vector that can arrive can be handled: every requested vector is in the
\* table, under the source it was given to, at every point of the set-up, and
\* the tick reaches no CPU whose scheduler is not set up (scheduler_tick reads
\* the current task).
RequestedVectorsHandled ==
  \A c \in CPU : \A v \in irr[c] \cup isr[c] :
    /\ table[v] # "default" /\ vec[table[v]] = v
    /\ v = CPUTick => c \in bootstrapped

\* A handler waits for the lock of the table that the code it interrupted
\* holds: install_interrupt takes it with interrupts on (interrupts.rs:202).
WaitsForOwnLock == \E c \in lock : frame[c] = "lookup"

\* Every requested interrupt is taken, on every CPU, during and after set-up:
\* no request stays in a local APIC for ever, unless one arrives while its own
\* CPU stores a handler.
RequestsServed == \A c \in CPU : []<>(irr[c] = {} \/ panic # {} \/ WaitsForOwnLock)

-----------------------------------------------------------------------------
(* What comments say and the code does not do *)

\* The table is a static "because we need to be able to access it from the
\* interrupt handlers" (interrupts.rs:66-68): a handler gets its lock.
HandlersReachTable ==
  \A c \in CPU : frame[c] = "lookup" ~> (frame[c] # "lookup" \/ panic # {})

\* "Set up stub handlers for all external interrupts" (interrupts.rs:142).
AllVectorsHaveStubs == "segment not present" \notin panic

\* "The number of comparators (i.e. timers) that the HPET supports, minus 1"
\* (hpet.rs:179): timer 0 exists on every HPET.
TimerZeroExists == "HPET only has" \notin panic

\* "All APIC devices using the APIC bus should have a unique APIC ID"
\* (ioapic.rs:99-100): with an id of its own the IOAPIC still reaches a CPU.
TicksArrive == ticking ~> (panic # {} \/ \E c \in CPU : CPUTick \in irr[c])
=============================================================================
