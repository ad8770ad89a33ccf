----------------------------- MODULE VirtioInit -----------------------------
(***************************************************************************)
(* The initialisation of the VirtIO devices by the bootstrap CPU: the scan *)
(* of the PCI functions (lib.rs, pci/device.rs), the reading of a          *)
(* function's VirtIO capabilities (virtio/config.rs), the handshake over   *)
(* the status register, the negotiation of features and the set-up of the  *)
(* queues (virtio/device.rs), and the registration of the entropy and the  *)
(* block driver with its MSI-X interrupt (virtio/rng.rs, virtio/block.rs). *)
(*                                                                         *)
(* The devices are the other side: they obey the status register as the    *)
(* VirtIO specification says, refuse features they do not accept, and may  *)
(* fail at any time, which they show by DEVICE_NEEDS_RESET.                *)
(***************************************************************************)
EXTENDS PciConfig, FiniteSetsExt

CONSTANTS
  Machines,      \* each a function from ECAM offsets to PCI functions
  MaxBus, MaxDevice, MaxFunction,   \* last numbers of the scan
  FreePages,     \* pages the physical allocator has left
  MaxFailures    \* how often a device fails

(* The lists of capabilities end, as the PCI specification says.           *)
ASSUME ListsEnd ==
  \A m \in Machines : \A a \in DOMAIN m :
    "caps" \in DOMAIN m[a] => WalkEnds(m[a])

VARIABLES
  machine,    \* the PCI functions present
  device,     \* registers of every VirtIO device
  loc,        \* the function the scan is at, <<bus, device, function>>
  pc,         \* where the bootstrap CPU is
  drv,        \* locals of the initialisation of the current function
  mapped,     \* pages identity-mapped for device regions
  buffers,    \* physical buffers in use: number -> pages
  nextBuffer, \* number of the next buffer
  rng,        \* VIRTIO_RNG: a driver or None
  blocks,     \* VIRTIO_BLOCK: a sequence of drivers
  handlers,   \* installed handlers in the order of their vectors
  failures    \* failures of devices so far

vars == <<machine, device, loc, pc, drv, mapped, buffers, nextBuffer, rng,
          blocks, handlers, failures>>
scanVars == <<machine, loc, failures>>
memVars == <<mapped, buffers, nextBuffer>>
driverVars == <<rng, blocks, handlers>>

VirtioVendor == 6900          \* 0x1af4
RngIds == {4101, 4164}        \* 0x1005, 0x1044
BlockIds == {4097, 4162}      \* 0x1001, 0x1042
MaxVirtqueues == 1            \* both drivers ask for one queue
NoVector == 65535

Addr == DeviceBaseAddress(loc[1], loc[2], loc[3])
Present == Addr \in DOMAIN machine
Fn == machine[Addr]
Dev == device[Addr]
SetDev(d) == device' = [device EXCEPT ![Addr] = d]
Panic == pc' = "panic"

-----------------------------------------------------------------------------
(* The feature bits: numbers of bits, read and written in four windows.    *)
EVENT_IDX == 29
RING_PACKED == 34
NOTIFICATION_DATA == 38
NOTIF_CONFIG_DATA == 39
FLUSH == 9
CONFIG_WCE == 11
MQ == 12

Window(bits, i) == {b % 32 : b \in {c \in bits : c \div 32 = i}}
AtWindow(bits, i) == {b + 32 * i : b \in bits}

GetDeviceFeatures(fn) == UNION {AtWindow(Window(fn.offered, i), i) : i \in 0..3}
WritesUnshifted(features) == UNION {AtWindow({b \in features : b < 32}, i) : i \in 0..3}
SetDriverFeatures(features) == UNION {AtWindow(Window(features, i), i) : i \in 0..3}

KeepsEventIdx(features) == features \ {NOTIFICATION_DATA, NOTIF_CONFIG_DATA}
NegotiateReserved(features) ==
  features \ {EVENT_IDX, NOTIFICATION_DATA, NOTIF_CONFIG_DATA}
NegotiateDevice(kind, features) ==
  IF kind = "block" THEN features \ {MQ, CONFIG_WCE, FLUSH} ELSE features

-----------------------------------------------------------------------------
(* The device's side of its registers.                                     *)
NoQueue == [desc |-> None, driver |-> None, device |-> None,
            enabled |-> FALSE, vector |-> NoVector]
ResetDevice(fn) == [status |-> {}, features |-> {},
                    queues |-> [i \in 0..(fn.numQueues - 1) |-> NoQueue],
                    entry |-> None, msix |-> FALSE]

(* Writing 0 resets the device.  A device that does not accept the         *)
(* features leaves FEATURES_OK clear; only a reset clears its failure.     *)
WriteStatus(fn, d, s) ==
  IF s = {} THEN [ResetDevice(fn) EXCEPT !.entry = d.entry, !.msix = d.msix]
  ELSE [d EXCEPT !.status =
          (IF d.features \subseteq fn.accepts THEN s ELSE s \ {"FEATURES_OK"})
             \cup (d.status \cap {"NEEDS_RESET"})]

DeviceFails ==
  /\ failures < MaxFailures
  /\ \E a \in DOMAIN device :
       /\ device[a].status # {}
       /\ "NEEDS_RESET" \notin device[a].status
       /\ device' = [device EXCEPT ![a].status = @ \cup {"NEEDS_RESET"}]
  /\ failures' = failures + 1
  /\ UNCHANGED <<machine, loc, pc, drv, mapped, buffers, nextBuffer, rng,
                 blocks, handlers>>

-----------------------------------------------------------------------------
(* Physical buffers: whole pages from the physical allocator.              *)
PagesUsed(b) == MapThenSumSet(LAMBDA n : b[n], DOMAIN b)
AllocBuffer(b, id, bytes) == b @@ (id :> DivCeil(bytes, Page4K))
Fits(b, bytes) == PagesUsed(b) + DivCeil(bytes, Page4K) <= FreePages

DescriptorBytes(n) == 16 * n
AvailBytes(n) == 2 + 2 + 2 * n + 2
UsedBytes(n) == 2 + 2 + 8 * n + 2
IsPowerOfTwo(n) == \E k \in 0..15 : n = 2^k

-----------------------------------------------------------------------------
(* The scan.                                                               *)
LastLocation == loc = <<MaxBus, MaxDevice, MaxFunction>>
After(l) ==
  IF l[3] < MaxFunction THEN <<l[1], l[2], l[3] + 1>>
  ELSE IF l[2] < MaxDevice THEN <<l[1], l[2] + 1, 0>>
  ELSE <<l[1] + 1, 0, 0>>

NoDriver == [caps |-> << >>, found |-> << >>, kind |-> None, status |-> {},
             features |-> {}, queue |-> 0, queues |-> << >>]

Advance ==
  /\ IF LastLocation THEN pc' = "done" /\ UNCHANGED loc
                     ELSE pc' = "scan" /\ loc' = After(loc)
  /\ drv' = NoDriver

(* No function here, or not a VirtIO device.                               *)
SkipFunction ==
  /\ pc = "scan"
  /\ Present => Fn.vendor # VirtioVendor
  /\ Advance
  /\ UNCHANGED <<machine, device, failures, memVars, driverVars>>

FoundDevice ==
  /\ pc = "scan"
  /\ Present /\ Fn.vendor = VirtioVendor
  /\ IF Layout(Fn.header) = "GeneralDevice"
     THEN /\ pc' = "caps"
          /\ drv' = [drv EXCEPT !.caps = IterCapabilities(Fn)]
     ELSE Panic /\ UNCHANGED drv
  /\ UNCHANGED <<scanVars, device, memVars, driverVars>>

ConfigType(code) ==
  CASE code = 1 -> "Common"
    [] code = 2 -> "Notify"
    [] code = 3 -> "ISR"
    [] code = 4 -> "Device"
    [] code = 5 -> "PCI"
    [] code = 8 -> "SharedMemory"
    [] code = 9 -> "Vendor"
    [] OTHER    -> Panicked
MappedTypes == {"Common", "Notify", "ISR", "Device"}
SkippedTypes == {"PCI", "SharedMemory", "Vendor", "NotVirtio"}

(* from_pci_capability: other capabilities are passed over.                *)
CapabilityType(cap) ==
  IF Capability(cap) = "VendorSpecific" THEN ConfigType(cap.cfgType) ELSE "NotVirtio"

ConfigRegion(cap) == BarRegion(Fn.bars, cap.bar, cap.offset, cap.capLen)

(* get_or_insert: the first capability of a type wins.                     *)
Remember(found, type, cfg) == found @@ (type :> cfg)

ReadCapability ==
  /\ pc = "caps" /\ drv.caps # << >>
  /\ LET cap  == Fn.caps[Head(drv.caps)]
         type == CapabilityType(cap)
         rest == [drv EXCEPT !.caps = Tail(drv.caps)]
     IN  \/ /\ type \in SkippedTypes
            /\ drv' = rest
            /\ UNCHANGED <<pc, mapped>>
         \/ /\ type \in MappedTypes /\ ConfigRegion(cap) # Panicked
            /\ mapped' = mapped \cup ConfigRegion(cap).pages
            /\ drv' = [rest EXCEPT !.found = Remember(@, type,
                         [addr |-> ConfigRegion(cap).addr, cap |-> Head(drv.caps)])]
            /\ UNCHANGED pc
         \/ /\ type \in MappedTypes => ConfigRegion(cap) = Panicked
            /\ type \notin SkippedTypes
            /\ Panic
            /\ UNCHANGED <<drv, mapped>>
  /\ UNCHANGED <<scanVars, device, buffers, nextBuffer, driverVars>>

(* All four structures are needed; then the two drivers look at the id.    *)
ConfigRead ==
  /\ pc = "caps" /\ drv.caps = << >>
  /\ IF MappedTypes \subseteq DOMAIN drv.found
     THEN IF Fn.device \in RngIds \cup BlockIds
          THEN /\ pc' = "reset"
               /\ drv' = [drv EXCEPT !.kind = IF Fn.device \in RngIds
                                              THEN "rng" ELSE "block"]
               /\ UNCHANGED loc
          ELSE Advance
     ELSE Panic /\ UNCHANGED <<drv, loc>>
  /\ UNCHANGED <<machine, failures, device, memVars, driverVars>>

-----------------------------------------------------------------------------
(* VirtIOInitializedDevice::new                                            *)
StatusStep(from, bit, to) ==
  /\ pc = from
  /\ LET s == drv.status \cup bit IN
       drv' = [drv EXCEPT !.status = s] /\ SetDev(WriteStatus(Fn, Dev, s))
  /\ pc' = to
  /\ UNCHANGED <<scanVars, memVars, driverVars>>

Reset       == StatusStep("reset", {}, "acknowledge")
Acknowledge == StatusStep("acknowledge", {"ACKNOWLEDGE"}, "driver")
Driver      == StatusStep("driver", {"DRIVER"}, "features")

Negotiate ==
  /\ pc = "features"
  /\ LET wanted == NegotiateDevice(drv.kind, NegotiateReserved(GetDeviceFeatures(Fn)))
     IN  /\ drv' = [drv EXCEPT !.features = wanted]
         /\ SetDev([Dev EXCEPT !.features = SetDriverFeatures(wanted)])
  /\ pc' = "features_ok"
  /\ UNCHANGED <<scanVars, memVars, driverVars>>

FeaturesOk == StatusStep("features_ok", {"FEATURES_OK"}, "check")

CheckFeatures ==
  /\ pc = "check"
  /\ drv' = [drv EXCEPT !.status = Dev.status]
  /\ IF "FEATURES_OK" \in Dev.status /\ Fn.numQueues > 0
     THEN pc' = "queues" ELSE Panic
  /\ UNCHANGED <<scanVars, device, memVars, driverVars>>

NumQueues == Min({Fn.numQueues, MaxVirtqueues})

(* Where the driver will notify the device of new buffers.                 *)
QueueNotifyAddress(notify) ==
  <<notify.addr[1], notify.addr[2] + Fn.notifyOff * Fn.caps[notify.cap].multiplier>>

(* One turn of the loop over the queues: the three rings, then the enable  *)
(* bit.  allocate asserts that the size is a power of two.                 *)
SetupQueue ==
  /\ pc = "queues" /\ drv.queue < NumQueues
  /\ LET n  == Fn.queueSize
         b1 == AllocBuffer(buffers, nextBuffer, DescriptorBytes(n))
         b2 == AllocBuffer(b1, nextBuffer + 1, AvailBytes(n))
         b3 == AllocBuffer(b2, nextBuffer + 2, UsedBytes(n))
         rings == [desc |-> nextBuffer, driver |-> nextBuffer + 1,
                   device |-> nextBuffer + 2, enabled |-> TRUE, vector |-> NoVector]
     IN  IF /\ n > 0 /\ IsPowerOfTwo(n)
            /\ Fits(buffers, DescriptorBytes(n)) /\ Fits(b1, AvailBytes(n))
            /\ Fits(b2, UsedBytes(n))
         THEN /\ buffers' = b3 /\ nextBuffer' = nextBuffer + 3
              /\ SetDev([Dev EXCEPT !.queues[drv.queue] = rings])
              /\ drv' = [drv EXCEPT !.queue = @ + 1,
                           !.queues = Append(@, [index |-> drv.queue,
                              notifyAt |-> QueueNotifyAddress(drv.found["Notify"]),
                              rings |-> rings])]
              /\ UNCHANGED pc
         ELSE Panic /\ UNCHANGED <<buffers, nextBuffer, device, drv>>
  /\ UNCHANGED <<scanVars, mapped, driverVars>>

QueuesDone == drv.queue = NumQueues
DriverOk ==
  /\ pc = "queues" /\ QueuesDone
  /\ StatusStep("queues", {"DRIVER_OK"}, "msix")

-----------------------------------------------------------------------------
(* The interrupt and the registration of the driver.                       *)
HandlerIdAfterPush(kind) == IF kind = "rng" THEN 1 ELSE Len(blocks) + 1
HandlerId(kind) == IF kind = "rng" THEN 1 ELSE Len(blocks)

SetInterruptVector(at, cpu, vector) ==
  [at |-> at, cpu |-> cpu, vector |-> vector, masked |-> FALSE]

(* A device with too few MSI-X vectors answers NoVector: the assert fails. *)
InstallMsix ==
  /\ pc = "msix"
  /\ LET msix == MsixConfig(Fn) IN
     IF msix \in {None, Panicked} \/ Fn.refusesVector
     THEN Panic /\ UNCHANGED <<device, mapped, handlers>>
     ELSE /\ handlers' = Append(handlers, [handler |-> drv.kind, id |-> HandlerId(drv.kind)])
          /\ SetDev([Dev EXCEPT !.queues[0].vector = 0,
                       !.entry = SetInterruptVector(TableEntry(msix, 0), 0, Len(handlers) + 1),
                       !.msix = TRUE])
          /\ mapped' = mapped \cup msix.pages
          /\ pc' = "register"
  /\ UNCHANGED <<scanVars, drv, buffers, nextBuffer, rng, blocks>>

RingsOf(queues) == UNION {{q.rings.desc, q.rings.driver, q.rings.device} : q \in Range(queues)}

DropBuffers(queues) == Restrict(buffers, DOMAIN buffers \ RingsOf(queues))

(* replace drops the driver that was there, and with it its rings.         *)
RegisterRng ==
  /\ pc = "register" /\ drv.kind = "rng"
  /\ rng' = [at |-> Addr, queues |-> drv.queues]
  /\ buffers' = IF rng = None THEN buffers ELSE DropBuffers(rng.queues)
  /\ Advance
  /\ UNCHANGED <<machine, failures, device, mapped, nextBuffer, handlers, blocks>>

RegisterBlock ==
  /\ pc = "register" /\ drv.kind = "block"
  /\ blocks' = Append(blocks, [at |-> Addr, queues |-> drv.queues])
  /\ Advance
  /\ UNCHANGED <<machine, failures, device, memVars, handlers, rng>>

Stopped == pc \in {"done", "panic"} /\ UNCHANGED vars

-----------------------------------------------------------------------------
(* Firmware may have used a device and left it with a status of its own.   *)
Init ==
  /\ machine \in Machines
  /\ device = [a \in {a \in DOMAIN machine : machine[a].vendor = VirtioVendor} |->
                 [ResetDevice(machine[a]) EXCEPT !.status = machine[a].leftBy,
                                                 !.features = machine[a].offered]]
  /\ loc = <<0, 0, 0>> /\ pc = "scan" /\ drv = NoDriver
  /\ mapped = {} /\ buffers = << >> /\ nextBuffer = 1
  /\ rng = None /\ blocks = << >> /\ handlers = << >> /\ failures = 0

Cpu == \/ SkipFunction \/ FoundDevice \/ ReadCapability \/ ConfigRead
       \/ Reset \/ Acknowledge \/ Driver \/ Negotiate \/ FeaturesOk
       \/ CheckFeatures \/ SetupQueue \/ DriverOk \/ InstallMsix
       \/ RegisterRng \/ RegisterBlock

Next == Cpu \/ DeviceFails \/ Stopped

Spec == Init /\ [][Next]_vars

-----------------------------------------------------------------------------
Live(a) == "DRIVER_OK" \in device[a].status
Driven == {a \in DOMAIN device : machine[a].device \in RngIds \cup BlockIds}
Registered == {blocks[i].at : i \in DOMAIN blocks} \cup (IF rng = None THEN {} ELSE {rng.at})

(* A device may use its queues from the moment it sees DRIVER_OK.  By then *)
(* every earlier step of the handshake in VirtIOInitializedDevice::new is  *)
(* visible to it, its queue is enabled, and it holds no feature that it    *)
(* did not offer and none of the three that the code takes out because it  *)
(* does not implement them.  (It does not take out packed rings, which     *)
(* SplitQueuesNegotiated below is about.)  Its rings are memory of their   *)
(* own, large enough for the queue size the device works with (which the   *)
(* driver never changes), and stay allocated.                              *)
LiveDevicesReady ==
  \A a \in DOMAIN device : Live(a) =>
    LET q == device[a].queues[0]
        n == machine[a].queueSize
        Holds(b, bytes) == b \in DOMAIN buffers /\ buffers[b] * Page4K >= bytes
    IN  /\ {"ACKNOWLEDGE", "DRIVER", "FEATURES_OK"} \subseteq device[a].status
        /\ device[a].features \subseteq
             machine[a].offered \ {EVENT_IDX, NOTIFICATION_DATA, NOTIF_CONFIG_DATA}
        /\ q.enabled
        /\ Holds(q.desc, 16 * n) /\ Holds(q.driver, 4 + 2 * n) /\ Holds(q.device, 6 + 8 * n)
        /\ Cardinality({q.desc, q.driver, q.device}) = 3
        /\ \A c \in DOMAIN device \ {a} : Live(c) => device[c].queues[0].desc # q.desc

(* Drivers and devices find each other.  The handler behind the vector of  *)
(* a registered device leads back to that device: virtio_block_interrupt   *)
(* indexes VIRTIO_BLOCK by the handler id, virtio_rng_interrupt takes      *)
(* VIRTIO_RNG.  The page at which a driver notifies its device is mapped,   *)
(* although config.rs maps only as much of the structure as its capability *)
(* is long (RegionsMapped below is about the rest of it).  And a scan      *)
(* that ends has missed no device.                                         *)
DriversFindDevices ==
  /\ \A a \in Registered :
       LET h == handlers[device[a].entry.vector] IN
       IF h.handler = "rng" THEN rng.at = a
       ELSE h.id + 1 \in DOMAIN blocks /\ blocks[h.id + 1].at = a
  /\ \A d \in Range(blocks) \cup (IF rng = None THEN {} ELSE {rng}) :
       \A i \in DOMAIN d.queues : PagesFrom(d.queues[i].notifyAt, 1) \subseteq mapped
  /\ pc = "done" => Driven \subseteq {a \in Registered : Live(a)}

-----------------------------------------------------------------------------
(* What comments say and the code does not do *)

(* pci/device.rs: the region a capability points to has a certain size,    *)
(* and needs to be mapped.  The regions are those of the capabilities that *)
(* the current driver uses.                                                *)
RegionsMapped ==
  pc \notin {"scan", "caps", "done", "panic"} =>
    \A t \in MappedTypes :
      LET cap == Fn.caps[drv.found[t].cap] IN
      PagesFrom(drv.found[t].addr, DivCeil(cap.length, Page4K)) \subseteq mapped

(* virtio/config.rs: a driver shall reset a device that needs it; one that *)
(* has read DEVICE_NEEDS_RESET does not go on to DRIVER_OK.                *)
BrokenDeviceNotDriven ==
  "NEEDS_RESET" \in drv.status => "DRIVER_OK" \notin drv.status

(* virtio/queue.rs lays the rings out as split virtqueues; a live device   *)
(* has not been told to expect the packed layout.                          *)
SplitQueuesNegotiated ==
  \A a \in DOMAIN device : Live(a) => RING_PACKED \notin device[a].features

(* virtio/config.rs on notify_device: it assumes that NOTIFICATION_DATA    *)
(* has been negotiated.                                                    *)
NotificationDataNegotiated ==
  \A a \in DOMAIN device : Live(a) => NOTIFICATION_DATA \in device[a].features
=============================================================================
