------------------------------ MODULE VirtQueue ------------------------------
(***************************************************************************)
(* A split virtqueue (kernel/src/virtio/queue.rs) with the two drivers     *)
(* that use one: the block driver, whose requests are chains of three      *)
(* descriptors, and the entropy driver, whose requests are one descriptor. *)
(* A request runs with the device's SpinLock held and interrupts off; the  *)
(* device reads and writes the rings on its own, at any time, and finishes *)
(* requests in any order; its interrupt hands the answers to the tasks'    *)
(* one-shot channels.  The bytes of a buffer are the header, the status    *)
(* and a payload that names the sector it belongs to.                      *)
(***************************************************************************)
EXTENDS Integers, Sequences

CONSTANTS
    Tasks,          \* the tasks that issue requests, each one at a time
    Requests,       \* the requests they issue: [type, sector, amount]
    Buffers,        \* physical buffers
    Devices,        \* the devices that may be there: their driver, the size of
                    \* their queue, whether they finish requests in the order
                    \* taken, and as a bound the requests issued in a behaviour
    IndexRange,     \* 2^16 in the code: the indices are u16
    Statuses,       \* what the device may write as a status
    None

VARIABLES
    device,                     \* the one the driver found
    rawNextIndex, desc,         \* VirtQueueDescriptorTable
    availIdx, availRing,        \* VirtQueueAvailRing
    usedIdx, usedRing,          \* VirtQueueUsedRing
    lastProcessed, data,        \* VirtQueue, VirtQueueData
    mem,                        \* contents of the buffers, None when free
    lock,                       \* holder of the device's SpinLock
    devSeen, devWork, irq,      \* the device: next entry to take, chains it owns
    pc, req, head, channel,     \* per task: step, request, first descriptor, answer
    sent, panicked

driverVars == <<rawNextIndex, desc, availIdx, availRing, lastProcessed, data>>
deviceVars == <<usedIdx, usedRing, devSeen, devWork>>
taskVars == <<pc, req, head, channel, sent>>
vars == <<device, driverVars, deviceVars, taskVars, mem, lock, irq, panicked>>

QueueSize == device.size        \* descriptors, and entries of each ring
Index == 0 .. QueueSize - 1
ToElemIndex(i) == i % QueueSize
Increment(i) == (i + 1) % IndexRange

SectorSize == 512
HeaderSize == 16
HeaderAlign == 8

RoundToSectors(len) == ((len + SectorSize - 1) \div SectorSize) * SectorSize

(* BlockRequest::to_raw: bytes of the data part. *)
DataLen(r) == CASE r.type = "In" -> r.amount * SectorSize
                [] r.type = "Out" -> RoundToSectors(r.amount)
                [] r.type = "GetID" -> 20
                [] r.type = "Rng" -> r.amount

(* RawBlockRequest::to_descriptor_chain: where the header and status go. *)
HeaderUnpadded(r) == DataLen(r)    \* mutant
HeaderOffset(r) == DataLen(r) + (DataLen(r) % HeaderAlign)
StatusOffset(r) == HeaderOffset(r) + HeaderSize

Elem(buf, off, len) == [buf |-> buf, off |-> off, len |-> len]

BlockChain(r, buf) ==
    <<Elem(buf, HeaderOffset(r), HeaderSize), Elem(buf, 0, DataLen(r)),
      Elem(buf, StatusOffset(r), 1)>>
RngChain(r, buf) == <<Elem(buf, 0, DataLen(r))>>

Chain(r, buf) == IF r.type = "Rng" THEN RngChain(r, buf) ELSE BlockChain(r, buf)

(* A zeroed buffer with header and status written; no payload yet. *)
NewBuffer(r) == [type |-> r.type, sector |-> r.sector, status |-> "Unset",
                 payload |-> None]

-----------------------------------------------------------------------------
EmptyDescriptors ==
    [i \in Index |-> [elem |-> Elem(None, 0, 0), next |-> FALSE, to |-> 0]]
EmptyAvailRing == [i \in Index |-> 0]
EmptyUsedRing == [i \in Index |-> [id |-> 0, len |-> 0]]
NoData == [i \in Index |-> None]

InitQueue == /\ rawNextIndex = 0 /\ desc = EmptyDescriptors
             /\ availIdx = 0 /\ availRing = EmptyAvailRing
             /\ usedIdx = 0 /\ usedRing = EmptyUsedRing
             /\ lastProcessed = 0 /\ data = NoData

Init == /\ device \in Devices
        /\ InitQueue
        /\ mem = [b \in Buffers |-> None]
        /\ lock = None /\ devSeen = 0 /\ devWork = <<>> /\ irq = FALSE
        /\ pc = [t \in Tasks |-> "idle"] /\ req = [t \in Tasks |-> None]
        /\ head = [t \in Tasks |-> 0] /\ channel = [t \in Tasks |-> None]
        /\ sent = 0 /\ panicked = FALSE

(* add_descriptor: consecutive slots, each but the last linked to the next, *)
(* whatever the slots held before.                                          *)
Slot(k) == ToElemIndex((rawNextIndex + k - 1) % IndexRange)

WriteChain(chain, linked) ==
    desc' = [i \in Index |->
       IF \E k \in DOMAIN chain : Slot(k) = i
       THEN LET k == CHOOSE k \in DOMAIN chain : Slot(k) = i
            IN  [elem |-> chain[k], next |-> k \in linked,
                 to |-> IF k \in linked THEN Slot(k + 1) ELSE 0]
       ELSE desc[i]]

AddDescriptorLinksLast(chain) ==    \* mutant
    /\ WriteChain(chain, 1 .. Len(chain))
    /\ rawNextIndex' = (rawNextIndex + Len(chain)) % IndexRange
AddDescriptor(chain) ==
    /\ WriteChain(chain, 1 .. Len(chain) - 1)
    /\ rawNextIndex' = (rawNextIndex + Len(chain)) % IndexRange

(* add_buffer up to the ring: the data goes under the first descriptor,    *)
(* where there must be none.                                               *)
AddBuffer(t, chain, buf) ==
    LET first == Slot(1)
    IN  /\ AddDescriptor(chain)
        /\ head' = [head EXCEPT ![t] = first]
        /\ data' = [data EXCEPT ![first] = [task |-> t, buf |-> buf]]
        /\ panicked' = \/ data[first] # None
                       \/ Len(chain) = 3 /\ chain[1].off % HeaderAlign # 0

(* A driver call up to the ring, with the device's lock held. *)
AddRequest(t, r, buf) ==
    /\ ~panicked /\ pc[t] = "idle" /\ lock = None /\ mem[buf] = None
    /\ sent < device.maxRequests
    /\ AddBuffer(t, Chain(r, buf), buf)
    /\ mem' = [mem EXCEPT ![buf] = NewBuffer(r)]
    /\ lock' = t /\ sent' = sent + 1
    /\ req' = [req EXCEPT ![t] = r]
    /\ pc' = [pc EXCEPT ![t] = "entry"]
    /\ UNCHANGED <<device, availIdx, availRing, lastProcessed, deviceVars, channel,
                   irq>>

VirtioBlockGetId(t, r, buf) ==
    device.driver = "block" /\ r.type = "GetID" /\ AddRequest(t, r, buf)
VirtioBlockRead(t, r, buf) ==
    device.driver = "block" /\ r.type = "In" /\ AddRequest(t, r, buf)
VirtioBlockWrite(t, r, buf) ==
    device.driver = "block" /\ r.type = "Out" /\ AddRequest(t, r, buf)
RequestRandomNumbers(t, r, buf) ==
    device.driver = "rng" /\ r.type = "Rng" /\ r.amount > 0 /\ AddRequest(t, r, buf)

(* add_entry up to its barrier: the ring entry is written first. *)
AddEntry(t) ==
    /\ ~panicked /\ pc[t] = "entry"
    /\ availRing' = [availRing EXCEPT ![ToElemIndex(availIdx)] = head[t]]
    /\ pc' = [pc EXCEPT ![t] = "publish"]
    /\ UNCHANGED <<device, rawNextIndex, desc, availIdx, lastProcessed, data,
                   deviceVars, mem, lock, irq, req, head, channel, sent, panicked>>

PublishKeepsLock(t) ==    \* mutant
    /\ ~panicked /\ pc[t] = "publish"
    /\ availIdx' = Increment(availIdx)
    /\ pc' = [pc EXCEPT ![t] = "waiting"]
    /\ UNCHANGED <<device, rawNextIndex, desc, availRing, lastProcessed, data,
                   deviceVars, mem, lock, irq, req, head, channel, sent, panicked>>

(* The rest of add_entry, notify_device, and the drop of the guard. *)
Publish(t) ==
    /\ ~panicked /\ pc[t] = "publish"
    /\ availIdx' = Increment(availIdx)
    /\ lock' = None
    /\ pc' = [pc EXCEPT ![t] = "waiting"]
    /\ UNCHANGED <<device, rawNextIndex, desc, availRing, lastProcessed, data,
                   deviceVars, mem, irq, req, head, channel, sent, panicked>>

(* VirtQueueDescriptorChainIterator: where next goes on, and the k-th item  *)
(* of the chain at h; no caller asks for more than four.                    *)
Following(i) == IF i # None /\ desc[i].next THEN desc[i].to ELSE None

ChainItem(h, k) ==
    CASE k = 1 -> h
      [] k = 2 -> Following(h)
      [] k = 3 -> Following(Following(h))
      [] k = 4 -> Following(Following(Following(h)))

-----------------------------------------------------------------------------
(* The device (external): it takes the entries below idx in order ...      *)
DeviceTake ==
    /\ ~panicked /\ devSeen # availIdx
    /\ devWork' = Append(devWork, availRing[ToElemIndex(devSeen)])
    /\ devSeen' = Increment(devSeen)
    /\ UNCHANGED <<device, driverVars, taskVars, usedIdx, usedRing, mem, lock, irq,
                   panicked>>

(* ... and finishes a chain it owns: it reads the header, writes data and   *)
(* status where the descriptors point, appends to the used ring, interrupts.*)
DeviceComplete(n, status, written) ==
    LET h == devWork[n]
        d1 == desc[h].elem
        isRng == ~desc[h].next
        b == d1.buf
        m == mem[b]
    IN  /\ ~panicked /\ m # None
        /\ device.inOrder => n = 1
        /\ isRng => status = "Ok"
        /\ written \in 0 .. d1.len /\ (~isRng => written = 0)
        /\ mem' = [mem EXCEPT ![b] =
             [m EXCEPT !.status = IF isRng THEN m.status ELSE status,
                       !.payload = IF m.type = "Out" THEN m.payload ELSE m.sector]]
        /\ usedRing' = [usedRing EXCEPT ![ToElemIndex(usedIdx)] =
                            [id |-> h, len |-> written]]
        /\ usedIdx' = Increment(usedIdx)
        /\ devWork' = SubSeq(devWork, 1, n - 1) \o SubSeq(devWork, n + 1, Len(devWork))
        /\ irq' = TRUE
        /\ UNCHANGED <<device, driverVars, taskVars, devSeen, lock, panicked>>

-----------------------------------------------------------------------------
(* process_new_entries: the range of u16 indices the handler walks. *)
NewEntries == lastProcessed .. usedIdx - 1

UsedElems == {usedRing[ToElemIndex(i)] : i \in NewEntries}

RequestTypes == {"In", "Out", "Flush", "GetID", "GetLifetime", "Discard",
                 "WriteZeroes", "SecureErase"}
StatusCodes == {"Ok", "IoErr", "Unsupported", "Unset"}

(* from_descriptor_chain: exactly three descriptors of the right lengths. *)
ChainFails(h) ==
    LET e(k) == desc[ChainItem(h, k)].elem
    IN  \/ ChainItem(h, 2) = None \/ ChainItem(h, 3) = None \/ ChainItem(h, 4) # None
        \/ e(1).len # HeaderSize \/ mem[e(1).buf].type \notin RequestTypes
        \/ e(3).len # 1 \/ mem[e(3).buf].status \notin StatusCodes

FromRawFails(type, len) ==
    \/ type \notin {"In", "Out", "GetID"}
    \/ type \in {"In", "Out"} /\ len % SectorSize # 0

BlockEntryFails(h) ==
    LET e(k) == desc[ChainItem(h, k)].elem
    IN  \/ ChainFails(h)
        \/ mem[e(3).buf].status # "Ok"
        \/ FromRawFails(mem[e(1).buf].type, e(2).len)

RngEntryFails(h) == ChainItem(h, 2) # None

Answered(type, payload, len, buf) ==
    [type |-> type, payload |-> payload, len |-> len, buf |-> buf]

(* What the handlers send, read from the memory the chain points at. *)
RngResponse(u, len) == Answered("Rng", mem[desc[u.id].elem.buf].payload, len, None)

BlockResponse(u, len) ==
    LET own == data[u.id].buf
        type == mem[desc[u.id].elem.buf].type
    IN  CASE type = "In" -> Answered("In", mem[own].payload, len, own)
          [] type = "Out" -> Answered("Out", None, 0, None)
          [] type = "GetID" -> Answered("GetID", mem[own].payload, 0, None)

IsRng(u) == mem[data[u.id].buf].type = "Rng"

ResponseOfHeader(u) ==    \* mutant: the length of the header's descriptor
    IF IsRng(u) THEN RngResponse(u, u.len) ELSE BlockResponse(u, desc[u.id].elem.len)
Response(u) ==
    IF IsRng(u) THEN RngResponse(u, u.len)
    ELSE BlockResponse(u, desc[desc[u.id].to].elem.len)

EntryFails(u) == IF IsRng(u) THEN RngEntryFails(u.id) ELSE BlockEntryFails(u.id)

(* virtio_block_interrupt and virtio_rng_interrupt: the entries without     *)
(* data are logged and skipped; the data of the others is taken, the answer *)
(* is sent, and the buffer is dropped unless it travels with the answer.    *)
Interrupt ==
    LET taken == {u \in UsedElems : data[u.id] # None}
        of(t) == {u \in taken : data[u.id].task = t}
        dropped == {data[u.id].buf : u \in {v \in taken : Response(v).buf = None}}
    IN  /\ ~panicked /\ irq /\ lock = None
        /\ irq' = FALSE
        /\ lastProcessed' = usedIdx
        /\ panicked' = (\E u \in taken : EntryFails(u))
        /\ IF panicked' THEN UNCHANGED <<data, channel, mem>>
           ELSE /\ data' = [i \in Index |-> IF \E u \in taken : u.id = i
                                            THEN None ELSE data[i]]
                /\ channel' = [t \in Tasks |-> IF of(t) = {} THEN channel[t]
                                  ELSE Response(CHOOSE u \in of(t) : TRUE)]
                /\ mem' = [b \in Buffers |-> IF b \in dropped THEN None ELSE mem[b]]
        /\ UNCHANGED <<device, rawNextIndex, desc, availIdx, availRing, deviceVars,
                       lock, pc, req, head, sent>>

(* OnceReceiver::wait_sleep returns, and the response is dropped with the *)
(* buffer that a read carries.                                            *)
Receive(t) ==
    /\ ~panicked /\ pc[t] = "waiting" /\ channel[t] # None
    /\ mem' = [b \in Buffers |-> IF b = channel[t].buf THEN None ELSE mem[b]]
    /\ pc' = [pc EXCEPT ![t] = "idle"] /\ req' = [req EXCEPT ![t] = None]
    /\ channel' = [channel EXCEPT ![t] = None]
    /\ UNCHANGED <<device, driverVars, deviceVars, lock, irq, head, sent, panicked>>

TaskStep(t) == AddEntry(t) \/ Publish(t) \/ Receive(t)

Written == 0 .. 2

Next == \/ \E t \in Tasks : TaskStep(t)
        \/ \E t \in Tasks, r \in Requests, b \in Buffers :
             \/ VirtioBlockGetId(t, r, b) \/ VirtioBlockRead(t, r, b)
             \/ VirtioBlockWrite(t, r, b) \/ RequestRandomNumbers(t, r, b)
        \/ DeviceTake
        \/ \E n \in DOMAIN devWork, s \in Statuses, w \in Written :
             DeviceComplete(n, s, w)
        \/ Interrupt

Spec == Init /\ [][Next]_vars
-----------------------------------------------------------------------------
(* The slots that a chain starting at h reaches. *)
ChainSlots(h) == {ChainItem(h, k) : k \in 1 .. 4} \ {None}

(* The tasks whose chain the device may still read: published, not used.   *)
InDevice == {t \in Tasks :
               /\ pc[t] = "waiting" /\ channel[t] = None
               /\ \/ \E n \in DOMAIN devWork : devWork[n] = head[t]
                  \/ \E i \in Index : /\ i < (availIdx - devSeen) % IndexRange
                                     /\ availRing[ToElemIndex(devSeen + i)] = head[t]}

(* A chain that the device may still read has the descriptors its request   *)
(* was given, in a buffer that is still allocated to it, and shares no slot *)
(* with another task's chain (add_descriptor overwrites without looking;    *)
(* the handler drops buffers).                                              *)
DeviceOwnsItsChains ==
    /\ \A t \in InDevice :
         LET d == data[head[t]]
         IN  /\ d # None /\ d.task = t /\ mem[d.buf] # None
             /\ LET c == Chain(req[t], d.buf)
                IN  \A k \in 1 .. 4 :
                      IF k <= Len(c) THEN /\ ChainItem(head[t], k) # None
                                          /\ desc[ChainItem(head[t], k)].elem = c[k]
                      ELSE ChainItem(head[t], k) = None
    /\ \A t, u \in InDevice :
         t # u => ChainSlots(head[t]) \cap ChainSlots(head[u]) = {}

(* The handler leaves no finished request behind: a request whose chain is  *)
(* no longer the device's and that has no answer is still between           *)
(* last_processed_used_index and the used index, with an interrupt pending. *)
NoCompletionLost ==
    \A t \in Tasks \ InDevice :
      (~panicked /\ pc[t] = "waiting" /\ channel[t] = None) =>
        /\ irq
        /\ \E i \in Index : /\ i < (usedIdx - lastProcessed) % IndexRange
                           /\ usedRing[ToElemIndex(lastProcessed + i)].id = head[t]

(* The kernel panics in this code only when the device reports an error:    *)
(* the slot of add_buffer is free, the header is aligned, and every used    *)
(* chain parses in the handler.                                             *)
PanicOnlyOnDeviceError ==
    panicked => \E b \in Buffers : mem[b] # None /\ mem[b].status \in Statuses \ {"Ok"}

(* The answers a request may get; the entropy device may write less.        *)
Answers(r) ==
    CASE r.type = "In" -> {[type |-> "In", payload |-> r.sector, len |-> DataLen(r)]}
      [] r.type = "Out" -> {[type |-> "Out", payload |-> None, len |-> 0]}
      [] r.type = "GetID" -> {[type |-> "GetID", payload |-> r.sector, len |-> 0]}
      [] r.type = "Rng" -> [type : {"Rng"}, payload : {r.sector}, len : 0 .. r.amount]

(* What a task sees of its request. *)
Answer(t) == IF channel[t] = None THEN None
             ELSE [type |-> channel[t].type, payload |-> channel[t].payload,
                   len |-> channel[t].len]

Abstract == INSTANCE RequestChannel
              WITH asked <- req, answered <- [t \in Tasks |-> Answer(t)]

(* The virtqueue with either driver implements the request channel: every   *)
(* task receives one answer, to its own request, through chains, rings and  *)
(* interrupts.                                                              *)
ImplementsRequestChannel == Abstract!Spec

(* Every request that was issued is answered, as long as the kernel has not *)
(* panicked: no completion and no interrupt is lost.                        *)
RequestsAnswered ==
    \A t \in Tasks : (pc[t] # "idle") ~> (pc[t] = "idle" \/ panicked)
=============================================================================
