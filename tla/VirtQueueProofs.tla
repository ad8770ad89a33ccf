--------------------------- MODULE VirtQueueProofs ---------------------------
(***************************************************************************)
(* Virtqueues keep the device's chains intact and answer every task with   *)
(* the answer to its own request: proofs about VirtQueue.                  *)
(***************************************************************************)
EXTENDS VirtQueueInvariant

-----------------------------------------------------------------------------
(* A new request *)

(* There is room for another request: either the device works in order and *)
(* every request it may still read belongs to another task, or the queue   *)
(* holds all the requests there will ever be.                              *)
LEMMA RoomLeft ==
  ASSUME QueueConstants, NEW d \in Devices, NEW num \in [Tasks -> Nat],
         NEW own, Fits(d, num, own), ~panicked,
         NEW t \in Tasks, pc[t] = "idle", sent < d.maxRequests
  PROVE  /\ sent + 1 - lastProcessed <= Room(d)
         /\ \A u \in Tasks : Busy(u) => sent + 1 <= num[u] + Room(d)
<1>1. /\ sent \in Nat /\ lastProcessed \in Nat /\ Room(d) \in Nat /\ d.maxRequests \in Nat
      /\ lastProcessed <= sent /\ sent - lastProcessed <= Room(d)
      /\ OrderFits(d, num) /\ \A u \in Tasks : num[u] \in Nat
  <2>1. /\ sent \in Nat /\ lastProcessed \in Nat /\ Room(d) \in Nat /\ d.maxRequests \in Nat
        /\ usedIdx \in Nat /\ devSeen \in Nat /\ availIdx \in Nat
        /\ lastProcessed <= usedIdx /\ usedIdx <= devSeen /\ devSeen <= availIdx
        /\ availIdx <= sent /\ sent - lastProcessed <= Room(d)
        /\ OrderFits(d, num) /\ \A u \in Tasks : num[u] \in Nat
    BY Unpack, ZenonT(40)
  <2> QED BY <2>1, SMTT(30), SMTT(60)
<1>2. CASE d.maxRequests <= Room(d)
  BY <1>1, <1>2, SMTT(30), SMTT(60)
<1>3. CASE d.inOrder /\ AtMost(Room(d), Tasks)
  <2>1. /\ \A u \in Tasks : Busy(u) => lastProcessed <= num[u]
        /\ \A j \in lastProcessed .. sent - 1 : \E u \in Tasks : Busy(u) /\ num[u] = j
    BY <1>1, <1>3, Zenon DEF OrderFits
  <2>2. ~Busy(t)
    BY Zenon DEF Busy
  <2> DEFINE of(i) == CHOOSE u \in Tasks : Busy(u) /\ num[u] = lastProcessed + i
             f == [i \in 0 .. Room(d) |-> IF i = Room(d) THEN t ELSE of(i)]
  <2>3. ASSUME sent - lastProcessed = Room(d) PROVE FALSE
    <3>1. ASSUME NEW i \in 0 .. Room(d), i # Room(d)
          PROVE  of(i) \in Tasks /\ Busy(of(i)) /\ num[of(i)] = lastProcessed + i
      <4>1. lastProcessed + i \in lastProcessed .. sent - 1
        BY <1>1, <2>3, <3>1, SMTT(30), SMTT(60)
      <4>2. \E u \in Tasks : Busy(u) /\ num[u] = lastProcessed + i
        BY <2>1, <4>1, Zenon
      <4> QED BY <4>2, Zenon
    <3> HIDE DEF of
    <3>2. f \in [0 .. Room(d) -> Tasks]
      BY <3>1, Zenon
    <3>3. PICK i \in 0 .. Room(d), j \in 0 .. Room(d) : i # j /\ f[i] = f[j]
      BY <1>3, <3>2, Zenon DEF AtMost
    <3>4. CASE i = Room(d)
      BY <2>2, <3>1, <3>3, <3>4, Zenon
    <3>5. CASE j = Room(d)
      BY <2>2, <3>1, <3>3, <3>5, Zenon
    <3>6. CASE i # Room(d) /\ j # Room(d)
      <4>1. lastProcessed + i = lastProcessed + j
        BY <3>1, <3>3, <3>6, Zenon
      <4> QED BY <1>1, <3>3, <4>1, SMTT(30), SMTT(60)
    <3> QED BY <3>4, <3>5, <3>6, Zenon
  <2> HIDE DEF of, f
  <2>4. sent + 1 - lastProcessed <= Room(d)
    BY <1>1, <2>3, SMTT(30), SMTT(60)
  <2> QED BY <1>1, <2>1, <2>4, SMTT(30), SMTT(60)
<1>4. DeviceFits(d)
  BY Zenon DEF QueueConstants
<1> QED BY <1>2, <1>3, <1>4, Zenon DEF DeviceFits

LEMMA ChainShape ==
  ASSUME QueueConstants, NEW d \in Devices, NEW r, NEW b, r.type = "Rng" <=> d.driver = "rng"
  PROVE  Len(Chain(r, b)) = ChainLen(d) /\ DOMAIN Chain(r, b) = 1 .. ChainLen(d)
<1>1. CASE r.type = "Rng"
  <2>1. ChainLen(d) = 1
    BY <1>1, Zenon DEF ChainLen
  <2>2. Len(Chain(r, b)) = 1 /\ DOMAIN Chain(r, b) = 1 .. 1
    BY <1>1, SMTT(30), SMTT(60) DEF Chain, RngChain
  <2> QED BY <2>1, <2>2, Zenon
<1>2. CASE r.type # "Rng"
  <2>1. ChainLen(d) = 3
    BY <1>2, Zenon DEF ChainLen
  <2>2. Len(Chain(r, b)) = 3 /\ DOMAIN Chain(r, b) = 1 .. 3
    BY <1>2, SMTT(30), SMTT(60) DEF Chain, BlockChain
  <2> QED BY <2>1, <2>2, Zenon
<1> QED BY <1>1, <1>2, Zenon

(* add_descriptor writes the request's slots and no other.                 *)
LEMMA ChainWritten ==
  ASSUME QueueConstants, NEW d \in Devices, Typed(d), Room(d) > 0, NEW n \in Nat, n = sent,
         NEW r, NEW b, r.type = "Rng" <=> d.driver = "rng", AddDescriptor(Chain(r, b))
  PROVE  /\ ChainFits(d, n, r, b)'
         /\ \A i \in Slots(d) : (\A k \in 1 .. ChainLen(d) : At(d, n, k) # i) => desc'[i] = desc[i]
         /\ rawNextIndex' = (ChainLen(d) * (sent + 1)) % IndexRange
<1> DEFINE c == Chain(r, b)
           L == ChainLen(d)
           at(k) == At(d, n, k)
<1>1. Len(c) = L /\ DOMAIN c = 1 .. L
  BY ChainShape, Zenon
<1>2. L \in {1, 3} /\ Index = Slots(d)
  BY DeviceFacts, Zenon DEF Index, QueueSize, Slots, Typed
<1>3. \A k \in 1 .. L : Slot(k) = at(k) /\ at(k) \in Slots(d)
  <2>1. ASSUME NEW k \in 1 .. L PROVE Slot(k) = at(k) /\ at(k) \in Slots(d)
    BY SlotAt, AtSlot, Zenon
  <2> QED BY <2>1, Zenon
<1>4. ASSUME NEW k \in 1 .. L, NEW l \in 1 .. L, at(k) = at(l) PROVE k = l
  <2>1. CASE k < l
    BY <1>4, <2>1, AtOwn, Zenon
  <2>2. CASE l < k
    BY <1>4, <2>2, AtOwn, Zenon
  <2>3. k < l \/ l < k \/ k = l
    BY <1>2, SMTT(30), SMTT(60)
  <2> QED BY <2>1, <2>2, <2>3, Zenon
<1> DEFINE linked == 1 .. Len(c) - 1
<1>5. /\ desc' = [i \in Index |->
            IF \E k \in DOMAIN c : Slot(k) = i
            THEN LET k == CHOOSE k \in DOMAIN c : Slot(k) = i
                 IN  [elem |-> c[k], next |-> k \in linked,
                      to |-> IF k \in linked THEN Slot(k + 1) ELSE 0]
            ELSE desc[i]]
      /\ rawNextIndex' = (rawNextIndex + Len(c)) % IndexRange
  BY Zenon DEF AddDescriptor, WriteChain
<1>6. rawNextIndex' = (L * (sent + 1)) % IndexRange
  BY <1>1, <1>5, RawNext, Zenon
<1>7. \A i \in Slots(d) : (\A k \in 1 .. L : at(k) # i) => desc'[i] = desc[i]
  BY <1>1, <1>2, <1>3, <1>5, Zenon
<1> HIDE DEF c, at, L
<1>8. ASSUME NEW k \in 1 .. L
      PROVE  desc'[at(k)] = [elem |-> c[k], next |-> k \in linked,
                             to |-> IF k \in linked THEN Slot(k + 1) ELSE 0]
  <2>1. \E l \in DOMAIN c : Slot(l) = at(k)
    BY <1>1, <1>3, Zenon
  <2>2. \A l \in DOMAIN c : Slot(l) = at(k) <=> l = k
    BY <1>1, <1>3, <1>4, Zenon
  <2>3. (CHOOSE l \in DOMAIN c : Slot(l) = at(k)) = k
    BY <1>1, <2>2, Zenon
  <2>4. at(k) \in Index
    BY <1>2, <1>3, Zenon
  <2> QED BY <1>5, <2>1, <2>3, <2>4, Zenon
<1>9. ASSUME NEW k \in 1 .. L
      PROVE  /\ desc'[at(k)].elem = c[k]
             /\ k < L => desc'[at(k)].next = TRUE /\ desc'[at(k)].to = at(k + 1)
             /\ k = L => desc'[at(k)].next = FALSE
  <2>1. desc'[at(k)].elem = c[k]
    <3>1. [elem |-> c[k], next |-> k \in linked,
           to |-> IF k \in linked THEN Slot(k + 1) ELSE 0].elem = c[k]
      BY Zenon
    <3> QED BY <1>8, <3>1, Zenon
  <2>2. CASE k < L
    <3>1. (k \in linked) = TRUE
      <4>1. k \in linked
        BY <1>1, <1>2, <2>2, SMTT(30), SMTT(60)
      <4> QED BY <4>1, Zenon
    <3>2. k + 1 \in 1 .. L /\ k # L
      BY <1>2, <2>2, SMTT(30), SMTT(60)
    <3>3. Slot(k + 1) = at(k + 1)
      BY <1>3, <3>2, Zenon
    <3>4. desc'[at(k)] = [elem |-> c[k], next |-> TRUE, to |-> at(k + 1)]
      BY <1>8, <3>1, <3>3, Zenon
    <3>5. desc'[at(k)].next = TRUE /\ desc'[at(k)].to = at(k + 1)
      BY <3>4, SMTT(30), SMTT(60)
    <3> QED BY <2>1, <3>2, <3>5, Zenon
  <2>3. CASE k = L
    <3>1. (k \in linked) = FALSE
      <4>1. k \notin linked
        BY <1>1, <1>2, <2>3, SMTT(30), SMTT(60)
      <4> QED BY <4>1, SMTT(30), SMTT(60)
    <3>2. ~(k < L)
      BY <1>2, <2>3, SMTT(30), SMTT(60)
    <3>3. desc'[at(k)] = [elem |-> c[k], next |-> FALSE, to |-> 0]
      BY <1>8, <3>1, Zenon
    <3>4. desc'[at(k)].next = FALSE
      BY <3>3, SMTT(30), SMTT(60)
    <3> QED BY <2>1, <3>2, <3>4, Zenon
  <2>4. k < L \/ k = L
    BY <1>2, SMTT(30), SMTT(60)
  <2> QED BY <2>2, <2>3, <2>4, Zenon
<1>10. ChainFits(d, n, r, b)'
  BY <1>9, Zenon DEF ChainFits, c, at, L
<1> QED BY <1>6, <1>7, <1>10, Zenon DEF at, L

LEMMA AddRequestFits ==
  ASSUME QueueConstants, NEW d \in Devices, NEW num \in [Tasks -> Nat],
         NEW own \in [Tasks -> Buffers \cup {None}], Fits(d, num, own),
         NEW t \in Tasks, NEW r \in Requests, NEW buf \in Buffers, AddRequest(t, r, buf),
         r.type = "Rng" <=> d.driver = "rng", NEW n \in Nat, n = sent
  PROVE  Fits(d, [num EXCEPT ![t] = n], [own EXCEPT ![t] = buf])'
<1> DEFINE num2 == [num EXCEPT ![t] = n]
           own2 == [own EXCEPT ![t] = buf]
           c == Chain(r, buf)
           first == Slot(1)
<1>0. ~panicked /\ pc[t] = "idle" /\ lock = None /\ mem[buf] = None /\ sent < device.maxRequests
  BY Zenon DEF AddRequest
<1>1. /\ AddDescriptor(c)
      /\ head' = [head EXCEPT ![t] = first]
      /\ data' = [data EXCEPT ![first] = [task |-> t, buf |-> buf]]
      /\ panicked' = (\/ data[first] # None
                      \/ (Len(c) = 3 /\ c[1].off % HeaderAlign # 0))
      /\ mem' = [mem EXCEPT ![buf] = NewBuffer(r)]
      /\ lock' = t /\ sent' = sent + 1
      /\ req' = [req EXCEPT ![t] = r] /\ pc' = [pc EXCEPT ![t] = "entry"]
      /\ device' = device
      /\ availIdx' = availIdx /\ availRing' = availRing
      /\ lastProcessed' = lastProcessed
      /\ usedIdx' = usedIdx /\ usedRing' = usedRing /\ devSeen' = devSeen
      /\ devWork' = devWork /\ channel' = channel
  BY Zenon DEF AddRequest, AddBuffer, deviceVars
<1>2. /\ Typed(d) /\ OwnersFit(num, own)
      /\ \A u \in Tasks : TaskFits(d, u, num[u], own[u])
      /\ \A u \in Tasks : num[u] \in Nat
      /\ \A u \in Tasks : Busy(u) => /\ own[u] # None /\ own[u] \in Buffers
                                     /\ head[u] = At(d, num[u], 1) /\ head[u] \in Slots(d)
      /\ LockFits(num) /\ RingFits(d, num) /\ WorkFits(d, num)
      /\ UsedFits(d, num, own) /\ OrderFits(d, num)
  BY <1>0, Unpack, ZenonT(40)
<1>3. /\ sent \in Nat /\ availIdx \in Nat /\ usedIdx \in Nat /\ devSeen \in Nat
      /\ lastProcessed \in Nat /\ Room(d) \in Nat /\ d.maxRequests \in Nat
      /\ lastProcessed <= usedIdx /\ usedIdx <= devSeen /\ devSeen <= availIdx
      /\ availIdx <= sent /\ sent <= d.maxRequests
  BY <1>0, Unpack, ZenonT(40)
<1>4. device = d /\ sent < d.maxRequests /\ availIdx = sent
  BY <1>0, <1>2, Zenon DEF Typed, LockFits
<1>5. /\ sent + 1 - lastProcessed <= Room(d)
      /\ \A u \in Tasks : Busy(u) => sent + 1 <= num[u] + Room(d)
  BY <1>0, <1>4, RoomLeft, Zenon
<1>6. Room(d) > 0
  BY <1>3, <1>5, SMTT(30), SMTT(60)
<1>7. /\ ChainFits(d, n, r, buf)'
      /\ \A i \in Slots(d) : (\A k \in 1 .. ChainLen(d) : At(d, n, k) # i) => desc'[i] = desc[i]
      /\ rawNextIndex' = (ChainLen(d) * (sent + 1)) % IndexRange
  BY <1>1, <1>2, <1>6, ChainWritten, Zenon
<1>8. 1 \in 1 .. ChainLen(d)
  BY DeviceFacts, SMTT(30), SMTT(60)
<1>9. first = At(d, n, 1) /\ first \in Slots(d)
  <2>1. first = At(d, n, 1)
    BY <1>2, <1>8, SlotAt, Zenon
  <2>2. At(d, n, 1) \in Slots(d)
    BY <1>8, AtSlot, Zenon
  <2> QED BY <2>1, <2>2, Zenon
<1>10. ASSUME NEW u \in Tasks, Busy(u), NEW k \in 1 .. ChainLen(d), NEW l \in 1 .. ChainLen(d)
       PROVE  At(d, num[u], k) # At(d, n, l)
  <2>1. num[u] < n /\ n - num[u] < Room(d) /\ num[u] \in Nat
    <3>1. num[u] < sent /\ num[u] \in Nat /\ sent + 1 <= num[u] + Room(d)
      BY <1>2, <1>5, <1>10, Zenon DEF TaskFits
    <3> QED BY <1>3, <3>1, SMTT(30), SMTT(60)
  <2> QED BY <2>1, AtApart, Zenon
<1>11. ~Busy(t) /\ channel[t] = None /\ own[t] = None
  BY <1>0, <1>2, Zenon DEF Busy, TaskFits
<1>12. data[first] = None
  <2> SUFFICES ASSUME data[first] # None PROVE FALSE
    BY Zenon
  <2>1. first \in DOMAIN data
    BY <1>2, <1>9, Zenon DEF Typed
  <2>2. PICK u \in Tasks : Busy(u) /\ head[u] = first
    BY <1>2, <2>1, Zenon DEF OwnersFit
  <2>3. At(d, num[u], 1) = At(d, n, 1)
    BY <1>2, <1>9, <2>2, Zenon
  <2> QED BY <1>8, <1>10, <2>2, <2>3, Zenon
<1>13. r.type \in Types /\ r.amount \in Nat /\ r.sector \in Sectors /\ r # None
  BY Zenon DEF QueueConstants, Sectors
<1>14. panicked' = FALSE
  <2>1. ASSUME Len(c) = 3 PROVE c[1].off % HeaderAlign = 0
    <3>1. r.type # "Rng"
      BY <2>1, SMTT(30), SMTT(60) DEF Chain, RngChain
    <3>2. c[1].off = HeaderOffset(r)
      BY <3>1, ZenonT(60) DEF Chain, BlockChain, Elem
    <3>3. HeaderOffset(r) % HeaderAlign = 0
      BY <1>13, <3>1, Lengths, Zenon
    <3> QED BY <3>2, <3>3, Zenon
  <2> HIDE DEF c, first
  <2>2. ~(\/ data[first] # None \/ (Len(c) = 3 /\ c[1].off % HeaderAlign # 0))
    BY <1>12, <2>1, Zenon
  <2> QED BY <1>1, <2>2, ZenonT(60)
<1> HIDE DEF c, first
<1>15. /\ pc'[t] = "entry" /\ req'[t] = r /\ head'[t] = first
       /\ \A u \in Tasks : u # t => pc'[u] = pc[u] /\ req'[u] = req[u] /\ head'[u] = head[u]
       /\ pc' \in [Tasks -> {"idle", "entry", "publish", "waiting"}]
       /\ req' \in [Tasks -> Requests \cup {None}]
       /\ head' \in [Tasks -> Slots(d)]
  BY <1>1, <1>2, <1>9, ZenonT(60) DEF Typed
<1>16. /\ num2[t] = n /\ own2[t] = buf
       /\ \A u \in Tasks : u # t => num2[u] = num[u] /\ own2[u] = own[u]
  BY ZenonT(60)
<1> HIDE DEF num2, own2
<1>17. NewBuffer(r) \in Contents /\ NewBuffer(r) # None /\ NewBuffer(r).type = r.type
       /\ NewBuffer(r).sector = r.sector
  <2>1. NewBuffer(r) \in Contents
    BY <1>13, Zenon DEF NewBuffer, Contents, Payloads
  <2>2. NewBuffer(r).type = r.type /\ NewBuffer(r).sector = r.sector
    BY Zenon DEF NewBuffer
  <2> QED BY <2>1, <2>2, Zenon DEF QueueConstants
<1>18. /\ mem' \in [Buffers -> Contents \cup {None}] /\ mem'[buf] = NewBuffer(r)
       /\ \A b \in Buffers : b # buf => mem'[b] = mem[b]
  <2> DEFINE e == NewBuffer(r)
  <2>1. e \in Contents /\ mem' = [mem EXCEPT ![buf] = e] /\ mem \in [Buffers -> Contents \cup {None}]
    BY <1>1, <1>2, <1>17, Zenon DEF Typed
  <2> HIDE DEF e
  <2>2. /\ mem' \in [Buffers -> Contents \cup {None}] /\ mem'[buf] = e
        /\ \A b \in Buffers : b # buf => mem'[b] = mem[b]
    BY <2>1, Zenon
  <2> QED BY <2>2, Zenon DEF e
<1>19. /\ data' \in [Slots(d) -> Entries \cup {None}]
       /\ data'[first] = [task |-> t, buf |-> buf]
       /\ \A i \in Slots(d) : i # first => data'[i] = data[i]
  <2> DEFINE e == [task |-> t, buf |-> buf]
  <2>1. e \in Entries
    BY Zenon DEF Entries
  <2>2. data' = [data EXCEPT ![first] = e] /\ data \in [Slots(d) -> Entries \cup {None}]
    BY <1>1, <1>2, Zenon DEF Typed
  <2> HIDE DEF e
  <2>3. /\ data' \in [Slots(d) -> Entries \cup {None}] /\ data'[first] = e
        /\ \A i \in Slots(d) : i # first => data'[i] = data[i]
    BY <1>9, <2>1, <2>2, Zenon
  <2> QED BY <2>3, Zenon DEF e
<1>20. Typed(d)'
  <2>1. sent' \in Nat
    BY <1>1, <1>3, SMTT(30), SMTT(60)
  <2>2. rawNextIndex' = (ChainLen(d) * sent') % IndexRange
    BY <1>1, <1>7, Zenon
  <2> QED BY <1>1, <1>2, <1>15, <1>18, <1>19, <2>1, <2>2, ZenonT(40) DEF Typed
<1>21. ASSUME NEW u \in Tasks, u # t PROVE own[u] # buf
  BY <1>0, <1>2, <1>21, ZenonT(40) DEF TaskFits, QueueConstants
<1>22. ASSUME NEW u \in Tasks, u # t
       PROVE  TaskFits(d, u, num2[u], own2[u])' /\ (Busy(u)' <=> Busy(u))
  <2>1. /\ TaskFits(d, u, num[u], own[u]) /\ own2[u] = own[u] /\ num2[u] = num[u]
        /\ own[u] # buf /\ (own[u] # None => own[u] \in Buffers) /\ num[u] \in Nat
    BY <1>2, <1>16, <1>21, <1>22, Zenon
  <2>2. own[u] # None => mem'[own[u]] = mem[own[u]] /\ mem'[own[u]] # None
    BY <1>18, <2>1, ZenonT(40) DEF TaskFits
  <2>3. Busy(u) => num[u] < sent' /\ sent' <= num[u] + Room(d)
    <3>1. Busy(u) => num[u] < sent /\ sent + 1 <= num[u] + Room(d)
      BY <1>5, <2>1, Zenon DEF TaskFits
    <3> QED BY <1>1, <1>3, <2>1, <3>1, SMTT(30), SMTT(60)
  <2>4. ASSUME Busy(u), NEW k \in 1 .. ChainLen(d)
        PROVE  desc'[At(d, num[u], k)] = desc[At(d, num[u], k)]
    <3>1. At(d, num[u], k) \in Slots(d)
      BY <2>1, AtSlot, Zenon
    <3>2. \A l \in 1 .. ChainLen(d) : At(d, n, l) # At(d, num[u], k)
      BY <1>10, <2>4, Zenon
    <3> QED BY <1>7, <3>1, <3>2, Zenon
  <2>5. Busy(u) => data'[head[u]] = data[head[u]] /\ own[u] # None
    <3>1. Busy(u) => head[u] # first /\ head[u] \in Slots(d) /\ own[u] # None
      BY <1>2, <1>8, <1>9, <1>10, Zenon
    <3> QED BY <1>19, <3>1, Zenon
  <2>6. TaskFits(d, u, num[u], own[u])' /\ (Busy(u)' <=> Busy(u))
    BY <1>1, <1>15, <1>22, <2>1, <2>2, <2>3, <2>4, <2>5, TaskKept, Zenon
  <2> QED BY <2>1, <2>6, Zenon
<1>23. Busy(t)'
  BY <1>1, <1>11, <1>15, Zenon DEF Busy
<1>24. TaskFits(d, t, num2[t], own2[t])'
  <2>1. n < sent' /\ sent' <= n + Room(d)
    BY <1>1, <1>3, <1>6, SMTT(30), SMTT(60)
  <2>2. mem'[buf] # None /\ mem'[buf].type = r.type /\ mem'[buf].sector = r.sector
    BY <1>17, <1>18, Zenon
  <2>3. head'[t] = At(d, n, 1) /\ data'[head'[t]] = [task |-> t, buf |-> buf]
    BY <1>9, <1>15, <1>19, Zenon
  <2>4. ChainFits(d, n, req[t], buf)'
    BY <1>7, <1>15, Zenon DEF ChainFits
  <2>5. TaskFits(d, t, n, buf)'
    BY <1>1, <1>11, <1>13, <1>15, <1>23, <2>1, <2>2, <2>3, <2>4, Zenon DEF TaskFits
  <2> QED BY <1>16, <2>5, ZenonT(40)
<1>25. ASSUME NEW u \in Tasks, Busy(u)
       PROVE  u # t /\ Busy(u)' /\ num2[u] = num[u] /\ head'[u] = head[u]
  BY <1>11, <1>15, <1>16, <1>22, <1>25, Zenon
<1>26. OwnersFit(num2, own2)'
  <2>1. ASSUME NEW u \in Tasks, u # t, Busy(u)' PROVE num2[u] # num2[t]
    <3>1. Busy(u)
      BY <1>22, <2>1, Zenon
    <3>2. num[u] < sent /\ num[u] \in Nat
      BY <1>2, <3>1, Zenon DEF TaskFits
    <3>3. num[u] # n
      BY <1>3, <3>2, SMTT(30), SMTT(60)
    <3> QED BY <1>16, <2>1, <3>3, Zenon
  <2>2. ASSUME NEW u \in Tasks, u # t PROVE own2[u] # own2[t]
    BY <1>16, <1>21, <2>2, Zenon
  <2>3. ASSUME NEW u \in Tasks, NEW v \in Tasks, u # v
        PROVE  /\ Busy(u)' /\ Busy(v)' => num2[u] # num2[v]
               /\ own2[u] = own2[v] => own2[u] = None
    <3>1. CASE u = t
      BY <2>1, <2>2, <2>3, <3>1, Zenon
    <3>2. CASE v = t
      BY <2>1, <2>2, <2>3, <3>2, Zenon
    <3>3. CASE u # t /\ v # t
      <4>1. /\ Busy(u) /\ Busy(v) => num[u] # num[v]
            /\ own[u] = own[v] => own[u] = None
        BY <1>2, <2>3, Zenon DEF OwnersFit
      <4> QED BY <1>16, <1>22, <3>3, <4>1, Zenon
    <3> QED BY <3>1, <3>2, <3>3, Zenon
  <2>4. ASSUME NEW i \in DOMAIN data', data'[i] # None
        PROVE  \E u \in Tasks : Busy(u)' /\ head'[u] = i
    <3>1. CASE i = first
      BY <1>15, <1>23, <3>1, Zenon
    <3>2. CASE i # first
      <4>1. i \in Slots(d) /\ i \in DOMAIN data
        BY <1>2, <1>19, <2>4, Zenon DEF Typed
      <4>2. data[i] # None
        BY <1>19, <2>4, <3>2, <4>1, Zenon
      <4>3. PICK u \in Tasks : Busy(u) /\ head[u] = i
        BY <1>2, <4>1, <4>2, Zenon DEF OwnersFit
      <4> QED BY <1>25, <4>3, Zenon
    <3> QED BY <3>1, <3>2, Zenon
  <2> QED BY <2>3, <2>4, Zenon DEF OwnersFit
<1>27. LockFits(num2)'
  <2>1. lock' # None /\ lock' \in Tasks /\ pc'[lock'] = "entry" /\ num2[lock'] = availIdx'
    BY <1>1, <1>4, <1>15, <1>16, Zenon DEF QueueConstants
  <2>2. sent' = availIdx' + 1
    BY <1>1, <1>4, Zenon
  <2>3. \A u \in Tasks : u # lock' => pc'[u] \in {"idle", "waiting"}
    BY <1>0, <1>1, <1>2, <1>15, Zenon DEF LockFits
  <2> QED BY <2>1, <2>2, <2>3, Zenon DEF LockFits
<1>28. RingFits(d, num2)'
  <2> SUFFICES ASSUME NEW j \in devSeen .. availIdx - 1
               PROVE  /\ availRing[j % d.size] = At(d, j, 1)
                      /\ \E u \in Tasks : Busy(u)' /\ num2[u] = j
    BY <1>1, Zenon DEF RingFits
  <2>1. /\ availRing[j % d.size] = At(d, j, 1)
        /\ \E u \in Tasks : Busy(u) /\ num[u] = j
    BY <1>2, Zenon DEF RingFits
  <2> QED BY <1>25, <2>1, Zenon
<1>29. WorkFits(d, num2)'
  <2>1. WorkFits(d, num)
    BY <1>2, Zenon
  <2>2. Len(devWork') = devSeen' - usedIdx'
    BY <1>1, <2>1, Zenon DEF WorkFits
  <2>3. ASSUME NEW i \in 1 .. Len(devWork')
        PROVE  /\ \E u \in Tasks : Busy(u)' /\ num2[u] < devSeen' /\ devWork'[i] = head'[u]
               /\ \A k \in 1 .. Len(devWork') : devWork'[i] = devWork'[k] => i = k
               /\ d.inOrder => devWork'[i] = At(d, usedIdx' + i - 1, 1)
    <3>1. PICK u \in Tasks : Busy(u) /\ num[u] < devSeen /\ devWork[i] = head[u]
      BY <1>1, <2>1, Zenon DEF WorkFits
    <3>2. Busy(u)' /\ num2[u] < devSeen' /\ devWork'[i] = head'[u]
      BY <1>1, <1>25, <3>1, Zenon
    <3>3. /\ \A k \in 1 .. Len(devWork') : devWork'[i] = devWork'[k] => i = k
          /\ d.inOrder => devWork'[i] = At(d, usedIdx' + i - 1, 1)
      BY <1>1, <2>1, Zenon DEF WorkFits
    <3> QED BY <3>2, <3>3, Zenon
  <2> QED BY <2>2, <2>3, Zenon DEF WorkFits
<1>30. UsedFits(d, num2, own2)'
  <2> SUFFICES ASSUME NEW j \in lastProcessed .. usedIdx - 1
               PROVE  (/\ \E u \in Tasks :
                            /\ Busy(u) /\ num2[u] < devSeen /\ usedRing[j % d.size].id = head[u]
                            /\ \A i \in 1 .. Len(devWork) : devWork[i] # head[u]
                            /\ Done(req[u], own2[u], usedRing[j % d.size].len)
                       /\ d.inOrder => usedRing[j % d.size].id = At(d, j, 1))'
    BY <1>1, Zenon DEF UsedFits
  <2>1. PICK u \in Tasks :
          /\ Busy(u) /\ num[u] < devSeen /\ usedRing[j % d.size].id = head[u]
          /\ \A i \in 1 .. Len(devWork) : devWork[i] # head[u]
          /\ Done(req[u], own[u], usedRing[j % d.size].len)
    BY <1>2, Zenon DEF UsedFits
  <2>2. u # t /\ own2[u] = own[u] /\ req'[u] = req[u] /\ own[u] # buf /\ own[u] \in Buffers
    BY <1>2, <1>15, <1>16, <1>21, <1>25, <2>1, Zenon
  <2>3. mem'[own[u]] = mem[own[u]]
    BY <1>18, <2>2, Zenon
  <2>4. Done(req[u], own2[u], usedRing[j % d.size].len)'
    BY <1>1, <2>1, <2>2, <2>3, Zenon DEF Done
  <2>5. d.inOrder => usedRing[j % d.size].id = At(d, j, 1)
    BY <1>2, Zenon DEF UsedFits
  <2> QED BY <1>1, <1>25, <2>1, <2>4, <2>5, Zenon
<1>31. OrderFits(d, num2)'
  <2> SUFFICES ASSUME d.inOrder
               PROVE  /\ \A u \in Tasks : Busy(u)' => lastProcessed <= num2[u]
                      /\ \A j \in lastProcessed .. sent' - 1 :
                           \E u \in Tasks : Busy(u)' /\ num2[u] = j
    BY <1>1, Zenon DEF OrderFits
  <2>1. /\ \A u \in Tasks : Busy(u) => lastProcessed <= num[u]
        /\ \A j \in lastProcessed .. sent - 1 : \E u \in Tasks : Busy(u) /\ num[u] = j
    BY <1>2, Zenon DEF OrderFits
  <2>2. lastProcessed <= n
    BY <1>3, SMTT(30), SMTT(60)
  <2>3. ASSUME NEW u \in Tasks, Busy(u)' PROVE lastProcessed <= num2[u]
    <3>1. CASE u = t
      BY <1>16, <2>2, <3>1, Zenon
    <3>2. CASE u # t
      BY <1>16, <1>22, <2>1, <2>3, <3>2, Zenon
    <3> QED BY <3>1, <3>2, Zenon
  <2>4. ASSUME NEW j \in lastProcessed .. sent' - 1
        PROVE  \E u \in Tasks : Busy(u)' /\ num2[u] = j
    <3>1. j = n \/ j \in lastProcessed .. sent - 1
      BY <1>1, <1>3, SMTT(30), SMTT(60)
    <3>2. CASE j = n
      BY <1>16, <1>23, <3>2, Zenon
    <3>3. CASE j \in lastProcessed .. sent - 1
      BY <1>25, <2>1, <3>3, Zenon
    <3> QED BY <3>1, <3>2, <3>3, Zenon
  <2> QED BY <2>3, <2>4, Zenon
<1>32. \A u \in Tasks : Busy(u)' /\ pc'[u] = "waiting" => num2[u] < availIdx'
  <2>1. \A u \in Tasks : Busy(u) /\ pc[u] = "waiting" => num[u] < availIdx
    BY <1>0, Unpack, ZenonT(40)
  <2>2. ASSUME NEW u \in Tasks, Busy(u)', pc'[u] = "waiting" PROVE num2[u] < availIdx'
    <3>1. u # t
      BY <1>15, <2>2, Zenon
    <3>2. Busy(u) /\ pc[u] = "waiting" /\ num2[u] = num[u]
      BY <1>15, <1>16, <1>22, <2>2, <3>1, Zenon
    <3> QED BY <1>1, <2>1, <3>2, Zenon
  <2> QED BY <2>2, Zenon
<1>33. availIdx' <= sent' /\ sent' <= d.maxRequests /\ sent' - lastProcessed' <= Room(d)
  <2>1. availIdx' = sent /\ sent' = sent + 1 /\ lastProcessed' = lastProcessed
    BY <1>1, <1>4, Zenon
  <2>2. /\ sent \in Nat /\ lastProcessed \in Nat /\ Room(d) \in Nat
        /\ d.maxRequests \in Nat /\ sent < d.maxRequests
        /\ sent + 1 - lastProcessed <= Room(d)
    BY <1>3, <1>4, <1>5, Zenon
  <2> QED BY <2>1, <2>2, SMTT(30), SMTT(60)
<1>34. Flow(d, num2, own2)'
  <2>1. /\ lastProcessed' <= usedIdx' /\ usedIdx' <= devSeen' /\ devSeen' <= availIdx'
    BY <1>1, <1>3, Zenon
  <2> QED BY <1>27, <1>28, <1>29, <1>30, <1>31, <1>32, <1>33, <2>1, Zenon DEF Flow
<1>35. \A u \in Tasks : TaskFits(d, u, num2[u], own2[u])'
  BY <1>22, <1>24, Zenon
<1>36. PanicOnlyOnDeviceError'
  BY <1>14, Zenon DEF PanicOnlyOnDeviceError
<1>37. Fits(d, num2, own2)'
  BY <1>20, <1>26, <1>34, <1>35, <1>36, Zenon DEF Fits
<1> QED BY <1>37 DEF num2, own2

-----------------------------------------------------------------------------
(* The invariant *)

LEMMA QueueStarts ==
  ASSUME QueueConstants, Init
  PROVE  QueueInv
<1> DEFINE d == device
           num == [t \in Tasks |-> 0]
           own == [t \in Tasks |-> None]
<1>1. /\ device \in Devices /\ rawNextIndex = 0 /\ desc = EmptyDescriptors
      /\ availIdx = 0 /\ availRing = EmptyAvailRing /\ usedIdx = 0 /\ usedRing = EmptyUsedRing
      /\ lastProcessed = 0 /\ data = NoData /\ mem = [b \in Buffers |-> None]
      /\ lock = None /\ devSeen = 0 /\ devWork = <<>> /\ irq = FALSE
      /\ pc = [t \in Tasks |-> "idle"] /\ req = [t \in Tasks |-> None]
      /\ head = [t \in Tasks |-> 0] /\ channel = [t \in Tasks |-> None]
      /\ sent = 0 /\ panicked = FALSE
  BY Zenon DEF Init, InitQueue
<1>2. d.size \in Nat \ {0} /\ IndexRange \in Nat \ {0} /\ Room(d) \in Nat
      /\ d.maxRequests \in Nat /\ ChainLen(d) \in {1, 3}
  BY <1>1, DeviceFacts, Zenon
<1>3. 0 \in Slots(d) /\ Index = Slots(d)
  <2>1. Index = Slots(d)
    BY Zenon DEF Index, QueueSize, Slots
  <2>2. 0 \in 0 .. d.size - 1
    BY <1>2, SMTT(30), SMTT(60)
  <2> QED BY <2>1, <2>2, Zenon DEF Slots
<1>4. \A t \in Tasks : /\ pc[t] = "idle" /\ req[t] = None /\ channel[t] = None
                       /\ num[t] = 0 /\ own[t] = None /\ ~Busy(t)
  BY <1>1, Zenon DEF Busy
<1>5. num \in [Tasks -> Nat] /\ own \in [Tasks -> Buffers \cup {None}]
  <2>1. 0 \in Nat
    BY ZenonT(60)
  <2> QED BY <2>1, Zenon
<1>6. Typed(d)
  <2>1. availRing \in [Slots(d) -> Slots(d)] /\ data \in [Slots(d) -> Entries \cup {None}]
    BY <1>1, <1>3, Zenon DEF EmptyAvailRing, NoData
  <2>2. usedRing \in [Slots(d) -> [id : Slots(d), len : Nat]]
    <3>1. 0 \in Nat
      BY ZenonT(60)
    <3>2. [id |-> 0, len |-> 0] \in [id : Slots(d), len : Nat]
      BY <1>3, <3>1, Zenon
    <3> QED BY <1>1, <1>3, <3>2, Zenon DEF EmptyUsedRing
  <2>3. mem \in [Buffers -> Contents \cup {None}] /\ req \in [Tasks -> Requests \cup {None}]
    BY <1>1, Zenon
  <2>4. channel \in [Tasks -> Replies \cup {None}] /\ head \in [Tasks -> Slots(d)]
    BY <1>1, <1>3, Zenon
  <2>5. pc \in [Tasks -> {"idle", "entry", "publish", "waiting"}]
    BY <1>1, Zenon
  <2>6. rawNextIndex = (ChainLen(d) * sent) % IndexRange /\ devWork \in Seq(Slots(d))
        /\ 0 \in Nat
    <3>1. ChainLen(d) * 0 = 0 /\ 0 % IndexRange = 0 /\ 0 \in Nat
      BY <1>2, SMTT(30), SMTT(60)
    <3>2. devWork \in Seq(Slots(d))
      BY <1>1, SMTT(30), SMTT(60)
    <3> QED BY <1>1, <3>1, <3>2, Zenon
  <2> QED BY <1>1, <2>1, <2>2, <2>3, <2>4, <2>5, <2>6, Zenon DEF Typed
<1>7. \A t \in Tasks : TaskFits(d, t, num[t], own[t])
  BY <1>4, Zenon DEF TaskFits
<1>8. OwnersFit(num, own)
  <2>1. \A i \in DOMAIN data : data[i] = None
    BY <1>1, Zenon DEF NoData
  <2> QED BY <1>4, <2>1, Zenon DEF OwnersFit
<1>9. Flow(d, num, own)
  <2>1. (0 .. 0 - 1) = {} /\ 0 <= 0 /\ 0 <= d.maxRequests /\ 0 - 0 <= Room(d) /\ 0 = 0 - 0
    BY <1>2, SMTT(30), SMTT(60)
  <2>2. Len(devWork) = 0 /\ (1 .. Len(devWork)) = {}
    BY <1>1, SMTT(30), SMTT(60)
  <2>3. LockFits(num)
    BY <1>1, <1>4, Zenon DEF LockFits
  <2>4. RingFits(d, num) /\ UsedFits(d, num, own)
    BY <1>1, <2>1, Zenon DEF RingFits, UsedFits
  <2>5. WorkFits(d, num)
    BY <1>1, <2>1, <2>2, Zenon DEF WorkFits
  <2>6. OrderFits(d, num)
    BY <1>1, <1>4, <2>1, Zenon DEF OrderFits
  <2> QED BY <1>1, <1>4, <2>1, <2>3, <2>4, <2>5, <2>6, Zenon DEF Flow
<1>10. Fits(d, num, own)
  BY <1>1, <1>6, <1>7, <1>8, <1>9, Zenon DEF Fits, PanicOnlyOnDeviceError
<1> QED BY <1>1, <1>5, <1>10, Zenon DEF QueueInv

LEMMA QueueStays ==
  ASSUME QueueConstants, NEW d \in Devices, NEW num \in [Tasks -> Nat],
         NEW own, Fits(d, num, own), UNCHANGED vars
  PROVE  Fits(d, num, own)'
<1>1. /\ device' = device /\ rawNextIndex' = rawNextIndex /\ desc' = desc
      /\ availIdx' = availIdx /\ availRing' = availRing /\ lastProcessed' = lastProcessed
      /\ data' = data /\ usedIdx' = usedIdx /\ usedRing' = usedRing /\ devSeen' = devSeen
      /\ devWork' = devWork /\ mem' = mem /\ lock' = lock /\ irq' = irq
      /\ pc' = pc /\ req' = req /\ head' = head /\ channel' = channel /\ sent' = sent
      /\ panicked' = panicked
  BY ZenonT(60) DEF vars, driverVars, deviceVars, taskVars
<1>2. \A t \in Tasks : Busy(t)' <=> Busy(t)
  BY <1>1, Zenon DEF Busy
<1>3. Typed(d)' /\ OwnersFit(num, own)' /\ PanicOnlyOnDeviceError'
  BY <1>1, <1>2, Zenon DEF Fits, Typed, OwnersFit, PanicOnlyOnDeviceError
<1>4. ASSUME NEW t \in Tasks PROVE TaskFits(d, t, num[t], own[t])'
  <2>1. TaskFits(d, t, num[t], own[t])
    BY Zenon DEF Fits
  <2> QED BY <1>1, <1>2, <2>1, Zenon DEF TaskFits, ChainFits
<1>5. ASSUME Flow(d, num, own) PROVE Flow(d, num, own)'
  <2>1. \A i : ToElemIndex(i)' = ToElemIndex(i)
    BY <1>1, Zenon DEF ToElemIndex, QueueSize
  <2>2. LockFits(num)'
    BY <1>1, <1>5, <2>1, Zenon DEF Flow, LockFits
  <2>3. RingFits(d, num)'
    BY <1>1, <1>2, <1>5, Zenon DEF Flow, RingFits
  <2>4. WorkFits(d, num)'
    BY <1>1, <1>2, <1>5, Zenon DEF Flow, WorkFits
  <2>5. UsedFits(d, num, own)'
    BY <1>1, <1>2, <1>5, UsedKept, Zenon DEF Flow
  <2>6. OrderFits(d, num)'
    BY <1>1, <1>2, <1>5, Zenon DEF Flow, OrderFits
  <2> QED BY <1>1, <1>2, <1>5, <2>2, <2>3, <2>4, <2>5, <2>6, Zenon DEF Flow
<1> QED BY <1>1, <1>3, <1>4, <1>5, Zenon DEF Fits

LEMMA QueueKept ==
  ASSUME QueueConstants, QueueInv, [Next]_vars
  PROVE  QueueInv'
<1>1. PICK d \in Devices, num \in [Tasks -> Nat], own \in [Tasks -> Buffers \cup {None}] :
        Fits(d, num, own)
  BY Zenon DEF QueueInv
<1> SUFFICES \E num2 \in [Tasks -> Nat], own2 \in [Tasks -> Buffers \cup {None}] :
               Fits(d, num2, own2)'
  BY Zenon DEF QueueInv
<1>2. CASE UNCHANGED vars
  BY <1>1, <1>2, QueueStays, Zenon
<1>3. ASSUME NEW t \in Tasks, TaskStep(t)
      PROVE  \E own2 \in [Tasks -> Buffers \cup {None}] : Fits(d, num, own2)'
  <2>1. CASE AddEntry(t)
    BY <1>1, <2>1, AddEntryFits, Zenon
  <2>2. CASE Publish(t)
    BY <1>1, <2>2, PublishFits, Zenon
  <2>3. CASE Receive(t)
    <3>1. Fits(d, num, [own EXCEPT ![t] = None])'
      BY <1>1, <2>3, ReceiveFits, Zenon
    <3>2. [own EXCEPT ![t] = None] \in [Tasks -> Buffers \cup {None}]
      BY Zenon
    <3> QED BY <3>1, <3>2, Zenon
  <2> QED BY <1>3, <2>1, <2>2, <2>3, Zenon DEF TaskStep
<1>4. ASSUME NEW t \in Tasks, NEW r \in Requests, NEW b \in Buffers,
             \/ VirtioBlockGetId(t, r, b) \/ VirtioBlockRead(t, r, b)
             \/ VirtioBlockWrite(t, r, b) \/ RequestRandomNumbers(t, r, b)
      PROVE  \E num2 \in [Tasks -> Nat], own2 \in [Tasks -> Buffers \cup {None}] :
               Fits(d, num2, own2)'
  <2>1. AddRequest(t, r, b) /\ (r.type = "Rng" <=> device.driver = "rng")
    BY <1>4, Zenon DEF VirtioBlockGetId, VirtioBlockRead, VirtioBlockWrite, RequestRandomNumbers
  <2>2. device = d /\ sent \in Nat
    BY <1>1, Zenon DEF Fits, Typed
  <2>3. PICK n \in Nat : n = sent
    BY <2>2, Zenon
  <2>4. Fits(d, [num EXCEPT ![t] = n], [own EXCEPT ![t] = b])'
    BY <1>1, <2>1, <2>2, <2>3, AddRequestFits, Zenon
  <2>5. [num EXCEPT ![t] = n] \in [Tasks -> Nat]
    BY Zenon
  <2>6. [own EXCEPT ![t] = b] \in [Tasks -> Buffers \cup {None}]
    BY Zenon
  <2> QED BY <2>4, <2>5, <2>6, Zenon
<1>5. CASE DeviceTake
  BY <1>1, <1>5, DeviceTakeFits, Zenon
<1>6. ASSUME NEW n \in DOMAIN devWork, NEW s \in Statuses, NEW w \in Written,
             DeviceComplete(n, s, w)
      PROVE  Fits(d, num, own)'
  BY <1>1, <1>6, DeviceCompleteFits, Zenon
<1>7. CASE Interrupt
  <2>1. CASE panicked'
    BY <1>1, <1>7, <2>1, InterruptPanics, Zenon
  <2>2. CASE ~panicked'
    BY <1>1, <1>7, <2>2, InterruptAnswers, Zenon
  <2> QED BY <2>1, <2>2, Zenon
<1>8. CASE Next
  BY <1>3, <1>4, <1>5, <1>6, <1>7, <1>8, Zenon DEF Next
<1> QED BY <1>2, <1>8, Zenon

(* Whatever the tasks, the device and the handler do, the requests in the  *)
(* queue keep their descriptors, their data and their buffers.             *)
THEOREM QueueHolds ==
  ASSUME QueueConstants
  PROVE  Spec => []QueueInv
<1>1. Init => QueueInv
  BY QueueStarts, Zenon
<1>2. QueueInv /\ [Next]_vars => QueueInv'
  BY QueueKept, Zenon
<1> QED BY <1>1, <1>2, PTL DEF Spec

-----------------------------------------------------------------------------
(* The chains of the device *)

ItemIs(h, k, i) == ChainItem(h, k) = i

LEMMA Items ==
  ASSUME QueueConstants, NEW d \in Devices, NEW n \in Nat, NEW r, NEW b, ChainFits(d, n, r, b),
         NEW k \in 1 .. 4
  PROVE  ItemIs(At(d, n, 1), k, IF k <= ChainLen(d) THEN At(d, n, k) ELSE None)
<1> DEFINE h == At(d, n, 1)
<1>1. /\ ChainItem(h, 1) = h /\ ChainItem(h, 2) = Following(h)
      /\ ChainItem(h, 3) = Following(Following(h))
      /\ ChainItem(h, 4) = Following(Following(Following(h)))
  BY ItemOf, Zenon
<1>2. Following(None) = None
  BY Zenon DEF Following
<1>3. k \in {1, 2, 3, 4}
  BY SMTT(30), SMTT(60)
<1>4. CASE ChainLen(d) = 1
  <2>1. Following(h) = None
    BY <1>4, ChainWalk, Zenon
  <2>2. 1 <= 1 /\ ~(2 <= 1) /\ ~(3 <= 1) /\ ~(4 <= 1)
    BY SMTT(30), SMTT(60)
  <2> QED BY <1>1, <1>2, <1>3, <1>4, <2>1, <2>2, Zenon DEF ItemIs
<1>5. CASE ChainLen(d) = 3
  <2>1. /\ Following(h) = At(d, n, 2) /\ Following(At(d, n, 2)) = At(d, n, 3)
        /\ Following(At(d, n, 3)) = None
    BY <1>5, ChainWalk, Zenon
  <2>2. 1 <= 3 /\ 2 <= 3 /\ 3 <= 3 /\ ~(4 <= 3)
    BY SMTT(30), SMTT(60)
  <2> HIDE DEF h
  <2>3. ChainItem(h, 2) = At(d, n, 2) /\ ChainItem(h, 3) = At(d, n, 3) /\ ChainItem(h, 4) = None
    BY <1>1, <2>1, Zenon
  <2>4. ItemIs(h, k, IF k <= 3 THEN At(d, n, k) ELSE None)
    <3>1. CASE k = 1
      <4>1. ChainItem(h, k) = At(d, n, k)
        BY <1>1, <3>1, Zenon DEF h
      <4> QED BY <2>2, <3>1, <4>1, Zenon DEF ItemIs
    <3>2. CASE k = 2
      BY <2>2, <2>3, <3>2, Zenon DEF ItemIs
    <3>3. CASE k = 3
      BY <2>2, <2>3, <3>3, Zenon DEF ItemIs
    <3>4. CASE k = 4
      BY <2>2, <2>3, <3>4, Zenon DEF ItemIs
    <3> QED BY <1>3, <3>1, <3>2, <3>3, <3>4, Zenon
  <2> QED BY <1>5, <2>4, Zenon DEF h
<1>6. ChainLen(d) \in {1, 3}
  BY DeviceFacts, Zenon
<1> QED BY <1>4, <1>5, <1>6, Zenon

LEMMA ItemsApart ==
  ASSUME QueueConstants, NEW d \in Devices, NEW num \in [Tasks -> Nat], NEW own,
         Fits(d, num, own), NEW t \in Tasks, NEW u \in Tasks, t # u, Busy(t), Busy(u)
  PROVE  ChainSlots(head[t]) \cap ChainSlots(head[u]) = {}
<1> SUFFICES ASSUME NEW i, i \in ChainSlots(head[t]), i \in ChainSlots(head[u])
             PROVE  FALSE
  BY Zenon
<1>1. PICK k \in 1 .. 4 : ChainItem(head[t], k) = i
  BY Zenon DEF ChainSlots
<1>2. PICK l \in 1 .. 4 : ChainItem(head[u], l) = i
  BY Zenon DEF ChainSlots
<1>3. i # None
  BY Zenon DEF ChainSlots
<1>4. /\ TaskFits(d, t, num[t], own[t]) /\ TaskFits(d, u, num[u], own[u])
      /\ Typed(d) /\ num[t] # num[u] /\ num[t] \in Nat /\ num[u] \in Nat
  BY Zenon DEF Fits, OwnersFit
<1>5. /\ num[t] < sent /\ sent <= num[t] + Room(d) /\ num[u] < sent /\ sent <= num[u] + Room(d)
      /\ head[t] = At(d, num[t], 1) /\ head[u] = At(d, num[u], 1)
      /\ ChainFits(d, num[t], req[t], own[t]) /\ ChainFits(d, num[u], req[u], own[u])
  BY <1>4, Zenon DEF TaskFits
<1>6. k <= ChainLen(d) /\ i = At(d, num[t], k)
  <2>1. ItemIs(At(d, num[t], 1), k, IF k <= ChainLen(d) THEN At(d, num[t], k) ELSE None)
    BY <1>4, <1>5, Items, Zenon
  <2> QED BY <1>1, <1>3, <1>5, <2>1, Zenon DEF ItemIs
<1>7. l <= ChainLen(d) /\ i = At(d, num[u], l)
  <2>1. ItemIs(At(d, num[u], 1), l, IF l <= ChainLen(d) THEN At(d, num[u], l) ELSE None)
    BY <1>4, <1>5, Items, Zenon
  <2> QED BY <1>2, <1>3, <1>5, <2>1, Zenon DEF ItemIs
<1>8. k \in 1 .. ChainLen(d) /\ l \in 1 .. ChainLen(d)
  BY <1>6, <1>7, DeviceFacts, SMTT(30), SMTT(60)
<1> QED BY <1>4, <1>5, <1>6, <1>7, <1>8, BusyApart, Zenon

LEMMA ItemsKept ==
  ASSUME QueueConstants, NEW d \in Devices, NEW num \in [Tasks -> Nat], NEW own,
         Fits(d, num, own), NEW t \in Tasks, Busy(t)
  PROVE  LET e == data[head[t]]
         IN  /\ e # None /\ e.task = t /\ mem[e.buf] # None
             /\ LET c == Chain(req[t], e.buf)
                IN  \A k \in 1 .. 4 :
                      IF k <= Len(c) THEN /\ ChainItem(head[t], k) # None
                                          /\ desc[ChainItem(head[t], k)].elem = c[k]
                      ELSE ChainItem(head[t], k) = None
<1> DEFINE e == data[head[t]]
           b == own[t]
           r == req[t]
<1>1. TaskFits(d, t, num[t], own[t]) /\ num[t] \in Nat
  BY Zenon DEF Fits
<1>2. HeldFor(t, head[t], req[t], own[t])
  BY <1>1, BusyChain, Zenon
<1>3. e # None /\ e.task = t /\ e.buf = b /\ mem[b] # None
  BY <1>2, Zenon DEF HeldFor
<1>4. /\ head[t] = At(d, num[t], 1) /\ ChainFits(d, num[t], r, b)
      /\ r.type = "Rng" <=> d.driver = "rng"
  BY <1>1, Zenon DEF TaskFits, Busy
<1>5. Len(Chain(r, b)) = ChainLen(d)
  BY <1>4, ChainShape, Zenon
<1>6. ASSUME NEW k \in 1 .. 4
      PROVE  IF k <= Len(Chain(r, b)) THEN /\ ChainItem(head[t], k) # None
                                           /\ desc[ChainItem(head[t], k)].elem = Chain(r, b)[k]
             ELSE ChainItem(head[t], k) = None
  <2>1. ItemIs(At(d, num[t], 1), k, IF k <= ChainLen(d) THEN At(d, num[t], k) ELSE None)
    BY <1>1, <1>4, Items, Zenon
  <2>2. CASE k <= ChainLen(d)
    <3>1. k \in 1 .. ChainLen(d)
      BY <2>2, DeviceFacts, SMTT(30), SMTT(60)
    <3>2. At(d, num[t], k) \in Nat
      BY <1>1, <3>1, AtSlot, Zenon
    <3>3. At(d, num[t], k) # None
      BY <3>2, Zenon DEF QueueConstants
    <3>4. desc[At(d, num[t], k)].elem = Chain(r, b)[k]
      BY <1>4, <3>1, Zenon DEF ChainFits
    <3> QED BY <1>4, <1>5, <2>1, <2>2, <3>3, <3>4, Zenon DEF ItemIs
  <2>3. CASE ~(k <= ChainLen(d))
    BY <1>4, <1>5, <2>1, <2>3, Zenon DEF ItemIs
  <2> QED BY <2>2, <2>3, Zenon
<1> HIDE DEF e, b, r
<1>7. /\ e # None /\ e.task = t /\ mem[e.buf] # None
      /\ \A k \in 1 .. 4 :
           IF k <= Len(Chain(r, e.buf)) THEN /\ ChainItem(head[t], k) # None
                                             /\ desc[ChainItem(head[t], k)].elem = Chain(r, e.buf)[k]
           ELSE ChainItem(head[t], k) = None
  BY <1>3, <1>6, Zenon
<1> QED BY <1>7, Zenon DEF e, r

(* A chain that the device may still read is what its request made it, in  *)
(* a buffer still allocated, and shares no slot with another's: although   *)
(* add_descriptor overwrites without looking.                              *)
THEOREM ChainsOwned ==
  ASSUME QueueConstants
  PROVE  Spec => []DeviceOwnsItsChains
<1>1. ASSUME QueueInv PROVE DeviceOwnsItsChains
  <2>1. PICK d \in Devices, num \in [Tasks -> Nat], own \in [Tasks -> Buffers \cup {None}] :
          Fits(d, num, own)
    BY <1>1, Zenon DEF QueueInv
  <2>2. \A t \in InDevice : t \in Tasks /\ Busy(t)
    <3> SUFFICES ASSUME NEW t \in InDevice PROVE t \in Tasks /\ Busy(t)
      BY Zenon
    <3>1. t \in Tasks /\ pc[t] = "waiting" /\ channel[t] = None
      BY Zenon DEF InDevice
    <3> QED BY <3>1, Zenon DEF Busy
  <2>3. \A t, u \in InDevice : t # u => ChainSlots(head[t]) \cap ChainSlots(head[u]) = {}
    BY <2>1, <2>2, ItemsApart, Zenon
  <2>4. \A t \in InDevice :
          LET e == data[head[t]]
          IN  /\ e # None /\ e.task = t /\ mem[e.buf] # None
              /\ LET c == Chain(req[t], e.buf)
                 IN  \A k \in 1 .. 4 :
                       IF k <= Len(c) THEN /\ ChainItem(head[t], k) # None
                                           /\ desc[ChainItem(head[t], k)].elem = c[k]
                       ELSE ChainItem(head[t], k) = None
    <3> SUFFICES ASSUME NEW t \in InDevice
                 PROVE  LET e == data[head[t]]
                        IN  /\ e # None /\ e.task = t /\ mem[e.buf] # None
                            /\ LET c == Chain(req[t], e.buf)
                               IN  \A k \in 1 .. 4 :
                                     IF k <= Len(c)
                                     THEN /\ ChainItem(head[t], k) # None
                                          /\ desc[ChainItem(head[t], k)].elem = c[k]
                                     ELSE ChainItem(head[t], k) = None
      BY Zenon
    <3> QED BY <2>1, <2>2, ItemsKept, Zenon
  <2> QED BY <2>3, <2>4, Zenon DEF DeviceOwnsItsChains
<1>2. QueueInv => DeviceOwnsItsChains
  BY <1>1, Zenon
<1> QED BY <1>2, QueueHolds, PTL

(* The drivers stop the kernel only when the device reports an error: the  *)
(* slot of add_buffer is free, the header aligned, every used chain parses.*)
THEOREM PanicNeedsDeviceError ==
  ASSUME QueueConstants
  PROVE  Spec => []PanicOnlyOnDeviceError
<1>1. QueueInv => PanicOnlyOnDeviceError
  BY Zenon DEF QueueInv, Fits
<1> QED BY <1>1, QueueHolds, PTL

-----------------------------------------------------------------------------
(* The request channel *)

LEMMA AnswerOf ==
  ASSUME NEW t
  PROVE  /\ channel[t] = None => Answer(t) = None
         /\ channel[t] # None =>
              Answer(t) = [type |-> channel[t].type, payload |-> channel[t].payload,
                           len |-> channel[t].len]
BY Zenon DEF Answer

LEMMA AnswerNotNone ==
  ASSUME QueueConstants, NEW t, channel[t] \in Replies
  PROVE  Answer(t) # None /\ channel[t] # None
<1>1. channel[t] # None
  BY Zenon DEF QueueConstants
<1>2. channel[t].type \in Types /\ channel[t].payload \in Payloads /\ channel[t].len \in Nat
  BY ZenonT(60) DEF Replies
<1>3. [type |-> channel[t].type, payload |-> channel[t].payload, len |-> channel[t].len]
        \in [type : Types, payload : Payloads, len : Nat]
  BY <1>2, Zenon
<1> QED BY <1>1, <1>3, AnswerOf, Zenon DEF QueueConstants

LEMMA ChannelStays ==
  ASSUME req' = req, channel' = channel
  PROVE  UNCHANGED Abstract!channelVars
<1>1. \A u \in Tasks : Answer(u)' = Answer(u)
  BY Zenon DEF Answer
<1> QED BY <1>1, Zenon DEF Abstract!channelVars

LEMMA AskStep ==
  ASSUME QueueConstants, NEW d \in Devices, NEW num, NEW own, Fits(d, num, own),
         NEW t \in Tasks, NEW r \in Requests, NEW b, AddRequest(t, r, b)
  PROVE  Abstract!Ask(t, r)
<1>1. req[t] = None /\ req' = [req EXCEPT ![t] = r] /\ channel' = channel
  BY Zenon DEF AddRequest, Fits, TaskFits
<1>2. \A u \in Tasks : Answer(u)' = Answer(u)
  BY <1>1, Zenon DEF Answer
<1> QED BY <1>1, <1>2, Zenon DEF Abstract!Ask

LEMMA ReceiveStep ==
  ASSUME QueueConstants, NEW d \in Devices, NEW num, NEW own, Fits(d, num, own),
         NEW t \in Tasks, Receive(t)
  PROVE  Abstract!Receive(t)
<1>1. /\ channel[t] # None /\ req' = [req EXCEPT ![t] = None]
      /\ channel' = [channel EXCEPT ![t] = None] /\ channel \in [Tasks -> Replies \cup {None}]
  BY Zenon DEF Receive, Fits, Typed
<1>2. channel[t] \in Replies
  BY <1>1, Zenon
<1>3. Answer(t) # None
  BY <1>2, AnswerNotNone, Zenon
<1>4. channel'[t] = None /\ \A u \in Tasks : u # t => channel'[u] = channel[u]
  BY <1>1, Zenon
<1>5. Answer(t)' = None /\ \A u \in Tasks : u # t => Answer(u)' = Answer(u)
  BY <1>4, Zenon DEF Answer
<1> DEFINE f == [u \in Tasks |-> Answer(u)]
           g == [u \in Tasks |-> Answer(u)']
<1>6. g = [f EXCEPT ![t] = None]
  BY <1>5, Zenon
<1>7. f[t] # None
  BY <1>3, Zenon
<1> QED BY <1>1, <1>6, <1>7, Zenon DEF Abstract!Receive

LEMMA AnswerStep ==
  ASSUME QueueConstants, NEW d \in Devices, NEW num \in [Tasks -> Nat], NEW own,
         Fits(d, num, own), Interrupt, ~panicked'
  PROVE  Abstract!Answer({t \in Tasks : TakenOf(t) # {}})
<1> DEFINE ts == {t \in Tasks : TakenOf(t) # {}}
<1>1. /\ ~panicked /\ req' = req
      /\ channel' = [t \in Tasks |-> IF TakenOf(t) = {} THEN channel[t]
                          ELSE Response(CHOOSE u \in TakenOf(t) : TRUE)]
  BY InterruptStep, Zenon
<1>2. ASSUME NEW t \in ts
      PROVE  req[t] # None /\ Answer(t) = None /\ Answer(t)' \in Answers(req[t])
  <2> DEFINE u == CHOOSE u \in TakenOf(t) : TRUE
  <2>1. t \in Tasks /\ TakenOf(t) # {}
    BY Zenon
  <2>2. u \in TakenOf(t)
    <3>1. \E v : v \in TakenOf(t)
      BY <2>1, Zenon
    <3> QED BY <3>1, Zenon
  <2>3. channel'[t] = Response(u)
    BY <1>1, <2>1, Zenon
  <2> HIDE DEF u
  <2>4. /\ \E j \in NewEntries : Finished(d, num, own, t, u, j)
        /\ Answering(Response(u), req[t], own[t])
    BY <1>1, <2>1, <2>2, TakenFits, Zenon
  <2>5. Busy(t)
    BY <2>4, Zenon DEF Finished
  <2>6. req[t] \in Requests /\ channel[t] = None
    BY <2>1, <2>5, Zenon DEF Fits, TaskFits, Busy
  <2>7. req[t] # None /\ Answer(t) = None
    BY <2>6, Zenon DEF QueueConstants, Answer
  <2>8. /\ channel'[t] \in Replies
        /\ [type |-> channel'[t].type, payload |-> channel'[t].payload, len |-> channel'[t].len]
             \in Answers(req[t])
    BY <2>3, <2>4, Zenon DEF Answering
  <2>9. channel'[t] # None
    BY <2>8, Zenon DEF QueueConstants
  <2>10. Answer(t)' \in Answers(req[t])
    BY <2>8, <2>9, Zenon DEF Answer
  <2> QED BY <2>7, <2>10, Zenon
<1>3. ASSUME NEW t \in Tasks \ ts PROVE Answer(t)' = Answer(t)
  <2>1. channel'[t] = channel[t]
    BY <1>1, Zenon
  <2> QED BY <2>1, Zenon DEF Answer
<1>4. ts \in SUBSET Tasks
  BY Zenon
<1> HIDE DEF ts
<1> DEFINE f == [u \in Tasks |-> Answer(u)]
           g == [u \in Tasks |-> Answer(u)']
<1>5. \A t \in ts : req[t] # None /\ f[t] = None
  BY <1>2, <1>4, Zenon
<1>6. \A t \in ts : g[t] \in Answers(req[t])
  BY <1>2, <1>4, Zenon
<1>7. \A t \in Tasks \ ts : g[t] = f[t]
  BY <1>3, Zenon
<1>8. DOMAIN g = Tasks
  BY Zenon
<1>9. Abstract!Answer(ts)
  BY <1>1, <1>5, <1>6, <1>7, <1>8, Zenon DEF Abstract!Answer
<1> QED BY <1>9 DEF ts

LEMMA ChannelStep ==
  ASSUME QueueConstants, QueueInv, [Next]_vars
  PROVE  [Abstract!Next]_Abstract!channelVars
<1>1. PICK d \in Devices, num \in [Tasks -> Nat], own \in [Tasks -> Buffers \cup {None}] :
        Fits(d, num, own)
  BY Zenon DEF QueueInv
<1>2. CASE UNCHANGED vars
  <2>1. req' = req /\ channel' = channel
    BY <1>2, ZenonT(60) DEF vars, taskVars
  <2> QED BY <2>1, ChannelStays, Zenon
<1>3. ASSUME NEW t \in Tasks, TaskStep(t)
      PROVE  Abstract!Next \/ UNCHANGED Abstract!channelVars
  <2>1. CASE AddEntry(t)
    <3>1. req' = req /\ channel' = channel
      BY <2>1, Zenon DEF AddEntry
    <3> QED BY <3>1, ChannelStays, Zenon
  <2>2. CASE Publish(t)
    <3>1. req' = req /\ channel' = channel
      BY <2>2, Zenon DEF Publish
    <3> QED BY <3>1, ChannelStays, Zenon
  <2>3. CASE Receive(t)
    <3>1. Abstract!Receive(t)
      BY <1>1, <2>3, ReceiveStep, Zenon
    <3> QED BY <3>1, Zenon DEF Abstract!Next
  <2> QED BY <1>3, <2>1, <2>2, <2>3, Zenon DEF TaskStep
<1>4. ASSUME NEW t \in Tasks, NEW r \in Requests, NEW b \in Buffers,
             \/ VirtioBlockGetId(t, r, b) \/ VirtioBlockRead(t, r, b)
             \/ VirtioBlockWrite(t, r, b) \/ RequestRandomNumbers(t, r, b)
      PROVE  Abstract!Next
  <2>1. AddRequest(t, r, b)
    BY <1>4, Zenon DEF VirtioBlockGetId, VirtioBlockRead, VirtioBlockWrite, RequestRandomNumbers
  <2>2. Abstract!Ask(t, r)
    BY <1>1, <2>1, AskStep, ZenonT(40)
  <2> QED BY <2>2, Zenon DEF Abstract!Next
<1>5. CASE DeviceTake
  <2>1. req' = req /\ channel' = channel
    BY <1>5, ZenonT(60) DEF DeviceTake, taskVars
  <2> QED BY <2>1, ChannelStays, Zenon
<1>6. ASSUME NEW n, NEW s, NEW w, DeviceComplete(n, s, w)
      PROVE  UNCHANGED Abstract!channelVars
  <2>1. UNCHANGED taskVars
    BY <1>6, Zenon DEF DeviceComplete
  <2>2. req' = req /\ channel' = channel
    BY <2>1, ZenonT(60) DEF taskVars
  <2> QED BY <2>2, ChannelStays, Zenon
<1>7. CASE Interrupt
  <2>1. CASE panicked'
    <3>1. req' = req /\ channel' = channel
      BY <1>7, <2>1, InterruptStep, Zenon
    <3> QED BY <3>1, ChannelStays, Zenon
  <2>2. CASE ~panicked'
    <3>1. Abstract!Answer({t \in Tasks : TakenOf(t) # {}})
      BY <1>1, <1>7, <2>2, AnswerStep, Zenon
    <3>2. {t \in Tasks : TakenOf(t) # {}} \in SUBSET Tasks
      BY Zenon
    <3> QED BY <3>1, <3>2, Zenon DEF Abstract!Next
  <2> QED BY <2>1, <2>2, Zenon
<1>8. CASE Next
  BY <1>3, <1>4, <1>5, <1>6, <1>7, <1>8, Zenon DEF Next
<1> QED BY <1>2, <1>8, Zenon

(* The virtqueue with either driver implements the request channel: every  *)
(* task that asks is answered once, and with an answer to its own request. *)
THEOREM AnswersOwnRequest ==
  ASSUME QueueConstants
  PROVE  Spec => ImplementsRequestChannel
<1>1. Init => Abstract!Init
  <2> SUFFICES ASSUME Init PROVE Abstract!Init
    BY Zenon
  <2>1. \A u \in Tasks : channel[u] = None
    BY Zenon DEF Init
  <2>2. \A u \in Tasks : Answer(u) = None
    BY <2>1, Zenon DEF Answer
  <2> QED BY <2>2, Zenon DEF Init, Abstract!Init
<1>2. QueueInv /\ [Next]_vars => [Abstract!Next]_Abstract!channelVars
  BY ChannelStep, Zenon
<1> QED BY <1>1, <1>2, QueueHolds, PTL DEF Spec, ImplementsRequestChannel, Abstract!Spec

-----------------------------------------------------------------------------
(* Completions *)

(* A chain that starts at h is in the ring, at the device, or in the used  *)
(* ring where the handler has not been.                                    *)
Found(d, h) ==
  \/ \E j \in devSeen .. availIdx - 1 : availRing[j % d.size] = h
  \/ \E i \in 1 .. Len(devWork) : devWork[i] = h
  \/ \E j \in lastProcessed .. usedIdx - 1 : usedRing[j % d.size].id = h

NothingLost(d) ==
  ~panicked =>
    /\ lastProcessed # usedIdx => irq
    /\ \A t \in Tasks, h \in Slots(d) :
         Busy(t) /\ pc[t] = "waiting" /\ head[t] = h => Found(d, h)

LostInv == \E d \in Devices : device = d /\ NothingLost(d)

(* A step of the tasks leaves the rings alone, but for new entries.        *)
LEMMA FoundStill ==
  ASSUME QueueConstants, NEW d \in Devices, NEW h, Found(d, h),
         availIdx \in Nat, devSeen \in Nat, NEW n \in Nat, availIdx' = availIdx + n,
         \A j \in devSeen .. availIdx - 1 : availRing'[j % d.size] = availRing[j % d.size],
         devSeen' = devSeen, devWork' = devWork,
         lastProcessed' = lastProcessed, usedIdx' = usedIdx, usedRing' = usedRing
  PROVE  Found(d, h)'
<1>1. CASE \E j \in devSeen .. availIdx - 1 : availRing[j % d.size] = h
  <2>1. PICK j \in devSeen .. availIdx - 1 : availRing[j % d.size] = h
    BY <1>1, Zenon
  <2>2. j \in devSeen' .. availIdx' - 1
    BY SMTT(30), SMTT(60)
  <2> QED BY <2>1, <2>2, Zenon DEF Found
<1>2. CASE \E i \in 1 .. Len(devWork) : devWork[i] = h
  BY <1>2, Zenon DEF Found
<1>3. CASE \E j \in lastProcessed .. usedIdx - 1 : usedRing[j % d.size].id = h
  BY <1>3, Zenon DEF Found
<1> QED BY <1>1, <1>2, <1>3, Zenon DEF Found

LEMMA AddRequestFinds ==
  ASSUME QueueConstants, NEW d \in Devices, NEW num \in [Tasks -> Nat], NEW own,
         Fits(d, num, own), NothingLost(d),
         NEW t \in Tasks, NEW r, NEW b, AddRequest(t, r, b)
  PROVE  NothingLost(d)'
<1>1. /\ ~panicked /\ head' = [head EXCEPT ![t] = Slot(1)] /\ pc' = [pc EXCEPT ![t] = "entry"]
      /\ availIdx' = availIdx /\ availRing' = availRing /\ lastProcessed' = lastProcessed
      /\ usedIdx' = usedIdx /\ usedRing' = usedRing /\ devSeen' = devSeen
      /\ devWork' = devWork /\ channel' = channel /\ irq' = irq
  BY Zenon DEF AddRequest, AddBuffer, deviceVars
<1>2. availIdx \in Nat /\ devSeen \in Nat /\ head \in [Tasks -> Slots(d)]
      /\ pc \in [Tasks -> {"idle", "entry", "publish", "waiting"}]
  BY Zenon DEF Fits, Typed
<1>3. pc'[t] = "entry" /\ \A u \in Tasks : u # t => pc'[u] = pc[u] /\ head'[u] = head[u]
  BY <1>1, <1>2, Zenon
<1>4. ASSUME NEW u \in Tasks, NEW h \in Slots(d), Busy(u)', pc'[u] = "waiting", head'[u] = h
      PROVE  Found(d, h)'
  <2>1. u # t
    BY <1>3, <1>4, Zenon
  <2>2. Busy(u) /\ pc[u] = "waiting" /\ head[u] = h
    BY <1>1, <1>3, <1>4, <2>1, Zenon DEF Busy
  <2>3. Found(d, h)
    BY <1>1, <2>2, Zenon DEF NothingLost
  <2>4. availIdx' = availIdx + 0 /\ 0 \in Nat
    BY <1>1, <1>2, SMTT(30), SMTT(60)
  <2> QED BY <1>1, <1>2, <2>3, <2>4, FoundStill, Zenon
<1> QED BY <1>1, <1>4, Zenon DEF NothingLost

LEMMA AddEntryFinds ==
  ASSUME QueueConstants, NEW d \in Devices, NEW num \in [Tasks -> Nat], NEW own,
         Fits(d, num, own), NothingLost(d), NEW t \in Tasks, AddEntry(t)
  PROVE  NothingLost(d)'
<1>0. ~panicked /\ pc[t] = "entry"
  BY Zenon DEF AddEntry
<1>1. /\ availRing' = [availRing EXCEPT ![ToElemIndex(availIdx)] = head[t]]
      /\ pc' = [pc EXCEPT ![t] = "publish"] /\ head' = head
      /\ availIdx' = availIdx /\ lastProcessed' = lastProcessed
      /\ usedIdx' = usedIdx /\ usedRing' = usedRing /\ devSeen' = devSeen
      /\ devWork' = devWork /\ channel' = channel /\ irq' = irq
  BY ZenonT(60) DEF AddEntry, deviceVars
<1>2. /\ Typed(d) /\ sent \in Nat /\ availIdx \in Nat /\ usedIdx \in Nat /\ devSeen \in Nat
      /\ lastProcessed \in Nat /\ Room(d) \in Nat
      /\ lastProcessed <= usedIdx /\ usedIdx <= devSeen /\ devSeen <= availIdx
      /\ sent - lastProcessed <= Room(d)
  BY <1>0, Unpack, ZenonT(40)
<1>3. sent = availIdx + 1
  BY <1>0, Caller, Zenon
<1>4. availRing' = [availRing EXCEPT ![availIdx % d.size] = head[t]]
  BY <1>1, <1>2, EntrySlot, Zenon
<1>5. ASSUME NEW j \in devSeen .. availIdx - 1
      PROVE  availRing'[j % d.size] = availRing[j % d.size]
  <2>1. j \in Nat /\ j < availIdx /\ availIdx - j < Room(d)
    BY <1>2, <1>3, SMTT(30), SMTT(60)
  <2>2. j % d.size # availIdx % d.size
    BY <1>2, <2>1, EntriesApart, Zenon
  <2>3. j % d.size \in Slots(d) /\ availRing \in [Slots(d) -> Slots(d)]
    BY <1>2, <2>1, EntrySlot, Zenon DEF Typed
  <2> QED BY <1>4, <2>2, <2>3, Zenon
<1>6. pc'[t] = "publish" /\ \A u \in Tasks : u # t => pc'[u] = pc[u]
  BY <1>1, <1>2, Zenon DEF Typed
<1>7. ASSUME NEW u \in Tasks, NEW h \in Slots(d), Busy(u)', pc'[u] = "waiting", head'[u] = h
      PROVE  Found(d, h)'
  <2>1. u # t
    BY <1>6, <1>7, Zenon
  <2>2. Busy(u) /\ pc[u] = "waiting" /\ head[u] = h
    BY <1>1, <1>6, <1>7, <2>1, Zenon DEF Busy
  <2>3. Found(d, h)
    BY <1>0, <2>2, Zenon DEF NothingLost
  <2>4. availIdx' = availIdx + 0 /\ 0 \in Nat
    BY <1>1, <1>2, SMTT(30), SMTT(60)
  <2> QED BY <1>1, <1>2, <1>5, <2>3, <2>4, FoundStill, ZenonT(40)
<1> QED BY <1>0, <1>1, <1>7, Zenon DEF NothingLost

LEMMA PublishFinds ==
  ASSUME QueueConstants, NEW d \in Devices, NEW num \in [Tasks -> Nat], NEW own,
         Fits(d, num, own), NothingLost(d), NEW t \in Tasks, Publish(t)
  PROVE  NothingLost(d)'
<1>0. ~panicked /\ pc[t] = "publish"
  BY Zenon DEF Publish
<1>1. /\ availIdx' = Increment(availIdx) /\ availRing' = availRing
      /\ pc' = [pc EXCEPT ![t] = "waiting"] /\ head' = head
      /\ lastProcessed' = lastProcessed
      /\ usedIdx' = usedIdx /\ usedRing' = usedRing /\ devSeen' = devSeen
      /\ devWork' = devWork /\ channel' = channel /\ irq' = irq
  BY ZenonT(60) DEF Publish, deviceVars
<1>2. /\ Typed(d) /\ sent \in Nat /\ availIdx \in Nat /\ devSeen \in Nat
      /\ devSeen <= availIdx /\ LockFits(num) /\ d.maxRequests \in Nat /\ sent <= d.maxRequests
  BY <1>0, Unpack, ZenonT(40)
<1>3. lock = t /\ sent = availIdx + 1
  BY <1>0, Caller, Zenon
<1>4. availIdx' = availIdx + 1
  <2>1. availIdx < d.maxRequests
    BY <1>2, <1>3, SMTT(30), SMTT(60)
  <2> QED BY <1>1, <1>2, <2>1, NoWrap, Zenon
<1>5. availRing[availIdx % d.size] = head[t]
  <2>1. availRing[ToElemIndex(availIdx)] = head[t]
    BY <1>0, <1>2, <1>3, Zenon DEF LockFits, QueueConstants
  <2> QED BY <1>2, <2>1, EntrySlot, Zenon
<1>6. pc'[t] = "waiting" /\ \A u \in Tasks : u # t => pc'[u] = pc[u]
  BY <1>1, <1>2, Zenon DEF Typed
<1>7. ASSUME NEW u \in Tasks, NEW h \in Slots(d), Busy(u)', pc'[u] = "waiting", head'[u] = h
      PROVE  Found(d, h)'
  <2>1. CASE u # t
    <3>1. Busy(u) /\ pc[u] = "waiting" /\ head[u] = h
      BY <1>1, <1>6, <1>7, <2>1, Zenon DEF Busy
    <3>2. Found(d, h)
      BY <1>0, <3>1, Zenon DEF NothingLost
    <3>3. 1 \in Nat
      BY ZenonT(60)
    <3> QED BY <1>1, <1>2, <1>4, <3>2, <3>3, FoundStill, ZenonT(40)
  <2>2. CASE u = t
    <3>1. availIdx \in devSeen' .. availIdx' - 1
      BY <1>1, <1>2, <1>4, SMTT(30), SMTT(60)
    <3>2. availRing'[availIdx % d.size] = h
      BY <1>1, <1>5, <1>7, <2>2, Zenon
    <3> QED BY <3>1, <3>2, Zenon DEF Found
  <2> QED BY <2>1, <2>2, Zenon
<1> QED BY <1>0, <1>1, <1>7, Zenon DEF NothingLost

LEMMA ReceiveFinds ==
  ASSUME QueueConstants, NEW d \in Devices, NEW num \in [Tasks -> Nat], NEW own,
         Fits(d, num, own), NothingLost(d), NEW t \in Tasks, Receive(t)
  PROVE  NothingLost(d)'
<1>0. ~panicked
  BY ZenonT(40) DEF Receive
<1>1. /\ availIdx' = availIdx /\ availRing' = availRing /\ lastProcessed' = lastProcessed
      /\ usedIdx' = usedIdx /\ usedRing' = usedRing /\ devSeen' = devSeen
      /\ devWork' = devWork /\ irq' = irq /\ head' = head
      /\ pc' = [pc EXCEPT ![t] = "idle"] /\ channel' = [channel EXCEPT ![t] = None]
  BY ZenonT(60) DEF Receive, deviceVars, driverVars
<1>2. Typed(d) /\ availIdx \in Nat /\ devSeen \in Nat
  BY <1>0, Unpack, ZenonT(40)
<1>3. /\ pc'[t] = "idle"
      /\ \A u \in Tasks : u # t => pc'[u] = pc[u] /\ channel'[u] = channel[u]
  BY <1>1, <1>2, Zenon DEF Typed
<1>4. ASSUME NEW u \in Tasks, NEW h \in Slots(d), Busy(u)', pc'[u] = "waiting", head'[u] = h
      PROVE  Found(d, h)'
  <2>1. u # t
    BY <1>3, <1>4, Zenon
  <2>2. Busy(u) /\ pc[u] = "waiting" /\ head[u] = h
    BY <1>1, <1>3, <1>4, <2>1, Zenon DEF Busy
  <2>3. Found(d, h)
    BY <1>0, <2>2, Zenon DEF NothingLost
  <2>4. availIdx' = availIdx + 0 /\ 0 \in Nat
    BY <1>1, <1>2, SMTT(30), SMTT(60)
  <2> QED BY <1>1, <1>2, <2>3, <2>4, FoundStill, ZenonT(40)
<1> QED BY <1>0, <1>1, <1>4, Zenon DEF NothingLost

LEMMA DeviceTakeFinds ==
  ASSUME QueueConstants, NEW d \in Devices, NEW num \in [Tasks -> Nat], NEW own,
         Fits(d, num, own), NothingLost(d), DeviceTake
  PROVE  NothingLost(d)'
<1>0. ~panicked /\ devSeen # availIdx
  BY Zenon DEF DeviceTake
<1>1. /\ devWork' = Append(devWork, availRing[ToElemIndex(devSeen)])
      /\ devSeen' = Increment(devSeen) /\ irq' = irq
      /\ availIdx' = availIdx /\ availRing' = availRing /\ lastProcessed' = lastProcessed
      /\ usedIdx' = usedIdx /\ usedRing' = usedRing
      /\ pc' = pc /\ head' = head /\ channel' = channel
  BY ZenonT(60) DEF DeviceTake, driverVars, taskVars
<1>2. /\ Typed(d) /\ sent \in Nat /\ availIdx \in Nat /\ devSeen \in Nat
      /\ devSeen <= availIdx /\ availIdx <= sent
      /\ d.maxRequests \in Nat /\ sent <= d.maxRequests
  BY <1>0, Unpack, ZenonT(40)
<1>3. devSeen' = devSeen + 1
  <2>1. devSeen < d.maxRequests
    BY <1>0, <1>2, SMTT(30), SMTT(60)
  <2> QED BY <1>1, <1>2, <2>1, NoWrap, ZenonT(40)
<1> DEFINE e == availRing[devSeen % d.size]
<1>4. /\ Len(devWork) \in Nat /\ Len(devWork') = Len(devWork) + 1
      /\ devWork'[Len(devWork) + 1] = e
      /\ \A i \in 1 .. Len(devWork) : devWork'[i] = devWork[i]
  <2>1. /\ devWork \in Seq(Slots(d)) /\ devWork' = Append(devWork, e)
        /\ availRing \in [Slots(d) -> Slots(d)] /\ devSeen % d.size \in Slots(d)
    BY <1>1, <1>2, EntrySlot, Zenon DEF Typed
  <2>2. e \in Slots(d)
    BY <2>1, Zenon
  <2> HIDE DEF e
  <2> QED BY <2>1, <2>2, SMTT(30), SMTT(60)
<1> HIDE DEF e
<1>5. ASSUME NEW h, Found(d, h) PROVE Found(d, h)'
  <2>1. CASE \E j \in devSeen .. availIdx - 1 : availRing[j % d.size] = h
    <3>1. PICK j \in devSeen .. availIdx - 1 : availRing[j % d.size] = h
      BY <2>1, Zenon
    <3>2. CASE j = devSeen
      <4>1. devWork'[Len(devWork) + 1] = h
        BY <1>4, <3>1, <3>2, Zenon DEF e
      <4>2. Len(devWork) + 1 \in 1 .. Len(devWork')
        BY <1>4, SMTT(30), SMTT(60)
      <4> QED BY <4>1, <4>2, Zenon DEF Found
    <3>3. CASE j # devSeen
      <4>1. j \in devSeen' .. availIdx' - 1
        BY <1>1, <1>2, <1>3, <3>3, SMTT(30), SMTT(60)
      <4> QED BY <1>1, <3>1, <4>1, Zenon DEF Found
    <3> QED BY <3>2, <3>3, Zenon
  <2>2. CASE \E i \in 1 .. Len(devWork) : devWork[i] = h
    <3>1. PICK i \in 1 .. Len(devWork) : devWork[i] = h
      BY <2>2, Zenon
    <3>2. i \in 1 .. Len(devWork') /\ devWork'[i] = h
      BY <1>4, <3>1, SMTT(30), SMTT(60)
    <3> QED BY <3>2, Zenon DEF Found
  <2>3. CASE \E j \in lastProcessed .. usedIdx - 1 : usedRing[j % d.size].id = h
    BY <1>1, <2>3, Zenon DEF Found
  <2> QED BY <1>5, <2>1, <2>2, <2>3, Zenon DEF Found
<1>6. ASSUME NEW u \in Tasks, NEW h \in Slots(d), Busy(u)', pc'[u] = "waiting", head'[u] = h
      PROVE  Found(d, h)'
  <2>1. Busy(u) /\ pc[u] = "waiting" /\ head[u] = h
    BY <1>1, <1>6, Zenon DEF Busy
  <2>2. Found(d, h)
    BY <1>0, <2>1, Zenon DEF NothingLost
  <2> QED BY <1>5, <2>2, Zenon
<1> QED BY <1>0, <1>1, <1>6, Zenon DEF NothingLost

LEMMA DeviceCompleteFinds ==
  ASSUME QueueConstants, NEW d \in Devices, NEW num \in [Tasks -> Nat], NEW own,
         Fits(d, num, own), NothingLost(d),
         NEW n \in DOMAIN devWork, NEW status, NEW written, DeviceComplete(n, status, written)
  PROVE  NothingLost(d)'
<1> DEFINE e == [id |-> devWork[n], len |-> written]
<1>0. ~panicked
  BY Zenon DEF DeviceComplete
<1>1. /\ usedRing' = [usedRing EXCEPT ![ToElemIndex(usedIdx)] = e]
      /\ usedIdx' = Increment(usedIdx) /\ irq' = TRUE
      /\ devWork' = SubSeq(devWork, 1, n - 1) \o SubSeq(devWork, n + 1, Len(devWork))
  BY Zenon DEF DeviceComplete
<1>2. /\ availIdx' = availIdx /\ availRing' = availRing /\ lastProcessed' = lastProcessed
      /\ devSeen' = devSeen /\ pc' = pc /\ head' = head /\ channel' = channel
  <2>1. UNCHANGED <<device, driverVars, taskVars, devSeen, lock, panicked>>
    BY Zenon DEF DeviceComplete
  <2> QED BY ONLY <2>1, ZenonT(60) DEF driverVars, taskVars
<1>3. /\ Typed(d) /\ WorkFits(d, num) /\ sent \in Nat /\ availIdx \in Nat /\ usedIdx \in Nat
      /\ devSeen \in Nat /\ lastProcessed \in Nat /\ Room(d) \in Nat /\ d.maxRequests \in Nat
      /\ lastProcessed <= usedIdx /\ usedIdx <= devSeen /\ devSeen <= availIdx
      /\ availIdx <= sent /\ sent <= d.maxRequests /\ sent - lastProcessed <= Room(d)
  BY <1>0, Unpack, ZenonT(40)
<1>4. devWork \in Seq(Slots(d)) /\ Len(devWork) \in Nat /\ n \in 1 .. Len(devWork)
  BY <1>3, SMTT(30), SMTT(60) DEF Typed
<1>5. usedIdx < devSeen /\ usedIdx' = usedIdx + 1
  <2>1. usedIdx < devSeen /\ usedIdx < d.maxRequests
    <3>1. Len(devWork) = devSeen - usedIdx
      BY <1>3, Zenon DEF WorkFits
    <3> QED BY <1>3, <1>4, <3>1, SMTT(30), SMTT(60)
  <2> QED BY <1>1, <1>3, <2>1, NoWrap, ZenonT(40)
<1>6. Without(devWork, n, devWork', Slots(d))
  BY <1>1, <1>4, RemoveAt, Zenon
<1>7. /\ usedIdx % d.size \in Slots(d)
      /\ usedRing' = [usedRing EXCEPT ![usedIdx % d.size] = e]
      /\ usedRing \in [Slots(d) -> [id : Slots(d), len : Nat]]
  BY <1>1, <1>3, EntrySlot, Zenon DEF Typed
<1>8. usedRing'[usedIdx % d.size].id = devWork[n]
  <2>1. usedRing'[usedIdx % d.size] = e
    BY <1>7, Zenon
  <2>2. e.id = devWork[n]
    BY Zenon
  <2> QED BY <2>1, <2>2, Zenon
<1> HIDE DEF e
<1>9. ASSUME NEW j \in lastProcessed .. usedIdx - 1
      PROVE  usedRing'[j % d.size] = usedRing[j % d.size]
  <2>1. j \in Nat /\ j < usedIdx /\ usedIdx - j < Room(d)
    BY <1>3, <1>5, SMTT(30), SMTT(60)
  <2>2. j % d.size # usedIdx % d.size
    BY <1>3, <2>1, EntriesApart, Zenon
  <2>3. j % d.size \in Slots(d)
    BY <1>3, <2>1, EntrySlot, Zenon
  <2> QED BY <1>7, <2>2, <2>3, Zenon
<1>10. ASSUME NEW h, Found(d, h) PROVE Found(d, h)'
  <2>1. CASE \E j \in devSeen .. availIdx - 1 : availRing[j % d.size] = h
    BY <1>2, <2>1, Zenon DEF Found
  <2>2. CASE \E i \in 1 .. Len(devWork) : devWork[i] = h
    <3>1. PICK i \in 1 .. Len(devWork) : devWork[i] = h
      BY <2>2, Zenon
    <3>2. CASE i = n
      <4>1. usedIdx \in lastProcessed' .. usedIdx' - 1
        BY <1>2, <1>3, <1>5, SMTT(30), SMTT(60)
      <4> QED BY <1>8, <3>1, <3>2, <4>1, ZenonT(40) DEF Found
    <3>3. CASE i < n
      <4>1. i \in 1 .. Len(devWork) - 1
        BY <1>4, <3>3, SMTT(30), SMTT(60)
      <4>2. devWork'[i] = h /\ i \in 1 .. Len(devWork')
        BY <1>6, <3>1, <3>3, <4>1, Zenon DEF Without
      <4> QED BY <4>2, Zenon DEF Found
    <3>4. CASE n < i
      <4> DEFINE k == i - 1
      <4>1. k \in 1 .. Len(devWork) - 1 /\ ~(k < n) /\ k + 1 = i
        BY <1>4, <3>4, SMTT(30), SMTT(60)
      <4> HIDE DEF k
      <4>2. devWork'[k] = h /\ k \in 1 .. Len(devWork')
        BY <1>6, <3>1, <4>1, Zenon DEF Without
      <4> QED BY <4>2, Zenon DEF Found
    <3>5. i = n \/ i < n \/ n < i
      BY <1>4, SMTT(30), SMTT(60)
    <3> QED BY <3>2, <3>3, <3>4, <3>5, Zenon
  <2>3. CASE \E j \in lastProcessed .. usedIdx - 1 : usedRing[j % d.size].id = h
    <3>1. PICK j \in lastProcessed .. usedIdx - 1 : usedRing[j % d.size].id = h
      BY <2>3, Zenon
    <3>2. j \in lastProcessed' .. usedIdx' - 1
      BY <1>2, <1>3, <1>5, SMTT(30), SMTT(60)
    <3> QED BY <1>9, <3>1, <3>2, Zenon DEF Found
  <2> QED BY <1>10, <2>1, <2>2, <2>3, Zenon DEF Found
<1>11. ASSUME NEW u \in Tasks, NEW h \in Slots(d), Busy(u)', pc'[u] = "waiting", head'[u] = h
       PROVE  Found(d, h)'
  <2>1. Busy(u) /\ pc[u] = "waiting" /\ head[u] = h
    BY <1>2, <1>11, Zenon DEF Busy
  <2>2. Found(d, h)
    BY <1>0, <2>1, Zenon DEF NothingLost
  <2> QED BY <1>10, <2>2, Zenon
<1> QED BY <1>1, <1>11, Zenon DEF NothingLost

LEMMA InterruptFinds ==
  ASSUME QueueConstants, NEW d \in Devices, NEW num \in [Tasks -> Nat], NEW own,
         Fits(d, num, own), NothingLost(d), Interrupt, ~panicked'
  PROVE  NothingLost(d)'
<1>1. /\ ~panicked /\ lastProcessed' = usedIdx /\ usedIdx' = usedIdx /\ usedRing' = usedRing
      /\ availIdx' = availIdx /\ availRing' = availRing /\ devSeen' = devSeen
      /\ devWork' = devWork /\ pc' = pc /\ head' = head
      /\ channel' = [t \in Tasks |-> IF TakenOf(t) = {} THEN channel[t]
                          ELSE Response(CHOOSE u \in TakenOf(t) : TRUE)]
  BY InterruptStep, Zenon
<1>2. ASSUME NEW t \in Tasks, TakenOf(t) # {} PROVE channel'[t] # None
  <2> DEFINE u == CHOOSE u \in TakenOf(t) : TRUE
  <2>1. u \in TakenOf(t)
    <3>1. \E v : v \in TakenOf(t)
      BY <1>2, Zenon
    <3> QED BY <3>1, Zenon
  <2>2. channel'[t] = Response(u)
    BY <1>1, <1>2, Zenon
  <2> HIDE DEF u
  <2>3. Answering(Response(u), req[t], own[t])
    BY <1>1, <2>1, TakenFits, Zenon
  <2>4. channel'[t] \in Replies
    BY <2>2, <2>3, Zenon DEF Answering
  <2> QED BY <2>4, Zenon DEF QueueConstants
<1>3. ASSUME NEW u \in Tasks, NEW h \in Slots(d), Busy(u)', pc'[u] = "waiting", head'[u] = h
      PROVE  Found(d, h)'
  <2>1. TakenOf(u) = {}
    BY <1>2, <1>3, Zenon DEF Busy
  <2>2. channel'[u] = channel[u]
    BY <1>1, <2>1, Zenon
  <2>3. Busy(u) /\ pc[u] = "waiting" /\ head[u] = h
    BY <1>1, <1>3, <2>2, Zenon DEF Busy
  <2>4. Found(d, h)
    BY <1>1, <2>3, Zenon DEF NothingLost
  <2>5. ASSUME NEW j \in lastProcessed .. usedIdx - 1, usedRing[j % d.size].id = h
        PROVE  FALSE
    <3>1. j \in NewEntries
      BY Zenon DEF NewEntries
    <3>2. usedRing[j % d.size] \in TakenOf(u)
      BY <1>1, <2>3, <2>5, <3>1, FinishedTaken, Zenon
    <3> QED BY <2>1, <3>2, Zenon
  <2> QED BY <1>1, <2>4, <2>5, Zenon DEF Found
<1> QED BY <1>1, <1>3, Zenon DEF NothingLost

LEMMA NothingGetsLost ==
  ASSUME QueueConstants, QueueInv, LostInv, [Next]_vars
  PROVE  LostInv'
<1>1. PICK d \in Devices, num \in [Tasks -> Nat], own \in [Tasks -> Buffers \cup {None}] :
        Fits(d, num, own)
  BY Zenon DEF QueueInv
<1>2. device = d /\ NothingLost(d)
  BY <1>1, Zenon DEF LostInv, Fits, Typed
<1>3. CASE UNCHANGED vars
  <2>1. /\ device' = device /\ panicked' = panicked /\ irq' = irq
        /\ availIdx' = availIdx /\ availRing' = availRing /\ lastProcessed' = lastProcessed
        /\ usedIdx' = usedIdx /\ usedRing' = usedRing /\ devSeen' = devSeen
        /\ devWork' = devWork /\ pc' = pc /\ head' = head /\ channel' = channel
    BY <1>3, ZenonT(60) DEF vars, driverVars, deviceVars, taskVars
  <2>2. NothingLost(d)'
    BY <1>2, <2>1, ZenonT(40) DEF NothingLost, Found, Busy
  <2> QED BY <1>2, <2>1, <2>2, ZenonT(40) DEF LostInv
<1>4. ASSUME NEW t \in Tasks, TaskStep(t) PROVE device' = d /\ NothingLost(d)'
  <2>1. CASE AddEntry(t)
    <3>1. device' = device
      BY <2>1, ZenonT(40) DEF AddEntry
    <3> QED BY <1>1, <1>2, <2>1, <3>1, AddEntryFinds, ZenonT(40)
  <2>2. CASE Publish(t)
    <3>1. device' = device
      BY <2>2, ZenonT(40) DEF Publish
    <3> QED BY <1>1, <1>2, <2>2, <3>1, PublishFinds, Zenon
  <2>3. CASE Receive(t)
    <3>1. device' = device
      BY <2>3, Zenon DEF Receive
    <3> QED BY <1>1, <1>2, <2>3, <3>1, ReceiveFinds, Zenon
  <2> QED BY <1>4, <2>1, <2>2, <2>3, Zenon DEF TaskStep
<1>5. ASSUME NEW t \in Tasks, NEW r \in Requests, NEW b \in Buffers,
             \/ VirtioBlockGetId(t, r, b) \/ VirtioBlockRead(t, r, b)
             \/ VirtioBlockWrite(t, r, b) \/ RequestRandomNumbers(t, r, b)
      PROVE  device' = d /\ NothingLost(d)'
  <2>1. AddRequest(t, r, b)
    BY <1>5, Zenon DEF VirtioBlockGetId, VirtioBlockRead, VirtioBlockWrite, RequestRandomNumbers
  <2>2. device' = device
    BY <2>1, Zenon DEF AddRequest
  <2> QED BY <1>1, <1>2, <2>1, <2>2, AddRequestFinds, ZenonT(40)
<1>6. ASSUME DeviceTake PROVE device' = d /\ NothingLost(d)'
  <2>1. device' = device
    BY <1>6, Zenon DEF DeviceTake
  <2> QED BY <1>1, <1>2, <1>6, <2>1, DeviceTakeFinds, ZenonT(40)
<1>7. ASSUME NEW n \in DOMAIN devWork, NEW s \in Statuses, NEW w \in Written,
             DeviceComplete(n, s, w)
      PROVE  device' = d /\ NothingLost(d)'
  <2>1. device' = device
    BY <1>7, Zenon DEF DeviceComplete
  <2> QED BY <1>1, <1>2, <1>7, <2>1, DeviceCompleteFinds, ZenonT(40)
<1>8. ASSUME Interrupt PROVE device' = d /\ NothingLost(d)'
  <2>1. device' = device
    BY <1>8, InterruptStep, Zenon
  <2>2. CASE panicked'
    BY <1>2, <2>1, <2>2, Zenon DEF NothingLost
  <2>3. CASE ~panicked'
    BY <1>1, <1>2, <1>8, <2>1, <2>3, InterruptFinds, ZenonT(40)
  <2> QED BY <2>2, <2>3, Zenon
<1>9. CASE Next
  <2>1. device' = d /\ NothingLost(d)'
    BY <1>4, <1>5, <1>6, <1>7, <1>8, <1>9, Zenon DEF Next
  <2> QED BY <2>1, Zenon DEF LostInv
<1> QED BY <1>3, <1>9, Zenon

LEMMA LostInvStarts ==
  ASSUME QueueConstants, Init
  PROVE  LostInv
<1>1. device \in Devices /\ lastProcessed = 0 /\ usedIdx = 0 /\ pc = [t \in Tasks |-> "idle"]
  BY Zenon DEF Init, InitQueue
<1>2. \A t \in Tasks : pc[t] # "waiting"
  BY <1>1, Zenon
<1> QED BY <1>1, <1>2, Zenon DEF LostInv, NothingLost

(* An index that counts from a counter, modulo the size of the ring.       *)
Reaches(lo, hi, slot) ==
  \E i \in Index : i < (hi - lo) % IndexRange /\ ToElemIndex(lo + i) = slot

LEMMA Offset ==
  ASSUME QueueConstants, NEW d \in Devices, device = d, NEW lo \in Nat, NEW hi \in Nat,
         hi - lo <= Room(d), hi <= d.maxRequests, NEW j \in lo .. hi - 1
  PROVE  Reaches(lo, hi, j % d.size)
<1>1. /\ d.size \in Nat \ {0} /\ Room(d) \in Nat /\ Room(d) <= d.size
      /\ d.maxRequests \in Nat /\ IndexRange \in Nat \ {0} /\ d.maxRequests < IndexRange
  BY DeviceFacts, Zenon
<1> DEFINE i == j - lo
<1>2. i \in 0 .. d.size - 1 /\ i < hi - lo /\ lo + i = j
  BY <1>1, SMTT(30), SMTT(60)
<1>3. (hi - lo) % IndexRange = hi - lo
  BY <1>1, SMTT(30), SMTT(60)
<1> HIDE DEF i
<1>4. i \in Index
  BY <1>2, Zenon DEF Index, QueueSize
<1>5. ToElemIndex(lo + i) = j % d.size
  BY <1>2, Zenon DEF ToElemIndex, QueueSize
<1> QED BY <1>2, <1>3, <1>4, <1>5, Zenon DEF Reaches

(* The handler leaves no finished request behind: without an answer and    *)
(* with its chain no longer the device's, it is where the handler will     *)
(* look, and an interrupt is pending.                                      *)
THEOREM CompletionsKept ==
  ASSUME QueueConstants
  PROVE  Spec => []NoCompletionLost
<1>1. ASSUME QueueInv, LostInv PROVE NoCompletionLost
  <2>1. PICK d \in Devices, num \in [Tasks -> Nat], own \in [Tasks -> Buffers \cup {None}] :
          Fits(d, num, own)
    BY <1>1, Zenon DEF QueueInv
  <2>2. device = d /\ NothingLost(d)
    BY <1>1, <2>1, Zenon DEF LostInv, Fits, Typed
  <2> SUFFICES ASSUME NEW t \in Tasks \ InDevice, ~panicked, pc[t] = "waiting", channel[t] = None
               PROVE  /\ irq
                      /\ \E i \in Index : /\ i < (usedIdx - lastProcessed) % IndexRange
                                         /\ usedRing[ToElemIndex(lastProcessed + i)].id = head[t]
    BY Zenon DEF NoCompletionLost
  <2>3. /\ sent \in Nat /\ availIdx \in Nat /\ usedIdx \in Nat /\ devSeen \in Nat
        /\ lastProcessed \in Nat /\ Room(d) \in Nat /\ d.maxRequests \in Nat
        /\ lastProcessed <= usedIdx /\ usedIdx <= devSeen /\ devSeen <= availIdx
        /\ availIdx <= sent /\ sent <= d.maxRequests /\ sent - lastProcessed <= Room(d)
        /\ Typed(d)
    BY <2>1, Unpack, ZenonT(40)
  <2>4. /\ availIdx - devSeen <= Room(d) /\ availIdx <= d.maxRequests
        /\ usedIdx - lastProcessed <= Room(d) /\ usedIdx <= d.maxRequests
    BY <2>3, SMTT(30), SMTT(60)
  <2>5. head[t] \in Slots(d) /\ Busy(t)
    BY <2>3, Zenon DEF Typed, Busy
  <2>6. Found(d, head[t])
    BY <2>2, <2>5, Zenon DEF NothingLost
  <2>7. ~ \E j \in devSeen .. availIdx - 1 : availRing[j % d.size] = head[t]
    <3> SUFFICES ASSUME NEW j \in devSeen .. availIdx - 1, availRing[j % d.size] = head[t]
                 PROVE  t \in InDevice
      BY Zenon
    <3>1. PICK i \in Index : i < (availIdx - devSeen) % IndexRange
                             /\ ToElemIndex(devSeen + i) = j % d.size
      <4>1. Reaches(devSeen, availIdx, j % d.size)
        BY <2>2, <2>3, <2>4, Offset, Zenon
      <4> QED BY <4>1, Zenon DEF Reaches
    <3>2. availRing[ToElemIndex(devSeen + i)] = head[t] /\ i < (availIdx - devSeen) % IndexRange
      BY <3>1, Zenon
    <3>3. \E k \in Index : /\ k < (availIdx - devSeen) % IndexRange
                           /\ availRing[ToElemIndex(devSeen + k)] = head[t]
      BY <3>2, Zenon
    <3>4. t \in Tasks
      BY Zenon
    <3> QED BY ONLY <3>3, <3>4, pc[t] = "waiting", channel[t] = None, Zenon DEF InDevice
  <2>8. ~ \E i \in 1 .. Len(devWork) : devWork[i] = head[t]
    <3>1. DOMAIN devWork = 1 .. Len(devWork)
      BY <2>3, SMTT(30), SMTT(60) DEF Typed
    <3> QED BY <3>1, Zenon DEF InDevice
  <2>9. PICK j \in lastProcessed .. usedIdx - 1 : usedRing[j % d.size].id = head[t]
    BY <2>6, <2>7, <2>8, Zenon DEF Found
  <2>10. lastProcessed # usedIdx
    BY <2>3, SMTT(30), SMTT(60)
  <2>11. irq
    BY <2>2, <2>10, Zenon DEF NothingLost
  <2>12. PICK i \in Index : i < (usedIdx - lastProcessed) % IndexRange
                            /\ ToElemIndex(lastProcessed + i) = j % d.size
    <3>1. Reaches(lastProcessed, usedIdx, j % d.size)
      BY <2>2, <2>3, <2>4, Offset, Zenon
    <3> QED BY <3>1, Zenon DEF Reaches
  <2> QED BY <2>9, <2>11, <2>12, Zenon
<1>2. Init => LostInv
  BY LostInvStarts, Zenon
<1>3. QueueInv /\ LostInv /\ [Next]_vars => LostInv'
  BY NothingGetsLost, Zenon
<1>4. QueueInv /\ LostInv => NoCompletionLost
  BY <1>1, Zenon
<1> QED BY <1>2, <1>3, <1>4, QueueHolds, PTL DEF Spec
=============================================================================
