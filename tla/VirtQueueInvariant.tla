-------------------------- MODULE VirtQueueInvariant --------------------------
(***************************************************************************)
(* What is true of a virtqueue and its tasks at every moment (QueueInv),   *)
(* and that the steps after add_buffer keep it: the ring entry, the        *)
(* device's steps, the interrupt handler, and the receipt of the answer.   *)
(***************************************************************************)
EXTENDS VirtQueue, TLAPS

(* The descriptors of a request, and how many requests have room.          *)
ChainLen(d) == IF d.driver = "rng" THEN 1 ELSE 3
Room(d) == d.size \div ChainLen(d)

(* S has at most n elements: no n + 1 are different.                       *)
AtMost(n, S) == \A f \in [0 .. n -> S] : \E i, j \in 0 .. n : i # j /\ f[i] = f[j]

(* The driver does not look whether a descriptor is free (the TODO of      *)
(* add_entry), so it is the tasks and the device that must leave room: a   *)
(* device that works in order and no more tasks than requests have room,   *)
(* or no more requests at all.  The handler's loop does not wrap, so the   *)
(* used index must not.                                                    *)
DeviceFits(d) ==
  /\ d.driver \in {"block", "rng"} /\ d.inOrder \in BOOLEAN /\ d.maxRequests \in Nat
  /\ d.size \in Nat \ {0} /\ \E m \in Nat : IndexRange = d.size * m
  /\ d.maxRequests < IndexRange
  /\ \/ d.maxRequests <= Room(d)
     \/ d.inOrder /\ AtMost(Room(d), Tasks)

Types == {"In", "Out", "GetID", "Rng"}
Sectors == {r.sector : r \in Requests}
Payloads == Sectors \cup {None}
Contents == [type : Types, sector : Sectors, status : Statuses \cup {"Unset"},
             payload : Payloads]
Replies == [type : Types, payload : Payloads, len : Nat, buf : Buffers \cup {None}]
Entries == [task : Tasks, buf : Buffers]

QueueConstants ==
  /\ \A d \in Devices : DeviceFits(d)
  /\ \A r \in Requests : r.type \in Types /\ r.amount \in Nat
  /\ None \notin Nat \cup Tasks \cup Buffers \cup Requests
  /\ None \notin Contents \cup Replies \cup Entries
  /\ None \notin [type : Types, payload : Payloads, len : Nat]

(* The slot of the k-th descriptor of the n-th request.                    *)
At(d, n, k) == (ChainLen(d) * n + k - 1) % d.size

Slots(d) == 0 .. d.size - 1

(* A request that is not answered yet.                                     *)
Busy(t) == pc[t] # "idle" /\ channel[t] = None

(* The n-th request r, in buffer b, is what the descriptors say.           *)
ChainFits(d, n, r, b) ==
  \A k \in 1 .. ChainLen(d) :
    /\ desc[At(d, n, k)].elem = Chain(r, b)[k]
    /\ k < ChainLen(d) => /\ desc[At(d, n, k)].next = TRUE
                          /\ desc[At(d, n, k)].to = At(d, n, k + 1)
    /\ k = ChainLen(d) => desc[At(d, n, k)].next = FALSE

(* Task t issued the n-th request and owns buffer b.                       *)
TaskFits(d, t, n, b) ==
  /\ pc[t] = "idle" => req[t] = None /\ channel[t] = None
  /\ pc[t] # "idle" => req[t] \in Requests /\ ((req[t].type = "Rng") <=> (d.driver = "rng"))
  /\ channel[t] # None => pc[t] = "waiting"
  /\ b # None => mem[b] # None
  /\ Busy(t) =>
       /\ n < sent /\ sent <= n + Room(d)
       /\ b \in Buffers /\ mem[b].type = req[t].type /\ mem[b].sector = req[t].sector
       /\ head[t] = At(d, n, 1) /\ data[head[t]] = [task |-> t, buf |-> b]
       /\ ChainFits(d, n, req[t], b)
  /\ ~Busy(t) => b = IF channel[t] = None THEN None ELSE channel[t].buf

Typed(d) ==
  /\ device = d /\ rawNextIndex = (ChainLen(d) * sent) % IndexRange
  /\ availRing \in [Slots(d) -> Slots(d)]
  /\ usedRing \in [Slots(d) -> [id : Slots(d), len : Nat]]
  /\ data \in [Slots(d) -> Entries \cup {None}]
  /\ mem \in [Buffers -> Contents \cup {None}]
  /\ devWork \in Seq(Slots(d))
  /\ pc \in [Tasks -> {"idle", "entry", "publish", "waiting"}]
  /\ req \in [Tasks -> Requests \cup {None}]
  /\ head \in [Tasks -> Slots(d)]
  /\ channel \in [Tasks -> Replies \cup {None}]
  /\ sent \in Nat /\ availIdx \in Nat /\ usedIdx \in Nat /\ lastProcessed \in Nat
  /\ devSeen \in Nat

(* No two tasks share a request or a buffer, and data is kept only for     *)
(* requests that are not answered.                                         *)
OwnersFit(num, own) ==
  /\ \A t, u \in Tasks : t # u => /\ Busy(t) /\ Busy(u) => num[t] # num[u]
                                  /\ own[t] = own[u] => own[t] = None
  /\ \A i \in DOMAIN data : data[i] # None => \E t \in Tasks : Busy(t) /\ head[t] = i

(* The request being added is the last one, and not yet in the ring.       *)
LockFits(num) ==
  /\ lock = None => availIdx = sent /\ \A t \in Tasks : pc[t] \in {"idle", "waiting"}
  /\ lock # None =>
       /\ lock \in Tasks /\ pc[lock] \in {"entry", "publish"}
       /\ \A t \in Tasks : t # lock => pc[t] \in {"idle", "waiting"}
       /\ sent = availIdx + 1 /\ num[lock] = availIdx
       /\ pc[lock] = "publish" => availRing[ToElemIndex(availIdx)] = head[lock]

(* The entries the device has still to take.                               *)
RingFits(d, num) ==
  \A j \in devSeen .. availIdx - 1 :
    /\ availRing[j % d.size] = At(d, j, 1)
    /\ \E t \in Tasks : Busy(t) /\ num[t] = j

(* The chains the device works on.                                         *)
WorkFits(d, num) ==
  /\ Len(devWork) = devSeen - usedIdx
  /\ \A i \in 1 .. Len(devWork) :
       /\ \E t \in Tasks : Busy(t) /\ num[t] < devSeen /\ devWork[i] = head[t]
       /\ \A j \in 1 .. Len(devWork) : devWork[i] = devWork[j] => i = j
       /\ d.inOrder => devWork[i] = At(d, usedIdx + i - 1, 1)

(* What the device did for request r in buffer b, of which it wrote len.   *)
Done(r, b, len) ==
  /\ r.type # "Out" => mem[b].payload = r.sector
  /\ IF r.type = "Rng" THEN len <= r.amount ELSE mem[b].status \in Statuses

(* The chains it has finished and the handler has not seen.                *)
UsedFits(d, num, own) ==
  \A j \in lastProcessed .. usedIdx - 1 :
    /\ \E t \in Tasks :
         /\ Busy(t) /\ num[t] < devSeen /\ usedRing[j % d.size].id = head[t]
         /\ \A i \in 1 .. Len(devWork) : devWork[i] # head[t]
         /\ Done(req[t], own[t], usedRing[j % d.size].len)
    /\ d.inOrder => usedRing[j % d.size].id = At(d, j, 1)

(* With a device that works in order, the requests that are not answered   *)
(* are the last ones.                                                      *)
OrderFits(d, num) ==
  d.inOrder =>
    /\ \A t \in Tasks : Busy(t) => lastProcessed <= num[t]
    /\ \A j \in lastProcessed .. sent - 1 : \E t \in Tasks : Busy(t) /\ num[t] = j

Flow(d, num, own) ==
  /\ lastProcessed <= usedIdx /\ usedIdx <= devSeen /\ devSeen <= availIdx
  /\ availIdx <= sent /\ sent <= d.maxRequests /\ sent - lastProcessed <= Room(d)
  /\ \A t \in Tasks : Busy(t) /\ pc[t] = "waiting" => num[t] < availIdx
  /\ LockFits(num)
  /\ RingFits(d, num)
  /\ WorkFits(d, num)
  /\ UsedFits(d, num, own)
  /\ OrderFits(d, num)

Fits(d, num, own) ==
  /\ Typed(d)
  /\ \A t \in Tasks : TaskFits(d, t, num[t], own[t])
  /\ OwnersFit(num, own)
  /\ ~panicked => Flow(d, num, own)
  /\ PanicOnlyOnDeviceError

QueueInv ==
  \E d \in Devices, num \in [Tasks -> Nat], own \in [Tasks -> Buffers \cup {None}] :
    Fits(d, num, own)

-----------------------------------------------------------------------------
(* Remainders *)

LEMMA DivMod ==
  ASSUME NEW a \in Nat, NEW Q \in Nat \ {0}
  PROVE  \E q \in Nat : a = Q * q + (a % Q) /\ a % Q \in 0 .. Q - 1
<1>1. a \div Q \in Nat /\ a % Q \in 0 .. Q - 1
  BY SMTT(30), SMTT(60)
<1>2. a = Q * (a \div Q) + (a % Q)
  BY SMTT(30), SMTT(60)
<1> QED
  BY <1>1, <1>2, Zenon

LEMMA Unique ==
  ASSUME NEW Q \in Nat \ {0}, NEW p \in Int, NEW q \in Int,
         NEW r \in 0 .. Q - 1, NEW s \in 0 .. Q - 1,
         Q * p + r = Q * q + s
  PROVE  r = s /\ p = q
<1>1. Q * (p - q) = s - r
  BY SMTT(30), SMTT(60)
<1>2. CASE p - q >= 1
  <2>1. Q * (p - q) >= Q
    BY <1>2, SMTT(30), SMTT(60)
  <2> QED BY <1>1, <2>1, SMTT(30), SMTT(60)
<1>3. CASE p - q <= -1
  <2>1. Q * (p - q) <= -Q
    BY <1>3, SMTT(30), SMTT(60)
  <2> QED BY <1>1, <2>1, SMTT(30), SMTT(60)
<1>4. CASE p = q
  BY <1>4, SMTT(30), SMTT(60)
<1> QED BY <1>2, <1>3, <1>4, SMTT(30), SMTT(60)

LEMMA ModNear ==
  ASSUME NEW Q \in Nat \ {0}, NEW a \in Nat, NEW b \in Nat, a < b, b - a < Q
  PROVE  a % Q # b % Q
<1>1. PICK p \in Nat : a = Q * p + (a % Q) /\ a % Q \in 0 .. Q - 1
  BY DivMod, Zenon
<1>2. PICK q \in Nat : b = Q * q + (b % Q) /\ b % Q \in 0 .. Q - 1
  BY DivMod, Zenon
<1> SUFFICES ASSUME a % Q = b % Q PROVE FALSE
  OBVIOUS
<1> DEFINE r == a % Q
<1>3. r \in Int /\ a = Q * p + r /\ b = Q * q + r
  BY <1>1, <1>2, SMTT(30), SMTT(60)
<1> HIDE DEF r
<1>4. b - a = Q * (q - p)
  BY <1>3, SMTT(30), SMTT(60)
<1>5. CASE q - p >= 1
  <2>1. Q * (q - p) >= Q
    BY <1>5, SMTT(30), SMTT(60)
  <2> QED BY <1>4, <2>1, SMTT(30), SMTT(60)
<1>6. CASE q - p <= 0
  <2>1. Q * (q - p) <= 0
    BY <1>6, SMTT(30), SMTT(60)
  <2> QED BY <1>4, <2>1, SMTT(30), SMTT(60)
<1> QED BY <1>5, <1>6, SMTT(30), SMTT(60)

LEMMA ModIs ==
  ASSUME NEW Q \in Nat \ {0}, NEW a \in Nat, NEW p \in Int, NEW r \in 0 .. Q - 1,
         a = Q * p + r
  PROVE  a % Q = r
<1>1. PICK q \in Nat : a = Q * q + (a % Q) /\ a % Q \in 0 .. Q - 1
  BY DivMod, Zenon
<1>2. PICK s \in 0 .. Q - 1 : s = a % Q
  BY <1>1, Zenon
<1>3. Q * p + r = Q * q + s
  BY <1>1, <1>2, Zenon
<1>4. p \in Int /\ q \in Int
  BY SMTT(30), SMTT(60)
<1>5. r = s
  BY ONLY Q \in Nat \ {0}, r \in 0 .. Q - 1, s \in 0 .. Q - 1, <1>3, <1>4, Unique, Zenon
<1> QED
  BY <1>2, <1>5, Zenon

SameRest(a, R, Q) == (a % R) % Q = a % Q

LEMMA ModMod ==
  ASSUME NEW Q \in Nat \ {0}, NEW d \in Nat \ {0}, NEW R, R = Q * d, NEW a \in Nat
  PROVE  SameRest(a, R, Q)
<1>1. R \in Nat \ {0}
  BY SMTT(30), SMTT(60)
<1>2. PICK p \in Nat : a = R * p + (a % R) /\ a % R \in 0 .. R - 1
  BY <1>1, DivMod, Zenon
<1>3. PICK x \in Nat : x = a % R
  <2>1. \A n \in 0 .. R - 1 : n \in Nat
    BY <1>1, SMTT(30), SMTT(60)
  <2> QED
    BY <1>2, <2>1, Zenon
<1>4. PICK q \in Nat : x = Q * q + (x % Q) /\ x % Q \in 0 .. Q - 1
  BY DivMod, Zenon
<1>5. PICK r \in 0 .. Q - 1 : r = x % Q
  BY <1>4, Zenon
<1>6. a = R * p + x /\ x = Q * q + r
  BY <1>2, <1>3, <1>4, <1>5, Zenon
<1>7. R * p = Q * (d * p) /\ d * p \in Nat
  BY SMTT(30), SMTT(60)
<1>8. a = Q * (d * p + q) + r /\ d * p + q \in Int
  BY <1>6, <1>7, SMTT(30), SMTT(60)
<1>9. a % Q = r
  BY <1>8, ModIs, Zenon
<1> QED BY <1>3, <1>5, <1>9, Zenon DEF SameRest

LEMMA ModAdd ==
  ASSUME NEW R \in Nat \ {0}, NEW a \in Nat, NEW c \in Nat
  PROVE  ((a % R) + c) % R = (a + c) % R
<1>1. PICK p \in Nat : a = R * p + (a % R) /\ a % R \in 0 .. R - 1
  BY DivMod, Zenon
<1>2. PICK x \in Nat : x = a % R
  <2>1. \A n \in 0 .. R - 1 : n \in Nat
    BY SMTT(30), SMTT(60)
  <2> QED
    BY <1>1, <2>1, Zenon
<1>3. x + c \in Nat /\ a + c \in Nat
  BY SMTT(30), SMTT(60)
<1>4. PICK q \in Nat : x + c = R * q + ((x + c) % R) /\ (x + c) % R \in 0 .. R - 1
  BY <1>3, DivMod, Zenon
<1>5. PICK s \in 0 .. R - 1 : s = (x + c) % R
  BY <1>4, Zenon
<1>6. a = R * p + x /\ x + c = R * q + s
  BY <1>1, <1>2, <1>4, <1>5, Zenon
<1>7. a + c = R * (p + q) + s /\ p + q \in Int
  BY <1>6, SMTT(30), SMTT(60)
<1>8. (a + c) % R = s
  BY <1>3, <1>7, ModIs, Zenon
<1> QED
  BY <1>2, <1>5, <1>8, Zenon

-----------------------------------------------------------------------------
(* Slots *)

LEMMA DeviceFacts ==
  ASSUME QueueConstants, NEW d \in Devices
  PROVE  /\ d.size \in Nat \ {0} /\ ChainLen(d) \in {1, 3} /\ Room(d) \in Nat
         /\ ChainLen(d) * Room(d) <= d.size /\ Room(d) <= d.size
         /\ d.maxRequests \in Nat /\ IndexRange \in Nat \ {0} /\ d.maxRequests < IndexRange
         /\ \E m \in Nat \ {0} : IndexRange = d.size * m
<1>1. DeviceFits(d)
  BY Zenon DEF QueueConstants
<1>2. d.size \in Nat \ {0} /\ d.maxRequests \in Nat /\ ChainLen(d) \in {1, 3}
  BY <1>1, ZenonT(60) DEF DeviceFits, ChainLen
<1>3. Room(d) \in Nat /\ ChainLen(d) * Room(d) <= d.size /\ Room(d) <= d.size
  <2> DEFINE s == d.size
  <2>1. s \in Nat
    BY <1>2
  <2>2. CASE ChainLen(d) = 1
    <3>1. Room(d) = s \div 1
      BY <2>2, Zenon DEF Room
    <3>2. s \div 1 \in Nat /\ s \div 1 <= s
      BY <2>1, SMTT(30), SMTT(60)
    <3> HIDE DEF s
    <3> QED BY <2>1, <2>2, <3>1, <3>2, SMTT(30), SMTT(60) DEF s
  <2>3. CASE ChainLen(d) = 3
    <3>1. Room(d) = s \div 3
      BY <2>3, Zenon DEF Room
    <3> HIDE DEF s
    <3>2. s \div 3 \in Nat /\ 3 * (s \div 3) <= s /\ s \div 3 <= s
      BY <2>1, SMTT(30), SMTT(60)
    <3> QED BY <2>1, <2>3, <3>1, <3>2, ZenonT(60) DEF s
  <2> QED BY <1>2, <2>2, <2>3, Zenon
<1>4. PICK m \in Nat : IndexRange = d.size * m
  BY <1>1, Zenon DEF DeviceFits
<1>5. d.maxRequests < IndexRange
  BY <1>1, Zenon DEF DeviceFits
<1>6. d.size * m \in Nat
  BY <1>2, SMTT(30), SMTT(60)
<1>7. m # 0
  <2> SUFFICES ASSUME m = 0 PROVE FALSE
    OBVIOUS
  <2>1. IndexRange = 0
    BY <1>2, <1>4, SMTT(30), SMTT(60)
  <2> QED BY <1>2, <1>5, <2>1, SMTT(30), SMTT(60)
<1>8. IndexRange \in Nat \ {0}
  BY <1>2, <1>4, <1>5, <1>6, SMTT(30), SMTT(60)
<1> QED BY <1>2, <1>3, <1>4, <1>5, <1>7, <1>8, ZenonT(60)

LEMMA AtSlot ==
  ASSUME QueueConstants, NEW d \in Devices, NEW n \in Nat, NEW k \in 1 .. ChainLen(d)
  PROVE  /\ ChainLen(d) * n + k - 1 \in Nat /\ At(d, n, k) \in Slots(d)
         /\ At(d, n, k) \in Nat
<1>1. d.size \in Nat \ {0} /\ ChainLen(d) \in {1, 3}
  BY DeviceFacts, Zenon
<1>2. ChainLen(d) * n + k - 1 \in Nat
  BY <1>1, SMTT(30), SMTT(60)
<1>3. At(d, n, k) \in 0 .. d.size - 1
  BY <1>1, <1>2, DivMod, Zenon DEF At
<1> QED BY <1>1, <1>2, <1>3, SMTT(30), SMTT(60) DEF Slots

(* Requests that are both within reach share no slot.                      *)
LEMMA AtApart ==
  ASSUME QueueConstants, NEW d \in Devices, NEW n \in Nat, NEW m \in Nat,
         NEW k \in 1 .. ChainLen(d), NEW l \in 1 .. ChainLen(d),
         n < m, m - n < Room(d)
  PROVE  At(d, n, k) # At(d, m, l)
<1> DEFINE L == ChainLen(d)
           a == L * n + k - 1
           b == L * m + l - 1
<1>1. d.size \in Nat \ {0} /\ L \in {1, 3} /\ Room(d) \in Nat /\ L * Room(d) <= d.size
  BY DeviceFacts, Zenon
<1>2. a \in Nat /\ b \in Nat
  BY AtSlot, Zenon
<1>3. a < b /\ b - a < d.size
  <2>1. CASE L = 1
    BY <1>1, <2>1, SMTT(30), SMTT(60)
  <2>2. CASE L = 3
    BY <1>1, <2>2, SMTT(30), SMTT(60)
  <2> QED BY <1>1, <2>1, <2>2, Zenon
<1> HIDE DEF a, b
<1>4. a % d.size # b % d.size
  BY ONLY <1>1, <1>2, <1>3, ModNear, Zenon
<1> QED BY <1>4, Zenon DEF At, a, b

LEMMA AtOwn ==
  ASSUME QueueConstants, NEW d \in Devices, NEW n \in Nat, Room(d) > 0,
         NEW k \in 1 .. ChainLen(d), NEW l \in 1 .. ChainLen(d), k < l
  PROVE  At(d, n, k) # At(d, n, l)
<1> DEFINE L == ChainLen(d)
           a == L * n + k - 1
           b == L * n + l - 1
<1>1. d.size \in Nat \ {0} /\ L \in {1, 3} /\ Room(d) \in Nat /\ L * Room(d) <= d.size
  BY DeviceFacts, Zenon
<1>2. a \in Nat /\ b \in Nat
  BY AtSlot, Zenon
<1>3. a < b /\ b - a < d.size
  <2>1. CASE L = 1
    BY <1>1, <2>1, SMTT(30), SMTT(60)
  <2>2. CASE L = 3
    BY <1>1, <2>2, SMTT(30), SMTT(60)
  <2> QED BY <1>1, <2>1, <2>2, Zenon
<1> HIDE DEF a, b
<1>4. a % d.size # b % d.size
  BY ONLY <1>1, <1>2, <1>3, ModNear, Zenon
<1> QED BY <1>4, Zenon DEF At, a, b


(* add_descriptor: the next request gets the slots of its number, although *)
(* the index is a u16.                                                     *)
LEMMA SlotAt ==
  ASSUME QueueConstants, NEW d \in Devices, Typed(d), NEW k \in 1 .. ChainLen(d)
  PROVE  Slot(k) = At(d, sent, k)
<1> DEFINE L == ChainLen(d)
           c == k - 1
           x == L * sent
<1>1. /\ d.size \in Nat \ {0} /\ L \in {1, 3} /\ IndexRange \in Nat \ {0}
      /\ \E m \in Nat \ {0} : IndexRange = d.size * m
  BY DeviceFacts, Zenon
<1>2. PICK m \in Nat \ {0} : IndexRange = d.size * m
  BY <1>1, Zenon
<1>3. sent \in Nat /\ device = d /\ rawNextIndex = x % IndexRange
  BY Zenon DEF Typed
<1>4. x \in Nat /\ c \in Nat /\ x + c \in Nat /\ x + k - 1 = x + c
  BY <1>1, <1>3, SMTT(30), SMTT(60)
<1>5. (x % IndexRange) + k - 1 = (x % IndexRange) + c
  <2>1. x % IndexRange \in Int
    BY <1>1, <1>4, SMTT(30), SMTT(60)
  <2> QED BY <2>1, ZenonT(60)
<1> HIDE DEF L, c, x
<1>6. ((x % IndexRange) + c) % IndexRange = (x + c) % IndexRange
  BY ONLY <1>1, <1>4, ModAdd, Zenon
<1>7. ((x + c) % IndexRange) % d.size = (x + c) % d.size
  <2>1. d.size \in Nat \ {0} /\ x + c \in Nat
    BY <1>1, <1>4, Zenon
  <2>2. SameRest(x + c, IndexRange, d.size)
    BY ONLY <1>2, <2>1, ModMod, Zenon
  <2> QED BY <2>2, Zenon DEF SameRest
<1>8. Slot(k) = (((x % IndexRange) + k - 1) % IndexRange) % d.size
  BY <1>3, Zenon DEF Slot, ToElemIndex, QueueSize
<1>9. At(d, sent, k) = (x + k - 1) % d.size
  BY Zenon DEF At, x, L
<1> QED BY <1>4, <1>5, <1>6, <1>7, <1>8, <1>9, Zenon

LEMMA RawNext ==
  ASSUME QueueConstants, NEW d \in Devices, Typed(d)
  PROVE  (rawNextIndex + ChainLen(d)) % IndexRange = (ChainLen(d) * (sent + 1)) % IndexRange
<1> DEFINE L == ChainLen(d)
           x == L * sent
<1>1. L \in {1, 3} /\ IndexRange \in Nat \ {0}
  BY DeviceFacts, Zenon
<1>2. sent \in Nat /\ rawNextIndex = x % IndexRange
  BY Zenon DEF Typed
<1>3. x \in Nat /\ L \in Nat /\ x + L = L * (sent + 1)
  BY <1>1, <1>2, SMTT(30), SMTT(60)
<1> HIDE DEF L, x
<1>4. ((x % IndexRange) + L) % IndexRange = (x + L) % IndexRange
  BY ONLY <1>1, <1>3, ModAdd, Zenon
<1> QED BY <1>2, <1>3, <1>4, Zenon DEF L


-----------------------------------------------------------------------------
(* What the invariant says of a state *)

(* The chains of two requests that are not answered share no slot.         *)
LEMMA BusyApart ==
  ASSUME QueueConstants, NEW d \in Devices, Typed(d),
         NEW n \in Nat, NEW m \in Nat, n # m,
         n < sent, sent <= n + Room(d), m < sent, sent <= m + Room(d),
         NEW k \in 1 .. ChainLen(d), NEW l \in 1 .. ChainLen(d)
  PROVE  At(d, n, k) # At(d, m, l)
<1>1. Room(d) \in Nat /\ sent \in Nat
  BY DeviceFacts, Zenon DEF Typed
<1>2. CASE n < m
  <2>1. m - n < Room(d)
    BY <1>1, <1>2, SMTT(30), SMTT(60)
  <2> QED BY <1>2, <2>1, AtApart, Zenon
<1>3. CASE m < n
  <2>1. n - m < Room(d)
    BY <1>1, <1>3, SMTT(30), SMTT(60)
  <2> QED BY <1>3, <2>1, AtApart, Zenon
<1> QED BY <1>2, <1>3, SMTT(30), SMTT(60)

LEMMA HeadsApart ==
  ASSUME QueueConstants, NEW d \in Devices, Typed(d),
         NEW num \in [Tasks -> Nat], NEW own, OwnersFit(num, own),
         NEW t \in Tasks, NEW u \in Tasks, Busy(t), Busy(u), t # u,
         TaskFits(d, t, num[t], own[t]), TaskFits(d, u, num[u], own[u])
  PROVE  head[t] # head[u]
<1>1. num[t] \in Nat /\ num[u] \in Nat
  BY ZenonT(60)
<1>2. num[t] # num[u]
  BY Zenon DEF OwnersFit
<1>3. /\ num[t] < sent /\ sent <= num[t] + Room(d) /\ head[t] = At(d, num[t], 1)
      /\ num[u] < sent /\ sent <= num[u] + Room(d) /\ head[u] = At(d, num[u], 1)
  BY Zenon DEF TaskFits
<1>4. 1 \in 1 .. ChainLen(d)
  <2>1. ChainLen(d) \in {1, 3}
    BY DeviceFacts, Zenon
  <2> QED BY <2>1, SMTT(30), SMTT(60)
<1> QED BY <1>1, <1>2, <1>3, <1>4, BusyApart, Zenon

(* Ring entries within a queue's length of one another are different.      *)
LEMMA EntriesApart ==
  ASSUME QueueConstants, NEW d \in Devices, NEW i \in Nat, NEW j \in Nat,
         i < j, j - i < Room(d)
  PROVE  i % d.size # j % d.size
<1>1. d.size \in Nat \ {0} /\ Room(d) \in Nat /\ Room(d) <= d.size
  BY DeviceFacts, Zenon
<1>2. j - i < d.size
  BY <1>1, SMTT(30), SMTT(60)
<1> QED BY <1>1, <1>2, ModNear, Zenon

LEMMA EntrySlot ==
  ASSUME QueueConstants, NEW d \in Devices, Typed(d), NEW j \in Nat
  PROVE  j % d.size \in Slots(d) /\ ToElemIndex(j) = j % d.size
<1>1. d.size \in Nat \ {0}
  BY DeviceFacts, Zenon
<1>2. j % d.size \in 0 .. d.size - 1
  BY <1>1, DivMod, Zenon
<1> QED BY <1>2, Zenon DEF Slots, ToElemIndex, QueueSize, Typed

LEMMA NoWrap ==
  ASSUME QueueConstants, NEW d \in Devices, NEW i \in Nat, i < d.maxRequests
  PROVE  Increment(i) = i + 1
<1>1. d.maxRequests \in Nat /\ IndexRange \in Nat \ {0} /\ d.maxRequests < IndexRange
  BY DeviceFacts, Zenon
<1>2. /\ i + 1 \in 0 .. IndexRange - 1 /\ i + 1 \in Nat
      /\ i + 1 = IndexRange * 0 + (i + 1) /\ 0 \in Int
  BY <1>1, SMTT(30), SMTT(60)
<1>3. (i + 1) % IndexRange = i + 1
  BY ONLY <1>1, <1>2, ModIs, Zenon
<1> QED BY <1>3, Zenon DEF Increment

(* VirtQueueDescriptorChainIterator finds the request's slots and stops.   *)
LEMMA ChainWalk ==
  ASSUME QueueConstants, NEW d \in Devices, NEW n \in Nat, NEW r, NEW b, ChainFits(d, n, r, b)
  PROVE  /\ ChainLen(d) = 1 => Following(At(d, n, 1)) = None
         /\ ChainLen(d) = 3 => /\ Following(At(d, n, 1)) = At(d, n, 2)
                               /\ Following(At(d, n, 2)) = At(d, n, 3)
                               /\ Following(At(d, n, 3)) = None
<1>1. \A k \in 1 .. ChainLen(d) : At(d, n, k) # None
  <2>1. \A k \in 1 .. ChainLen(d) : At(d, n, k) \in Nat
    BY AtSlot, Zenon
  <2> QED BY <2>1, Zenon DEF QueueConstants
<1>2. CASE ChainLen(d) = 1
  <2>1. 1 \in 1 .. ChainLen(d) /\ ChainLen(d) # 3
    BY <1>2, SMTT(30), SMTT(60)
  <2>2. desc[At(d, n, 1)].next = FALSE
    BY <1>2, <2>1, Zenon DEF ChainFits
  <2> QED BY <2>1, <2>2, Zenon DEF Following
<1>3. CASE ChainLen(d) = 3
  <2>1. /\ 1 \in 1 .. ChainLen(d) /\ 2 \in 1 .. ChainLen(d) /\ 3 \in 1 .. ChainLen(d)
        /\ ChainLen(d) # 1 /\ 1 < ChainLen(d) /\ 2 < ChainLen(d) /\ 1 + 1 = 2 /\ 2 + 1 = 3
    BY <1>3, SMTT(30), SMTT(60)
  <2>2. /\ desc[At(d, n, 1)].next = TRUE /\ desc[At(d, n, 1)].to = At(d, n, 2)
        /\ desc[At(d, n, 2)].next = TRUE /\ desc[At(d, n, 2)].to = At(d, n, 3)
        /\ desc[At(d, n, 3)].next = FALSE
    <3>1. desc[At(d, n, 1)].next = TRUE /\ desc[At(d, n, 1)].to = At(d, n, 1 + 1)
      BY <2>1, Zenon DEF ChainFits
    <3>2. desc[At(d, n, 2)].next = TRUE /\ desc[At(d, n, 2)].to = At(d, n, 2 + 1)
      BY <2>1, Zenon DEF ChainFits
    <3>3. desc[At(d, n, 3)].next = FALSE
      BY <1>3, <2>1, Zenon DEF ChainFits
    <3> QED BY <2>1, <3>1, <3>2, <3>3, Zenon
  <2>3. At(d, n, 1) # None /\ At(d, n, 2) # None /\ At(d, n, 3) # None
    BY <1>1, <2>1, Zenon
  <2> QED BY <2>1, <2>2, <2>3, Zenon DEF Following
<1>4. ChainLen(d) \in {1, 3}
  BY DeviceFacts, Zenon
<1> QED BY <1>2, <1>3, <1>4, Zenon

(* A step that leaves a task's chain, data and buffer alone.               *)
LEMMA TaskKept ==
  ASSUME NEW d, NEW t, NEW n, NEW b, TaskFits(d, t, n, b),
         req'[t] = req[t], channel'[t] = channel[t], head'[t] = head[t],
         \/ pc'[t] = pc[t]
         \/ pc[t] \in {"entry", "publish"} /\ pc'[t] \in {"publish", "waiting"},
         b # None => /\ mem'[b] # None /\ mem'[b].type = mem[b].type
                     /\ mem'[b].sector = mem[b].sector,
         Busy(t) => /\ n < sent' /\ sent' <= n + Room(d) /\ b # None
                    /\ data'[head[t]] = data[head[t]]
                    /\ \A k \in 1 .. ChainLen(d) : desc'[At(d, n, k)] = desc[At(d, n, k)]
  PROVE  TaskFits(d, t, n, b)' /\ (Busy(t)' <=> Busy(t))
<1>1. /\ pc'[t] = "idle" <=> pc[t] = "idle"
      /\ channel[t] # None => pc'[t] = "waiting"
  BY Zenon DEF TaskFits
<1>2. Busy(t)' <=> Busy(t)
  BY <1>1, Zenon DEF Busy
<1>3. Busy(t) => ChainFits(d, n, req[t], b)'
  <2> SUFFICES ASSUME Busy(t) PROVE ChainFits(d, n, req[t], b)'
    OBVIOUS
  <2>1. ChainFits(d, n, req[t], b)
    BY Zenon DEF TaskFits
  <2> QED BY <2>1, ZenonT(40) DEF ChainFits
<1> QED BY <1>1, <1>2, <1>3, ZenonT(40) DEF TaskFits

(* A step that leaves the used ring, its chains and the buffers alone.     *)
LEMMA UsedKept ==
  ASSUME NEW d, NEW num, NEW own, UsedFits(d, num, own),
         lastProcessed' = lastProcessed, usedIdx' = usedIdx, usedRing' = usedRing,
         devSeen' = devSeen, devWork' = devWork, head' = head, req' = req, mem' = mem,
         \A u \in Tasks : Busy(u)' <=> Busy(u)
  PROVE  UsedFits(d, num, own)'
<1> SUFFICES ASSUME NEW j \in lastProcessed .. usedIdx - 1
             PROVE  (/\ \E u \in Tasks :
                          /\ Busy(u) /\ num[u] < devSeen /\ usedRing[j % d.size].id = head[u]
                          /\ \A i \in 1 .. Len(devWork) : devWork[i] # head[u]
                          /\ Done(req[u], own[u], usedRing[j % d.size].len)
                     /\ d.inOrder => usedRing[j % d.size].id = At(d, j, 1))'
  BY Zenon DEF UsedFits
<1>1. PICK u \in Tasks :
        /\ Busy(u) /\ num[u] < devSeen /\ usedRing[j % d.size].id = head[u]
        /\ \A i \in 1 .. Len(devWork) : devWork[i] # head[u]
        /\ Done(req[u], own[u], usedRing[j % d.size].len)
  BY Zenon DEF UsedFits
<1>2. Done(req[u], own[u], usedRing[j % d.size].len)'
  BY <1>1, Zenon DEF Done
<1>3. d.inOrder => usedRing[j % d.size].id = At(d, j, 1)
  BY Zenon DEF UsedFits
<1> QED BY <1>1, <1>2, <1>3, Zenon

(* No two tasks own the same buffer.                                       *)
LEMMA OwnersApart ==
  ASSUME NEW num, NEW own, OwnersFit(num, own), NEW t \in Tasks, NEW u \in Tasks, t # u,
         own[t] # None
  PROVE  own[t] # own[u]
BY Zenon DEF OwnersFit

-----------------------------------------------------------------------------
(* The steps of a request *)

LEMMA Unpack ==
  ASSUME QueueConstants, NEW d \in Devices, NEW num \in [Tasks -> Nat],
         NEW own, Fits(d, num, own), ~panicked
  PROVE  /\ Typed(d) /\ OwnersFit(num, own)
         /\ \A t \in Tasks : TaskFits(d, t, num[t], own[t])
         /\ \A t \in Tasks : num[t] \in Nat
         /\ \A t \in Tasks : Busy(t) => /\ own[t] \in Buffers /\ own[t] # None
                                        /\ head[t] = At(d, num[t], 1) /\ head[t] \in Slots(d)
         /\ LockFits(num) /\ RingFits(d, num) /\ WorkFits(d, num)
         /\ UsedFits(d, num, own) /\ OrderFits(d, num)
         /\ sent \in Nat /\ availIdx \in Nat /\ usedIdx \in Nat /\ devSeen \in Nat
         /\ lastProcessed \in Nat /\ Room(d) \in Nat /\ d.maxRequests \in Nat
         /\ lastProcessed <= usedIdx /\ usedIdx <= devSeen /\ devSeen <= availIdx
         /\ availIdx <= sent /\ sent <= d.maxRequests /\ sent - lastProcessed <= Room(d)
         /\ \A t \in Tasks : Busy(t) /\ pc[t] = "waiting" => num[t] < availIdx
<1>1. /\ Typed(d) /\ OwnersFit(num, own) /\ Flow(d, num, own)
      /\ \A t \in Tasks : TaskFits(d, t, num[t], own[t])
  BY Zenon DEF Fits
<1>2. \A t \in Tasks : num[t] \in Nat
  BY ZenonT(60)
<1>3. ASSUME NEW t \in Tasks, Busy(t)
      PROVE  /\ own[t] \in Buffers /\ own[t] # None
             /\ head[t] = At(d, num[t], 1) /\ head[t] \in Slots(d)
  <2>1. own[t] \in Buffers /\ head[t] = At(d, num[t], 1)
    BY <1>1, <1>3, Zenon DEF TaskFits
  <2>2. head[t] \in Slots(d)
    BY <1>1, ZenonT(60) DEF Typed
  <2> QED BY <2>1, <2>2, Zenon DEF QueueConstants
<1>4. Room(d) \in Nat /\ d.maxRequests \in Nat
  BY DeviceFacts, Zenon
<1> QED BY <1>1, <1>2, <1>3, <1>4, Zenon DEF Flow, Typed

(* The task in a driver call holds the lock and has the last request.      *)
LEMMA Caller ==
  ASSUME QueueConstants, NEW d \in Devices, NEW num \in [Tasks -> Nat],
         NEW own, Fits(d, num, own), ~panicked, NEW t \in Tasks, pc[t] \in {"entry", "publish"}
  PROVE  /\ lock = t /\ Busy(t) /\ num[t] = availIdx /\ sent = availIdx + 1
         /\ head[t] = At(d, availIdx, 1)
         /\ \A u \in Tasks : u # t => pc[u] \in {"idle", "waiting"}
<1>1. /\ LockFits(num) /\ TaskFits(d, t, num[t], own[t])
      /\ (Busy(t) => head[t] = At(d, num[t], 1))
  BY Unpack, ZenonT(40)
<1>2. pc[t] \notin {"idle", "waiting"}
  BY ZenonT(60)
<1>3. lock # None
  BY <1>1, <1>2, Zenon DEF LockFits
<1>4. lock = t
  BY <1>1, <1>2, <1>3, Zenon DEF LockFits
<1>5. Busy(t)
  BY <1>1, <1>2, Zenon DEF TaskFits, Busy
<1> QED BY <1>1, <1>3, <1>4, <1>5, Zenon DEF LockFits

LEMMA AddEntryFits ==
  ASSUME QueueConstants, NEW d \in Devices, NEW num \in [Tasks -> Nat],
         NEW own, Fits(d, num, own), NEW t \in Tasks, AddEntry(t)
  PROVE  Fits(d, num, own)'
<1>0. ~panicked /\ pc[t] = "entry"
  BY Zenon DEF AddEntry
<1>1. /\ availRing' = [availRing EXCEPT ![ToElemIndex(availIdx)] = head[t]]
      /\ pc' = [pc EXCEPT ![t] = "publish"]
      /\ device' = device /\ rawNextIndex' = rawNextIndex /\ desc' = desc
      /\ availIdx' = availIdx /\ lastProcessed' = lastProcessed /\ data' = data
      /\ usedIdx' = usedIdx /\ usedRing' = usedRing /\ devSeen' = devSeen
      /\ devWork' = devWork /\ mem' = mem /\ lock' = lock /\ req' = req /\ head' = head
      /\ channel' = channel /\ sent' = sent /\ panicked' = panicked
  BY ZenonT(60) DEF AddEntry, deviceVars
<1>2. /\ Typed(d) /\ OwnersFit(num, own)
      /\ \A u \in Tasks : TaskFits(d, u, num[u], own[u])
      /\ \A u \in Tasks : num[u] \in Nat
      /\ \A u \in Tasks : Busy(u) => own[u] # None
      /\ LockFits(num) /\ RingFits(d, num) /\ WorkFits(d, num)
      /\ UsedFits(d, num, own) /\ OrderFits(d, num)
  BY <1>0, Unpack, ZenonT(40)
<1>3. /\ sent \in Nat /\ availIdx \in Nat /\ usedIdx \in Nat /\ devSeen \in Nat
      /\ lastProcessed \in Nat /\ Room(d) \in Nat /\ d.maxRequests \in Nat
      /\ lastProcessed <= usedIdx /\ usedIdx <= devSeen /\ devSeen <= availIdx
      /\ availIdx <= sent /\ sent <= d.maxRequests /\ sent - lastProcessed <= Room(d)
  BY <1>0, Unpack, ZenonT(40)
<1>4. /\ lock = t /\ Busy(t) /\ num[t] = availIdx /\ sent = availIdx + 1
      /\ head[t] = At(d, availIdx, 1)
      /\ \A u \in Tasks : u # t => pc[u] \in {"idle", "waiting"}
  BY <1>0, Caller, Zenon
<1>5. /\ availIdx % d.size \in Slots(d) /\ ToElemIndex(availIdx) = availIdx % d.size
      /\ head[t] \in Slots(d)
  BY <1>2, <1>3, EntrySlot, ZenonT(60) DEF Typed
<1>6. pc'[t] = "publish" /\ \A u \in Tasks : u # t => pc'[u] = pc[u]
  BY <1>1, <1>2, ZenonT(60) DEF Typed
<1>7. /\ availRing'[availIdx % d.size] = head[t]
      /\ \A i \in Slots(d) : i # availIdx % d.size => availRing'[i] = availRing[i]
      /\ availRing' \in [Slots(d) -> Slots(d)]
      /\ pc' \in [Tasks -> {"idle", "entry", "publish", "waiting"}]
  BY <1>1, <1>2, <1>5, ZenonT(60) DEF Typed
<1>8. Typed(d)'
  BY <1>1, <1>2, <1>7, Zenon DEF Typed
<1>9. ASSUME NEW u \in Tasks
      PROVE  TaskFits(d, u, num[u], own[u])' /\ (Busy(u)' <=> Busy(u))
  <2>1. TaskFits(d, u, num[u], own[u]) /\ (Busy(u) => own[u] # None)
    BY <1>2, Zenon
  <2>2. Busy(u) => num[u] < sent' /\ sent' <= num[u] + Room(d)
    BY <1>1, <2>1, Zenon DEF TaskFits
  <2>3. own[u] # None => mem'[own[u]] # None
    BY <1>1, <2>1, Zenon DEF TaskFits
  <2>4. \/ pc'[u] = pc[u]
        \/ pc[u] \in {"entry", "publish"} /\ pc'[u] \in {"publish", "waiting"}
    <3>1. CASE u = t
      BY <1>0, <1>6, <3>1, Zenon
    <3>2. CASE u # t
      BY <1>6, <3>2, Zenon
    <3> QED BY <3>1, <3>2, Zenon
  <2> QED BY <1>1, <2>1, <2>2, <2>3, <2>4, TaskKept, Zenon
<1>10. OwnersFit(num, own)'
  BY <1>1, <1>2, <1>9, Zenon DEF OwnersFit
<1>11. LockFits(num)'
  <2>1. pc'[lock'] = "publish" /\ lock' \in Tasks /\ lock' # None
    BY <1>1, <1>4, <1>6, Zenon DEF QueueConstants
  <2>2. ToElemIndex(availIdx)' = availIdx % d.size
    BY <1>1, <1>2, Zenon DEF Typed, ToElemIndex, QueueSize
  <2> QED BY <1>1, <1>4, <1>6, <1>7, <2>1, <2>2, Zenon DEF LockFits
<1>12. RingFits(d, num)'
  <2> SUFFICES ASSUME NEW j \in devSeen .. availIdx - 1
               PROVE  availRing'[j % d.size] = At(d, j, 1) /\ \E u \in Tasks : Busy(u)' /\ num[u] = j
    BY <1>1, Zenon DEF RingFits
  <2>1. j \in Nat /\ j < availIdx /\ availIdx - j < Room(d)
    BY <1>3, <1>4, SMTT(30), SMTT(60)
  <2>2. j % d.size # availIdx % d.size /\ j % d.size \in Slots(d)
    BY <1>2, <1>3, <2>1, EntriesApart, EntrySlot, Zenon
  <2> QED BY <1>2, <1>7, <1>9, <2>2, Zenon DEF RingFits
<1>13. WorkFits(d, num)' /\ UsedFits(d, num, own)' /\ OrderFits(d, num)'
  <2>1. WorkFits(d, num)'
    BY <1>1, <1>2, <1>9, Zenon DEF WorkFits
  <2>2. UsedFits(d, num, own)'
    BY <1>1, <1>2, <1>9, UsedKept, Zenon
  <2>3. OrderFits(d, num)'
    BY <1>1, <1>2, <1>9, Zenon DEF OrderFits
  <2> QED BY <2>1, <2>2, <2>3
<1>14. \A u \in Tasks : Busy(u)' /\ pc'[u] = "waiting" => num[u] < availIdx'
  <2>1. \A u \in Tasks : Busy(u) /\ pc[u] = "waiting" => num[u] < availIdx
    BY <1>0, Unpack, ZenonT(40)
  <2> QED BY <1>1, <1>6, <1>9, <2>1, Zenon
<1>15. Flow(d, num, own)'
  BY <1>1, <1>3, <1>11, <1>12, <1>13, <1>14, Zenon DEF Flow
<1> QED BY <1>0, <1>1, <1>8, <1>9, <1>10, <1>15, Zenon DEF Fits, PanicOnlyOnDeviceError

LEMMA PublishFits ==
  ASSUME QueueConstants, NEW d \in Devices, NEW num \in [Tasks -> Nat],
         NEW own, Fits(d, num, own), NEW t \in Tasks, Publish(t)
  PROVE  Fits(d, num, own)'
<1>0. ~panicked /\ pc[t] = "publish"
  BY Zenon DEF Publish
<1>1. /\ availIdx' = Increment(availIdx) /\ lock' = None
      /\ pc' = [pc EXCEPT ![t] = "waiting"]
      /\ device' = device /\ rawNextIndex' = rawNextIndex /\ desc' = desc
      /\ availRing' = availRing /\ lastProcessed' = lastProcessed /\ data' = data
      /\ usedIdx' = usedIdx /\ usedRing' = usedRing /\ devSeen' = devSeen
      /\ devWork' = devWork /\ mem' = mem /\ req' = req /\ head' = head
      /\ channel' = channel /\ sent' = sent /\ panicked' = panicked
  BY ZenonT(60) DEF Publish, deviceVars
<1>2. /\ Typed(d) /\ OwnersFit(num, own)
      /\ \A u \in Tasks : TaskFits(d, u, num[u], own[u])
      /\ \A u \in Tasks : num[u] \in Nat
      /\ \A u \in Tasks : Busy(u) => own[u] # None
      /\ LockFits(num) /\ RingFits(d, num) /\ WorkFits(d, num)
      /\ UsedFits(d, num, own) /\ OrderFits(d, num)
  BY <1>0, Unpack, ZenonT(40)
<1>3. /\ sent \in Nat /\ availIdx \in Nat /\ usedIdx \in Nat /\ devSeen \in Nat
      /\ lastProcessed \in Nat /\ Room(d) \in Nat /\ d.maxRequests \in Nat
      /\ lastProcessed <= usedIdx /\ usedIdx <= devSeen /\ devSeen <= availIdx
      /\ availIdx <= sent /\ sent <= d.maxRequests /\ sent - lastProcessed <= Room(d)
  BY <1>0, Unpack, ZenonT(40)
<1>4. /\ lock = t /\ Busy(t) /\ num[t] = availIdx /\ sent = availIdx + 1
      /\ head[t] = At(d, availIdx, 1)
      /\ \A u \in Tasks : u # t => pc[u] \in {"idle", "waiting"}
  BY <1>0, Caller, Zenon
<1>5. availIdx' = availIdx + 1
  <2>1. availIdx < d.maxRequests
    BY <1>3, <1>4, SMTT(30), SMTT(60)
  <2> QED BY <1>1, <1>3, <2>1, NoWrap, Zenon
<1>6. /\ pc'[t] = "waiting" /\ \A u \in Tasks : u # t => pc'[u] = pc[u]
      /\ pc' \in [Tasks -> {"idle", "entry", "publish", "waiting"}]
      /\ availIdx' \in Nat /\ availIdx' = sent
  BY <1>1, <1>2, <1>3, <1>4, <1>5, ZenonT(60) DEF Typed
<1>7. availRing[availIdx % d.size] = At(d, availIdx, 1)
  <2>1. availRing[ToElemIndex(availIdx)] = head[t]
    <3>1. lock # None
      BY <1>4, Zenon DEF QueueConstants
    <3> QED BY <1>0, <1>2, <1>4, <3>1, Zenon DEF LockFits
  <2> QED BY <1>2, <1>3, <1>4, <2>1, EntrySlot, Zenon
<1>8. Typed(d)'
  BY <1>1, <1>2, <1>6, Zenon DEF Typed
<1>9. ASSUME NEW u \in Tasks
      PROVE  TaskFits(d, u, num[u], own[u])' /\ (Busy(u)' <=> Busy(u))
  <2>1. TaskFits(d, u, num[u], own[u]) /\ (Busy(u) => own[u] # None)
    BY <1>2, Zenon
  <2>2. Busy(u) => num[u] < sent' /\ sent' <= num[u] + Room(d)
    BY <1>1, <2>1, Zenon DEF TaskFits
  <2>3. own[u] # None => mem'[own[u]] # None
    BY <1>1, <2>1, Zenon DEF TaskFits
  <2>4. \/ pc'[u] = pc[u]
        \/ pc[u] \in {"entry", "publish"} /\ pc'[u] \in {"publish", "waiting"}
    <3>1. CASE u = t
      BY <1>0, <1>6, <3>1, Zenon
    <3>2. CASE u # t
      BY <1>6, <3>2, Zenon
    <3> QED BY <3>1, <3>2, Zenon
  <2> QED BY <1>1, <2>1, <2>2, <2>3, <2>4, TaskKept, Zenon
<1>10. OwnersFit(num, own)'
  BY <1>1, <1>2, <1>9, Zenon DEF OwnersFit
<1>11. LockFits(num)'
  <2>1. \A u \in Tasks : pc'[u] \in {"idle", "waiting"}
    BY <1>4, <1>6, ZenonT(60)
  <2> QED BY <1>1, <1>6, <2>1, Zenon DEF LockFits
<1>12. RingFits(d, num)'
  <2> SUFFICES ASSUME NEW j \in devSeen .. availIdx' - 1
               PROVE  availRing[j % d.size] = At(d, j, 1) /\ \E u \in Tasks : Busy(u)' /\ num[u] = j
    BY <1>1, Zenon DEF RingFits
  <2>1. CASE j = availIdx
    BY <1>4, <1>7, <1>9, <2>1, Zenon
  <2>2. CASE j \in devSeen .. availIdx - 1
    BY <1>2, <1>9, <2>2, Zenon DEF RingFits
  <2>3. j = availIdx \/ j \in devSeen .. availIdx - 1
    BY <1>3, <1>5, SMTT(30), SMTT(60)
  <2> QED BY <2>1, <2>2, <2>3, Zenon
<1>13. WorkFits(d, num)' /\ UsedFits(d, num, own)' /\ OrderFits(d, num)'
  <2>1. WorkFits(d, num)'
    BY <1>1, <1>2, <1>9, Zenon DEF WorkFits
  <2>2. UsedFits(d, num, own)'
    BY <1>1, <1>2, <1>9, UsedKept, Zenon
  <2>3. OrderFits(d, num)'
    BY <1>1, <1>2, <1>9, Zenon DEF OrderFits
  <2> QED BY <2>1, <2>2, <2>3
<1>14. \A u \in Tasks : Busy(u)' /\ pc'[u] = "waiting" => num[u] < availIdx'
  <2> SUFFICES ASSUME NEW u \in Tasks, Busy(u), pc'[u] = "waiting" PROVE num[u] < availIdx'
    BY <1>9, Zenon
  <2>1. TaskFits(d, u, num[u], own[u])
    BY <1>2, Zenon
  <2> QED BY <1>6, <2>1, Zenon DEF TaskFits
<1>15. Flow(d, num, own)'
  <2>1. devSeen' <= availIdx' /\ availIdx' <= sent'
    BY <1>1, <1>3, <1>5, <1>6, SMTT(30), SMTT(60)
  <2> QED BY <1>1, <1>3, <1>11, <1>12, <1>13, <1>14, <2>1, Zenon DEF Flow
<1> QED BY <1>0, <1>1, <1>8, <1>9, <1>10, <1>15, Zenon DEF Fits, PanicOnlyOnDeviceError

LEMMA ReceiveFits ==
  ASSUME QueueConstants, NEW d \in Devices, NEW num \in [Tasks -> Nat],
         NEW own \in [Tasks -> Buffers \cup {None}], Fits(d, num, own),
         NEW t \in Tasks, Receive(t)
  PROVE  Fits(d, num, [own EXCEPT ![t] = None])'
<1> DEFINE own2 == [own EXCEPT ![t] = None]
<1>0. ~panicked /\ pc[t] = "waiting" /\ channel[t] # None
  BY Zenon DEF Receive
<1>1. /\ mem' = [b \in Buffers |-> IF b = channel[t].buf THEN None ELSE mem[b]]
      /\ pc' = [pc EXCEPT ![t] = "idle"] /\ req' = [req EXCEPT ![t] = None]
      /\ channel' = [channel EXCEPT ![t] = None]
      /\ device' = device /\ rawNextIndex' = rawNextIndex /\ desc' = desc
      /\ availIdx' = availIdx /\ availRing' = availRing
      /\ lastProcessed' = lastProcessed /\ data' = data
      /\ usedIdx' = usedIdx /\ usedRing' = usedRing /\ devSeen' = devSeen
      /\ devWork' = devWork /\ head' = head /\ lock' = lock
      /\ sent' = sent /\ panicked' = panicked
  BY ZenonT(60) DEF Receive, driverVars, deviceVars
<1>2. /\ Typed(d) /\ OwnersFit(num, own)
      /\ \A u \in Tasks : TaskFits(d, u, num[u], own[u])
      /\ \A u \in Tasks : num[u] \in Nat
      /\ \A u \in Tasks : Busy(u) => own[u] # None /\ own[u] \in Buffers
      /\ LockFits(num) /\ RingFits(d, num) /\ WorkFits(d, num)
      /\ UsedFits(d, num, own) /\ OrderFits(d, num)
  BY <1>0, Unpack, ZenonT(40)
<1>3. /\ sent \in Nat /\ availIdx \in Nat /\ usedIdx \in Nat /\ devSeen \in Nat
      /\ lastProcessed \in Nat /\ Room(d) \in Nat /\ d.maxRequests \in Nat
      /\ lastProcessed <= usedIdx /\ usedIdx <= devSeen /\ devSeen <= availIdx
      /\ availIdx <= sent /\ sent <= d.maxRequests /\ sent - lastProcessed <= Room(d)
  BY <1>0, Unpack, ZenonT(40)
<1>4. own2[t] = None /\ \A u \in Tasks : u # t => own2[u] = own[u]
  BY ZenonT(60)
<1> HIDE DEF own2
<1>5. own[t] = channel[t].buf /\ ~Busy(t)
  BY <1>0, <1>2, ZenonT(40) DEF TaskFits, Busy
<1>6. /\ pc'[t] = "idle" /\ req'[t] = None /\ channel'[t] = None
      /\ \A u \in Tasks : u # t => pc'[u] = pc[u] /\ req'[u] = req[u] /\ channel'[u] = channel[u]
      /\ pc' \in [Tasks -> {"idle", "entry", "publish", "waiting"}]
      /\ req' \in [Tasks -> Requests \cup {None}]
      /\ channel' \in [Tasks -> Replies \cup {None}]
  BY <1>1, <1>2, ZenonT(60) DEF Typed
<1>7. /\ mem' \in [Buffers -> Contents \cup {None}]
      /\ \A b \in Buffers : b # own[t] => mem'[b] = mem[b]
  BY <1>1, <1>2, <1>5, ZenonT(60) DEF Typed
<1>8. Typed(d)'
  BY <1>1, <1>2, <1>6, <1>7, Zenon DEF Typed
<1>9. ASSUME NEW u \in Tasks
      PROVE  TaskFits(d, u, num[u], own2[u])' /\ (Busy(u)' <=> Busy(u))
  <2>1. CASE u = t
    BY <1>4, <1>5, <1>6, <2>1, Zenon DEF TaskFits, Busy
  <2>2. CASE u # t
    <3>1. TaskFits(d, u, num[u], own[u]) /\ (Busy(u) => own[u] # None) /\ own2[u] = own[u]
      BY <1>2, <1>4, <2>2, Zenon
    <3>2. Busy(u) => num[u] < sent' /\ sent' <= num[u] + Room(d)
      BY <1>1, <3>1, Zenon DEF TaskFits
    <3>3. own[u] # None => own[u] \in Buffers /\ own[u] # own[t]
      BY <1>2, <2>2, OwnersApart, Zenon
    <3>4. own[u] # None => mem'[own[u]] # None /\ mem'[own[u]] = mem[own[u]]
      BY <1>7, <3>1, <3>3, Zenon DEF TaskFits
    <3>5. TaskFits(d, u, num[u], own[u])' /\ (Busy(u)' <=> Busy(u))
      BY <1>1, <1>6, <2>2, <3>1, <3>2, <3>4, TaskKept, Zenon
    <3> QED BY <3>1, <3>5, Zenon
  <2> QED BY <2>1, <2>2, Zenon
<1>10. OwnersFit(num, own2)'
  <2>1. \A u, v \in Tasks : u # v => (own2[u] = own2[v] => own2[u] = None)
    <3> SUFFICES ASSUME NEW u \in Tasks, NEW v \in Tasks, u # v, own2[u] = own2[v],
                        own2[u] # None
                 PROVE  FALSE
      BY Zenon
    <3>1. u # t /\ v # t
      BY <1>4, Zenon
    <3>2. own2[u] = own[u] /\ own2[v] = own[v]
      BY <1>4, <3>1, Zenon
    <3>3. own[u] = own[v] => own[u] = None
      BY <1>2, OwnersApart, ZenonT(40)
    <3> QED BY <3>2, <3>3, Zenon
  <2> QED BY <1>1, <1>2, <1>9, <2>1, Zenon DEF OwnersFit
<1>11. LockFits(num)'
  <2>1. lock # t
    BY <1>0, <1>2, Zenon DEF LockFits, QueueConstants
  <2>2. ToElemIndex(availIdx)' = ToElemIndex(availIdx)
    BY <1>1, Zenon DEF ToElemIndex, QueueSize
  <2> QED BY <1>1, <1>2, <1>6, <2>1, <2>2, ZenonT(60) DEF LockFits
<1>12. RingFits(d, num)'
  BY <1>1, <1>2, <1>9, Zenon DEF RingFits
<1>13. WorkFits(d, num)'
  BY <1>1, <1>2, <1>9, Zenon DEF WorkFits
<1>14. UsedFits(d, num, own2)'
  <2> SUFFICES ASSUME NEW j \in lastProcessed .. usedIdx - 1
               PROVE  (/\ \E u \in Tasks :
                            /\ Busy(u) /\ num[u] < devSeen /\ usedRing[j % d.size].id = head[u]
                            /\ \A i \in 1 .. Len(devWork) : devWork[i] # head[u]
                            /\ Done(req[u], own2[u], usedRing[j % d.size].len)
                       /\ d.inOrder => usedRing[j % d.size].id = At(d, j, 1))'
    BY <1>1, Zenon DEF UsedFits
  <2>1. PICK u \in Tasks :
          /\ Busy(u) /\ num[u] < devSeen /\ usedRing[j % d.size].id = head[u]
          /\ \A i \in 1 .. Len(devWork) : devWork[i] # head[u]
          /\ Done(req[u], own[u], usedRing[j % d.size].len)
    BY <1>2, Zenon DEF UsedFits
  <2>2. u # t /\ own2[u] = own[u] /\ req'[u] = req[u]
    BY <1>4, <1>5, <1>6, <2>1, Zenon
  <2>3. mem'[own[u]] = mem[own[u]]
    <3>1. own[u] # None /\ own[u] \in Buffers
      BY <1>2, <2>1, Zenon
    <3>2. own[u] # own[t]
      BY <1>2, <2>2, <3>1, OwnersApart, Zenon
    <3> QED BY <1>7, <3>1, <3>2, Zenon
  <2>4. Done(req[u], own2[u], usedRing[j % d.size].len)'
    BY <1>1, <2>1, <2>2, <2>3, Zenon DEF Done
  <2>5. d.inOrder => usedRing[j % d.size].id = At(d, j, 1)
    BY <1>2, Zenon DEF UsedFits
  <2> QED BY <1>1, <1>9, <2>1, <2>4, <2>5, Zenon
<1>15. OrderFits(d, num)'
  BY <1>1, <1>2, <1>9, Zenon DEF OrderFits
<1>16. \A u \in Tasks : Busy(u)' /\ pc'[u] = "waiting" => num[u] < availIdx'
  <2>1. \A u \in Tasks : Busy(u) /\ pc[u] = "waiting" => num[u] < availIdx
    BY <1>0, Unpack, ZenonT(40)
  <2> QED BY <1>1, <1>5, <1>6, <1>9, <2>1, Zenon
<1>17. Flow(d, num, own2)'
  BY <1>1, <1>3, <1>11, <1>12, <1>13, <1>14, <1>15, <1>16, Zenon DEF Flow
<1>18. Fits(d, num, own2)'
  BY <1>0, <1>1, <1>8, <1>9, <1>10, <1>17, Zenon DEF Fits, PanicOnlyOnDeviceError
<1> QED BY <1>18 DEF own2

-----------------------------------------------------------------------------
(* The device *)

LEMMA DeviceTakeFits ==
  ASSUME QueueConstants, NEW d \in Devices, NEW num \in [Tasks -> Nat],
         NEW own, Fits(d, num, own), DeviceTake
  PROVE  Fits(d, num, own)'
<1>0. ~panicked /\ devSeen # availIdx
  BY Zenon DEF DeviceTake
<1>1. /\ devWork' = Append(devWork, availRing[ToElemIndex(devSeen)])
      /\ devSeen' = Increment(devSeen)
      /\ device' = device /\ rawNextIndex' = rawNextIndex /\ desc' = desc
      /\ availIdx' = availIdx /\ availRing' = availRing
      /\ lastProcessed' = lastProcessed /\ data' = data
      /\ usedIdx' = usedIdx /\ usedRing' = usedRing
      /\ mem' = mem /\ lock' = lock /\ pc' = pc /\ req' = req /\ head' = head
      /\ channel' = channel /\ sent' = sent /\ panicked' = panicked
  BY ZenonT(60) DEF DeviceTake, driverVars, taskVars
<1>2. /\ Typed(d) /\ OwnersFit(num, own)
      /\ \A u \in Tasks : TaskFits(d, u, num[u], own[u])
      /\ \A u \in Tasks : num[u] \in Nat
      /\ \A u \in Tasks : Busy(u) => own[u] # None /\ head[u] \in Slots(d)
                                                   /\ head[u] = At(d, num[u], 1)
      /\ LockFits(num) /\ RingFits(d, num) /\ WorkFits(d, num)
      /\ UsedFits(d, num, own) /\ OrderFits(d, num)
  BY <1>0, Unpack, ZenonT(40)
<1>3. /\ sent \in Nat /\ availIdx \in Nat /\ usedIdx \in Nat /\ devSeen \in Nat
      /\ lastProcessed \in Nat /\ Room(d) \in Nat /\ d.maxRequests \in Nat
      /\ lastProcessed <= usedIdx /\ usedIdx <= devSeen /\ devSeen <= availIdx
      /\ availIdx <= sent /\ sent <= d.maxRequests /\ sent - lastProcessed <= Room(d)
  BY <1>0, Unpack, ZenonT(40)
<1>4. devSeen' = devSeen + 1
  <2>1. devSeen < d.maxRequests
    BY <1>0, <1>3, SMTT(30), SMTT(60)
  <2> QED BY <1>1, <1>3, <2>1, NoWrap, Zenon
<1>5. devSeen \in devSeen .. availIdx - 1
  BY <1>0, <1>3, SMTT(30), SMTT(60)
<1>6. PICK t \in Tasks : Busy(t) /\ num[t] = devSeen
  BY <1>2, <1>5, Zenon DEF RingFits
<1>7. head[t] = At(d, devSeen, 1) /\ head[t] \in Slots(d)
  BY <1>2, <1>6, Zenon
<1>8. availRing[ToElemIndex(devSeen)] = head[t]
  <2>1. availRing[devSeen % d.size] = At(d, devSeen, 1)
    BY <1>2, <1>5, ZenonT(40) DEF RingFits
  <2> QED BY <1>2, <1>3, <1>7, <2>1, EntrySlot, Zenon
<1>9. /\ devWork \in Seq(Slots(d)) /\ devWork' \in Seq(Slots(d))
      /\ Len(devWork) \in Nat /\ Len(devWork') = Len(devWork) + 1
      /\ devWork'[Len(devWork) + 1] = head[t]
      /\ \A i \in 1 .. Len(devWork) : devWork'[i] = devWork[i]
  <2>1. Typed(d) /\ devWork' = Append(devWork, availRing[ToElemIndex(devSeen)])
    BY <1>1, <1>2, Zenon
  <2>2. devWork \in Seq(Slots(d)) /\ devWork' = Append(devWork, head[t])
    BY <1>8, <2>1, Zenon DEF Typed
  <2> QED BY <1>7, <2>2, SMTT(30), SMTT(60)
<1>10. Typed(d)'
  <2>1. devSeen' \in Nat
    BY <1>3, <1>4, SMTT(30), SMTT(60)
  <2>2. Typed(d)
    BY <1>2, Zenon
  <2> QED BY <1>1, <1>9, <2>1, <2>2, ZenonT(40) DEF Typed
<1>11. ASSUME NEW u \in Tasks
       PROVE  TaskFits(d, u, num[u], own[u])' /\ (Busy(u)' <=> Busy(u))
  <2>1. TaskFits(d, u, num[u], own[u]) /\ (Busy(u) => own[u] # None)
    BY <1>2, Zenon
  <2>2. Busy(u) => num[u] < sent' /\ sent' <= num[u] + Room(d)
    BY <1>1, <2>1, Zenon DEF TaskFits
  <2>3. own[u] # None => mem'[own[u]] # None
    BY <1>1, <2>1, Zenon DEF TaskFits
  <2> QED BY <1>1, <2>1, <2>2, <2>3, TaskKept, Zenon
<1>12. OwnersFit(num, own)'
  BY <1>1, <1>2, <1>11, Zenon DEF OwnersFit
<1>13. LockFits(num)'
  <2>1. ToElemIndex(availIdx)' = ToElemIndex(availIdx)
    BY <1>1, Zenon DEF ToElemIndex, QueueSize
  <2> QED BY <1>1, <1>2, <2>1, Zenon DEF LockFits
<1>14. RingFits(d, num)'
  <2>1. \A j \in devSeen + 1 .. availIdx - 1 : j \in devSeen .. availIdx - 1
    BY <1>3, SMTT(30), SMTT(60)
  <2> QED BY <1>1, <1>2, <1>4, <1>11, <2>1, Zenon DEF RingFits
<1>15. \A u \in Tasks : Busy(u) /\ num[u] < devSeen => head[u] # head[t]
  <2> SUFFICES ASSUME NEW u \in Tasks, Busy(u), num[u] < devSeen PROVE head[u] # head[t]
    BY Zenon
  <2>1. u # t
    <3>1. num[t] = devSeen
      BY <1>6, Zenon
    <3> QED BY <1>3, <3>1, SMTT(30), SMTT(60)
  <2>2. TaskFits(d, u, num[u], own[u]) /\ TaskFits(d, t, num[t], own[t])
    BY <1>2, Zenon
  <2>3. Typed(d) /\ OwnersFit(num, own) /\ Busy(t)
    BY <1>2, <1>6, ZenonT(40)
  <2> QED BY <2>1, <2>2, <2>3, HeadsApart, Zenon
<1>16. \A u \in Tasks : num[u] < devSeen => num[u] < devSeen'
  BY <1>2, <1>3, <1>4, SMTT(30), SMTT(60)
<1>17. WorkFits(d, num)'
  <2>1. Len(devWork') = devSeen' - usedIdx'
    BY <1>1, <1>2, <1>3, <1>4, <1>9, SMTT(30), SMTT(60) DEF WorkFits
  <2> SUFFICES ASSUME NEW i \in 1 .. Len(devWork')
               PROVE  /\ \E u \in Tasks : Busy(u) /\ num[u] < devSeen' /\ devWork'[i] = head[u]
                      /\ \A j \in 1 .. Len(devWork') : devWork'[i] = devWork'[j] => i = j
                      /\ d.inOrder => devWork'[i] = At(d, usedIdx + i - 1, 1)
    BY <1>1, <1>11, <2>1, ZenonT(40) DEF WorkFits
  <2>2. \A j \in 1 .. Len(devWork') : j \in 1 .. Len(devWork) \/ j = Len(devWork) + 1
    BY <1>9, SMTT(30), SMTT(60)
  <2>3. ASSUME NEW j \in 1 .. Len(devWork)
        PROVE  devWork'[j] = devWork[j] /\ devWork[j] # head[t]
    <3>1. PICK u \in Tasks : Busy(u) /\ num[u] < devSeen /\ devWork[j] = head[u]
      BY <1>2, Zenon DEF WorkFits
    <3> QED BY <1>9, <1>15, <3>1, Zenon
  <2>4. CASE i \in 1 .. Len(devWork)
    <3>0. \A j \in 1 .. Len(devWork) : devWork[i] = devWork[j] => i = j
      BY <1>2, <2>4, Zenon DEF WorkFits
    <3>1. \A j \in 1 .. Len(devWork') : devWork'[i] = devWork'[j] => i = j
      BY <1>9, <2>2, <2>3, <2>4, <3>0, Zenon
    <3>2. PICK u \in Tasks : Busy(u) /\ num[u] < devSeen /\ devWork[i] = head[u]
      BY <1>2, <2>4, Zenon DEF WorkFits
    <3>3. Busy(u) /\ num[u] < devSeen' /\ devWork'[i] = head[u]
      BY <1>16, <2>3, <2>4, <3>2, Zenon
    <3>4. d.inOrder => devWork'[i] = At(d, usedIdx + i - 1, 1)
      BY <1>2, <2>3, <2>4, Zenon DEF WorkFits
    <3> QED BY <3>1, <3>3, <3>4, Zenon
  <2>5. CASE i = Len(devWork) + 1
    <3>1. \A j \in 1 .. Len(devWork') : devWork'[i] = devWork'[j] => i = j
      BY <1>9, <2>2, <2>3, <2>5, ZenonT(40)
    <3>2. num[t] < devSeen' /\ usedIdx + i - 1 = devSeen
      <4>1. Len(devWork) = devSeen - usedIdx /\ num[t] = devSeen
        BY <1>2, <1>6, Zenon DEF WorkFits
      <4> QED BY ONLY <1>3, <1>4, <2>5, <4>1, SMTT(30), SMTT(60)
    <3> QED BY <1>6, <1>7, <1>9, <2>5, <3>1, <3>2, Zenon
  <2> QED BY <2>2, <2>4, <2>5, ZenonT(40)
<1>18. UsedFits(d, num, own)'
  <2> SUFFICES ASSUME NEW j \in lastProcessed .. usedIdx - 1
               PROVE  (/\ \E u \in Tasks :
                            /\ Busy(u) /\ num[u] < devSeen /\ usedRing[j % d.size].id = head[u]
                            /\ \A i \in 1 .. Len(devWork) : devWork[i] # head[u]
                            /\ Done(req[u], own[u], usedRing[j % d.size].len)
                       /\ d.inOrder => usedRing[j % d.size].id = At(d, j, 1))'
    BY <1>1, Zenon DEF UsedFits
  <2>1. PICK u \in Tasks :
          /\ Busy(u) /\ num[u] < devSeen /\ usedRing[j % d.size].id = head[u]
          /\ \A i \in 1 .. Len(devWork) : devWork[i] # head[u]
          /\ Done(req[u], own[u], usedRing[j % d.size].len)
    BY <1>2, Zenon DEF UsedFits
  <2>2. \A i \in 1 .. Len(devWork') : i \in 1 .. Len(devWork) \/ i = Len(devWork) + 1
    BY <1>9, SMTT(30), SMTT(60)
  <2>3. \A i \in 1 .. Len(devWork') : devWork'[i] # head[u]
    BY <1>9, <1>15, <2>1, <2>2, Zenon
  <2>4. Done(req[u], own[u], usedRing[j % d.size].len)'
    BY <1>1, <2>1, Zenon DEF Done
  <2>5. d.inOrder => usedRing[j % d.size].id = At(d, j, 1)
    BY <1>2, Zenon DEF UsedFits
  <2> QED BY <1>1, <1>11, <1>16, <2>1, <2>3, <2>4, <2>5, Zenon
<1>19. OrderFits(d, num)'
  BY <1>1, <1>2, <1>11, Zenon DEF OrderFits
<1>20. \A u \in Tasks : Busy(u)' /\ pc'[u] = "waiting" => num[u] < availIdx'
  <2>1. \A u \in Tasks : Busy(u) /\ pc[u] = "waiting" => num[u] < availIdx
    BY <1>0, Unpack, ZenonT(40)
  <2> QED BY <1>1, <1>11, <2>1, Zenon
<1>21. Flow(d, num, own)'
  <2>1. usedIdx' <= devSeen' /\ devSeen' <= availIdx'
    BY <1>0, <1>1, <1>3, <1>4, SMTT(30), SMTT(60)
  <2> QED BY <1>1, <1>3, <1>13, <1>14, <1>17, <1>18, <1>19, <1>20, <2>1, Zenon DEF Flow
<1> QED BY <1>0, <1>1, <1>10, <1>11, <1>12, <1>21, Zenon DEF Fits, PanicOnlyOnDeviceError

(* What a request's descriptors, data and buffer say, as the device and    *)
(* the handlers read them.                                                 *)
RngAt(h, r, b) ==
  /\ desc[h].next = FALSE /\ Following(h) = None
  /\ desc[h].elem.buf = b /\ desc[h].elem.len = r.amount

BlockAt(h, r, b) ==
  /\ desc[h].next = TRUE
  /\ desc[h].elem.buf = b /\ desc[h].elem.len = HeaderSize
  /\ desc[desc[h].to].elem.len = DataLen(r)
  /\ Following(h) # None /\ Following(Following(h)) # None
  /\ Following(Following(Following(h))) = None
  /\ desc[Following(h)].elem.len = DataLen(r)
  /\ desc[Following(Following(h))].elem.len = 1
  /\ desc[Following(Following(h))].elem.buf = b

HeldFor(t, h, r, b) ==
  /\ b \in Buffers /\ b # None /\ mem[b] # None /\ mem[b].type = r.type /\ mem[b].sector = r.sector
  /\ data[h] # None /\ data[h].task = t /\ data[h].buf = b

LEMMA RngParts ==
  ASSUME QueueConstants, NEW d \in Devices, NEW n \in Nat, NEW r, NEW b, ChainFits(d, n, r, b),
         r.type = "Rng", d.driver = "rng"
  PROVE  RngAt(At(d, n, 1), r, b)
<1>1. ChainLen(d) = 1
  BY Zenon DEF ChainLen
<1>2. 1 \in 1 .. ChainLen(d)
  BY <1>1, SMTT(30), SMTT(60)
<1>3. desc[At(d, n, 1)].elem = Chain(r, b)[1] /\ desc[At(d, n, 1)].next = FALSE
  BY <1>1, <1>2, Zenon DEF ChainFits
<1>4. DataLen(r) = r.amount
  BY ZenonT(60) DEF DataLen
<1>5. Chain(r, b)[1] = [buf |-> b, off |-> 0, len |-> r.amount]
  BY <1>4, ZenonT(60) DEF Chain, RngChain, Elem
<1>6. desc[At(d, n, 1)].elem.buf = b /\ desc[At(d, n, 1)].elem.len = r.amount
  BY <1>3, <1>5, SMTT(30), SMTT(60)
<1>7. Following(At(d, n, 1)) = None
  BY <1>1, ChainWalk, Zenon
<1> QED BY <1>3, <1>6, <1>7, Zenon DEF RngAt

LEMMA BlockParts ==
  ASSUME QueueConstants, NEW d \in Devices, NEW n \in Nat, NEW r, NEW b, ChainFits(d, n, r, b),
         r.type # "Rng", d.driver # "rng"
  PROVE  BlockAt(At(d, n, 1), r, b)
<1>1. ChainLen(d) = 3
  BY Zenon DEF ChainLen
<1>2. /\ 1 \in 1 .. ChainLen(d) /\ 2 \in 1 .. ChainLen(d) /\ 3 \in 1 .. ChainLen(d)
      /\ 1 < ChainLen(d) /\ 1 + 1 = 2
  BY <1>1, SMTT(30), SMTT(60)
<1>3. desc[At(d, n, 1)].elem = Chain(r, b)[1] /\ desc[At(d, n, 1)].next = TRUE
  BY <1>2, Zenon DEF ChainFits
<1>4. desc[At(d, n, 1)].to = At(d, n, 2)
  <2>1. desc[At(d, n, 1)].to = At(d, n, 1 + 1)
    BY <1>2, Zenon DEF ChainFits
  <2> QED BY <1>2, <2>1, Zenon
<1>5. desc[At(d, n, 2)].elem = Chain(r, b)[2] /\ desc[At(d, n, 3)].elem = Chain(r, b)[3]
  BY <1>2, Zenon DEF ChainFits
<1>6. /\ Chain(r, b)[1] = [buf |-> b, off |-> HeaderOffset(r), len |-> HeaderSize]
      /\ Chain(r, b)[2] = [buf |-> b, off |-> 0, len |-> DataLen(r)]
      /\ Chain(r, b)[3] = [buf |-> b, off |-> StatusOffset(r), len |-> 1]
  BY ZenonT(60) DEF Chain, BlockChain, Elem
<1>7. /\ desc[At(d, n, 1)].elem.buf = b /\ desc[At(d, n, 1)].elem.len = HeaderSize
      /\ desc[At(d, n, 2)].elem.len = DataLen(r)
      /\ desc[At(d, n, 3)].elem.buf = b /\ desc[At(d, n, 3)].elem.len = 1
  BY <1>3, <1>5, <1>6, SMTT(30), SMTT(60)
<1>8. /\ Following(At(d, n, 1)) = At(d, n, 2) /\ Following(At(d, n, 2)) = At(d, n, 3)
      /\ Following(At(d, n, 3)) = None
  BY <1>1, ChainWalk, Zenon
<1>9. At(d, n, 2) # None /\ At(d, n, 3) # None
  <2>1. At(d, n, 2) \in Nat /\ At(d, n, 3) \in Nat
    BY <1>2, AtSlot, Zenon
  <2> QED BY <2>1, Zenon DEF QueueConstants
<1> QED BY <1>3, <1>4, <1>7, <1>8, <1>9, Zenon DEF BlockAt

LEMMA BusyChain ==
  ASSUME QueueConstants, NEW d \in Devices, NEW t \in Tasks, NEW n \in Nat, NEW b,
         TaskFits(d, t, n, b), Busy(t)
  PROVE  /\ req[t] \in Requests /\ req[t].type \in Types /\ req[t].amount \in Nat
         /\ req[t].type = "Rng" => RngAt(head[t], req[t], b)
         /\ req[t].type # "Rng" => BlockAt(head[t], req[t], b)
         /\ HeldFor(t, head[t], req[t], b)
<1>1. pc[t] # "idle"
  BY Zenon DEF Busy
<1>2. req[t] \in Requests /\ (req[t].type = "Rng" <=> d.driver = "rng")
  BY <1>1, Zenon DEF TaskFits
<1>3. /\ ChainFits(d, n, req[t], b) /\ head[t] = At(d, n, 1)
      /\ b \in Buffers /\ mem[b].type = req[t].type /\ mem[b].sector = req[t].sector
      /\ data[head[t]] = [task |-> t, buf |-> b]
  BY Zenon DEF TaskFits
<1>4. req[t].type \in Types /\ req[t].amount \in Nat /\ b # None
  BY <1>2, <1>3, Zenon DEF QueueConstants
<1>5. mem[b] # None
  BY <1>4, Zenon DEF TaskFits
<1>6. data[head[t]].task = t /\ data[head[t]].buf = b /\ data[head[t]] \in Entries
  BY <1>3, SMTT(30), SMTT(60) DEF Entries
<1>7. data[head[t]] # None
  BY <1>6, Zenon DEF QueueConstants
<1>8. HeldFor(t, head[t], req[t], b)
  BY <1>3, <1>4, <1>5, <1>6, <1>7, Zenon DEF HeldFor
<1>9. ASSUME req[t].type = "Rng" PROVE RngAt(head[t], req[t], b)
  BY <1>2, <1>3, <1>9, RngParts, Zenon
<1>10. ASSUME req[t].type # "Rng" PROVE BlockAt(head[t], req[t], b)
  BY <1>2, <1>3, <1>10, BlockParts, Zenon
<1> QED BY <1>2, <1>4, <1>8, <1>9, <1>10, Zenon

FitsInto(c2, c, s, p) ==
  /\ c2 \in Contents /\ c2.type = c.type /\ c2.sector = c.sector
  /\ c2.payload = p /\ c2.status = s

LEMMA Rewritten ==
  ASSUME NEW c \in Contents, NEW s \in Statuses \cup {"Unset"}, NEW p \in Payloads
  PROVE  FitsInto([c EXCEPT !.status = s, !.payload = p], c, s, p)
<1> DEFINE U == Statuses \cup {"Unset"}
           c1 == [c EXCEPT !.status = s]
           c2 == [c1 EXCEPT !.payload = p]
<1>0. s \in U /\ c \in [type : Types, sector : Sectors, status : U, payload : Payloads]
  BY DEF Contents
<1> HIDE DEF U
<1>1. c1 \in [type : Types, sector : Sectors, status : U, payload : Payloads]
  BY ONLY <1>0, ZenonT(60)
<1>2. c1.type = c.type /\ c1.sector = c.sector /\ c1.status = s
  BY ONLY <1>0, ZenonT(60)
<1>3. c2 = [c EXCEPT !.status = s, !.payload = p]
  OBVIOUS
<1> HIDE DEF c1
<1>4. c2 \in [type : Types, sector : Sectors, status : U, payload : Payloads]
  BY ONLY <1>1, p \in Payloads, ZenonT(60)
<1>5. c2.type = c1.type /\ c2.sector = c1.sector /\ c2.status = c1.status /\ c2.payload = p
  BY ONLY <1>1, ZenonT(60)
<1> HIDE DEF c2
<1>6. FitsInto(c2, c, s, p)
  BY <1>2, <1>4, <1>5, Zenon DEF FitsInto, Contents, U
<1> QED BY <1>3, <1>6, Zenon

Without(s, n, r, S) ==
  /\ r \in Seq(S) /\ Len(r) = Len(s) - 1
  /\ \A i \in 1 .. Len(s) - 1 : r[i] = IF i < n THEN s[i] ELSE s[i + 1]

LEMMA RemoveAt ==
  ASSUME NEW S, NEW s \in Seq(S), NEW n \in 1 .. Len(s), NEW r,
         r = SubSeq(s, 1, n - 1) \o SubSeq(s, n + 1, Len(s))
  PROVE  Without(s, n, r, S)
<1> DEFINE a == SubSeq(s, 1, n - 1)
           b == SubSeq(s, n + 1, Len(s))
<1>1. a \in Seq(S) /\ b \in Seq(S)
  BY SMTT(30), SMTT(60)
<1>2. Len(a) = n - 1 /\ Len(b) = Len(s) - n
  BY SMTT(30), SMTT(60)
<1>3. \A i \in 1 .. n - 1 : a[i] = s[i]
  BY SMTT(30), SMTT(60)
<1>4. \A i \in 1 .. Len(s) - n : b[i] = s[n + i]
  BY SMTT(30), SMTT(60)
<1>0. s \in Seq(S) /\ n \in Nat /\ 1 <= n /\ n <= Len(s) /\ Len(s) \in Nat
  BY SMTT(30), SMTT(60)
<1> HIDE DEF a, b
<1>5. r = a \o b
  BY DEF a, b
<1>6. r \in Seq(S) /\ Len(r) = Len(s) - 1
  <2>1. a \o b \in Seq(S) /\ Len(a \o b) = Len(a) + Len(b)
    BY ONLY <1>1, SMTT(30), SMTT(60)
  <2>2. Len(a) + Len(b) = Len(s) - 1
    BY ONLY <1>0, <1>2, SMTT(30), SMTT(60)
  <2> QED BY <1>5, <2>1, <2>2, Zenon
<1>7. ASSUME NEW i \in 1 .. Len(s) - 1
      PROVE  r[i] = IF i < n THEN s[i] ELSE s[i + 1]
  <2>0. i \in Nat /\ 1 <= i /\ i <= Len(s) - 1
    BY ONLY <1>0, i \in 1 .. Len(s) - 1, SMTT(30), SMTT(60)
  <2>1. CASE i < n
    <3>0. i \in 1 .. Len(a)
      BY ONLY <1>0, <1>2, <2>0, <2>1, SMTT(30), SMTT(60)
    <3>1. r[i] = a[i]
      BY ONLY <1>1, <1>5, <3>0, SMTT(30), SMTT(60)
    <3> QED BY ONLY <1>0, <1>3, <2>0, <2>1, <3>1, SMTT(30), SMTT(60)
  <2>2. CASE ~(i < n)
    <3>0. i \in Len(a) + 1 .. Len(a) + Len(b) /\ i - Len(a) = i - (n - 1)
      BY ONLY <1>0, <1>2, <2>0, <2>2, SMTT(30), SMTT(60)
    <3>1. r[i] = b[i - (n - 1)]
      <4>1. (a \o b)[i] = b[i - Len(a)]
        BY ONLY <1>1, <3>0, SMTT(30), SMTT(60)
      <4> QED BY <1>5, <3>0, <4>1, Zenon
    <3>2. b[i - (n - 1)] = s[n + (i - (n - 1))]
      BY ONLY <1>0, <1>4, <2>0, <2>2, SMTT(30), SMTT(60)
    <3> QED BY ONLY <1>0, <2>0, <2>2, <3>1, <3>2, SMTT(30), SMTT(60)
  <2> QED BY <2>1, <2>2, Zenon
<1> QED BY <1>6, <1>7, Zenon DEF Without

LEMMA DeviceCompleteFits ==
  ASSUME QueueConstants, NEW d \in Devices, NEW num \in [Tasks -> Nat],
         NEW own \in [Tasks -> Buffers \cup {None}], Fits(d, num, own),
         NEW n \in DOMAIN devWork, NEW status \in Statuses, NEW written,
         DeviceComplete(n, status, written)
  PROVE  Fits(d, num, own)'
<1>0. ~panicked
  BY Zenon DEF DeviceComplete
<1>2. /\ Typed(d) /\ OwnersFit(num, own)
      /\ \A u \in Tasks : TaskFits(d, u, num[u], own[u])
      /\ \A u \in Tasks : num[u] \in Nat
      /\ \A u \in Tasks : Busy(u) => own[u] # None /\ own[u] \in Buffers
      /\ LockFits(num) /\ RingFits(d, num) /\ WorkFits(d, num)
      /\ UsedFits(d, num, own) /\ OrderFits(d, num)
  BY <1>0, Unpack, ZenonT(40)
<1>3. /\ sent \in Nat /\ availIdx \in Nat /\ usedIdx \in Nat /\ devSeen \in Nat
      /\ lastProcessed \in Nat /\ Room(d) \in Nat /\ d.maxRequests \in Nat
      /\ lastProcessed <= usedIdx /\ usedIdx <= devSeen /\ devSeen <= availIdx
      /\ availIdx <= sent /\ sent <= d.maxRequests /\ sent - lastProcessed <= Room(d)
  BY <1>0, Unpack, ZenonT(40)
<1>4. /\ devWork \in Seq(Slots(d)) /\ Len(devWork) \in Nat /\ n \in 1 .. Len(devWork)
      /\ devWork[n] \in Slots(d) /\ device = d
  BY <1>2, SMTT(30), SMTT(60) DEF Typed
<1>5. PICK t \in Tasks : Busy(t) /\ num[t] < devSeen /\ devWork[n] = head[t]
  BY <1>2, <1>4, Zenon DEF WorkFits
<1>6. TaskFits(d, t, num[t], own[t]) /\ num[t] \in Nat /\ Busy(t)
  BY <1>2, <1>5, Zenon
<1>7. /\ req[t] \in Requests /\ req[t].type \in Types /\ req[t].amount \in Nat
      /\ req[t].type = "Rng" => RngAt(head[t], req[t], own[t])
      /\ req[t].type # "Rng" => BlockAt(head[t], req[t], own[t])
      /\ HeldFor(t, head[t], req[t], own[t])
  BY <1>6, BusyChain, Zenon
<1>8. /\ own[t] \in Buffers /\ own[t] # None
      /\ mem[own[t]] # None /\ mem[own[t]].type = req[t].type
      /\ mem[own[t]].sector = req[t].sector
      /\ req[t].type = "Rng" => /\ desc[head[t]].next = FALSE
                                /\ desc[head[t]].elem.len = req[t].amount
      /\ req[t].type # "Rng" => desc[head[t]].next = TRUE
      /\ desc[head[t]].elem.buf = own[t]
  BY <1>7, Zenon DEF HeldFor, RngAt, BlockAt
<1> DEFINE b == own[t]
           r == req[t]
<1>9. /\ mem' = [mem EXCEPT ![b] =
             [mem[b] EXCEPT
                !.status = IF ~desc[head[t]].next THEN mem[b].status ELSE status,
                !.payload = IF mem[b].type = "Out" THEN mem[b].payload ELSE mem[b].sector]]
      /\ usedRing' = [usedRing EXCEPT ![ToElemIndex(usedIdx)] = [id |-> head[t], len |-> written]]
      /\ usedIdx' = Increment(usedIdx)
      /\ devWork' = SubSeq(devWork, 1, n - 1) \o SubSeq(devWork, n + 1, Len(devWork))
  <2> DEFINE h == devWork[n]
             e == desc[h].elem.buf
  <2>1. /\ mem' = [mem EXCEPT ![e] =
             [mem[e] EXCEPT
                !.status = IF ~desc[h].next THEN mem[e].status ELSE status,
                !.payload = IF mem[e].type = "Out" THEN mem[e].payload ELSE mem[e].sector]]
        /\ usedRing' = [usedRing EXCEPT ![ToElemIndex(usedIdx)] = [id |-> h, len |-> written]]
        /\ usedIdx' = Increment(usedIdx)
        /\ devWork' = SubSeq(devWork, 1, n - 1) \o SubSeq(devWork, n + 1, Len(devWork))
    BY Zenon DEF DeviceComplete
  <2>2. h = head[t] /\ e = b
    BY <1>5, <1>8, Zenon
  <2> HIDE DEF h, e
  <2> QED BY <2>1, <2>2, Zenon
<1> HIDE DEF b, r
<1>10. /\ d.inOrder => n = 1
       /\ written \in 0 .. desc[head[t]].elem.len
       /\ (desc[head[t]].next => written = 0)
  BY <1>4, <1>5, Zenon DEF DeviceComplete
<1>11. /\ device' = device /\ rawNextIndex' = rawNextIndex /\ desc' = desc
       /\ availIdx' = availIdx /\ availRing' = availRing
       /\ lastProcessed' = lastProcessed /\ data' = data /\ devSeen' = devSeen
       /\ lock' = lock /\ pc' = pc /\ req' = req /\ head' = head
       /\ channel' = channel /\ sent' = sent /\ panicked' = panicked
  <2>1. UNCHANGED <<device, driverVars, taskVars, devSeen, lock, panicked>>
    BY Zenon DEF DeviceComplete
  <2> QED BY ONLY <2>1, ZenonT(60) DEF driverVars, taskVars
<1>12. usedIdx' = usedIdx + 1 /\ usedIdx < devSeen
  <2>1. usedIdx < devSeen /\ usedIdx < d.maxRequests
    <3>1. Len(devWork) = devSeen - usedIdx
      BY <1>2, Zenon DEF WorkFits
    <3> QED BY ONLY <1>3, <1>4, <3>1, SMTT(30), SMTT(60)
  <2> QED BY <1>3, <1>9, <2>1, NoWrap, ZenonT(40)
<1>13. /\ mem' \in [Buffers -> Contents \cup {None}]
       /\ \A x \in Buffers : x # b => mem'[x] = mem[x]
       /\ mem'[b] # None /\ mem'[b].type = mem[b].type /\ mem'[b].sector = mem[b].sector
       /\ r.type # "Out" => mem'[b].payload = r.sector
       /\ r.type # "Rng" => mem'[b].status = status
  <2> DEFINE s2 == IF ~desc[head[t]].next THEN mem[b].status ELSE status
             p2 == IF mem[b].type = "Out" THEN mem[b].payload ELSE mem[b].sector
  <2>1. mem \in [Buffers -> Contents \cup {None}] /\ b \in Buffers /\ mem[b] \in Contents
    <3>1. mem \in [Buffers -> Contents \cup {None}]
      BY <1>2, Zenon DEF Typed
    <3>2. b \in Buffers /\ mem[b] # None
      BY <1>8, Zenon DEF b
    <3> QED BY <3>1, <3>2, ZenonT(60)
  <2>2. /\ mem[b].sector \in Sectors /\ mem[b].payload \in Payloads
        /\ mem[b].status \in Statuses \cup {"Unset"}
    BY <2>1, ZenonT(60) DEF Contents
  <2>3. s2 \in Statuses \cup {"Unset"} /\ p2 \in Payloads
    BY <2>2, Zenon DEF Payloads
  <2>4. r.type # "Out" => p2 = r.sector
    BY <1>8, Zenon DEF b, r
  <2>5. r.type # "Rng" => s2 = status
    BY <1>8, Zenon DEF r
  <2>6. mem' = [mem EXCEPT ![b] = [mem[b] EXCEPT !.status = s2, !.payload = p2]]
    BY <1>9, Zenon
  <2> HIDE DEF s2, p2
  <2> DEFINE c2 == [mem[b] EXCEPT !.status = s2, !.payload = p2]
  <2>7. mem' = [mem EXCEPT ![b] = c2]
    BY <2>6, Zenon
  <2>8. /\ c2 \in Contents /\ c2.type = mem[b].type /\ c2.sector = mem[b].sector
        /\ c2.payload = p2 /\ c2.status = s2
    <3>1. FitsInto(c2, mem[b], s2, p2)
      BY <2>1, <2>3, Rewritten, Zenon
    <3> QED BY <3>1, Zenon DEF FitsInto
  <2> HIDE DEF c2
  <2>9. /\ mem' \in [Buffers -> Contents \cup {None}] /\ mem'[b] = c2
        /\ \A x \in Buffers : x # b => mem'[x] = mem[x]
    BY <2>1, <2>7, <2>8, ZenonT(60)
  <2>10. mem'[b] # None
    BY <2>8, <2>9, Zenon DEF QueueConstants
  <2> QED BY <2>4, <2>5, <2>8, <2>9, <2>10, Zenon
<1>14. /\ devWork' \in Seq(Slots(d)) /\ Len(devWork') = Len(devWork) - 1
       /\ \A i \in 1 .. Len(devWork') : devWork'[i] = IF i < n THEN devWork[i] ELSE devWork[i + 1]
  <2>0. Without(devWork, n, devWork', Slots(d))
    BY <1>4, <1>9, RemoveAt, Zenon
  <2>1. /\ devWork' \in Seq(Slots(d)) /\ Len(devWork') = Len(devWork) - 1
        /\ \A i \in 1 .. Len(devWork) - 1 :
             devWork'[i] = IF i < n THEN devWork[i] ELSE devWork[i + 1]
    BY <2>0, Zenon DEF Without
  <2> QED BY <2>1, Zenon
<1>15. \A i \in 1 .. Len(devWork') :
         \E k \in 1 .. Len(devWork) : /\ k # n /\ devWork'[i] = devWork[k]
                                      /\ k = IF i < n THEN i ELSE i + 1
  BY <1>4, <1>14, SMTT(30), SMTT(60)
<1>16. /\ ToElemIndex(usedIdx) = usedIdx % d.size /\ usedIdx % d.size \in Slots(d)
       /\ written \in Nat /\ (r.type = "Rng" => written <= r.amount)
  <2>1. ToElemIndex(usedIdx) = usedIdx % d.size /\ usedIdx % d.size \in Slots(d)
    BY <1>2, <1>3, EntrySlot, Zenon
  <2>2. CASE r.type = "Rng"
    <3>1. written \in 0 .. r.amount /\ r.amount \in Nat
      BY <1>7, <1>8, <1>10, <2>2, Zenon DEF r
    <3> QED BY <2>1, <3>1, SMTT(30), SMTT(60)
  <2>3. CASE r.type # "Rng"
    <3>1. written = 0
      BY <1>8, <1>10, <2>3, Zenon DEF r
    <3> QED BY <2>1, <2>3, <3>1, ZenonT(60)
  <2> QED BY <2>2, <2>3, Zenon
<1>17. /\ usedRing' \in [Slots(d) -> [id : Slots(d), len : Nat]]
       /\ usedRing'[usedIdx % d.size].id = head[t] /\ usedRing'[usedIdx % d.size].len = written
       /\ \A i \in Slots(d) : i # usedIdx % d.size => usedRing'[i] = usedRing[i]
  <2>1. usedRing \in [Slots(d) -> [id : Slots(d), len : Nat]] /\ head[t] \in Slots(d)
    BY <1>2, <1>4, <1>5, Zenon DEF Typed
  <2> DEFINE x == usedIdx % d.size
  <2>2. usedRing' = [usedRing EXCEPT ![x] = [id |-> head[t], len |-> written]] /\ x \in Slots(d)
    BY <1>9, <1>16, Zenon
  <2> HIDE DEF x
  <2>3. /\ usedRing' \in [Slots(d) -> [id : Slots(d), len : Nat]]
        /\ usedRing'[x].id = head[t] /\ usedRing'[x].len = written
        /\ \A i \in Slots(d) : i # x => usedRing'[i] = usedRing[i]
    BY <1>16, <2>1, <2>2, ZenonT(60)
  <2> QED BY <2>3 DEF x
<1>18. Typed(d)'
  <2>1. usedIdx' \in Nat
    BY <1>3, <1>12, SMTT(30), SMTT(60)
  <2> QED BY <1>2, <1>11, <1>13, <1>14, <1>17, <2>1, Zenon DEF Typed
<1>19. \A u \in Tasks : u # t /\ own[u] # None => own[u] \in Buffers /\ own[u] # b
  BY <1>2, Zenon DEF OwnersFit, b
<1>20. ASSUME NEW u \in Tasks
       PROVE  TaskFits(d, u, num[u], own[u])' /\ (Busy(u)' <=> Busy(u))
  <2>1. TaskFits(d, u, num[u], own[u]) /\ (Busy(u) => own[u] # None)
    BY <1>2, Zenon
  <2>2. Busy(u) => num[u] < sent' /\ sent' <= num[u] + Room(d)
    BY <1>11, <2>1, Zenon DEF TaskFits
  <2>3. own[u] # None => /\ mem'[own[u]] # None /\ mem'[own[u]].type = mem[own[u]].type
                         /\ mem'[own[u]].sector = mem[own[u]].sector
    <3>1. CASE u = t
      BY <1>13, <3>1, Zenon DEF b
    <3>2. CASE u # t
      <4>1. own[u] # None => mem[own[u]] # None
        BY <2>1, Zenon DEF TaskFits
      <4> QED BY <1>13, <1>19, <3>2, <4>1, Zenon
    <3> QED BY <3>1, <3>2, Zenon
  <2> QED BY <1>11, <2>1, <2>2, <2>3, TaskKept, Zenon
<1>21. OwnersFit(num, own)'
  BY <1>2, <1>11, <1>20, Zenon DEF OwnersFit
<1>22. LockFits(num)'
  <2>1. ToElemIndex(availIdx)' = ToElemIndex(availIdx)
    BY <1>11, Zenon DEF ToElemIndex, QueueSize
  <2> QED BY <1>2, <1>11, <2>1, Zenon DEF LockFits
<1>23. RingFits(d, num)'
  BY <1>2, <1>11, <1>20, Zenon DEF RingFits
<1>24. \A i, j \in 1 .. Len(devWork) : devWork[i] = devWork[j] => i = j
  BY <1>2, Zenon DEF WorkFits
<1>25. WorkFits(d, num)'
  <2>1. Len(devWork') = devSeen' - usedIdx'
    BY <1>2, <1>3, <1>4, <1>11, <1>12, <1>14, SMTT(30), SMTT(60) DEF WorkFits
  <2> SUFFICES ASSUME NEW i \in 1 .. Len(devWork')
               PROVE  /\ \E u \in Tasks : Busy(u) /\ num[u] < devSeen /\ devWork'[i] = head[u]
                      /\ \A j \in 1 .. Len(devWork') : devWork'[i] = devWork'[j] => i = j
                      /\ d.inOrder => devWork'[i] = At(d, usedIdx' + i - 1, 1)
    BY <1>11, <1>20, <2>1, Zenon DEF WorkFits
  <2>2. PICK k \in 1 .. Len(devWork) :
          k # n /\ devWork'[i] = devWork[k] /\ k = IF i < n THEN i ELSE i + 1
    BY <1>15, Zenon
  <2>3. \E u \in Tasks : Busy(u) /\ num[u] < devSeen /\ devWork'[i] = head[u]
    BY <1>2, <2>2, ZenonT(40) DEF WorkFits
  <2>4. ASSUME NEW j \in 1 .. Len(devWork'), devWork'[i] = devWork'[j] PROVE i = j
    <3>1. PICK l \in 1 .. Len(devWork) :
            l # n /\ devWork'[j] = devWork[l] /\ l = IF j < n THEN j ELSE j + 1
      BY <1>15, Zenon
    <3>2. k = l
      BY <1>24, <2>2, <2>4, <3>1, Zenon
    <3> QED BY <1>4, <1>14, <2>2, <3>1, <3>2, SMTT(30), SMTT(60)
  <2>5. ASSUME d.inOrder PROVE devWork'[i] = At(d, usedIdx' + i - 1, 1)
    <3>1. n = 1 /\ devWork[k] = At(d, usedIdx + k - 1, 1)
      BY <1>2, <1>10, <2>5, Zenon DEF WorkFits
    <3>2. i \in Nat /\ ~(i < 1)
      BY <1>4, <1>14, SMTT(30), SMTT(60)
    <3>3. k = i + 1
      BY <2>2, <3>1, <3>2, Zenon
    <3>4. usedIdx + k - 1 = usedIdx' + i - 1
      BY <1>3, <1>12, <3>2, <3>3, SMTT(30), SMTT(60)
    <3> QED BY <2>2, <3>1, <3>4, Zenon
  <2> QED BY <2>3, <2>4, <2>5, ZenonT(40)
<1>26. UsedFits(d, num, own)'
  <2> DEFINE Fine(j, u) ==
        /\ Busy(u) /\ num[u] < devSeen /\ usedRing[j % d.size].id = head[u]
        /\ \A i \in 1 .. Len(devWork) : devWork[i] # head[u]
        /\ Done(req[u], own[u], usedRing[j % d.size].len)
  <2> SUFFICES ASSUME NEW j \in lastProcessed .. usedIdx' - 1
               PROVE  /\ \E u \in Tasks : Fine(j, u)'
                      /\ d.inOrder => usedRing'[j % d.size].id = At(d, j, 1)
    BY <1>11, Zenon DEF UsedFits
  <2>1. CASE j = usedIdx
    <3>1. \A i \in 1 .. Len(devWork') : devWork'[i] # head[t]
      <4> SUFFICES ASSUME NEW i \in 1 .. Len(devWork'), devWork'[i] = head[t] PROVE FALSE
        BY Zenon
      <4>1. PICK k \in 1 .. Len(devWork) : k # n /\ devWork'[i] = devWork[k]
        BY <1>15, Zenon
      <4> QED BY <1>4, <1>5, <1>24, <4>1, Zenon
    <3>2. Done(req[t], own[t], usedRing[j % d.size].len)'
      <4>1. r.type # "Rng" => mem'[b].status \in Statuses
        BY <1>13, Zenon
      <4> QED BY <1>11, <1>13, <1>16, <1>17, <2>1, <4>1, Zenon DEF Done, b, r
    <3>3. Fine(j, t)'
      BY <1>5, <1>11, <1>17, <1>20, <2>1, <3>1, <3>2, Zenon
    <3>4. ASSUME d.inOrder PROVE usedRing'[j % d.size].id = At(d, j, 1)
      <4>1. n = 1 /\ devWork[n] = At(d, usedIdx + n - 1, 1)
        BY <1>2, <1>4, <1>10, <3>4, Zenon DEF WorkFits
      <4>2. usedIdx + 1 - 1 = usedIdx
        BY <1>3, SMTT(30), SMTT(60)
      <4> QED BY <1>5, <1>17, <2>1, <4>1, <4>2, Zenon
    <3> QED BY <3>3, <3>4, Zenon
  <2>2. CASE j \in lastProcessed .. usedIdx - 1
    <3>1. PICK u \in Tasks : Fine(j, u)
      BY <1>2, <2>2, Zenon DEF UsedFits
    <3>2. j \in Nat /\ j < usedIdx /\ usedIdx - j < Room(d)
      BY <1>3, <1>12, <2>2, SMTT(30), SMTT(60)
    <3>3. j % d.size # usedIdx % d.size /\ j % d.size \in Slots(d)
      BY <1>2, <1>3, <3>2, EntriesApart, EntrySlot, Zenon
    <3>4. usedRing'[j % d.size] = usedRing[j % d.size]
      BY <1>17, <3>3, Zenon
    <3>5. u # t
      BY <1>4, <1>5, <3>1, Zenon
    <3>6. mem'[own[u]] = mem[own[u]]
      BY <1>2, <1>13, <1>19, <3>1, <3>5, Zenon
    <3>7. Done(req[u], own[u], usedRing[j % d.size].len)'
      BY <1>11, <3>1, <3>4, <3>6, Zenon DEF Done
    <3>8. \A i \in 1 .. Len(devWork') : devWork'[i] # head[u]
      BY <1>15, <3>1, Zenon
    <3>9. d.inOrder => usedRing[j % d.size].id = At(d, j, 1)
      BY <1>2, <2>2, Zenon DEF UsedFits
    <3>10. Fine(j, u)'
      BY <1>11, <1>20, <3>1, <3>4, <3>7, <3>8, Zenon
    <3> QED BY <3>4, <3>9, <3>10, Zenon
  <2>3. j = usedIdx \/ j \in lastProcessed .. usedIdx - 1
    BY <1>3, <1>12, SMTT(30), SMTT(60)
  <2> QED BY <2>1, <2>2, <2>3, Zenon
<1>27. OrderFits(d, num)'
  BY <1>2, <1>11, <1>20, Zenon DEF OrderFits
<1>28. \A u \in Tasks : Busy(u)' /\ pc'[u] = "waiting" => num[u] < availIdx'
  <2>1. \A u \in Tasks : Busy(u) /\ pc[u] = "waiting" => num[u] < availIdx
    BY <1>0, Unpack, ZenonT(40)
  <2> QED BY <1>11, <1>20, <2>1, Zenon
<1>29. Flow(d, num, own)'
  <2>1. lastProcessed' <= usedIdx' /\ usedIdx' <= devSeen'
    BY <1>3, <1>11, <1>12, SMTT(30), SMTT(60)
  <2> QED BY <1>3, <1>11, <1>22, <1>23, <1>25, <1>26, <1>27, <1>28, <2>1, Zenon DEF Flow
<1> QED BY <1>0, <1>11, <1>18, <1>20, <1>21, <1>29, Zenon DEF Fits, PanicOnlyOnDeviceError

-----------------------------------------------------------------------------
(* The handler *)

(* The lengths of a block request: whole sectors, and an aligned header.   *)
LEMMA Multiple ==
  ASSUME NEW k \in Nat
  PROVE  /\ k * 512 \in Nat /\ (k * 512) % 512 = 0 /\ (k * 512) % 8 = 0
BY SMTT(30), SMTT(60)

LEMMA Sectorwise ==
  ASSUME NEW r, r.amount \in Nat, r.type \in {"In", "Out"}
  PROVE  \E k \in Nat : DataLen(r) = k * 512
<1>1. CASE r.type = "In"
  <2>1. DataLen(r) = r.amount * 512
    BY <1>1, ZenonT(60) DEF DataLen, SectorSize
  <2> QED BY <2>1, ZenonT(60)
<1>2. CASE r.type = "Out"
  <2>1. DataLen(r) = ((r.amount + 512 - 1) \div 512) * 512
    BY <1>2, SMTT(30), SMTT(60) DEF DataLen, RoundToSectors, SectorSize
  <2>2. (r.amount + 512 - 1) \div 512 \in Nat
    BY SMTT(30), SMTT(60)
  <2> QED BY <2>1, <2>2, SMTT(30), SMTT(60)
<1> QED BY <1>1, <1>2, ZenonT(60)

LEMMA Lengths ==
  ASSUME NEW r, r.amount \in Nat, r.type \in Types, r.type # "Rng"
  PROVE  /\ DataLen(r) \in Nat /\ HeaderOffset(r) % HeaderAlign = 0
         /\ ~FromRawFails(r.type, DataLen(r))
<1>1. CASE r.type \in {"In", "Out"}
  <2>1. PICK k \in Nat : DataLen(r) = k * 512
    BY <1>1, Sectorwise, ZenonT(60)
  <2>2. DataLen(r) \in Nat /\ DataLen(r) % 512 = 0 /\ DataLen(r) % 8 = 0
    BY <2>1, Multiple, SMTT(30), SMTT(60)
  <2>3. HeaderOffset(r) = DataLen(r)
    BY <2>2, SMTT(30), SMTT(60) DEF HeaderOffset, HeaderAlign
  <2>4. ~FromRawFails(r.type, DataLen(r))
    BY <1>1, <2>2, ZenonT(60) DEF FromRawFails, SectorSize
  <2> QED BY <2>2, <2>3, <2>4, SMTT(30), SMTT(60) DEF HeaderAlign
<1>2. CASE r.type = "GetID"
  <2>1. DataLen(r) = 20
    BY <1>2, ZenonT(60) DEF DataLen
  <2>2. 20 % 8 = 4 /\ 24 % 8 = 0
    BY SMTT(30), SMTT(60)
  <2>3. HeaderOffset(r) = 24
    BY <2>1, <2>2, SMTT(30), SMTT(60) DEF HeaderOffset, HeaderAlign
  <2>4. ~FromRawFails(r.type, DataLen(r))
    BY <1>2, ZenonT(60) DEF FromRawFails
  <2> QED BY <2>1, <2>2, <2>3, <2>4, SMTT(30), SMTT(60) DEF HeaderAlign
<1> QED BY <1>1, <1>2, ZenonT(60) DEF Types

(* The handler stops the kernel only at a status that is not Ok.           *)
BadStatus(b) == b \in Buffers /\ mem[b] # None /\ mem[b].status \in Statuses \ {"Ok"}

LEMMA ItemOf ==
  ASSUME NEW h
  PROVE  /\ ChainItem(h, 1) = h /\ ChainItem(h, 2) = Following(h)
         /\ ChainItem(h, 3) = Following(Following(h))
         /\ ChainItem(h, 4) = Following(Following(Following(h)))
BY SMTT(30), SMTT(60) DEF ChainItem

LEMMA FailsOnStatus ==
  ASSUME QueueConstants, NEW d \in Devices, NEW t \in Tasks, NEW n \in Nat, NEW b,
         TaskFits(d, t, n, b), Busy(t), NEW u, u.id = head[t], NEW l, Done(req[t], b, l),
         EntryFails(u)
  PROVE  BadStatus(b)
<1> DEFINE h == head[t]
           r == req[t]
<1>1. /\ r \in Requests /\ r.type \in Types /\ r.amount \in Nat
      /\ r.type = "Rng" => RngAt(h, r, b)
      /\ r.type # "Rng" => BlockAt(h, r, b)
      /\ HeldFor(t, h, r, b)
  BY BusyChain, Zenon
<1>2. u.id = h /\ Done(r, b, l)
  BY Zenon
<1> HIDE DEF h, r
<1>3. /\ b \in Buffers /\ mem[b] # None /\ mem[b].type = r.type
      /\ IsRng(u) <=> r.type = "Rng"
  BY <1>1, <1>2, Zenon DEF HeldFor, IsRng
<1>4. CASE r.type = "Rng"
  <2>1. RngEntryFails(h)
    BY <1>2, <1>3, <1>4, Zenon DEF EntryFails
  <2>2. ChainItem(h, 2) = None
    BY <1>1, <1>4, ItemOf, Zenon DEF RngAt
  <2> QED BY <2>1, <2>2, Zenon DEF RngEntryFails
<1>5. CASE r.type # "Rng"
  <2>1. BlockEntryFails(h)
    BY <1>2, <1>3, <1>5, Zenon DEF EntryFails
  <2>2. BlockAt(h, r, b)
    BY <1>1, <1>5, Zenon
  <2> DEFINE i3 == ChainItem(h, 3)
  <2>3. /\ ChainItem(h, 1) = h /\ ChainItem(h, 2) # None /\ i3 # None /\ ChainItem(h, 4) = None
        /\ desc[ChainItem(h, 1)].elem.len = HeaderSize /\ desc[ChainItem(h, 1)].elem.buf = b
        /\ desc[ChainItem(h, 2)].elem.len = DataLen(r)
        /\ desc[i3].elem.len = 1 /\ desc[i3].elem.buf = b
    BY <2>2, ItemOf, Zenon DEF BlockAt
  <2>4. r.type \in RequestTypes /\ ~FromRawFails(r.type, DataLen(r))
    <3>1. r.type \in RequestTypes
      BY <1>1, <1>5, ZenonT(60) DEF Types, RequestTypes
    <3> QED BY <1>1, <1>5, <3>1, Lengths, Zenon
  <2>5. mem[b].status \notin StatusCodes \/ mem[b].status # "Ok"
    BY <1>3, <2>1, <2>3, <2>4, Zenon DEF BlockEntryFails, ChainFails
  <2>6. "Ok" \in StatusCodes /\ mem[b].status \in Statuses
    BY <1>2, <1>5, Zenon DEF StatusCodes, Done
  <2> QED BY <1>3, <2>5, <2>6, Zenon DEF BadStatus
<1> QED BY <1>4, <1>5, Zenon

(* The answer that the handler sends is one to the request of the chain,   *)
(* and keeps the buffer only for a read.                                   *)
Answering(resp, r, b) ==
  /\ resp \in Replies /\ resp.buf = IF r.type = "In" THEN b ELSE None
  /\ [type |-> resp.type, payload |-> resp.payload, len |-> resp.len] \in Answers(r)

Says(a, y, p, l, b) ==
  /\ a \in Replies /\ a.buf = b
  /\ [type |-> a.type, payload |-> a.payload, len |-> a.len]
       = [type |-> y, payload |-> p, len |-> l]

LEMMA ReplyParts ==
  ASSUME NEW y \in Types, NEW p \in Payloads, NEW l \in Nat, NEW b \in Buffers \cup {None}
  PROVE  Says(Answered(y, p, l, b), y, p, l, b)
<1> DEFINE a == Answered(y, p, l, b)
<1>1. a \in Replies
  BY ZenonT(60) DEF Answered, Replies
<1>2. a.buf = b /\ a.type = y /\ a.payload = p /\ a.len = l
  BY ZenonT(60) DEF Answered
<1> HIDE DEF a
<1>3. [type |-> a.type, payload |-> a.payload, len |-> a.len]
        = [type |-> y, payload |-> p, len |-> l]
  BY <1>2, Zenon
<1>4. Says(a, y, p, l, b)
  BY <1>1, <1>2, <1>3, Zenon DEF Says
<1> QED BY <1>4 DEF a

LEMMA ResponseAnswers ==
  ASSUME QueueConstants, NEW d \in Devices, NEW t \in Tasks, NEW n \in Nat, NEW b,
         TaskFits(d, t, n, b), Busy(t), NEW u, u.id = head[t], u.len \in Nat,
         Done(req[t], b, u.len)
  PROVE  Answering(Response(u), req[t], b)
<1> DEFINE h == head[t]
           r == req[t]
<1>1. /\ r \in Requests /\ r.type \in Types /\ r.amount \in Nat
      /\ r.type = "Rng" => RngAt(h, r, b)
      /\ r.type # "Rng" => BlockAt(h, r, b)
      /\ HeldFor(t, h, r, b)
  BY BusyChain, Zenon
<1>2. u.id = h /\ Done(r, b, u.len)
  BY Zenon
<1> SUFFICES Answering(Response(u), r, b)
  BY Zenon
<1> HIDE DEF h, r
<1>3. /\ b \in Buffers /\ mem[b].type = r.type /\ data[u.id].buf = b
      /\ IsRng(u) <=> r.type = "Rng"
  BY <1>1, <1>2, ZenonT(40) DEF HeldFor, IsRng
<1>4. r.sector \in Payloads /\ None \in Payloads
  BY <1>1, ZenonT(60) DEF Payloads, Sectors
<1>5. "Rng" \in Types /\ "In" \in Types /\ "Out" \in Types /\ "GetID" \in Types
  BY Zenon DEF Types
<1>6. CASE r.type = "Rng"
  <2>1. Response(u) = RngResponse(u, u.len)
    BY <1>3, <1>6, Zenon DEF Response
  <2>2. desc[u.id].elem.buf = b /\ mem[b].payload = r.sector /\ u.len <= r.amount
    BY <1>1, <1>2, <1>6, Zenon DEF RngAt, Done
  <2>3. Response(u) = Answered("Rng", r.sector, u.len, None)
    BY <2>1, <2>2, Zenon DEF RngResponse
  <2> DEFINE a == Answered("Rng", r.sector, u.len, None)
  <2>4. /\ a \in Replies /\ a.buf = None
        /\ [type |-> a.type, payload |-> a.payload, len |-> a.len]
                  = [type |-> "Rng", payload |-> r.sector, len |-> u.len]
    <3>1. Says(a, "Rng", r.sector, u.len, None)
      BY <1>4, <1>5, ReplyParts, Zenon
    <3> QED BY <3>1, Zenon DEF Says
  <2> HIDE DEF a
  <2>5. Answers(r) = [type : {"Rng"}, payload : {r.sector}, len : 0 .. r.amount]
    BY <1>6, Zenon DEF Answers
  <2>6. [type |-> "Rng", payload |-> r.sector, len |-> u.len] \in Answers(r)
    <3>1. u.len \in 0 .. r.amount
      BY <1>1, <2>2, SMTT(30), SMTT(60)
    <3> QED BY <2>5, <3>1, ZenonT(60)
  <2>7. a.buf = IF r.type = "In" THEN b ELSE None
    BY <1>6, <2>4, ZenonT(60)
  <2>8. Answering(a, r, b)
    BY <2>4, <2>6, <2>7, ZenonT(40) DEF Answering
  <2> QED BY <2>3, <2>8, Zenon DEF a
<1>7. CASE r.type # "Rng"
  <2> DEFINE l == desc[desc[u.id].to].elem.len
  <2>1. Response(u) = BlockResponse(u, l)
    BY <1>3, <1>7, Zenon DEF Response
  <2>2. desc[u.id].elem.buf = b /\ l = DataLen(r)
    BY <1>1, <1>2, <1>7, Zenon DEF BlockAt
  <2>3. DataLen(r) \in Nat
    BY <1>1, <1>7, Lengths, Zenon
  <2>4. r.type # "Out" => mem[b].payload = r.sector
    BY <1>2, Zenon DEF Done
  <2> HIDE DEF l
  <2>5. CASE r.type = "In"
    <3>1. BlockResponse(u, l) = Answered("In", mem[data[u.id].buf].payload, l, data[u.id].buf)
      <4>1. mem[desc[u.id].elem.buf].type = "In"
        BY <1>3, <2>2, <2>5, Zenon
      <4> QED BY <4>1, ZenonT(60) DEF BlockResponse
    <3>2. mem[b].payload = r.sector
      BY <2>4, <2>5, ZenonT(60)
    <3>3. Response(u) = Answered("In", r.sector, DataLen(r), b)
      BY <1>3, <2>1, <2>2, <3>1, <3>2, Zenon
    <3> DEFINE a == Answered("In", r.sector, DataLen(r), b)
    <3>4. /\ a \in Replies /\ a.buf = b
          /\ [type |-> a.type, payload |-> a.payload, len |-> a.len]
                  = [type |-> "In", payload |-> r.sector, len |-> DataLen(r)]
      <4>1. Says(a, "In", r.sector, DataLen(r), b)
        BY <1>3, <1>4, <1>5, <2>3, ReplyParts, Zenon
      <4> QED BY <4>1, Zenon DEF Says
    <3> HIDE DEF a
    <3>5. Answers(r) = {[type |-> "In", payload |-> r.sector, len |-> DataLen(r)]}
      BY <2>5, ZenonT(60) DEF Answers
    <3>6. a.buf = IF r.type = "In" THEN b ELSE None
      BY <2>5, <3>4, Zenon
    <3>7. Answering(a, r, b)
      BY <3>4, <3>5, <3>6, Zenon DEF Answering
    <3> QED BY <3>3, <3>7, Zenon DEF a
  <2>6. CASE r.type = "Out"
    <3>1. BlockResponse(u, l) = Answered("Out", None, 0, None)
      <4>1. mem[desc[u.id].elem.buf].type = "Out"
        BY <1>3, <2>2, <2>6, Zenon
      <4> QED BY <4>1, ZenonT(60) DEF BlockResponse
    <3>3. Response(u) = Answered("Out", None, 0, None)
      BY <2>1, <3>1, Zenon
    <3> DEFINE a == Answered("Out", None, 0, None)
    <3>4. /\ a \in Replies /\ a.buf = None
          /\ [type |-> a.type, payload |-> a.payload, len |-> a.len]
                  = [type |-> "Out", payload |-> None, len |-> 0]
      <4>1. Says(a, "Out", None, 0, None)
        BY <1>4, <1>5, 0 \in Nat, ReplyParts, Zenon
      <4> QED BY <4>1, Zenon DEF Says
    <3> HIDE DEF a
    <3>5. Answers(r) = {[type |-> "Out", payload |-> None, len |-> 0]}
      BY <2>6, ZenonT(60) DEF Answers
    <3>6. a.buf = IF r.type = "In" THEN b ELSE None
      BY <2>6, <3>4, ZenonT(60)
    <3>7. Answering(a, r, b)
      BY <3>4, <3>5, <3>6, Zenon DEF Answering
    <3> QED BY <3>3, <3>7, Zenon DEF a
  <2>7. CASE r.type = "GetID"
    <3>1. BlockResponse(u, l) = Answered("GetID", mem[data[u.id].buf].payload, 0, None)
      <4>1. mem[desc[u.id].elem.buf].type = "GetID"
        BY <1>3, <2>2, <2>7, Zenon
      <4> QED BY <4>1, ZenonT(60) DEF BlockResponse
    <3>2. mem[b].payload = r.sector
      BY <2>4, <2>7, ZenonT(60)
    <3>3. Response(u) = Answered("GetID", r.sector, 0, None)
      BY <1>3, <2>1, <3>1, <3>2, Zenon
    <3> DEFINE a == Answered("GetID", r.sector, 0, None)
    <3>4. /\ a \in Replies /\ a.buf = None
          /\ [type |-> a.type, payload |-> a.payload, len |-> a.len]
                  = [type |-> "GetID", payload |-> r.sector, len |-> 0]
      <4>1. Says(a, "GetID", r.sector, 0, None)
        BY <1>4, <1>5, 0 \in Nat, ReplyParts, Zenon
      <4> QED BY <4>1, Zenon DEF Says
    <3> HIDE DEF a
    <3>5. Answers(r) = {[type |-> "GetID", payload |-> r.sector, len |-> 0]}
      BY <2>7, ZenonT(60) DEF Answers
    <3>6. a.buf = IF r.type = "In" THEN b ELSE None
      BY <2>7, <3>4, ZenonT(60)
    <3>7. Answering(a, r, b)
      BY <3>4, <3>5, <3>6, Zenon DEF Answering
    <3> QED BY <3>3, <3>7, Zenon DEF a
  <2> QED BY <1>1, <1>7, <2>5, <2>6, <2>7, ZenonT(60) DEF Types
<1> QED BY <1>6, <1>7, Zenon

(* The entries that the handler takes, and whose they are.                 *)
Taken == {u \in UsedElems : data[u.id] # None}
TakenOf(t) == {u \in Taken : data[u.id].task = t}
Dropped == {data[u.id].buf : u \in {v \in Taken : Response(v).buf = None}}

Finished(d, num, own, t, u, j) ==
  /\ Busy(t) /\ num[t] < devSeen /\ u = usedRing[j % d.size]
  /\ u.id = head[t] /\ u.len \in Nat
  /\ \A i \in 1 .. Len(devWork) : devWork[i] # head[t]
  /\ Done(req[t], own[t], u.len)
  /\ d.inOrder => head[t] = At(d, j, 1)

LEMMA UsedFinished ==
  ASSUME QueueConstants, NEW d \in Devices, NEW num \in [Tasks -> Nat],
         NEW own, Fits(d, num, own), ~panicked, NEW u \in UsedElems
  PROVE  \E t \in Tasks, j \in NewEntries : Finished(d, num, own, t, u, j)
<1>1. /\ Typed(d) /\ UsedFits(d, num, own) /\ lastProcessed \in Nat /\ usedIdx \in Nat
  BY Unpack, ZenonT(40)
<1>2. PICK j \in NewEntries : u = usedRing[ToElemIndex(j)]
  BY Zenon DEF UsedElems
<1>3. j \in Nat /\ j \in lastProcessed .. usedIdx - 1
  BY <1>1, <1>2, SMTT(30), SMTT(60) DEF NewEntries
<1>4. u = usedRing[j % d.size] /\ j % d.size \in Slots(d)
  BY <1>1, <1>2, <1>3, EntrySlot, Zenon
<1>5. u.len \in Nat
  BY <1>1, <1>4, ZenonT(60) DEF Typed
<1>6. PICK t \in Tasks :
        /\ Busy(t) /\ num[t] < devSeen /\ usedRing[j % d.size].id = head[t]
        /\ \A i \in 1 .. Len(devWork) : devWork[i] # head[t]
        /\ Done(req[t], own[t], usedRing[j % d.size].len)
  BY <1>1, <1>3, Zenon DEF UsedFits
<1>7. d.inOrder => usedRing[j % d.size].id = At(d, j, 1)
  BY <1>1, <1>3, Zenon DEF UsedFits
<1>8. Finished(d, num, own, t, u, j)
  BY <1>4, <1>5, <1>6, <1>7, Zenon DEF Finished
<1> QED BY <1>8, Zenon

LEMMA TakenFits ==
  ASSUME QueueConstants, NEW d \in Devices, NEW num \in [Tasks -> Nat],
         NEW own, Fits(d, num, own), ~panicked, NEW t \in Tasks, NEW u \in TakenOf(t)
  PROVE  /\ \E j \in NewEntries : Finished(d, num, own, t, u, j)
         /\ HeldFor(t, u.id, req[t], own[t])
         /\ Answering(Response(u), req[t], own[t])
         /\ EntryFails(u) => BadStatus(own[t])
<1>1. u \in UsedElems /\ data[u.id].task = t
  BY Zenon DEF TakenOf, Taken
<1>2. PICK w \in Tasks, j \in NewEntries : Finished(d, num, own, w, u, j)
  BY <1>1, UsedFinished, Zenon
<1>3. TaskFits(d, w, num[w], own[w]) /\ num[w] \in Nat
  BY Unpack, ZenonT(40)
<1>4. Busy(w) /\ u.id = head[w] /\ u.len \in Nat /\ Done(req[w], own[w], u.len)
  BY <1>2, Zenon DEF Finished
<1>5. HeldFor(w, head[w], req[w], own[w])
  BY <1>3, <1>4, BusyChain, Zenon
<1>6. w = t
  BY <1>1, <1>4, <1>5, Zenon DEF HeldFor
<1>7. Answering(Response(u), req[w], own[w])
  BY <1>3, <1>4, ResponseAnswers, Zenon
<1>8. EntryFails(u) => BadStatus(own[w])
  BY <1>3, <1>4, FailsOnStatus, Zenon
<1>9. HeldFor(w, u.id, req[w], own[w])
  BY <1>4, <1>5, Zenon
<1> QED BY <1>2, <1>6, <1>7, <1>8, <1>9, Zenon

LEMMA TakenOwned ==
  ASSUME QueueConstants, NEW d \in Devices, NEW num \in [Tasks -> Nat],
         NEW own, Fits(d, num, own), ~panicked, NEW u \in Taken
  PROVE  \E t \in Tasks : u \in TakenOf(t)
<1>1. u \in UsedElems
  BY Zenon DEF Taken
<1>2. PICK w \in Tasks, j \in NewEntries : Finished(d, num, own, w, u, j)
  BY <1>1, UsedFinished, Zenon
<1>3. TaskFits(d, w, num[w], own[w]) /\ num[w] \in Nat
  BY Unpack, ZenonT(40)
<1>4. Busy(w) /\ u.id = head[w]
  BY <1>2, Zenon DEF Finished
<1>5. HeldFor(w, head[w], req[w], own[w])
  BY <1>3, <1>4, BusyChain, Zenon
<1>6. data[u.id].task = w
  BY <1>4, <1>5, Zenon DEF HeldFor
<1> QED BY <1>6, Zenon DEF TakenOf

(* A request that is finished is taken.                                    *)
LEMMA FinishedTaken ==
  ASSUME QueueConstants, NEW d \in Devices, NEW num \in [Tasks -> Nat],
         NEW own, Fits(d, num, own), ~panicked,
         NEW t \in Tasks, Busy(t), NEW j \in NewEntries, usedRing[j % d.size].id = head[t]
  PROVE  usedRing[j % d.size] \in TakenOf(t)
<1> DEFINE u == usedRing[j % d.size]
<1>1. Typed(d) /\ lastProcessed \in Nat /\ usedIdx \in Nat
  BY Unpack, ZenonT(40)
<1>2. j \in Nat
  BY <1>1, SMTT(30), SMTT(60) DEF NewEntries
<1>3. ToElemIndex(j) = j % d.size
  BY <1>1, <1>2, EntrySlot, Zenon
<1>4. u \in UsedElems
  BY <1>3, Zenon DEF UsedElems
<1>5. TaskFits(d, t, num[t], own[t]) /\ num[t] \in Nat
  BY Unpack, ZenonT(40)
<1>6. HeldFor(t, head[t], req[t], own[t])
  BY <1>5, BusyChain, Zenon
<1> HIDE DEF u
<1>7. u.id = head[t]
  BY Zenon DEF u
<1>8. data[u.id] # None /\ data[u.id].task = t
  BY <1>6, <1>7, Zenon DEF HeldFor
<1>9. u \in TakenOf(t)
  BY <1>4, <1>8, Zenon DEF TakenOf, Taken
<1> QED BY <1>9 DEF u

LEMMA InterruptStep ==
  ASSUME Interrupt
  PROVE  /\ ~panicked /\ irq /\ lock = None
         /\ panicked' = (\E u \in Taken : EntryFails(u))
         /\ panicked' => data' = data /\ channel' = channel /\ mem' = mem
         /\ ~panicked' =>
              /\ data' = [i \in Index |-> IF \E u \in Taken : u.id = i THEN None ELSE data[i]]
              /\ channel' = [t \in Tasks |-> IF TakenOf(t) = {} THEN channel[t]
                                  ELSE Response(CHOOSE u \in TakenOf(t) : TRUE)]
              /\ mem' = [b \in Buffers |-> IF b \in Dropped THEN None ELSE mem[b]]
         /\ irq' = FALSE /\ lastProcessed' = usedIdx
         /\ device' = device /\ rawNextIndex' = rawNextIndex /\ desc' = desc
         /\ availIdx' = availIdx /\ availRing' = availRing
         /\ usedIdx' = usedIdx /\ usedRing' = usedRing /\ devSeen' = devSeen
         /\ devWork' = devWork /\ lock' = lock /\ pc' = pc /\ req' = req /\ head' = head
         /\ sent' = sent
<1>1. UNCHANGED <<device, rawNextIndex, desc, availIdx, availRing, deviceVars,
                  lock, pc, req, head, sent>>
  BY Zenon DEF Interrupt
<1>2. /\ device' = device /\ rawNextIndex' = rawNextIndex /\ desc' = desc
      /\ availIdx' = availIdx /\ availRing' = availRing
      /\ usedIdx' = usedIdx /\ usedRing' = usedRing /\ devSeen' = devSeen
      /\ devWork' = devWork /\ lock' = lock /\ pc' = pc /\ req' = req /\ head' = head
      /\ sent' = sent
  BY ONLY <1>1, ZenonT(60) DEF deviceVars
<1>3. /\ ~panicked /\ irq /\ lock = None /\ irq' = FALSE /\ lastProcessed' = usedIdx
      /\ panicked' = (\E u \in Taken : EntryFails(u))
  BY Zenon DEF Interrupt, Taken
<1>4. panicked' => data' = data /\ channel' = channel /\ mem' = mem
  BY Zenon DEF Interrupt
<1>5. ~panicked' =>
        /\ data' = [i \in Index |-> IF \E u \in Taken : u.id = i THEN None ELSE data[i]]
        /\ channel' = [t \in Tasks |-> IF TakenOf(t) = {} THEN channel[t]
                            ELSE Response(CHOOSE u \in TakenOf(t) : TRUE)]
        /\ mem' = [b \in Buffers |-> IF b \in Dropped THEN None ELSE mem[b]]
  BY Zenon DEF Interrupt, Taken, TakenOf, Dropped
<1> QED BY <1>2, <1>3, <1>4, <1>5, Zenon

LEMMA InterruptPanics ==
  ASSUME QueueConstants, NEW d \in Devices, NEW num \in [Tasks -> Nat],
         NEW own, Fits(d, num, own), Interrupt, panicked'
  PROVE  Fits(d, num, own)'
<1>1. /\ ~panicked /\ panicked' = (\E u \in Taken : EntryFails(u))
      /\ data' = data /\ channel' = channel /\ mem' = mem
      /\ lastProcessed' = usedIdx
      /\ device' = device /\ rawNextIndex' = rawNextIndex /\ desc' = desc
      /\ availIdx' = availIdx /\ availRing' = availRing
      /\ usedIdx' = usedIdx /\ usedRing' = usedRing /\ devSeen' = devSeen
      /\ devWork' = devWork /\ lock' = lock /\ pc' = pc /\ req' = req /\ head' = head
      /\ sent' = sent
  BY InterruptStep, Zenon
<1>2. /\ Typed(d) /\ OwnersFit(num, own)
      /\ \A u \in Tasks : TaskFits(d, u, num[u], own[u])
      /\ \A u \in Tasks : Busy(u) => own[u] # None
      /\ usedIdx \in Nat
  BY <1>1, Unpack, ZenonT(40)
<1>3. Typed(d)'
  BY <1>1, <1>2, Zenon DEF Typed
<1>4. ASSUME NEW u \in Tasks
      PROVE  TaskFits(d, u, num[u], own[u])' /\ (Busy(u)' <=> Busy(u))
  <2>1. TaskFits(d, u, num[u], own[u]) /\ (Busy(u) => own[u] # None)
    BY <1>2, Zenon
  <2>2. Busy(u) => num[u] < sent' /\ sent' <= num[u] + Room(d)
    BY <1>1, <2>1, Zenon DEF TaskFits
  <2>3. own[u] # None => mem'[own[u]] # None
    BY <1>1, <2>1, Zenon DEF TaskFits
  <2> QED BY <1>1, <2>1, <2>2, <2>3, TaskKept, Zenon
<1>5. OwnersFit(num, own)'
  BY <1>1, <1>2, <1>4, Zenon DEF OwnersFit
<1>6. PICK u \in Taken : EntryFails(u)
  BY <1>1, Zenon
<1>7. PICK t \in Tasks : u \in TakenOf(t)
  BY <1>1, TakenOwned, Zenon
<1>8. BadStatus(own[t])
  BY <1>1, <1>6, <1>7, TakenFits, Zenon
<1>9. PanicOnlyOnDeviceError'
  <2>1. BadStatus(own[t])'
    BY <1>1, <1>8, Zenon DEF BadStatus
  <2> QED BY <2>1, Zenon DEF PanicOnlyOnDeviceError, BadStatus
<1> QED BY <1>3, <1>4, <1>5, <1>9, Zenon DEF Fits

LEMMA InterruptAnswers ==
  ASSUME QueueConstants, NEW d \in Devices, NEW num \in [Tasks -> Nat],
         NEW own \in [Tasks -> Buffers \cup {None}], Fits(d, num, own), Interrupt, ~panicked'
  PROVE  \E own2 \in [Tasks -> Buffers \cup {None}] : Fits(d, num, own2)'
<1>1. /\ ~panicked /\ lock = None
      /\ lastProcessed' = usedIdx
      /\ device' = device /\ rawNextIndex' = rawNextIndex /\ desc' = desc
      /\ availIdx' = availIdx /\ availRing' = availRing
      /\ usedIdx' = usedIdx /\ usedRing' = usedRing /\ devSeen' = devSeen
      /\ devWork' = devWork /\ lock' = lock /\ pc' = pc /\ req' = req /\ head' = head
      /\ sent' = sent
  BY InterruptStep, Zenon
<1>2. /\ Typed(d) /\ OwnersFit(num, own)
      /\ \A u \in Tasks : TaskFits(d, u, num[u], own[u])
      /\ \A u \in Tasks : num[u] \in Nat
      /\ \A u \in Tasks : Busy(u) => own[u] # None /\ own[u] \in Buffers
                                                   /\ head[u] = At(d, num[u], 1)
                                                   /\ head[u] \in Slots(d)
      /\ LockFits(num) /\ RingFits(d, num) /\ WorkFits(d, num)
      /\ UsedFits(d, num, own) /\ OrderFits(d, num)
  BY <1>1, Unpack, ZenonT(40)
<1>3. /\ sent \in Nat /\ availIdx \in Nat /\ usedIdx \in Nat /\ devSeen \in Nat
      /\ lastProcessed \in Nat /\ Room(d) \in Nat /\ d.maxRequests \in Nat
      /\ lastProcessed <= usedIdx /\ usedIdx <= devSeen /\ devSeen <= availIdx
      /\ availIdx <= sent /\ sent <= d.maxRequests /\ sent - lastProcessed <= Room(d)
  BY <1>1, Unpack, ZenonT(40)
<1>4. ASSUME NEW t \in Tasks, NEW u \in TakenOf(t)
      PROVE  /\ \E j \in NewEntries : Finished(d, num, own, t, u, j)
             /\ HeldFor(t, u.id, req[t], own[t])
             /\ Answering(Response(u), req[t], own[t])
  BY <1>1, TakenFits, Zenon
<1>5. \A i \in Slots(d) : data'[i] = IF \E u \in Taken : u.id = i THEN None ELSE data[i]
  <2>1. Index = Slots(d)
    BY <1>2, Zenon DEF Index, QueueSize, Slots, Typed
  <2> QED BY <2>1, InterruptStep, Zenon
<1>6. /\ \A t \in Tasks : TakenOf(t) = {} => channel'[t] = channel[t]
      /\ \A t \in Tasks : TakenOf(t) # {} => \E u \in TakenOf(t) : channel'[t] = Response(u)
  <2>1. \A t \in Tasks : channel'[t] = IF TakenOf(t) = {} THEN channel[t]
                                       ELSE Response(CHOOSE u \in TakenOf(t) : TRUE)
    BY InterruptStep, Zenon
  <2>2. \A t \in Tasks : TakenOf(t) # {} => (CHOOSE u \in TakenOf(t) : TRUE) \in TakenOf(t)
    BY Zenon
  <2> QED BY <2>1, <2>2, Zenon
<1>7. \A b \in Buffers : mem'[b] = IF b \in Dropped THEN None ELSE mem[b]
  BY InterruptStep, Zenon
<1> DEFINE Took(t) == TakenOf(t) # {}
<1>8. ASSUME NEW t \in Tasks, Took(t)
      PROVE  /\ Busy(t) /\ num[t] < devSeen /\ channel'[t] \in Replies /\ channel'[t] # None
             /\ channel'[t].buf = IF req[t].type = "In" THEN own[t] ELSE None
             /\ \A i \in 1 .. Len(devWork) : devWork[i] # head[t]
  <2>1. PICK u \in TakenOf(t) : channel'[t] = Response(u)
    BY <1>6, <1>8, Zenon
  <2>2. PICK j \in NewEntries : Finished(d, num, own, t, u, j)
    BY <1>4, Zenon
  <2>3. Answering(channel'[t], req[t], own[t])
    BY <1>4, <2>1, Zenon
  <2>4. /\ channel'[t] \in Replies
        /\ channel'[t].buf = IF req[t].type = "In" THEN own[t] ELSE None
    BY <2>3, Zenon DEF Answering
  <2>5. channel'[t] # None
    BY <2>4, Zenon DEF QueueConstants
  <2> QED BY <2>2, <2>4, <2>5, Zenon DEF Finished
<1>9. ASSUME NEW b \in Dropped
      PROVE  \E t \in Tasks : Took(t) /\ req[t].type # "In" /\ b = own[t] /\ own[t] # None
  <2>1. PICK u \in Taken : b = data[u.id].buf /\ Response(u).buf = None
    BY Zenon DEF Dropped
  <2>2. PICK t \in Tasks : u \in TakenOf(t)
    BY <1>1, TakenOwned, Zenon
  <2>3. HeldFor(t, u.id, req[t], own[t]) /\ Answering(Response(u), req[t], own[t])
    BY <1>4, <2>2, Zenon
  <2>4. b = own[t] /\ own[t] # None
    BY <2>1, <2>3, Zenon DEF HeldFor
  <2>5. req[t].type # "In"
    BY <2>1, <2>3, <2>4, Zenon DEF Answering
  <2> QED BY <2>2, <2>4, <2>5, Zenon
<1>10. ASSUME NEW t \in Tasks, NEW j \in NewEntries, Busy(t), usedRing[j % d.size].id = head[t]
       PROVE  Took(t)
  BY <1>1, <1>10, FinishedTaken, Zenon
<1>11. ASSUME NEW t \in Tasks, Took(t) PROVE \E u \in Taken : u.id = head[t]
  <2>1. PICK u \in TakenOf(t) : TRUE
    BY <1>11, Zenon
  <2>2. PICK j \in NewEntries : Finished(d, num, own, t, u, j)
    BY <1>4, Zenon
  <2> QED BY <2>2, Zenon DEF Finished, TakenOf
<1>12. ASSUME NEW t \in Tasks, Busy(t), NEW u \in Taken, u.id = head[t] PROVE Took(t)
  <2>1. PICK w \in Tasks : u \in TakenOf(w)
    BY <1>1, TakenOwned, Zenon
  <2>2. HeldFor(w, u.id, req[w], own[w])
    BY <1>4, <2>1, Zenon
  <2>3. HeldFor(t, head[t], req[t], own[t])
    BY <1>2, <1>12, BusyChain, Zenon
  <2>4. w = t
    BY <1>12, <2>2, <2>3, Zenon DEF HeldFor
  <2> QED BY <2>1, <2>4, Zenon
<1> HIDE DEF Took
<1>13. /\ data' \in [Slots(d) -> Entries \cup {None}]
       /\ channel' \in [Tasks -> Replies \cup {None}]
       /\ mem' \in [Buffers -> Contents \cup {None}]
  <2>1. /\ data' = [i \in Slots(d) |-> IF \E u \in Taken : u.id = i THEN None ELSE data[i]]
        /\ channel' = [t \in Tasks |-> channel'[t]]
        /\ mem' = [b \in Buffers |-> IF b \in Dropped THEN None ELSE mem[b]]
    <3>1. Index = Slots(d)
      BY <1>2, Zenon DEF Index, QueueSize, Slots, Typed
    <3>2. channel' = [t \in Tasks |-> channel'[t]]
      BY InterruptStep, Zenon
    <3> QED BY <3>1, <3>2, InterruptStep, Zenon
  <2>2. \A i \in Slots(d) :
          (IF \E u \in Taken : u.id = i THEN None ELSE data[i]) \in Entries \cup {None}
    <3>1. data \in [Slots(d) -> Entries \cup {None}]
      BY <1>2, Zenon DEF Typed
    <3> QED BY <3>1, Zenon
  <2>3. \A b \in Buffers : (IF b \in Dropped THEN None ELSE mem[b]) \in Contents \cup {None}
    <3>1. mem \in [Buffers -> Contents \cup {None}]
      BY <1>2, Zenon DEF Typed
    <3> QED BY <3>1, Zenon
  <2>4. ASSUME NEW t \in Tasks PROVE channel'[t] \in Replies \cup {None}
    <3>1. CASE Took(t)
      BY <1>8, <3>1, Zenon
    <3>2. CASE ~Took(t)
      <4>1. channel'[t] = channel[t]
        BY <1>6, <3>2, Zenon DEF Took
      <4>2. channel \in [Tasks -> Replies \cup {None}]
        BY <1>2, Zenon DEF Typed
      <4> QED BY <4>1, <4>2, Zenon
    <3> QED BY <3>1, <3>2, Zenon
  <2> QED BY <2>1, <2>2, <2>3, <2>4, Zenon
<1>14. Typed(d)'
  BY <1>1, <1>2, <1>3, <1>13, Zenon DEF Typed
<1>15. PICK own2 \in [Tasks -> Buffers \cup {None}] :
         \A t \in Tasks : own2[t] = IF Took(t) /\ req[t].type # "In" THEN None ELSE own[t]
  <2> DEFINE f == [t \in Tasks |-> IF Took(t) /\ req[t].type # "In" THEN None ELSE own[t]]
  <2>1. f \in [Tasks -> Buffers \cup {None}]
    BY Zenon
  <2>2. \A t \in Tasks : f[t] = IF Took(t) /\ req[t].type # "In" THEN None ELSE own[t]
    BY Zenon
  <2> HIDE DEF f
  <2> QED BY <2>1, <2>2, Zenon
<1>16. ASSUME NEW t \in Tasks, own2[t] # None
       PROVE  own2[t] = own[t] /\ own[t] \in Buffers /\ mem'[own[t]] = mem[own[t]]
  <2>1. own2[t] = own[t] /\ ~(Took(t) /\ req[t].type # "In")
    BY <1>15, <1>16, Zenon
  <2>2. own[t] \in Buffers
    BY <1>16, <2>1, Zenon
  <2>3. own[t] \notin Dropped
    <3> SUFFICES ASSUME own[t] \in Dropped PROVE FALSE
      BY Zenon
    <3>1. PICK w \in Tasks : Took(w) /\ req[w].type # "In" /\ own[t] = own[w]
      BY <1>9, Zenon
    <3>2. w # t
      BY <2>1, <3>1, Zenon
    <3>3. own[t] = own[w] => own[t] = None
      BY <1>2, <3>2, Zenon DEF OwnersFit
    <3> QED BY <1>16, <2>1, <3>1, <3>3, Zenon
  <2> QED BY <1>7, <2>1, <2>2, <2>3, Zenon
<1>17. ASSUME NEW t \in Tasks, Busy(t), ~Took(t)
       PROVE  data'[head[t]] = data[head[t]]
  BY <1>2, <1>5, <1>12, <1>17, Zenon
<1>18. ASSUME NEW t \in Tasks
       PROVE  TaskFits(d, t, num[t], own2[t])' /\ (Busy(t)' <=> (Busy(t) /\ ~Took(t)))
  <2>1. TaskFits(d, t, num[t], own[t]) /\ (Busy(t) => own[t] # None)
    BY <1>2, Zenon
  <2>2. own[t] # None => mem[own[t]] # None
    BY <2>1, Zenon DEF TaskFits
  <2>3. CASE ~Took(t)
    <3>1. own2[t] = own[t] /\ channel'[t] = channel[t]
      BY <1>6, <1>15, <2>3, Zenon DEF Took
    <3>2. own[t] # None => mem'[own[t]] # None /\ mem'[own[t]] = mem[own[t]]
      BY <1>16, <2>2, <3>1, Zenon
    <3>3. Busy(t) => num[t] < sent' /\ sent' <= num[t] + Room(d)
      BY <1>1, <2>1, Zenon DEF TaskFits
    <3>4. Busy(t) => data'[head[t]] = data[head[t]]
      BY <1>17, <2>3, Zenon
    <3>5. TaskFits(d, t, num[t], own[t])' /\ (Busy(t)' <=> Busy(t))
      BY <1>1, <2>1, <3>1, <3>2, <3>3, <3>4, TaskKept, Zenon
    <3> QED BY <2>3, <3>1, <3>5, Zenon
  <2>4. CASE Took(t)
    <3>1. /\ Busy(t) /\ channel'[t] # None
          /\ channel'[t].buf = IF req[t].type = "In" THEN own[t] ELSE None
      BY <1>8, <2>4, Zenon
    <3>2. pc[t] = "waiting" /\ pc'[t] = "waiting" /\ pc'[t] # "idle"
      <4>1. pc[t] \in {"idle", "waiting"} /\ pc[t] # "idle"
        BY <1>1, <1>2, <3>1, Zenon DEF LockFits, Busy
      <4> QED BY <1>1, <4>1, Zenon
    <3>3. ~Busy(t)'
      BY <3>1, Zenon DEF Busy
    <3>4. own2[t] = channel'[t].buf
      <4>1. CASE req[t].type = "In"
        BY <1>15, <3>1, <4>1, Zenon
      <4>2. CASE req[t].type # "In"
        BY <1>15, <2>4, <3>1, <4>2, Zenon
      <4> QED BY <4>1, <4>2, Zenon
    <3>5. own2[t] # None => mem'[own2[t]] # None
      <4> SUFFICES ASSUME own2[t] # None PROVE mem'[own2[t]] # None
        BY Zenon
      <4>1. own2[t] = own[t] /\ mem'[own[t]] = mem[own[t]]
        BY <1>16, Zenon
      <4> QED BY <2>2, <4>1, Zenon
    <3>6. req'[t] \in Requests /\ (req'[t].type = "Rng" <=> d.driver = "rng")
      BY <1>1, <2>1, <3>2, Zenon DEF TaskFits
    <3>7. TaskFits(d, t, num[t], own2[t])'
      BY <3>1, <3>2, <3>3, <3>4, <3>5, <3>6, Zenon DEF TaskFits
    <3> QED BY <2>4, <3>3, <3>7, Zenon
  <2> QED BY <2>3, <2>4, Zenon
<1>19. OwnersFit(num, own2)'
  <2>1. ASSUME NEW t \in Tasks, NEW u \in Tasks, t # u
        PROVE  /\ Busy(t)' /\ Busy(u)' => num[t] # num[u]
               /\ own2[t] = own2[u] => own2[t] = None
    <3>1. Busy(t)' /\ Busy(u)' => num[t] # num[u]
      BY <1>2, <1>18, <2>1, Zenon DEF OwnersFit
    <3>2. ASSUME own2[t] = own2[u], own2[t] # None PROVE FALSE
      <4>1. own2[t] = own[t] /\ own2[u] = own[u]
        BY <1>16, <3>2, Zenon
      <4>2. own[t] = own[u] => own[t] = None
        BY <1>2, <2>1, Zenon DEF OwnersFit
      <4> QED BY <3>2, <4>1, <4>2, Zenon
    <3> QED BY <3>1, <3>2, Zenon
  <2>2. ASSUME NEW i \in DOMAIN data', data'[i] # None
        PROVE  \E t \in Tasks : Busy(t)' /\ head'[t] = i
    <3>1. i \in Slots(d) /\ DOMAIN data = Slots(d)
      BY <1>2, <1>13, Zenon DEF Typed
    <3>2. data'[i] = data[i] /\ ~ \E u \in Taken : u.id = i
      BY <1>5, <2>2, <3>1, Zenon
    <3>3. PICK t \in Tasks : Busy(t) /\ head[t] = i
      BY <1>2, <2>2, <3>1, <3>2, Zenon DEF OwnersFit
    <3>4. ~Took(t)
      BY <1>11, <3>2, <3>3, Zenon
    <3> QED BY <1>1, <1>18, <3>3, <3>4, Zenon
  <2> QED BY <2>1, <2>2, Zenon DEF OwnersFit
<1>20. LockFits(num)'
  BY <1>1, <1>2, Zenon DEF LockFits
<1>21. RingFits(d, num)'
  <2> SUFFICES ASSUME NEW j \in devSeen .. availIdx - 1
               PROVE  availRing[j % d.size] = At(d, j, 1) /\ \E t \in Tasks : Busy(t)' /\ num[t] = j
    BY <1>1, Zenon DEF RingFits
  <2>1. PICK t \in Tasks : Busy(t) /\ num[t] = j
    BY <1>2, Zenon DEF RingFits
  <2>2. ~(num[t] < devSeen)
    BY <1>3, <2>1, SMTT(30), SMTT(60)
  <2>3. Busy(t)'
    BY <1>8, <1>18, <2>1, <2>2, Zenon
  <2> QED BY <1>2, <2>1, <2>3, Zenon DEF RingFits
<1>22. WorkFits(d, num)'
  <2>1. ASSUME NEW i \in 1 .. Len(devWork)
        PROVE  \E t \in Tasks : Busy(t)' /\ num[t] < devSeen /\ devWork[i] = head[t]
    <3>1. PICK t \in Tasks : Busy(t) /\ num[t] < devSeen /\ devWork[i] = head[t]
      BY <1>2, Zenon DEF WorkFits
    <3>2. ~Took(t)
      BY <1>8, <3>1, Zenon
    <3> QED BY <1>18, <3>1, <3>2, Zenon
  <2> QED BY <1>1, <1>2, <2>1, ZenonT(40) DEF WorkFits
<1>23. UsedFits(d, num, own2)'
  <2>1. \A j \in usedIdx .. usedIdx - 1 : FALSE
    BY <1>3, SMTT(30), SMTT(60)
  <2> QED BY <1>1, <2>1, Zenon DEF UsedFits
<1>24. OrderFits(d, num)'
  <2> SUFFICES ASSUME d.inOrder
               PROVE  /\ \A t \in Tasks : Busy(t)' => usedIdx <= num[t]
                      /\ \A j \in usedIdx .. sent - 1 : \E t \in Tasks : Busy(t)' /\ num[t] = j
    BY <1>1, Zenon DEF OrderFits
  <2>1. /\ \A t \in Tasks : Busy(t) => lastProcessed <= num[t]
        /\ \A j \in lastProcessed .. sent - 1 : \E t \in Tasks : Busy(t) /\ num[t] = j
    BY <1>2, Zenon DEF OrderFits
  <2>2. ASSUME NEW t \in Tasks, Busy(t)' PROVE usedIdx <= num[t]
    <3> SUFFICES ASSUME ~(usedIdx <= num[t]) PROVE FALSE
      BY Zenon
    <3>1. Busy(t) /\ ~Took(t)
      BY <1>18, <2>2, Zenon
    <3>2. num[t] \in NewEntries /\ num[t] \in lastProcessed .. usedIdx - 1
      BY <1>2, <1>3, <2>1, <3>1, SMTT(30), SMTT(60) DEF NewEntries
    <3>3. usedRing[num[t] % d.size].id = At(d, num[t], 1)
      BY <1>2, <3>2, Zenon DEF UsedFits
    <3>4. usedRing[num[t] % d.size].id = head[t]
      BY <1>2, <3>1, <3>3, Zenon
    <3> QED BY <1>10, <3>1, <3>2, <3>4, Zenon
  <2>3. ASSUME NEW j \in usedIdx .. sent - 1
        PROVE  \E t \in Tasks : Busy(t)' /\ num[t] = j
    <3>1. j \in lastProcessed .. sent - 1 /\ j \in Nat
      BY <1>3, SMTT(30), SMTT(60)
    <3>2. PICK t \in Tasks : Busy(t) /\ num[t] = j
      BY <2>1, <3>1, Zenon
    <3>3. ~Took(t)
      <4> SUFFICES ASSUME Took(t) PROVE FALSE
        BY Zenon
      <4>1. PICK u \in TakenOf(t) : TRUE
        BY Zenon DEF Took
      <4>2. PICK k \in NewEntries : Finished(d, num, own, t, u, k)
        BY <1>4, Zenon
      <4>3. head[t] = At(d, k, 1) /\ head[t] = At(d, j, 1)
        BY <1>2, <3>2, <4>2, Zenon DEF Finished
      <4>4. k \in Nat /\ k < j /\ j - k < Room(d)
        BY <1>3, SMTT(30), SMTT(60) DEF NewEntries
      <4>5. 1 \in 1 .. ChainLen(d)
        <5>1. ChainLen(d) \in {1, 3}
          BY DeviceFacts, Zenon
        <5> QED BY <5>1, SMTT(30), SMTT(60)
      <4>6. At(d, k, 1) # At(d, j, 1)
        BY <3>1, <4>4, <4>5, AtApart, Zenon
      <4> QED BY <4>3, <4>6, Zenon
    <3> QED BY <1>18, <3>2, <3>3, Zenon
  <2> QED BY <2>2, <2>3, Zenon
<1>25. \A t \in Tasks : Busy(t)' /\ pc'[t] = "waiting" => num[t] < availIdx'
  <2>1. \A t \in Tasks : Busy(t) /\ pc[t] = "waiting" => num[t] < availIdx
    BY <1>1, Unpack, ZenonT(40)
  <2> QED BY <1>1, <1>18, <2>1, Zenon
<1>26. Flow(d, num, own2)'
  <2>1. lastProcessed' <= usedIdx' /\ sent' - lastProcessed' <= Room(d)
    BY <1>1, <1>3, SMTT(30), SMTT(60)
  <2> QED BY <1>1, <1>3, <1>20, <1>21, <1>22, <1>23, <1>24, <1>25, <2>1, ZenonT(40) DEF Flow
<1>27. Fits(d, num, own2)'
  BY <1>14, <1>18, <1>19, <1>26, Zenon DEF Fits, PanicOnlyOnDeviceError
<1> QED BY <1>15, <1>27, Zenon
===============================================================================
