------------------------- MODULE KernelLocksProofs --------------------------
(***************************************************************************)
(* The spin locks of KernelLocks, for any number of CPUs that run any of   *)
(* its programs and take any of its interrupts: CPUs wait for one another  *)
(* in a circle only through a handler that interrupted a holder, and only  *)
(* the locks that programs take with interrupts on have such holders.      *)
(*                                                                         *)
(* The argument is an order on the locks.  A piece of code Runs from what  *)
(* is held in A to what is held in B when every step of it fits: a lock is *)
(* taken above all that are held and given back before those below it.     *)
(* The programs and handlers are shown to run by composing the sections    *)
(* they are built from, and the invariant says that what is left of the    *)
(* code of a CPU runs from the locks this code holds now.  A handler and   *)
(* the task under it are two pieces of code: each keeps the order, but the *)
(* locks of the task need not be below those of the handler.               *)
(***************************************************************************)
EXTENDS KernelLocks, TLAPS

(* Any programs on any CPU, and any interrupts.                            *)
LockConstants ==
  /\ TaskCode \in [CPU -> SUBSET DOMAIN Programs]
  /\ Interrupts \subseteq CPU \X DOMAIN Handlers
  /\ Free \notin [cpu : CPU, enable : BOOLEAN, off : BOOLEAN]

(* Being in a handler counts as a lock below all others: it keeps          *)
(* interrupts off.                                                         *)
Held == Lock \cup {"irq"}

(* The order in which the kernel takes its locks.                          *)
Rank(l) ==
  CASE l = "irq" -> 0 [] l = "handlers" -> 1 [] l = "keyboard" -> 2
    [] l = "timers" -> 3 [] l = "device" -> 4 [] l = "waiting" -> 5
    [] l = "cell" -> 6 [] l = "runqueue" -> 7 [] l = "tasks" -> 8
    [] l = "stacks" -> 9 [] l = "table" -> 10 [] l = "physical" -> 11
    [] l = "heap" -> 12 [] l = "logger" -> 13

(* Steps as the code is written, and those of a lock call that has begun.  *)
Steps ==
  [op : {"lock", "lock_off", "unlock"}, lock : Lock]
    \cup [op : {"preempt?", "resched?", "iret"}]

Underway ==
  [op : {"spin"}, lock : Lock, enable : BOOLEAN] \cup [op : {"restore"}, enable : BOOLEAN]

(* What a piece of code holds: locks taken while interrupts were on, and   *)
(* what keeps interrupts off.                                              *)
State == [on : SUBSET Lock, off : SUBSET Held]
Nothing == [on |-> {}, off |-> {}]
InHandler == [on |-> {}, off |-> {"irq"}]
Returned == [on |-> {}, off |-> {"returned"}]

(* What can be held between two steps; nothing runs once a handler has     *)
(* returned.                                                               *)
Marks == State \cup {Returned}

WithOn(A, l) == [on |-> A.on \cup {l}, off |-> A.off]
WithOff(A, l) == [on |-> A.on, off |-> A.off \cup {l}]

(* l may be taken while A is held.                                         *)
Above(l, A) == \A m \in A.on \cup A.off : Rank(m) < Rank(l)

(* x is a call of lock() with interrupts on.                               *)
Exposed(x, A) == A.off = {} /\ (x.op = "lock" \/ (x.op = "spin" /\ ~x.enable))

(* Step x takes a lock, gives one back that keeps interrupts off, or gives *)
(* one back that was taken while they were on.                             *)
Takes(x, A, B) ==
  /\ x.op \in {"lock", "lock_off", "spin"} /\ Above(x.lock, A)
  /\ x.op = "spin" => (x.enable => A.off = {})
  /\ Exposed(x, A) => B = WithOn(A, x.lock) /\ x.lock \in InterruptibleLocks
  /\ ~Exposed(x, A) => B = WithOff(A, x.lock)
GivesOff(x, A, B) ==
  /\ x.op = "unlock" /\ x.lock \in A.off
  /\ B = [on |-> A.on, off |-> A.off \ {x.lock}] /\ Above(x.lock, B)
GivesOn(x, A, B) ==
  /\ x.op = "unlock" /\ x.lock \in A.on /\ A.off = {}
  /\ B = [on |-> A.on \ {x.lock}, off |-> {}]

(* Step x leads from holding A to holding B.  A guard that switches        *)
(* interrupts on was the first that kept them off.  Preemption is          *)
(* considered under no lock.                                               *)
Fits(x, A, B) ==
  /\ A \in State
  /\ \/ Takes(x, A, B) \/ GivesOff(x, A, B) \/ GivesOn(x, A, B)
     \/ x.op = "restore" /\ B = A /\ (x.enable => A.off = {})
     \/ x.op \in {"preempt?", "resched?"} /\ B = A /\ A.on = {} /\ A.off \subseteq {"irq"}
     \/ x.op = "iret" /\ A = InHandler /\ B = Returned

(* h[i] is what is held before step i of s.                                *)
Annotates(h, s) ==
  /\ h \in [1 .. Len(s) + 1 -> Marks]
  /\ \A i \in 1 .. Len(s) : Fits(s[i], h[i], h[i + 1])

(* Code s can run from holding H to holding K.                             *)
Runs(s, H, K) ==
  /\ s \in Seq(Steps)
  /\ \E h : Annotates(h, s) /\ h[1] = H /\ h[Len(s) + 1] = K

LEMMA RankNat == \A l \in Held : Rank(l) \in 0 .. 13
BY SMTT(30), SMTT(60) DEF Held, Lock, Rank

LEMMA RunsEmpty ==
  ASSUME NEW H \in Marks
  PROVE  Runs(<< >>, H, H)
<1> DEFINE h == [i \in 1 .. 1 |-> H]
<1>1. Annotates(h, << >>) /\ h[1] = H
  BY SMTT(30), SMTT(60) DEF Annotates
<1>2. << >> \in Seq(Steps) /\ Len(<< >>) + 1 = 1
  BY SMTT(30), SMTT(60)
<1> HIDE DEF h
<1> QED
  BY <1>1, <1>2, SMTT(30), SMTT(60) DEF Runs

LEMMA RunsNothing ==
  ASSUME NEW H, NEW K, Runs(<< >>, H, K)
  PROVE  H = K
BY SMTT(30), SMTT(60) DEF Runs

(* Code that is left is a step that fits and code that runs after it.      *)
LEMMA RunsFirst ==
  ASSUME NEW s, NEW H, NEW K, Runs(s, H, K), s # << >>
  PROVE  /\ Head(s) \in Steps /\ Tail(s) \in Seq(Steps)
         /\ \E G \in Marks : Fits(Head(s), H, G) /\ Runs(Tail(s), G, K)
<1>1. PICK h : Annotates(h, s) /\ h[1] = H /\ h[Len(s) + 1] = K
  BY SMTT(30), SMTT(60) DEF Runs
<1>2. s \in Seq(Steps) /\ Len(s) \in Nat \ {0} /\ Head(s) = s[1] /\ Head(s) \in Steps
  BY SMTT(30), SMTT(60) DEF Runs
<1>3. /\ Tail(s) \in Seq(Steps) /\ Len(Tail(s)) = Len(s) - 1
      /\ \A i \in 1 .. Len(s) - 1 : Tail(s)[i] = s[i + 1]
  BY <1>2, SMTT(30), SMTT(60)
<1> DEFINE g == [i \in 1 .. Len(s) |-> h[i + 1]]
<1>4. g \in [1 .. Len(s) -> Marks] /\ g[1] = h[2] /\ g[Len(s)] = K
  BY <1>1, <1>2, SMTT(30), SMTT(60) DEF Annotates
<1>5. \A i \in 1 .. Len(s) - 1 : Fits(Tail(s)[i], g[i], g[i + 1])
  <2> TAKE i \in 1 .. Len(s) - 1
  <2>1. i + 1 \in 1 .. Len(s) /\ i \in 1 .. Len(s)
    BY <1>2, SMTT(30), SMTT(60)
  <2>2. Fits(s[i + 1], h[i + 1], h[i + 1 + 1])
    BY <1>1, <2>1, SMTT(30), SMTT(60) DEF Annotates
  <2>3. g[i] = h[i + 1] /\ g[i + 1] = h[i + 1 + 1] /\ Tail(s)[i] = s[i + 1]
    BY <1>2, <1>3, <2>1, SMTT(30), SMTT(60)
  <2> QED
    BY <2>2, <2>3, Zenon
<1>6. Annotates(g, Tail(s))
  <2>1. Len(Tail(s)) + 1 = Len(s)
    BY <1>2, <1>3, SMTT(30), SMTT(60)
  <2> HIDE DEF g
  <2> QED
    BY <1>3, <1>4, <1>5, <2>1, SMTT(30), SMTT(60) DEF Annotates
<1>7. Runs(Tail(s), h[2], K)
  <2> HIDE DEF g
  <2>1. Len(Tail(s)) + 1 = Len(s)
    BY <1>2, <1>3, SMTT(30), SMTT(60)
  <2> QED
    BY <1>3, <1>4, <1>6, <2>1, SMTT(30), SMTT(60) DEF Runs
<1>8. h[2] \in Marks /\ Fits(Head(s), H, h[2])
  <2>1. 1 \in 1 .. Len(s) /\ 1 + 1 = 2 /\ 2 \in 1 .. Len(s) + 1
    BY <1>2, SMTT(30), SMTT(60)
  <2> QED
    BY <1>1, <1>2, <2>1, SMTT(30), SMTT(60) DEF Annotates
<1> QED
  BY <1>2, <1>3, <1>7, <1>8, Zenon

LEMMA RunsStep ==
  ASSUME NEW x \in Steps, NEW H \in Marks, NEW K \in Marks, Fits(x, H, K)
  PROVE  Runs(<<x>>, H, K)
<1> DEFINE h == [i \in 1 .. 2 |-> IF i = 1 THEN H ELSE K]
<1>1. h \in [1 .. 2 -> Marks] /\ h[1] = H /\ h[2] = K
  BY SMTT(30), SMTT(60)
<1>2. <<x>> \in Seq(Steps) /\ Len(<<x>>) = 1 /\ <<x>>[1] = x
  BY SMTT(30), SMTT(60)
<1> HIDE DEF h
<1>3. Annotates(h, <<x>>)
  <2>1. \A i \in 1 .. 1 : i = 1 /\ i + 1 = 2
    BY SMTT(30), SMTT(60)
  <2>2. 1 .. Len(<<x>>) + 1 = 1 .. 2 /\ 1 .. Len(<<x>>) = 1 .. 1
    BY <1>2, SMTT(30), SMTT(60)
  <2> QED
    BY <1>1, <1>2, <2>1, <2>2, Zenon DEF Annotates
<1>4. Len(<<x>>) + 1 = 2
  BY <1>2, SMTT(30), SMTT(60)
<1> QED
  BY <1>1, <1>2, <1>3, <1>4, Zenon DEF Runs

(* Code that runs one piece after the other.                               *)
LEMMA RunsThen ==
  ASSUME NEW s, NEW t, NEW H, NEW G, NEW K, Runs(s, H, G), Runs(t, G, K)
  PROVE  Runs(s \o t, H, K)
<1>1. PICK g : Annotates(g, s) /\ g[1] = H /\ g[Len(s) + 1] = G
  BY Zenon DEF Runs
<1>2. PICK k : Annotates(k, t) /\ k[1] = G /\ k[Len(t) + 1] = K
  BY Zenon DEF Runs
<1>3. s \in Seq(Steps) /\ t \in Seq(Steps) /\ s \o t \in Seq(Steps)
  BY SMTT(30), SMTT(60) DEF Runs
<1>4. /\ Len(s) \in Nat /\ Len(t) \in Nat /\ Len(s \o t) = Len(s) + Len(t)
      /\ \A i \in 1 .. Len(s) : (s \o t)[i] = s[i]
      /\ \A i \in Len(s) + 1 .. Len(s) + Len(t) : (s \o t)[i] = t[i - Len(s)]
  BY <1>3, SMTT(30), SMTT(60)
<1> DEFINE m == Len(s)
           n == Len(t)
           h == [i \in 1 .. m + n + 1 |-> IF i <= m THEN g[i] ELSE k[i - m]]
<1>5. h \in [1 .. m + n + 1 -> Marks]
  <2>1. ASSUME NEW i \in 1 .. m + n + 1 PROVE h[i] \in Marks
    <3>1. CASE i <= m
      <4>1. i \in 1 .. m + 1 /\ h[i] = g[i]
        BY <1>4, <3>1, SMTT(30), SMTT(60)
      <4> QED
        BY <1>1, <4>1, Zenon DEF Annotates
    <3>2. CASE ~(i <= m)
      <4>1. i - m \in 1 .. n + 1 /\ h[i] = k[i - m]
        BY <1>4, <3>2, SMTT(30), SMTT(60)
      <4> QED
        BY <1>2, <4>1, Zenon DEF Annotates
    <3> QED
      BY <3>1, <3>2, Zenon
  <2> QED
    BY <2>1, Zenon
<1>6. h[1] = H /\ h[m + n + 1] = K
  BY <1>1, <1>2, <1>4, SMTT(30), SMTT(60)
<1>7. \A i \in 1 .. m + n : Fits((s \o t)[i], h[i], h[i + 1])
  <2> TAKE i \in 1 .. m + n
  <2>1. CASE i <= m
    <3>1. Fits(s[i], g[i], g[i + 1])
      BY <1>1, <1>4, <2>1, SMTT(30), SMTT(60) DEF Annotates
    <3>2. h[i] = g[i] /\ h[i + 1] = g[i + 1] /\ (s \o t)[i] = s[i]
      BY <1>1, <1>2, <1>4, <2>1, SMTT(30), SMTT(60)
    <3> QED
      BY <3>1, <3>2, Zenon
  <2>2. CASE ~(i <= m)
    <3>1. i - m \in 1 .. n /\ i \in m + 1 .. m + n
      BY <1>4, <2>2, SMTT(30), SMTT(60)
    <3>2. Fits(t[i - m], k[i - m], k[i - m + 1])
      BY <1>2, <3>1, SMTT(30), SMTT(60) DEF Annotates
    <3>3. h[i] = k[i - m] /\ h[i + 1] = k[i - m + 1] /\ (s \o t)[i] = t[i - m]
      BY <1>4, <2>2, <3>1, SMTT(30), SMTT(60)
    <3> QED
      BY <3>2, <3>3, Zenon
  <2> QED
    BY <2>1, <2>2, Zenon
<1> HIDE DEF h
<1>8. Annotates(h, s \o t)
  BY <1>4, <1>5, <1>7, SMTT(30), SMTT(60) DEF Annotates
<1> QED
  BY <1>3, <1>4, <1>6, <1>8, SMTT(30), SMTT(60) DEF Runs

(* All that is held in A is below rank r.                                  *)
Within(A, r) == \A m \in A.on \cup A.off : Rank(m) < r

(* s can run, and leaves the locks as they are, whatever is held below     *)
(* rank r.                                                                 *)
Outer(s, r) == \A A \in State : Within(A, r) => Runs(s, A, A)

(* The same where interrupts are known to be off.                          *)
Inner(s, r) == \A A \in State : A.off # {} /\ Within(A, r) => Runs(s, A, A)

LEMMA StateFields ==
  ASSUME NEW A \in State
  PROVE  /\ A.on \in SUBSET Lock /\ A.off \in SUBSET Held
         /\ A.on \cup A.off \subseteq Held /\ A = [on |-> A.on, off |-> A.off]
BY SMTT(30), SMTT(60) DEF State, Held

LEMMA WithinMore ==
  ASSUME NEW r \in Nat, NEW q \in Nat, r <= q, NEW A \in State, Within(A, r)
  PROVE  Within(A, q)
BY RankNat, StateFields, SMTT(30), SMTT(60) DEF Within

LEMMA OuterIsInner ==
  ASSUME NEW s, NEW r \in Nat, NEW q \in Nat, r <= q, Outer(s, q)
  PROVE  Outer(s, r) /\ Inner(s, r)
BY WithinMore, Zenon DEF Outer, Inner

LEMMA InnerBelow ==
  ASSUME NEW s, NEW r \in Nat, NEW q \in Nat, r <= q, Inner(s, q)
  PROVE  Inner(s, r)
BY WithinMore, Zenon DEF Inner

LEMMA EmptyBody ==
  ASSUME NEW r
  PROVE  Outer(<< >>, r) /\ Inner(<< >>, r)
BY RunsEmpty, Zenon DEF Outer, Inner, Marks

LEMMA OuterThen ==
  ASSUME NEW s, NEW t, NEW r, Outer(s, r), Outer(t, r)
  PROVE  Outer(s \o t, r)
BY RunsThen, Zenon DEF Outer

LEMMA InnerThen ==
  ASSUME NEW s, NEW t, NEW r, Inner(s, r), Inner(t, r)
  PROVE  Inner(s \o t, r)
BY RunsThen, Zenon DEF Inner

(* A critical section runs when its body runs above its lock.              *)
LEMMA SectionRuns ==
  ASSUME NEW l \in Lock, NEW body, NEW A \in Marks, NEW B \in Marks,
         NEW x \in {"lock", "lock_off"},
         Fits([op |-> x, lock |-> l], A, B), Runs(body, B, B),
         Fits([op |-> "unlock", lock |-> l], B, A)
  PROVE  Runs(<<[op |-> x, lock |-> l]>> \o body
                \o <<[op |-> "unlock", lock |-> l]>>, A, A)
<1>1. [op |-> x, lock |-> l] \in Steps /\ [op |-> "unlock", lock |-> l] \in Steps
  BY SMTT(30), SMTT(60) DEF Steps
<1>2. Runs(<<[op |-> x, lock |-> l]>> \o body, A, B)
  BY <1>1, RunsStep, RunsThen, Zenon
<1> QED
  BY <1>1, <1>2, RunsStep, RunsThen, Zenon

(* Interrupts are off already, or the lock switches them off.              *)
LEMMA SectionOff ==
  ASSUME NEW l \in Lock, NEW body, Inner(body, Rank(l) + 1),
         NEW A \in State, Within(A, Rank(l)),
         NEW x \in {"lock", "lock_off"}, x = "lock" => A.off # {}
  PROVE  Runs(<<[op |-> x, lock |-> l]>> \o body
                \o <<[op |-> "unlock", lock |-> l]>>, A, A)
<1> DEFINE B == WithOff(A, l)
           y == [op |-> x, lock |-> l]
           z == [op |-> "unlock", lock |-> l]
<1>1. Rank(l) \in 0 .. 13 /\ l \in Held
  BY RankNat, Zenon DEF Held
<1>2. /\ A.on \in SUBSET Lock /\ A.off \in SUBSET Held /\ A.on \cup A.off \subseteq Held
      /\ A = [on |-> A.on, off |-> A.off]
  BY StateFields, Zenon
<1>3. B.on = A.on /\ B.off = A.off \cup {l} /\ B \in State
  BY <1>1, <1>2, SMTT(30), SMTT(60) DEF State, WithOff
<1>4. l \notin A.off /\ Above(l, A) /\ Within(B, Rank(l) + 1)
  BY <1>1, <1>2, <1>3, RankNat, SMTT(30), SMTT(60) DEF Within, Above
<1>5. y.op = x /\ y.lock = l /\ z.op = "unlock" /\ z.lock = l
  BY SMTT(30), SMTT(60)
<1> HIDE DEF y, z
<1>6. Fits(y, A, B)
  <2>1. ~Exposed(y, A)
    BY <1>5, Zenon DEF Exposed
  <2> QED
    BY <1>4, <1>5, <2>1, Zenon DEF Fits, Takes
<1>7. A = [on |-> B.on, off |-> B.off \ {l}]
  <2>1. (A.off \cup {l}) \ {l} = A.off
    BY <1>4, SMTT(30), SMTT(60)
  <2> QED
    BY <1>2, <1>3, <2>1, Zenon
<1>8. Fits(z, B, A)
  BY <1>3, <1>4, <1>5, <1>7, Zenon DEF Fits, GivesOff
<1>9. Runs(body, B, B)
  BY <1>3, <1>4, Zenon DEF Inner
<1> HIDE DEF B
<1>10. A \in Marks /\ B \in Marks
  BY <1>3, Zenon DEF Marks
<1> QED
  BY <1>6, <1>8, <1>9, <1>10, SectionRuns, Zenon DEF y, z

(* Interrupts stay on under a lock that is listed.                         *)
LEMMA SectionOn ==
  ASSUME NEW l \in Lock, NEW body, Outer(body, Rank(l) + 1), l \in InterruptibleLocks,
         NEW A \in State, Within(A, Rank(l)), A.off = {}
  PROVE  Runs(<<[op |-> "lock", lock |-> l]>> \o body
                \o <<[op |-> "unlock", lock |-> l]>>, A, A)
<1> DEFINE B == WithOn(A, l)
           y == [op |-> "lock", lock |-> l]
           z == [op |-> "unlock", lock |-> l]
<1>1. Rank(l) \in 0 .. 13 /\ l \in Held
  BY RankNat, Zenon DEF Held
<1>2. /\ A.on \in SUBSET Lock /\ A.off \in SUBSET Held /\ A.on \cup A.off \subseteq Held
      /\ A = [on |-> A.on, off |-> A.off]
  BY StateFields, Zenon
<1>3. B.on = A.on \cup {l} /\ B.off = {} /\ B \in State
  BY <1>1, <1>2, SMTT(30), SMTT(60) DEF State, WithOn
<1>4. l \notin A.on /\ Above(l, A) /\ Within(B, Rank(l) + 1)
  BY <1>1, <1>2, <1>3, RankNat, SMTT(30), SMTT(60) DEF Within, Above
<1>5. y.op = "lock" /\ y.lock = l /\ z.op = "unlock" /\ z.lock = l
  BY SMTT(30), SMTT(60)
<1> HIDE DEF y, z
<1>6. Fits(y, A, B)
  <2>1. Exposed(y, A)
    BY <1>5, Zenon DEF Exposed
  <2> QED
    BY <1>4, <1>5, <2>1, Zenon DEF Fits, Takes
<1>7. A = [on |-> B.on \ {l}, off |-> {}]
  <2>1. (A.on \cup {l}) \ {l} = A.on
    BY <1>4, SMTT(30), SMTT(60)
  <2> QED
    BY <1>2, <1>3, <2>1, Zenon
<1>8. Fits(z, B, A)
  <2>1. l \in B.on
    BY <1>3, Zenon
  <2> QED
    BY <1>3, <1>5, <1>7, <2>1, Zenon DEF Fits, GivesOn
<1>9. Runs(body, B, B)
  BY <1>3, <1>4, Zenon DEF Outer
<1> HIDE DEF B
<1>10. A \in Marks /\ B \in Marks
  BY <1>3, Zenon DEF Marks
<1>11. "lock" \in {"lock", "lock_off"}
  OBVIOUS
<1> QED
  BY <1>6, <1>8, <1>9, <1>10, <1>11, SectionRuns, Zenon DEF y, z

LEMMA LockedInner ==
  ASSUME NEW l \in Lock, NEW body, Inner(body, Rank(l) + 1)
  PROVE  Inner(Locked(l, body), Rank(l))
BY SectionOff, Zenon DEF Inner, Locked

LEMMA LockedOffOuter ==
  ASSUME NEW l \in Lock, NEW body, Inner(body, Rank(l) + 1)
  PROVE  Outer(LockedOff(l, body), Rank(l))
BY SectionOff, Zenon DEF Outer, LockedOff

LEMMA LockedOuter ==
  ASSUME NEW l \in Lock, NEW body, Outer(body, Rank(l) + 1), l \in InterruptibleLocks
  PROVE  Outer(Locked(l, body), Rank(l))
<1>1. Inner(body, Rank(l) + 1)
  BY Zenon DEF Outer, Inner
<1> SUFFICES ASSUME NEW A \in State, Within(A, Rank(l))
             PROVE  Runs(Locked(l, body), A, A)
  BY Zenon DEF Outer
<1>2. CASE A.off = {}
  BY <1>2, SectionOn, Zenon DEF Locked
<1>3. CASE A.off # {}
  BY <1>1, <1>3, SectionOff, Zenon DEF Locked
<1> QED
  BY <1>2, <1>3, Zenon

(* The ranks one by one.                                                   *)
LEMMA RankIs ==
  /\ Rank("irq") = 0 /\ Rank("handlers") = 1 /\ Rank("keyboard") = 2
  /\ Rank("timers") = 3 /\ Rank("device") = 4 /\ Rank("waiting") = 5
  /\ Rank("cell") = 6 /\ Rank("runqueue") = 7 /\ Rank("tasks") = 8
  /\ Rank("stacks") = 9 /\ Rank("table") = 10 /\ Rank("physical") = 11
  /\ Rank("heap") = 12 /\ Rank("logger") = 13
BY SMTT(30), SMTT(60) DEF Rank

LEMMA LockedIs ==
  ASSUME NEW l \in Lock, NEW body, NEW q \in Nat, NEW r \in Nat,
         Inner(body, q), r <= Rank(l), Rank(l) < q
  PROVE  Inner(Locked(l, body), r)
<1>1. Rank(l) \in Nat /\ Rank(l) + 1 \in Nat /\ Rank(l) + 1 <= q
  BY RankNat, SMTT(30), SMTT(60) DEF Held
<1>2. Inner(body, Rank(l) + 1)
  BY <1>1, InnerBelow, Zenon
<1> QED
  BY <1>1, <1>2, LockedInner, InnerBelow, Zenon

LEMMA LockedOffIs ==
  ASSUME NEW l \in Lock, NEW body, NEW q \in Nat, NEW r \in Nat,
         Inner(body, q), r <= Rank(l), Rank(l) < q
  PROVE  Outer(LockedOff(l, body), r) /\ Inner(LockedOff(l, body), r)
<1>1. Rank(l) \in Nat /\ Rank(l) + 1 \in Nat /\ Rank(l) + 1 <= q
  BY RankNat, SMTT(30), SMTT(60) DEF Held
<1>2. Inner(body, Rank(l) + 1)
  BY <1>1, InnerBelow, Zenon
<1> QED
  BY <1>1, <1>2, LockedOffOuter, OuterIsInner, Zenon

(* A lock that programs take with interrupts on.                           *)
LEMMA LockedOnIs ==
  ASSUME NEW l \in InterruptibleLocks \cap Lock, NEW body, NEW q \in Nat, NEW r \in Nat,
         Outer(body, q), r <= Rank(l), Rank(l) < q
  PROVE  Outer(Locked(l, body), r)
<1>1. Rank(l) \in Nat /\ Rank(l) + 1 \in Nat /\ Rank(l) + 1 <= q
  BY RankNat, SMTT(30), SMTT(60) DEF Held
<1>2. Outer(body, Rank(l) + 1)
  BY <1>1, OuterIsInner, Zenon
<1> QED
  BY <1>1, <1>2, LockedOuter, OuterIsInner, Zenon

(* The sections that most code is built from.                              *)
LEMMA LeafCalls ==
  ASSUME NEW r \in Nat
  PROVE  /\ r <= 13 => Outer(Log, r) /\ Inner(Log, r)
         /\ r <= 12 => Outer(HeapCall, r) /\ Inner(HeapCall, r)
         /\ r <= 11 => Inner(Physical, r)
         /\ r <= 10 => Inner(KernelTable, r)
         /\ r <= 8 => /\ Outer(CurrentTask, r) /\ Inner(CurrentTask, r)
                      /\ Outer(AwakenTask, r) /\ Inner(AwakenTask, r)
<1>1. Inner(<< >>, 14)
  BY EmptyBody, Zenon
<1>2. /\ 14 \in Nat /\ 11 \in Nat /\ 13 < 14 /\ 12 < 14 /\ 11 < 14 /\ 10 < 11 /\ 8 < 14
      /\ 11 <= 11
  BY SMTT(30), SMTT(60)
<1>3. {"logger", "heap", "physical", "table", "tasks"} \subseteq Lock
  BY Zenon DEF Lock
<1>4. Inner(Physical, 11)
  BY <1>1, <1>2, <1>3, RankIs, LockedIs, Zenon DEF Physical
<1>5. r <= 13 => Outer(Log, r) /\ Inner(Log, r)
  BY <1>1, <1>2, <1>3, RankIs, LockedOffIs, Zenon DEF Log
<1>6. r <= 12 => Outer(HeapCall, r) /\ Inner(HeapCall, r)
  BY <1>1, <1>2, <1>3, RankIs, LockedOffIs, Zenon DEF HeapCall
<1>7. r <= 11 => Inner(Physical, r)
  BY <1>1, <1>2, <1>3, RankIs, LockedIs, Zenon DEF Physical
<1>8. r <= 10 => Inner(KernelTable, r)
  BY <1>2, <1>3, <1>4, RankIs, LockedIs, Zenon DEF KernelTable
<1>9. r <= 8 => Outer(CurrentTask, r) /\ Inner(CurrentTask, r)
  BY <1>1, <1>2, <1>3, RankIs, LockedOffIs, Zenon DEF CurrentTask
<1>10. AwakenTask = CurrentTask
  BY Zenon DEF AwakenTask, CurrentTask
<1> QED
  BY <1>5, <1>6, <1>7, <1>8, <1>9, <1>10, Zenon

(* Stacks are mapped and unmapped under the lock of the stack allocator.   *)
LEMMA StackCalls ==
  ASSUME NEW r \in Nat, r <= 9
  PROVE  /\ Outer(AllocateStack, r) /\ Inner(AllocateStack, r)
         /\ Outer(DropStack, r) /\ Inner(DropStack, r)
<1>1. Inner(KernelTable, 10) /\ 10 \in Nat /\ 9 < 10
  BY LeafCalls, SMTT(30), SMTT(60)
<1>2. Inner(MapStack, 10)
  BY <1>1, InnerThen, Zenon DEF MapStack
<1>3. "stacks" \in Lock
  BY Zenon DEF Lock
<1> QED
  BY <1>1, <1>2, <1>3, RankIs, LockedOffIs, Zenon DEF AllocateStack, DropStack, FreeStack

(* new_task holds TASKS or the run queue, never both.                      *)
LEMMA NewTaskRuns == Outer(NewTask, 1)
<1> DEFINE made == AllocateStack \o KernelTable \o HeapCall
<1>1. /\ 9 \in Nat /\ 12 \in Nat /\ 1 \in Nat /\ 9 <= 9 /\ 9 <= 10 /\ 9 <= 12 /\ 12 <= 12
      /\ 1 <= 8 /\ 8 < 9 /\ 1 <= 7 /\ 7 < 12
  BY SMTT(30), SMTT(60)
<1>2. /\ Inner(AllocateStack, 9) /\ Inner(KernelTable, 9) /\ Inner(HeapCall, 9)
      /\ Inner(HeapCall, 12)
  BY <1>1, StackCalls, LeafCalls, Zenon
<1>3. Inner(made, 9)
  BY <1>2, InnerThen, Zenon
<1>4. "tasks" \in Lock /\ "runqueue" \in Lock
  BY Zenon DEF Lock
<1> HIDE DEF made
<1>5. Outer(LockedOff("tasks", made), 1)
  BY <1>1, <1>3, <1>4, RankIs, LockedOffIs, Zenon
<1>6. Outer(LockedOff("runqueue", HeapCall), 1)
  BY <1>1, <1>2, <1>4, RankIs, LockedOffIs, Zenon
<1> QED
  BY <1>5, <1>6, OuterThen, Zenon DEF NewTask, made

(* The switch of tasks fits wherever nothing is held.                      *)
LEMMA SwapTasksRuns == Outer(SwapTasks, 1)
<1> DEFINE remove == LockedOff("tasks", HeapCall)
           find == LockedOff("tasks", << >>)
           swap == CurrentTask \o remove \o DropStack \o CurrentTask \o find \o Log
<1>1. /\ 8 \in Nat /\ 12 \in Nat /\ 1 \in Nat /\ 8 <= 8 /\ 8 <= 9 /\ 8 <= 12 /\ 12 <= 12
      /\ 8 <= 13 /\ 8 < 12 /\ 1 <= 7 /\ 7 < 8
  BY SMTT(30), SMTT(60)
<1>2. "tasks" \in Lock /\ "runqueue" \in Lock
  BY Zenon DEF Lock
<1>3. /\ Inner(CurrentTask, 8) /\ Inner(Log, 8) /\ Inner(HeapCall, 12)
      /\ Inner(DropStack, 8) /\ Inner(<< >>, 12)
  BY <1>1, StackCalls, LeafCalls, EmptyBody, Zenon
<1>4. Inner(remove, 8) /\ Inner(find, 8)
  BY <1>1, <1>2, <1>3, RankIs, LockedOffIs, ZenonT(60)
<1> HIDE DEF remove, find
<1>5. Inner(CurrentTask \o remove \o DropStack, 8)
  BY <1>3, <1>4, InnerThen, Zenon
<1>6. Inner(swap, 8)
  BY <1>3, <1>4, <1>5, InnerThen, Zenon
<1> HIDE DEF swap
<1>7. Outer(LockedOff("runqueue", swap), 1)
  BY <1>1, <1>2, <1>6, RankIs, LockedOffIs, Zenon
<1> QED
  BY <1>7, Zenon DEF SwapTasks, swap, remove, find

(* Below rank 1 there is no lock.                                          *)
LEMMA WithinHandler ==
  ASSUME NEW A \in State, Within(A, 1)
  PROVE  A.on = {} /\ A.off \subseteq {"irq"}
<1>1. \A l \in Held : Rank(l) < 1 => l = "irq"
  BY RankIs, SMTT(30), SMTT(60) DEF Held, Lock
<1>2. "irq" \notin Lock
  BY Zenon DEF Lock
<1>3. A.on \in SUBSET Lock /\ A.off \in SUBSET Held /\ Lock \subseteq Held
  BY StateFields, Zenon DEF Held
<1>4. \A l \in A.on \cup A.off : l = "irq"
  BY <1>1, <1>3, Zenon DEF Within
<1> QED
  BY ONLY <1>2, <1>3, <1>4, SMTT(30), SMTT(60)

(* So does the scheduler up to the question whether to preempt.            *)
LEMMA RunSchedulerRuns == Outer(RunScheduler, 1)
<1>1. 1 \in Nat /\ 1 <= 8
  BY SMTT(30), SMTT(60)
<1>2. Outer(CurrentTask, 1)
  BY <1>1, LeafCalls, Zenon
<1> DEFINE x == [op |-> "preempt?"]
<1>3. x \in Steps /\ x.op = "preempt?"
  BY SMTT(30), SMTT(60) DEF Steps
<1> HIDE DEF x
<1>4. Outer(<<x>>, 1)
  <2> SUFFICES ASSUME NEW A \in State, Within(A, 1)
               PROVE  Fits(x, A, A)
    BY <1>3, RunsStep, Zenon DEF Outer, Marks
  <2> QED
    BY <1>3, WithinHandler, Zenon DEF Fits
<1> QED
  BY <1>2, <1>4, OuterThen, Zenon DEF RunScheduler, x

(* The sections of mutexes, wait cells and devices.                        *)
LEMMA OffSections ==
  /\ Outer(LockedOff("waiting", HeapCall), 1) /\ Outer(LockedOff("cell", HeapCall), 1)
  /\ Outer(LockedOff("cell", AwakenTask), 1) /\ Outer(AddRequest, 1)
<1>1. /\ 1 \in Nat /\ 8 \in Nat /\ 11 \in Nat /\ 8 <= 8 /\ 8 <= 12 /\ 11 <= 11 /\ 11 <= 12
      /\ 1 <= 4 /\ 4 < 11 /\ 1 <= 5 /\ 5 < 8 /\ 1 <= 6 /\ 6 < 8
  BY SMTT(30), SMTT(60)
<1>2. "waiting" \in Lock /\ "cell" \in Lock /\ "device" \in Lock
  BY Zenon DEF Lock
<1>3. /\ Inner(HeapCall, 8) /\ Inner(AwakenTask, 8)
      /\ Inner(Physical, 11) /\ Inner(HeapCall, 11)
  BY <1>1, LeafCalls, Zenon
<1>4. Inner(Physical \o HeapCall, 11)
  BY <1>3, InnerThen, Zenon
<1>5. Outer(LockedOff("waiting", HeapCall), 1)
  BY <1>1, <1>2, <1>3, RankIs, LockedOffIs, Zenon
<1>6. Outer(LockedOff("cell", HeapCall), 1)
  BY <1>1, <1>2, <1>3, RankIs, LockedOffIs, Zenon
<1>7. Outer(LockedOff("cell", AwakenTask), 1)
  BY <1>1, <1>2, <1>3, RankIs, LockedOffIs, Zenon
<1>8. Outer(AddRequest, 1)
  BY <1>1, <1>2, <1>4, RankIs, LockedOffIs, Zenon DEF AddRequest
<1> QED
  BY <1>5, <1>6, <1>7, <1>8, Zenon

(* The sections that run with interrupts on, in the programs that have     *)
(* them.                                                                   *)
LEMMA OnSections ==
  /\ "physical" \in InterruptibleLocks => Outer(Physical, 1)
  /\ "tasks" \in InterruptibleLocks => Outer(SysfsTasks, 1)
  /\ "waiting" \in InterruptibleLocks => Outer(WakeTasks, 1)
  /\ "timers" \in InterruptibleLocks => Outer(AddTimer, 1)
<1>1. /\ 1 \in Nat /\ 8 \in Nat /\ 12 \in Nat /\ 8 <= 8 /\ 12 <= 12
      /\ 1 <= 11 /\ 11 < 12 /\ 1 <= 8 /\ 8 < 12 /\ 1 <= 5 /\ 5 < 8 /\ 1 <= 3 /\ 3 < 12
  BY SMTT(30), SMTT(60)
<1>2. {"physical", "tasks", "waiting", "timers"} \subseteq Lock
  BY Zenon DEF Lock
<1>3. Outer(HeapCall, 12) /\ Outer(AwakenTask, 8) /\ Outer(<< >>, 12)
  BY <1>1, LeafCalls, EmptyBody, Zenon
<1>4. "physical" \in InterruptibleLocks => Outer(Physical, 1)
  BY <1>1, <1>2, <1>3, RankIs, LockedOnIs, Zenon DEF Physical
<1>5. "tasks" \in InterruptibleLocks => Outer(SysfsTasks, 1)
  BY <1>1, <1>2, <1>3, RankIs, LockedOnIs, Zenon DEF SysfsTasks
<1>6. "waiting" \in InterruptibleLocks => Outer(WakeTasks, 1)
  BY <1>1, <1>2, <1>3, RankIs, LockedOnIs, Zenon DEF WakeTasks
<1>7. "timers" \in InterruptibleLocks => Outer(AddTimer, 1)
  BY <1>1, <1>2, <1>3, RankIs, LockedOnIs, Zenon DEF AddTimer
<1> QED
  BY <1>4, <1>5, <1>6, <1>7, Zenon

(* The locks that the programs in use take with interrupts on.             *)
LEMMA InterruptibleOf ==
  ASSUME NEW c \in CPU, NEW p \in TaskCode[c], p \in DOMAIN TakenWithInterruptsOn
  PROVE  TakenWithInterruptsOn[p] \in InterruptibleLocks
<1>1. p \in (UNION {TaskCode[d] : d \in CPU}) \cap DOMAIN TakenWithInterruptsOn
  <2>1. TaskCode[c] \in {TaskCode[d] : d \in CPU}
    OBVIOUS
  <2>2. p \in UNION {TaskCode[d] : d \in CPU}
    BY <2>1, Zenon
  <2> QED
    BY <2>2, Zenon
<1> QED
  BY <1>1, Zenon DEF InterruptibleLocks

(* The code of tasks starts and ends without locks.                        *)
LEMMA ProgramsRun ==
  ASSUME LockConstants, NEW c \in CPU, NEW p \in TaskCode[c]
  PROVE  Runs(Programs[p], Nothing, Nothing)
<1>1. 1 \in Nat /\ 1 <= 13 /\ 1 <= 12 /\ 1 <= 9 /\ 1 <= 8
  BY SMTT(30), SMTT(60)
<1>2. /\ Outer(HeapCall, 1) /\ Outer(DropStack, 1) /\ Outer(CurrentTask, 1)
      /\ Outer(AwakenTask, 1) /\ Outer(Log, 1)
  BY <1>1, LeafCalls, StackCalls, Zenon
<1>3. Outer(QueueForMutex, 1) /\ Outer(QueueForCell, 1)
  BY <1>2, OffSections, OuterThen, Zenon DEF QueueForMutex, QueueForCell
<1>4. Outer(KillCurrentTask, 1)
  BY <1>2, OffSections, RunSchedulerRuns, OuterThen, Zenon DEF KillCurrentTask
<1>5. p \in DOMAIN Programs
  BY Zenon DEF LockConstants
<1>6. p \in {"alloc", "new_task", "schedule", "request", "drop_task", "kill_task"}
        => Outer(Programs[p], 1)
  <2>1. /\ Programs["alloc"] = HeapCall /\ Programs["new_task"] = NewTask
        /\ Programs["schedule"] = RunScheduler /\ Programs["request"] = AddRequest
        /\ Programs["drop_task"] = DropStack /\ Programs["kill_task"] = KillCurrentTask
    BY Zenon DEF Programs
  <2> QED
    BY <1>2, <1>4, <2>1, OffSections, NewTaskRuns, RunSchedulerRuns, Zenon
<1>7. p \in {"lock", "lock_wait", "wait_task"} => Outer(Programs[p], 1)
  <2>1. /\ Programs["lock"] = QueueForMutex \o AwakenTask
        /\ Programs["lock_wait"] = QueueForMutex \o RunScheduler
        /\ Programs["wait_task"] = QueueForCell \o RunScheduler
    BY Zenon DEF Programs
  <2> QED
    BY <1>2, <1>3, <2>1, RunSchedulerRuns, OuterThen, Zenon
<1>8. /\ p \in {"response", "exec"} => "physical" \in InterruptibleLocks
      /\ p = "ls_tasks" => "tasks" \in InterruptibleLocks
      /\ p = "unlock" => "waiting" \in InterruptibleLocks
      /\ p \in {"timer", "sleep"} => "timers" \in InterruptibleLocks
  <2>1. /\ TakenWithInterruptsOn["response"] = "physical"
        /\ TakenWithInterruptsOn["exec"] = "physical"
        /\ TakenWithInterruptsOn["ls_tasks"] = "tasks"
        /\ TakenWithInterruptsOn["unlock"] = "waiting"
        /\ TakenWithInterruptsOn["timer"] = "timers"
        /\ TakenWithInterruptsOn["sleep"] = "timers"
        /\ DOMAIN TakenWithInterruptsOn =
             {"response", "exec", "ls_tasks", "unlock", "timer", "sleep"}
    BY Zenon DEF TakenWithInterruptsOn
  <2> QED
    BY <2>1, InterruptibleOf, Zenon
<1>9. p \in {"response", "exec", "ls_tasks", "unlock", "timer", "sleep"}
        => Outer(Programs[p], 1)
  <2>1. /\ Programs["response"] = Physical /\ Programs["exec"] = CurrentTask \o Physical
        /\ Programs["ls_tasks"] = SysfsTasks /\ Programs["unlock"] = WakeTasks
        /\ Programs["timer"] = AddTimer
        /\ Programs["sleep"] = CurrentTask \o AddTimer \o RunScheduler
    BY Zenon DEF Programs, DropBuffer, SetUpSegments
  <2> QED
    BY <1>2, <1>8, <2>1, OnSections, RunSchedulerRuns, OuterThen, Zenon
<1>10. Outer(Programs[p], 1)
  <2>1. DOMAIN Programs =
          {"alloc", "new_task", "schedule", "request", "response", "exec", "drop_task",
           "ls_tasks", "lock", "lock_wait", "unlock", "wait_task", "kill_task", "timer", "sleep"}
    BY Zenon DEF Programs
  <2> QED
    BY <1>5, <1>6, <1>7, <1>9, <2>1, Zenon
<1>11. Nothing \in State /\ Within(Nothing, 1)
  BY SMTT(30), SMTT(60) DEF Nothing, State, Within
<1> QED
  BY <1>10, <1>11, Zenon DEF Outer

(* A handler takes and gives back its locks before it returns.             *)
LEMMA HandlersRun ==
  ASSUME NEW p \in DOMAIN Handlers
  PROVE  Runs(CommonHandler(p), InHandler, Returned) /\ CommonHandler(p) # << >>
<1>1. /\ 1 \in Nat /\ 8 \in Nat /\ 13 \in Nat /\ 14 \in Nat /\ 1 <= 1 /\ 1 < 14 /\ 1 <= 2
      /\ 2 < 13 /\ 1 <= 3 /\ 3 < 8 /\ 1 <= 4 /\ 4 < 8 /\ 1 <= 8 /\ 8 <= 8 /\ 8 <= 11
      /\ 8 <= 12 /\ 13 <= 13
  BY SMTT(30), SMTT(60)
<1>2. "handlers" \in Lock /\ "timers" \in Lock /\ "device" \in Lock /\ "keyboard" \in Lock
  BY Zenon DEF Lock
<1>3. /\ Inner(AwakenTask, 8) /\ Inner(CurrentTask, 1) /\ Inner(HeapCall, 8)
      /\ Inner(DropBuffer, 8) /\ Inner(<< >>, 14) /\ Inner(Log, 13)
  BY <1>1, LeafCalls, EmptyBody, Zenon DEF DropBuffer
<1>4. Inner(AwakenTask \o HeapCall, 8) /\ Inner(AwakenTask \o DropBuffer, 8)
  BY <1>3, InnerThen, Zenon
<1>5. Inner(TickBroadcast, 1)
  BY <1>1, <1>2, <1>4, RankIs, LockedIs, ZenonT(60) DEF TickBroadcast
<1>6. Inner(ReadDone, 1) /\ Inner(WriteDone, 1)
  BY <1>1, <1>2, <1>4, RankIs, LockedOffIs, ZenonT(60) DEF ReadDone, WriteDone
<1>7. Inner(KeyPressed, 1)
  BY <1>1, <1>2, <1>3, RankIs, LockedIs, ZenonT(60) DEF KeyPressed
<1>8. Inner(Handlers[p], 1)
  <2>1. /\ Handlers["broadcast"] = TickBroadcast /\ Handlers["tick"] = CurrentTask
        /\ Handlers["read"] = ReadDone /\ Handlers["written"] = WriteDone
        /\ Handlers["key"] = KeyPressed
        /\ DOMAIN Handlers = {"broadcast", "tick", "read", "written", "key"}
    BY Zenon DEF Handlers, SchedulerTick
  <2> QED
    BY <1>3, <1>5, <1>6, <1>7, <2>1, Zenon
<1>9. Inner(Locked("handlers", << >>), 1)
  BY <1>1, <1>2, <1>3, RankIs, LockedIs, ZenonT(60)
<1> DEFINE body == Locked("handlers", << >>) \o Handlers[p]
           x == [op |-> "resched?"]
           z == [op |-> "iret"]
           last == <<x, z>>
<1>10. Inner(body, 1)
  BY <1>8, <1>9, InnerThen, Zenon
<1>11. /\ InHandler \in State /\ InHandler.on = {} /\ InHandler.off = {"irq"}
       /\ Within(InHandler, 1)
  BY RankIs, SMTT(30), SMTT(60) DEF InHandler, State, Held, Within
<1>12. x \in Steps /\ z \in Steps /\ x.op = "resched?" /\ z.op = "iret"
  BY SMTT(30), SMTT(60) DEF Steps
<1>13. last = <<x>> \o <<z>>
  BY SMTT(30), SMTT(60)
<1>14. CommonHandler(p) = body \o last
  BY Zenon DEF CommonHandler
<1> HIDE DEF body, x, z, last
<1>15. Fits(x, InHandler, InHandler) /\ Fits(z, InHandler, Returned)
  BY <1>11, <1>12, Zenon DEF Fits
<1>16. InHandler \in Marks /\ Returned \in Marks
  BY <1>11, Zenon DEF Marks
<1>17. Runs(last, InHandler, Returned)
  BY <1>12, <1>13, <1>15, <1>16, RunsStep, RunsThen, Zenon
<1>18. Runs(body, InHandler, InHandler)
  BY <1>10, <1>11, Zenon DEF Inner
<1>19. Runs(body \o last, InHandler, Returned)
  BY <1>17, <1>18, RunsThen, Zenon
<1>20. InHandler # Returned
  <2>1. Returned.off = {"returned"} /\ "returned" # "irq"
    BY SMTT(30), SMTT(60) DEF Returned
  <2> QED
    BY <1>11, <2>1, Zenon
<1>21. CommonHandler(p) # << >>
  BY <1>14, <1>19, <1>20, RunsNothing, Zenon
<1> QED
  BY <1>14, <1>19, <1>21, Zenon

-----------------------------------------------------------------------------
AnyStep == Steps \cup Underway

(* What is left of some code, the first step possibly under way, can run.  *)
Goes(s, H, K) ==
  /\ s \in Seq(AnyStep)
  /\ s = << >> => H = K
  /\ s # << >> => \E G \in Marks : Fits(Head(s), H, G) /\ Runs(Tail(s), G, K)

(* The locks of CPU c taken while interrupts were on, and what keeps them  *)
(* off.                                                                    *)
On(c) == {l \in Lock : owner[l] # Free /\ owner[l].cpu = c /\ ~owner[l].off}
Off(c) ==
  {l \in Lock : owner[l] # Free /\ owner[l].cpu = c /\ owner[l].off}
    \cup (IF irq[c] # << >> THEN {"irq"} ELSE {})

(* What the code that runs on c holds; the task under a handler keeps the  *)
(* locks in On(c).                                                         *)
Holds(c) == [on |-> IF irq[c] # << >> THEN {} ELSE On(c), off |-> Off(c)]

(* What is left when the code that runs now is done.                       *)
End(c) == IF irq[c] # << >> THEN Returned ELSE Nothing

(* The step under way switches interrupts on, now or when its lock is      *)
(* given back.                                                             *)
TurnsOn(s) == s # << >> /\ Head(s).op \in {"spin", "restore"} /\ Head(s).enable

(* What a handler may have interrupted, with the locks it holds.           *)
Resumable(s, locks) == Goes(s, [on |-> locks, off |-> {}], Nothing) /\ ~TurnsOn(s)

(* The type of the state.                                                  *)
Typed ==
  /\ owner \in [Lock -> [cpu : CPU, enable : BOOLEAN, off : BOOLEAN] \cup {Free}]
  /\ ints \in [CPU -> BOOLEAN]
  /\ task \in [CPU -> Seq(AnyStep)] /\ irq \in [CPU -> Seq(AnyStep)]
  /\ pending \subseteq Interrupts

(* The rest of the code of c runs from what it holds.  Interrupts are on   *)
(* just where nothing keeps them off.                                      *)
CpuFits(c) ==
  /\ Goes(Code(c), Holds(c), End(c))
  /\ irq[c] # << >> => Resumable(task[c], On(c))
  /\ ints[c] <=> (Off(c) = {} /\ ~TurnsOn(Code(c)))

(* A guard will switch interrupts on if it was the first to switch them    *)
(* off.  The locks taken with interrupts on are those listed.              *)
LockFits(l) ==
  /\ owner[l] # Free /\ owner[l].off =>
       (owner[l].enable <=> \A m \in Off(owner[l].cpu) \ {l} : Rank(l) < Rank(m))
  /\ owner[l] # Free /\ ~owner[l].off => ~owner[l].enable /\ l \in InterruptibleLocks

(* The inductive invariant.                                                *)
LockInv ==
  /\ Typed
  /\ \A c \in CPU : CpuFits(c)
  /\ \A l \in Lock : LockFits(l)

LEMMA HoldsIs ==
  ASSUME NEW c
  PROVE  /\ Holds(c) \in State /\ Holds(c).off = Off(c)
         /\ Holds(c).on = IF irq[c] # << >> THEN {} ELSE On(c)
         /\ On(c) \in SUBSET Lock /\ Off(c) \in SUBSET Held
         /\ "irq" \in Off(c) <=> irq[c] # << >>
<1>1. On(c) \in SUBSET Lock /\ Off(c) \in SUBSET Held /\ "irq" \notin Lock
  BY Zenon DEF On, Off, Held, Lock
<1>2. "irq" \in Off(c) <=> irq[c] # << >>
  BY <1>1, Zenon DEF Off
<1> DEFINE locks == IF irq[c] # << >> THEN {} ELSE On(c)
<1>3. locks \in SUBSET Lock
  BY <1>1, Zenon
<1>4. Holds(c) = [on |-> locks, off |-> Off(c)]
  BY Zenon DEF Holds
<1> HIDE DEF locks
<1>5. Holds(c) \in State /\ Holds(c).off = Off(c) /\ Holds(c).on = locks
  BY <1>1, <1>3, <1>4, SMTT(30), SMTT(60) DEF State
<1> QED
  BY <1>1, <1>2, <1>5, Zenon DEF locks

(* Code that runs goes, and no step of it is under way.                    *)
LEMMA RunsGoes ==
  ASSUME NEW s, NEW H, NEW K, Runs(s, H, K)
  PROVE  Goes(s, H, K) /\ ~TurnsOn(s)
<1>1. s \in Seq(Steps) /\ s \in Seq(AnyStep)
  BY SMTT(30), SMTT(60) DEF Runs, AnyStep
<1>2. s = << >> => H = K
  BY RunsNothing, Zenon
<1>3. s # << >> => Head(s) \in Steps /\ \E G \in Marks : Fits(Head(s), H, G) /\ Runs(Tail(s), G, K)
  BY RunsFirst, Zenon
<1>4. \A x \in Steps : x.op \notin {"spin", "restore"}
  BY SMTT(30), SMTT(60) DEF Steps
<1>5. ~TurnsOn(s)
  BY <1>3, <1>4, Zenon DEF TurnsOn
<1> QED
  BY <1>1, <1>2, <1>3, <1>5, Zenon DEF Goes

(* A step that fits before code that runs.                                 *)
LEMMA GoesOn ==
  ASSUME NEW x \in AnyStep, NEW t, NEW H, NEW G \in Marks, NEW K, Fits(x, H, G), Runs(t, G, K)
  PROVE  /\ Goes(<<x>> \o t, H, K)
         /\ TurnsOn(<<x>> \o t) <=> x.op \in {"spin", "restore"} /\ x.enable
<1>1. t \in Seq(AnyStep)
  BY RunsGoes, Zenon DEF Goes
<1>2. /\ <<x>> \o t \in Seq(AnyStep) /\ <<x>> \o t # << >>
      /\ Head(<<x>> \o t) = x /\ Tail(<<x>> \o t) = t
  BY <1>1, SMTT(30), SMTT(60)
<1> QED
  BY <1>2, Zenon DEF Goes, TurnsOn

(* The next step of c fits what c holds.                                   *)
LEMMA NowRuns ==
  ASSUME NEW c \in CPU, Typed, CpuFits(c), Code(c) # << >>
  PROVE  /\ Step(c) \in AnyStep /\ Tail(Code(c)) \in Seq(AnyStep)
         /\ Holds(c) \in State
         /\ \E G \in Marks : Fits(Step(c), Holds(c), G) /\ Runs(Tail(Code(c)), G, End(c))
<1>1. Code(c) \in Seq(AnyStep)
  BY Zenon DEF CpuFits, Goes
<1>2. Step(c) \in AnyStep /\ Tail(Code(c)) \in Seq(AnyStep)
  BY <1>1, SMTT(30), SMTT(60) DEF Step
<1>3. Holds(c) \in State
  BY HoldsIs, Zenon
<1> QED
  BY <1>2, <1>3, Zenon DEF CpuFits, Goes, Step

(* c is done with a step, s is put in its place, and A is held.            *)
Proceeded(c, s, A) ==
  /\ task' \in [CPU -> Seq(AnyStep)] /\ irq' \in [CPU -> Seq(AnyStep)]
  /\ \A d \in CPU \ {c} : task'[d] = task[d] /\ irq'[d] = irq[d]
  /\ irq'[c] # << >> <=> irq[c] # << >>
  /\ Code(c)' = s \o Tail(Code(c))
  /\ Goes(Code(c)', A, End(c)')
  /\ irq'[c] # << >> => Resumable(task'[c], On(c))

(* What Continue does to the code of c and to nobody else's.               *)
LEMMA Proceed ==
  ASSUME NEW c \in CPU, Typed, CpuFits(c), Code(c) # << >>, NEW s \in Seq(AnyStep),
         Continue(c, s), NEW A \in State,
         Goes(s \o Tail(Code(c)), A, End(c))
  PROVE  Proceeded(c, s, A)
<1>1. s \o Tail(Code(c)) \in Seq(AnyStep)
  BY Zenon DEF Goes
<1>2. Returned \notin State
  <2>1. Returned.off = {"returned"} /\ "returned" \notin Held
    BY SMTT(30), SMTT(60) DEF Returned, Held, Lock
  <2> QED
    BY <2>1, StateFields, Zenon
<1>3. CASE irq[c] # << >>
  <2>1. Code(c) = irq[c] /\ End(c) = Returned
    BY <1>3, Zenon DEF Code, End
  <2>2. irq' = [irq EXCEPT ![c] = s \o Tail(irq[c])] /\ task' = task
    BY <1>3, Zenon DEF Continue
  <2>3. /\ irq' \in [CPU -> Seq(AnyStep)] /\ irq'[c] = s \o Tail(irq[c])
        /\ \A d \in CPU \ {c} : irq'[d] = irq[d]
    BY <1>1, <2>1, <2>2, SMTT(30), SMTT(60) DEF Typed
  <2>4. irq'[c] # << >>
    BY <1>2, <2>1, <2>3, Zenon DEF Goes
  <2>5. Code(c)' = irq'[c] /\ End(c)' = Returned
    BY <2>4, Zenon DEF Code, End
  <2> QED
    BY <1>3, <2>1, <2>2, <2>3, <2>4, <2>5, Zenon DEF Typed, CpuFits, Proceeded
<1>4. CASE irq[c] = << >>
  <2>1. Code(c) = task[c] /\ End(c) = Nothing
    BY <1>4, Zenon DEF Code, End
  <2>2. task' = [task EXCEPT ![c] = s \o Tail(task[c])] /\ irq' = irq
    BY <1>4, Zenon DEF Continue
  <2>3. /\ task' \in [CPU -> Seq(AnyStep)] /\ task'[c] = s \o Tail(task[c])
        /\ \A d \in CPU \ {c} : task'[d] = task[d]
    BY <1>1, <2>1, <2>2, SMTT(30), SMTT(60) DEF Typed
  <2>4. Code(c)' = task'[c] /\ End(c)' = Nothing
    BY <1>4, <2>2, Zenon DEF Code, End
  <2> QED
    BY <1>4, <2>1, <2>2, <2>3, <2>4, Zenon DEF Typed, Proceeded
<1> QED
  BY <1>3, <1>4, Zenon

(* c holds l.                                                              *)
Mine(c, l) == owner[l] # Free /\ owner[l].cpu = c

(* A step of c that only takes and gives back locks for c preserves the    *)
(* invariant when it does so for c and its locks.                          *)
LEMMA OneCpu ==
  ASSUME LockInv, NEW c \in CPU, Typed', CpuFits(c)',
         \A d \in CPU \ {c} : task'[d] = task[d] /\ irq'[d] = irq[d] /\ ints'[d] = ints[d],
         \A l \in Lock : \/ owner'[l] = owner[l]
                         \/ (owner[l] = Free \/ Mine(c, l)) /\ (owner'[l] = Free \/ Mine(c, l)'),
         \A l \in Lock : Mine(c, l)' => LockFits(l)'
  PROVE  LockInv'
<1>1. \A d \in CPU \ {c} : On(d)' = On(d) /\ Off(d)' = Off(d)
  <2> TAKE d \in CPU \ {c}
  <2>1. ASSUME NEW l \in Lock PROVE Mine(d, l)' <=> Mine(d, l)
    <3>1. owner'[l] = owner[l] => (Mine(d, l)' <=> Mine(d, l))
      BY Zenon DEF Mine
    <3>2. (owner[l] = Free \/ Mine(c, l)) => ~Mine(d, l)
      BY Zenon DEF Mine
    <3>3. (owner'[l] = Free \/ Mine(c, l)') => ~Mine(d, l)'
      BY Zenon DEF Mine
    <3> QED
      BY <3>1, <3>2, <3>3, Zenon
  <2>2. irq'[d] = irq[d]
    BY Zenon
  <2>3. ASSUME NEW l \in Lock, Mine(d, l) PROVE owner'[l] = owner[l]
    BY <2>3, Zenon DEF Mine
  <2>4. On(d)' = On(d)
    BY <2>1, <2>3, Zenon DEF On, Mine
  <2>5. Off(d)' = Off(d)
    BY <2>1, <2>2, <2>3, Zenon DEF Off, Mine
  <2> QED
    BY <2>4, <2>5, Zenon
<1>2. \A d \in CPU \ {c} : CpuFits(d)'
  <2> TAKE d \in CPU \ {c}
  <2>1. /\ task'[d] = task[d] /\ irq'[d] = irq[d] /\ ints'[d] = ints[d]
        /\ On(d)' = On(d) /\ Off(d)' = Off(d)
    BY <1>1, Zenon
  <2>2. Code(d)' = Code(d) /\ End(d)' = End(d) /\ Holds(d)' = Holds(d)
    BY <2>1, Zenon DEF Code, End, Holds
  <2>3. CpuFits(d)
    BY Zenon DEF LockInv
  <2> QED
    BY <2>1, <2>2, <2>3, Zenon DEF CpuFits
<1>3. \A l \in Lock : LockFits(l)'
  <2> TAKE l \in Lock
  <2>1. CASE Mine(c, l)' \/ owner'[l] = Free
    BY <2>1, Zenon DEF LockFits
  <2>2. CASE ~Mine(c, l)' /\ owner'[l] # Free
    <3>1. owner'[l] = owner[l] /\ owner[l] # Free /\ owner[l].cpu # c
      BY <2>2, Zenon DEF Mine
    <3>2. owner[l].cpu \in CPU
      BY <3>1, SMTT(30), SMTT(60) DEF LockInv, Typed
    <3>3. Off(owner[l].cpu)' = Off(owner[l].cpu)
      BY <1>1, <3>1, <3>2, Zenon
    <3>4. LockFits(l)
      BY Zenon DEF LockInv
    <3> QED
      BY <3>1, <3>3, <3>4, Zenon DEF LockFits
  <2> QED
    BY <2>1, <2>2, Zenon
<1> QED
  BY <1>2, <1>3, Zenon DEF LockInv

(* A step that moves no lock.                                              *)
LEMMA OwnersSame ==
  ASSUME LockInv, NEW c \in CPU, owner' = owner, irq'[c] # << >> <=> irq[c] # << >>
  PROVE  /\ On(c)' = On(c) /\ Off(c)' = Off(c) /\ Holds(c)' = Holds(c)
         /\ \A l \in Lock : Mine(c, l)' => LockFits(l)'
<1>1. On(c)' = On(c) /\ Off(c)' = Off(c)
  BY Zenon DEF On, Off
<1>2. Holds(c)' = Holds(c)
  BY <1>1, Zenon DEF Holds
<1> QED
  BY <1>1, <1>2, Zenon DEF LockInv, Mine, LockFits

(* Nothing keeps interrupts off where code ends.                           *)
LEMMA LockInitInv == LockConstants /\ Init => LockInv
<1> SUFFICES ASSUME LockConstants, Init PROVE LockInv
  OBVIOUS
<1>1. Typed
  <2>1. << >> \in Seq(AnyStep)
    BY SMTT(30), SMTT(60)
  <2> QED
    BY <2>1, Zenon DEF Init, Typed
<1>2. \A c \in CPU : CpuFits(c)
  <2> TAKE c \in CPU
  <2>1. /\ task[c] = << >> /\ irq[c] = << >> /\ Code(c) = << >> /\ End(c) = Nothing
        /\ On(c) = {} /\ Off(c) = {} /\ ints[c]
    BY Zenon DEF Init, Code, End, On, Off
  <2>2. Holds(c) = Nothing /\ Nothing \in Marks
    BY <2>1, HoldsIs, Zenon DEF Holds, Nothing, Marks
  <2>3. Goes(<< >>, Nothing, Nothing) /\ ~TurnsOn(<< >>)
    BY <2>2, RunsEmpty, RunsGoes, Zenon
  <2> QED
    BY <2>1, <2>2, <2>3, Zenon DEF CpuFits
<1>3. \A l \in Lock : LockFits(l)
  BY Zenon DEF Init, LockFits
<1> QED
  BY <1>1, <1>2, <1>3, Zenon DEF LockInv

(* A step of c that moves no lock and leaves c with what fits.             *)
LEMMA SameLocks ==
  ASSUME LockInv, NEW c \in CPU, NEW s, Proceeded(c, s, Holds(c)), owner' = owner,
         ints' \in [CPU -> BOOLEAN], \A d \in CPU \ {c} : ints'[d] = ints[d],
         pending' = pending, ints'[c] <=> (Off(c) = {} /\ ~TurnsOn(Code(c)'))
  PROVE  LockInv'
<1>1. Typed'
  BY Zenon DEF LockInv, Typed, Proceeded
<1>2. irq'[c] # << >> <=> irq[c] # << >>
  BY Zenon DEF Proceeded
<1>3. /\ On(c)' = On(c) /\ Off(c)' = Off(c) /\ Holds(c)' = Holds(c)
      /\ \A l \in Lock : Mine(c, l)' => LockFits(l)'
  BY <1>2, OwnersSame, Zenon
<1>4. CpuFits(c)'
  BY <1>3, Zenon DEF CpuFits, Proceeded
<1>5. \A d \in CPU \ {c} : task'[d] = task[d] /\ irq'[d] = irq[d] /\ ints'[d] = ints[d]
  BY Zenon DEF Proceeded
<1> QED
  BY <1>1, <1>3, <1>4, <1>5, OneCpu, Zenon

LEMMA PrepareInv ==
  ASSUME LockInv, NEW c \in CPU, Prepare(c)
  PROVE  LockInv'
<1> DEFINE l == Step(c).lock
           on == ints[c] /\ At(c, "lock_off")
           y == [op |-> "spin", lock |-> l, enable |-> on]
           A == Holds(c)
<1>1. /\ Typed /\ CpuFits(c) /\ Code(c) # << >> /\ Step(c).op \in {"lock", "lock_off"}
      /\ owner' = owner /\ pending' = pending /\ Continue(c, <<y>>)
      /\ ints' = [ints EXCEPT ![c] = ints[c] /\ At(c, "lock")]
  BY Zenon DEF LockInv, Prepare, At, Step
<1>2. Step(c) \in AnyStep /\ A \in State
  BY <1>1, NowRuns, Zenon
<1>3. PICK B \in Marks : Fits(Step(c), A, B) /\ Runs(Tail(Code(c)), B, End(c))
  BY <1>1, NowRuns, Zenon
<1>4. l \in Lock
  BY <1>1, <1>2, SMTT(30), SMTT(60) DEF AnyStep, Steps, Underway
<1>5. ints[c] \in BOOLEAN /\ (ints[c] <=> Off(c) = {}) /\ A.off = Off(c)
  <2>1. ~TurnsOn(Code(c))
    BY <1>1, Zenon DEF TurnsOn, Step
  <2> QED
    BY <1>1, <2>1, HoldsIs, Zenon DEF Typed, CpuFits
<1>6. /\ At(c, "lock") <=> Step(c).op = "lock"
      /\ At(c, "lock_off") <=> Step(c).op = "lock_off"
  BY <1>1, Zenon DEF At, Step
<1>7. on \in BOOLEAN /\ (on <=> ints[c] /\ Step(c).op = "lock_off")
  BY <1>6, Zenon
<1> HIDE DEF on
<1>8. y \in AnyStep /\ y.op = "spin" /\ y.lock = l /\ y.enable = on
  BY <1>4, <1>7, SMTT(30), SMTT(60) DEF AnyStep, Underway
<1> HIDE DEF y, A, l
<1>9. Fits(y, A, B)
  <2>1. Takes(Step(c), A, B)
    BY <1>1, <1>3, Zenon DEF Fits, GivesOff, GivesOn
  <2>2. Exposed(y, A) <=> Exposed(Step(c), A)
    BY <1>1, <1>5, <1>7, <1>8, Zenon DEF Exposed
  <2>3. Takes(y, A, B)
    BY <1>5, <1>7, <1>8, <2>1, <2>2, Zenon DEF Takes, l
  <2> QED
    BY <1>2, <2>3, Zenon DEF Fits
<1>10. /\ Goes(<<y>> \o Tail(Code(c)), A, End(c)) /\ <<y>> \in Seq(AnyStep)
       /\ TurnsOn(<<y>> \o Tail(Code(c))) <=> on
  <2>1. <<y>> \in Seq(AnyStep)
    BY <1>8, SMTT(30), SMTT(60)
  <2> QED
    BY <1>3, <1>8, <1>9, <2>1, GoesOn, Zenon
<1>11. Proceeded(c, <<y>>, A)
  BY <1>1, <1>2, <1>10, Proceed, Zenon
<1>12. /\ ints' \in [CPU -> BOOLEAN] /\ \A d \in CPU \ {c} : ints'[d] = ints[d]
       /\ ints'[c] <=> ints[c] /\ Step(c).op = "lock"
  <2> DEFINE v == ints[c] /\ At(c, "lock")
  <2>1. v \in BOOLEAN /\ (v <=> ints[c] /\ Step(c).op = "lock") /\ ints' = [ints EXCEPT ![c] = v]
    BY <1>1, <1>6, Zenon
  <2> HIDE DEF v
  <2>2. ints \in [CPU -> BOOLEAN]
    BY <1>1, Zenon DEF Typed
  <2>3. ints' \in [CPU -> BOOLEAN] /\ ints'[c] = v /\ \A d \in CPU \ {c} : ints'[d] = ints[d]
    BY <2>1, <2>2, SMTT(30), SMTT(60)
  <2> QED
    BY <2>1, <2>3, Zenon
<1>13. ints'[c] <=> (Off(c) = {} /\ ~TurnsOn(Code(c)'))
  <2>1. TurnsOn(Code(c)') <=> on
    BY <1>10, <1>11, Zenon DEF Proceeded
  <2>2. Step(c).op = "lock" <=> Step(c).op # "lock_off"
    BY <1>1, Zenon
  <2> QED
    BY <1>5, <1>7, <1>12, <2>1, <2>2, Zenon
<1> QED
  BY <1>1, <1>11, <1>12, <1>13, SameLocks, Zenon DEF A

(* A lock of c among those that keep interrupts off or among the others.   *)
LEMMA MineIs ==
  ASSUME NEW c, NEW l \in Lock
  PROVE  /\ l \in On(c) <=> Mine(c, l) /\ ~owner[l].off
         /\ l \in Off(c) <=> Mine(c, l) /\ owner[l].off
<1>1. "irq" \notin Lock
  BY Zenon DEF Lock
<1> QED
  BY <1>1, Zenon DEF On, Off, Mine

(* What c holds when the owner of one lock changes.                        *)
LEMMA OneMoves ==
  ASSUME NEW c, NEW l \in Lock, \A m \in Lock \ {l} : owner'[m] = owner[m],
         irq'[c] # << >> <=> irq[c] # << >>
  PROVE  /\ l \in On(c)' => On(c)' = On(c) \cup {l}
         /\ l \notin On(c)' => On(c)' = On(c) \ {l}
         /\ l \in Off(c)' => Off(c)' = Off(c) \cup {l}
         /\ l \notin Off(c)' => Off(c)' = Off(c) \ {l}
<1>1. /\ On(c) \in SUBSET Lock /\ On(c)' \in SUBSET Lock
      /\ Off(c) \in SUBSET Held /\ Off(c)' \in SUBSET Held
  BY Zenon DEF On, Off, Held
<1>2. "irq" \notin Lock /\ l \in Held
  BY Zenon DEF Lock, Held
<1>3. \A m \in Lock \ {l} : m \in On(c)' <=> m \in On(c)
  BY Zenon DEF On
<1>4. \A m \in Lock \ {l} : m \in Off(c)' <=> m \in Off(c)
  <2> TAKE m \in Lock \ {l}
  <2>1. m # "irq" /\ m \in Lock /\ owner'[m] = owner[m]
    BY <1>2, Zenon
  <2>2. m \in Off(c) <=> owner[m] # Free /\ owner[m].cpu = c /\ owner[m].off
    BY <2>1, Zenon DEF Off
  <2>3. m \in Off(c)' <=> owner'[m] # Free /\ owner'[m].cpu = c /\ owner'[m].off
    BY <2>1, Zenon DEF Off
  <2> QED
    BY <2>1, <2>2, <2>3, Zenon
<1>5. "irq" \in Off(c)' <=> "irq" \in Off(c)
  BY <1>2, Zenon DEF Off
<1>6. \A m \in Held \ {l} : m \in Off(c)' <=> m \in Off(c)
  BY <1>4, <1>5, Zenon DEF Held
<1>7. (l \in On(c)' => On(c)' = On(c) \cup {l}) /\ (l \notin On(c)' => On(c)' = On(c) \ {l})
  <2> DEFINE S == On(c)
             T == On(c)'
  <2>1. S \in SUBSET Lock /\ T \in SUBSET Lock /\ \A m \in Lock \ {l} : m \in T <=> m \in S
    BY <1>1, <1>3, Zenon
  <2> HIDE DEF S, T
  <2>2. (l \in T => T = S \cup {l}) /\ (l \notin T => T = S \ {l})
    BY <2>1, SMTT(30), SMTT(60)
  <2> QED
    BY <2>2, Zenon DEF S, T
<1>8. /\ l \in Off(c)' => Off(c)' = Off(c) \cup {l}
      /\ l \notin Off(c)' => Off(c)' = Off(c) \ {l}
  <2> DEFINE S == Off(c)
             T == Off(c)'
  <2>1. S \in SUBSET Held /\ T \in SUBSET Held /\ \A m \in Held \ {l} : m \in T <=> m \in S
    BY <1>1, <1>6, Zenon
  <2> HIDE DEF S, T
  <2>2. (l \in T => T = S \cup {l}) /\ (l \notin T => T = S \ {l})
    BY <1>2, <2>1, SMTT(30), SMTT(60)
  <2> QED
    BY <2>2, Zenon DEF S, T
<1> QED
  BY <1>7, <1>8, Zenon

(* A step of c that takes or gives back one lock.                          *)
LEMMA OneLock ==
  ASSUME LockConstants, LockInv, NEW c \in CPU, NEW s, NEW l \in Lock, Proceeded(c, s, Holds(c)'),
         owner[l] = Free \/ Mine(c, l), owner'[l] = Free \/ Mine(c, l)',
         owner' \in [Lock -> [cpu : CPU, enable : BOOLEAN, off : BOOLEAN] \cup {Free}],
         \A m \in Lock \ {l} : owner'[m] = owner[m],
         irq[c] # << >> => On(c)' = On(c),
         ints' = ints, pending' = pending,
         ints[c] <=> (Off(c)' = {} /\ ~TurnsOn(Code(c)')),
         \A m \in Lock : Mine(c, m)' => LockFits(m)'
  PROVE  LockInv'
<1>1. Typed'
  BY Zenon DEF LockInv, Typed, Proceeded
<1>2. CpuFits(c)'
  BY Zenon DEF CpuFits, Proceeded
<1>3. \A d \in CPU \ {c} : task'[d] = task[d] /\ irq'[d] = irq[d] /\ ints'[d] = ints[d]
  BY Zenon DEF Proceeded
<1>4. \A m \in Lock : \/ owner'[m] = owner[m]
                      \/ (owner[m] = Free \/ Mine(c, m)) /\ (owner'[m] = Free \/ Mine(c, m)')
  BY Zenon
<1> QED
  BY <1>1, <1>2, <1>3, <1>4, OneCpu, Zenon

LEMMA AcquireInv ==
  ASSUME LockConstants, LockInv, NEW c \in CPU, Acquire(c)
  PROVE  LockInv'
<1> PICK l : l = Step(c).lock
  OBVIOUS
<1> DEFINE A == Holds(c)
           o == [cpu |-> c, enable |-> Step(c).enable, off |-> ~ints[c]]
<1>1. /\ Typed /\ CpuFits(c) /\ Code(c) # << >> /\ Step(c).op = "spin" /\ owner[l] = Free
      /\ owner' = [owner EXCEPT ![l] = o] /\ pending' = pending /\ ints' = ints
      /\ Continue(c, << >>)
  BY Zenon DEF LockInv, Acquire, At, Step
<1>2. Step(c) \in AnyStep /\ A \in State /\ Tail(Code(c)) \in Seq(AnyStep)
  BY <1>1, NowRuns, Zenon
<1>3. PICK B \in Marks : Fits(Step(c), A, B) /\ Runs(Tail(Code(c)), B, End(c))
  BY <1>1, NowRuns, Zenon
<1>4. l \in Lock /\ Step(c).enable \in BOOLEAN
  BY <1>1, <1>2, SMTT(30), SMTT(60) DEF AnyStep, Steps, Underway
<1>5. /\ A.off = Off(c) /\ A.on = (IF irq[c] # << >> THEN {} ELSE On(c))
      /\ On(c) \in SUBSET Lock /\ Off(c) \in SUBSET Held /\ (irq[c] # << >> => Off(c) # {})
  BY HoldsIs, Zenon
<1>6. Takes(Step(c), A, B)
  BY <1>1, <1>3, Zenon DEF Fits, GivesOff, GivesOn
<1>7. /\ ints[c] \in BOOLEAN /\ (ints[c] <=> Off(c) = {} /\ ~Step(c).enable)
      /\ Exposed(Step(c), A) <=> ints[c]
  <2>1. TurnsOn(Code(c)) <=> Step(c).enable
    BY <1>1, Zenon DEF TurnsOn, Step
  <2>2. ints[c] \in BOOLEAN /\ (ints[c] <=> Off(c) = {} /\ ~TurnsOn(Code(c)))
    BY <1>1, Zenon DEF Typed, CpuFits
  <2> QED
    BY <1>1, <1>5, <2>1, <2>2, Zenon DEF Exposed
<1>8. /\ Above(l, A) /\ (Step(c).enable => Off(c) = {})
      /\ ints[c] => B = WithOn(A, l) /\ l \in InterruptibleLocks
      /\ ~ints[c] => B = WithOff(A, l)
  BY <1>1, <1>5, <1>6, <1>7, Zenon DEF Takes
<1>9. /\ o \in [cpu : CPU, enable : BOOLEAN, off : BOOLEAN] /\ o.cpu = c
      /\ o.enable = Step(c).enable /\ (o.off <=> ~ints[c])
  <2> DEFINE v == ~ints[c]
  <2>1. v \in BOOLEAN /\ (v <=> ~ints[c])
    BY Zenon
  <2>2. o = [cpu |-> c, enable |-> Step(c).enable, off |-> v]
    BY Zenon
  <2> HIDE DEF v
  <2>3. o.off = v /\ o \in [cpu : CPU, enable : BOOLEAN, off : BOOLEAN] /\ o.cpu = c
        /\ o.enable = Step(c).enable
    BY <1>4, <2>1, <2>2, SMTT(30), SMTT(60)
  <2> QED
    BY <2>1, <2>3, Zenon
<1>10. o # Free
  BY <1>9, Zenon DEF LockConstants
<1> HIDE DEF o, A
<1>11. /\ owner'[l] = o /\ \A m \in Lock \ {l} : owner'[m] = owner[m]
       /\ owner' \in [Lock -> [cpu : CPU, enable : BOOLEAN, off : BOOLEAN] \cup {Free}]
  BY <1>1, <1>4, <1>9, SMTT(30), SMTT(60) DEF Typed
<1>12. Mine(c, l)' /\ ~Mine(c, l)
  <2>1. owner[l] = Free
    BY <1>1, Zenon
  <2> QED
    BY <1>9, <1>10, <1>11, <2>1, Zenon DEF Mine
<1>13. << >> \o Tail(Code(c)) = Tail(Code(c)) /\ << >> \in Seq(AnyStep)
  BY <1>2, SMTT(30), SMTT(60)
<1>14. B \in State
  <2>1. \A f \in SUBSET Held, g \in SUBSET Lock : [on |-> g, off |-> f] \in State
    BY SMTT(30), SMTT(60) DEF State
  <2>2. A.on \in SUBSET Lock /\ A.off \in SUBSET Held
    BY <1>2, StateFields, Zenon
  <2>3. A.on \cup {l} \in SUBSET Lock /\ A.off \cup {l} \in SUBSET Held
    BY <1>4, <2>2, Zenon DEF Held
  <2> QED
    BY <1>8, <2>1, <2>2, <2>3, Zenon DEF WithOn, WithOff
<1>15. Goes(<< >> \o Tail(Code(c)), B, End(c)) /\ ~TurnsOn(<< >> \o Tail(Code(c)))
  BY <1>3, <1>13, RunsGoes, Zenon
<1>16. Proceeded(c, << >>, B)
  BY <1>1, <1>13, <1>14, <1>15, Proceed, Zenon
<1>17. /\ irq'[c] # << >> <=> irq[c] # << >>
       /\ ~TurnsOn(Code(c)')
  BY <1>15, <1>16, Zenon DEF Proceeded
<1>18. /\ ints[c] => On(c)' = On(c) \cup {l} /\ Off(c)' = Off(c)
       /\ ~ints[c] => On(c)' = On(c) /\ Off(c)' = Off(c) \cup {l}
  <2>0. l # "irq" /\ owner'[l] # Free /\ owner'[l].cpu = c /\ (owner'[l].off <=> ~ints[c])
    BY <1>4, <1>9, <1>10, <1>11, Zenon DEF Lock
  <2>1. (l \in On(c)' <=> ints[c]) /\ (l \in Off(c)' <=> ~ints[c])
    BY <1>4, <2>0, Zenon DEF On, Off
  <2>2. l \notin On(c) /\ l \notin Off(c)
    BY <1>4, <1>12, MineIs, Zenon
  <2>3. On(c) \ {l} = On(c) /\ Off(c) \ {l} = Off(c)
    BY <2>2, Zenon
  <2> QED
    BY <1>4, <1>11, <1>17, <2>1, <2>3, OneMoves, Zenon
<1>19. ints[c] => irq[c] = << >>
  BY <1>5, <1>7, Zenon
<1>20. Holds(c)' = B
  <2>1. CASE ints[c]
    <3>1. A.on = On(c) /\ A.off = Off(c) /\ irq'[c] = << >>
      BY <1>5, <1>17, <1>19, <2>1, Zenon
    <3> QED
      BY <1>8, <1>18, <2>1, <3>1, Zenon DEF Holds, WithOn
  <2>2. CASE ~ints[c]
    BY <1>5, <1>8, <1>17, <1>18, <2>2, Zenon DEF Holds, WithOff
  <2> QED
    BY <2>1, <2>2, Zenon
<1>21. ints[c] <=> (Off(c)' = {} /\ ~TurnsOn(Code(c)'))
  BY <1>7, <1>17, <1>18, Zenon
<1>22. \A m \in Lock : Mine(c, m)' => LockFits(m)'
  <2> SUFFICES ASSUME NEW m \in Lock, Mine(c, m)'
               PROVE  LockFits(m)'
    BY Zenon
  <2>1. CASE m = l /\ ints[c]
    BY <1>7, <1>8, <1>9, <1>11, <2>1, Zenon DEF LockFits
  <2>2. CASE m = l /\ ~ints[c]
    <3>1. Off(c)' = Off(c) \cup {l}
      BY <1>18, <2>2, Zenon
    <3>2. \A k \in Off(c) : Rank(k) < Rank(l)
      BY <1>5, <1>8, Zenon DEF Above
    <3>3. Rank(l) \in 0 .. 13 /\ \A k \in Off(c) : Rank(k) \in 0 .. 13
      BY <1>4, <1>5, RankNat, Zenon DEF Held
    <3>4. \A k \in Off(c) : ~(Rank(l) < Rank(k)) /\ k # l
      BY ONLY <3>2, <3>3, SMTT(30), SMTT(60)
    <3>5. Step(c).enable <=> \A k \in Off(c)' \ {l} : Rank(l) < Rank(k)
      BY <1>7, <1>8, <2>2, <3>1, <3>4, Zenon
    <3> QED
      BY <1>9, <1>11, <2>2, <3>5, Zenon DEF LockFits
  <2>3. CASE m # l
    <3>1. owner'[m] = owner[m] /\ owner[m] # Free /\ owner[m].cpu = c
      BY <1>11, <2>3, Zenon DEF Mine
    <3>2. LockFits(m)
      BY Zenon DEF LockInv
    <3>3. CASE ~owner[m].off
      BY <3>1, <3>2, <3>3, Zenon DEF LockFits
    <3>4. CASE owner[m].off
      <4>1. m \in Off(c)
        BY <3>1, <3>4, Zenon DEF Off
      <4>2. Rank(m) < Rank(l)
        BY <1>5, <1>8, <4>1, Zenon DEF Above
      <4>3. (\A k \in Off(c)' \ {m} : Rank(m) < Rank(k)) <=> \A k \in Off(c) \ {m} : Rank(m) < Rank(k)
        BY <1>18, <4>2, Zenon
      <4> QED
        BY <3>1, <3>2, <3>4, <4>3, Zenon DEF LockFits
    <3> QED
      BY <3>3, <3>4, Zenon
  <2> QED
    BY <2>1, <2>2, <2>3, Zenon
<1>23. irq[c] # << >> => On(c)' = On(c)
  BY <1>18, <1>19, Zenon
<1>24. Proceeded(c, << >>, Holds(c)')
  BY <1>16, <1>20, Zenon
<1>25. ints' = ints /\ pending' = pending /\ (owner[l] = Free \/ Mine(c, l))
  BY <1>1, Zenon
<1>26. owner'[l] = Free \/ Mine(c, l)'
  BY <1>12, Zenon
<1>27. /\ \A m \in Lock \ {l} : owner'[m] = owner[m]
       /\ owner' \in [Lock -> [cpu : CPU, enable : BOOLEAN, off : BOOLEAN] \cup {Free}]
  BY <1>11, Zenon
<1> HIDE DEF Proceeded
<1> QED
  BY <1>4, <1>21, <1>22, <1>23, <1>24, <1>25, <1>26, <1>27, OneLock, ZenonT(60)

LEMMA UnlockInv ==
  ASSUME LockConstants, LockInv, NEW c \in CPU, Unlock(c)
  PROVE  LockInv'
<1> PICK l : l = Step(c).lock
  OBVIOUS
<1> DEFINE A == Holds(c)
           y == [op |-> "restore", enable |-> owner[l].enable]
<1>1. /\ Typed /\ CpuFits(c) /\ Code(c) # << >> /\ Step(c).op = "unlock"
      /\ owner' = [owner EXCEPT ![l] = Free] /\ pending' = pending /\ ints' = ints
      /\ Continue(c, <<y>>)
  BY Zenon DEF LockInv, Unlock, At, Step
<1>2. Step(c) \in AnyStep /\ A \in State
  BY <1>1, NowRuns, Zenon
<1>3. PICK B \in Marks : Fits(Step(c), A, B) /\ Runs(Tail(Code(c)), B, End(c))
  BY <1>1, NowRuns, Zenon
<1>4. l \in Lock /\ l # "irq"
  BY <1>1, <1>2, SMTT(30), SMTT(60) DEF AnyStep, Steps, Underway, Lock
<1>5. /\ A.off = Off(c) /\ A.on = (IF irq[c] # << >> THEN {} ELSE On(c))
      /\ On(c) \in SUBSET Lock /\ Off(c) \in SUBSET Held /\ (irq[c] # << >> => Off(c) # {})
  BY HoldsIs, Zenon
<1>6. GivesOff(Step(c), A, B) \/ GivesOn(Step(c), A, B)
  BY <1>1, <1>3, Zenon DEF Fits, Takes
<1>7. ints[c] \in BOOLEAN /\ (ints[c] <=> Off(c) = {})
  <2>1. ~TurnsOn(Code(c))
    BY <1>1, Zenon DEF TurnsOn, Step
  <2> QED
    BY <1>1, <2>1, Zenon DEF Typed, CpuFits
<1>8. /\ ints[c] => l \in On(c) /\ irq[c] = << >> /\ B = [on |-> On(c) \ {l}, off |-> {}]
      /\ ~ints[c] => l \in Off(c) /\ B = [on |-> A.on, off |-> Off(c) \ {l}] /\ Above(l, B)
  BY <1>5, <1>6, <1>7, Zenon DEF GivesOff, GivesOn
<1>9. Mine(c, l) /\ LockFits(l) /\ (owner[l].off <=> ~ints[c])
  BY <1>4, <1>8, MineIs, Zenon DEF LockInv
<1>10. owner[l].enable \in BOOLEAN
  BY <1>1, <1>4, <1>9, SMTT(30), SMTT(60) DEF Typed, Mine
<1> HIDE DEF A
<1>11. B \in State /\ B.off = Off(c) \ {l}
       /\ B.on = IF ints[c] THEN On(c) \ {l} ELSE A.on
  <2>1. A.on \in SUBSET Lock
    BY <1>2, StateFields, Zenon
  <2>2. \A f \in SUBSET Held, g \in SUBSET Lock :
          [on |-> g, off |-> f] \in State /\ [on |-> g, off |-> f].on = g
          /\ [on |-> g, off |-> f].off = f
    BY SMTT(30), SMTT(60) DEF State
  <2>3. Off(c) \ {l} \in SUBSET Held /\ On(c) \ {l} \in SUBSET Lock /\ {} \in SUBSET Held
    BY <1>5, Zenon
  <2>4. ints[c] => Off(c) \ {l} = {}
    BY <1>7, Zenon
  <2>5. CASE ints[c]
    <3>1. B = [on |-> On(c) \ {l}, off |-> {}]
      BY <1>8, <2>5, Zenon
    <3>2. B \in State /\ B.on = On(c) \ {l} /\ B.off = {}
      BY <2>2, <2>3, <3>1, Zenon
    <3> QED
      BY <2>4, <2>5, <3>2, Zenon
  <2>6. CASE ~ints[c]
    <3>1. B = [on |-> A.on, off |-> Off(c) \ {l}]
      BY <1>8, <2>6, Zenon
    <3>2. B \in State /\ B.on = A.on /\ B.off = Off(c) \ {l}
      BY <2>1, <2>2, <2>3, <3>1, Zenon
    <3> QED
      BY <2>6, <3>2, Zenon
  <2> QED
    BY <2>5, <2>6, Zenon
<1>12. owner[l].enable <=> ~ints[c] /\ Off(c) \ {l} = {}
  <2>1. CASE ints[c]
    BY <1>9, <2>1, Zenon DEF LockFits, Mine
  <2>2. CASE ~ints[c]
    <3>1. owner[l].enable <=> \A m \in Off(c) \ {l} : Rank(l) < Rank(m)
      BY <1>9, <2>2, Zenon DEF LockFits, Mine
    <3>2. \A m \in Off(c) \ {l} : Rank(m) < Rank(l)
      BY <1>8, <1>11, <2>2, Zenon DEF Above
    <3>3. Rank(l) \in 0 .. 13 /\ \A m \in Off(c) : Rank(m) \in 0 .. 13
      BY <1>4, <1>5, RankNat, Zenon DEF Held
    <3>4. \A m \in Off(c) \ {l} : ~(Rank(l) < Rank(m))
      BY ONLY <3>2, <3>3, SMTT(30), SMTT(60)
    <3> QED
      BY <2>2, <3>1, <3>4, Zenon
  <2> QED
    BY <2>1, <2>2, Zenon
<1>13. y \in AnyStep /\ y.op = "restore" /\ y.enable = owner[l].enable
  BY <1>10, SMTT(30), SMTT(60) DEF AnyStep, Underway
<1> HIDE DEF y
<1>14. Fits(y, B, B)
  BY <1>11, <1>12, <1>13, Zenon DEF Fits
<1>15. /\ Goes(<<y>> \o Tail(Code(c)), B, End(c)) /\ <<y>> \in Seq(AnyStep)
       /\ TurnsOn(<<y>> \o Tail(Code(c))) <=> owner[l].enable
  <2>1. <<y>> \in Seq(AnyStep)
    BY <1>13, SMTT(30), SMTT(60)
  <2> QED
    BY <1>3, <1>13, <1>14, <2>1, GoesOn, Zenon
<1>16. Proceeded(c, <<y>>, B)
  BY <1>1, <1>11, <1>15, Proceed, Zenon DEF y
<1>17. /\ irq'[c] # << >> <=> irq[c] # << >>
       /\ TurnsOn(Code(c)') <=> owner[l].enable
  BY <1>15, <1>16, Zenon DEF Proceeded
<1>18. /\ owner'[l] = Free /\ \A m \in Lock \ {l} : owner'[m] = owner[m]
       /\ owner' \in [Lock -> [cpu : CPU, enable : BOOLEAN, off : BOOLEAN] \cup {Free}]
  BY <1>1, <1>4, SMTT(30), SMTT(60) DEF Typed
<1>19. On(c)' = On(c) \ {l} /\ Off(c)' = Off(c) \ {l}
  <2>1. l \notin On(c)' /\ l \notin Off(c)'
    BY <1>4, <1>18, Zenon DEF On, Off
  <2> QED
    BY <1>4, <1>17, <1>18, <2>1, OneMoves, Zenon
<1>20. ~ints[c] => On(c)' = On(c)
  <2>1. ~ints[c] => l \notin On(c)
    BY <1>4, <1>9, MineIs, Zenon
  <2> QED
    BY ONLY <1>19, <2>1, SMTT(30), SMTT(60)
<1>21. Holds(c)' = B
  <2>1. B = [on |-> B.on, off |-> B.off]
    BY <1>11, StateFields, Zenon
  <2>2. CASE ints[c]
    BY <1>8, <1>11, <1>17, <1>19, <2>1, <2>2, Zenon DEF Holds
  <2>3. CASE ~ints[c]
    BY <1>5, <1>11, <1>17, <1>19, <1>20, <2>1, <2>3, Zenon DEF Holds
  <2> QED
    BY <2>2, <2>3, Zenon
<1>22. ints[c] <=> (Off(c)' = {} /\ ~TurnsOn(Code(c)'))
  <2>1. ints[c] => Off(c) \ {l} = {}
    BY <1>7, Zenon
  <2> QED
    BY <1>12, <1>17, <1>19, <2>1, Zenon
<1>23. \A m \in Lock : Mine(c, m)' => LockFits(m)'
  <2> SUFFICES ASSUME NEW m \in Lock, Mine(c, m)'
               PROVE  LockFits(m)'
    BY Zenon
  <2>1. m # l /\ owner'[m] = owner[m] /\ owner[m] # Free /\ owner[m].cpu = c
    BY <1>18, Zenon DEF Mine
  <2>2. LockFits(m)
    BY Zenon DEF LockInv
  <2>3. CASE ~owner[m].off
    BY <2>1, <2>2, <2>3, Zenon DEF LockFits
  <2>4. CASE owner[m].off
    <3>1. m \in Off(c) \ {l}
      BY <2>1, <2>4, Zenon DEF Off
    <3>2. ~ints[c]
      BY <1>7, <3>1, Zenon
    <3>3. Rank(m) < Rank(l)
      BY <1>8, <1>11, <3>1, <3>2, Zenon DEF Above
    <3>4. (\A k \in Off(c)' \ {m} : Rank(m) < Rank(k)) <=> \A k \in Off(c) \ {m} : Rank(m) < Rank(k)
      BY <1>19, <3>3, Zenon
    <3> QED
      BY <2>1, <2>2, <2>4, <3>4, Zenon DEF LockFits
  <2> QED
    BY <2>3, <2>4, Zenon
<1>24. irq[c] # << >> => On(c)' = On(c)
  BY <1>5, <1>7, <1>20, Zenon
<1>25. Proceeded(c, <<y>>, Holds(c)')
  BY <1>16, <1>21, Zenon
<1> QED
  BY <1>1, <1>4, <1>9, <1>18, <1>22, <1>23, <1>24, <1>25, OneLock, Zenon

LEMMA RestoreInv ==
  ASSUME LockInv, NEW c \in CPU, Restore(c)
  PROVE  LockInv'
<1> DEFINE A == Holds(c)
<1>1. /\ Typed /\ CpuFits(c) /\ Code(c) # << >> /\ Step(c).op = "restore"
      /\ ints' = [ints EXCEPT ![c] = ints[c] \/ Step(c).enable]
      /\ owner' = owner /\ pending' = pending /\ Continue(c, << >>)
  BY Zenon DEF LockInv, Restore, At, Step, Enabling
<1>2. Step(c) \in AnyStep /\ A \in State /\ Tail(Code(c)) \in Seq(AnyStep)
  BY <1>1, NowRuns, Zenon
<1>3. PICK B \in Marks : Fits(Step(c), A, B) /\ Runs(Tail(Code(c)), B, End(c))
  BY <1>1, NowRuns, Zenon
<1>4. B = A /\ (Step(c).enable => Off(c) = {})
  <2>1. B = A /\ (Step(c).enable => A.off = {})
    BY <1>1, <1>3, Zenon DEF Fits, Takes, GivesOff, GivesOn
  <2> QED
    BY <2>1, HoldsIs, Zenon
<1>5. Step(c).enable \in BOOLEAN /\ ints[c] \in BOOLEAN
  BY <1>1, <1>2, SMTT(30), SMTT(60) DEF AnyStep, Steps, Underway, Typed
<1>6. << >> \o Tail(Code(c)) = Tail(Code(c)) /\ << >> \in Seq(AnyStep)
  BY <1>2, SMTT(30), SMTT(60)
<1>7. Goes(<< >> \o Tail(Code(c)), A, End(c)) /\ ~TurnsOn(<< >> \o Tail(Code(c)))
  BY <1>3, <1>4, <1>6, RunsGoes, Zenon
<1>8. Proceeded(c, << >>, A)
  BY <1>1, <1>2, <1>6, <1>7, Proceed, Zenon
<1>9. /\ ints' \in [CPU -> BOOLEAN] /\ \A d \in CPU \ {c} : ints'[d] = ints[d]
      /\ ints'[c] <=> ints[c] \/ Step(c).enable
  <2> DEFINE v == ints[c] \/ Step(c).enable
  <2>1. v \in BOOLEAN /\ (v <=> ints[c] \/ Step(c).enable) /\ ints' = [ints EXCEPT ![c] = v]
    BY <1>1, Zenon
  <2> HIDE DEF v
  <2>2. ints \in [CPU -> BOOLEAN]
    BY <1>1, Zenon DEF Typed
  <2>3. ints' \in [CPU -> BOOLEAN] /\ ints'[c] = v /\ \A d \in CPU \ {c} : ints'[d] = ints[d]
    BY <2>1, <2>2, SMTT(30), SMTT(60)
  <2> QED
    BY <2>1, <2>3, Zenon
<1>10. ints'[c] <=> (Off(c) = {} /\ ~TurnsOn(Code(c)'))
  <2>1. ~TurnsOn(Code(c)')
    BY <1>7, <1>8, Zenon DEF Proceeded
  <2>2. TurnsOn(Code(c)) <=> Step(c).enable
    BY <1>1, Zenon DEF TurnsOn, Step
  <2>3. ints[c] <=> (Off(c) = {} /\ ~Step(c).enable)
    BY <1>1, <2>2, Zenon DEF CpuFits
  <2> QED
    BY <1>4, <1>9, <2>1, <2>3, Zenon
<1> QED
  BY <1>1, <1>8, <1>9, <1>10, SameLocks, Zenon

LEMMA ContinueInv ==
  ASSUME LockInv, NEW c \in CPU, At(c, "preempt?") \/ At(c, "resched?"),
         NEW s, Outer(s, 1), Continue(c, s), UNCHANGED <<owner, ints, pending>>
  PROVE  LockInv'
<1> DEFINE A == Holds(c)
<1>1. /\ Typed /\ CpuFits(c) /\ Code(c) # << >> /\ Step(c).op \in {"preempt?", "resched?"}
      /\ owner' = owner /\ pending' = pending /\ ints' = ints
  BY Zenon DEF LockInv, At, Step
<1>2. Step(c) \in AnyStep /\ A \in State
  BY <1>1, NowRuns, Zenon
<1>3. PICK B \in Marks : Fits(Step(c), A, B) /\ Runs(Tail(Code(c)), B, End(c))
  BY <1>1, NowRuns, Zenon
<1> HIDE DEF A
<1>4. B = A /\ A.on = {} /\ A.off \subseteq {"irq"}
  BY <1>1, <1>3, Zenon DEF Fits, Takes, GivesOff, GivesOn
<1>5. Within(A, 1)
  BY <1>4, RankIs, SMTT(30), SMTT(60) DEF Within
<1>6. Runs(s, A, A)
  BY <1>2, <1>5, Zenon DEF Outer
<1>7. Runs(s \o Tail(Code(c)), A, End(c))
  BY <1>3, <1>4, <1>6, RunsThen, Zenon
<1>8. /\ s \in Seq(AnyStep) /\ Goes(s \o Tail(Code(c)), A, End(c))
      /\ ~TurnsOn(s \o Tail(Code(c)))
  BY <1>6, <1>7, RunsGoes, Zenon DEF Goes
<1>9. Proceeded(c, s, A)
  BY <1>1, <1>2, <1>8, Proceed, Zenon
<1>10. ints'[c] <=> (Off(c) = {} /\ ~TurnsOn(Code(c)'))
  <2>1. ~TurnsOn(Code(c)) /\ ~TurnsOn(Code(c)')
    BY <1>1, <1>8, <1>9, Zenon DEF Proceeded, TurnsOn, Step
  <2> QED
    BY <1>1, <2>1, Zenon DEF CpuFits
<1>11. ints' \in [CPU -> BOOLEAN] /\ \A d \in CPU \ {c} : ints'[d] = ints[d]
  BY <1>1, Zenon DEF Typed
<1> QED
  BY <1>1, <1>9, <1>10, <1>11, SameLocks, Zenon DEF A

LEMMA ReturnInv ==
  ASSUME LockInv, NEW c \in CPU, Return(c)
  PROVE  LockInv'
<1>1. /\ Typed /\ CpuFits(c) /\ Code(c) # << >> /\ Step(c).op = "iret"
      /\ ints' = [ints EXCEPT ![c] = TRUE]
      /\ owner' = owner /\ pending' = pending /\ Continue(c, << >>)
  BY Zenon DEF LockInv, Return, At, Step
<1>2. Step(c) \in AnyStep /\ Tail(Code(c)) \in Seq(AnyStep)
  BY <1>1, NowRuns, Zenon
<1>3. PICK B \in Marks : Fits(Step(c), Holds(c), B) /\ Runs(Tail(Code(c)), B, End(c))
  BY <1>1, NowRuns, Zenon
<1>4. B = Returned /\ Holds(c) = InHandler
  BY <1>1, <1>3, Zenon DEF Fits, Takes, GivesOff, GivesOn
<1>5. Off(c) = {"irq"} /\ irq[c] # << >>
  <2>1. InHandler.off = {"irq"}
    BY SMTT(30), SMTT(60) DEF InHandler
  <2>2. Off(c) = {"irq"}
    BY <1>4, <2>1, HoldsIs, Zenon
  <2> QED
    BY <2>2, HoldsIs, Zenon
<1>6. Tail(Code(c)) = << >>
  <2> SUFFICES ASSUME Tail(Code(c)) # << >> PROVE FALSE
    BY Zenon
  <2>1. PICK K \in Marks : Fits(Head(Tail(Code(c))), Returned, K)
    BY <1>3, <1>4, RunsFirst, Zenon
  <2>2. Returned \in State
    BY <2>1, Zenon DEF Fits
  <2>3. Returned.off = {"returned"} /\ "returned" \notin Held
    BY SMTT(30), SMTT(60) DEF Returned, Held, Lock
  <2> QED
    BY <2>2, <2>3, StateFields, Zenon
<1>7. irq' = [irq EXCEPT ![c] = << >>] /\ task' = task
  <2>1. << >> \o << >> = << >>
    BY SMTT(30), SMTT(60)
  <2>2. Tail(irq[c]) = << >>
    BY <1>5, <1>6, Zenon DEF Code
  <2>3. irq' = [irq EXCEPT ![c] = << >> \o Tail(irq[c])] /\ task' = task
    BY <1>1, <1>5, Zenon DEF Continue
  <2> QED
    BY <2>1, <2>2, <2>3, Zenon
<1>8. /\ irq' \in [CPU -> Seq(AnyStep)] /\ irq'[c] = << >>
      /\ \A d \in CPU \ {c} : irq'[d] = irq[d]
  BY <1>1, <1>7, SMTT(30), SMTT(60) DEF Typed
<1>9. ints' \in [CPU -> BOOLEAN] /\ ints'[c] /\ \A d \in CPU \ {c} : ints'[d] = ints[d]
  BY <1>1, SMTT(30), SMTT(60) DEF Typed
<1>10. Typed'
  BY <1>1, <1>7, <1>8, <1>9, Zenon DEF Typed
<1>11. \A l \in Lock : Mine(c, l) => ~owner[l].off
  <2>1. "irq" \notin Lock
    BY Zenon DEF Lock
  <2> QED
    BY <1>5, <2>1, MineIs, Zenon
<1>12. /\ Code(c)' = task[c] /\ End(c)' = Nothing /\ On(c)' = On(c) /\ Off(c)' = {}
       /\ Holds(c)' = [on |-> On(c), off |-> {}]
  <2>1. On(c)' = On(c)
    BY <1>1, Zenon DEF On
  <2>2. Off(c)' = {}
    BY <1>1, <1>8, <1>11, Zenon DEF Off, Mine
  <2> QED
    BY <1>7, <1>8, <2>1, <2>2, Zenon DEF Code, End, Holds
<1>13. Resumable(task[c], On(c))
  BY <1>1, <1>5, Zenon DEF CpuFits
<1>14. CpuFits(c)'
  BY <1>8, <1>9, <1>12, <1>13, Zenon DEF CpuFits, Resumable
<1>15. \A l \in Lock : Mine(c, l)' => LockFits(l)'
  <2> SUFFICES ASSUME NEW l \in Lock, Mine(c, l)' PROVE LockFits(l)'
    BY Zenon
  <2>1. Mine(c, l) /\ LockFits(l) /\ ~owner[l].off /\ owner'[l] = owner[l]
    BY <1>1, <1>11, Zenon DEF Mine, LockInv
  <2> QED
    BY <2>1, Zenon DEF LockFits
<1> QED
  BY <1>1, <1>7, <1>8, <1>9, <1>10, <1>14, <1>15, OneCpu, Zenon

LEMMA DeliverInv ==
  ASSUME LockConstants, LockInv, NEW c \in CPU, Deliver(c)
  PROVE  LockInv'
<1>1. PICK i \in pending : irq' = [irq EXCEPT ![c] = CommonHandler(i[2])] /\ pending' = pending \ {i}
  BY Zenon DEF Deliver
<1>2. /\ Typed /\ CpuFits(c) /\ ints[c] /\ irq[c] = << >>
      /\ ints' = [ints EXCEPT ![c] = FALSE] /\ owner' = owner /\ task' = task
  BY Zenon DEF LockInv, Deliver
<1>3. i[2] \in DOMAIN Handlers
  <2>1. i \in CPU \X DOMAIN Handlers
    BY <1>2, Zenon DEF Typed, LockConstants
  <2> HIDE DEF Handlers
  <2> QED
    BY <2>1, SMTT(30), SMTT(60)
<1> DEFINE s == CommonHandler(i[2])
<1>4. Runs(s, InHandler, Returned) /\ s # << >>
  BY <1>3, HandlersRun, Zenon
<1> HIDE DEF s
<1>5. Goes(s, InHandler, Returned) /\ s \in Seq(AnyStep) /\ ~TurnsOn(s)
  BY <1>4, RunsGoes, Zenon DEF Goes
<1>6. /\ irq' \in [CPU -> Seq(AnyStep)] /\ irq'[c] = s
      /\ \A d \in CPU \ {c} : irq'[d] = irq[d]
  BY <1>1, <1>2, <1>5, SMTT(30), SMTT(60) DEF Typed, s
<1>7. /\ ints' \in [CPU -> BOOLEAN] /\ ~ints'[c]
      /\ \A d \in CPU \ {c} : ints'[d] = ints[d]
  BY <1>2, SMTT(30), SMTT(60) DEF Typed
<1>8. Typed'
  <2>1. pending' \subseteq Interrupts
    BY <1>1, <1>2, Zenon DEF Typed
  <2> QED
    BY <1>2, <1>6, <1>7, <2>1, Zenon DEF Typed
<1>9. Off(c) = {} /\ ~TurnsOn(Code(c)) /\ Code(c) = task[c] /\ End(c) = Nothing
      /\ Holds(c) = [on |-> On(c), off |-> {}]
  <2>1. Off(c) = {} /\ ~TurnsOn(Code(c))
    BY <1>2, Zenon DEF CpuFits
  <2> QED
    BY <1>2, <2>1, Zenon DEF Code, End, Holds
<1>10. Resumable(task[c], On(c))
  BY <1>2, <1>9, Zenon DEF CpuFits, Resumable
<1>11. \A l \in Lock : Mine(c, l) => ~owner[l].off
  BY <1>9, MineIs, Zenon
<1>12. On(c)' = On(c) /\ Off(c)' = {"irq"} /\ Holds(c)' = InHandler
  <2>1. On(c)' = On(c)
    BY <1>2, Zenon DEF On
  <2>2. Off(c)' = {"irq"}
    BY <1>2, <1>4, <1>6, <1>11, Zenon DEF Off, Mine
  <2> QED
    BY <1>4, <1>6, <2>1, <2>2, Zenon DEF Holds, InHandler
<1>13. Code(c)' = s /\ End(c)' = Returned
  BY <1>4, <1>6, Zenon DEF Code, End
<1>14. CpuFits(c)'
  BY <1>2, <1>5, <1>7, <1>10, <1>12, <1>13, Zenon DEF CpuFits
<1>15. \A l \in Lock : Mine(c, l)' => LockFits(l)'
  <2> SUFFICES ASSUME NEW l \in Lock, Mine(c, l)' PROVE LockFits(l)'
    BY Zenon
  <2>1. Mine(c, l) /\ LockFits(l) /\ ~owner[l].off /\ owner'[l] = owner[l]
    BY <1>2, <1>11, Zenon DEF Mine, LockInv
  <2> QED
    BY <2>1, Zenon DEF LockFits
<1> QED
  BY <1>2, <1>6, <1>7, <1>8, <1>14, <1>15, OneCpu, Zenon

LEMMA StartInv ==
  ASSUME LockConstants, LockInv, NEW c \in CPU, Start(c)
  PROVE  LockInv'
<1>1. PICK p \in TaskCode[c] : task' = [task EXCEPT ![c] = Programs[p]]
  BY Zenon DEF Start
<1>2. /\ Typed /\ CpuFits(c) /\ Code(c) = << >> /\ ints' = ints /\ irq' = irq
      /\ owner' = owner /\ pending' = pending
  BY Zenon DEF LockInv, Start
<1> DEFINE s == Programs[p]
<1>3. Runs(s, Nothing, Nothing)
  BY ProgramsRun, Zenon
<1> HIDE DEF s
<1>4. Goes(s, Nothing, Nothing) /\ s \in Seq(AnyStep) /\ ~TurnsOn(s)
  BY <1>3, RunsGoes, Zenon DEF Goes
<1>5. /\ task' \in [CPU -> Seq(AnyStep)] /\ task'[c] = s
      /\ \A d \in CPU \ {c} : task'[d] = task[d]
  BY <1>1, <1>2, <1>4, SMTT(30), SMTT(60) DEF Typed, s
<1>6. Typed'
  BY <1>2, <1>5, Zenon DEF Typed
<1>7. irq[c] = << >> /\ End(c) = Nothing /\ Holds(c) = Nothing /\ ~TurnsOn(Code(c))
  BY <1>2, Zenon DEF Code, End, CpuFits, Goes, TurnsOn
<1>8. /\ Code(c)' = s /\ End(c)' = Nothing /\ Holds(c)' = Nothing /\ Off(c)' = Off(c)
      /\ \A l \in Lock : Mine(c, l)' => LockFits(l)'
  BY <1>2, <1>5, <1>7, OwnersSame, Zenon DEF Code, End
<1>9. CpuFits(c)'
  BY <1>2, <1>4, <1>7, <1>8, Zenon DEF CpuFits
<1> QED
  BY <1>2, <1>5, <1>6, <1>8, <1>9, OneCpu, Zenon

LEMMA SameInv ==
  ASSUME LockInv, UNCHANGED <<owner, ints, task, irq>>, pending' \subseteq Interrupts
  PROVE  LockInv'
<1>1. owner' = owner /\ ints' = ints /\ task' = task /\ irq' = irq
  BY Zenon
<1>2. Typed'
  BY <1>1, Zenon DEF LockInv, Typed
<1>3. \A c : On(c)' = On(c) /\ Off(c)' = Off(c)
  BY <1>1, Zenon DEF On, Off
<1>4. \A c \in CPU : CpuFits(c)'
  <2> TAKE c \in CPU
  <2>1. Code(c)' = Code(c) /\ Holds(c)' = Holds(c) /\ End(c)' = End(c)
    BY <1>1, <1>3, Zenon DEF Code, Holds, End
  <2>2. CpuFits(c)
    BY Zenon DEF LockInv
  <2> QED
    BY <1>1, <1>3, <2>1, <2>2, Zenon DEF CpuFits
<1>5. \A l \in Lock : LockFits(l)'
  <2> TAKE l \in Lock
  <2>1. LockFits(l)
    BY Zenon DEF LockInv
  <2> QED
    BY <1>1, <1>3, <2>1, Zenon DEF LockFits
<1> QED
  BY <1>2, <1>4, <1>5, Zenon DEF LockInv

LEMMA LockNextInv == LockConstants /\ LockInv /\ [Next]_vars => LockInv'
<1> SUFFICES ASSUME LockConstants, LockInv, [Next]_vars PROVE LockInv'
  OBVIOUS
<1>1. CASE UNCHANGED vars
  BY <1>1, SameInv, Zenon DEF vars, LockInv, Typed
<1>2. CASE Raise
  <2>1. pending' \subseteq Interrupts
    BY <1>2, Zenon DEF Raise, LockInv, Typed
  <2> QED
    BY <1>2, <2>1, SameInv, Zenon DEF Raise
<1>3. ASSUME NEW c \in CPU, Move(c) \/ Deliver(c) \/ Start(c) PROVE LockInv'
  <2>1. CASE CheckPreemption(c)
    <3>1. PICK s \in {Log, << >>, SwapTasks} : Continue(c, s)
      BY <2>1, Zenon DEF CheckPreemption
    <3>2. Outer(Log, 1) /\ Outer(<< >>, 1)
      BY LeafCalls, EmptyBody, SMTT(30), SMTT(60)
    <3>3. Outer(s, 1)
      BY <3>2, SwapTasksRuns, Zenon
    <3> QED
      BY <2>1, <3>1, <3>3, ContinueInv, Zenon DEF CheckPreemption
  <2>2. CASE RunIfNeeded(c)
    <3>1. PICK s \in {<< >>, RunScheduler} : Continue(c, s)
      BY <2>2, Zenon DEF RunIfNeeded
    <3>2. Outer(s, 1)
      BY RunSchedulerRuns, EmptyBody, Zenon
    <3> QED
      BY <2>2, <3>1, <3>2, ContinueInv, Zenon DEF RunIfNeeded
  <2> QED
    BY <1>3, <2>1, <2>2, PrepareInv, AcquireInv, UnlockInv, RestoreInv, ReturnInv,
       DeliverInv, StartInv, Zenon DEF Move
<1> QED
  BY <1>1, <1>2, <1>3, Zenon DEF Next

LEMMA LockInvHolds ==
  ASSUME LockConstants
  PROVE  Spec => []LockInv
BY LockInitInv, LockNextInv, PTL DEF Spec

(* Ranks do not rise for ever.                                             *)
LEMMA NoEndlessClimb ==
  ASSUME NEW S, S # {}, NEW r \in [S -> 0 .. 13]
  PROVE  \E c \in S : \A d \in S : r[d] <= r[c]
<1> SUFFICES ASSUME \A c \in S : \E d \in S : r[c] < r[d]
             PROVE  FALSE
  BY SMTT(30), SMTT(60)
<1>1. \A c \in S : \E d \in S : r[c] + 1 <= r[d]
  BY SMTT(30), SMTT(60)
<1>2. \A c \in S : \E d \in S : r[c] + 2 <= r[d]
  <2> TAKE c \in S
  <2>1. PICK e \in S : r[c] + 1 <= r[e]
    BY <1>1, Zenon
  <2>2. PICK d \in S : r[e] + 1 <= r[d]
    BY <1>1, Zenon
  <2>3. r[c] + 2 <= r[d]
    BY <2>1, <2>2, SMTT(30), SMTT(60)
  <2> QED
    BY <2>3, Zenon
<1>3. \A c \in S : \E d \in S : r[c] + 4 <= r[d]
  <2> TAKE c \in S
  <2>1. PICK e \in S : r[c] + 2 <= r[e]
    BY <1>2, Zenon
  <2>2. PICK d \in S : r[e] + 2 <= r[d]
    BY <1>2, Zenon
  <2>3. r[c] + 4 <= r[d]
    BY <2>1, <2>2, SMTT(30), SMTT(60)
  <2> QED
    BY <2>3, Zenon
<1>4. \A c \in S : \E d \in S : r[c] + 8 <= r[d]
  <2> TAKE c \in S
  <2>1. PICK e \in S : r[c] + 4 <= r[e]
    BY <1>3, Zenon
  <2>2. PICK d \in S : r[e] + 4 <= r[d]
    BY <1>3, Zenon
  <2>3. r[c] + 8 <= r[d]
    BY <2>1, <2>2, SMTT(30), SMTT(60)
  <2> QED
    BY <2>3, Zenon
<1>5. \A c \in S : \E d \in S : r[c] + 16 <= r[d]
  <2> TAKE c \in S
  <2>1. PICK e \in S : r[c] + 8 <= r[e]
    BY <1>4, Zenon
  <2>2. PICK d \in S : r[e] + 8 <= r[d]
    BY <1>4, Zenon
  <2>3. r[c] + 16 <= r[d]
    BY <2>1, <2>2, SMTT(30), SMTT(60)
  <2> QED
    BY <2>3, Zenon
<1> QED
  BY <1>5, SMTT(30), SMTT(60)

(* A CPU waits for a lock above all those that the code it runs holds.     *)
LEMMA WaitsUpwards ==
  ASSUME LockInv, NEW c \in CPU, WaitsFor(c) # Free
  PROVE  /\ At(c, "spin") /\ Step(c).lock \in Lock
         /\ Rank(Step(c).lock) \in 0 .. 13
         /\ WaitsFor(c) = owner[Step(c).lock] /\ WaitsFor(c).cpu \in CPU
         /\ \A l \in Lock : Mine(c, l) /\ (owner[l].off \/ irq[c] = << >>)
                             => Rank(l) < Rank(Step(c).lock)
<1>1. At(c, "spin") /\ WaitsFor(c) = owner[Step(c).lock]
  BY Zenon DEF WaitsFor
<1>2. Typed /\ CpuFits(c) /\ Code(c) # << >> /\ Step(c).op = "spin"
  BY <1>1, Zenon DEF LockInv, At, Step
<1>3. Step(c) \in AnyStep
  BY <1>2, NowRuns, Zenon
<1>4. Step(c).lock \in Lock
  BY <1>2, <1>3, SMTT(30), SMTT(60) DEF AnyStep, Steps, Underway
<1>5. Rank(Step(c).lock) \in 0 .. 13
  BY <1>4, RankNat, Zenon DEF Held
<1>6. WaitsFor(c).cpu \in CPU
  BY <1>1, <1>2, <1>4, SMTT(30), SMTT(60) DEF Typed
<1>7. PICK B \in Marks : Fits(Step(c), Holds(c), B)
  BY <1>2, NowRuns, Zenon
<1>8. Above(Step(c).lock, Holds(c))
  BY <1>2, <1>7, Zenon DEF Fits, Takes, GivesOff, GivesOn
<1>9. ASSUME NEW l \in Lock, Mine(c, l), owner[l].off \/ irq[c] = << >>
      PROVE  l \in Holds(c).on \cup Holds(c).off
  BY <1>9, MineIs, HoldsIs, Zenon
<1> QED
  BY <1>1, <1>4, <1>5, <1>6, <1>8, <1>9, Zenon DEF Above

(* Where no holder is interrupted, the CPU that waits highest of some      *)
(* waits for none of them.                                                 *)
LEMMA InvOrder == LockInv => NoCircularWait
<1> SUFFICES ASSUME LockInv, NEW cs \in (SUBSET CPU) \ {{}},
                    \A c \in cs : WaitsFor(c) # Free /\ WaitsFor(c).cpu \in cs,
                    \A c \in cs : WaitsFor(c).off \/ irq[WaitsFor(c).cpu] = << >>
             PROVE  FALSE
  BY Zenon DEF NoCircularWait
<1> DEFINE r == [c \in cs |-> Rank(Step(c).lock)]
<1>1. r \in [cs -> 0 .. 13]
  BY WaitsUpwards, Zenon
<1>2. \A c \in cs : r[c] = Rank(Step(c).lock)
  BY Zenon
<1> HIDE DEF r
<1>3. PICK c \in cs : \A d \in cs : r[d] <= r[c]
  BY <1>1, NoEndlessClimb, Zenon
<1> DEFINE d == WaitsFor(c).cpu
<1>4. /\ d \in cs /\ d \in CPU /\ Step(c).lock \in Lock /\ Mine(d, Step(c).lock)
      /\ owner[Step(c).lock].off \/ irq[d] = << >>
  BY WaitsUpwards, Zenon DEF Mine
<1>5. Rank(Step(c).lock) < Rank(Step(d).lock)
  BY <1>4, WaitsUpwards, Zenon
<1>6. r[c] < r[d] /\ r[d] <= r[c] /\ r[c] \in 0 .. 13 /\ r[d] \in 0 .. 13
  BY <1>1, <1>2, <1>3, <1>4, <1>5, Zenon
<1> QED
  BY <1>6, SMTT(30), SMTT(60)

(* A lock taken with interrupts off keeps them off.                        *)
LEMMA InvHolders == LockInv => HoldersCannotBeInterrupted
<1> SUFFICES ASSUME LockInv, NEW l \in Lock, owner[l] # Free
             PROVE  IF owner[l].off THEN ~ints[owner[l].cpu] ELSE l \in InterruptibleLocks
  BY Zenon DEF HoldersCannotBeInterrupted
<1>1. CASE owner[l].off
  <2>1. owner[l].cpu \in CPU
    BY SMTT(30), SMTT(60) DEF LockInv, Typed
  <2>2. l \in Off(owner[l].cpu)
    BY <1>1, Zenon DEF Off
  <2>3. ~ints[owner[l].cpu]
    BY <2>1, <2>2, Zenon DEF LockInv, CpuFits
  <2> QED
    BY <1>1, <2>3, Zenon
<1>2. CASE ~owner[l].off
  BY <1>2, Zenon DEF LockInv, LockFits
<1> QED
  BY <1>1, <1>2, Zenon

(* spin_lock.rs and the users of the locks: tasks that run any of the      *)
(* programs and handlers, on any number of CPUs, spin on locks that only   *)
(* they could release only where a handler runs on top of code that holds  *)
(* one of these locks, taken by lock() while interrupts were on.           *)
THEOREM LockOrdersFit ==
  ASSUME LockConstants
  PROVE  Spec => []NoCircularWait
BY LockInvHolds, InvOrder, PTL

(* lock_disable_interrupts, "Note: ordering is very important here!": a    *)
(* lock taken with interrupts off is given back before they come on, and   *)
(* no locks but those that the programs in use take by lock() are ever     *)
(* held with interrupts on.                                                *)
THEOREM LocksKeepInterruptsOff ==
  ASSUME LockConstants
  PROVE  Spec => []HoldersCannotBeInterrupted
BY LockInvHolds, InvHolders, PTL
=============================================================================
