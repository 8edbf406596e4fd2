---------------------------- MODULE LfRingProofs ----------------------------
(***************************************************************************)
(* What LfRing promises, for every size of the ring, number of threads and *)
(* sizes of their batches, with one or several producers and consumers.    *)
(***************************************************************************)
EXTENDS LfRing, SequenceTheorems, TLAPS

(* Remainders: the slot of a position is its remainder. *)
LEMMA Division ==
  ASSUME NEW n \in Nat \ {0}, NEW x \in Int
  PROVE  /\ x % n \in 0 .. n - 1
         /\ x \div n \in Int
         /\ x = n * (x \div n) + (x % n)
OBVIOUS

\* The quotients are no further apart than the remainders allow.
LEMMA QuotientsEqual ==
  ASSUME NEW n \in Nat \ {0}, NEW a \in Int, NEW b \in Int,
         NEW r \in 0 .. n - 1, NEW s \in 0 .. n - 1, n * a + r = n * b + s
  PROVE  a = b /\ r = s
<1>1. ~(a < b)
  <2> SUFFICES ASSUME a < b PROVE FALSE
    OBVIOUS
  <2>1. b - a \in Nat \ {0} /\ n * (b - a) = r - s
    OBVIOUS
  <2>2. n * (b - a) >= n
    BY <2>1
  <2> QED
    BY <2>1, <2>2
<1>2. ~(b < a)
  <2> SUFFICES ASSUME b < a PROVE FALSE
    OBVIOUS
  <2>1. a - b \in Nat \ {0} /\ n * (a - b) = s - r
    OBVIOUS
  <2>2. n * (a - b) >= n
    BY <2>1
  <2> QED
    BY <2>1, <2>2
<1> QED
  BY <1>1, <1>2

\* A number is its own remainder, or determined by the multiple it is away from one.
LEMMA RemainderIs ==
  ASSUME NEW n \in Nat \ {0}, NEW x \in Int, NEW q \in Int, NEW r \in 0 .. n - 1, x = n * q + r
  PROVE  x % n = r
<1> DEFINE a == x \div n
           s == x % n
<1>1. a \in Int /\ s \in 0 .. n - 1 /\ n * a + s = n * q + r
  BY Division
<1> HIDE DEF a, s
<1>2. s = r
  BY <1>1, QuotientsEqual
<1> QED
  BY <1>2 DEF s

LEMMA SmallRemainder ==
  ASSUME NEW n \in Nat \ {0}, NEW r \in 0 .. n - 1
  PROVE  r % n = r
<1>1. r = n * 0 + r
  OBVIOUS
<1> QED
  BY <1>1, RemainderIs

\* One round more or less changes nothing.
LEMMA NextRound ==
  ASSUME NEW n \in Nat \ {0}, NEW x \in Int
  PROVE  (x + n) % n = x % n /\ (x - n) % n = x % n
<1> DEFINE q == x \div n
           r == x % n
<1>1. q \in Int /\ r \in 0 .. n - 1 /\ x = n * q + r
  BY Division
<1> HIDE DEF q, r
<1>2. x + n = n * (q + 1) + r /\ x - n = n * (q - 1) + r
  BY <1>1
<1>3. (x + n) % n = r /\ (x - n) % n = r
  BY <1>1, <1>2, RemainderIs
<1> QED
  BY <1>3 DEF r

\* Two numbers with the same remainder are at least a round apart.
LEMMA SharedRemainder ==
  ASSUME NEW n \in Nat \ {0}, NEW x \in Int, NEW y \in Int, x % n = y % n, x < y
  PROVE  x + n <= y
<1> DEFINE q == x \div n
           r == x % n
           p == y \div n
<1>1. q \in Int /\ r \in 0 .. n - 1 /\ x = n * q + r /\ p \in Int /\ y = n * p + r
  BY Division
<1> HIDE DEF q, r, p
<1>2. p - q \in Int /\ n * (p - q) = y - x
  BY <1>1
<1>3. p - q >= 1
  BY <1>1, <1>2
<1>4. n * (p - q) >= n
  BY <1>2, <1>3
<1> QED
  BY <1>2, <1>4


Places == {"idle", "room", "fill", "publish", "loop", "slot", "reload", "update", "tail", "loadTail",
           "scan", "copy", "claim"}
Elements == Values \cup {NoValue}

TypeInv ==
  /\ head \in Nat /\ tail \in Nat
  /\ idx \in [Slots -> Int] /\ ptr \in [Slots -> Elements]
  /\ sp \in BOOLEAN /\ sc \in BOOLEAN
  /\ pc \in [Threads -> Places] /\ todo \in [Threads -> Seq(Nat \ {0})]
  /\ myHead \in [Threads -> Nat] /\ myTail \in [Threads -> Nat] /\ want \in [Threads -> Nat]
  /\ got \in [Threads -> Nat] /\ actual \in [Threads -> Nat] /\ elems \in [Threads -> Seq(Elements)]
  /\ accepted \in Seq(Values) /\ sent \in [Producers -> Nat]
  /\ received \in [Consumers -> Seq(Nat \X Seq(Elements))]

Stored == Len(accepted)

\* The slots hold the last Size positions that were written, whatever was
\* consumed of them.
RingInv ==
  /\ head <= tail /\ tail <= Stored /\ Stored <= head + Size
  /\ \A s \in Slots : idx[s] \in Stored - Size .. Stored - 1 /\ Slot(idx[s]) = s
  /\ \A i \in head .. Stored - 1 : ptr[Slot(i)] = accepted[i + 1]

\* A single producer is at the end of what is stored, and publishes all that is
\* behind the tail; one of several has seen room for the slot it goes for, and
\* steps over a slot only if it is written.
ProducerInv(p) ==
  /\ pc[p] \in IF sp THEN {"idle", "room", "fill", "publish"}
                     ELSE {"idle", "loop", "slot", "reload", "update"}
  /\ myTail[p] <= Stored
  /\ pc[p] # "idle" => want[p] > 0
  /\ pc[p] \in {"idle", "room"} => got[p] = 0
  /\ pc[p] \in {"room", "fill", "publish"} => myTail[p] = Stored /\ tail + got[p] = Stored
  /\ pc[p] = "fill" => got[p] < actual[p] /\ myTail[p] - got[p] + actual[p] <= head + Size
  /\ pc[p] = "publish" => got[p] > 0
  /\ pc[p] = "slot" => myTail[p] < head + Size
  /\ pc[p] = "reload" => myTail[p] < Stored

\* As long as nobody has moved the head, what a consumer has copied is what is
\* there.
ConsumerInv(c) ==
  /\ pc[c] \in IF sp THEN {"idle", "tail", "loadTail", "copy", "claim"}
                     ELSE {"idle", "tail", "scan", "update", "copy", "claim"}
  /\ myTail[c] <= Stored /\ myHead[c] <= head
  /\ pc[c] # "idle" => want[c] > 0 /\ (sc => myHead[c] = head)
  /\ pc[c] \notin {"copy", "claim"} => elems[c] = << >>
  /\ pc[c] \in {"copy", "claim"} =>
       /\ myHead[c] < myTail[c] /\ myTail[c] <= tail
       /\ pc[c] = "copy" => Len(elems[c]) < Batch(c)
       /\ pc[c] = "claim" => Len(elems[c]) = Batch(c)
       /\ myHead[c] = head => \A k \in 1 .. Len(elems[c]) : elems[c][k] = accepted[head + k]

\* A ring for a single producer or consumer has one, and nobody but that producer
\* leaves anything stored behind the tail.
Idle(t) == pc[t] = "idle" /\ todo[t] = << >>
Alone ==
  /\ sp => \A p, q \in Producers : p # q => Idle(p) \/ Idle(q)
  /\ sc => \A c, d \in Consumers : c # d => Idle(c) \/ Idle(d)
  /\ sp /\ tail # Stored => \E p \in Producers : pc[p] \in {"fill", "publish"}

\* The inductive invariant.
IInv ==
  /\ TypeInv /\ RingInv /\ Alone
  /\ \A p \in Producers : ProducerInv(p)
  /\ \A c \in Consumers : ConsumerInv(c)
-----------------------------------------------------------------------------
(* Slots *)

LEMMA SlotOf ==
  ASSUME NEW i \in Int
  PROVE  Slot(i) \in Slots /\ Slot(i - Size) = Slot(i)
<1>1. Size \in Nat \ {0}
  BY SizeAssumption
<1>2. i % Size \in 0 .. Size - 1
  BY <1>1, Division
<1>3. (i - Size) % Size = i % Size
  BY <1>1, NextRound
<1> QED
  BY <1>2, <1>3 DEF Slot, Slots

LEMMA SharedSlot ==
  ASSUME NEW i \in Int, NEW j \in Int, Slot(i) = Slot(j), i < j
  PROVE  i + Size <= j
<1>1. Size \in Nat \ {0} /\ i % Size = j % Size
  BY SizeAssumption DEF Slot
<1> QED
  BY <1>1, SharedRemainder

\* The slot of the next position holds the one a round before.
LEMMA NextSlot ==
  ASSUME TypeInv, RingInv
  PROVE  /\ Slot(Stored) \in Slots
         /\ idx[Slot(Stored)] = Stored - Size
         /\ \A s \in Slots : s # Slot(Stored) => idx[s] # Stored - Size
         /\ \A i \in Nat : i < Stored /\ Stored < i + Size => Slot(i) # Slot(Stored)
<1>1. Stored \in Nat /\ Size \in Nat \ {0}
  BY SizeAssumption DEF TypeInv, Stored
<1>2. PICK l \in Nat : l = Stored
  BY <1>1
<1>3. Slot(l) \in Slots /\ Slot(l - Size) = Slot(l)
  BY SlotOf
<1>4. ASSUME NEW i \in Nat, i < l, l < i + Size
      PROVE  Slot(i) # Slot(l)
  BY <1>1, <1>4, SharedSlot
<1>5. ASSUME NEW s \in Slots, s # Slot(l)
      PROVE  idx[s] # l - Size
  BY <1>3, <1>5 DEF RingInv
<1>6. idx[Slot(l)] = l - Size
  <2>1. PICK x \in Int : x = idx[Slot(l)]
    BY <1>3 DEF TypeInv
  <2>2. x \in l - Size .. l - 1 /\ Slot(x) = Slot(l)
    BY <1>2, <1>3, <2>1 DEF RingInv
  <2>3. x + Size <= l
    BY <1>1, <2>1, <2>2, SharedSlot
  <2> QED
    BY <1>1, <2>1, <2>2, <2>3
<1> QED
  BY <1>2, <1>3, <1>4, <1>5, <1>6

\* A position is in its slot until it is consumed.
LEMMA StoredSlots ==
  ASSUME TypeInv, RingInv, NEW i \in head .. Stored - 1
  PROVE  Slot(i) \in Slots /\ idx[Slot(i)] = i
<1>1. Stored \in Nat /\ Size \in Nat \ {0} /\ i \in Nat /\ head \in Nat
  BY SizeAssumption DEF TypeInv, Stored
<1>2. PICK l \in Nat : l = Stored
  BY <1>1
<1>3. Slot(i) \in Slots
  BY <1>1, SlotOf
<1>4. PICK x \in Int : x = idx[Slot(i)]
  BY <1>3 DEF TypeInv
<1>5. x \in l - Size .. l - 1 /\ Slot(x) = Slot(i)
  BY <1>2, <1>3, <1>4 DEF RingInv
<1>6. l <= head + Size
  BY <1>2 DEF RingInv
<1>7. ~(x < i) /\ ~(i < x)
  <2>1. x < i => x + Size <= i
    BY <1>1, <1>5, SharedSlot
  <2>2. i < x => i + Size <= x
    BY <1>1, <1>5, SharedSlot
  <2> QED
    BY <1>1, <1>2, <1>5, <1>6, <2>1, <2>2
<1> QED
  BY <1>1, <1>3, <1>4, <1>7

-----------------------------------------------------------------------------
(* What a step changes *)

\* Only the locals of t change.
Others(t) ==
  \A u \in Threads : u # t =>
    /\ pc'[u] = pc[u] /\ todo'[u] = todo[u] /\ myHead'[u] = myHead[u] /\ myTail'[u] = myTail[u]
    /\ want'[u] = want[u] /\ got'[u] = got[u] /\ actual'[u] = actual[u] /\ elems'[u] = elems[u]

LEMMA GotoIs ==
  ASSUME TypeInv, NEW t \in Threads, NEW label \in Places, Goto(t, label)
  PROVE  /\ pc' \in [Threads -> Places] /\ pc'[t] = label
         /\ \A u \in Threads : u # t => pc'[u] = pc[u]
BY DEF Goto, TypeInv

LEMMA Returned ==
  ASSUME TypeInv, NEW t \in Threads, Return(t), UNCHANGED todo
  PROVE  /\ pc' \in [Threads -> Places]
         /\ myHead' \in [Threads -> Nat] /\ myTail' \in [Threads -> Nat] /\ want' \in [Threads -> Nat]
         /\ got' \in [Threads -> Nat] /\ actual' \in [Threads -> Nat]
         /\ elems' \in [Threads -> Seq(Elements)]
         /\ pc'[t] = "idle" /\ myHead'[t] = 0 /\ myTail'[t] = 0 /\ got'[t] = 0 /\ elems'[t] = << >>
         /\ Others(t)
<1>1. Goto(t, "idle") /\ "idle" \in Places
  BY DEF Return, Places
<1>2. << >> \in Seq(Elements)
  OBVIOUS
<1>3. /\ myHead' = Set(myHead, t, 0) /\ myTail' = Set(myTail, t, 0) /\ want' = Set(want, t, 0)
      /\ got' = Set(got, t, 0) /\ actual' = Set(actual, t, 0) /\ elems' = Set(elems, t, << >>)
  BY DEF Return
<1>4. /\ myHead' \in [Threads -> Nat] /\ myHead'[t] = 0
      /\ \A u \in Threads : u # t => myHead'[u] = myHead[u]
  BY <1>3 DEF Set, TypeInv
<1>5. /\ myTail' \in [Threads -> Nat] /\ myTail'[t] = 0
      /\ \A u \in Threads : u # t => myTail'[u] = myTail[u]
  BY <1>3 DEF Set, TypeInv
<1>6. /\ want' \in [Threads -> Nat] /\ \A u \in Threads : u # t => want'[u] = want[u]
  BY <1>3 DEF Set, TypeInv
<1>7. /\ got' \in [Threads -> Nat] /\ got'[t] = 0
      /\ \A u \in Threads : u # t => got'[u] = got[u]
  BY <1>3 DEF Set, TypeInv
<1>8. /\ actual' \in [Threads -> Nat] /\ \A u \in Threads : u # t => actual'[u] = actual[u]
  BY <1>3 DEF Set, TypeInv
<1>9. /\ elems' \in [Threads -> Seq(Elements)] /\ elems'[t] = << >>
      /\ \A u \in Threads : u # t => elems'[u] = elems[u]
  BY <1>2, <1>3 DEF Set, TypeInv
<1>10. /\ pc' \in [Threads -> Places] /\ pc'[t] = "idle"
       /\ \A u \in Threads : u # t => pc'[u] = pc[u]
  BY <1>1, GotoIs
<1>11. Others(t)
  BY <1>4, <1>5, <1>6, <1>7, <1>8, <1>9, <1>10 DEF Others
<1> QED
  BY <1>4, <1>5, <1>6, <1>7, <1>8, <1>9, <1>10, <1>11

-----------------------------------------------------------------------------
(* What a step leaves as it is *)

LEMMA ProducerStays ==
  ASSUME IInv, TypeInv', NEW p \in Producers, UNCHANGED sp, head <= head', Stored <= Stored',
         pc'[p] = pc[p], myTail'[p] = myTail[p], want'[p] = want[p], got'[p] = got[p],
         actual'[p] = actual[p],
         sp /\ pc[p] # "idle" => tail' = tail /\ Stored' = Stored
  PROVE  ProducerInv(p)'
<1>1. /\ p \in Threads /\ ProducerInv(p)
      /\ head \in Nat /\ head' \in Nat /\ Stored \in Nat /\ Stored' \in Nat
      /\ tail \in Nat /\ tail' \in Nat /\ Size \in Nat
      /\ myTail[p] \in Nat /\ got[p] \in Nat /\ actual[p] \in Nat
  BY SMTT(30), SizeAssumption DEF IInv, TypeInv, Threads, Stored
<1>2. pc[p] \in {"room", "fill", "publish"} => sp
  BY <1>1 DEF ProducerInv
<1>3. pc[p] \in {"room", "fill", "publish"} => tail' = tail /\ Stored' = Stored
  BY <1>2
<1> QED
  BY <1>1, <1>3 DEF ProducerInv

LEMMA ConsumerStays ==
  ASSUME IInv, TypeInv', NEW c \in Consumers, UNCHANGED <<sp, sc>>,
         head <= head', tail <= tail', Stored <= Stored',
         pc'[c] = pc[c], myHead'[c] = myHead[c], myTail'[c] = myTail[c], want'[c] = want[c],
         elems'[c] = elems[c],
         sc /\ pc[c] # "idle" => head' = head,
         \A i \in 1 .. Stored : accepted'[i] = accepted[i]
  PROVE  ConsumerInv(c)'
<1>1. /\ c \in Threads /\ ConsumerInv(c)
      /\ head \in Nat /\ head' \in Nat /\ Stored \in Nat /\ Stored' \in Nat
      /\ tail \in Nat /\ tail' \in Nat /\ tail <= Stored
      /\ myTail[c] \in Nat /\ myHead[c] \in Nat /\ want[c] \in Nat /\ Len(elems[c]) \in Nat
  BY SMTT(30) DEF IInv, TypeInv, RingInv, Threads, Stored
<1>2. Batch(c)' = Batch(c) /\ Batch(c) <= myTail[c] - myHead[c]
  BY <1>1 DEF Batch, Smaller
<1>3. /\ pc[c] = "copy" => Len(elems'[c]) < Batch(c)'
      /\ pc[c] = "claim" => Len(elems'[c]) = Batch(c)'
  BY <1>1, <1>2 DEF ConsumerInv
<1>4. ASSUME pc[c] \in {"copy", "claim"}, myHead[c] = head', NEW k \in 1 .. Len(elems[c])
      PROVE  elems'[c][k] = accepted'[head' + k]
  <2>1. myHead[c] = head /\ head' = head
    BY <1>1, <1>4 DEF ConsumerInv
  <2>2. Len(elems[c]) <= Batch(c)
    <3>1. Batch(c) \in Int
      BY <1>1 DEF Batch, Smaller
    <3> QED
      BY <1>1, <1>4, <3>1 DEF ConsumerInv
  <2>3. k \in Nat /\ Batch(c) \in Int /\ k <= myTail[c] - myHead[c]
    BY <1>1, <1>2, <2>2 DEF Batch, Smaller
  <2>4. head + k \in 1 .. Stored
    BY <1>1, <2>1, <2>3, <1>4 DEF ConsumerInv
  <2>5. elems[c][k] = accepted[head + k]
    BY <1>1, <1>4, <2>1 DEF ConsumerInv
  <2> QED
    BY <2>1, <2>4, <2>5
<1>5. /\ myTail'[c] <= Stored' /\ myHead'[c] <= head'
      /\ pc'[c] # "idle" => want'[c] > 0 /\ (sc' => myHead'[c] = head')
      /\ pc'[c] \notin {"copy", "claim"} => elems'[c] = << >>
      /\ pc'[c] \in {"copy", "claim"} => myHead'[c] < myTail'[c] /\ myTail'[c] <= tail'
      /\ pc'[c] \in IF sp' THEN {"idle", "tail", "loadTail", "copy", "claim"}
                    ELSE {"idle", "tail", "scan", "update", "copy", "claim"}
  BY <1>1 DEF ConsumerInv
<1> QED
  BY <1>3, <1>4, <1>5 DEF ConsumerInv

\* What is to be shown of a step of t.
LEMMA StepKeeps ==
  ASSUME IInv, TypeInv', RingInv', NEW t \in Threads, ~Idle(t), Others(t), UNCHANGED <<sp, sc>>,
         head <= head', tail <= tail', Stored <= Stored',
         \A i \in 1 .. Stored : accepted'[i] = accepted[i],
         t \in Producers => UNCHANGED head /\ ProducerInv(t)',
         t \in Consumers => Stored' = Stored /\ (sp => UNCHANGED tail) /\ ConsumerInv(t)',
         sp /\ tail' # Stored' => \E p \in Producers : pc'[p] \in {"fill", "publish"}
  PROVE  IInv'
<1>1. /\ \A p \in Producers : p \in Threads /\ p \notin Consumers
      /\ \A c \in Consumers : c \in Threads /\ c \notin Producers
      /\ t \in Producers \/ t \in Consumers
  BY ThreadsAssumption DEF Threads
<1>2. ASSUME NEW u \in Threads, u # t
      PROVE  /\ sp /\ t \in Producers /\ u \in Producers => Idle(u)
             /\ sc /\ t \in Consumers /\ u \in Consumers => Idle(u)
             /\ pc'[u] = pc[u] /\ todo'[u] = todo[u] /\ myHead'[u] = myHead[u] /\ myTail'[u] = myTail[u]
             /\ want'[u] = want[u] /\ got'[u] = got[u] /\ actual'[u] = actual[u]
             /\ elems'[u] = elems[u]
  BY <1>2 DEF IInv, Alone, Others
<1>3. ASSUME NEW p \in Producers, p # t
      PROVE  ProducerInv(p)'
  <2>1. sp /\ pc[p] # "idle" => tail' = tail /\ Stored' = Stored
    BY <1>1, <1>2, <1>3 DEF Idle
  <2> QED
    BY <1>1, <1>2, <1>3, <2>1, ProducerStays
<1>4. ASSUME NEW c \in Consumers, c # t
      PROVE  ConsumerInv(c)'
  <2>1. sc /\ pc[c] # "idle" => head' = head
    BY <1>1, <1>2, <1>4 DEF Idle
  <2> QED
    BY <1>1, <1>2, <1>4, <2>1, ConsumerStays
<1>5. Alone'
  <2>1. ASSUME NEW u \in Threads, u # t, Idle(u)
        PROVE  Idle(u)'
    BY <1>2, <2>1 DEF Idle
  <2>2. sp' => \A p, q \in Producers : p # q => Idle(p)' \/ Idle(q)'
    BY <1>1, <2>1 DEF IInv, Alone
  <2>3. sc' => \A p, q \in Consumers : p # q => Idle(p)' \/ Idle(q)'
    BY <1>1, <2>1 DEF IInv, Alone
  <2> QED
    BY <2>2, <2>3 DEF Alone
<1> QED
  BY <1>1, <1>3, <1>4, <1>5 DEF IInv

\* ... of one that changes nothing but t's locals.
LEMMA LocalStepKeeps ==
  ASSUME IInv, NEW t \in Threads, ~Idle(t), Others(t), UNCHANGED <<ring, history>>,
         pc' \in [Threads -> Places], todo' \in [Threads -> Seq(Nat \ {0})],
         myHead' \in [Threads -> Nat], myTail' \in [Threads -> Nat], want' \in [Threads -> Nat],
         got' \in [Threads -> Nat], actual' \in [Threads -> Nat],
         elems' \in [Threads -> Seq(Elements)],
         t \in Producers => pc[t] \notin {"fill", "publish"} /\ ProducerInv(t)',
         t \in Consumers => ConsumerInv(t)'
  PROVE  IInv'
<1>1. /\ UNCHANGED <<head, tail, idx, ptr, sp, sc, accepted, sent, received>>
      /\ Stored' = Stored /\ Stored \in Nat /\ head \in Nat /\ tail \in Nat
  BY DEF ring, history, Stored, IInv, TypeInv
<1>2. TypeInv'
  BY <1>1 DEF IInv, TypeInv
<1>3. RingInv'
  BY <1>1 DEF IInv, RingInv, Slot
<1>4. sp /\ tail' # Stored' => \E p \in Producers : pc'[p] \in {"fill", "publish"}
  <2>1. \A p \in Producers : p \in Threads /\ p \notin Consumers
    BY ThreadsAssumption DEF Threads
  <2> QED
    BY <1>1, <2>1 DEF IInv, Alone, Others
<1> QED
  BY <1>1, <1>2, <1>3, <1>4, StepKeeps

-----------------------------------------------------------------------------
(* Enqueueing *)

\* What is known of a producer.
LEMMA AtProducer ==
  ASSUME IInv, NEW p \in Producers
  PROVE  /\ p \in Threads /\ p \notin Consumers /\ ProducerInv(p)
         /\ head \in Nat /\ tail \in Nat /\ Stored \in Nat /\ Size \in Nat \ {0} /\ sp \in BOOLEAN
         /\ head <= tail /\ tail <= Stored /\ Stored <= head + Size
         /\ pc[p] \in Places /\ todo[p] \in Seq(Nat \ {0}) /\ elems[p] \in Seq(Elements)
         /\ myHead[p] \in Nat /\ myTail[p] \in Nat /\ want[p] \in Nat /\ got[p] \in Nat
         /\ actual[p] \in Nat
BY SizeAssumption, ThreadsAssumption DEF IInv, TypeInv, RingInv, Threads, Stored

LEMMA CallBegins ==
  ASSUME IInv, NEW t \in Threads, todo[t] # << >>
  PROVE  Head(todo[t]) \in Nat \ {0} /\ Tail(todo[t]) \in Seq(Nat \ {0}) /\ ~Idle(t)
<1>1. todo[t] \in Seq(Nat \ {0})
  BY DEF IInv, TypeInv
<1> QED
  BY <1>1 DEF Idle

LEMMA EnqueueBeginsKeeps ==
  ASSUME IInv, NEW p \in Producers, EnqueueBegins(p)
  PROVE  IInv'
<1> DEFINE place == IF sp THEN "room" ELSE "loop"
<1>1. /\ p \in Threads /\ p \notin Consumers /\ ProducerInv(p) /\ sp \in BOOLEAN
      /\ tail \in Nat /\ tail <= Stored
  BY AtProducer
<1>2. /\ pc[p] = "idle" /\ Goto(p, place) /\ place \in Places
      /\ want' = Set(want, p, Head(todo[p])) /\ todo' = Set(todo, p, Tail(todo[p]))
      /\ myTail' = Set(myTail, p, tail)
      /\ UNCHANGED <<ring, myHead, got, actual, elems, history>>
  BY DEF EnqueueBegins, Places
<1>3. Head(todo[p]) \in Nat \ {0} /\ Tail(todo[p]) \in Seq(Nat \ {0}) /\ ~Idle(p)
  BY <1>1, CallBegins DEF EnqueueBegins
<1>4. /\ pc' \in [Threads -> Places] /\ pc'[p] = place
      /\ \A u \in Threads : u # p => pc'[u] = pc[u]
  BY <1>1, <1>2, GotoIs DEF IInv
<1>5. /\ want' \in [Threads -> Nat] /\ want'[p] > 0 /\ todo' \in [Threads -> Seq(Nat \ {0})]
      /\ myTail' \in [Threads -> Nat] /\ myTail'[p] = tail
      /\ \A u \in Threads : u # p => want'[u] = want[u] /\ todo'[u] = todo[u] /\ myTail'[u] = myTail[u]
  BY SMTT(30), <1>1, <1>2, <1>3 DEF Set, IInv, TypeInv
<1>6. Others(p)
  BY <1>2, <1>4, <1>5 DEF Others
<1>7. sp => tail = Stored
  <2>1. \A q \in Producers : pc[q] \in {"fill", "publish"} => q # p /\ ~Idle(q)
    BY <1>2 DEF Idle
  <2> QED
    BY <1>3, <2>1 DEF IInv, Alone
<1>8. ProducerInv(p)'
  BY <1>1, <1>2, <1>4, <1>5, <1>7 DEF ProducerInv, ring, history, Stored
<1> QED
  BY <1>1, <1>2, <1>3, <1>4, <1>5, <1>6, <1>8, LocalStepKeeps DEF IInv, TypeInv

LEMMA MeasureRoomKeeps ==
  ASSUME IInv, NEW p \in Producers, MeasureRoom(p)
  PROVE  IInv'
<1>1. /\ p \in Threads /\ p \notin Consumers /\ ProducerInv(p)
      /\ head \in Nat /\ tail \in Nat /\ Stored \in Nat /\ Size \in Nat \ {0}
      /\ myTail[p] \in Nat /\ want[p] \in Nat /\ got[p] \in Nat
  BY AtProducer
<1>2. pc[p] = "room" /\ UNCHANGED <<ring, todo, history>> /\ ~Idle(p)
  BY DEF MeasureRoom, Idle
<1>3. CASE Room(p) <= 0
  <2>1. Return(p)
    BY <1>3 DEF MeasureRoom
  <2>2. ProducerInv(p)'
    BY <1>1, <1>2, <2>1, Returned DEF ProducerInv, ring, history, Stored, IInv
  <2> QED
    BY <1>1, <1>2, <2>1, <2>2, Returned, LocalStepKeeps DEF IInv, TypeInv
<1>4. CASE ~(Room(p) <= 0)
  <2> DEFINE n == Smaller(Room(p), want[p])
  <2>1. /\ Goto(p, "fill") /\ "fill" \in Places /\ actual' = Set(actual, p, n)
        /\ UNCHANGED <<myHead, myTail, want, got, elems>>
    BY <1>4 DEF MeasureRoom, Places
  <2>2. n \in Nat /\ n > 0 /\ myTail[p] + n <= head + Size
    BY <1>1, <1>2, <1>4 DEF ProducerInv, Room, Smaller
  <2> HIDE DEF n
  <2>3. /\ pc' \in [Threads -> Places] /\ pc'[p] = "fill"
        /\ \A u \in Threads : u # p => pc'[u] = pc[u]
    BY <1>1, <2>1, GotoIs DEF IInv
  <2>4. /\ actual' \in [Threads -> Nat] /\ actual'[p] = n
        /\ \A u \in Threads : u # p => actual'[u] = actual[u]
    BY <1>1, <2>1, <2>2 DEF Set, IInv, TypeInv
  <2>5. Others(p)
    BY <1>2, <2>1, <2>3, <2>4 DEF Others
  <2>6. ProducerInv(p)'
    BY <1>1, <1>2, <2>1, <2>2, <2>3, <2>4 DEF ProducerInv, ring, history, Stored
  <2> QED
    BY <1>1, <1>2, <2>1, <2>3, <2>4, <2>5, <2>6, LocalStepKeeps DEF IInv, TypeInv
<1> QED
  BY <1>3, <1>4

\* The steps of several producers that only look.
LEMMA LookingKeeps ==
  ASSUME IInv, NEW p \in Producers,
         EnqueueLoop(p) \/ SkipSlot(p) \/ FarBehind(p) \/ CondReload(p)
  PROVE  IInv'
<1>1. /\ p \in Threads /\ p \notin Consumers /\ ProducerInv(p)
      /\ head \in Nat /\ tail \in Nat /\ Stored \in Nat /\ Size \in Nat \ {0}
      /\ myTail[p] \in Nat /\ tail <= Stored /\ want[p] \in Nat /\ got[p] \in Nat
  BY AtProducer
<1>2. /\ pc[p] \in {"loop", "slot", "reload"} /\ ~Idle(p) /\ ~sp
      /\ UNCHANGED <<ring, todo, myHead, want, got, actual, elems, history>>
  BY <1>1 DEF EnqueueLoop, SkipSlot, FarBehind, CondReload, Idle, ProducerInv, locals
<1>3. Slot(myTail[p]) \in Slots
  BY <1>1, SlotOf
<1>4. ASSUME NEW place \in {"loop", "slot", "reload", "update"}, Goto(p, place),
             NEW i \in Nat, i <= Stored, myTail' = Set(myTail, p, i),
             place = "slot" => i < head + Size, place = "reload" => i < Stored
      PROVE  IInv'
  <2>1. place \in Places
    BY DEF Places
  <2>2. /\ pc' \in [Threads -> Places] /\ pc'[p] = place
        /\ \A u \in Threads : u # p => pc'[u] = pc[u]
    BY <1>1, <1>4, <2>1, GotoIs DEF IInv
  <2>3. /\ myTail' \in [Threads -> Nat] /\ myTail'[p] = i
        /\ \A u \in Threads : u # p => myTail'[u] = myTail[u]
    BY <1>1, <1>4 DEF Set, IInv, TypeInv
  <2>4. Others(p)
    BY <1>2, <2>2, <2>3 DEF Others
  <2>5. ProducerInv(p)'
    BY <1>1, <1>2, <1>4, <2>2, <2>3 DEF ProducerInv, ring, history, Stored
  <2> QED
    BY <1>1, <1>2, <2>2, <2>3, <2>4, <2>5, LocalStepKeeps DEF IInv, TypeInv
<1>5. UNCHANGED myTail => myTail' = Set(myTail, p, myTail[p])
  BY <1>1 DEF Set, IInv, TypeInv
<1>6. CASE EnqueueLoop(p)
  BY <1>1, <1>4, <1>5, <1>6 DEF EnqueueLoop, locals, ProducerInv
<1>7. CASE SkipSlot(p)
  <2>1. myTail[p] + 1 <= Stored
    BY <1>1, <1>3, <1>7 DEF SkipSlot, IInv, RingInv
  <2> QED
    BY <1>1, <1>4, <1>7, <2>1 DEF SkipSlot
<1>8. CASE FarBehind(p)
  <2>1. myTail[p] # Stored
    BY <1>8, NextSlot DEF FarBehind, IInv
  <2> QED
    BY <1>1, <1>4, <1>5, <1>8, <2>1 DEF FarBehind, locals, ProducerInv
<1>9. CASE CondReload(p)
  BY <1>1, <1>4, <1>9 DEF CondReload, ProducerInv
<1> QED
  BY <1>6, <1>7, <1>8, <1>9

\* What a producer writes at the end of what is stored.
LEMMA Written ==
  ASSUME IInv, NEW p \in Producers, Write(p), UNCHANGED <<head, tail>>,
         myTail[p] = Stored, Stored < head + Size
  PROVE  /\ RingInv'
         /\ idx' \in [Slots -> Int] /\ ptr' \in [Slots -> Elements]
         /\ accepted' \in Seq(Values) /\ sent' \in [Producers -> Nat]
         /\ Stored' = Stored + 1 /\ accepted'[Stored + 1] = <<p, sent[p] + 1>>
         /\ \A i \in 1 .. Stored : accepted'[i] = accepted[i]
         /\ myTail' \in [Threads -> Nat] /\ got' \in [Threads -> Nat]
         /\ myTail'[p] = Stored + 1 /\ got'[p] = got[p] + 1
         /\ \A u \in Threads : u # p => myTail'[u] = myTail[u] /\ got'[u] = got[u]
<1> DEFINE l == Stored
           v == <<p, sent[p] + 1>>
<1>1. /\ p \in Threads /\ head \in Nat /\ tail \in Nat /\ l \in Nat /\ Size \in Nat \ {0}
      /\ myTail[p] = l /\ l < head + Size /\ head <= tail /\ tail <= l /\ got[p] \in Nat
  BY AtProducer
<1>2. /\ Slot(l) \in Slots /\ idx[Slot(l)] = l - Size
      /\ \A s \in Slots : s # Slot(l) => idx[s] # l - Size
      /\ \A i \in Nat : i < l /\ l < i + Size => Slot(i) # Slot(l)
  BY NextSlot DEF IInv
<1>3. sent[p] \in Nat /\ v \in Values /\ v \in Elements
  BY DEF IInv, TypeInv, Values, Elements
<1>4. /\ idx' = Set(idx, Slot(l), l) /\ ptr' = Set(ptr, Slot(l), v)
      /\ accepted' = Append(accepted, v) /\ sent' = Set(sent, p, sent[p] + 1)
      /\ myTail' = Set(myTail, p, l + 1) /\ got' = Set(got, p, got[p] + 1)
  BY <1>1 DEF Write
<1>5. accepted \in Seq(Values) /\ Len(accepted) = l
  BY DEF IInv, TypeInv, Stored
<1> HIDE DEF l, v
<1>6. /\ idx' \in [Slots -> Int] /\ idx'[Slot(l)] = l
      /\ \A s \in Slots : s # Slot(l) => idx'[s] = idx[s]
  BY <1>1, <1>2, <1>4 DEF Set, IInv, TypeInv
<1>7. /\ ptr' \in [Slots -> Elements] /\ ptr'[Slot(l)] = v
      /\ \A s \in Slots : s # Slot(l) => ptr'[s] = ptr[s]
  BY <1>2, <1>3, <1>4 DEF Set, IInv, TypeInv
<1>8. /\ accepted' \in Seq(Values) /\ Len(accepted') = l + 1 /\ accepted'[l + 1] = v
      /\ \A i \in 1 .. l : accepted'[i] = accepted[i]
  BY <1>3, <1>4, <1>5
<1>9. sent' \in [Producers -> Nat]
  BY <1>3, <1>4 DEF Set, IInv, TypeInv
<1>10. /\ myTail' \in [Threads -> Nat] /\ got' \in [Threads -> Nat]
       /\ myTail'[p] = l + 1 /\ got'[p] = got[p] + 1
       /\ \A u \in Threads : u # p => myTail'[u] = myTail[u] /\ got'[u] = got[u]
  BY <1>1, <1>4 DEF Set, IInv, TypeInv
<1>11. Stored = l /\ Stored' = l + 1
  BY <1>8 DEF Stored, l
<1>12. RingInv'
  <2>1. ASSUME NEW s \in Slots
        PROVE  idx'[s] \in l + 1 - Size .. l /\ Slot(idx'[s]) = s
    <3>1. CASE s = Slot(l)
      BY <1>1, <1>6, <3>1
    <3>2. CASE s # Slot(l)
      <4>1. idx'[s] = idx[s] /\ idx[s] # l - Size /\ idx[s] \in Int
        BY <1>2, <1>6, <3>2 DEF IInv, TypeInv
      <4>2. idx[s] \in l - Size .. l - 1 /\ Slot(idx[s]) = s
        BY <1>11 DEF IInv, RingInv
      <4> QED
        BY <1>1, <4>1, <4>2
    <3> QED
      BY <3>1, <3>2
  <2>2. ASSUME NEW i \in head .. l
        PROVE  ptr'[Slot(i)] = accepted'[i + 1]
    <3>1. CASE i = l
      BY <1>7, <1>8, <3>1
    <3>2. CASE i # l
      <4>1. i \in head .. l - 1 /\ i \in Nat /\ i < l /\ l < i + Size /\ i + 1 \in 1 .. l
        BY <1>1, <3>2
      <4>2. Slot(i) # Slot(l) /\ Slot(i) \in Slots
        BY <1>2, <4>1, SlotOf
      <4>3. ptr[Slot(i)] = accepted[i + 1]
        BY <1>11, <4>1 DEF IInv, RingInv
      <4> QED
        BY <1>7, <1>8, <4>1, <4>2, <4>3
    <3> QED
      BY <3>1, <3>2
  <2>3. head <= tail /\ tail <= l + 1 /\ l + 1 <= head + Size /\ l + 1 - 1 = l
    BY <1>1
  <2>4. /\ head' <= tail' /\ tail' <= Stored' /\ Stored' <= head' + Size
        /\ Stored' - Size = l + 1 - Size /\ Stored' - 1 = l
    BY <1>1, <1>11, <2>3
  <2>5. \A s \in Slots : idx'[s] \in Stored' - Size .. Stored' - 1 /\ Slot(idx'[s]) = s
    BY <2>1, <2>4
  <2>6. \A i \in head' .. Stored' - 1 : ptr'[Slot(i)] = accepted'[i + 1]
    BY <2>2, <2>4
  <2> QED
    BY <2>4, <2>5, <2>6 DEF RingInv, Slot
<1> QED
  BY <1>6, <1>7, <1>8, <1>9, <1>10, <1>11, <1>12 DEF v

\* The two steps that write.
LEMMA WriteStepKeeps ==
  ASSUME IInv, NEW p \in Producers, Write(p), NEW place \in {"fill", "publish", "loop", "update"},
         Goto(p, place), UNCHANGED <<head, tail, sp, sc, todo, myHead, want, actual, elems, received>>,
         pc[p] # "idle", myTail[p] = Stored, Stored < head + Size, want[p] > 0,
         place \in {"fill", "publish"} => sp /\ tail + got[p] = Stored,
         place \in {"loop", "update"} => ~sp,
         place = "fill" => got[p] + 1 < actual[p] /\ Stored - got[p] + actual[p] <= head + Size
  PROVE  IInv'
<1>1. /\ p \in Threads /\ p \notin Consumers
      /\ head \in Nat /\ tail \in Nat /\ Stored \in Nat /\ Size \in Nat \ {0}
      /\ got[p] \in Nat /\ actual[p] \in Nat
  BY AtProducer
<1>2. place \in Places
  BY DEF Places
<1>3. /\ pc' \in [Threads -> Places] /\ pc'[p] = place
      /\ \A u \in Threads : u # p => pc'[u] = pc[u]
  BY <1>1, <1>2, GotoIs DEF IInv
<1>4. /\ RingInv'
      /\ idx' \in [Slots -> Int] /\ ptr' \in [Slots -> Elements]
      /\ accepted' \in Seq(Values) /\ sent' \in [Producers -> Nat]
      /\ Stored' = Stored + 1
      /\ \A i \in 1 .. Stored : accepted'[i] = accepted[i]
      /\ myTail' \in [Threads -> Nat] /\ got' \in [Threads -> Nat]
      /\ myTail'[p] = Stored + 1 /\ got'[p] = got[p] + 1
      /\ \A u \in Threads : u # p => myTail'[u] = myTail[u] /\ got'[u] = got[u]
  BY Written
<1>5. TypeInv'
  BY <1>3, <1>4 DEF IInv, TypeInv
<1>6. Others(p)
  BY <1>3, <1>4 DEF Others
<1>7. ProducerInv(p)'
  <2>1. /\ place \in {"fill", "publish"} => tail + (got[p] + 1) = Stored + 1 /\ got[p] + 1 > 0
        /\ place = "fill" => Stored + 1 - (got[p] + 1) + actual[p] <= head + Size
    BY <1>1
  <2> QED
    BY SMTT(30), <1>1, <1>3, <1>4, <2>1 DEF ProducerInv
<1>8. ~Idle(p)
  BY DEF Idle
<1>9. sp /\ tail' # Stored' => \E q \in Producers : pc'[q] \in {"fill", "publish"}
  BY <1>3
<1> QED
  BY <1>1, <1>4, <1>5, <1>6, <1>7, <1>8, <1>9, StepKeeps

LEMMA FillKeeps ==
  ASSUME IInv, NEW p \in Producers, Fill(p)
  PROVE  IInv'
<1>1. /\ ProducerInv(p) /\ head \in Nat /\ tail \in Nat /\ Stored \in Nat /\ Size \in Nat \ {0}
      /\ got[p] \in Nat /\ actual[p] \in Nat /\ sp \in BOOLEAN
  BY AtProducer
<1>2. pc[p] = "fill" /\ sp
  BY <1>1 DEF Fill, ProducerInv
<1>3. /\ myTail[p] = Stored /\ tail + got[p] = Stored /\ want[p] > 0 /\ got[p] < actual[p]
      /\ Stored - got[p] + actual[p] <= head + Size
  BY <1>1, <1>2 DEF ProducerInv
<1>4. Stored < head + Size
  BY <1>1, <1>3
<1>5. got[p] + 1 # actual[p] => got[p] + 1 < actual[p]
  BY <1>1, <1>3
<1> DEFINE place == IF got[p] + 1 = actual[p] THEN "publish" ELSE "fill"
<1>6. /\ Write(p) /\ Goto(p, place)
      /\ UNCHANGED <<head, tail, sp, sc, todo, myHead, want, actual, elems, received>>
  BY DEF Fill
<1> QED
  BY <1>2, <1>3, <1>4, <1>5, <1>6, WriteStepKeeps

LEMMA ClaimSlotKeeps ==
  ASSUME IInv, NEW p \in Producers, ClaimSlot(p)
  PROVE  IInv'
<1>1. /\ ProducerInv(p) /\ head \in Nat /\ Stored \in Nat /\ Size \in Nat \ {0}
      /\ myTail[p] \in Nat /\ sp \in BOOLEAN
  BY AtProducer
<1>2. pc[p] = "slot" /\ ~sp /\ want[p] > 0 /\ myTail[p] < head + Size /\ myTail[p] <= Stored
  BY <1>1 DEF ClaimSlot, ProducerInv
<1>3. myTail[p] = Stored
  <2>1. Slot(myTail[p]) \in Slots
    BY <1>1, SlotOf
  <2>2. myTail[p] - Size \in Stored - Size .. Stored - 1
    BY <2>1 DEF ClaimSlot, IInv, RingInv
  <2> QED
    BY <1>1, <1>2, <2>2
<1> DEFINE place == IF got[p] + 1 < want[p] THEN "loop" ELSE "update"
<1>4. /\ Write(p) /\ Goto(p, place)
      /\ UNCHANGED <<head, tail, sp, sc, todo, myHead, want, actual, elems, received>>
  BY DEF ClaimSlot
<1> QED
  BY <1>1, <1>2, <1>3, <1>4, WriteStepKeeps

\* A step that only moves the tail on, in what is stored.
LEMMA TailMoves ==
  ASSUME IInv, UNCHANGED <<head, idx, ptr, sp, sc, history>>, tail' \in Nat,
         tail <= tail', tail' <= Stored,
         pc' \in [Threads -> Places], todo' \in [Threads -> Seq(Nat \ {0})],
         myHead' \in [Threads -> Nat], myTail' \in [Threads -> Nat], want' \in [Threads -> Nat],
         got' \in [Threads -> Nat], actual' \in [Threads -> Nat],
         elems' \in [Threads -> Seq(Elements)]
  PROVE  /\ TypeInv' /\ RingInv' /\ Stored' = Stored
         /\ \A i \in 1 .. Stored : accepted'[i] = accepted[i]
         /\ head <= head' /\ Stored <= Stored'
<1>1. /\ UNCHANGED <<head, idx, ptr, sp, sc, accepted, sent, received>> /\ Stored' = Stored
      /\ head \in Nat /\ tail \in Nat /\ Stored \in Nat
  BY DEF history, Stored, IInv, TypeInv
<1>2. TypeInv'
  BY <1>1 DEF IInv, TypeInv
<1>3. head' <= tail' /\ tail' <= Stored' /\ Stored' <= head' + Size
  BY <1>1 DEF IInv, RingInv
<1>4. RingInv'
  BY <1>1, <1>3 DEF IInv, RingInv, Slot
<1> QED
  BY <1>1, <1>2, <1>4

LEMMA PublishTailKeeps ==
  ASSUME IInv, NEW p \in Producers, PublishTail(p)
  PROVE  IInv'
<1>1. /\ p \in Threads /\ p \notin Consumers /\ ProducerInv(p) /\ sp \in BOOLEAN
      /\ head \in Nat /\ tail \in Nat /\ Stored \in Nat /\ tail <= Stored
  BY AtProducer
<1>2. /\ pc[p] = "publish" /\ ~Idle(p) /\ tail' = Stored /\ Return(p)
      /\ UNCHANGED <<head, idx, ptr, sp, sc, todo, history>>
  BY <1>1 DEF PublishTail, Idle, ProducerInv
<1>3. TypeInv' /\ RingInv' /\ Stored' = Stored /\ \A i \in 1 .. Stored : accepted'[i] = accepted[i]
  <2>1. todo' \in [Threads -> Seq(Nat \ {0})] /\ tail' \in Nat /\ tail <= tail' /\ tail' <= Stored
    BY <1>1, <1>2 DEF IInv, TypeInv
  <2> QED
    BY <1>1, <1>2, <2>1, Returned, TailMoves DEF IInv
<1>4. ProducerInv(p)'
  BY <1>1, <1>2, <1>3, Returned DEF ProducerInv, IInv
<1> QED
  BY <1>1, <1>2, <1>3, <1>4, Returned, StepKeeps DEF IInv

-----------------------------------------------------------------------------
(* Dequeueing *)

\* What is known of a consumer.
LEMMA AtConsumer ==
  ASSUME IInv, NEW c \in Consumers
  PROVE  /\ c \in Threads /\ c \notin Producers /\ ConsumerInv(c)
         /\ head \in Nat /\ tail \in Nat /\ Stored \in Nat /\ Size \in Nat \ {0}
         /\ sp \in BOOLEAN /\ sc \in BOOLEAN
         /\ head <= tail /\ tail <= Stored /\ Stored <= head + Size
         /\ pc[c] \in Places /\ todo[c] \in Seq(Nat \ {0}) /\ elems[c] \in Seq(Elements)
         /\ myHead[c] \in Nat /\ myTail[c] \in Nat /\ want[c] \in Nat /\ got[c] \in Nat
         /\ actual[c] \in Nat
BY SizeAssumption, ThreadsAssumption DEF IInv, TypeInv, RingInv, Threads, Stored

\* A consumer that begins to copy has copied nothing of a batch that is not empty.
LEMMA NothingCopied ==
  ASSUME IInv, NEW c \in Consumers, NEW h \in Nat, NEW t \in Nat, h < t, want[c] > 0,
         myHead'[c] = h, myTail'[c] = t, want'[c] = want[c], elems'[c] = << >>
  PROVE  Len(elems'[c]) < Batch(c)' /\ Len(elems'[c]) = 0
<1>1. want[c] \in Nat
  BY AtConsumer
<1> QED
  BY <1>1 DEF Batch, Smaller

\* find_tail ends: the consumer goes on with the tail, or returns.
LEMMA FoundTail ==
  ASSUME IInv, NEW c \in Consumers, pc[c] \in {"loadTail", "update"}, NEW t \in Nat,
         Found(c, myHead[c], t), tail' = t, t <= Stored,
         UNCHANGED <<head, idx, ptr, sp, sc, todo, history>>
  PROVE  /\ pc' \in [Threads -> Places]
         /\ myHead' \in [Threads -> Nat] /\ myTail' \in [Threads -> Nat] /\ want' \in [Threads -> Nat]
         /\ got' \in [Threads -> Nat] /\ actual' \in [Threads -> Nat]
         /\ elems' \in [Threads -> Seq(Elements)]
         /\ Others(c) /\ ConsumerInv(c)'
<1>1. /\ c \in Threads /\ ConsumerInv(c) /\ head \in Nat /\ tail \in Nat /\ Stored \in Nat
      /\ myHead[c] \in Nat /\ want[c] \in Nat /\ sp \in BOOLEAN
  BY AtConsumer
<1>2. Stored' = Stored
  BY DEF Stored, history
<1>3. CASE ~(t > myHead[c])
  <2>1. Return(c)
    BY <1>3 DEF Found
  <2> QED
    BY <1>1, <1>2, <2>1, Returned DEF ConsumerInv, IInv
<1>4. CASE t > myHead[c]
  <2>1. /\ Goto(c, "copy") /\ "copy" \in Places /\ myTail' = Set(myTail, c, t)
        /\ UNCHANGED <<myHead, want, got, actual, elems>>
    BY <1>1, <1>4 DEF Found, Places
  <2>2. /\ pc' \in [Threads -> Places] /\ pc'[c] = "copy"
        /\ \A u \in Threads : u # c => pc'[u] = pc[u]
    BY <1>1, <2>1, GotoIs DEF IInv
  <2>3. /\ myTail' \in [Threads -> Nat] /\ myTail'[c] = t
        /\ \A u \in Threads : u # c => myTail'[u] = myTail[u]
    BY <1>1, <2>1 DEF Set, IInv, TypeInv
  <2>4. Others(c)
    BY <2>1, <2>2, <2>3 DEF Others
  <2>5. elems'[c] = << >> /\ want[c] > 0
    BY <1>1, <2>1 DEF ConsumerInv
  <2>6. Len(elems'[c]) < Batch(c)' /\ Len(elems'[c]) = 0
    BY <1>1, <1>4, <2>1, <2>3, <2>5, NothingCopied
  <2>7. ConsumerInv(c)'
    BY <1>1, <1>2, <1>4, <2>1, <2>2, <2>3, <2>5, <2>6 DEF ConsumerInv
  <2> QED
    BY <2>1, <2>2, <2>3, <2>4, <2>7 DEF IInv, TypeInv
<1> QED
  BY <1>3, <1>4

LEMMA FindTailKeeps ==
  ASSUME IInv, NEW c \in Consumers, FindTail(c)
  PROVE  IInv'
<1>1. c \in Threads /\ c \notin Producers /\ tail \in Nat /\ tail <= Stored
  BY AtConsumer
<1>2. /\ pc[c] = "loadTail" /\ ~Idle(c) /\ Found(c, myHead[c], tail)
      /\ UNCHANGED <<ring, todo, history>> /\ UNCHANGED <<head, tail, idx, ptr, sp, sc>>
  BY DEF FindTail, Idle, ring
<1> QED
  BY <1>1, <1>2, FoundTail, LocalStepKeeps DEF IInv, TypeInv

LEMMA CondUpdateKeeps ==
  ASSUME IInv, NEW t \in Threads, CondUpdate(t)
  PROVE  IInv'
<1> DEFINE new == Larger(myTail[t], tail)
<1>1. /\ head \in Nat /\ tail \in Nat /\ Stored \in Nat /\ myTail[t] \in Nat /\ tail <= Stored
      /\ sp \in BOOLEAN
  BY DEF IInv, TypeInv, RingInv, Stored
<1>2. /\ pc[t] = "update" /\ ~Idle(t) /\ tail' = new
      /\ UNCHANGED <<head, idx, ptr, sp, sc, todo, history>>
      /\ t \in Producers => Return(t)
      /\ t \notin Producers => Found(t, myHead[t], new)
  BY DEF CondUpdate, Idle
<1>3. ~sp /\ myTail[t] <= Stored
  BY <1>2, AtProducer, AtConsumer DEF ProducerInv, ConsumerInv, Threads
<1>4. new \in Nat /\ tail <= new /\ new <= Stored
  BY <1>1, <1>3 DEF Larger
<1> HIDE DEF new
<1>5. todo' \in [Threads -> Seq(Nat \ {0})] /\ t \in Threads
  BY <1>2 DEF IInv, TypeInv
<1>6. CASE t \in Producers
  <2>1. t \notin Consumers
    BY <1>6, AtProducer
  <2>2. /\ TypeInv' /\ RingInv' /\ Stored' = Stored /\ \A i \in 1 .. Stored : accepted'[i] = accepted[i]
        /\ head <= head' /\ Stored <= Stored'
    BY <1>2, <1>4, <1>5, <1>6, Returned, TailMoves DEF IInv
  <2>3. ProducerInv(t)'
    BY <1>1, <1>2, <1>3, <1>6, <2>2, Returned DEF ProducerInv, IInv
  <2> QED
    BY <1>2, <1>3, <1>4, <1>6, <2>1, <2>2, <2>3, Returned, StepKeeps DEF IInv
<1>7. CASE t \notin Producers
  <2>1. t \in Consumers
    BY <1>7 DEF Threads
  <2>2. /\ pc' \in [Threads -> Places]
        /\ myHead' \in [Threads -> Nat] /\ myTail' \in [Threads -> Nat] /\ want' \in [Threads -> Nat]
        /\ got' \in [Threads -> Nat] /\ actual' \in [Threads -> Nat]
        /\ elems' \in [Threads -> Seq(Elements)]
        /\ Others(t) /\ ConsumerInv(t)'
    BY <1>2, <1>4, <1>7, <2>1, FoundTail
  <2>3. /\ TypeInv' /\ RingInv' /\ Stored' = Stored /\ \A i \in 1 .. Stored : accepted'[i] = accepted[i]
        /\ head <= head' /\ Stored <= Stored'
    BY <1>2, <1>4, <1>5, <2>2, TailMoves
  <2> QED
    BY <1>2, <1>3, <1>4, <1>7, <2>1, <2>2, <2>3, StepKeeps
<1> QED
  BY <1>6, <1>7

LEMMA DequeueBeginsKeeps ==
  ASSUME IInv, NEW c \in Consumers, DequeueBegins(c)
  PROVE  IInv'
<1>1. /\ c \in Threads /\ c \notin Producers /\ ConsumerInv(c) /\ head \in Nat
      /\ sp \in BOOLEAN
  BY AtConsumer
<1>2. /\ pc[c] = "idle" /\ Goto(c, "tail") /\ "tail" \in Places
      /\ want' = Set(want, c, Head(todo[c])) /\ todo' = Set(todo, c, Tail(todo[c]))
      /\ myHead' = Set(myHead, c, head)
      /\ UNCHANGED <<ring, myTail, got, actual, elems, history>>
  BY DEF DequeueBegins, Places
<1>3. Head(todo[c]) \in Nat \ {0} /\ Tail(todo[c]) \in Seq(Nat \ {0}) /\ ~Idle(c)
  BY <1>1, CallBegins DEF DequeueBegins
<1>4. /\ pc' \in [Threads -> Places] /\ pc'[c] = "tail"
      /\ \A u \in Threads : u # c => pc'[u] = pc[u]
  BY <1>1, <1>2, GotoIs DEF IInv
<1>5. /\ want' \in [Threads -> Nat] /\ want'[c] > 0 /\ todo' \in [Threads -> Seq(Nat \ {0})]
      /\ myHead' \in [Threads -> Nat] /\ myHead'[c] = head
      /\ \A u \in Threads : u # c => want'[u] = want[u] /\ todo'[u] = todo[u] /\ myHead'[u] = myHead[u]
  BY SMTT(30), <1>1, <1>2, <1>3 DEF Set, IInv, TypeInv
<1>6. Others(c)
  BY <1>2, <1>4, <1>5 DEF Others
<1>7. ConsumerInv(c)'
  BY <1>1, <1>2, <1>4, <1>5 DEF ConsumerInv, ring, history, Stored
<1> QED
  BY <1>1, <1>2, <1>3, <1>4, <1>5, <1>6, <1>7, LocalStepKeeps DEF IInv, TypeInv

\* Where a consumer goes that has copied nothing of what is between h and t.
LEMMA GoesOn ==
  ASSUME IInv, NEW c \in Consumers, NEW h \in Nat, NEW t \in Nat, want[c] > 0,
         Goto(c, CopyOrFindTail(h, t)), myHead'[c] = h, myTail'[c] = t, elems'[c] = << >>,
         UNCHANGED <<head, tail, sp, sc, want, accepted>>, h <= head, sc => h = head, t <= tail
  PROVE  /\ pc' \in [Threads -> Places]
         /\ \A u \in Threads : u # c => pc'[u] = pc[u]
         /\ ConsumerInv(c)'
<1> DEFINE place == CopyOrFindTail(h, t)
<1>1. /\ c \in Threads /\ head \in Nat /\ Stored' = Stored /\ sp \in BOOLEAN /\ t <= Stored
      /\ place \in {"copy", "loadTail", "scan"} /\ place \in Places
      /\ place = "copy" => h < t /\ t <= tail
      /\ place = "loadTail" => sp
      /\ place = "scan" => ~sp
  BY AtConsumer DEF CopyOrFindTail, Places, Stored
<1>2. Goto(c, place)
  OBVIOUS
<1> HIDE DEF place
<1>3. /\ pc' \in [Threads -> Places] /\ pc'[c] = place
      /\ \A u \in Threads : u # c => pc'[u] = pc[u]
  BY <1>1, <1>2, GotoIs DEF IInv
<1>4. place = "copy" => Len(elems'[c]) < Batch(c)' /\ Len(elems'[c]) = 0
  BY <1>1, NothingCopied
<1>5. ConsumerInv(c)'
  BY <1>1, <1>3, <1>4 DEF ConsumerInv
<1> QED
  BY <1>3, <1>5

LEMMA LoadTailKeeps ==
  ASSUME IInv, NEW c \in Consumers, LoadTail(c)
  PROVE  IInv'
<1>1. /\ c \in Threads /\ c \notin Producers /\ ConsumerInv(c) /\ head \in Nat /\ tail \in Nat
      /\ myHead[c] \in Nat
  BY AtConsumer
<1>2. /\ pc[c] = "tail" /\ ~Idle(c) /\ Goto(c, CopyOrFindTail(myHead[c], tail))
      /\ myTail' = Set(myTail, c, tail)
      /\ UNCHANGED <<ring, todo, myHead, want, got, actual, elems, history>>
      /\ UNCHANGED <<head, tail, sp, sc, accepted>>
  BY DEF LoadTail, Idle, ring, history
<1>3. /\ myTail' \in [Threads -> Nat] /\ myTail'[c] = tail
      /\ \A u \in Threads : u # c => myTail'[u] = myTail[u]
  BY <1>1, <1>2 DEF Set, IInv, TypeInv
<1>4. want[c] > 0 /\ elems'[c] = << >> /\ myHead[c] <= head /\ (sc => myHead[c] = head)
  BY <1>1, <1>2 DEF ConsumerInv
<1>5. /\ pc' \in [Threads -> Places]
      /\ \A u \in Threads : u # c => pc'[u] = pc[u]
      /\ ConsumerInv(c)'
  BY <1>1, <1>2, <1>3, <1>4, GoesOn
<1>6. Others(c)
  BY <1>2, <1>3, <1>5 DEF Others
<1> QED
  BY <1>1, <1>2, <1>3, <1>5, <1>6, LocalStepKeeps DEF IInv, TypeInv

LEMMA ScanKeeps ==
  ASSUME IInv, NEW c \in Consumers, Scan(c)
  PROVE  IInv'
<1>1. /\ c \in Threads /\ c \notin Producers /\ ConsumerInv(c) /\ head \in Nat /\ Stored \in Nat
      /\ myTail[c] \in Nat /\ sp \in BOOLEAN
  BY AtConsumer
<1>2. /\ pc[c] = "scan" /\ ~Idle(c)
      /\ UNCHANGED <<ring, todo, myHead, want, got, actual, elems, history>>
  BY DEF Scan, Idle
<1>3. ASSUME NEW place \in {"scan", "update"}, pc' \in [Threads -> Places], pc'[c] = place,
             \A u \in Threads : u # c => pc'[u] = pc[u],
             NEW i \in Nat, i <= Stored, myTail' = Set(myTail, c, i)
      PROVE  IInv'
  <2>1. /\ myTail' \in [Threads -> Nat] /\ myTail'[c] = i
        /\ \A u \in Threads : u # c => myTail'[u] = myTail[u]
    BY <1>1, <1>3 DEF Set, IInv, TypeInv
  <2>2. Others(c)
    BY <1>2, <1>3, <2>1 DEF Others
  <2>3. ConsumerInv(c)'
    BY <1>1, <1>2, <1>3, <2>1 DEF ConsumerInv, ring, history, Stored
  <2> QED
    BY <1>1, <1>2, <1>3, <2>1, <2>2, <2>3, LocalStepKeeps DEF IInv, TypeInv
<1>4. CASE myTail[c] < myHead[c] + Size /\ idx[Slot(myTail[c])] = myTail[c]
  <2>1. myTail[c] + 1 <= Stored
    <3>1. Slot(myTail[c]) \in Slots
      BY <1>1, SlotOf
    <3> QED
      BY <1>1, <1>4, <3>1 DEF IInv, RingInv
  <2>2. myTail' = Set(myTail, c, myTail[c] + 1) /\ UNCHANGED pc
    BY <1>4 DEF Scan
  <2>3. pc' \in [Threads -> Places] /\ pc'[c] = "scan"
    BY <1>2, <2>2 DEF IInv, TypeInv
  <2> QED
    BY <1>1, <1>3, <2>1, <2>2, <2>3
<1>5. CASE ~(myTail[c] < myHead[c] + Size /\ idx[Slot(myTail[c])] = myTail[c])
  <2>1. Goto(c, "update") /\ "update" \in Places /\ UNCHANGED myTail
    BY <1>5 DEF Scan, Places
  <2>2. myTail' = Set(myTail, c, myTail[c])
    BY <1>1, <2>1 DEF Set, IInv, TypeInv
  <2>3. /\ pc' \in [Threads -> Places] /\ pc'[c] = "update"
        /\ \A u \in Threads : u # c => pc'[u] = pc[u]
    BY <1>1, <2>1, GotoIs DEF IInv
  <2> QED
    BY <1>1, <1>3, <2>2, <2>3 DEF ConsumerInv
<1> QED
  BY <1>4, <1>5

\* What a consumer copies next is there, unless somebody has moved the head.
LEMMA CopyKeeps ==
  ASSUME IInv, NEW c \in Consumers, Copy(c)
  PROVE  IInv'
<1> DEFINE n == Len(elems[c])
           v == ptr[Slot(myHead[c] + n)]
           place == IF n + 1 = Batch(c) THEN "claim" ELSE "copy"
<1>1. /\ c \in Threads /\ c \notin Producers /\ ConsumerInv(c)
      /\ head \in Nat /\ Stored \in Nat /\ tail \in Nat /\ tail <= Stored
      /\ myHead[c] \in Nat /\ myTail[c] \in Nat /\ want[c] \in Nat /\ sp \in BOOLEAN
      /\ elems[c] \in Seq(Elements) /\ n \in Nat
  BY AtConsumer
<1>2. /\ pc[c] = "copy" /\ ~Idle(c) /\ elems' = Set(elems, c, Append(elems[c], v)) /\ Goto(c, place)
      /\ place \in Places
      /\ UNCHANGED <<ring, todo, myHead, myTail, want, got, actual, history>>
      /\ UNCHANGED <<head, tail, sp, sc, accepted>>
  BY DEF Copy, Idle, Places, ring, history
<1>3. v \in Elements
  <2>1. Slot(myHead[c] + n) \in Slots
    BY <1>1, SlotOf
  <2> QED
    BY <2>1 DEF IInv, TypeInv
<1>4. /\ Batch(c) \in Nat /\ Batch(c)' = Batch(c) /\ n < Batch(c) /\ Batch(c) <= myTail[c] - myHead[c]
      /\ myHead[c] < myTail[c] /\ myTail[c] <= tail
  BY <1>1, <1>2 DEF ConsumerInv, Batch, Smaller
<1>5. myHead[c] = head => v = accepted[head + (n + 1)]
  <2> SUFFICES ASSUME myHead[c] = head PROVE v = accepted[head + (n + 1)]
    OBVIOUS
  <2>1. head + n \in head .. Stored - 1
    BY SMTT(30), <1>1, <1>4
  <2>2. ptr[Slot(head + n)] = accepted[(head + n) + 1]
    BY <2>1 DEF IInv, RingInv
  <2>3. (head + n) + 1 = head + (n + 1)
    BY <1>1
  <2> QED
    BY <2>2, <2>3
<1>6. /\ Append(elems[c], v) \in Seq(Elements) /\ Len(Append(elems[c], v)) = n + 1
      /\ Append(elems[c], v)[n + 1] = v
      /\ \A k \in 1 .. n : Append(elems[c], v)[k] = elems[c][k]
  BY <1>1, <1>3
<1>7. /\ elems' \in [Threads -> Seq(Elements)] /\ elems'[c] = Append(elems[c], v)
      /\ \A u \in Threads : u # c => elems'[u] = elems[u]
  BY <1>1, <1>2, <1>6 DEF Set, IInv, TypeInv
<1>8. /\ pc' \in [Threads -> Places] /\ pc'[c] = place
      /\ \A u \in Threads : u # c => pc'[u] = pc[u]
  BY <1>1, <1>2, GotoIs DEF IInv
<1>9. Others(c)
  BY <1>2, <1>7, <1>8 DEF Others
<1>10. ConsumerInv(c)'
  <2>1. /\ place = "copy" => n + 1 < Batch(c)
        /\ place = "claim" => n + 1 = Batch(c)
    BY <1>1, <1>4
  <2>2. ASSUME myHead[c] = head, NEW k \in 1 .. n + 1
        PROVE  elems'[c][k] = accepted[head + k]
    <3>1. CASE k = n + 1
      BY <1>5, <1>6, <1>7, <2>2, <3>1
    <3>2. CASE k # n + 1
      <4>1. k \in 1 .. n
        BY <1>1, <3>2
      <4>2. elems[c][k] = accepted[head + k]
        BY <1>1, <1>2, <2>2, <4>1 DEF ConsumerInv
      <4> QED
        BY <1>6, <1>7, <4>1, <4>2
    <3> QED
      BY <3>1, <3>2
  <2>3. Len(elems'[c]) = n + 1 /\ Stored' = Stored /\ place \in {"copy", "claim"}
    BY <1>2, <1>6, <1>7 DEF Stored
  <2> HIDE DEF n, v, place
  <2>4. /\ myTail'[c] <= Stored' /\ myHead'[c] <= head' /\ want'[c] > 0 /\ (sc' => myHead'[c] = head')
        /\ myHead'[c] < myTail'[c] /\ myTail'[c] <= tail'
        /\ pc'[c] \in IF sp' THEN {"idle", "tail", "loadTail", "copy", "claim"}
                      ELSE {"idle", "tail", "scan", "update", "copy", "claim"}
    BY <1>1, <1>2, <1>4, <1>8, <2>3 DEF ConsumerInv
  <2>5. myHead'[c] = head' => \A k \in 1 .. Len(elems'[c]) : elems'[c][k] = accepted'[head' + k]
    BY <1>2, <2>2, <2>3
  <2> QED
    BY <1>4, <1>8, <2>1, <2>3, <2>4, <2>5 DEF ConsumerInv
<1> QED
  BY <1>1, <1>2, <1>7, <1>8, <1>9, <1>10, LocalStepKeeps DEF IInv, TypeInv

\* The head that a consumer moves is the one from which it copied.
LEMMA Claimed ==
  ASSUME IInv, NEW c \in Consumers, Claim(c), sc \/ head = myHead[c]
  PROVE  /\ myHead[c] = head /\ head' = head + Len(elems[c])
         /\ Len(elems[c]) \in Nat \ {0} /\ head + Len(elems[c]) <= tail
         /\ \A k \in 1 .. Len(elems[c]) : elems[c][k] = accepted[head + k]
         /\ received' = [received EXCEPT ![c] = Append(@, <<head, elems[c]>>)]
         /\ Return(c)
<1>1. /\ ConsumerInv(c) /\ head \in Nat /\ tail \in Nat /\ myHead[c] \in Nat /\ myTail[c] \in Nat
      /\ want[c] \in Nat /\ pc[c] = "claim"
  BY AtConsumer DEF Claim
<1>2. /\ myHead[c] = head /\ head < myTail[c] /\ myTail[c] <= tail /\ want[c] > 0
      /\ Len(elems[c]) = Batch(c)
      /\ \A k \in 1 .. Len(elems[c]) : elems[c][k] = accepted[head + k]
  BY <1>1 DEF ConsumerInv
<1>3. Batch(c) \in Nat \ {0} /\ Batch(c) <= myTail[c] - head
  BY <1>1, <1>2 DEF Batch, Smaller
<1>4. head' = myHead[c] + Batch(c) /\ Return(c)
      /\ received' = [received EXCEPT ![c] = Append(@, <<myHead[c], elems[c]>>)]
  BY DEF Claim
<1> QED
  BY <1>1, <1>2, <1>3, <1>4

LEMMA ClaimKeeps ==
  ASSUME IInv, NEW c \in Consumers, Claim(c)
  PROVE  IInv'
<1>1. /\ c \in Threads /\ c \notin Producers /\ ConsumerInv(c)
      /\ head \in Nat /\ tail \in Nat /\ Stored \in Nat /\ Size \in Nat \ {0}
      /\ head <= tail /\ tail <= Stored /\ Stored <= head + Size
      /\ myHead[c] \in Nat /\ myTail[c] \in Nat /\ elems[c] \in Seq(Elements)
  BY AtConsumer
<1>2. /\ pc[c] = "claim" /\ ~Idle(c) /\ UNCHANGED <<tail, idx, ptr, sp, sc, todo, accepted, sent>>
      /\ Stored' = Stored
  BY DEF Claim, Idle, Stored
<1>3. todo' \in [Threads -> Seq(Nat \ {0})]
  BY <1>2 DEF IInv, TypeInv
<1>4. sp /\ Others(c) /\ tail # Stored => \E p \in Producers : pc'[p] \in {"fill", "publish"}
  <2>1. \A p \in Producers : p \in Threads /\ p # c
    BY <1>1 DEF Threads
  <2> QED
    BY <2>1 DEF IInv, Alone, Others
<1>5. CASE sc \/ head = myHead[c]
  <2>1. /\ head' = head + Len(elems[c]) /\ Len(elems[c]) \in Nat \ {0} /\ head + Len(elems[c]) <= tail
        /\ received' = [received EXCEPT ![c] = Append(@, <<head, elems[c]>>)]
        /\ Return(c)
    BY <1>5, Claimed
  <2>2. received' \in [Consumers -> Seq(Nat \X Seq(Elements))]
    <3>1. received[c] \in Seq(Nat \X Seq(Elements)) /\ <<head, elems[c]>> \in Nat \X Seq(Elements)
      BY <1>1 DEF IInv, TypeInv
    <3>2. Append(received[c], <<head, elems[c]>>) \in Seq(Nat \X Seq(Elements))
      BY <3>1
    <3> QED
      BY <2>1, <3>2 DEF IInv, TypeInv
  <2>3. head' \in Nat /\ head <= head' /\ head' <= tail' /\ tail' <= Stored' /\ Stored' <= head' + Size
    BY SMTT(30), <1>1, <1>2, <2>1
  <2>4. TypeInv'
    BY <1>1, <1>2, <1>3, <2>1, <2>2, <2>3, Returned DEF IInv, TypeInv
  <2>5. RingInv'
    <3>1. head' .. Stored' - 1 \subseteq head .. Stored - 1
      BY <1>1, <1>2, <2>3
    <3> QED
      BY <1>2, <2>3, <3>1 DEF IInv, RingInv, Slot
  <2>6. Others(c)
    BY <1>1, <1>2, <2>1, Returned DEF IInv
  <2>7. ConsumerInv(c)'
    BY SMTT(30), <1>1, <1>2, <2>1, <2>3, Returned DEF ConsumerInv, IInv
  <2> QED
    BY <1>1, <1>2, <1>4, <2>3, <2>4, <2>5, <2>6, <2>7, StepKeeps
<1>6. CASE ~(sc \/ head = myHead[c])
  <2>1. /\ myHead' = Set(myHead, c, head) /\ elems' = Set(elems, c, << >>)
        /\ Goto(c, CopyOrFindTail(head, myTail[c]))
        /\ UNCHANGED <<head, received, myTail, want, got, actual>>
    BY <1>6 DEF Claim
  <2>2. << >> \in Seq(Elements)
    OBVIOUS
  <2>3. /\ myHead' \in [Threads -> Nat] /\ myHead'[c] = head
        /\ \A u \in Threads : u # c => myHead'[u] = myHead[u]
    BY <1>1, <2>1 DEF Set, IInv, TypeInv
  <2>4. /\ elems' \in [Threads -> Seq(Elements)] /\ elems'[c] = << >>
        /\ \A u \in Threads : u # c => elems'[u] = elems[u]
    BY <1>1, <2>1, <2>2 DEF Set, IInv, TypeInv
  <2>5. want[c] > 0 /\ myTail[c] <= tail
    BY <1>1, <1>2 DEF ConsumerInv
  <2>6. /\ pc' \in [Threads -> Places]
        /\ \A u \in Threads : u # c => pc'[u] = pc[u]
        /\ ConsumerInv(c)'
    BY <1>1, <1>2, <2>1, <2>3, <2>4, <2>5, GoesOn
  <2>7. Others(c)
    BY <1>2, <2>1, <2>3, <2>4, <2>6 DEF Others
  <2>8. UNCHANGED <<ring, history>>
    BY <1>2, <2>1 DEF ring, history
  <2> QED
    BY <1>1, <1>2, <1>3, <2>1, <2>3, <2>4, <2>6, <2>7, <2>8, LocalStepKeeps DEF IInv, TypeInv
<1> QED
  BY <1>5, <1>6

-----------------------------------------------------------------------------
(* The invariant *)

LEMMA Begins == Init => IInv
<1> SUFFICES ASSUME Init PROVE IInv
  OBVIOUS
<1>1. Size \in Nat \ {0} /\ Stored = 0
  BY SizeAssumption DEF Init, Stored
<1>2. PICK p \in Producers, c \in Consumers :
        todo = [t \in Threads |-> IF (t \in Producers /\ sp /\ t # p) \/ (t \in Consumers /\ sc /\ t # c)
                                  THEN << >> ELSE Requests[t]]
  BY DEF Init
<1>3. TypeInv
  <2>1. todo \in [Threads -> Seq(Nat \ {0})]
    BY <1>2, ThreadsAssumption
  <2>2. idx \in [Slots -> Int] /\ ptr \in [Slots -> Elements]
    BY <1>1 DEF Init, Slots, Elements
  <2>3. /\ elems \in [Threads -> Seq(Elements)] /\ accepted \in Seq(Values)
        /\ received \in [Consumers -> Seq(Nat \X Seq(Elements))]
    BY DEF Init
  <2> QED
    BY <2>1, <2>2, <2>3 DEF Init, TypeInv, Places
<1>4. RingInv
  <2>1. ASSUME NEW s \in Slots
        PROVE  idx[s] \in Stored - Size .. Stored - 1 /\ Slot(idx[s]) = s
    <3>1. s \in 0 .. Size - 1 /\ idx[s] = s - Size
      BY DEF Init, Slots
    <3>2. Slot(s) = s
      BY <1>1, <3>1, SmallRemainder DEF Slot
    <3>3. Slot(s - Size) = Slot(s)
      BY <3>1, SlotOf
    <3> QED
      BY <1>1, <3>1, <3>2, <3>3
  <2>2. head = 0 /\ tail = 0 /\ Stored - 1 < head
    BY <1>1 DEF Init
  <2> QED
    BY <1>1, <2>1, <2>2 DEF RingInv
<1>5. \A t \in Threads : pc[t] = "idle" /\ myTail[t] = 0 /\ myHead[t] = 0 /\ got[t] = 0 /\ elems[t] = << >>
  BY DEF Init
<1>6. sp \in BOOLEAN /\ head = 0 /\ tail = 0
  BY DEF Init
<1>7. \A q \in Producers : ProducerInv(q)
  BY <1>1, <1>5, <1>6 DEF ProducerInv, Threads
<1>8. \A d \in Consumers : ConsumerInv(d)
  BY <1>1, <1>5, <1>6 DEF ConsumerInv, Threads
<1>9. Alone
  <2>1. \A q \in Producers : q \in Threads /\ (sp /\ q # p => Idle(q))
    BY <1>2, <1>5 DEF Idle, Threads
  <2>2. \A d \in Consumers : d \in Threads /\ (sc /\ d # c => Idle(d))
    BY <1>2, <1>5 DEF Idle, Threads
  <2> QED
    BY <1>1, <1>6, <2>1, <2>2 DEF Alone
<1> QED
  BY <1>3, <1>4, <1>7, <1>8, <1>9 DEF IInv

LEMMA ProducerKeeps ==
  ASSUME IInv, NEW p \in Producers, Producer(p)
  PROVE  IInv'
<1>1. p \in Threads
  BY AtProducer
<1> QED
  BY <1>1, EnqueueBeginsKeeps, MeasureRoomKeeps, LookingKeeps, FillKeeps, ClaimSlotKeeps, PublishTailKeeps,
     CondUpdateKeeps DEF Producer

LEMMA ConsumerKeeps ==
  ASSUME IInv, NEW c \in Consumers, Consumer(c)
  PROVE  IInv'
<1>1. c \in Threads
  BY AtConsumer
<1> QED
  BY <1>1, DequeueBeginsKeeps, LoadTailKeeps, FindTailKeeps, ScanKeeps, CondUpdateKeeps, CopyKeeps, ClaimKeeps
     DEF Consumer

LEMMA NoStepKeeps ==
  ASSUME IInv, UNCHANGED vars
  PROVE  IInv'
<1>1. /\ UNCHANGED <<head, tail, idx, ptr, sp, sc, pc, todo, myHead, myTail, want, got, actual, elems>>
      /\ UNCHANGED <<accepted, sent, received>> /\ Stored' = Stored
  BY DEF vars, ring, locals, history, Stored
<1>2. TypeInv' /\ RingInv' /\ Alone'
  BY <1>1 DEF IInv, TypeInv, RingInv, Alone, Idle, Slot
<1>3. (\A p \in Producers : ProducerInv(p)') /\ (\A c \in Consumers : ConsumerInv(c)')
  BY <1>1 DEF IInv, ProducerInv, ConsumerInv, Batch
<1> QED
  BY <1>2, <1>3 DEF IInv

LEMMA Kept ==
  ASSUME IInv, [Next]_vars
  PROVE  IInv'
BY ProducerKeeps, ConsumerKeeps, NoStepKeeps DEF Next, Step

LEMMA Invariance == Spec => []IInv
<1>1. Init => IInv
  BY Begins
<1>2. IInv /\ [Next]_vars => IInv'
  BY Kept
<1> QED
  BY <1>1, <1>2, PTL DEF Spec

\* Head and tail lag behind what is stored by no more than the ring holds, nobody
\* steps over a slot that is not written, and each position is in its slot until
\* it is consumed, however the threads interleave and however far one of them
\* falls behind.
THEOREM NothingIsOverwritten == Spec => []IndicesLag
<1>1. IInv => IndicesLag
  <2> SUFFICES ASSUME IInv PROVE IndicesLag
    OBVIOUS
  <2>1. head <= tail /\ tail <= Len(accepted) /\ Len(accepted) <= head + Size
    BY DEF IInv, RingInv, Stored
  <2>2. \A t \in Threads : myTail[t] <= Len(accepted)
    BY AtProducer, AtConsumer DEF Threads, ProducerInv, ConsumerInv, Stored
  <2>3. \A i \in head .. Len(accepted) - 1 : idx[Slot(i)] = i /\ ptr[Slot(i)] = accepted[i + 1]
    BY StoredSlots DEF IInv, RingInv, Stored
  <2>4. ASSUME NEW p \in Producers, pc[p] = "fill"
        PROVE  idx[Slot(myTail[p])] = myTail[p] - Size
    <3>1. myTail[p] = Stored
      BY <2>4 DEF IInv, ProducerInv
    <3> QED
      BY <3>1, NextSlot DEF IInv
  <2> QED
    BY <2>1, <2>2, <2>3, <2>4 DEF IndicesLag
<1> QED
  BY <1>1, Invariance, PTL

-----------------------------------------------------------------------------
(* The queue with batches *)

\* Where the queue ends that its callers see.
End == IF sp THEN tail ELSE Stored
Waiting == SubSeq(accepted, head + 1, End)

LEMMA PartOf ==
  ASSUME NEW a \in Seq(Values), NEW h \in Nat, NEW e \in Nat, h <= e, e <= Len(a)
  PROVE  /\ SubSeq(a, h + 1, e) \in Seq(Values)
         /\ Len(SubSeq(a, h + 1, e)) = e - h
         /\ \A i \in 1 .. e - h : SubSeq(a, h + 1, e)[i] = a[h + i]
<1>1. \A i \in h + 1 .. e : a[i] \in Values
  OBVIOUS
<1>2. /\ SubSeq(a, h + 1, e) \in Seq(Values)
      /\ Len(SubSeq(a, h + 1, e)) = IF h + 1 <= e THEN e - (h + 1) + 1 ELSE 0
      /\ \A i \in 1 .. e - (h + 1) + 1 : SubSeq(a, h + 1, e)[i] = a[(h + 1) + i - 1]
  BY <1>1, SubSeqProperties
<1>3. Len(SubSeq(a, h + 1, e)) = e - h
  BY <1>2
<1>4. ASSUME NEW i \in 1 .. e - h
      PROVE  SubSeq(a, h + 1, e)[i] = a[h + i]
  <2>1. i \in 1 .. e - (h + 1) + 1 /\ (h + 1) + i - 1 = h + i
    OBVIOUS
  <2> QED
    BY <1>2, <2>1
<1> QED
  BY <1>2, <1>3, <1>4

LEMMA WaitingIs ==
  ASSUME IInv
  PROVE  /\ head \in Nat /\ End \in Nat /\ head <= End /\ End <= Stored /\ Stored <= head + Size
         /\ Size \in Nat /\ Stored \in Nat /\ accepted \in Seq(Values)
         /\ Waiting \in Seq(Values) /\ Len(Waiting) = End - head
         /\ \A i \in 1 .. End - head : Waiting[i] = accepted[head + i]
<1>1. /\ head \in Nat /\ End \in Nat /\ head <= End /\ End <= Stored /\ Stored <= head + Size
      /\ Size \in Nat /\ accepted \in Seq(Values) /\ Stored = Len(accepted)
  BY SizeAssumption DEF IInv, TypeInv, RingInv, End, Stored
<1> QED
  BY <1>1, PartOf DEF Waiting

\* Steps that leave what is before the end as it is.
LEMMA QueueUnchanged ==
  ASSUME IInv, UNCHANGED <<head, received>>, End' = End, \A i \in 1 .. Stored : accepted'[i] = accepted[i],
         accepted' \in Seq(Values), Stored <= Stored'
  PROVE  UNCHANGED Fifo!batchVars
<1> DEFINE e == End
           q == SubSeq(accepted', head + 1, e)
<1>1. /\ head \in Nat /\ e \in Nat /\ head <= e /\ e <= Stored /\ Stored \in Nat
      /\ Waiting \in Seq(Values) /\ Len(Waiting) = e - head
      /\ \A i \in 1 .. e - head : Waiting[i] = accepted[head + i]
  BY WaitingIs
<1>2. e <= Len(accepted')
  BY <1>1 DEF Stored
<1>3. Waiting' = q
  BY DEF Waiting
<1> HIDE DEF e
<1>4. /\ q \in Seq(Values) /\ Len(q) = e - head
      /\ \A i \in 1 .. e - head : q[i] = accepted'[head + i]
  BY <1>1, <1>2, PartOf
<1>5. \A i \in 1 .. e - head : accepted'[head + i] = accepted[head + i]
  BY <1>1
<1>6. Waiting' = Waiting
  BY <1>1, <1>3, <1>4, <1>5, SeqEqual
<1> QED
  BY <1>6 DEF Fifo!batchVars, Waiting, End, Stored

\* Elements come to the end.
LEMMA QueueGrows ==
  ASSUME IInv, IInv', UNCHANGED <<head, received>>, End < End',
         \A i \in 1 .. Stored : accepted'[i] = accepted[i]
  PROVE  Fifo!Put
<1> DEFINE q == Waiting
           r == Waiting'
           e == End
           f == End'
<1>1. /\ head \in Nat /\ e \in Nat /\ head <= e /\ e <= Stored /\ Stored \in Nat
      /\ q \in Seq(Values) /\ Len(q) = e - head /\ \A i \in 1 .. e - head : q[i] = accepted[head + i]
  BY WaitingIs
<1>2. /\ f \in Nat /\ f <= head + Size /\ Size \in Nat
      /\ r \in Seq(Values) /\ Len(r) = f - head /\ \A i \in 1 .. f - head : r[i] = accepted'[head + i]
  <2>1. /\ head' \in Nat /\ End' \in Nat /\ head' <= End' /\ End' <= Len(accepted') /\ Len(accepted') <= head' + Size
        /\ Size \in Nat /\ accepted' \in Seq(Values)
    BY SizeAssumption DEF IInv, TypeInv, RingInv, End, Stored
  <2>2. r = SubSeq(accepted', head + 1, f)
    BY DEF Waiting
  <2>3. head \in Nat /\ f \in Nat /\ head <= f /\ f <= Len(accepted')
    BY <1>1, <2>1
  <2> HIDE DEF r, f
  <2>4. /\ r \in Seq(Values) /\ Len(r) = f - head
        /\ \A i \in 1 .. f - head : r[i] = accepted'[head + i]
    BY <2>1, <2>2, <2>3, PartOf
  <2>5. f <= head + Size
    BY <2>1 DEF f
  <2> QED
    BY <2>1, <2>3, <2>4, <2>5
<1>3. e < f
  OBVIOUS
<1> HIDE DEF q, r, e, f
<1>4. Len(r) \in Len(q) + 1 .. Size
  BY <1>1, <1>2, <1>3
<1>5. SubSeq(r, 1, Len(q)) = q
  <2>1. /\ SubSeq(r, 0 + 1, e - head) \in Seq(Values)
        /\ Len(SubSeq(r, 0 + 1, e - head)) = e - head - 0
        /\ \A i \in 1 .. e - head - 0 : SubSeq(r, 0 + 1, e - head)[i] = r[0 + i]
    BY <1>1, <1>2, <1>3, PartOf
  <2>2. \A i \in 1 .. e - head : r[0 + i] = q[i]
    <3>1. ASSUME NEW i \in 1 .. e - head
          PROVE  r[i] = q[i]
      <4>1. i \in 1 .. f - head /\ head + i \in 1 .. Stored
        BY <1>1, <1>2, <1>3
      <4> QED
        BY <1>1, <1>2, <4>1
    <3> QED
      BY <3>1
  <2> QED
    BY <1>1, <2>1, <2>2, SeqEqual
<1> QED
  BY <1>2, <1>4, <1>5 DEF Fifo!Put, Waiting, End, Stored, q, r

\* A consumer that moves the head takes the oldest elements, as it copied them.
LEMMA ClaimTakes ==
  ASSUME IInv, NEW c \in Consumers, Claim(c), sc \/ head = myHead[c]
  PROVE  Fifo!Take(c)
<1> DEFINE q == Waiting
           n == Len(elems[c])
           e == End
           b == SubSeq(q, 1, n)
           r == SubSeq(q, n + 1, Len(q))
           z == SubSeq(accepted, (head + n) + 1, e)
<1>1. /\ head \in Nat /\ e \in Nat /\ head <= e /\ e <= Stored /\ accepted \in Seq(Values)
      /\ q \in Seq(Values) /\ Len(q) = e - head /\ \A i \in 1 .. e - head : q[i] = accepted[head + i]
  BY WaitingIs
<1>2. /\ head' = head + n /\ n \in Nat \ {0} /\ head + n <= tail
      /\ \A k \in 1 .. n : elems[c][k] = accepted[head + k]
      /\ received' = [received EXCEPT ![c] = Append(@, <<head, elems[c]>>)]
      /\ elems[c] \in Seq(Elements)
  BY Claimed, AtConsumer
<1>3. UNCHANGED <<tail, accepted, sp>> /\ tail <= e /\ tail \in Nat
  BY AtConsumer DEF Claim, End
<1>4. Waiting' = z
  <2>1. End' = e
    BY <1>3 DEF End, Stored
  <2> QED
    BY <1>2, <1>3, <2>1 DEF Waiting
<1>5. n \in 1 .. Len(q)
  BY <1>1, <1>2, <1>3
<1> HIDE DEF q, n, e
<1>6. b = elems[c]
  <2>1. \A i \in 1 .. n : q[i] \in Elements
    BY <1>1, <1>5 DEF Elements
  <2>2. /\ b \in Seq(Elements) /\ Len(b) = IF 1 <= n THEN n - 1 + 1 ELSE 0
        /\ \A i \in 1 .. n - 1 + 1 : b[i] = q[1 + i - 1]
    BY <1>2, <2>1, SubSeqProperties
  <2>3. Len(b) = n
    BY <1>2, <2>2
  <2>4. ASSUME NEW i \in 1 .. n
        PROVE  b[i] = elems[c][i]
    <3>1. i \in 1 .. n - 1 + 1 /\ 1 + i - 1 = i /\ i \in 1 .. e - head
      BY <1>1, <1>2, <1>5
    <3> QED
      BY <1>1, <1>2, <2>2, <3>1
  <2>5. Len(elems[c]) = n
    BY DEF n
  <2> QED
    BY <1>2, <2>2, <2>3, <2>4, <2>5, SeqEqual
<1>7. r = z
  <2>1. /\ r \in Seq(Values) /\ Len(r) = Len(q) - n
        /\ \A i \in 1 .. Len(q) - n : r[i] = q[n + i]
    BY <1>1, <1>2, <1>5, PartOf
  <2>2. /\ head + n \in Nat /\ head + n <= e /\ e <= Len(accepted)
    BY <1>1, <1>2, <1>3 DEF Stored
  <2>3. /\ z \in Seq(Values) /\ Len(z) = e - (head + n)
        /\ \A i \in 1 .. e - (head + n) : z[i] = accepted[(head + n) + i]
    BY <1>1, <2>2, PartOf
  <2>4. Len(q) - n = e - (head + n)
    BY <1>1, <1>2
  <2>5. ASSUME NEW i \in 1 .. Len(r)
        PROVE  r[i] = z[i]
    <3>1. i \in 1 .. Len(q) - n /\ i \in 1 .. e - (head + n)
      BY <2>1, <2>4
    <3>2. n + i \in 1 .. e - head /\ head + (n + i) = (head + n) + i
      <4>1. \A h, m, f \in Nat : \A j \in 1 .. f - (h + m) :
              m + j \in 1 .. f - h /\ h + (m + j) = (h + m) + j
        OBVIOUS
      <4> QED
        BY <1>1, <1>2, <3>1, <4>1
    <3> QED
      BY <1>1, <2>1, <2>3, <3>1, <3>2
  <2>6. Len(r) = Len(z)
    BY <2>1, <2>3, <2>4
  <2> QED
    BY <2>1, <2>3, <2>5, <2>6, SeqEqual
<1>8. /\ received' = [received EXCEPT ![c] = Append(@, <<head, b>>)]
      /\ Waiting' = r /\ head' = head + n
  BY <1>2, <1>4, <1>6, <1>7
<1> QED
  BY <1>5, <1>8 DEF Fifo!Take, q, Waiting, End, Stored

\* What is stored only grows at its end, and in a ring for a single producer it is
\* the store of the tail that shows it.
LEMMA QueueStep ==
  ASSUME IInv, IInv', NEW t \in Threads, Step(t)
  PROVE  [Fifo!Next]_(Fifo!batchVars)
<1>1. Stored \in Nat /\ tail \in Nat /\ head \in Nat /\ tail <= Stored /\ accepted' \in Seq(Values)
      /\ sp \in BOOLEAN
  BY DEF IInv, TypeInv, RingInv, Stored
<1>2. CASE UNCHANGED <<head, tail, sp, accepted, received>>
  <2>1. End' = End /\ Stored' = Stored
    BY <1>2 DEF End, Stored
  <2> QED
    BY <1>1, <1>2, <2>1, QueueUnchanged
<1>3. ASSUME NEW p \in Producers, Fill(p) \/ ClaimSlot(p)
      PROVE  [Fifo!Next]_(Fifo!batchVars)
  <2>1. /\ p \in Threads /\ UNCHANGED <<head, tail, sp, received>> /\ Write(p) /\ ProducerInv(p)
    BY <1>3, AtProducer DEF Fill, ClaimSlot
  <2>2. /\ Stored' = Stored + 1
        /\ \A i \in 1 .. Stored : accepted'[i] = accepted[i]
    <3>1. accepted \in Seq(Values) /\ accepted' = Append(accepted, <<p, sent[p] + 1>>)
      BY <2>1 DEF Write, IInv, TypeInv
    <3>2. <<p, sent[p] + 1>> \in Values
      <4>1. sent \in [Producers -> Nat]
        BY DEF IInv, TypeInv
      <4>2. sent[p] + 1 \in Nat
        BY <1>3, <4>1
      <4> QED
        BY <1>3, <4>2 DEF Values
    <3> QED
      BY <3>1, <3>2 DEF Stored
  <2>3. CASE sp
    <3>1. End' = End
      BY <2>1, <2>3 DEF End
    <3> QED
      BY <1>1, <2>1, <2>2, <3>1, QueueUnchanged
  <2>4. CASE ~sp
    <3>1. End' = Stored' /\ End = Stored /\ End < End'
      BY <1>1, <2>1, <2>2, <2>4 DEF End
    <3> QED
      BY <2>1, <2>2, <3>1, QueueGrows DEF Fifo!Next
  <2> QED
    BY <2>3, <2>4
<1>4. ASSUME NEW p \in Producers, PublishTail(p)
      PROVE  [Fifo!Next]_(Fifo!batchVars)
  <2>1. /\ UNCHANGED <<head, sp, accepted, received>> /\ tail' = myTail[p] /\ pc[p] = "publish"
    BY <1>4 DEF PublishTail, history
  <2>2. sp /\ got[p] > 0 /\ tail + got[p] = Stored /\ myTail[p] = Stored /\ got[p] \in Nat
    BY <2>1, AtProducer DEF ProducerInv
  <2>3. End = tail /\ End' = Stored /\ tail < Stored
    BY <1>1, <2>1, <2>2 DEF End
  <2> QED
    BY <2>1, <2>3, QueueGrows DEF Fifo!Next
<1>5. CASE CondUpdate(t)
  <2>1. UNCHANGED <<head, sp, accepted, received>> /\ pc[t] = "update"
    BY <1>5 DEF CondUpdate, history
  <2>2. ~sp
    BY <1>1, <2>1, AtProducer, AtConsumer DEF ProducerInv, ConsumerInv, Threads
  <2>3. End' = End /\ Stored' = Stored
    BY <2>1, <2>2 DEF End, Stored
  <2> QED
    BY <1>1, <2>1, <2>3, QueueUnchanged
<1>6. ASSUME NEW c \in Consumers, Claim(c)
      PROVE  [Fifo!Next]_(Fifo!batchVars)
  <2>1. CASE sc \/ head = myHead[c]
    BY <1>6, <2>1, ClaimTakes DEF Fifo!Next
  <2>2. CASE ~(sc \/ head = myHead[c])
    <3>1. UNCHANGED <<head, tail, sp, accepted, received>>
      BY <1>6, <2>2 DEF Claim
    <3> QED
      BY <1>2, <3>1
  <2> QED
    BY <2>1, <2>2
<1>7. ASSUME NEW p \in Producers,
             EnqueueBegins(p) \/ MeasureRoom(p) \/ EnqueueLoop(p) \/ SkipSlot(p) \/ FarBehind(p) \/ CondReload(p)
      PROVE  UNCHANGED <<head, tail, sp, accepted, received>>
  BY <1>7 DEF EnqueueBegins, MeasureRoom, EnqueueLoop, SkipSlot, FarBehind, CondReload, ring, history
<1>8. ASSUME NEW c \in Consumers,
             DequeueBegins(c) \/ LoadTail(c) \/ FindTail(c) \/ Scan(c) \/ Copy(c)
      PROVE  UNCHANGED <<head, tail, sp, accepted, received>>
  BY <1>8 DEF DequeueBegins, LoadTail, FindTail, Scan, Copy, ring, history
<1> QED
  BY <1>2, <1>3, <1>4, <1>5, <1>6, <1>7, <1>8 DEF Step, Producer, Consumer

\* Seen from its callers the ring is the queue with batches: an element is in it
\* from the moment it is in its slot, or a single producer stores the tail, and a
\* consumer takes the oldest ones at the moment it moves the head, although it has
\* copied them before.
THEOREM RingIsBatchFifo == Spec => ImplementsFifo
<1>1. Init => Fifo!Init
  <2> SUFFICES ASSUME Init PROVE Fifo!Init
    OBVIOUS
  <2>1. SubSeq(<< >>, 0 + 1, 0) = << >>
    BY SubSeqEmpty
  <2>2. /\ accepted = << >> /\ head = 0 /\ tail = 0 /\ Stored = 0 /\ End = 0
        /\ received = [c \in Consumers |-> << >>]
    BY DEF Init, Stored, End
  <2>3. Waiting = << >>
    BY <2>1, <2>2 DEF Waiting
  <2> QED
    BY <2>2, <2>3 DEF Fifo!Init, Waiting, End, Stored
<1>2. IInv /\ IInv' /\ [Next]_vars => [Fifo!Next]_(Fifo!batchVars)
  <2> SUFFICES ASSUME IInv, IInv', [Next]_vars
               PROVE  [Fifo!Next]_(Fifo!batchVars)
    OBVIOUS
  <2>1. CASE UNCHANGED vars
    <3>1. /\ UNCHANGED <<head, tail, sp, accepted, received>>
      BY <2>1 DEF vars, ring, history
    <3> QED
      BY <3>1 DEF Fifo!batchVars
  <2> QED
    BY <2>1, QueueStep DEF Next
<1>3. IInv /\ [Next]_vars => IInv'
  BY Kept
<1>4. Init => IInv
  BY Begins
<1> QED
  BY <1>1, <1>2, <1>3, <1>4, PTL DEF Spec, ImplementsFifo, Fifo!Spec

-----------------------------------------------------------------------------
(* Honest counts *)

\* What is behind the tail is of calls that have not returned, each of which is
\* past all that it has stored.
UnreturnedBehindTail ==
  /\ \A i \in tail + 1 .. Stored : Pending(accepted[i])
  /\ \A i \in 1 .. Stored :
       /\ accepted[i][2] <= sent[accepted[i][1]]
       /\ Pending(accepted[i]) => i <= myTail[accepted[i][1]]

\* A thread that has a reason to return less is excused from then on, and a
\* producer that is going to store less is.
CallsExcused ==
  /\ \A t \in Threads : pc[t] # "idle" /\ Excuse(t) => excused[t]
  /\ \A p \in Producers :
       /\ pc[p] \in {"loop", "slot", "reload"} => got[p] < want[p]
       /\ pc[p] = "update" => got[p] = want[p] \/ excused[p]
       /\ pc[p] \in {"fill", "publish"} => actual[p] = want[p] \/ excused[p]
       /\ pc[p] = "publish" => got[p] = actual[p]

HonestInv == UnreturnedBehindTail /\ CallsExcused

\* Whatever t does, it only changes its own locals.
LEMMA OnlyOwn ==
  ASSUME IInv, NEW t \in Threads, Step(t)
  PROVE  Others(t)
<1>1. /\ pc \in [Threads -> Places] /\ todo \in [Threads -> Seq(Nat \ {0})]
      /\ myHead \in [Threads -> Nat] /\ myTail \in [Threads -> Nat] /\ want \in [Threads -> Nat]
      /\ got \in [Threads -> Nat] /\ actual \in [Threads -> Nat] /\ elems \in [Threads -> Seq(Elements)]
  BY DEF IInv, TypeInv
<1>2. Return(t) /\ UNCHANGED todo => Others(t)
  BY Returned DEF IInv
<1>3. CASE EnqueueBegins(t) \/ DequeueBegins(t)
  BY <1>1, <1>3 DEF EnqueueBegins, DequeueBegins, Others, Set, Goto
<1>4. CASE MeasureRoom(t)
  <2>1. CASE Room(t) <= 0
    BY <1>2, <1>4, <2>1 DEF MeasureRoom
  <2>2. CASE ~(Room(t) <= 0)
    BY <1>1, <1>4, <2>2 DEF MeasureRoom, Others, Set, Goto
  <2> QED
    BY <2>1, <2>2
<1>5. CASE Fill(t) \/ ClaimSlot(t)
  BY <1>1, <1>5 DEF Fill, ClaimSlot, Write, Others, Set, Goto
<1>6. CASE PublishTail(t)
  BY <1>2, <1>6 DEF PublishTail
<1>7. CASE EnqueueLoop(t) \/ SkipSlot(t) \/ FarBehind(t) \/ CondReload(t)
  BY <1>1, <1>7 DEF EnqueueLoop, SkipSlot, FarBehind, CondReload, locals, Others, Set, Goto
<1>8. ASSUME NEW h, NEW e, Found(t, h, e), UNCHANGED todo
      PROVE  Others(t)
  BY <1>1, <1>2, <1>8 DEF Found, Others, Set, Goto
<1>9. CASE CondUpdate(t)
  BY <1>2, <1>8, <1>9 DEF CondUpdate
<1>10. CASE FindTail(t)
  BY <1>8, <1>10 DEF FindTail
<1>11. CASE LoadTail(t) \/ Scan(t) \/ Copy(t)
  BY <1>1, <1>11 DEF LoadTail, Scan, Copy, Others, Set, Goto
<1>12. CASE Claim(t)
  <2>1. CASE sc \/ head = myHead[t]
    BY <1>2, <1>12, <2>1 DEF Claim
  <2>2. CASE ~(sc \/ head = myHead[t])
    BY <1>1, <1>12, <2>2 DEF Claim, Others, Set, Goto
  <2> QED
    BY <2>1, <2>2
<1> QED
  BY <1>3, <1>4, <1>5, <1>6, <1>7, <1>9, <1>10, <1>11, <1>12 DEF Step, Producer, Consumer

LEMMA StoredValues ==
  ASSUME TypeInv, NEW i \in 1 .. Stored
  PROVE  accepted[i][1] \in Producers /\ accepted[i][2] \in Nat
BY DEF TypeInv, Stored, Values

\* Steps that store nothing and return from no call of a producer.
LEMMA PendingKept ==
  ASSUME IInv, IInv', UnreturnedBehindTail, UNCHANGED <<accepted, sent>>, tail <= tail',
         \A p \in Producers : got'[p] = got[p],
         \A p \in Producers : got[p] # 0 => myTail[p] <= myTail'[p]
  PROVE  UnreturnedBehindTail'
<1>1. Stored' = Stored /\ Stored \in Nat /\ tail \in Nat /\ tail' \in Nat
  BY DEF Stored, IInv, TypeInv
<1>2. ASSUME NEW i \in 1 .. Stored
      PROVE  /\ accepted[i][1] \in Producers /\ accepted[i][2] \in Nat
             /\ Pending(accepted[i])' <=> Pending(accepted[i])
             /\ Pending(accepted[i]) => accepted[i][2] > sent[accepted[i][1]] - got[accepted[i][1]]
  BY StoredValues DEF Pending, IInv
<1>3. ASSUME NEW i \in tail' + 1 .. Stored'
      PROVE  i \in tail + 1 .. Stored /\ i \in 1 .. Stored
  <2>1. \A a, b, l \in Nat : a <= b => b + 1 .. l \subseteq a + 1 .. l /\ b + 1 .. l \subseteq 1 .. l
    OBVIOUS
  <2> QED
    BY <1>1, <1>3, <2>1
<1>4. \A i \in tail' + 1 .. Stored' : Pending(accepted[i])'
  BY <1>2, <1>3 DEF UnreturnedBehindTail
<1>5. ASSUME NEW i \in 1 .. Stored
      PROVE  /\ accepted'[i][2] <= sent'[accepted'[i][1]]
             /\ Pending(accepted[i])' => i <= myTail'[accepted'[i][1]]
  <2> DEFINE p == accepted[i][1]
             k == accepted[i][2]
  <2>1. p \in Producers /\ k \in Nat /\ p \in Threads
    BY <1>2 DEF Threads
  <2>2. sent[p] \in Nat /\ got[p] \in Nat /\ myTail[p] \in Nat /\ myTail'[p] \in Nat
    BY <2>1 DEF IInv, TypeInv
  <2>3. k <= sent[p] /\ (Pending(accepted[i]) => i <= myTail[p] /\ k > sent[p] - got[p])
    BY <1>2 DEF UnreturnedBehindTail
  <2>4. Pending(accepted[i]) => got[p] # 0
    BY <2>1, <2>2, <2>3
  <2>5. Pending(accepted[i]) => i <= myTail'[p]
    BY <2>1, <2>2, <2>3, <2>4
  <2> QED
    BY <1>2, <2>3, <2>5
<1> QED
  BY <1>1, <1>4, <1>5 DEF UnreturnedBehindTail, Pending

\* A producer returns after the tail has passed all that it has stored.
LEMMA PendingReturns ==
  ASSUME IInv, IInv', UnreturnedBehindTail, UNCHANGED <<accepted, sent>>, NEW p \in Producers, Others(p),
         got'[p] = 0, tail <= tail', myTail[p] <= tail'
  PROVE  UnreturnedBehindTail'
<1>1. Stored' = Stored /\ Stored \in Nat /\ tail \in Nat /\ tail' \in Nat /\ p \in Threads
      /\ myTail[p] \in Nat
  BY DEF Stored, IInv, TypeInv, Threads
<1>2. ASSUME NEW i \in 1 .. Stored
      PROVE  /\ accepted'[i][2] <= sent'[accepted'[i][1]]
             /\ Pending(accepted[i])' => i <= myTail'[accepted'[i][1]]
             /\ i > tail' => Pending(accepted[i])'
  <2> DEFINE q == accepted[i][1]
             k == accepted[i][2]
  <2>1. /\ q \in Producers /\ q \in Threads /\ k \in Nat
        /\ q # p => myTail'[q] = myTail[q] /\ got'[q] = got[q]
    BY StoredValues DEF IInv, Threads, Others
  <2>2. sent[q] \in Nat /\ got[q] \in Nat /\ myTail[q] \in Nat
    BY <2>1 DEF IInv, TypeInv
  <2>3. k <= sent[q] /\ (k > sent[q] - got[q] => i <= myTail[q])
    BY DEF UnreturnedBehindTail, Pending
  <2>4. i > tail' => k > sent[q] - got[q]
    <3>1. i > tail' => i \in tail + 1 .. Stored
      BY <1>1
    <3> QED
      BY <3>1 DEF UnreturnedBehindTail, Pending
  <2>5. Pending(accepted[i])' <=> k > sent[q] - got'[q]
    BY DEF Pending
  <2>6. CASE q = p
    <3>1. ~(k > sent[q] - got'[q])
      BY <2>1, <2>2, <2>3, <2>6
    <3>2. ~(i > tail')
      BY <1>1, <2>3, <2>4, <2>6
    <3> QED
      BY <2>3, <2>5, <3>1, <3>2
  <2>7. CASE q # p
    BY <2>1, <2>3, <2>4, <2>5, <2>7
  <2> QED
    BY <2>6, <2>7
<1>3. ASSUME NEW i \in tail' + 1 .. Stored'
      PROVE  i \in 1 .. Stored /\ i > tail'
  <2>1. \A b, l \in Nat : \A j \in b + 1 .. l : j \in 1 .. l /\ j > b
    OBVIOUS
  <2> QED
    BY <1>1, <1>3, <2>1
<1> QED
  BY <1>1, <1>2, <1>3 DEF UnreturnedBehindTail, Pending

\* What is written is of a call that has not returned.
LEMMA PendingWritten ==
  ASSUME IInv, IInv', UnreturnedBehindTail, NEW p \in Producers, Write(p), Others(p),
         UNCHANGED <<head, tail>>, myTail[p] = Stored
  PROVE  UnreturnedBehindTail'
<1>1. /\ Stored \in Nat /\ tail \in Nat /\ p \in Threads /\ sent[p] \in Nat /\ got[p] \in Nat
      /\ accepted \in Seq(Values) /\ sent \in [Producers -> Nat] /\ Len(accepted) = Stored
      /\ got \in [Threads -> Nat] /\ myTail \in [Threads -> Nat]
  BY DEF Stored, IInv, TypeInv, Threads
<1>2. /\ accepted' = Append(accepted, <<p, sent[p] + 1>>) /\ sent' = [sent EXCEPT ![p] = sent[p] + 1]
      /\ got'[p] = got[p] + 1 /\ myTail'[p] = Stored + 1
  BY <1>1 DEF Write, Set
<1>3. /\ Stored' = Stored + 1 /\ accepted'[Stored + 1] = <<p, sent[p] + 1>>
      /\ \A i \in 1 .. Stored : accepted'[i] = accepted[i]
  <2>1. <<p, sent[p] + 1>> \in Values
    BY <1>1 DEF Values
  <2> QED
    BY <1>1, <1>2, <2>1 DEF Stored
<1>4. /\ sent'[p] = sent[p] + 1
      /\ \A q \in Producers : q # p => sent'[q] = sent[q] /\ got'[q] = got[q] /\ myTail'[q] = myTail[q]
  BY <1>1, <1>2 DEF Others, Threads
<1>5. ASSUME NEW i \in 1 .. Stored + 1
      PROVE  /\ accepted'[i][2] <= sent'[accepted'[i][1]]
             /\ Pending(accepted[i])' => i <= myTail'[accepted'[i][1]]
             /\ i > tail => Pending(accepted[i])'
  <2>1. CASE i = Stored + 1
    <3>1. sent[p] + 1 > sent'[p] - got'[p]
      BY <1>1, <1>2, <1>4
    <3> QED
      BY <1>1, <1>2, <1>3, <1>4, <2>1, <3>1 DEF Pending
  <2>2. CASE i # Stored + 1
    <3> DEFINE q == accepted[i][1]
               k == accepted[i][2]
    <3>1. i \in 1 .. Stored /\ accepted'[i] = accepted[i]
      BY <1>1, <1>3, <2>2
    <3>2. /\ q \in Producers /\ q \in Threads /\ k \in Nat
      BY <3>1, StoredValues DEF IInv, Threads
    <3>3. sent[q] \in Nat /\ got[q] \in Nat /\ myTail[q] \in Nat
      BY <1>1, <3>2
    <3>4. k <= sent[q] /\ (k > sent[q] - got[q] => i <= myTail[q])
      BY <3>1 DEF UnreturnedBehindTail, Pending
    <3>5. i > tail => k > sent[q] - got[q]
      <4>1. i > tail => i \in tail + 1 .. Stored
        BY <1>1, <3>1
      <4> QED
        BY <4>1 DEF UnreturnedBehindTail, Pending
    <3>6. Pending(accepted[i])' <=> k > sent'[q] - got'[q]
      BY <3>1 DEF Pending
    <3> HIDE DEF q, k
    <3>7. sent'[q] - got'[q] = sent[q] - got[q]
      <4>1. CASE q = p
        BY <1>1, <1>2, <1>4, <4>1
      <4>2. CASE q # p
        BY <1>4, <3>2, <4>2
      <4> QED
        BY <4>1, <4>2
    <3>8. i <= myTail[q] => i <= myTail'[q]
      <4>1. CASE q = p
        BY <1>1, <1>2, <3>1, <4>1
      <4>2. CASE q # p
        BY <1>4, <3>2, <4>2
      <4> QED
        BY <4>1, <4>2
    <3>9. k <= sent'[q]
      <4>1. CASE q = p
        BY <1>1, <1>4, <3>2, <3>4, <4>1
      <4>2. CASE q # p
        BY <1>4, <3>2, <3>4, <4>2
      <4> QED
        BY <4>1, <4>2
    <3> QED
      BY <3>1, <3>4, <3>5, <3>6, <3>7, <3>8, <3>9 DEF q, k
  <2> QED
    BY <2>1, <2>2
<1>6. ASSUME NEW i \in tail' + 1 .. Stored'
      PROVE  i \in 1 .. Stored + 1 /\ i > tail
  BY <1>1, <1>3, <1>6
<1> QED
  BY <1>3, <1>5, <1>6 DEF UnreturnedBehindTail, Pending

LEMMA UnreturnedKept ==
  ASSUME IInv, IInv', UnreturnedBehindTail, NEW t \in Threads, Step(t)
  PROVE  UnreturnedBehindTail'
<1>1. Others(t)
  BY OnlyOwn
<1>2. /\ \A p \in Producers : p \in Threads /\ p \notin Consumers
      /\ \A c \in Consumers : c \in Threads /\ c \notin Producers
      /\ \A u \in Threads : myTail[u] \in Nat /\ got[u] \in Nat
      /\ myTail \in [Threads -> Nat] /\ got \in [Threads -> Nat]
      /\ tail \in Nat
  BY AtProducer, AtConsumer DEF IInv, TypeInv
<1>3. ASSUME UNCHANGED <<accepted, sent>>, tail <= tail',
             t \in Producers => got'[t] = got[t] /\ (got[t] # 0 => myTail[t] <= myTail'[t])
      PROVE  UnreturnedBehindTail'
  <2>1. ASSUME NEW p \in Producers
        PROVE  got'[p] = got[p] /\ (got[p] # 0 => myTail[p] <= myTail'[p])
    <3>1. CASE p = t
      BY <1>3, <3>1
    <3>2. CASE p # t
      <4>1. got'[p] = got[p] /\ myTail'[p] = myTail[p] /\ myTail[p] \in Nat
        BY <1>1, <1>2, <3>2 DEF Others
      <4> QED
        BY <4>1
    <3> QED
      BY <3>1, <3>2
  <2> QED
    BY <1>3, <2>1, PendingKept
<1>4. ASSUME t \in Producers, Return(t), UNCHANGED <<accepted, sent, todo>>, tail <= tail', myTail[t] <= tail'
      PROVE  UnreturnedBehindTail'
  <2>1. got'[t] = 0
    BY <1>4, Returned DEF IInv
  <2> QED
    BY <1>1, <1>4, <2>1, PendingReturns
<1>5. CASE t \in Producers /\ Producer(t)
  <2>1. ProducerInv(t)
    BY <1>5, AtProducer
  <2>2. CASE EnqueueBegins(t)
    <3>1. got[t] = 0 /\ UNCHANGED <<accepted, sent, tail, got>>
      BY <2>1, <2>2 DEF EnqueueBegins, ProducerInv, history, ring
    <3> QED
      BY <1>2, <1>3, <3>1
  <2>3. CASE MeasureRoom(t)
    <3>1. got[t] = 0 /\ UNCHANGED <<accepted, sent, tail, todo>>
      BY <2>1, <2>3 DEF MeasureRoom, ProducerInv, history, ring
    <3>2. got'[t] = 0
      <4>1. CASE Room(t) <= 0
        BY <2>3, <4>1, Returned DEF MeasureRoom, IInv
      <4>2. CASE ~(Room(t) <= 0)
        BY <2>3, <3>1, <4>2 DEF MeasureRoom
      <4> QED
        BY <4>1, <4>2
    <3> QED
      BY <1>2, <1>3, <3>1, <3>2
  <2>4. CASE Fill(t) \/ ClaimSlot(t)
    <3>1. Write(t) /\ UNCHANGED <<head, tail>>
      BY <2>4 DEF Fill, ClaimSlot
    <3>2. myTail[t] = Stored
      <4>1. CASE Fill(t)
        BY <2>1, <4>1 DEF Fill, ProducerInv
      <4>2. CASE ClaimSlot(t)
        <5>1. Slot(myTail[t]) \in Slots
          BY <1>2, SlotOf
        <5>2. myTail[t] - Size \in Stored - Size .. Stored - 1
          BY <4>2, <5>1 DEF ClaimSlot, IInv, RingInv
        <5>3. Stored \in Nat /\ Size \in Nat /\ myTail[t] <= Stored
          BY <1>5, <2>1, AtProducer DEF ProducerInv
        <5> QED
          BY <1>2, <5>2, <5>3
      <4> QED
        BY <2>4, <4>1, <4>2
    <3> QED
      BY <1>1, <1>5, <3>1, <3>2, PendingWritten
  <2>5. CASE PublishTail(t)
    <3>1. Return(t) /\ UNCHANGED <<accepted, sent, todo>> /\ tail' = myTail[t] /\ myTail[t] = Stored
      BY <2>1, <2>5 DEF PublishTail, ProducerInv, history
    <3>2. tail <= Stored /\ Stored \in Nat
      BY <1>5, AtProducer
    <3>3. tail <= tail' /\ myTail[t] <= tail'
      BY <3>1, <3>2
    <3> QED
      BY <1>4, <1>5, <3>1, <3>3
  <2>6. CASE EnqueueLoop(t) \/ SkipSlot(t) \/ FarBehind(t) \/ CondReload(t)
    <3>1. UNCHANGED <<accepted, sent, tail, got>>
      BY <2>6 DEF EnqueueLoop, SkipSlot, FarBehind, CondReload, history, ring, locals
    <3>2. myTail[t] <= myTail'[t]
      BY <1>2, <2>6 DEF EnqueueLoop, SkipSlot, FarBehind, CondReload, locals, Set
    <3> QED
      BY <1>2, <1>3, <3>1, <3>2
  <2>7. CASE CondUpdate(t)
    <3>1. Return(t) /\ UNCHANGED <<accepted, sent, todo>> /\ tail' = Larger(myTail[t], tail)
      BY <1>5, <2>7 DEF CondUpdate, history
    <3>2. tail <= tail' /\ myTail[t] <= tail'
      BY <1>2, <3>1 DEF Larger
    <3> QED
      BY <1>4, <1>5, <3>1, <3>2
  <2> QED
    BY <1>5, <2>2, <2>3, <2>4, <2>5, <2>6, <2>7 DEF Producer
<1>6. CASE t \in Consumers /\ Consumer(t)
  <2>1. t \notin Producers
    BY <1>2, <1>6
  <2>2. UNCHANGED <<accepted, sent>>
    BY <1>6 DEF Consumer, DequeueBegins, LoadTail, FindTail, Scan, CondUpdate, Copy, Claim, history
  <2>3. UNCHANGED tail \/ tail' = Larger(myTail[t], tail)
    BY <1>6 DEF Consumer, DequeueBegins, LoadTail, FindTail, Scan, CondUpdate, Copy, Claim, ring
  <2>4. tail <= tail'
    BY <1>2, <2>3 DEF Larger
  <2> QED
    BY <1>3, <2>1, <2>2, <2>4
<1> QED
  BY <1>5, <1>6 DEF Step

\* A thread remembers during a call that there was a reason.
LEMMA Remembered ==
  ASSUME NEW t \in Threads, Step(t), NEW u \in Threads, pc'[u] # "idle"
  PROVE  /\ excused[u] => excused'[u]
         /\ Excuse(u)' => excused'[u]
BY DEF Step

LEMMA NoRoom ==
  ASSUME IInv, NEW p \in Producers, Stored - head + want[p] - got[p] > Size
  PROVE  Excuse(p)
BY DEF Excuse, Stored

LEMMA ExcusedKept ==
  ASSUME IInv, IInv', CallsExcused, NEW t \in Threads, Step(t)
  PROVE  CallsExcused'
<1>1. Others(t)
  BY OnlyOwn
<1>2. \A u \in Threads : pc'[u] # "idle" => (excused[u] => excused'[u]) /\ (Excuse(u)' => excused'[u])
  BY Remembered
<1>3. ASSUME NEW p \in Producers
      PROVE  /\ pc'[p] \in {"loop", "slot", "reload"} => got'[p] < want'[p]
             /\ pc'[p] = "update" => got'[p] = want'[p] \/ excused'[p]
             /\ pc'[p] \in {"fill", "publish"} => actual'[p] = want'[p] \/ excused'[p]
             /\ pc'[p] = "publish" => got'[p] = actual'[p]
  <2>0. /\ p \in Threads /\ p \notin Consumers /\ ProducerInv(p)
        /\ head \in Nat /\ tail \in Nat /\ Stored \in Nat /\ Size \in Nat \ {0} /\ sp \in BOOLEAN
        /\ myTail[p] \in Nat /\ want[p] \in Nat /\ got[p] \in Nat /\ actual[p] \in Nat
    BY AtProducer
  <2>1. /\ pc[p] \in {"loop", "slot", "reload"} => got[p] < want[p]
        /\ pc[p] = "update" => got[p] = want[p] \/ excused[p]
        /\ pc[p] \in {"fill", "publish"} => actual[p] = want[p] \/ excused[p]
        /\ pc[p] = "publish" => got[p] = actual[p]
        /\ pc[p] # "idle" /\ Excuse(p) => excused[p]
    BY <2>0 DEF CallsExcused
  <2>2. /\ pc \in [Threads -> Places] /\ want \in [Threads -> Nat] /\ got \in [Threads -> Nat]
        /\ actual \in [Threads -> Nat]
    BY DEF IInv, TypeInv
  <2>3. CASE p # t
    <3>1. pc'[p] = pc[p] /\ got'[p] = got[p] /\ want'[p] = want[p] /\ actual'[p] = actual[p]
      BY <1>1, <2>0, <2>3 DEF Others
    <3> QED
      BY <1>2, <2>0, <2>1, <3>1
  <2>4. CASE p = t /\ EnqueueBegins(p)
    <3>1. /\ pc'[p] \in {"room", "loop"} /\ got'[p] = got[p] /\ want'[p] = Head(todo[p]) /\ got[p] = 0
          /\ Head(todo[p]) \in Nat \ {0}
      BY <2>0, <2>2, <2>4, CallBegins DEF EnqueueBegins, Set, Goto, ProducerInv
    <3> QED
      BY <3>1
  <2>5. CASE p = t /\ MeasureRoom(p)
    <3>1. CASE Room(p) <= 0
      BY <2>0, <2>5, <3>1, Returned DEF MeasureRoom, IInv
    <3>2. CASE ~(Room(p) <= 0)
      <4>1. /\ pc'[p] = "fill" /\ actual'[p] = Smaller(Room(p), want[p]) /\ want'[p] = want[p]
            /\ pc[p] = "room"
        BY <2>0, <2>2, <2>5, <3>2 DEF MeasureRoom, Set, Goto
      <4>2. Room(p) = head + Size - Stored /\ got[p] = 0
        BY <2>0, <4>1 DEF Room, ProducerInv
      <4>3. Room(p) < want[p] => Excuse(p)
        BY <2>0, <4>2, NoRoom
      <4>4. actual'[p] = want[p] \/ Room(p) < want[p]
        BY <2>0, <4>1, <4>2 DEF Smaller
      <4>5. actual'[p] = want'[p] \/ excused'[p]
        BY <1>2, <2>0, <2>1, <4>1, <4>3, <4>4
      <4> QED
        BY <4>1, <4>5
    <3> QED
      BY <3>1, <3>2
  <2>6. CASE p = t /\ Fill(p)
    <3>1. /\ pc[p] = "fill" /\ actual'[p] = actual[p] /\ want'[p] = want[p]
          /\ pc'[p] = IF got[p] + 1 = actual[p] THEN "publish" ELSE "fill"
          /\ got'[p] = got[p] + 1
      BY <2>0, <2>2, <2>6 DEF Fill, Write, Set, Goto
    <3> QED
      BY <1>2, <2>0, <2>1, <3>1
  <2>7. CASE p = t /\ (PublishTail(p) \/ CondUpdate(p))
    <3>1. Return(p) /\ UNCHANGED todo
      BY <2>7 DEF PublishTail, CondUpdate
    <3>2. pc'[p] = "idle"
      BY <2>0, <3>1, Returned DEF IInv
    <3> QED
      BY <3>2
  <2>8. CASE p = t /\ EnqueueLoop(p)
    <3>1. /\ pc[p] = "loop" /\ want'[p] = want[p] /\ got'[p] = got[p]
          /\ pc'[p] = IF myTail[p] < head + Size THEN "slot" ELSE "update"
      BY <2>0, <2>2, <2>8 DEF EnqueueLoop, locals, Goto
    <3>2. ~(myTail[p] < head + Size) => excused'[p]
      <4>1. myTail[p] <= Stored /\ got[p] < want[p]
        BY <2>0, <2>1, <3>1 DEF ProducerInv
      <4>2. ~(myTail[p] < head + Size) => Stored - head + want[p] - got[p] > Size
        BY <2>0, <4>1
      <4> QED
        BY <1>2, <2>0, <2>1, <3>1, <4>2, NoRoom
    <3> QED
      BY <2>1, <3>1, <3>2
  <2>9. CASE p = t /\ ClaimSlot(p)
    <3>1. /\ pc[p] = "slot" /\ want'[p] = want[p] /\ got'[p] = got[p] + 1
          /\ pc'[p] = IF got[p] + 1 < want[p] THEN "loop" ELSE "update"
      BY <2>0, <2>2, <2>9 DEF ClaimSlot, Write, Set, Goto
    <3>2. got[p] < want[p]
      BY <2>1, <3>1
    <3> QED
      BY <2>0, <3>1, <3>2
  <2>10. CASE p = t /\ (SkipSlot(p) \/ FarBehind(p) \/ CondReload(p))
    <3>1. /\ pc[p] \in {"slot", "reload"} /\ want'[p] = want[p] /\ got'[p] = got[p]
          /\ pc'[p] \in {"loop", "reload"}
      BY <2>0, <2>2, <2>10 DEF SkipSlot, FarBehind, CondReload, locals, Goto
    <3> QED
      BY <2>1, <3>1
  <2> QED
    BY <2>0, <2>3, <2>4, <2>5, <2>6, <2>7, <2>8, <2>9, <2>10 DEF Step, Producer
<1> QED
  BY <1>2, <1>3 DEF CallsExcused

\* What is waiting is of calls that have not returned, if nothing is before the tail.
LEMMA FoundNothing ==
  ASSUME IInv, HonestInv, NEW c \in Consumers, pc[c] # "idle", tail <= myHead[c]
  PROVE  excused[c]
<1>1. /\ c \in Threads /\ c \notin Producers /\ ConsumerInv(c) /\ head \in Nat /\ tail \in Nat
      /\ head <= tail /\ myHead[c] \in Nat
  BY AtConsumer
<1>2. tail = head
  BY <1>1 DEF ConsumerInv
<1>3. \A i \in head + 1 .. Len(accepted) : Pending(accepted[i])
  BY <1>2 DEF HonestInv, UnreturnedBehindTail, Stored
<1>4. Excuse(c)
  BY <1>1, <1>3 DEF Excuse
<1> QED
  BY <1>1, <1>4 DEF HonestInv, CallsExcused

LEMMA Honest ==
  ASSUME IInv, HonestInv, NEW t \in Threads, Step(t), pc[t] # "idle", pc'[t] = "idle"
  PROVE  \/ excused[t]
         \/ t \in Producers /\ got[t] = want[t]
         \/ t \in Consumers /\ received'[t] # received[t]
<1>1. pc \in [Threads -> Places]
  BY DEF IInv, TypeInv
<1>2. CASE t \in Producers /\ Producer(t)
  <2>0. /\ ProducerInv(t) /\ head \in Nat /\ tail \in Nat /\ Stored \in Nat /\ Size \in Nat \ {0}
        /\ sp \in BOOLEAN
        /\ myTail[t] \in Nat /\ want[t] \in Nat /\ got[t] \in Nat /\ actual[t] \in Nat
    BY <1>2, AtProducer
  <2>1. /\ pc[t] = "update" => got[t] = want[t] \/ excused[t]
        /\ pc[t] \in {"fill", "publish"} => actual[t] = want[t] \/ excused[t]
        /\ pc[t] = "publish" => got[t] = actual[t]
        /\ Excuse(t) => excused[t]
    BY <1>2 DEF HonestInv, CallsExcused
  <2>2. CASE MeasureRoom(t)
    <3>1. Room(t) <= 0
      BY <1>1, <2>2 DEF MeasureRoom, Goto
    <3>2. Stored - head + want[t] - got[t] > Size
      <4>1. myTail[t] = Stored /\ got[t] = 0 /\ want[t] > 0
        BY <2>0, <2>2 DEF MeasureRoom, ProducerInv
      <4> QED
        BY <2>0, <3>1, <4>1 DEF Room
    <3> QED
      BY <1>2, <2>1, <3>2, NoRoom
  <2>3. CASE PublishTail(t) \/ CondUpdate(t)
    BY <1>2, <2>1, <2>3 DEF PublishTail, CondUpdate
  <2>4. ~EnqueueBegins(t) /\ ~Fill(t) /\ ~EnqueueLoop(t) /\ ~ClaimSlot(t)
        /\ ~SkipSlot(t) /\ ~FarBehind(t) /\ ~CondReload(t)
    BY <1>1 DEF EnqueueBegins, Fill, EnqueueLoop, ClaimSlot, SkipSlot, FarBehind, CondReload, Goto
  <2> QED
    BY <1>2, <2>2, <2>3, <2>4 DEF Producer
<1>3. CASE t \in Consumers /\ Consumer(t)
  <2>0. /\ ConsumerInv(t) /\ tail \in Nat /\ myTail[t] \in Nat /\ myHead[t] \in Nat /\ t \notin Producers
    BY <1>3, AtConsumer
  <2>1. ASSUME NEW e \in Nat, Found(t, myHead[t], e), tail <= e
        PROVE  excused[t]
    <3>1. e <= myHead[t]
      BY <1>1, <2>1 DEF Found, Goto
    <3>2. tail <= myHead[t]
      BY <2>0, <2>1, <3>1
    <3> QED
      BY <1>3, <3>2, FoundNothing
  <2>2. CASE FindTail(t)
    BY <2>0, <2>1, <2>2 DEF FindTail
  <2>3. CASE CondUpdate(t)
    <3>1. Found(t, myHead[t], Larger(myTail[t], tail))
      BY <2>0, <2>3 DEF CondUpdate
    <3>2. Larger(myTail[t], tail) \in Nat /\ tail <= Larger(myTail[t], tail)
      BY <2>0 DEF Larger
    <3> QED
      BY <2>1, <3>1, <3>2
  <2>4. CASE Claim(t)
    <3>1. sc \/ head = myHead[t]
      <4>1. \A h, e : CopyOrFindTail(h, e) # "idle"
        BY DEF CopyOrFindTail
      <4> QED
        BY <1>1, <2>4, <4>1 DEF Claim, Goto
    <3>2. received' = [received EXCEPT ![t] = Append(@, <<head, elems[t]>>)]
      BY <1>3, <2>4, <3>1, Claimed
    <3>3. /\ received[t] \in Seq(Nat \X Seq(Elements)) /\ <<head, elems[t]>> \in Nat \X Seq(Elements)
          /\ received \in [Consumers -> Seq(Nat \X Seq(Elements))]
      BY <1>3 DEF IInv, TypeInv
    <3>4. Len(Append(received[t], <<head, elems[t]>>)) = Len(received[t]) + 1 /\ Len(received[t]) \in Nat
      BY <3>3
    <3>5. received'[t] = Append(received[t], <<head, elems[t]>>)
      BY <1>3, <3>2, <3>3
    <3>6. Len(received'[t]) # Len(received[t])
      BY <3>4, <3>5
    <3> QED
      BY <1>3, <3>6
  <2>5. ~DequeueBegins(t) /\ ~LoadTail(t) /\ ~Scan(t) /\ ~Copy(t)
    <3>1. \A h, e : CopyOrFindTail(h, e) # "idle"
      BY DEF CopyOrFindTail
    <3> QED
      BY <1>1, <3>1 DEF DequeueBegins, LoadTail, Scan, Copy, Goto
  <2> QED
    BY <1>3, <2>2, <2>3, <2>4, <2>5 DEF Consumer
<1> QED
  BY <1>2, <1>3 DEF Step

LEMMA HonestInvariance == Spec => [](IInv /\ HonestInv)
<1>1. Init => IInv /\ HonestInv
  <2> SUFFICES ASSUME Init PROVE IInv /\ HonestInv
    OBVIOUS
  <2>1. Stored = 0 /\ tail = 0 /\ \A t \in Threads : pc[t] = "idle"
    BY DEF Init, Stored
  <2>2. UnreturnedBehindTail
    BY <2>1 DEF UnreturnedBehindTail
  <2>3. CallsExcused
    BY <2>1 DEF CallsExcused, Threads
  <2> QED
    BY <2>2, <2>3, Begins DEF HonestInv
<1>2. IInv /\ HonestInv /\ [Next]_vars => (IInv /\ HonestInv)'
  <2> SUFFICES ASSUME IInv, HonestInv, [Next]_vars
               PROVE  IInv' /\ HonestInv'
    OBVIOUS
  <2>1. IInv'
    BY Kept
  <2>2. CASE UNCHANGED vars
    <3>1. /\ UNCHANGED <<head, tail, sp, sc, accepted, sent, received>>
          /\ UNCHANGED <<pc, want, got, actual, myTail, myHead, elems, excused>>
      BY <2>2 DEF vars, ring, locals, history
    <3>2. Stored' = Stored
      BY <3>1 DEF Stored
    <3>3. UnreturnedBehindTail'
      BY <3>1, <3>2 DEF HonestInv, UnreturnedBehindTail, Pending
    <3>4. \A t \in Threads : Excuse(t)' <=> Excuse(t)
      BY <3>1 DEF Excuse, Pending, Stored
    <3>5. CallsExcused'
      BY <3>1, <3>4 DEF HonestInv, CallsExcused
    <3> QED
      BY <2>1, <3>3, <3>5 DEF HonestInv
  <2>3. CASE Next
    BY <2>1, <2>3, UnreturnedKept, ExcusedKept DEF Next, HonestInv
  <2> QED
    BY <2>1, <2>2, <2>3
<1> QED
  BY <1>1, <1>2, PTL DEF Spec

\* A call that stores less than it was given had no room for all of it at some
\* moment since it began, and one that returns nothing found in the ring only
\* what calls have stored that have not returned: never for the lag of the tail
\* behind what was stored.
THEOREM CountsAreHonest == Spec => HonestCounts
<1>1. IInv /\ HonestInv /\ [Next]_vars =>
        [\A t \in Threads :
           pc[t] # "idle" /\ pc'[t] = "idle" =>
             \/ excused[t]
             \/ t \in Producers /\ got[t] = want[t]
             \/ t \in Consumers /\ received'[t] # received[t]]_vars
  <2> SUFFICES ASSUME IInv, HonestInv, Next, NEW t \in Threads, pc[t] # "idle", pc'[t] = "idle"
               PROVE  \/ excused[t]
                      \/ t \in Producers /\ got[t] = want[t]
                      \/ t \in Consumers /\ received'[t] # received[t]
    OBVIOUS
  <2>1. PICK u \in Threads : Step(u)
    BY DEF Next
  <2>2. u = t
    BY <2>1, OnlyOwn DEF Others
  <2> QED
    BY <2>1, <2>2, Honest
<1> QED
  BY <1>1, HonestInvariance, PTL DEF Spec, HonestCounts

=============================================================================
