------------------------- MODULE BlockingQueueProofs -------------------------
(***************************************************************************)
(* What BlockingQueue promises, for every ring size, header size, set of   *)
(* message lengths, publishers, consumers and numbers of calls.            *)
(***************************************************************************)
EXTENDS BlockingQueue, SequenceTheorems, TLAPS

(* Remainders: a position beyond the first mapping is the byte of its remainder. *)
LEMMA Division ==
  ASSUME NEW n \in Nat \ {0}, NEW x \in Int
  PROVE  /\ x % n \in 0 .. n - 1
         /\ x \div n \in Int
         /\ x = n * (x \div n) + (x % n)
OBVIOUS

\* The quotients are no further apart than the remainders allow.
LEMMA QuotientsEqual ==
  ASSUME NEW n \in Nat \ {0}, NEW a \in Int, NEW b \in Int,
         NEW r \in 0 .. n - 1, NEW s \in 0 .. n - 1, n * a + r = n * b + s
  PROVE  a = b /\ r = s
<1>1. ~(a < b)
  <2> SUFFICES ASSUME a < b PROVE FALSE
    OBVIOUS
  <2>1. b - a \in Nat \ {0} /\ n * (b - a) = r - s
    OBVIOUS
  <2>2. n * (b - a) >= n
    BY <2>1
  <2> QED
    BY <2>1, <2>2
<1>2. ~(b < a)
  <2> SUFFICES ASSUME b < a PROVE FALSE
    OBVIOUS
  <2>1. a - b \in Nat \ {0} /\ n * (a - b) = s - r
    OBVIOUS
  <2>2. n * (a - b) >= n
    BY <2>1
  <2> QED
    BY <2>1, <2>2
<1> QED
  BY <1>1, <1>2

\* A number is its own remainder, or determined by the multiple it is away from one.
LEMMA RemainderIs ==
  ASSUME NEW n \in Nat \ {0}, NEW x \in Int, NEW q \in Int, NEW r \in 0 .. n - 1, x = n * q + r
  PROVE  x % n = r
<1> DEFINE a == x \div n
           s == x % n
<1>1. a \in Int /\ s \in 0 .. n - 1 /\ n * a + s = n * q + r
  BY Division
<1> HIDE DEF a, s
<1>2. s = r
  BY <1>1, QuotientsEqual
<1> QED
  BY <1>2 DEF s

LEMMA SmallRemainder ==
  ASSUME NEW n \in Nat \ {0}, NEW r \in 0 .. n - 1
  PROVE  r % n = r
<1>1. r = n * 0 + r
  OBVIOUS
<1> QED
  BY <1>1, RemainderIs

\* One round more or less changes nothing.
LEMMA NextRound ==
  ASSUME NEW n \in Nat \ {0}, NEW x \in Int
  PROVE  (x + n) % n = x % n /\ (x - n) % n = x % n
<1> DEFINE q == x \div n
           r == x % n
<1>1. q \in Int /\ r \in 0 .. n - 1 /\ x = n * q + r
  BY Division
<1> HIDE DEF q, r
<1>2. x + n = n * (q + 1) + r /\ x - n = n * (q - 1) + r
  BY <1>1
<1>3. (x + n) % n = r /\ (x - n) % n = r
  BY <1>1, <1>2, RemainderIs
<1> QED
  BY <1>3 DEF r

\* A difference may be computed from the remainder.
LEMMA RemainderOfDifference ==
  ASSUME NEW n \in Nat \ {0}, NEW x \in Int, NEW y \in Int
  PROVE  ((x % n) - y) % n = (x - y) % n
<1> DEFINE q == x \div n
           r == x % n
           p == (x - y) \div n
           s == (x - y) % n
<1>1. q \in Int /\ r \in 0 .. n - 1 /\ x = n * q + r
  BY Division
<1>2. p \in Int /\ s \in 0 .. n - 1 /\ x - y = n * p + s
  <2>1. x - y \in Int
    OBVIOUS
  <2> QED
    BY <2>1, Division
<1> HIDE DEF q, r, p, s
<1>3. r - y = n * (p - q) + s
  BY <1>1, <1>2
<1>4. (r - y) % n = s
  BY <1>1, <1>2, <1>3, RemainderIs
<1> QED
  BY <1>4 DEF r, s


(* The unread messages lie one behind the other between head and tail: place[i] *)
(* is where the i-th message starts, and the bytes of its header and of its body *)
(* are still those that were written.  Positions are those of the two mappings; *)
(* the byte behind a position is Phys of it.                               *)
Unread == head_seq + 1 .. tail_seq

Whole(m, position) ==
  \A k \in 0 .. Header + m.len - 1 : memory[Phys(position + k)] = <<m, k>>

LaidOut(place) ==
  /\ place[head_seq + 1] = head /\ place[tail_seq + 1] = tail
  /\ \A i, j \in head_seq + 1 .. tail_seq + 1 : i <= j => place[i] <= place[j]
  /\ \A i \in Unread : /\ place[i + 1] = place[i] + sent[i].len + Header
                       /\ Whole(sent[i], place[i])

Numbered == \A i \in 1 .. Len(sent) : sent[i].seq = i - 1

\* The inductive invariant.  Neither property can be kept from one step to the
\* next on its own: that a message comes out whole depends on nothing having been
\* written over it since, which depends on where all the unread messages lie.
IInv ==
  /\ IndicesInMapping /\ FifoIntact /\ Numbered
  /\ \E place \in [head_seq + 1 .. tail_seq + 1 -> Int] : LaidOut(place)
-----------------------------------------------------------------------------
(* The state the invariant describes *)

LEMMA AMessage ==
  ASSUME NEW m \in Messages
  PROVE  /\ m.len \in Nat /\ m.len \in Lengths /\ m.len + Header <= Size
         /\ m.seq \in Nat
BY SizesAssumption DEF Messages

LEMMA UnreadAreMessages ==
  ASSUME IInv
  PROVE  /\ Len(sent) = tail_seq /\ Len(got) = head_seq
         /\ head_seq \in Nat /\ tail_seq \in Nat /\ head_seq <= tail_seq
         /\ \A i \in 1 .. tail_seq : sent[i] \in Messages
BY DEF IInv, IndicesInMapping, FifoIntact, BlockingTypeOK

\* What a thread that is about to put a message has in its hands.
LEMMA NewMessage ==
  ASSUME BlockingTypeOK, NEW t \in Publishers, Runs(t)
  PROVE  /\ left[t] \in 1 .. PutsEach
         /\ Length(t) \in Lengths
         /\ Message(Length(t), tail_seq, t, left[t]) \in Messages
<1>1. left[t] \in 1 .. PutsEach
  BY CallsAssumption DEF BlockingTypeOK, Runs, BlockingThreads
<1>2. Length(t) \in Lengths
  BY <1>1 DEF BlockingTypeOK, Length
<1> QED
  BY <1>1, <1>2 DEF Message, Messages, BlockingTypeOK

\* A signal only wakes threads up.
LEMMA SignalWakes ==
  ASSUME NEW cond, NEW rest \in Signal(cond)
  PROVE  rest \subseteq cond
BY DEF Signal

-----------------------------------------------------------------------------
(* Init *)

LEMMA InitHolds == BlockingInit => IInv
<1> SUFFICES ASSUME BlockingInit PROVE IInv
  OBVIOUS
<1> USE SizesAssumption, CallsAssumption
<1>1. memory \in [RingBytes -> {<< >>} \cup (Messages \X Nat)]
  BY DEF BlockingInit
<1>2. left \in [BlockingThreads -> Nat] /\ \A p \in Publishers : left[p] <= PutsEach
  BY DEF BlockingInit, BlockingThreads
<1>3. BlockingTypeOK
  <2>1. sent \in Seq(Messages) /\ got \in Seq(Messages \cup {Garbage})
    BY DEF BlockingInit
  <2>2. long_seq \in [Consumers -> Nat \cup {NoSeq}]
    BY DEF BlockingInit
  <2> QED
    BY <1>1, <1>2, <2>1, <2>2 DEF BlockingInit, BlockingTypeOK, Asleep
<1>4. IndicesInMapping
  BY <1>3 DEF BlockingInit, IndicesInMapping
<1>5. FifoIntact /\ Numbered
  BY DEF BlockingInit, FifoIntact, Numbered
<1>6. \E place \in [head_seq + 1 .. tail_seq + 1 -> Int] : LaidOut(place)
  <2>1. [i \in head_seq + 1 .. tail_seq + 1 |-> 0] \in [head_seq + 1 .. tail_seq + 1 -> Int]
    OBVIOUS
  <2>2. LaidOut([i \in head_seq + 1 .. tail_seq + 1 |-> 0])
    BY DEF BlockingInit, LaidOut, Unread
  <2> QED
    BY <2>1, <2>2
<1> QED
  BY <1>4, <1>5, <1>6 DEF IInv

-----------------------------------------------------------------------------
(* The steps that leave the queue alone: the waits, the wakeups *)

LEMMA QueueUntouched ==
  ASSUME IInv, BlockingTypeOK', UNCHANGED <<queueVars, sent, got>>
  PROVE  IInv'
<1>1. IndicesInMapping'
  BY DEF IInv, IndicesInMapping, queueVars
<1>2. FifoIntact' /\ Numbered'
  BY DEF IInv, FifoIntact, Numbered, queueVars
<1>3. \A place : LaidOut(place) => LaidOut(place)'
  BY DEF LaidOut, Unread, Whole, Phys, queueVars
<1>4. (\E place \in [head_seq + 1 .. tail_seq + 1 -> Int] : LaidOut(place))'
  BY <1>3 DEF IInv, queueVars
<1> QED
  BY <1>1, <1>2, <1>4 DEF IInv

LEMMA PutWaitsKeeps ==
  ASSUME IInv, NEW t \in Publishers, PutWaits(t)
  PROVE  IInv'
<1>1. BlockingTypeOK
  BY DEF IInv, IndicesInMapping
<1>2. BlockingTypeOK'
  BY <1>1 DEF BlockingTypeOK, PutWaits, Runs, Asleep, BlockingThreads, queueVars
<1> QED
  BY <1>2, QueueUntouched DEF PutWaits

LEMMA SpuriousWakeupKeeps ==
  ASSUME IInv, NEW t \in BlockingThreads, SpuriousWakeup(t)
  PROVE  IInv'
<1>1. BlockingTypeOK
  BY DEF IInv, IndicesInMapping
<1>2. BlockingTypeOK'
  BY <1>1 DEF BlockingTypeOK, SpuriousWakeup, Asleep, queueVars
<1> QED
  BY <1>2, QueueUntouched DEF SpuriousWakeup

LEMMA GetWaitsKeeps ==
  ASSUME IInv, NEW t \in Consumers, GetWaitsForMessage(t)
  PROVE  IInv'
<1>1. BlockingTypeOK
  BY DEF IInv, IndicesInMapping
<1>2. BlockingTypeOK'
  BY <1>1 DEF BlockingTypeOK, GetWaitsForMessage, Runs, Asleep, NoSeq, queueVars
<1> QED
  BY <1>2, QueueUntouched DEF GetWaitsForMessage

-----------------------------------------------------------------------------
(* queue_put *)

\* A byte that is still to be read keeps what it holds, the bytes behind tail
\* get the new message.
LEMMA ByteInside ==
  ASSUME NEW h \in Int, NEW t \in Int, NEW p \in Int, NEW n \in Nat, NEW k \in 0 .. Header + n - 1,
         h <= p, p + n + Header <= t
  PROVE  p + k \in h .. t - 1
BY SizesAssumption

LEMMA WhatIsWritten ==
  ASSUME IndicesInMapping, NEW m \in Messages, WriteMessage(m),
         Size - (tail - head) >= Header + m.len
  PROVE  /\ \A x \in head .. tail - 1 : memory'[Phys(x)] = memory[Phys(x)]
         /\ \A k \in 0 .. Header + m.len - 1 : memory'[Phys(tail + k)] = <<m, k>>
<1> USE SizesAssumption
<1>0. head \in Int /\ tail \in Int /\ head <= tail /\ tail <= head + Size /\ m.len \in Nat
  BY AMessage DEF IndicesInMapping, BlockingTypeOK
<1>1. ASSUME NEW x \in Int
      PROVE  /\ Phys(x) \in RingBytes
             /\ memory'[Phys(x)] = LET k == (x - tail) % Size
                                   IN  IF k < Header + m.len THEN <<m, k>> ELSE memory[Phys(x)]
  <2>1. Phys(x) \in RingBytes
    BY Division DEF Phys, RingBytes
  <2>2. ((Phys(x) - tail) % Size) = (x - tail) % Size
    BY <1>0, RemainderOfDifference DEF Phys
  <2> QED
    BY <2>1, <2>2 DEF WriteMessage
<1>2. ASSUME NEW x \in head .. tail - 1
      PROVE  memory'[Phys(x)] = memory[Phys(x)]
  <2>1. x \in Int /\ x - tail \in Int /\ x - tail + Size \in 0 .. Size - 1
    BY <1>0
  <2>2. x - tail = Size * (-1) + (x - tail + Size)
    BY <2>1
  <2>3. (x - tail) % Size = x - tail + Size
    BY <2>1, <2>2, RemainderIs
  <2>4. ~(x - tail + Size < Header + m.len)
    BY <1>0
  <2> QED
    BY <1>1, <2>1, <2>3, <2>4
<1>3. ASSUME NEW k \in 0 .. Header + m.len - 1
      PROVE  memory'[Phys(tail + k)] = <<m, k>>
  <2>1. k \in 0 .. Size - 1 /\ tail + k \in Int /\ (tail + k) - tail = k
    BY <1>0, AMessage
  <2>2. k % Size = k
    BY <2>1, SmallRemainder
  <2>3. k < Header + m.len
    BY <1>0
  <2> QED
    BY <1>1, <2>1, <2>2, <2>3
<1> QED
  BY <1>2, <1>3

LEMMA PutKeeps ==
  ASSUME IInv, NEW t \in Publishers, PutMessage(t)
  PROVE  IInv'
<1> USE SizesAssumption
<1>1. BlockingTypeOK /\ IndicesInMapping /\ FifoIntact /\ Numbered
  BY DEF IInv, IndicesInMapping
<1>2. PICK m \in Messages : /\ m = Message(Length(t), tail_seq, t, left[t])
                           /\ m.len = Length(t) /\ m.seq = tail_seq
  BY <1>1, NewMessage DEF PutMessage, Message
<1>0. left[t] \in 1 .. PutsEach
  BY <1>1, NewMessage DEF PutMessage
<1>3. /\ m.len \in Nat /\ Size - (tail - head) >= Header + m.len
      /\ tail' = tail + m.len + Header /\ head' = head
      /\ head \in Nat /\ tail \in Nat /\ head <= tail
  <2>1. head \in Nat /\ tail \in Nat /\ head <= tail
    BY <1>1 DEF BlockingTypeOK, IndicesInMapping
  <2>2. m.len \in Nat
    BY AMessage
  <2>3. ~(Size - (tail - head) < m.len + Header) /\ tail' = tail + m.len + Header /\ head' = head
    BY <1>2 DEF PutMessage, NoSpaceFor
  <2> QED
    BY <2>1, <2>2, <2>3
<1>4. /\ WriteMessage(m) /\ sent' = Append(sent, m)
      /\ tail_seq' = tail_seq + 1 /\ head_seq' = head_seq /\ got' = got
  BY <1>2 DEF PutMessage
<1>5. /\ Len(sent) = tail_seq /\ Len(got) = head_seq
      /\ head_seq \in Nat /\ tail_seq \in Nat /\ head_seq <= tail_seq
      /\ \A i \in 1 .. tail_seq : sent[i] \in Messages
  BY UnreadAreMessages
<1>6. /\ sent' \in Seq(Messages) /\ Len(sent') = tail_seq'
      /\ \A i \in 1 .. tail_seq : sent'[i] = sent[i]
      /\ sent'[tail_seq + 1] = m
  BY <1>1, <1>2, <1>4, <1>5 DEF BlockingTypeOK
<1>7. memory' \in [RingBytes -> {<< >>} \cup (Messages \X Nat)]
  <2>1. ASSUME NEW a \in RingBytes
        PROVE  (a - tail) % Size \in Nat
    <3>1. a - tail \in Int
      BY <1>3 DEF RingBytes
    <3> QED
      BY <3>1, Division
  <2> QED
    BY <1>1, <1>2, <1>4, <2>1 DEF BlockingTypeOK, WriteMessage
<1>8. BlockingTypeOK'
  <2>1. readable' \subseteq readable
    BY SignalWakes DEF PutMessage
  <2>2. left' \in [BlockingThreads -> Nat] /\ \A p \in Publishers : left'[p] <= PutsEach
    BY <1>1, <1>0, CallsAssumption DEF BlockingTypeOK, PutMessage, Done, BlockingThreads
  <2>3. \A u \in Asleep' : left'[u] > 0
    BY <1>1, <2>1 DEF BlockingTypeOK, PutMessage, Done, Asleep, Runs
  <2>4. tail' \in Nat /\ tail_seq' \in Nat
    BY <1>3, <1>4, <1>5
  <2> QED
    BY <1>1, <1>6, <1>7, <2>1, <2>2, <2>3, <2>4 DEF BlockingTypeOK, PutMessage
<1>9. IndicesInMapping'
  BY <1>1, <1>3, <1>8 DEF IndicesInMapping
<1>10. FifoIntact'
  BY <1>1, <1>4, <1>5, <1>6 DEF FifoIntact
<1>11. Numbered'
  BY <1>1, <1>2, <1>4, <1>5, <1>6 DEF Numbered
<1>12. PICK place \in [head_seq + 1 .. tail_seq + 1 -> Int] : LaidOut(place)
  BY DEF IInv
<1>13. PICK next \in [head_seq + 1 .. tail_seq + 2 -> Int] :
         /\ \A i \in head_seq + 1 .. tail_seq + 1 : next[i] = place[i]
         /\ next[tail_seq + 2] = tail'
  <2> DEFINE f == [i \in head_seq + 1 .. tail_seq + 2 |-> IF i = tail_seq + 2 THEN tail' ELSE place[i]]
  <2>1. f \in [head_seq + 1 .. tail_seq + 2 -> Int]
    BY SMTT(30), <1>3, <1>5, <1>12
  <2>2. /\ \A i \in head_seq + 1 .. tail_seq + 1 : f[i] = place[i]
        /\ f[tail_seq + 2] = tail'
    BY <1>5
  <2> QED
    BY <2>1, <2>2
<1>14. next \in [head_seq' + 1 .. tail_seq' + 1 -> Int]
  BY <1>4, <1>5, <1>13
<1>15. LaidOut(next)'
  <2>1. next[head_seq + 1] = head' /\ next[tail_seq + 2] = tail'
    BY <1>3, <1>5, <1>12, <1>13 DEF LaidOut
  <2>2. place[tail_seq + 1] = tail
    BY <1>12 DEF LaidOut
  <2>3. ASSUME NEW i \in head_seq + 1 .. tail_seq + 2, NEW j \in head_seq + 1 .. tail_seq + 2, i <= j
        PROVE  next[i] <= next[j]
    <3>1. CASE j # tail_seq + 2
      <4>1. i \in head_seq + 1 .. tail_seq + 1 /\ j \in head_seq + 1 .. tail_seq + 1
        BY <1>5, <2>3, <3>1
      <4> QED
        BY <1>12, <1>13, <4>1, <2>3 DEF LaidOut
    <3>2. CASE j = tail_seq + 2 /\ i # tail_seq + 2
      <4>1. i \in head_seq + 1 .. tail_seq + 1
        BY <1>5, <3>2
      <4>2. place[i] <= place[tail_seq + 1] /\ place[i] \in Int
        BY <1>5, <1>12, <4>1 DEF LaidOut
      <4> QED
        BY <1>3, <1>13, <2>2, <3>2, <4>1, <4>2
    <3>3. CASE i = tail_seq + 2
      BY <1>3, <1>5, <1>13, <2>3, <3>3
    <3> QED
      BY <3>1, <3>2, <3>3
  <2>4. ASSUME NEW i \in head_seq + 1 .. tail_seq + 1
        PROVE  next[i + 1] = next[i] + sent'[i].len + Header /\ Whole(sent[i], next[i])'
    <3>1. CASE i = tail_seq + 1
      <4>1. next[i] = tail /\ next[i + 1] = tail' /\ sent'[i] = m
        <5>1. i + 1 = tail_seq + 2 /\ i \in head_seq + 1 .. tail_seq + 1
          BY <1>5, <3>1
        <5> QED
          BY <5>1, <1>5, <1>6, <1>13, <2>2, <3>1
      <4>2. \A k \in 0 .. Header + m.len - 1 : memory'[Phys(tail + k)] = <<m, k>>
        BY <1>1, <1>3, <1>4, WhatIsWritten
      <4> QED
        BY <1>3, <4>1, <4>2 DEF Whole, Phys
    <3>2. CASE i # tail_seq + 1
      <4>1. i \in Unread /\ i + 1 \in head_seq + 1 .. tail_seq + 1 /\ i \in 1 .. tail_seq
        BY <1>5, <3>2 DEF Unread
      <4>2. sent'[i] = sent[i] /\ sent[i] \in Messages /\ sent[i].len \in Nat
        BY <1>5, <1>6, <4>1, AMessage
      <4>3. next[i] = place[i] /\ next[i + 1] = place[i + 1]
        BY <1>13, <4>1
      <4>4. place[i + 1] = place[i] + sent[i].len + Header /\ Whole(sent[i], place[i])
        BY <1>12, <4>1 DEF LaidOut
      <4>7. head <= place[i] /\ place[i + 1] <= tail /\ place[i] \in Int
        BY <1>5, <1>12, <4>1 DEF LaidOut, Unread
      <4>5. ASSUME NEW k \in 0 .. Header + sent[i].len - 1
            PROVE  memory'[Phys(place[i] + k)] = <<sent[i], k>>
        <5>1. place[i] + k \in head .. tail - 1
          <6>1. place[i] + sent[i].len + Header <= tail
            BY <4>4, <4>7
          <6>2. k \in 0 .. Header + sent[i].len - 1
            BY <4>5
          <6>3. head \in Int /\ tail \in Int /\ sent[i].len \in Nat
            BY <1>3, <4>2
          <6>4. head <= place[i] /\ place[i] \in Int
            BY <4>7
          <6> QED
            BY <6>1, <6>2, <6>3, <6>4, ByteInside
        <5>2. memory'[Phys(place[i] + k)] = memory[Phys(place[i] + k)]
          BY <1>1, <1>3, <1>4, <5>1, WhatIsWritten
        <5> QED
          BY <4>4, <5>2 DEF Whole
      <4> QED
        BY <4>2, <4>3, <4>4, <4>5 DEF Whole, Phys
    <3> QED
      BY <3>1, <3>2
  <2>5. head_seq' = head_seq /\ tail_seq' + 1 = tail_seq + 2 /\ Unread' = head_seq + 1 .. tail_seq + 1
    BY <1>4, <1>5 DEF Unread
  <2> QED
    BY <2>1, <2>3, <2>4, <2>5 DEF LaidOut
<1> QED
  BY <1>9, <1>10, <1>11, <1>14, <1>15 DEF IInv

-----------------------------------------------------------------------------
(* queue_get *)

\* A queue that is not empty has its next message at head, whole.
LEMMA FrontIsNext ==
  ASSUME IInv, tail - head # 0
  PROVE  /\ head_seq + 1 \in 1 .. tail_seq
         /\ Front = sent[head_seq + 1]
         /\ Whole(Front, head)
<1>1. /\ head_seq \in Nat /\ tail_seq \in Nat /\ head_seq <= tail_seq
      /\ \A i \in 1 .. tail_seq : sent[i] \in Messages
  BY UnreadAreMessages
<1>2. head \in Nat /\ tail \in Nat
  BY DEF IInv, IndicesInMapping, BlockingTypeOK
<1>3. PICK place \in [head_seq + 1 .. tail_seq + 1 -> Int] : LaidOut(place)
  BY DEF IInv
<1>4. head_seq + 1 \in Unread /\ head_seq + 1 \in 1 .. tail_seq
  <2>1. head_seq # tail_seq
    BY <1>2, <1>3 DEF LaidOut
  <2> QED
    BY <1>1, <2>1 DEF Unread
<1>5. Whole(sent[head_seq + 1], head)
  BY <1>3, <1>4 DEF LaidOut
<1>6. Front = sent[head_seq + 1]
  <2>1. sent[head_seq + 1] \in Messages /\ sent[head_seq + 1].len \in Nat
    BY <1>1, <1>4, AMessage
  <2>2. 0 \in 0 .. Header + sent[head_seq + 1].len - 1
    BY <2>1, SizesAssumption
  <2>3. memory[Phys(head + 0)] = <<sent[head_seq + 1], 0>>
    BY <1>5, <2>2 DEF Whole
  <2> QED
    BY <1>2, <2>3 DEF Front
<1> QED
  BY <1>4, <1>5, <1>6

LEMMA GetTooLongKeeps ==
  ASSUME IInv, NEW t \in Consumers, GetTooLong(t)
  PROVE  IInv'
<1>1. BlockingTypeOK
  BY DEF IInv, IndicesInMapping
<1>2. long_seq' \in [Consumers -> Nat \cup {NoSeq}]
  <2>1. CASE UNCHANGED long_seq
    BY <1>1, <2>1 DEF BlockingTypeOK
  <2>2. CASE tail - head # 0 /\ long_seq' = [long_seq EXCEPT ![t] = Front.seq]
    <3>1. Front.seq \in Nat
      BY <2>2, FrontIsNext, UnreadAreMessages, AMessage
    <3> QED
      BY <1>1, <2>2, <3>1 DEF BlockingTypeOK
  <2> QED
    BY <2>1, <2>2 DEF GetTooLong
<1>3. BlockingTypeOK'
  BY <1>1, <1>2 DEF BlockingTypeOK, GetTooLong, Runs, Asleep, BlockingThreads, queueVars
<1> QED
  BY <1>3, QueueUntouched DEF GetTooLong

\* Positions a mapping further back are the same bytes.
LEMMA SameBytes ==
  ASSUME NEW x \in Int
  PROVE  Phys(x - Size) = Phys(x)
BY SizesAssumption, NextRound DEF Phys

LEMMA WholeOneMappingBack ==
  ASSUME NEW x \in Int, NEW m \in Messages, Whole(m, x)
  PROVE  Whole(m, x - Size)
<1>1. ASSUME NEW k \in 0 .. Header + m.len - 1
      PROVE  memory[Phys(x - Size + k)] = <<m, k>>
  <2>1. k \in Int
    BY <1>1, AMessage, SizesAssumption
  <2>2. x + k \in Int /\ x - Size + k = (x + k) - Size
    BY <2>1, SizesAssumption
  <2>3. Phys(x - Size + k) = Phys(x + k)
    BY <2>2, SameBytes
  <2> QED
    BY <1>1, <2>3 DEF Whole
<1> QED
  BY <1>1 DEF Whole

\* What is still unread after a message has been taken is laid out as before,
\* in the same mapping or a mapping further back.
LEMMA TheRestIsLaidOut ==
  ASSUME IInv, NEW place \in [head_seq + 1 .. tail_seq + 1 -> Int], LaidOut(place),
         head_seq < tail_seq, NEW back \in {0, Size},
         head' = place[head_seq + 2] - back, tail' = tail - back,
         head_seq' = head_seq + 1, UNCHANGED <<tail_seq, memory, sent>>
  PROVE  (\E next \in [head_seq + 1 .. tail_seq + 1 -> Int] : LaidOut(next))'
<1> USE SizesAssumption
<1>1. /\ head_seq \in Nat /\ tail_seq \in Nat
      /\ \A i \in 1 .. tail_seq : sent[i] \in Messages
  BY UnreadAreMessages
<1>2. PICK next \in [head_seq + 2 .. tail_seq + 1 -> Int] :
        \A i \in head_seq + 2 .. tail_seq + 1 : next[i] = place[i] - back
  <2> DEFINE f == [i \in head_seq + 2 .. tail_seq + 1 |-> place[i] - back]
  <2>1. f \in [head_seq + 2 .. tail_seq + 1 -> Int]
    BY <1>1
  <2> QED
    BY <2>1
<1>3. next[head_seq + 2] = head' /\ next[tail_seq + 1] = tail'
  BY <1>1, <1>2 DEF LaidOut
<1>4. ASSUME NEW i \in head_seq + 2 .. tail_seq + 1, NEW j \in head_seq + 2 .. tail_seq + 1, i <= j
      PROVE  next[i] <= next[j]
  <2>1. i \in head_seq + 1 .. tail_seq + 1 /\ j \in head_seq + 1 .. tail_seq + 1
    BY <1>1, <1>4
  <2>2. place[i] <= place[j] /\ place[i] \in Int /\ place[j] \in Int
    BY <1>4, <2>1 DEF LaidOut
  <2> QED
    BY <1>2, <1>4, <2>2
<1>5. ASSUME NEW i \in head_seq + 2 .. tail_seq
      PROVE  next[i + 1] = next[i] + sent[i].len + Header /\ Whole(sent[i], next[i])
  <2>1. /\ i \in Unread /\ i \in 1 .. tail_seq /\ i \in head_seq + 1 .. tail_seq + 1
        /\ i + 1 \in head_seq + 2 .. tail_seq + 1 /\ i \in head_seq + 2 .. tail_seq + 1
    BY <1>1, <1>5 DEF Unread
  <2>2. /\ place[i + 1] = place[i] + sent[i].len + Header
        /\ Whole(sent[i], place[i])
    BY <2>1 DEF LaidOut
  <2>3. place[i] \in Int /\ sent[i] \in Messages /\ sent[i].len \in Nat
    BY <1>1, <2>1, AMessage
  <2>4. next[i] = place[i] - back /\ next[i + 1] = place[i + 1] - back
    BY <1>2, <2>1
  <2>5. Whole(sent[i], next[i])
    <3>1. CASE back = 0
      BY <2>2, <2>3, <2>4, <3>1
    <3>2. CASE back = Size
      BY <2>2, <2>3, <2>4, <3>2, WholeOneMappingBack
    <3> QED
      BY <3>1, <3>2
  <2> QED
    BY SMTT(30), <2>2, <2>3, <2>4, <2>5
<1>6. /\ head_seq' + 1 = head_seq + 2 /\ tail_seq' = tail_seq
      /\ Unread' = head_seq + 2 .. tail_seq
  BY <1>1 DEF Unread
<1>7. LaidOut(next)'
  BY <1>3, <1>4, <1>5, <1>6 DEF LaidOut, Whole, Phys
<1> QED
  BY <1>2, <1>6, <1>7

LEMMA GetKeeps ==
  ASSUME IInv, NEW t \in Consumers, GetMessage(t)
  PROVE  IInv'
<1> USE SizesAssumption
<1>1. BlockingTypeOK /\ IndicesInMapping /\ FifoIntact /\ Numbered
  BY DEF IInv, IndicesInMapping
<1>2. PICK m \in Messages : m = Front /\ m = sent[head_seq + 1]
  BY FrontIsNext, UnreadAreMessages DEF GetMessage
<1>3. /\ head_seq + 1 \in 1 .. tail_seq /\ Whole(m, head)
  BY <1>2, FrontIsNext DEF GetMessage
<1>4. m.len \in Nat /\ m.len + Header <= Size
  BY AMessage
<1>5. BodyAt(head, m) = m
  <2>1. Header .. Header + m.len - 1 \subseteq 0 .. Header + m.len - 1
    BY <1>4
  <2> QED
    BY <1>3, <2>1 DEF BodyAt, Whole
<1>6. /\ got' = Append(got, m) /\ Advance(head + m.len + Header)
      /\ head_seq' = head_seq + 1 /\ UNCHANGED <<tail_seq, memory, sent>>
  BY <1>2, <1>5 DEF GetMessage
<1>7. /\ Len(sent) = tail_seq /\ Len(got) = head_seq
      /\ head_seq \in Nat /\ tail_seq \in Nat /\ head_seq < tail_seq
  BY <1>3, UnreadAreMessages
<1>8. PICK place \in [head_seq + 1 .. tail_seq + 1 -> Int] : LaidOut(place)
  BY DEF IInv
<1>9. /\ place[head_seq + 2] = head + m.len + Header
      /\ place[head_seq + 2] <= tail
  <2>1. head_seq + 1 \in Unread /\ (head_seq + 1) + 1 = head_seq + 2
    BY <1>7 DEF Unread
  <2>2. head_seq + 2 \in head_seq + 1 .. tail_seq + 1 /\ tail_seq + 1 \in head_seq + 1 .. tail_seq + 1
    BY <1>7
  <2>3. place[head_seq + 2] <= place[tail_seq + 1]
    BY <1>7, <1>8, <2>2 DEF LaidOut
  <2> QED
    BY <1>2, <1>8, <2>1, <2>3 DEF LaidOut
<1>10. PICK back \in {0, Size} : /\ head' = place[head_seq + 2] - back /\ tail' = tail - back
                                 /\ head' \in 0 .. Size - 1
  <2>1. head \in Nat /\ tail \in Nat /\ head < Size
    BY <1>1 DEF BlockingTypeOK, IndicesInMapping
  <2>2. CASE head + m.len + Header >= Size
    BY SMTT(30), <1>4, <1>6, <1>9, <2>1, <2>2 DEF Advance
  <2>3. CASE ~(head + m.len + Header >= Size)
    BY SMTT(30), <1>4, <1>6, <1>9, <2>1, <2>3 DEF Advance
  <2> QED
    BY <2>2, <2>3
<1>11. (\E next \in [head_seq + 1 .. tail_seq + 1 -> Int] : LaidOut(next))'
  BY <1>6, <1>7, <1>8, <1>10, TheRestIsLaidOut
<1>12. head' \in Nat /\ tail' \in Nat /\ head' < Size /\ head' <= tail' /\ tail' <= head' + Size
  <2>1. head \in Nat /\ tail \in Nat /\ tail <= head + Size
    BY <1>1 DEF BlockingTypeOK, IndicesInMapping
  <2>2. place[head_seq + 2] \in Int /\ back \in Nat
    BY <1>4, <1>9, <2>1
  <2>3. head <= place[head_seq + 2] /\ place[head_seq + 2] <= tail
    BY <1>4, <1>9, <2>1
  <2>4. head' <= tail'
    BY <1>10, <2>1, <2>2, <2>3
  <2>5. tail' <= head' + Size
    BY SMTT(30), <1>10, <2>1, <2>2, <2>3
  <2>6. head' \in Nat /\ head' < Size
    BY <1>10
  <2>7. tail' \in Nat
    BY <1>10, <2>1, <2>2, <2>4, <2>6
  <2> QED
    BY <2>4, <2>5, <2>6, <2>7
<1>13. BlockingTypeOK'
  <2>1. writeable' \subseteq writeable
    BY SignalWakes DEF GetMessage
  <2>2. left' \in [BlockingThreads -> Nat] /\ \A p \in Publishers : left'[p] <= PutsEach
    BY <1>1, CallsAssumption DEF BlockingTypeOK, GetMessage, Runs, Done, BlockingThreads
  <2>3. \A u \in Asleep' : left'[u] > 0
    BY <1>1, <2>1 DEF BlockingTypeOK, GetMessage, Done, Asleep, Runs
  <2>4. long_seq' \in [Consumers -> Nat \cup {NoSeq}]
    BY <1>1 DEF BlockingTypeOK, GetMessage
  <2>5. got' \in Seq(Messages \cup {Garbage})
    BY <1>1, <1>6 DEF BlockingTypeOK
  <2> QED
    BY SMTT(30), <1>1, <1>6, <1>7, <1>12, <2>1, <2>2, <2>3, <2>4, <2>5 DEF BlockingTypeOK, GetMessage
<1>14. IndicesInMapping'
  BY <1>12, <1>13 DEF IndicesInMapping
<1>15. FifoIntact' /\ Numbered'
  <2>1. /\ Len(got') = head_seq + 1
        /\ \A i \in 1 .. head_seq : got'[i] = got[i]
        /\ got'[head_seq + 1] = m
    BY <1>1, <1>6, <1>7 DEF BlockingTypeOK
  <2>2. m.seq = (head_seq + 1) - 1
    BY <1>1, <1>2, <1>3, <1>7 DEF Numbered
  <2>3. ASSUME NEW i \in 1 .. head_seq + 1
        PROVE  got'[i] = sent[i] /\ got'[i].seq = i - 1
    BY SMTT(30), <1>1, <1>2, <1>7, <2>1, <2>2, <2>3 DEF FifoIntact
  <2>4. Numbered'
    BY <1>1, <1>6 DEF Numbered
  <2>5. Len(sent') = tail_seq' /\ head_seq' <= tail_seq' /\ sent' = sent /\ head_seq' = head_seq + 1
    BY <1>6, <1>7
  <2> QED
    BY <2>1, <2>3, <2>4, <2>5 DEF FifoIntact
<1> QED
  BY <1>11, <1>14, <1>15 DEF IInv

-----------------------------------------------------------------------------
(* The theorems *)

LEMMA NextKeeps == IInv /\ [BlockingNext]_blockingVars => IInv'
<1> SUFFICES ASSUME IInv, [BlockingNext]_blockingVars
             PROVE  IInv'
  OBVIOUS
<1>1. CASE UNCHANGED blockingVars
  <2>1. BlockingTypeOK'
    BY <1>1 DEF IInv, IndicesInMapping, BlockingTypeOK, Asleep, blockingVars, queueVars
  <2> QED
    BY <1>1, <2>1, QueueUntouched DEF blockingVars
<1>2. ASSUME NEW t \in Publishers, Publish(t)
      PROVE  IInv'
  BY <1>2, PutWaitsKeeps, PutKeeps DEF Publish
<1>3. ASSUME NEW t \in Consumers, Consume(t)
      PROVE  IInv'
  BY <1>3, GetWaitsKeeps, GetTooLongKeeps, GetKeeps DEF Consume
<1>4. ASSUME NEW t \in BlockingThreads, SpuriousWakeup(t)
      PROVE  IInv'
  BY <1>4, SpuriousWakeupKeeps
<1> QED
  BY <1>1, <1>2, <1>3, <1>4 DEF BlockingNext

LEMMA Invariance == BlockingSpec => []IInv
<1>1. BlockingInit => IInv
  BY InitHolds
<1>2. IInv /\ [BlockingNext]_blockingVars => IInv'
  BY NextKeeps
<1> QED
  BY <1>1, <1>2, PTL DEF BlockingSpec

\* queue_put never writes past the two mappings, and the room it computes from
\* head and tail never wraps, for messages of any lengths that fit the ring.
THEOREM IndicesStayInMapping == BlockingSpec => []IndicesInMapping
<1>1. IInv => IndicesInMapping
  BY DEF IInv
<1> QED
  BY <1>1, Invariance, PTL

\* Every queue_get returns the message that comes next in the order of
\* queue_put, whole and with the sequence number of its place, whichever
\* publishers and consumers interleave and wherever messages wrapped.
THEOREM MessagesComeOutWhole == BlockingSpec => []FifoIntact
<1>1. IInv => FifoIntact
  BY DEF IInv
<1> QED
  BY <1>1, Invariance, PTL

=============================================================================
