--------------------------- MODULE BlockingQueue ---------------------------
(***************************************************************************)
(* The blocking queue of linux-2022/quiz12/problem2/queue.h with the       *)
(* threads of its test (test.c: publisher_loop, consumer_loop).  Messages  *)
(* of different lengths share a ring that is mapped twice in a row, so a   *)
(* message may start near the end of the first mapping and end in the      *)
(* second, which is the beginning of the same memory.                      *)
(*                                                                         *)
(* Every access to the queue is made with q->lock held, hence a step here  *)
(* is what a thread does from acquiring the lock to releasing it, either   *)
(* at the end of the call or inside pthread_cond_wait.  Names that other   *)
(* programs have, too, begin with Blocking: ProgramsMC extends them all.   *)
(***************************************************************************)
EXTENDS Integers, Sequences

CONSTANTS Publishers, Consumers,
          Size,       \* bytes of the ring
          Header,     \* sizeof(message_t)
          Lengths,    \* lengths of the messages that may be put
          PutsEach,   \* calls of queue_put per publisher: bounds the counters
          GetsEach    \* calls of queue_get per consumer

\* A region of no bytes cannot be mapped: queue_init ends the program.
ASSUME SizesAssumption ==
  /\ Size \in Nat \ {0} /\ Header \in Nat \ {0} /\ Lengths \subseteq Nat
  /\ \A l \in Lengths : l + Header <= Size
ASSUME CallsAssumption ==
  /\ PutsEach \in Nat /\ GetsEach \in Nat
  /\ Publishers \cap Consumers = {}

BlockingThreads == Publishers \cup Consumers
RingBytes == 0 .. Size - 1
Phys(i) == i % Size            \* buffer[i] and buffer[i + size] are one byte

NoSeq == -1                    \* the consumer is not waiting for a long message
Message(l, s, t, n) == [len |-> l, seq |-> s, body |-> <<t, n>>]
Garbage == [len |-> 0, seq |-> -1, body |-> << >>]    \* no message looks like it

VARIABLES head, tail, head_seq, tail_seq,
          memory,      \* memory[a] = <<m, k>>: byte k of message m, header included
          readable, writeable,   \* the threads asleep on either condition variable
          long_seq,    \* long_seq[c]: m.seq of the inner wait loop of queue_get
          left,        \* calls thread t still has to complete
          lens,        \* lens[p][n]: the length publisher p puts with n calls left
          max,         \* max[c]: the room in consumer c's buffer
          sent,        \* history: the messages in the order of queue_put
          got          \* history: what queue_get copied out, in order

queueVars == <<head, tail, head_seq, tail_seq, memory>>
blockingVars == <<queueVars, readable, writeable, long_seq, left, lens, max, sent, got>>

BlockingInit ==
  /\ head = 0 /\ tail = 0 /\ head_seq = 0 /\ tail_seq = 0
  /\ memory = [a \in RingBytes |-> << >>]
  /\ readable = {} /\ writeable = {}
  /\ long_seq = [c \in Consumers |-> NoSeq]
  /\ left = [t \in BlockingThreads |-> IF t \in Publishers THEN PutsEach ELSE GetsEach]
  /\ lens \in [Publishers -> [1 .. PutsEach -> Lengths]]
  /\ max \in [Consumers -> Lengths]
  /\ sent = << >> /\ got = << >>

\* Thread t may compete for the lock: it is in a call and not asleep.
Runs(t) == left[t] > 0 /\ t \notin readable \cup writeable

Done(t) == left' = [left EXCEPT ![t] = @ - 1]

\* pthread_cond_signal: one sleeper wakes, if there is any.
Signal(cond) == IF cond = {} THEN {{}} ELSE {cond \ {t} : t \in cond}

-----------------------------------------------------------------------------
(* queue_put *)

Length(t) == lens[t][left[t]]

\* Mutant: the header's bytes are forgotten.
NoSpaceForMutant(t) == Size - (tail - head) < Length(t)

NoSpaceFor(t) == Size - (tail - head) < Length(t) + Header

PutWaits(t) ==
  /\ Runs(t) /\ NoSpaceFor(t)
  /\ writeable' = writeable \cup {t}
  /\ UNCHANGED <<queueVars, readable, long_seq, left, lens, max, sent, got>>

\* The header and the body go to the bytes from tail on.
WriteMessage(m) ==
  memory' = [a \in RingBytes |->
               LET k == (a - tail) % Size
               IN  IF k < Header + m.len THEN <<m, k>> ELSE memory[a]]

\* Mutant: nobody is told of the message.
PutMessageMutant(t) ==
  /\ Runs(t) /\ ~NoSpaceFor(t)
  /\ LET m == Message(Length(t), tail_seq, t, left[t])
     IN  WriteMessage(m) /\ sent' = Append(sent, m)
  /\ tail' = tail + Length(t) + Header
  /\ tail_seq' = tail_seq + 1
  /\ Done(t)
  /\ UNCHANGED <<head, head_seq, readable, writeable, long_seq, lens, max, got>>

PutMessage(t) ==
  /\ Runs(t) /\ ~NoSpaceFor(t)
  /\ LET m == Message(Length(t), tail_seq, t, left[t])
     IN  WriteMessage(m) /\ sent' = Append(sent, m)
  /\ tail' = tail + Length(t) + Header
  /\ tail_seq' = tail_seq + 1
  /\ readable' \in Signal(readable)
  /\ Done(t)
  /\ UNCHANGED <<head, head_seq, writeable, long_seq, lens, max, got>>

-----------------------------------------------------------------------------
(* queue_get *)

Front == memory[Phys(head)][1]        \* the header at q->head

\* Still in the inner loop: the long message has not been consumed.
StillLong(t) == long_seq[t] # NoSeq /\ head_seq = long_seq[t]

GetWaitsForMessage(t) ==
  /\ Runs(t) /\ ~StillLong(t)
  /\ tail - head = 0
  /\ readable' = readable \cup {t}
  /\ long_seq' = [long_seq EXCEPT ![t] = NoSeq]
  /\ UNCHANGED <<queueVars, writeable, left, lens, max, sent, got>>

\* The message is too long: wait on writeable for someone else to consume it.
GetTooLong(t) ==
  /\ Runs(t)
  /\ \/ StillLong(t) /\ UNCHANGED long_seq
     \/ /\ ~StillLong(t) /\ tail - head # 0 /\ Front.len > max[t]
        /\ long_seq' = [long_seq EXCEPT ![t] = Front.seq]
  /\ writeable' = writeable \cup {t}
  /\ UNCHANGED <<queueVars, readable, left, lens, max, sent, got>>

BodyAt(h, m) ==
  IF \A k \in Header .. Header + m.len - 1 : memory[Phys(h + k)] = <<m, k>>
  THEN m ELSE Garbage

\* Mutant: a head at the very end of the first mapping stays there.
AdvanceMutant(h) == IF h > Size THEN /\ head' = h - Size /\ tail' = tail - Size
                                ELSE /\ head' = h /\ UNCHANGED tail

\* head moves past the message; once it is in the second mapping both indices
\* move back by one mapping.
Advance(h) == IF h >= Size THEN /\ head' = h - Size /\ tail' = tail - Size
                           ELSE /\ head' = h /\ UNCHANGED tail

GetMessage(t) ==
  /\ Runs(t) /\ ~StillLong(t)
  /\ tail - head # 0 /\ Front.len <= max[t]
  /\ got' = Append(got, BodyAt(head, Front))
  /\ Advance(head + Front.len + Header)
  /\ head_seq' = head_seq + 1
  /\ writeable' \in Signal(writeable)
  /\ long_seq' = [long_seq EXCEPT ![t] = NoSeq]
  /\ Done(t)
  /\ UNCHANGED <<tail_seq, memory, readable, lens, max, sent>>

-----------------------------------------------------------------------------
\* A thread may leave pthread_cond_wait without having been signalled.
SpuriousWakeup(t) ==
  /\ t \in readable \cup writeable
  /\ readable' = readable \ {t}
  /\ writeable' = writeable \ {t}
  /\ UNCHANGED <<queueVars, long_seq, left, lens, max, sent, got>>

Publish(t) == PutWaits(t) \/ PutMessage(t)
Consume(t) == GetWaitsForMessage(t) \/ GetTooLong(t) \/ GetMessage(t)

BlockingNext == \/ \E t \in Publishers : Publish(t)
                \/ \E t \in Consumers : Consume(t)
                \/ \E t \in BlockingThreads : SpuriousWakeup(t)

BlockingSpec == BlockingInit /\ [][BlockingNext]_blockingVars

\* Every thread that is not asleep gets the lock eventually; spurious wakeups
\* may never happen.
BlockingFairness == /\ \A t \in Publishers : WF_blockingVars(Publish(t))
                    /\ \A t \in Consumers : WF_blockingVars(Consume(t))

BlockingFairSpec == BlockingSpec /\ BlockingFairness
-----------------------------------------------------------------------------
(* Properties *)

Asleep == readable \cup writeable

Messages == [len : Lengths, seq : Nat, body : Publishers \X (1 .. PutsEach)]

BlockingTypeOK ==
  /\ head \in Nat /\ tail \in Nat /\ head_seq \in Nat /\ tail_seq \in Nat
  /\ memory \in [RingBytes -> {<< >>} \cup (Messages \X Nat)]
  /\ readable \subseteq Consumers /\ writeable \subseteq BlockingThreads
  /\ readable \cap writeable = {}
  /\ \A t \in Asleep : left[t] > 0
  /\ long_seq \in [Consumers -> Nat \cup {NoSeq}]
  /\ left \in [BlockingThreads -> Nat] /\ \A p \in Publishers : left[p] <= PutsEach
  /\ lens \in [Publishers -> [1 .. PutsEach -> Lengths]]
  /\ max \in [Consumers -> Lengths]
  /\ sent \in Seq(Messages) /\ got \in Seq(Messages \cup {Garbage})

\* Both indices stay inside the two mappings, and at most one ring of bytes is
\* unread: a write at tail never leaves the mapped region, and q->size -
\* (tail - head), computed in size_t, never wraps.
IndicesInMapping ==
  /\ BlockingTypeOK
  /\ head < Size
  /\ head <= tail /\ tail <= head + Size

\* Messages come out in the order they went in, once each, with the body that
\* was put and the sequence number of their place, whatever wrapped where.
FifoIntact ==
  /\ Len(got) = head_seq /\ Len(sent) = tail_seq /\ head_seq <= tail_seq
  /\ \A i \in 1 .. Len(got) : got[i] = sent[i] /\ got[i].seq = i - 1

LongestIsShortEnough == \A c \in Consumers : \A l \in Lengths : l <= max[c]

\* As long as every buffer fits every message, waking one thread per operation
\* is enough: all calls return, although publishers that need different amounts
\* of space and consumers share the two condition variables.  (ProgramsMC checks that
\* this comes about under fairness.)
BlockingReturned == LongestIsShortEnough => \A t \in BlockingThreads : left[t] = 0

\* queue.h:172: queue_get "blocks until a message of no more than max bytes is
\* available": a consumer is not left waiting for ever while such a message is
\* the next one in the queue.
GetReturnsWhenAvailable ==
  \A c \in Consumers :
    []<>~(left[c] > 0 /\ tail # head /\ Front.len <= max[c])

=============================================================================
