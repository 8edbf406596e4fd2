------------------------------- MODULE LfRing -------------------------------
(***************************************************************************)
(* The ring buffer of linux-2022/quiz8/problem2 (lfring.c): producers and  *)
(* consumers move batches of elements.  Several producers claim slot by    *)
(* slot with a double-word compare-and-swap, and advance the shared tail   *)
(* only afterwards, so that it lags behind; a consumer that finds nothing  *)
(* before the tail scans the slots and advances it itself.                 *)
(*                                                                         *)
(* Each access to head, tail or a slot is a step, with one exception: a    *)
(* load followed by a compare-and-swap of the same word, and by another    *)
(* round if that fails, is one step, namely the compare-and-swap that      *)
(* succeeds or the load that ends the loop; whatever was loaded before has *)
(* no effect.  (A slot has two words, and the load may mix an old and a    *)
(* new one: then, too, the compare-and-swap fails and loads both.)         *)
(* Positions are integers: they are 64-bit words and do not wrap in a run. *)
(***************************************************************************)
EXTENDS Integers, Sequences

CONSTANTS Size,                 \* slots of the ring (a power of two in the code)
          Producers, Consumers,
          Requests              \* the n_elems of each thread's calls, a sequence

ASSUME SizeAssumption == Size \in Nat \ {0}
Threads == Producers \cup Consumers

ASSUME ThreadsAssumption ==
  Producers \cap Consumers = {} /\ Requests \in [Threads -> Seq(Nat \ {0})]

Slots == 0 .. Size - 1
Slot(pos) == pos % Size         \* pos & mask

\* The values: element k of all that producer p gets into the ring.
Values == Producers \X Nat
NoValue == <<>>                 \* the NULL of lfring_alloc

VARIABLES head, tail,           \* lfr->head, lfr->tail
          idx, ptr,             \* the slots
          sp, sc,               \* LFRING_FLAG_SP and LFRING_FLAG_SC
          pc, todo,             \* where thread t is, and the calls it has left
          myHead, myTail,       \* its local head and tail
          want,                 \* n_elems
          got,                  \* elements the producer has written
          actual,               \* how many the single producer will write
          elems,                \* what the consumer has copied
          accepted,             \* history: the elements in the order of their positions
          sent,                 \* history: how many of them are of producer p
          received,             \* history: the batches each consumer returned
          excused               \* history: during its call there was a reason to return less

ring == <<head, tail, idx, ptr, sp, sc>>
locals == <<myHead, myTail, want, got, actual, elems>>
history == <<accepted, sent, received>>
vars == <<ring, pc, todo, locals, history, excused>>

Init ==
  /\ head = 0 /\ tail = 0
  /\ idx = [s \in Slots |-> s - Size] /\ ptr = [s \in Slots |-> NoValue]
  /\ sp \in BOOLEAN /\ sc \in BOOLEAN
  /\ pc = [t \in Threads |-> "idle"]
  /\ \E p \in Producers, c \in Consumers :      \* those that run where only one may
       todo = [t \in Threads |-> IF (t \in Producers /\ sp /\ t # p) \/ (t \in Consumers /\ sc /\ t # c)
                                 THEN << >> ELSE Requests[t]]
  /\ myHead = [t \in Threads |-> 0] /\ myTail = [t \in Threads |-> 0]
  /\ want = [t \in Threads |-> 0]
  /\ got = [t \in Threads |-> 0] /\ actual = [t \in Threads |-> 0]
  /\ elems = [t \in Threads |-> << >>]
  /\ accepted = << >> /\ sent = [p \in Producers |-> 0]
  /\ received = [c \in Consumers |-> << >>]
  /\ excused = [t \in Threads |-> FALSE]

Goto(t, label) == pc' = [pc EXCEPT ![t] = label]
Set(f, t, value) == [f EXCEPT ![t] = value]
Smaller(a, b) == IF a < b THEN a ELSE b
Larger(a, b) == IF a < b THEN b ELSE a

\* The locals mean nothing after the call.
Return(t) ==
  /\ Goto(t, "idle")
  /\ myHead' = Set(myHead, t, 0) /\ myTail' = Set(myTail, t, 0) /\ want' = Set(want, t, 0)
  /\ got' = Set(got, t, 0) /\ actual' = Set(actual, t, 0) /\ elems' = Set(elems, t, << >>)

\* A consumer between its head h and its tail t copies, or returns without
\* an element.
Found(c, h, t) ==
  \/ /\ t > h /\ Goto(c, "copy") /\ myTail' = Set(myTail, c, t)
     /\ UNCHANGED <<myHead, want, got, actual, elems>>
  \/ t <= h /\ Return(c)

\* Mutant: the tail may move back.
CondUpdateMutant(t) ==
  /\ pc[t] = "update"
  /\ tail' = myTail[t]
  /\ IF t \in Producers THEN Return(t) ELSE Found(t, myHead[t], myTail[t])
  /\ UNCHANGED <<head, idx, ptr, sp, sc, todo, history>>

\* cond_update, and what follows it: a producer is done, a consumer goes on
\* with the further one of both tails.
CondUpdate(t) ==
  /\ pc[t] = "update"
  /\ tail' = Larger(myTail[t], tail)
  /\ IF t \in Producers THEN Return(t) ELSE Found(t, myHead[t], Larger(myTail[t], tail))
  /\ UNCHANGED <<head, idx, ptr, sp, sc, todo, history>>

-----------------------------------------------------------------------------
(* lfring_enqueue *)

EnqueueBegins(p) ==
  /\ pc[p] = "idle" /\ todo[p] # << >>
  /\ want' = Set(want, p, Head(todo[p])) /\ todo' = Set(todo, p, Tail(todo[p]))
  /\ myTail' = Set(myTail, p, tail)
  /\ Goto(p, IF sp THEN "room" ELSE "loop")
  /\ UNCHANGED <<ring, myHead, got, actual, elems, history>>

\* Writes the next element to the slot of p's tail.
Write(p) ==
  /\ idx' = Set(idx, Slot(myTail[p]), myTail[p])
  /\ ptr' = Set(ptr, Slot(myTail[p]), <<p, sent[p] + 1>>)
  /\ accepted' = Append(accepted, <<p, sent[p] + 1>>) /\ sent' = Set(sent, p, sent[p] + 1)
  /\ myTail' = Set(myTail, p, myTail[p] + 1) /\ got' = Set(got, p, got[p] + 1)

(* Single producer *)

Room(p) == head + Size - myTail[p]

MeasureRoom(p) ==
  /\ pc[p] = "room"
  /\ IF Room(p) <= 0
     THEN Return(p)
     ELSE /\ Goto(p, "fill")
          /\ actual' = Set(actual, p, Smaller(Room(p), want[p]))
          /\ UNCHANGED <<myHead, myTail, want, got, elems>>
  /\ UNCHANGED <<ring, todo, history>>

Fill(p) ==
  /\ pc[p] = "fill"
  /\ Write(p)
  /\ Goto(p, IF got[p] + 1 = actual[p] THEN "publish" ELSE "fill")
  /\ UNCHANGED <<head, tail, sp, sc, todo, myHead, want, actual, elems, received>>

PublishTail(p) ==
  /\ pc[p] = "publish"
  /\ tail' = myTail[p]
  /\ Return(p)
  /\ UNCHANGED <<head, idx, ptr, sp, sc, todo, history>>

(* Several producers *)

\* Mutant: one slot stays free.
EnqueueLoopMutant(p) ==
  /\ pc[p] = "loop"
  /\ Goto(p, IF myTail[p] < head + Size - 1 THEN "slot" ELSE "update")
  /\ UNCHANGED <<ring, todo, locals, history>>

EnqueueLoop(p) ==
  /\ pc[p] = "loop"
  /\ Goto(p, IF myTail[p] < head + Size THEN "slot" ELSE "update")
  /\ UNCHANGED <<ring, todo, locals, history>>

\* The slot is one lap back: the compare-and-swap succeeds.
ClaimSlot(p) ==
  /\ pc[p] = "slot" /\ idx[Slot(myTail[p])] = myTail[p] - Size
  /\ Write(p)
  /\ Goto(p, IF got[p] + 1 < want[p] THEN "loop" ELSE "update")
  /\ UNCHANGED <<head, tail, sp, sc, todo, myHead, want, actual, elems, received>>

\* Mutant: the slot is tried again.
SkipSlotMutant(p) ==
  /\ pc[p] = "slot" /\ idx[Slot(myTail[p])] = myTail[p]
  /\ Goto(p, "loop")
  /\ UNCHANGED <<ring, todo, locals, history>>

\* The slot is enqueued already.
SkipSlot(p) ==
  /\ pc[p] = "slot" /\ idx[Slot(myTail[p])] = myTail[p]
  /\ myTail' = Set(myTail, p, myTail[p] + 1)
  /\ Goto(p, "loop")
  /\ UNCHANGED <<ring, todo, myHead, want, got, actual, elems, history>>

\* The thread is far behind.
FarBehind(p) ==
  /\ pc[p] = "slot" /\ idx[Slot(myTail[p])] \notin {myTail[p], myTail[p] - Size}
  /\ Goto(p, "reload")
  /\ UNCHANGED <<ring, todo, locals, history>>

\* cond_reload
CondReload(p) ==
  /\ pc[p] = "reload"
  /\ myTail' = Set(myTail, p, IF myTail[p] < tail THEN tail ELSE myTail[p] + 1)
  /\ Goto(p, "loop")
  /\ UNCHANGED <<ring, todo, myHead, want, got, actual, elems, history>>

-----------------------------------------------------------------------------
(* lfring_dequeue *)

DequeueBegins(c) ==
  /\ pc[c] = "idle" /\ todo[c] # << >>
  /\ want' = Set(want, c, Head(todo[c])) /\ todo' = Set(todo, c, Tail(todo[c]))
  /\ myHead' = Set(myHead, c, head)
  /\ Goto(c, "tail")
  /\ UNCHANGED <<ring, myTail, got, actual, elems, history>>

\* With elements between its head and tail, the consumer copies; find_tail first
\* if there is none.
CopyOrFindTail(h, t) == IF t > h THEN "copy" ELSE IF sp THEN "loadTail" ELSE "scan"

LoadTail(c) ==
  /\ pc[c] = "tail"
  /\ myTail' = Set(myTail, c, tail)
  /\ Goto(c, CopyOrFindTail(myHead[c], tail))
  /\ UNCHANGED <<ring, todo, myHead, want, got, actual, elems, history>>

\* find_tail with a single producer.
FindTail(c) ==
  /\ pc[c] = "loadTail"
  /\ Found(c, myHead[c], tail)
  /\ UNCHANGED <<ring, todo, history>>

\* find_tail with several: one slot per step.
Scan(c) ==
  /\ pc[c] = "scan"
  /\ IF myTail[c] < myHead[c] + Size /\ idx[Slot(myTail[c])] = myTail[c]
     THEN myTail' = Set(myTail, c, myTail[c] + 1) /\ UNCHANGED pc
     ELSE Goto(c, "update") /\ UNCHANGED myTail
  /\ UNCHANGED <<ring, todo, myHead, want, got, actual, elems, history>>

Batch(c) == Smaller(myTail[c] - myHead[c], want[c])

Copy(c) ==
  /\ pc[c] = "copy"
  /\ elems' = Set(elems, c, Append(elems[c], ptr[Slot(myHead[c] + Len(elems[c]))]))
  /\ Goto(c, IF Len(elems[c]) + 1 = Batch(c) THEN "claim" ELSE "copy")
  /\ UNCHANGED <<ring, todo, myHead, myTail, want, got, actual, history>>

\* Mutant: several consumers store the head as a single one does.
ClaimMutant(c) ==
  /\ pc[c] = "claim"
  /\ head' = myHead[c] + Batch(c)
  /\ received' = [received EXCEPT ![c] = Append(@, <<myHead[c], elems[c]>>)]
  /\ Return(c)
  /\ UNCHANGED <<tail, idx, ptr, sp, sc, todo, accepted, sent>>

\* The store, or the compare-and-swap and another round if it fails.
Claim(c) ==
  /\ pc[c] = "claim"
  /\ IF sc \/ head = myHead[c]
     THEN /\ head' = myHead[c] + Batch(c)
          /\ received' = [received EXCEPT ![c] = Append(@, <<myHead[c], elems[c]>>)]
          /\ Return(c)
     ELSE /\ myHead' = Set(myHead, c, head) /\ elems' = Set(elems, c, << >>)
          /\ Goto(c, CopyOrFindTail(head, myTail[c]))
          /\ UNCHANGED <<head, received, myTail, want, got, actual>>
  /\ UNCHANGED <<tail, idx, ptr, sp, sc, todo, accepted, sent>>

-----------------------------------------------------------------------------
Producer(p) ==
  \/ EnqueueBegins(p) \/ MeasureRoom(p) \/ Fill(p) \/ PublishTail(p)
  \/ EnqueueLoop(p) \/ ClaimSlot(p) \/ SkipSlot(p) \/ FarBehind(p) \/ CondReload(p)
  \/ CondUpdate(p)

Consumer(c) ==
  \/ DequeueBegins(c) \/ LoadTail(c) \/ FindTail(c) \/ Scan(c) \/ CondUpdate(c)
  \/ Copy(c) \/ Claim(c)

\* An element whose enqueue call has not returned.
Pending(value) == value[2] > sent[value[1]] - got[value[1]]

\* A reason to store less than asked for: there is no room for all of it; and
\* one to find the ring empty: what waits in it is of calls that have not returned.
Excuse(t) ==
  IF t \in Producers
  THEN Len(accepted) - head + want[t] - got[t] > Size
  ELSE \A i \in head + 1 .. Len(accepted) : Pending(accepted[i])

Step(t) ==
  /\ (t \in Producers /\ Producer(t)) \/ (t \in Consumers /\ Consumer(t))
  /\ excused' = [u \in Threads |-> pc'[u] # "idle" /\ (excused[u] \/ Excuse(u)')]

Next == \E t \in Threads : Step(t)

Spec == Init /\ [][Next]_vars

\* The operating system runs every thread.
FairSpec == Spec /\ \A t \in Threads : WF_vars(Step(t))
-----------------------------------------------------------------------------
(* Properties *)

\* head and tail never pass what is there: nothing unwritten is before the
\* tail, no thread steps over an unwritten slot, and a position stays in its
\* slot until it is consumed.  The single producer finds its slots as it asserts.
IndicesLag ==
  /\ head <= tail /\ tail <= Len(accepted) /\ Len(accepted) <= head + Size
  /\ \A t \in Threads : myTail[t] <= Len(accepted)
  /\ \A i \in head .. Len(accepted) - 1 : idx[Slot(i)] = i /\ ptr[Slot(i)] = accepted[i + 1]
  /\ \A p \in Producers : pc[p] = "fill" => idx[Slot(myTail[p])] = myTail[p] - Size

\* A call that stores fewer elements than it was given, or returns none, had a
\* reason to at some moment between its begin and its end.
HonestCounts ==
  [][\A t \in Threads :
       pc[t] # "idle" /\ pc'[t] = "idle" =>
         \/ excused[t]
         \/ t \in Producers /\ got[t] = want[t]
         \/ t \in Consumers /\ received'[t] # received[t]]_vars

\* The ring implements the queue with batches: with several producers an
\* element counts from the moment it is in its slot, however far the shared
\* tail lags; with a single one, when the tail is stored.
Fifo == INSTANCE BatchFifo WITH
          Capacity <- Size, Takers <- Consumers, position <- head,
          queue <- SubSeq(accepted, head + 1, IF sp THEN tail ELSE Len(accepted))

ImplementsFifo == Fifo!Spec

\* No call loops for ever.
AllCallsReturn == <>(\A t \in Threads : pc[t] = "idle" /\ todo[t] = << >>)
=============================================================================
