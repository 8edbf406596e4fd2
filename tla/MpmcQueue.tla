----------------------------- MODULE MpmcQueue -----------------------------
(***************************************************************************)
(* The bounded queue of linux-2022/quiz9/problem2/queues.h together with   *)
(* the threads of its test (test.c: thread_in, thread_out).  The header is *)
(* compiled four times, for one or several producers and one or several    *)
(* consumers: MultiProducer and MultiConsumer, which are QUEUE_MP and      *)
(* QUEUE_MC, are chosen in the initial state and never change.             *)
(*                                                                         *)
(* Every access to shared memory is a step of its own: a thread may be     *)
(* preempted between loading an index, loading the cell's sequence number, *)
(* claiming the position, touching the data and publishing the sequence.   *)
(* Positions are naturals: the 64-bit size_t does not wrap in a run.       *)
(***************************************************************************)
EXTENDS Integers, Sequences

CONSTANTS CellCount,          \* cells of the ring (a power of two in the code)
          Producers, Consumers,
          Loads,              \* the calls of each thread, "max" of thread_in and
                              \* thread_out: functions, of which a run has one
          MaxItems,           \* no producer makes more calls
          NoData              \* the zeroed payload

\* make_queue refuses fewer than two cells.
ASSUME CellCountAssumption == CellCount \in Nat /\ CellCount >= 2
ASSUME ThreadsAssumption == Producers \cap Consumers = {} /\ MaxItems \in Nat

Threads == Producers \cup Consumers
ASSUME LoadsAssumption ==
  /\ Loads \subseteq [Threads -> Nat]
  /\ \A load \in Loads : \A t \in Producers : load[t] <= MaxItems

Values == Producers \X (1 .. MaxItems)
ASSUME NoDataAssumption == NoData \notin Values

VARIABLES MultiProducer, MultiConsumer,
          enqueue_index, dequeue_index,
          sequence, data,     \* the cells
          pc, pos,            \* the threads' program counters and local pos
          out,                \* out[c]: *data, where consumer c copies the payload
          result,             \* what the last try_enqueue/try_dequeue returned
          todo,               \* calls thread t still has to get Ok from
          accepted,           \* history: the payloads in the order of their positions
          received            \* history: what each consumer's calls returned

variant == <<MultiProducer, MultiConsumer>>
shared == <<variant, enqueue_index, dequeue_index, sequence, data>>
vars == <<shared, pc, pos, out, result, todo, accepted, received>>

Cells == 0 .. CellCount - 1
Cell(p) == p % CellCount      \* pos & cell_mask

Item(t) == <<t, todo[t]>>     \* the payload of t's current call

\* The threads of a side that still have calls to make are not more than one.
Single(side) == \A t, u \in side : todo[t] > 0 /\ todo[u] > 0 => t = u

\* test.c starts one thread on a side that is compiled for one.
Init ==
  /\ todo \in Loads
  /\ MultiProducer \in BOOLEAN /\ (~MultiProducer => Single(Producers))
  /\ MultiConsumer \in BOOLEAN /\ (~MultiConsumer => Single(Consumers))
  /\ enqueue_index = 0 /\ dequeue_index = 0
  /\ sequence = [c \in Cells |-> c]
  /\ data = [c \in Cells |-> NoData]
  /\ pc = [t \in Threads |-> "idle"]
  /\ pos = [t \in Threads |-> 0]
  /\ out = [c \in Consumers |-> NoData]
  /\ result = [t \in Threads |-> "none"]
  /\ accepted = << >>
  /\ received = [c \in Consumers |-> << >>]

Goto(t, label) == pc' = [pc EXCEPT ![t] = label]

\* The call returns r; thread_in and thread_out retry until it is Ok.
ReturnWith(t, r) == /\ Goto(t, "idle")
                    /\ result' = [result EXCEPT ![t] = r]

-----------------------------------------------------------------------------
(* try_enqueue *)

LoadEnqueueIndex(t) ==
  /\ pc[t] = "idle" /\ todo[t] > 0
  /\ pos' = [pos EXCEPT ![t] = enqueue_index]
  /\ Goto(t, "sequence")
  /\ UNCHANGED <<shared, out, result, todo, accepted, received>>

\* Mutant: a cell that still holds a payload passes for a free one.
CheckFreeMutant(t) ==
  /\ pc[t] = "sequence"
  /\ LET difference == sequence[Cell(pos[t])] - pos[t] IN
       \/ difference <= 0 /\ Goto(t, "claim") /\ UNCHANGED result
       \/ difference > 0 /\ ReturnWith(t, "Contention")
  /\ UNCHANGED <<shared, pos, out, todo, accepted, received>>

\* difference = sequence - pos: zero leads to the CAS, less than zero is Full,
\* more than zero means that another producer was faster.
CheckFree(t) ==
  /\ pc[t] = "sequence"
  /\ LET difference == sequence[Cell(pos[t])] - pos[t] IN
       \/ difference = 0 /\ Goto(t, "claim") /\ UNCHANGED result
       \/ difference < 0 /\ ReturnWith(t, "Full")
       \/ difference > 0 /\ ReturnWith(t, "Contention")
  /\ UNCHANGED <<shared, pos, out, todo, accepted, received>>

\* The compare-and-swap of QUEUE_P_IF_CAS, or the plain store of the
\* single-producer variant, which compares nothing.
ClaimEnqueue(t) ==
  /\ pc[t] = "claim"
  /\ MultiProducer => enqueue_index = pos[t]
  /\ enqueue_index' = pos[t] + 1
  /\ accepted' = Append(accepted, Item(t))
  /\ Goto(t, "write")
  /\ UNCHANGED <<variant, dequeue_index, sequence, data, pos, out, result, todo, received>>

\* The weak compare-and-swap fails: the index moved, or spuriously.
EnqueueCasFails(t) ==
  /\ pc[t] = "claim" /\ MultiProducer
  /\ ReturnWith(t, "Contention")
  /\ UNCHANGED <<shared, pos, out, todo, accepted, received>>

WriteData(t) ==
  /\ pc[t] = "write"
  /\ data' = [data EXCEPT ![Cell(pos[t])] = Item(t)]
  /\ Goto(t, "publish")
  /\ UNCHANGED <<variant, enqueue_index, dequeue_index, sequence, pos, out, result, todo,
                 accepted, received>>

\* Mutant: the cell keeps the sequence number of a free cell.
PublishMutant(t) ==
  /\ pc[t] = "publish"
  /\ sequence' = [sequence EXCEPT ![Cell(pos[t])] = pos[t]]
  /\ todo' = [todo EXCEPT ![t] = @ - 1]
  /\ ReturnWith(t, "Ok")
  /\ UNCHANGED <<variant, enqueue_index, dequeue_index, data, pos, out, accepted, received>>

Publish(t) ==
  /\ pc[t] = "publish"
  /\ sequence' = [sequence EXCEPT ![Cell(pos[t])] = pos[t] + 1]
  /\ todo' = [todo EXCEPT ![t] = @ - 1]
  /\ ReturnWith(t, "Ok")
  /\ UNCHANGED <<variant, enqueue_index, dequeue_index, data, pos, out, accepted, received>>

-----------------------------------------------------------------------------
(* try_dequeue *)

LoadDequeueIndex(t) ==
  /\ pc[t] = "idle" /\ todo[t] > 0
  /\ pos' = [pos EXCEPT ![t] = dequeue_index]
  /\ Goto(t, "sequence")
  /\ UNCHANGED <<shared, out, result, todo, accepted, received>>

CheckFilled(t) ==
  /\ pc[t] = "sequence"
  /\ LET difference == sequence[Cell(pos[t])] - (pos[t] + 1) IN
       \/ difference = 0 /\ Goto(t, "claim") /\ UNCHANGED result
       \/ difference < 0 /\ ReturnWith(t, "Empty")
       \/ difference > 0 /\ ReturnWith(t, "Contention")
  /\ UNCHANGED <<shared, pos, out, todo, accepted, received>>

\* Mutant: the store of the single-consumer variant with several consumers.
ClaimDequeueMutant(t) ==
  /\ pc[t] = "claim"
  /\ dequeue_index' = pos[t] + 1
  /\ Goto(t, "read")
  /\ UNCHANGED <<variant, enqueue_index, sequence, data, pos, out, result, todo, accepted,
                 received>>

ClaimDequeue(t) ==
  /\ pc[t] = "claim"
  /\ MultiConsumer => dequeue_index = pos[t]
  /\ dequeue_index' = pos[t] + 1
  /\ Goto(t, "read")
  /\ UNCHANGED <<variant, enqueue_index, sequence, data, pos, out, result, todo, accepted,
                 received>>

DequeueCasFails(t) ==
  /\ pc[t] = "claim" /\ MultiConsumer
  /\ ReturnWith(t, "Contention")
  /\ UNCHANGED <<shared, pos, out, todo, accepted, received>>

ReadData(t) ==
  /\ pc[t] = "read"
  /\ out' = [out EXCEPT ![t] = data[Cell(pos[t])]]
  /\ Goto(t, "release")
  /\ UNCHANGED <<shared, pos, result, todo, accepted, received>>

\* Mutant: cell_mask is added in place of cell_mask + 1.
ReleaseMutant(t) ==
  /\ pc[t] = "release"
  /\ sequence' = [sequence EXCEPT ![Cell(pos[t])] = pos[t] + CellCount - 1]
  /\ todo' = [todo EXCEPT ![t] = @ - 1]
  /\ received' = [received EXCEPT ![t] = Append(@, out[t])]
  /\ ReturnWith(t, "Ok")
  /\ UNCHANGED <<variant, enqueue_index, dequeue_index, data, pos, out, accepted>>

\* The cell becomes free for the position one round later.
Release(t) ==
  /\ pc[t] = "release"
  /\ sequence' = [sequence EXCEPT ![Cell(pos[t])] = pos[t] + CellCount]
  /\ todo' = [todo EXCEPT ![t] = @ - 1]
  /\ received' = [received EXCEPT ![t] = Append(@, out[t])]
  /\ ReturnWith(t, "Ok")
  /\ UNCHANGED <<variant, enqueue_index, dequeue_index, data, pos, out, accepted>>

-----------------------------------------------------------------------------
Produce(t) == \/ LoadEnqueueIndex(t) \/ CheckFree(t) \/ ClaimEnqueue(t)
              \/ EnqueueCasFails(t) \/ WriteData(t) \/ Publish(t)

Consume(t) == \/ LoadDequeueIndex(t) \/ CheckFilled(t) \/ ClaimDequeue(t)
              \/ DequeueCasFails(t) \/ ReadData(t) \/ Release(t)

Next == \/ \E t \in Producers : Produce(t)
        \/ \E t \in Consumers : Consume(t)

Spec == Init /\ [][Next]_vars

\* Every thread runs, and a weak compare-and-swap that could succeed again and
\* again does not fail spuriously for ever.
Fairness ==
  /\ \A t \in Producers : WF_vars(Produce(t)) /\ SF_vars(ClaimEnqueue(t))
  /\ \A t \in Consumers : WF_vars(Consume(t)) /\ SF_vars(ClaimDequeue(t))

FairSpec == Spec /\ Fairness

-----------------------------------------------------------------------------
(* Properties *)

TypeOK ==
  /\ enqueue_index \in Nat /\ dequeue_index \in Nat
  /\ sequence \in [Cells -> Nat]
  /\ data \in [Cells -> Values \cup {NoData}]
  /\ pc \in [Threads -> {"idle", "sequence", "claim", "write", "publish", "read",
                         "release"}]
  /\ \A t \in Producers : pc[t] \notin {"read", "release"}
  /\ \A t \in Consumers : pc[t] \notin {"write", "publish"}
  /\ pos \in [Threads -> Nat]
  /\ out \in [Consumers -> Values \cup {NoData}]
  /\ result \in [Threads -> {"none", "Ok", "Full", "Empty", "Contention"}]
  /\ todo \in [Threads -> Nat]
  /\ \A t \in Producers : /\ todo[t] <= MaxItems
                          /\ pc[t] # "idle" => todo[t] > 0
  /\ \A t \in Consumers : pc[t] # "idle" => todo[t] > 0
  /\ accepted \in Seq(Values)
  /\ received \in [Consumers -> Seq(Values \cup {NoData})]

Writing(t) == pc[t] \in {"write", "publish"}
Reading(t) == pc[t] \in {"read", "release"}

\* No data race: between its claim and its store to the sequence number, a
\* thread is alone on its cell, so the plain accesses to cell->data of
\* try_enqueue and try_dequeue never meet.
CellExclusive ==
  \A t, u \in Threads :
    /\ Writing(t) \/ Reading(t)
    /\ Writing(u) \/ Reading(u)
    /\ Cell(pos[t]) = Cell(pos[u])
    => t = u

\* The n-th position that consumers claim carries the n-th accepted payload,
\* although cells are reused and threads are preempted anywhere.
FifoDelivery ==
  \A c \in Consumers :
    pc[c] = "release" => /\ pos[c] + 1 \in DOMAIN accepted
                         /\ out[c] = accepted[pos[c] + 1]

\* A call answers Full only if the ring holds CellCount accepted payloads or
\* a consumer is still between its claim and the release of a cell; it answers
\* Empty only if there is none or a producer has claimed and not yet published.
RefusalHasReason(t) ==
  pc[t] = "sequence" /\ pc'[t] = "idle" =>
    /\ result'[t] = "Full" => \/ enqueue_index - dequeue_index = CellCount
                              \/ \E c \in Consumers : Reading(c)
    /\ result'[t] = "Empty" => \/ enqueue_index = dequeue_index
                               \/ \E p \in Producers : Writing(p)

HonestRefusals == [][\A t \in Threads : RefusalHasReason(t)]_vars

\* The queue is a bounded FIFO: a position is accepted or taken at the claim,
\* and what a consumer will return is, until it has copied the cell, the cell's
\* present contents.
Held(c) == CASE pc[c] = "read" -> data[Cell(pos[c])]
             [] pc[c] = "release" -> out[c]
             [] OTHER -> NoData

Fifo == INSTANCE BoundedFifo WITH
          Capacity <- CellCount, Takers <- Consumers, Nothing <- NoData,
          queue <- SubSeq(accepted, dequeue_index + 1, enqueue_index),
          held <- [c \in Consumers |-> Held(c)]

ImplementsFifo == Fifo!Spec

\* test.c waits for every thread: with as many calls on either side, all of
\* them end, no matter how often they meet a full or empty queue or lose a race.
AllThreadsFinish == <>(\A t \in Threads : pc[t] = "idle" /\ todo[t] = 0)
-----------------------------------------------------------------------------
(* The inductive invariant behind CellExclusive, FifoDelivery and           *)
(* ImplementsFifo.  TLC checks it; MpmcQueueProofs proves it.               *)

\* A thread between its claim and its publication owns a claimed position, the
\* cell's sequence number still names that position, and no other thread of
\* its side owns the same one.
ProducersOwn ==
  \A t \in Producers : Writing(t) =>
    /\ pos[t] < enqueue_index
    /\ sequence[Cell(pos[t])] = pos[t]
    /\ accepted[pos[t] + 1] = Item(t)
    /\ pc[t] = "publish" => data[Cell(pos[t])] = Item(t)
    /\ \A u \in Producers : Writing(u) /\ pos[u] = pos[t] => u = t

\* While a consumer keeps a cell, the producers cannot get round the ring.
ConsumersOwn ==
  \A t \in Consumers : Reading(t) =>
    /\ pos[t] < dequeue_index
    /\ enqueue_index <= pos[t] + CellCount
    /\ sequence[Cell(pos[t])] = pos[t] + 1
    /\ pc[t] = "release" => out[t] = accepted[pos[t] + 1]
    /\ \A u \in Consumers : Reading(u) /\ pos[u] = pos[t] => u = t

\* What a thread found in the cell before its compare-and-swap still holds if
\* the compare-and-swap can succeed, that is, if the index has not moved.
ClaimsAreCurrent ==
  /\ ~MultiProducer => Single(Producers)
  /\ ~MultiConsumer => Single(Consumers)
  /\ \A t \in Producers : pc[t] \in {"sequence", "claim"} =>
       /\ pos[t] <= enqueue_index
       /\ pc[t] = "claim" /\ pos[t] = enqueue_index => sequence[Cell(pos[t])] = pos[t]
       /\ ~MultiProducer => pos[t] = enqueue_index
  /\ \A t \in Consumers : pc[t] \in {"sequence", "claim"} =>
       /\ pos[t] <= dequeue_index
       /\ pc[t] = "claim" /\ pos[t] = dequeue_index
            => sequence[Cell(pos[t])] = pos[t] + 1
       /\ ~MultiConsumer => pos[t] = dequeue_index

\* The sequence number says whether the cell waits for a payload or holds one,
\* and a cell whose position is claimed has its owner.
FreeCell(c) ==
  /\ Cell(sequence[c]) = c
  /\ dequeue_index <= sequence[c] /\ sequence[c] < dequeue_index + CellCount
  /\ sequence[c] < enqueue_index =>
       \E t \in Producers : Writing(t) /\ pos[t] = sequence[c]

FilledCell(c) ==
  /\ 0 < sequence[c] /\ sequence[c] <= enqueue_index
  /\ Cell(sequence[c] - 1) = c
  /\ data[c] = accepted[sequence[c]]
  /\ sequence[c] <= dequeue_index =>
       \E t \in Consumers : Reading(t) /\ pos[t] + 1 = sequence[c]

IndicesOK == /\ Len(accepted) = enqueue_index
             /\ dequeue_index <= enqueue_index
             /\ enqueue_index <= dequeue_index + CellCount

CellsOK == \A c \in Cells : FreeCell(c) \/ FilledCell(c)

IInv == TypeOK /\ IndicesOK /\ ProducersOwn /\ ConsumersOwn /\ ClaimsAreCurrent /\ CellsOK
=============================================================================
