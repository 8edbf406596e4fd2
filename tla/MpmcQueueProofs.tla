-------------------------- MODULE MpmcQueueProofs --------------------------
(***************************************************************************)
(* Proofs about MpmcQueue for every ring size of at least two cells, all   *)
(* sets of producers and consumers and any number of items: the inductive  *)
(* invariant, that it implies the absence of data races and the order of   *)
(* delivery, that calls refuse only with reason, and that the queue        *)
(* implements BoundedFifo.                                                 *)
(***************************************************************************)
EXTENDS MpmcQueue, SequenceTheorems, TLAPS

-----------------------------------------------------------------------------
(* Positions and cells *)

\* A position has its cell among the cells of the ring.
LEMMA CellInRange == ASSUME NEW p \in Nat PROVE Cell(p) \in Cells
BY CellCountAssumption DEF Cell, Cells

\* The first round uses the cells in order.
LEMMA FirstRound == ASSUME NEW c \in Cells PROVE Cell(c) = c
BY CellCountAssumption DEF Cell, Cells

LEMMA Division ==
  ASSUME NEW p \in Nat
  PROVE  p \div CellCount \in Nat /\ p = CellCount * (p \div CellCount) + Cell(p)
BY CellCountAssumption DEF Cell

LEMMA RemainderUnique ==
  ASSUME NEW a \in Nat, NEW b \in Nat, NEW r \in Cells, NEW s \in Cells,
         CellCount * a + r = CellCount * b + s
  PROVE  r = s
BY CellCountAssumption DEF Cells

\* One round later the same cell is used.
LEMMA NextRound == ASSUME NEW p \in Nat PROVE Cell(p + CellCount) = Cell(p)
<1> DEFINE a == (p + CellCount) \div CellCount
           b == p \div CellCount
           r == Cell(p + CellCount)
           s == Cell(p)
<1>1. a \in Nat /\ b \in Nat /\ r \in Cells /\ s \in Cells
  BY Division, CellInRange, CellCountAssumption
<1>2. p + CellCount = CellCount * a + r /\ p = CellCount * b + s
  BY Division, CellCountAssumption
<1> HIDE DEF a, b, r, s
<1>3. CellCount * a + r = CellCount * (b + 1) + s /\ b + 1 \in Nat
  BY <1>1, <1>2, CellCountAssumption DEF Cells
<1>4. r = s
  BY <1>1, <1>3, RemainderUnique
<1> QED BY <1>4 DEF r, s

\* Two positions that share a cell are at least one round apart.
LEMMA SharedCell ==
  ASSUME NEW p \in Nat, NEW q \in Nat, Cell(p) = Cell(q), p < q
  PROVE  p + CellCount <= q
<1> DEFINE a == p \div CellCount
           b == q \div CellCount
           r == Cell(p)
<1>1. a \in Nat /\ b \in Nat /\ r \in Cells
  BY Division, CellInRange
<1>2. p = CellCount * a + r /\ q = CellCount * b + r
  BY Division
<1> HIDE DEF a, b, r
<1>3. CellCount * a < CellCount * b
  BY <1>1, <1>2, CellCountAssumption DEF Cells
<1>4. a < b
  BY <1>1, <1>3, CellCountAssumption
<1>5. CellCount * (a + 1) <= CellCount * b
  BY <1>1, <1>4, CellCountAssumption
<1> QED BY <1>1, <1>2, <1>5, CellCountAssumption DEF Cells

\* Neighbouring positions have different cells.
LEMMA Neighbours == ASSUME NEW p \in Nat, p > 0 PROVE Cell(p - 1) # Cell(p)
BY SharedCell, CellCountAssumption

-----------------------------------------------------------------------------
(* The inductive invariant: initial states and steps *)

LEMMA InitInv == Init => IInv
<1> SUFFICES ASSUME Init PROVE IInv
  OBVIOUS
<1> USE CellCountAssumption, ThreadsAssumption, LoadsAssumption
<1>1. TypeOK
  BY DEF Init, TypeOK, Cells, Threads
<1>2. IndicesOK
  BY DEF Init, IndicesOK
<1>3. ProducersOwn /\ ConsumersOwn /\ ClaimsAreCurrent
  BY DEF Init, ProducersOwn, ConsumersOwn, ClaimsAreCurrent, Single, Writing, Reading, Threads
<1>4. CellsOK
  BY FirstRound DEF Init, CellsOK, FreeCell, Cells
<1> QED BY <1>1, <1>2, <1>3, <1>4 DEF IInv

\* A side that is compiled for one thread has one thread in a call.
LEMMA OneProducer ==
  ASSUME IInv, ~MultiProducer, NEW t \in Producers, NEW u \in Producers,
         pc[t] # "idle", pc[u] # "idle"
  PROVE  t = u
BY DEF IInv, ClaimsAreCurrent, Single, TypeOK

LEMMA OneConsumer ==
  ASSUME IInv, ~MultiConsumer, NEW t \in Consumers, NEW u \in Consumers,
         pc[t] # "idle", pc[u] # "idle"
  PROVE  t = u
BY DEF IInv, ClaimsAreCurrent, Single, TypeOK

\* A step that owns no cell before or after it and writes nothing shared leaves
\* every part of the invariant alone but TypeOK and ClaimsAreCurrent.
LEMMA OwnersUntouched ==
  ASSUME IInv, UNCHANGED <<shared, out, todo, accepted, received>>,
         NEW t \in Threads,
         ~Writing(t), ~Reading(t), ~Writing(t)', ~Reading(t)',
         \A u \in Threads \ {t} : pc'[u] = pc[u] /\ pos'[u] = pos[u]
  PROVE  IndicesOK' /\ ProducersOwn' /\ ConsumersOwn' /\ CellsOK'
<1> USE DEF IInv, shared, variant, Threads
<1>1. \A u \in Threads : /\ Writing(u)' <=> Writing(u)
                         /\ Reading(u)' <=> Reading(u)
                         /\ Writing(u) \/ Reading(u) => pc'[u] = pc[u] /\ pos'[u] = pos[u]
  BY DEF Writing, Reading
<1>2. IndicesOK'
  BY DEF IndicesOK
<1>3. ProducersOwn'
  BY <1>1 DEF ProducersOwn, Item
<1>4. ConsumersOwn'
  BY <1>1 DEF ConsumersOwn
<1>5. CellsOK'
  <2> SUFFICES ASSUME NEW c \in Cells PROVE FreeCell(c)' \/ FilledCell(c)'
    BY DEF CellsOK, Cells
  <2>1. FreeCell(c) => FreeCell(c)'
    BY <1>1 DEF FreeCell
  <2>2. FilledCell(c) => FilledCell(c)'
    BY <1>1 DEF FilledCell
  <2> QED BY <2>1, <2>2 DEF CellsOK
<1> QED BY <1>2, <1>3, <1>4, <1>5

LEMMA LoadEnqueueIndexInv ==
  ASSUME IInv, NEW t \in Producers, LoadEnqueueIndex(t)
  PROVE  IInv'
<1> USE ThreadsAssumption DEF IInv, LoadEnqueueIndex, Goto, Threads
<1>1. TypeOK'
  BY DEF TypeOK, shared, variant
<1>2. IndicesOK' /\ ProducersOwn' /\ ConsumersOwn' /\ CellsOK'
  BY OwnersUntouched DEF TypeOK, Writing, Reading
<1>3. ClaimsAreCurrent'
  BY DEF TypeOK, ClaimsAreCurrent, shared, variant, Single
<1> QED BY <1>1, <1>2, <1>3

LEMMA CheckFreeInv ==
  ASSUME IInv, NEW t \in Producers, CheckFree(t)
  PROVE  IInv'
<1> USE ThreadsAssumption DEF IInv, Threads
<1>1. /\ pc[t] = "sequence"
      /\ UNCHANGED <<shared, pos, out, todo, accepted, received>>
      /\ \/ /\ sequence[Cell(pos[t])] = pos[t]
            /\ pc' = [pc EXCEPT ![t] = "claim"]
            /\ UNCHANGED result
         \/ /\ pc' = [pc EXCEPT ![t] = "idle"]
            /\ \/ result' = [result EXCEPT ![t] = "Full"]
               \/ result' = [result EXCEPT ![t] = "Contention"]
  <2>1. sequence[Cell(pos[t])] \in Nat /\ pos[t] \in Nat
    BY CellInRange DEF TypeOK
  <2> QED BY <2>1 DEF CheckFree, ReturnWith, Goto
<1>2. TypeOK'
  BY <1>1 DEF TypeOK, shared, variant
<1>3. IndicesOK' /\ ProducersOwn' /\ ConsumersOwn' /\ CellsOK'
  BY <1>1, OwnersUntouched DEF TypeOK, Writing, Reading
<1>4. ClaimsAreCurrent'
  BY <1>1 DEF TypeOK, ClaimsAreCurrent, shared, variant, Single
<1> QED BY <1>2, <1>3, <1>4

LEMMA EnqueueCasFailsInv ==
  ASSUME IInv, NEW t \in Producers, EnqueueCasFails(t)
  PROVE  IInv'
<1> USE ThreadsAssumption DEF IInv, EnqueueCasFails, ReturnWith, Goto, Threads
<1>1. TypeOK'
  BY DEF TypeOK, shared, variant
<1>2. IndicesOK' /\ ProducersOwn' /\ ConsumersOwn' /\ CellsOK'
  BY OwnersUntouched DEF TypeOK, Writing, Reading
<1>3. ClaimsAreCurrent'
  BY DEF TypeOK, ClaimsAreCurrent, shared, variant, Single
<1> QED BY <1>1, <1>2, <1>3

LEMMA ClaimEnqueueInv ==
  ASSUME IInv, NEW t \in Producers, ClaimEnqueue(t)
  PROVE  IInv'
<1> USE ThreadsAssumption DEF IInv, Threads
<1> DEFINE p == pos[t]
<1>1. /\ pc[t] = "claim" /\ p = enqueue_index /\ p \in Nat
      /\ pc' = [pc EXCEPT ![t] = "write"] /\ enqueue_index' = p + 1
      /\ accepted' = Append(accepted, Item(t))
      /\ UNCHANGED <<MultiProducer, MultiConsumer,
                     dequeue_index, sequence, data, pos, out, result, todo, received>>
  BY DEF ClaimEnqueue, Goto, ClaimsAreCurrent, TypeOK, variant
<1>2. Cell(p) \in Cells /\ sequence[Cell(p)] = p
  BY <1>1, CellInRange DEF ClaimsAreCurrent
<1>3. Item(t) \in Values
  <2>1. todo[t] \in Nat /\ todo[t] <= MaxItems /\ todo[t] > 0
    BY <1>1 DEF TypeOK
  <2> QED BY <2>1 DEF Item, Values
<1>4. /\ accepted' \in Seq(Values) /\ Len(accepted') = p + 1
      /\ accepted'[p + 1] = Item(t)
      /\ \A i \in 1 .. p : accepted'[i] = accepted[i]
  <2>1. accepted \in Seq(Values) /\ Len(accepted) = p
    BY <1>1 DEF TypeOK, IndicesOK
  <2> QED BY <1>1, <1>3, <2>1, AppendProperties
<1>5. \A u \in Threads : /\ u # t => /\ Writing(u)' <=> Writing(u)
                                     /\ pc'[u] = pc[u]
                         /\ Reading(u)' <=> Reading(u)
                         /\ Writing(t)' /\ ~Writing(t)
  BY <1>1 DEF Writing, Reading, TypeOK
<1>6. TypeOK'
  BY <1>1, <1>4 DEF TypeOK
<1>7. IndicesOK'
  <2>1. ~FilledCell(Cell(p))
    BY <1>1, <1>2, Neighbours DEF FilledCell
  <2>2. p < dequeue_index + CellCount
    BY <1>2, <2>1 DEF CellsOK, FreeCell
  <2> QED BY <1>1, <1>4, <2>2, CellCountAssumption DEF IndicesOK, TypeOK
<1>8. ProducersOwn'
  BY <1>1, <1>2, <1>4, <1>5 DEF ProducersOwn, Item, TypeOK
<1>9. ConsumersOwn'
  <2> SUFFICES ASSUME NEW c \in Consumers, Reading(c)
               PROVE  /\ p + 1 <= pos[c] + CellCount
                      /\ pc[c] = "release" => out[c] = accepted'[pos[c] + 1]
    BY <1>1, <1>5 DEF ConsumersOwn
  <2>1. pos[c] \in Nat /\ sequence[Cell(pos[c])] = pos[c] + 1
    BY DEF ConsumersOwn, TypeOK
  <2>2. p # pos[c] + CellCount
    BY <1>2, <2>1, NextRound, CellCountAssumption
  <2>3. /\ pos[c] < dequeue_index /\ p <= pos[c] + CellCount /\ dequeue_index <= p
        /\ dequeue_index \in Nat /\ p \in Nat
        /\ pc[c] = "release" => out[c] = accepted[pos[c] + 1]
    BY <1>1 DEF ConsumersOwn, IndicesOK, TypeOK
  <2>4. pos[c] + 1 \in 1 .. p
    BY <1>1, <2>1, <2>3
  <2>5. p + 1 <= pos[c] + CellCount
    BY <2>1, <2>2, <2>3, CellCountAssumption
  <2> QED BY <1>4, <2>3, <2>4, <2>5
<1>10. ClaimsAreCurrent'
  BY <1>1, OneProducer DEF ClaimsAreCurrent, Single, TypeOK
<1>11. CellsOK'
  <2> SUFFICES ASSUME NEW c \in Cells PROVE FreeCell(c)' \/ FilledCell(c)'
    BY DEF CellsOK, Cells
  <2>1. FreeCell(c) => FreeCell(c)'
    BY <1>1, <1>5 DEF FreeCell, TypeOK
  <2>2. FilledCell(c) => FilledCell(c)'
    BY <1>1, <1>4, <1>5 DEF FilledCell, TypeOK
  <2> QED BY <2>1, <2>2 DEF CellsOK
<1> QED BY <1>6, <1>7, <1>8, <1>9, <1>10, <1>11
LEMMA WriteDataInv ==
  ASSUME IInv, NEW t \in Producers, WriteData(t)
  PROVE  IInv'
<1> USE ThreadsAssumption DEF IInv, Threads
<1> DEFINE p == pos[t]
<1>1. /\ pc[t] = "write" /\ p \in Nat
      /\ pc' = [pc EXCEPT ![t] = "publish"]
      /\ data' = [data EXCEPT ![Cell(p)] = Item(t)]
      /\ UNCHANGED <<MultiProducer, MultiConsumer,
                     enqueue_index, dequeue_index, sequence, pos, out, result, todo,
                     accepted, received>>
  BY DEF WriteData, Goto, TypeOK, variant
<1>2. Cell(p) \in Cells /\ sequence[Cell(p)] = p
  BY <1>1, CellInRange DEF ProducersOwn, Writing
<1>3. Item(t) \in Values
  <2>1. todo[t] \in Nat /\ todo[t] <= MaxItems /\ todo[t] > 0
    BY <1>1 DEF TypeOK
  <2> QED BY <2>1 DEF Item, Values
<1>4. \A u \in Threads : /\ Writing(u)' <=> Writing(u)
                         /\ Reading(u)' <=> Reading(u)
                         /\ u # t => pc'[u] = pc[u]
  BY <1>1 DEF Writing, Reading, TypeOK
<1>5. TypeOK'
  BY <1>1, <1>3 DEF TypeOK
<1>6. IndicesOK'
  BY <1>1 DEF IndicesOK
<1>7. ProducersOwn'
  <2> SUFFICES ASSUME NEW u \in Producers, Writing(u), pc'[u] = "publish"
               PROVE  data'[Cell(pos[u])] = Item(u)
    BY <1>1, <1>4 DEF ProducersOwn, Item
  <2>1. CASE u = t
    BY <1>1, <1>2, <2>1 DEF TypeOK
  <2>2. CASE u # t
    <3>1. Cell(pos[u]) # Cell(p)
      BY <1>1, <1>2, <2>2 DEF ProducersOwn, Writing
    <3> QED BY <1>1, <1>4, <2>2, <3>1 DEF ProducersOwn, TypeOK
  <2> QED BY <2>1, <2>2
<1>8. ConsumersOwn'
  BY <1>1, <1>4 DEF ConsumersOwn, TypeOK
<1>9. ClaimsAreCurrent'
  BY <1>1, <1>4 DEF ClaimsAreCurrent, Single, TypeOK
<1>10. CellsOK'
  <2> SUFFICES ASSUME NEW c \in Cells PROVE FreeCell(c)' \/ FilledCell(c)'
    BY DEF CellsOK, Cells
  <2>1. FreeCell(c) => FreeCell(c)'
    BY <1>1, <1>4 DEF FreeCell
  <2>2. FilledCell(c) => c # Cell(p)
    BY <1>1, <1>2, Neighbours DEF FilledCell
  <2>3. FilledCell(c) => FilledCell(c)'
    BY <1>1, <1>4, <2>2 DEF FilledCell, TypeOK
  <2> QED BY <2>1, <2>3 DEF CellsOK
<1> QED BY <1>5, <1>6, <1>7, <1>8, <1>9, <1>10

LEMMA PublishInv ==
  ASSUME IInv, NEW t \in Producers, Publish(t)
  PROVE  IInv'
<1> USE ThreadsAssumption DEF IInv, Threads
<1> DEFINE p == pos[t]
<1>1. /\ pc[t] = "publish" /\ p \in Nat
      /\ pc' = [pc EXCEPT ![t] = "idle"]
      /\ result' = [result EXCEPT ![t] = "Ok"]
      /\ sequence' = [sequence EXCEPT ![Cell(p)] = p + 1]
      /\ todo' = [todo EXCEPT ![t] = @ - 1]
      /\ UNCHANGED <<MultiProducer, MultiConsumer,
                     enqueue_index, dequeue_index, data, pos, out, accepted, received>>
  BY DEF Publish, ReturnWith, Goto, TypeOK, variant
<1>2. /\ Cell(p) \in Cells /\ sequence[Cell(p)] = p /\ p < enqueue_index
      /\ data[Cell(p)] = accepted[p + 1]
      /\ \A u \in Producers : Writing(u) /\ pos[u] = p => u = t
  BY <1>1, CellInRange DEF ProducersOwn, Writing
<1>3. \A u \in Threads : /\ u # t => /\ Writing(u)' <=> Writing(u)
                                     /\ pc'[u] = pc[u] /\ todo'[u] = todo[u]
                         /\ Reading(u)' <=> Reading(u)
                         /\ ~Writing(t)' /\ Writing(t)
  BY <1>1 DEF Writing, Reading, TypeOK
<1>4. \A c \in Cells : c # Cell(p) => sequence'[c] = sequence[c]
  BY <1>1 DEF TypeOK
<1>5. TypeOK'
  <2>1. todo[t] \in Nat /\ todo[t] > 0 /\ (todo[t] - 1) \in Nat
    BY <1>1 DEF TypeOK
  <2>2. todo' \in [Threads -> Nat]
    BY <1>1, <2>1 DEF TypeOK
  <2>3. \A u \in Producers : todo'[u] <= MaxItems
    BY <1>1, <2>1 DEF TypeOK
  <2>4. \A u \in Threads : pc'[u] # "idle" => pc[u] # "idle" /\ todo'[u] = todo[u]
    BY <1>1 DEF TypeOK
  <2>5. sequence' \in [Cells -> Nat]
    <3>1. sequence \in [Cells -> Nat] /\ p + 1 \in Nat
      BY <1>1 DEF TypeOK
    <3> HIDE DEF IInv
    <3> QED BY <1>1, <3>1
  <2> QED BY <1>1, <2>2, <2>3, <2>4, <2>5 DEF TypeOK
<1>6. IndicesOK'
  BY <1>1 DEF IndicesOK
<1>7. ProducersOwn'
  <2> SUFFICES ASSUME NEW u \in Producers, u # t, Writing(u)
               PROVE  sequence'[Cell(pos[u])] = pos[u]
    BY <1>1, <1>3 DEF ProducersOwn, Item
  <2>1. Cell(pos[u]) # Cell(p) /\ Cell(pos[u]) \in Cells
    BY <1>2, CellInRange DEF ProducersOwn, TypeOK
  <2> QED BY <1>4, <2>1 DEF ProducersOwn
<1>8. ConsumersOwn'
  <2> SUFFICES ASSUME NEW u \in Consumers, Reading(u)
               PROVE  sequence'[Cell(pos[u])] = pos[u] + 1
    BY <1>1, <1>3 DEF ConsumersOwn
  <2>1. pos[u] \in Nat /\ sequence[Cell(pos[u])] = pos[u] + 1
    BY DEF ConsumersOwn, TypeOK
  <2>2. Cell(pos[u]) # Cell(p) /\ Cell(pos[u]) \in Cells
    BY <1>2, <2>1, CellInRange, Neighbours
  <2> QED BY <1>4, <2>1, <2>2
<1>9. ClaimsAreCurrent'
  <2>1. \A u \in Producers : pc[u] = "claim" /\ pos[u] = enqueue_index
           => sequence'[Cell(pos[u])] = pos[u]
    <3> SUFFICES ASSUME NEW u \in Producers, pc[u] = "claim", pos[u] = enqueue_index
                 PROVE  sequence'[Cell(pos[u])] = pos[u]
      OBVIOUS
    <3>1. sequence[Cell(pos[u])] = pos[u] /\ pos[u] # p
      BY <1>2 DEF ClaimsAreCurrent, TypeOK
    <3>2. Cell(pos[u]) # Cell(p) /\ Cell(pos[u]) \in Cells
      BY <1>2, <3>1, CellInRange DEF TypeOK
    <3> QED BY <1>4, <3>1, <3>2
  <2>2. \A u \in Consumers : pc[u] = "claim" /\ pos[u] = dequeue_index
           => sequence'[Cell(pos[u])] = pos[u] + 1
    <3> SUFFICES ASSUME NEW u \in Consumers, pc[u] = "claim", pos[u] = dequeue_index
                 PROVE  sequence'[Cell(pos[u])] = pos[u] + 1
      OBVIOUS
    <3>1. pos[u] \in Nat /\ sequence[Cell(pos[u])] = pos[u] + 1
      BY DEF ClaimsAreCurrent, TypeOK
    <3>2. Cell(pos[u]) # Cell(p) /\ Cell(pos[u]) \in Cells
      BY <1>2, <3>1, CellInRange, Neighbours
    <3> QED BY <1>4, <3>1, <3>2
  <2>3. \A u \in Threads : pc'[u] \in {"sequence", "claim"} => pc'[u] = pc[u]
    BY <1>1 DEF TypeOK
  <2>4. \A u \in Threads : todo'[u] > 0 => todo[u] > 0
    BY <1>1 DEF TypeOK
  <2> QED BY <1>1, <2>1, <2>2, <2>3, <2>4 DEF ClaimsAreCurrent, Single
<1>10. CellsOK'
  <2> SUFFICES ASSUME NEW c \in Cells PROVE FreeCell(c)' \/ FilledCell(c)'
    BY DEF CellsOK, Cells
  <2>1. CASE c = Cell(p)
    <3>1. ~FilledCell(c) /\ FreeCell(c)
      BY <1>1, <1>2, <2>1, Neighbours DEF FilledCell, CellsOK
    <3>2. dequeue_index <= p /\ dequeue_index \in Nat /\ enqueue_index \in Nat
      BY <1>2, <2>1, <3>1 DEF FreeCell, TypeOK
    <3>3. sequence'[c] = p + 1
      BY <1>1, <1>2, <2>1 DEF TypeOK
    <3>4. Cell(sequence'[c] - 1) = c
      BY <1>1, <2>1, <3>3
    <3>5. FilledCell(c)'
      BY <1>1, <1>2, <2>1, <3>2, <3>3, <3>4 DEF FilledCell
    <3> QED BY <3>5
  <2>2. CASE c # Cell(p)
    <3>1. FreeCell(c) => FreeCell(c)'
      <4>1. sequence[c] # p \/ Cell(sequence[c]) # c
        BY <2>2
      <4> QED BY <1>1, <1>3, <1>4, <2>2, <4>1 DEF FreeCell
    <3>2. FilledCell(c) => FilledCell(c)'
      BY <1>1, <1>3, <1>4, <2>2 DEF FilledCell
    <3> QED BY <3>1, <3>2 DEF CellsOK
  <2> QED BY <2>1, <2>2
<1> QED BY <1>5, <1>6, <1>7, <1>8, <1>9, <1>10

LEMMA LoadDequeueIndexInv ==
  ASSUME IInv, NEW t \in Consumers, LoadDequeueIndex(t)
  PROVE  IInv'
<1> USE ThreadsAssumption DEF IInv, LoadDequeueIndex, Goto, Threads
<1>1. TypeOK'
  BY DEF TypeOK, shared, variant
<1>2. IndicesOK' /\ ProducersOwn' /\ ConsumersOwn' /\ CellsOK'
  BY OwnersUntouched DEF TypeOK, Writing, Reading
<1>3. ClaimsAreCurrent'
  BY DEF TypeOK, ClaimsAreCurrent, shared, variant, Single
<1> QED BY <1>1, <1>2, <1>3

LEMMA CheckFilledInv ==
  ASSUME IInv, NEW t \in Consumers, CheckFilled(t)
  PROVE  IInv'
<1> USE ThreadsAssumption DEF IInv, Threads
<1>1. /\ pc[t] = "sequence"
      /\ UNCHANGED <<shared, pos, out, todo, accepted, received>>
      /\ \/ /\ sequence[Cell(pos[t])] = pos[t] + 1
            /\ pc' = [pc EXCEPT ![t] = "claim"]
            /\ UNCHANGED result
         \/ /\ pc' = [pc EXCEPT ![t] = "idle"]
            /\ \/ result' = [result EXCEPT ![t] = "Empty"]
               \/ result' = [result EXCEPT ![t] = "Contention"]
  <2>1. sequence[Cell(pos[t])] \in Nat /\ pos[t] \in Nat
    BY CellInRange DEF TypeOK
  <2> QED BY <2>1 DEF CheckFilled, ReturnWith, Goto
<1>2. TypeOK'
  BY <1>1 DEF TypeOK, shared, variant
<1>3. IndicesOK' /\ ProducersOwn' /\ ConsumersOwn' /\ CellsOK'
  BY <1>1, OwnersUntouched DEF TypeOK, Writing, Reading
<1>4. ClaimsAreCurrent'
  BY <1>1 DEF TypeOK, ClaimsAreCurrent, shared, variant, Single
<1> QED BY <1>2, <1>3, <1>4

LEMMA DequeueCasFailsInv ==
  ASSUME IInv, NEW t \in Consumers, DequeueCasFails(t)
  PROVE  IInv'
<1> USE ThreadsAssumption DEF IInv, DequeueCasFails, ReturnWith, Goto, Threads
<1>1. TypeOK'
  BY DEF TypeOK, shared, variant
<1>2. IndicesOK' /\ ProducersOwn' /\ ConsumersOwn' /\ CellsOK'
  BY OwnersUntouched DEF TypeOK, Writing, Reading
<1>3. ClaimsAreCurrent'
  BY DEF TypeOK, ClaimsAreCurrent, shared, variant, Single
<1> QED BY <1>1, <1>2, <1>3

LEMMA ClaimDequeueInv ==
  ASSUME IInv, NEW t \in Consumers, ClaimDequeue(t)
  PROVE  IInv'
<1> USE ThreadsAssumption DEF IInv, Threads
<1> DEFINE p == pos[t]
<1>1. /\ pc[t] = "claim" /\ p = dequeue_index /\ p \in Nat
      /\ pc' = [pc EXCEPT ![t] = "read"] /\ dequeue_index' = p + 1
      /\ UNCHANGED <<MultiProducer, MultiConsumer,
                     enqueue_index, sequence, data, pos, out, result, todo, accepted,
                     received>>
  BY DEF ClaimDequeue, Goto, ClaimsAreCurrent, TypeOK, variant
<1>2. Cell(p) \in Cells /\ sequence[Cell(p)] = p + 1
  BY <1>1, CellInRange DEF ClaimsAreCurrent
<1>3. FilledCell(Cell(p)) /\ p + 1 <= enqueue_index
  <2>1. ~FreeCell(Cell(p))
    BY <1>1, <1>2, Neighbours DEF FreeCell
  <2> QED BY <1>2, <2>1 DEF CellsOK, FilledCell
<1>4. \A u \in Threads : /\ u # t => /\ Reading(u)' <=> Reading(u)
                                     /\ pc'[u] = pc[u]
                         /\ Writing(u)' <=> Writing(u)
                         /\ Reading(t)' /\ ~Reading(t)
  BY <1>1 DEF Writing, Reading, TypeOK
<1>5. TypeOK'
  BY <1>1 DEF TypeOK
<1>6. IndicesOK'
  BY <1>1, <1>3, CellCountAssumption DEF IndicesOK, TypeOK
<1>7. ProducersOwn'
  BY <1>1, <1>4 DEF ProducersOwn, Item, TypeOK
<1>8. ConsumersOwn'
  <2>1. enqueue_index <= p + CellCount
    BY <1>1 DEF IndicesOK
  <2> QED BY <1>1, <1>2, <1>4, <2>1 DEF ConsumersOwn, TypeOK
<1>9. ClaimsAreCurrent'
  <2>1. ~MultiConsumer => \A u \in Consumers : pc[u] # "idle" => u = t
    BY <1>1, OneConsumer
  <2>2. \A u \in Consumers : pc'[u] \in {"sequence", "claim"} => u # t /\ pc'[u] = pc[u]
    BY <1>1, <1>4 DEF TypeOK
  <2>3. pos \in [Threads -> Nat] /\ dequeue_index \in Nat
    BY DEF TypeOK
  <2> QED BY <1>1, <2>1, <2>2, <2>3 DEF ClaimsAreCurrent, Single
<1>10. CellsOK'
  <2> SUFFICES ASSUME NEW c \in Cells PROVE FreeCell(c)' \/ FilledCell(c)'
    BY DEF CellsOK, Cells
  <2>1. FreeCell(c) => FreeCell(c)'
    <3> SUFFICES ASSUME FreeCell(c) PROVE FreeCell(c)'
      OBVIOUS
    <3>1. sequence[c] \in Nat /\ Cell(sequence[c]) = c
      BY DEF FreeCell, TypeOK
    <3>2. sequence[c] # p
      BY <1>1, <1>2, <3>1
    <3> QED BY <1>1, <1>4, <3>1, <3>2, CellCountAssumption DEF FreeCell
  <2>2. FilledCell(c) => FilledCell(c)'
    <3> SUFFICES ASSUME FilledCell(c) PROVE FilledCell(c)'
      OBVIOUS
    <3>1. sequence[c] \in Nat
      BY DEF TypeOK
    <3>2. sequence[c] <= p + 1 => \E u \in Consumers : Reading(u)' /\ pos[u] + 1 = sequence[c]
      BY <1>1, <1>4, <3>1 DEF FilledCell
    <3> QED BY <1>1, <3>1, <3>2 DEF FilledCell
  <2> QED BY <2>1, <2>2 DEF CellsOK
<1> QED BY <1>5, <1>6, <1>7, <1>8, <1>9, <1>10

LEMMA ReadDataInv ==
  ASSUME IInv, NEW t \in Consumers, ReadData(t)
  PROVE  IInv'
<1> USE ThreadsAssumption DEF IInv, Threads
<1> DEFINE p == pos[t]
<1>1. /\ pc[t] = "read" /\ p \in Nat
      /\ pc' = [pc EXCEPT ![t] = "release"]
      /\ out' = [out EXCEPT ![t] = data[Cell(p)]]
      /\ UNCHANGED <<MultiProducer, MultiConsumer,
                     enqueue_index, dequeue_index, sequence, data, pos, result, todo,
                     accepted, received>>
  BY DEF ReadData, Goto, TypeOK, shared, variant
<1>2. Cell(p) \in Cells /\ sequence[Cell(p)] = p + 1
  BY <1>1, CellInRange DEF ConsumersOwn, Reading
<1>3. data[Cell(p)] = accepted[p + 1]
  <2>1. ~FreeCell(Cell(p))
    BY <1>1, <1>2, Neighbours DEF FreeCell
  <2> QED BY <1>2, <2>1 DEF CellsOK, FilledCell
<1>4. \A u \in Threads : /\ Writing(u)' <=> Writing(u)
                         /\ Reading(u)' <=> Reading(u)
                         /\ u # t => pc'[u] = pc[u]
  BY <1>1 DEF Writing, Reading, TypeOK
<1>5. TypeOK'
  BY <1>1, <1>2 DEF TypeOK
<1>6. IndicesOK'
  BY <1>1 DEF IndicesOK
<1>7. ProducersOwn'
  BY <1>1, <1>4 DEF ProducersOwn, Item, TypeOK
<1>8. ConsumersOwn'
  BY <1>1, <1>3, <1>4 DEF ConsumersOwn, TypeOK
<1>9. ClaimsAreCurrent'
  BY <1>1, <1>4 DEF ClaimsAreCurrent, Single, TypeOK
<1>10. CellsOK'
  BY <1>1, <1>4 DEF CellsOK, FreeCell, FilledCell
<1> QED BY <1>5, <1>6, <1>7, <1>8, <1>9, <1>10

LEMMA ReleaseInv ==
  ASSUME IInv, NEW t \in Consumers, Release(t)
  PROVE  IInv'
<1> USE ThreadsAssumption DEF IInv, Threads
<1> DEFINE p == pos[t]
<1>1. /\ pc[t] = "release" /\ p \in Nat /\ p + CellCount \in Nat
      /\ pc' = [pc EXCEPT ![t] = "idle"]
      /\ result' = [result EXCEPT ![t] = "Ok"]
      /\ sequence' = [sequence EXCEPT ![Cell(p)] = p + CellCount]
      /\ todo' = [todo EXCEPT ![t] = @ - 1]
      /\ received' = [received EXCEPT ![t] = Append(@, out[t])]
      /\ UNCHANGED <<MultiProducer, MultiConsumer,
                     enqueue_index, dequeue_index, data, pos, out, accepted>>
  BY CellCountAssumption DEF Release, ReturnWith, Goto, TypeOK, variant
<1>2. /\ Cell(p) \in Cells /\ sequence[Cell(p)] = p + 1
      /\ p < dequeue_index /\ enqueue_index <= p + CellCount
      /\ \A u \in Consumers : Reading(u) /\ pos[u] = p => u = t
  BY <1>1, CellInRange DEF ConsumersOwn, Reading
<1>3. \A u \in Threads : /\ u # t => /\ Reading(u)' <=> Reading(u)
                                     /\ pc'[u] = pc[u] /\ todo'[u] = todo[u]
                         /\ Writing(u)' <=> Writing(u)
                         /\ ~Reading(t)' /\ Reading(t)
  BY <1>1 DEF Writing, Reading, TypeOK
<1>4. \A c \in Cells : c # Cell(p) => sequence'[c] = sequence[c]
  BY <1>1 DEF TypeOK
<1>5. TypeOK'
  <2>1. todo[t] \in Nat /\ todo[t] > 0 /\ (todo[t] - 1) \in Nat
    BY <1>1 DEF TypeOK
  <2>2. todo' \in [Threads -> Nat]
    BY <1>1, <2>1 DEF TypeOK
  <2>3. \A u \in Producers : todo'[u] <= MaxItems
    BY <1>1, <2>1 DEF TypeOK
  <2>4. \A u \in Threads : pc'[u] # "idle" => pc[u] # "idle" /\ todo'[u] = todo[u]
    BY <1>1 DEF TypeOK
  <2>5. sequence' \in [Cells -> Nat]
    <3>1. sequence \in [Cells -> Nat]
      BY DEF TypeOK
    <3> HIDE DEF IInv
    <3> QED BY <1>1, <3>1
  <2>6. received' \in [Consumers -> Seq(Values \cup {NoData})]
    <3>1. /\ received \in [Consumers -> Seq(Values \cup {NoData})]
          /\ out[t] \in Values \cup {NoData}
      BY DEF TypeOK
    <3>2. Append(received[t], out[t]) \in Seq(Values \cup {NoData})
      BY <3>1, AppendProperties
    <3> HIDE DEF IInv
    <3> QED BY <1>1, <3>1, <3>2
  <2> QED BY <1>1, <2>2, <2>3, <2>4, <2>5, <2>6 DEF TypeOK
<1>6. IndicesOK'
  BY <1>1 DEF IndicesOK
<1>7. ProducersOwn'
  <2> SUFFICES ASSUME NEW u \in Producers, Writing(u)
               PROVE  sequence'[Cell(pos[u])] = pos[u]
    BY <1>1, <1>3 DEF ProducersOwn, Item
  <2>1. pos[u] \in Nat /\ sequence[Cell(pos[u])] = pos[u]
    BY DEF ProducersOwn, TypeOK
  <2>2. Cell(pos[u]) # Cell(p) /\ Cell(pos[u]) \in Cells
    BY <1>1, <1>2, <2>1, CellInRange, Neighbours
  <2> QED BY <1>4, <2>1, <2>2
<1>8. ConsumersOwn'
  <2> SUFFICES ASSUME NEW u \in Consumers, u # t, Reading(u)
               PROVE  sequence'[Cell(pos[u])] = pos[u] + 1
    BY <1>1, <1>3 DEF ConsumersOwn
  <2>1. pos[u] \in Nat /\ sequence[Cell(pos[u])] = pos[u] + 1 /\ pos[u] # p
    BY <1>2 DEF ConsumersOwn, TypeOK
  <2>2. Cell(pos[u]) # Cell(p) /\ Cell(pos[u]) \in Cells
    BY <1>1, <1>2, <2>1, CellInRange
  <2> QED BY <1>4, <2>1, <2>2
<1>9. ClaimsAreCurrent'
  <2>1. \A u \in Producers : pc[u] = "claim" /\ pos[u] = enqueue_index
           => sequence'[Cell(pos[u])] = pos[u]
    <3> SUFFICES ASSUME NEW u \in Producers, pc[u] = "claim", pos[u] = enqueue_index
                 PROVE  sequence'[Cell(pos[u])] = pos[u]
      OBVIOUS
    <3>1. pos[u] \in Nat /\ sequence[Cell(pos[u])] = pos[u]
      BY DEF ClaimsAreCurrent, TypeOK
    <3>2. Cell(pos[u]) # Cell(p) /\ Cell(pos[u]) \in Cells
      BY <1>1, <1>2, <3>1, CellInRange, Neighbours
    <3> QED BY <1>4, <3>1, <3>2
  <2>2. \A u \in Consumers : pc[u] = "claim" /\ pos[u] = dequeue_index
           => sequence'[Cell(pos[u])] = pos[u] + 1
    <3> SUFFICES ASSUME NEW u \in Consumers, pc[u] = "claim", pos[u] = dequeue_index
                 PROVE  sequence'[Cell(pos[u])] = pos[u] + 1
      OBVIOUS
    <3>1. pos[u] \in Nat /\ sequence[Cell(pos[u])] = pos[u] + 1 /\ pos[u] # p
      BY <1>2 DEF ClaimsAreCurrent, TypeOK
    <3>2. Cell(pos[u]) # Cell(p) /\ Cell(pos[u]) \in Cells
      BY <1>1, <1>2, <3>1, CellInRange
    <3> QED BY <1>4, <3>1, <3>2
  <2>3. \A u \in Threads : pc'[u] \in {"sequence", "claim"} => pc'[u] = pc[u]
    BY <1>1 DEF TypeOK
  <2>4. \A u \in Threads : todo'[u] > 0 => todo[u] > 0
    BY <1>1 DEF TypeOK
  <2> QED BY <1>1, <2>1, <2>2, <2>3, <2>4 DEF ClaimsAreCurrent, Single
<1>10. CellsOK'
  <2> SUFFICES ASSUME NEW c \in Cells PROVE FreeCell(c)' \/ FilledCell(c)'
    BY DEF CellsOK, Cells
  <2>1. CASE c = Cell(p)
    <3>1. sequence'[c] = p + CellCount /\ Cell(p + CellCount) = c
      BY <1>1, <1>2, <2>1, NextRound DEF TypeOK
    <3>2. /\ dequeue_index <= enqueue_index
          /\ dequeue_index \in Nat /\ enqueue_index \in Nat
      BY DEF IndicesOK, TypeOK
    <3>3. /\ dequeue_index <= p + CellCount
          /\ p + CellCount < dequeue_index + CellCount
          /\ ~(p + CellCount < enqueue_index)
      BY <1>1, <1>2, <3>2, CellCountAssumption
    <3> QED BY <1>1, <3>1, <3>3 DEF FreeCell
  <2>2. CASE c # Cell(p)
    <3>1. FreeCell(c) => FreeCell(c)'
      BY <1>1, <1>3, <1>4, <2>2 DEF FreeCell
    <3>2. FilledCell(c) => FilledCell(c)'
      <4>1. Cell(sequence[c] - 1) = c => sequence[c] # p + 1
        BY <1>1, <2>2
      <4> QED BY <1>1, <1>3, <1>4, <2>2, <4>1 DEF FilledCell
    <3> QED BY <3>1, <3>2 DEF CellsOK
  <2> QED BY <2>1, <2>2
<1> QED BY <1>5, <1>6, <1>7, <1>8, <1>9, <1>10

LEMMA StutterInv == ASSUME IInv, UNCHANGED vars PROVE IInv'
<1> USE DEF IInv, vars, shared, variant
<1>1. TypeOK' /\ IndicesOK'
  BY DEF TypeOK, IndicesOK
<1>2. ProducersOwn' /\ ConsumersOwn' /\ ClaimsAreCurrent'
  BY DEF ProducersOwn, ConsumersOwn, ClaimsAreCurrent, Single, Writing, Reading, Item
<1>3. CellsOK'
  BY DEF CellsOK, FreeCell, FilledCell, Writing, Reading
<1> QED BY <1>1, <1>2, <1>3

LEMMA StepInv == IInv /\ [Next]_vars => IInv'
<1> SUFFICES ASSUME IInv, [Next]_vars PROVE IInv'
  OBVIOUS
<1>1. CASE UNCHANGED vars
  BY <1>1, StutterInv
<1>2. ASSUME NEW t \in Producers, Produce(t) PROVE IInv'
  BY <1>2, LoadEnqueueIndexInv, CheckFreeInv, ClaimEnqueueInv, EnqueueCasFailsInv,
     WriteDataInv, PublishInv DEF Produce
<1>3. ASSUME NEW t \in Consumers, Consume(t) PROVE IInv'
  BY <1>3, LoadDequeueIndexInv, CheckFilledInv, ClaimDequeueInv, DequeueCasFailsInv,
     ReadDataInv, ReleaseInv DEF Consume
<1> QED BY <1>1, <1>2, <1>3 DEF Next

\* The inductive invariant holds in every reachable state: try_enqueue and
\* try_dequeue keep the indices, the sequence numbers and the owners of the
\* cells consistent for every ring size and every number of threads.
THEOREM InductiveInvariant == Spec => []IInv
<1>1. Init => IInv
  BY InitInv
<1>2. IInv /\ [Next]_vars => IInv'
  BY StepInv
<1> QED BY <1>1, <1>2, PTL DEF Spec

-----------------------------------------------------------------------------
(* What the invariant is for *)

\* No two threads are ever between claim and publication on one cell, so the
\* plain accesses to cell->data do not race.
THEOREM NoDataRace == Spec => []CellExclusive
<1>1. IInv => CellExclusive
  <2> SUFFICES ASSUME IInv, NEW t \in Threads, NEW u \in Threads,
                      Writing(t) \/ Reading(t), Writing(u) \/ Reading(u),
                      Cell(pos[t]) = Cell(pos[u])
               PROVE  t = u
    BY DEF CellExclusive
  <2> USE DEF IInv, Threads
  <2>1. pos[t] \in Nat /\ pos[u] \in Nat
    BY DEF TypeOK
  <2>2. \A x \in Threads : /\ Writing(x) => x \in Producers
                           /\ Reading(x) => x \in Consumers
    BY DEF TypeOK, Writing, Reading
  <2>3. CASE Writing(t) /\ Writing(u)
    BY <2>2, <2>3 DEF ProducersOwn
  <2>4. CASE Reading(t) /\ Reading(u)
    BY <2>1, <2>2, <2>4 DEF ConsumersOwn
  <2>5. CASE Writing(t) /\ Reading(u)
    <3>1. pos[t] = pos[u] + 1
      BY <2>2, <2>5 DEF ProducersOwn, ConsumersOwn
    <3> QED BY <2>1, <3>1, Neighbours
  <2>6. CASE Reading(t) /\ Writing(u)
    <3>1. pos[u] = pos[t] + 1
      BY <2>2, <2>6 DEF ProducersOwn, ConsumersOwn
    <3> QED BY <2>1, <3>1, Neighbours
  <2> QED BY <2>3, <2>4, <2>5, <2>6
<1> QED BY <1>1, InductiveInvariant, PTL

\* A consumer that claimed position p returns the payload accepted at p.
THEOREM DeliveryInOrder == Spec => []FifoDelivery
<1>1. IInv => FifoDelivery
  <2> SUFFICES ASSUME IInv, NEW c \in Consumers, pc[c] = "release"
               PROVE  pos[c] + 1 \in DOMAIN accepted /\ out[c] = accepted[pos[c] + 1]
    BY DEF FifoDelivery
  <2> USE DEF IInv
  <2>1. /\ pos[c] \in Nat /\ enqueue_index \in Nat /\ dequeue_index \in Nat
        /\ accepted \in Seq(Values)
    BY DEF TypeOK, Threads
  <2>2. pos[c] < dequeue_index /\ out[c] = accepted[pos[c] + 1]
    BY DEF ConsumersOwn, Reading
  <2>3. dequeue_index <= enqueue_index /\ Len(accepted) = enqueue_index
    BY DEF IndicesOK
  <2>4. DOMAIN accepted = 1 .. enqueue_index
    BY <2>1, <2>3
  <2> QED BY <2>1, <2>2, <2>3, <2>4
<1> QED BY <1>1, InductiveInvariant, PTL

\* A refusal has a reason at the instant the sequence number is read, even
\* though the index it is compared with may be out of date by then.
THEOREM RefusalsHonest == Spec => HonestRefusals
<1> DEFINE Full(t) == \/ enqueue_index - dequeue_index = CellCount
                      \/ \E c \in Consumers : Reading(c)
           Empty(t) == \/ enqueue_index = dequeue_index
                       \/ \E p \in Producers : Writing(p)
<1>1. ASSUME IInv, NEW t \in Producers, pc[t] = "sequence",
             sequence[Cell(pos[t])] < pos[t]
      PROVE  Full(t)
  <2> USE DEF IInv, Threads
  <2> DEFINE c == Cell(pos[t])
             s == sequence[c]
  <2>1. /\ pos[t] \in Nat /\ c \in Cells /\ s \in Nat
        /\ enqueue_index \in Nat /\ dequeue_index \in Nat
    BY <1>1, CellInRange DEF TypeOK
  <2>2. /\ s < pos[t] /\ pos[t] <= enqueue_index
        /\ enqueue_index <= dequeue_index + CellCount
    BY <1>1 DEF ClaimsAreCurrent, IndicesOK
  <2>3. CASE FreeCell(c)
    <3>1. Cell(s) = Cell(pos[t]) /\ dequeue_index <= s
      BY <2>3 DEF FreeCell
    <3> HIDE DEF s
    <3>2. s + CellCount <= pos[t]
      BY <2>1, <2>2, <3>1, SharedCell
    <3> QED BY <2>1, <2>2, <3>1, <3>2, CellCountAssumption
  <2>4. CASE FilledCell(c)
    <3>1. /\ 0 < s /\ Cell(s - 1) = Cell(pos[t])
          /\ s <= dequeue_index => \E u \in Consumers : Reading(u)
      BY <2>4 DEF FilledCell
    <3> HIDE DEF s
    <3>2. s - 1 + CellCount <= pos[t]
      BY <2>1, <2>2, <3>1, SharedCell
    <3> QED BY <2>1, <2>2, <3>1, <3>2, CellCountAssumption
  <2>5. FreeCell(c) \/ FilledCell(c)
    BY <1>1, <2>1 DEF CellsOK
  <2> QED BY <2>3, <2>4, <2>5
<1>2. ASSUME IInv, NEW t \in Consumers, pc[t] = "sequence",
             sequence[Cell(pos[t])] < pos[t] + 1
      PROVE  Empty(t)
  <2> USE DEF IInv, Threads
  <2> DEFINE c == Cell(pos[t])
             s == sequence[c]
  <2>1. /\ pos[t] \in Nat /\ c \in Cells /\ s \in Nat
        /\ enqueue_index \in Nat /\ dequeue_index \in Nat
    BY <1>2, CellInRange DEF TypeOK
  <2>2. /\ s <= pos[t] /\ pos[t] <= dequeue_index /\ dequeue_index <= enqueue_index
        /\ enqueue_index <= dequeue_index + CellCount
    BY <1>2, <2>1 DEF ClaimsAreCurrent, IndicesOK
  <2>3. CASE FreeCell(c)
    <3>1. /\ dequeue_index <= s
          /\ s < enqueue_index => \E u \in Producers : Writing(u)
      BY <2>3 DEF FreeCell
    <3> HIDE DEF s
    <3> QED BY <2>1, <2>2, <3>1
  <2>4. CASE FilledCell(c)
    <3>1. /\ 0 < s /\ Cell(s - 1) = Cell(pos[t]) /\ s <= dequeue_index
          /\ \E u \in Consumers : Reading(u) /\ pos[u] + 1 = s
      BY <2>1, <2>2, <2>4 DEF FilledCell
    <3> PICK u \in Consumers : Reading(u) /\ pos[u] + 1 = s
      BY <3>1
    <3>2. pos[u] \in Nat /\ enqueue_index <= pos[u] + CellCount
      BY <1>2 DEF ConsumersOwn, TypeOK
    <3> HIDE DEF s
    <3>3. s - 1 + CellCount <= pos[t]
      BY <2>1, <2>2, <3>1, SharedCell
    <3> QED BY <2>1, <2>2, <3>1, <3>2, <3>3, CellCountAssumption
  <2>5. FreeCell(c) \/ FilledCell(c)
    BY <1>2, <2>1 DEF CellsOK
  <2> QED BY <2>3, <2>4, <2>5
<1>3. ASSUME IInv, Next, NEW t \in Threads PROVE RefusalHasReason(t)
  <2> SUFFICES ASSUME pc[t] = "sequence", pc'[t] = "idle"
               PROVE  /\ result'[t] = "Full" => Full(t)
                      /\ result'[t] = "Empty" => Empty(t)
    BY DEF RefusalHasReason
  <2> USE ThreadsAssumption DEF Threads
  <2>1. DOMAIN pc = Threads /\ DOMAIN result = Threads
    BY <1>3 DEF IInv, TypeOK
  <2>2. \/ t \in Producers /\ CheckFree(t)
        \/ t \in Consumers /\ CheckFilled(t)
    BY <1>3, <2>1 DEF Next, Produce, Consume, LoadEnqueueIndex, ClaimEnqueue,
       EnqueueCasFails, WriteData, Publish, CheckFree, LoadDequeueIndex, ClaimDequeue,
       DequeueCasFails, ReadData, Release, CheckFilled, ReturnWith, Goto
  <2>3. pos[t] \in Nat /\ sequence[Cell(pos[t])] \in Nat
    BY <1>3, CellInRange DEF IInv, TypeOK
  <2>4. CASE t \in Producers /\ CheckFree(t)
    <3>1. \/ sequence[Cell(pos[t])] < pos[t] /\ result'[t] = "Full"
          \/ result'[t] = "Contention"
      BY <2>1, <2>3, <2>4 DEF CheckFree, ReturnWith, Goto
    <3> QED BY <1>1, <1>3, <2>4, <3>1
  <2>5. CASE t \in Consumers /\ CheckFilled(t)
    <3>1. \/ sequence[Cell(pos[t])] < pos[t] + 1 /\ result'[t] = "Empty"
          \/ result'[t] = "Contention"
      BY <2>1, <2>3, <2>5 DEF CheckFilled, ReturnWith, Goto
    <3> QED BY <1>2, <1>3, <2>5, <3>1
  <2> QED BY <2>2, <2>4, <2>5
<1>4. IInv /\ [Next]_vars => [\A t \in Threads : RefusalHasReason(t)]_vars
  BY <1>3
<1> QED BY <1>4, InductiveInvariant, PTL DEF Spec, HonestRefusals
-----------------------------------------------------------------------------
(* The queue implements BoundedFifo *)

Waiting == SubSeq(accepted, dequeue_index + 1, enqueue_index)

\* Accepting a payload appends it to the waiting ones.
LEMMA WaitingAppend ==
  ASSUME NEW S, NEW s \in Seq(S), NEW v \in S, NEW m \in 1 .. Len(s) + 1
  PROVE  SubSeq(Append(s, v), m, Len(s) + 1) = Append(SubSeq(s, m, Len(s)), v)
<1> DEFINE n == Len(s)
           a == Append(s, v)
           L == SubSeq(a, m, n + 1)
           R == Append(SubSeq(s, m, n), v)
<1>1. n \in Nat /\ m \in Nat /\ m >= 1 /\ m <= n + 1
  OBVIOUS
<1>2. a \in Seq(S) /\ Len(a) = n + 1 /\ a[n + 1] = v /\ \A i \in 1 .. n : a[i] = s[i]
  BY AppendProperties
<1>3. \A i \in 1 .. n : s[i] \in S
  OBVIOUS
<1>4. \A i \in 1 .. n + 1 : a[i] \in S
  BY <1>2
<1> HIDE DEF n, a
<1>5. /\ SubSeq(s, m, n) \in Seq(S) /\ Len(SubSeq(s, m, n)) = n - m + 1
      /\ \A i \in 1 .. n - m + 1 : SubSeq(s, m, n)[i] = s[m + i - 1]
  BY <1>1, <1>3, SubSeqProperties
<1>6. /\ L \in Seq(S) /\ Len(L) = n - m + 2
      /\ \A i \in 1 .. n - m + 2 : L[i] = a[m + i - 1]
  BY <1>1, <1>4, SubSeqProperties
<1>7. /\ R \in Seq(S) /\ Len(R) = n - m + 2 /\ R[n - m + 2] = v
      /\ \A i \in 1 .. n - m + 1 : R[i] = SubSeq(s, m, n)[i]
  BY <1>1, <1>5, AppendProperties
<1> HIDE DEF L, R
<1>8. \A i \in 1 .. n - m + 2 : L[i] = R[i]
  <2> TAKE i \in 1 .. n - m + 2
  <2>1. CASE i = n - m + 2
    BY <1>1, <1>2, <1>6, <1>7, <2>1
  <2>2. CASE i # n - m + 2
    <3>1. i \in 1 .. n - m + 1 /\ m + i - 1 \in 1 .. n
      BY <1>1, <2>2
    <3> QED BY <1>2, <1>5, <1>6, <1>7, <3>1
  <2> QED BY <2>1, <2>2
<1>9. L = R
  BY <1>6, <1>7, <1>8, SeqEqual
<1> QED BY <1>9 DEF L, R, a, n

LEMMA FifoInit == Init => Fifo!Init
<1> SUFFICES ASSUME Init PROVE Fifo!Init
  OBVIOUS
<1>1. Waiting = << >>
  BY SubSeqEmpty DEF Init, Waiting
<1>2. \A c \in Consumers : Held(c) = NoData
  BY DEF Init, Held, Threads
<1> QED BY <1>1, <1>2 DEF Init, Fifo!Init, Waiting

\* A step that accepts nothing, claims no payload and leaves every consumer
\* with what it holds is invisible to the callers.
LEMMA FifoStutter ==
  ASSUME UNCHANGED <<accepted, enqueue_index, dequeue_index, received>>,
         \A c \in Consumers : Held(c)' = Held(c)
  PROVE  UNCHANGED Fifo!fifoVars
<1>1. Waiting' = Waiting
  BY DEF Waiting
<1>2. [c \in Consumers |-> Held(c)]' = [c \in Consumers |-> Held(c)]
  OBVIOUS
<1> QED BY <1>1, <1>2 DEF Waiting, Fifo!fifoVars

LEMMA ProduceImplements ==
  ASSUME IInv, NEW t \in Producers, Produce(t)
  PROVE  [Fifo!Next]_(Fifo!fifoVars)
<1> USE ThreadsAssumption DEF IInv, Threads
<1> DEFINE Idle == /\ UNCHANGED <<accepted, enqueue_index, dequeue_index, received>>
                   /\ \A c \in Consumers : Held(c)' = Held(c)
<1>1. DOMAIN pc = Threads /\ \A c \in Consumers : c # t
  BY DEF TypeOK
<1>2. ASSUME UNCHANGED <<shared, out, accepted, received>>,
             \A c \in Consumers : pc'[c] = pc[c] /\ pos'[c] = pos[c]
      PROVE  Idle
  BY <1>2 DEF Held, shared
<1>3. CASE LoadEnqueueIndex(t)
  BY <1>1, <1>2, <1>3, FifoStutter DEF LoadEnqueueIndex, Goto, TypeOK
<1>4. CASE CheckFree(t)
  BY <1>1, <1>2, <1>4, FifoStutter DEF CheckFree, ReturnWith, Goto
<1>5. CASE EnqueueCasFails(t)
  BY <1>1, <1>2, <1>5, FifoStutter DEF EnqueueCasFails, ReturnWith, Goto
<1>6. CASE ClaimEnqueue(t)
  <2>1. /\ pc[t] = "claim" /\ pos[t] = enqueue_index
        /\ enqueue_index' = enqueue_index + 1
        /\ accepted' = Append(accepted, Item(t))
        /\ UNCHANGED <<dequeue_index, data, pos, out, received>>
    BY <1>6 DEF ClaimEnqueue, ClaimsAreCurrent, TypeOK
  <2>2. Item(t) \in Values
    <3>1. todo[t] \in Nat /\ todo[t] <= MaxItems /\ todo[t] > 0
      BY <2>1 DEF TypeOK
    <3> QED BY <3>1 DEF Item, Values
  <2>3. /\ accepted \in Seq(Values) /\ Len(accepted) = enqueue_index
        /\ enqueue_index \in Nat /\ dequeue_index \in Nat
        /\ dequeue_index <= enqueue_index
        /\ enqueue_index' <= dequeue_index + CellCount
    BY <1>6, <2>1, ClaimEnqueueInv DEF TypeOK, IndicesOK
  <2>4. dequeue_index + 1 \in 1 .. Len(accepted) + 1
    BY <2>3
  <2>5. Waiting' = Append(Waiting, Item(t))
    BY <2>1, <2>2, <2>3, <2>4, WaitingAppend DEF Waiting
  <2>6. \A i \in dequeue_index + 1 .. enqueue_index : accepted[i] \in Values
    BY <2>3
  <2>7. Len(Waiting) = enqueue_index - dequeue_index
    BY <2>3, <2>6, SubSeqProperties DEF Waiting
  <2>8. Len(Waiting) < CellCount
    BY <2>1, <2>3, <2>7, CellCountAssumption
  <2>9. \A c \in Consumers : Held(c)' = Held(c)
    BY <1>1, <1>6, <2>1 DEF ClaimEnqueue, Goto, Held
  <2>10. [c \in Consumers |-> Held(c)]' = [c \in Consumers |-> Held(c)]
    BY <2>9
  <2>11. Fifo!Put
    BY <2>1, <2>2, <2>5, <2>8, <2>10 DEF Fifo!Put, Waiting
  <2> QED BY <2>11 DEF Fifo!Next
<1>7. CASE WriteData(t)
  <2>1. \A c \in Consumers : Held(c)' = Held(c)
    <3> SUFFICES ASSUME NEW c \in Consumers, pc[c] = "read"
                 PROVE  data'[Cell(pos[c])] = data[Cell(pos[c])]
      BY <1>1, <1>7 DEF WriteData, Goto, Held
    <3>1. pos[c] \in Nat /\ pos[t] \in Nat /\ DOMAIN data = Cells
      BY DEF TypeOK
    <3>2. sequence[Cell(pos[c])] = pos[c] + 1 /\ sequence[Cell(pos[t])] = pos[t]
      BY <1>7 DEF WriteData, ConsumersOwn, ProducersOwn, Reading, Writing
    <3>3. Cell(pos[c]) # Cell(pos[t]) /\ Cell(pos[c]) \in Cells
      BY <3>1, <3>2, CellInRange, Neighbours
    <3> QED BY <1>7, <3>1, <3>3 DEF WriteData
  <2> QED BY <1>7, <2>1, FifoStutter DEF WriteData
<1>8. CASE Publish(t)
  <2>1. \A c \in Consumers : Held(c)' = Held(c)
    BY <1>1, <1>8 DEF Publish, ReturnWith, Goto, Held
  <2> QED BY <1>8, <2>1, FifoStutter DEF Publish
<1> QED BY <1>3, <1>4, <1>5, <1>6, <1>7, <1>8 DEF Produce

LEMMA ConsumeImplements ==
  ASSUME IInv, NEW t \in Consumers, Consume(t)
  PROVE  [Fifo!Next]_(Fifo!fifoVars)
<1> USE ThreadsAssumption DEF IInv, Threads
<1>1. /\ DOMAIN pc = Threads /\ DOMAIN pos = Threads /\ DOMAIN out = Consumers
      /\ pos[t] \in Nat
  BY DEF TypeOK
<1>2. ASSUME pc[t] \in {"idle", "sequence", "claim"}, pc'[t] \in {"idle", "sequence", "claim"},
             UNCHANGED <<shared, out, accepted, received>>,
             \A c \in Consumers \ {t} : pc'[c] = pc[c] /\ pos'[c] = pos[c]
      PROVE  UNCHANGED Fifo!fifoVars
  <2>1. \A c \in Consumers : Held(c)' = Held(c)
    BY <1>2 DEF Held, shared
  <2> QED BY <1>2, <2>1, FifoStutter DEF shared
<1>3. CASE LoadDequeueIndex(t)
  BY <1>1, <1>2, <1>3 DEF LoadDequeueIndex, Goto
<1>4. CASE CheckFilled(t)
  BY <1>1, <1>2, <1>4 DEF CheckFilled, ReturnWith, Goto
<1>5. CASE DequeueCasFails(t)
  BY <1>1, <1>2, <1>5 DEF DequeueCasFails, ReturnWith, Goto
<1>6. CASE ClaimDequeue(t)
  <2> DEFINE p == pos[t]
  <2>1. /\ pc[t] = "claim" /\ p = dequeue_index /\ dequeue_index' = dequeue_index + 1
        /\ pc' = [pc EXCEPT ![t] = "read"]
        /\ UNCHANGED <<accepted, enqueue_index, data, pos, out, received>>
    BY <1>6 DEF ClaimDequeue, Goto, ClaimsAreCurrent, TypeOK
  <2>2. /\ accepted \in Seq(Values) /\ Len(accepted) = enqueue_index
        /\ enqueue_index \in Nat /\ dequeue_index \in Nat
    BY DEF TypeOK, IndicesOK
  <2>3. sequence[Cell(p)] = p + 1 /\ Cell(p) \in Cells
    BY <1>1, <2>1, CellInRange DEF ClaimsAreCurrent
  <2>4. ~FreeCell(Cell(p))
    BY <1>1, <2>3, Neighbours DEF FreeCell
  <2>5. p + 1 <= enqueue_index /\ data[Cell(p)] = accepted[p + 1]
    BY <2>3, <2>4 DEF CellsOK, FilledCell
  <2>6. p + 1 \in 1 .. Len(accepted) /\ enqueue_index \in (p + 1) .. Len(accepted)
    BY <1>1, <2>2, <2>5
  <2>7. Head(Waiting) = accepted[p + 1] /\ Tail(Waiting) = Waiting'
    <3> HIDE DEF p
    <3>1. Head(SubSeq(accepted, p + 1, enqueue_index)) = accepted[p + 1]
      BY <2>2, <2>6, HeadTailOfSubSeq
    <3>2. /\ Tail(SubSeq(accepted, p + 1, enqueue_index))
               = SubSeq(accepted, (p + 1) + 1, enqueue_index)
      BY <2>2, <2>6, HeadTailOfSubSeq
    <3> QED BY <2>1, <3>1, <3>2 DEF Waiting
  <2>8. Waiting # << >>
    <3>1. \A i \in p + 1 .. enqueue_index : accepted[i] \in Values
      BY <1>1, <2>2
    <3>2. Len(Waiting) = enqueue_index - p /\ Len(Waiting) > 0
      BY <1>1, <2>1, <2>2, <2>5, <3>1, SubSeqProperties DEF Waiting
    <3> QED BY <3>2
  <2>9. /\ Held(t) = NoData /\ Held(t)' = Head(Waiting)
        /\ \A c \in Consumers : c # t => Held(c)' = Held(c)
    BY <1>1, <2>1, <2>5, <2>7 DEF Held
  <2>10. [c \in Consumers |-> Held(c)]'
           = [[c \in Consumers |-> Held(c)] EXCEPT ![t] = Head(Waiting)]
    BY <2>9
  <2>11. Fifo!Take(t)
    BY <2>1, <2>7, <2>8, <2>9, <2>10 DEF Fifo!Take, Waiting
  <2> QED BY <2>11 DEF Fifo!Next
<1>7. CASE ReadData(t)
  <2>1. /\ pc[t] = "read" /\ pc' = [pc EXCEPT ![t] = "release"]
        /\ out' = [out EXCEPT ![t] = data[Cell(pos[t])]]
        /\ UNCHANGED <<shared, pos, accepted, received>>
    BY <1>7 DEF ReadData, Goto
  <2>2. \A c \in Consumers : Held(c)' = Held(c)
    BY <1>1, <2>1 DEF Held, shared
  <2> QED BY <2>1, <2>2, FifoStutter DEF shared
<1>8. CASE Release(t)
  <2>1. /\ pc[t] = "release" /\ pc' = [pc EXCEPT ![t] = "idle"]
        /\ received' = [received EXCEPT ![t] = Append(@, out[t])]
        /\ UNCHANGED <<accepted, enqueue_index, dequeue_index, data, pos, out>>
    BY <1>8 DEF Release, ReturnWith, Goto
  <2>2. out[t] # NoData
    <3>1. /\ out[t] = accepted[pos[t] + 1] /\ pos[t] < dequeue_index
          /\ accepted \in Seq(Values) /\ Len(accepted) = enqueue_index
          /\ dequeue_index <= enqueue_index
          /\ enqueue_index \in Nat /\ dequeue_index \in Nat
      BY <2>1 DEF ConsumersOwn, Reading, TypeOK, IndicesOK
    <3>2. pos[t] + 1 \in 1 .. Len(accepted)
      BY <1>1, <3>1
    <3> QED BY <3>1, <3>2, NoDataAssumption
  <2>3. /\ Held(t) = out[t] /\ Held(t)' = NoData
        /\ \A c \in Consumers : c # t => Held(c)' = Held(c)
    BY <1>1, <2>1 DEF Held
  <2>4. [c \in Consumers |-> Held(c)]'
          = [[c \in Consumers |-> Held(c)] EXCEPT ![t] = NoData]
    BY <2>3
  <2>5. Waiting' = Waiting
    BY <2>1 DEF Waiting
  <2>6. Fifo!Return(t)
    BY <2>1, <2>2, <2>3, <2>4, <2>5 DEF Fifo!Return, Waiting
  <2> QED BY <2>6 DEF Fifo!Next
<1> QED BY <1>3, <1>4, <1>5, <1>6, <1>7, <1>8 DEF Consume

\* Seen from its callers, the ring is a bounded FIFO queue: whatever the
\* interleaving, every step is one operation of BoundedFifo or invisible.
THEOREM QueueIsFifo == Spec => ImplementsFifo
<1>1. Init => Fifo!Init
  BY FifoInit
<1>2. IInv /\ [Next]_vars => [Fifo!Next]_(Fifo!fifoVars)
  <2> SUFFICES ASSUME IInv, [Next]_vars PROVE [Fifo!Next]_(Fifo!fifoVars)
    OBVIOUS
  <2>1. CASE UNCHANGED vars
    <3>1. \A c \in Consumers : Held(c)' = Held(c)
      BY <2>1 DEF vars, shared, Held
    <3> QED BY <2>1, <3>1, FifoStutter DEF vars, shared
  <2> QED BY <2>1, ProduceImplements, ConsumeImplements DEF Next
<1> QED BY <1>1, <1>2, InductiveInvariant, PTL DEF Spec, ImplementsFifo, Fifo!Spec
=============================================================================
