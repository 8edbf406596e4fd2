--------------------------- MODULE NodeQueueProofs ---------------------------
(***************************************************************************)
(* What NodeQueue promises, for every number of threads and of calls, node *)
(* size and threshold.                                                     *)
(***************************************************************************)
EXTENDS NodeQueue, TLAPS

(* Quotients: the node of an index is the index divided by N. *)
LEMMA Division ==
  ASSUME NEW n \in Nat \ {0}, NEW x \in Int
  PROVE  /\ x % n \in 0 .. n - 1
         /\ x \div n \in Int
         /\ x = n * (x \div n) + (x % n)
OBVIOUS

\* Quotients keep the order, and a quotient is where the multiples tell.
LEMMA QuotientsOrdered ==
  ASSUME NEW n \in Nat \ {0}, NEW x \in Int, NEW y \in Int, x <= y
  PROVE  x \div n <= y \div n
<1> DEFINE q == x \div n
           r == x % n
           p == y \div n
           s == y % n
<1>1. q \in Int /\ r \in 0 .. n - 1 /\ x = n * q + r /\ p \in Int /\ s \in 0 .. n - 1 /\ y = n * p + s
  BY Division
<1> HIDE DEF q, r, p, s
<1>2. q <= p
  <2> SUFFICES ASSUME p < q PROVE FALSE
    BY <1>1
  <2>1. q - p \in Nat \ {0} /\ n * (q - p) = x - y + s - r
    BY <1>1
  <2>2. n * (q - p) >= n
    BY <2>1
  <2> QED
    BY <1>1, <2>1, <2>2
<1> QED
  BY <1>2 DEF q, p

LEMMA QuotientAtMost ==
  ASSUME NEW n \in Nat \ {0}, NEW x \in Nat, NEW m \in Nat
  PROVE  /\ x \div n \in Nat
         /\ x \div n <= m <=> x < n * (m + 1)
<1> DEFINE q == x \div n
           r == x % n
<1>1. q \in Int /\ r \in 0 .. n - 1 /\ x = n * q + r
  BY Division
<1> HIDE DEF q, r
<1>2. ASSUME NEW a \in Int, NEW b \in Int, a < b
      PROVE  n * a + n <= n * b
  <2>1. b - a \in Nat \ {0} /\ n * (b - a) = n * b - n * a
    BY <1>2
  <2>2. n * (b - a) >= n
    BY <2>1
  <2> QED
    BY <2>1, <2>2
<1>3. q \in Nat
  <2> SUFFICES ASSUME q < 0 PROVE FALSE
    BY <1>1
  <2>1. n * q + n <= n * 0
    BY <1>1, <1>2
  <2> QED
    BY <1>1, <2>1
<1>4. q <= m => x < n * (m + 1)
  <2> SUFFICES ASSUME q < m + 1 PROVE x < n * (m + 1)
    BY <1>1
  <2>1. n * q + n <= n * (m + 1)
    BY <1>1, <1>2
  <2>2. n * (m + 1) \in Int /\ n * q \in Int
    BY <1>1
  <2> QED
    BY <1>1, <2>1, <2>2
<1>5. m < q => ~(x < n * (m + 1))
  <2> SUFFICES ASSUME m < q PROVE ~(x < n * (m + 1))
    OBVIOUS
  <2>1. n * m + n <= n * q
    BY <1>1, <1>2
  <2>2. n * (m + 1) = n * m + n /\ n * m \in Int /\ n * q \in Int
    BY <1>1
  <2> QED
    BY <1>1, <2>1, <2>2
<1> QED
  BY <1>1, <1>3, <1>4, <1>5 DEF q


Reclaimers == [init_index : Int, min_node : Int, scanned : SUBSET Threads, victim : Int]

Contents == {NULL} \cup {Value(i) : i \in Nat} \cup {Word(t) : t \in Dequeuers}

\* The cells of the nodes up to n.
CellsUpTo(n) == 0 .. (n + 1) * N - 1

Places == {"call", "find", "exchange", "release", "wake", "look", "offer", "wait", "woken",
           "load_id", "lock_id", "scan", "free"}

TypeInv ==
  /\ pc \in [Threads -> Places] /\ todo \in [Threads -> Int]
  /\ put_index \in Nat /\ pop_index \in Nat
  /\ last \in Nat /\ freed \subseteq Int /\ init_node \in Int /\ init_id \in Int
  /\ cells \in [CellsUpTo(last) -> Contents]
  /\ node \in [Threads -> Nat] /\ index \in [Threads -> Nat] /\ curr \in [Threads -> Int]
  /\ cv \in [Threads -> Contents]
  /\ futex_addr \in [Dequeuers -> Int]
  /\ reclaimer \in [Dequeuers -> Reclaimers]

AtCell == {"exchange", "look", "offer", "wait", "woken"}

\* A thread never gets ahead of its index, so that a cell it touches is in the
\* node of its handle; and nobody's handle is before init_node.
InHand ==
  \A t \in Threads :
    /\ index[t] <= IF t \in Enqueuers THEN put_index ELSE pop_index
    /\ init_node <= node[t] /\ node[t] <= last
    /\ node[t] <= Node(index[t])
    /\ pc[t] = "find" => node[t] <= curr[t] /\ curr[t] < Node(index[t]) /\ curr[t] <= last
    /\ pc[t] \in AtCell => node[t] = Node(index[t])
    /\ pc[t] = "free" => t \in Dequeuers

\* The nodes that t, in the midst of freeing, has still to free.
ToFree(t) == reclaimer[t].victim .. reclaimer[t].min_node - 1

\* What a dequeuer knows that has init_id, or has moved init_node and frees:
\* handles only move on, so that what it has found to be the least of those it
\* looked at is still no greater than they are.
Knows(t) ==
  LET r == reclaimer[t]
  IN  /\ pc[t] = "lock_id" => r.init_index \in Nat /\ r.scanned = {}
      /\ pc[t] = "scan" =>
           /\ init_id = -1 /\ r.init_index = init_node /\ r.victim = init_node
           /\ \A h \in r.scanned : r.min_node <= node[h]
      /\ pc[t] = "free" => r.victim < r.min_node /\ r.min_node <= init_node

\* One dequeuer at a time has init_id, and no two of them free the same node.
Apart(t, u) ==
  /\ ~(pc[t] = "scan" /\ pc[u] = "scan")
  /\ pc[t] = "free" /\ pc[u] = "free" => ToFree(t) \cap ToFree(u) = {}

\* A node that was freed is not in the chain any more, and not freed again.
Gone(f) == f < init_node /\ \A t \in Dequeuers : pc[t] = "free" => f \notin ToFree(t)

Reclaiming ==
  /\ init_id \in {-1, init_node}
  /\ \A t \in Dequeuers : Knows(t)
  /\ \A t, u \in Dequeuers : t # u => Apart(t, u)
  /\ \A f \in freed : Gone(f)

\* The call of mpmc_enqueue with this index has been at its cell.
ToPut == {"find", "exchange"}
Filled(i) == i < put_index /\ \A t \in Enqueuers : pc[t] \in ToPut => index[t] # i

\* The call of mpmc_dequeue with this index has left its word in the cell.
ToOffer == {"find", "look", "offer"}
Waits == {"wait", "woken"}
Offered(i) == i < pop_index /\ \A t \in Dequeuers : pc[t] \in ToOffer => index[t] # i

\* The index of a call is its own.
OwnIndices ==
  /\ \A t \in Enqueuers : pc[t] \in ToPut => index[t] < put_index
  /\ \A t \in Dequeuers : pc[t] \in ToOffer \cup Waits => index[t] < pop_index
  /\ \A t, u \in Enqueuers :
       t # u /\ pc[t] \in ToPut /\ pc[u] \in ToPut => index[t] # index[u]
  /\ \A t, u \in Dequeuers :
       t # u /\ pc[t] \in ToOffer \cup Waits /\ pc[u] \in ToOffer \cup Waits => index[t] # index[u]

\* A cell holds nothing, the value of its index, or the word of the dequeuer of
\* its index: of one that waits, or of one that found the value there before.
CellsRight ==
  \A i \in CellsUpTo(last) :
    /\ \A j \in Nat : cells[i] = Value(j) => j = i /\ Filled(i)
    /\ \A t \in Dequeuers : cells[i] = Word(t) =>
         /\ Offered(i)
         /\ Filled(i) \/ (pc[t] \in Waits /\ index[t] = i /\ futex_addr[t] = 1)

\* A dequeuer waits until the value is in its cell, and no enqueuer sets its
\* word to zero on account of an earlier wait.
Waiting ==
  /\ \A t \in Dequeuers : pc[t] \in Waits =>
       \/ cells[index[t]] = Word(t) /\ futex_addr[t] = 1
       \/ cells[index[t]] = Value(index[t])
  /\ \A t \in Enqueuers : pc[t] = "release" =>
       \E d \in Dequeuers : /\ cv[t] = Word(d)
                            /\ pc[d] \in Waits /\ futex_addr[d] = 1
                            /\ cells[index[d]] = Value(index[d])
  /\ \A t \in Enqueuers : pc[t] = "wake" => \E d \in Dequeuers : cv[t] = Word(d)
  /\ \A t, u \in Enqueuers : t # u /\ pc[t] = "release" /\ pc[u] = "release" => cv[t] # cv[u]

MemoryInv == TypeInv /\ InHand /\ Reclaiming
DeliveryInv == OwnIndices /\ CellsRight /\ Waiting /\ DeliveredInOrder

\* The inductive invariant.
IInv == MemoryInv /\ DeliveryInv
-----------------------------------------------------------------------------
(* Nodes and the cells in them *)

LEMMA Nodes ==
  ASSUME ParametersOK, NEW i \in Nat, NEW j \in Nat, NEW n \in Nat
  PROVE  /\ Node(i) \in Nat
         /\ i <= j => Node(i) <= Node(j)
         /\ Node(i) <= n <=> i \in CellsUpTo(n)
<1>1. N \in Nat \ {0}
  BY DEF ParametersOK
<1>2. Node(i) \in Nat /\ (Node(i) <= n <=> i < N * (n + 1))
  BY <1>1, QuotientAtMost DEF Node
<1>3. i <= j => Node(i) <= Node(j)
  BY <1>1, QuotientsOrdered DEF Node
<1>4. i < N * (n + 1) <=> i \in CellsUpTo(n)
  <2>1. N * (n + 1) = (n + 1) * N /\ (n + 1) * N \in Int
    BY <1>1
  <2> QED
    BY <2>1 DEF CellsUpTo
<1> QED
  BY <1>2, <1>3, <1>4

\* A thread at its cell is at one of the chain.
LEMMA AtACell ==
  ASSUME ParametersOK, TypeInv, InHand, NEW t \in Threads, pc[t] \in AtCell
  PROVE  /\ index[t] \in CellsUpTo(last)
         /\ cells[index[t]] \in Contents
<1>1. index[t] \in Nat /\ last \in Nat /\ Node(index[t]) <= last
  BY DEF TypeInv, InHand
<1>2. index[t] \in CellsUpTo(last)
  BY <1>1, Nodes
<1> QED
  BY <1>2 DEF TypeInv

-----------------------------------------------------------------------------
(* Types *)

\* The variables of the cells and of the calls.
Callers == <<todo, put_index, pop_index, last, cells, node, index, curr, cv, futex_addr>>

LEMMA ReclaimTypes ==
  ASSUME TypeInv, UNCHANGED Callers, pc' \in [Threads -> Places],
         freed' \subseteq Int, init_node' \in Int, init_id' \in Int,
         reclaimer' \in [Dequeuers -> Reclaimers]
  PROVE  TypeInv'
BY DEF TypeInv, Callers

LEMMA CallTypes ==
  ASSUME TypeInv, UNCHANGED <<freed, init_node, init_id, reclaimer>>, pc' \in [Threads -> Places],
         todo' \in [Threads -> Int], put_index' \in Nat, pop_index' \in Nat, last' \in Nat,
         cells' \in [CellsUpTo(last') -> Contents],
         node' \in [Threads -> Nat], index' \in [Threads -> Nat], curr' \in [Threads -> Int],
         cv' \in [Threads -> Contents], futex_addr' \in [Dequeuers -> Int]
  PROVE  TypeInv'
BY DEF TypeInv

LEMMA GotoType ==
  ASSUME TypeInv, NEW t \in Threads, NEW place \in Places, Goto(t, place)
  PROVE  /\ pc' \in [Threads -> Places]
         /\ pc'[t] = place
         /\ \A u \in Threads : u # t => pc'[u] = pc[u]
BY DEF TypeInv, Goto

LEMMA ContentsAre ==
  /\ NULL \in Contents
  /\ \A i \in Nat : Value(i) \in Contents
  /\ \A t \in Dequeuers : Word(t) \in Contents
BY DEF Contents

\* Where a thread is once it has gone on to node c.
LEMMA Reached ==
  ASSUME TypeInv, NEW t \in Threads, NEW c \in Nat, NEW i \in Nat, Reach(t, c, i)
  PROVE  /\ pc' \in [Threads -> Places] /\ node' \in [Threads -> Nat] /\ curr' \in [Threads -> Int]
         /\ \A u \in Threads : u # t => pc'[u] = pc[u] /\ node'[u] = node[u] /\ curr'[u] = curr[u]
         /\ \/ /\ c >= Node(i)
               /\ pc'[t] = IF t \in Enqueuers THEN "exchange" ELSE "look"
               /\ node'[t] = c
            \/ /\ ~(c >= Node(i))
               /\ pc'[t] = "find" /\ node'[t] = node[t] /\ curr'[t] = c
<1>1. CASE c >= Node(i)
  <2>1. Goto(t, IF t \in Enqueuers THEN "exchange" ELSE "look")
    BY <1>1 DEF Reach
  <2>2. node' = [node EXCEPT ![t] = c] /\ curr' = [curr EXCEPT ![t] = NoNode]
    BY <1>1 DEF Reach
  <2> QED
    BY <1>1, <2>1, <2>2, GotoType DEF Places, TypeInv, NoNode
<1>2. CASE ~(c >= Node(i))
  <2>1. Goto(t, "find") /\ node' = node /\ curr' = [curr EXCEPT ![t] = c]
    BY <1>2 DEF Reach
  <2> QED
    BY <1>2, <2>1, GotoType DEF Places, TypeInv
<1> QED
  BY <1>1, <1>2

LEMMA TypesInCalls ==
  ASSUME ParametersOK, TypeInv, InHand, NEW t \in Threads,
         \/ Begin(t, put_index) /\ put_index' = put_index + 1 /\ UNCHANGED pop_index
         \/ Begin(t, pop_index) /\ pop_index' = pop_index + 1 /\ UNCHANGED put_index
         \/ FindCell(t)
  PROVE  TypeInv'
<1> USE DEF TypeInv
<1>1. ASSUME NEW i \in {put_index, pop_index}, Begin(t, i), put_index' \in Nat, pop_index' \in Nat
      PROVE  TypeInv'
  <2>1. i \in Nat /\ node[t] \in Nat
    BY <1>1
  <2>2. pc' \in [Threads -> Places] /\ node' \in [Threads -> Nat] /\ curr' \in [Threads -> Int]
    BY <1>1, <2>1, Reached DEF Begin
  <2>3. index' \in [Threads -> Nat] /\ todo' \in [Threads -> Int] /\ cv' \in [Threads -> Contents]
    BY <1>1, <2>1, ContentsAre DEF Begin
  <2> QED
    BY <1>1, <2>2, <2>3 DEF Begin, chain, waiting
<1>2. CASE FindCell(t)
  <2>1. curr[t] + 1 \in Nat /\ index[t] \in Nat
    BY <1>2 DEF FindCell, InHand
  <2>2. pc' \in [Threads -> Places] /\ node' \in [Threads -> Nat] /\ curr' \in [Threads -> Int]
    BY <1>2, <2>1, Reached DEF FindCell
  <2>3. last' \in Nat
    BY <1>2 DEF FindCell
  <2>4. ASSUME NEW i \in CellsUpTo(last'), Node(i) <= last
        PROVE  cells[i] \in Contents
    <3>1. i \in Nat
      BY <2>4 DEF CellsUpTo
    <3>2. i \in CellsUpTo(last)
      BY <2>4, <3>1, Nodes
    <3> QED
      BY <3>2
  <2>5. cells' \in [CellsUpTo(last') -> Contents]
    BY <1>2, <2>4, ContentsAre DEF FindCell, CellsUpTo
  <2> QED
    BY <1>2, <2>2, <2>3, <2>5 DEF FindCell, waiting
<1>3. put_index + 1 \in Nat /\ pop_index + 1 \in Nat
  OBVIOUS
<1> QED
  BY <1>1, <1>2, <1>3

LEMMA TypesAtCells ==
  ASSUME ParametersOK, TypeInv, InHand, NEW t \in Threads,
         \/ t \in Enqueuers /\ (Put(t) \/ Release(t) \/ Wake(t))
         \/ t \in Dequeuers /\ (LookAtCell(t) \/ OfferToWait(t) \/ FutexWait(t) \/ Woken(t))
  PROVE  TypeInv'
<1> USE DEF TypeInv
<1>1. ASSUME NEW value, Take(t, value)
      PROVE  pc' \in [Threads -> Places] /\ cv' = [cv EXCEPT ![t] = value]
  BY <1>1, GotoType DEF Places, Take
<1>2. CASE Put(t)
  <2>1. index[t] \in CellsUpTo(last) /\ cells[index[t]] \in Contents /\ index[t] \in Nat
    BY <1>2, AtACell DEF Put, AtCell
  <2>2. pc' \in [Threads -> Places]
    BY <1>2, GotoType DEF Places, Put
  <2>3. cells' \in [CellsUpTo(last) -> Contents] /\ cv' \in [Threads -> Contents]
    BY <1>2, <2>1, ContentsAre DEF Put
  <2>4. UNCHANGED <<todo, put_index, pop_index, chain, node, index, curr, waiting, reclaimer>>
    BY <1>2 DEF Put
  <2> QED
    BY <2>2, <2>3, <2>4 DEF chain, waiting
<1>3. CASE Release(t)
  <2>1. pc' \in [Threads -> Places]
    BY <1>3, GotoType DEF Places, Release
  <2>2. futex_addr' \in [Dequeuers -> Int]
    <3>1. futex_addr' = [d \in Dequeuers |-> IF d = cv[t][2] THEN 0 ELSE futex_addr[d]]
      BY <1>3 DEF Release
    <3> QED
      BY <3>1
  <2> QED
    BY <1>3, <2>1, <2>2 DEF Release, chain, queue, calls
<1>4. CASE Wake(t)
  <2>1. pc' \in [Threads -> Places]
    BY <1>4, GotoType DEF Places, Wake
  <2> QED
    BY <1>4, <2>1 DEF Wake, chain, queue, calls
<1>5. CASE LookAtCell(t)
  <2>1. cells[index[t]] \in Contents
    BY <1>5, AtACell DEF LookAtCell, AtCell
  <2>2. pc' \in [Threads -> Places] /\ cv' \in [Threads -> Contents]
    BY <1>1, <1>5, <2>1, GotoType DEF Places, LookAtCell
  <2> QED
    BY <1>5, <2>2 DEF LookAtCell, chain, queue, waiting
<1>6. CASE OfferToWait(t)
  <2>1. index[t] \in CellsUpTo(last) /\ cells[index[t]] \in Contents
    BY <1>6, AtACell DEF OfferToWait, AtCell
  <2>2. pc' \in [Threads -> Places] /\ cv' \in [Threads -> Contents]
    BY <1>1, <1>6, <2>1, GotoType DEF Places, OfferToWait
  <2>3. cells' \in [CellsUpTo(last) -> Contents] /\ futex_addr' \in [Dequeuers -> Int]
    <3>1. t \in Dequeuers
      BY <1>6 DEF OfferToWait, Put, Release, Wake
    <3> QED
      BY <1>6, <2>1, <3>1, ContentsAre DEF OfferToWait
  <2> QED
    BY <1>6, <2>2, <2>3 DEF OfferToWait, chain
<1>7. CASE FutexWait(t)
  <2>1. pc' \in [Threads -> Places]
    BY <1>7, GotoType DEF Places, FutexWait
  <2> QED
    BY <1>7, <2>1 DEF FutexWait, chain, queue, calls
<1>8. CASE Woken(t)
  <2>1. cells[index[t]] \in Contents
    BY <1>8, AtACell DEF Woken, AtCell
  <2>2. pc' \in [Threads -> Places] /\ cv' \in [Threads -> Contents]
    BY <1>1, <1>8, <2>1, GotoType DEF Places, Woken
  <2> QED
    BY <1>8, <2>2 DEF Woken, chain, queue, waiting
<1> QED
  BY <1>2, <1>3, <1>4, <1>5, <1>6, <1>7, <1>8

LEMMA ReclaimersAre ==
  ASSUME NEW r \in Reclaimers
  PROVE  /\ r.init_index \in Int /\ r.min_node \in Int /\ r.victim \in Int /\ r.scanned \subseteq Threads
         /\ [r EXCEPT !.victim = r.victim + 1] \in Reclaimers
         /\ \A h \in Threads, m \in Int :
              [r EXCEPT !.scanned = r.scanned \cup {h}, !.min_node = m] \in Reclaimers
<1>1. r.scanned \subseteq Threads
  BY DEF Reclaimers
<1>2. ASSUME NEW h \in Threads, NEW m \in Int
      PROVE  [r EXCEPT !.scanned = r.scanned \cup {h}, !.min_node = m] \in Reclaimers
  <2>1. r.scanned \cup {h} \in SUBSET Threads
    BY <1>1
  <2>2. [r EXCEPT !.scanned = r.scanned \cup {h}] \in Reclaimers
    BY <2>1 DEF Reclaimers
  <2>3. \A q \in Reclaimers : [q EXCEPT !.min_node = m] \in Reclaimers
    BY DEF Reclaimers
  <2> QED
    BY <2>2, <2>3
<1>3. r.init_index \in Int /\ r.min_node \in Int /\ r.victim \in Int
  BY DEF Reclaimers
<1>4. [r EXCEPT !.victim = r.victim + 1] \in Reclaimers
  BY <1>3 DEF Reclaimers
<1> QED
  BY <1>1, <1>2, <1>3, <1>4

LEMMA TypesInReclaim ==
  ASSUME TypeInv, NEW t \in Dequeuers, Reclaim(t)
  PROVE  TypeInv' /\ UNCHANGED Callers
<1> USE DEF TypeInv, Reclaimers, NotReclaiming, NoNode, SetReclaimer, Threads
<1>1. UNCHANGED Callers
  BY DEF Reclaim, LoadId, LockId, ScanHandle, UnlockId, FreeNode, Callers, queue, chain, calls, waiting
<1>2. pc' \in [Threads -> Places]
  BY GotoType DEF Places, Reclaim, LoadId, LockId, ScanHandle, UnlockId, FreeNode
<1>3. /\ reclaimer[t] \in Reclaimers
      /\ \A r \in Reclaimers : SetReclaimer(t, r) => reclaimer' \in [Dequeuers -> Reclaimers]
  OBVIOUS
<1>4. NotReclaiming \in Reclaimers
  OBVIOUS
<1>5. CASE LoadId(t)
  <2>1. [NotReclaiming EXCEPT !.init_index = init_id] \in Reclaimers
    OBVIOUS
  <2>2. reclaimer' \in [Dequeuers -> Reclaimers]
    BY <1>3, <1>5, <2>1 DEF LoadId
  <2> QED
    BY <1>1, <1>2, <1>5, <2>2, ReclaimTypes DEF LoadId, chain
<1>6. CASE LockId(t)
  <2>1. [reclaimer[t] EXCEPT !.victim = init_node] \in Reclaimers
    BY <1>3
  <2>2. reclaimer' \in [Dequeuers -> Reclaimers]
    BY <1>3, <1>4, <1>6, <2>1 DEF LockId
  <2> QED
    BY <1>1, <1>2, <1>6, <2>2, ReclaimTypes DEF LockId
<1>7. ASSUME NEW h \in Threads, ScanHandle(t, h)
      PROVE  TypeInv'
  <2>1. [reclaimer[t] EXCEPT !.scanned = @ \cup {h}, !.min_node = Least(reclaimer[t], h)] \in Reclaimers
    <3>1. Least(reclaimer[t], h) \in Int
      BY <1>3 DEF Least
    <3> QED
      BY <1>3, <3>1, ReclaimersAre
  <2>2. reclaimer' \in [Dequeuers -> Reclaimers]
    BY <1>3, <1>7, <2>1 DEF ScanHandle
  <2> QED
    BY <1>1, <1>2, <1>7, <2>2, ReclaimTypes DEF ScanHandle, chain
<1>8. CASE UnlockId(t)
  <2>1. [reclaimer[t] EXCEPT !.scanned = {}] \in Reclaimers
    BY <1>3
  <2>2. reclaimer' \in [Dequeuers -> Reclaimers]
    BY <1>3, <1>4, <1>8, <2>1 DEF UnlockId
  <2>3. freed' \subseteq Int /\ init_node' \in Int /\ init_id' \in Int
    <3>1. reclaimer[t].min_node \in Int /\ reclaimer[t].init_index \in Int
      BY <1>3
    <3> QED
      BY <1>8, <3>1 DEF UnlockId
  <2> QED
    BY <1>1, <1>2, <2>2, <2>3, ReclaimTypes
<1>9. CASE FreeNode(t)
  <2>1. [reclaimer[t] EXCEPT !.victim = @ + 1] \in Reclaimers
    BY <1>3, ReclaimersAre
  <2>2. reclaimer' \in [Dequeuers -> Reclaimers]
    BY <1>3, <1>4, <1>9, <2>1 DEF FreeNode
  <2>3. freed' \subseteq Int /\ init_node' \in Int /\ init_id' \in Int
    BY <1>3, <1>9 DEF FreeNode
  <2> QED
    BY <1>1, <1>2, <2>2, <2>3, ReclaimTypes
<1> QED
  BY <1>1, <1>5, <1>6, <1>7, <1>8, <1>9 DEF Reclaim

-----------------------------------------------------------------------------
(* What the steps leave alone *)

\* Steps that move no handle and no index: the threads only go on or return, and
\* init_node has been moved no further than to the handle that is furthest behind.
LEMMA InHandKept ==
  ASSUME TypeInv, InHand, UNCHANGED <<node, index, curr, put_index, pop_index, last>>,
         \A t \in Threads : init_node' <= node[t],
         \A t \in Threads : /\ pc'[t] = "find" => pc[t] = "find"
                            /\ pc'[t] \in AtCell => pc[t] \in AtCell
                            /\ pc'[t] = "free" => pc[t] = "free" \/ t \in Dequeuers
  PROVE  InHand'
BY DEF InHand, Node

\* Steps of calls, in which handles move on and nobody comes to or leaves one of
\* the places where nodes are reclaimed.
LEMMA ReclaimingKept ==
  ASSUME TypeInv, Reclaiming, UNCHANGED <<reclaimer, freed, init_node, init_id>>,
         node' \in [Threads -> Nat], \A t \in Threads : node[t] <= node'[t],
         \A t \in Dequeuers : pc'[t] \in {"lock_id", "scan", "free"} => pc[t] = pc'[t]
  PROVE  Reclaiming'
<1>1. \A t \in Dequeuers : \A h \in reclaimer[t].scanned :
        reclaimer[t].min_node <= node[h] => reclaimer[t].min_node <= node'[h]
  <2> SUFFICES ASSUME NEW t \in Dequeuers, NEW h \in reclaimer[t].scanned,
                      reclaimer[t].min_node <= node[h]
               PROVE  reclaimer[t].min_node <= node'[h]
    OBVIOUS
  <2>1. reclaimer[t].min_node \in Int /\ h \in Threads
    BY ReclaimersAre DEF TypeInv
  <2> QED
    BY <2>1 DEF TypeInv
<1> QED
  BY <1>1 DEF Reclaiming, Knows, Apart, Gone, ToFree

-----------------------------------------------------------------------------
(* Handles *)

LEMMA BeginInHand ==
  ASSUME ParametersOK, MemoryInv, NEW t \in Threads,
         NEW i \in Nat, i = IF t \in Enqueuers THEN put_index ELSE pop_index,
         Begin(t, i), put_index' \in Nat, pop_index' \in Nat,
         put_index <= put_index', pop_index <= pop_index'
  PROVE  InHand' /\ Reclaiming'
<1> USE DEF MemoryInv, TypeInv
<1>1. /\ node[t] \in Nat /\ Reach(t, node[t], i) /\ pc[t] = "call"
      /\ UNCHANGED <<cells, chain, waiting, reclaimer>>
      /\ index' = [index EXCEPT ![t] = i]
  BY DEF Begin
<1>2. /\ node' \in [Threads -> Nat]
      /\ \A u \in Threads : u # t => pc'[u] = pc[u] /\ node'[u] = node[u] /\ curr'[u] = curr[u]
      /\ \/ /\ node[t] >= Node(i)
            /\ pc'[t] = IF t \in Enqueuers THEN "exchange" ELSE "look"
            /\ node'[t] = node[t]
         \/ /\ ~(node[t] >= Node(i))
            /\ pc'[t] = "find" /\ node'[t] = node[t] /\ curr'[t] = node[t]
  BY <1>1, Reached
<1>3. /\ index[t] \in Nat /\ index[t] <= i /\ init_node <= node[t]
      /\ node[t] <= last /\ node[t] <= Node(index[t])
  BY DEF InHand
<1>4. Node(i) \in Nat /\ Node(index[t]) \in Nat /\ node[t] <= Node(i)
  <2>1. Node(index[t]) <= Node(i) /\ Node(i) \in Nat /\ Node(index[t]) \in Nat
    BY <1>3, Nodes
  <2> QED
    BY <1>1, <1>3, <2>1
<1>5. ASSUME NEW u \in Threads
      PROVE  /\ index'[u] <= IF u \in Enqueuers THEN put_index' ELSE pop_index'
             /\ init_node' <= node'[u] /\ node'[u] <= last'
             /\ node'[u] <= Node(index'[u])
             /\ pc'[u] = "find" => node'[u] <= curr'[u] /\ curr'[u] < Node(index'[u]) /\ curr'[u] <= last'
             /\ pc'[u] \in AtCell => node'[u] = Node(index'[u])
             /\ pc'[u] = "free" => u \in Dequeuers
  <2>1. UNCHANGED <<last, init_node>>
    BY <1>1 DEF chain
  <2>2. CASE u = t
    <3>1. index'[u] = i /\ i <= IF u \in Enqueuers THEN put_index' ELSE pop_index'
      BY <1>1, <2>2
    <3>2. node'[u] = node[u] /\ pc'[u] = "find" => curr'[u] = node[u] /\ node[u] < Node(i)
      BY <1>1, <1>2, <1>4, <2>2
    <3>3. pc'[u] \in AtCell => node[t] >= Node(i)
      BY <1>2, <2>2 DEF AtCell
    <3>4. node'[u] = node[t]
      BY <1>2, <2>2
    <3> QED
      BY <1>1, <1>2, <1>3, <1>4, <2>1, <2>2, <3>1, <3>2, <3>3, <3>4
  <2>3. CASE u # t
    <3>1. index'[u] = index[u] /\ index[u] \in Nat
      BY <1>1, <2>3
    <3>2. index[u] <= IF u \in Enqueuers THEN put_index' ELSE pop_index'
      BY <3>1 DEF InHand
    <3> QED
      BY <1>2, <2>1, <2>3, <3>1, <3>2 DEF InHand
  <2> QED
    BY <2>2, <2>3
<1>6. InHand'
  BY <1>5 DEF InHand, Node
<1>7. Reclaiming'
  <2>1. UNCHANGED <<reclaimer, freed, init_node, init_id>>
    BY <1>1 DEF chain
  <2>2. \A u \in Threads : node[u] <= node'[u]
    BY <1>2
  <2>3. \A u \in Dequeuers : pc'[u] \in {"lock_id", "scan", "free"} => pc[u] = pc'[u]
    BY <1>2 DEF Threads
  <2> QED
    BY <1>2, <2>1, <2>2, <2>3, ReclaimingKept
<1> QED
  BY <1>6, <1>7

LEMMA FindCellInHand ==
  ASSUME ParametersOK, MemoryInv, NEW t \in Threads, FindCell(t)
  PROVE  InHand' /\ Reclaiming'
<1> USE DEF MemoryInv, TypeInv
<1>1. /\ pc[t] = "find" /\ Reach(t, curr[t] + 1, index[t])
      /\ last' = IF curr[t] = last THEN last + 1 ELSE last
      /\ UNCHANGED <<put_index, pop_index, freed, init_node, init_id, index, reclaimer>>
  BY DEF FindCell
<1>2. /\ curr[t] + 1 \in Nat /\ index[t] \in Nat /\ node[t] <= curr[t]
      /\ curr[t] < Node(index[t]) /\ curr[t] <= last /\ init_node <= node[t]
      /\ node[t] \in Nat /\ curr[t] \in Int
  BY <1>1 DEF InHand
<1>3. /\ node' \in [Threads -> Nat]
      /\ \A u \in Threads : u # t => pc'[u] = pc[u] /\ node'[u] = node[u] /\ curr'[u] = curr[u]
      /\ \/ /\ curr[t] + 1 >= Node(index[t])
            /\ pc'[t] = IF t \in Enqueuers THEN "exchange" ELSE "look"
            /\ node'[t] = curr[t] + 1
         \/ /\ ~(curr[t] + 1 >= Node(index[t]))
            /\ pc'[t] = "find" /\ node'[t] = node[t] /\ curr'[t] = curr[t] + 1
  BY <1>1, <1>2, Reached
<1>4. last' \in Nat /\ last <= last' /\ curr[t] + 1 <= last'
  BY <1>1, <1>2
<1>5. Node(index[t]) \in Nat
  BY <1>2, Nodes
<1>6. ASSUME NEW u \in Threads
      PROVE  /\ index'[u] <= IF u \in Enqueuers THEN put_index' ELSE pop_index'
             /\ init_node' <= node'[u] /\ node'[u] <= last'
             /\ node'[u] <= Node(index'[u])
             /\ pc'[u] = "find" => node'[u] <= curr'[u] /\ curr'[u] < Node(index'[u]) /\ curr'[u] <= last'
             /\ pc'[u] \in AtCell => node'[u] = Node(index'[u])
             /\ pc'[u] = "free" => u \in Dequeuers
  <2>1. UNCHANGED <<put_index, pop_index, init_node, index>>
    BY <1>1
  <2>2. CASE u = t
    <3>1. CASE curr[t] + 1 >= Node(index[t])
      <4>1. node'[t] = curr[t] + 1 /\ curr[t] + 1 = Node(index[t]) /\ pc'[t] # "find"
        BY <1>2, <1>3, <1>5, <3>1
      <4>2. init_node <= curr[t] + 1
        BY <1>2
      <4>3. pc'[t] # "free" /\ index[t] <= IF t \in Enqueuers THEN put_index ELSE pop_index
        BY <1>3, <3>1 DEF InHand
      <4> QED
        BY <1>1, <1>4, <2>1, <2>2, <4>1, <4>2, <4>3
    <3>2. CASE ~(curr[t] + 1 >= Node(index[t]))
      <4>1. node'[t] = node[t] /\ curr'[t] = curr[t] + 1 /\ pc'[t] = "find"
        BY <1>3, <3>2
      <4>2. curr[t] + 1 < Node(index[t]) /\ node[t] <= curr[t] + 1 /\ node[t] <= last'
        BY <1>2, <1>4, <1>5, <3>2
      <4> QED
        BY <1>1, <1>2, <1>4, <2>1, <2>2, <4>1, <4>2 DEF InHand, AtCell
    <3> QED
      BY <3>1, <3>2
  <2>3. CASE u # t
    BY <1>3, <1>4, <2>1, <2>3 DEF InHand
  <2> QED
    BY <2>2, <2>3
<1>7. InHand'
  BY <1>6 DEF InHand, Node
<1>8. Reclaiming'
  <2>1. \A u \in Threads : node[u] <= node'[u]
    BY <1>2, <1>3
  <2>2. \A u \in Dequeuers : pc'[u] \in {"lock_id", "scan", "free"} => pc[u] = pc'[u]
    BY <1>3 DEF Threads
  <2> QED
    BY <1>1, <1>3, <2>1, <2>2, ReclaimingKept
<1> QED
  BY <1>7, <1>8

LEMMA CellsInHand ==
  ASSUME ParametersOK, MemoryInv, NEW t \in Threads,
         \/ t \in Enqueuers /\ (Put(t) \/ Release(t) \/ Wake(t))
         \/ t \in Dequeuers /\ (LookAtCell(t) \/ OfferToWait(t) \/ FutexWait(t) \/ Woken(t))
  PROVE  InHand' /\ Reclaiming'
<1> USE DEF MemoryInv, TypeInv
<1>1. UNCHANGED <<node, index, curr, put_index, pop_index, last, init_node, init_id, freed, reclaimer>>
  BY DEF Put, Release, Wake, LookAtCell, OfferToWait, FutexWait, Woken, queue, chain, calls
<1>2. \A u \in Threads : u # t => pc'[u] = pc[u]
  BY DEF Put, Release, Wake, LookAtCell, OfferToWait, FutexWait, Woken, Take, Goto
<1>3. /\ pc'[t] \in {"call", "release", "wake", "load_id"} \cup AtCell
      /\ pc'[t] \in AtCell => pc[t] \in AtCell
  BY DEF Put, Release, Wake, LookAtCell, OfferToWait, FutexWait, Woken, Take, Goto, AtCell
<1>4. InHand'
  <2>1. \A u \in Threads : init_node' <= node[u]
    BY <1>1 DEF InHand
  <2>2. \A u \in Threads : /\ pc'[u] = "find" => pc[u] = "find"
                           /\ pc'[u] \in AtCell => pc[u] \in AtCell
                           /\ pc'[u] = "free" => pc[u] = "free"
    BY <1>2, <1>3 DEF AtCell
  <2> QED
    BY <1>1, <2>1, <2>2, InHandKept
<1>5. Reclaiming'
  <2>1. \A u \in Dequeuers : pc'[u] \in {"lock_id", "scan", "free"} => pc[u] = pc'[u]
    BY <1>2, <1>3 DEF AtCell, Threads
  <2>2. node' \in [Threads -> Nat] /\ \A u \in Threads : node[u] <= node'[u]
    BY <1>1
  <2> QED
    BY <1>1, <2>1, <2>2, ReclaimingKept
<1> QED
  BY <1>4, <1>5

-----------------------------------------------------------------------------
(* Reclaiming *)

LEMMA ReclaimFrame ==
  ASSUME MemoryInv, NEW t \in Dequeuers, Reclaim(t)
  PROVE  /\ UNCHANGED Callers
         /\ pc'[t] \in {"call", "lock_id", "scan", "free"}
         /\ \A u \in Dequeuers : u # t => pc'[u] = pc[u] /\ reclaimer'[u] = reclaimer[u]
         /\ \A u \in Threads : pc'[u] = "find" \/ pc'[u] \in AtCell => pc'[u] = pc[u]
         /\ \A u \in Threads : u # t => pc'[u] = pc[u]
<1>1. UNCHANGED Callers
  BY TypesInReclaim DEF MemoryInv
<1>2. /\ pc'[t] \in {"call", "lock_id", "scan", "free"}
      /\ \A u \in Threads : u # t => pc'[u] = pc[u]
      /\ \A u \in Dequeuers : u # t => reclaimer'[u] = reclaimer[u]
  BY DEF MemoryInv, TypeInv, Reclaim, LoadId, LockId, ScanHandle, UnlockId, FreeNode, Goto, SetReclaimer,
         Threads
<1> QED
  BY <1>1, <1>2 DEF AtCell, Threads

LEMMA ReclaimInHand ==
  ASSUME MemoryInv, NEW t \in Dequeuers, Reclaim(t), \A u \in Threads : init_node' <= node[u]
  PROVE  InHand'
<1>1. UNCHANGED <<node, index, curr, put_index, pop_index, last>>
  BY ReclaimFrame DEF Callers
<1>2. \A u \in Threads : /\ pc'[u] = "find" => pc[u] = "find"
                         /\ pc'[u] \in AtCell => pc[u] \in AtCell
                         /\ pc'[u] = "free" => pc[u] = "free" \/ u \in Dequeuers
  BY ReclaimFrame
<1> QED
  BY <1>1, <1>2, InHandKept DEF MemoryInv

\* A step that frees nothing and leaves init_node and those that free alone.
LEMMA NothingFreed ==
  ASSUME MemoryInv, NEW t \in Dequeuers, Reclaim(t), UNCHANGED <<freed, init_node>>,
         pc'[t] # "free", init_id' \in {-1, init_node}, Knows(t)',
         \A u \in Dequeuers : u # t /\ pc[u] = "scan" => init_id' = init_id /\ pc'[t] # "scan"
  PROVE  InHand' /\ Reclaiming'
<1>1. /\ UNCHANGED node
      /\ \A u \in Dequeuers : u # t => pc'[u] = pc[u] /\ reclaimer'[u] = reclaimer[u]
  BY ReclaimFrame DEF Callers
<1>2. InHand'
  <2>1. \A u \in Threads : init_node' <= node[u]
    BY DEF MemoryInv, InHand
  <2> QED
    BY <2>1, ReclaimInHand
<1>3. ASSUME NEW u \in Dequeuers
      PROVE  Knows(u)'
  BY <1>1 DEF MemoryInv, Reclaiming, Knows
<1>4. ASSUME NEW u \in Dequeuers, NEW v \in Dequeuers, u # v
      PROVE  Apart(u, v)'
  BY <1>1, <1>4 DEF MemoryInv, Reclaiming, Apart, ToFree
<1>5. ASSUME NEW f \in freed'
      PROVE  Gone(f)'
  BY <1>1, <1>5 DEF MemoryInv, Reclaiming, Gone, ToFree
<1> QED
  BY <1>2, <1>3, <1>4, <1>5 DEF Reclaiming

LEMMA LoadIdKeeps ==
  ASSUME MemoryInv, NEW t \in Dequeuers, LoadId(t)
  PROVE  InHand' /\ Reclaiming'
<1>1. UNCHANGED <<freed, init_node, init_id, node>> /\ pc'[t] \in {"lock_id", "call"}
  BY DEF LoadId, chain, Goto, MemoryInv, TypeInv, Threads
<1>2. Knows(t)'
  <2>1. pc'[t] = "lock_id" => reclaimer'[t] = [NotReclaiming EXCEPT !.init_index = init_id] /\ init_id \in Nat
    BY DEF LoadId, Goto, SetReclaimer, MemoryInv, TypeInv, Threads
  <2>2. pc'[t] = "lock_id" => reclaimer'[t].init_index \in Nat /\ reclaimer'[t].scanned = {}
    BY <2>1 DEF NotReclaiming
  <2> QED
    BY <1>1, <2>2 DEF Knows
<1> QED
  BY <1>1, <1>2, NothingFreed DEF Reclaim, MemoryInv, Reclaiming

LEMMA LockIdKeeps ==
  ASSUME MemoryInv, NEW t \in Dequeuers, LockId(t)
  PROVE  InHand' /\ Reclaiming'
<1> USE DEF MemoryInv, TypeInv, Threads
<1>1. /\ UNCHANGED <<freed, init_node, node>>
      /\ reclaimer[t].init_index \in Nat /\ reclaimer[t].scanned = {}
      /\ reclaimer[t] \in Reclaimers
  BY DEF LockId, Reclaiming, Knows
<1>2. CASE init_id = reclaimer[t].init_index
  <2>1. /\ init_id' = -1 /\ pc'[t] = "scan"
        /\ reclaimer'[t] = [reclaimer[t] EXCEPT !.victim = init_node]
    BY <1>2 DEF LockId, Goto, SetReclaimer
  <2>2. init_id = init_node
    BY <1>1, <1>2 DEF Reclaiming
  <2>3. /\ reclaimer'[t].init_index = init_node /\ reclaimer'[t].victim = init_node
        /\ reclaimer'[t].scanned = {}
    BY <1>1, <1>2, <2>1, <2>2 DEF Reclaimers
  <2>4. Knows(t)'
    BY <1>1, <2>1, <2>3 DEF Knows
  <2>5. \A u \in Dequeuers : pc[u] # "scan"
    BY <1>1, <1>2 DEF Reclaiming, Knows
  <2> QED
    BY <1>1, <2>1, <2>4, <2>5, NothingFreed DEF Reclaim
<1>3. CASE init_id # reclaimer[t].init_index
  <2>1. UNCHANGED init_id /\ pc'[t] = "call"
    BY <1>3 DEF LockId, Goto
  <2>2. Knows(t)'
    BY <2>1 DEF Knows
  <2> QED
    BY <1>1, <2>1, <2>2, NothingFreed DEF Reclaim, Reclaiming
<1> QED
  BY <1>2, <1>3

LEMMA ScanHandleKeeps ==
  ASSUME MemoryInv, NEW t \in Dequeuers, NEW h \in Threads, ScanHandle(t, h)
  PROVE  InHand' /\ Reclaiming'
<1> USE DEF MemoryInv, TypeInv
<1> DEFINE r == reclaimer[t]
           s == reclaimer'[t]
<1>1. /\ UNCHANGED <<pc, freed, init_node, init_id, node>> /\ pc[t] = "scan"
      /\ r \in Reclaimers
      /\ s = [r EXCEPT !.scanned = r.scanned \cup {h}, !.min_node = Least(r, h)]
  BY DEF ScanHandle, SetReclaimer, chain
<1>2. /\ s.init_index = r.init_index /\ s.victim = r.victim
      /\ s.scanned = r.scanned \cup {h} /\ s.min_node = Least(r, h)
  BY <1>1 DEF Reclaimers
<1>3. init_id = -1 /\ r.init_index = init_node /\ r.victim = init_node
      /\ \A g \in r.scanned : r.min_node <= node[g]
  BY <1>1 DEF Reclaiming, Knows
<1>4. \A g \in s.scanned : s.min_node <= node[g]
  <2>1. r.min_node \in Int /\ r.scanned \subseteq Threads
    BY <1>1, ReclaimersAre
  <2> QED
    BY <1>2, <1>3, <2>1 DEF Least
<1>5. Knows(t)'
  BY <1>1, <1>2, <1>3, <1>4 DEF Knows
<1>6. \A u \in Dequeuers : u # t => pc[u] # "scan"
  BY <1>1 DEF Reclaiming, Apart
<1> QED
  BY <1>1, <1>5, <1>6, NothingFreed DEF Reclaim, Reclaiming

LEMMA UnlockIdKeeps ==
  ASSUME MemoryInv, NEW t \in Dequeuers, UnlockId(t)
  PROVE  InHand' /\ Reclaiming'
<1> USE DEF MemoryInv, TypeInv, Threads
<1> DEFINE r == reclaimer[t]
<1>1. /\ UNCHANGED <<freed, node>> /\ pc[t] = "scan" /\ r \in Reclaimers /\ Unscanned(t) = {}
      /\ r.min_node \in Int /\ r.scanned \subseteq Threads
  BY ReclaimersAre DEF UnlockId
<1>2. /\ init_id = -1 /\ r.init_index = init_node /\ r.victim = init_node
      /\ \A h \in r.scanned : r.min_node <= node[h]
  BY <1>1 DEF Reclaiming, Knows
<1>3. \A u \in Dequeuers : u # t => pc[u] # "scan"
  BY <1>1 DEF Reclaiming, Apart
<1>4. CASE r.min_node <= r.init_index
  <2>1. init_id' = init_node /\ pc'[t] = "call" /\ UNCHANGED init_node
    BY <1>1, <1>2, <1>4 DEF UnlockId, Goto
  <2>2. Knows(t)'
    BY <2>1 DEF Knows
  <2> QED
    BY <1>1, <1>3, <2>1, <2>2, NothingFreed DEF Reclaim
<1>5. CASE r.min_node > r.init_index
  <2>1. /\ init_node' = r.min_node /\ init_id' = r.min_node /\ pc'[t] = "free"
        /\ reclaimer'[t] = [r EXCEPT !.scanned = {}]
    <3>1. ~(r.min_node <= r.init_index)
      BY <1>1, <1>2, <1>5
    <3>2. /\ init_node' = r.min_node /\ init_id' = r.min_node /\ Goto(t, "free")
          /\ SetReclaimer(t, [r EXCEPT !.scanned = {}])
      BY <3>1 DEF UnlockId
    <3> QED
      BY <3>2 DEF Goto, SetReclaimer
  <2>2. reclaimer'[t].victim = r.victim /\ reclaimer'[t].min_node = r.min_node
    BY <1>1, <2>1 DEF Reclaimers
  <2>3. init_node \in Int /\ init_node' \in Int /\ init_node < init_node'
    BY <1>1, <1>2, <1>5, <2>1
  <2>4. Threads \subseteq r.scanned
    BY <1>1, <1>2, <1>5 DEF Unscanned
  <2>5. InHand'
    <3>1. \A u \in Threads : init_node' <= node[u]
      BY <1>2, <2>1, <2>4
    <3> QED
      BY <3>1, ReclaimInHand DEF Reclaim
  <2>6. /\ UNCHANGED node
        /\ \A u \in Dequeuers : u # t => pc'[u] = pc[u] /\ reclaimer'[u] = reclaimer[u]
    BY ReclaimFrame DEF Callers, Reclaim
  <2>7. ASSUME NEW u \in Dequeuers
        PROVE  Knows(u)'
    <3>1. CASE u = t
      <4>1. reclaimer'[t].victim < reclaimer'[t].min_node /\ reclaimer'[t].min_node <= init_node'
        BY <1>1, <1>2, <2>1, <2>2, <2>3
      <4> QED
        BY <2>1, <3>1, <4>1 DEF Knows
    <3>2. CASE u # t
      <4>1. pc[u] # "scan" /\ pc'[u] = pc[u] /\ reclaimer'[u] = reclaimer[u]
        BY <1>3, <2>6, <3>2
      <4>2. pc[u] = "free" => reclaimer[u].min_node <= init_node' /\ reclaimer[u].victim < reclaimer[u].min_node
        <5>1. reclaimer[u].min_node \in Int
          BY ReclaimersAre
        <5>2. pc[u] = "free" => reclaimer[u].min_node <= init_node /\ reclaimer[u].victim < reclaimer[u].min_node
          BY DEF Reclaiming, Knows
        <5> QED
          BY <5>1, <5>2, <2>3
      <4>3. pc[u] = "lock_id" => reclaimer[u].init_index \in Nat /\ reclaimer[u].scanned = {}
        BY DEF Reclaiming, Knows
      <4> QED
        BY <4>1, <4>2, <4>3 DEF Knows
    <3> QED
      BY <3>1, <3>2
  <2>8. ToFree(t)' = init_node .. init_node' - 1
    BY <1>2, <2>1, <2>2 DEF ToFree
  <2>9. \A u \in Dequeuers : u # t => ToFree(u)' = ToFree(u)
    BY <2>6 DEF ToFree
  <2>10. ASSUME NEW u \in Dequeuers, u # t, pc[u] = "free", NEW f \in ToFree(u)
         PROVE  f < init_node
    <3>1. reclaimer[u].min_node \in Int /\ reclaimer[u].victim \in Int /\ reclaimer[u].min_node <= init_node
      BY <2>10, ReclaimersAre DEF Reclaiming, Knows
    <3> QED
      BY <2>10, <3>1 DEF ToFree
  <2>11. ASSUME NEW u \in Dequeuers, NEW v \in Dequeuers, u # v
         PROVE  Apart(u, v)'
    <3>1. ~(pc'[u] = "scan" /\ pc'[v] = "scan")
      BY <1>3, <2>1, <2>6, <2>11
    <3>2. ASSUME pc'[u] = "free", pc'[v] = "free", NEW f \in ToFree(u)', f \in ToFree(v)'
          PROVE  FALSE
      <4>1. CASE u = t \/ v = t
        <5>1. f \in init_node .. init_node' - 1 /\ f < init_node
          BY <2>6, <2>8, <2>9, <2>10, <2>11, <3>2, <4>1
        <5> QED
          BY <5>1
      <4>2. CASE u # t /\ v # t
        <5>1. f \in ToFree(u) \cap ToFree(v) /\ pc[u] = "free" /\ pc[v] = "free"
          BY <2>6, <2>9, <3>2, <4>2
        <5> QED
          BY <2>11, <5>1 DEF Reclaiming, Apart
      <4> QED
        BY <4>1, <4>2
    <3> QED
      BY <3>1, <3>2 DEF Apart
  <2>12. ASSUME NEW f \in freed'
         PROVE  Gone(f)'
    <3>1. f \in freed /\ f \in Int /\ f < init_node
      BY <1>1, <2>12 DEF Reclaiming, Gone
    <3>2. ASSUME NEW u \in Dequeuers, pc'[u] = "free", f \in ToFree(u)'
          PROVE  FALSE
      <4>1. CASE u = t
        BY <2>8, <3>1, <3>2, <4>1
      <4>2. CASE u # t
        BY <2>6, <2>9, <3>1, <3>2, <4>2 DEF Reclaiming, Gone
      <4> QED
        BY <4>1, <4>2
    <3> QED
      BY <2>3, <3>1, <3>2 DEF Gone
  <2> QED
    BY <2>1, <2>5, <2>7, <2>11, <2>12 DEF Reclaiming
<1> QED
  BY <1>1, <1>2, <1>4, <1>5

LEMMA FreeNodeKeeps ==
  ASSUME MemoryInv, NEW t \in Dequeuers, FreeNode(t)
  PROVE  InHand' /\ Reclaiming'
<1> USE DEF MemoryInv, TypeInv, Threads
<1> DEFINE r == reclaimer[t]
<1>1. /\ UNCHANGED <<init_id, init_node, node>> /\ pc[t] = "free" /\ r \in Reclaimers
      /\ freed' = freed \cup {r.victim}
      /\ r.min_node \in Int /\ r.victim \in Int
  BY ReclaimersAre DEF FreeNode
<1>2. r.victim < r.min_node /\ r.min_node <= init_node
  BY <1>1 DEF Reclaiming, Knows
<1>3. InHand'
  <2>1. \A u \in Threads : init_node' <= node[u]
    BY <1>1 DEF InHand
  <2> QED
    BY <2>1, ReclaimInHand DEF Reclaim
<1>4. \A u \in Dequeuers : u # t => pc'[u] = pc[u] /\ reclaimer'[u] = reclaimer[u]
  BY ReclaimFrame DEF Reclaim
<1>5. \/ pc'[t] = "call"
      \/ /\ pc'[t] = "free" /\ r.victim + 1 < r.min_node
         /\ reclaimer'[t].victim = r.victim + 1 /\ reclaimer'[t].min_node = r.min_node
  <2>1. CASE r.victim + 1 = r.min_node
    BY <2>1 DEF FreeNode, Goto
  <2>2. CASE r.victim + 1 # r.min_node
    <3>1. pc'[t] = "free" /\ reclaimer'[t] = [r EXCEPT !.victim = r.victim + 1]
      BY <2>2 DEF FreeNode, Goto, SetReclaimer
    <3>2. reclaimer'[t].victim = r.victim + 1 /\ reclaimer'[t].min_node = r.min_node
      BY <1>1, <3>1 DEF Reclaimers
    <3> QED
      BY <1>1, <1>2, <2>2, <3>1, <3>2
  <2> QED
    BY <2>1, <2>2
<1> HIDE DEF r
<1>6. pc'[t] = "free" => ToFree(t)' = ToFree(t) \ {r.victim}
  BY <1>1, <1>5 DEF ToFree, r
<1>7. r.victim \in ToFree(t)
  BY <1>1, <1>2 DEF ToFree, r
<1>8. \A u \in Dequeuers : u # t => ToFree(u)' = ToFree(u)
  BY <1>4 DEF ToFree
<1>9. ASSUME NEW u \in Dequeuers
      PROVE  Knows(u)'
  <2>1. CASE u = t
    BY <1>1, <1>2, <1>5, <2>1 DEF Knows
  <2>2. CASE u # t
    BY <1>1, <1>4, <2>2 DEF Reclaiming, Knows
  <2> QED
    BY <2>1, <2>2
<1>10. ASSUME NEW u \in Dequeuers, NEW v \in Dequeuers, u # v
       PROVE  Apart(u, v)'
  <2>1. pc'[u] = "scan" => pc[u] = "scan" /\ u # t
    BY <1>4, <1>5
  <2>2. pc'[v] = "scan" => pc[v] = "scan" /\ v # t
    BY <1>4, <1>5
  <2>3. pc'[u] = "free" => pc[u] = "free" /\ ToFree(u)' \subseteq ToFree(u)
    BY <1>1, <1>4, <1>6, <1>8
  <2>4. pc'[v] = "free" => pc[v] = "free" /\ ToFree(v)' \subseteq ToFree(v)
    BY <1>1, <1>4, <1>6, <1>8
  <2>5. Apart(u, v)
    BY <1>10 DEF Reclaiming
  <2> QED
    BY <2>1, <2>2, <2>3, <2>4, <2>5 DEF Apart
<1>11. ASSUME NEW f \in freed'
       PROVE  Gone(f)'
  <2>1. CASE f = r.victim
    <3>1. f < init_node /\ f \in ToFree(t)
      BY <1>1, <1>2, <1>7, <2>1 DEF r
    <3>2. ASSUME NEW u \in Dequeuers, pc'[u] = "free"
          PROVE  f \notin ToFree(u)'
      BY <1>1, <1>4, <1>6, <1>8, <2>1, <3>1, <3>2 DEF Reclaiming, Apart
    <3> QED
      BY <1>1, <3>1, <3>2 DEF Gone
  <2>2. CASE f \in freed
    BY <1>1, <1>4, <1>6, <1>8, <2>2 DEF Reclaiming, Gone
  <2> QED
    BY <1>1, <1>11, <2>1, <2>2
<1> QED
  BY <1>1, <1>3, <1>9, <1>10, <1>11 DEF Reclaiming

-----------------------------------------------------------------------------
(* The invariant of nodes and handles *)

LEMMA MemoryInit ==
  ASSUME ParametersOK, Init
  PROVE  MemoryInv
<1>1. TypeInv
  <2>1. N \in Nat \ {0} /\ todo \in [Threads -> Int]
    BY DEF ParametersOK, Init, Threads
  <2>2. CellsUpTo(0) = 0 .. N - 1
    BY <2>1 DEF CellsUpTo
  <2>3. cells \in [CellsUpTo(last) -> Contents]
    BY <2>2, ContentsAre DEF Init
  <2>4. reclaimer \in [Dequeuers -> Reclaimers]
    BY DEF Init, Reclaimers, NotReclaiming, NoNode
  <2> QED
    BY <2>1, <2>3, <2>4, ContentsAre DEF Init, TypeInv, NoNode, Places
<1>2. InHand
  <2>1. Node(0) \in Nat
    BY Nodes
  <2> QED
    BY <2>1 DEF Init, InHand, AtCell
<1>3. Reclaiming
  BY DEF Init, Reclaiming, Knows, Apart, Gone, Threads
<1> QED
  BY <1>1, <1>2, <1>3 DEF MemoryInv

\* A step is one of a call up to its cell, of a call at its cell, or of reclaiming.
LEMMA Steps ==
  ASSUME Next
  PROVE  \E t \in Threads :
           \/ t \in Enqueuers /\ BeginEnqueue(t)
           \/ t \in Dequeuers /\ BeginDequeue(t)
           \/ FindCell(t)
           \/ t \in Enqueuers /\ (Put(t) \/ Release(t) \/ Wake(t))
           \/ t \in Dequeuers /\ (LookAtCell(t) \/ OfferToWait(t) \/ FutexWait(t) \/ Woken(t))
           \/ t \in Dequeuers /\ Reclaim(t)
BY DEF Next, Enqueue, Dequeue, Threads

LEMMA MemoryKept ==
  ASSUME ParametersOK, MemoryInv, [Next]_vars
  PROVE  MemoryInv'
<1> USE DEF MemoryInv
<1>1. CASE UNCHANGED vars
  BY <1>1 DEF TypeInv, InHand, Reclaiming, Knows, Apart, Gone, ToFree, Node, vars, queue, chain, calls,
              waiting
<1>2. ASSUME NEW t \in Enqueuers, BeginEnqueue(t)
      PROVE  MemoryInv'
  <2>1. Begin(t, put_index) /\ put_index' = put_index + 1 /\ UNCHANGED pop_index
    BY <1>2 DEF BeginEnqueue
  <2>2. put_index \in Nat /\ put_index' \in Nat /\ pop_index' \in Nat /\ put_index <= put_index'
        /\ pop_index <= pop_index' /\ t \in Threads
    BY <2>1 DEF TypeInv, Threads
  <2> QED
    BY <2>1, <2>2, TypesInCalls, BeginInHand
<1>3. ASSUME NEW t \in Dequeuers, BeginDequeue(t)
      PROVE  MemoryInv'
  <2>1. Begin(t, pop_index) /\ pop_index' = pop_index + 1 /\ UNCHANGED put_index
    BY <1>3 DEF BeginDequeue
  <2>2. pop_index \in Nat /\ put_index' \in Nat /\ pop_index' \in Nat /\ put_index <= put_index'
        /\ pop_index <= pop_index' /\ t \in Threads
    BY <2>1 DEF TypeInv, Threads
  <2>3. t \notin Enqueuers
    BY DEF ParametersOK
  <2> QED
    BY <2>1, <2>2, <2>3, TypesInCalls, BeginInHand
<1>4. ASSUME NEW t \in Threads, FindCell(t)
      PROVE  MemoryInv'
  BY <1>4, TypesInCalls, FindCellInHand
<1>5. ASSUME NEW t \in Threads,
             \/ t \in Enqueuers /\ (Put(t) \/ Release(t) \/ Wake(t))
             \/ t \in Dequeuers /\ (LookAtCell(t) \/ OfferToWait(t) \/ FutexWait(t) \/ Woken(t))
      PROVE  MemoryInv'
  BY <1>5, TypesAtCells, CellsInHand
<1>6. ASSUME NEW t \in Dequeuers, Reclaim(t)
      PROVE  MemoryInv'
  BY <1>6, TypesInReclaim, LoadIdKeeps, LockIdKeeps, ScanHandleKeeps, UnlockIdKeeps, FreeNodeKeeps
     DEF Reclaim
<1> QED
  BY <1>1, <1>2, <1>3, <1>4, <1>5, <1>6, Steps

LEMMA MemoryInvariance ==
  ASSUME ParametersOK
  PROVE  Spec => []MemoryInv
<1>1. Init => MemoryInv
  BY MemoryInit
<1>2. MemoryInv /\ [Next]_vars => MemoryInv'
  BY MemoryKept
<1> QED
  BY <1>1, <1>2, PTL DEF Spec

\* However many dequeuers try to reclaim nodes while the handles move on, no
\* thread has a freed node in its hands, and none is freed twice: the handle that
\* is furthest behind, although read at no single moment, bounds them all.
THEOREM NodesInHandAreNotFreed ==
  ASSUME ParametersOK
  PROVE  Spec => []NoUseAfterFree
<1>1. MemoryInv => NoUseAfterFree
  <2> SUFFICES ASSUME MemoryInv PROVE NoUseAfterFree
    OBVIOUS
  <2> USE DEF MemoryInv, TypeInv
  <2>1. \A f \in freed : f \in Int /\ f < init_node
    BY DEF Reclaiming, Gone
  <2>2. ASSUME NEW t \in Threads
        PROVE  /\ node[t] \notin freed
               /\ pc[t] = "find" => curr[t] \notin freed
               /\ pc[t] \in AtCell => Node(index[t]) \notin freed
    <3>1. init_node <= node[t] /\ node[t] \in Int /\ curr[t] \in Int
      BY DEF InHand
    <3>2. pc[t] = "find" => init_node <= curr[t]
      BY <3>1 DEF InHand
    <3>3. pc[t] \in AtCell => Node(index[t]) = node[t]
      BY DEF InHand
    <3> QED
      BY <2>1, <3>1, <3>2, <3>3
  <2>3. ASSUME NEW t \in Threads, pc[t] = "free"
        PROVE  reclaimer[t].victim \notin freed
    <3>1. t \in Dequeuers
      BY <2>3 DEF InHand
    <3>2. reclaimer[t].victim \in ToFree(t)
      <4>1. reclaimer[t].victim \in Int /\ reclaimer[t].min_node \in Int
        BY <3>1, ReclaimersAre
      <4>2. reclaimer[t].victim < reclaimer[t].min_node
        BY <2>3, <3>1 DEF Reclaiming, Knows
      <4> QED
        BY <4>1, <4>2 DEF ToFree
    <3> QED
      BY <2>3, <3>1, <3>2 DEF Reclaiming, Gone
  <2> QED
    BY <2>1, <2>2, <2>3 DEF NoUseAfterFree, AtCell
<1> QED
  BY <1>1, MemoryInvariance, PTL

-----------------------------------------------------------------------------
(* Delivery *)

LEMMA ContentsDiffer ==
  /\ \A i, j : Value(i) = Value(j) => i = j
  /\ \A t, u : Word(t) = Word(u) => t = u
  /\ \A i, t : Value(i) # Word(t)
  /\ \A i : Value(i) # NULL
  /\ \A t : Word(t) # NULL
  /\ \A t : Word(t)[2] = t
BY DEF Value, Word, NULL

\* Steps after which the same dequeuers wait, for the same cells, and the same
\* enqueuers or fewer are about to release them.
LEMMA WaitingKept ==
  ASSUME Waiting, UNCHANGED futex_addr,
         \A d \in Dequeuers : /\ pc'[d] \in Waits <=> pc[d] \in Waits
                              /\ pc[d] \in Waits => /\ index'[d] = index[d]
                                                    /\ cells'[index[d]] = cells[index[d]],
         \A u \in Enqueuers : /\ pc'[u] = "release" => pc[u] = "release" /\ cv'[u] = cv[u]
                              /\ pc'[u] = "wake" => pc[u] = "wake" /\ cv'[u] = cv[u]
  PROVE  Waiting'
<1>1. \A d \in Dequeuers : pc'[d] \in Waits =>
        \/ cells'[index'[d]] = Word(d) /\ futex_addr'[d] = 1
        \/ cells'[index'[d]] = Value(index'[d])
  BY DEF Waiting
<1>2. \A u \in Enqueuers : pc'[u] = "release" =>
        \E d \in Dequeuers : /\ cv'[u] = Word(d) /\ pc'[d] \in Waits /\ futex_addr'[d] = 1
                             /\ cells'[index'[d]] = Value(index'[d])
  BY DEF Waiting
<1>3. \A u \in Enqueuers : pc'[u] = "wake" => \E d \in Dequeuers : cv'[u] = Word(d)
  BY DEF Waiting
<1>4. \A u, v \in Enqueuers : u # v /\ pc'[u] = "release" /\ pc'[v] = "release" => cv'[u] # cv'[v]
  BY DEF Waiting
<1> QED
  BY <1>1, <1>2, <1>3, <1>4 DEF Waiting, Value, Word

\* Steps that change no cell, no word and no index, and after which nobody has
\* begun to wait or to release, nor stopped waiting.
LEMMA DeliveryKept ==
  ASSUME DeliveryInv, UNCHANGED <<put_index, pop_index, last, cells, index, futex_addr, cv>>,
         \A t \in Enqueuers : /\ pc'[t] \in ToPut => pc[t] \in ToPut
                              /\ pc'[t] = "release" => pc[t] = "release"
                              /\ pc'[t] = "wake" => pc[t] = "wake",
         \A t \in Dequeuers : /\ pc'[t] \in ToOffer => pc[t] \in ToOffer
                              /\ pc'[t] \in Waits <=> pc[t] \in Waits
  PROVE  DeliveryInv'
<1> USE DEF DeliveryInv
<1>1. OwnIndices'
  BY DEF OwnIndices
<1>2. (\A i : Filled(i) => Filled(i)') /\ (\A i : Offered(i) => Offered(i)')
  BY DEF Filled, Offered
<1>3. CellsRight'
  BY <1>2 DEF CellsRight, CellsUpTo, Value, Word
<1>4. Waiting'
  BY WaitingKept
<1>5. DeliveredInOrder'
  BY DEF DeliveredInOrder, Value, NULL
<1> QED
  BY <1>1, <1>3, <1>4, <1>5

LEMMA DeliveryInit ==
  ASSUME ParametersOK, Init
  PROVE  DeliveryInv
<1>1. \A t \in Threads : pc[t] = "call" /\ cv[t] = NULL
  BY DEF Init
<1>2. \A i \in CellsUpTo(last) : cells[i] = NULL
  <2>1. (last + 1) * N = N /\ N \in Nat
    BY DEF Init, ParametersOK
  <2> QED
    BY <2>1 DEF Init, CellsUpTo
<1>3. OwnIndices
  BY <1>1 DEF OwnIndices, Threads, ToPut, ToOffer, Waits
<1>4. CellsRight
  BY <1>2, ContentsDiffer DEF CellsRight
<1>5. Waiting
  BY <1>1 DEF Waiting, Threads, Waits
<1>6. DeliveredInOrder
  BY <1>1 DEF DeliveredInOrder, Threads
<1> QED
  BY <1>3, <1>4, <1>5, <1>6 DEF DeliveryInv

LEMMA BeginEnqueueDelivers ==
  ASSUME ParametersOK, MemoryInv, DeliveryInv, NEW t \in Enqueuers, BeginEnqueue(t)
  PROVE  DeliveryInv'
<1> USE DEF DeliveryInv
<1>1. /\ t \in Threads /\ t \notin Dequeuers /\ put_index \in Nat
      /\ put_index' = put_index + 1 /\ UNCHANGED <<pop_index, last, cells, futex_addr>>
      /\ index' = [index EXCEPT ![t] = put_index] /\ cv' = [cv EXCEPT ![t] = NULL]
      /\ index \in [Threads -> Nat] /\ cv \in [Threads -> Contents]
  BY DEF BeginEnqueue, Begin, chain, waiting, MemoryInv, TypeInv, Threads, ParametersOK
<1>2. /\ \A u \in Threads : u # t => pc'[u] = pc[u] /\ index'[u] = index[u] /\ cv'[u] = cv[u]
      /\ pc'[t] \in ToPut /\ index'[t] = put_index
  <2>1. Reach(t, node[t], put_index) /\ node[t] \in Nat
    BY <1>1 DEF BeginEnqueue, Begin, MemoryInv, TypeInv
  <2> QED
    BY <1>1, <2>1, Reached DEF MemoryInv, ToPut
<1>3. (\A u \in Enqueuers : u \in Threads) /\ (\A u \in Dequeuers : u \in Threads /\ u # t)
  BY <1>1 DEF Threads
<1>4. OwnIndices'
  BY <1>1, <1>2, <1>3 DEF OwnIndices
<1>5. (\A i \in Int : Filled(i) => Filled(i)') /\ (\A i : Offered(i) => Offered(i)')
  BY <1>1, <1>2, <1>3 DEF Filled, Offered
<1>6. CellsRight'
  <2>1. CellsUpTo(last)' = CellsUpTo(last) /\ CellsUpTo(last) \subseteq Int
    BY <1>1 DEF CellsUpTo
  <2> QED
    BY ZenonT(40), <1>1, <1>2, <1>3, <1>5, <2>1 DEF CellsRight, Value, Word
<1>7. Waiting'
  BY <1>1, <1>2, <1>3, WaitingKept DEF ToPut
<1>8. DeliveredInOrder'
  BY <1>1, <1>2, <1>3 DEF DeliveredInOrder, Value, NULL
<1> QED
  BY <1>4, <1>6, <1>7, <1>8

LEMMA BeginDequeueDelivers ==
  ASSUME ParametersOK, MemoryInv, DeliveryInv, NEW t \in Dequeuers, BeginDequeue(t)
  PROVE  DeliveryInv'
<1> USE DEF DeliveryInv
<1>1. /\ t \in Threads /\ t \notin Enqueuers /\ pop_index \in Nat
      /\ pop_index' = pop_index + 1 /\ UNCHANGED <<put_index, last, cells, futex_addr>>
      /\ index' = [index EXCEPT ![t] = pop_index] /\ cv' = [cv EXCEPT ![t] = NULL]
      /\ index \in [Threads -> Nat] /\ cv \in [Threads -> Contents] /\ pc[t] = "call"
  BY DEF BeginDequeue, Begin, chain, waiting, MemoryInv, TypeInv, Threads, ParametersOK
<1>2. /\ \A u \in Threads : u # t => pc'[u] = pc[u] /\ index'[u] = index[u] /\ cv'[u] = cv[u]
      /\ pc'[t] \in ToOffer /\ index'[t] = pop_index /\ cv'[t] = NULL
  <2>1. Reach(t, node[t], pop_index) /\ node[t] \in Nat
    BY <1>1 DEF BeginDequeue, Begin, MemoryInv, TypeInv
  <2> QED
    BY <1>1, <2>1, Reached DEF MemoryInv, ToOffer
<1>3. (\A u \in Dequeuers : u \in Threads) /\ (\A u \in Enqueuers : u \in Threads /\ u # t)
  BY <1>1 DEF Threads
<1>4. OwnIndices'
  BY <1>1, <1>2, <1>3 DEF OwnIndices, ToOffer, Waits
<1>5. (\A i : Filled(i) => Filled(i)') /\ (\A i \in Int : Offered(i) => Offered(i)')
  BY <1>1, <1>2, <1>3 DEF Filled, Offered
<1>6. CellsRight'
  <2>1. CellsUpTo(last)' = CellsUpTo(last) /\ CellsUpTo(last) \subseteq Int
    BY <1>1 DEF CellsUpTo
  <2> QED
    BY ZenonT(40), <1>1, <1>2, <1>3, <1>5, <2>1 DEF CellsRight, Value, Word, Waits
<1>7. Waiting'
  BY <1>1, <1>2, <1>3, WaitingKept DEF ToOffer, Waits
<1>8. DeliveredInOrder'
  BY <1>1, <1>2, <1>3 DEF DeliveredInOrder, Value, NULL
<1> QED
  BY <1>4, <1>6, <1>7, <1>8

LEMMA FindCellDelivers ==
  ASSUME ParametersOK, MemoryInv, DeliveryInv, NEW t \in Threads, FindCell(t)
  PROVE  DeliveryInv'
<1> USE DEF DeliveryInv
<1>1. /\ pc[t] = "find" /\ Reach(t, curr[t] + 1, index[t]) /\ last \in Nat
      /\ last' = IF curr[t] = last THEN last + 1 ELSE last
      /\ cells' = [i \in 0 .. (last' + 1) * N - 1 |-> IF Node(i) <= last THEN cells[i] ELSE NULL]
      /\ UNCHANGED <<put_index, pop_index, index, futex_addr, cv>>
      /\ index \in [Threads -> Nat]
  BY DEF FindCell, waiting, MemoryInv, TypeInv
<1>2. /\ \A u \in Threads : u # t => pc'[u] = pc[u]
      /\ t \in Enqueuers => pc'[t] \in ToPut
      /\ t \notin Enqueuers => pc'[t] \in ToOffer
  <2>1. curr[t] + 1 \in Nat /\ index[t] \in Nat
    BY <1>1 DEF MemoryInv, TypeInv, InHand
  <2> QED
    BY <1>1, <2>1, Reached DEF MemoryInv, ToPut, ToOffer
<1>3. /\ \A u \in Enqueuers : u \in Threads /\ u \notin Dequeuers
      /\ \A u \in Dequeuers : u \in Threads /\ u \notin Enqueuers
  BY DEF Threads, ParametersOK
<1>4. \A u \in Enqueuers : /\ pc'[u] \in ToPut <=> pc[u] \in ToPut
                           /\ pc'[u] = "release" => pc[u] = "release"
                           /\ pc'[u] = "wake" => pc[u] = "wake"
  BY <1>1, <1>2, <1>3 DEF ToPut
<1>5. \A u \in Dequeuers : /\ pc'[u] \in ToOffer <=> pc[u] \in ToOffer
                           /\ pc'[u] \in Waits <=> pc[u] \in Waits
  BY <1>1, <1>2, <1>3 DEF ToOffer, Waits
<1>6. OwnIndices'
  BY <1>1, <1>4, <1>5 DEF OwnIndices
<1>7. (\A i : Filled(i) => Filled(i)') /\ (\A i : Offered(i) => Offered(i)')
  BY <1>1, <1>4, <1>5 DEF Filled, Offered
<1>8. ASSUME NEW i \in CellsUpTo(last')
      PROVE  \/ i \in CellsUpTo(last) /\ cells'[i] = cells[i]
             \/ i \notin CellsUpTo(last) /\ cells'[i] = NULL
  <2>1. i \in Nat
    BY DEF CellsUpTo
  <2>2. Node(i) <= last <=> i \in CellsUpTo(last)
    BY <1>1, <2>1, Nodes
  <2> QED
    BY <1>1, <2>2 DEF CellsUpTo
<1>9. CellsRight'
  <2>1. CellsUpTo(last)' = CellsUpTo(last')
    BY DEF CellsUpTo
  <2>2. ASSUME NEW i \in CellsUpTo(last')
        PROVE  /\ \A j \in Nat : cells'[i] = Value(j) => j = i /\ Filled(i)'
               /\ \A d \in Dequeuers : cells'[i] = Word(d) =>
                    /\ Offered(i)'
                    /\ Filled(i)' \/ (pc'[d] \in Waits /\ index'[d] = i /\ futex_addr'[d] = 1)
    <3>1. CASE i \in CellsUpTo(last) /\ cells'[i] = cells[i]
      BY ZenonT(40), <1>1, <1>5, <1>7, <3>1 DEF CellsRight
    <3>2. CASE cells'[i] = NULL
      BY <3>2, ContentsDiffer
    <3> QED
      BY <1>8, <3>1, <3>2
  <2> QED
    BY <2>1, <2>2 DEF CellsRight, Value, Word
<1>10. \A u \in Dequeuers : pc[u] \in Waits => cells'[index[u]] = cells[index[u]]
  <2> SUFFICES ASSUME NEW u \in Dequeuers, pc[u] \in Waits
               PROVE  cells'[index[u]] = cells[index[u]]
    OBVIOUS
  <2>1. index[u] \in CellsUpTo(last)
    BY <1>3, AtACell DEF MemoryInv, AtCell, Waits
  <2>2. index[u] \in CellsUpTo(last')
    <3>1. index[u] \in Nat /\ last' \in Nat /\ last <= last'
      BY <1>1, <1>3
    <3>2. Node(index[u]) <= last /\ Node(index[u]) \in Nat
      BY <1>1, <2>1, <3>1, Nodes
    <3>3. Node(index[u]) <= last'
      BY <1>1, <3>1, <3>2
    <3> QED
      BY <3>1, <3>3, Nodes
  <2> QED
    BY <1>8, <2>1, <2>2
<1>11. Waiting'
  BY <1>1, <1>4, <1>5, <1>10, WaitingKept
<1>12. DeliveredInOrder'
  BY <1>1 DEF DeliveredInOrder, Value, NULL
<1> QED
  BY <1>6, <1>9, <1>11, <1>12

\* A call of mpmc_enqueue finds nothing in its cell, or the word of a dequeuer
\* that waits for it.
LEMMA PutDelivers ==
  ASSUME ParametersOK, MemoryInv, DeliveryInv, NEW t \in Enqueuers, Put(t)
  PROVE  DeliveryInv'
<1> USE DEF DeliveryInv
<1>0. PICK x \in Nat : x = index[t]
  BY DEF MemoryInv, TypeInv, Threads
<1>1. /\ t \in Threads /\ pc[t] = "exchange"
      /\ cells' = [cells EXCEPT ![x] = Value(x)] /\ cv' = [cv EXCEPT ![t] = cells[x]]
      /\ UNCHANGED <<put_index, pop_index, last, index, futex_addr>>
      /\ pc' = [pc EXCEPT ![t] = IF cells[x] = NULL THEN "call" ELSE "release"]
      /\ pc \in [Threads -> Places] /\ cv \in [Threads -> Contents]
  BY <1>0 DEF Put, Goto, MemoryInv, TypeInv, Threads, chain, waiting
<1>2. x \in CellsUpTo(last) /\ cells[x] \in Contents
  BY <1>0, <1>1, AtACell DEF MemoryInv, AtCell
<1>3. /\ \A u \in Enqueuers : u \in Threads /\ u \notin Dequeuers
      /\ \A u \in Dequeuers : u \in Threads /\ u \notin Enqueuers
  BY DEF Threads, ParametersOK
<1>4. /\ pc'[t] = IF cells[x] = NULL THEN "call" ELSE "release"
      /\ \A u \in Threads : u # t => pc'[u] = pc[u] /\ cv'[u] = cv[u]
      /\ cv'[t] = cells[x]
  BY <1>1
<1>5. /\ cells'[x] = Value(x)
      /\ \A i \in CellsUpTo(last) : i # x => cells'[i] = cells[i]
  BY <1>1, <1>2 DEF MemoryInv, TypeInv
<1>6. x < put_index /\ (\A u \in Enqueuers : u # t /\ pc[u] \in ToPut => index[u] # x)
  BY <1>0, <1>1 DEF OwnIndices, ToPut
<1>7. cells[x] # NULL => \E d \in Dequeuers : cells[x] = Word(d) /\ pc[d] \in Waits
                                              /\ index[d] = x /\ futex_addr[d] = 1
  <2> SUFFICES ASSUME cells[x] # NULL
               PROVE  \E d \in Dequeuers : cells[x] = Word(d) /\ pc[d] \in Waits
                                           /\ index[d] = x /\ futex_addr[d] = 1
    OBVIOUS
  <2>1. ~Filled(x)
    BY <1>0, <1>1 DEF Filled, ToPut
  <2>2. \A j \in Nat : cells[x] # Value(j)
    BY <1>2, <2>1 DEF CellsRight
  <2>3. PICK d \in Dequeuers : cells[x] = Word(d)
    BY <1>2, <2>2 DEF Contents
  <2> QED
    BY <1>2, <2>1, <2>3 DEF CellsRight
<1>8. \A u \in Enqueuers : pc'[u] \in ToPut => u # t /\ pc[u] \in ToPut
  BY <1>3, <1>4 DEF ToPut
<1>9. \A u \in Dequeuers : pc'[u] = pc[u] /\ u # t
  BY <1>3, <1>4
<1>10. OwnIndices'
  BY <1>1, <1>8, <1>9 DEF OwnIndices
<1>11. Filled(x)' /\ (\A i : Filled(i) => Filled(i)') /\ (\A i : Offered(i) => Offered(i)')
  BY <1>1, <1>6, <1>8, <1>9 DEF Filled, Offered
<1>12. CellsRight'
  <2>1. CellsUpTo(last)' = CellsUpTo(last)
    BY <1>1 DEF CellsUpTo
  <2>2. ASSUME NEW i \in CellsUpTo(last)
        PROVE  /\ \A j \in Nat : cells'[i] = Value(j) => j = i /\ Filled(i)'
               /\ \A d \in Dequeuers : cells'[i] = Word(d) =>
                    /\ Offered(i)'
                    /\ Filled(i)' \/ (pc'[d] \in Waits /\ index'[d] = i /\ futex_addr'[d] = 1)
    <3>1. CASE i = x
      BY <1>5, <1>11, <3>1, ContentsDiffer
    <3>2. CASE i # x
      BY <1>1, <1>5, <1>9, <1>11, <2>2, <3>2 DEF CellsRight
    <3> QED
      BY <3>1, <3>2
  <2> QED
    BY <2>1, <2>2 DEF CellsRight, Value, Word
<1>13. ASSUME NEW d \in Dequeuers, pc[d] \in Waits
       PROVE  \/ index[d] # x /\ cells'[index[d]] = cells[index[d]]
              \/ index[d] = x /\ cells'[index[d]] = Value(index[d])
  <2>1. index[d] \in CellsUpTo(last)
    BY <1>3, <1>13, AtACell DEF MemoryInv, AtCell, Waits
  <2> QED
    BY <1>5, <2>1
<1>14. Waiting'
  <2>1. \A d \in Dequeuers : pc'[d] \in Waits =>
          \/ cells'[index'[d]] = Word(d) /\ futex_addr'[d] = 1
          \/ cells'[index'[d]] = Value(index'[d])
    BY <1>1, <1>9, <1>13 DEF Waiting
  <2>2. ASSUME NEW u \in Enqueuers, pc'[u] = "release"
        PROVE  \E d \in Dequeuers : /\ cv'[u] = Word(d)
                                    /\ pc'[d] \in Waits /\ futex_addr'[d] = 1
                                    /\ cells'[index'[d]] = Value(index'[d])
    <3>1. CASE u = t
      <4>1. cells[x] # NULL
        BY <1>4, <2>2, <3>1
      <4> QED
        BY <1>1, <1>4, <1>5, <1>7, <1>9, <3>1, <4>1
    <3>2. CASE u # t
      <4>1. pc[u] = "release" /\ cv'[u] = cv[u]
        BY <1>3, <1>4, <2>2, <3>2
      <4>2. PICK d \in Dequeuers : /\ cv[u] = Word(d) /\ pc[d] \in Waits /\ futex_addr[d] = 1
                                   /\ cells[index[d]] = Value(index[d])
        BY <4>1 DEF Waiting
      <4> QED
        BY <1>1, <1>9, <1>13, <4>1, <4>2
    <3> QED
      BY <3>1, <3>2
  <2>3. \A u \in Enqueuers : pc'[u] = "wake" => \E d \in Dequeuers : cv'[u] = Word(d)
    BY <1>3, <1>4 DEF Waiting
  <2>4. ASSUME NEW u \in Enqueuers, u # t, pc'[u] = "release", pc'[t] = "release"
        PROVE  cv'[u] # cv'[t]
    <3>1. pc[u] = "release" /\ cv'[u] = cv[u]
      BY <1>3, <1>4, <2>4
    <3>2. PICK d \in Dequeuers : cv[u] = Word(d) /\ cells[index[d]] = Value(index[d])
      BY <3>1 DEF Waiting
    <3>3. PICK e \in Dequeuers : cells[x] = Word(e) /\ index[e] = x
      BY <1>4, <1>7, <2>4
    <3> QED
      BY <1>4, <3>1, <3>2, <3>3, ContentsDiffer
  <2>5. \A u, v \in Enqueuers : u # v /\ pc'[u] = "release" /\ pc'[v] = "release" => cv'[u] # cv'[v]
    <3> SUFFICES ASSUME NEW u \in Enqueuers, NEW v \in Enqueuers, u # v,
                        pc'[u] = "release", pc'[v] = "release"
                 PROVE  cv'[u] # cv'[v]
      OBVIOUS
    <3>1. CASE u # t /\ v # t
      BY <1>3, <1>4, <3>1 DEF Waiting
    <3>2. CASE u = t \/ v = t
      BY <2>4, <3>2
    <3> QED
      BY <3>1, <3>2
  <2> QED
    BY <2>1, <2>2, <2>3, <2>5 DEF Waiting, Value, Word
<1>15. DeliveredInOrder'
  BY <1>1, <1>3, <1>4 DEF DeliveredInOrder, Value, NULL
<1> QED
  BY <1>10, <1>12, <1>14, <1>15

\* A step of a dequeuer that changes no cell and no word, in which it stops
\* waiting only if its word is not 1 any more, and has only what it should return.
LEMMA DequeuerMoves ==
  ASSUME ParametersOK, DeliveryInv, NEW t \in Dequeuers,
         UNCHANGED <<put_index, pop_index, last, cells, index, futex_addr>>,
         \A u \in Threads : u # t => pc'[u] = pc[u] /\ cv'[u] = cv[u],
         pc'[t] \in ToOffer => pc[t] \in ToOffer,
         pc'[t] \in Waits => pc[t] \in Waits,
         pc[t] \in Waits /\ pc'[t] \notin Waits => futex_addr[t] # 1,
         cv'[t] # NULL => cv'[t] = Value(index[t]) /\ index[t] < put_index
  PROVE  DeliveryInv'
<1> USE DEF DeliveryInv
<1>1. /\ \A u \in Enqueuers : pc'[u] = pc[u] /\ cv'[u] = cv[u]
      /\ \A d \in Dequeuers : d # t => pc'[d] = pc[d] /\ cv'[d] = cv[d]
  BY DEF Threads, ParametersOK
<1>2. \A d \in Dequeuers : /\ pc'[d] \in ToOffer => pc[d] \in ToOffer
                           /\ pc'[d] \in Waits => pc[d] \in Waits
                           /\ pc[d] \in Waits /\ futex_addr[d] = 1 => pc'[d] \in Waits
  BY <1>1
<1>3. OwnIndices'
  BY <1>1, <1>2 DEF OwnIndices
<1>4. (\A i : Filled(i) => Filled(i)') /\ (\A i : Offered(i) => Offered(i)')
  BY <1>1, <1>2 DEF Filled, Offered
<1>5. CellsRight'
  BY <1>2, <1>4 DEF CellsRight, CellsUpTo, Value, Word
<1>6. Waiting'
  <2>1. \A d \in Dequeuers : pc'[d] \in Waits =>
          \/ cells'[index'[d]] = Word(d) /\ futex_addr'[d] = 1
          \/ cells'[index'[d]] = Value(index'[d])
    BY <1>2 DEF Waiting
  <2>2. \A u \in Enqueuers : pc'[u] = "release" =>
          \E d \in Dequeuers : /\ cv'[u] = Word(d) /\ pc'[d] \in Waits /\ futex_addr'[d] = 1
                               /\ cells'[index'[d]] = Value(index'[d])
    BY <1>1, <1>2 DEF Waiting
  <2>3. \A u \in Enqueuers : pc'[u] = "wake" => \E d \in Dequeuers : cv'[u] = Word(d)
    BY <1>1 DEF Waiting
  <2>4. \A u, v \in Enqueuers : u # v /\ pc'[u] = "release" /\ pc'[v] = "release" => cv'[u] # cv'[v]
    BY <1>1 DEF Waiting
  <2> QED
    BY <2>1, <2>2, <2>3, <2>4 DEF Waiting, Value, Word
<1>7. DeliveredInOrder'
  BY <1>1 DEF DeliveredInOrder, Value, NULL
<1> QED
  BY <1>3, <1>5, <1>6, <1>7

\* An enqueuer releases the dequeuer whose word it found: that one has its value.
LEMMA ReleaseDelivers ==
  ASSUME ParametersOK, MemoryInv, DeliveryInv, NEW t \in Enqueuers, Release(t)
  PROVE  DeliveryInv'
<1> USE DEF DeliveryInv
<1>1. PICK d \in Dequeuers : /\ cv[t] = Word(d) /\ pc[d] \in Waits /\ futex_addr[d] = 1
                             /\ cells[index[d]] = Value(index[d])
  BY DEF Release, Waiting
<1>2. /\ pc[t] = "release" /\ t \in Threads
      /\ pc' = [pc EXCEPT ![t] = "wake"] /\ futex_addr' = [futex_addr EXCEPT ![d] = 0]
      /\ UNCHANGED <<put_index, pop_index, last, cells, index, cv>>
      /\ pc \in [Threads -> Places] /\ futex_addr \in [Dequeuers -> Int]
  <2>1. cv[t][2] = d
    BY <1>1, ContentsDiffer
  <2> QED
    BY <2>1 DEF Release, Goto, queue, chain, calls, MemoryInv, TypeInv, Threads
<1>3. /\ pc'[t] = "wake"
      /\ \A u \in Enqueuers : u # t => pc'[u] = pc[u]
      /\ \A u \in Dequeuers : pc'[u] = pc[u]
      /\ \A u \in Dequeuers : u # d => futex_addr'[u] = futex_addr[u]
  BY <1>2 DEF Threads, ParametersOK
<1>4. \A u \in Enqueuers : /\ pc'[u] \in ToPut => pc[u] \in ToPut
                           /\ pc'[u] = "release" => u # t /\ pc[u] = "release"
  BY <1>3 DEF ToPut
<1>5. OwnIndices'
  BY <1>2, <1>3, <1>4 DEF OwnIndices
<1>6. (\A i : Filled(i) => Filled(i)') /\ (\A i : Offered(i) => Offered(i)')
  BY <1>2, <1>3, <1>4 DEF Filled, Offered
<1>7. CellsRight'
  <2>1. CellsUpTo(last)' = CellsUpTo(last)
    BY <1>2 DEF CellsUpTo
  <2>2. ASSUME NEW i \in CellsUpTo(last)
        PROVE  /\ \A j \in Nat : cells'[i] = Value(j) => j = i /\ Filled(i)'
               /\ \A e \in Dequeuers : cells'[i] = Word(e) =>
                    /\ Offered(i)'
                    /\ Filled(i)' \/ (pc'[e] \in Waits /\ index'[e] = i /\ futex_addr'[e] = 1)
    <3>1. \A j \in Nat : cells'[i] = Value(j) => j = i /\ Filled(i)'
      BY <1>2, <1>6, <2>2 DEF CellsRight
    <3>2. ASSUME NEW e \in Dequeuers, cells'[i] = Word(e)
          PROVE  /\ Offered(i)'
                 /\ Filled(i)' \/ (pc'[e] \in Waits /\ index'[e] = i /\ futex_addr'[e] = 1)
      <4>1. cells[i] = Word(e)
        BY <1>2, <3>2
      <4>2. /\ Offered(i)'
            /\ Filled(i)' \/ (pc[e] \in Waits /\ index[e] = i /\ futex_addr[e] = 1)
        BY <1>6, <2>2, <4>1 DEF CellsRight
      <4>3. index[e] = i => e # d
        BY <1>1, <4>1, ContentsDiffer
      <4> QED
        BY <1>2, <1>3, <4>2, <4>3
    <3> QED
      BY <3>1, <3>2
  <2> QED
    BY <2>1, <2>2 DEF CellsRight, Value, Word
<1>8. Waiting'
  <2>1. \A u \in Dequeuers : pc'[u] \in Waits =>
          \/ cells'[index'[u]] = Word(u) /\ futex_addr'[u] = 1
          \/ cells'[index'[u]] = Value(index'[u])
    BY <1>1, <1>2, <1>3 DEF Waiting
  <2>2. ASSUME NEW u \in Enqueuers, pc'[u] = "release"
        PROVE  \E e \in Dequeuers : /\ cv'[u] = Word(e) /\ pc'[e] \in Waits /\ futex_addr'[e] = 1
                                    /\ cells'[index'[e]] = Value(index'[e])
    <3>1. u # t /\ pc[u] = "release"
      BY <1>4, <2>2
    <3>2. PICK e \in Dequeuers : /\ cv[u] = Word(e) /\ pc[e] \in Waits /\ futex_addr[e] = 1
                                 /\ cells[index[e]] = Value(index[e])
      BY <3>1 DEF Waiting
    <3>3. e # d
      BY <1>1, <1>2, <3>1, <3>2 DEF Waiting
    <3> QED
      BY <1>2, <1>3, <3>2, <3>3
  <2>3. \A u \in Enqueuers : pc'[u] = "wake" => \E e \in Dequeuers : cv'[u] = Word(e)
    BY <1>1, <1>2, <1>3 DEF Waiting
  <2>4. \A u, v \in Enqueuers : u # v /\ pc'[u] = "release" /\ pc'[v] = "release" => cv'[u] # cv'[v]
    BY <1>2, <1>4 DEF Waiting
  <2> QED
    BY <2>1, <2>2, <2>3, <2>4 DEF Waiting, Value, Word
<1>9. DeliveredInOrder'
  BY <1>2 DEF DeliveredInOrder, Value, NULL
<1> QED
  BY <1>5, <1>7, <1>8, <1>9

\* Whatever a dequeuer finds in its cell before it waits is the value of its index.
LEMMA FoundIsTheValue ==
  ASSUME ParametersOK, MemoryInv, DeliveryInv, NEW t \in Dequeuers,
         \/ pc[t] \in {"look", "offer"}
         \/ pc[t] = "woken" /\ futex_addr[t] # 1
  PROVE  \/ cells[index[t]] = NULL /\ pc[t] # "woken"
         \/ cells[index[t]] = Value(index[t]) /\ Filled(index[t])
<1> USE DEF DeliveryInv
<1>1. /\ index[t] \in CellsUpTo(last) /\ cells[index[t]] \in Contents /\ index[t] \in Nat
  BY AtACell DEF MemoryInv, TypeInv, AtCell, Threads
<1>2. cells[index[t]] = Value(index[t]) => Filled(index[t])
  BY <1>1 DEF CellsRight
<1>3. CASE pc[t] \in {"look", "offer"}
  <2>1. ~Offered(index[t])
    BY <1>3 DEF Offered, ToOffer
  <2>2. \A d \in Dequeuers : cells[index[t]] # Word(d)
    BY <1>1, <2>1 DEF CellsRight
  <2>3. \A j \in Nat : cells[index[t]] = Value(j) => j = index[t]
    BY <1>1 DEF CellsRight
  <2>4. cells[index[t]] = NULL \/ \E j \in Nat : cells[index[t]] = Value(j)
    BY <1>1, <2>2 DEF Contents
  <2> QED
    BY <1>2, <1>3, <2>3, <2>4
<1>4. CASE pc[t] = "woken" /\ futex_addr[t] # 1
  BY <1>2, <1>4 DEF Waiting, Waits
<1> QED
  BY <1>3, <1>4

LEMMA Taken ==
  ASSUME TypeInv, NEW t \in Threads, NEW value, Take(t, value)
  PROVE  /\ cv'[t] = value
         /\ pc'[t] \in {"load_id", "call"}
         /\ \A u \in Threads : u # t => pc'[u] = pc[u] /\ cv'[u] = cv[u]
BY DEF TypeInv, Take, Goto

LEMMA DequeuerAtCellDelivers ==
  ASSUME ParametersOK, MemoryInv, DeliveryInv, NEW t \in Dequeuers,
         LookAtCell(t) \/ FutexWait(t) \/ Woken(t)
  PROVE  DeliveryInv'
<1>1. /\ t \in Threads /\ index[t] \in Nat /\ put_index \in Nat
      /\ UNCHANGED <<put_index, pop_index, last, cells, index, futex_addr>>
  BY DEF LookAtCell, FutexWait, Woken, queue, chain, calls, waiting, Threads, MemoryInv, TypeInv
<1>2. ASSUME Take(t, cells[index[t]]), cells[index[t]] = Value(index[t]), Filled(index[t]),
             pc[t] \in Waits => futex_addr[t] # 1
      PROVE  DeliveryInv'
  <2>1. /\ cv'[t] = Value(index[t]) /\ pc'[t] \in {"load_id", "call"}
        /\ \A u \in Threads : u # t => pc'[u] = pc[u] /\ cv'[u] = cv[u]
    BY <1>1, <1>2, Taken DEF MemoryInv
  <2>2. index[t] < put_index
    BY <1>2 DEF Filled
  <2> QED
    BY <1>1, <1>2, <2>1, <2>2, DequeuerMoves DEF ToOffer, Waits
<1>3. ASSUME NEW place \in {"offer", "wait", "woken"}, Goto(t, place), UNCHANGED cv,
             place = "offer" => pc[t] \in ToOffer,
             place # "offer" => pc[t] \in Waits
      PROVE  DeliveryInv'
  <2>1. pc'[t] = place /\ \A u \in Threads : u # t => pc'[u] = pc[u] /\ cv'[u] = cv[u]
    BY <1>1, <1>3 DEF Goto, MemoryInv, TypeInv
  <2>2. cv'[t] # NULL => cv'[t] = Value(index[t]) /\ index[t] < put_index
    BY <1>3 DEF DeliveryInv, DeliveredInOrder
  <2>3. pc[t] \in Waits => place \in Waits
    BY <1>3 DEF ToOffer, Waits
  <2> QED
    BY <1>1, <1>3, <2>1, <2>2, <2>3, DequeuerMoves DEF ToOffer, Waits
<1>4. CASE LookAtCell(t)
  BY <1>2, <1>3, <1>4, FoundIsTheValue DEF LookAtCell, ToOffer, Waits
<1>5. CASE FutexWait(t)
  BY <1>3, <1>5 DEF FutexWait, Waits, calls
<1>6. CASE Woken(t)
  BY <1>2, <1>3, <1>6, FoundIsTheValue DEF Woken, Waits
<1> QED
  BY <1>4, <1>5, <1>6

\* A dequeuer leaves its word in its cell: it waits, or has found the value there.
LEMMA OfferDelivers ==
  ASSUME ParametersOK, MemoryInv, DeliveryInv, NEW t \in Dequeuers, OfferToWait(t)
  PROVE  DeliveryInv'
<1> USE DEF DeliveryInv
<1>0. PICK x \in Nat : x = index[t]
  BY DEF MemoryInv, TypeInv, Threads
<1>1. /\ t \in Threads /\ pc[t] = "offer"
      /\ cells' = [cells EXCEPT ![x] = Word(t)] /\ futex_addr' = [futex_addr EXCEPT ![t] = 1]
      /\ UNCHANGED <<put_index, pop_index, last, index>>
      /\ pc \in [Threads -> Places] /\ futex_addr \in [Dequeuers -> Int] /\ put_index \in Nat
  BY <1>0 DEF OfferToWait, MemoryInv, TypeInv, Threads, chain
<1>2. /\ x \in CellsUpTo(last)
      /\ cells[x] = NULL \/ (cells[x] = Value(x) /\ Filled(x))
  <2>1. x \in CellsUpTo(last)
    BY <1>0, <1>1, AtACell DEF MemoryInv, AtCell
  <2> QED
    BY <1>0, <1>1, <2>1, FoundIsTheValue
<1>3. /\ \A u \in Threads : u # t => pc'[u] = pc[u] /\ cv'[u] = cv[u]
      /\ \/ cells[x] = NULL /\ pc'[t] = "wait" /\ cv'[t] = cv[t]
         \/ cells[x] = Value(x) /\ pc'[t] \in {"load_id", "call"} /\ cv'[t] = Value(x)
  <2>1. CASE cells[x] # NULL
    <3>1. Take(t, cells[x])
      BY <1>0, <2>1 DEF OfferToWait
    <3> QED
      BY <1>1, <1>2, <2>1, <3>1, Taken DEF MemoryInv
  <2>2. CASE cells[x] = NULL
    <3>1. Goto(t, "wait") /\ UNCHANGED cv
      BY <1>0, <2>2 DEF OfferToWait
    <3> QED
      BY <1>1, <2>2, <3>1 DEF Goto
  <2> QED
    BY <2>1, <2>2
<1>4. /\ \A u \in Enqueuers : pc'[u] = pc[u] /\ cv'[u] = cv[u]
      /\ \A d \in Dequeuers : d # t => pc'[d] = pc[d] /\ cv'[d] = cv[d] /\ futex_addr'[d] = futex_addr[d]
      /\ futex_addr'[t] = 1
  BY <1>1, <1>3 DEF Threads, ParametersOK
<1>5. /\ cells'[x] = Word(t)
      /\ \A i \in CellsUpTo(last) : i # x => cells'[i] = cells[i]
  BY <1>1, <1>2 DEF MemoryInv, TypeInv
<1>6. /\ x < pop_index /\ pc[t] \notin Waits
      /\ \A d \in Dequeuers : d # t /\ pc[d] \in ToOffer \cup Waits => index[d] # x
  BY <1>0, <1>1 DEF OwnIndices, ToOffer, Waits
<1>7. /\ pc'[t] \notin ToOffer
      /\ \A d \in Dequeuers : pc'[d] \in ToOffer \cup Waits => pc[d] \in ToOffer \cup Waits
  BY <1>1, <1>3, <1>4 DEF ToOffer, Waits
<1>8. OwnIndices'
  BY <1>1, <1>4, <1>7 DEF OwnIndices
<1>9. /\ \A i : Filled(i) => Filled(i)'
      /\ \A i : Offered(i) => Offered(i)'
      /\ \A i : i = x => Offered(i)'
  BY <1>1, <1>4, <1>6, <1>7 DEF Filled, Offered
<1>10. CellsRight'
  <2>1. CellsUpTo(last)' = CellsUpTo(last)
    BY <1>1 DEF CellsUpTo
  <2>2. ASSUME NEW i \in CellsUpTo(last)
        PROVE  /\ \A j \in Nat : cells'[i] = Value(j) => j = i /\ Filled(i)'
               /\ \A d \in Dequeuers : cells'[i] = Word(d) =>
                    /\ Offered(i)'
                    /\ Filled(i)' \/ (pc'[d] \in Waits /\ index'[d] = i /\ futex_addr'[d] = 1)
    <3>1. CASE i = x
      <4>1. \A j \in Nat : cells'[i] # Value(j)
        BY <1>5, <3>1, ContentsDiffer
      <4>2. \A d \in Dequeuers : cells'[i] = Word(d) => d = t
        BY <1>5, <3>1, ContentsDiffer
      <4>3. Filled(i)' \/ (pc'[t] \in Waits /\ index'[t] = i /\ futex_addr'[t] = 1)
        <5>1. CASE cells[x] = NULL
          <6>1. pc'[t] = "wait"
            BY <1>3, <5>1, ContentsDiffer
          <6> QED
            BY <1>0, <1>1, <1>4, <3>1, <6>1 DEF Waits
        <5>2. CASE cells[x] # NULL
          BY <1>2, <1>9, <3>1, <5>2
        <5> QED
          BY <5>1, <5>2
      <4> QED
        BY <1>9, <3>1, <4>1, <4>2, <4>3
    <3>2. CASE i # x
      <4>1. cells'[i] = cells[i]
        BY <1>5, <2>2, <3>2
      <4>2. \A j \in Nat : cells'[i] = Value(j) => j = i /\ Filled(i)'
        BY <1>9, <2>2, <4>1 DEF CellsRight
      <4>3. ASSUME NEW d \in Dequeuers, cells'[i] = Word(d)
            PROVE  /\ Offered(i)'
                   /\ Filled(i)' \/ (pc'[d] \in Waits /\ index'[d] = i /\ futex_addr'[d] = 1)
        <5>1. /\ Offered(i)'
              /\ Filled(i)' \/ (pc[d] \in Waits /\ index[d] = i /\ futex_addr[d] = 1)
          BY <1>9, <2>2, <4>1, <4>3 DEF CellsRight
        <5>2. pc[d] \in Waits => d # t
          BY <1>6
        <5> QED
          BY <1>1, <1>4, <5>1, <5>2
      <4> QED
        BY <4>2, <4>3
    <3> QED
      BY <3>1, <3>2
  <2> QED
    BY <2>1, <2>2 DEF CellsRight, Value, Word
<1>11. \A d \in Dequeuers : pc[d] \in Waits => d # t /\ cells'[index[d]] = cells[index[d]]
  <2> SUFFICES ASSUME NEW d \in Dequeuers, pc[d] \in Waits
               PROVE  d # t /\ cells'[index[d]] = cells[index[d]]
    OBVIOUS
  <2>1. d # t /\ index[d] # x
    BY <1>6
  <2>2. index[d] \in CellsUpTo(last)
    BY AtACell DEF MemoryInv, AtCell, Waits, Threads
  <2> QED
    BY <1>5, <2>1, <2>2
<1>12. Waiting'
  <2>1. ASSUME NEW d \in Dequeuers, pc'[d] \in Waits
        PROVE  \/ cells'[index'[d]] = Word(d) /\ futex_addr'[d] = 1
               \/ cells'[index'[d]] = Value(index'[d])
    <3>1. CASE d = t
      BY <1>0, <1>1, <1>4, <1>5, <3>1
    <3>2. CASE d # t
      BY <1>1, <1>4, <1>11, <2>1, <3>2 DEF Waiting
    <3> QED
      BY <3>1, <3>2
  <2>2. ASSUME NEW u \in Enqueuers, pc'[u] = "release"
        PROVE  \E d \in Dequeuers : /\ cv'[u] = Word(d) /\ pc'[d] \in Waits /\ futex_addr'[d] = 1
                                    /\ cells'[index'[d]] = Value(index'[d])
    <3>1. PICK d \in Dequeuers : /\ cv[u] = Word(d) /\ pc[d] \in Waits /\ futex_addr[d] = 1
                                 /\ cells[index[d]] = Value(index[d])
      BY <1>4, <2>2 DEF Waiting
    <3> QED
      BY <1>1, <1>4, <1>11, <3>1
  <2>3. \A u \in Enqueuers : pc'[u] = "wake" => \E d \in Dequeuers : cv'[u] = Word(d)
    BY <1>4 DEF Waiting
  <2>4. \A u, v \in Enqueuers : u # v /\ pc'[u] = "release" /\ pc'[v] = "release" => cv'[u] # cv'[v]
    BY <1>4 DEF Waiting
  <2> QED
    BY <2>1, <2>2, <2>3, <2>4 DEF Waiting, Value, Word
<1>13. DeliveredInOrder'
  <2>1. cv'[t] # NULL => cv'[t] = Value(x) /\ x < put_index
    BY <1>0, <1>2, <1>3, ContentsDiffer DEF DeliveredInOrder, Filled
  <2> QED
    BY <1>0, <1>1, <1>4, <2>1 DEF DeliveredInOrder, Value, NULL
<1> QED
  BY <1>8, <1>10, <1>12, <1>13

LEMMA WakeDelivers ==
  ASSUME ParametersOK, MemoryInv, DeliveryInv, NEW t \in Enqueuers, Wake(t)
  PROVE  DeliveryInv'
<1>1. /\ t \in Threads
      /\ UNCHANGED <<put_index, pop_index, last, cells, index, futex_addr, cv>>
      /\ pc' = [pc EXCEPT ![t] = "call"] /\ pc \in [Threads -> Places]
  BY DEF Wake, Goto, queue, chain, calls, MemoryInv, TypeInv, Threads
<1>2. /\ pc'[t] = "call"
      /\ \A u \in Enqueuers : u # t => pc'[u] = pc[u]
      /\ \A d \in Dequeuers : pc'[d] = pc[d]
  BY <1>1 DEF Threads, ParametersOK
<1> QED
  BY <1>1, <1>2, DeliveryKept DEF ToPut

LEMMA ReclaimDelivers ==
  ASSUME ParametersOK, MemoryInv, DeliveryInv, NEW t \in Dequeuers, Reclaim(t)
  PROVE  DeliveryInv'
<1>1. UNCHANGED <<put_index, pop_index, last, cells, index, futex_addr, cv>>
  BY TypesInReclaim DEF MemoryInv, Callers
<1>2. /\ pc[t] \notin ToOffer \cup Waits /\ pc'[t] \notin ToOffer \cup Waits
      /\ \A u \in Threads : u # t => pc'[u] = pc[u]
  BY DEF Reclaim, LoadId, LockId, ScanHandle, UnlockId, FreeNode, Goto, MemoryInv, TypeInv, Threads,
         ToOffer, Waits
<1>3. /\ \A u \in Enqueuers : pc'[u] = pc[u]
      /\ \A d \in Dequeuers : d # t => pc'[d] = pc[d]
  BY <1>2 DEF Threads, ParametersOK
<1> QED
  BY <1>1, <1>2, <1>3, DeliveryKept

LEMMA DeliveryInvariance ==
  ASSUME ParametersOK, IInv, [Next]_vars
  PROVE  DeliveryInv'
<1> USE DEF IInv
<1>1. CASE UNCHANGED vars
  BY <1>1, DeliveryKept DEF vars, queue, chain, calls, waiting
<1>2. CASE Next
  BY <1>2, Steps, BeginEnqueueDelivers, BeginDequeueDelivers, FindCellDelivers, PutDelivers,
     ReleaseDelivers, WakeDelivers, DequeuerAtCellDelivers, OfferDelivers, ReclaimDelivers
<1> QED
  BY <1>1, <1>2

\* The call of mpmc_dequeue that gets the i-th index returns what the i-th call
\* of mpmc_enqueue put, however many of either are under way: found while it
\* spins, found in exchange for its word, or put while it waits.
THEOREM ValuesComeOutInOrder ==
  ASSUME ParametersOK
  PROVE  Spec => []DeliveredInOrder
<1>1. Init => IInv
  BY MemoryInit, DeliveryInit DEF IInv
<1>2. IInv /\ [Next]_vars => IInv'
  BY MemoryKept, DeliveryInvariance DEF IInv
<1>3. IInv => DeliveredInOrder
  BY DEF IInv, DeliveryInv
<1> QED
  BY <1>1, <1>2, <1>3, PTL DEF Spec

=============================================================================
