------------------------------ MODULE NodeQueue ------------------------------
(***************************************************************************)
(* The blocking queue of linux-2023-summer/quiz3/problem2.c: an endless    *)
(* array of cells in a chain of nodes, extended by whoever comes first and *)
(* freed from the front by a dequeuer that finishes a node.                *)
(*                                                                         *)
(* A node in the chain is called by its id, which is its place in the      *)
(* chain: next of node i is NULL if and only if i is `last'.  Nodes are    *)
(* not used again after a free, so that no access to a freed node goes     *)
(* unnoticed.  A thread's spare node is nobody else's business until it is *)
(* linked, and is not modelled.  A load of next that only prepares its     *)
(* compare-and-swap is part of it.  The four expressions the source leaves *)
(* open are 0 (ZAAA), j + 1 (ZBBB), 1 (ZCCC) and N_BITS (ZDDD).            *)
(***************************************************************************)
EXTENDS Integers

CONSTANTS Enqueuers, Dequeuers,
          Calls,                 \* how many calls each thread makes
          N,                     \* cells of a node
          Threshold

ParametersOK ==
  /\ N \in Nat \ {0} /\ Threshold \in Nat \ {0}
  /\ Enqueuers \cap Dequeuers = {}
  /\ Calls \in [Enqueuers \cup Dequeuers -> Nat]

Threads == Enqueuers \cup Dequeuers
Node(i) == i \div N
NoNode == -1

\* What a cell holds: nothing, the value that an enqueuer put, or the address of
\* the word on which a dequeuer waits.
NULL == <<"NULL", 0>>
Value(i) == <<"value", i>>       \* named after the call that put it
Word(t) == <<"word of", t>>

VARIABLES pc, todo,              \* todo[t]: calls that t has still to begin
          put_index, pop_index,
          last, freed,           \* the chain is 0 .. last; what of it was freed
          init_node, init_id,
          cells,                 \* of all nodes of the chain, by index
          node,                  \* th->push of an enqueuer, th->pop of a dequeuer
          index, curr, cv,       \* of a call; in cv, also what a dequeuer returns
          futex_addr, asleep,    \* of the dequeuers that wait
          reclaimer              \* the one that has set init_id to -1, or is freeing:
                                 \* where from, where to, and whom it has looked at

calls == <<index, curr, cv>>
queue == <<put_index, pop_index, cells>>
chain == <<last, freed, init_node, init_id>>
waiting == <<futex_addr, asleep>>
vars == <<pc, todo, queue, chain, node, calls, waiting, reclaimer>>

NotReclaiming == [init_index |-> NoNode, min_node |-> NoNode, scanned |-> {}, victim |-> NoNode]

Init ==
  /\ pc = [t \in Threads |-> "call"]
  /\ todo = Calls
  /\ put_index = 0 /\ pop_index = 0
  /\ last = 0 /\ freed = {}
  /\ init_node = 0 /\ init_id = 0
  /\ cells = [i \in 0 .. N - 1 |-> NULL]
  /\ node = [t \in Threads |-> 0]
  /\ index = [t \in Threads |-> 0]
  /\ curr = [t \in Threads |-> NoNode]
  /\ cv = [t \in Threads |-> NULL]
  /\ futex_addr = [t \in Dequeuers |-> 0]
  /\ asleep = {}
  /\ reclaimer = [t \in Dequeuers |-> NotReclaiming]

Goto(t, place) == pc' = [pc EXCEPT ![t] = place]

-----------------------------------------------------------------------------
(* mpmc_find_cell *)

\* t has come to node c on its way to the one of index i, and notes it if it is that one.
Reach(t, c, i) ==
  IF c >= Node(i)
  THEN /\ Goto(t, IF t \in Enqueuers THEN "exchange" ELSE "look")
       /\ node' = [node EXCEPT ![t] = c]
       /\ curr' = [curr EXCEPT ![t] = NoNode]
  ELSE /\ Goto(t, "find")
       /\ curr' = [curr EXCEPT ![t] = c]
       /\ UNCHANGED node

\* A call begins with the value of put_index or pop_index before it was incremented.
Begin(t, i) ==
  /\ pc[t] = "call" /\ todo[t] > 0
  /\ todo' = [todo EXCEPT ![t] = @ - 1]
  /\ index' = [index EXCEPT ![t] = i]
  /\ cv' = [cv EXCEPT ![t] = NULL]
  /\ Reach(t, node[t], i)
  /\ UNCHANGED <<cells, chain, waiting, reclaimer>>

\* The next node, which t links if there is none.
FindCell(t) ==
  /\ pc[t] = "find"
  /\ last' = IF curr[t] = last THEN last + 1 ELSE last
  /\ cells' = [i \in 0 .. (last' + 1) * N - 1 |-> IF Node(i) <= last THEN cells[i] ELSE NULL]
  /\ Reach(t, curr[t] + 1, index[t])
  /\ UNCHANGED <<todo, put_index, pop_index, freed, init_node, init_id, index, cv, waiting, reclaimer>>

-----------------------------------------------------------------------------
(* mpmc_enqueue *)

BeginEnqueue(t) ==
  /\ Begin(t, put_index)
  /\ put_index' = put_index + 1
  /\ UNCHANGED pop_index

Put(t) ==
  /\ pc[t] = "exchange"
  /\ cv' = [cv EXCEPT ![t] = cells[index[t]]]
  /\ cells' = [cells EXCEPT ![index[t]] = Value(index[t])]
  /\ Goto(t, IF cells[index[t]] = NULL THEN "call" ELSE "release")
  /\ UNCHANGED <<todo, put_index, pop_index, chain, node, index, curr, waiting, reclaimer>>

\* A dequeuer waits for this cell: its word is set to zero ...
Release(t) ==
  /\ pc[t] = "release"
  /\ futex_addr' = [futex_addr EXCEPT ![cv[t][2]] = 0]
  /\ Goto(t, "wake")
  /\ UNCHANGED <<todo, queue, chain, node, calls, asleep, reclaimer>>

\* ... and whoever sleeps on that word by now is woken.
Wake(t) ==
  /\ pc[t] = "wake"
  /\ asleep' = asleep \ {cv[t][2]}
  /\ Goto(t, "call")
  /\ UNCHANGED <<todo, queue, chain, node, calls, futex_addr, reclaimer>>

-----------------------------------------------------------------------------
(* mpmc_dequeue *)

BeginDequeue(t) ==
  /\ Begin(t, pop_index)
  /\ pop_index' = pop_index + 1
  /\ UNCHANGED put_index

\* t has what it will return; the last cell of a node is left with an attempt to reclaim.
Take(t, value) ==
  /\ cv' = [cv EXCEPT ![t] = value]
  /\ Goto(t, IF (index[t] + 1) % N = 0 THEN "load_id" ELSE "call")

\* The spin loop finds something in the cell, or gives up.
LookAtCell(t) ==
  /\ pc[t] = "look"
  /\ \/ cells[index[t]] # NULL /\ Take(t, cells[index[t]])
     \/ cells[index[t]] = NULL /\ Goto(t, "offer") /\ UNCHANGED cv
  /\ UNCHANGED <<todo, queue, chain, node, index, curr, waiting, reclaimer>>

OfferToWait(t) ==
  /\ pc[t] = "offer"
  /\ cells' = [cells EXCEPT ![index[t]] = Word(t)]
  /\ futex_addr' = [futex_addr EXCEPT ![t] = 1]
  /\ \/ cells[index[t]] # NULL /\ Take(t, cells[index[t]])
     \/ cells[index[t]] = NULL /\ Goto(t, "wait") /\ UNCHANGED cv
  /\ UNCHANGED <<todo, put_index, pop_index, chain, node, index, curr, asleep, reclaimer>>

\* futex_wait returns at once if the word has changed.
FutexWait(t) ==
  /\ pc[t] = "wait"
  /\ asleep' = IF futex_addr[t] = 1 THEN asleep \cup {t} ELSE asleep
  /\ Goto(t, "woken")
  /\ UNCHANGED <<todo, queue, chain, node, calls, futex_addr, reclaimer>>

\* The word is not looked at again.
WokenMutant(t) ==
  /\ pc[t] = "woken" /\ t \notin asleep
  /\ Take(t, cells[index[t]])
  /\ UNCHANGED <<todo, queue, chain, node, index, curr, waiting, reclaimer>>

Woken(t) ==
  /\ pc[t] = "woken" /\ t \notin asleep
  /\ \/ futex_addr[t] = 1 /\ Goto(t, "wait") /\ UNCHANGED cv
     \/ futex_addr[t] # 1 /\ Take(t, cells[index[t]])
  /\ UNCHANGED <<todo, queue, chain, node, index, curr, waiting, reclaimer>>

-----------------------------------------------------------------------------
(* Reclaiming nodes *)

SetReclaimer(t, r) == reclaimer' = [reclaimer EXCEPT ![t] = r]

\* Enough nodes to free, as far as t's own place tells, and nobody else at it?
LoadId(t) ==
  /\ pc[t] = "load_id"
  /\ IF init_id >= 0 /\ node[t] - init_id >= Threshold
     THEN Goto(t, "lock_id") /\ SetReclaimer(t, [NotReclaiming EXCEPT !.init_index = init_id])
     ELSE Goto(t, "call") /\ UNCHANGED reclaimer
  /\ UNCHANGED <<todo, queue, chain, node, calls, waiting>>

LockId(t) ==
  /\ pc[t] = "lock_id"
  /\ \/ /\ init_id = reclaimer[t].init_index
        /\ init_id' = -1
        /\ SetReclaimer(t, [reclaimer[t] EXCEPT !.victim = init_node])
        /\ Goto(t, "scan")
     \/ /\ init_id # reclaimer[t].init_index
        /\ SetReclaimer(t, NotReclaiming)
        /\ Goto(t, "call")
        /\ UNCHANGED init_id
  /\ UNCHANGED <<todo, queue, last, freed, init_node, node, calls, waiting>>

\* The handles t has still to look at, those of dequeuers first; none if it has found that
\* nothing can be freed.
Unscanned(t) ==
  LET r == reclaimer[t]
  IN  IF r.scanned # {} /\ r.min_node <= r.init_index THEN {}
      ELSE IF Dequeuers \subseteq r.scanned THEN Enqueuers \ r.scanned
      ELSE Dequeuers \ r.scanned

\* The first handle decides, not the one that is furthest behind.
LeastMutant(r, h) == IF r.scanned = {} THEN node[h] ELSE r.min_node

Least(r, h) == IF r.scanned = {} \/ node[h] < r.min_node THEN node[h] ELSE r.min_node

ScanHandle(t, h) ==
  /\ pc[t] = "scan" /\ h \in Unscanned(t)
  /\ LET r == reclaimer[t]
     IN  SetReclaimer(t, [r EXCEPT !.scanned = @ \cup {h}, !.min_node = Least(r, h)])
  /\ UNCHANGED <<pc, todo, queue, chain, node, calls, waiting>>

UnlockId(t) ==
  LET r == reclaimer[t]
  IN  /\ pc[t] = "scan" /\ Unscanned(t) = {}
      /\ \/ /\ r.min_node <= r.init_index
            /\ init_id' = r.init_index
            /\ Goto(t, "call")
            /\ SetReclaimer(t, NotReclaiming)
            /\ UNCHANGED init_node
         \/ /\ r.min_node > r.init_index
            /\ init_node' = r.min_node /\ init_id' = r.min_node
            /\ Goto(t, "free")
            /\ SetReclaimer(t, [r EXCEPT !.scanned = {}])
      /\ UNCHANGED <<todo, queue, last, freed, node, calls, waiting>>

FreeNode(t) ==
  LET r == reclaimer[t]
      done == r.victim + 1 = r.min_node
  IN  /\ pc[t] = "free"
      /\ freed' = freed \cup {r.victim}
      /\ SetReclaimer(t, IF done THEN NotReclaiming ELSE [r EXCEPT !.victim = @ + 1])
      /\ Goto(t, IF done THEN "call" ELSE "free")
      /\ UNCHANGED <<todo, queue, last, init_node, init_id, node, calls, waiting>>

-----------------------------------------------------------------------------

Enqueue(t) == BeginEnqueue(t) \/ FindCell(t) \/ Put(t) \/ Release(t) \/ Wake(t)

Reclaim(t) ==
  LoadId(t) \/ LockId(t) \/ (\E h \in Threads : ScanHandle(t, h)) \/ UnlockId(t) \/ FreeNode(t)

Dequeue(t) ==
  \/ BeginDequeue(t) \/ FindCell(t) \/ LookAtCell(t) \/ OfferToWait(t)
  \/ FutexWait(t) \/ Woken(t) \/ Reclaim(t)

Next == (\E t \in Enqueuers : Enqueue(t)) \/ (\E t \in Dequeuers : Dequeue(t))

Spec == Init /\ [][Next]_vars

FairSpec ==
  Spec /\ (\A t \in Enqueuers : WF_vars(Enqueue(t))) /\ (\A t \in Dequeuers : WF_vars(Dequeue(t)))

-----------------------------------------------------------------------------
(* Properties *)

\* A dequeuer frees the nodes before the one that is furthest behind in the
\* handles, which it reads one after the other while their owners move on: no
\* thread has a node in its hands that was freed, not by its handle, on its way
\* through the chain, or for the cell it is about to touch; and no node is
\* freed twice.
NoUseAfterFree ==
  /\ init_node \notin freed
  /\ \A t \in Threads :
       /\ node[t] \notin freed
       /\ pc[t] = "find" => curr[t] \notin freed
       /\ pc[t] \in {"exchange", "look", "offer", "wait", "woken"} => Node(index[t]) \notin freed
       /\ pc[t] = "free" => reclaimer[t].victim \notin freed

\* A dequeuer that gets the i-th index returns what the i-th call of
\* mpmc_enqueue put, whether it spins, sleeps or is woken for an earlier wait.
DeliveredInOrder ==
  \A t \in Dequeuers : cv[t] # NULL => cv[t] = Value(index[t]) /\ index[t] < put_index

\* With as many calls of mpmc_enqueue as of mpmc_dequeue, all of them return:
\* no dequeuer sleeps on a cell that was filled.
AllReturned == \A t \in Threads : pc[t] = "call" /\ todo[t] = 0
CallsReturn == <>AllReturned
=============================================================================
