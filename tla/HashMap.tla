------------------------------- MODULE HashMap -------------------------------
(***************************************************************************)
(* One bucket of the lock-free hash map of linux-2022/quiz6/problem2       *)
(* (hashmap.c), used by the threads of its test (test-hashmap.c): add_vals *)
(* puts keys of its own, add_val puts and del_val deletes a common key,    *)
(* and the map is read while they run.  Buckets have nothing in common but *)
(* the length, so one of them stands for all.                              *)
(*                                                                         *)
(* A bucket is a linked list.  Each load of a bucket head or of a next     *)
(* field and each compare-and-swap is a step; what a call does to a node   *)
(* of its own before linking it is part of the step that follows.  Nodes   *)
(* are never given back to malloc while threads run (free_later), so an    *)
(* address is used once.  Names that ClockGraph has, too, begin with Map:  *)
(* GraphAndMapMC extends both.                                             *)
(***************************************************************************)
EXTENDS Integers, Sequences, FiniteSets

CONSTANTS Adders,         \* threads of add_vals: adder t puts the key t, once
          Putters,        \* threads of add_val
          Deleters,       \* threads of del_val
          Getters,        \* threads that read the adders' keys
          Churned,        \* the keys of add_val and del_val
          PutsEach, DeletesEach,   \* N_LOOPS of either: bounds the heap
          NoKey           \* between calls

ASSUME KeysAssumption == Adders \cap Churned = {}
ASSUME ThreadsAssumption ==        \* a thread runs one of the four functions
  /\ IsFiniteSet(Adders) /\ IsFiniteSet(Putters) /\ IsFiniteSet(Deleters)
  /\ Adders \cap (Putters \cup Deleters \cup Getters) = {}
  /\ Putters \cap (Deleters \cup Getters) = {} /\ Deleters \cap Getters = {}
ASSUME LoopsAssumption == PutsEach \in Nat /\ DeletesEach \in Nat

Callers == Adders \cup Putters \cup Deleters \cup Getters
Keys == Adders \cup Churned
ASSUME NoKeyAssumption == NoKey \notin Keys
Null == 0

VARIABLES bucket,       \* map->buckets[bucket_index]
          nodes,        \* the heap: node i is nodes[i]; retired counts destroy_node
          length,       \* map->length, a counter modulo 2^32 in the code
          pc, todo,
          key,          \* the argument of thread t's call
          kv, prev,     \* kv (put), match (del), n (get), and the node before it
          head, new,    \* put: the head it saw, and the node it created
          next,         \* del: match->next as read for the compare-and-swap
          settled       \* history: the key was in the map when this get began

heap == <<bucket, nodes, length>>
put == <<head, new>>
mapVars == <<heap, pc, todo, key, kv, prev, put, next, settled>>

MapInit ==
  /\ bucket = Null /\ nodes = << >> /\ length = 0
  /\ pc = [t \in Callers |-> "idle"]
  /\ todo = [t \in Callers |-> IF t \in Putters THEN PutsEach
                               ELSE IF t \in Deleters THEN DeletesEach ELSE 1]
  /\ key = [t \in Callers |-> NoKey]
  /\ kv = [t \in Callers |-> Null] /\ prev = [t \in Callers |-> Null]
  /\ head = [t \in Adders \cup Putters |-> Null]
  /\ new = [t \in Adders \cup Putters |-> Null]
  /\ next = [t \in Deleters |-> Null]
  /\ settled = [t \in Getters |-> FALSE]

MapGoto(t, label) == pc' = [pc EXCEPT ![t] = label]

Forget(f, t) == [x \in DOMAIN f |-> IF x = t THEN Null ELSE f[x]]

\* The call ends, and its locals with it.
Return(t) ==
  /\ MapGoto(t, "idle")
  /\ todo' = [todo EXCEPT ![t] = @ - 1]
  /\ key' = [key EXCEPT ![t] = NoKey]
  /\ kv' = Forget(kv, t) /\ prev' = Forget(prev, t)
  /\ head' = Forget(head, t) /\ new' = Forget(new, t) /\ next' = Forget(next, t)
  /\ settled' = [x \in DOMAIN settled |-> IF x = t THEN FALSE ELSE settled[x]]

\* The retry loop begins again with the locals as they are.
Retry(t) == /\ MapGoto(t, "retry")
            /\ UNCHANGED <<todo, key, prev, put, next, settled>>

\* The first load of a call, or of a further round of its retry loop.
Begins(t, ks) ==
  \/ pc[t] = "idle" /\ todo[t] > 0 /\ \E k \in ks : key' = [key EXCEPT ![t] = k]
  \/ pc[t] = "retry" /\ UNCHANGED key

\* The link behind node p; the bucket itself if there is no p.
Link(p) == IF p = Null THEN bucket ELSE nodes[p].next

SetLink(p, i, heapNodes) ==
  IF p = Null THEN bucket' = i /\ nodes' = heapNodes
              ELSE nodes' = [heapNodes EXCEPT ![p].next = i] /\ UNCHANGED bucket

Found(t) == kv[t] # Null /\ nodes[kv[t]].key = key[t]

\* The walk of all three operations.
Walk(t) ==
  /\ pc[t] = "walk" /\ kv[t] # Null /\ ~Found(t)
  /\ prev' = [prev EXCEPT ![t] = kv[t]]
  /\ kv' = [kv EXCEPT ![t] = nodes[kv[t]].next]
  /\ UNCHANGED <<heap, pc, todo, key, put, next, settled>>

-----------------------------------------------------------------------------
(* hashmap_put *)

\* An empty bucket is not walked, and kv keeps what a failed compare-and-swap
\* of the previous round left in it.
PutBegins(t) ==
  /\ Begins(t, IF t \in Adders THEN {t} ELSE Churned)
  /\ head' = [head EXCEPT ![t] = bucket]
  /\ prev' = [prev EXCEPT ![t] = Null]
  /\ IF bucket # Null
     THEN MapGoto(t, "walk") /\ kv' = [kv EXCEPT ![t] = bucket]
     ELSE MapGoto(t, IF kv[t] = Null THEN "add" ELSE "link") /\ UNCHANGED kv
  /\ UNCHANGED <<heap, todo, new, next, settled>>

\* The node to link, created in the first round only, with its next field set.
NewNode(t) == IF new[t] = Null THEN Len(nodes) + 1 ELSE new[t]

WithNewNode(t, n) ==
  IF new[t] = Null THEN Append(nodes, [key |-> key[t], next |-> n, retired |-> 0])
                   ELSE [nodes EXCEPT ![new[t]].next = n]

\* Mutant: what follows the replaced node is not kept.
LinkNewMutant(t) ==
  /\ \/ pc[t] = "walk" /\ Found(t)
     \/ pc[t] = "link"
  /\ new' = [new EXCEPT ![t] = NewNode(t)]
  /\ nodes' = WithNewNode(t, Null)
  /\ MapGoto(t, "replace")
  /\ UNCHANGED <<bucket, length, todo, key, kv, prev, head, next, settled>>

LinkNew(t) ==
  /\ \/ pc[t] = "walk" /\ Found(t)
     \/ pc[t] = "link"
  /\ new' = [new EXCEPT ![t] = NewNode(t)]
  /\ nodes' = WithNewNode(t, nodes[kv[t]].next)
  /\ MapGoto(t, "replace")
  /\ UNCHANGED <<bucket, length, todo, key, kv, prev, head, next, settled>>

\* The compare-and-swap that replaces kv; destroy_node if it succeeds.
Replace(t) ==
  /\ pc[t] = "replace"
  /\ IF Link(prev[t]) = kv[t]
     THEN /\ SetLink(prev[t], new[t], [nodes EXCEPT ![kv[t]].retired = @ + 1])
          /\ Return(t)
     ELSE /\ kv' = [kv EXCEPT ![t] = Link(prev[t])]
          /\ Retry(t) /\ UNCHANGED <<bucket, nodes>>
  /\ UNCHANGED length

\* The key was not found: the new node goes to the front.
Add(t) ==
  /\ \/ pc[t] = "walk" /\ kv[t] = Null
     \/ pc[t] = "add"
  /\ new' = [new EXCEPT ![t] = NewNode(t)]
  /\ nodes' = WithNewNode(t, head[t])
  /\ IF bucket = head[t]
     THEN bucket' = NewNode(t) /\ MapGoto(t, "count")
     ELSE UNCHANGED bucket /\ MapGoto(t, "retry")
  /\ UNCHANGED <<length, todo, key, kv, prev, head, next, settled>>

CountAdded(t) ==
  /\ pc[t] = "count"
  /\ length' = length + 1
  /\ Return(t)
  /\ UNCHANGED <<bucket, nodes>>

-----------------------------------------------------------------------------
(* hashmap_del *)

DelBegins(t) ==
  /\ Begins(t, Churned)
  /\ kv' = [kv EXCEPT ![t] = bucket] /\ prev' = [prev EXCEPT ![t] = Null]
  /\ MapGoto(t, "walk")
  /\ UNCHANGED <<heap, todo, put, next, settled>>

NothingToDelete(t) ==
  /\ pc[t] = "walk" /\ kv[t] = Null
  /\ Return(t)
  /\ UNCHANGED heap

\* The argument &match->next is read before the compare-and-swap.
ReadNext(t) ==
  /\ pc[t] = "walk" /\ Found(t)
  /\ next' = [next EXCEPT ![t] = nodes[kv[t]].next]
  /\ MapGoto(t, "unlink")
  /\ UNCHANGED <<heap, todo, key, kv, prev, put, settled>>

\* Mutant: a store in place of the compare-and-swap.
UnlinkMutant(t) ==
  /\ pc[t] = "unlink"
  /\ SetLink(prev[t], next[t], nodes)
  /\ MapGoto(t, "destroy")
  /\ UNCHANGED <<length, todo, key, kv, prev, put, next, settled>>

Unlink(t) ==
  /\ pc[t] = "unlink"
  /\ IF Link(prev[t]) = kv[t]
     THEN /\ SetLink(prev[t], next[t], nodes)
          /\ MapGoto(t, "destroy") /\ UNCHANGED <<todo, key, kv, prev, put, next, settled>>
     ELSE /\ kv' = [kv EXCEPT ![t] = Link(prev[t])]
          /\ Retry(t) /\ UNCHANGED <<bucket, nodes>>
  /\ UNCHANGED length

\* The deletion is counted, and the node handed to destroy_node.
Destroy(t) ==
  /\ pc[t] = "destroy"
  /\ length' = length - 1
  /\ nodes' = [nodes EXCEPT ![kv[t]].retired = @ + 1]
  /\ Return(t)
  /\ UNCHANGED bucket

-----------------------------------------------------------------------------
(* hashmap_get *)

Holds(t) == pc[t] = "idle" /\ todo[t] = 0     \* adder t's put has returned

GetBegins(t) ==
  /\ Begins(t, Adders)
  /\ kv' = [kv EXCEPT ![t] = bucket]
  /\ settled' = [settled EXCEPT ![t] = \E a \in Adders : a = key'[t] /\ Holds(a)]
  /\ MapGoto(t, "walk")
  /\ UNCHANGED <<heap, todo, prev, put, next>>

GetReturns(t) ==
  /\ pc[t] = "walk" /\ (kv[t] = Null \/ Found(t))
  /\ Return(t)
  /\ UNCHANGED heap

-----------------------------------------------------------------------------
Put(t) == PutBegins(t) \/ Walk(t) \/ LinkNew(t) \/ Replace(t) \/ Add(t) \/ CountAdded(t)
Del(t) == DelBegins(t) \/ Walk(t) \/ NothingToDelete(t) \/ ReadNext(t) \/ Unlink(t)
            \/ Destroy(t)
Get(t) == GetBegins(t) \/ Walk(t) \/ GetReturns(t)

MapNext == \/ \E t \in Adders \cup Putters : Put(t)
           \/ \E t \in Deleters : Del(t)
           \/ \E t \in Getters : Get(t)

MapSpec == MapInit /\ [][MapNext]_mapVars

-----------------------------------------------------------------------------
(* Properties *)

Addresses == 0 .. Len(nodes)

MapTypeOK ==
  /\ bucket \in Addresses /\ length \in Int
  /\ \A i \in DOMAIN nodes : /\ nodes[i].key \in Keys /\ nodes[i].next \in Addresses
                             /\ nodes[i].retired \in Nat
  /\ \A t \in Callers : /\ kv[t] \in Addresses /\ prev[t] \in Addresses
                        /\ key[t] \in Keys \cup {NoKey} /\ todo[t] \in Nat
  /\ \A t \in Adders \cup Putters : head[t] \in Addresses /\ new[t] \in Addresses
  /\ \A t \in Deleters : next[t] \in Addresses
  /\ settled \in [Getters -> BOOLEAN]
  /\ \A t \in Callers : pc[t] \in {"link", "replace", "unlink", "destroy"} => kv[t] # Null

\* The nodes a walk from i passes, as long as the list is not longer than the heap.
Chain(i) ==
  LET reach[n \in 0 .. Len(nodes)] ==
        IF n = 0 THEN {i} \ {Null}
        ELSE reach[n - 1] \cup ({nodes[j].next : j \in reach[n - 1]} \ {Null})
  IN  reach[Len(nodes)]

InMap == Chain(bucket)

\* test-hashmap.c "ensure they aren't clobbered": whatever is put, replaced and
\* deleted around it, a key that was added and never deleted stays in the map,
\* and no key is in it twice.  What replacements and deletions hand to
\* destroy_node is out of the map for good, or memory that is in use is released.
NothingClobbered ==
  /\ \A t \in Adders : Holds(t) => \E i \in InMap : nodes[i].key = t
  /\ \A i, j \in InMap : nodes[i].key = nodes[j].key => i = j
  /\ \A i \in InMap : nodes[i].retired = 0

\* hashmap.h:53: hashmap_del "is guaranteed to return true just once, if
\* multiple threads are attempting to delete the same key": a node is deleted or
\* replaced by one call only, and destroyed once.
DeletedOnce == \A i \in DOMAIN nodes : nodes[i].retired <= 1

\* length counts the nodes in the map, up to the calls that have changed the
\* list and not yet the counter.
LengthCounts ==
  /\ MapTypeOK
  /\ length + Cardinality({t \in Adders \cup Putters : pc[t] = "count"})
       = Cardinality(InMap) + Cardinality({t \in Deleters : pc[t] = "destroy"})

\* A get that began when its key was in the map does not miss it, even while it
\* stands on nodes that others unlink.
GetFindsSettledKey == \A t \in Getters : settled[t] /\ pc[t] = "walk" => kv[t] # Null
=============================================================================
