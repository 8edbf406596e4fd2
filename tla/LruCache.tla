------------------------------ MODULE LruCache ------------------------------
(***************************************************************************)
(* The cache of linux-2022/quiz1/problem3.c over the circular list of      *)
(* include/list.h.  A node has two links: dlink in the ring of all nodes,  *)
(* in order of use, and hlink in the ring of its hash bucket.  Calls are   *)
(* sequential, so that each is one step, but its list operations are       *)
(* carried out one by one on the pointers.                                 *)
(***************************************************************************)
EXTENDS CircularList

CONSTANTS MaxCapacity, Keys,  \* capacities are positive, keys natural numbers
          Values, None        \* None: what a Get that finds nothing returns (-1)

Nodes == 1 .. MaxCapacity
Links == {"hlink", "dlink"} \X Nodes
dhead == <<"dhead", 0>>
hheads(i) == <<"hheads", i>>
Heads == {dhead} \cup {hheads(i) : i \in 0 .. MaxCapacity - 1}

VARIABLES capacity, count,   \* nodes 1 .. count are allocated
          key, value,
          next, prev,        \* of the links and heads
          answer             \* what the last Get returned

vars == <<capacity, count, key, value, next, prev, answer>>

\* lRUCacheCreate; the fields of a node have no meaning before it is allocated.
Init ==
  /\ capacity \in 1 .. MaxCapacity
  /\ count = 0
  /\ key = [n \in Nodes |-> 0]
  /\ value = [n \in Nodes |-> None]
  /\ next = [c \in Links \cup Heads |-> c]
  /\ prev = [c \in Links \cup Heads |-> c]
  /\ answer = None

-----------------------------------------------------------------------------
(* The rings *)

Ring == [next |-> next, prev |-> prev]

SetRing(r) == next' = r.next /\ prev' = r.prev

Walk(head) == Range(list_for_each(Ring, head))

-----------------------------------------------------------------------------
(* problem3.c *)

hash(k) == k % capacity

Found(k) == {n \in {c[2] : c \in Walk(hheads(hash(k)))} : key[n] = k}

lRUCacheGet(k) ==
  /\ \/ /\ Found(k) = {}
        /\ answer' = None
        /\ UNCHANGED <<next, prev>>
     \/ \E n \in Found(k) :
          /\ answer' = value[n]
          /\ SetRing(list_move(Ring, <<"dlink", n>>, dhead))
  /\ UNCHANGED <<capacity, count, key, value>>

\* Mutant: the node stays in the bucket of its old key.
EvictMutant(n) == list_del(Ring, <<"dlink", n>>)

\* The node that was used longest ago, taken out of both rings.
Evict(n) == list_del(list_del(Ring, <<"dlink", n>>), <<"hlink", n>>)

\* The node that a new key gets, and the rings without it.
Fill(k, v, n, r) ==
  /\ key' = [key EXCEPT ![n] = k]
  /\ value' = [value EXCEPT ![n] = v]
  /\ SetRing(list_add(list_add(r, <<"dlink", n>>, dhead), <<"hlink", n>>, hheads(hash(k))))

lRUCachePut(k, v) ==
  /\ \/ \E n \in Found(k) :
          /\ SetRing(list_move(Ring, <<"dlink", n>>, dhead))
          /\ value' = [value EXCEPT ![n] = v]
          /\ UNCHANGED <<key, count>>
     \/ /\ Found(k) = {} /\ count = capacity
        /\ LET n == prev[dhead][2] IN Fill(k, v, n, Evict(n))
        /\ UNCHANGED count
     \/ /\ Found(k) = {} /\ count < capacity
        /\ Fill(k, v, count + 1, Ring)
        /\ count' = count + 1
  /\ UNCHANGED <<capacity, answer>>

Next == \E k \in Keys : lRUCacheGet(k) \/ \E v \in Values : lRUCachePut(k, v)

Spec == Init /\ [][Next]_vars

-----------------------------------------------------------------------------
(* Properties *)

\* The two kinds of rings agree: the allocated nodes are all in the ring of
\* dhead and each in the ring of the bucket of its key and in no other, and the pointers of
\* a ring are each other's inverse.  A node that is used again for another key must
\* have left the bucket of the old one.
RingsAgree ==
  /\ Walk(dhead) = {"dlink"} \X (1 .. count)
  /\ \A i \in 0 .. capacity - 1 :
       Walk(hheads(i)) = {"hlink"} \X {n \in 1 .. count : hash(key[n]) = i}
  /\ \A c \in Heads \cup {<<l, n>> : l \in {"hlink", "dlink"}, n \in 1 .. count} :
       prev[next[c]] = c /\ next[prev[c]] = c

\* The allocated nodes in the order of the ring of dhead, with their contents.
Recent ==
  LET At[i \in 1 .. count] == next[IF i = 1 THEN dhead ELSE At[i - 1]]
  IN  [i \in 1 .. count |-> <<key[At[i][2]], value[At[i][2]]>>]

\* Every call is a step of the cache with least-recently-used eviction: Get
\* returns the value last put, unless capacity other keys were used since.
L == INSTANCE RecencyCache WITH recent <- Recent
ImplementsLru == L!Spec
=============================================================================
