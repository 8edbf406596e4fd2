--------------------------- MODULE HashMapProofs ---------------------------
(***************************************************************************)
(* Proofs about HashMap for any number of threads, loops and keys that are *)
(* only added, if one key is put and deleted all the time, as in the test  *)
(* of the map: nothing is lost, duplicated, destroyed twice or miscounted. *)
(***************************************************************************)
EXTENDS HashMap, FiniteSetTheorems, WellFoundedInduction, TLAPS

OneChurnedKey == \A j, k \in Churned : j = k

Node == [key : Keys, next : Nat, retired : Nat]
Puts == Adders \cup Putters
Churners == Putters \cup Deleters

\* The nodes that are, or were, in the map.
Published == {i \in DOMAIN nodes : \A t \in Puts : new[t] = i => pc[t] = "count"}
Links == Published \cup {Null}
HasChurnedKey(i) == nodes[i].key \in Churned

KeysOf(t) == IF t \in Adders THEN {t} ELSE IF t \in Getters THEN Adders ELSE Churned

Places == {"idle", "walk", "link", "replace", "add", "count", "unlink", "destroy", "retry"}

HeapTyped == bucket \in Nat /\ nodes \in Seq(Node) /\ length \in Int

LocalsTyped ==
  /\ pc \in [Callers -> Places] /\ todo \in [Callers -> Nat] /\ key \in [Callers -> Keys \cup {NoKey}]
  /\ kv \in [Callers -> Nat] /\ prev \in [Callers -> Nat]
  /\ head \in [Puts -> Nat] /\ new \in [Puts -> Nat] /\ next \in [Deleters -> Nat]
  /\ settled \in [Getters -> BOOLEAN]

TypeInv == HeapTyped /\ LocalsTyped

ControlOK ==
  /\ \A t \in Adders : pc[t] \in {"idle", "walk", "add", "count", "retry"} /\ todo[t] <= 1
  /\ \A t \in Putters : pc[t] \in {"idle", "walk", "link", "replace", "add", "count", "retry"}
  /\ \A t \in Deleters : pc[t] \in {"idle", "walk", "unlink", "destroy", "retry"}
  /\ \A t \in Getters : pc[t] \in {"idle", "walk"}
  /\ \A t \in Callers : IF pc[t] = "idle" THEN kv[t] = Null
                                           ELSE todo[t] > 0 /\ key[t] \in KeysOf(t)

\* What threads and nodes refer to has been in the map.
LinksOf(t) ==
  /\ kv[t] \in Links /\ prev[t] \in Links
  /\ t \in Puts => head[t] \in Links
  /\ t \in Deleters => next[t] \in Links
  /\ t \in Churners /\ prev[t] # Null => ~HasChurnedKey(prev[t])

LinksOK ==
  /\ bucket \in Links
  /\ \A i \in DOMAIN nodes : nodes[i].next \in Links
  /\ \A t \in Callers : LinksOf(t)

\* The node that a put has created is its own until it is in the map.
NewNodeOf(t) ==
  /\ pc[t] = "idle" => new[t] = Null
  /\ pc[t] \in {"replace", "count"} => new[t] # Null
  /\ new[t] # Null => /\ new[t] \in DOMAIN nodes /\ nodes[new[t]].key = key[t]
                      /\ pc[t] # "count" => nodes[new[t]].retired = 0
                      /\ \A u \in Puts : new[u] = new[t] => u = t

\* Nodes of keys that are only added never leave.
AddedNodesOK ==
  /\ \A i \in DOMAIN nodes : ~HasChurnedKey(i) =>
       /\ Holds(nodes[i].key) \/ new[nodes[i].key] = i
       /\ nodes[i].retired = 0
       /\ i \in Published => i \in InMap
  /\ \A i, j \in DOMAIN nodes : nodes[i].key = nodes[j].key => i = j \/ HasChurnedKey(i)
  /\ \A t \in Adders : Holds(t) => \E i \in Published : nodes[i].key = t

\* Nodes of the churned key leave once, and are destroyed once after that.
ChurnedNodesOK ==
  /\ \A i, j \in InMap : HasChurnedKey(i) /\ HasChurnedKey(j) => i = j
  /\ \A i \in DOMAIN nodes : nodes[i].retired <= 1
  /\ \A i \in InMap : nodes[i].retired = 0
  /\ \A t, u \in Deleters : pc[t] = "destroy" /\ pc[u] = "destroy" /\ kv[t] = kv[u] => t = u

\* One link leads to a node of the map.
OneWayIn == \A i, j \in InMap \cup {Null} : Link(i) = Link(j) /\ Link(i) # Null => i = j

\* What a call has read of the node that it is going to replace or unlink, or
\* has unlinked.
FoundBy(t) ==
  /\ pc[t] \in {"link", "replace", "unlink", "destroy"} => kv[t] # Null /\ HasChurnedKey(kv[t])
  /\ pc[t] = "replace" => nodes[new[t]].next = nodes[kv[t]].next
  /\ pc[t] = "unlink" => next[t] = nodes[kv[t]].next
  /\ pc[t] = "destroy" => kv[t] \notin InMap /\ nodes[kv[t]].retired = 0

\* An adder keeps no kv from one round to the next.
AdderWalks(t) == pc[t] # "walk" => kv[t] = Null

\* If the bucket is as it was when the walk began, the churned key is where
\* the walk gets to, or nowhere.
NotMissedBy(t) ==
  /\ pc[t] = "walk" /\ bucket = head[t] /\ (kv[t] = Null \/ ~HasChurnedKey(kv[t])) =>
       \A i \in InMap : HasChurnedKey(i) => i \in Chain(kv[t])
  /\ pc[t] = "add" => head[t] = Null

AheadOf(t) == settled[t] /\ pc[t] = "walk" => \E i \in Chain(kv[t]) : nodes[i].key = key[t]

NodesOK == AddedNodesOK /\ ChurnedNodesOK /\ OneWayIn

ThreadOK(t) ==
  /\ t \in Puts => NewNodeOf(t)
  /\ t \in Churners => FoundBy(t)
  /\ t \in Adders => AdderWalks(t)
  /\ t \in Putters => NotMissedBy(t)
  /\ t \in Getters => AheadOf(t)

ThreadsOK == \A t \in Callers : ThreadOK(t)

IInv == TypeInv /\ ControlOK /\ LinksOK /\ NodesOK /\ ThreadsOK

-----------------------------------------------------------------------------
(* What a walk passes, for any heap ns *)

Reach(ns, i) ==
  LET reach[n \in 0 .. Len(ns)] ==
        IF n = 0 THEN {i} \ {Null}
        ELSE reach[n - 1] \cup ({ns[j].next : j \in reach[n - 1]} \ {Null})
  IN  reach[Len(ns)]

Closed(ns, S) == S \subseteq DOMAIN ns /\ \A j \in S : ns[j].next \in S \cup {Null}

\* X and what its nodes point to.
Step(ns, X) == X \cup ({ns[j].next : j \in X} \ {Null})

\* The equations of the definition of Reach.
Steps(f, ns, A, N) == f = [n \in 0 .. N |-> IF n = 0 THEN A ELSE Step(ns, f[n - 1])]

LinkedHeap(ns) == ns \in Seq(Node) /\ \A j \in DOMAIN ns : ns[j].next \in 0 .. Len(ns)

\* A set of numbers with 0 and the successor of each is all of them.
LEMMA Induction ==
  ASSUME NEW S \in SUBSET Nat, 0 \in S, \A n \in S : n + 1 \in S
  PROVE  S = Nat
<1> DEFINE Less == {pair \in Nat \X Nat : pair[1] < pair[2]}
           T == Nat \ S
<1> SUFFICES ASSUME T # {} PROVE FALSE
  OBVIOUS
<1>1. IsWellFoundedOn(Less, Nat)
  BY NatLessThanWellFounded DEF OpToRel
<1>2. PICK k \in T : \A m \in T : ~(<<m, k>> \in Less)
  <2> HIDE DEF Less
  <2> T \subseteq Nat
    OBVIOUS
  <2> HIDE DEF T
  <2> QED
    BY <1>1, WFMin
<1>3. k # 0 /\ k - 1 \in Nat
  OBVIOUS
<1>5. k - 1 \notin T
  <2>1. <<k - 1, k>> \in Less
    BY <1>3
  <2> QED
    BY <1>2, <2>1
<1>4. k - 1 + 1 \in S
  BY <1>3, <1>5
<1> QED
  BY <1>3, <1>4

\* The nodes within n steps: a function with the equation of the definition exists.
LEMMA StepsExist ==
  ASSUME NEW ns, NEW A, NEW N \in Nat
  PROVE  \E f : Steps(f, ns, A, N)
<1> DEFINE Is(f, m) == f = [n \in 0 .. m |-> IF n = 0 THEN A ELSE Step(ns, f[n - 1])]
           S == {m \in Nat : \E f : Is(f, m)}
<1>1. 0 \in S
  <2>1. Is([n \in 0 .. 0 |-> A], 0)
    OBVIOUS
  <2> QED
    BY <2>1
<1>2. ASSUME NEW m \in S PROVE m + 1 \in S
  <2>1. PICK f : Is(f, m)
    OBVIOUS
  <2>2. DOMAIN f = 0 .. m /\ f[0] = A /\ \A n \in 1 .. m : f[n] = Step(ns, f[n - 1])
    BY <2>1
  <2> DEFINE g == [n \in 0 .. m + 1 |-> IF n = m + 1 THEN Step(ns, f[m]) ELSE f[n]]
  <2>3. \A n \in 0 .. m + 1 : g[n] = IF n = 0 THEN A ELSE Step(ns, g[n - 1])
    BY <2>2
  <2>4. g = [n \in 0 .. m + 1 |-> IF n = 0 THEN A ELSE Step(ns, g[n - 1])]
    BY <2>3
  <2> HIDE DEF g
  <2>5. Is(g, m + 1)
    BY <2>4
  <2> QED
    BY <2>5
<1>3. S = Nat
  <2> HIDE DEF S
  <2> QED
    BY <1>1, <1>2, Induction DEF S
<1> QED
  BY <1>3 DEF Steps

LEMMA StepsOfReach ==
  ASSUME NEW ns, ns \in Seq(Node), NEW i
  PROVE  \E f : Reach(ns, i) = f[Len(ns)] /\ Steps(f, ns, {i} \ {Null}, Len(ns))
<1> DEFINE Is(f) == Steps(f, ns, {i} \ {Null}, Len(ns))
           f0 == CHOOSE f : Is(f)
<1>1. Is(f0)
  <2>1. \E f : Is(f)
    <3>1. Len(ns) \in Nat
      OBVIOUS
    <3> QED
      BY <3>1, StepsExist
  <2> QED
    BY <2>1
<1>2. Reach(ns, i) = f0[Len(ns)]
  BY DEF Reach, Step, Steps
<1> HIDE DEF f0
<1> QED
  BY <1>1, <1>2

LEMMA StepByStep ==
  ASSUME NEW N \in Nat, NEW ns, NEW A, NEW f, Steps(f, ns, A, N)
  PROVE  f[0] = A /\ \A n \in 1 .. N : f[n] = Step(ns, f[n - 1])
<1>1. 0 \in 0 .. N /\ \A n \in 1 .. N : n \in 0 .. N /\ n # 0
  OBVIOUS
<1>2. \A n \in 0 .. N : f[n] = IF n = 0 THEN A ELSE Step(ns, f[n - 1])
  BY DEF Steps
<1> QED
  BY <1>1, <1>2

LEMMA ReachWithin ==
  ASSUME NEW ns, ns \in Seq(Node), NEW i, NEW S,
         i \in S \cup {Null}, \A j \in S : ns[j].next \in S \cup {Null}
  PROVE  Reach(ns, i) \subseteq S
<1>0. Len(ns) \in Nat
  OBVIOUS
<1>9. PICK f : Reach(ns, i) = f[Len(ns)] /\ Steps(f, ns, {i} \ {Null}, Len(ns))
  BY StepsOfReach
<1>1. f[0] = {i} \ {Null} /\ \A n \in 1 .. Len(ns) : f[n] = Step(ns, f[n - 1])
  BY <1>0, <1>9, StepByStep
<1> DEFINE T == {n \in Nat : n <= Len(ns) => f[n] \subseteq S}
<1>2. 0 \in T
  BY <1>1
<1>3. ASSUME NEW n \in T PROVE n + 1 \in T
  <2> SUFFICES ASSUME n + 1 <= Len(ns) PROVE f[n + 1] \subseteq S
    OBVIOUS
  <2>1. n + 1 \in 1 .. Len(ns) /\ n + 1 - 1 = n /\ f[n] \subseteq S
    BY <1>0
  <2> QED
    BY <1>1, <2>1 DEF Step
<1>4. T = Nat
  <2> HIDE DEF T
  <2> QED
    BY <1>2, <1>3, Induction DEF T
<1> QED
  BY <1>0, <1>9, <1>4

\* As many steps as there are nodes are enough.
LEMMA ReachCloses ==
  ASSUME NEW ns, LinkedHeap(ns), NEW i \in 0 .. Len(ns)
  PROVE  Closed(ns, Reach(ns, i)) /\ i \in Reach(ns, i) \cup {Null}
<1> USE DEF LinkedHeap
<1> DEFINE N == Len(ns)
<1>0. N \in Nat /\ DOMAIN ns = 1 .. N
  OBVIOUS
<1>9. PICK f : Reach(ns, i) = f[N] /\ Steps(f, ns, {i} \ {Null}, N)
  BY StepsOfReach
<1>1. Reach(ns, i) = f[N] /\ f[0] = {i} \ {Null} /\ \A n \in 1 .. N : f[n] = Step(ns, f[n - 1])
  BY <1>0, <1>9, StepByStep
<1> HIDE DEF N
<1>2. \A n \in 0 .. N : f[n] \subseteq 1 .. N
  <2> DEFINE T == {n \in Nat : n <= N => f[n] \subseteq 1 .. N}
  <2>1. 0 \in T
    BY <1>0, <1>1 DEF N, Null
  <2>2. ASSUME NEW n \in T PROVE n + 1 \in T
    <3> SUFFICES ASSUME n + 1 <= N PROVE f[n + 1] \subseteq 1 .. N
      OBVIOUS
    <3>1. n + 1 \in 1 .. N /\ n + 1 - 1 = n /\ f[n] \subseteq 1 .. N
      BY <1>0
    <3>2. \A j \in f[n] : ns[j].next \in 0 .. N
      BY <3>1, <1>0 DEF N
    <3>3. f[n + 1] = Step(ns, f[n])
      BY <1>1, <3>1
    <3> QED
      BY <3>1, <3>2, <3>3 DEF Step, Null
  <2>3. T = Nat
    <3> HIDE DEF T
    <3> QED
      BY <2>1, <2>2, Induction DEF T
  <2> QED
    BY <2>3
\* Up to the first step that adds nothing, each step adds a node.
<1>3. ASSUME \A n \in 1 .. N : f[n] # f[n - 1], i # Null
      PROVE  FALSE
  <2> DEFINE T == {n \in Nat : n <= N => Cardinality(f[n]) >= n + 1}
  <2>0. \A n \in 0 .. N : IsFiniteSet(f[n]) /\ Cardinality(f[n]) \in Nat /\ Cardinality(f[n]) <= N
    <3>1. IsFiniteSet(1 .. N) /\ Cardinality(1 .. N) = N
      <4>1. 1 \in Int /\ N \in Int /\ (IF 1 > N THEN 0 ELSE N - 1 + 1) = N
        BY <1>0
      <4> QED
        BY <4>1, FS_Interval
    <3> QED
      BY <1>2, <3>1, FS_Subset, FS_CardinalityType
  <2>1. 0 \in T
    <3>1. f[0] = {i}
      BY <1>1, <1>3
    <3>2. Cardinality({i}) = 1
      BY FS_Singleton
    <3>3. Cardinality(f[0]) >= 0 + 1
      BY <3>1, <3>2
    <3> QED
      BY <3>3
  <2>2. ASSUME NEW n \in T PROVE n + 1 \in T
    <3> SUFFICES ASSUME n + 1 <= N PROVE Cardinality(f[n + 1]) >= n + 2
      OBVIOUS
    <3>1. n + 1 \in 1 .. N /\ n \in 0 .. N /\ n + 1 \in 0 .. N /\ n + 1 - 1 = n
      BY <1>0
    <3>2. f[n] \subseteq f[n + 1] /\ f[n] # f[n + 1]
      BY <1>1, <1>3, <3>1 DEF Step
    <3>3. Cardinality(f[n]) < Cardinality(f[n + 1])
      BY <2>0, <3>1, <3>2, FS_Subset
    <3>4. Cardinality(f[n]) \in Nat /\ Cardinality(f[n + 1]) \in Nat
      BY <2>0, <3>1
    <3>5. Cardinality(f[n]) >= n + 1
      BY <1>0, <3>1
    <3> QED
      BY <3>3, <3>4, <3>5
  <2>3. T = Nat
    <3> HIDE DEF T
    <3> QED
      BY <2>1, <2>2, Induction DEF T
  <2>4. N \in T /\ N \in 0 .. N
    BY <1>0, <2>3
  <2> QED
    BY <1>0, <2>0, <2>4
\* From there on nothing is added.
<1>4. ASSUME NEW m \in 1 .. N, f[m] = f[m - 1]
      PROVE  f[N] = f[m]
  <2> DEFINE T == {n \in Nat : m + n <= N => f[m + n] = f[m]}
  <2>1. 0 \in T
    BY <1>0
  <2>2. ASSUME NEW n \in T PROVE n + 1 \in T
    <3> SUFFICES ASSUME m + (n + 1) <= N PROVE f[m + (n + 1)] = f[m]
      OBVIOUS
    <3>1. m + n + 1 \in 1 .. N /\ m + n + 1 - 1 = m + n /\ f[m + n] = f[m] /\ m + (n + 1) = m + n + 1
      BY <1>0
    <3>2. f[m + n + 1] = Step(ns, f[m])
      BY <1>1, <3>1
    <3> QED
      BY <1>1, <1>4, <3>1, <3>2
  <2>3. T = Nat
    <3> HIDE DEF T
    <3> QED
      BY <2>1, <2>2, Induction DEF T
  <2>4. N - m \in Nat /\ m + (N - m) = N
    BY <1>0
  <2>5. N - m \in T
    <3> HIDE DEF T
    <3> QED
      BY <2>3, <2>4
  <2> QED
    BY <2>4, <2>5, <1>0
<1>5. \A n \in 0 .. N : f[0] \subseteq f[n]
  <2> DEFINE T == {n \in Nat : n <= N => f[0] \subseteq f[n]}
  <2>1. 0 \in T
    OBVIOUS
  <2>2. ASSUME NEW n \in T PROVE n + 1 \in T
    <3> SUFFICES ASSUME n + 1 <= N PROVE f[0] \subseteq f[n + 1]
      OBVIOUS
    <3>1. n + 1 \in 1 .. N /\ n + 1 - 1 = n /\ f[0] \subseteq f[n]
      BY <1>0
    <3> QED
      BY <1>1, <3>1 DEF Step
  <2>3. T = Nat
    <3> HIDE DEF T
    <3> QED
      BY <2>1, <2>2, Induction DEF T
  <2> QED
    BY <2>3
<1>6. f[N] = Step(ns, f[N])
  <2>1. CASE i = Null
    <3>1. Reach(ns, i) \subseteq {}
      <4> DEFINE S == {}
      <4>1. i \in S \cup {Null} /\ \A j \in S : ns[j].next \in S \cup {Null}
        BY <2>1
      <4> HIDE DEF S
      <4>2. Reach(ns, i) \subseteq S
        BY <4>1, ReachWithin
      <4> QED
        BY <4>2 DEF S
    <3> QED
      BY <1>1, <3>1 DEF Step
  <2>2. CASE i # Null
    <3>1. PICK m \in 1 .. N : f[m] = f[m - 1]
      BY <1>3, <2>2
    <3>2. f[N] = f[m] /\ f[m] = Step(ns, f[m])
      BY <1>1, <1>4, <3>1
    <3> QED
      BY <3>2
  <2> QED
    BY <2>1, <2>2
<1>7. N \in 0 .. N
  BY <1>0
<1> QED
  BY <1>0, <1>1, <1>2, <1>5, <1>6, <1>7 DEF Closed, Step

LEMMA ReachOfNull == ASSUME NEW ns, ns \in Seq(Node) PROVE Reach(ns, Null) = {}
<1> DEFINE S == {}
<1>1. Null \in S \cup {Null} /\ \A j \in S : ns[j].next \in S \cup {Null}
  OBVIOUS
<1> HIDE DEF S
<1>2. Reach(ns, Null) \subseteq S
  BY <1>1, ReachWithin
<1> QED
  BY <1>2 DEF S

\* A walk does not see what happens to nodes that it does not pass.
LEMMA ReachUnchanged ==
  ASSUME NEW ns, LinkedHeap(ns), NEW nt, LinkedHeap(nt), Len(ns) <= Len(nt), NEW i \in 0 .. Len(ns),
         \A j \in Reach(ns, i) : nt[j].next = ns[j].next
  PROVE  Reach(nt, i) = Reach(ns, i)
<1> DEFINE R == Reach(ns, i)
           T == Reach(nt, i)
<1>0. ns \in Seq(Node) /\ nt \in Seq(Node) /\ Len(ns) \in Nat /\ Len(nt) \in Nat
  BY DEF LinkedHeap
<1>1. Closed(ns, R) /\ i \in R \cup {Null}
  BY ReachCloses
<1>2. i \in 0 .. Len(nt)
  BY <1>0
<1>3. Closed(nt, T) /\ i \in T \cup {Null}
  BY <1>2, ReachCloses
<1>4. \A j \in R : nt[j].next = ns[j].next
  OBVIOUS
<1> HIDE DEF R, T
<1>5. \A j \in R : nt[j].next \in R \cup {Null}
  BY <1>1, <1>4 DEF Closed
<1>6. T \subseteq R
  BY <1>0, <1>1, <1>5, ReachWithin DEF T
<1> DEFINE S == T \cap R
<1>7. i \in S \cup {Null} /\ \A j \in S : ns[j].next \in S \cup {Null}
  BY <1>1, <1>3, <1>4 DEF Closed
<1> HIDE DEF S
<1>8. R \subseteq S
  BY <1>0, <1>7, ReachWithin DEF R
<1> QED
  BY <1>6, <1>8 DEF S, R, T

\* One more node in front.
LEMMA ReachPush ==
  ASSUME NEW ns, LinkedHeap(ns), NEW i \in DOMAIN ns
  PROVE  Reach(ns, i) = {i} \cup Reach(ns, ns[i].next)
<1> DEFINE R == Reach(ns, i)
           k == ns[i].next
           T == Reach(ns, k)
<1>0. ns \in Seq(Node) /\ Len(ns) \in Nat /\ i \in 0 .. Len(ns) /\ i # Null /\ k \in 0 .. Len(ns)
  BY DEF LinkedHeap, Null
<1>1. Closed(ns, R) /\ i \in R \cup {Null}
  BY <1>0, ReachCloses
<1>2. Closed(ns, T) /\ k \in T \cup {Null}
  BY <1>0, ReachCloses
<1>3. i \in R /\ k \in R \cup {Null}
  BY <1>0, <1>1 DEF Closed
<1> HIDE DEF R, T
<1>4. T \subseteq R
  <2>1. \A j \in R : ns[j].next \in R \cup {Null}
    BY <1>1 DEF Closed
  <2> QED
    BY <1>0, <1>3, <2>1, ReachWithin DEF T
<1> DEFINE S == {i} \cup T
<1>5. i \in S \cup {Null} /\ \A j \in S : ns[j].next \in S \cup {Null}
  BY <1>2 DEF Closed
<1> HIDE DEF S
<1>6. R \subseteq S
  BY <1>0, <1>5, ReachWithin DEF R
<1> QED
  BY <1>3, <1>4, <1>6 DEF S, R, T

\* The link to v, behind p, leads past v: to what follows v, or to a node m
\* that is followed by it.
Bypass(ns, nt, R, p, v, m) ==
  /\ LinkedHeap(ns) /\ LinkedHeap(nt) /\ Len(ns) = Len(nt)
  /\ p \in R => ns[p].next = v /\ nt[p].next = m
  /\ \A j \in R : j # p => nt[j].next = ns[j].next
  /\ v \in DOMAIN ns /\ v # p
  /\ \/ m = ns[v].next
     \/ m \in DOMAIN nt /\ nt[m].next = ns[v].next

\* A walk loses no node but v.
LEMMA ReachBypass ==
  ASSUME NEW ns, NEW nt, NEW p, NEW v, NEW m, NEW x \in 0 .. Len(ns), Bypass(ns, nt, Reach(ns, x), p, v, m),
         NEW i \in Reach(ns, x), i # v
  PROVE  i \in Reach(nt, x)
<1> DEFINE R == Reach(ns, x)
           T == Reach(nt, x)
           S == IF p \in T \/ v \in T THEN (T \cap R) \cup ({v} \cap R) ELSE T \cap R
<1>0. LinkedHeap(ns) /\ LinkedHeap(nt) /\ ns \in Seq(Node) /\ x \in 0 .. Len(nt) /\ Null \notin DOMAIN nt
  BY DEF Bypass, LinkedHeap, Null
<1>1. Closed(ns, R) /\ x \in R \cup {Null}
  BY <1>0, ReachCloses
<1>2. Closed(nt, T) /\ x \in T \cup {Null}
  BY <1>0, ReachCloses
<1> HIDE DEF R, T
<1>3. x \in S \cup {Null}
  BY <1>1, <1>2
<1>4. ASSUME NEW j \in S PROVE ns[j].next \in S \cup {Null}
  <2>0. j \in R /\ ns[j].next \in R \cup {Null}
    BY <1>1 DEF Closed
  <2>1. CASE j = p
    <3>1. p \in T
      BY <2>1 DEF Bypass
    <3> QED
      BY <2>0, <2>1, <3>1 DEF Bypass, R
  <2>2. CASE j # p /\ j \in T
    BY <1>2, <2>0, <2>2 DEF Bypass, Closed, R
  <2>3. CASE j # p /\ j \notin T
    <3>1. j = v /\ p \in T /\ p # Null
      BY <1>0, <1>2, <2>3 DEF Closed
    <3>2. CASE p \in R
      <4>1. m \in T \cup {Null}
        BY <1>2, <3>1, <3>2 DEF Bypass, Closed, R
      <4>2. ns[v].next \in T \cup {Null}
        BY <1>0, <1>2, <4>1 DEF Bypass, Closed
      <4> QED
        BY <2>0, <3>1, <4>2
    <3>3. CASE p \notin R
      <4>1. T \subseteq R
        <5>1. \A k \in R : nt[k].next \in R \cup {Null}
          BY <1>1, <3>3 DEF Bypass, Closed, R
        <5> QED
          BY <1>0, <1>1, <5>1, ReachWithin DEF T, LinkedHeap
      <4> QED
        BY <3>1, <3>3, <4>1
    <3> QED
      BY <3>2, <3>3
  <2> QED
    BY <2>1, <2>2, <2>3
<1> HIDE DEF S
<1>5. R \subseteq S
  BY <1>0, <1>3, <1>4, ReachWithin DEF R
<1> QED
  BY <1>5 DEF S, R, T

\* If nothing else leads to v, v leaves the list, and the nodes X that take
\* its place enter it.
Replaces(ns, nt, p, v, m, b, c, X) ==
  /\ Bypass(ns, nt, Reach(ns, b), p, v, m) /\ v \in Reach(ns, b)
  /\ \A j \in Reach(ns, b) : ns[j].next = v => j = p
  /\ IF p = Null THEN b = v /\ c = m ELSE p \in Reach(ns, b) /\ b # v /\ c = b
  /\ \/ X = {} /\ m = ns[v].next
     \/ X = {m} /\ m \in DOMAIN nt /\ m \notin Reach(ns, b) /\ nt[m].next = ns[v].next

LEMMA ReachReplaced ==
  ASSUME NEW ns, NEW nt, NEW p, NEW v, NEW m, NEW b \in 0 .. Len(ns), NEW c, NEW X,
         Replaces(ns, nt, p, v, m, b, c, X)
  PROVE  Reach(nt, c) = (Reach(ns, b) \ {v}) \cup X
<1> USE DEF Replaces
<1> DEFINE R == Reach(ns, b)
           T == Reach(nt, c)
           S == (R \ {v}) \cup X
<1>0. /\ LinkedHeap(ns) /\ LinkedHeap(nt) /\ ns \in Seq(Node) /\ nt \in Seq(Node)
      /\ Len(ns) = Len(nt) /\ Null \notin DOMAIN nt /\ v \in DOMAIN ns
      /\ ns[v].next \in 0 .. Len(ns)
  BY DEF Bypass, LinkedHeap, Null
<1>1. Closed(ns, R) /\ b \in R \cup {Null}
  BY <1>0, ReachCloses
<1>2. c \in 0 .. Len(nt)
  BY <1>0 DEF Bypass, LinkedHeap
<1>3. Closed(nt, T) /\ c \in T \cup {Null}
  BY <1>0, <1>2, ReachCloses
<1>4. m \in S \cup {Null} /\ Null \notin R
  <2>1. ns[v].next \in R \cup {Null} /\ Null \notin R
    BY <1>0, <1>1 DEF Closed
  <2>2. ns[v].next # v
    BY DEF Bypass
  <2> QED
    BY <2>1, <2>2
<1>5. T \subseteq S
  <2>1. c \in S \cup {Null}
    BY <1>1, <1>4
  <2>2. ASSUME NEW j \in S PROVE nt[j].next \in S \cup {Null}
    <3>1. CASE j \in R \ {v} /\ j = p
      BY <1>4, <3>1 DEF Bypass
    <3>2. CASE j \in R \ {v} /\ j # p
      <4>1. nt[j].next = ns[j].next /\ ns[j].next # v /\ ns[j].next \in R \cup {Null}
        BY <1>1, <3>2 DEF Bypass, Closed
      <4> QED
        BY <4>1
    <3>3. CASE j \in X
      <4>1. nt[j].next = ns[v].next /\ ns[v].next # v
        BY <3>3 DEF Bypass
      <4>2. ns[v].next \in R \cup {Null}
        BY <1>1 DEF Closed
      <4> QED
        BY <4>1, <4>2
    <3> QED
      BY <3>1, <3>2, <3>3
  <2> HIDE DEF S, T
  <2> QED
    BY <1>0, <2>1, <2>2, ReachWithin DEF T
<1>6. S \subseteq T
  <2>1. CASE p # Null
    <3>1. R \ {v} \subseteq T
      BY <2>1, ReachBypass
    <3>2. p \in T /\ nt[p].next = m /\ c = b
      BY <2>1, <3>1 DEF Bypass
    <3>3. m \in T \cup {Null}
      BY <1>3, <3>2 DEF Closed
    <3> QED
      BY <1>0, <3>1, <3>3
  <2>2. CASE p = Null
    <3>1. m \in T \cup {Null}
      BY <1>3, <2>2
    <3>2. ns[v].next \in T \cup {Null}
      BY <1>0, <1>3, <3>1 DEF Closed
    <3> DEFINE U == (T \cap R) \cup {v}
    <3>3. b \in U \cup {Null}
      BY <2>2
    <3>4. ASSUME NEW j \in U PROVE ns[j].next \in U \cup {Null}
      <4>1. j \in R /\ ns[j].next \in R \cup {Null}
        BY <1>1 DEF Closed
      <4>2. CASE j = v
        BY <3>2, <4>1, <4>2
      <4>3. CASE j # v
        <5>1. j # p /\ nt[j].next = ns[j].next
          BY <1>4, <2>2, <4>1 DEF Bypass
        <5> QED
          BY <1>3, <4>1, <4>3, <5>1 DEF Closed
      <4> QED
        BY <4>2, <4>3
    <3> HIDE DEF U
    <3>5. R \subseteq U
      BY <1>0, <3>3, <3>4, ReachWithin
    <3> QED
      BY <1>0, <3>1, <3>5 DEF U
  <2> QED
    BY <2>1, <2>2
<1> QED
  BY <1>5, <1>6
-----------------------------------------------------------------------------
(* The heap of the program *)

LEMMA ChainIsReach == ASSUME NEW i PROVE Chain(i) = Reach(nodes, i)
BY DEF Chain, Reach

LEMMA HeapIsLinked == ASSUME TypeInv, LinksOK PROVE LinkedHeap(nodes)
<1>1. nodes \in Seq(Node) /\ DOMAIN nodes = 1 .. Len(nodes) /\ Len(nodes) \in Nat
  BY DEF TypeInv, HeapTyped
<1> QED
  BY <1>1 DEF LinkedHeap, LinksOK, Links, Published, Null

\* A chain that starts in the map or at a node that was in it is closed.
LEMMA ChainFacts ==
  ASSUME TypeInv, LinksOK, NEW i \in Links
  PROVE  /\ Chain(i) \subseteq Published /\ Null \notin Chain(i)
         /\ i \in Chain(i) \cup {Null}
         /\ \A j \in Chain(i) : nodes[j].next \in Chain(i) \cup {Null}
         /\ i \in 0 .. Len(nodes)
<1>1. nodes \in Seq(Node) /\ DOMAIN nodes = 1 .. Len(nodes) /\ Len(nodes) \in Nat /\ LinkedHeap(nodes)
  BY HeapIsLinked DEF TypeInv, HeapTyped
<1>2. i \in 0 .. Len(nodes)
  BY <1>1 DEF Links, Published, Null
<1>3. Closed(nodes, Reach(nodes, i)) /\ i \in Reach(nodes, i) \cup {Null}
  BY <1>1, <1>2, ReachCloses
<1>4. i \in Published \cup {Null} /\ \A j \in Published : nodes[j].next \in Published \cup {Null}
  BY DEF LinksOK, Links, Published
<1>5. Reach(nodes, i) \subseteq Published
  BY <1>1, <1>4, ReachWithin
<1> QED
  BY <1>1, <1>2, <1>3, <1>5, ChainIsReach DEF Closed, Null, Published

\* Nothing happens to the heap.
LEMMA HeapUnchanged ==
  ASSUME UNCHANGED <<bucket, nodes>>
  PROVE  InMap' = InMap /\ \A i : Chain(i)' = Chain(i)
BY DEF InMap, Chain

LEMMA InMapFacts ==
  ASSUME TypeInv, LinksOK
  PROVE  /\ InMap \subseteq Published /\ Null \notin InMap /\ InMap \subseteq DOMAIN nodes
         /\ bucket \in InMap \cup {Null}
         /\ \A j \in InMap : nodes[j].next \in InMap \cup {Null}
BY ChainFacts DEF LinksOK, InMap, Published

Locals(t) ==
  /\ \A u \in Callers : u # t => /\ pc'[u] = pc[u] /\ todo'[u] = todo[u] /\ key'[u] = key[u]
                                 /\ kv'[u] = kv[u] /\ prev'[u] = prev[u]
  /\ \A u \in Puts : u # t => head'[u] = head[u] /\ new'[u] = new[u]
  /\ \A u \in Deleters : u # t => next'[u] = next[u]
  /\ \A u \in Getters : u # t => settled'[u] = settled[u]

\* A thread changes its own locals only.
LEMMA OwnLocals ==
  ASSUME TypeInv, NEW t \in Callers, Put(t) \/ Del(t) \/ Get(t)
  PROVE  Locals(t)
<1> USE DEF TypeInv, LocalsTyped, Locals, MapGoto, Forget
<1>0. ASSUME Return(t) PROVE Locals(t)
  BY <1>0 DEF Return
<1>00. ASSUME Retry(t), kv' = [kv EXCEPT ![t] = Link(prev[t])] PROVE Locals(t)
  BY <1>00 DEF Retry, put
<1>1. CASE PutBegins(t)
  BY <1>1 DEF PutBegins, Begins
<1>2. CASE Walk(t)
  BY <1>2 DEF Walk, put
<1>3. CASE LinkNew(t)
  BY <1>3 DEF LinkNew
<1>4. CASE Replace(t)
  BY <1>0, <1>00, <1>4 DEF Replace
<1>5. CASE Add(t)
  BY <1>5 DEF Add
<1>6. CASE CountAdded(t)
  BY <1>0, <1>6 DEF CountAdded
<1>7. CASE DelBegins(t)
  BY <1>7 DEF DelBegins, Begins, put
<1>8. CASE NothingToDelete(t)
  BY <1>0, <1>8 DEF NothingToDelete
<1>9. CASE ReadNext(t)
  BY <1>9 DEF ReadNext, put
<1>10. CASE Unlink(t)
  BY <1>00, <1>10 DEF Unlink, put
<1>11. CASE Destroy(t)
  BY <1>0, <1>11 DEF Destroy
<1>12. CASE GetBegins(t)
  BY <1>12 DEF GetBegins, Begins, put
<1>13. CASE GetReturns(t)
  BY <1>0, <1>13 DEF GetReturns
<1> QED
  BY <1>1, <1>2, <1>3, <1>4, <1>5, <1>6, <1>7, <1>8, <1>9, <1>10, <1>11, <1>12, <1>13 DEF Put, Del, Get

LEMMA NodeTypes ==
  ASSUME IInv
  PROVE  /\ nodes \in Seq(Node) /\ DOMAIN nodes = 1 .. Len(nodes) /\ Len(nodes) \in Nat
         /\ \A i \in DOMAIN nodes : /\ nodes[i] \in Node
                                    /\ nodes[i].next \in Nat /\ nodes[i].key \in Keys /\ nodes[i].retired \in Nat
         /\ bucket \in Nat
         /\ \A i \in Links : i \in DOMAIN nodes \/ i = Null
         /\ Null \in Nat /\ Null \notin DOMAIN nodes
<1>1. nodes \in Seq(Node) /\ bucket \in Nat
  BY DEF IInv, TypeInv, HeapTyped
<1>2. DOMAIN nodes = 1 .. Len(nodes) /\ Len(nodes) \in Nat /\ \A i \in DOMAIN nodes : nodes[i] \in Node
  BY <1>1
<1> QED
  BY <1>1, <1>2 DEF Links, Published, Null, Node

LEMMA ReturnTyped ==
  ASSUME LocalsTyped, NEW t \in Callers, todo[t] > 0, Return(t)
  PROVE  LocalsTyped'
<1> USE DEF Return, LocalsTyped, MapGoto, Forget, Places
<1>1. pc' \in [Callers -> Places] /\ todo' \in [Callers -> Nat] /\ key' \in [Callers -> Keys \cup {NoKey}]
  OBVIOUS
<1>2. kv' \in [Callers -> Nat] /\ prev' \in [Callers -> Nat] /\ head' \in [Puts -> Nat] /\ new' \in [Puts -> Nat]
      /\ next' \in [Deleters -> Nat]
  BY DEF Null
<1>3. settled' \in [Getters -> BOOLEAN]
  OBVIOUS
<1> QED
  BY <1>1, <1>2, <1>3

LEMMA LocalsStayTyped ==
  ASSUME IInv, NEW t \in Callers, (t \in Puts /\ Put(t)) \/ (t \in Deleters /\ Del(t)) \/ (t \in Getters /\ Get(t))
  PROVE  LocalsTyped'
<1> USE DEF LocalsTyped, MapGoto, put, Places
<1>1. LocalsTyped /\ (pc[t] # "idle" => todo[t] > 0)
  BY DEF IInv, TypeInv, ControlOK
<1>2. Adders \subseteq Keys /\ Churned \subseteq Keys /\ Null \in Nat /\ bucket \in Nat
  BY NodeTypes DEF Keys
<1>3. \A i \in Links : Link(i) \in Nat
  BY NodeTypes DEF Link
<1>4. kv[t] \in Links /\ prev[t] \in Links
  BY DEF IInv, LinksOK, LinksOf
<1>5. ASSUME Begins(t, IF t \in Adders THEN {t} ELSE IF t \in Getters THEN Adders ELSE Churned)
      PROVE  key' \in [Callers -> Keys \cup {NoKey}]
  BY <1>1, <1>2, <1>5 DEF Begins
<1>6. ASSUME Retry(t), kv' = [kv EXCEPT ![t] = Link(prev[t])] PROVE LocalsTyped'
  BY <1>1, <1>3, <1>4, <1>6 DEF Retry
<1>7. CASE t \in Puts /\ PutBegins(t)
  <2>1. Begins(t, IF t \in Adders THEN {t} ELSE IF t \in Getters THEN Adders ELSE Churned)
    BY <1>7, ThreadsAssumption DEF PutBegins, Puts
  <2> QED
    BY <1>1, <1>2, <1>5, <1>7, <2>1 DEF PutBegins
<1>8. CASE Walk(t)
  <2>1. nodes[kv[t]].next \in Nat
    BY <1>8, <1>4, NodeTypes DEF Walk
  <2> QED
    BY <1>1, <1>8, <2>1 DEF Walk
<1>9. CASE LinkNew(t)
  <2>1. t \in Puts => NewNode(t) \in Nat
    BY <1>1, NodeTypes DEF NewNode
  <2> QED
    BY <1>1, <1>9, <2>1 DEF LinkNew
<1>10. CASE Replace(t)
  BY <1>1, <1>6, <1>10, ReturnTyped DEF Replace
<1>11. CASE Add(t)
  <2>1. t \in Puts => NewNode(t) \in Nat
    BY <1>1, NodeTypes DEF NewNode
  <2> QED
    BY <1>1, <1>11, <2>1 DEF Add
<1>12. CASE CountAdded(t)
  BY <1>1, <1>12, ReturnTyped DEF CountAdded
<1>13. CASE t \in Deleters /\ DelBegins(t)
  <2>1. Begins(t, IF t \in Adders THEN {t} ELSE IF t \in Getters THEN Adders ELSE Churned)
    BY <1>13, ThreadsAssumption DEF DelBegins
  <2> QED
    BY <1>1, <1>2, <1>5, <1>13, <2>1 DEF DelBegins
<1>14. CASE NothingToDelete(t)
  BY <1>1, <1>14, ReturnTyped DEF NothingToDelete
<1>15. CASE ReadNext(t)
  <2>1. nodes[kv[t]].next \in Nat
    BY <1>15, <1>4, NodeTypes DEF ReadNext, Found
  <2> QED
    BY <1>1, <1>15, <2>1 DEF ReadNext
<1>16. CASE Unlink(t)
  BY <1>1, <1>6, <1>16 DEF Unlink
<1>17. CASE Destroy(t)
  BY <1>1, <1>17, ReturnTyped DEF Destroy
<1>18. CASE t \in Getters /\ GetBegins(t)
  <2>1. Begins(t, IF t \in Adders THEN {t} ELSE IF t \in Getters THEN Adders ELSE Churned)
    BY <1>18, ThreadsAssumption DEF GetBegins
  <2> QED
    BY <1>1, <1>2, <1>5, <1>18, <2>1 DEF GetBegins
<1>19. CASE GetReturns(t)
  BY <1>1, <1>19, ReturnTyped DEF GetReturns
<1> QED
  BY <1>7, <1>8, <1>9, <1>10, <1>11, <1>12, <1>13, <1>14, <1>15, <1>16, <1>17, <1>18, <1>19 DEF Put, Del, Get

\* An adder does not find its key before it has added it.
LEMMA AdderFindsNothing ==
  ASSUME IInv, NEW t \in Adders, pc[t] = "walk", kv[t] # Null
  PROVE  ~Found(t)
<1> SUFFICES ASSUME Found(t) PROVE FALSE
  OBVIOUS
<1>1. t \in Callers /\ t \in Puts /\ key[t] = t /\ kv[t] \in Published /\ todo[t] > 0
  BY DEF IInv, ControlOK, KeysOf, LinksOK, LinksOf, Links, Callers, Puts
<1>2. nodes[kv[t]].key = t /\ kv[t] \in DOMAIN nodes /\ ~HasChurnedKey(kv[t])
  BY <1>1, KeysAssumption DEF Found, Published, HasChurnedKey
<1>3. new[t] = kv[t]
  BY <1>1, <1>2 DEF IInv, NodesOK, AddedNodesOK, Holds
<1> QED
  BY <1>1, <1>3 DEF Published

LEMMA ControlKept ==
  ASSUME IInv, NEW t \in Callers, Locals(t), LocalsTyped',
         (t \in Puts /\ Put(t)) \/ (t \in Deleters /\ Del(t)) \/ (t \in Getters /\ Get(t))
  PROVE  ControlOK'
<1> DEFINE ControlOf(u) ==
             /\ u \in Adders => pc[u] \in {"idle", "walk", "add", "count", "retry"} /\ todo[u] <= 1
             /\ u \in Putters => pc[u] \in {"idle", "walk", "link", "replace", "add", "count", "retry"}
             /\ u \in Deleters => pc[u] \in {"idle", "walk", "unlink", "destroy", "retry"}
             /\ u \in Getters => pc[u] \in {"idle", "walk"}
             /\ IF pc[u] = "idle" THEN kv[u] = Null ELSE todo[u] > 0 /\ key[u] \in KeysOf(u)
<1>1. \A u \in Callers : ControlOf(u)
  BY DEF IInv, ControlOK, Callers
<1>2. ControlOf(t)'
  <2> USE DEF MapGoto, IInv, TypeInv, LocalsTyped
  <2>0. ControlOf(t) /\ todo[t] \in Nat
    BY <1>1
  <2>01. ASSUME Return(t) PROVE pc'[t] = "idle" /\ kv'[t] = Null /\ todo'[t] = todo[t] - 1
    BY <2>01 DEF Return, Forget
  <2>02. ASSUME Retry(t) PROVE pc'[t] = "retry" /\ todo'[t] = todo[t] /\ key'[t] = key[t]
    BY <2>02 DEF Retry
  <2>03. ASSUME Begins(t, KeysOf(t)), UNCHANGED todo PROVE todo'[t] = todo[t] /\ todo[t] > 0 /\ key'[t] \in KeysOf(t)
    BY <2>0, <2>03 DEF Begins
  <2>04. t \in Adders \cup Putters \cup Deleters \cup Getters
    BY DEF Callers
  <2> USE ThreadsAssumption DEF Puts
  <2>1. CASE t \in Puts /\ PutBegins(t)
    <3>1. Begins(t, KeysOf(t)) /\ UNCHANGED todo
      BY <2>1 DEF PutBegins, KeysOf
    <3>2. pc'[t] \in {"walk", "add", "link"} /\ (pc'[t] = "link" => kv[t] # Null)
      BY <2>1 DEF PutBegins
    <3>3. t \in Adders => kv[t] = Null
      BY <2>1, <2>0 DEF PutBegins, Begins, ThreadsOK, ThreadOK, AdderWalks
    <3> QED
      BY <2>0, <2>1, <2>03, <3>1, <3>2, <3>3 DEF KeysOf
  <2>2. CASE Walk(t)
    BY <2>0, <2>2 DEF Walk
  <2>3. CASE t \in Puts /\ LinkNew(t)
    <3>1. t \in Putters
      BY <2>0, <2>3, AdderFindsNothing DEF LinkNew, Found
    <3> QED
      BY <2>0, <2>3, <3>1 DEF LinkNew, KeysOf
  <2>4. CASE t \in Puts /\ Replace(t)
    BY <2>0, <2>01, <2>02, <2>4 DEF Replace, KeysOf
  <2>5. CASE t \in Puts /\ Add(t)
    BY <2>0, <2>5 DEF Add, KeysOf
  <2>6. CASE t \in Puts /\ CountAdded(t)
    BY <2>0, <2>01, <2>6 DEF CountAdded, KeysOf
  <2>7. CASE t \in Deleters /\ DelBegins(t)
    <3>1. Begins(t, KeysOf(t)) /\ UNCHANGED todo
      BY <2>7 DEF DelBegins, KeysOf
    <3> QED
      BY <2>0, <2>7, <2>03, <3>1 DEF KeysOf, DelBegins
  <2>8. CASE t \in Deleters /\ NothingToDelete(t)
    BY <2>0, <2>01, <2>8 DEF NothingToDelete
  <2>9. CASE t \in Deleters /\ ReadNext(t)
    BY <2>0, <2>9 DEF ReadNext, KeysOf
  <2>10. CASE t \in Deleters /\ Unlink(t)
    BY <2>0, <2>02, <2>10 DEF Unlink, KeysOf
  <2>11. CASE t \in Deleters /\ Destroy(t)
    BY <2>0, <2>01, <2>11 DEF Destroy
  <2>12. CASE t \in Getters /\ GetBegins(t)
    <3>1. Begins(t, KeysOf(t)) /\ UNCHANGED todo
      BY <2>12 DEF GetBegins, KeysOf
    <3> QED
      BY <2>0, <2>12, <2>03, <3>1 DEF KeysOf, GetBegins
  <2>13. CASE t \in Getters /\ GetReturns(t)
    BY <2>0, <2>01, <2>13 DEF GetReturns
  <2> QED
    BY <2>1, <2>2, <2>3, <2>4, <2>5, <2>6, <2>7, <2>8, <2>9, <2>10, <2>11, <2>12, <2>13 DEF Put, Del, Get
<1>3. \A u \in Callers : ControlOf(u)'
  BY <1>1, <1>2 DEF Locals, KeysOf
<1> QED
  BY <1>3 DEF ControlOK, Callers

-----------------------------------------------------------------------------
(* Steps that leave the heap as it is *)

Quiet(t) ==
  /\ UNCHANGED <<bucket, nodes>> /\ length' \in Int
  /\ Locals(t) /\ LocalsTyped' /\ ControlOK'
  /\ t \in Puts => new'[t] = IF pc[t] = "count" THEN Null ELSE new[t]
  /\ pc'[t] \notin {"count", "destroy"}

LEMMA QuietPublished ==
  ASSUME IInv, NEW t \in Callers, Quiet(t)
  PROVE  Published' = Published /\ Links' = Links
<1>1. \A u \in Puts : u \in Callers
  BY DEF Puts, Callers
<1>2. ASSUME NEW i, i \in Published PROVE i \in Published'
  BY <1>1, <1>2 DEF Published, Quiet, Locals, IInv, LinksOK, Null, TypeInv, HeapTyped
<1>3. ASSUME NEW i, i \in Published' PROVE i \in Published
  <2> SUFFICES ASSUME NEW u \in Puts, new[u] = i PROVE pc[u] = "count"
    BY <1>3 DEF Published, Quiet
  <2> QED
    BY <1>1, <1>3 DEF Published, Quiet, Locals
<1> QED
  BY <1>2, <1>3 DEF Links

LEMMA QuietKeeps ==
  ASSUME IInv, NEW t \in Callers, Quiet(t), LinksOf(t)', ThreadOK(t)', AddedNodesOK'
  PROVE  IInv'
<1>1. Published' = Published /\ Links' = Links /\ InMap' = InMap /\ (\A i : Chain(i)' = Chain(i))
      /\ bucket' = bucket /\ nodes' = nodes
  BY QuietPublished, HeapUnchanged DEF Quiet
<1>2. TypeInv'
  BY DEF Quiet, TypeInv, HeapTyped, IInv
<1>3. LinksOK'
  <2>1. \A u \in Callers : LinksOf(u)'
    BY <1>1 DEF LinksOf, Quiet, Locals, IInv, LinksOK, HasChurnedKey
  <2> QED
    BY <1>1, <2>1 DEF LinksOK, IInv
<1>4. ChurnedNodesOK'
  <2>1. \A u \in Deleters : u \in Callers
    BY DEF Callers
  <2>2. \A u \in Deleters : pc'[u] = "destroy" => pc[u] = "destroy" /\ kv'[u] = kv[u]
    BY <2>1 DEF Quiet, Locals
  <2> QED
    BY <1>1, <2>2 DEF ChurnedNodesOK, HasChurnedKey, IInv, NodesOK
<1>5. OneWayIn'
  BY <1>1 DEF OneWayIn, Link, IInv, NodesOK
<1>6. ThreadsOK'
  <2> SUFFICES ASSUME NEW u \in Callers, u # t PROVE ThreadOK(u)'
    BY DEF ThreadsOK
  <2>1. ThreadOK(u) /\ pc'[u] = pc[u] /\ key'[u] = key[u] /\ kv'[u] = kv[u] /\ prev'[u] = prev[u]
    BY DEF IInv, ThreadsOK, Quiet, Locals
  <2>2. ASSUME u \in Puts PROVE NewNodeOf(u)'
    <3>1. NewNodeOf(u) /\ new'[u] = new[u] /\ (t \in Puts => new'[t] \in {new[t], Null})
      BY <2>1, <2>2 DEF ThreadOK, Quiet, Locals
    <3>2. \A w \in Puts : w = t \/ new'[w] = new[w]
      BY DEF Quiet, Locals
    <3> QED
      BY <1>1, <2>1, <2>2, <3>1, <3>2 DEF NewNodeOf
  <2>3. ASSUME u \in Churners PROVE FoundBy(u)'
    <3>1. FoundBy(u) /\ (u \in Putters => new'[u] = new[u]) /\ (u \in Deleters => next'[u] = next[u])
      BY <2>1, <2>3 DEF ThreadOK, Quiet, Locals, Puts
    <3>2. u \in Putters => pc[u] \notin {"unlink", "destroy"}
      BY DEF IInv, ControlOK
    <3>3. u \in Deleters => pc[u] # "replace"
      BY DEF IInv, ControlOK
    <3> QED
      BY <1>1, <2>1, <2>3, <3>1, <3>2, <3>3 DEF FoundBy, Churners, HasChurnedKey
  <2>4. u \in Adders => AdderWalks(u)'
    BY <2>1 DEF ThreadOK, AdderWalks
  <2>5. ASSUME u \in Putters PROVE NotMissedBy(u)'
    <3>1. head'[u] = head[u]
      BY <2>5 DEF Quiet, Locals, Puts
    <3> QED
      BY <1>1, <2>1, <2>5, <3>1 DEF ThreadOK, NotMissedBy, HasChurnedKey
  <2>6. ASSUME u \in Getters PROVE AheadOf(u)'
    <3>1. settled'[u] = settled[u]
      BY <2>6 DEF Quiet, Locals
    <3> QED
      BY <1>1, <2>1, <2>6, <3>1 DEF ThreadOK, AheadOf
  <2> QED
    BY <2>2, <2>3, <2>4, <2>5, <2>6 DEF ThreadOK
<1> QED
  BY <1>2, <1>3, <1>4, <1>5, <1>6 DEF IInv, NodesOK, Quiet

\* Only the return of its put makes an adder hold its key.
LEMMA QuietAdded ==
  ASSUME IInv, NEW t \in Callers, Quiet(t),
         t \in Adders => pc'[t] # "idle" /\ pc[t] # "count" /\ ~Holds(t)
  PROVE  AddedNodesOK'
<1>1. Published' = Published /\ InMap' = InMap /\ nodes' = nodes
  BY QuietPublished, HeapUnchanged DEF Quiet
<1>2. \A a \in Adders : Holds(a)' = Holds(a) /\ new'[a] = new[a]
  BY DEF Quiet, Locals, Holds, Puts, Callers
<1>3. \A i \in DOMAIN nodes : ~HasChurnedKey(i) => nodes[i].key \in Adders
  BY NodeTypes DEF HasChurnedKey, Keys
<1> QED
  BY <1>1, <1>2, <1>3 DEF AddedNodesOK, IInv, NodesOK, HasChurnedKey

LEMMA ChurnerFinds ==
  ASSUME OneChurnedKey, IInv, NEW t \in Churners, pc[t] = "walk", kv[t] # Null
  PROVE  Found(t) <=> HasChurnedKey(kv[t])
<1>1. key[t] \in Churned
  BY ThreadsAssumption DEF IInv, ControlOK, KeysOf, Churners, Callers
<1> QED
  BY <1>1 DEF OneChurnedKey, Found, HasChurnedKey

LEMMA ChainPush ==
  ASSUME IInv, NEW i \in Published
  PROVE  Chain(i) = {i} \cup Chain(nodes[i].next)
<1>1. LinkedHeap(nodes) /\ i \in DOMAIN nodes
  BY HeapIsLinked DEF IInv, Published
<1> QED
  BY <1>1, ReachPush, ChainIsReach

\* What every lemma about a step of t starts from.
Starts(t) == IInv /\ t \in Callers /\ Locals(t) /\ LocalsTyped' /\ ControlOK'

LEMMA KeepsNewNode ==
  ASSUME NEW t \in Puts, Starts(t), nodes' = nodes, new'[t] = new[t],
         pc[t] = "idle" \/ key'[t] = key[t],
         pc[t] # "count", pc'[t] \notin {"idle", "replace", "count"}
  PROVE  NewNodeOf(t)'
<1>1. NewNodeOf(t) /\ t \in Callers
  BY DEF Starts, IInv, ThreadsOK, ThreadOK, Puts, Callers
<1>2. \A u \in Puts : new'[u] = new[u]
  BY DEF Starts, Locals
<1> QED
  BY <1>1, <1>2 DEF NewNodeOf

LEMMA PutBeginsKeeps ==
  ASSUME NEW t \in Puts, Starts(t), PutBegins(t)
  PROVE  IInv'
<1> USE DEF Starts
<1>1. /\ pc[t] \in {"idle", "retry"} /\ todo[t] > 0 /\ (pc[t] = "idle" \/ key'[t] = key[t])
      /\ head'[t] = bucket /\ prev'[t] = Null
      /\ \/ bucket # Null /\ pc'[t] = "walk" /\ kv'[t] = bucket
         \/ bucket = Null /\ pc'[t] = "add" /\ kv[t] = Null /\ kv'[t] = Null
         \/ bucket = Null /\ pc'[t] = "link" /\ kv[t] # Null /\ kv'[t] = kv[t]
      /\ new' = new /\ next' = next
  BY DEF PutBegins, Begins, MapGoto, IInv, TypeInv, LocalsTyped, ControlOK
<1>2. Quiet(t)
  BY <1>1 DEF Quiet, PutBegins, heap, IInv, TypeInv, HeapTyped
<1>3. Published' = Published /\ Links' = Links /\ InMap' = InMap /\ (\A i : Chain(i)' = Chain(i))
      /\ bucket' = bucket /\ nodes' = nodes
  BY <1>2, QuietPublished, HeapUnchanged DEF Quiet
<1>4. LinksOf(t)'
  BY <1>1, <1>3 DEF LinksOf, IInv, LinksOK, Links, HasChurnedKey
<1>5. pc'[t] = "link" => HasChurnedKey(kv[t])
  <2> SUFFICES ASSUME pc'[t] = "link", ~HasChurnedKey(kv[t]) PROVE FALSE
    OBVIOUS
  <2>1. kv[t] \in Published /\ kv[t] \in DOMAIN nodes
    BY <1>1 DEF IInv, LinksOK, LinksOf, Links, Published
  <2>2. kv[t] \in InMap
    BY <2>1 DEF IInv, NodesOK, AddedNodesOK
  <2>3. InMap = {}
    BY <1>1, NodeTypes, ReachOfNull, ChainIsReach DEF InMap
  <2> QED
    BY <2>2, <2>3
<1>6. NewNodeOf(t)'
  BY <1>1, <1>3, KeepsNewNode
<1>7. t \in Churners => FoundBy(t)'
  BY <1>1, <1>3, <1>5 DEF FoundBy, HasChurnedKey
<1>8. t \in Adders => AdderWalks(t)'
  <2>1. t \in Adders => kv[t] = Null
    BY <1>1 DEF IInv, ThreadsOK, ThreadOK, AdderWalks
  <2> QED
    BY <1>1, <2>1 DEF AdderWalks
<1>9. NotMissedBy(t)'
  BY <1>1, <1>3 DEF NotMissedBy, InMap
<1>10. AddedNodesOK'
  BY <1>1, <1>2, QuietAdded DEF Holds
<1>11. t \notin Getters
  BY ThreadsAssumption DEF Puts
<1> QED
  BY <1>2, <1>4, <1>6, <1>7, <1>8, <1>9, <1>10, <1>11, QuietKeeps DEF ThreadOK

LEMMA WalkKeeps ==
  ASSUME OneChurnedKey, NEW t \in Callers, Starts(t), Walk(t)
  PROVE  IInv'
<1> USE DEF Starts
<1> DEFINE k == nodes[kv[t]].next
<1>1. /\ pc[t] = "walk" /\ kv[t] # Null /\ ~Found(t) /\ todo[t] > 0
      /\ pc'[t] = "walk" /\ prev'[t] = kv[t] /\ kv'[t] = k /\ key'[t] = key[t]
      /\ UNCHANGED <<bucket, nodes, length, head, new, next, settled>>
  BY DEF Walk, IInv, TypeInv, LocalsTyped, heap, put, ControlOK
<1>2. Quiet(t)
  BY <1>1 DEF Quiet, IInv, TypeInv, HeapTyped
<1>3. Published' = Published /\ Links' = Links /\ InMap' = InMap /\ (\A i : Chain(i)' = Chain(i))
      /\ bucket' = bucket /\ nodes' = nodes
  BY <1>2, QuietPublished, HeapUnchanged DEF Quiet
<1>4. kv[t] \in Published /\ kv[t] \in DOMAIN nodes /\ k \in Links
  BY <1>1 DEF IInv, LinksOK, LinksOf, Links, Published
<1>5. t \in Churners => ~HasChurnedKey(kv[t])
  BY <1>1, ChurnerFinds
<1>6. Chain(kv[t]) = {kv[t]} \cup Chain(k)
  BY <1>4, ChainPush
<1>7. LinksOf(t)'
  BY <1>1, <1>3, <1>4, <1>5 DEF LinksOf, IInv, LinksOK, HasChurnedKey
<1>8. t \in Puts => NewNodeOf(t)'
  BY <1>1, <1>3, KeepsNewNode
<1>9. t \in Churners => FoundBy(t)'
  BY <1>1 DEF FoundBy
<1>10. t \in Adders => AdderWalks(t)'
  BY <1>1 DEF AdderWalks
<1>11. ASSUME t \in Putters PROVE NotMissedBy(t)'
  <2>1. NotMissedBy(t) /\ ~HasChurnedKey(kv[t])
    BY <1>5, <1>11 DEF IInv, ThreadsOK, ThreadOK, Churners
  <2> SUFFICES ASSUME bucket = head[t], NEW i \in InMap, HasChurnedKey(i) PROVE i \in Chain(k)
    BY <1>1, <1>3 DEF NotMissedBy, HasChurnedKey
  <2>2. i \in Chain(kv[t])
    BY <1>1, <2>1 DEF NotMissedBy
  <2> QED
    BY <1>6, <2>1, <2>2
<1>12. ASSUME t \in Getters PROVE AheadOf(t)'
  <2>1. AheadOf(t)
    BY <1>12 DEF IInv, ThreadsOK, ThreadOK
  <2> QED
    BY <1>1, <1>3, <1>6, <2>1 DEF AheadOf, Found
<1>13. AddedNodesOK'
  BY <1>1, <1>2, QuietAdded DEF Holds
<1> QED
  BY <1>2, <1>7, <1>8, <1>9, <1>10, <1>11, <1>12, <1>13, QuietKeeps DEF ThreadOK

\* A call that returns has nothing left to be right about.
LEMMA ReturnForgets ==
  ASSUME NEW t \in Callers, Starts(t), Return(t)
  PROVE  /\ LinksOf(t)' /\ ThreadOK(t)' /\ pc'[t] = "idle" /\ todo'[t] = todo[t] - 1
         /\ t \in Puts => new'[t] = Null
<1> USE DEF Starts
<1>1. /\ pc'[t] = "idle" /\ kv'[t] = Null /\ prev'[t] = Null /\ todo'[t] = todo[t] - 1
      /\ t \in Puts => head'[t] = Null /\ new'[t] = Null
      /\ t \in Deleters => next'[t] = Null
  BY DEF Return, MapGoto, Forget, IInv, TypeInv, LocalsTyped
<1>2. LinksOf(t)'
  BY <1>1 DEF LinksOf, Links
<1>3. ThreadOK(t)'
  BY <1>1 DEF ThreadOK, NewNodeOf, FoundBy, AdderWalks, NotMissedBy, AheadOf
<1> QED
  BY <1>1, <1>2, <1>3

LEMMA QuietReturns ==
  ASSUME NEW t \in Callers, Starts(t), Return(t), UNCHANGED heap, t \notin Puts
  PROVE  IInv'
<1> USE DEF Starts
<1>1. Quiet(t)
  BY ReturnForgets DEF Quiet, heap, IInv, TypeInv, HeapTyped
<1>2. AddedNodesOK'
  BY <1>1, QuietAdded DEF Puts
<1> QED
  BY <1>1, <1>2, ReturnForgets, QuietKeeps

LEMMA CountAddedKeeps ==
  ASSUME NEW t \in Puts, Starts(t), CountAdded(t)
  PROVE  IInv'
<1> USE DEF Starts
<1>1. pc[t] = "count" /\ todo[t] > 0 /\ UNCHANGED <<bucket, nodes>> /\ length' = length + 1 /\ Return(t)
  BY DEF CountAdded, IInv, ControlOK
<1>2. Quiet(t)
  BY <1>1, ReturnForgets DEF Quiet, IInv, TypeInv, HeapTyped
<1>3. Published' = Published /\ InMap' = InMap /\ nodes' = nodes
  BY <1>2, QuietPublished, HeapUnchanged DEF Quiet
<1>4. CASE t \in Adders
  <2>1. pc'[t] = "idle" /\ todo'[t] = 0
    <3>1. todo[t] <= 1 /\ todo[t] \in Nat
      BY <1>4 DEF IInv, ControlOK, TypeInv, LocalsTyped
    <3> QED
      BY <1>1, <3>1, ReturnForgets
  <2>2. new[t] # Null /\ new[t] \in DOMAIN nodes /\ nodes[new[t]].key = key[t] /\ key[t] = t
        /\ \A u \in Puts : new[u] = new[t] => u = t
    BY <1>1, <1>4 DEF IInv, ThreadsOK, ThreadOK, NewNodeOf, ControlOK, KeysOf
  <2>3. new[t] \in Published
    BY <1>1, <2>2 DEF Published
  <2>4. \A a \in Adders : a # t => Holds(a)' = Holds(a) /\ new'[a] = new[a]
    BY DEF Locals, Holds, Puts, Callers
  <2>5. \A i \in DOMAIN nodes : ~HasChurnedKey(i) => nodes[i].key \in Adders
    BY NodeTypes DEF HasChurnedKey, Keys
  <2>6. Holds(t)'
    BY <2>1 DEF Holds
  <2>7. AddedNodesOK'
    BY <1>3, <2>2, <2>3, <2>4, <2>5, <2>6 DEF AddedNodesOK, IInv, NodesOK, HasChurnedKey
  <2> QED
    BY <1>1, <1>2, <2>7, ReturnForgets, QuietKeeps
<1>5. CASE t \notin Adders
  BY <1>1, <1>2, <1>5, QuietAdded, ReturnForgets, QuietKeeps
<1> QED
  BY <1>4, <1>5

\* A failed compare-and-swap of a deleter or putter.
LEMMA RetryKeeps ==
  ASSUME NEW t \in Churners, Starts(t), Retry(t), kv' = [kv EXCEPT ![t] = Link(prev[t])],
         UNCHANGED heap, pc[t] \in {"replace", "unlink"}
  PROVE  IInv'
<1> USE DEF Starts
<1>1. /\ pc'[t] = "retry" /\ kv'[t] = Link(prev[t]) /\ key'[t] = key[t] /\ todo[t] > 0
      /\ UNCHANGED <<bucket, nodes, length, prev, head, new, next, settled>>
  BY DEF Retry, MapGoto, IInv, TypeInv, LocalsTyped, ControlOK, heap, put
<1>2. Quiet(t)
  BY <1>1 DEF Quiet, IInv, TypeInv, HeapTyped
<1>3. Published' = Published /\ Links' = Links /\ InMap' = InMap /\ nodes' = nodes
  BY <1>2, QuietPublished, HeapUnchanged DEF Quiet
<1>4. Link(prev[t]) \in Links
  BY DEF Link, IInv, LinksOK, LinksOf, Links, Published
<1>5. LinksOf(t)'
  BY <1>1, <1>3, <1>4 DEF LinksOf, IInv, LinksOK, HasChurnedKey
<1>6. t \in Puts => NewNodeOf(t)'
  BY <1>1, <1>3, KeepsNewNode
<1>7. FoundBy(t)' /\ t \notin Adders /\ t \notin Getters /\ (t \in Putters => NotMissedBy(t)')
  BY <1>1, ThreadsAssumption DEF FoundBy, NotMissedBy, Churners
<1>8. AddedNodesOK'
  BY <1>2, <1>7, QuietAdded
<1> QED
  BY <1>2, <1>5, <1>6, <1>7, <1>8, QuietKeeps DEF ThreadOK

LEMMA DelBeginsKeeps ==
  ASSUME NEW t \in Deleters, Starts(t), DelBegins(t)
  PROVE  IInv'
<1> USE DEF Starts
<1>1. /\ pc'[t] = "walk" /\ kv'[t] = bucket /\ prev'[t] = Null
      /\ UNCHANGED <<bucket, nodes, length, head, new, next, settled>>
  BY DEF DelBegins, MapGoto, IInv, TypeInv, LocalsTyped, heap, put
<1>2. t \notin Puts /\ t \notin Getters
  BY ThreadsAssumption DEF Puts
<1>3. Quiet(t)
  BY <1>1, <1>2 DEF Quiet, IInv, TypeInv, HeapTyped
<1>4. Links' = Links
  BY <1>3, QuietPublished
<1>5. LinksOf(t)' /\ FoundBy(t)'
  BY <1>1, <1>2, <1>4 DEF LinksOf, FoundBy, IInv, LinksOK, Links
<1>6. AddedNodesOK'
  BY <1>2, <1>3, QuietAdded DEF Puts
<1> QED
  BY <1>2, <1>3, <1>5, <1>6, QuietKeeps DEF ThreadOK, Puts

LEMMA ReadNextKeeps ==
  ASSUME OneChurnedKey, NEW t \in Deleters, Starts(t), ReadNext(t)
  PROVE  IInv'
<1> USE DEF Starts
<1>1. /\ pc[t] = "walk" /\ Found(t) /\ pc'[t] = "unlink" /\ next'[t] = nodes[kv[t]].next
      /\ kv'[t] = kv[t] /\ prev'[t] = prev[t]
      /\ UNCHANGED <<bucket, nodes, length, head, new, settled>>
  BY DEF ReadNext, MapGoto, IInv, TypeInv, LocalsTyped, heap, put
<1>2. t \notin Puts /\ t \notin Getters
  BY ThreadsAssumption DEF Puts
<1>3. Quiet(t)
  BY <1>1, <1>2 DEF Quiet, IInv, TypeInv, HeapTyped
<1>4. Links' = Links /\ nodes' = nodes
  BY <1>1, <1>3, QuietPublished
<1>5. kv[t] # Null /\ HasChurnedKey(kv[t]) /\ nodes[kv[t]].next \in Links
  <2>1. kv[t] # Null /\ nodes[kv[t]].key = key[t] /\ key[t] \in Churned
    BY <1>1, ThreadsAssumption DEF Found, IInv, ControlOK, KeysOf
  <2> QED
    BY <2>1, NodeTypes DEF HasChurnedKey, IInv, LinksOK, LinksOf
<1>6. LinksOf(t)' /\ FoundBy(t)'
  BY <1>1, <1>2, <1>4, <1>5 DEF LinksOf, FoundBy, IInv, LinksOK, HasChurnedKey
<1>7. AddedNodesOK'
  BY <1>2, <1>3, QuietAdded DEF Puts
<1> QED
  BY <1>2, <1>3, <1>6, <1>7, QuietKeeps DEF ThreadOK, Puts

LEMMA GetBeginsKeeps ==
  ASSUME NEW t \in Getters, Starts(t), GetBegins(t)
  PROVE  IInv'
<1> USE DEF Starts
<1>1. /\ pc'[t] = "walk" /\ kv'[t] = bucket /\ prev'[t] = prev[t]
      /\ settled'[t] = \E a \in Adders : a = key'[t] /\ Holds(a)
      /\ UNCHANGED <<bucket, nodes, length, head, new, next>>
  BY DEF GetBegins, MapGoto, IInv, TypeInv, LocalsTyped, heap, put
<1>2. t \notin Puts /\ t \notin Churners
  BY ThreadsAssumption DEF Puts, Churners
<1>3. Quiet(t)
  BY <1>1, <1>2 DEF Quiet, IInv, TypeInv, HeapTyped
<1>4. Links' = Links /\ (\A i : Chain(i)' = Chain(i)) /\ nodes' = nodes
  BY <1>3, QuietPublished, HeapUnchanged DEF Quiet
<1>5. LinksOf(t)'
  BY <1>1, <1>2, <1>4 DEF LinksOf, IInv, LinksOK
<1>6. AheadOf(t)'
  <2> SUFFICES ASSUME NEW a \in Adders, a = key'[t], Holds(a)
               PROVE  \E i \in Chain(bucket) : nodes[i].key = a
    BY <1>1, <1>4 DEF AheadOf
  <2>1. PICK i \in Published : nodes[i].key = a
    BY DEF IInv, NodesOK, AddedNodesOK
  <2>2. i \in DOMAIN nodes /\ ~HasChurnedKey(i)
    BY <2>1, KeysAssumption DEF Published, HasChurnedKey
  <2>3. i \in InMap
    BY <2>2 DEF IInv, NodesOK, AddedNodesOK
  <2> QED
    BY <2>1, <2>3 DEF InMap
<1>7. AddedNodesOK'
  BY <1>2, <1>3, QuietAdded DEF Puts
<1> QED
  BY <1>2, <1>3, <1>5, <1>6, <1>7, QuietKeeps DEF ThreadOK, Puts, Churners

-----------------------------------------------------------------------------
(* Steps that leave the map as it is *)

\* The heap changes, but not what a walk sees of it.
Silent(t) ==
  /\ bucket' = bucket /\ HeapTyped' /\ Len(nodes) <= Len(nodes')
  /\ Locals(t) /\ LocalsTyped' /\ ControlOK'
  /\ Published' = Published
  /\ \A j \in DOMAIN nodes : nodes'[j].key = nodes[j].key
  /\ \A j \in Published : nodes'[j].next = nodes[j].next
  /\ \A j \in DOMAIN nodes' : nodes'[j].next \in Links
  /\ \A u \in Puts \ {t} : new[u] # Null =>
       /\ nodes'[new[u]].next = nodes[new[u]].next
       /\ pc[u] # "count" => nodes'[new[u]].retired = nodes[new[u]].retired
       /\ t \in Puts => new'[t] # new[u]
  /\ \A u \in Deleters \ {t} : pc[u] = "destroy" => nodes'[kv[u]].retired = nodes[kv[u]].retired

LEMMA SilentChains ==
  ASSUME IInv, NEW t, Silent(t)
  PROVE  InMap' = InMap /\ \A i \in Links : Chain(i)' = Chain(i)
<1>1. LinkedHeap(nodes) /\ nodes' \in Seq(Node) /\ Len(nodes) \in Nat /\ Len(nodes') \in Nat
  BY HeapIsLinked, NodeTypes DEF IInv, Silent, HeapTyped
<1>2. LinkedHeap(nodes')
  <2>1. \A i \in Links : i \in 0 .. Len(nodes)
    BY NodeTypes DEF Null
  <2> QED
    BY <1>1, <2>1 DEF LinkedHeap, Silent
<1>3. ASSUME NEW i \in Links PROVE Chain(i)' = Chain(i)
  <2>1. i \in 0 .. Len(nodes) /\ Chain(i) \subseteq Published
    BY ChainFacts DEF IInv
  <2>2. \A j \in Reach(nodes, i) : nodes'[j].next = nodes[j].next
    BY <2>1, ChainIsReach DEF Silent
  <2>3. Reach(nodes', i) = Reach(nodes, i)
    BY <1>1, <1>2, <2>1, <2>2, ReachUnchanged DEF Silent
  <2>4. Chain(i)' = Reach(nodes', i)
    BY DEF Chain, Reach
  <2> QED
    BY <2>3, <2>4, ChainIsReach
<1> QED
  BY <1>3 DEF InMap, Silent, IInv, LinksOK

LEMMA SilentKeeps ==
  ASSUME IInv, NEW t \in Callers, Silent(t), LinksOf(t)', ThreadOK(t)', AddedNodesOK', ChurnedNodesOK'
  PROVE  IInv'
<1>1. /\ Published' = Published /\ Links' = Links /\ InMap' = InMap
      /\ \A i \in Links : Chain(i)' = Chain(i)
      /\ bucket' = bucket /\ InMap \subseteq Published /\ Published \subseteq DOMAIN nodes
      /\ \A j \in DOMAIN nodes : HasChurnedKey(j)' = HasChurnedKey(j)
  BY SilentChains, InMapFacts DEF Silent, Links, IInv, Published, HasChurnedKey
<1>2. TypeInv'
  BY DEF Silent, TypeInv
<1>3. LinksOK'
  <2>1. \A u \in Callers : LinksOf(u)'
    BY <1>1 DEF LinksOf, Silent, Locals, IInv, LinksOK, Links
  <2> QED
    BY <1>1, <2>1 DEF LinksOK, IInv, Silent
<1>4. OneWayIn'
  <2>1. \A i \in InMap \cup {Null} : Link(i)' = Link(i)
    BY <1>1 DEF Link, Silent
  <2> QED
    BY <1>1, <2>1 DEF OneWayIn, IInv, NodesOK
<1>5. ThreadsOK'
  <2> SUFFICES ASSUME NEW u \in Callers, u # t PROVE ThreadOK(u)'
    BY DEF ThreadsOK
  <2>1. /\ ThreadOK(u) /\ pc'[u] = pc[u] /\ key'[u] = key[u] /\ kv'[u] = kv[u] /\ prev'[u] = prev[u]
        /\ kv[u] \in Links
    BY DEF IInv, ThreadsOK, Silent, Locals, LinksOK, LinksOf
  <2>2. ASSUME u \in Puts PROVE NewNodeOf(u)'
    <3>1. NewNodeOf(u) /\ new'[u] = new[u]
      BY <2>1, <2>2 DEF ThreadOK, Silent, Locals
    <3>2. \A w \in Puts : w = t \/ new'[w] = new[w]
      BY DEF Silent, Locals
    <3>3. DOMAIN nodes \subseteq DOMAIN nodes'
      BY NodeTypes DEF Silent, HeapTyped
    <3> QED
      BY <2>1, <2>2, <3>1, <3>2, <3>3 DEF NewNodeOf, Silent
  <2>3. ASSUME u \in Churners PROVE FoundBy(u)'
    <3>1. FoundBy(u) /\ (u \in Putters => NewNodeOf(u) /\ new'[u] = new[u]) /\ (u \in Deleters => next'[u] = next[u])
      BY <2>1, <2>3 DEF ThreadOK, Silent, Locals, Puts
    <3>2. u \in Putters => pc[u] \notin {"unlink", "destroy"}
      BY DEF IInv, ControlOK
    <3>3. u \in Deleters => pc[u] # "replace"
      BY DEF IInv, ControlOK
    <3>4. kv[u] # Null => /\ kv[u] \in DOMAIN nodes /\ nodes'[kv[u]].next = nodes[kv[u]].next
                          /\ HasChurnedKey(kv[u])' = HasChurnedKey(kv'[u])
      BY <1>1, <2>1 DEF Links, Silent, HasChurnedKey
    <3>5. u \in Putters /\ pc[u] = "replace" => nodes'[new[u]].next = nodes[new[u]].next
      BY <3>1 DEF Silent, NewNodeOf, Puts
    <3>6. u \in Deleters /\ pc[u] = "destroy" => nodes'[kv[u]].retired = nodes[kv[u]].retired
      BY DEF Silent
    <3> QED
      BY <1>1, <2>1, <2>3, <3>1, <3>2, <3>3, <3>4, <3>5, <3>6 DEF FoundBy, Churners, HasChurnedKey, Silent
  <2>4. u \in Adders => AdderWalks(u)'
    BY <2>1 DEF ThreadOK, AdderWalks
  <2>5. ASSUME u \in Putters PROVE NotMissedBy(u)'
    <3>1. head'[u] = head[u] /\ NotMissedBy(u)
      BY <2>1, <2>5 DEF ThreadOK, Silent, Locals, Puts
    <3>2. kv[u] # Null => HasChurnedKey(kv[u])' = HasChurnedKey(kv[u])
      BY <1>1, <2>1 DEF Links, HasChurnedKey
    <3> QED
      BY <1>1, <2>1, <2>5, <3>1, <3>2 DEF NotMissedBy, HasChurnedKey
  <2>6. ASSUME u \in Getters PROVE AheadOf(u)'
    <3>1. settled'[u] = settled[u] /\ AheadOf(u)
      BY <2>1, <2>6 DEF ThreadOK, Silent, Locals
    <3>2. Chain(kv[u]) \subseteq DOMAIN nodes
      BY <1>1, <2>1, ChainFacts DEF IInv
    <3> QED
      BY <1>1, <2>1, <2>6, <3>1, <3>2 DEF AheadOf, Silent
  <2> QED
    BY <2>2, <2>3, <2>4, <2>5, <2>6 DEF ThreadOK
<1> QED
  BY <1>2, <1>3, <1>4, <1>5 DEF IInv, NodesOK, Silent

LEMMA NodeIsRecord ==
  ASSUME NEW r \in Node PROVE r = [key |-> r.key, next |-> r.next, retired |-> r.retired]
BY DEF Node

\* destroy_node is called for node w once more.
Retired(ns, w) == [ns EXCEPT ![w].retired = @ + 1]

LEMMA RetiredOnceMore ==
  ASSUME NEW ns, ns \in Seq(Node), NEW w \in DOMAIN ns, ns[w].retired = 0,
         NEW nt, nt = Retired(ns, w)
  PROVE  /\ nt \in Seq(Node) /\ DOMAIN nt = DOMAIN ns /\ Len(nt) = Len(ns) /\ nt[w].retired = 1
         /\ \A j \in DOMAIN ns : nt[j].key = ns[j].key /\ nt[j].next = ns[j].next
         /\ \A j \in DOMAIN ns : j # w => nt[j].retired = ns[j].retired
<1>1. ns[w] \in Node
  OBVIOUS
<1>2. ns[w] = [key |-> ns[w].key, next |-> ns[w].next, retired |-> 0]
  BY <1>1, NodeIsRecord
<1>3. PICK r : r = [ns[w] EXCEPT !.retired = @ + 1]
  OBVIOUS
<1>4. r = [key |-> ns[w].key, next |-> ns[w].next, retired |-> 1]
  BY <1>2, <1>3
<1>5. r \in Node
  BY <1>1, <1>4 DEF Node
<1>6. nt = [ns EXCEPT ![w] = r]
  BY <1>3 DEF Retired
<1>7. /\ nt \in Seq(Node) /\ DOMAIN nt = DOMAIN ns /\ Len(nt) = Len(ns)
      /\ nt[w] = r /\ \A j \in DOMAIN ns : j # w => nt[j] = ns[j]
  BY <1>5, <1>6
<1> QED
  BY <1>4, <1>7

Leading(ns, p, m) == [ns EXCEPT ![p].next = m]

LEMMA NextSet ==
  ASSUME NEW ns, ns \in Seq(Node), NEW p \in DOMAIN ns, NEW m \in Nat
  PROVE  LET nt == Leading(ns, p, m)
         IN  /\ nt \in Seq(Node) /\ DOMAIN nt = DOMAIN ns /\ nt[p].next = m
             /\ \A j \in DOMAIN ns : nt[j].key = ns[j].key /\ nt[j].retired = ns[j].retired
             /\ \A j \in DOMAIN ns : j # p => nt[j].next = ns[j].next
<1> DEFINE nt == Leading(ns, p, m)
<1>1. ns[p] \in Node
  OBVIOUS
<1>2. ns[p] = [key |-> ns[p].key, next |-> ns[p].next, retired |-> ns[p].retired]
  BY <1>1, NodeIsRecord
<1>3. PICK r : r = [ns[p] EXCEPT !.next = m]
  OBVIOUS
<1>4. r = [key |-> ns[p].key, next |-> m, retired |-> ns[p].retired]
  BY <1>2, <1>3
<1>5. r \in Node
  BY <1>1, <1>4 DEF Node
<1>6. nt = [ns EXCEPT ![p] = r]
  BY <1>3 DEF Leading
<1> HIDE DEF nt
<1>7. /\ nt \in Seq(Node) /\ DOMAIN nt = DOMAIN ns
      /\ nt[p] = r /\ \A j \in DOMAIN ns : j # p => nt[j] = ns[j]
  BY <1>5, <1>6
<1> QED
  BY <1>4, <1>7 DEF nt

\* The node of a put, with its next field set to n.
LEMMA NewNodeMade ==
  ASSUME IInv, NEW t \in Puts, pc[t] \notin {"idle", "count"}, NEW n \in Links
  PROVE  LET m == NewNode(t)
             ns == WithNewNode(t, n)
         IN  /\ ns \in Seq(Node) /\ Len(nodes) <= Len(ns) /\ LinkedHeap(ns)
             /\ DOMAIN ns = DOMAIN nodes \cup {m}
             /\ ns[m] = [key |-> key[t], next |-> n, retired |-> 0]
             /\ \A j \in DOMAIN nodes : j # m => ns[j] = nodes[j]
             /\ m # Null /\ m \notin Published
             /\ \A u \in Puts : u # t => new[u] # m
             /\ \A j \in DOMAIN ns : ns[j].next \in Links
<1> DEFINE m == NewNode(t)
           ns == WithNewNode(t, n)
           new0 == [key |-> key[t], next |-> n, retired |-> 0]
<1>1. /\ nodes \in Seq(Node) /\ DOMAIN nodes = 1 .. Len(nodes) /\ Len(nodes) \in Nat
      /\ n \in 0 .. Len(nodes) /\ n \in Nat
  BY NodeTypes DEF Null
<1>2. key[t] \in Keys /\ t \in Callers /\ NewNodeOf(t)
  BY DEF IInv, ControlOK, KeysOf, Keys, Puts, Callers, ThreadsOK, ThreadOK
<1>3. new0 \in Node
  BY <1>1, <1>2 DEF Node
<1>4. /\ ns \in Seq(Node) /\ Len(nodes) <= Len(ns) /\ DOMAIN ns = DOMAIN nodes \cup {m}
      /\ ns[m] = new0 /\ \A j \in DOMAIN nodes : j # m => ns[j] = nodes[j]
  <2>1. CASE new[t] = Null
    BY <1>1, <1>3, <2>1 DEF NewNode, WithNewNode
  <2>2. CASE new[t] # Null
    <3>1. new[t] \in DOMAIN nodes /\ nodes[new[t]].key = key[t] /\ nodes[new[t]].retired = 0
      BY <1>2, <2>2 DEF NewNodeOf
    <3>2. nodes[new[t]] = [key |-> key[t], next |-> nodes[new[t]].next, retired |-> 0]
      <4>1. nodes[new[t]] \in Node
        BY <3>1, NodeTypes
      <4> QED
        BY <3>1, <4>1, NodeIsRecord
    <3>3. [nodes[new[t]] EXCEPT !.next = n] = new0
      BY <3>2
    <3>4. ns = [nodes EXCEPT ![new[t]] = new0]
      BY <2>2, <3>3 DEF WithNewNode
    <3> HIDE DEF ns, new0
    <3>5. /\ ns \in Seq(Node) /\ Len(ns) = Len(nodes) /\ DOMAIN ns = DOMAIN nodes /\ m = new[t]
          /\ ns[m] = new0 /\ \A j \in DOMAIN nodes : j # m => ns[j] = nodes[j]
      BY <1>1, <1>3, <2>2, <3>1, <3>4 DEF NewNode
    <3> QED
      BY <1>1, <3>1, <3>5
  <2> QED
    BY <2>1, <2>2
<1>5. m # Null /\ m \notin Published /\ \A u \in Puts : u # t => new[u] # m
  <2>1. CASE new[t] = Null
    <3>1. m = Len(nodes) + 1 /\ m \notin DOMAIN nodes /\ m # Null
      BY <1>1, <2>1 DEF NewNode, Null
    <3>2. \A u \in Puts : new[u] = Null \/ new[u] \in DOMAIN nodes
      BY DEF IInv, ThreadsOK, ThreadOK, NewNodeOf, Puts, Callers
    <3> QED
      BY <3>1, <3>2 DEF Published
  <2>2. CASE new[t] # Null
    BY <1>2, <2>2 DEF NewNode, NewNodeOf, Published
  <2> QED
    BY <2>1, <2>2
<1>6. \A j \in DOMAIN ns : ns[j].next \in Links
  <2> HIDE DEF ns
  <2> QED
    BY <1>4 DEF IInv, LinksOK
<1>7. LinkedHeap(ns)
  <2> HIDE DEF ns
  <2>1. \A i \in Links : i \in 0 .. Len(ns)
    BY <1>1, <1>4, NodeTypes DEF Null
  <2> QED
    BY <1>4, <1>6, <2>1 DEF LinkedHeap
<1> HIDE DEF m, ns
<1> QED
  BY <1>4, <1>5, <1>6, <1>7 DEF m, ns

\* A put prepares its node, and the map does not change.
NewNodeSet(t, n) ==
  /\ pc[t] \notin {"idle", "count"} /\ n \in Links
  /\ nodes' = WithNewNode(t, n) /\ new'[t] = NewNode(t)
  /\ pc'[t] \notin {"idle", "count", "destroy"}
  /\ UNCHANGED <<bucket, length, key>>

LEMMA NewNodeSilent ==
  ASSUME NEW t \in Puts, Starts(t), NEW n, NewNodeSet(t, n)
  PROVE  /\ Silent(t) /\ NewNodeOf(t)' /\ AddedNodesOK' /\ ChurnedNodesOK'
         /\ nodes'[NewNode(t)].next = n
<1> USE DEF Starts, NewNodeSet
<1>0. PICK m : m = NewNode(t)
  OBVIOUS
<1>1. /\ nodes' \in Seq(Node) /\ Len(nodes) <= Len(nodes') /\ LinkedHeap(nodes')
      /\ DOMAIN nodes' = DOMAIN nodes \cup {m}
      /\ nodes'[m] = [key |-> key[t], next |-> n, retired |-> 0]
      /\ \A j \in DOMAIN nodes : j # m => nodes'[j] = nodes[j]
      /\ m # Null /\ m \notin Published
      /\ \A u \in Puts : u # t => new[u] # m
      /\ \A j \in DOMAIN nodes' : nodes'[j].next \in Links
  BY <1>0, NewNodeMade
<1>2. /\ NewNodeOf(t) /\ new'[t] = m /\ key'[t] = key[t] /\ key[t] \in KeysOf(t) /\ t \in Callers
      /\ new[t] \in {Null, m} /\ (new[t] = m \/ m \notin DOMAIN nodes)
  <2>1. NewNodeOf(t) /\ key[t] \in KeysOf(t)
    BY DEF IInv, ControlOK, ThreadsOK, ThreadOK
  <2> QED
    BY <1>0, <2>1, NodeTypes DEF NewNode
<1>3. \A u \in Puts : u # t => new'[u] = new[u] /\ pc'[u] = pc[u] /\ new[u] # m
  BY <1>1 DEF Locals, Puts, Callers
<1>4. Published' = Published
  <2>1. ASSUME NEW i \in DOMAIN nodes'
        PROVE  (\A u \in Puts : new'[u] = i => pc'[u] = "count")
               <=> i \in DOMAIN nodes /\ \A u \in Puts : new[u] = i => pc[u] = "count"
    <3>1. CASE i = m
      BY <1>1, <1>2, <3>1 DEF Published
    <3>2. CASE i # m
      <4>1. i \in DOMAIN nodes /\ i # Null
        BY <1>1, <3>2, NodeTypes
      <4> QED
        BY <1>2, <1>3, <3>2, <4>1
    <3> QED
      BY <3>1, <3>2
  <2> QED
    BY <1>1, <2>1 DEF Published
<1>5. \A j \in DOMAIN nodes : nodes'[j].key = nodes[j].key
  BY <1>1, <1>2 DEF NewNodeOf
<1>6. \A u \in Deleters : pc[u] = "destroy" => kv[u] \in Published
  BY DEF IInv, LinksOK, LinksOf, Links, ThreadsOK, ThreadOK, FoundBy, Churners, Callers
<1>7. Silent(t)
  <2>1. \A j \in Published : nodes'[j] = nodes[j]
    BY <1>1 DEF Published
  <2>2. \A u \in Puts \ {t} : new[u] # Null => nodes'[new[u]] = nodes[new[u]]
    BY <1>1, <1>3 DEF IInv, ThreadsOK, ThreadOK, NewNodeOf, Puts, Callers
  <2> QED
    BY <1>1, <1>2, <1>3, <1>4, <1>5, <1>6, <2>1, <2>2 DEF Silent, HeapTyped, IInv, TypeInv
<1>8. NewNodeOf(t)'
  BY <1>1, <1>2, <1>3 DEF NewNodeOf
<1>9. InMap' = InMap /\ InMap \subseteq Published /\ Published \subseteq DOMAIN nodes
  BY <1>7, SilentChains, InMapFacts DEF IInv, Published
<1>10. AddedNodesOK'
  <2>1. ~Holds(t) /\ ~Holds(t)'
    BY DEF Holds
  <2>2. \A a \in Adders : a # t => Holds(a)' = Holds(a) /\ new'[a] = new[a]
    BY DEF Locals, Holds, Puts, Callers
  <2>3. \A i \in DOMAIN nodes : ~HasChurnedKey(i) => nodes[i].key \in Adders
    BY NodeTypes DEF HasChurnedKey, Keys
  <2>4. \A i \in DOMAIN nodes : ~HasChurnedKey(i) /\ nodes[i].key = t => i = m
    BY <1>2, <2>1, <2>3, NodeTypes DEF IInv, NodesOK, AddedNodesOK
  <2>5. key[t] \notin Churned => t \in Adders /\ key[t] = t
    BY <1>2, ThreadsAssumption DEF KeysOf, Puts
  <2>6. \A i \in DOMAIN nodes' : i # m => i \in DOMAIN nodes /\ nodes'[i] = nodes[i] /\ HasChurnedKey(i)' = HasChurnedKey(i)
    BY <1>1 DEF HasChurnedKey
  <2>7. HasChurnedKey(m)' = (key[t] \in Churned) /\ nodes'[m].key = key[t] /\ nodes'[m].retired = 0
    BY <1>1 DEF HasChurnedKey
  <2>8. ASSUME NEW i \in DOMAIN nodes', ~HasChurnedKey(i)'
        PROVE  /\ Holds(nodes[i].key)' \/ new'[nodes'[i].key] = i
               /\ nodes'[i].retired = 0
               /\ i \in Published => i \in InMap
    <3>1. CASE i = m
      BY <1>1, <1>2, <2>5, <2>7, <2>8, <3>1
    <3>2. CASE i # m
      <4>1. i \in DOMAIN nodes /\ nodes'[i] = nodes[i] /\ ~HasChurnedKey(i)
        BY <2>6, <2>8, <3>2
      <4>2. nodes[i].key \in Adders /\ nodes[i].key # t
        BY <2>3, <2>4, <3>2, <4>1
      <4>3. Holds(nodes[i].key)' = Holds(nodes[i].key)
        BY <2>2, <4>1, <4>2 DEF Holds
      <4> QED
        BY <2>2, <4>1, <4>2, <4>3 DEF IInv, NodesOK, AddedNodesOK
    <3> QED
      BY <3>1, <3>2
  <2>9. ASSUME NEW i \in DOMAIN nodes', NEW j \in DOMAIN nodes', nodes'[i].key = nodes'[j].key, i # j
        PROVE  HasChurnedKey(i)'
    <3>1. CASE i # m /\ j # m
      BY <2>6, <2>9, <3>1 DEF IInv, NodesOK, AddedNodesOK
    <3>2. CASE i = m
      BY <2>4, <2>5, <2>6, <2>7, <2>9, <3>2, KeysAssumption DEF HasChurnedKey
    <3>3. CASE j = m
      BY <2>4, <2>5, <2>6, <2>7, <2>9, <3>3, KeysAssumption DEF HasChurnedKey
    <3> QED
      BY <3>1, <3>2, <3>3
  <2>10. ASSUME NEW a \in Adders, Holds(a)' PROVE \E i \in Published : nodes'[i].key = a
    <3>1. a # t /\ Holds(a)
      BY <2>1, <2>2, <2>10
    <3>2. PICK i \in Published : nodes[i].key = a
      BY <3>1 DEF IInv, NodesOK, AddedNodesOK
    <3> QED
      BY <1>5, <1>9, <3>2
  <2> QED
    BY <1>4, <1>9, <2>8, <2>9, <2>10 DEF AddedNodesOK
<1>11. ChurnedNodesOK'
  <2>1. \A i \in InMap : i \in DOMAIN nodes /\ nodes'[i] = nodes[i] /\ HasChurnedKey(i)' = HasChurnedKey(i)
    BY <1>1, <1>9 DEF HasChurnedKey
  <2>2. \A i \in DOMAIN nodes' : nodes'[i].retired <= 1
    BY <1>1 DEF IInv, NodesOK, ChurnedNodesOK
  <2>3. \A u \in Deleters : pc'[u] = "destroy" => pc[u] = "destroy" /\ kv'[u] = kv[u]
    BY DEF Locals, Callers
  <2> QED
    BY <1>9, <2>1, <2>2, <2>3 DEF IInv, NodesOK, ChurnedNodesOK
<1> QED
  BY <1>0, <1>1, <1>7, <1>8, <1>10, <1>11

LEMMA LinkNewKeeps ==
  ASSUME OneChurnedKey, NEW t \in Puts, Starts(t), LinkNew(t)
  PROVE  IInv' /\ InMap' = InMap
<1> USE DEF Starts
<1>1. /\ t \in Callers /\ t \in Putters /\ t \in Churners /\ t \notin Getters
      /\ ThreadOK(t) /\ LinksOf(t) /\ t \notin Adders
  <2>1. t \notin Adders
    BY AdderFindsNothing DEF LinkNew, Found, IInv, ControlOK
  <2> QED
    BY <2>1, ThreadsAssumption DEF Puts, Churners, IInv, ThreadsOK, LinksOK
<1>2. /\ pc[t] \in {"walk", "link"} /\ pc'[t] = "replace" /\ new'[t] = NewNode(t)
      /\ nodes' = WithNewNode(t, nodes[kv[t]].next)
      /\ kv' = kv /\ prev' = prev /\ head' = head /\ next' = next
      /\ UNCHANGED <<bucket, length, key>>
  BY DEF LinkNew, MapGoto, IInv, TypeInv, LocalsTyped, Puts
<1>3. kv[t] # Null /\ HasChurnedKey(kv[t])
  BY <1>1, <1>2, ChurnerFinds DEF LinkNew, Found, ThreadOK, FoundBy
<1>4. kv[t] \in Published /\ kv[t] \in DOMAIN nodes /\ nodes[kv[t]].next \in Links
  BY <1>1, <1>3 DEF IInv, LinksOK, LinksOf, Links, Published
<1>5. NewNodeSet(t, nodes[kv[t]].next)
  BY <1>2, <1>4 DEF NewNodeSet
<1>6. /\ Silent(t) /\ NewNodeOf(t)' /\ AddedNodesOK' /\ ChurnedNodesOK'
      /\ nodes'[NewNode(t)].next = nodes[kv[t]].next
  BY <1>5, NewNodeSilent
<1>7. /\ Published' = Published /\ Links' = Links /\ nodes'[kv[t]].next = nodes[kv[t]].next
      /\ \A j \in Published : HasChurnedKey(j)' = HasChurnedKey(j)
  BY <1>4, <1>6 DEF Silent, Links, HasChurnedKey, Published
<1>8. LinksOf(t)'
  BY <1>1, <1>2, <1>7 DEF LinksOf, HasChurnedKey, Links
<1>9. FoundBy(t)' /\ NotMissedBy(t)'
  BY <1>2, <1>3, <1>4, <1>6, <1>7 DEF FoundBy, NotMissedBy, HasChurnedKey
<1> QED
  BY <1>1, <1>6, <1>8, <1>9, SilentKeeps, SilentChains DEF ThreadOK

LEMMA AddFailsKeeps ==
  ASSUME NEW t \in Puts, Starts(t), Add(t), bucket # head[t]
  PROVE  IInv' /\ InMap' = InMap
<1> USE DEF Starts
<1>1. t \in Callers /\ t \notin Getters /\ ThreadOK(t) /\ LinksOf(t)
  BY ThreadsAssumption DEF Puts, IInv, ThreadsOK, LinksOK
<1>2. /\ pc[t] \in {"walk", "add"} /\ pc'[t] = "retry" /\ new'[t] = NewNode(t)
      /\ nodes' = WithNewNode(t, head[t]) /\ (pc[t] = "walk" => kv[t] = Null)
      /\ kv' = kv /\ prev' = prev /\ head' = head /\ next' = next
      /\ UNCHANGED <<bucket, length, key>>
  BY DEF Add, MapGoto, IInv, TypeInv, LocalsTyped, Puts
<1>3. NewNodeSet(t, head[t])
  BY <1>1, <1>2 DEF NewNodeSet, LinksOf
<1>4. Silent(t) /\ NewNodeOf(t)' /\ AddedNodesOK' /\ ChurnedNodesOK'
  BY <1>3, NewNodeSilent
<1>5. /\ Published' = Published /\ Links' = Links
      /\ \A j \in Published : HasChurnedKey(j)' = HasChurnedKey(j)
  BY <1>4 DEF Silent, Links, HasChurnedKey, Published
<1>6. LinksOf(t)'
  BY <1>1, <1>2, <1>5 DEF LinksOf, HasChurnedKey, Links
<1>7. FoundBy(t)' /\ NotMissedBy(t)' /\ (t \in Adders => AdderWalks(t)')
  BY <1>1, <1>2 DEF FoundBy, NotMissedBy, ThreadOK, AdderWalks
<1> QED
  BY <1>1, <1>4, <1>6, <1>7, SilentKeeps, SilentChains DEF ThreadOK

LEMMA DestroyKeeps ==
  ASSUME NEW t \in Deleters, Starts(t), Destroy(t)
  PROVE  IInv' /\ InMap' = InMap
<1> USE DEF Starts
<1> DEFINE v == kv[t]
<1>1. /\ t \in Callers /\ t \notin Puts /\ t \notin Getters /\ ThreadOK(t) /\ LinksOf(t) /\ t \in Churners
  BY ThreadsAssumption DEF Puts, Churners, IInv, ThreadsOK, LinksOK
<1>2. /\ pc[t] = "destroy" /\ nodes' = [nodes EXCEPT ![v].retired = @ + 1]
      /\ bucket' = bucket /\ length' = length - 1 /\ Return(t)
  BY DEF Destroy
<1>3. v \in Published /\ v \in DOMAIN nodes /\ HasChurnedKey(v) /\ v \notin InMap /\ nodes[v].retired = 0
  BY <1>1, <1>2 DEF ThreadOK, FoundBy, LinksOf, Links, Published
<1>4. LinksOf(t)' /\ ThreadOK(t)' /\ pc'[t] = "idle"
  BY ReturnForgets, <1>2
<1>5. PICK w : w = v
  OBVIOUS
<1> HIDE DEF v
<1>6. /\ nodes' \in Seq(Node) /\ DOMAIN nodes' = DOMAIN nodes /\ Len(nodes') = Len(nodes) /\ Len(nodes) \in Nat
      /\ nodes'[w].retired = 1
      /\ \A j \in DOMAIN nodes : /\ nodes'[j].key = nodes[j].key /\ nodes'[j].next = nodes[j].next
                                 /\ j # w => nodes'[j].retired = nodes[j].retired
  <2>1. nodes' = Retired(nodes, w) /\ w \in DOMAIN nodes /\ nodes[w].retired = 0 /\ nodes \in Seq(Node)
        /\ Len(nodes) \in Nat
    BY <1>2, <1>3, <1>5, NodeTypes DEF Retired
  <2> QED
    BY <2>1, RetiredOnceMore
<1>7. Published' = Published
  BY <1>1, <1>6 DEF Published, Locals, Puts, Callers
<1>8. Silent(t)
  <2>1. \A u \in Puts : pc[u] # "count" => new[u] # w
    BY <1>3, <1>5 DEF Published
  <2>2. \A u \in Puts : new[u] # Null => new[u] \in DOMAIN nodes
    BY DEF IInv, ThreadsOK, ThreadOK, NewNodeOf, Puts, Callers
  <2>3. \A u \in Deleters \ {t} : pc[u] = "destroy" => kv[u] # w /\ kv[u] \in DOMAIN nodes
    <3>1. \A u \in Deleters : pc[u] = "destroy" => kv[u] \in DOMAIN nodes
      BY NodeTypes DEF IInv, LinksOK, LinksOf, ThreadsOK, ThreadOK, FoundBy, Churners, Callers
    <3> QED
      BY <1>2, <1>5, <3>1 DEF IInv, NodesOK, ChurnedNodesOK, v
  <2>4. HeapTyped'
    BY <1>2, <1>6 DEF HeapTyped, IInv, TypeInv
  <2>5. \A j \in DOMAIN nodes' : nodes'[j].next \in Links
    BY <1>6 DEF IInv, LinksOK
  <2> QED
    BY <1>1, <1>2, <1>6, <1>7, <2>1, <2>2, <2>3, <2>4, <2>5 DEF Silent, Published
<1>9. InMap' = InMap /\ InMap \subseteq DOMAIN nodes
  BY <1>8, SilentChains, InMapFacts DEF IInv
<1>10. \A i \in DOMAIN nodes : HasChurnedKey(i)' = HasChurnedKey(i)
  BY <1>6 DEF HasChurnedKey
<1>11. AddedNodesOK'
  <2>1. \A a \in Adders : Holds(a)' = Holds(a) /\ new'[a] = new[a]
    BY <1>1 DEF Locals, Holds, Puts, Callers
  <2>2. \A i \in DOMAIN nodes : ~HasChurnedKey(i) => nodes[i].key \in Adders /\ i # w
    BY <1>3, <1>5, NodeTypes DEF HasChurnedKey, Keys
  <2>3. \A i \in DOMAIN nodes : ~HasChurnedKey(i) => Holds(nodes[i].key)' = Holds(nodes[i].key)
    BY <1>6, <2>1, <2>2 DEF Holds
  <2> QED
    BY <1>6, <1>7, <1>9, <1>10, <2>1, <2>2, <2>3 DEF IInv, NodesOK, AddedNodesOK, Published
<1>12. ChurnedNodesOK'
  <2>1. \A u \in Deleters : pc'[u] = "destroy" => pc[u] = "destroy" /\ kv'[u] = kv[u]
    BY <1>4 DEF Locals, Callers
  <2>2. \A i \in DOMAIN nodes' : nodes'[i].retired <= 1
    BY <1>6 DEF IInv, NodesOK, ChurnedNodesOK
  <2>3. \A i \in InMap : nodes'[i].retired = 0
    BY <1>3, <1>5, <1>6, <1>9 DEF IInv, NodesOK, ChurnedNodesOK
  <2> QED
    BY <1>9, <1>10, <2>1, <2>2, <2>3 DEF IInv, NodesOK, ChurnedNodesOK
<1> QED
  BY <1>4, <1>8, <1>11, <1>12, SilentKeeps, SilentChains

-----------------------------------------------------------------------------
(* A compare-and-swap that adds a node to the map *)

LEMMA AddSucceeds ==
  ASSUME NEW t \in Puts, Starts(t), Add(t), bucket = head[t], NEW m, m = NewNode(t)
  PROVE  /\ HeapTyped' /\ bucket' = m /\ m \in DOMAIN nodes' /\ m \notin Links
         /\ DOMAIN nodes' = DOMAIN nodes \cup {m} /\ (new[t] = m \/ m \notin DOMAIN nodes)
         /\ nodes'[m] = [key |-> key[t], next |-> bucket, retired |-> 0]
         /\ \A j \in DOMAIN nodes : j # m => nodes'[j] = nodes[j]
         /\ Published' = Published \cup {m} /\ InMap' = InMap \cup {m}
         /\ \A i \in Links : Chain(i)' = Chain(i)
         /\ pc'[t] = "count" /\ new'[t] = m /\ \A u \in Puts : u # t => new'[u] = new[u] /\ new[u] # m
<1> USE DEF Starts
<1>1. t \in Callers /\ ThreadOK(t) /\ LinksOf(t)
  BY DEF Puts, IInv, ThreadsOK, LinksOK
<1>2. /\ pc[t] \in {"walk", "add"} /\ pc'[t] = "count" /\ new'[t] = m /\ nodes' = WithNewNode(t, bucket)
      /\ bucket' = m /\ length' = length
  BY DEF Add, MapGoto, IInv, TypeInv, LocalsTyped, Puts
<1>3. /\ nodes' \in Seq(Node) /\ Len(nodes) <= Len(nodes') /\ LinkedHeap(nodes')
      /\ DOMAIN nodes' = DOMAIN nodes \cup {m}
      /\ nodes'[m] = [key |-> key[t], next |-> bucket, retired |-> 0]
      /\ \A j \in DOMAIN nodes : j # m => nodes'[j] = nodes[j]
      /\ m # Null /\ m \notin Published
      /\ \A u \in Puts : u # t => new[u] # m
      /\ bucket \in Links
  <2>1. pc[t] \notin {"idle", "count"} /\ bucket \in Links
    BY <1>2 DEF IInv, LinksOK
  <2> QED
    BY <1>2, <2>1, NewNodeMade
<1>4. \A u \in Puts : u # t => new'[u] = new[u] /\ pc'[u] = pc[u] /\ new[u] # m
  BY <1>3 DEF Locals, Puts, Callers
<1>5. new[t] \in {Null, m} /\ (new[t] = m \/ m \notin DOMAIN nodes)
  BY NodeTypes DEF NewNode
<1>6. Published' = Published \cup {m}
  <2>1. ASSUME NEW i \in DOMAIN nodes'
        PROVE  (\A u \in Puts : new'[u] = i => pc'[u] = "count")
               <=> i = m \/ (i \in DOMAIN nodes /\ \A u \in Puts : new[u] = i => pc[u] = "count")
    <3>1. CASE i = m
      BY <1>2, <1>4, <3>1
    <3>2. CASE i # m
      <4>1. i \in DOMAIN nodes /\ i # Null
        BY <1>3, <3>2, NodeTypes
      <4> QED
        BY <1>2, <1>4, <1>5, <3>2, <4>1
    <3> QED
      BY <3>1, <3>2
  <2> QED
    BY <1>3, <2>1 DEF Published
<1>7. HeapTyped'
  BY <1>2, <1>3, NodeTypes DEF IInv, TypeInv, HeapTyped
<1>8. LinkedHeap(nodes) /\ Len(nodes) \in Nat /\ Len(nodes') \in Nat
  BY <1>3, HeapIsLinked, NodeTypes DEF IInv
<1>9. ASSUME NEW i \in Links PROVE Chain(i)' = Chain(i) /\ Reach(nodes', i) = Chain(i)
  <2>1. i \in 0 .. Len(nodes) /\ Chain(i) \subseteq Published
    BY ChainFacts DEF IInv
  <2>2. \A j \in Reach(nodes, i) : nodes'[j].next = nodes[j].next
    BY <1>3, <2>1, ChainIsReach DEF Published
  <2>3. Reach(nodes', i) = Reach(nodes, i)
    BY <1>3, <1>8, <2>1, <2>2, ReachUnchanged
  <2>4. Chain(i)' = Reach(nodes', i)
    BY DEF Chain, Reach
  <2> QED
    BY <2>3, <2>4, ChainIsReach
<1>10. InMap' = InMap \cup {m}
  <2>1. Reach(nodes', m) = {m} \cup Reach(nodes', bucket)
    BY <1>3, ReachPush
  <2>2. InMap' = Reach(nodes', m)
    BY <1>2 DEF InMap, Chain, Reach
  <2> QED
    BY <1>3, <1>9, <2>1, <2>2 DEF InMap
<1> QED
  BY <1>2, <1>3, <1>4, <1>5, <1>6, <1>7, <1>9, <1>10 DEF Links

\* A putter adds a node only if there is none of its key.
LEMMA NothingMissed ==
  ASSUME OneChurnedKey, NEW t \in Putters, Starts(t), Add(t), bucket = head[t]
  PROVE  \A i \in InMap : ~HasChurnedKey(i)
<1> USE DEF Starts
<1>1. NotMissedBy(t)
  BY DEF IInv, ThreadsOK, ThreadOK
<1>2. Chain(Null) = {}
  BY NodeTypes, ReachOfNull, ChainIsReach
<1>3. CASE pc[t] = "walk"
  <2>1. kv[t] = Null
    BY <1>3 DEF Add
  <2> QED
    BY <1>1, <1>2, <1>3, <2>1 DEF NotMissedBy
<1>4. CASE pc[t] = "add"
  BY <1>1, <1>2, <1>4 DEF NotMissedBy, InMap
<1> QED
  BY <1>3, <1>4 DEF Add

LEMMA AddKeepsNodes ==
  ASSUME OneChurnedKey, NEW t \in Puts, Starts(t), Add(t), bucket = head[t]
  PROVE  LinksOK' /\ NodesOK'
<1> USE DEF Starts
<1>0. PICK m : m = NewNode(t)
  OBVIOUS
<1>1. /\ HeapTyped' /\ bucket' = m /\ m \in DOMAIN nodes' /\ m \notin Links
      /\ DOMAIN nodes' = DOMAIN nodes \cup {m} /\ (new[t] = m \/ m \notin DOMAIN nodes)
      /\ nodes'[m] = [key |-> key[t], next |-> bucket, retired |-> 0]
      /\ \A j \in DOMAIN nodes : j # m => nodes'[j] = nodes[j]
      /\ Published' = Published \cup {m} /\ InMap' = InMap \cup {m}
      /\ pc'[t] = "count" /\ new'[t] = m /\ \A u \in Puts : u # t => new'[u] = new[u] /\ new[u] # m
  BY <1>0, AddSucceeds
<1>2. /\ t \in Callers /\ ThreadOK(t) /\ LinksOf(t) /\ NewNodeOf(t) /\ key[t] \in KeysOf(t)
      /\ pc[t] \in {"walk", "add"} /\ kv' = kv /\ prev' = prev /\ head' = head /\ key' = key /\ next' = next
  BY DEF Puts, IInv, ThreadsOK, ThreadOK, LinksOK, ControlOK, Add
<1>3. Links' = Links \cup {m} /\ Published \subseteq DOMAIN nodes /\ Published \subseteq Links /\ Null \notin Published
  BY <1>1, NodeTypes DEF Links, Published
<1>4. \A j \in Published : nodes'[j] = nodes[j] /\ HasChurnedKey(j)' = HasChurnedKey(j) /\ j # m
  BY <1>1, <1>3 DEF HasChurnedKey
<1>5. InMap \subseteq Published /\ bucket \in InMap \cup {Null} /\ bucket \in Links
      /\ \A j \in InMap : nodes[j].next \in InMap \cup {Null}
  BY InMapFacts DEF IInv, LinksOK
<1>6. HasChurnedKey(m)' = (key[t] \in Churned) /\ nodes'[m].key = key[t] /\ nodes'[m].retired = 0 /\ nodes'[m].next = bucket
  BY <1>1 DEF HasChurnedKey
<1>7. key[t] \notin Churned => t \in Adders /\ key[t] = t
  BY <1>2, ThreadsAssumption DEF KeysOf, Puts
<1>8. key[t] \in Churned => t \in Putters
  BY <1>2, KeysAssumption, ThreadsAssumption DEF KeysOf, Puts
<1>9. LinksOK'
  <2>1. ASSUME NEW u \in Callers PROVE LinksOf(u)'
    <3>1. LinksOf(u) /\ kv'[u] = kv[u] /\ prev'[u] = prev[u] /\ (u \in Puts => head'[u] = head[u])
          /\ (u \in Deleters => next'[u] = next[u])
      BY <1>2 DEF IInv, LinksOK
    <3>2. prev[u] # Null => HasChurnedKey(prev[u])' = HasChurnedKey(prev[u])
      BY <1>4, <3>1 DEF LinksOf, Links
    <3> QED
      BY <1>3, <3>1, <3>2 DEF LinksOf, HasChurnedKey
  <2>2. \A j \in DOMAIN nodes' : nodes'[j].next \in Links'
    BY <1>1, <1>3, <1>5, <1>6 DEF IInv, LinksOK
  <2> QED
    BY <1>1, <1>3, <2>1, <2>2 DEF LinksOK
<1>10. OneWayIn'
  <2>1. Link(Null)' = m /\ Link(m)' = bucket /\ \A j \in InMap : Link(j)' = Link(j)
    BY <1>1, <1>3, <1>4, <1>5, <1>6 DEF Link, Links
  <2>2. \A j \in InMap : Link(j) \in Links /\ Link(j) # m /\ j # Null
    BY <1>1, <1>3, <1>5 DEF Link, Links
  <2>3. Link(Null) = bucket /\ bucket # m
    BY <1>1, <1>5 DEF Link
  <2>4. \A i, j \in InMap \cup {Null} : Link(i) = Link(j) /\ Link(i) # Null => i = j
    BY DEF IInv, NodesOK, OneWayIn
  <2>5. \A i, j \in InMap \cup {m, Null} : Link(i)' = Link(j)' /\ Link(i)' # Null => i = j
    BY <2>1, <2>2, <2>3, <2>4
  <2> QED
    BY <1>1, <2>5 DEF OneWayIn
<1>11. AddedNodesOK'
  <2>1. ~Holds(t) /\ ~Holds(t)'
    BY <1>1, <1>2 DEF Holds
  <2>2. \A a \in Adders : a # t => Holds(a)' = Holds(a) /\ new'[a] = new[a]
    BY DEF Locals, Holds, Puts, Callers
  <2>3. \A i \in DOMAIN nodes : ~HasChurnedKey(i) => nodes[i].key \in Adders
    BY NodeTypes DEF HasChurnedKey, Keys
  <2>4. new[t] \in {Null, m}
    BY <1>0 DEF NewNode
  <2>5. \A i \in DOMAIN nodes : ~HasChurnedKey(i) /\ nodes[i].key = t => i = m
    BY <2>1, <2>3, <2>4, NodeTypes DEF IInv, NodesOK, AddedNodesOK
  <2>6. \A i \in DOMAIN nodes' : i # m => i \in DOMAIN nodes /\ nodes'[i] = nodes[i] /\ HasChurnedKey(i)' = HasChurnedKey(i)
    BY <1>1 DEF HasChurnedKey
  <2>8. ASSUME NEW i \in DOMAIN nodes', ~HasChurnedKey(i)'
        PROVE  /\ Holds(nodes[i].key)' \/ new'[nodes'[i].key] = i
               /\ nodes'[i].retired = 0
               /\ i \in Published' => i \in InMap'
    <3>1. CASE i = m
      BY <1>1, <1>6, <1>7, <2>8, <3>1
    <3>2. CASE i # m
      <4>1. i \in DOMAIN nodes /\ nodes'[i] = nodes[i] /\ ~HasChurnedKey(i)
        BY <2>6, <2>8, <3>2
      <4>2. nodes[i].key \in Adders /\ nodes[i].key # t
        BY <2>3, <2>5, <3>2, <4>1
      <4>3. Holds(nodes[i].key)' = Holds(nodes[i].key)
        BY <2>2, <4>1, <4>2 DEF Holds
      <4> QED
        BY <1>1, <2>2, <3>2, <4>1, <4>2, <4>3 DEF IInv, NodesOK, AddedNodesOK
    <3> QED
      BY <3>1, <3>2
  <2>9. ASSUME NEW i \in DOMAIN nodes', NEW j \in DOMAIN nodes', nodes'[i].key = nodes'[j].key, i # j
        PROVE  HasChurnedKey(i)'
    <3>1. CASE i # m /\ j # m
      BY <2>6, <2>9, <3>1 DEF IInv, NodesOK, AddedNodesOK
    <3>2. CASE i = m
      BY <2>5, <1>7, <2>6, <1>6, <2>9, <3>2, KeysAssumption DEF HasChurnedKey
    <3>3. CASE j = m
      BY <2>5, <1>7, <2>6, <1>6, <2>9, <3>3, KeysAssumption DEF HasChurnedKey
    <3> QED
      BY <3>1, <3>2, <3>3
  <2>10. ASSUME NEW a \in Adders, Holds(a)' PROVE \E i \in Published' : nodes'[i].key = a
    <3>1. a # t /\ Holds(a)
      BY <2>1, <2>2, <2>10
    <3>2. PICK i \in Published : nodes[i].key = a
      BY <3>1 DEF IInv, NodesOK, AddedNodesOK
    <3> QED
      BY <1>1, <1>4, <3>2
  <2> QED
    BY <2>8, <2>9, <2>10 DEF AddedNodesOK
<1>12. ChurnedNodesOK'
  <2>1. \A i \in InMap : i # m /\ nodes'[i] = nodes[i] /\ HasChurnedKey(i)' = HasChurnedKey(i)
    BY <1>4, <1>5
  <2>2. \A i \in DOMAIN nodes' : nodes'[i].retired <= 1
    BY <1>1, <1>6 DEF IInv, NodesOK, ChurnedNodesOK
  <2>3. \A u \in Deleters : pc'[u] = "destroy" => pc[u] = "destroy" /\ kv'[u] = kv[u]
    BY <1>1, <1>2 DEF Locals, Callers
  <2>4. \A i, j \in InMap' : HasChurnedKey(i)' /\ HasChurnedKey(j)' => i = j
    BY <1>1, <1>6, <1>8, <2>1, NothingMissed DEF IInv, NodesOK, ChurnedNodesOK
  <2> QED
    BY <1>1, <1>6, <2>1, <2>2, <2>3, <2>4 DEF IInv, NodesOK, ChurnedNodesOK
<1> QED
  BY <1>9, <1>10, <1>11, <1>12 DEF NodesOK

LEMMA AddKeepsThreads ==
  ASSUME OneChurnedKey, NEW t \in Puts, Starts(t), Add(t), bucket = head[t]
  PROVE  ThreadsOK'
<1> USE DEF Starts
<1>0. PICK m : m = NewNode(t)
  OBVIOUS
<1>1. /\ bucket' = m /\ m \in DOMAIN nodes' /\ m \notin Links
      /\ DOMAIN nodes' = DOMAIN nodes \cup {m}
      /\ nodes'[m] = [key |-> key[t], next |-> bucket, retired |-> 0]
      /\ \A j \in DOMAIN nodes : j # m => nodes'[j] = nodes[j]
      /\ Published' = Published \cup {m} /\ InMap' = InMap \cup {m}
      /\ \A i \in Links : Chain(i)' = Chain(i)
      /\ pc'[t] = "count" /\ new'[t] = m /\ \A u \in Puts : u # t => new'[u] = new[u] /\ new[u] # m
  BY <1>0, AddSucceeds
<1>2. /\ t \in Callers /\ ThreadOK(t) /\ t \notin Getters /\ pc[t] \in {"walk", "add"}
      /\ kv' = kv /\ prev' = prev /\ head' = head /\ key' = key /\ (pc[t] = "walk" => kv[t] = Null)
  BY ThreadsAssumption DEF Puts, IInv, ThreadsOK, Add
<1>3. \A j \in Published : nodes'[j] = nodes[j] /\ HasChurnedKey(j)' = HasChurnedKey(j) /\ j # m /\ j \in DOMAIN nodes
  BY <1>1 DEF HasChurnedKey, Links, Published
<1>4. ThreadOK(t)'
  <2>1. NewNodeOf(t)'
    BY <1>1, <1>2 DEF NewNodeOf, Links
  <2>2. FoundBy(t)' /\ NotMissedBy(t)'
    BY <1>1 DEF FoundBy, NotMissedBy
  <2>3. t \in Adders => AdderWalks(t)'
    BY <1>1, <1>2 DEF ThreadOK, AdderWalks
  <2> QED
    BY <1>2, <2>1, <2>2, <2>3 DEF ThreadOK
<1>5. ASSUME NEW u \in Callers, u # t PROVE ThreadOK(u)'
  <2>1. /\ ThreadOK(u) /\ pc'[u] = pc[u] /\ key'[u] = key[u] /\ kv'[u] = kv[u] /\ prev'[u] = prev[u]
        /\ LinksOf(u) /\ kv[u] \in Links
    BY <1>5 DEF IInv, ThreadsOK, Locals, LinksOK, LinksOf
  <2>2. ASSUME u \in Puts PROVE NewNodeOf(u)'
    <3>1. NewNodeOf(u) /\ new'[u] = new[u] /\ new[u] # m
      BY <1>1, <1>5, <2>1, <2>2 DEF ThreadOK
    <3> QED
      BY <1>1, <1>2, <1>5, <2>1, <2>2, <3>1 DEF NewNodeOf
  <2>3. ASSUME u \in Churners PROVE FoundBy(u)'
    <3>1. FoundBy(u) /\ (u \in Putters => NewNodeOf(u) /\ new'[u] = new[u] /\ new[u] # m) /\ (u \in Deleters => next'[u] = next[u])
      BY <1>1, <1>5, <2>1, <2>3 DEF ThreadOK, Locals, Puts
    <3>2. (u \in Putters => pc[u] \notin {"unlink", "destroy"}) /\ (u \in Deleters => pc[u] # "replace")
      BY DEF IInv, ControlOK
    <3>3. kv[u] # Null => kv[u] \in Published /\ nodes'[kv[u]] = nodes[kv[u]] /\ kv[u] # m
                                              /\ HasChurnedKey(kv[u])' = HasChurnedKey(kv[u])
      BY <1>3, <2>1 DEF Links
    <3>4. u \in Putters /\ pc[u] = "replace" => nodes'[new[u]] = nodes[new[u]]
      BY <1>1, <3>1 DEF NewNodeOf
    <3> QED
      BY <1>1, <2>1, <2>3, <3>1, <3>2, <3>3, <3>4 DEF FoundBy, Churners, HasChurnedKey
  <2>4. u \in Adders => AdderWalks(u)'
    BY <2>1 DEF ThreadOK, AdderWalks
  <2>5. ASSUME u \in Putters PROVE NotMissedBy(u)'
    <3>1. head'[u] = head[u] /\ NotMissedBy(u) /\ head[u] \in Links
      BY <1>2, <2>1, <2>5 DEF ThreadOK, LinksOf, Puts
    <3> QED
      BY <1>1, <2>1, <3>1 DEF NotMissedBy
  <2>6. ASSUME u \in Getters PROVE AheadOf(u)'
    <3>1. settled'[u] = settled[u] /\ AheadOf(u)
      BY <1>5, <2>1, <2>6 DEF ThreadOK, Locals
    <3>2. Chain(kv[u]) \subseteq Published /\ Chain(kv[u])' = Chain(kv[u])
      BY <1>1, <2>1, ChainFacts DEF IInv
    <3> QED
      BY <1>1, <1>3, <2>1, <3>1, <3>2 DEF AheadOf
  <2> QED
    BY <2>2, <2>3, <2>4, <2>5, <2>6 DEF ThreadOK
<1> QED
  BY <1>4, <1>5 DEF ThreadsOK

LEMMA AddKeeps ==
  ASSUME OneChurnedKey, NEW t \in Puts, Starts(t), Add(t)
  PROVE  IInv'
<1>1. CASE bucket # head[t]
  BY <1>1, AddFailsKeeps
<1>2. CASE bucket = head[t]
  <2>1. PICK m : m = NewNode(t)
    OBVIOUS
  <2>2. HeapTyped'
    BY <1>2, <2>1, AddSucceeds
  <2> QED
    BY <1>2, <2>2, AddKeepsNodes, AddKeepsThreads DEF IInv, Starts, TypeInv
<1> QED
  BY <1>1, <1>2

-----------------------------------------------------------------------------
(* A compare-and-swap that takes v, the node of the churned key, out of the map *)

\* The link behind p leads to v before, and after to what follows v (X is
\* empty) or to the new node m that is followed by it (X is {m}).
Splice(t, p, v, m, X) ==
  /\ v \in InMap /\ HasChurnedKey(v) /\ p \in Links /\ Link(p) = v /\ (p # Null => ~HasChurnedKey(p))
  /\ \/ X = {} /\ m = nodes[v].next
     \/ /\ X = {m} /\ m \in DOMAIN nodes /\ m \notin Published
        /\ nodes[m].next = nodes[v].next /\ HasChurnedKey(m) /\ nodes[m].retired = 0
  /\ HeapTyped' /\ DOMAIN nodes' = DOMAIN nodes
  /\ Published' = Published \cup X
  /\ IF p = Null THEN bucket' = m ELSE bucket' = bucket /\ nodes'[p].next = m
  /\ \A j \in DOMAIN nodes : /\ nodes'[j].key = nodes[j].key
                             /\ j # p => nodes'[j].next = nodes[j].next
                             /\ j # v => nodes'[j].retired = nodes[j].retired
  /\ nodes'[v].retired <= 1
  /\ t \in Puts => new'[t] \in {Null, new[t]}
  /\ pc'[t] = "destroy" => kv'[t] = v

\* The last link of a walk that gets further than its first node.
LEMMA Predecessor ==
  ASSUME TypeInv, LinksOK, NEW i \in Links, NEW v \in Chain(i), v # i
  PROVE  \E j \in Chain(i) : nodes[j].next = v
<1> SUFFICES ASSUME \A j \in Chain(i) : nodes[j].next # v PROVE FALSE
  OBVIOUS
<1> DEFINE S == Chain(i) \ {v}
<1>1. i \in S \cup {Null} /\ \A j \in S : nodes[j].next \in S \cup {Null}
  BY ChainFacts
<1>2. nodes \in Seq(Node)
  BY DEF TypeInv, HeapTyped
<1> HIDE DEF S
<1>3. Chain(i) \subseteq S
  BY <1>1, <1>2, ReachWithin, ChainIsReach
<1> QED
  BY <1>3 DEF S

LEMMA SpliceChains ==
  ASSUME OneChurnedKey, NEW t \in Churners, Starts(t), NEW p, NEW v, NEW m, NEW X, Splice(t, p, v, m, X)
  PROVE  /\ InMap' = (InMap \ {v}) \cup X
         /\ p = Null \/ p \in InMap
         /\ v # p /\ v # Null /\ m \in Links \cup X
         /\ \A i \in Links : /\ Chain(i) \ {v} \subseteq Chain(i)'
                             /\ p \in Chain(i) => m \in Chain(i)' \cup {Null}
<1>0. /\ IInv /\ v \in InMap /\ HasChurnedKey(v) /\ p \in Links /\ Link(p) = v /\ (p # Null => ~HasChurnedKey(p))
      /\ HeapTyped' /\ DOMAIN nodes' = DOMAIN nodes
      /\ p = Null => bucket' = m
      /\ p # Null => bucket' = bucket /\ nodes'[p].next = m
      /\ \A j \in DOMAIN nodes : j # p => nodes'[j].next = nodes[j].next
  BY DEF Starts, Splice
<1>00. \/ X = {} /\ m = nodes[v].next
       \/ X = {m} /\ m \in DOMAIN nodes /\ m \notin Published /\ nodes[m].next = nodes[v].next
  BY DEF Splice
<1>1. LinkedHeap(nodes) /\ Len(nodes) \in Nat /\ DOMAIN nodes = 1 .. Len(nodes) /\ nodes \in Seq(Node)
  BY <1>0, HeapIsLinked, NodeTypes DEF IInv
<1>2. InMap \subseteq Published /\ Null \notin InMap /\ Published \subseteq DOMAIN nodes /\ v \in DOMAIN nodes
      /\ (\A j \in InMap : nodes[j].next \in InMap \cup {Null}) /\ bucket \in InMap \cup {Null}
  BY <1>0, InMapFacts DEF IInv, Published
<1>3. p = Null \/ p \in InMap
  BY <1>0, <1>2 DEF IInv, NodesOK, AddedNodesOK, Links
<1>4. v # p /\ v # Null /\ (p # Null => p \in DOMAIN nodes /\ nodes[p].next = v) /\ (p = Null => bucket = v)
  BY <1>0, <1>2, <1>3 DEF Link
<1>5. nodes[v].next \in Links /\ m \in Links \cup X /\ m \in 0 .. Len(nodes)
  <2>1. nodes[v].next \in Links
    BY <1>0, <1>2 DEF IInv, LinksOK
  <2> QED
    BY <1>0, <1>00, <1>1, <2>1, NodeTypes DEF Null
<1>6. /\ LinkedHeap(nodes') /\ Len(nodes') = Len(nodes)
  <2>1. nodes' \in Seq(Node) /\ DOMAIN nodes' = 1 .. Len(nodes') /\ Len(nodes') \in Nat
    BY <1>0 DEF HeapTyped
  <2>2. Len(nodes') = Len(nodes)
    BY <1>0, <1>1, <2>1
  <2>3. \A j \in DOMAIN nodes : nodes[j].next \in 0 .. Len(nodes)
    BY <1>1 DEF LinkedHeap
  <2>4. \A j \in DOMAIN nodes : nodes'[j].next \in 0 .. Len(nodes)
    <3>1. ASSUME NEW j \in DOMAIN nodes, j = p PROVE nodes'[j].next = m
      BY <1>0, <1>1, <3>1 DEF Null
    <3> QED
      BY <1>0, <1>5, <2>3, <3>1
  <2> QED
    BY <1>0, <2>1, <2>2, <2>4 DEF LinkedHeap
<1>7. /\ p \in Published \cup {Null}
      /\ \/ X = {} /\ m = nodes[v].next
         \/ X = {m} /\ m \in DOMAIN nodes' /\ m \notin InMap /\ nodes'[m].next = nodes[v].next
  <2>1. Null \notin DOMAIN nodes
    BY <1>0, NodeTypes
  <2> QED
    <3>1. p \in Published \cup {Null}
      BY <1>2, <1>3
    <3>2. CASE X = {} /\ m = nodes[v].next
      BY <3>1, <3>2
    <3>3. CASE X = {m} /\ m \in DOMAIN nodes /\ m \notin Published /\ nodes[m].next = nodes[v].next
      <4>1. m # p
        BY <2>1, <3>1, <3>3
      <4>2. nodes'[m].next = nodes[m].next
        BY <1>0, <3>3, <4>1
      <4> QED
        BY <1>0, <1>2, <3>1, <3>3, <4>2
    <3> QED
      BY <1>00, <3>2, <3>3
<1>8. ASSUME NEW i \in Links
      PROVE  Bypass(nodes, nodes', Reach(nodes, i), p, v, m) /\ i \in 0 .. Len(nodes)
             /\ Chain(i)' = Reach(nodes', i) /\ Reach(nodes, i) = Chain(i)
             /\ Reach(nodes, i) \subseteq Published
  <2>1. Chain(i) \subseteq Published /\ Null \notin Chain(i) /\ i \in 0 .. Len(nodes)
    BY <1>0, ChainFacts DEF IInv
  <2>2. Chain(i)' = Reach(nodes', i) /\ Chain(i) = Reach(nodes, i)
    BY ChainIsReach DEF Chain, Reach
  <2>3. \A j \in Chain(i) : j \in DOMAIN nodes
    BY <1>2, <2>1
  <2>4. p \in Chain(i) => nodes[p].next = v /\ nodes'[p].next = m
    BY <1>0, <1>4, <2>1
  <2>5. \A j \in Chain(i) : j # p => nodes'[j].next = nodes[j].next
    BY <1>0, <2>3
  <2>6. \/ m = nodes[v].next
        \/ m \in DOMAIN nodes' /\ nodes'[m].next = nodes[v].next
    BY <1>7
  <2> QED
    BY <1>1, <1>2, <1>4, <1>6, <2>1, <2>2, <2>4, <2>5, <2>6 DEF Bypass
<1>9. InMap' = (InMap \ {v}) \cup X
  <2>1. /\ bucket \in Links /\ bucket \in 0 .. Len(nodes) /\ InMap = Reach(nodes, bucket)
        /\ Bypass(nodes, nodes', Reach(nodes, bucket), p, v, m)
    BY <1>0, <1>8 DEF IInv, LinksOK, InMap
  <2>2. \A j \in Reach(nodes, bucket) : nodes[j].next = v => j = p
    BY <1>0, <1>2, <1>3, <1>4, <2>1 DEF IInv, NodesOK, OneWayIn, Link
  <2>3. PICK c : c = bucket'
    OBVIOUS
  <2>4. IF p = Null THEN bucket = v /\ c = m ELSE p \in Reach(nodes, bucket) /\ bucket # v /\ c = bucket
    <3>1. p # Null => bucket # v
      BY <1>0, <1>2, <1>3, <1>4 DEF IInv, NodesOK, OneWayIn, Link
    <3> QED
      BY <1>0, <1>3, <1>4, <2>1, <2>3, <3>1
  <2>5. \/ X = {} /\ m = nodes[v].next
        \/ X = {m} /\ m \in DOMAIN nodes' /\ m \notin Reach(nodes, bucket) /\ nodes'[m].next = nodes[v].next
    BY <1>7, <2>1
  <2>6. Reach(nodes', c) = (Reach(nodes, bucket) \ {v}) \cup X
    <3>1. v \in Reach(nodes, bucket)
      BY <1>0, <2>1
    <3>2. Replaces(nodes, nodes', p, v, m, bucket, c, X)
      BY <2>1, <2>2, <2>4, <2>5, <3>1 DEF Replaces
    <3> QED
      BY <2>1, <3>2, ReachReplaced
  <2>7. InMap' = Reach(nodes', c)
    BY <2>3 DEF InMap, Chain, Reach
  <2> QED
    BY <2>1, <2>6, <2>7
<1>10. ASSUME NEW i \in Links PROVE Chain(i) \ {v} \subseteq Chain(i)'
  BY <1>8, ReachBypass
<1>11. ASSUME NEW i \in Links, p \in Chain(i) PROVE m \in Chain(i)' \cup {Null}
  <2>1. p \in Reach(nodes', i) /\ p # Null
    BY <1>0, <1>4, <1>8, <1>10, <1>11, ChainFacts DEF IInv
  <2>2. i \in 0 .. Len(nodes')
    BY <1>6, <1>8
  <2>3. Closed(nodes', Reach(nodes', i))
    BY <1>6, <2>2, ReachCloses
  <2> QED
    BY <1>0, <1>8, <2>1, <2>3 DEF Closed
<1> QED
  BY <1>3, <1>4, <1>5, <1>9, <1>10, <1>11

LEMMA SpliceKeepsNodes ==
  ASSUME OneChurnedKey, NEW t \in Churners, Starts(t), NEW p, NEW v, NEW m, NEW X, Splice(t, p, v, m, X),
         LinksOf(t)'
  PROVE  LinksOK' /\ NodesOK'
<1>0. /\ IInv /\ t \in Callers /\ v \in InMap /\ HasChurnedKey(v) /\ p \in Links /\ Link(p) = v
      /\ p # Null => ~HasChurnedKey(p)
      /\ DOMAIN nodes' = DOMAIN nodes /\ Published' = Published \cup X
      /\ p = Null => bucket' = m
      /\ p # Null => bucket' = bucket /\ nodes'[p].next = m
      /\ \A j \in DOMAIN nodes : nodes'[j].key = nodes[j].key
      /\ \A j \in DOMAIN nodes : j # p => nodes'[j].next = nodes[j].next
      /\ \A j \in DOMAIN nodes : j # v => nodes'[j].retired = nodes[j].retired
      /\ nodes'[v].retired <= 1
      /\ pc'[t] = "destroy" => kv'[t] = v
  BY DEF Starts, Splice
<1>00. \/ X = {} /\ m = nodes[v].next
       \/ /\ X = {m} /\ m \in DOMAIN nodes /\ m \notin Published
          /\ nodes[m].next = nodes[v].next /\ HasChurnedKey(m) /\ nodes[m].retired = 0
  BY DEF Splice
<1>1. /\ InMap' = (InMap \ {v}) \cup X /\ (p = Null \/ p \in InMap)
      /\ v # p /\ v # Null /\ m \in Links \cup X
  BY SpliceChains
<1>2. /\ InMap \subseteq Published /\ Published \subseteq DOMAIN nodes /\ Null \notin InMap /\ Null \notin DOMAIN nodes
      /\ bucket \in Links /\ \A j \in InMap : nodes[j].next \in Links
      /\ Links' = Links \cup X
  BY <1>0, InMapFacts, NodeTypes DEF IInv, LinksOK, Published, Links
<1>3. \A j \in DOMAIN nodes : HasChurnedKey(j)' = HasChurnedKey(j)
  BY <1>0 DEF HasChurnedKey
<1>4. Locals(t) /\ OneWayIn /\ AddedNodesOK /\ ChurnedNodesOK
  BY <1>0 DEF Starts, IInv, NodesOK
<1>5. LinksOK'
  <2>1. ASSUME NEW u \in Callers, u # t PROVE LinksOf(u)'
    <3>1. LinksOf(u) /\ kv'[u] = kv[u] /\ prev'[u] = prev[u] /\ (u \in Puts => head'[u] = head[u])
          /\ (u \in Deleters => next'[u] = next[u])
      BY <1>0, <1>4, <2>1 DEF IInv, LinksOK, Locals
    <3>2. prev[u] # Null => HasChurnedKey(prev[u])' = HasChurnedKey(prev[u])
      BY <1>2, <1>3, <3>1 DEF LinksOf, Links
    <3> QED
      BY <1>2, <3>1, <3>2 DEF LinksOf, HasChurnedKey
  <2>2. ASSUME NEW j \in DOMAIN nodes PROVE nodes'[j].next \in Links'
    <3>1. nodes[j].next \in Links
      BY <1>0 DEF IInv, LinksOK
    <3>2. CASE j = p
      BY <1>0, <1>1, <1>2, <3>2
    <3>3. CASE j # p
      BY <1>0, <1>2, <3>1, <3>3
    <3> QED
      BY <3>2, <3>3
  <2>3. bucket' \in Links'
    BY <1>0, <1>1, <1>2
  <2> QED
    BY <1>0, <2>1, <2>2, <2>3 DEF LinksOK
<1>6. OneWayIn'
  <2>1. \A i, j \in InMap \cup {Null} : Link(i) = Link(j) /\ Link(i) # Null => i = j
    BY <1>4 DEF OneWayIn
  <2>2. Link(p)' = m /\ \A j \in InMap \cup {Null} : j # p => Link(j)' = Link(j)
    BY <1>0, <1>2 DEF Link
  <2>3. \A j \in InMap \cup {Null} : Link(j) \in Links
    BY <1>2 DEF Link
  <2>4. Link(v) = nodes[v].next
    BY <1>1 DEF Link
  <2>5. CASE X = {} /\ m = nodes[v].next
    <3> SUFFICES ASSUME NEW i \in (InMap \ {v}) \cup {Null}, NEW j \in (InMap \ {v}) \cup {Null},
                        Link(i)' = Link(j)', Link(i)' # Null
                 PROVE  i = j
      BY <1>1, <2>5 DEF OneWayIn
    <3> QED
      BY <1>0, <1>1, <2>1, <2>2, <2>4, <2>5
  <2>6. CASE X = {m} /\ m \in DOMAIN nodes /\ m \notin Published /\ nodes[m].next = nodes[v].next
    <3>1. m \notin Links /\ m # p /\ m # Null /\ m \notin InMap
      BY <1>0, <1>2, <2>6 DEF Links
    <3>2. Link(m)' = Link(v)
      BY <1>0, <2>4, <2>6, <3>1 DEF Link
    <3> SUFFICES ASSUME NEW i \in (InMap \ {v}) \cup {m, Null}, NEW j \in (InMap \ {v}) \cup {m, Null},
                        Link(i)' = Link(j)', Link(i)' # Null
                 PROVE  i = j
      BY <1>1, <2>6 DEF OneWayIn
    <3>3. \A k \in (InMap \ {v}) \cup {m, Null} : Link(k)' = m => k = p
      BY <1>0, <1>1, <2>2, <2>3, <3>1, <3>2
    <3>4. CASE i = m \/ j = m
      <4>1. \A k \in (InMap \ {v}) \cup {Null} : Link(k)' = Link(v) /\ Link(v) # Null => FALSE
        BY <1>0, <1>1, <2>1, <2>2, <2>3, <3>1
      <4> QED
        BY <3>2, <3>4, <4>1
    <3>5. CASE i # m /\ j # m
      BY <1>0, <1>1, <2>1, <2>2, <2>3, <3>1, <3>5
    <3> QED
      BY <3>4, <3>5
  <2> QED
    BY <1>00, <2>5, <2>6
<1>7. AddedNodesOK'
  <2>1. \A i \in DOMAIN nodes : ~HasChurnedKey(i) => nodes[i].key \in Adders /\ i # v
    BY <1>0, NodeTypes DEF HasChurnedKey, Keys
  <2>2. \A a \in Adders : Holds(a)' = Holds(a) /\ new'[a] = new[a]
    <3>1. t \notin Adders
      BY ThreadsAssumption DEF Churners
    <3> QED
      BY <1>4, <3>1 DEF Locals, Holds, Puts, Callers
  <2>3. ASSUME NEW i \in DOMAIN nodes, ~HasChurnedKey(i)
        PROVE  Holds(nodes[i].key)' = Holds(nodes[i].key) /\ (i \in Published' => i \in InMap')
               /\ nodes'[i].retired = 0 /\ (Holds(nodes[i].key) \/ new'[nodes[i].key] = i)
    <3>1. Holds(nodes[i].key)' = Holds(nodes[i].key)
      BY <1>0, <2>1, <2>2, <2>3 DEF Holds
    <3>2. i \in Published' => i \in Published
      BY <1>0, <1>00, <2>3
    <3>3. i \in Published => i \in InMap'
      BY <1>1, <1>4, <2>1, <2>3 DEF AddedNodesOK
    <3>4. nodes[i].retired = 0 /\ (Holds(nodes[i].key) \/ new[nodes[i].key] = i)
      BY <1>4, <2>3 DEF AddedNodesOK
    <3> QED
      BY <1>0, <2>1, <2>2, <2>3, <3>1, <3>2, <3>3, <3>4
  <2>4. \A i, j \in DOMAIN nodes : nodes[i].key = nodes[j].key => i = j \/ HasChurnedKey(i)
    BY <1>4 DEF AddedNodesOK
  <2>5. \A a \in Adders : Holds(a) => \E i \in Published : nodes[i].key = a
    BY <1>4 DEF AddedNodesOK
  <2> QED
    BY <1>0, <1>2, <1>3, <2>2, <2>3, <2>4, <2>5 DEF AddedNodesOK
<1>8. ChurnedNodesOK'
  <2>1. \A i \in InMap : HasChurnedKey(i) => i = v
    BY <1>0, <1>4 DEF ChurnedNodesOK
  <2>2. \A i, j \in InMap' : HasChurnedKey(i)' /\ HasChurnedKey(j)' => i = j
    BY <1>00, <1>1, <1>2, <1>3, <2>1
  <2>3. \A i \in DOMAIN nodes' : nodes'[i].retired <= 1
    BY <1>0, <1>4 DEF ChurnedNodesOK
  <2>4. \A i \in InMap' : nodes'[i].retired = 0
    <3>1. \A i \in InMap \ {v} : nodes'[i].retired = 0
      BY <1>0, <1>2, <1>4 DEF ChurnedNodesOK
    <3>2. \A i \in X : nodes'[i].retired = 0
      BY <1>0, <1>00, <1>2
    <3> QED
      BY <1>1, <3>1, <3>2
  <2>5. ASSUME NEW u \in Deleters, u # t, pc'[u] = "destroy"
        PROVE  pc[u] = "destroy" /\ kv'[u] = kv[u] /\ kv[u] # v
    <3>1. u \in Callers /\ u \in Churners
      BY DEF Callers, Churners
    <3>2. pc[u] = "destroy" /\ kv'[u] = kv[u]
      BY <1>4, <2>5, <3>1 DEF Locals
    <3>3. kv[u] \notin InMap
      BY <1>0, <3>1, <3>2 DEF IInv, ThreadsOK, ThreadOK, FoundBy
    <3> QED
      BY <1>0, <3>2, <3>3
  <2>6. \A u, w \in Deleters : pc'[u] = "destroy" /\ pc'[w] = "destroy" /\ kv'[u] = kv'[w] => u = w
    BY <1>0, <1>4, <2>5 DEF ChurnedNodesOK
  <2> QED
    BY <2>2, <2>3, <2>4, <2>6 DEF ChurnedNodesOK
<1> QED
  BY <1>5, <1>6, <1>7, <1>8 DEF NodesOK

LEMMA SpliceKeepsThreads ==
  ASSUME OneChurnedKey, NEW t \in Churners, Starts(t), NEW p, NEW v, NEW m, NEW X, Splice(t, p, v, m, X),
         NEW u \in Callers, u # t
  PROVE  ThreadOK(u)'
<1>0. /\ IInv /\ t \in Callers /\ v \in InMap /\ HasChurnedKey(v) /\ p \in Links /\ Link(p) = v
      /\ p # Null => ~HasChurnedKey(p)
      /\ DOMAIN nodes' = DOMAIN nodes /\ Published' = Published \cup X
      /\ p = Null => bucket' = m
      /\ p # Null => bucket' = bucket /\ nodes'[p].next = m
      /\ \A j \in DOMAIN nodes : nodes'[j].key = nodes[j].key
      /\ \A j \in DOMAIN nodes : j # p => nodes'[j].next = nodes[j].next
      /\ \A j \in DOMAIN nodes : j # v => nodes'[j].retired = nodes[j].retired
      /\ t \in Puts => new'[t] \in {Null, new[t]}
  BY DEF Starts, Splice
<1>00. \/ X = {} /\ m = nodes[v].next
       \/ /\ X = {m} /\ m \in DOMAIN nodes /\ m \notin Published
          /\ nodes[m].next = nodes[v].next /\ HasChurnedKey(m) /\ nodes[m].retired = 0
  BY DEF Splice
<1>1. /\ InMap' = (InMap \ {v}) \cup X /\ (p = Null \/ p \in InMap)
      /\ v # p /\ v # Null /\ m \in Links \cup X
      /\ \A i \in Links : Chain(i) \ {v} \subseteq Chain(i)'
      /\ \A i \in Links : p \in Chain(i) => m \in Chain(i)' \cup {Null}
  BY SpliceChains
<1>2. /\ InMap \subseteq Published /\ Published \subseteq DOMAIN nodes /\ Null \notin InMap /\ Null \notin DOMAIN nodes
      /\ \A j \in InMap : nodes[j].next \in InMap \cup {Null}
  BY <1>0, InMapFacts, NodeTypes DEF IInv, LinksOK, Published
<1>3. \A j \in DOMAIN nodes : HasChurnedKey(j)' = HasChurnedKey(j)
  BY <1>0 DEF HasChurnedKey
<1>4. /\ ThreadOK(u) /\ pc'[u] = pc[u] /\ key'[u] = key[u] /\ kv'[u] = kv[u] /\ prev'[u] = prev[u]
      /\ LinksOf(u) /\ kv[u] \in Links /\ Locals(t)
  BY <1>0 DEF Starts, IInv, ThreadsOK, Locals, LinksOK, LinksOf
<1>5. ASSUME u \in Puts PROVE NewNodeOf(u)'
  <2>1. NewNodeOf(u) /\ new'[u] = new[u] /\ \A w \in Puts : w = t \/ new'[w] = new[w]
    BY <1>4, <1>5 DEF ThreadOK, Locals
  <2>2. pc[u] # "count" => new[u] # v
    BY <1>0, <1>2, <1>5 DEF Published
  <2> QED
    BY <1>0, <1>4, <1>5, <2>1, <2>2 DEF NewNodeOf
<1>6. ASSUME u \in Churners PROVE FoundBy(u)'
  <2>1. FoundBy(u) /\ (u \in Putters => NewNodeOf(u) /\ new'[u] = new[u]) /\ (u \in Deleters => next'[u] = next[u])
    BY <1>4, <1>6 DEF ThreadOK, Locals, Puts
  <2>2. (u \in Putters => pc[u] \notin {"unlink", "destroy"}) /\ (u \in Deleters => pc[u] # "replace")
    BY <1>0 DEF IInv, ControlOK
  <2>3. kv[u] # Null => kv[u] \in Published /\ kv[u] \in DOMAIN nodes /\ HasChurnedKey(kv[u])' = HasChurnedKey(kv[u])
    BY <1>2, <1>3, <1>4 DEF Links
  <2>4. kv[u] # Null /\ HasChurnedKey(kv[u]) => nodes'[kv[u]].next = nodes[kv[u]].next
    BY <1>0, <2>3
  <2>5. u \in Putters /\ pc[u] = "replace" => nodes'[new[u]].next = nodes[new[u]].next
    <3> SUFFICES ASSUME u \in Putters, pc[u] = "replace" PROVE nodes'[new[u]].next = nodes[new[u]].next
      OBVIOUS
    <3>1. new[u] \in DOMAIN nodes /\ new[u] \notin Published
      BY <2>1 DEF NewNodeOf, Published, Puts
    <3>2. new[u] # p
      BY <1>1, <1>2, <3>1
    <3> QED
      BY <1>0, <3>1, <3>2
  <2>6. pc[u] = "destroy" => kv[u] \notin InMap' /\ nodes'[kv[u]].retired = 0
    <3> SUFFICES ASSUME pc[u] = "destroy" PROVE kv[u] \notin InMap' /\ nodes'[kv[u]].retired = 0
      OBVIOUS
    <3>1. kv[u] # Null /\ kv[u] \notin InMap /\ nodes[kv[u]].retired = 0 /\ kv[u] # v
      BY <1>0, <2>1 DEF FoundBy
    <3>2. kv[u] \notin X
      BY <1>00, <2>3, <3>1
    <3> QED
      BY <1>0, <1>1, <2>3, <3>1, <3>2
  <2> QED
    BY <1>4, <1>6, <2>1, <2>2, <2>3, <2>4, <2>5, <2>6 DEF FoundBy, Churners, HasChurnedKey
<1>7. u \in Adders => AdderWalks(u)'
  BY <1>4 DEF ThreadOK, AdderWalks
<1>8. ASSUME u \in Putters PROVE NotMissedBy(u)'
  <2>1. head'[u] = head[u] /\ NotMissedBy(u) /\ head[u] \in Links
    BY <1>4, <1>8 DEF ThreadOK, LinksOf, Locals, Puts
  <2> SUFFICES ASSUME pc[u] = "walk", bucket' = head[u], kv[u] = Null \/ ~HasChurnedKey(kv[u])',
                      NEW i \in InMap', HasChurnedKey(i)'
               PROVE  i \in Chain(kv[u])'
    BY <1>4, <2>1 DEF NotMissedBy, HasChurnedKey
  <2>2. i # v
    BY <1>0, <1>00, <1>1, <1>2
  <2>3. i \in X
    BY <1>0, <1>1, <1>2, <1>3, <2>2 DEF IInv, NodesOK, ChurnedNodesOK
  <2>4. X = {m} /\ i = m /\ m \in DOMAIN nodes /\ m \notin Published
    BY <1>00, <2>3
  <2>5. p # Null /\ bucket = head[u]
    BY <1>0, <1>2, <2>1, <2>4 DEF Links
  <2>6. kv[u] = Null \/ ~HasChurnedKey(kv[u])
    BY <1>2, <1>3, <1>4 DEF Links
  <2>7. v \in Chain(kv[u])
    BY <1>0, <2>1, <2>5, <2>6 DEF NotMissedBy
  <2>8. v # kv[u]
    BY <1>0, <1>1, <2>6
  <2>9. PICK j \in Chain(kv[u]) : nodes[j].next = v
    BY <1>0, <1>4, <2>7, <2>8, Predecessor DEF IInv
  <2>10. kv[u] \in InMap \cup {Null}
    BY <1>0, <1>2, <1>4, <2>6 DEF Links, IInv, NodesOK, AddedNodesOK
  <2>11. Chain(kv[u]) \subseteq InMap
    <3>1. nodes \in Seq(Node)
      BY <1>0, NodeTypes
    <3> QED
      BY <1>2, <2>10, <3>1, ReachWithin, ChainIsReach
  <2>12. j = p
    <3>1. j \in InMap /\ j # Null /\ Link(j) = v
      BY <1>2, <2>9, <2>11 DEF Link
    <3> QED
      BY <1>0, <1>1, <3>1 DEF IInv, NodesOK, OneWayIn
  <2> QED
    BY <1>1, <1>2, <1>4, <2>4, <2>9, <2>12
<1>9. ASSUME u \in Getters PROVE AheadOf(u)'
  <2>1. settled'[u] = settled[u] /\ AheadOf(u) /\ t \in Callers
    BY <1>0, <1>4, <1>9, ThreadsAssumption DEF ThreadOK, Locals
  <2> SUFFICES ASSUME settled[u], pc[u] = "walk"
               PROVE  \E i \in Chain(kv[u])' : nodes'[i].key = key[u]
    BY <1>4, <2>1 DEF AheadOf
  <2>2. PICK i \in Chain(kv[u]) : nodes[i].key = key[u]
    BY <2>1 DEF AheadOf
  <2>3. key[u] \in Adders
    BY <1>0, <1>9, ThreadsAssumption DEF IInv, ControlOK, KeysOf
  <2>4. i # v
    BY <1>0, <2>2, <2>3, KeysAssumption DEF HasChurnedKey
  <2>5. i \in DOMAIN nodes
    BY <1>0, <1>2, <1>4, <2>2, ChainFacts DEF IInv
  <2> QED
    BY <1>0, <1>1, <1>4, <2>2, <2>4, <2>5
<1> QED
  BY <1>5, <1>6, <1>7, <1>8, <1>9 DEF ThreadOK

LEMMA SpliceKeeps ==
  ASSUME OneChurnedKey, NEW t \in Churners, Starts(t), NEW p, NEW v, NEW m, NEW X, Splice(t, p, v, m, X),
         LinksOf(t)', ThreadOK(t)'
  PROVE  IInv'
<1>1. LinksOK' /\ NodesOK'
  BY SpliceKeepsNodes
<1>2. ThreadsOK'
  BY SpliceKeepsThreads DEF ThreadsOK
<1>3. TypeInv' /\ ControlOK'
  BY DEF Splice, Starts, TypeInv
<1> QED
  BY <1>1, <1>2, <1>3 DEF IInv

LEMMA ReplaceSplices ==
  ASSUME OneChurnedKey, NEW t \in Puts, Starts(t), Replace(t), Link(prev[t]) = kv[t]
  PROVE  /\ Splice(t, prev[t], kv[t], new[t], {new[t]}) /\ LinksOf(t)' /\ ThreadOK(t)'
         /\ pc'[t] = "idle" /\ length' = length
<1> USE DEF Starts
<1>1. /\ t \in Putters /\ t \in Churners /\ t \in Callers /\ pc[t] = "replace"
      /\ ThreadOK(t) /\ LinksOf(t) /\ key[t] \in KeysOf(t) /\ t \notin Adders /\ t \notin Getters
  BY ThreadsAssumption DEF Replace, Puts, Churners, IInv, ControlOK, ThreadsOK, LinksOK
<1>2. PICK v, p, m : v = kv[t] /\ p = prev[t] /\ m = new[t]
  OBVIOUS
<1>3. Return(t) /\ SetLink(p, m, [nodes EXCEPT ![v].retired = @ + 1]) /\ length' = length
  BY <1>2 DEF Replace
<1>4. /\ v # Null /\ HasChurnedKey(v) /\ v \in Published /\ p \in Links /\ Link(p) = v
      /\ p # Null => ~HasChurnedKey(p)
  BY <1>1, <1>2 DEF ThreadOK, FoundBy, LinksOf, Links
<1>5. /\ m # Null /\ m \in DOMAIN nodes /\ nodes[m].key = key[t] /\ nodes[m].retired = 0
      /\ \A u \in Puts : new[u] = m => u = t
      /\ nodes[m].next = nodes[v].next /\ m \notin Published
  BY <1>1, <1>2 DEF ThreadOK, NewNodeOf, FoundBy, Published
<1>6. HasChurnedKey(m)
  BY <1>1, <1>5 DEF HasChurnedKey, KeysOf
<1>7. /\ InMap \subseteq Published /\ Published \subseteq DOMAIN nodes /\ Null \notin DOMAIN nodes /\ p # v
      /\ \A j \in InMap : nodes[j].next \in InMap \cup {Null}
      /\ bucket \in InMap \cup {Null}
  BY <1>4, InMapFacts, NodeTypes DEF IInv, Published
<1>8. p = Null \/ (p \in InMap /\ p \in DOMAIN nodes)
  BY <1>4, <1>7 DEF IInv, NodesOK, AddedNodesOK, Links
<1>9. v \in InMap /\ v \in DOMAIN nodes /\ nodes[v].retired = 0
  <2>1. v \in InMap
    BY <1>4, <1>7, <1>8 DEF Link
  <2> QED
    BY <1>7, <2>1 DEF IInv, NodesOK, ChurnedNodesOK
<1>10. PICK ns : ns = Retired(nodes, v)
  OBVIOUS
<1>11. /\ ns \in Seq(Node) /\ DOMAIN ns = DOMAIN nodes /\ ns[v].retired = 1
       /\ \A j \in DOMAIN nodes : ns[j].key = nodes[j].key /\ ns[j].next = nodes[j].next
       /\ \A j \in DOMAIN nodes : j # v => ns[j].retired = nodes[j].retired
  <2>1. nodes \in Seq(Node)
    BY NodeTypes
  <2> QED
    BY <1>9, <1>10, <2>1, RetiredOnceMore
<1>12. /\ nodes' \in Seq(Node) /\ DOMAIN nodes' = DOMAIN nodes
       /\ p = Null => bucket' = m
       /\ p # Null => bucket' = bucket /\ nodes'[p].next = m
       /\ \A j \in DOMAIN nodes : nodes'[j].key = ns[j].key /\ nodes'[j].retired = ns[j].retired
       /\ \A j \in DOMAIN nodes : j # p => nodes'[j].next = ns[j].next
  <2>1. CASE p = Null
    <3>1. nodes' = ns /\ bucket' = m
      BY <1>3, <1>10, <2>1 DEF SetLink, Retired
    <3> QED
      BY <1>11, <2>1, <3>1
  <2>2. CASE p # Null
    <3>1. nodes' = Leading(ns, p, m) /\ bucket' = bucket
      BY <1>3, <1>10, <2>2 DEF SetLink, Retired, Leading
    <3>2. p \in DOMAIN ns /\ m \in Nat
      BY <1>5, <1>8, <1>11, <2>2, NodeTypes
    <3>3. ns \in Seq(Node) /\ m \in Nat
      BY <1>11, <3>2
    <3>4. nodes' \in Seq(Node) /\ DOMAIN nodes' = DOMAIN ns /\ nodes'[p].next = m
      BY <3>1, <3>2, <3>3, NextSet
    <3>5. \A j \in DOMAIN ns : nodes'[j].key = ns[j].key /\ nodes'[j].retired = ns[j].retired
      BY <3>1, <3>2, <3>3, NextSet
    <3>6. \A j \in DOMAIN ns : j # p => nodes'[j].next = ns[j].next
      BY <3>1, <3>2, <3>3, NextSet
    <3>7. DOMAIN ns = DOMAIN nodes
      BY <1>11
    <3>8. nodes' \in Seq(Node) /\ DOMAIN nodes' = DOMAIN nodes
      BY <3>4, <3>7
    <3>9. p = Null => bucket' = m
      BY <2>2
    <3>10. p # Null => bucket' = bucket /\ nodes'[p].next = m
      BY <3>1, <3>4
    <3>11. \A j \in DOMAIN nodes : nodes'[j].key = ns[j].key /\ nodes'[j].retired = ns[j].retired
      BY <3>5, <3>7
    <3>12. \A j \in DOMAIN nodes : j # p => nodes'[j].next = ns[j].next
      BY <3>6, <3>7
    <3> QED
      BY <3>8, <3>9, <3>10, <3>11, <3>12, Zenon
  <2> QED
    BY <2>1, <2>2
<1>13. /\ LinksOf(t)' /\ ThreadOK(t)' /\ pc'[t] = "idle" /\ new'[t] = Null
  BY <1>1, <1>3, ReturnForgets
<1>14. Published' = Published \cup {m}
  <2>1. \A u \in Puts : u # t => new'[u] = new[u] /\ pc'[u] = pc[u]
    BY DEF Locals, Puts, Callers
  <2>2. ASSUME NEW i \in DOMAIN nodes
        PROVE  (\A u \in Puts : new'[u] = i => pc'[u] = "count")
               <=> i = m \/ \A u \in Puts : new[u] = i => pc[u] = "count"
    <3>1. i # Null
      BY <1>7
    <3> QED
      BY <1>1, <1>2, <1>5, <1>13, <2>1, <3>1
  <2> QED
    BY <1>5, <1>12, <2>2 DEF Published
<1>15. HeapTyped'
  <2>1. bucket' \in Nat
    BY <1>5, <1>12, NodeTypes
  <2> QED
    BY <1>3, <1>12, <2>1 DEF HeapTyped, IInv, TypeInv
<1>16. Splice(t, p, v, m, {m})
  BY <1>4, <1>5, <1>6, <1>9, <1>11, <1>12, <1>13, <1>14, <1>15 DEF Splice
<1> QED
  BY <1>2, <1>3, <1>13, <1>16

LEMMA ReplaceKeeps ==
  ASSUME OneChurnedKey, NEW t \in Puts, Starts(t), Replace(t)
  PROVE  IInv'
<1> USE DEF Starts
<1>1. /\ t \in Putters /\ t \in Churners /\ t \in Callers /\ pc[t] = "replace"
      /\ ThreadOK(t) /\ LinksOf(t) /\ key[t] \in KeysOf(t) /\ t \notin Adders /\ t \notin Getters
  BY ThreadsAssumption DEF Replace, Puts, Churners, IInv, ControlOK, ThreadsOK, LinksOK
<1>2. CASE Link(prev[t]) # kv[t]
  <2>1. Retry(t) /\ kv' = [kv EXCEPT ![t] = Link(prev[t])] /\ UNCHANGED heap
    BY <1>2 DEF Replace, heap
  <2> QED
    BY <1>1, <2>1, RetryKeeps
<1>3. CASE Link(prev[t]) = kv[t]
  BY <1>1, <1>3, ReplaceSplices, SpliceKeeps
<1> QED
  BY <1>2, <1>3

LEMMA UnlinkSplices ==
  ASSUME OneChurnedKey, NEW t \in Deleters, Starts(t), Unlink(t), Link(prev[t]) = kv[t]
  PROVE  /\ Splice(t, prev[t], kv[t], next[t], {}) /\ LinksOf(t)' /\ ThreadOK(t)'
         /\ pc'[t] = "destroy" /\ length' = length
<1> USE DEF Starts
<1>1. /\ t \in Churners /\ t \in Callers /\ pc[t] = "unlink"
      /\ ThreadOK(t) /\ LinksOf(t) /\ t \notin Puts /\ t \notin Getters
  BY ThreadsAssumption DEF Unlink, Puts, Churners, IInv, ThreadsOK, LinksOK
<1>2. PICK v, p, m : v = kv[t] /\ p = prev[t] /\ m = next[t]
  OBVIOUS
<1>3. /\ SetLink(p, m, nodes) /\ length' = length /\ UNCHANGED <<todo, key, kv, prev, put, next, settled>>
      /\ pc'[t] = "destroy"
  BY <1>1, <1>2 DEF Unlink, MapGoto, IInv, TypeInv, LocalsTyped
<1>4. /\ v # Null /\ HasChurnedKey(v) /\ v \in Published /\ p \in Links /\ Link(p) = v
      /\ (p # Null => ~HasChurnedKey(p)) /\ m = nodes[v].next
  BY <1>1, <1>2 DEF ThreadOK, FoundBy, LinksOf, Links
<1>7. /\ InMap \subseteq Published /\ Published \subseteq DOMAIN nodes /\ Null \notin DOMAIN nodes /\ p # v
      /\ \A j \in InMap : nodes[j].next \in InMap \cup {Null}
      /\ bucket \in InMap \cup {Null}
  BY <1>4, InMapFacts, NodeTypes DEF IInv, Published
<1>8. p = Null \/ (p \in InMap /\ p \in DOMAIN nodes)
  BY <1>4, <1>7 DEF IInv, NodesOK, AddedNodesOK, Links
<1>9. v \in InMap /\ v \in DOMAIN nodes /\ nodes[v].retired = 0 /\ m \in Nat /\ nodes \in Seq(Node)
  <2>1. v \in InMap
    BY <1>4, <1>7, <1>8 DEF Link
  <2> QED
    BY <1>4, <1>7, <2>1, NodeTypes DEF IInv, NodesOK, ChurnedNodesOK
<1>12. /\ nodes' \in Seq(Node) /\ DOMAIN nodes' = DOMAIN nodes
       /\ p = Null => bucket' = m
       /\ p # Null => bucket' = bucket /\ nodes'[p].next = m
       /\ \A j \in DOMAIN nodes : nodes'[j].key = nodes[j].key /\ nodes'[j].retired = nodes[j].retired
       /\ \A j \in DOMAIN nodes : j # p => nodes'[j].next = nodes[j].next
  <2>1. CASE p = Null
    <3>1. nodes' = nodes /\ bucket' = m
      BY <1>3, <2>1 DEF SetLink
    <3> QED
      BY <1>9, <2>1, <3>1
  <2>2. CASE p # Null
    <3>1. nodes' = Leading(nodes, p, m) /\ bucket' = bucket
      BY <1>3, <2>2 DEF SetLink, Leading
    <3>2. p \in DOMAIN nodes
      BY <1>8, <2>2
    <3>3. nodes \in Seq(Node) /\ m \in Nat
      BY <1>9, <3>2
    <3>4. nodes' \in Seq(Node) /\ DOMAIN nodes' = DOMAIN nodes /\ nodes'[p].next = m
      BY <3>1, <3>2, <3>3, NextSet
    <3>5. \A j \in DOMAIN nodes : nodes'[j].key = nodes[j].key /\ nodes'[j].retired = nodes[j].retired
      BY <3>1, <3>2, <3>3, NextSet
    <3>6. \A j \in DOMAIN nodes : j # p => nodes'[j].next = nodes[j].next
      BY <3>1, <3>2, <3>3, NextSet
    <3>7. p = Null => bucket' = m
      BY <2>2
    <3>8. p # Null => bucket' = bucket /\ nodes'[p].next = m
      BY <3>1, <3>4
    <3> QED
      BY <3>4, <3>5, <3>6, <3>7, <3>8, Zenon
  <2> QED
    BY <2>1, <2>2
<1>13. Published' = Published
  BY <1>1, <1>12 DEF Published, Locals, Puts, Callers
<1>14. HeapTyped'
  <2>1. bucket' \in Nat
    BY <1>9, <1>12, NodeTypes
  <2> QED
    BY <1>3, <1>12, <2>1 DEF HeapTyped, IInv, TypeInv
<1>15. kv'[t] = v /\ prev'[t] = p
  BY <1>2, <1>3
<1>16. Splice(t, p, v, m, {})
  BY <1>1, <1>4, <1>9, <1>12, <1>13, <1>14, <1>15 DEF Splice
<1>17. InMap' = InMap \ {v}
  BY <1>1, <1>16, SpliceChains
<1>18. \A j \in DOMAIN nodes : HasChurnedKey(j)' = HasChurnedKey(j)
  BY <1>12 DEF HasChurnedKey
<1>19. LinksOf(t)'
  BY <1>1, <1>3, <1>4, <1>7, <1>8, <1>13, <1>15, <1>18 DEF LinksOf, Links, HasChurnedKey
<1>20. FoundBy(t)'
  BY <1>3, <1>4, <1>9, <1>12, <1>15, <1>17, <1>18 DEF FoundBy, HasChurnedKey
<1> QED
  BY <1>1, <1>2, <1>3, <1>16, <1>19, <1>20 DEF ThreadOK, Puts

LEMMA UnlinkKeeps ==
  ASSUME OneChurnedKey, NEW t \in Deleters, Starts(t), Unlink(t)
  PROVE  IInv'
<1> USE DEF Starts
<1>1. /\ t \in Churners /\ t \in Callers /\ pc[t] = "unlink"
      /\ ThreadOK(t) /\ LinksOf(t) /\ t \notin Puts /\ t \notin Getters
  BY ThreadsAssumption DEF Unlink, Puts, Churners, IInv, ThreadsOK, LinksOK
<1>2. CASE Link(prev[t]) # kv[t]
  <2>1. Retry(t) /\ kv' = [kv EXCEPT ![t] = Link(prev[t])] /\ UNCHANGED heap
    BY <1>2 DEF Unlink, heap
  <2> QED
    BY <1>1, <2>1, RetryKeeps
<1>3. CASE Link(prev[t]) = kv[t]
  BY <1>1, <1>3, UnlinkSplices, SpliceKeeps
<1> QED
  BY <1>2, <1>3

-----------------------------------------------------------------------------
(* The invariant, and what it implies *)

LEMMA InitOK == ASSUME MapInit PROVE IInv
<1> USE DEF MapInit
<1>1. nodes = << >> /\ DOMAIN nodes = {} /\ nodes \in Seq(Node) /\ bucket = Null
  OBVIOUS
<1>2. \A t \in Callers : pc[t] = "idle" /\ kv[t] = Null /\ prev[t] = Null
  OBVIOUS
<1>3. \A t \in Puts : head[t] = Null /\ new[t] = Null
  BY DEF Puts
<1>4. TypeInv
  <2>1. HeapTyped
    BY <1>1 DEF HeapTyped, Null
  <2>2. todo \in [Callers -> Nat]
    BY LoopsAssumption
  <2>3. /\ pc \in [Callers -> Places] /\ key \in [Callers -> Keys \cup {NoKey}]
        /\ kv \in [Callers -> Nat] /\ prev \in [Callers -> Nat]
    BY DEF Places, Null
  <2>4. head \in [Puts -> Nat] /\ new \in [Puts -> Nat] /\ next \in [Deleters -> Nat]
    BY DEF Puts, Null
  <2>5. settled \in [Getters -> BOOLEAN]
    OBVIOUS
  <2> QED
    BY <2>1, <2>2, <2>3, <2>4, <2>5 DEF TypeInv, LocalsTyped
<1>5. ControlOK
  <2>1. \A t \in Adders : todo[t] = 1
    BY ThreadsAssumption DEF Callers
  <2> QED
    BY <1>2, <2>1 DEF ControlOK, Callers
<1>6. LinksOK
  BY <1>1, <1>2, <1>3 DEF LinksOK, LinksOf, Links
<1>7. InMap = {}
  BY <1>1, ReachOfNull, ChainIsReach DEF InMap
<1>8. NodesOK
  <2>1. \A t \in Adders : todo[t] = 1
    BY ThreadsAssumption DEF Callers
  <2>2. AddedNodesOK
    <3>1. \A t \in Adders : ~Holds(t)
      BY <2>1 DEF Holds
    <3>2. DOMAIN nodes = {}
      BY <1>1
    <3> HIDE DEF MapInit
    <3> QED
      BY <3>1, <3>2 DEF AddedNodesOK
  <2>3. ChurnedNodesOK
    BY <1>1, <1>2, <1>7 DEF ChurnedNodesOK, Callers
  <2>4. OneWayIn
    BY <1>7 DEF OneWayIn
  <2> QED
    BY <2>2, <2>3, <2>4 DEF NodesOK
<1>9. ThreadsOK
  BY <1>2, <1>3 DEF ThreadsOK, ThreadOK, NewNodeOf, FoundBy, AdderWalks, NotMissedBy, AheadOf
<1> QED
  BY <1>4, <1>5, <1>6, <1>8, <1>9 DEF IInv

LEMMA NextKeeps == ASSUME OneChurnedKey, IInv, [MapNext]_mapVars PROVE IInv'
<1>1. CASE UNCHANGED mapVars
  <2>1. UNCHANGED <<bucket, nodes, length, pc, todo, key, kv, prev, head, new, next, settled>>
    BY <1>1 DEF mapVars, heap, put
  <2>2. Published' = Published /\ Links' = Links /\ InMap' = InMap /\ \A i : Chain(i)' = Chain(i)
    BY <2>1, HeapUnchanged DEF Published, Links
  <2>3. TypeInv' /\ ControlOK' /\ LinksOK'
    BY <2>1, <2>2 DEF IInv, TypeInv, HeapTyped, LocalsTyped, ControlOK, LinksOK, LinksOf, HasChurnedKey
  <2>4. NodesOK'
    BY <2>1, <2>2 DEF IInv, NodesOK, AddedNodesOK, ChurnedNodesOK, OneWayIn, Link, HasChurnedKey, Holds
  <2>5. ThreadsOK'
    BY <2>1, <2>2 DEF IInv, ThreadsOK, ThreadOK, NewNodeOf, FoundBy, AdderWalks, NotMissedBy, AheadOf, HasChurnedKey
  <2> QED
    BY <2>3, <2>4, <2>5 DEF IInv
<1>2. CASE MapNext
  <2>1. ASSUME NEW t \in Puts, Put(t) PROVE IInv'
    <3>1. Starts(t)
      BY <2>1, OwnLocals, LocalsStayTyped, ControlKept DEF Starts, Puts, Callers, IInv
    <3> QED
      BY <2>1, <3>1, PutBeginsKeeps, WalkKeeps, LinkNewKeeps, ReplaceKeeps, AddKeeps, CountAddedKeeps
         DEF Put, Starts
  <2>2. ASSUME NEW t \in Deleters, Del(t) PROVE IInv'
    <3>1. Starts(t) /\ t \notin Puts
      BY <2>2, OwnLocals, LocalsStayTyped, ControlKept, ThreadsAssumption DEF Starts, Puts, Callers, IInv
    <3>2. CASE NothingToDelete(t)
      BY <3>1, <3>2, QuietReturns DEF NothingToDelete, Callers
    <3> QED
      BY <2>2, <3>1, <3>2, DelBeginsKeeps, WalkKeeps, ReadNextKeeps, UnlinkKeeps, DestroyKeeps
         DEF Del, Starts
  <2>3. ASSUME NEW t \in Getters, Get(t) PROVE IInv'
    <3>1. Starts(t) /\ t \notin Puts
      BY <2>3, OwnLocals, LocalsStayTyped, ControlKept, ThreadsAssumption DEF Starts, Puts, Callers, IInv
    <3>2. CASE GetReturns(t)
      BY <3>1, <3>2, QuietReturns DEF GetReturns, Callers
    <3> QED
      BY <2>3, <3>1, <3>2, GetBeginsKeeps, WalkKeeps DEF Get, Starts
  <2> QED
    BY <1>2, <2>1, <2>2, <2>3 DEF MapNext, Puts
<1> QED
  BY <1>1, <1>2

\* The inductive invariant holds.
THEOREM Invariance == ASSUME OneChurnedKey PROVE MapSpec => []IInv
<1>1. MapInit => IInv
  BY InitOK
<1>2. IInv /\ [MapNext]_mapVars => IInv'
  BY NextKeeps
<1> QED
  BY <1>1, <1>2, PTL DEF MapSpec

LEMMA NothingIsClobbered == ASSUME IInv PROVE NothingClobbered
<1>1. InMap \subseteq DOMAIN nodes
  BY InMapFacts DEF IInv
<1>2. ASSUME NEW t \in Adders, Holds(t) PROVE \E i \in InMap : nodes[i].key = t
  <2>1. PICK i \in Published : nodes[i].key = t
    BY <1>2 DEF IInv, NodesOK, AddedNodesOK
  <2>2. i \in DOMAIN nodes /\ ~HasChurnedKey(i)
    BY <2>1, KeysAssumption DEF Published, HasChurnedKey
  <2> QED
    BY <2>1, <2>2 DEF IInv, NodesOK, AddedNodesOK
<1>3. ASSUME NEW i \in InMap, NEW j \in InMap, nodes[i].key = nodes[j].key PROVE i = j
  <2>1. i = j \/ (HasChurnedKey(i) /\ HasChurnedKey(j))
    BY <1>1, <1>3 DEF IInv, NodesOK, AddedNodesOK, HasChurnedKey
  <2> QED
    BY <2>1 DEF IInv, NodesOK, ChurnedNodesOK
<1> QED
  BY <1>2, <1>3 DEF NothingClobbered, IInv, NodesOK, ChurnedNodesOK

\* Whatever is put, replaced and deleted around it, a key that was added and is
\* never deleted stays in the map, no key is in it twice, and no node of it has
\* been handed to destroy_node (test-hashmap.c, hashmap.c:put, hashmap.c:del).
THEOREM NothingIsEverClobbered == ASSUME OneChurnedKey PROVE MapSpec => []NothingClobbered
<1>1. IInv => NothingClobbered
  BY NothingIsClobbered
<1> QED
  BY <1>1, Invariance, PTL

\* A node is taken out of the map by one call only, and destroyed once (hashmap.h:53).
THEOREM DestroyedOnce == ASSUME OneChurnedKey PROVE MapSpec => []DeletedOnce
<1>1. IInv => DeletedOnce
  BY DEF IInv, NodesOK, ChurnedNodesOK, DeletedOnce
<1> QED
  BY <1>1, Invariance, PTL

\* A get that began when its key was in the map does not walk past it
\* (hashmap_get, while others replace and unlink nodes).
THEOREM SettledKeyIsFound == ASSUME OneChurnedKey PROVE MapSpec => []GetFindsSettledKey
<1>1. IInv => GetFindsSettledKey
  <2> SUFFICES ASSUME IInv, NEW t \in Getters, settled[t], pc[t] = "walk", kv[t] = Null PROVE FALSE
    BY DEF GetFindsSettledKey
  <2>1. AheadOf(t)
    BY DEF IInv, ThreadsOK, ThreadOK, Callers
  <2>2. Chain(Null) = {}
    BY NodeTypes, ReachOfNull, ChainIsReach
  <2> QED
    BY <2>1, <2>2 DEF AheadOf
<1> QED
  BY <1>1, Invariance, PTL

-----------------------------------------------------------------------------
(* The length *)

Adding == {t \in Puts : pc[t] = "count"}
Removing == {t \in Deleters : pc[t] = "destroy"}

Counted == length + Cardinality(Adding) = Cardinality(InMap) + Cardinality(Removing)

LEMMA CountsTyped ==
  ASSUME IInv
  PROVE  /\ IsFiniteSet(Adding) /\ IsFiniteSet(Removing) /\ IsFiniteSet(InMap)
         /\ Cardinality(Adding) \in Nat /\ Cardinality(Removing) \in Nat /\ Cardinality(InMap) \in Nat
         /\ length \in Int
<1>1. IsFiniteSet(Puts) /\ IsFiniteSet(Deleters)
  BY ThreadsAssumption, FS_Union DEF Puts
<1>2. Adding \subseteq Puts /\ Removing \subseteq Deleters
  BY DEF Adding, Removing
<1>3. IsFiniteSet(DOMAIN nodes) /\ InMap \subseteq DOMAIN nodes
  <2>1. DOMAIN nodes = 1 .. Len(nodes) /\ 1 \in Int /\ Len(nodes) \in Int
    BY NodeTypes
  <2>2. IsFiniteSet(1 .. Len(nodes))
    BY <2>1, FS_Interval
  <2> QED
    BY <2>1, <2>2, InMapFacts DEF IInv
<1>4. IsFiniteSet(Adding) /\ IsFiniteSet(Removing) /\ IsFiniteSet(InMap)
  BY <1>1, <1>2, <1>3, FS_Subset
<1> QED
  BY <1>4, FS_CardinalityType DEF IInv, TypeInv, HeapTyped

\* Who is between the list and the counter, after a step of t.
LEMMA OthersCount ==
  ASSUME NEW t \in Callers, Starts(t)
  PROVE  /\ Adding' \ {t} = Adding \ {t} /\ (t \in Adding' <=> t \in Puts /\ pc'[t] = "count")
         /\ Removing' \ {t} = Removing \ {t} /\ (t \in Removing' <=> t \in Deleters /\ pc'[t] = "destroy")
BY DEF Starts, Locals, Adding, Removing, Puts, Callers

LEMMA SameCount ==
  ASSUME Counted, length' = length, InMap' = InMap, Adding' = Adding, Removing' = Removing
  PROVE  Counted'
BY DEF Counted

LEMMA AdderCounts ==
  ASSUME OneChurnedKey, Counted, IInv', NEW t \in Puts, Starts(t), Put(t)
  PROVE  Counted'
<1> USE DEF Starts
<1>0. t \in Callers /\ t \notin Deleters /\ IInv
  BY ThreadsAssumption DEF Puts, Callers
<1>1. Removing' = Removing
  BY <1>0, OthersCount DEF Removing
<1>2. ASSUME InMap' = InMap, length' = length, pc[t] # "count", pc'[t] # "count" PROVE Counted'
  <2>1. Adding' = Adding
    BY <1>0, <1>2, OthersCount DEF Adding
  <2> QED
    BY <1>1, <1>2, <2>1, SameCount
<1>3. CASE PutBegins(t)
  BY <1>0, <1>2, <1>3, HeapUnchanged DEF PutBegins, Begins, heap, MapGoto, IInv, TypeInv, LocalsTyped
<1>4. CASE Walk(t)
  BY <1>0, <1>2, <1>4, HeapUnchanged DEF Walk, heap
<1>5. CASE LinkNew(t)
  <2>1. InMap' = InMap
    BY <1>5, LinkNewKeeps
  <2> QED
    BY <1>0, <1>2, <1>5, <2>1 DEF LinkNew, MapGoto, IInv, TypeInv, LocalsTyped
<1>6. CASE Replace(t) /\ Link(prev[t]) # kv[t]
  BY <1>0, <1>2, <1>6, HeapUnchanged DEF Replace, Retry, MapGoto, IInv, TypeInv, LocalsTyped
<1>7. CASE Replace(t) /\ Link(prev[t]) = kv[t]
  <2>0. PICK v, p, m : v = kv[t] /\ p = prev[t] /\ m = new[t]
    OBVIOUS
  <2>1. Splice(t, p, v, m, {m}) /\ pc'[t] = "idle" /\ length' = length /\ t \in Churners
    BY <1>7, <2>0, ReplaceSplices DEF Replace, IInv, ControlOK, Puts, Churners
  <2>2. InMap' = (InMap \ {v}) \cup {m}
    BY <2>1, SpliceChains
  <2>3. v \in InMap /\ m \notin InMap
    BY <2>1, InMapFacts DEF Splice, IInv
  <2>4. Cardinality(InMap') = Cardinality(InMap)
    <3>1. IsFiniteSet(InMap) /\ Cardinality(InMap) \in Nat
      BY <1>0, CountsTyped
    <3>2. IsFiniteSet(InMap \ {v}) /\ Cardinality(InMap \ {v}) = Cardinality(InMap) - 1
      BY <2>3, <3>1, FS_RemoveElement
    <3>3. Cardinality((InMap \ {v}) \cup {m}) = Cardinality(InMap \ {v}) + 1
      BY <2>3, <3>2, FS_AddElement
    <3> QED
      BY <2>2, <3>1, <3>2, <3>3
  <2>5. Adding' = Adding
    BY <1>0, <1>7, <2>1, OthersCount DEF Adding, Replace
  <2> QED
    BY <1>1, <2>1, <2>4, <2>5 DEF Counted
<1>8. CASE Add(t) /\ bucket # head[t]
  <2>1. InMap' = InMap
    BY <1>8, AddFailsKeeps
  <2> QED
    BY <1>0, <1>2, <1>8, <2>1 DEF Add, MapGoto, IInv, TypeInv, LocalsTyped
<1>9. CASE Add(t) /\ bucket = head[t]
  <2>0. PICK m : m = NewNode(t)
    OBVIOUS
  <2>1. InMap' = InMap \cup {m} /\ m \notin Links /\ pc'[t] = "count"
    BY <1>9, <2>0, AddSucceeds
  <2>2. m \notin InMap
    BY <1>0, <2>1, InMapFacts DEF IInv, Links
  <2>3. length' = length /\ pc[t] # "count"
    BY <1>9 DEF Add
  <2>4. Adding' = Adding \cup {t} /\ t \notin Adding
    BY <1>0, <2>1, <2>3, OthersCount DEF Adding
  <2>5. IsFiniteSet(InMap) /\ Cardinality(InMap') = Cardinality(InMap) + 1
    BY <1>0, <2>1, <2>2, CountsTyped, FS_AddElement
  <2>6. Cardinality(Adding') = Cardinality(Adding) + 1
    BY <1>0, <2>4, CountsTyped, FS_AddElement
  <2> QED
    BY <1>0, <1>1, <2>3, <2>5, <2>6, CountsTyped DEF Counted
<1>10. CASE CountAdded(t)
  <2>1. InMap' = InMap /\ length' = length + 1 /\ pc[t] = "count" /\ pc'[t] = "idle"
    BY <1>0, <1>10, HeapUnchanged, ReturnForgets DEF CountAdded
  <2>2. Adding' = Adding \ {t} /\ t \in Adding
    BY <1>0, <2>1, OthersCount DEF Adding
  <2>3. Cardinality(Adding') = Cardinality(Adding) - 1
    BY <1>0, <2>2, CountsTyped, FS_RemoveElement
  <2> QED
    BY <1>0, <1>1, <2>1, <2>3, CountsTyped DEF Counted
<1> QED
  BY <1>3, <1>4, <1>5, <1>6, <1>7, <1>8, <1>9, <1>10 DEF Put

LEMMA DeleterCounts ==
  ASSUME OneChurnedKey, Counted, IInv', NEW t \in Deleters, Starts(t), Del(t)
  PROVE  Counted'
<1> USE DEF Starts
<1>0. t \in Callers /\ t \notin Puts /\ IInv
  BY ThreadsAssumption DEF Puts, Callers
<1>1. Adding' = Adding
  BY <1>0, OthersCount DEF Adding
<1>2. ASSUME InMap' = InMap, length' = length, pc[t] # "destroy", pc'[t] # "destroy" PROVE Counted'
  <2>1. Removing' = Removing
    BY <1>0, <1>2, OthersCount DEF Removing
  <2> QED
    BY <1>1, <1>2, <2>1, SameCount
<1>3. CASE DelBegins(t)
  BY <1>0, <1>2, <1>3, HeapUnchanged DEF DelBegins, Begins, heap, MapGoto, IInv, TypeInv, LocalsTyped
<1>4. CASE Walk(t)
  BY <1>0, <1>2, <1>4, HeapUnchanged DEF Walk, heap
<1>5. CASE NothingToDelete(t)
  BY <1>0, <1>2, <1>5, HeapUnchanged, ReturnForgets DEF NothingToDelete, heap
<1>6. CASE ReadNext(t)
  BY <1>0, <1>2, <1>6, HeapUnchanged DEF ReadNext, heap, MapGoto, IInv, TypeInv, LocalsTyped
<1>7. CASE Unlink(t) /\ Link(prev[t]) # kv[t]
  BY <1>0, <1>2, <1>7, HeapUnchanged DEF Unlink, Retry, MapGoto, IInv, TypeInv, LocalsTyped
<1>8. CASE Unlink(t) /\ Link(prev[t]) = kv[t]
  <2>0. PICK v, p, m : v = kv[t] /\ p = prev[t] /\ m = next[t]
    OBVIOUS
  <2>1. Splice(t, p, v, m, {}) /\ pc'[t] = "destroy" /\ length' = length /\ t \in Churners
    BY <1>8, <2>0, UnlinkSplices DEF Churners
  <2>2. InMap' = InMap \ {v} /\ v \in InMap
    <3>1. v \in InMap
      BY <2>1 DEF Splice
    <3>2. InMap' = (InMap \ {v}) \cup {}
      BY <2>1, SpliceChains
    <3> QED
      BY <3>1, <3>2
  <2>3. pc[t] # "destroy"
    BY <1>8 DEF Unlink
  <2>4. Removing' = Removing \cup {t} /\ t \notin Removing
    BY <1>0, <2>1, <2>3, OthersCount DEF Removing
  <2>5. Cardinality(InMap') = Cardinality(InMap) - 1
    BY <1>0, <2>2, CountsTyped, FS_RemoveElement
  <2>6. Cardinality(Removing') = Cardinality(Removing) + 1
    BY <1>0, <2>4, CountsTyped, FS_AddElement
  <2> QED
    BY <1>0, <1>1, <2>1, <2>5, <2>6, CountsTyped DEF Counted
<1>9. CASE Destroy(t)
  <2>1. InMap' = InMap
    BY <1>9, DestroyKeeps
  <2>2. length' = length - 1 /\ pc[t] = "destroy" /\ pc'[t] = "idle"
    BY <1>0, <1>9, ReturnForgets DEF Destroy
  <2>3. Removing' = Removing \ {t} /\ t \in Removing
    BY <1>0, <2>2, OthersCount DEF Removing
  <2>4. Cardinality(Removing') = Cardinality(Removing) - 1
    BY <1>0, <2>3, CountsTyped, FS_RemoveElement
  <2> QED
    BY <1>0, <1>1, <2>1, <2>2, <2>4, CountsTyped DEF Counted
<1> QED
  BY <1>3, <1>4, <1>5, <1>6, <1>7, <1>8, <1>9 DEF Del

LEMMA GetterCounts ==
  ASSUME Counted, NEW t \in Getters, Starts(t), Get(t)
  PROVE  Counted'
<1> USE DEF Starts
<1>0. t \in Callers /\ t \notin Puts /\ t \notin Deleters
  BY ThreadsAssumption DEF Puts, Callers
<1>1. Adding' = Adding /\ Removing' = Removing
  BY <1>0, OthersCount DEF Adding, Removing
<1>2. InMap' = InMap /\ length' = length
  BY HeapUnchanged DEF Get, GetBegins, Walk, GetReturns, heap
<1> QED
  BY <1>1, <1>2, SameCount

LEMMA CountKept == ASSUME OneChurnedKey, IInv, IInv', Counted, [MapNext]_mapVars PROVE Counted'
<1>1. CASE UNCHANGED mapVars
  <2>1. InMap' = InMap /\ length' = length /\ Adding' = Adding /\ Removing' = Removing
    BY <1>1, HeapUnchanged DEF mapVars, heap, Adding, Removing
  <2> QED
    BY <2>1, SameCount
<1>2. CASE MapNext
  <2>1. ASSUME NEW t \in Callers, (t \in Puts /\ Put(t)) \/ (t \in Deleters /\ Del(t)) \/ (t \in Getters /\ Get(t))
        PROVE  Counted'
    <3>1. Starts(t)
      BY <2>1, OwnLocals, LocalsStayTyped, ControlKept DEF Starts, IInv
    <3> QED
      BY <2>1, <3>1, AdderCounts, DeleterCounts, GetterCounts
  <2> QED
    BY <1>2, <2>1 DEF MapNext, Puts, Callers
<1> QED
  BY <1>1, <1>2

LEMMA InitCounted == ASSUME MapInit PROVE Counted
<1>1. IInv /\ length = 0
  BY InitOK DEF MapInit
<1>2. InMap = {}
  <2>1. DOMAIN nodes = {}
    BY DEF MapInit
  <2> QED
    BY <1>1, <2>1, InMapFacts DEF IInv
<1>3. Adding = {} /\ Removing = {}
  BY DEF MapInit, Adding, Removing, Puts, Callers
<1>4. Cardinality({}) = 0
  BY FS_EmptySet
<1> QED
  BY <1>1, <1>2, <1>3, <1>4 DEF Counted

LEMMA IsTypeOK == ASSUME IInv PROVE MapTypeOK
<1>1. \A i \in Links : i \in Addresses
  BY NodeTypes DEF Addresses, Null
<1>2. bucket \in Addresses /\ length \in Int /\ \A i \in DOMAIN nodes : nodes[i].next \in Addresses
  BY <1>1 DEF IInv, LinksOK, TypeInv, HeapTyped
<1>3. \A i \in DOMAIN nodes : nodes[i].key \in Keys /\ nodes[i].retired \in Nat
  BY NodeTypes
<1>4. \A t \in Callers : /\ kv[t] \in Addresses /\ prev[t] \in Addresses
                         /\ key[t] \in Keys \cup {NoKey} /\ todo[t] \in Nat
  BY <1>1 DEF IInv, LinksOK, LinksOf, TypeInv, LocalsTyped
<1>5. \A t \in Puts : head[t] \in Addresses /\ new[t] \in Addresses
  <2>1. \A t \in Puts : head[t] \in Links /\ (new[t] = Null \/ new[t] \in DOMAIN nodes)
    BY DEF IInv, LinksOK, LinksOf, ThreadsOK, ThreadOK, NewNodeOf, Puts, Callers
  <2>2. Null \in Addresses /\ DOMAIN nodes \subseteq Addresses
    BY NodeTypes DEF Addresses, Null
  <2> QED
    BY <1>1, <2>1, <2>2
<1>6. \A t \in Callers : pc[t] \in {"link", "replace", "unlink", "destroy"} => kv[t] # Null
  BY ThreadsAssumption DEF IInv, ControlOK, ThreadsOK, ThreadOK, FoundBy, Churners, Callers
<1>7. \A t \in Deleters : next[t] \in Addresses
  BY <1>1 DEF IInv, LinksOK, LinksOf, Callers
<1> QED
  BY <1>2, <1>3, <1>4, <1>5, <1>6, <1>7 DEF MapTypeOK, IInv, TypeInv, LocalsTyped, Puts

\* The counter is the number of nodes in the map, up to the calls that have
\* changed the list and not yet the counter (map->length in hashmap_put and
\* hashmap_del), and every address that the map follows is a node.
THEOREM LengthIsRight == ASSUME OneChurnedKey PROVE MapSpec => []LengthCounts
<1>1. MapInit => IInv /\ Counted
  BY InitOK, InitCounted
<1>2. (IInv /\ Counted) /\ [MapNext]_mapVars => (IInv /\ Counted)'
  BY NextKeeps, CountKept
<1>3. IInv /\ Counted => LengthCounts
  BY IsTypeOK DEF Counted, LengthCounts, Adding, Removing, Puts
<1> QED
  BY <1>1, <1>2, <1>3, PTL DEF MapSpec
=============================================================================
