----------------------- MODULE NonBlockingListProofs -----------------------
(***************************************************************************)
(* Proofs about NonBlockingList for any number of threads, nodes and calls *)
(* and any list to begin with: the assertions hold, a removal is reported  *)
(* once and complete, negative answers have a reason, and the unmarked     *)
(* nodes are the list that NodeList promises.                              *)
(*                                                                         *)
(* A heap is a pair of functions: f is next, and b is backlink; the        *)
(* operators take them as arguments, so that what is proved of them is     *)
(* known of the heap before a step and of the one after it.                *)
(***************************************************************************)
EXTENDS NonBlockingList, FiniteSetTheorems, WellFoundedInduction, TLAPS

All == Nodes \cup {List}
Words == [ptr : Nodes \cup {Null}, flag : BOOLEAN, mark : BOOLEAN]

\* What is reached from y, along the pointers of f.
Closed(f, S) == S \subseteq Nodes /\ \A y \in S : f[y].ptr \in S \cup {Null}
From(f, y) == {z \in Nodes : \A S \in SUBSET Nodes : Closed(f, S) /\ y \in S \cup {Null} => z \in S}
After(f, q) == From(f, f[q].ptr)

\* The nodes in the list, those that are or were, and those that hold a pointer.
In(f) == After(f, List)
Was(f) == {x \in Nodes : f[x].mark} \cup In(f)
Spots(f) == Was(f) \cup {List}

Gone(f, x) == f[x].mark /\ x \notin In(f)

\* q's pointer to x is flagged, or was until x was cut off.
Dying(f, b, q, x) == f[q] = Flagged(x) \/ (Gone(f, x) /\ b[x] = q)

\* What can be reached from x and is in the list comes after q.
Leads(f, q, x) == From(f, x) \cap In(f) \subseteq After(f, q)

HeapTyped(f, b) ==
  /\ f \in [All -> Words] /\ b \in [All -> All \cup {Null}]
  /\ \A y \in All : f[y].ptr \in Was(f) \cup {Null}

BitsOK(f, b) ==
  /\ ~f[List].mark
  /\ \A y \in All : f[y].flag => f[y].ptr # Null /\ y \in Spots(f)
  /\ \A x \in Nodes : f[x].mark => ~f[x].flag /\ b[x] # Null

ChainOK(f) ==
  /\ \A x \in Nodes : x \notin After(f, x)
  /\ \A y, z \in In(f) \cup {List} : f[y].ptr = f[z].ptr /\ f[y].ptr # Null => y = z

BacklinksOK(f, b) ==
  \A x \in Nodes : b[x] # Null =>
    x \in Was(f) /\ b[x] \in Spots(f) /\ Dying(f, b, b[x], x) /\ Leads(f, b[x], x)

HeapOK(f, b) == HeapTyped(f, b) /\ BitsOK(f, b) /\ ChainOK(f) /\ BacklinksOK(f, b)

-----------------------------------------------------------------------------
Names == {"push", "pop", "del", "sweep"}
ClearPlaces == {"clear", "mark", "rend"}
Places == {"idle", "load", "push", "again", "pop", "del", "help", "flag", "back", "forward", "abort",
           "skip", "at", "parent", "clear", "mark", "rend"}
PlacesOf(job) ==
  CASE job = "push"  -> {"idle", "load", "push", "again"} \cup ClearPlaces
    [] job = "pop"   -> {"idle", "pop"} \cup ClearPlaces
    [] job = "del"   -> {"idle", "del", "help", "flag", "back", "forward", "abort"} \cup ClearPlaces
    [] job = "sweep" -> {"idle", "skip", "at", "parent", "flag", "back", "forward", "abort"} \cup ClearPlaces

LocalsTyped ==
  /\ pc \in [Threads -> Places] /\ todo \in [Threads -> Seq(Names)]
  /\ p \in [Threads -> All \cup {Null}] /\ pval \in [Threads -> Words]
  /\ n \in [Threads -> Nodes \cup {Null}] /\ nval \in [Threads -> Words]
  /\ top \in [Threads -> Nodes \cup {Null}] /\ got \in [Threads -> BOOLEAN]
  /\ prev \in [Threads -> All \cup {Null}] /\ cur \in [Threads -> Nodes \cup {Null}]
  /\ stack \in [Threads -> Seq([prev : All, n : Nodes])]
  /\ claims \in [Nodes -> Nat] /\ found \in [Threads -> SUBSET Nodes]

\* Where a thread may be in its call.
PlaceOK(t) ==
  /\ todo[t] = << >> => pc[t] = "idle"
  /\ \A job \in Names : Job(t, job) => pc[t] \in PlacesOf(job)

\* What a thread has read is true, or was.
Seen(t) ==
  /\ p[t] \in Spots(next)
  /\ pval[t].ptr # Null => pval[t].ptr \in Was(next) /\ Leads(next, p[t], pval[t].ptr)
  /\ pval[t].flag => pval[t].ptr # Null /\ Dying(next, backlink, p[t], pval[t].ptr)
  /\ pval[t].mark => next[p[t]] = pval[t]

SeesOK(t) == pc[t] \in {"flag", "back", "forward", "del", "help", "pop"} => Seen(t)

\* The target of a search is ahead unless it has gone.
SearchOK(t) ==
  /\ pc[t] \in {"flag", "back", "parent"} =>
       n[t] \in Was(next) /\ p[t] \in Spots(next) /\ (n[t] \in In(next) => n[t] \in After(next, p[t]))
  /\ pc[t] \in {"del", "help", "forward"} =>
       n[t] \in Was(next) /\ (n[t] \in In(next) => n[t] \in From(next, pval[t].ptr))
  /\ pc[t] = "back" => p[t] # List /\ next[p[t]].mark
  /\ pc[t] = "forward" => pval[t].ptr # Null /\ pval[t].ptr # n[t]
  /\ pc[t] = "help" => /\ pval[t].ptr # Null /\ pval[t].flag
                       /\ nval[t].mark /\ nval[t] = next[pval[t].ptr]
  /\ pc[t] = "abort" => n[t] \in Was(next) \ In(next)

\* nblist_pop has not passed over what it need not.
PopOK(t) ==
  pc[t] = "pop" =>
    \A x \in found[t] : /\ x \in Was(next)
                        /\ \/ Doomed(x) \/ x \in From(next, pval[t].ptr)
                           \/ \E y \in Nodes : next[y] = Word(x, FALSE, TRUE)

IterOK(t) ==
  /\ cur[t] # Null => /\ cur[t] \in Was(next)
                      /\ prev[t] # Null => prev[t] \in Spots(next) /\ Leads(next, prev[t], cur[t])
  /\ Job(t, "sweep") /\ pc[t] \notin {"idle", "skip"} => cur[t] # Null

\* The node to push is the pusher's own.
Pushing(t) == Job(t, "push") /\ pc[t] # "idle"
PushOK(t) ==
  /\ Pushing(t) => /\ n[t] \in Nodes \ Was(next)
                   /\ \A u \in Threads : Pushing(u) /\ n[u] = n[t] => u = t
  /\ pc[t] = "push" => next[n[t]] = pval[t] /\ ~Bits(pval[t])

\* A call of clear_flag is for a flag that somebody has seen.
FrameOK(t, i) ==
  LET q == stack[t][i].prev
      x == stack[t][i].n
  IN /\ q \in Spots(next) /\ x \in Was(next) /\ Dying(next, backlink, q, x)
     /\ i > 1 \/ pc[t] # "clear" => backlink[x] = q

StackOK(t) ==
  /\ stack[t] = << >> <=> pc[t] \notin ClearPlaces
  /\ \A i \in DOMAIN stack[t] : FrameOK(t, i)
  /\ pc[t] = "rend" => nval[t] = next[stack[t][1].n] /\ nval[t].mark

\* Who has set a flag is in clear_flag for it, and nobody else has.
OwnOK(t) ==
  got[t] => /\ pc[t] \in ClearPlaces /\ ~Job(t, "push")
            /\ stack[t][Len(stack[t])].n = n[t] /\ claims[n[t]] = 0
            /\ \A u \in Threads : got[u] /\ n[u] = n[t] => u = t

ClaimsOK ==
  /\ \A q \in All, x \in Nodes : next[q] = Flagged(x) => \E t \in Threads : got[t] /\ n[t] = x
  /\ \A x \in Nodes : claims[x] = 0 \/ (claims[x] = 1 /\ Gone(next, x))

ThreadOK(t) ==
  /\ PlaceOK(t) /\ SeesOK(t) /\ SearchOK(t) /\ PopOK(t) /\ IterOK(t)
  /\ PushOK(t) /\ StackOK(t) /\ OwnOK(t)

IInv == HeapOK(next, backlink) /\ LocalsTyped /\ ClaimsOK /\ \A t \in Threads : ThreadOK(t)

-----------------------------------------------------------------------------
(* What is reached in a heap *)

LEMMA FromLeast ==
  ASSUME NEW f, NEW y, NEW S, Closed(f, S), y \in S \cup {Null}
  PROVE  From(f, y) \subseteq S
BY DEF From, Closed

LEMMA FromNull == ASSUME NEW f PROVE From(f, Null) = {}
<1>1. Closed(f, {}) /\ Null \in {} \cup {Null}
  BY DEF Closed
<1> QED
  BY <1>1, FromLeast

LEMMA FromClosed ==
  ASSUME NEW f, NEW y \in Nodes \cup {Null}, \A x \in Nodes : f[x].ptr \in Nodes \cup {Null}
  PROVE  Closed(f, From(f, y)) /\ y \in From(f, y) \cup {Null}
<1>1. ASSUME NEW x \in From(f, y) PROVE f[x].ptr \in From(f, y) \cup {Null}
  <2> SUFFICES ASSUME f[x].ptr # Null, NEW S \in SUBSET Nodes, Closed(f, S), y \in S \cup {Null}
               PROVE  f[x].ptr \in S
    BY <1>1 DEF From
  <2>1. x \in S
    BY <1>1 DEF From
  <2> QED
    BY <2>1 DEF Closed
<1>2. y \in From(f, y) \cup {Null}
  BY DEF From
<1> QED
  BY <1>1, <1>2 DEF Closed, From

LEMMA FromNode ==
  ASSUME NEW f, NEW y \in Nodes, \A x \in Nodes : f[x].ptr \in Nodes \cup {Null}, Null \notin Nodes
  PROVE  From(f, y) = {y} \cup After(f, y)
<1>1. Closed(f, From(f, y)) /\ y \in From(f, y)
  BY FromClosed
<1>2. After(f, y) \subseteq From(f, y)
  <2>1. f[y].ptr \in From(f, y) \cup {Null}
    BY <1>1 DEF Closed
  <2> QED
    BY <1>1, <2>1, FromLeast DEF After
<1>3. Closed(f, {y} \cup After(f, y)) /\ y \in {y} \cup After(f, y)
  <2>1. Closed(f, After(f, y)) /\ f[y].ptr \in After(f, y) \cup {Null}
    BY FromClosed DEF After
  <2> QED
    BY <2>1 DEF Closed
<1>4. From(f, y) \subseteq {y} \cup After(f, y)
  BY <1>3, FromLeast
<1> QED
  BY <1>1, <1>2, <1>4

LEMMA FromThrough ==
  ASSUME NEW f, NEW y \in Nodes \cup {Null}, \A x \in Nodes : f[x].ptr \in Nodes \cup {Null},
         NEW z \in From(f, y)
  PROVE  From(f, z) \subseteq From(f, y) /\ After(f, z) \subseteq From(f, y)
<1>1. Closed(f, From(f, y))
  BY FromClosed
<1>2. f[z].ptr \in From(f, y) \cup {Null}
  BY <1>1 DEF Closed
<1> QED
  BY <1>1, <1>2, FromLeast DEF After

-----------------------------------------------------------------------------
(* What holds of a heap *)

LEMMA HeapFacts ==
  ASSUME NEW f, NEW b, HeapTyped(f, b)
  PROVE  /\ Null \notin All /\ List \notin Nodes
         /\ \A x \in All : f[x].ptr \in Nodes \cup {Null} /\ f[x] = Word(f[x].ptr, f[x].flag, f[x].mark)
         /\ \A x \in All : f[x].flag \in BOOLEAN /\ f[x].mark \in BOOLEAN
         /\ In(f) \subseteq Nodes /\ Was(f) \subseteq Nodes /\ Spots(f) \subseteq All
BY NodesAssumption DEF HeapTyped, Words, All, Word, In, Was, Spots, After, From

LEMMA ListFacts ==
  ASSUME NEW f, NEW b, HeapTyped(f, b)
  PROVE  /\ Closed(f, In(f)) /\ f[List].ptr \in In(f) \cup {Null}
         /\ In(f) = From(f, f[List].ptr)
         /\ Closed(f, Was(f))
         /\ \A x \in Spots(f) : ~f[x].mark => x \in In(f) \cup {List}
<1>1. f[List].ptr \in Nodes \cup {Null} /\ \A x \in Nodes : f[x].ptr \in Nodes \cup {Null}
  BY HeapFacts DEF All
<1>2. Closed(f, In(f)) /\ f[List].ptr \in In(f) \cup {Null}
  BY <1>1, FromClosed DEF In, After
<1>3. Closed(f, Was(f))
  BY HeapFacts DEF HeapTyped, Closed, All
<1>4. \A x \in Spots(f) : ~f[x].mark => x \in In(f) \cup {List}
  BY DEF Spots, Was
<1> QED
  BY <1>2, <1>3, <1>4 DEF In, After

\* What can be reached from a node that was in the list was in it too.
LEMMA WasFrom ==
  ASSUME NEW f, NEW b, HeapTyped(f, b), NEW x \in Was(f) \cup {Null}
  PROVE  From(f, x) \subseteq Was(f)
BY ListFacts, FromLeast

LEMMA UnfoldFrom ==
  ASSUME NEW f, NEW b, HeapTyped(f, b), NEW x \in Nodes
  PROVE  From(f, x) = {x} \cup After(f, x)
BY HeapFacts, FromNode DEF All

\* A pointer leads where it points.
LEMMA PointerLeads ==
  ASSUME NEW f, NEW b, HeapTyped(f, b), NEW q \in All
  PROVE  Leads(f, q, f[q].ptr)
BY DEF Leads, After

\* Whoever points to a node of the list, and is not marked, is the only one.
LEMMA OneParent ==
  ASSUME NEW f, NEW b, HeapOK(f, b), NEW q \in Spots(f), NEW r \in Spots(f),
         ~f[q].mark, ~f[r].mark, f[q].ptr = f[r].ptr, f[q].ptr # Null
  PROVE  q = r
BY ListFacts DEF HeapOK, ChainOK

\* A flagged pointer is one of the list.
LEMMA FlagFacts ==
  ASSUME NEW f, NEW b, HeapOK(f, b), NEW q \in All, NEW x \in Nodes, f[q] = Flagged(x)
  PROVE  /\ ~f[q].mark /\ f[q].flag /\ f[q].ptr = x
         /\ q \in Spots(f) /\ q \in In(f) \cup {List} /\ x \in In(f) /\ x # q
<1>1. ~f[q].mark /\ f[q].flag /\ f[q].ptr = x
  BY DEF Flagged, Word
<1>2. q \in Spots(f)
  BY <1>1 DEF HeapOK, BitsOK
<1>3. HeapTyped(f, b)
  BY DEF HeapOK
<1>4. q \in In(f) \cup {List}
  BY <1>1, <1>2, <1>3, ListFacts
<1>5. x \in In(f)
  BY <1>1, <1>3, <1>4, ListFacts, HeapFacts DEF Closed, All
<1>6. x # q
  <2>1. q \in Nodes => q \notin After(f, q)
    BY DEF HeapOK, ChainOK
  <2>2. q \in Nodes => After(f, q) = From(f, x) /\ x \in From(f, x)
    BY <1>1, <1>3, UnfoldFrom DEF After
  <2> QED
    BY <2>1, <2>2, HeapFacts, <1>3
<1> QED
  BY <1>1, <1>2, <1>4, <1>5, <1>6

LEMMA DyingFacts ==
  ASSUME NEW f, NEW b, HeapOK(f, b), NEW q \in All, NEW x \in Nodes, Dying(f, b, q, x)
  PROVE  q \in Spots(f) /\ x \in Was(f) /\ Leads(f, q, x)
<1>1. CASE f[q] = Flagged(x)
  <2>1. Leads(f, q, f[q].ptr)
    BY PointerLeads DEF HeapOK
  <2> QED
    BY <1>1, <2>1, FlagFacts DEF Was
<1>2. CASE Gone(f, x) /\ b[x] = q
  <2>1. b[x] # Null
    BY <1>2 DEF HeapOK, BitsOK, Gone
  <2> QED
    BY <1>2, <2>1 DEF HeapOK, BacklinksOK
<1> QED
  BY <1>1, <1>2 DEF Dying

\* A node is cut off from one parent only.
LEMMA OneDying ==
  ASSUME NEW f, NEW b, HeapOK(f, b), NEW q \in All, NEW r \in All, NEW x \in Nodes,
         Dying(f, b, q, x), Dying(f, b, r, x)
  PROVE  q = r
<1>1. ASSUME NEW s \in All, f[s] = Flagged(x) PROVE ~Gone(f, x)
  BY <1>1, FlagFacts DEF Gone
<1>2. CASE f[q] = Flagged(x) /\ f[r] = Flagged(x)
  <2>1. q \in Spots(f) /\ r \in Spots(f) /\ ~f[q].mark /\ ~f[r].mark /\ f[q].ptr = x /\ f[r].ptr = x
    BY <1>2, FlagFacts
  <2>2. x # Null
    BY HeapFacts DEF HeapOK, All
  <2> QED
    BY <2>1, <2>2, OneParent
<1> QED
  BY <1>1, <1>2 DEF Dying

-----------------------------------------------------------------------------
(* What a step on the heap may not change: nodes do not come back, marked  *)
(* words and back links stay, and what is ahead stays ahead or is gone.    *)

Stable(f, b, g, c) ==
  /\ Was(f) \subseteq Was(g) /\ Was(f) \cap In(g) \subseteq In(f)
  /\ \A x \in Nodes : f[x].mark => g[x] = f[x]
  /\ \A x \in Was(f) : b[x] # Null => c[x] = b[x]
  /\ \A q \in All, x \in Nodes : Dying(f, b, q, x) => Dying(g, c, q, x)
  /\ \A q \in Spots(f), x \in Was(f) : Leads(f, q, x) => Leads(g, q, x)
  /\ \A q \in Spots(f) : \A y \in After(f, q) : y \in In(g) => y \in After(g, q)
  /\ \A x \in Was(f) : \A y \in From(f, x) : y \in In(g) => y \in From(g, x)

LEMMA StableIf ==
  ASSUME NEW f, NEW b, HeapOK(f, b), NEW g, NEW c, HeapTyped(g, c),
         Was(f) \subseteq Was(g), Was(f) \cap In(g) \subseteq In(f),
         \A x \in Nodes : f[x].mark => g[x] = f[x],
         \A x \in Was(f) : b[x] # Null => c[x] = b[x],
         \A q \in All, x \in Nodes : f[q] = Flagged(x) => Dying(g, c, q, x),
         \A x \in Was(f) : From(g, x) \subseteq From(f, x),
         \A q \in Spots(f) : \A y \in After(f, q) : y \in In(g) => y \in After(g, q)
  PROVE  Stable(f, b, g, c)
<1>1. ASSUME NEW q \in All, NEW x \in Nodes, Dying(f, b, q, x) PROVE Dying(g, c, q, x)
  <2>1. CASE Gone(f, x) /\ b[x] = q
    <3>1. x \in Was(f) /\ b[x] # Null
      BY <1>1, <2>1, HeapFacts DEF Gone, Was, HeapOK
    <3>2. g[x].mark /\ x \notin In(g) /\ c[x] = q
      BY <2>1, <3>1 DEF Gone
    <3> QED
      BY <3>2 DEF Dying, Gone
  <2> QED
    BY <1>1, <2>1 DEF Dying
<1>2. ASSUME NEW q \in Spots(f), NEW x \in Was(f), Leads(f, q, x) PROVE Leads(g, q, x)
  <2> SUFFICES ASSUME NEW y \in From(g, x), y \in In(g) PROVE y \in After(g, q)
    BY DEF Leads
  <2>1. y \in From(f, x)
    OBVIOUS
  <2>2. y \in Was(f)
    BY <2>1, WasFrom DEF HeapOK
  <2>3. y \in In(f)
    BY <2>2
  <2> QED
    BY <1>2, <2>1, <2>3 DEF Leads
<1>3. ASSUME NEW x \in Was(f), NEW y \in From(f, x), y \in In(g) PROVE y \in From(g, x)
  <2>1. x \in Nodes /\ x \in Spots(f)
    BY HeapFacts DEF HeapOK, Spots
  <2>2. From(f, x) = {x} \cup After(f, x) /\ From(g, x) = {x} \cup After(g, x)
    BY <2>1, UnfoldFrom DEF HeapOK
  <2> QED
    BY <1>3, <2>1, <2>2
<1> QED
  BY <1>1, <1>2, <1>3 DEF Stable

LEMMA BacklinksStay ==
  ASSUME NEW f, NEW b, HeapOK(f, b), NEW g, NEW c, Stable(f, b, g, c),
         \A x \in Nodes : c[x] \in {b[x], Null}
  PROVE  BacklinksOK(g, c)
<1> SUFFICES ASSUME NEW x \in Nodes, c[x] # Null
             PROVE  x \in Was(g) /\ c[x] \in Spots(g) /\ Dying(g, c, c[x], x) /\ Leads(g, c[x], x)
  BY DEF BacklinksOK
<1>1. b[x] = c[x]
  OBVIOUS
<1>2. x \in Was(f) /\ b[x] \in Spots(f) /\ Dying(f, b, b[x], x) /\ Leads(f, b[x], x)
  BY <1>1 DEF HeapOK, BacklinksOK
<1>3. b[x] \in All
  BY <1>2, HeapFacts DEF HeapOK
<1> QED
  BY <1>1, <1>2, <1>3 DEF Stable, Spots

-----------------------------------------------------------------------------
(* The steps on the heap: a flag, a back link or a mark is set *)

PointersSame(f, g) == \A x \in All : g[x].ptr = f[x].ptr

LEMMA SamePointers ==
  ASSUME NEW f, NEW g, PointersSame(f, g)
  PROVE  /\ \A y \in Nodes \cup {Null} : From(g, y) = From(f, y)
         /\ \A q \in All : After(g, q) = After(f, q)
         /\ In(g) = In(f)
<1>1. ASSUME NEW y PROVE From(g, y) = From(f, y)
  <2>1. \A S : Closed(g, S) <=> Closed(f, S)
    BY DEF Closed, All, PointersSame
  <2> QED
    BY <2>1 DEF From
<1>2. ASSUME NEW q \in All PROVE After(g, q) = After(f, q)
  BY <1>1 DEF After, PointersSame
<1> QED
  BY <1>1, <1>2 DEF In, All

SetFlag(f, b, g, c, q, x) ==
  /\ q \in Spots(f) /\ x \in Nodes /\ f[q] = Plain(x)
  /\ g = [f EXCEPT ![q] = Flagged(x)] /\ c = b

SetMark(f, b, g, c, x) ==
  /\ x \in Was(f) /\ ~f[x].flag /\ b[x] # Null
  /\ g = [f EXCEPT ![x] = [f[x] EXCEPT !.mark = TRUE]] /\ c = b

SetBacklink(f, b, g, c, q, x) ==
  /\ q \in All /\ x \in Nodes /\ Dying(f, b, q, x)
  /\ c = [b EXCEPT ![x] = q] /\ g = f

\* A step on the bits of a node that was in the list.
LEMMA BitStep ==
  ASSUME NEW f, NEW b, HeapOK(f, b), NEW q \in Spots(f), NEW g, NEW w \in Words,
         g = [f EXCEPT ![q] = w], w.ptr = f[q].ptr, f[q].mark => w = f[q],
         f[q].flag => w.flag, w.flag => w.ptr # Null /\ ~w.mark, w.mark => q # List /\ b[q] # Null
  PROVE  HeapOK(g, b) /\ Stable(f, b, g, b) /\ In(g) = In(f) /\ Was(g) = Was(f)
<1>1. f \in [All -> Words] /\ b \in [All -> All \cup {Null}] /\ q \in All
  BY HeapFacts DEF HeapOK, HeapTyped
<1>2. /\ g \in [All -> Words] /\ g[q] = w
      /\ \A x \in All : x # q => g[x] = f[x]
  BY <1>1
<1>3. \A x \in All : g[x].ptr = f[x].ptr
  BY <1>1, <1>2
<1>4. /\ \A y \in Nodes \cup {Null} : From(g, y) = From(f, y)
      /\ \A r \in All : After(g, r) = After(f, r)
      /\ In(g) = In(f)
  <2>1. PointersSame(f, g)
    BY <1>3 DEF PointersSame
  <2> QED
    BY <2>1, SamePointers
<1>5. \A x \in Nodes : f[x].mark => g[x] = f[x]
  BY <1>1, <1>2 DEF All
<1>6. \A x \in Nodes : g[x].mark => f[x].mark \/ x = q
  BY <1>1, <1>2 DEF All
<1>7. Was(g) = Was(f)
  BY <1>4, <1>5, <1>6, NodesAssumption DEF Was, Spots
<1>8. HeapTyped(g, b)
  BY <1>1, <1>2, <1>3, <1>7 DEF HeapTyped, HeapOK
<1>9. BitsOK(g, b)
  BY <1>1, <1>2, <1>7, NodesAssumption DEF HeapOK, BitsOK, All, Spots
<1>10. ChainOK(g)
  <2>1. In(f) \cup {List} \subseteq All
    BY HeapFacts DEF HeapOK, Spots, Was
  <2>2. \A x \in Nodes : x \notin After(g, x)
    BY <1>4 DEF HeapOK, ChainOK, All
  <2>3. \A y \in In(g) \cup {List} : g[y].ptr = f[y].ptr
    BY <1>3, <1>4, <2>1
  <2>4. \A y, z \in In(g) \cup {List} : g[y].ptr = g[z].ptr /\ g[y].ptr # Null => y = z
    BY <1>4, <2>3 DEF HeapOK, ChainOK
  <2> QED
    BY <2>2, <2>4 DEF ChainOK
<1>11. \A r \in All, x \in Nodes : f[r] = Flagged(x) => Dying(g, b, r, x)
  <2> SUFFICES ASSUME NEW r \in All, NEW x \in Nodes, f[r] = Flagged(x) PROVE g[r] = Flagged(x)
    BY DEF Dying
  <2>1. CASE r = q
    <3>1. w.ptr = x /\ w.flag /\ ~w.mark
      BY <2>1, FlagFacts
    <3>2. w = Flagged(x)
      BY <3>1 DEF Words, Flagged, Word
    <3> QED
      BY <1>2, <2>1, <3>2
  <2> QED
    BY <1>2, <2>1
<1>12. Stable(f, b, g, b)
  BY <1>4, <1>5, <1>7, <1>8, <1>11, HeapFacts, StableIf DEF HeapOK
<1>13. BacklinksOK(g, b)
  BY <1>12, BacklinksStay
<1> QED
  BY <1>4, <1>7, <1>8, <1>9, <1>10, <1>12, <1>13 DEF HeapOK

LEMMA FlagStep ==
  ASSUME NEW f, NEW b, HeapOK(f, b), NEW g, NEW c, NEW q, NEW x, SetFlag(f, b, g, c, q, x)
  PROVE  HeapOK(g, c) /\ Stable(f, b, g, c) /\ In(g) = In(f) /\ Was(g) = Was(f)
<1>1. q \in Spots(f) /\ c = b /\ g = [f EXCEPT ![q] = Flagged(x)]
  BY DEF SetFlag
<1>2. Flagged(x) \in Words /\ Flagged(x).ptr = x /\ Flagged(x).flag /\ ~Flagged(x).mark
  BY DEF SetFlag, Flagged, Words, Word
<1>3. f[q].ptr = x /\ ~f[q].mark
  BY DEF SetFlag, Plain, Word
<1>4. x # Null
  BY HeapFacts DEF SetFlag, HeapOK, All
<1> HIDE DEF SetFlag
<1> QED
  BY <1>1, <1>2, <1>3, <1>4, BitStep

LEMMA MarkStep ==
  ASSUME NEW f, NEW b, HeapOK(f, b), NEW g, NEW c, NEW x, SetMark(f, b, g, c, x)
  PROVE  /\ HeapOK(g, c) /\ Stable(f, b, g, c) /\ In(g) = In(f) /\ Was(g) = Was(f)
         /\ g[x] = [f[x] EXCEPT !.mark = TRUE]
<1>1. x \in Spots(f) /\ x # List /\ f \in [All -> Words] /\ x \in All
  <2>1. f \in [All -> Words] /\ x \in Was(f)
    BY DEF HeapOK, HeapTyped, SetMark
  <2>2. Was(f) \subseteq Nodes /\ List \notin Nodes
    BY HeapFacts DEF HeapOK
  <2> QED
    BY <2>1, <2>2 DEF All, Spots
<1>2. f[x] \in Words /\ ~f[x].flag
  BY <1>1 DEF SetMark
<1>3. PICK w \in Words : w = [f[x] EXCEPT !.mark = TRUE]
  BY <1>2 DEF Words
<1>4. w.ptr = f[x].ptr /\ ~w.flag /\ (f[x].mark => w = f[x])
  BY <1>2, <1>3 DEF Words
<1>5. c = b /\ g = [f EXCEPT ![x] = w] /\ b[x] # Null
  BY <1>3 DEF SetMark
<1>6. HeapOK(g, b) /\ Stable(f, b, g, b) /\ In(g) = In(f) /\ Was(g) = Was(f)
  <2>1. f[x].mark => w = f[x]
    BY <1>4
  <2>2. f[x].flag => w.flag
    BY <1>2
  <2>3. w.flag => w.ptr # Null /\ ~w.mark
    BY <1>4
  <2>4. w.mark => x # List /\ b[x] # Null
    BY <1>1, <1>5
  <2>5. w.ptr = f[x].ptr /\ g = [f EXCEPT ![x] = w]
    BY <1>4, <1>5
  <2>6. x \in Spots(f)
    BY <1>1
  <2> QED
    BY <2>1, <2>2, <2>3, <2>4, <2>5, <2>6, BitStep
<1>7. g[x] = w
  BY <1>1, <1>5
<1> QED
  BY <1>3, <1>5, <1>6, <1>7

LEMMA BacklinkStep ==
  ASSUME NEW f, NEW b, HeapOK(f, b), NEW g, NEW c, NEW q, NEW x, SetBacklink(f, b, g, c, q, x)
  PROVE  HeapOK(g, c) /\ Stable(f, b, g, c) /\ In(g) = In(f) /\ Was(g) = Was(f) /\ c[x] = q
<1>1. q \in All /\ x \in Nodes /\ Dying(f, b, q, x) /\ g = f /\ x \in All /\ q # Null
  BY HeapFacts DEF SetBacklink, All, HeapOK
<1>2. b \in [All -> All \cup {Null}] /\ c = [b EXCEPT ![x] = q]
  BY DEF HeapOK, HeapTyped, SetBacklink
<1>3. c \in [All -> All \cup {Null}] /\ c[x] = q /\ \A y \in All : y # x => c[y] = b[y]
  BY <1>1, <1>2
<1>4. \A y \in Nodes : b[y] # Null => c[y] = b[y]
  <2> SUFFICES ASSUME b[x] # Null PROVE b[x] = q
    BY <1>3 DEF All
  <2>1. b[x] \in All /\ Dying(f, b, b[x], x)
    BY <1>1, HeapFacts DEF HeapOK, BacklinksOK
  <2> QED
    BY <1>1, <2>1, OneDying
<1>5. HeapTyped(g, c)
  BY <1>1, <1>3 DEF HeapOK, HeapTyped
<1>6. BitsOK(g, c)
  BY <1>1, <1>4 DEF HeapOK, BitsOK
<1>7. Stable(f, b, g, c)
  <2>1. \A y \in Was(f) : b[y] # Null => c[y] = b[y]
    BY <1>4, HeapFacts DEF HeapOK
  <2>2. \A r \in All, y \in Nodes : f[r] = Flagged(y) => Dying(g, c, r, y)
    BY <1>1 DEF Dying
  <2> QED
    BY <1>1, <1>5, <2>1, <2>2, StableIf
<1>8. BacklinksOK(g, c)
  <2> SUFFICES ASSUME NEW y \in Nodes, c[y] # Null
               PROVE  y \in Was(f) /\ c[y] \in Spots(f) /\ Dying(f, c, c[y], y) /\ Leads(f, c[y], y)
    BY <1>1 DEF BacklinksOK
  <2>1. CASE y = x
    BY <1>1, <1>3, <2>1, DyingFacts DEF Dying
  <2>2. CASE y # x
    BY <1>3, <2>2 DEF HeapOK, BacklinksOK, Dying, All
  <2> QED
    BY <2>1, <2>2
<1> QED
  BY <1>1, <1>3, <1>5, <1>6, <1>7, <1>8 DEF HeapOK

-----------------------------------------------------------------------------
(* A marked node is cut off from its flagged parent. *)

Cut(f, b, g, c, q, x) ==
  /\ q \in All /\ x \in Nodes /\ f[q] = Flagged(x) /\ f[x].mark
  /\ g = [f EXCEPT ![q] = Plain(f[x].ptr)] /\ c = b

LEMMA CutReaches ==
  ASSUME NEW f, NEW b, HeapOK(f, b), NEW g, NEW c, NEW q, NEW x, Cut(f, b, g, c, q, x)
  PROVE  /\ \A y \in Nodes \cup {Null} : From(g, y) \subseteq From(f, y)
         /\ \A r \in All : \A y \in After(f, r) : y # x => y \in After(g, r)
         /\ In(g) = In(f) \ {x}
<1>1. /\ q \in All /\ x \in Nodes /\ f[q] = Flagged(x) /\ f[q].ptr = x /\ x # q
      /\ q \in In(f) \cup {List} /\ x \in In(f)
  BY FlagFacts DEF Cut
<1>2. g[q].ptr = f[x].ptr /\ \A y \in All : y # q => g[y] = f[y]
  BY <1>1 DEF Cut, Plain, Word, HeapOK, HeapTyped
<1>3. \A y \in All : f[y].ptr \in Nodes \cup {Null} /\ g[y].ptr \in Nodes \cup {Null}
  <2>1. \A y \in All : f[y].ptr \in Nodes \cup {Null}
    BY HeapFacts DEF HeapOK
  <2> QED
    BY <1>1, <1>2, <2>1 DEF All
<1>4. ASSUME NEW S, Closed(f, S) PROVE Closed(g, S)
  <2>1. ASSUME NEW y \in S PROVE g[y].ptr \in S \cup {Null}
    <3>1. y \in Nodes /\ \A z \in S : f[z].ptr \in S \cup {Null}
      BY <1>4 DEF Closed
    <3>2. CASE y = q
      BY <1>1, <1>2, <3>1, <3>2, NodesAssumption
    <3>3. CASE y # q
      BY <1>2, <3>1, <3>3 DEF All
    <3> QED
      BY <3>2, <3>3
  <2> QED
    BY <1>4, <2>1 DEF Closed
<1>5. ASSUME NEW y \in Nodes \cup {Null} PROVE From(g, y) \subseteq From(f, y)
  BY <1>4 DEF From
<1>6. ASSUME NEW r \in All, NEW y \in After(f, r), y # x PROVE y \in After(g, r)
  <2>1. PICK T : T = After(g, r)
    OBVIOUS
  <2>2. Closed(g, T) /\ g[r].ptr \in T \cup {Null}
    BY <1>3, <2>1, FromClosed DEF After, All
  <2>3. CASE q \in T \/ r = q
    <3>1. Closed(f, T \cup {x}) /\ f[r].ptr \in T \cup {x} \cup {Null}
      BY <1>1, <1>2, <2>2, <2>3 DEF Closed, All
    <3>2. After(f, r) \subseteq T \cup {x}
      BY <3>1, FromLeast DEF After
    <3> QED
      BY <1>6, <2>1, <3>2
  <2>4. CASE ~(q \in T \/ r = q)
    <3>1. Closed(f, T) /\ f[r].ptr \in T \cup {Null}
      BY <1>2, <2>2, <2>4 DEF Closed, All
    <3>2. After(f, r) \subseteq T
      BY <3>1, FromLeast DEF After
    <3> QED
      BY <2>1, <3>2
  <2> QED
    BY <2>3, <2>4
<1>7. In(f) \ {x} \subseteq In(g)
  BY <1>6 DEF In, All
<1>8. In(g) \subseteq In(f) \ {x}
  <2>1. Closed(f, In(f)) /\ f[List].ptr \in In(f) \cup {Null} /\ List \notin Nodes /\ In(f) \subseteq Nodes
    BY ListFacts, HeapFacts DEF HeapOK
  <2>2. f[x].ptr \in (In(f) \ {x}) \cup {Null}
    <3>1. f[x].ptr \in In(f) \cup {Null}
      BY <1>1, <2>1 DEF Closed
    <3>2. f[x].ptr # x
      <4>1. x \notin After(f, x)
        BY <1>1 DEF HeapOK, ChainOK
      <4>2. f[x].ptr \in After(f, x) \cup {Null} /\ x # Null
        BY <1>1, <1>3, FromClosed, NodesAssumption DEF After, All
      <4> QED
        BY <4>1, <4>2
    <3> QED
      BY <3>1, <3>2
  <2>3. ASSUME NEW y \in (In(f) \cup {List}) \ {x} PROVE g[y].ptr \in (In(f) \ {x}) \cup {Null}
    <3>1. CASE y = q
      BY <1>2, <2>2, <3>1
    <3>2. CASE y # q
      <4>1. g[y] = f[y] /\ f[y].ptr \in In(f) \cup {Null}
        BY <1>2, <2>1, <3>2 DEF Closed, All
      <4>2. f[y].ptr # x
        <5>1. x # Null
          BY <1>1, NodesAssumption
        <5> QED
          BY <1>1, <3>2, <5>1 DEF HeapOK, ChainOK
      <4> QED
        BY <4>1, <4>2
    <3> QED
      BY <3>1, <3>2
  <2>4. Closed(g, In(f) \ {x})
    BY <2>1, <2>3 DEF Closed
  <2>5. g[List].ptr \in (In(f) \ {x}) \cup {Null}
    BY <1>1, <2>1, <2>3
  <2> QED
    BY <2>4, <2>5, FromLeast DEF In, After
<1> QED
  BY <1>5, <1>6, <1>7, <1>8

LEMMA CutStep ==
  ASSUME NEW f, NEW b, HeapOK(f, b), NEW g, NEW c, NEW q, NEW x, Cut(f, b, g, c, q, x)
  PROVE  /\ HeapOK(g, c) /\ Stable(f, b, g, c) /\ In(g) = In(f) \ {x} /\ Was(g) = Was(f)
         /\ Gone(g, x) /\ ~g[q].flag /\ ~g[q].mark /\ \A r \in All : r # q => g[r] = f[r]
<1>1. /\ q \in All /\ x \in Nodes /\ f[q] = Flagged(x) /\ f[q].ptr = x /\ x # q
      /\ q \in In(f) \cup {List} /\ x \in In(f) /\ f[x].mark /\ ~f[q].mark /\ c = b
  BY FlagFacts DEF Cut
<1>2. /\ f \in [All -> Words] /\ b \in [All -> All \cup {Null}]
      /\ g = [f EXCEPT ![q] = Plain(f[x].ptr)]
  BY DEF Cut, HeapOK, HeapTyped
<1>3. /\ \A y \in Nodes \cup {Null} : From(g, y) \subseteq From(f, y)
      /\ \A r \in All : \A y \in After(f, r) : y # x => y \in After(g, r)
      /\ In(g) = In(f) \ {x}
  BY CutReaches
<1>4. /\ Null \notin All /\ List \notin Nodes /\ In(f) \subseteq Nodes /\ Was(f) \subseteq Nodes
      /\ Spots(f) \subseteq All /\ \A y \in All : f[y].ptr \in Nodes \cup {Null}
  BY HeapFacts DEF HeapOK
<1>5. /\ g[q] = Plain(f[x].ptr) /\ g[q].ptr = f[x].ptr /\ ~g[q].flag /\ ~g[q].mark
      /\ \A y \in All : y # q => g[y] = f[y]
  BY <1>1, <1>2 DEF Plain, Word
<1>6. g \in [All -> Words]
  BY <1>1, <1>2, <1>4 DEF Plain, Word, Words, All
<1>7. \A y \in Nodes : f[y].mark => g[y] = f[y]
  BY <1>1, <1>5 DEF All
<1>8. Was(g) = Was(f)
  <2>1. \A y \in Nodes : g[y].mark <=> f[y].mark
    BY <1>1, <1>5 DEF All
  <2> QED
    BY <1>1, <1>3, <2>1 DEF Was
<1>9. HeapTyped(g, c)
  BY <1>1, <1>2, <1>5, <1>6, <1>8 DEF HeapTyped, HeapOK, All
<1>10. BitsOK(g, c)
  BY <1>1, <1>4, <1>5, <1>7, <1>8 DEF HeapOK, BitsOK, Spots, All
<1>11. ChainOK(g)
  <2>1. ASSUME NEW y \in Nodes PROVE y \notin After(g, y)
    <3>1. g[y].ptr = f[y].ptr \/ (y = q /\ g[y].ptr = f[x].ptr)
      BY <1>5 DEF All
    <3>2. y \notin After(f, y) /\ g[y].ptr \in Nodes \cup {Null}
      BY <1>1, <1>4, <3>1 DEF HeapOK, ChainOK, All
    <3>3. After(g, y) \subseteq From(f, g[y].ptr)
      BY <1>3, <3>2 DEF After
    <3>4. CASE g[y].ptr = f[y].ptr
      BY <3>2, <3>3, <3>4 DEF After
    <3>5. CASE y = q /\ g[y].ptr = f[x].ptr
      <4>1. From(f, x) = {x} \cup After(f, x)
        BY <1>1, UnfoldFrom DEF HeapOK
      <4> QED
        BY <1>1, <3>2, <3>3, <3>5, <4>1 DEF After
    <3> QED
      BY <3>1, <3>4, <3>5
  <2>2. ASSUME NEW y \in In(g) \cup {List}, NEW z \in In(g) \cup {List}, g[y].ptr = g[z].ptr, g[y].ptr # Null
        PROVE  y = z
    <3>1. /\ y \in In(f) \cup {List} /\ z \in In(f) \cup {List} /\ y # x /\ z # x /\ y \in All /\ z \in All
      BY <1>1, <1>3, <1>4 DEF All
    <3>2. \A v, w \in In(f) \cup {List} : f[v].ptr = f[w].ptr /\ f[v].ptr # Null => v = w
      BY DEF HeapOK, ChainOK
    <3> QED
      BY <1>1, <1>5, <2>2, <3>1, <3>2
  <2> QED
    BY <2>1, <2>2 DEF ChainOK
<1>12. Gone(g, x)
  BY <1>1, <1>3, <1>7 DEF Gone
<1>13. \A r \in All, y \in Nodes : f[r] = Flagged(y) => Dying(g, c, r, y)
  <2> SUFFICES ASSUME NEW r \in All, NEW y \in Nodes, f[r] = Flagged(y) PROVE Dying(g, c, r, y)
    OBVIOUS
  <2>1. CASE r = q
    <3>1. y = x
      BY <1>1, <2>1 DEF Flagged, Word
    <3>2. b[x] # Null /\ b[x] \in All
      BY <1>1, <1>2 DEF HeapOK, BitsOK, All
    <3>3. Dying(f, b, b[x], x) /\ Dying(f, b, q, x)
      BY <1>1, <3>2 DEF HeapOK, BacklinksOK, Dying
    <3>4. b[x] = q
      BY <1>1, <3>2, <3>3, OneDying
    <3> QED
      BY <1>1, <1>12, <2>1, <3>1, <3>4 DEF Dying
  <2>2. CASE r # q
    BY <1>5, <2>2 DEF Dying
  <2> QED
    BY <2>1, <2>2
<1>14. Stable(f, b, g, c)
  <2>1. \A r \in Spots(f) : \A y \in After(f, r) : y \in In(g) => y \in After(g, r)
    BY <1>3, <1>4
  <2>2. \A y \in Was(f) : From(g, y) \subseteq From(f, y)
    BY <1>3, <1>4
  <2>3. Was(f) \subseteq Was(g) /\ Was(f) \cap In(g) \subseteq In(f)
    BY <1>3, <1>8
  <2> QED
    BY <1>1, <1>7, <1>9, <1>13, <2>1, <2>2, <2>3, StableIf
<1>15. BacklinksOK(g, c)
  BY <1>1, <1>14, BacklinksStay
<1> QED
  BY <1>3, <1>5, <1>8, <1>9, <1>10, <1>11, <1>12, <1>14, <1>15 DEF HeapOK

-----------------------------------------------------------------------------
(* A node is made ready, and pushed. *)

Prepare(f, b, g, c, m) ==
  /\ m \in Nodes \ Was(f) /\ ~f[List].flag
  /\ g = [f EXCEPT ![m] = f[List]] /\ c = [b EXCEPT ![m] = Null]

Link(f, b, g, c, m) ==
  /\ m \in Nodes \ Was(f) /\ f[m] = f[List] /\ ~f[List].flag
  /\ g = [f EXCEPT ![List] = Plain(m)] /\ c = b

LEMMA PrepareStep ==
  ASSUME NEW f, NEW b, HeapOK(f, b), NEW g, NEW c, NEW m, Prepare(f, b, g, c, m)
  PROVE  /\ HeapOK(g, c) /\ Stable(f, b, g, c) /\ In(g) = In(f) /\ Was(g) = Was(f)
         /\ g[m] = f[List] /\ \A r \in All : r # m => g[r] = f[r]
<1>1. /\ m \in Nodes /\ m \notin Was(f) /\ ~f[List].flag /\ ~f[List].mark
      /\ g = [f EXCEPT ![m] = f[List]] /\ c = [b EXCEPT ![m] = Null]
      /\ f \in [All -> Words] /\ b \in [All -> All \cup {Null}] /\ m \in All /\ List \in All
  BY DEF Prepare, HeapOK, HeapTyped, BitsOK, All
<1>2. /\ g[m] = f[List] /\ \A r \in All : r # m => g[r] = f[r]
  BY <1>1
<1>3. c = b
  <2>1. b[m] = Null
    BY <1>1 DEF HeapOK, BacklinksOK
  <2> QED
    BY <1>1, <2>1
<1>4. /\ List \notin Nodes /\ In(f) \subseteq Nodes /\ Was(f) \subseteq Nodes /\ m # Null /\ m # List
      /\ Spots(f) \subseteq All /\ \A y \in All : f[y].ptr \in Nodes \cup {Null}
  BY <1>1, HeapFacts DEF HeapOK
<1>5. \A y \in All : f[y].ptr # m /\ g[y].ptr # m /\ g[y].ptr \in Was(f) \cup {Null}
  BY <1>1, <1>2, <1>4 DEF HeapOK, HeapTyped
<1>6. ASSUME NEW y \in Nodes \cup {Null}, y # m PROVE From(g, y) = From(f, y)
  <2>1. \A S : Closed(f, S) => Closed(g, S \ {m})
    BY <1>2, <1>5 DEF Closed, All
  <2>2. \A S : Closed(g, S) => Closed(f, S \ {m})
    BY <1>2, <1>5 DEF Closed, All
  <2>3. From(g, y) \subseteq From(f, y)
    BY <1>6, <2>1 DEF From
  <2>4. From(f, y) \subseteq From(g, y)
    BY <1>6, <2>2 DEF From
  <2> QED
    BY <2>3, <2>4
<1>7. \A r \in All : r # m => After(g, r) = After(f, r)
  BY <1>2, <1>4, <1>5, <1>6 DEF After
<1>8. In(g) = In(f)
  BY <1>1, <1>4, <1>7 DEF In
<1>9. Was(g) = Was(f)
  <2>1. ~f[m].mark /\ ~g[m].mark
    BY <1>1, <1>2 DEF Was
  <2>2. \A y \in Nodes : g[y].mark <=> f[y].mark
    BY <1>2, <2>1 DEF All
  <2> QED
    BY <1>8, <2>2 DEF Was
<1>10. HeapTyped(g, c)
  BY <1>1, <1>3, <1>5, <1>9 DEF HeapTyped
<1>11. BitsOK(g, c)
  BY <1>1, <1>2, <1>3, <1>4, <1>9 DEF HeapOK, BitsOK, All, Spots
<1>12. ChainOK(g)
  <2>1. After(g, m) = In(f) /\ m \notin In(f)
    <3>1. f[List].ptr \in Nodes \cup {Null} /\ f[List].ptr # m
      BY <1>1, <1>4, <1>5
    <3>2. From(g, f[List].ptr) = From(f, f[List].ptr)
      BY <1>6, <3>1
    <3> QED
      BY <1>1, <1>2, <3>2 DEF After, In, Was
  <2>2. \A y \in Nodes : y \notin After(g, y)
    BY <1>7, <2>1 DEF HeapOK, ChainOK, All
  <2>3. \A y \in In(g) \cup {List} : g[y] = f[y]
    BY <1>1, <1>2, <1>4, <1>8 DEF Was, All
  <2>4. \A y, z \in In(g) \cup {List} : g[y].ptr = g[z].ptr /\ g[y].ptr # Null => y = z
    BY <1>8, <2>3 DEF HeapOK, ChainOK
  <2> QED
    BY <2>2, <2>4 DEF ChainOK
<1>13. Stable(f, b, g, c)
  <2>1. \A r \in Spots(f) : r # m
    BY <1>1, <1>4 DEF Spots
  <2>2. \A r \in All, y \in Nodes : f[r] = Flagged(y) => Dying(g, c, r, y)
    BY <1>2, <2>1, FlagFacts DEF Dying
  <2>3. \A r \in Spots(f) : \A y \in After(f, r) : y \in In(g) => y \in After(g, r)
    BY <1>4, <1>7, <2>1
  <2>4. \A y \in Was(f) : From(g, y) \subseteq From(f, y)
    BY <1>1, <1>4, <1>6
  <2>5. \A y \in Nodes : f[y].mark => g[y] = f[y]
    BY <1>1, <1>2 DEF Was, All
  <2> QED
    BY <1>3, <1>8, <1>9, <1>10, <2>2, <2>3, <2>4, <2>5, StableIf
<1>14. BacklinksOK(g, c)
  BY <1>3, <1>13, BacklinksStay
<1> QED
  BY <1>2, <1>8, <1>9, <1>10, <1>11, <1>12, <1>13, <1>14 DEF HeapOK

LEMMA LinkStep ==
  ASSUME NEW f, NEW b, HeapOK(f, b), NEW g, NEW c, NEW m, Link(f, b, g, c, m)
  PROVE  /\ HeapOK(g, c) /\ Stable(f, b, g, c) /\ In(g) = In(f) \cup {m} /\ Was(g) = Was(f) \cup {m}
         /\ \A r \in Nodes : g[r] = f[r]
<1>1. /\ m \in Nodes /\ m \notin Was(f) /\ ~f[List].flag /\ ~f[List].mark /\ f[m] = f[List] /\ c = b
      /\ g = [f EXCEPT ![List] = Plain(m)]
      /\ f \in [All -> Words] /\ b \in [All -> All \cup {Null}] /\ m \in All /\ List \in All
  BY DEF Link, HeapOK, HeapTyped, BitsOK, All
<1>2. /\ List \notin Nodes /\ In(f) \subseteq Nodes /\ Was(f) \subseteq Nodes /\ m # Null /\ m # List
      /\ Spots(f) \subseteq All /\ \A y \in All : f[y].ptr \in Nodes \cup {Null}
  BY <1>1, HeapFacts DEF HeapOK
<1>3. /\ g[List] = Plain(m) /\ g[List].ptr = m /\ ~g[List].flag /\ ~g[List].mark
      /\ \A r \in Nodes : g[r] = f[r]
  BY <1>1, <1>2 DEF Plain, Word, All
<1>4. \A y \in Nodes \cup {Null} : From(g, y) = From(f, y)
  <2>1. \A S : Closed(g, S) <=> Closed(f, S)
    BY <1>3 DEF Closed
  <2> QED
    BY <2>1 DEF From
<1>5. \A r \in Nodes : After(g, r) = After(f, r)
  BY <1>2, <1>3, <1>4 DEF After, All
<1>6. In(g) = In(f) \cup {m}
  <2>1. From(f, m) = {m} \cup After(f, m)
    BY <1>1, UnfoldFrom DEF HeapOK
  <2>2. After(f, m) = In(f)
    BY <1>1 DEF After, In
  <2>3. In(g) = From(f, m)
    BY <1>1, <1>3, <1>4 DEF In, After
  <2> QED
    BY <2>1, <2>2, <2>3
<1>7. Was(g) = Was(f) \cup {m}
  BY <1>3, <1>6 DEF Was
<1>8. HeapTyped(g, c)
  <2>1. g \in [All -> Words]
    BY <1>1 DEF Plain, Word, Words, All
  <2>2. \A y \in All : g[y].ptr \in Was(g) \cup {Null}
    BY <1>3, <1>7 DEF HeapOK, HeapTyped, All
  <2> QED
    BY <1>1, <2>1, <2>2 DEF HeapTyped
<1>9. BitsOK(g, c)
  BY <1>1, <1>3, <1>7 DEF HeapOK, BitsOK, All, Spots
<1>10. ChainOK(g)
  <2>1. \A y \in Nodes : y \notin After(g, y)
    BY <1>5 DEF HeapOK, ChainOK
  <2>2. \A y \in All : f[y].ptr # m
    BY <1>1, <1>2 DEF HeapOK, HeapTyped
  <2>3. \A y, z \in In(f) \cup {List} : f[y].ptr = f[z].ptr /\ f[y].ptr # Null => y = z
    BY DEF HeapOK, ChainOK
  <2>4. ASSUME NEW y \in In(g) \cup {List}, NEW z \in In(g) \cup {List}, g[y].ptr = g[z].ptr, g[y].ptr # Null
        PROVE  y = z
    <3>1. CASE y = List \/ z = List
      <4>1. \A v \in In(g) : v \in Nodes /\ g[v].ptr # m
        BY <1>1, <1>2, <1>3, <1>6, <2>2 DEF All
      <4> QED
        BY <1>3, <2>4, <3>1, <4>1
    <3>2. CASE y # List /\ z # List
      <4>1. y \in In(f) \cup {m} /\ z \in In(f) \cup {m} /\ g[y] = f[y] /\ g[z] = f[z]
        BY <1>1, <1>2, <1>3, <1>6, <3>2
      <4> QED
        BY <1>1, <1>2, <2>3, <2>4, <3>2, <4>1
    <3> QED
      BY <3>1, <3>2
  <2> QED
    BY <2>1, <2>4 DEF ChainOK
<1>11. Stable(f, b, g, c)
  <2>1. \A r \in All, y \in Nodes : f[r] = Flagged(y) => Dying(g, c, r, y)
    <3> SUFFICES ASSUME NEW r \in All, NEW y \in Nodes, f[r] = Flagged(y) PROVE g[r] = f[r]
      BY DEF Dying
    <3>1. f[r].flag
      BY FlagFacts
    <3> QED
      BY <1>1, <1>3, <3>1 DEF All
  <2>2. \A r \in Spots(f) : \A y \in After(f, r) : y \in In(g) => y \in After(g, r)
    BY <1>5, <1>6, <1>2 DEF Spots, In
  <2>3. \A y \in Was(f) : From(g, y) \subseteq From(f, y)
    BY <1>2, <1>4
  <2>4. \A y \in Nodes : f[y].mark => g[y] = f[y]
    BY <1>3
  <2>5. Was(f) \cap In(g) \subseteq In(f)
    BY <1>1, <1>6
  <2> QED
    BY <1>1, <1>7, <1>8, <2>1, <2>2, <2>3, <2>4, <2>5, StableIf
<1>12. BacklinksOK(g, c)
  BY <1>1, <1>11, BacklinksStay
<1> QED
  BY <1>3, <1>6, <1>7, <1>8, <1>9, <1>10, <1>11, <1>12 DEF HeapOK

-----------------------------------------------------------------------------
(* The chain of NonBlockingList is what the head leads to. *)

\* A set of numbers with 0 and the successor of each is all of them.
LEMMA Induction ==
  ASSUME NEW S \in SUBSET Nat, 0 \in S, \A i \in S : i + 1 \in S
  PROVE  S = Nat
<1> DEFINE Less == {pair \in Nat \X Nat : pair[1] < pair[2]}
           T == Nat \ S
<1> SUFFICES ASSUME T # {} PROVE FALSE
  OBVIOUS
<1>1. IsWellFoundedOn(Less, Nat)
  BY NatLessThanWellFounded DEF OpToRel
<1>2. PICK k \in T : \A m \in T : ~(<<m, k>> \in Less)
  <2> HIDE DEF Less
  <2> T \subseteq Nat
    OBVIOUS
  <2> HIDE DEF T
  <2> QED
    BY <1>1, WFMin
<1>3. k # 0 /\ k - 1 \in Nat
  OBVIOUS
<1>4. k - 1 \notin T
  <2>1. <<k - 1, k>> \in Less
    BY <1>3
  <2> QED
    BY <1>2, <2>1
<1>5. k - 1 + 1 \in S
  BY <1>3, <1>4
<1> QED
  BY <1>3, <1>5

\* Where a walk along the pointers of f, from x, is after i steps.
Onward(f, y) == IF y = Null THEN Null ELSE f[y].ptr
Walk(w, f, x, N) == w = [i \in 0 .. N |-> IF i = 0 THEN x ELSE Onward(f, w[i - 1])]

LEMMA WalkExists ==
  ASSUME NEW f, NEW x, NEW N \in Nat
  PROVE  \E w : Walk(w, f, x, N)
<1> DEFINE Is(w, m) == w = [i \in 0 .. m |-> IF i = 0 THEN x ELSE Onward(f, w[i - 1])]
           S == {m \in Nat : \E w : Is(w, m)}
<1>1. 0 \in S
  <2>1. Is([i \in 0 .. 0 |-> x], 0)
    OBVIOUS
  <2> QED
    BY <2>1
<1>2. ASSUME NEW m \in S PROVE m + 1 \in S
  <2>1. PICK w : Is(w, m)
    OBVIOUS
  <2>2. DOMAIN w = 0 .. m /\ w[0] = x /\ \A i \in 1 .. m : w[i] = Onward(f, w[i - 1])
    BY <2>1
  <2> DEFINE v == [i \in 0 .. m + 1 |-> IF i = m + 1 THEN Onward(f, w[m]) ELSE w[i]]
  <2>3. \A i \in 0 .. m + 1 : v[i] = IF i = 0 THEN x ELSE Onward(f, v[i - 1])
    BY <2>2
  <2>4. v = [i \in 0 .. m + 1 |-> IF i = 0 THEN x ELSE Onward(f, v[i - 1])]
    BY <2>3
  <2> HIDE DEF v
  <2>5. Is(v, m + 1)
    BY <2>4
  <2> QED
    BY <2>5
<1>3. S = Nat
  <2> HIDE DEF S
  <2> QED
    BY <1>1, <1>2, Induction DEF S
<1> QED
  BY <1>3 DEF Walk

LEMMA WalkSteps ==
  ASSUME NEW f, NEW x, NEW N \in Nat, NEW w, Walk(w, f, x, N)
  PROVE  w[0] = x /\ \A i \in 1 .. N : w[i] = Onward(f, w[i - 1])
<1>1. \A i \in 0 .. N : w[i] = IF i = 0 THEN x ELSE Onward(f, w[i - 1])
  BY DEF Walk
<1> QED
  BY <1>1

\* A walk along the list stays in it, and never comes to a node again.
LEMMA WalkWithin ==
  ASSUME NEW f, NEW b, HeapOK(f, b), NEW N \in Nat, NEW w, Walk(w, f, f[List].ptr, N)
  PROVE  /\ \A i \in 0 .. N : w[i] \in In(f) \cup {Null}
         /\ \A i, j \in 0 .. N : i < j /\ w[i] # Null => w[i] # w[j]
<1>1. w[0] = f[List].ptr /\ \A i \in 1 .. N : w[i] = Onward(f, w[i - 1])
  BY WalkSteps
<1>2. Closed(f, In(f)) /\ f[List].ptr \in In(f) \cup {Null}
  BY ListFacts DEF HeapOK
<1>3. /\ Null \notin Nodes /\ \A x \in Nodes : f[x].ptr \in Nodes \cup {Null}
      /\ \A x \in Nodes : x \notin After(f, x)
  BY HeapFacts DEF HeapOK, ChainOK, All
<1> DEFINE S == {i \in Nat : i <= N => w[i] \in In(f) \cup {Null}}
<1>4. 0 \in S
  BY <1>1, <1>2
<1>5. ASSUME NEW i \in S PROVE i + 1 \in S
  <2> SUFFICES ASSUME i + 1 <= N PROVE w[i + 1] \in In(f) \cup {Null}
    OBVIOUS
  <2>1. i + 1 \in 1 .. N /\ i + 1 - 1 = i /\ w[i] \in In(f) \cup {Null}
    OBVIOUS
  <2>2. w[i + 1] = Onward(f, w[i])
    BY <1>1, <2>1
  <2> QED
    BY <1>2, <2>1, <2>2 DEF Onward, Closed
<1>6. S = Nat
  <2> HIDE DEF S
  <2> QED
    BY <1>4, <1>5, Induction DEF S
<1>7. \A i \in 0 .. N : w[i] \in In(f) \cup {Null}
  BY <1>6
<1>8. ASSUME NEW i \in 0 .. N, NEW j \in 0 .. N, i < j, w[i] # Null
      PROVE  w[i] # w[j]
  <2>1. w[i] \in Nodes
    BY <1>2, <1>7, <1>8 DEF Closed
  <2> DEFINE T == {k \in Nat : i + 1 + k <= N => w[i + 1 + k] \in After(f, w[i]) \cup {Null}}
  <2>2. Closed(f, After(f, w[i])) /\ f[w[i]].ptr \in After(f, w[i]) \cup {Null}
    BY <1>3, <2>1, FromClosed DEF After
  <2>3. 0 \in T
    <3>1. i + 1 <= N => i + 1 \in 1 .. N /\ i + 1 - 1 = i /\ i + 1 + 0 = i + 1
      OBVIOUS
    <3> QED
      BY <1>1, <1>8, <2>2, <3>1 DEF Onward
  <2>4. ASSUME NEW k \in T PROVE k + 1 \in T
    <3> SUFFICES ASSUME i + 1 + (k + 1) <= N PROVE w[i + 1 + (k + 1)] \in After(f, w[i]) \cup {Null}
      OBVIOUS
    <3>1. /\ i + 1 + k + 1 \in 1 .. N /\ i + 1 + k + 1 - 1 = i + 1 + k /\ i + 1 + (k + 1) = i + 1 + k + 1
          /\ w[i + 1 + k] \in After(f, w[i]) \cup {Null}
      OBVIOUS
    <3>2. w[i + 1 + k + 1] = Onward(f, w[i + 1 + k])
      BY <1>1, <3>1
    <3> QED
      BY <2>2, <3>1, <3>2 DEF Onward, Closed
  <2>5. T = Nat
    <3> HIDE DEF T
    <3> QED
      BY <2>3, <2>4, Induction DEF T
  <2>6. j - (i + 1) \in Nat /\ i + 1 + (j - (i + 1)) = j
    BY <1>8
  <2>7. j - (i + 1) \in T
    <3> HIDE DEF T
    <3> QED
      BY <2>5, <2>6
  <2>8. w[j] \in After(f, w[i]) \cup {Null}
    BY <2>6, <2>7
  <2> QED
    BY <1>3, <1>8, <2>1, <2>8
<1> QED
  BY <1>7, <1>8

\* So it ends.
LEMMA WalkEnds ==
  ASSUME NEW f, NEW b, HeapOK(f, b), NEW N \in Nat, N = Cardinality(Nodes),
         NEW w, Walk(w, f, f[List].ptr, N)
  PROVE  \E i \in 0 .. N : w[i] = Null /\ \A j \in 0 .. i - 1 : w[j] # Null
<1>1. \E i \in 0 .. N : w[i] = Null
  <2> SUFFICES ASSUME \A i \in 0 .. N : w[i] # Null PROVE FALSE
    OBVIOUS
  <2>1. /\ \A i \in 0 .. N : w[i] \in Nodes
        /\ \A i, j \in 0 .. N : i < j => w[i] # w[j]
    BY WalkWithin, HeapFacts DEF HeapOK
  <2>2. IsFiniteSet(0 .. N) /\ Cardinality(0 .. N) = N + 1
    <3>1. 0 \in Int /\ N \in Int /\ (IF 0 > N THEN 0 ELSE N - 0 + 1) = N + 1
      OBVIOUS
    <3> QED
      BY <3>1, FS_Interval
  <2>3. [i \in 0 .. N |-> w[i]] \in [0 .. N -> Nodes] /\ IsFiniteSet(Nodes) /\ Cardinality(Nodes) < Cardinality(0 .. N)
    BY <2>1, <2>2, NodesAssumption
  <2>4. PICK v : v = [i \in 0 .. N |-> w[i]]
    OBVIOUS
  <2>5. \E i, j \in 0 .. N : i # j /\ v[i] = v[j]
    BY <2>2, <2>3, <2>4, FS_PigeonHole
  <2>6. PICK i \in 0 .. N, j \in 0 .. N : i # j /\ w[i] = w[j]
    BY <2>4, <2>5
  <2>7. i < j \/ j < i
    BY <2>6
  <2> QED
    BY <2>1, <2>6, <2>7
<1> DEFINE Less == {pair \in Nat \X Nat : pair[1] < pair[2]}
           T == {i \in 0 .. N : w[i] = Null}
<1>2. IsWellFoundedOn(Less, Nat)
  BY NatLessThanWellFounded DEF OpToRel
<1>3. PICK e \in T : \A m \in T : ~(<<m, e>> \in Less)
  <2> HIDE DEF Less
  <2> T \subseteq Nat /\ T # {}
    BY <1>1
  <2> HIDE DEF T
  <2> QED
    BY <1>2, WFMin
<1>4. \A j \in 0 .. e - 1 : w[j] # Null
  <2> SUFFICES ASSUME NEW j \in 0 .. e - 1, w[j] = Null PROVE FALSE
    OBVIOUS
  <2>1. j \in T /\ <<j, e>> \in Less
    OBVIOUS
  <2> QED
    BY <1>3, <2>1
<1> QED
  BY <1>3, <1>4

LEMMA ChainIsWalk ==
  ASSUME HeapOK(next, backlink)
  PROVE  \E N \in Nat : \E w : \E e \in 0 .. N :
           /\ Walk(w, next, next[List].ptr, N)
           /\ w[e] = Null /\ \A j \in 0 .. e - 1 : w[j] # Null
           /\ Chain = [i \in 1 .. e |-> w[i - 1]]
<1>1. PICK N \in Nat : N = Cardinality(Nodes)
  BY NodesAssumption, FS_CardinalityType
<1> DEFINE w == CHOOSE v : Walk(v, next, next[List].ptr, N)
           e == CHOOSE i \in 0 .. N : w[i] = Null /\ \A j \in 0 .. i - 1 : w[j] # Null
<1>2. Walk(w, next, next[List].ptr, N)
  BY WalkExists
<1>3. Chain = [i \in 1 .. e |-> w[i - 1]]
  BY <1>1 DEF Chain, Walk, Onward
<1> HIDE DEF w
<1>4. \E i \in 0 .. N : w[i] = Null /\ \A j \in 0 .. i - 1 : w[j] # Null
  BY <1>1, <1>2, WalkEnds
<1>5. e \in 0 .. N /\ w[e] = Null /\ \A j \in 0 .. e - 1 : w[j] # Null
  BY <1>4
<1> HIDE DEF e
<1> QED
  BY <1>2, <1>3, <1>5

LEMMA LinkedIsIn ==
  ASSUME HeapOK(next, backlink)
  PROVE  Linked = In(next) /\ Pushed = Was(next)
<1>9. PICK N \in Nat : \E w : \E e \in 0 .. N :
           /\ Walk(w, next, next[List].ptr, N)
           /\ w[e] = Null /\ \A j \in 0 .. e - 1 : w[j] # Null
           /\ Chain = [i \in 1 .. e |-> w[i - 1]]
  BY ChainIsWalk
<1>10. PICK w : \E e \in 0 .. N :
           /\ Walk(w, next, next[List].ptr, N)
           /\ w[e] = Null /\ \A j \in 0 .. e - 1 : w[j] # Null
           /\ Chain = [i \in 1 .. e |-> w[i - 1]]
  BY <1>9
<1>1. PICK e \in 0 .. N :
           /\ Walk(w, next, next[List].ptr, N)
           /\ w[e] = Null /\ \A j \in 0 .. e - 1 : w[j] # Null
           /\ Chain = [i \in 1 .. e |-> w[i - 1]]
  BY <1>10
<1>2. Linked = {w[i] : i \in 0 .. e - 1}
  <2>1. DOMAIN Chain = 1 .. e /\ \A i \in 1 .. e : Chain[i] = w[i - 1]
    BY <1>1
  <2>2. \A i \in 0 .. e - 1 : i + 1 \in 1 .. e /\ i + 1 - 1 = i
    BY <1>1
  <2>3. \A i \in 1 .. e : i - 1 \in 0 .. e - 1
    BY <1>1
  <2>4. Linked = {Chain[i] : i \in 1 .. e}
    BY <2>1 DEF Linked
  <2>5. \A i \in 0 .. e - 1 : Chain[i + 1] = w[i] /\ i + 1 \in 1 .. e
    BY <2>1, <2>2
  <2>6. {w[i] : i \in 0 .. e - 1} \subseteq Linked
    BY <2>4, <2>5
  <2>7. Linked \subseteq {w[i] : i \in 0 .. e - 1}
    BY <2>1, <2>3, <2>4
  <2> QED
    BY <2>6, <2>7
<1>3. w[0] = next[List].ptr /\ \A i \in 1 .. N : w[i] = Onward(next, w[i - 1])
  BY <1>1, WalkSteps
<1>4. \A i \in 0 .. N : w[i] \in In(next) \cup {Null}
  BY <1>1, WalkWithin
<1>5. Linked \subseteq In(next)
  BY <1>1, <1>2, <1>4
<1>6. Closed(next, Linked)
  <2>1. ASSUME NEW x \in Linked PROVE next[x].ptr \in Linked \cup {Null}
    <3>1. PICK i \in 0 .. e - 1 : x = w[i]
      BY <1>2
    <3>2. i + 1 \in 1 .. N /\ i + 1 - 1 = i /\ (i + 1 = e \/ i + 1 \in 0 .. e - 1)
      BY <1>1
    <3>3. w[i + 1] = next[x].ptr
      BY <1>1, <1>3, <3>1, <3>2 DEF Onward
    <3> QED
      BY <1>1, <1>2, <3>2, <3>3
  <2> QED
    BY <1>5, <2>1, HeapFacts DEF Closed, HeapOK
<1>7. next[List].ptr \in Linked \cup {Null}
  <2>1. e = 0 \/ 0 \in 0 .. e - 1
    BY <1>1
  <2> QED
    BY <1>1, <1>2, <1>3, <2>1
<1>8. In(next) \subseteq Linked
  BY <1>6, <1>7, FromLeast DEF In, After
<1> QED
  BY <1>5, <1>8 DEF Pushed, Was

-----------------------------------------------------------------------------
(* What a thread knows *)

\* No other thread's call is touched by a step of t.
OthersStay(t) ==
  \A u \in Threads : u # t =>
    /\ pc'[u] = pc[u] /\ todo'[u] = todo[u] /\ p'[u] = p[u] /\ pval'[u] = pval[u]
    /\ n'[u] = n[u] /\ nval'[u] = nval[u] /\ top'[u] = top[u] /\ got'[u] = got[u]
    /\ prev'[u] = prev[u] /\ cur'[u] = cur[u] /\ stack'[u] = stack[u] /\ found'[u] = found[u]

StepParts(t) ==
  \/ TryFlag(t) \/ FollowBacklink(t) \/ WalkForward(t)
  \/ ClearBegins(t) \/ Mark(t) \/ CutOff(t)
  \/ LookAtTop(t) \/ PushLoad(t) \/ Push(t)
  \/ PopBegins(t) \/ PopEmpty(t) \/ PopSkips(t) \/ PopFlags(t)
  \/ DelBegins(t) \/ DelNotFound(t) \/ DelLooks(t) \/ DelHelps(t)
  \/ SweepBegins(t) \/ SkipDead(t) \/ IterNext(t) \/ DelAt(t) \/ DelAtParent(t)

LEMMA FrameTyped ==
  ASSUME NEW F, NEW s \in Seq(F), NEW i \in DOMAIN s
  PROVE  s[i] \in F
OBVIOUS

\* The values that a thread handles are nodes and words.
LEMMA LocalFacts ==
  ASSUME IInv, NEW t \in Threads
  PROVE  /\ next \in [All -> Words] /\ backlink \in [All -> All \cup {Null}]
         /\ \A x \in All : next[x] \in Words /\ next[x].ptr \in Nodes \cup {Null}
         /\ pval[t] \in Words /\ pval[t].ptr \in Nodes \cup {Null} /\ nval[t] \in Words
         /\ pc[t] \in {"flag", "back", "forward", "del", "help", "pop", "parent"} => p[t] \in All
         /\ pc[t] = "back" => backlink[p[t]] \in All
         /\ pc[t] \in {"flag", "back", "forward", "del", "help", "parent"} => n[t] \in Nodes
         /\ pc[t] \in ClearPlaces =>
              /\ Len(stack[t]) \in Nat \ {0} /\ 1 \in DOMAIN stack[t]
              /\ stack[t][1] \in [prev : All, n : Nodes]
              /\ stack[t][1].prev \in All /\ stack[t][1].n \in Nodes
              /\ Tail(stack[t]) \in Seq([prev : All, n : Nodes])
<1> USE DEF IInv, ThreadOK
<1>1. /\ next \in [All -> Words] /\ backlink \in [All -> All \cup {Null}]
      /\ pval[t] \in Words /\ nval[t] \in Words /\ stack[t] \in Seq([prev : All, n : Nodes])
      /\ p[t] \in All \cup {Null}
  BY DEF HeapOK, HeapTyped, LocalsTyped
<1>2. \A x \in All : next[x] \in Words /\ next[x].ptr \in Nodes \cup {Null}
  BY <1>1 DEF Words
<1>3. Was(next) \subseteq Nodes /\ Spots(next) \subseteq All /\ Null \notin All
  BY HeapFacts DEF HeapOK
<1>4. pc[t] \in {"flag", "back", "forward", "del", "help", "pop", "parent"} => p[t] \in All
  BY <1>3 DEF SeesOK, Seen, SearchOK
<1>5. pc[t] = "back" => backlink[p[t]] \in All
  <2> SUFFICES ASSUME pc[t] = "back" PROVE backlink[p[t]] \in All
    OBVIOUS
  <2>1. p[t] \in Nodes /\ next[p[t]].mark
    BY <1>4 DEF SearchOK, All
  <2>2. backlink[p[t]] # Null
    BY <2>1 DEF HeapOK, BitsOK
  <2> QED
    BY <1>1, <2>1, <2>2 DEF All
<1>6. pc[t] \in {"flag", "back", "forward", "del", "help", "parent"} => n[t] \in Nodes
  BY <1>3 DEF SearchOK
<1>7. pc[t] \in ClearPlaces =>
              /\ Len(stack[t]) \in Nat \ {0} /\ 1 \in DOMAIN stack[t]
              /\ stack[t][1] \in [prev : All, n : Nodes]
              /\ stack[t][1].prev \in All /\ stack[t][1].n \in Nodes
              /\ Tail(stack[t]) \in Seq([prev : All, n : Nodes])
  <2> SUFFICES ASSUME stack[t] # << >>
               PROVE  /\ Len(stack[t]) \in Nat \ {0} /\ 1 \in DOMAIN stack[t]
                      /\ stack[t][1] \in [prev : All, n : Nodes]
                      /\ stack[t][1].prev \in All /\ stack[t][1].n \in Nodes
                      /\ Tail(stack[t]) \in Seq([prev : All, n : Nodes])
    BY DEF StackOK
  <2>1. Len(stack[t]) \in Nat \ {0} /\ 1 \in DOMAIN stack[t]
    BY <1>1
  <2>2. stack[t][1] \in [prev : All, n : Nodes]
    BY <1>1, <2>1, FrameTyped
  <2>3. Tail(stack[t]) \in Seq([prev : All, n : Nodes])
    BY <1>1
  <2> QED
    BY <2>1, <2>2, <2>3
<1>8. pval[t].ptr \in Nodes \cup {Null}
  BY <1>1 DEF Words
<1> QED
  BY <1>1, <1>2, <1>4, <1>5, <1>6, <1>7, <1>8

LEMMA OthersKept ==
  ASSUME IInv, NEW t \in Threads, StepParts(t)
  PROVE  OthersStay(t)
<1> USE DEF IInv, LocalsTyped, OthersStay, Set, Goto, locals, iter, history
<1>1. CASE TryFlag(t)
  BY <1>1 DEF TryFlag, CallClearFlag, SearchFrom
<1>2. CASE FollowBacklink(t)
  BY <1>2 DEF FollowBacklink, SearchFrom
<1>3. CASE WalkForward(t)
  BY <1>3 DEF WalkForward, Return, Forget
<1>4. CASE ClearBegins(t)
  BY <1>4 DEF ClearBegins
<1>5. CASE Mark(t)
  BY <1>5 DEF Mark, CallClearFlag
<1>6. CASE CutOff(t)
  BY <1>6 DEF CutOff, ClearReturns, Return, Forget
<1>7. CASE LookAtTop(t)
  BY <1>7 DEF LookAtTop
<1>8. CASE PushLoad(t)
  BY <1>8 DEF PushLoad, CallClearFlag
<1>9. CASE Push(t)
  BY <1>9 DEF Push, Return, Forget
<1>10. CASE PopBegins(t)
  BY <1>10 DEF PopBegins
<1>11. CASE PopEmpty(t)
  BY <1>11 DEF PopEmpty, Return, Forget
<1>12. CASE PopSkips(t)
  BY <1>12 DEF PopSkips
<1>13. CASE PopFlags(t)
  BY <1>13 DEF PopFlags, CallClearFlag
<1>14. CASE DelBegins(t)
  BY <1>14 DEF DelBegins
<1>15. CASE DelNotFound(t)
  BY <1>15 DEF DelNotFound, Return, Forget
<1>16. CASE DelLooks(t)
  BY <1>16 DEF DelLooks, DelGoesOn
<1>17. CASE DelHelps(t)
  BY <1>17 DEF DelHelps, DelGoesOn, Return, Forget
<1>18. CASE SweepBegins(t)
  BY <1>18 DEF SweepBegins
<1>19. CASE SkipDead(t)
  BY <1>19 DEF SkipDead
<1>20. CASE IterNext(t)
  BY <1>20 DEF IterNext
<1>21. CASE DelAt(t)
  BY <1>21 DEF DelAt
<1>22. CASE DelAtParent(t)
  BY <1>22 DEF DelAtParent
<1> QED
  BY <1>1, <1>2, <1>3, <1>4, <1>5, <1>6, <1>7, <1>8, <1>9, <1>10, <1>11, <1>12, <1>13, <1>14,
     <1>15, <1>16, <1>17, <1>18, <1>19, <1>20, <1>21, <1>22 DEF StepParts

LEMMA JobFacts ==
  ASSUME IInv, NEW t \in Threads
  PROVE  /\ todo[t] \in Seq(Names)
         /\ pc[t] # "idle" => todo[t] # << >> /\ Tail(todo[t]) \in Seq(Names)
         /\ todo[t] # << >> => todo[t][1] \in Names
         /\ \A job \in Names : Job(t, job) => Tail(todo[t]) \in Seq(Names) /\ pc[t] \in PlacesOf(job)
<1>1. todo[t] \in Seq(Names)
  BY DEF IInv, LocalsTyped
<1>2. pc[t] # "idle" => todo[t] # << >>
  BY DEF IInv, ThreadOK, PlaceOK
<1>3. todo[t] # << >> => todo[t][1] \in Names /\ Tail(todo[t]) \in Seq(Names)
  <2> SUFFICES ASSUME todo[t] # << >> PROVE todo[t][1] \in Names /\ Tail(todo[t]) \in Seq(Names)
    OBVIOUS
  <2>1. 1 \in DOMAIN todo[t]
    BY <1>1
  <2>2. todo[t][1] \in Names
    BY <1>1, <2>1, FrameTyped
  <2> QED
    BY <1>1, <2>2
<1>4. \A job \in Names : Job(t, job) => todo[t] # << >> /\ pc[t] \in PlacesOf(job)
  BY DEF Job, IInv, ThreadOK, PlaceOK
<1> QED
  BY <1>1, <1>2, <1>3, <1>4

\* A sweep is at a node.
LEMMA PlaceOfAt ==
  ASSUME IInv, NEW t \in Threads, pc[t] = "at"
  PROVE  Job(t, "sweep") /\ cur[t] # Null /\ cur[t] \in Nodes
<1>1. todo[t] # << >> /\ todo[t][1] \in Names
  BY JobFacts
<1>2. Job(t, "sweep")
  <2>1. \A job \in Names : todo[t][1] = job => "at" \in PlacesOf(job)
    BY <1>1, JobFacts DEF Job
  <2> QED
    BY <1>1, <2>1 DEF Job, Names, PlacesOf, ClearPlaces
<1>3. cur[t] # Null
  BY <1>2 DEF IInv, ThreadOK, IterOK
<1> QED
  BY <1>2, <1>3 DEF IInv, LocalsTyped

LEMMA PlainTyped ==
  /\ \A x \in Nodes \cup {Null} : Plain(x) \in Words /\ Flagged(x) \in Words
  /\ \A w \in Words : [w EXCEPT !.mark = TRUE] \in Words
BY DEF Plain, Flagged, Word, Words

LEMMA EmptiedTyped ==
  ASSUME IInv, NEW t \in Threads
  PROVE  /\ [stack EXCEPT ![t] = << >>] \in [Threads -> Seq([prev : All, n : Nodes])]
         /\ pc[t] \in ClearPlaces =>
              [stack EXCEPT ![t] = Tail(stack[t])] \in [Threads -> Seq([prev : All, n : Nodes])]
<1>1. PICK F : F = [prev : All, n : Nodes]
  OBVIOUS
<1>2. stack \in [Threads -> Seq(F)]
  BY <1>1 DEF IInv, LocalsTyped
<1>4. << >> \in Seq(F)
  OBVIOUS
<1>3. pc[t] \in ClearPlaces => Tail(stack[t]) \in Seq(F)
  BY <1>1, LocalFacts
<1> QED
  BY <1>1, <1>2, <1>3, <1>4

\* The variables of a call, without those that a return changes.
ReturnedTyped ==
  /\ pc' \in [Threads -> Places] /\ todo' \in [Threads -> Seq(Names)]
  /\ p' \in [Threads -> All \cup {Null}] /\ pval' \in [Threads -> Words]
  /\ n' \in [Threads -> Nodes \cup {Null}] /\ nval' \in [Threads -> Words]
  /\ top' \in [Threads -> Nodes \cup {Null}] /\ got' \in [Threads -> BOOLEAN]
  /\ prev' \in [Threads -> All \cup {Null}] /\ cur' \in [Threads -> Nodes \cup {Null}]
  /\ stack' \in [Threads -> Seq([prev : All, n : Nodes])]
  /\ found' \in [Threads -> SUBSET Nodes]

LEMMA ReturnTyped ==
  ASSUME IInv, NEW t \in Threads, pc[t] # "idle", Return(t)
  PROVE  ReturnedTyped
<1> USE DEF IInv, LocalsTyped, Return, Forget, Set, Goto, iter
<1>1. Tail(todo[t]) \in Seq(Names)
  BY JobFacts
<1>2. pc' \in [Threads -> Places] /\ todo' \in [Threads -> Seq(Names)]
  BY <1>1 DEF Places
<1>3. p' \in [Threads -> All \cup {Null}] /\ pval' \in [Threads -> Words]
  BY PlainTyped
<1>4. n' \in [Threads -> Nodes \cup {Null}] /\ nval' \in [Threads -> Words]
  BY PlainTyped
<1>5. /\ top' \in [Threads -> Nodes \cup {Null}] /\ got' \in [Threads -> BOOLEAN]
      /\ prev' \in [Threads -> All \cup {Null}] /\ cur' \in [Threads -> Nodes \cup {Null}]
      /\ found' \in [Threads -> SUBSET Nodes]
  BY DEF All
<1>6. stack' \in [Threads -> Seq([prev : All, n : Nodes])]
  BY EmptiedTyped
<1> QED
  BY <1>2, <1>3, <1>4, <1>5, <1>6 DEF ReturnedTyped

LEMMA CallTyped ==
  ASSUME IInv, NEW t \in Threads, NEW q \in All, NEW x \in Nodes, CallClearFlag(t, q, x)
  PROVE  pc' \in [Threads -> Places] /\ stack' \in [Threads -> Seq([prev : All, n : Nodes])]
<1>1. [prev |-> q, n |-> x] \in [prev : All, n : Nodes] /\ stack[t] \in Seq([prev : All, n : Nodes])
  BY DEF IInv, LocalsTyped
<1>2. PICK F : F = [prev : All, n : Nodes]
  OBVIOUS
<1>3. <<[prev |-> q, n |-> x]>> \o stack[t] \in Seq(F)
  BY <1>1, <1>2
<1>4. stack \in [Threads -> Seq(F)] /\ pc \in [Threads -> Places]
  BY <1>2 DEF IInv, LocalsTyped
<1> QED
  BY <1>2, <1>3, <1>4 DEF CallClearFlag, Goto, Set, Places

LEMMA SearchTyped ==
  ASSUME IInv, NEW t \in Threads, NEW q \in All, SearchFrom(t, q, next[q])
  PROVE  /\ pc' \in [Threads -> Places] /\ p' \in [Threads -> All \cup {Null}] /\ pval' \in [Threads -> Words]
         /\ UNCHANGED <<n, nval, top, got>>
<1>1. next[q] \in Words
  BY LocalFacts
<1> QED
  BY <1>1 DEF IInv, LocalsTyped, SearchFrom, Goto, Set, Places

LEMMA LocalsStayTyped ==
  ASSUME IInv, NEW t \in Threads, StepParts(t)
  PROVE  LocalsTyped'
<1> USE DEF locals, iter, history
<1>0. LocalsTyped /\ pc \in [Threads -> Places]
  BY DEF IInv, LocalsTyped
<1>1. CASE TryFlag(t)
  <2>1. pc[t] = "flag" /\ p[t] \in All /\ n[t] \in Nodes /\ UNCHANGED <<todo, prev, cur, claims, found, n, nval, top>>
    BY <1>1, LocalFacts DEF TryFlag, SearchFrom
  <2>2. CASE SearchFrom(t, p[t], next[p[t]]) /\ UNCHANGED stack
    BY <1>0, <2>1, <2>2, SearchTyped DEF LocalsTyped
  <2>3. CASE CallClearFlag(t, p[t], n[t]) /\ UNCHANGED <<p, pval>> /\ (got' = Set(got, t, TRUE) \/ UNCHANGED got)
    BY <1>0, <2>1, <2>3, CallTyped DEF LocalsTyped, Set
  <2> QED
    BY <1>1, <2>2, <2>3 DEF TryFlag
<1>2. CASE FollowBacklink(t)
  <2>1. backlink[p[t]] \in All
    BY <1>2, LocalFacts DEF FollowBacklink
  <2> QED
    BY <1>0, <1>2, <2>1, SearchTyped DEF FollowBacklink, LocalsTyped
<1>3. CASE WalkForward(t)
  <2>1. claims' = claims /\ pc[t] = "forward"
    BY <1>3 DEF WalkForward
  <2>4. pval[t].ptr \in Nodes
    BY <2>1, LocalFacts DEF IInv, ThreadOK, SearchOK
  <2>2. CASE Return(t)
    BY <1>0, <2>1, <2>2, ReturnTyped DEF ReturnedTyped, LocalsTyped
  <2>3. CASE ~Return(t)
    <3>1. next[pval[t].ptr] \in Words /\ pval[t].ptr \in All
      BY <2>4, LocalFacts DEF All
    <3> QED
      BY <1>0, <1>3, <2>1, <2>3, <3>1 DEF WalkForward, LocalsTyped, Goto, Set, Places
  <2> QED
    BY <2>2, <2>3
<1>4. CASE ClearBegins(t)
  BY <1>0, <1>4 DEF ClearBegins, LocalsTyped, Goto, Places
<1>5. CASE Mark(t)
  <2>1. stack[t][1].n \in Nodes /\ next[stack[t][1].n] \in Words /\ next[stack[t][1].n].ptr \in Nodes \cup {Null}
    BY <1>5, LocalFacts DEF Mark, ClearPlaces, All
  <2>2. CASE CallClearFlag(t, stack[t][1].n, next[stack[t][1].n].ptr) /\ next[stack[t][1].n].flag /\ UNCHANGED nval
    <3>1. next[stack[t][1].n].ptr \in Nodes /\ stack[t][1].n \in All
      BY <2>1, <2>2 DEF IInv, HeapOK, BitsOK, All
    <3> QED
      BY <1>0, <1>5, <2>2, <3>1, CallTyped DEF Mark, LocalsTyped
  <2>3. CASE /\ nval' = Set(nval, t, [next[stack[t][1].n] EXCEPT !.mark = TRUE])
             /\ Goto(t, "rend") /\ UNCHANGED stack
    BY <1>0, <1>5, <2>1, <2>3, PlainTyped DEF Mark, LocalsTyped, Goto, Set, Places
  <2> QED
    BY <1>5, <2>2, <2>3 DEF Mark
<1>6. CASE CutOff(t)
  <2>1. pc[t] = "rend" /\ Tail(stack[t]) \in Seq([prev : All, n : Nodes]) /\ n[t] \in Nodes \cup {Null}
    BY <1>6, LocalFacts DEF CutOff, ClearPlaces, IInv, LocalsTyped
  <2>2. CASE Return(t) /\ claims' = IF got[t] THEN Set(claims, n[t], claims[n[t]] + 1) ELSE claims
    <3>2. got[t] => n[t] \in Nodes /\ claims[n[t]] = 0
      <4>1. got[t] => stack[t][Len(stack[t])].n = n[t] /\ claims[n[t]] = 0
        BY DEF IInv, ThreadOK, OwnOK
      <4>2. Len(stack[t]) \in DOMAIN stack[t] /\ stack[t] \in Seq([prev : All, n : Nodes])
        BY <1>0, <2>1, LocalFacts DEF ClearPlaces, LocalsTyped
      <4>3. stack[t][Len(stack[t])] \in [prev : All, n : Nodes]
        BY <4>2, FrameTyped
      <4> QED
        BY <4>1, <4>3
    <3>1. claims' \in [Nodes -> Nat]
      BY <1>0, <2>2, <3>2 DEF LocalsTyped, Set
    <3> QED
      BY <1>0, <2>1, <2>2, <3>1, ReturnTyped DEF ReturnedTyped, LocalsTyped
  <2>3. CASE /\ stack' = Set(stack, t, << >>) \/ stack' = Set(stack, t, Tail(stack[t]))
             /\ Goto(t, "load") \/ Goto(t, "mark")
             /\ UNCHANGED <<todo, locals, iter, history>>
    <3>1. stack' \in [Threads -> Seq([prev : All, n : Nodes])]
      BY <2>1, <2>3, EmptiedTyped DEF ClearPlaces, Set
    <3> QED
      BY <1>0, <2>3, <3>1 DEF LocalsTyped, Goto, Places
  <2> QED
    BY <1>6, <2>2, <2>3 DEF CutOff, ClearReturns
<1>7. CASE LookAtTop(t)
  <2>1. next[List].ptr \in Nodes \cup {Null}
    BY LocalFacts DEF All
  <2>2. n' \in [Threads -> Nodes \cup {Null}]
    BY <1>0, <1>7 DEF LookAtTop, LocalsTyped, Set
  <2> QED
    BY <1>0, <1>7, <2>1, <2>2 DEF LookAtTop, LocalsTyped, Goto, Set, Places
<1>8. CASE PushLoad(t)
  <2>1. next[List] \in Words /\ next[List].ptr \in Nodes \cup {Null} /\ List \in All
    BY LocalFacts DEF All
  <2>2. CASE next[List].flag /\ CallClearFlag(t, List, next[List].ptr) /\ UNCHANGED pval
    <3>1. next[List].ptr \in Nodes
      BY <2>1, <2>2 DEF IInv, HeapOK, BitsOK
    <3> QED
      BY <1>0, <1>8, <2>1, <2>2, <3>1, CallTyped DEF PushLoad, LocalsTyped
  <2>3. CASE pval' = Set(pval, t, next[List]) /\ (Goto(t, "push") \/ Goto(t, "again")) /\ UNCHANGED stack
    BY <1>0, <1>8, <2>1, <2>3 DEF PushLoad, LocalsTyped, Goto, Set, Places
  <2> QED
    BY <1>8, <2>2, <2>3 DEF PushLoad
<1>9. CASE Push(t)
  <2>1. CASE Return(t)
    BY <1>0, <1>9, <2>1, ReturnTyped DEF Push, ReturnedTyped, LocalsTyped
  <2>2. CASE Goto(t, "again") /\ UNCHANGED <<todo, locals, iter, stack, found>>
    BY <1>0, <1>9, <2>2 DEF Push, LocalsTyped, Goto, Places
  <2> QED
    BY <1>9, <2>1, <2>2 DEF Push
<1>10. CASE PopBegins(t)
  <2>1. next[List] \in Words /\ List \in All /\ Linked \subseteq Nodes
    BY LocalFacts, LinkedIsIn, HeapFacts DEF All, IInv, HeapOK
  <2> QED
    BY <1>0, <1>10, <2>1 DEF PopBegins, LocalsTyped, Goto, Set, Places
<1>11. CASE PopEmpty(t)
  BY <1>0, <1>11, ReturnTyped DEF PopEmpty, ReturnedTyped, LocalsTyped
<1>12. CASE PopSkips(t)
  <2>1. pval[t].ptr \in All /\ next[pval[t].ptr] \in Words
    BY <1>12, LocalFacts DEF PopSkips, All
  <2> QED
    BY <1>0, <1>12, <2>1 DEF PopSkips, LocalsTyped, Set
<1>13. CASE PopFlags(t)
  <2>1. p[t] \in All /\ pval[t].ptr \in Nodes /\ next[p[t]] \in Words
    BY <1>13, LocalFacts DEF PopFlags
  <2>2. CASE /\ n' = Set(n, t, pval[t].ptr) /\ got' = Set(got, t, TRUE)
             /\ CallClearFlag(t, p[t], pval[t].ptr) /\ UNCHANGED pval
    BY <1>0, <1>13, <2>1, <2>2, CallTyped DEF PopFlags, LocalsTyped, Set
  <2>3. CASE pval' = Set(pval, t, next[p[t]]) /\ UNCHANGED <<pc, n, got, stack>>
    BY <1>0, <1>13, <2>1, <2>3 DEF PopFlags, LocalsTyped, Set
  <2> QED
    BY <1>13, <2>2, <2>3 DEF PopFlags
<1>14. CASE DelBegins(t)
  <2>1. next[List] \in Words /\ List \in All /\ Pushed \subseteq Nodes
    BY LocalFacts, LinkedIsIn, HeapFacts DEF All, IInv, HeapOK
  <2> QED
    BY <1>0, <1>14, <2>1 DEF DelBegins, LocalsTyped, Goto, Set, Places
<1>15. CASE DelNotFound(t)
  BY <1>0, <1>15, ReturnTyped DEF DelNotFound, ReturnedTyped, LocalsTyped
<1>16. CASE DelLooks(t)
  <2>1. pval[t].ptr \in All /\ next[pval[t].ptr] \in Words
    BY <1>16, LocalFacts DEF DelLooks, All
  <2> QED
    BY <1>0, <1>16, <2>1 DEF DelLooks, DelGoesOn, LocalsTyped, Goto, Set, Places
<1>17. CASE DelHelps(t)
  <2>1. CASE Return(t)
    BY <1>0, <1>17, <2>1, ReturnTyped DEF DelHelps, ReturnedTyped, LocalsTyped
  <2>2. CASE /\ DelGoesOn(t, nval[t]) /\ nval' = Set(nval, t, Plain(Null))
             /\ UNCHANGED <<todo, n, top, got, iter, stack, found>>
    <3>1. nval[t] \in Words /\ Plain(Null) \in Words /\ pval[t].ptr \in All \cup {Null}
      BY LocalFacts, PlainTyped DEF All
    <3> QED
      BY <1>0, <1>17, <2>2, <3>1 DEF DelHelps, DelGoesOn, LocalsTyped, Goto, Set, Places
  <2> QED
    BY <1>17, <2>1, <2>2 DEF DelHelps
<1>18. CASE SweepBegins(t)
  <2>1. next[List].ptr \in Nodes \cup {Null} /\ List \in All
    BY LocalFacts DEF All
  <2> QED
    BY <1>0, <1>18, <2>1 DEF SweepBegins, LocalsTyped, Goto, Set, Places
<1>19. CASE SkipDead(t)
  <2>1. PICK S : S = Seq(Names) /\ Tail(todo[t]) \in S /\ todo \in [Threads -> S]
    BY <1>0, <1>19, JobFacts DEF SkipDead, LocalsTyped
  <2>2. cur[t] # Null => next[cur[t]].ptr \in Nodes \cup {Null}
    BY <1>0, LocalFacts DEF LocalsTyped, All
  <2>3. pc' \in [Threads -> Places] /\ todo' \in [Threads -> S]
    BY <1>0, <1>19, <2>1 DEF SkipDead, Goto, Set, Places
  <2>4. prev' \in [Threads -> All \cup {Null}] /\ cur' \in [Threads -> Nodes \cup {Null}]
    BY <1>0, <1>19, <2>2 DEF SkipDead, LocalsTyped, Set
  <2> QED
    BY <1>0, <1>19, <2>1, <2>3, <2>4 DEF SkipDead, LocalsTyped
<1>20. CASE IterNext(t)
  <2>1. cur[t] \in Nodes \cup {Null} /\ (cur[t] # Null => next[cur[t]].ptr \in Nodes \cup {Null})
    BY <1>0, LocalFacts DEF LocalsTyped, All
  <2>2. cur[t] # Null
    BY <1>20, PlaceOfAt DEF IterNext
  <2> QED
    BY <1>0, <1>20, <2>1, <2>2 DEF IterNext, LocalsTyped, Goto, Set, Places, All
<1>21. CASE DelAt(t)
  <2>1. cur[t] \in Nodes \cup {Null} /\ prev[t] \in All \cup {Null}
    BY <1>0 DEF LocalsTyped
  <2> QED
    BY <1>0, <1>21, <2>1 DEF DelAt, LocalsTyped, Goto, Set, Places
<1>22. CASE DelAtParent(t)
  <2>1. next[p[t]] \in Words
    BY <1>22, LocalFacts DEF DelAtParent
  <2> QED
    BY <1>0, <1>22, <2>1 DEF DelAtParent, LocalsTyped, Goto, Set, Places
<1> QED
  BY <1>1, <1>2, <1>3, <1>4, <1>5, <1>6, <1>7, <1>8, <1>9, <1>10, <1>11, <1>12, <1>13, <1>14,
     <1>15, <1>16, <1>17, <1>18, <1>19, <1>20, <1>21, <1>22 DEF StepParts

-----------------------------------------------------------------------------
(* What the other threads know stays true. *)

LEMMA StableRefl ==
  ASSUME NEW f, NEW b, HeapOK(f, b)
  PROVE  Stable(f, b, f, b)
BY HeapFacts DEF HeapOK, Stable

\* A thread that does nothing still knows what it knew.
LEMMA OtherKeeps ==
  ASSUME IInv, NEW t \in Threads, NEW u \in Threads, u # t, OthersStay(t),
         HeapOK(next', backlink'), Stable(next, backlink, next', backlink'),
         PushOK(t)', OwnOK(t)',
         Pushing(u) => n[u] \notin Was(next') /\ next'[n[u]] = next[n[u]],
         got[u] => claims'[n[u]] = 0
  PROVE  ThreadOK(u)'
<1>1. /\ pc'[u] = pc[u] /\ todo'[u] = todo[u] /\ p'[u] = p[u] /\ pval'[u] = pval[u]
      /\ n'[u] = n[u] /\ nval'[u] = nval[u] /\ top'[u] = top[u] /\ got'[u] = got[u]
      /\ prev'[u] = prev[u] /\ cur'[u] = cur[u] /\ stack'[u] = stack[u] /\ found'[u] = found[u]
  BY DEF OthersStay
<1>2. ThreadOK(u)
  BY DEF IInv
<1>3. /\ Was(next) \subseteq Was(next') /\ Spots(next) \subseteq Spots(next')
      /\ Was(next) \cap In(next') \subseteq In(next)
      /\ Was(next) \subseteq Nodes /\ Spots(next) \subseteq All /\ List \notin Nodes
  BY HeapFacts DEF Stable, Spots, IInv, HeapOK
<1>4. /\ \A x \in Nodes : next[x].mark => next'[x] = next[x]
      /\ \A x \in Was(next) : backlink[x] # Null => backlink'[x] = backlink[x]
      /\ \A q \in All, x \in Nodes : Dying(next, backlink, q, x) => Dying(next', backlink', q, x)
      /\ \A q \in Spots(next), x \in Was(next) : Leads(next, q, x) => Leads(next', q, x)
      /\ \A q \in Spots(next) : \A y \in After(next, q) : y \in In(next') => y \in After(next', q)
      /\ \A x \in Was(next) : \A y \in From(next, x) : y \in In(next') => y \in From(next', x)
  BY DEF Stable
<1>5. PlaceOK(u)'
  BY <1>1, <1>2 DEF ThreadOK, PlaceOK, Job
<1>6. SeesOK(u)'
  <2> SUFFICES ASSUME Seen(u), ~next[List].mark PROVE Seen(u)'
    BY <1>1, <1>2 DEF ThreadOK, SeesOK, IInv, HeapOK, BitsOK
  <2>1. pval[u].mark => next'[p[u]] = next[p[u]]
    BY <1>3, <1>4 DEF Seen, All
  <2> QED
    BY <1>1, <1>3, <1>4, <2>1 DEF Seen
<1>7. SearchOK(u)'
  <2>1. SearchOK(u)
    BY <1>2 DEF ThreadOK
  <2>2. ASSUME pc[u] \in {"flag", "back", "parent"}
        PROVE  n[u] \in Was(next') /\ p[u] \in Spots(next') /\ (n[u] \in In(next') => n[u] \in After(next', p[u]))
    BY <1>3, <1>4, <2>1, <2>2 DEF SearchOK
  <2>3. ASSUME pc[u] \in {"del", "help", "forward"}
        PROVE  n[u] \in Was(next') /\ (n[u] \in In(next') => n[u] \in From(next', pval[u].ptr))
    <3>1. pval[u].ptr = Null => From(next, pval[u].ptr) = {}
      BY FromNull
    <3>2. pval[u].ptr # Null => pval[u].ptr \in Was(next)
      BY <1>2, <2>3 DEF ThreadOK, SeesOK, Seen
    <3> QED
      BY <1>3, <1>4, <2>1, <2>3, <3>1, <3>2 DEF SearchOK
  <2>4. pc[u] = "back" => p[u] # List /\ next'[p[u]].mark
    BY <1>3, <1>4, <2>1 DEF SearchOK, All
  <2>5. pc[u] = "help" => nval[u] = next'[pval[u].ptr]
    <3>1. pc[u] = "help" => pval[u].ptr \in Was(next)
      BY <1>2, <2>1 DEF ThreadOK, SeesOK, Seen, SearchOK
    <3> QED
      BY <1>3, <1>4, <2>1, <3>1 DEF SearchOK
  <2> QED
    BY <1>1, <1>3, <2>1, <2>2, <2>3, <2>4, <2>5 DEF SearchOK
<1>8. PopOK(u)'
  <2> SUFFICES ASSUME pc[u] = "pop", NEW x \in found[u]
               PROVE  /\ x \in Was(next')
                      /\ \/ Doomed(x)' \/ x \in From(next', pval[u].ptr)
                         \/ \E y \in Nodes : next'[y] = Word(x, FALSE, TRUE)
    BY <1>1 DEF PopOK
  <2>1. /\ x \in Was(next)
        /\ \/ Doomed(x) \/ x \in From(next, pval[u].ptr)
           \/ \E y \in Nodes : next[y] = Word(x, FALSE, TRUE)
    BY <1>2 DEF ThreadOK, PopOK
  <2>2. CASE Doomed(x)
    <3>1. CASE next[x].mark
      BY <1>3, <1>4, <2>1, <3>1 DEF Doomed
    <3>2. CASE \E q \in Nodes \cup {List} : next[q] = Flagged(x)
      <4>1. PICK q \in All : next[q] = Flagged(x)
        BY <3>2 DEF All
      <4>2. Dying(next', backlink', q, x)
        BY <1>3, <1>4, <2>1, <4>1 DEF Dying
      <4> QED
        BY <1>3, <2>1, <4>2 DEF Dying, Gone, Doomed, All
    <3> QED
      BY <2>2, <3>1, <3>2 DEF Doomed
  <2>3. CASE x \in From(next, pval[u].ptr)
    <3>1. pval[u].ptr \in Was(next)
      <4>1. pval[u].ptr # Null
        BY <2>3, FromNull
      <4> QED
        BY <1>2, <4>1 DEF ThreadOK, SeesOK, Seen
    <3>2. CASE x \in In(next')
      BY <1>3, <1>4, <2>1, <2>3, <3>1, <3>2
    <3>3. CASE x \notin In(next')
      BY <1>3, <2>1, <3>3 DEF Was, Doomed
    <3> QED
      BY <3>2, <3>3
  <2>4. CASE \E y \in Nodes : next[y] = Word(x, FALSE, TRUE)
    <3>1. PICK y \in Nodes : next[y] = Word(x, FALSE, TRUE)
      BY <2>4
    <3>2. next'[y] = next[y]
      BY <1>4, <3>1 DEF Word
    <3> QED
      BY <1>3, <2>1, <3>1, <3>2
  <2> QED
    BY <2>1, <2>2, <2>3, <2>4
<1>9. IterOK(u)'
  BY <1>1, <1>2, <1>3, <1>4 DEF ThreadOK, IterOK, Job
<1>10. PushOK(u)'
  <2>1. PushOK(u) /\ (Pushing(u)' <=> Pushing(u))
    BY <1>1, <1>2 DEF ThreadOK, Pushing, Job
  <2>2. ASSUME Pushing(u), NEW v \in Threads, Pushing(v)', n'[v] = n'[u] PROVE v = u
    <3>1. CASE v = t
      BY <1>1, <2>1, <2>2, <3>1 DEF PushOK
    <3>2. CASE v # t
      <4>1. Pushing(v) /\ n'[v] = n[v]
        BY <2>2, <3>2 DEF OthersStay, Pushing, Job
      <4> QED
        BY <1>1, <2>1, <2>2, <4>1 DEF PushOK
    <3> QED
      BY <3>1, <3>2
  <2>3. pc[u] = "push" => Pushing(u)
    <3> SUFFICES ASSUME pc[u] = "push" PROVE Job(u, "push")
      BY DEF Pushing
    <3>1. todo[u] # << >> /\ todo[u][1] \in Names
      BY JobFacts
    <3>2. \A job \in Names : todo[u][1] = job => "push" \in PlacesOf(job)
      BY <3>1, JobFacts DEF Job
    <3> QED
      BY <3>1, <3>2 DEF Job, Names, PlacesOf, ClearPlaces
  <2> QED
    BY <1>1, <2>1, <2>2, <2>3 DEF PushOK
<1>11. StackOK(u)'
  <2>1. StackOK(u)
    BY <1>2 DEF ThreadOK
  <2>2. ASSUME NEW i \in DOMAIN stack[u] PROVE FrameOK(u, i)'
    <3>1. FrameOK(u, i)
      BY <2>1 DEF StackOK
    <3>2. PICK q, x : q = stack[u][i].prev /\ x = stack[u][i].n
      OBVIOUS
    <3>3. q \in Spots(next) /\ x \in Was(next) /\ q # Null /\ q \in All /\ x \in Nodes
      BY <1>3, <3>1, <3>2, NodesAssumption DEF FrameOK, All
    <3>4. q \in Spots(next') /\ x \in Was(next') /\ Dying(next', backlink', q, x)
      BY <1>3, <1>4, <3>1, <3>2, <3>3 DEF FrameOK
    <3>5. i > 1 \/ pc[u] # "clear" => backlink'[x] = q
      BY <1>4, <3>1, <3>2, <3>3 DEF FrameOK
    <3> QED
      BY <1>1, <3>2, <3>4, <3>5 DEF FrameOK
  <2>3. ASSUME pc[u] = "rend" PROVE nval[u] = next'[stack[u][1].n]
    BY <1>4, <2>1, <2>3, LocalFacts DEF StackOK, ClearPlaces
  <2> QED
    BY <1>1, <2>1, <2>2, <2>3 DEF StackOK
<1>12. OwnOK(u)'
  <2> SUFFICES ASSUME got[u], NEW v \in Threads, got'[v], n'[v] = n'[u] PROVE v = u
    BY <1>1, <1>2 DEF ThreadOK, OwnOK, Job
  <2>1. CASE v = t
    BY <1>1, <2>1 DEF OwnOK
  <2>2. CASE v # t
    BY <1>1, <1>2, <2>2 DEF ThreadOK, OwnOK, OthersStay
  <2> QED
    BY <2>1, <2>2
<1> QED
  BY <1>5, <1>6, <1>7, <1>8, <1>9, <1>10, <1>11, <1>12 DEF ThreadOK

LEMMA StepKeeps ==
  ASSUME IInv, NEW t \in Threads, StepParts(t),
         HeapOK(next', backlink'), Stable(next, backlink, next', backlink'),
         ThreadOK(t)', ClaimsOK',
         \A u \in Threads : u # t /\ Pushing(u) => n[u] \notin Was(next') /\ next'[n[u]] = next[n[u]],
         \A u \in Threads : u # t /\ got[u] => claims'[n[u]] = 0
  PROVE  IInv'
<1>1. OthersStay(t) /\ LocalsTyped'
  BY OthersKept, LocalsStayTyped
<1>2. PushOK(t)' /\ OwnOK(t)'
  BY DEF ThreadOK
<1>3. \A u \in Threads : u # t => ThreadOK(u)'
  BY <1>1, <1>2, OtherKeeps
<1>4. HeapOK(next, backlink)'
  OBVIOUS
<1> QED
  BY <1>1, <1>3, <1>4 DEF IInv

-----------------------------------------------------------------------------
(* What most of the steps have in common *)

\* The place of a thread tells its call.
LEMMA JobOfPlace ==
  ASSUME IInv, NEW t \in Threads
  PROVE  /\ pc[t] \in {"load", "push", "again"} => Job(t, "push")
         /\ pc[t] = "pop" => Job(t, "pop")
         /\ pc[t] \in {"del", "help"} => Job(t, "del")
         /\ pc[t] \in {"skip", "at", "parent"} => Job(t, "sweep")
         /\ pc[t] \in {"flag", "back", "forward", "pop", "del", "help", "skip", "at", "parent"} =>
              ~Job(t, "push")
<1>1. CASE pc[t] = "idle"
  BY <1>1
<1>2. CASE pc[t] # "idle"
  <2>1. todo[t] # << >> /\ todo[t][1] \in Names
    BY <1>2, JobFacts
  <2>2. \A job \in Names : todo[t][1] = job => pc[t] \in PlacesOf(job)
    BY <2>1, JobFacts DEF Job
  <2> QED
    BY <2>1, <2>2 DEF Job, Names, PlacesOf, ClearPlaces
<1> QED
  BY <1>1, <1>2

\* A word just read is true.
LEMMA SeenNow ==
  ASSUME NEW f, NEW b, HeapOK(f, b), NEW q \in Spots(f)
  PROVE  /\ f[q].ptr # Null => f[q].ptr \in Was(f) /\ Leads(f, q, f[q].ptr)
         /\ f[q].flag => f[q].ptr # Null /\ f[q] = Flagged(f[q].ptr) /\ Dying(f, b, q, f[q].ptr)
<1>1. q \in All /\ f[q] = Word(f[q].ptr, f[q].flag, f[q].mark)
  BY HeapFacts DEF HeapOK
<1>2. f[q].flag \in BOOLEAN /\ f[q].mark \in BOOLEAN /\ f[q].ptr \in Was(f) \cup {Null}
  BY <1>1, HeapFacts DEF HeapOK, HeapTyped
<1>3. f[q].flag => ~f[q].mark /\ f[q].ptr # Null
  BY <1>1, <1>2 DEF HeapOK, BitsOK, All
<1>4. f[q].flag => f[q] = Flagged(f[q].ptr)
  BY <1>1, <1>2, <1>3 DEF Flagged
<1>5. Leads(f, q, f[q].ptr)
  BY <1>1, PointerLeads DEF HeapOK
<1> QED
  BY <1>2, <1>3, <1>4, <1>5 DEF Dying

LEMMA SeenHere ==
  ASSUME NEW t \in Threads, HeapOK(next', backlink'), NEW q \in Spots(next'),
         p'[t] = q, pval'[t] = next'[q]
  PROVE  Seen(t)'
BY SeenNow DEF Seen

\* Elsewhere than in a walk there is nothing that must be known of it.
LEMMA Quiet ==
  ASSUME NEW t \in Threads, pc'[t] \in {"idle", "load", "push", "again", "skip", "at"} \cup ClearPlaces
  PROVE  SeesOK(t)' /\ SearchOK(t)' /\ PopOK(t)'
<1>1. SeesOK(t)'
  BY DEF SeesOK, ClearPlaces
<1>2. SearchOK(t)'
  BY DEF SearchOK, ClearPlaces
<1>3. PopOK(t)'
  BY DEF PopOK, ClearPlaces
<1> QED
  BY <1>1, <1>2, <1>3

LEMMA IterKept ==
  ASSUME IInv, NEW t \in Threads, Stable(next, backlink, next', backlink'),
         prev'[t] \in {prev[t], Null}, cur'[t] = cur[t], todo'[t] = todo[t],
         Job(t, "sweep") => pc[t] \notin {"idle", "skip"}
  PROVE  IterOK(t)'
<1>1. IterOK(t) /\ Was(next) \subseteq Was(next') /\ Spots(next) \subseteq Spots(next')
  BY DEF IInv, ThreadOK, Stable, Spots
<1>2. \A q \in Spots(next), x \in Was(next) : Leads(next, q, x) => Leads(next', q, x)
  BY DEF Stable
<1> QED
  BY <1>1, <1>2 DEF IterOK, Job

\* A removal that was reported, and flags that were set by somebody, stay so.
LEMMA ClaimsKept ==
  ASSUME IInv, NEW t \in Threads, OthersStay(t), claims' = claims,
         Stable(next, backlink, next', backlink'),
         \A q \in All, x \in Nodes : next'[q] = Flagged(x) => next[q] = Flagged(x),
         got[t] => got'[t] /\ n'[t] = n[t]
  PROVE  ClaimsOK'
<1>1. ASSUME NEW q \in All, NEW x \in Nodes, next'[q] = Flagged(x)
      PROVE  \E u \in Threads : got'[u] /\ n'[u] = x
  <2>1. PICK u \in Threads : got[u] /\ n[u] = x
    BY <1>1 DEF IInv, ClaimsOK
  <2> QED
    BY <2>1 DEF OthersStay
<1>2. ASSUME NEW x \in Nodes, Gone(next, x) PROVE Gone(next', x)
  BY <1>2 DEF Gone, Stable, Was
<1> QED
  BY <1>1, <1>2 DEF IInv, ClaimsOK

LEMMA NotOwner ==
  ASSUME IInv, NEW t \in Threads, pc[t] \notin ClearPlaces
  PROVE  got[t] = FALSE /\ stack[t] = << >>
BY DEF IInv, ThreadOK, OwnOK, StackOK, LocalsTyped

LEMMA OthersPushSame ==
  ASSUME IInv, NEW t \in Threads, Was(next') = Was(next),
         \A x \in Nodes \ Was(next) : next'[x] = next[x]
  PROVE  \A u \in Threads : u # t /\ Pushing(u) => n[u] \notin Was(next') /\ next'[n[u]] = next[n[u]]
BY DEF IInv, ThreadOK, PushOK

\* A step of a walk, which writes nothing.
LEMMA WalkKeeps ==
  ASSUME IInv, NEW t \in Threads, StepParts(t), UNCHANGED <<shared, todo, got, stack, claims>>,
         pc[t] \notin ClearPlaces, pc'[t] \notin ClearPlaces,
         todo[t] # << >>, \A job \in Names : Job(t, job) => pc'[t] \in PlacesOf(job),
         SeesOK(t)', SearchOK(t)', PopOK(t)', IterOK(t)', PushOK(t)'
  PROVE  IInv'
<1>1. next' = next /\ backlink' = backlink
  BY DEF shared
<1>2. HeapOK(next', backlink') /\ Stable(next, backlink, next', backlink')
  BY <1>1, StableRefl DEF IInv
<1>3. OthersStay(t)
  BY OthersKept
<1>4. got[t] = FALSE /\ stack[t] = << >> /\ got'[t] = FALSE /\ stack'[t] = << >>
  BY NotOwner
<1>5. ClaimsOK'
  BY <1>1, <1>2, <1>3, <1>4, ClaimsKept
<1>6. StackOK(t)' /\ OwnOK(t)' /\ PlaceOK(t)'
  BY <1>4 DEF StackOK, OwnOK, PlaceOK, Job, ClearPlaces
<1>7. ThreadOK(t)'
  BY <1>6 DEF ThreadOK
<1>8. \A u \in Threads : u # t /\ Pushing(u) => n[u] \notin Was(next') /\ next'[n[u]] = next[n[u]]
  BY <1>1, OthersPushSame
<1>9. \A u \in Threads : u # t /\ got[u] => claims'[n[u]] = 0
  BY DEF IInv, ThreadOK, OwnOK
<1> QED
  BY <1>2, <1>5, <1>7, <1>8, <1>9, StepKeeps

\* The end of a call.
LEMMA ReturnKeeps ==
  ASSUME IInv, NEW t \in Threads, StepParts(t), Return(t), pc[t] \notin {"idle", "skip"},
         HeapOK(next', backlink'), Stable(next, backlink, next', backlink'), ClaimsOK',
         \A u \in Threads : u # t /\ Pushing(u) => n[u] \notin Was(next') /\ next'[n[u]] = next[n[u]],
         \A u \in Threads : u # t /\ got[u] => claims'[n[u]] = 0
  PROVE  IInv'
<1>1. got'[t] = FALSE /\ stack'[t] = << >>
  BY DEF Return, Forget, Set, IInv, LocalsTyped
<1>2. Job(t, "sweep") => /\ pc'[t] = "at" /\ prev'[t] = Null /\ cur'[t] = cur[t] /\ todo'[t] = todo[t]
  BY DEF Return, Set, Goto, IInv, LocalsTyped
<1>3. ~Job(t, "sweep") => pc'[t] = "idle" /\ prev'[t] = prev[t] /\ cur'[t] = cur[t]
  BY DEF Return, Set, Goto, IInv, LocalsTyped, iter
<1>4. pc'[t] \in {"idle", "at"}
  BY <1>2, <1>3
<1>5. SeesOK(t)' /\ SearchOK(t)' /\ PopOK(t)' /\ StackOK(t)' /\ OwnOK(t)'
  <2>1. SeesOK(t)' /\ SearchOK(t)' /\ PopOK(t)'
    BY <1>4, Quiet
  <2>2. StackOK(t)' /\ OwnOK(t)'
    BY <1>1, <1>4 DEF StackOK, OwnOK, ClearPlaces
  <2> QED
    BY <2>1, <2>2
<1>6. PlaceOK(t)' /\ PushOK(t)'
  <2>1. CASE Job(t, "sweep")
    BY <1>2, <2>1 DEF PlaceOK, Job, PushOK, Pushing, PlacesOf
  <2>2. CASE ~Job(t, "sweep")
    BY <1>3, <2>2 DEF PlaceOK, PushOK, Pushing, PlacesOf, Names
  <2> QED
    BY <2>1, <2>2
<1>7. IterOK(t)'
  <2>1. CASE Job(t, "sweep")
    BY <1>2, <2>1, IterKept
  <2>2. CASE ~Job(t, "sweep")
    <3>1. IterOK(t) /\ Was(next) \subseteq Was(next') /\ Spots(next) \subseteq Spots(next')
      BY DEF IInv, ThreadOK, Stable, Spots
    <3>2. \A q \in Spots(next), x \in Was(next) : Leads(next, q, x) => Leads(next', q, x)
      BY DEF Stable
    <3> QED
      BY <1>3, <2>2, <3>1, <3>2 DEF IterOK
  <2> QED
    BY <2>1, <2>2
<1>8. ThreadOK(t)'
  BY <1>5, <1>6, <1>7 DEF ThreadOK
<1> QED
  BY <1>8, StepKeeps

LEMMA ReturnReads ==
  ASSUME IInv, NEW t \in Threads, StepParts(t), Return(t), UNCHANGED <<shared, claims>>,
         pc[t] \notin {"idle", "skip"} \cup ClearPlaces
  PROVE  IInv'
<1>1. next' = next /\ backlink' = backlink
  BY DEF shared
<1>2. HeapOK(next', backlink') /\ Stable(next, backlink, next', backlink')
  BY <1>1, StableRefl DEF IInv
<1>3. OthersStay(t)
  BY OthersKept
<1>4. ClaimsOK'
  BY <1>1, <1>2, <1>3, ClaimsKept, NotOwner
<1>5. \A u \in Threads : u # t /\ Pushing(u) => n[u] \notin Was(next') /\ next'[n[u]] = next[n[u]]
  BY <1>1, OthersPushSame
<1>6. \A u \in Threads : u # t /\ got[u] => claims'[n[u]] = 0
  BY DEF IInv, ThreadOK, OwnOK
<1> QED
  BY <1>2, <1>4, <1>5, <1>6, ReturnKeeps

-----------------------------------------------------------------------------
(* The steps of the walks *)

LEMMA SearchFromKeeps ==
  ASSUME IInv, NEW t \in Threads, StepParts(t), pc[t] \in {"flag", "back"},
         NEW q \in Spots(next), SearchFrom(t, q, next[q]),
         UNCHANGED <<shared, todo, stack, iter, history>>,
         n[t] \in In(next) => n[t] \in After(next, q)
  PROVE  IInv'
<1> DEFINE w == next[q]
<1>1. /\ p'[t] = q /\ pval'[t] = w /\ n'[t] = n[t] /\ todo'[t] = todo[t] /\ UNCHANGED <<todo, got, stack, claims>>
      /\ prev'[t] = prev[t] /\ cur'[t] = cur[t]
      /\ pc'[t] = CASE w.mark       -> "back"
                    [] w.ptr = Null -> "abort"
                    [] w.ptr = n[t] -> "flag"
                    [] OTHER        -> "forward"
  BY DEF SearchFrom, Set, Goto, IInv, LocalsTyped, iter, history
<1>2. next' = next /\ backlink' = backlink
  BY DEF shared
<1>3. HeapOK(next', backlink') /\ Stable(next, backlink, next', backlink')
  BY <1>2, StableRefl DEF IInv
<1>4. pc'[t] \in {"back", "abort", "flag", "forward"}
  BY <1>1
<1>5. n[t] \in Was(next) /\ q \in All /\ ~next[List].mark
  BY HeapFacts DEF IInv, ThreadOK, SearchOK, HeapOK, BitsOK
<1>6. SeesOK(t)'
  <2>1. Seen(t)'
    BY <1>1, <1>2, <1>3, SeenHere
  <2> QED
    BY <2>1 DEF SeesOK
<1>7. SearchOK(t)'
  <2> HIDE DEF w
  <2>1. CASE pc'[t] = "back"
    <3>1. w.mark /\ q # List
      BY <1>1, <1>5, <2>1 DEF w
    <3> QED
      BY <1>1, <1>2, <1>5, <2>1, <3>1 DEF SearchOK, w
  <2>2. CASE pc'[t] = "abort"
    <3>1. After(next, q) = {}
      BY <1>1, <2>2, FromNull DEF After, w
    <3> QED
      BY <1>1, <1>2, <1>5, <2>2, <3>1 DEF SearchOK
  <2>3. CASE pc'[t] = "flag"
    BY <1>1, <1>2, <1>5, <2>3 DEF SearchOK
  <2>4. CASE pc'[t] = "forward"
    <3>1. w.ptr # Null /\ w.ptr # n[t]
      BY <1>1, <2>4
    <3>2. n[t] \in In(next) => n[t] \in From(next, w.ptr)
      BY DEF After, w
    <3> QED
      BY <1>1, <1>2, <1>5, <2>4, <3>1, <3>2 DEF SearchOK
  <2> QED
    BY <1>4, <2>1, <2>2, <2>3, <2>4
<1>8. PopOK(t)'
  BY <1>4 DEF PopOK
<1>9. IterOK(t)'
  BY <1>1, <1>3, IterKept
<1>10. PushOK(t)'
  BY <1>1, <1>4, JobOfPlace DEF PushOK, Pushing, Job
<1>11. todo[t] # << >> /\ \A job \in Names : Job(t, job) => pc'[t] \in PlacesOf(job)
  <2>1. \A job \in Names : Job(t, job) => pc[t] \in PlacesOf(job)
    BY JobFacts
  <2>2. \A job \in Names : pc[t] \in PlacesOf(job) => pc'[t] \in PlacesOf(job)
    BY <1>4 DEF PlacesOf, Names, ClearPlaces
  <2> QED
    BY <2>1, <2>2, JobFacts
<1>12. pc[t] \notin ClearPlaces /\ pc'[t] \notin ClearPlaces
  BY <1>4 DEF ClearPlaces
<1> QED
  BY <1>1, <1>6, <1>7, <1>8, <1>9, <1>10, <1>11, <1>12, WalkKeeps

LEMMA FollowBacklinkKeeps ==
  ASSUME IInv, NEW t \in Threads, FollowBacklink(t)
  PROVE  IInv'
<1>1. /\ pc[t] = "back" /\ SearchFrom(t, backlink[p[t]], next[backlink[p[t]]])
      /\ UNCHANGED <<shared, todo, stack, iter, history>>
  BY DEF FollowBacklink
<1>2. p[t] \in Nodes /\ next[p[t]].mark /\ (n[t] \in In(next) => n[t] \in After(next, p[t]))
  <2>1. /\ p[t] \in Spots(next) /\ p[t] # List /\ next[p[t]].mark
        /\ n[t] \in In(next) => n[t] \in After(next, p[t])
    BY <1>1 DEF IInv, ThreadOK, SearchOK
  <2> QED
    BY <2>1, HeapFacts DEF Spots, IInv, HeapOK
<1>3. backlink[p[t]] \in Spots(next) /\ Leads(next, backlink[p[t]], p[t])
  BY <1>2 DEF IInv, HeapOK, BitsOK, BacklinksOK
<1>4. n[t] \in In(next) => n[t] \in After(next, backlink[p[t]])
  <2>1. From(next, p[t]) = {p[t]} \cup After(next, p[t])
    BY <1>2, UnfoldFrom DEF IInv, HeapOK
  <2> QED
    BY <1>2, <1>3, <2>1 DEF Leads
<1> QED
  BY <1>1, <1>3, <1>4, SearchFromKeeps DEF StepParts

LEMMA WalkForwardKeeps ==
  ASSUME IInv, NEW t \in Threads, WalkForward(t)
  PROVE  IInv'
<1> DEFINE q == pval[t].ptr
<1>1. pc[t] = "forward" /\ UNCHANGED <<shared, claims>>
  BY DEF WalkForward
<1>2. CASE Return(t)
  BY <1>1, <1>2, ReturnReads DEF StepParts, ClearPlaces
<1>3. CASE /\ next[q].ptr # Null
           /\ p' = Set(p, t, q) /\ pval' = Set(pval, t, next[q])
           /\ Goto(t, IF next[q].ptr = n[t] THEN "flag" ELSE "forward")
           /\ UNCHANGED <<todo, n, nval, top, got, iter, stack, found>>
  <2> HIDE DEF q
  <2>1. /\ p'[t] = q /\ pval'[t] = next[q] /\ n'[t] = n[t] /\ todo'[t] = todo[t]
        /\ prev'[t] = prev[t] /\ cur'[t] = cur[t] /\ UNCHANGED <<todo, got, stack, claims>>
        /\ pc'[t] = IF next[q].ptr = n[t] THEN "flag" ELSE "forward"
    BY <1>1, <1>3 DEF Set, Goto, IInv, LocalsTyped, iter
  <2>2. next' = next /\ backlink' = backlink
    BY <1>1 DEF shared
  <2>3. HeapOK(next', backlink') /\ Stable(next, backlink, next', backlink')
    BY <2>2, StableRefl DEF IInv
  <2>4. /\ n[t] \in Was(next) /\ (n[t] \in In(next) => n[t] \in From(next, q))
        /\ q # Null /\ q # n[t] /\ q \in Was(next) /\ q \in Nodes /\ q \in Spots(next)
    <3>1. q \in Was(next)
      BY <1>1 DEF IInv, ThreadOK, SearchOK, SeesOK, Seen, q
    <3> QED
      BY <1>1, <3>1, HeapFacts DEF IInv, ThreadOK, SearchOK, HeapOK, Spots, q
  <2>5. n[t] \in In(next) => n[t] \in After(next, q)
    <3>1. From(next, q) = {q} \cup After(next, q)
      BY <2>4, UnfoldFrom DEF IInv, HeapOK
    <3> QED
      BY <2>4, <3>1
  <2>6. SeesOK(t)'
    <3>1. Seen(t)'
      BY <2>1, <2>2, <2>3, <2>4, SeenHere
    <3> QED
      BY <3>1 DEF SeesOK
  <2>7. SearchOK(t)'
    <3>1. CASE pc'[t] = "flag"
      BY <2>1, <2>2, <2>4, <2>5, <3>1 DEF SearchOK
    <3>2. CASE pc'[t] = "forward"
      <4>1. next[q].ptr # n[t] /\ next[q].ptr # Null
        BY <1>3, <2>1, <3>2
      <4> QED
        BY <2>1, <2>2, <2>4, <2>5, <3>2, <4>1 DEF SearchOK, After
    <3> QED
      BY <2>1, <3>1, <3>2
  <2>8. PopOK(t)' /\ PushOK(t)'
    BY <1>1, <2>1, JobOfPlace DEF PopOK, PushOK, Pushing, Job
  <2>9. IterOK(t)'
    BY <1>1, <2>1, <2>3, IterKept
  <2>10. todo[t] # << >> /\ \A job \in Names : Job(t, job) => pc'[t] \in PlacesOf(job)
    <3>1. \A job \in Names : Job(t, job) => pc[t] \in PlacesOf(job)
      BY JobFacts
    <3>2. \A job \in Names : pc[t] \in PlacesOf(job) => pc'[t] \in PlacesOf(job)
      BY <1>1, <2>1 DEF PlacesOf, Names, ClearPlaces
    <3> QED
      BY <1>1, <3>1, <3>2, JobFacts
  <2>11. pc[t] \notin ClearPlaces /\ pc'[t] \notin ClearPlaces
    BY <1>1, <2>1 DEF ClearPlaces
  <2>12. StepParts(t) /\ UNCHANGED <<shared, todo, got, stack, claims>>
    BY <1>1, <2>1 DEF StepParts
  <2> QED
    BY <2>6, <2>7, <2>8, <2>9, <2>10, <2>11, <2>12, WalkKeeps
<1> QED
  BY <1>2, <1>3 DEF WalkForward

LEMMA PopBeginsKeeps ==
  ASSUME IInv, NEW t \in Threads, PopBegins(t)
  PROVE  IInv'
<1>1. pc[t] = "idle" /\ Job(t, "pop") /\ UNCHANGED <<shared, todo, got, stack, claims>>
  BY DEF PopBegins, locals, history
<1>2. /\ p'[t] = List /\ pval'[t] = next[List] /\ found'[t] = In(next) /\ pc'[t] = "pop"
      /\ todo'[t] = todo[t] /\ prev'[t] = prev[t] /\ cur'[t] = cur[t]
  BY LinkedIsIn DEF PopBegins, Set, Goto, IInv, LocalsTyped, iter
<1>3. next' = next /\ backlink' = backlink
  BY <1>1 DEF shared
<1>4. HeapOK(next', backlink') /\ Stable(next, backlink, next', backlink') /\ List \in Spots(next)
  BY <1>3, StableRefl DEF IInv, Spots
<1>5. SeesOK(t)'
  <2>1. Seen(t)'
    BY <1>2, <1>3, <1>4, SeenHere
  <2> QED
    BY <2>1 DEF SeesOK
<1>6. SearchOK(t)' /\ PushOK(t)'
  BY <1>1, <1>2 DEF SearchOK, PushOK, Pushing, Job
<1>7. PopOK(t)'
  <2>1. In(next) = From(next, next[List].ptr)
    BY DEF In, After
  <2> QED
    BY <1>2, <1>3, <2>1 DEF PopOK, Was
<1>8. IterOK(t)'
  BY <1>1, <1>2, <1>4, IterKept DEF Job
<1>9. todo[t] # << >> /\ \A job \in Names : Job(t, job) => pc'[t] \in PlacesOf(job)
  BY <1>1, <1>2 DEF Job, PlacesOf
<1>10. pc[t] \notin ClearPlaces /\ pc'[t] \notin ClearPlaces
  BY <1>1, <1>2 DEF ClearPlaces
<1> QED
  BY <1>1, <1>5, <1>6, <1>7, <1>8, <1>9, <1>10, WalkKeeps DEF StepParts

LEMMA PopEmptyKeeps ==
  ASSUME IInv, NEW t \in Threads, PopEmpty(t)
  PROVE  IInv'
BY ReturnReads DEF PopEmpty, StepParts, ClearPlaces

\* What pop knows when it goes on from q.
LEMMA PopGoesOn ==
  ASSUME IInv, NEW t \in Threads, pc[t] = "pop", pc'[t] = "pop", StepParts(t),
         UNCHANGED <<shared, todo, got, stack, iter, history>>,
         NEW q \in Spots(next), p'[t] = q, pval'[t] = next[q],
         \A x \in found[t] : \/ Doomed(x) \/ x \in After(next, q)
                             \/ \E y \in Nodes : next[y] = Word(x, FALSE, TRUE)
  PROVE  IInv'
<1>1. next' = next /\ backlink' = backlink /\ todo'[t] = todo[t] /\ prev'[t] = prev[t] /\ cur'[t] = cur[t]
      /\ found'[t] = found[t] /\ claims' = claims
  BY DEF shared, iter, history
<1>2. HeapOK(next', backlink') /\ Stable(next, backlink, next', backlink')
  BY <1>1, StableRefl DEF IInv
<1>3. SeesOK(t)'
  <2>1. Seen(t)'
    BY <1>1, <1>2, SeenHere
  <2> QED
    BY <2>1 DEF SeesOK
<1>4. SearchOK(t)' /\ PushOK(t)'
  BY <1>1, JobOfPlace DEF SearchOK, PushOK, Pushing, Job
<1>5. PopOK(t)'
  <2>1. \A x \in found[t] : x \in Was(next)
    BY DEF IInv, ThreadOK, PopOK
  <2>2. \A x \in found[t] : Doomed(x)' <=> Doomed(x)
    BY <1>1 DEF Doomed
  <2> QED
    BY <1>1, <2>1, <2>2 DEF PopOK, After
<1>6. IterOK(t)'
  BY <1>1, <1>2, IterKept
<1>7. todo[t] # << >> /\ \A job \in Names : Job(t, job) => pc'[t] \in PlacesOf(job)
  BY JobFacts
<1>8. pc[t] \notin ClearPlaces /\ pc'[t] \notin ClearPlaces
  BY DEF ClearPlaces
<1> QED
  BY <1>1, <1>3, <1>4, <1>5, <1>6, <1>7, <1>8, WalkKeeps

LEMMA PopSkipsKeeps ==
  ASSUME IInv, NEW t \in Threads, PopSkips(t)
  PROVE  IInv'
<1>1. PICK q : q = pval[t].ptr
  OBVIOUS
<1>2. /\ pc[t] = "pop" /\ pc'[t] = "pop" /\ q # Null /\ Bits(pval[t])
      /\ UNCHANGED <<shared, todo, got, stack, iter, history>> /\ p'[t] = q /\ pval'[t] = next[q]
  BY <1>1 DEF PopSkips, Set, IInv, LocalsTyped
<1>3. Seen(t) /\ q \in Was(next) /\ q \in Spots(next) /\ q \in Nodes
  <2>1. Seen(t)
    BY <1>2 DEF IInv, ThreadOK, SeesOK
  <2> QED
    BY <1>1, <1>2, <2>1, HeapFacts DEF Seen, Spots, IInv, HeapOK
<1>4. Doomed(q) \/ \E y \in Nodes : next[y] = Word(q, FALSE, TRUE)
  <2>1. CASE pval[t].flag
    <3>1. Dying(next, backlink, p[t], q) /\ p[t] \in All
      BY <1>1, <1>2, <1>3, <2>1, LocalFacts DEF Seen
    <3> QED
      BY <3>1 DEF Dying, Doomed, Gone, All
  <2>2. CASE pval[t].mark
    <3>1. next[p[t]] = pval[t] /\ p[t] \in All /\ ~next[List].mark
      BY <1>2, <1>3, <2>2, LocalFacts DEF Seen, IInv, HeapOK, BitsOK
    <3>2. p[t] \in Nodes /\ ~pval[t].flag
      BY <2>2, <3>1 DEF All, IInv, HeapOK, BitsOK
    <3>3. next[p[t]] = Word(q, FALSE, TRUE)
      <4>1. /\ next[p[t]] = Word(next[p[t]].ptr, next[p[t]].flag, next[p[t]].mark)
            /\ next[p[t]].flag \in BOOLEAN /\ next[p[t]].mark \in BOOLEAN
        BY <3>1, HeapFacts DEF IInv, HeapOK
      <4> QED
        BY <1>1, <2>2, <3>1, <3>2, <4>1
    <3> QED
      BY <3>2, <3>3
  <2> QED
    BY <1>2, <2>1, <2>2 DEF Bits
<1>5. ASSUME NEW x \in found[t]
      PROVE  Doomed(x) \/ x \in After(next, q) \/ \E y \in Nodes : next[y] = Word(x, FALSE, TRUE)
  <2>1. Doomed(x) \/ x \in From(next, q) \/ \E y \in Nodes : next[y] = Word(x, FALSE, TRUE)
    BY <1>1, <1>2 DEF IInv, ThreadOK, PopOK
  <2>2. From(next, q) = {q} \cup After(next, q)
    BY <1>3, UnfoldFrom DEF IInv, HeapOK
  <2> QED
    BY <1>4, <2>1, <2>2
<1> QED
  BY <1>2, <1>3, <1>5, PopGoesOn DEF StepParts

LEMMA PopRetries ==
  ASSUME IInv, NEW t \in Threads, PopFlags(t), next[p[t]] # pval[t]
  PROVE  IInv'
<1>1. PICK q : q = p[t]
  OBVIOUS
<1>2. /\ pc[t] = "pop" /\ pc'[t] = "pop" /\ pval[t].ptr # Null
      /\ UNCHANGED <<shared, todo, got, stack, iter, history>> /\ p'[t] = q /\ pval'[t] = next[q]
  BY <1>1 DEF PopFlags, Set, IInv, LocalsTyped, shared
<1>3. /\ q \in Spots(next) /\ pval[t].ptr \in Was(next) /\ Leads(next, q, pval[t].ptr)
  BY <1>1, <1>2 DEF IInv, ThreadOK, SeesOK, Seen
<1>4. ASSUME NEW x \in found[t]
      PROVE  Doomed(x) \/ x \in After(next, q) \/ \E y \in Nodes : next[y] = Word(x, FALSE, TRUE)
  <2>1. /\ x \in Was(next)
        /\ Doomed(x) \/ x \in From(next, pval[t].ptr) \/ \E y \in Nodes : next[y] = Word(x, FALSE, TRUE)
    BY <1>2 DEF IInv, ThreadOK, PopOK
  <2>2. x \in In(next) \/ Doomed(x)
    BY <2>1 DEF Was, Doomed
  <2> QED
    BY <1>3, <2>1, <2>2 DEF Leads
<1> QED
  BY <1>2, <1>3, <1>4, PopGoesOn DEF StepParts

-----------------------------------------------------------------------------
LEMMA DelBeginsKeeps ==
  ASSUME IInv, NEW t \in Threads, DelBegins(t)
  PROVE  IInv'
<1>1. pc[t] = "idle" /\ Job(t, "del") /\ UNCHANGED <<shared, todo, got, stack, claims>>
  BY DEF DelBegins, locals, history
<1>2. /\ p'[t] = List /\ pval'[t] = next[List] /\ n'[t] \in Was(next) /\ pc'[t] = "del"
      /\ todo'[t] = todo[t] /\ prev'[t] = prev[t] /\ cur'[t] = cur[t]
  BY LinkedIsIn DEF DelBegins, Set, Goto, IInv, LocalsTyped, iter
<1>3. next' = next /\ backlink' = backlink
  BY <1>1 DEF shared
<1>4. HeapOK(next', backlink') /\ Stable(next, backlink, next', backlink') /\ List \in Spots(next)
  BY <1>3, StableRefl DEF IInv, Spots
<1>5. SeesOK(t)'
  <2>1. Seen(t)'
    BY <1>2, <1>3, <1>4, SeenHere
  <2> QED
    BY <2>1 DEF SeesOK
<1>6. SearchOK(t)'
  <2>1. In(next) = From(next, next[List].ptr)
    BY DEF In, After
  <2> QED
    BY <1>2, <1>3, <2>1 DEF SearchOK
<1>7. PopOK(t)' /\ PushOK(t)'
  BY <1>1, <1>2 DEF PopOK, PushOK, Pushing, Job
<1>8. IterOK(t)'
  BY <1>1, <1>2, <1>4, IterKept DEF Job
<1>9. todo[t] # << >> /\ \A job \in Names : Job(t, job) => pc'[t] \in PlacesOf(job)
  BY <1>1, <1>2 DEF Job, PlacesOf
<1>10. pc[t] \notin ClearPlaces /\ pc'[t] \notin ClearPlaces
  BY <1>1, <1>2 DEF ClearPlaces
<1> QED
  BY <1>1, <1>5, <1>6, <1>7, <1>8, <1>9, <1>10, WalkKeeps DEF StepParts

LEMMA DelNotFoundKeeps ==
  ASSUME IInv, NEW t \in Threads, DelNotFound(t)
  PROVE  IInv'
BY ReturnReads DEF DelNotFound, StepParts, ClearPlaces

LEMMA DelLooksKeeps ==
  ASSUME IInv, NEW t \in Threads, DelLooks(t)
  PROVE  IInv'
<1>1. PICK q, w : q = pval[t].ptr /\ w = next[q]
  OBVIOUS
<1>2. /\ pc[t] = "del" /\ q # Null /\ UNCHANGED <<shared, todo, n, top, got, iter, stack, history>>
      /\ todo'[t] = todo[t] /\ prev'[t] = prev[t] /\ cur'[t] = cur[t] /\ n'[t] = n[t]
      /\ next' = next /\ backlink' = backlink /\ claims' = claims
  BY <1>1 DEF DelLooks, shared, iter, history
<1>3. HeapOK(next', backlink') /\ Stable(next, backlink, next', backlink')
  BY <1>2, StableRefl DEF IInv
<1>4. /\ Seen(t) /\ n[t] \in Was(next) /\ (n[t] \in In(next) => n[t] \in From(next, q))
      /\ q \in Was(next) /\ q \in Nodes /\ q \in Spots(next) /\ From(next, q) = {q} \cup After(next, q)
  <2>1. Seen(t)
    BY <1>2 DEF IInv, ThreadOK, SeesOK
  <2>2. n[t] \in Was(next) /\ (n[t] \in In(next) => n[t] \in From(next, q))
    BY <1>1, <1>2 DEF IInv, ThreadOK, SearchOK
  <2>3. q \in Was(next) /\ q \in Nodes /\ q \in Spots(next)
    BY <1>1, <1>2, <2>1, HeapFacts DEF Seen, Spots, IInv, HeapOK
  <2> QED
    BY <2>1, <2>2, <2>3, UnfoldFrom DEF IInv, HeapOK
<1>5. \/ w.mark /\ pval[t].flag /\ nval'[t] = w /\ pc'[t] = "help" /\ p'[t] = p[t] /\ pval'[t] = pval[t]
      \/ q = n[t] /\ pc'[t] = "flag" /\ p'[t] = p[t] /\ pval'[t] = pval[t]
      \/ q # n[t] /\ pc'[t] = "del" /\ p'[t] = q /\ pval'[t] = w
  BY <1>1 DEF DelLooks, DelGoesOn, Set, Goto, IInv, LocalsTyped
<1>6. SeesOK(t)' /\ SearchOK(t)'
  <2>1. CASE pc'[t] = "help"
    <3>1. w.mark /\ pval[t].flag /\ nval'[t] = w /\ p'[t] = p[t] /\ pval'[t] = pval[t]
      BY <1>5, <2>1
    <3>2. SeesOK(t)'
      BY <1>2, <1>4, <3>1 DEF Seen, SeesOK
    <3> QED
      BY <1>1, <1>2, <1>4, <2>1, <3>1, <3>2 DEF SearchOK
  <2>2. CASE pc'[t] = "flag"
    <3>1. q = n[t] /\ p'[t] = p[t] /\ pval'[t] = pval[t]
      BY <1>5, <2>2
    <3>2. SeesOK(t)'
      BY <1>2, <1>4, <3>1 DEF Seen, SeesOK
    <3>3. p[t] \in Spots(next) /\ Leads(next, p[t], q)
      BY <1>1, <1>2, <1>4 DEF Seen
    <3> QED
      BY <1>2, <1>4, <2>2, <3>1, <3>2, <3>3 DEF SearchOK, Leads
  <2>3. CASE pc'[t] = "del"
    <3>1. q # n[t] /\ p'[t] = q /\ pval'[t] = w
      BY <1>5, <2>3
    <3>2. Seen(t)'
      BY <1>1, <1>2, <1>3, <1>4, <3>1, SeenHere
    <3>3. n[t] \in In(next) => n[t] \in From(next, w.ptr)
      BY <1>1, <1>4, <3>1 DEF After
    <3> QED
      BY <1>2, <1>4, <2>3, <3>1, <3>2, <3>3 DEF SearchOK, SeesOK
  <2> QED
    BY <1>5, <2>1, <2>2, <2>3
<1>7. pc'[t] \in {"help", "flag", "del"}
  BY <1>5
<1>8. PopOK(t)' /\ PushOK(t)'
  BY <1>2, <1>7, JobOfPlace DEF PopOK, PushOK, Pushing, Job
<1>9. IterOK(t)'
  BY <1>2, <1>3, IterKept
<1>10. todo[t] # << >> /\ \A job \in Names : Job(t, job) => pc'[t] \in PlacesOf(job)
  BY <1>2, <1>7, JobOfPlace DEF Job, PlacesOf
<1>11. pc[t] \notin ClearPlaces /\ pc'[t] \notin ClearPlaces
  BY <1>2, <1>7 DEF ClearPlaces
<1> QED
  BY <1>2, <1>6, <1>8, <1>9, <1>10, <1>11, WalkKeeps DEF StepParts

-----------------------------------------------------------------------------
LEMMA SweepBeginsKeeps ==
  ASSUME IInv, NEW t \in Threads, SweepBegins(t)
  PROVE  IInv'
<1>1. /\ pc[t] = "idle" /\ Job(t, "sweep") /\ UNCHANGED <<shared, todo, got, stack, claims>>
  BY DEF SweepBegins, locals, history
<1>2. /\ prev'[t] = List /\ cur'[t] = next[List].ptr /\ pc'[t] = "skip" /\ todo'[t] = todo[t]
      /\ next' = next /\ backlink' = backlink
  BY DEF SweepBegins, Set, Goto, IInv, LocalsTyped, shared
<1>3. SeesOK(t)' /\ SearchOK(t)' /\ PopOK(t)' /\ PushOK(t)'
  <2>1. SeesOK(t)' /\ SearchOK(t)' /\ PopOK(t)'
    BY <1>2, Quiet
  <2> QED
    BY <1>1, <1>2, <2>1 DEF PushOK, Pushing, Job
<1>4. IterOK(t)'
  <2>1. List \in Spots(next)
    BY DEF Spots
  <2>2. cur'[t] # Null => cur'[t] \in Was(next) /\ Leads(next, List, cur'[t])
    BY <1>2, <2>1, SeenNow DEF IInv
  <2> QED
    BY <1>2, <2>1, <2>2 DEF IterOK
<1>5. todo[t] # << >> /\ \A job \in Names : Job(t, job) => pc'[t] \in PlacesOf(job)
  BY <1>1, <1>2 DEF Job, PlacesOf
<1>6. pc[t] \notin ClearPlaces /\ pc'[t] \notin ClearPlaces
  BY <1>1, <1>2 DEF ClearPlaces
<1> QED
  BY <1>1, <1>3, <1>4, <1>5, <1>6, WalkKeeps DEF StepParts

LEMMA SkipDeadKeeps ==
  ASSUME IInv, NEW t \in Threads, SkipDead(t)
  PROVE  IInv'
<1>1. /\ pc[t] = "skip" /\ UNCHANGED <<shared, got, stack, claims, n>>
      /\ next' = next /\ backlink' = backlink
  BY DEF SkipDead, locals, history, shared
<1>2. Job(t, "sweep") /\ todo[t] # << >>
  BY <1>1, JobOfPlace DEF Job
<1>3. CASE cur[t] = Null
  <2>1. pc'[t] = "idle" /\ prev'[t] = Null /\ cur'[t] = Null
    BY <1>1, <1>3 DEF SkipDead, Set, Goto, IInv, LocalsTyped
  <2>2. SeesOK(t)' /\ SearchOK(t)' /\ PopOK(t)'
    BY <2>1, Quiet
  <2>3. PushOK(t)' /\ IterOK(t)' /\ PlaceOK(t)'
    BY <2>1 DEF PushOK, Pushing, IterOK, PlaceOK, PlacesOf, Names
  <2>4. got[t] = FALSE /\ stack[t] = << >> /\ got'[t] = FALSE /\ stack'[t] = << >>
    BY <1>1, NotOwner DEF ClearPlaces
  <2>5. StackOK(t)' /\ OwnOK(t)'
    BY <2>1, <2>4 DEF StackOK, OwnOK, ClearPlaces
  <2>6. HeapOK(next', backlink') /\ Stable(next, backlink, next', backlink')
    BY <1>1, StableRefl DEF IInv
  <2>7. StepParts(t) /\ OthersStay(t)
    BY OthersKept DEF StepParts
  <2>8. ClaimsOK'
    BY <1>1, <2>4, <2>6, <2>7, ClaimsKept
  <2>9. \A u \in Threads : u # t /\ Pushing(u) => n[u] \notin Was(next') /\ next'[n[u]] = next[n[u]]
    BY <1>1, OthersPushSame
  <2>10. \A u \in Threads : u # t /\ got[u] => claims'[n[u]] = 0
    BY <1>1 DEF IInv, ThreadOK, OwnOK
  <2>11. ThreadOK(t)'
    BY <2>2, <2>3, <2>5 DEF ThreadOK
  <2> QED
    BY <2>6, <2>7, <2>8, <2>9, <2>10, <2>11, StepKeeps
<1>4. CASE cur[t] # Null
  <2>1. /\ todo' = todo /\ todo'[t] = todo[t] /\ prev'[t] = prev[t] /\ pc'[t] \in {"skip", "at"}
        /\ \/ cur'[t] = next[cur[t]].ptr /\ pc'[t] = "skip"
           \/ cur'[t] = cur[t]
    BY <1>1, <1>4 DEF SkipDead, Set, Goto, IInv, LocalsTyped
  <2>2. SeesOK(t)' /\ SearchOK(t)' /\ PopOK(t)'
    BY <2>1, Quiet
  <2>3. PushOK(t)'
    BY <1>2, <2>1 DEF PushOK, Pushing, Job
  <2>4. /\ cur[t] \in Was(next) /\ cur[t] \in Nodes /\ cur[t] \in Spots(next)
        /\ prev[t] # Null => prev[t] \in Spots(next) /\ Leads(next, prev[t], cur[t])
    <3>1. /\ cur[t] \in Was(next)
          /\ prev[t] # Null => prev[t] \in Spots(next) /\ Leads(next, prev[t], cur[t])
      BY <1>4 DEF IInv, ThreadOK, IterOK
    <3> QED
      BY <3>1, HeapFacts DEF IInv, HeapOK, Spots
  <2>5. IterOK(t)'
    <3>1. CASE cur'[t] = next[cur[t]].ptr /\ pc'[t] = "skip"
      <4>1. From(next, next[cur[t]].ptr) \subseteq From(next, cur[t])
        BY <2>4, UnfoldFrom DEF After, IInv, HeapOK
      <4>2. next[cur[t]].ptr \in Was(next) \cup {Null}
        BY <2>4, SeenNow DEF IInv
      <4>3. prev[t] # Null => Leads(next, prev[t], next[cur[t]].ptr)
        BY <2>4, <4>1 DEF Leads
      <4> QED
        BY <1>1, <2>1, <2>4, <3>1, <4>2, <4>3 DEF IterOK
    <3>2. CASE cur'[t] = cur[t]
      BY <1>1, <1>4, <2>1, <2>4, <3>2 DEF IterOK
    <3> QED
      BY <2>1, <3>1, <3>2
  <2>6. \A job \in Names : Job(t, job) => pc'[t] \in PlacesOf(job)
    BY <1>2, <2>1 DEF Job, PlacesOf
  <2>7. pc[t] \notin ClearPlaces /\ pc'[t] \notin ClearPlaces
    BY <1>1, <2>1 DEF ClearPlaces
  <2> QED
    BY <1>1, <1>2, <2>1, <2>2, <2>3, <2>5, <2>6, <2>7, WalkKeeps DEF StepParts
<1> QED
  BY <1>3, <1>4

LEMMA IterNextKeeps ==
  ASSUME IInv, NEW t \in Threads, IterNext(t)
  PROVE  IInv'
<1>1. pc[t] = "at" /\ UNCHANGED <<shared, todo, got, stack, claims>>
  BY DEF IterNext, locals, history
<1>2. /\ prev'[t] = cur[t] /\ cur'[t] = next[cur[t]].ptr /\ pc'[t] = "skip" /\ todo'[t] = todo[t]
      /\ next' = next /\ backlink' = backlink
  BY DEF IterNext, Set, Goto, IInv, LocalsTyped, shared
<1>3. Job(t, "sweep") /\ todo[t] # << >> /\ cur[t] # Null
  BY <1>1, PlaceOfAt DEF Job
<1>4. SeesOK(t)' /\ SearchOK(t)' /\ PopOK(t)' /\ PushOK(t)'
  <2>1. SeesOK(t)' /\ SearchOK(t)' /\ PopOK(t)'
    BY <1>2, Quiet
  <2> QED
    BY <1>2, <1>3, <2>1 DEF PushOK, Pushing, Job
<1>5. IterOK(t)'
  <2>1. cur[t] \in Spots(next)
    BY <1>3 DEF IInv, ThreadOK, IterOK, Spots
  <2>2. cur'[t] # Null => cur'[t] \in Was(next) /\ Leads(next, cur[t], cur'[t])
    BY <1>2, <2>1, SeenNow DEF IInv
  <2> QED
    BY <1>2, <2>1, <2>2 DEF IterOK
<1>6. \A job \in Names : Job(t, job) => pc'[t] \in PlacesOf(job)
  BY <1>2, <1>3 DEF Job, PlacesOf
<1>7. pc[t] \notin ClearPlaces /\ pc'[t] \notin ClearPlaces
  BY <1>1, <1>2 DEF ClearPlaces
<1> QED
  BY <1>1, <1>3, <1>4, <1>5, <1>6, <1>7, WalkKeeps DEF StepParts

LEMMA DelAtKeeps ==
  ASSUME IInv, NEW t \in Threads, DelAt(t)
  PROVE  IInv'
<1>1. pc[t] = "at" /\ prev[t] # Null /\ UNCHANGED <<shared, todo, got, stack, claims>>
  BY DEF DelAt, history
<1>2. /\ n'[t] = cur[t] /\ p'[t] = prev[t] /\ pc'[t] = "parent" /\ todo'[t] = todo[t]
      /\ next' = next /\ backlink' = backlink /\ prev'[t] = prev[t] /\ cur'[t] = cur[t]
  BY DEF DelAt, Set, Goto, IInv, LocalsTyped, shared, iter
<1>3. Job(t, "sweep") /\ todo[t] # << >> /\ cur[t] # Null
  BY <1>1, PlaceOfAt DEF Job
<1>4. HeapOK(next', backlink') /\ Stable(next, backlink, next', backlink')
  BY <1>2, StableRefl DEF IInv
<1>5. SearchOK(t)'
  <2>1. /\ cur[t] \in Was(next) /\ cur[t] \in Nodes
        /\ prev[t] \in Spots(next) /\ Leads(next, prev[t], cur[t])
    BY <1>1, <1>3, PlaceOfAt DEF IInv, ThreadOK, IterOK
  <2>2. cur[t] \in From(next, cur[t])
    BY <2>1, UnfoldFrom DEF IInv, HeapOK
  <2> QED
    BY <1>2, <2>1, <2>2 DEF SearchOK, Leads
<1>6. SeesOK(t)' /\ PopOK(t)' /\ PushOK(t)'
  BY <1>2, <1>3 DEF SeesOK, PopOK, PushOK, Pushing, Job
<1>7. IterOK(t)'
  BY <1>1, <1>2, <1>4, IterKept
<1>8. \A job \in Names : Job(t, job) => pc'[t] \in PlacesOf(job)
  BY <1>2, <1>3 DEF Job, PlacesOf
<1>9. pc[t] \notin ClearPlaces /\ pc'[t] \notin ClearPlaces
  BY <1>1, <1>2 DEF ClearPlaces
<1> QED
  BY <1>1, <1>3, <1>5, <1>6, <1>7, <1>8, <1>9, WalkKeeps DEF StepParts

LEMMA DelAtParentKeeps ==
  ASSUME IInv, NEW t \in Threads, DelAtParent(t)
  PROVE  IInv'
<1>1. pc[t] = "parent" /\ UNCHANGED <<shared, todo, got, stack, claims>>
  BY DEF DelAtParent, history
<1>2. /\ pval'[t] = next[p[t]] /\ pc'[t] = "flag" /\ todo'[t] = todo[t] /\ n'[t] = n[t] /\ p'[t] = p[t]
      /\ next' = next /\ backlink' = backlink /\ prev'[t] = prev[t] /\ cur'[t] = cur[t]
  BY DEF DelAtParent, Set, Goto, IInv, LocalsTyped, shared, iter
<1>3. Job(t, "sweep") /\ todo[t] # << >>
  BY <1>1, JobOfPlace DEF Job
<1>4. HeapOK(next', backlink') /\ Stable(next, backlink, next', backlink')
  BY <1>2, StableRefl DEF IInv
<1>5. n[t] \in Was(next) /\ p[t] \in Spots(next) /\ (n[t] \in In(next) => n[t] \in After(next, p[t]))
  BY <1>1 DEF IInv, ThreadOK, SearchOK
<1>6. SeesOK(t)' /\ SearchOK(t)'
  <2>1. Seen(t)'
    BY <1>2, <1>4, <1>5, SeenHere
  <2> QED
    BY <1>2, <1>5, <2>1 DEF SeesOK, SearchOK
<1>7. PopOK(t)' /\ PushOK(t)'
  BY <1>2, <1>3 DEF PopOK, PushOK, Pushing, Job
<1>8. IterOK(t)'
  BY <1>1, <1>2, <1>4, IterKept
<1>9. \A job \in Names : Job(t, job) => pc'[t] \in PlacesOf(job)
  BY <1>2, <1>3 DEF Job, PlacesOf
<1>10. pc[t] \notin ClearPlaces /\ pc'[t] \notin ClearPlaces
  BY <1>1, <1>2 DEF ClearPlaces
<1> QED
  BY <1>1, <1>3, <1>6, <1>7, <1>8, <1>9, <1>10, WalkKeeps DEF StepParts

-----------------------------------------------------------------------------
(* The steps of a push *)

LEMMA LookAtTopKeeps ==
  ASSUME IInv, NEW t \in Threads, LookAtTop(t)
  PROVE  IInv'
<1>1. /\ pc[t] \in {"idle", "again"} /\ Job(t, "push") /\ UNCHANGED <<shared, todo, got, stack, claims>>
      /\ pc'[t] = "load" /\ todo'[t] = todo[t] /\ prev'[t] = prev[t] /\ cur'[t] = cur[t]
      /\ next' = next /\ backlink' = backlink
  BY JobOfPlace DEF LookAtTop, Set, Goto, IInv, LocalsTyped, shared, iter, history
<1>2. SeesOK(t)' /\ SearchOK(t)' /\ PopOK(t)'
  BY <1>1, Quiet
<1>3. OthersStay(t)
  BY OthersKept DEF StepParts
<1>4. PushOK(t)'
  <2>1. CASE pc[t] = "idle"
    <3>1. /\ n'[t] \in Nodes \ Was(next)
          /\ \A u \in Threads : Job(u, "push") => n[u] # n'[t]
      BY <2>1, LinkedIsIn DEF LookAtTop, Set, IInv, LocalsTyped
    <3>2. ASSUME NEW u \in Threads, u # t, Pushing(u)' PROVE n'[u] # n'[t]
      BY <1>3, <3>1, <3>2 DEF OthersStay, Pushing, Job
    <3> QED
      BY <1>1, <3>1, <3>2 DEF PushOK
  <2>2. CASE pc[t] = "again"
    <3>1. n' = n /\ Pushing(t) /\ PushOK(t)
      BY <1>1, <2>2 DEF LookAtTop, Pushing, IInv, ThreadOK
    <3>2. ASSUME NEW u \in Threads, u # t, Pushing(u)' PROVE n'[u] # n'[t]
      <4>1. Pushing(u)
        BY <1>3, <3>2 DEF OthersStay, Pushing, Job
      <4> QED
        BY <3>1, <3>2, <4>1 DEF PushOK
    <3> QED
      BY <1>1, <3>1, <3>2 DEF PushOK
  <2> QED
    BY <1>1, <2>1, <2>2
<1>5. HeapOK(next', backlink') /\ Stable(next, backlink, next', backlink')
  BY <1>1, StableRefl DEF IInv
<1>6. IterOK(t)'
  BY <1>1, <1>5, IterKept DEF Job
<1>7. todo[t] # << >> /\ \A job \in Names : Job(t, job) => pc'[t] \in PlacesOf(job)
  BY <1>1 DEF Job, PlacesOf
<1>8. pc[t] \notin ClearPlaces /\ pc'[t] \notin ClearPlaces
  BY <1>1 DEF ClearPlaces
<1> QED
  BY <1>1, <1>2, <1>4, <1>6, <1>7, <1>8, WalkKeeps DEF StepParts

LEMMA PushPrepares ==
  ASSUME IInv, NEW t \in Threads, PushLoad(t), ~next[List].flag
  PROVE  IInv'
<1>1. /\ pc[t] = "load" /\ pc'[t] \in {"push", "again"} /\ pval'[t] = next[List] /\ n' = n
      /\ next' = [next EXCEPT ![n[t]] = next[List]] /\ backlink' = [backlink EXCEPT ![n[t]] = Null]
      /\ UNCHANGED <<todo, got, stack, claims>>
      /\ prev'[t] = prev[t] /\ cur'[t] = cur[t] /\ todo'[t] = todo[t]
  BY DEF PushLoad, Set, Goto, IInv, LocalsTyped, iter, history, CallClearFlag
<1>2. Job(t, "push") /\ Pushing(t) /\ todo[t] # << >>
  BY <1>1, JobOfPlace DEF Pushing, Job
<1>3. /\ n[t] \in Nodes \ Was(next) /\ \A u \in Threads : Pushing(u) /\ n[u] = n[t] => u = t
  BY <1>2 DEF IInv, ThreadOK, PushOK
<1>4. Prepare(next, backlink, next', backlink', n[t])
  BY <1>1, <1>3 DEF Prepare
<1>5. /\ HeapOK(next', backlink') /\ Stable(next, backlink, next', backlink')
      /\ Was(next') = Was(next)
      /\ next'[n[t]] = next[List] /\ \A r \in All : r # n[t] => next'[r] = next[r]
  BY <1>4, PrepareStep DEF IInv
<1>6. OthersStay(t)
  BY OthersKept DEF StepParts
<1>7. \A u \in Threads : u # t /\ Pushing(u) => n[u] \notin Was(next') /\ next'[n[u]] = next[n[u]]
  <2> SUFFICES ASSUME NEW u \in Threads, u # t, Pushing(u)
               PROVE  n[u] \notin Was(next') /\ next'[n[u]] = next[n[u]]
    OBVIOUS
  <2>1. n[u] \in Nodes \ Was(next) /\ n[u] # n[t]
    BY <1>3 DEF IInv, ThreadOK, PushOK
  <2> QED
    BY <1>5, <2>1 DEF All
<1>8. PushOK(t)'
  <2>1. ASSUME NEW u \in Threads, u # t, Pushing(u)' PROVE n'[u] # n'[t]
    <3>1. Pushing(u)
      BY <1>6, <2>1 DEF OthersStay, Pushing, Job
    <3> QED
      BY <1>1, <1>3, <2>1, <3>1
  <2>2. ~Bits(next[List])
    BY DEF Bits, IInv, HeapOK, BitsOK
  <2> QED
    BY <1>1, <1>3, <1>5, <2>1, <2>2 DEF PushOK
<1>9. got[t] = FALSE /\ stack[t] = << >>
  BY <1>1, NotOwner DEF ClearPlaces
<1>10. ClaimsOK'
  <2>1. \A q \in All, x \in Nodes : next'[q] = Flagged(x) => next[q] = Flagged(x)
    <3> SUFFICES ASSUME NEW q \in All, NEW x \in Nodes, next'[q] = Flagged(x), q = n[t] PROVE FALSE
      BY <1>5
    <3> QED
      BY <1>5 DEF Flagged, Word
  <2> QED
    BY <1>1, <1>5, <1>6, <1>9, <2>1, ClaimsKept
<1>11. SeesOK(t)' /\ SearchOK(t)' /\ PopOK(t)'
  BY <1>1, Quiet
<1>12. StackOK(t)' /\ OwnOK(t)'
  BY <1>1, <1>9 DEF StackOK, OwnOK, ClearPlaces
<1>13. IterOK(t)'
  BY <1>1, <1>5, IterKept
<1>14. PlaceOK(t)'
  BY <1>1, <1>2 DEF PlaceOK, PlacesOf, Job
<1>15. \A u \in Threads : u # t /\ got[u] => claims'[n[u]] = 0
  BY <1>1 DEF IInv, ThreadOK, OwnOK
<1>16. ThreadOK(t)'
  BY <1>8, <1>11, <1>12, <1>13, <1>14 DEF ThreadOK
<1> QED
  BY <1>5, <1>7, <1>10, <1>15, <1>16, StepKeeps DEF StepParts

LEMMA PushKeeps ==
  ASSUME IInv, NEW t \in Threads, Push(t)
  PROVE  IInv'
<1>1. pc[t] = "push" /\ claims' = claims /\ backlink' = backlink /\ StepParts(t) /\ OthersStay(t)
  BY OthersKept DEF Push, StepParts
<1>2. Job(t, "push") /\ Pushing(t) /\ todo[t] # << >>
  BY <1>1, JobOfPlace DEF Pushing, Job
<1>3. /\ n[t] \in Nodes \ Was(next) /\ \A u \in Threads : Pushing(u) /\ n[u] = n[t] => u = t
      /\ next[n[t]] = pval[t] /\ ~Bits(pval[t])
  BY <1>1, <1>2 DEF IInv, ThreadOK, PushOK
<1>4. got[t] = FALSE /\ stack[t] = << >>
  BY <1>1, NotOwner DEF ClearPlaces
<1>5. \A u \in Threads : u # t /\ got[u] => claims'[n[u]] = 0
  BY <1>1 DEF IInv, ThreadOK, OwnOK
<1>6. CASE next[List] = pval[t] /\ next' = Set(next, List, Plain(n[t])) /\ Return(t)
  <2>1. Link(next, backlink, next', backlink', n[t])
    BY <1>1, <1>3, <1>6 DEF Link, Bits, Set
  <2>2. /\ HeapOK(next', backlink') /\ Stable(next, backlink, next', backlink')
        /\ Was(next') = Was(next) \cup {n[t]} /\ \A r \in Nodes : next'[r] = next[r]
    BY <2>1, LinkStep DEF IInv
  <2>3. \A u \in Threads : u # t /\ Pushing(u) => n[u] \notin Was(next') /\ next'[n[u]] = next[n[u]]
    BY <1>3, <2>2 DEF IInv, ThreadOK, PushOK
  <2>4. ClaimsOK'
    <3>1. ASSUME NEW q \in All, NEW x \in Nodes, next'[q] = Flagged(x) PROVE next[q] = Flagged(x)
      <4>1. next'[List] = Plain(n[t])
        BY <1>6 DEF Set, IInv, HeapOK, HeapTyped, All
      <4> QED
        BY <2>2, <3>1, <4>1 DEF All, Plain, Flagged, Word
    <3>2. ASSUME NEW q \in All, NEW x \in Nodes, next'[q] = Flagged(x)
          PROVE  \E u \in Threads : got'[u] /\ n'[u] = x
      <4>1. PICK u \in Threads : got[u] /\ n[u] = x
        BY <3>1, <3>2 DEF IInv, ClaimsOK
      <4> QED
        BY <1>1, <1>4, <4>1 DEF OthersStay
    <3>3. ASSUME NEW x \in Nodes, Gone(next, x) PROVE Gone(next', x)
      BY <2>2, <3>3 DEF Gone, Stable, Was
    <3> QED
      BY <1>1, <3>2, <3>3 DEF IInv, ClaimsOK
  <2> QED
    BY <1>1, <1>5, <1>6, <2>2, <2>3, <2>4, ReturnKeeps
<1>7. CASE Goto(t, "again") /\ UNCHANGED <<next, todo, locals, iter, stack, found>>
  <2>1. /\ pc'[t] = "again" /\ n' = n /\ UNCHANGED <<shared, todo, got, stack, claims>>
        /\ todo'[t] = todo[t] /\ prev'[t] = prev[t] /\ cur'[t] = cur[t] /\ next' = next
    BY <1>1, <1>7 DEF Goto, IInv, LocalsTyped, shared, locals, iter
  <2>2. SeesOK(t)' /\ SearchOK(t)' /\ PopOK(t)'
    BY <2>1, Quiet
  <2>3. PushOK(t)'
    <3>1. ASSUME NEW u \in Threads, u # t, Pushing(u)' PROVE n'[u] # n'[t]
      <4>1. Pushing(u)
        BY <1>1, <3>1 DEF OthersStay, Pushing, Job
      <4> QED
        BY <1>3, <2>1, <3>1, <4>1
    <3> QED
      BY <1>3, <2>1, <3>1 DEF PushOK
  <2>4. IterOK(t)'
    <3>1. HeapOK(next', backlink') /\ Stable(next, backlink, next', backlink')
      BY <1>1, <2>1, StableRefl DEF IInv
    <3> QED
      BY <1>1, <2>1, <3>1, IterKept
  <2>5. \A job \in Names : Job(t, job) => pc'[t] \in PlacesOf(job)
    BY <1>2, <2>1 DEF Job, PlacesOf
  <2>6. pc[t] \notin ClearPlaces /\ pc'[t] \notin ClearPlaces
    BY <1>1, <2>1 DEF ClearPlaces
  <2> QED
    BY <1>1, <1>2, <2>1, <2>2, <2>3, <2>4, <2>5, <2>6, WalkKeeps
<1> QED
  BY <1>6, <1>7 DEF Push

-----------------------------------------------------------------------------
(* clear_flag and rend_the_marked *)

LEMMA CallFrames ==
  ASSUME NEW F, NEW s \in Seq(F), NEW a \in F
  PROVE  /\ <<a>> \o s \in Seq(F) /\ <<a>> \o s # << >> /\ (<<a>> \o s)[1] = a
         /\ \A i \in DOMAIN (<<a>> \o s) : i > 1 => i - 1 \in DOMAIN s /\ (<<a>> \o s)[i] = s[i - 1]
         /\ (<<a>> \o s)[Len(<<a>> \o s)] = IF s = << >> THEN a ELSE s[Len(s)]
OBVIOUS

LEMMA CallOK ==
  ASSUME IInv, NEW t \in Threads, NEW q \in All, NEW x \in Nodes, CallClearFlag(t, q, x),
         pc[t] \in {"flag", "load", "pop", "mark"}, todo'[t] = todo[t],
         prev'[t] = prev[t], cur'[t] = cur[t],
         HeapOK(next', backlink'), Stable(next, backlink, next', backlink'),
         Dying(next', backlink', q, x)
  PROVE  /\ PlaceOK(t)' /\ SeesOK(t)' /\ SearchOK(t)' /\ PopOK(t)' /\ IterOK(t)' /\ StackOK(t)'
         /\ pc'[t] = "clear"
         /\ stack'[t][Len(stack'[t])].n = IF stack[t] = << >> THEN x ELSE stack[t][Len(stack[t])].n
<1>1. PICK a, F : a = [prev |-> q, n |-> x] /\ F = [prev : All, n : Nodes]
  OBVIOUS
<1>2. /\ pc'[t] = "clear" /\ stack'[t] = <<a>> \o stack[t]
      /\ stack[t] \in Seq(F) /\ a \in F /\ a.prev = q /\ a.n = x
  BY <1>1 DEF CallClearFlag, Goto, Set, IInv, LocalsTyped
<1>3. SeesOK(t)' /\ SearchOK(t)' /\ PopOK(t)'
  BY <1>2, Quiet DEF ClearPlaces
<1>4. /\ stack'[t] # << >> /\ stack'[t][1] = a
      /\ \A i \in DOMAIN stack'[t] : i > 1 => i - 1 \in DOMAIN stack[t] /\ stack'[t][i] = stack[t][i - 1]
      /\ stack'[t][Len(stack'[t])] = IF stack[t] = << >> THEN a ELSE stack[t][Len(stack[t])]
      /\ \A i \in DOMAIN stack'[t] : i \in Nat \ {0}
  BY <1>2, CallFrames
<1>5. /\ Was(next) \subseteq Was(next') /\ Spots(next) \subseteq Spots(next')
      /\ Was(next) \subseteq Nodes /\ Spots(next) \subseteq All /\ Null \notin All
      /\ \A y \in Was(next) : backlink[y] # Null => backlink'[y] = backlink[y]
      /\ \A r \in All, y \in Nodes : Dying(next, backlink, r, y) => Dying(next', backlink', r, y)
  BY HeapFacts DEF Stable, Spots, IInv, HeapOK
<1>6. StackOK(t)'
  <2>1. ASSUME NEW i \in DOMAIN stack'[t] PROVE FrameOK(t, i)'
    <3>1. CASE i = 1
      <4>1. q \in Spots(next') /\ x \in Was(next')
        BY DyingFacts
      <4> QED
        BY <1>2, <1>4, <3>1, <4>1 DEF FrameOK
    <3>2. CASE i # 1
      <4>1. PICK j, r, y : j = i - 1 /\ r = stack[t][j].prev /\ y = stack[t][j].n
        OBVIOUS
      <4>2. /\ i > 1 /\ j \in DOMAIN stack[t] /\ stack'[t][i] = stack[t][j]
        BY <1>4, <3>2, <4>1
      <4>3. pc[t] = "mark"
        <5>1. stack[t] # << >>
          BY <4>2
        <5> QED
          BY <5>1, NotOwner DEF ClearPlaces
      <4>4. r \in Spots(next) /\ y \in Was(next) /\ Dying(next, backlink, r, y) /\ backlink[y] = r
        BY <4>1, <4>2, <4>3 DEF IInv, ThreadOK, StackOK, FrameOK
      <4>5. r \in Spots(next') /\ y \in Was(next') /\ Dying(next', backlink', r, y) /\ backlink'[y] = r
        BY <1>5, <4>4
      <4> QED
        BY <4>1, <4>2, <4>5 DEF FrameOK
    <3> QED
      BY <3>1, <3>2
  <2> QED
    BY <1>2, <1>4, <2>1 DEF StackOK, ClearPlaces
<1>7. IterOK(t)'
  BY IterKept DEF IInv
<1>8. PlaceOK(t)'
  <2>1. todo[t] # << >> /\ \A job \in Names : Job(t, job) => pc[t] \in PlacesOf(job)
    BY JobFacts
  <2> QED
    BY <1>2, <2>1 DEF PlaceOK, Job, Names, PlacesOf, ClearPlaces
<1> QED
  BY <1>2, <1>3, <1>4, <1>6, <1>7, <1>8

\* A call that completes a deletion which somebody else began.
LEMMA HelpKeeps ==
  ASSUME IInv, NEW t \in Threads, StepParts(t), NEW q \in All, NEW x \in Nodes, CallClearFlag(t, q, x),
         pc[t] \in {"flag", "load", "mark"}, UNCHANGED <<shared, todo, n, got, iter, claims>>,
         Dying(next, backlink, q, x)
  PROVE  IInv'
<1>1. /\ next' = next /\ backlink' = backlink /\ todo'[t] = todo[t] /\ n' = n /\ got' = got /\ claims' = claims
      /\ prev'[t] = prev[t] /\ cur'[t] = cur[t]
  BY DEF shared, iter
<1>2. HeapOK(next', backlink') /\ Stable(next, backlink, next', backlink')
  BY <1>1, StableRefl DEF IInv
<1>3. OthersStay(t)
  BY OthersKept
<1>4. /\ PlaceOK(t)' /\ SeesOK(t)' /\ SearchOK(t)' /\ PopOK(t)' /\ IterOK(t)' /\ StackOK(t)'
      /\ pc'[t] = "clear"
      /\ stack'[t][Len(stack'[t])].n = IF stack[t] = << >> THEN x ELSE stack[t][Len(stack[t])].n
  <2>1. Dying(next', backlink', q, x)
    BY <1>1
  <2>2. pc[t] \in {"flag", "load", "pop", "mark"}
    OBVIOUS
  <2> QED
    BY <1>1, <1>2, <2>1, <2>2, CallOK
<1>5. PushOK(t)'
  <2>1. Pushing(t)' <=> Pushing(t)
    BY <1>1, <1>4 DEF Pushing, Job
  <2>2. PushOK(t)
    BY DEF IInv, ThreadOK
  <2>3. ASSUME NEW u \in Threads, Pushing(u)' PROVE Pushing(u)
    BY <1>3, <2>1, <2>3 DEF OthersStay, Pushing, Job
  <2> QED
    BY <1>1, <1>4, <2>1, <2>2, <2>3 DEF PushOK
<1>6. OwnOK(t)'
  <2> SUFFICES ASSUME got[t] PROVE OwnOK(t)'
    BY <1>1 DEF OwnOK
  <2>1. OwnOK(t) /\ stack[t] # << >>
    BY DEF IInv, ThreadOK, OwnOK, StackOK
  <2> QED
    BY <1>1, <1>4, <2>1 DEF OwnOK, Job, ClearPlaces
<1>7. ClaimsOK'
  BY <1>1, <1>2, <1>3, ClaimsKept
<1>8. \A u \in Threads : u # t /\ Pushing(u) => n[u] \notin Was(next') /\ next'[n[u]] = next[n[u]]
  BY <1>1, OthersPushSame
<1>9. \A u \in Threads : u # t /\ got[u] => claims'[n[u]] = 0
  BY <1>1 DEF IInv, ThreadOK, OwnOK
<1>10. ThreadOK(t)'
  BY <1>4, <1>5, <1>6 DEF ThreadOK
<1> QED
  BY <1>2, <1>7, <1>8, <1>9, <1>10, StepKeeps

\* Nobody is removing a node that a plain pointer of the list leads to.
LEMMA FreshFlag ==
  ASSUME IInv, NEW q \in Spots(next), NEW x \in Nodes, next[q] = Plain(x)
  PROVE  claims[x] = 0 /\ \A u \in Threads : ~(got[u] /\ n[u] = x)
<1>1. ~next[q].mark /\ next[q].ptr = x /\ ~next[q].flag
  BY DEF Plain, Word
<1>2. x \in In(next)
  <2>1. q \in In(next) \cup {List} /\ x # Null
    BY <1>1, ListFacts, NodesAssumption DEF IInv, HeapOK
  <2> QED
    BY <1>1, <2>1, ListFacts DEF Closed, IInv, HeapOK
<1>3. claims[x] = 0
  BY <1>2 DEF IInv, ClaimsOK, Gone
<1>4. ASSUME NEW u \in Threads, got[u], n[u] = x PROVE FALSE
  <2>1. pc[u] \in ClearPlaces /\ stack[u][Len(stack[u])].n = x
    BY <1>4 DEF IInv, ThreadOK, OwnOK
  <2>2. Len(stack[u]) \in DOMAIN stack[u]
    <3>1. stack[u] # << >> /\ stack[u] \in Seq([prev : All, n : Nodes])
      BY <2>1 DEF IInv, ThreadOK, StackOK, LocalsTyped
    <3> QED
      BY <3>1
  <2>3. PICK r : r = stack[u][Len(stack[u])].prev
    OBVIOUS
  <2>4. r \in Spots(next) /\ Dying(next, backlink, r, x)
    BY <2>1, <2>2, <2>3 DEF IInv, ThreadOK, StackOK, FrameOK
  <2>5. next[r] = Flagged(x)
    BY <1>2, <2>4 DEF Dying, Gone
  <2>6. ~next[r].mark /\ next[r].ptr = x /\ next[r].flag
    BY <2>5 DEF Flagged, Word
  <2>7. x # Null
    BY NodesAssumption
  <2>8. r = q
    BY <1>1, <2>4, <2>6, <2>7, OneParent DEF IInv
  <2> QED
    BY <1>1, <2>6, <2>8
<1> QED
  BY <1>3, <1>4

\* A call for a flag that the thread has set itself.
LEMMA OwnFlagKeeps ==
  ASSUME IInv, NEW t \in Threads, StepParts(t), NEW q \in Spots(next), NEW x \in Nodes, CallClearFlag(t, q, x),
         pc[t] \in {"flag", "pop"}, next[q] = Plain(x), next' = Set(next, q, Flagged(x)),
         n'[t] = x, got' = Set(got, t, TRUE), UNCHANGED <<backlink, todo, iter, claims>>
  PROVE  IInv'
<1>1. /\ todo'[t] = todo[t] /\ claims' = claims /\ prev'[t] = prev[t] /\ cur'[t] = cur[t]
      /\ next' = [next EXCEPT ![q] = Flagged(x)] /\ backlink' = backlink /\ q \in All /\ q \in Spots(next)
  BY HeapFacts DEF iter, Set, IInv, HeapOK
<1>2. SetFlag(next, backlink, next', backlink', q, x)
  BY <1>1 DEF SetFlag
<1>3. /\ HeapOK(next', backlink') /\ Stable(next, backlink, next', backlink')
      /\ In(next') = In(next) /\ Was(next') = Was(next)
  BY <1>2, FlagStep DEF IInv
<1>4. next'[q] = Flagged(x) /\ \A r \in All : r # q => next'[r] = next[r]
  BY <1>1 DEF IInv, HeapOK, HeapTyped
<1>5. OthersStay(t)
  BY OthersKept
<1>6. /\ PlaceOK(t)' /\ SeesOK(t)' /\ SearchOK(t)' /\ PopOK(t)' /\ IterOK(t)' /\ StackOK(t)'
      /\ pc'[t] = "clear"
      /\ stack'[t][Len(stack'[t])].n = IF stack[t] = << >> THEN x ELSE stack[t][Len(stack[t])].n
  <2>1. Dying(next', backlink', q, x)
    BY <1>4 DEF Dying
  <2>2. pc[t] \in {"flag", "load", "pop", "mark"}
    OBVIOUS
  <2> QED
    BY <1>1, <1>3, <2>1, <2>2, CallOK
<1>7. stack[t] = << >> /\ got[t] = FALSE
  BY NotOwner DEF ClearPlaces
<1>8. ~Job(t, "push")
  BY JobOfPlace
<1>9. PushOK(t)'
  BY <1>1, <1>6, <1>8 DEF PushOK, Pushing, Job
<1>10. claims[x] = 0 /\ \A u \in Threads : ~(got[u] /\ n[u] = x)
  BY FreshFlag
<1>11. OwnOK(t)'
  <2>1. \A u \in Threads : got'[u] /\ n'[u] = x => u = t
    BY <1>5, <1>10 DEF OthersStay
  <2> QED
    BY <1>1, <1>6, <1>7, <1>8, <1>10, <2>1 DEF OwnOK, ClearPlaces, Job
<1>12. ClaimsOK'
  <2>1. got'[t] = TRUE
    BY DEF Set, IInv, LocalsTyped
  <2>2. ASSUME NEW r \in All, NEW y \in Nodes, next'[r] = Flagged(y)
        PROVE  \E u \in Threads : got'[u] /\ n'[u] = y
    <3>1. CASE r = q
      <4>1. y = x
        BY <1>4, <2>2, <3>1 DEF Flagged, Word
      <4> QED
        BY <2>1, <4>1
    <3>2. CASE r # q
      <4>1. PICK u \in Threads : got[u] /\ n[u] = y
        BY <1>4, <2>2, <3>2 DEF IInv, ClaimsOK
      <4> QED
        BY <1>5, <1>7, <4>1 DEF OthersStay
    <3> QED
      BY <3>1, <3>2
  <2>3. ASSUME NEW y \in Nodes, Gone(next, y) PROVE Gone(next', y)
    BY <1>3, <2>3 DEF Gone, Stable
  <2> QED
    BY <1>1, <2>2, <2>3 DEF IInv, ClaimsOK
<1>13. \A u \in Threads : u # t /\ Pushing(u) => n[u] \notin Was(next') /\ next'[n[u]] = next[n[u]]
  <2>1. \A y \in Nodes \ Was(next) : next'[y] = next[y]
    BY <1>1, <1>4, NodesAssumption DEF All, Spots
  <2> QED
    BY <1>3, <2>1, OthersPushSame
<1>14. \A u \in Threads : u # t /\ got[u] => claims'[n[u]] = 0
  BY <1>1 DEF IInv, ThreadOK, OwnOK
<1>15. ThreadOK(t)'
  BY <1>6, <1>9, <1>11 DEF ThreadOK
<1> QED
  BY <1>3, <1>12, <1>13, <1>14, <1>15, StepKeeps

LEMMA TryFlagKeeps ==
  ASSUME IInv, NEW t \in Threads, TryFlag(t)
  PROVE  IInv'
<1>1. pc[t] = "flag" /\ UNCHANGED <<todo, iter, history>> /\ StepParts(t)
  BY DEF TryFlag, StepParts
<1>2. /\ Seen(t) /\ p[t] \in Spots(next) /\ p[t] \in All /\ n[t] \in Nodes
      /\ n[t] \in In(next) => n[t] \in After(next, p[t])
  BY <1>1, LocalFacts DEF IInv, ThreadOK, SeesOK, SearchOK
<1>3. CASE /\ Flagged(n[t]) \in {pval[t], next[p[t]]}
           /\ CallClearFlag(t, p[t], n[t]) /\ UNCHANGED <<shared, locals>>
  <2>1. Dying(next, backlink, p[t], n[t])
    <3>1. CASE next[p[t]] = Flagged(n[t])
      BY <3>1 DEF Dying
    <3>2. CASE pval[t] = Flagged(n[t])
      BY <1>2, <3>2 DEF Seen, Flagged, Word
    <3> QED
      BY <1>3, <3>1, <3>2
  <2>2. UNCHANGED <<shared, todo, n, got, iter, claims>>
    BY <1>1, <1>3 DEF locals, history
  <2>3. pc[t] \in {"flag", "load", "mark"}
    BY <1>1
  <2> QED
    BY <1>1, <1>2, <1>3, <2>1, <2>2, <2>3, HelpKeeps
<1>4. CASE /\ next[p[t]] = Plain(n[t]) /\ next' = Set(next, p[t], Flagged(n[t]))
           /\ CallClearFlag(t, p[t], n[t]) /\ got' = Set(got, t, TRUE)
           /\ UNCHANGED <<backlink, p, pval, n, nval, top>>
  <2>1. pc[t] \in {"flag", "pop"} /\ UNCHANGED <<backlink, todo, iter, claims>> /\ n'[t] = n[t]
    BY <1>1, <1>4 DEF history
  <2> QED
    BY <1>1, <1>2, <1>4, <2>1, OwnFlagKeeps
<1>5. CASE SearchFrom(t, p[t], next[p[t]]) /\ UNCHANGED <<shared, stack>>
  <2>1. pc[t] \in {"flag", "back"} /\ UNCHANGED <<shared, todo, stack, iter, history>>
    BY <1>1, <1>5
  <2> QED
    BY <1>1, <1>2, <1>5, <2>1, SearchFromKeeps
<1> QED
  BY <1>3, <1>4, <1>5 DEF TryFlag

LEMMA PushLoadKeeps ==
  ASSUME IInv, NEW t \in Threads, PushLoad(t)
  PROVE  IInv'
<1>1. CASE next[List].flag
  <2>1. /\ pc[t] = "load" /\ CallClearFlag(t, List, next[List].ptr)
        /\ UNCHANGED <<shared, todo, n, got, iter, claims>>
    BY <1>1 DEF PushLoad, history
  <2>2. List \in Spots(next) /\ List \in All
    BY DEF Spots, All
  <2>3. Dying(next, backlink, List, next[List].ptr) /\ next[List].ptr \in Nodes
    BY <1>1, <2>2, SeenNow, LocalFacts DEF IInv
  <2>4. pc[t] \in {"flag", "load", "mark"} /\ StepParts(t)
    BY <2>1 DEF StepParts
  <2> QED
    BY <2>1, <2>2, <2>3, <2>4, HelpKeeps
<1> QED
  BY <1>1, PushPrepares

LEMMA PopFlagsKeeps ==
  ASSUME IInv, NEW t \in Threads, PopFlags(t)
  PROVE  IInv'
<1>1. CASE next[p[t]] = pval[t]
  <2>1. PICK q, x : q = p[t] /\ x = pval[t].ptr
    OBVIOUS
  <2>2. /\ pc[t] = "pop" /\ x # Null /\ ~Bits(pval[t]) /\ next' = Set(next, q, Flagged(x))
        /\ n'[t] = x /\ got' = Set(got, t, TRUE) /\ CallClearFlag(t, q, x)
        /\ UNCHANGED <<backlink, todo, iter, claims>>
    BY <1>1, <2>1 DEF PopFlags, history, Set, IInv, LocalsTyped
  <2>3. q \in Spots(next) /\ x \in Nodes /\ q \in All
    BY <2>1, <2>2, LocalFacts DEF IInv, ThreadOK, SeesOK, Seen
  <2>4. next[q] = Plain(x)
    <3>1. /\ next[q] = Word(next[q].ptr, next[q].flag, next[q].mark)
          /\ next[q].flag \in BOOLEAN /\ next[q].mark \in BOOLEAN
      BY <2>3, HeapFacts DEF IInv, HeapOK
    <3> QED
      BY <1>1, <2>1, <2>2, <3>1 DEF Bits, Plain
  <2>5. pc[t] \in {"flag", "pop"} /\ StepParts(t)
    BY <2>2 DEF StepParts
  <2> QED
    BY <2>2, <2>3, <2>4, <2>5, OwnFlagKeeps
<1> QED
  BY <1>1, PopRetries

\* What a thread in clear_flag knows of its innermost call.
LEMMA FrameFacts ==
  ASSUME IInv, NEW t \in Threads, pc[t] \in ClearPlaces
  PROVE  /\ stack[t][1].prev \in Spots(next) /\ stack[t][1].prev \in All
         /\ stack[t][1].n \in Was(next) /\ stack[t][1].n \in Nodes
         /\ Dying(next, backlink, stack[t][1].prev, stack[t][1].n)
         /\ pc[t] # "clear" => backlink[stack[t][1].n] = stack[t][1].prev
BY LocalFacts DEF IInv, ThreadOK, StackOK, FrameOK

LEMMA ClearBeginsKeeps ==
  ASSUME IInv, NEW t \in Threads, ClearBegins(t)
  PROVE  IInv'
<1>1. PICK q, x : q = stack[t][1].prev /\ x = stack[t][1].n
  OBVIOUS
<1>2. /\ pc[t] = "clear" /\ pc'[t] = "mark" /\ next' = next /\ backlink' = [backlink EXCEPT ![x] = q]
      /\ todo'[t] = todo[t] /\ prev'[t] = prev[t] /\ cur'[t] = cur[t] /\ claims' = claims
      /\ n' = n /\ got' = got /\ stack'[t] = stack[t] /\ StepParts(t)
  BY <1>1 DEF ClearBegins, Set, Goto, IInv, LocalsTyped, locals, iter, history, StepParts
<1>3. q \in Spots(next) /\ q \in All /\ x \in Nodes /\ Dying(next, backlink, q, x) /\ x \in Was(next)
  BY <1>1, <1>2, FrameFacts DEF ClearPlaces
<1>4. SetBacklink(next, backlink, next', backlink', q, x)
  BY <1>2, <1>3 DEF SetBacklink
<1>5. /\ HeapOK(next', backlink') /\ Stable(next, backlink, next', backlink')
      /\ Was(next') = Was(next) /\ backlink'[x] = q
  BY <1>4, BacklinkStep DEF IInv
<1>6. OthersStay(t)
  BY <1>2, OthersKept
<1>7. SeesOK(t)' /\ SearchOK(t)' /\ PopOK(t)'
  BY <1>2, Quiet DEF ClearPlaces
<1>8. StackOK(t)'
  <2>1. StackOK(t) /\ stack[t] \in Seq([prev : All, n : Nodes])
    BY DEF IInv, ThreadOK, LocalsTyped
  <2>2. ASSUME NEW i \in DOMAIN stack[t] PROVE FrameOK(t, i)'
    <3>1. PICK r, y : r = stack[t][i].prev /\ y = stack[t][i].n
      OBVIOUS
    <3>2. /\ r \in Spots(next) /\ y \in Was(next) /\ Dying(next, backlink, r, y)
          /\ i > 1 => backlink[y] = r
      BY <2>1, <3>1 DEF StackOK, FrameOK
    <3>3. r \in All /\ r # Null /\ y \in Nodes
      BY <3>2, HeapFacts DEF IInv, HeapOK
    <3>4. r \in Spots(next') /\ y \in Was(next') /\ Dying(next', backlink', r, y)
      BY <1>5, <3>2, <3>3 DEF Stable, Spots
    <3>5. backlink'[y] = r
      <4>1. CASE i = 1
        BY <1>1, <1>5, <3>1, <4>1
      <4>2. CASE i # 1
        <5>1. i > 1
          BY <2>1, <4>2
        <5> QED
          BY <1>5, <3>2, <3>3, <5>1 DEF Stable
      <4> QED
        BY <4>1, <4>2
    <3> QED
      BY <1>2, <3>1, <3>4, <3>5 DEF FrameOK
  <2> QED
    BY <1>2, <2>1, <2>2 DEF StackOK, ClearPlaces
<1>9. PlaceOK(t)'
  <2>1. todo[t] # << >> /\ \A job \in Names : Job(t, job) => pc[t] \in PlacesOf(job)
    BY <1>2, JobFacts
  <2> QED
    BY <1>2, <2>1 DEF PlaceOK, Job, Names, PlacesOf, ClearPlaces
<1>10. IterOK(t)'
  BY <1>2, <1>5, IterKept
<1>11. PushOK(t)' /\ OwnOK(t)'
  <2>1. PushOK(t) /\ OwnOK(t) /\ (Pushing(t)' <=> Pushing(t))
    BY <1>2 DEF IInv, ThreadOK, Pushing, Job
  <2>2. ASSUME NEW u \in Threads, Pushing(u)' PROVE Pushing(u)
    BY <1>6, <2>1, <2>2 DEF OthersStay, Pushing, Job
  <2>3. PushOK(t)'
    BY <1>2, <1>5, <2>1, <2>2 DEF PushOK
  <2>4. OwnOK(t)'
    BY <1>2, <2>1 DEF OwnOK, Job, ClearPlaces
  <2> QED
    BY <2>3, <2>4
<1>12. ClaimsOK'
  BY <1>2, <1>5, <1>6, ClaimsKept
<1>13. \A u \in Threads : u # t /\ Pushing(u) => n[u] \notin Was(next') /\ next'[n[u]] = next[n[u]]
  BY <1>2, OthersPushSame
<1>14. \A u \in Threads : u # t /\ got[u] => claims'[n[u]] = 0
  BY <1>2 DEF IInv, ThreadOK, OwnOK
<1>15. ThreadOK(t)'
  BY <1>7, <1>8, <1>9, <1>10, <1>11 DEF ThreadOK
<1> QED
  BY <1>2, <1>5, <1>12, <1>13, <1>14, <1>15, StepKeeps

LEMMA MarkKeeps ==
  ASSUME IInv, NEW t \in Threads, Mark(t)
  PROVE  IInv'
<1>1. PICK q, x, w : q = stack[t][1].prev /\ x = stack[t][1].n /\ w = next[x]
  OBVIOUS
<1>2. pc[t] = "mark" /\ StepParts(t) /\ UNCHANGED <<backlink, todo, n, got, iter, claims>>
  BY DEF Mark, StepParts, history
<1>3. q \in Spots(next) /\ q \in All /\ x \in Nodes /\ x \in Was(next) /\ backlink[x] = q
  BY <1>1, <1>2, FrameFacts DEF ClearPlaces
<1>4. CASE ~w.mark /\ w.flag
  <2>1. CallClearFlag(t, x, w.ptr) /\ UNCHANGED shared
    BY <1>1, <1>4 DEF Mark, shared
  <2>2. x \in Spots(next) /\ x \in All
    BY <1>3 DEF Spots, All
  <2>3. w.ptr \in Nodes /\ Dying(next, backlink, x, w.ptr)
    BY <1>1, <1>4, <2>2, SeenNow, LocalFacts DEF IInv
  <2>4. pc[t] \in {"flag", "load", "mark"} /\ UNCHANGED <<shared, todo, n, got, iter, claims>>
    BY <1>2, <2>1
  <2> QED
    BY <1>2, <2>1, <2>2, <2>3, <2>4, HelpKeeps
<1>5. CASE w.mark \/ ~w.flag
  <2>1. /\ pc'[t] = "rend" /\ nval'[t] = [w EXCEPT !.mark = TRUE] /\ stack'[t] = stack[t]
        /\ next' = [next EXCEPT ![x] = [next[x] EXCEPT !.mark = TRUE]] /\ backlink' = backlink
        /\ n' = n /\ got' = got /\ claims' = claims
        /\ todo'[t] = todo[t] /\ prev'[t] = prev[t] /\ cur'[t] = cur[t]
    BY <1>1, <1>2, <1>5 DEF Mark, Set, Goto, IInv, LocalsTyped, iter
  <2>2. SetMark(next, backlink, next', backlink', x)
    <3>1. ~next[x].flag
      BY <1>1, <1>3, <1>5 DEF IInv, HeapOK, BitsOK
    <3>2. q # Null
      BY <1>3, NodesAssumption DEF All
    <3> QED
      BY <1>3, <2>1, <3>1, <3>2 DEF SetMark
  <2>3. /\ HeapOK(next', backlink') /\ Stable(next, backlink, next', backlink')
        /\ Was(next') = Was(next) /\ next'[x] = [next[x] EXCEPT !.mark = TRUE]
    BY <2>2, MarkStep DEF IInv
  <2>4. next'[x] = nval'[t] /\ next'[x].mark /\ \A r \in All : r # x => next'[r] = next[r]
    <3>1. next[x] \in Words /\ next \in [All -> Words] /\ x \in All
      BY <1>3, LocalFacts DEF All
    <3>2. next'[x] = nval'[t]
      BY <1>1, <2>1, <2>3
    <3>3. next'[x].mark
      BY <2>3, <3>1 DEF Words
    <3>4. \A r \in All : r # x => next'[r] = next[r]
      BY <2>1, <3>1
    <3> QED
      BY <3>2, <3>3, <3>4
  <2>5. OthersStay(t)
    BY <1>2, OthersKept
  <2>6. SeesOK(t)' /\ SearchOK(t)' /\ PopOK(t)'
    BY <2>1, Quiet DEF ClearPlaces
  <2>7. StackOK(t)'
    <3>1. StackOK(t)
      BY DEF IInv, ThreadOK
    <3>2. ASSUME NEW i \in DOMAIN stack[t] PROVE FrameOK(t, i)'
      <4>1. PICK r, y : r = stack[t][i].prev /\ y = stack[t][i].n
        OBVIOUS
      <4>2. r \in Spots(next) /\ y \in Was(next) /\ Dying(next, backlink, r, y) /\ backlink[y] = r
        BY <1>2, <3>1, <4>1 DEF StackOK, FrameOK
      <4>3. r \in All /\ y \in Nodes
        BY <4>2, HeapFacts DEF IInv, HeapOK
      <4>4. r \in Spots(next') /\ y \in Was(next') /\ Dying(next', backlink', r, y)
        BY <2>3, <4>2, <4>3 DEF Stable, Spots
      <4> QED
        BY <2>1, <4>1, <4>2, <4>4 DEF FrameOK
    <3> QED
      BY <1>1, <1>2, <2>1, <2>4, <3>1, <3>2 DEF StackOK, ClearPlaces
  <2>8. PlaceOK(t)'
    <3>1. todo[t] # << >> /\ \A job \in Names : Job(t, job) => pc[t] \in PlacesOf(job)
      BY <1>2, JobFacts
    <3> QED
      BY <1>2, <2>1, <3>1 DEF PlaceOK, Job, Names, PlacesOf, ClearPlaces
  <2>9. IterOK(t)'
    BY <1>2, <2>1, <2>3, IterKept
  <2>10. PushOK(t)' /\ OwnOK(t)'
    <3>1. PushOK(t) /\ OwnOK(t) /\ (Pushing(t)' <=> Pushing(t))
      BY <1>2, <2>1 DEF IInv, ThreadOK, Pushing, Job
    <3>2. ASSUME NEW u \in Threads, Pushing(u)' PROVE Pushing(u)
      BY <2>5, <3>1, <3>2 DEF OthersStay, Pushing, Job
    <3>3. PushOK(t)'
      BY <2>1, <2>3, <3>1, <3>2 DEF PushOK
    <3>4. OwnOK(t)'
      BY <2>1, <3>1 DEF OwnOK, Job, ClearPlaces
    <3> QED
      BY <3>3, <3>4
  <2>11. ClaimsOK'
    <3>1. \A r \in All, y \in Nodes : next'[r] = Flagged(y) => next[r] = Flagged(y)
      <4>1. \A y \in Nodes : next'[x] # Flagged(y)
        BY <2>4 DEF Flagged, Word
      <4> QED
        BY <2>4, <4>1
    <3> QED
      BY <2>1, <2>3, <2>5, <3>1, ClaimsKept
  <2>12. \A u \in Threads : u # t /\ Pushing(u) => n[u] \notin Was(next') /\ next'[n[u]] = next[n[u]]
    <3>1. \A y \in Nodes \ Was(next) : next'[y] = next[y]
      BY <1>3, <2>4 DEF All
    <3> QED
      BY <2>3, <3>1, OthersPushSame
  <2>13. \A u \in Threads : u # t /\ got[u] => claims'[n[u]] = 0
    BY <2>1 DEF IInv, ThreadOK, OwnOK
  <2>14. ThreadOK(t)'
    BY <2>6, <2>7, <2>8, <2>9, <2>10 DEF ThreadOK
  <2> QED
    BY <1>2, <2>3, <2>11, <2>12, <2>13, <2>14, StepKeeps
<1> QED
  BY <1>4, <1>5

\* Whether or not x is still there to be cut off, it has gone after it.
LEMMA RendStep ==
  ASSUME IInv, NEW q \in All, NEW x \in Nodes, Dying(next, backlink, q, x), next[x].mark,
         Rend(q, x, next[x]), backlink' = backlink
  PROVE  /\ HeapOK(next', backlink') /\ Stable(next, backlink, next', backlink')
         /\ Was(next') = Was(next) /\ Gone(next', x) /\ next'[x] = next[x]
         /\ \A y \in Nodes \ Was(next) : next'[y] = next[y]
         /\ \A r \in All, y \in Nodes : next'[r] = Flagged(y) => next[r] = Flagged(y)
<1>1. CASE next[q] = Flagged(x)
  <2>1. Cut(next, backlink, next', backlink', q, x)
    BY <1>1 DEF Cut, Rend, Set
  <2>2. /\ HeapOK(next', backlink') /\ Stable(next, backlink, next', backlink')
        /\ Was(next') = Was(next) /\ Gone(next', x)
        /\ ~next'[q].flag /\ \A r \in All : r # q => next'[r] = next[r]
    BY <2>1, CutStep DEF IInv
  <2>3. q \in Spots(next) /\ q # x
    BY <1>1, FlagFacts DEF IInv
  <2>4. \A y \in Nodes \ Was(next) : y # q
    BY <2>3, NodesAssumption DEF Spots
  <2>5. \A r \in All, y \in Nodes : next'[r] = Flagged(y) => next[r] = Flagged(y)
    <3>1. \A y \in Nodes : next'[q] # Flagged(y)
      BY <2>2 DEF Flagged, Word
    <3> QED
      BY <2>2, <3>1
  <2> QED
    BY <2>2, <2>3, <2>4, <2>5 DEF All
<1>2. CASE next[q] # Flagged(x)
  <2>1. next' = next /\ Gone(next, x)
    BY <1>2 DEF Rend, Dying
  <2> QED
    BY <2>1, StableRefl DEF IInv
<1> QED
  BY <1>1, <1>2

LEMMA TailFrames ==
  ASSUME NEW F, NEW s \in Seq(F), s # << >>, Len(s) # 1
  PROVE  /\ Tail(s) # << >> /\ Tail(s)[Len(Tail(s))] = s[Len(s)]
         /\ \A i \in DOMAIN Tail(s) : i + 1 \in DOMAIN s /\ i + 1 > 1 /\ Tail(s)[i] = s[i + 1]
<1>1. Len(s) \in Nat /\ Len(s) > 1 /\ DOMAIN s = 1 .. Len(s)
  <2>1. Len(s) \in Nat /\ DOMAIN s = 1 .. Len(s)
    OBVIOUS
  <2>2. Len(s) \in Nat \ {0}
    OBVIOUS
  <2> QED
    BY <2>1, <2>2
<1>2. /\ Len(Tail(s)) = Len(s) - 1 /\ DOMAIN Tail(s) = 1 .. Len(s) - 1
      /\ \A i \in 1 .. Len(s) - 1 : Tail(s)[i] = s[i + 1]
  BY <1>1
<1>3. Tail(s) # << >>
  <2>1. Tail(s) = << >> => DOMAIN Tail(s) = {}
    OBVIOUS
  <2>2. 1 \in 1 .. Len(s) - 1
    BY <1>1
  <2> QED
    BY <1>2, <2>1, <2>2
<1>4. Tail(s)[Len(Tail(s))] = s[Len(s)]
  BY <1>1, <1>2
<1>5. ASSUME NEW i \in DOMAIN Tail(s) PROVE i + 1 \in DOMAIN s /\ i + 1 > 1 /\ Tail(s)[i] = s[i + 1]
  BY <1>1, <1>2
<1> QED
  BY <1>3, <1>4, <1>5

LEMMA CutOffKeeps ==
  ASSUME IInv, NEW t \in Threads, CutOff(t)
  PROVE  IInv'
<1>1. PICK q, x : q = stack[t][1].prev /\ x = stack[t][1].n
  OBVIOUS
<1>2. pc[t] = "rend" /\ backlink' = backlink /\ Rend(q, x, nval[t]) /\ StepParts(t) /\ OthersStay(t)
  BY <1>1, OthersKept DEF CutOff, StepParts
<1>3. /\ q \in Spots(next) /\ q \in All /\ x \in Was(next) /\ x \in Nodes /\ Dying(next, backlink, q, x)
      /\ backlink[x] = q /\ nval[t] = next[x] /\ next[x].mark
  BY <1>1, <1>2, FrameFacts DEF ClearPlaces, IInv, ThreadOK, StackOK
<1>4. /\ HeapOK(next', backlink') /\ Stable(next, backlink, next', backlink')
      /\ Was(next') = Was(next) /\ Gone(next', x)
      /\ \A y \in Nodes \ Was(next) : next'[y] = next[y]
      /\ \A r \in All, y \in Nodes : next'[r] = Flagged(y) => next[r] = Flagged(y)
  BY <1>2, <1>3, RendStep
<1>5. \A u \in Threads : u # t /\ Pushing(u) => n[u] \notin Was(next') /\ next'[n[u]] = next[n[u]]
  BY <1>4, OthersPushSame
<1>6. /\ stack[t] # << >> /\ stack[t] \in Seq([prev : All, n : Nodes]) /\ Len(stack[t]) \in Nat \ {0}
  BY <1>2, LocalFacts DEF IInv, ThreadOK, StackOK, ClearPlaces, LocalsTyped
<1>7. CASE Len(stack[t]) = 1 /\ Job(t, "push")
  <2>1. /\ pc'[t] = "load" /\ stack'[t] = << >> /\ claims' = claims /\ todo'[t] = todo[t]
        /\ prev'[t] = prev[t] /\ cur'[t] = cur[t] /\ n' = n /\ got' = got
    BY <1>7 DEF CutOff, ClearReturns, Goto, Set, IInv, LocalsTyped, locals, iter, history
  <2>2. got[t] = FALSE
    BY <1>7 DEF IInv, ThreadOK, OwnOK, LocalsTyped
  <2>3. SeesOK(t)' /\ SearchOK(t)' /\ PopOK(t)'
    BY <2>1, Quiet
  <2>4. StackOK(t)' /\ OwnOK(t)' /\ PlaceOK(t)'
    <3>1. StackOK(t)' /\ OwnOK(t)'
      BY <2>1, <2>2 DEF StackOK, OwnOK, ClearPlaces
    <3>2. PlaceOK(t)'
      BY <1>7, <2>1 DEF PlaceOK, Job, PlacesOf
    <3> QED
      BY <3>1, <3>2
  <2>5. IterOK(t)'
    BY <1>2, <1>4, <2>1, IterKept
  <2>6. PushOK(t)'
    <3>1. Pushing(t) /\ PushOK(t)
      BY <1>2, <1>7 DEF Pushing, IInv, ThreadOK
    <3>2. ASSUME NEW u \in Threads, Pushing(u)' PROVE Pushing(u)
      BY <1>2, <3>1, <3>2 DEF OthersStay, Pushing, Job
    <3> QED
      BY <1>4, <2>1, <3>1, <3>2 DEF PushOK
  <2>7. ClaimsOK'
    BY <1>2, <1>4, <2>1, ClaimsKept
  <2>8. \A u \in Threads : u # t /\ got[u] => claims'[n[u]] = 0
    BY <2>1 DEF IInv, ThreadOK, OwnOK
  <2>9. ThreadOK(t)'
    BY <2>3, <2>4, <2>5, <2>6 DEF ThreadOK
  <2> QED
    BY <1>2, <1>4, <1>5, <2>7, <2>8, <2>9, StepKeeps
<1>8. CASE Len(stack[t]) = 1 /\ ~Job(t, "push")
  <2>1. /\ Return(t) /\ claims' = IF got[t] THEN Set(claims, n[t], claims[n[t]] + 1) ELSE claims
    BY <1>8 DEF CutOff, ClearReturns
  <2>2. got[t] => n[t] = x /\ claims[x] = 0
    <3>1. OwnOK(t)
      BY DEF IInv, ThreadOK
    <3> QED
      BY <1>1, <1>8, <3>1 DEF OwnOK
  <2>3. /\ got[t] => claims'[x] = 1
        /\ \A y \in Nodes : ~(got[t] /\ y = x) => claims'[y] = claims[y]
    BY <1>3, <2>1, <2>2 DEF Set, IInv, LocalsTyped
  <2>4. ASSUME NEW u \in Threads, u # t, got[u] PROVE claims'[n[u]] = 0
    <3>1. OwnOK(u)
      BY DEF IInv, ThreadOK
    <3>2. claims[n[u]] = 0 /\ (got[t] => n[u] # n[t])
      BY <2>4, <3>1 DEF OwnOK
    <3> QED
      BY <2>1, <2>2, <3>2 DEF Set, IInv, LocalsTyped
  <2>5. ClaimsOK'
    <3>1. ASSUME NEW r \in All, NEW y \in Nodes, next'[r] = Flagged(y)
          PROVE  \E u \in Threads : got'[u] /\ n'[u] = y
      <4>1. PICK u \in Threads : got[u] /\ n[u] = y
        BY <1>4, <3>1 DEF IInv, ClaimsOK
      <4>2. y \in In(next')
        BY <1>4, <3>1, FlagFacts
      <4>3. y # x
        BY <1>4, <4>2 DEF Gone
      <4> QED
        BY <1>2, <2>2, <4>1, <4>3 DEF OthersStay
    <3>2. ASSUME NEW y \in Nodes, Gone(next, y) PROVE Gone(next', y)
      BY <1>4, <3>2 DEF Gone, Stable, Was
    <3>3. ASSUME NEW y \in Nodes PROVE claims'[y] = 0 \/ (claims'[y] = 1 /\ Gone(next', y))
      <4>1. CASE got[t] /\ y = x
        BY <1>4, <2>3, <4>1
      <4>2. CASE ~(got[t] /\ y = x)
        BY <2>3, <3>2, <4>2 DEF IInv, ClaimsOK
      <4> QED
        BY <4>1, <4>2
    <3> QED
      BY <3>1, <3>3 DEF ClaimsOK
  <2>6. pc[t] \notin {"idle", "skip"}
    BY <1>2
  <2> QED
    BY <1>2, <1>4, <1>5, <2>1, <2>4, <2>5, <2>6, ReturnKeeps
<1>9. CASE Len(stack[t]) # 1
  <2>1. /\ pc'[t] = "mark" /\ stack'[t] = Tail(stack[t]) /\ claims' = claims /\ todo'[t] = todo[t]
        /\ prev'[t] = prev[t] /\ cur'[t] = cur[t] /\ n' = n /\ got' = got
    BY <1>9 DEF CutOff, Goto, Set, IInv, LocalsTyped, locals, iter, history
  <2>2. /\ stack'[t] # << >> /\ stack'[t][Len(stack'[t])] = stack[t][Len(stack[t])]
        /\ \A i \in DOMAIN stack'[t] : i + 1 \in DOMAIN stack[t] /\ i + 1 > 1 /\ stack'[t][i] = stack[t][i + 1]
    BY <1>6, <1>9, <2>1, TailFrames
  <2>3. SeesOK(t)' /\ SearchOK(t)' /\ PopOK(t)'
    BY <2>1, Quiet DEF ClearPlaces
  <2>4. StackOK(t)'
    <3>1. ASSUME NEW i \in DOMAIN stack'[t] PROVE FrameOK(t, i)'
      <4>1. PICK j, r, y : j = i + 1 /\ r = stack[t][j].prev /\ y = stack[t][j].n
        OBVIOUS
      <4>2. j \in DOMAIN stack[t] /\ j > 1 /\ stack'[t][i] = stack[t][j]
        BY <2>2, <4>1
      <4>3. r \in Spots(next) /\ y \in Was(next) /\ Dying(next, backlink, r, y) /\ backlink[y] = r
        BY <4>1, <4>2 DEF IInv, ThreadOK, StackOK, FrameOK
      <4>4. r \in All /\ y \in Nodes
        BY <4>3, HeapFacts DEF IInv, HeapOK
      <4>5. r \in Spots(next') /\ y \in Was(next') /\ Dying(next', backlink', r, y) /\ backlink'[y] = r
        BY <1>2, <1>4, <4>3, <4>4 DEF Stable, Spots
      <4> QED
        BY <4>1, <4>2, <4>5 DEF FrameOK
    <3> QED
      BY <2>1, <2>2, <3>1 DEF StackOK, ClearPlaces
  <2>5. PlaceOK(t)'
    <3>1. todo[t] # << >> /\ \A job \in Names : Job(t, job) => pc[t] \in PlacesOf(job)
      BY <1>2, JobFacts
    <3> QED
      BY <1>2, <2>1, <3>1 DEF PlaceOK, Job, Names, PlacesOf, ClearPlaces
  <2>6. IterOK(t)'
    BY <1>2, <1>4, <2>1, IterKept
  <2>7. PushOK(t)' /\ OwnOK(t)'
    <3>1. PushOK(t) /\ OwnOK(t) /\ (Pushing(t)' <=> Pushing(t))
      BY <1>2, <2>1 DEF IInv, ThreadOK, Pushing, Job
    <3>2. ASSUME NEW u \in Threads, Pushing(u)' PROVE Pushing(u)
      BY <1>2, <3>1, <3>2 DEF OthersStay, Pushing, Job
    <3>3. PushOK(t)'
      BY <1>4, <2>1, <3>1, <3>2 DEF PushOK
    <3>4. OwnOK(t)'
      BY <2>1, <2>2, <3>1 DEF OwnOK, Job, ClearPlaces
    <3> QED
      BY <3>3, <3>4
  <2>8. ClaimsOK'
    BY <1>2, <1>4, <2>1, ClaimsKept
  <2>9. \A u \in Threads : u # t /\ got[u] => claims'[n[u]] = 0
    BY <2>1 DEF IInv, ThreadOK, OwnOK
  <2>10. ThreadOK(t)'
    BY <2>3, <2>4, <2>5, <2>6, <2>7 DEF ThreadOK
  <2> QED
    BY <1>2, <1>4, <1>5, <2>8, <2>9, <2>10, StepKeeps
<1> QED
  BY <1>7, <1>8, <1>9

LEMMA DelHelpsKeeps ==
  ASSUME IInv, NEW t \in Threads, DelHelps(t)
  PROVE  IInv'
<1>1. PICK q, x : q = p[t] /\ x = pval[t].ptr
  OBVIOUS
<1>2. /\ pc[t] = "help" /\ backlink' = backlink /\ Rend(q, x, nval[t]) /\ claims' = claims
      /\ StepParts(t) /\ OthersStay(t)
  BY <1>1, OthersKept DEF DelHelps, StepParts
<1>3. /\ q \in All /\ x \in Was(next) /\ x \in Nodes /\ x \in Spots(next) /\ Dying(next, backlink, q, x)
      /\ nval[t] = next[x] /\ next[x].mark
  <2>1. Seen(t) /\ x # Null /\ pval[t].flag /\ nval[t].mark /\ nval[t] = next[x]
    BY <1>1, <1>2 DEF IInv, ThreadOK, SeesOK, SearchOK
  <2> QED
    BY <1>1, <1>2, <2>1, LocalFacts DEF Seen, Spots
<1>4. /\ HeapOK(next', backlink') /\ Stable(next, backlink, next', backlink')
      /\ Was(next') = Was(next) /\ next'[x] = next[x]
      /\ \A y \in Nodes \ Was(next) : next'[y] = next[y]
      /\ \A r \in All, y \in Nodes : next'[r] = Flagged(y) => next[r] = Flagged(y)
  BY <1>2, <1>3, RendStep
<1>5. \A u \in Threads : u # t /\ Pushing(u) => n[u] \notin Was(next') /\ next'[n[u]] = next[n[u]]
  BY <1>4, OthersPushSame
<1>6. \A u \in Threads : u # t /\ got[u] => claims'[n[u]] = 0
  BY <1>2 DEF IInv, ThreadOK, OwnOK
<1>7. got[t] = FALSE /\ stack[t] = << >>
  BY <1>2, NotOwner DEF ClearPlaces
<1>8. ClaimsOK'
  BY <1>2, <1>4, <1>7, ClaimsKept
<1>9. CASE Return(t)
  <2>1. pc[t] \notin {"idle", "skip"}
    BY <1>2
  <2> QED
    BY <1>2, <1>4, <1>5, <1>6, <1>8, <1>9, <2>1, ReturnKeeps
<1>10. CASE /\ x # n[t] /\ DelGoesOn(t, nval[t])
            /\ UNCHANGED <<todo, n, top, got, iter, stack, found>>
  <2>1. /\ pc'[t] = "del" /\ p'[t] = x /\ pval'[t] = nval[t] /\ n'[t] = n[t] /\ todo'[t] = todo[t]
        /\ prev'[t] = prev[t] /\ cur'[t] = cur[t] /\ stack'[t] = << >> /\ got'[t] = FALSE
    BY <1>1, <1>7, <1>10 DEF DelGoesOn, Goto, Set, IInv, LocalsTyped, iter
  <2>2. SeesOK(t)'
    <3>1. x \in Spots(next') /\ pval'[t] = next'[x]
      BY <1>3, <1>4, <2>1 DEF Spots
    <3>2. Seen(t)'
      BY <1>4, <2>1, <3>1, SeenHere
    <3> QED
      BY <3>2 DEF SeesOK
  <2>3. SearchOK(t)'
    <3>1. n[t] \in Was(next) /\ (n[t] \in In(next) => n[t] \in From(next, x))
      BY <1>1, <1>2 DEF IInv, ThreadOK, SearchOK
    <3>2. From(next, x) = {x} \cup After(next, x)
      BY <1>3, UnfoldFrom DEF IInv, HeapOK
    <3>3. n[t] \in In(next) => n[t] \in After(next, x)
      BY <1>10, <3>1, <3>2
    <3>4. n[t] \in In(next') => n[t] \in After(next', x)
      BY <1>3, <1>4, <3>1, <3>3 DEF Stable
    <3>5. After(next', x) = From(next', nval[t].ptr)
      BY <1>3, <1>4 DEF After
    <3> QED
      BY <1>4, <2>1, <3>1, <3>4, <3>5 DEF SearchOK
  <2>4. PopOK(t)' /\ PushOK(t)'
    BY <1>2, <2>1, JobOfPlace DEF PopOK, PushOK, Pushing, Job
  <2>5. StackOK(t)' /\ OwnOK(t)'
    BY <2>1 DEF StackOK, OwnOK, ClearPlaces
  <2>6. PlaceOK(t)'
    BY <1>2, <2>1, JobOfPlace DEF PlaceOK, Job, PlacesOf
  <2>7. IterOK(t)'
    BY <1>2, <1>4, <2>1, IterKept
  <2>8. ThreadOK(t)'
    BY <2>2, <2>3, <2>4, <2>5, <2>6, <2>7 DEF ThreadOK
  <2> QED
    BY <1>2, <1>4, <1>5, <1>6, <1>8, <2>8, StepKeeps
<1> QED
  BY <1>1, <1>9, <1>10 DEF DelHelps

-----------------------------------------------------------------------------
LEMMA NextKeeps ==
  ASSUME IInv, [Next]_vars
  PROVE  IInv'
<1>1. CASE UNCHANGED vars
  <2> USE <1>1 DEF vars, shared, locals, iter, history
  <2>1. HeapOK(next, backlink)' /\ LocalsTyped'
    BY DEF IInv, LocalsTyped
  <2>2. ClaimsOK'
    BY DEF IInv, ClaimsOK
  <2>3. ASSUME NEW t \in Threads PROVE ThreadOK(t)'
    <3>1. ThreadOK(t)
      BY DEF IInv
    <3>2. PlaceOK(t)' /\ SeesOK(t)' /\ SearchOK(t)' /\ IterOK(t)'
      BY <3>1 DEF ThreadOK, PlaceOK, SeesOK, Seen, SearchOK, IterOK, Job
    <3>3. PopOK(t)'
      BY <3>1 DEF ThreadOK, PopOK, Doomed
    <3>4. PushOK(t)'
      BY <3>1 DEF ThreadOK, PushOK, Pushing, Job
    <3>5. StackOK(t)' /\ OwnOK(t)'
      BY <3>1 DEF ThreadOK, StackOK, FrameOK, OwnOK, Job
    <3> QED
      BY <3>2, <3>3, <3>4, <3>5 DEF ThreadOK
  <2> QED
    BY <2>1, <2>2, <2>3 DEF IInv
<1>2. CASE Next
  <2>1. PICK t \in Threads : Step(t)
    BY <1>2 DEF Next
  <2> QED
    BY <2>1, TryFlagKeeps, FollowBacklinkKeeps, WalkForwardKeeps, ClearBeginsKeeps, MarkKeeps, CutOffKeeps,
       LookAtTopKeeps, PushLoadKeeps, PushKeeps, PopBeginsKeeps, PopEmptyKeeps, PopSkipsKeeps, PopFlagsKeeps,
       DelBeginsKeeps, DelNotFoundKeeps, DelLooksKeeps, DelHelpsKeeps, SweepBeginsKeeps, SkipDeadKeeps,
       IterNextKeeps, DelAtKeeps, DelAtParentKeeps DEF Step
<1> QED
  BY <1>1, <1>2

-----------------------------------------------------------------------------
(* The list when the threads start *)

LEMMA PlainFacts ==
  \A x \in Nodes \cup {Null} : Plain(x).ptr = x /\ ~Plain(x).flag /\ ~Plain(x).mark
BY DEF Plain, Word

LEMMA ListedFacts ==
  ASSUME Init
  PROVE  /\ next \in [All -> Words] /\ Len(Listed) \in Nat
         /\ \A i \in 1 .. Len(Listed) : Listed[i] \in Nodes
         /\ \A i, j \in 1 .. Len(Listed) : Listed[i] = Listed[j] => i = j
         /\ next[List].ptr = IF Len(Listed) = 0 THEN Null ELSE Listed[1]
         /\ \A i \in 1 .. Len(Listed) : next[Listed[i]].ptr = IF i = Len(Listed) THEN Null ELSE Listed[i + 1]
         /\ \A x \in Nodes : x \notin {Listed[i] : i \in 1 .. Len(Listed)} => next[x].ptr = Null
         /\ \A x \in All : ~next[x].flag /\ ~next[x].mark
<1> DEFINE after(x) == {i \in DOMAIN Listed : i > 1 /\ Listed[i - 1] = x}
           first == IF Listed = << >> THEN Null ELSE Listed[1]
           then(x) == IF after(x) = {} THEN Null ELSE Listed[CHOOSE i \in after(x) : TRUE]
<1>1. next = [x \in Nodes \cup {List} |-> Plain(IF x = List THEN first ELSE then(x))]
  BY DEF Init
<1>2. /\ Len(Listed) \in Nat /\ DOMAIN Listed = 1 .. Len(Listed)
      /\ \A i \in 1 .. Len(Listed) : Listed[i] \in Nodes
      /\ \A i, j \in 1 .. Len(Listed) : Listed[i] = Listed[j] => i = j
  BY ListedAssumption
<1>3. Listed = << >> <=> Len(Listed) = 0
  BY ListedAssumption
<1>13. ASSUME NEW i \in 1 .. Len(Listed), i # Len(Listed)
       PROVE  i + 1 \in 1 .. Len(Listed) /\ i + 1 > 1 /\ i + 1 - 1 = i
  <2>1. PICK k \in Nat : k = Len(Listed)
    BY <1>2
  <2> HIDE DEF after, first, then
  <2>2. i \in 1 .. k /\ i # k
    BY <1>13, <2>1
  <2>3. i + 1 \in 1 .. k /\ i + 1 > 1 /\ i + 1 - 1 = i
    BY <2>2
  <2> QED
    BY <2>1, <2>3
<1>4. first = IF Len(Listed) = 0 THEN Null ELSE Listed[1]
  BY <1>3
<1>5. ASSUME NEW i \in 1 .. Len(Listed) PROVE then(Listed[i]) = IF i = Len(Listed) THEN Null ELSE Listed[i + 1]
  <2>1. ASSUME NEW j \in after(Listed[i]) PROVE j = i + 1
    <3>1. j \in 1 .. Len(Listed) /\ j > 1 /\ Listed[j - 1] = Listed[i]
      BY <1>2, <2>1
    <3>2. j - 1 \in 1 .. Len(Listed)
      BY <1>2, <3>1
    <3>3. j - 1 = i
      BY <1>2, <3>1, <3>2
    <3> QED
      BY <3>1, <3>3
  <2>2. CASE i = Len(Listed)
    <3>1. i + 1 \notin DOMAIN Listed
      BY <1>2, <2>2
    <3>2. after(Listed[i]) = {}
      BY <2>1, <3>1
    <3> QED
      BY <2>2, <3>2
  <2>3. CASE i # Len(Listed)
    <3>1. i + 1 \in DOMAIN Listed /\ i + 1 > 1 /\ i + 1 - 1 = i
      BY <1>2, <1>13, <2>3
    <3>2. i + 1 \in after(Listed[i])
      BY <3>1
    <3> HIDE DEF after
    <3>3. (CHOOSE j \in after(Listed[i]) : TRUE) \in after(Listed[i])
      BY <3>2
    <3>4. (CHOOSE j \in after(Listed[i]) : TRUE) = i + 1
      BY <2>1, <3>3
    <3> QED
      BY <2>3, <3>2, <3>4
  <2> QED
    BY <2>2, <2>3
<1>6. ASSUME NEW x \in Nodes, x \notin {Listed[i] : i \in 1 .. Len(Listed)} PROVE then(x) = Null
  <2>1. ASSUME NEW j \in after(x) PROVE FALSE
    <3>1. j \in 1 .. Len(Listed) /\ j > 1 /\ Listed[j - 1] = x
      BY <1>2, <2>1
    <3>2. j - 1 \in 1 .. Len(Listed)
      BY <1>2, <3>1
    <3> QED
      BY <1>6, <3>1, <3>2
  <2>2. after(x) = {}
    BY <2>1
  <2> QED
    BY <2>2
<1> HIDE DEF first, then
<1>7. first \in Nodes \cup {Null}
  BY <1>2, <1>4
<1>8. ASSUME NEW x \in Nodes PROVE then(x) \in Nodes \cup {Null}
  <2>1. CASE \E i \in 1 .. Len(Listed) : x = Listed[i]
    <3>1. PICK i \in 1 .. Len(Listed) : x = Listed[i]
      BY <2>1
    <3>2. i # Len(Listed) => i + 1 \in 1 .. Len(Listed)
      BY <1>13
    <3> QED
      BY <1>2, <1>5, <3>1, <3>2
  <2>2. CASE ~\E i \in 1 .. Len(Listed) : x = Listed[i]
    BY <1>6, <2>2
  <2> QED
    BY <2>1, <2>2
<1>9. /\ next[List] = Plain(first) /\ \A x \in Nodes : next[x] = Plain(then(x))
  BY <1>1, NodesAssumption
<1>10. next \in [All -> Words]
  BY <1>1, <1>7, <1>8, PlainTyped DEF All
<1>11. \A x \in All : ~next[x].flag /\ ~next[x].mark
  BY <1>7, <1>8, <1>9, PlainFacts DEF All
<1>12. next[List].ptr = first /\ \A x \in Nodes : next[x].ptr = then(x)
  BY <1>7, <1>8, <1>9, PlainFacts
<1> QED
  BY <1>2, <1>4, <1>5, <1>6, <1>10, <1>11, <1>12

LEMMA InitHeap ==
  ASSUME Init
  PROVE  HeapOK(next, backlink) /\ In(next) = {Listed[i] : i \in 1 .. Len(Listed)}
<1>1. PICK k : k = Len(Listed)
  OBVIOUS
<1>2. /\ next \in [All -> Words] /\ k \in Nat
      /\ \A i \in 1 .. k : Listed[i] \in Nodes
      /\ \A i, j \in 1 .. k : Listed[i] = Listed[j] => i = j
      /\ next[List].ptr = IF k = 0 THEN Null ELSE Listed[1]
      /\ \A i \in 1 .. k : next[Listed[i]].ptr = IF i = k THEN Null ELSE Listed[i + 1]
      /\ \A x \in Nodes : x \notin {Listed[i] : i \in 1 .. k} => next[x].ptr = Null
      /\ \A x \in All : ~next[x].flag /\ ~next[x].mark
  BY <1>1, ListedFacts
<1>3. List \notin Nodes /\ Null \notin All
  BY NodesAssumption DEF All
<1>4. PICK R : R = {Listed[i] : i \in 1 .. k}
  OBVIOUS
<1>5. R \subseteq Nodes
  BY <1>2, <1>4
<1>6. ASSUME NEW i \in 0 .. k
      PROVE  Closed(next, {Listed[j] : j \in i + 1 .. k})
  <2> SUFFICES ASSUME NEW y \in {Listed[j] : j \in i + 1 .. k}
               PROVE  y \in Nodes /\ next[y].ptr \in {Listed[j] : j \in i + 1 .. k} \cup {Null}
    BY DEF Closed
  <2>1. PICK j \in i + 1 .. k : y = Listed[j]
    OBVIOUS
  <2>2. j \in 1 .. k /\ (j # k => j + 1 \in i + 1 .. k)
    BY <1>2
  <2> QED
    BY <1>2, <2>1, <2>2
<1>7. In(next) \subseteq R
  <2>1. Closed(next, R)
    <3>1. 0 \in 0 .. k /\ 0 + 1 = 1
      BY <1>2
    <3>2. Closed(next, {Listed[j] : j \in 0 + 1 .. k})
      BY <1>6, <3>1
    <3> QED
      BY <1>4, <3>2
  <2>2. next[List].ptr \in R \cup {Null}
    <3>1. k # 0 => 1 \in 1 .. k
      BY <1>2
    <3> QED
      BY <1>2, <1>4, <3>1
  <2> QED
    BY <2>1, <2>2, FromLeast DEF In, After
<1>8. R \subseteq In(next)
  <2> SUFFICES ASSUME NEW S \in SUBSET Nodes, Closed(next, S), next[List].ptr \in S \cup {Null}
               PROVE  R \subseteq S
    BY <1>5 DEF In, After, From
  <2> DEFINE T == {i \in Nat : i + 1 <= k => Listed[i + 1] \in S}
  <2>1. 0 \in T
    <3>1. 0 + 1 <= k => k # 0 /\ 1 \in 1 .. k
      BY <1>2
    <3>2. k # 0 => Listed[1] \in S
      BY <1>2, <1>3, <1>5, <3>1 DEF All
    <3> QED
      BY <1>2, <3>1, <3>2
  <2>2. ASSUME NEW i \in T PROVE i + 1 \in T
    <3> SUFFICES ASSUME i + 1 + 1 <= k PROVE Listed[i + 1 + 1] \in S
      OBVIOUS
    <3>1. i \in Nat /\ i + 1 <= k /\ i + 1 \in 1 .. k /\ i + 1 # k /\ i + 1 + 1 \in 1 .. k
      BY <1>2, <2>2
    <3>2. Listed[i + 1] \in S
      BY <2>2, <3>1
    <3>3. next[Listed[i + 1]].ptr = Listed[i + 1 + 1]
      BY <1>2, <3>1
    <3>4. next[Listed[i + 1]].ptr \in S \cup {Null}
      BY <3>2 DEF Closed
    <3> QED
      BY <1>2, <1>3, <3>1, <3>3, <3>4 DEF All
  <2>3. T = Nat
    <3>1. T \in SUBSET Nat
      OBVIOUS
    <3> HIDE DEF T
    <3> QED
      BY <2>1, <2>2, <3>1, Induction
  <2>4. ASSUME NEW i \in 1 .. k PROVE Listed[i] \in S
    <3>1. i - 1 \in Nat /\ i - 1 + 1 = i /\ i <= k
      BY <1>2
    <3>2. i - 1 \in T
      BY <2>3, <3>1
    <3> QED
      BY <3>1, <3>2
  <2> QED
    BY <1>4, <2>4
<1>9. In(next) = R /\ Was(next) = R
  BY <1>2, <1>7, <1>8 DEF Was, All
<1>10. backlink = [x \in All |-> Null]
  BY DEF Init, All
<1>11. HeapTyped(next, backlink)
  <2>1. \A y \in All : next[y].ptr \in R \cup {Null}
    <3>1. next[List].ptr \in R \cup {Null}
      <4>1. k # 0 => 1 \in 1 .. k
        BY <1>2
      <4> QED
        BY <1>2, <1>4, <4>1
    <3>2. ASSUME NEW i \in 1 .. k PROVE next[Listed[i]].ptr \in R \cup {Null}
      <4>1. i # k => i + 1 \in 1 .. k
        BY <1>2
      <4> QED
        BY <1>2, <1>4, <4>1
    <3> QED
      BY <1>2, <1>4, <3>1, <3>2 DEF All
  <2> QED
    BY <1>2, <1>9, <1>10, <2>1 DEF HeapTyped
<1>12. BitsOK(next, backlink)
  BY <1>2 DEF BitsOK, All
<1>13. ChainOK(next)
  <2>1. ASSUME NEW x \in Nodes PROVE x \notin After(next, x)
    <3>1. CASE x \in R
      <4>1. PICK i \in 1 .. k : x = Listed[i]
        BY <1>4, <3>1
      <4>2. i \in 0 .. k /\ (i # k => i + 1 \in i + 1 .. k)
        BY <1>2
      <4>3. PICK S : S = {Listed[j] : j \in i + 1 .. k}
        OBVIOUS
      <4>4. Closed(next, S) /\ next[x].ptr \in S \cup {Null}
        <5>1. Closed(next, S)
          BY <1>6, <4>2, <4>3
        <5>2. i # k => Listed[i + 1] \in S
          BY <4>2, <4>3
        <5>3. next[x].ptr = IF i = k THEN Null ELSE Listed[i + 1]
          BY <1>2, <4>1
        <5> QED
          BY <5>1, <5>2, <5>3
      <4>5. After(next, x) \subseteq S
        BY <4>4, FromLeast DEF After
      <4>6. ASSUME NEW j \in i + 1 .. k PROVE Listed[j] # x
        <5>1. j \in 1 .. k /\ j # i
          BY <1>2
        <5> QED
          BY <1>2, <4>1, <5>1
      <4> QED
        BY <4>3, <4>5, <4>6
    <3>2. CASE x \notin R
      BY <1>2, <1>4, <3>2, FromNull DEF After
    <3> QED
      BY <3>1, <3>2
  <2>2. ASSUME NEW y \in In(next) \cup {List}, NEW z \in In(next) \cup {List},
               next[y].ptr = next[z].ptr, next[y].ptr # Null
        PROVE  y = z
    <3>1. ASSUME NEW x \in R \cup {List}, next[x].ptr # Null
          PROVE  \E i \in 0 .. k - 1 : /\ next[x].ptr = Listed[i + 1]
                                       /\ x = IF i = 0 THEN List ELSE Listed[i]
      <4>1. CASE x = List
        <5>1. 0 \in 0 .. k - 1 /\ next[x].ptr = Listed[0 + 1]
          BY <1>2, <3>1, <4>1
        <5> QED
          BY <4>1, <5>1
      <4>2. CASE x # List
        <5>1. PICK i \in 1 .. k : x = Listed[i]
          BY <1>4, <3>1, <4>2
        <5>2. i # k /\ next[x].ptr = Listed[i + 1]
          BY <1>2, <3>1, <5>1
        <5>3. i \in 0 .. k - 1 /\ i # 0
          BY <1>2, <5>2
        <5> QED
          BY <5>1, <5>2, <5>3
      <4> QED
        BY <4>1, <4>2
    <3>2. PICK i \in 0 .. k - 1 : next[y].ptr = Listed[i + 1] /\ y = IF i = 0 THEN List ELSE Listed[i]
      BY <1>9, <2>2, <3>1
    <3>3. PICK j \in 0 .. k - 1 : next[z].ptr = Listed[j + 1] /\ z = IF j = 0 THEN List ELSE Listed[j]
      BY <1>9, <2>2, <3>1
    <3>4. i + 1 \in 1 .. k /\ j + 1 \in 1 .. k
      BY <1>2
    <3>5. i + 1 = j + 1
      BY <1>2, <2>2, <3>2, <3>3, <3>4
    <3>6. i = j
      BY <3>5
    <3> QED
      BY <3>2, <3>3, <3>6
  <2> QED
    BY <2>1, <2>2 DEF ChainOK
<1>14. BacklinksOK(next, backlink)
  BY <1>10 DEF BacklinksOK, All
<1> QED
  BY <1>1, <1>4, <1>9, <1>11, <1>12, <1>13, <1>14 DEF HeapOK

LEMMA InitOK ==
  ASSUME Init
  PROVE  IInv
<1>1. HeapOK(next, backlink)
  BY InitHeap
<1>2. LocalsTyped
  <2>1. Plain(Null) \in Words
    BY PlainTyped
  <2>2. todo \in [Threads -> Seq(Names)]
    BY JobsAssumption DEF Init, Names
  <2>3. stack \in [Threads -> Seq([prev : All, n : Nodes])]
    <3>1. PICK F : F = [prev : All, n : Nodes]
      OBVIOUS
    <3>2. << >> \in Seq(F)
      OBVIOUS
    <3> QED
      BY <3>1, <3>2 DEF Init
  <2> QED
    BY <2>1, <2>2, <2>3 DEF Init, LocalsTyped, Places
<1>3. ClaimsOK
  <2>1. \A q \in All : ~next[q].flag
    BY ListedFacts
  <2>2. \A q \in All, x \in Nodes : next[q] # Flagged(x)
    BY <2>1 DEF Flagged, Word
  <2>3. \A x \in Nodes : claims[x] = 0
    BY DEF Init
  <2> QED
    BY <2>2, <2>3 DEF ClaimsOK
<1>4. ASSUME NEW t \in Threads PROVE ThreadOK(t)
  <2>1. /\ pc[t] = "idle" /\ cur[t] = Null /\ stack[t] = << >> /\ got[t] = FALSE
    BY DEF Init
  <2>2. PlaceOK(t) /\ SeesOK(t) /\ PopOK(t) /\ IterOK(t) /\ PushOK(t)
    BY <2>1 DEF PlaceOK, PlacesOf, Names, SeesOK, PopOK, IterOK, PushOK, Pushing
  <2>3. SearchOK(t)
    BY <2>1 DEF SearchOK
  <2>4. StackOK(t) /\ OwnOK(t)
    BY <2>1 DEF StackOK, OwnOK, ClearPlaces
  <2> QED
    BY <2>2, <2>3, <2>4 DEF ThreadOK
<1> QED
  BY <1>1, <1>2, <1>3, <1>4 DEF IInv

THEOREM InvariantHolds == Spec => []IInv
<1>1. Init => IInv
  BY InitOK
<1>2. IInv /\ [Next]_vars => IInv'
  BY NextKeeps
<1> QED
  BY <1>1, <1>2, PTL DEF Spec

-----------------------------------------------------------------------------
(* What follows from the invariant *)

LEMMA AssertionsFollow == IInv => AssertionsHold
<1> SUFFICES ASSUME IInv PROVE AssertionsHold
  OBVIOUS
<1>1. ~next[List].mark /\ \A x \in Nodes : next[x].mark => ~next[x].flag /\ backlink[x] # Null
  BY DEF IInv, HeapOK, BitsOK
<1>2. ASSUME NEW t \in Threads, pc[t] = "clear"
      PROVE  backlink[stack[t][1].n] \in {Null, stack[t][1].prev}
  <2>1. PICK q, x : q = stack[t][1].prev /\ x = stack[t][1].n
    OBVIOUS
  <2>2. q \in All /\ x \in Nodes /\ Dying(next, backlink, q, x)
    BY <1>2, <2>1, FrameFacts DEF ClearPlaces
  <2>3. CASE backlink[x] # Null
    <3>1. backlink[x] \in All /\ Dying(next, backlink, backlink[x], x)
      BY <2>2, <2>3, HeapFacts DEF IInv, HeapOK, BacklinksOK
    <3>2. backlink[x] = q
      BY <2>2, <3>1, OneDying DEF IInv
    <3> QED
      BY <2>1, <3>2
  <2> QED
    BY <2>1, <2>3
<1>3. ASSUME NEW t \in Threads, pc[t] = "rend" PROVE nval[t].mark /\ ~nval[t].flag
  <2>1. /\ nval[t] = next[stack[t][1].n] /\ nval[t].mark /\ stack[t][1].n \in Nodes
    BY <1>3, LocalFacts DEF IInv, ThreadOK, StackOK, ClearPlaces
  <2> QED
    BY <1>1, <2>1
<1>4. ASSUME NEW t \in Threads, pc[t] = "abort" PROVE n[t] \notin Linked
  BY <1>4, LinkedIsIn DEF IInv, ThreadOK, SearchOK
<1> QED
  BY <1>1, <1>2, <1>3, <1>4 DEF AssertionsHold

\* The assertions of nblist.c: back links and marks are set in the right order
\* and for good, whoever completes a deletion; the one that may fail does so
\* only when the node that try_flag looks for has gone.
THEOREM AssertionsAlwaysHold == Spec => []AssertionsHold
BY InvariantHolds, AssertionsFollow, PTL

\* A marked node is in the list only while its removal is in progress.
LEMMA MarkedIsFlagged ==
  ASSUME IInv, NEW x \in In(next), next[x].mark
  PROVE  \E q \in All : next[q] = Flagged(x)
<1>1. x \in Nodes /\ backlink[x] # Null
  BY HeapFacts DEF IInv, HeapOK, BitsOK
<1>2. backlink[x] \in Spots(next) /\ Dying(next, backlink, backlink[x], x)
  BY <1>1 DEF IInv, HeapOK, BacklinksOK
<1> QED
  BY <1>2, HeapFacts DEF Dying, Gone, IInv, HeapOK

LEMMA RemovedFollows == IInv => RemovedIsGone
<1> SUFFICES ASSUME IInv PROVE RemovedIsGone
  OBVIOUS
<1>1. Linked = In(next) /\ In(next) \subseteq Nodes
  BY LinkedIsIn, HeapFacts DEF IInv, HeapOK
<1>2. \A x \in Nodes : claims[x] = 0 \/ (claims[x] = 1 /\ next[x].mark /\ x \notin Linked)
  BY <1>1 DEF IInv, ClaimsOK, Gone
<1>3. ASSUME \A t \in Threads : pc[t] \in {"idle", "at"}, NEW x \in Linked PROVE ~Doomed(x)
  <2>1. ASSUME NEW q \in All, next[q] = Flagged(x) PROVE FALSE
    <3>1. PICK t \in Threads : got[t]
      BY <1>1, <2>1 DEF IInv, ClaimsOK
    <3> QED
      BY <1>3, <3>1, NotOwner DEF ClearPlaces
  <2> QED
    BY <1>1, <2>1, MarkedIsFlagged DEF Doomed, All
<1> QED
  BY <1>2, <1>3 DEF RemovedIsGone

\* nblist_del and nblist_pop report a removal to one caller only, after the
\* node has gone, and no removal is left half done when no call is in progress.
THEOREM RemovalsAreComplete == Spec => []RemovedIsGone
BY InvariantHolds, RemovedFollows, PTL

\* What the two clauses of FailuresAreHonest ask of a step, for one thread.
LEMMA HonestStep ==
  ASSUME IInv, [Next]_vars, NEW t \in Threads
  PROVE  /\ pc[t] = "pop" /\ pc'[t] = "idle" =>
              \A x \in found[t] : Doomed(x) \/ \E y \in Nodes : next[y] = Word(x, FALSE, TRUE)
         /\ pc[t] \in {"del", "help", "forward"} /\ pc'[t] \in {"idle", "at"} => Doomed(n[t])
<1>1. CASE pc'[t] = pc[t]
  BY <1>1
<1>2. CASE pc'[t] # pc[t]
  <2>1. StepParts(t)
    <3>1. PICK u \in Threads : StepParts(u)
      <4>1. Next
        BY <1>2 DEF vars
      <4> QED
        BY <4>1 DEF Next, Step, StepParts
    <3>2. u = t
      BY <1>2, <3>1, OthersKept DEF OthersStay
    <3> QED
      BY <3>1, <3>2
  <2>2. ASSUME pc[t] = "pop", pc'[t] = "idle", NEW x \in found[t]
        PROVE  Doomed(x) \/ \E y \in Nodes : next[y] = Word(x, FALSE, TRUE)
    <3>1. PopEmpty(t)
      <4>1. PopEmpty(t) \/ PopSkips(t) \/ PopFlags(t)
        BY <2>1, <2>2 DEF StepParts, TryFlag, FollowBacklink, WalkForward, ClearBegins, Mark, CutOff,
           LookAtTop, PushLoad, Push, PopBegins, DelBegins, DelNotFound, DelLooks, DelHelps,
           SweepBegins, SkipDead, IterNext, DelAt, DelAtParent
      <4>2. ~PopSkips(t)
        BY <1>2 DEF PopSkips
      <4>3. ~PopFlags(t)
        BY <2>2 DEF PopFlags, CallClearFlag, Goto, IInv, LocalsTyped
      <4> QED
        BY <4>1, <4>2, <4>3
    <3>2. From(next, pval[t].ptr) = {}
      BY <3>1, FromNull DEF PopEmpty
    <3> QED
      BY <2>2, <3>2 DEF IInv, ThreadOK, PopOK
  <2>3. ASSUME pc[t] \in {"del", "help", "forward"}, pc'[t] \in {"idle", "at"} PROVE Doomed(n[t])
    <3>1. /\ n[t] \in Was(next) /\ (n[t] \in In(next) => n[t] \in From(next, pval[t].ptr))
          /\ pval[t].ptr # Null => pval[t].ptr \in Nodes
      BY <2>3, LocalFacts DEF IInv, ThreadOK, SearchOK
    <3>2. n[t] \notin In(next) => Doomed(n[t])
      BY <3>1 DEF Was, Doomed
    <3>3. WalkForward(t) \/ DelNotFound(t) \/ DelLooks(t) \/ DelHelps(t)
      BY <2>1, <2>3 DEF StepParts, TryFlag, FollowBacklink, ClearBegins, Mark, CutOff,
         LookAtTop, PushLoad, Push, PopBegins, PopEmpty, PopSkips, PopFlags, DelBegins,
         SweepBegins, SkipDead, IterNext, DelAt, DelAtParent
    <3>4. CASE WalkForward(t)
      <4>1. pc[t] = "forward" /\ next[pval[t].ptr].ptr = Null
        BY <2>3, <3>4 DEF WalkForward, Goto, IInv, LocalsTyped
      <4>2. pval[t].ptr \in Nodes /\ pval[t].ptr # n[t]
        BY <3>1, <4>1 DEF IInv, ThreadOK, SearchOK
      <4>3. From(next, pval[t].ptr) = {pval[t].ptr}
        BY <4>1, <4>2, UnfoldFrom, FromNull DEF After, IInv, HeapOK
      <4> QED
        BY <3>1, <3>2, <4>2, <4>3
    <3>5. CASE DelNotFound(t)
      BY <3>1, <3>2, <3>5, FromNull DEF DelNotFound
    <3>6. CASE DelLooks(t)
      BY <2>3, <3>6 DEF DelLooks, DelGoesOn, Goto, IInv, LocalsTyped
    <3>7. CASE DelHelps(t)
      <4>1. pc[t] = "help" /\ pval[t].ptr = n[t]
        BY <2>3, <3>7 DEF DelHelps, DelGoesOn, Goto, IInv, LocalsTyped
      <4> QED
        BY <4>1 DEF Doomed, IInv, ThreadOK, SearchOK
    <3> QED
      BY <3>3, <3>4, <3>5, <3>6, <3>7
  <2> QED
    BY <2>2, <2>3
<1> QED
  BY <1>1, <1>2

\* nblist_pop returns NULL, and a deletion false, only with a reason.
THEOREM NegativeAnswersAreHonest == Spec => FailuresAreHonest
<1> DEFINE Honest ==
      \A t \in Threads :
       /\ pc[t] = "pop" /\ pc'[t] = "idle" =>
            \A x \in found[t] : Doomed(x) \/ \E y \in Nodes : next[y] = Word(x, FALSE, TRUE)
       /\ pc[t] \in {"del", "help", "forward"} /\ pc'[t] \in {"idle", "at"} => Doomed(n[t])
<1>1. IInv /\ [Next]_vars => [Honest]_vars
  BY HonestStep
<1> HIDE DEF Honest
<1>2. Spec => [][Honest]_vars
  BY <1>1, InvariantHolds, PTL DEF Spec
<1> QED
  BY <1>2 DEF FailuresAreHonest, Honest

-----------------------------------------------------------------------------
(* The abstract list of a heap: the nodes that are in it and not marked, and *)
(* their order                                                             *)

Held(f) == {x \in In(f) : ~f[x].mark}
Order(f) == {pair \in Held(f) \X Held(f) : pair[2] \in After(f, pair[1])}

\* Of two nodes of the list one comes after the other, but not both.
LEMMA Linear ==
  ASSUME NEW f, NEW b, HeapOK(f, b), NEW y \in In(f), NEW z \in In(f), y # z
  PROVE  z \in After(f, y) \/ y \in After(f, z)
<1> DEFINE S == {x \in In(f) : y \in After(f, x)} \cup From(f, y)
<1>1. /\ In(f) \subseteq Nodes /\ Null \notin Nodes /\ List \in All
      /\ \A x \in All : f[x].ptr \in Nodes \cup {Null}
  BY HeapFacts DEF HeapOK, All
<1>2. Closed(f, In(f)) /\ f[List].ptr \in In(f) \cup {Null} /\ In(f) = From(f, f[List].ptr)
  BY ListFacts DEF HeapOK
<1>3. ASSUME NEW v \in In(f) \cup {Null}, y \in From(f, v) PROVE v \in S
  <2>1. v # Null
    BY <1>3, FromNull
  <2>2. From(f, v) = {v} \cup After(f, v) /\ From(f, y) = {y} \cup After(f, y)
    BY <1>1, <2>1, UnfoldFrom DEF HeapOK
  <2> QED
    BY <1>3, <2>1, <2>2
<1>4. Closed(f, From(f, y))
  BY <1>1, FromClosed DEF All
<1>5. Closed(f, S)
  <2>1. S \subseteq Nodes
    BY <1>1 DEF From
  <2>2. ASSUME NEW x \in S PROVE f[x].ptr \in S \cup {Null}
    <3>1. CASE x \in From(f, y)
      BY <1>4, <3>1 DEF Closed
    <3>2. CASE x \in In(f) /\ y \in After(f, x)
      <4>1. f[x].ptr \in In(f) \cup {Null} /\ y \in From(f, f[x].ptr)
        BY <1>2, <3>2 DEF Closed, After
      <4> HIDE DEF S
      <4> QED
        BY <1>3, <4>1
    <3> QED
      BY <3>1, <3>2
  <2> QED
    BY <2>1, <2>2 DEF Closed
<1>6. f[List].ptr \in S
  <2> HIDE DEF S
  <2> QED
    BY <1>2, <1>3
<1>7. z \in S
  <2> HIDE DEF S
  <2> QED
    BY <1>2, <1>5, <1>6, FromLeast
<1>8. From(f, y) = {y} \cup After(f, y)
  BY <1>1, UnfoldFrom DEF HeapOK
<1> QED
  BY <1>7, <1>8

LEMMA OneWay ==
  ASSUME NEW f, NEW b, HeapOK(f, b), NEW y \in Nodes, NEW z \in After(f, y), y \in After(f, z)
  PROVE  FALSE
<1>1. f[y].ptr \in Nodes \cup {Null} /\ \A x \in Nodes : f[x].ptr \in Nodes \cup {Null}
  BY HeapFacts DEF HeapOK, All
<1>2. After(f, z) \subseteq After(f, y)
  <2>1. z \in From(f, f[y].ptr)
    BY DEF After
  <2>2. After(f, z) \subseteq From(f, f[y].ptr)
    BY <1>1, <2>1, FromThrough
  <2> QED
    BY <2>2 DEF After
<1> QED
  BY <1>2 DEF HeapOK, ChainOK

LEMMA OrderSame ==
  ASSUME NEW f, NEW b, HeapOK(f, b), NEW g, NEW c, HeapOK(g, c), Stable(f, b, g, c),
         NEW y \in In(f) \cap In(g), NEW z \in In(f) \cap In(g)
  PROVE  z \in After(g, y) <=> z \in After(f, y)
<1>1. y \in Spots(f) /\ z \in Spots(f) /\ y \in Nodes /\ z \in Nodes
  BY HeapFacts DEF HeapOK, Spots, Was
<1>2. z \in After(f, y) => z \in After(g, y)
  BY <1>1 DEF Stable
<1>3. y \in After(f, z) => y \in After(g, z)
  BY <1>1 DEF Stable
<1>4. z \in After(g, y) => y # z /\ y \notin After(g, z)
  BY <1>1, OneWay DEF HeapOK, ChainOK
<1>5. y # z => z \in After(f, y) \/ y \in After(f, z)
  BY Linear
<1> QED
  BY <1>2, <1>3, <1>4, <1>5

\* A step that adds no node keeps the order of those that stay.
LEMMA OrderKept ==
  ASSUME NEW f, NEW b, HeapOK(f, b), NEW g, NEW c, HeapOK(g, c), Stable(f, b, g, c),
         Held(g) \subseteq Held(f)
  PROVE  Order(g) = Order(f) \cap (Held(g) \X Held(g))
<1>1. ASSUME NEW y \in Held(g), NEW z \in Held(g)
      PROVE  z \in After(g, y) <=> z \in After(f, y)
  <2>1. y \in In(f) \cap In(g) /\ z \in In(f) \cap In(g)
    BY DEF Held
  <2> QED
    BY <2>1, OrderSame
<1> QED
  BY <1>1 DEF Order

LEMMA OrderPushed ==
  ASSUME NEW f, NEW b, HeapOK(f, b), NEW g, NEW c, NEW m, Link(f, b, g, c, m)
  PROVE  /\ m \notin Held(f) /\ Held(g) = Held(f) \cup {m}
         /\ Order(g) = Order(f) \cup ({m} \X Held(f))
<1>1. /\ HeapOK(g, c) /\ Stable(f, b, g, c) /\ In(g) = In(f) \cup {m} /\ \A r \in Nodes : g[r] = f[r]
  BY LinkStep
<1>2. m \in Nodes /\ m \notin In(f) /\ ~f[m].mark /\ g[List].ptr = m
  <2>1. m \in Nodes \ Was(f) /\ g = [f EXCEPT ![List] = Plain(m)]
    BY DEF Link
  <2>2. List \in All /\ f \in [All -> Words]
    BY DEF HeapOK, HeapTyped, All
  <2>3. g[List].ptr = m
    BY <2>1, <2>2, PlainFacts
  <2> QED
    BY <2>1, <2>3 DEF Was
<1>3. In(f) \subseteq Nodes
  BY HeapFacts DEF HeapOK
<1>4. m \notin Held(f) /\ Held(g) = Held(f) \cup {m}
  BY <1>1, <1>2, <1>3 DEF Held
<1>5. ASSUME NEW y \in In(f) PROVE y \in After(g, m) /\ m \notin After(g, y)
  <2>1. In(g) = From(g, m) /\ From(g, m) = {m} \cup After(g, m)
    BY <1>1, <1>2, ListFacts, UnfoldFrom DEF HeapOK
  <2>2. y \in After(g, m)
    BY <1>1, <1>2, <2>1
  <2> QED
    BY <1>1, <1>2, <2>2, OneWay
<1>6. m \notin After(g, m)
  BY <1>1, <1>2 DEF HeapOK, ChainOK
<1>7. ASSUME NEW y \in In(f), NEW z \in In(f) PROVE z \in After(g, y) <=> z \in After(f, y)
  BY <1>1, OrderSame
<1>8. ASSUME NEW y \in Held(g), NEW z \in Held(g)
      PROVE  z \in After(g, y) <=> (y \in Held(f) /\ z \in Held(f) /\ z \in After(f, y)) \/ (y = m /\ z \in Held(f))
  <2>1. y \in In(f) \cup {m} /\ z \in In(f) \cup {m}
    BY <1>1 DEF Held
  <2>2. Held(f) \subseteq In(f)
    BY DEF Held
  <2> QED
    BY <1>2, <1>4, <1>5, <1>6, <1>7, <2>1, <2>2
<1>9. ASSUME NEW y \in Held(g), NEW z \in Held(g)
      PROVE  <<y, z>> \in Order(g) <=> <<y, z>> \in Order(f) \cup ({m} \X Held(f))
  BY <1>8 DEF Order
<1>10. Order(g) \subseteq Held(g) \X Held(g)
  BY DEF Order
<1>11. Order(f) \cup ({m} \X Held(f)) \subseteq Held(g) \X Held(g)
  BY <1>4 DEF Order
<1> QED
  BY <1>4, <1>9, <1>10, <1>11

\* A sequence that goes along the pointers gives the order.
LEMMA InSequence ==
  ASSUME NEW f, NEW b, HeapOK(f, b), NEW e \in Nat, NEW s,
         \A i \in 1 .. e : s[i] \in In(f), \A i \in 1 .. e : i # e => f[s[i]].ptr = s[i + 1],
         NEW i \in 1 .. e, NEW j \in 1 .. e, i < j
  PROVE  s[j] \in After(f, s[i])
<1> DEFINE T == {d \in Nat : i + 1 + d <= e => s[i + 1 + d] \in After(f, s[i])}
<1>1. /\ In(f) \subseteq Nodes /\ Null \notin Nodes
      /\ \A x \in Nodes : f[x].ptr \in Nodes \cup {Null}
  BY HeapFacts DEF HeapOK, All
<1>2. /\ Closed(f, After(f, s[i])) /\ f[s[i]].ptr \in After(f, s[i]) \cup {Null}
  BY <1>1, FromClosed DEF After
<1>3. 0 \in T
  <2>1. i + 1 + 0 \in 1 .. e /\ i # e /\ i + 1 + 0 = i + 1
    OBVIOUS
  <2>2. s[i + 1] = f[s[i]].ptr /\ s[i + 1] \in Nodes
    BY <1>1, <2>1
  <2> QED
    BY <1>1, <1>2, <2>1, <2>2
<1>4. ASSUME NEW d \in T PROVE d + 1 \in T
  <2> SUFFICES ASSUME i + 1 + (d + 1) <= e PROVE s[i + 1 + (d + 1)] \in After(f, s[i])
    OBVIOUS
  <2>1. /\ i + 1 + d \in 1 .. e /\ i + 1 + d # e /\ i + 1 + d <= e
        /\ i + 1 + (d + 1) = i + 1 + d + 1 /\ i + 1 + d + 1 \in 1 .. e
    OBVIOUS
  <2>2. s[i + 1 + d] \in After(f, s[i])
    BY <1>4, <2>1
  <2>3. f[s[i + 1 + d]].ptr \in After(f, s[i]) \cup {Null}
    BY <1>2, <2>2 DEF Closed
  <2>4. f[s[i + 1 + d]].ptr = s[i + 1 + d + 1] /\ s[i + 1 + d + 1] \in Nodes
    BY <1>1, <2>1
  <2> QED
    BY <1>1, <2>1, <2>3, <2>4
<1>5. T = Nat
  <2>1. T \in SUBSET Nat
    OBVIOUS
  <2> HIDE DEF T
  <2> QED
    BY <1>3, <1>4, <2>1, Induction
<1>6. j - i - 1 \in Nat /\ i + 1 + (j - i - 1) = j /\ j <= e
  OBVIOUS
<1>7. j - i - 1 \in T
  BY <1>5, <1>6
<1> QED
  BY <1>6, <1>7

Along(f, e, s) ==
  /\ \A i \in 1 .. e : s[i] \in In(f)
  /\ \A x \in In(f) : \E i \in 1 .. e : x = s[i]
  /\ \A i \in 1 .. e : i # e => f[s[i]].ptr = s[i + 1]

InTurn(e, s, y, z) == \E i, j \in 1 .. e : i < j /\ <<y, z>> = <<s[i], s[j]>>

LEMMA SequenceOrder ==
  ASSUME NEW f, NEW b, HeapOK(f, b), NEW e \in Nat, NEW s, Along(f, e, s),
         NEW y \in In(f), NEW z \in In(f)
  PROVE  z \in After(f, y) <=> InTurn(e, s, y, z)
<1>1. ASSUME NEW i \in 1 .. e, NEW j \in 1 .. e, i < j PROVE s[j] \in After(f, s[i])
  BY <1>1, InSequence DEF Along
<1>2. In(f) \subseteq Nodes
  BY HeapFacts DEF HeapOK
<1>3. ASSUME z \in After(f, y)
      PROVE  \E i, j \in 1 .. e : i < j /\ <<y, z>> = <<s[i], s[j]>>
  <2>1. PICK i \in 1 .. e : y = s[i]
    BY DEF Along
  <2>2. PICK j \in 1 .. e : z = s[j]
    BY DEF Along
  <2>3. i # j
    BY <1>2, <1>3, <2>1, <2>2 DEF HeapOK, ChainOK
  <2>4. ~(j < i)
    BY <1>1, <1>2, <1>3, <2>1, <2>2, OneWay
  <2>5. i < j
    BY <2>3, <2>4
  <2> QED
    BY <2>1, <2>2, <2>5
<1>4. ASSUME NEW i \in 1 .. e, NEW j \in 1 .. e, i < j, <<y, z>> = <<s[i], s[j]>>
      PROVE  z \in After(f, y)
  <2>1. y = s[i] /\ z = s[j]
    BY <1>4
  <2> QED
    BY <1>1, <1>4, <2>1
<1> QED
  BY <1>3, <1>4 DEF InTurn

\* The refinement mapping, in terms of the heap.
LEMMA MappedHeap ==
  HeapOK(next, backlink) => Alive = Held(next) /\ Before = Order(next)
<1> SUFFICES ASSUME HeapOK(next, backlink) PROVE Alive = Held(next) /\ Before = Order(next)
  OBVIOUS
<1>1. PICK N \in Nat : \E w : \E e \in 0 .. N :
           /\ Walk(w, next, next[List].ptr, N)
           /\ w[e] = Null /\ \A j \in 0 .. e - 1 : w[j] # Null
           /\ Chain = [i \in 1 .. e |-> w[i - 1]]
  BY ChainIsWalk
<1>2. PICK w : \E e \in 0 .. N :
           /\ Walk(w, next, next[List].ptr, N)
           /\ w[e] = Null /\ \A j \in 0 .. e - 1 : w[j] # Null
           /\ Chain = [i \in 1 .. e |-> w[i - 1]]
  BY <1>1
<1>3. PICK e \in 0 .. N :
           /\ Walk(w, next, next[List].ptr, N)
           /\ w[e] = Null /\ \A j \in 0 .. e - 1 : w[j] # Null
           /\ Chain = [i \in 1 .. e |-> w[i - 1]]
  BY <1>2
<1>4. PICK chain : chain = Chain
  OBVIOUS
<1>5. e \in Nat /\ DOMAIN chain = 1 .. e /\ \A i \in 1 .. e : chain[i] = w[i - 1]
  BY <1>3, <1>4
<1>6. Linked = In(next)
  BY LinkedIsIn
<1>7. /\ \A i \in 1 .. e : chain[i] \in In(next)
      /\ \A x \in In(next) : \E i \in 1 .. e : x = chain[i]
  BY <1>4, <1>5, <1>6 DEF Linked
<1>8. ASSUME NEW i \in 1 .. e, i # e PROVE next[chain[i]].ptr = chain[i + 1]
  <2>1. \A k \in 1 .. N : w[k] = Onward(next, w[k - 1])
    BY <1>3, WalkSteps
  <2>2. i \in 1 .. N /\ i - 1 \in 0 .. e - 1 /\ i + 1 \in 1 .. e /\ i + 1 - 1 = i
    BY <1>3, <1>8
  <2>3. w[i] = Onward(next, w[i - 1]) /\ w[i - 1] # Null
    BY <1>3, <2>1, <2>2
  <2>4. w[i] = next[w[i - 1]].ptr
    BY <2>3 DEF Onward
  <2>5. chain[i] = w[i - 1] /\ chain[i + 1] = w[i]
    BY <1>5, <2>2
  <2> QED
    BY <2>4, <2>5
<1>9. Along(next, e, chain)
  BY <1>7, <1>8 DEF Along
<1>10. Alive = Held(next)
  BY <1>6 DEF Alive, Held
<1>11. Before = {pair \in Alive \X Alive :
                   \E i, j \in DOMAIN chain : i < j /\ pair = <<chain[i], chain[j]>>}
  BY <1>4 DEF Before
<1>12. Before = Order(next)
  <2>1. ASSUME NEW y \in Held(next), NEW z \in Held(next)
        PROVE  z \in After(next, y) <=> \E i, j \in DOMAIN chain : i < j /\ <<y, z>> = <<chain[i], chain[j]>>
    <3>1. y \in In(next) /\ z \in In(next)
      BY DEF Held
    <3>2. z \in After(next, y) <=> InTurn(e, chain, y, z)
      BY <1>5, <1>9, <3>1, SequenceOrder
    <3> QED
      BY <1>5, <3>2 DEF InTurn
  <2> QED
    BY <1>10, <1>11, <2>1 DEF Order
<1> QED
  BY <1>10, <1>12

-----------------------------------------------------------------------------
(* What a step does to the abstract list: nothing, a push or a removal     *)

Pushes == \E m \in Nodes : Link(next, backlink, next', backlink', m)

Keeps ==
  /\ Stable(next, backlink, next', backlink')
  /\ \/ Held(next') = Held(next)
     \/ \E x \in Held(next) : Held(next') = Held(next) \ {x}

\* Only the marks and who is in the list matter.
LEMMA HeldSame ==
  ASSUME NEW f, NEW g, In(g) = In(f), \A x \in In(f) : g[x].mark <=> f[x].mark
  PROVE  Held(g) = Held(f)
BY DEF Held

LEMMA SameHeap ==
  ASSUME IInv, UNCHANGED shared
  PROVE  Keeps
BY StableRefl DEF Keeps, shared, IInv

LEMMA FlagMoves ==
  ASSUME IInv, NEW q \in Spots(next), NEW x \in Nodes, next[q] = Plain(x),
         next' = [next EXCEPT ![q] = Flagged(x)], backlink' = backlink
  PROVE  Keeps
<1>1. SetFlag(next, backlink, next', backlink', q, x)
  BY DEF SetFlag
<1>2. Stable(next, backlink, next', backlink') /\ In(next') = In(next)
  BY <1>1, FlagStep DEF IInv
<1>3. /\ In(next) \subseteq All /\ q \in All /\ next \in [All -> Words]
  BY HeapFacts DEF IInv, HeapOK, HeapTyped, All
<1>4. next'[q].mark = next[q].mark /\ \A y \in All : y # q => next'[y] = next[y]
  BY <1>3 DEF Plain, Flagged, Word
<1>5. \A y \in In(next) : next'[y].mark <=> next[y].mark
  BY <1>3, <1>4
<1>6. Held(next') = Held(next)
  BY <1>2, <1>5, HeldSame
<1> QED
  BY <1>2, <1>6 DEF Keeps

LEMMA CutMoves ==
  ASSUME IInv, NEW q \in All, NEW x \in Nodes, Dying(next, backlink, q, x), next[x].mark,
         Rend(q, x, next[x]), backlink' = backlink
  PROVE  Keeps
<1>1. CASE next[q] = Flagged(x)
  <2>1. Cut(next, backlink, next', backlink', q, x)
    BY <1>1 DEF Cut, Rend, Set
  <2>2. /\ Stable(next, backlink, next', backlink') /\ In(next') = In(next) \ {x}
        /\ ~next'[q].mark /\ \A r \in All : r # q => next'[r] = next[r]
    BY <2>1, CutStep DEF IInv
  <2>3. ~next[q].mark
    BY <1>1 DEF Flagged, Word
  <2>4. In(next) \subseteq All
    BY HeapFacts DEF IInv, HeapOK, All
  <2>5. \A y \in In(next) : next'[y].mark <=> next[y].mark
    BY <2>2, <2>3, <2>4
  <2>6. Held(next') = Held(next)
    BY <2>2, <2>5 DEF Held
  <2> QED
    BY <2>2, <2>6 DEF Keeps
<1>2. CASE next[q] # Flagged(x)
  <2>1. UNCHANGED shared
    BY <1>2 DEF Rend, shared
  <2> QED
    BY <2>1, SameHeap
<1> QED
  BY <1>1, <1>2

LEMMA MarkMoves ==
  ASSUME IInv, NEW x \in Nodes, SetMark(next, backlink, next', backlink', x)
  PROVE  Keeps
<1>1. HeapOK(next, backlink)
  BY DEF IInv
<1>2. /\ Stable(next, backlink, next', backlink') /\ In(next') = In(next)
      /\ next'[x] = [next[x] EXCEPT !.mark = TRUE]
  BY <1>1, MarkStep
<1>3. In(next) \subseteq All /\ x \in All /\ next \in [All -> Words]
  BY HeapFacts DEF IInv, HeapOK, HeapTyped, All
<1>4. next'[x].mark /\ \A y \in All : y # x => next'[y] = next[y]
  BY <1>2, <1>3 DEF Words, SetMark
<1>5. Held(next') = Held(next) \ {x}
  BY <1>2, <1>3, <1>4 DEF Held
<1> QED
  BY <1>2, <1>5 DEF Keeps

LEMMA TryFlagMoves ==
  ASSUME IInv, NEW t \in Threads, TryFlag(t)
  PROVE  Keeps
<1>1. CASE UNCHANGED shared
  BY <1>1, SameHeap
<1>2. CASE next[p[t]] = Plain(n[t]) /\ next' = Set(next, p[t], Flagged(n[t])) /\ backlink' = backlink
  <2>1. p[t] \in Spots(next) /\ n[t] \in Was(next)
    BY DEF TryFlag, IInv, ThreadOK, SearchOK
  <2>2. n[t] \in Nodes
    BY <2>1, HeapFacts DEF IInv, HeapOK
  <2> QED
    BY <1>2, <2>1, <2>2, FlagMoves DEF Set
<1> QED
  BY <1>1, <1>2 DEF TryFlag, shared

LEMMA PopFlagsMoves ==
  ASSUME IInv, NEW t \in Threads, PopFlags(t)
  PROVE  Keeps
<1>1. CASE UNCHANGED shared
  BY <1>1, SameHeap
<1>2. CASE /\ next[p[t]] = pval[t] /\ next' = Set(next, p[t], Flagged(pval[t].ptr))
           /\ backlink' = backlink
  <2>1. pc[t] = "pop" /\ pval[t].ptr # Null /\ ~Bits(pval[t])
    BY DEF PopFlags
  <2>2. p[t] \in Spots(next)
    BY <2>1 DEF IInv, ThreadOK, SeesOK, Seen
  <2>3. pval[t] \in Words
    BY DEF IInv, LocalsTyped
  <2>4. pval[t].ptr \in Nodes /\ pval[t] = Plain(pval[t].ptr)
    BY <2>1, <2>3 DEF Words, Plain, Word, Bits
  <2> QED
    BY <1>2, <2>2, <2>4, FlagMoves DEF Set
<1> QED
  BY <1>1, <1>2 DEF PopFlags, shared

LEMMA MarkStepMoves ==
  ASSUME IInv, NEW t \in Threads, Mark(t)
  PROVE  Keeps
<1>1. PICK x : x = stack[t][1].n
  OBVIOUS
<1>2. CASE UNCHANGED shared
  BY <1>2, SameHeap
<1>3. CASE /\ next[x].mark \/ ~next[x].flag
           /\ next' = [next EXCEPT ![x] = [next[x] EXCEPT !.mark = TRUE]] /\ backlink' = backlink
  <2>1. pc[t] = "mark"
    BY DEF Mark
  <2>2. x \in Was(next) /\ x \in Nodes /\ backlink[x] \in All
    BY <1>1, <2>1, FrameFacts DEF ClearPlaces
  <2>3. ~next[x].flag
    BY <1>3, <2>2 DEF IInv, HeapOK, BitsOK
  <2>4. backlink[x] # Null
    BY <2>2, NodesAssumption DEF All
  <2>5. SetMark(next, backlink, next', backlink', x)
    BY <1>3, <2>2, <2>3, <2>4 DEF SetMark
  <2> QED
    BY <2>2, <2>5, MarkMoves
<1> QED
  BY <1>1, <1>2, <1>3 DEF Mark, Set, shared

LEMMA ClearBeginsMoves ==
  ASSUME IInv, NEW t \in Threads, ClearBegins(t)
  PROVE  Keeps
<1>1. PICK q, x : q = stack[t][1].prev /\ x = stack[t][1].n
  OBVIOUS
<1>2. pc[t] = "clear" /\ next' = next /\ backlink' = [backlink EXCEPT ![x] = q]
  BY <1>1 DEF ClearBegins, Set
<1>3. q \in All /\ x \in Nodes /\ Dying(next, backlink, q, x)
  BY <1>1, <1>2, FrameFacts DEF ClearPlaces
<1>4. SetBacklink(next, backlink, next', backlink', q, x)
  BY <1>2, <1>3 DEF SetBacklink
<1>5. Stable(next, backlink, next', backlink')
  BY <1>4, BacklinkStep DEF IInv
<1> QED
  BY <1>2, <1>5 DEF Keeps

LEMMA CutOffMoves ==
  ASSUME IInv, NEW t \in Threads, CutOff(t)
  PROVE  Keeps
<1>1. PICK q, x : q = stack[t][1].prev /\ x = stack[t][1].n
  OBVIOUS
<1>2. pc[t] = "rend" /\ backlink' = backlink /\ Rend(q, x, nval[t])
  BY <1>1 DEF CutOff
<1>3. /\ q \in All /\ x \in Nodes /\ Dying(next, backlink, q, x)
      /\ nval[t] = next[x] /\ next[x].mark
  BY <1>1, <1>2, FrameFacts DEF ClearPlaces, IInv, ThreadOK, StackOK
<1> QED
  BY <1>2, <1>3, CutMoves

LEMMA DelHelpsMoves ==
  ASSUME IInv, NEW t \in Threads, DelHelps(t)
  PROVE  Keeps
<1>1. PICK q, x : q = p[t] /\ x = pval[t].ptr
  OBVIOUS
<1>2. pc[t] = "help" /\ backlink' = backlink /\ Rend(q, x, nval[t])
  BY <1>1 DEF DelHelps
<1>3. Seen(t) /\ x # Null /\ pval[t].flag /\ nval[t].mark /\ nval[t] = next[x]
  BY <1>1, <1>2 DEF IInv, ThreadOK, SeesOK, SearchOK
<1>4. q \in All /\ x \in Nodes /\ Dying(next, backlink, q, x)
  BY <1>1, <1>2, <1>3, LocalFacts DEF Seen
<1> QED
  BY <1>2, <1>3, <1>4, CutMoves

LEMMA PushLoadMoves ==
  ASSUME IInv, NEW t \in Threads, PushLoad(t)
  PROVE  Keeps
<1>1. CASE UNCHANGED shared
  BY <1>1, SameHeap
<1>2. CASE /\ next' = Set(next, n[t], next[List]) /\ backlink' = Set(backlink, n[t], Null)
           /\ ~next[List].flag
  <2>1. pc[t] = "load"
    BY DEF PushLoad
  <2>2. Pushing(t)
    BY <2>1, JobOfPlace DEF Pushing
  <2>3. n[t] \in Nodes \ Was(next)
    BY <2>2 DEF IInv, ThreadOK, PushOK
  <2>4. Prepare(next, backlink, next', backlink', n[t])
    BY <1>2, <2>3 DEF Prepare, Set
  <2>5. /\ Stable(next, backlink, next', backlink') /\ In(next') = In(next)
        /\ \A r \in All : r # n[t] => next'[r] = next[r]
    BY <2>4, PrepareStep DEF IInv
  <2>6. n[t] \notin In(next) /\ In(next) \subseteq All
    BY <2>3, HeapFacts DEF Was, All, IInv, HeapOK
  <2>7. Held(next') = Held(next)
    BY <2>5, <2>6, HeldSame
  <2> QED
    BY <2>5, <2>7 DEF Keeps
<1> QED
  BY <1>1, <1>2 DEF PushLoad, shared

LEMMA PushMoves ==
  ASSUME IInv, NEW t \in Threads, Push(t)
  PROVE  Keeps \/ Pushes
<1>1. CASE UNCHANGED shared
  BY <1>1, SameHeap
<1>2. CASE next[List] = pval[t] /\ next' = Set(next, List, Plain(n[t])) /\ backlink' = backlink
  <2>1. pc[t] = "push"
    BY DEF Push
  <2>2. Pushing(t)
    BY <2>1, JobOfPlace DEF Pushing
  <2>3. n[t] \in Nodes \ Was(next) /\ next[n[t]] = pval[t] /\ ~Bits(pval[t])
    BY <2>1, <2>2 DEF IInv, ThreadOK, PushOK
  <2>4. Link(next, backlink, next', backlink', n[t])
    BY <1>2, <2>3 DEF Link, Bits, Set
  <2> QED
    BY <2>3, <2>4 DEF Pushes
<1> QED
  BY <1>1, <1>2 DEF Push, shared

LEMMA HeapMoves ==
  ASSUME IInv, [Next]_vars
  PROVE  Keeps \/ Pushes
<1>1. CASE UNCHANGED vars
  BY <1>1, SameHeap DEF vars
<1>2. CASE Next
  <2>1. PICK t \in Threads : StepParts(t)
    BY <1>2 DEF Next, Step, StepParts
  <2>2. CASE UNCHANGED shared
    BY <2>2, SameHeap
  <2>3. \/ UNCHANGED shared
        \/ TryFlag(t) \/ ClearBegins(t) \/ Mark(t) \/ CutOff(t) \/ PushLoad(t) \/ Push(t)
        \/ PopFlags(t) \/ DelHelps(t)
    BY <2>1 DEF StepParts, FollowBacklink, WalkForward, LookAtTop, PopBegins, PopEmpty, PopSkips,
       DelBegins, DelNotFound, DelLooks, SweepBegins, SkipDead, IterNext, DelAt, DelAtParent
  <2> QED
    BY <2>2, <2>3, TryFlagMoves, ClearBeginsMoves, MarkStepMoves, CutOffMoves, PushLoadMoves, PushMoves,
       PopFlagsMoves, DelHelpsMoves
<1> QED
  BY <1>1, <1>2

LEMMA AbstractInit ==
  ASSUME Init
  PROVE  L!Init
<1>1. PICK k : k = Len(Listed)
  OBVIOUS
<1>2. /\ k \in Nat /\ DOMAIN Listed = 1 .. k
      /\ \A i \in 1 .. k : next[Listed[i]].ptr = IF i = k THEN Null ELSE Listed[i + 1]
      /\ \A i \in 1 .. k : Listed[i] \in Nodes
      /\ \A x \in All : ~next[x].mark
  BY <1>1, ListedFacts, ListedAssumption
<1>3. HeapOK(next, backlink) /\ In(next) = {Listed[i] : i \in 1 .. k}
  BY <1>1, InitHeap
<1>4. Held(next) = In(next)
  BY <1>2, <1>3 DEF Held, All
<1>5. Along(next, k, Listed)
  BY <1>2, <1>3 DEF Along
<1>6. ASSUME NEW y \in In(next), NEW z \in In(next)
      PROVE  z \in After(next, y) <=> \E i, j \in DOMAIN Listed : i < j /\ <<y, z>> = <<Listed[i], Listed[j]>>
  <2>1. z \in After(next, y) <=> InTurn(k, Listed, y, z)
    BY <1>2, <1>3, <1>5, SequenceOrder
  <2> QED
    BY <1>2, <2>1 DEF InTurn
<1>7. Alive = Held(next) /\ Before = Order(next)
  BY <1>3, MappedHeap
<1>8. Alive = {Listed[i] : i \in DOMAIN Listed}
  BY <1>2, <1>3, <1>4, <1>7
<1>9. Before = {pair \in Alive \X Alive :
                  \E i, j \in DOMAIN Listed : i < j /\ pair = <<Listed[i], Listed[j]>>}
  BY <1>4, <1>6, <1>7 DEF Order
<1> QED
  BY <1>8, <1>9 DEF L!Init

LEMMA AbstractStep ==
  ASSUME IInv, [Next]_vars, Alive' = Held(next'), Before' = Order(next')
  PROVE  [L!Next]_<<Alive, Before>>
<1>1. HeapOK(next, backlink)
  BY DEF IInv
<1>2. HeapOK(next', backlink')
  <2>1. IInv'
    BY NextKeeps
  <2> QED
    BY <2>1 DEF IInv
<1>3. Alive = Held(next) /\ Before = Order(next)
  BY <1>1, MappedHeap
<1>4. Held(next) \subseteq Nodes /\ Order(next) \subseteq Held(next) \X Held(next)
  BY <1>1, HeapFacts DEF Held, Order, HeapOK
<1>5. CASE Keeps
  <2>1. Stable(next, backlink, next', backlink')
    BY <1>5 DEF Keeps
  <2>2. CASE Held(next') = Held(next)
    <3>1. Before' = Before
      BY <1>1, <1>2, <1>3, <1>4, <2>1, <2>2, OrderKept
    <3> QED
      BY <1>3, <2>2, <3>1
  <2>3. CASE \E x \in Held(next) : Held(next') = Held(next) \ {x}
    <3>1. PICK x \in Held(next) : Held(next') = Held(next) \ {x}
      BY <2>3
    <3>2. Order(next') = Order(next) \cap (Held(next') \X Held(next'))
      BY <1>1, <1>2, <2>1, <3>1, OrderKept
    <3>3. L!Removal(x)
      BY <1>3, <3>1, <3>2 DEF L!Removal
    <3> QED
      BY <1>4, <3>3 DEF L!Next
  <2> QED
    BY <1>5, <2>2, <2>3 DEF Keeps
<1>6. CASE Pushes
  <2>1. PICK m \in Nodes : Link(next, backlink, next', backlink', m)
    BY <1>6 DEF Pushes
  <2>2. /\ m \notin Held(next) /\ Held(next') = Held(next) \cup {m}
        /\ Order(next') = Order(next) \cup ({m} \X Held(next))
    BY <1>1, <2>1, OrderPushed
  <2>3. L!Push(m)
    BY <1>3, <2>2 DEF L!Push
  <2> QED
    BY <2>3 DEF L!Next
<1> QED
  BY <1>5, <1>6, HeapMoves

\* The unmarked nodes of the chain, in their order, are the abstract list: each
\* step of each thread pushes a node in front, removes one, or changes nothing.
THEOREM ListIsImplemented == Spec => ImplementsList
<1>1. Init => L!Init
  BY AbstractInit
<1>2. IInv' => Alive' = Held(next') /\ Before' = Order(next')
  <2>1. IInv => (Alive = Held(next) /\ Before = Order(next))
    BY MappedHeap DEF IInv
  <2>2. (IInv => (Alive = Held(next) /\ Before = Order(next)))'
    BY <2>1, PTL
  <2> QED
    BY <2>2
<1>3. IInv /\ [Next]_vars => IInv'
  BY NextKeeps
<1>4. IInv /\ [Next]_vars => [L!Next]_<<Alive, Before>>
  BY <1>2, <1>3, AbstractStep
<1> QED
  BY <1>1, <1>4, InvariantHolds, PTL DEF Spec, ImplementsList, L!Spec
=============================================================================
