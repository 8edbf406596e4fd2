------------------------ MODULE HazardPointersProofs ------------------------
(***************************************************************************)
(* Proofs about HazardPointers for any readers, writers and addresses: the *)
(* hazards are balanced and drop finds its entry; every object is in one   *)
(* place; and what load returned is not freed, if one thread cleans up.    *)
(***************************************************************************)
EXTENDS HazardPointers, FiniteSetTheorems, TLAPS

ReaderPlaces == {"idle", "insert", "validate", "undo", "undoRemove", "reading", "drop"}
WriterPlaces == {"idle", "scan", "retire", "cleanup", "cleanupScan", "removeRetired", "freeRetired"}

Words == Addresses \cup {Null}

TypeInv ==
  /\ shared \in Addresses /\ allocated \subseteq Addresses
  /\ pointers \in Seq(Words) /\ retired \in Seq(Words)
  /\ doing \in [HazardThreads -> ReaderPlaces \cup WriterPlaces] /\ at \in [HazardThreads -> Int]
  /\ val \in [HazardThreads -> Words] /\ slot \in [Readers -> Nat]
  /\ flag \in [Writers -> {"wait", "defer"}] /\ entry \in [Writers -> Nat]
  /\ DOMAIN cleanups = Writers

ReaderInv(r) ==
  /\ doing[r] \in ReaderPlaces
  /\ at[r] \in {Unstarted} \cup 0 .. Len(pointers)
  /\ slot[r] \in 0 .. Len(pointers)
  /\ doing[r] \notin {"insert", "undoRemove", "drop"} => at[r] = Unstarted
  /\ doing[r] \in {"validate", "undo"} => slot[r] # 0
  /\ doing[r] # "idle" => val[r] \in Addresses

WriterInv(w) ==
  /\ doing[w] \in WriterPlaces
  /\ at[w] \in {Unstarted} \cup 0 .. Len(Walked(w))
  /\ entry[w] \in 0 .. Len(retired)
  /\ doing[w] \notin {"idle", "cleanup"} => val[w] \in Addresses
  /\ doing[w] \in {"cleanup", "cleanupScan", "removeRetired", "freeRetired"} => w \in Cleaners
  /\ w \notin Cleaners => cleanups[w] = 0

Typed == TypeInv /\ (\A r \in Readers : ReaderInv(r)) /\ (\A w \in Writers : WriterInv(w))

\* The nodes with address a, and the readers that have published it.
NodesOf(a) == {i \in DOMAIN pointers : pointers[i] = a}
PublishersOf(a) == {r \in Readers : Publishing(r) /\ val[r] = a}
Balanced == \A a \in Addresses : Cardinality(NodesOf(a)) = Cardinality(PublishersOf(a))

\* A reader that may still take a back has it in node i.
Held(i, a) == \E r \in Readers : doing[r] \in {"validate", "undo"} /\ slot[r] = i /\ val[r] = a

\* Up to any index there are as many nodes with a, not counting those that
\* such a reader may empty, as there are walks that have got there and look
\* for a node with a to empty.
Free(a, k) == {i \in DOMAIN pointers : i <= k /\ pointers[i] = a /\ ~Held(i, a)}
Walkers(a, k) == {r \in Readers : doing[r] \in {"undoRemove", "drop"} /\ val[r] = a /\ at[r] \in 0 .. k}
Room == \A a \in Addresses, k \in Nat : Cardinality(Walkers(a, k)) <= Cardinality(Free(a, k))

ListInv == Typed /\ Balanced /\ Room

-----------------------------------------------------------------------------
(* Types *)

\* A step changes the control state of one thread only.
Still(t) == doing'[t] = doing[t] /\ at'[t] = at[t] /\ val'[t] = val[t]

ReadStep(r) == \/ LoadPointer(r) \/ InsertHazard(r) \/ Validate(r)
               \/ UndoHazard(r) \/ UndoRemove(r) \/ StopReading(r) \/ Drop(r)

LEMMA ReaderWalked ==
  ASSUME Typed, NEW r \in Readers
  PROVE  Walked(r) = pointers /\ r \in HazardThreads /\ r \notin Writers
BY ThreadsAssumption DEF Typed, ReaderInv, ReaderPlaces, Walked, HazardThreads

\* What a step of reader r leaves alone.
LEMMA ReaderFrame ==
  ASSUME Typed, NEW r \in Readers, Read(r)
  PROVE  /\ UNCHANGED <<shared, retired, allocated, entry, cleanups>>
         /\ \A t \in HazardThreads : t # r => Still(t)
         /\ \A q \in Readers : q # r => slot'[q] = slot[q]
         /\ \A w \in Writers : Still(w) /\ flag'[w] = flag[w]
<1>1. r \in HazardThreads /\ r \notin Writers /\ Writers \subseteq HazardThreads
  BY ReaderWalked, ThreadsAssumption DEF HazardThreads
<1>2. /\ doing \in [HazardThreads -> ReaderPlaces \cup WriterPlaces] /\ at \in [HazardThreads -> Int]
      /\ val \in [HazardThreads -> Words] /\ slot \in [Readers -> Nat]
      /\ flag \in [Writers -> {"wait", "defer"}]
  BY DEF Typed, TypeInv
<1>3. CASE Walk(r)
  BY <1>1, <1>2, <1>3 DEF Walk, LoadHead, StepOn, budget, Still, lists
<1>4. CASE LoadPointer(r) \/ Validate(r) \/ StopReading(r)
  BY <1>1, <1>2, <1>4 DEF LoadPointer, Validate, StopReading, HazardGoto, budget, Still, lists
<1>5. CASE InsertHazard(r)
  BY <1>1, <1>2, <1>5 DEF InsertHazard, HazardGoto, budget, Still
<1>6. CASE UndoHazard(r) \/ UndoRemove(r)
  BY <1>1, <1>2, <1>6 DEF UndoHazard, UndoRemove, HazardGoto, Return, budget, Still
<1>7. CASE Drop(r)
  BY <1>1, <1>2, <1>7 DEF Drop, HazardGoto, Return, budget, Still
<1> QED
  BY <1>3, <1>4, <1>5, <1>6, <1>7 DEF Read

\* What a step of writer w leaves alone.
LEMMA WriterFrame ==
  ASSUME Typed, NEW w \in Writers, Walk(w) \/ Swap(w) \/ Cleanup(w)
  PROVE  /\ UNCHANGED pointers
         /\ \A t \in HazardThreads : t # w => Still(t)
         /\ \A r \in Readers : Still(r) /\ slot'[r] = slot[r]
         /\ \A v \in Writers : v # w => entry'[v] = entry[v] /\ cleanups'[v] = cleanups[v]
<1>1. w \in HazardThreads /\ w \notin Readers /\ Readers \subseteq HazardThreads
  BY ThreadsAssumption DEF HazardThreads
<1>2. /\ doing \in [HazardThreads -> ReaderPlaces \cup WriterPlaces] /\ at \in [HazardThreads -> Int]
      /\ val \in [HazardThreads -> Words] /\ slot \in [Readers -> Nat]
      /\ entry \in [Writers -> Nat] /\ DOMAIN cleanups = Writers
  BY DEF Typed, TypeInv
<1>3. CASE Walk(w)
  BY <1>1, <1>2, <1>3 DEF Walk, LoadHead, StepOn, budget, Still, lists
<1>4. CASE Swap(w)
  BY <1>1, <1>2, <1>4 DEF Swap, Exchange, FoundInUse, FreeOld, Retire, HazardGoto, Return, budget, Still, lists
<1>5. CASE StartCleanup(w)
  BY <1>1, <1>2, <1>5 DEF StartCleanup, HazardGoto, budget, Still, lists
<1>6. CASE NextRetired(w)
  BY <1>1, <1>2, <1>6 DEF NextRetired, HazardGoto, Return, budget, Still, lists
<1>7. CASE RetiredInUse(w) \/ RetiredUnused(w) \/ RemoveRetired(w) \/ FreeRetired(w)
  BY <1>1, <1>2, <1>7 DEF RetiredInUse, RetiredUnused, RemoveRetired, FreeRetired, HazardGoto, budget, Still, lists
<1> QED
  BY <1>3, <1>4, <1>5, <1>6, <1>7 DEF Cleanup

LEMMA Lists ==
  ASSUME Typed
  PROVE  /\ Len(pointers) \in Nat /\ DOMAIN pointers = 1 .. Len(pointers)
         /\ Len(retired) \in Nat /\ DOMAIN retired = 1 .. Len(retired)
         /\ \A i \in DOMAIN pointers : pointers[i] \in Words
         /\ \A i \in DOMAIN retired : retired[i] \in Words
BY DEF Typed, TypeInv

LEMMA FiniteSets ==
  ASSUME Typed, NEW a, NEW k
  PROVE  /\ IsFiniteSet(NodesOf(a)) /\ IsFiniteSet(PublishersOf(a))
         /\ IsFiniteSet(Free(a, k)) /\ IsFiniteSet(Walkers(a, k))
         /\ Cardinality(NodesOf(a)) \in Nat /\ Cardinality(PublishersOf(a)) \in Nat
         /\ Cardinality(Free(a, k)) \in Nat /\ Cardinality(Walkers(a, k)) \in Nat
<1>1. IsFiniteSet(DOMAIN pointers)
  BY Lists, FS_Interval
<1>2. IsFiniteSet(NodesOf(a)) /\ IsFiniteSet(Free(a, k))
  <2>1. NodesOf(a) \in SUBSET DOMAIN pointers /\ Free(a, k) \in SUBSET DOMAIN pointers
    BY DEF NodesOf, Free
  <2> QED
    BY <1>1, <2>1, FS_Subset
<1>3. IsFiniteSet(PublishersOf(a)) /\ IsFiniteSet(Walkers(a, k))
  <2>1. PublishersOf(a) \in SUBSET Readers /\ Walkers(a, k) \in SUBSET Readers
    BY DEF PublishersOf, Walkers
  <2> QED
    BY <2>1, ThreadsAssumption, FS_Subset
<1> QED
  BY <1>2, <1>3, FS_CardinalityType

\* A walk that looks for a node to empty does not get to the end of the list.
LEMMA WalkerFinds ==
  ASSUME ListInv, NEW r \in Readers, doing[r] \in {"undoRemove", "drop"}
  PROVE  ~AtEnd(r)
<1> SUFFICES ASSUME at[r] = 0 PROVE FALSE
  BY DEF AtEnd
<1>1. val[r] \in Addresses
  BY DEF ListInv, Typed, ReaderInv
<1>2. r \in Walkers(val[r], 0)
  BY DEF Walkers
<1>3. Free(val[r], 0) = {}
  BY Lists DEF Free, ListInv
<1>4. Cardinality(Walkers(val[r], 0)) <= 0
  BY <1>1, <1>3, FS_EmptySet DEF ListInv, Room
<1>5. IsFiniteSet(Walkers(val[r], 0)) /\ Cardinality(Walkers(val[r], 0)) \in Nat
  BY FiniteSets DEF ListInv
<1>6. Walkers(val[r], 0) = {}
  BY <1>4, <1>5, FS_EmptySet
<1> QED
  BY <1>2, <1>6

LEMMA ReaderTyped ==
  ASSUME ListInv, NEW r \in Readers, Read(r)
  PROVE  TypeInv' /\ ReaderInv(r)' /\ Len(pointers) <= Len(pointers')
<1>1. r \in HazardThreads /\ r \notin Writers /\ Walked(r) = pointers
  BY ReaderWalked DEF ListInv
<1>2. TypeInv /\ ReaderInv(r) /\ UNCHANGED <<shared, allocated, retired, entry, cleanups>>
  BY ReaderFrame DEF ListInv, Typed
<1>3. /\ Len(pointers) \in Nat /\ DOMAIN pointers = 1 .. Len(pointers)
  BY Lists DEF ListInv
<1>4. CASE LoadHead(r)
  BY <1>1, <1>2, <1>3, <1>4 DEF LoadHead, lists, TypeInv, ReaderInv, Walking, Unstarted, ReaderPlaces
<1>5. CASE StepOn(r)
  <2>1. at[r] \in 1 .. Len(pointers) /\ at' = [at EXCEPT ![r] = at[r] - 1]
        /\ UNCHANGED <<pointers, doing, val, slot, flag>>
        /\ doing[r] \in Walking
    BY <1>2, <1>3, <1>5 DEF StepOn, lists, ReaderInv, Unstarted
  <2>2. at' \in [HazardThreads -> Int] /\ at'[r] \in 0 .. Len(pointers)
    BY <1>1, <1>2, <1>3, <2>1 DEF TypeInv
  <2>3. cleanups' = cleanups
    BY <1>2
  <2> QED
    BY <1>1, <1>2, <1>3, <2>1, <2>2 DEF TypeInv, ReaderInv, Walking, ReaderPlaces
<1>6. CASE LoadPointer(r)
  BY <1>1, <1>2, <1>3, <1>6 DEF LoadPointer, lists, HazardGoto, TypeInv, ReaderInv, ReaderPlaces, Words, Unstarted
<1>7. CASE InsertHazard(r)
  <2>1. val[r] \in Words /\ doing[r] = "insert" /\ val[r] \in Addresses
    BY <1>1, <1>2, <1>7 DEF InsertHazard, TypeInv, ReaderInv
  <2>2. UNCHANGED <<val, flag>> /\ doing' = [doing EXCEPT ![r] = "validate"] /\ at' = [at EXCEPT ![r] = Unstarted]
    BY <1>7 DEF InsertHazard, HazardGoto
  <2>3. CASE AtNode(r, Null) /\ pointers' = [pointers EXCEPT ![at[r]] = val[r]]
               /\ slot' = [slot EXCEPT ![r] = at[r]]
    <3>1. at[r] \in 1 .. Len(pointers)
      BY <1>2, <2>3 DEF AtNode, ReaderInv, Unstarted
    <3>2. pointers' \in Seq(Words) /\ Len(pointers') = Len(pointers)
      BY <1>2, <1>3, <2>1, <2>3, <3>1 DEF TypeInv
    <3> QED
      BY <1>1, <1>2, <1>3, <2>1, <2>2, <2>3, <3>1, <3>2 DEF TypeInv, ReaderInv, ReaderPlaces, Unstarted
  <2>4. CASE pointers' = Append(pointers, val[r]) /\ slot' = [slot EXCEPT ![r] = Len(pointers) + 1]
    <3>2. pointers' \in Seq(Words) /\ Len(pointers') = Len(pointers) + 1
      BY <1>2, <1>3, <2>1, <2>4 DEF TypeInv
    <3> QED
      BY <1>1, <1>2, <1>3, <2>1, <2>2, <2>4, <3>2 DEF TypeInv, ReaderInv, ReaderPlaces, Unstarted
  <2> QED
    BY <1>7, <2>3, <2>4 DEF InsertHazard
<1>8. CASE Validate(r) \/ StopReading(r)
  BY SMTT(30), <1>1, <1>2, <1>3, <1>8
  DEF Validate, StopReading, lists, HazardGoto, TypeInv, ReaderInv, ReaderPlaces, Unstarted
<1>9. ASSUME NEW i \in 1 .. Len(pointers), pointers' = [pointers EXCEPT ![i] = Null]
      PROVE  pointers' \in Seq(Words) /\ Len(pointers') = Len(pointers)
  BY <1>2, <1>3, <1>9 DEF TypeInv, Words
<1>10. ASSUME Return(r), pointers' \in Seq(Words), Len(pointers') = Len(pointers)
       PROVE  TypeInv' /\ ReaderInv(r)'
  <2>1. slot' \in [Readers -> Nat] /\ slot'[r] = 0
    BY <1>2, <1>10 DEF Return, TypeInv
  <2>2. flag' = flag
    BY <1>1, <1>2, <1>10 DEF Return, TypeInv
  <2> QED
    BY <1>1, <1>2, <1>3, <1>10, <2>1, <2>2
    DEF Return, HazardGoto, TypeInv, ReaderInv, ReaderPlaces, Unstarted, Words
<1>11. CASE UndoHazard(r)
  <2>1. slot[r] \in 1 .. Len(pointers)
    BY <1>2, <1>3, <1>11 DEF UndoHazard, ReaderInv
  <2>2. CASE pointers' = [pointers EXCEPT ![slot[r]] = Null] /\ Return(r)
    <3>1. pointers' \in Seq(Words) /\ Len(pointers') = Len(pointers)
      BY <1>9, <2>1, <2>2
    <3> QED
      BY <1>3, <1>10, <2>2, <3>1
  <2>3. CASE UNCHANGED <<pointers, val, slot, flag>> /\ HazardGoto(r, "undoRemove")
    BY <1>1, <1>2, <1>3, <1>11, <2>3
    DEF UndoHazard, HazardGoto, TypeInv, ReaderInv, ReaderPlaces, Unstarted
  <2> QED
    BY <1>11, <2>2, <2>3 DEF UndoHazard
<1>12. CASE UndoRemove(r) \/ Drop(r)
  <2>1. AtNode(r, val[r]) /\ pointers' = [pointers EXCEPT ![at[r]] = Null] /\ Return(r)
    BY <1>12, WalkerFinds DEF UndoRemove, Drop
  <2>2. at[r] \in 1 .. Len(pointers)
    BY <1>2, <1>3, <2>1 DEF AtNode, ReaderInv, Unstarted
  <2>3. pointers' \in Seq(Words) /\ Len(pointers') = Len(pointers)
    BY <1>9, <2>1, <2>2
  <2> QED
    BY <1>3, <1>10, <2>1, <2>3
<1> QED
  BY <1>4, <1>5, <1>6, <1>7, <1>8, <1>11, <1>12 DEF Read, Walk

LEMMA WriterTyped ==
  ASSUME Typed, NEW w \in Writers, Walk(w) \/ Swap(w) \/ Cleanup(w)
  PROVE  TypeInv' /\ WriterInv(w)' /\ Len(retired) <= Len(retired')
<1>1. w \in HazardThreads /\ w \notin Readers
  BY ThreadsAssumption DEF HazardThreads
<1>2. TypeInv /\ WriterInv(w) /\ UNCHANGED pointers
  BY WriterFrame DEF Typed
<1>3. /\ Len(pointers) \in Nat /\ Len(retired) \in Nat /\ DOMAIN retired = 1 .. Len(retired)
      /\ \A i \in DOMAIN retired : retired[i] \in Words
  BY Lists
<1>4. CASE LoadHead(w)
  BY <1>1, <1>2, <1>3, <1>4 DEF LoadHead, lists, budget, TypeInv, WriterInv, Walked
<1>5. CASE StepOn(w)
  <2>1. at[w] \in 1 .. Len(Walked(w)) /\ at' = [at EXCEPT ![w] = at[w] - 1]
        /\ UNCHANGED <<shared, retired, allocated, doing, val, slot, flag, entry, cleanups>>
    BY <1>2, <1>3, <1>5 DEF StepOn, lists, budget, WriterInv, Walked, Unstarted
  <2>2. at' \in [HazardThreads -> Int] /\ at'[w] \in 0 .. Len(Walked(w)) /\ Walked(w)' = Walked(w)
    BY <1>1, <1>2, <1>3, <2>1 DEF TypeInv, Walked
  <2> QED
    BY <1>1, <1>2, <1>3, <2>1, <2>2 DEF TypeInv, WriterInv
<1>6. CASE Exchange(w)
  BY <1>1, <1>2, <1>3, <1>6, FlagsAssumption
  DEF Exchange, lists, HazardGoto, TypeInv, WriterInv, WriterPlaces, Words, Unstarted
<1>7. CASE FoundInUse(w)
  BY <1>1, <1>2, <1>3, <1>7
  DEF FoundInUse, lists, budget, HazardGoto, TypeInv, WriterInv, WriterPlaces, Unstarted
<1>8. ASSUME Return(w), retired' \in Seq(Words), Len(retired) <= Len(retired'), UNCHANGED <<cleanups, shared, entry>>,
             allocated' \subseteq Addresses
      PROVE  TypeInv' /\ WriterInv(w)'
  <2>1. slot' = slot
    BY <1>1, <1>2, <1>8 DEF Return, TypeInv
  <2>2. flag' \in [Writers -> {"wait", "defer"}]
    BY <1>1, <1>2, <1>8 DEF Return, TypeInv
  <2>3. Len(retired') \in Nat
    BY <1>8
  <2> QED
    BY <1>1, <1>2, <1>3, <1>8, <2>1, <2>2, <2>3
    DEF Return, HazardGoto, TypeInv, WriterInv, WriterPlaces, Unstarted, Words
<1>9. CASE FreeOld(w)
  BY <1>2, <1>3, <1>8, <1>9 DEF FreeOld, lists, budget, TypeInv
<1>10. CASE Retire(w)
  <2>1. val[w] \in Words /\ at[w] \in {Unstarted} \cup 0 .. Len(retired)
    BY <1>1, <1>2, <1>10 DEF Retire, TypeInv, WriterInv, Walked
  <2>2. CASE AtNode(w, Null) /\ retired' = [retired EXCEPT ![at[w]] = val[w]]
    <3>1. retired' \in Seq(Words) /\ Len(retired') = Len(retired)
      BY <1>2, <1>3, <2>1, <2>2 DEF TypeInv, AtNode, Unstarted
    <3>2. Return(w) /\ UNCHANGED <<cleanups, shared, entry, allocated>>
      BY <1>10 DEF Retire, budget
    <3> QED
      BY <1>2, <1>3, <1>8, <3>1, <3>2 DEF TypeInv
  <2>3. CASE retired' = Append(retired, val[w])
    <3>1. retired' \in Seq(Words) /\ Len(retired') = Len(retired) + 1
      BY <1>2, <1>3, <2>1, <2>3 DEF TypeInv
    <3>2. Return(w) /\ UNCHANGED <<cleanups, shared, entry, allocated>>
      BY <1>10 DEF Retire, budget
    <3> QED
      BY <1>2, <1>3, <1>8, <3>1, <3>2 DEF TypeInv
  <2> QED
    BY <1>10, <2>2, <2>3 DEF Retire
<1>11. CASE StartCleanup(w)
  <2>1. w \in Cleaners
    BY <1>2, <1>11 DEF StartCleanup, WriterInv
  <2> QED
    BY <1>1, <1>2, <1>3, <1>11, <2>1, FlagsAssumption
    DEF StartCleanup, lists, HazardGoto, TypeInv, WriterInv, WriterPlaces, Unstarted, Walked
<1>12. CASE NextRetired(w)
  <2>1. CASE entry[w] = 0
    <3>1. Return(w) /\ UNCHANGED <<entry, shared, retired, allocated, cleanups>>
      BY <1>12, <2>1 DEF NextRetired, lists, budget
    <3> QED
      BY <1>2, <1>3, <1>8, <3>1 DEF TypeInv
  <2>2. CASE entry[w] # 0
    <3>1. entry[w] \in DOMAIN retired
      BY <1>2, <1>3, <2>2 DEF WriterInv
    <3>2. /\ entry' = [entry EXCEPT ![w] = entry[w] - 1] /\ val' = [val EXCEPT ![w] = retired[entry[w]]]
          /\ HazardGoto(w, IF retired[entry[w]] = Null THEN "cleanup" ELSE "cleanupScan")
          /\ UNCHANGED <<shared, retired, allocated, slot, flag, cleanups>>
          /\ doing[w] = "cleanup"
      BY <1>12, <2>2 DEF NextRetired, lists, budget
    <3>3. entry' \in [Writers -> Nat] /\ entry'[w] \in 0 .. Len(retired)
      BY <1>2, <1>3, <3>1, <3>2 DEF TypeInv
    <3>4. val' \in [HazardThreads -> Words] /\ val'[w] = retired[entry[w]] /\ retired[entry[w]] \in Words
      BY <1>1, <1>2, <1>3, <3>1, <3>2 DEF TypeInv
    <3> QED
      BY <1>1, <1>2, <1>3, <3>2, <3>3, <3>4 DEF HazardGoto, TypeInv, WriterInv, WriterPlaces, Unstarted, Words
  <2> QED
    BY <2>1, <2>2
<1>13. CASE RetiredInUse(w) \/ RetiredUnused(w)
  <2>1. PICK x \in {"cleanup", "cleanupScan", "removeRetired"} : HazardGoto(w, x)
    BY <1>13 DEF RetiredInUse, RetiredUnused
  <2>2. doing[w] = "cleanupScan" /\ UNCHANGED <<shared, retired, allocated, val, slot, flag, entry, cleanups>>
    BY <1>13 DEF RetiredInUse, RetiredUnused, lists, budget
  <2> QED
    BY <1>1, <1>2, <1>3, <2>1, <2>2 DEF HazardGoto, TypeInv, WriterInv, WriterPlaces, Unstarted
<1>14. CASE RemoveRetired(w)
  <2>1. at[w] \in {Unstarted} \cup 0 .. Len(retired)
    BY <1>1, <1>2, <1>14 DEF RemoveRetired, WriterInv, Walked
  <2>2. retired' \in Seq(Words) /\ Len(retired') = Len(retired)
    <3>1. CASE UNCHANGED retired
      BY <1>2, <3>1 DEF TypeInv
    <3>2. CASE AtNode(w, val[w]) /\ retired' = [retired EXCEPT ![at[w]] = Null]
      BY <1>2, <1>3, <2>1, <3>2 DEF TypeInv, AtNode, Words, Unstarted
    <3> QED
      BY <1>14, <3>1, <3>2 DEF RemoveRetired
  <2>3. PICK x \in {"cleanup", "freeRetired"} : HazardGoto(w, x)
    BY <1>14 DEF RemoveRetired
  <2>4. doing[w] = "removeRetired" /\ UNCHANGED <<shared, allocated, val, slot, flag, entry, cleanups>>
    BY <1>14 DEF RemoveRetired, budget
  <2> QED
    BY <1>1, <1>2, <1>3, <2>2, <2>3, <2>4 DEF HazardGoto, TypeInv, WriterInv, WriterPlaces, Unstarted
<1>15. CASE FreeRetired(w)
  BY <1>1, <1>2, <1>3, <1>15
  DEF FreeRetired, lists, budget, HazardGoto, TypeInv, WriterInv, WriterPlaces, Unstarted
<1> QED
  BY <1>4, <1>5, <1>6, <1>7, <1>9, <1>10, <1>11, <1>12, <1>13, <1>14, <1>15 DEF Walk, Swap, Cleanup

LEMMA TypedKept ==
  ASSUME ListInv, HazardNext
  PROVE  Typed'
<1>1. Readers \subseteq HazardThreads /\ Writers \subseteq HazardThreads /\ Readers \cap Writers = {}
  BY ThreadsAssumption DEF HazardThreads
<1>2. Typed /\ Len(pointers) \in Nat /\ Len(retired) \in Nat
  BY Lists DEF ListInv
<1>3. ASSUME NEW r \in Readers, Read(r) PROVE Typed'
  <2>1. TypeInv' /\ ReaderInv(r)' /\ Len(pointers) <= Len(pointers') /\ UNCHANGED <<retired, entry, cleanups>>
    BY <1>2, <1>3, ReaderTyped, ReaderFrame
  <2>2. Len(pointers') \in Nat
    BY <2>1 DEF TypeInv
  <2>3. ASSUME NEW q \in Readers, q # r PROVE ReaderInv(q)'
    <3>1. Still(q) /\ slot'[q] = slot[q] /\ ReaderInv(q)
      BY <1>1, <1>2, <1>3, <2>3, ReaderFrame DEF Typed
    <3> QED
      BY <1>2, <2>1, <2>2, <3>1 DEF ReaderInv, Still
  <2>4. ASSUME NEW w \in Writers PROVE WriterInv(w)'
    <3>1. Still(w) /\ WriterInv(w)
      BY <1>1, <1>2, <1>3, <2>4, ReaderFrame DEF Typed
    <3> QED
      BY <1>2, <2>1, <2>2, <3>1 DEF WriterInv, Still, Walked
  <2> QED
    BY <2>1, <2>3, <2>4 DEF Typed
<1>4. ASSUME NEW w \in Writers, Walk(w) \/ Swap(w) \/ Cleanup(w) PROVE Typed'
  <2>1. TypeInv' /\ WriterInv(w)' /\ Len(retired) <= Len(retired') /\ UNCHANGED pointers
    BY <1>2, <1>4, WriterTyped, WriterFrame
  <2>2. Len(retired') \in Nat
    BY <2>1 DEF TypeInv
  <2>3. ASSUME NEW r \in Readers PROVE ReaderInv(r)'
    <3>1. Still(r) /\ slot'[r] = slot[r] /\ ReaderInv(r)
      BY <1>1, <1>2, <1>4, <2>3, WriterFrame DEF Typed
    <3> QED
      BY <2>1, <3>1 DEF ReaderInv, Still
  <2>4. ASSUME NEW v \in Writers, v # w PROVE WriterInv(v)'
    <3>1. Still(v) /\ WriterInv(v) /\ entry'[v] = entry[v] /\ cleanups'[v] = cleanups[v]
      BY <1>1, <1>2, <1>4, <2>4, WriterFrame DEF Typed
    <3> QED
      BY <1>2, <2>1, <2>2, <3>1 DEF WriterInv, Still, Walked
  <2> QED
    BY <2>1, <2>3, <2>4 DEF Typed
<1> QED
  BY <1>3, <1>4 DEF HazardNext

-----------------------------------------------------------------------------
(* What a step of reader r does to the list and to r *)

\* r publishes its address in node node'[r], which was empty or new.
Inserts(r) ==
  /\ doing[r] = "insert" /\ doing'[r] = "validate" /\ val'[r] = val[r]
  /\ slot'[r] \in DOMAIN pointers' /\ pointers'[slot'[r]] = val[r]
  /\ slot'[r] \in DOMAIN pointers => pointers[slot'[r]] = Null
  /\ DOMAIN pointers' = DOMAIN pointers \cup {slot'[r]}
  /\ \A j \in DOMAIN pointers : j # slot'[r] => pointers'[j] = pointers[j]

\* r empties node i, its own or the one its walk has got to.
Removes(r, i) ==
  /\ i \in DOMAIN pointers /\ pointers[i] = val[r]
  /\ DOMAIN pointers' = DOMAIN pointers /\ pointers'[i] = Null
  /\ \A j \in DOMAIN pointers : j # i => pointers'[j] = pointers[j]
  /\ doing'[r] = "idle"
  /\ \/ doing[r] = "undo" /\ i = slot[r]
     \/ doing[r] \in {"undoRemove", "drop"} /\ i = at[r]

\* r's walk begins, or passes over a node.
StartsWalk(r) ==
  /\ doing[r] \in {"insert", "undoRemove", "drop"} /\ at'[r] = Len(pointers)
  /\ doing'[r] = doing[r] /\ val'[r] = val[r] /\ slot'[r] = slot[r]
PassesNode(r) ==
  /\ doing[r] \in {"insert", "undoRemove", "drop"} /\ at[r] \in DOMAIN pointers /\ at'[r] = at[r] - 1
  /\ doing[r] # "insert" => pointers[at[r]] # val[r]
  /\ doing'[r] = doing[r] /\ val'[r] = val[r] /\ slot'[r] = slot[r]

\* r goes on to something else.
GoesOn(r) ==
  /\ at'[r] = Unstarted
  /\ \/ doing[r] = "idle" /\ doing'[r] = "insert"
     \/ /\ val'[r] = val[r] /\ slot'[r] = slot[r]
        /\ \/ doing[r] = "validate" /\ doing'[r] = "undo"
           \/ doing[r] = "validate" /\ doing'[r] = "reading" /\ shared = val[r]
           \/ doing[r] = "undo" /\ doing'[r] = "undoRemove" /\ pointers[slot[r]] # val[r]
           \/ doing[r] = "reading" /\ doing'[r] = "drop"

LEMMA ReaderActs ==
  ASSUME ListInv, NEW r \in Readers, Read(r)
  PROVE  \/ Inserts(r)
         \/ \E i \in DOMAIN pointers : Removes(r, i)
         \/ UNCHANGED pointers /\ (StartsWalk(r) \/ PassesNode(r) \/ GoesOn(r))
<1>1. r \in HazardThreads /\ r \notin Writers /\ Walked(r) = pointers
  BY ReaderWalked DEF ListInv
<1>2. TypeInv /\ ReaderInv(r)
  BY DEF ListInv, Typed
<1>3. /\ Len(pointers) \in Nat /\ DOMAIN pointers = 1 .. Len(pointers)
  BY Lists DEF ListInv
<1>4. CASE LoadHead(r)
  BY <1>1, <1>2, <1>3, <1>4 DEF LoadHead, lists, TypeInv, ReaderInv, Walking, ReaderPlaces, StartsWalk
<1>5. CASE StepOn(r)
  <2>1. at[r] \in 1 .. Len(pointers) /\ at' = [at EXCEPT ![r] = at[r] - 1]
        /\ UNCHANGED <<pointers, doing, val, slot, flag>>
        /\ doing[r] \in Walking
        /\ pointers[at[r]] # (IF doing[r] \in {"insert", "retire"} THEN Null ELSE val[r])
    BY <1>1, <1>2, <1>3, <1>5 DEF StepOn, lists, ReaderInv, Unstarted
  <2> QED
    BY <1>1, <1>2, <1>3, <2>1 DEF TypeInv, ReaderInv, Walking, ReaderPlaces, PassesNode
<1>6. CASE LoadPointer(r)
  BY <1>1, <1>2, <1>6 DEF LoadPointer, lists, HazardGoto, TypeInv, GoesOn
<1>7. CASE InsertHazard(r)
  <2>1. /\ doing[r] = "insert" /\ doing'[r] = "validate" /\ val'[r] = val[r] /\ val[r] \in Words
    BY <1>1, <1>2, <1>7 DEF InsertHazard, HazardGoto, TypeInv
  <2>2. CASE AtNode(r, Null) /\ pointers' = [pointers EXCEPT ![at[r]] = val[r]]
               /\ slot' = [slot EXCEPT ![r] = at[r]]
    <3>1. at[r] \in 1 .. Len(pointers) /\ pointers[at[r]] = Null
      BY <1>1, <1>2, <2>2 DEF AtNode, ReaderInv, Unstarted
    <3>2. slot'[r] = at[r]
      BY <1>2, <2>2 DEF TypeInv
    <3> QED
      BY <1>3, <2>1, <2>2, <3>1, <3>2 DEF Inserts
  <2>3. CASE pointers' = Append(pointers, val[r]) /\ slot' = [slot EXCEPT ![r] = Len(pointers) + 1]
    <3>1. slot'[r] = Len(pointers) + 1
      BY <1>2, <2>3 DEF TypeInv
    <3>2. /\ Len(pointers') = Len(pointers) + 1 /\ DOMAIN pointers' = 1 .. Len(pointers')
          /\ \A j \in 1 .. Len(pointers) : pointers'[j] = pointers[j]
          /\ pointers'[Len(pointers) + 1] = val[r]
      BY <1>2, <2>1, <2>3 DEF TypeInv
    <3>3. DOMAIN pointers' = DOMAIN pointers \cup {slot'[r]} /\ slot'[r] \notin DOMAIN pointers
      BY <1>3, <3>1, <3>2
    <3> QED
      BY <1>3, <2>1, <3>1, <3>2, <3>3 DEF Inserts
  <2> QED
    BY <1>7, <2>2, <2>3 DEF InsertHazard
<1>8. CASE Validate(r) \/ StopReading(r)
  BY <1>1, <1>2, <1>8 DEF Validate, StopReading, lists, HazardGoto, TypeInv, GoesOn
<1>9. CASE UndoHazard(r)
  <2>1. slot[r] \in DOMAIN pointers /\ doing[r] = "undo"
    BY <1>2, <1>3, <1>9 DEF UndoHazard, ReaderInv
  <2>2. CASE pointers[slot[r]] = val[r]
    BY <1>1, <1>2, <1>9, <2>1, <2>2 DEF UndoHazard, Return, HazardGoto, Removes, TypeInv
  <2>3. CASE pointers[slot[r]] # val[r]
    BY <1>1, <1>2, <1>9, <2>1, <2>3 DEF UndoHazard, HazardGoto, GoesOn, TypeInv
  <2> QED
    BY <2>2, <2>3
<1>10. CASE UndoRemove(r) \/ Drop(r)
  <2>1. /\ AtNode(r, val[r]) /\ pointers' = [pointers EXCEPT ![at[r]] = Null] /\ Return(r)
        /\ doing[r] \in {"undoRemove", "drop"}
    BY <1>10, WalkerFinds DEF UndoRemove, Drop
  <2>2. at[r] \in DOMAIN pointers /\ pointers[at[r]] = val[r]
    BY <1>1, <1>2, <1>3, <2>1 DEF AtNode, ReaderInv, Unstarted
  <2> QED
    BY <1>1, <1>2, <2>1, <2>2 DEF Return, HazardGoto, Removes, TypeInv
<1> QED
  BY <1>4, <1>5, <1>6, <1>7, <1>8, <1>9, <1>10 DEF Read, Walk

-----------------------------------------------------------------------------
(* The hazards are balanced *)

LEMMA BalancedKept ==
  ASSUME ListInv, HazardNext
  PROVE  Balanced'
<1> SUFFICES ASSUME NEW a \in Addresses
             PROVE  Cardinality(NodesOf(a))' = Cardinality(PublishersOf(a))'
  BY DEF Balanced
<1>1. Typed /\ Cardinality(NodesOf(a)) = Cardinality(PublishersOf(a))
  BY DEF ListInv, Balanced
<1>2. /\ IsFiniteSet(NodesOf(a)) /\ IsFiniteSet(PublishersOf(a))
  BY <1>1, FiniteSets
<1>3. Readers \subseteq HazardThreads /\ a # Null /\ a \in Words
  BY AddressAssumption DEF HazardThreads, Words
<1>4. ASSUME NEW w \in Writers, Walk(w) \/ Swap(w) \/ Cleanup(w)
      PROVE  Cardinality(NodesOf(a))' = Cardinality(PublishersOf(a))'
  <2>1. UNCHANGED pointers /\ \A r \in Readers : Still(r)
    BY <1>1, <1>4, WriterFrame
  <2>2. NodesOf(a)' = NodesOf(a) /\ PublishersOf(a)' = PublishersOf(a)
    BY <2>1 DEF NodesOf, PublishersOf, Publishing, Still
  <2> QED
    BY <1>1, <2>2
<1>5. ASSUME NEW r \in Readers, Read(r)
      PROVE  Cardinality(NodesOf(a))' = Cardinality(PublishersOf(a))'
  <2>1. \A q \in Readers : q # r => Still(q)
    BY <1>1, <1>3, <1>5, ReaderFrame
  <2>2. CASE Inserts(r)
    <3>1. CASE val[r] = a
      <4>1. NodesOf(a)' = NodesOf(a) \cup {slot'[r]} /\ slot'[r] \notin NodesOf(a)
        BY <1>3, <2>2, <3>1 DEF NodesOf, Inserts
      <4>2. PublishersOf(a)' = PublishersOf(a) \cup {r} /\ r \notin PublishersOf(a)
        BY <2>1, <2>2, <3>1 DEF PublishersOf, Publishing, Inserts, Still
      <4>3. Cardinality(NodesOf(a) \cup {slot'[r]}) = Cardinality(NodesOf(a)) + 1
        BY <1>2, <4>1, FS_AddElement
      <4>4. Cardinality(PublishersOf(a) \cup {r}) = Cardinality(PublishersOf(a)) + 1
        BY <1>2, <4>2, FS_AddElement
      <4> QED
        BY <1>1, <4>1, <4>2, <4>3, <4>4
    <3>2. CASE val[r] # a
      <4>1. NodesOf(a)' = NodesOf(a)
        BY <1>3, <2>2, <3>2 DEF NodesOf, Inserts
      <4>2. PublishersOf(a)' = PublishersOf(a)
        BY <2>1, <2>2, <3>2 DEF PublishersOf, Publishing, Inserts, Still
      <4> QED
        BY <1>1, <4>1, <4>2
    <3> QED
      BY <3>1, <3>2
  <2>3. ASSUME NEW i \in DOMAIN pointers, Removes(r, i)
        PROVE  Cardinality(NodesOf(a))' = Cardinality(PublishersOf(a))'
    <3>1. CASE val[r] = a
      <4>1. NodesOf(a)' = NodesOf(a) \ {i} /\ i \in NodesOf(a)
        BY <1>3, <2>3, <3>1 DEF NodesOf, Removes
      <4>2. PublishersOf(a)' = PublishersOf(a) \ {r} /\ r \in PublishersOf(a)
        BY <2>1, <2>3, <3>1 DEF PublishersOf, Publishing, Removes, Still
      <4>3. Cardinality(NodesOf(a) \ {i}) = Cardinality(NodesOf(a)) - 1
        BY <1>2, <4>1, FS_RemoveElement
      <4>4. Cardinality(PublishersOf(a) \ {r}) = Cardinality(PublishersOf(a)) - 1
        BY <1>2, <4>2, FS_RemoveElement
      <4> QED
        BY <1>1, <4>1, <4>2, <4>3, <4>4
    <3>2. CASE val[r] # a
      <4>1. NodesOf(a)' = NodesOf(a)
        BY <1>3, <2>3, <3>2 DEF NodesOf, Removes
      <4>2. PublishersOf(a)' = PublishersOf(a)
        BY <2>1, <2>3, <3>2 DEF PublishersOf, Publishing, Removes, Still
      <4> QED
        BY <1>1, <4>1, <4>2
    <3> QED
      BY <3>1, <3>2
  <2>4. CASE UNCHANGED pointers /\ (StartsWalk(r) \/ PassesNode(r) \/ GoesOn(r))
    <3>1. NodesOf(a)' = NodesOf(a)
      BY <2>4 DEF NodesOf
    <3>2. PublishersOf(a)' = PublishersOf(a)
      BY <2>1, <2>4 DEF PublishersOf, Publishing, StartsWalk, PassesNode, GoesOn, Still
    <3> QED
      BY <1>1, <3>1, <3>2
  <2> QED
    BY <1>5, <2>2, <2>3, <2>4, ReaderActs
<1> QED
  BY <1>4, <1>5 DEF HazardNext

\* Sets on both sides of an inequality shrink and grow.
LEMMA StillFits ==
  ASSUME NEW A, NEW B, NEW C, NEW D, IsFiniteSet(B), IsFiniteSet(D),
         A \subseteq B, C \subseteq D, Cardinality(B) <= Cardinality(C)
  PROVE  Cardinality(A) <= Cardinality(D)
<1>1. IsFiniteSet(A) /\ Cardinality(A) <= Cardinality(B)
  BY FS_Subset
<1>2. IsFiniteSet(C) /\ Cardinality(C) <= Cardinality(D)
  BY FS_Subset
<1>3. /\ Cardinality(A) \in Nat /\ Cardinality(B) \in Nat
      /\ Cardinality(C) \in Nat /\ Cardinality(D) \in Nat
  BY <1>1, <1>2, FS_CardinalityType
<1> QED
  BY <1>1, <1>2, <1>3

\* One leaves each side.
LEMMA OneLess ==
  ASSUME NEW A, NEW B, NEW C, NEW D, NEW x, NEW y, IsFiniteSet(B), IsFiniteSet(C), IsFiniteSet(D),
         x \in B, A \subseteq B \ {x}, C \ {y} \subseteq D, Cardinality(B) <= Cardinality(C)
  PROVE  Cardinality(A) <= Cardinality(D)
<1>1. IsFiniteSet(B \ {x}) /\ Cardinality(B \ {x}) = Cardinality(B) - 1
  BY FS_RemoveElement
<1>2. /\ IsFiniteSet(C \ {y})
      /\ Cardinality(C \ {y}) = IF y \in C THEN Cardinality(C) - 1 ELSE Cardinality(C)
  BY FS_RemoveElement
<1>3. Cardinality(B) \in Nat /\ Cardinality(C) \in Nat
  BY FS_CardinalityType
<1>4. Cardinality(B \ {x}) <= Cardinality(C \ {y})
  BY <1>1, <1>2, <1>3, FS_CardinalityType
<1> QED
  BY <1>1, <1>4, StillFits

\* Those of the readers that have published a that hold no node of it.
Undecided(a) == {r \in Readers : doing[r] \in {"validate", "undo"} /\ val[r] = a}

\* As many nodes with a are free as there are readers that look for one, or will.
LEMMA EnoughFree ==
  ASSUME ListInv, NEW a \in Addresses
  PROVE  Cardinality(PublishersOf(a) \ Undecided(a)) <= Cardinality(Free(a, Len(pointers)))
<1> DEFINE P == PublishersOf(a)
           U == Undecided(a)
           N == NodesOf(a)
           F == Free(a, Len(pointers))
           H == N \ F
           R == {r \in U : slot[r] \in H}
           f == [r \in R |-> slot[r]]
<1>1. IsFiniteSet(P) /\ IsFiniteSet(N) /\ IsFiniteSet(F) /\ Cardinality(N) = Cardinality(P)
  BY FiniteSets DEF ListInv, Balanced
<1>2. U \subseteq P /\ F \subseteq N /\ R \subseteq U
  BY DEF Undecided, PublishersOf, Publishing, Free, NodesOf
<1>3. \A i \in H : \E r \in R : slot[r] = i
  <2> SUFFICES ASSUME NEW i \in H PROVE \E r \in R : slot[r] = i
    OBVIOUS
  <2>1. i \in DOMAIN pointers /\ pointers[i] = a /\ i <= Len(pointers)
    BY Lists DEF NodesOf, ListInv
  <2>2. Held(i, a)
    BY <2>1 DEF Free
  <2> QED
    BY <2>2 DEF Held, Undecided
<1>4. f \in Surjection(R, H)
  BY <1>3 DEF Surjection
<1>5. IsFiniteSet(U) /\ IsFiniteSet(R) /\ Cardinality(R) <= Cardinality(U)
  BY <1>1, <1>2, FS_Subset
<1>6. IsFiniteSet(H) /\ Cardinality(H) <= Cardinality(U)
  <2> HIDE DEF H, R, f, U
  <2>1. IsFiniteSet(H) /\ Cardinality(H) <= Cardinality(R)
    BY <1>4, <1>5, FS_Surjection
  <2>2. Cardinality(H) \in Nat /\ Cardinality(R) \in Nat /\ Cardinality(U) \in Nat
    BY <1>5, <2>1, FS_CardinalityType
  <2> QED
    BY <1>5, <2>1, <2>2
<1>7. Cardinality(H) = Cardinality(N) - Cardinality(F)
  <2> HIDE DEF N, F
  <2>1. N \cap F = F
    BY <1>2
  <2>2. Cardinality(N \ F) = Cardinality(N) - Cardinality(N \cap F)
    BY <1>1, FS_Difference, Zenon
  <2> QED
    BY <2>1, <2>2 DEF H
<1>8. Cardinality(P \ U) = Cardinality(P) - Cardinality(U)
  <2> HIDE DEF P, U
  <2>1. P \cap U = U
    BY <1>2
  <2>2. Cardinality(P \ U) = Cardinality(P) - Cardinality(P \cap U)
    BY <1>1, FS_Difference, Zenon
  <2> QED
    BY <2>1, <2>2
<1>9. Cardinality(P) \in Nat /\ Cardinality(U) \in Nat /\ Cardinality(N) \in Nat /\ Cardinality(F) \in Nat
  <2> HIDE DEF P, U, N, F
  <2> QED
    BY <1>1, <1>5, FS_CardinalityType
<1> HIDE DEF P, U, N, F, H
<1>10. Cardinality(P \ U) <= Cardinality(F)
  BY <1>1, <1>6, <1>7, <1>8, <1>9
<1> QED
  BY <1>10 DEF P, U, F

LEMMA RoomKept ==
  ASSUME ListInv, Typed', HazardNext
  PROVE  Room'
<1> SUFFICES ASSUME NEW a \in Addresses, NEW k \in Nat
             PROVE  Cardinality(Walkers(a, k)') <= Cardinality(Free(a, k)')
  BY DEF Room
<1>1. Typed /\ \A l \in Nat : Cardinality(Walkers(a, l)) <= Cardinality(Free(a, l))
  BY DEF ListInv, Room
<1>2. IsFiniteSet(Walkers(a, k)) /\ IsFiniteSet(Free(a, k))
  BY <1>1, FiniteSets
<1>3. IsFiniteSet(Free(a, k)')
  <2>1. /\ DOMAIN pointers' = 1 .. Len(pointers') /\ Len(pointers') \in Nat
    BY DEF Typed, TypeInv
  <2>2. IsFiniteSet(1 .. Len(pointers'))
    BY <2>1, FS_Interval
  <2>3. Free(a, k)' \in SUBSET (1 .. Len(pointers'))
    BY <2>1 DEF Free
  <2> QED
    BY <2>2, <2>3, FS_Subset
<1>4. Readers \subseteq HazardThreads /\ a # Null /\ a \in Words
  BY AddressAssumption DEF HazardThreads, Words
<1>5. /\ Len(pointers) \in Nat /\ DOMAIN pointers = 1 .. Len(pointers)
  BY <1>1, Lists
<1>6. ASSUME Walkers(a, k)' \subseteq Walkers(a, k), Free(a, k) \subseteq Free(a, k)'
      PROVE  Cardinality(Walkers(a, k)') <= Cardinality(Free(a, k)')
  BY <1>1, <1>2, <1>3, <1>6, StillFits
<1>7. ASSUME NEW w \in Writers, Walk(w) \/ Swap(w) \/ Cleanup(w)
      PROVE  Cardinality(Walkers(a, k)') <= Cardinality(Free(a, k)')
  <2>1. UNCHANGED pointers /\ \A r \in Readers : Still(r) /\ slot'[r] = slot[r]
    BY <1>1, <1>7, WriterFrame
  <2>2. Walkers(a, k)' = Walkers(a, k) /\ \A i : Held(i, a)' <=> Held(i, a)
    BY <2>1 DEF Walkers, Held, Still
  <2>3. Free(a, k)' = Free(a, k)
    BY <2>1, <2>2 DEF Free
  <2> QED
    BY <1>6, <2>2, <2>3
<1>8. ASSUME NEW r \in Readers, Read(r)
      PROVE  Cardinality(Walkers(a, k)') <= Cardinality(Free(a, k)')
  <2>1. \A q \in Readers : q # r => Still(q) /\ slot'[q] = slot[q]
    BY <1>1, <1>4, <1>8, ReaderFrame
  <2>2. Walkers(a, k)' \subseteq Walkers(a, k) \cup {r} /\ Walkers(a, k) \subseteq Walkers(a, k)' \cup {r}
    BY <2>1 DEF Walkers, Still
  <2>3. ASSUME r \notin Walkers(a, k)', Free(a, k) \subseteq Free(a, k)'
        PROVE  Cardinality(Walkers(a, k)') <= Cardinality(Free(a, k)')
    BY <1>6, <2>2, <2>3
  <2>4. ASSUME Inserts(r) PROVE Cardinality(Walkers(a, k)') <= Cardinality(Free(a, k)')
    <3>1. r \notin Walkers(a, k)'
      BY <2>4 DEF Walkers, Inserts
    <3>2. \A i \in DOMAIN pointers : pointers[i] = a => i # slot'[r] /\ pointers'[i] = a /\ i \in DOMAIN pointers'
      BY <1>4, <2>4 DEF Inserts
    <3>3. \A i \in DOMAIN pointers : pointers[i] = a /\ Held(i, a)' => Held(i, a)
      BY <2>1, <3>2 DEF Held, Still
    <3>4. Free(a, k) \subseteq Free(a, k)'
      BY <3>2, <3>3 DEF Free
    <3> QED
      BY <2>3, <3>1, <3>4
  <2>5. ASSUME NEW i \in DOMAIN pointers, Removes(r, i)
        PROVE  Cardinality(Walkers(a, k)') <= Cardinality(Free(a, k)')
    <3>1. r \notin Walkers(a, k)'
      BY <2>5 DEF Walkers, Removes
    <3>2. \A j : Held(j, a)' => Held(j, a)
      BY <2>1, <2>5 DEF Held, Removes, Still
    <3>3. Free(a, k) \ {i} \subseteq Free(a, k)'
      BY <2>5, <3>2 DEF Free, Removes
    <3>4. CASE i \in Free(a, k)
      <4>1. val[r] = a /\ i <= k
        BY <2>5, <3>4 DEF Removes, Free
      <4>2. ~Held(i, a)
        BY <3>4 DEF Free
      <4>3. doing[r] \in {"undoRemove", "drop"} /\ i = at[r]
        BY <2>5, <4>1, <4>2 DEF Removes, Held
      <4>4. r \in Walkers(a, k)
        BY <1>5, <4>1, <4>3 DEF Walkers
      <4>5. Walkers(a, k)' \subseteq Walkers(a, k) \ {r}
        BY <2>2, <3>1
      <4> QED
        BY <1>1, <1>2, <1>3, <3>3, <4>4, <4>5, OneLess
    <3>5. CASE i \notin Free(a, k)
      BY <2>3, <3>1, <3>3, <3>5
    <3> QED
      BY <3>4, <3>5
  <2>6. ASSUME UNCHANGED pointers, \A i : Held(i, a)' => Held(i, a)
        PROVE  Free(a, k) \subseteq Free(a, k)'
    BY <2>6 DEF Free
  <2>7. ASSUME UNCHANGED pointers, StartsWalk(r)
        PROVE  Cardinality(Walkers(a, k)') <= Cardinality(Free(a, k)')
    <3>1. \A i : Held(i, a)' <=> Held(i, a)
      BY <2>1, <2>7 DEF Held, StartsWalk, Still
    <3>2. CASE r \notin Walkers(a, k)'
      BY <2>3, <2>6, <2>7, <3>1, <3>2
    <3>3. CASE r \in Walkers(a, k)'
      <4>1. Len(pointers) <= k
        BY <2>7, <3>3 DEF Walkers, StartsWalk
      <4>2. Free(a, Len(pointers)) \subseteq Free(a, k)'
        BY <1>5, <2>7, <3>1, <4>1 DEF Free
      <4>3. Walkers(a, k)' \subseteq PublishersOf(a) \ Undecided(a)
        BY <2>1, <2>7 DEF Walkers, PublishersOf, Publishing, Undecided, StartsWalk, Still
      <4>4. IsFiniteSet(PublishersOf(a) \ Undecided(a))
        BY <1>1, FiniteSets, FS_Difference
      <4> QED
        BY <1>3, <4>2, <4>3, <4>4, EnoughFree, StillFits
    <3> QED
      BY <3>2, <3>3
  <2>8. ASSUME UNCHANGED pointers, PassesNode(r)
        PROVE  Cardinality(Walkers(a, k)') <= Cardinality(Free(a, k)')
    <3>1. \A i : Held(i, a)' <=> Held(i, a)
      BY <2>1, <2>8 DEF Held, PassesNode, Still
    <3>2. Free(a, k) \subseteq Free(a, k)'
      BY <2>6, <2>8, <3>1
    <3>3. CASE r \notin Walkers(a, k)'
      BY <2>3, <3>2, <3>3
    <3>4. CASE r \in Walkers(a, k)
      BY <1>6, <2>2, <3>2, <3>4
    <3>5. CASE r \in Walkers(a, k)' /\ r \notin Walkers(a, k)
      <4>1. at[r] \in Nat /\ at[r] = k + 1 /\ val[r] = a /\ pointers[at[r]] # a
        BY <1>5, <2>8, <3>5 DEF Walkers, PassesNode
      <4>2. Free(a, k + 1) \subseteq Free(a, k)'
        BY <1>5, <2>8, <3>1, <4>1 DEF Free
      <4>3. Walkers(a, k)' \subseteq Walkers(a, k + 1)
        BY <2>1, <2>8, <4>1 DEF Walkers, PassesNode, Still
      <4>4. IsFiniteSet(Walkers(a, k + 1)) /\ k + 1 \in Nat
        BY <1>1, FiniteSets
      <4> QED
        BY <1>1, <1>3, <4>2, <4>3, <4>4, StillFits
    <3> QED
      BY <3>3, <3>4, <3>5
  <2>9. ASSUME UNCHANGED pointers, GoesOn(r)
        PROVE  Cardinality(Walkers(a, k)') <= Cardinality(Free(a, k)')
    <3>1. \A i : Held(i, a)' => Held(i, a)
      BY <2>1, <2>9 DEF Held, GoesOn, Still
    <3>2. r \notin Walkers(a, k)'
      BY <2>9 DEF Walkers, GoesOn, Unstarted
    <3> QED
      BY <2>3, <2>6, <2>9, <3>1, <3>2
  <2> QED
    BY <1>8, <2>4, <2>5, <2>7, <2>8, <2>9, ReaderActs
<1> QED
  BY <1>7, <1>8 DEF HazardNext

LEMMA ListInitially == HazardInit => ListInv
<1> SUFFICES ASSUME HazardInit PROVE ListInv
  OBVIOUS
<1>1. Readers \subseteq HazardThreads /\ Writers \subseteq HazardThreads /\ Readers \cap Writers = {}
  BY ThreadsAssumption DEF HazardThreads
<1>2. /\ pointers = << >> /\ retired = << >> /\ DOMAIN pointers = {} /\ Len(pointers) = 0 /\ Len(retired) = 0
      /\ pointers \in Seq(Words) /\ retired \in Seq(Words)
  BY DEF HazardInit
<1>3. TypeInv
  BY <1>1, <1>2, AddressAssumption DEF HazardInit, TypeInv, ReaderPlaces, Words, Unstarted
<1>4. ASSUME NEW r \in Readers PROVE ReaderInv(r)
  BY <1>1, <1>2 DEF HazardInit, ReaderInv, ReaderPlaces
<1>5. ASSUME NEW w \in Writers PROVE WriterInv(w)
  <2>1. w \notin Cleaners => cleanups[w] = 0
    BY DEF HazardInit
  <2> QED
    BY <1>1, <1>2, <2>1 DEF HazardInit, WriterInv, WriterPlaces
<1>6. Typed
  BY <1>3, <1>4, <1>5 DEF Typed
<1>7. Balanced
  <2> SUFFICES ASSUME NEW a \in Addresses PROVE NodesOf(a) = {} /\ PublishersOf(a) = {}
    BY DEF Balanced
  <2> QED
    BY <1>1, <1>2 DEF HazardInit, NodesOf, PublishersOf, Publishing
<1>8. Room
  <2> SUFFICES ASSUME NEW a \in Addresses, NEW k \in Nat PROVE Walkers(a, k) = {} /\ Free(a, k) = {}
    BY FS_EmptySet DEF Room
  <2> QED
    BY <1>1, <1>2 DEF HazardInit, Walkers, Free
<1> QED
  BY <1>6, <1>7, <1>8 DEF ListInv

LEMMA ListInvariance == HazardSpec => []ListInv
<1>1. ListInv /\ [HazardNext]_hazardVars => ListInv'
  <2> SUFFICES ASSUME ListInv, [HazardNext]_hazardVars PROVE ListInv'
    OBVIOUS
  <2>1. CASE HazardNext
    BY <2>1, TypedKept, BalancedKept, RoomKept DEF ListInv
  <2>2. CASE UNCHANGED hazardVars
    <3>1. UNCHANGED <<shared, pointers, retired, allocated, doing, at, val, slot, flag, entry, cleanups>>
      BY <2>2 DEF hazardVars, lists, budget
    <3>2. Typed'
      BY <3>1 DEF ListInv, Typed, TypeInv, ReaderInv, WriterInv, Walked
    <3>3. \A a : NodesOf(a)' = NodesOf(a) /\ PublishersOf(a)' = PublishersOf(a)
      BY <3>1 DEF NodesOf, PublishersOf, Publishing
    <3>4. \A i, a : Held(i, a)' <=> Held(i, a)
      BY <3>1 DEF Held
    <3>5. \A a, k : Free(a, k)' = Free(a, k) /\ Walkers(a, k)' = Walkers(a, k)
      BY <3>1, <3>4 DEF Free, Walkers
    <3>6. Balanced'
      BY <3>3 DEF ListInv, Balanced
    <3>7. Room'
      BY <3>5 DEF ListInv, Room
    <3> QED
      BY <3>2, <3>6, <3>7 DEF ListInv
  <2> QED
    BY <2>1, <2>2
<1> QED
  BY ListInitially, <1>1, PTL DEF HazardSpec

\* A hazard pointer is taken back as often as it was published, and drop
\* always finds a node to empty, whichever node other threads have emptied.
THEOREM DropFindsItsHazard == HazardSpec => []HazardsBalanced
<1>1. ListInv => HazardsBalanced
  <2> SUFFICES ASSUME ListInv PROVE HazardsBalanced
    OBVIOUS
  <2>1. Typed
    BY DEF ListInv
  <2>2. HazardTypeOK
    <3>1. /\ shared \in Addresses /\ allocated \subseteq Addresses
          /\ pointers \in Seq(Addresses \cup {Null}) /\ retired \in Seq(Addresses \cup {Null})
          /\ \A w \in Writers : flag[w] \in {"wait", "defer"} /\ entry[w] \in 0 .. Len(retired)
      BY <2>1 DEF Typed, TypeInv, WriterInv, Words
    <3>2. \A r \in Readers : slot[r] \in 0 .. Len(pointers) /\ at[r] \in {Unstarted} \cup 0 .. Len(Walked(r))
      BY <2>1, ReaderWalked DEF Typed, ReaderInv
    <3>3. \A t \in HazardThreads : at[t] \in {Unstarted} \cup 0 .. Len(Walked(t)) /\ val[t] \in Addresses \cup {Null}
      BY <2>1, <3>2 DEF Typed, TypeInv, WriterInv, Words, HazardThreads
    <3> QED
      BY <3>1, <3>2, <3>3 DEF HazardTypeOK
  <2>3. \A r \in Readers : doing[r] # "unreachable"
    BY <2>1 DEF Typed, ReaderInv, ReaderPlaces
  <2>4. \A a \in Addresses : Cardinality({i \in DOMAIN pointers : pointers[i] = a})
                               = Cardinality({r \in Readers : Publishing(r) /\ val[r] = a})
    BY DEF ListInv, Balanced, NodesOf, PublishersOf
  <2> QED
    BY <2>2, <2>3, <2>4 DEF HazardsBalanced
<1> QED
  BY <1>1, ListInvariance, PTL

-----------------------------------------------------------------------------
(* Every object is in one place *)

\* An object that is retired is in one node, and in no writer's hands.
RetiredOnce ==
  \A i \in DOMAIN retired : retired[i] # Null =>
    /\ retired[i] \in allocated \ {shared}
    /\ \A w \in Writers : Deciding(w) => val[w] # retired[i]
    /\ \A j \in DOMAIN retired : j # i => retired[j] # retired[i]

\* An object a writer may retire or free is in its hands only.
DecidedOnce ==
  /\ \A w \in Writers : Deciding(w) => val[w] \in allocated \ {shared}
  /\ \A v, w \in Writers : Deciding(v) /\ Deciding(w) /\ v # w => val[v] # val[w]

NoneLost ==
  \A a \in allocated :
    \/ a = shared
    \/ \E w \in Writers : Deciding(w) /\ val[w] = a
    \/ \E i \in DOMAIN retired : retired[i] = a

Owned == shared \in allocated /\ RetiredOnce /\ DecidedOnce /\ NoneLost

ObjectInv == ListInv /\ Owned

\* The steps that leave every object where it is.
LEMMA OwnedStays ==
  ASSUME Owned, UNCHANGED <<shared, retired, allocated>>,
         \A w \in Writers : /\ Deciding(w)' <=> Deciding(w)
                            /\ Deciding(w) => val'[w] = val[w]
  PROVE  Owned'
<1>1. RetiredOnce'
  BY DEF Owned, RetiredOnce
<1>2. DecidedOnce'
  BY DEF Owned, DecidedOnce
<1>3. NoneLost'
  BY DEF Owned, NoneLost
<1> QED
  BY <1>1, <1>2, <1>3 DEF Owned

LEMMA OwnedKept ==
  ASSUME ObjectInv, HazardNext
  PROVE  Owned'
<1>1. Typed /\ TypeInv /\ Owned
  BY DEF ObjectInv, ListInv, Typed
<1>2. Readers \subseteq HazardThreads /\ Writers \subseteq HazardThreads
  BY DEF HazardThreads
<1>3. ASSUME NEW r \in Readers, Read(r) PROVE Owned'
  <2>1. UNCHANGED <<shared, retired, allocated>> /\ \A w \in Writers : Still(w)
    BY <1>1, <1>3, ReaderFrame
  <2> QED
    BY <1>1, <2>1, OwnedStays DEF Still, Deciding
<1>4. ASSUME NEW w \in Writers, Walk(w) \/ Swap(w) \/ Cleanup(w) PROVE Owned'
  <2>1. \A v \in Writers : v # w => Still(v)
    BY <1>1, <1>2, <1>4, WriterFrame
  <2>2. \A v \in Writers : v # w => (Deciding(v)' <=> Deciding(v)) /\ val'[v] = val[v]
    BY <2>1 DEF Still, Deciding
  <2>3. /\ doing \in [HazardThreads -> ReaderPlaces \cup WriterPlaces] /\ val \in [HazardThreads -> Words]
        /\ w \in HazardThreads /\ WriterInv(w)
    BY <1>1, <1>2 DEF TypeInv, Typed
  <2>4. /\ Len(retired) \in Nat /\ DOMAIN retired = 1 .. Len(retired) /\ retired \in Seq(Words)
    BY <1>1, Lists DEF TypeInv
  <2>5. CASE Walk(w) \/ FoundInUse(w) \/ StartCleanup(w) \/ NextRetired(w) \/ RetiredInUse(w) \/ RetiredUnused(w)
    <3>1. UNCHANGED <<shared, retired, allocated>>
      BY <2>5 DEF Walk, LoadHead, StepOn, FoundInUse, StartCleanup, NextRetired, RetiredInUse, RetiredUnused, lists
    <3>2. (Deciding(w)' <=> Deciding(w)) /\ (Deciding(w) => val'[w] = val[w])
      <4>1. CASE NextRetired(w)
        BY <2>3, <4>1 DEF NextRetired, Return, HazardGoto, Deciding
      <4>2. CASE Walk(w) \/ FoundInUse(w) \/ StartCleanup(w) \/ RetiredInUse(w) \/ RetiredUnused(w)
        BY <2>3, <4>2 DEF Walk, LoadHead, StepOn, FoundInUse, StartCleanup, RetiredInUse, RetiredUnused,
                          HazardGoto, Deciding
      <4> QED
        BY <2>5, <4>1, <4>2
    <3> QED
      BY <1>1, <2>2, <3>1, <3>2, OwnedStays
  <2>6. CASE Exchange(w)
    <3>1. PICK a \in Addresses \ allocated : shared' = a /\ allocated' = allocated \cup {a}
      BY <2>6 DEF Exchange
    <3>2. /\ retired' = retired /\ Deciding(w)' /\ ~Deciding(w) /\ val'[w] = shared
      BY <2>3, <2>6 DEF Exchange, HazardGoto, Deciding, lists
    <3>3. RetiredOnce'
      BY <1>1, <2>2, <3>1, <3>2 DEF Owned, RetiredOnce
    <3>4. DecidedOnce'
      BY <1>1, <2>2, <3>1, <3>2 DEF Owned, DecidedOnce
    <3>5. NoneLost'
      BY <1>1, <2>2, <3>1, <3>2 DEF Owned, NoneLost
    <3> QED
      BY <3>1, <3>3, <3>4, <3>5 DEF Owned
  <2>7. CASE FreeOld(w) \/ FreeRetired(w)
    <3>1. /\ UNCHANGED <<shared, retired>> /\ allocated' = allocated \ {val[w]} /\ Deciding(w) /\ ~Deciding(w)'
      BY <2>3, <2>7 DEF FreeOld, FreeRetired, Return, HazardGoto, Deciding, lists
    <3>2. RetiredOnce'
      BY <1>1, <2>2, <3>1 DEF Owned, RetiredOnce
    <3>3. DecidedOnce' /\ shared' \in allocated'
      BY <1>1, <2>2, <3>1 DEF Owned, DecidedOnce
    <3>4. NoneLost'
      BY <1>1, <2>2, <3>1 DEF Owned, NoneLost
    <3> QED
      BY <3>2, <3>3, <3>4 DEF Owned
  <2>8. CASE Retire(w)
    <3>1. /\ UNCHANGED <<shared, allocated>> /\ Deciding(w) /\ ~Deciding(w)' /\ val[w] \in Addresses
          /\ doing[w] = "retire"
      BY <2>3, <2>8 DEF Retire, Return, HazardGoto, Deciding, WriterInv
    <3>2. \E i \in DOMAIN retired' :
            /\ retired'[i] = val[w] /\ DOMAIN retired' = DOMAIN retired \cup {i}
            /\ i \in DOMAIN retired => retired[i] = Null
            /\ \A j \in DOMAIN retired : j # i => retired'[j] = retired[j]
      <4>1. CASE AtNode(w, Null) /\ retired' = [retired EXCEPT ![at[w]] = val[w]]
        <5>1. at[w] \in DOMAIN retired /\ retired[at[w]] = Null
          BY <2>3, <2>4, <3>1, <4>1 DEF AtNode, WriterInv, Walked, Unstarted
        <5> QED
          BY <4>1, <5>1
      <4>2. CASE retired' = Append(retired, val[w])
        <5>1. /\ Len(retired') = Len(retired) + 1 /\ DOMAIN retired' = 1 .. Len(retired')
              /\ \A j \in 1 .. Len(retired) : retired'[j] = retired[j]
              /\ retired'[Len(retired) + 1] = val[w]
          BY <2>3, <2>4, <4>2
        <5>2. DOMAIN retired' = DOMAIN retired \cup {Len(retired) + 1} /\ Len(retired) + 1 \notin DOMAIN retired
          BY <2>4, <5>1
        <5> QED
          BY <2>4, <5>1, <5>2
      <4> QED
        BY <2>8, <4>1, <4>2 DEF Retire
    <3>3. PICK i \in DOMAIN retired' :
            /\ retired'[i] = val[w] /\ DOMAIN retired' = DOMAIN retired \cup {i}
            /\ i \in DOMAIN retired => retired[i] = Null
            /\ \A j \in DOMAIN retired : j # i => retired'[j] = retired[j]
      BY <3>2
    <3>4. val[w] \in allocated \ {shared} /\ val[w] # Null
      BY <1>1, <3>1, AddressAssumption DEF Owned, DecidedOnce
    <3>5. RetiredOnce'
      <4> SUFFICES ASSUME NEW j \in DOMAIN retired', retired'[j] # Null
                   PROVE  /\ retired'[j] \in allocated \ {shared}
                          /\ \A v \in Writers : Deciding(v)' => val'[v] # retired'[j]
                          /\ \A l \in DOMAIN retired' : l # j => retired'[l] # retired'[j]
        BY <3>1 DEF RetiredOnce
      <4>1. \A l \in DOMAIN retired : retired[l] # val[w]
        BY <1>1, <3>1, <3>4 DEF Owned, RetiredOnce
      <4>2. CASE j = i
        <5>1. \A v \in Writers : Deciding(v)' => val'[v] # val[w]
          BY <1>1, <2>2, <3>1 DEF Owned, DecidedOnce
        <5> QED
          BY <3>3, <3>4, <4>1, <4>2, <5>1
      <4>3. CASE j # i
        <5>1. j \in DOMAIN retired /\ retired'[j] = retired[j]
          BY <3>3, <4>3
        <5>2. /\ retired[j] \in allocated \ {shared}
              /\ \A v \in Writers : Deciding(v) => val[v] # retired[j]
              /\ \A l \in DOMAIN retired : l # j => retired[l] # retired[j]
          BY <1>1, <5>1 DEF Owned, RetiredOnce
        <5>3. \A v \in Writers : Deciding(v)' => val'[v] # retired'[j]
          BY <2>2, <3>1, <5>1, <5>2
        <5> QED
          BY <3>3, <4>1, <5>1, <5>2, <5>3
      <4> QED
        BY <4>2, <4>3
    <3>6. DecidedOnce'
      BY <1>1, <2>2, <3>1 DEF Owned, DecidedOnce
    <3>7. NoneLost'
      <4> SUFFICES ASSUME NEW a \in allocated, a # shared,
                          ~ \E j \in DOMAIN retired' : retired'[j] = a
                   PROVE  \E v \in Writers : Deciding(v)' /\ val'[v] = a
        BY <3>1 DEF NoneLost
      <4>1. a # val[w]
        BY <3>3
      <4>2. ~ \E j \in DOMAIN retired : retired[j] = a
        <5> SUFFICES ASSUME NEW j \in DOMAIN retired, retired[j] = a PROVE FALSE
          OBVIOUS
        <5>1. a # Null
          BY <1>1, AddressAssumption DEF TypeInv
        <5> QED
          BY <3>3, <5>1
      <4> QED
        BY <1>1, <2>2, <4>1, <4>2 DEF Owned, NoneLost
    <3> QED
      BY <1>1, <3>1, <3>5, <3>6, <3>7 DEF Owned
  <2>9. CASE RemoveRetired(w)
    <3>1. UNCHANGED <<shared, allocated, val>> /\ ~Deciding(w) /\ doing[w] = "removeRetired" /\ val[w] \in Addresses
      BY <2>3, <2>9 DEF RemoveRetired, Deciding, WriterInv
    <3>2. CASE UNCHANGED retired /\ HazardGoto(w, "cleanup")
      <4>1. ~Deciding(w)'
        BY <2>3, <3>2 DEF HazardGoto, Deciding
      <4> QED
        BY <1>1, <2>2, <3>1, <3>2, <4>1, OwnedStays
    <3>3. CASE AtNode(w, val[w]) /\ retired' = [retired EXCEPT ![at[w]] = Null] /\ HazardGoto(w, "freeRetired")
      <4>1. Deciding(w)'
        BY <2>3, <3>3 DEF HazardGoto, Deciding
      <4>2. at[w] \in DOMAIN retired /\ retired[at[w]] = val[w]
        BY <2>3, <2>4, <3>1, <3>3 DEF AtNode, WriterInv, Walked, Unstarted
      <4>3. /\ DOMAIN retired' = DOMAIN retired /\ retired'[at[w]] = Null
            /\ \A j \in DOMAIN retired : j # at[w] => retired'[j] = retired[j]
        BY <3>3, <4>2
      <4>4. /\ val[w] # Null /\ val[w] \in allocated \ {shared}
            /\ \A v \in Writers : Deciding(v) => val[v] # val[w]
            /\ \A j \in DOMAIN retired : j # at[w] => retired[j] # val[w]
        BY <1>1, <3>1, <4>2, AddressAssumption DEF Owned, RetiredOnce
      <4>5. RetiredOnce'
        <5> SUFFICES ASSUME NEW j \in DOMAIN retired', retired'[j] # Null
                     PROVE  /\ retired'[j] \in allocated \ {shared}
                            /\ \A v \in Writers : Deciding(v)' => val[v] # retired'[j]
                            /\ \A l \in DOMAIN retired' : l # j => retired'[l] # retired'[j]
          BY <3>1 DEF RetiredOnce
        <5>1. j \in DOMAIN retired /\ j # at[w] /\ retired'[j] = retired[j]
          BY <4>3
        <5>2. /\ retired[j] \in allocated \ {shared}
              /\ \A v \in Writers : Deciding(v) => val[v] # retired[j]
              /\ \A l \in DOMAIN retired : l # j => retired[l] # retired[j]
          BY <1>1, <5>1 DEF Owned, RetiredOnce
        <5>3. \A v \in Writers : Deciding(v)' => val[v] # retired'[j]
          BY <2>2, <4>4, <5>1, <5>2
        <5> QED
          BY <4>3, <5>1, <5>2, <5>3
      <4>6. DecidedOnce'
        BY <1>1, <2>2, <3>1, <4>4 DEF Owned, DecidedOnce
      <4>7. NoneLost'
        <5> SUFFICES ASSUME NEW a \in allocated, a # shared,
                            ~ \E v \in Writers : Deciding(v)' /\ val[v] = a
                     PROVE  \E j \in DOMAIN retired' : retired'[j] = a
          BY <3>1 DEF NoneLost
        <5>1. a # val[w] /\ ~ \E v \in Writers : Deciding(v) /\ val[v] = a
          BY <2>2, <3>1, <4>1
        <5>2. PICK j \in DOMAIN retired : retired[j] = a
          BY <1>1, <5>1 DEF Owned, NoneLost
        <5> QED
          BY <4>2, <4>3, <5>1, <5>2
      <4> QED
        BY <1>1, <3>1, <4>5, <4>6, <4>7 DEF Owned
    <3> QED
      BY <2>9, <3>2, <3>3 DEF RemoveRetired
  <2> QED
    BY <1>4, <2>5, <2>6, <2>7, <2>8, <2>9 DEF Swap, Cleanup
<1> QED
  BY <1>3, <1>4 DEF HazardNext

LEMMA ObjectInvariance == HazardSpec => []ObjectInv
<1>1. HazardInit => Owned
  <2> SUFFICES ASSUME HazardInit PROVE Owned
    OBVIOUS
  <2>1. DOMAIN retired = {} /\ allocated = {shared} /\ \A w \in Writers : doing[w] = "idle"
    BY DEF HazardInit, HazardThreads
  <2>2. RetiredOnce /\ DecidedOnce /\ NoneLost
    BY <2>1 DEF RetiredOnce, DecidedOnce, NoneLost, Deciding
  <2> QED
    BY <2>1, <2>2 DEF Owned
<1>2. ListInv /\ Owned /\ [HazardNext]_hazardVars => Owned'
  <2>1. ASSUME ListInv, Owned, UNCHANGED hazardVars PROVE Owned'
    BY <2>1, OwnedStays DEF hazardVars, lists, Deciding
  <2> QED
    BY <2>1, OwnedKept DEF ObjectInv
<1> QED
  BY <1>1, <1>2, ListInvariance, PTL DEF HazardSpec, ObjectInv

\* Each allocated object is the shared one, or one writer's to free, or in one
\* node of the retired list: it is neither freed twice nor lost, however many
\* threads swap and clean up.
THEOREM NoDoubleFreeNoLeak == HazardSpec => []EveryObjectOnce
<1>1. ObjectInv => EveryObjectOnce
  <2> SUFFICES ASSUME ObjectInv, NEW a \in Addresses
               PROVE  Places(a) = IF a \in allocated THEN 1 ELSE 0
    BY DEF EveryObjectOnce
  <2> DEFINE D == {w \in Writers : Deciding(w) /\ val[w] = a}
             R == {i \in DOMAIN retired : retired[i] = a}
  <2>1. shared \in allocated /\ RetiredOnce /\ DecidedOnce /\ NoneLost /\ a # Null
    BY AddressAssumption DEF ObjectInv, Owned
  <2>2. D = {} \/ \E w \in Writers : D = {w}
    BY <2>1 DEF DecidedOnce
  <2>3. R = {} \/ \E i \in DOMAIN retired : R = {i}
    BY <2>1 DEF RetiredOnce
  <2>4. /\ Cardinality(D) = IF D = {} THEN 0 ELSE 1
        /\ Cardinality(R) = IF R = {} THEN 0 ELSE 1
    BY <2>2, <2>3, FS_EmptySet, FS_Singleton
  <2>5. /\ D # {} => a \in allocated /\ a # shared /\ R = {}
        /\ R # {} => a \in allocated /\ a # shared /\ D = {}
    BY <2>1 DEF DecidedOnce, RetiredOnce
  <2>6. a \in allocated => a = shared \/ D # {} \/ R # {}
    BY <2>1 DEF NoneLost
  <2>7. Places(a) = (IF shared = a THEN 1 ELSE 0) + Cardinality(D) + Cardinality(R)
    BY DEF Places
  <2> HIDE DEF D, R
  <2> QED
    BY <2>1, <2>4, <2>5, <2>6, <2>7
<1> QED
  BY <1>1, ObjectInvariance, PTL

-----------------------------------------------------------------------------
(* What is being read is not freed *)

\* Without this two cleaners may free an object that is read: one removes what
\* the other has found unused, and the address is allocated, published and
\* retired again before the other looks for it in the retired list.
OneCleaner == \A v, w \in Cleaners : v = w

\* What the cleaner looks at stays in the retired list.
Retired(a) == \E i \in DOMAIN retired : retired[i] = a
Pinned == \A w \in Writers : doing[w] \in {"cleanupScan", "removeRetired"} => Retired(val[w])

\* Nodes with a writer's address that its scan has passed are of readers that
\* published too late and will take it back.
Scanned ==
  \A w \in Writers : doing[w] \in {"scan", "cleanupScan"} /\ at[w] # Unstarted =>
    \A i \in DOMAIN pointers : i > at[w] /\ pointers[i] = val[w] => Held(i, val[w])

\* Nobody reads what the cleaner has found unused.
Unread(a) == \A r \in Readers : doing[r] = "reading" => val[r] # a
Checked == \A w \in Writers : doing[w] \in {"removeRetired", "freeRetired"} => Unread(val[w])

SafeInv == ObjectInv /\ Pinned /\ Scanned /\ Checked /\ ProtectedIsAllocated

LEMMA NotShared ==
  ASSUME SafeInv, NEW w \in Writers, doing[w] \in {"scan", "cleanupScan", "removeRetired", "freeRetired"}
  PROVE  val[w] # shared /\ val[w] \in Addresses /\ val[w] # Null
<1>1. val[w] \in Addresses /\ val[w] # Null
  BY AddressAssumption DEF SafeInv, ObjectInv, ListInv, Typed, WriterInv
<1>2. CASE Deciding(w)
  BY <1>1, <1>2 DEF SafeInv, ObjectInv, Owned, DecidedOnce
<1>3. CASE ~Deciding(w)
  <2>1. Retired(val[w])
    BY <1>3 DEF Deciding, SafeInv, Pinned
  <2> QED
    BY <1>1, <2>1 DEF Retired, SafeInv, ObjectInv, Owned, RetiredOnce
<1> QED
  BY <1>2, <1>3

\* A scan that got to the end of the list says that nobody reads the object:
\* all the nodes with its address are of readers that will take it back, and
\* there are as many nodes as readers that have published it.
LEMMA ScanIsRight ==
  ASSUME SafeInv, NEW w \in Writers, doing[w] \in {"scan", "cleanupScan"}, AtEnd(w)
  PROVE  Unread(val[w])
<1> DEFINE a == val[w]
<1>1. ListInv /\ Typed /\ a \in Addresses
  BY NotShared DEF SafeInv, ObjectInv, ListInv
<1>2. Free(a, Len(pointers)) = {}
  <2> SUFFICES ASSUME NEW i \in DOMAIN pointers, pointers[i] = a PROVE Held(i, a)
    BY DEF Free
  <2>1. i > at[w] /\ at[w] # Unstarted
    BY <1>1, Lists DEF AtEnd, Unstarted
  <2> QED
    BY <2>1 DEF SafeInv, Scanned
<1>3. Cardinality(PublishersOf(a) \ Undecided(a)) <= 0
  BY <1>1, <1>2, EnoughFree, FS_EmptySet
<1>4. IsFiniteSet(PublishersOf(a) \ Undecided(a))
  BY <1>1, FiniteSets, FS_Difference
<1>5. PublishersOf(a) \ Undecided(a) = {}
  BY <1>3, <1>4, FS_CardinalityType, FS_EmptySet
<1> QED
  BY <1>5 DEF PublishersOf, Undecided, Publishing, Unread

LEMMA SafeReaderStep ==
  ASSUME SafeInv, NEW r \in Readers, Read(r)
  PROVE  Pinned' /\ Scanned' /\ Checked' /\ ProtectedIsAllocated'
<1>1. ListInv /\ Typed /\ Readers \subseteq HazardThreads /\ shared \in allocated
  BY DEF SafeInv, ObjectInv, Owned, ListInv, HazardThreads
<1>2. /\ UNCHANGED <<shared, retired, allocated>>
      /\ \A q \in Readers : q # r => Still(q) /\ slot'[q] = slot[q]
      /\ \A w \in Writers : Still(w)
  BY <1>1, ReaderFrame
<1>3. Pinned'
  BY <1>2 DEF SafeInv, Pinned, Retired, Still
<1>4. doing'[r] = "reading" => val'[r] = shared
  BY <1>1, ReaderActs DEF Inserts, Removes, StartsWalk, PassesNode, GoesOn
<1>5. Checked'
  <2> SUFFICES ASSUME NEW w \in Writers, doing'[w] \in {"removeRetired", "freeRetired"},
                      NEW q \in Readers, doing'[q] = "reading"
               PROVE  val'[q] # val'[w]
    BY DEF Checked, Unread
  <2>1. doing[w] \in {"removeRetired", "freeRetired"} /\ val'[w] = val[w]
    BY <1>2 DEF Still
  <2>2. CASE q = r
    BY <1>4, <2>1, <2>2, NotShared
  <2>3. CASE q # r
    BY <1>2, <2>1, <2>3 DEF SafeInv, Checked, Unread, Still
  <2> QED
    BY <2>2, <2>3
<1>6. ProtectedIsAllocated'
  BY <1>1, <1>2, <1>4 DEF SafeInv, ProtectedIsAllocated, Still
<1>7. Scanned'
  <2> SUFFICES ASSUME NEW w \in Writers, doing'[w] \in {"scan", "cleanupScan"}, at'[w] # Unstarted,
                      NEW i \in DOMAIN pointers', i > at'[w], pointers'[i] = val'[w]
               PROVE  Held(i, val[w])'
    BY <1>2 DEF Scanned, Held, Still
  <2>1. /\ doing[w] \in {"scan", "cleanupScan"} /\ at[w] # Unstarted /\ i > at[w] /\ val'[w] = val[w]
        /\ pointers'[i] = val[w]
    BY <1>2 DEF Still
  <2>2. val[w] # shared /\ val[w] # Null
    BY <2>1, NotShared
  <2>3. ASSUME NEW q \in Readers, q # r, doing[q] \in {"validate", "undo"}, slot[q] = i, val[q] = val[w]
        PROVE  Held(i, val[w])'
    BY <1>2, <2>1, <2>3 DEF Held, Still
  <2>4. ASSUME i \in DOMAIN pointers, pointers[i] = val[w]
        PROVE  \E q \in Readers : doing[q] \in {"validate", "undo"} /\ slot[q] = i /\ val[q] = val[w]
    BY <2>1, <2>4 DEF SafeInv, Scanned, Held
  <2>5. CASE Inserts(r)
    <3>1. CASE i = slot'[r]
      BY <2>1, <2>5, <3>1 DEF Inserts, Held
    <3>2. CASE i # slot'[r]
      <4>1. i \in DOMAIN pointers /\ pointers[i] = val[w] /\ doing[r] = "insert"
        BY <2>1, <2>5, <3>2 DEF Inserts
      <4> QED
        BY <2>3, <2>4, <4>1
    <3> QED
      BY <3>1, <3>2
  <2>6. ASSUME NEW j \in DOMAIN pointers, Removes(r, j) PROVE Held(i, val[w])'
    <3>1. i # j /\ i \in DOMAIN pointers /\ pointers[i] = val[w]
      BY <2>1, <2>2, <2>6 DEF Removes
    <3>2. ~(doing[r] \in {"validate", "undo"} /\ slot[r] = i)
      BY <2>6, <3>1 DEF Removes
    <3> QED
      BY <2>3, <2>4, <3>1, <3>2
  <2>7. CASE UNCHANGED pointers /\ (StartsWalk(r) \/ PassesNode(r) \/ GoesOn(r))
    <3>1. i \in DOMAIN pointers /\ pointers[i] = val[w]
      BY <2>1, <2>7
    <3>2. PICK q \in Readers : doing[q] \in {"validate", "undo"} /\ slot[q] = i /\ val[q] = val[w]
      BY <2>4, <3>1
    <3>3. CASE q # r
      BY <2>3, <3>2, <3>3
    <3>4. CASE q = r
      <4>1. doing'[r] = "undo" /\ val'[r] = val[r] /\ slot'[r] = slot[r]
        BY <2>2, <2>7, <3>1, <3>2, <3>4 DEF StartsWalk, PassesNode, GoesOn
      <4> QED
        BY <2>1, <3>2, <3>4, <4>1 DEF Held
    <3> QED
      BY <3>3, <3>4
  <2> QED
    BY <1>1, <2>5, <2>6, <2>7, ReaderActs
<1> QED
  BY <1>3, <1>5, <1>6, <1>7

\* Nothing leaves the retired list but what a cleaner removes.
LEMMA StaysRetired ==
  ASSUME Typed, NEW w \in Writers, Walk(w) \/ Swap(w) \/ Cleanup(w), ~RemoveRetired(w),
         NEW a \in Addresses, Retired(a)
  PROVE  Retired(a)'
<1>1. PICK i \in DOMAIN retired : retired[i] = a
  BY DEF Retired
<1>2. a # Null /\ DOMAIN retired = 1 .. Len(retired) /\ retired \in Seq(Words) /\ Len(retired) \in Nat
  BY AddressAssumption, Lists DEF Typed, TypeInv
<1>3. CASE UNCHANGED retired
  BY <1>1, <1>3 DEF Retired
<1>4. CASE Retire(w)
  <2>1. CASE AtNode(w, Null) /\ retired' = [retired EXCEPT ![at[w]] = val[w]]
    <3>1. at[w] # i
      BY <1>1, <1>2, <1>4, <2>1 DEF Retire, AtNode, Walked
    <3> QED
      BY <1>1, <2>1, <3>1 DEF Retired
  <2>2. CASE retired' = Append(retired, val[w])
    <3>1. val[w] \in Words
      BY ThreadsAssumption DEF Typed, TypeInv, HazardThreads
    <3>2. i \in DOMAIN retired' /\ retired'[i] = retired[i]
      BY <1>1, <1>2, <2>2, <3>1
    <3> QED
      BY <1>1, <3>2 DEF Retired
  <2> QED
    BY <1>4, <2>1, <2>2 DEF Retire
<1> QED
  BY <1>3, <1>4 DEF Walk, LoadHead, StepOn, Swap, Exchange, FoundInUse, FreeOld, Cleanup, StartCleanup, NextRetired,
                    RetiredInUse, RetiredUnused, FreeRetired, lists

LEMMA SafeWriterStep ==
  ASSUME OneCleaner, SafeInv, NEW w \in Writers, Walk(w) \/ Swap(w) \/ Cleanup(w)
  PROVE  Pinned' /\ Scanned' /\ Checked' /\ ProtectedIsAllocated'
<1>1. Typed /\ TypeInv /\ WriterInv(w) /\ w \in HazardThreads /\ Writers \subseteq HazardThreads
  BY DEF SafeInv, ObjectInv, ListInv, Typed, HazardThreads
<1>2. /\ UNCHANGED pointers
      /\ \A v \in Writers : v # w => Still(v)
      /\ \A r \in Readers : Still(r) /\ slot'[r] = slot[r]
  BY <1>1, WriterFrame
<1>3. \A i, a : Held(i, a)' <=> Held(i, a)
  BY <1>2 DEF Held, Still
<1>4. \A a : Unread(a)' <=> Unread(a)
  BY <1>2 DEF Unread, Still
<1>5. /\ doing \in [HazardThreads -> ReaderPlaces \cup WriterPlaces] /\ val \in [HazardThreads -> Words]
      /\ at \in [HazardThreads -> Int] /\ DOMAIN pointers = 1 .. Len(pointers) /\ Len(pointers) \in Nat
      /\ DOMAIN retired = 1 .. Len(retired)
  BY <1>1, Lists DEF TypeInv
<1>6. Pinned'
  <2> SUFFICES ASSUME NEW v \in Writers, doing'[v] \in {"cleanupScan", "removeRetired"}
               PROVE  \E i \in DOMAIN retired' : retired'[i] = val'[v]
    BY DEF Pinned, Retired
  <2>1. CASE v # w
    <3>1. doing[v] \in {"cleanupScan", "removeRetired"} /\ val'[v] = val[v]
      BY <1>2, <2>1 DEF Still
    <3>2. val[v] \in Addresses /\ Retired(val[v]) /\ v \in Cleaners
      BY <3>1, NotShared DEF SafeInv, Pinned, ObjectInv, ListInv, Typed, WriterInv
    <3>3. ~RemoveRetired(w)
      BY <1>1, <2>1, <3>2 DEF OneCleaner, RemoveRetired, WriterInv
    <3>4. PICK a \in Addresses : a = val[v]
      BY <3>2
    <3>5. Retired(a)'
      BY <1>1, <3>2, <3>3, <3>4, StaysRetired
    <3> QED
      BY <3>1, <3>4, <3>5 DEF Retired
  <2>2. CASE v = w
    <3>1. CASE NextRetired(w)
      <4>1. entry[w] # 0 /\ val'[w] = retired[entry[w]] /\ retired' = retired
        BY <1>1, <1>5, <2>2, <3>1 DEF NextRetired, Return, HazardGoto, lists
      <4>2. entry[w] \in DOMAIN retired
        BY <1>1, <1>5, <4>1 DEF WriterInv
      <4> QED
        BY <2>2, <4>1, <4>2 DEF Retired
    <3>2. CASE Walk(w) \/ RetiredInUse(w) \/ RetiredUnused(w)
      <4>1. doing[w] \in {"cleanupScan", "removeRetired"} /\ val'[w] = val[w] /\ retired' = retired
        BY <1>1, <1>5, <2>2, <3>2 DEF Walk, LoadHead, StepOn, RetiredInUse, RetiredUnused, HazardGoto, lists
      <4> QED
        BY <2>2, <4>1 DEF SafeInv, Pinned, Retired
    <3>3. ~(Swap(w) \/ StartCleanup(w) \/ RemoveRetired(w) \/ FreeRetired(w))
      BY <1>1, <1>5, <2>2 DEF Swap, Exchange, FoundInUse, FreeOld, Retire, StartCleanup, RemoveRetired, FreeRetired,
                        Return, HazardGoto
    <3> QED
      BY <3>1, <3>2, <3>3 DEF Cleanup
  <2> QED
    BY <2>1, <2>2
<1>7. Scanned'
  <2> SUFFICES ASSUME NEW v \in Writers, doing'[v] \in {"scan", "cleanupScan"}, at'[v] # Unstarted,
                      NEW i \in DOMAIN pointers', i > at'[v], pointers'[i] = val'[v]
               PROVE  Held(i, val'[v])
    BY <1>3 DEF Scanned
  <2>1. i \in DOMAIN pointers /\ pointers[i] = val'[v]
    BY <1>2
  <2>2. CASE v # w
    BY <1>2, <2>1, <2>2 DEF SafeInv, Scanned, Still
  <2>3. CASE v = w
    <3>1. Walk(w)
      BY <1>1, <1>5, <2>3 DEF Swap, Exchange, FoundInUse, FreeOld, Retire, Cleanup, StartCleanup, NextRetired,
          RetiredInUse, RetiredUnused, RemoveRetired, FreeRetired, Return, HazardGoto
    <3>2. doing[w] \in {"scan", "cleanupScan"} /\ val'[w] = val[w] /\ Walked(w) = pointers
      BY <2>3, <3>1 DEF Walk, LoadHead, StepOn, Walked
    <3>3. CASE LoadHead(w)
      <4>1. at'[w] = Len(pointers)
        BY <1>1, <1>5, <3>2, <3>3 DEF LoadHead
      <4> QED
        BY <1>5, <2>1, <2>3, <4>1
    <3>4. CASE StepOn(w)
      <4>1. at[w] > 0 /\ at'[w] = at[w] - 1 /\ at[w] \in Int /\ pointers[at[w]] # val[w]
        BY <1>1, <1>5, <3>2, <3>4 DEF StepOn
      <4>2. i > at[w]
        BY <1>5, <2>1, <2>3, <3>2, <4>1
      <4> QED
        BY <2>1, <2>3, <3>2, <4>1, <4>2 DEF SafeInv, Scanned, Unstarted
    <3> QED
      BY <3>1, <3>3, <3>4 DEF Walk
  <2> QED
    BY <2>2, <2>3
<1>8. Checked'
  <2> SUFFICES ASSUME NEW v \in Writers, doing'[v] \in {"removeRetired", "freeRetired"}
               PROVE  Unread(val'[v])
    BY <1>4 DEF Checked, Unread
  <2>1. CASE v # w
    BY <1>2, <2>1 DEF SafeInv, Checked, Still
  <2>2. CASE v = w
    <3>1. CASE RetiredUnused(w)
      BY <2>2, <3>1, ScanIsRight DEF RetiredUnused
    <3>2. CASE Walk(w) \/ RemoveRetired(w)
      <4>1. doing[w] \in {"removeRetired", "freeRetired"} /\ val'[w] = val[w]
        BY <1>1, <1>5, <2>2, <3>2 DEF Walk, LoadHead, StepOn, RemoveRetired, HazardGoto
      <4> QED
        BY <2>2, <4>1 DEF SafeInv, Checked
    <3>3. ~(Swap(w) \/ StartCleanup(w) \/ NextRetired(w) \/ RetiredInUse(w) \/ FreeRetired(w))
      BY <1>1, <1>5, <2>2 DEF Swap, Exchange, FoundInUse, FreeOld, Retire, StartCleanup, NextRetired, RetiredInUse,
                        FreeRetired, Return, HazardGoto
    <3> QED
      BY <3>1, <3>2, <3>3 DEF Cleanup
  <2> QED
    BY <2>1, <2>2
<1>9. ProtectedIsAllocated'
  <2> SUFFICES ASSUME NEW r \in Readers, doing[r] = "reading"
               PROVE  val[r] \in allocated'
    BY <1>2 DEF ProtectedIsAllocated, Still
  <2>1. val[r] \in allocated
    BY DEF SafeInv, ProtectedIsAllocated
  <2>2. CASE allocated \subseteq allocated'
    BY <2>1, <2>2
  <2>3. CASE FreeOld(w)
    <3>1. Unread(val[w]) /\ allocated' = allocated \ {val[w]}
      BY <2>3, ScanIsRight DEF FreeOld
    <3> QED
      BY <2>1, <3>1 DEF Unread
  <2>4. CASE FreeRetired(w)
    <3>1. Unread(val[w]) /\ allocated' = allocated \ {val[w]}
      BY <2>4 DEF FreeRetired, SafeInv, Checked
    <3> QED
      BY <2>1, <3>1 DEF Unread
  <2>5. CASE Exchange(w)
    BY <2>1, <2>5 DEF Exchange
  <2>6. FreeOld(w) \/ FreeRetired(w) \/ Exchange(w) \/ allocated' = allocated
    BY DEF Walk, LoadHead, StepOn, Swap, FoundInUse, Retire, Cleanup, StartCleanup, NextRetired, RetiredInUse,
           RetiredUnused, RemoveRetired
  <2> QED
    BY <2>2, <2>3, <2>4, <2>5, <2>6
<1> QED
  BY <1>6, <1>7, <1>8, <1>9

\* What load has returned stays allocated until drop, although other readers
\* may empty its node and fill it again, and addresses are used again: for any
\* number of threads that swap, as long as one of them cleans up.
THEOREM WhatIsReadIsNotFreed == ASSUME OneCleaner PROVE HazardSpec => []ProtectedIsAllocated
<1>1. HazardInit /\ ObjectInv => SafeInv
  <2> SUFFICES ASSUME HazardInit, ObjectInv PROVE SafeInv
    OBVIOUS
  <2>1. \A t \in HazardThreads : doing[t] = "idle"
    BY DEF HazardInit
  <2> QED
    BY <2>1 DEF HazardThreads, SafeInv, Pinned, Scanned, Checked, ProtectedIsAllocated
<1>2. SafeInv /\ [HazardNext]_hazardVars /\ ObjectInv' => SafeInv'
  <2> SUFFICES ASSUME SafeInv, [HazardNext]_hazardVars, ObjectInv' PROVE SafeInv'
    OBVIOUS
  <2>1. CASE HazardNext
    BY <2>1, SafeReaderStep, SafeWriterStep DEF HazardNext, SafeInv
  <2>2. CASE UNCHANGED hazardVars
    <3>1. UNCHANGED <<pointers, retired, allocated, doing, at, val, slot>>
      BY <2>2 DEF hazardVars, lists
    <3>2. \A i, a : Held(i, a)' <=> Held(i, a)
      BY <3>1 DEF Held
    <3> QED
      BY <3>1, <3>2 DEF SafeInv, Pinned, Retired, Scanned, Checked, Unread, ProtectedIsAllocated
  <2> QED
    BY <2>1, <2>2
<1>3. SafeInv => ProtectedIsAllocated
  BY DEF SafeInv
<1> QED
  BY <1>1, <1>2, <1>3, ObjectInvariance, PTL DEF HazardSpec
=============================================================================
