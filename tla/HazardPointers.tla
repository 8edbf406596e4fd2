--------------------------- MODULE HazardPointers ---------------------------
(***************************************************************************)
(* The hazard pointers of linux-2022/quiz5/problem2: hp.c (the lists),     *)
(* domain.c (load, drop, swap, cleanup) and the reader and writer threads  *)
(* of problem2.c.  Readers protect the object behind a shared pointer by   *)
(* putting its address into a list; writers replace the object and free    *)
(* the old one when the list no longer contains its address.               *)
(*                                                                         *)
(* A list only grows, at its head, and its nodes are emptied and reused;   *)
(* it is a sequence here whose last element is the head, and a walk goes   *)
(* from the last index down.  Each atomic access is a step, except that a  *)
(* load of node->ptr and the compare-and-swap that follows if it matched   *)
(* are one: when the compare-and-swap fails the walk goes on, as it does   *)
(* when the load did not match.  list_append is its successful             *)
(* compare-and-swap on the head.  Names that other programs have, too,     *)
(* begin with Hazard: ProgramsMC extends them all.                         *)
(***************************************************************************)
EXTENDS Integers, Sequences, FiniteSets

CONSTANTS Readers, Writers,
          Swappers, Cleaners,    \* the writers that call swap, cleanup, or both
          Addresses,      \* what calloc may return
          First,          \* the address of the first configuration
          Null,
          Flags,          \* of swap and cleanup: "wait" (0) and "defer" (DEFER_DEALLOC)
          ReadsEach,      \* iterations of reader_thread
          SwapsEach,      \* iterations of writer_thread per swapper
          CleanupsEach    \* calls of cleanup per cleaner

ASSUME ThreadsAssumption ==
  Readers \cap Writers = {} /\ Writers = Swappers \cup Cleaners /\ IsFiniteSet(Readers)
ASSUME FlagsAssumption == Flags \subseteq {"wait", "defer"}
ASSUME AddressAssumption == Null \notin Addresses /\ First \in Addresses

HazardThreads == Readers \cup Writers
Unstarted == -1            \* a walk that has not loaded the list's head yet

VARIABLES shared,          \* the protected pointer, shared_config
          pointers, retired,     \* dom->pointers, dom->retired
          allocated,       \* the addresses that are allocated
          doing,
          at,              \* where thread t's walk is: an index, 0 at the end
          val,             \* the address thread t is working on
          slot,            \* load: the index of the node it filled
          flag,            \* the flags of thread t's swap or cleanup
          entry,           \* cleanup: its own walk over the retired list
          reads, swaps, cleanups \* calls left

lists == <<pointers, retired>>
budget == <<reads, swaps, cleanups>>
hazardVars == <<shared, lists, allocated, doing, at, val, slot, flag, entry, budget>>

HazardInit ==
  /\ shared = First /\ allocated = {First}
  /\ pointers = << >> /\ retired = << >>
  /\ doing = [t \in HazardThreads |-> "idle"]
  /\ at = [t \in HazardThreads |-> Unstarted]
  /\ val = [t \in HazardThreads |-> Null]
  /\ slot = [r \in Readers |-> 0]
  /\ flag = [w \in Writers |-> "wait"]
  /\ entry = [w \in Writers |-> 0]
  /\ reads = [r \in Readers |-> ReadsEach]
  /\ swaps = [w \in Writers |-> IF w \in Swappers THEN SwapsEach ELSE 0]
  /\ cleanups = [w \in Writers |-> IF w \in Cleaners THEN CleanupsEach ELSE 0]

-----------------------------------------------------------------------------
(* Walks over a list; every walk starts by loading the list's head *)

HazardGoto(t, label) == doing' = [doing EXCEPT ![t] = label] /\ at' = [at EXCEPT ![t] = Unstarted]

\* The call ends (or load starts over), and its locals with it.
Return(t) == /\ HazardGoto(t, "idle")
             /\ val' = [val EXCEPT ![t] = Null]
             /\ slot' = [x \in DOMAIN slot |-> IF x = t THEN 0 ELSE slot[x]]
             /\ flag' = [x \in DOMAIN flag |-> IF x = t THEN "wait" ELSE flag[x]]

\* The list that thread t walks.
Walked(t) == IF doing[t] \in {"retire", "removeRetired"} THEN retired ELSE pointers

Walking == {"insert", "undoRemove", "drop", "scan", "retire", "cleanupScan",
            "removeRetired"}

LoadHead(t) ==
  /\ doing[t] \in Walking /\ at[t] = Unstarted
  /\ at' = [at EXCEPT ![t] = Len(Walked(t))]
  /\ UNCHANGED <<shared, lists, allocated, doing, val, slot, flag, entry, budget>>

AtNode(t, x) == at[t] > 0 /\ Walked(t)[at[t]] = x
AtEnd(t) == at[t] = 0

\* The node at hand is not the one looked for.
StepOn(t) ==
  /\ doing[t] \in Walking /\ at[t] > 0
  /\ Walked(t)[at[t]] # (IF doing[t] \in {"insert", "retire"} THEN Null ELSE val[t])
  /\ at' = [at EXCEPT ![t] = @ - 1]
  /\ UNCHANGED <<shared, lists, allocated, doing, val, slot, flag, entry, budget>>

-----------------------------------------------------------------------------
(* load and drop, called by reader_thread *)

LoadPointer(r) ==
  /\ doing[r] = "idle" /\ reads[r] > 0
  /\ val' = [val EXCEPT ![r] = shared]
  /\ HazardGoto(r, "insert")
  /\ UNCHANGED <<shared, lists, allocated, slot, flag, entry, budget>>

\* list_insert_or_append: an empty node is filled, or a new one is appended.
InsertHazard(r) ==
  /\ doing[r] = "insert"
  /\ \/ /\ AtNode(r, Null)
        /\ pointers' = [pointers EXCEPT ![at[r]] = val[r]]
        /\ slot' = [slot EXCEPT ![r] = at[r]]
     \/ /\ AtEnd(r)
        /\ pointers' = Append(pointers, val[r])
        /\ slot' = [slot EXCEPT ![r] = Len(pointers) + 1]
  /\ HazardGoto(r, "validate")
  /\ UNCHANGED <<shared, retired, allocated, val, flag, entry, budget>>

\* Mutant: the shared pointer is not loaded again.
ValidateMutant(r) ==
  /\ doing[r] = "validate"
  /\ HazardGoto(r, "reading")
  /\ UNCHANGED <<shared, lists, allocated, val, slot, flag, entry, budget>>

\* The pointer has not changed since the hazard pointer was published, or the
\* hazard pointer has to be taken back.
Validate(r) ==
  /\ doing[r] = "validate"
  /\ HazardGoto(r, IF shared = val[r] THEN "reading" ELSE "undo")
  /\ UNCHANGED <<shared, lists, allocated, val, slot, flag, entry, budget>>

\* Mutant: the node is emptied by a store, whatever it contains by now.
UndoHazardStore(r) ==
  /\ doing[r] = "undo"
  /\ pointers' = [pointers EXCEPT ![slot[r]] = Null]
  /\ Return(r)
  /\ UNCHANGED <<shared, retired, allocated, entry, budget>>

\* Another thread may have emptied our node to drop the same address; then
\* the list is searched for another one with the address.
UndoHazard(r) ==
  /\ doing[r] = "undo"
  /\ IF pointers[slot[r]] = val[r]
     THEN pointers' = [pointers EXCEPT ![slot[r]] = Null] /\ Return(r)
     ELSE UNCHANGED <<pointers, val, slot, flag>> /\ HazardGoto(r, "undoRemove")
  /\ UNCHANGED <<shared, retired, allocated, entry, budget>>

UndoRemove(r) ==
  /\ doing[r] = "undoRemove"
  /\ \/ /\ AtNode(r, val[r])
        /\ pointers' = [pointers EXCEPT ![at[r]] = Null]
     \/ AtEnd(r) /\ UNCHANGED pointers
  /\ Return(r)
  /\ UNCHANGED <<shared, retired, allocated, entry, budget>>

\* print_config, then drop.
StopReading(r) ==
  /\ doing[r] = "reading"
  /\ HazardGoto(r, "drop")
  /\ UNCHANGED <<shared, lists, allocated, val, slot, flag, entry, budget>>

\* The walk that finds nothing runs into __builtin_unreachable.
Drop(r) ==
  /\ doing[r] = "drop"
  /\ \/ /\ AtNode(r, val[r])
        /\ pointers' = [pointers EXCEPT ![at[r]] = Null]
        /\ Return(r)
     \/ AtEnd(r) /\ HazardGoto(r, "unreachable") /\ UNCHANGED <<pointers, val, slot, flag>>
  /\ reads' = [reads EXCEPT ![r] = @ - 1]
  /\ UNCHANGED <<shared, retired, allocated, entry, swaps, cleanups>>

-----------------------------------------------------------------------------
(* swap and cleanup_ptr, called by writer_thread *)

\* create_config and the atomic exchange.
Exchange(w) ==
  /\ doing[w] = "idle" /\ swaps[w] > 0
  /\ \E a \in Addresses \ allocated :
       shared' = a /\ allocated' = allocated \cup {a}
  /\ val' = [val EXCEPT ![w] = shared]
  /\ \E f \in Flags : flag' = [flag EXCEPT ![w] = f]
  /\ swaps' = [swaps EXCEPT ![w] = @ - 1]
  /\ HazardGoto(w, "scan")
  /\ UNCHANGED <<lists, slot, entry, reads, cleanups>>

\* list_contains finds the old object in use: keep it for cleanup, or spin.
FoundInUse(w) ==
  /\ doing[w] = "scan" /\ AtNode(w, val[w])
  /\ HazardGoto(w, IF flag[w] = "defer" THEN "retire" ELSE "scan")
  /\ UNCHANGED <<shared, lists, allocated, val, slot, flag, entry, budget>>

FreeOld(w) ==
  /\ doing[w] = "scan" /\ AtEnd(w)
  /\ allocated' = allocated \ {val[w]}
  /\ Return(w)
  /\ UNCHANGED <<shared, lists, entry, budget>>

Retire(w) ==
  /\ doing[w] = "retire"
  /\ \/ AtNode(w, Null) /\ retired' = [retired EXCEPT ![at[w]] = val[w]]
     \/ AtEnd(w) /\ retired' = Append(retired, val[w])
  /\ Return(w)
  /\ UNCHANGED <<shared, pointers, allocated, entry, budget>>

-----------------------------------------------------------------------------
(* cleanup *)

StartCleanup(w) ==
  /\ doing[w] = "idle" /\ cleanups[w] > 0
  /\ \E f \in Flags : flag' = [flag EXCEPT ![w] = f]
  /\ entry' = [entry EXCEPT ![w] = Len(retired)]
  /\ cleanups' = [cleanups EXCEPT ![w] = @ - 1]
  /\ HazardGoto(w, "cleanup")
  /\ UNCHANGED <<shared, lists, allocated, val, slot, reads, swaps>>

\* The next retired node: an empty one is skipped.
NextRetired(w) ==
  /\ doing[w] = "cleanup"
  /\ IF entry[w] = 0
     THEN Return(w) /\ UNCHANGED entry
     ELSE /\ entry' = [entry EXCEPT ![w] = @ - 1]
          /\ val' = [val EXCEPT ![w] = retired[entry[w]]]
          /\ HazardGoto(w, IF retired[entry[w]] = Null THEN "cleanup" ELSE "cleanupScan")
          /\ UNCHANGED <<slot, flag>>
  /\ UNCHANGED <<shared, lists, allocated, budget>>

RetiredInUse(w) ==
  /\ doing[w] = "cleanupScan" /\ AtNode(w, val[w])
  /\ HazardGoto(w, IF flag[w] = "defer" THEN "cleanup" ELSE "cleanupScan")
  /\ UNCHANGED <<shared, lists, allocated, val, slot, flag, entry, budget>>

\* Mutant: the object is freed and its node stays in the retired list.
RetiredUnusedMutant(w) ==
  /\ doing[w] = "cleanupScan" /\ AtEnd(w)
  /\ HazardGoto(w, "freeRetired")
  /\ UNCHANGED <<shared, lists, allocated, val, slot, flag, entry, budget>>

RetiredUnused(w) ==
  /\ doing[w] = "cleanupScan" /\ AtEnd(w)
  /\ HazardGoto(w, "removeRetired")
  /\ UNCHANGED <<shared, lists, allocated, val, slot, flag, entry, budget>>

\* list_remove(&dom->retired, ptr): who removes the entry frees the object.
RemoveRetired(w) ==
  /\ doing[w] = "removeRetired"
  /\ \/ /\ AtNode(w, val[w])
        /\ retired' = [retired EXCEPT ![at[w]] = Null]
        /\ HazardGoto(w, "freeRetired")
     \/ AtEnd(w) /\ UNCHANGED retired /\ HazardGoto(w, "cleanup")
  /\ UNCHANGED <<shared, pointers, allocated, val, slot, flag, entry, budget>>

FreeRetired(w) ==
  /\ doing[w] = "freeRetired"
  /\ allocated' = allocated \ {val[w]}
  /\ HazardGoto(w, "cleanup")
  /\ UNCHANGED <<shared, lists, val, slot, flag, entry, budget>>

-----------------------------------------------------------------------------
Walk(t) == LoadHead(t) \/ StepOn(t)

Read(r) == \/ Walk(r) \/ LoadPointer(r) \/ InsertHazard(r) \/ Validate(r)
           \/ UndoHazard(r) \/ UndoRemove(r) \/ StopReading(r) \/ Drop(r)

Swap(w) == Exchange(w) \/ FoundInUse(w) \/ FreeOld(w) \/ Retire(w)

Cleanup(w) == \/ StartCleanup(w) \/ NextRetired(w) \/ RetiredInUse(w)
              \/ RetiredUnused(w) \/ RemoveRetired(w) \/ FreeRetired(w)

HazardNext == \/ \E r \in Readers : Read(r)
              \/ \E w \in Writers : Walk(w) \/ Swap(w) \/ Cleanup(w)

HazardSpec == HazardInit /\ [][HazardNext]_hazardVars

HazardFairness == /\ \A r \in Readers : WF_hazardVars(Read(r))
                  /\ \A w \in Writers : WF_hazardVars(Walk(w) \/ Swap(w) \/ Cleanup(w))

HazardFairSpec == HazardSpec /\ HazardFairness

-----------------------------------------------------------------------------
(* Properties *)

HazardTypeOK ==
  /\ shared \in Addresses /\ allocated \subseteq Addresses
  /\ pointers \in Seq(Addresses \cup {Null}) /\ retired \in Seq(Addresses \cup {Null})
  /\ \A t \in HazardThreads : /\ at[t] \in {Unstarted} \cup 0 .. Len(Walked(t))
                              /\ val[t] \in Addresses \cup {Null}
  /\ \A r \in Readers : slot[r] \in 0 .. Len(pointers)
  /\ \A w \in Writers : flag[w] \in {"wait", "defer"} /\ entry[w] \in 0 .. Len(retired)

\* No use after free: what load returned stays allocated until drop, whoever
\* empties whose node in the list.
ProtectedIsAllocated ==
  \A r \in Readers : doing[r] = "reading" => val[r] \in allocated

\* No double free and no leak: an allocated object is the shared one, or in
\* the hands of exactly one writer, or in exactly one retired node, and
\* everything in those places is allocated.
Deciding(w) == doing[w] \in {"scan", "retire", "freeRetired"}

Places(a) == (IF shared = a THEN 1 ELSE 0)
           + Cardinality({w \in Writers : Deciding(w) /\ val[w] = a})
           + Cardinality({i \in DOMAIN retired : retired[i] = a})

EveryObjectOnce ==
  \A a \in Addresses : Places(a) = IF a \in allocated THEN 1 ELSE 0

\* A hazard is taken back as often as it is published: there are as many nodes
\* with an address as readers that have published it and not yet removed it,
\* and drop, which empties any one of them, always finds one: it never reaches
\* __builtin_unreachable.
Publishing(r) == doing[r] \in {"validate", "undo", "undoRemove", "reading", "drop"}

HazardsBalanced ==
  /\ HazardTypeOK
  /\ \A r \in Readers : doing[r] # "unreachable"
  /\ \A a \in Addresses :
       Cardinality({i \in DOMAIN pointers : pointers[i] = a})
         = Cardinality({r \in Readers : Publishing(r) /\ val[r] = a})

\* swap with flag 0 and load wait for each other only for a while: every
\* thread completes its calls.  (ProgramsMC checks that this comes about under fairness.)
HazardReturned ==
  \A t \in HazardThreads : /\ doing[t] = "idle"
                           /\ t \in Readers => reads[t] = 0
                           /\ t \in Writers => swaps[t] = 0 /\ cleanups[t] = 0
=============================================================================
