---------------------------- MODULE ParallelSort ----------------------------
(***************************************************************************)
(* The thread pool of linux-2023-summer/quiz1/problem3.c.  What a thread   *)
(* does to the elements of its part of the array is one step: it either    *)
(* puts all of them in order, or those in the middle, which leaves a left  *)
(* and a right part.  The rest, who gets which part and when the threads   *)
(* end, is modelled access by access.                                      *)
(***************************************************************************)
EXTENDS Integers, Sequences, FiniteSets

CONSTANTS MaxThreads,  \* size of the pool
          Elements,    \* length of the array
          ForkElem,    \* both parts must be longer than this for a new thread
          Insertion,   \* a shorter part is sorted by insertion (7)
          Main, Nobody

\* The program also accepts -h 0 (line 445).  Line 165 then stores the first part behind a
\* pool without entries; that memory is not in the model, so there is at least one thread.
ParametersOK ==
  /\ MaxThreads \in Nat \ {0} /\ Elements \in Nat \ {0}
  /\ ForkElem \in Nat /\ Insertion \in Nat \ {0}

Pool == 1 .. MaxThreads
All == 1 .. Elements
Piece(a, n) == [a |-> a, n |-> n]

VARIABLES pc, bailout, islot,   \* islot: how many threads were created
          st, a, n,             \* the fields of a pool thread
          idlethreads,
          mtx_al, mtx_st,       \* the owners of the mutexes
          asleep,               \* the pool threads in pthread_cond_wait
          part, left,           \* the part a thread works on; what is left of it
          calls,                \* the right parts of the callers of qsort_algo
          qs2,                  \* the other thread that a thread deals with
          ordered,              \* the positions whose elements are in order
          early                 \* some thread began before its part was there

vars == <<pc, bailout, islot, st, a, n, idlethreads, mtx_al, mtx_st, asleep,
          part, left, calls, qs2, ordered, early>>

locals == <<part, left, calls, qs2>>

Init ==
  /\ pc = [t \in Pool \cup {Main} |-> IF t = Main THEN "create" ELSE "none"]
  /\ bailout = TRUE
  /\ islot = 0
  /\ st = [t \in Pool |-> "idle"]
  /\ a = [t \in Pool |-> 0]
  /\ n = [t \in Pool |-> 0]
  /\ idlethreads = MaxThreads
  /\ mtx_al = Nobody
  /\ mtx_st = [t \in Pool |-> Nobody]
  /\ asleep = {}
  /\ part = [t \in Pool |-> Piece(0, 0)]
  /\ left = [t \in Pool |-> Piece(0, 0)]
  /\ calls = [t \in Pool |-> <<>>]
  /\ qs2 = [t \in Pool |-> t]
  /\ ordered = {}
  /\ early = FALSE

Goto(t, place) == pc' = [pc EXCEPT ![t] = place]

-----------------------------------------------------------------------------
(* qsort_mt *)

CreateThread ==
  /\ pc[Main] = "create" /\ islot < MaxThreads
  /\ islot' = islot + 1
  /\ pc' = [pc EXCEPT ![islot + 1] = "idle"]
  /\ UNCHANGED <<bailout, st, a, n, idlethreads, mtx_al, mtx_st, asleep, locals, ordered, early>>

\* A mutex, a condition variable or a thread could not be created.
CreationFails ==
  /\ pc[Main] = "create" /\ islot < MaxThreads
  /\ Goto(Main, "join")
  /\ UNCHANGED <<bailout, islot, st, a, n, idlethreads, mtx_al, mtx_st, asleep, locals, ordered, early>>

\* The first thread gets the whole array.
HandOutFirst ==
  /\ pc[Main] = "create" /\ islot = MaxThreads
  /\ mtx_st[1] = Nobody
  /\ bailout' = FALSE
  /\ a' = [a EXCEPT ![1] = 1]
  /\ n' = [n EXCEPT ![1] = Elements]
  /\ st' = [st EXCEPT ![1] = "work"]
  /\ idlethreads' = MaxThreads - 1
  /\ asleep' = asleep \ {1}
  /\ Goto(Main, "join")
  /\ UNCHANGED <<islot, mtx_al, mtx_st, locals, ordered, early>>

\* The threads that exist are told to end, one by one, if not all of them do.
BailOut(t) ==
  /\ pc[Main] = "join" /\ bailout
  /\ t <= islot /\ st[t] = "idle"
  /\ \A u \in 1 .. t - 1 : pc[u] = "end"
  /\ mtx_st[t] = Nobody
  /\ st' = [st EXCEPT ![t] = "term"]
  /\ asleep' = asleep \ {t}
  /\ UNCHANGED <<pc, bailout, islot, a, n, idlethreads, mtx_al, mtx_st, locals, ordered, early>>

\* All threads are joined; without them the library sorts.
JoinAll ==
  /\ pc[Main] = "join"
  /\ \A t \in 1 .. islot : pc[t] = "end"
  /\ ordered' = IF bailout THEN All ELSE ordered
  /\ Goto(Main, "done")
  /\ UNCHANGED <<bailout, islot, st, a, n, idlethreads, mtx_al, mtx_st, asleep, locals, early>>

-----------------------------------------------------------------------------
(* qsort_thread and qsort_algo *)

WaitForWork(t) ==
  /\ pc[t] = "idle" /\ t \notin asleep /\ mtx_st[t] = Nobody
  /\ \/ st[t] = "idle" /\ asleep' = asleep \cup {t} /\ UNCHANGED pc
     \/ st[t] # "idle" /\ Goto(t, "awake") /\ UNCHANGED asleep
  /\ UNCHANGED <<bailout, islot, st, a, n, idlethreads, mtx_al, mtx_st, locals, ordered, early>>

SpuriousWakeup(t) ==
  /\ asleep' = asleep \ {t}
  /\ UNCHANGED <<pc, bailout, islot, st, a, n, idlethreads, mtx_al, mtx_st, locals, ordered, early>>

\* The threads that have allocated t and not yet stored its part.
Givers(t) == {u \in Pool : pc[u] \in {"lock_qs2", "give_a", "give_n"} /\ qs2[u] = t}

Begin(t) ==
  /\ pc[t] = "awake"
  /\ Goto(t, IF st[t] = "term" THEN "end" ELSE "load_a")
  /\ early' = (early \/ Givers(t) # {})
  /\ UNCHANGED <<bailout, islot, st, a, n, idlethreads, mtx_al, mtx_st, asleep, locals, ordered>>

LoadBase(t) ==
  /\ pc[t] = "load_a"
  /\ part' = [part EXCEPT ![t].a = a[t]]
  /\ Goto(t, "load_n")
  /\ UNCHANGED <<bailout, islot, st, a, n, idlethreads, mtx_al, mtx_st, asleep, left, calls, qs2, ordered, early>>

LoadLength(t) ==
  /\ pc[t] = "load_n"
  /\ part' = [part EXCEPT ![t].n = n[t]]
  /\ Goto(t, "sort")
  /\ UNCHANGED <<bailout, islot, st, a, n, idlethreads, mtx_al, mtx_st, asleep, left, calls, qs2, ordered, early>>

Span(p) == p.a .. p.a + p.n - 1

\* The next part t has to sort is the first of stack, if any.
Resume(t, stack) ==
  IF stack = <<>>
  THEN /\ Goto(t, "finish")
       /\ calls' = [calls EXCEPT ![t] = <<>>]
       /\ part' = [part EXCEPT ![t] = Piece(0, 0)]
  ELSE /\ Goto(t, "sort")
       /\ calls' = [calls EXCEPT ![t] = Tail(stack)]
       /\ part' = [part EXCEPT ![t] = Head(stack)]

\* A short part, or one that partitioning has found nearly ordered.
SortByInsertion(t) ==
  /\ pc[t] = "sort"
  /\ ordered' = ordered \cup Span(part[t])
  /\ Resume(t, calls[t])
  /\ UNCHANGED <<bailout, islot, st, a, n, idlethreads, mtx_al, mtx_st, asleep, left, qs2, early>>

\* The right part begins one element late.
RightPartMutant(p, nr) == Piece(p.a + p.n - nr + 1, nr - 1)

RightPart(p, nr) == Piece(p.a + p.n - nr, nr)

\* nl smaller elements, some that equal the pivot, and nr greater ones.
Partition(t, nl, nr) ==
  LET p == part[t]
      stack == IF nr > 0 THEN <<RightPart(p, nr)>> \o calls[t] ELSE calls[t]
  IN /\ pc[t] = "sort" /\ p.n >= Insertion /\ nl + nr < p.n
     /\ ordered' = ordered \cup (p.a + nl .. p.a + p.n - nr - 1)
     /\ left' = [left EXCEPT ![t] = Piece(p.a, nl)]
     /\ IF nl > 0
        THEN /\ Goto(t, IF nl > ForkElem /\ nr > ForkElem THEN "allocate" ELSE "call")
             /\ calls' = [calls EXCEPT ![t] = stack]
             /\ part' = [part EXCEPT ![t] = Piece(0, 0)]
        ELSE Resume(t, stack)
     /\ UNCHANGED <<bailout, islot, st, a, n, idlethreads, mtx_al, mtx_st, asleep, qs2, early>>

\* qsort_algo calls itself for the left part.
CallSelf(t) ==
  /\ pc[t] = "call"
  /\ a' = [a EXCEPT ![t] = left[t].a]
  /\ n' = [n EXCEPT ![t] = left[t].n]
  /\ left' = [left EXCEPT ![t] = Piece(0, 0)]
  /\ Goto(t, "load_a")
  /\ UNCHANGED <<bailout, islot, st, idlethreads, mtx_al, mtx_st, asleep, part, calls, qs2, ordered, early>>

Idle == {u \in Pool : st[u] = "idle"}

\* allocate_thread: the first idle thread gets work before its mutex is locked.
AllocateThread(t) ==
  /\ pc[t] = "allocate" /\ mtx_al = Nobody
  /\ \/ /\ Idle = {}
        /\ Goto(t, "call")
        /\ UNCHANGED <<st, idlethreads, mtx_al, qs2>>
     \/ \E u \in Idle :
          /\ \A v \in Idle : u <= v
          /\ idlethreads' = idlethreads - 1
          /\ st' = [st EXCEPT ![u] = "work"]
          /\ mtx_al' = t
          /\ qs2' = [qs2 EXCEPT ![t] = u]
          /\ Goto(t, "lock_qs2")
  /\ UNCHANGED <<bailout, islot, a, n, mtx_st, asleep, part, left, calls, ordered, early>>

LockAllocated(t) ==
  /\ pc[t] = "lock_qs2" /\ mtx_st[qs2[t]] = Nobody
  /\ mtx_st' = [mtx_st EXCEPT ![qs2[t]] = t]
  /\ mtx_al' = Nobody
  /\ Goto(t, "give_a")
  /\ UNCHANGED <<bailout, islot, st, a, n, idlethreads, asleep, locals, ordered, early>>

GiveBase(t) ==
  /\ pc[t] = "give_a"
  /\ a' = [a EXCEPT ![qs2[t]] = left[t].a]
  /\ Goto(t, "give_n")
  /\ UNCHANGED <<bailout, islot, st, n, idlethreads, mtx_al, mtx_st, asleep, locals, ordered, early>>

\* The length, the signal and the unlock; t goes on with the right part.
GiveLength(t) ==
  /\ pc[t] = "give_n"
  /\ n' = [n EXCEPT ![qs2[t]] = left[t].n]
  /\ asleep' = asleep \ {qs2[t]}
  /\ mtx_st' = [mtx_st EXCEPT ![qs2[t]] = Nobody]
  /\ left' = [left EXCEPT ![t] = Piece(0, 0)]
  /\ qs2' = [qs2 EXCEPT ![t] = t]
  /\ Resume(t, calls[t])
  /\ UNCHANGED <<bailout, islot, st, a, idlethreads, mtx_al, ordered, early>>

\* Nothing is left to t; the last one to get here ends the others.
Finish(t) ==
  /\ pc[t] = "finish" /\ mtx_al = Nobody
  /\ st' = [st EXCEPT ![t] = "idle"]
  /\ idlethreads' = idlethreads + 1
  /\ IF idlethreads' = MaxThreads
     THEN Goto(t, "terminate") /\ mtx_al' = t
     ELSE Goto(t, "idle") /\ UNCHANGED mtx_al
  /\ UNCHANGED <<bailout, islot, a, n, mtx_st, asleep, locals, ordered, early>>

TerminateOther(t) ==
  /\ pc[t] = "terminate"
  /\ \E u \in Idle \ {t} :
       /\ \A v \in Idle \ {t} : u <= v
       /\ mtx_st[u] = Nobody
       /\ st' = [st EXCEPT ![u] = "term"]
       /\ asleep' = asleep \ {u}
  /\ UNCHANGED <<pc, bailout, islot, a, n, idlethreads, mtx_al, mtx_st, locals, ordered, early>>

End(t) ==
  /\ pc[t] = "terminate" /\ Idle = {t}
  /\ mtx_al' = Nobody
  /\ Goto(t, "end")
  /\ UNCHANGED <<bailout, islot, st, a, n, idlethreads, mtx_st, asleep, locals, ordered, early>>

MainStep == CreateThread \/ CreationFails \/ HandOutFirst \/ JoinAll \/ \E t \in Pool : BailOut(t)

Algorithm(t) == SortByInsertion(t) \/ \E nl, nr \in 0 .. Elements : Partition(t, nl, nr)

Thread(t) ==
  \/ WaitForWork(t) \/ Begin(t) \/ LoadBase(t) \/ LoadLength(t) \/ Algorithm(t)
  \/ CallSelf(t) \/ AllocateThread(t) \/ LockAllocated(t) \/ GiveBase(t) \/ GiveLength(t)
  \/ Finish(t) \/ TerminateOther(t) \/ End(t)

Next == MainStep \/ \E t \in Pool : Thread(t) \/ (t \in asleep /\ SpuriousWakeup(t))

Spec == Init /\ [][Next]_vars

\* Every thread goes on if it can; a thread that sleeps need not wake by itself.
FairSpec == Spec /\ WF_vars(MainStep) /\ \A t \in Pool : WF_vars(Thread(t))

-----------------------------------------------------------------------------
(* Properties *)

\* The parts that somebody has, or has been given, and that are not in order yet.
Parts(t) ==
  {p \in {part[t], left[t]} \cup {calls[t][i] : i \in DOMAIN calls[t]} : p.n > 0}

Given == {t \in Pool : st[t] = "work" /\ pc[t] \in {"idle", "awake", "load_a", "load_n"} /\ Givers(t) = {}}

Pending == UNION {Parts(t) : t \in Pool} \cup {Piece(a[t], n[t]) : t \in Given}

\* As long as no thread has begun before its part was there, allocate_thread,
\* the calls of qsort_algo for the right parts and the end of the threads lose
\* nothing: the elements that are not in order yet are in exactly one part
\* each, a thread is told to end only if nothing is left to do, and the array
\* is in order when qsort_mt returns.
EveryPartOnce ==
  ~early =>
    /\ pc[Main] # "create" /\ ~bailout => UNION {Span(p) : p \in Pending} = All \ ordered
    /\ \A p, q \in Pending : p # q => Span(p) \cap Span(q) = {}
    /\ (\E t \in Pool : st[t] = "term") => bailout \/ ordered = All
    /\ pc[Main] = "done" => ordered = All

\* allocate_thread is said to lock the mutex of a thread before it changes the
\* thread's state, so that the thread cannot begin before it has its part: the
\* array is in order whenever qsort_mt returns.
SortedAtReturn == pc[Main] = "done" => ordered = All

\* qsort_mt returns, also if a thread could not be created: no thread waits
\* for ever for work or for a mutex, and the last one to finish ends the others.
Returned == pc[Main] = "done"
SortReturns == <>Returned
=============================================================================
