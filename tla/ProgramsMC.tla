----------------------------- MODULE ProgramsMC -----------------------------
(***************************************************************************)
(* Programs that are checked together: a behaviour runs one of them, or    *)
(* applies one function.  The queues and the hazard pointers are extended, *)
(* so that their properties are checked under their own names.  The        *)
(* variables of the sort and of the deferred release are None in the       *)
(* behaviours of other programs; the variables of all others keep an       *)
(* initial value then, of which the properties hold as well.               *)
(***************************************************************************)
EXTENDS NodeQueue, BlockingQueue, HazardPointers, TLC

CONSTANTS Keys, Nil, CacheKeys, MaxCapacity, Values, None,   \* STree, LruCache
          MaxThreads, Elements, ForkElem, Insertion, Main,   \* ParallelSort
          e1, e2, d1, d2,                                    \* NodeQueue
          Workers, Registrations, CleanerCalls,              \* FreeLater
          W, N_DIGITS, QuadBits                              \* FunctionsMC

VARIABLES program,
          root, kid, parent, hint, updating,
          capacity, count, key, value, next, prev, answer,
          place, n,                  \* pc and n of ParallelSort and FreeLater
          bailout, islot, st, a, idlethreads, mtx_al, mtx_st, parked,
          part, left_part, right_parts, qs2, ordered, early,
          made, l, next_node, list, buffer, buffer_prev, empty, stage_lock, run_lock, duties, released,
          function, input

\* Two enqueuers, one of which may fall behind by two nodes, and two dequeuers.
MCCalls == e1 :> 2 @@ e2 :> 1 @@ d1 :> 2 @@ d2 :> 1

Tree == INSTANCE STree
Cache == INSTANCE LruCache WITH Keys <- CacheKeys
Sort == INSTANCE ParallelSort
          WITH Nobody <- None, pc <- place, asleep <- parked, left <- left_part, calls <- right_parts
Deferred == INSTANCE FreeLater
              WITH NULL <- None, pc <- place, next <- next_node, todo <- duties
Functions == INSTANCE FunctionsMC

ASSUME ProgramsAssumption ==
  ParametersOK /\ Sort!ParametersOK /\ Deferred!ParametersOK /\ Functions!ParametersOK

treeVars == <<root, kid, parent, hint, updating>>
cacheVars == <<capacity, count, key, value, next, prev, answer>>
sortVars == <<bailout, islot, st, a, idlethreads, mtx_al, mtx_st, parked,
              part, left_part, right_parts, qs2, ordered, early>>
deferredVars == <<made, l, next_node, list, buffer, buffer_prev, empty,
                  stage_lock, run_lock, duties, released>>
functionVars == <<function, input>>
programVars == <<program, treeVars, cacheVars, vars, sortVars, deferredVars, place, n,
                 blockingVars, hazardVars, functionVars>>

NoSort ==
  /\ bailout = None /\ islot = None /\ st = None /\ a = None /\ idlethreads = None
  /\ mtx_al = None /\ mtx_st = None /\ parked = None /\ part = None /\ left_part = None
  /\ right_parts = None /\ qs2 = None /\ ordered = None /\ early = None

NoDeferred ==
  /\ made = None /\ l = None /\ next_node = None /\ list = None /\ buffer = None
  /\ buffer_prev = None /\ empty = None /\ stage_lock = None /\ run_lock = None /\ duties = None
  /\ released = None

Programs == {"s-tree", "cache", "queue", "sort", "free later", "blocking queue",
             "hazard pointers", "functions"}

ProgramsInit ==
  /\ program \in Programs
  /\ Tree!Init /\ Cache!Init /\ Init /\ BlockingInit /\ HazardInit /\ Functions!Init
  /\ program # "cache" => capacity = 1
  /\ program # "blocking queue" =>
       /\ \A p \in Publishers : \A k \in 1 .. PutsEach : lens[p][k] = CHOOSE x \in Lengths : TRUE
       /\ \A c \in Consumers : max[c] = CHOOSE x \in Lengths : TRUE
  /\ CASE program = "sort" -> Sort!Init /\ NoDeferred
       [] program = "free later" -> Deferred!Init /\ NoSort
       [] OTHER -> place = None /\ n = None /\ NoSort /\ NoDeferred

Chosen(name, step) == program = name /\ step /\ UNCHANGED program

TreeStep == Chosen("s-tree", Tree!Next) /\ UNCHANGED cacheVars
CacheStep == Chosen("cache", Cache!Next) /\ UNCHANGED treeVars

SequentialStep ==
  /\ TreeStep \/ CacheStep
  /\ UNCHANGED <<vars, sortVars, deferredVars, place, n, blockingVars, hazardVars, functionVars>>

QueueStep(step) ==
  /\ Chosen("queue", step)
  /\ UNCHANGED <<treeVars, cacheVars, sortVars, deferredVars, place, n, blockingVars, hazardVars,
                 functionVars>>

SortStep(step) ==
  /\ Chosen("sort", step)
  /\ UNCHANGED <<treeVars, cacheVars, vars, deferredVars, blockingVars, hazardVars, functionVars>>

DeferredStep(step) ==
  /\ Chosen("free later", step)
  /\ UNCHANGED <<treeVars, cacheVars, vars, sortVars, blockingVars, hazardVars, functionVars>>

BlockingStep(step) ==
  /\ Chosen("blocking queue", step)
  /\ UNCHANGED <<treeVars, cacheVars, vars, sortVars, deferredVars, place, n, hazardVars, functionVars>>

HazardStep(step) ==
  /\ Chosen("hazard pointers", step)
  /\ UNCHANGED <<treeVars, cacheVars, vars, sortVars, deferredVars, place, n, blockingVars, functionVars>>

FunctionStep ==
  /\ Chosen("functions", Functions!Next)
  /\ UNCHANGED <<treeVars, cacheVars, vars, sortVars, deferredVars, place, n, blockingVars, hazardVars>>

ProgramsNext ==
  \/ SequentialStep \/ QueueStep(Next) \/ SortStep(Sort!Next) \/ DeferredStep(Deferred!Next)
  \/ BlockingStep(BlockingNext) \/ HazardStep(HazardNext) \/ FunctionStep

\* The fairness of the programs with threads, as stated in their modules: a step leaves the
\* variables of other programs alone, so that these need no mention here.
sortState == <<sortVars, place, n>>
deferredState == <<deferredVars, place, n>>

ProgramsSpec ==
  /\ ProgramsInit /\ [][ProgramsNext]_programVars
  /\ \A t \in Enqueuers : WF_vars(program = "queue" /\ Enqueue(t))
  /\ \A t \in Dequeuers : WF_vars(program = "queue" /\ Dequeue(t))
  /\ WF_sortState(program = "sort" /\ Sort!MainStep)
  /\ \A t \in 1 .. MaxThreads : WF_sortState(program = "sort" /\ Sort!Thread(t))
  /\ WF_deferredState(program = "free later" /\ Deferred!Clean)
  /\ \A t \in Workers : WF_deferredState(program = "free later" /\ Deferred!Worker(t))
  /\ \A t \in Publishers : WF_blockingVars(program = "blocking queue" /\ Publish(t))
  /\ \A t \in Consumers : WF_blockingVars(program = "blocking queue" /\ Consume(t))
  /\ \A r \in Readers : WF_hazardVars(program = "hazard pointers" /\ Read(r))
  /\ \A w \in Writers :
       WF_hazardVars(/\ program = "hazard pointers"
                     /\ Walk(w) \/ Swap(w) \/ Cleanup(w))

\* The S-tree is a search tree, also between two calls of st_update.
SearchTree == program = "s-tree" => Tree!SearchTree

\* The S-tree implements a set: Tree!ImplementsSet, of the behaviours of that program.
ImplementsSet == Tree!S!Init /\ [][program = "s-tree" => [Tree!S!Next]_(Tree!Members)]_programVars

\* The ring of all nodes and the hash rings of the cache agree.
RingsAgree == program = "cache" => Cache!RingsAgree

\* The cache implements least-recently-used eviction.
ImplementsLru == Cache!ImplementsLru

\* The parallel sort loses no part of the array, and works on none twice.
EveryPartOnce == program = "sort" => Sort!EveryPartOnce

\* The functions compute what they are for, but for the inputs of which FunctionsMC says
\* that a comment is wrong.
ResultsRight == Functions!ResultsRight

\* qsort_mt, the calls of both queues and those of free_later return: no thread is waited for
\* that has ended, no dequeuer sleeps on a cell that was filled, and, if every buffer fits
\* every message, one wakeup for each operation is enough.  load and swap with flag 0 wait
\* for each other only for a while.  About the calls that clean up see FreeLater: those do not
\* all return.
AllCallsReturn ==
  <>(/\ program = "sort" => Sort!Returned
     /\ program = "queue" => AllReturned
     /\ program = "free later" => Deferred!WorkersDone
     /\ program = "blocking queue" => BlockingReturned
     /\ program = "hazard pointers" => HazardReturned)
=============================================================================
