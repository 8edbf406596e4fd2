# TLA+ models of the linux-kernel-quiz programs

The repository is a collection of small C programs (weekly exercises of a Linux
kernel course).  Most of them are independent of each other; what they have in
common is that a good part of them are concurrent data structures whose
correctness cannot be seen from their tests.  This project models those
structures at the granularity of their shared memory accesses, checks them with
TLC on small instances, and proves the most important results with TLAPS for
every number of threads, cells and items.

Source paths below are relative to `src/`.

## Inventory

| | component | source | state | operations | hard part | modelled |
|-|-|-|-|-|-|-|
| A | bounded queue, four variants | `linux-2022/quiz9/problem2/queues.h`, `test.c` | `enqueue_index`, `dequeue_index`, cells (`sequence`, `data`) | `try_enqueue`, `try_dequeue`, `enqueue`, `dequeue`, `make_queue` | preemption between loading, claiming, touching and publishing a cell; reuse of cells | `MpmcQueue`, `BoundedFifo`, proofs |
| H | blocking message queue | `linux-2022/quiz12/problem2/queue.h`, `test.c` | `head`, `tail`, `head_seq`, `tail_seq`, doubly mapped buffer, two condition variables | `queue_put`, `queue_get` | wrap-around, lost wakeups, messages of different length | `BlockingQueue`, proofs |
| C | hazard pointers | `linux-2022/quiz5/problem2/{hp,domain,problem2}.c` | shared pointer, list of hazard pointers, list of retired objects | `load`, `drop`, `swap`, `cleanup` | protection against free, address reuse, reuse of list nodes | `HazardPointers`, proofs |
| D | lock-free hash map | `linux-2022/quiz6/problem2/hashmap.c` | buckets (linked lists), `length` | `hashmap_get`, `hashmap_put`, `hashmap_del` | stale next pointers, double deletion | `HashMap`, proofs |
| D' | deferred release | `linux-2022/quiz6/problem2/free_later.c` | `buffer`, `buffer_prev`, two locks | `free_later`, `free_later_stage`, `free_later_run`, `free_later_exit` | staging protocol, spin locks, global `empty` | `FreeLater` |
| B | futex mutex, condition variable, clock, node graph | `linux-2023-summer/quiz2/*` | `mutex.state`, `cond.seq`, `clock.ticks`, `node.ready` | `mutex_lock/unlock`, `cond_wait/signal/broadcast`, `clock_*`, `node_*` | missed wakeups, requeue from one futex to the other | `FutexSync`, `ClockGraph`, proofs |
| E | linked list with flag and mark bits | `linux-2022/quiz11/problem2/nblist.c` | `next` words with two bits, `prev` back links | push, pop, del, iteration | deletion in three steps that others help with | `NonBlockingList`, `NodeList`, proofs |
| F | ring buffer with lazy head and tail | `linux-2022/quiz8/problem2/lfring.c` | `head`, `tail`, slots with index | `lfring_enqueue`, `lfring_dequeue` | claiming several slots, lagging indices | `LfRing`, `BatchFifo`, proofs |
| G | MPMC queue of linked arrays | `linux-2023-summer/quiz3/problem2.c` | chain of nodes, per-thread handles | `mpmc_enqueue`, `mpmc_dequeue` | reclaiming nodes, futex on the consumer's stack | `NodeQueue`, proofs |
| I | parallel quicksort | `linux-2023-summer/quiz1/problem3.c` | thread states, idle count | `qsort_mt`, `allocate_thread`, `qsort_thread` | hand-over of work, termination | `ParallelSort` |
| J | S-tree | `linux-2023-summer/quiz1/problem1.c` | binary tree with height hints | insert, find, remove | rebalancing keeps order; replacement of a removed node | `STree`, `KeySet` |
| K | circular list and LRU cache | `linux-2022/include/list.h`, `linux-2022/quiz1/problem3.c` | rings of links, `count` | the list operations, `lRUCacheGet`, `lRUCachePut` | eviction at capacity; empty lists | `CircularList`, `LruCache`, `RecencyCache` |
| K' | hash based exercises | `linux-2022/quiz1/problem1.c`, `problem2.c`, `problem4.c` | tables built for one call | `twoSum`, `deleteDuplicates`, `longestConsecutive` | the order of look-up and insertion | `ListExercises` |
| L | bit and integer exercises | `linux-2022/quiz2`, `quiz3`, `quiz4`, `quiz5/problem1`, `linux-2023-summer/quiz1/problem2.c` | none, but the sieve of `quiz5` | pure functions | overflow, zero, boundaries | `WordFunctions`, `ListExercises` |
| M | kernel module | `linux-2022/quiz8/problem3/dont_trace.c` | `loaded`, delayed work | init, exit, periodic routine | requeue during unload | no: the kernel's work queue is outside the repository |
| N | kfifo examples, file copy, loader, memchr, coroutines | `linux-2022/quiz8/kfifo`, `quiz12/problem3`, `quiz13`, `quiz8/problem1`, `quiz4/problem4.c` | | | I/O, kernel interfaces, open exercises | no |

Nothing is persisted anywhere, and no messages cross a network: the hazards are
interleavings, stale reads, lost wakeups, limits and protocol sequences.
`PROJECT.json` lists them with the line where each one bites.

## Modules

### BoundedFifo, MpmcQueue, MpmcQueueMC, MpmcQueueProofs (A)

`MpmcQueue` has one action per shared access of `try_enqueue`
(`LoadEnqueueIndex`, `CheckFree`, `ClaimEnqueue`/`EnqueueCasFails`,
`WriteData`, `Publish`) and of `try_dequeue` (`LoadDequeueIndex`, `CheckFilled`,
`ClaimDequeue`/`DequeueCasFails`, `ReadData`, `Release`).  `MultiProducer` and
`MultiConsumer` are the macros `QUEUE_MP` and `QUEUE_MC`: without them the
compare-and-swap is the plain store the macro expands to.  They are chosen in the initial state together with the
number of calls of each thread, so that a side compiled for one thread has one.  The compare-and-swap
is the weak one, so it may fail although the index did not move.  A thread that
gets anything but `Ok` starts over, as `thread_in` and `thread_out` do.  The
relaxed and acquire/release accesses are interleaved sequentially: the payload is
published by the release store of the sequence number and read after its acquire
load, and no property depends on the order of two relaxed index loads.
`accepted` (payloads in the order of claimed positions) and `received` are history
variables.

`BoundedFifo` is what the queue promises: values are put, taken by one consumer
in order, and returned.  `MpmcQueue!ImplementsFifo` maps the positions between the
two indices to the abstract queue, and what a consumer has claimed to the value
it holds.  A put happens at the claim, not at the publication: consumers that find
a claimed but unpublished position answer `Empty`, which the abstract
specification allows because it does not say when `Take` must succeed;
`HonestRefusals` states under which circumstances the code refuses.

### BlockingQueue, BlockingQueueProofs (H)

All accesses are made with `q->lock` held, so a step is what a thread does between
getting the lock and releasing it, or waiting.  The memory is modelled by byte:
`memory[a] = <<m, k>>` says that physical byte `a` holds byte `k` of message `m`,
and a message that runs over the end of the first mapping continues at the
beginning of the ring, as the two `mmap` calls arrange.  `readable` and
`writeable` are the sets of sleepers; a signal wakes an arbitrary one, and
`SpuriousWakeup` wakes anyone at any time (the fairness does not count on it).
The lengths the publishers use and the room the consumers have are chosen in the
initial state.  Names that other programs have as well begin with `Blocking`, so that `ProgramsMC` can
extend this module and theirs (and with `Hazard` and `Map` in the next two components).

### HazardPointers, HazardPointersProofs (C)

The two lists only grow at the head, so each one is a sequence whose last element
is the head; emptying and refilling nodes is modelled.  A walk loads the head,
then looks at one node per step.  `Addresses` are reused after a free, which is the
point of the structure and the source of the violation found.  The program itself calls
`swap` with flag 0 and never calls `cleanup`; the model gives its writers all
the operations of `domain.h`, in any order.

### HashMap, HashMapProofs (D)

Nodes live in a heap that is a sequence; a bucket head and the next fields are
indices into it.  Each load of a link and each compare-and-swap is a step.
`hashmap_del` passes `&match->next` as the new value, which is loaded before the
compare-and-swap (`ReadNext`, then `Unlink`).  `hashmap_put` does not reset `kv`
when the bucket is empty, and neither does `PutBegins`.  `retired` counts how often
a node was handed to `destroy_node`; the nodes are not reused because `free_later`
releases nothing while threads run.

### FutexSync, ClockGraph, ClockGraphProofs (B)

`FutexSync` holds the mutex and condition variable: a client enters a call
(`CallLock`, `CallUnlock`, `CallWait`, `CallSignal`, `CallBroadcast`), and each
atomic access or system call after that is an action of its own.  A futex is a word
and the set of threads the kernel keeps asleep on it: `MutexFutexWait` and
`CondFutexWait` compare and fall asleep in one step, `Wake` and `Notify` wake an
arbitrary choice of sleepers, and a requeue moves the others to the mutex.  The 128
rounds of a spin loop are any number of rounds.

The repository leaves six macros open.  `AAAA` is `RelockFlags` and `DDDD` is
`BroadcastWakes`; the run uses `MUTEX_SLEEPING` and 1, and the proofs say which
values each result needs.  `BBBB` and `CCCC`, added to the sequence number, are taken as one; `EEEE`
and `FFFF` as `futex_wake`, the function of futex.h with these arguments.  The other
build, where the mutex is a pthread mutex, is not modelled.

`ClockGraph` is main.c: `at` is the place of a thread between two calls,
`goal` the number it waits for.  Whatever a thread does to `ticks` or `ready`
while it has the mutex is one step with the call that follows.

### BatchFifo, LfRing, LfRingMC, LfRingProofs (F)

`LfRing` has the two producer loops of `lfring_enqueue` (a single producer fills the slots
and stores the tail; several claim slot by slot and bring the tail up to date afterwards) and
`lfring_dequeue` with `find_tail`.  The flags are chosen in the initial state, so one run
covers the four combinations of tests.c.  Loads that only prepare a
compare-and-swap of the same word are part of it, as the module's header argues.
`BatchFifo` is the promise: values enter one by one or together, and a consumer
takes a number of the oldest in one step and learns the position of the first.  The
refinement counts an element from the moment it is in its slot; that slots are
written in the order of their positions, although no producer ever holds a lock and the tail lags, is what
`IndicesLag` says.  `excused` records whether there was a moment in a call that
justifies a short count, so that `HonestCounts` can be an action property.

### NodeList, NonBlockingList, NonBlockingListMC, NonBlockingListProofs (E)

`next` maps every node, and the list itself, to a record of pointer, flag and mark; `backlink` is
the second word.  `pc` names the place in the code: `flag`, `back` and `forward` are
the loop of `try_flag`; `clear`, `mark` and `rend` are `clear_flag`, whose recursion is the sequence
`stack`; what its outermost call returns to depends on the operation (`ClearReturns`).
`nblist_push` is repeated until it succeeds, as in tests.c, and a sweep calls `nblist_del_at` or not
at each place `nblist_next` takes it to.  The assertion at nblist.c:59, which
can fail, takes the program to a state without successors; the other assertions are
the invariant `AssertionsHold`.

`NodeList` is the promise: nodes are pushed at the head and removed.  Its list is the set of the nodes and their order, the
pairs of a node and one after it.  `NonBlockingList` maps it to the unmarked nodes on the chain (`Alive`) and their order
there (`Before`), so the step that marks is the removal, and flagging and cutting off change nothing.  `ImplementsList` thus says that no interleaving of
neighbouring removals loses a live node or brings a dead one back.  It says nothing about answers:
`RemovedIsGone` and `FailuresAreHonest` do.  The latter is as strong as the code
allows: `nblist_pop` treats the word of a dead node like a flagged one and steps over the node behind
it, so that it may return NULL while a node that nobody removes is in the list.

### KeySet, STree, CircularList, RecencyCache, LruCache (J, K)

All are sequential.  `STree` identifies a node with its key and writes the functions that the program has
for left and right once, with a direction.  Each call of `st_update` is a step,
`updating` being its argument, so the tree is also looked at while hints above are out of date.
`KeySet` is the promise: `ImplementsSet` takes the keys that a search finds for the set.

`CircularList` has every operation of `list.h` as a function from pointers to pointers, in the build without
`LIST_POISONING`.  `RingsRight`, a part of `ResultsRight`, compares each with the sequences it stands for, forwards and
backwards.  `FreeEach` is the loop of `lRUCacheFree`: a freed node's pointers are lost, so it fails if one is read.

`LruCache` carries out these operations on the `next` and `prev` pointers of links and heads;
`RingsAgree` says that the recency ring and the hash rings hold the same nodes.
`RecencyCache` is the promise: a sequence of key and value pairs in order of use, cut at the capacity.
Keys are natural numbers, as in main: `hash` of a negative key is outside the table.

### ParallelSort (I)

What a thread does to the elements of its part is one step: `SortByInsertion` puts all of them in order,
`Partition` those between a left and a right part of any size.  Which of the two happens depends on the data in the
program and is free in the model, so every tree of parts is covered.  Everything that threads share is
modelled access by access: the state, base and length of a pool thread, its mutex and condition variable, the mutex of the
pool and the count of idle threads.  `calls` holds the right parts that the callers of `qsort_algo` come back to.
`qsort_thread` looks at `st` again after the unlock (`Begin`).  `early` notes whether a thread began while
somebody was still to store its part; `EveryPartOnce` says that this is the only way to lose a part.

### NodeQueue, NodeQueueProofs (G)

Nodes are numbered by their place in the chain and not used again after a `free`, so that
an access to a freed node is seen as one.  `cells` is indexed by the whole index and spans the nodes of the chain; a
cell contains `NULL`, the `Value` a call put, or the `Word` of a dequeuer, the address of its word on the stack.
That word is the same in all calls of a dequeuer (the loop
of `consumer` calls from one place), so a late `Wake` meets the next call.
`ScanHandle` reads one handle at a time, dequeuers first; the order within a kind, which is the one of registration, is
free.  All handles are registered in the initial state: in `main` no value is put before the barriers are passed.

### FreeLater (D')

`list_add` is modelled access by access, including what the failing compare-and-swap stores in
the global variable `empty`; whether the compare-and-swap expects the value that the comparison before it has
loaded or a later one is up to the compiler, so both occur.  `free_later_stage` and
`free_later_run` are steps of one thread, the cleaner; the program calls them in
`free_later_exit` only, after the workers were joined, and `CleanerCalls` more calls are made before that.
`release_lock` does nothing, as in the code.  Lines 115-117 (the swap of the buffers) and 131-146 (the release) are in the model
and never reached.  So the header's promises are not kept.  They are stated as they stand there and
violated in runs of their own: `ReleasedAtExit` (every registered variable has been released when `free_later_exit` has
returned) and `CleanerReturns`.  No property that is expected to hold says anything about what is released, or when the cleaner
returns; what does hold, that the workers' calls return
(`WorkersDone`), is a part of `AllCallsReturn` of `programs`.

### WordFunctions, ListExercises (L, K')

One operator per function, with the name it has in the source, and one formula per function that says what it
is for.  Where a comment promises a result for all inputs and the code has it for some (`AverageRight`, `CtzRight`,
`CeilingRight`, `RoundedToPointer`, `ClosestRight`, `NextPalindromeRight`), the formula is the comment's.  `ResultsRight` has it under
the condition that the code needs and the comment does not mention, and says nothing of the other inputs; `SomeCommentRight`, which
is violated, has the comments for all inputs.  Words have `W` bits; the programs use 32 or 64.  Loops are recursive functions.
The constants that depend on the width (`M3`, `M5`, INT_MAX) are computed from `W`; those of `ilog32`, `ceil_log2` and
`rev8` are the source's.  In `ListExercises` a hash table is the set of its entries.

### FunctionsMC, ProgramsMC, GraphAndMapMC

A behaviour of `FunctionsMC` is the application of the functions on words, sequences, palindromes or lists to one input.
`AverageIsMean`, `CtzFindsGcd`, `CeilingOfLogarithm`, `RoundsToPointers`, `QuotientIsClosest` and `PalindromeIsNext` are what six comments say
of all inputs; each of them is false, and `SomeCommentRight`, their disjunction, is what the run `function_comments` refutes.
A behaviour of `ProgramsMC` is one of a single program, chosen in the initial state: S-tree, cache, parallel sort, node queue,
deferred release, blocking queue, hazard pointers, or a function of `FunctionsMC`.  It extends `NodeQueue`, `BlockingQueue` and `HazardPointers`, whose
properties are so checked under the names the proofs use, and instantiates the other modules.  The variables of the programs that do not run
keep an initial value.  The properties are those of the modules;
`ImplementsSet` is stated of the steps of its own program only, because its mapping is slow to evaluate, and `AllCallsReturn` says
of all programs with threads that their calls return (of `FreeLater`, those of the workers).
`GraphAndMapMC` does the same with `ClockGraph` and `HashMap`.  Both state the fairness of each program's module again, as
that of a step of the program that was chosen; the program never changes, so it is the module's fairness for that program and says nothing of the others.

### Mutants

Definitions whose names end in `Mutant` (and `UndoHazardStore`) are what plausible mistakes would make of the definition that
follows them.  They are used by no specification; replacing the definition by its mutant must
make TLC report the property `PROJECT.json` names, which shows that the property
depends on that code.

## Runs

| run | instance | shows |
|-|-|-|
| `mpmc` | 4 variants, 1 or 2 producers and consumers, 3 calls on either side, 2 cells, weak and strong fairness | `CellExclusive`, `FifoDelivery`, `HonestRefusals`, `ImplementsFifo`, `AllThreadsFinish` |
| `blocking_queue_mixed` | 1 publisher, 2 consumers | violation of queue.h:172, see below |
| `hp_cleanup` | 1 reader, 2 cleaning writers, 2 addresses | violation of domain.c:102, see below |
| `hashmap_delete` | 1 putter, 2 deleters, 2 keys | violation of hashmap.h:53, see below |
| `graph_and_map` | clock: 2 nodes and main; map: 1 adder, 2 putters and 2 deleters of one key, 1 getter | `MutualExclusion`, `SleeperHasWaker`, `NotifiedInTime`, `CounterExact`, `GraphFinishes` of the clock program; `NothingClobbered`, `DeletedOnce`, `LengthCounts`, `GetFindsSettledKey` of the map under the workload of the repository's test |
| `lfring` | 2 producers, 2 consumers, 5 elements in batches of 1 and 2, 2 slots, all flags | `IndicesLag`, `HonestCounts`, `ImplementsFifo`, `AllCallsReturn` |
| `nblist` | list of 2 nodes; push and pop, a deletion, a sweep | `AssertionsHold`, `RemovedIsGone`, `FailuresAreHonest`, `ImplementsList`, `AllCallsReturn` |
| `programs` | S-tree of 5 keys; caches of 1 to 3 nodes, 4 keys, 2 values; sort of 5 elements with 2 threads; queue with 2 enqueuers and 2 dequeuers, 3 values, nodes of 1 cell, threshold 1; 2 workers that register 2 variables each, 1 early call of the cleaner; 2 publishers and 2 consumers, 2 calls each, 5 bytes, header 1, lengths 1 and 3; 2 readers, 1 writer, 3 addresses, 2 swaps, 1 cleanup, both flags; words of 6 bits, sequences of up to 4 numbers, lists of up to 4 and 3 nodes, palindromes of 2 and 3 digits | `SearchTree`, `ImplementsSet`, `RingsAgree`, `ImplementsLru`, `EveryPartOnce`, `NoUseAfterFree`, `DeliveredInOrder`, `IndicesInMapping`, `FifoIntact`, `ProtectedIsAllocated`, `EveryObjectOnce`, `HazardsBalanced`, `ResultsRight`, `AllCallsReturn` |
| `sort_unsorted` | sort of 4 elements with 2 threads | violation of problem3.c:200, see below |
| `free_later_exit` | 2 workers, 1 variable each, the exit | violation of free_later.h:14-15, see below |
| `free_later_stuck` | 1 worker, one call of the cleaner before the exit | violation of free_later.h:13-17, see below |
| `function_comments` | functions as in `programs` | violation of six comments, see below |

Why the bounds are enough to be interesting: with two cells and three items a
cell is reused, so a stalled thread meets a later round of its cell.  Five bytes
with messages of two and four bytes (header included) make messages start at every offset,
cross the end of the first mapping, and leave a publisher without space although
another one has enough.  Three addresses and two swaps let an address be freed,
reused and shared again while a reader holds on to a stale copy of it, and two
readers of one address empty each other's list nodes.  In the map of `graph_and_map` the common
key appears at the head of the bucket, behind a key, and before one, is replaced
and deleted concurrently, and re-added; the stale `kv` occurs.  With two nodes and
main three threads wait for the clock, so a broadcast wakes one and requeues
others, while the second node also waits for the first; the safety properties of the two
modules are proved for every number of nodes.  In `nblist` three threads
remove the same and neighbouring nodes in every order, a node is pushed in front of them meanwhile, the nested
`clear_flag`, dead parents and both outcomes of every search occur.
In `lfring` one producer makes two calls while
the other is in its first, so that the latter's slot is used again behind its back.
In `programs` five keys are enough for replacements from the right and the left, of a child and of a deeper node,
and rotations in both directions in the middle of the tree; four keys in at most three buckets
share one, and are evicted and put again.
Five elements and two threads let a thread be allocated, finish and be allocated again, and the last one to finish is
either; with fewer threads created the sort bails out.  With nodes of one cell every call leaves a node: the chain grows
to three nodes, an enqueuer falls two nodes behind, both dequeuers try to reclaim, and two nodes are freed at once or one after
the other.  Two workers are enough for a first compare-and-swap to fail and for the overwritten `empty` to be taken for an empty list.
In `FunctionsMC` words of six bits have all carries and sign changes; `ilog32` and `ceil_log2` are applied to numbers of up to
29 bits, so that all their steps are taken.

`CHECK_DEADLOCK FALSE` in all runs: every thread makes a bounded number of calls, and
the runs end when all are done.  Where a thread could instead be stuck, the
liveness properties say so.

Fairness.  Threads are scheduled by the operating system, so each thread's actions
are weakly fair.  In `MpmcQueue` a strongly fair claim is added: a weak
compare-and-swap may fail spuriously, but not for ever while it could
succeed (and with a bounded number of calls, contention ends by itself).
In `LfRing` weak fairness of each thread is enough: a call only goes round again when another
thread has got an element through, or claimed a batch.
In `NonBlockingList`, too, weak fairness of each thread is enough, but not less: `try_flag` goes back and
forth until the thread that marked the parent has cut it off.
In `ClockGraph` a thread that is asleep on a futex has no action, so
weak fairness only says that a thread that can run will; the mutex need not be fair because the
program makes a bounded number of calls.
In `ParallelSort` main and each thread are weakly fair, and a sleeping thread need not wake by itself; `NodeQueue` and `FreeLater`
are the same.  Whoever spins on a lock has no action until it is free, so that `free_later_stuck` does not depend on who gets a lock that
is released: it never is.
In `BlockingQueue` weak fairness of a thread means that a thread that is not
asleep gets the mutex eventually, although pthread mutexes are not fair; no other thread
makes more than a bounded number of calls.

## Disagreements between code and comments

* `blocking_queue_mixed`: queue.h:172 says of `queue_get` that it "blocks until a
  message of no more than *max* bytes is available".  A consumer with a short
  buffer consumes the signal on `readable`, finds the message too long and sleeps
  on `writeable`; a consumer that could read the message is never woken.
  `AllCallsReturn` of `programs` says that this does not happen when every buffer fits every message, as in
  test.c.
* `hp_cleanup`: domain.c:102 says that `cleanup` with `DEFER_DEALLOC` deallocates "only
  objects that already have no living references".  With two concurrent cleaners an
  address can be freed, reused, protected and retired again between the scan and
  `list_remove`.  With one cleaner `ProtectedIsAllocated` holds.
* `hashmap_delete`: hashmap.h:53 says that `hashmap_del` "is guaranteed to return true
  just once, if multiple threads are attempting to delete the same key".
  Deleting two neighbouring keys at once resurrects the second, and it is deleted,
  and destroyed, twice.  With a single key being deleted, which is what the
  test does, `DeletedOnce` holds.
* `sort_unsorted`: problem3.c:200 says of `allocate_thread`: "Allocate an idle thread from the pool, lock its mutex, change its
  state to work".  The state is changed first (line 211).  A thread that looks at its state just then runs
  `qsort_algo` on the part it had before, or on none, and is idle again when its new part arrives; `qsort_mt` returns with
  this part unsorted.  As long as that does not happen, `EveryPartOnce` holds.
* `free_later_exit`: free_later.h:14-15 says that `free_later_exit` will "ensure all registerd vars have their `release()` callback invoked".
  `free_later_stage` gives up unless something was staged before, so nothing ever is, and nothing is released.
  Mending it would not be enough: a first insertion that loses its race overwrites the global `empty` (free_later.c:38); its next round takes the list for
  an empty one and drops what another worker has put there.  This, too, would violate `ReleasedAtExit`; the run has two workers
  for that.  It reports the first mistake; in a model with a staging that works it finds the second, and with both mended nothing.
* `free_later_stuck`: free_later.h:13-17 asks for `free_later_stage` before a round of work and `free_later_exit` at the end.  The latter stages, too, and
  `release_lock` has released a copy of the lock: the exit does not return.
* `function_comments`: six comments promise a result for all inputs that the function does not give for some.  The run refutes the disjunction
  of all six, so each of them has a counterexample among its inputs:
  * `AverageIsMean` (quiz2/problem1.c:3, the mean of two numbers): the sum overflows.
  * `CtzFindsGcd` (quiz2/problem3.c:41, the greatest common divisor): zeros of 64 bits are counted with a function of 32, which is undefined if
    these are zero.  The model has the value `Undefined` then.
  * `CeilingOfLogarithm` (quiz4/problem1.c:3, the logarithm of numbers greater than 0): that of 1 is 1.
  * `RoundsToPointers` (quiz3/problem9.c:12, "round up to the next multiple of sizeof(void *)"): it is the next multiple of 16, `MAX_ALIGNMENT`.
  * `QuotientIsClosest` (quiz3/problem10.c:3, the closest integer): for negative divisors it often is another one, as the shift halves them away
    from zero and 0 counts as negative.
  * `PalindromeIsNext` (quiz5/problem1/problem1.c:222, 10...01 after 99...9): the digits are zero by then, and it is 2.

One more is found without a run of its own: the comment at nblist.c:20 says that `try_flag` updates `*pp` to "NULL if @n is not on the list
anymore", and line 59 asserts that there is a node to go on with.  If the node was the last one, and another thread has removed it between
the walk of `nblist_del` and the compare-and-swap, the word read is 0 and the assertion ends the program (without assertions a null pointer is followed).
In `nblist` this happens: `AssertionsHold` is weaker than the assertion in that it allows this failure, and says that it fails in no
other case and that the other assertions hold.

## Proofs

`MpmcQueueProofs` proves for all values of the constants that satisfy the
module's assumptions (at least two cells, and a bound on the number of calls of each thread); that a side compiled for
one thread has one is part of the initial state:

* `InductiveInvariant`: `Spec => []IInv`;
* `NoDataRace`: `Spec => []CellExclusive`;
* `DeliveryInOrder`: `Spec => []FifoDelivery`;
* `RefusalsHonest`: `Spec => HonestRefusals`;
* `QueueIsFifo`: `Spec => ImplementsFifo`.

`CellExclusive` is not inductive: that two threads do not meet on a cell follows
from what a sequence number means.  `IInv` says that a cell is either free
for a position of the current round or filled with one (`CellsOK`), that a claimed
and unpublished position has exactly one owner whose cell still carries its number
(`ProducersOwn`, `ConsumersOwn`), and that what a thread read before its
compare-and-swap is still true if the index has not moved
(`ClaimsAreCurrent`).  The last part is the heart of it: the compare-and-swap looks at the
index only, and it is `ClaimsAreCurrent` that carries the check of the sequence
number over to the claim.  The proofs use a few lemmas on remainders (two positions
less than `CellCount` apart are in different cells), one typing lemma, and
one lemma per part of the invariant, with one step per action.

`ClockGraphProofs` begins with one lemma per invariant and kind of step of the mutex and
condition variable: any client that is inside one call at a time and unlocks or waits only with the
mutex held preserves them.  Then it shows that
main.c is such a client for every number of nodes, and concludes

* `MutexExcludes`: `Spec => []MutualExclusion`, for every value of the open macros;
* `NotificationsArrive`: `Spec => []NotifiedInTime`, likewise;
* `SleepersAreWoken`: `Spec => []SleeperHasWaker`, if `RelockFlags` contains
  `SLEEPING` and `BroadcastWakes` is not zero.

The invariant `IInv` of `ClockGraph` adds what these need: who is in which queue of the kernel and at which
step (`QueuesOK`), that a thread back from `cond_wait`'s sleep sets the bits while it holds the mutex
(`RelockedHolds`), and the discipline of the program (`Discipline`).
`NotifiedInTime` needs one fact of the program: `cond_signal` is used on nodes only, and only
the child of a node waits for it, so that signalling one thread leaves none behind
(`OneSleeperPerNode`).  The two conditions of `SleepersAreWoken` are used where they
matter: a requeued thread never sets `MUTEX_SLEEPING` itself, so the
one that was woken in its place must set it after it got the mutex.

`CountsExactly`, `Spec => []CounterExact` for every number N of nodes, has an invariant of its own, `CounterInv`.
The program has many threads, but before `clock_stop` there is one turn: the tick or signal that is on its way
(`OneTurn`).  `NothingLost` says that the ticks are the rounds that node 1 has begun, and the signals of a node the rounds that
its child has, with at most one of them still to be taken; so a second signal cannot meet the first.  `CarriesRipple` says that
while the turn is with a node, the bits below it are zero; with it node i begins at most 2^(N - i + 1) rounds.  That is an induction over the
nodes, done with a least counterexample; `PowersAssumption` states the doubling of powers of two that
the provers do not know.

`BlockingQueueProofs`, for any ring that has room for a header, any lengths and any number of threads (`SizesAssumption`):

* `IndicesStayInMapping`: `BlockingSpec => []IndicesInMapping`;
* `MessagesComeOutWhole`: `BlockingSpec => []FifoIntact`.

What is missing in `FifoIntact` is where the messages are that nobody has read.  `IInv` says that there is a place for each of them, from
`head` to `tail` and one behind the other, and that the bytes there are still those of the message (`LaidOut`).  The bytes are
compared by their remainder by `Size`: two that are less than `Size` apart lie on different physical bytes, which is what the double
mapping needs.  Like the next two modules it begins with the lemmas about `%` and `\div` that it uses.

`LfRingProofs`, for any ring size and any number of producers and consumers, single or multiple:

* `NothingIsOverwritten`: `Spec => []IndicesLag`;
* `RingIsBatchFifo`: `Spec => ImplementsFifo`, step by step: a slot that is written is a value that enters (or, with a single producer, the store
  of the tail is all of them), the consumer's compare-and-swap of the head takes what it had copied before;
* `CountsAreHonest`: `Spec => HonestCounts`.

The invariant relates three numbers, head <= tail <= what is stored <= head + `Size`, although no thread ever sees them at one
moment (`RingInv`); gives each thread's old copies their bounds (`ProducerInv`, `ConsumerInv`), so that a compare-and-swap that succeeds was justified; and
says that a slot with its position in it is not written again before the position is consumed.  `HonestInv` adds that elements
behind the tail are of calls that have not returned.

`NodeQueueProofs`, for any number of threads, calls, cells of a node and any threshold (`ParametersOK`, which
`ProgramsMC` has TLC evaluate):

* `NodesInHandAreNotFreed`: `Spec => []NoUseAfterFree`;
* `ValuesComeOutInOrder`: `Spec => []DeliveredInOrder`.

Handles never go back: what the scan has read is at most what it is now, and the least of it is below every node in hand (`Reclaiming`).
The difficulty is who else is at it: `init_id` is -1 while one scans, and its compare-and-swap is what makes the scans
exclusive, though two may free their parts at the same time.  For the values `DeliveryInv` has one owner for each index (`OwnIndices`), says what a cell may contain
and why (`CellsRight`), and that a dequeuer's word is cleared only for the index it waits for (`Waiting`): an enqueuer that is
late with its wake-up has cleared the word already, so a later wait is not ended by it.

`HazardPointersProofs`, for any number of readers (finitely many) and writers, and any list that can grow:

* `DropFindsItsHazard`: `HazardSpec => []HazardsBalanced`;
* `NoDoubleFreeNoLeak`: `HazardSpec => []EveryObjectOnce`;
* `WhatIsReadIsNotFreed`: `HazardSpec => []ProtectedIsAllocated` if there is at most one cleaner (`OneCleaner`), which is
  needed: `hp_cleanup` shows what two of them do.

A reader that drops an address may empty the node of another reader that holds the same address, so no reader owns a node.
`Room` says what is true instead: up to any place in the list, the nodes with an address, not counting those of readers that have still to
validate it or to take it back, are at least as many as the walks for it that have come this far.  `Owned` has each object in one hand or one
node of the retired list, and `Scanned` says that the nodes with its address which a writer's walk has passed are of readers that
published it too late and will take it back.

`HashMapProofs`, for any number of threads of each kind, loops and keys that are only added, if there is at most one key that is put
and deleted all the time (`OneChurnedKey`), as in test-hashmap.c:

* `NothingIsEverClobbered`: `MapSpec => []NothingClobbered`;
* `DestroyedOnce`: `MapSpec => []DeletedOnce`;
* `SettledKeyIsFound`: `MapSpec => []GetFindsSettledKey`;
* `LengthIsRight`: `MapSpec => []LengthCounts`.

The assumption is needed: `hashmap_delete` is the counterexample with two such keys.  It is used where the code relies on it without saying so: the
node before the one that a put or a deletion has found never leaves, because its key is only added (`LinksOf`), so a compare-and-swap that
succeeds on its link changes the map.  What the new value says is still right for two reasons: the next word of a
node that is linked changes only when the node behind it is replaced or unlinked, which one churned key excludes if the node itself is
of that key (`FoundBy`), and a put that found its key nowhere adds a node only if the bucket is still as its walk began, so that nobody can have
put the key behind its back (`NotMissedBy`).  Each node of the map has one link that leads to it (`OneWayIn`).
The actions fall into four kinds: a step that changes no link, one that adds a
node in front, one that splices a node in or out (`Splice`), and one that only retires a node; each kind has
its lemmas about what can be reached.  `LengthIsRight` is a second induction on top of it, since it counts.

`NonBlockingListProofs`, for any number of threads and nodes (finitely many), any calls and any list to begin with:

* `AssertionsAlwaysHold`: `Spec => []AssertionsHold`;
* `RemovalsAreComplete`: `Spec => []RemovedIsGone`;
* `NegativeAnswersAreHonest`: `Spec => FailuresAreHonest`;
* `ListIsImplemented`: `Spec => ImplementsList`, step by step.

The assertions look at one node each, but the reasons for them are anywhere in the list: threads hold pointers to nodes that were
cut off long ago, and come back into the list through back links and the frozen pointers of dead nodes.  `IInv` has a part about the heap and
a part for each thread.  The heap (`HeapOK`): the pointers from any node lead on and never round (`ChainOK`); a back link goes to a node that is or was in the list
and whose pointer is flagged for the node, or was until the node was cut off (`Dying`); and what can be
reached from a node and is in the list comes after the node its back link leads to (`Leads`).  The last is what saves the search: a walk that goes back, or
on over dead nodes, never gets behind a node it has not looked for.  A thread (`ThreadOK`): what it read is true or was (`Seen`), its target is ahead
unless it has gone (`SearchOK`), each call of `clear_flag` is for a flag that was set (`FrameOK`), and whoever set a flag is in `clear_flag` for it and
has not reported it (`OwnOK`, `ClaimsOK`).  A step is one of six changes of the heap (a flag, a back link, a mark, a cut, a node that is prepared, a node that
is linked in); each keeps `HeapOK` and is `Stable`: what a thread that does nothing knows stays true.  So a proof is needed per action for the
thread that acts, and once for all others.  `From`, what is reached from a node, is defined as the intersection of the closed sets rather than by recursion;
one induction (`Induction`, with a least counterexample) shows that it is the recursive `Chain` of the model.
For the refinement that is all that is needed of the sequence: the order of the list is who can be reached from whom
(`Order`, `SequenceOrder`), which is linear (`Linear`, `OneWay`), and `Stable` says that no step takes it away between nodes that stay.

In `HashMapProofs`, too, the chain of a bucket is a recursive function in the model.  That it is the least set closed under next
(`ReachWithin`, `ReachCloses`) is an induction, done with a least counterexample, as is the ripple of the carries in
`ClockGraphProofs`: the library's theorem that every nonempty set of numbers has a least element takes no operator.

Each of these invariants was checked by TLC on the instance of its run before it was proved.

Only model-checked: all liveness, which needs fairness and ENABLED, and so far the modules of D', I, J, K, K' and L.  What
the recursive functions of `WordFunctions` compute stays with TLC: the theorems about recursion take an operator as a parameter,
which the provers cannot instantiate, and the arithmetic is not linear.

## Not modelled

* `linux-2022/quiz8/problem3/dont_trace.c` and the kfifo examples are clients of kernel interfaces (work queue, kfifo, proc) that are not in
  the repository.
* `isqrt` of quiz5 (a table and 64-bit arithmetic; TLC's integers have 32 bits), so `max` is the root by definition.
* `mmap-filecopy.c`, the ELF loader, `memchr_opt` and the coroutines: input and output, vector instructions, and exercises whose code is left open.
* Initialisation and destruction that run while there is one thread: `make_queue`'s argument checks, `queue_destroy`, `list_free`, `domain_free`,
  `lfring_free`, `treeint_destroy`, `lRUCacheFree` (but for its loop), `map_deinit`; and failing allocations.
* In `ParallelSort` the ways to the library's `qsort` that start no thread, and a pool of none: `main` accepts `-h 0` (line 445), and
  line 165 then writes behind the pool (`ParametersOK` asks for a thread); in `NodeQueue` the registration and the spare node.

## Plan

What is left: proofs about `ParallelSort`, the mutual exclusion of those who give work to one thread, and `EveryPartOnce`.
