------------------------------ MODULE FreeLater ------------------------------
(***************************************************************************)
(* Deferred release (linux-2022/quiz6/problem2/free_later.c): worker       *)
(* threads register variables, and a cleaner stages and runs the release   *)
(* of what was registered.                                                 *)
(*                                                                         *)
(* A list node is named after the variable it holds.  list_add passes the  *)
(* address of the global variable empty to its compare-and-swap, which     *)
(* stores there what it found if it fails.  The accesses to empty are      *)
(* plain ones: the compare-and-swap may expect the value that the          *)
(* comparison before it has loaded, or load it again.                      *)
(***************************************************************************)
EXTENDS Naturals, Sequences, FiniteSets

CONSTANTS Workers,
          Registrations,  \* calls of free_later by each worker
          CleanerCalls,   \* calls of free_later_stage and free_later_run before the exit
          NULL

ParametersOK == Registrations \in Nat /\ CleanerCalls \in Nat

Variables == Workers \X (1 .. Registrations)
Lists == {"first list", "second list"}

VARIABLES pc, made,             \* made[t]: calls of free_later that t has begun
          n, l,                 \* of list_add: the head it has loaded, and the list
          next,
          list, buffer, buffer_prev, empty,
          stage_lock, run_lock, \* the static lock of each function
          todo,                 \* what the cleaner has still to call
          released

globals == <<list, buffer, buffer_prev, empty>>
cleaner == <<stage_lock, run_lock, todo, released>>
vars == <<pc, made, n, l, next, globals, cleaner>>

Empty == [head |-> NULL, length |-> 0]

Cleanings == {"stage", "run"}
Exit == <<"run", "stage", "run", "free buffer">>

Init ==
  /\ pc = [t \in Workers |-> "call"]
  /\ made = [t \in Workers |-> 0]
  /\ n = [t \in Workers |-> NULL]
  /\ l = [t \in Workers |-> NULL]
  /\ next = [v \in Variables |-> NULL]
  /\ list = [b \in Lists |-> Empty]
  /\ buffer = "first list" /\ buffer_prev = NULL
  /\ empty = NULL
  /\ stage_lock = FALSE /\ run_lock = FALSE
  /\ todo \in {calls \o Exit : calls \in UNION {[1 .. k -> Cleanings] : k \in 0 .. CleanerCalls}}
  /\ released = {}

Goto(t, place) == pc' = [pc EXCEPT ![t] = place]

\* The variable, and the node, of t's call.
Mine(t) == <<t, made[t]>>

-----------------------------------------------------------------------------
(* list_add *)

Register(t) ==
  /\ pc[t] = "call" /\ made[t] < Registrations
  /\ made' = [made EXCEPT ![t] = @ + 1]
  /\ l' = [l EXCEPT ![t] = buffer]
  /\ Goto(t, "load")
  /\ UNCHANGED <<n, next, globals, cleaner>>

LoadHead(t) ==
  /\ pc[t] = "load"
  /\ n' = [n EXCEPT ![t] = list[l[t]].head]
  /\ Goto(t, "compare")
  /\ UNCHANGED <<made, l, next, globals, cleaner>>

CompareWithEmpty(t) ==
  /\ pc[t] = "compare"
  /\ \/ /\ n[t] = empty
        /\ next' = [next EXCEPT ![Mine(t)] = NULL]
        /\ Goto(t, "add first")
     \/ /\ n[t] # empty
        /\ next' = [next EXCEPT ![Mine(t)] = n[t]]
        /\ Goto(t, "add")
  /\ UNCHANGED <<made, n, l, globals, cleaner>>

\* The compare-and-swap, and what it does if the head is not as expected.
SwapHead(t, expected) ==
  /\ list[l[t]].head = expected
  /\ list' = [list EXCEPT ![l[t]].head = Mine(t)]
  /\ Goto(t, "count")
  /\ UNCHANGED n

AddFirst(t) ==
  /\ pc[t] = "add first"
  /\ \E expected \in {n[t], empty} :
       \/ SwapHead(t, expected)
       \/ /\ list[l[t]].head # expected
          /\ n' = [n EXCEPT ![t] = list[l[t]].head]
          /\ Goto(t, "overwrite")
          /\ UNCHANGED list
  /\ UNCHANGED <<made, l, next, buffer, buffer_prev, empty, cleaner>>

OverwriteEmpty(t) ==
  /\ pc[t] = "overwrite"
  /\ empty' = n[t]
  /\ Goto(t, "load")
  /\ UNCHANGED <<made, n, l, next, list, buffer, buffer_prev, cleaner>>

Add(t) ==
  /\ pc[t] = "add"
  /\ \/ SwapHead(t, n[t])
     \/ list[l[t]].head # n[t] /\ Goto(t, "load") /\ UNCHANGED <<n, list>>
  /\ UNCHANGED <<made, l, next, buffer, buffer_prev, empty, cleaner>>

Count(t) ==
  /\ pc[t] = "count"
  /\ list' = [list EXCEPT ![l[t]].length = @ + 1]
  /\ n' = [n EXCEPT ![t] = NULL]
  /\ Goto(t, "call")
  /\ UNCHANGED <<made, l, next, buffer, buffer_prev, empty, cleaner>>

-----------------------------------------------------------------------------
(* free_later_stage, free_later_run and free_later_exit *)

\* The variables on the way from node v.
Chain(v) ==
  LET reach[k \in 0 .. Cardinality(Variables)] ==
        IF k = 0 THEN {v} \ {NULL} ELSE reach[k - 1] \cup ({next[u] : u \in reach[k - 1]} \ {NULL})
  IN  reach[Cardinality(Variables)]

Held(b) == IF b = NULL THEN {} ELSE Chain(list[b].head)

NextCall(what) == todo # <<>> /\ Head(todo) = what /\ todo' = Tail(todo)

\* release_lock works on a copy of the lock, which stays locked.
acquire_lock(lock) == ~lock /\ lock' = TRUE

Stage ==
  /\ NextCall("stage")
  /\ acquire_lock(stage_lock)
  /\ LET swap == buffer_prev # NULL /\ list[buffer_prev].length > 0
         fresh == CHOOSE b \in Lists : b # buffer
     IN  /\ buffer_prev' = IF swap THEN buffer ELSE buffer_prev
         /\ buffer' = IF swap THEN fresh ELSE buffer
         /\ list' = IF swap THEN [list EXCEPT ![fresh] = [Empty EXCEPT !.head = empty]] ELSE list
  /\ UNCHANGED <<pc, made, n, l, next, empty, run_lock, released>>

Run ==
  /\ NextCall("run")
  /\ IF buffer_prev = NULL THEN UNCHANGED run_lock ELSE acquire_lock(run_lock)
  /\ released' = released \cup Held(buffer_prev)
  /\ buffer_prev' = NULL
  /\ UNCHANGED <<pc, made, n, l, next, list, buffer, empty, stage_lock>>

\* main exits when the workers are joined.
WorkersDone == \A t \in Workers : pc[t] = "call" /\ made[t] = Registrations

FreeBuffer ==
  /\ NextCall("free buffer")
  /\ buffer' = NULL
  /\ UNCHANGED <<pc, made, n, l, next, list, buffer_prev, empty, stage_lock, run_lock, released>>

Clean == (Len(todo) <= Len(Exit) => WorkersDone) /\ (Stage \/ Run \/ FreeBuffer)

Worker(t) ==
  \/ Register(t) \/ LoadHead(t) \/ CompareWithEmpty(t) \/ AddFirst(t)
  \/ OverwriteEmpty(t) \/ Add(t) \/ Count(t)

Next == Clean \/ \E t \in Workers : Worker(t)

Spec == Init /\ [][Next]_vars

FairSpec == Spec /\ WF_vars(Clean) /\ \A t \in Workers : WF_vars(Worker(t))

-----------------------------------------------------------------------------
(* What the comments of the program say, and the code does not do *)

\* The variables whose call of free_later has returned.
Registered == {v \in Variables : made[v[1]] > v[2] \/ (made[v[1]] = v[2] /\ pc[v[1]] = "call")}

\* When free_later_exit has returned, every registered variable was released
\* (free_later.h:14-15): it was staged before, and list_add has not lost it.
ReleasedAtExit == todo = <<>> => Registered \subseteq released

\* free_later_stage, before rounds of work, free_later_run and, at the end,
\* free_later_exit return (free_later.h:13-21): whoever waits for a lock gets it.
CleanerReturns == <>(todo = <<>>)
=============================================================================
