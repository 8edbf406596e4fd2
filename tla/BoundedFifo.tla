---------------------------- MODULE BoundedFifo ----------------------------
(***************************************************************************)
(* What a bounded queue promises its callers: values leave in the order in *)
(* which they were accepted, each one goes to exactly one consumer, and at *)
(* most Capacity of them wait.  A consumer first takes the oldest value    *)
(* (the instant that orders it against the other consumers) and then       *)
(* returns with that value, whatever the others do in between.             *)
(***************************************************************************)
EXTENDS Integers, Sequences

CONSTANTS Capacity,   \* values the queue can hold
          Values,     \* what is enqueued
          Takers,     \* the consumers
          Nothing     \* held by a consumer that has taken no value

VARIABLES queue,      \* the waiting values, oldest first
          held,       \* held[c]: the value consumer c took and will return
          received    \* received[c]: the values returned to c, in order

fifoVars == <<queue, held, received>>

Init == /\ queue = << >>
        /\ held = [c \in Takers |-> Nothing]
        /\ received = [c \in Takers |-> << >>]

Put == \E v \in Values :
         /\ Len(queue) < Capacity
         /\ queue' = Append(queue, v)
         /\ UNCHANGED <<held, received>>

Take(c) == /\ queue # << >>
           /\ held[c] = Nothing
           /\ held' = [held EXCEPT ![c] = Head(queue)]
           /\ queue' = Tail(queue)
           /\ UNCHANGED received

Return(c) == /\ held[c] # Nothing
             /\ received' = [received EXCEPT ![c] = Append(@, held[c])]
             /\ held' = [held EXCEPT ![c] = Nothing]
             /\ UNCHANGED queue

Next == Put \/ \E c \in Takers : Take(c) \/ Return(c)

Spec == Init /\ [][Next]_fifoVars
=============================================================================
