----------------------------- MODULE BatchFifo -----------------------------
(***************************************************************************)
(* What a queue with batches promises its callers: values are put one      *)
(* after the other or several at once, at most Capacity of them wait, and  *)
(* a consumer takes any number of the oldest ones in one step, together    *)
(* with the position of the first.                                         *)
(***************************************************************************)
EXTENDS Integers, Sequences

CONSTANTS Capacity,   \* values the queue can hold
          Values,     \* what is enqueued
          Takers      \* the consumers

VARIABLES queue,      \* the waiting values, oldest first
          position,   \* the position of the oldest one, or of the next to come
          received    \* received[c]: the batches consumer c took

batchVars == <<queue, position, received>>

Init == /\ queue = << >>
        /\ position = 0
        /\ received = [c \in Takers |-> << >>]

Put == /\ queue' \in Seq(Values)
       /\ Len(queue') \in Len(queue) + 1 .. Capacity
       /\ SubSeq(queue', 1, Len(queue)) = queue
       /\ UNCHANGED <<position, received>>

Take(c) == \E n \in 1 .. Len(queue) :
             /\ received' = [received EXCEPT ![c] = Append(@, <<position, SubSeq(queue, 1, n)>>)]
             /\ queue' = SubSeq(queue, n + 1, Len(queue))
             /\ position' = position + n

Next == Put \/ \E c \in Takers : Take(c)

Spec == Init /\ [][Next]_batchVars
=============================================================================
