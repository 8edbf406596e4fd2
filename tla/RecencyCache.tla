---------------------------- MODULE RecencyCache ----------------------------
(***************************************************************************)
(* What a cache with least-recently-used eviction promises: the last       *)
(* capacity keys that were put or found, the latest first.                 *)
(***************************************************************************)
EXTENDS Integers, Sequences

CONSTANTS Keys, Values, None
VARIABLES capacity,
          recent,     \* a sequence of pairs of a key and its value
          answer      \* what the last Get returned

vars == <<capacity, recent, answer>>

Init ==
  /\ capacity \in Nat
  /\ recent = <<>>
  /\ answer = None

Entries(k) == {i \in 1 .. Len(recent) : recent[i][1] = k}

Without(k) == SelectSeq(recent, LAMBDA e : e[1] # k)

Get(k) ==
  /\ IF Entries(k) = {}
     THEN answer' = None /\ UNCHANGED recent
     ELSE \E i \in Entries(k) :
            /\ answer' = recent[i][2]
            /\ recent' = <<recent[i]>> \o Without(k)
  /\ UNCHANGED capacity

Put(k, v) ==
  LET all == <<<<k, v>>>> \o Without(k)
  IN /\ recent' = IF Len(all) > capacity THEN SubSeq(all, 1, capacity) ELSE all
     /\ UNCHANGED <<capacity, answer>>

Next == \E k \in Keys : Get(k) \/ \E v \in Values : Put(k, v)

Spec == Init /\ [][Next]_vars
=============================================================================
