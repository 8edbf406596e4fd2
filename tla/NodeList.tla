------------------------------ MODULE NodeList ------------------------------
(***************************************************************************)
(* What a list of nodes promises (linux-2022/quiz11/problem2, nblist.h):   *)
(* a node is pushed at the head, and removed from wherever it is.  The     *)
(* list is the set of its nodes and their order, the pairs of a node and   *)
(* one that comes after it.                                                *)
(***************************************************************************)
EXTENDS Naturals

CONSTANTS Nodes, Listed          \* the list at the beginning
VARIABLES held, before

Init ==
  /\ held = {Listed[i] : i \in DOMAIN Listed}
  /\ before = {pair \in held \X held : \E i, j \in DOMAIN Listed : i < j /\ pair = <<Listed[i], Listed[j]>>}

Push(n) ==
  /\ n \notin held
  /\ held' = held \cup {n}
  /\ before' = before \cup ({n} \X held)

Removal(n) ==
  /\ n \in held
  /\ held' = held \ {n}
  /\ before' = before \cap (held' \X held')

Next == \E n \in Nodes : Push(n) \/ Removal(n)

Spec == Init /\ [][Next]_<<held, before>>
=============================================================================
