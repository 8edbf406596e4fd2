---------------------------- MODULE MpmcQueueMC ----------------------------
(***************************************************************************)
(* The instance of MpmcQueue that TLC checks.                              *)
(***************************************************************************)
EXTENDS MpmcQueue, TLC

CONSTANTS p1, p2, c1, c2

\* Three payloads go through two cells; a variant for one thread is checked
\* with the loads that leave the other thread of its side without calls.
MCLoads ==
  {p1 :> p @@ p2 :> 3 - p @@ c1 :> c @@ c2 :> 3 - c : p \in {2, 3}, c \in {2, 3}}
=============================================================================
