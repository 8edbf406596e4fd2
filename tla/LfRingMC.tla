------------------------------ MODULE LfRingMC ------------------------------
(***************************************************************************)
(* The instance of LfRing that TLC checks.                                 *)
(***************************************************************************)
EXTENDS LfRing, TLC

CONSTANTS p1, p2, c1, c2

\* Producer p1 can go round the ring once while p2 is in its first call.
MCRequests == p1 :> <<1, 2>> @@ p2 :> <<2>> @@ c1 :> <<2, 1>> @@ c2 :> <<1>>
=============================================================================
