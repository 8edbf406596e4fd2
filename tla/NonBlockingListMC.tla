------------------------- MODULE NonBlockingListMC -------------------------
(***************************************************************************)
(* The instance of NonBlockingList that TLC checks.                        *)
(***************************************************************************)
EXTENDS NonBlockingList, TLC

CONSTANTS t1, t2, t3, n1, n2, n3

\* Two nodes that everybody deletes, and one that comes in front of them.
MCListed == <<n1, n2>>
MCJobs == t1 :> <<"push", "pop">> @@ t2 :> <<"del">> @@ t3 :> <<"sweep">>
=============================================================================
