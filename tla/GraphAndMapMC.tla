--------------------------- MODULE GraphAndMapMC ---------------------------
(***************************************************************************)
(* ClockGraph and HashMap, checked together: a behaviour runs one of the   *)
(* two, and the variables of the other keep their initial values, of which *)
(* its properties hold as well.                                            *)
(***************************************************************************)
EXTENDS ClockGraph, HashMap

VARIABLE program

BothInit == program \in {"graph", "map"} /\ Init /\ MapInit

GraphStep == program = "graph" /\ Next /\ UNCHANGED <<program, mapVars>>
MapStep == program = "map" /\ MapNext /\ UNCHANGED <<program, vars>>

BothNext == GraphStep \/ MapStep

\* The fairness of ClockGraph; nothing that is checked of the map needs any.
BothSpec ==
  /\ BothInit /\ [][BothNext]_<<program, vars, mapVars>>
  /\ \A t \in Threads : WF_vars(program = "graph" /\ (ClientStep(t) \/ InCall(t)))

\* All threads of the graph end.
GraphFinishes == program = "graph" => AllThreadsFinish
=============================================================================
