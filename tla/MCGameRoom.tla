----------------------------- MODULE MCGameRoom -----------------------------
(***************************************************************************)
(* Instances of GameRoom for TLC: the orders the clients send, on a map of *)
(* one row (SizeX = 1), on which only the ways 1 and 3 stay on the map.    *)
(***************************************************************************)
EXTENDS Views

March(y, w, h) == [x |-> 0, y |-> y, way |-> w, all_or_half |-> h]

\* Every march between neighbours, and one that leaves the map.
MCMarches ==
  {o \in Order : Target(o) \in Cells} \cup {March(0, 0, 0)}

\* Every march between neighbours with all but one of the soldiers.
MCAttacks == {o \in Order : Target(o) \in Cells /\ o.all_or_half = 0}
=============================================================================
