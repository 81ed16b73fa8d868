------------------------------- MODULE Board -------------------------------
(***************************************************************************)
(* What server and client must agree on: the cells of the map, the orders  *)
(* (struct Action, data_format.h) and how next_round reads them            *)
(* (server/game.cpp).  The client has no table of its own for dx and dy,   *)
(* it moves its cursor key by key (Keyboard).                              *)
(***************************************************************************)
EXTENDS DataFormat

CONSTANTS SizeX, SizeY   \* size of the map

ASSUME BoardAssumption == SizeX \in Nat \ {0} /\ SizeY \in Nat \ {0}

Cells == (0 .. SizeX - 1) \X (0 .. SizeY - 1)

\* An order as the client sends it: a cell of the map, one of four ways.
Order == [x : 0 .. SizeX - 1, y : 0 .. SizeY - 1, way : 0 .. 3,
          all_or_half : {0, 1}]

dx == [w \in 0 .. 3 |-> IF w = 0 THEN 1 ELSE IF w = 2 THEN -1 ELSE 0]
dy == [w \in 0 .. 3 |-> IF w = 1 THEN 1 ELSE IF w = 3 THEN -1 ELSE 0]
Source(o) == <<o.x, o.y>>
Target(o) == <<o.x + dx[o.way], o.y + dy[o.way]>>

\* soldier_trans: half of the n soldiers of the cell, or all but one.
Marching(o, n) ==
  IF o.all_or_half = 1 THEN n \div 2 ELSE IF n > 0 THEN n - 1 ELSE 0
=============================================================================
