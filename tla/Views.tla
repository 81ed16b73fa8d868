------------------------------- MODULE Views -------------------------------
(***************************************************************************)
(* What a player is shown of the room: the map under the fog (mapMask) and *)
(* the whole map after the end (Map_Info), as operators on GameRoom's map. *)
(* A view is taken of one moment here, of whatever point of a round.  The  *)
(* code reads cell by cell under room_mutex, which next_round does not     *)
(* take, so that a reply may be torn between two moments.                  *)
(***************************************************************************)
EXTENDS GameRoom

Fog == [type |-> GAME_MAP_FOG, owner |-> GAME_MAP_OWN_NEUTRAL,
        soldier_num |-> 0]

\* Mutant of Around: the last column is never looked at.
Around_ShortRow(c) ==
  {d \in Cells : /\ d[1] - c[1] \in -1 .. 1
                 /\ d[2] - c[2] \in -1 .. 1
                 /\ d[2] < SizeY - 1}
\* The cell and its neighbours that are on the map.
Around(c) == {d \in Cells : d[1] - c[1] \in -1 .. 1 /\ d[2] - c[2] \in -1 .. 1}

\* The map m as player p sees it.
mapMask(m, p) ==
  [c \in Cells |->
     IF (\E d \in Around(c) : m[d].owner = p) \/ m[c].type = GAME_MAP_MOUNTAIN
     THEN m[c] ELSE Fog]

\* The map in the reply to Map_Info: bare once the game is over.
Map_Info(p) ==
  IF game_state = GAME_STATE_END THEN game_map ELSE mapMask(game_map, p)

\* Fog and marches agree: every order that next_round would carry out starts
\* and ends on cells whose true content its player is shown (Legal reads dx
\* and dy, mapMask a square around the cell; they are different code).
MarchSeen ==
  game_map # NoMap =>
    \A p \in Pids, o \in Orders : Legal(p, o) =>
      \A c \in {Source(o), Target(o)} : Map_Info(p)[c] = game_map[c]

\* Land changes hands only to an owner who holds, and keeps, a cell around it,
\* and no land ever goes back to neutral.  So whoever conquers a cell had been
\* shown it; and getStat, which tests that a cell has an owner and then reads
\* the owner twice more as an index of info[] while next_round goes on beside
\* it, can find another player in between, never "nobody" (index -1).
LandChangesHands ==
  [][game_map # NoMap =>
       \A c \in Cells :
         LET p == game_map'[c].owner
         IN  p # game_map[c].owner =>
               /\ p # GAME_MAP_OWN_NEUTRAL
               /\ \E d \in Around(c) \ {c} :
                    game_map[d].owner = p /\ game_map'[d].owner = p]_game_map
=============================================================================
