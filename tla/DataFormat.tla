----------------------------- MODULE DataFormat -----------------------------
(***************************************************************************)
(* The constants of the wire format that server and client share           *)
(* (server/data_format.h, identical to client/data_format.h).  The numbers *)
(* are kept: a value-initialised room or player is all zeros, so the code  *)
(* relies on PLAYER_STATE_ALIVE and GAME_STATE_WAIT both being 0.          *)
(***************************************************************************)
EXTENDS Integers

GAME_STATE_WAIT   == 0
GAME_STATE_INGAME == 1
GAME_STATE_END    == 2
GameStates == {GAME_STATE_WAIT, GAME_STATE_INGAME, GAME_STATE_END}

PLAYER_STATE_ALIVE  == 0
PLAYER_STATE_QUITED == 1
PLAYER_STATE_DEAD   == 2
PlayerStates == {PLAYER_STATE_ALIVE, PLAYER_STATE_QUITED, PLAYER_STATE_DEAD}

GAME_MAP_FOG      == -2
GAME_MAP_MOUNTAIN == -3
GAME_MAP_CASTLE   == -4
GAME_MAP_SPACE    == -5
GAME_MAP_HOME     == -6
GAME_MAP_OWN_NEUTRAL == -1
\* What genMap may put on a point that is no player's home.
OpenTerrain == {GAME_MAP_MOUNTAIN, GAME_MAP_CASTLE, GAME_MAP_SPACE}
Terrain == OpenTerrain \cup {GAME_MAP_HOME}
=============================================================================
