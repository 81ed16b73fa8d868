------------------------------- MODULE Roster -------------------------------
(***************************************************************************)
(* A room as its clients can tell it from the replies: its game_state, the *)
(* slots that are taken, and the state of each player.  How a game is      *)
(* played and why a player falls is left open; GameRoom implements this    *)
(* (RosterSpec), so what Client shows of clients around a Roster holds     *)
(* around a room of the server.                                            *)
(***************************************************************************)
EXTENDS DataFormat

CONSTANT Slots   \* the slots of the room, 0 among them

VARIABLES game_state, seated, player_state

vars == <<game_state, seated, player_state>>

Init ==
  /\ game_state = GAME_STATE_WAIT
  /\ seated = {0}
  /\ player_state = [p \in Slots |-> PLAYER_STATE_ALIVE]

\* Mutant of FreeSlots: the slot of a player who is out counts as free.
FreeSlots_OrOut ==
  {p \in Slots : p \notin seated \/ player_state[p] # PLAYER_STATE_ALIVE}
\* The slots whose session is 0.
FreeSlots == Slots \ seated

\* Join_Room takes the first free slot.
Join(p) ==
  /\ p \in FreeSlots
  /\ \A q \in FreeSlots : p <= q
  /\ seated' = seated \cup {p}
  /\ player_state' = [player_state EXCEPT ![p] = PLAYER_STATE_ALIVE]
  /\ UNCHANGED game_state

\* Quit_Game: the slot is free again in the lobby, QUITED afterwards.
Quit(p) ==
  /\ p \in seated
  /\ \/ /\ game_state = GAME_STATE_WAIT
        /\ seated' = seated \ {p}
        /\ player_state' = [player_state EXCEPT ![p] = PLAYER_STATE_ALIVE]
     \/ /\ game_state # GAME_STATE_WAIT
        /\ player_state' = [player_state EXCEPT ![p] = PLAYER_STATE_QUITED]
        /\ UNCHANGED seated
  /\ UNCHANGED game_state

\* Start_Game, sent by somebody who is seated.
Start ==
  /\ game_state = GAME_STATE_WAIT
  /\ seated # {}
  /\ game_state' = GAME_STATE_INGAME
  /\ UNCHANGED <<seated, player_state>>

\* A verdict of next_round: seated or not, the slot has lost its home.
Fall(p) ==
  /\ game_state = GAME_STATE_INGAME
  /\ player_state' = [player_state EXCEPT ![p] = PLAYER_STATE_DEAD]
  /\ UNCHANGED <<game_state, seated>>

\* next_round ends the game.
Finish ==
  /\ game_state = GAME_STATE_INGAME
  /\ game_state' = GAME_STATE_END
  /\ UNCHANGED <<seated, player_state>>

\* The steps of the game thread.
Round == Finish \/ \E p \in Slots : Fall(p)

Next ==
  \/ Start
  \/ Round
  \/ \E p \in Slots : Join(p) \/ Quit(p)

Spec == Init /\ [][Next]_vars
=============================================================================
