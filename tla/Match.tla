------------------------------- MODULE Match -------------------------------
(***************************************************************************)
(* What one room promises its players, without map, orders or threads:     *)
(* seats are handed out and given back in the lobby, a match starts with   *)
(* every placed slot in contention, a turn moves at most one slot in or    *)
(* out of contention, the match is over when at most one slot is left in   *)
(* contention, and from then on nothing but a quit changes the outcome.    *)
(* GameRoom implements it (MatchSpec in MCGameRoom).                       *)
(***************************************************************************)
EXTENDS DataFormat

CONSTANTS Slots, Placed   \* the slots, and those that get a home on the map

VARIABLES
  phase,      \* WAIT, INGAME or END
  seated,     \* the slots taken
  contenders  \* the slots in contention; nobody in the lobby

vars == <<phase, seated, contenders>>

Init ==
  /\ phase = GAME_STATE_WAIT
  /\ seated = {0}
  /\ contenders = {}

\* Somebody takes the first free slot.  In a running match he inherits the
\* slot as it is: joining never puts a slot back in contention.
Join ==
  /\ \E p \in Slots \ seated :
       /\ \A q \in Slots \ seated : p <= q
       /\ seated' = seated \cup {p}
  /\ UNCHANGED <<phase, contenders>>

Leave(p) ==
  /\ phase = GAME_STATE_WAIT
  /\ p \in seated
  /\ seated' = seated \ {p}
  /\ UNCHANGED <<phase, contenders>>

\* A quit in a match takes the slot out of contention, not the seat away.
Resign(p) ==
  /\ phase # GAME_STATE_WAIT
  /\ p \in seated
  /\ contenders' = contenders \ {p}
  /\ UNCHANGED <<phase, seated>>

\* An order of a player captures a rival's home.
Conquer(p) ==
  /\ phase = GAME_STATE_INGAME
  /\ p \in contenders
  /\ contenders' = contenders \ {p}
  /\ UNCHANGED <<phase, seated>>

\* A player takes his home back in the round he lost it in.
Recover(p) ==
  /\ phase = GAME_STATE_INGAME
  /\ p \in seated
  /\ contenders' = contenders \cup {p}
  /\ UNCHANGED <<phase, seated>>

\* Somebody with a seat starts the match.
Start ==
  /\ phase = GAME_STATE_WAIT
  /\ seated # {}
  /\ phase' = GAME_STATE_INGAME
  /\ contenders' = Placed
  /\ UNCHANGED seated

Finish ==
  /\ phase = GAME_STATE_INGAME
  /\ \A p, q \in contenders : p = q
  /\ phase' = GAME_STATE_END
  /\ UNCHANGED <<seated, contenders>>

Next ==
  \/ Join \/ Start \/ Finish
  \/ \E p \in Slots : Leave(p) \/ Resign(p) \/ Conquer(p) \/ Recover(p)

Spec == Init /\ [][Next]_vars
=============================================================================
