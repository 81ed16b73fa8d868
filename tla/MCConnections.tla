--------------------------- MODULE MCConnections ---------------------------
(***************************************************************************)
(* Connections for TLC: clients more than connections, requests whose      *)
(* replies are a header alone or longer, converted whole or in part.       *)
(***************************************************************************)
EXTENDS Connections

ASSUME MCAssumption == LengthsFit

MCAsked == {CMD_PLAYER_INFO}
=============================================================================
