---------------------------- MODULE MCRoomServer ----------------------------
(***************************************************************************)
(* Instances of RoomServer for TLC.                                        *)
(***************************************************************************)
EXTENDS RoomServer
=============================================================================
