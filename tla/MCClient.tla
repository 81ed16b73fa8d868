------------------------------ MODULE MCClient ------------------------------
(***************************************************************************)
(* Client for TLC: two clients, who may know the password or not.          *)
(***************************************************************************)
EXTENDS Client

CONSTANTS c1, c2

MCClients == {c1, c2}
=============================================================================
