------------------------------ MODULE MCLobby ------------------------------
(* Lobby for TLC: a host, two clients, a countdown of one second, and two   *)
(* messages on their way in each direction.                                 *)
EXTENDS Lobby
============================================================================
