---------------------------- MODULE MCGameThread ----------------------------
(* Two attempts of a search and two of a refresh. *)
EXTENDS GameThread

MCAttempts == 2
=============================================================================
