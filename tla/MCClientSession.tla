-------------------------- MODULE MCClientSession --------------------------
(* ClientSession for TLC: it has no constants and its state is finite, so   *)
(* every run explores all of it.                                            *)
EXTENDS ClientSession
============================================================================
