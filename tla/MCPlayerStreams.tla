-------------------------- MODULE MCPlayerStreams --------------------------
(* PlayerStreams for TLC: two peers, one seat beside the host's, so that a  *)
(* player who comes back, or the next one, gets the id that was left.       *)
EXTENDS PlayerStreams
============================================================================
