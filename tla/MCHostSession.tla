--------------------------- MODULE MCHostSession ---------------------------
(* HostSession for TLC: three ENet peers, three sessions and a limit of     *)
(* three players, so that the host fills up, seats are freed in another     *)
(* order than they were taken, and a peer comes back in another session.    *)
EXTENDS HostSession
============================================================================
