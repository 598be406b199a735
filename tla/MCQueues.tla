----------------------------- MODULE MCQueues ------------------------------
(* PacketScheduler and RingBuffer for TLC.  The way out and the way in share *)
(* nothing, so a behaviour uses one of them: their product has no other     *)
(* case.                                                                    *)
(*                                                                          *)
(* The scheduler has two peers, two streams, a window of three packets and  *)
(* four bytes.  The sizes make either limit bind first, and one is larger   *)
(* than the window.  A snapshot is also sent reliably once, as in the       *)
(* tests, so that reliable and unreliable packets of one stream meet.  The  *)
(* ring has three slots, so that head and write position wrap at different  *)
(* times, and three values told apart.                                      *)
EXTENDS PacketScheduler, RingBuffer

MCSends == {<<"EVENT_GAME", TRUE>>, <<"STATE_UPDATE", FALSE>>,
            <<"STATE_UPDATE", TRUE>>, <<"VEHICLE_SYNC", FALSE>>}

QueuesInit == Init /\ RingInit

QueuesNext ==
  \/ RingInit /\ Next /\ UNCHANGED ringVars
  \/ Init /\ RingNext /\ UNCHANGED vars

QueuesSpec == QueuesInit /\ [][QueuesNext]_<<vars, ringVars>>
============================================================================
