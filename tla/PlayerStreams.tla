--------------------------- MODULE PlayerStreams ---------------------------
(***************************************************************************)
(* HostSession with the processes behind the transports, and the numbers   *)
(* they give their game events (sync/event_sync.cpp).  A process counts    *)
(* from 1 for as long as it lives, whatever session it is in; the host     *)
(* compares the number with the last one heard under the sender's id.      *)
(***************************************************************************)
EXTENDS HostSession

VARIABLE last_out_event_seq  \* of the process behind each ENet peer

streamVars == <<vars, last_out_event_seq>>

StreamInit ==
  /\ Init
  /\ last_out_event_seq = [p \in Peer |-> 0]

\* A player crashed, or another one comes: a new process connects.
ConnectAfresh(p) ==
  /\ Connect(p)
  /\ last_out_event_seq' = [last_out_event_seq EXCEPT ![p] = 0]

\* mp_send_game_events, and mp_handle_game_event_packet on the host, which
\* drops an event that is not newer.
SendEvent(p, s) ==
  /\ Speaks(p, s)
  /\ last_out_event_seq[p] < MaxSequence
  /\ last_out_event_seq' = [last_out_event_seq EXCEPT ![p] = @ + 1]
  /\ \/ Event(p, s, last_out_event_seq[p] + 1)
     \/ /\ ~IsNewer(last_out_event_seq[p] + 1, last_event[IdOf(s)])
        /\ UNCHANGED vars

\* Everything else that happens to the host, the same process's reconnection
\* included, while its session lasts.
HostGoesOn ==
  /\ Next
  /\ last_event' = last_event
  /\ UNCHANGED last_out_event_seq

StreamNext ==
  \/ \E p \in Peer : ConnectAfresh(p)
  \/ \E p \in Peer, s \in Session : SendEvent(p, s)
  \/ HostGoesOn

StreamSpec == StreamInit /\ [][StreamNext]_streamVars

----------------------------------------------------------------------------
(* Properties                                                              *)

\* The host hears the next event of every player in the session, whoever had
\* the player id before: coming back is a recovery (README.md, "as a Client it's
\* pretty unproblematic to reconnect").
EventsAreHeard ==
  \A p \in Peer, s \in Session :
    Speaks(p, s) => IsNewer(last_out_event_seq[p] + 1, last_event[IdOf(s)])
============================================================================
