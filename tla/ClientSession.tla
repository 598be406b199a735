--------------------------- MODULE ClientSession ---------------------------
(***************************************************************************)
(* One client and its way to the host: joining, the secure handshake, the  *)
(* loss of the transport, automatic and manual reconnection, and the ways  *)
(* a session ends (multiplayer_session.cpp, poll_network for session_role  *)
(* 1, MultiplayerManager::setup_client and disconnect, mp-session.gc,      *)
(* mp-bootstrap-controller).                                               *)
(*                                                                         *)
(* A frame's mp-session-tick polls the network; between two ticks the      *)
(* menus and the bootstrap controller run.  Time is abstract: a deadline   *)
(* may pass at any poll.  The host and ENet choose what arrives.  The      *)
(* chase that exempts a player from the bootstrap (mp-tomb-boulder.gc),    *)
(* the search for a host and the debug switch that stops receiving are     *)
(* left out; countdown and readiness are Lobby's.                          *)
(***************************************************************************)
EXTENDS Integers

VARIABLES
  pc,    \* "frame" between two ticks, "poll" in poll_network
  data,  \* MultiplayerData: join_status and the tracking of the reconnection
  link,  \* the transport: no host, the peer's state and how far the handshake is
  game   \* the GOAL side: bootstrap phase, local player's record, recovery flag

vars == <<pc, data, link, game>>

\* MultiplayerStatus, as far as a client with a session has them.
Status == {"idle", "connecting", "connected_lobby", "game_starting", "in_game",
           "reconnecting", "host_left", "failed", "version_mismatch"}

\* mp-session-role-refresh-status?, which mp-session-tick polls in too.
Polled == Status \ {"idle", "failed", "version_mismatch"}

\* The statuses in which a lost transport is to be replaced.
Established == {"connected_lobby", "game_starting", "in_game", "reconnecting"}

\* "none" is ~initialized, "gone" a peer that is disconnected.
Link == {"none", "connecting", "connected", "proved", "welcomed", "refused", "gone"}

\* The last entry of kReconnectDelayMilliseconds.
LastDelay == 4

Reason == {"other", "host_full", "authentication_rejected", "host_closed"}

Init ==
  /\ pc = "frame"
  /\ data = [status |-> "idle", attempt |-> FALSE, waiting |-> FALSE, count |-> 0,
             armed |-> FALSE, invite |-> FALSE, handshake |-> FALSE, assigned |-> FALSE]
  /\ link = "none"
  /\ game = [phase |-> "none", player |-> FALSE, recovering |-> FALSE]

----------------------------------------------------------------------------
(* multiplayer_session.cpp: what the handlers make of MultiplayerData      *)

\* clear_reconnect_tracking
Cleared(d) ==
  [d EXCEPT !.attempt = FALSE, !.waiting = FALSE, !.count = 0, !.armed = FALSE]

\* MultiplayerManager::disconnect with multiplayer_clear_session_state: without
\* a transport the status stays as it is, unless it is kept for a reconnection.
Disconnected(d, preserve) ==
  LET closed == [d EXCEPT
        !.status = IF preserve THEN "reconnecting" ELSE IF link = "none" THEN @ ELSE "idle",
        !.handshake = FALSE]
  IN  IF preserve THEN closed ELSE [Cleared(closed) EXCEPT !.invite = FALSE]

\* multiplayer_enter_client_reconnect
EnterReconnect(d) ==
  IF d.status = "reconnecting" THEN d
  ELSE [d EXCEPT !.status = "reconnecting", !.attempt = FALSE, !.waiting = FALSE, !.armed = TRUE]

\* Seeded fault: no next attempt is scheduled.
NoteFailedUnscheduled(d) ==
  [d EXCEPT !.status = "reconnecting", !.attempt = FALSE, !.waiting = FALSE,
            !.count = IF @ < LastDelay THEN @ + 1 ELSE @]

\* multiplayer_note_client_reconnect_failed
NoteFailed(d) ==
  [d EXCEPT !.status = "reconnecting", !.attempt = FALSE, !.waiting = FALSE, !.armed = TRUE,
            !.count = IF @ < LastDelay THEN @ + 1 ELSE @]

\* Seeded fault: to be accepted is taken for success.
NoteAuthenticatedAsDone(d) ==
  [d EXCEPT !.attempt = FALSE, !.waiting = d.attempt \/ d.waiting, !.armed = FALSE, !.count = 0]

\* multiplayer_note_client_reconnect_authenticated
NoteAuthenticated(d) ==
  [d EXCEPT !.attempt = FALSE, !.waiting = d.attempt \/ d.waiting, !.armed = FALSE,
            !.count = IF d.attempt \/ d.waiting THEN @ ELSE 0]

\* multiplayer_set_status
SetStatus(d, status) ==
  LET set == [d EXCEPT !.status = status]
  IN  IF status = "in_game" /\ d.waiting THEN Cleared(set) ELSE set

\* Seeded fault: the reconnection goes on after the host has closed.
HostClosedStillTracking(d) == [d EXCEPT !.status = "host_left"]

\* multiplayer_cancel_client_reconnect, when the host closes the session.
HostClosed(d) == [Cleared(d) EXCEPT !.status = "host_left"]

\* MultiplayerManager::setup_client, whose socket or peer may not be created.
SetUp(d, created) ==
  IF created THEN [d EXCEPT !.status = "connecting", !.assigned = FALSE]
  ELSE [d EXCEPT !.status = "failed"]
LinkSetUp(created) == IF created THEN "connecting" ELSE "none"

\* try_saved_reconnect with multiplayer_note_client_reconnect_attempt_started.
Tried(d, created) ==
  LET again == SetUp(Disconnected(d, TRUE), created)
  IN  IF created THEN [again EXCEPT !.attempt = TRUE, !.waiting = FALSE, !.armed = FALSE] ELSE again

\* mp-session-tick after the poll: the local player is registered when the
\* bridge knows its id, and a lost transport resets the gameplay, once.
Ticked(d) ==
  LET lost == d.status = "reconnecting" /\ ~game.recovering
  IN  [game EXCEPT
        !.player = d.status \in Polled /\ (@ \/ d.assigned) /\ ~lost,
        !.recovering = \/ d.status = "reconnecting"
                       \/ @ /\ d.status \in {"connecting", "connected_lobby", "game_starting"}]

----------------------------------------------------------------------------
(* The frame                                                               *)

\* multiplayer_client_reconnect_due, apart from the time
RetryArmed == data.status = "reconnecting" /\ ~data.attempt /\ data.armed

\* The start of pc_multi_poll when the next attempt is due.
Retry ==
  /\ pc = "frame"
  /\ RetryArmed
  /\ \/ /\ ~data.invite
        /\ data' = [data EXCEPT !.status = "failed"]
        /\ link' = link
     \/ /\ data.invite
        /\ \E created \in BOOLEAN :
             /\ data' = IF created THEN Tried(data, TRUE) ELSE NoteFailed(Tried(data, FALSE))
             /\ link' = LinkSetUp(created)
  /\ IF link' = "none" THEN game' = Ticked(data') /\ UNCHANGED pc
     ELSE pc' = "poll" /\ UNCHANGED game

\* mp-session-tick when no attempt is due: without a transport there is nothing to poll.
BeginPoll ==
  /\ pc = "frame"
  /\ data.status \in Polled
  /\ IF link = "none" THEN game' = Ticked(data) /\ UNCHANGED pc
     ELSE pc' = "poll" /\ UNCHANGED game
  /\ UNCHANGED <<data, link>>

\* mp-session-tick in another status: the controller's records are released.
IdleTick ==
  /\ pc = "frame"
  /\ data.status \notin Polled
  /\ game.player
  /\ game' = [game EXCEPT !.player = FALSE]
  /\ UNCHANGED <<pc, data, link>>

\* mp-bootstrap-client-active?
Active == game.player

\* mp-bootstrap-start-load!
StartLoad ==
  /\ pc = "frame"
  /\ Active
  /\ game.phase = "announced"
  /\ data' = SetStatus(data, "game_starting")
  /\ game' = [game EXCEPT !.phase = "loading"]
  /\ UNCHANGED <<pc, link>>

\* mp-bootstrap-finish!, once the world is there (phases 2 and 3 are "loading").
Finish ==
  /\ pc = "frame"
  /\ Active
  /\ game.phase = "loading"
  /\ data' = SetStatus(data, "in_game")
  /\ game' = [game EXCEPT !.phase = "none"]
  /\ UNCHANGED <<pc, link>>

\* The menus: an invite (connect_private_invite, pc_multi_setup_client) is saved
\* for a reconnection, an address with a room code (mp_direct_connect_start) is
\* not.
Join(saved) ==
  /\ pc = "frame"
  /\ data.status \notin Polled
  /\ ~game.player
  /\ \/ /\ data' = [Disconnected(data, FALSE) EXCEPT !.status = "failed"]
        /\ link' = "none"
     \/ \E created \in BOOLEAN :
          /\ data' = SetUp([Disconnected(data, FALSE) EXCEPT !.invite = saved], created)
          /\ link' = LinkSetUp(created)
  /\ UNCHANGED <<pc, game>>

\* mp-lobby-leave!, and the search menu's cancellation of a join.
Leave ==
  /\ pc = "frame"
  /\ data.status \in {"connecting", "connected_lobby"}
  /\ ~game.recovering
  /\ data' = SetStatus(Disconnected(data, FALSE), "idle")
  /\ link' = "none"
  /\ UNCHANGED <<pc, game>>

\* The reconnect and host-left screens, and the pause menu: pc-multi-disconnect
\* with mp-reset-state.  The reconnect screen stays until the client is back.
QuitGame ==
  /\ pc = "frame"
  /\ data.status \in (IF game.recovering THEN Polled ELSE {"in_game", "host_left"})
  /\ data' = Disconnected(data, FALSE)
  /\ link' = "none"
  /\ game' = [game EXCEPT !.player = FALSE, !.recovering = FALSE]
  /\ UNCHANGED pc

\* The pause menu's Reconnect: pc_multi_reconnect, after the gameplay is reset.
ManualReconnect ==
  /\ pc = "frame"
  /\ data.status \in {"game_starting", "in_game"}
  /\ \/ /\ ~data.invite
        /\ data' = [data EXCEPT !.status = "failed"]
        /\ link' = link
     \/ /\ data.invite
        /\ \E created \in BOOLEAN :
             data' = Tried(data, created) /\ link' = LinkSetUp(created)
  /\ game' = [game EXCEPT !.player = @ /\ game.recovering, !.recovering = TRUE]
  /\ UNCHANGED pc

----------------------------------------------------------------------------
(* poll_network: the events of one poll, in the order ENet gives them      *)

\* Seeded fault: the handshake's clock is not started.
ConnectedUntimed ==
  /\ pc = "poll"
  /\ link = "connecting"
  /\ link' = "connected"
  /\ UNCHANGED <<pc, data, game>>

Connected ==
  /\ pc = "poll"
  /\ link = "connecting"
  /\ link' = "connected"
  /\ data' = [data EXCEPT !.handshake = TRUE]
  /\ UNCHANGED <<pc, game>>

\* Seeded fault: the handshake's clock is stopped.
AnswerNotSentUntimed ==
  /\ pc = "poll"
  /\ link = "connected"
  /\ link' = "gone"
  /\ data' = [data EXCEPT !.handshake = FALSE]
  /\ UNCHANGED <<pc, game>>

\* The proof cannot be sent: the peer is reset, and no event will tell.
AnswerNotSent ==
  /\ pc = "poll"
  /\ link = "connected"
  /\ link' = "gone"
  /\ UNCHANGED <<pc, data, game>>

\* The host's proof authenticates the session.
ReceiveProof ==
  /\ pc = "poll"
  /\ link = "connected"
  /\ link' = "proved"
  /\ data' = [data EXCEPT !.handshake = FALSE]
  /\ UNCHANGED <<pc, game>>

ReceiveVersionMismatch ==
  /\ pc = "poll"
  /\ link = "connected"
  /\ link' = "refused"
  /\ data' = [data EXCEPT !.handshake = FALSE, !.status = "version_mismatch"]
  /\ UNCHANGED <<pc, game>>

\* handle_session_welcome
ReceiveWelcome ==
  /\ pc = "poll"
  /\ link = "proved"
  /\ link' = "welcomed"
  /\ data' = [NoteAuthenticated(data) EXCEPT
       !.status = "connected_lobby", !.assigned = TRUE, !.handshake = FALSE]
  /\ UNCHANGED <<pc, game>>

\* CANCEL_COUNTDOWN and START_GAME.
ReceiveLobbyAction(status) ==
  /\ pc = "poll"
  /\ link = "welcomed"
  /\ data' = [data EXCEPT !.status = status]
  /\ UNCHANGED <<pc, link, game>>

\* mp_handle_bootstrap_packet
ReceiveBootstrap ==
  /\ pc = "poll"
  /\ link = "welcomed"
  /\ game.phase = "none"
  /\ game' = [game EXCEPT !.phase = "announced"]
  /\ UNCHANGED <<pc, data, link>>

\* multiplayer_handle_host_leave
ReceiveHostLeave ==
  /\ pc = "poll"
  /\ link = "welcomed"
  /\ link' = "gone"
  /\ data' = [HostClosed(data) EXCEPT !.handshake = FALSE]
  /\ UNCHANGED <<pc, game>>

\* What a DISCONNECT event with this reason makes of the status and the tracking.
AfterDisconnect(d, reason) ==
  CASE reason \in {"host_full", "authentication_rejected"} -> [d EXCEPT !.status = "failed"]
    [] reason = "host_closed" -> HostClosed(d)
    [] reason = "other" /\ d.status # "version_mismatch" /\ (d.status \in Established \/ d.attempt) ->
         EnterReconnect(d)
    [] OTHER -> [d EXCEPT !.status = IF @ = "version_mismatch" THEN @ ELSE "host_left"]

\* ENET_EVENT_TYPE_DISCONNECT
Disconnect(reason) ==
  /\ pc = "poll"
  /\ link \notin {"none", "gone"}
  /\ link' = "gone"
  /\ data' = AfterDisconnect(data, reason)
  /\ UNCHANGED <<pc, game>>

\* No deadline has passed, and the tick goes on.
EndPoll ==
  /\ pc = "poll"
  /\ pc' = "frame"
  /\ game' = Ticked(data)
  /\ UNCHANGED <<data, link>>

\* multiplayer_handle_client_handshake_timeout
HandshakeTimeout ==
  /\ pc = "poll"
  /\ data.handshake
  /\ pc' = "frame"
  /\ data' = IF data.attempt \/ data.status = "reconnecting" THEN NoteFailed(Disconnected(data, TRUE))
             ELSE Disconnected(data, FALSE)
  /\ link' = "none"
  /\ game' = Ticked(data')

\* multiplayer_update_receive_timeout: the transport stays up until the next attempt.
ReceiveTimeout ==
  /\ pc = "poll"
  /\ link = "welcomed"
  /\ data.status \in {"connected_lobby", "game_starting", "in_game"}
  /\ pc' = "frame"
  /\ data' = EnterReconnect(data)
  /\ game' = Ticked(data')
  /\ UNCHANGED link

----------------------------------------------------------------------------
Network ==
  \/ Connected \/ AnswerNotSent \/ ReceiveProof \/ ReceiveVersionMismatch \/ ReceiveWelcome
  \/ \E status \in {"connected_lobby", "game_starting"} : ReceiveLobbyAction(status)
  \/ ReceiveBootstrap \/ ReceiveHostLeave
  \/ \E reason \in Reason : Disconnect(reason)

Player == (\E saved \in BOOLEAN : Join(saved)) \/ Leave \/ QuitGame \/ ManualReconnect

Next ==
  \/ Retry \/ BeginPoll \/ IdleTick \/ StartLoad \/ Finish
  \/ Player
  \/ Network
  \/ EndPoll \/ HandshakeTimeout \/ ReceiveTimeout

Spec == Init /\ [][Next]_vars

\* ENet ends a connection attempt, or gives the peer up.
TransportAnswers == link = "connecting" /\ (Connected \/ Disconnect("other"))

\* The host, which welcomes an accepted proof in the handler that accepts it or
\* drops the peer there; the client has no deadline of its own for that.
HostAnswers == link = "proved" /\ (ReceiveWelcome \/ Disconnect("other"))

\* Frames go on; a deadline that stays set passes.
Fairness ==
  /\ WF_vars(BeginPoll) /\ WF_vars(EndPoll)
  /\ SF_vars(Retry) /\ SF_vars(HandshakeTimeout)
  /\ SF_vars(TransportAnswers) /\ SF_vars(HostAnswers)

FairSpec == Spec /\ Fairness

----------------------------------------------------------------------------
(* Properties                                                              *)

\* Every variable has its type.
TypeOK ==
  /\ pc \in {"frame", "poll"}
  /\ data \in [status : Status, attempt : BOOLEAN, waiting : BOOLEAN, count : 0 .. LastDelay,
               armed : BOOLEAN, invite : BOOLEAN, handshake : BOOLEAN, assigned : BOOLEAN]
  /\ link \in Link
  /\ game \in [phase : {"none", "announced", "loading"}, player : BOOLEAN, recovering : BOOLEAN]

\* A client never waits for nobody: one that is connecting has a transport that
\* will answer or a handshake that will time out, one in the lobby has a host.
SomebodyWillAnswer ==
  /\ data.status = "connecting" => data.handshake \/ link \in {"connecting", "proved"}
  /\ data.status = "connected_lobby" => link = "welcomed"

\* The tracking of a reconnection and the invite it needs go together: no
\* cleaning up between two attempts loses the invite.
AttemptsHaveInvite == data.attempt \/ data.waiting => data.invite

\* After the host has closed the session nothing that is left of an attempt, no
\* flag and no deadline, makes the client reconnect.
HostLeftIsFinal ==
  [][data.status = "host_left" => data'.status \notin {"reconnecting", "connecting"}]_vars

\* The network does not shorten the back-off, even by accepting the client,
\* unless the session is over: a host that admits and drops is not hammered.
BackoffKept ==
  [][pc = "poll" /\ data'.count < data.count => data'.status \in {"host_left", "idle"}]_vars

\* An attempt to connect comes to an end: until the host's proof whatever the
\* host does, and after it because the host answers (HostAnswers).
ConnectingEnds == (data.status = "connecting") ~> (data.status # "connecting")

\* A client that lost its host tries again as long as it has the invite.
RetryFollows ==
  (data.status = "reconnecting" /\ data.invite) ~> (data.status # "reconnecting" \/ ~data.invite)

\* "If the host leaves, the session is over" (README.md): the client is not in
\* the game again until it has left that session.
HostLeaveIsTerminal ==
  [][data.status = "host_left" => data'.status \in {"host_left", "idle"}]_vars
============================================================================
