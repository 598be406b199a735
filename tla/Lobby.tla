------------------------------- MODULE Lobby -------------------------------
(***************************************************************************)
(* From the lobby into the game: readiness, the countdown, the launch and  *)
(* the bootstrap of the clients (LOBBY_ACTION in multiplayer_api.cpp, the  *)
(* lobby menu in mp-lobby-progress.gc, mp-bootstrap-controller).           *)
(*                                                                         *)
(* All of it travels on the reliable CONTROL channel, a sequence per       *)
(* direction; a client that goes loses what it had not sent.  A client is  *)
(* named by its player slot, so a newcomer takes a slot that was left.     *)
(* Handshake and admission are HostSession's; the other players' readiness *)
(* that a client shows, and characters, decide nothing and are left out.   *)
(***************************************************************************)
EXTENDS Integers, Sequences

CONSTANTS
  Client,     \* the player slots that are not the host's
  Countdown,  \* *mp-lobby-countdown-seconds*
  MaxChannel  \* bound: messages under way to a process when more are sent by choice

ASSUME LobbyConstants == Countdown \in Nat /\ MaxChannel \in Nat

VARIABLES
  host,     \* the host's status, lobby_countdown_active and the seconds left
  member,   \* the host's view of each slot
  client,   \* each client's status, countdown, readiness and world
  toHost,   \* what is under way from each client
  toClient  \* what is under way to each client

vars == <<host, member, client, toHost, toClient>>

Nobody == [presence |-> "absent", ready |-> FALSE, bootstrap |-> "idle"]
Out == [status |-> "out", countdown |-> FALSE, ready |-> FALSE, world |-> "none"]

\* MultiplayerManager::broadcast_except: every authenticated peer that is still there.
Listeners == {c \in Client : member[c].presence # "absent" /\ client[c].status # "out"}
Broadcast(targets, messages) ==
  toClient' = [c \in Client |-> IF c \in targets THEN toClient[c] \o messages ELSE toClient[c]]

\* The bound: nobody comes, and no countdown starts, before the clients have
\* heard most of what happened.
Unhurried == \A c \in Client : Len(toClient[c]) < MaxChannel

\* mp-lobby-all-peers-ready?
AllPeersReady == \A c \in Client : member[c].presence = "joined" => member[c].ready

Init ==
  /\ host = [status |-> "lobby", countdown |-> FALSE, seconds |-> 0]
  /\ member = [c \in Client |-> Nobody]
  /\ client = [c \in Client |-> Out]
  /\ toHost = [c \in Client |-> <<>>]
  /\ toClient = [c \in Client |-> <<>>]

----------------------------------------------------------------------------
(* The clients                                                             *)

\* The host's welcome is processed and the client announces its identity.
Enter(c) ==
  /\ client[c].status = "out"
  /\ member[c].presence = "absent"
  /\ toHost[c] = <<>>
  /\ Unhurried
  /\ client' = [client EXCEPT ![c] = [Out EXCEPT !.status = "connected_lobby"]]
  /\ member' = [member EXCEPT ![c].presence = "present"]
  /\ toHost' = [toHost EXCEPT ![c] = <<"EVENT_JOIN">>]
  /\ UNCHANGED <<host, toClient>>

\* mp-lobby-toggle-local-ready!, from the lobby's menu.
ToggleReady(c) ==
  /\ client[c].status = "connected_lobby"
  /\ client[c].world = "none"
  /\ ~client[c].countdown
  /\ Len(toHost[c]) < MaxChannel
  /\ client' = [client EXCEPT ![c].ready = ~@]
  /\ toHost' = [toHost EXCEPT ![c] = Append(@, IF client[c].ready THEN "NOT_READY" ELSE "READY")]
  /\ UNCHANGED <<host, member, toClient>>

\* mp-lobby-leave!, or the process dies and some of what it sent is lost.
Depart(c) ==
  /\ client[c].status # "out"
  /\ client' = [client EXCEPT ![c] = Out]
  /\ toClient' = [toClient EXCEPT ![c] = <<>>]
  /\ \/ toHost' = [toHost EXCEPT ![c] = @ \o <<"EVENT_LEAVE", "DISCONNECT">>]
     \/ \E kept \in 0 .. Len(toHost[c]) :
          toHost' = [toHost EXCEPT ![c] = Append(SubSeq(@, 1, kept), "DISCONNECT")]
  /\ UNCHANGED <<host, member>>

Received(c, message) ==
  /\ toClient[c] # <<>>
  /\ Head(toClient[c]) = message
  /\ toClient' = [toClient EXCEPT ![c] = Tail(@)]
  /\ UNCHANGED <<host, member, toHost>>

ReceiveStartCountdown(c) ==
  /\ Received(c, "START_COUNTDOWN")
  /\ client' = [client EXCEPT ![c].countdown = TRUE]

ReceiveCancelCountdown(c) ==
  /\ Received(c, "CANCEL_COUNTDOWN")
  /\ client' = [client EXCEPT ![c].countdown = FALSE, ![c].status = "connected_lobby"]

ReceiveStartGame(c) ==
  /\ Received(c, "START_GAME")
  /\ client' = [client EXCEPT ![c].countdown = FALSE, ![c].status = "game_starting"]

\* mp_clear_player_slot on a client, for another player who left.
ReceiveLeave(c) ==
  /\ Received(c, "EVENT_LEAVE")
  /\ client' = [client EXCEPT ![c].countdown = FALSE]

\* mp_handle_bootstrap_packet: a bootstrap that is already under way goes on.
ReceiveBootstrap(c) ==
  /\ Received(c, "BOOTSTRAP")
  /\ client' = [client EXCEPT ![c].world = IF @ \in {"none", "running"} THEN "announced" ELSE @]

\* mp-bootstrap-start-load!
StartLoad(c) ==
  /\ client[c].world = "announced"
  /\ client' = [client EXCEPT ![c].world = "loading", ![c].status = "game_starting"]
  /\ UNCHANGED <<host, member, toHost, toClient>>

\* mp-bootstrap-finish!
FinishLoad(c) ==
  /\ client[c].world = "loading"
  /\ client' = [client EXCEPT ![c].world = "running", ![c].status = "in_game"]
  /\ UNCHANGED <<host, member, toHost, toClient>>

----------------------------------------------------------------------------
(* The host                                                                *)

HostReceives(c, message) ==
  /\ toHost[c] # <<>>
  /\ Head(toHost[c]) = message
  /\ toHost' = [toHost EXCEPT ![c] = Tail(@)]

\* Seeded fault: who joins after the launch gets no bootstrap.
HostReceivesJoinUnarmed(c) ==
  /\ HostReceives(c, "EVENT_JOIN")
  /\ member' = [member EXCEPT ![c].presence = "joined", ![c].ready = FALSE]
  /\ UNCHANGED <<host, client, toClient>>

\* mp_handle_join_packet on the host: the record starts afresh.
HostReceivesJoin(c) ==
  /\ HostReceives(c, "EVENT_JOIN")
  /\ member' = [member EXCEPT
       ![c].presence = "joined",
       ![c].ready = FALSE,
       ![c].bootstrap = IF host.status = "in_game" THEN "pending" ELSE @]
  /\ UNCHANGED <<host, client, toClient>>

HostReceivesReady(c, ready) ==
  /\ HostReceives(c, IF ready THEN "READY" ELSE "NOT_READY")
  /\ member' = [member EXCEPT ![c].ready = ready]
  /\ UNCHANGED <<host, client, toClient>>

\* mp_clear_player_slot on the host, and the leave that the others are sent:
\* a departure cancels the countdown.
ClearPlayerSlot(c) ==
  /\ host' = [host EXCEPT !.countdown = FALSE]
  /\ Broadcast(Listeners \ {c},
       IF host.countdown THEN <<"CANCEL_COUNTDOWN", "EVENT_LEAVE">> ELSE <<"EVENT_LEAVE">>)

\* EVENT_LEAVE: the slot is cleared, the transport told to go.
HostReceivesLeave(c) ==
  /\ HostReceives(c, "EVENT_LEAVE")
  /\ ClearPlayerSlot(c)
  /\ member' = [member EXCEPT ![c].presence = "present", ![c].ready = FALSE]
  /\ UNCHANGED client

\* Seeded fault: the record of the slot outlives its player.
HostSeesDisconnectKeepsRecord(c) ==
  /\ HostReceives(c, "DISCONNECT")
  /\ IF member[c].presence = "joined" THEN ClearPlayerSlot(c) ELSE UNCHANGED <<host, toClient>>
  /\ member' = [member EXCEPT ![c].presence = "absent", ![c].bootstrap = "idle"]
  /\ UNCHANGED client

\* ENET_EVENT_TYPE_DISCONNECT.
HostSeesDisconnect(c) ==
  /\ HostReceives(c, "DISCONNECT")
  /\ IF member[c].presence = "joined" THEN ClearPlayerSlot(c) ELSE UNCHANGED <<host, toClient>>
  /\ member' = [member EXCEPT ![c] = Nobody]
  /\ UNCHANGED client

\* mp-lobby-start-countdown!
StartCountdown ==
  /\ host.status = "lobby"
  /\ ~host.countdown
  /\ AllPeersReady
  /\ Unhurried
  /\ host' = [host EXCEPT !.countdown = TRUE, !.seconds = Countdown]
  /\ Broadcast(Listeners, <<"START_COUNTDOWN">>)
  /\ UNCHANGED <<member, client, toHost>>

\* mp-lobby-cancel-countdown!, from the menu.
CancelCountdown ==
  /\ host.status = "lobby"
  /\ host.countdown
  /\ host' = [host EXCEPT !.countdown = FALSE]
  /\ Broadcast(Listeners, <<"CANCEL_COUNTDOWN">>)
  /\ UNCHANGED <<member, client, toHost>>

SecondPasses ==
  /\ host.countdown
  /\ host.seconds > 0
  /\ host' = [host EXCEPT !.seconds = @ - 1]
  /\ UNCHANGED <<member, client, toHost, toClient>>

\* Seeded faults: the clients are not told of a cancellation; a launch waits for
\* the host to press the button.
OnTickCancelsInSilence ==
  /\ host.status = "lobby"
  /\ host.countdown
  /\ ~AllPeersReady \/ host.seconds = 0
  /\ host' = [host EXCEPT
       !.countdown = AllPeersReady,
       !.status = IF host.seconds = 0 THEN "game_starting" ELSE "lobby"]
  /\ Broadcast(Listeners, IF host.seconds = 0 THEN <<"START_GAME">> ELSE <<>>)
  /\ UNCHANGED <<member, client, toHost>>
OnTickOnlyCancels ==
  /\ host.status = "lobby"
  /\ host.countdown
  /\ ~AllPeersReady
  /\ host' = [host EXCEPT !.countdown = FALSE]
  /\ Broadcast(Listeners, <<"CANCEL_COUNTDOWN">>)
  /\ UNCHANGED <<member, client, toHost>>

\* The lobby menu's on-tick while the countdown is active.  What is left of the
\* countdown is read first, so a countdown that is cancelled because somebody
\* is not ready still launches when no time is left.  The launch leaves
\* lobby_countdown_active alone.
OnTick ==
  /\ host.status = "lobby"
  /\ host.countdown
  /\ ~AllPeersReady \/ host.seconds = 0
  /\ host' = [host EXCEPT
       !.countdown = AllPeersReady,
       !.status = IF host.seconds = 0 THEN "game_starting" ELSE "lobby"]
  /\ Broadcast(Listeners, (IF AllPeersReady THEN <<>> ELSE <<"CANCEL_COUNTDOWN">>)
                            \o (IF host.seconds = 0 THEN <<"START_GAME">> ELSE <<>>))
  /\ UNCHANGED <<member, client, toHost>>

\* mp-arm-spawn-sync-state!: the host's world is ready.
HostSpawns ==
  /\ host.status = "game_starting"
  /\ host' = [host EXCEPT !.status = "in_game"]
  /\ member' = [c \in Client |->
       IF member[c].presence = "joined" THEN [member[c] EXCEPT !.bootstrap = "pending"]
       ELSE member[c]]
  /\ UNCHANGED <<client, toHost, toClient>>

\* mp_send_player_sync: a bootstrap is sent until it is acknowledged (bound: the
\* next one when the last has arrived).
SendBootstrap(c) ==
  /\ host.status = "in_game"
  /\ c \in Listeners
  /\ member[c].presence = "joined"
  /\ member[c].bootstrap # "idle"
  /\ ~\E i \in DOMAIN toClient[c] : toClient[c][i] = "BOOTSTRAP"
  /\ member' = [member EXCEPT ![c].bootstrap = "sent"]
  /\ Broadcast({c}, <<"BOOTSTRAP">>)
  /\ UNCHANGED <<host, client, toHost>>

\* mp_handle_player_state_packet: a state that says IN_GAME acknowledges it.
Acknowledge(c) ==
  /\ client[c].status = "in_game"
  /\ member[c].bootstrap = "sent"
  /\ member' = [member EXCEPT ![c].bootstrap = "idle"]
  /\ UNCHANGED <<host, client, toHost, toClient>>

----------------------------------------------------------------------------
ClientReceives(c) ==
  \/ ReceiveStartCountdown(c) \/ ReceiveCancelCountdown(c) \/ ReceiveStartGame(c)
  \/ ReceiveLeave(c) \/ ReceiveBootstrap(c)

HostHandles(c) ==
  \/ HostReceivesJoin(c) \/ HostReceivesLeave(c) \/ HostSeesDisconnect(c)
  \/ \E ready \in BOOLEAN : HostReceivesReady(c, ready)

Next ==
  \/ \E c \in Client :
       \/ Enter(c) \/ ToggleReady(c) \/ Depart(c)
       \/ ClientReceives(c) \/ StartLoad(c) \/ FinishLoad(c)
       \/ HostHandles(c) \/ SendBootstrap(c) \/ Acknowledge(c)
  \/ StartCountdown \/ CancelCountdown \/ SecondPasses \/ OnTick \/ HostSpawns

Spec == Init /\ [][Next]_vars

\* Every process polls and loads on, and time passes; nobody has to press a
\* button, to come or to go.
Fairness ==
  /\ \A c \in Client :
       /\ WF_vars(ClientReceives(c)) /\ WF_vars(HostHandles(c))
       /\ WF_vars(StartLoad(c)) /\ WF_vars(FinishLoad(c)) /\ WF_vars(SendBootstrap(c))
  /\ WF_vars(SecondPasses) /\ WF_vars(OnTick) /\ WF_vars(HostSpawns)

FairSpec == Spec /\ Fairness

----------------------------------------------------------------------------
(* Properties                                                              *)

Message == {"START_COUNTDOWN", "CANCEL_COUNTDOWN", "START_GAME", "EVENT_LEAVE", "BOOTSTRAP"}
Report == {"EVENT_JOIN", "READY", "NOT_READY", "EVENT_LEAVE", "DISCONNECT"}

\* Every variable has its type.
TypeOK ==
  /\ host \in [status : {"lobby", "game_starting", "in_game"}, countdown : BOOLEAN,
               seconds : 0 .. Countdown]
  /\ member \in [Client -> [presence : {"absent", "present", "joined"}, ready : BOOLEAN,
                            bootstrap : {"idle", "pending", "sent"}]]
  /\ client \in [Client -> [status : {"out", "connected_lobby", "game_starting", "in_game"},
                            countdown : BOOLEAN, ready : BOOLEAN,
                            world : {"none", "announced", "loading", "running"}]]
  /\ toHost \in [Client -> Seq(Report)]
  /\ toClient \in [Client -> Seq(Message)]

\* Whether a client will be counting down once it has received everything.
WillCount(c) ==
  LET last == {i \in DOMAIN toClient[c] : toClient[c][i] # "BOOTSTRAP"}
  IN  IF last = {} THEN client[c].countdown
      ELSE \E i \in last : (\A j \in last : j <= i) /\ toClient[c][i] = "START_COUNTDOWN"

\* A client that goes on counting down has a host that counts down too: no
\* cancellation, departure or launch leaves a menu locked behind a countdown
\* that is over.
NoOrphanCountdown ==
  \A c \in Client : WillCount(c) => host.status = "lobby" /\ host.countdown

\* The readiness a client will have on the host once everything has arrived.
WillBeReady(c) ==
  LET last == {i \in DOMAIN toHost[c] : toHost[c][i] # "EVENT_JOIN"}
  IN  IF last = {} THEN member[c].ready
      ELSE \E i \in last : (\A j \in last : j <= i) /\ toHost[c][i] = "READY"

\* The host learns what a player's own menu shows, and a slot that was left is
\* not ready for the next one who takes it.
ReadinessIsTrue == \A c \in Client : WillBeReady(c) = client[c].ready

\* A countdown ends, in a launch or in a cancellation.
CountdownEnds == (host.status = "lobby" /\ host.countdown) ~> ~(host.status = "lobby" /\ host.countdown)

\* Once the host plays, the world of everyone who has joined, before the launch
\* or after it, is loaded, or the client goes: a bootstrap is armed for whoever
\* joins at whatever moment, and repeated until it is acknowledged.
EveryoneLoads ==
  \A c \in Client :
    (host.status = "in_game" /\ member[c].presence = "joined")
      ~> (client[c].world = "running" \/ client[c].status = "out")

\* "everyone in the lobby be will put inside the game" (README.md): whoever has
\* joined gets the status in which players send and apply each other's events.
EveryonePlays ==
  \A c \in Client :
    (host.status = "in_game" /\ member[c].presence = "joined")
      ~> (client[c].status = "in_game" \/ client[c].status = "out")
============================================================================
