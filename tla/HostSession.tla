---------------------------- MODULE HostSession ----------------------------
(***************************************************************************)
(* The host's side of a session (poll_network, handle_receive_packet and   *)
(* expire_pending_handshakes in multiplayer_api.cpp, with the player and   *)
(* event handlers of sync/): what every transport event and every packet   *)
(* of a client does to the peer registry and to the state the host keeps   *)
(* by player id.  The clients and ENet are the environment.                *)
(*                                                                         *)
(* Times are left out: a pending handshake may expire, and a silent peer   *)
(* time out, at any poll.  Packets that a handler ignores change nothing.  *)
(***************************************************************************)
EXTENDS PeerRegistry

CONSTANTS
  MaxSequence,  \* bound: the sequence numbers of a client's packets
  Numbered      \* bound: the ids whose packets' numbers are told apart

ASSUME HostConstants == MaxSequence \in Nat

VARIABLES
  transport,        \* each ENet peer: "closed", "connected", or "leaving" once
                    \* enet_peer_disconnect_later was called
  player_states,    \* player_states: whether the identity is known, and the
                    \* sequence number of the last state, 0 before the first
  last_event,       \* last_event_sequence_by_player
  host_game_active  \* the host's world is running

vars == <<registry, transport, player_states, last_event, host_game_active>>

Sequence == 0 .. MaxSequence
Unknown == [identity_ready |-> FALSE, sequence |-> 0]

\* mp_sequence_is_newer, below the wrap.
IsNewer(incoming, previous) == previous = 0 \/ incoming > previous

\* The players a peer may speak for: its own id, once authenticated
\* (multiplayer_authenticated_sender_player_id, mp_player_id_allowed_from_sender).
\* ENet throws away what still comes from a peer that was told to go.
Speaks(p, s) == s \in SessionsOf(p) /\ s \in Authenticated /\ transport[p] = "connected"
IdOf(s) == registry.sessions[s].player_id

\* What the packets of a session are numbered with; 0 stands for any number.
Numbers(s) == IF IdOf(s) \in Numbered THEN 1 .. MaxSequence ELSE {0}

\* mp_clear_player_slot
ClearPlayerSlot(id) == player_states' = [player_states EXCEPT ![id] = Unknown]

\* enet_peer_disconnect_later, which leaves a peer that is gone alone.
DisconnectLater(p) ==
  transport' = [transport EXCEPT ![p] = IF @ = "closed" THEN @ ELSE "leaving"]
\* enet_peer_disconnect_now resets the peer and reports no event.
DisconnectNow(p) == transport' = [transport EXCEPT ![p] = "closed"]

Init ==
  /\ RegistryInit
  /\ transport = [p \in Peer |-> "closed"]
  /\ player_states = [id \in PlayerId |-> Unknown]
  /\ last_event = [id \in PlayerId |-> 0]
  /\ host_game_active = FALSE

\* ENet connects a client.
Arrives(p) ==
  /\ transport[p] = "closed"
  /\ UNCHANGED <<player_states, last_event, host_game_active>>

\* ENET_EVENT_TYPE_CONNECT: a session is allocated and the challenge sent.
Connect(p) ==
  /\ Arrives(p)
  /\ Allocate(p)
  /\ transport' = [transport EXCEPT ![p] = "connected"]

\* The address is banned, no session can be allocated, or the challenge is
\* not sent and the session released again.
ConnectRefused(p) ==
  /\ Arrives(p)
  /\ transport' = [transport EXCEPT ![p] = "leaving"]
  /\ UNCHANGED registry

\* A handshake packet is dispatched to the session of a connected peer.
Handshake(p, s) ==
  /\ transport[p] = "connected"
  /\ s \in SessionsOf(p)
  /\ Pending(s)
  /\ UNCHANGED <<player_states, last_event, host_game_active>>

\* A valid proof, answered; then the player is admitted and welcomed.
Welcome(p, s) ==
  /\ Handshake(p, s)
  /\ Authenticate(s)
  /\ UNCHANGED transport

\* Seeded fault: the session is not released with its transport.
WelcomeNotSentKept(p, s) ==
  /\ Handshake(p, s)
  /\ Authenticate(s)
  /\ DisconnectNow(p)

\* Admitted, but SESSION_WELCOME cannot be sent.
WelcomeNotSent(p, s) ==
  /\ Handshake(p, s)
  /\ CanAuthenticate(s)
  /\ DisconnectNow(p)
  /\ Release(s)

\* A valid proof when the host is full.
HostFull(p, s) ==
  /\ Handshake(p, s)
  /\ ~CanAuthenticate(s)
  /\ DisconnectLater(p)
  /\ Release(s)

\* A valid proof, of this version or of another, whose answer cannot be sent:
\* the transport is dropped and the session stays.
AnswerNotSent(p, s) ==
  /\ Handshake(p, s)
  /\ DisconnectNow(p)
  /\ UNCHANGED registry

\* A valid proof from another version of the game, answered.
VersionMismatch(p, s) ==
  /\ Handshake(p, s)
  /\ DisconnectLater(p)
  /\ Release(s)

\* Seeded fault: the session goes, the transport stays.
RejectedInSilence(p, s) ==
  /\ Handshake(p, s)
  /\ Release(s)
  /\ UNCHANGED transport

\* Anything else from a peer that is not authenticated.
Rejected(p, s) ==
  /\ Handshake(p, s)
  /\ DisconnectLater(p)
  /\ Release(s)

----------------------------------------------------------------------------
\* EVENT_JOIN with the character that was assigned: mp_handle_join_packet.
Join(p, s) ==
  /\ Speaks(p, s)
  /\ player_states' = [player_states EXCEPT ![IdOf(s)].identity_ready = TRUE]
  /\ Update(s, TRUE, IF host_game_active THEN "pending" ELSE registry.sessions[s].bootstrap)
  /\ UNCHANGED <<transport, last_event, host_game_active>>

\* EVENT_JOIN with another character.
CharacterMismatch(p, s) ==
  /\ Speaks(p, s)
  /\ DisconnectLater(p)
  /\ UNCHANGED <<registry, player_states, last_event, host_game_active>>

\* EVENT_LEAVE
Leave(p, s) ==
  /\ Speaks(p, s)
  /\ ClearPlayerSlot(IdOf(s))
  /\ Update(s, FALSE, registry.sessions[s].bootstrap)
  /\ DisconnectLater(p)
  /\ UNCHANGED <<last_event, host_game_active>>

\* STATE_UPDATE: mp_handle_player_state_packet.  States are lost and reordered,
\* so any number may arrive.  The first state that says IN_GAME after a
\* bootstrap was queued is its acknowledgement.
State(p, s, sequence, in_game) ==
  /\ Speaks(p, s)
  /\ IsNewer(sequence, player_states[IdOf(s)].sequence)
  /\ player_states' = [player_states EXCEPT ![IdOf(s)].sequence = sequence]
  /\ IF in_game /\ registry.sessions[s].bootstrap = "sent"
     THEN Update(s, registry.sessions[s].identity_ready, "idle")
     ELSE UNCHANGED registry
  /\ UNCHANGED <<transport, last_event, host_game_active>>

\* EVENT_GAME: mp_handle_game_event_packet.
Event(p, s, sequence) ==
  /\ Speaks(p, s)
  /\ IsNewer(sequence, last_event[IdOf(s)])
  /\ last_event' = [last_event EXCEPT ![IdOf(s)] = sequence]
  /\ UNCHANGED <<registry, transport, player_states, host_game_active>>

\* Seeded faults: the player's slot is kept; only players who joined are released.
DisconnectKeepsSlot(p) ==
  /\ transport[p] # "closed"
  /\ transport' = [transport EXCEPT ![p] = "closed"]
  /\ \/ \E s \in SessionsOf(p) : Release(s)
     \/ SessionsOf(p) = {} /\ UNCHANGED registry
  /\ UNCHANGED <<player_states, last_event, host_game_active>>
DisconnectOfJoined(p) ==
  /\ transport[p] # "closed"
  /\ transport' = [transport EXCEPT ![p] = "closed"]
  /\ \/ \E s \in SessionsOf(p) :
          /\ registry.sessions[s].identity_ready
          /\ ClearPlayerSlot(IdOf(s))
          /\ Release(s)
     \/ /\ \A s \in SessionsOf(p) : ~registry.sessions[s].identity_ready
        /\ UNCHANGED <<registry, player_states>>
  /\ UNCHANGED <<last_event, host_game_active>>

\* ENET_EVENT_TYPE_DISCONNECT: the peer is gone, with or without a session.
Disconnect(p) ==
  /\ transport[p] # "closed"
  /\ transport' = [transport EXCEPT ![p] = "closed"]
  /\ \/ \E s \in SessionsOf(p) :
          /\ IF s \in Authenticated /\ registry.sessions[s].identity_ready
             THEN ClearPlayerSlot(IdOf(s)) ELSE UNCHANGED player_states
          /\ Release(s)
     \/ /\ SessionsOf(p) = {}
        /\ UNCHANGED <<registry, player_states>>
  /\ UNCHANGED <<last_event, host_game_active>>

----------------------------------------------------------------------------
\* Seeded fault: a session whose transport is gone is left to its DISCONNECT.
ExpireConnectedHandshake(s) ==
  /\ Pending(s)
  /\ transport[registry.sessions[s].peer] # "closed"
  /\ DisconnectLater(registry.sessions[s].peer)
  /\ Release(s)
  /\ UNCHANGED <<player_states, last_event, host_game_active>>

\* expire_pending_handshakes, for one session that is past its deadline.
ExpirePendingHandshake(s) ==
  /\ Pending(s)
  /\ DisconnectLater(registry.sessions[s].peer)
  /\ Release(s)
  /\ UNCHANGED <<player_states, last_event, host_game_active>>

\* The end of poll_network: nothing was received from a player for 10 s.
ReceiveTimeout(s) ==
  /\ s \in Authenticated
  /\ DisconnectLater(registry.sessions[s].peer)
  /\ UNCHANGED <<registry, player_states, last_event, host_game_active>>

\* Seeded fault: a bootstrap is requested for strangers too.
HostInGameForAll ==
  /\ host_game_active' = TRUE
  /\ registry' = [registry EXCEPT !.sessions =
       [s \in Session |-> IF registry.sessions[s].peer # NoPeer
                          THEN [registry.sessions[s] EXCEPT !.bootstrap = "pending"]
                          ELSE registry.sessions[s]]]
  /\ UNCHANGED <<transport, player_states, last_event>>

\* multiplayer_set_status(IN_GAME), and GOAL's later requests.
HostInGame ==
  /\ host_game_active' = TRUE
  /\ RequestBootstrapForAll
  /\ UNCHANGED <<transport, player_states, last_event>>

\* The bootstrap loop of mp_send_player_sync, for one session.
SendBootstrap(s) ==
  /\ host_game_active
  /\ s \in Authenticated
  /\ registry.sessions[s].identity_ready
  /\ registry.sessions[s].bootstrap # "idle"
  /\ transport[registry.sessions[s].peer] = "connected"
  /\ Update(s, TRUE, "sent")
  /\ UNCHANGED <<transport, player_states, last_event, host_game_active>>

\* MultiplayerManager::disconnect and the next setup_host.
Shutdown ==
  /\ ResetAll
  /\ transport' = [p \in Peer |-> "closed"]
  /\ player_states' = [id \in PlayerId |-> Unknown]
  /\ last_event' = [id \in PlayerId |-> 0]
  /\ host_game_active' = FALSE

Next ==
  \/ \E p \in Peer :
       \/ Connect(p) \/ ConnectRefused(p) \/ Disconnect(p)
       \/ \E s \in Session :
            \/ Welcome(p, s) \/ WelcomeNotSent(p, s) \/ HostFull(p, s) \/ AnswerNotSent(p, s)
            \/ VersionMismatch(p, s) \/ Rejected(p, s)
            \/ Join(p, s) \/ CharacterMismatch(p, s) \/ Leave(p, s)
            \/ \E sequence \in Numbers(s) :
                 \/ Event(p, s, sequence)
                 \/ \E in_game \in BOOLEAN : State(p, s, sequence, in_game)
  \/ \E s \in Session : ExpirePendingHandshake(s) \/ ReceiveTimeout(s) \/ SendBootstrap(s)
  \/ HostInGame
  \/ Shutdown

Spec == Init /\ [][Next]_vars

\* pc_multi_poll runs in every frame and a deadline passes; ENet gives up on a
\* peer that does not answer.
Fairness ==
  /\ \A s \in Session : WF_vars(ExpirePendingHandshake(s))
  /\ \A p \in Peer : WF_vars(transport[p] = "leaving" /\ Disconnect(p))

FairSpec == Spec /\ Fairness

----------------------------------------------------------------------------
(* Properties                                                              *)

\* Every variable has its type.
TypeOK ==
  /\ RegistryTypeOK
  /\ transport \in [Peer -> {"closed", "connected", "leaving"}]
  /\ player_states \in [PlayerId -> [identity_ready : BOOLEAN, sequence : Sequence]]
  /\ last_event \in [PlayerId -> Sequence]
  /\ host_game_active \in BOOLEAN

\* A transport the host has not told to go has a session: nobody stays
\* connected, kept alive by ENet's pings, with every packet thrown away.
ConnectedIsServed == \A p \in Peer : transport[p] = "connected" => SessionsOf(p) # {}

\* An authenticated session always has a live transport, whose DISCONNECT
\* event will release it: a player's seat is never lost with its peer.
PlayersAreOnline ==
  \A s \in Authenticated : transport[registry.sessions[s].peer] # "closed"

\* An identity is known for exactly the ids whose session has joined and not
\* left, through every order of joins, leaves, mismatches and disconnects.
NoGhostPlayers ==
  \A id \in PlayerId :
    player_states[id].identity_ready
      <=> \E s \in Authenticated : IdOf(s) = id /\ registry.sessions[s].identity_ready

\* The event handlers use the registry as it is meant to be used.
ImplementsRegistry == RegistrySpec

\* A pending handshake ends, even when its transport is gone and reports
\* nothing any more: it would hold one of the 16 sessions for ever.
HandshakesEnd == \A s \in Session : Pending(s) ~> ~Pending(s)

\* A player who left, or was told to go, gives the seat back, although nothing
\* but the transport's DISCONNECT is heard of that player any more.
SeatsAreFreed ==
  \A s \in Session :
    (s \in Authenticated /\ transport[registry.sessions[s].peer] = "leaving") ~> s \notin Authenticated
============================================================================
