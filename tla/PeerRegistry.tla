--------------------------- MODULE PeerRegistry ----------------------------
(***************************************************************************)
(* The host's table of peer sessions (multiplayer_peer_registry.cpp): one  *)
(* session per connected transport, from the challenge that is sent to it  *)
(* until its release, and the player id it holds once it is authenticated. *)
(*                                                                         *)
(* RegistrySpec is what the registry promises to the event handlers that   *)
(* call it, in whatever order they do; HostSession.tla is those handlers.  *)
(***************************************************************************)
EXTENDS Integers, FiniteSets

CONSTANTS
  Peer,         \* ENet's peer structures, which it reuses
  NoPeer,       \* a null peer pointer
  SessionCount, \* kMPMaxHostTransportPeers: 16 in the game
  MaxPlayers,   \* kMPMaxPlayers: 8 in the game
  PlayerLimit,  \* session_player_limit, chosen in setup_host
  HostId        \* host_player_id: 0 in setup_host, the tests use others

\* multiplayer_valid_player_limit, and a host that counts as a player.
ASSUME RegistryConstants ==
  /\ NoPeer \notin Peer
  /\ SessionCount \in Nat
  /\ MaxPlayers \in Nat
  /\ PlayerLimit \in 2 .. MaxPlayers
  /\ HostId \in 0 .. PlayerLimit - 1

VARIABLE registry \* host_peer_sessions and authenticated_peer_count

Session == 1 .. SessionCount
PlayerId == 0 .. MaxPlayers - 1
NoPlayer == MaxPlayers

\* A session's bootstrap_pending and bootstrap_sent_once.
Bootstrap == {"idle", "pending", "sent"}

\* clear_host_peer_session
Vacant == [peer |-> NoPeer, player_id |-> NoPlayer, authenticated |-> FALSE,
           identity_ready |-> FALSE, bootstrap |-> "idle"]

HostPeerSession ==
  [peer : Peer \union {NoPeer}, player_id : PlayerId \union {NoPlayer},
   authenticated : BOOLEAN, identity_ready : BOOLEAN, bootstrap : Bootstrap]

SessionsOf(peer) == {s \in Session : registry.sessions[s].peer = peer}
Authenticated == {s \in Session : registry.sessions[s].authenticated}
Pending(s) == registry.sessions[s].peer # NoPeer /\ s \notin Authenticated

\* multiplayer_host_has_open_player_slot, which trusts the counter.
OpenPlayerSlot == registry.count + 1 < PlayerLimit

FreeIds == (PlayerId \ {HostId}) \ {registry.sessions[s].player_id : s \in Authenticated}

CanAuthenticate(s) ==
  /\ Pending(s)
  /\ OpenPlayerSlot
  /\ FreeIds # {}

----------------------------------------------------------------------------
RegistryInit == registry = [sessions |-> [s \in Session |-> Vacant], count |-> 0]

\* multiplayer_host_peer_allocate: the first session without a peer.
Allocate(peer) ==
  /\ SessionsOf(peer) = {}
  /\ \E s \in SessionsOf(NoPeer) :
       /\ \A t \in SessionsOf(NoPeer) : s <= t
       /\ registry' = [registry EXCEPT !.sessions[s] = [Vacant EXCEPT !.peer = peer]]

\* multiplayer_host_peer_authenticate, called once the session's security layer
\* has accepted the proof of the room code: the lowest player id that neither
\* the host nor an authenticated session has.
Authenticate(s) ==
  /\ CanAuthenticate(s)
  /\ \E id \in FreeIds :
       /\ \A other \in FreeIds : id <= other
       /\ registry' = [registry EXCEPT
            !.count = @ + 1,
            !.sessions[s] = [@ EXCEPT !.player_id = id, !.authenticated = TRUE]]

\* multiplayer_host_peer_release, with its test of the counter.
Release(s) ==
  registry' = [sessions |-> [registry.sessions EXCEPT ![s] = Vacant],
               count |-> IF registry.sessions[s].authenticated /\ registry.count # 0
                         THEN registry.count - 1 ELSE registry.count]

\* The join, leave and bootstrap handlers write these fields of their session.
Update(s, identity, bootstrap) ==
  /\ s \in Authenticated
  /\ registry' = [registry EXCEPT !.sessions[s] =
                    [@ EXCEPT !.identity_ready = identity, !.bootstrap = bootstrap]]

\* multiplayer_host_request_bootstrap_for_all
RequestBootstrapForAll ==
  registry' = [registry EXCEPT !.sessions =
    [s \in Session |->
       IF registry.sessions[s].authenticated /\ registry.sessions[s].identity_ready
       THEN [registry.sessions[s] EXCEPT !.bootstrap = "pending"]
       ELSE registry.sessions[s]]]

\* multiplayer_host_peer_reset_all
ResetAll == registry' = [sessions |-> [s \in Session |-> Vacant], count |-> 0]

RegistryNext ==
  \/ \E peer \in Peer : Allocate(peer)
  \/ \E s \in Session :
       \/ Authenticate(s)
       \/ Release(s)
       \/ \E identity \in BOOLEAN, bootstrap \in Bootstrap : Update(s, identity, bootstrap)
  \/ RequestBootstrapForAll
  \/ ResetAll

RegistrySpec == RegistryInit /\ [][RegistryNext]_registry

----------------------------------------------------------------------------
(* Properties                                                              *)

\* The table holds sessions, and one without a peer is as cleared as at the
\* start, whichever handler left it.
RegistryTypeOK ==
  /\ registry \in [sessions : [Session -> HostPeerSession], count : Nat]
  /\ \A s \in SessionsOf(NoPeer) : registry.sessions[s] = Vacant

\* authenticated_peer_count, which admission reads instead of the table, is
\* the number of authenticated sessions through every release, reset and
\* refused handshake: a session released twice would open a seat too many.
CountIsExact == registry.count = Cardinality(Authenticated)

\* Two authenticated players never share an id, none has the host's, and all
\* ids are below the player limit that sizes the lobby, although ids are
\* handed out over all of kMPMaxPlayers and freed in any order.
PlayersAreDistinct ==
  \A s \in Authenticated :
    /\ registry.sessions[s].player_id \in (0 .. PlayerLimit - 1) \ {HostId}
    /\ \A t \in Authenticated :
         registry.sessions[s].player_id = registry.sessions[t].player_id => s = t

\* A transport has one session at most: multiplayer_host_peer_find, which
\* stops at the first, finds the one that its packets are decrypted with.
OneSessionPerPeer ==
  \A s, t \in Session :
    registry.sessions[s].peer = registry.sessions[t].peer /\ registry.sessions[s].peer # NoPeer
      => s = t
============================================================================
