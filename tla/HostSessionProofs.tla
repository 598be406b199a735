------------------------- MODULE HostSessionProofs -------------------------
(***************************************************************************)
(* The registry's and the host's safety for every number of peers,         *)
(* sessions, players and sequence numbers, and every id of the host.       *)
(*                                                                         *)
(* The registry first: the counter is exact, ids are distinct and below    *)
(* the limit, and a peer has one session.  The last one but one rests on   *)
(* the counter: the lowest free id is below the limit because fewer        *)
(* players than that are counted.  Then every handler of the host is shown *)
(* to use the registry as RegistrySpec allows; the registry's invariant    *)
(* then holds of the host, and with it what relates sessions, transports   *)
(* and player states.                                                      *)
(***************************************************************************)
EXTENDS HostSession, FiniteSetTheorems, TLAPS


\* The inductive invariant: the registry's four properties need one another.
RegistryInv ==
  /\ RegistryTypeOK
  /\ CountIsExact
  /\ PlayersAreDistinct
  /\ OneSessionPerPeer

\* The authenticated sessions can be counted.
LEMMA AuthenticatedIsFinite ==
  /\ IsFiniteSet(Authenticated)
  /\ Cardinality(Authenticated) \in Nat
<1>1. IsFiniteSet(Session)
  BY FS_Interval, RegistryConstants DEF Session
<1>2. Authenticated \in SUBSET Session
  BY DEF Authenticated
<1> QED
  BY <1>1, <1>2, FS_Subset, FS_CardinalityType

\* With an open slot by the counter, some id below the limit is free: the
\* pigeonhole argument that multiplayer_host_peer_authenticate relies on when
\* it never compares an id with the limit.
LEMMA FreeIdBelowLimit ==
  ASSUME RegistryInv, OpenPlayerSlot
  PROVE  \E id \in FreeIds : id < PlayerLimit
<1> DEFINE Ids == (0 .. PlayerLimit - 1) \ {HostId}
           Holder == [id \in Ids |->
             CHOOSE s \in Authenticated : registry.sessions[s].player_id = id]
<1>1. IsFiniteSet(Ids) /\ Cardinality(Ids) = PlayerLimit - 1
  <2>1. /\ IsFiniteSet(0 .. PlayerLimit - 1)
        /\ Cardinality(0 .. PlayerLimit - 1) = PlayerLimit
    BY FS_Interval, RegistryConstants
  <2> QED
    BY <2>1, FS_RemoveElement, RegistryConstants
<1>2. SUFFICES ASSUME \A id \in FreeIds : ~(id < PlayerLimit) PROVE FALSE
  OBVIOUS
<1>3. \A id \in Ids : \E s \in Authenticated : registry.sessions[s].player_id = id
  BY <1>2, RegistryConstants DEF FreeIds, PlayerId
<1>4. \A id \in Ids : Holder[id] \in Authenticated /\ registry.sessions[Holder[id]].player_id = id
  BY <1>3
<1>5. Holder \in [Ids -> Authenticated]
  BY <1>4
<1>6. Cardinality(Authenticated) < Cardinality(Ids)
  BY <1>1, RegistryConstants, AuthenticatedIsFinite DEF RegistryInv, CountIsExact, OpenPlayerSlot
<1>7. \E x, y \in Ids : x # y /\ Holder[x] = Holder[y]
  <2> HIDE DEF Ids, Holder
  <2> QED
    BY <1>1, <1>5, <1>6, AuthenticatedIsFinite, FS_PigeonHole
<1> QED
  BY <1>4, <1>7

----------------------------------------------------------------------------
(* One lemma per operation                                                 *)

\* An empty table has all four properties.
LEMMA InitKeepsInv == RegistryInit => RegistryInv
<1> SUFFICES ASSUME RegistryInit PROVE RegistryInv
  OBVIOUS
<1>1. Authenticated = {}
  BY DEF RegistryInit, Authenticated, Vacant
<1>2. RegistryTypeOK
  BY DEF RegistryInit, RegistryTypeOK, SessionsOf, Vacant, HostPeerSession, Bootstrap
<1>3. CountIsExact
  BY <1>1, FS_EmptySet DEF RegistryInit, CountIsExact
<1>4. PlayersAreDistinct
  BY <1>1 DEF PlayersAreDistinct
<1>5. OneSessionPerPeer
  BY DEF RegistryInit, OneSessionPerPeer, Vacant
<1> QED
  BY <1>2, <1>3, <1>4, <1>5 DEF RegistryInv

\* A new session has no player yet.
LEMMA AllocateKeepsInv ==
  ASSUME RegistryInv, NEW peer \in Peer, Allocate(peer)
  PROVE  RegistryInv'
<1>1. PICK s \in SessionsOf(NoPeer) :
        registry' = [registry EXCEPT !.sessions[s] = [Vacant EXCEPT !.peer = peer]]
  BY DEF Allocate
<1> DEFINE new == [Vacant EXCEPT !.peer = peer]
<1>2. /\ s \in Session
      /\ registry.sessions[s] = Vacant
      /\ registry.sessions \in [Session -> HostPeerSession]
      /\ registry.count \in Nat
      /\ registry' = [sessions |-> registry'.sessions, count |-> registry.count]
      /\ registry'.sessions = [registry.sessions EXCEPT ![s] = new]
  BY <1>1 DEF RegistryInv, RegistryTypeOK, SessionsOf
<1>3. /\ new \in HostPeerSession
      /\ new.peer = peer
      /\ ~new.authenticated
      /\ ~Vacant.authenticated
      /\ peer # NoPeer
  BY RegistryConstants DEF Vacant, HostPeerSession, Bootstrap
<1>4. Authenticated' = Authenticated
  BY <1>2, <1>3 DEF Authenticated
<1> HIDE DEF new
<1>5. RegistryTypeOK'
  BY <1>2, <1>3 DEF RegistryInv, RegistryTypeOK, SessionsOf
<1>6. CountIsExact'
  BY <1>2, <1>4 DEF RegistryInv, CountIsExact
<1>7. PlayersAreDistinct'
  BY <1>2, <1>3, <1>4 DEF RegistryInv, PlayersAreDistinct, Authenticated
<1>8. OneSessionPerPeer'
  BY <1>2, <1>3 DEF RegistryInv, OneSessionPerPeer, Allocate, SessionsOf
<1> QED
  BY <1>5, <1>6, <1>7, <1>8 DEF RegistryInv

\* A player who is admitted takes an id that nobody has.
LEMMA AuthenticateKeepsInv ==
  ASSUME RegistryInv, NEW s \in Session, Authenticate(s)
  PROVE  RegistryInv'
<1>1. PICK id \in FreeIds :
        /\ \A other \in FreeIds : id <= other
        /\ registry' = [registry EXCEPT
             !.count = @ + 1,
             !.sessions[s] = [@ EXCEPT !.player_id = id, !.authenticated = TRUE]]
  BY DEF Authenticate
<1> DEFINE old == registry.sessions[s]
           new == [old EXCEPT !.player_id = id, !.authenticated = TRUE]
<1>2. /\ registry.sessions \in [Session -> HostPeerSession]
      /\ registry.count \in Nat
      /\ old \in HostPeerSession
      /\ old.peer # NoPeer
      /\ s \notin Authenticated
  BY DEF RegistryInv, RegistryTypeOK, Authenticate, CanAuthenticate, Pending
<1>3. /\ registry' = [sessions |-> registry'.sessions, count |-> registry'.count]
      /\ registry'.sessions = [registry.sessions EXCEPT ![s] = new]
      /\ registry'.count = registry.count + 1
  BY <1>1 DEF RegistryInv, RegistryTypeOK
<1>4. /\ id \in PlayerId
      /\ id # HostId
      /\ \A t \in Authenticated : registry.sessions[t].player_id # id
  BY DEF FreeIds
<1>5. id < PlayerLimit
  <2>1. PICK other \in FreeIds : other < PlayerLimit
    BY FreeIdBelowLimit DEF Authenticate, CanAuthenticate
  <2> QED
    BY <1>1, <1>4, <2>1, RegistryConstants DEF FreeIds, PlayerId
<1>6. /\ new \in HostPeerSession
      /\ new.authenticated
      /\ new.player_id = id
      /\ new.peer = old.peer
  BY <1>2, <1>4 DEF HostPeerSession
<1> HIDE DEF new, old
<1>7. Authenticated' = Authenticated \union {s}
  BY <1>2, <1>3, <1>6 DEF Authenticated
<1>8. RegistryTypeOK'
  BY <1>2, <1>3, <1>6 DEF RegistryInv, RegistryTypeOK, SessionsOf
<1>9. CountIsExact'
  <2>1. Cardinality(Authenticated \union {s}) = Cardinality(Authenticated) + 1
    BY <1>2, AuthenticatedIsFinite, FS_AddElement
  <2> QED
    BY <1>3, <1>7, <2>1 DEF RegistryInv, CountIsExact
<1>10. PlayersAreDistinct'
  BY <1>2, <1>3, <1>4, <1>5, <1>6, <1>7, RegistryConstants
     DEF RegistryInv, PlayersAreDistinct, Authenticated, PlayerId
<1>11. OneSessionPerPeer'
  BY <1>2, <1>3, <1>6 DEF RegistryInv, OneSessionPerPeer, old
<1> QED
  BY <1>8, <1>9, <1>10, <1>11 DEF RegistryInv

\* The counter is positive when an authenticated session is released, so its
\* guard never hides a decrement.
LEMMA ReleaseKeepsInv ==
  ASSUME RegistryInv, NEW s \in Session, Release(s)
  PROVE  RegistryInv'
<1>1. /\ registry.sessions \in [Session -> HostPeerSession]
      /\ registry.count \in Nat
      /\ registry' = [sessions |-> registry'.sessions, count |-> registry'.count]
      /\ registry'.sessions = [registry.sessions EXCEPT ![s] = Vacant]
      /\ registry'.count = IF registry.sessions[s].authenticated /\ registry.count # 0
                           THEN registry.count - 1 ELSE registry.count
  BY DEF RegistryInv, RegistryTypeOK, Release
<1>2. /\ Vacant \in HostPeerSession
      /\ ~Vacant.authenticated
      /\ Vacant.peer = NoPeer
  BY DEF Vacant, HostPeerSession, Bootstrap
<1>3. Authenticated' = Authenticated \ {s}
  BY <1>1, <1>2 DEF Authenticated
<1>4. s \in Authenticated <=> registry.sessions[s].authenticated
  BY DEF Authenticated
<1>5. CountIsExact'
  <2>1. /\ registry.count = Cardinality(Authenticated)
        /\ Cardinality(Authenticated) = 0 <=> Authenticated = {}
    BY AuthenticatedIsFinite, FS_EmptySet DEF RegistryInv, CountIsExact
  <2>2. Cardinality(Authenticated \ {s}) =
          IF s \in Authenticated THEN Cardinality(Authenticated) - 1
          ELSE Cardinality(Authenticated)
    BY AuthenticatedIsFinite, FS_RemoveElement
  <2> QED
    BY <1>1, <1>3, <1>4, <2>1, <2>2 DEF CountIsExact
<1>6. RegistryTypeOK'
  BY <1>1, <1>2 DEF RegistryInv, RegistryTypeOK, SessionsOf
<1>7. PlayersAreDistinct'
  BY <1>1, <1>3 DEF RegistryInv, PlayersAreDistinct, Authenticated
<1>8. OneSessionPerPeer'
  BY <1>1, <1>2 DEF RegistryInv, OneSessionPerPeer
<1> QED
  BY <1>5, <1>6, <1>7, <1>8 DEF RegistryInv

\* The handlers' own fields leave admission alone.
LEMMA UpdateKeepsInv ==
  ASSUME RegistryInv, NEW s \in Session, NEW identity \in BOOLEAN, NEW bootstrap \in Bootstrap,
         Update(s, identity, bootstrap)
  PROVE  RegistryInv'
<1> DEFINE old == registry.sessions[s]
           new == [old EXCEPT !.identity_ready = identity, !.bootstrap = bootstrap]
<1>1. /\ registry.sessions \in [Session -> HostPeerSession]
      /\ registry.count \in Nat
      /\ old \in HostPeerSession
      /\ old.authenticated
      /\ registry' = [sessions |-> registry'.sessions, count |-> registry.count]
      /\ registry'.sessions = [registry.sessions EXCEPT ![s] = new]
  BY DEF RegistryInv, RegistryTypeOK, Update, Authenticated
<1>2. old.peer # NoPeer
  BY <1>1 DEF RegistryInv, RegistryTypeOK, SessionsOf, Vacant
<1>3. /\ new \in HostPeerSession
      /\ new.authenticated
      /\ new.peer = old.peer
      /\ new.player_id = old.player_id
  BY <1>1 DEF HostPeerSession
<1> HIDE DEF new
<1>4. Authenticated' = Authenticated
  BY <1>1, <1>3 DEF Authenticated
<1>5. RegistryTypeOK'
  BY <1>1, <1>2, <1>3 DEF RegistryInv, RegistryTypeOK, SessionsOf
<1>6. CountIsExact'
  BY <1>1, <1>4 DEF RegistryInv, CountIsExact
<1>7. PlayersAreDistinct'
  BY <1>1, <1>3, <1>4 DEF RegistryInv, PlayersAreDistinct, Authenticated
<1>8. OneSessionPerPeer'
  BY <1>1, <1>3 DEF RegistryInv, OneSessionPerPeer
<1> QED
  BY <1>5, <1>6, <1>7, <1>8 DEF RegistryInv

\* A request for bootstraps touches no member and no id.
LEMMA RequestKeepsInv ==
  ASSUME RegistryInv, RequestBootstrapForAll
  PROVE  RegistryInv'
<1>1. /\ registry.sessions \in [Session -> HostPeerSession]
      /\ registry.count \in Nat
      /\ registry' = [sessions |-> registry'.sessions, count |-> registry.count]
      /\ registry'.sessions =
           [s \in Session |->
              IF registry.sessions[s].authenticated /\ registry.sessions[s].identity_ready
              THEN [registry.sessions[s] EXCEPT !.bootstrap = "pending"]
              ELSE registry.sessions[s]]
  BY DEF RegistryInv, RegistryTypeOK, RequestBootstrapForAll
<1>2. ASSUME NEW s \in Session
      PROVE  /\ registry'.sessions[s] \in HostPeerSession
             /\ registry'.sessions[s].peer = registry.sessions[s].peer
             /\ registry'.sessions[s].authenticated = registry.sessions[s].authenticated
             /\ registry'.sessions[s].player_id = registry.sessions[s].player_id
             /\ ~registry.sessions[s].authenticated =>
                  registry'.sessions[s] = registry.sessions[s]
  <2>1. registry.sessions[s] \in HostPeerSession
    BY <1>1
  <2>2. CASE registry.sessions[s].authenticated /\ registry.sessions[s].identity_ready
    <3>1. registry'.sessions[s] = [registry.sessions[s] EXCEPT !.bootstrap = "pending"]
      BY <1>1, <2>2
    <3>2. registry'.sessions[s] \in HostPeerSession
      BY <2>1, <3>1 DEF HostPeerSession, Bootstrap
    <3>3. /\ registry'.sessions[s].peer = registry.sessions[s].peer
          /\ registry'.sessions[s].authenticated = registry.sessions[s].authenticated
          /\ registry'.sessions[s].player_id = registry.sessions[s].player_id
      BY <2>1, <3>1 DEF HostPeerSession
    <3> QED
      BY <2>2, <3>2, <3>3
  <2>3. CASE ~(registry.sessions[s].authenticated /\ registry.sessions[s].identity_ready)
    BY <1>1, <2>1, <2>3
  <2> QED
    BY <2>2, <2>3
<1>3. Authenticated' = Authenticated
  BY <1>2 DEF Authenticated
<1>4. RegistryTypeOK'
  <2>1. registry'.sessions \in [Session -> HostPeerSession]
    BY <1>1, <1>2
  <2>2. ASSUME NEW s \in Session, registry'.sessions[s].peer = NoPeer
        PROVE  registry'.sessions[s] = Vacant
    <3>1. registry.sessions[s] = Vacant
      BY <1>2, <2>2 DEF RegistryInv, RegistryTypeOK, SessionsOf
    <3> QED
      BY <1>2, <3>1 DEF Vacant
  <2> QED
    BY <1>1, <2>1, <2>2 DEF RegistryTypeOK, SessionsOf
<1>5. CountIsExact'
  BY <1>1, <1>3 DEF RegistryInv, CountIsExact
<1>6. PlayersAreDistinct'
  BY <1>2, <1>3 DEF RegistryInv, PlayersAreDistinct, Authenticated
<1>7. OneSessionPerPeer'
  BY <1>2 DEF RegistryInv, OneSessionPerPeer
<1> QED
  BY <1>4, <1>5, <1>6, <1>7 DEF RegistryInv

\* A reset is a fresh start.
LEMMA ResetKeepsInv ==
  ASSUME ResetAll
  PROVE  RegistryInv'
<1>1. Authenticated' = {}
  BY DEF ResetAll, Authenticated, Vacant
<1>2. RegistryTypeOK'
  BY DEF ResetAll, RegistryTypeOK, SessionsOf, Vacant, HostPeerSession, Bootstrap
<1>3. CountIsExact'
  BY <1>1, FS_EmptySet DEF ResetAll, CountIsExact
<1>4. PlayersAreDistinct'
  BY <1>1 DEF PlayersAreDistinct
<1>5. OneSessionPerPeer'
  BY DEF ResetAll, OneSessionPerPeer, Vacant
<1> QED
  BY <1>2, <1>3, <1>4, <1>5 DEF RegistryInv

\* Whatever call comes next.
LEMMA StepKeepsInv ==
  ASSUME RegistryInv, [RegistryNext]_registry
  PROVE  RegistryInv'
<1>1. ASSUME NEW peer \in Peer, Allocate(peer) PROVE RegistryInv'
  BY <1>1, AllocateKeepsInv
<1>2. ASSUME NEW s \in Session, Authenticate(s) PROVE RegistryInv'
  BY <1>2, AuthenticateKeepsInv
<1>3. ASSUME NEW s \in Session, Release(s) PROVE RegistryInv'
  BY <1>3, ReleaseKeepsInv
<1>4. ASSUME NEW s \in Session, NEW identity \in BOOLEAN, NEW bootstrap \in Bootstrap,
             Update(s, identity, bootstrap)
      PROVE  RegistryInv'
  BY <1>4, UpdateKeepsInv
<1>5. ASSUME RequestBootstrapForAll PROVE RegistryInv'
  BY <1>5, RequestKeepsInv
<1>6. ASSUME ResetAll PROVE RegistryInv'
  BY <1>6, ResetKeepsInv
<1>7. ASSUME UNCHANGED registry PROVE RegistryInv'
  BY <1>7 DEF RegistryInv, RegistryTypeOK, CountIsExact, PlayersAreDistinct,
              OneSessionPerPeer, Authenticated, SessionsOf
<1> QED
  BY <1>1, <1>2, <1>3, <1>4, <1>5, <1>6, <1>7 DEF RegistryNext

----------------------------------------------------------------------------
\* Every history of calls on the registry keeps its four properties
\* (multiplayer_peer_registry.cpp).
THEOREM RegistryInvariant == RegistrySpec => []RegistryInv
<1>1. RegistryInit => RegistryInv
  BY InitKeepsInv
<1>2. RegistryInv /\ [RegistryNext]_registry => RegistryInv'
  BY StepKeepsInv
<1> QED
  BY <1>1, <1>2, PTL DEF RegistrySpec

----------------------------------------------------------------------------
(* The host                                                                *)


\* A session that is not authenticated has not joined: the handlers of joins
\* and leaves act on authenticated sessions only.
PendingIsAnonymous ==
  \A s \in Session : registry.sessions[s].identity_ready => s \in Authenticated

\* The inductive invariant.
IInv ==
  /\ RegistryInv
  /\ TypeOK
  /\ PendingIsAnonymous
  /\ ConnectedIsServed
  /\ PlayersAreOnline
  /\ NoGhostPlayers

----------------------------------------------------------------------------
(* The handlers use the registry as it is meant to be used                 *)

\* What a handler writes in a session's own fields is a value of their types.
LEMMA SessionFields ==
  ASSUME RegistryInv, NEW s \in Session
  PROVE  /\ registry.sessions[s] \in HostPeerSession
         /\ registry.sessions[s].identity_ready \in BOOLEAN
         /\ registry.sessions[s].bootstrap \in Bootstrap
         /\ s \in Authenticated => registry.sessions[s].peer \in Peer
<1>1. registry.sessions[s] \in HostPeerSession
  BY DEF RegistryInv, RegistryTypeOK
<1>2. s \in Authenticated => registry.sessions[s].peer # NoPeer
  BY DEF RegistryInv, RegistryTypeOK, SessionsOf, Authenticated, Vacant
<1> QED
  BY <1>1, <1>2 DEF HostPeerSession

\* Every step of the host is a call on the registry, or none.
LEMMA HostStepIsRegistryStep ==
  ASSUME RegistryInv, [Next]_vars
  PROVE  [RegistryNext]_registry
<1>1. ASSUME NEW p \in Peer, Connect(p) PROVE RegistryNext
  BY <1>1 DEF Connect, RegistryNext
<1>2. ASSUME NEW p \in Peer, ConnectRefused(p) PROVE UNCHANGED registry
  BY <1>2 DEF ConnectRefused
<1>3. ASSUME NEW p \in Peer, Disconnect(p) PROVE [RegistryNext]_registry
  BY <1>3 DEF Disconnect, RegistryNext, SessionsOf
<1>4. ASSUME NEW p \in Peer, NEW s \in Session,
             \/ Welcome(p, s) \/ WelcomeNotSent(p, s) \/ HostFull(p, s) \/ AnswerNotSent(p, s)
             \/ VersionMismatch(p, s) \/ Rejected(p, s)
      PROVE  [RegistryNext]_registry
  BY <1>4 DEF Welcome, WelcomeNotSent, HostFull, AnswerNotSent, VersionMismatch, Rejected,
              RegistryNext
<1>5. ASSUME NEW p \in Peer, NEW s \in Session,
             Join(p, s) \/ CharacterMismatch(p, s) \/ Leave(p, s)
      PROVE  [RegistryNext]_registry
  <2>1. TRUE \in BOOLEAN /\ FALSE \in BOOLEAN /\ "pending" \in Bootstrap
    BY DEF Bootstrap
  <2>2. CASE Join(p, s)
    BY <2>1, <2>2, SessionFields DEF Join, RegistryNext
  <2>3. CASE CharacterMismatch(p, s)
    BY <2>3 DEF CharacterMismatch
  <2>4. CASE Leave(p, s)
    BY <2>1, <2>4, SessionFields DEF Leave, RegistryNext
  <2> QED
    BY <1>5, <2>2, <2>3, <2>4
<1>6. ASSUME NEW p \in Peer, NEW s \in Session, NEW sequence, NEW in_game,
             Event(p, s, sequence) \/ State(p, s, sequence, in_game)
      PROVE  [RegistryNext]_registry
  <2>1. "idle" \in Bootstrap
    BY DEF Bootstrap
  <2> QED
    BY <1>6, <2>1, SessionFields DEF Event, State, RegistryNext
<1>7. ASSUME NEW s \in Session,
             ExpirePendingHandshake(s) \/ ReceiveTimeout(s) \/ SendBootstrap(s)
      PROVE  [RegistryNext]_registry
  <2>1. "sent" \in Bootstrap /\ TRUE \in BOOLEAN
    BY DEF Bootstrap
  <2> QED
    BY <1>7, <2>1 DEF ExpirePendingHandshake, ReceiveTimeout, SendBootstrap, RegistryNext
<1>8. ASSUME HostInGame \/ Shutdown PROVE RegistryNext
  BY <1>8 DEF HostInGame, Shutdown, RegistryNext
<1>9. ASSUME UNCHANGED vars PROVE UNCHANGED registry
  BY <1>9 DEF vars
<1> QED
  BY <1>1, <1>2, <1>3, <1>4, <1>5, <1>6, <1>7, <1>8, <1>9 DEF Next


----------------------------------------------------------------------------
(* What the operations of the registry leave alone                         *)

OthersKept(s) == \A t \in Session \ {s} : registry'.sessions[t] = registry.sessions[t]

\* A new session is a vacant one with a peer.
LEMMA AllocateEffect ==
  ASSUME RegistryInv, NEW p \in Peer, Allocate(p)
  PROVE  \E s \in Session :
           /\ OthersKept(s)
           /\ registry.sessions[s].peer = NoPeer
           /\ s \notin Authenticated
           /\ registry'.sessions[s].peer = p
           /\ ~registry'.sessions[s].authenticated
           /\ ~registry'.sessions[s].identity_ready
<1>1. PICK s \in SessionsOf(NoPeer) :
        registry' = [registry EXCEPT !.sessions[s] = [Vacant EXCEPT !.peer = p]]
  BY DEF Allocate
<1>2. /\ s \in Session
      /\ registry.sessions[s] = Vacant
      /\ registry.sessions \in [Session -> HostPeerSession]
      /\ registry'.sessions = [registry.sessions EXCEPT ![s] = [Vacant EXCEPT !.peer = p]]
  BY <1>1 DEF RegistryInv, RegistryTypeOK, SessionsOf
<1> QED
  BY <1>2 DEF OthersKept, Vacant, Authenticated

\* Admission writes the session's player id and its authenticated flag.
LEMMA AuthenticateEffect ==
  ASSUME RegistryInv, NEW s \in Session, Authenticate(s)
  PROVE  /\ OthersKept(s)
         /\ registry'.sessions[s].peer = registry.sessions[s].peer
         /\ registry'.sessions[s].authenticated
         /\ registry'.sessions[s].identity_ready = registry.sessions[s].identity_ready
<1>1. PICK id \in FreeIds :
        registry' = [registry EXCEPT
             !.count = @ + 1,
             !.sessions[s] = [@ EXCEPT !.player_id = id, !.authenticated = TRUE]]
  BY DEF Authenticate
<1>2. registry.sessions \in [Session -> HostPeerSession]
  BY DEF RegistryInv, RegistryTypeOK
<1>3. registry'.sessions = [registry.sessions EXCEPT
             ![s] = [registry.sessions[s] EXCEPT !.player_id = id, !.authenticated = TRUE]]
  BY <1>1 DEF RegistryInv, RegistryTypeOK
<1> QED
  BY <1>2, <1>3 DEF OthersKept, HostPeerSession

\* A release clears one session.
LEMMA ReleaseEffect ==
  ASSUME RegistryInv, NEW s \in Session, Release(s)
  PROVE  OthersKept(s) /\ registry'.sessions[s] = Vacant
BY DEF RegistryInv, RegistryTypeOK, Release, OthersKept

\* The handlers' update writes identity_ready and the bootstrap fields only.
LEMMA UpdateEffect ==
  ASSUME RegistryInv, NEW s \in Session, NEW identity, NEW bootstrap,
         Update(s, identity, bootstrap)
  PROVE  /\ OthersKept(s)
         /\ registry'.sessions[s].peer = registry.sessions[s].peer
         /\ registry'.sessions[s].authenticated = registry.sessions[s].authenticated
         /\ registry'.sessions[s].player_id = registry.sessions[s].player_id
         /\ registry'.sessions[s].identity_ready = identity
<1>1. registry.sessions \in [Session -> HostPeerSession]
  BY DEF RegistryInv, RegistryTypeOK
<1>2. registry'.sessions = [registry.sessions EXCEPT
             ![s] = [registry.sessions[s] EXCEPT
                       !.identity_ready = identity, !.bootstrap = bootstrap]]
  BY DEF RegistryInv, RegistryTypeOK, Update
<1> QED
  BY <1>1, <1>2 DEF OthersKept, HostPeerSession

\* A request for bootstraps changes none of what the host's invariants read.
LEMMA RequestEffect ==
  ASSUME RegistryInv, RequestBootstrapForAll, NEW s \in Session
  PROVE  /\ registry'.sessions[s].peer = registry.sessions[s].peer
         /\ registry'.sessions[s].authenticated = registry.sessions[s].authenticated
         /\ registry'.sessions[s].player_id = registry.sessions[s].player_id
         /\ registry'.sessions[s].identity_ready = registry.sessions[s].identity_ready
<1>1. registry.sessions[s] \in HostPeerSession
  BY DEF RegistryInv, RegistryTypeOK
<1>2. registry'.sessions[s] = registry.sessions[s]
        \/ registry'.sessions[s] = [registry.sessions[s] EXCEPT !.bootstrap = "pending"]
  BY DEF RequestBootstrapForAll
<1> QED
  BY <1>1, <1>2 DEF HostPeerSession

----------------------------------------------------------------------------
(* What relates sessions, transports and player states                     *)

HostInv == PendingIsAnonymous /\ ConnectedIsServed /\ PlayersAreOnline /\ NoGhostPlayers

\* What these invariants read of a session, and of the player states.
SameMembers ==
  \A s \in Session :
    /\ registry'.sessions[s].peer = registry.sessions[s].peer
    /\ registry'.sessions[s].authenticated = registry.sessions[s].authenticated
    /\ registry'.sessions[s].player_id = registry.sessions[s].player_id
    /\ registry'.sessions[s].identity_ready = registry.sessions[s].identity_ready

SameIdentities ==
  \A id \in PlayerId : player_states'[id].identity_ready = player_states[id].identity_ready

\* A peer is told to go.
Dismissed(p) ==
  \A q \in Peer : transport'[q] = transport[q] \/ (q = p /\ transport'[q] = "leaving")

\* A peer is told to go, or dropped at once: it is not served any more.
Dropped(p) ==
  /\ transport'[p] # "connected"
  /\ \A q \in Peer \ {p} : transport'[q] = transport[q]

\* Telling a peer to go disturbs nothing: its session lives until DISCONNECT.
LEMMA DismissalKeepsInv ==
  ASSUME IInv, RegistryInv', SameMembers, SameIdentities, NEW p, Dismissed(p)
  PROVE  HostInv'
<1>1. Authenticated' = Authenticated
  BY DEF SameMembers, Authenticated
<1>2. \A q : SessionsOf(q)' = SessionsOf(q)
  BY DEF SameMembers, SessionsOf
<1>3. PendingIsAnonymous'
  BY <1>1 DEF IInv, PendingIsAnonymous, SameMembers
<1>4. ConnectedIsServed'
  BY <1>2 DEF IInv, ConnectedIsServed, Dismissed
<1>5. PlayersAreOnline'
  <2> SUFFICES ASSUME NEW s \in Authenticated PROVE transport'[registry.sessions[s].peer] # "closed"
    BY <1>1 DEF PlayersAreOnline, SameMembers, Authenticated
  <2>1. registry.sessions[s].peer \in Peer
    BY SessionFields DEF IInv, Authenticated
  <2> QED
    BY <2>1 DEF IInv, PlayersAreOnline, Dismissed
<1>6. NoGhostPlayers'
  BY <1>1 DEF IInv, NoGhostPlayers, SameMembers, SameIdentities, IdOf, Authenticated
<1> QED
  BY <1>3, <1>4, <1>5, <1>6 DEF HostInv

\* Releasing a session that has no player disturbs nothing either, when its
\* peer is told to go or dropped.
LEMMA RefusalKeepsInv ==
  ASSUME IInv, NEW s \in Session, Pending(s), Release(s), UNCHANGED player_states,
         Dropped(registry.sessions[s].peer)
  PROVE  HostInv'
<1>1. OthersKept(s) /\ registry'.sessions[s] = Vacant
  BY ReleaseEffect DEF IInv
<1>2. Authenticated' = Authenticated
  BY <1>1 DEF OthersKept, Authenticated, Vacant, Pending
<1>3. \A t \in Authenticated : t # s /\ registry'.sessions[t] = registry.sessions[t]
  BY <1>1 DEF Pending, OthersKept, Authenticated
<1>4. PendingIsAnonymous'
  BY <1>1, <1>2 DEF IInv, PendingIsAnonymous, OthersKept, Vacant
<1>5. ConnectedIsServed'
  <2> SUFFICES ASSUME NEW q \in Peer, transport'[q] = "connected" PROVE SessionsOf(q)' # {}
    BY DEF ConnectedIsServed
  <2>1. transport[q] = "connected" /\ q # registry.sessions[s].peer
    BY DEF Dropped
  <2>2. PICK t \in SessionsOf(q) : TRUE
    BY <2>1 DEF IInv, ConnectedIsServed
  <2> QED
    BY <1>1, <2>1, <2>2 DEF SessionsOf, OthersKept
<1>6. PlayersAreOnline'
  <2> SUFFICES ASSUME NEW t \in Authenticated PROVE transport'[registry.sessions[t].peer] # "closed"
    BY <1>2, <1>3 DEF PlayersAreOnline
  <2>1. registry.sessions[t].peer \in Peer
    BY SessionFields DEF IInv, Authenticated
  <2>2. registry.sessions[t].peer # registry.sessions[s].peer
    BY <1>3 DEF IInv, RegistryInv, OneSessionPerPeer, Pending, Authenticated
  <2> QED
    BY <2>1, <2>2 DEF IInv, PlayersAreOnline, Dropped
<1>7. NoGhostPlayers'
  BY <1>2, <1>3 DEF IInv, NoGhostPlayers, IdOf
<1> QED
  BY <1>4, <1>5, <1>6, <1>7 DEF HostInv

\* A peer that connects is served by the session allocated to it.
LEMMA ConnectKeepsInv ==
  ASSUME IInv, NEW p \in Peer, Connect(p)
  PROVE  HostInv'
<1>1. PICK s \in Session :
        /\ OthersKept(s)
        /\ registry.sessions[s].peer = NoPeer
        /\ s \notin Authenticated
        /\ registry'.sessions[s].peer = p
        /\ ~registry'.sessions[s].authenticated
        /\ ~registry'.sessions[s].identity_ready
  BY AllocateEffect DEF IInv, Connect
<1>2. Authenticated' = Authenticated
  BY <1>1 DEF OthersKept, Authenticated
<1>3. \A t \in Authenticated : t # s /\ registry'.sessions[t] = registry.sessions[t]
  BY <1>1 DEF OthersKept, Authenticated
<1>4. /\ \A q \in Peer \ {p} : transport'[q] = transport[q]
      /\ transport'[p] = "connected"
      /\ UNCHANGED player_states
  BY DEF Connect, Arrives, IInv, TypeOK
<1>5. PendingIsAnonymous'
  BY <1>1, <1>2 DEF IInv, PendingIsAnonymous, OthersKept
<1>6. ConnectedIsServed'
  <2> SUFFICES ASSUME NEW q \in Peer, transport'[q] = "connected" PROVE SessionsOf(q)' # {}
    BY DEF ConnectedIsServed
  <2>1. CASE q = p
    BY <1>1, <2>1 DEF SessionsOf
  <2>2. CASE q # p
    <3>1. PICK t \in SessionsOf(q) : TRUE
      BY <1>4, <2>2 DEF IInv, ConnectedIsServed
    <3> QED
      BY <1>1, <3>1, RegistryConstants DEF SessionsOf, OthersKept
  <2> QED
    BY <2>1, <2>2
<1>7. PlayersAreOnline'
  <2> SUFFICES ASSUME NEW t \in Authenticated PROVE transport'[registry.sessions[t].peer] # "closed"
    BY <1>2, <1>3 DEF PlayersAreOnline
  <2>1. registry.sessions[t].peer \in Peer
    BY SessionFields DEF IInv, Authenticated
  <2> QED
    BY <1>4, <2>1 DEF IInv, PlayersAreOnline
<1>8. NoGhostPlayers'
  BY <1>2, <1>3, <1>4 DEF IInv, NoGhostPlayers, IdOf
<1> QED
  BY <1>5, <1>6, <1>7, <1>8 DEF HostInv

\* The player who is admitted has not joined yet, so nobody is known by the id.
LEMMA WelcomeKeepsInv ==
  ASSUME IInv, NEW p \in Peer, NEW s \in Session, Welcome(p, s)
  PROVE  HostInv'
<1>1. /\ transport[p] = "connected"
      /\ s \in SessionsOf(p)
      /\ s \notin Authenticated
      /\ Authenticate(s)
      /\ UNCHANGED <<transport, player_states>>
  BY DEF Welcome, Handshake, Pending
<1>2. /\ OthersKept(s)
      /\ registry'.sessions[s].peer = registry.sessions[s].peer
      /\ registry'.sessions[s].authenticated
      /\ registry'.sessions[s].identity_ready = registry.sessions[s].identity_ready
  BY <1>1, AuthenticateEffect DEF IInv
<1>3. registry.sessions[s].peer = p /\ ~registry.sessions[s].identity_ready
  BY <1>1 DEF IInv, PendingIsAnonymous, SessionsOf
<1>4. Authenticated' = Authenticated \union {s}
  BY <1>1, <1>2 DEF OthersKept, Authenticated
<1>5. \A t \in Authenticated : t # s /\ registry'.sessions[t] = registry.sessions[t]
  BY <1>1, <1>2 DEF OthersKept, Authenticated
<1>6. \A q : SessionsOf(q)' = SessionsOf(q)
  BY <1>2 DEF SessionsOf, OthersKept
<1>7. PendingIsAnonymous'
  BY <1>2, <1>3, <1>4 DEF IInv, PendingIsAnonymous, OthersKept
<1>8. ConnectedIsServed'
  BY <1>1, <1>6 DEF IInv, ConnectedIsServed
<1>9. PlayersAreOnline'
  BY <1>1, <1>2, <1>3, <1>4, <1>5 DEF IInv, PlayersAreOnline
<1>10. NoGhostPlayers'
  BY <1>1, <1>2, <1>3, <1>4, <1>5 DEF IInv, NoGhostPlayers, IdOf
<1> QED
  BY <1>7, <1>8, <1>9, <1>10 DEF HostInv

\* The dropped peer had one session, and that one is pending: it stays, and
\* only expire_pending_handshakes can release it.
LEMMA AnswerNotSentKeepsInv ==
  ASSUME IInv, NEW p \in Peer, NEW s \in Session, AnswerNotSent(p, s)
  PROVE  HostInv'
<1>1. /\ s \in SessionsOf(p) /\ s \notin Authenticated
      /\ UNCHANGED <<registry, player_states>>
      /\ transport' = [transport EXCEPT ![p] = "closed"]
      /\ transport \in [Peer -> {"closed", "connected", "leaving"}]
  BY DEF AnswerNotSent, Handshake, Pending, DisconnectNow, IInv, TypeOK
<1>2. \A t \in Authenticated : registry.sessions[t].peer \in Peer \ {p}
  BY <1>1, SessionFields, RegistryConstants
     DEF IInv, RegistryInv, OneSessionPerPeer, SessionsOf, Authenticated
<1>3. Authenticated' = Authenticated /\ \A q : SessionsOf(q)' = SessionsOf(q)
  BY <1>1 DEF Authenticated, SessionsOf
<1>4. PendingIsAnonymous' /\ NoGhostPlayers'
  BY <1>1, <1>3 DEF IInv, PendingIsAnonymous, NoGhostPlayers, IdOf
<1>5. ConnectedIsServed'
  BY <1>1, <1>3 DEF IInv, ConnectedIsServed
<1>6. PlayersAreOnline'
  BY <1>1, <1>2, <1>3 DEF IInv, PlayersAreOnline
<1> QED
  BY <1>4, <1>5, <1>6 DEF HostInv

\* Only one session speaks for an id.
LEMMA OneHolder ==
  ASSUME IInv, NEW s \in Authenticated, NEW t \in Authenticated, IdOf(s) = IdOf(t)
  PROVE  s = t
BY DEF IInv, RegistryInv, PlayersAreDistinct, IdOf

\* An id of a player indexes the player states.
LEMMA HolderIdIsPlayer ==
  ASSUME IInv, NEW s \in Authenticated
  PROVE  IdOf(s) \in PlayerId
BY RegistryConstants DEF IInv, RegistryInv, PlayersAreDistinct, IdOf, PlayerId

\* A join or a leave writes the session and the player state alike.
LEMMA IdentityUpdateKeepsInv ==
  ASSUME IInv, NEW s \in Authenticated, NEW identity \in BOOLEAN, NEW bootstrap,
         Update(s, identity, bootstrap),
         player_states'[IdOf(s)].identity_ready = identity,
         \A id \in PlayerId \ {IdOf(s)} :
           player_states'[id].identity_ready = player_states[id].identity_ready,
         Dismissed(registry.sessions[s].peer)
  PROVE  HostInv'
<1>1. s \in Session /\ RegistryInv
  BY DEF Authenticated, IInv
<1>2. /\ OthersKept(s)
      /\ registry'.sessions[s].peer = registry.sessions[s].peer
      /\ registry'.sessions[s].authenticated = registry.sessions[s].authenticated
      /\ registry'.sessions[s].player_id = registry.sessions[s].player_id
      /\ registry'.sessions[s].identity_ready = identity
  BY <1>1, UpdateEffect
<1>3. Authenticated' = Authenticated
  BY <1>2 DEF OthersKept, Authenticated
<1>4. \A q : SessionsOf(q)' = SessionsOf(q)
  BY <1>2 DEF OthersKept, SessionsOf
<1>5. \A t \in Authenticated : IdOf(t)' = IdOf(t) /\ registry'.sessions[t].peer = registry.sessions[t].peer
  BY <1>2 DEF OthersKept, Authenticated, IdOf
<1>6. PendingIsAnonymous'
  BY <1>2, <1>3 DEF IInv, PendingIsAnonymous, OthersKept
<1>7. ConnectedIsServed'
  BY <1>4 DEF IInv, ConnectedIsServed, Dismissed
<1>8. PlayersAreOnline'
  <2> SUFFICES ASSUME NEW t \in Authenticated PROVE transport'[registry.sessions[t].peer] # "closed"
    BY <1>3, <1>5 DEF PlayersAreOnline
  <2>1. registry.sessions[t].peer \in Peer
    BY SessionFields DEF IInv, Authenticated
  <2> QED
    BY <2>1 DEF IInv, PlayersAreOnline, Dismissed
<1>9. NoGhostPlayers'
  <2> SUFFICES ASSUME NEW id \in PlayerId
               PROVE  player_states'[id].identity_ready
                        <=> \E t \in Authenticated : IdOf(t) = id /\ registry'.sessions[t].identity_ready
    BY <1>3, <1>5 DEF NoGhostPlayers
  <2>1. CASE id = IdOf(s)
    BY <1>2, <2>1, OneHolder
  <2>2. CASE id # IdOf(s)
    BY <1>2, <2>2 DEF IInv, NoGhostPlayers, OthersKept, Authenticated
  <2> QED
    BY <2>1, <2>2
<1> QED
  BY <1>6, <1>7, <1>8, <1>9 DEF HostInv

\* A peer that is gone takes its session and the player it stood for with it.
LEMMA DisconnectKeepsInv ==
  ASSUME IInv, NEW p \in Peer, Disconnect(p)
  PROVE  HostInv'
<1>1. /\ transport \in [Peer -> {"closed", "connected", "leaving"}]
      /\ transport' = [transport EXCEPT ![p] = "closed"]
      /\ player_states \in [PlayerId -> [identity_ready : BOOLEAN, sequence : Sequence]]
  BY DEF Disconnect, IInv, TypeOK
<1>2. CASE SessionsOf(p) = {}
  <2>1. UNCHANGED <<registry, player_states>>
    BY <1>2 DEF Disconnect
  <2>2. Authenticated' = Authenticated /\ \A q : SessionsOf(q)' = SessionsOf(q)
    BY <2>1 DEF Authenticated, SessionsOf
  <2>3. PendingIsAnonymous' /\ NoGhostPlayers'
    BY <2>1, <2>2 DEF IInv, PendingIsAnonymous, NoGhostPlayers, IdOf
  <2>4. ConnectedIsServed'
    BY <1>1, <2>2 DEF IInv, ConnectedIsServed
  <2>5. PlayersAreOnline'
    BY <1>1, <1>2, <2>1, <2>2, SessionFields DEF IInv, PlayersAreOnline, SessionsOf, Authenticated
  <2> QED
    BY <2>3, <2>4, <2>5 DEF HostInv
<1>3. ASSUME NEW s \in SessionsOf(p), Release(s),
             IF s \in Authenticated /\ registry.sessions[s].identity_ready
             THEN ClearPlayerSlot(IdOf(s)) ELSE UNCHANGED player_states
      PROVE  HostInv'
  <2>1. s \in Session /\ registry.sessions[s].peer = p
    BY DEF SessionsOf
  <2>2. OthersKept(s) /\ registry'.sessions[s] = Vacant
    BY <1>3, <2>1, ReleaseEffect DEF IInv
  <2>3. Authenticated' = Authenticated \ {s}
    BY <2>2 DEF OthersKept, Authenticated, Vacant
  <2>4. \A t \in Authenticated \ {s} : registry'.sessions[t] = registry.sessions[t]
    BY <2>2 DEF OthersKept, Authenticated
  <2>5. PendingIsAnonymous'
    BY <2>2, <2>3 DEF IInv, PendingIsAnonymous, OthersKept, Vacant
  <2>6. ConnectedIsServed'
    <3> SUFFICES ASSUME NEW q \in Peer, transport'[q] = "connected" PROVE SessionsOf(q)' # {}
      BY DEF ConnectedIsServed
    <3>1. transport[q] = "connected" /\ q # p
      BY <1>1
    <3>2. PICK t \in SessionsOf(q) : TRUE
      BY <3>1 DEF IInv, ConnectedIsServed
    <3> QED
      BY <2>1, <2>2, <3>1, <3>2 DEF SessionsOf, OthersKept
  <2>7. PlayersAreOnline'
    <3> SUFFICES ASSUME NEW t \in Authenticated \ {s}
                 PROVE  transport'[registry.sessions[t].peer] # "closed"
      BY <2>3, <2>4 DEF PlayersAreOnline
    <3>1. registry.sessions[t].peer \in Peer /\ t \in Session
      BY SessionFields DEF IInv, Authenticated
    <3>2. registry.sessions[t].peer # p
      BY <2>1, <3>1, RegistryConstants DEF IInv, RegistryInv, OneSessionPerPeer
    <3> QED
      BY <1>1, <3>1, <3>2 DEF IInv, PlayersAreOnline
  <2>8. NoGhostPlayers'
    <3> SUFFICES ASSUME NEW id \in PlayerId
                 PROVE  player_states'[id].identity_ready
                          <=> \E t \in Authenticated \ {s} :
                                IdOf(t) = id /\ registry.sessions[t].identity_ready
      BY <2>3, <2>4 DEF NoGhostPlayers, IdOf
    <3>1. player_states[id].identity_ready
            <=> \E t \in Authenticated : IdOf(t) = id /\ registry.sessions[t].identity_ready
      BY DEF IInv, NoGhostPlayers
    <3>2. CASE s \in Authenticated /\ registry.sessions[s].identity_ready
      <4>1. ClearPlayerSlot(IdOf(s))
        BY <1>3, <3>2
      <4>2. CASE id = IdOf(s)
        <5>1. ~player_states'[id].identity_ready
          BY <1>1, <4>1, <4>2 DEF ClearPlayerSlot, Unknown
        <5> QED
          BY <3>2, <4>2, <5>1, OneHolder
      <4>3. CASE id # IdOf(s)
        <5>1. player_states'[id] = player_states[id]
          BY <1>1, <4>1, <4>3 DEF ClearPlayerSlot
        <5> QED
          BY <3>1, <4>3, <5>1
      <4> QED
        BY <4>2, <4>3
    <3>3. CASE ~(s \in Authenticated /\ registry.sessions[s].identity_ready)
      <4>1. UNCHANGED player_states
        BY <1>3, <3>3
      <4> QED
        BY <3>1, <3>3, <4>1
    <3> QED
      BY <3>2, <3>3
  <2> QED
    BY <2>5, <2>6, <2>7, <2>8 DEF HostInv
<1> QED
  BY <1>2, <1>3 DEF Disconnect

\* Nothing survives the end of the session.
LEMMA ShutdownKeepsInv ==
  ASSUME Shutdown
  PROVE  HostInv'
<1>1. Authenticated' = {}
  BY DEF Shutdown, ResetAll, Authenticated, Vacant
<1>2. PendingIsAnonymous'
  BY DEF Shutdown, ResetAll, PendingIsAnonymous, Vacant
<1>3. ConnectedIsServed'
  BY DEF Shutdown, ConnectedIsServed
<1>4. PlayersAreOnline'
  BY <1>1 DEF PlayersAreOnline
<1>5. NoGhostPlayers'
  BY <1>1 DEF Shutdown, NoGhostPlayers, Unknown
<1> QED
  BY <1>2, <1>3, <1>4, <1>5 DEF HostInv

\* Before the first connection there is nobody.
LEMMA InitKeepsHostInv ==
  ASSUME Init
  PROVE  IInv
<1>1. Authenticated = {}
  BY DEF Init, RegistryInit, Authenticated, Vacant
<1>2. RegistryInv
  BY InitKeepsInv DEF Init
<1>3. TypeOK
  <2>1. 0 \in Sequence
    BY HostConstants DEF Sequence
  <2>2. [p \in Peer |-> "closed"] \in [Peer -> {"closed", "connected", "leaving"}]
    OBVIOUS
  <2>3. [id \in PlayerId |-> Unknown] \in [PlayerId -> [identity_ready : BOOLEAN, sequence : Sequence]]
    BY <2>1 DEF Unknown
  <2>4. [id \in PlayerId |-> 0] \in [PlayerId -> Sequence]
    BY <2>1
  <2> QED
    BY <1>2, <2>2, <2>3, <2>4 DEF Init, TypeOK, RegistryInv
<1>4. PendingIsAnonymous /\ PlayersAreOnline
  BY <1>1 DEF Init, RegistryInit, PendingIsAnonymous, PlayersAreOnline, Vacant
<1>5. ConnectedIsServed
  BY DEF Init, ConnectedIsServed
<1>6. NoGhostPlayers
  BY <1>1 DEF Init, NoGhostPlayers, Unknown
<1> QED
  BY <1>2, <1>3, <1>4, <1>5, <1>6 DEF IInv

\* A packet from a player's own peer: what the packet handlers rely on.
LEMMA SpeakerHasId ==
  ASSUME IInv, NEW p \in Peer, NEW s \in Session, Speaks(p, s)
  PROVE  /\ s \in Authenticated
         /\ registry.sessions[s].peer = p
         /\ IdOf(s) \in PlayerId
BY HolderIdIsPlayer DEF Speaks, SessionsOf

\* The types that the step lemmas need of the host's own variables.
LEMMA PlayerStatesTyped ==
  ASSUME IInv
  PROVE  /\ transport \in [Peer -> {"closed", "connected", "leaving"}]
         /\ player_states \in [PlayerId -> [identity_ready : BOOLEAN, sequence : Sequence]]
         /\ last_event \in [PlayerId -> Sequence]
BY DEF IInv, TypeOK

\* disconnect_later and disconnect_now write one peer.
LEMMA DisconnectLaterDismisses ==
  ASSUME IInv, NEW p \in Peer, DisconnectLater(p)
  PROVE  /\ Dismissed(p)
         /\ Dropped(p)
         /\ transport' \in [Peer -> {"closed", "connected", "leaving"}]
BY PlayerStatesTyped DEF DisconnectLater, Dismissed, Dropped

\* The session of a peer that has not answered its challenge is released.
LEMMA HandshakeStepKeepsInv ==
  ASSUME IInv, NEW p \in Peer, NEW s \in Session,
         \/ Welcome(p, s) \/ WelcomeNotSent(p, s) \/ HostFull(p, s) \/ AnswerNotSent(p, s)
         \/ VersionMismatch(p, s) \/ Rejected(p, s)
  PROVE  HostInv'
<1>1. CASE Welcome(p, s)
  BY <1>1, WelcomeKeepsInv
<1>2. CASE AnswerNotSent(p, s)
  BY <1>2, AnswerNotSentKeepsInv
<1>3. CASE WelcomeNotSent(p, s)
  <2>1. /\ Pending(s) /\ Release(s) /\ UNCHANGED player_states
        /\ registry.sessions[s].peer = p
        /\ DisconnectNow(p)
    BY <1>3 DEF WelcomeNotSent, Handshake, SessionsOf
  <2>2. Dropped(p)
    BY <2>1, PlayerStatesTyped DEF DisconnectNow, Dropped
  <2> QED
    BY <2>1, <2>2, RefusalKeepsInv
<1>4. CASE HostFull(p, s) \/ VersionMismatch(p, s) \/ Rejected(p, s)
  <2>1. /\ Pending(s) /\ Release(s) /\ UNCHANGED player_states
        /\ registry.sessions[s].peer = p
        /\ DisconnectLater(p)
    BY <1>4 DEF HostFull, VersionMismatch, Rejected, Handshake, SessionsOf
  <2> QED
    BY <2>1, DisconnectLaterDismisses, RefusalKeepsInv
<1> QED
  BY <1>1, <1>2, <1>3, <1>4

\* Joins and leaves, and the packets that leave the membership alone.
LEMMA PlayerStepKeepsInv ==
  ASSUME IInv, RegistryInv', NEW p \in Peer, NEW s \in Session,
         \/ Join(p, s) \/ CharacterMismatch(p, s) \/ Leave(p, s)
         \/ \E sequence \in Numbers(s) :
              \/ Event(p, s, sequence)
              \/ \E in_game \in BOOLEAN : State(p, s, sequence, in_game)
  PROVE  HostInv'
<1>1. /\ s \in Authenticated
      /\ registry.sessions[s].peer = p
      /\ IdOf(s) \in PlayerId
  BY SpeakerHasId DEF Join, CharacterMismatch, Leave, Event, State
<1>2. CASE Join(p, s)
  <2>1. /\ player_states' = [player_states EXCEPT ![IdOf(s)].identity_ready = TRUE]
        /\ UNCHANGED transport
        /\ \E bootstrap : Update(s, TRUE, bootstrap)
    BY <1>2 DEF Join
  <2>2. Dismissed(p)
    BY <2>1 DEF Dismissed
  <2>3. /\ player_states'[IdOf(s)].identity_ready = TRUE
        /\ \A id \in PlayerId \ {IdOf(s)} :
             player_states'[id].identity_ready = player_states[id].identity_ready
    BY <1>1, <2>1, PlayerStatesTyped
  <2> QED
    BY <1>1, <2>1, <2>2, <2>3, IdentityUpdateKeepsInv
<1>3. CASE Leave(p, s)
  <2>1. /\ ClearPlayerSlot(IdOf(s))
        /\ DisconnectLater(p)
        /\ Update(s, FALSE, registry.sessions[s].bootstrap)
    BY <1>3 DEF Leave
  <2>2. /\ player_states'[IdOf(s)].identity_ready = FALSE
        /\ \A id \in PlayerId \ {IdOf(s)} :
             player_states'[id].identity_ready = player_states[id].identity_ready
    BY <1>1, <2>1, PlayerStatesTyped DEF ClearPlayerSlot, Unknown
  <2> QED
    BY <1>1, <2>1, <2>2, DisconnectLaterDismisses, IdentityUpdateKeepsInv
<1>4. CASE CharacterMismatch(p, s)
  <2>1. SameMembers /\ SameIdentities
    BY <1>4 DEF CharacterMismatch, SameMembers, SameIdentities
  <2>2. Dismissed(p)
    BY <1>4, DisconnectLaterDismisses DEF CharacterMismatch
  <2> QED
    BY <2>1, <2>2, DismissalKeepsInv
<1>5. ASSUME NEW sequence \in Numbers(s), Event(p, s, sequence)
      PROVE  HostInv'
  <2>1. UNCHANGED <<registry, transport, player_states>>
    BY <1>5 DEF Event
  <2>2. SameMembers /\ SameIdentities /\ Dismissed(p)
    BY <2>1 DEF SameMembers, SameIdentities, Dismissed
  <2> QED
    BY <2>2, DismissalKeepsInv
<1>6. ASSUME NEW sequence \in Numbers(s), NEW in_game \in BOOLEAN,
             State(p, s, sequence, in_game)
      PROVE  HostInv'
  <2>1. SameMembers
    <3>1. CASE UNCHANGED registry
      BY <3>1 DEF SameMembers
    <3>2. CASE Update(s, registry.sessions[s].identity_ready, "idle")
      BY <3>2, UpdateEffect DEF IInv, SameMembers, OthersKept
    <3> QED
      BY <1>6, <3>1, <3>2 DEF State
  <2>2. SameIdentities /\ Dismissed(p)
    BY <1>1, <1>6, PlayerStatesTyped DEF State, SameIdentities, Dismissed
  <2> QED
    BY <2>1, <2>2, DismissalKeepsInv
<1> QED
  BY <1>2, <1>3, <1>4, <1>5, <1>6

\* The steps the host takes by itself.
LEMMA HostStepKeepsInv ==
  ASSUME IInv, RegistryInv',
         \/ \E p \in Peer : ConnectRefused(p)
         \/ \E s \in Session : ExpirePendingHandshake(s) \/ ReceiveTimeout(s) \/ SendBootstrap(s)
         \/ HostInGame
         \/ UNCHANGED vars
  PROVE  HostInv'
<1>1. ASSUME NEW p \in Peer, ConnectRefused(p) PROVE HostInv'
  <2>1. SameMembers /\ SameIdentities /\ Dismissed(p)
    BY <1>1, PlayerStatesTyped DEF ConnectRefused, Arrives, SameMembers, SameIdentities, Dismissed
  <2> QED
    BY <2>1, DismissalKeepsInv
<1>2. ASSUME NEW s \in Session, ExpirePendingHandshake(s) PROVE HostInv'
  <2>1. Pending(s) /\ Release(s) /\ UNCHANGED player_states /\ DisconnectLater(registry.sessions[s].peer)
    BY <1>2 DEF ExpirePendingHandshake
  <2>2. registry.sessions[s].peer \in Peer
    BY <2>1, SessionFields DEF IInv, Pending, HostPeerSession
  <2> QED
    BY <2>1, <2>2, DisconnectLaterDismisses, RefusalKeepsInv
<1>3. ASSUME NEW s \in Session, ReceiveTimeout(s) PROVE HostInv'
  <2>1. SameMembers /\ SameIdentities
    BY <1>3 DEF ReceiveTimeout, SameMembers, SameIdentities
  <2>2. Dismissed(registry.sessions[s].peer)
    BY <1>3, DisconnectLaterDismisses, SessionFields DEF ReceiveTimeout, IInv
  <2> QED
    BY <2>1, <2>2, DismissalKeepsInv
<1>4. ASSUME NEW s \in Session, SendBootstrap(s) PROVE HostInv'
  <2>1. SameMembers
    <3>1. RegistryInv /\ Update(s, TRUE, "sent") /\ registry.sessions[s].identity_ready
      BY <1>4 DEF IInv, SendBootstrap
    <3>2. registry.sessions[s].identity_ready = TRUE
      BY <3>1, SessionFields DEF HostPeerSession
    <3>3. /\ OthersKept(s)
          /\ registry'.sessions[s].peer = registry.sessions[s].peer
          /\ registry'.sessions[s].authenticated = registry.sessions[s].authenticated
          /\ registry'.sessions[s].player_id = registry.sessions[s].player_id
          /\ registry'.sessions[s].identity_ready = TRUE
      BY <3>1, UpdateEffect
    <3> QED
      BY <3>2, <3>3 DEF SameMembers, OthersKept
  <2>2. SameIdentities /\ Dismissed(NoPeer)
    BY <1>4 DEF SendBootstrap, SameIdentities, Dismissed
  <2> QED
    BY <2>1, <2>2, DismissalKeepsInv
<1>5. ASSUME HostInGame PROVE HostInv'
  <2>1. SameMembers
    BY <1>5, RequestEffect DEF IInv, HostInGame, SameMembers
  <2>2. SameIdentities /\ Dismissed(NoPeer)
    BY <1>5 DEF HostInGame, SameIdentities, Dismissed
  <2> QED
    BY <2>1, <2>2, DismissalKeepsInv
<1>6. ASSUME UNCHANGED vars PROVE HostInv'
  <2>1. SameMembers /\ SameIdentities /\ Dismissed(NoPeer)
    BY <1>6 DEF vars, SameMembers, SameIdentities, Dismissed
  <2> QED
    BY <2>1, DismissalKeepsInv
<1> QED
  BY <1>1, <1>2, <1>3, <1>4, <1>5, <1>6

\* Every step of the host keeps the registry's invariant and the host's.
LEMMA StepKeepsHostInv ==
  ASSUME IInv, [Next]_vars
  PROVE  RegistryInv' /\ HostInv'
<1>1. RegistryInv'
  BY HostStepIsRegistryStep, StepKeepsInv DEF IInv
<1>2. ASSUME NEW p \in Peer, Connect(p) PROVE HostInv'
  BY <1>2, ConnectKeepsInv
<1>3. ASSUME NEW p \in Peer, Disconnect(p) PROVE HostInv'
  BY <1>3, DisconnectKeepsInv
<1>4. ASSUME NEW p \in Peer, NEW s \in Session,
             \/ Welcome(p, s) \/ WelcomeNotSent(p, s) \/ HostFull(p, s) \/ AnswerNotSent(p, s)
             \/ VersionMismatch(p, s) \/ Rejected(p, s)
      PROVE  HostInv'
  BY <1>4, HandshakeStepKeepsInv
<1>5. ASSUME NEW p \in Peer, NEW s \in Session,
             \/ Join(p, s) \/ CharacterMismatch(p, s) \/ Leave(p, s)
             \/ \E sequence \in Numbers(s) :
                  \/ Event(p, s, sequence)
                  \/ \E in_game \in BOOLEAN : State(p, s, sequence, in_game)
      PROVE  HostInv'
  BY <1>1, <1>5, PlayerStepKeepsInv
<1>6. ASSUME \/ \E p \in Peer : ConnectRefused(p)
             \/ \E s \in Session :
                  ExpirePendingHandshake(s) \/ ReceiveTimeout(s) \/ SendBootstrap(s)
             \/ HostInGame
             \/ UNCHANGED vars
      PROVE  HostInv'
  BY <1>1, <1>6, HostStepKeepsInv
<1>7. ASSUME Shutdown PROVE HostInv'
  BY <1>7, ShutdownKeepsInv
<1> QED
  BY <1>1, <1>2, <1>3, <1>4, <1>5, <1>6, <1>7 DEF Next

\* Every step of the host writes values of the right types.
LEMMA StepKeepsTypes ==
  ASSUME IInv, RegistryInv', [Next]_vars
  PROVE  TypeOK'
<1> DEFINE Transports == [Peer -> {"closed", "connected", "leaving"}]
           States == [PlayerId -> [identity_ready : BOOLEAN, sequence : Sequence]]
           Events == [PlayerId -> Sequence]
<1>1. /\ transport \in Transports
      /\ player_states \in States
      /\ last_event \in Events
      /\ host_game_active \in BOOLEAN
      /\ RegistryTypeOK'
  BY DEF IInv, TypeOK, RegistryInv
<1>2. Unknown \in [identity_ready : BOOLEAN, sequence : Sequence] /\ 0 \in Sequence
  BY HostConstants DEF Unknown, Sequence
<1>3. \A id : ClearPlayerSlot(id) => player_states' \in States
  BY <1>1, <1>2 DEF ClearPlayerSlot
<1>4. \A p : DisconnectLater(p) \/ DisconnectNow(p) => transport' \in Transports
  BY <1>1 DEF DisconnectLater, DisconnectNow
<1> DEFINE Typed == /\ transport' \in Transports
                    /\ player_states' \in States
                    /\ last_event' \in Events
                    /\ host_game_active' \in BOOLEAN
<1> SUFFICES Typed
  BY <1>1 DEF TypeOK
<1>5. ASSUME NEW p \in Peer, Connect(p) \/ ConnectRefused(p) PROVE Typed
  BY <1>1, <1>5 DEF Connect, ConnectRefused, Arrives
<1>6. ASSUME NEW p \in Peer, Disconnect(p) PROVE Typed
  <2>1. player_states' \in States
    BY <1>1, <1>3, <1>6 DEF Disconnect
  <2> QED
    BY <1>1, <1>6, <2>1 DEF Disconnect
<1>7. ASSUME NEW p \in Peer, NEW s \in Session,
             \/ Welcome(p, s) \/ WelcomeNotSent(p, s) \/ HostFull(p, s) \/ AnswerNotSent(p, s)
             \/ VersionMismatch(p, s) \/ Rejected(p, s)
      PROVE  Typed
  <2>1. UNCHANGED <<player_states, last_event, host_game_active>>
    BY <1>7 DEF Welcome, WelcomeNotSent, HostFull, AnswerNotSent, VersionMismatch, Rejected, Handshake
  <2>2. transport' \in Transports
    BY <1>1, <1>4, <1>7 DEF Welcome, WelcomeNotSent, HostFull, AnswerNotSent, VersionMismatch, Rejected
  <2> QED
    BY <1>1, <2>1, <2>2
<1>8. ASSUME NEW p \in Peer, NEW s \in Session,
             Join(p, s) \/ CharacterMismatch(p, s) \/ Leave(p, s)
      PROVE  Typed
  <2>1. UNCHANGED <<last_event, host_game_active>>
    BY <1>8 DEF Join, CharacterMismatch, Leave
  <2>2. transport' \in Transports
    BY <1>1, <1>4, <1>8 DEF Join, CharacterMismatch, Leave
  <2>3. player_states' \in States
    <3>1. CASE Join(p, s)
      <4>1. player_states' = [player_states EXCEPT ![IdOf(s)].identity_ready = TRUE]
        BY <3>1 DEF Join
      <4> QED
        BY <1>1, <4>1
    <3>2. CASE CharacterMismatch(p, s) \/ Leave(p, s)
      BY <1>1, <1>3, <3>2 DEF CharacterMismatch, Leave
    <3> QED
      BY <1>8, <3>1, <3>2
  <2> QED
    BY <1>1, <2>1, <2>2, <2>3
<1>9. ASSUME NEW p \in Peer, NEW s \in Session, NEW sequence \in Numbers(s),
             Event(p, s, sequence) \/ \E in_game \in BOOLEAN : State(p, s, sequence, in_game)
      PROVE  Typed
  <2>1. sequence \in Sequence
    BY HostConstants DEF Sequence, Numbers
  <2>2. CASE Event(p, s, sequence)
    BY <1>1, <2>1, <2>2 DEF Event
  <2>3. ASSUME NEW in_game \in BOOLEAN, State(p, s, sequence, in_game) PROVE Typed
    <3>1. /\ player_states' = [player_states EXCEPT ![IdOf(s)].sequence = sequence]
          /\ UNCHANGED <<transport, last_event, host_game_active>>
      BY <2>3 DEF State
    <3> QED
      BY <1>1, <2>1, <3>1
  <2> QED
    BY <1>9, <2>2, <2>3
<1>10. ASSUME NEW s \in Session, ExpirePendingHandshake(s) \/ ReceiveTimeout(s) \/ SendBootstrap(s)
       PROVE  Typed
  <2>1. UNCHANGED <<player_states, last_event, host_game_active>>
    BY <1>10 DEF ExpirePendingHandshake, ReceiveTimeout, SendBootstrap
  <2>2. transport' \in Transports
    BY <1>1, <1>4, <1>10 DEF ExpirePendingHandshake, ReceiveTimeout, SendBootstrap
  <2> QED
    BY <1>1, <2>1, <2>2
<1>11. ASSUME HostInGame \/ Shutdown PROVE Typed
  BY <1>1, <1>2, <1>11 DEF HostInGame, Shutdown
<1>12. ASSUME UNCHANGED vars PROVE Typed
  BY <1>1, <1>12 DEF vars
<1> QED
  BY <1>5, <1>6, <1>7, <1>8, <1>9, <1>10, <1>11, <1>12 DEF Next

----------------------------------------------------------------------------
(* The theorems                                                            *)

\* The inductive invariant holds in every state the host can be in.
THEOREM HostInvariant == Spec => []IInv
<1>1. Init => IInv
  BY InitKeepsHostInv
<1>2. IInv /\ [Next]_vars => IInv'
  BY StepKeepsHostInv, StepKeepsTypes DEF IInv, HostInv
<1> QED
  BY <1>1, <1>2, PTL DEF Spec

\* Every variable of the host keeps its type (poll_network and its handlers).
THEOREM HostTypeCorrect == Spec => []TypeOK
<1>1. IInv => TypeOK
  BY DEF IInv
<1> QED
  BY <1>1, HostInvariant, PTL

\* Every history of the host's handlers is a history of calls on the registry.
THEOREM HostImplementsRegistry == Spec => ImplementsRegistry
<1>1. Init => RegistryInit
  BY DEF Init
<1>2. IInv /\ [Next]_vars => [RegistryNext]_registry
  BY HostStepIsRegistryStep DEF IInv
<1> QED
  BY <1>1, <1>2, HostInvariant, PTL DEF Spec, ImplementsRegistry, RegistrySpec

\* The host's authenticated_peer_count is exact after every sequence of events
\* (multiplayer_host_peer_authenticate and _release).
THEOREM HostCountExact == Spec => []CountIsExact
<1>1. IInv => CountIsExact
  BY DEF IInv, RegistryInv
<1> QED
  BY <1>1, HostInvariant, PTL

\* No two players of the host share an id, and all ids are below the limit
\* (multiplayer_host_peer_authenticate).
THEOREM HostPlayersDistinct == Spec => []PlayersAreDistinct
<1>1. IInv => PlayersAreDistinct
  BY DEF IInv, RegistryInv
<1> QED
  BY <1>1, HostInvariant, PTL

\* A transport has one session at most (multiplayer_host_peer_allocate).
THEOREM HostOneSession == Spec => []OneSessionPerPeer
<1>1. IInv => OneSessionPerPeer
  BY DEF IInv, RegistryInv
<1> QED
  BY <1>1, HostInvariant, PTL

\* Nobody stays connected without a session, whatever the handshake's outcome.
THEOREM HostServesConnected == Spec => []ConnectedIsServed
<1>1. IInv => ConnectedIsServed
  BY DEF IInv
<1> QED
  BY <1>1, HostInvariant, PTL

\* A seat is held by a live transport only, whose DISCONNECT will free it.
THEOREM HostPlayersOnline == Spec => []PlayersAreOnline
<1>1. IInv => PlayersAreOnline
  BY DEF IInv
<1> QED
  BY <1>1, HostInvariant, PTL

\* The identities the host shows are those of sessions that joined and stayed
\* (mp_handle_join_packet, mp_clear_player_slot).
THEOREM HostHasNoGhosts == Spec => []NoGhostPlayers
<1>1. IInv => NoGhostPlayers
  BY DEF IInv
<1> QED
  BY <1>1, HostInvariant, PTL
============================================================================
