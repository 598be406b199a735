# TLA+ models of the Jak and Daxter II multiplayer session

This directory holds the formal models of the multiplayer session layer that this repository
adds to OpenGOAL: `src/game/multiplayer/` (C++, linked into the game's runtime) and
`src/goal_src/jak2/multiplayer/` (GOAL scripts that drive it). The rest of the repository
(compiler, decompiler, kernel, overlord, graphics) is upstream OpenGOAL and is not modelled.

- Parse: `tlasany M.tla`
- Model-check: `tlc -config X.cfg M`
- Check the proofs: `tlapm M.tla`

## 1. Inventory

One process hosts (`session_role` 0), up to seven join (`session_role` 1). Everything below
runs on the game's thread, once per frame: `pc_multi_poll` services ENet and dispatches
packets, `pc_multi_send_*` queue packets, `pc_multi_flush_packet_window` hands the window to
ENet. Only the port-mapping worker and discovery's scanner and responder are threads of their
own, which the game's thread starts, stops and joins.

| component | state | operations | hard parts | what makes it correct |
|---|---|---|---|---|
| inbound event ring (`multiplayer_ring_buffer.h`) | array, head, size | `try_push`, `push_overwrite`, `pop`, `clear` | wrap-around, full ring | a bounded FIFO |
| packet scheduler (`multiplayer_packet_scheduler.cpp`) | four priority deques, packet and byte counters | `enqueue`, `flush`, `clear` | coalescing, eviction at two limits, refusal after eviction | exact counters, limits, one snapshot per stream, reliable packets kept |
| peer registry (`multiplayer_peer_registry.cpp`) | 16 host sessions, `authenticated_peer_count` | allocate, authenticate, release, reset, bootstrap requests | counter beside the table, ids freed in any order | counter exact, ids distinct and below the limit, one session per transport |
| host's event loop (`poll_network`, `handle_receive_packet`) | sessions, ENet peers, `player_states`, event numbers | connect, proof, welcome, join, leave, state, event, disconnect, time-outs | transports that vanish without an event, every step failing, reused ENet peers | no transport without session, no seat without transport, no ghost players |
| lobby and launch (`LOBBY_ACTION`, `mp-lobby-progress.gc`) | readiness, countdown, status | ready, start, cancel, launch, leave | messages under way, three sources of cancellation, late joiners | both sides agree, the launch is what the README says |
| bootstrap (`mp_send_player_sync`, `mp-sync-state.gc`) | pending/sent per session, load phase per client | arm, send, acknowledge, load, finish | join around the launch, repeated sending | everyone's world loads |
| client session and reconnection (`multiplayer_session.cpp`) | status, attempt, back-off | handshake time-out, host leave, receive time-out, retry | 32-bit times, an old transport that still delivers | a client ends connected, failed or retrying |
| relay (`relay_client_packet`) | none | pass on to the others | channels, stream keys | no echo, no cross-talk |
| scenes (`mp-scene-coordinator.gc`, `mp-event-handlers.gc`, `scene.gc`) | cohort, entry, vote and catchup masks, latches, pending start | start, vote, finalize, replay, reconcile, reset | reliable events beside unreliable states, late joins, a host that finalizes for all | skipped when all have voted and not before, on all machines; nobody is left out of the next scene |
| enemy authority (`mp-enemy-sync.gc`, `enemy_sync.cpp`) | record and slot per enemy on each machine | notice, request, yield, acknowledge, reclaim, cull | lost and stale states, requests that cross | one machine drives, and some machine does |
| death, spectating, respawn (`target-death.gc`, `mp-death-spectate.gc`, `mp-respawn-policy.gc`, `mp-puppet.gc`) | countdown, pending announcement and wipe; dying and dead flags of each other player | die, watch, respawn beside a player, wipe the party, start over | events, states and puppets that are made anew do not wait for each other; departures, late joins, a chase | nobody waits for ever, or starts over while a partner lives |
| traffic, airlock, palace-squid and widow streams (`sync/`) | authority map and revision, entity tables | send, receive, clean up | late packets of a former authority | one authority per entity |
| port mapping (`multiplayer_manager.cpp`) | worker thread, stop flag, state | open, refresh, close; start, stop | condition variable, a stop while the router is asked | no mapping is left behind, READY is true, stop returns |
| discovery (`multiplayer_scanner.cpp`) | scanner and responder threads, result | search, stop, answer | result and status written by two threads | a stopped search reports nothing, a search ends |
| security, wire codec, preferences, profile lease, statistics, version | - | - | cryptography, byte layouts, files | covered by unit tests |

`PROJECT.json` lists them with their sources, and under `hazards` every place found in this
code where something can go wrong that a unit test hardly reaches, with the properties that
watch it or the module that is planned for it.

How they interact: the event loop calls the registry for every transport event and the sync
handlers for every packet; the handlers write the host's per-player state, the controller
records that GOAL reads, and queue packets in the scheduler; GOAL's menu reads the readiness
and calls back into `pc_multi_lobby_*`; its bootstrap controller calls `pc_multi_set_status`,
which the host sees in the client's next state packet. Events go through the ring to GOAL,
where scenes and enemies are shared: every machine runs its own copy of the game, and events
and states tell it what the others do with theirs. The menus start and stop searches, hosting and joining;
`disconnect` ends all background threads before it destroys the transport they read.

## 2. Modules

| module | models | role |
|---|---|---|
| `BoundedFifo` | - | abstract specification of the ring |
| `RingBuffer`, `QueuesProofs` | `MultiplayerRingBuffer` | refines `BoundedFifo`; proofs |
| `PacketSchema` | the packet table | priorities and coalescing flags |
| `PacketScheduler`, `QueuesProofs` | `MultiplayerPacketScheduler` | all of enqueue, flush, clear; proofs |
| `PeerRegistry` | the registry's functions | `RegistrySpec`, the contract for its callers |
| `HostSession`, `HostSessionProofs` | the host's handlers | extends `PeerRegistry`, implements `RegistrySpec`; proofs of both |
| `PlayerStreams` | `HostSession` with the processes behind the transports | numbering of game events over reconnections |
| `Lobby`, `LobbyProofs` | readiness, countdown, launch, bootstrap | host and clients with a channel per direction; proofs |
| `ClientSession`, `ClientSessionProofs` | `multiplayer_session.cpp`, the client's half of `poll_network`, `setup_client`, `disconnect`, `mp-session-tick`, the menus that join and leave | one client's status and its way to the host; proofs |
| `PortMapping` | the worker of `start_port_mapping_worker` | a thread, between the places where another may come in |
| `Discovery` | `scan_thread_func`, `discovery_responder_func` | the two threads that find a host |
| `GameThread`, `GameThreadProofs` | start and stop of all three, `disconnect`, `setup_host`, `setup_client`, the menus | composes `PortMapping` and `Discovery`; proofs |
| `SceneCoordinator` | `mp-scene-coordinator.gc`, the scene events, the scene player | host and clients with a queue of events for each pair |
| `EnemyAuthority`, `EnemyAuthorityProofs` | `mp-enemy-sync.gc`, the authority events, the enemy slots | the machines' records of one enemy; proofs |
| `DeathSpectate`, `DeathSpectateProofs` | death, the shared wait, wipes, respawns, the flags that decide them | players with a queue of events for each pair; proofs |
| `MC*` | - | instances for TLC; `MCQueues` holds scheduler and ring |

### State and actions against the code

**RingBuffer.** `m_values`, `m_head`, `m_size` are the class's fields; `result` is what the
call returned. One action per member function; `Contents` is the abstraction.

**PacketScheduler.** A deque is the set of its packets ordered by the ticket each takes when it
is pushed; which deque is a function of the type. `queue.count` and `queue.bytes` are the two
counters, kept separately because every decision reads them. `Enqueue` is the whole of
`enqueue_plain`: coalesce, evict until the packet fits or nothing is left to evict, push or
refuse. Which packets eviction takes is described, not computed: the unreliable ones that the
scan meets first, and no more than needed (`DroppedFirst`, `StopsAt`). The tests'
`enqueue(ENetPacket*)` wrapper adds nothing to the state.

**PeerRegistry.** `registry.sessions` is `host_peer_sessions`, `registry.count` is
`authenticated_peer_count`. `bootstrap` folds `bootstrap_pending` and `bootstrap_sent_once`
(`idle`, `pending`, `sent`). Characters are left out: every player id has a valid one on a
host that was set up. `Update` is what the handlers may write into a session directly.

**HostSession.** `transport` is ENet's state of each peer structure: `leaving` after
`enet_peer_disconnect_later`, `closed` after a DISCONNECT event or `enet_peer_disconnect_now`, which
reports no event. ENet (`src/third-party/enet`) throws away what still comes from a peer that was told to go
(`peer.c:861-862`, `protocol.c:91-97`), so only a connected one `Speaks`. Peer structures are reused by new clients. `player_states` keeps what the host remembers by player id, `last_event` the
event numbers. Each outcome of a handshake packet is an action (`Welcome`, `WelcomeNotSent`,
`HostFull`, `AnswerNotSent`, `VersionMismatch`, `Rejected`); the clients, ENet and the
cryptography decide which one is taken. Deadlines are left out: a pending handshake may expire and a
silent player may time out at any poll. The authentication bans only choose between `Connect`
and `ConnectRefused`.

**PlayerStreams.** Adds `last_out_event_seq` of the process behind each transport.
`ConnectAfresh` is a process that starts counting again, `HostGoesOn` every other step of the
host, which includes a reconnection of the same process.

**Lobby.** The host and its clients with the reliable CONTROL channel as a sequence in each
direction. `member` is the host's record and session of a slot, `client` the process that
holds it. `ClearPlayerSlot` is `mp_clear_player_slot` with the leave that goes to the others.
`OnTick` is the menu's tick: it reads the remaining seconds, then the readiness, then
launches. The host's `seconds` count down one at a time. A client's states travel on the
unreliable channel; only the one that acknowledges a bootstrap matters and `Acknowledge`
takes the client's present status.

**ClientSession.** `pc` tells whether the process is in `poll_network` or between two ticks, where
menus and bootstrap controller run. `data` holds fields of `MultiplayerData`: `status` is
`join_status`, `attempt` is `reconnect_attempt_active`, `waiting` is
`reconnect_waiting_for_bootstrap`, `count` is `reconnect_attempt_count`; `armed`, `invite`,
`handshake` and `assigned` say that `reconnect_next_attempt_time`, `reconnect_invite`,
`client_handshake_started_time` and the local player's id are set. `link` is the peer with the
progress of its handshake (`none` is `~initialized`, `gone` a peer that ENet reports no more).
`game` is GOAL's side: the bootstrap's phase (2 and 3 are `loading`), the local player's
record, and `*mp-reconnect-gameplay-reset?*`. Each helper (`Disconnected`, `EnterReconnect`,
`NoteFailed`, `Tried`, ...) is a function of `multiplayer_session.cpp` or
`multiplayer_manager.cpp` on that record, `Ticked` what `mp-session-tick` does after the poll.
Deadlines are set or not set; one that is set may pass at any poll. The host and ENet are the
environment, free to send anything in any state that the handlers accept; that the host answers an accepted proof
is the one thing assumed of it (`HostAnswers`, below).

**PortMapping.** `worker.pc` is where the thread is, `worker.at` from which of its three places
`wait_for_mapping_stop` was called (the first second, the refresh interval, a retry).
`wait_for` is three steps: it tests its predicate with the mutex held (`WorkerChecks`), goes
to sleep (`WorkerSleeps`), and wakes by time (`WaitTimesOut`) or by a notification. The stop
flag is set and the condition notified without the mutex, so both may fall between test and
sleep: the notification is then lost. `router` is the mapping on the router; `orphaned` is one whose
removal the router refused.

**Discovery.** One action per step of the scanner or the responder that another thread can
tell apart: the status that is tested and then set (`GiveUp`, `Fail`), the result stored under the
mutex and the status published after it (`Answered`, `PublishFound`). `search` is
`stop_search`, `directed_discovery` and `found_ip`, `status` is `join_status`.

**GameThread.** A function of the game's thread is a *program*: the sequence of its steps, taken one
by one from `todo` (`StopSearch`, `Disconnect`, `StartWorker`, ...). A join waits for its thread in
the middle of a frame. The menus start a program when the one before has ended.
`ClientAnswered` is the poll that brings the host's answer; the rest of what a session does
is `ClientSession` and `HostSession`.

**SceneCoordinator.** `machine[p]` is what machine `p` keeps: `scene` and `aborted` of its scene
player, `phase`, `name`, `entered`, `votes`, `caught` of its cohort, `pending` the remote start that it
has yet to show, and of each other player's record whether it is connected (`known`), `scene-state`
(`playing`) and `scene-latched?` (`latched`). Helpers are functions of that record, as in the code.
`Frame` is `mp-sync-scene-tick` with the registration that the scene player repeats each frame.
`Spawned` keeps `*mp-last-scene-name*`, which makes a scene that is shown twice in a row end at
once. `new` says that a scene player has been spawned and has not had a frame (a movie is blacked out for frames before it is shown,
`scene.gc:1097-1100`, `1356-1360`): until then the scene is neither skipped nor over. Events wait in a queue for each pair of machines, at most `Copies` equal ones. States carry
no history: `StateArrives` brings what the sender's machine shows now.

**EnemyAuthority.** `rec[p]` is the authority record, `slot[p]` the entry of `remote-enemies`. A
frame takes the record through the stages of the callback (`Recorded`, `Heard`, `Asked`, `Kept`)
and sends the owner's state to any set of the others. Times are ages: less than 2 seconds, less
than 10, more; `Young` are those that can still change. A request is handled, and acknowledged, whatever else is queued.
Distances, what the enemy notices and the passing of time are inputs of the frame. The
record of an owner nobody else is heard of goes every ten seconds and is made anew, as in the code.

**DeathSpectate.** `phase` is what a player's own machine does: it dies (`dying`), watches
the others (`waiting`, `target-continue` behind the shared countdown) or initializes its game again
(`reset`). `announce` and `wiped` are `*mp-death-respawn-event-pending?*` and
`*mp-death-party-wipe-pending?*`. `conn[p]` and `life[p][q]` are what `p`'s record of `q` says of the
connection and of the flags `dying` and `dead` (`dead` wins where both are set). `seen[q]` stands for
`state-id` of the latest state: states carry no history and reach all machines at once, but late.
`wire[q][p]` is the reliable channel with the events of `q`, in order. `Roaming` bounds which pairs get far from
each other and close again. A puppet that is away
is one that has yet to be made anew; `PuppetRespawns` happens while somebody who is in play moves,
since distances are taken from the target and not from the camera (`mp-remote.gc:100-112`). Leaving is one step with the
frame that clears the stale record on each machine that hears of it; any guest may leave, and the host
needs no part of its own, because events are relayed in order. Who joins makes its puppets from the states it
was sent. `settled` is no variable of the code: it marks the players whose latest death
followed the local policy, whose return nobody announces.

## 3. Runs

| run | configuration | checks | states |
|---|---|---|---|
| `queues` | 2 peers, 2 streams, sizes 1, 3, 5, window of 3 packets and 4 bytes; a ring of 3 slots, 3 values | exact counters within the limits, one snapshot per stream, reliable packets kept; refinement of `BoundedFifo` | 56 231 |
| `host_session` | 3 peers, 3 sessions, limit of 3 players, ids below 4 | registry and host invariants, `RegistrySpec`, handshakes end, seats are freed | 116 992 |
| `lobby` | 2 clients, countdown of 1 s, 2 messages by choice | countdown and readiness agree, countdowns end, everyone loads | 219 930 |
| `client_session` | no constants: all of the state space | nobody waits for nobody, the host's end is final, the back-off is kept, connecting ends, retries follow | 2 125 |
| `game_thread` | 2 queries per search, 2 refreshes | no mapping, thread or result left, no join for ever, searches end | 3 300 |
| `scenes` | host and a client who joins late, one scene, one copy of an event | masks that agree, unanimous, shared and forgotten skips, votes that count, late joiners told | 19 594 |
| `enemy` | host and client, who ask with one event under way per direction | one machine drives and some machine does, the host keeps its fight | 24 810 |
| `death` | 3 players, one pair of whom gets close anew: 2 who may leave or be late, one of them chased, 2 deaths, 1 journey; or no chase, no journey and 3 deaths | nobody hangs, somebody knows, wipes are required and end, respawns beside the living | 758 638 |
| `lobby_demoted` | 2 clients, 1 message by choice | **violated**: `EveryonePlays` | - |
| `events_heard` | 2 peers, 1 seat | **violated**: `EventsAreHeard` | - |
| `client_host_left` | as `client_session` | **violated**: `HostLeaveIsTerminal` | - |
| `scenes_end` | as `scenes` | **violated**: `ScenesEnd` | - |

Types are proved, and `MasksAgree` contains the scenes' type invariant.

Why the bounds are enough. `queues` runs the scheduler or the ring, which share nothing. Three slots let head and write position wrap at different calls.
A window of three packets and four bytes is full by number or by bytes, and holds packets of
two priorities beside a reliable one; the size 5 never fits. Three peers for three sessions and two seats
make the host full with a session left for the client that is refused, and free seats in
another order than they were taken; ids up to 3 are larger than any that may be handed out.
Two clients let one leave, join or turn unready while the other counts down, loads or plays.
`MaxTickets` bounds what is accepted between two flushes, `MaxSequence` the packet numbers,
and `MaxChannel` (with `Unhurried`) the voluntary messages: nobody toggles, joins or starts a
countdown while a channel is that long, but no reaction is ever held back. `ClientSession` has
no bound: its one counter stops at the last entry of the table of delays, as in the code. Two
queries let the stop come before, between and after them, two refreshes let one fail and the
next succeed. One scene and a late client make every order of start, vote, skip, state and join happen,
a second showing of the scene included; `Copies` keeps the starts that the host repeats in each frame from
filling the queue, while one that is repeated after the first was handled is still queued. Two machines
suffice for a conflict over an enemy and for its absence. `MaxEvents` holds back a frame that would
ask while more events are under way, never the handling of one that was sent: with 1, requests of both machines cross, both
yield, both are acknowledged, and both drive for two seconds. With 2 (163 283 states, too slow to be a run) the same
properties hold. Two deaths among three players, any of whom
may be out or come late, leave one who lives, one who watches and one who knows less than the others; a third death lets
all three wait for each other, which matters for `NobodyHangs`, the only property of them that is no theorem. `MCInit`
gives a behaviour either a journey or the third death. With two deaths, and two journeys (a player who leaves and comes back) or all
three pairs in `Roaming`, TLC finds nothing else; with all of it together it finds no end in the time of a run. `MaxWire` lets a player die again when what it sent has been heard.

Fairness. `pc_multi_poll` runs in every frame, so an expired handshake is swept
(`ExpirePendingHandshake`) and ENet ends a peer that was told to go (`Disconnect` of a leaving
peer, by acknowledgement or by its own time-out). In the lobby every process polls, loads on
and resends, and time passes. No fairness is assumed for anything a player decides, nor for
a client's state packets (`Acknowledge`). In `ClientSession` the frames go on (`BeginPoll`,
`EndPoll`), a deadline that is set in ever more polls passes in one of them (`Retry`,
`HandshakeTimeout`), and ENet ends a connection attempt (`TransportAnswers`), which
succeeds or is reported as a disconnect. Once the client has the host's proof no deadline of its own is left: `ConnectingEnds`
then rests on the host (`HostAnswers`), which sends the welcome reliably in the handler that accepts the client's
proof, or drops the peer (`multiplayer_api.cpp:500-526`). A host that did neither would leave the client connecting. Strong fairness, because polls enable and disable these steps by turns.
The player's menus may interrupt at any frame, for ever. In `GameThread` every thread that can go
on does, durations pass and requests to the router return; the tick looks for a search's
result (`ConnectFound`); no menu is ever obliged to do anything. In `SceneCoordinator` frames
run, what was sent arrives (events are reliable, and of the states that are sent each frame some arrive),
an aborted scene is torn down; nobody has to start, skip or leave, and a scene may go on for
ever. In `EnemyAuthority` frames that lose no state keep happening, time goes by, and a slot gets
stale when nobody else drives the enemy. In `DeathSpectate` the frames go on: the death's animation ends, the game is initialized again, events
and some of the states arrive, and who waits gives up or comes back when it can. Nobody has to die, leave, join or
come closer to anybody, and the chase may last.

Each property is tried against a *seeded fault*: a wrong version of one definition, kept beside
it in the module and listed in `PROJECT.json`, under which the property fails. They are not used by any specification.

### What the violated runs show

- `lobby_demoted`: README.md says that everyone in the lobby will be put inside the game. The
  launch leaves the host's countdown active, so the first departure during the game broadcasts
  CANCEL_COUNTDOWN, and playing clients take it as a return to the lobby's status.
- `events_heard`: README.md calls reconnecting unproblematic for a client. The host keeps the
  last event number of a player id when its holder leaves; a restarted client counts from 1
  and is not heard until it has sent more events than its predecessor.
- `client_host_left`: README.md says that the session is over when the host leaves. A bootstrap that
  was announced before is still loaded, because the controller asks for a client with a
  local player and not for a status: `GAME_STARTING` and then `IN_GAME` overwrite `HOST_LEFT`.
- `scenes_end`: `mp-scene-state.gc` says that a scene is active while a local or remote cutscene
  owns the gameplay state. A remote player's start or vote latches its record; only the end of
  the cohort takes the latch back, and a cohort that nobody skipped does not end while a
  record is latched. After a scene that was watched to its end, every machine with a latched
  record therefore goes on believing in a remote scene: the traffic sync stays empty, a fall is no
  death, and a scene of another name cannot be registered until the player leaves.

### Seen while modelling

These have no run of their own.

- Readiness. README.md says that the game can only be started after each player has readied up.
  The tick that finds no time left cancels the countdown because a peer is not ready, and launches
  all the same, because it had read the remaining time before (`mp-lobby-progress.gc:626-634`).
- Reconnect. A client that joined by address and room code has no saved invite
  (`multiplayer_direct_connect.cpp:205-214`): Reconnect ends a live session with `FAILED`, and so
  does the automatic retry, although README.md calls Reconnect the player's safeline.
- Status. Leaving the game during the back-off clears invite and deadline and keeps RECONNECTING,
  because `disconnect` does not touch the status without a transport.
- Searches. A direct search that is cancelled can leave a late `FOUND` or `FAILED` status, which the
  tick or the next screen then takes for its own; `pc_multi_connect_found_host` does not ask which
  screen is shown.
- Port mapping. A lost notification costs up to the refresh interval, during which the game's
  thread waits in its join. The removal at the router may fail, and the UPnP lease has no end.
- Scenes. The host's reconciliation takes a player who is connected and not yet in the scene out of
  the catchup mask, so that it broadcasts the start again in each frame until the player is in. A START that
  arrives after the cohort was reset founds a new one that nobody watches. With two scenes at the same
  time `SkipIsUnanimous` fails: entries and flags do not say which scene a player is in.
- Deaths. A death that is settled locally (during a chase, or with nobody there) is announced like any
  other (`target-death.gc:1458`, `daxter-death.gc:145`), its return is not: the flag for that is set behind
  the shared countdown only (`target-death.gc:1459-1463`). The others keep the player for dead
  (`mp-event-handlers.gc:43-47`) until they make its puppet anew; when the next of them dies after the chase it takes
  everybody for dead, wipes the party and starts over although its partner lives. `WipeIsRequired`
  leaves out exactly these players (`settled`).
- Puppets. A player who has come back and said so is taken to be dying if its puppet is made anew before the
  first state that shows the return (`mp-puppet.gc:1391`, `1686-1697`); nobody comes back beside it until its puppet is
  made once more (`Misjudged`).
- States. One that overtakes EVENT_JOIN leaves its number in the slot (`player_sync.cpp:409-412`); a DISCONNECT
  before that EVENT_JOIN does not clear it (`multiplayer_api.cpp:634`), nor does the
  next EVENT_JOIN: the states of a new process with that id look old, as its events do in `events_heard`.
- Enemies. The acknowledgement names nobody: of three players, the third takes the enemy as well.
  A record whose machine hears of nobody else goes after ten seconds, with its fight.

## 4. Proofs

All for arbitrary constants, under the named assumptions of the modules (`RingCapacity`,
`BlankIsAValue`, `SchedulerConstants`, `RegistryConstants`, `HostConstants`, `RefreshIsTried`,
`SearchIsTried`, and those on players and bounds in `EnemyAuthority`, `Lobby`, `DeathSpectate` and `SceneCoordinator`), which TLC evaluates in the
runs.

- **Ring.** `TypeOK` is inductive; the refinement shows, operation by operation, what
  `Contents` becomes (an append, a tail, or both) from the arithmetic of positions modulo the
  capacity.
- **Scheduler** (with the ring in `QueuesProofs`). `IInv` adds to the types that the window is a finite set, that
  both counters are exact, that the limits are kept and that a stream has one snapshot. The bytes of a set of
  packets are the pairs of a packet and a position in it, so that a byte count is a cardinality and not a sum, and
  removing packets takes away a disjoint part (`BytesWithout`). Uniqueness of
  a snapshot needs that the set that is removed holds *every* match, which follows from there being
  at most one; the limits need that `enqueue` stops evicting only when the packet fits or nothing unreliable is left.
  `ReliableKept` and `RefusedOnlyByReliable` (a refusal leaves only reliable packets,
  which no run repeats) need no invariant: only unreliable packets are candidates for eviction, and a refusal evicted all of them.
- **Registry** (in `HostSessionProofs`). `RegistryInv` is inductive for any use of the operations. Its hard part is that
  a free id below the player limit exists whenever the counter says so: a pigeonhole argument
  over the ids in use (`FreeIdBelowLimit`), which is why a count that drifts would also break
  the distinctness of ids.
- **Host.** `IInv` ties the registry to the transports and the player slots:
  a session that is connected has a transport, a known identity has an authenticated session. It is
  proved action by action on top of the registry's lemmas, and `HostImplementsRegistry`
  shows that every handler is a registry operation or leaves it alone.

- **Client session.** `IInv` is the two invariants the run checks with what makes them
  inductive: `Timed` (a peer that has not proved itself has a clock, and only a peer has one),
  `Over` (after the host has left there is neither a transport to answer nor an attempt) and `Counted`
  (a transport that was set up by an attempt belongs to a tracked one). `HostLeftIsFinal`
  and `BackoffKept` are action properties and follow step by step from it.
- **Lobby.** What a side believes is true only together with the messages under way. `Reads`
  is what the last message of a channel that counts makes of a belief; it is a function over
  the channel's positions and not a recursion, and `ReadsAppend` and `ReadsTail` say what sending and
  handling do to it. `IInv` says for each slot which messages come first and last in a life
  (`FirstWord`, `LastWord`), who has a record (`Gone`, `Here`, `Left`), that the host's record with the
  messages under way tells the client's readiness (`Truthful`), and that a client which counts
  down, or is about to, has a host that does (`Accompanied`). It holds for any number of clients.
- **Game thread.** An assertion for each next step of the game's thread, as in a proof
  by annotation: `Good` describes the programs that can be left (which step may follow which),
  `HeadInv` what holds before the next step, `WorkerInv` what holds at each place of the worker,
  `RoleInv` and `MenuInv` what transport and screen imply. The other threads' steps must not
  disturb an assertion of the game's thread, which is where a flag that is set before a join, or a
  status that is tested and then set, matters.
- **Death.** Two facts, each about one machine's belief and the events under way together.
  `NoLastingDeath`: of a player who lives and did not settle its death locally, no machine keeps a
  death, because what is under way ends it (`Revives`; `RevivesAppend` and `RevivesTail` say what sending and
  handling do to it). `SomebodyHasHeard`: of any players who wait, one knows of all the others, or is being told.
  The waiting that began last is announced to all who wait already, and between two who wait no
  puppet is made anew, which would forget a death; hence whoever has waited longest knows, in whatever order
  the others joined it. `LastWords` and `Departed` connect the queues with what their senders do; `WipeIsRequired` and
  `ComesBackToTheLiving` follow step by step. All for any number of players, guests and deaths.
- **Enemy.** Types, and `HostKeepsItsFight` for any number of players: every stage of
  the host's frame and every event leaves the owner alone while the record fights.

- **Scenes.** `MasksAgree`, for any number of players and scenes, is not inductive: a unanimous vote finalizes a
  cohort without looking at the start that waits, so it must be known that no start waits for the scene that is
  on. `Waits` says when one may (a scene player without a frame yet, in which the machine has entered and has not
  voted, so that the host's vote count cannot be complete) and `Own` that a machine's own vote is for the scene it
  showed last. Trying to prove it found a fault of the model: without `new` a machine could begin, skip and end scenes
  within one frame, and with two scenes TLC then broke `MasksAgree`.
  `SkipIsUnanimous` is proved for one scene (`OneScene`) and any number of players; with two it is false, as
  said above. `UInv` holds on to one fact for each client while the host may still finalize: whoever
  watches has its start under way, or counts at the host, and a vote that the host holds or will hear is one that its
  player has kept. Each handler is shown to go `Onward` for its own machine and, on the host, to keep the others'
  parts (`Hosting`); `ClientSteps` and `HostSteps` put that together with what is under way (`SentSays`, `TailSays`).

Every invariant and every action property that a run checks is a theorem, `SkipIsUnanimous` for one scene only.
What is only model-checked are the liveness properties: fairness and ENABLED are outside the prover.

## 5. Not modelled, and the plan

Left out of the modelled parts: packet contents, characters and appearances, statistics and
logs, the authentication bans, the host's own `CONNECTING` status, bootstraps requested after
failed missions, the relay of packets to the other clients; on the client, the values of the
deadlines, the chase that exempts a player from the bootstrap (`mp-tomb-boulder.gc`) and the
debug switch that stops receiving; of the scenes, the teleport and the loading before a remote
scene, the local-only and resolution scenes of two missions, the intro's bootstrap and what happens on
the machine of a player who left; of the enemies, bots, battles, bosses and riding along (their owner is
fixed), deaths and hits, and the 5 seconds of the proximity request, taken as 2; of deaths, missions that fail on
one (and the pending wipe that such a mission clears), the length of the countdown, whom one watches, vehicles, the ways a
puppet is hidden that do not depend on distance, and a pool of targets that is exhausted.

Upstream OpenGOAL (compiler, decompiler, kernel, overlord, graphics, tools) is by far the largest part of
the repository. It is not part of the session, this repository hardly changes it, and most of
it translates or draws without state that could be shared wrongly.

Places without a property beside those in `PROJECT.json`: a flush pops a packet before the
transport takes it; the inbound ring drops the newest event although its number counts as heard;
the roster notes an identity as sent that the scheduler refused; an IN_GAME state from before a second
bootstrap acknowledges it; `reconnect_next_attempt_time` uses 0 for none and can wrap to it.

Next, in this order:

1. `Relay`: what the host passes on, stream keys, scheduler and ring together, with the states
   that overtake a join. The places above need it.
2. `TrafficAuthority`: assignment map and revision against late entity packets.
3. `ClientSession` with `HostSession`: the reconnection that meets its own old session on the
   host, a welcome under way while the client gives up.
4. Three machines in `EnemyAuthority`, where an acknowledgement is heard by a third, with fewer
   inputs in a frame.
5. Functions over bounded inputs against reference definitions: sequence comparison and
   back-off over wrapped 32-bit values, SemVer order, traffic ids.
6. Proofs: `TrafficAuthority`'s invariants, and what of `SkipIsUnanimous` holds with several scenes.
