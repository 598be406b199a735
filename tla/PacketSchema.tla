---------------------------- MODULE PacketSchema ----------------------------
(***************************************************************************)
(* The packet descriptors of the generated schema                          *)
(* (multiplayer_schema_generated.h) that the scheduler looks up: the queue *)
(* of a type, and whether a newer packet of a stream replaces the older    *)
(* one.                                                                    *)
(***************************************************************************)
EXTENDS Integers

\* Joins, leaves, game events and the host's session control.
ControlType == {"EVENT_JOIN", "EVENT_LEAVE", "EVENT_GAME", "SESSION_WELCOME",
                "LOBBY_ACTION", "TRAFFIC_AUTHORITY"}

\* Fixed-size snapshots: only the newest of a stream is worth sending.
SnapshotType == {"STATE_UPDATE", "TURRET_SYNC", "PALACE_SQUID_SYNC",
                 "AIRLOCK_SYNC", "WIDOW_SYNC", "WORLD_STATE"}

\* Pieces of a larger snapshot: each one carries different entities.
ChunkType == {"ENEMY_SYNC", "PEDESTRIAN_SYNC", "VEHICLE_SYNC"}

PacketType == ControlType \union SnapshotType \union ChunkType \union {"BOOTSTRAP"}

\* MultiplayerPacketScheduler::priority_for: 0 is sent first.
PriorityOf(type) ==
  CASE type \in ControlType -> 0
    [] type = "BOOTSTRAP" -> 1
    [] type \in {"PEDESTRIAN_SYNC", "VEHICLE_SYNC", "PALACE_SQUID_SYNC", "WIDOW_SYNC"} -> 3
    [] OTHER -> 2

\* MultiplayerPacketScheduler::is_coalescible.
IsCoalescible(type, reliable) == ~reliable /\ type \in SnapshotType
=============================================================================
