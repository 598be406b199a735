-------------------------- MODULE PacketScheduler --------------------------
(***************************************************************************)
(* MultiplayerPacketScheduler (multiplayer_packet_scheduler.cpp): what the *)
(* game's thread queues between two flushes of the outgoing window.        *)
(*                                                                         *)
(* The four deques only grow at the back, shrink anywhere and are emptied  *)
(* from the front, so a deque is the set of its packets in the order of    *)
(* the tickets they took when they were pushed; the deque of a packet is   *)
(* the one of its type's priority.  The two counters are kept beside the   *)
(* packets, as in the code, and every decision reads the counters.         *)
(***************************************************************************)
EXTENDS PacketSchema, FiniteSets

CONSTANTS
  Peer,       \* the connections packets are queued for
  Stream,     \* stream keys: a player id, or the id of a relayed sender
  Size,       \* packet sizes in bytes
  Sends,      \* the <<type, reliable>> pairs that are queued
  MaxPackets, \* max_packets_: 256 in the game
  MaxBytes,   \* max_bytes_: 2 MiB in the game
  MaxTickets  \* bound: packets accepted between two flushes

ASSUME SchedulerConstants ==
  /\ Sends \subseteq PacketType \X BOOLEAN
  /\ Size \subseteq Nat \ {0}
  /\ MaxPackets \in Nat
  /\ MaxBytes \in Nat
  /\ MaxTickets \in Nat

VARIABLES
  queue,   \* queues_, queued_packet_count_ and queued_byte_count_
  tickets, \* how many packets were pushed since the window was last empty
  sent,    \* the packets the transport took in the flush just made
  answer   \* what the last call returned: enqueue_plain's boolean, or "void"

vars == <<queue, tickets, sent, answer>>

Packet == [peer : Peer, type : PacketType, stream : Stream, size : Size,
           reliable : BOOLEAN, ticket : 1 .. MaxTickets]

Empty == [packets |-> {}, count |-> 0, bytes |-> 0]

\* The bytes of some packets, each told by its packet and its place in it: what
\* sums of sizes count.
Bytes(packets) == UNION {{p} \X (1 .. p.size) : p \in packets}

SizeOf(packets) == Cardinality(Bytes(packets))

\* Seeded fault: make_room may drop anything.
UnreliableOrNot(packets) == packets

Unreliable(packets) == {p \in packets : ~p.reliable}

\* The order in which the loops over queues_ meet two packets.
Before(p, q) ==
  \/ PriorityOf(p.type) < PriorityOf(q.type)
  \/ PriorityOf(p.type) = PriorityOf(q.type) /\ p.ticket < q.ticket

\* Seeded fault: an erase forgets to count.
WithoutUncounted(q, gone) == [q EXCEPT !.packets = @ \ gone, !.bytes = @ - SizeOf(gone)]

\* The erase of some packets, each with its two decrements.
Without(q, gone) ==
  [packets |-> q.packets \ gone,
   count   |-> q.count - Cardinality(gone),
   bytes   |-> q.bytes - SizeOf(gone)]

\* Seeded fault: the first snapshot of the type is compared, whatever its stream.
SupersededAnyStream(q, peer, type, stream) ==
  LET same == {p \in Unreliable(q.packets) : p.peer = peer /\ p.type = type}
  IN  {p \in same : p.stream = stream /\ \A r \in same \ {p} : Before(p, r)}

\* remove_coalesced_packet: the first unreliable packet of the same stream.
Superseded(q, peer, type, stream) ==
  LET same == {p \in Unreliable(q.packets) :
                 p.peer = peer /\ p.type = type /\ p.stream = stream}
  IN  {p \in same : \A r \in same \ {p} : Before(p, r)}

\* make_room's test.
Fits(q, size) ==
  /\ q.count < MaxPackets
  /\ size <= (IF q.bytes < MaxBytes THEN MaxBytes - q.bytes ELSE 0)

\* The packets that repeated calls of drop_oldest_unreliable can have dropped.
DroppedFirst(q, gone) ==
  /\ gone \subseteq Unreliable(q.packets)
  /\ \A p \in gone, r \in Unreliable(q.packets) \ gone : Before(p, r)

\* make_room stops as soon as the packet fits, or when nothing is left to drop.
StopsAt(q, gone, size) ==
  /\ DroppedFirst(q, gone)
  /\ \A fewer \in SUBSET gone \ {gone} :
       DroppedFirst(q, fewer) => ~Fits(Without(q, fewer), size)

----------------------------------------------------------------------------
Init ==
  /\ queue = Empty
  /\ tickets = 0
  /\ sent = {}
  /\ answer = "void"

\* enqueue_plain, of a packet that can be queued at all.  What was superseded
\* or dropped on the way stays dropped when the packet is refused in the end.
Enqueue(peer, type, stream, size, reliable) ==
  /\ size <= MaxBytes
  /\ tickets < MaxTickets
  /\ LET kept == IF IsCoalescible(type, reliable)
                 THEN Without(queue, Superseded(queue, peer, type, stream))
                 ELSE queue
         packet == [peer |-> peer, type |-> type, stream |-> stream, size |-> size,
                    reliable |-> reliable, ticket |-> tickets + 1]
     IN  \E gone \in SUBSET Unreliable(kept.packets) :
           LET room == Without(kept, gone)
           IN  /\ StopsAt(kept, gone, size)
               /\ \/ /\ Fits(room, size)
                     /\ queue' = [packets |-> room.packets \union {packet},
                                  count   |-> room.count + 1,
                                  bytes   |-> room.bytes + size]
                     /\ tickets' = tickets + 1
                     /\ answer' = "accepted"
                  \/ /\ ~Fits(room, size)
                     /\ gone = Unreliable(kept.packets)
                     /\ queue' = room
                     /\ answer' = "refused"
                     /\ UNCHANGED tickets
  /\ sent' = {}

\* enqueue_plain's first test: a packet larger than the whole window.
EnqueueOversized(size) ==
  /\ size > MaxBytes
  /\ answer' = "oversized"
  /\ sent' = {}
  /\ UNCHANGED <<queue, tickets>>

\* flush_plain: every packet is popped, and lost when the transport refuses it.
Flush(reachable) ==
  /\ queue' = Empty
  /\ tickets' = 0
  /\ sent' = {p \in queue.packets : p.peer \in reachable}
  /\ answer' = "void"

Clear ==
  /\ queue' = Empty
  /\ tickets' = 0
  /\ sent' = {}
  /\ answer' = "void"

Next ==
  \/ \E peer \in Peer, kind \in Sends, stream \in Stream, size \in Size :
       Enqueue(peer, kind[1], stream, size, kind[2])
  \/ \E size \in Size : EnqueueOversized(size)
  \/ \E reachable \in SUBSET Peer : Flush(reachable)
  \/ Clear

Spec == Init /\ [][Next]_vars

----------------------------------------------------------------------------
(* Properties                                                              *)

\* The packets are packets, the tickets are those handed out, and no two
\* packets share one (the counters have their own invariants).
TypeOK ==
  /\ queue.packets \subseteq Packet
  /\ tickets \in 0 .. MaxTickets
  /\ \A p \in queue.packets : p.ticket <= tickets
  /\ \A p, q \in queue.packets : p.ticket = q.ticket => p = q
  /\ sent \subseteq Packet
  /\ answer \in {"void", "accepted", "refused", "oversized"}

CountIsExact == queue.count = Cardinality(queue.packets)
BytesAreExact == queue.bytes = SizeOf(queue.packets)
WithinLimits == Cardinality(queue.packets) <= MaxPackets /\ SizeOf(queue.packets) <= MaxBytes

\* Through every coalescing, drop, refusal and flush queued_packet_count_ and
\* queued_byte_count_ are what waits in the four deques, so that neither wraps
\* below zero, and the window stays within both of its limits.
BudgetIsExact == CountIsExact /\ BytesAreExact /\ WithinLimits

\* At most one unreliable snapshot of a stream waits for a peer, although only
\* the first match is removed and relayed streams have their own keys
\* (CoalescesPerTargetPeerAndPlayerStream in the tests).
OneSnapshotPerStream ==
  \A p, q \in queue.packets :
    /\ IsCoalescible(p.type, p.reliable)
    /\ ~q.reliable
    /\ <<p.peer, p.type, p.stream>> = <<q.peer, q.type, q.stream>>
    => p = q

\* A reliable packet that was accepted leaves the window by a flush or a clear
\* only: no pressure of other packets makes make_room give it up
\* (QueueLimitsDropOldUnreliablePacketsBeforeReliablePackets in the tests).
ReliableKept ==
  [][\A p \in queue.packets : p.reliable => p \in queue'.packets \/ answer' = "void"]_vars

\* A packet is refused for lack of room only when reliable packets alone leave
\* it none: pending snapshots and traffic never block an event.
RefusedOnlyByReliable ==
  [][answer' = "refused" => \A p \in queue'.packets : p.reliable]_vars
============================================================================
