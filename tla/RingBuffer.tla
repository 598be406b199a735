---------------------------- MODULE RingBuffer -----------------------------
(***************************************************************************)
(* MultiplayerRingBuffer<T, Capacity> (multiplayer_ring_buffer.h): the     *)
(* container of the inbound game events, filled by the packet handler and  *)
(* drained by the game's own loop.  A fixed array used as a circle, a      *)
(* position of the oldest value and a count.                               *)
(***************************************************************************)
EXTENDS Integers, Sequences

CONSTANTS
  Capacity, \* the template argument: 64 for the inbound events
  Value,    \* T
  Blank     \* T{}: what the array holds before the first push

\* static_assert(Capacity > 0) and the array's initialiser.
ASSUME RingCapacity == Capacity \in Nat \ {0}
ASSUME BlankIsAValue == Blank \in Value

VARIABLES
  m_values, \* the array
  m_head,   \* the position of the oldest value
  m_size,   \* how many values are stored
  result    \* what the last call gave back: <<>> for a void function,
            \* <<FALSE>>, <<TRUE>>, or <<TRUE, value>> from a pop that worked

ringVars == <<m_values, m_head, m_size, result>>

Slots == 0 .. Capacity - 1

RingInit ==
  /\ m_values = [s \in Slots |-> Blank]
  /\ m_head = 0
  /\ m_size = 0
  /\ result = <<>>

Full == m_size = Capacity

\* The slot that is `distance` places after the oldest value.
SlotAt(distance) == (m_head + distance) % Capacity

\* A push into the first free slot.
StoreNewest(v) ==
  /\ m_values' = [m_values EXCEPT ![SlotAt(m_size)] = v]
  /\ m_size' = m_size + 1
  /\ UNCHANGED m_head

TryPush(v) ==
  \/ /\ Full
     /\ result' = <<FALSE>>
     /\ UNCHANGED <<m_values, m_head, m_size>>
  \/ /\ ~Full
     /\ StoreNewest(v)
     /\ result' = <<TRUE>>

\* Seeded fault: the head stays on the value that was just written.
PushOverwriteHeadStays(v) ==
  /\ IF Full THEN m_values' = [m_values EXCEPT ![m_head] = v] /\ UNCHANGED <<m_head, m_size>>
             ELSE StoreNewest(v)
  /\ result' = <<>>

PushOverwrite(v) ==
  /\ \/ /\ Full
        /\ m_values' = [m_values EXCEPT ![m_head] = v]
        /\ m_head' = SlotAt(1)
        /\ UNCHANGED m_size
     \/ /\ ~Full
        /\ StoreNewest(v)
  /\ result' = <<>>

Pop ==
  \/ /\ m_size = 0
     /\ result' = <<FALSE>>
     /\ UNCHANGED <<m_values, m_head, m_size>>
  \/ /\ m_size # 0
     /\ result' = <<TRUE, m_values[m_head]>>
     /\ m_head' = SlotAt(1)
     /\ m_size' = m_size - 1
     /\ UNCHANGED m_values

RingClear ==
  /\ m_head' = 0
  /\ m_size' = 0
  /\ result' = <<>>
  /\ UNCHANGED m_values

RingNext ==
  \/ \E v \in Value : TryPush(v) \/ PushOverwrite(v)
  \/ Pop
  \/ RingClear

RingSpec == RingInit /\ [][RingNext]_ringVars

----------------------------------------------------------------------------
(* Properties                                                              *)

\* The array keeps its length, the head stays in it and no more values than
\* slots are counted.
RingTypeOK ==
  /\ m_values \in [Slots -> Value]
  /\ m_head \in Slots
  /\ m_size \in 0 .. Capacity

\* The values the circle stands for, the oldest first.
Contents == [i \in 1 .. m_size |-> m_values[SlotAt(i - 1)]]

Fifo == INSTANCE BoundedFifo WITH queue <- Contents, answer <- result

\* Every history of calls on the ring is a history of the bounded queue: the
\* wrap-around of head and of the write position, the overwrite of the oldest
\* value and a clear that leaves the array as it was never reorder, lose or
\* repeat a value (try_push, push_overwrite, pop and clear).
ImplementsFifo == Fifo!FifoSpec
============================================================================
