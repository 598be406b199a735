---------------------------- MODULE QueuesProofs ----------------------------
(***************************************************************************)
(* The two queues between the session and the game.  The ring buffer of    *)
(* inbound events implements the bounded queue, for every capacity and     *)
(* every set of values.  The packet window is safe for every number of     *)
(* peers, streams and packets and every limit: exact counters and kept     *)
(* limits, one snapshot per stream, reliable packets kept, refusals only   *)
(* for want of room.                                                       *)
(***************************************************************************)
EXTENDS PacketScheduler, RingBuffer, FiniteSetTheorems, SequenceTheorems, TLAPS

-----------------------------------------------------------------------------
(* The ring buffer. *)

\* The only arithmetic of the ring: within two turns the remainder is either
\* the position itself or the position less one turn.
LEMMA Wrap ==
  ASSUME NEW p \in 0 .. 2 * Capacity - 1
  PROVE  p % Capacity = IF p < Capacity THEN p ELSE p - Capacity
  BY RingCapacity

\* A position is always a slot of the array.
LEMMA SlotAtInRange ==
  ASSUME m_head \in Slots, NEW d \in 0 .. Capacity
  PROVE  SlotAt(d) = IF m_head + d < Capacity THEN m_head + d ELSE m_head + d - Capacity
  BY Wrap, RingCapacity DEF SlotAt, Slots

\* The array, the head and the count keep their ranges under every call
\* (try_push, push_overwrite, pop, clear).
THEOREM RingTypeCorrect == RingSpec => []RingTypeOK
<1>1. RingInit => RingTypeOK
  BY RingCapacity, BlankIsAValue DEF RingInit, RingTypeOK, Slots
<1>2. RingTypeOK /\ [RingNext]_ringVars => RingTypeOK'
  <2> SUFFICES ASSUME RingTypeOK, [RingNext]_ringVars PROVE RingTypeOK'
    OBVIOUS
  <2> USE RingCapacity DEF RingTypeOK
  <2>0. /\ m_head \in Slots /\ SlotAt(1) \in Slots
        /\ m_size < Capacity => SlotAt(m_size) \in Slots
    BY SlotAtInRange DEF Slots
  <2>1. ASSUME NEW v \in Value, TryPush(v) PROVE RingTypeOK'
    <3>1. CASE Full
      BY <2>0, <2>1, <3>1 DEF TryPush, Full
    <3>2. CASE ~Full
      <4>1. StoreNewest(v)
        BY <2>1, <3>2, Zenon DEF TryPush
      <4> QED
        BY <2>0, <3>2, <4>1 DEF StoreNewest, Full
    <3> QED
      BY <3>1, <3>2
  <2>2. ASSUME NEW v \in Value, PushOverwrite(v) PROVE RingTypeOK'
    <3>1. CASE Full
      BY <2>0, <2>2, <3>1 DEF PushOverwrite, Full
    <3>2. CASE ~Full
      BY <2>0, <2>2, <3>2 DEF PushOverwrite, StoreNewest, Full
    <3> QED
      BY <3>1, <3>2
  <2>3. CASE Pop
    <3>1. CASE m_size = 0
      BY <2>0, <2>3, <3>1 DEF Pop
    <3>2. CASE m_size # 0
      <4>1. m_head' = SlotAt(1) /\ m_size' = m_size - 1 /\ m_values' = m_values
        BY <2>3, <3>2, Zenon DEF Pop
      <4> QED
        BY <2>0, <3>2, <4>1
    <3> QED
      BY <3>1, <3>2
  <2>4. CASE RingClear
    BY <2>4 DEF RingClear, Slots
  <2>5. CASE UNCHANGED ringVars
    BY <2>5 DEF ringVars
  <2> QED
    BY <2>1, <2>2, <2>3, <2>4, <2>5 DEF RingNext
<1> QED
  BY <1>1, <1>2, PTL DEF RingSpec

----------------------------------------------------------------------------
(* What each movement of the circle does to the queue it stands for.       *)

\* What the ring stands for is a sequence of m_size values.
LEMMA ContentsIsSeq ==
  ASSUME RingTypeOK
  PROVE  /\ Contents \in Seq(Value)
         /\ Len(Contents) = m_size
         /\ \A i \in 1 .. m_size : Contents[i] = m_values[SlotAt(i - 1)]
  BY SlotAtInRange, RingCapacity DEF RingTypeOK, Contents, Slots

\* A value stored in the first free slot is appended to the queue.
LEMMA StoreNewestAppends ==
  ASSUME RingTypeOK, RingTypeOK', NEW v \in Value, ~Full, StoreNewest(v)
  PROVE  Contents' = Append(Contents, v)
<1>1. /\ Contents \in Seq(Value) /\ Len(Contents) = m_size
      /\ \A i \in 1 .. m_size : Contents[i] = m_values[SlotAt(i - 1)]
  BY ContentsIsSeq
<1>2. /\ m_size \in 0 .. Capacity - 1 /\ m_head \in Slots
      /\ m_size' = m_size + 1 /\ m_head' = m_head
  BY RingCapacity DEF RingTypeOK, StoreNewest, Full
<1>3. \A i \in 1 .. m_size : SlotAt(i - 1) # SlotAt(m_size)
  BY <1>2, SlotAtInRange, RingCapacity DEF Slots
<1>4. ASSUME NEW i \in 1 .. m_size + 1
      PROVE  m_values'[SlotAt(i - 1)] = IF i = m_size + 1 THEN v ELSE Contents[i]
  <2>1. SlotAt(i - 1) \in Slots
    BY <1>2, SlotAtInRange, RingCapacity DEF Slots
  <2>2. CASE i = m_size + 1
    BY <2>1, <2>2, <1>2 DEF StoreNewest, RingTypeOK
  <2>3. CASE i # m_size + 1
    BY <2>1, <2>3, <1>1, <1>2, <1>3 DEF StoreNewest, RingTypeOK
  <2> QED
    BY <2>2, <2>3
<1>5. /\ Contents' \in Seq(Value) /\ Len(Contents') = m_size + 1
      /\ \A i \in 1 .. m_size + 1 : Contents'[i] = m_values'[SlotAt(i - 1)]
  <2>1. Contents' = [i \in 1 .. m_size + 1 |-> m_values'[SlotAt(i - 1)]]
    BY <1>2 DEF Contents, SlotAt
  <2>2. \A i \in 1 .. m_size + 1 : m_values'[SlotAt(i - 1)] \in Value
    <3>1. \A i \in 1 .. m_size : Contents[i] \in Value
      BY <1>1, ElementOfSeq
    <3> SUFFICES ASSUME NEW i \in 1 .. m_size + 1 PROVE m_values'[SlotAt(i - 1)] \in Value
      OBVIOUS
    <3>2. m_values'[SlotAt(i - 1)] = IF i = m_size + 1 THEN v ELSE Contents[i]
      BY <1>4
    <3>3. i # m_size + 1 => i \in 1 .. m_size
      BY <1>2
    <3> QED
      BY <3>1, <3>2, <3>3
  <2> QED
    BY <2>1, <2>2, <1>2
<1>6. Append(Contents, v) \in Seq(Value) /\ Len(Append(Contents, v)) = m_size + 1
  BY <1>1
<1>7. \A i \in 1 .. m_size + 1 : Contents'[i] = Append(Contents, v)[i]
  BY <1>1, <1>4, <1>5
<1> QED
  BY <1>5, <1>6, <1>7, SeqEqual

\* Moving the head one slot on, over an unchanged array, takes the oldest
\* value off the queue.
LEMMA HeadStepTails ==
  ASSUME RingTypeOK, m_size # 0, m_head' = SlotAt(1), m_size' = m_size - 1,
         UNCHANGED m_values
  PROVE  Contents # <<>> /\ Head(Contents) = m_values[m_head] /\ Contents' = Tail(Contents)
<1>1. /\ Contents \in Seq(Value) /\ Len(Contents) = m_size
      /\ \A i \in 1 .. m_size : Contents[i] = m_values[SlotAt(i - 1)]
  BY ContentsIsSeq
<1>2. /\ m_size \in 1 .. Capacity /\ m_head \in Slots
      /\ m_size' = m_size - 1 /\ m_values' = m_values
  BY RingCapacity DEF RingTypeOK
<1>3. SlotAt(0) = m_head
  BY <1>2, SlotAtInRange, RingCapacity DEF Slots
<1>4. \A i \in 1 .. m_size - 1 : SlotAt(i - 1)' = SlotAt(i)
  <2>1. m_head' \in Slots /\ m_head' = IF m_head + 1 < Capacity THEN m_head + 1 ELSE 0
    BY <1>2, SlotAtInRange, RingCapacity DEF Slots
  <2>2. SUFFICES ASSUME NEW i \in 1 .. m_size - 1
                 PROVE  (m_head' + (i - 1)) % Capacity = (m_head + i) % Capacity
    BY DEF SlotAt
  <2>3. (m_head' + (i - 1)) % Capacity =
          IF m_head' + (i - 1) < Capacity THEN m_head' + (i - 1)
                                          ELSE m_head' + (i - 1) - Capacity
    BY <2>1, <1>2, Wrap, RingCapacity DEF Slots
  <2>4. (m_head + i) % Capacity =
          IF m_head + i < Capacity THEN m_head + i ELSE m_head + i - Capacity
    BY <1>2, Wrap, RingCapacity DEF Slots
  <2> QED
    BY <2>1, <2>3, <2>4, <1>2, RingCapacity DEF Slots
<1>5. \A i \in 1 .. m_size - 1 : Contents'[i] = Contents[i + 1]
  BY <1>1, <1>2, <1>4 DEF Contents
<1>6. Contents' \in Seq(Value) /\ Len(Contents') = m_size - 1
  <2>1. Contents' = [i \in 1 .. m_size - 1 |-> m_values[SlotAt(i)]]
    BY <1>2, <1>4 DEF Contents
  <2>2. \A i \in 1 .. m_size - 1 : m_values[SlotAt(i)] \in Value
    BY <1>2, SlotAtInRange, RingCapacity DEF Slots, RingTypeOK
  <2> QED
    BY <2>1, <2>2, <1>2
<1>7. Contents # <<>>
  BY <1>1, <1>2
<1>8. /\ Tail(Contents) \in Seq(Value) /\ Len(Tail(Contents)) = m_size - 1
      /\ \A i \in 1 .. m_size - 1 : Tail(Contents)[i] = Contents[i + 1]
  BY <1>1, <1>2, <1>7, HeadTailProperties
<1>9. Contents' = Tail(Contents)
  BY <1>2, <1>5, <1>6, <1>8, SeqEqual
<1> QED
  BY <1>1, <1>2, <1>3, <1>7, <1>9

\* A push over a full ring takes the oldest value off and appends the newest.
LEMMA OverwriteReplacesOldest ==
  ASSUME RingTypeOK, RingTypeOK', NEW v \in Value, Full, PushOverwrite(v)
  PROVE  Contents' = Append(Tail(Contents), v)
<1>1. /\ m_size = Capacity /\ m_head' = SlotAt(1) /\ m_size' = Capacity
      /\ m_values' = [m_values EXCEPT ![m_head] = v]
  BY Zenon DEF Full, PushOverwrite
<1>2. /\ Contents \in Seq(Value) /\ Len(Contents) = Capacity
      /\ \A i \in 1 .. Capacity : Contents[i] = m_values[SlotAt(i - 1)]
  BY <1>1, ContentsIsSeq
<1>3. /\ Contents' \in Seq(Value) /\ Len(Contents') = Capacity
      /\ \A i \in 1 .. Capacity : Contents'[i] = m_values'[(m_head' + (i - 1)) % Capacity]
  <2>1. Contents' = [i \in 1 .. Capacity |-> m_values'[(m_head' + (i - 1)) % Capacity]]
    BY <1>1 DEF Contents, SlotAt
  <2>2. m_values' \in [Slots -> Value] /\ m_head' \in 0 .. Capacity - 1
    BY DEF RingTypeOK, Slots
  <2>3. \A i \in 1 .. Capacity : (m_head' + (i - 1)) % Capacity \in Slots
    <3> SUFFICES ASSUME NEW i \in 1 .. Capacity
                 PROVE  (m_head' + (i - 1)) % Capacity \in Slots
      OBVIOUS
    <3> DEFINE h == m_head'
    <3>1. h \in 0 .. Capacity - 1
      BY <2>2
    <3> HIDE DEF h
    <3>2. h + (i - 1) \in 0 .. 2 * Capacity - 1
      BY <3>1, RingCapacity
    <3>3. (h + (i - 1)) % Capacity \in 0 .. Capacity - 1
      BY <3>1, <3>2, Wrap, RingCapacity
    <3> QED
      BY <3>3 DEF Slots, h
  <2> QED
    BY <2>1, <2>2, <2>3, RingCapacity
<1>4. Contents # <<>>
  BY <1>2, RingCapacity
<1>5. /\ Tail(Contents) \in Seq(Value) /\ Len(Tail(Contents)) = Capacity - 1
      /\ \A i \in 1 .. Capacity - 1 : Tail(Contents)[i] = Contents[i + 1]
  BY <1>2, <1>4, HeadTailProperties
<1>6. /\ Append(Tail(Contents), v) \in Seq(Value) /\ Len(Append(Tail(Contents), v)) = Capacity
      /\ Append(Tail(Contents), v)[Capacity] = v
      /\ \A i \in 1 .. Capacity - 1 : Append(Tail(Contents), v)[i] = Contents[i + 1]
  BY <1>5, RingCapacity
<1>7. /\ m_head \in 0 .. Capacity - 1
      /\ m_head' = IF m_head + 1 < Capacity THEN m_head + 1 ELSE 0
  BY <1>1, SlotAtInRange, RingCapacity DEF RingTypeOK, Slots
<1>8. ASSUME NEW i \in 1 .. Capacity
      PROVE  Contents'[i] = Append(Tail(Contents), v)[i]
  <2>1. (m_head' + (i - 1)) % Capacity =
          IF m_head' + (i - 1) < Capacity THEN m_head' + (i - 1)
                                          ELSE m_head' + (i - 1) - Capacity
    BY <1>7, Wrap, RingCapacity
  <2>2. CASE i = Capacity
    <3>1. (m_head' + (i - 1)) % Capacity = m_head
      BY <1>7, <2>1, <2>2, RingCapacity
    <3> QED
      BY <1>1, <1>3, <1>6, <2>2, <3>1 DEF RingTypeOK
  <2>3. CASE i # Capacity
    <3>1. SlotAt(i) = IF m_head + i < Capacity THEN m_head + i ELSE m_head + i - Capacity
      BY <1>7, SlotAtInRange DEF Slots
    <3>2. (m_head' + (i - 1)) % Capacity = SlotAt(i) /\ SlotAt(i) # m_head /\ SlotAt(i) \in Slots
      BY <1>7, <2>1, <2>3, <3>1, RingCapacity DEF Slots
    <3>3. Contents'[i] = m_values[SlotAt(i)]
      BY <1>1, <1>3, <3>2 DEF RingTypeOK
    <3>4. Contents[i + 1] = m_values[SlotAt(i)]
      BY <1>2, <2>3, RingCapacity
    <3> QED
      BY <1>6, <2>3, <3>3, <3>4
  <2> QED
    BY <2>2, <2>3
<1> QED
  BY <1>3, <1>6, <1>8, SeqEqual

----------------------------------------------------------------------------
\* Every call on the ring is the same call on the bounded queue, with the same
\* result to the caller (try_push, push_overwrite, pop, clear).
THEOREM RingImplementsFifo == RingSpec => ImplementsFifo
<1>1. RingInit => Fifo!FifoInit
  BY RingCapacity DEF RingInit, Fifo!FifoInit, Contents
<1>2. RingTypeOK /\ RingTypeOK' /\ [RingNext]_ringVars => [Fifo!FifoNext]_Fifo!fifoVars
  <2> SUFFICES ASSUME RingTypeOK, RingTypeOK', [RingNext]_ringVars
               PROVE  [Fifo!FifoNext]_Fifo!fifoVars
    OBVIOUS
  <2>0. /\ Contents \in Seq(Value) /\ Len(Contents) = m_size
        /\ m_size \in 0 .. Capacity
        /\ (m_size = 0) <=> (Contents = <<>>)
    BY ContentsIsSeq DEF RingTypeOK
  <2>1. ASSUME NEW v \in Value, TryPush(v) PROVE Fifo!FifoTryPush(v)
    <3>1. CASE Full
      <4>1. Contents' = Contents
        BY <2>1, <3>1, Zenon DEF TryPush, Contents, SlotAt
      <4> QED
        BY <2>0, <2>1, <3>1, <4>1, Zenon DEF TryPush, Full, Fifo!FifoTryPush
    <3>2. CASE ~Full
      <4>1. StoreNewest(v) /\ result' = <<TRUE>>
        BY <2>1, <3>2, Zenon DEF TryPush
      <4>2. Contents' = Append(Contents, v)
        BY <3>2, <4>1, StoreNewestAppends
      <4>3. Len(Contents) < Capacity
        BY <2>0, <3>2, RingCapacity DEF Full
      <4> QED
        BY <4>1, <4>2, <4>3, Zenon DEF Fifo!FifoTryPush
    <3> QED
      BY <3>1, <3>2
  <2>2. ASSUME NEW v \in Value, PushOverwrite(v) PROVE Fifo!FifoPushOverwrite(v)
    <3>1. CASE Full
      <4>1. Contents' = Append(Tail(Contents), v)
        BY <2>2, <3>1, OverwriteReplacesOldest
      <4>2. ~(Len(Contents) < Capacity)
        BY <2>0, <3>1, RingCapacity DEF Full
      <4> QED
        BY <2>2, <4>1, <4>2, Zenon DEF PushOverwrite, Fifo!FifoPushOverwrite
    <3>2. CASE ~Full
      <4>1. StoreNewest(v) /\ result' = <<>>
        BY <2>2, <3>2, Zenon DEF PushOverwrite
      <4>2. Contents' = Append(Contents, v)
        BY <3>2, <4>1, StoreNewestAppends
      <4>3. Len(Contents) < Capacity
        BY <2>0, <3>2, RingCapacity DEF Full
      <4> QED
        BY <4>1, <4>2, <4>3, Zenon DEF Fifo!FifoPushOverwrite
    <3> QED
      BY <3>1, <3>2
  <2>3. ASSUME Pop PROVE Fifo!FifoPop
    <3>1. CASE m_size = 0
      <4>1. Contents' = Contents
        BY <2>3, <3>1, Zenon DEF Pop, Contents, SlotAt
      <4> QED
        BY <2>0, <2>3, <3>1, <4>1, Zenon DEF Pop, Fifo!FifoPop
    <3>2. CASE m_size # 0
      <4>1. /\ m_head' = SlotAt(1) /\ m_size' = m_size - 1 /\ UNCHANGED m_values
            /\ result' = <<TRUE, m_values[m_head]>>
        BY <2>3, <3>2, Zenon DEF Pop
      <4>2. Contents # <<>> /\ Head(Contents) = m_values[m_head] /\ Contents' = Tail(Contents)
        BY <3>2, <4>1, HeadStepTails
      <4> QED
        BY <4>1, <4>2, Zenon DEF Fifo!FifoPop
    <3> QED
      BY <3>1, <3>2
  <2>4. ASSUME RingClear PROVE Fifo!FifoClear
    <3>1. Contents' = <<>>
      BY <2>4, SMT DEF RingClear, Contents
    <3> QED
      BY <2>4, <3>1, Zenon DEF RingClear, Fifo!FifoClear
  <2>5. CASE UNCHANGED ringVars
    <3>1. UNCHANGED <<Contents, result>>
      BY <2>5, Zenon DEF ringVars, Contents, SlotAt
    <3> QED
      BY <3>1, Zenon DEF Fifo!fifoVars
  <2>6. RingNext => Fifo!FifoNext
    BY <2>1, <2>2, <2>3, <2>4, Zenon DEF RingNext, Fifo!FifoNext
  <2> QED
    BY <2>5, <2>6
<1> QED
  BY <1>1, <1>2, RingTypeCorrect, PTL DEF RingSpec, ImplementsFifo, Fifo!FifoSpec

-----------------------------------------------------------------------------
(* The packet window. *)

\* Both counters of a window say what its finitely many packets are.
Exact(q) ==
  /\ q.packets \subseteq Packet /\ IsFiniteSet(q.packets)
  /\ q.count = Cardinality(q.packets)
  /\ q.bytes = SizeOf(q.packets)

\* Tickets never repeat, the counters are exact, and streams have one snapshot.
IInv ==
  /\ TypeOK
  /\ Exact(queue)
  /\ WithinLimits
  /\ OneSnapshotPerStream

\* A packet's size is a number of bytes, at least one.
LEMMA SizeIsPositive ==
  ASSUME NEW p \in Packet
  PROVE  p.size \in Nat /\ p.size \in Int /\ p.size > 0
<1>1. p.size \in Size
  BY DEF Packet
<1>2. Size \subseteq Nat \ {0}
  BY SchedulerConstants
<1>3. \A n \in Nat \ {0} : n \in Nat /\ n \in Int /\ n > 0
  OBVIOUS
<1> QED
  BY <1>1, <1>2, <1>3, Zenon

\* One packet has as many bytes as its size says.
LEMMA BytesOfOne ==
  ASSUME NEW p \in Packet
  PROVE  /\ IsFiniteSet({p} \X (1 .. p.size))
         /\ SizeOf({p}) = p.size
<1>1. p.size \in Int /\ p.size > 0
  BY SizeIsPositive
<1>2. Bytes({p}) = {p} \X (1 .. p.size)
  BY Zenon DEF Bytes
<1>3. IsFiniteSet(1 .. p.size) /\ Cardinality(1 .. p.size) = p.size
  <2> SUFFICES ASSUME NEW n \in Int, n > 0
               PROVE  IsFiniteSet(1 .. n) /\ Cardinality(1 .. n) = n
    BY <1>1
  <2>1. IsFiniteSet(1 .. n) /\ Cardinality(1 .. n) = IF 1 > n THEN 0 ELSE n - 1 + 1
    BY FS_Interval
  <2> QED
    BY <2>1
<1>4. IsFiniteSet({p}) /\ Cardinality({p}) = 1
  BY FS_Singleton
<1>5. /\ IsFiniteSet({p} \X (1 .. p.size))
      /\ Cardinality({p} \X (1 .. p.size)) = Cardinality({p}) * Cardinality(1 .. p.size)
  BY <1>3, <1>4, FS_Product
<1>6. 1 * p.size = p.size
  BY <1>1
<1> QED
  BY <1>2, <1>3, <1>4, <1>5, <1>6, Zenon DEF SizeOf

\* Finitely many packets have finitely many bytes.
LEMMA BytesFinite ==
  ASSUME NEW S \in SUBSET Packet, IsFiniteSet(S)
  PROVE  IsFiniteSet(Bytes(S)) /\ SizeOf(S) \in Nat
<1> DEFINE cells == {{p} \X (1 .. p.size) : p \in S}
           f == [p \in S |-> {p} \X (1 .. p.size)]
<1>1. f \in Surjection(S, cells)
  BY DEF Surjection
<1>2. IsFiniteSet(cells)
  <2> HIDE DEF cells, f
  <2> QED
    BY <1>1, FS_Surjection
<1>3. \A T \in cells : IsFiniteSet(T)
  BY BytesOfOne
<1>4. IsFiniteSet(UNION cells)
  <2> HIDE DEF cells
  <2> QED
    BY <1>2, <1>3, FS_UNION
<1>5. IsFiniteSet(Bytes(S))
  BY <1>4 DEF Bytes
<1> QED
  BY <1>5, FS_CardinalityType DEF SizeOf

\* The bytes of packets that are erased are the bytes that are missing.
LEMMA BytesWithout ==
  ASSUME NEW S \in SUBSET Packet, IsFiniteSet(S), NEW T \in SUBSET S
  PROVE  SizeOf(S \ T) = SizeOf(S) - SizeOf(T) /\ SizeOf(T) <= SizeOf(S)
<1>1. IsFiniteSet(Bytes(S))
  BY BytesFinite
<1>2. Bytes(T) \subseteq Bytes(S) /\ Bytes(S \ T) = Bytes(S) \ Bytes(T)
  BY DEF Bytes
<1>3. Bytes(S) \intersect Bytes(T) = Bytes(T)
  BY <1>2
<1>4. Cardinality(Bytes(S) \ Bytes(T)) =
        Cardinality(Bytes(S)) - Cardinality(Bytes(S) \intersect Bytes(T))
  BY <1>1, FS_Difference
<1>5. Cardinality(Bytes(T)) <= Cardinality(Bytes(S))
  BY <1>1, <1>2, FS_Subset
<1> QED
  BY <1>2, <1>3, <1>4, <1>5 DEF SizeOf

\* A new packet adds its size.
LEMMA BytesWith ==
  ASSUME NEW S \in SUBSET Packet, IsFiniteSet(S), NEW p \in Packet, p \notin S
  PROVE  SizeOf(S \union {p}) = SizeOf(S) + p.size
<1>1. S \union {p} \in SUBSET Packet /\ IsFiniteSet(S \union {p})
  BY FS_AddElement
<1>2. (S \union {p}) \ {p} = S /\ {p} \in SUBSET (S \union {p})
  OBVIOUS
<1>3. SizeOf((S \union {p}) \ {p}) = SizeOf(S \union {p}) - SizeOf({p})
  BY <1>1, <1>2, BytesWithout
<1>4. SizeOf(S) \in Nat /\ SizeOf(S \union {p}) \in Nat
  BY <1>1, BytesFinite
<1>5. p.size \in Nat /\ SizeOf({p}) = p.size
  BY SizeIsPositive, BytesOfOne
<1>6. SizeOf(S) = SizeOf(S \union {p}) - p.size
  BY <1>2, <1>3, <1>5, Zenon
<1> QED
  BY <1>4, <1>5, <1>6

\* Erasing packets that are queued keeps exact counters exact.
LEMMA WithoutCounts ==
  ASSUME NEW q, NEW gone \in SUBSET q.packets, Exact(q)
  PROVE  /\ Without(q, gone).packets = q.packets \ gone
         /\ Exact(Without(q, gone))
<1>1. IsFiniteSet(q.packets) /\ q.packets \in SUBSET Packet
  BY DEF Exact
<1>2. /\ IsFiniteSet(gone) /\ IsFiniteSet(q.packets \ gone)
      /\ Cardinality(gone) \in Nat /\ Cardinality(q.packets) \in Nat
  BY <1>1, FS_Subset, FS_CardinalityType
<1>3. q.packets \intersect gone = gone
  OBVIOUS
<1>4. Cardinality(q.packets \ gone) = Cardinality(q.packets) - Cardinality(gone)
  <2>1. \A S : IsFiniteSet(S) =>
          Cardinality(S \ gone) = Cardinality(S) - Cardinality(S \intersect gone)
    BY FS_Difference
  <2> QED
    BY <1>1, <1>3, <2>1
<1>5. SizeOf(q.packets \ gone) = SizeOf(q.packets) - SizeOf(gone)
  BY <1>1, BytesWithout
<1>6. /\ Without(q, gone).packets = q.packets \ gone
      /\ Without(q, gone).count = q.count - Cardinality(gone)
      /\ Without(q, gone).bytes = q.bytes - SizeOf(gone)
  BY DEF Without
<1>7. q.count = Cardinality(q.packets) /\ q.bytes = SizeOf(q.packets)
  BY DEF Exact
<1> HIDE DEF Without
<1> QED
  BY <1>1, <1>2, <1>4, <1>5, <1>6, <1>7 DEF Exact

\* Fewer packets than a window that is within its limits holds stay within them.
LEMMA FewerFit ==
  ASSUME Exact(queue), WithinLimits, NEW rest \in SUBSET queue.packets
  PROVE  Cardinality(rest) <= MaxPackets /\ SizeOf(rest) <= MaxBytes
<1>1. IsFiniteSet(queue.packets) /\ queue.packets \in SUBSET Packet /\ IsFiniteSet(rest)
  BY FS_Subset DEF Exact
<1>2. Cardinality(rest) <= Cardinality(queue.packets) /\ SizeOf(rest) <= SizeOf(queue.packets)
  BY <1>1, FS_Subset, BytesWithout
<1>3. /\ Cardinality(rest) \in Nat /\ Cardinality(queue.packets) \in Nat
      /\ SizeOf(rest) \in Nat /\ SizeOf(queue.packets) \in Nat
  BY <1>1, BytesFinite, FS_CardinalityType
<1> QED
  BY <1>2, <1>3, SchedulerConstants DEF WithinLimits

\* A snapshot's predecessor is alone in its stream, so removing the first
\* match removes them all (remove_coalesced_packet).
LEMMA SupersededIsAll ==
  ASSUME OneSnapshotPerStream, NEW peer, NEW type, NEW stream,
         IsCoalescible(type, FALSE)
  PROVE  Superseded(queue, peer, type, stream) =
           {p \in Unreliable(queue.packets) :
              p.peer = peer /\ p.type = type /\ p.stream = stream}
<1> DEFINE same == {p \in Unreliable(queue.packets) :
                      p.peer = peer /\ p.type = type /\ p.stream = stream}
<1>1. ASSUME NEW p \in same, NEW r \in same PROVE p = r
  <2>1. /\ p \in queue.packets /\ r \in queue.packets /\ ~p.reliable /\ ~r.reliable
        /\ <<p.peer, p.type, p.stream>> = <<r.peer, r.type, r.stream>>
        /\ p.type = type
    BY DEF Unreliable
  <2>2. IsCoalescible(p.type, p.reliable)
    BY <2>1 DEF IsCoalescible
  <2> QED
    BY <2>1, <2>2 DEF OneSnapshotPerStream
<1>2. same \subseteq Superseded(queue, peer, type, stream)
  BY <1>1 DEF Superseded
<1> QED
  BY <1>2 DEF Superseded

----------------------------------------------------------------------------
\* enqueue_plain on the invariant: its outcome, and what each outcome leaves.
LEMMA EnqueueEffect ==
  ASSUME IInv, NEW peer \in Peer, NEW kind \in Sends, NEW stream \in Stream,
         NEW size \in Size, Enqueue(peer, kind[1], stream, size, kind[2])
  PROVE  LET packet == [peer |-> peer, type |-> kind[1], stream |-> stream,
                        size |-> size, reliable |-> kind[2], ticket |-> tickets + 1]
             same == {p \in Unreliable(queue.packets) :
                        p.peer = peer /\ p.type = kind[1] /\ p.stream = stream}
         IN  \E rest \in SUBSET queue.packets :
               /\ \A p \in queue.packets : p.reliable => p \in rest
               /\ IsCoalescible(kind[1], kind[2]) => rest \intersect same = {}
               /\ IsFiniteSet(rest) /\ rest \subseteq queue'.packets
               /\ \/ /\ answer' = "accepted"
                     /\ tickets' = tickets + 1 /\ tickets < MaxTickets
                     /\ queue'.packets = rest \union {packet}
                     /\ queue'.count = Cardinality(rest) + 1
                     /\ queue'.bytes = SizeOf(rest) + size
                     /\ Cardinality(rest) < MaxPackets /\ SizeOf(rest) + size <= MaxBytes
                  \/ /\ answer' = "refused"
                     /\ tickets' = tickets
                     /\ queue'.packets = rest
                     /\ Exact(queue')
                     /\ \A p \in rest : p.reliable
<1> DEFINE type == kind[1]
           reliable == kind[2]
           packet == [peer |-> peer, type |-> type, stream |-> stream,
                      size |-> size, reliable |-> reliable, ticket |-> tickets + 1]
           same == {p \in Unreliable(queue.packets) :
                      p.peer = peer /\ p.type = type /\ p.stream = stream}
           first == Superseded(queue, peer, type, stream)
           kept == IF IsCoalescible(type, reliable) THEN Without(queue, first) ELSE queue
<1>1. PICK gone \in SUBSET Unreliable(kept.packets) :
        LET room == Without(kept, gone)
        IN  \/ /\ Fits(room, size)
               /\ queue' = [packets |-> room.packets \union {packet},
                            count   |-> room.count + 1,
                            bytes   |-> room.bytes + size]
               /\ tickets' = tickets + 1
               /\ answer' = "accepted"
            \/ /\ gone = Unreliable(kept.packets)
               /\ queue' = room
               /\ answer' = "refused"
               /\ UNCHANGED tickets
  BY Zenon DEF Enqueue
<1>2. tickets < MaxTickets
  BY Zenon DEF Enqueue
<1>3. Exact(queue) /\ OneSnapshotPerStream
  BY DEF IInv
<1>4. first \subseteq Unreliable(queue.packets)
  BY DEF Superseded
<1>5. /\ kept.packets \subseteq queue.packets /\ Exact(kept)
      /\ \A p \in queue.packets : p.reliable => p \in kept.packets
      /\ IsCoalescible(type, reliable) => kept.packets \intersect same = {}
  <2>1. CASE ~IsCoalescible(type, reliable)
    BY <1>3, <2>1
  <2>2. CASE IsCoalescible(type, reliable)
    <3>1. first = same
      BY <1>3, <2>2, SupersededIsAll DEF IsCoalescible
    <3>2. first \in SUBSET queue.packets
      BY <1>4 DEF Unreliable
    <3>3. kept.packets = queue.packets \ first /\ Exact(kept)
      <4>1. kept = Without(queue, first)
        BY <2>2
      <4> HIDE DEF kept, first
      <4> QED
        BY <1>3, <3>2, <4>1, WithoutCounts
    <3> HIDE DEF kept, first, same
    <3>4. \A p \in queue.packets : p.reliable => p \notin first
      BY <1>4 DEF Unreliable
    <3> QED
      BY <3>1, <3>2, <3>3, <3>4
  <2> QED
    BY <2>1, <2>2
<1> HIDE DEF kept, packet, same
<1> DEFINE rest == kept.packets \ gone
<1>6. gone \in SUBSET kept.packets /\ \A p \in gone : ~p.reliable
  BY DEF Unreliable
<1>7. /\ Without(kept, gone).packets = rest /\ IsFiniteSet(rest)
      /\ Exact(Without(kept, gone))
      /\ Without(kept, gone).count = Cardinality(rest)
      /\ Without(kept, gone).bytes = SizeOf(rest)
  <2>1. Without(kept, gone).packets = rest /\ Exact(Without(kept, gone))
    BY <1>5, <1>6, WithoutCounts
  <2> HIDE DEF rest
  <2> QED
    BY <2>1 DEF Exact
<1>8. /\ rest \in SUBSET queue.packets
      /\ \A p \in queue.packets : p.reliable => p \in rest
      /\ IsCoalescible(type, reliable) => rest \intersect same = {}
  BY <1>5, <1>6
<1>9. gone = Unreliable(kept.packets) => \A p \in rest : p.reliable
  BY DEF Unreliable
<1> HIDE DEF rest
<1>10. ASSUME Fits(Without(kept, gone), size)
       PROVE  Cardinality(rest) < MaxPackets /\ SizeOf(rest) + size <= MaxBytes
  <2>1. Cardinality(rest) < MaxPackets
    BY <1>7, <1>10 DEF Fits
  <2>2. size <= (IF SizeOf(rest) < MaxBytes THEN MaxBytes - SizeOf(rest) ELSE 0)
    BY <1>7, <1>10 DEF Fits
  <2>3. SizeOf(rest) \in Nat
    <3>1. Exact(Without(kept, gone)) /\ Without(kept, gone).packets = rest
      BY <1>7
    <3>2. rest \in SUBSET Packet /\ IsFiniteSet(rest)
      BY <3>1 DEF Exact
    <3> QED
      BY <3>2, BytesFinite
  <2>4. size \in Nat /\ size > 0 /\ MaxBytes \in Nat
    BY SchedulerConstants
  <2>5. SizeOf(rest) + size <= MaxBytes
    BY <2>2, <2>3, <2>4
  <2> QED
    BY <2>1, <2>5
<1>11. \/ /\ answer' = "accepted" /\ tickets' = tickets + 1 /\ tickets < MaxTickets
          /\ queue'.packets = rest \union {packet}
          /\ queue'.count = Cardinality(rest) + 1
          /\ queue'.bytes = SizeOf(rest) + size
          /\ Cardinality(rest) < MaxPackets /\ SizeOf(rest) + size <= MaxBytes
       \/ /\ answer' = "refused" /\ tickets' = tickets
          /\ queue'.packets = rest
          /\ Exact(queue')
          /\ \A p \in rest : p.reliable
  BY <1>1, <1>2, <1>7, <1>9, <1>10
<1>12. rest \subseteq queue'.packets
  BY <1>11
<1> QED
  BY <1>7, <1>8, <1>11, <1>12 DEF packet, same

----------------------------------------------------------------------------
\* An empty window has exact counters, within every limit.
LEMMA NothingIsExact == Exact(Empty)
<1>1. Bytes({}) = {}
  BY DEF Bytes
<1> QED
  BY <1>1, FS_EmptySet DEF Exact, Empty, SizeOf

\* An empty window satisfies the invariant, whoever emptied it.
LEMMA EmptyIsFine ==
  ASSUME queue = Empty, tickets = 0, sent \subseteq Packet, answer = "void"
  PROVE  IInv
<1>1. queue.packets = {} /\ Exact(queue)
  BY NothingIsExact DEF Empty
<1>2. Cardinality(queue.packets) = 0 /\ SizeOf(queue.packets) = 0
  BY NothingIsExact DEF Exact, Empty
<1> QED
  BY <1>1, <1>2, SchedulerConstants DEF IInv, TypeOK, OneSnapshotPerStream, WithinLimits

\* The scheduler starts with an empty window.
LEMMA InvInit == Init => IInv
  BY EmptyIsFine DEF Init

\* The conjuncts survive an enqueue: the new packet takes a fresh ticket, the
\* counters follow the packets, what was accepted fitted, and a snapshot finds its stream empty.
LEMMA InvEnqueue ==
  ASSUME IInv, NEW peer \in Peer, NEW kind \in Sends, NEW stream \in Stream,
         NEW size \in Size, Enqueue(peer, kind[1], stream, size, kind[2])
  PROVE  IInv'
<1> DEFINE packet == [peer |-> peer, type |-> kind[1], stream |-> stream,
                      size |-> size, reliable |-> kind[2], ticket |-> tickets + 1]
           same == {p \in Unreliable(queue.packets) :
                      p.peer = peer /\ p.type = kind[1] /\ p.stream = stream}
<1>1. PICK rest \in SUBSET queue.packets :
        /\ \A p \in queue.packets : p.reliable => p \in rest
        /\ IsCoalescible(kind[1], kind[2]) => rest \intersect same = {}
        /\ IsFiniteSet(rest)
        /\ \/ /\ answer' = "accepted"
              /\ tickets' = tickets + 1 /\ tickets < MaxTickets
              /\ queue'.packets = rest \union {packet}
              /\ queue'.count = Cardinality(rest) + 1
              /\ queue'.bytes = SizeOf(rest) + size
              /\ Cardinality(rest) < MaxPackets /\ SizeOf(rest) + size <= MaxBytes
           \/ /\ answer' = "refused"
              /\ tickets' = tickets
              /\ queue'.packets = rest
              /\ Exact(queue')
              /\ \A p \in rest : p.reliable
  BY EnqueueEffect
<1>2. /\ queue.packets \subseteq Packet /\ tickets \in 0 .. MaxTickets
      /\ \A p \in queue.packets : p.ticket <= tickets
      /\ \A p, q \in queue.packets : p.ticket = q.ticket => p = q
      /\ OneSnapshotPerStream /\ Exact(queue) /\ WithinLimits
  BY DEF IInv, TypeOK
<1>3. sent' = {}
  BY Zenon DEF Enqueue
<1>4. \A p \in rest : p.ticket \in Nat /\ p.ticket <= tickets
  BY <1>1, <1>2, SchedulerConstants DEF Packet
<1>5. CASE answer' = "accepted"
  <2>1. /\ tickets' = tickets + 1 /\ tickets < MaxTickets
        /\ queue'.packets = rest \union {packet} /\ queue'.count = Cardinality(rest) + 1
        /\ queue'.bytes = SizeOf(rest) + size
        /\ Cardinality(rest) < MaxPackets /\ SizeOf(rest) + size <= MaxBytes
    BY <1>1, <1>5
  <2>2. packet \in Packet /\ packet.ticket = tickets + 1
    BY <1>2, <2>1, SchedulerConstants DEF Packet
  <2>3. packet \notin rest
    BY <1>2, <1>4, <2>2, SchedulerConstants
  <2>4. TypeOK'
    <3>1. tickets' \in 0 .. MaxTickets
      BY <1>2, <2>1, SchedulerConstants
    <3>2. \A p \in rest \union {packet} : p.ticket <= tickets + 1
      BY <1>2, <1>4, <2>2, SchedulerConstants
    <3>3. \A p, q \in rest \union {packet} : p.ticket = q.ticket => p = q
      BY <1>1, <1>2, <1>4, <2>2, SchedulerConstants
    <3>4. rest \union {packet} \subseteq Packet
      BY <1>1, <1>2, <2>2
    <3> HIDE DEF packet
    <3> QED
      BY <1>3, <1>5, <2>1, <3>1, <3>2, <3>3, <3>4 DEF TypeOK
  <2>5. Exact(queue') /\ WithinLimits'
    <3>1. packet.size = size
      OBVIOUS
    <3> HIDE DEF packet
    <3>2. rest \in SUBSET Packet /\ IsFiniteSet(rest)
      BY <1>1, <1>2
    <3>3. IsFiniteSet(rest \union {packet})
          /\ Cardinality(rest \union {packet}) = Cardinality(rest) + 1
      BY <2>3, <3>2, FS_AddElement
    <3>4. SizeOf(rest \union {packet}) = SizeOf(rest) + size
      BY <2>2, <2>3, <3>1, <3>2, BytesWith
    <3>5. Cardinality(rest) \in Nat
      BY <3>2, FS_CardinalityType
    <3>6. Exact(queue')
      BY <2>1, <2>2, <3>2, <3>3, <3>4 DEF Exact
    <3>7. WithinLimits'
      BY <2>1, <3>3, <3>4, <3>5, SchedulerConstants DEF WithinLimits
    <3> QED
      BY <3>6, <3>7
  <2>6. OneSnapshotPerStream'
    <3> SUFFICES ASSUME NEW p \in rest \union {packet}, NEW q \in rest \union {packet},
                        IsCoalescible(p.type, p.reliable), ~q.reliable,
                        <<p.peer, p.type, p.stream>> = <<q.peer, q.type, q.stream>>
                 PROVE  p = q
      BY <2>1 DEF OneSnapshotPerStream
    <3>0. /\ packet.peer = peer /\ packet.type = kind[1] /\ packet.stream = stream
          /\ packet.reliable = kind[2]
      OBVIOUS
    <3> HIDE DEF packet
    <3>1. CASE p \in rest /\ q \in rest
      BY <1>1, <1>2, <3>1 DEF OneSnapshotPerStream
    <3>2. CASE p = packet /\ q \in rest
      <4>1. IsCoalescible(kind[1], kind[2]) /\ q \in same
        BY <1>1, <3>0, <3>2 DEF Unreliable
      <4> QED
        BY <1>1, <3>2, <4>1
    <3>3. CASE q = packet /\ p \in rest
      <4>1. ~p.reliable /\ IsCoalescible(kind[1], kind[2]) /\ p \in same
        BY <1>1, <3>0, <3>3 DEF Unreliable, IsCoalescible
      <4> QED
        BY <1>1, <3>3, <4>1
    <3> QED
      BY <3>1, <3>2, <3>3
  <2> QED
    BY <2>4, <2>5, <2>6 DEF IInv
<1>6. CASE answer' = "refused"
  <2>1. tickets' = tickets /\ queue'.packets = rest /\ Exact(queue')
    BY <1>1, <1>6
  <2>2. TypeOK'
    BY <1>1, <1>2, <1>3, <1>6, <2>1 DEF TypeOK
  <2>3. OneSnapshotPerStream'
    BY <1>1, <1>2, <2>1 DEF OneSnapshotPerStream
  <2>4. WithinLimits'
    BY <1>2, <2>1, FewerFit DEF WithinLimits
  <2> QED
    BY <2>1, <2>2, <2>3, <2>4 DEF IInv
<1> QED
  BY <1>1, <1>5, <1>6

\* A flush leaves an empty window and sends packets that were in it.
LEMMA InvFlush ==
  ASSUME IInv, NEW reachable \in SUBSET Peer, Flush(reachable)
  PROVE  IInv'
<1>1. queue' = Empty /\ tickets' = 0 /\ sent' \subseteq Packet /\ answer' = "void"
  BY DEF Flush, IInv, TypeOK
<1>2. (queue = Empty /\ tickets = 0 /\ sent \subseteq Packet /\ answer = "void" => IInv)'
  BY EmptyIsFine, PTL
<1> QED
  BY <1>1, <1>2

\* A clear leaves an empty window.
LEMMA InvClear ==
  ASSUME IInv, Clear
  PROVE  IInv'
<1>1. queue' = Empty /\ tickets' = 0 /\ sent' = {} /\ answer' = "void"
  BY DEF Clear
<1>2. (queue = Empty /\ tickets = 0 /\ sent \subseteq Packet /\ answer = "void" => IInv)'
  BY EmptyIsFine, PTL
<1> QED
  BY <1>1, <1>2

\* Every call on the scheduler keeps the invariant.
LEMMA InvStep == IInv /\ [Next]_vars => IInv'
<1> SUFFICES ASSUME IInv, [Next]_vars PROVE IInv'
  OBVIOUS
<1>1. ASSUME NEW size \in Size, EnqueueOversized(size) PROVE IInv'
  BY <1>1 DEF EnqueueOversized, IInv, TypeOK, Exact, WithinLimits, OneSnapshotPerStream
<1>2. CASE UNCHANGED vars
  BY <1>2 DEF vars, IInv, TypeOK, Exact, WithinLimits, OneSnapshotPerStream
<1> QED
  BY <1>1, <1>2, InvEnqueue, InvFlush, InvClear, Zenon DEF Next

\* The inductive invariant holds of every history of the window.
THEOREM SchedulerInvariant == Spec => []IInv
  BY InvInit, InvStep, PTL DEF Spec

\* Every queued packet is one that was handed in, under its own ticket.
THEOREM SchedulerTypeCorrect == Spec => []TypeOK
<1>1. IInv => TypeOK
  BY DEF IInv
<1> QED
  BY <1>1, SchedulerInvariant, PTL

\* queued_packet_count_ and queued_byte_count_ never drift from the deques, and
\* the deques stay within both limits, whatever is coalesced, dropped or refused
\* (enqueue_plain, flush_plain, clear).
THEOREM SchedulerBudgetExact == Spec => []BudgetIsExact
<1>1. IInv => BudgetIsExact
  BY DEF IInv, Exact, BudgetIsExact, CountIsExact, BytesAreExact
<1> QED
  BY <1>1, SchedulerInvariant, PTL

\* One unreliable snapshot of a stream waits for a peer at any time, although
\* remove_coalesced_packet stops at its first match.
THEOREM SchedulerOneSnapshot == Spec => []OneSnapshotPerStream
<1>1. IInv => OneSnapshotPerStream
  BY DEF IInv
<1> QED
  BY <1>1, SchedulerInvariant, PTL

\* Only flush and clear take a reliable packet out of the window.
THEOREM SchedulerKeepsReliable == Spec => ReliableKept
<1>1. IInv /\ [Next]_vars =>
        [\A p \in queue.packets : p.reliable => p \in queue'.packets \/ answer' = "void"]_vars
  <2> SUFFICES ASSUME IInv, Next, NEW p \in queue.packets, p.reliable
               PROVE  p \in queue'.packets \/ answer' = "void"
    OBVIOUS
  <2>1. ASSUME NEW peer \in Peer, NEW kind \in Sends, NEW stream \in Stream,
               NEW size \in Size, Enqueue(peer, kind[1], stream, size, kind[2])
        PROVE  p \in queue'.packets
    <3>1. PICK rest \in SUBSET queue.packets :
            p \in rest /\ rest \subseteq queue'.packets
      BY <2>1, EnqueueEffect
    <3> QED
      BY <3>1
  <2>2. ASSUME NEW size \in Size, EnqueueOversized(size) PROVE p \in queue'.packets
    BY <2>2 DEF EnqueueOversized
  <2>3. ASSUME NEW reachable \in SUBSET Peer, Flush(reachable) PROVE answer' = "void"
    BY <2>3 DEF Flush
  <2>4. ASSUME Clear PROVE answer' = "void"
    BY <2>4 DEF Clear
  <2> QED
    BY <2>1, <2>2, <2>3, <2>4, Zenon DEF Next
<1> QED
  BY <1>1, SchedulerInvariant, PTL DEF Spec, ReliableKept

\* Pending snapshots and traffic never make the window refuse a packet.
THEOREM SchedulerRefusesOnlyForReliable == Spec => RefusedOnlyByReliable
<1>1. IInv /\ [Next]_vars =>
        [answer' = "refused" => \A p \in queue'.packets : p.reliable]_vars
  <2> SUFFICES ASSUME IInv, Next, answer' = "refused"
               PROVE  \A p \in queue'.packets : p.reliable
    OBVIOUS
  <2>1. ASSUME NEW peer \in Peer, NEW kind \in Sends, NEW stream \in Stream,
               NEW size \in Size, Enqueue(peer, kind[1], stream, size, kind[2])
        PROVE  \A p \in queue'.packets : p.reliable
    BY <2>1, EnqueueEffect
  <2>2. \A size \in Size : ~EnqueueOversized(size)
    BY DEF EnqueueOversized
  <2>3. \A reachable \in SUBSET Peer : ~Flush(reachable)
    BY DEF Flush
  <2>4. ~Clear
    BY DEF Clear
  <2> QED
    BY <2>1, <2>2, <2>3, <2>4, Zenon DEF Next
<1> QED
  BY <1>1, SchedulerInvariant, PTL DEF Spec, RefusedOnlyByReliable
=============================================================================
