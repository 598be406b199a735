------------------------ MODULE EnemyAuthorityProofs ------------------------
(***************************************************************************)
(* For every number of machines: the records, slots and events have their  *)
(* types, and the host does not lose an enemy that fights it.              *)
(***************************************************************************)
EXTENDS EnemyAuthority, TLAPS

Records == [on : BOOLEAN, owner : Players, aggro : BOOLEAN,
            moved : {"new", "old"}, heard : Ages]

Slots == States \cup {None, Stale}

\* The stages of a frame lead from a record to a record.
LEMMA MineIsRecord == ASSUME NEW p \in Players PROVE Mine(p) \in Records
BY DEF Mine, Records, Ages

LEMMA RecordedIsRecord ==
  ASSUME NEW p \in Players, NEW r \in Records, NEW s \in Slots, NEW here,
         NEW nearest \in Players
  PROVE  Recorded(p, r, s, here, nearest) \in Records
<1>1. CASE ~r.on /\ Fresh(s)
  <2>1. s.owner \in Players
    BY <1>1 DEF Fresh, Slots, States
  <2> QED
    BY <1>1, <2>1, MineIsRecord DEF Recorded, Mine, Records
<1> QED
  BY <1>1, MineIsRecord DEF Recorded

LEMMA AgedIsRecord ==
  ASSUME NEW r \in Records, NEW old
  PROVE  /\ Aged(r, old) \in Records
         /\ Aged(r, old).on = r.on /\ Aged(r, old).owner = r.owner
         /\ Aged(r, old).aggro = r.aggro
         /\ r.heard = "new" => Aged(r, old).heard # "old"
<1> DEFINE moved == IF "moved" \in old THEN "old" ELSE r.moved
           heard == IF "heard" \in old THEN Older(r.heard) ELSE r.heard
<1>1. moved \in {"new", "old"}
  BY DEF Records
<1>2. heard \in Ages /\ (r.heard = "new" => heard # "old")
  BY DEF Records, Ages, Older
<1>3. Aged(r, old) = [[r EXCEPT !.moved = moved] EXCEPT !.heard = heard]
  BY DEF Aged, Records
<1> HIDE DEF moved, heard
<1>4. [r EXCEPT !.moved = moved] \in Records
  BY <1>1 DEF Records
<1> QED
  BY <1>1, <1>2, <1>3, <1>4 DEF Records

LEMMA HeardIsRecord ==
  ASSUME NEW p \in Players, NEW r \in Records, NEW s \in Slots, NEW here
  PROVE  Heard(p, r, s, here) \in Records
<1>1. CASE Fresh(s)
  <2>1. s.owner \in Players /\ s.aggro \in BOOLEAN
    BY <1>1 DEF Fresh, Slots, States
  <2>2. [r EXCEPT !.heard = "new"] \in Records
    BY DEF Records, Ages
  <2>3. \A q \in Records : Yielded(p, q, s) \in Records
    BY <2>1, PlayersAssumption DEF Yielded, Records
  <2>4. \A q \in Records : Followed(p, q, s, here) \in Records
    BY <2>1 DEF Followed, Records
  <2> QED
    BY <1>1, <2>2, <2>3, <2>4 DEF Heard
<1> QED
  BY <1>1 DEF Heard

LEMMA AskedIsRecord ==
  ASSUME NEW p \in Players, NEW r \in Records, NEW here, NEW noticed \in BOOLEAN
  PROVE  Asked(p, r, here, noticed) \in Records
BY DEF Asked, Records

LEMMA KeptIsRecord ==
  ASSUME NEW p \in Players, NEW r \in Records, NEW s
  PROVE  Kept(p, r, s) \in Records
BY DEF Kept, Records

\* What an event adds to the queues is an event.
LEMMA SentIsTyped ==
  ASSUME TypeOK, NEW p, NEW event \in {"request", "ack"}
  PROVE  Sent(p, event) \in [Players \X Players -> Seq({"request", "ack"})]
BY DEF TypeOK, Sent

LEMMA FrameIsTyped ==
  ASSUME TypeOK, NEW p \in Players, NEW old, NEW here, NEW nearest \in Players,
         NEW noticed \in BOOLEAN, NEW to, Frame(p, old, here, nearest, noticed, to)
  PROVE  TypeOK'
<1>1. PICK s \in {SlotAged(slot[p], old)}, aged \in {Aged(rec[p], old)} :
      \E r \in {IF aged.heard = "old" THEN Released(p) ELSE aged} :
      \E h \in {Heard(p, Recorded(p, r, s, here, nearest), s, here)} :
      \E a \in {Asked(p, h, here, noticed)} :
        /\ rec' = [rec EXCEPT ![p] = Kept(p, a, s)]
        /\ slot' = Shown(p, a, s, to)
        /\ events' = IF Asks(p, h, here, noticed) THEN Sent(p, "request") ELSE events
  BY DEF Frame
<1>2. PICK r \in {IF aged.heard = "old" THEN Released(p) ELSE aged} :
      \E h \in {Heard(p, Recorded(p, r, s, here, nearest), s, here)} :
      \E a \in {Asked(p, h, here, noticed)} :
        /\ rec' = [rec EXCEPT ![p] = Kept(p, a, s)]
        /\ slot' = Shown(p, a, s, to)
        /\ events' = IF Asks(p, h, here, noticed) THEN Sent(p, "request") ELSE events
  BY <1>1
<1>3. PICK h \in {Heard(p, Recorded(p, r, s, here, nearest), s, here)} :
      \E a \in {Asked(p, h, here, noticed)} :
        /\ rec' = [rec EXCEPT ![p] = Kept(p, a, s)]
        /\ slot' = Shown(p, a, s, to)
        /\ events' = IF Asks(p, h, here, noticed) THEN Sent(p, "request") ELSE events
  BY <1>2
<1>4. PICK a \in {Asked(p, h, here, noticed)} :
        /\ rec' = [rec EXCEPT ![p] = Kept(p, a, s)]
        /\ slot' = Shown(p, a, s, to)
        /\ events' = IF Asks(p, h, here, noticed) THEN Sent(p, "request") ELSE events
  BY <1>3
<1>5. rec \in [Players -> Records] /\ slot \in [Players -> Slots]
  BY DEF TypeOK, Records, Slots
<1>6. s \in Slots
  BY <1>1, <1>5 DEF SlotAged, Slots
<1>7. aged \in Records
  BY <1>1, <1>5, AgedIsRecord
<1>8. r \in Records
  <2>1. Released(p) \in Records
    BY DEF Released, Mine, Records, Ages
  <2> QED
    BY <1>2, <1>7, <2>1
<1>9. h \in Records
  BY <1>3, <1>6, <1>8, RecordedIsRecord, HeardIsRecord
<1>10. a \in Records
  BY <1>4, <1>9, AskedIsRecord
<1>11. rec' \in [Players -> Records]
  BY <1>4, <1>5, <1>6, <1>10, KeptIsRecord
<1>12. slot' \in [Players -> Slots]
  <2>1. [owner |-> p, aggro |-> a.aggro] \in Slots
    BY <1>10 DEF Slots, States, Records
  <2>2. \A q \in Players : slot[q] \in Slots
    BY <1>5
  <2> QED
    BY <1>4, <1>6, <2>1, <2>2 DEF Shown
<1>13. events' \in [Players \X Players -> Seq({"request", "ack"})]
  BY <1>4, SentIsTyped DEF TypeOK
<1> QED
  BY <1>11, <1>12, <1>13 DEF TypeOK, Records, Slots

LEMMA TypeIsInductive == TypeOK /\ [Next]_vars => TypeOK'
<1> SUFFICES ASSUME TypeOK, [Next]_vars PROVE TypeOK'
  OBVIOUS
<1>1. ASSUME NEW p \in Players, AnyFrame(p) PROVE TypeOK'
  BY <1>1, FrameIsTyped DEF AnyFrame, Remotes
<1>2. ASSUME NEW p \in Players, Culled(p) PROVE TypeOK'
  <2>1. Released(p) \in Records
    BY DEF Released, Mine, Records, Ages
  <2> QED
    BY <1>2, <2>1 DEF Culled, TypeOK, SlotAged, Records
<1>3. ASSUME NEW p \in Players, NEW q \in Players, RequestHeard(p, q) PROVE TypeOK'
  <2>1. Sent(q, "ack") \in [Players \X Players -> Seq({"request", "ack"})]
    BY SentIsTyped
  <2>2. Tail(events[<<p, q>>]) \in Seq({"request", "ack"})
    BY <1>3 DEF RequestHeard, TypeOK
  <2>3. \A f \in [Players \X Players -> Seq({"request", "ack"})] :
          f[<<p, q>>] # <<>> => [f EXCEPT ![<<p, q>>] = Tail(@)] \in [Players \X Players -> Seq({"request", "ack"})]
    OBVIOUS
  <2>4. Sent(q, "ack")[<<p, q>>] # <<>>
    BY <1>3 DEF RequestHeard, Sent, TypeOK
  <2>5. events' \in [Players \X Players -> Seq({"request", "ack"})]
    BY <1>3, <2>1, <2>3, <2>4 DEF RequestHeard, TypeOK
  <2>6. rec' \in [Players -> Records]
    <3>1. rec \in [Players -> Records]
      BY DEF TypeOK, Records
    <3>2. [rec EXCEPT ![q].owner = p] \in [Players -> Records]
      BY <3>1 DEF Records
    <3>3. \A f \in [Players -> Records] : [f EXCEPT ![q].moved = "new"] \in [Players -> Records]
      BY DEF Records
    <3>4. \A f \in [Players -> Records] : [f EXCEPT ![q].heard = "new"] \in [Players -> Records]
      BY DEF Records, Ages
    <3> QED
      BY <1>3, <3>1, <3>2, <3>3, <3>4 DEF RequestHeard
  <2> QED
    BY <1>3, <2>5, <2>6 DEF RequestHeard, TypeOK, Records
<1>4. ASSUME NEW p \in Players, NEW q \in Players, AckHeard(p, q) PROVE TypeOK'
  <2>1. Tail(events[<<p, q>>]) \in Seq({"request", "ack"})
    BY <1>4 DEF AckHeard, TypeOK
  <2>2. rec' \in [Players -> Records]
    <3>1. rec \in [Players -> Records]
      BY DEF TypeOK, Records
    <3>2. [rec EXCEPT ![q].owner = q] \in [Players -> Records]
      BY <3>1 DEF Records
    <3>3. \A f \in [Players -> Records] : [f EXCEPT ![q].moved = "new"] \in [Players -> Records]
      BY DEF Records
    <3> QED
      BY <1>4, <3>1, <3>2, <3>3 DEF AckHeard
  <2> QED
    BY <1>4, <2>1, <2>2 DEF AckHeard, TypeOK, Records
<1>5. CASE UNCHANGED vars
  BY <1>5 DEF vars, TypeOK
<1> QED
  BY <1>1, <1>2, <1>3, <1>4, <1>5 DEF Next

\* Every machine's record names a player as the owner, and every slot holds a
\* state, nothing or a state too old to count.
THEOREM EnemyTypeCorrect == Spec => []TypeOK
<1>1. Init => TypeOK
  BY MineIsRecord DEF Init, TypeOK, Records
<1> QED
  BY <1>1, TypeIsInductive, PTL DEF Spec

----------------------------------------------------------------------------

\* A frame of the host leaves it an enemy that fights it.
LEMMA FrameKeepsFight ==
  ASSUME TypeOK, NEW old, NEW here, NEW nearest, NEW noticed, NEW to,
         Frame(Host, old, here, nearest, noticed, to),
         Drives(Host), rec[Host].aggro, rec[Host].heard = "new"
  PROVE  rec'[Host].owner = Host
<1> DEFINE s == SlotAged(slot[Host], old)
           r == Aged(rec[Host], old)
           h == Heard(Host, Recorded(Host, r, s, here, nearest), s, here)
           a == Asked(Host, h, here, noticed)
<1>1. rec[Host] \in Records /\ rec \in [Players -> Records]
  BY PlayersAssumption DEF TypeOK, Records
<1>2. r \in Records /\ r.on /\ r.owner = Host /\ r.aggro /\ r.heard # "old"
  BY <1>1, AgedIsRecord DEF Drives
<1>3. rec' = [rec EXCEPT ![Host] = Kept(Host, a, s)]
  <2>1. \E r1 \in {IF r.heard = "old" THEN Released(Host) ELSE r} :
        \E h1 \in {Heard(Host, Recorded(Host, r1, s, here, nearest), s, here)} :
        \E a1 \in {Asked(Host, h1, here, noticed)} :
          rec' = [rec EXCEPT ![Host] = Kept(Host, a1, s)]
    BY DEF Frame
  <2> HIDE DEF r, s
  <2>2. \E h1 \in {Heard(Host, Recorded(Host, r, s, here, nearest), s, here)} :
        \E a1 \in {Asked(Host, h1, here, noticed)} :
          rec' = [rec EXCEPT ![Host] = Kept(Host, a1, s)]
    BY <1>2, <2>1
  <2> QED
    BY <2>2
<1>4. h.owner = Host
  <2>1. Recorded(Host, r, s, here, nearest) = r
    BY <1>2 DEF Recorded
  <2>2. [r EXCEPT !.heard = "new"].owner = Host /\ [r EXCEPT !.heard = "new"].aggro
    BY <1>2 DEF Records
  <2> HIDE DEF r, s
  <2> QED
    BY <1>2, <2>1, <2>2 DEF Heard, Yielded, Followed
<1>5. h \in Records
  <2> QED BY <1>2 DEF Recorded, Heard, Yielded, Followed, Records, Ages
<1>6. a.owner = Host /\ a \in [on : BOOLEAN, owner : Players, aggro : {a.aggro}, moved : {"new", "old"}, heard : Ages]
  BY <1>4, <1>5 DEF Asked, Records
<1>7. Kept(Host, a, s).owner = Host
  <2> HIDE DEF a, s
  <2> QED
    BY <1>6, PlayersAssumption DEF Kept
<1> QED
  BY <1>1, <1>3, <1>7, PlayersAssumption

\* Whatever it hears, is asked or loses, the host goes on driving an enemy that
\* fights it, as long as it runs it and has heard of others lately.
THEOREM HostKeepsFighting == Spec => HostKeepsItsFight
<1>1. ASSUME TypeOK, [Next]_vars, Drives(Host), rec[Host].aggro, rec[Host].heard = "new",
             rec'[Host].on
      PROVE  rec'[Host].owner = Host
  <2>1. rec \in [Players -> Records] /\ Host \in Players /\ rec[Host].owner = Host
    BY <1>1, PlayersAssumption DEF TypeOK, Records, Drives
  <2>2. ASSUME NEW p \in Players, AnyFrame(p) PROVE rec'[Host].owner = Host
    <3>1. CASE p = Host
      BY <1>1, <2>2, <3>1, FrameKeepsFight DEF AnyFrame
    <3>2. CASE p # Host
      BY <2>1, <2>2, <3>2 DEF AnyFrame, Frame
    <3> QED
      BY <3>1, <3>2
  <2>3. ASSUME NEW p \in Players, Culled(p) PROVE rec'[Host].owner = Host
    BY <1>1, <2>1, <2>3 DEF Culled, Released, Mine, Records
  <2>4. ASSUME NEW p \in Players, NEW q \in Players, RequestHeard(p, q) PROVE rec'[Host].owner = Host
    BY <1>1, <2>1, <2>4 DEF RequestHeard, Yields, Records
  <2>5. ASSUME NEW p \in Players, NEW q \in Players, AckHeard(p, q) PROVE rec'[Host].owner = Host
    BY <2>1, <2>5 DEF AckHeard, Records
  <2>6. CASE UNCHANGED vars
    BY <2>1, <2>6 DEF vars
  <2> QED
    BY <1>1, <2>2, <2>3, <2>4, <2>5, <2>6 DEF Next
<1>2. TypeOK /\ [Next]_vars
        => [Drives(Host) /\ rec[Host].aggro /\ rec[Host].heard = "new" /\ rec'[Host].on
              => rec'[Host].owner = Host]_vars
  BY <1>1
<1> QED
  BY <1>2, EnemyTypeCorrect, PTL DEF Spec, HostKeepsItsFight
=============================================================================
