------------------------ MODULE DeathSpectateProofs ------------------------
(***************************************************************************)
(* Proofs about DeathSpectate.  Two things are followed through events,    *)
(* states and puppets that do not wait for each other: that a death which  *)
(* is over will be revoked on every machine (NoLastingDeath), and that of  *)
(* any players who wait one knows of all the others (SomebodyHasHeard).    *)
(***************************************************************************)
EXTENDS DeathSpectate, SequenceTheorems, TLAPS

\* The last event of a queue.
LastWord(s) == s[Len(s)]

\* What is sent is the last word of the queue it is appended to.
LEMMA AppendWord ==
  ASSUME NEW s \in Seq(Events), NEW e \in Events
  PROVE  /\ Append(s, e) \in Seq(Events) /\ Append(s, e) # <<>>
         /\ LastWord(Append(s, e)) = e
  BY DEF LastWord

\* Handling an event leaves the last word, unless it was that one.
LEMMA TailWord ==
  ASSUME NEW s \in Seq(Events), s # <<>>
  PROVE  /\ Tail(s) \in Seq(Events) /\ Head(s) \in Events
         /\ Tail(s) # <<>> => LastWord(Tail(s)) = LastWord(s)
         /\ Tail(s) = <<>> => Head(s) = LastWord(s)
<1>1. /\ Tail(s) \in Seq(Events) /\ Head(s) = s[1] /\ s[1] \in Events
      /\ Len(Tail(s)) = Len(s) - 1 /\ Len(s) \in Nat \ {0}
      /\ \A i \in 1 .. Len(s) - 1 : Tail(s)[i] = s[i + 1]
  BY HeadTailProperties, ElementOfSeq, LenProperties, EmptySeq
<1>2. Tail(s) = <<>> <=> Len(s) = 1
  BY <1>1, EmptySeq
<1> QED
  BY <1>1, <1>2 DEF LastWord

\* Broadcasting appends to the queues of the others.
LEMMA SentWires ==
  ASSUME TypeOK, NEW p \in Players, NEW e \in Events
  PROVE  /\ Sent(p, e) \in [Players -> [Players -> Seq(Events)]]
         /\ \A q, r \in Players :
              Sent(p, e)[q][r] = IF q = p /\ r # p /\ phase[r] # "out"
                                   THEN Append(wire[q][r], e) ELSE wire[q][r]
<1>1. wire \in [Players -> [Players -> Seq(Events)]]
  BY DEF TypeOK
<1>2. \A q, r \in Players : Append(wire[q][r], e) \in Seq(Events)
  BY <1>1, AppendWord
<1> QED
  BY <1>1, <1>2 DEF Sent, Present

\* Who leaves is told nothing more.
LEMMA LeaveWires ==
  ASSUME TypeOK, NEW p \in Players, Leave(p)
  PROVE  \A q, r \in Players : wire'[q][r] = IF r = p THEN <<>> ELSE Sent(p, "leave")[q][r]
<1>1. Sent(p, "leave") \in [Players -> [Players -> Seq(Events)]]
  BY SentWires DEF Events
<1>2. wire' = [q \in Players |-> [Sent(p, "leave")[q] EXCEPT ![p] = <<>>]]
  BY DEF Leave
<1> QED
  BY <1>1, <1>2

\* Every step keeps the types.
LEMMA Typing == TypeOK /\ [Next]_vars => TypeOK'
<1> SUFFICES ASSUME TypeOK, [Next]_vars PROVE TypeOK'
  OBVIOUS
<1> USE DEF TypeOK, Enter, machines, records
<1>1. ASSUME ChaseEnds PROVE TypeOK'
  BY <1>1 DEF ChaseEnds
<1>2. ASSUME NEW p \in Players, Dies(p) PROVE TypeOK'
  BY <1>2, BoundsAssumption DEF Dies
<1>3. ASSUME NEW p \in Players, DeathEnds(p) PROVE TypeOK'
  BY <1>3, SentWires DEF DeathEnds, Events
<1>4. ASSUME NEW p \in Players, GivesUp(p) PROVE TypeOK'
  BY <1>4, SentWires DEF GivesUp, Events, WipesParty, AllRemotePlayersDead
<1>5. ASSUME NEW p \in Players, Spawns(p) PROVE TypeOK'
  BY <1>5, SentWires DEF Spawns, Events
<1>6. ASSUME NEW p \in Players, StateArrives(p) PROVE TypeOK'
  BY <1>6 DEF StateArrives, ShowsDeath
<1>7. ASSUME NEW p \in Players, Leave(p) PROVE TypeOK'
  <2>2. wire' \in [Players -> [Players -> Seq(Events)]]
    BY <1>7, SentWires DEF Leave, Events
  <2> QED
    BY <1>7, <2>2, BoundsAssumption DEF Leave
<1>8. ASSUME NEW p \in Players, Join(p) PROVE TypeOK'
  <2>1. life' \in [Players -> [Players -> {"live", "dying", "dead"}]]
    BY <1>8 DEF Join, LifeOfPuppet
  <2>2. wire' \in [Players -> [Players -> Seq(Events)]]
    BY <1>8, SentWires DEF Join, Events
  <2> QED
    BY <1>8, <2>1, <2>2, BoundsAssumption DEF Join, Present
<1>9. ASSUME NEW p \in Players, NEW q \in Players, RespawnsAt(p, q) PROVE TypeOK'
  BY <1>9, SentWires DEF RespawnsAt, Events
<1>10. ASSUME NEW p \in Players, NEW q \in Players, PuppetRespawns(p, q) PROVE TypeOK'
  BY <1>10 DEF PuppetRespawns, LifeOfPuppet
<1>11. ASSUME NEW p \in Players, NEW q \in Players, Handle(p, q) PROVE TypeOK'
  <2>2. ASSUME NEW e, Heard(p, q, e) PROVE wire' \in [Players -> [Players -> Seq(Events)]]
    BY <2>2, TailWord DEF Heard
  <2>3. CASE RemotePlayerDied(p, q)
    BY <2>2, <2>3, <1>11 DEF RemotePlayerDied
  <2>4. CASE RemotePlayerRespawned(p, q)
    BY <2>2, <2>4, <1>11 DEF RemotePlayerRespawned
  <2>5. CASE PartyWipeReceive(p, q)
    BY <2>2, <2>5 DEF PartyWipeReceive, DeadOrSpectating
  <2>6. CASE PlayerLeft(p, q)
    BY <2>2, <2>6, <1>11 DEF PlayerLeft
  <2>7. CASE PlayerJoined(p, q)
    BY <2>2, <2>7, <1>11 DEF PlayerJoined
  <2> QED
    BY <1>11, <2>3, <2>4, <2>5, <2>6, <2>7 DEF Handle
<1>12. ASSUME UNCHANGED vars PROVE TypeOK'
  BY <1>12 DEF vars
<1> QED
  BY <1>1, <1>2, <1>3, <1>4, <1>5, <1>6, <1>7, <1>8, <1>9, <1>10, <1>11, <1>12 DEF Next

\* The return is announced only by who starts over.
Announced == \A p \in Players : announce[p] => phase[p] = "reset"

\* Who starts over untold has settled the death locally.
Untold == \A p \in Players : phase[p] = "reset" /\ ~announce[p] => p \in settled

\* Who is out believes nothing and is told nothing.
Absent ==
  \A p \in Players : phase[p] = "out" =>
    conn[p] = {} /\ \A q \in Players : wire[q][p] = <<>> /\ life[p][q] = "live"

\* Nobody is connected with itself, or hears itself.
NoEcho == \A p \in Players : p \notin conn[p] /\ wire[p][p] = <<>>

\* Who is chased is in the game and dies locally, if at all.
ChaseIsOn == chase => Chaser \in Players /\ phase[Chaser] \notin {"waiting", "out"}

\* Of somebody who waits, the last event under way is the death; of somebody who
\* left, the departure.
LastWords ==
  \A p, q \in Players : wire[q][p] # <<>> =>
    /\ phase[q] = "waiting" => LastWord(wire[q][p]) = "died"
    /\ phase[q] = "out" => LastWord(wire[q][p]) = "leave"

\* A connection outlives its player only until the departure is heard.
Departed == \A p, q \in Players : phase[q] = "out" /\ q \in conn[p] => wire[q][p] # <<>>

\* A death whose state was seen is known, or something is still to be heard of it.
DeathIsShown ==
  \A p, q \in Players :
    phase[q] = "waiting" /\ seen[q] /\ q \in conn[p] => life[p][q] # "live" \/ wire[q][p] # <<>>

\* What does not depend on the order of the events under way.
Basics == TypeOK /\ Announced /\ WipeIsOfThisDeath /\ Untold /\ Absent /\ NoEcho /\ ChaseIsOn

\* A broadcast reaches neither the sender nor who is out.
LEMMA SentQuietly ==
  ASSUME Basics, NEW p \in Players, NEW e \in Events
  PROVE  /\ \A r \in Players : Sent(p, e)[r][r] = <<>>
         /\ \A q, r \in Players : phase[r] = "out" => Sent(p, e)[q][r] = <<>>
<1>1. TypeOK /\ NoEcho /\ Absent
  BY DEF Basics
<1>2. \A q, r \in Players :
        Sent(p, e)[q][r] = IF q = p /\ r # p /\ phase[r] # "out"
                             THEN Append(wire[q][r], e) ELSE wire[q][r]
  BY <1>1, SentWires
<1> QED
  BY <1>1, <1>2 DEF NoEcho, Absent

\* Every step keeps the basics.
LEMMA BasicsHold == Basics /\ [Next]_vars => Basics'
<1> SUFFICES ASSUME Basics, [Next]_vars PROVE Basics'
  OBVIOUS
<1>0. TypeOK /\ TypeOK'
  BY Typing DEF Basics
<1> DEFINE P == Announced /\ WipeIsOfThisDeath /\ Untold /\ Absent /\ NoEcho /\ ChaseIsOn
<1>p. P /\ Basics
  BY DEF Basics
<1> USE
   DEF Announced, WipeIsOfThisDeath, Untold, Absent, NoEcho, ChaseIsOn, TypeOK, Enter,
       machines, records
<1>1. ASSUME ChaseEnds PROVE P'
  BY <1>0, <1>p, <1>1 DEF ChaseEnds
<1>2. ASSUME NEW p \in Players, Dies(p) PROVE P'
  BY <1>0, <1>p, <1>2 DEF Dies
<1>3. ASSUME NEW p \in Players, DeathEnds(p) PROVE P'
  <2>1. Absent' /\ NoEcho'
    BY <1>0, <1>p, <1>3, SentQuietly DEF DeathEnds, Events
  <2>2. ChaseIsOn'
    BY <1>0, <1>p, <1>3 DEF DeathEnds, UsesLocalRespawn, BlocksRespawn
  <2>3. Announced' /\ WipeIsOfThisDeath' /\ Untold'
    BY <1>0, <1>p, <1>3 DEF DeathEnds
  <2> QED
    BY <2>1, <2>2, <2>3
<1>4. ASSUME NEW p \in Players, GivesUp(p) PROVE P'
  <2>1. wire' = wire \/ wire' = Sent(p, "wipe")
    BY <1>4 DEF GivesUp
  <2>2. phase' = [phase EXCEPT ![p] = "reset"] /\ announce' = [announce EXCEPT ![p] = TRUE]
        /\ UNCHANGED <<conn, chase, settled, life>> /\ phase[p] = "waiting"
    BY <1>4 DEF GivesUp
  <2>3. Absent' /\ NoEcho'
    <3>1. \A q, r \in Players : q = r \/ phase[r] = "out" => wire'[q][r] = <<>>
      <4>1. CASE wire' = wire
        BY <1>p, <4>1
      <4>2. CASE wire' = Sent(p, "wipe")
        BY <1>p, <4>2, SentQuietly DEF Events
      <4> QED
        BY <2>1, <4>1, <4>2
    <3> QED
      BY <1>0, <1>p, <2>2, <3>1
  <2>4. Announced' /\ ChaseIsOn' /\ Untold'
    BY <1>0, <1>p, <2>2
  <2>5. WipeIsOfThisDeath'
    BY <1>0, <1>p, <1>4 DEF GivesUp
  <2> QED
    BY <2>3, <2>4, <2>5
<1>5. ASSUME NEW p \in Players, Spawns(p) PROVE P'
  <2>1. wire' = wire \/ wire' = Sent(p, "respawned")
    BY <1>5 DEF Spawns
  <2>2. phase' = [phase EXCEPT ![p] = "alive"] /\ announce' = [announce EXCEPT ![p] = FALSE]
        /\ wiped' = [wiped EXCEPT ![p] = FALSE]
        /\ UNCHANGED <<conn, chase, settled, life>> /\ phase[p] = "reset"
    BY <1>5 DEF Spawns
  <2>3. Absent' /\ NoEcho'
    <3>1. \A q, r \in Players : q = r \/ phase[r] = "out" => wire'[q][r] = <<>>
      <4>1. CASE wire' = wire
        BY <1>p, <4>1
      <4>2. CASE wire' = Sent(p, "respawned")
        BY <1>p, <4>2, SentQuietly DEF Events
      <4> QED
        BY <2>1, <4>1, <4>2
    <3> QED
      BY <1>0, <1>p, <2>2, <3>1
  <2>4. Announced' /\ ChaseIsOn' /\ Untold' /\ WipeIsOfThisDeath'
    BY <1>0, <1>p, <2>2
  <2> QED
    BY <2>3, <2>4
<1>6. ASSUME NEW p \in Players, StateArrives(p) PROVE P'
  BY <1>0, <1>p, <1>6 DEF StateArrives
<1>7. ASSUME NEW p \in Players, Leave(p) PROVE P'
  <2>1. \A q, r \in Players : wire'[q][r] = IF r = p THEN <<>> ELSE Sent(p, "leave")[q][r]
    BY <1>0, <1>7, LeaveWires
  <2>2. /\ phase' = [phase EXCEPT ![p] = "out"] /\ announce' = [announce EXCEPT ![p] = FALSE]
        /\ wiped' = [wiped EXCEPT ![p] = FALSE] /\ conn' = [conn EXCEPT ![p] = {}]
        /\ life' = [life EXCEPT ![p] = [q \in Players |-> "live"]]
        /\ settled' = settled \ {p} /\ chase' = (chase /\ p # Chaser)
    BY <1>7 DEF Leave
  <2>3. Absent' /\ NoEcho'
    <3>1. \A q, r \in Players : q = r \/ phase'[r] = "out" => wire'[q][r] = <<>>
      <4>1. \A q, r \in Players : q = r \/ phase[r] = "out" => Sent(p, "leave")[q][r] = <<>>
        BY <1>p, SentQuietly DEF Events
      <4>2. \A r \in Players : phase'[r] = "out" => r = p \/ phase[r] = "out"
        BY <1>0, <2>2
      <4> QED
        BY <2>1, <4>1, <4>2
    <3> QED
      BY <1>0, <1>p, <2>2, <3>1
  <2>4. Announced' /\ Untold' /\ WipeIsOfThisDeath'
    BY <1>0, <1>p, <2>2
  <2>5. ChaseIsOn'
    <3>1. chase' => chase /\ p # Chaser
      BY <1>7, Zenon DEF Leave
    <3> QED
      BY <1>0, <1>p, <2>2, <3>1
  <2> QED
    BY <2>3, <2>4, <2>5
<1>8. ASSUME NEW p \in Players, Join(p) PROVE P'
  <2>1. /\ phase[p] = "out" /\ phase' = [phase EXCEPT ![p] = "alive"]
        /\ conn' = [conn EXCEPT ![p] = Present] /\ wire' = Sent(p, "join")
        /\ UNCHANGED <<announce, wiped, chase, settled>>
    BY <1>8 DEF Join
  <2>2. \A q \in Players : phase'[q] = IF q = p THEN "alive" ELSE phase[q]
    BY <1>0, <2>1
  <2>3. NoEcho'
    BY <1>0, <1>p, <2>1, SentQuietly DEF Events, Present
  <2>4. Absent'
    <3>1. \A r \in Players : r # p => life'[r] = life[r]
      BY <1>0, <1>8 DEF Join
    <3>2. \A r \in Players : phase'[r] = "out" => r # p /\ phase[r] = "out" /\ conn'[r] = conn[r]
      BY <1>0, <2>1, <2>2
    <3>3. \A q, r \in Players : phase[r] = "out" => wire'[q][r] = <<>>
      BY <1>p, <2>1, SentQuietly DEF Events
    <3> QED
      BY <1>p, <3>1, <3>2, <3>3
  <2>5. Announced' /\ WipeIsOfThisDeath' /\ Untold'
    BY <1>p, <2>1, <2>2
  <2>6. ChaseIsOn'
    BY <1>p, <2>1, <2>2
  <2> QED
    BY <2>3, <2>4, <2>5, <2>6
<1>9. ASSUME NEW p \in Players, NEW q \in Players, RespawnsAt(p, q) PROVE P'
  <2>1. /\ phase' = [phase EXCEPT ![p] = "alive"] /\ phase[p] = "waiting"
        /\ wire' = Sent(p, "respawned") /\ ~wiped[p]
        /\ UNCHANGED <<announce, wiped, conn, chase, settled, life>>
    BY <1>9 DEF RespawnsAt, ResetNeeded
  <2>2. \A r \in Players : phase'[r] = IF r = p THEN "alive" ELSE phase[r]
    BY <1>0, <2>1
  <2>3. NoEcho'
    BY <1>p, <2>1, SentQuietly DEF Events
  <2>4. Absent'
    <3>1. \A r \in Players : phase'[r] = "out" => phase[r] = "out"
      BY <2>2
    <3>2. \A s, r \in Players : phase[r] = "out" => wire'[s][r] = <<>>
      BY <1>p, <2>1, SentQuietly DEF Events
    <3> QED
      BY <1>p, <2>1, <3>1, <3>2
  <2>5. Announced' /\ WipeIsOfThisDeath' /\ Untold'
    BY <1>p, <2>1, <2>2
  <2>6. ChaseIsOn'
    BY <1>p, <2>1, <2>2
  <2> QED
    BY <2>3, <2>4, <2>5, <2>6
<1>10. ASSUME NEW p \in Players, NEW q \in Players, PuppetRespawns(p, q) PROVE P'
  BY <1>0, <1>p, <1>10 DEF PuppetRespawns
<1>11. ASSUME NEW p \in Players, NEW q \in Players, Handle(p, q) PROVE P'
  <2>1. wire[q][p] # <<>>
    BY <1>11
       DEF Handle, Heard, RemotePlayerDied, RemotePlayerRespawned, PartyWipeReceive,
           PlayerLeft, PlayerJoined
  <2>2. phase[p] # "out" /\ p # q
    BY <1>p, <2>1
  <2>3. CASE RemotePlayerDied(p, q)
    <3>1. UNCHANGED <<phase, announce, wiped, conn, chase, settled>>
      BY <2>3 DEF RemotePlayerDied
    <3>2. \A r, s \in Players : r # p \/ s # q => life'[r][s] = life[r][s]
      <4>1. life' = [life EXCEPT ![p][q] = "dead"]
        BY <2>3 DEF RemotePlayerDied
      <4> QED
        BY <1>0, <4>1
    <3>3. \A r, s \in Players : r # p \/ s # q => wire'[s][r] = wire[s][r]
      <4>1. wire' = [wire EXCEPT ![q][p] = Tail(@)]
        BY <2>3 DEF RemotePlayerDied, Heard
      <4> QED
        BY <1>0, <4>1
    <3> QED
      BY <1>p, <2>2, <3>1, <3>2, <3>3
  <2>4. CASE RemotePlayerRespawned(p, q)
    <3>1. UNCHANGED <<phase, announce, wiped, conn, chase, settled>>
      BY <2>4 DEF RemotePlayerRespawned
    <3>2. \A r, s \in Players : r # p \/ s # q => life'[r][s] = life[r][s]
      <4>1. life' = [life EXCEPT ![p][q] = "live"]
        BY <2>4 DEF RemotePlayerRespawned
      <4> QED
        BY <1>0, <4>1
    <3>3. \A r, s \in Players : r # p \/ s # q => wire'[s][r] = wire[s][r]
      <4>1. wire' = [wire EXCEPT ![q][p] = Tail(@)]
        BY <2>4 DEF RemotePlayerRespawned, Heard
      <4> QED
        BY <1>0, <4>1
    <3> QED
      BY <1>p, <2>2, <3>1, <3>2, <3>3
  <2>5. CASE PartyWipeReceive(p, q)
    BY <1>0, <1>p, <2>2, <2>5 DEF PartyWipeReceive, DeadOrSpectating, Heard
  <2>6. CASE PlayerLeft(p, q)
    <3>1. UNCHANGED <<phase, announce, wiped, chase, settled>>
      BY <2>6 DEF PlayerLeft
    <3>2. \A r \in Players : conn'[r] = IF r = p THEN conn[p] \ {q} ELSE conn[r]
      BY <1>0, <2>6 DEF PlayerLeft
    <3>3. \A r, s \in Players : life'[r][s] = IF r = p /\ s = q THEN "live" ELSE life[r][s]
      <4>1. life' = [life EXCEPT ![p][q] = "live"]
        BY <2>6 DEF PlayerLeft
      <4> QED
        BY <1>0, <4>1
    <3>4. \A r, s \in Players : r # p \/ s # q => wire'[s][r] = wire[s][r]
      <4>1. wire' = [wire EXCEPT ![q][p] = Tail(@)]
        BY <2>6 DEF PlayerLeft, Heard
      <4> QED
        BY <1>0, <4>1
    <3> QED
      BY <1>p, <2>2, <3>1, <3>2, <3>3, <3>4
  <2>7. CASE PlayerJoined(p, q)
    <3>1. UNCHANGED <<phase, announce, wiped, chase, settled>>
      BY <2>7 DEF PlayerJoined
    <3>2. \A r \in Players : conn'[r] = IF r = p THEN conn[p] \cup {q} ELSE conn[r]
      BY <1>0, <2>7 DEF PlayerJoined
    <3>3. \A r, s \in Players : life'[r][s] = IF r = p /\ s = q THEN "live" ELSE life[r][s]
      <4>1. life' = [life EXCEPT ![p][q] = "live"]
        BY <2>7 DEF PlayerJoined
      <4> QED
        BY <1>0, <4>1
    <3>4. \A r, s \in Players : r # p \/ s # q => wire'[s][r] = wire[s][r]
      <4>1. wire' = [wire EXCEPT ![q][p] = Tail(@)]
        BY <2>7 DEF PlayerJoined, Heard
      <4> QED
        BY <1>0, <4>1
    <3> QED
      BY <1>p, <2>2, <3>1, <3>2, <3>3, <3>4
  <2> QED
    BY <1>11, <2>3, <2>4, <2>5, <2>6, <2>7 DEF Handle
<1>12. ASSUME UNCHANGED vars PROVE P'
  BY <1>p, <1>12 DEF vars
<1>13. P'
  BY <1>1, <1>2, <1>3, <1>4, <1>5, <1>6, <1>7, <1>8, <1>9, <1>10, <1>11, <1>12 DEF Next
<1> QED
  BY <1>0, <1>13 DEF Basics

\* What a broadcast leaves in the queues.
LEMMA SentEffect ==
  ASSUME Basics, NEW p \in Players, NEW e \in Events, NEW r \in Players
  PROVE  /\ \A q \in Players \ {p} : Sent(p, e)[q][r] = wire[q][r]
         /\ r = p \/ phase[r] = "out" => Sent(p, e)[p][r] = <<>>
         /\ r # p /\ phase[r] # "out" => Sent(p, e)[p][r] # <<>> /\ LastWord(Sent(p, e)[p][r]) = e
<1>1. TypeOK
  BY DEF Basics
<1>2. \A q \in Players :
        Sent(p, e)[q][r] = IF q = p /\ r # p /\ phase[r] # "out"
                             THEN Append(wire[q][r], e) ELSE wire[q][r]
  BY <1>1, SentWires
<1>3. Append(wire[p][r], e) # <<>> /\ LastWord(Append(wire[p][r], e)) = e
  <2>1. wire[p][r] \in Seq(Events)
    BY <1>1 DEF TypeOK
  <2> QED
    BY <2>1, AppendWord
<1>4. r = p \/ phase[r] = "out" => Sent(p, e)[p][r] = <<>>
  BY SentQuietly
<1> QED
  BY <1>2, <1>3, <1>4

\* What handling an event leaves in the queues.
LEMMA HeardEffect ==
  ASSUME Basics, NEW p \in Players, NEW q \in Players, NEW e, Heard(p, q, e)
  PROVE  /\ p # q /\ phase[p] # "out" /\ wire[q][p] # <<>> /\ wire'[q][p] = Tail(wire[q][p])
         /\ \A s, r \in Players : s # q \/ r # p => wire'[s][r] = wire[s][r]
         /\ wire'[q][p] # <<>> => LastWord(wire'[q][p]) = LastWord(wire[q][p])
         /\ wire'[q][p] = <<>> => LastWord(wire[q][p]) = e
<1>1. TypeOK /\ NoEcho /\ Absent
  BY DEF Basics
<1>2. wire[q][p] # <<>> /\ e = Head(wire[q][p]) /\ wire' = [wire EXCEPT ![q][p] = Tail(@)]
  BY DEF Heard
<1>3. wire[q][p] \in Seq(Events)
  BY <1>1 DEF TypeOK
<1>4. /\ wire'[q][p] = Tail(wire[q][p])
      /\ \A s, r \in Players : s # q \/ r # p => wire'[s][r] = wire[s][r]
  BY <1>1, <1>2 DEF TypeOK
<1>5. p # q /\ phase[p] # "out"
  BY <1>1, <1>2 DEF NoEcho, Absent
<1> QED
  BY <1>2, <1>3, <1>4, <1>5, TailWord

\* What ties the events under way to the players they are about.
Words == LastWords /\ Departed /\ DeathIsShown

\* Every step keeps them: an event that is handled says what its sender did last,
\* or others follow it.
LEMMA WordsHold == Basics /\ Words /\ [Next]_vars => Words'
<1> SUFFICES ASSUME Basics, Words, [Next]_vars PROVE Words'
  OBVIOUS
<1>0. TypeOK /\ Absent /\ NoEcho /\ ChaseIsOn /\ LastWords /\ Departed /\ DeathIsShown
  BY DEF Basics, Words
<1>x. phase \in [Players -> {"out", "alive", "dying", "waiting", "reset"}]
  BY <1>0 DEF TypeOK
<1> USE DEF LastWords, Departed, DeathIsShown, Words
<1>1. ASSUME ChaseEnds PROVE Words'
  BY <1>0, <1>1, Zenon DEF ChaseEnds, records
<1>2. ASSUME NEW p \in Players, Dies(p) PROVE Words'
  BY <1>0, <1>x, <1>2 DEF Dies, records, Enter
<1>3. ASSUME NEW p \in Players, DeathEnds(p) PROVE Words'
  <2>1. /\ phase'[p] \in {"reset", "waiting"} /\ \A q \in Players \ {p} : phase'[q] = phase[q]
        /\ wire' = Sent(p, "died") /\ UNCHANGED <<conn, life, seen>>
    BY <1>x, <1>3 DEF DeathEnds, records, machines, Enter
  <2>2. \A r \in Players :
          /\ \A q \in Players \ {p} : wire'[q][r] = wire[q][r]
          /\ r = p \/ phase[r] = "out" => wire'[p][r] = <<>>
          /\ r # p /\ phase[r] # "out" => wire'[p][r] # <<>> /\ LastWord(wire'[p][r]) = "died"
    BY <2>1, SentEffect DEF Events
  <2> QED
    BY <1>0, <1>x, <2>1, <2>2 DEF Absent, NoEcho
<1>4. ASSUME NEW p \in Players, GivesUp(p) PROVE Words'
  <2>1. /\ phase'[p] = "reset" /\ \A q \in Players \ {p} : phase'[q] = phase[q]
        /\ (wire' = wire \/ wire' = Sent(p, "wipe")) /\ UNCHANGED <<conn, life, seen>>
    BY <1>x, <1>4 DEF GivesUp, records, Enter
  <2>2. \A r \in Players, q \in Players \ {p} : wire'[q][r] = wire[q][r]
    BY <2>1, SentEffect DEF Events
  <2> QED
    BY <1>0, <1>x, <2>1, <2>2
<1>5. ASSUME NEW p \in Players, Spawns(p) PROVE Words'
  <2>1. /\ phase'[p] = "alive" /\ \A q \in Players \ {p} : phase'[q] = phase[q]
        /\ (wire' = wire \/ wire' = Sent(p, "respawned")) /\ UNCHANGED <<conn, life, seen>>
    BY <1>x, <1>5 DEF Spawns, records, Enter
  <2>2. \A r \in Players, q \in Players \ {p} : wire'[q][r] = wire[q][r]
    BY <2>1, SentEffect DEF Events
  <2> QED
    BY <1>0, <1>x, <2>1, <2>2
<1>6. ASSUME NEW p \in Players, StateArrives(p) PROVE Words'
  <2>1. UNCHANGED <<phase, wire, conn>> /\ seen' = [seen EXCEPT ![p] = ShowsDeath(p)]
    BY <1>6 DEF StateArrives, machines
  <2>2. \A r, q \in Players :
          life'[r][q] = IF /\ q = p /\ q \in conn[r] /\ life[r][q] = "live"
                           /\ ShowsDeath(p) /\ ~BlocksRespawn(p)
                        THEN "dying" ELSE life[r][q]
    BY <1>0, <1>6 DEF StateArrives, TypeOK
  <2>3. phase[p] = "waiting" => ShowsDeath(p) /\ ~BlocksRespawn(p)
    BY <1>0 DEF ShowsDeath, BlocksRespawn, ChaseIsOn
  <2>4. ASSUME NEW r \in Players, NEW q \in Players,
               phase[q] = "waiting" /\ seen'[q] /\ q \in conn[r]
        PROVE  life'[r][q] # "live" \/ wire[q][r] # <<>>
    BY <1>0, <2>1, <2>2, <2>3, <2>4 DEF TypeOK
  <2> QED
    BY <1>0, <2>1, <2>4
<1>7. ASSUME NEW p \in Players, Leave(p) PROVE Words'
  <2>1. /\ phase'[p] = "out" /\ \A q \in Players \ {p} : phase'[q] = phase[q] /\ seen'[q] = seen[q]
        /\ conn'[p] = {} /\ \A q \in Players \ {p} : conn'[q] = conn[q] /\ life'[q] = life[q]
    BY <1>0, <1>7 DEF Leave, Enter, TypeOK
  <2>2. \A q, r \in Players : wire'[q][r] = IF r = p THEN <<>> ELSE Sent(p, "leave")[q][r]
    BY <1>0, <1>7, LeaveWires
  <2>3. \A r \in Players \ {p} :
          /\ \A q \in Players \ {p} : wire'[q][r] = wire[q][r]
          /\ phase[r] = "out" => wire'[p][r] = <<>>
          /\ phase[r] # "out" => wire'[p][r] # <<>> /\ LastWord(wire'[p][r]) = "leave"
    BY <2>2, SentEffect DEF Events
  <2>4. \A q \in Players : wire'[q][p] = <<>>
    BY <2>2
  <2> QED
    BY <1>0, <2>1, <2>3, <2>4 DEF Absent
<1>8. ASSUME NEW p \in Players, Join(p) PROVE Words'
  <2>1. /\ phase[p] = "out" /\ phase'[p] = "alive" /\ \A q \in Players \ {p} : phase'[q] = phase[q]
        /\ conn'[p] = Present /\ \A q \in Players \ {p} : conn'[q] = conn[q] /\ life'[q] = life[q]
        /\ seen' = seen /\ wire' = Sent(p, "join")
    BY <1>0, <1>8 DEF Join, Enter, TypeOK
  <2>2. \A q \in Present : life'[p][q] = LifeOfPuppet(p, q)
    BY <1>0, <1>8 DEF Join, Present, TypeOK
  <2>3. \A r \in Players, q \in Players \ {p} : wire'[q][r] = wire[q][r]
    BY <2>1, SentEffect DEF Events
  <2>4. \A q \in Players : phase[q] = "waiting" /\ seen[q] => LifeOfPuppet(p, q) # "live"
    BY <1>0 DEF LifeOfPuppet, BlocksRespawn, ChaseIsOn
  <2> QED
    BY <1>0, <2>1, <2>2, <2>3, <2>4 DEF Present
<1>9. ASSUME NEW p \in Players, NEW q \in Players, RespawnsAt(p, q) PROVE Words'
  <2>1. /\ phase'[p] = "alive" /\ \A r \in Players \ {p} : phase'[r] = phase[r]
        /\ wire' = Sent(p, "respawned") /\ UNCHANGED <<conn, life, seen>>
    BY <1>x, <1>9 DEF RespawnsAt, records, machines, Enter
  <2>2. \A r \in Players, s \in Players \ {p} : wire'[s][r] = wire[s][r]
    BY <2>1, SentEffect DEF Events
  <2> QED
    BY <1>0, <1>x, <2>1, <2>2
<1>10. ASSUME NEW p \in Players, NEW q \in Players, PuppetRespawns(p, q) PROVE Words'
  <2>1. UNCHANGED <<phase, wire, conn, seen>>
        /\ \A r, s \in Players : life'[r][s] = IF r = p /\ s = q THEN LifeOfPuppet(p, q) ELSE life[r][s]
    BY <1>0, <1>10 DEF PuppetRespawns, machines, TypeOK
  <2>2. phase[q] = "waiting" /\ seen[q] => LifeOfPuppet(p, q) # "live"
    BY <1>0 DEF LifeOfPuppet, BlocksRespawn, ChaseIsOn
  <2> QED
    BY <1>0, <2>1, <2>2
<1>11. ASSUME NEW p \in Players, NEW q \in Players, Handle(p, q) PROVE Words'
  <2>1. UNCHANGED <<phase, seen>>
    BY <1>11
       DEF Handle, RemotePlayerDied, RemotePlayerRespawned, PartyWipeReceive, PlayerLeft,
           PlayerJoined, machines, records
  <2>2. ASSUME NEW e, Heard(p, q, e)
        PROVE  /\ LastWords'
               /\ wire[q][p] # <<>> /\ \A s, r \in Players : s # q \/ r # p => wire'[s][r] = wire[s][r]
               /\ phase[q] = "waiting" /\ wire'[q][p] = <<>> => e = "died"
               /\ phase[q] = "out" /\ wire'[q][p] = <<>> => e = "leave"
    BY <1>0, <2>1, <2>2, HeardEffect
  <2>3. CASE RemotePlayerDied(p, q)
    <3>1. Heard(p, q, "died") /\ conn' = conn
          /\ \A r, s \in Players : life'[r][s] = IF r = p /\ s = q THEN "dead" ELSE life[r][s]
      BY <1>0, <2>3 DEF RemotePlayerDied, machines, TypeOK
    <3> QED
      BY <1>0, <2>1, <2>2, <3>1
  <2>4. CASE RemotePlayerRespawned(p, q)
    <3>1. Heard(p, q, "respawned") /\ conn' = conn
          /\ \A r, s \in Players : life'[r][s] = IF r = p /\ s = q THEN "live" ELSE life[r][s]
      BY <1>0, <2>4 DEF RemotePlayerRespawned, machines, TypeOK
    <3> QED
      BY <1>0, <2>1, <2>2, <3>1
  <2>5. CASE PartyWipeReceive(p, q)
    <3>1. Heard(p, q, "wipe") /\ UNCHANGED <<conn, life>>
      BY <2>5 DEF PartyWipeReceive, records
    <3> QED
      BY <1>0, <2>1, <2>2, <3>1
  <2>6. CASE PlayerLeft(p, q)
    <3>1. /\ Heard(p, q, "leave")
          /\ \A r \in Players : conn'[r] = IF r = p THEN conn[p] \ {q} ELSE conn[r]
          /\ \A r, s \in Players : life'[r][s] = IF r = p /\ s = q THEN "live" ELSE life[r][s]
      BY <1>0, <2>6 DEF PlayerLeft, TypeOK
    <3> QED
      BY <1>0, <2>1, <2>2, <3>1
  <2>7. CASE PlayerJoined(p, q)
    <3>1. /\ Heard(p, q, "join")
          /\ \A r \in Players : conn'[r] = IF r = p THEN conn[p] \cup {q} ELSE conn[r]
          /\ \A r, s \in Players : life'[r][s] = IF r = p /\ s = q THEN "live" ELSE life[r][s]
      BY <1>0, <2>7 DEF PlayerJoined, TypeOK
    <3> QED
      BY <1>0, <2>1, <2>2, <3>1
  <2> QED
    BY <1>11, <2>3, <2>4, <2>5, <2>6, <2>7 DEF Handle
<1>12. ASSUME UNCHANGED vars PROVE Words'
  BY <1>0, <1>12, Zenon DEF vars
<1> QED
  BY <1>1, <1>2, <1>3, <1>4, <1>5, <1>6, <1>7, <1>8, <1>9, <1>10, <1>11, <1>12 DEF Next

----------------------------------------------------------------------------
\* The events that end a death for whoever hears them.
Clearing == {"respawned", "join", "leave"}

\* Whatever is believed now, the events under way end a death.
Revives(l, s) ==
  /\ l = "dead" => \E i \in 1 .. Len(s) : s[i] \in Clearing
  /\ \A i \in 1 .. Len(s) : s[i] = "died" => \E j \in i + 1 .. Len(s) : s[j] \in Clearing

\* Nobody who lives is taken for dead beyond what is under way, unless its death
\* was settled locally.
NoLastingDeath ==
  \A p, q \in Players :
    p # q /\ phase[q] \in {"alive", "dying"} /\ q \notin settled => Revives(life[p][q], wire[q][p])

\* A return that is announced ends every death before it.
LEMMA RevivesAppend ==
  ASSUME NEW s \in Seq(Events), NEW e \in Clearing, NEW l
  PROVE  Revives(l, Append(s, e))
<1>1. /\ Len(Append(s, e)) = Len(s) + 1 /\ Len(s) \in Nat
      /\ Append(s, e)[Len(s) + 1] = e
      /\ \A i \in 1 .. Len(s) : Append(s, e)[i] = s[i]
  BY AppendProperties, LenProperties DEF Events, Clearing
<1>2. e # "died"
  BY DEF Clearing
<1> QED
  BY <1>1, <1>2 DEF Revives

\* Nothing has to be heard of somebody who is not taken for dead.
LEMMA RevivesEmpty == ASSUME NEW l, l # "dead" PROVE Revives(l, <<>>)
  BY EmptySeq DEF Revives

\* Forgetting a death makes nothing worse.
LEMMA RevivesOther ==
  ASSUME NEW s, NEW l, NEW m, Revives(l, s), m # "dead" \/ m = l
  PROVE  Revives(m, s)
  BY DEF Revives

\* Handling the first event keeps a queue that revives.
LEMMA RevivesTail ==
  ASSUME NEW s \in Seq(Events), s # <<>>, NEW l, Revives(l, s)
  PROVE  Revives(IF Head(s) = "died" THEN "dead" ELSE IF Head(s) = "wipe" THEN l ELSE "live", Tail(s))
<1>1. /\ Head(s) = s[1] /\ s[1] \in Events
      /\ Len(Tail(s)) = Len(s) - 1 /\ Len(s) \in Nat \ {0}
      /\ \A i \in 1 .. Len(s) - 1 : Tail(s)[i] = s[i + 1]
  BY HeadTailProperties, ElementOfSeq, LenProperties, EmptySeq
<1>2. \A i \in 1 .. Len(Tail(s)) : Tail(s)[i] = "died" =>
        \E j \in i + 1 .. Len(Tail(s)) : Tail(s)[j] \in Clearing
  <2> SUFFICES ASSUME NEW i \in 1 .. Len(s) - 1, s[i + 1] = "died"
               PROVE  \E j \in i + 1 .. Len(s) - 1 : s[j + 1] \in Clearing
    BY <1>1
  <2>1. PICK k \in i + 2 .. Len(s) : s[k] \in Clearing
    BY <1>1 DEF Revives
  <2> WITNESS k - 1 \in i + 1 .. Len(s) - 1
  <2> QED
    BY <1>1, <2>1
<1>3. CASE Head(s) = "died" \/ (Head(s) = "wipe" /\ l = "dead")
  <2>1. PICK k \in 2 .. Len(s) : s[k] \in Clearing
    <3>1. CASE Head(s) = "died"
      BY <1>1, <3>1 DEF Revives
    <3>2. CASE Head(s) = "wipe" /\ l = "dead"
      <4>1. PICK k \in 1 .. Len(s) : s[k] \in Clearing
        BY <3>2 DEF Revives
      <4>2. k # 1
        BY <1>1, <3>2, <4>1 DEF Clearing
      <4> QED
        BY <1>1, <4>1, <4>2
    <3> QED
      BY <1>3, <3>1, <3>2
  <2>2. k - 1 \in 1 .. Len(Tail(s)) /\ Tail(s)[k - 1] = s[k]
    BY <1>1
  <2> QED
    BY <1>2, <2>1, <2>2 DEF Revives
<1>4. CASE ~(Head(s) = "died" \/ (Head(s) = "wipe" /\ l = "dead"))
  BY <1>2, <1>4 DEF Revives
<1> QED
  BY <1>3, <1>4

\* Every step keeps NoLastingDeath: whoever comes back has announced it.
LEMMA DeathsAreRevoked == Basics /\ NoLastingDeath /\ [Next]_vars => NoLastingDeath'
<1> SUFFICES ASSUME Basics, NoLastingDeath, [Next]_vars PROVE NoLastingDeath'
  OBVIOUS
<1>0. TypeOK /\ Absent /\ NoEcho /\ Untold /\ NoLastingDeath
  BY DEF Basics
<1>x. /\ phase \in [Players -> {"out", "alive", "dying", "waiting", "reset"}]
      /\ wire \in [Players -> [Players -> Seq(Events)]]
  BY <1>0 DEF TypeOK
\* A step that changes neither what is believed of the others nor their words.
<1>f. ASSUME NEW p \in Players, phase'[p] \notin {"alive", "dying"} \/ p \in settled',
             \A q \in Players \ {p} : phase'[q] = phase[q] /\ (q \in settled <=> q \in settled'),
             \A q \in Players \ {p}, r \in Players : wire'[q][r] = wire[q][r],
             life' = life
      PROVE  NoLastingDeath'
  BY <1>0, <1>f DEF NoLastingDeath
<1>1. ASSUME ChaseEnds PROVE NoLastingDeath'
  BY <1>0, <1>1, Zenon DEF ChaseEnds, records, NoLastingDeath
<1>2. ASSUME NEW p \in Players, Dies(p) PROVE NoLastingDeath'
  BY <1>0, <1>x, <1>2 DEF Dies, records, Enter, NoLastingDeath
<1>3. ASSUME NEW p \in Players, DeathEnds(p) PROVE NoLastingDeath'
  <2>1. /\ phase'[p] \in {"reset", "waiting"} /\ \A q \in Players \ {p} : phase'[q] = phase[q]
        /\ wire' = Sent(p, "died") /\ life' = life
        /\ \A q \in Players \ {p} : q \in settled <=> q \in settled'
    BY <1>x, <1>3 DEF DeathEnds, records, Enter
  <2>2. \A r \in Players, q \in Players \ {p} : wire'[q][r] = wire[q][r]
    BY <2>1, SentEffect DEF Events
  <2> QED
    BY <1>f, <2>1, <2>2
<1>4. ASSUME NEW p \in Players, GivesUp(p) PROVE NoLastingDeath'
  <2>1. /\ phase'[p] = "reset" /\ \A q \in Players \ {p} : phase'[q] = phase[q]
        /\ (wire' = wire \/ wire' = Sent(p, "wipe")) /\ UNCHANGED <<life, settled>>
    BY <1>x, <1>4 DEF GivesUp, records, Enter
  <2>2. \A r \in Players, q \in Players \ {p} : wire'[q][r] = wire[q][r]
    BY <2>1, SentEffect DEF Events
  <2> QED
    BY <1>f, <2>1, <2>2
\* A return that is announced.
<1>r. ASSUME NEW p \in Players, NEW e \in Clearing, phase'[p] = "alive",
             \A q \in Players \ {p} : phase'[q] = phase[q],
             wire' = Sent(p, e), settled' = settled,
             \A q, r \in Players : life'[r][q] \in {life[r][q], "live", "dying"}
      PROVE  NoLastingDeath'
  <2>1. e \in Events
    BY DEF Clearing, Events
  <2>2. \A q, r \in Players :
          wire'[q][r] = IF q = p /\ r # p /\ phase[r] # "out"
                          THEN Append(wire[q][r], e) ELSE wire[q][r]
    BY <1>0, <1>r, <2>1, SentWires
  <2> SUFFICES ASSUME NEW r \in Players, NEW q \in Players, r # q,
                      phase'[q] \in {"alive", "dying"}, q \notin settled'
               PROVE  Revives(life'[r][q], wire'[q][r])
    BY DEF NoLastingDeath
  <2>3. CASE q # p
    <3>1. Revives(life[r][q], wire[q][r])
      BY <1>0, <1>r, <2>3 DEF NoLastingDeath
    <3>2. life'[r][q] # "dead" \/ life'[r][q] = life[r][q]
      BY <1>r
    <3> QED
      BY <2>2, <2>3, <3>1, <3>2, RevivesOther
  <2>4. CASE q = p /\ phase[r] # "out"
    BY <1>x, <1>r, <2>2, <2>4, RevivesAppend
  <2>5. CASE q = p /\ phase[r] = "out"
    <3>1. wire[q][r] = <<>> /\ life[r][q] = "live"
      BY <1>0, <2>5 DEF Absent
    <3>2. wire'[q][r] = <<>> /\ life'[r][q] # "dead"
      BY <1>r, <2>2, <2>5, <3>1
    <3> QED
      BY <3>2, RevivesEmpty
  <2> QED
    BY <2>3, <2>4, <2>5
<1>5. ASSUME NEW p \in Players, Spawns(p) PROVE NoLastingDeath'
  <2>1. /\ phase[p] = "reset" /\ phase'[p] = "alive" /\ \A q \in Players \ {p} : phase'[q] = phase[q]
        /\ wire' = IF announce[p] THEN Sent(p, "respawned") ELSE wire
        /\ UNCHANGED <<life, settled>>
    BY <1>x, <1>5 DEF Spawns, records, Enter
  <2>2. CASE announce[p]
    BY <1>r, <2>1, <2>2 DEF Clearing
  <2>3. CASE ~announce[p]
    BY <1>0, <1>f, <2>1, <2>3 DEF Untold
  <2> QED
    BY <2>2, <2>3
<1>6. ASSUME NEW p \in Players, StateArrives(p) PROVE NoLastingDeath'
  <2>1. UNCHANGED <<phase, wire, settled>>
    BY <1>6 DEF StateArrives, machines
  <2>2. \A r, q \in Players : life'[r][q] \in {life[r][q], "dying"}
    BY <1>0, <1>6 DEF StateArrives, TypeOK
  <2> QED
    BY <1>0, <2>1, <2>2, RevivesOther DEF NoLastingDeath
<1>7. ASSUME NEW p \in Players, Leave(p) PROVE NoLastingDeath'
  <2>1. /\ phase'[p] = "out" /\ \A q \in Players \ {p} : phase'[q] = phase[q] /\ life'[q] = life[q]
        /\ \A q \in Players \ {p} : q \in settled <=> q \in settled'
        /\ \A q \in Players : life'[p][q] = "live"
    BY <1>0, <1>7 DEF Leave, Enter, TypeOK
  <2>2. \A q \in Players, r \in Players \ {p} : wire'[q][p] = <<>> /\ wire'[q][r] = Sent(p, "leave")[q][r]
    BY <1>0, <1>7, LeaveWires
  <2>3. \A r, q \in Players \ {p} : wire'[q][r] = wire[q][r]
    BY <2>2, SentEffect DEF Events
  <2> SUFFICES ASSUME NEW r \in Players, NEW q \in Players, r # q,
                      phase'[q] \in {"alive", "dying"}, q \notin settled'
               PROVE  Revives(life'[r][q], wire'[q][r])
    BY DEF NoLastingDeath
  <2>4. CASE r = p
    BY <2>1, <2>2, <2>4, RevivesEmpty
  <2>5. CASE r # p
    BY <1>0, <2>1, <2>3, <2>5 DEF NoLastingDeath
  <2> QED
    BY <2>4, <2>5
<1>8. ASSUME NEW p \in Players, Join(p) PROVE NoLastingDeath'
  <2>1. /\ phase'[p] = "alive" /\ \A q \in Players \ {p} : phase'[q] = phase[q] /\ life'[q] = life[q]
        /\ wire' = Sent(p, "join") /\ settled' = settled
        /\ \A q \in Players : life'[p][q] \in {"live", LifeOfPuppet(p, q)}
    BY <1>0, <1>8 DEF Join, Enter, TypeOK
  <2>2. \A q, r \in Players : life'[r][q] \in {life[r][q], "live", "dying"}
    BY <2>1 DEF LifeOfPuppet
  <2> QED
    BY <1>r, <2>1, <2>2 DEF Clearing
<1>9. ASSUME NEW p \in Players, NEW q \in Players, RespawnsAt(p, q) PROVE NoLastingDeath'
  <2>1. /\ phase'[p] = "alive" /\ \A r \in Players \ {p} : phase'[r] = phase[r]
        /\ wire' = Sent(p, "respawned") /\ UNCHANGED <<life, settled>>
    BY <1>x, <1>9 DEF RespawnsAt, records, machines, Enter
  <2> QED
    BY <1>r, <2>1 DEF Clearing
<1>10. ASSUME NEW p \in Players, NEW q \in Players, PuppetRespawns(p, q) PROVE NoLastingDeath'
  <2>1. UNCHANGED <<phase, wire, settled>>
        /\ \A r, s \in Players : life'[r][s] \in {life[r][s], "live", "dying"}
    BY <1>0, <1>10 DEF PuppetRespawns, machines, TypeOK, LifeOfPuppet
  <2> QED
    BY <1>0, <2>1, RevivesOther DEF NoLastingDeath
<1>11. ASSUME NEW p \in Players, NEW q \in Players, Handle(p, q) PROVE NoLastingDeath'
  <2>1. UNCHANGED <<phase, settled>>
    BY <1>11
       DEF Handle, RemotePlayerDied, RemotePlayerRespawned, PartyWipeReceive, PlayerLeft,
           PlayerJoined, machines
  <2>2. ASSUME NEW e, Heard(p, q, e),
               \A r, s \in Players : life'[r][s] = IF r = p /\ s = q
                 THEN IF e = "died" THEN "dead" ELSE IF e = "wipe" THEN life[p][q] ELSE "live"
                 ELSE life[r][s]
        PROVE  NoLastingDeath'
    <3>1. /\ wire[q][p] # <<>> /\ wire'[q][p] = Tail(wire[q][p]) /\ e = Head(wire[q][p])
          /\ \A s, r \in Players : s # q \/ r # p => wire'[s][r] = wire[s][r]
      BY <2>2, HeardEffect DEF Heard
    <3>2. Revives(life[p][q], wire[q][p]) => Revives(life'[p][q], wire'[q][p])
      BY <1>x, <2>2, <3>1, RevivesTail
    <3> QED
      BY <1>0, <2>1, <2>2, <3>1, <3>2 DEF NoLastingDeath
  <2>3. CASE RemotePlayerDied(p, q)
    BY <1>0, <2>2, <2>3 DEF RemotePlayerDied, TypeOK
  <2>4. CASE RemotePlayerRespawned(p, q)
    <3>1. Heard(p, q, "respawned") /\ life' = [life EXCEPT ![p][q] = "live"]
      BY <2>4 DEF RemotePlayerRespawned
    <3>2. \A r, s \in Players : life'[r][s] = IF r = p /\ s = q
            THEN IF "respawned" = "died" THEN "dead" ELSE IF "respawned" = "wipe" THEN life[p][q] ELSE "live"
            ELSE life[r][s]
      BY <1>0, <3>1 DEF TypeOK
    <3> QED
      BY <2>2, <3>1, <3>2
  <2>5. CASE PartyWipeReceive(p, q)
    BY <1>0, <2>2, <2>5 DEF PartyWipeReceive, records
  <2>6. CASE PlayerLeft(p, q)
    <3>1. Heard(p, q, "leave") /\ life' = [life EXCEPT ![p][q] = "live"]
      BY <2>6 DEF PlayerLeft
    <3>2. \A r, s \in Players : life'[r][s] = IF r = p /\ s = q
            THEN IF "leave" = "died" THEN "dead" ELSE IF "leave" = "wipe" THEN life[p][q] ELSE "live"
            ELSE life[r][s]
      BY <1>0, <3>1 DEF TypeOK
    <3> QED
      BY <2>2, <3>1, <3>2
  <2>7. CASE PlayerJoined(p, q)
    <3>1. Heard(p, q, "join") /\ life' = [life EXCEPT ![p][q] = "live"]
      BY <2>7 DEF PlayerJoined
    <3>2. \A r, s \in Players : life'[r][s] = IF r = p /\ s = q
            THEN IF "join" = "died" THEN "dead" ELSE IF "join" = "wipe" THEN life[p][q] ELSE "live"
            ELSE life[r][s]
      BY <1>0, <3>1 DEF TypeOK
    <3> QED
      BY <2>2, <3>1, <3>2
  <2> QED
    BY <1>11, <2>3, <2>4, <2>5, <2>6, <2>7 DEF Handle
<1>12. ASSUME UNCHANGED vars PROVE NoLastingDeath'
  BY <1>0, <1>12, Zenon DEF vars, NoLastingDeath
<1> QED
  BY <1>1, <1>2, <1>3, <1>4, <1>5, <1>6, <1>7, <1>8, <1>9, <1>10, <1>11, <1>12 DEF Next

----------------------------------------------------------------------------
\* The players who watch the others.
Waiting == {p \in Players : phase[p] = "waiting"}

\* p knows that q is dead, or will when it has heard what is under way.
Knows(p, q) == wire[q][p] # <<>> \/ life[p][q] = "dead"

\* Of any players who wait, one knows of all the others: who has waited longest.
SomebodyHasHeard ==
  \A W \in SUBSET Waiting : W # {} => \E p \in W : \A q \in W \ {p} : Knows(p, q)

\* Nobody has to know of players who have stopped waiting.
LEMMA KeepsKnowing ==
  ASSUME SomebodyHasHeard, Waiting' \subseteq Waiting,
         \A p, q \in Waiting' : p # q /\ Knows(p, q) => Knows(p, q)'
  PROVE  SomebodyHasHeard'
<1> SUFFICES ASSUME NEW W \in SUBSET Waiting', W # {}
             PROVE  \E p \in W : \A q \in W \ {p} : Knows(p, q)'
  BY DEF SomebodyHasHeard
<1>1. PICK p \in W : \A q \in W \ {p} : Knows(p, q)
  BY DEF SomebodyHasHeard
<1> QED
  BY <1>1

\* Every step keeps SomebodyHasHeard: who begins to wait is announced to all who
\* wait already, and no puppet is made anew between two who wait.
LEMMA KnowledgeHolds == Basics /\ Words /\ SomebodyHasHeard /\ [Next]_vars => SomebodyHasHeard'
<1> SUFFICES ASSUME Basics, Words, SomebodyHasHeard, [Next]_vars PROVE SomebodyHasHeard'
  OBVIOUS
<1>0. TypeOK /\ Absent /\ NoEcho /\ LastWords
  BY DEF Basics, Words
<1>x. phase \in [Players -> {"out", "alive", "dying", "waiting", "reset"}]
  BY <1>0 DEF TypeOK
\* A step of one player that does not end in waiting.
<1>f. ASSUME NEW p \in Players, phase'[p] # "waiting",
             \A q \in Players \ {p} : phase'[q] = phase[q],
             \A q, r \in Players \ {p} : wire'[q][r] = wire[q][r] /\ life'[r][q] = life[r][q]
      PROVE  SomebodyHasHeard'
  BY <1>f, KeepsKnowing DEF Waiting, Knows
<1>1. ASSUME ChaseEnds PROVE SomebodyHasHeard'
  BY <1>1, KeepsKnowing DEF ChaseEnds, records, Waiting, Knows
<1>2. ASSUME NEW p \in Players, Dies(p) PROVE SomebodyHasHeard'
  BY <1>x, <1>2, <1>f DEF Dies, records, Enter
<1>3. ASSUME NEW p \in Players, DeathEnds(p) PROVE SomebodyHasHeard'
  <2>1. /\ phase[p] = "dying" /\ \A q \in Players \ {p} : phase'[q] = phase[q]
        /\ wire' = Sent(p, "died") /\ life' = life
    BY <1>x, <1>3 DEF DeathEnds, records, Enter
  <2>2. /\ \A r \in Players, q \in Players \ {p} : wire'[q][r] = wire[q][r]
        /\ \A r \in Players \ {p} : phase[r] # "out" => wire'[p][r] # <<>>
    BY <2>1, SentEffect DEF Events
  <2> SUFFICES ASSUME NEW W \in SUBSET Waiting', W # {}
               PROVE  \E r \in W : \A q \in W \ {r} : Knows(r, q)'
    BY DEF SomebodyHasHeard
  <2>3. \A q \in W \ {p} : q \in Waiting /\ q \in Players
    BY <2>1 DEF Waiting
  <2>4. CASE W = {p}
    BY <2>4
  <2>5. CASE W \ {p} # {}
    <3>1. W \ {p} \in SUBSET Waiting
      BY <2>3
    <3>2. PICK r \in W \ {p} : \A q \in (W \ {p}) \ {r} : Knows(r, q)
      BY <2>5, <3>1 DEF SomebodyHasHeard
    <3>3. phase[r] # "out" /\ r # p
      BY <2>3, <3>2 DEF Waiting
    <3>4. \A q \in W \ {r} : Knows(r, q)'
      BY <2>1, <2>2, <2>3, <3>2, <3>3 DEF Knows
    <3> QED
      BY <3>2, <3>4
  <2> QED
    BY <2>4, <2>5
<1>4. ASSUME NEW p \in Players, GivesUp(p) PROVE SomebodyHasHeard'
  <2>1. /\ phase'[p] = "reset" /\ \A q \in Players \ {p} : phase'[q] = phase[q]
        /\ (wire' = wire \/ wire' = Sent(p, "wipe")) /\ life' = life
    BY <1>x, <1>4 DEF GivesUp, records, Enter
  <2>2. \A r \in Players, q \in Players \ {p} : wire'[q][r] = wire[q][r]
    BY <2>1, SentEffect DEF Events
  <2> QED
    BY <1>f, <2>1, <2>2
<1>5. ASSUME NEW p \in Players, Spawns(p) PROVE SomebodyHasHeard'
  <2>1. /\ phase'[p] = "alive" /\ \A q \in Players \ {p} : phase'[q] = phase[q]
        /\ (wire' = wire \/ wire' = Sent(p, "respawned")) /\ life' = life
    BY <1>x, <1>5 DEF Spawns, records, Enter
  <2>2. \A r \in Players, q \in Players \ {p} : wire'[q][r] = wire[q][r]
    BY <2>1, SentEffect DEF Events
  <2> QED
    BY <1>f, <2>1, <2>2
<1>6. ASSUME NEW p \in Players, StateArrives(p) PROVE SomebodyHasHeard'
  <2>1. UNCHANGED <<phase, wire>>
    BY <1>6 DEF StateArrives, machines
  <2>2. \A r, q \in Players : life[r][q] = "dead" => life'[r][q] = "dead"
    BY <1>0, <1>6 DEF StateArrives, TypeOK
  <2> QED
    BY <2>1, <2>2, KeepsKnowing DEF Waiting, Knows
<1>7. ASSUME NEW p \in Players, Leave(p) PROVE SomebodyHasHeard'
  <2>1. /\ phase'[p] = "out" /\ \A q \in Players \ {p} : phase'[q] = phase[q] /\ life'[q] = life[q]
    BY <1>0, <1>7 DEF Leave, Enter, TypeOK
  <2>2. \A q, r \in Players \ {p} : wire'[q][r] = Sent(p, "leave")[q][r]
    BY <1>0, <1>7, LeaveWires
  <2>3. \A q, r \in Players \ {p} : wire'[q][r] = wire[q][r]
    BY <2>2, SentEffect DEF Events
  <2> QED
    BY <1>f, <2>1, <2>3
<1>8. ASSUME NEW p \in Players, Join(p) PROVE SomebodyHasHeard'
  <2>1. /\ phase'[p] = "alive" /\ \A q \in Players \ {p} : phase'[q] = phase[q] /\ life'[q] = life[q]
        /\ wire' = Sent(p, "join")
    BY <1>0, <1>8 DEF Join, Enter, TypeOK
  <2>2. \A r \in Players, q \in Players \ {p} : wire'[q][r] = wire[q][r]
    BY <2>1, SentEffect DEF Events
  <2> QED
    BY <1>f, <2>1, <2>2
<1>9. ASSUME NEW p \in Players, NEW q \in Players, RespawnsAt(p, q) PROVE SomebodyHasHeard'
  <2>1. /\ phase'[p] = "alive" /\ \A r \in Players \ {p} : phase'[r] = phase[r]
        /\ wire' = Sent(p, "respawned") /\ life' = life
    BY <1>x, <1>9 DEF RespawnsAt, records, Enter
  <2>2. \A r \in Players, s \in Players \ {p} : wire'[s][r] = wire[s][r]
    BY <2>1, SentEffect DEF Events
  <2> QED
    BY <1>f, <2>1, <2>2
<1>10. ASSUME NEW p \in Players, NEW q \in Players, PuppetRespawns(p, q) PROVE SomebodyHasHeard'
  <2>1. UNCHANGED <<phase, wire>>
        /\ \A r, s \in Players : life'[r][s] = IF r = p /\ s = q THEN LifeOfPuppet(p, q) ELSE life[r][s]
    BY <1>0, <1>10 DEF PuppetRespawns, machines, TypeOK
  <2>2. ~(p \in Waiting /\ q \in Waiting)
    BY <1>10 DEF PuppetRespawns, Moves, Waiting
  <2> QED
    BY <2>1, <2>2, KeepsKnowing DEF Waiting, Knows
<1>11. ASSUME NEW p \in Players, NEW q \in Players, Handle(p, q) PROVE SomebodyHasHeard'
  <2>1. phase' = phase
    BY <1>11
       DEF Handle, RemotePlayerDied, RemotePlayerRespawned, PartyWipeReceive, PlayerLeft,
           PlayerJoined, machines
  <2>2. ASSUME NEW e, Heard(p, q, e), e = "died" => life'[p][q] = "dead",
               \A r, s \in Players : r # p \/ s # q => life'[r][s] = life[r][s]
        PROVE  SomebodyHasHeard'
    <3>1. q \in Waiting => Knows(p, q)'
      BY <1>0, <2>2, HeardEffect DEF Waiting, Knows, LastWords
    <3>2. \A r, s \in Players : r # p \/ s # q => wire'[s][r] = wire[s][r]
      BY <2>2, HeardEffect
    <3> QED
      BY <2>1, <2>2, <3>1, <3>2, KeepsKnowing DEF Waiting, Knows
  <2>3. CASE RemotePlayerDied(p, q)
    BY <1>0, <2>2, <2>3 DEF RemotePlayerDied, TypeOK
  <2>4. CASE RemotePlayerRespawned(p, q)
    BY <1>0, <2>2, <2>4 DEF RemotePlayerRespawned, TypeOK
  <2>5. CASE PartyWipeReceive(p, q)
    BY <1>0, <2>2, <2>5 DEF PartyWipeReceive, records
  <2>6. CASE PlayerLeft(p, q)
    BY <1>0, <2>2, <2>6 DEF PlayerLeft, TypeOK
  <2>7. CASE PlayerJoined(p, q)
    BY <1>0, <2>2, <2>7 DEF PlayerJoined, TypeOK
  <2> QED
    BY <1>11, <2>3, <2>4, <2>5, <2>6, <2>7 DEF Handle
<1>12. ASSUME UNCHANGED vars PROVE SomebodyHasHeard'
  BY <1>12, KeepsKnowing DEF vars, Waiting, Knows
<1> QED
  BY <1>1, <1>2, <1>3, <1>4, <1>5, <1>6, <1>7, <1>8, <1>9, <1>10, <1>11, <1>12 DEF Next

----------------------------------------------------------------------------
\* The inductive invariant.
IInv == Basics /\ Words /\ NoLastingDeath /\ SomebodyHasHeard

\* It holds initially, whoever is in the game.
LEMMA InitIInv == Init => IInv
<1> SUFFICES ASSUME Init PROVE IInv
  OBVIOUS
<1>1. /\ \A p \in Players : phase[p] \in {"alive", "out"} /\ ~announce[p] /\ ~wiped[p]
      /\ \A p \in Players : conn[p] = IF phase[p] # "out" THEN Present \ {p} ELSE {}
      /\ \A p, q \in Players : life[p][q] = "live" /\ wire[q][p] = <<>>
  BY DEF Init, Start, Present
<1>2. TypeOK
  <2>1. wire \in [Players -> [Players -> Seq(Events)]]
    BY EmptySeq DEF Init, Start
  <2>2. /\ phase \in [Players -> {"out", "alive", "dying", "waiting", "reset"}]
        /\ chase \in BOOLEAN /\ settled \subseteq Players
        /\ deaths \in 0..MaxDeaths /\ journeys \in 0..MaxJourneys
    BY BoundsAssumption DEF Init, Start
  <2>3. /\ announce \in [Players -> BOOLEAN] /\ wiped \in [Players -> BOOLEAN]
        /\ seen \in [Players -> BOOLEAN]
    BY DEF Init, Start
  <2>4. conn \in [Players -> SUBSET Players]
    BY DEF Init, Start, Present
  <2>5. life \in [Players -> [Players -> {"live", "dying", "dead"}]]
    BY DEF Init, Start
  <2> QED
    BY <2>1, <2>2, <2>3, <2>4, <2>5 DEF TypeOK
<1>3. Announced /\ WipeIsOfThisDeath /\ Untold /\ Absent /\ NoEcho
  <2>1. Announced /\ WipeIsOfThisDeath
    BY <1>1 DEF Announced, WipeIsOfThisDeath
  <2>2. Untold
    BY <1>1 DEF Untold
  <2>3. Absent
    BY <1>1 DEF Absent
  <2>4. NoEcho
    <3>1. ASSUME NEW p \in Players PROVE p \notin conn[p]
      <4>1. conn[p] = Present \ {p} \/ conn[p] = {}
        BY <1>1
      <4> QED
        BY <4>1
    <3> QED
      BY <1>1, <3>1 DEF NoEcho
  <2> QED
    BY <2>1, <2>2, <2>3, <2>4
<1>4. ChaseIsOn
  BY <1>1 DEF Init, Start, ChaseIsOn, Present
<1>5. Words
  <2>1. LastWords
    BY <1>1 DEF LastWords
  <2>2. Departed
    <3>1. ASSUME NEW p \in Players PROVE conn[p] \in SUBSET Present
      <4>1. conn[p] = Present \ {p} \/ conn[p] = {}
        BY <1>1
      <4> QED
        BY <4>1
    <3>2. \A q \in Present : phase[q] # "out"
      BY DEF Present
    <3> QED
      BY <3>1, <3>2 DEF Departed
  <2>3. DeathIsShown
    BY <1>1 DEF DeathIsShown
  <2> QED
    BY <2>1, <2>2, <2>3 DEF Words
<1>6. NoLastingDeath
  BY <1>1, RevivesEmpty DEF NoLastingDeath
<1>7. SomebodyHasHeard
  BY <1>1 DEF SomebodyHasHeard, Waiting
<1> QED
  BY <1>2, <1>3, <1>4, <1>5, <1>6, <1>7 DEF IInv, Basics

\* Every step keeps it.
LEMMA Inductive == IInv /\ [Next]_vars => IInv'
  BY BasicsHold, WordsHold, DeathsAreRevoked, KnowledgeHolds DEF IInv

\* It holds always, for any players, guests and bounds.
THEOREM Invariance == Spec => []IInv
  BY InitIInv, Inductive, PTL DEF Spec

\* Every variable keeps its type, the events under way included.
THEOREM TypesAreKept == Spec => []TypeOK
<1>1. IInv => TypeOK
  BY DEF IInv, Basics
<1> QED
  BY <1>1, Invariance, PTL

\* Nobody lives with a party wipe pending: mp-death-party-wipe-receive! notes it for
\* the dead only, and coming back, starting over and leaving clear it.
THEOREM WipesEndWithTheirDeath == Spec => []WipeIsOfThisDeath
<1>1. IInv => WipeIsOfThisDeath
  BY DEF IInv, Basics
<1> QED
  BY <1>1, Invariance, PTL

\* When everybody waits and every event was heard, somebody finds that a reset is
\* needed (mp-death-spectate-reset-needed?): who has waited longest has heard the
\* death of each of the others since, and made no puppet anew.
THEOREM SomebodyAlwaysKnows == Spec => []SomebodyKnows
<1>1. IInv => SomebodyKnows
  <2> SUFFICES ASSUME IInv, \A p \in Present : phase[p] = "waiting", \A p, q \in Players : wire[q][p] = <<>>,
                      Present # {}
               PROVE  \E p \in Present : ResetNeeded(p)
    BY DEF SomebodyKnows
  <2>1. Departed /\ NoEcho /\ SomebodyHasHeard /\ TypeOK
    BY DEF IInv, Words, Basics
  <2>2. Present \in SUBSET Waiting
    BY DEF Present, Waiting
  <2>3. PICK p \in Present : \A q \in Present \ {p} : Knows(p, q)
    BY <2>1, <2>2 DEF SomebodyHasHeard
  <2>4. \A q \in conn[p] : q \in Present \ {p}
    BY <2>1, <2>3 DEF Departed, NoEcho, Present, TypeOK
  <2>5. \A q \in conn[p] : life[p][q] = "dead"
    BY <2>3, <2>4 DEF Knows, Present
  <2> QED
    BY <2>3, <2>5 DEF ResetNeeded, AllRemotePlayersDead
<1> QED
  BY <1>1, Invariance, PTL

\* mp-death-spectate-ready-record never chooses a player who is dead as far as its
\* events and states were heard.
THEOREM RespawnsBesideTheLiving == Spec => ComesBackToTheLiving
<1> DEFINE A == \A p, q \in Players :
       RespawnsAt(p, q) /\ wire[q][p] = <<>> /\ seen[q] = ShowsDeath(q) => phase[q] # "waiting"
<1>1. IInv => A
  <2> SUFFICES ASSUME IInv, NEW p \in Players, NEW q \in Players,
                      RespawnsAt(p, q), wire[q][p] = <<>>, seen[q] = ShowsDeath(q), phase[q] = "waiting"
               PROVE  FALSE
    OBVIOUS
  <2>1. DeathIsShown
    BY DEF IInv, Words
  <2>2. q \in conn[p] /\ life[p][q] = "live"
    BY DEF RespawnsAt, Eligible
  <2>3. seen[q]
    BY DEF ShowsDeath
  <2> QED
    BY <2>1, <2>2, <2>3 DEF DeathIsShown
<1>2. IInv /\ [Next]_vars => [A]_vars
  BY <1>1
<1> QED
  BY <1>2, Invariance, PTL DEF Spec, ComesBackToTheLiving

\* Who stops waiting by starting over has given up.
LEMMA OnlyGivingUpResets ==
  ASSUME TypeOK, Next, NEW p \in Players, phase[p] = "waiting", phase'[p] = "reset"
  PROVE  GivesUp(p)
<1>0. phase \in [Players -> {"out", "alive", "dying", "waiting", "reset"}]
  BY DEF TypeOK
<1>1. ASSUME phase' = phase PROVE GivesUp(p)
  BY <1>1
<1>2. ASSUME NEW q \in Players, NEW to, Enter(q, to), q # p \/ to # "reset" PROVE GivesUp(p)
  BY <1>0, <1>2 DEF Enter
<1>3. CASE ChaseEnds
  BY <1>1, <1>3 DEF ChaseEnds
<1>4. ASSUME NEW q \in Players, Dies(q) PROVE GivesUp(p)
  BY <1>2, <1>4 DEF Dies
<1>5. ASSUME NEW q \in Players, DeathEnds(q) PROVE GivesUp(p)
  <2>1. q # p
    BY <1>5 DEF DeathEnds
  <2> QED
    BY <1>2, <1>5, <2>1 DEF DeathEnds
<1>6. ASSUME NEW q \in Players, GivesUp(q) PROVE GivesUp(p)
  <2>1. CASE q = p
    BY <1>6, <2>1
  <2>2. CASE q # p
    BY <1>2, <1>6, <2>2 DEF GivesUp
  <2> QED
    BY <2>1, <2>2
<1>7. ASSUME NEW q \in Players, Spawns(q) PROVE GivesUp(p)
  BY <1>2, <1>7 DEF Spawns
<1>8. ASSUME NEW q \in Players, StateArrives(q) PROVE GivesUp(p)
  BY <1>1, <1>8 DEF StateArrives
<1>9. ASSUME NEW q \in Players, Leave(q) PROVE GivesUp(p)
  BY <1>2, <1>9 DEF Leave
<1>10. ASSUME NEW q \in Players, Join(q) PROVE GivesUp(p)
  BY <1>2, <1>10 DEF Join
<1>11. ASSUME NEW q \in Players, NEW r \in Players, RespawnsAt(q, r) PROVE GivesUp(p)
  BY <1>2, <1>11 DEF RespawnsAt
<1>12. ASSUME NEW q \in Players, NEW r \in Players, PuppetRespawns(q, r) \/ Handle(q, r) PROVE GivesUp(p)
  BY <1>1, <1>12
     DEF PuppetRespawns, Handle, RemotePlayerDied, RemotePlayerRespawned, PartyWipeReceive,
     PlayerLeft, PlayerJoined
<1> QED
  BY <1>3, <1>4, <1>5, <1>6, <1>7, <1>8, <1>9, <1>10, <1>11, <1>12 DEF Next

\* mp-all-remote-players-dead? never says so of a player who lives, as far as its
\* events were heard and its death was not settled locally.
THEOREM WipesAreRequired == Spec => WipeIsRequired
<1> DEFINE A == \A p \in Players :
       phase[p] = "waiting" /\ phase'[p] = "reset" /\ ~wiped[p] =>
         \A q \in conn[p] : wire[q][p] = <<>> /\ q \notin settled => phase[q] # "alive"
<1>1. IInv /\ Next => A
  <2> SUFFICES ASSUME IInv, Next, NEW p \in Players, phase[p] = "waiting", phase'[p] = "reset", ~wiped[p],
                      NEW q \in conn[p], wire[q][p] = <<>>, q \notin settled, phase[q] = "alive"
               PROVE  FALSE
    OBVIOUS
  <2>1. TypeOK /\ NoLastingDeath /\ NoEcho
    BY DEF IInv, Basics
  <2>2. q \in Players /\ q # p
    BY <2>1 DEF TypeOK, NoEcho
  <2>3. GivesUp(p)
    BY <2>1, OnlyGivingUpResets
  <2>4. life[p][q] = "dead"
    BY <2>3 DEF GivesUp, ResetNeeded, AllRemotePlayersDead
  <2>5. ~Revives(life[p][q], wire[q][p])
    BY <2>4, EmptySeq DEF Revives
  <2> QED
    BY <2>1, <2>2, <2>5 DEF NoLastingDeath
<1>2. IInv /\ [Next]_vars => [A]_vars
  BY <1>1
<1> QED
  BY <1>2, Invariance, PTL DEF Spec, WipeIsRequired
============================================================================
