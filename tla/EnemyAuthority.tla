--------------------------- MODULE EnemyAuthority ---------------------------
(***************************************************************************)
(* Who drives an enemy (mp-enemy-sync.gc, the authority events of          *)
(* mp-event-handlers.gc, the slots of enemy_sync.cpp): every machine runs  *)
(* a copy of one ordinary enemy of a level, has a record of who it takes   *)
(* for the enemy's owner, and a slot with the last state that another      *)
(* machine sent.  The owner sends its state each frame, unreliably; a      *)
(* machine that asks for the enemy, or yields it, says so with a reliable  *)
(* event.                                                                  *)
(*                                                                         *)
(* Where the players stand, what the enemy looks at and how much time went *)
(* by are inputs of a frame.  The enemy lives; that of a battle or a boss, *)
(* a bot, and one met while riding along, whose owner is fixed, are not    *)
(* the ones meant here.                                                    *)
(***************************************************************************)
EXTENDS Naturals, Sequences, FiniteSets

CONSTANTS
  Players, Host,
  None, Stale,  \* a slot never written, and one last written 2 seconds ago
  MaxEvents     \* bound: no machine asks when more events would be under way
                \* between two of them; what was sent is always handled

ASSUME PlayersAssumption == Host \in Players
ASSUME MaxEventsAssumption == MaxEvents \in Nat \ {0}

VARIABLES
  rec,     \* the record that each machine has
  slot,    \* remote-enemies of each machine
  events   \* events[<<p, q>>]: events of p that q has yet to handle

vars == <<rec, slot, events>>

Remotes(p) == Players \ {p}

\* The age of a time stamp: less than 2 seconds, less than 10, more.
Ages == {"new", "mid", "old"}

Older(age) == IF age = "new" THEN "mid" ELSE "old"

States == [owner : Players, aggro : BOOLEAN]

TypeOK ==
  /\ rec \in [Players ->
       [on : BOOLEAN, owner : Players, aggro : BOOLEAN,
        moved : {"new", "old"},   \* last-transfer-time: "old" after 2 seconds
        heard : Ages]]            \* last-remote-seen
  /\ slot \in [Players -> States \cup {None, Stale}]
  /\ events \in [Players \X Players -> Seq({"request", "ack"})]

Mine(p) == [on |-> TRUE, owner |-> p, aggro |-> FALSE, moved |-> "old", heard |-> "new"]

\* mp-enemy-release-auth-record!: what is in it does not matter any more.
Released(p) == [Mine(p) EXCEPT !.on = FALSE]

\* Every machine has just loaded the enemy.
Init ==
  /\ rec = [p \in Players |-> Mine(p)]
  /\ slot = [p \in Players |-> None]
  /\ events = [pq \in Players \X Players |-> <<>>]

Fresh(s) == s \notin {None, Stale}

\* The machine that moves the enemy, and sends its state.
Drives(p) == rec[p].on /\ rec[p].owner = p

Sent(p, event) ==
  [pq \in Players \X Players |->
     IF pq[1] = p /\ pq[2] # p THEN Append(events[pq], event) ELSE events[pq]]

Room == \A pq \in Players \X Players : Len(events'[pq]) <= MaxEvents

----------------------------------------------------------------------------
(* A frame.  Its operators take the record r of p from one stage of the    *)
(* callback to the next; s is the slot, here says where the local player   *)
(* is, compared with the remote one that is nearest to the enemy.          *)

Heres == {"unknown", "near",  \* by more than 10 metres, and within the enemy's notice
          "nearer", "farther", "far10", "far15"}

\* A record that is missing is made, and believes a fresh slot.
Recorded(p, r, s, here, nearest) ==
  IF r.on THEN r
  ELSE IF ~Fresh(s) THEN Mine(p)
  ELSE IF s.aggro THEN [Mine(p) EXCEPT !.owner = s.owner, !.aggro = TRUE]
  ELSE IF here \in {"unknown", "far10", "far15"} \/ (p # Host /\ here = "farther")
  THEN [Mine(p) EXCEPT !.owner = nearest]
  ELSE Mine(p)

\* Seeded fault: a client that fights the enemy keeps it.
YieldedInPeace(p, r, s) ==
  IF p # Host /\ s.owner = Host /\ r.owner = p /\ ~r.aggro /\ r.moved = "old"
  THEN [r EXCEPT !.owner = Host, !.aggro = s.aggro]
  ELSE r

\* A client leaves an enemy that the host drives as well.
Yielded(p, r, s) ==
  IF /\ p # Host /\ s.owner = Host /\ r.owner = p
     /\ ~(r.aggro /\ ~s.aggro) /\ r.moved = "old"
  THEN [r EXCEPT !.owner = Host, !.aggro = s.aggro]
  ELSE r

\* An enemy that fights elsewhere, or that somebody else drives, is theirs.
Followed(p, r, s, here) ==
  IF r.aggro \/ r.moved = "new" THEN r
  ELSE IF s.aggro THEN [r EXCEPT !.owner = s.owner, !.aggro = TRUE]
  ELSE IF s.owner # p /\ (p # Host \/ here \in {"unknown", "far15"})
  THEN [r EXCEPT !.owner = s.owner]
  ELSE r

\* Seeded fault: an old slot counts as well.
HeardOfOld(p, r, s, here) ==
  IF Fresh(s) THEN Followed(p, Yielded(p, [r EXCEPT !.heard = "new"], s), s, here)
  ELSE IF s = Stale THEN [r EXCEPT !.heard = "new"]
  ELSE r

\* What a fresh slot tells.
Heard(p, r, s, here) ==
  IF Fresh(s) THEN Followed(p, Yielded(p, [r EXCEPT !.heard = "new"], s), s, here) ELSE r

\* The enemy has noticed the local player, or the local player is near it.
Asks(p, r, here, noticed) ==
  r.owner # p /\ ~r.aggro /\ r.moved = "old" /\ (noticed \/ here = "near")

Asked(p, r, here, noticed) ==
  [r EXCEPT !.moved = IF Asks(p, r, here, noticed) THEN "new" ELSE @,
            !.aggro = @ \/ (noticed /\ (r.owner = p \/ r.moved = "old"))]

\* Who does not own the enemy takes it when nothing was heard of it for long.
Kept(p, r, s) ==
  IF (s # None /\ r.heard = "new") \/ r.moved = "new" THEN r ELSE [r EXCEPT !.owner = p]

\* What the clock does between two frames, which are never seconds apart; a
\* slot ages by a clock of its own.
Aged(r, old) ==
  [r EXCEPT !.moved = IF "moved" \in old THEN "old" ELSE @,
            !.heard = IF "heard" \in old THEN Older(@) ELSE @]

SlotAged(s, old) == IF "slot" \in old /\ Fresh(s) THEN Stale ELSE s

\* The owner's state reaches the machines of to: others' slots and its own.
Shown(p, r, s, to) ==
  [q \in Players |->
     IF q = p THEN s
     ELSE IF r.owner = p /\ q \in to THEN [owner |-> p, aggro |-> r.aggro]
     ELSE slot[q]]

\* mp-sync-enemies-update: a record that heard of nobody for 10 seconds goes,
\* and the callback goes through the enemy.
Frame(p, old, here, nearest, noticed, to) ==
  \E s \in {SlotAged(slot[p], old)}, aged \in {Aged(rec[p], old)} :
  \E r \in {IF aged.heard = "old" THEN Released(p) ELSE aged} :
  \E h \in {Heard(p, Recorded(p, r, s, here, nearest), s, here)} :
  \E a \in {Asked(p, h, here, noticed)} :
    /\ rec' = [rec EXCEPT ![p] = Kept(p, a, s)]
    /\ slot' = Shown(p, a, s, to)
    /\ events' = IF Asks(p, h, here, noticed) THEN Sent(p, "request") ELSE events
    /\ Asks(p, h, here, noticed) => Room

\* The ages of machine p that time can still change.
Young(p) ==
  (IF rec[p].on THEN {"heard"} ELSE {})
    \cup (IF rec[p].moved = "new" THEN {"moved"} ELSE {})
    \cup (IF Fresh(slot[p]) THEN {"slot"} ELSE {})

AnyFrame(p) ==
  \E old \in SUBSET Young(p), noticed \in BOOLEAN, here \in Heres,
     nearest \in Remotes(p), to \in SUBSET Remotes(p) :
    Frame(p, old, here, nearest, noticed, to)

\* The frame of an enemy that is too far away to act, or is not loaded.
Culled(p) ==
  /\ rec' = [rec EXCEPT ![p] = Released(p)]
  /\ \E old \in SUBSET {"slot"} : slot' = [slot EXCEPT ![p] = SlotAged(@, old)]
  /\ UNCHANGED events

----------------------------------------------------------------------------
(* Events of p, handled by q.                                              *)

\* Seeded fault: the host yields like a client.
YieldsAlways(q) == rec[q].on

\* The host does not yield an enemy that fights it; a client always does.
Yields(q) == rec[q].on /\ (q = Host => ~rec[q].aggro)

RequestHeard(p, q) ==
  /\ events[<<p, q>>] # <<>> /\ Head(events[<<p, q>>]) = "request"
  /\ rec' = IF Yields(q)
            THEN [rec EXCEPT ![q].owner = p, ![q].moved = "new", ![q].heard = "new"] ELSE rec
  /\ events' = [IF Yields(q) THEN Sent(q, "ack") ELSE events EXCEPT ![<<p, q>>] = Tail(@)]
  /\ UNCHANGED slot

AckHeard(p, q) ==
  /\ events[<<p, q>>] # <<>> /\ Head(events[<<p, q>>]) = "ack"
  /\ rec' = IF rec[q].on THEN [rec EXCEPT ![q].owner = q, ![q].moved = "new"] ELSE rec
  /\ events' = [events EXCEPT ![<<p, q>>] = Tail(@)]
  /\ UNCHANGED slot

Next ==
  \/ \E p \in Players : AnyFrame(p)
  \/ \E p \in Players : Culled(p)
  \/ \E p, q \in Players : RequestHeard(p, q)
  \/ \E p, q \in Players : AckHeard(p, q)

\* A frame that loses no state.
FairFrame(p, old) ==
  \E noticed \in BOOLEAN, here \in Heres, nearest \in Remotes(p) :
    Frame(p, old, here, nearest, noticed, Remotes(p))

\* Time goes by, not every state is lost, and what nobody sends gets stale.
Fairness ==
  /\ \A p \in Players :
       /\ WF_vars(FairFrame(p, {"moved"}))
       /\ WF_vars(/\ \A q \in Remotes(p) : ~Drives(q)
                  /\ FairFrame(p, {"moved", "heard", "slot"}))
  /\ \A p, q \in Players : WF_vars(RequestHeard(p, q)) /\ WF_vars(AckHeard(p, q))

Spec == Init /\ [][Next]_vars
FairSpec == Spec /\ Fairness

----------------------------------------------------------------------------
(* Properties.                                                             *)

\* Two machines that hear of each other do not drive the same enemy for ever.
OneLetsGo ==
  []<>(\/ Cardinality({p \in Players : Drives(p)}) <= 1
       \/ \E p \in Players : Drives(p) /\ ~Fresh(slot[p]))

\* An enemy that somebody runs does not stay without an owner.
OwnerComesBack == []<>((\E p \in Players : rec[p].on) => \E p \in Players : Drives(p))

\* The host does not lose an enemy that fights it, while others are heard of.
HostKeepsItsFight ==
  [][Drives(Host) /\ rec[Host].aggro /\ rec[Host].heard = "new" /\ rec'[Host].on
       => rec'[Host].owner = Host]_vars

=============================================================================
