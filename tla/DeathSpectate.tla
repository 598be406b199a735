---------------------------- MODULE DeathSpectate ----------------------------
(***************************************************************************)
(* Death of a player among others (target-death.gc, mp-death-spectate.gc,  *)
(* mp-respawn-policy.gc, the death events of mp-event-handlers.gc, the     *)
(* puppets of mp-remote.gc and mp-puppet.gc).  Who dies watches the others *)
(* and comes back beside one who lives, unless nobody lives: then the      *)
(* party is wiped and everybody who is dead starts over.  During a chase   *)
(* deaths are settled locally.                                             *)
(*                                                                         *)
(* What a machine believes of another player comes from three sources that *)
(* do not wait for each other: its events, its states, and the puppet that *)
(* is made anew whenever the two get close again.                          *)
(***************************************************************************)
EXTENDS Naturals, Sequences, FiniteSets

CONSTANTS
  Players,
  Guests,       \* the players who may leave and join
  Chaser,       \* who is chased, if anybody
  MaxDeaths,    \* bound: deaths in a behaviour
  MaxWire,      \* bound: who dies has no longer queue of events under way
  Roaming,      \* bound: the pairs that get far from each other and close again
  MaxJourneys   \* bound: departures and joins in a behaviour

ASSUME GuestsAssumption == Guests \subseteq Players
ASSUME BoundsAssumption == {MaxDeaths, MaxWire} \subseteq Nat /\ MaxJourneys \in Nat

VARIABLES
  phase,     \* what each player does
  announce,  \* *mp-death-respawn-event-pending?*
  wiped,     \* *mp-death-party-wipe-pending?*
  conn,      \* conn[p]: the gameplay players p is connected with
  life,      \* life[p][q]: the flags dying and dead of p's record of q
  seen,      \* seen[q]: the latest state of q that arrived shows a death state
  chase,     \* a chase is on, so remote placement is forbidden
  wire,      \* wire[q][p]: events of q that p has yet to handle
  settled,   \* auxiliary: the players whose latest death was settled locally
  deaths, journeys

vars == <<phase, announce, wiped, conn, life, seen, chase, wire, settled, deaths, journeys>>
machines == <<announce, wiped, conn, chase, settled, deaths, journeys>>
records == <<life, seen>>

Present == {p \in Players : phase[p] # "out"}

Events == {"died", "respawned", "wipe", "join", "leave"}

\* Every variable has its type.
TypeOK ==
  /\ phase \in [Players -> {"out", "alive", "dying", "waiting", "reset"}]
  /\ announce \in [Players -> BOOLEAN] /\ wiped \in [Players -> BOOLEAN]
  /\ conn \in [Players -> SUBSET Players]
  /\ life \in [Players -> [Players -> {"live", "dying", "dead"}]]
  /\ seen \in [Players -> BOOLEAN]
  /\ chase \in BOOLEAN
  /\ wire \in [Players -> [Players -> Seq(Events)]]
  /\ settled \subseteq Players
  /\ deaths \in 0..MaxDeaths /\ journeys \in 0..MaxJourneys

\* Somebody may be out, to join later, and a chase may be on.
Start ==
  /\ phase \in [Players -> {"alive", "out"}] /\ Players \ Present \subseteq Guests
  /\ announce = [p \in Players |-> FALSE] /\ wiped = announce
  /\ conn = [p \in Players |-> IF p \in Present THEN Present \ {p} ELSE {}]
  /\ life = [p \in Players |-> [q \in Players |-> "live"]]
  /\ seen = [p \in Players |-> FALSE]
  /\ chase \in BOOLEAN /\ (chase => Chaser \in Present)
  /\ wire = [q \in Players |-> [p \in Players |-> <<>>]]
  /\ settled = {}

Init == Start /\ deaths = 0 /\ journeys = 0

\* wire after p has broadcast event e.
Sent(p, e) ==
  [wire EXCEPT ![p] =
     [q \in Players |-> IF q \in Present \ {p} THEN Append(@[q], e) ELSE @[q]]]

Enter(p, to) == phase' = [phase EXCEPT ![p] = to]

----------------------------------------------------------------------------
(* The player who dies                                                     *)

Dies(p) ==
  /\ phase[p] = "alive"
  /\ deaths < MaxDeaths
  /\ \A q \in Players : Len(wire[p][q]) <= MaxWire
  /\ deaths' = deaths + 1
  /\ Enter(p, "dying")
  /\ UNCHANGED <<announce, wiped, conn, chase, settled, journeys, records, wire>>

BlocksRespawn(q) == chase /\ q = Chaser

\* mp-should-use-local-respawn?
UsesLocalRespawn(p) == conn[p] = {} \/ \E q \in conn[p] \cup {p} : BlocksRespawn(q)

\* The end of the animation: the policy is latched, and the death announced.
DeathEnds(p) ==
  /\ phase[p] = "dying"
  /\ Enter(p, IF UsesLocalRespawn(p) THEN "reset" ELSE "waiting")
  /\ wire' = Sent(p, "died")
  /\ settled' = IF UsesLocalRespawn(p) THEN settled \cup {p} ELSE settled \ {p}
  /\ UNCHANGED <<announce, wiped, conn, chase, deaths, journeys, records>>

\* Seeded fault of WipeIsRequired: one dead player is enough.
AnyRemotePlayerDead(p) == \E q \in conn[p] : life[p][q] = "dead"

AllRemotePlayersDead(p) == conn[p] # {} /\ \A q \in conn[p] : life[p][q] = "dead"

\* Seeded fault of NobodyHangs: nobody left to wait for is forgotten.
ResetNeededAmongOthers(p) == wiped[p] \/ AllRemotePlayersDead(p)

ResetNeeded(p) == wiped[p] \/ conn[p] = {} \/ AllRemotePlayersDead(p)

\* A reset that no other player has asked for.
WipesParty(p) == ~wiped[p] /\ AllRemotePlayersDead(p)

GivesUp(p) ==
  /\ phase[p] = "waiting"
  /\ ResetNeeded(p)
  /\ Enter(p, "reset")
  /\ announce' = [announce EXCEPT ![p] = TRUE]
  /\ wiped' = [wiped EXCEPT ![p] = @ \/ WipesParty(p)]
  /\ wire' = IF WipesParty(p) THEN Sent(p, "wipe") ELSE wire
  /\ UNCHANGED <<conn, chase, settled, deaths, journeys, records>>

\* Seeded fault of ComesBackToTheLiving: whoever is connected will do.
EligibleInAnyState(p, q) == q \in conn[p]

Eligible(p, q) == q \in conn[p] /\ life[p][q] = "live"

RespawnsAt(p, q) ==
  /\ phase[p] = "waiting"
  /\ ~ResetNeeded(p)
  /\ Eligible(p, q)
  /\ Enter(p, "alive")
  /\ wire' = Sent(p, "respawned")
  /\ UNCHANGED <<machines, records>>

\* mp-death-respawn-event-on-spawn!, once the game is initialized again.
Spawns(p) ==
  /\ phase[p] = "reset"
  /\ Enter(p, "alive")
  /\ announce' = [announce EXCEPT ![p] = FALSE]
  /\ wiped' = [wiped EXCEPT ![p] = FALSE]
  /\ wire' = IF announce[p] THEN Sent(p, "respawned") ELSE wire
  /\ UNCHANGED <<conn, chase, settled, deaths, journeys, records>>

----------------------------------------------------------------------------
(* What the others see                                                     *)

ShowsDeath(q) == phase[q] \in {"dying", "waiting"}

\* A state arrives, at all machines, and the puppets follow it in the same
\* frame: with the first that shows the death they die, unless q is chased.
StateArrives(q) ==
  /\ phase[q] \in {"alive", "dying", "waiting"}
  /\ seen[q] # ShowsDeath(q)
  /\ seen' = [seen EXCEPT ![q] = ShowsDeath(q)]
  /\ life' = [p \in Players |-> [life[p] EXCEPT ![q] =
       IF q \in conn[p] /\ @ = "live" /\ ShowsDeath(q) /\ ~BlocksRespawn(q)
       THEN "dying" ELSE @]]
  /\ UNCHANGED <<phase, machines, wire>>

\* Seeded fault of SomebodyKnows: distances from the camera, which follows
\* whoever is watched.
MovesWithCamera(p) == phase[p] # "out"

\* Who is in play moves, or is moved; distances are taken from the target.
Moves(p) == phase[p] \in {"alive", "dying", "reset"}

\* mp-puppet-spawn takes a new puppet to be alive, until it looks at the
\* latest state, still in the same frame.
LifeOfPuppet(p, q) == IF seen[q] /\ ~BlocksRespawn(q) THEN "dying" ELSE "live"

\* Two players were far from each other and get close, or p watches one that
\* is far.  A puppet that is away is one that has yet to be made anew: nothing
\* asks for it before.
PuppetRespawns(p, q) ==
  /\ q \in conn[p] /\ {p, q} \in Roaming
  /\ Moves(p) \/ Moves(q)
  /\ life' = [life EXCEPT ![p][q] = LifeOfPuppet(p, q)]
  /\ UNCHANGED <<phase, machines, seen, wire>>

----------------------------------------------------------------------------
(* Events                                                                  *)

Heard(p, q, e) ==
  /\ wire[q][p] # <<>>
  /\ Head(wire[q][p]) = e
  /\ wire' = [wire EXCEPT ![q][p] = Tail(@)]

RemotePlayerDied(p, q) ==
  /\ Heard(p, q, "died")
  /\ life' = [life EXCEPT ![p][q] = "dead"]
  /\ UNCHANGED <<phase, machines, seen>>

RemotePlayerRespawned(p, q) ==
  /\ Heard(p, q, "respawned")
  /\ life' = [life EXCEPT ![p][q] = "live"]
  /\ UNCHANGED <<phase, machines, seen>>

\* Seeded fault of WipeIsOfThisDeath: a wipe is noted by the living as well.
DeadOrAlive(p) == phase[p] # "out"

DeadOrSpectating(p) == announce[p] \/ phase[p] \in {"dying", "waiting"}

PartyWipeReceive(p, q) ==
  /\ Heard(p, q, "wipe")
  /\ wiped' = [wiped EXCEPT ![p] = @ \/ DeadOrSpectating(p)]
  /\ UNCHANGED <<phase, announce, conn, chase, settled, deaths, journeys, records>>

\* The departure, and the frame that clears the stale record.
PlayerLeft(p, q) ==
  /\ Heard(p, q, "leave")
  /\ conn' = [conn EXCEPT ![p] = @ \ {q}]
  /\ life' = [life EXCEPT ![p][q] = "live"]
  /\ UNCHANGED <<phase, announce, wiped, seen, chase, settled, deaths, journeys>>

PlayerJoined(p, q) ==
  /\ Heard(p, q, "join")
  /\ conn' = [conn EXCEPT ![p] = @ \cup {q}]
  /\ life' = [life EXCEPT ![p][q] = "live"]
  /\ UNCHANGED <<phase, announce, wiped, seen, chase, settled, deaths, journeys>>

Handle(p, q) ==
  \/ RemotePlayerDied(p, q)
  \/ RemotePlayerRespawned(p, q)
  \/ PartyWipeReceive(p, q)
  \/ PlayerLeft(p, q)
  \/ PlayerJoined(p, q)

----------------------------------------------------------------------------
(* The session, and the chase                                              *)

Leave(q) ==
  /\ q \in Guests /\ phase[q] # "out"
  /\ journeys < MaxJourneys /\ journeys' = journeys + 1
  /\ Enter(q, "out")
  /\ announce' = [announce EXCEPT ![q] = FALSE]
  /\ wiped' = [wiped EXCEPT ![q] = FALSE]
  /\ conn' = [conn EXCEPT ![q] = {}]
  /\ life' = [life EXCEPT ![q] = [p \in Players |-> "live"]]
  /\ seen' = [seen EXCEPT ![q] = FALSE]
  /\ wire' = [p \in Players |-> [Sent(q, "leave")[p] EXCEPT ![q] = <<>>]]
  /\ chase' = (chase /\ q # Chaser)
  /\ settled' = settled \ {q}
  /\ UNCHANGED deaths

\* Who joins makes its puppets from the states that have come meanwhile.
Join(q) ==
  /\ phase[q] = "out"
  /\ journeys < MaxJourneys /\ journeys' = journeys + 1
  /\ Enter(q, "alive")
  /\ conn' = [conn EXCEPT ![q] = Present]
  /\ life' = [life EXCEPT ![q] =
       [p \in Players |-> IF p \in Present THEN LifeOfPuppet(q, p) ELSE "live"]]
  /\ wire' = Sent(q, "join")
  /\ UNCHANGED <<announce, wiped, seen, chase, settled, deaths>>

ChaseEnds ==
  /\ chase
  /\ phase[Chaser] = "alive"
  /\ chase' = FALSE
  /\ UNCHANGED <<phase, announce, wiped, conn, records, wire, settled, deaths, journeys>>

Next ==
  \/ ChaseEnds
  \/ \E p \in Players :
       \/ Dies(p) \/ DeathEnds(p) \/ GivesUp(p) \/ Spawns(p)
       \/ StateArrives(p) \/ Leave(p) \/ Join(p)
  \/ \E p, q \in Players : RespawnsAt(p, q) \/ PuppetRespawns(p, q) \/ Handle(p, q)

Spec == Init /\ [][Next]_vars

\* Frames go on: animations end, the game is initialized again, events and
\* some states arrive, and who waits either gives up or comes back.
Fairness ==
  /\ \A p \in Players :
       /\ WF_vars(DeathEnds(p)) /\ WF_vars(GivesUp(p)) /\ WF_vars(Spawns(p))
       /\ WF_vars(\E q \in Players : RespawnsAt(p, q))
       /\ WF_vars(StateArrives(p))
  /\ \A p, q \in Players : WF_vars(Handle(p, q))

FairSpec == Spec /\ Fairness

----------------------------------------------------------------------------
(* Properties                                                              *)

\* A player starts over on its own account only when a full reset is required:
\* nobody it is connected with lives, as far as that player's events have
\* been heard (mp-death-spectate-reset-needed?).
WipeIsRequired ==
  [][\A p \in Players :
       phase[p] = "waiting" /\ phase'[p] = "reset" /\ ~wiped[p] =>
         \A q \in conn[p] : wire[q][p] = <<>> /\ q \notin settled => phase[q] # "alive"]_vars

\* Who comes back beside a player whose events and states have been heard does
\* not come back beside a corpse (mp-death-spectate-ready-record).
ComesBackToTheLiving ==
  [][\A p, q \in Players :
       RespawnsAt(p, q) /\ wire[q][p] = <<>> /\ seen[q] = ShowsDeath(q) =>
         phase[q] # "waiting"]_vars

\* When everybody waits and every event was heard, somebody knows that all the
\* others are dead, whoever has come closer, left or joined in between: the
\* puppet that is made anew forgets a death that its event had told of.
SomebodyKnows ==
  (\A p \in Present : phase[p] = "waiting") /\ (\A p, q \in Players : wire[q][p] = <<>>)
    => Present = {} \/ \E p \in Present : ResetNeeded(p)

\* The wipe that ends a death does not outlive it: nobody lives with one
\* pending, who would start over at the next death however many others live.
WipeIsOfThisDeath == \A p \in Players : wiped[p] => phase[p] \in {"dying", "waiting", "reset"}

\* A puppet that was made from a state older than the last event: q came back,
\* said so, and is taken to be dying.
Misjudged(p, q) == q \in conn[p] /\ phase[q] = "alive" /\ life[p][q] = "dying" /\ wire[q][p] = <<>>

\* Nobody waits for ever, except for a player that is misjudged.
NobodyHangs ==
  \A p \in Players :
    []<>(phase[p] # "waiting" \/ \E q \in Players : Misjudged(p, q))
=============================================================================
