-------------------------- MODULE SceneCoordinator --------------------------
(***************************************************************************)
(* Cutscenes that are watched together (mp-scene-coordinator.gc, the scene *)
(* events of mp-event-handlers.gc, the scene player of scene.gc): every    *)
(* machine keeps the cohort of the scene that is on, its players' votes to *)
(* skip it, and a latch for each remote player it has heard of; the host   *)
(* finalizes a unanimous vote, and plays the start again for whoever is    *)
(* not there yet.  Events are reliable; the flag that says whether a       *)
(* player is in a scene comes with its state, whenever that arrives.       *)
(*                                                                         *)
(* Of two machines' events to a third neither waits for the other: the     *)
(* host's travel on another channel than those it relays.                  *)
(***************************************************************************)
EXTENDS Naturals, Sequences, FiniteSets, SequencesExt

CONSTANTS
  Players, Host,
  Late,      \* the clients that are not there from the start
  Scenes,    \* names
  None,      \* no scene
  Copies     \* bound: how often the same event may be queued for one machine

ASSUME PlayersAssumption == Host \in Players /\ Late \subseteq Players \ {Host}
ASSUME ScenesAssumption == None \notin Scenes
ASSUME CopiesAssumption == Copies \in Nat \ {0}

VARIABLES
  machine,  \* what each machine keeps
  conn,     \* where a player is in its life in the session
  net       \* net[<<p, q>>]: events of p that q has yet to handle

vars == <<machine, conn, net>>

Clients == Players \ {Host}
Remotes(p) == Players \ {p}

Events == [type : {"start", "vote", "skip"}, scene : Scenes]

\* What one machine keeps: the scene it is in, and its cohort.
Machine ==
  [scene : Scenes \cup {None}, aborted : BOOLEAN,
   new : BOOLEAN,                      \* its scene player waits for a frame
   last : Scenes \cup {None},          \* *mp-last-scene-name*
   pending : BOOLEAN,                  \* a remote start that waits for this machine
   phase : {"off", "active", "final"},
   name : Scenes \cup {None}, entered : SUBSET Players, votes : SUBSET Players,
   caught : SUBSET Players,            \* the catchup mask
   known : SUBSET Players,             \* records that are connected
   playing : SUBSET Players,           \* scene-state
   latched : SUBSET Players]           \* scene-latched?

Fresh == [scene |-> None, aborted |-> FALSE, new |-> FALSE, last |-> None, pending |-> FALSE,
          phase |-> "off", name |-> None, entered |-> {}, votes |-> {}, caught |-> {},
          known |-> {}, playing |-> {}, latched |-> {}]

\* Every variable has its type.
TypeOK ==
  /\ machine \in [Players -> Machine]
  /\ conn \in [Players -> {"away", "loading", "in", "left"}]
  /\ net \in [Players \X Players -> Seq(Events)]

\* The masks of a machine belong to one cohort: a vote has an entry, a flag or
\* a latch has a connected record, a start that waits has its cohort (whose
\* name it is spawned by), and a cohort that is over leaves nothing behind.
MasksAgree ==
  /\ TypeOK
  /\ \A p \in Players : LET s == machine[p] IN
       /\ s.votes \subseteq s.entered
       /\ s.playing \cup s.latched \subseteq s.known
       /\ s.pending => s.phase = "active"
       /\ s.phase = "off" => s.name = None /\ s.entered \cup s.caught \cup s.latched = {}

In(p) == conn[p] = "in"
Present == {p \in Players : conn[p] \in {"loading", "in"}}

Init ==
  /\ conn = [p \in Players |-> IF p \in Late THEN "away" ELSE "in"]
  /\ machine = [p \in Players |->
       IF p \in Late THEN Fresh ELSE [Fresh EXCEPT !.known = Players \ (Late \cup {p})]]
  /\ net = [pq \in Players \X Players |-> <<>>]

----------------------------------------------------------------------------
(* Events                                                                  *)

Event(type, scene) == [type |-> type, scene |-> scene]

\* The bound on the copies of an event.
Fits(queue, e) == Cardinality({i \in DOMAIN queue : queue[i] = e}) < Copies

\* The queues n after p has broadcast e, when it does, to everyone it is in a
\* session with.
Sent(n, p, does, e) ==
  [pq \in Players \X Players |->
     IF does /\ pq[1] = p /\ pq[2] \in Present \ {p} /\ p \in Present /\ Fits(n[pq], e)
     THEN Append(n[pq], e) ELSE n[pq]]

----------------------------------------------------------------------------
(* The cohort of one machine, as functions of its state s                  *)

Reset(s) ==
  [s EXCEPT !.phase = "off", !.name = None, !.entered = {}, !.votes = {},
            !.caught = {}, !.latched = {}]

Ensured(s, scene) ==
  IF s.phase = "off"
  THEN [Reset(s) EXCEPT !.phase = "active", !.name = scene] ELSE s

Concerns(s, scene) == s.phase = "active" /\ s.name = scene

\* mp-scene-coordinator-note-remote-start!
MayEnter(s, q, scene) == q \in s.known /\ Concerns(Ensured(s, scene), scene)

Entered(s, q, scene) ==
  [Ensured(s, scene) EXCEPT !.entered = @ \cup {q}, !.latched = @ \cup {q}]

\* mp-register-local-scene-if-ready!: noted and broadcast once, and again
\* should the machine have lost its own entry.
MustRegister(p, s) ==
  /\ In(p)
  /\ s.scene # None
  /\ ~s.aborted
  /\ Concerns(Ensured(s, s.scene), s.scene)
  /\ p \notin s.entered

Registered(p, s) ==
  IF MustRegister(p, s)
  THEN [Ensured(s, s.scene) EXCEPT !.entered = @ \cup {p},
                                      !.caught = IF p = Host THEN s.known ELSE @]
  ELSE s

Announced(n, p, s) == Sent(n, p, MustRegister(p, s), Event("start", s.scene))

\* scene-player-init: the scene this machine was in last is not shown again.
Spawned(s, scene) ==
  [s EXCEPT !.scene = scene, !.aborted = (scene = s.last), !.last = scene, !.new = TRUE]

\* mp-scene-coordinator-note-vote!
MayVote(p, s, q, scene) ==
  /\ Concerns(s, scene)
  /\ q \in s.known \cup {p}
  /\ q \notin s.votes

Voted(p, s, q) ==
  [s EXCEPT !.entered = @ \cup {q}, !.votes = @ \cup {q},
            !.latched = IF q = p THEN @ ELSE @ \cup {q}]

\* Seeded fault: only the flag of a player's state counts, not the latch.
ParticipantsByState(p, s) ==
  {q \in s.entered : IF q = p THEN s.scene = s.name ELSE q \in s.known \cap s.playing}

\* mp-scene-coordinator-participant-mask
Participants(p, s) ==
  {q \in s.entered : IF q = p THEN s.scene = s.name
                     ELSE q \in s.known /\ q \in s.playing \cup s.latched}

\* mp-complete-active-host-scene-skip-if-ready!
SkipReady(p, s) ==
  /\ p = Host
  /\ s.phase = "active"
  /\ s.scene = s.name
  /\ ~s.aborted
  /\ Participants(p, s) # {}
  /\ Participants(p, s) \subseteq s.votes

\* Seeded fault: the latches outlive the scene.
FinalLatched(s) == [s EXCEPT !.phase = "final", !.votes = {}]

Final(s) == [s EXCEPT !.phase = "final", !.votes = {}, !.latched = {}]

Completed(p, s) == IF SkipReady(p, s) THEN [Final(s) EXCEPT !.aborted = TRUE] ELSE s

Skipped(n, p, s) == Sent(n, p, SkipReady(p, s), Event("skip", s.name))

----------------------------------------------------------------------------
(* The scene player of one machine                                         *)

\* The game starts a scene: a trigger, a task.  The one before is not started
\* again, or ends at once.
StartScene(p) ==
  /\ In(p)
  /\ machine[p].scene = None
  /\ \E scene \in Scenes \ {machine[p].last} :
       LET s == Spawned(machine[p], scene)
       IN  /\ machine' = [machine EXCEPT ![p] = Registered(p, s)]
           /\ net' = Announced(net, p, s)
  /\ UNCHANGED conn

\* Triangle, a second into the scene.
PressSkip(p) ==
  LET s == machine[p]
      votes == MayVote(p, s, p, s.scene)
      s2 == IF votes THEN Voted(p, s, p) ELSE s
  IN  /\ s.scene # None
      /\ ~s.aborted
      /\ ~s.new
      /\ machine' = [machine EXCEPT ![p] = Completed(p, s2)]
      /\ net' = Skipped(Sent(net, p, votes, Event("vote", s.scene)), p, s2)
      /\ UNCHANGED conn

\* The scene is over, or torn down after it was aborted: either takes frames.
SceneEnds(p) ==
  /\ machine[p].scene # None
  /\ ~machine[p].new
  /\ machine' = [machine EXCEPT ![p].scene = None, ![p].aborted = FALSE]
  /\ UNCHANGED <<conn, net>>

----------------------------------------------------------------------------
(* A frame: play-anim of the scene player, and mp-sync-scene-tick          *)

\* mp-process-pending-scene-sync!: it waits for another local scene to end,
\* for the source's state and the levels; without a participant it is dropped.
PendingDone(p, s) ==
  IF ~s.pending THEN {s}
  ELSE IF s.scene = s.name THEN {[s EXCEPT !.pending = FALSE]}
  ELSE IF s.scene # None THEN {s}
  ELSE IF s.entered \cap s.known = {} THEN {[s EXCEPT !.pending = FALSE]}
  ELSE {s, [Spawned(s, s.name) EXCEPT !.pending = FALSE]}

\* mp-scene-coordinator-reconcile-player! for everyone: who is not in the
\* scene loses its entry and its vote, and is taken for one who was never told.
Reconciled(p, s) ==
  LET there == {q \in Players :
                  IF q = p THEN In(p) /\ s.scene = s.name
                  ELSE q \in s.known /\ q \in s.playing \cup s.latched}
  IN  IF s.phase = "off" THEN s
      ELSE [s EXCEPT !.entered = @ \cap there, !.votes = @ \cap there, !.caught = @ \cap there]

\* Seeded fault: the start is played again for those who know it.
ReplaysToNobody(p, s) ==
  /\ p = Host
  /\ s.phase = "active"
  /\ s.scene = s.name
  /\ ~s.aborted
  /\ ~(s.caught \subseteq s.known)

\* mp-scene-coordinator-replay-for-late-joins!
Replays(p, s) ==
  /\ p = Host
  /\ s.phase = "active"
  /\ s.scene = s.name
  /\ ~s.aborted
  /\ ~(s.known \subseteq s.caught)

Replayed(p, s) ==
  IF Replays(p, s) THEN [s EXCEPT !.caught = s.known] ELSE s

\* Seeded fault: a start that waits does not keep the cohort.
OverWhilePending(p, s) ==
  /\ s.phase # "off"
  /\ s.scene = None
  /\ IF s.phase = "final" THEN s.known \cap (s.playing \cup s.latched) = {}
     ELSE Participants(p, s) \cap s.playing = {}

\* The end of a cohort.
Over(p, s) ==
  /\ s.phase # "off"
  /\ s.scene = None
  /\ ~s.pending
  /\ IF s.phase = "final" THEN s.known \cap (s.playing \cup s.latched) = {}
     ELSE Participants(p, s) = {}

\* A finalized cohort is kept for a second.
Ended(p, s) ==
  IF ~Over(p, s) THEN {s} ELSE IF s.phase = "final" THEN {s, Reset(s)} ELSE {Reset(s)}

\* (The values are bound by \E for TLC, which would evaluate a LET again and
\* again where it decides what is enabled.)
Frame(p) ==
  /\ In(p)
  /\ \E s1 \in PendingDone(p, [machine[p] EXCEPT !.new = FALSE]) :
     \E s2 \in {Registered(p, s1)} :
     \E s3 \in {Reconciled(p, s2)} :
     \E s4 \in {Replayed(p, s3)} :
     \E s5 \in Ended(p, s4) :
       /\ machine' = [machine EXCEPT ![p] = Completed(p, s5)]
       /\ net' = Skipped(Sent(Announced(net, p, s1), p, Replays(p, s3), Event("start", s3.name)),
                         p, s5)
  /\ UNCHANGED conn

----------------------------------------------------------------------------
(* What comes from the others                                              *)

\* mp-event-handler-scene-start: a start that is not known yet is armed.
StartHeard(s, q, scene) ==
  IF ~MayEnter(s, q, scene) THEN s
  ELSE [Entered(s, q, scene) EXCEPT !.pending = @ \/ s.scene # scene]

\* Seeded fault: the skip only takes back a start that waits.
SkipHeardPending(s, q, scene) ==
  IF q # Host \/ ~Concerns(s, scene) THEN s ELSE [Final(s) EXCEPT !.pending = FALSE]

\* mp-event-handler-scene-skipped
SkipHeard(s, q, scene) ==
  IF q # Host \/ ~Concerns(s, scene) THEN s
  ELSE [Final(s) EXCEPT !.pending = FALSE, !.aborted = @ \/ s.scene = scene]

\* Seeded fault: a vote is not taken before the player's state says it watches.
VoteHeardByState(p, s, q, scene) ==
  IF MayVote(p, s, q, scene) /\ q \in s.playing THEN Voted(p, s, q) ELSE s

\* mp-event-handler-scene-request-skip
VoteHeard(p, s, q, scene) == IF MayVote(p, s, q, scene) THEN Voted(p, s, q) ELSE s

Handle(p, q) ==
  /\ In(p)
  /\ net[<<q, p>>] # <<>>
  /\ LET e == Head(net[<<q, p>>])
         s == machine[p]
         s2 == CASE e.type = "start" -> StartHeard(s, q, e.scene)
                 [] e.type = "skip" -> SkipHeard(s, q, e.scene)
                 [] e.type = "vote" -> VoteHeard(p, s, q, e.scene)
         done == e.type = "vote" /\ q \in s.known
     IN  /\ machine' = [machine EXCEPT ![p] = IF done THEN Completed(p, s2) ELSE s2]
         /\ net' = [Sent(net, p, done /\ SkipReady(p, s2), Event("skip", s2.name))
                      EXCEPT ![<<q, p>>] = Tail(@)]
  /\ UNCHANGED conn

\* A state of q: its record is connected from the first one on.
StateArrives(p, q) ==
  /\ {p, q} \subseteq Present
  /\ machine' = [machine EXCEPT
       ![p].known = @ \cup {q},
       ![p].playing = IF machine[q].scene # None THEN @ \cup {q} ELSE @ \ {q}]
  /\ UNCHANGED <<conn, net>>

\* A player joins late: it is sent to from the moment it is connected, and
\* handles events once it has loaded.  The first of the states that both send
\* all the while have arrived by then.
Connects(c) ==
  /\ conn[c] = "away"
  /\ conn' = [conn EXCEPT ![c] = "loading"]
  /\ UNCHANGED <<machine, net>>

Loaded(c) ==
  /\ conn[c] = "loading"
  /\ Host \in machine[c].known
  /\ c \in machine[Host].known
  /\ conn' = [conn EXCEPT ![c] = "in"]
  /\ UNCHANGED <<machine, net>>

\* What the machine of a player who left does is not modelled.
Leaves(c) ==
  /\ c # Host
  /\ c \in Present
  /\ conn' = [conn EXCEPT ![c] = "left"]
  /\ net' = [pq \in Players \X Players |-> IF pq[2] = c THEN <<>> ELSE net[pq]]
  /\ machine' = [machine EXCEPT ![c] = Fresh]

\* The slot of a player who left is cleared, and its events are not handled.
Forgets(p, q) ==
  /\ q \in machine[p].known
  /\ conn[q] = "left"
  /\ machine' = [machine EXCEPT ![p].known = @ \ {q}, ![p].playing = @ \ {q},
                                ![p].latched = @ \ {q}]
  /\ net' = [net EXCEPT ![<<q, p>>] = <<>>]
  /\ UNCHANGED conn

Next ==
  \E p \in Players :
    \/ StartScene(p) \/ PressSkip(p) \/ SceneEnds(p) \/ Frame(p)
    \/ Connects(p) \/ Loaded(p) \/ Leaves(p)
    \/ \E q \in Remotes(p) : Handle(p, q) \/ StateArrives(p, q) \/ Forgets(p, q)

\* What a machine can do it does, and what was sent arrives.  A scene that is
\* not skipped may go on for ever; one that was aborted is torn down.
Fairness ==
  \A p \in Players :
    /\ WF_vars(Frame(p))
    /\ WF_vars(machine[p].aborted /\ SceneEnds(p))
    /\ \A q \in Remotes(p) :
         WF_vars(Handle(p, q)) /\ WF_vars(StateArrives(p, q) \/ Forgets(p, q))

Spec == Init /\ [][Next]_vars /\ Fairness

----------------------------------------------------------------------------

Watches(p, scene) == machine[p].scene = scene /\ ~machine[p].aborted

\* The players the host counts on: their starts have been handled.
Counted(scene) ==
  {q \in Clients \cap machine[Host].known :
     /\ Watches(q, scene)
     /\ Concerns(machine[q], scene)
     /\ Event("start", scene) \notin ToSet(net[<<q, Host>>])}

\* Nobody is torn out of a scene: when the host finalizes, every player who
\* watches and whose start the host has handled has pressed skip himself.
SkipIsUnanimous ==
  [][\A scene \in Scenes :
       machine[Host].phase # "final" /\ machine'[Host].phase = "final"
         /\ machine[Host].name = scene
       => \A q \in Counted(scene) : q \in machine[q].votes]_vars

\* When everyone who is there has pressed skip, the scene does not just go on.
VotesEndTheScene ==
  \A scene \in Scenes :
    (\A p \in Present : In(p) /\ Watches(p, scene) /\ p \in machine[p].votes)
      ~> (\E p \in Present : ~Watches(p, scene))

\* What the host has skipped is skipped by everyone who is part of it.
SkipIsShared ==
  \A c \in Clients, scene \in Scenes :
    (machine[Host].phase = "final" /\ machine[Host].name = scene /\ c \in machine[Host].entered
       /\ Watches(c, scene) /\ Concerns(machine[c], scene))
      ~> ~Watches(c, scene)

\* A player who comes while the host watches learns of the scene.
LateJoinerIsTold ==
  \A c \in Clients, scene \in Scenes :
    (In(c) /\ Watches(Host, scene)) ~>
      (~In(c) \/ ~Watches(Host, scene) \/ machine[c].phase # "off")

SomebodyWatches == \E p \in Players : machine[p].scene # None \/ machine[p].pending

\* A finalized cohort, in which nobody can enter or vote, is not kept for ever.
SkipIsForgotten ==
  \A p \in Players :
    (machine[p].phase = "final") ~> (machine[p].phase = "off" \/ SomebodyWatches)

\* mp-multiplayer-scene-active?
SceneActive(p) ==
  \/ machine[p].scene # None
  \/ machine[p].known \cap (machine[p].playing \cup machine[p].latched) # {}

\* "True while a local or remote cutscene owns multiplayer gameplay state"
\* (mp-scene-state.gc): once nobody watches a scene, no machine believes it.
ScenesEnd == \A p \in Players : SceneActive(p) ~> (~SceneActive(p) \/ SomebodyWatches)
=============================================================================
