----------------------- MODULE SceneCoordinatorProofs -----------------------
(***************************************************************************)
(* The masks of every machine agree, for every number of players and of    *)
(* scenes: MasksAgree is a theorem.  It is not inductive.  A start that    *)
(* waits must also be known not to stand in the way of a skip, for which   *)
(* the invariant says what the machine's own entry and own vote mean while *)
(* its scene player has not had a frame.                                   *)
(*                                                                         *)
(* With one scene, a skip is unanimous for every number of players:        *)
(* SkipIsUnanimous is a theorem under OneScene, and false without it.      *)
(*                                                                         *)
(* The handlers are functions of one machine's state, and so the lemmas    *)
(* are about one machine p and one state s.                                *)
(***************************************************************************)
EXTENDS SceneCoordinator, FiniteSetTheorems, SequenceTheorems, TLAPS

\* A machine's masks, name and phase belong to one cohort, and the scene it is
\* in is the last it showed.
Agree(s) ==
  /\ s \in Machine
  /\ s.votes \subseteq s.entered
  /\ s.playing \cup s.latched \subseteq s.known
  /\ s.pending => s.phase = "active"
  /\ s.phase = "off" => s.name = None /\ s.entered \cup s.caught \cup s.latched = {}
  /\ s.phase # "off" => s.name \in Scenes
  /\ s.scene # None => s.last = s.scene

\* A start does not wait for the scene that is on.
Done(s) == s.pending => s.scene # s.name

\* It may only until the scene player's first frame, and then the machine has
\* entered and has not voted.
Waits(p, s) ==
  s.pending /\ s.scene = s.name => s.new /\ (s.aborted \/ p \in s.entered) /\ p \notin s.votes

\* A machine's own vote is for the last scene it was in, or is about to go.
Own(p, s) == p \in s.votes => s.last = s.name \/ (s.new /\ s.scene # None)

Sane(p, s) == Agree(s) /\ Waits(p, s) /\ Own(p, s)

IInv == TypeOK /\ \A p \in Players : Sane(p, machine[p])

----------------------------------------------------------------------------
(* One machine                                                             *)

\* A machine that has just come knows nothing, whoever it knows.
LEMMA FreshSane ==
  ASSUME NEW p \in Players, NEW others \in SUBSET Players
  PROVE  Sane(p, Fresh) /\ Sane(p, [Fresh EXCEPT !.known = others])
  BY ScenesAssumption DEF Fresh, Machine, Sane, Agree, Waits, Own

\* A reset forgets the cohort and nothing else.
LEMMA ResetAgrees ==
  ASSUME NEW s, Agree(s), ~s.pending
  PROVE  Agree(Reset(s)) /\ ~Reset(s).pending /\ Reset(s).votes = {}
  BY DEF Reset, Agree, Machine

\* ensure-scene! only ever founds a cohort where there is none.
LEMMA EnsuredAgrees ==
  ASSUME NEW s, Agree(s), NEW scene \in Scenes
  PROVE  /\ Agree(Ensured(s, scene))
         /\ Ensured(s, scene).phase # "off"
         /\ Ensured(s, scene).votes = s.votes
         /\ s.phase # "off" => Ensured(s, scene) = s
         /\ s.phase = "off" => Ensured(s, scene).name = scene /\ s.votes = {} /\ ~s.pending
         /\ Ensured(s, scene).pending = s.pending
         /\ Ensured(s, scene).scene = s.scene
         /\ Ensured(s, scene).last = s.last
         /\ Ensured(s, scene).new = s.new
         /\ Ensured(s, scene).aborted = s.aborted
         /\ Ensured(s, scene).known = s.known
<1>1. CASE s.phase = "off"
  <2> DEFINE e == [Reset(s) EXCEPT !.phase = "active", !.name = scene]
  <2>1. s \in Machine /\ s.votes = {} /\ ~s.pending
    BY <1>1 DEF Agree
  <2>2. Ensured(s, scene) = e
    BY <1>1 DEF Ensured
  <2>3. /\ e \in Machine /\ e.phase = "active" /\ e.name = scene
        /\ e.entered = {} /\ e.votes = {} /\ e.latched = {} /\ e.playing = s.playing
        /\ e.pending = s.pending /\ e.scene = s.scene /\ e.last = s.last
        /\ e.new = s.new /\ e.aborted = s.aborted /\ e.known = s.known
    BY <2>1 DEF Reset, Machine
  <2> HIDE DEF e
  <2>4. Agree(e)
    BY <2>1, <2>3 DEF Agree
  <2> QED
    BY <1>1, <2>1, <2>2, <2>3, <2>4
<1>2. CASE s.phase # "off"
  BY <1>2 DEF Ensured, Agree
<1> QED
  BY <1>1, <1>2

\* Registration adds the machine's own entry to a cohort of its scene.
LEMMA RegisteredAgrees ==
  ASSUME NEW p \in Players, NEW s, Agree(s)
  PROVE  /\ Agree(Registered(p, s))
         /\ Registered(p, s).votes = s.votes
         /\ s.phase # "off" => Registered(p, s).name = s.name
         /\ s.phase = "off" => s.votes = {} /\ ~s.pending
         /\ Registered(p, s).pending = s.pending
         /\ Registered(p, s).scene = s.scene
         /\ Registered(p, s).last = s.last
         /\ Registered(p, s).new = s.new
         /\ Registered(p, s).aborted = s.aborted
<1>1. CASE ~MustRegister(p, s)
  BY <1>1 DEF Registered, Agree
<1>2. CASE MustRegister(p, s)
  <2> DEFINE e == Ensured(s, s.scene)
  <2>1. s.scene \in Scenes
    BY <1>2 DEF MustRegister, Agree, Machine
  <2>2. /\ Agree(e) /\ e.phase # "off" /\ e.votes = s.votes
        /\ s.phase # "off" => e = s
        /\ s.phase = "off" => s.votes = {} /\ ~s.pending
        /\ e.pending = s.pending /\ e.scene = s.scene /\ e.last = s.last
        /\ e.new = s.new /\ e.aborted = s.aborted
    BY <2>1, EnsuredAgrees
  <2>3. PICK caught \in SUBSET Players :
          Registered(p, s) = [e EXCEPT !.entered = @ \cup {p}, !.caught = caught]
    <3>1. Registered(p, s) = [e EXCEPT !.entered = @ \cup {p},
                                       !.caught = IF p = Host THEN s.known ELSE @]
      BY <1>2 DEF Registered
    <3>2. s.known \in SUBSET Players /\ e.caught \in SUBSET Players
      BY <2>2 DEF Agree, Machine
    <3> HIDE DEF e
    <3> QED
      BY <3>1, <3>2, Zenon
  <2> DEFINE r == [e EXCEPT !.entered = @ \cup {p}, !.caught = caught]
  <2> HIDE DEF e
  <2>4. e \in Machine
    BY <2>2 DEF Agree
  <2>5. /\ r \in Machine /\ r.entered = e.entered \cup {p} /\ r.votes = e.votes
        /\ r.phase = e.phase /\ r.name = e.name /\ r.pending = e.pending
        /\ r.scene = e.scene /\ r.last = e.last /\ r.new = e.new /\ r.aborted = e.aborted
        /\ r.playing = e.playing /\ r.latched = e.latched /\ r.known = e.known
    BY <2>4 DEF Machine
  <2> HIDE DEF r
  <2>6. Agree(r)
    BY <2>2, <2>5 DEF Agree
  <2>7. Registered(p, s) = r
    BY <2>3 DEF r
  <2> QED
    BY <2>2, <2>5, <2>6, <2>7
<1> QED
  BY <1>1, <1>2

\* Where its scene is the cohort's, a machine that is not aborted has entered.
LEMMA RegisteredEnters ==
  ASSUME NEW p \in Players, NEW s, Agree(s), In(p),
         s.phase = "active", s.scene = s.name, ~s.aborted
  PROVE  p \in Registered(p, s).entered
<1>1. Ensured(s, s.scene) = s
  BY DEF Ensured
<1>2. s.scene # None
  BY ScenesAssumption DEF Agree
<1>3. p \in s.entered \/ MustRegister(p, s)
  BY <1>1, <1>2 DEF MustRegister, Concerns
<1>4. CASE MustRegister(p, s)
  BY <1>1, <1>4 DEF Registered, Agree, Machine
<1>5. CASE ~MustRegister(p, s)
  BY <1>3, <1>5 DEF Registered
<1> QED
  BY <1>4, <1>5

\* Spawning a scene player changes the scene, not the cohort.
LEMMA SpawnedAgrees ==
  ASSUME NEW s, Agree(s), NEW scene \in Scenes
  PROVE  /\ Agree(Spawned(s, scene))
         /\ Spawned(s, scene).scene = scene /\ Spawned(s, scene).last = scene
         /\ Spawned(s, scene).new
         /\ scene # s.last => ~Spawned(s, scene).aborted
         /\ Spawned(s, scene).pending = s.pending
         /\ Spawned(s, scene).phase = s.phase
         /\ Spawned(s, scene).name = s.name
         /\ Spawned(s, scene).votes = s.votes
         /\ Spawned(s, scene).entered = s.entered
  BY DEF Spawned, Agree, Machine

\* A scene that has its machine's entry but not its vote is not skipped, and so
\* a start that waits outlives no cohort.
LEMMA NotWhileWaiting ==
  ASSUME NEW p \in Players, NEW s, Waits(p, s), SkipReady(p, s)
  PROVE  ~s.pending
  BY DEF Waits, SkipReady, Participants

\* A unanimous vote leaves a sane machine sane, if no start waits.
LEMMA CompletedSane ==
  ASSUME NEW p \in Players, NEW s, Agree(s), Own(p, s),
         Waits(p, s) \/ Done(s)
  PROVE  /\ Agree(Completed(p, s)) /\ Own(p, Completed(p, s))
         /\ Waits(p, s) => Waits(p, Completed(p, s))
         /\ Done(s) => Done(Completed(p, s))
<1>1. CASE ~SkipReady(p, s)
  BY <1>1 DEF Completed
<1>2. CASE SkipReady(p, s)
  <2>1. ~s.pending
    BY <1>2, NotWhileWaiting DEF SkipReady, Done
  <2> DEFINE t == Completed(p, s)
  <2>2. s.phase = "active" /\ t = [Final(s) EXCEPT !.aborted = TRUE]
    BY <1>2 DEF Completed, SkipReady
  <2>3. /\ t \in Machine /\ t.votes = {} /\ t.latched = {} /\ t.phase = "final" /\ ~t.pending
        /\ t.playing = s.playing /\ t.known = s.known /\ t.name = s.name
        /\ t.scene = s.scene /\ t.last = s.last
    BY <2>1, <2>2 DEF Final, Agree, Machine
  <2> HIDE DEF t
  <2>4. Agree(t)
    BY <2>2, <2>3 DEF Agree
  <2> QED
    BY <2>3, <2>4 DEF Own, Waits, Done, t
<1> QED
  BY <1>1, <1>2

\* A vote adds to the votes and entries: another's whenever it may vote, the
\* machine's own once its scene player has had a frame.
LEMMA VotedSane ==
  ASSUME NEW p \in Players, NEW s, Sane(p, s), NEW q \in Players, NEW scene,
         MayVote(p, s, q, scene), q = p => ~s.new /\ scene = s.scene /\ s.scene # None
  PROVE  Sane(p, Voted(p, s, q))
<1> DEFINE v == Voted(p, s, q)
<1>1. s \in Machine /\ s.phase = "active" /\ s.name = scene
  BY DEF Sane, Agree, MayVote, Concerns
<1>2. /\ v \in Machine /\ v.entered = s.entered \cup {q} /\ v.votes = s.votes \cup {q}
      /\ v.latched = IF q = p THEN s.latched ELSE s.latched \cup {q}
      /\ v.phase = s.phase /\ v.name = s.name /\ v.pending = s.pending
      /\ v.scene = s.scene /\ v.last = s.last /\ v.new = s.new /\ v.aborted = s.aborted
      /\ v.playing = s.playing /\ v.known = s.known
  BY <1>1 DEF Voted, Machine
<1> HIDE DEF v
<1>3. q # p => q \in s.known
  BY DEF MayVote
<1>4. Agree(v)
  BY <1>1, <1>2, <1>3 DEF Sane, Agree
<1>5. CASE q # p
  <2>1. Waits(p, v) /\ Own(p, v)
    BY <1>2, <1>5 DEF Sane, Waits, Own
  <2> QED
    BY <1>4, <2>1 DEF Sane, v
<1>6. CASE q = p
  <2>1. ~s.pending
    BY <1>1, <1>6 DEF Sane, Waits
  <2>2. s.last = s.name
    BY <1>1, <1>6 DEF Sane, Agree
  <2>3. Waits(p, v) /\ Own(p, v)
    BY <1>2, <2>1, <2>2 DEF Waits, Own
  <2> QED
    BY <1>4, <2>3 DEF Sane, v
<1> QED
  BY <1>5, <1>6

\* The start of a scene: the machine enters the cohort that waits for it, in
\* which it has no vote yet.
LEMMA StartedSane ==
  ASSUME NEW p \in Players, NEW s, Sane(p, s), In(p), s.scene = None,
         NEW scene \in Scenes, scene # s.last
  PROVE  Sane(p, Registered(p, Spawned(s, scene)))
<1> DEFINE t == Spawned(s, scene)
           r == Registered(p, t)
<1>0. Agree(s)
  BY DEF Sane
<1>1. /\ Agree(t) /\ t.scene = scene /\ t.last = scene /\ t.new /\ ~t.aborted
      /\ t.pending = s.pending /\ t.phase = s.phase /\ t.name = s.name
      /\ t.votes = s.votes /\ t.entered = s.entered
  BY <1>0, SpawnedAgrees
<1> HIDE DEF t
<1>2. /\ Agree(r) /\ r.votes = t.votes
      /\ t.phase # "off" => r.name = t.name
      /\ t.phase = "off" => t.votes = {} /\ ~t.pending
      /\ r.pending = t.pending /\ r.scene = t.scene /\ r.last = t.last
      /\ r.new = t.new /\ r.aborted = t.aborted
  BY <1>1, RegisteredAgrees
<1>3. Own(p, r)
  BY <1>1, <1>2, ScenesAssumption DEF Own
<1>4. Waits(p, r)
  <2> SUFFICES ASSUME r.pending, r.scene = r.name
               PROVE  p \in r.entered /\ p \notin r.votes
    BY <1>1, <1>2 DEF Waits
  <2>1. t.pending /\ t.phase = "active"
    BY <1>1, <1>2 DEF Agree
  <2>0. t.scene = t.name
    BY <1>2, <2>1
  <2>2. p \in r.entered
    BY <1>1, <2>0, <2>1, RegisteredEnters
  <2>3. p \notin s.votes
    BY <1>1, <2>0, <2>1 DEF Sane, Own
  <2> QED
    BY <1>1, <1>2, <2>2, <2>3
<1> QED
  BY <1>2, <1>3, <1>4 DEF Sane, r, t

\* The end of a scene: its scene player has had a frame.
LEMMA EndedSane ==
  ASSUME NEW p \in Players, NEW s, Sane(p, s), ~s.new
  PROVE  Sane(p, [s EXCEPT !.scene = None, !.aborted = FALSE])
<1> DEFINE t == [s EXCEPT !.scene = None, !.aborted = FALSE]
<1>1. s \in Machine
  BY DEF Sane, Agree
<1>2. /\ t \in Machine /\ t.scene = None /\ t.entered = s.entered /\ t.votes = s.votes
      /\ t.phase = s.phase /\ t.name = s.name /\ t.pending = s.pending
      /\ t.last = s.last /\ t.new = s.new /\ t.playing = s.playing
      /\ t.latched = s.latched /\ t.known = s.known /\ t.caught = s.caught
  BY <1>1 DEF Machine
<1> HIDE DEF t
<1>3. Agree(t)
  BY <1>2 DEF Sane, Agree
<1>4. t.pending => t.scene # t.name
  BY <1>2, <1>3, ScenesAssumption DEF Agree
<1>5. Own(p, t)
  BY <1>2 DEF Sane, Own
<1> QED
  BY <1>3, <1>4, <1>5 DEF Sane, Waits, t

----------------------------------------------------------------------------
(* A frame                                                                 *)

\* After mp-process-pending-scene-sync! no start waits for the scene that is on.
LEMMA PendingDoneSettles ==
  ASSUME NEW p \in Players, NEW s, Agree(s), NEW t \in PendingDone(p, s)
  PROVE  Agree(t) /\ Done(t)
<1>1. s.pending => s.name \in Scenes
  BY DEF Agree
<1>2. CASE t = s /\ (s.pending => s.scene # s.name)
  BY <1>2 DEF Done
<1>3. CASE t = [s EXCEPT !.pending = FALSE]
  BY <1>3 DEF Done, Agree, Machine
<1>4. CASE s.pending /\ t = [Spawned(s, s.name) EXCEPT !.pending = FALSE]
  <2>1. Agree(Spawned(s, s.name))
    BY <1>1, <1>4, SpawnedAgrees
  <2> QED
    BY <1>4, <2>1 DEF Done, Agree, Machine
<1>5. \/ t = s /\ ~s.pending
      \/ t = [s EXCEPT !.pending = FALSE]
      \/ t = s /\ s.pending /\ s.scene # s.name
      \/ s.pending /\ t = [Spawned(s, s.name) EXCEPT !.pending = FALSE]
  BY Zenon DEF PendingDone
<1> QED
  BY <1>2, <1>3, <1>4, <1>5

\* Reconciliation leaves the machine's own vote only in the scene it is in.
LEMMA ReconciledSettles ==
  ASSUME NEW p \in Players, NEW s, Agree(s), Done(s)
  PROVE  /\ Agree(Reconciled(p, s)) /\ Done(Reconciled(p, s))
         /\ p \in Reconciled(p, s).votes => Reconciled(p, s).scene = Reconciled(p, s).name
<1>1. CASE s.phase = "off"
  BY <1>1 DEF Reconciled, Agree
<1>2. CASE s.phase # "off"
  <2> DEFINE there == {q \in Players :
                         IF q = p THEN In(p) /\ s.scene = s.name
                         ELSE q \in s.known /\ q \in s.playing \cup s.latched}
             r == [s EXCEPT !.entered = @ \cap there, !.votes = @ \cap there,
                            !.caught = @ \cap there]
  <2>1. p \in there => s.scene = s.name
    OBVIOUS
  <2>2. there \in SUBSET Players
    OBVIOUS
  <2>3. Reconciled(p, s) = r
    BY <1>2 DEF Reconciled
  <2> HIDE DEF there
  <2>4. Agree(r) /\ Done(r) /\ r.votes = s.votes \cap there /\ r.scene = s.scene /\ r.name = s.name
    BY <1>2, <2>2 DEF Agree, Done, Machine
  <2> HIDE DEF r
  <2> QED
    BY <2>1, <2>3, <2>4
<1> QED
  BY <1>1, <1>2

\* The rest of the frame keeps both facts; the cohort that ends has no start
\* that waits for it.
LEMMA ReplayedSettles ==
  ASSUME NEW p \in Players, NEW s, Agree(s), Done(s), p \in s.votes => s.scene = s.name
  PROVE  /\ Agree(Replayed(p, s)) /\ Done(Replayed(p, s))
         /\ p \in Replayed(p, s).votes => Replayed(p, s).scene = Replayed(p, s).name
<1>1. CASE ~Replays(p, s)
  BY <1>1 DEF Replayed
<1>2. CASE Replays(p, s)
  BY <1>2 DEF Replayed, Replays, Agree, Done, Machine
<1> QED
  BY <1>1, <1>2

\* See above.
LEMMA EndedSettles ==
  ASSUME NEW p \in Players, NEW s, Agree(s), Done(s), p \in s.votes => s.scene = s.name,
         NEW t \in Ended(p, s)
  PROVE  Agree(t) /\ Done(t) /\ (p \in t.votes => t.scene = t.name)
<1>1. CASE t = s
  BY <1>1
<1>2. CASE Over(p, s) /\ t = Reset(s)
  <2>1. ~s.pending
    BY <1>2 DEF Over
  <2> QED
    BY <1>2, <2>1, ResetAgrees DEF Done
<1> QED
  BY <1>1, <1>2 DEF Ended

\* A frame leaves its machine sane.
LEMMA FrameSane ==
  ASSUME NEW p \in Players, NEW s, Sane(p, s),
         NEW s1 \in PendingDone(p, [s EXCEPT !.new = FALSE]),
         NEW s5 \in Ended(p, Replayed(p, Reconciled(p, Registered(p, s1))))
  PROVE  Sane(p, Completed(p, s5))
<1> DEFINE s0 == [s EXCEPT !.new = FALSE]
           s2 == Registered(p, s1)
           s3 == Reconciled(p, s2)
           s4 == Replayed(p, s3)
<1>1. Agree(s0)
  BY DEF Sane, Agree, Machine
<1>2. Agree(s1) /\ Done(s1)
  BY <1>1, PendingDoneSettles
<1>3. Agree(s2) /\ Done(s2)
  BY <1>2, RegisteredAgrees DEF Done, Agree
<1> HIDE DEF s2
<1>4. Agree(s3) /\ Done(s3) /\ (p \in s3.votes => s3.scene = s3.name)
  BY <1>3, ReconciledSettles
<1> HIDE DEF s3
<1>5. Agree(s4) /\ Done(s4) /\ (p \in s4.votes => s4.scene = s4.name)
  BY <1>4, ReplayedSettles
<1>6. s5 \in Ended(p, s4)
  BY DEF s2, s3
<1> HIDE DEF s4
<1>7. Agree(s5) /\ Done(s5) /\ (p \in s5.votes => s5.scene = s5.name)
  BY <1>5, <1>6, EndedSettles
<1>8. Own(p, s5)
  <2> SUFFICES ASSUME p \in s5.votes PROVE s5.last = s5.name
    BY DEF Own
  <2>1. s5.scene = s5.name
    BY <1>7
  <2>2. s5.phase # "off"
    BY <1>7 DEF Agree
  <2>3. s5.name # None
    BY <1>7, <2>2, ScenesAssumption DEF Agree
  <2> QED
    BY <1>7, <2>1, <2>3 DEF Agree
<1>9. Agree(Completed(p, s5)) /\ Own(p, Completed(p, s5)) /\ Done(Completed(p, s5))
  BY <1>7, <1>8, CompletedSane
<1> QED
  BY <1>9 DEF Sane, Done, Waits

----------------------------------------------------------------------------
(* What comes from the others                                              *)

\* A start that is heard waits only for a scene that is not on, and whoever it
\* is from is known.
LEMMA StartHeardSane ==
  ASSUME NEW p \in Players, NEW s, Sane(p, s), NEW q \in Remotes(p), NEW scene \in Scenes
  PROVE  Sane(p, StartHeard(s, q, scene))
<1>1. CASE ~MayEnter(s, q, scene)
  BY <1>1 DEF StartHeard
<1>2. CASE MayEnter(s, q, scene)
  <2> DEFINE e == Ensured(s, scene)
             h == [Entered(s, q, scene) EXCEPT !.pending = @ \/ s.scene # scene]
  <2>0. Agree(s)
    BY DEF Sane
  <2>1. /\ Agree(e) /\ e.votes = s.votes
        /\ s.phase # "off" => e = s
        /\ s.phase = "off" => s.votes = {} /\ ~s.pending
        /\ e.pending = s.pending /\ e.scene = s.scene /\ e.last = s.last
        /\ e.new = s.new /\ e.aborted = s.aborted /\ e.known = s.known
    BY <2>0, EnsuredAgrees
  <2>2. q \in s.known /\ e.phase = "active" /\ e.name = scene /\ q \in Players
    BY <1>2 DEF MayEnter, Concerns, Remotes
  <2> DEFINE k == [e EXCEPT !.entered = @ \cup {q}, !.latched = @ \cup {q}]
  <2>3. PICK waits \in BOOLEAN : /\ waits => e.pending \/ s.scene # scene
                                 /\ h = [k EXCEPT !.pending = waits]
    <3>1. k.pending = e.pending
      OBVIOUS
    <3>2. h = [k EXCEPT !.pending = @ \/ s.scene # scene]
      BY DEF Entered
    <3>3. h = [k EXCEPT !.pending = k.pending \/ s.scene # scene]
      BY <3>2
    <3>4. (k.pending \/ s.scene # scene) \in BOOLEAN
      OBVIOUS
    <3> HIDE DEF h, k, e
    <3> QED
      BY <3>1, <3>3, <3>4, Zenon
  <2> HIDE DEF e
  <2>4. e \in Machine
    BY <2>1 DEF Agree
  <2>5. /\ h \in Machine /\ h.entered = e.entered \cup {q} /\ h.votes = e.votes
        /\ h.latched = e.latched \cup {q} /\ h.playing = e.playing /\ h.known = e.known
        /\ h.phase = e.phase /\ h.name = e.name /\ h.scene = e.scene
        /\ h.last = e.last /\ h.new = e.new /\ h.aborted = e.aborted
    <3>1. k \in Machine
      BY <2>4, <2>2 DEF Machine
    <3>2. /\ k.entered = e.entered \cup {q} /\ k.votes = e.votes
          /\ k.latched = e.latched \cup {q} /\ k.playing = e.playing /\ k.known = e.known
          /\ k.phase = e.phase /\ k.name = e.name /\ k.scene = e.scene
          /\ k.last = e.last /\ k.new = e.new /\ k.aborted = e.aborted
      BY <2>4 DEF Machine
    <3> HIDE DEF h, k
    <3> QED
      BY <2>3, <3>1, <3>2 DEF Machine
  <2>6. h.pending => e.pending \/ s.scene # scene
    <3>1. h.pending = waits
      <4>1. k \in Machine
        BY <2>4, <2>2 DEF Machine
      <4> HIDE DEF h, k
      <4> QED
        BY <2>3, <4>1 DEF Machine
    <3> QED
      BY <2>3, <3>1
  <2> HIDE DEF h, k
  <2>7. Agree(h)
    BY <2>1, <2>2, <2>5 DEF Agree
  <2>8. Own(p, h)
    BY <2>1, <2>5 DEF Sane, Own
  <2>9. Waits(p, h)
    <3> SUFFICES ASSUME h.pending, h.scene = h.name PROVE s = e /\ s.pending
      BY <2>1, <2>5 DEF Sane, Waits
    <3>1. e.pending
      BY <2>1, <2>2, <2>5, <2>6
    <3> QED
      BY <2>1, <3>1
  <2> QED
    BY <1>2, <2>7, <2>8, <2>9 DEF Sane, StartHeard, h
<1> QED
  BY <1>1, <1>2

\* The host's skip ends the wait of a start.
LEMMA SkipHeardSane ==
  ASSUME NEW p \in Players, NEW s, Sane(p, s), NEW q, NEW scene \in Scenes
  PROVE  Sane(p, SkipHeard(s, q, scene))
<1>1. CASE q # Host \/ ~Concerns(s, scene)
  BY <1>1 DEF SkipHeard
<1>2. CASE ~(q # Host \/ ~Concerns(s, scene))
  <2> DEFINE h == [Final(s) EXCEPT !.pending = FALSE, !.aborted = @ \/ s.scene = scene]
  <2>1. s \in Machine /\ s.phase = "active"
    BY <1>2 DEF Sane, Agree, Concerns
  <2>2. /\ h \in Machine /\ h.entered = s.entered /\ h.votes = {} /\ h.latched = {}
        /\ h.playing = s.playing /\ h.known = s.known /\ h.phase = "final"
        /\ h.name = s.name /\ ~h.pending /\ h.scene = s.scene /\ h.last = s.last
    BY <2>1 DEF Final, Machine
  <2> HIDE DEF h
  <2>3. Agree(h)
    BY <2>1, <2>2 DEF Sane, Agree
  <2>4. Waits(p, h) /\ Own(p, h)
    BY <2>2 DEF Waits, Own
  <2> QED
    BY <1>2, <2>3, <2>4 DEF SkipHeard, Sane, h
<1> QED
  BY <1>1, <1>2

\* So does a vote that is heard, whether it counts or not.
LEMMA VoteHeardSane ==
  ASSUME NEW p \in Players, NEW s, Sane(p, s), NEW q \in Remotes(p), NEW scene
  PROVE  Sane(p, VoteHeard(p, s, q, scene))
<1>1. q \in Players /\ q # p
  BY DEF Remotes
<1>2. CASE MayVote(p, s, q, scene)
  BY <1>1, <1>2, VotedSane DEF VoteHeard
<1>3. CASE ~MayVote(p, s, q, scene)
  BY <1>3 DEF VoteHeard
<1> QED
  BY <1>2, <1>3

\* A unanimous vote leaves a sane machine sane.
LEMMA SaneCompleted ==
  ASSUME NEW p \in Players, NEW s, Sane(p, s)
  PROVE  Sane(p, Completed(p, s))
<1>1. Agree(s) /\ Own(p, s) /\ Waits(p, s)
  BY DEF Sane
<1> QED
  BY <1>1, CompletedSane DEF Sane

----------------------------------------------------------------------------
(* The queues                                                              *)

Queues == [Players \X Players -> Seq(Events)]

\* What is broadcast are events.
LEMMA SentTyped ==
  ASSUME NEW n \in Queues, NEW p, NEW does, NEW e, does => e \in Events
  PROVE  Sent(n, p, does, e) \in Queues
<1>1. ASSUME NEW pq \in Players \X Players, does
      PROVE  Append(n[pq], e) \in Seq(Events)
  BY <1>1 DEF Queues
<1>2. ASSUME NEW pq \in Players \X Players
      PROVE  n[pq] \in Seq(Events)
  BY DEF Queues
<1> QED
  BY <1>1, <1>2, Zenon DEF Sent, Queues

\* A start names the scene its machine is in, or the scene of its cohort.
LEMMA AnnouncedTyped ==
  ASSUME NEW n \in Queues, NEW p, NEW s, Agree(s)
  PROVE  Announced(n, p, s) \in Queues
<1>1. MustRegister(p, s) => Event("start", s.scene) \in Events
  BY DEF MustRegister, Agree, Machine, Event, Events
<1> QED
  BY <1>1, SentTyped DEF Announced

\* A skip names the cohort it ends.
LEMMA SkippedTyped ==
  ASSUME NEW n \in Queues, NEW p, NEW s, Agree(s)
  PROVE  /\ SkipReady(p, s) => Event("skip", s.name) \in Events
         /\ Skipped(n, p, s) \in Queues
<1>1. SkipReady(p, s) => Event("skip", s.name) \in Events
  BY DEF SkipReady, Agree, Machine, Event, Events
<1> QED
  BY <1>1, SentTyped DEF Skipped

----------------------------------------------------------------------------
(* The steps                                                               *)

\* A step of one machine to a sane state.
LEMMA OneMachine ==
  ASSUME IInv, NEW p \in Players, NEW t, Sane(p, t),
         machine' = [machine EXCEPT ![p] = t],
         net' \in Queues, conn' \in [Players -> {"away", "loading", "in", "left"}]
  PROVE  IInv'
<1>1. machine \in [Players -> Machine] /\ \A r \in Players : Sane(r, machine[r])
  BY DEF IInv, TypeOK
<1>2. t \in Machine
  BY DEF Sane, Agree
<1>3. machine' \in [Players -> Machine]
  BY <1>1, <1>2
<1>4. ASSUME NEW r \in Players PROVE Sane(r, machine'[r])
  <2>1. CASE r = p
    BY <1>1, <2>1
  <2>2. CASE r # p
    BY <1>1, <2>2
  <2> QED
    BY <2>1, <2>2
<1>5. TypeOK'
  BY <1>3 DEF TypeOK, Queues
<1>6. \A r \in Players : Sane(r, machine[r])'
  BY <1>4 DEF Sane, Agree, Waits, Own
<1> QED
  BY <1>5, <1>6 DEF IInv

\* The game starts a scene.
LEMMA StepStart ==
  ASSUME IInv, NEW p \in Players, StartScene(p)
  PROVE  IInv'
<1>1. Sane(p, machine[p]) /\ net \in Queues
  BY DEF IInv, TypeOK, Queues
<1>2. PICK scene \in Scenes \ {machine[p].last} :
        /\ machine' = [machine EXCEPT ![p] = Registered(p, Spawned(machine[p], scene))]
        /\ net' = Announced(net, p, Spawned(machine[p], scene))
  BY DEF StartScene
<1>3. Sane(p, Registered(p, Spawned(machine[p], scene)))
  BY <1>1, StartedSane DEF StartScene
<1>4. Agree(Spawned(machine[p], scene))
  BY <1>1, SpawnedAgrees DEF Sane
<1>5. net' \in Queues
  BY <1>1, <1>2, <1>4, AnnouncedTyped
<1>6. conn' \in [Players -> {"away", "loading", "in", "left"}]
  BY DEF StartScene, IInv, TypeOK
<1> QED
  BY <1>2, <1>3, <1>5, <1>6, OneMachine

\* A player presses skip.
LEMMA StepPress ==
  ASSUME IInv, NEW p \in Players, PressSkip(p)
  PROVE  IInv'
<1> DEFINE s == machine[p]
           votes == MayVote(p, s, p, s.scene)
           t == IF votes THEN Voted(p, s, p) ELSE s
<1>1. /\ s.scene # None /\ ~s.new
      /\ machine' = [machine EXCEPT ![p] = Completed(p, t)]
      /\ net' = Skipped(Sent(net, p, votes, Event("vote", s.scene)), p, t)
      /\ conn' = conn
  BY DEF PressSkip
<1>2. Sane(p, s) /\ net \in Queues /\ s.scene \in Scenes
  <2>1. Sane(p, s) /\ net \in Queues
    BY DEF IInv, TypeOK, Queues
  <2> QED
    BY <1>1, <2>1 DEF Sane, Agree, Machine
<1>3. Sane(p, t)
  <2>1. CASE votes
    BY <1>1, <1>2, <2>1, VotedSane
  <2>2. CASE ~votes
    BY <1>2, <2>2
  <2> QED
    BY <2>1, <2>2
<1>4. Event("vote", s.scene) \in Events
  BY <1>2 DEF Event, Events
<1> HIDE DEF s, votes, t
<1>5. Sent(net, p, votes, Event("vote", s.scene)) \in Queues
  BY <1>2, <1>4, SentTyped
<1>6. net' \in Queues
  <2>1. Agree(t)
    BY <1>3 DEF Sane
  <2> QED
    BY <1>1, <1>5, <2>1, SkippedTyped
<1>7. Sane(p, Completed(p, t))
  BY <1>3, SaneCompleted
<1>8. conn' \in [Players -> {"away", "loading", "in", "left"}]
  BY <1>1 DEF IInv, TypeOK
<1> QED
  BY <1>1, <1>6, <1>7, <1>8, OneMachine

\* A scene is over.
LEMMA StepEnds ==
  ASSUME IInv, NEW p \in Players, SceneEnds(p)
  PROVE  IInv'
<1> DEFINE t == [machine[p] EXCEPT !.scene = None, !.aborted = FALSE]
<1>1. Sane(p, machine[p]) /\ ~machine[p].new
  BY DEF IInv, SceneEnds
<1>2. Sane(p, t)
  BY <1>1, EndedSane, Zenon
<1>3. machine' = [machine EXCEPT ![p] = t]
  BY DEF SceneEnds, IInv, TypeOK
<1>4. net' \in Queues /\ conn' \in [Players -> {"away", "loading", "in", "left"}]
  BY DEF SceneEnds, IInv, TypeOK, Queues
<1> HIDE DEF t
<1> QED
  BY <1>2, <1>3, <1>4, OneMachine

\* A frame.
LEMMA StepFrame ==
  ASSUME IInv, NEW p \in Players, Frame(p)
  PROVE  IInv'
<1> DEFINE s0 == [machine[p] EXCEPT !.new = FALSE]
<1>1. PICK s1 \in PendingDone(p, s0) :
      \E s2 \in {Registered(p, s1)} : \E s3 \in {Reconciled(p, s2)} :
      \E s4 \in {Replayed(p, s3)} : \E s5 \in Ended(p, s4) :
        /\ machine' = [machine EXCEPT ![p] = Completed(p, s5)]
        /\ net' = Skipped(Sent(Announced(net, p, s1), p, Replays(p, s3),
                               Event("start", s3.name)), p, s5)
  BY DEF Frame
<1> DEFINE s3 == Reconciled(p, Registered(p, s1))
<1>2. PICK s5 \in Ended(p, Replayed(p, s3)) :
        /\ machine' = [machine EXCEPT ![p] = Completed(p, s5)]
        /\ net' = Skipped(Sent(Announced(net, p, s1), p, Replays(p, s3),
                               Event("start", s3.name)), p, s5)
  BY <1>1
<1>3. Sane(p, machine[p]) /\ net \in Queues
  BY DEF IInv, TypeOK, Queues
<1>4. Sane(p, Completed(p, s5))
  BY <1>3, FrameSane
<1>5. Agree(s0)
  BY <1>3 DEF Sane, Agree, Machine
<1> HIDE DEF s0
<1>6. Agree(s1) /\ Done(s1)
  BY <1>5, PendingDoneSettles
<1>7. Agree(Registered(p, s1)) /\ Done(Registered(p, s1))
  BY <1>6, RegisteredAgrees DEF Done, Agree
<1>8. Agree(s3) /\ Done(s3) /\ (p \in s3.votes => s3.scene = s3.name)
  BY <1>7, ReconciledSettles
<1> HIDE DEF s3
<1>9. Agree(Replayed(p, s3)) /\ Done(Replayed(p, s3))
      /\ (p \in Replayed(p, s3).votes => Replayed(p, s3).scene = Replayed(p, s3).name)
  BY <1>8, ReplayedSettles
<1>10. Agree(s5)
  BY <1>9, EndedSettles
<1>11. Announced(net, p, s1) \in Queues
  BY <1>3, <1>6, AnnouncedTyped
<1>12. Replays(p, s3) => Event("start", s3.name) \in Events
  BY <1>8 DEF Replays, Agree, Event, Events
<1>13. Sent(Announced(net, p, s1), p, Replays(p, s3), Event("start", s3.name)) \in Queues
  BY <1>11, <1>12, SentTyped
<1>14. net' \in Queues
  BY <1>2, <1>10, <1>13, SkippedTyped
<1>15. conn' \in [Players -> {"away", "loading", "in", "left"}]
  BY DEF Frame, IInv, TypeOK
<1> QED
  BY <1>2, <1>4, <1>14, <1>15, OneMachine

\* A machine handles the next event of another.
LEMMA StepHandle ==
  ASSUME IInv, NEW p \in Players, NEW q \in Remotes(p), Handle(p, q)
  PROVE  IInv'
<1> DEFINE e == Head(net[<<q, p>>])
           s == machine[p]
           t == CASE e.type = "start" -> StartHeard(s, q, e.scene)
                  [] e.type = "skip" -> SkipHeard(s, q, e.scene)
                  [] e.type = "vote" -> VoteHeard(p, s, q, e.scene)
           done == e.type = "vote" /\ q \in s.known
           skips == done /\ SkipReady(p, t)
           sent == Sent(net, p, skips, Event("skip", t.name))
<1>1. /\ net[<<q, p>>] # <<>>
      /\ machine' = [machine EXCEPT ![p] = IF done THEN Completed(p, t) ELSE t]
      /\ net' = [sent EXCEPT ![<<q, p>>] = Tail(@)]
      /\ conn' = conn
  BY Zenon DEF Handle
<1> HIDE DEF t, done, skips, sent
<1>2. Sane(p, s) /\ net \in Queues
  BY DEF IInv, TypeOK, Queues
<1>3. <<q, p>> \in Players \X Players
  BY DEF Remotes
<1>4. net[<<q, p>>] \in Seq(Events)
  BY <1>2, <1>3 DEF Queues
<1>5. e \in Events
  <2> DEFINE queue == net[<<q, p>>]
  <2>1. queue \in Seq(Events) /\ queue # <<>>
    BY <1>1, <1>4
  <2> HIDE DEF queue
  <2>2. Head(queue) \in Events
    BY <2>1
  <2> QED
    BY <2>2 DEF queue
<1> HIDE DEF e, s
<1>6. e.scene \in Scenes /\ (e.type = "start" \/ e.type = "skip" \/ e.type = "vote")
  BY <1>5 DEF Events
<1>7. Sane(p, t)
  <2>1. CASE e.type = "start"
    BY <1>2, <1>6, <2>1, StartHeardSane DEF t
  <2>2. CASE e.type = "skip"
    BY <1>2, <1>6, <2>2, SkipHeardSane DEF t
  <2>3. CASE e.type = "vote"
    BY <1>2, <1>6, <2>3, VoteHeardSane DEF t
  <2> QED
    BY <1>6, <2>1, <2>2, <2>3
<1>8. Sane(p, IF done THEN Completed(p, t) ELSE t)
  <2>1. Sane(p, Completed(p, t))
    BY <1>7, SaneCompleted
  <2> QED
    BY <1>7, <2>1
<1>9. sent \in Queues
  <2>1. Agree(t)
    BY <1>7 DEF Sane
  <2>2. skips => Event("skip", t.name) \in Events
    BY <1>2, <2>1, SkippedTyped DEF skips
  <2> QED
    BY <1>2, <2>2, SentTyped DEF sent
<1>10. net' \in Queues
  <2>1. net[<<q, p>>] = sent[<<q, p>>] \/ sent[<<q, p>>] = Append(net[<<q, p>>], Event("skip", t.name))
    BY <1>3 DEF Sent, sent
  <2>2. sent[<<q, p>>] \in Seq(Events) /\ sent[<<q, p>>] # <<>>
    BY <1>1, <1>3, <1>4, <1>9, <2>1 DEF Queues
  <2>3. Tail(sent[<<q, p>>]) \in Seq(Events)
    BY <2>2
  <2> QED
    BY <1>1, <1>3, <1>9, <2>3 DEF Queues
<1>11. conn' \in [Players -> {"away", "loading", "in", "left"}]
  BY <1>1 DEF IInv, TypeOK
<1> QED
  BY <1>1, <1>8, <1>10, <1>11, OneMachine

\* A machine's own scene and cohort are as sane with what it knows of others
\* brought up to date, so long as flags and latches are of connected records.
LEMMA KnownSane ==
  ASSUME NEW p \in Players, NEW s, Sane(p, s),
         NEW known \in SUBSET Players, NEW playing \in SUBSET Players,
         NEW latched \in SUBSET s.latched, playing \cup latched \subseteq known
  PROVE  Sane(p, [s EXCEPT !.known = known, !.playing = playing, !.latched = latched])
<1> DEFINE t == [s EXCEPT !.known = known, !.playing = playing, !.latched = latched]
<1>1. s \in Machine
  BY DEF Sane, Agree
<1>2. /\ t \in Machine /\ t.scene = s.scene /\ t.entered = s.entered /\ t.votes = s.votes
      /\ t.phase = s.phase /\ t.name = s.name /\ t.pending = s.pending
      /\ t.last = s.last /\ t.new = s.new /\ t.playing = playing /\ t.aborted = s.aborted
      /\ t.latched = latched /\ t.known = known /\ t.caught = s.caught
  BY <1>1 DEF Machine
<1> HIDE DEF t
<1>3. Agree(t)
  BY <1>2 DEF Sane, Agree
<1>4. Waits(p, t) /\ Own(p, t)
  BY <1>2 DEF Sane, Waits, Own
<1> QED
  BY <1>3, <1>4 DEF Sane, t

\* A state of another player arrives.
LEMMA StepState ==
  ASSUME IInv, NEW p \in Players, NEW q \in Remotes(p), StateArrives(p, q)
  PROVE  IInv'
<1> DEFINE s == machine[p]
           known == s.known \cup {q}
           playing == IF machine[q].scene # None THEN s.playing \cup {q} ELSE s.playing \ {q}
           t == [s EXCEPT !.known = known, !.playing = playing, !.latched = s.latched]
<1>1. Sane(p, s) /\ s \in Machine
  BY DEF IInv, Sane, Agree
<1>2. /\ known \in SUBSET Players /\ playing \in SUBSET Players
      /\ playing \cup s.latched \subseteq known
  <2>1. q \in Players /\ s.known \in SUBSET Players /\ s.playing \in SUBSET Players
    BY <1>1 DEF Machine, Remotes
  <2>2. s.playing \cup s.latched \subseteq s.known
    BY <1>1 DEF Sane, Agree
  <2> QED
    BY <2>1, <2>2
<1>3. machine' = [machine EXCEPT ![p] = t]
  <2>1. machine \in [Players -> Machine]
    BY DEF IInv, TypeOK
  <2>2. machine' = [machine EXCEPT ![p].known = @ \cup {q}, ![p].playing = playing]
    BY <2>1 DEF StateArrives
  <2>3. t = [s EXCEPT !.known = known, !.playing = playing]
    BY <1>1 DEF Machine
  <2> HIDE DEF playing, t
  <2> QED
    BY <2>1, <2>2, <2>3
<1> HIDE DEF known, playing, s
<1>4. Sane(p, t)
  BY <1>1, <1>2, KnownSane, Zenon
<1> HIDE DEF t
<1>5. net' \in Queues /\ conn' \in [Players -> {"away", "loading", "in", "left"}]
  BY DEF StateArrives, IInv, TypeOK, Queues
<1> QED
  BY <1>3, <1>4, <1>5, OneMachine

\* The slot of a player who left is cleared.
LEMMA StepForgets ==
  ASSUME IInv, NEW p \in Players, NEW q \in Remotes(p), Forgets(p, q)
  PROVE  IInv'
<1> DEFINE s == machine[p]
           known == s.known \ {q}
           playing == s.playing \ {q}
           latched == s.latched \ {q}
           t == [s EXCEPT !.known = known, !.playing = playing, !.latched = latched]
<1>1. Sane(p, s) /\ s \in Machine
  BY DEF IInv, Sane, Agree
<1>2. /\ known \in SUBSET Players /\ playing \in SUBSET Players
      /\ latched \in SUBSET s.latched /\ playing \cup latched \subseteq known
  <2>1. s.known \in SUBSET Players /\ s.playing \in SUBSET Players
    BY <1>1 DEF Machine
  <2>2. s.playing \cup s.latched \subseteq s.known
    BY <1>1 DEF Sane, Agree
  <2> QED
    BY <2>1, <2>2
<1>3. machine' = [machine EXCEPT ![p] = t]
  BY DEF Forgets, IInv, TypeOK
<1> HIDE DEF known, playing, latched, s
<1>4. Sane(p, t)
  BY <1>1, <1>2, KnownSane, Zenon
<1> HIDE DEF t
<1>5. conn' \in [Players -> {"away", "loading", "in", "left"}]
  BY DEF Forgets, IInv, TypeOK
<1>6. net' \in Queues
  <2>1. <<>> \in Seq(Events)
    OBVIOUS
  <2>2. net \in Queues /\ net' = [net EXCEPT ![<<q, p>>] = <<>>]
    BY DEF Forgets, IInv, TypeOK, Queues
  <2> QED
    BY <2>1, <2>2 DEF Queues
<1> QED
  BY <1>3, <1>4, <1>5, <1>6, OneMachine

\* A player comes: nothing but where it is changes.
LEMMA StepComes ==
  ASSUME IInv, NEW c \in Players, Connects(c) \/ Loaded(c)
  PROVE  IInv'
<1>1. machine' = machine /\ net' = net
  BY DEF Connects, Loaded
<1>2. conn' \in [Players -> {"away", "loading", "in", "left"}]
  BY DEF Connects, Loaded, IInv, TypeOK
<1>3. TypeOK'
  BY <1>1, <1>2 DEF IInv, TypeOK
<1>4. \A p \in Players : Sane(p, machine[p])'
  BY <1>1 DEF IInv, Sane, Agree, Waits, Own
<1> QED
  BY <1>3, <1>4 DEF IInv

\* A player leaves.
LEMMA StepLeaves ==
  ASSUME IInv, NEW c \in Players, Leaves(c)
  PROVE  IInv'
<1>1. machine' = [machine EXCEPT ![c] = Fresh]
  BY DEF Leaves
<1>2. Sane(c, Fresh)
  BY FreshSane
<1>3. net' \in Queues
  BY DEF Leaves, IInv, TypeOK, Queues
<1>4. conn' \in [Players -> {"away", "loading", "in", "left"}]
  BY DEF Leaves, IInv, TypeOK
<1> QED
  BY <1>1, <1>2, <1>3, <1>4, OneMachine

\* Whoever is there from the start knows the others who are.
LEMMA InvInit == Init => IInv
<1> SUFFICES ASSUME Init PROVE IInv
  OBVIOUS
<1>1. ASSUME NEW p \in Players PROVE Sane(p, machine[p])
  <2>1. Sane(p, Fresh) /\ Sane(p, [Fresh EXCEPT !.known = Players \ (Late \cup {p})])
    BY FreshSane
  <2>2. machine[p] = Fresh \/ machine[p] = [Fresh EXCEPT !.known = Players \ (Late \cup {p})]
    BY DEF Init
  <2> QED
    BY <2>1, <2>2
<1>2. machine \in [Players -> Machine]
  BY <1>1 DEF Init, Sane, Agree
<1>3. TypeOK
  BY <1>2 DEF Init, TypeOK
<1> QED
  BY <1>1, <1>3 DEF IInv

\* Every step keeps the invariant.
LEMMA InvStep == IInv /\ [Next]_vars => IInv'
<1> SUFFICES ASSUME IInv, [Next]_vars PROVE IInv'
  OBVIOUS
<1>1. CASE UNCHANGED vars
  BY <1>1 DEF vars, IInv, TypeOK, Sane, Agree, Waits, Own
<1>2. CASE Next
  <2> SUFFICES ASSUME NEW p \in Players,
                      \/ StartScene(p) \/ PressSkip(p) \/ SceneEnds(p) \/ Frame(p)
                      \/ Connects(p) \/ Loaded(p) \/ Leaves(p)
                      \/ \E q \in Remotes(p) :
                           Handle(p, q) \/ StateArrives(p, q) \/ Forgets(p, q)
               PROVE  IInv'
    BY <1>2 DEF Next
  <2> QED
    BY StepStart, StepPress, StepEnds, StepFrame, StepHandle, StepState, StepForgets,
       StepComes, StepLeaves, Zenon
<1> QED
  BY <1>1, <1>2

\* The inductive invariant holds of every session.
THEOREM SceneInvariant == Spec => []IInv
  BY InvInit, InvStep, PTL DEF Spec

\* On every machine votes have entries, flags and latches have connected
\* records, a start that waits has its cohort, and a cohort that is over leaves
\* nothing behind, whatever starts, votes, skips, states and departures meet.
THEOREM SceneMasksAgree == Spec => []MasksAgree
<1>1. IInv => MasksAgree
  BY DEF IInv, MasksAgree, Sane, Agree
<1> QED
  BY <1>1, SceneInvariant, PTL

----------------------------------------------------------------------------
(* Unanimity.                                                              *)
(*                                                                         *)
(* The argument: as long as the host may still finalize, whoever watches   *)
(* in its cohort and whose start is not in flight counts at the host, and  *)
(* a vote the host holds or is sent is one its player keeps.  It needs     *)
(* that a machine watches a scene once, so that nothing of an earlier      *)
(* showing is taken for a later one; with two scenes that is not so, and   *)
(* SkipIsUnanimous fails.                                                  *)

\* One scene, as if the game had no other: each machine watches it once, since
\* the scene a machine showed last ends at once when it is shown again.
OneScene == \A a, b \in Scenes : a = b

Watching(s) == s.scene # None /\ ~s.aborted
InCohort(s) == Watching(s) /\ s.phase = "active"

\* The host has not shown the scene yet, or shows it: it may still finalize.
MaySkip(s) == s.last = None \/ Watching(s)

\* The host s counts on q.
Counts(s, q) == s.phase = "active" /\ q \in s.entered \cap s.latched \cap s.known

\* An event of q waits for the host.
Says(n, q, type) == \E e \in ToSet(n[<<q, Host>>]) : e.type = type

\* A machine that watches has a cohort.
Good(s) == Agree(s) /\ (Watching(s) => s.phase # "off")

\* What a step of machine p keeps of its own part in the scene.
Onward(p, s, t) ==
  /\ t.last = None => s.last = None /\ (p \in t.entered => p \in s.entered)
  /\ Watching(t) => Watching(s) \/ s.last = None
  /\ Watching(s) /\ InCohort(t) => InCohort(s) /\ (p \in s.votes => p \in t.votes)

\* What it keeps of the others' parts, unless it finalizes.
Hosting(p, s, t) ==
  /\ t.phase = "final" => s.phase = "final"
  /\ \A q \in Remotes(p) : Counts(s, q) => Counts(t, q)
  /\ t.votes \ {p} \subseteq s.votes
  /\ s.known \subseteq t.known

\* The whole step: p goes on, and as the host may finalize in the end.
Moves(p, s, x) == Good(x) /\ Onward(p, s, x) /\ Hosting(p, s, x)

\* What the machine s of player q knows of its own part: nothing before it has
\* come, no entry before its first scene, a cohort for the scene it watches.
Part(q, s) ==
  /\ ~In(q) => s.scene = None /\ s.last = None
  /\ s.last = None => q \notin s.entered
  /\ Good(s)

\* What the host h, client s of player q and the events n under way agree on:
\* who watches counts once its start is handled, and its vote is its own.
Agreed(q, h, s, n) ==
  /\ In(q) => q \in h.known
  /\ InCohort(s) /\ MaySkip(h) /\ ~Says(n, q, "start") => Counts(h, q)
  /\ InCohort(s) /\ (q \in h.votes \/ Says(n, q, "vote")) => q \in s.votes
  /\ conn[q] # "left" /\ s.last = None => q \notin h.votes /\ ~Says(n, q, "vote")

UInv ==
  /\ In(Host)
  /\ MaySkip(machine[Host]) => machine[Host].phase # "final"
  /\ \A q \in Players : Part(q, machine[q])
  /\ \A q \in Clients : Agreed(q, machine[Host], machine[q], net)

\* What is kept twice is kept.
LEMMA MovesOn ==
  ASSUME NEW p, NEW s, NEW u, NEW t, Agree(s), Moves(p, s, u), Moves(p, u, t)
  PROVE  Moves(p, s, t)
<1>1. Onward(p, s, t)
  <2>1. Watching(s) => s.last # None
    BY ScenesAssumption DEF Watching, Agree
  <2>2. Onward(p, s, u) /\ Onward(p, u, t)
    BY DEF Moves
  <2>3. Watching(s) /\ InCohort(t) => InCohort(u)
    BY <2>1, <2>2 DEF Onward, InCohort
  <2> QED
    BY <2>1, <2>2, <2>3 DEF Onward, InCohort
<1>2. Hosting(p, s, t)
  BY DEF Moves, Hosting
<1> QED
  BY <1>1, <1>2 DEF Moves

\* Where the parts in a scene are the same, so is what is kept of them.
LEMMA SameMoves ==
  ASSUME NEW p, NEW s, NEW t, Good(s), Agree(t),
         t.scene = s.scene, t.aborted = s.aborted, t.last = s.last, t.phase = s.phase,
         t.entered = s.entered, t.votes = s.votes, t.latched = s.latched,
         s.known \subseteq t.known
  PROVE  Moves(p, s, t)
<1>1. Watching(t) = Watching(s) /\ InCohort(t) = InCohort(s)
  BY DEF Watching, InCohort
<1>2. Good(t)
  BY <1>1 DEF Good
<1>3. Onward(p, s, t)
  BY <1>1 DEF Onward
<1>4. Hosting(p, s, t)
  BY DEF Hosting, Counts
<1> QED
  BY <1>2, <1>3, <1>4 DEF Moves

\* Registration.
LEMMA RegisteredMoves ==
  ASSUME NEW p \in Players, NEW s, Good(s)
  PROVE  Moves(p, s, Registered(p, s))
<1> DEFINE t == Registered(p, s)
<1>0. Agree(s)
  BY DEF Good
<1>1. CASE ~MustRegister(p, s)
  <2>1. t = s
    BY <1>1 DEF Registered
  <2> QED
    BY <1>0, <2>1, SameMoves
<1>2. CASE MustRegister(p, s)
  <2>1. Watching(s) /\ s.scene # None /\ s.phase = "active" /\ s.last # None
    <3>1. s.scene # None /\ ~s.aborted /\ Concerns(Ensured(s, s.scene), s.scene)
      BY <1>2 DEF MustRegister
    <3>2. s.phase # "off"
      BY <3>1 DEF Good, Watching
    <3>3. Ensured(s, s.scene) = s
      BY <3>2 DEF Ensured
    <3> QED
      BY <1>0, <3>1, <3>3 DEF Concerns, Watching, Agree
  <2>2. s \in Machine /\ Ensured(s, s.scene) = s
    BY <1>0, <2>1 DEF Agree, Ensured
  <2>3. t = [s EXCEPT !.entered = @ \cup {p}, !.caught = IF p = Host THEN s.known ELSE @]
    BY <1>2, <2>2 DEF Registered
  <2>4. /\ t.entered = s.entered \cup {p} /\ t.phase = s.phase /\ t.latched = s.latched
        /\ t.known = s.known /\ t.votes = s.votes /\ t.scene = s.scene
        /\ t.last = s.last /\ t.aborted = s.aborted
    BY <2>2, <2>3 DEF Machine
  <2>5. Agree(t)
    BY <1>0, RegisteredAgrees
  <2> HIDE DEF t
  <2>6. Watching(t) /\ InCohort(t) /\ InCohort(s)
    BY <2>1, <2>4 DEF Watching, InCohort
  <2>7. Onward(p, s, t)
    BY <2>1, <2>4, <2>6 DEF Onward
  <2>8. Hosting(p, s, t)
    BY <2>4 DEF Hosting, Counts
  <2>9. Good(t)
    BY <2>1, <2>4, <2>5 DEF Good
  <2> QED
    BY <2>7, <2>8, <2>9 DEF Moves, t
<1> QED
  BY <1>1, <1>2

\* The start of a scene that was never shown.
LEMMA StartedMoves ==
  ASSUME OneScene, NEW p \in Players, NEW s, Sane(p, s), Good(s), In(p), s.scene = None,
         p \notin s.entered \/ s.last # None,
         NEW scene \in Scenes, scene # s.last
  PROVE  /\ Moves(p, s, Registered(p, Spawned(s, scene)))
         /\ InCohort(Registered(p, Spawned(s, scene))) => MustRegister(p, Spawned(s, scene))
<1> DEFINE u == Spawned(s, scene)
           t == Registered(p, u)
<1>0. Agree(s) /\ s \in Machine
  BY DEF Good, Agree
<1>1. s.last = None
  BY <1>0 DEF OneScene, Machine
<1>2. /\ Agree(u) /\ u.scene = scene /\ u.last = scene /\ ~u.aborted
      /\ u.phase = s.phase /\ u.name = s.name /\ u.votes = s.votes /\ u.entered = s.entered
  BY <1>0, SpawnedAgrees
<1>3. u.latched = s.latched /\ u.known = s.known
  BY <1>0 DEF Spawned, Machine
<1>4. scene # None
  BY ScenesAssumption
<1> HIDE DEF u
<1>5. CASE u.phase = "final"
  <2>1. Ensured(u, u.scene) = u
    BY <1>5 DEF Ensured
  <2>2. t = u
    BY <1>5, <2>1 DEF Registered, MustRegister, Concerns
  <2>3. ~InCohort(t) /\ Good(t)
    BY <1>2, <1>5, <2>2 DEF InCohort, Good
  <2>4. Onward(p, s, t)
    BY <1>1, <1>2, <1>4, <2>2, <2>3 DEF Onward
  <2>5. Hosting(p, s, t)
    BY <1>2, <1>3, <2>2 DEF Hosting, Counts
  <2> QED
    BY <2>3, <2>4, <2>5 DEF Moves, u
<1>6. CASE u.phase # "final"
  <2>1. Good(t) /\ t.phase = "active" /\ MustRegister(p, u)
        /\ t.entered = Ensured(u, scene).entered \cup {p}
        /\ t.known = u.known /\ t.latched = Ensured(u, scene).latched
    <3> DEFINE e == Ensured(u, scene)
    <3>1. /\ Agree(e) /\ e.phase # "off" /\ e.known = u.known /\ e \in Machine
          /\ u.phase # "off" => e = u
          /\ u.phase = "off" => e.name = scene
      BY <1>2, EnsuredAgrees DEF Agree
    <3>2. e.phase = "active" /\ e.name = scene
      <4>1. CASE u.phase = "off"
        BY <4>1, <1>2 DEF Ensured, Reset, Agree, Machine
      <4>2. CASE u.phase # "off"
        BY <1>2, <1>6, <3>1, <4>2 DEF OneScene, Agree, Machine
      <4> QED
        BY <4>1, <4>2
    <3>3. MustRegister(p, u)
      BY <1>1, <1>2, <1>4, <3>2 DEF MustRegister, Concerns
    <3>4. t = [e EXCEPT !.entered = @ \cup {p}, !.caught = IF p = Host THEN u.known ELSE @]
      BY <1>2, <3>3 DEF Registered
    <3> HIDE DEF e
    <3>5. /\ t.entered = e.entered \cup {p} /\ t.phase = e.phase /\ t.latched = e.latched
          /\ t.known = e.known
      BY <3>1, <3>4 DEF Machine
    <3>6. Agree(t)
      BY <1>2, RegisteredAgrees
    <3> QED
      BY <3>1, <3>2, <3>3, <3>5, <3>6 DEF Good, e
  <2>2. /\ t.last = scene /\ t.votes = u.votes
    BY <1>2, RegisteredAgrees
  <2>3. Onward(p, s, t)
    BY <1>1, <1>4, <2>2 DEF Onward, Watching
  <2>4. Hosting(p, s, t)
    <3>1. s.phase = "active" => Ensured(u, scene) = u
      BY <1>2 DEF Ensured
    <3> HIDE DEF t
    <3> QED
      BY <1>2, <1>3, <2>1, <2>2, <3>1 DEF Hosting, Counts
  <2> HIDE DEF t
  <2> QED
    BY <2>1, <2>3, <2>4 DEF Moves, t, u
<1> QED
  BY <1>5, <1>6

\* The start that waits is shown, or it is the scene that was shown before, and
\* then it ends at once.
LEMMA PendingDoneMoves ==
  ASSUME OneScene, NEW p \in Players, NEW s, Good(s), NEW t \in PendingDone(p, s)
  PROVE  Moves(p, s, t) /\ t.entered = s.entered
<1>0. Agree(s) /\ s \in Machine
  BY DEF Good, Agree
<1>1. Agree(t)
  BY <1>0, PendingDoneSettles
<1>2. CASE t = s
  BY <1>0, <1>2, SameMoves
<1>3. CASE t = [s EXCEPT !.pending = FALSE]
  <2>1. /\ t.scene = s.scene /\ t.aborted = s.aborted /\ t.last = s.last /\ t.phase = s.phase
        /\ t.entered = s.entered /\ t.votes = s.votes /\ t.latched = s.latched
        /\ t.known = s.known
    BY <1>0, <1>3 DEF Machine
  <2> QED
    BY <1>1, <2>1, SameMoves
<1>4. CASE s.pending /\ s.scene = None /\ t = [Spawned(s, s.name) EXCEPT !.pending = FALSE]
  <2>1. s.name \in Scenes /\ s.phase = "active" /\ ~Watching(s)
    BY <1>0, <1>4 DEF Agree, Watching
  <2>2. s.last # None => s.last = s.name
    BY <1>0, <2>1 DEF OneScene, Machine
  <2>3. /\ t.aborted = (s.name = s.last) /\ t.last = s.name /\ t.phase = s.phase
        /\ t.entered = s.entered /\ t.votes = s.votes /\ t.latched = s.latched
        /\ t.known = s.known
    BY <1>0, <1>4, <2>1 DEF Spawned, Machine
  <2>4. Onward(p, s, t)
    <3>1. t.last # None
      BY <2>1, <2>3, ScenesAssumption
    <3>2. Watching(t) => s.last = None
      BY <2>2, <2>3 DEF Watching
    <3> QED
      BY <2>1, <3>1, <3>2 DEF Onward
  <2>5. Hosting(p, s, t)
    BY <2>3 DEF Hosting, Counts
  <2>6. Good(t)
    BY <1>1, <2>1, <2>3 DEF Good
  <2> QED
    BY <2>3, <2>4, <2>5, <2>6 DEF Moves
<1>5. \/ t = s
      \/ t = [s EXCEPT !.pending = FALSE]
      \/ s.pending /\ s.scene = None /\ t = [Spawned(s, s.name) EXCEPT !.pending = FALSE]
  BY Zenon DEF PendingDone
<1> QED
  BY <1>2, <1>3, <1>4, <1>5

\* Reconciliation keeps whoever is latched, and the machine's own vote in the
\* scene it watches.
LEMMA ReconciledMoves ==
  ASSUME OneScene, NEW p \in Players, NEW s, Good(s), In(p), Agree(Reconciled(p, s))
  PROVE  /\ Moves(p, s, Reconciled(p, s))
         /\ Reconciled(p, s).scene = s.scene /\ Reconciled(p, s).aborted = s.aborted
<1> DEFINE t == Reconciled(p, s)
<1>0. Agree(s) /\ s \in Machine
  BY DEF Good, Agree
<1>1. CASE s.phase = "off"
  BY <1>0, <1>1, SameMoves DEF Reconciled
<1>2. CASE s.phase # "off"
  <2> DEFINE there == {q \in Players :
                         IF q = p THEN In(p) /\ s.scene = s.name
                         ELSE q \in s.known /\ q \in s.playing \cup s.latched}
  <2>1. t = [s EXCEPT !.entered = @ \cap there, !.votes = @ \cap there,
                      !.caught = @ \cap there]
    BY <1>2 DEF Reconciled
  <2>2. \A q \in Remotes(p) : Counts(s, q) => q \in there
    BY DEF Counts, Remotes
  <2>3. Watching(s) => p \in there
    <3>1. s.name \in Scenes
      BY <1>0, <1>2 DEF Agree
    <3>2. Watching(s) => s.scene \in Scenes
      BY <1>0 DEF Watching, Machine
    <3> QED
      BY <3>1, <3>2 DEF OneScene
  <2> HIDE DEF there
  <2>4. /\ t.scene = s.scene /\ t.aborted = s.aborted /\ t.last = s.last /\ t.phase = s.phase
        /\ t.entered = s.entered \cap there /\ t.votes = s.votes \cap there
        /\ t.latched = s.latched /\ t.known = s.known
    BY <1>0, <2>1 DEF Machine
  <2> HIDE DEF t
  <2>5. Watching(t) = Watching(s) /\ InCohort(t) = InCohort(s)
    BY <2>4 DEF Watching, InCohort
  <2>6. Onward(p, s, t)
    BY <2>3, <2>4, <2>5 DEF Onward
  <2>7. Hosting(p, s, t)
    BY <2>2, <2>4 DEF Hosting, Counts
  <2>8. Good(t)
    BY <1>2, <2>4 DEF Good, t
  <2> QED
    BY <2>4, <2>6, <2>7, <2>8 DEF Moves, t
<1> QED
  BY <1>1, <1>2

\* The replay touches the catchup mask only.
LEMMA ReplayedMoves ==
  ASSUME NEW p \in Players, NEW s, Good(s), Agree(Replayed(p, s))
  PROVE  Moves(p, s, Replayed(p, s))
<1>0. Agree(s) /\ s \in Machine
  BY DEF Good, Agree
<1>1. CASE ~Replays(p, s)
  BY <1>0, <1>1, SameMoves DEF Replayed
<1>2. CASE Replays(p, s)
  <2> DEFINE t == Replayed(p, s)
  <2>1. /\ t.scene = s.scene /\ t.aborted = s.aborted /\ t.last = s.last /\ t.phase = s.phase
        /\ t.entered = s.entered /\ t.votes = s.votes /\ t.latched = s.latched
        /\ t.known = s.known
    BY <1>0, <1>2 DEF Replayed, Machine
  <2> HIDE DEF t
  <2>2. Agree(t)
    BY DEF t
  <2>3. Moves(p, s, t)
    BY <2>1, <2>2, SameMoves
  <2> QED
    BY <2>3 DEF t
<1> QED
  BY <1>1, <1>2

\* A cohort that ends has nobody who counts, and its machine does not watch.
LEMMA EndedMoves ==
  ASSUME NEW p \in Players, NEW s, Good(s), NEW t \in Ended(p, s), Agree(t)
  PROVE  Moves(p, s, t)
<1>0. Agree(s) /\ s \in Machine
  BY DEF Good, Agree
<1>1. CASE t = s
  BY <1>0, <1>1, SameMoves
<1>2. CASE Over(p, s) /\ t = Reset(s)
  <2>1. /\ t.scene = s.scene /\ t.last = s.last /\ t.phase = "off" /\ t.entered = {}
        /\ t.votes = {} /\ t.known = s.known
    BY <1>0, <1>2 DEF Reset, Machine
  <2>2. ~Watching(s) /\ ~Watching(t)
    BY <1>2, <2>1 DEF Over, Watching
  <2>3. \A q \in Remotes(p) : ~Counts(s, q)
    <3> SUFFICES ASSUME NEW q \in Remotes(p), Counts(s, q) PROVE FALSE
      OBVIOUS
    <3>1. q \in Participants(p, s)
      BY DEF Counts, Participants, Remotes
    <3> QED
      BY <1>2, <3>1 DEF Over, Counts
  <2>4. Onward(p, s, t)
    BY <2>1, <2>2 DEF Onward, InCohort
  <2>5. Hosting(p, s, t)
    BY <2>1, <2>3 DEF Hosting
  <2> QED
    BY <2>2, <2>4, <2>5 DEF Moves, Good
<1> QED
  BY <1>1, <1>2 DEF Ended

\* A scene that is over is not watched any more.
LEMMA EndsMoves ==
  ASSUME NEW p \in Players, NEW s, Good(s), s.scene # None, NEW t, Agree(t),
         t = [s EXCEPT !.scene = None, !.aborted = FALSE]
  PROVE  Moves(p, s, t)
<1>1. s \in Machine /\ s.last # None
  BY ScenesAssumption DEF Good, Agree
<1>2. /\ t.scene = None /\ t.last = s.last /\ t.phase = s.phase /\ t.entered = s.entered
      /\ t.votes = s.votes /\ t.latched = s.latched /\ t.known = s.known
  BY <1>1 DEF Machine
<1>3. ~Watching(t)
  BY <1>2 DEF Watching
<1>4. Onward(p, s, t)
  BY <1>1, <1>2, <1>3 DEF Onward, InCohort
<1>5. Hosting(p, s, t)
  BY <1>2 DEF Hosting, Counts
<1> QED
  BY <1>3, <1>4, <1>5 DEF Moves, Good

\* What a vote changes, whoever's it is.
LEMMA VotedFields ==
  ASSUME NEW p \in Players, NEW s \in Machine, NEW q \in Players, NEW t, t = Voted(p, s, q)
  PROVE  /\ t.scene = s.scene /\ t.aborted = s.aborted /\ t.last = s.last /\ t.phase = s.phase
         /\ t.entered = s.entered \cup {q} /\ t.votes = s.votes \cup {q}
         /\ s.latched \subseteq t.latched /\ t.known = s.known
  BY DEF Voted, Machine

\* A machine's own vote.
LEMMA OwnVoteMoves ==
  ASSUME NEW p \in Players, NEW s, Good(s), s.scene # None,
         NEW t, Agree(t), t = Voted(p, s, p)
  PROVE  Moves(p, s, t) /\ p \in t.votes /\ t.last # None
<1>1. s \in Machine /\ s.last # None
  BY ScenesAssumption DEF Good, Agree
<1>2. /\ t.scene = s.scene /\ t.aborted = s.aborted /\ t.last = s.last /\ t.phase = s.phase
      /\ t.entered = s.entered \cup {p} /\ t.votes = s.votes \cup {p}
      /\ s.latched \subseteq t.latched /\ t.known = s.known
  BY <1>1, VotedFields
<1>3. Watching(t) = Watching(s) /\ InCohort(t) = InCohort(s)
  BY <1>2 DEF Watching, InCohort
<1>4. Onward(p, s, t)
  BY <1>1, <1>2, <1>3 DEF Onward
<1>5. Hosting(p, s, t)
  BY <1>2 DEF Hosting, Counts
<1>6. Good(t)
  BY <1>2, <1>3 DEF Good
<1> QED
  BY <1>1, <1>2, <1>4, <1>5, <1>6 DEF Moves

\* What an event of another keeps, whatever it is: its machine goes on, and
\* watches no scene that it has not watched before.
Takes(p, s, t) == Good(t) /\ Onward(p, s, t) /\ (Watching(t) => Watching(s))

\* Another's start: whoever is known counts from then on.
LEMMA StartHeardMoves ==
  ASSUME OneScene, NEW p \in Players, NEW s, Good(s), NEW q \in Remotes(p),
         NEW scene \in Scenes, NEW t, Agree(t), t = StartHeard(s, q, scene)
  PROVE  /\ Moves(p, s, t) /\ Takes(p, s, t)
         /\ q \in s.known /\ t.phase # "final" => Counts(t, q)
<1> DEFINE e == Ensured(s, scene)
<1>0. Agree(s) /\ s \in Machine /\ q # p
  BY DEF Good, Agree, Remotes
<1>1. CASE ~MayEnter(s, q, scene)
  <2>1. t = s
    BY <1>1 DEF StartHeard
  <2>2. Moves(p, s, t)
    BY <1>0, <2>1, SameMoves
  <2>3. q \in s.known => s.phase = "final"
    <3>1. s.phase = "off" => e.phase = "active" /\ e.name = scene
      BY <1>0 DEF Ensured, Reset, Machine
    <3>2. s.phase # "off" => e = s /\ s.name = scene
      BY <1>0 DEF Ensured, Agree, OneScene
    <3> HIDE DEF e
    <3>3. q \in s.known => ~Concerns(e, scene)
      BY <1>1 DEF MayEnter, e
    <3>4. s.phase = "off" \/ s.phase = "active" \/ s.phase = "final"
      BY <1>0 DEF Machine
    <3> QED
      BY <3>1, <3>2, <3>3, <3>4 DEF Concerns
  <2> QED
    BY <2>1, <2>2, <2>3 DEF Moves, Takes
<1>2. CASE MayEnter(s, q, scene)
  <2>1. /\ Agree(e) /\ e \in Machine
        /\ s.phase # "off" => e = s
        /\ e.scene = s.scene /\ e.last = s.last /\ e.aborted = s.aborted /\ e.known = s.known
        /\ e.votes = s.votes
    BY <1>0, EnsuredAgrees DEF Agree
  <2>2. q \in s.known /\ e.phase = "active" /\ q \in Players
    BY <1>2 DEF MayEnter, Concerns, Remotes
  <2>3. t = [[e EXCEPT !.entered = @ \cup {q}, !.latched = @ \cup {q}]
               EXCEPT !.pending = @ \/ s.scene # scene]
    BY <1>2 DEF StartHeard, Entered
  <2>4. e.entered = s.entered
    <3>1. s.phase = "off" => e = [Reset(s) EXCEPT !.phase = "active", !.name = scene]
      BY DEF Ensured
    <3> HIDE DEF e
    <3>2. CASE s.phase = "off"
      <4>1. s.entered = {}
        BY <1>0, <3>2 DEF Agree
      <4>2. Reset(s) \in Machine /\ Reset(s).entered = {}
        BY <1>0 DEF Reset, Machine
      <4>3. e.entered = Reset(s).entered
        BY <3>1, <3>2, <4>2 DEF Machine
      <4> QED
        BY <4>1, <4>2, <4>3
    <3> QED
      BY <2>1, <3>2
  <2> HIDE DEF e
  <2>5. /\ t.scene = e.scene /\ t.aborted = e.aborted /\ t.last = e.last /\ t.phase = e.phase
        /\ t.entered = e.entered \cup {q} /\ t.votes = e.votes
        /\ t.latched = e.latched \cup {q} /\ t.known = e.known
    <3> DEFINE k == [e EXCEPT !.entered = @ \cup {q}, !.latched = @ \cup {q}]
    <3>1. /\ k.scene = e.scene /\ k.aborted = e.aborted /\ k.last = e.last /\ k.phase = e.phase
          /\ k.entered = e.entered \cup {q} /\ k.votes = e.votes
          /\ k.latched = e.latched \cup {q} /\ k.known = e.known /\ k \in Machine
      BY <2>1, <2>2 DEF Machine
    <3> DEFINE waits == k.pending \/ s.scene # scene
    <3>2. t = [k EXCEPT !.pending = waits]
      BY <2>3
    <3> HIDE DEF k, waits
    <3> QED
      BY <3>1, <3>2 DEF Machine
  <2>6. Watching(t) = Watching(s)
    BY <2>1, <2>5 DEF Watching
  <2>7. s.phase # "off" => InCohort(t) = InCohort(s)
    BY <2>1, <2>5, <2>6 DEF InCohort
  <2>8. Onward(p, s, t)
    <3>1. Watching(s) => s.phase # "off"
      BY DEF Good
    <3>2. t.last = s.last /\ t.votes = s.votes
      BY <2>1, <2>5
    <3>3. p \in t.entered => p \in s.entered
      BY <1>0, <2>4, <2>5
    <3>4. Watching(s) /\ InCohort(t) => InCohort(s)
      BY <2>7, <3>1
    <3> HIDE DEF Watching, InCohort
    <3> QED
      BY <2>6, <3>2, <3>3, <3>4 DEF Onward
  <2>9. Hosting(p, s, t) /\ Counts(t, q)
    <3>1. s.phase = "active" => e = s
      BY <2>1
    <3> QED
      BY <2>1, <2>2, <2>5, <3>1 DEF Hosting, Counts
  <2>10. Good(t)
    BY <2>2, <2>5 DEF Good
  <2> QED
    BY <2>6, <2>8, <2>9, <2>10 DEF Moves, Takes
<1> QED
  BY <1>1, <1>2

\* Another's vote.
LEMMA VoteHeardMoves ==
  ASSUME NEW p \in Players, NEW s, Good(s), NEW q \in Remotes(p), NEW scene,
         NEW t, Agree(t), t = VoteHeard(p, s, q, scene)
  PROVE  /\ Takes(p, s, t)
         /\ t.phase = s.phase /\ t.votes \subseteq s.votes \cup {q}
         /\ \A r \in Remotes(p) : Counts(s, r) => Counts(t, r)
         /\ s.known \subseteq t.known
<1>0. Agree(s) /\ s \in Machine /\ q # p /\ q \in Players
  BY DEF Good, Agree, Remotes
<1>1. CASE ~MayVote(p, s, q, scene)
  <2>1. t = s
    BY <1>1 DEF VoteHeard
  <2>2. Moves(p, s, t)
    BY <1>0, <2>1, SameMoves
  <2> QED
    BY <2>1, <2>2 DEF Moves, Takes
<1>2. CASE MayVote(p, s, q, scene)
  <2>1. t = Voted(p, s, q)
    BY <1>2 DEF VoteHeard
  <2>2. /\ t.scene = s.scene /\ t.aborted = s.aborted /\ t.last = s.last /\ t.phase = s.phase
        /\ t.entered = s.entered \cup {q} /\ t.votes = s.votes \cup {q}
        /\ s.latched \subseteq t.latched /\ t.known = s.known
    BY <1>0, <2>1, VotedFields
  <2>3. Watching(t) = Watching(s) /\ InCohort(t) = InCohort(s)
    BY <2>2 DEF Watching, InCohort
  <2>4. Onward(p, s, t)
    BY <1>0, <2>2, <2>3 DEF Onward
  <2>5. Good(t)
    BY <2>2, <2>3 DEF Good
  <2> QED
    BY <2>2, <2>3, <2>4, <2>5 DEF Takes, Counts
<1> QED
  BY <1>1, <1>2

\* The host's skip.
LEMMA SkipHeardMoves ==
  ASSUME NEW p \in Players, NEW s, Good(s), NEW q, NEW scene,
         NEW t, Agree(t), t = SkipHeard(s, q, scene)
  PROVE  Takes(p, s, t) /\ (q # Host => t = s)
<1>0. Agree(s) /\ s \in Machine
  BY DEF Good, Agree
<1>1. CASE q # Host \/ ~Concerns(s, scene)
  <2>1. t = s
    BY <1>1 DEF SkipHeard
  <2>2. Moves(p, s, t)
    BY <1>0, <2>1, SameMoves
  <2> QED
    BY <2>1, <2>2 DEF Moves, Takes
<1>2. CASE ~(q # Host \/ ~Concerns(s, scene))
  <2>1. t = [Final(s) EXCEPT !.pending = FALSE, !.aborted = @ \/ s.scene = scene]
    BY <1>2 DEF SkipHeard
  <2>2. /\ t.scene = s.scene /\ t.last = s.last /\ t.phase = "final"
        /\ t.entered = s.entered /\ (~t.aborted => ~s.aborted)
    <3> DEFINE f == [Final(s) EXCEPT !.pending = FALSE]
               ends == f.aborted \/ s.scene = scene
    <3>1. /\ f.scene = s.scene /\ f.last = s.last /\ f.phase = "final"
          /\ f.entered = s.entered /\ f.aborted = s.aborted /\ f \in Machine
      BY <1>0 DEF Final, Machine
    <3>2. t = [f EXCEPT !.aborted = ends]
      BY <2>1
    <3>3. ~ends => ~f.aborted
      OBVIOUS
    <3> HIDE DEF f, ends
    <3>4. t.aborted = ends
      BY <3>1, <3>2 DEF Machine
    <3>5. ~t.aborted => ~s.aborted
      BY <3>1, <3>3, <3>4
    <3> QED
      BY <3>1, <3>2, <3>5 DEF Machine
  <2>3. (Watching(t) => Watching(s)) /\ ~InCohort(t)
    BY <2>2 DEF Watching, InCohort
  <2>4. Onward(p, s, t)
    BY <2>2, <2>3 DEF Onward
  <2>5. Good(t)
    BY <2>2 DEF Good
  <2> QED
    BY <1>2, <2>3, <2>4, <2>5 DEF Takes
<1> QED
  BY <1>1, <1>2

\* Where the host finalizes, it watched, and does so no more.
LEMMA CompletedMoves ==
  ASSUME NEW x, Agree(x), SkipReady(Host, x), NEW t, Agree(t), t = Completed(Host, x)
  PROVE  /\ Watching(x) /\ x.last # None
         /\ Good(t) /\ ~MaySkip(t)
         /\ t.phase = "final" /\ t.votes = {} /\ t.known = x.known
         /\ t.last = x.last /\ t.entered = x.entered
<1>1. x \in Machine /\ x.phase = "active" /\ x.scene = x.name /\ ~x.aborted /\ x.scene # None
      /\ x.last # None
  BY ScenesAssumption DEF Agree, SkipReady
<1>2. t = [Final(x) EXCEPT !.aborted = TRUE]
  BY DEF Completed
<1>3. /\ t.phase = "final" /\ t.votes = {} /\ t.known = x.known
      /\ t.last = x.last /\ t.entered = x.entered /\ t.aborted
  BY <1>1, <1>2 DEF Final, Machine
<1> QED
  BY <1>1, <1>3 DEF Good, Watching, MaySkip

----------------------------------------------------------------------------
(* The events under way to the host                                        *)

\* An event that is queued is said, and nothing else is.
LEMMA AppendSays ==
  ASSUME NEW s \in Seq(Events), NEW e \in Events
  PROVE  ToSet(Append(s, e)) = ToSet(s) \cup {e}
<1> DEFINE t == Append(s, e)
<1>1. /\ DOMAIN t = DOMAIN s \cup {Len(s) + 1} /\ t[Len(s) + 1] = e
      /\ \A i \in DOMAIN s : t[i] = s[i]
  OBVIOUS
<1> HIDE DEF t
<1>2. ToSet(t) = ToSet(s) \cup {e}
  BY <1>1 DEF ToSet
<1> QED
  BY <1>2 DEF t

\* The event that is handled is not said any more, unless it is queued twice.
LEMMA TailSays ==
  ASSUME NEW s \in Seq(Events), s # <<>>
  PROVE  /\ Head(s) \in ToSet(s)
         /\ ToSet(Tail(s)) \subseteq ToSet(s)
         /\ ToSet(s) \subseteq ToSet(Tail(s)) \cup {Head(s)}
<1> DEFINE t == Tail(s)
<1>1. /\ Len(s) \in Nat /\ Len(s) >= 1 /\ DOMAIN s = 1 .. Len(s) /\ Head(s) = s[1]
      /\ DOMAIN t = 1 .. Len(s) - 1 /\ \A i \in 1 .. Len(s) - 1 : t[i] = s[i + 1]
  <2>1. Len(s) \in Nat /\ Len(s) >= 1 /\ DOMAIN s = 1 .. Len(s) /\ Head(s) = s[1]
    OBVIOUS
  <2>2. /\ t \in Seq(Events) /\ Len(t) = Len(s) - 1
        /\ \A i \in 1 .. Len(t) : t[i] = s[i + 1]
    BY HeadTailProperties
  <2> HIDE DEF t
  <2>3. DOMAIN t = 1 .. Len(t)
    BY <2>2
  <2> QED
    BY <2>1, <2>2, <2>3
<1> HIDE DEF t
<1>2. Head(s) \in ToSet(s)
  BY <1>1 DEF ToSet
<1>3. \A i \in DOMAIN t : t[i] \in ToSet(s)
  <2> SUFFICES ASSUME NEW i \in DOMAIN t PROVE t[i] \in ToSet(s)
    OBVIOUS
  <2>1. i + 1 \in DOMAIN s /\ t[i] = s[i + 1]
    BY <1>1
  <2> QED
    BY <2>1 DEF ToSet
<1>4. \A i \in DOMAIN s : i = 1 \/ (i - 1 \in DOMAIN t /\ s[i] = t[i - 1])
  BY <1>1
<1>5. \A i \in DOMAIN s : s[i] \in ToSet(t) \cup {Head(s)}
  BY <1>1, <1>4 DEF ToSet
<1> QED
  BY <1>2, <1>3, <1>5 DEF ToSet, t

\* The bound on copies never keeps an event from being said.
LEMMA FullSays ==
  ASSUME NEW s \in Seq(Events), NEW e, ~Fits(s, e)
  PROVE  e \in ToSet(s)
<1> SUFFICES ASSUME e \notin ToSet(s) PROVE FALSE
  OBVIOUS
<1>1. {i \in DOMAIN s : s[i] = e} = {}
  BY DEF ToSet
<1>2. Cardinality({i \in DOMAIN s : s[i] = e}) = 0
  BY <1>1, FS_EmptySet
<1> QED
  BY <1>2, CopiesAssumption DEF Fits

\* What a broadcast of p adds to what the host has yet to hear.
LEMMA SentSays ==
  ASSUME NEW n \in Queues, NEW p \in Players, NEW does, NEW e, does => e \in Events,
         NEW m, m = Sent(n, p, does, e), NEW q \in Clients, NEW type
  PROVE  /\ q # p => m[<<q, Host>>] = n[<<q, Host>>]
         /\ Says(n, q, type) => Says(m, q, type)
         /\ Says(m, q, type) => Says(n, q, type) \/ (does /\ q = p /\ e.type = type)
         /\ does /\ q = p /\ e.type = type /\ In(p) /\ In(Host) => Says(m, q, type)
<1> DEFINE a == n[<<q, Host>>]
           b == m[<<q, Host>>]
           sends == does /\ p = q /\ Host \in Present \ {p} /\ p \in Present /\ Fits(a, e)
<1>1. <<q, Host>> \in Players \X Players /\ a \in Seq(Events) /\ q # Host
  BY PlayersAssumption DEF Clients, Queues
<1>2. b = IF sends THEN Append(a, e) ELSE a
  <2>1. m[<<q, Host>>] = IF does /\ <<q, Host>>[1] = p /\ <<q, Host>>[2] \in Present \ {p}
                            /\ p \in Present /\ Fits(n[<<q, Host>>], e)
                         THEN Append(n[<<q, Host>>], e) ELSE n[<<q, Host>>]
    BY <1>1, Zenon DEF Sent
  <2>2. <<q, Host>>[1] = q /\ <<q, Host>>[2] = Host
    OBVIOUS
  <2> QED
    BY <2>1, <2>2
<1>3. sends => ToSet(b) = ToSet(a) \cup {e}
  BY <1>1, <1>2, AppendSays
<1>4. does /\ q = p /\ In(p) /\ In(Host) => sends \/ e \in ToSet(a)
  <2>1. In(p) /\ In(Host) => p \in Present /\ Host \in Present
    BY PlayersAssumption DEF In, Present
  <2> HIDE DEF a
  <2>2. ~Fits(a, e) => e \in ToSet(a)
    BY <1>1, FullSays
  <2> QED
    BY <1>1, <2>1, <2>2
<1>5. sends => does /\ p = q
  OBVIOUS
<1>6. Says(n, q, type) = (\E f \in ToSet(a) : f.type = type)
  BY DEF Says
<1>7. Says(m, q, type) = (\E f \in ToSet(b) : f.type = type)
  BY DEF Says
<1> HIDE DEF sends
<1>8. q # p => b = a
  BY <1>2, <1>5
<1> HIDE DEF a, b
<1> QED
  BY <1>2, <1>3, <1>4, <1>5, <1>6, <1>7, <1>8 DEF a, b

----------------------------------------------------------------------------
(* A step, put together                                                    *)

\* The clients the host counts on have all voted, should the host finalize.
Unanimous ==
  machine'[Host].phase = "final" /\ machine[Host].phase # "final" =>
    \A q \in Clients :
      InCohort(machine[q]) /\ ~Says(net, q, "start") => q \in machine[q].votes

\* A step of a client that goes on: it says so when it begins to watch, and
\* nobody votes but by watching.
LEMMA ClientSteps ==
  ASSUME TypeOK, UInv, NEW c \in Clients, NEW t,
         machine' = [machine EXCEPT ![c] = t], conn' = conn,
         In(c) \/ (t.scene = None /\ t.last = None),
         Good(t), Onward(c, machine[c], t),
         InCohort(t) /\ ~Watching(machine[c]) => Says(net', c, "start"),
         Says(net, c, "start") => Says(net', c, "start"),
         Says(net', c, "vote") => Says(net, c, "vote") \/ (c \in t.votes /\ t.last # None),
         \A q \in Clients \ {c} : net'[<<q, Host>>] = net[<<q, Host>>]
  PROVE  UInv' /\ Unanimous
<1> DEFINE s == machine[c]
           h == machine[Host]
<1>1. c \in Players /\ c # Host
  BY DEF Clients
<1>2. /\ machine'[c] = t
      /\ \A q \in Players \ {c} : machine'[q] = machine[q]
  BY <1>1 DEF TypeOK
<1>3. Part(c, s) /\ Agreed(c, h, s, net)
  BY <1>1 DEF UInv
<1>4. Part(c, t)
  BY <1>3 DEF Part, Onward
<1>5. Watching(t) => In(c)
  BY DEF Watching
<1>6. Agreed(c, h, t, net')
  <2>1. ASSUME InCohort(t) PROVE Watching(t) /\ In(c) /\ conn[c] # "left"
    BY <1>5, <2>1 DEF InCohort, In
  <2>2. ASSUME InCohort(t), Watching(s)
        PROVE  InCohort(s) /\ (c \in s.votes => c \in t.votes)
    BY <2>2 DEF Onward
  <2>3. ASSUME InCohort(t), ~Watching(s)
        PROVE  s.last = None /\ Says(net', c, "start")
               /\ c \notin h.votes /\ ~Says(net, c, "vote")
    BY <1>3, <2>1, <2>3 DEF Onward, Agreed
  <2>4. InCohort(t) /\ MaySkip(h) /\ ~Says(net', c, "start") => Counts(h, c)
    BY <1>3, <2>2, <2>3 DEF Agreed
  <2>5. InCohort(t) /\ (c \in h.votes \/ Says(net', c, "vote")) => c \in t.votes
    BY <1>3, <2>2, <2>3 DEF Agreed
  <2>6. conn[c] # "left" /\ t.last = None => c \notin h.votes /\ ~Says(net', c, "vote")
    BY <1>3 DEF Onward, Agreed
  <2> QED
    BY <1>3, <2>4, <2>5, <2>6 DEF Agreed
<1>7. ASSUME NEW q \in Clients \ {c} PROVE Agreed(q, h, machine[q], net')
  <2>1. Agreed(q, h, machine[q], net)
    BY <1>7 DEF UInv
  <2>2. net'[<<q, Host>>] = net[<<q, Host>>]
    BY <1>7
  <2> QED
    BY <2>1, <2>2 DEF Agreed, Says
<1>8. machine'[Host] = h
  BY <1>1, <1>2, PlayersAssumption
<1>9. \A q \in Players : Part(q, machine'[q])
  BY <1>2, <1>4 DEF UInv
<1>10. \A q \in Clients : Agreed(q, machine'[Host], machine'[q], net')
  BY <1>1, <1>2, <1>6, <1>7, <1>8 DEF Clients
<1>11. MaySkip(h) => h.phase # "final"
  BY DEF UInv
<1>12. UInv'
  BY <1>8, <1>9, <1>10, <1>11 DEF UInv, In, Part, Agreed, Good, Agree, Watching, MaySkip,
       Counts, InCohort, Says
<1> QED
  BY <1>8, <1>12 DEF Unanimous

\* A step of the host to x, after which it may finalize.  A start it handles
\* counts, and it holds votes that were cast.
LEMMA HostSteps ==
  ASSUME TypeOK, UInv, NEW x, NEW t,
         machine' = [machine EXCEPT ![Host] = t], conn' = conn,
         Agree(t), t = x \/ t = Completed(Host, x),
         Good(x), Onward(Host, machine[Host], x),
         x.phase = "final" => machine[Host].phase = "final",
         machine[Host].known \subseteq x.known,
         \A q \in Clients : Counts(machine[Host], q) => Counts(x, q),
         \A q \in Clients : q \in x.votes => q \in machine[Host].votes \/ Says(net, q, "vote"),
         \A q \in Clients : Says(net', q, "vote") => Says(net, q, "vote"),
         \A q \in Clients :
           Says(net, q, "start") /\ q \in machine[Host].known /\ x.phase # "final" =>
             Says(net', q, "start") \/ Counts(x, q)
  PROVE  UInv' /\ Unanimous
<1> DEFINE s == machine[Host]
<1>0. Host \in Players /\ Host \notin Clients /\ Clients \subseteq Players
  BY PlayersAssumption DEF Clients
<1>1. /\ machine'[Host] = t
      /\ \A q \in Players \ {Host} : machine'[q] = machine[q]
  BY <1>0 DEF TypeOK
<1>2. Part(Host, s) /\ In(Host) /\ Agree(x)
  BY <1>0 DEF UInv, Good
<1>3. MaySkip(x) => MaySkip(s)
  BY DEF MaySkip, Onward
<1>4. MaySkip(s) => s.phase # "final"
  BY DEF UInv
<1>5. Part(Host, x)
  BY <1>2 DEF Part, Onward
<1>6. ASSUME NEW q \in Clients PROVE Agreed(q, x, machine[q], net')
  <2>1. Agreed(q, s, machine[q], net) /\ Part(q, machine[q])
    BY <1>0 DEF UInv
  <2>2. InCohort(machine[q]) => In(q)
    BY <2>1 DEF InCohort, Watching, Part
  <2>3. ASSUME InCohort(machine[q]), MaySkip(x), ~Says(net', q, "start")
        PROVE  Counts(x, q)
    <3>1. q \in s.known /\ MaySkip(s) /\ x.phase # "final"
      BY <1>3, <1>4, <2>1, <2>2, <2>3 DEF Agreed
    <3>2. CASE Says(net, q, "start")
      BY <2>3, <3>1, <3>2
    <3>3. CASE ~Says(net, q, "start")
      BY <2>1, <2>3, <3>1, <3>3 DEF Agreed
    <3> QED
      BY <3>2, <3>3
  <2>4. q \in x.votes \/ Says(net', q, "vote") => q \in s.votes \/ Says(net, q, "vote")
    OBVIOUS
  <2> QED
    BY <2>1, <2>3, <2>4 DEF Agreed
<1>7. CASE t = x
  <2>1. \A q \in Players : Part(q, machine'[q])
    BY <1>1, <1>5, <1>7 DEF UInv
  <2>2. \A q \in Clients : Agreed(q, machine'[Host], machine'[q], net')
    BY <1>0, <1>1, <1>6, <1>7
  <2>3. MaySkip(t) => t.phase # "final"
    BY <1>3, <1>4, <1>7
  <2>4. UInv'
    BY <1>1, <1>2, <2>1, <2>2, <2>3 DEF UInv, In, Part, Agreed, Good, Agree, Watching,
         MaySkip, Counts, InCohort, Says
  <2> QED
    BY <1>1, <1>7, <2>4 DEF Unanimous
<1>8. CASE SkipReady(Host, x) /\ t = Completed(Host, x)
  <2>1. /\ Watching(x) /\ x.last # None /\ Good(t) /\ ~MaySkip(t)
        /\ t.phase = "final" /\ t.votes = {} /\ t.known = x.known
        /\ t.last = x.last /\ t.entered = x.entered
    BY <1>2, <1>8, CompletedMoves
  <2>2. Part(Host, t)
    BY <1>2, <2>1 DEF Part
  <2>3. ASSUME NEW q \in Clients PROVE Agreed(q, t, machine[q], net')
    BY <1>6, <2>1 DEF Agreed
  <2>4. \A q \in Players : Part(q, machine'[q])
    BY <1>1, <2>2 DEF UInv
  <2>5. \A q \in Clients : Agreed(q, machine'[Host], machine'[q], net')
    BY <1>0, <1>1, <2>3
  <2>6. UInv'
    BY <1>1, <1>2, <2>1, <2>4, <2>5 DEF UInv, In, Part, Agreed, Good, Agree, Watching,
         MaySkip, Counts, InCohort, Says
  <2>7. ASSUME NEW q \in Clients, InCohort(machine[q]), ~Says(net, q, "start")
        PROVE  q \in machine[q].votes
    <3>1. Agreed(q, s, machine[q], net)
      BY DEF UInv
    <3>2. MaySkip(s)
      BY <1>3, <2>1 DEF MaySkip
    <3>3. Counts(x, q)
      BY <2>7, <3>1, <3>2 DEF Agreed
    <3>4. q \in Participants(Host, x)
      BY <1>0, <2>7, <3>3 DEF Counts, Participants
    <3>5. q \in x.votes
      BY <1>8, <3>4 DEF SkipReady
    <3> QED
      BY <2>7, <3>1, <3>5 DEF Agreed
  <2> QED
    BY <2>6, <2>7 DEF Unanimous
<1>9. ~SkipReady(Host, x) => Completed(Host, x) = x
  BY DEF Completed
<1> QED
  BY <1>7, <1>8, <1>9

\* What machine p says to the host as it goes from s to t: that it has begun to
\* watch, and its vote if it has one.  What others said is as it was.
Talks(p, s, t) ==
  /\ \A q \in Clients \ {p} : net'[<<q, Host>>] = net[<<q, Host>>]
  /\ p \in Clients =>
       /\ InCohort(t) /\ ~Watching(s) => Says(net', p, "start")
       /\ Says(net, p, "start") => Says(net', p, "start")
       /\ Says(net', p, "vote") => Says(net, p, "vote") \/ (p \in t.votes /\ t.last # None)

\* A step of a machine for itself.
LEMMA OwnStep ==
  ASSUME TypeOK, UInv, NEW p \in Players, NEW x, NEW t,
         machine' = [machine EXCEPT ![p] = t], conn' = conn,
         Agree(t), t = x \/ t = Completed(p, x),
         In(p) \/ (t.scene = None /\ t.last = None),
         Moves(p, machine[p], x), Talks(p, machine[p], x)
  PROVE  UInv' /\ Unanimous
<1>1. CASE p = Host
  <2> DEFINE s == machine[Host]
  <2>1. /\ Good(x) /\ Onward(Host, s, x)
        /\ x.phase = "final" => s.phase = "final"
        /\ s.known \subseteq x.known
        /\ \A q \in Clients : Counts(s, q) => Counts(x, q)
        /\ \A q \in Clients : q \in x.votes => q \in s.votes
    BY <1>1 DEF Moves, Hosting, Clients, Remotes
  <2>2. \A q \in Clients : net'[<<q, Host>>] = net[<<q, Host>>]
    BY <1>1 DEF Talks, Clients
  <2>3. \A q \in Clients : /\ Says(net', q, "vote") => Says(net, q, "vote")
                           /\ Says(net, q, "start") => Says(net', q, "start")
    BY <2>2 DEF Says
  <2> QED
    BY <1>1, <2>1, <2>3, HostSteps
<1>2. CASE p # Host
  <2>1. p \in Clients /\ t = x
    BY <1>2 DEF Clients, Completed, SkipReady
  <2>2. Good(t) /\ Onward(p, machine[p], t)
    BY <2>1 DEF Moves
  <2> QED
    BY <2>1, <2>2, ClientSteps DEF Talks
<1> QED
  BY <1>1, <1>2

\* The invariant says of every machine what the lemmas need.
LEMMA Known ==
  ASSUME IInv, UInv, NEW p \in Players
  PROVE  /\ TypeOK /\ net \in Queues /\ Sane(p, machine[p]) /\ Agree(machine[p])
         /\ Part(p, machine[p]) /\ Good(machine[p]) /\ In(Host)
  BY DEF IInv, TypeOK, UInv, Part, Queues, Sane

\* After a step the machine that took it still agrees.
LEMMA StillAgrees ==
  ASSUME IInv, IInv', NEW p \in Players, NEW t, machine' = [machine EXCEPT ![p] = t]
  PROVE  Agree(t) /\ machine'[p] = t
<1>1. machine'[p] = t
  BY DEF IInv, TypeOK
<1>2. Agree(machine[p])'
  BY DEF IInv, Sane
<1> QED
  BY <1>1, <1>2 DEF Agree

\* The game starts a scene.
LEMMA UStart ==
  ASSUME OneScene, IInv, UInv, IInv', NEW p \in Players, StartScene(p)
  PROVE  UInv' /\ Unanimous
<1> DEFINE s == machine[p]
<1>1. PICK scene \in Scenes \ {s.last} :
        /\ machine' = [machine EXCEPT ![p] = Registered(p, Spawned(s, scene))]
        /\ net' = Announced(net, p, Spawned(s, scene))
  BY DEF StartScene
<1> DEFINE u == Spawned(s, scene)
           t == Registered(p, u)
<1>2. In(p) /\ s.scene = None /\ conn' = conn
  BY DEF StartScene
<1>3. TypeOK /\ net \in Queues /\ Sane(p, s) /\ Agree(s) /\ Part(p, s) /\ Good(s) /\ In(Host)
  BY Known
<1>4. Agree(t)
  BY <1>1, StillAgrees
<1>5. Moves(p, s, t) /\ (InCohort(t) => MustRegister(p, u))
  BY <1>2, <1>3, StartedMoves DEF Part
<1>6. MustRegister(p, u) => Event("start", u.scene) \in Events
  <2>1. Agree(u)
    BY <1>3, SpawnedAgrees
  <2> QED
    BY <2>1 DEF MustRegister, Agree, Machine, Event, Events
<1> HIDE DEF s, t, u
<1>7. ASSUME NEW q \in Clients, NEW type
      PROVE  /\ q # p => net'[<<q, Host>>] = net[<<q, Host>>]
             /\ Says(net, q, type) => Says(net', q, type)
             /\ Says(net', q, type) => Says(net, q, type) \/ type = "start"
             /\ MustRegister(p, u) /\ q = p /\ type = "start" => Says(net', q, type)
  <2>1. net' = Sent(net, p, MustRegister(p, u), Event("start", u.scene))
    BY <1>1 DEF Announced, s, u
  <2>2. Event("start", u.scene).type = "start"
    BY DEF Event
  <2> QED
    BY <1>2, <1>3, <1>6, <2>1, <2>2, SentSays
<1>8. Talks(p, s, t)
  BY <1>5, <1>7 DEF Talks
<1> QED
  BY <1>1, <1>2, <1>3, <1>4, <1>5, <1>8, OwnStep DEF s, t, u

\* A player presses skip.
LEMMA UPress ==
  ASSUME OneScene, IInv, UInv, IInv', NEW p \in Players, PressSkip(p)
  PROVE  UInv' /\ Unanimous
<1> DEFINE s == machine[p]
           votes == MayVote(p, s, p, s.scene)
           x == IF votes THEN Voted(p, s, p) ELSE s
           n == Sent(net, p, votes, Event("vote", s.scene))
<1>1. /\ s.scene # None /\ ~s.aborted
      /\ machine' = [machine EXCEPT ![p] = Completed(p, x)]
      /\ net' = Skipped(n, p, x)
      /\ conn' = conn
  BY DEF PressSkip
<1>2. TypeOK /\ net \in Queues /\ Sane(p, s) /\ Agree(s) /\ Part(p, s) /\ Good(s) /\ In(Host)
  BY Known
<1>3. Agree(Completed(p, x))
  BY <1>1, StillAgrees
<1>4. In(p) /\ s.scene \in Scenes
  BY <1>1, <1>2 DEF Part, Agree, Machine
<1>5. Agree(x) /\ Moves(p, s, x) /\ (votes => p \in x.votes /\ x.last # None)
  <2>1. CASE votes
    <3>1. Sane(p, Voted(p, s, p))
      BY <1>1, <1>2, <2>1, VotedSane DEF PressSkip
    <3>2. Agree(Voted(p, s, p))
      BY <3>1 DEF Sane
    <3> QED
      BY <1>1, <1>2, <2>1, <3>2, OwnVoteMoves
  <2>2. CASE ~votes
    BY <1>2, <2>2, SameMoves
  <2> QED
    BY <2>1, <2>2
<1>6. Event("vote", s.scene) \in Events /\ Event("vote", s.scene).type = "vote"
  BY <1>4 DEF Event, Events
<1> HIDE DEF s, votes, x
<1>7. n \in Queues
  BY <1>2, <1>6, SentTyped
<1>8. SkipReady(p, x) => Event("skip", x.name) \in Events
  BY <1>2, <1>5, SkippedTyped
<1>9. ASSUME NEW q \in Clients, NEW type, type # "skip"
      PROVE  /\ q # p => net'[<<q, Host>>] = net[<<q, Host>>]
             /\ Says(net, q, type) => Says(net', q, type)
             /\ Says(net', q, type) => Says(net, q, type) \/ (votes /\ type = "vote")
  <2>1. /\ q # p => n[<<q, Host>>] = net[<<q, Host>>]
        /\ Says(net, q, type) => Says(n, q, type)
        /\ Says(n, q, type) => Says(net, q, type) \/ (votes /\ type = "vote")
    BY <1>2, <1>6, SentSays
  <2> HIDE DEF n
  <2>2. net' = Sent(n, p, SkipReady(p, x), Event("skip", x.name))
    BY <1>1 DEF Skipped
  <2>3. Event("skip", x.name).type = "skip"
    BY DEF Event
  <2>4. /\ q # p => net'[<<q, Host>>] = n[<<q, Host>>]
        /\ Says(n, q, type) => Says(net', q, type)
        /\ Says(net', q, type) => Says(n, q, type)
    BY <1>7, <1>8, <1>9, <2>2, <2>3, SentSays
  <2> QED
    BY <2>1, <2>4
<1>10. Watching(s)
  BY <1>1 DEF Watching
<1>11. Talks(p, s, x)
  <2>1. ASSUME NEW q \in Clients \ {p} PROVE net'[<<q, Host>>] = net[<<q, Host>>]
    <3>1. q \in Clients /\ q # p /\ "start" # "skip"
      OBVIOUS
    <3> QED
      BY <1>9, <3>1
  <2>2. ASSUME p \in Clients
        PROVE  /\ Says(net, p, "start") => Says(net', p, "start")
               /\ Says(net', p, "vote") => Says(net, p, "vote") \/ votes
    <3>1. "start" # "skip" /\ "vote" # "skip"
      OBVIOUS
    <3>2. Says(net, p, "start") => Says(net', p, "start")
      BY <1>9, <2>2, <3>1
    <3>3. Says(net', p, "vote") => Says(net, p, "vote") \/ votes
      BY <1>9, <2>2, <3>1
    <3> QED
      BY <3>2, <3>3
  <2> QED
    BY <1>5, <1>10, <2>1, <2>2 DEF Talks
<1> QED
  BY <1>1, <1>2, <1>3, <1>4, <1>5, <1>11, OwnStep DEF s, x

\* A scene is over.
LEMMA UEnds ==
  ASSUME OneScene, IInv, UInv, IInv', NEW p \in Players, SceneEnds(p)
  PROVE  UInv' /\ Unanimous
<1> DEFINE s == machine[p]
           t == [s EXCEPT !.scene = None, !.aborted = FALSE]
<1>1. TypeOK /\ net \in Queues /\ Sane(p, s) /\ Agree(s) /\ Part(p, s) /\ Good(s) /\ In(Host)
  BY Known
<1>2. /\ s.scene # None /\ net' = net /\ conn' = conn
      /\ machine' = [machine EXCEPT ![p] = t]
  BY DEF SceneEnds, IInv, TypeOK
<1>3. In(p) /\ s \in Machine
  BY <1>1, <1>2 DEF Part, Agree
<1>4. t.scene = None
  BY <1>3 DEF Machine
<1> HIDE DEF s, t
<1>5. Agree(t)
  BY <1>2, StillAgrees, Zenon
<1>6. Moves(p, s, t)
  BY <1>1, <1>2, <1>5, EndsMoves, Zenon DEF t
<1>7. Talks(p, s, t)
  BY <1>2, <1>4 DEF Talks, InCohort, Watching
<1> QED
  BY <1>1, <1>2, <1>3, <1>5, <1>6, <1>7, OwnStep DEF s

\* A frame: every stage of it keeps what the step must keep, and a scene that
\* it begins to watch is registered, and so announced, in the same frame.
LEMMA UFrame ==
  ASSUME OneScene, IInv, UInv, IInv', NEW p \in Players, Frame(p)
  PROVE  UInv' /\ Unanimous
<1> DEFINE s == machine[p]
           s0 == [s EXCEPT !.new = FALSE]
<1>1. PICK s1 \in PendingDone(p, s0) :
      \E s2 \in {Registered(p, s1)} : \E s3 \in {Reconciled(p, s2)} :
      \E s4 \in {Replayed(p, s3)} : \E s5 \in Ended(p, s4) :
        /\ machine' = [machine EXCEPT ![p] = Completed(p, s5)]
        /\ net' = Skipped(Sent(Announced(net, p, s1), p, Replays(p, s3),
                               Event("start", s3.name)), p, s5)
  BY DEF Frame
<1> DEFINE s2 == Registered(p, s1)
           s3 == Reconciled(p, s2)
           s4 == Replayed(p, s3)
           n1 == Announced(net, p, s1)
           n2 == Sent(n1, p, Replays(p, s3), Event("start", s3.name))
<1>2. PICK s5 \in Ended(p, s4) :
        /\ machine' = [machine EXCEPT ![p] = Completed(p, s5)]
        /\ net' = Skipped(n2, p, s5)
  BY <1>1
<1>3. TypeOK /\ net \in Queues /\ Sane(p, s) /\ Agree(s) /\ Part(p, s) /\ Good(s) /\ In(Host)
  BY Known
<1>4. In(p) /\ conn' = conn
  BY DEF Frame
<1>5. Agree(Completed(p, s5))
  BY <1>2, StillAgrees
<1>6. /\ Agree(s0) /\ s0.scene = s.scene /\ s0.aborted = s.aborted /\ s0.last = s.last
      /\ s0.phase = s.phase /\ s0.entered = s.entered /\ s0.votes = s.votes
      /\ s0.latched = s.latched /\ s0.known = s.known
  BY <1>3 DEF Agree, Machine
<1> HIDE DEF s, s0
<1>7. Moves(p, s, s0) /\ Good(s0)
  BY <1>3, <1>6, SameMoves DEF Moves
<1>8. Agree(s1) /\ Done(s1) /\ Moves(p, s0, s1) /\ s1.entered = s.entered /\ Good(s1)
  BY <1>6, <1>7, PendingDoneSettles, PendingDoneMoves DEF Moves
<1>9. Agree(s2) /\ Done(s2)
  BY <1>8, RegisteredAgrees DEF Done, Agree
<1>10. Moves(p, s1, s2) /\ Good(s2)
  BY <1>8, RegisteredMoves DEF Moves
<1> HIDE DEF s2
<1>11. Agree(s3) /\ Done(s3) /\ (p \in s3.votes => s3.scene = s3.name)
  BY <1>9, ReconciledSettles
<1>12. Moves(p, s2, s3) /\ Good(s3) /\ s3.scene = s2.scene /\ s3.aborted = s2.aborted
  BY <1>4, <1>10, <1>11, ReconciledMoves DEF Moves
<1> HIDE DEF s3
<1>13. Agree(s4) /\ Done(s4) /\ (p \in s4.votes => s4.scene = s4.name)
  BY <1>11, ReplayedSettles
<1>14. Moves(p, s3, s4) /\ Good(s4)
  BY <1>12, <1>13, ReplayedMoves DEF Moves
<1> HIDE DEF s4
<1>15. Agree(s5)
  BY <1>13, EndedSettles
<1>16. Moves(p, s4, s5)
  BY <1>14, <1>15, EndedMoves
<1>17. Moves(p, s1, s5)
  <2>1. Moves(p, s1, s3)
    BY <1>8, <1>10, <1>12, MovesOn
  <2>2. Moves(p, s1, s4)
    BY <1>8, <1>14, <2>1, MovesOn
  <2> QED
    BY <1>8, <1>16, <2>2, MovesOn
<1>18. Moves(p, s, s1)
  BY <1>3, <1>7, <1>8, MovesOn
<1>19. Moves(p, s, s5)
  BY <1>3, <1>17, <1>18, MovesOn
<1>20. InCohort(s5) => Watching(s) \/ MustRegister(p, s1)
  <2> SUFFICES ASSUME InCohort(s5), ~Watching(s) PROVE MustRegister(p, s1)
    OBVIOUS
  <2>1. s.last = None /\ s.scene = None
    BY <1>3, <1>19 DEF Moves, Onward, InCohort, Agree
  <2>2. p \notin s1.entered
    BY <1>3, <1>8, <2>1 DEF Part
  <2>3. Watching(s1) \/ s1.last = None
    BY <1>17 DEF Moves, Onward, InCohort
  <2>4. s1.scene = s5.scene /\ s1.aborted = s5.aborted
    <3>1. s2.scene = s1.scene /\ s2.aborted = s1.aborted
      BY <1>8, RegisteredAgrees DEF s2
    <3>2. s4.scene = s3.scene /\ s4.aborted = s3.aborted
      BY <1>11 DEF s4, Replayed, Agree, Machine
    <3>3. s5.scene = s4.scene /\ s5.aborted = s4.aborted
      <4>1. s5 = s4 \/ s5 = Reset(s4)
        BY DEF Ended
      <4>2. Reset(s4).scene = s4.scene /\ Reset(s4).aborted = s4.aborted
        BY <1>13 DEF Reset, Agree, Machine
      <4> QED
        BY <4>1, <4>2
    <3> QED
      BY <1>12, <3>1, <3>2, <3>3
  <2>5. Watching(s1)
    BY <2>4 DEF InCohort, Watching
  <2>6. InCohort(s1)
    BY <1>17, <2>5 DEF Moves, Onward
  <2>7. s1.phase = "active" /\ s1.scene \in Scenes /\ s1.name \in Scenes /\ ~s1.aborted
    BY <1>8, <2>5, <2>6 DEF InCohort, Watching, Agree, Machine
  <2>8. Ensured(s1, s1.scene) = s1
    BY <2>7 DEF Ensured
  <2> QED
    BY <1>4, <2>2, <2>5, <2>7, <2>8 DEF MustRegister, Concerns, Watching, OneScene
<1>21. n1 \in Queues /\ (MustRegister(p, s1) => Event("start", s1.scene) \in Events)
  <2>1. MustRegister(p, s1) => Event("start", s1.scene) \in Events
    BY <1>8 DEF MustRegister, Agree, Machine, Event, Events
  <2> QED
    BY <1>3, <1>8, <2>1, AnnouncedTyped
<1>22. ASSUME NEW q \in Clients, NEW type
       PROVE  /\ q # p => n1[<<q, Host>>] = net[<<q, Host>>]
              /\ Says(net, q, type) => Says(n1, q, type)
              /\ Says(n1, q, type) => Says(net, q, type) \/ type = "start"
              /\ MustRegister(p, s1) /\ q = p /\ type = "start" => Says(n1, q, type)
  <2>1. n1 = Sent(net, p, MustRegister(p, s1), Event("start", s1.scene))
    BY DEF Announced
  <2>2. Event("start", s1.scene).type = "start"
    BY DEF Event
  <2> HIDE DEF n1
  <2> QED
    BY <1>3, <1>4, <1>21, <2>1, <2>2, SentSays
<1>23. Replays(p, s3) => Event("start", s3.name) \in Events
  BY <1>11 DEF Replays, Agree, Event, Events
<1> HIDE DEF n1
<1>24. n2 \in Queues
  BY <1>21, <1>23, SentTyped
<1>25. ASSUME NEW q \in Clients, NEW type
       PROVE  /\ q # p => n2[<<q, Host>>] = n1[<<q, Host>>]
              /\ Says(n1, q, type) => Says(n2, q, type)
              /\ Says(n2, q, type) => Says(n1, q, type) \/ type = "start"
  <2>1. Event("start", s3.name).type = "start"
    BY DEF Event
  <2> QED
    BY <1>21, <1>23, <2>1, SentSays
<1> HIDE DEF n2
<1>26. ASSUME NEW q \in Clients, NEW type
       PROVE  /\ q # p => net'[<<q, Host>>] = n2[<<q, Host>>]
              /\ Says(n2, q, type) => Says(net', q, type)
              /\ Says(net', q, type) => Says(n2, q, type) \/ type = "skip"
  <2>1. SkipReady(p, s5) => Event("skip", s5.name) \in Events
    BY <1>15, <1>24, SkippedTyped
  <2>2. net' = Sent(n2, p, SkipReady(p, s5), Event("skip", s5.name))
    BY <1>2 DEF Skipped
  <2>3. Event("skip", s5.name).type = "skip"
    BY DEF Event
  <2> QED
    BY <1>24, <2>1, <2>2, <2>3, SentSays
<1>27. Talks(p, s, s5)
  <2>1. ASSUME NEW q \in Clients \ {p} PROVE net'[<<q, Host>>] = net[<<q, Host>>]
    <3>1. q \in Clients /\ q # p
      OBVIOUS
    <3> QED
      BY <1>22, <1>25, <1>26, <3>1
  <2>2. ASSUME p \in Clients
        PROVE  /\ Says(net, p, "start") => Says(net', p, "start")
               /\ Says(net', p, "vote") => Says(net, p, "vote")
               /\ MustRegister(p, s1) => Says(net', p, "start")
    <3>1. "vote" # "start" /\ "vote" # "skip"
      OBVIOUS
    <3>2. Says(net, p, "start") => Says(net', p, "start")
      BY <1>22, <1>25, <1>26, <2>2
    <3>3. Says(net', p, "vote") => Says(net, p, "vote")
      BY <1>22, <1>25, <1>26, <2>2, <3>1
    <3>4. MustRegister(p, s1) => Says(net', p, "start")
      BY <1>22, <1>25, <1>26, <2>2
    <3> QED
      BY <3>2, <3>3, <3>4
  <2> QED
    BY <1>20, <2>1, <2>2 DEF Talks
<1> QED
  BY <1>2, <1>3, <1>4, <1>5, <1>19, <1>27, OwnStep DEF s

\* A state of another player changes no part in the scene.
LEMMA UState ==
  ASSUME OneScene, IInv, UInv, IInv', NEW p \in Players, NEW q \in Remotes(p),
         StateArrives(p, q)
  PROVE  UInv' /\ Unanimous
<1> DEFINE s == machine[p]
           playing == IF machine[q].scene # None THEN s.playing \cup {q} ELSE s.playing \ {q}
           t == [s EXCEPT !.known = @ \cup {q}, !.playing = playing]
<1>1. TypeOK /\ net \in Queues /\ Sane(p, s) /\ Agree(s) /\ Part(p, s) /\ Good(s) /\ In(Host)
  BY Known
<1>2. net' = net /\ conn' = conn /\ machine' = [machine EXCEPT ![p] = t]
  <2>1. machine' = [machine EXCEPT ![p].known = @ \cup {q}, ![p].playing = playing]
    BY <1>1 DEF StateArrives, TypeOK
  <2> HIDE DEF playing
  <2>2. machine' = [machine EXCEPT ![p] = t]
    BY <1>1, <2>1 DEF TypeOK
  <2> QED
    BY <2>2 DEF StateArrives
<1> HIDE DEF playing
<1>3. /\ t.scene = s.scene /\ t.aborted = s.aborted /\ t.last = s.last /\ t.phase = s.phase
      /\ t.entered = s.entered /\ t.votes = s.votes /\ t.latched = s.latched
      /\ s.known \subseteq t.known
  BY <1>1 DEF Agree, Machine
<1> HIDE DEF s, t
<1>4. Agree(t)
  BY <1>2, StillAgrees
<1>5. Moves(p, s, t)
  BY <1>1, <1>3, <1>4, SameMoves
<1>6. Talks(p, s, t)
  BY <1>2, <1>3 DEF Talks, InCohort, Watching
<1>7. In(p) \/ (t.scene = None /\ t.last = None)
  BY <1>1, <1>3 DEF Part
<1> QED
  BY <1>1, <1>2, <1>4, <1>5, <1>6, <1>7, OwnStep DEF s

\* An event that the host handles is a start that counts from then on, or a vote
\* of its sender; one that a client handles leaves its own part alone.
LEMMA UHandle ==
  ASSUME OneScene, IInv, UInv, IInv', NEW p \in Players, NEW q \in Remotes(p), Handle(p, q)
  PROVE  UInv' /\ Unanimous
<1> DEFINE e == Head(net[<<q, p>>])
           s == machine[p]
           x == CASE e.type = "start" -> StartHeard(s, q, e.scene)
                  [] e.type = "skip" -> SkipHeard(s, q, e.scene)
                  [] e.type = "vote" -> VoteHeard(p, s, q, e.scene)
           done == e.type = "vote" /\ q \in s.known
           skips == done /\ SkipReady(p, x)
           sent == Sent(net, p, skips, Event("skip", x.name))
<1>1. /\ net[<<q, p>>] # <<>>
      /\ machine' = [machine EXCEPT ![p] = IF done THEN Completed(p, x) ELSE x]
      /\ net' = [sent EXCEPT ![<<q, p>>] = Tail(@)]
      /\ In(p) /\ conn' = conn
  BY Zenon DEF Handle
<1>2. q \in Players /\ q # p /\ <<q, p>> \in Players \X Players
  BY DEF Remotes
<1> HIDE DEF x, done, skips, sent
<1> DEFINE t == IF done THEN Completed(p, x) ELSE x
<1>0. machine' = [machine EXCEPT ![p] = t]
  BY <1>1
<1>3. TypeOK /\ net \in Queues /\ Sane(p, s) /\ Agree(s) /\ Part(p, s) /\ Good(s) /\ In(Host)
  BY Known
<1>4. net[<<q, p>>] \in Seq(Events)
  BY <1>2, <1>3 DEF Queues
<1>5. e \in Events /\ e \in ToSet(net[<<q, p>>])
  <2> DEFINE queue == net[<<q, p>>]
  <2>1. queue \in Seq(Events) /\ queue # <<>>
    BY <1>1, <1>4
  <2> HIDE DEF queue
  <2>2. Head(queue) \in Events /\ Head(queue) \in ToSet(queue)
    BY <2>1, TailSays
  <2> QED
    BY <2>2 DEF queue
<1> HIDE DEF e, s
<1>6. e.scene \in Scenes /\ (e.type = "start" \/ e.type = "skip" \/ e.type = "vote")
  BY <1>5 DEF Events
<1>7. Agree(x)
  <2>1. CASE e.type = "start"
    BY <1>3, <1>6, <2>1, StartHeardSane DEF x, Sane
  <2>2. CASE e.type = "skip"
    BY <1>3, <1>6, <2>2, SkipHeardSane DEF x, Sane
  <2>3. CASE e.type = "vote"
    BY <1>3, <1>6, <2>3, VoteHeardSane DEF x, Sane
  <2> QED
    BY <1>6, <2>1, <2>2, <2>3
<1>8. /\ e.type = "start" => x = StartHeard(s, q, e.scene)
      /\ e.type = "skip" => x = SkipHeard(s, q, e.scene)
      /\ e.type = "vote" => x = VoteHeard(p, s, q, e.scene)
  BY DEF x
<1>9. Takes(p, s, x)
  <2>1. CASE e.type = "start"
    BY <1>3, <1>6, <1>7, <1>8, <2>1, StartHeardMoves
  <2>2. CASE e.type = "skip"
    BY <1>3, <1>6, <1>7, <1>8, <2>2, SkipHeardMoves
  <2>3. CASE e.type = "vote"
    BY <1>3, <1>6, <1>7, <1>8, <2>3, VoteHeardMoves
  <2> QED
    BY <1>6, <2>1, <2>2, <2>3
<1> HIDE DEF t
<1>10. Agree(t)
  BY <1>0, StillAgrees, Zenon
<1>11. t = x \/ (p = Host /\ t = Completed(p, x))
  BY DEF t, Completed, SkipReady
<1>12. skips => Event("skip", x.name) \in Events
  BY <1>3, <1>7, SkippedTyped DEF skips
<1>13. ASSUME NEW r \in Clients, NEW type
       PROVE  /\ r # p => sent[<<r, Host>>] = net[<<r, Host>>]
              /\ p # Host => (Says(sent, r, type) <=> Says(net, r, type))
  <2>1. p # Host => ~skips
    BY DEF skips, SkipReady
  <2> QED
    BY <1>3, <1>12, <2>1, SentSays DEF sent
<1>14. sent \in Queues
  BY <1>3, <1>12, SentTyped DEF sent
<1>15. \A pq \in Players \X Players :
         net'[pq] = IF pq = <<q, p>> THEN Tail(sent[pq]) ELSE sent[pq]
  BY <1>1, <1>14 DEF Queues
<1>16. CASE p # Host
  <2>1. p \in Clients /\ t = x
    BY <1>11, <1>16 DEF Clients
  <2>2. ASSUME NEW r \in Clients PROVE net'[<<r, Host>>] = sent[<<r, Host>>]
    <3>1. <<r, Host>> \in Players \X Players /\ <<r, Host>> # <<q, p>>
      BY <1>16, PlayersAssumption DEF Clients
    <3> QED
      BY <1>15, <3>1
  <2>3. ASSUME NEW type PROVE Says(net', p, type) <=> Says(net, p, type)
    <3>1. Says(net', p, type) <=> Says(sent, p, type)
      BY <2>1, <2>2 DEF Says
    <3> QED
      BY <1>13, <1>16, <2>1, <3>1
  <2>4. Says(net, p, "start") => Says(net', p, "start")
    BY <2>3
  <2>5. Says(net', p, "vote") => Says(net, p, "vote")
    BY <2>3
  <2>6. \A r \in Clients \ {p} : net'[<<r, Host>>] = net[<<r, Host>>]
    BY <1>13, <2>2
  <2>7. ~(InCohort(t) /\ ~Watching(s))
    BY <1>9, <2>1 DEF Takes, InCohort
  <2>8. Good(t) /\ Onward(p, s, t)
    BY <1>9, <2>1 DEF Takes
  <2> QED
    BY <1>0, <1>1, <1>2, <1>3, <2>1, <2>4, <2>5, <2>6, <2>7, <2>8, ClientSteps DEF s
<1>17. CASE p = Host
  <2>1. q \in Clients
    BY <1>2, <1>17 DEF Clients
  <2>2. Remotes(p) = Clients
    BY <1>17 DEF Remotes, Clients
  <2>3. /\ x.phase = "final" => s.phase = "final"
        /\ s.known \subseteq x.known
        /\ \A r \in Clients : Counts(s, r) => Counts(x, r)
        /\ \A r \in Clients : r \in x.votes => r \in s.votes \/ (r = q /\ e.type = "vote")
        /\ e.type = "start" /\ q \in s.known /\ x.phase # "final" => Counts(x, q)
    <3>1. CASE e.type = "start"
      <4>1. Moves(p, s, x) /\ (q \in s.known /\ x.phase # "final" => Counts(x, q))
        BY <1>3, <1>6, <1>7, <1>8, <3>1, StartHeardMoves
      <4> QED
        BY <1>17, <2>2, <3>1, <4>1 DEF Moves, Hosting, Clients
    <3>2. CASE e.type = "skip"
      <4>1. x = s
        BY <1>2, <1>3, <1>7, <1>8, <1>17, <3>2, SkipHeardMoves
      <4> QED
        BY <3>2, <4>1
    <3>3. CASE e.type = "vote"
      <4>1. /\ x.phase = s.phase /\ x.votes \subseteq s.votes \cup {q}
            /\ \A r \in Remotes(p) : Counts(s, r) => Counts(x, r)
            /\ s.known \subseteq x.known
        BY <1>3, <1>6, <1>7, <1>8, <3>3, VoteHeardMoves
      <4> QED
        BY <2>2, <3>3, <4>1
    <3> QED
      BY <1>6, <3>1, <3>2, <3>3
  <2>4. Says(net, q, e.type)
    BY <1>5, <1>17 DEF Says
  <2>5. ASSUME NEW r \in Clients
        PROVE  /\ r # q => net'[<<r, Host>>] = net[<<r, Host>>]
               /\ r = q => net'[<<r, Host>>] = Tail(net[<<r, Host>>])
    <3>1. <<r, Host>> \in Players \X Players /\ r # p
      BY <1>17, PlayersAssumption DEF Clients
    <3>2. sent[<<r, Host>>] = net[<<r, Host>>]
      BY <1>13, <3>1
    <3> QED
      BY <1>15, <1>17, <3>1, <3>2
  <2>6. /\ ToSet(net'[<<q, Host>>]) \subseteq ToSet(net[<<q, Host>>])
        /\ ToSet(net[<<q, Host>>]) \subseteq ToSet(net'[<<q, Host>>]) \cup {e}
    <3> DEFINE queue == net[<<q, Host>>]
    <3>1. queue \in Seq(Events) /\ queue # <<>> /\ e = Head(queue)
      BY <1>1, <1>4, <1>17 DEF e
    <3>2. net'[<<q, Host>>] = Tail(queue)
      BY <2>1, <2>5
    <3> HIDE DEF queue
    <3>3. /\ ToSet(Tail(queue)) \subseteq ToSet(queue)
          /\ ToSet(queue) \subseteq ToSet(Tail(queue)) \cup {Head(queue)}
      BY <3>1, TailSays
    <3> QED
      BY <3>1, <3>2, <3>3 DEF queue
  <2>7. ASSUME NEW r \in Clients, NEW type
        PROVE  /\ Says(net', r, type) => Says(net, r, type)
               /\ Says(net, r, type) => Says(net', r, type) \/ (r = q /\ type = e.type)
    <3>1. CASE r # q
      BY <2>5, <3>1 DEF Says
    <3>2. CASE r = q
      BY <2>6, <3>2 DEF Says
    <3> QED
      BY <3>1, <3>2
  <2>8. \A r \in Clients : r \in x.votes => r \in s.votes \/ Says(net, r, "vote")
    BY <2>3, <2>4
  <2>9. \A r \in Clients : Says(net', r, "vote") => Says(net, r, "vote")
    BY <2>7
  <2>10. \A r \in Clients :
           Says(net, r, "start") /\ r \in s.known /\ x.phase # "final" =>
             Says(net', r, "start") \/ Counts(x, r)
    <3> SUFFICES ASSUME NEW r \in Clients, Says(net, r, "start"), r \in s.known,
                        x.phase # "final", ~Says(net', r, "start")
                 PROVE  Counts(x, r)
      OBVIOUS
    <3>1. r = q /\ e.type = "start"
      BY <2>7
    <3> QED
      BY <2>3, <3>1
  <2>11. Good(x) /\ Onward(p, s, x)
    BY <1>9 DEF Takes
  <2> QED
    BY <1>0, <1>1, <1>3, <1>10, <1>11, <1>17, <2>3, <2>8, <2>9, <2>10, <2>11, HostSteps DEF s
<1> QED
  BY <1>16, <1>17

\* Who has left watches nothing, so that forgetting it changes nobody's part.
LEMMA UForgets ==
  ASSUME OneScene, IInv, UInv, IInv', NEW p \in Players, NEW q \in Remotes(p), Forgets(p, q)
  PROVE  UInv' /\ Unanimous
<1> DEFINE s == machine[p]
           t == [s EXCEPT !.known = @ \ {q}, !.playing = @ \ {q}, !.latched = @ \ {q}]
<1>1. TypeOK /\ net \in Queues /\ Sane(p, s) /\ Agree(s) /\ Part(p, s) /\ Good(s) /\ In(Host)
  BY Known
<1>2. machine' = [machine EXCEPT ![p] = t]
  BY DEF Forgets, IInv, TypeOK
<1>3. /\ conn[q] = "left" /\ conn' = conn /\ net' = [net EXCEPT ![<<q, p>>] = <<>>]
      /\ q \in Players /\ q # p
  BY DEF Forgets, Remotes
<1>4. /\ t.scene = s.scene /\ t.aborted = s.aborted /\ t.last = s.last /\ t.phase = s.phase
      /\ t.entered = s.entered /\ t.votes = s.votes /\ t.latched = s.latched \ {q}
      /\ t.known = s.known \ {q}
  BY <1>1 DEF Agree, Machine
<1> HIDE DEF s, t
<1>5. Agree(t) /\ machine'[p] = t
  BY <1>2, StillAgrees
<1>6. Watching(t) = Watching(s) /\ InCohort(t) = InCohort(s)
  BY <1>4 DEF Watching, InCohort
<1>7. Good(t) /\ Onward(p, s, t) /\ Part(p, t)
  BY <1>1, <1>4, <1>5, <1>6 DEF Good, Onward, Part
<1>8. ASSUME NEW r \in Clients
      PROVE  r # q \/ p # Host => net'[<<r, Host>>] = net[<<r, Host>>]
  <2>1. <<r, Host>> \in Players \X Players
    BY PlayersAssumption DEF Clients
  <2>2. r # q \/ p # Host => <<r, Host>> # <<q, p>>
    OBVIOUS
  <2> QED
    BY <1>1, <1>3, <2>1, <2>2 DEF Queues
<1>9. CASE p # Host
  <2>1. p \in Clients
    BY <1>9 DEF Clients
  <2>2. \A r \in Clients \ {p} : net'[<<r, Host>>] = net[<<r, Host>>]
    BY <1>8, <1>9
  <2>3. net'[<<p, Host>>] = net[<<p, Host>>]
    BY <1>8, <1>9, <2>1
  <2>4. /\ Says(net, p, "start") => Says(net', p, "start")
        /\ Says(net', p, "vote") => Says(net, p, "vote")
    BY <2>3 DEF Says
  <2>5. In(p) \/ (t.scene = None /\ t.last = None)
    BY <1>1, <1>4 DEF Part
  <2>6. ~(InCohort(t) /\ ~Watching(s))
    BY <1>6 DEF InCohort
  <2> QED
    BY <1>1, <1>2, <1>3, <1>7, <2>1, <2>2, <2>4, <2>5, <2>6, ClientSteps DEF s
<1>10. CASE p = Host
  <2>1. /\ machine'[Host] = t
        /\ \A r \in Players \ {Host} : machine'[r] = machine[r]
    BY <1>1, <1>2, <1>10 DEF TypeOK
  <2>2. MaySkip(t) = MaySkip(s)
    BY <1>4, <1>6 DEF MaySkip
  <2>3. MaySkip(t) => t.phase # "final"
    BY <1>4, <1>10, <2>2 DEF UInv, s
  <2>4. \A r \in Players : Part(r, machine'[r])
    BY <1>7, <1>10, <2>1 DEF UInv
  <2>5. ASSUME NEW r \in Clients PROVE Agreed(r, t, machine[r], net')
    <3>1. Agreed(r, s, machine[r], net) /\ Part(r, machine[r])
      BY <1>10 DEF UInv, Clients, s
    <3>2. CASE r = q
      <4>1. ~In(r) /\ conn[r] = "left"
        BY <1>3, <3>2 DEF In
      <4>2. ~InCohort(machine[r])
        BY <3>1, <4>1 DEF Part, InCohort, Watching
      <4> QED
        BY <4>1, <4>2 DEF Agreed
    <3>3. CASE r # q
      <4>1. \A type : Says(net', r, type) <=> Says(net, r, type)
        BY <1>8, <3>3 DEF Says
      <4>2. Counts(s, r) => Counts(t, r)
        BY <1>4, <3>3 DEF Counts
      <4>3. In(r) => r \in t.known
        BY <1>4, <3>1, <3>3 DEF Agreed
      <4>4. Says(net', r, "start") <=> Says(net, r, "start")
        BY <4>1
      <4>5. Says(net', r, "vote") <=> Says(net, r, "vote")
        BY <4>1
      <4> QED
        BY <1>4, <2>2, <3>1, <4>2, <4>3, <4>4, <4>5 DEF Agreed
    <3> QED
      BY <3>2, <3>3
  <2>6. \A r \in Clients : Agreed(r, machine'[Host], machine'[r], net')
    BY <2>1, <2>5 DEF Clients
  <2>7. UInv'
    BY <1>1, <1>3, <2>1, <2>3, <2>4, <2>6 DEF UInv, In, Part, Agreed, Good, Agree, Watching,
       MaySkip, Counts, InCohort, Says
  <2> QED
    BY <1>4, <1>10, <2>1, <2>7 DEF Unanimous, s
<1> QED
  BY <1>9, <1>10

\* Whoever connects is not yet in the game, and whoever has loaded is known.
LEMMA UComes ==
  ASSUME OneScene, IInv, UInv, NEW c \in Players, Connects(c) \/ Loaded(c)
  PROVE  UInv' /\ Unanimous
<1>1. machine' = machine /\ net' = net /\ conn \in [Players -> {"away", "loading", "in", "left"}]
  BY DEF Connects, Loaded, IInv, TypeOK
<1>2. ASSUME NEW q \in Players
      PROVE  /\ In(q) => conn'[q] = "in"
             /\ conn'[q] = "in" => In(q) \/ q \in machine[Host].known
             /\ conn'[q] = "left" <=> conn[q] = "left"
  BY <1>1 DEF Connects, Loaded, In
<1>3. ASSUME NEW q \in Players PROVE Part(q, machine[q])'
  <2>1. Part(q, machine[q])
    BY DEF UInv
  <2> QED
    BY <1>1, <1>2, <2>1 DEF Part, In, Good, Agree, Watching
<1>4. ASSUME NEW q \in Clients PROVE Agreed(q, machine[Host], machine[q], net)'
  <2>1. Agreed(q, machine[Host], machine[q], net) /\ q \in Players
    BY DEF UInv, Clients
  <2> QED
    BY <1>1, <1>2, <2>1 DEF Agreed, In, MaySkip, Counts, InCohort, Watching, Says
<1>5. In(Host)'
  BY <1>2, PlayersAssumption DEF UInv, In
<1>6. (MaySkip(machine[Host]) => machine[Host].phase # "final")'
  BY <1>1 DEF UInv, MaySkip, Watching
<1>7. UInv'
  BY <1>3, <1>4, <1>5, <1>6 DEF UInv
<1> QED
  BY <1>1, <1>7 DEF Unanimous

\* Whoever leaves has no part any more.
LEMMA ULeaves ==
  ASSUME OneScene, IInv, UInv, NEW c \in Players, Leaves(c)
  PROVE  UInv' /\ Unanimous
<1>1. /\ c # Host /\ machine \in [Players -> Machine]
      /\ conn \in [Players -> {"away", "loading", "in", "left"}]
      /\ conn' = [conn EXCEPT ![c] = "left"] /\ machine' = [machine EXCEPT ![c] = Fresh]
      /\ net' = [pq \in Players \X Players |-> IF pq[2] = c THEN <<>> ELSE net[pq]]
  BY DEF Leaves, IInv, TypeOK
<1>2. /\ machine'[c] = Fresh /\ conn'[c] = "left"
      /\ \A q \in Players \ {c} : machine'[q] = machine[q] /\ conn'[q] = conn[q]
  BY <1>1
<1>3. ASSUME NEW q \in Clients PROVE net'[<<q, Host>>] = net[<<q, Host>>]
  BY <1>1, PlayersAssumption DEF Clients
<1>4. machine'[Host] = machine[Host] /\ conn'[Host] = conn[Host]
  BY <1>1, <1>2, PlayersAssumption
<1>5. Good(Fresh) /\ Fresh.scene = None /\ Fresh.last = None /\ Fresh.entered = {}
  <2>1. Sane(c, Fresh)
    BY FreshSane
  <2>2. Fresh.scene = None /\ Fresh.last = None /\ Fresh.entered = {}
    BY DEF Fresh
  <2> QED
    BY <2>1, <2>2 DEF Good, Sane, Watching
<1>6. ASSUME NEW q \in Players PROVE Part(q, machine[q])'
  <2>1. CASE q = c
    BY <1>2, <1>5, <2>1 DEF Part, Good, Agree, Watching
  <2>2. CASE q # c
    <3>1. Part(q, machine[q])
      BY DEF UInv
    <3> QED
      BY <1>2, <2>2, <3>1 DEF Part, In, Good, Agree, Watching
  <2> QED
    BY <2>1, <2>2
<1>7. ASSUME NEW q \in Clients PROVE Agreed(q, machine[Host], machine[q], net)'
  <2>1. CASE q = c
    <3>1. conn'[q] = "left" /\ machine'[q] = Fresh
      BY <1>2, <2>1
    <3> HIDE DEF Fresh
    <3> QED
      BY <1>5, <3>1 DEF Agreed, In, InCohort, Watching
  <2>2. CASE q # c
    <3>1. Agreed(q, machine[Host], machine[q], net) /\ q \in Players
      BY DEF UInv, Clients
    <3>2. machine'[q] = machine[q] /\ conn'[q] = conn[q]
      BY <1>2, <2>2, <3>1
    <3> QED
      BY <1>3, <1>4, <3>1, <3>2 DEF Agreed, In, MaySkip, Counts, InCohort, Watching, Says
  <2> QED
    BY <2>1, <2>2
<1>8. In(Host)' /\ (MaySkip(machine[Host]) => machine[Host].phase # "final")'
  BY <1>4 DEF UInv, In, MaySkip, Watching
<1>9. UInv'
  BY <1>6, <1>7, <1>8 DEF UInv
<1> QED
  BY <1>4, <1>9 DEF Unanimous

\* In the beginning nobody watches and nothing is said.
LEMMA UInit == Init => UInv
<1> SUFFICES ASSUME Init PROVE UInv
  OBVIOUS
<1>1. Host \in Players /\ Host \notin Late /\ In(Host)
  BY PlayersAssumption DEF Init, In
<1>2. ASSUME NEW q \in Players
      PROVE  /\ machine[q].scene = None /\ machine[q].last = None /\ machine[q].entered = {}
             /\ machine[q].votes = {} /\ machine[q].phase = "off"
             /\ Agree(machine[q])
             /\ In(q) => q \notin Late
  <2>1. machine[q] = Fresh \/ machine[q] = [Fresh EXCEPT !.known = Players \ (Late \cup {q})]
    BY DEF Init
  <2>2. Agree(machine[q])
    BY InvInit DEF IInv, Sane
  <2>3. In(q) => q \notin Late
    BY DEF Init, In
  <2> QED
    BY <2>1, <2>2, <2>3 DEF Fresh
<1>3. \A q \in Players : Part(q, machine[q])
  BY <1>2 DEF Part, Good, Watching
<1>4. ASSUME NEW q \in Clients PROVE Agreed(q, machine[Host], machine[q], net)
  <2>1. q \in Players /\ q # Host /\ <<q, Host>> \in Players \X Players
    BY <1>1 DEF Clients
  <2>2. net[<<q, Host>>] = <<>>
    BY <2>1 DEF Init
  <2>3. \A type : ~Says(net, q, type)
    BY <2>2 DEF Says, ToSet
  <2>4. ~Says(net, q, "vote")
    BY <2>3
  <2>5. machine[Host].known = Players \ (Late \cup {Host})
    <3>1. machine[Host] = [Fresh EXCEPT !.known = Players \ (Late \cup {Host})]
      BY <1>1 DEF Init
    <3> QED
      BY <3>1 DEF Fresh
  <2>6. In(q) => q \in machine[Host].known
    BY <1>2, <2>1, <2>5
  <2>7. ~InCohort(machine[q]) /\ machine[Host].votes = {}
    BY <1>1, <1>2, <2>1 DEF InCohort, Watching
  <2> QED
    BY <2>4, <2>6, <2>7 DEF Agreed
<1> QED
  BY <1>1, <1>2, <1>3, <1>4 DEF UInv

\* Every step keeps it, and finalizes for everyone who counts.
LEMMA UStep ==
  ASSUME OneScene, IInv, UInv, IInv', [Next]_vars
  PROVE  UInv' /\ Unanimous
<1>1. CASE UNCHANGED vars
  BY <1>1 DEF vars, UInv, In, Part, Agreed, Good, Agree, Watching, MaySkip, Counts,
     InCohort, Says, Unanimous
<1>2. CASE Next
  <2> SUFFICES ASSUME NEW p \in Players,
                      \/ StartScene(p) \/ PressSkip(p) \/ SceneEnds(p) \/ Frame(p)
                      \/ Connects(p) \/ Loaded(p) \/ Leaves(p)
                      \/ \E q \in Remotes(p) :
                           Handle(p, q) \/ StateArrives(p, q) \/ Forgets(p, q)
               PROVE  UInv' /\ Unanimous
    BY <1>2 DEF Next
  <2> QED
    BY UStart, UPress, UEnds, UFrame, UHandle, UState, UForgets, UComes, ULeaves, Zenon
<1> QED
  BY <1>1, <1>2

\* What the host counts on is what is said of those who watch.
LEMMA CountedSays ==
  ASSUME OneScene, TypeOK, NEW scene \in Scenes, NEW q \in Counted(scene)
  PROVE  q \in Clients /\ InCohort(machine[q]) /\ ~Says(net, q, "start")
<1>1. /\ q \in Clients /\ machine[q].scene = scene /\ ~machine[q].aborted
      /\ machine[q].phase = "active"
      /\ Event("start", scene) \notin ToSet(net[<<q, Host>>])
  BY DEF Counted, Watches, Concerns
<1>2. net[<<q, Host>>] \in Seq(Events)
  BY <1>1, PlayersAssumption DEF TypeOK, Clients
<1>3. \A f \in ToSet(net[<<q, Host>>]) : f \in Events
  BY <1>2 DEF ToSet
<1>4. \A f \in Events : f.type = "start" => f = Event("start", scene)
  BY DEF Events, Event, OneScene
<1>5. ~Says(net, q, "start")
  BY <1>1, <1>3, <1>4 DEF Says
<1> QED
  BY <1>1, <1>5, ScenesAssumption DEF InCohort, Watching

\* With one scene, no host finalizes over the head of a player who watches and
\* whose start it has handled, for any number of players who join late, leave,
\* vote and are not heard of in any order.
THEOREM SkipNeedsEveryVote == ASSUME OneScene PROVE Spec => SkipIsUnanimous
<1>1. Init => IInv /\ UInv
  BY InvInit, UInit
<1>2. IInv /\ UInv /\ [Next]_vars => IInv' /\ UInv'
  BY InvStep, UStep
<1>3. IInv /\ UInv /\ [Next]_vars =>
        [\A scene \in Scenes :
           machine[Host].phase # "final" /\ machine'[Host].phase = "final"
             /\ machine[Host].name = scene
           => \A q \in Counted(scene) : q \in machine[q].votes]_vars
  <2> SUFFICES ASSUME IInv, UInv, [Next]_vars,
                      NEW scene \in Scenes,
                      machine[Host].phase # "final", machine'[Host].phase = "final",
                      NEW q \in Counted(scene)
               PROVE  q \in machine[q].votes
    OBVIOUS
  <2>1. Unanimous
    BY InvStep, UStep
  <2>2. q \in Clients /\ InCohort(machine[q]) /\ ~Says(net, q, "start")
    BY CountedSays DEF IInv
  <2> QED
    BY <2>1, <2>2 DEF Unanimous
<1> QED
  BY <1>1, <1>2, <1>3, PTL DEF Spec, SkipIsUnanimous
=============================================================================
