--------------------------- MODULE MCDeathSpectate ---------------------------
(* DeathSpectate for TLC: a host, a guest who may be chased and another     *)
(* guest.                                                                   *)
EXTENDS DeathSpectate

\* What is left of the bounds: two deaths and somebody who leaves or comes, or
\* three deaths of players who stay, and who may all be dead at once.
MCInit ==
  /\ Start
  /\ \/ deaths = 1 /\ journeys = 0
     \/ deaths = 0 /\ journeys = 1 /\ Present = Players /\ ~chase

MCSpec == MCInit /\ [][Next]_vars /\ Fairness
=============================================================================
