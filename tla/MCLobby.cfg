CONSTANTS
  Client = {c1, c2}
  Countdown = 1
  MaxChannel = 2
SPECIFICATION FairSpec
INVARIANTS NoOrphanCountdown ReadinessIsTrue
PROPERTIES CountdownEnds EveryoneLoads
