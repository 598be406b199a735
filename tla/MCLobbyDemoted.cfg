CONSTANTS
  Client = {c1, c2}
  Countdown = 1
  MaxChannel = 1
SPECIFICATION FairSpec
PROPERTY EveryonePlays
