CONSTANTS
  Peer = {p1, p2}
  NoPeer = NoPeer
  SessionCount = 2
  MaxPlayers = 2
  PlayerLimit = 2
  HostId = 0
  MaxSequence = 2
  Numbered = {0, 1}
SPECIFICATION StreamSpec
INVARIANT EventsAreHeard
