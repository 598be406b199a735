CONSTANTS
  Peer = {p1, p2, p3}
  NoPeer = NoPeer
  SessionCount = 3
  MaxPlayers = 4
  PlayerLimit = 3
  HostId = 0
  MaxSequence = 1
  Numbered = {1}
SPECIFICATION FairSpec
INVARIANTS ConnectedIsServed PlayersAreOnline NoGhostPlayers
PROPERTIES ImplementsRegistry HandshakesEnd SeatsAreFreed
