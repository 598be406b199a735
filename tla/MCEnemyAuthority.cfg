SPECIFICATION FairSpec
CONSTANTS
  Players = {host, client}
  Host = host
  None = None
  Stale = Stale
  MaxEvents = 1
PROPERTIES OneLetsGo OwnerComesBack HostKeepsItsFight
