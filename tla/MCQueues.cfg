SPECIFICATION QueuesSpec
CONSTANTS
  Peer = {a, b}
  Stream = {0, 1}
  Size = {1, 3, 5}
  Sends <- MCSends
  MaxPackets = 3
  MaxBytes = 4
  MaxTickets = 4
  Capacity = 3
  Blank = v0
  Value = {v0, v1, v2}
INVARIANTS
  BudgetIsExact
  OneSnapshotPerStream
PROPERTIES
  ReliableKept
  ImplementsFifo
