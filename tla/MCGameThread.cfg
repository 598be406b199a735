CONSTANTS
  Attempts <- MCAttempts
  RefreshAttempts = 2
SPECIFICATION Spec
INVARIANTS
  NoMappingLeft NoPhantomSearch NothingRunsOn ThreadsSuitTheRole CancelledIsForgotten
PROPERTIES
  GameGoesOn SearchEnds
