CONSTANTS
  h = h
  c = c
  intro = intro
  no_scene = no_scene
  Players <- MCPlayers
  Host = h
  Late <- MCLate
  Scenes <- MCScenes
  None = no_scene
  Copies = 1
SPECIFICATION Spec
INVARIANT MasksAgree
PROPERTIES
  SkipIsUnanimous VotesEndTheScene SkipIsShared LateJoinerIsTold SkipIsForgotten
