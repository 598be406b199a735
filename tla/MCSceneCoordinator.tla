------------------------ MODULE MCSceneCoordinator ------------------------
(* The host and a client who joins late, and one scene. *)
EXTENDS SceneCoordinator

CONSTANTS h, c, intro, no_scene

MCPlayers == {h, c}
MCLate == {c}
MCScenes == {intro}
===========================================================================
