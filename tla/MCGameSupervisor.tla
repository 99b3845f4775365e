-------------------------- MODULE MCGameSupervisor --------------------------
(* The manager, the game and the dashboard on small instances. *)
EXTENDS GameSupervisor
=============================================================================
