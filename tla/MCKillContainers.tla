-------------------------- MODULE MCKillContainers --------------------------
(***************************************************************************)
(* KillContainers for TLC: pods of one to three containers of every kind, *)
(* enough for a failing container to come before a stoppable one.        *)
(***************************************************************************)
EXTENDS KillContainers

=============================================================================
