---------------------------- MODULE MCGameServer ----------------------------
(***************************************************************************)
(* Small instances of GameServer for TLC.                                  *)
(***************************************************************************)
EXTENDS GameServerRefinement, TLC

UniqueIds == AllLiberties \ {"reuse"}

Symmetric == Permutations(Clients) \cup Permutations(GameIds)
=============================================================================
