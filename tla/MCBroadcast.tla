---------------------------- MODULE MCBroadcast ----------------------------
(***************************************************************************)
(* Small instances of Broadcast for TLC.                                   *)
(***************************************************************************)
EXTENDS Broadcast, TLC

\* The members that change no properties are alike.
Symmetric == Permutations(Clients \ Updaters)
=============================================================================
