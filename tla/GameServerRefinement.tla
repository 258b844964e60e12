------------------------ MODULE GameServerRefinement ------------------------
(***************************************************************************)
(* GameServer implements Membership as long as clients take no liberties:  *)
(* the members of a room are the occupants of its seats, and a client is   *)
(* away once its socket has been closed for the grace period.              *)
(***************************************************************************)
EXTENDS GameServer

\* GameListEntry aside, a room is what _connected_players makes of it.
MembersOf == [g \in GameIds |-> [exists |-> games[g].live, members |-> Occupants(g)]]
AwayClients == {c \in Clients : closedFor[c] = Grace}

Abstract == INSTANCE Membership WITH rooms <- MembersOf, away <- AwayClients

\* Without liberties every step of the server is one the abstract specification
\* allows, or changes no membership: a client is in one room at most, a full room
\* takes nobody, a player loses its place only by leaving or by being away for the
\* whole grace period, and no room disappears under its players.
ImplementsMembership == Abstract!Spec
=============================================================================
