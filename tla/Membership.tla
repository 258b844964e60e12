----------------------------- MODULE Membership -----------------------------
(***************************************************************************)
(* What the game server promises about rooms to clients that follow the    *)
(* protocol, with no mention of seats, actor numbers, sessions, markers or *)
(* passes: who is in which room, and when that may change.                 *)
(***************************************************************************)
EXTENDS Naturals, FiniteSets

CONSTANTS
    Clients,      \* connections
    GameIds,      \* names of rooms
    Capacity      \* players a room may have

VARIABLES
    rooms,        \* the rooms that exist and their members
    away          \* clients whose socket has been closed for the grace period

membershipVars == <<rooms, away>>

NoSuchRoom == [exists |-> FALSE, members |-> {}]
InNoRoom(c) == \A g \in GameIds : c \notin rooms[g].members

Init ==
    /\ rooms = [g \in GameIds |-> NoSuchRoom]
    /\ away = {}

\* A room starts with the client that creates it.
Create(c, g) ==
    /\ InNoRoom(c) /\ ~rooms[g].exists
    /\ rooms' = [rooms EXCEPT ![g] = [exists |-> TRUE, members |-> {c}]]
    /\ UNCHANGED away

Join(c, g) ==
    /\ InNoRoom(c) /\ rooms[g].exists
    /\ Cardinality(rooms[g].members) < Capacity
    /\ rooms' = [rooms EXCEPT ![g] = [exists |-> TRUE, members |-> @.members \cup {c}]]
    /\ UNCHANGED away

Leave(c, g) ==
    /\ c \in rooms[g].members
    /\ rooms' = [rooms EXCEPT ![g] = [exists |-> TRUE, members |-> @.members \ {c}]]
    /\ UNCHANGED away

\* Some of the clients that are away lose their places, and some rooms nobody is left in
\* are removed.
Clean(lost, removed) ==
    /\ \A g \in removed : rooms[g].exists /\ rooms[g].members \subseteq lost
    /\ rooms' = [g \in GameIds |->
                    IF g \in removed THEN NoSuchRoom
                    ELSE [exists |-> rooms[g].exists, members |-> rooms[g].members \ lost]]
    /\ UNCHANGED away

GoAway(gone) ==
    /\ away' = away \cup gone
    /\ UNCHANGED rooms

Next ==
    \/ \E c \in Clients, g \in GameIds : Create(c, g) \/ Join(c, g) \/ Leave(c, g)
    \/ \E lost \in SUBSET away, removed \in SUBSET GameIds : Clean(lost, removed)
    \/ \E gone \in SUBSET Clients : GoAway(gone)

Spec == Init /\ [][Next]_membershipVars
=============================================================================
