----------------------------- MODULE GameServer -----------------------------
(***************************************************************************)
(* The game server's main loop (server.py _process_internal over           *)
(* GameServer.process): rooms, seats, client sessions, the sweep that      *)
(* unseats disconnected clients after a grace period and removes rooms     *)
(* that stayed empty, and every packet handler that changes them.          *)
(*                                                                         *)
(* One thread runs passes: a sweep, then the dispatcher's snapshot of the  *)
(* clients still open, then the packets of each of those clients in turn.  *)
(* The sockets' workers close clients at any moment (Disconnect).  An      *)
(* exception in a handler ends the pass and keeps what the handler had     *)
(* changed before it was raised.                                           *)
(*                                                                         *)
(* A member of Clients is one connection, hence one PhotonClientSocket: a  *)
(* player who reconnects is another member.  Time is in ticks, ages stop   *)
(* at the threshold the code compares them with.                           *)
(***************************************************************************)
EXTENDS Integers, FiniteSets

CONSTANTS
    Clients,      \* connections
    GameIds,      \* names clients may give to rooms
    Nobody,       \* the occupant of a free seat
    NoGame,       \* PhotonClientSocket._connected_to_game_id is None
    Capacity,     \* Settings.max_players, the capacity of every room
    MaxActor,     \* bound: actor numbers handed out by one room
    Grace,        \* _disconnect_grace_seconds, in ticks
    EmptyTtl,     \* _empty_game_ttl_seconds, in ticks
    Liberties     \* what clients may do beyond the protocol's normal course

(***************************************************************************)
(* "early":  create or join before authenticating on this connection       *)
(* "reauth": authenticate again while in a room                            *)
(* "rejoin": create or join while already in a room                        *)
(* "reuse":  create a room under the id of a room that exists              *)
(***************************************************************************)
AllLiberties == {"early", "reauth", "rejoin", "reuse"}

ASSUME NullAssumption == Nobody \notin Clients /\ NoGame \notin GameIds
ASSUME CapacityAssumption == Capacity \in Nat \ {0}
ASSUME MaxActorAssumption == MaxActor \in Nat \ {0}
ASSUME TimeAssumption == Grace \in Nat /\ EmptyTtl \in Nat
ASSUME LibertiesAssumption == Liberties \subseteq AllLiberties

VARIABLES
    games,        \* GamesManager._games: the rooms by id
    session,      \* room id and actor number held by each client socket
    ident,        \* uid: _user_id is set; prop: actor properties carry a user id
    known,        \* <<actor number, client>> pairs sent to the client since it entered
    closedFor,    \* ticks since the client's socket was closed, or Never
    pending,      \* _pending_disconnects: age of the marker, or Never
    emptySince,   \* _empty_game_since: age of the entry, or Never
    pass          \* where the current pass of the main loop stands

vars == <<games, session, ident, known, closedFor, pending, emptySince, pass>>

-----------------------------------------------------------------------------
(* Values.                                                                 *)

Never == -1
ActorNums == 1 .. MaxActor

Room == [live : BOOLEAN, players : [ActorNums -> Clients \cup {Nobody}],
         next : 0 .. MaxActor]
Ident == [uid : BOOLEAN, prop : BOOLEAN]
Session == [game : GameIds \cup {NoGame}, num : 0 .. MaxActor]
Pass == [at : {"idle", "swept", "serving"}, turn : Clients \cup {Nobody},
         waiting : SUBSET Clients]

\* A room that is not in the dictionary.
NoRoom == [live |-> FALSE, players |-> [n \in ActorNums |-> Nobody], next |-> 0]
NoSession == [game |-> NoGame, num |-> 0]
Idle == [at |-> "idle", turn |-> Nobody, waiting |-> {}]

Seats(g) == {n \in ActorNums : games[g].players[n] # Nobody}
Occupants(g) == {games[g].players[n] : n \in Seats(g)}
Roster(g) == {<<n, games[g].players[n]>> : n \in Seats(g)}
PlayerCount(g) == Cardinality(Seats(g))
\* Mutant: a room takes one player more than it is meant to.
FullTooLate(g) == PlayerCount(g) > Capacity

Full(g) == PlayerCount(g) >= Capacity
InGame(c) == session[c].game # NoGame
Closed(c) == closedFor[c] # Never

\* GameObject.remove_player for each of these actor numbers.
RemovePlayers(room, nums) ==
    [live |-> room.live, next |-> room.next,
     players |-> [n \in ActorNums |-> IF n \in nums THEN Nobody ELSE room.players[n]]]

\* One tick more, stopping at the threshold.
Older(age, limit) == IF age = Never \/ age = limit THEN age ELSE age + 1

Init ==
    /\ games = [g \in GameIds |-> NoRoom]
    /\ session = [c \in Clients |-> NoSession]
    /\ ident = [c \in Clients |-> [uid |-> FALSE, prop |-> FALSE]]
    /\ known = [c \in Clients |-> {}]
    /\ closedFor = [c \in Clients |-> Never]
    /\ pending = [g \in GameIds |-> [n \in ActorNums |-> Never]]
    /\ emptySince = [g \in GameIds |-> Never]
    /\ pass = Idle

-----------------------------------------------------------------------------
(* The sweep at the start of a pass.                                       *)

\* Mutant: the marker's age is not compared with the grace period.
ExpiredAtNextSweep(g) == {n \in Seats(g) : Closed(games[g].players[n]) /\ pending[g][n] # Never}

\* The seats whose occupant was first seen closed at least Grace ticks ago.
Expired(g) == {n \in Seats(g) : Closed(games[g].players[n]) /\ pending[g][n] >= Grace}

\* Mutant: a marker is not dropped with the seat it expires on.
MarkerKeptOnExpiry(g, n) ==
    IF n \notin Seats(g) THEN pending[g][n]
    ELSE IF ~Closed(games[g].players[n]) THEN Never
    ELSE IF pending[g][n] = Never THEN 0
    ELSE pending[g][n]

\* Mutant: a disconnect is seen again at every sweep and never remembered.
MarkerNotStored(g, n) == IF n \notin Seats(g) THEN pending[g][n] ELSE Never

\* The marker of a seat once the sweep has looked at it.
MarkerAfterSweep(g, n) ==
    IF n \notin Seats(g) THEN pending[g][n]
    ELSE IF ~Closed(games[g].players[n]) \/ n \in Expired(g) THEN Never
    ELSE IF pending[g][n] = Never THEN 0
    ELSE pending[g][n]

\* Mutant: a room counts as empty when all its players are disconnected.
VacatedWhenAllClosed(g) == games[g].live /\ \A n \in Seats(g) : Closed(games[g].players[n])

\* Mutant: only the branch that unseats somebody looks for an empty room.
VacatedBySweep(g) == games[g].live /\ Seats(g) = Expired(g) /\ Expired(g) # {}

Vacated(g) == games[g].live /\ Seats(g) = Expired(g)
Reclaimed(g) == Vacated(g) /\ emptySince[g] >= EmptyTtl

\* An exception is raised in no branch of the sweep: leave_game's TypeError is
\* swallowed.  leave_game forgets whatever room the client is in.
Sweep ==
    /\ pass.at = "idle"
    /\ games' = [g \in GameIds |->
                    IF Reclaimed(g) THEN NoRoom
                    ELSE RemovePlayers(games[g], Expired(g))]
    /\ session' = [c \in Clients |->
                    IF \E g \in GameIds : \E n \in Expired(g) :
                            games[g].players[n] = c /\ InGame(c)
                    THEN NoSession ELSE session[c]]
    /\ pending' = [g \in GameIds |-> [n \in ActorNums |->
                    IF Reclaimed(g) THEN Never ELSE MarkerAfterSweep(g, n)]]
    /\ emptySince' = [g \in GameIds |->
                    IF ~games[g].live THEN emptySince[g]
                    ELSE IF ~Vacated(g) \/ Reclaimed(g) THEN Never
                    ELSE IF emptySince[g] = Never THEN 0
                    ELSE emptySince[g]]
    /\ pass' = [pass EXCEPT !.at = "swept"]
    /\ UNCHANGED <<ident, known, closedFor>>

\* The dispatcher drops the closed clients and snapshots the others.
Snapshot ==
    /\ pass.at = "swept"
    /\ pass' = [at |-> "serving", turn |-> Nobody, waiting |-> {c \in Clients : ~Closed(c)}]
    /\ UNCHANGED <<games, session, ident, known, closedFor, pending, emptySince>>

-----------------------------------------------------------------------------
(* Serving.  The clients of the snapshot have their turns one after the    *)
(* other; a client's turn lasts as long as it has packets.                 *)

Served(c) == pass.at = "serving" /\ c \in pass.waiting \cup {pass.turn}

\* The handler returned: the loop goes on with this client or a later one.
Returns(c) == pass' = [pass EXCEPT !.turn = c, !.waiting = @ \ {c}]

\* The handler raised: the generator is closed and the pass is over.
Raises == pass' = Idle

\* The packets of every client of the snapshot are handled, or one was malformed
\* and made its handler raise before it changed anything.
EndPass ==
    /\ pass.at = "serving"
    /\ pass' = Idle
    /\ UNCHANGED <<games, session, ident, known, closedFor, pending, emptySince>>

\* Authenticate.  A token resets the session to its connected_to_game_id, which
\* is null in every token the servers issue; a UserId leaves the session alone;
\* undecodable JSON changes nothing; with neither the KeyError makes the
\* dispatcher skip the rest of this client's packets.
HandleAuth(c) ==
    /\ Served(c)
    /\ "reauth" \in Liberties \/ ~InGame(c)
    /\ \/ /\ ident' = [ident EXCEPT ![c].uid = TRUE]
          /\ session' \in {session, [session EXCEPT ![c].game = NoGame]}
          /\ Returns(c)
       \/ /\ UNCHANGED <<ident, session>>
          /\ Returns(c)
       \/ /\ UNCHANGED <<ident, session>>
          /\ pass' = [pass EXCEPT !.turn = Nobody, !.waiting = @ \ {c}]
    /\ UNCHANGED <<games, known, closedFor, pending, emptySince>>

MayEnterRoom(c) ==
    /\ "early" \in Liberties \/ ident[c].uid
    /\ "rejoin" \in Liberties \/ ~InGame(c)

\* Actor properties that carry a user id only matter on a connection that has
\* not authenticated.
PropIds == IF "early" \in Liberties THEN BOOLEAN ELSE {FALSE}

\* GameObject.join_player reaches its announcements: it has a user id to put in
\* the actor properties it sends.
Announces(c, carriesId) == ident[c].uid \/ ident[c].prop \/ carriesId

\* Mutant: the number of players is added to a counter that counts them already.
NextNumSkipping(room) == room.next + 1 + Cardinality({n \in ActorNums : room.players[n] # Nobody})

\* Mutant: the number is taken from the number of players.
NextNumByCount(room) == Cardinality({n \in ActorNums : room.players[n] # Nobody}) + 1

\* The next actor number of a room, never one it handed out before.
NextNum(room) == room.next + 1

\* GameObject.join_player seats the client.
NewSeat(room, c) ==
    [live |-> TRUE, players |-> [room.players EXCEPT ![NextNum(room)] = c],
     next |-> NextNum(room)]

\* CreateGame puts a new room under the id whatever was there.
HandleCreateGame(c, g, carriesId) ==
    /\ Served(c) /\ MayEnterRoom(c)
    /\ "reuse" \in Liberties \/ ~games[g].live
    /\ games' = [games EXCEPT ![g] = NewSeat(NoRoom, c)]
    /\ ident' = [ident EXCEPT ![c].prop = Announces(c, carriesId)]
    /\ \/ /\ ~Announces(c, carriesId) \/ InGame(c)      \* no user id, or join_game's TypeError
          /\ Raises
          /\ UNCHANGED <<session, known>>
       \/ /\ Announces(c, carriesId) /\ ~InGame(c)
          /\ session' = [session EXCEPT ![c] = [game |-> g, num |-> 1]]
          /\ IF ident[c].uid
             THEN known' = [known EXCEPT ![c] = {<<1, c>>}] /\ Returns(c)
             ELSE UNCHANGED known /\ Raises
    /\ UNCHANGED <<closedFor, pending, emptySince>>

\* JoinGame on a room that does not exist or is full is answered with an error.
JoinRefused(c, g, carriesId) ==
    /\ ~games[g].live \/ Full(g)
    /\ ident' = [ident EXCEPT ![c].prop = @ \/ carriesId]
    /\ Returns(c)
    /\ UNCHANGED <<games, session, known>>

\* Otherwise the client is seated and announced to the others before anything
\* that may raise: a seat whose holder has no user id, or join_game.
JoinAdmitted(c, g, carriesId) ==
    LET new == NextNum(games[g])
        announced == [d \in Clients |-> IF Announces(c, carriesId) /\ d \in Occupants(g)
                                        THEN known[d] \cup {<<new, c>>} ELSE known[d]]
        succeeds == /\ ~InGame(c)
                    /\ \A d \in Occupants(g) \cup {c} : ident[d].uid
    IN  /\ games[g].live /\ ~Full(g)
        /\ games[g].next < MaxActor
        /\ games' = [games EXCEPT ![g] = NewSeat(@, c)]
        /\ ident' = [ident EXCEPT ![c].prop = Announces(c, carriesId)]
        /\ \/ /\ succeeds
              /\ session' = [session EXCEPT ![c] = [game |-> g, num |-> new]]
              /\ known' = [announced EXCEPT ![c] = Roster(g) \cup {<<new, c>>}]
              /\ Returns(c)
           \/ /\ ~succeeds
              /\ known' = announced
              /\ Raises
              /\ UNCHANGED session

HandleJoinGame(c, g, carriesId) ==
    /\ Served(c) /\ MayEnterRoom(c)
    /\ JoinRefused(c, g, carriesId) \/ JoinAdmitted(c, g, carriesId)
    /\ UNCHANGED <<closedFor, pending, emptySince>>

\* RaiseEvent relays to the other seats of the room and changes nothing; one that
\* lacks a parameter is ignored.  It raises when the sender is in no room, when
\* its room is gone, and when the comparison with the sender's own seat needs a
\* user id it does not have.
HandleRaiseEvent(c) ==
    LET g == session[c].game
        relays == InGame(c) /\ games[g].live /\ (c \in Occupants(g) => ident[c].uid)
    IN  /\ Served(c)
        /\ \/ Returns(c)
           \/ ~relays /\ Raises
        /\ UNCHANGED <<games, session, ident, known, closedFor, pending, emptySince>>

\* SetProperties merges the properties and relays them to the room, if any.
HandleSetProperties(c, carriesId) ==
    /\ Served(c)
    /\ ident' = [ident EXCEPT ![c].prop = @ \/ carriesId]
    /\ IF InGame(c) /\ ~games[session[c].game].live THEN Raises ELSE Returns(c)
    /\ UNCHANGED <<games, session, known, closedFor, pending, emptySince>>

\* Mutant: Leave resets the session and forgets the seat.
LeaveKeepsSeat(c) ==
    /\ Served(c)
    /\ InGame(c) /\ games[session[c].game].live
    /\ session' = [session EXCEPT ![c] = NoSession]
    /\ known' = [known EXCEPT ![c] = {}]
    /\ Returns(c)
    /\ UNCHANGED <<games, ident, closedFor, pending, emptySince>>

\* Leave frees the seat under the client's number in the room of that id; the
\* other players are not told.  It raises when there is no such room.
HandleLeaveGame(c) ==
    LET s == session[c]
    IN  /\ Served(c)
        /\ \/ /\ InGame(c) /\ games[s.game].live
              /\ games' = [games EXCEPT ![s.game] = RemovePlayers(@, {s.num})]
              /\ session' = [session EXCEPT ![c] = NoSession]
              /\ known' = [known EXCEPT ![c] = {}]
              /\ Returns(c)
           \/ /\ ~(InGame(c) /\ games[s.game].live)
              /\ Raises
              /\ UNCHANGED <<games, session, known>>
        /\ UNCHANGED <<ident, closedFor, pending, emptySince>>

-----------------------------------------------------------------------------
(* The world around the loop.                                              *)

\* A worker of the client's queue closes the socket; it is never reopened.
Disconnect(c) ==
    /\ ~Closed(c)
    /\ closedFor' = [closedFor EXCEPT ![c] = 0]
    /\ UNCHANGED <<games, session, ident, known, pending, emptySince, pass>>

Tick ==
    /\ closedFor' = [c \in Clients |-> Older(closedFor[c], Grace)]
    /\ pending' = [g \in GameIds |-> [n \in ActorNums |-> Older(pending[g][n], Grace)]]
    /\ emptySince' = [g \in GameIds |-> Older(emptySince[g], EmptyTtl)]
    /\ UNCHANGED <<games, session, ident, known, pass>>

Handle(c) ==
    \/ HandleAuth(c)
    \/ HandleRaiseEvent(c)
    \/ HandleLeaveGame(c)
    \/ \E carriesId \in PropIds : HandleSetProperties(c, carriesId)
    \/ \E g \in GameIds, carriesId \in PropIds :
            HandleCreateGame(c, g, carriesId) \/ HandleJoinGame(c, g, carriesId)

Step ==
    \/ Sweep
    \/ Snapshot
    \/ \E c \in Clients : Handle(c)
    \/ EndPass
    \/ \E c \in Clients : Disconnect(c)

Next == Step \/ Tick

Spec == Init /\ [][Next]_vars

\* The loop thread keeps running, a pass handles finitely many packets, time passes.
Fairness == WF_vars(Sweep) /\ WF_vars(Snapshot) /\ WF_vars(EndPass) /\ WF_vars(Tick)
FairSpec == Spec /\ Fairness

-----------------------------------------------------------------------------
(* Properties.                                                             *)

TypeOK ==
    /\ games \in [GameIds -> Room]
    /\ session \in [Clients -> Session]
    /\ ident \in [Clients -> Ident]
    /\ known \in [Clients -> SUBSET (ActorNums \X Clients)]
    /\ closedFor \in [Clients -> Never .. Grace]
    /\ pending \in [GameIds -> [ActorNums -> Never .. Grace]]
    /\ emptySince \in [GameIds -> Never .. EmptyTtl]
    /\ pass \in Pass

\* However clients behave, no room ever seats more players than its capacity:
\* the check in _handle_join_game counts ghosts, failed joins and dead seats.
CapacityRespected == \A g \in GameIds : PlayerCount(g) <= Capacity

\* Without "reuse": a client's session names a room that exists and the seat
\* the client holds there, so that Leave and SetProperties, which trust the
\* session, never touch another player's seat or raise on a missing room.
SessionHasSeat ==
    \A c \in Clients : InGame(c) =>
        /\ games[session[c].game].live
        /\ session[c].num \in ActorNums
        /\ games[session[c].game].players[session[c].num] = c

\* Without "reuse": a disconnect marker always stands for the client that is in
\* the seat now: it is closed, for at least as long as the marker is old, and it
\* is not being served, so that no handler can free the seat under the marker.
MarkersAreTrue ==
    \A g \in GameIds, n \in ActorNums : pending[g][n] # Never =>
        /\ n \in Seats(g)
        /\ closedFor[games[g].players[n]] >= pending[g][n]
        /\ games[g].players[n] \notin pass.waiting \cup {pass.turn}

\* A room that is gone, and a number not handed out yet, have no player.
FreshSeatsFree ==
    \A g \in GameIds, n \in ActorNums :
        n > games[g].next \/ ~games[g].live => games[g].players[n] = Nobody

\* Nobody is served outside the serving part of a pass.
PassAtRest == pass.at # "serving" => pass.waiting = {} /\ pass.turn = Nobody

\* The inductive form of the two invariants above: sessions, seats, markers and
\* the pass fit together after every step.
SeatsInv ==
    /\ TypeOK
    /\ SessionHasSeat
    /\ MarkersAreTrue
    /\ FreshSeatsFree
    /\ PassAtRest

\* Without "reuse": a client loses a seat only by leaving the room itself, or
\* after its socket has been closed for the whole grace period.
KeepsSeat ==
    \A g \in GameIds, n \in ActorNums, c \in Clients :
        games[g].players[n] = c /\ games'[g].players[n] # c =>
            \/ session[c] = [game |-> g, num |-> n] /\ session'[c] = NoSession /\ pass.at = "serving"
            \/ closedFor[c] = Grace
SeatsAreKept == [][KeepsSeat]_vars

\* Without liberties: seats and sessions say the same thing, so a client is in
\* one room at most and no seat is left to somebody who does not know of it.
SeatsMatchSessions ==
    \A c \in Clients, g \in GameIds, n \in ActorNums :
        games[g].players[n] = c <=> session[c] = [game |-> g, num |-> n]

\* The inductive form of SeatsMatchSessions: whoever is in a room has a user id, so
\* that seating somebody never fails half way.
RoomsInv ==
    /\ SeatsInv
    /\ SeatsMatchSessions
    /\ \A c \in Clients : InGame(c) => ident[c].uid

\* The comment on _disconnect_grace_seconds: the sweep treats a disconnect as
\* hard only when it has lasted for the grace period.
SweepHonoursGrace ==
    \A g \in GameIds : \A n \in Seats(g) :
        pass.at = "idle" /\ pass'.at = "swept" /\ games'[g].players[n] = Nobody =>
            closedFor[games[g].players[n]] >= Grace
GraceHonoured == [][SweepHonoursGrace]_vars

\* Without liberties: every member of a room was sent each other member's actor
\* number and properties, and that number was never announced for anyone else.
\* Members that leave are not announced, so a number handed out twice would put
\* a new player under an old name.
RostersAgree ==
    \A g \in GameIds : \A n, m \in Seats(g) :
        {p \in known[games[g].players[m]] : p[1] = n} = {<<n, games[g].players[n]>>}

\* The inductive form of RostersAgree, from the member's side: what a client in a room was
\* sent about a seat is who sits there, and it was sent no number not handed out yet.
MembersKnow ==
    \A c \in Clients, g \in GameIds : session[c].game = g =>
        \A n \in ActorNums, d \in Clients :
            /\ n \in Seats(g) => (<<n, d>> \in known[c] <=> d = games[g].players[n])
            /\ <<n, d>> \in known[c] => n <= games[g].next

\* A seat whose client is closed is freed, whatever the other clients do and
\* however often their packets make a handler raise.
DeadSeatsFreed ==
    \A c \in Clients, g \in GameIds, n \in ActorNums :
        games[g].players[n] = c /\ Closed(c) ~> games[g].players[n] # c

\* A room that has nobody in it is removed or gets a player.
EmptyRoomsReclaimed ==
    \A g \in GameIds : games[g].live /\ Seats(g) = {} ~> ~games[g].live \/ Seats(g) # {}
=============================================================================
