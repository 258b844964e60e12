-------------------------- MODULE GameServerProofs --------------------------
(***************************************************************************)
(* Proofs about GameServer, for any set of clients and rooms and any       *)
(* capacity, grace period and time to live; in the second half for clients *)
(* that take no liberties: seats and sessions agree, members agree, and    *)
(* Membership is implemented.                                              *)
(***************************************************************************)
EXTENDS GameServerRefinement, TLAPS, FiniteSetTheorems

USE NullAssumption, CapacityAssumption, MaxActorAssumption, TimeAssumption

-----------------------------------------------------------------------------
(* Helpers.                                                                *)

\* Seating a client in a room that has an actor number left yields a room.
LEMMA NewSeatType ==
    ASSUME NEW room \in Room, NEW c \in Clients, room.next < MaxActor
    PROVE  /\ NewSeat(room, c) \in Room
           /\ NewSeat(room, c).live
           /\ NewSeat(room, c).next = NextNum(room)
           /\ NextNum(room) \in ActorNums
           /\ \A n \in ActorNums : NewSeat(room, c).players[n] =
                    IF n = NextNum(room) THEN c ELSE room.players[n]
BY DEF Room, NewSeat, NextNum, ActorNums

LEMMA RemovePlayersType ==
    ASSUME NEW room \in Room, NEW nums
    PROVE  /\ RemovePlayers(room, nums) \in Room
           /\ RemovePlayers(room, nums).live = room.live
           /\ RemovePlayers(room, nums).next = room.next
           /\ \A n \in ActorNums : RemovePlayers(room, nums).players[n] =
                    IF n \in nums THEN Nobody ELSE room.players[n]
BY DEF Room, RemovePlayers

LEMMA NoRoomType == NoRoom \in Room
BY DEF NoRoom, Room, ActorNums

LEMMA IdentType ==
    ASSUME NEW i \in Ident, NEW b \in BOOLEAN
    PROVE  [i EXCEPT !.uid = b] \in Ident /\ [i EXCEPT !.prop = b] \in Ident
BY DEF Ident

LEMMA SessionType ==
    /\ NoSession \in Session
    /\ \A g \in GameIds, n \in ActorNums : [game |-> g, num |-> n] \in Session
    /\ \A s \in Session : [s EXCEPT !.game = NoGame] \in Session
BY DEF Session, NoSession, ActorNums

LEMMA OlderType ==
    ASSUME NEW limit \in Nat, NEW age \in Never .. limit
    PROVE  /\ Older(age, limit) \in Never .. limit
           /\ Older(age, limit) >= age
           /\ Older(age, limit) = Never <=> age = Never
BY DEF Older, Never

\* Ending a turn, or the pass, leaves a well-formed pass.
LEMMA PassType ==
    ASSUME TypeOK, NEW c \in Clients, Returns(c) \/ Raises
    PROVE  pass' \in Pass
<1>1. CASE Returns(c)
  <2>. pass' = [at |-> pass.at, turn |-> c, waiting |-> pass.waiting \ {c}]
       BY <1>1 DEF TypeOK, Returns, Pass
  <2>. QED BY DEF TypeOK, Pass
<1>2. CASE Raises
  BY <1>2 DEF Raises, Idle, Pass
<1>. QED BY <1>1, <1>2

-----------------------------------------------------------------------------
(* Type correctness.                                                       *)

LEMMA TypeInit == Init => TypeOK
BY NoRoomType, SessionType DEF Init, TypeOK, Ident, Never, Pass, Idle

LEMMA TypeSweep ==
    ASSUME TypeOK, Sweep
    PROVE  TypeOK'
<1>1. games' \in [GameIds -> Room]
  BY NoRoomType, RemovePlayersType DEF TypeOK, Sweep
<1>2. session' \in [Clients -> Session]
  BY DEF TypeOK, Sweep, Session, NoSession
<1>3. pending' \in [GameIds -> [ActorNums -> Never .. Grace]]
  BY DEF TypeOK, Sweep, MarkerAfterSweep, Never
<1>4. emptySince' \in [GameIds -> Never .. EmptyTtl]
  BY DEF TypeOK, Sweep, Never
<1>5. pass' \in Pass
  BY DEF TypeOK, Sweep, Pass
<1>. QED BY <1>1, <1>2, <1>3, <1>4, <1>5 DEF TypeOK, Sweep

LEMMA TypeCreate ==
    ASSUME TypeOK, NEW c \in Clients, NEW g \in GameIds, NEW carriesId \in BOOLEAN,
           HandleCreateGame(c, g, carriesId)
    PROVE  TypeOK'
<1>1. games' \in [GameIds -> Room]
  <2>1. NoRoom.next < MaxActor
    BY DEF NoRoom
  <2>. QED BY <2>1, NoRoomType, NewSeatType DEF TypeOK, HandleCreateGame
<1>2. session' \in [Clients -> Session]
  <2>1. 1 \in ActorNums
    BY DEF ActorNums
  <2>. QED BY <2>1, SessionType DEF TypeOK, HandleCreateGame
<1>3. ident' \in [Clients -> Ident]
  <2>1. Announces(c, carriesId) \in BOOLEAN
    BY DEF TypeOK, Ident, Announces
  <2>. QED BY <2>1, IdentType DEF TypeOK, HandleCreateGame
<1>4. known' \in [Clients -> SUBSET (ActorNums \X Clients)]
  <2>1. {<<1, c>>} \in SUBSET (ActorNums \X Clients)
    BY DEF ActorNums
  <2>2. known' = known \/ known' = [known EXCEPT ![c] = {<<1, c>>}]
    BY DEF HandleCreateGame
  <2>. QED BY <2>1, <2>2 DEF TypeOK
<1>5. pass' \in Pass
  BY PassType DEF HandleCreateGame
<1>. QED BY <1>1, <1>2, <1>3, <1>4, <1>5 DEF TypeOK, HandleCreateGame

LEMMA TypeJoin ==
    ASSUME TypeOK, NEW c \in Clients, NEW g \in GameIds, NEW carriesId \in BOOLEAN,
           HandleJoinGame(c, g, carriesId)
    PROVE  TypeOK'
<1>1. CASE JoinRefused(c, g, carriesId)
  <2>1. ident' \in [Clients -> Ident]
    <3>1. (ident[c].prop \/ carriesId) \in BOOLEAN
      BY DEF TypeOK, Ident
    <3>. QED BY <1>1, <3>1, IdentType DEF TypeOK, JoinRefused
  <2>. QED BY <1>1, <2>1, PassType DEF TypeOK, JoinRefused, HandleJoinGame
<1>2. CASE JoinAdmitted(c, g, carriesId)
  <2>0. /\ games[g] \in Room /\ games[g].next < MaxActor
        /\ NextNum(games[g]) \in ActorNums
    BY <1>2, NewSeatType DEF TypeOK, JoinAdmitted
  <2>1. games' \in [GameIds -> Room]
    BY <1>2, <2>0, NewSeatType DEF TypeOK, JoinAdmitted
  <2>2. session' \in [Clients -> Session]
    BY <1>2, <2>0, SessionType DEF TypeOK, JoinAdmitted
  <2>3. ident' \in [Clients -> Ident]
    <3>1. Announces(c, carriesId) \in BOOLEAN
      BY DEF TypeOK, Ident, Announces
    <3>. QED BY <1>2, <3>1, IdentType DEF TypeOK, JoinAdmitted
  <2>4. known' \in [Clients -> SUBSET (ActorNums \X Clients)]
    <3>1. Roster(g) \subseteq ActorNums \X Clients
      BY <2>0 DEF Roster, Seats, Room
    <3>. DEFINE announced == [d \in Clients |->
                    IF Announces(c, carriesId) /\ d \in Occupants(g)
                    THEN known[d] \cup {<<NextNum(games[g]), c>>} ELSE known[d]]
    <3>2. announced \in [Clients -> SUBSET (ActorNums \X Clients)]
      BY <2>0 DEF TypeOK
    <3>3. \/ known' = announced
          \/ known' = [announced EXCEPT ![c] = Roster(g) \cup {<<NextNum(games[g]), c>>}]
      BY <1>2 DEF JoinAdmitted
    <3>. HIDE DEF announced
    <3>. QED BY <2>0, <3>1, <3>2, <3>3
  <2>5. pass' \in Pass
    BY <1>2, PassType DEF JoinAdmitted
  <2>. QED BY <2>1, <2>2, <2>3, <2>4, <2>5 DEF TypeOK, HandleJoinGame
<1>. QED BY <1>1, <1>2 DEF HandleJoinGame

LEMMA TypeLeave ==
    ASSUME TypeOK, NEW c \in Clients, HandleLeaveGame(c)
    PROVE  TypeOK'
<1>1. games' \in [GameIds -> Room]
  BY RemovePlayersType DEF TypeOK, HandleLeaveGame, Session, InGame
<1>2. session' \in [Clients -> Session]
  BY SessionType DEF TypeOK, HandleLeaveGame
<1>3. known' \in [Clients -> SUBSET (ActorNums \X Clients)]
  BY DEF TypeOK, HandleLeaveGame
<1>. QED BY <1>1, <1>2, <1>3, PassType DEF TypeOK, HandleLeaveGame

LEMMA TypeTick ==
    ASSUME TypeOK, Tick
    PROVE  TypeOK'
<1>1. closedFor' \in [Clients -> Never .. Grace]
  BY OlderType DEF TypeOK, Tick
<1>2. pending' \in [GameIds -> [ActorNums -> Never .. Grace]]
  BY OlderType DEF TypeOK, Tick
<1>3. emptySince' \in [GameIds -> Never .. EmptyTtl]
  BY OlderType DEF TypeOK, Tick
<1>. QED BY <1>1, <1>2, <1>3 DEF TypeOK, Tick

LEMMA TypeNext ==
    ASSUME TypeOK, [Next]_vars
    PROVE  TypeOK'
<1>1. CASE Sweep
  BY <1>1, TypeSweep
<1>2. CASE Snapshot
  BY <1>2 DEF TypeOK, Snapshot, Pass
<1>3. CASE EndPass
  BY <1>3 DEF TypeOK, EndPass, Pass, Idle
<1>4. CASE \E c \in Clients : Disconnect(c)
  BY <1>4 DEF TypeOK, Disconnect, Never
<1>5. CASE Tick
  BY <1>5, TypeTick
<1>6. CASE \E c \in Clients : Handle(c)
  <2>. PICK c \in Clients : Handle(c)
       BY <1>6
  <2>1. CASE HandleAuth(c)
    <3>1. session' \in [Clients -> Session]
      <4>. DEFINE outside == [session[c] EXCEPT !.game = NoGame]
      <4>1. session' = session \/ session' = [session EXCEPT ![c] = outside]
        BY <2>1 DEF HandleAuth
      <4>2. outside \in Session
        BY SessionType DEF TypeOK
      <4>. HIDE DEF outside
      <4>. QED BY <4>1, <4>2 DEF TypeOK
    <3>2. ident' \in [Clients -> Ident]
      <4>. DEFINE named == [ident[c] EXCEPT !.uid = TRUE]
      <4>1. ident' = ident \/ ident' = [ident EXCEPT ![c] = named]
        BY <2>1 DEF HandleAuth
      <4>2. named \in Ident
        BY IdentType DEF TypeOK
      <4>. HIDE DEF named
      <4>. QED BY <4>1, <4>2 DEF TypeOK
    <3>3. pass' \in Pass
      <4>1. CASE Returns(c)
        BY <4>1, PassType
      <4>2. CASE pass' = [pass EXCEPT !.turn = Nobody, !.waiting = @ \ {c}]
        <5>. pass' = [at |-> pass.at, turn |-> Nobody, waiting |-> pass.waiting \ {c}]
             BY <4>2 DEF TypeOK, Pass
        <5>. QED BY DEF TypeOK, Pass
      <4>. QED BY <2>1, <4>1, <4>2 DEF HandleAuth
    <3>. QED BY <2>1, <3>1, <3>2, <3>3 DEF TypeOK, HandleAuth
  <2>2. CASE HandleRaiseEvent(c)
    BY <2>2, PassType DEF TypeOK, HandleRaiseEvent
  <2>3. CASE HandleLeaveGame(c)
    BY <2>3, TypeLeave
  <2>4. CASE \E carriesId \in PropIds : HandleSetProperties(c, carriesId)
    <3>1. ident' \in [Clients -> Ident]
      <4>. PICK carriesId \in BOOLEAN : HandleSetProperties(c, carriesId)
           BY <2>4 DEF PropIds
      <4>1. (ident[c].prop \/ carriesId) \in BOOLEAN
        BY DEF TypeOK, Ident
      <4>. QED BY <4>1, IdentType DEF TypeOK, HandleSetProperties
    <3>. QED BY <2>4, <3>1, PassType DEF TypeOK, HandleSetProperties
  <2>5. CASE \E g \in GameIds, carriesId \in PropIds : HandleCreateGame(c, g, carriesId)
    BY <2>5, TypeCreate DEF PropIds
  <2>6. CASE \E g \in GameIds, carriesId \in PropIds : HandleJoinGame(c, g, carriesId)
    BY <2>6, TypeJoin DEF PropIds
  <2>. QED BY <2>1, <2>2, <2>3, <2>4, <2>5, <2>6 DEF Handle
<1>7. CASE UNCHANGED vars
  BY <1>7 DEF TypeOK, vars
<1>. QED BY <1>1, <1>2, <1>3, <1>4, <1>5, <1>6, <1>7 DEF Next, Step

\* Every variable keeps its shape: a session that names a room carries an actor
\* number of it, and no actor number above the bound is handed out.
THEOREM TypeCorrect == Spec => []TypeOK
<1>. QED BY TypeInit, TypeNext, PTL DEF Spec

-----------------------------------------------------------------------------
(* No room seats more players than its capacity.                           *)

LEMMA SeatsFinite ==
    \A g \in GameIds : IsFiniteSet(Seats(g)) /\ PlayerCount(g) \in Nat
<1>. TAKE g \in GameIds
<1>1. IsFiniteSet(ActorNums)
  BY FS_Interval DEF ActorNums
<1>2. Seats(g) \subseteq ActorNums
  BY DEF Seats
<1>3. IsFiniteSet(Seats(g))
  BY <1>1, <1>2, FS_Subset
<1>. QED BY <1>3, FS_CardinalityType DEF PlayerCount

\* How the seats of a room change in one step: seats are freed, one player is
\* seated in a room that is not full, or a new room starts with its first seat.
SeatsChange(g) ==
    \/ Seats(g)' \subseteq Seats(g)
    \/ ~Full(g) /\ \E n : Seats(g)' = Seats(g) \cup {n}
    \/ \E n : Seats(g)' = {n}

LEMMA SweepFreesSeats ==
    ASSUME TypeOK, Sweep, NEW g \in GameIds
    PROVE  Seats(g)' \subseteq Seats(g)
<1>1. CASE Reclaimed(g)
  BY <1>1 DEF Sweep, Seats, NoRoom
<1>2. CASE ~Reclaimed(g)
  <2>1. games'[g] = RemovePlayers(games[g], Expired(g))
    BY <1>2 DEF Sweep
  <2>. QED BY <2>1, RemovePlayersType DEF TypeOK, Seats
<1>. QED BY <1>1, <1>2

LEMMA CreateSeatsOne ==
    ASSUME TypeOK, NEW c \in Clients, NEW h \in GameIds, NEW carriesId \in BOOLEAN,
           HandleCreateGame(c, h, carriesId), NEW g \in GameIds
    PROVE  SeatsChange(g)
<1>1. CASE g = h
  <2>1. NoRoom \in Room /\ NoRoom.next < MaxActor /\ NextNum(NoRoom) = 1
    BY NoRoomType DEF NoRoom, NextNum
  <2>2. games'[g] = NewSeat(NoRoom, c)
    BY <1>1 DEF TypeOK, HandleCreateGame
  <2>3. \A n \in ActorNums : games'[g].players[n] = IF n = 1 THEN c ELSE Nobody
    BY <2>1, <2>2, NewSeatType DEF NoRoom
  <2>4. Seats(g)' = {1}
    BY <2>3 DEF Seats, ActorNums
  <2>. QED BY <2>4 DEF SeatsChange
<1>2. CASE g # h
  <2>1. games'[g] = games[g]
    BY <1>2 DEF TypeOK, HandleCreateGame
  <2>. QED BY <2>1 DEF Seats, SeatsChange
<1>. QED BY <1>1, <1>2

LEMMA JoinSeatsOne ==
    ASSUME TypeOK, NEW c \in Clients, NEW h \in GameIds, NEW carriesId \in BOOLEAN,
           HandleJoinGame(c, h, carriesId), NEW g \in GameIds
    PROVE  SeatsChange(g)
<1>1. CASE g = h /\ JoinAdmitted(c, h, carriesId)
  <2>1. games[g] \in Room /\ games[g].next < MaxActor /\ ~Full(g)
    BY <1>1 DEF TypeOK, JoinAdmitted
  <2>2. games'[g] = NewSeat(games[g], c)
    BY <1>1 DEF TypeOK, JoinAdmitted
  <2>3. Seats(g)' = Seats(g) \cup {NextNum(games[g])}
    BY <2>1, <2>2, NewSeatType DEF Seats
  <2>. QED BY <2>1, <2>3 DEF SeatsChange
<1>2. CASE g # h \/ JoinRefused(c, h, carriesId)
  <2>1. games'[g] = games[g]
    BY <1>2 DEF TypeOK, HandleJoinGame, JoinRefused, JoinAdmitted
  <2>. QED BY <2>1 DEF Seats, SeatsChange
<1>. QED BY <1>1, <1>2 DEF HandleJoinGame

LEMMA LeaveFreesSeats ==
    ASSUME TypeOK, NEW c \in Clients, HandleLeaveGame(c), NEW g \in GameIds
    PROVE  Seats(g)' \subseteq Seats(g)
<1>1. \/ games'[g] = games[g]
      \/ games'[g] = RemovePlayers(games[g], {session[c].num})
  BY DEF TypeOK, HandleLeaveGame
<1>. QED BY <1>1, RemovePlayersType DEF TypeOK, Seats

LEMMA NextChangesSeats ==
    ASSUME TypeOK, [Next]_vars, NEW g \in GameIds
    PROVE  SeatsChange(g)
<1>1. CASE Sweep
  BY <1>1, SweepFreesSeats DEF SeatsChange
<1>2. CASE \E c \in Clients : Handle(c)
  <2>. PICK c \in Clients : Handle(c)
       BY <1>2
  <2>1. CASE UNCHANGED games
    BY <2>1 DEF Seats, SeatsChange
  <2>2. CASE HandleLeaveGame(c)
    BY <2>2, LeaveFreesSeats DEF SeatsChange
  <2>3. CASE \E h \in GameIds, carriesId \in PropIds : HandleCreateGame(c, h, carriesId)
    BY <2>3, CreateSeatsOne DEF PropIds
  <2>4. CASE \E h \in GameIds, carriesId \in PropIds : HandleJoinGame(c, h, carriesId)
    BY <2>4, JoinSeatsOne DEF PropIds
  <2>. QED BY <2>1, <2>2, <2>3, <2>4
           DEF Handle, HandleAuth, HandleRaiseEvent, HandleSetProperties
<1>3. CASE UNCHANGED games
  BY <1>3 DEF Seats, SeatsChange
<1>. QED BY <1>1, <1>2, <1>3 DEF Next, Step, Snapshot, EndPass, Disconnect, Tick, vars

LEMMA CapacityNext ==
    ASSUME TypeOK, CapacityRespected, [Next]_vars
    PROVE  CapacityRespected'
<1>. SUFFICES ASSUME NEW g \in GameIds
              PROVE  PlayerCount(g)' <= Capacity
     BY DEF CapacityRespected
<1>0. /\ IsFiniteSet(Seats(g)) /\ PlayerCount(g) \in Nat
      /\ PlayerCount(g) = Cardinality(Seats(g)) /\ PlayerCount(g) <= Capacity
      /\ PlayerCount(g)' = Cardinality(Seats(g)')
  BY SeatsFinite DEF PlayerCount, CapacityRespected
<1>1. CASE Seats(g)' \subseteq Seats(g)
  <2>1. Cardinality(Seats(g)') <= Cardinality(Seats(g)) /\ Cardinality(Seats(g)') \in Nat
    BY <1>0, <1>1, FS_Subset, FS_CardinalityType
  <2>. QED BY <1>0, <2>1
<1>2. CASE ~Full(g) /\ \E n : Seats(g)' = Seats(g) \cup {n}
  <2>. PICK n : Seats(g)' = Seats(g) \cup {n}
       BY <1>2
  <2>1. Cardinality(Seats(g) \cup {n}) \in {Cardinality(Seats(g)), Cardinality(Seats(g)) + 1}
    BY <1>0, FS_AddElement
  <2>2. PlayerCount(g) < Capacity
    BY <1>0, <1>2 DEF Full
  <2>. QED BY <1>0, <2>1, <2>2
<1>3. CASE \E n : Seats(g)' = {n}
  <2>1. Cardinality(Seats(g)') = 1
    BY <1>3, FS_Singleton
  <2>. QED BY <1>0, <2>1
<1>. QED BY <1>1, <1>2, <1>3, NextChangesSeats DEF SeatsChange

\* Whatever the clients do, no room ever seats more players than its capacity:
\* the check in _handle_join_game is enough, because every other step only frees
\* seats or starts a room with one.
THEOREM CapacityIsRespected == Spec => []CapacityRespected
<1>1. Init => CapacityRespected
  <2>. SUFFICES ASSUME Init, NEW g \in GameIds
                PROVE  PlayerCount(g) <= Capacity
       BY DEF CapacityRespected
  <2>1. Seats(g) = {}
    BY DEF Init, Seats, NoRoom
  <2>. QED BY <2>1, FS_EmptySet DEF PlayerCount
<1>2. TypeOK /\ CapacityRespected /\ [Next]_vars => CapacityRespected'
  BY CapacityNext
<1>. QED BY <1>1, <1>2, TypeCorrect, PTL DEF Spec

-----------------------------------------------------------------------------
(* Sessions, seats and disconnect markers, when room ids are not reused.   *)

LEMMA SeatsInit == Init => SeatsInv
<1>. SUFFICES ASSUME Init PROVE SeatsInv
     OBVIOUS
<1>1. TypeOK
  BY TypeInit
<1>2. SessionHasSeat
  BY DEF Init, SessionHasSeat, InGame, NoSession
<1>3. MarkersAreTrue
  BY DEF Init, MarkersAreTrue
<1>4. FreshSeatsFree
  BY DEF Init, FreshSeatsFree, NoRoom
<1>5. PassAtRest
  BY DEF Init, PassAtRest, Idle
<1>. QED BY <1>1, <1>2, <1>3, <1>4, <1>5 DEF SeatsInv

\* What the sweep does to the rooms, seat by seat.
LEMMA SweptRoom ==
    ASSUME SeatsInv, Sweep, NEW g \in GameIds
    PROVE  /\ \A n \in ActorNums : games'[g].players[n] =
                    IF n \in Expired(g) THEN Nobody ELSE games[g].players[n]
           /\ ~Reclaimed(g) => games'[g].live = games[g].live /\ games'[g].next = games[g].next
           /\ Reclaimed(g) => ~games'[g].live /\ \A n \in ActorNums : games'[g].players[n] = Nobody
<1>1. CASE Reclaimed(g)
  <2>1. games'[g] = NoRoom
    BY <1>1 DEF Sweep
  <2>2. \A n \in ActorNums : n \notin Expired(g) => games[g].players[n] = Nobody
    BY <1>1 DEF Reclaimed, Vacated, Seats
  <2>. QED BY <1>1, <2>1, <2>2 DEF NoRoom
<1>2. CASE ~Reclaimed(g)
  <2>1. games'[g] = RemovePlayers(games[g], Expired(g))
    BY <1>2 DEF Sweep
  <2>. QED BY <1>2, <2>1, RemovePlayersType DEF SeatsInv, TypeOK
<1>. QED BY <1>1, <1>2

LEMMA SeatsSweep ==
    ASSUME SeatsInv, Sweep
    PROVE  SeatsInv'
<1>1. TypeOK'
  BY TypeSweep DEF SeatsInv
<1>2. SessionHasSeat'
  <2>. SUFFICES ASSUME NEW c \in Clients, InGame(c)'
                PROVE  /\ games'[session'[c].game].live
                       /\ session'[c].num \in ActorNums
                       /\ games'[session'[c].game].players[session'[c].num] = c
       BY DEF SessionHasSeat
  <2>1. session'[c] = session[c] /\ InGame(c)
    BY DEF Sweep, InGame, NoSession
  <2>. DEFINE g == session[c].game
              n == session[c].num
  <2>2. g \in GameIds /\ n \in ActorNums /\ games[g].live /\ games[g].players[n] = c
    BY <2>1 DEF SeatsInv, SessionHasSeat, InGame, TypeOK, Session
  <2>3. n \notin Expired(g)
    BY <2>1, <2>2 DEF Sweep, InGame, NoSession
  <2>4. ~Reclaimed(g)
    BY <2>2, <2>3, NullAssumption DEF Reclaimed, Vacated, Seats
  <2>. QED BY <2>1, <2>2, <2>3, <2>4, SweptRoom
<1>3. MarkersAreTrue'
  <2>. SUFFICES ASSUME NEW g \in GameIds, NEW n \in ActorNums, pending'[g][n] # Never
                PROVE  /\ n \in Seats(g)'
                       /\ closedFor'[games'[g].players[n]] >= pending'[g][n]
                       /\ games'[g].players[n] \notin pass'.waiting \cup {pass'.turn}
       BY DEF MarkersAreTrue
  <2>1. ~Reclaimed(g) /\ pending'[g][n] = MarkerAfterSweep(g, n)
    BY DEF Sweep
  <2>2. n \in Seats(g) /\ n \notin Expired(g) /\ Closed(games[g].players[n])
    BY <2>1 DEF MarkerAfterSweep, SeatsInv, MarkersAreTrue
  <2>3. games'[g].players[n] = games[g].players[n]
    BY <2>2, SweptRoom
  <2>4. games[g].players[n] \in Clients
    BY <2>2 DEF SeatsInv, TypeOK, Room, Seats
  <2>5. closedFor[games[g].players[n]] >= pending'[g][n]
    <3>1. CASE pending[g][n] = Never
      <4>1. pending'[g][n] = 0
        BY <2>1, <2>2, <3>1 DEF MarkerAfterSweep
      <4>. QED BY <2>2, <2>4, <4>1 DEF Closed, SeatsInv, TypeOK, Never
    <3>2. CASE pending[g][n] # Never
      <4>1. pending'[g][n] = pending[g][n]
        BY <2>1, <2>2, <3>2 DEF MarkerAfterSweep
      <4>. QED BY <3>2, <4>1 DEF SeatsInv, MarkersAreTrue
    <3>. QED BY <3>1, <3>2
  <2>6. pass'.waiting = {} /\ pass'.turn = Nobody
    BY DEF Sweep, SeatsInv, PassAtRest, TypeOK, Pass
  <2>. QED BY <2>2, <2>3, <2>4, <2>5, <2>6, NullAssumption DEF Seats, Sweep
<1>4. FreshSeatsFree'
  <2>. SUFFICES ASSUME NEW g \in GameIds, NEW n \in ActorNums,
                       n > games'[g].next \/ ~games'[g].live
                PROVE  games'[g].players[n] = Nobody
       BY DEF FreshSeatsFree
  <2>. QED BY SweptRoom DEF SeatsInv, FreshSeatsFree
<1>5. PassAtRest'
  BY DEF Sweep, SeatsInv, PassAtRest, TypeOK, Pass
<1>. QED BY <1>1, <1>2, <1>3, <1>4, <1>5 DEF SeatsInv

\* A room that does not exist has no session, no player and no marker.
LEMMA DeadRoomUnused ==
    ASSUME SeatsInv, NEW g \in GameIds, ~games[g].live
    PROVE  /\ \A c \in Clients : session[c].game # g
           /\ \A n \in ActorNums : games[g].players[n] = Nobody /\ pending[g][n] = Never
<1>1. \A c \in Clients : session[c].game # g
  BY NullAssumption DEF SeatsInv, SessionHasSeat, InGame
<1>2. \A n \in ActorNums : games[g].players[n] = Nobody
  BY DEF SeatsInv, FreshSeatsFree
<1>3. \A n \in ActorNums : pending[g][n] = Never
  BY <1>2 DEF SeatsInv, MarkersAreTrue, Seats
<1>. QED BY <1>1, <1>2, <1>3

\* Whoever is served has no disconnect marker, before and after its turn.
LEMMA ServedUnmarked ==
    ASSUME SeatsInv, NEW c \in Clients, Served(c), Returns(c) \/ Raises
    PROVE  /\ \A g \in GameIds, n \in ActorNums :
                    games[g].players[n] = c => pending[g][n] = Never
           /\ pass'.waiting \cup {pass'.turn} \subseteq pass.waiting \cup {pass.turn, Nobody}
           /\ PassAtRest'
<1>1. \A g \in GameIds, n \in ActorNums : games[g].players[n] = c => pending[g][n] = Never
  BY DEF Served, SeatsInv, MarkersAreTrue
<1>2. CASE Returns(c)
  BY <1>1, <1>2 DEF Returns, Served, SeatsInv, TypeOK, Pass, PassAtRest
<1>3. CASE Raises
  BY <1>1, <1>3 DEF Raises, Idle, PassAtRest
<1>. QED BY <1>2, <1>3

\* Markers stay true when a handler changes no marked seat.
LEMMA MarkersPreserved ==
    ASSUME SeatsInv, UNCHANGED <<closedFor, pending>>,
           pass'.waiting \cup {pass'.turn} \subseteq pass.waiting \cup {pass.turn, Nobody},
           \A g \in GameIds, n \in ActorNums :
                pending[g][n] # Never => games'[g].players[n] = games[g].players[n]
    PROVE  MarkersAreTrue'
<1>. SUFFICES ASSUME NEW g \in GameIds, NEW n \in ActorNums, pending'[g][n] # Never
              PROVE  /\ n \in Seats(g)'
                     /\ closedFor'[games'[g].players[n]] >= pending'[g][n]
                     /\ games'[g].players[n] \notin pass'.waiting \cup {pass'.turn}
     BY DEF MarkersAreTrue
<1>1. /\ n \in Seats(g)
      /\ closedFor[games[g].players[n]] >= pending[g][n]
      /\ games[g].players[n] \notin pass.waiting \cup {pass.turn}
      /\ games'[g].players[n] = games[g].players[n]
  BY DEF SeatsInv, MarkersAreTrue
<1>. QED BY <1>1 DEF Seats

LEMMA SeatsCreate ==
    ASSUME SeatsInv, "reuse" \notin Liberties,
           NEW c \in Clients, NEW h \in GameIds, NEW carriesId \in BOOLEAN,
           HandleCreateGame(c, h, carriesId)
    PROVE  SeatsInv'
<1>1. TypeOK'
  BY TypeCreate DEF SeatsInv
<1>2. ~games[h].live
  BY DEF HandleCreateGame
<1>3. /\ games'[h].live /\ games'[h].next = 1
      /\ \A n \in ActorNums : games'[h].players[n] = IF n = 1 THEN c ELSE Nobody
  <2>1. NoRoom \in Room /\ NoRoom.next < MaxActor /\ NextNum(NoRoom) = 1
    BY NoRoomType DEF NoRoom, NextNum
  <2>2. games'[h] = NewSeat(NoRoom, c)
    BY DEF SeatsInv, TypeOK, HandleCreateGame
  <2>3. /\ games'[h].live /\ games'[h].next = 1
        /\ \A n \in ActorNums : games'[h].players[n] = IF n = 1 THEN c ELSE NoRoom.players[n]
    BY <2>1, <2>2, NewSeatType
  <2>. QED BY <2>3 DEF NoRoom
<1>4. \A g \in GameIds : g # h => games'[g] = games[g]
  BY DEF SeatsInv, TypeOK, HandleCreateGame
<1>5. SessionHasSeat'
  <2>. SUFFICES ASSUME NEW d \in Clients, InGame(d)'
                PROVE  /\ games'[session'[d].game].live
                       /\ session'[d].num \in ActorNums
                       /\ games'[session'[d].game].players[session'[d].num] = d
       BY DEF SessionHasSeat
  <2>1. CASE session'[d] = session[d]
    <3>1. session[d].game \in GameIds /\ InGame(d)
      BY <2>1 DEF SeatsInv, TypeOK, Session, InGame
    <3>2. session[d].game # h
      BY <1>2, DeadRoomUnused
    <3>. QED BY <1>4, <2>1, <3>1, <3>2 DEF SeatsInv, SessionHasSeat
  <2>2. CASE session'[d] # session[d]
    <3>1. d = c /\ session'[d] = [game |-> h, num |-> 1]
      BY <2>2 DEF HandleCreateGame, SeatsInv, TypeOK
    <3>. QED BY <1>3, <3>1 DEF ActorNums
  <2>. QED BY <2>1, <2>2
<1>6. Served(c) /\ (Returns(c) \/ Raises)
  BY DEF HandleCreateGame
<1>7. MarkersAreTrue'
  <2>1. \A g \in GameIds, n \in ActorNums :
            pending[g][n] # Never => games'[g].players[n] = games[g].players[n]
    BY <1>2, <1>4, DeadRoomUnused
  <2>. QED BY <1>6, <2>1, ServedUnmarked, MarkersPreserved DEF HandleCreateGame
<1>8. FreshSeatsFree'
  BY <1>3, <1>4 DEF SeatsInv, FreshSeatsFree, ActorNums
<1>. QED BY <1>1, <1>5, <1>6, <1>7, <1>8, ServedUnmarked DEF SeatsInv

LEMMA SeatsJoin ==
    ASSUME SeatsInv, NEW c \in Clients, NEW h \in GameIds, NEW carriesId \in BOOLEAN,
           HandleJoinGame(c, h, carriesId)
    PROVE  SeatsInv'
<1>1. TypeOK'
  BY TypeJoin DEF SeatsInv
<1>2. Served(c) /\ (Returns(c) \/ Raises)
  BY DEF HandleJoinGame, JoinRefused, JoinAdmitted
<1>3. CASE JoinRefused(c, h, carriesId)
  <2>1. UNCHANGED <<games, session, closedFor, pending>>
    BY <1>3 DEF HandleJoinGame, JoinRefused
  <2>2. MarkersAreTrue'
    BY <1>2, <2>1, ServedUnmarked, MarkersPreserved
  <2>3. SessionHasSeat' /\ FreshSeatsFree'
    BY <2>1 DEF SeatsInv, SessionHasSeat, FreshSeatsFree, InGame
  <2>. QED BY <1>1, <1>2, <2>2, <2>3, ServedUnmarked DEF SeatsInv
<1>4. CASE JoinAdmitted(c, h, carriesId)
  <2>. DEFINE new == NextNum(games[h])
  <2>1. games[h] \in Room /\ games[h].next < MaxActor /\ games[h].live
    BY <1>4 DEF SeatsInv, TypeOK, JoinAdmitted
  <2>2. new \in ActorNums /\ new > games[h].next /\ games[h].players[new] = Nobody
    <3>1. new \in ActorNums /\ new > games[h].next
      BY <2>1 DEF Room, NextNum, ActorNums
    <3>. QED BY <3>1 DEF SeatsInv, FreshSeatsFree
  <2>3. /\ games'[h].live /\ games'[h].next = new
        /\ \A n \in ActorNums : games'[h].players[n] = IF n = new THEN c ELSE games[h].players[n]
    <3>1. games'[h] = NewSeat(games[h], c)
      BY <1>4 DEF SeatsInv, TypeOK, JoinAdmitted
    <3>. QED BY <2>1, <3>1, NewSeatType
  <2>4. \A g \in GameIds : g # h => games'[g] = games[g]
    BY <1>4 DEF SeatsInv, TypeOK, JoinAdmitted
  <2>5. \A g \in GameIds, n \in ActorNums : games[g].players[n] # Nobody =>
            games'[g].players[n] = games[g].players[n]
    BY <2>2, <2>3, <2>4
  <2>6. \A g \in GameIds : games'[g].live = games[g].live
    BY <2>1, <2>3, <2>4 DEF SeatsInv, TypeOK, Room
  <2>7. SessionHasSeat'
    <3>. SUFFICES ASSUME NEW d \in Clients, InGame(d)'
                  PROVE  /\ games'[session'[d].game].live
                         /\ session'[d].num \in ActorNums
                         /\ games'[session'[d].game].players[session'[d].num] = d
         BY DEF SessionHasSeat
    <3>1. CASE session'[d] = session[d]
      <4>1. /\ session[d].game \in GameIds /\ session[d].num \in ActorNums
            /\ games[session[d].game].live
            /\ games[session[d].game].players[session[d].num] = d
        BY <3>1 DEF SeatsInv, SessionHasSeat, TypeOK, Session, InGame
      <4>. QED BY <2>5, <2>6, <3>1, <4>1, NullAssumption
    <3>2. CASE session'[d] # session[d]
      <4>1. d = c /\ session'[d] = [game |-> h, num |-> new]
        BY <1>4, <3>2 DEF JoinAdmitted, SeatsInv, TypeOK
      <4>. QED BY <2>2, <2>3, <4>1
    <3>. QED BY <3>1, <3>2
  <2>8. MarkersAreTrue'
    <3>1. \A g \in GameIds, n \in ActorNums :
              pending[g][n] # Never => games'[g].players[n] = games[g].players[n]
      BY <2>5 DEF SeatsInv, MarkersAreTrue, Seats
    <3>. QED BY <1>2, <3>1, ServedUnmarked, MarkersPreserved DEF HandleJoinGame
  <2>9. FreshSeatsFree'
    <3>. SUFFICES ASSUME NEW g \in GameIds, NEW n \in ActorNums,
                         n > games'[g].next \/ ~games'[g].live
                  PROVE  games'[g].players[n] = Nobody
         BY DEF FreshSeatsFree
    <3>1. CASE g = h
      <4>1. n > games[h].next /\ n # new
        BY <2>1, <2>3, <3>1 DEF NextNum, Room, ActorNums
      <4>. QED BY <2>3, <3>1, <4>1 DEF SeatsInv, FreshSeatsFree
    <3>2. CASE g # h
      BY <2>4, <3>2 DEF SeatsInv, FreshSeatsFree
    <3>. QED BY <3>1, <3>2
  <2>. QED BY <1>1, <1>2, <2>7, <2>8, <2>9, ServedUnmarked DEF SeatsInv
<1>. QED BY <1>3, <1>4 DEF HandleJoinGame

LEMMA SeatsLeave ==
    ASSUME SeatsInv, NEW c \in Clients, HandleLeaveGame(c)
    PROVE  SeatsInv'
<1>1. TypeOK'
  BY TypeLeave DEF SeatsInv
<1>2. Served(c) /\ (Returns(c) \/ Raises)
  BY DEF HandleLeaveGame
<1>3. CASE InGame(c)
  <2>. DEFINE h == session[c].game
              k == session[c].num
  <2>1. /\ h \in GameIds /\ k \in ActorNums /\ games[h].live
        /\ games[h].players[k] = c
    BY <1>3 DEF SeatsInv, SessionHasSeat, TypeOK, Session, InGame
  <2>2. /\ games' = [games EXCEPT ![h] = RemovePlayers(games[h], {k})]
        /\ session' = [session EXCEPT ![c] = NoSession]
    BY <1>3, <2>1 DEF HandleLeaveGame
  <2>3. games'[h] = RemovePlayers(games[h], {k}) /\ games[h] \in Room
    BY <2>1, <2>2 DEF SeatsInv, TypeOK
  <2>4. /\ games'[h].live /\ games'[h].next = games[h].next
        /\ \A n \in ActorNums : games'[h].players[n] = IF n = k THEN Nobody ELSE games[h].players[n]
    BY <2>1, <2>3, RemovePlayersType
  <2>5. \A g \in GameIds : g # h => games'[g] = games[g]
    BY <2>2 DEF SeatsInv, TypeOK
  <2>6. SessionHasSeat'
    <3>. SUFFICES ASSUME NEW d \in Clients, InGame(d)'
                  PROVE  /\ games'[session'[d].game].live
                         /\ session'[d].num \in ActorNums
                         /\ games'[session'[d].game].players[session'[d].num] = d
         BY DEF SessionHasSeat
    <3>1. d # c /\ session'[d] = session[d]
      BY <2>2 DEF SeatsInv, TypeOK, InGame, NoSession
    <3>2. /\ session[d].game \in GameIds /\ session[d].num \in ActorNums
          /\ games[session[d].game].live
          /\ games[session[d].game].players[session[d].num] = d
      BY <3>1 DEF SeatsInv, SessionHasSeat, TypeOK, Session, InGame
    <3>. QED BY <2>1, <2>4, <2>5, <3>1, <3>2
  <2>7. MarkersAreTrue'
    <3>1. \A g \in GameIds, n \in ActorNums :
              pending[g][n] # Never => games'[g].players[n] = games[g].players[n]
      BY <1>2, <2>1, <2>4, <2>5, ServedUnmarked
    <3>. QED BY <1>2, <3>1, ServedUnmarked, MarkersPreserved DEF HandleLeaveGame
  <2>8. FreshSeatsFree'
    BY <2>1, <2>4, <2>5 DEF SeatsInv, FreshSeatsFree
  <2>. QED BY <1>1, <1>2, <2>6, <2>7, <2>8, ServedUnmarked DEF SeatsInv
<1>4. CASE ~InGame(c)
  <2>1. UNCHANGED <<games, session, closedFor, pending>>
    BY <1>4 DEF HandleLeaveGame
  <2>2. MarkersAreTrue'
    BY <1>2, <2>1, ServedUnmarked, MarkersPreserved
  <2>3. SessionHasSeat' /\ FreshSeatsFree'
    BY <2>1 DEF SeatsInv, SessionHasSeat, FreshSeatsFree, InGame
  <2>. QED BY <1>1, <1>2, <2>2, <2>3, ServedUnmarked DEF SeatsInv
<1>. QED BY <1>3, <1>4

\* Handlers that change neither rooms nor markers, and at most take the session
\* of the client out of its room.
LEMMA SeatsQuiet ==
    ASSUME SeatsInv, TypeOK', NEW c \in Clients, Served(c), Returns(c) \/ Raises,
           UNCHANGED <<games, closedFor, pending>>,
           \A d \in Clients : session'[d] = session[d] \/ session'[d].game = NoGame
    PROVE  SeatsInv'
<1>1. MarkersAreTrue'
  BY ServedUnmarked, MarkersPreserved
<1>2. SessionHasSeat'
  BY DEF SeatsInv, SessionHasSeat, InGame
<1>3. FreshSeatsFree'
  BY DEF SeatsInv, FreshSeatsFree
<1>. QED BY <1>1, <1>2, <1>3, ServedUnmarked DEF SeatsInv

LEMMA SeatsAuth ==
    ASSUME SeatsInv, TypeOK', NEW c \in Clients, HandleAuth(c)
    PROVE  SeatsInv'
<1>1. CASE Returns(c)
  <2>1. \A d \in Clients : session'[d] = session[d] \/ session'[d].game = NoGame
    <3>1. session' = session \/ session' = [session EXCEPT ![c].game = NoGame]
      BY DEF HandleAuth
    <3>2. CASE session' = [session EXCEPT ![c].game = NoGame]
      <4>1. \A d \in Clients : d # c => session'[d] = session[d]
        BY <3>2 DEF SeatsInv, TypeOK
      <4>2. session'[c].game = NoGame
        BY <3>2 DEF SeatsInv, TypeOK, Session
      <4>. QED BY <4>1, <4>2
    <3>. QED BY <3>1, <3>2
  <2>. QED BY <1>1, <2>1, SeatsQuiet DEF HandleAuth
<1>2. CASE UNCHANGED session /\ pass' = [pass EXCEPT !.turn = Nobody, !.waiting = @ \ {c}]
  <2>1. pass' = [at |-> pass.at, turn |-> Nobody, waiting |-> pass.waiting \ {c}]
    BY <1>2 DEF SeatsInv, TypeOK, Pass
  <2>2. MarkersAreTrue'
    BY <2>1, MarkersPreserved DEF HandleAuth
  <2>3. SessionHasSeat' /\ FreshSeatsFree'
    BY <1>2 DEF HandleAuth, SeatsInv, SessionHasSeat, FreshSeatsFree, InGame
  <2>4. PassAtRest'
    BY <2>1 DEF PassAtRest, HandleAuth, Served
  <2>. QED BY <2>2, <2>3, <2>4 DEF SeatsInv
<1>. QED BY <1>1, <1>2 DEF HandleAuth

LEMMA SeatsTick ==
    ASSUME SeatsInv, Tick
    PROVE  SeatsInv'
<1>1. TypeOK'
  BY TypeTick DEF SeatsInv
<1>2. MarkersAreTrue'
  <2>. SUFFICES ASSUME NEW g \in GameIds, NEW n \in ActorNums, pending'[g][n] # Never
                PROVE  /\ n \in Seats(g)'
                       /\ closedFor'[games'[g].players[n]] >= pending'[g][n]
                       /\ games'[g].players[n] \notin pass'.waiting \cup {pass'.turn}
       BY DEF MarkersAreTrue
  <2>. DEFINE d == games[g].players[n]
  <2>1. pending'[g][n] = Older(pending[g][n], Grace) /\ UNCHANGED <<games, pass>>
    BY DEF Tick
  <2>2. pending[g][n] # Never
    BY <2>1 DEF Older
  <2>3. n \in Seats(g) /\ closedFor[d] >= pending[g][n] /\ d \notin pass.waiting \cup {pass.turn}
    BY <2>2 DEF SeatsInv, MarkersAreTrue
  <2>4. d \in Clients /\ closedFor'[d] = Older(closedFor[d], Grace)
    BY <2>3 DEF SeatsInv, TypeOK, Room, Seats, Tick
  <2>5. pending[g][n] \in Never .. Grace /\ closedFor[d] \in Never .. Grace
    BY <2>4 DEF SeatsInv, TypeOK
  <2>6. Older(closedFor[d], Grace) >= Older(pending[g][n], Grace)
    BY <2>2, <2>3, <2>5 DEF Older, Never
  <2>. QED BY <2>1, <2>3, <2>4, <2>6 DEF Seats
<1>3. SessionHasSeat' /\ FreshSeatsFree' /\ PassAtRest'
  BY DEF Tick, SeatsInv, SessionHasSeat, FreshSeatsFree, PassAtRest, InGame
<1>. QED BY <1>1, <1>2, <1>3 DEF SeatsInv

LEMMA SeatsSnapshot ==
    ASSUME SeatsInv, Snapshot
    PROVE  SeatsInv'
<1>1. TypeOK'
  BY TypeNext DEF SeatsInv, Next, Step
<1>2. MarkersAreTrue'
  <2>. SUFFICES ASSUME NEW g \in GameIds, NEW n \in ActorNums, pending'[g][n] # Never
                PROVE  /\ n \in Seats(g)'
                       /\ closedFor'[games'[g].players[n]] >= pending'[g][n]
                       /\ games'[g].players[n] \notin pass'.waiting \cup {pass'.turn}
       BY DEF MarkersAreTrue
  <2>. DEFINE d == games[g].players[n]
  <2>1. n \in Seats(g) /\ closedFor[d] >= pending[g][n] /\ pending[g][n] # Never
    BY DEF Snapshot, SeatsInv, MarkersAreTrue
  <2>2. pending[g][n] \in Never .. Grace /\ d # Nobody
    BY <2>1 DEF SeatsInv, TypeOK, Seats
  <2>3. closedFor[d] # Never
    BY <2>1, <2>2 DEF Never
  <2>4. pass'.waiting = {e \in Clients : ~Closed(e)} /\ pass'.turn = Nobody
    BY DEF Snapshot
  <2>. QED BY <2>1, <2>2, <2>3, <2>4 DEF Snapshot, Seats, Closed
<1>3. SessionHasSeat' /\ FreshSeatsFree' /\ PassAtRest'
  BY DEF Snapshot, SeatsInv, SessionHasSeat, FreshSeatsFree, PassAtRest, InGame
<1>. QED BY <1>1, <1>2, <1>3 DEF SeatsInv

LEMMA SeatsDisconnect ==
    ASSUME SeatsInv, NEW c \in Clients, Disconnect(c)
    PROVE  SeatsInv'
<1>1. TypeOK'
  BY TypeNext DEF SeatsInv, Next, Step
<1>2. MarkersAreTrue'
  <2>. SUFFICES ASSUME NEW g \in GameIds, NEW n \in ActorNums, pending[g][n] # Never
                PROVE  closedFor'[games[g].players[n]] >= pending[g][n]
       BY DEF Disconnect, MarkersAreTrue, SeatsInv, Seats
  <2>1. /\ n \in Seats(g) /\ closedFor[games[g].players[n]] >= pending[g][n]
        /\ pending[g][n] \in Never .. Grace
    BY DEF SeatsInv, MarkersAreTrue, TypeOK
  <2>2. games[g].players[n] \in Clients
    BY <2>1 DEF SeatsInv, TypeOK, Room, Seats
  <2>3. closedFor[games[g].players[n]] # Never
    BY <2>1 DEF Never
  <2>. QED BY <2>1, <2>2, <2>3 DEF Disconnect, Closed, SeatsInv, TypeOK
<1>3. SessionHasSeat' /\ FreshSeatsFree' /\ PassAtRest'
  BY DEF Disconnect, SeatsInv, SessionHasSeat, FreshSeatsFree, PassAtRest, InGame
<1>. QED BY <1>1, <1>2, <1>3 DEF SeatsInv

LEMMA SeatsNext ==
    ASSUME SeatsInv, [Next]_vars, "reuse" \notin Liberties
    PROVE  SeatsInv'
<1>0. TypeOK'
  BY TypeNext DEF SeatsInv
<1>1. CASE Sweep
  BY <1>1, SeatsSweep
<1>2. CASE Snapshot
  BY <1>2, SeatsSnapshot
<1>3. CASE EndPass
  <2>1. UNCHANGED <<games, session, closedFor, pending>> /\ pass' = Idle
    BY <1>3 DEF EndPass
  <2>2. MarkersAreTrue' /\ PassAtRest'
    BY <2>1, MarkersPreserved DEF Idle, PassAtRest
  <2>3. SessionHasSeat' /\ FreshSeatsFree'
    BY <2>1 DEF SeatsInv, SessionHasSeat, FreshSeatsFree, InGame
  <2>. QED BY <1>0, <2>2, <2>3 DEF SeatsInv
<1>4. CASE \E c \in Clients : Disconnect(c)
  BY <1>4, SeatsDisconnect
<1>5. CASE Tick
  BY <1>5, SeatsTick
<1>6. CASE \E c \in Clients : Handle(c)
  <2>. PICK c \in Clients : Handle(c)
       BY <1>6
  <2>1. CASE HandleAuth(c)
    BY <1>0, <2>1, SeatsAuth
  <2>2. CASE HandleRaiseEvent(c)
    BY <1>0, <2>2, SeatsQuiet DEF HandleRaiseEvent
  <2>3. CASE HandleLeaveGame(c)
    BY <2>3, SeatsLeave
  <2>4. CASE \E carriesId \in PropIds : HandleSetProperties(c, carriesId)
    BY <1>0, <2>4, SeatsQuiet DEF HandleSetProperties
  <2>5. CASE \E g \in GameIds, carriesId \in PropIds : HandleCreateGame(c, g, carriesId)
    BY <2>5, SeatsCreate DEF PropIds
  <2>6. CASE \E g \in GameIds, carriesId \in PropIds : HandleJoinGame(c, g, carriesId)
    BY <2>6, SeatsJoin DEF PropIds
  <2>. QED BY <2>1, <2>2, <2>3, <2>4, <2>5, <2>6 DEF Handle
<1>7. CASE UNCHANGED vars
  BY <1>0, <1>7 DEF vars, SeatsInv, SessionHasSeat, MarkersAreTrue, FreshSeatsFree,
                    PassAtRest, InGame, Seats
<1>. QED BY <1>1, <1>2, <1>3, <1>4, <1>5, <1>6, <1>7 DEF Next, Step

\* When nobody creates a room under the id of an existing one, the sessions, the
\* seats, the markers and the pass fit together for ever.
THEOREM SeatsFit ==
    ASSUME "reuse" \notin Liberties
    PROVE  Spec => []SeatsInv
BY SeatsInit, SeatsNext, PTL DEF Spec

\* A session always names a room that exists and the seat its client holds there.
THEOREM SessionsHaveSeats ==
    ASSUME "reuse" \notin Liberties
    PROVE  Spec => []SessionHasSeat
<1>1. SeatsInv => SessionHasSeat
  BY DEF SeatsInv
<1>. QED BY <1>1, SeatsFit, PTL

\* A disconnect marker is always about the closed client that is in the seat now.
THEOREM MarkersStayTrue ==
    ASSUME "reuse" \notin Liberties
    PROVE  Spec => []MarkersAreTrue
<1>1. SeatsInv => MarkersAreTrue
  BY DEF SeatsInv
<1>. QED BY <1>1, SeatsFit, PTL

-----------------------------------------------------------------------------
(* Nobody else takes a client's seat away.                                 *)

LEMMA KeepsSeatNext ==
    ASSUME SeatsInv, [Next]_vars, "reuse" \notin Liberties
    PROVE  KeepsSeat
<1>. SUFFICES ASSUME NEW g \in GameIds, NEW n \in ActorNums, NEW c \in Clients,
                     games[g].players[n] = c, games'[g].players[n] # c
              PROVE  \/ /\ session[c] = [game |-> g, num |-> n] /\ session'[c] = NoSession
                        /\ pass.at = "serving"
                     \/ closedFor[c] = Grace
     BY DEF KeepsSeat
<1>1. CASE Sweep
  <2>1. n \in Expired(g)
    BY <1>1, SweptRoom
  <2>2. pending[g][n] >= Grace /\ pending[g][n] # Never
    BY <2>1 DEF Expired, Never
  <2>3. closedFor[c] >= pending[g][n]
    BY <2>2 DEF SeatsInv, MarkersAreTrue
  <2>4. closedFor[c] \in Never .. Grace /\ pending[g][n] \in Never .. Grace
    BY DEF SeatsInv, TypeOK
  <2>. QED BY <2>2, <2>3, <2>4 DEF Never
<1>2. CASE \E d \in Clients : Handle(d)
  <2>. PICK d \in Clients : Handle(d)
       BY <1>2
  <2>1. CASE HandleLeaveGame(d)
    <3>1. /\ InGame(d) /\ games' = [games EXCEPT ![session[d].game] =
                                        RemovePlayers(@, {session[d].num})]
          /\ session' = [session EXCEPT ![d] = NoSession] /\ pass.at = "serving"
      BY <2>1 DEF HandleLeaveGame, Served
    <3>2. games[session[d].game].players[session[d].num] = d
      BY <3>1 DEF SeatsInv, SessionHasSeat
    <3>3. g = session[d].game
      BY <3>1 DEF SeatsInv, TypeOK
    <3>4. games'[g] = RemovePlayers(games[g], {session[d].num}) /\ games[g] \in Room
      BY <3>1, <3>3 DEF SeatsInv, TypeOK
    <3>5. n = session[d].num
      BY <3>4, RemovePlayersType
    <3>6. d = c /\ session[c] = [game |-> g, num |-> n]
      BY <3>2, <3>3, <3>5 DEF SeatsInv, TypeOK, Session
    <3>. QED BY <3>1, <3>6 DEF SeatsInv, TypeOK
  <2>2. CASE \E h \in GameIds, carriesId \in PropIds : HandleCreateGame(d, h, carriesId)
    <3>. PICK h \in GameIds, carriesId \in PropIds : HandleCreateGame(d, h, carriesId)
         BY <2>2
    <3>1. ~games[h].live /\ (g # h => games'[g] = games[g])
      BY DEF HandleCreateGame, SeatsInv, TypeOK
    <3>. QED BY <3>1, NullAssumption DEF SeatsInv, FreshSeatsFree
  <2>3. CASE \E h \in GameIds, carriesId \in PropIds : HandleJoinGame(d, h, carriesId)
    <3>. PICK h \in GameIds, carriesId \in PropIds : HandleJoinGame(d, h, carriesId)
         BY <2>3
    <3>1. g = h /\ JoinAdmitted(d, h, carriesId)
      BY DEF HandleJoinGame, JoinRefused, JoinAdmitted, SeatsInv, TypeOK
    <3>2. games[g] \in Room /\ games[g].next < MaxActor /\ games'[g] = NewSeat(games[g], d)
      BY <3>1 DEF JoinAdmitted, SeatsInv, TypeOK
    <3>3. n = NextNum(games[g])
      BY <3>2, NewSeatType
    <3>4. n > games[g].next
      BY <3>2, <3>3 DEF NextNum, Room
    <3>. QED BY <3>4, NullAssumption DEF SeatsInv, FreshSeatsFree
  <2>. QED BY <2>1, <2>2, <2>3 DEF Handle, HandleAuth, HandleRaiseEvent, HandleSetProperties
<1>. QED BY <1>1, <1>2 DEF Next, Step, Snapshot, EndPass, Disconnect, Tick, vars

\* A client loses its seat only by leaving the room itself, or when its socket
\* has been closed for the whole grace period: no packet of another client, no
\* exception and no sweep takes it away.
THEOREM SeatsKept ==
    ASSUME "reuse" \notin Liberties
    PROVE  Spec => SeatsAreKept
<1>1. SeatsInv /\ [Next]_vars => [KeepsSeat]_vars
  BY KeepsSeatNext
<1>. QED BY <1>1, SeatsFit, PTL DEF Spec, SeatsAreKept

-----------------------------------------------------------------------------
(* Seats and sessions agree.                                               *)

LEMMA RoomsInit == Init => RoomsInv
<1>. SUFFICES ASSUME Init PROVE RoomsInv
     OBVIOUS
<1>1. SeatsInv
  BY SeatsInit
<1>2. SeatsMatchSessions
  BY DEF Init, SeatsMatchSessions, NoRoom, NoSession, ActorNums
<1>3. \A c \in Clients : InGame(c) => ident[c].uid
  BY DEF Init, InGame, NoSession
<1>. QED BY <1>1, <1>2, <1>3 DEF RoomsInv

\* A step that changes no seat and no room of a session.
LEMMA RoomsQuiet ==
    ASSUME RoomsInv, SeatsInv', UNCHANGED <<games, session>>,
           \A c \in Clients : ident[c].uid => ident'[c].uid
    PROVE  RoomsInv'
BY DEF RoomsInv, SeatsMatchSessions, InGame

\* A client in no room sits nowhere, and the occupants of a room have user ids.
LEMMA OccupantsHaveIds ==
    ASSUME RoomsInv, NEW g \in GameIds
    PROVE  /\ \A d \in Occupants(g) : d \in Clients /\ ident[d].uid
           /\ \A c \in Clients : ~InGame(c) => c \notin Occupants(g)
<1>1. \A n \in Seats(g) : games[g].players[n] \in Clients
  BY DEF RoomsInv, SeatsInv, TypeOK, Room, Seats
<1>2. \A n \in Seats(g) : session[games[g].players[n]] = [game |-> g, num |-> n]
  BY <1>1 DEF RoomsInv, SeatsMatchSessions, Seats
<1>3. ASSUME NEW n \in Seats(g) PROVE InGame(games[g].players[n])
  <2>. DEFINE holder == games[g].players[n]
  <2>0. session[holder] = [game |-> g, num |-> n]
    BY <1>2
  <2>. HIDE DEF holder
  <2>1. session[holder].game = g
    BY <2>0
  <2>2. g # NoGame
    BY NullAssumption
  <2>3. InGame(holder)
    BY <2>1, <2>2 DEF InGame
  <2>. QED BY <2>3 DEF holder
<1>4. ASSUME NEW d \in Occupants(g) PROVE d \in Clients /\ ident[d].uid /\ InGame(d)
  <2>1. PICK n \in Seats(g) : d = games[g].players[n]
    BY DEF Occupants
  <2>. QED BY <1>1, <1>3, <2>1 DEF RoomsInv
<1>. QED BY <1>4

\* A room that is created has its creator on the first seat.
LEMMA CreatedRoom ==
    ASSUME TypeOK, Liberties = {}, NEW c \in Clients, NEW h \in GameIds,
           NEW carriesId \in BOOLEAN, HandleCreateGame(c, h, carriesId)
    PROVE  /\ ~InGame(c) /\ ident[c].uid /\ ident'[c].uid /\ ~games[h].live
           /\ games'[h].live
           /\ \A n \in ActorNums : games'[h].players[n] = IF n = 1 THEN c ELSE Nobody
           /\ \A g \in GameIds : g # h => games'[g] = games[g]
           /\ session' = [session EXCEPT ![c] = [game |-> h, num |-> 1]]
           /\ \A d \in Clients : ident'[d].uid = ident[d].uid
           /\ UNCHANGED closedFor
<1>1. ident[c].uid /\ ~InGame(c) /\ ~games[h].live
  BY DEF HandleCreateGame, MayEnterRoom
<1>2. NoRoom \in Room /\ NoRoom.next < MaxActor /\ NextNum(NoRoom) = 1
  BY NoRoomType DEF NoRoom, NextNum
<1>3. games'[h] = NewSeat(NoRoom, c)
  BY DEF TypeOK, HandleCreateGame
<1>4. /\ games'[h].live
      /\ \A n \in ActorNums : games'[h].players[n] = IF n = 1 THEN c ELSE NoRoom.players[n]
  BY <1>2, <1>3, NewSeatType
<1>5. \A n \in ActorNums : NoRoom.players[n] = Nobody
  BY DEF NoRoom
<1>6. \A d \in Clients : ident'[d].uid = ident[d].uid
  BY DEF HandleCreateGame, TypeOK, Ident
<1>7. session' = [session EXCEPT ![c] = [game |-> h, num |-> 1]]
  BY <1>1 DEF HandleCreateGame, Announces
<1>8. \A g \in GameIds : g # h => games'[g] = games[g]
  BY DEF TypeOK, HandleCreateGame
<1>. QED BY <1>1, <1>4, <1>5, <1>6, <1>7, <1>8 DEF HandleCreateGame

\* Nobody fails to be seated half way.
LEMMA JoinedRoom ==
    ASSUME RoomsInv, Liberties = {}, NEW c \in Clients, NEW h \in GameIds,
           NEW carriesId \in BOOLEAN, HandleJoinGame(c, h, carriesId),
           JoinAdmitted(c, h, carriesId)
    PROVE  /\ ~InGame(c) /\ ident[c].uid /\ games[h].live /\ ~Full(h)
           /\ NextNum(games[h]) \in ActorNums
           /\ games[h].players[NextNum(games[h])] = Nobody
           /\ games'[h].live
           /\ \A n \in ActorNums : games'[h].players[n] =
                    IF n = NextNum(games[h]) THEN c ELSE games[h].players[n]
           /\ \A g \in GameIds : g # h => games'[g] = games[g]
           /\ session' = [session EXCEPT ![c] = [game |-> h, num |-> NextNum(games[h])]]
           /\ \A d \in Clients : ident'[d].uid = ident[d].uid
           /\ UNCHANGED closedFor
<1>1. ident[c].uid /\ ~InGame(c)
  BY DEF HandleJoinGame, MayEnterRoom
<1>2. \A d \in Occupants(h) \cup {c} : ident[d].uid
  BY <1>1, OccupantsHaveIds
<1>3. session' = [session EXCEPT ![c] = [game |-> h, num |-> NextNum(games[h])]]
  BY <1>1, <1>2 DEF JoinAdmitted
<1>4. games[h] \in Room /\ games[h].next < MaxActor /\ games[h].live /\ ~Full(h)
  BY DEF RoomsInv, SeatsInv, TypeOK, JoinAdmitted
<1>5. games'[h] = NewSeat(games[h], c)
  BY DEF RoomsInv, SeatsInv, TypeOK, JoinAdmitted
<1>6. /\ games'[h].live /\ NextNum(games[h]) \in ActorNums
      /\ \A n \in ActorNums : games'[h].players[n] =
            IF n = NextNum(games[h]) THEN c ELSE games[h].players[n]
  BY <1>4, <1>5, NewSeatType
<1>7. games[h].players[NextNum(games[h])] = Nobody
  <2>1. NextNum(games[h]) > games[h].next
    BY <1>4 DEF Room, NextNum
  <2>. QED BY <1>6, <2>1 DEF RoomsInv, SeatsInv, FreshSeatsFree
<1>8. \A g \in GameIds : g # h => games'[g] = games[g]
  BY DEF RoomsInv, SeatsInv, TypeOK, JoinAdmitted
<1>9. \A d \in Clients : ident'[d].uid = ident[d].uid
  BY DEF JoinAdmitted, RoomsInv, SeatsInv, TypeOK, Ident
<1>. QED BY <1>1, <1>3, <1>4, <1>6, <1>7, <1>8, <1>9 DEF HandleJoinGame

\* A client that leaves frees the one seat it has.
LEMMA LeftRoom ==
    ASSUME RoomsInv, NEW c \in Clients, HandleLeaveGame(c), InGame(c), NEW h, h = session[c].game
    PROVE  /\ h \in GameIds /\ session[c].num \in ActorNums
           /\ games[h].live /\ games'[h].live
           /\ games[h].players[session[c].num] = c
           /\ \A n \in ActorNums : games'[h].players[n] =
                    IF n = session[c].num THEN Nobody ELSE games[h].players[n]
           /\ \A g \in GameIds : g # h => games'[g] = games[g]
           /\ session' = [session EXCEPT ![c] = NoSession]
           /\ UNCHANGED <<ident, closedFor>>
<1>1. /\ h \in GameIds /\ session[c].num \in ActorNums /\ games[h].live
      /\ games[h].players[session[c].num] = c
  BY DEF RoomsInv, SeatsInv, SessionHasSeat, TypeOK, Session, InGame
<1>2. /\ games' = [games EXCEPT ![h] = RemovePlayers(games[h], {session[c].num})]
      /\ session' = [session EXCEPT ![c] = NoSession]
  BY <1>1 DEF HandleLeaveGame
<1>3. games'[h] = RemovePlayers(games[h], {session[c].num}) /\ games[h] \in Room
  BY <1>1, <1>2 DEF RoomsInv, SeatsInv, TypeOK
<1>4. /\ games'[h].live
      /\ \A n \in ActorNums : games'[h].players[n] =
            IF n = session[c].num THEN Nobody ELSE games[h].players[n]
  BY <1>1, <1>3, RemovePlayersType
<1>5. \A g \in GameIds : g # h => games'[g] = games[g]
  BY <1>2 DEF RoomsInv, SeatsInv, TypeOK
<1>. QED BY <1>1, <1>2, <1>4, <1>5 DEF HandleLeaveGame

LEMMA RoomsSweep ==
    ASSUME RoomsInv, Sweep
    PROVE  RoomsInv'
<1>1. SeatsInv'
  BY SeatsSweep DEF RoomsInv
<1>2. SeatsMatchSessions'
  <2>. SUFFICES ASSUME NEW c \in Clients, NEW g \in GameIds, NEW n \in ActorNums
                PROVE  games'[g].players[n] = c <=> session'[c] = [game |-> g, num |-> n]
       BY DEF SeatsMatchSessions
  <2>1. games'[g].players[n] = IF n \in Expired(g) THEN Nobody ELSE games[g].players[n]
    BY SweptRoom DEF RoomsInv
  <2>2. games[g].players[n] = c <=> session[c] = [game |-> g, num |-> n]
    BY DEF RoomsInv, SeatsMatchSessions
  <2>3. session'[c] = session[c] \/ session'[c] = NoSession
    BY DEF Sweep
  <2>4. NoSession # [game |-> g, num |-> n]
    BY NullAssumption DEF NoSession
  <2>5. CASE games[g].players[n] = c /\ n \in Expired(g)
    <3>1. session'[c] = NoSession
      BY <2>2, <2>5, NullAssumption DEF Sweep, InGame
    <3>. QED BY <2>1, <2>4, <2>5, <3>1, NullAssumption
  <2>6. CASE games[g].players[n] = c /\ n \notin Expired(g)
    <3>1. ASSUME NEW h \in GameIds, NEW m \in Expired(h), games[h].players[m] = c
          PROVE  FALSE
      <4>1. m \in ActorNums
        BY DEF Expired, Seats
      <4>2. session[c] = [game |-> h, num |-> m]
        BY <3>1, <4>1 DEF RoomsInv, SeatsMatchSessions
      <4>. QED BY <2>2, <2>6, <4>2
    <3>2. session'[c] = session[c]
      BY <3>1 DEF Sweep
    <3>. QED BY <2>1, <2>2, <2>6, <3>2
  <2>7. CASE games[g].players[n] # c
    BY <2>1, <2>2, <2>3, <2>4, <2>7, NullAssumption
  <2>. QED BY <2>5, <2>6, <2>7
<1>3. \A c \in Clients : InGame(c)' => ident'[c].uid
  BY DEF Sweep, RoomsInv, InGame, NoSession
<1>. QED BY <1>1, <1>2, <1>3 DEF RoomsInv

LEMMA RoomsCreate ==
    ASSUME RoomsInv, Liberties = {}, NEW c \in Clients, NEW h \in GameIds,
           NEW carriesId \in BOOLEAN, HandleCreateGame(c, h, carriesId)
    PROVE  RoomsInv'
<1>0. TypeOK
  BY DEF RoomsInv, SeatsInv
<1>1. /\ ~InGame(c) /\ ident'[c].uid /\ ~games[h].live
      /\ \A n \in ActorNums : games'[h].players[n] = IF n = 1 THEN c ELSE Nobody
      /\ \A g \in GameIds : g # h => games'[g] = games[g]
      /\ session' = [session EXCEPT ![c] = [game |-> h, num |-> 1]]
      /\ \A d \in Clients : ident'[d].uid = ident[d].uid
  BY <1>0, CreatedRoom
<1>2. SeatsInv'
  BY SeatsCreate DEF RoomsInv
<1>3. SeatsMatchSessions'
  <2>. SUFFICES ASSUME NEW d \in Clients, NEW g \in GameIds, NEW n \in ActorNums
                PROVE  games'[g].players[n] = d <=> session'[d] = [game |-> g, num |-> n]
       BY DEF SeatsMatchSessions
  <2>1. session'[d] = IF d = c THEN [game |-> h, num |-> 1] ELSE session[d]
    BY <1>0, <1>1 DEF TypeOK
  <2>2. games[g].players[n] = d <=> session[d] = [game |-> g, num |-> n]
    BY DEF RoomsInv, SeatsMatchSessions
  <2>3. session[d].game # h
    BY <1>1, DeadRoomUnused DEF RoomsInv
  <2>4. session[c].game # g
    BY <1>1, NullAssumption DEF InGame
  <2>5. CASE g = h
    BY <1>1, <2>1, <2>3, <2>5, NullAssumption
  <2>6. CASE g # h
    BY <1>1, <2>1, <2>2, <2>4, <2>6
  <2>. QED BY <2>5, <2>6
<1>4. \A d \in Clients : InGame(d)' => ident'[d].uid
  BY <1>0, <1>1 DEF RoomsInv, InGame, TypeOK
<1>. QED BY <1>2, <1>3, <1>4 DEF RoomsInv

LEMMA RoomsJoin ==
    ASSUME RoomsInv, Liberties = {}, NEW c \in Clients, NEW h \in GameIds,
           NEW carriesId \in BOOLEAN, HandleJoinGame(c, h, carriesId)
    PROVE  RoomsInv'
<1>0. SeatsInv'
  BY SeatsJoin DEF RoomsInv
<1>1. CASE JoinRefused(c, h, carriesId)
  <2>1. \A d \in Clients : ident[d].uid => ident'[d].uid
    BY <1>1 DEF JoinRefused, RoomsInv, SeatsInv, TypeOK, Ident
  <2>2. UNCHANGED <<games, session>>
    BY <1>1 DEF JoinRefused
  <2>. QED BY <1>0, <2>1, <2>2, RoomsQuiet
<1>2. CASE JoinAdmitted(c, h, carriesId)
  <2>. DEFINE k == NextNum(games[h])
  <2>1. /\ ~InGame(c) /\ ident[c].uid /\ k \in ActorNums
        /\ games[h].players[k] = Nobody
        /\ \A n \in ActorNums : games'[h].players[n] =
                 IF n = k THEN c ELSE games[h].players[n]
        /\ \A g \in GameIds : g # h => games'[g] = games[g]
        /\ session' = [session EXCEPT ![c] = [game |-> h, num |-> k]]
        /\ \A d \in Clients : ident'[d].uid = ident[d].uid
    BY <1>2, JoinedRoom
  <2>. HIDE DEF k
  <2>2. SeatsMatchSessions'
    <3>. SUFFICES ASSUME NEW d \in Clients, NEW g \in GameIds, NEW n \in ActorNums
                  PROVE  games'[g].players[n] = d <=> session'[d] = [game |-> g, num |-> n]
         BY DEF SeatsMatchSessions
    <3>1. session'[d] = IF d = c THEN [game |-> h, num |-> k] ELSE session[d]
      BY <2>1 DEF RoomsInv, SeatsInv, TypeOK
    <3>2. games[g].players[n] = d <=> session[d] = [game |-> g, num |-> n]
      BY DEF RoomsInv, SeatsMatchSessions
    <3>3. session[c].game # g
      BY <2>1, NullAssumption DEF InGame
    <3>4. CASE g = h /\ n = k
      BY <2>1, <3>1, <3>2, <3>4, NullAssumption
    <3>5. CASE ~(g = h /\ n = k)
      BY <2>1, <3>1, <3>2, <3>3, <3>5
    <3>. QED BY <3>4, <3>5
  <2>3. \A d \in Clients : InGame(d)' => ident'[d].uid
    BY <2>1 DEF RoomsInv, SeatsInv, TypeOK, InGame
  <2>. QED BY <1>0, <2>2, <2>3 DEF RoomsInv
<1>. QED BY <1>1, <1>2 DEF HandleJoinGame

LEMMA RoomsLeave ==
    ASSUME RoomsInv, NEW c \in Clients, HandleLeaveGame(c)
    PROVE  RoomsInv'
<1>0. SeatsInv'
  BY SeatsLeave DEF RoomsInv
<1>1. CASE ~InGame(c)
  BY <1>0, <1>1, RoomsQuiet DEF HandleLeaveGame
<1>2. CASE InGame(c)
  <2>. DEFINE h == session[c].game
              k == session[c].num
  <2>1. /\ h \in GameIds /\ k \in ActorNums /\ games[h].players[k] = c
        /\ \A n \in ActorNums : games'[h].players[n] =
                 IF n = k THEN Nobody ELSE games[h].players[n]
        /\ \A g \in GameIds : g # h => games'[g] = games[g]
        /\ session' = [session EXCEPT ![c] = NoSession]
        /\ UNCHANGED ident
    BY <1>2, LeftRoom
  <2>. HIDE DEF h, k
  <2>2. SeatsMatchSessions'
    <3>. SUFFICES ASSUME NEW d \in Clients, NEW g \in GameIds, NEW n \in ActorNums
                  PROVE  games'[g].players[n] = d <=> session'[d] = [game |-> g, num |-> n]
         BY DEF SeatsMatchSessions
    <3>1. session'[d] = IF d = c THEN NoSession ELSE session[d]
      BY <2>1 DEF RoomsInv, SeatsInv, TypeOK
    <3>2. games[g].players[n] = d <=> session[d] = [game |-> g, num |-> n]
      BY DEF RoomsInv, SeatsMatchSessions
    <3>3. session[c] = [game |-> h, num |-> k]
      BY <2>1 DEF RoomsInv, SeatsMatchSessions
    <3>4. NoSession # [game |-> g, num |-> n]
      BY NullAssumption DEF NoSession
    <3>5. CASE g = h /\ n = k
      BY <2>1, <3>1, <3>2, <3>3, <3>4, <3>5, NullAssumption
    <3>6. CASE ~(g = h /\ n = k)
      <4>1. games'[g].players[n] = games[g].players[n]
        BY <2>1, <3>6
      <4>2. session[c] # [game |-> g, num |-> n]
        BY <3>3, <3>6
      <4>. QED BY <3>1, <3>2, <3>4, <4>1, <4>2
    <3>. QED BY <3>5, <3>6
  <2>3. \A d \in Clients : InGame(d)' => ident'[d].uid
    BY <2>1 DEF RoomsInv, SeatsInv, TypeOK, InGame, NoSession
  <2>. QED BY <1>0, <2>2, <2>3 DEF RoomsInv
<1>. QED BY <1>1, <1>2

LEMMA RoomsAuth ==
    ASSUME RoomsInv, Liberties = {}, NEW c \in Clients, HandleAuth(c), SeatsInv'
    PROVE  RoomsInv'
<1>1. ~InGame(c)
  BY DEF HandleAuth
<1>2. session' = session
  <2>1. [session EXCEPT ![c].game = NoGame] = session
    BY <1>1 DEF RoomsInv, SeatsInv, TypeOK, Session, InGame
  <2>. QED BY <2>1 DEF HandleAuth
<1>3. games' = games
  BY DEF HandleAuth
<1>4. \A d \in Clients : ident[d].uid => ident'[d].uid
  BY DEF HandleAuth, RoomsInv, SeatsInv, TypeOK, Ident
<1>. QED BY <1>2, <1>3, <1>4, RoomsQuiet

LEMMA RoomsNext ==
    ASSUME RoomsInv, Liberties = {}, [Next]_vars
    PROVE  RoomsInv'
<1>0. SeatsInv'
  BY SeatsNext DEF RoomsInv
<1>1. CASE Sweep
  BY <1>1, RoomsSweep
<1>2. CASE Snapshot
  BY <1>0, <1>2, RoomsQuiet DEF Snapshot
<1>3. CASE EndPass
  BY <1>0, <1>3, RoomsQuiet DEF EndPass
<1>4. CASE \E c \in Clients : Disconnect(c)
  BY <1>0, <1>4, RoomsQuiet DEF Disconnect
<1>5. CASE Tick
  BY <1>0, <1>5, RoomsQuiet DEF Tick
<1>6. CASE \E c \in Clients : Handle(c)
  <2>. PICK c \in Clients : Handle(c)
       BY <1>6
  <2>1. CASE HandleAuth(c)
    BY <1>0, <2>1, RoomsAuth
  <2>2. CASE HandleRaiseEvent(c)
    BY <1>0, <2>2, RoomsQuiet DEF HandleRaiseEvent
  <2>3. CASE HandleLeaveGame(c)
    BY <2>3, RoomsLeave
  <2>4. CASE \E carriesId \in PropIds : HandleSetProperties(c, carriesId)
    <3>1. \A d \in Clients : ident'[d].uid = ident[d].uid
      BY <2>4 DEF HandleSetProperties, RoomsInv, SeatsInv, TypeOK, Ident
    <3>2. UNCHANGED <<games, session>>
      BY <2>4 DEF HandleSetProperties
    <3>. QED BY <1>0, <3>1, <3>2, RoomsQuiet
  <2>5. CASE \E h \in GameIds, carriesId \in PropIds : HandleCreateGame(c, h, carriesId)
    BY <2>5, RoomsCreate DEF PropIds
  <2>6. CASE \E h \in GameIds, carriesId \in PropIds : HandleJoinGame(c, h, carriesId)
    BY <2>6, RoomsJoin DEF PropIds
  <2>. QED BY <2>1, <2>2, <2>3, <2>4, <2>5, <2>6 DEF Handle
<1>7. CASE UNCHANGED vars
  BY <1>0, <1>7, RoomsQuiet DEF vars
<1>. QED BY <1>1, <1>2, <1>3, <1>4, <1>5, <1>6, <1>7 DEF Next, Step

\* When clients take no liberties, a client holds exactly the seat its session
\* names: no client is in two rooms and no seat is held by a client that does not
\* know of it (games_manager.py, game_server.py: sessions and rooms are changed apart).
THEOREM SeatsAndSessionsMatch ==
    ASSUME Liberties = {}
    PROVE  Spec => []SeatsMatchSessions
<1>1. RoomsInv /\ [Next]_vars => RoomsInv'
  BY RoomsNext
<1>2. RoomsInv => SeatsMatchSessions
  BY DEF RoomsInv
<1>. QED BY <1>1, <1>2, RoomsInit, PTL DEF Spec

-----------------------------------------------------------------------------
(* What the members of a room were told.                                   *)

LEMMA KnowInit == Init => MembersKnow
BY NullAssumption DEF Init, NoSession, MembersKnow

\* A step that changes no room, no room of a session and nothing that was sent.
LEMMA KnowQuiet ==
    ASSUME MembersKnow, UNCHANGED <<games, known>>,
           \A c \in Clients : session'[c].game \in {session[c].game, NoGame}
    PROVE  MembersKnow'
<1>. SUFFICES ASSUME NEW c \in Clients, NEW g \in GameIds, session'[c].game = g,
                     NEW n \in ActorNums, NEW d \in Clients
              PROVE  /\ n \in Seats(g)' => (<<n, d>> \in known'[c] <=> d = games'[g].players[n])
                     /\ <<n, d>> \in known'[c] => n <= games'[g].next
     BY DEF MembersKnow
<1>1. session[c].game = g
  BY NullAssumption
<1>2. Seats(g)' = Seats(g)
  BY DEF Seats
<1>. QED BY <1>1, <1>2 DEF MembersKnow

\* Whoever is left in a room has lost other members at most: the sweep resets the session of
\* everybody it unseats, and removes only rooms it leaves empty.
LEMMA KnowSweep ==
    ASSUME RoomsInv, MembersKnow, Sweep
    PROVE  MembersKnow'
<1>. SUFFICES ASSUME NEW c \in Clients, NEW g \in GameIds, session'[c].game = g,
                     NEW n \in ActorNums, NEW d \in Clients
              PROVE  /\ n \in Seats(g)' => (<<n, d>> \in known'[c] <=> d = games'[g].players[n])
                     /\ <<n, d>> \in known'[c] => n <= games'[g].next
     BY DEF MembersKnow
<1>1. session[c].game = g /\ session'[c] = session[c] /\ known' = known
  BY NullAssumption DEF Sweep, NoSession
<1>2. PICK m \in ActorNums : games[g].players[m] = c
  BY <1>1, NullAssumption DEF RoomsInv, SeatsInv, SessionHasSeat, InGame
<1>3. m \in Seats(g) /\ m \notin Expired(g)
  BY <1>1, <1>2, NullAssumption DEF Sweep, Seats, InGame, NoSession
<1>4. ~Reclaimed(g)
  BY <1>3 DEF Reclaimed, Vacated
<1>5. games'[g] = RemovePlayers(games[g], Expired(g))
  BY <1>4 DEF Sweep
<1>6. /\ games'[g].players[n] = IF n \in Expired(g) THEN Nobody ELSE games[g].players[n]
      /\ games'[g].next = games[g].next
  BY <1>5 DEF RemovePlayers
<1>7. n \in Seats(g)' => n \in Seats(g) /\ games'[g].players[n] = games[g].players[n]
  BY <1>6 DEF Seats
<1>. QED BY <1>1, <1>6, <1>7 DEF MembersKnow

\* The creator of a room is told of itself.
LEMMA KnowCreate ==
    ASSUME RoomsInv, MembersKnow, Liberties = {}, NEW c \in Clients, NEW h \in GameIds,
           NEW carriesId \in BOOLEAN, HandleCreateGame(c, h, carriesId)
    PROVE  MembersKnow'
<1>. SUFFICES ASSUME NEW e \in Clients, NEW g \in GameIds, session'[e].game = g,
                     NEW n \in ActorNums, NEW d \in Clients
              PROVE  /\ n \in Seats(g)' => (<<n, d>> \in known'[e] <=> d = games'[g].players[n])
                     /\ <<n, d>> \in known'[e] => n <= games'[g].next
     BY DEF MembersKnow
<1>0. TypeOK
  BY DEF RoomsInv, SeatsInv
<1>1. /\ ~InGame(c) /\ ident[c].uid /\ ~games[h].live
      /\ \A i \in ActorNums : games'[h].players[i] = IF i = 1 THEN c ELSE Nobody
      /\ \A i \in GameIds : i # h => games'[i] = games[i]
      /\ session' = [session EXCEPT ![c] = [game |-> h, num |-> 1]]
  BY <1>0, CreatedRoom
<1>2. known' = [known EXCEPT ![c] = {<<1, c>>}]
  BY <1>1 DEF HandleCreateGame, Announces
<1>3. games'[h].next = 1
  BY <1>0 DEF TypeOK, HandleCreateGame, NewSeat, NextNum, NoRoom
<1>4. CASE e = c
  <2>1. g = h /\ known'[e] = {<<1, c>>}
    BY <1>0, <1>1, <1>2, <1>4 DEF TypeOK
  <2>2. n \in Seats(g)' => n = 1
    BY <1>1, <2>1 DEF Seats
  <2>. QED BY <1>1, <1>3, <2>1, <2>2
<1>5. CASE e # c
  <2>1. session'[e] = session[e] /\ known'[e] = known[e]
    BY <1>0, <1>1, <1>2, <1>5 DEF TypeOK
  <2>2. session[e].game # h
    BY <1>1, DeadRoomUnused DEF RoomsInv
  <2>3. games'[g] = games[g]
    BY <1>1, <2>1, <2>2
  <2>. QED BY <2>1, <2>3 DEF MembersKnow, Seats
<1>. QED BY <1>4, <1>5

\* A client that joins is told of everybody in the room, and everybody in the room of it,
\* under a number nobody was told of before.
LEMMA KnowJoin ==
    ASSUME RoomsInv, MembersKnow, Liberties = {}, NEW c \in Clients, NEW h \in GameIds,
           NEW carriesId \in BOOLEAN, HandleJoinGame(c, h, carriesId),
           JoinAdmitted(c, h, carriesId)
    PROVE  MembersKnow'
<1>. DEFINE k == NextNum(games[h])
<1>. SUFFICES ASSUME NEW e \in Clients, NEW g \in GameIds, session'[e].game = g,
                     NEW n \in ActorNums, NEW d \in Clients
              PROVE  /\ n \in Seats(g)' => (<<n, d>> \in known'[e] <=> d = games'[g].players[n])
                     /\ <<n, d>> \in known'[e] => n <= games'[g].next
     BY DEF MembersKnow
<1>0. TypeOK
  BY DEF RoomsInv, SeatsInv
<1>1. /\ ~InGame(c) /\ ident[c].uid /\ k \in ActorNums /\ games[h].players[k] = Nobody
      /\ \A i \in ActorNums : games'[h].players[i] = IF i = k THEN c ELSE games[h].players[i]
      /\ \A i \in GameIds : i # h => games'[i] = games[i]
      /\ session' = [session EXCEPT ![c] = [game |-> h, num |-> k]]
  BY JoinedRoom
<1>2. k = games[h].next + 1 /\ games'[h].next = k /\ games[h].next \in Nat
  BY <1>0 DEF TypeOK, Room, JoinAdmitted, NewSeat, NextNum
<1>3. \A i \in Occupants(h) \cup {c} : ident[i].uid
  BY <1>1, OccupantsHaveIds
<1>. DEFINE announced == [i \in Clients |-> IF i \in Occupants(h) THEN known[i] \cup {<<k, c>>}
                                            ELSE known[i]]
<1>4. known' = [announced EXCEPT ![c] = Roster(h) \cup {<<k, c>>}]
  BY <1>1, <1>3 DEF JoinAdmitted, Announces
<1>. HIDE DEF k
<1>5. CASE e = c
  <2>1. g = h /\ known'[e] = Roster(h) \cup {<<k, c>>}
    BY <1>0, <1>1, <1>4, <1>5 DEF TypeOK
  <2>2. <<n, d>> \in known'[e] <=> (n \in Seats(h) /\ d = games[h].players[n]) \/ (n = k /\ d = c)
    BY <2>1 DEF Roster
  <2>3. n \in Seats(h) => n <= games[h].next
    BY <1>2 DEF RoomsInv, SeatsInv, FreshSeatsFree, Seats, ActorNums
  <2>4. n \in Seats(g)' <=> n \in Seats(h) \/ n = k
    BY <1>1, <2>1, NullAssumption DEF Seats
  <2>. QED BY <1>1, <1>2, <2>1, <2>2, <2>3, <2>4 DEF Seats, ActorNums
<1>6. CASE e # c /\ g = h
  <2>1. session'[e] = session[e] /\ session[e].game = h
    BY <1>0, <1>1, <1>6 DEF TypeOK
  <2>2. e \in Occupants(h)
    BY <2>1, NullAssumption DEF RoomsInv, SeatsInv, SessionHasSeat, InGame, Occupants, Seats
  <2>3. known'[e] = known[e] \cup {<<k, c>>}
    BY <1>4, <1>6, <2>2
  <2>4. <<n, d>> \in known'[e] <=> <<n, d>> \in known[e] \/ (n = k /\ d = c)
    BY <2>3
  <2>5. CASE n = k
    <3>1. <<n, d>> \notin known[e]
      <4>1. <<n, d>> \in known[e] => n <= games[h].next
        BY <2>1 DEF MembersKnow
      <4>. QED BY <1>2, <2>5, <4>1
    <3>. QED BY <1>1, <1>2, <1>6, <2>4, <2>5, <3>1
  <2>6. CASE n # k
    <3>1. n \in Seats(g)' <=> n \in Seats(h)
      BY <1>1, <1>6, <2>6 DEF Seats
    <3>2. games'[h].players[n] = games[h].players[n] /\ n \in Int
      BY <1>1, <2>6 DEF ActorNums
    <3>. QED BY <1>2, <1>6, <2>1, <2>4, <2>6, <3>1, <3>2 DEF MembersKnow
  <2>. QED BY <2>5, <2>6
<1>7. CASE e # c /\ g # h
  <2>1. session'[e] = session[e] /\ games'[g] = games[g]
    BY <1>0, <1>1, <1>7 DEF TypeOK
  <2>2. e \notin Occupants(h)
    <3>. SUFFICES ASSUME NEW i \in Seats(h), games[h].players[i] = e PROVE FALSE
      BY DEF Occupants
    <3>1. session[e] = [game |-> h, num |-> i]
      BY DEF RoomsInv, SeatsMatchSessions, Seats
    <3>. QED BY <1>7, <2>1, <3>1
  <2>3. known'[e] = known[e]
    BY <1>4, <1>7, <2>2
  <2>. QED BY <2>1, <2>3 DEF MembersKnow, Seats
<1>. QED BY <1>5, <1>6, <1>7

\* A client that leaves is told nothing more, and nobody is told that it left.
LEMMA KnowLeave ==
    ASSUME RoomsInv, MembersKnow, NEW c \in Clients, HandleLeaveGame(c), InGame(c)
    PROVE  MembersKnow'
<1>. DEFINE h == session[c].game
            k == session[c].num
<1>. SUFFICES ASSUME NEW e \in Clients, NEW g \in GameIds, session'[e].game = g,
                     NEW n \in ActorNums, NEW d \in Clients
              PROVE  /\ n \in Seats(g)' => (<<n, d>> \in known'[e] <=> d = games'[g].players[n])
                     /\ <<n, d>> \in known'[e] => n <= games'[g].next
     BY DEF MembersKnow
<1>0. TypeOK
  BY DEF RoomsInv, SeatsInv
<1>1. /\ h \in GameIds /\ games[h].live
      /\ \A i \in ActorNums : games'[h].players[i] = IF i = k THEN Nobody ELSE games[h].players[i]
      /\ \A i \in GameIds : i # h => games'[i] = games[i]
      /\ session' = [session EXCEPT ![c] = NoSession]
  BY LeftRoom
<1>2. known' = [known EXCEPT ![c] = {}] /\ games' = [games EXCEPT ![h] = RemovePlayers(@, {k})]
  BY <1>1 DEF HandleLeaveGame
<1>3. games'[h].next = games[h].next
  BY <1>0, <1>1, <1>2 DEF TypeOK, RemovePlayers
<1>. HIDE DEF h, k
<1>4. e # c
  BY <1>0, <1>1, NullAssumption DEF NoSession, TypeOK
<1>5. session'[e] = session[e] /\ known'[e] = known[e]
  BY <1>0, <1>1, <1>2, <1>4 DEF TypeOK
<1>6. games'[g].next = games[g].next
  BY <1>1, <1>3
<1>7. n \in Seats(g)' => n \in Seats(g) /\ games'[g].players[n] = games[g].players[n]
  BY <1>1 DEF Seats
<1>. QED BY <1>5, <1>6, <1>7 DEF MembersKnow

LEMMA KnowNext ==
    ASSUME RoomsInv, MembersKnow, Liberties = {}, [Next]_vars
    PROVE  MembersKnow'
<1>1. CASE Sweep
  BY <1>1, KnowSweep
<1>2. CASE Snapshot \/ EndPass \/ Tick \/ UNCHANGED vars
  BY <1>2, KnowQuiet DEF Snapshot, EndPass, Tick, vars
<1>3. CASE \E c \in Clients : Disconnect(c)
  BY <1>3, KnowQuiet DEF Disconnect
<1>4. CASE \E c \in Clients : Handle(c)
  <2>. PICK c \in Clients : Handle(c)
       BY <1>4
  <2>1. CASE HandleAuth(c)
    <3>1. UNCHANGED <<games, known>>
      BY <2>1 DEF HandleAuth
    <3>2. session' = session \/ session' = [session EXCEPT ![c].game = NoGame]
      BY <2>1 DEF HandleAuth
    <3>3. \A d \in Clients : session'[d].game \in {session[d].game, NoGame}
      BY <3>2 DEF RoomsInv, SeatsInv, TypeOK, Session
    <3>. QED BY <3>1, <3>3, KnowQuiet
  <2>2. CASE HandleRaiseEvent(c) \/ \E carriesId \in PropIds : HandleSetProperties(c, carriesId)
    BY <2>2, KnowQuiet DEF HandleRaiseEvent, HandleSetProperties
  <2>3. CASE HandleLeaveGame(c)
    <3>1. CASE InGame(c)
      BY <2>3, <3>1, KnowLeave
    <3>2. CASE ~InGame(c)
      BY <2>3, <3>2, KnowQuiet DEF HandleLeaveGame
    <3>. QED BY <3>1, <3>2
  <2>4. CASE \E h \in GameIds, carriesId \in PropIds : HandleCreateGame(c, h, carriesId)
    BY <2>4, KnowCreate DEF PropIds
  <2>5. CASE \E h \in GameIds, carriesId \in PropIds : HandleJoinGame(c, h, carriesId)
    <3>. PICK h \in GameIds, carriesId \in PropIds : HandleJoinGame(c, h, carriesId)
         BY <2>5
    <3>1. CASE JoinRefused(c, h, carriesId)
      BY <3>1, KnowQuiet DEF JoinRefused
    <3>2. CASE JoinAdmitted(c, h, carriesId)
      BY <3>2, KnowJoin DEF PropIds
    <3>. QED BY <3>1, <3>2 DEF HandleJoinGame
  <2>. QED BY <2>1, <2>2, <2>3, <2>4, <2>5 DEF Handle
<1>. QED BY <1>1, <1>2, <1>3, <1>4 DEF Next, Step

LEMMA KnowingAgrees ==
    ASSUME RoomsInv, MembersKnow
    PROVE  RostersAgree
<1>. SUFFICES ASSUME NEW g \in GameIds, NEW n \in Seats(g), NEW m \in Seats(g)
              PROVE  {p \in known[games[g].players[m]] : p[1] = n} = {<<n, games[g].players[n]>>}
     BY DEF RostersAgree
<1>. DEFINE e == games[g].players[m]
<1>1. /\ n \in ActorNums /\ e \in Clients /\ games[g].players[n] \in Clients
      /\ known[e] \subseteq ActorNums \X Clients
  BY DEF RoomsInv, SeatsInv, TypeOK, Room, Seats
<1>2. session[e].game = g
  <2>1. session[e] = [game |-> g, num |-> m]
    BY <1>1 DEF RoomsInv, SeatsMatchSessions, Seats
  <2>. QED BY <2>1
<1>. HIDE DEF e
<1>3. \A d \in Clients : <<n, d>> \in known[e] <=> d = games[g].players[n]
  BY <1>1, <1>2 DEF MembersKnow
<1>4. ASSUME NEW p \in known[e]
      PROVE  p[1] = n <=> p = <<n, games[g].players[n]>>
  <2>1. PICK i \in ActorNums, d \in Clients : p = <<i, d>>
    BY <1>1
  <2>. QED BY <1>1, <1>3, <2>1
<1>5. <<n, games[g].players[n]>> \in known[e]
  BY <1>1, <1>3
<1>. QED BY <1>4, <1>5 DEF e

\* When clients take no liberties, for any number of them, of rooms and of seats and any
\* timeouts: every member of a room was sent each other member under its number, and nobody
\* else under that number, although the members who left are never announced
\* (game_object.py join_player, games_manager.py: each actor number is handed out once).
THEOREM RostersDoAgree ==
    ASSUME Liberties = {}
    PROVE  Spec => []RostersAgree
<1>1. RoomsInv /\ [Next]_vars => RoomsInv'
  BY RoomsNext
<1>2. RoomsInv /\ MembersKnow /\ [Next]_vars => MembersKnow'
  BY KnowNext
<1>3. RoomsInv /\ MembersKnow => RostersAgree
  BY KnowingAgrees
<1>. QED BY <1>1, <1>2, <1>3, RoomsInit, KnowInit, PTL DEF Spec

-----------------------------------------------------------------------------
(* The refinement: every step is one of Membership's, or changes nothing   *)
(* that Membership sees.                                                   *)

LEMMA MembersInit == Init => Abstract!Init
<1>. SUFFICES ASSUME Init PROVE Abstract!Init
     OBVIOUS
<1>1. \A g \in GameIds : ~games[g].live /\ Occupants(g) = {}
  BY DEF Init, NoRoom, Occupants, Seats
<1>2. MembersOf = [g \in GameIds |-> [exists |-> FALSE, members |-> {}]]
  BY <1>1, NoRoomType DEF MembersOf, Init, NoRoom
<1>3. AwayClients = {}
  BY TimeAssumption DEF Init, AwayClients, Never
<1>. QED BY <1>2, <1>3 DEF Abstract!Init, Abstract!NoSuchRoom

LEMMA MembersUnchanged ==
    ASSUME UNCHANGED games
    PROVE  UNCHANGED MembersOf
BY DEF MembersOf, Occupants, Seats

LEMMA AwayUnchanged ==
    ASSUME UNCHANGED closedFor
    PROVE  UNCHANGED AwayClients
BY DEF AwayClients

LEMMA InNoRoomAbove ==
    ASSUME RoomsInv, NEW c \in Clients, ~InGame(c)
    PROVE  Abstract!InNoRoom(c)
BY OccupantsHaveIds DEF Abstract!InNoRoom, MembersOf

LEMMA SweepCleans ==
    ASSUME RoomsInv, Sweep
    PROVE  Abstract!Next
<1>. DEFINE lost == {c \in Clients : \E g \in GameIds : \E n \in Expired(g) :
                                          games[g].players[n] = c}
            removed == {g \in GameIds : Reclaimed(g)}
<1>1. lost \subseteq AwayClients
  <2>. SUFFICES ASSUME NEW c \in Clients, NEW g \in GameIds, NEW n \in Expired(g),
                       games[g].players[n] = c
                PROVE  closedFor[c] = Grace
       BY DEF AwayClients
  <2>1. n \in ActorNums /\ pending[g][n] >= Grace
    BY DEF Expired, Seats
  <2>2. closedFor[c] >= pending[g][n] /\ pending[g][n] \in Never .. Grace
    BY <2>1, TimeAssumption DEF RoomsInv, SeatsInv, MarkersAreTrue, TypeOK, Never
  <2>3. closedFor[c] \in Never .. Grace
    BY DEF RoomsInv, SeatsInv, TypeOK
  <2>. QED BY <2>1, <2>2, <2>3, TimeAssumption DEF Never
<1>2. ASSUME NEW g \in GameIds, NEW n \in Seats(g)
      PROVE  games[g].players[n] \in lost <=> n \in Expired(g)
  <2>. DEFINE holder == games[g].players[n]
  <2>1. n \in ActorNums /\ holder \in Clients
    BY DEF Seats, RoomsInv, SeatsInv, TypeOK, Room
  <2>2. session[holder] = [game |-> g, num |-> n]
    BY <2>1 DEF RoomsInv, SeatsMatchSessions
  <2>. HIDE DEF holder
  <2>3. ASSUME NEW h \in GameIds, NEW m \in Expired(h), games[h].players[m] = holder
        PROVE  n \in Expired(g)
    <3>1. m \in ActorNums
      BY DEF Expired, Seats
    <3>2. session[holder] = [game |-> h, num |-> m]
      BY <2>1, <2>3, <3>1 DEF RoomsInv, SeatsMatchSessions
    <3>3. [game |-> h, num |-> m] = [game |-> g, num |-> n]
      BY <2>2, <3>2
    <3>4. h = g /\ m = n
      BY <3>3
    <3>. QED BY <3>4
  <2>. QED BY <2>1, <2>3 DEF holder
<1>3. ASSUME NEW g \in GameIds, Reclaimed(g)
      PROVE  games[g].live /\ Occupants(g) \subseteq lost /\ ~games'[g].live /\ Occupants(g)' = {}
  <2>1. games[g].live /\ Seats(g) = Expired(g)
    BY <1>3 DEF Reclaimed, Vacated
  <2>2. Occupants(g) \subseteq lost
    BY <1>2, <2>1 DEF Occupants
  <2>3. ~games'[g].live /\ Occupants(g)' = {}
    BY <1>3, SweptRoom DEF RoomsInv, Occupants, Seats
  <2>. QED BY <2>1, <2>2, <2>3
<1>4. ASSUME NEW g \in GameIds, ~Reclaimed(g)
      PROVE  games'[g].live = games[g].live /\ Occupants(g)' = Occupants(g) \ lost
  <2>1. /\ games'[g].live = games[g].live
        /\ \A n \in ActorNums : games'[g].players[n] =
                IF n \in Expired(g) THEN Nobody ELSE games[g].players[n]
    BY <1>4, SweptRoom DEF RoomsInv
  <2>2. Seats(g)' = Seats(g) \ Expired(g)
    BY <2>1 DEF Seats, Expired
  <2>3. \A n \in Seats(g)' : games'[g].players[n] = games[g].players[n]
    BY <2>1, <2>2 DEF Seats
  <2>. HIDE DEF lost
  <2>4. Occupants(g)' = {games[g].players[n] : n \in Seats(g) \ Expired(g)}
    BY <2>2, <2>3 DEF Occupants
  <2>5. ASSUME NEW d
        PROVE  d \in Occupants(g)' <=> d \in Occupants(g) \ lost
    <3>1. d \in Occupants(g)' <=> \E n \in Seats(g) : n \notin Expired(g) /\ d = games[g].players[n]
      BY <2>4
    <3>2. d \in Occupants(g) \ lost <=> \E n \in Seats(g) : d \notin lost /\ d = games[g].players[n]
      BY DEF Occupants
    <3>3. \A n \in Seats(g) : games[g].players[n] \in lost <=> n \in Expired(g)
      BY <1>2
    <3>. QED BY <3>1, <3>2, <3>3
  <2>. QED BY <2>1, <2>5
<1>. HIDE DEF lost
<1>5. MembersOf' = [g \in GameIds |->
          IF g \in removed THEN [exists |-> FALSE, members |-> {}]
          ELSE [exists |-> MembersOf[g].exists, members |-> MembersOf[g].members \ lost]]
  <2>1. ASSUME NEW g \in GameIds
        PROVE  [exists |-> games'[g].live, members |-> Occupants(g)'] =
                 IF g \in removed THEN [exists |-> FALSE, members |-> {}]
                 ELSE [exists |-> games[g].live, members |-> Occupants(g) \ lost]
    <3>1. CASE Reclaimed(g)
      <4>1. games'[g].live = FALSE
        BY <1>3, <3>1, TypeSweep DEF RoomsInv, SeatsInv, TypeOK, Room
      <4>. QED BY <1>3, <3>1, <4>1
    <3>2. CASE ~Reclaimed(g)
      BY <1>4, <3>2
    <3>. QED BY <3>1, <3>2
  <2>. QED BY <2>1 DEF MembersOf
<1>6. \A g \in removed : MembersOf[g].exists /\ MembersOf[g].members \subseteq lost
  BY <1>3 DEF MembersOf
<1>7. UNCHANGED AwayClients
  BY AwayUnchanged DEF Sweep
<1>8. Abstract!Clean(lost, removed)
  BY <1>5, <1>6, <1>7 DEF Abstract!Clean, Abstract!NoSuchRoom
<1>. QED BY <1>1, <1>8 DEF Abstract!Next

LEMMA CreateCreates ==
    ASSUME RoomsInv, Liberties = {}, NEW c \in Clients, NEW h \in GameIds,
           NEW carriesId \in BOOLEAN, HandleCreateGame(c, h, carriesId)
    PROVE  Abstract!Next
<1>1. /\ ~InGame(c) /\ ~games[h].live /\ games'[h].live
      /\ \A n \in ActorNums : games'[h].players[n] = IF n = 1 THEN c ELSE Nobody
      /\ \A g \in GameIds : g # h => games'[g] = games[g]
      /\ UNCHANGED closedFor
  BY CreatedRoom DEF RoomsInv, SeatsInv
<1>2. Seats(h)' = {1}
  BY <1>1, NullAssumption, MaxActorAssumption DEF Seats, ActorNums
<1>3. Occupants(h)' = {c}
  BY <1>1, <1>2, MaxActorAssumption DEF Occupants, ActorNums
<1>4. games'[h].live = TRUE
  BY <1>1, TypeCreate DEF RoomsInv, SeatsInv, TypeOK, Room
<1>5. \A g \in GameIds : g # h => Occupants(g)' = Occupants(g) /\ games'[g].live = games[g].live
  BY <1>1 DEF Occupants, Seats
<1>6. MembersOf' = [MembersOf EXCEPT ![h] = [exists |-> TRUE, members |-> {c}]]
  BY <1>3, <1>4, <1>5 DEF MembersOf
<1>7. Abstract!InNoRoom(c) /\ ~MembersOf[h].exists /\ UNCHANGED AwayClients
  BY <1>1, InNoRoomAbove, AwayUnchanged DEF MembersOf
<1>8. Abstract!Create(c, h)
  BY <1>6, <1>7 DEF Abstract!Create
<1>. QED BY <1>8 DEF Abstract!Next

\* Membership's Cardinality is the one of this module.
LEMMA SameCardinality == \A S : Abstract!Cardinality(S) = Cardinality(S)
BY DEF Cardinality, Abstract!Cardinality

\* A room has no more occupants than seats.
LEMMA OccupantsFit ==
    ASSUME NEW h \in GameIds, ~Full(h)
    PROVE  Cardinality(Occupants(h)) < Capacity
<1>. DEFINE seat == [n \in Seats(h) |-> games[h].players[n]]
<1>1. seat \in Surjection(Seats(h), Occupants(h))
  BY DEF Occupants, Surjection
<1>2. IsFiniteSet(Seats(h)) /\ PlayerCount(h) \in Nat
  BY SeatsFinite
<1>. HIDE DEF seat
<1>3. Cardinality(Occupants(h)) <= PlayerCount(h) /\ IsFiniteSet(Occupants(h))
  BY <1>1, <1>2, FS_Surjection DEF PlayerCount
<1>4. Cardinality(Occupants(h)) \in Nat
  BY <1>3, FS_CardinalityType
<1>. QED BY <1>2, <1>3, <1>4, CapacityAssumption DEF Full

LEMMA JoinJoins ==
    ASSUME RoomsInv, Liberties = {}, NEW c \in Clients, NEW h \in GameIds,
           NEW carriesId \in BOOLEAN, HandleJoinGame(c, h, carriesId),
           JoinAdmitted(c, h, carriesId)
    PROVE  Abstract!Next
<1>. DEFINE k == NextNum(games[h])
<1>1. /\ ~InGame(c) /\ games[h].live /\ games'[h].live /\ ~Full(h)
      /\ k \in ActorNums /\ games[h].players[k] = Nobody
      /\ \A n \in ActorNums : games'[h].players[n] = IF n = k THEN c ELSE games[h].players[n]
      /\ \A g \in GameIds : g # h => games'[g] = games[g]
      /\ UNCHANGED closedFor
  BY JoinedRoom
<1>. HIDE DEF k
<1>2. Seats(h)' = Seats(h) \cup {k}
  BY <1>1, NullAssumption DEF Seats
<1>3. k \notin Seats(h)
  BY <1>1 DEF Seats
<1>4. Occupants(h)' = Occupants(h) \cup {c}
  <2>1. \A n \in Seats(h) : games'[h].players[n] = games[h].players[n]
    BY <1>1, <1>3 DEF Seats
  <2>2. games'[h].players[k] = c
    BY <1>1
  <2>. QED BY <1>2, <2>1, <2>2 DEF Occupants
<1>5. games'[h].live = TRUE
  BY <1>1, TypeJoin DEF RoomsInv, SeatsInv, TypeOK, Room
<1>6. \A g \in GameIds : g # h => Occupants(g)' = Occupants(g) /\ games'[g].live = games[g].live
  BY <1>1 DEF Occupants, Seats
<1>7. MembersOf' = [MembersOf EXCEPT ![h] =
                        [exists |-> TRUE, members |-> @.members \cup {c}]]
  BY <1>4, <1>5, <1>6 DEF MembersOf
<1>8. /\ Abstract!InNoRoom(c) /\ MembersOf[h].exists
      /\ Cardinality(MembersOf[h].members) < Capacity /\ UNCHANGED AwayClients
  BY <1>1, InNoRoomAbove, OccupantsFit, AwayUnchanged DEF MembersOf
<1>9. Abstract!Join(c, h)
  BY <1>7, <1>8, SameCardinality DEF Abstract!Join
<1>. QED BY <1>9 DEF Abstract!Next

LEMMA LeaveLeaves ==
    ASSUME RoomsInv, NEW c \in Clients, HandleLeaveGame(c), InGame(c)
    PROVE  Abstract!Next
<1>0. PICK h, k : h = session[c].game /\ k = session[c].num
  OBVIOUS
<1>1. /\ h \in GameIds /\ k \in ActorNums /\ games[h].live /\ games'[h].live
      /\ games[h].players[k] = c
      /\ \A n \in ActorNums : games'[h].players[n] =
               IF n = k THEN Nobody ELSE games[h].players[n]
      /\ \A g \in GameIds : g # h => games'[g] = games[g]
      /\ UNCHANGED closedFor
  BY <1>0, LeftRoom
<1>2. \A n \in ActorNums : games[h].players[n] = c => n = k
  <2>. SUFFICES ASSUME NEW n \in ActorNums, games[h].players[n] = c PROVE n = k
       OBVIOUS
  <2>1. session[c] = [game |-> h, num |-> n]
    BY <1>1 DEF RoomsInv, SeatsMatchSessions
  <2>. QED BY <1>0, <2>1
<1>3. Seats(h)' = Seats(h) \ {k}
  BY <1>1 DEF Seats
<1>4. Occupants(h)' = Occupants(h) \ {c}
  <2>1. \A n \in Seats(h)' : games'[h].players[n] = games[h].players[n]
    BY <1>1, <1>3 DEF Seats
  <2>2. \A n \in Seats(h) : n \in Seats(h)' <=> games[h].players[n] # c
    BY <1>1, <1>2, <1>3 DEF Seats
  <2>3. Occupants(h)' = {games[h].players[n] : n \in Seats(h)'}
    BY <2>1 DEF Occupants
  <2>. QED BY <1>3, <2>2, <2>3 DEF Occupants
<1>5. games'[h].live = TRUE
  BY <1>1, TypeLeave DEF RoomsInv, SeatsInv, TypeOK, Room
<1>6. \A g \in GameIds : g # h => Occupants(g)' = Occupants(g) /\ games'[g].live = games[g].live
  BY <1>1 DEF Occupants, Seats
<1>7. MembersOf' = [MembersOf EXCEPT ![h] =
                        [exists |-> TRUE, members |-> @.members \ {c}]]
  BY <1>1, <1>4, <1>5, <1>6 DEF MembersOf
<1>8. c \in MembersOf[h].members /\ UNCHANGED AwayClients
  BY <1>1, NullAssumption, AwayUnchanged DEF MembersOf, Occupants, Seats
<1>9. Abstract!Leave(c, h)
  BY <1>7, <1>8 DEF Abstract!Leave
<1>. QED BY <1>1, <1>9 DEF Abstract!Next

\* Being closed for the grace period is for good.
LEMMA ClosingGoesAway ==
    ASSUME RoomsInv, Tick \/ \E c \in Clients : Disconnect(c)
    PROVE  Abstract!Next
<1>1. UNCHANGED games
  BY DEF Tick, Disconnect
<1>2. \A c \in Clients : closedFor[c] = Grace => closedFor'[c] = Grace
  <2>1. CASE Tick
    BY <2>1 DEF Tick, Older
  <2>2. CASE \E c \in Clients : Disconnect(c)
    <3>1. PICK c \in Clients : closedFor[c] = Never /\ closedFor' = [closedFor EXCEPT ![c] = 0]
      BY <2>2 DEF Disconnect, Closed
    <3>2. Grace # Never
      BY TimeAssumption DEF Never
    <3>. QED BY <3>1, <3>2 DEF RoomsInv, SeatsInv, TypeOK
  <2>. QED BY <2>1, <2>2
<1>3. AwayClients' = AwayClients \cup AwayClients'
  BY <1>2 DEF AwayClients
<1>4. AwayClients' \in SUBSET Clients
  BY DEF AwayClients
<1>. DEFINE gone == AwayClients'
<1>5. gone \in SUBSET Clients /\ AwayClients' = AwayClients \cup gone
  BY <1>3, <1>4
<1>. HIDE DEF gone
<1>6. Abstract!GoAway(gone)
  BY <1>1, <1>5, MembersUnchanged DEF Abstract!GoAway
<1>. QED BY <1>5, <1>6 DEF Abstract!Next

LEMMA StepImplements ==
    ASSUME RoomsInv, Liberties = {}, [Next]_vars
    PROVE  [Abstract!Next]_(Abstract!membershipVars)
<1>1. CASE UNCHANGED <<games, closedFor>>
  BY <1>1, MembersUnchanged, AwayUnchanged DEF Abstract!membershipVars
<1>2. CASE Sweep
  BY <1>2, SweepCleans
<1>3. CASE Snapshot \/ EndPass \/ UNCHANGED vars
  BY <1>1, <1>3 DEF Snapshot, EndPass, vars
<1>4. CASE Tick \/ \E c \in Clients : Disconnect(c)
  BY <1>4, ClosingGoesAway
<1>5. CASE \E c \in Clients : Handle(c)
  <2>. PICK c \in Clients : Handle(c)
       BY <1>5
  <2>1. CASE \/ HandleAuth(c) \/ HandleRaiseEvent(c)
             \/ \E carriesId \in PropIds : HandleSetProperties(c, carriesId)
    BY <1>1, <2>1 DEF HandleAuth, HandleRaiseEvent, HandleSetProperties
  <2>2. CASE HandleLeaveGame(c)
    <3>1. CASE InGame(c)
      BY <2>2, <3>1, LeaveLeaves
    <3>2. CASE ~InGame(c)
      BY <1>1, <2>2, <3>2 DEF HandleLeaveGame
    <3>. QED BY <3>1, <3>2
  <2>3. CASE \E h \in GameIds, carriesId \in PropIds : HandleCreateGame(c, h, carriesId)
    BY <2>3, CreateCreates DEF PropIds
  <2>4. CASE \E h \in GameIds, carriesId \in PropIds : HandleJoinGame(c, h, carriesId)
    <3>. PICK h \in GameIds, carriesId \in PropIds : HandleJoinGame(c, h, carriesId)
         BY <2>4
    <3>1. CASE JoinRefused(c, h, carriesId)
      BY <1>1, <3>1 DEF HandleJoinGame, JoinRefused
    <3>2. CASE JoinAdmitted(c, h, carriesId)
      BY <3>2, JoinJoins DEF PropIds
    <3>. QED BY <3>1, <3>2 DEF HandleJoinGame
  <2>. QED BY <2>1, <2>2, <2>3, <2>4 DEF Handle
<1>. QED BY <1>2, <1>3, <1>4, <1>5 DEF Next, Step

\* For any number of clients, rooms and seats and any timeouts, as long as clients
\* take no liberties, the game server keeps the promises of Membership.
THEOREM MembershipIsImplemented ==
    ASSUME Liberties = {}
    PROVE  Spec => ImplementsMembership
<1>1. RoomsInv /\ [Next]_vars => RoomsInv'
  BY RoomsNext
<1>2. RoomsInv /\ [Next]_vars => [Abstract!Next]_(Abstract!membershipVars)
  BY StepImplements
<1>. QED BY <1>1, <1>2, RoomsInit, MembersInit, PTL
         DEF Spec, ImplementsMembership, Abstract!Spec
=============================================================================
