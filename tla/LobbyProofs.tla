----------------------------- MODULE LobbyProofs -----------------------------
(***************************************************************************)
(* Proofs about Lobby, for any clients and rooms and any number of changes. *)
(***************************************************************************)
EXTENDS Lobby, FiniteSetTheorems, WellFoundedInduction, TLAPS

LEMMA Values ==
    /\ MaxChanges \in Nat /\ MaxPlayers \in Nat /\ MaxQueue \in Nat
    /\ IsFiniteSet(GameIds)
    /\ NoRoom \in Room
    /\ "master" \in Threads /\ "updater" \in Threads
BY BoundAssumption DEF NoRoom, Room, Threads

\* There is an entry to go to as long as there is one behind.
LEMMA Least ==
    ASSUME NEW T \in SUBSET Nat, T # {}
    PROVE  \E n \in T : \A m \in T : n <= m
<1>1. PICK R : R = {s \in Nat \X Nat : s[1] < s[2]}
  OBVIOUS
<1>2. IsWellFoundedOn(R, Nat)
  BY <1>1, NatLessThanWellFounded DEF OpToRel
<1>3. PICK n \in T : \A m \in T : ~ (<<m, n>> \in R)
  BY <1>2, WFMin
<1>4. \A m \in T : n <= m
  <2>1. ASSUME NEW m \in T PROVE n <= m
    <3>1. m \in Nat /\ n \in Nat
      OBVIOUS
    <3>2. ~ (m < n)
      BY <1>1, <1>3, <2>1, <3>1
    <3>. QED BY <3>1, <3>2
  <2>. QED BY <2>1
<1>. QED BY <1>4

-----------------------------------------------------------------------------
(* Types.                                                                  *)

LEMMA SizeType ==
    ASSUME games \in [GameIds -> Room]
    PROVE  Size \in 0 .. Cardinality(GameIds)
<1>1. Live \in SUBSET GameIds
  BY DEF Live
<1>2. IsFiniteSet(Live) /\ Cardinality(Live) <= Cardinality(GameIds)
  BY <1>1, FS_Subset, Values
<1>3. Cardinality(Live) \in Nat /\ Cardinality(GameIds) \in Nat
  BY <1>2, FS_CardinalityType, Values
<1>. QED BY <1>2, <1>3 DEF Size

LEMMA RowTypes ==
    ASSUME games \in [GameIds -> Room]
    PROVE  /\ \A g \in GameIds : Row(g) \in Rows
           /\ Listing \subseteq Rows /\ Live \subseteq GameIds
BY DEF Row, Rows, Listing, Live, Room

LEMMA RestType ==
    /\ Rest \in Work /\ [Rest EXCEPT !.at = "dead"] \in Work
    /\ \A whom \in SUBSET Clients, rows \in SUBSET Rows : SendTo(whom, rows) \in Work
<1>1. Cardinality(GameIds) \in Nat
  BY FS_CardinalityType, Values
<1>2. Rest \in Work /\ [Rest EXCEPT !.at = "dead"] \in Work
  BY <1>1, Values DEF Rest, Work
<1>3. ASSUME NEW whom \in SUBSET Clients, NEW rows \in SUBSET Rows
      PROVE  SendTo(whom, rows) \in Work
  <2>1. SendTo(whom, rows) = [at |-> "send", size |-> 0, left |-> 0, slot |-> 0, rows |-> rows, to |-> whom]
    BY DEF SendTo, Rest
  <2>. QED BY <1>1, <2>1, Values DEF Work
<1>. QED BY <1>2, <1>3

LEMMA WalkType ==
    ASSUME games \in [GameIds -> Room], NEW what \in {"list", "stats", "update"},
           NEW whom \in SUBSET Clients
    PROVE  WalkFor(what, whom) \in Work
BY SizeType, Values DEF WalkFor, Work

LEMMA TypesInit == Init => TypeOK
<1>. SUFFICES ASSUME Init PROVE TypeOK
     OBVIOUS
<1>1. games \in [GameIds -> Room] /\ {places, changes} \subseteq 0 .. MaxChanges
  BY Values DEF Init
<1>2. /\ stage \in [Clients -> Stages]
      /\ queue \in [Clients -> Seq(SUBSET Rows)] /\ shown \in [Clients -> SUBSET Rows]
  BY DEF Init, Stages
<1>3. thread \in [Threads -> Work]
  BY RestType DEF Init
<1>4. held \in [Threads -> SUBSET Rows] /\ stayed \in [Threads -> SUBSET GameIds]
  BY DEF Init
<1>. QED BY <1>1, <1>2, <1>3, <1>4 DEF TypeOK

\* Entries have places of their own, among those in use.
SlotsInv ==
    /\ places <= changes /\ Size <= changes
    /\ \A g \in Live : games[g].slot <= places
    /\ \A g, h \in Live : games[g].slot = games[h].slot => g = h

LEMMA SlotTypes ==
    ASSUME TypeOK
    PROVE  /\ places \in Nat /\ changes \in Nat /\ changes <= MaxChanges
           /\ Live \subseteq GameIds /\ IsFiniteSet(Live) /\ Size \in Nat
<1>1. places \in 0 .. MaxChanges /\ changes \in 0 .. MaxChanges
  BY DEF TypeOK
<1>2. Live \subseteq GameIds
  BY DEF Live
<1>3. IsFiniteSet(Live) /\ Size \in Nat
  BY <1>2, FS_Subset, FS_CardinalityType, Values DEF Size
<1>. QED BY <1>1, <1>2, <1>3, Values

LEMMA RoomTypes ==
    ASSUME TypeOK
    PROVE  \A h \in GameIds : /\ games[h].slot \in Nat /\ games[h].slot <= MaxChanges
                              /\ games[h].players \in 0 .. MaxPlayers
BY Values DEF TypeOK, Room

LEMMA RoomShape ==
    ASSUME TypeOK, NEW h \in GameIds
    PROVE  games[h] = [slot |-> games[h].slot, players |-> games[h].players]
<1>1. games[h] \in Room
  BY DEF TypeOK
<1>. QED BY <1>1 DEF Room

LEMMA LiveSlots ==
    ASSUME TypeOK
    PROVE  \A h \in Live : h \in GameIds /\ games[h].slot \in Nat
BY RoomTypes, SlotTypes

\* The places that the entries are given by a rebuild: from 1 on, in the order they had.
LEMMA Ranks ==
    ASSUME TypeOK
    PROVE  /\ \A h \in Live : Rank(h) \in Nat /\ Rank(h) # 0 /\ Rank(h) <= Size
           /\ \A h, k \in Live : games[h].slot < games[k].slot => Rank(h) < Rank(k)
<1>. DEFINE UpTo(h) == {k \in Live : games[k].slot <= games[h].slot}
<1>1. \A h \in Live : IsFiniteSet(UpTo(h)) /\ Cardinality(UpTo(h)) \in Nat
                      /\ Cardinality(UpTo(h)) <= Size
  <2>1. \A h \in Live : UpTo(h) \in SUBSET Live
    OBVIOUS
  <2>2. \A h \in Live : IsFiniteSet(UpTo(h)) /\ Cardinality(UpTo(h)) <= Cardinality(Live)
    <3>. HIDE DEF UpTo
    <3>. QED BY <2>1, FS_Subset, SlotTypes
  <2>. QED
    <3>. HIDE DEF UpTo
    <3>. QED BY <2>2, FS_CardinalityType DEF Size
<1>2. ASSUME NEW h \in Live PROVE Cardinality(UpTo(h)) # 0
  <2>1. h \in UpTo(h)
    BY LiveSlots
  <2>. QED
    <3>. HIDE DEF UpTo
    <3>. QED BY <1>1, <2>1, FS_EmptySet
<1>3. ASSUME NEW h \in Live, NEW k \in Live, games[h].slot < games[k].slot
      PROVE  Cardinality(UpTo(h)) < Cardinality(UpTo(k))
  <2>1. UpTo(h) \in SUBSET UpTo(k)
    BY <1>3, LiveSlots
  <2>2. k \in UpTo(k) /\ k \notin UpTo(h)
    BY <1>3, LiveSlots
  <2>. QED
    <3>. HIDE DEF UpTo
    <3>1. Cardinality(UpTo(h)) <= Cardinality(UpTo(k))
      BY <1>1, <2>1, FS_Subset
    <3>2. Cardinality(UpTo(h)) # Cardinality(UpTo(k))
      BY <1>1, <2>1, <2>2, FS_Subset
    <3>. QED BY <1>1, <3>1, <3>2
<1>4. \A h \in Live : Rank(h) = Cardinality(UpTo(h))
  BY DEF Rank
<1>. HIDE DEF UpTo
<1>. QED BY <1>1, <1>2, <1>3, <1>4

\* What the game server's thread does to the other entries: they may move, no more.
Others(g) ==
    /\ games' \in [GameIds -> Room]
    /\ Live' \subseteq Live \cup {g}
    /\ \A h \in Live : h # g => games'[h].players = games[h].players
    /\ places' \in Nat /\ places' <= changes + 1
    /\ \A h \in Live' : games'[h].slot <= places'
    /\ \A h, k \in Live' : games'[h].slot = games'[k].slot => h = k

LEMMA OneEntry ==
    ASSUME TypeOK, SlotsInv, NEW g \in GameIds, NEW room \in Room, NEW n \in Nat,
           games' = [games EXCEPT ![g] = room], places' = n, places <= n, n <= changes + 1,
           room.slot \in {0, games[g].slot} \/ (room.slot = n /\ n = places + 1)
    PROVE  Others(g)
<1>1. /\ games' \in [GameIds -> Room] /\ room.slot \in Nat /\ games'[g] = room
      /\ \A h \in GameIds : h # g => games'[h] = games[h]
  BY Values DEF TypeOK, Room
<1>2. /\ Live' \subseteq GameIds /\ \A h \in Live' : games'[h].slot # 0
      /\ \A h \in Live' : h # g => h \in Live
  BY <1>1 DEF Live
<1>3. ASSUME NEW h \in Live', h # g
      PROVE  games'[h].slot = games[h].slot /\ games[h].slot <= places /\ games[h].slot \in Nat
  BY <1>1, <1>2, <1>3, LiveSlots DEF SlotsInv
<1>4. g \in Live' => \/ games'[g].slot = places + 1
                     \/ g \in Live /\ games'[g].slot = games[g].slot
  BY <1>1 DEF Live
<1>5. \A h \in Live' : games'[h].slot <= n
  <2>1. g \in Live' => games'[g].slot <= n
    <3>1. games[g].slot \in Nat /\ places \in Nat /\ (g \in Live => games[g].slot <= places)
      BY RoomTypes, SlotTypes DEF SlotsInv
    <3>2. room.slot = n \/ (room.slot = 0 \/ room.slot = games[g].slot)
      OBVIOUS
    <3>3. CASE room.slot = 0
      BY <1>1, <1>2, <3>3
    <3>4. CASE room.slot = games[g].slot /\ g \in Live
      BY <1>1, <3>1, <3>4
    <3>5. g \in Live' /\ g \notin Live /\ room.slot # n => room.slot = 0
      BY <3>2 DEF Live
    <3>. QED BY <1>1, <1>2, <3>2, <3>3, <3>4, <3>5
  <2>2. ASSUME NEW h \in Live', h # g PROVE games'[h].slot <= n
    BY <1>3, <2>2, SlotTypes
  <2>3. ASSUME NEW h \in Live' PROVE games'[h].slot <= n
    BY <2>1, <2>2, Zenon
  <2>. QED BY <2>3
<1>6. \A h, k \in Live' : games'[h].slot = games'[k].slot => h = k
  <2>1. ASSUME NEW h \in Live', h # g, g \in Live' PROVE games'[h].slot # games'[g].slot
    BY <1>2, <1>3, <1>4, <2>1, SlotTypes, LiveSlots DEF SlotsInv
  <2>2. ASSUME NEW h \in Live', NEW k \in Live', h # g, k # g, games'[h].slot = games'[k].slot
        PROVE  h = k
    BY <1>2, <1>3, <2>2 DEF SlotsInv
  <2>. QED BY <2>1, <2>2
<1>7. \A h \in Live : h # g => games'[h].players = games[h].players
  BY <1>1, LiveSlots
<1>. QED BY <1>1, <1>2, <1>5, <1>6, <1>7 DEF Others

LEMMA RebuildOthers ==
    ASSUME TypeOK, SlotsInv, NEW g \in GameIds, g \notin Live, changes < MaxChanges,
           games' = Rebuilt(g), places' = Size + 1
    PROVE  Others(g)
<1>1. \A h \in Live : /\ h \in GameIds /\ h # g /\ Rank(h) \in Nat /\ Rank(h) # 0 /\ Rank(h) <= Size
                      /\ [games[h] EXCEPT !.slot = Rank(h)] = [slot |-> Rank(h), players |-> games[h].players]
  <2>1. ASSUME NEW h \in Live
        PROVE  [games[h] EXCEPT !.slot = Rank(h)] = [slot |-> Rank(h), players |-> games[h].players]
    <3>1. games[h] = [slot |-> games[h].slot, players |-> games[h].players]
      BY RoomShape, LiveSlots
    <3>. QED BY <3>1
  <2>. QED BY <2>1, Ranks, LiveSlots, Zenon
<1>2. /\ games'[g] = [slot |-> Size + 1, players |-> 0]
      /\ \A h \in Live : games'[h] = [slot |-> Rank(h), players |-> games[h].players]
      /\ \A h \in GameIds : h # g /\ h \notin Live => games'[h] = NoRoom
  BY <1>1 DEF Rebuilt, NewRoom
<1>3. Size \in Nat /\ Size <= changes /\ changes \in Nat /\ changes + 1 <= MaxChanges
  BY SlotTypes, Values DEF SlotsInv
<1>4. [slot |-> Size + 1, players |-> 0] \in Room
  BY <1>3, Values DEF Room
<1>5. ASSUME NEW h \in Live PROVE [slot |-> Rank(h), players |-> games[h].players] \in Room
  <2>1. Rank(h) \in Nat /\ Rank(h) <= Size /\ h \in GameIds
    BY <1>1
  <2>2. Rank(h) \in 0 .. MaxChanges
    BY <1>3, <2>1, Values
  <2>3. games[h].players \in 0 .. MaxPlayers
    BY <2>1, RoomTypes
  <2>. QED BY <2>2, <2>3 DEF Room
<1>6. games' \in [GameIds -> Room]
  <2>1. games' = [h \in GameIds |-> games'[h]]
    BY DEF Rebuilt
  <2>2. \A h \in GameIds : games'[h] \in Room
    BY <1>2, <1>4, <1>5, Values
  <2>. QED BY <2>1, <2>2
<1>7. Live' \subseteq Live \cup {g}
  BY <1>2 DEF Live, NoRoom
<1>8. ASSUME NEW l \in Live
       PROVE  games'[l].slot = Rank(l) /\ games'[l].players = games[l].players
  <2>1. games'[l] = [slot |-> Rank(l), players |-> games[l].players]
    BY <1>2, Zenon
  <2>. QED BY <2>1
<1>9. games'[g].slot = Size + 1
  <2>1. games'[g] = [slot |-> Size + 1, players |-> 0]
    BY <1>2, Zenon
  <2>. QED BY <2>1
<1>10. \A h \in Live' : games'[h].slot <= Size + 1
  <2>1. ASSUME NEW h \in Live PROVE games'[h].slot <= Size + 1
    <3>1. games'[h].slot = Rank(h)
      BY <1>8
    <3>2. Rank(h) \in Nat /\ Rank(h) <= Size
      BY <1>1
    <3>. QED BY <1>3, <3>1, <3>2
  <2>2. games'[g].slot <= Size + 1
    BY <1>3, <1>9
  <2>3. ASSUME NEW h \in Live' PROVE games'[h].slot <= Size + 1
    BY <1>7, <2>1, <2>2, Zenon
  <2>. QED BY <2>3
<1>11. ASSUME NEW h \in Live', NEW k \in Live', games'[h].slot = games'[k].slot PROVE h = k
  <2>1. CASE h \in Live /\ k \in Live
    <3>1. Rank(h) = Rank(k)
      BY <1>11, <1>8, <2>1
    <3>2. games[h].slot \in Nat /\ games[k].slot \in Nat
      BY <2>1, LiveSlots
    <3>3. ~(games[h].slot < games[k].slot) /\ ~(games[k].slot < games[h].slot)
      BY <1>1, <2>1, <3>1, Ranks
    <3>. QED BY <2>1, <3>2, <3>3 DEF SlotsInv
  <2>2. ASSUME NEW l \in Live PROVE games'[l].slot # games'[g].slot
    <3>1. Rank(l) \in Nat /\ Rank(l) <= Size
      BY <1>1
    <3>. QED BY <1>3, <1>8, <1>9, <3>1
  <2>. QED BY <1>7, <1>11, <2>1, <2>2, Zenon
<1>12. \A h \in Live : h # g => games'[h].players = games[h].players
  BY <1>8
<1>13. places' \in Nat /\ places' <= changes + 1 /\ places' = Size + 1
  BY <1>3
<1>. QED BY <1>6, <1>7, <1>10, <1>11, <1>12, <1>13 DEF Others

\* What the game server's thread does, whichever of its operations it is.
LEMMA GameStep ==
    ASSUME TypeOK, SlotsInv, NEW g \in GameIds,
           CreateRoom(g) \/ Joins(g) \/ Leaves(g) \/ RemoveRoom(g)
    PROVE  Change(g, games', places') /\ Others(g)
<1>0. /\ g \in GameIds /\ games[g].slot \in Nat /\ games[g].slot <= MaxChanges
      /\ games[g].players \in 0 .. MaxPlayers
      /\ games[g] = [slot |-> games[g].slot, players |-> games[g].players]
      /\ places \in Nat /\ changes \in Nat /\ changes <= MaxChanges /\ MaxPlayers \in Nat
      /\ MaxChanges \in Nat
  BY SlotTypes, RoomTypes, RoomShape, Values
<1>1. ASSUME NEW room \in Room, Becomes(g, room), room.slot \in {0, games[g].slot}
      PROVE  Change(g, games', places') /\ Others(g)
  <2>1. games' = [games EXCEPT ![g] = room] /\ places' = places
    BY <1>1 DEF Becomes, Change
  <2>2. Change(g, games', places')
    BY <1>1, <2>1, Zenon DEF Becomes
  <2>3. places <= places /\ places <= changes + 1
    BY <1>0 DEF SlotsInv
  <2>. QED BY <1>0, <1>1, <2>1, <2>2, <2>3, OneEntry
<1>2. CASE CreateRoom(g)
  <2>1. CASE g \in Live /\ Becomes(g, NewRoom(games[g].slot))
    <3>1. NewRoom(games[g].slot) \in Room /\ NewRoom(games[g].slot).slot = games[g].slot
      BY <1>0 DEF NewRoom, Room
    <3>. QED BY <1>0, <1>1, <2>1, <3>1
  <2>2. CASE Insert(g)
    <3>1. games' = [games EXCEPT ![g] = NewRoom(places + 1)] /\ places' = places + 1 /\ changes < MaxChanges
      BY <2>2 DEF Insert, Change
    <3>2. Change(g, games', places')
      BY <2>2, <3>1, Zenon DEF Insert
    <3>3. places + 1 \in Nat /\ places <= places + 1 /\ places + 1 <= changes + 1 /\ places + 1 <= MaxChanges
      BY <1>0, <3>1 DEF SlotsInv
    <3>4. NewRoom(places + 1) \in Room /\ NewRoom(places + 1).slot = places + 1
      BY <1>0, <3>3 DEF NewRoom, Room
    <3>. QED BY <1>0, <3>1, <3>2, <3>3, <3>4, OneEntry
  <2>3. CASE g \notin Live /\ Rebuild(g)
    <3>1. games' = Rebuilt(g) /\ places' = Size + 1 /\ changes < MaxChanges
      BY <2>3 DEF Rebuild, Change
    <3>2. Change(g, games', places')
      BY <2>3, <3>1, Zenon DEF Rebuild
    <3>. QED BY <2>3, <3>1, <3>2, RebuildOthers
  <2>. QED BY <1>2, <2>1, <2>2, <2>3, Zenon DEF CreateRoom
<1>3. CASE Joins(g)
  <2>1. [games[g] EXCEPT !.players = @ + 1] = [slot |-> games[g].slot, players |-> games[g].players + 1]
    BY <1>0
  <2>2. games[g].players < MaxPlayers
    BY <1>3 DEF Joins
  <2>3. [slot |-> games[g].slot, players |-> games[g].players + 1] \in Room
    BY <1>0, <2>2 DEF Room
  <2>. QED BY <1>1, <1>3, <2>1, <2>3 DEF Joins
<1>4. CASE Leaves(g)
  <2>1. [games[g] EXCEPT !.players = @ - 1] = [slot |-> games[g].slot, players |-> games[g].players - 1]
    BY <1>0
  <2>2. games[g].players > 0
    BY <1>4 DEF Leaves
  <2>3. [slot |-> games[g].slot, players |-> games[g].players - 1] \in Room
    BY <1>0, <2>2 DEF Room
  <2>. QED BY <1>1, <1>4, <2>1, <2>3 DEF Leaves
<1>5. CASE RemoveRoom(g)
  <2>1. Becomes(g, NoRoom) /\ NoRoom.slot = 0
    BY <1>5 DEF RemoveRoom, NoRoom
  <2>. QED BY <1>1, <2>1, Values
<1>. QED BY <1>2, <1>3, <1>4, <1>5

LEMMA ChangeType ==
    ASSUME TypeOK, SlotsInv, NEW g \in GameIds, Change(g, games', places'), Others(g)
    PROVE  TypeOK' /\ SlotsInv'
<1>1. changes' = changes + 1 /\ changes < MaxChanges
  BY DEF Change
<1>2. games' \in [GameIds -> Room] /\ {places', changes'} \subseteq 0 .. MaxChanges
  BY <1>1, SlotTypes, Values DEF Others
<1>3. <<g, games'[g].players>> \in Rows
  BY <1>2 DEF Room, Rows
<1>4. held' \in [Threads -> SUBSET Rows]
  BY <1>3 DEF TypeOK, Change
<1>5. stayed' \in [Threads -> SUBSET GameIds]
  BY DEF TypeOK, Change
<1>6. TypeOK'
  BY <1>2, <1>4, <1>5, Zenon DEF TypeOK, Change, people
<1>7. Size' <= changes'
  <2>1. IsFiniteSet(Live) /\ Cardinality(Live) \in Nat /\ Cardinality(Live) <= changes
    BY SlotTypes DEF SlotsInv, Size
  <2>2. IsFiniteSet(Live \cup {g}) /\ Cardinality(Live \cup {g}) <= Cardinality(Live) + 1
    BY <2>1, FS_AddElement
  <2>3. Cardinality(Live') <= Cardinality(Live \cup {g}) /\ Cardinality(Live') \in Nat
        /\ Cardinality(Live \cup {g}) \in Nat
    BY <2>2, FS_Subset, FS_CardinalityType DEF Others
  <2>4. Cardinality(Live') <= changes + 1
    BY <2>1, <2>2, <2>3, SlotTypes
  <2>. QED BY <1>1, <2>4 DEF Size
<1>. QED BY <1>1, <1>6, <1>7 DEF SlotsInv, Others

LEMMA BeginType ==
    ASSUME TypeOK, NEW t \in Threads, NEW what \in {"list", "stats", "update"},
           NEW whom \in SUBSET Clients, Begin(t, what, whom)
    PROVE  /\ thread' \in [Threads -> Work]
           /\ held' \in [Threads -> SUBSET Rows] /\ stayed' \in [Threads -> SUBSET GameIds]
BY RowTypes, WalkType DEF TypeOK, Begin

LEMMA EndType ==
    ASSUME TypeOK, NEW t \in Threads, NEW work \in Work, End(t, work)
    PROVE  /\ thread' \in [Threads -> Work]
           /\ held' \in [Threads -> SUBSET Rows] /\ stayed' \in [Threads -> SUBSET GameIds]
BY DEF TypeOK, End

LEMMA PushType ==
    ASSUME TypeOK, NEW whom, NEW rows \in SUBSET Rows, Push(whom, rows)
    PROVE  queue' \in [Clients -> Seq(SUBSET Rows)]
<1>1. \A c \in Clients : queue[c] \in Seq(SUBSET Rows) /\ Append(queue[c], rows) \in Seq(SUBSET Rows)
  BY DEF TypeOK
<1>. QED BY <1>1, Zenon DEF Push

LEMMA VisitType ==
    ASSUME TypeOK, NEW t \in Threads, Visit(t)
    PROVE  TypeOK'
<1>1. PICK g \in NextEntry(thread[t]) :
        thread' = [thread EXCEPT ![t].slot = games[g].slot, ![t].left = @ - 1,
                                 ![t].rows = WithRow(thread[t], g)]
  BY DEF Visit
<1>2. g \in GameIds /\ games[g].slot \in 0 .. MaxChanges /\ Row(g) \in Rows
  BY RowTypes DEF NextEntry, Live, TypeOK, Room
<1>3. thread[t] \in Work /\ WithRow(thread[t], g) \in SUBSET Rows
  BY <1>2 DEF TypeOK, Work, WithRow
<1>4. thread'[t] = [at |-> thread[t].at, size |-> thread[t].size, left |-> thread[t].left - 1,
                    slot |-> games[g].slot, rows |-> WithRow(thread[t], g), to |-> thread[t].to]
  <2>1. thread \in [Threads -> Work]
    BY DEF TypeOK
  <2>2. thread[t] = [at |-> thread[t].at, size |-> thread[t].size, left |-> thread[t].left,
                     slot |-> thread[t].slot, rows |-> thread[t].rows, to |-> thread[t].to]
    BY <1>3 DEF Work
  <2>. QED BY <1>1, <2>1, <2>2
<1>5. thread'[t] \in Work
  <2>1. thread[t].left \in 0 .. Cardinality(GameIds) /\ thread[t].left > 0
    BY <1>3 DEF Work, Visit
  <2>2. thread[t].left - 1 \in 0 .. Cardinality(GameIds)
    BY <2>1, FS_CardinalityType, Values
  <2>. QED BY <1>2, <1>3, <1>4, <2>2 DEF Work
<1>6. thread' \in [Threads -> Work]
  BY <1>1, <1>5 DEF TypeOK
<1>. QED BY <1>6, Zenon DEF table, TypeOK, Visit, rooms, people

LEMMA PeopleType ==
    ASSUME TypeOK, NEW c \in Clients,
           Connect(c) \/ Close(c) \/ ReceiveList(c) \/ HandleAuthenticate(c) \/ HandleJoinLobby(c)
    PROVE  TypeOK'
<1>1. CASE Connect(c)
  <2>1. stage' \in [Clients -> Stages]
    BY <1>1 DEF Connect, TypeOK, Stages
  <2>. QED BY <1>1, <2>1, Zenon DEF table, Connect, TypeOK, rooms
<1>2. CASE Close(c)
  <2>1. stage' \in [Clients -> Stages]
    BY <1>2 DEF Close, TypeOK, Stages
  <2>2. queue' \in [Clients -> Seq(SUBSET Rows)]
    BY <1>2 DEF Close, TypeOK
  <2>. QED BY <1>2, <2>1, <2>2, Zenon DEF table, Close, TypeOK, rooms
<1>3. CASE ReceiveList(c)
  <2>1. queue[c] \in Seq(SUBSET Rows) /\ queue[c] # <<>>
    BY <1>3 DEF ReceiveList, TypeOK
  <2>2. Head(queue[c]) \in SUBSET Rows /\ Tail(queue[c]) \in Seq(SUBSET Rows)
    BY <2>1
  <2>3. queue' \in [Clients -> Seq(SUBSET Rows)] /\ shown' \in [Clients -> SUBSET Rows]
    BY <1>3, <2>2 DEF ReceiveList, TypeOK
  <2>. QED BY <1>3, <2>3, Zenon DEF table, ReceiveList, TypeOK, rooms
<1>4. CASE HandleAuthenticate(c)
  <2>1. Begin("master", "stats", {}) /\ {} \in SUBSET Clients
    BY <1>4 DEF HandleAuthenticate
  <2>. QED BY <1>4, <2>1, BeginType, Values DEF table, HandleAuthenticate, TypeOK, people
<1>5. CASE HandleJoinLobby(c)
  <2>1. Begin("master", "list", {c}) /\ {c} \in SUBSET Clients
    BY <1>5 DEF HandleJoinLobby
  <2>2. stage' \in [Clients -> Stages]
    BY <1>5 DEF HandleJoinLobby, TypeOK, Stages
  <2>. QED BY <1>5, <2>1, <2>2, BeginType, Values DEF table, HandleJoinLobby, TypeOK
<1>. QED BY <1>1, <1>2, <1>3, <1>4, <1>5

LEMMA MasterType ==
    ASSUME TypeOK, MasterStep
    PROVE  TypeOK'
<1>1. CASE Visit("master")
  BY <1>1, VisitType, Values, Zenon
<1>2. CASE MasterRaises
  <2>1. End("master", Rest)
    BY <1>2 DEF MasterRaises
  <2>. QED BY <1>2, <2>1, EndType, RestType, Values, Zenon DEF table, MasterRaises, TypeOK, people
<1>3. CASE MasterFinishes
  <2>1. thread["master"] \in Work
    BY Values DEF TypeOK
  <2>2. thread["master"].rows \in SUBSET Rows /\ thread["master"].to \in SUBSET Clients
    BY <2>1 DEF Work
  <2>3. queue' \in [Clients -> Seq(SUBSET Rows)]
    <3>1. queue' = queue \/ Push(thread["master"].to, thread["master"].rows)
      BY <1>3, Zenon DEF MasterFinishes
    <3>2. queue \in [Clients -> Seq(SUBSET Rows)]
      BY DEF TypeOK
    <3>. QED BY <2>2, <3>1, <3>2, PushType, Zenon
  <2>4. /\ thread' \in [Threads -> Work]
        /\ held' \in [Threads -> SUBSET Rows] /\ stayed' \in [Threads -> SUBSET GameIds]
    <3>1. \/ \E what \in {"list", "stats", "update"} : Begin("master", what, thread["master"].to)
          \/ End("master", Rest)
      BY <1>3, Zenon DEF MasterFinishes
    <3>. QED BY <2>2, <3>1, BeginType, EndType, RestType, Values, Zenon
  <2>. QED BY <1>3, <2>3, <2>4, Zenon DEF table, MasterFinishes, TypeOK
<1>. QED BY <1>1, <1>2, <1>3, Zenon DEF MasterStep

LEMMA UpdaterType ==
    ASSUME TypeOK, UpdaterStep
    PROVE  TypeOK'
<1>. DEFINE w == thread["updater"]
<1>1. /\ w \in Work /\ w.rows \in SUBSET Rows /\ w.to \in SUBSET Clients
      /\ w = [at |-> w.at, size |-> w.size, left |-> w.left, slot |-> w.slot, rows |-> w.rows, to |-> w.to]
  <2>1. w \in Work
    BY Values DEF TypeOK
  <2>. QED BY <2>1 DEF Work
<1>2. CASE Visit("updater")
  BY <1>2, VisitType, Values, Zenon
<1>3. CASE WakeUp
  <2>1. Begin("updater", "update", Connected) /\ Connected \in SUBSET Clients
    BY <1>3 DEF WakeUp, Connected
  <2>. QED BY <1>3, <2>1, BeginType, Values DEF table, WakeUp, TypeOK, people
<1>4. CASE UpdaterFinishes
  <2>1. End("updater", SendTo(w.to, w.rows))
    BY <1>4 DEF UpdaterFinishes
  <2>2. SendTo(w.to, w.rows) \in Work
    BY <1>1, RestType, Zenon
  <2>. QED BY <1>4, <2>1, <2>2, EndType, Values, Zenon DEF table, UpdaterFinishes, TypeOK, people
<1>5. CASE UpdaterDies
  <2>1. End("updater", [Rest EXCEPT !.at = "dead"])
    BY <1>5 DEF UpdaterDies
  <2>. QED BY <1>5, <2>1, EndType, RestType, Values, Zenon DEF table, UpdaterDies, TypeOK, people
<1>6. CASE UpdaterSends
  <2>1. CASE \E c \in w.to :
                /\ Push({c}, w.rows)
                /\ thread' = [thread EXCEPT !["updater"].to = @ \ {c}]
                /\ UNCHANGED <<held, stayed>>
    <3>1. PICK c \in w.to : /\ Push({c}, w.rows)
                            /\ thread' = [thread EXCEPT !["updater"].to = w.to \ {c}]
                            /\ UNCHANGED <<held, stayed>>
      BY <2>1
    <3>2. thread'["updater"] = [at |-> w.at, size |-> w.size, left |-> w.left, slot |-> w.slot, rows |-> w.rows,
                                to |-> w.to \ {c}]
      BY <1>1, <3>1, Values DEF TypeOK
    <3>3. thread'["updater"] \in Work
      BY <1>1, <3>2 DEF Work
    <3>4. thread' \in [Threads -> Work]
      BY <3>1, <3>3 DEF TypeOK
    <3>5. queue' \in [Clients -> Seq(SUBSET Rows)]
      BY <1>1, <3>1, PushType
    <3>. QED BY <1>6, <3>1, <3>4, <3>5, Zenon DEF table, UpdaterSends, TypeOK
  <2>2. CASE End("updater", Rest) /\ UNCHANGED queue
    BY <1>6, <2>2, EndType, RestType, Values, Zenon DEF table, UpdaterSends, TypeOK
  <2>. QED BY <1>6, <2>1, <2>2, Zenon DEF UpdaterSends
<1>. QED BY <1>2, <1>3, <1>4, <1>5, <1>6, Zenon DEF UpdaterStep

LEMMA TypesStep == TypeOK /\ SlotsInv /\ [Next]_vars => TypeOK' /\ SlotsInv'
<1>. SUFFICES ASSUME TypeOK, SlotsInv, [Next]_vars PROVE TypeOK' /\ SlotsInv'
     OBVIOUS
<1>1. ASSUME NEW g \in GameIds, CreateRoom(g) \/ Joins(g) \/ Leaves(g) \/ RemoveRoom(g)
      PROVE  TypeOK' /\ SlotsInv'
  BY <1>1, GameStep, ChangeType, Zenon
<1>2. ASSUME UNCHANGED table PROVE SlotsInv'
  BY <1>2 DEF SlotsInv, Live, Size, table
<1>3. CASE UNCHANGED vars
  BY <1>2, <1>3, Zenon DEF TypeOK, vars, rooms, table, people
<1>4. CASE MasterStep
  <2>1. UNCHANGED table
    BY <1>4, Zenon DEF MasterStep, Visit, MasterFinishes, MasterRaises, rooms
  <2>. QED BY <1>2, <1>4, <2>1, MasterType, Zenon
<1>5. CASE UpdaterStep
  <2>1. UNCHANGED table
    BY <1>5, Zenon DEF UpdaterStep, Visit, WakeUp, UpdaterFinishes, UpdaterDies, UpdaterSends, rooms
  <2>. QED BY <1>2, <1>5, <2>1, UpdaterType, Zenon
<1>6. ASSUME NEW c \in Clients,
             Connect(c) \/ Close(c) \/ ReceiveList(c) \/ HandleAuthenticate(c) \/ HandleJoinLobby(c)
      PROVE  TypeOK' /\ SlotsInv'
  <2>1. UNCHANGED table
    BY <1>6, Zenon DEF Connect, Close, ReceiveList, HandleAuthenticate, HandleJoinLobby, rooms
  <2>. QED BY <1>2, <1>6, <2>1, PeopleType, Zenon
<1>. QED BY <1>1, <1>3, <1>4, <1>5, <1>6, Zenon DEF Next

LEMMA SlotsInit == Init => SlotsInv
<1>. SUFFICES ASSUME Init PROVE SlotsInv
     OBVIOUS
<1>1. Live = {}
  BY DEF Init, Live, NoRoom
<1>2. Size = 0
  BY <1>1, FS_EmptySet DEF Size
<1>. QED BY <1>1, <1>2 DEF Init, SlotsInv

\* Every reachable state has its type.
THEOREM TypeCorrect == Spec => []TypeOK
BY TypesInit, SlotsInit, TypesStep, PTL DEF Spec

-----------------------------------------------------------------------------
(* Walking a dictionary that changes.                                      *)

HasRow(rows, g) == \E r \in rows : r[1] = g

\* What makes RowsTrue and NoneMissedInPlace inductive: while a thread walks, the rooms as
\* they are count among those that it may list, and the rooms that stayed where they were
\* are still there, those the walk has passed with a row.
WalkInv(t) ==
    /\ \A r, s \in thread[t].rows : r[1] = s[1] => r = s
    /\ Walking(t) => thread[t].rows \subseteq held[t] /\ Listing \subseteq held[t]
    /\ Walking(t) => \A g \in stayed[t] :
            g \in Live /\ (games[g].slot <= thread[t].slot => HasRow(thread[t].rows, g))

LobbyInv == TypeOK /\ SlotsInv /\ \A t \in Threads : WalkInv(t)

LEMMA LobbyInit == Init => LobbyInv
<1>. SUFFICES ASSUME Init PROVE LobbyInv
     OBVIOUS
<1>1. ASSUME NEW t \in Threads PROVE WalkInv(t)
  BY DEF Init, WalkInv, Rest, Walking
<1>. QED BY <1>1, TypesInit, SlotsInit DEF LobbyInv

\* A thread that has done with the rooms.
LEMMA WalkEnds ==
    ASSUME NEW t \in Threads, ~Walking(t)', thread'[t].rows \in {{}, thread[t].rows}, WalkInv(t)
    PROVE  WalkInv(t)'
BY DEF WalkInv

LEMMA WalkKept ==
    ASSUME NEW t \in Threads, WalkInv(t), UNCHANGED games, held'[t] = held[t], stayed'[t] = stayed[t],
           thread'[t].at = thread[t].at, thread'[t].rows = thread[t].rows,
           thread'[t].slot = thread[t].slot
    PROVE  WalkInv(t)'
<1>1. Live' = Live /\ Listing' = Listing /\ Walking(t)' = Walking(t)
  BY DEF Live, Listing, Row, Walking
<1>. QED BY <1>1, Zenon DEF WalkInv

LEMMA WalkBegins ==
    ASSUME TypeOK, NEW t \in Threads, NEW what \in {"list", "stats", "update"}, NEW whom,
           Begin(t, what, whom), UNCHANGED games
    PROVE  WalkInv(t)'
<1>1. thread'[t] = WalkFor(what, whom) /\ held'[t] = Listing /\ stayed'[t] = Live
  BY DEF TypeOK, Begin
<1>2. thread'[t].rows = {} /\ thread'[t].slot = 0 /\ thread'[t].at # "send"
  BY <1>1 DEF WalkFor
<1>3. Live' = Live /\ Listing' = Listing
  BY DEF Live, Listing, Row
<1>4. \A g \in Live : games'[g].slot \in Nat /\ ~(games'[g].slot <= 0)
  BY Values DEF Live, TypeOK, Room
<1>. QED BY <1>1, <1>2, <1>3, <1>4 DEF WalkInv

\* The other thread's walk goes on as it was.
LEMMA OtherWalk ==
    ASSUME LobbyInv, NEW t \in Threads, NEW u \in Threads, u # t, UNCHANGED games,
           thread'[u] = thread[u], held'[u] = held[u], stayed'[u] = stayed[u]
    PROVE  WalkInv(u)'
BY WalkKept, Zenon DEF LobbyInv

LEMMA RoomsChange ==
    ASSUME LobbyInv, NEW g \in GameIds, Change(g, games', places'), Others(g)
    PROVE  \A t \in Threads : WalkInv(t)'
<1>. USE DEF LobbyInv
<1>1. thread' = thread /\ \A t \in Threads : Walking(t)' = Walking(t)
  BY DEF Change, Walking
<1>2. SUFFICES ASSUME NEW t \in Threads PROVE WalkInv(t)'
  OBVIOUS
<1>3. WalkInv(t) /\ Walking(t)' = Walking(t)
  BY <1>1
<1>4. CASE ~Walking(t)
  BY <1>1, <1>3, <1>4, WalkEnds
<1>5. CASE Walking(t)
  <2>1. held'[t] = held[t] \cup {<<g, games'[g].players>>}
    BY <1>5 DEF Change
  <2>2. stayed'[t] = {h \in stayed[t] : games'[h].slot = games[h].slot}
    BY <1>5 DEF Change
  <2>3. Listing' \subseteq held'[t]
    <3>1. ASSUME NEW h \in Live' PROVE Row(h)' \in held'[t]
      <4>1. CASE h = g
        BY <2>1, <4>1 DEF Row
      <4>2. CASE h # g
        <5>1. h \in Live /\ Row(h)' = Row(h)
          BY <4>2 DEF Row, Others
        <5>2. Row(h) \in held[t]
          BY <1>3, <1>5, <5>1 DEF WalkInv, Listing
        <5>. QED BY <2>1, <5>1, <5>2
      <4>. QED BY <4>1, <4>2
    <3>. QED BY <3>1, Zenon DEF Listing
  <2>4. ASSUME NEW h \in stayed'[t]
        PROVE  h \in Live' /\ (games'[h].slot <= thread[t].slot => HasRow(thread[t].rows, h))
    <3>1. h \in stayed[t] /\ h \in Live /\ games'[h].slot = games[h].slot
      BY <1>3, <1>5, <2>2, <2>4 DEF WalkInv
    <3>2. h \in Live'
      BY <3>1 DEF Live
    <3>. QED BY <1>3, <1>5, <3>1, <3>2 DEF WalkInv
  <2>. QED BY <1>1, <1>3, <1>5, <2>1, <2>3, <2>4 DEF WalkInv
<1>. QED BY <1>4, <1>5

LEMMA VisitWalk ==
    ASSUME LobbyInv, NEW t \in Threads, Visit(t)
    PROVE  \A u \in Threads : WalkInv(u)'
<1>. USE DEF LobbyInv
<1>. DEFINE w == thread[t]
<1>1. PICK g \in NextEntry(w) :
        thread' = [thread EXCEPT ![t].slot = games[g].slot, ![t].left = @ - 1,
                                 ![t].rows = WithRow(w, g)]
  BY DEF Visit
<1>2. /\ Walking(t) /\ UNCHANGED <<games, held, stayed>> /\ thread \in [Threads -> Work]
  BY DEF table, Visit, rooms, TypeOK
<1>3. thread'[t].rows = WithRow(w, g) /\ thread'[t].slot = games[g].slot /\ thread'[t].at = w.at
  BY <1>1, <1>2 DEF Work
<1>4. \A u \in Threads : u # t => thread'[u] = thread[u]
  BY <1>1, <1>2
<1>5. /\ g \in Live /\ games[g].slot > w.slot
      /\ \A h \in Live : games[h].slot > w.slot => games[h].slot >= games[g].slot
  BY DEF NextEntry
<1>6. Live' = Live /\ Listing' = Listing /\ Walking(t)' = Walking(t)
  BY <1>2, <1>3 DEF Live, Listing, Row, Walking
<1>7. /\ WithRow(w, g) \subseteq held[t]
      /\ \A r, s \in WithRow(w, g) : r[1] = s[1] => r = s
      /\ HasRow(WithRow(w, g), g)
      /\ \A h : HasRow(w.rows, h) => HasRow(WithRow(w, g), h)
  <2>1. Row(g) \in held[t] /\ Row(g)[1] = g
    BY <1>2, <1>5 DEF WalkInv, Listing, Row
  <2>2. w.rows \subseteq held[t] /\ \A r, s \in w.rows : r[1] = s[1] => r = s
    <3>1. WalkInv(t)
      OBVIOUS
    <3>. QED BY <1>2, <3>1 DEF WalkInv
  <2>. QED BY <2>1, <2>2 DEF WithRow, HasRow
<1>8. ASSUME NEW h \in stayed[t]
      PROVE  h \in Live /\ (games[h].slot <= games[g].slot => HasRow(WithRow(w, g), h))
  <2>1. h \in Live /\ (games[h].slot <= w.slot => HasRow(w.rows, h))
    BY <1>2 DEF WalkInv
  <2>2. games[h].slot \in Nat /\ games[g].slot \in Nat /\ w.slot \in Nat
    BY <1>2, <1>5, <2>1, Values DEF Live, TypeOK, Room, Work
  <2>3. CASE games[h].slot <= w.slot
    BY <1>7, <2>1, <2>3
  <2>4. CASE games[h].slot > w.slot /\ games[h].slot <= games[g].slot
    <3>1. games[h].slot = games[g].slot
      BY <1>5, <2>1, <2>2, <2>4
    <3>2. h = g
      BY <1>5, <2>1, <3>1 DEF SlotsInv
    <3>. QED BY <1>7, <2>1, <3>2
  <2>. QED BY <2>1, <2>2, <2>3, <2>4
<1>9. WalkInv(t)'
  <2>1. Listing' \subseteq held'[t]
    BY <1>2, <1>6, Zenon DEF WalkInv
  <2>2. \A h \in stayed'[t] :
            h \in Live' /\ (games'[h].slot <= thread'[t].slot => HasRow(thread'[t].rows, h))
    BY <1>2, <1>3, <1>6, <1>8
  <2>3. /\ thread'[t].rows \subseteq held'[t]
        /\ \A r, s \in thread'[t].rows : r[1] = s[1] => r = s
    BY <1>2, <1>3, <1>7, ZenonT(30)
  <2>. QED BY <2>1, <2>2, <2>3, Zenon DEF WalkInv
<1>. QED BY <1>2, <1>4, <1>9, OtherWalk, Zenon

\* A walk that has come to the end has passed everything.
LEMMA FinishedWalk ==
    ASSUME LobbyInv, NEW t \in Threads, Finishes(t)
    PROVE  \A g \in stayed[t] : HasRow(thread[t].rows, g)
<1>. USE DEF LobbyInv
<1>. DEFINE w == thread[t]
            Behind == {g \in Live : games[g].slot > w.slot}
            Slots == {games[g].slot : g \in Behind}
<1>1. Walking(t) /\ NextEntry(w) = {}
  BY DEF Finishes
<1>2. w.slot \in Nat /\ \A g \in Live : games[g].slot \in Nat
  BY Values DEF TypeOK, Room, Live, Work
<1>3. Behind = {}
  <2>1. SUFFICES ASSUME Behind # {} PROVE FALSE
    OBVIOUS
  <2>2. Slots \in SUBSET Nat /\ Slots # {}
    BY <1>2, <2>1
  <2>3. PICK n \in Slots : \A m \in Slots : n <= m
    <3>. HIDE DEF Slots
    <3>. QED BY <2>2, Least, Zenon
  <2>4. PICK g \in Behind : games[g].slot = n
    BY <2>3
  <2>5. \A h \in Live : games[h].slot > w.slot => games[h].slot >= games[g].slot
    BY <1>2, <2>3, <2>4
  <2>6. g \in NextEntry(w)
    BY <2>4, <2>5 DEF NextEntry
  <2>. QED BY <1>1, <2>6
<1>4. ASSUME NEW g \in stayed[t] PROVE HasRow(w.rows, g)
  <2>1. g \in Live /\ (games[g].slot <= w.slot => HasRow(w.rows, g))
    BY <1>1 DEF WalkInv
  <2>. QED BY <1>2, <1>3, <2>1
<1>. QED BY <1>4

\* One thread begins or ends a walk, the other goes on.
LEMMA BeginOrEnd ==
    ASSUME LobbyInv, NEW t \in Threads, UNCHANGED games,
           \/ \E what \in {"list", "stats", "update"}, whom \in SUBSET Clients : Begin(t, what, whom)
           \/ End(t, Rest) \/ End(t, [Rest EXCEPT !.at = "dead"])
           \/ End(t, SendTo(thread[t].to, thread[t].rows))
    PROVE  \A u \in Threads : WalkInv(u)'
<1>. USE DEF LobbyInv
<1>1. WalkInv(t)'
  <2>1. CASE \E what \in {"list", "stats", "update"}, whom \in SUBSET Clients : Begin(t, what, whom)
    BY <2>1, WalkBegins, Zenon
  <2>2. CASE \/ End(t, Rest) \/ End(t, [Rest EXCEPT !.at = "dead"])
             \/ End(t, SendTo(thread[t].to, thread[t].rows))
    <3>1. \/ thread'[t] = Rest \/ thread'[t] = [Rest EXCEPT !.at = "dead"]
          \/ thread'[t] = SendTo(thread[t].to, thread[t].rows)
      BY <2>2 DEF End, TypeOK
    <3>2. thread'[t].rows \in {{}, thread[t].rows} /\ ~Walking(t)'
      BY <3>1 DEF Rest, SendTo, Walking
    <3>. QED BY <3>2, WalkEnds
  <2>. QED BY <2>1, <2>2
<1>2. \A u \in Threads : u # t => /\ thread'[u] = thread[u] /\ held'[u] = held[u]
                                 /\ stayed'[u] = stayed[u]
  BY DEF Begin, End, TypeOK
<1>. QED BY <1>1, <1>2, OtherWalk, Zenon

LEMMA LobbyStep == LobbyInv /\ [Next]_vars => LobbyInv'
<1>. SUFFICES ASSUME LobbyInv, [Next]_vars PROVE \A t \in Threads : WalkInv(t)'
     BY TypesStep, Zenon DEF LobbyInv
<1>. USE DEF LobbyInv
<1>1. ASSUME UNCHANGED <<rooms, thread>> PROVE \A t \in Threads : WalkInv(t)'
  BY <1>1, WalkKept, Zenon DEF rooms, table
<1>2. ASSUME NEW g \in GameIds, CreateRoom(g) \/ Joins(g) \/ Leaves(g) \/ RemoveRoom(g)
      PROVE  \A t \in Threads : WalkInv(t)'
  BY <1>2, GameStep, RoomsChange, Zenon
<1>3. ASSUME NEW c \in Clients,
             Connect(c) \/ Close(c) \/ ReceiveList(c) \/ HandleAuthenticate(c) \/ HandleJoinLobby(c)
      PROVE  \A t \in Threads : WalkInv(t)'
  <2>1. CASE Connect(c) \/ Close(c) \/ ReceiveList(c)
    BY <1>1, <2>1, Zenon DEF Connect, Close, ReceiveList
  <2>2. CASE HandleAuthenticate(c) \/ HandleJoinLobby(c)
    <3>1. {} \in SUBSET Clients /\ {c} \in SUBSET Clients
      OBVIOUS
    <3>2. /\ UNCHANGED table
          /\ \E what \in {"list", "stats", "update"}, whom \in SUBSET Clients : Begin("master", what, whom)
      BY <2>2, <3>1, Zenon DEF HandleAuthenticate, HandleJoinLobby
    <3>. QED BY <3>2, BeginOrEnd, Values, Zenon DEF table
  <2>. QED BY <1>3, <2>1, <2>2
<1>4. CASE MasterStep
  <2>1. CASE Visit("master")
    BY <2>1, VisitWalk, Values, Zenon
  <2>2. CASE MasterRaises
    BY <2>2, BeginOrEnd, Values, Zenon DEF MasterRaises, table
  <2>3. CASE MasterFinishes
    <3>1. UNCHANGED table /\ thread["master"].to \in SUBSET Clients
      BY <2>3, Values DEF MasterFinishes, TypeOK, Work
    <3>2. \/ \E what \in {"list", "stats", "update"} : Begin("master", what, thread["master"].to)
          \/ End("master", Rest)
      BY <2>3, Zenon DEF MasterFinishes
    <3>. QED BY <3>1, <3>2, BeginOrEnd, Values, Zenon DEF table
  <2>. QED BY <1>4, <2>1, <2>2, <2>3, Zenon DEF MasterStep
<1>5. CASE UpdaterStep
  <2>1. CASE Visit("updater")
    BY <2>1, VisitWalk, Values, Zenon
  <2>2. CASE WakeUp
    <3>1. Connected \in SUBSET Clients
      BY DEF Connected
    <3>. QED BY <2>2, <3>1, BeginOrEnd, Values, Zenon DEF WakeUp, table
  <2>3. CASE UpdaterDies
    BY <2>3, BeginOrEnd, Values, Zenon DEF UpdaterDies, table
  <2>4. CASE UpdaterFinishes
    BY <2>4, BeginOrEnd, Values, Zenon DEF UpdaterFinishes, table
  <2>5. CASE UpdaterSends
    <3>1. UNCHANGED games
      BY <2>5, Zenon DEF UpdaterSends, table
    <3>2. CASE End("updater", Rest)
      BY <3>1, <3>2, BeginOrEnd, Values, Zenon
    <3>3. CASE \E c \in Clients : /\ thread' = [thread EXCEPT !["updater"].to = @ \ {c}]
                                  /\ UNCHANGED <<held, stayed>>
      <4>1. \A t \in Threads : /\ thread'[t].at = thread[t].at /\ thread'[t].rows = thread[t].rows
                               /\ thread'[t].slot = thread[t].slot
        BY <3>3 DEF TypeOK, Work
      <4>. QED BY <3>1, <3>3, <4>1, WalkKept, Zenon
    <3>4. thread["updater"].to \subseteq Clients
      BY Values DEF TypeOK, Work
    <3>. QED BY <2>5, <3>2, <3>3, <3>4 DEF UpdaterSends
  <2>. QED BY <1>5, <2>1, <2>2, <2>3, <2>4, <2>5, Zenon DEF UpdaterStep
<1>6. CASE UNCHANGED vars
  BY <1>1, <1>6, Zenon DEF vars
<1>. QED BY <1>2, <1>3, <1>4, <1>5, <1>6, Zenon DEF Next

\* However the rooms change under a thread that lists them: what it lists was so at some
\* moment of its walk, once for each room.
THEOREM RowsAreTrue == Spec => []RowsTrue
<1>1. LobbyInv => RowsTrue
  BY Zenon DEF LobbyInv, WalkInv, RowsTrue
<1>. QED BY <1>1, LobbyInit, LobbyStep, PTL DEF Spec

\* And a list that is finished has all the rooms that kept their places in the dictionary
\* all along, even if it was rebuilt under the walk: the index then points behind other
\* rooms, but never past one of these.
THEOREM NoneInPlaceAreMissed == Spec => []NoneMissedInPlace
<1>1. LobbyInv => NoneMissedInPlace
  BY FinishedWalk, Zenon DEF NoneMissedInPlace, HasRow
<1>. QED BY <1>1, LobbyInit, LobbyStep, PTL DEF Spec

=============================================================================
