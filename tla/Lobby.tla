------------------------------- MODULE Lobby -------------------------------
(***************************************************************************)
(* The list of rooms.  The master server answers JoinLobby with the list,    *)
(* counts rooms and players for AppStats, and has an updater thread that     *)
(* sends the list to everybody connected.                                   *)
(*                                                                         *)
(* The rooms are a dictionary that the game server's thread changes while   *)
(* the master server's thread and the updater walk it entry by entry.       *)
(* CPython keeps the entries in an array, in the order of insertion; one    *)
(* that is removed leaves a hole.  A walk is an index into that array.  It  *)
(* raises when it looks for the next entry and their number is not what it  *)
(* was at first, or when it meets one more than there were.  An insertion   *)
(* that finds the array full rebuilds it without the holes, and the index   *)
(* of a walk then points elsewhere.  How many places the array has is left  *)
(* out: every insertion may be the one that finds it full.                 *)
(*                                                                         *)
(* A room is its number of players; names, owners and passwords are left    *)
(* out, and so are user ids and tokens, for want of which a handler raises, *)
(* and answers other than a list.                                          *)
(***************************************************************************)
EXTENDS Integers, Sequences, FiniteSets

CONSTANTS
    Clients,      \* connections to the master server
    GameIds,      \* ids of rooms
    MaxChanges,   \* bound: changes of the rooms
    MaxPlayers,   \* players in a room
    MaxQueue      \* bound: lists still queued when more of them are begun

ASSUME BoundAssumption ==
    IsFiniteSet(GameIds) /\ {MaxChanges, MaxPlayers, MaxQueue} \subseteq Nat

VARIABLES
    games,        \* GamesManager._games, see Room
    places,       \* places of the array of entries that are in use, holes included
    changes,      \* changes of the rooms so far
    stage,        \* of the connection to the master server
    queue,        \* the lists in PhotonQueue._outgoing
    shown,        \* the last list that the client received
    thread,       \* what the master server's thread and the updater are doing
    held,         \* rows that were true at some moment of a thread's walk
    stayed        \* rooms that have been in the same place since a thread's walk began

table == <<games, places, changes>>
rooms == <<table, held, stayed>>
people == <<stage, queue, shown>>
vars == <<rooms, people, thread>>

\* slot: the entry's place in the array, 0 if there is no such room.
Room == [slot : 0 .. MaxChanges, players : 0 .. MaxPlayers]
NoRoom == [slot |-> 0, players |-> 0]
Live == {g \in GameIds : games[g].slot # 0}
Size == Cardinality(Live)

\* A list of rooms, as the set of its rows.
Row(g) == <<g, games[g].players>>
Listing == {Row(g) : g \in Live}
Rows == GameIds \X (0 .. MaxPlayers)

Threads == {"master", "updater"}
Stages == {"away", "connected", "lobby", "closed"}
Connected == {c \in Clients : stage[c] \in {"connected", "lobby"}}

\* list, update: game_list_params; stats: app_stats; send: the updater's loop over clients.
Work == [at : {"idle", "list", "stats", "update", "send", "dead"},
         size : 0 .. Cardinality(GameIds), left : 0 .. Cardinality(GameIds),
         slot : 0 .. MaxChanges, rows : SUBSET Rows, to : SUBSET Clients]
Rest == [at |-> "idle", size |-> 0, left |-> 0, slot |-> 0, rows |-> {}, to |-> {}]
WalkFor(what, whom) ==
    [at |-> what, size |-> Size, left |-> Size, slot |-> 0, rows |-> {}, to |-> whom]
SendTo(whom, rows) ==
    [at |-> "send", size |-> 0, left |-> 0, slot |-> 0, rows |-> rows, to |-> whom]
Walking(t) == thread[t].at \in {"list", "stats", "update"}

Init ==
    /\ games = [g \in GameIds |-> NoRoom] /\ places = 0 /\ changes = 0
    /\ stage = [c \in Clients |-> "away"]
    /\ queue = [c \in Clients |-> <<>>] /\ shown = [c \in Clients |-> {}]
    /\ thread = [t \in Threads |-> Rest]
    /\ held = [t \in Threads |-> {}] /\ stayed = [t \in Threads |-> {}]

-----------------------------------------------------------------------------
(* The game server's thread.                                               *)

\* The dictionary is changed, by one operation on the room g.
Change(g, newGames, newPlaces) ==
    /\ changes < MaxChanges
    /\ changes' = changes + 1
    /\ games' = newGames /\ places' = newPlaces
    /\ held' = [t \in Threads |->
                    IF Walking(t) THEN held[t] \cup {<<g, newGames[g].players>>} ELSE held[t]]
    /\ stayed' = [t \in Threads |->
                    IF Walking(t) THEN {h \in stayed[t] : newGames[h].slot = games[h].slot}
                                  ELSE stayed[t]]
    /\ UNCHANGED <<people, thread>>

Becomes(g, room) == Change(g, [games EXCEPT ![g] = room], places)

NewRoom(slot) == [slot |-> slot, players |-> 0]

\* A new entry behind the others.
Insert(g) == Change(g, [games EXCEPT ![g] = NewRoom(places + 1)], places + 1)

\* A new entry for which there is no place: the others move up, in their order.
Rank(g) == Cardinality({h \in Live : games[h].slot <= games[g].slot})
Rebuilt(g) ==
    [h \in GameIds |-> IF h = g THEN NewRoom(Size + 1)
                       ELSE IF h \in Live THEN [games[h] EXCEPT !.slot = Rank(h)] ELSE NoRoom]
Rebuild(g) == Change(g, Rebuilt(g), Size + 1)

\* create_game: a new entry, or a new value under a key that is there already.
CreateRoom(g) ==
    \/ g \in Live /\ Becomes(g, NewRoom(games[g].slot))
    \/ g \notin Live /\ (Insert(g) \/ Rebuild(g))

Joins(g) ==
    /\ g \in Live /\ games[g].players < MaxPlayers
    /\ Becomes(g, [games[g] EXCEPT !.players = @ + 1])

\* Mutant: a player is taken off the count once more by the sweep.
LeavesTwice(g) ==
    /\ g \in Live
    /\ Becomes(g, [games[g] EXCEPT !.players = @ - 1])

Leaves(g) ==
    /\ g \in Live /\ games[g].players > 0
    /\ Becomes(g, [games[g] EXCEPT !.players = @ - 1])

RemoveRoom(g) ==
    /\ g \in Live /\ games[g].players = 0
    /\ Becomes(g, NoRoom)

-----------------------------------------------------------------------------
(* Walking the rooms.                                                      *)

\* Mutant: a list is built once and used again, its rows are kept for the next walk.
BeginWithLast(t, what, whom) ==
    /\ thread' = [thread EXCEPT ![t] = [WalkFor(what, whom) EXCEPT !.rows = thread[t].rows]]
    /\ held' = [held EXCEPT ![t] = Listing]
    /\ stayed' = [stayed EXCEPT ![t] = Live]

\* Thread t begins to walk.
Begin(t, what, whom) ==
    /\ thread' = [thread EXCEPT ![t] = WalkFor(what, whom)]
    /\ held' = [held EXCEPT ![t] = Listing]
    /\ stayed' = [stayed EXCEPT ![t] = Live]

\* It has nothing more to do with the rooms.
End(t, work) ==
    /\ thread' = [thread EXCEPT ![t] = work]
    /\ held' = [held EXCEPT ![t] = {}]
    /\ stayed' = [stayed EXCEPT ![t] = {}]

\* Mutant: the walk counts the entries it has seen, goes on with the one after so many
\* and ends at one that it has seen.
NextByRank(w) ==
    {g \in Live : /\ Cardinality({h \in Live : games[h].slot < games[g].slot}) = Cardinality(w.rows)
                  /\ \A r \in w.rows : r[1] # g}

\* The entry that a walk looks at next, if any: the first one at its index or behind.
NextEntry(w) ==
    {g \in Live : /\ games[g].slot > w.slot
                  /\ \A h \in Live : games[h].slot > w.slot => games[h].slot >= games[g].slot}

\* A room that is met again under a new slot replaces its row.
WithRow(w, g) == {r \in w.rows : r[1] # g} \cup {Row(g)}

Visit(t) ==
    LET w == thread[t]
    IN  /\ Walking(t) /\ w.size = Size /\ w.left > 0
        /\ \E g \in NextEntry(w) :
            thread' = [thread EXCEPT ![t].slot = games[g].slot, ![t].left = @ - 1,
                                     ![t].rows = WithRow(w, g)]
        /\ UNCHANGED <<rooms, people>>

\* "dictionary changed size during iteration", "dictionary keys changed during iteration".
Raises(t) ==
    LET w == thread[t]
    IN  Walking(t) /\ (w.size # Size \/ (w.left = 0 /\ NextEntry(w) # {}))

Finishes(t) == Walking(t) /\ thread[t].size = Size /\ NextEntry(thread[t]) = {}

-----------------------------------------------------------------------------
(* The clients and the master server's thread.                             *)

Connect(c) ==
    /\ stage[c] = "away"
    /\ stage' = [stage EXCEPT ![c] = "connected"]
    /\ UNCHANGED <<rooms, queue, shown, thread>>

Close(c) ==
    /\ c \in Connected
    /\ stage' = [stage EXCEPT ![c] = "closed"]
    /\ queue' = [queue EXCEPT ![c] = <<>>] /\ shown' = [shown EXCEPT ![c] = {}]
    /\ UNCHANGED <<rooms, thread>>

ReceiveList(c) ==
    /\ c \in Connected /\ queue[c] # <<>>
    /\ shown' = [shown EXCEPT ![c] = Head(queue[c])]
    /\ queue' = [queue EXCEPT ![c] = Tail(@)]
    /\ UNCHANGED <<rooms, stage, thread>>

Serving(c) == thread["master"].at = "idle" /\ c \in Connected

\* Authenticate: a response, unless to_token raises, and AppStats.  Clients do it first.
HandleAuthenticate(c) ==
    /\ Serving(c) /\ stage[c] = "connected"
    /\ Begin("master", "stats", {})
    /\ UNCHANGED <<table, people>>

\* JoinLobby: the response is queued, then the list, AppStats and the list once more.
\* A client asks again when it has been sent, up to MaxQueue lists, what it asked for.
HandleJoinLobby(c) ==
    /\ Serving(c) /\ Len(queue[c]) < MaxQueue
    /\ stage' = [stage EXCEPT ![c] = "lobby"]
    /\ Begin("master", "list", {c})
    /\ UNCHANGED <<table, queue, shown>>

Push(whom, rows) ==
    queue' = [c \in Clients |-> IF c \in whom \cap Connected THEN Append(queue[c], rows) ELSE queue[c]]

MasterFinishes ==
    LET w == thread["master"]
    IN  /\ Finishes("master")
        /\ IF w.at = "stats" THEN UNCHANGED queue ELSE Push(w.to, w.rows)
        /\ \/ w.at = "list" /\ Begin("master", "stats", w.to)
           \/ w.at = "stats" /\ w.to # {} /\ Begin("master", "update", w.to)
           \/ w.at = "stats" /\ w.to = {} /\ End("master", Rest)
           \/ w.at = "update" /\ End("master", Rest)
        /\ UNCHANGED <<table, stage, shown>>

\* The exception ends the pass; what the handler has not sent is never sent.
MasterRaises ==
    /\ Raises("master")
    /\ End("master", Rest)
    /\ UNCHANGED <<table, people>>

MasterStep == Visit("master") \/ MasterFinishes \/ MasterRaises

-----------------------------------------------------------------------------
(* The updater.                                                            *)

\* Five seconds later.  It is a matter of those five seconds that the clients' queues
\* have been sent by then, up to MaxQueue lists.
WakeUp ==
    /\ thread["updater"].at = "idle" /\ Connected # {}
    /\ \A c \in Clients : Len(queue[c]) < MaxQueue
    /\ Begin("updater", "update", Connected)
    /\ UNCHANGED <<table, people>>

\* Mutant: when there are no rooms there is nothing to send.
UpdaterSkipsEmpty ==
    /\ Finishes("updater")
    /\ IF thread["updater"].rows = {} THEN End("updater", Rest)
       ELSE End("updater", SendTo(thread["updater"].to, thread["updater"].rows))
    /\ UNCHANGED <<table, people>>

UpdaterFinishes ==
    /\ Finishes("updater")
    /\ End("updater", SendTo(thread["updater"].to, thread["updater"].rows))
    /\ UNCHANGED <<table, people>>

\* Nothing catches the exception: the thread is gone.
UpdaterDies ==
    /\ Raises("updater")
    /\ End("updater", [Rest EXCEPT !.at = "dead"])
    /\ UNCHANGED <<table, people>>

\* Clients are sent the same packet one after the other.
UpdaterSends ==
    LET w == thread["updater"]
    IN  /\ w.at = "send"
        /\ \/ \E c \in w.to :
                /\ Push({c}, w.rows)
                /\ thread' = [thread EXCEPT !["updater"].to = @ \ {c}]
                /\ UNCHANGED <<held, stayed>>
           \/ w.to = {} /\ End("updater", Rest) /\ UNCHANGED queue
        /\ UNCHANGED <<table, stage, shown>>

UpdaterStep == WakeUp \/ Visit("updater") \/ UpdaterFinishes \/ UpdaterDies \/ UpdaterSends

-----------------------------------------------------------------------------

Next ==
    \/ \E g \in GameIds : CreateRoom(g) \/ Joins(g) \/ Leaves(g) \/ RemoveRoom(g)
    \/ \E c \in Clients :
        \/ Connect(c) \/ Close(c) \/ ReceiveList(c)
        \/ HandleAuthenticate(c) \/ HandleJoinLobby(c)
    \/ MasterStep \/ UpdaterStep

Spec == Init /\ [][Next]_vars

\* Both threads run and what is queued is sent.
Fairness ==
    /\ WF_vars(MasterStep) /\ WF_vars(UpdaterStep)
    /\ \A c \in Clients : WF_vars(ReceiveList(c))
FairSpec == Spec /\ Fairness

-----------------------------------------------------------------------------
(* Properties.                                                             *)

TypeOK ==
    /\ games \in [GameIds -> Room] /\ {places, changes} \subseteq 0 .. MaxChanges
    /\ stage \in [Clients -> Stages]
    /\ queue \in [Clients -> Seq(SUBSET Rows)] /\ shown \in [Clients -> SUBSET Rows]
    /\ thread \in [Threads -> Work]
    /\ held \in [Threads -> SUBSET Rows] /\ stayed \in [Threads -> SUBSET GameIds]

\* A list may mix rooms as they were at different moments, but every row of it was true
\* at some moment of the walk that built it, and no room has two rows.
RowsTrue ==
    \A t \in Threads :
        /\ Walking(t) => thread[t].rows \subseteq held[t]
        /\ \A r, s \in thread[t].rows : r[1] = s[1] => r = s

\* A walk that does not raise misses no room that kept its place all along, whatever was
\* created, removed and created again meanwhile, and even if that rebuilt the dictionary.
\* It may miss a room that a rebuild moved up behind its index.
NoneMissedInPlace ==
    \A t \in Threads :
        Finishes(t) => \A g \in stayed[t] : \E r \in thread[t].rows : r[1] = g

\* Once the rooms no longer change, everybody connected is shown the rooms as they are,
\* lists that missed some or were overtaken by newer ones notwithstanding; unless the
\* updater is dead.
ListsConverge ==
    <>[](thread["updater"].at = "dead" \/ \A c \in Connected : shown[c] = Listing)
=============================================================================
