----------------------------- MODULE Broadcast -----------------------------
(***************************************************************************)
(* What the game thread sends to the members of a room and what their send *)
(* workers make of it.  A relayed event is one PhotonOperationPacket put    *)
(* into several clients' queues; each worker sets the packet's AES key to   *)
(* its own client's and then serializes it.  A properties update is a       *)
(* packet of its own for each recipient, but all of them hold the sender's  *)
(* live property table, which the game thread goes on changing and which a  *)
(* worker reads when it serializes the packet.                              *)
(*                                                                         *)
(* The members are in one room throughout.  A handler's appends to the      *)
(* queues are one step: a worker only ever takes from the front of its own. *)
(***************************************************************************)
EXTENDS Naturals, Sequences, FiniteSets

CONSTANTS
    Clients,      \* the members of the room
    NoKey,        \* the AES key of a packet no worker has touched
    Encrypted,    \* the RaiseEvents come encrypted
    MaxEvents,    \* bound: events relayed
    MaxUpdates,   \* bound: updates of one client's properties
    Updaters      \* bound: the members whose properties change

ASSUME NoKeyAssumption == NoKey \notin Clients
ASSUME EncryptedAssumption == Encrypted \in BOOLEAN
ASSUME BoundAssumption == MaxEvents \in Nat /\ MaxUpdates \in Nat
ASSUME UpdatersAssumption == Updaters \subseteq Clients

VARIABLES
    table,     \* _custom_proeperties: number of entries and version of the content
    events,    \* relayed event packets: recipients, and PhotonOperationPacket._aes_key
    outbox,    \* PhotonQueue._outgoing
    worker,    \* what the client's send worker is doing
    got,       \* events the client received, and the key each was encrypted with
    seen,      \* version of each other member's properties the client received last
    broken     \* the client's socket is closed, or its stream is garbled

vars == <<table, events, outbox, worker, got, seen, broken>>

Others(c) == Clients \ {c}

Item == [kind : {"event"}, id : 1 .. MaxEvents] \cup [kind : {"props"}, of : Clients]
Table == [size : 0 .. MaxUpdates, version : 0 .. MaxUpdates]
IdleWorker == [at |-> "idle"]
Worker ==
    {IdleWorker}
      \cup [at : {"taken"}, item : Item]
      \cup [at : {"keyed"}, item : Item]
      \cup [at : {"counted"}, item : Item, entry : Table]

Init ==
    /\ table = [c \in Clients |-> [size |-> 0, version |-> 0]]
    /\ events = <<>>
    /\ outbox = [c \in Clients |-> <<>>]
    /\ worker = [c \in Clients |-> IdleWorker]
    /\ got = [c \in Clients |-> <<>>]
    /\ seen = [c \in Clients |-> [d \in Clients |-> 0]]
    /\ broken = [c \in Clients |-> FALSE]

Push(recipients, item) ==
    outbox' = [c \in Clients |-> IF c \in recipients THEN Append(outbox[c], item) ELSE outbox[c]]

-----------------------------------------------------------------------------
(* The game thread.                                                        *)

\* Mutant: the packet goes to the front of the queue.
RaiseUrgently(c) ==
    \E to \in SUBSET Others(c) :
        /\ Len(events) < MaxEvents
        /\ events' = Append(events, [to |-> to, key |-> NoKey])
        /\ outbox' = [d \in Clients |-> IF d \in to
                        THEN <<[kind |-> "event", id |-> Len(events) + 1]>> \o outbox[d] ELSE outbox[d]]
        /\ UNCHANGED <<table, worker, got, seen, broken>>

\* GameObject.raise_event: one packet for all the recipients, everybody else in
\* the room or the actors that the sender names.
RaiseEvent(c) ==
    \E to \in SUBSET Others(c) :
        /\ Len(events) < MaxEvents
        /\ events' = Append(events, [to |-> to, key |-> NoKey])
        /\ Push(to, [kind |-> "event", id |-> Len(events) + 1])
        /\ UNCHANGED <<table, worker, got, seen, broken>>

\* Mutant: an update that brings no new entry is not sent.
SetOnlyNew(c) ==
    /\ c \in Updaters /\ table[c].version < MaxUpdates
    /\ \E new \in {0, 1} :
            /\ table' = [table EXCEPT ![c] = [size |-> @.size + new, version |-> @.version + 1]]
            /\ Push(IF new = 1 THEN Others(c) ELSE {}, [kind |-> "props", of |-> c])
    /\ UNCHANGED <<events, worker, got, seen, broken>>

\* SetProperties merges the new values, perhaps with a new entry, and sends the
\* table to everybody else in the room.
SetProperties(c) ==
    /\ c \in Updaters /\ table[c].version < MaxUpdates
    /\ \E new \in {0, 1} :
            table' = [table EXCEPT ![c] = [size |-> @.size + new, version |-> @.version + 1]]
    /\ Push(Others(c), [kind |-> "props", of |-> c])
    /\ UNCHANGED <<events, worker, got, seen, broken>>

-----------------------------------------------------------------------------
(* The send workers.                                                       *)

Take(c) ==
    /\ ~broken[c] /\ worker[c].at = "idle" /\ outbox[c] # <<>>
    /\ worker' = [worker EXCEPT ![c] = [at |-> "taken", item |-> Head(outbox[c])]]
    /\ outbox' = [outbox EXCEPT ![c] = Tail(@)]
    /\ UNCHANGED <<table, events, got, seen, broken>>

\* Mutant: a worker that finds its client's key already in use skips the packet's.
RecryptOnce(c) ==
    /\ worker[c].at = "taken" /\ worker[c].item.kind = "event"
    /\ events' = IF Encrypted /\ \A i \in DOMAIN events : events[i].key # c
                 THEN [events EXCEPT ![worker[c].item.id].key = c] ELSE events
    /\ worker' = [worker EXCEPT ![c].at = "keyed"]
    /\ UNCHANGED <<table, outbox, got, seen, broken>>

\* _recrypt gives an encrypted packet the key of this worker's client.
Recrypt(c) ==
    /\ worker[c].at = "taken" /\ worker[c].item.kind = "event"
    /\ events' = IF Encrypted THEN [events EXCEPT ![worker[c].item.id].key = c] ELSE events
    /\ worker' = [worker EXCEPT ![c].at = "keyed"]
    /\ UNCHANGED <<table, outbox, got, seen, broken>>

\* serialize encrypts with the key the packet has now; the bytes are sent.
SendEvent(c) ==
    /\ worker[c].at = "keyed"
    /\ got' = [got EXCEPT ![c] = Append(@, [id |-> worker[c].item.id,
                                            key |-> events[worker[c].item.id].key])]
    /\ worker' = [worker EXCEPT ![c] = IdleWorker]
    /\ UNCHANGED <<table, events, outbox, seen, broken>>

\* Serializing a table writes the number of its entries first.
CountProperties(c) ==
    /\ worker[c].at = "taken" /\ worker[c].item.kind = "props"
    /\ worker' = [worker EXCEPT ![c] =
                    [at |-> "counted", item |-> @.item, entry |-> table[@.item.of]]]
    /\ UNCHANGED <<table, events, outbox, got, seen, broken>>

\* Then the entries.  An entry that was added since makes the iteration fail,
\* which closes the recipient's socket, or follows a count that is too small;
\* without one the values are the old ones, the new ones, or some of each.
SendProperties(c) ==
    LET of == worker[c].item.of
        counted == worker[c].entry
    IN  /\ worker[c].at = "counted"
        /\ IF table[of].size # counted.size
           THEN broken' = [broken EXCEPT ![c] = TRUE] /\ UNCHANGED seen
           ELSE /\ \E v \in {counted.version, table[of].version} :
                        seen' = [seen EXCEPT ![c][of] = v]
                /\ UNCHANGED broken
        /\ worker' = [worker EXCEPT ![c] = IdleWorker]
        /\ UNCHANGED <<table, events, outbox, got>>

Next ==
    \E c \in Clients :
        \/ RaiseEvent(c) \/ SetProperties(c)
        \/ Take(c) \/ Recrypt(c) \/ SendEvent(c) \/ CountProperties(c) \/ SendProperties(c)

Spec == Init /\ [][Next]_vars

-----------------------------------------------------------------------------
(* Properties.                                                             *)

TypeOK ==
    /\ table \in [Clients -> Table]
    /\ events \in Seq([to : SUBSET Clients, key : Clients \cup {NoKey}])
    /\ outbox \in [Clients -> Seq(Item)]
    /\ worker \in [Clients -> Worker]
    /\ got \in [Clients -> Seq([id : 1 .. MaxEvents, key : Clients \cup {NoKey}])]
    /\ seen \in [Clients -> [Clients -> 0 .. MaxUpdates]]
    /\ broken \in [Clients -> BOOLEAN]

\* The items on their way to a client: the one its worker holds, then its queue.
OnTheWay(c) == (IF worker[c].at = "idle" THEN <<>> ELSE <<worker[c].item>>) \o outbox[c]

\* Every recipient of an event gets it, once, and in the order in which the room's
\* events were relayed, however the workers share the packets: the events a client got
\* and those on their way to it are the events for it, in rising order.
EventsInOrder ==
    \A c \in Clients :
        LET way == OnTheWay(c)
            coming == {i \in DOMAIN way : way[i].kind = "event"}
        IN  /\ {got[c][i].id : i \in DOMAIN got[c]} \cup {way[i].id : i \in coming}
                  = {id \in DOMAIN events : c \in events[id].to}
            /\ \A i, j \in DOMAIN got[c] : i < j => got[c][i].id < got[c][j].id
            /\ \A i, j \in coming : i < j => way[i].id < way[j].id
            /\ \A i \in DOMAIN got[c], j \in coming : got[c][i].id < way[j].id

\* A properties packet may be sent with values newer than those it was made for,
\* or with a mixture; but once nothing more is on its way, every member that is
\* still connected knows every other member's current properties.
PropertiesConverge ==
    \A c \in Clients : \A d \in Others(c) :
        \/ broken[c]
        \/ \E i \in DOMAIN OnTheWay(c) : OnTheWay(c)[i] = [kind |-> "props", of |-> d]
        \/ seen[c][d] = table[d].version

\* "Preserve encryption mode from the incoming RaiseEvent payload": whichever worker
\* set the shared packet's key last, no recipient gets an encrypted event in clear or
\* under the key of somebody it was not sent to.
ModePreserved ==
    \A c \in Clients : \A i \in DOMAIN got[c] :
        got[c][i].key \in IF Encrypted THEN events[got[c][i].id].to ELSE {NoKey}
=============================================================================
