-------------------------- MODULE BroadcastProofs --------------------------
(***************************************************************************)
(* Proofs about Broadcast, for any number of members, events and updates.  *)
(***************************************************************************)
EXTENDS Broadcast, TLAPS

USE BoundAssumption, NoKeyAssumption, EncryptedAssumption

-----------------------------------------------------------------------------
(* Lemmas about values.                                                    *)

LEMMA ItemKinds ==
    ASSUME NEW item \in Item
    PROVE  /\ item.kind \in {"event", "props"}
           /\ item.kind = "event" => item.id \in 1 .. MaxEvents
           /\ item.kind = "props" => item.of \in Clients
BY DEF Item

LEMMA WorkerKinds ==
    ASSUME NEW w \in Worker
    PROVE  /\ w.at \in {"idle", "taken", "keyed", "counted"}
           /\ w.at # "idle" => w.item \in Item
           /\ w.at = "counted" => w.entry \in Table
BY DEF Worker, IdleWorker

LEMMA NewWorkers ==
    ASSUME NEW item \in Item, NEW entry \in Table
    PROVE  /\ IdleWorker \in Worker /\ IdleWorker.at = "idle"
           /\ [at |-> "taken", item |-> item] \in Worker
           /\ [at |-> "keyed", item |-> item] \in Worker
           /\ [at |-> "counted", item |-> item, entry |-> entry] \in Worker
BY DEF Worker, IdleWorker

\* What _recrypt leaves of a worker that has taken an item.
LEMMA Keyed ==
    ASSUME NEW w \in Worker, w.at = "taken"
    PROVE  [w EXCEPT !.at = "keyed"] = [at |-> "keyed", item |-> w.item]
BY DEF Worker, IdleWorker

LEMMA AppendedTo ==
    ASSUME NEW S, NEW s \in Seq(S), NEW e \in S
    PROVE  /\ Append(s, e) \in Seq(S) /\ Len(Append(s, e)) = Len(s) + 1
           /\ \A i \in 1 .. Len(s) : Append(s, e)[i] = s[i]
           /\ Append(s, e)[Len(s) + 1] = e
OBVIOUS

LEMMA Taken ==
    ASSUME NEW S, NEW s \in Seq(S), s # <<>>
    PROVE  /\ Head(s) \in S /\ Head(s) = s[1] /\ 1 \in DOMAIN s
           /\ Tail(s) \in Seq(S) /\ Len(Tail(s)) = Len(s) - 1
           /\ \A i \in DOMAIN Tail(s) : i + 1 \in DOMAIN s /\ Tail(s)[i] = s[i + 1]
           /\ \A i \in DOMAIN s : i = 1 \/ (i - 1 \in DOMAIN Tail(s) /\ Tail(s)[i - 1] = s[i])
OBVIOUS

-----------------------------------------------------------------------------
(* The inductive invariant.                                                *)

Event == [to : SUBSET Clients, key : Clients \cup {NoKey}]
Receipt == [id : 1 .. MaxEvents, key : Clients \cup {NoKey}]
Props(d) == [kind |-> "props", of |-> d]

\* An event packet is in the hands of somebody it is for.
Addressed(packets, c, item) ==
    item.kind = "event" => item.id \in DOMAIN packets /\ c \in packets[item.id].to

\* Keys that a packet may have, and that it has once a worker has set one.
Keys(event) == IF Encrypted THEN event.to ELSE {NoKey}

\* What ModePreserved needs to be inductive: a packet's key is that of a recipient of it from
\* the first recrypt on, whichever worker sets it next.
PacketsInv ==
    /\ \A i \in DOMAIN events : events[i].key \in Keys(events[i]) \cup {NoKey}
    /\ \A c \in Clients :
        /\ \A i \in DOMAIN outbox[c] : Addressed(events, c, outbox[c][i])
        /\ worker[c].at \in {"taken", "keyed"} => Addressed(events, c, worker[c].item)
        /\ worker[c].at = "keyed" =>
                /\ worker[c].item.kind = "event"
                /\ events[worker[c].item.id].key \in Keys(events[worker[c].item.id])
        /\ \A i \in DOMAIN got[c] :
                got[c][i].id \in DOMAIN events /\ got[c][i].key \in Keys(events[got[c][i].id])

Waiting(c, d) == \E i \in DOMAIN outbox[c] : outbox[c][i] = Props(d)
InHand(c, d) == worker[c].at \in {"taken", "counted"} /\ worker[c].item = Props(d)

\* What PropertiesConverge needs to be inductive: a worker that has begun to write a table
\* writes the current version of it or has another packet about it to send.
TablesInv ==
    /\ \A c \in Clients : table[c].size <= table[c].version
    /\ \A c \in Clients :
        worker[c].at = "counted" =>
            /\ worker[c].item.kind = "props"
            /\ \A d \in Others(c) : worker[c].item = Props(d) =>
                    worker[c].entry.version = table[d].version \/ Waiting(c, d)
    /\ \A c \in Clients : \A d \in Others(c) :
        broken[c] \/ Waiting(c, d) \/ InHand(c, d) \/ seen[c][d] = table[d].version

RoomInv == TypeOK /\ PacketsInv /\ TablesInv

LEMMA RoomInit == Init => RoomInv
<1>. SUFFICES ASSUME Init PROVE RoomInv
     OBVIOUS
<1>1. TypeOK
  <2>1. IdleWorker \in Worker
    BY DEF Worker
  <2>. QED BY <2>1 DEF Init, TypeOK, Table
<1>2. PacketsInv
  BY DEF Init, PacketsInv, IdleWorker
<1>3. TablesInv
  BY DEF Init, TablesInv, IdleWorker, Others
<1>. QED BY <1>1, <1>2, <1>3 DEF RoomInv

\* The parts of TypeOK that a client has.
LEMMA Typed ==
    ASSUME TypeOK, NEW c \in Clients
    PROVE  /\ table[c] \in Table /\ outbox[c] \in Seq(Item) /\ worker[c] \in Worker
           /\ got[c] \in Seq(Receipt) /\ events \in Seq(Event)
BY DEF TypeOK, Event, Receipt

LEMMA EventType ==
    ASSUME NEW to \in SUBSET Clients, NEW key \in Clients \cup {NoKey}
    PROVE  [to |-> to, key |-> key] \in Event
BY DEF Event

LEMMA EventParts ==
    ASSUME NEW s \in Seq(Event), NEW i \in DOMAIN s
    PROVE  s[i] \in Event /\ s[i].to \in SUBSET Clients /\ s[i].key \in Clients \cup {NoKey}
<1>1. s[i] \in Event
  OBVIOUS
<1>. QED BY <1>1 DEF Event

\* What _recrypt makes of the packets.
LEMMA Rekeyed ==
    ASSUME NEW s \in Seq(Event), NEW i \in DOMAIN s, NEW c \in Clients
    PROVE  LET t == [s EXCEPT ![i].key = c]
           IN  /\ t \in Seq(Event) /\ DOMAIN t = DOMAIN s
               /\ \A j \in DOMAIN s :
                    t[j].to = s[j].to /\ t[j].key = IF j = i THEN c ELSE s[j].key
<1>. DEFINE e == [s[i] EXCEPT !.key = c]
            t == [s EXCEPT ![i] = e]
<1>1. s[i] \in Event
  OBVIOUS
<1>2. e \in Event /\ e.to = s[i].to /\ e.key = c
  BY <1>1 DEF Event
<1>. HIDE DEF e
<1>3. t \in Seq(Event) /\ DOMAIN t = DOMAIN s /\ t[i] = e /\ \A j \in DOMAIN s : j # i => t[j] = s[j]
  BY <1>2
<1>4. t = [s EXCEPT ![i].key = c]
  BY DEF e
<1>. HIDE DEF t
<1>5. ASSUME NEW j \in DOMAIN s
      PROVE  t[j].to = s[j].to /\ t[j].key = IF j = i THEN c ELSE s[j].key
  <2>1. CASE j = i
    BY <2>1, <1>2, <1>3
  <2>2. CASE j # i
    <3>1. t[j] = s[j]
      BY <2>2, <1>3, Zenon
    <3>. QED BY <2>2, <3>1
  <2>. QED BY <2>1, <2>2
<1>. QED BY <1>3, <1>4, <1>5, Zenon

LEMMA PushType ==
    ASSUME TypeOK, NEW to \in SUBSET Clients, NEW item \in Item, Push(to, item)
    PROVE  outbox' \in [Clients -> Seq(Item)]
BY DEF TypeOK, Push

LEMMA TypeStep ==
    ASSUME RoomInv, Next
    PROVE  TypeOK'
<1>. USE DEF RoomInv
<1>. PICK c \in Clients :
        \/ RaiseEvent(c) \/ SetProperties(c)
        \/ Take(c) \/ Recrypt(c) \/ SendEvent(c) \/ CountProperties(c) \/ SendProperties(c)
  BY Zenon DEF Next
<1>. DEFINE w == worker[c]
<1>w. /\ w \in Worker /\ w.at \in {"idle", "taken", "keyed", "counted"}
      /\ w.at # "idle" => w.item \in Item
      /\ w.at = "counted" => w.entry \in Table
  BY Typed, WorkerKinds, Zenon
<1>1. CASE RaiseEvent(c)
  <2>1. PICK to \in SUBSET Others(c) :
            /\ Len(events) < MaxEvents
            /\ events' = Append(events, [to |-> to, key |-> NoKey])
            /\ Push(to, [kind |-> "event", id |-> Len(events) + 1])
            /\ UNCHANGED <<table, worker, got, seen, broken>>
    BY <1>1, Zenon DEF RaiseEvent
  <2>2. events' \in Seq(Event)
    <3>1. events \in Seq(Event)
      BY Typed, Zenon
    <3>2. [to |-> to, key |-> NoKey] \in Event
      BY EventType DEF Others
    <3>. QED BY <2>1, <3>1, <3>2, AppendedTo, Zenon
  <2>3. [kind |-> "event", id |-> Len(events) + 1] \in Item
    BY <2>1, Typed DEF Item
  <2>4. to \in SUBSET Clients
    BY DEF Others
  <2>5. outbox' \in [Clients -> Seq(Item)]
    BY <2>1, <2>3, <2>4, PushType, Zenon
  <2>. QED BY <2>1, <2>2, <2>5 DEF TypeOK, Event
<1>2. CASE SetProperties(c)
  <2>1. PICK new \in {0, 1} :
            table' = [table EXCEPT ![c] = [size |-> @.size + new, version |-> @.version + 1]]
    BY <1>2, Zenon DEF SetProperties
  <2>2. /\ table[c].size \in 0 .. MaxUpdates /\ table[c].version \in 0 .. MaxUpdates
        /\ table[c].size <= table[c].version /\ table[c].version < MaxUpdates
    BY <1>2, Typed DEF SetProperties, Table, TablesInv
  <2>3. [size |-> table[c].size + new, version |-> table[c].version + 1] \in Table
    BY <2>2 DEF Table
  <2>4. table' \in [Clients -> Table]
    BY <2>1, <2>3 DEF TypeOK
  <2>5. Others(c) \in SUBSET Clients /\ [kind |-> "props", of |-> c] \in Item
    BY DEF Others, Item
  <2>6. outbox' \in [Clients -> Seq(Item)]
    BY <1>2, <2>5, PushType, Zenon DEF SetProperties
  <2>. QED BY <1>2, <2>4, <2>6 DEF TypeOK, SetProperties
<1>3. CASE Take(c)
  <2>1. Head(outbox[c]) \in Item /\ Tail(outbox[c]) \in Seq(Item)
    BY <1>3, Typed, Taken, Zenon DEF Take
  <2>2. [at |-> "taken", item |-> Head(outbox[c])] \in Worker
    BY <2>1 DEF Worker
  <2>. QED BY <1>3, <2>1, <2>2 DEF Take, TypeOK
<1>4. CASE Recrypt(c)
  <2>1. [w EXCEPT !.at = "keyed"] = [at |-> "keyed", item |-> w.item]
    BY <1>4, <1>w, Keyed, Zenon DEF Recrypt
  <2>2. [at |-> "keyed", item |-> w.item] \in Worker
    BY <1>4, <1>w DEF Recrypt, Worker
  <2>3. worker' = [worker EXCEPT ![c] = [w EXCEPT !.at = "keyed"]]
    BY <1>4, Zenon DEF Recrypt
  <2>4. worker' \in [Clients -> Worker]
    BY <2>1, <2>2, <2>3 DEF TypeOK
  <2>5. w.item.id \in DOMAIN events
    BY <1>4, Zenon DEF Recrypt, PacketsInv, Addressed
  <2>6. [events EXCEPT ![w.item.id].key = c] \in Seq(Event)
    BY <2>5, Typed, Rekeyed, Zenon
  <2>. QED BY <1>4, <2>4, <2>6 DEF Recrypt, TypeOK, Event
<1>5. CASE SendEvent(c)
  <2>1. w.item.kind = "event" /\ w.item.id \in DOMAIN events /\ w.item.id \in 1 .. MaxEvents
    BY <1>5, <1>w, ItemKinds DEF SendEvent, PacketsInv, Addressed
  <2>2. [id |-> w.item.id, key |-> events[w.item.id].key] \in Receipt
    <3>1. events \in Seq(Event)
      BY Typed, Zenon
    <3>2. events[w.item.id].key \in Clients \cup {NoKey}
      BY <2>1, <3>1, EventParts, Zenon
    <3>. QED BY <2>1, <3>2 DEF Receipt
  <2>3. got' \in [Clients -> Seq(Receipt)]
    BY <1>5, <2>2, AppendedTo DEF SendEvent, TypeOK, Receipt
  <2>4. worker' \in [Clients -> Worker]
    BY <1>5 DEF SendEvent, TypeOK, Worker
  <2>. QED BY <1>5, <2>3, <2>4 DEF SendEvent, TypeOK, Receipt
<1>6. CASE CountProperties(c)
  <2>1. w.item \in Item /\ table[w.item.of] \in Table
    BY <1>6, <1>w, ItemKinds DEF CountProperties, TypeOK
  <2>2. [at |-> "counted", item |-> w.item, entry |-> table[w.item.of]] \in Worker
    BY <2>1 DEF Worker
  <2>3. worker' \in [Clients -> Worker]
    BY <1>6, <2>2 DEF CountProperties, TypeOK
  <2>. QED BY <1>6, <2>3 DEF CountProperties, TypeOK
<1>7. CASE SendProperties(c)
  <2>1. w.item.of \in Clients /\ w.entry \in Table
    BY <1>7, <1>w, ItemKinds DEF SendProperties, TablesInv
  <2>2. w.entry.version \in 0 .. MaxUpdates /\ table[w.item.of].version \in 0 .. MaxUpdates
    BY <2>1 DEF Table, TypeOK
  <2>3. seen' \in [Clients -> [Clients -> 0 .. MaxUpdates]]
    <3>1. CASE UNCHANGED seen
      BY <3>1 DEF TypeOK
    <3>2. CASE \E v \in {w.entry.version, table[w.item.of].version} :
                    seen' = [seen EXCEPT ![c][w.item.of] = v]
      <4>1. PICK v \in {w.entry.version, table[w.item.of].version} :
                    seen' = [seen EXCEPT ![c][w.item.of] = v]
        BY <3>2, Zenon
      <4>2. v \in 0 .. MaxUpdates /\ seen[c] \in [Clients -> 0 .. MaxUpdates]
        BY <2>2 DEF TypeOK
      <4>3. [seen[c] EXCEPT ![w.item.of] = v] \in [Clients -> 0 .. MaxUpdates]
        BY <4>2, <2>1
      <4>4. seen' = [seen EXCEPT ![c] = [seen[c] EXCEPT ![w.item.of] = v]]
        BY <4>1
      <4>. QED BY <4>3, <4>4 DEF TypeOK
    <3>. QED BY <1>7, <3>1, <3>2, Zenon DEF SendProperties
  <2>4. broken' \in [Clients -> BOOLEAN]
    BY <1>7 DEF SendProperties, TypeOK
  <2>5. worker' \in [Clients -> Worker]
    BY <1>7 DEF SendProperties, TypeOK, Worker
  <2>. QED BY <1>7, <2>3, <2>4, <2>5 DEF SendProperties, TypeOK
<1>. QED BY <1>1, <1>2, <1>3, <1>4, <1>5, <1>6, <1>7
\* What a push leaves in a member's queue: what was there, and the item.
LEMMA Pushed ==
    ASSUME TypeOK, NEW to \in SUBSET Clients, NEW item \in Item, Push(to, item), NEW d \in Clients
    PROVE  /\ \A i \in DOMAIN outbox[d] : i \in DOMAIN outbox'[d] /\ outbox'[d][i] = outbox[d][i]
           /\ \A i \in DOMAIN outbox'[d] :
                \/ i \in DOMAIN outbox[d] /\ outbox'[d][i] = outbox[d][i]
                \/ d \in to /\ outbox'[d][i] = item
           /\ d \in to => \E i \in DOMAIN outbox'[d] : outbox'[d][i] = item
<1>1. outbox[d] \in Seq(Item)
  BY Typed, Zenon
<1>2. outbox'[d] = IF d \in to THEN Append(outbox[d], item) ELSE outbox[d]
  BY DEF Push
<1>3. CASE d \in to
  <2>1. /\ Append(outbox[d], item) \in Seq(Item) /\ Len(Append(outbox[d], item)) = Len(outbox[d]) + 1
        /\ \A i \in 1 .. Len(outbox[d]) : Append(outbox[d], item)[i] = outbox[d][i]
        /\ Append(outbox[d], item)[Len(outbox[d]) + 1] = item
    BY <1>1, AppendedTo
  <2>. QED BY <1>1, <1>2, <1>3, <2>1
<1>4. CASE d \notin to
  BY <1>2, <1>4
<1>. QED BY <1>3, <1>4

\* Who a packet is for never changes.
LEMMA StillAddressed ==
    ASSUME \A i \in DOMAIN events : i \in DOMAIN events' /\ events'[i].to = events[i].to,
           NEW d, NEW item, Addressed(events, d, item)
    PROVE  Addressed(events', d, item)
BY DEF Addressed

LEMMA PacketStep ==
    ASSUME RoomInv, Next
    PROVE  PacketsInv'
<1>. USE DEF RoomInv
<1>. PICK c \in Clients :
        \/ RaiseEvent(c) \/ SetProperties(c)
        \/ Take(c) \/ Recrypt(c) \/ SendEvent(c) \/ CountProperties(c) \/ SendProperties(c)
  BY Zenon DEF Next
<1>0. events \in Seq(Event) /\ worker \in [Clients -> Worker]
  BY Typed, Zenon DEF TypeOK
<1>1. CASE RaiseEvent(c)
  <2>. DEFINE n == Len(events) + 1
  <2>1. PICK to \in SUBSET Others(c) :
            /\ Len(events) < MaxEvents
            /\ events' = Append(events, [to |-> to, key |-> NoKey])
            /\ Push(to, [kind |-> "event", id |-> Len(events) + 1])
            /\ UNCHANGED <<table, worker, got, seen, broken>>
    BY <1>1, Zenon DEF RaiseEvent
  <2>2. /\ n \in DOMAIN events' /\ events'[n] = [to |-> to, key |-> NoKey]
        /\ \A i \in DOMAIN events : i \in DOMAIN events' /\ events'[i] = events[i]
        /\ \A i \in DOMAIN events' : i \in DOMAIN events \/ i = n
    BY <1>0, <2>1
  <2>3. [kind |-> "event", id |-> n] \in Item /\ to \in SUBSET Clients
    BY <1>0, <2>1 DEF Item, Others
  <2>4. \A i \in DOMAIN events : i \in DOMAIN events' /\ events'[i].to = events[i].to
    BY <2>2
  <2>5. \A i \in DOMAIN events' : events'[i].key \in Keys(events'[i]) \cup {NoKey}
    BY <2>2 DEF PacketsInv
  <2>6. ASSUME NEW d \in Clients
        PROVE  \A i \in DOMAIN outbox'[d] : Addressed(events', d, outbox'[d][i])
    <3>1. \A i \in DOMAIN outbox[d] : Addressed(events', d, outbox[d][i])
      BY <2>4, StillAddressed, Zenon DEF PacketsInv
    <3>2. d \in to => Addressed(events', d, [kind |-> "event", id |-> n])
      BY <2>2 DEF Addressed
    <3>3. \A i \in DOMAIN outbox'[d] :
                \/ i \in DOMAIN outbox[d] /\ outbox'[d][i] = outbox[d][i]
                \/ d \in to /\ outbox'[d][i] = [kind |-> "event", id |-> n]
      BY <2>1, <2>3, Pushed
    <3>. QED BY <3>1, <3>2, <3>3 DEF Addressed
  <2>7. ASSUME NEW d \in Clients
        PROVE  /\ worker'[d].at \in {"taken", "keyed"} => Addressed(events', d, worker'[d].item)
               /\ worker'[d].at = "keyed" =>
                    /\ worker'[d].item.kind = "event"
                    /\ events'[worker'[d].item.id].key \in Keys(events'[worker'[d].item.id])
    <3>1. worker' = worker
      BY <2>1
    <3>2. worker[d].at \in {"taken", "keyed"} => Addressed(events', d, worker[d].item)
      BY <2>4, StillAddressed, Zenon DEF PacketsInv
    <3>3. worker[d].at = "keyed" => worker[d].item.id \in DOMAIN events
      BY DEF PacketsInv, Addressed
    <3>. QED BY <2>2, <3>1, <3>2, <3>3 DEF PacketsInv, Addressed
  <2>8. ASSUME NEW d \in Clients, NEW i \in DOMAIN got'[d]
        PROVE  got'[d][i].id \in DOMAIN events' /\ got'[d][i].key \in Keys(events'[got'[d][i].id])
    BY <2>1, <2>2 DEF PacketsInv
  <2>. QED BY <2>5, <2>6, <2>7, <2>8 DEF PacketsInv, Addressed, Keys
<1>2. CASE SetProperties(c)
  <2>1. [kind |-> "props", of |-> c] \in Item /\ Others(c) \in SUBSET Clients
    BY DEF Item, Others
  <2>2. ASSUME NEW d \in Clients, NEW i \in DOMAIN outbox'[d]
        PROVE  Addressed(events, d, outbox'[d][i])
    <3>1. \/ i \in DOMAIN outbox[d] /\ outbox'[d][i] = outbox[d][i]
          \/ outbox'[d][i] = [kind |-> "props", of |-> c]
      <4>1. Push(Others(c), [kind |-> "props", of |-> c])
        BY <1>2, Zenon DEF SetProperties
      <4>. QED BY <2>1, <4>1, Pushed
    <3>. QED BY <3>1 DEF PacketsInv, Addressed
  <2>. QED BY <1>2, <2>2 DEF SetProperties, PacketsInv, Addressed, Keys
<1>3. CASE Take(c)
  <2>1. ASSUME NEW d \in Clients, NEW i \in DOMAIN outbox'[d]
        PROVE  Addressed(events, d, outbox'[d][i])
    <3>1. CASE d = c
      <4>1. outbox'[c] = Tail(outbox[c])
        BY <1>3 DEF Take, TypeOK
      <4>2. outbox[c] \in Seq(Item) /\ outbox[c] # <<>>
        BY <1>3, Typed, Zenon DEF Take
      <4>3. i + 1 \in DOMAIN outbox[c] /\ outbox'[c][i] = outbox[c][i + 1]
        BY <3>1, <4>1, <4>2, Taken
      <4>. QED BY <3>1, <4>3 DEF PacketsInv
    <3>2. CASE d # c
      BY <1>3, <3>2 DEF Take, TypeOK, PacketsInv
    <3>. QED BY <3>1, <3>2
  <2>2. Addressed(events, c, Head(outbox[c]))
    <3>1. Head(outbox[c]) = outbox[c][1] /\ 1 \in DOMAIN outbox[c]
      BY <1>3, Typed, Taken, Zenon DEF Take
    <3>. QED BY <3>1 DEF PacketsInv
  <2>3. \A d \in Clients : worker'[d] = IF d = c THEN [at |-> "taken", item |-> Head(outbox[c])] ELSE worker[d]
    BY <1>0, <1>3 DEF Take
  <2>4. ASSUME NEW d \in Clients
        PROVE  /\ worker'[d].at \in {"taken", "keyed"} => Addressed(events, d, worker'[d].item)
               /\ worker'[d].at = "keyed" =>
                    /\ worker'[d].item.kind = "event"
                    /\ events[worker'[d].item.id].key \in Keys(events[worker'[d].item.id])
    <3>1. CASE d = c
      BY <2>2, <2>3, <3>1
    <3>2. CASE d # c
      BY <2>3, <3>2 DEF PacketsInv
    <3>. QED BY <3>1, <3>2
  <2>5. UNCHANGED <<events, got>>
    BY <1>3 DEF Take
  <2>. QED BY <2>1, <2>4, <2>5 DEF PacketsInv
<1>4. CASE Recrypt(c)
  <2>. DEFINE k == worker[c].item.id
  <2>1. worker[c].item.kind = "event" /\ k \in DOMAIN events /\ c \in events[k].to
    BY <1>4 DEF Recrypt, PacketsInv, Addressed
  <2>2. /\ worker[c].at = "taken"
        /\ \A d \in Clients : worker'[d] = IF d = c THEN [at |-> "keyed", item |-> worker[c].item] ELSE worker[d]
    <3>1. [worker[c] EXCEPT !.at = "keyed"] = [at |-> "keyed", item |-> worker[c].item]
      BY <1>4, <1>0, Keyed, Zenon DEF Recrypt
    <3>2. worker' = [worker EXCEPT ![c] = [worker[c] EXCEPT !.at = "keyed"]]
      BY <1>4, Zenon DEF Recrypt
    <3>. QED BY <1>0, <1>4, <3>1, <3>2 DEF Recrypt
  <2>3. /\ DOMAIN events' = DOMAIN events
        /\ \A i \in DOMAIN events :
                /\ events'[i].to = events[i].to
                /\ events'[i].key = IF Encrypted /\ i = k THEN c ELSE events[i].key
    <3>1. CASE Encrypted
      <4>1. events' = [events EXCEPT ![k].key = c]
        BY <1>4, <3>1, Zenon DEF Recrypt
      <4>2. /\ DOMAIN events' = DOMAIN events
            /\ \A i \in DOMAIN events :
                    events'[i].to = events[i].to /\ events'[i].key = IF i = k THEN c ELSE events[i].key
        BY <1>0, <2>1, <4>1, Rekeyed
      <4>. QED BY <3>1, <4>2
    <3>2. CASE ~Encrypted
      BY <1>4, <3>2 DEF Recrypt
    <3>. QED BY <3>1, <3>2
  <2>4. \A i \in DOMAIN events : Keys(events'[i]) = Keys(events[i])
    BY <2>3 DEF Keys
  <2>5. \A i \in DOMAIN events' : events'[i].key \in Keys(events'[i]) \cup {NoKey}
    BY <2>1, <2>3, <2>4 DEF PacketsInv, Keys
  <2>6. \A i \in DOMAIN events : events[i].key \in Keys(events[i]) => events'[i].key \in Keys(events'[i])
    BY <2>1, <2>3, <2>4 DEF Keys
  <2>7. events'[k].key \in Keys(events'[k])
    BY <2>1, <2>3, <2>4 DEF Keys, PacketsInv
  <2>8. \A d \in Clients : \A item : Addressed(events, d, item) => Addressed(events', d, item)
    BY <2>3 DEF Addressed
  <2>9. UNCHANGED <<outbox, got>>
    BY <1>4 DEF Recrypt
  <2>10. ASSUME NEW d \in Clients
         PROVE  /\ \A i \in DOMAIN outbox'[d] : Addressed(events', d, outbox'[d][i])
                /\ worker'[d].at \in {"taken", "keyed"} => Addressed(events', d, worker'[d].item)
    BY <2>2, <2>8, <2>9 DEF PacketsInv
  <2>11. ASSUME NEW d \in Clients, worker'[d].at = "keyed"
         PROVE  /\ worker'[d].item.kind = "event"
                /\ events'[worker'[d].item.id].key \in Keys(events'[worker'[d].item.id])
    <3>1. CASE d = c
      BY <2>1, <2>2, <2>7, <3>1
    <3>2. CASE d # c
      BY <2>2, <2>6, <2>11, <3>2 DEF PacketsInv, Addressed
    <3>. QED BY <3>1, <3>2
  <2>12. ASSUME NEW d \in Clients, NEW i \in DOMAIN got'[d]
         PROVE  got'[d][i].id \in DOMAIN events' /\ got'[d][i].key \in Keys(events'[got'[d][i].id])
    BY <2>3, <2>4, <2>9 DEF PacketsInv
  <2>. QED BY <2>5, <2>10, <2>11, <2>12 DEF PacketsInv, Addressed, Keys
<1>5. CASE SendEvent(c)
  <2>. DEFINE k == worker[c].item.id
              receipt == [id |-> k, key |-> events[k].key]
  <2>1. k \in DOMAIN events /\ events[k].key \in Keys(events[k]) /\ k \in 1 .. MaxEvents
    <3>1. worker[c].at = "keyed" /\ worker[c].item \in Item
      BY <1>5, <1>0, WorkerKinds DEF SendEvent
    <3>2. worker[c].item.kind = "event" /\ events[k].key \in Keys(events[k]) /\ k \in DOMAIN events
      BY <3>1 DEF PacketsInv, Addressed
    <3>. QED BY <3>1, <3>2, ItemKinds
  <2>2. receipt \in Receipt
    <3>1. events[k].key \in Clients \cup {NoKey}
      BY <1>0, <2>1, EventParts, Zenon
    <3>. QED BY <2>1, <3>1 DEF Receipt
  <2>3. \A d \in Clients : worker'[d] = IF d = c THEN IdleWorker ELSE worker[d]
    BY <1>0, <1>5 DEF SendEvent
  <2>4. UNCHANGED <<events, outbox>>
    BY <1>5 DEF SendEvent
  <2>5. ASSUME NEW d \in Clients, NEW i \in DOMAIN got'[d]
        PROVE  got'[d][i].id \in DOMAIN events /\ got'[d][i].key \in Keys(events[got'[d][i].id])
    <3>1. CASE d = c
      <4>1. got[c] \in Seq(Receipt)
        BY Typed, Zenon
      <4>2. got'[c] = Append(got[c], receipt)
        BY <1>5 DEF SendEvent, TypeOK
      <4>3. (i \in DOMAIN got[c] /\ got'[c][i] = got[c][i]) \/ got'[c][i] = receipt
        BY <2>2, <3>1, <4>1, <4>2
      <4>. QED BY <2>1, <3>1, <4>3 DEF PacketsInv
    <3>2. CASE d # c
      BY <1>5, <3>2 DEF SendEvent, TypeOK, PacketsInv
    <3>. QED BY <3>1, <3>2
  <2>. QED BY <2>3, <2>4, <2>5 DEF PacketsInv, Addressed, Keys, IdleWorker
<1>6. CASE CountProperties(c)
  <2>1. \A d \in Clients : d # c => worker'[d] = worker[d]
    BY <1>0, <1>6 DEF CountProperties
  <2>2. worker'[c].at = "counted"
    BY <1>0, <1>6 DEF CountProperties
  <2>. QED BY <1>6, <2>1, <2>2 DEF CountProperties, PacketsInv, Addressed, Keys
<1>7. CASE SendProperties(c)
  <2>1. \A d \in Clients : worker'[d] = IF d = c THEN IdleWorker ELSE worker[d]
    BY <1>0, <1>7 DEF SendProperties
  <2>2. ASSUME NEW d \in Clients
        PROVE  /\ worker'[d].at \in {"taken", "keyed"} => Addressed(events, d, worker'[d].item)
               /\ worker'[d].at = "keyed" =>
                    /\ worker'[d].item.kind = "event"
                    /\ events[worker'[d].item.id].key \in Keys(events[worker'[d].item.id])
    <3>1. CASE d = c
      BY <2>1, <3>1 DEF IdleWorker
    <3>2. CASE d # c
      BY <2>1, <3>2 DEF PacketsInv
    <3>. QED BY <3>1, <3>2
  <2>3. UNCHANGED <<events, outbox, got>>
    BY <1>7 DEF SendProperties
  <2>. QED BY <2>2, <2>3 DEF PacketsInv
<1>. QED BY <1>1, <1>2, <1>3, <1>4, <1>5, <1>6, <1>7
LEMMA TableStep ==
    ASSUME RoomInv, Next
    PROVE  TablesInv'
<1>. USE DEF RoomInv
<1>. PICK c \in Clients :
        \/ RaiseEvent(c) \/ SetProperties(c)
        \/ Take(c) \/ Recrypt(c) \/ SendEvent(c) \/ CountProperties(c) \/ SendProperties(c)
  BY Zenon DEF Next
<1>0. /\ events \in Seq(Event) /\ worker \in [Clients -> Worker] /\ table \in [Clients -> Table]
      /\ seen \in [Clients -> [Clients -> 0 .. MaxUpdates]] /\ broken \in [Clients -> BOOLEAN]
  BY Typed, Zenon DEF TypeOK
<1>1. CASE RaiseEvent(c)
  <2>1. PICK to \in SUBSET Others(c) :
            /\ Len(events) < MaxEvents
            /\ events' = Append(events, [to |-> to, key |-> NoKey])
            /\ Push(to, [kind |-> "event", id |-> Len(events) + 1])
            /\ UNCHANGED <<table, worker, got, seen, broken>>
    BY <1>1, Zenon DEF RaiseEvent
  <2>2. [kind |-> "event", id |-> Len(events) + 1] \in Item /\ to \in SUBSET Clients
    BY <1>0, <2>1 DEF Item, Others
  <2>3. ASSUME NEW a \in Clients, NEW d, Waiting(a, d)
        PROVE  Waiting(a, d)'
    <3>1. \A i \in DOMAIN outbox[a] : i \in DOMAIN outbox'[a] /\ outbox'[a][i] = outbox[a][i]
      BY <2>1, <2>2, Pushed
    <3>. QED BY <2>3, <3>1 DEF Waiting
  <2>. QED BY <2>1, <2>3 DEF TablesInv, InHand, Others
<1>2. CASE SetProperties(c)
  <2>0. [kind |-> "props", of |-> c] \in Item /\ Others(c) \in SUBSET Clients
    BY DEF Item, Others
  <2>1. Push(Others(c), [kind |-> "props", of |-> c])
    BY <1>2, Zenon DEF SetProperties
  <2>2. ASSUME NEW a \in Clients, NEW d, Waiting(a, d)
        PROVE  Waiting(a, d)'
    <3>1. \A i \in DOMAIN outbox[a] : i \in DOMAIN outbox'[a] /\ outbox'[a][i] = outbox[a][i]
      BY <2>0, <2>1, Pushed
    <3>. QED BY <2>2, <3>1 DEF Waiting
  <2>3. ASSUME NEW a \in Clients, c \in Others(a)
        PROVE  Waiting(a, c)'
    <3>1. a \in Others(c)
      BY <2>3 DEF Others
    <3>2. \E i \in DOMAIN outbox'[a] : outbox'[a][i] = [kind |-> "props", of |-> c]
      BY <2>0, <2>1, <3>1, Pushed
    <3>. QED BY <3>2 DEF Waiting, Props
  <2>4. PICK new \in {0, 1} :
            table' = [table EXCEPT ![c] = [size |-> @.size + new, version |-> @.version + 1]]
    BY <1>2, Zenon DEF SetProperties
  <2>5. table[c].size \in Nat /\ table[c].version \in Nat /\ table[c].size <= table[c].version
    BY <1>0 DEF Table, TablesInv
  <2>6. table'[c] = [size |-> table[c].size + new, version |-> table[c].version + 1]
    BY <1>0, <2>4
  <2>7. \A d \in Clients : d # c => table'[d] = table[d]
    BY <1>0, <2>4
  <2>8. \A d \in Clients : table'[d].size <= table'[d].version
    <3>1. table'[c].size <= table'[c].version
      BY <2>5, <2>6
    <3>. QED BY <2>7, <3>1 DEF TablesInv
  <2>9. UNCHANGED <<worker, seen, broken>>
    BY <1>2 DEF SetProperties
  <2>10. ASSUME NEW a \in Clients, worker'[a].at = "counted"
         PROVE  /\ worker'[a].item.kind = "props"
                /\ \A d \in Others(a) : worker'[a].item = Props(d) =>
                        worker'[a].entry.version = table'[d].version \/ Waiting(a, d)'
    BY <2>2, <2>3, <2>7, <2>9, <2>10 DEF TablesInv, Others
  <2>11. ASSUME NEW a \in Clients, NEW d \in Others(a)
         PROVE  broken'[a] \/ Waiting(a, d)' \/ InHand(a, d)' \/ seen'[a][d] = table'[d].version
    <3>1. CASE d = c
      BY <2>3, <2>11, <3>1
    <3>2. CASE d # c
      BY <2>2, <2>7, <2>9, <2>11, <3>2 DEF TablesInv, Others, InHand
    <3>. QED BY <3>1, <3>2
  <2>. QED BY <2>8, <2>10, <2>11 DEF TablesInv, Others
<1>3. CASE Take(c)
  <2>1. outbox[c] \in Seq(Item) /\ outbox[c] # <<>>
    BY <1>3, Typed, Zenon DEF Take
  <2>2. /\ Head(outbox[c]) = outbox[c][1]
        /\ \A i \in DOMAIN outbox[c] :
                i = 1 \/ (i - 1 \in DOMAIN Tail(outbox[c]) /\ Tail(outbox[c])[i - 1] = outbox[c][i])
    BY <2>1, Taken
  <2>3. /\ worker[c].at = "idle"
        /\ worker'[c] = [at |-> "taken", item |-> Head(outbox[c])]
        /\ \A a \in Clients : a # c => worker'[a] = worker[a]
    BY <1>0, <1>3 DEF Take
  <2>4. outbox'[c] = Tail(outbox[c]) /\ \A a \in Clients : a # c => outbox'[a] = outbox[a]
    BY <1>3 DEF Take, TypeOK
  <2>5. UNCHANGED <<table, seen, broken>>
    BY <1>3 DEF Take
  <2>6. ASSUME NEW d, Waiting(c, d)
        PROVE  Waiting(c, d)' \/ InHand(c, d)'
    <3>1. PICK i \in DOMAIN outbox[c] : outbox[c][i] = Props(d)
      BY <2>6 DEF Waiting
    <3>2. CASE i = 1
      BY <2>2, <2>3, <3>1, <3>2 DEF InHand
    <3>3. CASE i # 1
      BY <2>2, <2>4, <3>1, <3>3 DEF Waiting
    <3>. QED BY <3>2, <3>3
  <2>7. ASSUME NEW a \in Clients, a # c, NEW d
        PROVE  Waiting(a, d)' = Waiting(a, d) /\ InHand(a, d)' = InHand(a, d)
    BY <2>3, <2>4, <2>7 DEF Waiting, InHand
  <2>8. ASSUME NEW a \in Clients, worker'[a].at = "counted"
        PROVE  /\ worker'[a].item.kind = "props"
               /\ \A d \in Others(a) : worker'[a].item = Props(d) =>
                       worker'[a].entry.version = table'[d].version \/ Waiting(a, d)'
    <3>1. a # c
      BY <2>3, <2>8
    <3>. QED BY <2>3, <2>5, <2>7, <2>8, <3>1 DEF TablesInv
  <2>9. ASSUME NEW a \in Clients, NEW d \in Others(a)
        PROVE  broken'[a] \/ Waiting(a, d)' \/ InHand(a, d)' \/ seen'[a][d] = table'[d].version
    <3>1. broken[a] \/ Waiting(a, d) \/ InHand(a, d) \/ seen[a][d] = table[d].version
      BY <2>9 DEF TablesInv
    <3>2. CASE a = c
      <4>1. ~InHand(c, d)
        BY <2>3 DEF InHand
      <4>. QED BY <2>5, <2>6, <3>1, <3>2, <4>1
    <3>3. CASE a # c
      BY <2>5, <2>7, <3>1, <3>3
    <3>. QED BY <3>2, <3>3
  <2>. QED BY <2>5, <2>8, <2>9 DEF TablesInv, Others
<1>4. CASE Recrypt(c)
  <2>1. worker[c].item.kind = "event" /\ worker[c].at = "taken"
    BY <1>4 DEF Recrypt
  <2>2. worker'[c].at = "keyed" /\ \A a \in Clients : a # c => worker'[a] = worker[a]
    <3>1. [worker[c] EXCEPT !.at = "keyed"] = [at |-> "keyed", item |-> worker[c].item]
      BY <1>0, <2>1, Keyed, Zenon
    <3>2. worker' = [worker EXCEPT ![c] = [worker[c] EXCEPT !.at = "keyed"]]
      BY <1>4, Zenon DEF Recrypt
    <3>. QED BY <1>0, <3>1, <3>2
  <2>3. UNCHANGED <<table, outbox, seen, broken>>
    BY <1>4 DEF Recrypt
  <2>4. \A d : ~InHand(c, d)
    BY <2>1 DEF InHand, Props
  <2>. QED BY <2>2, <2>3, <2>4 DEF TablesInv, Others, Waiting, InHand
<1>5. CASE SendEvent(c)
  <2>1. worker[c].at = "keyed"
    BY <1>5 DEF SendEvent
  <2>2. worker'[c].at = "idle" /\ \A a \in Clients : a # c => worker'[a] = worker[a]
    BY <1>0, <1>5 DEF SendEvent, IdleWorker
  <2>3. UNCHANGED <<table, outbox, seen, broken>>
    BY <1>5 DEF SendEvent
  <2>4. \A d : ~InHand(c, d)
    BY <2>1 DEF InHand
  <2>. QED BY <2>2, <2>3, <2>4 DEF TablesInv, Others, Waiting, InHand
<1>6. CASE CountProperties(c)
  <2>1. worker[c].at = "taken" /\ worker[c].item.kind = "props"
    BY <1>6 DEF CountProperties
  <2>2. /\ worker'[c] = [at |-> "counted", item |-> worker[c].item, entry |-> table[worker[c].item.of]]
        /\ \A a \in Clients : a # c => worker'[a] = worker[a]
    BY <1>0, <1>6 DEF CountProperties
  <2>3. UNCHANGED <<table, outbox, seen, broken>>
    BY <1>6 DEF CountProperties
  <2>4. \A d : worker[c].item = Props(d) => worker'[c].entry = table[d]
    BY <2>2 DEF Props
  <2>5. \A a \in Clients : \A d : InHand(a, d)' = InHand(a, d)
    BY <2>1, <2>2 DEF InHand
  <2>6. ASSUME NEW a \in Clients, worker'[a].at = "counted"
        PROVE  /\ worker'[a].item.kind = "props"
               /\ \A d \in Others(a) : worker'[a].item = Props(d) =>
                       worker'[a].entry.version = table'[d].version \/ Waiting(a, d)'
    <3>1. CASE a = c
      BY <2>1, <2>2, <2>3, <2>4, <3>1
    <3>2. CASE a # c
      BY <2>2, <2>3, <2>6, <3>2 DEF TablesInv, Waiting
    <3>. QED BY <3>1, <3>2
  <2>. QED BY <2>3, <2>5, <2>6 DEF TablesInv, Others, Waiting
<1>7. CASE SendProperties(c)
  <2>. DEFINE of == worker[c].item.of
              counted == worker[c].entry
  <2>1. worker[c].at = "counted" /\ worker[c].item.kind = "props"
    BY <1>7 DEF SendProperties, TablesInv
  <2>2. worker'[c].at = "idle" /\ \A a \in Clients : a # c => worker'[a] = worker[a]
    BY <1>0, <1>7 DEF SendProperties, IdleWorker
  <2>3. of \in Clients /\ worker[c].item = Props(of)
    BY <1>0, <2>1, WorkerKinds DEF Item, Props
  <2>4. UNCHANGED <<table, outbox>>
    BY <1>7 DEF SendProperties
  <2>5. ASSUME NEW a \in Clients, a # c, NEW d \in Clients
        PROVE  broken'[a] = broken[a] /\ seen'[a][d] = seen[a][d] /\ InHand(a, d)' = InHand(a, d)
    BY <1>0, <1>7, <2>2, <2>5 DEF SendProperties, InHand
  <2>6. ASSUME NEW d \in Others(c)
        PROVE  broken'[c] \/ Waiting(c, d)' \/ seen'[c][d] = table'[d].version
    <3>1. CASE table[of].size # counted.size
      BY <1>0, <1>7, <3>1 DEF SendProperties
    <3>2. CASE table[of].size = counted.size
      <4>1. UNCHANGED broken
        BY <1>7, <3>2 DEF SendProperties
      <4>2. PICK v \in {counted.version, table[of].version} : seen' = [seen EXCEPT ![c][of] = v]
        BY <1>7, <3>2 DEF SendProperties
      <4>3. seen'[c] = [seen[c] EXCEPT ![of] = v]
        BY <1>0, <4>2
      <4>4. CASE d = of
        <5>1. seen'[c][d] = v
          BY <1>0, <2>3, <4>3, <4>4
        <5>2. counted.version = table[d].version \/ Waiting(c, d)
          BY <2>1, <2>3, <2>6, <4>4 DEF TablesInv
        <5>. QED BY <2>4, <4>2, <4>4, <5>1, <5>2 DEF Waiting
      <4>5. CASE d # of
        <5>1. seen'[c][d] = seen[c][d]
          BY <1>0, <2>6, <4>3, <4>5 DEF Others
        <5>2. ~InHand(c, d)
          BY <2>3, <4>5 DEF InHand, Props
        <5>. QED BY <2>4, <2>6, <4>1, <5>1, <5>2 DEF TablesInv, Waiting
      <4>. QED BY <4>4, <4>5
    <3>. QED BY <3>1, <3>2
  <2>7. ASSUME NEW a \in Clients, NEW d \in Others(a)
        PROVE  broken'[a] \/ Waiting(a, d)' \/ InHand(a, d)' \/ seen'[a][d] = table'[d].version
    <3>1. CASE a = c
      BY <2>6, <2>7, <3>1
    <3>2. CASE a # c
      BY <2>4, <2>5, <2>7, <3>2 DEF TablesInv, Others, Waiting
    <3>. QED BY <3>1, <3>2
  <2>8. ASSUME NEW a \in Clients, worker'[a].at = "counted"
        PROVE  /\ worker'[a].item.kind = "props"
               /\ \A d \in Others(a) : worker'[a].item = Props(d) =>
                       worker'[a].entry.version = table'[d].version \/ Waiting(a, d)'
    BY <2>2, <2>4, <2>8 DEF TablesInv, Waiting
  <2>. QED BY <2>4, <2>7, <2>8 DEF TablesInv, Others
<1>. QED BY <1>1, <1>2, <1>3, <1>4, <1>5, <1>6, <1>7

-----------------------------------------------------------------------------
(* The order of the events.                                                *)

Events(way) == {i \in DOMAIN way : way[i].kind = "event"}

\* What a client got and what is on its way to it are these events, in rising order.
InOrder(receipts, way, ids) ==
    /\ {receipts[i].id : i \in DOMAIN receipts} \cup {way[i].id : i \in Events(way)} = ids
    /\ \A i, j \in DOMAIN receipts : i < j => receipts[i].id < receipts[j].id
    /\ \A i, j \in Events(way) : i < j => way[i].id < way[j].id
    /\ \A i \in DOMAIN receipts, j \in Events(way) : receipts[i].id < way[j].id

Relayed(c) == {id \in DOMAIN events : c \in events[id].to}

LEMMA OrderOfAll ==
    EventsInOrder <=> \A c \in Clients : InOrder(got[c], OnTheWay(c), Relayed(c))
BY DEF EventsInOrder, InOrder, Events, Relayed

\* An item at the end of the way.
LEMMA OrderPushed ==
    ASSUME NEW receipts \in Seq(Receipt), NEW way \in Seq(Item), NEW ids \in SUBSET Nat,
           InOrder(receipts, way, ids), NEW item \in Item
    PROVE  /\ item.kind = "props" => InOrder(receipts, Append(way, item), ids)
           /\ item.kind = "event" /\ (\A id \in ids : id < item.id) =>
                    InOrder(receipts, Append(way, item), ids \cup {item.id})
<1>. DEFINE last == Len(way) + 1
<1>1. PICK new : new = Append(way, item)
  OBVIOUS
<1>2. /\ last \in DOMAIN new /\ new[last] = item /\ last \in Nat
      /\ \A i \in DOMAIN way : i \in DOMAIN new /\ new[i] = way[i] /\ i < last /\ i \in Nat
      /\ \A i \in DOMAIN new : i \in DOMAIN way \/ i = last
  BY <1>1
<1>. HIDE DEF last
<1>3. CASE item.kind = "props"
  <2>1. Events(new) = Events(way) /\ \A i \in Events(way) : new[i] = way[i]
    BY <1>2, <1>3 DEF Events
  <2>. QED BY <1>1, <1>3, <2>1 DEF InOrder
<1>4. CASE item.kind = "event" /\ \A id \in ids : id < item.id
  <2>1. Events(new) = Events(way) \cup {last} /\ \A i \in Events(way) : new[i] = way[i]
    <3>1. \A i : i \in Events(new) => i \in Events(way) \/ i = last
      BY <1>2 DEF Events
    <3>2. last \in Events(new)
      BY <1>2, <1>4 DEF Events
    <3>3. \A i \in Events(way) : i \in Events(new) /\ new[i] = way[i]
      BY <1>2 DEF Events
    <3>. QED BY <3>1, <3>2, <3>3
  <2>2. {new[i].id : i \in Events(new)} = {way[i].id : i \in Events(way)} \cup {item.id}
    BY <1>2, <2>1
  <2>3. \A i \in Events(way) : way[i].id < item.id
    BY <1>4 DEF InOrder
  <2>4. \A i \in DOMAIN receipts : receipts[i].id < item.id
    BY <1>4 DEF InOrder
  <2>5. ASSUME NEW i \in Events(new), NEW j \in Events(new), i < j
        PROVE  new[i].id < new[j].id
    <3>1. i \in Events(way)
      BY <1>2, <2>1, <2>5 DEF Events
    <3>2. CASE j \in Events(way)
      BY <2>1, <2>5, <3>1, <3>2 DEF InOrder
    <3>3. CASE j = last
      BY <1>2, <2>1, <2>3, <3>1, <3>3
    <3>. QED BY <2>1, <3>2, <3>3
  <2>6. ASSUME NEW i \in DOMAIN receipts, NEW j \in Events(new)
        PROVE  receipts[i].id < new[j].id
    BY <1>2, <2>1, <2>4 DEF InOrder
  <2>7. {receipts[i].id : i \in DOMAIN receipts} \cup {new[i].id : i \in Events(new)} = ids \cup {item.id}
    BY <2>2 DEF InOrder
  <2>8. InOrder(receipts, new, ids \cup {item.id})
    BY <2>5, <2>6, <2>7 DEF InOrder
  <2>. QED BY <1>1, <1>4, <2>8
<1>. QED BY <1>3, <1>4, ItemKinds

\* The events on the way behind an item.
Behind(receipts, way, item, rest) ==
    /\ 1 \in DOMAIN way /\ way[1] = item
    /\ \A i \in Events(rest) : i + 1 \in Events(way) /\ way[i + 1] = rest[i] /\ 1 < i + 1
    /\ \A i \in Events(way) : i = 1 \/ (i - 1 \in Events(rest) /\ rest[i - 1] = way[i])
    /\ \A i, j \in Events(rest) : i < j => rest[i].id < rest[j].id
    /\ \A i \in DOMAIN receipts, j \in Events(rest) : receipts[i].id < rest[j].id

LEMMA OrderBehind ==
    ASSUME NEW receipts \in Seq(Receipt), NEW item \in Item, NEW rest \in Seq(Item), NEW ids,
           NEW way \in Seq(Item), way = <<item>> \o rest, InOrder(receipts, way, ids)
    PROVE  Behind(receipts, way, item, rest)
<1>1. /\ 1 \in DOMAIN way /\ way[1] = item /\ DOMAIN rest \subseteq Nat
      /\ \A i \in DOMAIN rest : i + 1 \in DOMAIN way /\ way[i + 1] = rest[i] /\ 1 < i + 1
      /\ \A i \in DOMAIN way : i = 1 \/ (i - 1 \in DOMAIN rest /\ rest[i - 1] = way[i])
  OBVIOUS
<1>2. \A i \in Events(rest) : i + 1 \in Events(way) /\ way[i + 1] = rest[i] /\ 1 < i + 1
  BY <1>1 DEF Events
<1>3. \A i \in Events(way) : i = 1 \/ (i - 1 \in Events(rest) /\ rest[i - 1] = way[i])
  BY <1>1 DEF Events
<1>4. ASSUME NEW i \in Events(rest), NEW j \in Events(rest), i < j
      PROVE  rest[i].id < rest[j].id
  <2>1. i + 1 < j + 1
    BY <1>1, <1>4 DEF Events
  <2>. QED BY <1>2, <2>1 DEF InOrder
<1>5. \A i \in DOMAIN receipts, j \in Events(rest) : receipts[i].id < rest[j].id
  BY <1>2 DEF InOrder
<1>. QED BY <1>1, <1>2, <1>3, <1>4, <1>5 DEF Behind

\* The item at the front arrives.
LEMMA OrderTaken ==
    ASSUME NEW receipts \in Seq(Receipt), NEW item \in Item, NEW rest \in Seq(Item), NEW ids \in SUBSET Nat,
           InOrder(receipts, <<item>> \o rest, ids), item.kind = "event",
           NEW receipt \in Receipt, receipt.id = item.id
    PROVE  InOrder(Append(receipts, receipt), rest, ids)
<1>. DEFINE last == Len(receipts) + 1
<1>0. PICK way : way = <<item>> \o rest
  OBVIOUS
<1>1. way \in Seq(Item) /\ way = <<item>> \o rest /\ InOrder(receipts, way, ids)
  BY <1>0
<1>2. /\ 1 \in DOMAIN way /\ way[1] = item
      /\ \A i \in Events(rest) : i + 1 \in Events(way) /\ way[i + 1] = rest[i] /\ 1 < i + 1
      /\ \A i \in Events(way) : i = 1 \/ (i - 1 \in Events(rest) /\ rest[i - 1] = way[i])
      /\ \A i, j \in Events(rest) : i < j => rest[i].id < rest[j].id
      /\ \A i \in DOMAIN receipts, j \in Events(rest) : receipts[i].id < rest[j].id
  <2>1. Behind(receipts, way, item, rest)
    BY <1>1, OrderBehind
  <2>. QED BY <2>1 DEF Behind
<1>3. PICK new : new = Append(receipts, receipt)
  OBVIOUS
<1>4. /\ last \in DOMAIN new /\ new[last] = receipt /\ last \in Nat
      /\ \A i \in DOMAIN receipts : i \in DOMAIN new /\ new[i] = receipts[i] /\ i < last /\ i \in Nat
      /\ \A i \in DOMAIN new : i \in DOMAIN receipts \/ i = last
  BY <1>3
<1>. HIDE DEF last
<1>5. 1 \in Events(way)
  BY <1>2 DEF Events
<1>6. \A j \in Events(rest) : item.id < rest[j].id
  BY <1>1, <1>2, <1>5 DEF InOrder
<1>7. \A i \in DOMAIN receipts : receipts[i].id < item.id
  BY <1>1, <1>2, <1>5 DEF InOrder
<1>8. {way[i].id : i \in Events(way)} = {rest[i].id : i \in Events(rest)} \cup {item.id}
  <2>1. \A i \in Events(way) : way[i].id = item.id \/ \E j \in Events(rest) : way[i].id = rest[j].id
    BY <1>2
  <2>2. \A j \in Events(rest) : \E i \in Events(way) : way[i].id = rest[j].id
    BY <1>2
  <2>3. \E i \in Events(way) : way[i].id = item.id
    BY <1>2, <1>5
  <2>4. \A m : m \in {way[i].id : i \in Events(way)}
                 <=> m \in {rest[i].id : i \in Events(rest)} \/ m = item.id
    BY <2>1, <2>2, <2>3, SMTT(20)
  <2>. QED BY <2>4
<1>9. {new[i].id : i \in DOMAIN new} = {receipts[i].id : i \in DOMAIN receipts} \cup {item.id}
  <2>1. last \in DOMAIN new /\ new[last].id = item.id
    BY <1>4
  <2>. QED BY <1>4, <2>1
<1>10. ASSUME NEW i \in DOMAIN new, NEW j \in DOMAIN new, i < j
      PROVE  new[i].id < new[j].id
  <2>1. i \in DOMAIN receipts
    BY <1>4, <1>10
  <2>2. CASE j \in DOMAIN receipts
    BY <1>1, <1>4, <1>10, <2>1, <2>2 DEF InOrder
  <2>3. CASE j = last
    BY <1>4, <1>7, <2>1, <2>3
  <2>. QED BY <1>4, <2>2, <2>3
<1>11. ASSUME NEW i \in DOMAIN new, NEW j \in Events(rest)
      PROVE  new[i].id < rest[j].id
  <2>1. CASE i \in DOMAIN receipts
    BY <1>2, <1>4, <2>1
  <2>2. CASE i = last
    BY <1>4, <1>6, <2>2
  <2>. QED BY <1>4, <2>1, <2>2
<1>12. {new[i].id : i \in DOMAIN new} \cup {rest[i].id : i \in Events(rest)} = ids
  BY <1>1, <1>8, <1>9 DEF InOrder
<1>13. InOrder(new, rest, ids)
  BY <1>2, <1>10, <1>11, <1>12 DEF InOrder
<1>. QED BY <1>3, <1>13

\* The item at the front is not one of the events.
LEMMA OrderDropped ==
    ASSUME NEW receipts \in Seq(Receipt), NEW item \in Item, NEW rest \in Seq(Item), NEW ids \in SUBSET Nat,
           InOrder(receipts, <<item>> \o rest, ids), item.kind = "props"
    PROVE  InOrder(receipts, rest, ids)
<1>0. PICK way : way = <<item>> \o rest
  OBVIOUS
<1>1. way \in Seq(Item) /\ way = <<item>> \o rest /\ InOrder(receipts, way, ids)
  BY <1>0
<1>2. /\ 1 \in DOMAIN way /\ way[1] = item
      /\ \A i \in Events(rest) : i + 1 \in Events(way) /\ way[i + 1] = rest[i] /\ 1 < i + 1
      /\ \A i \in Events(way) : i = 1 \/ (i - 1 \in Events(rest) /\ rest[i - 1] = way[i])
      /\ \A i, j \in Events(rest) : i < j => rest[i].id < rest[j].id
      /\ \A i \in DOMAIN receipts, j \in Events(rest) : receipts[i].id < rest[j].id
  <2>1. Behind(receipts, way, item, rest)
    BY <1>1, OrderBehind
  <2>. QED BY <2>1 DEF Behind
<1>3. 1 \notin Events(way)
  BY <1>2 DEF Events
<1>4. {way[i].id : i \in Events(way)} = {rest[i].id : i \in Events(rest)}
  BY <1>2, <1>3
<1>. QED BY <1>1, <1>2, <1>4 DEF InOrder

LEMMA EndOfWay ==
    ASSUME NEW item \in Item, NEW s \in Seq(Item), NEW held \in Item
    PROVE  /\ <<held>> \o s \in Seq(Item)
           /\ <<held>> \o Append(s, item) = Append(<<held>> \o s, item)
OBVIOUS

LEMMA WholeWay ==
    ASSUME TypeOK, NEW c \in Clients
    PROVE  /\ OnTheWay(c) \in Seq(Item) /\ outbox[c] \in Seq(Item)
           /\ worker[c].at = "idle" => OnTheWay(c) = outbox[c]
           /\ worker[c].at # "idle" => worker[c].item \in Item /\ OnTheWay(c) = <<worker[c].item>> \o outbox[c]
<1>1. outbox[c] \in Seq(Item) /\ worker[c] \in Worker
  BY Typed, Zenon
<1>2. worker[c].at # "idle" => worker[c].item \in Item
  BY <1>1, WorkerKinds, Zenon
<1>3. worker[c].at = "idle" => OnTheWay(c) = outbox[c]
  BY <1>1 DEF OnTheWay
<1>4. worker[c].at # "idle" => OnTheWay(c) = <<worker[c].item>> \o outbox[c]
  BY DEF OnTheWay
<1>5. worker[c].at # "idle" => <<worker[c].item>> \o outbox[c] \in Seq(Item)
  BY <1>1, <1>2
<1>. QED BY <1>1, <1>2, <1>3, <1>4, <1>5

\* What a push leaves on the way to a member.
LEMMA WayPushed ==
    ASSUME TypeOK, NEW to \in SUBSET Clients, NEW item \in Item, Push(to, item), UNCHANGED worker,
           NEW d \in Clients
    PROVE  OnTheWay(d)' = IF d \in to THEN Append(OnTheWay(d), item) ELSE OnTheWay(d)
<1>1. outbox'[d] = IF d \in to THEN Append(outbox[d], item) ELSE outbox[d]
  BY DEF Push
<1>2. OnTheWay(d)' = (IF worker[d].at = "idle" THEN <<>> ELSE <<worker[d].item>>) \o outbox'[d]
  BY DEF OnTheWay
<1>3. PICK s \in Seq(Item) : s = outbox[d]
  BY WholeWay
<1>4. CASE worker[d].at = "idle"
  <2>1. OnTheWay(d) = s /\ OnTheWay(d)' = <<>> \o outbox'[d]
    BY <1>2, <1>3, <1>4, WholeWay
  <2>2. \A r \in Seq(Item) : <<>> \o r = r
    OBVIOUS
  <2>3. Append(s, item) \in Seq(Item)
    OBVIOUS
  <2>. QED BY <1>1, <1>3, <2>1, <2>2, <2>3
<1>5. CASE worker[d].at # "idle"
  <2>1. PICK held \in Item : held = worker[d].item
    BY <1>5, WholeWay
  <2>2. OnTheWay(d) = <<held>> \o s /\ OnTheWay(d)' = <<held>> \o outbox'[d]
    BY <1>2, <1>3, <1>5, <2>1, WholeWay
  <2>3. <<held>> \o Append(s, item) = Append(<<held>> \o s, item)
    BY EndOfWay
  <2>. QED BY <1>1, <1>3, <2>2, <2>3
<1>. QED BY <1>4, <1>5

LEMMA SameWay ==
    ASSUME NEW d, outbox'[d] = outbox[d], worker'[d].item = worker[d].item,
           worker'[d].at = "idle" <=> worker[d].at = "idle"
    PROVE  OnTheWay(d)' = OnTheWay(d)
<1>1. OnTheWay(d)' = (IF worker'[d].at = "idle" THEN <<>> ELSE <<worker'[d].item>>) \o outbox'[d]
  BY DEF OnTheWay
<1>. QED BY <1>1 DEF OnTheWay

LEMMA FrontOfWay ==
    ASSUME NEW s \in Seq(Item), s # <<>>
    PROVE  <<Head(s)>> \o Tail(s) = s
OBVIOUS

\* A step that sends nothing to a member and adds no event for it.
LEMMA OrderKept ==
    ASSUME EventsInOrder, NEW d \in Clients, got'[d] = got[d], OnTheWay(d)' = OnTheWay(d),
           Relayed(d)' = Relayed(d)
    PROVE  InOrder(got'[d], OnTheWay(d)', Relayed(d)')
BY OrderOfAll

LEMMA OrderStep ==
    ASSUME RoomInv, EventsInOrder, Next, NEW d \in Clients
    PROVE  InOrder(got'[d], OnTheWay(d)', Relayed(d)')
<1>. PICK c \in Clients :
        \/ RaiseEvent(c) \/ SetProperties(c)
        \/ Take(c) \/ Recrypt(c) \/ SendEvent(c) \/ CountProperties(c) \/ SendProperties(c)
  BY Zenon DEF Next
<1>0. /\ TypeOK /\ got[d] \in Seq(Receipt) /\ events \in Seq(Event) /\ worker \in [Clients -> Worker]
      /\ OnTheWay(d) \in Seq(Item) /\ Relayed(d) \in SUBSET Nat
      /\ InOrder(got[d], OnTheWay(d), Relayed(d))
  <2>1. TypeOK /\ worker \in [Clients -> Worker] /\ events \in Seq(Event) /\ got[d] \in Seq(Receipt)
    BY Typed, Zenon DEF RoomInv, TypeOK
  <2>2. DOMAIN events \subseteq Nat
    BY <2>1
  <2>. QED BY <2>1, <2>2, OrderOfAll, WholeWay DEF Relayed
<1>1. CASE RaiseEvent(c)
  <2>1. PICK to \in SUBSET Others(c) :
            /\ Len(events) < MaxEvents
            /\ events' = Append(events, [to |-> to, key |-> NoKey])
            /\ Push(to, [kind |-> "event", id |-> Len(events) + 1])
            /\ UNCHANGED <<table, worker, got, seen, broken>>
    BY <1>1, Zenon DEF RaiseEvent
  <2>2. PICK n : n = Len(events) + 1
    OBVIOUS
  <2>3. PICK item : item = [kind |-> "event", id |-> n]
    OBVIOUS
  <2>4. to \in SUBSET Clients /\ item \in Item /\ item.kind = "event" /\ item.id = n
    BY <1>0, <2>1, <2>2, <2>3 DEF Item, Others
  <2>5. OnTheWay(d)' = IF d \in to THEN Append(OnTheWay(d), item) ELSE OnTheWay(d)
    BY <1>0, <2>1, <2>2, <2>3, <2>4, WayPushed
  <2>6. /\ DOMAIN events' = DOMAIN events \cup {n} /\ events'[n].to = to
        /\ \A id \in DOMAIN events : events'[id] = events[id] /\ id < n
    BY <1>0, <2>1, <2>2
  <2>7. Relayed(d)' = {id \in DOMAIN events' : d \in events'[id].to}
    BY DEF Relayed
  <2>8. CASE d \in to
    <3>1. Relayed(d)' = Relayed(d) \cup {item.id} /\ \A id \in Relayed(d) : id < item.id
      BY <2>4, <2>6, <2>7, <2>8 DEF Relayed
    <3>2. InOrder(got[d], Append(OnTheWay(d), item), Relayed(d) \cup {item.id})
      BY <1>0, <2>4, <3>1, OrderPushed
    <3>. QED BY <2>1, <2>5, <2>8, <3>1, <3>2
  <2>9. CASE d \notin to
    <3>1. Relayed(d)' = Relayed(d)
      <4>1. n \notin DOMAIN events
        BY <1>0, <2>2
      <4>. QED BY <2>6, <2>7, <2>9, <4>1 DEF Relayed
    <3>. QED BY <2>1, <2>5, <2>9, <3>1, OrderKept
  <2>. QED BY <2>8, <2>9
<1>2. CASE SetProperties(c)
  <2>1. PICK item : item = [kind |-> "props", of |-> c]
    OBVIOUS
  <2>2. item \in Item /\ item.kind = "props" /\ Others(c) \in SUBSET Clients
    BY <2>1 DEF Item, Others
  <2>3. Push(Others(c), item) /\ UNCHANGED <<events, worker, got>>
    BY <1>2, <2>1 DEF SetProperties
  <2>4. OnTheWay(d)' = IF d \in Others(c) THEN Append(OnTheWay(d), item) ELSE OnTheWay(d)
    BY <1>0, <2>2, <2>3, WayPushed
  <2>5. Relayed(d)' = Relayed(d)
    BY <2>3 DEF Relayed
  <2>6. InOrder(got[d], Append(OnTheWay(d), item), Relayed(d))
    BY <1>0, <2>2, OrderPushed
  <2>. QED BY <1>0, <2>3, <2>4, <2>5, <2>6
<1>3. CASE Take(c)
  <2>1. /\ worker[c].at = "idle" /\ outbox[c] # <<>>
        /\ worker' = [worker EXCEPT ![c] = [at |-> "taken", item |-> Head(outbox[c])]]
        /\ outbox' = [outbox EXCEPT ![c] = Tail(outbox[c])]
        /\ UNCHANGED <<events, got>>
    BY <1>3 DEF Take
  <2>2. OnTheWay(d)' = OnTheWay(d)
    <3>1. CASE d = c
      <4>1. worker'[c].at = "taken" /\ worker'[c].item = Head(outbox[c]) /\ outbox'[c] = Tail(outbox[c])
        BY <1>0, <2>1 DEF TypeOK
      <4>2. OnTheWay(c)' = <<Head(outbox[c])>> \o Tail(outbox[c])
        BY <4>1 DEF OnTheWay
      <4>3. OnTheWay(c) = outbox[c] /\ outbox[c] \in Seq(Item)
        BY <1>0, <2>1, WholeWay
      <4>. QED BY <2>1, <3>1, <4>2, <4>3, FrontOfWay
    <3>2. CASE d # c
      BY <1>0, <2>1, <3>2 DEF OnTheWay, TypeOK
    <3>. QED BY <3>1, <3>2
  <2>. QED BY <2>1, <2>2, OrderKept DEF Relayed
<1>4. CASE Recrypt(c)
  <2>1. /\ worker[c].at = "taken" /\ worker[c].item.kind = "event" /\ UNCHANGED <<outbox, got>>
        /\ worker' = [worker EXCEPT ![c] = [worker[c] EXCEPT !.at = "keyed"]]
    BY <1>4, Zenon DEF Recrypt
  <2>2. worker'[c] = [at |-> "keyed", item |-> worker[c].item] /\ (d # c => worker'[d] = worker[d])
    <3>1. [worker[c] EXCEPT !.at = "keyed"] = [at |-> "keyed", item |-> worker[c].item]
      BY <1>0, <2>1, Keyed, Zenon
    <3>. QED BY <1>0, <2>1, <3>1
  <2>3. worker'[d].item = worker[d].item /\ (worker'[d].at = "idle" <=> worker[d].at = "idle")
    BY <2>1, <2>2
  <2>4. OnTheWay(d)' = OnTheWay(d)
    BY <2>1, <2>3, SameWay
  <2>5. worker[c].item.id \in DOMAIN events
    BY <2>1 DEF RoomInv, PacketsInv, Addressed
  <2>6. DOMAIN events' = DOMAIN events /\ \A id \in DOMAIN events : events'[id].to = events[id].to
    <3>1. CASE Encrypted
      <4>1. events' = [events EXCEPT ![worker[c].item.id].key = c]
        BY <1>4, <3>1, Zenon DEF Recrypt
      <4>2. PICK k \in DOMAIN events : k = worker[c].item.id
        BY <2>5
      <4>. QED BY <1>0, <4>1, <4>2, Rekeyed
    <3>2. CASE ~Encrypted
      BY <1>4, <3>2, Zenon DEF Recrypt
    <3>. QED BY <3>1, <3>2
  <2>7. Relayed(d)' = Relayed(d)
    BY <2>6 DEF Relayed
  <2>. QED BY <2>1, <2>4, <2>7, OrderKept
<1>5. CASE SendEvent(c) \/ SendProperties(c)
  <2>1. /\ worker' = [worker EXCEPT ![c] = IdleWorker] /\ UNCHANGED <<outbox, events>>
        /\ worker[c].at \in {"keyed", "counted"}
    BY <1>5 DEF SendEvent, SendProperties
  <2>2. CASE d # c
    <3>1. got'[d] = got[d]
      BY <1>0, <1>5, <2>2 DEF SendEvent, SendProperties, TypeOK
    <3>2. OnTheWay(d)' = OnTheWay(d)
      BY <1>0, <2>1, <2>2 DEF OnTheWay
    <3>. QED BY <2>1, <3>1, <3>2, OrderKept DEF Relayed
  <2>3. CASE d = c
    <3>1. PICK item : item = worker[c].item
      OBVIOUS
    <3>2. PICK rest : rest = outbox[c]
      OBVIOUS
    <3>3. item \in Item /\ rest \in Seq(Item) /\ OnTheWay(c) = <<item>> \o rest
      BY <1>0, <2>1, <3>1, <3>2, WholeWay
    <3>4. OnTheWay(c)' = rest /\ Relayed(c)' = Relayed(c)
      <4>1. worker'[c].at = "idle"
        BY <1>0, <2>1 DEF IdleWorker
      <4>2. OnTheWay(c)' = <<>> \o rest
        BY <2>1, <3>2, <4>1 DEF OnTheWay
      <4>3. <<>> \o rest = rest
        BY <3>3
      <4>. QED BY <2>1, <4>2, <4>3 DEF Relayed
    <3>5. InOrder(got[c], <<item>> \o rest, Relayed(c)) /\ got[c] \in Seq(Receipt) /\ Relayed(c) \in SUBSET Nat
      BY <1>0, <2>3, <3>3
    <3>6. CASE SendEvent(c)
      <4>1. item.kind = "event" /\ item.id \in DOMAIN events
        BY <3>1, <3>6 DEF SendEvent, RoomInv, PacketsInv, Addressed
      <4>2. PICK receipt : receipt = [id |-> item.id, key |-> events[item.id].key]
        OBVIOUS
      <4>3. receipt \in Receipt /\ receipt.id = item.id
        BY <1>0, <3>3, <4>1, <4>2, EventParts, ItemKinds DEF Receipt
      <4>4. got'[c] = Append(got[c], receipt)
        BY <1>0, <3>1, <3>6, <4>2 DEF SendEvent, TypeOK
      <4>5. InOrder(Append(got[c], receipt), rest, Relayed(c))
        BY <3>3, <3>5, <4>1, <4>3, OrderTaken
      <4>. QED BY <2>3, <3>4, <4>4, <4>5
    <3>7. CASE SendProperties(c)
      <4>1. item.kind = "props" /\ UNCHANGED got
        BY <3>1, <3>7 DEF SendProperties, RoomInv, TablesInv
      <4>2. InOrder(got[c], rest, Relayed(c))
        BY <3>3, <3>5, <4>1, OrderDropped
      <4>. QED BY <2>3, <3>4, <4>1, <4>2
    <3>. QED BY <1>5, <3>6, <3>7
  <2>. QED BY <2>2, <2>3
<1>6. CASE CountProperties(c)
  <2>1. /\ worker[c].at = "taken" /\ UNCHANGED <<outbox, events, got>>
        /\ worker' = [worker EXCEPT ![c] = [at |-> "counted", item |-> worker[c].item, entry |-> table[worker[c].item.of]]]
    BY <1>6 DEF CountProperties
  <2>2. worker'[d].item = worker[d].item /\ (worker'[d].at = "idle" <=> worker[d].at = "idle")
    BY <1>0, <2>1
  <2>3. OnTheWay(d)' = OnTheWay(d)
    BY <2>1, <2>2, SameWay
  <2>. QED BY <2>1, <2>3, OrderKept DEF Relayed
<1>. QED BY <1>1, <1>2, <1>3, <1>4, <1>5, <1>6

-----------------------------------------------------------------------------
(* What the invariant says.                                                *)

LEMMA RoomInvariant == Spec => []RoomInv
<1>1. RoomInv /\ [Next]_vars => RoomInv'
  <2>1. RoomInv /\ Next => RoomInv'
    BY TypeStep, PacketStep, TableStep DEF RoomInv
  <2>2. RoomInv /\ UNCHANGED vars => RoomInv'
    <3>. SUFFICES ASSUME RoomInv, UNCHANGED vars PROVE RoomInv'
      OBVIOUS
    <3>1. TypeOK'
      BY DEF RoomInv, TypeOK, vars
    <3>2. PacketsInv'
      BY DEF RoomInv, PacketsInv, Addressed, Keys, vars
    <3>3. TablesInv'
      BY DEF RoomInv, TablesInv, Waiting, InHand, Others, vars
    <3>. QED BY <3>1, <3>2, <3>3 DEF RoomInv
  <2>. QED BY <2>1, <2>2
<1>. QED BY RoomInit, <1>1, PTL DEF Spec

\* The queues, the workers and the members' records keep their types: whatever a send worker
\* holds is an item of its own client's queue, in one of the stages of being sent.
THEOREM TypeCorrect == Spec => []TypeOK
BY RoomInvariant, PTL DEF RoomInv

\* With any number of members sharing one PhotonOperationPacket, each worker setting the
\* packet's key between the others' _recrypt and serialize, every recipient gets the event in
\* the mode it was raised in, under the key of somebody it was sent to.
THEOREM EventsKeepTheirMode == Spec => []ModePreserved
<1>1. RoomInv => ModePreserved
  BY DEF RoomInv, PacketsInv, ModePreserved, Keys
<1>. QED BY <1>1, RoomInvariant, PTL

\* Where an item is, as a place on the way to the client.
LEMMA Coming ==
    ASSUME TypeOK, NEW c \in Clients, NEW d, Waiting(c, d) \/ InHand(c, d)
    PROVE  \E i \in DOMAIN OnTheWay(c) : OnTheWay(c)[i] = Props(d)
<1>. DEFINE w == worker[c]
            held == <<w.item>>
<1>1. outbox[c] \in Seq(Item) /\ w \in Worker
  BY Typed, Zenon
<1>2. w.at # "idle" => w.item \in Item
  BY <1>1, WorkerKinds, Zenon
<1>3. CASE InHand(c, d)
  <2>1. w.at # "idle" /\ w.item = Props(d)
    BY <1>3 DEF InHand
  <2>2. OnTheWay(c) = held \o outbox[c]
    BY <2>1 DEF OnTheWay
  <2>3. 1 \in DOMAIN (held \o outbox[c]) /\ (held \o outbox[c])[1] = w.item
    BY <1>1, <1>2, <2>1
  <2>. QED BY <2>1, <2>2, <2>3
<1>4. CASE Waiting(c, d)
  <2>1. PICK i \in DOMAIN outbox[c] : outbox[c][i] = Props(d)
    BY <1>4 DEF Waiting
  <2>2. CASE w.at = "idle"
    <3>1. OnTheWay(c) = outbox[c]
      BY <1>1, <2>2 DEF OnTheWay
    <3>. QED BY <2>1, <3>1
  <2>3. CASE w.at # "idle"
    <3>1. OnTheWay(c) = held \o outbox[c]
      BY <2>3 DEF OnTheWay
    <3>2. i + 1 \in DOMAIN (held \o outbox[c]) /\ (held \o outbox[c])[i + 1] = outbox[c][i]
      BY <1>1, <1>2, <2>1, <2>3
    <3>. QED BY <2>1, <3>1, <3>2
  <2>. QED BY <2>2, <2>3
<1>. QED BY <1>3, <1>4

\* However the workers interleave with SetProperties, which changes the very tables they are
\* writing, a member that is still connected knows the current properties of every other one
\* or has a packet about them on its way.
THEOREM PropertiesDoConverge == Spec => []PropertiesConverge
<1>1. RoomInv => PropertiesConverge
  BY Coming DEF RoomInv, TablesInv, PropertiesConverge, Props
<1>. QED BY <1>1, RoomInvariant, PTL

\* However the workers share the packets and whatever they are in the middle of: each member
\* gets the room's events for it, every one once, in the order in which they were relayed.
THEOREM EventsAreInOrder == Spec => []EventsInOrder
<1>1. Init => EventsInOrder
  BY DEF Init, EventsInOrder, OnTheWay, IdleWorker
<1>2. RoomInv /\ EventsInOrder /\ [Next]_vars => EventsInOrder'
  <2>1. ASSUME RoomInv, EventsInOrder, Next PROVE EventsInOrder'
    <3>1. \A d \in Clients : InOrder(got'[d], OnTheWay(d)', Relayed(d)')
      BY <2>1, OrderStep
    <3>. QED BY <3>1 DEF EventsInOrder, InOrder, Events, Relayed
  <2>2. ASSUME EventsInOrder, UNCHANGED vars PROVE EventsInOrder'
    <3>1. UNCHANGED <<events, got, outbox, worker>>
      BY <2>2 DEF vars
    <3>2. \A c \in Clients : OnTheWay(c)' = OnTheWay(c)
      BY <3>1 DEF OnTheWay
    <3>. QED BY <2>2, <3>1, <3>2 DEF EventsInOrder
  <2>. QED BY <2>1, <2>2
<1>. QED BY <1>1, <1>2, RoomInvariant, PTL DEF Spec

=============================================================================
