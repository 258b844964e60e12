# A TLA+ model of the Prison Architect multiplayer server

The server re-implements the three Photon services a Prison Architect client talks to: a name
server, a master server (lobby) and a game server. All three run in one Python process. This
directory holds TLA+ modules translated from that code, TLC runs that check small instances, and
TLAPS proofs for instances of every size. `PROJECT.json` maps each definition to the source lines
it models; paths below are relative to `src/server/`.

## The system

| component | state | operations | interacts with |
|---|---|---|---|
| **Game server** `local_servers/game_server/game_server.py`, `games_manager.py`, `models/game_object.py`, `photon/queue/photon_client_socket.py` | rooms by id, seats by actor number, `_next_player_num`; a session (room id, actor number), user id and property table per client socket; `_pending_disconnects`, `_empty_game_since` | sweep at the start of each pass; Authenticate, CreateGame, JoinGame, RaiseEvent, SetProperties, Leave | gets packets from the dispatcher, reads `_closing` of every queue, pushes packets to other clients' queues; rooms are a process-wide singleton that the master server's updater reads |
| **Dispatcher and server loop** `photon_queue_dispatcher.py`, `server.py`, `server_base.py` | `_clients` under `_clients_lock`, `_packet_ready_event` | accepter thread registers connections; keep-alive thread walks the clients; loop snapshots, drains in turn, waits | starts a queue per connection, runs the server's handlers |
| **Connection queue** `photon/queue/photon_queue.py`, `photon/packet/packet_stream.py`, `keep_alive.py` | parser buffer, `_incoming`, two outgoing queues, `_keepalive_ping_outstanding`, times of the last sign of life and the last ping, `_closing` | receive worker, send worker, `check_keep_alive`, close | sets the dispatcher's event; closed at any moment under the game server's feet |
| **Outgoing packets** `game_object.py`, `operation_packet.py`, `hashtable_param.py`, `models/properties_base.py` | packet objects shared by several queues, their `_aes_key`; the live property tables they point to | `raise_event`, SetProperties relay, `_recrypt`, `serialize` | game thread writes, N send workers read |
| **Master server** `master_server.py`, `game_list_entry.py` | lobby clients; no rooms of its own | Authenticate, JoinLobby, statistics; create and join requests answered with the game server's address; an updater thread sends the list of rooms every 5 s | both threads walk the game server's dictionary of rooms without a lock |
| **Name server** `name_server.py` | none of its own | authentication, region list | - |
| **Upstream relay** `upstream_router.py`, `photon_queue_dispatcher.py` | the connection being looked at, `_upstream_target`, two threads per relayed connection | peek at the first packet, serve locally or resolve, connect and relay; copy both ways | the accepter of the name server calls it for every connection |
| **Proxy** `proxy_servers/` | `_upstreams_entered`: an upstream queue per client, with its workers, key and two packet queues | forward down, forward up, reap; connect on the first packet; handshake; rewrite addresses (`hijack.py`) | a second user of PhotonQueue and of the codecs |
| **Codecs, key exchange** `photon/` | parser buffer, key | serialize, parse, encrypt, decrypt, agree on a key | used by every queue |
| **Settings, log, deployment** | - | - | - |

What makes it hard to get right:

- *Threads.* Each connection has a receive and a send worker; each server a loop, an accepter and a
  keep-alive thread; the master server an updater. Only `_clients` is guarded by a lock.
- *Half-done handlers.* An exception in a handler ends the pass for everybody
  (`server.py:90-97`) and nothing is rolled back.
- *Identity by key.* Disconnect markers are keyed by (room id, actor number), sessions hold the
  same pair; both may outlive what they name.
- *Time.* A grace period for disconnected players, a time to live for empty rooms, soft and hard
  keep-alive timeouts.
- *A stream that is not self-delimiting.* Keep-alive requests (5 bytes) and responses (9 bytes)
  start alike; a flag tells the parser which to expect.
- *Sharing.* Packets, property tables and the dictionary of rooms are used by several threads.
- *Two ends.* A relay and a proxy session have two sockets, each of which may fail while the other
  is in the middle of something.
- *An operator.* The proxy's only loop waits for a key to be pressed before it forwards some replies
  (`hijack.py:197`).
- *Bytes.* A packet may be cut anywhere; what is read, changed and written again must be what was
  meant.

`PROJECT.json` lists each hazard at its line with the properties that cover it. What must hold:
nobody loses a seat that should not, dead seats and empty rooms go away, a room is never
overbooked, members agree on who has which number (game server); no packet waits unannounced, all
are handled (dispatcher); the stream stays in step and nothing is lost, duplicated or reordered
(queue); relayed events keep their order and mode of encryption, property tables converge (outgoing
packets); a list of rooms is true row by row, what single lists miss is made up for (lobby); a relayed
stream is unchanged, the door is not blocked for long, a relay ends on both sides (relay);
operations and replies are accounted for whatever dies, and a session ends at both ends (proxy);
packets are read as they were sent however they are cut (codecs).

## Modules

| module | models | runs |
|---|---|---|
| `GameServer` | the game server's pass, sweep, handlers and time | through `MCGameServer` |
| `Membership` | abstract specification: who is in which room | - |
| `GameServerRefinement` | the refinement mapping from `GameServer` to `Membership` | through `MCGameServer` |
| `RoomVacancy` | `GameServer` with a clock per room that only observes how long the room has really been empty | directly |
| `Dispatcher` | accepter, workers, event, loop | through `MCDispatcher` |
| `PhotonQueue` | one connection: client, receive worker and parser, keep-alive thread, ping queue | through `MCPhotonQueue` |
| `Broadcast` | a room's queued packets, the send workers, shared packets and live tables | through `MCBroadcast` |
| `Lobby` | the room dictionary, its walkers, the lists they send | directly |
| `UpstreamRelay` | accepter, peeking, relaying | through `MCUpstreamRelay` |
| `ProxyTunnel` | the proxy's main loop and its upstreams | through `MCProxyTunnel` |
| `PacketStream` | packets as bytes, encryption, the stream parser; how payloads are written is left open | through `MCCodec` |
| `Codec` | payloads: parameters of all types, keys | through `MCCodec` |
| `ProxyHops` | packets through the proxy: keys, chunks, receive workers, rewriting | through `MCCodec` |
| `GameServerProofs`, `DispatcherProofs`, `PhotonQueueProofs`, `BroadcastProofs`, `LobbyProofs`, `UpstreamRelayProofs`, `ProxyTunnelProofs`, `ProxyHopsProofs` | theorems | - |

Definitions marked "Mutant" in a comment are faulty variants of the definition below them. No
specification uses them; they document which mistake in the code each property would catch.

### GameServer

A member of `Clients` is one connection, hence one `PhotonClientSocket`; a player who reconnects
is another member. `games` is `GamesManager._games` (a room that is not `live` is not in the
dictionary), `players` is the room's seat table, `next` its number counter. `session` is
`_connected_to_game_id` and the actor number. `ident` records the two sources of a user id, because
which exception a handler raises depends on them. `pending` and `emptySince` hold *ages* of the
timestamps the code stores, and `closedFor` is how long the socket has really been closed; ages
stop at the threshold they are compared with, so the state space is finite without losing a
comparison. `known` is what was sent to a client about the members' numbers.

`Sweep` is one action: it runs on the game thread without waiting for anything, and the only
concurrent change it can see is a socket closing, which commutes with every part of the sweep
that does not read that socket. A pass is Sweep, `Snapshot`, then handlers for one client of the
snapshot after the other (`Returns` moves the turn), then `EndPass`. Each handler is the whole
handler, in one action, with what it has changed by the time it raises: a failed join, for
instance, leaves the seat taken and some members informed. `Disconnect` may happen between any two
steps. Names, passwords, property contents and responses are abstracted away.

`Liberties` says what clients do beyond the normal course of the protocol: `"early"` (join before
authenticating), `"reauth"`, `"rejoin"` (create or join while in a room), `"reuse"` (create a room
under an existing id, which two players who choose the same name do, since neither the master
server nor `create_game` objects). The code accepts all of them. Properties say which liberties
they need to be absent; the runs choose the largest set under which their property holds.

### Membership and GameServerRefinement

`Membership` knows rooms, members and clients that are away. Its steps are `Create`, `Join`, `Leave`,
`Clean` (clients that are away lose their places, rooms that are empty afterwards may go) and
`GoAway`. `GameServerRefinement` maps a room's members to the occupants of its seats (`Occupants`),
`exists` to `live`, and "away" to a socket that has been closed for the whole grace period; seat
numbers, sessions, markers, user ids and passes disappear. `ImplementsMembership` holds of clients that
take no liberties.

### Dispatcher

`loop` is where `_process_internal` stands: filter and snapshot under the lock, the turn of one
client, waiting, between `wait` and `clear`, or sleeping after an exception. Sections under the lock
that do not block are one step; the accepter constructs the client while it holds the lock, and the
client's workers already run (`building`). The put of a packet and the `set` of the event are two
steps, as are `wait` and `clear`. `Serve` is a handler that returns, `SkipClient` the
dispatcher's own exception handling, `AbortPass` an exception that reaches the loop. `abandoned` is a
history variable: packets an exception left behind in a client's inbox. The upstream relay is
modelled as "takes the socket or not" (`TurnAway`), the keep-alive thread as one of the reasons for
`Close`.

### PhotonQueue

An item on the wire is two cells, so that a chunk may end inside an item, a request read with the
response layout takes one cell too many and a response read with the request layout leaves one
behind. `expect` is the copy of the flag the parse loop uses for a whole chunk
(`photon_queue.py:164`). What a torn tail looks like to the parser is not determined by the model:
it resynchronises at once or first waits for a packet that is too long. One tick is
one round of the keep-alive thread; `Prompt` states that a tick is long enough for the workers to
finish what they have, which the code's constants (rounds of seconds, work of milliseconds)
justify; without it a client could not be expected to survive. The client is
external: it sends data and has one of `Habits`, that is, how many ticks it takes to answer a ping
and whether it sends keep-alive requests of its own. A behaviour has one habit. Properties about
the framing speak of clients that send no requests and answer before a ping is repeated
(`AnswersInTime`: twice the delay is no more than the soft timeout); the others hold for all.

### Broadcast

The game thread's appends for one handler are one step, since a worker only takes from the front of
its own queue. A worker's `_recrypt` and `serialize` are two steps, and so are the number of
entries and the entries of a table. An entry added in between makes the recipient's serialization
fail, which closes its socket (`broken`). Versions stand for the content of a table.
`Updaters` are the members that change their properties. A packet's key may be overwritten between
the two steps of a worker; `ModePreserved` claims only what is left: an encrypted event is never
sent in clear, nor under the key of somebody it is not for.

### Lobby

`games` is the dictionary as CPython keeps it, an array of entries in the order of insertion with holes
where one was removed: `slot` is a room's place in it, `places` how many are in use. A walk is an
iterator over that array: it keeps the size at its beginning, how many entries it may still yield, and its
index. It takes one entry per step and raises when the size is not what it was, or when it meets an
entry after as many as there were at first (`Raises`, CPython's two messages). So a room removed and
another one added between two steps may go unnoticed. An insertion that finds the array full rebuilds it
without the holes (`Rebuild`), and the index of a walk under way then points behind rooms it has not
visited. How long the array is depends on its history and on the CPython version; any insertion may be the
one that finds it full. The properties are about what a list may be like after all that.
`held` (rows that were true at some moment of the walk) and `stayed` (rooms that were in the same place
throughout) are history variables. The master server's thread walks for JoinLobby (list, statistics,
list again) and Authenticate, the updater every five seconds; an exception ends the pass of the
former and the thread of the latter. Tokens, user ids and the answers that carry an address are left
out.

### UpstreamRelay

A stream is a sequence of numbered pieces. `arrived` is what lies in this program's receive buffer, `hand`
what a forwarding thread has read, `written` what the other end's buffers hold (at most `Window`,
then `sendall` waits), `got` what that end has read. The accepter goes through `header`, `packet`,
`resolve`, `connect` or `local`; time passes only while it peeks, and each of its two peeks has a
timeout of its own. When a direction ends it shuts both sockets; one that still holds something unread
is reset, and then what its end has not read may be lost (`ShutBoth`).

### ProxyTunnel

`loop` is the main loop: a phase (`down`: packets of clients, `up`: packets of remote servers, `reap`), the
sessions whose turn is still to come, and the packet in its hand. An upstream has its packets in both
directions, the key flag, and which of its workers live: `SenderDies` is `_recrypt` raising outside
the `try` block, junk from the server ends the receive worker, and neither closes the connection.
`HijackFails` is an exception in `do_hijacks`, which ends the main loop (`Crash`): upstreams are closed, clients
are not. After the encrypted response to CreateGame or JoinGame `do_hijacks` waits in `input` for an
operator (`HijackAsks`): the loop is `asking`, and does nothing until somebody presses Enter
(`OperatorAnswers`, the reply is forwarded) or closes the terminal (`OperatorLeaves`, `input` raises).
Everybody else goes on meanwhile. Operations are numbers here, so any reply may be one of those. Left out are the answers the client's socket gives by itself, keep-alives (but for the fact
that a send worker soon has something to send) and the five seconds a dead worker is waited for.

### PacketStream, Codec and ProxyHops

A packet goes from an end to the proxy and from the proxy to the other end, each hop with a handshake
and a key of its own. Bytes are numbers. `PacketStream` has the packet classes, the headers, encryption and
the stream parser as operators on them: `ParseOne` is one turn of the loop of `parse` and comes to a packet,
to waiting or to an exception. AES is a shift by the key, which keeps lengths, padding and the
effect of a wrong key on the padding; the hash of the shared secret is the secret; the group is small.

How the payload of an operation is written and read is a parameter of `PacketStream`. `Codec` gives it,
for all parameter types; these nest, so its operators are `RECURSIVE` and nothing is proved about them. What
the rest needs of them is `ReadsBack`: a payload is bytes, few enough for the parser, that are read to
their end as what was written.

`ProxyHops` is the machine, the same for requests and for responses. A hop's sender sends its opening
(`SendOpening`), operations (`SendItem`) and, any time after the connection has begun, keep-alives
(`SendKeepAlive`); the second hop sends what the first received, after `do_hijacks` (`Hijacked`) when it is a
response. `Receive` is one `recv` with `feed` and the call of `parse`, which gets the key as it is at that
moment (`parseKey`); `Handle` is a turn that yields a packet, which may set the key; `EndPass` is the turn
that ends the loop. `line` and `got` are history: what was sent, where its bytes lie, and what was read of it.

## Runs

| run | question | bounds |
|---|---|---|
| `GameServer_liberties` | with every liberty but `"reuse"`: types, capacity; sessions name held seats, markers stand for the client in the seat, seats are only lost by leaving or by expiry; dead seats are freed and empty rooms removed | 2 clients, 1 room, 2 seats, 3 numbers, grace 1, ttl 1 |
| `GameServer_normal` | without liberties: seats and sessions are one relation, rosters agree, `Membership` is implemented | 2 clients, 2 rooms |
| `GameServer_stale_marker` | *violated*: the grace period is honoured | 2 clients, 1 room, `"reuse"` |
| `RoomVacancy_early` | *violated*: empty rooms live for their ttl | 2 clients, 1 room |
| `Dispatcher` | no wake-up is lost; packets are handled; closed clients are forgotten | 2 clients, 2 packets each |
| `PhotonQueue` | the framing is kept for a client that answers in time, nothing is lost, everything arrives; for any client nothing is doubled or reordered, those that answer survive, silent ones are closed | soft 2, hard 5; a prompt client (1) and a pinging one (2); 2 data packets, 4 cells in flight |
| `PhotonQueue_slow_answer` | *violated*: the framing is kept whenever the client sends no requests | soft 2, hard 5, answers within 2 |
| `Broadcast` | every event once, in the relay's order, in its mode; tables converge | 3 members, 2 events, 2 updates by one of them |
| `Lobby` | rows are true, no room is missed that kept its place, lists converge | 1 client, 2 rooms, 4 changes, 1 player, 1 list queued |
| `UpstreamRelay` | streams are passed on unchanged; the door is blocked for two timeouts at most; everybody is dealt with; relays end on both sides and deliver the last words | one talker (3 pieces, 1 back), one that never finishes its first packet; header 1, packet 3, timeout 2, window 1 |
| `ProxyTunnel` | operations and replies are accounted for; no second upstream; sessions end at both ends and operations are forwarded if the operator attends to the loop | 1 client, 2 operations, 2 replies |
| `Codec` | packets are read as sent, the parser stays in step, a client stays on the proxy | 25 sessions of a packet that is being tried and, among requests, one behind it; one keep-alive anywhere; chunks of 14 bytes or all |

Why the bounds suffice. Two clients are what a stale marker, a second holder of a seat or a handler
that raises because of another member needs; two rooms let a session, a seat and a sweep disagree
about which room is meant; more numbers than seats let a number be handed out after one was
freed. Grace and ttl of one tick tell "just seen" from "long enough". Two packets of two clients give
every position of an exception and of the event. The hard timeout lies at least one ping interval
above the soft one plus the answer's delay, as in the code's constants (with a smaller margin a
client would be closed that answers); three cells are one more than an item, the shortest overlong
packet, so the stream can be torn and recover (up to `MaxTorn` cells of a torn item are told apart).
Two events to any subset of two recipients allow overtaking, and both recipients to be at work on one
packet. Four changes are two rooms created and, during a walk, the one behind which the other stands
removed and created again: the size comes out the same, with or without a rebuild that moves the
other one up behind the walk's index, so that it is passed over. A larger run with five changes and
otherwise these constants finds no error either. In the relay the packet is longer than the header and
the window shorter than the packet, so that every peek can be satisfied, cut short or time out
and `sendall` can wait; one connection is in front of the other in either order. Two operations can
be on either side of each step of the handshake, and sessions share nothing but the main loop, which
visits them one by one. Chunks of 14 bytes, or all there is, one
after the other, cut packets of 5 to some 60 bytes inside the header, behind it, inside the payload and at the
end; the theorems are about cuts of any size. `SYMMETRY` is used only in runs without liveness.
Deadlock is checked except in `Broadcast`, `Lobby`, `UpstreamRelay`, `ProxyTunnel` and `Codec`, whose
clients, rooms and servers stop when the bounds are used up.

### Fairness

- `GameServer`: weak fairness of `Sweep`, `Snapshot`, `EndPass` and `Tick`. The loop thread never
  blocks without a timeout, an exception is caught and followed by a new pass, a client's packets in
  one turn are finite, and time passes. No handler is assumed to succeed.
- `Dispatcher`: weak fairness of the loop and of the accepter once it has a connection. `Event.wait`
  and the sleep have timeouts; so have the accepter's socket operations; the lock is held for short
  sections. Clients and their workers are under no obligation.
- `PhotonQueue`: weak fairness of the receive worker, keep-alive thread, send worker and time. The
  client owes nothing except what `Tick` says of its answers.

- `Lobby`: weak fairness of both walking threads and of the clients' send workers.
- `UpstreamRelay`: weak fairness of the accepter, of time, of the forwarding threads, and of an end reading
  what has reached it; nobody owes a first packet, an answer or the end of a connection.
- `ProxyTunnel`: weak fairness of the main loop unless it waits for the operator, of the workers, as long as they
  live, and of the remote server giving up a connection on which nothing is sent to it any more, as
  Photon's does. Everything else the loop calls has a timeout, is given up by the system in the end
  (`connect`) or only fills or empties a queue. The client and the remote
  server owe nothing else, and neither does the operator: there is no fairness of `OperatorAnswers`. That the
  loop is found out of `input` again and again (`OperatorAttends`) is the premise of `EndsTogether` and
  `OpsForwarded` instead; both are false without it, since the loop may wait for ever.
- `ProxyHops`: none. That whatever is sent gets through is part of `InSync`: nothing on the wire, nothing
  unread.

In the first three cases a client that never stops sending could starve the others in the code
(`photon_client_socket.py:132`); the models assume it pauses.

## Theorems

Proved for all values of the constants that satisfy the named assumptions:

- `TypeCorrect`, `CapacityIsRespected`: no further assumption, all liberties allowed. The capacity
  argument goes through the set of seats: only an admitted join adds a seat and only below the
  capacity, a create starts from one seat, everything else removes seats (`NextChangesSeats`).
- `SeatsFit`, `SessionsHaveSeats`, `MarkersStayTrue`, `SeatsKept`: assume `"reuse" \notin Liberties`.
  Neither "a session names a held seat" nor "a marker stands for the occupant" is inductive alone. A Leave
  frees the seat the session names, so a marker on that seat would go stale: it has none, because a
  client that is served was open at the snapshot, and a marker exists only for a client that was
  closed when a sweep ran. So `SeatsInv` adds that marked clients are not being served, that nobody
  is served outside the serving part of a pass, and that numbers not yet handed out
  and rooms that do not exist are free (so a new seat never inherits a marker).
  `SeatsKept` follows: a seat is lost in the sweep, with a marker of age `Grace` for a client closed
  at least as long, or in Leave, by the client the session belongs to.
- `SeatsAndSessionsMatch`, `MembershipIsImplemented`: assume `Liberties = {}`. `SeatsMatchSessions` needs
  in addition that whoever is in a room has a user id, so that no handler raises after it has given
  away a seat (`SeatsMatchInv`). From it, each handler is a `Create`, `Join`, `Leave` or no step at
  all of `Membership`, and the sweep a `Clean`: a marker of age `Grace` stands for a client closed as long.
- `RostersDoAgree` assumes `Liberties = {}` as well. `RostersAgree` is a statement about pairs of seats;
  what is inductive is `MembersKnow`, the same from the side of the client that has a session: about a
  taken seat it was sent who sits there and nobody else, and about a number that was not handed out
  yet it was sent nothing, so a newcomer's number is new to everybody it is announced to.
- `DispatcherProofs`: `TypeCorrect`, `WakeupInvariant`, `WakeupsAreNotLost`: any number of clients and
  packets. `NoLostWakeup` speaks of the moment of waiting only; `PacketsAnnounced` extends it to the
  whole pass (a packet is announced, about to be, or its client's turn is still to come), and
  `OneBuilder` covers the client whose workers run before it is in the list: the snapshot needs the
  lock the accepter holds.
- `UpstreamRelayProofs`: `TypeCorrect`, `PeekingIsBounded`, `StreamsAreVerbatim`: any connections, sizes,
  windows and timeouts. `AccepterInv` bounds the time by the peek the accepter is at. `StreamInv` says of
  a stream that the part its reader has counts from 1, that what was written, what is in a thread's
  hand and what has arrived continue it, and that nothing is buffered before a relay begins;
  `DoorInv` that a connection is in one place of the backlog or with the accepter, so nobody is
  relayed twice.
- `LobbyProofs`: `TypeCorrect`, `RowsAreTrue`, `NoneInPlaceAreMissed`: any clients and any finite set of
  rooms. `SlotsInv`: places are distinct and none is above `places`, also after a rebuild, which gives each
  room the number of those up to it (`Ranks`: different numbers, in the same order, none above the size).
  `WalkInv`: while a thread walks, the rooms as they are count among `held`, and those that stayed in
  their places have a row if the walk is past them. That a walk which finds no next entry has passed
  all of them uses that among natural numbers there is a least.

- `PhotonQueueProofs`: `TypeCorrect`, `NeverOutOfOrder`: any timeouts, habits and bounds. `StreamInv`: the
  numbers of the data packets rise from what was delivered through the buffer to the wire, and none is
  above `sent`. Cutting a chunk, joining it to the buffer and taking cells off the front keep that
  (`CutInOrder`, `JoinedInOrder`), however many cells the parser takes for one packet.
- `FramingIsKept`, under `AnswersInTime`, which is part of the property. `ItemsInv`: buffer and wire together
  are whole items, with at most one response in them, and the numbers of the data packets among them
  are those from the last one delivered to `sent`. `ParserInv`: the parse loop that has a response in front
  of it has copied a set flag, and it stops only with less than an item left. These need `PingInv`: a ping
  is in one place at a time between the keep-alive thread, the client and the wire, the flag is set
  meanwhile, and its age says where it is, so the next one cannot be due before the answer has arrived.
- `AnsweringClientsSurvive`, under `AnswersBeforeHard` (the soft timeout and the delay of an answer are less
  than the hard timeout, which in the code is at least twice the soft one, `photon_queue.py:83-91`).
  `HeardInv` bounds the time since the last chunk by what is under way: until the soft timeout nothing
  need be; after it a ping is about to be sent, or an answer is due whose age accounts for the silence,
  or something is on the wire. It holds for every habit, also for answers that tear the stream.
- `BroadcastProofs`: `TypeCorrect`, `EventsKeepTheirMode`, `PropertiesDoConverge`: any members, events and
  updates. `PacketsInv`: an event is only in the hands of its recipients, so whichever worker sets the
  key of the shared packet, it is a recipient's, and it never goes back to `NoKey`. `TablesInv`: a worker
  that has begun to write a table writes its current version or another packet about it waits; the
  number of entries never exceeds the version.
- `EventsAreInOrder`: what a member got, what its worker holds and what is queued for it are the events
  relayed to it, and the numbers rise within each part and from one part to the next. Given
  `PacketsInv` this is inductive as it stands (`OrderStep`), because a relay gives each recipient's queue an
  event above all earlier ones and a worker only takes from the front.
- `ProxyTunnelProofs`: `TypeCorrect`, `NobodyReconnects`: any clients and bounds. `SessionsInv`: a client
  without an upstream has not exchanged anything, or it is closed and the loop neither takes its
  packets nor will in this pass; and only in that phase has the loop a packet in its hand.
- `OpsAreAccounted`, `RepliesAreAccounted`: a client's operations, and its replies, are in four queues one behind
  the other. `InLine` says that the numbers rise along such a line and that none is above a bound; a packet of
  the handshake has no number. Each step moves a number to the queue before (`MovedFirst`, `MovedSecond`,
  `MovedThird`), lets the next one join (`JoinedLine`), brings or removes a packet without a number
  (`ZeroComes`, `ZeroGoes`), or takes some out for good (`Thinned`), and the last only when an end of the session
  closes or a worker dies. So order holds in every state and completeness while the session works
  (`OpsKept`, `RepliesKept`). The replies need one thing more, `Gapless`: those that left the remote server and
  were received follow the ones before without a gap also after the upstream is shut, for then what
  was still on its way is gone and yet the client may receive more. `PlacesInv` gives a new
  upstream empty queues and the loop one packet at most. No bound on clients, operations or replies is used.

- `ProxyHopsProofs`: any sessions, packets, keys, times and sizes of chunks, under the assumptions
  `SessionsAssumption` (what is sent are operations; a list of regions has one, or `hijack_regions_list` would raise,
  which is `HijackFails` in `ProxyTunnel`), `PayloadAssumption` (`ReadsBack`), `KeyAssumption` (both ends compute the
  same key, none is 0) and `TimesAssumption` (times of 31 bits; chunks are not empty). TLC evaluates all four in
  the run `Codec`, with `Codec`'s payloads of every command and parameter type and its Diffie-Hellman keys.
- `SentIsRead` is about the parser alone: given bytes that agree with those of a packet as far as they go, it
  waits while some are missing, with any key, and yields that packet once they are there, whatever comes
  behind; only an encrypted packet needs its key. So no cut inside a header, a length or the padding matters. It rests
  on numbers to the base of 256 (`Digits`, `LongIsRead`), padding (`FillIsPadded`) and decryption (`EncryptBytes`).
- `Invariance`, `PacketsReadAsSent`, `ParserInSync`, `ClientKeptOnProxy`. None of the three properties is inductive:
  `ReadAsSent` says nothing of bytes under way and `ClientStaysOnProxy` looks at the far end only. `IInv` says of each
  hop that buffer and wire together are the bytes of the packets not yet read, each at its place (`InStream`); that
  outside the loop less than a packet is in the buffer (`InOrder`); that no encrypted packet is under way before
  its receiver has the key, and when one begins in the buffer `parse` was called with it (`InKey`: the key is read
  once per call of `parse`, so this is where a key that is stale could do harm); that each packet is a keep-alive or
  what there was to send next (`InTurn`); and that what was received of the operations is what was made of as
  many (`Relayed`), which joins the second hop to the first. An appended packet, a chunk and a packet taken off
  the front keep a line and its bytes together (`PacketIsAppended`, `CutJoins`, `PacketIsTaken`, `RestJoins`);
  `HijackedIsOurs` says that `do_hijacks` changes nothing but the address.

Every safety and action property of the passing runs is proved. Only model-checked are

- the liveness properties (`DeadSeatsFreed`, `EmptyRoomsReclaimed`, `PacketsHandled`, `ClosedForgotten`,
  `SilentClientClosed`, `DataArrives`, `Accepted`, `BothEnd`, `LastWordsDelivered`, `ListsConverge`, `EndsTogether`,
  `OpsForwarded`): fairness and `ENABLED` are outside the prover's reach;
- `PayloadAssumption` for `Codec`: parameters nest, so that what was written is read back needs induction over
  recursive operators. TLC evaluates it for the operations of the run, as they are and as `do_hijacks` leaves them.

## Findings

1. `GameServer_stale_marker`: `create_game` replaces an existing room (`games_manager.py:31`) but the
   markers of the old room stay. The creator of the new one, who gets number 1, is unseated by the
   first sweep that finds it disconnected if the old number 1 had been marked.
2. `RoomVacancy_early`: `_empty_game_since` is only cleared by a sweep that finds the room occupied.
   A visit between two sweeps leaves the old entry and the room is removed right after it.
3. `PhotonQueue_slow_answer`: a ping is repeated after half the soft timeout, but the flag counts to
   one. Two late answers tear the stream: a packet may be lost.

Further observations have no run of their own:

- A create or join by a client that is already in a room takes a seat before `join_game` raises, and the
  seat stays (`"rejoin"` in the passing runs covers what follows).
- A client's own keep-alive request that crosses a ping is read as a response, which the comment at
  `photon_queue.py:202-205` concedes.
- The key of a packet shared by several send workers may be another recipient's when it is serialized
  (`photon_queue.py:341`).
- A game list event with a room in it ends the proxy's main loop, for want of an attribute
  (`hijack.py:105`).
- The proxy's main loop waits for an operator to press Enter after each encrypted response to CreateGame or
  JoinGame of a name or master server (`hijack.py:197`). While it does, no session is torn down and nothing is
  forwarded for anybody. Started without a terminal, `input` raises and the proxy ends.
- A walk over the rooms may pass over one that was there all along, without an exception: when rooms in front of
  it were removed and as many created meanwhile, and a creation rebuilt the dictionary
  (`factory.py:101-106`). The next list has it. With the size unchanged a walk may also raise "dictionary keys
  changed during iteration".
- The first packet of a connection may be waited for twice `INIT_PEEK_TIMEOUT`, once for the header and
  once for the rest.

## Plan

Done: the modules above. Left, in this order:

1. `PhotonQueue`: the high and low outgoing queues and the joins of the workers on exit.
2. `Broadcast`: the packets of join and create, which show a newcomer the tables of the others.
3. `ProxyTunnel`: the client socket's own answers (Authenticate, Ping), which take their turn among the
   replies of the remote server.
4. Proofs: what the steps above add.

## Not modelled

The name server has no state beyond what `GameServer` and `Dispatcher` already show. Shutting down
and the restart of a crashed server, logging, the command line, settings and deployment are input and output. The
cryptography is out of a model checker's reach; encryption appears as "whose key". Nothing is
persisted, so there is no crash recovery to model: a restarted process starts from `Init`. Threads
left behind after an error (`photon_queue_dispatcher.py:140`) are not counted, nor is the processor time of
a peek that finds a part of what it wants (`upstream_router.py:57`). The address of the remote name
server is resolved once, as in the code; that it may change is outside the program.
