----------------------------- MODULE ProxyHops -----------------------------
(***************************************************************************)
(* The way of packets through the proxy.  A packet is serialized at one     *)
(* end, received in chunks cut anywhere, parsed and decrypted by the proxy, *)
(* rewritten (do_hijacks), encrypted with the key of the other connection   *)
(* and serialized again, and received in chunks at the other end.  The ends *)
(* are not this program; they are modelled by the same serializers and the  *)
(* same parser.                                                            *)
(***************************************************************************)
EXTENDS PacketStream

CONSTANTS
    Sessions,         \* records of a way, a server type and the operations sent, see SessionsAssumption
    ChunkSizes,       \* sizes of a chunk that does not empty the wire
    Private,          \* the private keys of a hop's sender and receiver
    PublicKey(_),     \* of a private key
    SharedKey(_, _),  \* of a public and a private key, 0 for no key
    Times,            \* uptimes and clients' times in keep-alives
    MaxPings          \* bound on the number of keep-alives

VARIABLES
    session,      \* what happens in this behaviour
    progress,     \* how much of its opening and its operations a hop's sender has sent
    pings,        \* keep-alives sent so far
    wire,         \* bytes sent and not received
    buffer,       \* PhotonStreamParser.buffer of the hop's receiver
    parsing,      \* the receive worker is in the loop over parse
    parseKey,     \* the key it gave to parse
    key,          \* _aes_key of the hop's receiver, 0 for None
    incoming,     \* operations received, in the order of _incoming
    broken,       \* an exception ended the hop's receive worker
    line,         \* history: what was sent, and where in the stream of bytes it lies
    got           \* history: the packets parsed by the hop's receiver

vars == <<session, progress, pings, wire, buffer, parsing, parseKey, key, incoming, broken, line, got>>

Hops == {"first", "second"}   \* to the proxy and from the proxy

SenderKey(h) == SharedKey(PublicKey(Private[h].receiver), Private[h].sender)

-----------------------------------------------------------------------------
(* do_hijacks.                                                             *)

OurMaster == <<77>>   \* ip:4530
OurGame == <<71>>     \* ip:4532
String(bytes) == <<"String", bytes>>

HasParam(packet, k) == \E i \in DOMAIN packet[4] : packet[4][i][1] = k
Param(packet, k) == packet[4][CHOOSE i \in DOMAIN packet[4] : packet[4][i][1] = k][2]
WithAddress(packet, value) == [packet EXCEPT ![4] = SetItem(@, Address, value)]

\* hijack_regions_list: the first of the addresses.
WithOurRegion(packet) ==
    LET addresses == Param(packet, Address)[2]
    IN  WithAddress(packet, <<"Slice", [addresses EXCEPT !.elements[1] = String(OurMaster)]>>)

\* is_response, of what is forwarded.
Responses == Answers \ {"DisconnectMessage"}

\* For what does not make it raise (see ProxyTunnel for what does).
Hijacked(packet, server) ==
    LET command == packet[1] code == packet[2]
    IN  CASE command \in Responses /\ server = "NameServer" /\ code = GetRegions ->
                WithOurRegion(packet)
          [] command \in Responses /\ server = "NameServer" /\ code = GameList ->
                WithAddress(packet, String(OurMaster))
          [] command = "EncryptedOperationResponse" /\ code \in {CreateGame, JoinGame} ->
                WithAddress(packet, String(OurGame))
          [] OTHER -> packet

-----------------------------------------------------------------------------
(* Assumptions.                                                            *)

\* A table of parameters, and an operation that has one.
IsTable(params) == params \in Seq({<<params[i][1], params[i][2]>> : i \in DOMAIN params})
IsOperationPacket(packet) ==
    /\ packet = Operation(packet[1], packet[2], packet[3], packet[4])
    /\ IsTable(packet[4])

\* A list of regions has one; hijack_regions_list raises when it does not.
NamesRegions(packet, server) ==
    packet[1] \in Responses /\ server = "NameServer" /\ packet[2] = GetRegions
ListsRegions(packet) ==
    HasParam(packet, Address) /\
    LET addresses == Param(packet, Address)[2]
    IN  /\ addresses = [code |-> addresses.code, elements |-> addresses.elements]
        /\ 1 \in DOMAIN addresses.elements

ASSUME SessionsAssumption ==
    \A s \in Sessions :
        /\ s.way \in {"requests", "responses"} /\ s.server \in {"NameServer", "MasterServer"}
        /\ s.items \in Seq({s.items[i] : i \in DOMAIN s.items})
        /\ \A i \in DOMAIN s.items :
            /\ IsOperationPacket(s.items[i]) /\ Forwarded(s.items[i])
            /\ NamesRegions(s.items[i], s.server) => ListsRegions(s.items[i])

\* What is written is read: see PacketStream.
ASSUME PayloadAssumption ==
    /\ \A s \in Sessions : \A i \in DOMAIN s.items :
            ReadsBack(s.items[i]) /\ ReadsBack(Hijacked(s.items[i], s.server))
    /\ \A h \in Hops, command \in KeyExchange :
            ReadsBack(KeyExchangePacket(command, PublicKey(Private[h].sender)))

\* Diffie and Hellman: both ends come to the same key.
ASSUME KeyAssumption ==
    \A h \in Hops :
        /\ SenderKey(h) \in 1 .. 255
        /\ SharedKey(PublicKey(Private[h].sender), Private[h].receiver) = SenderKey(h)

\* Times are 31 bits wide.
ASSUME TimesAssumption ==
    /\ Times \subseteq Nat \X Nat
    /\ \A t \in Times : t[1] \div 256 < 128 * 256 * 256 /\ t[2] \div 256 < 128 * 256 * 256
    /\ ChunkSizes \subseteq Nat \ {0} /\ MaxPings \in Nat

-----------------------------------------------------------------------------
(* The sender of a hop.                                                    *)

Requests == session.way = "requests"
AppId == [i \in 1 .. 32 |-> 54]

\* Each connection begins with its own handshake.
Opening(h) ==
    LET public == PublicKey(Private[h].sender)
    IN  IF Requests THEN <<InitRequestPacket(AppId), KeyExchangePacket("KeyExchangeRequest", public)>>
        ELSE <<InitResponsePacket, KeyExchangePacket("KeyExchangeResponse", public)>>
OpeningSize == 2

\* What a hop's sender has to send after that, as it was built or read, and what it makes of it.
Items(h) == IF h = "first" THEN session.items ELSE incoming["first"]
Made(h, packet) ==
    IF h = "second" /\ ~Requests THEN Hijacked(packet, session.server) ELSE packet

\* Mutant: a payload that was read keeps the bytes it was read from.
CachedAsRead(packet) == <<PayloadBytes(packet)>>

\* _cached_serialized of a payload that was read.
Cached(packet) == <<>>
CacheOf(h, packet) == IF h = "second" THEN Cached(packet) ELSE <<>>

Sent(h) == IF line[h] = <<>> THEN 0 ELSE line[h][Len(line[h])].to

Put(h, packet, bytes) ==
    /\ wire' = [wire EXCEPT ![h] = @ \o bytes]
    /\ line' = [line EXCEPT ![h] = Append(@, [packet |-> packet, from |-> Sent(h),
                                              to |-> Sent(h) + Len(bytes), progress |-> progress'[h]])]
    /\ UNCHANGED <<session, buffer, parsing, parseKey, key, incoming, broken, got>>

SendOpening(h) ==
    LET n == progress[h] + 1
    IN  /\ n <= OpeningSize
        /\ progress' = [progress EXCEPT ![h] = n]
        /\ Put(h, Opening(h)[n], Serialize(Opening(h)[n], <<>>, SenderKey(h)))
        /\ UNCHANGED pings

\* Only who has been spoken to with the key of the connection speaks with it.
SendItem(h) ==
    LET n == progress[h] - OpeningSize + 1
        packet == Items(h)[n]
    IN  /\ n \in DOMAIN Items(h)
        /\ IsEncrypted(packet) => key[h] # 0
        /\ progress' = [progress EXCEPT ![h] = progress[h] + 1]
        /\ Put(h, Made(h, packet), Serialize(Made(h, packet), CacheOf(h, packet), SenderKey(h)))
        /\ UNCHANGED pings

\* The keep-alive loop upstream and the answers to it, once a connection has begun.
SendKeepAlive(h) ==
    \E times \in Times :
        LET packet == IF Requests THEN KeepAliveRequest(times[2]) ELSE KeepAliveResponse(times[1], times[2])
        IN  /\ progress[h] > 0 /\ pings < MaxPings
            /\ pings' = pings + 1
            /\ UNCHANGED progress
            /\ Put(h, packet, Serialize(packet, <<>>, SenderKey(h)))

-----------------------------------------------------------------------------
(* The receiver of a hop.                                                  *)

\* Mutant: the parser is told to expect responses at the end that gets requests.
ExpectRequests == Requests

\* get_type() == Upstream
ExpectResponses == ~Requests

\* recv, feed, and the call of parse.
Receive(h) ==
    /\ ~broken[h] /\ ~parsing[h] /\ wire[h] # <<>>
    /\ \E n \in {k \in ChunkSizes : k < Len(wire[h])} \cup {Len(wire[h])} :
        /\ buffer' = [buffer EXCEPT ![h] = @ \o SubSeq(wire[h], 1, n)]
        /\ wire' = [wire EXCEPT ![h] = SubSeq(@, n + 1, Len(@))]
    /\ parsing' = [parsing EXCEPT ![h] = TRUE]
    /\ parseKey' = [parseKey EXCEPT ![h] = key[h]]
    /\ UNCHANGED <<session, progress, pings, key, incoming, broken, line, got>>

Turn(h) == ParseOne(buffer[h], ExpectResponses, parseKey[h])
PassUnchanged == UNCHANGED <<session, progress, pings, wire, parseKey, line>>

\* Mutant: the format byte of a packet that is not complete is not put back.
LeftAfterPeeking(bytes) == SubSeq(bytes, 2, Len(bytes))

\* A packet that is not complete stays in the buffer.
Left(bytes) == bytes

\* parse wants more, and the loop over it ends, or it raises.
EndPass(h) ==
    /\ parsing[h] /\ Turn(h).at # "packet"
    /\ buffer' = [buffer EXCEPT ![h] = IF Turn(h).at = "wait" THEN Left(@) ELSE @]
    /\ broken' = [broken EXCEPT ![h] = Turn(h).at = "raise"]
    /\ parsing' = [parsing EXCEPT ![h] = FALSE]
    /\ UNCHANGED <<key, incoming, got>> /\ PassUnchanged

\* parse yields a packet.  A key exchange sets the key, but not the one that parse goes on with;
\* operations are put into _incoming; the rest the connection handles by itself.
Handle(h) ==
    LET packet == Turn(h).packet
    IN  /\ parsing[h] /\ Turn(h).at = "packet"
        /\ buffer' = [buffer EXCEPT ![h] = SubSeq(@, Turn(h).length + 1, Len(@))]
        /\ got' = [got EXCEPT ![h] = Append(@, packet)]
        /\ key' = IF packet[1] \in KeyExchange
                  THEN [key EXCEPT ![h] = SharedKey(packet[4][1][2][2], Private[h].receiver)] ELSE key
        /\ incoming' = IF Forwarded(packet) THEN [incoming EXCEPT ![h] = Append(@, packet)] ELSE incoming
        /\ UNCHANGED <<parsing, broken>> /\ PassUnchanged

-----------------------------------------------------------------------------
Init ==
    /\ session \in Sessions
    /\ progress = [h \in Hops |-> 0] /\ pings = 0
    /\ wire = [h \in Hops |-> <<>>] /\ buffer = [h \in Hops |-> <<>>]
    /\ parsing = [h \in Hops |-> FALSE] /\ parseKey = [h \in Hops |-> 0]
    /\ key = [h \in Hops |-> 0] /\ broken = [h \in Hops |-> FALSE]
    /\ incoming = [h \in Hops |-> <<>>] /\ line = [h \in Hops |-> <<>>] /\ got = [h \in Hops |-> <<>>]

Next ==
    \E h \in Hops :
        \/ SendOpening(h) \/ SendItem(h) \/ SendKeepAlive(h)
        \/ Receive(h) \/ EndPass(h) \/ Handle(h)

Spec == Init /\ [][Next]_vars

-----------------------------------------------------------------------------
(* Properties.                                                             *)

\* What a receiver has read is what the sender had in hand when it sent: values of all
\* types, return codes, negative numbers, keys of the same number but another type, whether
\* built here or read, encrypted or not, and however the bytes were cut.
ReadAsSent ==
    \A h \in Hops :
        /\ Len(got[h]) <= Len(line[h])
        /\ \A i \in DOMAIN got[h] : got[h][i] = line[h][i].packet

\* How much of the stream the parser has taken.
Taken(h) == IF got[h] = <<>> THEN 0 ELSE line[h][Len(got[h])].to

\* A parser stands between packets: what it holds and what is still to come is the bytes of
\* the packets that it has not yielded, none of them has made it raise, and it waits for no
\* more than the packet that it has: when nothing is on the wire everything has been read.
InSync ==
    \A h \in Hops :
        LET unread == buffer[h] \o wire[h]
        IN  /\ ~broken[h]
            /\ Len(unread) = Sent(h) - Taken(h)
            /\ \A i \in Len(got[h]) + 1 .. Len(line[h]) :
                SubSeq(unread, line[h][i].from - Taken(h) + 1, line[h][i].to - Taken(h))
                    = Serialize(line[h][i].packet, <<>>, SenderKey(h))
            /\ wire[h] = <<>> /\ ~parsing[h] => Len(got[h]) = Len(line[h])

\* All that is in a packet but an address.
SameButAddress(p, q) ==
    /\ \A part \in {1, 2, 3} : q[part] = p[part]
    /\ \A i \in DOMAIN p[4] :
        i \in DOMAIN q[4] /\ q[4][i][1] = p[4][i][1] /\ (p[4][i][1] # Address => q[4][i] = p[4][i])
    /\ \A i \in DOMAIN q[4] \ DOMAIN p[4] : q[4][i][1] = Address

NamesGameServer(packet) ==
    packet[1] = "EncryptedOperationResponse" /\ packet[2] \in {CreateGame, JoinGame}
NamesMasterServer(packet, server) ==
    packet[1] \in Responses /\ server = "NameServer" /\ packet[2] = GameList
Gives(packet, address) == HasParam(packet, Address) /\ Param(packet, Address) = address

\* Through the proxy packets arrive in order, none missing, with all that was in them but an
\* address, and the address at which the game, the lobby or the first region is to be found is
\* ours.
ClientStaysOnProxy ==
    \A i \in DOMAIN incoming["second"] :
        LET sent == session.items[i]
            read == incoming["second"][i]
        IN  /\ i \in DOMAIN session.items /\ SameButAddress(sent, read)
            /\ ~Requests =>
                /\ NamesGameServer(read) => Gives(read, String(OurGame))
                /\ NamesMasterServer(read, session.server) => Gives(read, String(OurMaster))
                /\ NamesRegions(read, session.server) =>
                        ListsRegions(read) /\ Param(read, Address)[2].elements[1] = String(OurMaster)

=============================================================================
