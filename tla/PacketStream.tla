---------------------------- MODULE PacketStream ----------------------------
(***************************************************************************)
(* Photon's packets as bytes: their formats and headers, encryption, and    *)
(* PhotonStreamParser, which takes them out of a stream again.  How the     *)
(* payload of an operation is written and read is left open here; Codec     *)
(* says how, and its parameters nest, so that takes recursive operators.    *)
(*                                                                         *)
(* AES is a shift by the key, which like AES keeps the length of the padded *)
(* text and leaves wrong padding to whoever decrypts with another key.      *)
(***************************************************************************)
EXTENDS Integers, Sequences

CONSTANTS
    PayloadBytes(_),    \* serialize_photon_payload, of a packet
    ReadPayload(_, _)   \* deserialize_photon_payload, for a command and its bytes, see Read

Byte == 0 .. 255

\* struct.pack(">I") and ">h".
Long(n) == LET m == n \div 256 l == m \div 256 IN <<l \div 256, l % 256, m % 256, n % 256>>
Word(n) == <<(n \div 256) % 256, n % 256>>

\* int.from_bytes of four bytes, in two's complement: what is negative here is too large for
\* anything that is read this way.
HighByte(byte) == IF byte > 127 THEN byte - 256 ELSE byte
LongAt(bytes, at) ==
    ((HighByte(bytes[at]) * 256 + bytes[at + 1]) * 256 + bytes[at + 2]) * 256 + bytes[at + 3]
WordAt(bytes, at) == HighByte(bytes[at]) * 256 + bytes[at + 1]

-----------------------------------------------------------------------------
(* Tables of parameters: sequences of a key and a value in the order of     *)
(* insertion.  A value is <<type, content>>, type for its class.            *)

\* __eq__ and __hash__: Int8(4) and Int32(4) are different keys.
SameKey(k, l) == k = l

\* result[k] = v
SetItem(dict, k, v) ==
    IF \E i \in DOMAIN dict : SameKey(dict[i][1], k)
    THEN [i \in DOMAIN dict |-> IF SameKey(dict[i][1], k) THEN <<dict[i][1], v>> ELSE dict[i]]
    ELSE Append(dict, <<k, v>>)

\* What was read from a BytesIO and where to go on.
Read(value, next) == [value |-> value, next |-> next]

-----------------------------------------------------------------------------
(* Packets.                                                                *)

Command == [Operation |-> 2, OperationResponse |-> 3, Event |-> 4, DisconnectMessage |-> 5,
            KeyExchangeRequest |-> 6, KeyExchangeResponse |-> 7, EncryptedOperation |-> 130,
            EncryptedOperationResponse |-> 131, EncryptedEvent |-> 132]
Encrypted == {"EncryptedOperation", "EncryptedOperationResponse", "EncryptedEvent"}
KeyExchange == {"KeyExchangeRequest", "KeyExchangeResponse"}
Answers == {"OperationResponse", "KeyExchangeResponse", "EncryptedOperationResponse", "DisconnectMessage"}
\* OperationCode and ParameterKey.
DiffieHellmanRequest == 0
DiffieHellmanResponse == 42
GetRegions == 220
JoinGame == 226
CreateGame == 227
GameList == 230
ParameterKey(n) == <<"ParameterKey", n>>
ClientKey == ParameterKey(1)
Region == ParameterKey(210)
Address == ParameterKey(230)

\* PhotonOperationPacket: command, operation code, <<>> or return code and debug message,
\* parameters.  The other packets are shorter sequences, also headed by what they are.
Operation(command, code, debug, params) == <<command, code, debug, params>>
KeyExchangePacket(command, public) ==
    Operation(command,
              IF command = "KeyExchangeRequest" THEN DiffieHellmanRequest ELSE DiffieHellmanResponse,
              <<>>, << <<ClientKey, <<"Int8Slice", public>>>> >>)
InitRequestPacket(appId) == <<"Init", <<1, 6, 17, 4, 1, 11, 0>>, appId>>
InitResponsePacket == <<"InitResponse">>
KeepAliveRequest(time) == <<"KeepAliveRequest", time>>
KeepAliveResponse(uptime, time) == <<"KeepAliveResponse", uptime, time>>

IsOperation(packet) == packet[1] \in DOMAIN Command
IsEncrypted(packet) == packet[1] \in Encrypted
Forwarded(packet) == IsOperation(packet) /\ packet[1] \notin KeyExchange

\* _encrypt_data and _decrypt_data.  Padding that is not PKCS7 makes unpad raise.
Shift(bytes, by) == [i \in DOMAIN bytes |-> (bytes[i] + by) % 256]
Encrypt(bytes, k) ==
    LET n == 16 - (Len(bytes) % 16) IN Shift(bytes \o [i \in 1 .. n |-> n], k)
Padding(plain) == plain[Len(plain)]
Padded(plain) ==
    /\ plain # <<>> /\ Len(plain) % 16 = 0 /\ Padding(plain) \in 1 .. 16
    /\ \A i \in 0 .. Padding(plain) - 1 : plain[Len(plain) - i] = Padding(plain)

Unpad(plain) == SubSeq(plain, 1, Len(plain) - Padding(plain))

HeaderSize == 9
MaxPacketLength == 16 * 1024 * 1024
KeepAliveFormat == 240
DataFormat == 251

DataPacket(command, content) ==
    <<DataFormat>> \o Long(HeaderSize + Len(content)) \o <<0, 1, 243, command>> \o content

\* The content of an init request: versions, and the application's id.
InitContent(v, appId) ==
    <<v[1], v[2], v[3], v[4] * 16 + (v[5] % 16), v[6]>> \o Word(v[7]) \o appId

\* serialize; cached is <<>> or what _cached_serialized holds.
Serialize(packet, cached, k) ==
    LET payload == IF cached # <<>> THEN cached[1] ELSE PayloadBytes(packet)
    IN  CASE packet[1] = "KeepAliveRequest" -> <<KeepAliveFormat>> \o Long(packet[2])
          [] packet[1] = "KeepAliveResponse" ->
                <<KeepAliveFormat>> \o Long(packet[2]) \o Long(packet[3])
          [] packet[1] = "Init" -> DataPacket(0, InitContent(packet[2], packet[3]))
          [] packet[1] = "InitResponse" -> DataPacket(1, <<0>>)
          [] IsOperation(packet) ->
                DataPacket(Command[packet[1]], IF IsEncrypted(packet) THEN Encrypt(payload, k) ELSE payload)

-----------------------------------------------------------------------------
(* PhotonStreamParser.                                                     *)

\* What one turn of parse's loop comes to: wait for more, raise, or a packet of some length.
Wait == [at |-> "wait", packet |-> <<>>, length |-> 0]
Raise == [at |-> "raise", packet |-> <<>>, length |-> 0]
Parsed(packet, length) == [at |-> "packet", packet |-> packet, length |-> length]

Has(bytes, n) == Len(bytes) >= n

\* PhotonOperationPacket.from_bytes; KeyExchangePacket.from_bytes keeps only the public key.
Understood(command, text, payload, length) ==
    LET params == payload.value[4]
        public == {i \in DOMAIN params : params[i][1] = ClientKey}
    IN  CASE payload.next > Len(text) + 1 -> Raise
          [] payload.next <= Len(text) + 1 /\ command \notin KeyExchange -> Parsed(payload.value, length)
          [] payload.next <= Len(text) + 1 /\ command \in KeyExchange ->
                IF public = {} THEN Raise
                ELSE Parsed(KeyExchangePacket(command, params[CHOOSE i \in public : TRUE][2][2]), length)
ParseOperation(command, content, length, k) ==
    LET plain == Shift(content, 256 - k)
        secret == command \in Encrypted
        text == IF secret THEN Unpad(plain) ELSE content
    IN  IF secret /\ (k = 0 \/ ~Padded(plain)) THEN Raise
        ELSE Understood(command, text, ReadPayload(command, text), length)

\* InitRequestPacket.from_bytes and InitResponsePacket.from_bytes.
ParseInit(content, length) ==
    IF Len(content) < 39 THEN Raise
    ELSE Parsed(<<"Init", <<content[1], content[2], content[3], content[4] \div 16, content[4] % 16,
                            content[5], WordAt(content, 6)>>, SubSeq(content, 8, 39)>>, length)
ParseInitResponse(content, length) ==
    IF content = <<>> \/ content[1] # 0 THEN Raise ELSE Parsed(InitResponsePacket, length)

\* A length that ends within the header makes the code read a negative number of bytes, that
\* is all there are; only an operation is then found not to be as long as its header says.
ParseData(bytes, k) ==
    LET length == LongAt(bytes, 2)
        end == IF length < HeaderSize THEN Len(bytes) ELSE length
        content == SubSeq(bytes, HeaderSize + 1, end)
        commands == {c \in DOMAIN Command : Command[c] = bytes[9]}
    IN  IF ~Has(bytes, HeaderSize) THEN Wait
        ELSE IF length <= 0 \/ length > MaxPacketLength THEN Raise
        ELSE IF ~Has(bytes, length) THEN Wait
        ELSE IF bytes[9] = 0 THEN ParseInit(content, end)
        ELSE IF bytes[9] = 1 THEN ParseInitResponse(content, end)
        ELSE IF commands = {} \/ length < HeaderSize THEN Raise
        ELSE ParseOperation(CHOOSE c \in commands : TRUE, content, length, k)

ParseKeepAlive(bytes, expectResponses) ==
    IF expectResponses
    THEN IF Has(bytes, 9) THEN Parsed(KeepAliveResponse(LongAt(bytes, 2), LongAt(bytes, 6)), 9) ELSE Wait
    ELSE IF Has(bytes, 5) THEN Parsed(KeepAliveRequest(LongAt(bytes, 2)), 5) ELSE Wait

ParseOne(bytes, expectResponses, k) ==
    CASE bytes = <<>> -> Wait
      [] bytes # <<>> /\ bytes[1] = KeepAliveFormat -> ParseKeepAlive(bytes, expectResponses)
      [] bytes # <<>> /\ bytes[1] = DataFormat -> ParseData(bytes, k)
      [] bytes # <<>> /\ bytes[1] \notin {KeepAliveFormat, DataFormat} -> Raise

-----------------------------------------------------------------------------
(* What Codec owes.                                                        *)

\* A payload is bytes, no more than a reader accepts with header and padding, that are read
\* to their end as what was written; of a key exchange only the parameters are used.
ReadsBack(packet) ==
    LET bytes == PayloadBytes(packet)
        read == ReadPayload(packet[1], bytes)
    IN  /\ bytes \in Seq(Byte) /\ Len(bytes) <= MaxPacketLength - HeaderSize - 16
        /\ read.next \in Nat /\ read.next <= Len(bytes) + 1
        /\ IF packet[1] \in KeyExchange THEN read.value[4] = packet[4] ELSE read.value = packet

=============================================================================
