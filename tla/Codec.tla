------------------------------- MODULE Codec -------------------------------
(***************************************************************************)
(* The payload of an operation as bytes: parameters of all types, and keys. *)
(* PacketStream leaves these open, and a configuration fills them in.       *)
(*                                                                         *)
(* A value is <<type, content>>, type for its class; a string is its UTF-8  *)
(* bytes and a float its IEEE bytes.  Dictionaries are sequences of pairs   *)
(* in the order of insertion.  SHA-256 of the shared secret is that secret. *)
(***************************************************************************)
EXTENDS PacketStream, SequencesExt

CONSTANTS
    Prime, Base   \* OAKLEY_PRIME_768 and DH_GENERATOR

-----------------------------------------------------------------------------
(* Numbers, big-endian.                                                    *)

\* struct.pack in two's complement; numbers of 8 bytes have no more than 32 bits here.
Signed(n, width) ==
    [i \in 1 .. width |-> IF width - i > 3 THEN IF n < 0 THEN 255 ELSE 0
                          ELSE (n \div 256 ^ (width - i)) % 256]

\* struct.unpack.
Number(bytes) ==
    FoldLeft(LAMBDA n, byte : n * 256 + byte, IF bytes[1] > 127 THEN -1 ELSE 0, bytes)

\* to_bytes((n.bit_length() + 7) // 8)
Shortest(n) == Signed(n, IF n > 255 THEN 2 ELSE 1)

Counted(bytes) == Signed(Len(bytes), 2) \o bytes

-----------------------------------------------------------------------------
(* Parameters: type_registry and the classes' serialize.                   *)

TypeCode == [Nil |-> 42, Dictionary |-> 68, Int8 |-> 98, Custom |-> 99, Double |-> 100,
             Float32 |-> 102, Hashtable |-> 104, Int32 |-> 105, Int64 |-> 108, Boolean |-> 111,
             String |-> 115, Int8Slice |-> 120, Slice |-> 121, ObjectSlice |-> 122]
Width == [Int8 |-> 1, Int32 |-> 4, Int64 |-> 8, Float32 |-> 4, Double |-> 8]

NilValue == <<"Nil", 0>>
CodeOf(value) == <<TypeCode[value[1]]>>

\* A slice's declared element type is the type of its first element, or else the serializer
\* raises; none that is read or built here raises.  Empty dictionaries are of Nil and Nil.
RECURSIVE Write(_)
Write(value) ==
    LET type == value[1] content == value[2]
        Typed(v) == CodeOf(v) \o Write(v)
        All(Of(_)) == FlattenSeq([i \in DOMAIN content |-> Of(content[i])])
    IN  CASE type = "Nil" -> <<>>
          [] type = "Boolean" -> <<IF content THEN 1 ELSE 0>>
          [] type = "Int8" -> <<content>>
          [] type \in {"Int32", "Int64"} -> Signed(content, Width[type])
          [] type \in {"Float32", "Double"} -> content
          [] type = "String" -> Counted(content)
          [] type = "Int8Slice" -> Signed(Len(content), 4) \o content
          [] type = "Custom" -> <<content.id>> \o Counted(content.data)
          [] type = "Slice" ->
                Signed(Len(content.elements), 2) \o <<content.code>>
                    \o FlattenSeq([i \in DOMAIN content.elements |-> Write(content.elements[i])])
          [] type = "ObjectSlice" -> Signed(Len(content), 2) \o All(Typed)
          [] type = "Dictionary" ->
                (IF content = <<>> THEN <<TypeCode.Nil, TypeCode.Nil>>
                 ELSE CodeOf(content[1][1]) \o CodeOf(content[1][2]))
                    \o Signed(Len(content), 2) \o All(LAMBDA p : Write(p[1]) \o Write(p[2]))
          [] type = "Hashtable" ->
                Signed(Len(content), 2) \o All(LAMBDA p : Typed(p[1]) \o Typed(p[2]))

-----------------------------------------------------------------------------
(* Reading a BytesIO: what was read and where to go on.  A position more    *)
(* than one past the end is what an exception leaves.                      *)

Fixed(bytes, at, width) ==
    Read([i \in 1 .. width |-> IF at + i - 1 \in DOMAIN bytes THEN bytes[at + i - 1] ELSE 0],
         at + width)
\* stream.read(n) returns what there is, and all of it when n is negative.
UpTo(bytes, at, n) ==
    LET piece == SubSeq(bytes, at, IF n >= 0 /\ at + n - 1 < Len(bytes) THEN at + n - 1 ELSE Len(bytes))
    IN  Read(piece, at + Len(piece))
Raises(bytes) == Read(NilValue, Len(bytes) + 2)

Short(bytes, at) == Number(Fixed(bytes, at, 2).value)
Many(ReadOne(_), at, n) ==
    FoldLeft(LAMBDA r, i : LET one == ReadOne(r.next) IN Read(Append(r.value, one.value), one.next),
             Read(<<>>, at), [i \in 1 .. n |-> i])
Pair(ReadKey(_), ReadVal(_), at) ==
    LET k == ReadKey(at) v == ReadVal(k.next) IN Read(<<k.value, v.value>>, v.next)
AsDict(type, pairs) ==
    Read(<<type, FoldLeft(LAMBDA d, p : SetItem(d, p[1], p[2]), <<>>, pairs.value)>>, pairs.next)

\* read_parameter with a type code: 0 is another code of Nil, others are unknown.
RECURSIVE ReadAs(_, _, _)
ReadAs(bytes, at, code) ==
    LET Known == {t \in DOMAIN TypeCode : TypeCode[t] = IF code = 0 THEN TypeCode.Nil ELSE code}
        type == CHOOSE t \in Known : TRUE
        As(read) == Read(<<type, read.value>>, read.next)
        Typed(i) == IF i > Len(bytes) THEN Raises(bytes) ELSE ReadAs(bytes, i + 1, bytes[i])
    IN  CASE Known = {} -> Raises(bytes)
          [] type = "Nil" -> Read(NilValue, at)
          [] type = "Boolean" -> Read(<<type, Fixed(bytes, at, 1).value # <<0>>>>, at + 1)
          [] type = "Int8" -> Read(<<type, Fixed(bytes, at, 1).value[1]>>, at + 1)
          [] type \in {"Int32", "Int64"} ->
                Read(<<type, Number(Fixed(bytes, at, Width[type]).value)>>, at + Width[type])
          [] type \in {"Float32", "Double"} -> As(Fixed(bytes, at, Width[type]))
          [] type = "String" -> As(UpTo(bytes, at + 2, Short(bytes, at)))
          [] type = "Int8Slice" -> As(UpTo(bytes, at + 4, Number(Fixed(bytes, at, 4).value)))
          [] type = "Custom" ->
                LET data == UpTo(bytes, at + 3, Short(bytes, at + 1))
                IN  As(Read([id |-> Fixed(bytes, at, 1).value[1], data |-> data.value], data.next))
          [] type = "Slice" ->
                LET of == Fixed(bytes, at + 2, 1).value[1]
                    all == Many(LAMBDA i : ReadAs(bytes, i, of), at + 3, Short(bytes, at))
                IN  As(Read([code |-> of, elements |-> all.value], all.next))
          [] type = "ObjectSlice" -> As(Many(Typed, at + 2, Short(bytes, at)))
          [] type = "Dictionary" ->
                LET codes == Fixed(bytes, at, 2).value
                    One(i) == Pair(LAMBDA j : ReadAs(bytes, j, codes[1]),
                                   LAMBDA j : ReadAs(bytes, j, codes[2]), i)
                IN  AsDict(type, Many(One, at + 4, Short(bytes, at + 2)))
          [] type = "Hashtable" ->
                AsDict(type, Many(LAMBDA i : Pair(Typed, Typed, i), at + 2, Short(bytes, at)))

\* read_parameter without one.
ReadParameter(bytes, at) ==
    IF at > Len(bytes) THEN Raises(bytes) ELSE ReadAs(bytes, at + 1, bytes[at])

-----------------------------------------------------------------------------
(* Payloads.                                                               *)

\* serialize_photon_payload.  A debug message always goes with a return code.
SerializePayload(packet) ==
    LET code == packet[2] debug == packet[3] params == packet[4]
    IN  (IF code = DiffieHellmanResponse THEN <<0, 0, 0>> ELSE <<>>)
            \o (IF packet[1] = "DisconnectMessage" THEN <<>> ELSE <<code>>)
            \o (IF debug = <<>> THEN <<>>
                ELSE Signed(debug[1], 2) \o CodeOf(debug[2]) \o Write(debug[2]))
            \o Signed(Len(params), 2)
            \o FlattenSeq([i \in DOMAIN params |->
                    <<params[i][1][2]>> \o CodeOf(params[i][2]) \o Write(params[i][2])])

\* Entries of the parameter table, as many as are announced.
WithEntry(params, k, value) == Read(SetItem(params, ParameterKey(k), value.value), value.next)
ReadParams(bytes, at) ==
    FoldLeft(LAMBDA r, i : IF r.next > Len(bytes) THEN r
                           ELSE WithEntry(r.value, bytes[r.next], ReadParameter(bytes, r.next + 1)),
             Read(<<>>, at + 2), [i \in 1 .. Short(bytes, at) |-> i])

\* deserialize_photon_payload: the packet and where the reading ended.  A response to a key
\* exchange begins with 00 00 00 2A, read as a code, a return code and the type Nil.
Outcome(code, message) == Read(<<code, message.value>>, message.next)
DeserializePayload(command, bytes) ==
    LET code == IF command # "DisconnectMessage" THEN Fixed(bytes, 1, 1)
                ELSE Read(<<DiffieHellmanRequest>>, 1)
        debug == IF command \in Answers
                 THEN Outcome(Short(bytes, code.next), ReadParameter(bytes, code.next + 2))
                 ELSE Read(<<>>, code.next)
        Whole(params) == Read(Operation(command, code.value[1], debug.value, params.value), params.next)
    IN  Whole(ReadParams(bytes, debug.next))

-----------------------------------------------------------------------------
(* Keys.                                                                   *)

\* pow(n, e, OAKLEY_PRIME_768)
Power(n, e) == FoldLeft(LAMBDA p, i : (p * n) % Prime, 1, [i \in 1 .. e |-> i])
PublicOf(private) == Shortest(Power(Base, private))
\* compute_shared_aes_key, as a shift other than 0.
SharedOf(public, private) == 1 + (Power(Number(<<0>> \o public), private) % 255)

=============================================================================
