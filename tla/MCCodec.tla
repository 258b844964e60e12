------------------------------ MODULE MCCodec ------------------------------
(***************************************************************************)
(* Packets of every command, parameters of every type with their corners:   *)
(* negative and large numbers, empty strings and collections, nested ones,  *)
(* plaintexts that are a whole number of blocks.  A session is a packet     *)
(* that is being tried and, among requests, one more behind it; keep-alives *)
(* may come anywhere.                                                      *)
(***************************************************************************)
EXTENDS Codec, ProxyHops

Text == String(<<80, 65>>)
Int8(n) == <<"Int8", n>>
Int32(n) == <<"Int32", n>>
Strings(list) == <<"Slice", [code |-> TypeCode.String, elements |-> list]>>

\* The hashtable of foo() in hashtable_param.py: one number, two keys.
TwoKeys == <<"Hashtable", << <<Int8(4), Text>>, <<Int32(4), NilValue>> >> >>
Nested == <<"Hashtable", << <<String(<<>>), TwoKeys>>,
                            <<Text, <<"ObjectSlice", <<Int32(-7), <<"Boolean", TRUE>>, Strings(<<>>)>> >> >> >> >>
Numbers == <<"ObjectSlice", <<Int8(0), Int8(255), Int32(-1), Int32(65536), <<"Int64", -300>>,
                              <<"Float32", <<63, 128, 0, 0>> >>, <<"Double", <<192, 0, 0, 0, 0, 0, 0, 1>> >> >> >>
Typed == <<"Dictionary", << <<Text, Strings(<<Text, String(<<>>)>>)>>, <<String(<<1>>), Strings(<<>>)>> >> >>
Opaque == <<"Custom", [id |-> 86, data |-> <<0, 251, 240>>]>>

Param1(value) == << <<ParameterKey(245), value>> >>
Addressed(value) == << <<ParameterKey(255), Text>>, <<Address, value>>, <<Region, Strings(<<Text>>)>> >>
Success == <<0, NilValue>>
Failure == <<-1, Text>>

Requested ==
    {Operation("Operation", 253, <<>>, Param1(value)) :
        value \in {Nested, Numbers, Typed, Opaque, <<"Dictionary", <<>> >>, <<"Int8Slice", <<>> >>}}
    \cup {Operation("EncryptedOperation", 226, <<>>, params) :
        params \in {<<>>, Param1(TwoKeys), Param1(String([i \in 1 .. 8 |-> 65]))}}

Responded ==
    {Operation("EncryptedOperationResponse", code, Success, Addressed(String(<<1>>))) :
        code \in {JoinGame, CreateGame}}
    \cup {Operation("EncryptedOperationResponse", GetRegions, Success,
                    Addressed(Strings(<<String(<<1>>), String(<<2>>)>>))),
          Operation("OperationResponse", GameList, Success, <<>>),
          Operation("OperationResponse", JoinGame, Failure, <<>>),
          Operation("Event", 200, <<>>, Param1(Nested)),
          Operation("EncryptedEvent", 200, <<>>, Param1(Opaque)),
          Operation("DisconnectMessage", DiffieHellmanRequest, Failure, Param1(Numbers))}

\* The packet behind.
NextRequest == Operation("EncryptedOperation", 253, <<>>, Param1(Int8(9)))
UptimeAndTime == {<<240, 251 * 256 + 1>>}

AllSessions ==
    [way : {"requests"}, server : {"MasterServer"}, items : {<<p, NextRequest>> : p \in Requested}]
    \cup [way : {"responses"}, server : {"NameServer", "MasterServer"},
          items : {<<p>> : p \in Responded}]

PrivateKeys == [first |-> [sender |-> 3, receiver |-> 14], second |-> [sender |-> 7, receiver |-> 5]]
=============================================================================
