---------------------------- MODULE PhotonQueue ----------------------------
(***************************************************************************)
(* One connection's PhotonQueue: the receive worker with its stream        *)
(* parser, the send worker, the server's keep-alive thread that pings a    *)
(* quiet client and closes a dead one, and the client at the other end of  *)
(* the TCP stream.                                                         *)
(*                                                                         *)
(* A keep-alive request and a keep-alive response differ on the wire only  *)
(* in their length (5 and 9 bytes), so the parser has to be told which one *)
(* to expect: _keepalive_ping_outstanding.                                 *)
(*                                                                         *)
(* The stream is a sequence of cells.  An item is two cells: the five      *)
(* bytes, or fewer, that already look like a keep-alive request or carry   *)
(* the format byte, and the rest.  A chunk received may end inside an      *)
(* item.  Time is in ticks, one round of the keep-alive thread each; ages  *)
(* stop just above the threshold the code compares them with.              *)
(***************************************************************************)
EXTENDS Integers, Sequences

CONSTANTS
    Soft,          \* _keep_alive_soft_timeout, in ticks
    Hard,          \* _keep_alive_hard_timeout, in ticks
    Habits,        \* the ways a client may deal with keep-alive packets
    MaxData,       \* bound: data packets the client sends
    MaxWire,       \* bound: cells on their way to the server
    MaxTorn        \* bound: cells the parser takes for one overlong packet

ASSUME TimeoutAssumption == Soft \in Nat \ {0} /\ Hard \in Nat /\ Soft < Hard
\* The ticks in which a client answers a ping; whether it sends requests of its own.
ASSUME HabitsAssumption == Habits \subseteq [within : Nat, pings : BOOLEAN]
ASSUME BoundAssumption == MaxData \in Nat /\ MaxWire \in Nat /\ MaxTorn \in Nat

VARIABLES
    wire,         \* cells sent by the client and not received yet
    sent,         \* data packets sent by the client
    asked,        \* ages of the pings the client has yet to answer
    silent,       \* the client has stopped sending anything
    habit,        \* which of Habits the client has
    buffer,       \* PhotonStreamParser.buffer
    recv,         \* the receive worker: waiting for data, or in the parse loop
    expect,       \* expect_responses of that parse loop
    delivered,    \* data packets put into _incoming
    outstanding,  \* _keepalive_ping_outstanding
    idle,         \* age of _last_keep_alive
    pingAge,      \* age of _last_keep_alive_ping
    keeper,       \* the keep-alive thread in check_keep_alive
    checked,      \* its round for this tick is over
    owed,         \* pings in _outgoing_high
    closedBy      \* _last_close_reason, or "none" while the socket is open

clientVars == <<wire, sent, asked, silent, habit>>
recvVars == <<buffer, recv, expect, delivered>>
keeperVars == <<pingAge, keeper, checked>>
vars == <<clientVars, recvVars, keeperVars, outstanding, idle, owed, closedBy>>

Cell == [kind : {"req", "rsp"}, part : {1, 2}, n : {0}]
          \cup [kind : {"dat"}, part : {1, 2}, n : 1 .. MaxData]
Item(kind, n) == <<[kind |-> kind, part |-> 1, n |-> n], [kind |-> kind, part |-> 2, n |-> n]>>

Open == closedBy = "none"
Older(age, limit) == IF age > limit THEN age ELSE age + 1

Init ==
    /\ wire = <<>> /\ sent = 0 /\ asked = <<>> /\ silent = FALSE
    /\ habit \in Habits
    /\ buffer = <<>> /\ recv = "waiting" /\ expect = FALSE /\ delivered = <<>>
    /\ outstanding = FALSE
    /\ idle = 0
    /\ pingAge = Soft + 1            \* _last_keep_alive_ping = 0.0
    /\ keeper = "idle" /\ checked = FALSE
    /\ owed = 0
    /\ closedBy = "none"

-----------------------------------------------------------------------------
(* The client.                                                             *)

ClientSends(item) ==
    /\ Open /\ ~silent
    /\ Len(wire) + 2 <= MaxWire
    /\ wire' = wire \o item

ClientSendsData ==
    /\ sent < MaxData
    /\ ClientSends(Item("dat", sent + 1))
    /\ sent' = sent + 1
    /\ UNCHANGED <<asked, silent, habit, recvVars, keeperVars, outstanding, idle, owed, closedBy>>

ClientPing ==
    /\ habit.pings
    /\ ClientSends(Item("req", 0))
    /\ UNCHANGED <<sent, asked, silent, habit, recvVars, keeperVars, outstanding, idle, owed, closedBy>>

ClientAnswers ==
    /\ asked # <<>>
    /\ ClientSends(Item("rsp", 0))
    /\ asked' = Tail(asked)
    /\ UNCHANGED <<sent, silent, habit, recvVars, keeperVars, outstanding, idle, owed, closedBy>>

ClientFallsSilent ==
    /\ ~silent
    /\ silent' = TRUE
    /\ asked' = <<>>
    /\ UNCHANGED <<wire, sent, habit, recvVars, keeperVars, outstanding, idle, owed, closedBy>>

-----------------------------------------------------------------------------
(* The receive worker.                                                     *)

\* Mutant: only keep-alive requests count as a sign of life.
ReceiveWithoutRefresh ==
    /\ recv = "waiting" /\ Open
    /\ \E k \in 1 .. Len(wire) :
            /\ buffer' = buffer \o SubSeq(wire, 1, k)
            /\ wire' = SubSeq(wire, k + 1, Len(wire))
    /\ recv' = "parsing"
    /\ expect' = outstanding
    /\ UNCHANGED <<sent, asked, silent, habit, delivered, keeperVars, outstanding, idle, owed, closedBy>>

\* Mutant: every chunk gets a parser of its own.
ReceiveIntoNewParser ==
    /\ recv = "waiting" /\ Open
    /\ \E k \in 1 .. Len(wire) :
            /\ buffer' = SubSeq(wire, 1, k)
            /\ wire' = SubSeq(wire, k + 1, Len(wire))
    /\ recv' = "parsing"
    /\ expect' = outstanding
    /\ idle' = 0
    /\ UNCHANGED <<sent, asked, silent, habit, delivered, keeperVars, outstanding, owed, closedBy>>

\* recv() returns a chunk; it is fed to the parser, and the parse loop starts
\* with the flag as it is now.
Receive ==
    /\ recv = "waiting" /\ Open
    /\ \E k \in 1 .. Len(wire) :
            /\ buffer' = buffer \o SubSeq(wire, 1, k)
            /\ wire' = SubSeq(wire, k + 1, Len(wire))
    /\ recv' = "parsing"
    /\ expect' = outstanding
    /\ idle' = 0
    /\ UNCHANGED <<sent, asked, silent, habit, delivered, keeperVars, outstanding, owed, closedBy>>

\* Cells the parser takes for the packet that starts with this cell: a request
\* read with the response layout takes the beginning of the next item with it, a
\* response read with the request layout leaves its end behind.
Needed(cell) ==
    CASE cell.kind = "dat" -> 2
      [] cell.kind = "req" -> IF expect THEN 3 ELSE 2
      [] cell.kind = "rsp" -> IF expect THEN 2 ELSE 1

Torn == buffer # <<>> /\ Head(buffer).part = 2
Complete == buffer # <<>> /\ ~Torn /\ Len(buffer) >= Needed(Head(buffer))

\* Mutant: the bytes of a packet stay in the buffer once it is yielded.
ParseKeepsPacket ==
    /\ recv = "parsing" /\ Complete
    /\ IF Head(buffer).kind = "dat"
       THEN delivered' = Append(delivered, Head(buffer).n) /\ buffer' = buffer
       ELSE delivered' = delivered /\ buffer' = SubSeq(buffer, Needed(Head(buffer)) + 1, Len(buffer))
    /\ outstanding' = outstanding
    /\ UNCHANGED <<clientVars, recv, expect, keeperVars, idle, owed, closedBy>>

\* One round of the parse loop: the bytes are cut off, then the packet handled.
\* A response clears the flag, a request is a sign of life (and is answered).
ParsePacket ==
    /\ recv = "parsing" /\ Complete
    /\ buffer' = SubSeq(buffer, Needed(Head(buffer)) + 1, Len(buffer))
    /\ IF Head(buffer).kind = "dat"
       THEN delivered' = Append(delivered, Head(buffer).n) /\ UNCHANGED <<outstanding, idle>>
       ELSE /\ UNCHANGED delivered
            /\ IF expect THEN outstanding' = FALSE /\ idle' = idle
                         ELSE outstanding' = outstanding /\ idle' = 0
    /\ UNCHANGED <<clientVars, recv, expect, keeperVars, owed, closedBy>>

\* The buffer is empty, or does not hold the whole packet; the end of a torn item
\* may by accident look like the beginning of a long one, for as long as that is.
ParseWaits ==
    /\ recv = "parsing" /\ ~Complete
    /\ Torn => Len(buffer) < MaxTorn
    /\ recv' = "waiting"
    /\ UNCHANGED <<clientVars, buffer, expect, delivered, keeperVars, outstanding, idle, owed, closedBy>>

\* The stream is malformed, or the overlong packet cannot be decoded: a new parser,
\* and the buffered bytes are dropped.
ParseResyncs ==
    /\ recv = "parsing" /\ Torn
    /\ buffer' = <<>>
    /\ outstanding' = FALSE
    /\ recv' = "waiting"
    /\ UNCHANGED <<clientVars, expect, delivered, keeperVars, idle, owed, closedBy>>

\* End of stream, or a socket error in either worker.
SocketFails ==
    /\ Open
    /\ closedBy' = "socket"
    /\ UNCHANGED <<clientVars, recvVars, keeperVars, outstanding, idle, owed>>

-----------------------------------------------------------------------------
(* The keep-alive thread and the send worker.                              *)

\* Mutant: a ping counts as a sign of life.
CheckRefreshes ==
    /\ Open
    /\ keeper = "idle" /\ ~checked
    /\ IF idle > Hard THEN keeper' = "close" /\ UNCHANGED <<checked, idle>>
       ELSE IF idle > Soft /\ 2 * pingAge > Soft THEN keeper' = "mark" /\ idle' = 0 /\ UNCHANGED checked
       ELSE keeper' = "idle" /\ checked' = TRUE /\ UNCHANGED idle
    /\ UNCHANGED <<clientVars, recvVars, pingAge, outstanding, owed, closedBy>>

\* check_keep_alive decides on the idle time it reads.
Check ==
    /\ Open
    /\ keeper = "idle" /\ ~checked
    /\ IF idle > Hard THEN keeper' = "close" /\ UNCHANGED checked
       ELSE IF idle > Soft /\ 2 * pingAge > Soft THEN keeper' = "mark" /\ UNCHANGED checked
       ELSE keeper' = "idle" /\ checked' = TRUE
    /\ UNCHANGED <<clientVars, recvVars, pingAge, outstanding, idle, owed, closedBy>>

CloseIdle ==
    /\ keeper = "close"
    /\ closedBy' = IF Open THEN "idle" ELSE closedBy
    /\ idle' = 0
    /\ keeper' = "idle" /\ checked' = TRUE
    /\ UNCHANGED <<clientVars, recvVars, pingAge, outstanding, owed>>

\* Mutant: the ping is queued before it is marked as outstanding.
PingPushedFirst ==
    /\ \/ keeper = "mark" /\ keeper' = "push"
          /\ owed' = owed + 1 /\ UNCHANGED <<pingAge, checked, outstanding>>
       \/ keeper = "push" /\ keeper' = "idle" /\ checked' = TRUE
          /\ pingAge' = 0 /\ outstanding' = TRUE /\ UNCHANGED owed
    /\ UNCHANGED <<clientVars, recvVars, idle, closedBy>>

\* The ping is marked as outstanding, then queued.
Ping ==
    /\ \/ keeper = "mark" /\ keeper' = "push"
          /\ pingAge' = 0 /\ outstanding' = TRUE /\ UNCHANGED <<checked, owed>>
       \/ keeper = "push" /\ keeper' = "idle" /\ checked' = TRUE
          /\ owed' = owed + 1 /\ UNCHANGED <<pingAge, outstanding>>
    /\ UNCHANGED <<clientVars, recvVars, idle, closedBy>>

\* The send worker takes the ping from the high-priority queue.
SendPing ==
    /\ Open /\ owed > 0
    /\ owed' = owed - 1
    /\ asked' = IF silent THEN asked ELSE Append(asked, 0)
    /\ UNCHANGED <<wire, sent, silent, habit, recvVars, keeperVars, outstanding, idle, closedBy>>

-----------------------------------------------------------------------------
(* Time.  A tick is long enough for every worker to do what it has to do,  *)
(* and the client that is not silent answers as its habits say.            *)

Prompt ==
    Open => /\ checked /\ keeper = "idle" /\ owed = 0
            /\ recv = "waiting" /\ wire = <<>>

Tick ==
    /\ Prompt
    /\ \A i \in DOMAIN asked : asked[i] < habit.within
    /\ asked' = [i \in DOMAIN asked |-> asked[i] + 1]
    /\ idle' = Older(idle, Hard)
    /\ pingAge' = Older(pingAge, Soft)
    /\ checked' = FALSE
    /\ UNCHANGED <<wire, sent, silent, habit, recvVars, keeper, outstanding, owed, closedBy>>

ClientStep == ClientSendsData \/ ClientPing \/ ClientAnswers \/ ClientFallsSilent
RecvStep == Receive \/ ParsePacket \/ ParseWaits \/ ParseResyncs
KeeperStep == Check \/ Ping \/ CloseIdle

Next == ClientStep \/ RecvStep \/ KeeperStep \/ SendPing \/ SocketFails \/ Tick

Spec == Init /\ [][Next]_vars

\* The three threads run, and time passes.
FairSpec ==
    /\ Spec
    /\ WF_vars(RecvStep) /\ WF_vars(KeeperStep) /\ WF_vars(SendPing) /\ WF_vars(Tick)

-----------------------------------------------------------------------------
(* Properties.                                                             *)

TypeOK ==
    /\ wire \in Seq(Cell) /\ sent \in 0 .. MaxData
    /\ habit \in Habits
    /\ asked \in Seq(0 .. habit.within) /\ silent \in BOOLEAN
    /\ buffer \in Seq(Cell) /\ recv \in {"waiting", "parsing"} /\ expect \in BOOLEAN
    /\ delivered \in Seq(1 .. MaxData)
    /\ outstanding \in BOOLEAN
    /\ idle \in 0 .. Hard + 1 /\ pingAge \in 0 .. Soft + 1
    /\ keeper \in {"idle", "mark", "push", "close"} /\ checked \in BOOLEAN
    /\ owed \in Nat
    /\ closedBy \in {"none", "idle", "socket"}

\* A client that sends no keep-alive requests and answers each ping before the next
\* one, which is due after half the soft timeout.
AnswersInTime == ~habit.pings /\ 2 * habit.within <= Soft

\* With a client that answers in time, every keep-alive packet is parsed with the
\* layout it was sent with, so the parser never meets the middle of an item, and no
\* packet is lost: what the client sent is delivered, or in the parser's buffer, or on
\* its way, in the order it was sent.
FramingKept ==
    LET stream == buffer \o wire
        ends == {i \in DOMAIN stream : stream[i].kind = "dat" /\ stream[i].part = 2}
    IN  AnswersInTime =>
            /\ ~Torn
            /\ \A i \in DOMAIN delivered : delivered[i] = i
            /\ {stream[i].n : i \in ends} = Len(delivered) + 1 .. sent
            /\ \A i, j \in ends : i < j => stream[i].n < stream[j].n

\* "TCP ordering makes this deterministic: a response can only follow our request":
\* unless the client pings too, the framing is kept, however late its answers are.
FramingDeterministic == habit.pings \/ ~Torn

\* Even when the stream is torn and bytes are dropped, no packet is delivered
\* twice or out of order.
DeliveredInOrder ==
    \A i, j \in DOMAIN delivered : i < j => delivered[i] < delivered[j]

\* Each ping, due as soon as the client was quiet for longer than the soft timeout, is
\* answered before the hard timeout has passed as well.
AnswersBeforeHard == Soft + habit.within < Hard

\* The keep-alive test's "a client that answers keep-alives is not disconnected":
\* only a client that stopped sending is closed for being idle, even one that answers too
\* late for the framing, or whose pings make the parser drop its answers.
AnsweringClientSurvives == AnswersBeforeHard /\ closedBy = "idle" => silent

\* A client that went silent does not keep its connection for ever, in whatever
\* state it left the stream.
SilentClientClosed == silent ~> ~Open

\* What a client that answers in time sends reaches the server's incoming queue, as
\* long as the connection stays open.
DataArrives == AnswersInTime /\ Len(delivered) < sent ~> Len(delivered) = sent \/ ~Open
=============================================================================
