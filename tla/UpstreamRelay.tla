---------------------------- MODULE UpstreamRelay ----------------------------
(***************************************************************************)
(* The front door of the name server: _client_accepter takes connections    *)
(* one at a time and, when other games are to be let through, peeks at the  *)
(* first packet of each (route_or_local).  A client of Prison Architect, or *)
(* one whose first packet cannot be read, is served here; any other is      *)
(* relayed byte for byte to Photon's own name server by two threads, one    *)
(* per direction (relay_connection, _forward).                              *)
(*                                                                         *)
(* A stream is a sequence of numbered pieces; the first HeaderSize of what  *)
(* a client sends are the header of its first packet, the first PacketSize  *)
(* the whole packet.  The far end of a connection is the local server or    *)
(* the remote one.  A tick of the clock passes only while the accepter      *)
(* peeks.  How long connect and the resolver take is not modelled, nor what *)
(* the local server writes.                                                *)
(***************************************************************************)
EXTENDS Integers, Sequences

CONSTANTS
    Clients,      \* connections to the name server
    Nobody,       \* the accepter has no connection in its hands
    Hosts,        \* addresses the remote name server may resolve to
    Unresolved,   \* _upstream_target is None
    HeaderSize, PacketSize,
    Timeout,      \* INIT_PEEK_TIMEOUT, in ticks
    Window,       \* pieces a peer's buffers hold before sendall blocks
    MaxSent       \* bound: pieces each end of each connection sends

ASSUME ValuesAssumption == Nobody \notin Clients /\ Unresolved \notin Hosts
ASSUME SizeAssumption ==
    /\ HeaderSize \in Nat \ {0} /\ PacketSize \in Nat /\ PacketSize > HeaderSize
    /\ Timeout \in Nat \ {0} /\ Window \in Nat \ {0}

Ends == {"client", "far"}
ASSUME BoundAssumption == MaxSent \in [Clients -> [Ends -> Nat]]

Other(end) == IF end = "client" THEN "far" ELSE "client"

VARIABLES
    stage,      \* where the connection is
    app,        \* whose client it is, and whether its first packet is an Init request
    backlog,    \* connections the system holds for accept
    accepter,   \* what _client_accepter is doing
    target,     \* _upstream_target
    sent,       \* pieces an end sent
    arrived,    \* pieces from an end that wait in the receive buffer of this program
    hand,       \* what the thread that reads from an end has in its hands
    written,    \* pieces written to an end that it has not read
    got,        \* pieces an end read
    closed,     \* an end closed its socket
    ended       \* the thread that reads from an end has ended

door == <<stage, app, backlog, accepter, target>>
streams == <<sent, arrived, hand, written, got>>
vars == <<door, streams, closed, ended>>

Stages == {"away", "backlog", "accepted", "local", "relayed", "dropped"}
Apps == {"ours", "other", "unreadable"}
AtWork == [at : {"idle", "header", "packet", "resolve", "connect", "local"},
           with : Clients \cup {Nobody},
           waited : 0 .. Timeout,     \* ticks since the present peek began
           held : Nat]                \* ticks spent on this connection
Idle == [at |-> "idle", with |-> Nobody, waited |-> 0, held |-> 0]

Each(value) == [c \in Clients |-> [e \in Ends |-> value]]

Init ==
    /\ stage = [c \in Clients |-> "away"]
    /\ app \in [Clients -> Apps]
    /\ backlog = <<>>
    /\ accepter = Idle
    /\ target = Unresolved
    /\ sent = Each(0)
    /\ arrived = Each(<<>>) /\ hand = Each(<<>>) /\ written = Each(<<>>) /\ got = Each(<<>>)
    /\ closed = Each(FALSE) /\ ended = Each(FALSE)

-----------------------------------------------------------------------------
(* The two ends of a connection.                                           *)

Shut(c) == \E e \in Ends : ended[c][e]

Connects(c) ==
    /\ stage[c] = "away"
    /\ stage' = [stage EXCEPT ![c] = "backlog"]
    /\ backlog' = Append(backlog, c)
    /\ UNCHANGED <<app, accepter, target, streams, closed, ended>>

\* Once the sockets are shut what an end sends goes nowhere, nor is it counted.
Sends(c, e) ==
    /\ stage[c] \in (IF e = "client" THEN {"backlog", "accepted", "local", "relayed"} ELSE {"relayed"})
    /\ ~closed[c][e] /\ ~Shut(c) /\ sent[c][e] < MaxSent[c][e]
    /\ sent' = [sent EXCEPT ![c][e] = @ + 1]
    /\ arrived' = [arrived EXCEPT ![c][e] = Append(@, sent'[c][e])]
    /\ UNCHANGED <<door, hand, written, got, closed, ended>>

Reads(c, e) ==
    /\ ~closed[c][e] /\ written[c][e] # <<>>
    /\ got' = [got EXCEPT ![c][e] = Append(@, Head(written[c][e]))]
    /\ written' = [written EXCEPT ![c][e] = Tail(@)]
    /\ UNCHANGED <<door, sent, arrived, hand, closed, ended>>

\* An end that leaves reads no more.
Closes(c, e) ==
    /\ stage[c] \in (IF e = "client" THEN {"backlog", "accepted", "local", "relayed"} ELSE {"relayed"})
    /\ ~closed[c][e]
    /\ closed' = [closed EXCEPT ![c][e] = TRUE]
    /\ written' = [written EXCEPT ![c][e] = <<>>]
    /\ UNCHANGED <<door, sent, arrived, hand, got, ended>>

\* A client served here is read by PhotonQueue's receive worker.
LocalReads(c) ==
    /\ stage[c] = "local" /\ arrived[c]["client"] # <<>>
    /\ got' = [got EXCEPT ![c]["far"] = @ \o arrived[c]["client"]]
    /\ arrived' = [arrived EXCEPT ![c]["client"] = <<>>]
    /\ UNCHANGED <<door, sent, hand, written, closed, ended>>

-----------------------------------------------------------------------------
(* The accepter.                                                           *)

Accept ==
    /\ accepter.at = "idle" /\ backlog # <<>>
    /\ accepter' = [Idle EXCEPT !.at = "header", !.with = Head(backlog)]
    /\ stage' = [stage EXCEPT ![Head(backlog)] = "accepted"]
    /\ backlog' = Tail(backlog)
    /\ UNCHANGED <<app, target, streams, closed, ended>>

\* On to the next thing to do for this connection.
Proceed(to) == accepter' = [accepter EXCEPT !.at = to, !.waited = 0]

There == Len(arrived[accepter.with]["client"])
\* Mutant: the peek waits without a timeout.
PeekEndsOnClose == closed[accepter.with]["client"] /\ There = 0

\* _peek_exact gives up: no time left, or the client closed its end without a word.  A part
\* of a packet can be peeked at again and again once no more comes, until the time is up.
PeekEnds == accepter.waited = Timeout \/ (closed[accepter.with]["client"] /\ There = 0)

PeekHeader ==
    /\ accepter.at = "header"
    /\ \/ There >= HeaderSize /\ app[accepter.with] # "unreadable" /\ Proceed("packet")
       \/ There >= HeaderSize /\ app[accepter.with] = "unreadable" /\ Proceed("local")
       \/ There < HeaderSize /\ PeekEnds /\ Proceed("local")
    /\ UNCHANGED <<stage, app, backlog, target, streams, closed, ended>>

\* Mutant: the packet is taken from the socket instead of peeked at.
PeekPacketTakes ==
    /\ accepter.at = "packet"
    /\ \/ There >= PacketSize /\ app[accepter.with] = "ours" /\ Proceed("local")
       \/ There >= PacketSize /\ app[accepter.with] = "other" /\ Proceed("resolve")
       \/ There < PacketSize /\ PeekEnds /\ Proceed("local")
    /\ arrived' = [arrived EXCEPT ![accepter.with]["client"] =
                    SubSeq(@, PacketSize + 1, Len(@))]
    /\ UNCHANGED <<stage, app, backlog, target, sent, hand, written, got, closed, ended>>

\* The second peek has a timeout of its own.
PeekPacket ==
    /\ accepter.at = "packet"
    /\ \/ There >= PacketSize /\ app[accepter.with] = "ours" /\ Proceed("local")
       \/ There >= PacketSize /\ app[accepter.with] = "other" /\ Proceed("resolve")
       \/ There < PacketSize /\ PeekEnds /\ Proceed("local")
    /\ UNCHANGED <<stage, app, backlog, target, streams, closed, ended>>

Peeking == accepter.at \in {"header", "packet"}

\* Mutant: the deadline is taken anew whenever there is more to see.
TickSinceNews ==
    /\ Peeking
    /\ accepter.waited < Timeout
    /\ \E waited \in {accepter.waited + 1} \cup
                     {n \in {0} : There \notin {0, HeaderSize}} :
            accepter' = [accepter EXCEPT !.waited = waited, !.held = @ + 1]
    /\ UNCHANGED <<stage, app, backlog, target, streams, closed, ended>>

Tick ==
    /\ Peeking
    /\ accepter.waited < Timeout
    /\ accepter' = [accepter EXCEPT !.waited = @ + 1, !.held = @ + 1]
    /\ UNCHANGED <<stage, app, backlog, target, streams, closed, ended>>

\* Mutant: without the hardcoded address a failed resolution is kept as well.
ResolveMayFail ==
    /\ accepter.at = "resolve"
    /\ IF target = Unresolved THEN target' \in Hosts \cup {Nobody} ELSE UNCHANGED target
    /\ Proceed("connect")
    /\ UNCHANGED <<stage, app, backlog, streams, closed, ended>>

\* get_upstream_target: once resolved, the address is kept.
Resolve ==
    /\ accepter.at = "resolve"
    /\ IF target = Unresolved THEN target' \in Hosts ELSE UNCHANGED target
    /\ Proceed("connect")
    /\ UNCHANGED <<stage, app, backlog, streams, closed, ended>>

Finish(outcome) ==
    /\ stage' = [stage EXCEPT ![accepter.with] = outcome]
    /\ accepter' = Idle
    /\ UNCHANGED <<app, backlog, target>>

Relay ==
    /\ accepter.at = "connect"
    /\ Finish("relayed")
    /\ UNCHANGED <<streams, closed, ended>>

Unreachable ==
    /\ accepter.at = "connect"
    /\ Proceed("local")
    /\ UNCHANGED <<stage, app, backlog, target, streams, closed, ended>>

ServeLocally ==
    /\ accepter.at = "local"
    /\ Finish("local")
    /\ UNCHANGED <<streams, closed, ended>>

\* The workers of the client's queue cannot be started: the socket is closed.
CannotServe ==
    /\ accepter.at = "local"
    /\ Finish("dropped")
    /\ arrived' = [arrived EXCEPT ![accepter.with]["client"] = <<>>]
    /\ UNCHANGED <<sent, hand, written, got, closed, ended>>

AccepterStep ==
    \/ Accept \/ PeekHeader \/ PeekPacket
    \/ Resolve \/ Relay \/ Unreachable \/ ServeLocally \/ CannotServe

-----------------------------------------------------------------------------
(* The thread that forwards what it reads from an end to the other end.    *)

Running(c, e) == stage[c] = "relayed" /\ ~ended[c][e]

Receive(c, e) ==
    /\ Running(c, e) /\ ~Shut(c) /\ hand[c][e] = <<>> /\ arrived[c][e] # <<>>
    /\ \E n \in 1 .. Len(arrived[c][e]) :
        /\ hand' = [hand EXCEPT ![c][e] = SubSeq(arrived[c][e], 1, n)]
        /\ arrived' = [arrived EXCEPT ![c][e] = SubSeq(@, n + 1, Len(@))]
    /\ UNCHANGED <<door, sent, written, got, closed, ended>>

\* sendall waits for room, and goes on until everything is written.
Send(c, e) ==
    LET to == Other(e)
    IN  /\ Running(c, e) /\ ~Shut(c) /\ hand[c][e] # <<>>
        /\ ~closed[c][to] /\ Len(written[c][to]) < Window
        /\ written' = [written EXCEPT ![c][to] = Append(@, Head(hand[c][e]))]
        /\ hand' = [hand EXCEPT ![c][e] = Tail(@)]
        /\ UNCHANGED <<door, sent, arrived, got, closed, ended>>

\* Both sockets are shut.  One that is closed with something unread is reset: what its
\* end has not read of what was written may be lost.
ShutBoth(c, e) ==
    /\ ended' = [ended EXCEPT ![c][e] = TRUE]
    /\ hand' = [hand EXCEPT ![c][e] = <<>>]
    /\ arrived' = [arrived EXCEPT ![c] = [x \in Ends |-> <<>>]]
    /\ \E kept \in [Ends -> 0 .. Window] :
        /\ \A x \in Ends : kept[x] <= Len(written[c][x])
        /\ \A x \in Ends : arrived[c][x] = <<>> => kept[x] = Len(written[c][x])
        /\ written' = [written EXCEPT ![c] = [x \in Ends |-> SubSeq(@[x], 1, kept[x])]]
    /\ UNCHANGED <<door, sent, got, closed>>

\* Mutant: a direction ends as soon as its sender has closed.
EndsAtOnce(c, e) ==
    /\ Running(c, e)
    /\ Shut(c) \/ closed[c][e] \/ (hand[c][e] # <<>> /\ closed[c][Other(e)])
    /\ ShutBoth(c, e)

\* Mutant: a thread that waits for more to read does not notice that the sockets are closed.
EndsUnlessWaiting(c, e) ==
    /\ Running(c, e)
    /\ \/ hand[c][e] = <<>> /\ arrived[c][e] = <<>> /\ closed[c][e]
       \/ hand[c][e] # <<>> /\ closed[c][Other(e)]
    /\ ShutBoth(c, e)

\* There is no more to read, the other end cannot be written to, or the sockets were shut.
DirectionEnds(c, e) ==
    /\ Running(c, e)
    /\ \/ Shut(c)
       \/ hand[c][e] = <<>> /\ arrived[c][e] = <<>> /\ closed[c][e]
       \/ hand[c][e] # <<>> /\ closed[c][Other(e)]
    /\ ShutBoth(c, e)

Forward(c, e) == Receive(c, e) \/ Send(c, e) \/ DirectionEnds(c, e)

-----------------------------------------------------------------------------

Next ==
    \/ AccepterStep \/ Tick
    \/ \E c \in Clients :
        \/ Connects(c) \/ LocalReads(c)
        \/ \E e \in Ends : Sends(c, e) \/ Reads(c, e) \/ Closes(c, e) \/ Forward(c, e)

Spec == Init /\ [][Next]_vars

\* The threads run, time passes, and an end reads what reaches it as long as it stays.
Fairness ==
    /\ WF_vars(AccepterStep) /\ WF_vars(Tick)
    /\ \A c \in Clients :
        /\ WF_vars(LocalReads(c))
        /\ \A e \in Ends : WF_vars(Reads(c, e)) /\ WF_vars(Forward(c, e))
FairSpec == Spec /\ Fairness

-----------------------------------------------------------------------------
(* Properties.                                                             *)

EndWise(S) == [Clients -> [Ends -> S]]

TypeOK ==
    /\ stage \in [Clients -> Stages] /\ app \in [Clients -> Apps]
    /\ backlog \in Seq(Clients) /\ accepter \in AtWork
    /\ target \in Hosts \cup {Unresolved}
    /\ sent \in EndWise(Nat)
    /\ {arrived, hand, written, got} \subseteq EndWise(Seq(Nat))
    /\ {closed, ended} \subseteq EndWise(BOOLEAN)

UpTo(n) == [i \in 1 .. n |-> i]

\* "byte-for-byte", "whichever path we choose sees the full byte stream": whoever
\* serves a client reads its stream from the first byte, without a gap and in order,
\* and so does the client; as long as nobody closed, nothing is missing.
Verbatim ==
    \A c \in Clients, e \in Ends :
        LET to == Other(e)
            here == got[c][to] \o written[c][to] \o hand[c][e] \o arrived[c][e]
        IN  /\ got[c][to] = UpTo(Len(got[c][to]))
            /\ ~Shut(c) /\ ~closed[c][to] /\ stage[c] # "dropped" => here = UpTo(sent[c][e])

\* A connection that is slow to send its first packet keeps those behind it waiting
\* for two timeouts at most.
PeekingBounded == accepter.held <= 2 * Timeout

\* Every connection is dealt with, whatever those in front of it do.
Accepted == \A c \in Clients : stage[c] = "backlog" ~> stage[c] \in {"local", "relayed", "dropped"}

\* "until either side closes": both threads of a relay end once one end has closed.
BothEnd ==
    \A c \in Clients :
        stage[c] = "relayed" /\ (\E e \in Ends : closed[c][e]) ~> \A e \in Ends : ended[c][e]

\* What an end sent before it closed reaches the other end, if that one is still there
\* and the end that closed had read everything and is sent nothing more.
LastWordsDelivered ==
    \A c \in Clients, e \in Ends :
        LET to == Other(e)
        IN  stage[c] = "relayed" /\ closed[c][e] /\ Len(got[c][e]) = sent[c][to] ~>
                Len(got[c][to]) = sent[c][e] \/ closed[c][to] \/ Len(got[c][e]) < sent[c][to]
=============================================================================
