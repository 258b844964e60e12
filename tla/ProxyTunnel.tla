---------------------------- MODULE ProxyTunnel ----------------------------
(***************************************************************************)
(* The proxy: one main loop (run_proxy over ProxyTunnel.process) between    *)
(* the clients' sockets and one upstream connection per client, made when   *)
(* the client's first packet is to be forwarded.  A pass forwards what the  *)
(* clients sent, then what the remote server sent, then tears down the      *)
(* sessions one end of which is closed.                                     *)
(*                                                                         *)
(* The workers of PhotonQueueForProxy run in between: the receive worker    *)
(* carries out the handshake with the remote server and queues its replies, *)
(* the send worker empties _outgoing.  An exception that a worker does not  *)
(* catch ends it and leaves the connection open.  An exception in the main  *)
(* loop ends the proxy: the upstreams are closed, the clients are not.      *)
(*                                                                         *)
(* Before some replies are forwarded the loop asks the operator to press a  *)
(* key, and nothing else is done until somebody does.                      *)
(*                                                                         *)
(* Not modelled: what the client socket answers itself (Authenticate, Ping, *)
(* its own handshake) and keep-alives, but for their effect that the send   *)
(* worker of an open upstream always has something to send soon.            *)
(***************************************************************************)
EXTENDS Integers, Sequences

CONSTANTS
    Clients,      \* connections to the proxy
    Nobody,       \* nobody's turn
    MaxOps,       \* bound: operations each client sends
    MaxReplies    \* bound: replies and events the remote server sends each client

ASSUME NobodyAssumption == Nobody \notin Clients
ASSUME BoundAssumption == MaxOps \in [Clients -> Nat] /\ MaxReplies \in [Clients -> Nat]

VARIABLES
    open,         \* the client's socket is not closed
    sent,         \* operations the client sent
    inbox,        \* PhotonQueue._incoming of the client
    outbox,       \* PhotonQueue._outgoing of the client
    got,          \* replies the client received
    up,           \* _upstreams_entered: the client's upstream
    loop,         \* where the main loop stands
    back,         \* what the remote server sent and the upstream has not received
    arrived,      \* operations of the client that the remote server received
    replied,      \* replies the remote server sent
    gone          \* the remote server closed the connection

clientVars == <<open, sent, inbox, outbox, got>>
remoteVars == <<back, arrived, replied, gone>>
vars == <<clientVars, up, loop, remoteVars>>

-----------------------------------------------------------------------------
(* Values.                                                                 *)

Op == [n : Nat \ {0}, crypt : BOOLEAN]
Control(kind) == [n |-> 0, kind |-> kind]
InitRequest == Control("init")
DhRequest == Control("dh")
Outgoing(op) == [n |-> op.n, kind |-> IF op.crypt THEN "crypt" ELSE "plain"]
ToRemote == [n : {0}, kind : {"init", "dh"}] \cup [n : Nat \ {0}, kind : {"crypt", "plain"}]
FromRemote == [n : {0}, kind : {"init", "dh", "junk"}] \cup [n : Nat \ {0}, kind : {"data"}]

Upstream == [at : {"none", "open", "closed"}, keyed : BOOLEAN,
             sender : BOOLEAN, receiver : BOOLEAN,
             outgoing : Seq(ToRemote), incoming : Seq(Nat \ {0})]
\* No upstream, and one that has just been entered.
NoUpstream == [at |-> "none", keyed |-> FALSE, sender |-> TRUE, receiver |-> TRUE,
               outgoing |-> <<>>, incoming |-> <<>>]
NewUpstream == [NoUpstream EXCEPT !.at = "open", !.outgoing = <<InitRequest>>]

\* What a closed queue still has to send or to parse is lost; what it has received
\* can still be taken from it.
Shut(upstream) == [NoUpstream EXCEPT !.at = "closed", !.incoming = upstream.incoming]

Loop == [at : {"idle", "down", "up", "asking", "reap", "crashed"}, todo : SUBSET Clients,
         turn : Clients \cup {Nobody}, hand : Seq(Op)]
Phase(at, todo) == [at |-> at, todo |-> todo, turn |-> Nobody, hand |-> <<>>]

Sessions == {c \in Clients : up[c].at # "none"}

Init ==
    /\ open = [c \in Clients |-> TRUE]
    /\ sent = [c \in Clients |-> 0]
    /\ inbox = [c \in Clients |-> <<>>]
    /\ outbox = [c \in Clients |-> <<>>]
    /\ got = [c \in Clients |-> <<>>]
    /\ up = [c \in Clients |-> NoUpstream]
    /\ loop = Phase("idle", {})
    /\ back = [c \in Clients |-> <<>>]
    /\ arrived = [c \in Clients |-> <<>>]
    /\ replied = [c \in Clients |-> 0]
    /\ gone = [c \in Clients |-> FALSE]

-----------------------------------------------------------------------------
(* The clients and the workers of their sockets.                           *)

ClientSends(c) ==
    /\ open[c] /\ sent[c] < MaxOps[c]
    /\ \E crypt \in BOOLEAN :
            inbox' = [inbox EXCEPT ![c] = Append(@, [n |-> sent[c] + 1, crypt |-> crypt])]
    /\ sent' = [sent EXCEPT ![c] = @ + 1]
    /\ UNCHANGED <<open, outbox, got, up, loop, remoteVars>>

\* A client's socket is closed, by a worker or by the loop: its outgoing packets are lost.
CloseClients(whom) ==
    /\ open' = [c \in Clients |-> open[c] /\ c \notin whom]
    /\ outbox' = [c \in Clients |-> IF c \in whom THEN <<>> ELSE outbox[c]]

ClientCloses(c) ==
    /\ open[c]
    /\ CloseClients({c})
    /\ UNCHANGED <<sent, inbox, got, up, loop, remoteVars>>

\* The client's send worker.
ClientReceives(c) ==
    /\ open[c] /\ outbox[c] # <<>>
    /\ got' = [got EXCEPT ![c] = Append(@, Head(outbox[c]))]
    /\ outbox' = [outbox EXCEPT ![c] = Tail(@)]
    /\ UNCHANGED <<open, sent, inbox, up, loop, remoteVars>>

\* The connections of these upstreams are no more.
Disconnected(whom) ==
    /\ back' = [c \in Clients |-> IF c \in whom THEN <<>> ELSE back[c]]
    /\ gone' = [c \in Clients |-> gone[c] /\ c \notin whom]

-----------------------------------------------------------------------------
(* The main loop.                                                          *)

StartPass ==
    /\ loop.at = "idle"
    /\ loop' = Phase("down", {c \in Clients : open[c]})
    /\ UNCHANGED <<clientVars, up, remoteVars>>

TakeTurn(c) ==
    /\ loop.at \in {"down", "up"} /\ loop.turn = Nobody /\ c \in loop.todo
    /\ loop' = [loop EXCEPT !.turn = c, !.todo = @ \ {c}]
    /\ UNCHANGED <<clientVars, up, remoteVars>>

\* A client's packets are taken until there are no more, even once it is closed.
TakeOp(c) ==
    /\ loop.at = "down" /\ loop.turn = c /\ loop.hand = <<>> /\ inbox[c] # <<>>
    /\ loop' = [loop EXCEPT !.hand = <<Head(inbox[c])>>]
    /\ inbox' = [inbox EXCEPT ![c] = Tail(@)]
    /\ UNCHANGED <<open, sent, outbox, got, up, remoteVars>>

\* PhotonQueueUpstream.__enter__: the InitRequest is the first thing in its queue.
Connect(c) ==
    /\ loop.turn = c /\ loop.hand # <<>> /\ up[c].at = "none"
    /\ up' = [up EXCEPT ![c] = NewUpstream]
    /\ UNCHANGED <<clientVars, loop, remoteVars>>

\* Mutant: a client whose upstream cannot be reached is left connected.
ConnectFailsQuietly(c) ==
    /\ loop.turn = c /\ loop.hand # <<>> /\ up[c].at = "none"
    /\ loop' = [loop EXCEPT !.hand = <<>>]
    /\ UNCHANGED <<clientVars, up, remoteVars>>

\* The remote server cannot be reached: the client is disconnected, the packet dropped.
ConnectFails(c) ==
    /\ loop.turn = c /\ loop.hand # <<>> /\ up[c].at = "none"
    /\ CloseClients({c})
    /\ loop' = [loop EXCEPT !.hand = <<>>]
    /\ UNCHANGED <<sent, inbox, got, up, remoteVars>>

\* Mutant: the packet overtakes what waits for the handshake.
PushFirst(c) ==
    /\ loop.turn = c /\ loop.hand # <<>> /\ up[c].at # "none"
    /\ up' = [up EXCEPT ![c].outgoing = <<Outgoing(loop.hand[1])>> \o @]
    /\ loop' = [loop EXCEPT !.hand = <<>>]
    /\ UNCHANGED <<clientVars, remoteVars>>

Push(c) ==
    /\ loop.turn = c /\ loop.hand # <<>> /\ up[c].at # "none"
    /\ up' = [up EXCEPT ![c].outgoing = Append(@, Outgoing(loop.hand[1]))]
    /\ loop' = [loop EXCEPT !.hand = <<>>]
    /\ UNCHANGED <<clientVars, remoteVars>>

\* A reply is given to the client's queue, the upstream's socket open or not.
Forward(c) ==
    /\ outbox' = IF open[c] THEN [outbox EXCEPT ![c] = Append(@, Head(up[c].incoming))]
                            ELSE outbox
    /\ up' = [up EXCEPT ![c].incoming = Tail(@)]
    /\ UNCHANGED <<open, sent, inbox, got, remoteVars>>

ForwardReply(c) ==
    /\ loop.at = "up" /\ loop.turn = c /\ up[c].incoming # <<>>
    /\ Forward(c) /\ UNCHANGED loop

\* The tunnel is left by an exception and closes its upstreams.
Crash ==
    /\ loop' = Phase("crashed", {})
    /\ up' = [d \in Clients |-> IF d \in Sessions THEN Shut(up[d]) ELSE up[d]]
    /\ Disconnected(Sessions)
    /\ UNCHANGED <<clientVars, arrived, replied>>

\* do_hijacks raises, for want of a parameter or of a terminal to read from.
HijackFails(c) ==
    /\ loop.at = "up" /\ loop.turn = c /\ up[c].incoming # <<>>
    /\ Crash

\* do_hijacks asks for a key: "Press any key...", after the response to a CreateGame or
\* JoinGame.  The reply is off the upstream's queue by then; it stays at the head of
\* incoming here, which nobody but the loop takes from.
HijackAsks(c) ==
    /\ loop.at = "up" /\ loop.turn = c /\ up[c].incoming # <<>>
    /\ loop' = [loop EXCEPT !.at = "asking"]
    /\ UNCHANGED <<clientVars, up, remoteVars>>

\* Somebody presses it, or closes the terminal.
OperatorAnswers(c) ==
    /\ loop.at = "asking" /\ loop.turn = c /\ up[c].incoming # <<>>
    /\ Forward(c) /\ loop' = [loop EXCEPT !.at = "up"]
OperatorLeaves == loop.at = "asking" /\ Crash

EndTurn(c) ==
    /\ loop.at \in {"down", "up"} /\ loop.turn = c /\ loop.hand = <<>>
    /\ IF loop.at = "down" THEN inbox[c] = <<>> ELSE up[c].incoming = <<>>
    /\ loop' = [loop EXCEPT !.turn = Nobody]
    /\ UNCHANGED <<clientVars, up, remoteVars>>

\* Everybody has had a turn: on to the upstreams, then to the closed sessions.
NextPhase ==
    /\ loop.turn = Nobody /\ loop.todo = {}
    /\ \/ loop.at = "down" /\ loop' = Phase("up", Sessions)
       \/ loop.at = "up" /\ loop' = Phase("reap", Sessions)
       \/ loop.at = "reap" /\ loop' = Phase("idle", {})
    /\ UNCHANGED <<clientVars, up, remoteVars>>

\* Mutant: the session is forgotten and the client kept, to connect again.
ReapKeepsClient(c) ==
    LET ends == up[c].at = "closed" \/ ~open[c]
    IN  /\ loop.at = "reap" /\ c \in loop.todo
        /\ IF ends THEN up' = [up EXCEPT ![c] = NoUpstream] /\ Disconnected({c})
                   ELSE UNCHANGED <<up, back, gone>>
        /\ loop' = [loop EXCEPT !.todo = @ \ {c}]
        /\ UNCHANGED <<clientVars, arrived, replied>>

\* Mutant: only the client's end is looked at.
ReapClosedClients(c) ==
    /\ loop.at = "reap" /\ c \in loop.todo
    /\ IF ~open[c] THEN up' = [up EXCEPT ![c] = NoUpstream] /\ Disconnected({c})
                   ELSE UNCHANGED <<up, back, gone>>
    /\ loop' = [loop EXCEPT !.todo = @ \ {c}]
    /\ UNCHANGED <<clientVars, arrived, replied>>

\* _reap_closed_sessions for one session: the client of a closed upstream is
\* disconnected, the upstream of a disconnected client closed and forgotten.
Reap(c) ==
    LET ends == up[c].at = "closed" \/ ~open[c]
    IN  /\ loop.at = "reap" /\ c \in loop.todo
        /\ IF ends THEN up' = [up EXCEPT ![c] = NoUpstream] /\ Disconnected({c}) /\ CloseClients({c})
                   ELSE UNCHANGED <<open, outbox, up, back, gone>>
        /\ loop' = [loop EXCEPT !.todo = @ \ {c}]
        /\ UNCHANGED <<sent, inbox, got, arrived, replied>>

LoopStep ==
    \/ StartPass \/ NextPhase
    \/ \E c \in Clients :
        \/ TakeTurn(c) \/ TakeOp(c) \/ Connect(c) \/ ConnectFails(c) \/ Push(c)
        \/ ForwardReply(c) \/ HijackFails(c) \/ HijackAsks(c) \/ EndTurn(c) \/ Reap(c)

-----------------------------------------------------------------------------
(* The workers of an upstream.  A chunk that the receive worker still gets  *)
(* while the queue is being closed counts as received before.              *)

Sending(c) == up[c].at = "open" /\ up[c].sender
Receiving(c) == up[c].at = "open" /\ up[c].receiver

\* _recrypt needs the key of the handshake; the remote server answers a request of
\* the handshake at once.
SendUp(c) ==
    LET packet == Head(up[c].outgoing)
    IN  /\ Sending(c) /\ ~gone[c] /\ up[c].outgoing # <<>>
        /\ packet.kind = "crypt" => up[c].keyed
        /\ up' = [up EXCEPT ![c].outgoing = Tail(@)]
        /\ IF packet.kind \in {"init", "dh"}
           THEN back' = [back EXCEPT ![c] = Append(@, packet)] /\ UNCHANGED arrived
           ELSE arrived' = [arrived EXCEPT ![c] = Append(@, packet.n)] /\ UNCHANGED back
        /\ UNCHANGED <<clientVars, loop, replied, gone>>

\* "Cannot send encrypted packets without AES key!": the worker dies of it.
SenderDies(c) ==
    /\ Sending(c) /\ up[c].outgoing # <<>>
    /\ Head(up[c].outgoing).kind = "crypt" /\ ~up[c].keyed
    /\ up' = [up EXCEPT ![c].sender = FALSE, ![c].outgoing = Tail(@)]
    /\ UNCHANGED <<clientVars, loop, remoteVars>>

\* A packet, or the next keep-alive, cannot be sent.
SendFails(c) ==
    /\ Sending(c) /\ gone[c]
    /\ up' = [up EXCEPT ![c] = Shut(@)]
    /\ Disconnected({c})
    /\ UNCHANGED <<clientVars, loop, arrived, replied>>

\* Mutant: a packet that comes before the key exchange is over is not for the client.
HandleAfterKey(upstream, packet) ==
    CASE packet.kind = "init" -> [upstream EXCEPT !.outgoing = Append(@, DhRequest)]
      [] packet.kind = "dh"   -> [upstream EXCEPT !.keyed = TRUE]
      [] packet.kind = "data" -> IF upstream.keyed
                                 THEN [upstream EXCEPT !.incoming = Append(@, packet.n)] ELSE upstream
      [] packet.kind = "junk" -> [upstream EXCEPT !.receiver = FALSE]

\* One packet: the handshake goes on, or a reply is queued; what cannot be parsed
\* raises an exception that nobody catches.
Handle(upstream, packet) ==
    CASE packet.kind = "init" -> [upstream EXCEPT !.outgoing = Append(@, DhRequest)]
      [] packet.kind = "dh"   -> [upstream EXCEPT !.keyed = TRUE]
      [] packet.kind = "data" -> [upstream EXCEPT !.incoming = Append(@, packet.n)]
      [] packet.kind = "junk" -> [upstream EXCEPT !.receiver = FALSE]

ReceiveUp(c) ==
    /\ Receiving(c) /\ back[c] # <<>>
    /\ back' = [back EXCEPT ![c] = Tail(@)]
    /\ up' = [up EXCEPT ![c] = Handle(@, Head(back[c]))]
    /\ UNCHANGED <<clientVars, loop, arrived, replied, gone>>

ReceiveEnd(c) ==
    /\ Receiving(c) /\ back[c] = <<>> /\ gone[c]
    /\ up' = [up EXCEPT ![c] = Shut(@)]
    /\ Disconnected({c})
    /\ UNCHANGED <<clientVars, loop, arrived, replied>>

UpstreamStep(c) ==
    SendUp(c) \/ SenderDies(c) \/ SendFails(c) \/ ReceiveUp(c) \/ ReceiveEnd(c)

-----------------------------------------------------------------------------
(* The remote server.                                                      *)

RemoteReplies(c) ==
    /\ up[c].at = "open" /\ ~gone[c] /\ replied[c] < MaxReplies[c]
    /\ replied' = [replied EXCEPT ![c] = @ + 1]
    /\ back' = [back EXCEPT ![c] = Append(@, [n |-> replied[c] + 1, kind |-> "data"])]
    /\ UNCHANGED <<clientVars, up, loop, arrived, gone>>

\* Something the proxy's codecs do not know.
RemoteGarbles(c) ==
    /\ up[c].at = "open" /\ ~gone[c] /\ up[c].receiver
    /\ \A i \in DOMAIN back[c] : back[c][i].kind # "junk"
    /\ back' = [back EXCEPT ![c] = Append(@, Control("junk"))]
    /\ UNCHANGED <<clientVars, up, loop, arrived, replied, gone>>

RemoteCloses(c) ==
    /\ up[c].at = "open" /\ ~gone[c]
    /\ gone' = [gone EXCEPT ![c] = TRUE]
    /\ UNCHANGED <<clientVars, up, loop, back, arrived, replied>>

\* A server does not keep a connection on which nothing is sent to it any more.
RemoteTimesOut(c) == ~up[c].sender /\ RemoteCloses(c)

-----------------------------------------------------------------------------

Next ==
    \/ LoopStep \/ OperatorLeaves
    \/ \E c \in Clients :
        \/ OperatorAnswers(c)
        \/ ClientSends(c) \/ ClientCloses(c) \/ ClientReceives(c)
        \/ UpstreamStep(c)
        \/ RemoteReplies(c) \/ RemoteGarbles(c) \/ RemoteCloses(c)

Spec == Init /\ [][Next]_vars

\* The loop runs unless it waits for the operator, who need not do anything; the workers
\* run, and the remote server times out.
Fairness ==
    /\ WF_vars(LoopStep)
    /\ \A c \in Clients :
        /\ WF_vars(ClientReceives(c))
        /\ WF_vars(SendUp(c) \/ SenderDies(c) \/ SendFails(c))
        /\ WF_vars(ReceiveUp(c) \/ ReceiveEnd(c))
        /\ WF_vars(RemoteTimesOut(c))
FairSpec == Spec /\ Fairness

-----------------------------------------------------------------------------
(* Properties.                                                             *)

TypeOK ==
    /\ open \in [Clients -> BOOLEAN]
    /\ sent \in [Clients -> Nat] /\ \A c \in Clients : sent[c] <= MaxOps[c]
    /\ inbox \in [Clients -> Seq(Op)]
    /\ outbox \in [Clients -> Seq(Nat \ {0})]
    /\ got \in [Clients -> Seq(Nat \ {0})]
    /\ up \in [Clients -> Upstream]
    /\ loop \in Loop
    /\ back \in [Clients -> Seq(FromRemote)]
    /\ arrived \in [Clients -> Seq(Nat \ {0})]
    /\ replied \in [Clients -> Nat] /\ \A c \in Clients : replied[c] <= MaxReplies[c]
    /\ gone \in [Clients -> BOOLEAN]

Numbers(packets) == [i \in DOMAIN packets |-> packets[i].n]
Hand(c) == IF loop.turn = c THEN Numbers(loop.hand) ELSE <<>>

\* The numbers from 1 to n, each once and in this order; the handshake's packets, which
\* have the number 0, may stand anywhere between them.
Rises(s) == \A i, j \in DOMAIN s : i < j /\ s[i] # 0 /\ s[j] # 0 => s[i] < s[j]
AllUpTo(s, n) == Rises(s) /\ {s[i] : i \in DOMAIN s} \ {0} = 1 .. n

\* The remote server sees operations in order and once, even in a session that fails; and
\* as long as both ends are open and the send worker lives, none is lost, whatever the
\* handshake does in between: those the client sent are with the remote server, in the
\* upstream's queue, in the loop's hand or in the inbox.
OpsAccounted ==
    \A c \in Clients :
        /\ Rises(arrived[c])
        /\ open[c] /\ up[c].at # "closed" /\ up[c].sender =>
                AllUpTo(arrived[c] \o Numbers(up[c].outgoing) \o Hand(c) \o Numbers(inbox[c]), sent[c])

\* The client gets the replies in order and without a gap; as long as both ends are open,
\* all of them are with the client, in its outbox, with the upstream or on the way to a
\* receive worker that may have died.
RepliesAccounted ==
    \A c \in Clients :
        /\ \A i \in DOMAIN got[c] : got[c][i] = i
        /\ open[c] /\ up[c].at = "open" =>
                AllUpTo(got[c] \o outbox[c] \o up[c].incoming \o Numbers(back[c]), replied[c])

\* "A dropped upstream can't be transparently reconnected": nobody is served by a
\* second upstream once it has exchanged anything with a first one.
NoReconnect ==
    [][\A c \in Clients : up[c].at = "none" /\ up'[c].at = "open" =>
            arrived[c] = <<>> /\ got[c] = <<>> /\ replied[c] = 0]_vars

Crashed == loop.at = "crashed"

\* The operator answers each time, sooner or later.
OperatorAttends == []<>(loop.at # "asking")

\* "Tear down both ends of a session once either end has closed", as long as the loop
\* runs and the operator attends to it.
EndsTogether ==
    OperatorAttends =>
        \A c \in Clients :
            up[c].at = "closed" \/ (up[c].at = "open" /\ ~open[c])
                ~> (up[c].at = "none" /\ ~open[c]) \/ Crashed

\* An operation reaches the remote server or its client is told by being disconnected,
\* even when the send worker dies of an encrypted operation that overtakes the
\* handshake; unless the receive worker has died as well, or the loop, or the operator
\* keeps the loop waiting for good.
OpsForwarded ==
    OperatorAttends =>
        \A c \in Clients :
            sent[c] > Len(arrived[c])
                ~> \/ sent[c] = Len(arrived[c]) \/ ~open[c]
                   \/ ~up[c].receiver \/ Crashed
=============================================================================
