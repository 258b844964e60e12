------------------------- MODULE ProxyTunnelProofs -------------------------
(***************************************************************************)
(* Proofs about ProxyTunnel, for any number of clients, operations and      *)
(* replies.                                                                 *)
(***************************************************************************)
EXTENDS ProxyTunnel, TLAPS

USE NobodyAssumption, BoundAssumption

-----------------------------------------------------------------------------
(* Lemmas about values.                                                    *)

LEMMA UpstreamParts ==
    ASSUME NEW u \in Upstream
    PROVE  /\ u.at \in {"none", "open", "closed"} /\ u.keyed \in BOOLEAN
           /\ u.sender \in BOOLEAN /\ u.receiver \in BOOLEAN
           /\ u.outgoing \in Seq(ToRemote) /\ u.incoming \in Seq(Nat \ {0})
BY DEF Upstream

LEMMA ChangedOutgoing ==
    ASSUME NEW u \in Upstream, NEW out \in Seq(ToRemote)
    PROVE  /\ [u EXCEPT !.outgoing = out] \in Upstream /\ [u EXCEPT !.outgoing = out].at = u.at
           /\ [u EXCEPT !.sender = FALSE, !.outgoing = out] \in Upstream
           /\ [u EXCEPT !.sender = FALSE, !.outgoing = out].at = u.at
           /\ [u EXCEPT !.at = "open", !.outgoing = out] \in Upstream
           /\ [u EXCEPT !.at = "open", !.outgoing = out].at = "open"
BY DEF Upstream

LEMMA ChangedIncoming ==
    ASSUME NEW u \in Upstream, NEW in \in Seq(Nat \ {0})
    PROVE  /\ [u EXCEPT !.incoming = in] \in Upstream /\ [u EXCEPT !.incoming = in].at = u.at
           /\ [u EXCEPT !.at = "closed", !.incoming = in] \in Upstream
           /\ [u EXCEPT !.at = "closed", !.incoming = in].at = "closed"
BY DEF Upstream

LEMMA ChangedFlag ==
    ASSUME NEW u \in Upstream
    PROVE  /\ [u EXCEPT !.keyed = TRUE] \in Upstream /\ [u EXCEPT !.keyed = TRUE].at = u.at
           /\ [u EXCEPT !.receiver = FALSE] \in Upstream /\ [u EXCEPT !.receiver = FALSE].at = u.at
BY DEF Upstream

LEMMA NewUpstreams ==
    /\ NoUpstream \in Upstream /\ NoUpstream.at = "none" /\ NoUpstream.incoming = <<>>
    /\ NewUpstream \in Upstream /\ NewUpstream.at = "open"
<1>1. NoUpstream \in Upstream /\ NoUpstream.at = "none" /\ NoUpstream.incoming = <<>>
  BY DEF NoUpstream, Upstream
<1>2. InitRequest \in ToRemote
  BY DEF InitRequest, Control, ToRemote
<1>3. <<InitRequest>> \in Seq(ToRemote) /\ <<>> \in Seq(Nat \ {0})
  BY <1>2
<1>4. NewUpstream \in Upstream /\ NewUpstream.at = "open"
  BY <1>1, <1>3, ChangedOutgoing DEF NewUpstream
<1>. QED BY <1>1, <1>4

LEMMA ShutUpstream ==
    ASSUME NEW u \in Upstream
    PROVE  Shut(u) \in Upstream /\ Shut(u).at = "closed"
<1>1. u.incoming \in Seq(Nat \ {0}) /\ <<>> \in Seq(ToRemote)
  BY UpstreamParts
<1>2. Shut(u) = [NoUpstream EXCEPT !.at = "closed", !.incoming = u.incoming]
  BY DEF Shut
<1>3. NoUpstream \in Upstream
  BY NewUpstreams
<1>. QED BY <1>1, <1>2, <1>3 DEF Upstream

LEMMA HandledPacket ==
    ASSUME NEW u \in Upstream, NEW packet \in FromRemote
    PROVE  Handle(u, packet) \in Upstream /\ Handle(u, packet).at = u.at
<1>1. /\ packet.n \in Nat /\ packet.kind \in {"init", "dh", "data", "junk"}
      /\ packet.kind = "data" => packet.n # 0
  BY DEF FromRemote
<1>2. u.outgoing \in Seq(ToRemote) /\ u.incoming \in Seq(Nat \ {0})
  BY UpstreamParts
<1>3. CASE packet.kind = "init"
  <2>1. DhRequest \in ToRemote
    BY DEF DhRequest, Control, ToRemote
  <2>2. Append(u.outgoing, DhRequest) \in Seq(ToRemote)
    BY <1>2, <2>1
  <2>3. Handle(u, packet) = [u EXCEPT !.outgoing = Append(u.outgoing, DhRequest)]
    BY <1>3 DEF Handle
  <2>. QED BY <1>2, <2>2, <2>3 DEF Upstream
<1>4. CASE packet.kind = "dh"
  BY <1>4, <1>2, ChangedFlag DEF Handle
<1>5. CASE packet.kind = "data"
  <2>1. Append(u.incoming, packet.n) \in Seq(Nat \ {0})
    BY <1>1, <1>2, <1>5
  <2>2. Handle(u, packet) = [u EXCEPT !.incoming = Append(u.incoming, packet.n)]
    BY <1>5 DEF Handle
  <2>. QED BY <1>2, <2>1, <2>2 DEF Upstream
<1>6. CASE packet.kind = "junk"
  BY <1>6, <1>2, ChangedFlag DEF Handle
<1>. QED BY <1>1, <1>3, <1>4, <1>5, <1>6

LEMMA LoopParts ==
    ASSUME NEW l \in Loop
    PROVE  /\ l.at \in {"idle", "down", "up", "asking", "reap", "crashed"} /\ l.todo \in SUBSET Clients
           /\ l.turn \in Clients \cup {Nobody} /\ l.hand \in Seq(Op)
BY DEF Loop

LEMMA PhaseType ==
    ASSUME NEW at \in {"idle", "down", "up", "asking", "reap", "crashed"}, NEW todo \in SUBSET Clients
    PROVE  /\ Phase(at, todo) \in Loop /\ Phase(at, todo).at = at /\ Phase(at, todo).todo = todo
           /\ Phase(at, todo).turn = Nobody /\ Phase(at, todo).hand = <<>>
BY DEF Phase, Loop

LEMMA ChangedLoop ==
    ASSUME NEW l \in Loop, NEW turn \in Clients \cup {Nobody}, NEW todo \in SUBSET Clients,
           NEW hand \in Seq(Op)
    PROVE  /\ [l EXCEPT !.turn = turn, !.todo = todo] \in Loop
           /\ [l EXCEPT !.turn = turn] \in Loop
           /\ [l EXCEPT !.todo = todo] \in Loop
           /\ [l EXCEPT !.hand = hand] \in Loop
BY DEF Loop

LEMMA Ends ==
    ASSUME NEW S, NEW s \in Seq(S), NEW e \in S
    PROVE  /\ Append(s, e) \in Seq(S)
           /\ s # <<>> => Head(s) \in S /\ Head(s) = s[1] /\ Tail(s) \in Seq(S)
OBVIOUS

LEMMA Front ==
    ASSUME NEW S, NEW s \in Seq(S), s # <<>>
    PROVE  /\ Head(s) \in S /\ Head(s) = s[1] /\ 1 \in DOMAIN s /\ Tail(s) \in Seq(S)
           /\ \A i \in DOMAIN Tail(s) : i + 1 \in DOMAIN s /\ Tail(s)[i] = s[i + 1]
OBVIOUS

-----------------------------------------------------------------------------
(* The inductive invariant.                                                *)

Fresh(c) == arrived[c] = <<>> /\ got[c] = <<>> /\ outbox[c] = <<>> /\ replied[c] = 0
Over(c) == ~open[c] /\ ~(loop.at = "down" /\ (c \in loop.todo \/ loop.turn = c))

\* What NoReconnect needs to be inductive: a client without an upstream has not exchanged
\* anything, or is disconnected and not, nor going to be, the one whose packets the loop takes.
SessionsInv ==
    /\ loop.hand # <<>> => loop.at = "down"
    /\ \A c \in Clients : up[c].at = "none" => up[c].incoming = <<>> /\ (Fresh(c) \/ Over(c))

TunnelInv == TypeOK /\ SessionsInv

LEMMA TunnelInit == Init => TunnelInv
<1>. SUFFICES ASSUME Init PROVE TunnelInv
     OBVIOUS
<1>1. TypeOK
  <2>1. loop \in Loop
    BY PhaseType DEF Init
  <2>2. up \in [Clients -> Upstream]
    BY NewUpstreams DEF Init
  <2>. QED BY <2>1, <2>2 DEF Init, TypeOK
<1>2. SessionsInv
  <2>1. loop.hand = <<>>
    BY PhaseType DEF Init
  <2>2. \A c \in Clients : up[c].incoming = <<>> /\ Fresh(c)
    BY NewUpstreams DEF Init, Fresh
  <2>. QED BY <2>1, <2>2 DEF SessionsInv
<1>. QED BY <1>1, <1>2 DEF TunnelInv

\* The parts of TypeOK that a client has.
LEMMA Typed ==
    ASSUME TypeOK, NEW c \in Clients
    PROVE  /\ inbox[c] \in Seq(Op) /\ outbox[c] \in Seq(Nat \ {0}) /\ got[c] \in Seq(Nat \ {0})
           /\ up[c] \in Upstream /\ back[c] \in Seq(FromRemote) /\ arrived[c] \in Seq(Nat \ {0})
           /\ loop \in Loop
BY DEF TypeOK

\* A reply is forwarded at once or when the operator has answered, and the tunnel is left
\* while a reply is looked at or while the operator is waited for.
LoopActs == LoopStep \/ OperatorLeaves \/ \E c \in Clients : OperatorAnswers(c)
SameTurn ==
    /\ loop.at # "down" /\ loop'.at # "down" /\ loop' \in Loop
    /\ loop'.hand = loop.hand /\ loop'.turn = loop.turn
Forwarding(c) == up[c].incoming # <<>> /\ Forward(c) /\ SameTurn
Asking == UNCHANGED <<clientVars, up, remoteVars>> /\ SameTurn
Ending == loop.at # "down" /\ Crash

LEMMA LoopCases ==
    ASSUME loop \in Loop, LoopActs
    PROVE  \/ StartPass \/ NextPhase \/ Asking \/ Ending
           \/ \E c \in Clients :
                \/ TakeTurn(c) \/ TakeOp(c) \/ Connect(c) \/ ConnectFails(c) \/ Push(c)
                \/ Forwarding(c) \/ EndTurn(c) \/ Reap(c)
<1>1. [loop EXCEPT !.at = "asking"] \in Loop /\ [loop EXCEPT !.at = "up"] \in Loop
  BY DEF Loop
<1>2. ASSUME NEW at \in {"asking", "up"}
      PROVE  /\ [loop EXCEPT !.at = at].at = at /\ [loop EXCEPT !.at = at].hand = loop.hand
             /\ [loop EXCEPT !.at = at].turn = loop.turn
  BY DEF Loop
<1>3. "up" # "down" /\ "asking" # "down"
  OBVIOUS
<1>4. ASSUME NEW c \in Clients, ForwardReply(c)
      PROVE  Forwarding(c)
  <2>1. loop.at = "up" /\ loop' = loop /\ up[c].incoming # <<>> /\ Forward(c)
    BY <1>4 DEF ForwardReply
  <2>. QED BY <1>3, <2>1 DEF Forwarding, SameTurn
<1>5. ASSUME NEW c \in Clients, OperatorAnswers(c)
      PROVE  Forwarding(c)
  <2>1. /\ loop.at = "asking" /\ loop' = [loop EXCEPT !.at = "up"] /\ up[c].incoming # <<>>
        /\ Forward(c)
    BY <1>5 DEF OperatorAnswers
  <2>. QED BY <1>1, <1>2, <1>3, <2>1 DEF Forwarding, SameTurn
<1>6. ASSUME NEW c \in Clients, HijackAsks(c)
      PROVE  Asking
  <2>1. /\ loop.at = "up" /\ loop' = [loop EXCEPT !.at = "asking"]
        /\ UNCHANGED <<clientVars, up, remoteVars>>
    BY <1>6 DEF HijackAsks
  <2>. QED BY <1>1, <1>2, <1>3, <2>1 DEF Asking, SameTurn
<1>7. ASSUME NEW c \in Clients, HijackFails(c)
      PROVE  Ending
  BY <1>3, <1>7 DEF HijackFails, Ending
<1>8. ASSUME OperatorLeaves
      PROVE  Ending
  BY <1>3, <1>8 DEF OperatorLeaves, Ending
<1>. QED BY <1>4, <1>5, <1>6, <1>7, <1>8, Zenon DEF LoopActs, LoopStep

LEMMA ClosedClients ==
    ASSUME TypeOK, NEW whom, CloseClients(whom)
    PROVE  open' \in [Clients -> BOOLEAN] /\ outbox' \in [Clients -> Seq(Nat \ {0})]
BY DEF CloseClients, TypeOK

LEMMA Disconnecting ==
    ASSUME TypeOK, NEW whom, Disconnected(whom)
    PROVE  back' \in [Clients -> Seq(FromRemote)] /\ gone' \in [Clients -> BOOLEAN]
BY DEF Disconnected, TypeOK

LEMMA OutgoingType ==
    ASSUME NEW op \in Op
    PROVE  Outgoing(op) \in ToRemote
BY DEF Outgoing, Op, ToRemote

-----------------------------------------------------------------------------
(* Type correctness, one lemma for each group of actions.                  *)

LEMMA ClientTypes ==
    ASSUME TunnelInv, NEW c \in Clients, ClientSends(c) \/ ClientCloses(c) \/ ClientReceives(c)
    PROVE  TypeOK'
<1>. USE DEF TunnelInv, remoteVars
<1>1. CASE ClientSends(c)
  <2>1. PICK crypt \in BOOLEAN :
            inbox' = [inbox EXCEPT ![c] = Append(@, [n |-> sent[c] + 1, crypt |-> crypt])]
    BY <1>1 DEF ClientSends
  <2>2. sent[c] \in Nat /\ sent[c] < MaxOps[c] /\ MaxOps[c] \in Nat
    BY <1>1 DEF ClientSends, TypeOK
  <2>3. [n |-> sent[c] + 1, crypt |-> crypt] \in Op
    BY <2>2 DEF Op
  <2>4. Append(inbox[c], [n |-> sent[c] + 1, crypt |-> crypt]) \in Seq(Op)
    BY <2>3, Typed, Ends
  <2>5. inbox' \in [Clients -> Seq(Op)]
    BY <2>1, <2>4 DEF TypeOK
  <2>6. sent' = [sent EXCEPT ![c] = @ + 1]
    BY <1>1 DEF ClientSends
  <2>7. sent' \in [Clients -> Nat] /\ \A d \in Clients : sent'[d] <= MaxOps[d]
    BY <2>2, <2>6 DEF TypeOK
  <2>. QED BY <1>1, <2>5, <2>7 DEF ClientSends, TypeOK
<1>2. CASE ClientCloses(c)
  BY <1>2, ClosedClients DEF ClientCloses, TypeOK
<1>3. CASE ClientReceives(c)
  <2>1. outbox[c] \in Seq(Nat \ {0}) /\ outbox[c] # <<>> /\ got[c] \in Seq(Nat \ {0})
    BY <1>3, Typed, Zenon DEF ClientReceives
  <2>2. Append(got[c], Head(outbox[c])) \in Seq(Nat \ {0}) /\ Tail(outbox[c]) \in Seq(Nat \ {0})
    BY <2>1
  <2>. QED BY <1>3, <2>2 DEF ClientReceives, TypeOK
<1>. QED BY <1>1, <1>2, <1>3

LEMMA LoopTypes ==
    ASSUME TunnelInv, LoopActs
    PROVE  TypeOK'
<1>. USE DEF TunnelInv, clientVars, remoteVars
<1>0. loop \in Loop /\ loop.todo \in SUBSET Clients /\ <<>> \in Seq(Op)
  BY LoopParts DEF TypeOK
<1>1. CASE StartPass
  <2>1. loop' \in Loop
    BY <1>1, PhaseType DEF StartPass
  <2>. QED BY <1>1, <2>1 DEF StartPass, TypeOK
<1>2. CASE NextPhase
  <2>1. Sessions \in SUBSET Clients
    BY DEF Sessions
  <2>2. loop' \in Loop
    BY <1>2, <2>1, PhaseType DEF NextPhase
  <2>. QED BY <1>2, <2>2 DEF NextPhase, TypeOK
<1>3. ASSUME NEW c \in Clients,
             \/ TakeTurn(c) \/ TakeOp(c) \/ Connect(c) \/ ConnectFails(c) \/ Push(c)
             \/ Forwarding(c) \/ EndTurn(c) \/ Reap(c)
      PROVE  TypeOK'
  <2>0. up[c] \in Upstream /\ loop.hand \in Seq(Op)
    BY <1>0, Typed, LoopParts
  <2>1. CASE TakeTurn(c)
    <3>1. loop' = [loop EXCEPT !.turn = c, !.todo = loop.todo \ {c}]
      BY <2>1 DEF TakeTurn
    <3>2. loop' \in Loop
      BY <1>0, <3>1 DEF Loop
    <3>. QED BY <2>1, <3>2 DEF TakeTurn, TypeOK
  <2>2. CASE TakeOp(c)
    <3>1. inbox[c] \in Seq(Op) /\ inbox[c] # <<>>
      BY <2>2, Typed, Zenon DEF TakeOp
    <3>2. Head(inbox[c]) \in Op /\ Tail(inbox[c]) \in Seq(Op) /\ <<Head(inbox[c])>> \in Seq(Op)
      BY <3>1
    <3>3. loop' = [loop EXCEPT !.hand = <<Head(inbox[c])>>]
      BY <2>2 DEF TakeOp
    <3>4. loop' \in Loop
      BY <1>0, <3>2, <3>3 DEF Loop
    <3>. QED BY <2>2, <3>2, <3>4 DEF TakeOp, TypeOK
  <2>3. CASE Connect(c)
    BY <2>3, NewUpstreams DEF Connect, TypeOK
  <2>4. CASE ConnectFails(c)
    <3>1. loop' = [loop EXCEPT !.hand = <<>>] /\ CloseClients({c})
      BY <2>4 DEF ConnectFails
    <3>2. loop' \in Loop
      BY <1>0, <3>1 DEF Loop
    <3>3. open' \in [Clients -> BOOLEAN] /\ outbox' \in [Clients -> Seq(Nat \ {0})]
      BY <3>1, ClosedClients
    <3>. QED BY <2>4, <3>2, <3>3 DEF ConnectFails, TypeOK
  <2>5. CASE Push(c)
    <3>1. loop' = [loop EXCEPT !.hand = <<>>] /\ loop.hand # <<>>
      BY <2>5 DEF Push
    <3>2. loop' \in Loop
      BY <1>0, <3>1 DEF Loop
    <3>3. loop.hand[1] \in Op
      BY <2>0, <3>1
    <3>4. Append(up[c].outgoing, Outgoing(loop.hand[1])) \in Seq(ToRemote)
      BY <2>0, <3>3, OutgoingType, UpstreamParts
    <3>. DEFINE u == [up[c] EXCEPT !.outgoing = Append(up[c].outgoing, Outgoing(loop.hand[1]))]
    <3>5. u \in Upstream
      BY <2>0, <3>4 DEF Upstream
    <3>6. up' = [up EXCEPT ![c] = u]
      BY <2>5 DEF Push
    <3>7. up' \in [Clients -> Upstream]
      BY <3>5, <3>6 DEF TypeOK
    <3>. QED BY <2>5, <3>2, <3>7 DEF Push, TypeOK
  <2>6. CASE Forwarding(c)
    <3>1. up[c].incoming \in Seq(Nat \ {0}) /\ up[c].incoming # <<>>
      BY <2>0, <2>6, UpstreamParts DEF Forwarding
    <3>2. Tail(up[c].incoming) \in Seq(Nat \ {0}) /\ Head(up[c].incoming) \in Nat \ {0}
      BY <3>1
    <3>. DEFINE u == [up[c] EXCEPT !.incoming = Tail(up[c].incoming)]
    <3>3. u \in Upstream
      BY <2>0, <3>2 DEF Upstream
    <3>4. up' = [up EXCEPT ![c] = u]
      BY <2>6 DEF Forwarding, Forward, SameTurn
    <3>5. up' \in [Clients -> Upstream]
      BY <3>3, <3>4 DEF TypeOK
    <3>6. Append(outbox[c], Head(up[c].incoming)) \in Seq(Nat \ {0})
      BY <3>2, Typed, Ends
    <3>7. outbox' \in [Clients -> Seq(Nat \ {0})]
      BY <2>6, <3>6 DEF Forwarding, Forward, SameTurn, TypeOK
    <3>. QED BY <2>6, <3>5, <3>7 DEF Forwarding, Forward, SameTurn, TypeOK
  <2>7. CASE EndTurn(c)
    <3>1. loop' = [loop EXCEPT !.turn = Nobody]
      BY <2>7 DEF EndTurn
    <3>2. loop' \in Loop
      BY <1>0, <3>1 DEF Loop
    <3>. QED BY <2>7, <3>2 DEF EndTurn, TypeOK
  <2>8. CASE Reap(c)
    <3>1. loop' = [loop EXCEPT !.todo = loop.todo \ {c}]
      BY <2>8 DEF Reap
    <3>2. loop' \in Loop
      BY <1>0, <3>1 DEF Loop
    <3>3. CASE up' = [up EXCEPT ![c] = NoUpstream] /\ Disconnected({c}) /\ CloseClients({c})
      <4>1. up' \in [Clients -> Upstream]
        BY <3>3, NewUpstreams DEF TypeOK
      <4>2. back' \in [Clients -> Seq(FromRemote)] /\ gone' \in [Clients -> BOOLEAN]
        BY <3>3, Disconnecting
      <4>3. open' \in [Clients -> BOOLEAN] /\ outbox' \in [Clients -> Seq(Nat \ {0})]
        BY <3>3, ClosedClients
      <4>. QED BY <2>8, <3>2, <4>1, <4>2, <4>3 DEF Reap, TypeOK
    <3>4. CASE UNCHANGED <<open, outbox, up, back, gone>>
      BY <2>8, <3>2, <3>4 DEF Reap, TypeOK
    <3>. QED BY <2>8, <3>3, <3>4, Zenon DEF Reap
  <2>. QED BY <1>3, <2>1, <2>2, <2>3, <2>4, <2>5, <2>6, <2>7, <2>8
<1>4. CASE Asking
  BY <1>4 DEF Asking, SameTurn, TypeOK
<1>5. CASE Ending
  <2>1. loop' \in Loop
    BY <1>5, PhaseType DEF Ending, Crash
  <2>2. up' \in [Clients -> Upstream]
    BY <1>5, Typed, ShutUpstream DEF Ending, Crash
  <2>3. back' \in [Clients -> Seq(FromRemote)] /\ gone' \in [Clients -> BOOLEAN]
    BY <1>5, Disconnecting DEF Ending, Crash
  <2>. QED BY <1>5, <2>1, <2>2, <2>3 DEF Ending, Crash, TypeOK
<1>. QED BY <1>0, <1>1, <1>2, <1>3, <1>4, <1>5, LoopCases, Zenon

LEMMA UpstreamTypes ==
    ASSUME TunnelInv, NEW c \in Clients, UpstreamStep(c)
    PROVE  TypeOK'
<1>. USE DEF TunnelInv, clientVars
<1>0. /\ up[c] \in Upstream /\ up[c].outgoing \in Seq(ToRemote) /\ back[c] \in Seq(FromRemote)
      /\ arrived[c] \in Seq(Nat \ {0})
  BY Typed, UpstreamParts, Zenon
<1>1. CASE SendUp(c)
  <2>. DEFINE packet == Head(up[c].outgoing)
              u == [up[c] EXCEPT !.outgoing = Tail(up[c].outgoing)]
  <2>1. up[c].outgoing # <<>> /\ up' = [up EXCEPT ![c] = u]
    BY <1>1 DEF SendUp
  <2>2. packet \in ToRemote /\ Tail(up[c].outgoing) \in Seq(ToRemote)
    BY <1>0, <2>1
  <2>3. u \in Upstream
    BY <1>0, <2>2 DEF Upstream
  <2>4. up' \in [Clients -> Upstream]
    BY <2>1, <2>3 DEF TypeOK
  <2>5. CASE packet.kind \in {"init", "dh"}
    <3>1. back' = [back EXCEPT ![c] = Append(back[c], packet)] /\ UNCHANGED arrived
      BY <1>1, <2>5 DEF SendUp
    <3>2. packet \in FromRemote
      BY <2>2, <2>5 DEF ToRemote, FromRemote
    <3>3. Append(back[c], packet) \in Seq(FromRemote)
      BY <1>0, <3>2
    <3>. QED BY <1>1, <2>4, <3>1, <3>3 DEF SendUp, TypeOK
  <2>6. CASE packet.kind \notin {"init", "dh"}
    <3>1. arrived' = [arrived EXCEPT ![c] = Append(arrived[c], packet.n)] /\ UNCHANGED back
      BY <1>1, <2>6 DEF SendUp
    <3>2. packet.n \in Nat \ {0}
      BY <2>2, <2>6 DEF ToRemote
    <3>3. Append(arrived[c], packet.n) \in Seq(Nat \ {0})
      BY <1>0, <3>2
    <3>. QED BY <1>1, <2>4, <3>1, <3>3 DEF SendUp, TypeOK
  <2>. QED BY <2>5, <2>6
<1>2. CASE SenderDies(c)
  <2>. DEFINE u == [up[c] EXCEPT !.sender = FALSE, !.outgoing = Tail(up[c].outgoing)]
  <2>1. up[c].outgoing # <<>> /\ up' = [up EXCEPT ![c] = u]
    BY <1>0, <1>2 DEF SenderDies, TypeOK
  <2>2. Tail(up[c].outgoing) \in Seq(ToRemote)
    BY <1>0, <2>1
  <2>3. u \in Upstream
    BY <1>0, <2>2 DEF Upstream
  <2>. QED BY <1>2, <2>1, <2>3 DEF SenderDies, remoteVars, TypeOK
<1>3. CASE SendFails(c) \/ ReceiveEnd(c)
  <2>1. up' = [up EXCEPT ![c] = Shut(up[c])] /\ Disconnected({c})
    BY <1>3 DEF SendFails, ReceiveEnd
  <2>2. up' \in [Clients -> Upstream]
    BY <1>0, <2>1, ShutUpstream DEF TypeOK
  <2>3. back' \in [Clients -> Seq(FromRemote)] /\ gone' \in [Clients -> BOOLEAN]
    BY <2>1, Disconnecting
  <2>. QED BY <1>3, <2>2, <2>3 DEF SendFails, ReceiveEnd, TypeOK
<1>4. CASE ReceiveUp(c)
  <2>1. back[c] # <<>> /\ up' = [up EXCEPT ![c] = Handle(up[c], Head(back[c]))]
    BY <1>4 DEF ReceiveUp
  <2>2. Head(back[c]) \in FromRemote /\ Head(back[c]) = back[c][1] /\ 1 \in DOMAIN back[c]
        /\ Tail(back[c]) \in Seq(FromRemote)
    BY <1>0, <2>1, Front
  <2>3. Handle(up[c], Head(back[c])) \in Upstream
    BY <1>0, <2>2, HandledPacket, Zenon
  <2>. QED BY <1>4, <2>1, <2>2, <2>3 DEF ReceiveUp, TypeOK
<1>. QED BY <1>1, <1>2, <1>3, <1>4, Zenon DEF UpstreamStep

LEMMA RemoteTypes ==
    ASSUME TunnelInv, NEW c \in Clients, RemoteReplies(c) \/ RemoteGarbles(c) \/ RemoteCloses(c)
    PROVE  TypeOK'
<1>. USE DEF TunnelInv, clientVars
<1>0. back[c] \in Seq(FromRemote)
  BY Typed, Zenon
<1>1. CASE RemoteReplies(c)
  <2>1. replied[c] \in Nat /\ replied[c] < MaxReplies[c] /\ MaxReplies[c] \in Nat
    BY <1>1 DEF RemoteReplies, TypeOK
  <2>2. [n |-> replied[c] + 1, kind |-> "data"] \in FromRemote
    BY <2>1 DEF FromRemote
  <2>3. Append(back[c], [n |-> replied[c] + 1, kind |-> "data"]) \in Seq(FromRemote)
    BY <1>0, <2>2
  <2>4. back' \in [Clients -> Seq(FromRemote)]
    BY <1>1, <2>3 DEF RemoteReplies, TypeOK
  <2>5. replied' \in [Clients -> Nat] /\ \A d \in Clients : replied'[d] <= MaxReplies[d]
    BY <1>1, <2>1 DEF RemoteReplies, TypeOK
  <2>. QED BY <1>1, <2>4, <2>5 DEF RemoteReplies, TypeOK
<1>2. CASE RemoteGarbles(c)
  <2>1. Control("junk") \in FromRemote
    BY DEF Control, FromRemote
  <2>2. Append(back[c], Control("junk")) \in Seq(FromRemote)
    BY <1>0, <2>1
  <2>. QED BY <1>2, <2>2 DEF RemoteGarbles, TypeOK
<1>3. CASE RemoteCloses(c)
  BY <1>3 DEF RemoteCloses, TypeOK
<1>. QED BY <1>1, <1>2, <1>3

LEMMA TypeStep ==
    ASSUME TunnelInv, Next
    PROVE  TypeOK'
BY ClientTypes, LoopTypes, UpstreamTypes, RemoteTypes, Zenon DEF Next, LoopActs

-----------------------------------------------------------------------------
(* Who may get an upstream.                                                *)

\* The workers of an upstream and the remote server do not make one.
LEMMA UpstreamKept ==
    ASSUME TunnelInv, NEW c \in Clients, UpstreamStep(c)
    PROVE  /\ UNCHANGED <<clientVars, loop, replied>> /\ up[c].at = "open"
           /\ \A d \in Clients : d # c => up'[d] = up[d] /\ arrived'[d] = arrived[d]
           /\ up'[c].at \in {"open", "closed"}
<1>. USE DEF TunnelInv
<1>0. up[c] \in Upstream /\ back[c] \in Seq(FromRemote) /\ up \in [Clients -> Upstream]
      /\ arrived \in [Clients -> Seq(Nat \ {0})]
  BY Typed, Zenon DEF TypeOK
<1>1. CASE SendUp(c)
  <2>1. up' = [up EXCEPT ![c] = [up[c] EXCEPT !.outgoing = Tail(@)]]
    BY <1>1, Zenon DEF SendUp
  <2>2. [up[c] EXCEPT !.outgoing = Tail(@)].at = up[c].at
    BY <1>0 DEF Upstream
  <2>3. arrived' = arrived \/ \E s : arrived' = [arrived EXCEPT ![c] = s]
    BY <1>1 DEF SendUp
  <2>. QED BY <1>0, <1>1, <2>1, <2>2, <2>3 DEF SendUp, Sending
<1>2. CASE SenderDies(c)
  <2>1. up' = [up EXCEPT ![c] = [up[c] EXCEPT !.sender = FALSE, !.outgoing = Tail(up[c].outgoing)]]
    BY <1>0, <1>2 DEF SenderDies
  <2>2. [up[c] EXCEPT !.sender = FALSE, !.outgoing = Tail(up[c].outgoing)].at = up[c].at
    BY <1>0 DEF Upstream
  <2>. QED BY <1>0, <1>2, <2>1, <2>2 DEF SenderDies, Sending, remoteVars
<1>3. CASE SendFails(c) \/ ReceiveEnd(c)
  <2>1. up' = [up EXCEPT ![c] = Shut(up[c])]
    BY <1>3 DEF SendFails, ReceiveEnd
  <2>2. up'[c].at = "closed"
    BY <1>0, <2>1, ShutUpstream
  <2>. QED BY <1>0, <1>3, <2>1, <2>2 DEF SendFails, ReceiveEnd, Sending, Receiving
<1>4. CASE ReceiveUp(c)
  <2>1. back[c] # <<>> /\ up' = [up EXCEPT ![c] = Handle(up[c], Head(back[c]))]
    BY <1>4 DEF ReceiveUp
  <2>2. Head(back[c]) \in FromRemote
    BY <1>0, <2>1
  <2>3. up'[c].at = up[c].at
    BY <1>0, <2>1, <2>2, HandledPacket
  <2>. QED BY <1>0, <1>4, <2>1, <2>3 DEF ReceiveUp, Receiving
<1>. QED BY <1>1, <1>2, <1>3, <1>4, Zenon DEF UpstreamStep

\* A client's upstream is entered by the loop, with a packet of the client in its hand.
LEMMA Entered ==
    ASSUME TunnelInv, Next, NEW c \in Clients, up[c].at = "none", up'[c].at = "open"
    PROVE  loop.turn = c /\ loop.hand # <<>>
<1>. USE DEF TunnelInv
<1>0. up[c] \in Upstream /\ up \in [Clients -> Upstream]
  BY Typed, Zenon DEF TypeOK
<1>1. CASE up' = up
  BY <1>1
<1>2. ASSUME NEW d \in Clients, UpstreamStep(d)
      PROVE  FALSE
  BY <1>2, UpstreamKept
<1>3. ASSUME NEW d \in Clients, Connect(d)
      PROVE  loop.turn = c /\ loop.hand # <<>>
  BY <1>0, <1>3 DEF Connect
<1>4. ASSUME NEW d \in Clients, Push(d)
      PROVE  FALSE
  <2>1. d # c
    BY <1>4 DEF Push
  <2>. QED BY <1>0, <1>4, <2>1 DEF Push
<1>5. ASSUME NEW d \in Clients, Forwarding(d)
      PROVE  FALSE
  <2>1. d # c
    BY <1>5 DEF Forwarding, SessionsInv
  <2>. QED BY <1>0, <1>5, <2>1 DEF Forwarding, Forward
<1>6. ASSUME Ending
      PROVE  FALSE
  BY <1>0, <1>6, ShutUpstream DEF Ending, Crash, Sessions
<1>7. ASSUME NEW d \in Clients, Reap(d)
      PROVE  FALSE
  BY <1>0, <1>7, NewUpstreams DEF Reap
<1>8. ASSUME NEW d \in Clients,
             \/ ClientSends(d) \/ ClientCloses(d) \/ ClientReceives(d)
             \/ RemoteReplies(d) \/ RemoteGarbles(d) \/ RemoteCloses(d)
             \/ TakeTurn(d) \/ TakeOp(d) \/ ConnectFails(d) \/ EndTurn(d)
      PROVE  up' = up
  BY <1>8 DEF ClientSends, ClientCloses, ClientReceives, RemoteReplies, RemoteGarbles, RemoteCloses,
              TakeTurn, TakeOp, ConnectFails, EndTurn
<1>9. StartPass \/ NextPhase \/ Asking => up' = up
  BY DEF StartPass, NextPhase, Asking
<1>10. loop \in Loop
  BY DEF TypeOK
<1>. QED BY <1>1, <1>2, <1>3, <1>4, <1>5, <1>6, <1>7, <1>8, <1>9, <1>10, LoopCases,
            Zenon DEF Next, LoopActs

LEMMA SessionsStep ==
    ASSUME TunnelInv, Next
    PROVE  SessionsInv'
<1>. USE DEF TunnelInv
<1>0. /\ up \in [Clients -> Upstream] /\ loop \in Loop
      /\ open \in [Clients -> BOOLEAN] /\ outbox \in [Clients -> Seq(Nat \ {0})]
      /\ got \in [Clients -> Seq(Nat \ {0})]
  BY DEF TypeOK
<1>1. ASSUME NEW c \in Clients, ClientSends(c)
      PROVE  SessionsInv'
  BY <1>1 DEF ClientSends, remoteVars, SessionsInv, Fresh, Over
<1>2. ASSUME NEW c \in Clients, ClientCloses(c)
      PROVE  SessionsInv'
  <2>1. /\ \A d \in Clients : open'[d] => open[d]
        /\ \A d \in Clients : outbox[d] = <<>> => outbox'[d] = <<>>
    BY <1>2 DEF ClientCloses, CloseClients
  <2>. QED BY <1>2, <2>1 DEF ClientCloses, remoteVars, SessionsInv, Fresh, Over
<1>3. ASSUME NEW c \in Clients, ClientReceives(c)
      PROVE  SessionsInv'
  <2>1. \A d \in Clients : d # c => outbox'[d] = outbox[d] /\ got'[d] = got[d]
    BY <1>0, <1>3 DEF ClientReceives
  <2>2. outbox[c] # <<>> /\ UNCHANGED <<open, up, loop, arrived, replied>>
    BY <1>3 DEF ClientReceives, remoteVars
  <2>. QED BY <2>1, <2>2 DEF SessionsInv, Fresh, Over
<1>4. CASE StartPass
  <2>1. /\ loop.at = "idle" /\ loop'.at = "down" /\ loop'.hand = <<>> /\ loop'.turn = Nobody
        /\ loop'.todo = {d \in Clients : open[d]}
    BY <1>4, PhaseType DEF StartPass
  <2>. QED BY <1>4, <2>1 DEF StartPass, clientVars, remoteVars, SessionsInv, Fresh, Over
<1>5. CASE NextPhase
  <2>1. loop'.at \in {"up", "reap", "idle"} /\ loop'.hand = <<>>
    BY <1>5, PhaseType DEF NextPhase, Sessions
  <2>. QED BY <1>5, <2>1 DEF NextPhase, clientVars, remoteVars, SessionsInv, Fresh, Over
<1>6. ASSUME NEW c \in Clients, TakeTurn(c)
      PROVE  SessionsInv'
  <2>1. /\ c \in loop.todo /\ loop'.at = loop.at /\ loop'.turn = c /\ loop'.todo = loop.todo \ {c}
        /\ loop'.hand = loop.hand
    BY <1>0, <1>6 DEF TakeTurn, Loop
  <2>. QED BY <1>6, <2>1 DEF TakeTurn, clientVars, remoteVars, SessionsInv, Fresh, Over
<1>7. ASSUME NEW c \in Clients, TakeOp(c) \/ ConnectFails(c) \/ Push(c)
      PROVE  SessionsInv'
  <2>1. /\ loop'.at = loop.at /\ loop'.turn = loop.turn /\ loop'.todo = loop.todo
        /\ loop'.hand # <<>> => loop.at = "down"
    BY <1>0, <1>7 DEF TakeOp, ConnectFails, Push, Loop
  <2>2. /\ \A d \in Clients : open'[d] => open[d]
        /\ \A d \in Clients : outbox[d] = <<>> => outbox'[d] = <<>>
    BY <1>7 DEF TakeOp, ConnectFails, Push, CloseClients, clientVars
  <2>3. ASSUME NEW d \in Clients, up'[d].at = "none"
        PROVE  up'[d] = up[d]
    <3>1. CASE Push(c)
      <4>1. up[c].at # "none" /\ up' = [up EXCEPT ![c].outgoing = Append(@, Outgoing(loop.hand[1]))]
        BY <3>1, Zenon DEF Push
      <4>2. up'[c].at = up[c].at
        BY <1>0, <4>1 DEF Upstream
      <4>. QED BY <1>0, <2>3, <4>1, <4>2
    <3>. QED BY <1>7, <3>1 DEF TakeOp, ConnectFails
  <2>4. UNCHANGED <<got, arrived, replied>>
    BY <1>7 DEF TakeOp, ConnectFails, Push, clientVars, remoteVars
  <2>. QED BY <2>1, <2>2, <2>3, <2>4 DEF SessionsInv, Fresh, Over
<1>8. ASSUME NEW c \in Clients, Connect(c)
      PROVE  SessionsInv'
  <2>1. up'[c].at = "open" /\ \A d \in Clients : d # c => up'[d] = up[d]
    BY <1>0, <1>8, NewUpstreams DEF Connect
  <2>. QED BY <1>8, <2>1 DEF Connect, clientVars, remoteVars, SessionsInv, Fresh, Over
<1>9. ASSUME NEW c \in Clients, Forwarding(c)
      PROVE  SessionsInv'
  <2>1. up[c].at # "none"
    BY <1>9 DEF Forwarding, SessionsInv
  <2>2. up'[c].at = up[c].at /\ \A d \in Clients : d # c => up'[d] = up[d]
    BY <1>0, <1>9 DEF Forwarding, Forward, Upstream
  <2>3. \A d \in Clients : d # c => outbox'[d] = outbox[d]
    BY <1>0, <1>9 DEF Forwarding, Forward
  <2>4. UNCHANGED <<open, got, arrived, replied>>
    BY <1>9 DEF Forwarding, Forward, remoteVars
  <2>5. loop.at # "down" /\ loop'.at # "down" /\ loop'.hand = loop.hand
    BY <1>9 DEF Forwarding, SameTurn
  <2>. QED BY <2>1, <2>2, <2>3, <2>4, <2>5 DEF SessionsInv, Fresh, Over
<1>10. ASSUME Ending
       PROVE  SessionsInv'
  <2>1. loop'.at = "crashed" /\ loop'.hand = <<>>
    BY <1>10, PhaseType DEF Ending, Crash
  <2>2. \A d \in Clients : up'[d].at = "none" => up'[d] = up[d]
    BY <1>0, <1>10, ShutUpstream DEF Ending, Crash
  <2>3. UNCHANGED <<clientVars, arrived, replied>>
    BY <1>10 DEF Ending, Crash
  <2>. QED BY <2>1, <2>2, <2>3 DEF SessionsInv, clientVars, Fresh, Over
<1>11. ASSUME NEW c \in Clients, EndTurn(c)
       PROVE  SessionsInv'
  <2>1. loop'.at = loop.at /\ loop'.turn = Nobody /\ loop'.todo = loop.todo /\ loop'.hand = loop.hand
    BY <1>0, <1>11 DEF EndTurn, Loop
  <2>. QED BY <1>11, <2>1 DEF EndTurn, clientVars, remoteVars, SessionsInv, Fresh, Over
<1>12. ASSUME NEW c \in Clients, Reap(c)
       PROVE  SessionsInv'
  <2>1. loop.at = "reap" /\ loop'.at = "reap" /\ loop'.hand = loop.hand
    BY <1>0, <1>12 DEF Reap, Loop
  <2>2. UNCHANGED <<got, arrived, replied>>
    BY <1>12 DEF Reap
  <2>3. CASE up' = [up EXCEPT ![c] = NoUpstream] /\ CloseClients({c})
    <3>1. /\ up'[c].incoming = <<>> /\ ~open'[c]
          /\ \A d \in Clients : d # c =>
                up'[d] = up[d] /\ open'[d] = open[d] /\ outbox'[d] = outbox[d]
      BY <1>0, <2>3, NewUpstreams DEF CloseClients
    <3>. QED BY <2>1, <2>2, <3>1 DEF SessionsInv, Fresh, Over
  <2>4. CASE UNCHANGED <<open, outbox, up>>
    BY <2>1, <2>2, <2>4 DEF SessionsInv, Fresh, Over
  <2>. QED BY <1>12, <2>3, <2>4 DEF Reap
<1>13. ASSUME NEW c \in Clients, UpstreamStep(c)
       PROVE  SessionsInv'
  BY <1>13, UpstreamKept DEF SessionsInv, clientVars, Fresh, Over
<1>14. ASSUME NEW c \in Clients, RemoteReplies(c)
       PROVE  SessionsInv'
  <2>1. up[c].at = "open" /\ \A d \in Clients : d # c => replied'[d] = replied[d]
    BY <1>14 DEF RemoteReplies
  <2>2. UNCHANGED <<open, outbox, got, up, loop, arrived>>
    BY <1>14 DEF RemoteReplies, clientVars
  <2>. QED BY <2>1, <2>2 DEF SessionsInv, Fresh, Over
<1>15. ASSUME NEW c \in Clients, RemoteGarbles(c) \/ RemoteCloses(c)
       PROVE  SessionsInv'
  BY <1>15 DEF RemoteGarbles, RemoteCloses, clientVars, SessionsInv, Fresh, Over
<1>16. CASE Asking
  <2>1. loop.at # "down" /\ loop'.at # "down" /\ loop'.hand = loop.hand
    BY <1>16 DEF Asking, SameTurn
  <2>. QED BY <1>16, <2>1 DEF Asking, clientVars, remoteVars, SessionsInv, Fresh, Over
<1>. QED BY <1>0, <1>1, <1>2, <1>3, <1>4, <1>5, <1>6, <1>7, <1>8, <1>9, <1>10, <1>11, <1>12, <1>13,
            <1>14, <1>15, <1>16, LoopCases, Zenon DEF Next, LoopActs

-----------------------------------------------------------------------------
(* What the invariant says.                                                *)

LEMMA TunnelInvariant == Spec => []TunnelInv
<1>1. TunnelInv /\ [Next]_vars => TunnelInv'
  <2>1. TunnelInv /\ Next => TunnelInv'
    BY TypeStep, SessionsStep DEF TunnelInv
  <2>2. TunnelInv /\ UNCHANGED vars => TunnelInv'
    <3>. SUFFICES ASSUME TunnelInv, UNCHANGED vars PROVE TunnelInv'
      OBVIOUS
    <3>1. TypeOK'
      BY DEF TunnelInv, TypeOK, vars, clientVars, remoteVars
    <3>2. SessionsInv'
      BY DEF TunnelInv, SessionsInv, Fresh, Over, vars, clientVars, remoteVars
    <3>. QED BY <3>1, <3>2 DEF TunnelInv
  <2>. QED BY <2>1, <2>2
<1>. QED BY TunnelInit, <1>1, PTL DEF Spec

\* The queues and the upstreams keep their types: whatever the remote server sends and
\* whichever end fails first, the loop only ever has an operation of a client in its hand.
THEOREM TypeCorrect == Spec => []TypeOK
BY TunnelInvariant, PTL DEF TunnelInv

\* With any number of clients and passes of the loop, a client is never given a second
\* upstream after it has exchanged anything with a first one, although the loop goes on
\* taking the packets of a client that is closed in the middle of its turn.
THEOREM NobodyReconnects == Spec => NoReconnect
<1>1. ASSUME TunnelInv, [Next]_vars, NEW c \in Clients, up[c].at = "none", up'[c].at = "open"
      PROVE  arrived[c] = <<>> /\ got[c] = <<>> /\ replied[c] = 0
  <2>1. Next
    BY <1>1 DEF vars
  <2>2. loop.turn = c /\ loop.hand # <<>>
    BY <1>1, <2>1, Entered
  <2>. QED BY <1>1, <2>2 DEF TunnelInv, SessionsInv, Fresh, Over
<1>2. TunnelInv /\ [Next]_vars =>
        [\A c \in Clients : up[c].at = "none" /\ up'[c].at = "open" =>
            arrived[c] = <<>> /\ got[c] = <<>> /\ replied[c] = 0]_vars
  BY <1>1
<1>. QED BY <1>2, TunnelInvariant, PTL DEF Spec, NoReconnect

-----------------------------------------------------------------------------
(* Numbers in a line.                                                      *)

\* The numbers of a sequence, those of the handshake's packets left out.
Values(s) == {s[i] : i \in DOMAIN s} \ {0}
Below(s, t) == \A m \in Values(s), n \in Values(t) : m < n

LEMMA ValueAt ==
    ASSUME NEW s \in Seq(Nat), NEW n
    PROVE  /\ n \in Values(s) <=> n # 0 /\ \E i \in 1 .. Len(s) : s[i] = n
           /\ n \in Values(s) => n \in Nat /\ n > 0
<1>1. DOMAIN s = 1 .. Len(s) /\ \A i \in 1 .. Len(s) : s[i] \in Nat
  OBVIOUS
<1>2. n \in Values(s) <=> n # 0 /\ \E i \in 1 .. Len(s) : s[i] = n
  BY <1>1, Zenon DEF Values
<1>3. (\E i \in 1 .. Len(s) : s[i] = n) => n \in Nat
  BY <1>1
<1>4. n \in Nat /\ n # 0 => n > 0
  OBVIOUS
<1>. QED BY <1>2, <1>3, <1>4, Zenon

LEMMA RisesAt ==
    ASSUME NEW s \in Seq(Nat)
    PROVE  Rises(s) <=> \A i, j \in 1 .. Len(s) : i < j /\ s[i] # 0 /\ s[j] # 0 => s[i] < s[j]
<1>1. DOMAIN s = 1 .. Len(s)
  OBVIOUS
<1>. QED BY <1>1 DEF Rises

LEMMA NoValues == Values(<<>>) = {} /\ Rises(<<>>)
<1>1. <<>> \in Seq(Nat) /\ 1 .. Len(<<>>) = {}
  OBVIOUS
<1>. QED BY <1>1, ValueAt, RisesAt

\* One sequence before another.
LEMMA JoinedValues ==
    ASSUME NEW s \in Seq(Nat), NEW t \in Seq(Nat)
    PROVE  s \o t \in Seq(Nat) /\ Values(s \o t) = Values(s) \cup Values(t)
<1>1. /\ s \o t \in Seq(Nat) /\ Len(s \o t) = Len(s) + Len(t) /\ Len(s) \in Nat /\ Len(t) \in Nat
      /\ \A i \in 1 .. Len(s) : (s \o t)[i] = s[i]
      /\ \A i \in 1 .. Len(t) : (s \o t)[i + Len(s)] = t[i]
  OBVIOUS
<1>2. \A i \in 1 .. Len(s \o t) : i \in 1 .. Len(s) \/ (i - Len(s) \in 1 .. Len(t) /\ i = (i - Len(s)) + Len(s))
  BY <1>1
<1>3. \A i \in 1 .. Len(s) : i \in 1 .. Len(s \o t)
  BY <1>1
<1>4. \A i \in 1 .. Len(t) : i + Len(s) \in 1 .. Len(s \o t)
  BY <1>1
<1>5. ASSUME NEW n \in Values(s \o t)
      PROVE  n \in Values(s) \cup Values(t)
  <2>1. n # 0 /\ \E i \in 1 .. Len(s \o t) : (s \o t)[i] = n
    BY <1>1, <1>5, ValueAt
  <2>2. PICK i \in 1 .. Len(s \o t) : (s \o t)[i] = n
    BY <2>1
  <2>3. CASE i \in 1 .. Len(s)
    BY <1>1, <2>1, <2>2, <2>3, ValueAt
  <2>4. CASE i - Len(s) \in 1 .. Len(t) /\ i = (i - Len(s)) + Len(s)
    BY <1>1, <2>1, <2>2, <2>4, ValueAt
  <2>. QED BY <1>2, <2>3, <2>4
<1>6. ASSUME NEW n \in Values(s)
      PROVE  n \in Values(s \o t)
  <2>1. PICK i \in 1 .. Len(s) : s[i] = n
    BY <1>6, ValueAt
  <2>. QED BY <1>1, <1>3, <1>6, <2>1, ValueAt
<1>7. ASSUME NEW n \in Values(t)
      PROVE  n \in Values(s \o t)
  <2>1. PICK i \in 1 .. Len(t) : t[i] = n
    BY <1>7, ValueAt
  <2>. QED BY <1>1, <1>4, <1>7, <2>1, ValueAt
<1>. QED BY <1>1, <1>5, <1>6, <1>7

LEMMA JoinedRises ==
    ASSUME NEW s \in Seq(Nat), NEW t \in Seq(Nat)
    PROVE  Rises(s \o t) <=> (Rises(s) /\ Rises(t) /\ Below(s, t))
<1>1. /\ s \o t \in Seq(Nat) /\ Len(s \o t) = Len(s) + Len(t) /\ Len(s) \in Nat /\ Len(t) \in Nat
      /\ \A i \in 1 .. Len(s) : (s \o t)[i] = s[i]
      /\ \A i \in 1 .. Len(t) : (s \o t)[i + Len(s)] = t[i]
  OBVIOUS
<1>2. \A i \in 1 .. Len(s \o t) : i \in 1 .. Len(s) \/ (i - Len(s) \in 1 .. Len(t) /\ i = (i - Len(s)) + Len(s))
  BY <1>1
<1>3. \A i \in 1 .. Len(s) : i \in 1 .. Len(s \o t)
  BY <1>1
<1>4. \A i \in 1 .. Len(t) : i + Len(s) \in 1 .. Len(s \o t)
  BY <1>1
<1>5. ASSUME Rises(s \o t)
      PROVE  Rises(s) /\ Rises(t) /\ Below(s, t)
  <2>1. \A i, j \in 1 .. Len(s \o t) :
            i < j /\ (s \o t)[i] # 0 /\ (s \o t)[j] # 0 => (s \o t)[i] < (s \o t)[j]
    BY <1>1, <1>5, RisesAt
  <2>2. Rises(s)
    BY <1>1, <1>3, <2>1, RisesAt
  <2>3. Rises(t)
    <3>1. \A i, j \in 1 .. Len(t) : i < j => i + Len(s) < j + Len(s)
      BY <1>1
    <3>. QED BY <1>1, <1>4, <2>1, <3>1, RisesAt
  <2>4. ASSUME NEW m \in Values(s), NEW n \in Values(t)
        PROVE  m < n
    <3>1. PICK i \in 1 .. Len(s) : s[i] = m
      BY <2>4, ValueAt
    <3>2. PICK j \in 1 .. Len(t) : t[j] = n
      BY <2>4, ValueAt
    <3>3. i < j + Len(s)
      BY <1>1
    <3>4. m # 0 /\ n # 0
      BY <2>4, ValueAt
    <3>. QED BY <1>1, <1>3, <1>4, <2>1, <3>1, <3>2, <3>3, <3>4
  <2>. QED BY <2>2, <2>3, <2>4 DEF Below
<1>6. ASSUME Rises(s), Rises(t), Below(s, t)
      PROVE  Rises(s \o t)
  <2>1. ASSUME NEW i \in 1 .. Len(s \o t), NEW j \in 1 .. Len(s \o t),
               i < j, (s \o t)[i] # 0, (s \o t)[j] # 0
        PROVE  (s \o t)[i] < (s \o t)[j]
    <3>1. CASE i \in 1 .. Len(s) /\ j \in 1 .. Len(s)
      BY <1>1, <1>6, <2>1, <3>1, RisesAt
    <3>2. CASE i \in 1 .. Len(s) /\ j - Len(s) \in 1 .. Len(t)
      <4>1. (s \o t)[i] \in Values(s)
        BY <1>1, <2>1, <3>2, ValueAt
      <4>2. (s \o t)[j] = t[j - Len(s)]
        BY <1>1, <1>2, <3>2
      <4>3. (s \o t)[j] \in Values(t)
        BY <2>1, <3>2, <4>2, ValueAt
      <4>. QED BY <1>6, <4>1, <4>3 DEF Below
    <3>3. CASE i - Len(s) \in 1 .. Len(t) /\ j - Len(s) \in 1 .. Len(t)
      <4>1. (s \o t)[i] = t[i - Len(s)] /\ (s \o t)[j] = t[j - Len(s)] /\ i - Len(s) < j - Len(s)
        BY <1>1, <1>2, <2>1, <3>3
      <4>. QED BY <1>6, <2>1, <3>3, <4>1, RisesAt
    <3>4. ~(j \in 1 .. Len(s) /\ i - Len(s) \in 1 .. Len(t))
      BY <1>1, <2>1
    <3>. QED BY <1>2, <3>1, <3>2, <3>3, <3>4
  <2>. QED BY <1>1, <2>1, RisesAt
<1>. QED BY <1>5, <1>6

\* One number at the end of a sequence, or taken from its front.
LEMMA OneValue ==
    ASSUME NEW e \in Nat
    PROVE  <<e>> \in Seq(Nat) /\ Values(<<e>>) = {e} \ {0} /\ Rises(<<e>>)
<1>1. <<e>> \in Seq(Nat) /\ Len(<<e>>) = 1 /\ <<e>>[1] = e /\ 1 .. Len(<<e>>) = {1}
  OBVIOUS
<1>2. \A n : n \in Values(<<e>>) <=> n # 0 /\ n = e
  BY <1>1, ValueAt
<1>3. ~(1 < 1)
  OBVIOUS
<1>. QED BY <1>1, <1>2, <1>3, RisesAt

LEMMA Ended ==
    ASSUME NEW s \in Seq(Nat), NEW e \in Nat
    PROVE  /\ Append(s, e) \in Seq(Nat) /\ Values(Append(s, e)) = Values(s) \cup ({e} \ {0})
           /\ Rises(Append(s, e)) <=> (Rises(s) /\ \A m \in Values(s) : e # 0 => m < e)
<1>1. Append(s, e) = s \o <<e>>
  OBVIOUS
<1>2. Below(s, <<e>>) <=> \A m \in Values(s) : e # 0 => m < e
  BY OneValue DEF Below
<1>. QED BY <1>1, <1>2, OneValue, JoinedValues, JoinedRises, ZenonT(60)

LEMMA Started ==
    ASSUME NEW s \in Seq(Nat), s # <<>>
    PROVE  /\ Head(s) \in Nat /\ Tail(s) \in Seq(Nat)
           /\ Values(s) = Values(Tail(s)) \cup ({Head(s)} \ {0})
           /\ Rises(s) <=> (Rises(Tail(s)) /\ \A n \in Values(Tail(s)) : Head(s) < n)
<1>1. Head(s) \in Nat /\ Tail(s) \in Seq(Nat) /\ s = <<Head(s)>> \o Tail(s)
  OBVIOUS
<1>2. Below(<<Head(s)>>, Tail(s)) <=> \A n \in Values(Tail(s)) : Head(s) < n
  <2>1. Values(<<Head(s)>>) = {Head(s)} \ {0}
    BY <1>1, OneValue
  <2>2. \A n \in Values(Tail(s)) : 0 < n
    BY <1>1, ValueAt
  <2>3. CASE Head(s) = 0
    BY <2>1, <2>2, <2>3 DEF Below
  <2>4. CASE Head(s) # 0
    BY <2>1, <2>4 DEF Below
  <2>. QED BY <2>3, <2>4
<1>3. <<Head(s)>> \in Seq(Nat) /\ Values(<<Head(s)>>) = {Head(s)} \ {0} /\ Rises(<<Head(s)>>)
  BY <1>1, OneValue
<1>4. Values(<<Head(s)>> \o Tail(s)) = Values(<<Head(s)>>) \cup Values(Tail(s))
  BY <1>1, <1>3, JoinedValues
<1>5. Rises(<<Head(s)>> \o Tail(s)) <=>
        (Rises(<<Head(s)>>) /\ Rises(Tail(s)) /\ Below(<<Head(s)>>, Tail(s)))
  BY <1>1, <1>3, JoinedRises
<1>. QED BY <1>1, <1>2, <1>3, <1>4, <1>5, Zenon

\* The numbers of packets and of operations.
Packets == [n : Nat, kind : {"init", "dh", "junk", "data", "crypt", "plain"}] \cup Op

LEMMA PacketNumbers ==
    /\ ToRemote \subseteq Packets /\ FromRemote \subseteq Packets /\ Op \subseteq Packets
    /\ \A p \in Packets : p.n \in Nat
    /\ Numbers(<<>>) = <<>>
<1>1. ToRemote \subseteq Packets /\ FromRemote \subseteq Packets /\ Op \subseteq Packets
  BY DEF ToRemote, FromRemote, Op, Packets
<1>2. \A p \in Packets : p.n \in Nat
  BY DEF Op, Packets
<1>3. Numbers(<<>>) = <<>>
  BY DEF Numbers
<1>. QED BY <1>1, <1>2, <1>3

LEMMA NumbersType ==
    ASSUME NEW S, S \subseteq Packets, NEW s \in Seq(S)
    PROVE  Numbers(s) \in Seq(Nat)
<1>1. Len(s) \in Nat /\ DOMAIN s = 1 .. Len(s) /\ \A i \in 1 .. Len(s) : s[i] \in S
  OBVIOUS
<1>2. \A i \in 1 .. Len(s) : s[i].n \in Nat
  BY <1>1, PacketNumbers
<1>. QED BY <1>1, <1>2 DEF Numbers

LEMMA NumbersEnded ==
    ASSUME NEW S, S \subseteq Packets, NEW s \in Seq(S), NEW p \in S
    PROVE  Numbers(Append(s, p)) = Append(Numbers(s), p.n)
<1>1. /\ Len(s) \in Nat /\ DOMAIN s = 1 .. Len(s) /\ DOMAIN Append(s, p) = 1 .. Len(s) + 1
      /\ Append(s, p)[Len(s) + 1] = p
      /\ \A i \in 1 .. Len(s) : Append(s, p)[i] = s[i]
  OBVIOUS
<1>2. Numbers(s) \in Seq(Nat) /\ p.n \in Nat
  BY NumbersType, PacketNumbers
<1>3. Numbers(Append(s, p)) \in Seq(Nat)
  <2>1. Append(s, p) \in Seq(S)
    OBVIOUS
  <2>. QED BY <2>1, NumbersType
<1>. QED BY <1>1, <1>2, <1>3 DEF Numbers

LEMMA NumbersStarted ==
    ASSUME NEW S, S \subseteq Packets, NEW s \in Seq(S), s # <<>>
    PROVE  Numbers(s) # <<>> /\ Head(Numbers(s)) = Head(s).n /\ Numbers(Tail(s)) = Tail(Numbers(s))
<1>1. /\ Len(s) \in Nat /\ Len(s) > 0 /\ DOMAIN s = 1 .. Len(s) /\ DOMAIN Tail(s) = 1 .. Len(s) - 1
      /\ Head(s) = s[1]
      /\ \A i \in 1 .. Len(s) - 1 : Tail(s)[i] = s[i + 1]
  OBVIOUS
<1>2. Numbers(s) \in Seq(Nat) /\ Numbers(Tail(s)) \in Seq(Nat)
  <2>1. Tail(s) \in Seq(S)
    OBVIOUS
  <2>. QED BY <2>1, NumbersType
<1>. QED BY <1>1, <1>2 DEF Numbers

\* Four queues one behind the other: the numbers of the line rise, none is above n.
All(s, t, u, v) == Values(s) \cup Values(t) \cup Values(u) \cup Values(v)
InLine(s, t, u, v, n) ==
    /\ Rises(s) /\ Rises(t) /\ Rises(u) /\ Rises(v)
    /\ Below(s, t) /\ Below(s, u) /\ Below(s, v) /\ Below(t, u) /\ Below(t, v) /\ Below(u, v)
    /\ \A m \in All(s, t, u, v) : m <= n

LEMMA WholeLine ==
    ASSUME NEW s \in Seq(Nat), NEW t \in Seq(Nat), NEW u \in Seq(Nat), NEW v \in Seq(Nat),
           NEW n \in Nat, InLine(s, t, u, v, n), 1 .. n \subseteq All(s, t, u, v)
    PROVE  AllUpTo(s \o t \o u \o v, n)
<1>1. s \o t \in Seq(Nat) /\ Values(s \o t) = Values(s) \cup Values(t)
  BY JoinedValues
<1>2. s \o t \o u \in Seq(Nat) /\ Values(s \o t \o u) = Values(s \o t) \cup Values(u)
  BY <1>1, JoinedValues
<1>3. s \o t \o u \o v \in Seq(Nat) /\ Values(s \o t \o u \o v) = Values(s \o t \o u) \cup Values(v)
  BY <1>2, JoinedValues
<1>4. Rises(s \o t)
  BY JoinedRises DEF InLine
<1>5. Below(s \o t, u) /\ Below(s \o t \o u, v)
  BY <1>1, <1>2 DEF InLine, Below
<1>6. Rises(s \o t \o u)
  BY <1>1, <1>4, <1>5, JoinedRises DEF InLine
<1>7. Rises(s \o t \o u \o v)
  BY <1>2, <1>5, <1>6, JoinedRises DEF InLine
<1>8. Values(s \o t \o u \o v) = All(s, t, u, v)
  BY <1>1, <1>2, <1>3 DEF All
<1>9. All(s, t, u, v) \subseteq 1 .. n
  <2>1. \A m \in All(s, t, u, v) : m \in Nat /\ m > 0
    BY ValueAt DEF All
  <2>. QED BY <2>1 DEF InLine
<1>. QED BY <1>7, <1>8, <1>9 DEF AllUpTo, Values

\* What is taken out of the line, or put into it without a number, leaves it in order.
Thinner(s, t) == Values(s) \subseteq Values(t) /\ (Rises(t) => Rises(s))

LEMMA Thinned ==
    ASSUME NEW s, NEW t, NEW u, NEW v, NEW n, InLine(s, t, u, v, n),
           NEW s1, NEW t1, NEW u1, NEW v1,
           Thinner(s1, s), Thinner(t1, t), Thinner(u1, u), Thinner(v1, v)
    PROVE  InLine(s1, t1, u1, v1, n)
<1>1. /\ Values(s1) \subseteq Values(s) /\ Values(t1) \subseteq Values(t)
      /\ Values(u1) \subseteq Values(u) /\ Values(v1) \subseteq Values(v)
  BY DEF Thinner
<1>2. Rises(s1) /\ Rises(t1) /\ Rises(u1) /\ Rises(v1)
  BY DEF Thinner, InLine
<1>. QED BY <1>1, <1>2 DEF InLine, Below, All

LEMMA ThinnerParts ==
    ASSUME NEW s \in Seq(Nat)
    PROVE  /\ Thinner(s, s) /\ Thinner(<<>>, s) /\ Thinner(Append(s, 0), s)
           /\ s # <<>> => Thinner(Tail(s), s)
BY NoValues, Ended, Started DEF Thinner

\* The front of a queue moves to the end of the one before it.
Alike(s, t, u, v, s1, t1, u1, v1) ==
    /\ All(s1, t1, u1, v1) = All(s, t, u, v)
    /\ \A n : InLine(s, t, u, v, n) => InLine(s1, t1, u1, v1, n)

LEMMA MovedFirst ==
    ASSUME NEW s \in Seq(Nat), NEW t \in Seq(Nat), NEW u \in Seq(Nat), NEW v \in Seq(Nat),
           t # <<>>
    PROVE  Alike(s, t, u, v, Append(s, Head(t)), Tail(t), u, v)
<1>1. /\ Head(t) \in Nat /\ Values(t) = Values(Tail(t)) \cup ({Head(t)} \ {0})
      /\ Rises(t) <=> (Rises(Tail(t)) /\ \A m \in Values(Tail(t)) : Head(t) < m)
  BY Started
<1>2. /\ Values(Append(s, Head(t))) = Values(s) \cup ({Head(t)} \ {0})
      /\ Rises(Append(s, Head(t))) <=> (Rises(s) /\ \A m \in Values(s) : Head(t) # 0 => m < Head(t))
  BY <1>1, Ended
<1>3. All(Append(s, Head(t)), Tail(t), u, v) = All(s, t, u, v)
  BY <1>1, <1>2 DEF All
<1>4. ASSUME NEW n, InLine(s, t, u, v, n)
      PROVE  InLine(Append(s, Head(t)), Tail(t), u, v, n)
  BY <1>1, <1>2, <1>3, <1>4 DEF InLine, Below
<1>. QED BY <1>3, <1>4 DEF Alike

LEMMA MovedSecond ==
    ASSUME NEW s \in Seq(Nat), NEW t \in Seq(Nat), NEW u \in Seq(Nat), NEW v \in Seq(Nat),
           u # <<>>
    PROVE  Alike(s, t, u, v, s, Append(t, Head(u)), Tail(u), v)
<1>1. /\ Head(u) \in Nat /\ Values(u) = Values(Tail(u)) \cup ({Head(u)} \ {0})
      /\ Rises(u) <=> (Rises(Tail(u)) /\ \A m \in Values(Tail(u)) : Head(u) < m)
  BY Started
<1>2. /\ Values(Append(t, Head(u))) = Values(t) \cup ({Head(u)} \ {0})
      /\ Rises(Append(t, Head(u))) <=> (Rises(t) /\ \A m \in Values(t) : Head(u) # 0 => m < Head(u))
  BY <1>1, Ended
<1>3. All(s, Append(t, Head(u)), Tail(u), v) = All(s, t, u, v)
  BY <1>1, <1>2 DEF All
<1>4. ASSUME NEW n, InLine(s, t, u, v, n)
      PROVE  InLine(s, Append(t, Head(u)), Tail(u), v, n)
  BY <1>1, <1>2, <1>3, <1>4 DEF InLine, Below
<1>. QED BY <1>3, <1>4 DEF Alike

LEMMA MovedThird ==
    ASSUME NEW s \in Seq(Nat), NEW t \in Seq(Nat), NEW u \in Seq(Nat), NEW v \in Seq(Nat),
           v # <<>>
    PROVE  Alike(s, t, u, v, s, t, Append(u, Head(v)), Tail(v))
<1>1. /\ Head(v) \in Nat /\ Values(v) = Values(Tail(v)) \cup ({Head(v)} \ {0})
      /\ Rises(v) <=> (Rises(Tail(v)) /\ \A m \in Values(Tail(v)) : Head(v) < m)
  BY Started
<1>2. /\ Values(Append(u, Head(v))) = Values(u) \cup ({Head(v)} \ {0})
      /\ Rises(Append(u, Head(v))) <=> (Rises(u) /\ \A m \in Values(u) : Head(v) # 0 => m < Head(v))
  BY <1>1, Ended
<1>3. All(s, t, Append(u, Head(v)), Tail(v)) = All(s, t, u, v)
  BY <1>1, <1>2 DEF All
<1>4. ASSUME NEW n, InLine(s, t, u, v, n)
      PROVE  InLine(s, t, Append(u, Head(v)), Tail(v), n)
  BY <1>1, <1>2, <1>3, <1>4 DEF InLine, Below
<1>. QED BY <1>3, <1>4 DEF Alike

\* A packet of the handshake, which has no number, comes or goes.
LEMMA ZeroComes ==
    ASSUME NEW s, NEW t \in Seq(Nat), NEW u, NEW v \in Seq(Nat)
    PROVE  Alike(s, t, u, v, s, Append(t, 0), u, v) /\ Alike(s, t, u, v, s, t, u, Append(v, 0))
<1>1. ASSUME NEW w \in Seq(Nat)
      PROVE  Values(Append(w, 0)) = Values(w) /\ (Rises(Append(w, 0)) <=> Rises(w))
  <2>1. 0 \in Nat
    OBVIOUS
  <2>2. /\ Values(Append(w, 0)) = Values(w) \cup ({0} \ {0})
        /\ Rises(Append(w, 0)) <=> (Rises(w) /\ \A m \in Values(w) : 0 # 0 => m < 0)
    BY <2>1, Ended
  <2>. QED BY <2>2
<1>. QED BY <1>1 DEF Alike, InLine, Below, All

LEMMA ZeroGoes ==
    ASSUME NEW s, NEW t \in Seq(Nat), NEW u, NEW v \in Seq(Nat)
    PROVE  /\ t # <<>> /\ Head(t) = 0 => Alike(s, t, u, v, s, Tail(t), u, v)
           /\ v # <<>> /\ Head(v) = 0 => Alike(s, t, u, v, s, t, u, Tail(v))
<1>1. ASSUME NEW w \in Seq(Nat), w # <<>>, Head(w) = 0
      PROVE  Values(Tail(w)) = Values(w) /\ (Rises(w) => Rises(Tail(w)))
  <2>1. /\ Values(w) = Values(Tail(w)) \cup ({Head(w)} \ {0})
        /\ Rises(w) => Rises(Tail(w))
    BY <1>1, Started
  <2>. QED BY <1>1, <2>1
<1>. QED BY <1>1 DEF Alike, InLine, Below, All

\* The next number joins the line.
LEMMA NextNumber ==
    ASSUME NEW n \in Nat
    PROVE  1 .. n + 1 = (1 .. n) \cup {n + 1}
OBVIOUS

Extended(s, t, u, v, n, w) ==
    InLine(s, t, u, w, n + 1) /\ All(s, t, u, w) = All(s, t, u, v) \cup {n + 1}

LEMMA JoinedLine ==
    ASSUME NEW s \in Seq(Nat), NEW t \in Seq(Nat), NEW u \in Seq(Nat), NEW v \in Seq(Nat),
           NEW n \in Nat, InLine(s, t, u, v, n)
    PROVE  Extended(s, t, u, v, n, Append(v, n + 1))
<1>1. /\ Values(Append(v, n + 1)) = Values(v) \cup {n + 1}
      /\ Rises(Append(v, n + 1)) <=> (Rises(v) /\ \A m \in Values(v) : m < n + 1)
  <2>1. n + 1 \in Nat /\ n + 1 # 0
    OBVIOUS
  <2>. QED BY <2>1, Ended
<1>2. \A m \in All(s, t, u, v) : m \in Nat /\ m <= n
  BY ValueAt DEF InLine, All
<1>3. \A m \in All(s, t, u, v) : m < n + 1 /\ m <= n + 1
  BY <1>2
<1>4. All(s, t, u, Append(v, n + 1)) = All(s, t, u, v) \cup {n + 1}
  BY <1>1 DEF All
<1>5. n + 1 <= n + 1
  OBVIOUS
<1>6. /\ Rises(Append(v, n + 1)) /\ Below(s, Append(v, n + 1)) /\ Below(t, Append(v, n + 1))
      /\ Below(u, Append(v, n + 1))
  BY <1>1, <1>3 DEF InLine, Below, All
<1>. QED BY <1>3, <1>4, <1>5, <1>6 DEF Extended, InLine

-----------------------------------------------------------------------------
(* Where operations and replies may be.                                    *)

\* The loop has at most one packet in its hand, of the client whose turn it is, and a
\* client without an upstream has nothing with one.
PlacesInv ==
    /\ loop.hand # <<>> => loop.turn # Nobody /\ Len(loop.hand) = 1
    /\ \A c \in Clients : up[c].at = "none" => up[c] = NoUpstream

\* A client's operations, in order, from the remote server back to the client's inbox.
OpsInLine(c) == InLine(arrived[c], Numbers(up[c].outgoing), Hand(c), Numbers(inbox[c]), sent[c])
OpsPlaces(c) == All(arrived[c], Numbers(up[c].outgoing), Hand(c), Numbers(inbox[c]))
OpsKept(c) ==
    /\ OpsInLine(c)
    /\ open[c] /\ up[c].at # "closed" /\ up[c].sender => 1 .. sent[c] \subseteq OpsPlaces(c)

\* A client's replies, in order, from the client back to the remote server; those the
\* proxy has received follow the ones the client has without a gap.
RepliesInLine(c) == InLine(got[c], outbox[c], up[c].incoming, Numbers(back[c]), replied[c])
Gapless(N) == \A n \in N : 1 .. n \subseteq N
RepliesPlaces(c) == All(got[c], outbox[c], up[c].incoming, Numbers(back[c]))
Near(c) == Values(got[c]) \cup Values(outbox[c]) \cup Values(up[c].incoming)
RepliesKept(c) ==
    /\ RepliesInLine(c)
    /\ \A i \in DOMAIN got[c] : got[c][i] = i
    /\ open[c] => Gapless(Near(c))
    /\ open[c] /\ up[c].at = "open" => 1 .. replied[c] \subseteq RepliesPlaces(c)

LineInv == TunnelInv /\ PlacesInv /\ \A c \in Clients : OpsKept(c) /\ RepliesKept(c)

LEMMA UpstreamFields ==
    ASSUME NEW u \in Upstream, NEW out, NEW in
    PROVE  /\ [u EXCEPT !.outgoing = out].outgoing = out
           /\ [u EXCEPT !.outgoing = out].incoming = u.incoming
           /\ [u EXCEPT !.outgoing = out].sender = u.sender
           /\ [u EXCEPT !.incoming = in].outgoing = u.outgoing
           /\ [u EXCEPT !.incoming = in].incoming = in
           /\ [u EXCEPT !.incoming = in].sender = u.sender
           /\ [u EXCEPT !.keyed = TRUE].outgoing = u.outgoing
           /\ [u EXCEPT !.keyed = TRUE].incoming = u.incoming
           /\ [u EXCEPT !.keyed = TRUE].sender = u.sender
           /\ [u EXCEPT !.receiver = FALSE].outgoing = u.outgoing
           /\ [u EXCEPT !.receiver = FALSE].incoming = u.incoming
           /\ [u EXCEPT !.receiver = FALSE].sender = u.sender
           /\ [u EXCEPT !.sender = FALSE, !.outgoing = out].outgoing = out
           /\ [u EXCEPT !.sender = FALSE, !.outgoing = out].incoming = u.incoming
           /\ [u EXCEPT !.sender = FALSE, !.outgoing = out].sender = FALSE
BY DEF Upstream

LEMMA NewFields ==
    /\ NoUpstream.outgoing = <<>> /\ NoUpstream.incoming = <<>> /\ NoUpstream.sender = TRUE
    /\ NewUpstream.outgoing = <<InitRequest>> /\ NewUpstream.incoming = <<>>
    /\ NewUpstream.sender = TRUE /\ InitRequest.n = 0 /\ DhRequest.n = 0 /\ Control("junk").n = 0
    /\ \A u \in Upstream : Shut(u).outgoing = <<>> /\ Shut(u).incoming = u.incoming
<1>1. /\ NoUpstream.outgoing = <<>> /\ NoUpstream.incoming = <<>> /\ NoUpstream.sender = TRUE
      /\ NoUpstream \in Upstream
  BY NewUpstreams DEF NoUpstream
<1>2. /\ NewUpstream.outgoing = <<InitRequest>> /\ NewUpstream.incoming = <<>>
      /\ NewUpstream.sender = TRUE
  BY DEF NewUpstream, NoUpstream
<1>3. InitRequest.n = 0 /\ DhRequest.n = 0 /\ Control("junk").n = 0
  BY DEF InitRequest, DhRequest, Control
<1>4. \A u \in Upstream : Shut(u).outgoing = <<>> /\ Shut(u).incoming = u.incoming
  BY DEF Shut, NoUpstream
<1>. QED BY <1>1, <1>2, <1>3, <1>4

LEMMA HandledFields ==
    ASSUME NEW u \in Upstream, NEW packet \in FromRemote
    PROVE  /\ Handle(u, packet).outgoing \in {u.outgoing, Append(u.outgoing, DhRequest)}
           /\ Handle(u, packet).sender = u.sender
           /\ \/ packet.n = 0 /\ Handle(u, packet).incoming = u.incoming
              \/ packet.n # 0 /\ Handle(u, packet).incoming = Append(u.incoming, packet.n)
<1>1. \/ packet.kind \in {"init", "dh", "junk"} /\ packet.n = 0
      \/ packet.kind = "data" /\ packet.n # 0
  BY DEF FromRemote
<1>2. CASE packet.kind = "init"
  <2>1. Handle(u, packet) = [u EXCEPT !.outgoing = Append(u.outgoing, DhRequest)]
    BY <1>1, <1>2 DEF Handle
  <2>. QED BY <1>1, <1>2, <2>1, UpstreamFields
<1>3. CASE packet.kind = "dh"
  <2>1. Handle(u, packet) = [u EXCEPT !.keyed = TRUE]
    BY <1>1, <1>3 DEF Handle
  <2>. QED BY <1>1, <1>3, <2>1, UpstreamFields
<1>4. CASE packet.kind = "data"
  <2>1. Handle(u, packet) = [u EXCEPT !.incoming = Append(u.incoming, packet.n)]
    BY <1>1, <1>4 DEF Handle
  <2>. QED BY <1>1, <1>4, <2>1, UpstreamFields
<1>5. CASE packet.kind = "junk"
  <2>1. Handle(u, packet) = [u EXCEPT !.receiver = FALSE]
    BY <1>1, <1>5 DEF Handle
  <2>. QED BY <1>1, <1>5, <2>1, UpstreamFields
<1>. QED BY <1>1, <1>2, <1>3, <1>4, <1>5

LEMMA LoopFields ==
    ASSUME NEW l \in Loop, NEW turn, NEW todo, NEW hand
    PROVE  /\ [l EXCEPT !.turn = turn, !.todo = todo].turn = turn
           /\ [l EXCEPT !.turn = turn, !.todo = todo].hand = l.hand
           /\ [l EXCEPT !.turn = turn].turn = turn /\ [l EXCEPT !.turn = turn].hand = l.hand
           /\ [l EXCEPT !.todo = todo].turn = l.turn /\ [l EXCEPT !.todo = todo].hand = l.hand
           /\ [l EXCEPT !.hand = hand].turn = l.turn /\ [l EXCEPT !.hand = hand].hand = hand
BY DEF Loop

\* The queues of numbers.
LEMMA NumberTypes ==
    ASSUME TypeOK, NEW c \in Clients
    PROVE  /\ arrived[c] \in Seq(Nat) /\ Numbers(up[c].outgoing) \in Seq(Nat)
           /\ Hand(c) \in Seq(Nat) /\ Numbers(inbox[c]) \in Seq(Nat)
           /\ got[c] \in Seq(Nat) /\ outbox[c] \in Seq(Nat) /\ up[c].incoming \in Seq(Nat)
           /\ Numbers(back[c]) \in Seq(Nat) /\ sent[c] \in Nat /\ replied[c] \in Nat
<1>1. /\ inbox[c] \in Seq(Op) /\ outbox[c] \in Seq(Nat \ {0}) /\ got[c] \in Seq(Nat \ {0})
      /\ up[c] \in Upstream /\ back[c] \in Seq(FromRemote) /\ arrived[c] \in Seq(Nat \ {0})
      /\ loop \in Loop
  BY Typed
<1>2. up[c].outgoing \in Seq(ToRemote) /\ up[c].incoming \in Seq(Nat \ {0}) /\ loop.hand \in Seq(Op)
  BY <1>1, UpstreamParts, LoopParts
<1>3. \A s \in Seq(Nat \ {0}) : s \in Seq(Nat)
  OBVIOUS
<1>4. /\ Numbers(up[c].outgoing) \in Seq(Nat) /\ Numbers(inbox[c]) \in Seq(Nat)
      /\ Numbers(back[c]) \in Seq(Nat) /\ Numbers(loop.hand) \in Seq(Nat)
  BY <1>1, <1>2, PacketNumbers, NumbersType
<1>5. Hand(c) \in Seq(Nat)
  <2>1. <<>> \in Seq(Nat)
    OBVIOUS
  <2>. QED BY <1>4, <2>1 DEF Hand
<1>6. sent[c] \in Nat /\ replied[c] \in Nat
  BY DEF TypeOK
<1>. QED BY <1>1, <1>2, <1>3, <1>4, <1>5, <1>6

LEMMA LineInit == Init => LineInv
<1>. SUFFICES ASSUME Init PROVE LineInv
     OBVIOUS
<1>0. TunnelInv /\ TypeOK
  BY TunnelInit DEF TunnelInv
<1>1. loop.hand = <<>> /\ loop.turn = Nobody
  BY PhaseType DEF Init
<1>2. PlacesInv
  BY <1>1 DEF Init, PlacesInv
<1>3. 1 .. 0 = {} /\ DOMAIN <<>> = {}
  OBVIOUS
<1>4. InLine(<<>>, <<>>, <<>>, <<>>, 0)
  BY NoValues DEF InLine, Below, All
<1>5. ASSUME NEW c \in Clients
      PROVE  OpsKept(c) /\ RepliesKept(c)
  <2>1. /\ arrived[c] = <<>> /\ inbox[c] = <<>> /\ sent[c] = 0 /\ got[c] = <<>> /\ outbox[c] = <<>>
        /\ back[c] = <<>> /\ replied[c] = 0 /\ up[c] = NoUpstream
    BY DEF Init
  <2>2. Hand(c) = <<>>
    BY <1>1, PacketNumbers DEF Hand
  <2>3. /\ Numbers(up[c].outgoing) = <<>> /\ up[c].incoming = <<>> /\ Numbers(inbox[c]) = <<>>
        /\ Numbers(back[c]) = <<>>
    BY <2>1, NewFields, PacketNumbers
  <2>4. OpsKept(c)
    BY <1>3, <1>4, <2>1, <2>2, <2>3 DEF OpsKept, OpsInLine
  <2>5. Near(c) = {}
    BY <2>1, <2>3, NoValues DEF Near
  <2>6. RepliesKept(c)
    BY <1>3, <1>4, <2>1, <2>3, <2>5 DEF RepliesKept, RepliesInLine, Gapless
  <2>. QED BY <2>4, <2>6
<1>. QED BY <1>0, <1>2, <1>5 DEF LineInv

\* A step that leaves a client's places alone.
LEMMA OpsUnchanged ==
    ASSUME NEW c \in Clients, OpsKept(c), arrived'[c] = arrived[c],
           up'[c].outgoing = up[c].outgoing, Hand(c)' = Hand(c), inbox'[c] = inbox[c],
           sent'[c] = sent[c],
           open'[c] /\ up'[c].at # "closed" /\ up'[c].sender =>
                open[c] /\ up[c].at # "closed" /\ up[c].sender
    PROVE  OpsKept(c)'
BY DEF OpsKept, OpsInLine, OpsPlaces

LEMMA RepliesUnchanged ==
    ASSUME NEW c \in Clients, RepliesKept(c), got'[c] = got[c], outbox'[c] = outbox[c],
           up'[c].incoming = up[c].incoming, back'[c] = back[c], replied'[c] = replied[c],
           open'[c] => open[c],
           open'[c] /\ up'[c].at = "open" => up[c].at = "open"
    PROVE  RepliesKept(c)'
BY DEF RepliesKept, RepliesInLine, RepliesPlaces, Near

\* A step by which a client's operations or replies are lost: one end of the session closes.
LEMMA OpsLost ==
    ASSUME NEW c \in Clients, OpsKept(c), arrived'[c] = arrived[c], sent'[c] = sent[c],
           Thinner(Numbers(up'[c].outgoing), Numbers(up[c].outgoing)),
           Thinner(Hand(c)', Hand(c)), Thinner(Numbers(inbox'[c]), Numbers(inbox[c])),
           ~(open'[c] /\ up'[c].at # "closed" /\ up'[c].sender)
    PROVE  OpsKept(c)'
<1>1. Thinner(arrived'[c], arrived[c])
  BY DEF Thinner
<1>2. InLine(arrived'[c], Numbers(up'[c].outgoing), Hand(c)', Numbers(inbox'[c]), sent[c])
  BY <1>1, Thinned DEF OpsKept, OpsInLine
<1>. QED BY <1>2 DEF OpsKept, OpsInLine

LEMMA RepliesLost ==
    ASSUME NEW c \in Clients, RepliesKept(c), got'[c] = got[c], replied'[c] = replied[c],
           Thinner(outbox'[c], outbox[c]), Thinner(up'[c].incoming, up[c].incoming),
           Thinner(Numbers(back'[c]), Numbers(back[c])),
           open'[c] => open[c] /\ outbox'[c] = outbox[c] /\ up'[c].incoming = up[c].incoming,
           ~(open'[c] /\ up'[c].at = "open")
    PROVE  RepliesKept(c)'
<1>1. Thinner(got'[c], got[c])
  BY DEF Thinner
<1>2. InLine(got'[c], outbox'[c], up'[c].incoming, Numbers(back'[c]), replied[c])
  BY <1>1, Thinned DEF RepliesKept, RepliesInLine
<1>. QED BY <1>2 DEF RepliesKept, RepliesInLine, Near

LEMMA PlacesStep ==
    ASSUME TunnelInv, PlacesInv, Next
    PROVE  PlacesInv'
<1>. USE DEF TunnelInv
<1>0. up \in [Clients -> Upstream] /\ loop \in Loop
  BY DEF TypeOK
<1>1. ASSUME NEW c \in Clients,
             \/ ClientSends(c) \/ ClientCloses(c) \/ ClientReceives(c)
             \/ RemoteReplies(c) \/ RemoteGarbles(c) \/ RemoteCloses(c)
      PROVE  up' = up /\ loop' = loop
  BY <1>1 DEF ClientSends, ClientCloses, ClientReceives, RemoteReplies, RemoteGarbles, RemoteCloses
<1>2. ASSUME NEW c \in Clients, UpstreamStep(c)
      PROVE  PlacesInv'
  <2>1. loop' = loop /\ up'[c].at # "none" /\ \A d \in Clients : d # c => up'[d] = up[d]
    BY <1>2, UpstreamKept
  <2>. QED BY <2>1 DEF PlacesInv
<1>3. ASSUME StartPass \/ NextPhase
      PROVE  up' = up /\ loop'.hand = <<>>
  BY <1>3, PhaseType DEF StartPass, NextPhase, Sessions
<1>4. ASSUME NEW c \in Clients, TakeTurn(c) \/ EndTurn(c)
      PROVE  up' = up /\ loop'.hand = <<>>
  <2>1. up' = up /\ loop.hand = <<>>
    BY <1>4 DEF TakeTurn, EndTurn, PlacesInv
  <2>2. loop'.hand = loop.hand
    <3>1. \/ loop' = [loop EXCEPT !.turn = c, !.todo = loop.todo \ {c}]
          \/ loop' = [loop EXCEPT !.turn = Nobody]
      BY <1>4 DEF TakeTurn, EndTurn
    <3>. QED BY <1>0, <3>1 DEF Loop
  <2>. QED BY <2>1, <2>2
<1>5. ASSUME NEW c \in Clients, TakeOp(c)
      PROVE  PlacesInv'
  <2>1. up' = up /\ loop.turn = c /\ loop' = [loop EXCEPT !.hand = <<Head(inbox[c])>>]
    BY <1>5 DEF TakeOp
  <2>2. loop'.turn = c /\ loop'.hand = <<Head(inbox[c])>>
    BY <1>0, <2>1, LoopFields
  <2>3. Len(<<Head(inbox[c])>>) = 1
    OBVIOUS
  <2>. QED BY <2>1, <2>2, <2>3 DEF PlacesInv
<1>6. ASSUME NEW c \in Clients, Connect(c)
      PROVE  PlacesInv'
  <2>1. loop' = loop /\ up' = [up EXCEPT ![c] = NewUpstream]
    BY <1>6 DEF Connect
  <2>. QED BY <1>0, <2>1, NewUpstreams DEF PlacesInv
<1>7. ASSUME NEW c \in Clients, ConnectFails(c)
      PROVE  up' = up /\ loop'.hand = <<>>
  BY <1>0, <1>7, LoopFields DEF ConnectFails
<1>8. ASSUME NEW c \in Clients, Push(c)
      PROVE  PlacesInv'
  <2>1. loop'.hand = <<>>
    BY <1>0, <1>8, LoopFields DEF Push
  <2>2. up[c].at # "none" /\ up' = [up EXCEPT ![c].outgoing = Append(@, Outgoing(loop.hand[1]))]
    BY <1>8, Zenon DEF Push
  <2>3. up'[c].at = up[c].at /\ \A d \in Clients : d # c => up'[d] = up[d]
    BY <1>0, <2>2 DEF Upstream
  <2>. QED BY <2>1, <2>2, <2>3 DEF PlacesInv
<1>9. ASSUME NEW c \in Clients, Forwarding(c)
      PROVE  PlacesInv'
  <2>1. loop'.hand = loop.hand /\ loop'.turn = loop.turn /\ up[c].at # "none"
    BY <1>9 DEF Forwarding, SameTurn, SessionsInv
  <2>2. up'[c].at = up[c].at /\ \A d \in Clients : d # c => up'[d] = up[d]
    BY <1>0, <1>9 DEF Forwarding, Forward, Upstream
  <2>. QED BY <2>1, <2>2 DEF PlacesInv
<1>10. ASSUME Ending
       PROVE  PlacesInv'
  <2>1. loop'.hand = <<>>
    BY <1>10, PhaseType DEF Ending, Crash
  <2>2. \A d \in Clients : up'[d].at = "none" => up'[d] = up[d]
    BY <1>0, <1>10, ShutUpstream DEF Ending, Crash
  <2>. QED BY <2>1, <2>2 DEF PlacesInv
<1>11. ASSUME NEW c \in Clients, Reap(c)
       PROVE  PlacesInv'
  <2>1. loop'.hand = loop.hand /\ loop'.turn = loop.turn
    BY <1>0, <1>11, LoopFields DEF Reap
  <2>2. up' = [up EXCEPT ![c] = NoUpstream] \/ up' = up
    BY <1>11, Zenon DEF Reap
  <2>3. \A d \in Clients : up'[d] = NoUpstream \/ up'[d] = up[d]
    BY <1>0, <2>2
  <2>. QED BY <2>1, <2>3 DEF PlacesInv
<1>12. (up' = up /\ loop'.hand = <<>>) \/ (up' = up /\ loop' = loop) => PlacesInv'
  BY DEF PlacesInv
<1>13. CASE Asking
  BY <1>13 DEF Asking, SameTurn, PlacesInv
<1>. QED BY <1>0, <1>1, <1>2, <1>3, <1>4, <1>5, <1>6, <1>7, <1>8, <1>9, <1>10, <1>11, <1>12, <1>13,
            LoopCases, Zenon DEF Next, LoopActs

-----------------------------------------------------------------------------
(* The operations.                                                         *)

\* The loop's hand is a queue of the client whose turn it is.
LEMMA HandIs ==
    ASSUME NEW l \in Loop, NEW c \in Clients
    PROVE  /\ l.turn = Nobody \/ l.hand = <<>> \/ l.turn # c =>
                (IF l.turn = c THEN Numbers(l.hand) ELSE <<>>) = <<>>
           /\ Len(l.hand) = 1 => l.hand[1] \in Op /\ Numbers(l.hand) = <<l.hand[1].n>>
<1>1. l.hand \in Seq(Op)
  BY LoopParts
<1>2. Len(l.hand) = 1 => l.hand[1] \in Op /\ DOMAIN l.hand = {1}
  BY <1>1
<1>3. \A p \in Op : p.n \in Nat
  BY DEF Op
<1>4. ASSUME Len(l.hand) = 1
      PROVE  Numbers(l.hand) = <<l.hand[1].n>>
  <2>1. Numbers(l.hand) \in Seq(Nat) /\ DOMAIN Numbers(l.hand) = {1} /\ Numbers(l.hand)[1] = l.hand[1].n
    BY <1>1, <1>2, <1>4, NumbersType, PacketNumbers DEF Numbers
  <2>. QED BY <2>1
<1>. QED BY <1>2, <1>4, PacketNumbers

LEMMA OpsClients ==
    ASSUME LineInv, NEW c \in Clients, ClientSends(c) \/ ClientCloses(c) \/ ClientReceives(c),
           NEW d \in Clients
    PROVE  OpsKept(d)'
<1>. USE DEF LineInv, TunnelInv, remoteVars
<1>0. OpsKept(d) /\ TypeOK
  OBVIOUS
<1>1. CASE ClientSends(c) /\ d = c
  <2>1. PICK op : op.n = sent[c] + 1 /\ inbox' = [inbox EXCEPT ![c] = Append(@, op)] /\ op \in Op
    <3>1. PICK crypt \in BOOLEAN :
              inbox' = [inbox EXCEPT ![c] = Append(@, [n |-> sent[c] + 1, crypt |-> crypt])]
      BY <1>1 DEF ClientSends
    <3>2. sent[c] \in Nat
      BY NumberTypes
    <3>3. [n |-> sent[c] + 1, crypt |-> crypt] \in Op
      BY <3>2 DEF Op
    <3>. QED BY <3>1, <3>3
  <2>2. inbox'[c] = Append(inbox[c], op) /\ inbox[c] \in Seq(Op)
    BY <2>1 DEF TypeOK
  <2>3. Numbers(inbox'[c]) = Append(Numbers(inbox[c]), sent[c] + 1)
    <3>1. Op \subseteq Packets
      BY PacketNumbers
    <3>2. Numbers(Append(inbox[c], op)) = Append(Numbers(inbox[c]), op.n)
      <4>1. inbox[c] \in Seq(Op) /\ op \in Op
        BY <2>1, <2>2, Zenon
      <4>. HIDE DEF LineInv, TunnelInv
      <4>. QED BY <3>1, <4>1, NumbersEnded, Zenon
    <3>. QED BY <2>1, <2>2, <3>2
  <2>4. sent'[c] = sent[c] + 1
    BY <1>1 DEF ClientSends, TypeOK
  <2>5. UNCHANGED <<open, up, loop, arrived>> /\ Hand(c)' = Hand(c)
    BY <1>1 DEF ClientSends, Hand
  <2>6. /\ InLine(arrived[c], Numbers(up[c].outgoing), Hand(c), Numbers(inbox'[c]), sent[c] + 1)
        /\ All(arrived[c], Numbers(up[c].outgoing), Hand(c), Numbers(inbox'[c])) =
                OpsPlaces(c) \cup {sent[c] + 1}
    <3>1. InLine(arrived[c], Numbers(up[c].outgoing), Hand(c), Numbers(inbox[c]), sent[c])
      BY <1>0, <1>1 DEF OpsKept, OpsInLine
    <3>2. /\ arrived[c] \in Seq(Nat) /\ Numbers(up[c].outgoing) \in Seq(Nat) /\ Hand(c) \in Seq(Nat)
          /\ Numbers(inbox[c]) \in Seq(Nat) /\ sent[c] \in Nat
      BY <1>0, NumberTypes, Zenon
    <3>3. Extended(arrived[c], Numbers(up[c].outgoing), Hand(c), Numbers(inbox[c]), sent[c],
                   Append(Numbers(inbox[c]), sent[c] + 1))
      BY <3>1, <3>2, JoinedLine
    <3>. QED BY <2>3, <3>3 DEF OpsPlaces, Extended
  <2>7. 1 .. sent[c] + 1 = (1 .. sent[c]) \cup {sent[c] + 1}
    <3>1. sent[c] \in Nat
      BY DEF TypeOK
    <3>. QED BY <3>1, NextNumber
  <2>. QED BY <1>0, <1>1, <2>4, <2>5, <2>6, <2>7 DEF OpsKept, OpsInLine, OpsPlaces
<1>2. CASE ClientSends(c) /\ d # c
  <2>1. inbox'[d] = inbox[d] /\ sent'[d] = sent[d]
    BY <1>2 DEF ClientSends, TypeOK
  <2>2. UNCHANGED <<open, up, loop, arrived>> /\ Hand(d)' = Hand(d)
    BY <1>2 DEF ClientSends, Hand
  <2>. QED BY <1>0, <2>1, <2>2, OpsUnchanged
<1>3. CASE ClientCloses(c) \/ ClientReceives(c)
  <2>1. UNCHANGED <<sent, inbox, up, loop, arrived>> /\ Hand(d)' = Hand(d)
    BY <1>3 DEF ClientCloses, ClientReceives, Hand
  <2>2. open'[d] => open[d]
    BY <1>3 DEF ClientCloses, ClientReceives, CloseClients
  <2>. QED BY <1>0, <2>1, <2>2, OpsUnchanged
<1>. QED BY <1>1, <1>2, <1>3

\* A step that only moves a client's operations along the line.
LEMMA OpsMoved ==
    ASSUME NEW c \in Clients, OpsKept(c), sent'[c] = sent[c],
           Alike(arrived[c], Numbers(up[c].outgoing), Hand(c), Numbers(inbox[c]),
                 arrived'[c], Numbers(up'[c].outgoing), Hand(c)', Numbers(inbox'[c])),
           open'[c] /\ up'[c].at # "closed" /\ up'[c].sender =>
                open[c] /\ up[c].at # "closed" /\ up[c].sender
    PROVE  OpsKept(c)'
BY DEF OpsKept, OpsInLine, OpsPlaces, Alike

LEMMA EmptyHand ==
    ASSUME TypeOK, TypeOK', NEW c \in Clients
    PROVE  /\ loop.hand = <<>> \/ loop.turn # c => Hand(c) = <<>>
           /\ loop'.hand = <<>> \/ loop'.turn # c => Hand(c)' = <<>>
BY PacketNumbers DEF Hand

LEMMA FullHand ==
    ASSUME TypeOK, NEW c \in Clients, loop.turn = c, Len(loop.hand) = 1
    PROVE  loop.hand[1] \in Op /\ Hand(c) = <<loop.hand[1].n>>
<1>1. loop \in Loop
  BY DEF TypeOK
<1>2. loop.hand[1] \in Op /\ Numbers(loop.hand) = <<loop.hand[1].n>>
  BY <1>1, HandIs
<1>. QED BY <1>2 DEF Hand

\* The loop takes a packet into its hand and gives it to the upstream.
LEMMA OpsHand ==
    ASSUME LineInv, TypeOK', NEW c \in Clients, TakeOp(c) \/ Push(c), NEW d \in Clients
    PROVE  OpsKept(d)'
<1>0. /\ OpsKept(c) /\ OpsKept(d) /\ TypeOK /\ PlacesInv /\ up \in [Clients -> Upstream] /\ loop \in Loop
      /\ inbox \in [Clients -> Seq(Op)]
  BY DEF LineInv, TunnelInv, TypeOK
<1>1. /\ arrived[c] \in Seq(Nat) /\ Numbers(up[c].outgoing) \in Seq(Nat) /\ Hand(c) \in Seq(Nat)
      /\ Numbers(inbox[c]) \in Seq(Nat)
  BY <1>0, NumberTypes, Zenon
<1>2. CASE TakeOp(c)
  <2>1. /\ loop.turn = c /\ loop.hand = <<>> /\ inbox[c] # <<>> /\ inbox[c] \in Seq(Op)
        /\ loop' = [loop EXCEPT !.hand = <<Head(inbox[c])>>]
        /\ inbox' = [inbox EXCEPT ![c] = Tail(inbox[c])]
        /\ UNCHANGED <<open, sent, up, arrived>>
    BY <1>0, <1>2 DEF TakeOp, remoteVars
  <2>2. loop'.turn = c /\ loop'.hand = <<Head(inbox[c])>>
    BY <1>0, <2>1 DEF Loop
  <2>3. CASE d = c
    <3>1. Hand(c) = <<>>
      BY <1>0, <2>1, EmptyHand
    <3>2. Head(inbox[c]) \in Op /\ <<Head(inbox[c])>> = Append(<<>>, Head(inbox[c])) /\ <<>> \in Seq(Op)
      BY <2>1
    <3>3. /\ Op \subseteq Packets /\ Numbers(inbox[c]) # <<>>
          /\ Head(Numbers(inbox[c])) = Head(inbox[c]).n /\ Numbers(Tail(inbox[c])) = Tail(Numbers(inbox[c]))
      BY <2>1, PacketNumbers, NumbersStarted
    <3>4. Numbers(Append(<<>>, Head(inbox[c]))) = Append(Numbers(<<>>), Head(inbox[c]).n)
      BY <3>2, <3>3, NumbersEnded
    <3>5. Hand(c)' = Append(Hand(c), Head(Numbers(inbox[c])))
      BY <2>2, <3>1, <3>2, <3>3, <3>4, PacketNumbers DEF Hand
    <3>6. Numbers(inbox'[c]) = Tail(Numbers(inbox[c]))
      BY <1>0, <2>1, <3>3
    <3>7. Alike(arrived[c], Numbers(up[c].outgoing), Hand(c), Numbers(inbox[c]),
                arrived[c], Numbers(up[c].outgoing),
                Append(Hand(c), Head(Numbers(inbox[c]))), Tail(Numbers(inbox[c])))
      BY <1>1, <3>3, MovedThird
    <3>. QED BY <1>0, <2>1, <2>3, <3>5, <3>6, <3>7, OpsMoved
  <2>4. CASE d # c
    <3>1. Hand(d) = <<>> /\ Hand(d)' = <<>>
      BY <1>0, <2>1, <2>2, <2>4, EmptyHand
    <3>2. inbox'[d] = inbox[d]
      BY <1>0, <2>1, <2>4
    <3>. QED BY <1>0, <2>1, <3>1, <3>2, OpsUnchanged
  <2>. QED BY <2>3, <2>4
<1>3. CASE Push(c)
  <2>1. /\ loop.turn = c /\ loop.hand # <<>> /\ loop' = [loop EXCEPT !.hand = <<>>]
        /\ up' = [up EXCEPT ![c].outgoing = Append(@, Outgoing(loop.hand[1]))]
        /\ UNCHANGED <<open, sent, inbox, arrived>>
    BY <1>3, Zenon DEF Push, clientVars, remoteVars
  <2>2. loop'.hand = <<>>
    BY <1>0, <2>1 DEF Loop
  <2>3. CASE d = c
    <3>1. loop.hand[1] \in Op /\ Hand(c) = <<loop.hand[1].n>>
      <4>1. Len(loop.hand) = 1
        BY <1>0, <2>1 DEF PlacesInv
      <4>. QED BY <1>0, <2>1, <4>1, FullHand
    <3>2. Hand(c) # <<>> /\ Head(Hand(c)) = loop.hand[1].n /\ Tail(Hand(c)) = <<>>
      BY <3>1
    <3>3. Outgoing(loop.hand[1]) \in ToRemote /\ Outgoing(loop.hand[1]).n = loop.hand[1].n
      BY <3>1, OutgoingType DEF Outgoing
    <3>4. up[c].outgoing \in Seq(ToRemote) /\ ToRemote \subseteq Packets
      BY <1>0, UpstreamParts, PacketNumbers
    <3>5. Numbers(Append(up[c].outgoing, Outgoing(loop.hand[1]))) =
            Append(Numbers(up[c].outgoing), loop.hand[1].n)
      BY <3>3, <3>4, NumbersEnded
    <3>6. /\ up'[c].outgoing = Append(up[c].outgoing, Outgoing(loop.hand[1]))
          /\ up'[c].at = up[c].at /\ up'[c].sender = up[c].sender
      BY <1>0, <2>1 DEF Upstream
    <3>7. Hand(c)' = Tail(Hand(c))
      BY <1>0, <2>2, <3>2, EmptyHand
    <3>8. Alike(arrived[c], Numbers(up[c].outgoing), Hand(c), Numbers(inbox[c]),
                arrived[c], Append(Numbers(up[c].outgoing), Head(Hand(c))), Tail(Hand(c)),
                Numbers(inbox[c]))
      BY <1>1, <3>2, MovedSecond
    <3>. QED BY <1>0, <2>1, <2>3, <3>2, <3>5, <3>6, <3>7, <3>8, OpsMoved
  <2>4. CASE d # c
    <3>1. Hand(d) = <<>> /\ Hand(d)' = <<>>
      BY <1>0, <2>1, <2>2, <2>4, EmptyHand
    <3>2. up'[d] = up[d]
      BY <1>0, <2>1, <2>4
    <3>. QED BY <1>0, <2>1, <3>1, <3>2, OpsUnchanged
  <2>. QED BY <2>3, <2>4
<1>. QED BY <1>2, <1>3

\* The rest of the main loop: a session begins or ends.
LEMMA OpsLoop ==
    ASSUME LineInv, TypeOK', LoopActs, NEW d \in Clients
    PROVE  OpsKept(d)'
<1>0. /\ OpsKept(d) /\ TypeOK /\ PlacesInv /\ SessionsInv /\ up \in [Clients -> Upstream]
      /\ loop \in Loop
  BY DEF LineInv, TunnelInv, TypeOK
<1>1. /\ arrived[d] \in Seq(Nat) /\ Numbers(up[d].outgoing) \in Seq(Nat) /\ Hand(d) \in Seq(Nat)
      /\ Numbers(inbox[d]) \in Seq(Nat)
  BY <1>0, NumberTypes, Zenon
<1>2. /\ Thinner(<<>>, Numbers(up[d].outgoing)) /\ Thinner(<<>>, Hand(d))
      /\ Thinner(Hand(d), Hand(d)) /\ Thinner(Numbers(inbox[d]), Numbers(inbox[d]))
      /\ Thinner(Numbers(up[d].outgoing), Numbers(up[d].outgoing))
  BY <1>1, ThinnerParts
<1>3. ASSUME StartPass \/ NextPhase \/ \E c \in Clients : TakeTurn(c) \/ EndTurn(c)
      PROVE  OpsKept(d)'
  <2>1. loop.hand = <<>> /\ UNCHANGED <<clientVars, up, remoteVars>>
    BY <1>0, <1>3 DEF StartPass, NextPhase, TakeTurn, EndTurn, SessionsInv, PlacesInv
  <2>2. loop'.hand = <<>>
    <3>1. CASE StartPass \/ NextPhase
      BY <3>1, PhaseType DEF StartPass, NextPhase, Sessions
    <3>2. ASSUME NEW c \in Clients, TakeTurn(c) \/ EndTurn(c)
          PROVE  loop'.hand = <<>>
      BY <1>0, <2>1, <3>2 DEF TakeTurn, EndTurn, Loop
    <3>. QED BY <1>3, <3>1, <3>2
  <2>3. Hand(d) = <<>> /\ Hand(d)' = <<>>
    BY <1>0, <2>1, <2>2, EmptyHand
  <2>. QED BY <1>0, <2>1, <2>3, OpsUnchanged DEF clientVars, remoteVars
<1>4. ASSUME NEW c \in Clients, Connect(c)
      PROVE  OpsKept(d)'
  <2>1. up[c].at = "none" /\ up' = [up EXCEPT ![c] = NewUpstream] /\ UNCHANGED <<clientVars, loop, remoteVars>>
    BY <1>4 DEF Connect
  <2>2. Hand(d)' = Hand(d)
    BY <2>1 DEF Hand
  <2>3. CASE d = c
    <3>1. up[c] = NoUpstream /\ up'[c] = NewUpstream
      BY <1>0, <2>1 DEF PlacesInv
    <3>2. Numbers(<<InitRequest>>) = Append(Numbers(<<>>), 0)
      <4>1. InitRequest \in ToRemote
        BY DEF InitRequest, Control, ToRemote
      <4>2. <<InitRequest>> = Append(<<>>, InitRequest) /\ <<>> \in Seq(ToRemote)
        OBVIOUS
      <4>3. ToRemote \subseteq Packets
        BY PacketNumbers
      <4>4. Numbers(Append(<<>>, InitRequest)) = Append(Numbers(<<>>), InitRequest.n)
        BY <4>1, <4>2, <4>3, NumbersEnded
      <4>. QED BY <4>2, <4>4, NewFields
    <3>3. Numbers(up'[c].outgoing) = Append(Numbers(up[c].outgoing), 0)
      BY <3>1, <3>2, NewFields
    <3>4. Alike(arrived[d], Numbers(up[d].outgoing), Hand(d), Numbers(inbox[d]),
                arrived[d], Append(Numbers(up[d].outgoing), 0), Hand(d), Numbers(inbox[d]))
      BY <1>1, ZeroComes
    <3>5. up[c].at # "closed" /\ up[c].sender
      BY <3>1, NewFields, NewUpstreams
    <3>. QED BY <1>0, <2>1, <2>2, <2>3, <3>3, <3>4, <3>5, OpsMoved DEF clientVars, remoteVars
  <2>4. CASE d # c
    <3>1. up'[d] = up[d]
      BY <1>0, <2>1, <2>4
    <3>. QED BY <1>0, <2>1, <2>2, <3>1, OpsUnchanged DEF clientVars, remoteVars
  <2>. QED BY <2>3, <2>4
<1>5. ASSUME NEW c \in Clients, ConnectFails(c)
      PROVE  OpsKept(d)'
  <2>1. /\ loop.turn = c /\ loop' = [loop EXCEPT !.hand = <<>>] /\ UNCHANGED <<sent, inbox, up, arrived>>
        /\ CloseClients({c})
    BY <1>5 DEF ConnectFails, remoteVars
  <2>2. loop'.hand = <<>>
    BY <1>0, <2>1 DEF Loop
  <2>3. Hand(d)' = <<>>
    BY <1>0, <2>2, EmptyHand
  <2>4. open'[d] = (open[d] /\ d # c)
    BY <2>1 DEF CloseClients
  <2>5. CASE d = c
    BY <1>0, <1>2, <2>1, <2>3, <2>4, <2>5, OpsLost
  <2>6. CASE d # c
    <3>1. Hand(d) = <<>>
      BY <1>0, <2>1, <2>6, EmptyHand
    <3>. QED BY <1>0, <2>1, <2>3, <2>4, <3>1, OpsUnchanged
  <2>. QED BY <2>5, <2>6
<1>6. ASSUME NEW c \in Clients, Forwarding(c)
      PROVE  OpsKept(d)'
  <2>1. up' = [up EXCEPT ![c].incoming = Tail(@)] /\ UNCHANGED <<open, sent, inbox, arrived>>
    BY <1>6 DEF Forwarding, Forward, remoteVars
  <2>2. up'[d].outgoing = up[d].outgoing /\ up'[d].at = up[d].at /\ up'[d].sender = up[d].sender
    BY <1>0, <2>1 DEF Upstream
  <2>3. Hand(d)' = Hand(d)
    BY <1>6 DEF Forwarding, SameTurn, Hand
  <2>. QED BY <1>0, <2>1, <2>2, <2>3, OpsUnchanged
<1>7. ASSUME Ending
      PROVE  OpsKept(d)'
  <2>1. /\ loop.hand = <<>> /\ loop'.hand = <<>> /\ UNCHANGED <<open, sent, inbox, arrived>>
        /\ up' = [e \in Clients |-> IF e \in Sessions THEN Shut(up[e]) ELSE up[e]]
    BY <1>0, <1>7, PhaseType DEF Ending, Crash, SessionsInv, clientVars
  <2>2. Hand(d) = <<>> /\ Hand(d)' = <<>>
    BY <1>0, <2>1, EmptyHand
  <2>3. CASE d \in Sessions
    <3>1. up'[d] = Shut(up[d])
      BY <2>1, <2>3
    <3>2. up'[d].outgoing = <<>> /\ up'[d].at = "closed"
      BY <1>0, <3>1, NewFields, ShutUpstream
    <3>3. Numbers(up'[d].outgoing) = <<>>
      BY <3>2, PacketNumbers
    <3>. QED BY <1>0, <1>2, <2>1, <2>2, <3>2, <3>3, OpsLost
  <2>4. CASE d \notin Sessions
    <3>1. up'[d] = up[d]
      BY <2>1, <2>4
    <3>. QED BY <1>0, <2>1, <2>2, <3>1, OpsUnchanged
  <2>. QED BY <2>3, <2>4
<1>8. ASSUME NEW c \in Clients, Reap(c)
      PROVE  OpsKept(d)'
  <2>1. /\ loop' = [loop EXCEPT !.todo = @ \ {c}] /\ UNCHANGED <<sent, inbox, arrived>>
        /\ \/ up' = [up EXCEPT ![c] = NoUpstream] /\ CloseClients({c})
           \/ UNCHANGED <<open, up>>
    BY <1>8, Zenon DEF Reap
  <2>2. loop'.turn = loop.turn /\ loop'.hand = loop.hand
    BY <1>0, <2>1 DEF Loop
  <2>3. Hand(d)' = Hand(d)
    BY <2>2 DEF Hand
  <2>4. CASE UNCHANGED <<open, up>>
    BY <1>0, <2>1, <2>3, <2>4, OpsUnchanged
  <2>5. CASE up' = [up EXCEPT ![c] = NoUpstream] /\ CloseClients({c})
    <3>1. open'[d] = (open[d] /\ d # c)
      BY <2>5 DEF CloseClients
    <3>2. CASE d = c
      <4>1. Numbers(up'[d].outgoing) = <<>>
        BY <1>0, <2>5, <3>2, NewFields, PacketNumbers
      <4>. QED BY <1>0, <1>2, <2>1, <2>3, <3>1, <3>2, <4>1, OpsLost
    <3>3. CASE d # c
      <4>1. up'[d] = up[d]
        BY <1>0, <2>5, <3>3
      <4>. QED BY <1>0, <2>1, <2>3, <3>1, <4>1, OpsUnchanged
    <3>. QED BY <3>2, <3>3
  <2>. QED BY <2>1, <2>4, <2>5
<1>9. CASE Asking
  <2>1. Hand(d)' = Hand(d) /\ UNCHANGED <<clientVars, up, remoteVars>>
    BY <1>9 DEF Asking, SameTurn, Hand
  <2>. QED BY <1>0, <2>1, OpsUnchanged DEF clientVars, remoteVars
<1>. QED BY <1>0, <1>3, <1>4, <1>5, <1>6, <1>7, <1>8, <1>9, LoopCases, OpsHand, Zenon

\* The workers of an upstream.
LEMMA OpsUpstream ==
    ASSUME LineInv, NEW c \in Clients, UpstreamStep(c), NEW d \in Clients
    PROVE  OpsKept(d)'
<1>0. /\ OpsKept(d) /\ TunnelInv /\ TypeOK /\ up \in [Clients -> Upstream] /\ up[c] \in Upstream
      /\ arrived \in [Clients -> Seq(Nat \ {0})]
  BY DEF LineInv, TunnelInv, TypeOK
<1>1. /\ UNCHANGED <<clientVars, loop>> /\ up[c].at = "open"
      /\ \A e \in Clients : e # c => up'[e] = up[e] /\ arrived'[e] = arrived[e]
  BY <1>0, UpstreamKept
<1>2. Hand(d)' = Hand(d)
  BY <1>1 DEF Hand
<1>3. CASE d # c
  BY <1>0, <1>1, <1>2, <1>3, OpsUnchanged DEF clientVars
<1>4. /\ arrived[d] \in Seq(Nat) /\ Numbers(up[d].outgoing) \in Seq(Nat) /\ Hand(d) \in Seq(Nat)
      /\ Numbers(inbox[d]) \in Seq(Nat)
  BY <1>0, NumberTypes, Zenon
<1>5. /\ Thinner(<<>>, Numbers(up[d].outgoing)) /\ Thinner(Hand(d), Hand(d))
      /\ Thinner(Numbers(inbox[d]), Numbers(inbox[d]))
  BY <1>4, ThinnerParts
<1>6. /\ up[c].outgoing \in Seq(ToRemote) /\ ToRemote \subseteq Packets
      /\ up[c].outgoing # <<>> =>
            /\ Numbers(up[c].outgoing) # <<>>
            /\ Head(Numbers(up[c].outgoing)) = Head(up[c].outgoing).n
            /\ Numbers(Tail(up[c].outgoing)) = Tail(Numbers(up[c].outgoing))
  BY <1>0, UpstreamParts, PacketNumbers, NumbersStarted
<1>7. CASE SendUp(c) /\ d = c
  <2>. DEFINE packet == Head(up[c].outgoing)
  <2>1. /\ up[c].outgoing # <<>> /\ up' = [up EXCEPT ![c].outgoing = Tail(@)]
    BY <1>7, Zenon DEF SendUp
  <2>2. /\ up'[c].outgoing = Tail(up[c].outgoing) /\ up'[c].at = up[c].at
        /\ up'[c].sender = up[c].sender
    BY <1>0, <2>1 DEF Upstream
  <2>3. packet \in ToRemote
    BY <1>6, <2>1
  <2>4. UNCHANGED <<open, sent, inbox>>
    BY <1>1 DEF clientVars
  <2>5. /\ Numbers(up'[c].outgoing) = Tail(Numbers(up[c].outgoing))
        /\ up'[c].at = up[c].at /\ up'[c].sender = up[c].sender
    BY <1>6, <2>1, <2>2
  <2>6. CASE packet.kind \in {"init", "dh"}
    <3>1. packet.n = 0 /\ arrived' = arrived
      BY <1>7, <2>3, <2>6 DEF SendUp, ToRemote
    <3>2. Alike(arrived[d], Numbers(up[d].outgoing), Hand(d), Numbers(inbox[d]),
                arrived[d], Tail(Numbers(up[d].outgoing)), Hand(d), Numbers(inbox[d]))
      BY <1>4, <1>6, <1>7, <2>1, <3>1, ZeroGoes
    <3>. QED BY <1>0, <1>2, <1>7, <2>4, <2>5, <3>1, <3>2, OpsMoved
  <2>7. CASE packet.kind \notin {"init", "dh"}
    <3>1. arrived'[c] = Append(arrived[c], packet.n)
      BY <1>0, <1>7, <2>7 DEF SendUp
    <3>2. Alike(arrived[d], Numbers(up[d].outgoing), Hand(d), Numbers(inbox[d]),
                Append(arrived[d], Head(Numbers(up[d].outgoing))),
                Tail(Numbers(up[d].outgoing)), Hand(d), Numbers(inbox[d]))
      BY <1>4, <1>6, <1>7, <2>1, MovedFirst
    <3>3. arrived'[d] = Append(arrived[d], Head(Numbers(up[d].outgoing)))
      BY <1>6, <1>7, <2>1, <3>1
    <3>. QED BY <1>0, <1>2, <1>7, <2>4, <2>5, <3>2, <3>3, OpsMoved
  <2>. QED BY <2>6, <2>7
<1>8. CASE SenderDies(c) /\ d = c
  <2>1. up[c].outgoing # <<>> /\ UNCHANGED arrived
        /\ up' = [up EXCEPT ![c] = [up[c] EXCEPT !.sender = FALSE, !.outgoing = Tail(up[c].outgoing)]]
    BY <1>0, <1>8 DEF SenderDies, remoteVars
  <2>2. up'[c].outgoing = Tail(up[c].outgoing) /\ up'[c].sender = FALSE
    BY <1>0, <2>1, UpstreamFields
  <2>3. Thinner(Tail(Numbers(up[d].outgoing)), Numbers(up[d].outgoing))
    BY <1>4, <1>6, <1>8, <2>1, ThinnerParts
  <2>4. Thinner(Numbers(up'[d].outgoing), Numbers(up[d].outgoing))
    BY <1>6, <1>8, <2>1, <2>2, <2>3
  <2>. QED BY <1>0, <1>1, <1>2, <1>5, <1>8, <2>1, <2>2, <2>4, OpsLost DEF clientVars
<1>9. CASE (SendFails(c) \/ ReceiveEnd(c)) /\ d = c
  <2>1. up' = [up EXCEPT ![c] = Shut(up[c])] /\ UNCHANGED arrived
    BY <1>9 DEF SendFails, ReceiveEnd
  <2>2. up'[c].outgoing = <<>> /\ up'[c].at = "closed"
    BY <1>0, <2>1, NewFields, ShutUpstream
  <2>3. Numbers(up'[c].outgoing) = <<>>
    BY <2>2, PacketNumbers
  <2>. QED BY <1>0, <1>1, <1>2, <1>5, <1>9, <2>1, <2>2, <2>3, OpsLost DEF clientVars
<1>10. CASE ReceiveUp(c) /\ d = c
  <2>. DEFINE packet == Head(back[c])
              u == Handle(up[c], packet)
  <2>1. back[c] # <<>> /\ up' = [up EXCEPT ![c] = u] /\ UNCHANGED arrived
    BY <1>10 DEF ReceiveUp
  <2>2. packet \in FromRemote
    <3>1. back[c] \in Seq(FromRemote)
      BY <1>0 DEF TypeOK
    <3>. QED BY <2>1, <3>1
  <2>3. /\ u.outgoing \in {up[c].outgoing, Append(up[c].outgoing, DhRequest)}
        /\ u.sender = up[c].sender /\ u.at = up[c].at
    BY <1>0, <2>2, HandledFields, HandledPacket, Zenon
  <2>4. up'[c] = u
    BY <1>0, <2>1
  <2>5. CASE u.outgoing = up[c].outgoing
    BY <1>0, <1>1, <1>2, <1>10, <2>1, <2>3, <2>4, <2>5, OpsUnchanged DEF clientVars
  <2>6. CASE u.outgoing = Append(up[c].outgoing, DhRequest)
    <3>1. DhRequest \in ToRemote
      BY DEF DhRequest, Control, ToRemote
    <3>2. Numbers(Append(up[c].outgoing, DhRequest)) = Append(Numbers(up[c].outgoing), DhRequest.n)
      BY <1>6, <3>1, NumbersEnded
    <3>3. Alike(arrived[d], Numbers(up[d].outgoing), Hand(d), Numbers(inbox[d]),
                arrived[d], Append(Numbers(up[d].outgoing), 0), Hand(d), Numbers(inbox[d]))
      BY <1>4, ZeroComes
    <3>4. Numbers(up'[c].outgoing) = Append(Numbers(up[c].outgoing), 0)
      BY <2>4, <2>6, <3>2, NewFields
    <3>. HIDE DEF u, packet
    <3>. QED BY <1>0, <1>1, <1>2, <1>10, <2>1, <2>3, <2>4, <3>3, <3>4, OpsMoved DEF clientVars
  <2>. QED BY <2>3, <2>5, <2>6
<1>. QED BY <1>3, <1>7, <1>8, <1>9, <1>10, Zenon DEF UpstreamStep

LEMMA OpsStep ==
    ASSUME LineInv, Next, NEW d \in Clients
    PROVE  OpsKept(d)'
<1>1. TypeOK'
  BY TypeStep DEF LineInv
<1>2. ASSUME NEW c \in Clients, RemoteReplies(c) \/ RemoteGarbles(c) \/ RemoteCloses(c)
      PROVE  OpsKept(d)'
  <2>1. UNCHANGED <<clientVars, up, loop, arrived>>
    BY <1>2 DEF RemoteReplies, RemoteGarbles, RemoteCloses
  <2>2. Hand(d)' = Hand(d)
    BY <2>1 DEF Hand
  <2>3. OpsKept(d)
    BY DEF LineInv
  <2>. QED BY <2>1, <2>2, <2>3, OpsUnchanged DEF clientVars
<1>. QED BY <1>1, <1>2, OpsClients, OpsLoop, OpsUpstream, Zenon DEF Next, LoopActs

-----------------------------------------------------------------------------
(* The replies.                                                            *)

\* What a client takes from its outbox is the reply after the last one it has.
LEMMA NextReply ==
    ASSUME NEW g \in Seq(Nat), NEW o \in Seq(Nat), NEW in \in Seq(Nat), NEW v \in Seq(Nat), NEW n,
           InLine(g, o, in, v, n), \A i \in DOMAIN g : g[i] = i, o # <<>>, Head(o) # 0,
           Gapless(Values(g) \cup Values(o) \cup Values(in))
    PROVE  Head(o) = Len(g) + 1
<1>. DEFINE h == Head(o)
            k == Len(g) + 1
<1>1. Len(g) \in Nat /\ DOMAIN g = 1 .. Len(g)
  OBVIOUS
<1>2. \A m : m \in Values(g) <=> m \in 1 .. Len(g)
  <2>1. \A i \in 1 .. Len(g) : g[i] = i
    BY <1>1
  <2>2. \A i \in 1 .. Len(g) : i # 0
    BY <1>1
  <2>3. \A m : m \in Values(g) <=> m # 0 /\ \E i \in 1 .. Len(g) : g[i] = m
    BY ValueAt
  <2>4. ASSUME NEW m \in Values(g)
        PROVE  m \in 1 .. Len(g)
    <3>1. PICK i \in 1 .. Len(g) : g[i] = m
      BY <2>3, <2>4, Zenon
    <3>2. m = i
      BY <2>1, <3>1
    <3>. QED BY <3>2
  <2>5. ASSUME NEW m \in 1 .. Len(g)
        PROVE  m \in Values(g)
    <3>1. g[m] = m /\ m # 0
      BY <2>1, <2>2, <2>5, Zenon
    <3>. QED BY <2>3, <3>1
  <2>. QED BY <2>4, <2>5, Zenon
<1>3. /\ h \in Nat /\ h \in Values(o)
      /\ \A m \in Values(o) : m = h \/ h < m
  <2>1. /\ Head(o) \in Nat /\ Values(o) = Values(Tail(o)) \cup ({Head(o)} \ {0})
        /\ Rises(o) => \A m \in Values(Tail(o)) : Head(o) < m
    BY Started
  <2>. QED BY <2>1 DEF InLine
<1>4. h > Len(g)
  <2>1. CASE Len(g) = 0
    BY <1>3, <2>1
  <2>2. CASE Len(g) # 0
    <3>1. Len(g) \in 1 .. Len(g)
      BY <1>1, <2>2
    <3>2. Len(g) \in Values(g)
      BY <1>2, <3>1, Zenon
    <3>. QED BY <1>1, <1>3, <3>2 DEF InLine, Below
  <2>. QED BY <2>1, <2>2
<1>5. ~(h > k)
  <2>. SUFFICES ASSUME h > k PROVE FALSE
       OBVIOUS
  <2>1. k \in 1 .. h /\ k \notin 1 .. Len(g)
    BY <1>1, <1>3
  <2>2. k \in Values(o) \cup Values(in)
    BY <1>2, <1>3, <2>1 DEF Gapless
  <2>3. k \notin Values(o)
    <3>1. k # h /\ ~(h < k)
      BY <1>1, <1>3
    <3>. QED BY <1>3, <3>1, Zenon
  <2>4. \A m \in Values(in) : h < m
    BY <1>3 DEF InLine, Below
  <2>. QED BY <1>1, <1>3, <2>2, <2>3, <2>4
<1>. QED BY <1>1, <1>3, <1>4, <1>5

LEMMA CountedOn ==
    ASSUME NEW s \in Seq(Nat), \A i \in DOMAIN s : s[i] = i
    PROVE  \A i \in DOMAIN Append(s, Len(s) + 1) : Append(s, Len(s) + 1)[i] = i
OBVIOUS

\* What the upstream takes from the remote server is the reply after those it has taken.
LEMMA NoGap ==
    ASSUME NEW g, NEW o, NEW in, NEW v \in Seq(Nat), NEW n \in Nat, InLine(g, o, in, v, n),
           1 .. n \subseteq All(g, o, in, v), v # <<>>
    PROVE  1 .. Head(v) \subseteq Values(g) \cup Values(o) \cup Values(in) \cup {Head(v)}
<1>1. /\ Head(v) \in Nat /\ Values(v) = Values(Tail(v)) \cup ({Head(v)} \ {0})
      /\ Rises(v) => \A m \in Values(Tail(v)) : Head(v) < m
  BY Started
<1>2. CASE Head(v) = 0
  BY <1>2
<1>3. CASE Head(v) # 0
  <2>1. Head(v) <= n
    BY <1>1, <1>3 DEF InLine, All
  <2>2. ASSUME NEW m \in 1 .. Head(v)
        PROVE  m \in Values(g) \cup Values(o) \cup Values(in) \cup {Head(v)}
    <3>1. m \in All(g, o, in, v) /\ ~(Head(v) < m)
      BY <1>1, <2>1, <2>2
    <3>2. m \notin Values(Tail(v))
      BY <1>1, <3>1 DEF InLine
    <3>. QED BY <1>1, <3>1, <3>2 DEF All
  <2>. QED BY <2>2
<1>. QED BY <1>2, <1>3

\* A step that only moves a client's replies along the line.
LEMMA RepliesMoved ==
    ASSUME NEW c \in Clients, RepliesKept(c), replied'[c] = replied[c],
           Alike(got[c], outbox[c], up[c].incoming, Numbers(back[c]),
                 got'[c], outbox'[c], up'[c].incoming, Numbers(back'[c])),
           \A i \in DOMAIN got'[c] : got'[c][i] = i,
           open'[c] => open[c] /\ Gapless(Near(c)'),
           open'[c] /\ up'[c].at = "open" => up[c].at = "open"
    PROVE  RepliesKept(c)'
BY DEF RepliesKept, RepliesInLine, RepliesPlaces, Alike

LEMMA RepliesClients ==
    ASSUME LineInv, NEW c \in Clients, ClientSends(c) \/ ClientCloses(c) \/ ClientReceives(c),
           NEW d \in Clients
    PROVE  RepliesKept(d)'
<1>0. /\ RepliesKept(d) /\ TypeOK /\ outbox \in [Clients -> Seq(Nat \ {0})]
      /\ got \in [Clients -> Seq(Nat \ {0})]
  BY DEF LineInv, TunnelInv, TypeOK
<1>1. /\ got[d] \in Seq(Nat) /\ outbox[d] \in Seq(Nat) /\ up[d].incoming \in Seq(Nat)
      /\ Numbers(back[d]) \in Seq(Nat)
  BY <1>0, NumberTypes, Zenon
<1>2. CASE ClientSends(c)
  BY <1>0, <1>2, RepliesUnchanged DEF ClientSends, remoteVars
<1>3. CASE ClientCloses(c)
  <2>1. UNCHANGED <<got, up, back, replied>>
    BY <1>3 DEF ClientCloses, remoteVars
  <2>2. open'[d] = (open[d] /\ d # c) /\ outbox'[d] = IF d = c THEN <<>> ELSE outbox[d]
    BY <1>3 DEF ClientCloses, CloseClients
  <2>3. /\ Thinner(<<>>, outbox[d]) /\ Thinner(up[d].incoming, up[d].incoming)
        /\ Thinner(Numbers(back[d]), Numbers(back[d]))
    BY <1>1, ThinnerParts
  <2>4. CASE d = c
    BY <1>0, <2>1, <2>2, <2>3, <2>4, RepliesLost
  <2>5. CASE d # c
    BY <1>0, <2>1, <2>2, <2>5, RepliesUnchanged
  <2>. QED BY <2>4, <2>5
<1>4. CASE ClientReceives(c)
  <2>1. /\ open[c] /\ outbox[c] # <<>> /\ got' = [got EXCEPT ![c] = Append(@, Head(outbox[c]))]
        /\ outbox' = [outbox EXCEPT ![c] = Tail(@)] /\ UNCHANGED <<open, up, back, replied>>
    BY <1>4 DEF ClientReceives, remoteVars
  <2>2. CASE d # c
    <3>1. got'[d] = got[d] /\ outbox'[d] = outbox[d]
      BY <1>0, <2>1, <2>2
    <3>. QED BY <1>0, <2>1, <3>1, RepliesUnchanged
  <2>3. CASE d = c
    <3>1. got'[d] = Append(got[d], Head(outbox[d])) /\ outbox'[d] = Tail(outbox[d])
      BY <1>0, <2>1, <2>3
    <3>2. Head(outbox[d]) # 0
      <4>1. outbox[d] \in Seq(Nat \ {0}) /\ outbox[d] # <<>>
        BY <1>0, <2>1, <2>3
      <4>2. Head(outbox[d]) \in Nat \ {0}
        BY <4>1, Ends
      <4>. QED BY <4>2
    <3>3. Gapless(Near(d))
      BY <1>0, <2>1, <2>3 DEF RepliesKept
    <3>4. Head(outbox[d]) = Len(got[d]) + 1
      BY <1>0, <1>1, <2>1, <2>3, <3>2, <3>3, NextReply DEF RepliesKept, RepliesInLine, Near
    <3>5. \A i \in DOMAIN got'[d] : got'[d][i] = i
      BY <1>0, <1>1, <3>1, <3>4, CountedOn DEF RepliesKept
    <3>6. Alike(got[d], outbox[d], up[d].incoming, Numbers(back[d]),
                Append(got[d], Head(outbox[d])), Tail(outbox[d]), up[d].incoming, Numbers(back[d]))
      BY <1>1, <2>1, <2>3, MovedFirst
    <3>7. Near(d)' = Near(d)
      <4>1. /\ Head(outbox[d]) \in Nat
            /\ Values(outbox[d]) = Values(Tail(outbox[d])) \cup ({Head(outbox[d])} \ {0})
        BY <1>1, <2>1, <2>3, Started
      <4>2. Values(Append(got[d], Head(outbox[d]))) = Values(got[d]) \cup ({Head(outbox[d])} \ {0})
        BY <1>1, <4>1, Ended
      <4>. QED BY <2>1, <3>1, <4>1, <4>2 DEF Near
    <3>. QED BY <1>0, <2>1, <3>1, <3>3, <3>5, <3>6, <3>7, RepliesMoved
  <2>. QED BY <2>2, <2>3
<1>. QED BY <1>2, <1>3, <1>4

LEMMA RepliesLoop ==
    ASSUME LineInv, LoopActs, NEW d \in Clients
    PROVE  RepliesKept(d)'
<1>0. /\ RepliesKept(d) /\ TypeOK /\ PlacesInv /\ SessionsInv /\ up \in [Clients -> Upstream]
      /\ loop \in Loop /\ outbox \in [Clients -> Seq(Nat \ {0})]
  BY DEF LineInv, TunnelInv, TypeOK
<1>1. /\ got[d] \in Seq(Nat) /\ outbox[d] \in Seq(Nat) /\ up[d].incoming \in Seq(Nat)
      /\ Numbers(back[d]) \in Seq(Nat)
  BY <1>0, NumberTypes, Zenon
<1>2. /\ Thinner(<<>>, outbox[d]) /\ Thinner(outbox[d], outbox[d])
      /\ Thinner(<<>>, up[d].incoming) /\ Thinner(up[d].incoming, up[d].incoming)
      /\ up[d].incoming # <<>> => Thinner(Tail(up[d].incoming), up[d].incoming)
      /\ Thinner(<<>>, Numbers(back[d])) /\ Thinner(Numbers(back[d]), Numbers(back[d]))
  BY <1>1, ThinnerParts
<1>3. ASSUME StartPass \/ NextPhase \/ \E c \in Clients : TakeTurn(c) \/ EndTurn(c) \/ TakeOp(c)
      PROVE  RepliesKept(d)'
  <2>1. UNCHANGED <<open, outbox, got, up, back, replied>>
    BY <1>3 DEF StartPass, NextPhase, TakeTurn, EndTurn, TakeOp, clientVars, remoteVars
  <2>. QED BY <1>0, <2>1, RepliesUnchanged
<1>4. ASSUME NEW c \in Clients, Connect(c)
      PROVE  RepliesKept(d)'
  <2>1. /\ loop.turn = c /\ loop.hand # <<>> /\ up[c].at = "none"
        /\ up' = [up EXCEPT ![c] = NewUpstream] /\ UNCHANGED <<open, outbox, got, back, replied>>
    BY <1>4 DEF Connect, clientVars, remoteVars
  <2>2. CASE d = c
    <3>1. replied[d] = 0
      BY <1>0, <2>1, <2>2 DEF SessionsInv, Fresh, Over
    <3>2. up[d] = NoUpstream /\ up'[d] = NewUpstream
      BY <1>0, <2>1, <2>2 DEF PlacesInv
    <3>3. up'[d].incoming = up[d].incoming
      BY <3>2, NewFields
    <3>4. 1 .. 0 = {}
      OBVIOUS
    <3>. QED BY <1>0, <2>1, <3>1, <3>3, <3>4 DEF RepliesKept, RepliesInLine, Near
  <2>3. CASE d # c
    <3>1. up'[d] = up[d]
      BY <1>0, <2>1, <2>3
    <3>. QED BY <1>0, <2>1, <3>1, RepliesUnchanged
  <2>. QED BY <2>2, <2>3
<1>5. ASSUME NEW c \in Clients, ConnectFails(c)
      PROVE  RepliesKept(d)'
  <2>1. CloseClients({c}) /\ UNCHANGED <<got, up, back, replied>>
    BY <1>5 DEF ConnectFails, remoteVars
  <2>2. open'[d] = (open[d] /\ d # c) /\ outbox'[d] = IF d = c THEN <<>> ELSE outbox[d]
    BY <2>1 DEF CloseClients
  <2>3. CASE d = c
    BY <1>0, <1>2, <2>1, <2>2, <2>3, RepliesLost
  <2>4. CASE d # c
    BY <1>0, <2>1, <2>2, <2>4, RepliesUnchanged
  <2>. QED BY <2>3, <2>4
<1>6. ASSUME NEW c \in Clients, Push(c)
      PROVE  RepliesKept(d)'
  <2>1. /\ up' = [up EXCEPT ![c].outgoing = Append(@, Outgoing(loop.hand[1]))]
        /\ UNCHANGED <<open, outbox, got, back, replied>>
    BY <1>6, Zenon DEF Push, clientVars, remoteVars
  <2>2. up'[d].incoming = up[d].incoming /\ up'[d].at = up[d].at
    BY <1>0, <2>1 DEF Upstream
  <2>. QED BY <1>0, <2>1, <2>2, RepliesUnchanged
<1>7. ASSUME NEW c \in Clients, Forwarding(c)
      PROVE  RepliesKept(d)'
  <2>1. /\ up[c].incoming # <<>> /\ up' = [up EXCEPT ![c].incoming = Tail(@)]
        /\ outbox' = IF open[c] THEN [outbox EXCEPT ![c] = Append(@, Head(up[c].incoming))]
                                ELSE outbox
        /\ UNCHANGED <<open, got, back, replied>>
    BY <1>7, Zenon DEF Forwarding, Forward, remoteVars
  <2>2. /\ d # c => up'[d] = up[d] /\ outbox'[d] = outbox[d]
        /\ up'[c].incoming = Tail(up[c].incoming) /\ up'[c].at = up[c].at
    BY <1>0, <2>1 DEF Upstream
  <2>3. CASE d # c
    BY <1>0, <2>1, <2>2, <2>3, RepliesUnchanged
  <2>4. CASE d = c /\ ~open[c]
    BY <1>0, <1>2, <2>1, <2>2, <2>4, RepliesLost
  <2>5. CASE d = c /\ open[c]
    <3>1. outbox'[d] = Append(outbox[d], Head(up[d].incoming))
      BY <1>0, <2>1, <2>5
    <3>2. Alike(got[d], outbox[d], up[d].incoming, Numbers(back[d]),
                got[d], Append(outbox[d], Head(up[d].incoming)), Tail(up[d].incoming),
                Numbers(back[d]))
      BY <1>1, <2>1, <2>5, MovedSecond
    <3>3. Near(d)' = Near(d)
      <4>1. /\ Head(up[d].incoming) \in Nat
            /\ Values(up[d].incoming) =
                    Values(Tail(up[d].incoming)) \cup ({Head(up[d].incoming)} \ {0})
        BY <1>1, <2>1, <2>5, Started
      <4>2. Values(Append(outbox[d], Head(up[d].incoming))) =
                Values(outbox[d]) \cup ({Head(up[d].incoming)} \ {0})
        BY <1>1, <4>1, Ended
      <4>. QED BY <2>1, <2>2, <2>5, <3>1, <4>1, <4>2, ZenonT(30) DEF Near
    <3>4. Gapless(Near(d)) /\ \A i \in DOMAIN got[d] : got[d][i] = i
      BY <1>0, <2>5 DEF RepliesKept
    <3>. QED BY <1>0, <2>1, <2>2, <2>5, <3>1, <3>2, <3>3, <3>4, RepliesMoved
  <2>. QED BY <2>3, <2>4, <2>5
<1>8. ASSUME Ending
      PROVE  RepliesKept(d)'
  <2>1. /\ UNCHANGED <<open, outbox, got, replied>> /\ Disconnected(Sessions)
        /\ up' = [e \in Clients |-> IF e \in Sessions THEN Shut(up[e]) ELSE up[e]]
    BY <1>8 DEF Ending, Crash, clientVars
  <2>2. back'[d] = IF d \in Sessions THEN <<>> ELSE back[d]
    BY <2>1 DEF Disconnected
  <2>3. CASE d \in Sessions
    <3>1. up'[d] = Shut(up[d])
      BY <2>1, <2>3
    <3>2. up'[d].incoming = up[d].incoming /\ up'[d].at = "closed"
      BY <1>0, <3>1, NewFields, ShutUpstream
    <3>3. Numbers(back'[d]) = <<>>
      BY <2>2, <2>3, PacketNumbers
    <3>. QED BY <1>0, <1>2, <2>1, <3>2, <3>3, RepliesLost
  <2>4. CASE d \notin Sessions
    <3>1. up'[d] = up[d]
      BY <2>1, <2>4
    <3>. QED BY <1>0, <2>1, <2>2, <2>4, <3>1, RepliesUnchanged
  <2>. QED BY <2>3, <2>4
<1>9. ASSUME NEW c \in Clients, Reap(c)
      PROVE  RepliesKept(d)'
  <2>1. /\ UNCHANGED <<got, replied>>
        /\ \/ up' = [up EXCEPT ![c] = NoUpstream] /\ Disconnected({c}) /\ CloseClients({c})
           \/ UNCHANGED <<open, outbox, up, back>>
    BY <1>9, Zenon DEF Reap
  <2>2. CASE UNCHANGED <<open, outbox, up, back>>
    BY <1>0, <2>1, <2>2, RepliesUnchanged
  <2>3. CASE up' = [up EXCEPT ![c] = NoUpstream] /\ Disconnected({c}) /\ CloseClients({c})
    <3>1. /\ open'[d] = (open[d] /\ d # c) /\ outbox'[d] = (IF d = c THEN <<>> ELSE outbox[d])
          /\ back'[d] = (IF d = c THEN <<>> ELSE back[d])
      BY <2>3 DEF CloseClients, Disconnected
    <3>2. CASE d = c
      <4>1. up'[d].incoming = <<>> /\ Numbers(back'[d]) = <<>>
        BY <1>0, <2>3, <3>1, <3>2, NewFields, PacketNumbers
      <4>. QED BY <1>0, <1>2, <2>1, <3>1, <3>2, <4>1, RepliesLost
    <3>3. CASE d # c
      <4>1. up'[d] = up[d]
        BY <1>0, <2>3, <3>3
      <4>. QED BY <1>0, <2>1, <3>1, <3>3, <4>1, RepliesUnchanged
    <3>. QED BY <3>2, <3>3
  <2>. QED BY <2>1, <2>2, <2>3
<1>10. CASE Asking
  <2>1. UNCHANGED <<open, outbox, got, up, back, replied>>
    BY <1>10 DEF Asking, clientVars, remoteVars
  <2>. QED BY <1>0, <2>1, RepliesUnchanged
<1>. QED BY <1>0, <1>3, <1>4, <1>5, <1>6, <1>7, <1>8, <1>9, <1>10, LoopCases, Zenon

LEMMA RepliesUpstream ==
    ASSUME LineInv, NEW c \in Clients, UpstreamStep(c), NEW d \in Clients
    PROVE  RepliesKept(d)'
<1>0. /\ RepliesKept(d) /\ TunnelInv /\ TypeOK /\ up \in [Clients -> Upstream] /\ up[c] \in Upstream
      /\ back \in [Clients -> Seq(FromRemote)] /\ back[c] \in Seq(FromRemote)
      /\ FromRemote \subseteq Packets
  BY PacketNumbers DEF LineInv, TunnelInv, TypeOK
<1>1. /\ UNCHANGED <<open, outbox, got, replied>> /\ up[c].at = "open"
      /\ \A e \in Clients : e # c => up'[e] = up[e]
  BY <1>0, UpstreamKept DEF clientVars
<1>2. /\ got[d] \in Seq(Nat) /\ outbox[d] \in Seq(Nat) /\ up[d].incoming \in Seq(Nat)
      /\ Numbers(back[d]) \in Seq(Nat) /\ replied[d] \in Nat
  BY <1>0, NumberTypes, Zenon
<1>3. /\ Thinner(outbox[d], outbox[d]) /\ Thinner(up[d].incoming, up[d].incoming)
      /\ Thinner(<<>>, Numbers(back[d]))
  BY <1>2, ThinnerParts
<1>4. CASE d # c
  <2>1. back'[d] = back[d]
    <3>1. CASE SendUp(c)
      BY <1>0, <1>4, <3>1 DEF SendUp
    <3>2. CASE SenderDies(c)
      BY <3>2 DEF SenderDies, remoteVars
    <3>3. CASE SendFails(c) \/ ReceiveEnd(c)
      BY <1>4, <3>3 DEF SendFails, ReceiveEnd, Disconnected
    <3>4. CASE ReceiveUp(c)
      BY <1>0, <1>4, <3>4 DEF ReceiveUp
    <3>. QED BY <3>1, <3>2, <3>3, <3>4, Zenon DEF UpstreamStep
  <2>. QED BY <1>0, <1>1, <1>4, <2>1, RepliesUnchanged
<1>5. CASE SendUp(c) /\ d = c
  <2>. DEFINE packet == Head(up[c].outgoing)
  <2>1. /\ up[c].outgoing # <<>> /\ up' = [up EXCEPT ![c].outgoing = Tail(@)]
    BY <1>5, Zenon DEF SendUp
  <2>2. up'[c].incoming = up[c].incoming /\ up'[c].at = up[c].at
    BY <1>0, <2>1 DEF Upstream
  <2>3. packet \in ToRemote
    <3>1. up[c].outgoing \in Seq(ToRemote)
      BY <1>0, UpstreamParts
    <3>. QED BY <2>1, <3>1
  <2>4. CASE packet.kind \in {"init", "dh"}
    <3>1. packet.n = 0 /\ packet \in FromRemote
      BY <2>3, <2>4 DEF ToRemote, FromRemote
    <3>2. back'[c] = Append(back[c], packet)
      BY <1>0, <1>5, <2>4 DEF SendUp
    <3>3. Numbers(Append(back[c], packet)) = Append(Numbers(back[c]), packet.n)
      BY <1>0, <3>1, NumbersEnded
    <3>4. Numbers(back'[d]) = Append(Numbers(back[d]), 0)
      BY <1>5, <3>1, <3>2, <3>3
    <3>5. Alike(got[d], outbox[d], up[d].incoming, Numbers(back[d]),
                got[d], outbox[d], up[d].incoming, Append(Numbers(back[d]), 0))
      BY <1>2, ZeroComes
    <3>6. Near(d)' = Near(d)
      BY <1>1, <1>5, <2>2 DEF Near
    <3>7. (open[d] => Gapless(Near(d))) /\ \A i \in DOMAIN got[d] : got[d][i] = i
      BY <1>0 DEF RepliesKept
    <3>. QED BY <1>0, <1>1, <1>5, <2>2, <3>4, <3>5, <3>6, <3>7, RepliesMoved
  <2>5. CASE packet.kind \notin {"init", "dh"}
    <3>1. UNCHANGED back
      BY <1>5, <2>5 DEF SendUp
    <3>. QED BY <1>0, <1>1, <1>5, <2>2, <3>1, RepliesUnchanged
  <2>. QED BY <2>4, <2>5
<1>6. CASE SenderDies(c) /\ d = c
  <2>1. UNCHANGED back
        /\ up' = [up EXCEPT ![c] = [up[c] EXCEPT !.sender = FALSE, !.outgoing = Tail(up[c].outgoing)]]
    BY <1>0, <1>6 DEF SenderDies, remoteVars
  <2>2. up'[c].incoming = up[c].incoming
    BY <1>0, <2>1, UpstreamFields
  <2>. QED BY <1>0, <1>1, <1>6, <2>1, <2>2, RepliesUnchanged
<1>7. CASE (SendFails(c) \/ ReceiveEnd(c)) /\ d = c
  <2>1. up' = [up EXCEPT ![c] = Shut(up[c])] /\ Disconnected({c})
    BY <1>7 DEF SendFails, ReceiveEnd
  <2>2. up'[c].incoming = up[c].incoming /\ up'[c].at = "closed"
    BY <1>0, <2>1, NewFields, ShutUpstream
  <2>3. back'[c] = <<>>
    BY <2>1 DEF Disconnected
  <2>4. Numbers(back'[c]) = <<>>
    BY <2>3, PacketNumbers
  <2>. QED BY <1>0, <1>1, <1>3, <1>7, <2>2, <2>4, RepliesLost
<1>8. CASE ReceiveUp(c) /\ d = c
  <2>. DEFINE packet == Head(back[c])
              u == Handle(up[c], packet)
  <2>1. back[c] # <<>> /\ up'[c] = u /\ back'[c] = Tail(back[c])
    BY <1>0, <1>8 DEF ReceiveUp
  <2>2. packet \in FromRemote
    BY <1>0, <2>1
  <2>3. /\ Numbers(back[c]) # <<>> /\ Head(Numbers(back[c])) = packet.n
        /\ Numbers(Tail(back[c])) = Tail(Numbers(back[c]))
    BY <1>0, <2>1, NumbersStarted
  <2>4. /\ \/ packet.n = 0 /\ u.incoming = up[c].incoming
           \/ packet.n # 0 /\ u.incoming = Append(up[c].incoming, packet.n)
        /\ u.at = up[c].at
    BY <1>0, <2>2, HandledFields, HandledPacket, Zenon
  <2>5. (open[d] => Gapless(Near(d))) /\ \A i \in DOMAIN got[d] : got[d][i] = i
    BY <1>0 DEF RepliesKept
  <2>. HIDE DEF u, packet
  <2>6. Numbers(back'[d]) = Tail(Numbers(back[d])) /\ up'[d].at = up[d].at
    BY <1>8, <2>1, <2>3, <2>4
  <2>7. CASE packet.n = 0
    <3>1. up'[d].incoming = up[d].incoming
      BY <1>8, <2>1, <2>4, <2>7
    <3>2. Alike(got[d], outbox[d], up[d].incoming, Numbers(back[d]),
                got[d], outbox[d], up[d].incoming, Tail(Numbers(back[d])))
      BY <1>2, <1>8, <2>3, <2>7, ZeroGoes
    <3>3. Near(d)' = Near(d)
      BY <1>1, <3>1 DEF Near
    <3>. QED BY <1>0, <1>1, <2>5, <2>6, <3>1, <3>2, <3>3, RepliesMoved
  <2>8. CASE packet.n # 0
    <3>1. up'[d].incoming = Append(up[d].incoming, Head(Numbers(back[d])))
      BY <1>8, <2>1, <2>3, <2>4, <2>8
    <3>2. Alike(got[d], outbox[d], up[d].incoming, Numbers(back[d]),
                got[d], outbox[d], Append(up[d].incoming, Head(Numbers(back[d]))),
                Tail(Numbers(back[d])))
      BY <1>2, <1>8, <2>3, MovedThird
    <3>3. Near(d)' = Near(d) \cup {packet.n}
      <4>1. packet.n \in Nat
        BY <1>0, <2>2, PacketNumbers
      <4>2. Values(Append(up[d].incoming, packet.n)) = Values(up[d].incoming) \cup {packet.n}
        BY <1>2, <2>8, <4>1, Ended
      <4>. QED BY <1>1, <1>8, <2>3, <3>1, <4>2 DEF Near
    <3>4. ASSUME open[d]
          PROVE  Gapless(Near(d)')
      <4>1. InLine(got[d], outbox[d], up[d].incoming, Numbers(back[d]), replied[d])
        BY <1>0 DEF RepliesKept, RepliesInLine
      <4>2. 1 .. replied[d] \subseteq All(got[d], outbox[d], up[d].incoming, Numbers(back[d]))
        BY <1>0, <1>1, <1>8, <3>4 DEF RepliesKept, RepliesPlaces
      <4>3. 1 .. packet.n \subseteq Near(d) \cup {packet.n}
        <5>1. Numbers(back[d]) # <<>> /\ Head(Numbers(back[d])) = packet.n
          BY <1>8, <2>3
        <5>2. 1 .. Head(Numbers(back[d])) \subseteq Values(got[d]) \cup Values(outbox[d])
                    \cup Values(up[d].incoming) \cup {Head(Numbers(back[d]))}
          BY <1>2, <4>1, <4>2, <5>1, NoGap
        <5>. QED BY <5>1, <5>2 DEF Near
      <4>. QED BY <2>5, <3>3, <3>4, <4>3 DEF Gapless
    <3>. QED BY <1>0, <1>1, <2>5, <2>6, <3>1, <3>2, <3>4, RepliesMoved
  <2>. QED BY <2>7, <2>8
<1>. QED BY <1>4, <1>5, <1>6, <1>7, <1>8, Zenon DEF UpstreamStep

LEMMA RepliesRemote ==
    ASSUME LineInv, NEW c \in Clients, RemoteReplies(c) \/ RemoteGarbles(c) \/ RemoteCloses(c),
           NEW d \in Clients
    PROVE  RepliesKept(d)'
<1>0. /\ RepliesKept(d) /\ TypeOK /\ back \in [Clients -> Seq(FromRemote)]
      /\ back[c] \in Seq(FromRemote) /\ FromRemote \subseteq Packets /\ replied \in [Clients -> Nat]
  BY PacketNumbers DEF LineInv, TunnelInv, TypeOK
<1>1. UNCHANGED <<open, outbox, got, up>> /\ Near(d)' = Near(d)
  BY DEF RemoteReplies, RemoteGarbles, RemoteCloses, clientVars, Near
<1>2. /\ got[d] \in Seq(Nat) /\ outbox[d] \in Seq(Nat) /\ up[d].incoming \in Seq(Nat)
      /\ Numbers(back[d]) \in Seq(Nat) /\ replied[d] \in Nat
  BY <1>0, NumberTypes, Zenon
<1>3. (open[d] => Gapless(Near(d))) /\ \A i \in DOMAIN got[d] : got[d][i] = i
  BY <1>0 DEF RepliesKept
<1>4. CASE d # c
  <2>1. back'[d] = back[d] /\ replied'[d] = replied[d]
    BY <1>0, <1>4 DEF RemoteReplies, RemoteGarbles, RemoteCloses
  <2>. QED BY <1>0, <1>1, <2>1, RepliesUnchanged
<1>5. CASE RemoteReplies(c) /\ d = c
  <2>. DEFINE packet == [n |-> replied[c] + 1, kind |-> "data"]
  <2>1. packet \in FromRemote /\ packet.n = replied[c] + 1
    BY <1>0 DEF FromRemote
  <2>2. back'[c] = Append(back[c], packet) /\ replied'[c] = replied[c] + 1 /\ up[c].at = "open"
    BY <1>0, <1>5 DEF RemoteReplies
  <2>. HIDE DEF packet
  <2>3. Numbers(Append(back[c], packet)) = Append(Numbers(back[c]), packet.n)
    BY <1>0, <2>1, NumbersEnded
  <2>4. Numbers(back'[d]) = Append(Numbers(back[d]), replied[d] + 1)
    BY <1>5, <2>1, <2>2, <2>3
  <2>5. InLine(got[d], outbox[d], up[d].incoming, Numbers(back[d]), replied[d])
    BY <1>0 DEF RepliesKept, RepliesInLine
  <2>6. Extended(got[d], outbox[d], up[d].incoming, Numbers(back[d]), replied[d],
                 Append(Numbers(back[d]), replied[d] + 1))
    BY <1>2, <2>5, JoinedLine
  <2>7. RepliesInLine(d)'
    BY <1>1, <1>5, <2>2, <2>4, <2>6 DEF RepliesInLine, Extended
  <2>8. RepliesPlaces(d)' = RepliesPlaces(d) \cup {replied[d] + 1}
    BY <1>1, <1>5, <2>2, <2>4, <2>6 DEF RepliesPlaces, Extended
  <2>9. 1 .. replied[d] + 1 = (1 .. replied[d]) \cup {replied[d] + 1}
    BY <1>2, NextNumber
  <2>10. open'[d] /\ up'[d].at = "open" => 1 .. replied'[d] \subseteq RepliesPlaces(d)'
    BY <1>0, <1>1, <1>5, <2>2, <2>8, <2>9 DEF RepliesKept
  <2>. QED BY <1>1, <1>3, <2>7, <2>10 DEF RepliesKept
<1>6. CASE RemoteGarbles(c) /\ d = c
  <2>1. Control("junk") \in FromRemote /\ Control("junk").n = 0
    BY DEF Control, FromRemote
  <2>2. back'[c] = Append(back[c], Control("junk")) /\ replied' = replied
    BY <1>0, <1>6 DEF RemoteGarbles
  <2>3. Numbers(Append(back[c], Control("junk"))) = Append(Numbers(back[c]), Control("junk").n)
    BY <1>0, <2>1, NumbersEnded
  <2>4. Numbers(back'[d]) = Append(Numbers(back[d]), 0)
    BY <1>6, <2>1, <2>2, <2>3
  <2>5. Alike(got[d], outbox[d], up[d].incoming, Numbers(back[d]),
              got[d], outbox[d], up[d].incoming, Append(Numbers(back[d]), 0))
    BY <1>2, ZeroComes
  <2>. QED BY <1>0, <1>1, <1>3, <2>2, <2>4, <2>5, RepliesMoved
<1>7. CASE RemoteCloses(c)
  BY <1>0, <1>1, <1>7, RepliesUnchanged DEF RemoteCloses
<1>. QED BY <1>4, <1>5, <1>6, <1>7

LEMMA RepliesStep ==
    ASSUME LineInv, Next, NEW d \in Clients
    PROVE  RepliesKept(d)'
BY RepliesClients, RepliesLoop, RepliesUpstream, RepliesRemote, Zenon DEF Next, LoopActs

-----------------------------------------------------------------------------
(* What the second invariant says.                                         *)

LEMMA LineInvariant == Spec => []LineInv
<1>1. LineInv /\ [Next]_vars => LineInv'
  <2>1. LineInv /\ Next => LineInv'
    <3>1. ASSUME LineInv, Next
          PROVE  LineInv'
      <4>1. TunnelInv /\ PlacesInv
        BY <3>1 DEF LineInv
      <4>2. TunnelInv' /\ PlacesInv'
        <5>1. TypeOK' /\ SessionsInv' /\ PlacesInv'
          BY <3>1, <4>1, TypeStep, SessionsStep, PlacesStep
        <5>. QED BY <5>1 DEF TunnelInv
      <4>3. \A c \in Clients : OpsKept(c)' /\ RepliesKept(c)'
        BY <3>1, OpsStep, RepliesStep
      <4>. QED BY <4>2, <4>3 DEF LineInv
    <3>. QED BY <3>1
  <2>2. LineInv /\ UNCHANGED vars => LineInv'
    <3>. SUFFICES ASSUME LineInv, UNCHANGED vars PROVE LineInv'
      OBVIOUS
    <3>. USE DEF vars, clientVars, remoteVars
    <3>1. TypeOK' /\ SessionsInv' /\ PlacesInv'
      BY DEF LineInv, TunnelInv, TypeOK, SessionsInv, PlacesInv, Fresh, Over
    <3>2. ASSUME NEW c \in Clients
          PROVE  OpsKept(c)' /\ RepliesKept(c)'
      <4>1. Hand(c)' = Hand(c)
        BY DEF Hand
      <4>2. OpsKept(c) /\ RepliesKept(c)
        BY DEF LineInv
      <4>. QED BY <4>1, <4>2, OpsUnchanged, RepliesUnchanged
    <3>. QED BY <3>1, <3>2 DEF LineInv, TunnelInv
  <2>. QED BY <2>1, <2>2
<1>. QED BY LineInit, <1>1, PTL DEF Spec

\* With any number of clients and operations, the remote server sees each client's
\* operations in order and once; while both ends are open and the send worker lives none
\* is lost, wherever the handshake's packets stand between them.
THEOREM OpsAreAccounted == Spec => []OpsAccounted
<1>1. LineInv => OpsAccounted
  <2>. SUFFICES ASSUME LineInv, NEW c \in Clients
                PROVE  /\ Rises(arrived[c])
                       /\ open[c] /\ up[c].at # "closed" /\ up[c].sender =>
                            AllUpTo(arrived[c] \o Numbers(up[c].outgoing) \o Hand(c)
                                        \o Numbers(inbox[c]), sent[c])
       BY DEF OpsAccounted
  <2>1. OpsKept(c) /\ TypeOK
    BY DEF LineInv, TunnelInv
  <2>2. /\ arrived[c] \in Seq(Nat) /\ Numbers(up[c].outgoing) \in Seq(Nat) /\ Hand(c) \in Seq(Nat)
        /\ Numbers(inbox[c]) \in Seq(Nat) /\ sent[c] \in Nat
    BY <2>1, NumberTypes, Zenon
  <2>3. InLine(arrived[c], Numbers(up[c].outgoing), Hand(c), Numbers(inbox[c]), sent[c])
    BY <2>1 DEF OpsKept, OpsInLine
  <2>4. Rises(arrived[c])
    BY <2>3 DEF InLine
  <2>5. ASSUME open[c] /\ up[c].at # "closed" /\ up[c].sender
        PROVE  AllUpTo(arrived[c] \o Numbers(up[c].outgoing) \o Hand(c) \o Numbers(inbox[c]), sent[c])
    <3>1. 1 .. sent[c] \subseteq
            All(arrived[c], Numbers(up[c].outgoing), Hand(c), Numbers(inbox[c]))
      BY <2>1, <2>5 DEF OpsKept, OpsPlaces
    <3>. QED BY <2>2, <2>3, <3>1, WholeLine
  <2>. QED BY <2>4, <2>5
<1>. QED BY <1>1, LineInvariant, PTL

\* A client gets the replies from the first one on, in order and without a gap; while both
\* ends are open all the remote server sent are with the client or on their way to it,
\* even when the receive worker has died.
THEOREM RepliesAreAccounted == Spec => []RepliesAccounted
<1>1. LineInv => RepliesAccounted
  <2>. SUFFICES ASSUME LineInv, NEW c \in Clients
                PROVE  /\ \A i \in DOMAIN got[c] : got[c][i] = i
                       /\ open[c] /\ up[c].at = "open" =>
                            AllUpTo(got[c] \o outbox[c] \o up[c].incoming \o Numbers(back[c]),
                                    replied[c])
       BY DEF RepliesAccounted
  <2>1. RepliesKept(c) /\ TypeOK
    BY DEF LineInv, TunnelInv
  <2>2. /\ got[c] \in Seq(Nat) /\ outbox[c] \in Seq(Nat) /\ up[c].incoming \in Seq(Nat)
        /\ Numbers(back[c]) \in Seq(Nat) /\ replied[c] \in Nat
    BY <2>1, NumberTypes, Zenon
  <2>3. InLine(got[c], outbox[c], up[c].incoming, Numbers(back[c]), replied[c])
    BY <2>1 DEF RepliesKept, RepliesInLine
  <2>4. \A i \in DOMAIN got[c] : got[c][i] = i
    BY <2>1 DEF RepliesKept
  <2>5. ASSUME open[c] /\ up[c].at = "open"
        PROVE  AllUpTo(got[c] \o outbox[c] \o up[c].incoming \o Numbers(back[c]), replied[c])
    <3>1. 1 .. replied[c] \subseteq All(got[c], outbox[c], up[c].incoming, Numbers(back[c]))
      BY <2>1, <2>5 DEF RepliesKept, RepliesPlaces
    <3>. QED BY <2>2, <2>3, <3>1, WholeLine
  <2>. QED BY <2>4, <2>5
<1>. QED BY <1>1, LineInvariant, PTL

=============================================================================
