------------------------- MODULE UpstreamRelayProofs -------------------------
(***************************************************************************)
(* Proofs about UpstreamRelay, for any number of connections, any sizes and *)
(* any timeout.                                                            *)
(***************************************************************************)
EXTENDS UpstreamRelay, TLAPS

\* TypeOK as the proofs use it: a set of variables with one type is written out.
Types ==
    /\ stage \in [Clients -> Stages] /\ app \in [Clients -> Apps]
    /\ backlog \in Seq(Clients) /\ accepter \in AtWork
    /\ target \in Hosts \cup {Unresolved}
    /\ sent \in EndWise(Nat)
    /\ arrived \in EndWise(Seq(Nat)) /\ hand \in EndWise(Seq(Nat))
    /\ written \in EndWise(Seq(Nat)) /\ got \in EndWise(Seq(Nat))
    /\ closed \in EndWise(BOOLEAN) /\ ended \in EndWise(BOOLEAN)

LEMMA TypesAreTypeOK == Types <=> TypeOK
BY DEF Types, TypeOK

-----------------------------------------------------------------------------
(* Lemmas about the operators.                                             *)

\* Setting one end of one connection keeps a variable's type.
LEMMA OneEnd ==
    ASSUME NEW S, NEW f \in EndWise(S), NEW c \in Clients, NEW e \in Ends, NEW v \in S
    PROVE  [f EXCEPT ![c][e] = v] \in EndWise(S)
BY DEF EndWise

\* So does setting both ends of one connection.
LEMMA BothEnds ==
    ASSUME NEW S, NEW f \in EndWise(S), NEW c \in Clients, NEW g \in [Ends -> S]
    PROVE  [f EXCEPT ![c] = g] \in EndWise(S)
BY DEF EndWise

LEMMA AtOneEnd ==
    ASSUME NEW S, NEW f \in EndWise(S), NEW c \in Clients, NEW e \in Ends
    PROVE  f[c][e] \in S
BY DEF EndWise

LEMMA OtherEnd == ASSUME NEW e \in Ends PROVE Other(e) \in Ends
BY DEF Other, Ends

LEMMA Pieces ==
    ASSUME NEW S, NEW s \in Seq(S)
    PROVE  /\ s # <<>> => Head(s) \in S /\ Tail(s) \in Seq(S)
           /\ \A n \in Nat : n <= Len(s) => SubSeq(s, 1, n) \in Seq(S)
           /\ \A n \in 1 .. Len(s) : SubSeq(s, n + 1, Len(s)) \in Seq(S)
OBVIOUS

LEMMA Values ==
    /\ Timeout \in Nat /\ Window \in Nat
    /\ "client" \in Ends /\ "far" \in Ends
    /\ Idle \in AtWork
BY SizeAssumption DEF Ends, Idle, AtWork

-----------------------------------------------------------------------------
(* Types, and how long the accepter is kept.                               *)

\* What PeekingBounded and the types need to be inductive: the accepter has a connection
\* in its hands unless it is idle, and each of its two peeks has had one timeout at most.
AccepterInv ==
    /\ accepter.at # "idle" => accepter.with \in Clients
    /\ accepter.at = "idle" => accepter.held = 0
    /\ accepter.at = "header" => accepter.held = accepter.waited
    /\ accepter.at = "packet" => accepter.held <= Timeout + accepter.waited
    /\ accepter.held <= 2 * Timeout

TypesInv == Types /\ AccepterInv

LEMMA TypesInit == Init => TypesInv
<1>. SUFFICES ASSUME Init PROVE TypesInv
     OBVIOUS
<1>1. \A S, v : v \in S => Each(v) \in EndWise(S)
  BY DEF Each, EndWise
<1>2. <<>> \in Seq(Nat) /\ <<>> \in Seq(Clients) /\ 0 \in Nat /\ FALSE \in BOOLEAN
  OBVIOUS
<1>3. /\ sent \in EndWise(Nat)
      /\ arrived \in EndWise(Seq(Nat)) /\ hand \in EndWise(Seq(Nat))
      /\ written \in EndWise(Seq(Nat)) /\ got \in EndWise(Seq(Nat))
      /\ closed \in EndWise(BOOLEAN) /\ ended \in EndWise(BOOLEAN)
  BY <1>1, <1>2, Zenon DEF Init
<1>4. /\ stage \in [Clients -> Stages] /\ app \in [Clients -> Apps]
      /\ backlog \in Seq(Clients) /\ target \in Hosts \cup {Unresolved}
  BY <1>2 DEF Init, Stages
<1>5. accepter \in AtWork
  BY Values, Zenon DEF Init
<1>6. AccepterInv
  BY Values DEF Init, AccepterInv, Idle
<1>. QED BY <1>3, <1>4, <1>5, <1>6, Zenon DEF TypesInv, Types

\* The accepter goes on to something else.
LEMMA ProceedType ==
    ASSUME accepter \in AtWork, NEW to \in {"header", "packet", "resolve", "connect", "local"},
           Proceed(to)
    PROVE  /\ accepter' \in AtWork
           /\ accepter'.at = to /\ accepter'.with = accepter.with
           /\ accepter'.waited = 0 /\ accepter'.held = accepter.held
<1>1. accepter = [at |-> accepter.at, with |-> accepter.with, waited |-> accepter.waited,
                  held |-> accepter.held]
  BY DEF AtWork
<1>2. accepter' = [at |-> to, with |-> accepter.with, waited |-> 0, held |-> accepter.held]
  BY <1>1 DEF Proceed
<1>3. accepter.with \in Clients \cup {Nobody} /\ accepter.held \in Nat /\ 0 \in 0 .. Timeout
  BY Values DEF AtWork
<1>. QED BY <1>2, <1>3 DEF AtWork

LEMMA AccepterType ==
    ASSUME TypesInv, AccepterStep
    PROVE  TypesInv'
<1>. USE DEF TypesInv
<1>1. CASE Accept
  <2>1. Head(backlog) \in Clients /\ Tail(backlog) \in Seq(Clients)
    BY <1>1 DEF Accept, Types
  <2>2. accepter' = [at |-> "header", with |-> Head(backlog), waited |-> 0, held |-> 0]
    BY <1>1 DEF Accept, Idle
  <2>3. accepter' \in AtWork
    BY <2>1, <2>2, Values DEF AtWork
  <2>4. stage' \in [Clients -> Stages]
    BY <1>1 DEF Accept, Types, Stages
  <2>5. AccepterInv'
    BY <2>1, <2>2, Values DEF AccepterInv
  <2>. QED BY <1>1, <2>1, <2>3, <2>4, <2>5, Zenon DEF Accept, Types, streams
<1>2. CASE PeekHeader
  <2>1. PICK to \in {"packet", "local"} : Proceed(to)
    BY <1>2, Zenon DEF PeekHeader
  <2>2. /\ accepter' \in AtWork /\ accepter'.at = to /\ accepter'.with = accepter.with
        /\ accepter'.waited = 0 /\ accepter'.held = accepter.held
    BY <2>1, ProceedType DEF Types
  <2>3. accepter.at = "header" /\ accepter.waited <= Timeout
    BY <1>2, Values DEF PeekHeader, Types, AtWork
  <2>4. AccepterInv'
    BY <2>2, <2>3, Values DEF AccepterInv
  <2>. QED BY <1>2, <2>2, <2>4, Zenon DEF PeekHeader, Types, streams
<1>3. CASE PeekPacket
  <2>1. PICK to \in {"local", "resolve"} : Proceed(to)
    BY <1>3, Zenon DEF PeekPacket
  <2>2. /\ accepter' \in AtWork /\ accepter'.at = to /\ accepter'.with = accepter.with
        /\ accepter'.waited = 0 /\ accepter'.held = accepter.held
    BY <2>1, ProceedType DEF Types
  <2>3. accepter.at = "packet"
    BY <1>3 DEF PeekPacket
  <2>4. AccepterInv'
    BY <2>2, <2>3, Values DEF AccepterInv
  <2>. QED BY <1>3, <2>2, <2>4, Zenon DEF PeekPacket, Types, streams
<1>4. CASE Resolve
  <2>1. /\ accepter' \in AtWork /\ accepter'.at = "connect" /\ accepter'.with = accepter.with
        /\ accepter'.waited = 0 /\ accepter'.held = accepter.held
    BY <1>4, ProceedType DEF Resolve, Types
  <2>2. target' \in Hosts \cup {Unresolved}
    BY <1>4 DEF Resolve, Types
  <2>3. AccepterInv'
    BY <1>4, <2>1, Values DEF AccepterInv, Resolve
  <2>. QED BY <1>4, <2>1, <2>2, <2>3, Zenon DEF Resolve, Types, streams
<1>5. CASE Unreachable
  <2>1. /\ accepter' \in AtWork /\ accepter'.at = "local" /\ accepter'.with = accepter.with
        /\ accepter'.waited = 0 /\ accepter'.held = accepter.held
    BY <1>5, ProceedType DEF Unreachable, Types
  <2>2. AccepterInv'
    BY <1>5, <2>1, Values DEF AccepterInv, Unreachable
  <2>. QED BY <1>5, <2>1, <2>2, Zenon DEF Unreachable, Types, streams
<1>6. ASSUME NEW outcome \in Stages, Finish(outcome)
      PROVE  /\ stage' \in [Clients -> Stages] /\ accepter' \in AtWork /\ AccepterInv'
             /\ app' = app /\ backlog' = backlog /\ target' = target
  <2>1. stage' \in [Clients -> Stages]
    BY <1>6 DEF Finish, Types
  <2>2. accepter' \in AtWork /\ AccepterInv'
    BY <1>6, Values DEF Finish, AccepterInv, Idle
  <2>. QED BY <1>6, <2>1, <2>2 DEF Finish
<1>7. CASE Relay \/ ServeLocally
  <2>1. PICK outcome \in Stages : Finish(outcome)
    BY <1>7 DEF Relay, ServeLocally, Stages
  <2>. QED BY <1>6, <1>7, <2>1, Zenon DEF Relay, ServeLocally, Types, streams
<1>8. CASE CannotServe
  <2>1. accepter.with \in Clients
    BY <1>8 DEF AccepterInv, CannotServe
  <2>2. Finish("dropped") /\ "dropped" \in Stages
    BY <1>8 DEF CannotServe, Stages
  <2>3. arrived' \in EndWise(Seq(Nat))
    <3>1. <<>> \in Seq(Nat)
      OBVIOUS
    <3>. QED BY <1>8, <2>1, <3>1, OneEnd, Values, Zenon DEF CannotServe, Types
  <2>. QED BY <1>6, <1>8, <2>2, <2>3, Zenon DEF CannotServe, Types
<1>. QED BY <1>1, <1>2, <1>3, <1>4, <1>5, <1>7, <1>8, Zenon DEF AccepterStep

LEMMA TickType ==
    ASSUME TypesInv, Tick
    PROVE  TypesInv'
<1>1. accepter' = [at |-> accepter.at, with |-> accepter.with, waited |-> accepter.waited + 1,
                   held |-> accepter.held + 1]
  BY DEF Tick, TypesInv, Types, AtWork
<1>2. accepter.waited \in 0 .. Timeout /\ accepter.held \in Nat /\ accepter.waited < Timeout
  BY DEF Tick, TypesInv, Types, AtWork
<1>3. accepter' \in AtWork
  <2>1. accepter.waited + 1 \in 0 .. Timeout /\ accepter.held + 1 \in Nat
    BY <1>2, Values
  <2>2. /\ accepter.at \in {"idle", "header", "packet", "resolve", "connect", "local"}
        /\ accepter.with \in Clients \cup {Nobody}
    BY DEF TypesInv, Types, AtWork
  <2>. QED BY <1>1, <2>1, <2>2, Zenon DEF AtWork
<1>4. AccepterInv'
  BY <1>1, <1>2, Values DEF AccepterInv, TypesInv, Tick, Peeking
<1>. QED BY <1>3, <1>4, Zenon DEF Tick, TypesInv, Types, streams

LEMMA PeerType ==
    ASSUME TypesInv, NEW c \in Clients,
           \/ Connects(c) \/ LocalReads(c)
           \/ \E e \in Ends : Sends(c, e) \/ Reads(c, e) \/ Closes(c, e)
    PROVE  TypesInv'
<1>. USE DEF TypesInv
<1>1. CASE Connects(c)
  <2>1. stage' \in [Clients -> Stages] /\ backlog' \in Seq(Clients)
    BY <1>1 DEF Connects, Types, Stages
  <2>. QED BY <1>1, <2>1, Zenon DEF Connects, Types, streams, AccepterInv
<1>2. CASE LocalReads(c)
  <2>1. arrived[c]["client"] \in Seq(Nat) /\ got[c]["far"] \in Seq(Nat)
    BY AtOneEnd, Values, Zenon DEF Types
  <2>2. got[c]["far"] \o arrived[c]["client"] \in Seq(Nat) /\ <<>> \in Seq(Nat)
    BY <2>1
  <2>3. got' \in EndWise(Seq(Nat)) /\ arrived' \in EndWise(Seq(Nat))
    BY <1>2, <2>2, OneEnd, Values, Zenon DEF LocalReads, Types
  <2>. QED BY <1>2, <2>3, Zenon DEF LocalReads, Types, door, AccepterInv
<1>3. ASSUME NEW e \in Ends, Sends(c, e) PROVE TypesInv'
  <2>1. sent[c][e] + 1 \in Nat
    <3>1. sent[c][e] \in Nat
      BY AtOneEnd, Zenon DEF Types
    <3>. QED BY <3>1
  <2>2. sent' \in EndWise(Nat)
    BY <1>3, <2>1, OneEnd, Zenon DEF Sends, Types
  <2>3. arrived[c][e] \in Seq(Nat) /\ sent'[c][e] \in Nat
    BY <2>2, AtOneEnd, Zenon DEF Types
  <2>4. Append(arrived[c][e], sent'[c][e]) \in Seq(Nat)
    BY <2>3
  <2>5. arrived' \in EndWise(Seq(Nat))
    BY <1>3, <2>4, OneEnd, Zenon DEF Sends, Types
  <2>. QED BY <1>3, <2>2, <2>5, Zenon DEF Sends, Types, door, AccepterInv
<1>4. ASSUME NEW e \in Ends, Reads(c, e) PROVE TypesInv'
  <2>1. got[c][e] \in Seq(Nat) /\ written[c][e] \in Seq(Nat) /\ written[c][e] # <<>>
    BY <1>4, AtOneEnd, Zenon DEF Types, Reads
  <2>2. Append(got[c][e], Head(written[c][e])) \in Seq(Nat) /\ Tail(written[c][e]) \in Seq(Nat)
    BY <2>1
  <2>3. got' \in EndWise(Seq(Nat)) /\ written' \in EndWise(Seq(Nat))
    BY <1>4, <2>2, OneEnd, Zenon DEF Reads, Types
  <2>. QED BY <1>4, <2>3, Zenon DEF Reads, Types, door, AccepterInv
<1>5. ASSUME NEW e \in Ends, Closes(c, e) PROVE TypesInv'
  <2>1. <<>> \in Seq(Nat) /\ TRUE \in BOOLEAN
    OBVIOUS
  <2>2. closed' \in EndWise(BOOLEAN) /\ written' \in EndWise(Seq(Nat))
    BY <1>5, <2>1, OneEnd, Zenon DEF Closes, Types
  <2>. QED BY <1>5, <2>2, Zenon DEF Closes, Types, door, AccepterInv
<1>. QED BY <1>1, <1>2, <1>3, <1>4, <1>5, Zenon

\* Closing both sockets: what of each end's written pieces is kept.
LEMMA ShutBothType ==
    ASSUME TypesInv, NEW c \in Clients, NEW e \in Ends, ShutBoth(c, e)
    PROVE  TypesInv'
<1>. USE DEF TypesInv
<1>1. <<>> \in Seq(Nat) /\ TRUE \in BOOLEAN
  OBVIOUS
<1>2. ended' \in EndWise(BOOLEAN) /\ hand' \in EndWise(Seq(Nat))
  BY <1>1, OneEnd, Zenon DEF ShutBoth, Types
<1>3. arrived' \in EndWise(Seq(Nat))
  <2>1. [x \in Ends |-> <<>>] \in [Ends -> Seq(Nat)]
    BY <1>1
  <2>. QED BY <2>1, BothEnds, Zenon DEF ShutBoth, Types
<1>4. written' \in EndWise(Seq(Nat))
  <2>1. PICK kept \in [Ends -> 0 .. Window] :
            /\ \A x \in Ends : kept[x] <= Len(written[c][x])
            /\ written' = [written EXCEPT ![c] = [x \in Ends |-> SubSeq(written[c][x], 1, kept[x])]]
    BY DEF ShutBoth
  <2>2. ASSUME NEW x \in Ends PROVE SubSeq(written[c][x], 1, kept[x]) \in Seq(Nat)
    <3>1. written[c][x] \in Seq(Nat)
      BY AtOneEnd, Zenon DEF Types
    <3>2. kept[x] \in Nat /\ kept[x] <= Len(written[c][x])
      BY <2>1, Values
    <3>. QED BY <3>1, <3>2, Pieces, Zenon
  <2>3. [x \in Ends |-> SubSeq(written[c][x], 1, kept[x])] \in [Ends -> Seq(Nat)]
    BY <2>2, Zenon
  <2>. QED BY <2>1, <2>3, BothEnds, Zenon DEF Types
<1>. QED BY <1>2, <1>3, <1>4, Zenon DEF ShutBoth, Types, door, AccepterInv

LEMMA ForwardType ==
    ASSUME TypesInv, NEW c \in Clients, NEW e \in Ends, Forward(c, e)
    PROVE  TypesInv'
<1>. USE DEF TypesInv
<1>1. CASE Receive(c, e)
  <2>1. PICK n \in 1 .. Len(arrived[c][e]) :
            /\ hand' = [hand EXCEPT ![c][e] = SubSeq(arrived[c][e], 1, n)]
            /\ arrived' = [arrived EXCEPT ![c][e] = SubSeq(arrived[c][e], n + 1, Len(arrived[c][e]))]
    BY <1>1 DEF Receive
  <2>2. arrived[c][e] \in Seq(Nat)
    BY AtOneEnd, Zenon DEF Types
  <2>3. n \in Nat /\ n <= Len(arrived[c][e])
    BY <2>2
  <2>4. /\ SubSeq(arrived[c][e], 1, n) \in Seq(Nat)
        /\ SubSeq(arrived[c][e], n + 1, Len(arrived[c][e])) \in Seq(Nat)
    BY <2>2, <2>3, Pieces, Zenon
  <2>5. hand' \in EndWise(Seq(Nat)) /\ arrived' \in EndWise(Seq(Nat))
    BY <2>1, <2>4, OneEnd, Zenon DEF Types
  <2>. QED BY <1>1, <2>5, Zenon DEF Receive, Types, door, AccepterInv
<1>2. CASE Send(c, e)
  <2>1. Other(e) \in Ends
    BY OtherEnd, Zenon
  <2>2. /\ hand[c][e] \in Seq(Nat) /\ hand[c][e] # <<>>
        /\ written[c][Other(e)] \in Seq(Nat)
    BY <1>2, <2>1, AtOneEnd, Zenon DEF Types, Send
  <2>3. Append(written[c][Other(e)], Head(hand[c][e])) \in Seq(Nat) /\ Tail(hand[c][e]) \in Seq(Nat)
    BY <2>2, SMTT(20)
  <2>4. written' \in EndWise(Seq(Nat)) /\ hand' \in EndWise(Seq(Nat))
    BY <1>2, <2>1, <2>3, OneEnd, Zenon DEF Send, Types
  <2>. QED BY <1>2, <2>4, Zenon DEF Send, Types, door, AccepterInv
<1>3. CASE DirectionEnds(c, e)
  BY <1>3, ShutBothType, Zenon DEF DirectionEnds
<1>. QED BY <1>1, <1>2, <1>3, Zenon DEF Forward

LEMMA TypesStep == TypesInv /\ [Next]_vars => TypesInv'
<1>. SUFFICES ASSUME TypesInv, [Next]_vars PROVE TypesInv'
     OBVIOUS
<1>1. CASE UNCHANGED vars
  BY <1>1, Zenon DEF TypesInv, Types, AccepterInv, vars, door, streams
<1>2. CASE Next
  BY <1>2, AccepterType, TickType, PeerType, ForwardType, Zenon DEF Next
<1>. QED BY <1>1, <1>2, Zenon

\* Every reachable state has its type.
THEOREM TypeCorrect == Spec => []TypeOK
<1>1. TypesInv => TypeOK
  BY TypesAreTypeOK, Zenon DEF TypesInv
<1>. QED BY <1>1, TypesInit, TypesStep, PTL DEF Spec

\* Whatever a connection does, the accepter peeks at it for two timeouts at most, so that
\* one timeout (INIT_PEEK_TIMEOUT) is half of what the connections behind it may wait.
THEOREM PeekingIsBounded == Spec => []PeekingBounded
<1>1. TypesInv => PeekingBounded
  BY DEF TypesInv, AccepterInv, PeekingBounded
<1>. QED BY <1>1, TypesInit, TypesStep, PTL DEF Spec

-----------------------------------------------------------------------------
(* Nothing is lost, doubled or reordered.                                  *)

\* A sequence that counts from 1.
Count(s) == s = UpTo(Len(s))

LEMMA UpToIsSeq == ASSUME NEW n \in Nat PROVE UpTo(n) \in Seq(Nat) /\ Len(UpTo(n)) = n
BY DEF UpTo

LEMMA IsUpTo ==
    ASSUME NEW s \in Seq(Nat), NEW n \in Nat, Len(s) = n, \A i \in 1 .. n : s[i] = i
    PROVE  s = UpTo(n)
BY DEF UpTo

LEMMA CountPrefix ==
    ASSUME NEW a \in Seq(Nat), NEW b \in Seq(Nat), Count(a \o b)
    PROVE  Count(a)
<1>1. \A i \in 1 .. Len(a) : (a \o b)[i] = a[i] /\ i \in 1 .. Len(a \o b)
  OBVIOUS
<1>2. \A i \in 1 .. Len(a) : a[i] = i
  BY <1>1 DEF Count, UpTo
<1>. QED BY <1>2 DEF Count, UpTo

LEMMA CountCut ==
    ASSUME NEW a \in Seq(Nat), NEW b \in Seq(Nat), Count(a \o b),
           NEW k \in Nat, k <= Len(b)
    PROVE  Count(a \o SubSeq(b, 1, k))
<1>. DEFINE cut == a \o SubSeq(b, 1, k)
<1>1. cut \in Seq(Nat) /\ Len(cut) = Len(a) + k
  OBVIOUS
<1>2. \A i \in 1 .. Len(cut) : cut[i] = (a \o b)[i] /\ i \in 1 .. Len(a \o b)
  <2>1. SubSeq(b, 1, k) \in Seq(Nat) /\ Len(SubSeq(b, 1, k)) = k
    OBVIOUS
  <2>2. \A i \in 1 .. k : SubSeq(b, 1, k)[i] = b[i]
    OBVIOUS
  <2>. QED BY <2>1, <2>2
<1>3. \A i \in 1 .. Len(cut) : cut[i] = i
  BY <1>2 DEF Count, UpTo
<1>4. Len(cut) \in Nat
  BY <1>1
<1>. HIDE DEF cut
<1>5. Count(cut)
  BY <1>1, <1>3, <1>4, IsUpTo DEF Count
<1>. QED BY <1>5 DEF cut

LEMMA CountIsUpTo ==
    ASSUME NEW s \in Seq(Nat), NEW n \in Nat, s = UpTo(n)
    PROVE  Count(s)
BY UpToIsSeq DEF Count

LEMMA Concatenated ==
    ASSUME NEW a \in Seq(Nat), NEW b \in Seq(Nat)
    PROVE  a \o b \in Seq(Nat)
OBVIOUS

LEMMA Appended ==
    ASSUME NEW a \in Seq(Nat), NEW b \in Seq(Nat), NEW x \in Nat
    PROVE  a \o Append(b, x) = Append(a \o b, x)
OBVIOUS

LEMMA OneMore ==
    ASSUME NEW a \in Seq(Nat), NEW b \in Seq(Nat), NEW n \in Nat, a \o b = UpTo(n)
    PROVE  a \o Append(b, n + 1) = UpTo(n + 1)
<1>1. ASSUME NEW s \in Seq(Nat), s = UpTo(n) PROVE Append(s, n + 1) = UpTo(n + 1)
  <2>1. Len(s) = n /\ \A i \in 1 .. n : s[i] = i
    BY <1>1, UpToIsSeq DEF UpTo
  <2>2. /\ Append(s, n + 1) \in Seq(Nat) /\ Len(Append(s, n + 1)) = n + 1
        /\ \A i \in 1 .. n + 1 : Append(s, n + 1)[i] = i
    BY <2>1
  <2>3. n + 1 \in Nat
    OBVIOUS
  <2>4. ASSUME NEW t \in Seq(Nat), Len(t) = n + 1, \A i \in 1 .. n + 1 : t[i] = i
        PROVE  t = UpTo(n + 1)
    BY <2>3, <2>4, IsUpTo
  <2>. DEFINE t == Append(s, n + 1)
  <2>5. t \in Seq(Nat) /\ Len(t) = n + 1 /\ \A i \in 1 .. n + 1 : t[i] = i
    BY <2>2, Zenon
  <2>. HIDE DEF t
  <2>6. t = UpTo(n + 1)
    BY <2>4, <2>5, Zenon
  <2>. QED BY <2>6 DEF t
<1>2. a \o b \in Seq(Nat)
  BY Concatenated, Zenon
<1>3. n + 1 \in Nat
  OBVIOUS
<1>. QED BY <1>1, <1>2, <1>3, Appended, Zenon

LEMMA Empty == ASSUME NEW a \in Seq(Nat) PROVE a \o <<>> = a /\ <<>> \o a = a /\ <<>> \in Seq(Nat)
OBVIOUS

LEMMA Moved ==
    ASSUME NEW a \in Seq(Nat), NEW b \in Seq(Nat), b # <<>>
    PROVE  Append(a, Head(b)) \o Tail(b) = a \o b
BY SMTT(20)

LEMMA Joined ==
    ASSUME NEW a \in Seq(Nat), NEW n \in 1 .. Len(a)
    PROVE  SubSeq(a, 1, n) \o SubSeq(a, n + 1, Len(a)) = a
OBVIOUS

LEMMA Regrouped ==
    ASSUME NEW a \in Seq(Nat), NEW b \in Seq(Nat), NEW c \in Seq(Nat)
    PROVE  (a \o b) \o c = a \o (b \o c)
OBVIOUS

\* What is on its way from e to the other end: with that end and in its buffers, and further
\* with the thread that forwards and still unread.
Delivered(c, e) == got[c][Other(e)] \o written[c][Other(e)]
Line(c, e) == Delivered(c, e) \o hand[c][e] \o arrived[c][e]

\* Verbatim asks for nothing of what is written and not read; a piece may be lost from there,
\* and from there only, when an end closes, so what is delivered has to be in order too.
StreamInv(c) ==
    /\ stage[c] # "relayed" =>
            /\ ~closed[c]["far"]
            /\ \A e \in Ends : ~ended[c][e] /\ hand[c][e] = <<>> /\ written[c][e] = <<>>
    /\ \A e \in Ends : Count(Delivered(c, e))
    /\ \A e \in Ends : ~Shut(c) /\ ~closed[c][Other(e)] /\ stage[c] # "dropped" =>
            Line(c, e) = UpTo(sent[c][e])

\* A connection is handed on once: it waits in one place of the backlog or is with the accepter.
DoorInv ==
    /\ \A i \in DOMAIN backlog : stage[backlog[i]] = "backlog"
    /\ \A i, j \in DOMAIN backlog : backlog[i] = backlog[j] => i = j
    /\ accepter.at # "idle" => stage[accepter.with] = "accepted"

RelayInv == TypesInv /\ DoorInv /\ \A c \in Clients : StreamInv(c)

LEMMA RelayInit == Init => RelayInv
<1>. SUFFICES ASSUME Init PROVE RelayInv
     OBVIOUS
<1>1. TypesInv
  BY TypesInit
<1>2. DoorInv
  BY DEF Init, DoorInv, Idle
<1>3. ASSUME NEW c \in Clients PROVE StreamInv(c)
  <2>1. \A e \in Ends : /\ sent[c][e] = 0 /\ arrived[c][e] = <<>> /\ hand[c][e] = <<>>
                        /\ written[c][e] = <<>> /\ got[c][e] = <<>>
                        /\ ~closed[c][e] /\ ~ended[c][e]
    BY DEF Init, Each
  <2>2. \A e \in Ends : Delivered(c, e) = <<>> /\ Line(c, e) = <<>>
    BY <2>1, OtherEnd DEF Delivered, Line
  <2>3. UpTo(0) = <<>> /\ Count(<<>>)
    BY DEF UpTo, Count
  <2>. QED BY <2>1, <2>2, <2>3, Values DEF StreamInv
<1>. QED BY <1>1, <1>2, <1>3 DEF RelayInv

LEMMA LineTypes ==
    ASSUME Types, NEW c \in Clients, NEW e \in Ends
    PROVE  /\ Other(e) \in Ends /\ Other(Other(e)) = e /\ Other(e) # e
           /\ got[c][Other(e)] \in Seq(Nat) /\ written[c][Other(e)] \in Seq(Nat)
           /\ hand[c][e] \in Seq(Nat) /\ arrived[c][e] \in Seq(Nat)
           /\ sent[c][e] \in Nat
           /\ Delivered(c, e) \in Seq(Nat)
<1>1. Other(e) \in Ends /\ Other(Other(e)) = e /\ Other(e) # e
  BY DEF Other, Ends
<1>2. /\ got[c][Other(e)] \in Seq(Nat) /\ written[c][Other(e)] \in Seq(Nat)
      /\ hand[c][e] \in Seq(Nat) /\ arrived[c][e] \in Seq(Nat)
      /\ sent[c][e] \in Nat
  BY <1>1, AtOneEnd, Zenon DEF Types
<1>. QED BY <1>1, <1>2, Concatenated, Zenon DEF Delivered

\* A step that leaves a connection's data alone and takes it neither out of a relay nor from
\* among the dropped ones.
LEMMA Untouched ==
    ASSUME NEW c \in Clients, StreamInv(c),
           sent'[c] = sent[c], arrived'[c] = arrived[c], hand'[c] = hand[c],
           written'[c] = written[c], got'[c] = got[c], closed'[c] = closed[c],
           ended'[c] = ended[c],
           stage[c] = "relayed" => stage'[c] = "relayed",
           stage[c] = "dropped" => stage'[c] = "dropped"
    PROVE  StreamInv(c)'
<1>1. \A e \in Ends : Delivered(c, e)' = Delivered(c, e) /\ Line(c, e)' = Line(c, e)
  BY Zenon DEF Delivered, Line
<1>2. Shut(c)' = Shut(c)
  BY Zenon DEF Shut
<1>3. \A e \in Ends : Count(Delivered(c, e))'
  BY <1>1, Zenon DEF StreamInv, Count
<1>4. stage'[c] # "relayed" =>
            /\ ~closed'[c]["far"]
            /\ \A e \in Ends : ~ended'[c][e] /\ hand'[c][e] = <<>> /\ written'[c][e] = <<>>
  BY Zenon DEF StreamInv
<1>5. \A e \in Ends : Shut(c)' \/ closed'[c][Other(e)] \/ stage'[c] = "dropped"
                        \/ Line(c, e)' = UpTo(sent'[c][e])
  BY <1>1, <1>2, Zenon DEF StreamInv
<1>. QED BY <1>3, <1>4, <1>5, Zenon DEF StreamInv

\* The accepter and the clock.
LEMMA DoorStep ==
    ASSUME RelayInv, AccepterStep \/ Tick \/ (\E c \in Clients : Connects(c))
    PROVE  DoorInv' /\ \A c \in Clients : StreamInv(c)'
<1>. USE DEF RelayInv, TypesInv
<1>1. ASSUME UNCHANGED <<streams, closed, ended>>,
             \A c \in Clients : /\ stage[c] = "relayed" => stage'[c] = "relayed"
                                /\ stage[c] = "dropped" => stage'[c] = "dropped"
      PROVE  \A c \in Clients : StreamInv(c)'
  BY <1>1, Untouched, Zenon DEF streams
<1>2. CASE Accept
  <2>1. /\ Head(backlog) \in Clients /\ stage[Head(backlog)] = "backlog"
        /\ Head(backlog) = backlog[1] /\ 1 \in DOMAIN backlog
    BY <1>2 DEF Accept, Types, DoorInv
  <2>2. \A i \in DOMAIN backlog' : /\ i + 1 \in DOMAIN backlog /\ backlog'[i] = backlog[i + 1]
                                   /\ backlog'[i] \in Clients /\ i \in Nat /\ i >= 1
    BY <1>2 DEF Accept, Types
  <2>3. stage' = [stage EXCEPT ![Head(backlog)] = "accepted"] /\ stage \in [Clients -> Stages]
    BY <1>2 DEF Accept, Types
  <2>4. \A i \in DOMAIN backlog' : stage'[backlog'[i]] = "backlog"
    <3>1. \A i \in DOMAIN backlog' : backlog'[i] # Head(backlog)
      BY <2>1, <2>2 DEF DoorInv
    <3>2. \A i \in DOMAIN backlog' : stage[backlog'[i]] = "backlog"
      BY <2>2 DEF DoorInv
    <3>. QED BY <2>2, <2>3, <3>1, <3>2
  <2>5. \A i, j \in DOMAIN backlog' : backlog'[i] = backlog'[j] => i = j
    <3>1. ASSUME NEW i \in DOMAIN backlog', NEW j \in DOMAIN backlog', backlog'[i] = backlog'[j]
          PROVE  i = j
      <4>1. i + 1 = j + 1
        BY <2>2, <3>1 DEF DoorInv
      <4>. QED BY <2>2, <4>1
    <3>. QED BY <3>1
  <2>6. accepter'.with = Head(backlog)
    BY <1>2 DEF Accept, Idle
  <2>7. DoorInv'
    BY <2>1, <2>3, <2>4, <2>5, <2>6 DEF DoorInv
  <2>8. \A c \in Clients : /\ stage[c] = "relayed" => stage'[c] = "relayed"
                           /\ stage[c] = "dropped" => stage'[c] = "dropped"
    BY <2>1, <2>3
  <2>. QED BY <1>1, <1>2, <2>7, <2>8, Zenon DEF Accept
<1>3. ASSUME NEW to \in {"header", "packet", "resolve", "connect", "local"}, Proceed(to),
             accepter.at # "idle", UNCHANGED <<stage, backlog, streams, closed, ended>>
      PROVE  DoorInv' /\ \A c \in Clients : StreamInv(c)'
  <2>1. accepter'.with = accepter.with
    BY <1>3, ProceedType, Zenon DEF Types
  <2>2. DoorInv'
    BY <1>3, <2>1, Zenon DEF DoorInv
  <2>. QED BY <1>1, <1>3, <2>2, Zenon
<1>4. CASE PeekHeader \/ PeekPacket \/ Resolve \/ Unreachable
  <2>1. PICK to \in {"header", "packet", "resolve", "connect", "local"} : Proceed(to)
    BY <1>4, Zenon DEF PeekHeader, PeekPacket, Resolve, Unreachable
  <2>2. accepter.at # "idle" /\ UNCHANGED <<stage, backlog, streams, closed, ended>>
    BY <1>4 DEF PeekHeader, PeekPacket, Resolve, Unreachable
  <2>. QED BY <1>3, <2>1, <2>2, Zenon
<1>5. CASE Tick
  <2>1. accepter.at # "idle" /\ accepter'.with = accepter.with
    BY <1>5 DEF Tick, Peeking, Types, AtWork
  <2>2. DoorInv'
    BY <1>5, <2>1, Zenon DEF DoorInv, Tick
  <2>. QED BY <1>1, <1>5, <2>2, Zenon DEF Tick
<1>6. ASSUME NEW outcome \in {"relayed", "local", "dropped"}, Finish(outcome), accepter.at # "idle"
      PROVE  /\ DoorInv' /\ stage'[accepter.with] = outcome /\ accepter.with \in Clients
             /\ stage[accepter.with] = "accepted"
             /\ \A c \in Clients \ {accepter.with} : stage'[c] = stage[c]
  <2>1. accepter.with \in Clients /\ stage[accepter.with] = "accepted"
    BY <1>6 DEF AccepterInv, DoorInv
  <2>2. /\ stage' = [stage EXCEPT ![accepter.with] = outcome]
        /\ accepter' = Idle /\ backlog' = backlog /\ stage \in [Clients -> Stages]
    BY <1>6 DEF Finish, Types
  <2>3. \A i \in DOMAIN backlog : backlog[i] \in Clients /\ backlog[i] # accepter.with
    BY <2>1 DEF Types, DoorInv
  <2>4. DoorInv'
    BY <2>2, <2>3 DEF DoorInv, Idle
  <2>. QED BY <2>1, <2>2, <2>4
<1>7. CASE Relay \/ ServeLocally
  <2>1. PICK outcome \in {"relayed", "local", "dropped"} : Finish(outcome)
    BY <1>7, Zenon DEF Relay, ServeLocally
  <2>2. accepter.at # "idle" /\ UNCHANGED <<streams, closed, ended>>
    BY <1>7 DEF Relay, ServeLocally
  <2>3. \A c \in Clients : /\ stage[c] = "relayed" => stage'[c] = "relayed"
                           /\ stage[c] = "dropped" => stage'[c] = "dropped"
    BY <1>6, <2>1, <2>2
  <2>. QED BY <1>1, <1>6, <2>1, <2>2, <2>3, Zenon
<1>8. CASE CannotServe
  <2>1. Finish("dropped") /\ accepter.at # "idle"
    BY <1>8 DEF CannotServe
  <2>a. PICK c \in Clients : c = accepter.with
    BY <1>6, <2>1
  <2>2. /\ DoorInv' /\ stage'[c] = "dropped" /\ c \in Clients /\ stage[c] = "accepted"
        /\ \A d \in Clients \ {c} : stage'[d] = stage[d]
    BY <1>6, <2>1, <2>a, Zenon
  <2>3. /\ arrived' = [arrived EXCEPT ![c]["client"] = <<>>]
        /\ UNCHANGED <<sent, hand, written, got, closed, ended>>
    BY <1>8, <2>a, Zenon DEF CannotServe
  <2>4. ASSUME NEW d \in Clients, d # c PROVE StreamInv(d)'
    <3>1. arrived'[d] = arrived[d]
      BY <2>2, <2>3, <2>4 DEF Types, EndWise
    <3>. QED BY <2>2, <2>3, <2>4, <3>1, Untouched, Zenon
  <2>5. StreamInv(c)'
    <3>1. \A e \in Ends : Delivered(c, e)' = Delivered(c, e)
      BY <2>3, Zenon DEF Delivered
    <3>2. \A e \in Ends : Count(Delivered(c, e))'
      BY <2>2, <3>1, Zenon DEF StreamInv, Count
    <3>3. /\ ~closed'[c]["far"]
          /\ \A e \in Ends : ~ended'[c][e] /\ hand'[c][e] = <<>> /\ written'[c][e] = <<>>
      <4>1. stage[c] # "relayed"
        BY <2>2
      <4>. QED BY <2>2, <2>3, <4>1, Zenon DEF StreamInv
    <3>. QED BY <2>2, <3>2, <3>3, Zenon DEF StreamInv
  <2>. QED BY <2>2, <2>4, <2>5, Zenon
<1>9. ASSUME NEW c \in Clients, Connects(c) PROVE DoorInv' /\ \A d \in Clients : StreamInv(d)'
  <2>1. /\ stage[c] = "away" /\ stage' = [stage EXCEPT ![c] = "backlog"]
        /\ backlog' = Append(backlog, c) /\ accepter' = accepter
        /\ backlog \in Seq(Clients) /\ stage \in [Clients -> Stages]
    BY <1>9 DEF Connects, Types
  <2>2. \A i \in DOMAIN backlog : stage[backlog[i]] = "backlog" /\ backlog[i] \in Clients
    BY <2>1 DEF DoorInv
  <2>3. \A i \in DOMAIN backlog' : \/ i \in DOMAIN backlog /\ backlog'[i] = backlog[i]
                                   \/ i = Len(backlog) + 1 /\ backlog'[i] = c
    BY <2>1
  <2>4. \A i \in DOMAIN backlog' : stage'[backlog'[i]] = "backlog"
    BY <2>1, <2>2, <2>3
  <2>5. \A i, j \in DOMAIN backlog' : backlog'[i] = backlog'[j] => i = j
    <3>1. \A i \in DOMAIN backlog : backlog[i] # c
      BY <2>1, <2>2
    <3>. QED BY <2>3, <3>1 DEF DoorInv
  <2>6. accepter'.at # "idle" => stage'[accepter'.with] = "accepted"
    BY <2>1 DEF DoorInv, AccepterInv
  <2>7. \A d \in Clients : /\ stage[d] = "relayed" => stage'[d] = "relayed"
                           /\ stage[d] = "dropped" => stage'[d] = "dropped"
    BY <2>1
  <2>. QED BY <1>1, <1>9, <2>4, <2>5, <2>6, <2>7, Zenon DEF DoorInv, Connects
<1>. QED BY <1>2, <1>4, <1>5, <1>7, <1>8, <1>9, Zenon DEF AccepterStep

\* Only connection c is touched.
OthersKept(c) ==
    \A d \in Clients : d # c =>
        /\ sent'[d] = sent[d] /\ arrived'[d] = arrived[d] /\ hand'[d] = hand[d]
        /\ written'[d] = written[d] /\ got'[d] = got[d]
        /\ closed'[d] = closed[d] /\ ended'[d] = ended[d]

LEMMA OneConnection ==
    ASSUME RelayInv, NEW c \in Clients, UNCHANGED door, OthersKept(c), StreamInv(c)'
    PROVE  DoorInv' /\ \A d \in Clients : StreamInv(d)'
<1>1. DoorInv'
  BY Zenon DEF RelayInv, DoorInv, door
<1>2. ASSUME NEW d \in Clients, d # c PROVE StreamInv(d)'
  BY <1>2, Untouched, Zenon DEF OthersKept, RelayInv, door
<1>. QED BY <1>1, <1>2, Zenon

LEMMA SendsStep ==
    ASSUME RelayInv, NEW c \in Clients, NEW e \in Ends, Sends(c, e)
    PROVE  StreamInv(c)' /\ OthersKept(c)
<1>. USE DEF RelayInv, TypesInv
<1>1. /\ sent' = [sent EXCEPT ![c][e] = sent[c][e] + 1]
      /\ arrived' = [arrived EXCEPT ![c][e] = Append(arrived[c][e], sent'[c][e])]
      /\ UNCHANGED <<stage, hand, written, got, closed, ended>>
  BY Zenon DEF Sends, door
<1>2. /\ sent'[c][e] = sent[c][e] + 1
      /\ \A x \in Ends : x # e => sent'[c][x] = sent[c][x] /\ arrived'[c][x] = arrived[c][x]
      /\ arrived'[c][e] = Append(arrived[c][e], sent[c][e] + 1)
      /\ OthersKept(c)
  <2>1. /\ sent'[c][e] = sent[c][e] + 1
        /\ \A x \in Ends : x # e => sent'[c][x] = sent[c][x]
        /\ \A d \in Clients : d # c => sent'[d] = sent[d]
    <3>1. sent \in EndWise(Nat)
      BY DEF Types
    <3>. QED BY <1>1, <3>1, Values DEF EndWise
  <2>2. /\ arrived'[c][e] = Append(arrived[c][e], sent'[c][e])
        /\ \A x \in Ends : x # e => arrived'[c][x] = arrived[c][x]
        /\ \A d \in Clients : d # c => arrived'[d] = arrived[d]
    <3>1. arrived \in EndWise(Seq(Nat))
      BY DEF Types
    <3>. QED BY <1>1, <3>1, Values DEF EndWise
  <2>. QED BY <1>1, <2>1, <2>2, Zenon DEF OthersKept
<1>3. \A x \in Ends : Delivered(c, x)' = Delivered(c, x)
  BY <1>1, Zenon DEF Delivered
<1>4. \A x \in Ends : x # e => Line(c, x)' = Line(c, x)
  BY <1>1, <1>2, <1>3, Zenon DEF Line
<1>5. Line(c, e) = UpTo(sent[c][e]) => Line(c, e)' = UpTo(sent[c][e] + 1)
  <2>1. /\ Delivered(c, e) \in Seq(Nat) /\ hand[c][e] \in Seq(Nat)
        /\ arrived[c][e] \in Seq(Nat) /\ sent[c][e] \in Nat
    BY LineTypes
  <2>2. Delivered(c, e) \o hand[c][e] \in Seq(Nat)
    BY <2>1, Concatenated, Zenon
  <2>3. Line(c, e)' = Delivered(c, e) \o hand[c][e] \o Append(arrived[c][e], sent[c][e] + 1)
    BY <1>1, <1>2, <1>3, Zenon DEF Line
  <2>. QED BY <2>1, <2>2, <2>3, OneMore, Zenon DEF Line
<1>6. Shut(c)' = Shut(c)
  BY <1>1, Zenon DEF Shut
<1>7. \A x \in Ends : Shut(c)' \/ closed'[c][Other(x)] \/ stage'[c] = "dropped"
                        \/ Line(c, x)' = UpTo(sent'[c][x])
  BY <1>1, <1>2, <1>4, <1>5, <1>6, Zenon DEF StreamInv
<1>8. /\ \A x \in Ends : Count(Delivered(c, x))'
      /\ stage'[c] # "relayed" =>
            /\ ~closed'[c]["far"]
            /\ \A x \in Ends : ~ended'[c][x] /\ hand'[c][x] = <<>> /\ written'[c][x] = <<>>
  BY <1>1, <1>3, Zenon DEF StreamInv, Count
<1>. QED BY <1>2, <1>7, <1>8, Zenon DEF StreamInv

LEMMA ReadsStep ==
    ASSUME RelayInv, NEW c \in Clients, NEW e \in Ends, Reads(c, e)
    PROVE  StreamInv(c)' /\ OthersKept(c)
<1>. USE DEF RelayInv, TypesInv
<1>1. /\ got' = [got EXCEPT ![c][e] = Append(got[c][e], Head(written[c][e]))]
      /\ written' = [written EXCEPT ![c][e] = Tail(written[c][e])]
      /\ written[c][e] # <<>>
      /\ UNCHANGED <<stage, sent, arrived, hand, closed, ended>>
  BY Zenon DEF Reads, door
<1>2. /\ got'[c][e] = Append(got[c][e], Head(written[c][e])) /\ written'[c][e] = Tail(written[c][e])
      /\ \A x \in Ends : x # e => got'[c][x] = got[c][x] /\ written'[c][x] = written[c][x]
      /\ OthersKept(c)
  <2>1. /\ got'[c][e] = Append(got[c][e], Head(written[c][e]))
        /\ \A x \in Ends : x # e => got'[c][x] = got[c][x]
        /\ \A d \in Clients : d # c => got'[d] = got[d]
    <3>1. got \in EndWise(Seq(Nat))
      BY DEF Types
    <3>. QED BY <1>1, <3>1, Values DEF EndWise
  <2>2. /\ written'[c][e] = Tail(written[c][e])
        /\ \A x \in Ends : x # e => written'[c][x] = written[c][x]
        /\ \A d \in Clients : d # c => written'[d] = written[d]
    <3>1. written \in EndWise(Seq(Nat))
      BY DEF Types
    <3>. QED BY <1>1, <3>1, Values DEF EndWise
  <2>. QED BY <1>1, <2>1, <2>2, Zenon DEF OthersKept
<1>3. got[c][e] \in Seq(Nat) /\ written[c][e] \in Seq(Nat)
  BY AtOneEnd, Zenon DEF Types
<1>4. got'[c][e] \o written'[c][e] = got[c][e] \o written[c][e]
  BY <1>1, <1>2, <1>3, Moved, Zenon
<1>5. \A x \in Ends : Delivered(c, x)' = Delivered(c, x)
  BY <1>2, <1>4, OtherEnd, Zenon DEF Delivered
<1>6. \A x \in Ends : Line(c, x)' = Line(c, x)
  BY <1>1, <1>5, Zenon DEF Line
<1>7. Shut(c)' = Shut(c)
  BY <1>1, Zenon DEF Shut
<1>8. stage[c] = "relayed"
  BY <1>1, Zenon DEF StreamInv
<1>9. /\ \A x \in Ends : Count(Delivered(c, x))'
      /\ \A x \in Ends : Shut(c)' \/ closed'[c][Other(x)] \/ stage'[c] = "dropped"
                            \/ Line(c, x)' = UpTo(sent'[c][x])
  BY <1>1, <1>5, <1>6, <1>7, Zenon DEF StreamInv, Count
<1>. QED BY <1>1, <1>2, <1>8, <1>9, Zenon DEF StreamInv

LEMMA ClosesStep ==
    ASSUME RelayInv, NEW c \in Clients, NEW e \in Ends, Closes(c, e)
    PROVE  StreamInv(c)' /\ OthersKept(c)
<1>. USE DEF RelayInv, TypesInv
<1>1. /\ closed' = [closed EXCEPT ![c][e] = TRUE]
      /\ written' = [written EXCEPT ![c][e] = <<>>]
      /\ e # "client" => stage[c] = "relayed"
      /\ UNCHANGED <<stage, sent, arrived, hand, got, ended>>
  BY DEF Closes, door
<1>2. /\ closed'[c][e] /\ written'[c][e] = <<>>
      /\ \A x \in Ends : x # e => closed'[c][x] = closed[c][x] /\ written'[c][x] = written[c][x]
      /\ OthersKept(c)
  <2>1. /\ closed'[c][e] = TRUE
        /\ \A x \in Ends : x # e => closed'[c][x] = closed[c][x]
        /\ \A d \in Clients : d # c => closed'[d] = closed[d]
    <3>1. closed \in EndWise(BOOLEAN)
      BY DEF Types
    <3>. QED BY <1>1, <3>1, Values DEF EndWise
  <2>2. /\ written'[c][e] = <<>>
        /\ \A x \in Ends : x # e => written'[c][x] = written[c][x]
        /\ \A d \in Clients : d # c => written'[d] = written[d]
    <3>1. written \in EndWise(Seq(Nat))
      BY DEF Types
    <3>. QED BY <1>1, <3>1, Values DEF EndWise
  <2>. QED BY <1>1, <2>1, <2>2, Zenon DEF OthersKept
<1>3. ASSUME NEW x \in Ends, Other(x) = e PROVE Count(Delivered(c, x))'
  <2>1. got[c][e] \in Seq(Nat) /\ written[c][e] \in Seq(Nat)
    BY AtOneEnd, Zenon DEF Types
  <2>2. Count(got[c][e] \o written[c][e])
    BY <1>3, Zenon DEF StreamInv, Delivered
  <2>3. Count(got[c][e]) /\ got[c][e] \o <<>> = got[c][e]
    BY <2>1, <2>2, CountPrefix, Empty, Zenon
  <2>4. Delivered(c, x)' = got[c][e]
    BY <1>1, <1>2, <1>3, <2>3, Zenon DEF Delivered
  <2>. QED BY <2>3, <2>4, Zenon DEF Count
<1>4. ASSUME NEW x \in Ends, Other(x) # e
      PROVE  Delivered(c, x)' = Delivered(c, x) /\ Line(c, x)' = Line(c, x)
  BY <1>1, <1>2, <1>4, OtherEnd, Zenon DEF Delivered, Line
<1>5. \A x \in Ends : Count(Delivered(c, x))'
  BY <1>3, <1>4, Zenon DEF StreamInv, Count
<1>6. Shut(c)' = Shut(c)
  BY <1>1, Zenon DEF Shut
<1>7. \A x \in Ends : Shut(c)' \/ closed'[c][Other(x)] \/ stage'[c] = "dropped"
                        \/ Line(c, x)' = UpTo(sent'[c][x])
  <2>1. ASSUME NEW x \in Ends, Other(x) = e
        PROVE  closed'[c][Other(x)]
    BY <1>2, <2>1, Zenon
  <2>2. ASSUME NEW x \in Ends, Other(x) # e
        PROVE  \/ Shut(c)' \/ closed'[c][Other(x)] \/ stage'[c] = "dropped"
               \/ Line(c, x)' = UpTo(sent'[c][x])
    <3>1. closed'[c][Other(x)] = closed[c][Other(x)] /\ Line(c, x)' = Line(c, x)
      BY <1>2, <1>4, <2>2, OtherEnd, Zenon
    <3>2. Shut(c) \/ closed[c][Other(x)] \/ stage[c] = "dropped" \/ Line(c, x) = UpTo(sent[c][x])
      BY Zenon DEF StreamInv
    <3>. QED BY <1>1, <1>6, <3>1, <3>2, Zenon
  <2>. QED BY <2>1, <2>2, Zenon
<1>8. stage'[c] # "relayed" =>
            /\ ~closed'[c]["far"]
            /\ \A x \in Ends : ~ended'[c][x] /\ hand'[c][x] = <<>> /\ written'[c][x] = <<>>
  <2>1. SUFFICES ASSUME stage[c] # "relayed"
                 PROVE  /\ ~closed'[c]["far"]
                        /\ \A x \in Ends : ~ended'[c][x] /\ hand'[c][x] = <<>> /\ written'[c][x] = <<>>
    BY <1>1, Zenon
  <2>2. e = "client" /\ "client" # "far"
    BY <1>1, <2>1
  <2>3. ~closed'[c]["far"]
    BY <1>2, <2>1, <2>2, Values, Zenon DEF StreamInv
  <2>. QED BY <1>1, <1>2, <2>1, <2>3, Zenon DEF StreamInv
<1>. QED BY <1>2, <1>5, <1>7, <1>8, Zenon DEF StreamInv

LEMMA LocalReadsStep ==
    ASSUME RelayInv, NEW c \in Clients, LocalReads(c)
    PROVE  StreamInv(c)' /\ OthersKept(c)
<1>. USE DEF RelayInv, TypesInv
<1>1. /\ got' = [got EXCEPT ![c]["far"] = got[c]["far"] \o arrived[c]["client"]]
      /\ arrived' = [arrived EXCEPT ![c]["client"] = <<>>]
      /\ stage[c] = "local" /\ UNCHANGED <<stage, sent, hand, written, closed, ended>>
  BY Zenon DEF LocalReads, door
<1>2. /\ got'[c]["far"] = got[c]["far"] \o arrived[c]["client"] /\ arrived'[c]["client"] = <<>>
      /\ \A x \in Ends : x # "far" => got'[c][x] = got[c][x]
      /\ \A x \in Ends : x # "client" => arrived'[c][x] = arrived[c][x]
      /\ OthersKept(c)
  <2>1. /\ got'[c]["far"] = got[c]["far"] \o arrived[c]["client"]
        /\ \A x \in Ends : x # "far" => got'[c][x] = got[c][x]
        /\ \A d \in Clients : d # c => got'[d] = got[d]
    <3>1. got \in EndWise(Seq(Nat))
      BY DEF Types
    <3>. QED BY <1>1, <3>1, Values DEF EndWise
  <2>2. /\ arrived'[c]["client"] = <<>>
        /\ \A x \in Ends : x # "client" => arrived'[c][x] = arrived[c][x]
        /\ \A d \in Clients : d # c => arrived'[d] = arrived[d]
    <3>1. arrived \in EndWise(Seq(Nat))
      BY DEF Types
    <3>. QED BY <1>1, <3>1, Values DEF EndWise
  <2>. QED BY <1>1, <2>1, <2>2, Zenon DEF OthersKept
<1>3. /\ ~closed[c]["far"] /\ ~Shut(c)
      /\ \A x \in Ends : hand[c][x] = <<>> /\ written[c][x] = <<>>
  <2>1. stage[c] # "relayed"
    BY <1>1
  <2>. QED BY <2>1, Zenon DEF StreamInv, Shut
<1>4. Other("client") = "far" /\ Other("far") = "client" /\ Ends = {"client", "far"}
  BY DEF Other, Ends
<1>5. got[c]["far"] \in Seq(Nat) /\ arrived[c]["client"] \in Seq(Nat) /\ sent[c]["client"] \in Nat
  BY AtOneEnd, Values, Zenon DEF Types
<1>6. got[c]["far"] \o arrived[c]["client"] = UpTo(sent[c]["client"])
  <2>1. Line(c, "client") = UpTo(sent[c]["client"])
    <3>1. stage[c] # "dropped"
      BY <1>1
    <3>. QED BY <1>3, <1>4, <3>1, Values, Zenon DEF StreamInv
  <2>2. Line(c, "client") = got[c]["far"] \o <<>> \o <<>> \o arrived[c]["client"]
    BY <1>3, <1>4, Values, Zenon DEF Line, Delivered
  <2>. QED BY <1>5, <2>1, <2>2, Empty, Zenon
<1>7. Delivered(c, "client")' = UpTo(sent[c]["client"]) /\ Line(c, "client")' = UpTo(sent[c]["client"])
  <2>1. got'[c]["far"] \in Seq(Nat) /\ got'[c]["far"] = UpTo(sent[c]["client"])
    BY <1>2, <1>5, <1>6, Concatenated, Zenon
  <2>2. Delivered(c, "client")' = got'[c]["far"] \o <<>>
    BY <1>1, <1>3, <1>4, Values, Zenon DEF Delivered
  <2>3. Line(c, "client")' = Delivered(c, "client")' \o <<>> \o <<>>
    BY <1>1, <1>2, <1>3, Values, Zenon DEF Line
  <2>. QED BY <2>1, <2>2, <2>3, Empty, Zenon
<1>8. Delivered(c, "far")' = Delivered(c, "far") /\ Line(c, "far")' = Line(c, "far")
  <2>1. got'[c]["client"] = got[c]["client"] /\ arrived'[c]["far"] = arrived[c]["far"]
    <3>1. "client" # "far"
      OBVIOUS
    <3>. QED BY <1>2, <3>1, Values, Zenon
  <2>. QED BY <1>1, <1>4, <2>1, Zenon DEF Delivered, Line
<1>9. Count(Delivered(c, "client"))'
  BY <1>5, <1>7, UpToIsSeq, Zenon DEF Count
<1>10. \A x \in Ends : Count(Delivered(c, x))'
  <2>1. Count(Delivered(c, "far"))'
    BY <1>8, Values, Zenon DEF StreamInv, Count
  <2>. QED BY <1>4, <1>9, <2>1
<1>11. \A x \in Ends : Shut(c)' \/ closed'[c][Other(x)] \/ stage'[c] = "dropped"
                        \/ Line(c, x)' = UpTo(sent'[c][x])
  <2>1. Shut(c)' = Shut(c)
    BY <1>1, Zenon DEF Shut
  <2>2. ASSUME NEW x \in Ends PROVE Shut(c)' \/ closed'[c][Other(x)] \/ stage'[c] = "dropped"
                        \/ Line(c, x)' = UpTo(sent'[c][x])
    <3>1. CASE x = "client"
      BY <1>1, <1>7, <3>1, Zenon
    <3>2. CASE x = "far"
      BY <1>1, <1>8, <2>1, <3>2, Values, Zenon DEF StreamInv
    <3>. QED BY <1>4, <3>1, <3>2
  <2>. QED BY <2>2, Zenon
<1>12. stage'[c] # "relayed" =>
            /\ ~closed'[c]["far"]
            /\ \A x \in Ends : ~ended'[c][x] /\ hand'[c][x] = <<>> /\ written'[c][x] = <<>>
  BY <1>1, Zenon DEF StreamInv
<1>. QED BY <1>2, <1>10, <1>11, <1>12, Zenon DEF StreamInv

LEMMA ReceiveStep ==
    ASSUME RelayInv, NEW c \in Clients, NEW e \in Ends, Receive(c, e)
    PROVE  StreamInv(c)' /\ OthersKept(c)
<1>. USE DEF RelayInv, TypesInv
<1>1. PICK n \in 1 .. Len(arrived[c][e]) :
        /\ hand' = [hand EXCEPT ![c][e] = SubSeq(arrived[c][e], 1, n)]
        /\ arrived' = [arrived EXCEPT ![c][e] = SubSeq(arrived[c][e], n + 1, Len(arrived[c][e]))]
        /\ hand[c][e] = <<>> /\ stage[c] = "relayed"
        /\ UNCHANGED <<stage, sent, written, got, closed, ended>>
  BY DEF Receive, Running, door
<1>2. /\ hand'[c][e] = SubSeq(arrived[c][e], 1, n)
      /\ arrived'[c][e] = SubSeq(arrived[c][e], n + 1, Len(arrived[c][e]))
      /\ \A x \in Ends : x # e => hand'[c][x] = hand[c][x] /\ arrived'[c][x] = arrived[c][x]
      /\ OthersKept(c)
  <2>1. /\ hand'[c][e] = SubSeq(arrived[c][e], 1, n)
        /\ \A x \in Ends : x # e => hand'[c][x] = hand[c][x]
        /\ \A d \in Clients : d # c => hand'[d] = hand[d]
    <3>1. hand \in EndWise(Seq(Nat))
      BY DEF Types
    <3>. QED BY <1>1, <3>1, Values DEF EndWise
  <2>2. /\ arrived'[c][e] = SubSeq(arrived[c][e], n + 1, Len(arrived[c][e]))
        /\ \A x \in Ends : x # e => arrived'[c][x] = arrived[c][x]
        /\ \A d \in Clients : d # c => arrived'[d] = arrived[d]
    <3>1. arrived \in EndWise(Seq(Nat))
      BY DEF Types
    <3>. QED BY <1>1, <3>1, Values DEF EndWise
  <2>. QED BY <1>1, <2>1, <2>2, Zenon DEF OthersKept
<1>3. /\ Delivered(c, e) \in Seq(Nat) /\ arrived[c][e] \in Seq(Nat)
      /\ hand'[c][e] \in Seq(Nat) /\ arrived'[c][e] \in Seq(Nat)
  <2>1. Delivered(c, e) \in Seq(Nat) /\ arrived[c][e] \in Seq(Nat)
    BY LineTypes
  <2>2. n \in Nat /\ n <= Len(arrived[c][e])
    BY <2>1
  <2>. QED BY <1>2, <2>1, <2>2, Pieces
<1>4. hand'[c][e] \o arrived'[c][e] = arrived[c][e]
  BY <1>2, <1>3, Joined, Zenon
<1>5. \A x \in Ends : Delivered(c, x)' = Delivered(c, x)
  BY <1>1, Zenon DEF Delivered
<1>6. Line(c, e)' = Line(c, e)
  <2>1. Line(c, e)' = (Delivered(c, e) \o hand'[c][e]) \o arrived'[c][e]
    BY <1>5, Zenon DEF Line
  <2>2. Line(c, e)' = Delivered(c, e) \o arrived[c][e]
    <3>1. (Delivered(c, e) \o hand'[c][e]) \o arrived'[c][e]
            = Delivered(c, e) \o (hand'[c][e] \o arrived'[c][e])
      BY <1>3, Regrouped, ZenonT(30)
    <3>. QED BY <1>4, <2>1, <3>1
  <2>3. Line(c, e) = Delivered(c, e) \o arrived[c][e]
    BY <1>1, <1>3, Empty, Zenon DEF Line
  <2>. QED BY <2>2, <2>3
<1>7. \A x \in Ends : Line(c, x)' = Line(c, x)
  <2>1. \A x \in Ends : x # e => Line(c, x)' = Line(c, x)
    BY <1>2, <1>5, Zenon DEF Line
  <2>. QED BY <1>6, <2>1, Zenon
<1>8. Shut(c)' = Shut(c)
  BY <1>1, Zenon DEF Shut
<1>9. /\ \A x \in Ends : Count(Delivered(c, x))'
      /\ \A x \in Ends : Shut(c)' \/ closed'[c][Other(x)] \/ stage'[c] = "dropped"
                            \/ Line(c, x)' = UpTo(sent'[c][x])
  BY <1>1, <1>5, <1>7, <1>8, Zenon DEF StreamInv, Count
<1>. QED BY <1>1, <1>2, <1>9, Zenon DEF StreamInv

LEMMA SendStep ==
    ASSUME RelayInv, NEW c \in Clients, NEW e \in Ends, Send(c, e)
    PROVE  StreamInv(c)' /\ OthersKept(c)
<1>. USE DEF RelayInv, TypesInv
<1>. DEFINE to == Other(e)
<1>1. /\ written' = [written EXCEPT ![c][to] = Append(written[c][to], Head(hand[c][e]))]
      /\ hand' = [hand EXCEPT ![c][e] = Tail(hand[c][e])]
      /\ hand[c][e] # <<>> /\ stage[c] = "relayed" /\ ~Shut(c) /\ ~closed[c][to]
      /\ UNCHANGED <<stage, sent, arrived, got, closed, ended>>
  BY Zenon DEF Send, Running, door
<1>2. /\ to \in Ends /\ to # e
      /\ got[c][to] \in Seq(Nat) /\ written[c][to] \in Seq(Nat) /\ hand[c][e] \in Seq(Nat)
      /\ arrived[c][e] \in Seq(Nat) /\ sent[c][e] \in Nat /\ Delivered(c, e) \in Seq(Nat)
  BY LineTypes, Zenon
<1>3. /\ written'[c][to] = Append(written[c][to], Head(hand[c][e]))
      /\ hand'[c][e] = Tail(hand[c][e])
      /\ \A x \in Ends : x # to => written'[c][x] = written[c][x]
      /\ \A x \in Ends : x # e => hand'[c][x] = hand[c][x]
      /\ OthersKept(c)
  <2>. HIDE DEF to
  <2>1. /\ written'[c][to] = Append(written[c][to], Head(hand[c][e]))
        /\ \A x \in Ends : x # to => written'[c][x] = written[c][x]
        /\ \A d \in Clients : d # c => written'[d] = written[d]
    <3>1. written \in EndWise(Seq(Nat))
      BY DEF Types
    <3>. QED BY <1>1, <1>2, <3>1 DEF EndWise
  <2>2. /\ hand'[c][e] = Tail(hand[c][e])
        /\ \A x \in Ends : x # e => hand'[c][x] = hand[c][x]
        /\ \A d \in Clients : d # c => hand'[d] = hand[d]
    <3>1. hand \in EndWise(Seq(Nat))
      BY DEF Types
    <3>. QED BY <1>1, <3>1 DEF EndWise
  <2>. QED BY <1>1, <2>1, <2>2, Zenon DEF OthersKept
<1>4. /\ Head(hand[c][e]) \in Nat /\ Tail(hand[c][e]) \in Seq(Nat)
  BY <1>1, <1>2, Pieces, Zenon
<1>5. Delivered(c, e)' = Append(Delivered(c, e), Head(hand[c][e]))
  <2>1. Delivered(c, e)' = got[c][to] \o Append(written[c][to], Head(hand[c][e]))
    BY <1>1, <1>3 DEF Delivered
  <2>2. got[c][to] \o Append(written[c][to], Head(hand[c][e]))
            = Append(got[c][to] \o written[c][to], Head(hand[c][e]))
    BY <1>2, <1>4, Appended
  <2>. QED BY <2>1, <2>2 DEF Delivered
<1>6. Delivered(c, e)' \o hand'[c][e] = Delivered(c, e) \o hand[c][e]
  BY <1>1, <1>2, <1>3, <1>5, Moved, Zenon
<1>7. Line(c, e)' = Line(c, e)
  BY <1>1, <1>6, Zenon DEF Line
<1>8. Line(c, e) = UpTo(sent[c][e])
  <2>1. stage[c] # "dropped"
    BY <1>1
  <2>. QED BY <1>1, <2>1, Zenon DEF StreamInv
<1>9. Count(Delivered(c, e))'
  <2>1. Delivered(c, e)' \in Seq(Nat) /\ hand'[c][e] \in Seq(Nat)
    <3>1. Append(Delivered(c, e), Head(hand[c][e])) \in Seq(Nat)
      BY <1>2, <1>4
    <3>. QED BY <1>3, <1>4, <1>5, <3>1, Zenon
  <2>2. /\ Delivered(c, e)' \o hand'[c][e] \in Seq(Nat)
        /\ (Delivered(c, e)' \o hand'[c][e]) \o arrived[c][e] \in Seq(Nat)
    BY <1>2, <2>1, Concatenated, Zenon
  <2>3. Count((Delivered(c, e)' \o hand'[c][e]) \o arrived[c][e])
    <3>1. (Delivered(c, e)' \o hand'[c][e]) \o arrived[c][e] = UpTo(sent[c][e])
      BY <1>6, <1>8, Zenon DEF Line
    <3>. QED BY <1>2, <2>2, <3>1, CountIsUpTo, Zenon
  <2>4. Count(Delivered(c, e)' \o hand'[c][e])
    BY <1>2, <2>2, <2>3, CountPrefix, Zenon
  <2>5. ASSUME NEW a \in Seq(Nat), NEW b \in Seq(Nat), Count(a \o b) PROVE Count(a)
    BY <2>5, CountPrefix, Zenon
  <2>6. Delivered(c, e)' = UpTo(Len(Delivered(c, e)'))
    BY <2>1, <2>4, <2>5, Zenon DEF Count
  <2>. QED BY <2>6, Zenon DEF Count
<1>10. Delivered(c, to)' = Delivered(c, to) /\ Line(c, to)' = Line(c, to)
  <2>1. Other(to) = e
    BY LineTypes, Zenon
  <2>2. written'[c][e] = written[c][e] /\ hand'[c][to] = hand[c][to]
    BY <1>2, <1>3, Zenon
  <2>. QED BY <1>1, <2>1, <2>2, Zenon DEF Delivered, Line
<1>11. \A x \in Ends : x = e \/ x = to
  BY <1>2 DEF Ends, Other
<1>12. Shut(c)' = Shut(c)
  BY <1>1, Zenon DEF Shut
<1>13. \A x \in Ends : Count(Delivered(c, x))'
  <2>1. Count(Delivered(c, to))'
    BY <1>2, <1>10, Zenon DEF StreamInv, Count
  <2>. QED BY <1>9, <1>11, <2>1, Zenon DEF Count
<1>14. \A x \in Ends : Shut(c)' \/ closed'[c][Other(x)] \/ stage'[c] = "dropped"
                            \/ Line(c, x)' = UpTo(sent'[c][x])
  <2>1. ASSUME NEW x \in Ends PROVE Line(c, x)' = Line(c, x)
    BY <1>7, <1>10, <1>11, Zenon
  <2>2. Shut(c)' \/ closed'[c][Other(e)] \/ stage'[c] = "dropped" \/ Line(c, e)' = UpTo(sent'[c][e])
    BY <1>1, <2>1, <1>8, Zenon
  <2>. QED BY <1>1, <1>12, <2>1, Zenon DEF StreamInv
<1>. QED BY <1>1, <1>3, <1>13, <1>14, Zenon DEF StreamInv

LEMMA EndsStep ==
    ASSUME RelayInv, NEW c \in Clients, NEW e \in Ends, DirectionEnds(c, e)
    PROVE  StreamInv(c)' /\ OthersKept(c)
<1>. USE DEF RelayInv, TypesInv
<1>1. /\ ended' = [ended EXCEPT ![c][e] = TRUE]
      /\ hand' = [hand EXCEPT ![c][e] = <<>>]
      /\ arrived' = [arrived EXCEPT ![c] = [x \in Ends |-> <<>>]]
      /\ stage[c] = "relayed" /\ UNCHANGED <<stage, sent, got, closed>>
  BY Zenon DEF DirectionEnds, ShutBoth, Running, door
<1>2. PICK kept \in [Ends -> 0 .. Window] :
            /\ \A x \in Ends : kept[x] <= Len(written[c][x])
            /\ written' = [written EXCEPT ![c] = [x \in Ends |-> SubSeq(written[c][x], 1, kept[x])]]
  BY DEF DirectionEnds, ShutBoth
<1>3. Shut(c)'
  <2>1. ended'[c][e]
    BY <1>1 DEF Types, EndWise
  <2>. QED BY <2>1, Zenon DEF Shut
<1>4. OthersKept(c)
  <2>1. \A d \in Clients : d # c => ended'[d] = ended[d] /\ hand'[d] = hand[d]
    BY <1>1 DEF Types, EndWise
  <2>2. \A d \in Clients : d # c => arrived'[d] = arrived[d] /\ written'[d] = written[d]
    BY <1>1, <1>2 DEF Types, EndWise
  <2>. QED BY <1>1, <2>1, <2>2, Zenon DEF OthersKept
<1>5. ASSUME NEW x \in Ends PROVE Count(Delivered(c, x))'
  <2>1. Other(x) \in Ends /\ got[c][Other(x)] \in Seq(Nat) /\ written[c][Other(x)] \in Seq(Nat)
    BY LineTypes, Zenon
  <2>2. written'[c][Other(x)] = SubSeq(written[c][Other(x)], 1, kept[Other(x)])
    <3>. HIDE DEF Other
    <3>1. written'[c] = [y \in Ends |-> SubSeq(written[c][y], 1, kept[y])]
      BY <1>2 DEF Types, EndWise
    <3>. QED BY <2>1, <3>1, Zenon
  <2>3. kept[Other(x)] \in Nat /\ kept[Other(x)] <= Len(written[c][Other(x)])
    BY <1>2, <2>1, Values
  <2>4. Count(got[c][Other(x)] \o written[c][Other(x)])
    BY Zenon DEF StreamInv, Delivered
  <2>5. Count(got[c][Other(x)] \o SubSeq(written[c][Other(x)], 1, kept[Other(x)]))
    BY <2>1, <2>3, <2>4, CountCut, Zenon
  <2>. QED BY <1>1, <2>2, <2>5, Zenon DEF Delivered, Count
<1>. QED BY <1>1, <1>3, <1>4, <1>5, Zenon DEF StreamInv

LEMMA RelayStep == RelayInv /\ [Next]_vars => RelayInv'
<1>. SUFFICES ASSUME RelayInv, [Next]_vars PROVE RelayInv'
     OBVIOUS
<1>1. TypesInv'
  BY TypesStep, Zenon DEF RelayInv
<1>2. CASE AccepterStep \/ Tick \/ (\E c \in Clients : Connects(c))
  BY <1>1, <1>2, DoorStep, Zenon DEF RelayInv
<1>3. ASSUME NEW c \in Clients,
             LocalReads(c) \/ (\E e \in Ends : Sends(c, e) \/ Reads(c, e) \/ Closes(c, e) \/ Forward(c, e))
      PROVE  RelayInv'
  <2>1. StreamInv(c)' /\ OthersKept(c)
    BY <1>3, LocalReadsStep, SendsStep, ReadsStep, ClosesStep, ReceiveStep, SendStep, EndsStep, Zenon
       DEF Forward
  <2>2. UNCHANGED door
    BY <1>3, Zenon DEF LocalReads, Sends, Reads, Closes, Forward, Receive, Send, DirectionEnds, ShutBoth
  <2>. QED BY <1>1, <2>1, <2>2, OneConnection, Zenon DEF RelayInv
<1>4. CASE UNCHANGED vars
  <2>1. DoorInv'
    BY <1>4, Zenon DEF RelayInv, DoorInv, vars, door
  <2>2. \A c \in Clients : StreamInv(c)'
    BY <1>4, Untouched, Zenon DEF RelayInv, vars, door, streams
  <2>. QED BY <1>1, <2>1, <2>2, Zenon DEF RelayInv
<1>. QED BY <1>2, <1>3, <1>4, Zenon DEF Next

\* Whoever serves a client reads what the client sent from the first byte, without a gap and
\* in order, whatever was peeked at before, and so does the client.
THEOREM StreamsAreVerbatim == Spec => []Verbatim
<1>1. RelayInv => Verbatim
  <2>. SUFFICES ASSUME RelayInv, NEW c \in Clients, NEW e \in Ends
                PROVE  /\ got[c][Other(e)] = UpTo(Len(got[c][Other(e)]))
                       /\ ~Shut(c) /\ ~closed[c][Other(e)] /\ stage[c] # "dropped" =>
                            Line(c, e) = UpTo(sent[c][e])
    BY Zenon DEF Verbatim, Line, Delivered
  <2>1. got[c][Other(e)] \in Seq(Nat) /\ written[c][Other(e)] \in Seq(Nat)
    BY LineTypes, Zenon DEF RelayInv, TypesInv
  <2>2. Count(got[c][Other(e)] \o written[c][Other(e)])
    BY Zenon DEF RelayInv, StreamInv, Delivered
  <2>3. Count(got[c][Other(e)])
    BY <2>1, <2>2, CountPrefix, Zenon
  <2>. QED BY <2>3, Zenon DEF RelayInv, StreamInv, Count
<1>. QED BY <1>1, RelayInit, RelayStep, PTL DEF Spec

=============================================================================
