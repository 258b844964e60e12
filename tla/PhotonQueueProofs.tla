------------------------- MODULE PhotonQueueProofs -------------------------
(***************************************************************************)
(* Proofs about PhotonQueue, for any timeouts, client habits and numbers of *)
(* packets.                                                                 *)
(***************************************************************************)
EXTENDS PhotonQueue, SequenceTheorems, TLAPS

USE TimeoutAssumption, HabitsAssumption, BoundAssumption

-----------------------------------------------------------------------------
(* Lemmas about streams of cells.                                          *)

\* The cells that a data packet is delivered from.
First(cell) == cell.kind = "dat" /\ cell.part = 1

Above(s, n) == \A i \in DOMAIN s : First(s[i]) => n < s[i].n
UpTo(s, n) == \A i \in DOMAIN s : First(s[i]) => s[i].n <= n
Rising(s) == \A i, j \in DOMAIN s : i < j /\ First(s[i]) /\ First(s[j]) => s[i].n < s[j].n
Before(s, t) == \A i \in DOMAIN s : First(s[i]) => Above(t, s[i].n)

LEMMA CellParts ==
    ASSUME NEW cell \in Cell
    PROVE  /\ cell.kind \in {"req", "rsp", "dat"} /\ cell.part \in {1, 2} /\ cell.n \in 0 .. MaxData
           /\ cell.kind = "dat" => cell.n \in 1 .. MaxData
BY DEF Cell

LEMMA ItemCells ==
    ASSUME NEW kind \in {"req", "rsp", "dat"}, NEW n \in 0 .. MaxData, kind = "dat" <=> n # 0
    PROVE  /\ Item(kind, n) \in Seq(Cell) /\ DOMAIN Item(kind, n) = {1, 2}
           /\ \A i \in {1, 2} :
                /\ Item(kind, n)[i] \in Cell /\ Item(kind, n)[i].n = n
                /\ Item(kind, n)[i].kind = kind /\ Item(kind, n)[i].part = i
<1>1. [kind |-> kind, part |-> 1, n |-> n] \in Cell /\ [kind |-> kind, part |-> 2, n |-> n] \in Cell
  BY DEF Cell
<1>. QED BY <1>1 DEF Item

\* The front and the back of a stream cut after k cells.
LEMMA Cut ==
    ASSUME NEW s \in Seq(Cell), NEW k \in 0 .. Len(s)
    PROVE  /\ SubSeq(s, 1, k) \in Seq(Cell) /\ DOMAIN SubSeq(s, 1, k) = 1 .. k
           /\ \A i \in 1 .. k : i \in DOMAIN s /\ SubSeq(s, 1, k)[i] = s[i]
           /\ SubSeq(s, k + 1, Len(s)) \in Seq(Cell)
           /\ DOMAIN SubSeq(s, k + 1, Len(s)) = 1 .. Len(s) - k
           /\ \A i \in 1 .. Len(s) - k : i + k \in DOMAIN s /\ SubSeq(s, k + 1, Len(s))[i] = s[i + k]
OBVIOUS

LEMMA CutInOrder ==
    ASSUME NEW s \in Seq(Cell), NEW k \in 0 .. Len(s), Rising(s)
    PROVE  /\ Rising(SubSeq(s, 1, k)) /\ Rising(SubSeq(s, k + 1, Len(s)))
           /\ Before(SubSeq(s, 1, k), SubSeq(s, k + 1, Len(s)))
<1>. DEFINE front == SubSeq(s, 1, k)
            end == SubSeq(s, k + 1, Len(s))
<1>1. /\ DOMAIN front = 1 .. k /\ DOMAIN end = 1 .. Len(s) - k
      /\ \A i \in 1 .. k : i \in DOMAIN s /\ front[i] = s[i]
      /\ \A i \in 1 .. Len(s) - k : i + k \in DOMAIN s /\ end[i] = s[i + k]
  BY Cut
<1>. HIDE DEF front, end
<1>2. ASSUME NEW i \in DOMAIN front, NEW j \in DOMAIN front, i < j, First(front[i]), First(front[j])
      PROVE  front[i].n < front[j].n
  <2>1. i \in DOMAIN s /\ front[i] = s[i] /\ j \in DOMAIN s /\ front[j] = s[j]
    BY <1>1
  <2>. QED BY <1>2, <2>1 DEF Rising
<1>3. ASSUME NEW i \in DOMAIN end, NEW j \in DOMAIN end, i < j, First(end[i]), First(end[j])
      PROVE  end[i].n < end[j].n
  <2>1. i + k \in DOMAIN s /\ end[i] = s[i + k] /\ j + k \in DOMAIN s /\ end[j] = s[j + k]
    BY <1>1
  <2>2. i + k < j + k
    BY <1>1, <1>3
  <2>. QED BY <1>3, <2>1, <2>2 DEF Rising
<1>4. ASSUME NEW i \in DOMAIN front, NEW j \in DOMAIN end, First(front[i]), First(end[j])
      PROVE  front[i].n < end[j].n
  <2>1. i \in DOMAIN s /\ front[i] = s[i] /\ j + k \in DOMAIN s /\ end[j] = s[j + k]
    BY <1>1
  <2>2. i < j + k
    BY <1>1, <1>4
  <2>. QED BY <1>4, <2>1, <2>2 DEF Rising
<1>. QED BY <1>2, <1>3, <1>4 DEF Rising, Before, Above, front, end

LEMMA CutBounds ==
    ASSUME NEW s \in Seq(Cell), NEW k \in 0 .. Len(s), NEW n
    PROVE  /\ UpTo(s, n) => UpTo(SubSeq(s, 1, k), n) /\ UpTo(SubSeq(s, k + 1, Len(s)), n)
           /\ Above(s, n) => Above(SubSeq(s, 1, k), n) /\ Above(SubSeq(s, k + 1, Len(s)), n)
<1>. DEFINE front == SubSeq(s, 1, k)
            end == SubSeq(s, k + 1, Len(s))
<1>1. /\ DOMAIN front = 1 .. k /\ DOMAIN end = 1 .. Len(s) - k
      /\ \A i \in 1 .. k : i \in DOMAIN s /\ front[i] = s[i]
      /\ \A i \in 1 .. Len(s) - k : i + k \in DOMAIN s /\ end[i] = s[i + k]
  BY Cut
<1>. HIDE DEF front, end
<1>2. UpTo(s, n) => UpTo(front, n) /\ UpTo(end, n)
  BY <1>1 DEF UpTo
<1>3. Above(s, n) => Above(front, n) /\ Above(end, n)
  BY <1>1 DEF Above
<1>. QED BY <1>2, <1>3 DEF front, end

LEMMA Joined ==
    ASSUME NEW s \in Seq(Cell), NEW t \in Seq(Cell)
    PROVE  /\ s \o t \in Seq(Cell)
           /\ \A i \in DOMAIN (s \o t) :
                \/ i \in DOMAIN s /\ (s \o t)[i] = s[i]
                \/ i > Len(s) /\ i - Len(s) \in DOMAIN t /\ (s \o t)[i] = t[i - Len(s)]
OBVIOUS

LEMMA JoinedInOrder ==
    ASSUME NEW s \in Seq(Cell), NEW t \in Seq(Cell)
    PROVE  /\ Rising(s) /\ Rising(t) /\ Before(s, t) => Rising(s \o t)
           /\ \A n : UpTo(s, n) /\ UpTo(t, n) => UpTo(s \o t, n)
           /\ \A n : Above(s, n) /\ Above(t, n) => Above(s \o t, n)
<1>. DEFINE all == s \o t
<1>1. \A i \in DOMAIN all :
                \/ i \in DOMAIN s /\ all[i] = s[i]
                \/ i > Len(s) /\ i - Len(s) \in DOMAIN t /\ all[i] = t[i - Len(s)]
  BY Joined
<1>2. DOMAIN s = 1 .. Len(s) /\ Len(s) \in Nat /\ DOMAIN t = 1 .. Len(t) /\ Len(t) \in Nat
  OBVIOUS
<1>3. DOMAIN all \subseteq Nat
  OBVIOUS
<1>. HIDE DEF all
<1>4. ASSUME Rising(s), Rising(t), Before(s, t), NEW i \in DOMAIN all, NEW j \in DOMAIN all,
             i < j, First(all[i]), First(all[j])
      PROVE  all[i].n < all[j].n
  <2>1. CASE j \in DOMAIN s /\ all[j] = s[j]
    <3>1. i \in DOMAIN s /\ all[i] = s[i]
      BY <1>1, <1>2, <1>3, <1>4, <2>1
    <3>. QED BY <1>4, <2>1, <3>1 DEF Rising
  <2>2. CASE j > Len(s) /\ j - Len(s) \in DOMAIN t /\ all[j] = t[j - Len(s)]
    <3>1. CASE i \in DOMAIN s /\ all[i] = s[i]
      BY <1>4, <2>2, <3>1 DEF Before, Above
    <3>2. CASE i > Len(s) /\ i - Len(s) \in DOMAIN t /\ all[i] = t[i - Len(s)]
      <4>1. i - Len(s) < j - Len(s)
        BY <1>2, <1>3, <1>4
      <4>. QED BY <1>4, <2>2, <3>2, <4>1 DEF Rising
    <3>. QED BY <1>1, <3>1, <3>2
  <2>. QED BY <1>1, <2>1, <2>2
<1>5. \A n : UpTo(s, n) /\ UpTo(t, n) => UpTo(all, n)
  BY <1>1 DEF UpTo
<1>6. \A n : Above(s, n) /\ Above(t, n) => Above(all, n)
  BY <1>1 DEF Above
<1>. QED BY <1>4, <1>5, <1>6 DEF Rising, all

-----------------------------------------------------------------------------
(* The inductive invariant.                                                *)

\* What DeliveredInOrder needs to be inductive: the data packets are numbered upwards from
\* what was delivered through the parser's buffer to the wire, and none was sent yet that
\* has a number above those sent.
StreamInv ==
    /\ DeliveredInOrder /\ Rising(buffer) /\ Rising(wire) /\ Before(buffer, wire)
    /\ \A i \in DOMAIN delivered :
            delivered[i] <= sent /\ Above(buffer, delivered[i]) /\ Above(wire, delivered[i])
    /\ UpTo(buffer, sent) /\ UpTo(wire, sent)

QueueInv == TypeOK /\ StreamInv

LEMMA QueueInit == Init => QueueInv
<1>. SUFFICES ASSUME Init PROVE QueueInv
     OBVIOUS
<1>1. /\ wire = <<>> /\ sent = 0 /\ asked = <<>> /\ buffer = <<>> /\ delivered = <<>>
      /\ habit \in Habits
  BY DEF Init
<1>2. TypeOK
  <2>1. wire \in Seq(Cell) /\ buffer \in Seq(Cell) /\ delivered \in Seq(1 .. MaxData)
        /\ asked \in Seq(0 .. habit.within)
    BY <1>1
  <2>2. sent \in 0 .. MaxData /\ idle \in 0 .. Hard + 1 /\ pingAge \in 0 .. Soft + 1
    BY DEF Init
  <2>. QED BY <2>1, <2>2 DEF Init, TypeOK
<1>3. StreamInv
  BY <1>1 DEF StreamInv, DeliveredInOrder, Rising, Before, Above, UpTo
<1>. QED BY <1>2, <1>3 DEF QueueInv

LEMMA NeededCells ==
    ASSUME TypeOK, NEW cell \in Cell
    PROVE  Needed(cell) \in 1 .. 3
BY CellParts, SMTT(20) DEF Needed, TypeOK

\* The packet at the front of the buffer, when the parser has all of it.
LEMMA CompletePacket ==
    ASSUME TypeOK, Complete
    PROVE  /\ buffer \in Seq(Cell) /\ Head(buffer) \in Cell /\ Head(buffer) = buffer[1]
           /\ 1 \in DOMAIN buffer /\ Head(buffer).part = 1
           /\ Needed(Head(buffer)) \in 1 .. Len(buffer)
<1>1. buffer \in Seq(Cell) /\ buffer # <<>>
  BY DEF TypeOK, Complete
<1>2. Head(buffer) \in Cell /\ Head(buffer) = buffer[1] /\ 1 \in DOMAIN buffer
  BY <1>1
<1>3. Needed(Head(buffer)) \in 1 .. 3
  BY <1>2, NeededCells
<1>4. Len(buffer) >= Needed(Head(buffer)) /\ Len(buffer) \in Nat
  BY <1>1 DEF Complete
<1>5. Head(buffer).part = 1
  BY <1>1, <1>2, CellParts DEF Complete, Torn
<1>. QED BY <1>1, <1>2, <1>3, <1>4, <1>5

\* Everything that reads or writes the stream.
StreamStep ==
    ClientSendsData \/ ClientPing \/ ClientAnswers \/ Receive \/ ParsePacket \/ ParseResyncs

LEMMA OtherTypes ==
    ASSUME TypeOK, Next
    PROVE  TypeOK' \/ StreamStep
<1>. USE DEF clientVars, recvVars, keeperVars
<1>1. CASE ClientFallsSilent
  BY <1>1 DEF ClientFallsSilent, TypeOK
<1>2. CASE ParseWaits
  BY <1>2 DEF ParseWaits, TypeOK
<1>3. CASE KeeperStep
  <2>1. CASE Check
    BY <2>1 DEF Check, TypeOK
  <2>2. CASE Ping
    <3>1. outstanding' \in BOOLEAN /\ checked' \in BOOLEAN
      BY <2>2, Zenon DEF Ping, TypeOK
    <3>2. /\ keeper' \in {"idle", "push"} /\ owed' \in Nat /\ pingAge' \in 0 .. Soft + 1
          /\ UNCHANGED <<clientVars, recvVars, idle, closedBy>>
      BY <2>2 DEF Ping, TypeOK
    <3>. QED BY <3>1, <3>2 DEF TypeOK
  <2>3. CASE CloseIdle
    BY <2>3 DEF CloseIdle, TypeOK
  <2>. QED BY <1>3, <2>1, <2>2, <2>3 DEF KeeperStep
<1>4. CASE SendPing
  <2>1. habit.within \in Nat
    BY DEF TypeOK
  <2>2. Append(asked, 0) \in Seq(0 .. habit.within)
    BY <2>1 DEF TypeOK
  <2>3. asked' \in Seq(0 .. habit.within)
    <3>1. asked' = asked \/ asked' = Append(asked, 0)
      BY <1>4, Zenon DEF SendPing
    <3>. QED BY <2>2, <3>1 DEF TypeOK
  <2>4. owed' \in Nat
    BY <1>4 DEF SendPing, TypeOK
  <2>. QED BY <1>4, <2>3, <2>4 DEF SendPing, TypeOK
<1>5. CASE SocketFails
  BY <1>5 DEF SocketFails, TypeOK
<1>6. CASE Tick
  <2>1. habit.within \in Nat /\ habit' = habit
    BY <1>6 DEF Tick, TypeOK
  <2>2. asked' \in Seq(0 .. habit.within)
    <3>1. asked \in Seq(0 .. habit.within) /\ \A i \in DOMAIN asked : asked[i] < habit.within
      BY <1>6 DEF Tick, TypeOK
    <3>2. \A i \in DOMAIN asked : asked[i] + 1 \in 0 .. habit.within
      BY <2>1, <3>1
    <3>3. asked' = [i \in 1 .. Len(asked) |-> asked[i] + 1]
      BY <1>6, <3>1 DEF Tick
    <3>. QED BY <3>1, <3>2, <3>3
  <2>3. idle' \in 0 .. Hard + 1 /\ pingAge' \in 0 .. Soft + 1
    BY <1>6 DEF Tick, Older, TypeOK
  <2>. QED BY <1>6, <2>1, <2>2, <2>3 DEF Tick, TypeOK
<1>. QED BY <1>1, <1>2, <1>3, <1>4, <1>5, <1>6 DEF Next, ClientStep, RecvStep, StreamStep

\* A client that sends puts an item behind what is on its way.
LEMMA Sending ==
    ASSUME QueueInv, NEW kind \in {"req", "rsp", "dat"}, NEW n \in 0 .. MaxData,
           kind = "dat" <=> n # 0, ClientSends(Item(kind, n)),
           sent' = (IF kind = "dat" THEN sent + 1 ELSE sent), kind = "dat" => n = sent + 1,
           UNCHANGED <<buffer, delivered>>
    PROVE  wire' \in Seq(Cell) /\ StreamInv'
<1>. USE DEF QueueInv
<1>. DEFINE item == Item(kind, n)
<1>1. /\ item \in Seq(Cell) /\ DOMAIN item = {1, 2}
      /\ \A i \in {1, 2} : item[i].n = n /\ item[i].kind = kind /\ item[i].part = i
  BY ItemCells
<1>2. wire' = wire \o item /\ wire \in Seq(Cell) /\ buffer \in Seq(Cell) /\ sent \in Nat
  BY DEF ClientSends, TypeOK
<1>. HIDE DEF item
<1>3. wire' \in Seq(Cell)
  BY <1>1, <1>2, Joined
<1>4. \A i \in DOMAIN item : First(item[i]) => item[i].n = sent + 1 /\ i = 1 /\ sent' = sent + 1
  BY <1>1 DEF First
<1>5. \A i \in DOMAIN wire : First(wire[i]) => wire[i].n <= sent /\ wire[i].n \in Int
  BY <1>2, CellParts DEF StreamInv, UpTo
<1>6. \A i \in DOMAIN buffer : First(buffer[i]) => buffer[i].n <= sent /\ buffer[i].n \in Int
  BY <1>2, CellParts DEF StreamInv, UpTo
<1>7. Rising(item) /\ Before(wire, item) /\ Before(buffer, item) /\ UpTo(item, sent')
  BY <1>2, <1>4, <1>5, <1>6 DEF Rising, Before, Above, UpTo
<1>8. Rising(wire')
  BY <1>1, <1>2, <1>7, JoinedInOrder DEF StreamInv
<1>9. Before(buffer, wire')
  BY <1>1, <1>2, <1>7, JoinedInOrder DEF StreamInv, Before
<1>10. sent' \in Nat /\ sent <= sent'
  BY <1>2
<1>11. UpTo(buffer, sent') /\ UpTo(wire, sent')
  BY <1>2, <1>5, <1>6, <1>10 DEF UpTo
<1>12. UpTo(wire', sent')
  BY <1>1, <1>2, <1>7, <1>11, JoinedInOrder
<1>13. ASSUME NEW i \in DOMAIN delivered
       PROVE  delivered[i] <= sent' /\ Above(wire', delivered[i])
  <2>1. delivered[i] \in Nat /\ delivered[i] <= sent /\ Above(wire, delivered[i])
    BY DEF TypeOK, StreamInv
  <2>2. Above(item, delivered[i])
    BY <1>2, <1>4, <2>1 DEF Above
  <2>. QED BY <1>1, <1>2, <1>10, <2>1, <2>2, JoinedInOrder
<1>. QED BY <1>3, <1>8, <1>9, <1>11, <1>12, <1>13 DEF StreamInv, DeliveredInOrder

LEMMA SendingStep ==
    ASSUME QueueInv, ClientSendsData \/ ClientPing \/ ClientAnswers
    PROVE  QueueInv'
<1>. USE DEF QueueInv, recvVars, keeperVars
<1>0. sent \in 0 .. MaxData
  BY DEF TypeOK
<1>1. CASE ClientSendsData
  <2>1. sent + 1 \in 0 .. MaxData /\ sent + 1 # 0 /\ sent' = sent + 1
    BY <1>0, <1>1 DEF ClientSendsData
  <2>2. wire' \in Seq(Cell) /\ StreamInv'
    BY <1>1, <2>1, Sending DEF ClientSendsData
  <2>. QED BY <1>1, <2>1, <2>2 DEF ClientSendsData, TypeOK
<1>2. CASE ClientPing
  <2>1. wire' \in Seq(Cell) /\ StreamInv'
    BY <1>2, Sending DEF ClientPing
  <2>. QED BY <1>2, <2>1 DEF ClientPing, TypeOK
<1>3. CASE ClientAnswers
  <2>1. wire' \in Seq(Cell) /\ StreamInv'
    BY <1>3, Sending DEF ClientAnswers
  <2>2. asked' \in Seq(0 .. habit.within)
    <3>1. asked \in Seq(0 .. habit.within) /\ asked # <<>> /\ asked' = Tail(asked)
      BY <1>3 DEF ClientAnswers, TypeOK
    <3>. QED BY <3>1
  <2>. QED BY <1>3, <2>1, <2>2 DEF ClientAnswers, TypeOK
<1>. QED BY <1>1, <1>2, <1>3

\* A chunk moves from the front of the wire to the end of the buffer.
LEMMA ReceiveStep ==
    ASSUME QueueInv, Receive
    PROVE  QueueInv'
<1>. USE DEF QueueInv, keeperVars
<1>1. PICK k \in 1 .. Len(wire) :
            /\ buffer' = buffer \o SubSeq(wire, 1, k)
            /\ wire' = SubSeq(wire, k + 1, Len(wire))
  BY DEF Receive
<1>. DEFINE chunk == SubSeq(wire, 1, k)
<1>2. wire \in Seq(Cell) /\ buffer \in Seq(Cell) /\ k \in 0 .. Len(wire)
  BY <1>1 DEF TypeOK
<1>3. chunk \in Seq(Cell) /\ wire' \in Seq(Cell)
  BY <1>1, <1>2, Cut
<1>4. Rising(chunk) /\ Rising(wire') /\ Before(chunk, wire')
  BY <1>1, <1>2, CutInOrder DEF StreamInv
<1>5. \A n : /\ UpTo(wire, n) => UpTo(chunk, n) /\ UpTo(wire', n)
             /\ Above(wire, n) => Above(chunk, n) /\ Above(wire', n)
  BY <1>1, <1>2, CutBounds
<1>. HIDE DEF chunk
<1>6. Before(buffer, chunk) /\ Before(buffer, wire')
  BY <1>5 DEF StreamInv, Before
<1>7. buffer' = buffer \o chunk /\ UNCHANGED <<sent, delivered>>
  BY <1>1 DEF Receive, chunk
<1>8. buffer' \in Seq(Cell) /\ Rising(buffer')
  BY <1>2, <1>3, <1>4, <1>6, <1>7, Joined, JoinedInOrder DEF StreamInv
<1>9. Before(buffer', wire')
  <2>1. ASSUME NEW i \in DOMAIN buffer', First(buffer'[i])
        PROVE  Above(wire', buffer'[i].n)
    <3>1. \/ i \in DOMAIN buffer /\ buffer'[i] = buffer[i]
          \/ i - Len(buffer) \in DOMAIN chunk /\ buffer'[i] = chunk[i - Len(buffer)]
      BY <1>2, <1>3, <1>7, <2>1, Joined
    <3>. QED BY <1>4, <1>6, <2>1, <3>1 DEF Before
  <2>. QED BY <2>1 DEF Before
<1>10. UpTo(buffer', sent) /\ UpTo(wire', sent)
  BY <1>2, <1>3, <1>5, <1>7, JoinedInOrder DEF StreamInv
<1>11. \A i \in DOMAIN delivered : Above(buffer', delivered[i]) /\ Above(wire', delivered[i])
  BY <1>2, <1>3, <1>5, <1>7, JoinedInOrder DEF StreamInv
<1>12. StreamInv'
  BY <1>4, <1>7, <1>8, <1>9, <1>10, <1>11 DEF StreamInv, DeliveredInOrder
<1>13. TypeOK'
  <2>1. expect' \in BOOLEAN /\ idle' \in 0 .. Hard + 1 /\ recv' = "parsing"
    BY DEF Receive, TypeOK
  <2>. QED BY <1>3, <1>7, <1>8, <2>1 DEF Receive, TypeOK
<1>. QED BY <1>12, <1>13

\* The cells of a packet, or of what is taken for one, leave the front of the buffer.
LEMMA ParseStep ==
    ASSUME QueueInv, ParsePacket
    PROVE  QueueInv'
<1>. USE DEF QueueInv, clientVars, keeperVars
<1>. DEFINE k == Needed(Head(buffer))
            rest == SubSeq(buffer, k + 1, Len(buffer))
            n == Head(buffer).n
<1>1. /\ buffer \in Seq(Cell) /\ wire \in Seq(Cell) /\ Head(buffer) \in Cell
      /\ Head(buffer) = buffer[1] /\ 1 \in DOMAIN buffer /\ Head(buffer).part = 1
      /\ k \in 1 .. Len(buffer)
  BY CompletePacket DEF ParsePacket, TypeOK
<1>2. rest \in Seq(Cell) /\ DOMAIN rest = 1 .. Len(buffer) - k
      /\ \A i \in 1 .. Len(buffer) - k : i + k \in DOMAIN buffer /\ rest[i] = buffer[i + k]
  BY <1>1, Cut
<1>3. Rising(rest)
  BY <1>1, CutInOrder DEF StreamInv
<1>4. \A m : /\ UpTo(buffer, m) => UpTo(rest, m)
             /\ Above(buffer, m) => Above(rest, m)
  BY <1>1, CutBounds
<1>5. buffer' = rest /\ UNCHANGED <<wire, sent>>
  BY DEF ParsePacket
<1>6. k \in Nat /\ k >= 1 /\ Len(buffer) \in Nat
  BY <1>1
<1>. HIDE DEF k, rest
<1>7. Before(rest, wire)
  BY <1>2 DEF StreamInv, Before
<1>8. CASE Head(buffer).kind = "dat"
  <2>1. First(buffer[1]) /\ n = buffer[1].n /\ n \in 1 .. MaxData
    BY <1>1, <1>8, CellParts DEF First
  <2>2. delivered' = Append(delivered, n) /\ UNCHANGED <<outstanding, idle>>
    BY <1>8 DEF ParsePacket
  <2>3. n <= sent /\ Above(wire, n)
    BY <1>1, <2>1 DEF StreamInv, UpTo, Before
  <2>4. Above(rest, n)
    <3>1. ASSUME NEW i \in DOMAIN rest, First(rest[i])
          PROVE  n < rest[i].n
      <4>1. i + k \in DOMAIN buffer /\ rest[i] = buffer[i + k] /\ 1 < i + k
        BY <1>2, <1>6
      <4>. QED BY <1>1, <2>1, <3>1, <4>1 DEF StreamInv, Rising
    <3>. QED BY <3>1 DEF Above
  <2>5. \A i \in DOMAIN delivered : delivered[i] < n
    BY <1>1, <2>1 DEF StreamInv, Above
  <2>6. /\ delivered \in Seq(1 .. MaxData) /\ delivered' \in Seq(1 .. MaxData)
        /\ DOMAIN delivered' = 1 .. Len(delivered) + 1 /\ delivered'[Len(delivered) + 1] = n
        /\ \A i \in DOMAIN delivered : delivered'[i] = delivered[i]
        /\ DOMAIN delivered = 1 .. Len(delivered) /\ Len(delivered) \in Nat
    BY <2>1, <2>2, SMTT(20) DEF TypeOK
  <2>. DEFINE last == Len(delivered) + 1
  <2>7. /\ last \in Nat /\ delivered'[last] = n
        /\ \A i \in DOMAIN delivered' : (i \in DOMAIN delivered /\ i < last) \/ i = last
    BY <2>6
  <2>. HIDE DEF last, n
  <2>8. DeliveredInOrder'
    <3>1. ASSUME NEW i \in DOMAIN delivered', NEW j \in DOMAIN delivered', i < j
          PROVE  delivered'[i] < delivered'[j]
      <4>1. i \in DOMAIN delivered
        BY <2>6, <2>7, <3>1
      <4>2. CASE j \in DOMAIN delivered
        BY <2>6, <3>1, <4>1, <4>2 DEF StreamInv, DeliveredInOrder
      <4>3. CASE j = last
        BY <2>5, <2>6, <2>7, <4>1, <4>3
      <4>. QED BY <2>7, <4>2, <4>3
    <3>. QED BY <3>1 DEF DeliveredInOrder
  <2>9. ASSUME NEW i \in DOMAIN delivered'
        PROVE  delivered'[i] <= sent /\ Above(rest, delivered'[i]) /\ Above(wire, delivered'[i])
    <3>1. CASE i \in DOMAIN delivered
      BY <1>4, <2>6, <3>1 DEF StreamInv
    <3>2. CASE i = last
      BY <2>3, <2>4, <2>7, <3>2
    <3>. QED BY <2>7, <3>1, <3>2
  <2>10. StreamInv'
    BY <1>3, <1>4, <1>5, <1>7, <2>8, <2>9 DEF StreamInv
  <2>11. TypeOK'
    BY <1>2, <1>5, <2>2, <2>6 DEF ParsePacket, TypeOK
  <2>. QED BY <2>10, <2>11
<1>9. CASE Head(buffer).kind # "dat"
  <2>1. delivered' = delivered
    BY <1>9 DEF ParsePacket
  <2>2. \A i \in DOMAIN delivered : Above(rest, delivered[i])
    BY <1>4 DEF StreamInv
  <2>3. StreamInv'
    BY <1>3, <1>4, <1>5, <1>7, <2>1, <2>2 DEF StreamInv, DeliveredInOrder
  <2>4. (outstanding' = FALSE \/ outstanding' = outstanding) /\ (idle' = idle \/ idle' = 0)
    <3>1. IF expect THEN outstanding' = FALSE /\ idle' = idle
                    ELSE outstanding' = outstanding /\ idle' = 0
      BY <1>9, Zenon DEF ParsePacket
    <3>. QED BY <3>1, Zenon
  <2>5. outstanding' \in BOOLEAN /\ idle' \in 0 .. Hard + 1
    <3>1. outstanding' \in BOOLEAN
      BY <2>4, Zenon DEF TypeOK
    <3>2. idle \in 0 .. Hard + 1 /\ 0 \in 0 .. Hard + 1
      BY DEF TypeOK
    <3>. QED BY <2>4, <3>1, <3>2, Zenon
  <2>6. UNCHANGED <<clientVars, recv, expect, keeperVars, owed, closedBy>>
    BY Zenon DEF ParsePacket
  <2>7. TypeOK'
    BY <1>2, <1>5, <2>1, <2>5, <2>6 DEF TypeOK
  <2>. QED BY <2>3, <2>7
<1>. QED BY <1>8, <1>9

LEMMA ResyncStep ==
    ASSUME QueueInv, ParseResyncs
    PROVE  QueueInv'
<1>1. /\ buffer' = <<>> /\ outstanding' = FALSE /\ recv' = "waiting"
      /\ UNCHANGED <<wire, sent, asked, silent, habit, expect, delivered>>
      /\ UNCHANGED <<pingAge, keeper, checked, idle, owed, closedBy>>
  BY DEF ParseResyncs, clientVars, keeperVars
<1>2. TypeOK'
  <2>1. buffer' \in Seq(Cell) /\ recv' \in {"waiting", "parsing"} /\ outstanding' \in BOOLEAN
    <3>1. <<>> \in Seq(Cell)
      OBVIOUS
    <3>. QED BY <1>1, <3>1, Zenon
  <2>2. TypeOK
    BY DEF QueueInv
  <2>. QED BY <1>1, <2>1, <2>2 DEF TypeOK
<1>3. StreamInv'
  BY <1>1 DEF QueueInv, StreamInv, DeliveredInOrder, Rising, Before, Above, UpTo
<1>. QED BY <1>2, <1>3 DEF QueueInv

LEMMA QuietStep ==
    ASSUME QueueInv, Next, ~StreamStep
    PROVE  QueueInv'
<1>1. TypeOK'
  BY OtherTypes DEF QueueInv
<1>2. UNCHANGED <<wire, sent, buffer, delivered>>
  <2>1. ClientFallsSilent \/ ParseWaits => UNCHANGED <<wire, sent, buffer, delivered>>
    BY Zenon DEF ClientFallsSilent, ParseWaits, clientVars, recvVars
  <2>2. KeeperStep => UNCHANGED <<wire, sent, buffer, delivered>>
    BY Zenon DEF KeeperStep, Check, Ping, CloseIdle, clientVars, recvVars
  <2>3. SendPing \/ SocketFails \/ Tick => UNCHANGED <<wire, sent, buffer, delivered>>
    BY Zenon DEF SendPing, SocketFails, Tick, clientVars, recvVars
  <2>. QED BY <2>1, <2>2, <2>3, Zenon DEF Next, StreamStep, ClientStep, RecvStep
<1>. QED BY <1>1, <1>2 DEF QueueInv, StreamInv, DeliveredInOrder

-----------------------------------------------------------------------------
(* What the invariant says.                                                *)

LEMMA QueueInvariant == Spec => []QueueInv
<1>1. QueueInv /\ [Next]_vars => QueueInv'
  <2>1. QueueInv /\ Next => QueueInv'
    BY SendingStep, ReceiveStep, ParseStep, ResyncStep, QuietStep DEF StreamStep
  <2>2. QueueInv /\ UNCHANGED vars => QueueInv'
    <3>. SUFFICES ASSUME QueueInv, UNCHANGED vars PROVE QueueInv'
      OBVIOUS
    <3>1. TypeOK'
      BY DEF QueueInv, TypeOK, vars, clientVars, recvVars, keeperVars
    <3>2. StreamInv'
      BY DEF QueueInv, StreamInv, DeliveredInOrder, vars, clientVars, recvVars
    <3>. QED BY <3>1, <3>2 DEF QueueInv
  <2>. QED BY <2>1, <2>2
<1>. QED BY QueueInit, <1>1, PTL DEF Spec

\* The stream, the parser's buffer and the keep-alive state keep their types, wherever the
\* chunks are cut and whatever the parser takes a packet for.
THEOREM TypeCorrect == Spec => []TypeOK
BY QueueInvariant, PTL DEF QueueInv

\* For any timeouts, any client habits and any cut of the stream into chunks, whatever the
\* parser misreads or drops when a keep-alive is taken for the other kind, no data packet is
\* delivered twice or out of order.
THEOREM NeverOutOfOrder == Spec => []DeliveredInOrder
<1>1. QueueInv => DeliveredInOrder
  BY DEF QueueInv, StreamInv
<1>. QED BY <1>1, QueueInvariant, PTL


-----------------------------------------------------------------------------
(* The inductive invariant of FramingKept.                                 *)

Stream == buffer \o wire

\* Every cell is in its place in a whole item.
Framed(s) ==
    /\ \A i \in DOMAIN s : s[i].part = 1 =>
            i + 1 \in DOMAIN s /\ s[i + 1].part = 2 /\ s[i + 1].kind = s[i].kind /\ s[i + 1].n = s[i].n
    /\ \A i \in DOMAIN s : s[i].part = 2 => i - 1 \in DOMAIN s /\ s[i - 1].part = 1

Responses(s) == {i \in DOMAIN s : s[i].kind = "rsp"}
OneResponse(s) == \A i, j \in Responses(s) : i < j => s[i].part < s[j].part
Answering == Responses(Stream) # {}
Numbers(s) == {s[i].n : i \in {j \in DOMAIN s : First(s[j])}}

\* The stream is made of whole items, the data packets not delivered yet and the answer to
\* the last ping at most.
ItemsInv ==
    /\ Framed(Stream) /\ OneResponse(Stream)
    /\ \A i \in DOMAIN Stream : Stream[i].kind # "req"
    /\ Numbers(Stream) = Len(delivered) + 1 .. sent
    /\ \A i \in DOMAIN delivered : delivered[i] = i

\* The parser reads an answer as an answer, and stops only when it has used up every item.
ParserInv ==
    /\ recv = "waiting" => Len(buffer) <= 1
    /\ recv = "parsing" /\ Responses(buffer) # {} => expect

\* A ping is in one place at a time, from the keep-alive thread to the answer on its way
\* back, there is no second one meanwhile, and the flag is set: while the connection is open,
\* half the soft timeout is not over before the answer has arrived.
PingInv ==
    /\ keeper \in {"mark", "push"} => owed = 0 /\ asked = <<>> /\ ~Answering
    /\ owed > 0 => owed = 1 /\ asked = <<>> /\ ~Answering
    /\ asked # <<>> => Len(asked) = 1 /\ ~Answering
    /\ keeper = "push" \/ owed > 0 \/ asked # <<>> \/ Answering => outstanding
    /\ Open => /\ keeper = "push" \/ owed > 0 => pingAge = 0
               /\ asked # <<>> => asked[1] = pingAge
               /\ Answering => pingAge <= habit.within

InFrame == ItemsInv /\ ParserInv /\ PingInv
FramingInv == AnswersInTime => InFrame


LEMMA StreamCells ==
    ASSUME TypeOK
    PROVE  /\ buffer \in Seq(Cell) /\ wire \in Seq(Cell) /\ Stream \in Seq(Cell)
           /\ Len(Stream) = Len(buffer) + Len(wire)
           /\ \A i \in DOMAIN buffer : i \in DOMAIN Stream /\ Stream[i] = buffer[i]
           /\ \A i \in DOMAIN wire : Len(buffer) + i \in DOMAIN Stream /\ Stream[Len(buffer) + i] = wire[i]
<1>1. buffer \in Seq(Cell) /\ wire \in Seq(Cell)
  BY DEF TypeOK
<1>. QED BY <1>1 DEF Stream

LEMMA JoinedCells ==
    ASSUME NEW s \in Seq(Cell), NEW t \in Seq(Cell)
    PROVE  /\ DOMAIN (s \o t) = 1 .. Len(s) + Len(t)
           /\ \A i \in 1 .. Len(s) : (s \o t)[i] = s[i]
           /\ \A i \in 1 .. Len(t) : (s \o t)[Len(s) + i] = t[i]
OBVIOUS

LEMMA JoinedFront ==
    ASSUME NEW s \in Seq(Cell), NEW t \in Seq(Cell)
    PROVE  \A i \in DOMAIN s : i \in DOMAIN (s \o t) /\ (s \o t)[i] = s[i]
OBVIOUS

LEMMA JoinedPair ==
    ASSUME NEW s \in Seq(Cell), NEW u \in Seq(Cell), Len(u) = 2
    PROVE  /\ DOMAIN (s \o u) = 1 .. Len(s) + 2
           /\ \A i \in 1 .. Len(s) : (s \o u)[i] = s[i]
           /\ (s \o u)[Len(s) + 1] = u[1] /\ (s \o u)[Len(s) + 2] = u[2]
<1>1. /\ DOMAIN (s \o u) = 1 .. Len(s) + Len(u)
      /\ \A i \in 1 .. Len(s) : (s \o u)[i] = s[i]
      /\ \A i \in 1 .. Len(u) : (s \o u)[Len(s) + i] = u[i]
  BY JoinedCells, Zenon
<1>2. 1 \in 1 .. Len(u) /\ 2 \in 1 .. Len(u)
  OBVIOUS
<1>. QED BY <1>1, <1>2

LEMMA JoinedAgain ==
    ASSUME NEW s \in Seq(Cell), NEW t \in Seq(Cell), NEW u \in Seq(Cell)
    PROVE  (s \o t) \o u = s \o (t \o u)
BY ConcatAssociative, SMTT(30)

\* An item taken from the front of a stream that goes on.
LEMMA JoinedRest ==
    ASSUME NEW s \in Seq(Cell), NEW t \in Seq(Cell), Len(s) >= 2
    PROVE  SubSeq(s, 3, Len(s)) \o t = SubSeq(s \o t, 3, Len(s \o t))
<1>. DEFINE left == SubSeq(s, 3, Len(s)) \o t
            right == SubSeq(s \o t, 3, Len(s \o t))
            last == Len(s) + Len(t) - 2
<1>1. SubSeq(s, 3, Len(s)) \in Seq(Cell) /\ Len(SubSeq(s, 3, Len(s))) = Len(s) - 2
  <2>1. 2 \in 0 .. Len(s) /\ 2 + 1 = 3
    OBVIOUS
  <2>2. /\ SubSeq(s, 2 + 1, Len(s)) \in Seq(Cell)
        /\ DOMAIN SubSeq(s, 2 + 1, Len(s)) = 1 .. Len(s) - 2
    BY <2>1, Cut
  <2>3. PICK u : u = SubSeq(s, 3, Len(s))
    OBVIOUS
  <2>4. u \in Seq(Cell) /\ DOMAIN u = 1 .. Len(s) - 2 /\ Len(s) - 2 \in Nat
    BY <2>1, <2>2, <2>3
  <2>5. Len(u) = Len(s) - 2
    BY <2>4
  <2>. QED BY <2>3, <2>4, <2>5
<1>2. left \in Seq(Cell) /\ Len(left) = last
  BY <1>1
<1>3. s \o t \in Seq(Cell) /\ Len(s \o t) = Len(s) + Len(t)
  OBVIOUS
<1>4. right \in Seq(Cell) /\ Len(right) = last
  BY <1>3
<1>5. ASSUME NEW i \in 1 .. last
      PROVE  left[i] = right[i]
  <2>1. right[i] = (s \o t)[i + 2]
    BY <1>3
  <2>2. CASE i <= Len(s) - 2
    <3>1. left[i] = SubSeq(s, 3, Len(s))[i]
      BY <1>1, <2>2
    <3>. QED BY <2>1, <2>2, <3>1
  <2>3. CASE i > Len(s) - 2
    <3>1. left[i] = t[i - (Len(s) - 2)]
      BY <1>1, <2>3
    <3>. QED BY <2>1, <2>3, <3>1
  <2>. QED BY <2>2, <2>3
<1>. QED BY <1>2, <1>4, <1>5, SeqEqual

\* One more item at the end of a stream.
LEMMA FramedSend ==
    ASSUME NEW s \in Seq(Cell), Framed(s), NEW kind \in {"rsp", "dat"}, NEW n \in 0 .. MaxData,
           kind = "dat" <=> n # 0, NEW t, t = s \o Item(kind, n)
    PROVE  /\ Framed(t)
           /\ Numbers(t) = Numbers(s) \cup (IF kind = "dat" THEN {n} ELSE {})
           /\ kind = "dat" => Responses(t) = Responses(s)
           /\ OneResponse(s) /\ (kind = "dat" \/ Responses(s) = {}) => OneResponse(t)
           /\ (\A i \in DOMAIN s : s[i].kind # "req") => \A i \in DOMAIN t : t[i].kind # "req"
<1>. DEFINE l == Len(s)
<1>0. PICK item : item = Item(kind, n)
  OBVIOUS
<1>1. /\ item[1].n = n /\ item[1].kind = kind /\ item[1].part = 1
      /\ item[2].n = n /\ item[2].kind = kind /\ item[2].part = 2
  <2>1. item = <<[kind |-> kind, part |-> 1, n |-> n], [kind |-> kind, part |-> 2, n |-> n]>>
    BY <1>0, Zenon DEF Item
  <2>. HIDE <1>0
  <2>. QED BY <2>1
<1>2. l \in Nat /\ DOMAIN s = 1 .. l
  OBVIOUS
<1>3. item \in Seq(Cell) /\ Len(item) = 2 /\ t = s \o item
  BY <1>0, ItemCells DEF Item
<1>4. DOMAIN t = 1 .. l + 2 /\ \A i \in 1 .. l : t[i] = s[i]
  BY <1>3, JoinedPair
<1>5. t[l + 1] = item[1] /\ t[l + 2] = item[2]
  BY <1>3, JoinedPair
<1>. HIDE DEF l
<1>6. \A i \in DOMAIN t : i \in DOMAIN s \/ i = l + 1 \/ i = l + 2
  <2>1. l \in Nat => \A i \in 1 .. l + 2 : i \in 1 .. l \/ i = l + 1 \/ i = l + 2
    OBVIOUS
  <2>. QED BY <1>2, <1>4, <2>1, Zenon
<1>7. \A i \in DOMAIN s : s[i].part \in {1, 2}
  BY CellParts
<1>8. Framed(t)
  <2>1. ASSUME NEW i \in DOMAIN t, t[i].part = 1
        PROVE  i + 1 \in DOMAIN t /\ t[i + 1].part = 2 /\ t[i + 1].kind = t[i].kind /\ t[i + 1].n = t[i].n
    <3>1. CASE i \in DOMAIN s
      <4>1. i + 1 \in DOMAIN s /\ s[i + 1].part = 2 /\ s[i + 1].kind = s[i].kind /\ s[i + 1].n = s[i].n
        BY <1>2, <1>4, <2>1, <3>1 DEF Framed
      <4>. QED BY <1>2, <1>4, <3>1, <4>1
    <3>2. CASE i = l + 1
      BY <1>1, <1>2, <1>4, <1>5, <3>2
    <3>3. CASE i = l + 2
      BY <1>1, <1>5, <2>1, <3>3
    <3>. QED BY <1>6, <3>1, <3>2, <3>3
  <2>2. ASSUME NEW i \in DOMAIN t, t[i].part = 2
        PROVE  i - 1 \in DOMAIN t /\ t[i - 1].part = 1
    <3>1. CASE i \in DOMAIN s
      <4>1. i - 1 \in DOMAIN s /\ s[i - 1].part = 1
        BY <1>2, <1>4, <2>2, <3>1 DEF Framed
      <4>. QED BY <1>2, <1>4, <4>1
    <3>2. CASE i = l + 1
      BY <1>1, <1>5, <2>2, <3>2
    <3>3. CASE i = l + 2
      BY <1>1, <1>2, <1>4, <1>5, <3>3
    <3>. QED BY <1>6, <3>1, <3>2, <3>3
  <2>. QED BY <2>1, <2>2 DEF Framed
<1>9. {j \in DOMAIN t : First(t[j])} =
           {j \in DOMAIN s : First(s[j])} \cup (IF kind = "dat" THEN {l + 1} ELSE {})
  BY <1>1, <1>2, <1>4, <1>5, <1>6 DEF First
<1>10. Numbers(t) = Numbers(s) \cup (IF kind = "dat" THEN {n} ELSE {})
  <2>1. \A j \in DOMAIN s : t[j].n = s[j].n
    BY <1>2, <1>4
  <2>2. t[l + 1].n = n
    BY <1>1, <1>5
  <2>. QED BY <1>9, <2>1, <2>2 DEF Numbers
<1>11. Responses(t) = Responses(s) \cup (IF kind = "rsp" THEN {l + 1, l + 2} ELSE {})
  BY <1>1, <1>2, <1>4, <1>5, <1>6, SMTT(20) DEF Responses
<1>12. OneResponse(s) /\ (kind = "dat" \/ Responses(s) = {}) => OneResponse(t)
  <2>1. CASE kind = "dat"
    <3>1. Responses(t) = Responses(s) /\ \A i \in Responses(s) : t[i] = s[i]
      BY <1>2, <1>4, <1>11, <2>1 DEF Responses
    <3>. QED BY <3>1 DEF OneResponse
  <2>2. CASE kind = "rsp" /\ Responses(s) = {}
    <3>1. Responses(t) = {l + 1, l + 2} /\ t[l + 1].part = 1 /\ t[l + 2].part = 2
      BY <1>1, <1>5, <1>11, <2>2
    <3>2. ASSUME NEW i \in Responses(t), NEW j \in Responses(t), i < j
          PROVE  i = l + 1 /\ j = l + 2
      BY <1>2, <3>1, <3>2
    <3>3. ASSUME NEW i \in Responses(t), NEW j \in Responses(t), i < j
          PROVE  t[i].part < t[j].part
      <4>1. t[i].part = 1 /\ t[j].part = 2
        BY <3>1, <3>2, <3>3
      <4>. QED BY <4>1
    <3>. QED BY <3>3 DEF OneResponse
  <2>. QED BY <2>1, <2>2
<1>13. (\A i \in DOMAIN s : s[i].kind # "req") => \A i \in DOMAIN t : t[i].kind # "req"
  BY <1>1, <1>2, <1>4, <1>5, <1>6
<1>. QED BY <1>8, <1>10, <1>11, <1>12, <1>13

\* What is left of a stream of whole items when the first one is taken.
Taken(s, t) ==
    /\ Framed(t) /\ OneResponse(t)
    /\ s[1].kind = "dat" => /\ s[1].n \in Numbers(s) /\ \A m \in Numbers(t) : s[1].n < m
                            /\ Numbers(s) = Numbers(t) \cup {s[1].n}
    /\ s[1].kind # "dat" => Numbers(t) = Numbers(s)
    /\ s[1].kind = "rsp" => Responses(t) = {}
    /\ Responses(s) = {} => Responses(t) = {}
    /\ (\A i \in DOMAIN s : s[i].kind # "req") => \A i \in DOMAIN t : t[i].kind # "req"

LEMMA FramedTake ==
    ASSUME NEW s \in Seq(Cell), Framed(s), OneResponse(s), Rising(s), Len(s) >= 2
    PROVE  Taken(s, SubSeq(s, 3, Len(s)))
<1>0. PICK t : t = SubSeq(s, 3, Len(s))
  OBVIOUS
<1>. DEFINE l == Len(s)
<1>1. l \in Nat /\ l >= 2 /\ DOMAIN s = 1 .. l
  OBVIOUS
<1>2. DOMAIN t = 1 .. l - 2 /\ \A i \in 1 .. l - 2 : t[i] = s[i + 2]
  BY <1>0
<1>. HIDE DEF l
<1>3. 1 \in DOMAIN s /\ 2 \in DOMAIN s /\ s[1].part \in {1, 2} /\ s[2].part \in {1, 2}
  BY <1>1, CellParts
<1>4. s[1].part = 1 /\ s[2].part = 2 /\ s[2].kind = s[1].kind
  <2>1. s[1].part = 2 => 1 - 1 \in DOMAIN s
    BY <1>3 DEF Framed
  <2>2. s[1].part = 1
    BY <1>1, <1>3, <2>1
  <2>3. s[1 + 1].part = 2 /\ s[1 + 1].kind = s[1].kind
    BY <1>3, <2>2 DEF Framed
  <2>. QED BY <2>2, <2>3
<1>5. ASSUME NEW i \in DOMAIN t
      PROVE  i \in 1 .. l - 2 /\ i + 2 \in DOMAIN s /\ t[i] = s[i + 2] /\ s[i + 2].part \in {1, 2}
  BY <1>1, <1>2, CellParts
<1>6. Framed(t)
  <2>1. ASSUME NEW i \in DOMAIN t, t[i].part = 1
        PROVE  i + 1 \in DOMAIN t /\ t[i + 1].part = 2 /\ t[i + 1].kind = t[i].kind /\ t[i + 1].n = t[i].n
    <3>1. /\ (i + 2) + 1 \in DOMAIN s /\ s[(i + 2) + 1].part = 2
          /\ s[(i + 2) + 1].kind = s[i + 2].kind /\ s[(i + 2) + 1].n = s[i + 2].n
      BY <1>5, <2>1 DEF Framed
    <3>2. i + 1 \in DOMAIN t /\ (i + 2) + 1 = (i + 1) + 2
      BY <1>1, <1>2, <1>5, <3>1
    <3>. QED BY <1>5, <3>1, <3>2
  <2>2. ASSUME NEW i \in DOMAIN t, t[i].part = 2
        PROVE  i - 1 \in DOMAIN t /\ t[i - 1].part = 1
    <3>1. (i + 2) - 1 \in DOMAIN s /\ s[(i + 2) - 1].part = 1
      BY <1>5, <2>2 DEF Framed
    <3>2. i # 1
      BY <1>4, <3>1
    <3>3. i - 1 \in DOMAIN t /\ (i + 2) - 1 = (i - 1) + 2
      BY <1>1, <1>2, <1>5, <3>2
    <3>. QED BY <1>5, <3>1, <3>3
  <2>. QED BY <2>1, <2>2 DEF Framed
<1>7. \A i \in DOMAIN s : i = 1 \/ i = 2 \/ (i - 2 \in DOMAIN t /\ t[i - 2] = s[i])
  BY <1>1, <1>2
<1>8. OneResponse(t)
  <2>1. ASSUME NEW i \in Responses(t), NEW j \in Responses(t), i < j
        PROVE  t[i].part < t[j].part
    <3>1. /\ i + 2 \in Responses(s) /\ j + 2 \in Responses(s) /\ i + 2 < j + 2
          /\ t[i] = s[i + 2] /\ t[j] = s[j + 2]
      BY <1>5, <2>1 DEF Responses
    <3>. QED BY <3>1 DEF OneResponse
  <2>. QED BY <2>1 DEF OneResponse
<1>9. ASSUME NEW m
      PROVE  m \in Numbers(s) <=> m \in Numbers(t) \/ (s[1].kind = "dat" /\ m = s[1].n)
  <2>1. m \in Numbers(s) <=> \E i \in DOMAIN s : First(s[i]) /\ m = s[i].n
    BY DEF Numbers
  <2>2. m \in Numbers(t) <=> \E i \in DOMAIN t : First(t[i]) /\ m = t[i].n
    BY DEF Numbers
  <2>3. First(s[1]) <=> s[1].kind = "dat"
    BY <1>4 DEF First
  <2>4. ~First(s[2])
    BY <1>4 DEF First
  <2>5. (\E i \in DOMAIN t : First(t[i]) /\ m = t[i].n) => \E i \in DOMAIN s : First(s[i]) /\ m = s[i].n
    BY <1>5
  <2>6. ASSUME NEW i \in DOMAIN s, First(s[i]), m = s[i].n
        PROVE  m \in Numbers(t) \/ (s[1].kind = "dat" /\ m = s[1].n)
    <3>1. i = 1 \/ (i - 2 \in DOMAIN t /\ t[i - 2] = s[i])
      BY <1>7, <2>4, <2>6
    <3>. QED BY <2>2, <2>3, <2>6, <3>1
  <2>. QED BY <1>3, <2>1, <2>2, <2>3, <2>5, <2>6
<1>10. ASSUME s[1].kind = "dat", NEW m \in Numbers(t)
       PROVE  s[1].n < m
  <2>1. PICK i \in DOMAIN t : First(t[i]) /\ m = t[i].n
    BY DEF Numbers
  <2>2. i + 2 \in DOMAIN s /\ t[i] = s[i + 2] /\ 1 < i + 2
    BY <1>5
  <2>. QED BY <1>3, <1>4, <1>10, <2>1, <2>2 DEF Rising, First
<1>11. ASSUME s[1].kind = "rsp"
       PROVE  Responses(t) = {}
  <2>. SUFFICES ASSUME NEW i \in Responses(t) PROVE FALSE
       OBVIOUS
  <2>1. 2 \in Responses(s) /\ i + 2 \in Responses(s) /\ 2 < i + 2 /\ s[i + 2].part \in {1, 2}
    BY <1>3, <1>4, <1>5, <1>11 DEF Responses
  <2>2. s[2].part < s[i + 2].part
    BY <2>1 DEF OneResponse
  <2>. QED BY <1>4, <2>1, <2>2
<1>12. Responses(s) = {} => Responses(t) = {}
  BY <1>5 DEF Responses
<1>13. (\A i \in DOMAIN s : s[i].kind # "req") => \A i \in DOMAIN t : t[i].kind # "req"
  BY <1>5
<1>14. s[1].kind = "dat" => s[1].n \in Numbers(s) /\ Numbers(s) = Numbers(t) \cup {s[1].n}
  BY <1>9
<1>15. s[1].kind # "dat" => Numbers(t) = Numbers(s)
  BY <1>9
<1>16. Taken(s, t)
  BY <1>6, <1>8, <1>10, <1>11, <1>12, <1>13, <1>14, <1>15 DEF Taken
<1>. QED BY <1>0, <1>16

\* Ages, and what is compared with them.
LEMMA Ages ==
    ASSUME TypeOK
    PROVE  /\ Soft \in Nat /\ Hard \in Nat /\ idle \in Nat /\ pingAge \in 0 .. Soft + 1
           /\ habit.within \in Nat /\ owed \in Nat
           /\ asked \in Seq(0 .. habit.within) /\ wire \in Seq(Cell)
           /\ \A i \in DOMAIN asked : asked[i] \in 0 .. habit.within
<1>1. habit.within \in Nat /\ asked \in Seq(0 .. habit.within)
  BY DEF TypeOK
<1>. QED BY <1>1 DEF TypeOK

LEMMA FramingInit == Init => FramingInv
<1>. SUFFICES ASSUME Init PROVE InFrame
     BY DEF FramingInv
<1>1. /\ wire = <<>> /\ buffer = <<>> /\ delivered = <<>> /\ sent = 0 /\ asked = <<>>
      /\ keeper = "idle" /\ owed = 0 /\ recv = "waiting"
  BY DEF Init
<1>2. Stream = <<>>
  BY <1>1 DEF Stream
<1>3. Responses(Stream) = {} /\ Numbers(Stream) = {} /\ Len(buffer) = 0
  BY <1>1, <1>2 DEF Responses, Numbers
<1>. QED BY <1>1, <1>2, <1>3
         DEF InFrame, ItemsInv, ParserInv, PingInv, Framed, OneResponse, Answering

LEMMA StreamRises ==
    ASSUME QueueInv
    PROVE  Rising(Stream)
BY StreamCells, JoinedInOrder DEF QueueInv, StreamInv, Stream

\* The parser never stands in the middle of an item.
LEMMA WholeItems ==
    ASSUME TypeOK, ItemsInv
    PROVE  /\ ~Torn
           /\ buffer # <<>> => /\ Head(buffer) = buffer[1] /\ buffer[1] = Stream[1]
                               /\ 1 \in DOMAIN buffer /\ 1 \in DOMAIN Stream
                               /\ Stream[1].kind \in {"dat", "rsp"} /\ Stream[1].part = 1
                               /\ 2 \in DOMAIN Stream
<1>. SUFFICES ASSUME buffer # <<>>
              PROVE  /\ Head(buffer) = buffer[1] /\ buffer[1] = Stream[1]
                     /\ 1 \in DOMAIN buffer /\ 1 \in DOMAIN Stream
                     /\ Stream[1].kind \in {"dat", "rsp"} /\ Stream[1].part = 1
                     /\ 2 \in DOMAIN Stream
     BY DEF Torn
<1>1. 1 \in DOMAIN buffer /\ Head(buffer) = buffer[1]
  BY StreamCells
<1>2. 1 \in DOMAIN Stream /\ buffer[1] = Stream[1] /\ Stream[1] \in Cell /\ Stream \in Seq(Cell)
  BY <1>1, StreamCells
<1>3. Stream[1].part \in {1, 2} /\ Stream[1].kind \in {"dat", "rsp"}
  BY <1>2, CellParts DEF ItemsInv
<1>4. Stream[1].part # 2
  <2>1. 1 - 1 \notin DOMAIN Stream
    BY <1>2
  <2>. QED BY <1>2, <2>1 DEF ItemsInv, Framed
<1>5. 1 + 1 \in DOMAIN Stream
  BY <1>2, <1>3, <1>4 DEF ItemsInv, Framed
<1>. QED BY <1>1, <1>2, <1>3, <1>4, <1>5

\* A step that moves no ping.
LEMMA PingQuiet ==
    ASSUME PingInv, UNCHANGED <<keeper, owed, asked, pingAge, habit, outstanding>>,
           Open' => Open, Answering' => Answering
    PROVE  PingInv'
BY DEF PingInv

LEMMA FrameData ==
    ASSUME QueueInv, InFrame, ClientSendsData
    PROVE  InFrame'
<1>1. /\ wire' = wire \o Item("dat", sent + 1) /\ sent' = sent + 1
      /\ UNCHANGED <<asked, habit, keeper, pingAge, outstanding, owed, closedBy>>
      /\ UNCHANGED <<buffer, recv, expect, delivered>>
      /\ sent + 1 \in 0 .. MaxData /\ sent + 1 # 0 /\ sent \in Nat
  BY DEF ClientSendsData, ClientSends, recvVars, keeperVars, QueueInv, TypeOK
<1>2. Stream' = Stream \o Item("dat", sent + 1) /\ Stream \in Seq(Cell)
  <2>1. buffer \in Seq(Cell) /\ wire \in Seq(Cell) /\ Item("dat", sent + 1) \in Seq(Cell)
    BY <1>1, ItemCells DEF QueueInv, TypeOK
  <2>2. (buffer \o wire) \o Item("dat", sent + 1) = buffer \o (wire \o Item("dat", sent + 1))
    BY <2>1, ConcatAssociative
  <2>. QED BY <1>1, <2>2, StreamCells DEF Stream, QueueInv
<1>3. /\ Framed(Stream') /\ Numbers(Stream') = Numbers(Stream) \cup {sent + 1}
      /\ OneResponse(Stream') /\ Responses(Stream') = Responses(Stream)
      /\ \A i \in DOMAIN Stream' : Stream'[i].kind # "req"
  <2>1. /\ Framed(Stream) /\ OneResponse(Stream)
        /\ \A i \in DOMAIN Stream : Stream[i].kind # "req"
    BY DEF InFrame, ItemsInv
  <2>2. PICK kind \in {"rsp", "dat"} : kind = "dat"
    OBVIOUS
  <2>3. kind = "dat" <=> sent + 1 # 0
    BY <1>1, <2>2
  <2>4. Stream' = Stream \o Item(kind, sent + 1)
    BY <1>2, <2>2
  <2>5. /\ Framed(Stream')
        /\ Numbers(Stream') = Numbers(Stream) \cup (IF kind = "dat" THEN {sent + 1} ELSE {})
        /\ kind = "dat" => Responses(Stream') = Responses(Stream)
        /\ OneResponse(Stream) /\ (kind = "dat" \/ Responses(Stream) = {}) => OneResponse(Stream')
        /\ (\A i \in DOMAIN Stream : Stream[i].kind # "req")
              => \A i \in DOMAIN Stream' : Stream'[i].kind # "req"
    BY <1>1, <1>2, <2>1, <2>3, <2>4, FramedSend, Zenon
  <2>. QED BY <2>1, <2>2, <2>5
<1>4. Len(delivered) \in Nat /\ Len(delivered) <= sent
  <2>1. delivered \in Seq(1 .. MaxData)
    BY DEF QueueInv, TypeOK
  <2>2. \A i \in DOMAIN delivered : i <= sent
    BY DEF QueueInv, StreamInv, InFrame, ItemsInv
  <2>3. Len(delivered) \in Nat /\ (Len(delivered) # 0 => Len(delivered) \in DOMAIN delivered)
    BY <2>1
  <2>. QED BY <1>1, <2>2, <2>3
<1>5. Numbers(Stream') = Len(delivered') + 1 .. sent'
  <2>1. Numbers(Stream) = Len(delivered) + 1 .. sent
    BY DEF InFrame, ItemsInv
  <2>. QED BY <1>1, <1>3, <1>4, <2>1
<1>6. ItemsInv'
  BY <1>1, <1>3, <1>5 DEF InFrame, ItemsInv
<1>7. ParserInv'
  BY <1>1 DEF InFrame, ParserInv
<1>8. PingInv'
  <2>1. Answering' => Answering
    BY <1>3 DEF Answering
  <2>. QED BY <1>1, <2>1, PingQuiet DEF InFrame, Open
<1>. QED BY <1>6, <1>7, <1>8 DEF InFrame

\* The one answer to the one ping.
LEMMA FrameAnswer ==
    ASSUME QueueInv, InFrame, ClientAnswers
    PROVE  InFrame'
<1>1. /\ Open /\ asked # <<>> /\ wire' = wire \o Item("rsp", 0) /\ asked' = Tail(asked)
      /\ UNCHANGED <<sent, habit, keeper, pingAge, outstanding, owed, closedBy>>
      /\ UNCHANGED <<buffer, recv, expect, delivered>>
  BY DEF ClientAnswers, ClientSends, recvVars, keeperVars
<1>2. /\ ~Answering /\ Len(asked) = 1 /\ asked[1] = pingAge /\ outstanding
      /\ keeper \notin {"mark", "push"} /\ owed = 0
  BY <1>1, Ages DEF InFrame, PingInv, QueueInv
<1>3. asked' = <<>> /\ pingAge <= habit.within
  <2>1. asked \in Seq(0 .. habit.within) /\ 1 \in DOMAIN asked /\ habit.within \in Nat
    BY <1>1, Ages DEF QueueInv
  <2>. QED BY <1>1, <1>2, <2>1
<1>4. Stream' = Stream \o Item("rsp", 0) /\ Stream \in Seq(Cell)
  <2>1. 0 \in 0 .. MaxData
    OBVIOUS
  <2>2. buffer \in Seq(Cell) /\ wire \in Seq(Cell) /\ Item("rsp", 0) \in Seq(Cell)
    BY <2>1, ItemCells DEF QueueInv, TypeOK
  <2>3. (buffer \o wire) \o Item("rsp", 0) = buffer \o (wire \o Item("rsp", 0))
    BY <2>2, ConcatAssociative
  <2>. QED BY <1>1, <2>3, StreamCells DEF Stream, QueueInv
<1>5. /\ Framed(Stream') /\ Numbers(Stream') = Numbers(Stream) /\ OneResponse(Stream')
      /\ \A i \in DOMAIN Stream' : Stream'[i].kind # "req"
  <2>1. /\ Framed(Stream) /\ OneResponse(Stream) /\ Responses(Stream) = {}
        /\ "rsp" \in {"rsp", "dat"} /\ 0 \in 0 .. MaxData
        /\ \A i \in DOMAIN Stream : Stream[i].kind # "req"
    BY <1>2 DEF InFrame, ItemsInv, Answering
  <2>2. "rsp" = "dat" <=> 0 # 0
    OBVIOUS
  <2>3. /\ Framed(Stream')
        /\ Numbers(Stream') = Numbers(Stream) \cup (IF "rsp" = "dat" THEN {0} ELSE {})
        /\ OneResponse(Stream) /\ ("rsp" = "dat" \/ Responses(Stream) = {}) => OneResponse(Stream')
        /\ (\A i \in DOMAIN Stream : Stream[i].kind # "req")
              => \A i \in DOMAIN Stream' : Stream'[i].kind # "req"
    BY <1>4, <2>1, <2>2, FramedSend, ZenonT(30)
  <2>. QED BY <2>1, <2>3
<1>6. ItemsInv'
  BY <1>1, <1>5 DEF InFrame, ItemsInv
<1>7. ParserInv'
  BY <1>1 DEF InFrame, ParserInv
<1>8. PingInv'
  BY <1>1, <1>2, <1>3 DEF PingInv
<1>. QED BY <1>6, <1>7, <1>8 DEF InFrame

\* A chunk stays where it is in the stream; the parse loop knows of the answer it may hold.
LEMMA FrameReceive ==
    ASSUME QueueInv, InFrame, Receive
    PROVE  InFrame'
<1>1. PICK k \in 1 .. Len(wire) :
            /\ buffer' = buffer \o SubSeq(wire, 1, k)
            /\ wire' = SubSeq(wire, k + 1, Len(wire))
  BY DEF Receive
<1>2. /\ recv' = "parsing" /\ expect' = outstanding
      /\ UNCHANGED <<sent, asked, habit, delivered, keeper, pingAge, outstanding, owed, closedBy>>
  BY DEF Receive, keeperVars
<1>3. Stream' = Stream
  <2>1. buffer \in Seq(Cell) /\ wire \in Seq(Cell) /\ k \in 0 .. Len(wire) /\ Len(wire) \in Nat
    BY <1>1 DEF QueueInv, TypeOK
  <2>2. PICK front, end : front = SubSeq(wire, 1, k) /\ end = SubSeq(wire, k + 1, Len(wire))
    OBVIOUS
  <2>3. front \in Seq(Cell) /\ end \in Seq(Cell)
    BY <2>1, <2>2, Cut
  <2>4. front \o end = wire
    BY <2>1, <2>2, ConcatAdjacentSubSeq, SubSeqFull
  <2>5. (buffer \o front) \o end = buffer \o (front \o end)
    BY <2>1, <2>3, JoinedAgain, ZenonT(30)
  <2>. QED BY <1>1, <2>2, <2>4, <2>5 DEF Stream
<1>4. ItemsInv'
  BY <1>2, <1>3 DEF InFrame, ItemsInv
<1>5. Answering' => Answering
  BY <1>3 DEF Answering
<1>6. PingInv'
  BY <1>2, <1>5, PingQuiet DEF InFrame, Open
<1>7. Responses(buffer') # {} => Answering
  <2>1. buffer' \in Seq(Cell) /\ wire' \in Seq(Cell)
    BY ReceiveStep DEF QueueInv, TypeOK
  <2>2. \A i \in DOMAIN buffer' : i \in DOMAIN Stream' /\ Stream'[i] = buffer'[i]
    <3>1. Stream' = buffer' \o wire'
      BY DEF Stream
    <3>. QED BY <2>1, <3>1, JoinedFront
  <2>. QED BY <1>3, <2>2 DEF Responses, Answering
<1>8. ParserInv'
  BY <1>2, <1>7 DEF InFrame, PingInv, ParserInv
<1>. QED BY <1>4, <1>6, <1>8 DEF InFrame

\* The parser takes one whole item: the next data packet, or the answer, read as one.
LEMMA FrameParse ==
    ASSUME QueueInv, InFrame, ParsePacket
    PROVE  InFrame'
<1>1. /\ TypeOK /\ recv = "parsing" /\ Complete /\ buffer # <<>> /\ Len(buffer) >= Needed(Head(buffer))
      /\ buffer' = SubSeq(buffer, Needed(Head(buffer)) + 1, Len(buffer))
      /\ UNCHANGED <<wire, sent, asked, habit, recv, expect, keeper, pingAge, owed, closedBy>>
  BY DEF ParsePacket, Complete, clientVars, keeperVars, QueueInv
<1>2. /\ Head(buffer) = buffer[1] /\ buffer[1] = Stream[1] /\ 1 \in DOMAIN buffer /\ 1 \in DOMAIN Stream
      /\ Stream[1].kind \in {"dat", "rsp"} /\ Stream[1].part = 1
  BY <1>1, WholeItems DEF InFrame
<1>3. Stream[1].kind = "rsp" => expect
  <2>1. Stream[1].kind = "rsp" => Responses(buffer) # {}
    BY <1>2 DEF Responses
  <2>. QED BY <1>1, <2>1 DEF InFrame, ParserInv
<1>4. Needed(Head(buffer)) = 2
  BY <1>2, <1>3 DEF Needed
<1>5. /\ buffer \in Seq(Cell) /\ wire \in Seq(Cell) /\ Stream \in Seq(Cell)
      /\ Len(buffer) >= 2 /\ Len(Stream) >= 2 /\ buffer' = SubSeq(buffer, 3, Len(buffer))
  <2>1. /\ buffer \in Seq(Cell) /\ wire \in Seq(Cell) /\ Stream \in Seq(Cell)
        /\ Len(Stream) = Len(buffer) + Len(wire)
    BY <1>1, StreamCells
  <2>2. Len(buffer) >= 2 /\ buffer' = SubSeq(buffer, 3, Len(buffer))
    BY <1>1, <1>4
  <2>. QED BY <2>1, <2>2
<1>6. Stream' = SubSeq(Stream, 3, Len(Stream))
  BY <1>1, <1>5, JoinedRest DEF Stream
<1>7. Framed(Stream) /\ OneResponse(Stream) /\ Rising(Stream)
  BY StreamRises DEF InFrame, ItemsInv
<1>8. /\ Framed(Stream') /\ OneResponse(Stream')
      /\ Stream[1].kind = "dat" => /\ Stream[1].n \in Numbers(Stream)
                                   /\ \A m \in Numbers(Stream') : Stream[1].n < m
                                   /\ Numbers(Stream) = Numbers(Stream') \cup {Stream[1].n}
      /\ Stream[1].kind # "dat" => Numbers(Stream') = Numbers(Stream)
      /\ Stream[1].kind = "rsp" => Responses(Stream') = {}
      /\ Responses(Stream) = {} => Responses(Stream') = {}
      /\ (\A i \in DOMAIN Stream : Stream[i].kind # "req") => \A i \in DOMAIN Stream' : Stream'[i].kind # "req"
  <2>1. Taken(Stream, SubSeq(Stream, 3, Len(Stream)))
    BY <1>5, <1>7, FramedTake
  <2>. QED BY <1>6, <2>1 DEF Taken
<1>9. \A i \in DOMAIN Stream' : Stream'[i].kind # "req"
  BY <1>8 DEF InFrame, ItemsInv
<1>10. ParserInv'
  <2>1. Responses(buffer') # {} => Responses(buffer) # {}
    <3>1. \A i \in DOMAIN buffer' : i + 2 \in DOMAIN buffer /\ buffer'[i] = buffer[i + 2]
      BY <1>5
    <3>. QED BY <3>1 DEF Responses
  <2>. QED BY <1>1, <2>1 DEF InFrame, ParserInv
<1>11. CASE Stream[1].kind = "dat"
  <2>1. /\ delivered' = Append(delivered, Stream[1].n) /\ UNCHANGED outstanding
    BY <1>2, <1>11 DEF ParsePacket
  <2>2. PICK n : n = Stream[1].n
    OBVIOUS
  <2>3. PICK l : l = Len(delivered)
    OBVIOUS
  <2>4. /\ l \in Nat /\ sent \in Nat /\ delivered \in Seq(1 .. MaxData) /\ DOMAIN delivered = 1 .. l
    BY <2>3 DEF QueueInv, TypeOK
  <2>5. Numbers(Stream) = l + 1 .. sent
    BY <2>3 DEF InFrame, ItemsInv
  <2>6. /\ n \in l + 1 .. sent /\ \A m \in Numbers(Stream') : n < m
        /\ l + 1 .. sent = Numbers(Stream') \cup {n}
    BY <1>8, <1>11, <2>2, <2>5
  <2>7. n = l + 1
    <3>1. l + 1 \in l + 1 .. sent /\ l + 1 <= n
      BY <2>4, <2>6
    <3>2. l + 1 # n => n < l + 1
      BY <2>6, <3>1
    <3>. QED BY <2>4, <2>6, <3>1, <3>2
  <2>8. /\ DOMAIN delivered' = 1 .. l + 1 /\ delivered'[l + 1] = n /\ Len(delivered') = l + 1
        /\ \A i \in 1 .. l : delivered'[i] = delivered[i]
    BY <2>1, <2>2, <2>3, <2>4
  <2>9. Numbers(Stream') = Len(delivered') + 1 .. sent'
    <3>1. n \notin Numbers(Stream')
      BY <2>4, <2>6
    <3>2. Numbers(Stream') = (l + 1 .. sent) \ {n}
      BY <2>6, <3>1
    <3>. QED BY <1>1, <2>4, <2>7, <2>8, <3>2
  <2>10. \A i \in DOMAIN delivered' : delivered'[i] = i
    <3>1. \A i \in 1 .. l : delivered[i] = i
      BY <2>4 DEF InFrame, ItemsInv
    <3>2. \A i \in 1 .. l + 1 : i \in 1 .. l \/ i = l + 1
      BY <2>4
    <3>. QED BY <2>7, <2>8, <3>1, <3>2
  <2>11. ItemsInv'
    BY <1>8, <1>9, <2>9, <2>10 DEF ItemsInv
  <2>12. Answering' => Answering
    BY <1>8 DEF Answering
  <2>13. PingInv'
    BY <1>1, <2>1, <2>12, PingQuiet DEF InFrame, Open
  <2>. QED BY <1>10, <2>11, <2>13 DEF InFrame
<1>12. CASE Stream[1].kind = "rsp"
  <2>1. UNCHANGED delivered
    BY <1>2, <1>12 DEF ParsePacket
  <2>2. ItemsInv'
    BY <1>1, <1>8, <1>9, <1>12, <2>1 DEF InFrame, ItemsInv
  <2>3. Answering /\ ~Answering'
    BY <1>2, <1>8, <1>12 DEF Answering, Responses
  <2>4. keeper \notin {"mark", "push"} /\ ~(owed > 0) /\ asked = <<>>
    BY <2>3 DEF InFrame, PingInv
  <2>5. PingInv'
    BY <1>1, <2>3, <2>4 DEF PingInv
  <2>. QED BY <1>10, <2>2, <2>5 DEF InFrame
<1>. QED BY <1>2, <1>11, <1>12

\* The parser stops when the packet is incomplete, so with a part of one at most.
LEMMA FrameWait ==
    ASSUME QueueInv, InFrame, ParseWaits
    PROVE  InFrame'
<1>1. /\ TypeOK /\ ~Complete /\ recv = "parsing" /\ recv' = "waiting"
      /\ UNCHANGED <<buffer, wire, sent, delivered, outstanding>>
      /\ UNCHANGED <<asked, habit, keeper, pingAge, owed, closedBy>>
  BY DEF ParseWaits, clientVars, keeperVars, QueueInv
<1>2. Len(buffer) <= 1
  <2>. SUFFICES ASSUME buffer # <<>> PROVE Len(buffer) <= 1
       OBVIOUS
  <2>1. /\ ~Torn /\ Head(buffer) = buffer[1] /\ buffer[1] = Stream[1] /\ 1 \in DOMAIN buffer
        /\ Stream[1].kind \in {"dat", "rsp"}
    BY <1>1, WholeItems DEF InFrame
  <2>2. Stream[1].kind = "rsp" => expect
    BY <1>1, <2>1 DEF InFrame, ParserInv, Responses
  <2>3. Needed(Head(buffer)) = 2
    BY <2>1, <2>2 DEF Needed
  <2>4. buffer \in Seq(Cell) /\ ~(Len(buffer) >= 2)
    BY <1>1, <2>1, <2>3 DEF Complete, TypeOK
  <2>. QED BY <2>4
<1>3. ItemsInv'
  BY <1>1 DEF InFrame, ItemsInv, Stream
<1>4. ParserInv'
  BY <1>1, <1>2 DEF ParserInv
<1>5. PingInv'
  BY <1>1, PingQuiet DEF InFrame, Open, Answering, Stream
<1>. QED BY <1>3, <1>4, <1>5 DEF InFrame

\* A step that leaves the stream and the parser alone.
LEMMA FrameQuiet ==
    ASSUME InFrame, UNCHANGED <<wire, buffer, sent, delivered, recv, expect>>, PingInv'
    PROVE  InFrame'
BY DEF InFrame, ItemsInv, ParserInv, Stream

\* A client is pinged again only when half the soft timeout is over, and then it has answered.
LEMMA FrameCheck ==
    ASSUME TypeOK, AnswersInTime, InFrame, Check
    PROVE  InFrame'
<1>1. /\ Open /\ keeper = "idle" /\ UNCHANGED <<clientVars, recvVars, pingAge, outstanding, owed, closedBy>>
      /\ keeper' \in {"close", "mark", "idle"} /\ (keeper' = "mark" => 2 * pingAge > Soft)
  BY DEF Check
<1>2. UNCHANGED <<wire, buffer, sent, delivered, recv, expect, asked, habit>> /\ Answering' = Answering
  BY <1>1 DEF clientVars, recvVars, Answering, Stream
<1>3. 2 * pingAge > Soft => owed = 0 /\ asked = <<>> /\ ~Answering
  <2>. SUFFICES ASSUME 2 * pingAge > Soft PROVE owed = 0 /\ asked = <<>> /\ ~Answering
       OBVIOUS
  <2>1. pingAge > habit.within
    BY Ages DEF AnswersInTime
  <2>2. owed = 0
    BY <1>1, <2>1, Ages DEF InFrame, PingInv
  <2>3. asked = <<>>
    <3>. SUFFICES ASSUME asked # <<>> PROVE FALSE
         OBVIOUS
    <3>1. asked[1] = pingAge /\ 1 \in DOMAIN asked
      BY <1>1, Ages DEF InFrame, PingInv
    <3>. QED BY <2>1, <3>1, Ages
  <2>4. ~Answering
    BY <1>1, <2>1, Ages DEF InFrame, PingInv
  <2>. QED BY <2>2, <2>3, <2>4
<1>4. PingInv'
  BY <1>1, <1>2, <1>3 DEF InFrame, PingInv, Open
<1>. QED BY <1>2, <1>4, FrameQuiet

\* The ping is marked with its age before it is in the queue.
LEMMA FramePing ==
    ASSUME TypeOK, InFrame, Ping
    PROVE  InFrame'
<1>1. UNCHANGED <<wire, buffer, sent, delivered, recv, expect, asked, habit, closedBy>>
  BY DEF Ping, clientVars, recvVars
<1>2. Answering' = Answering /\ Open' = Open
  BY <1>1 DEF Answering, Stream, Open
<1>3. owed = 0 /\ asked = <<>> /\ ~Answering
  BY DEF Ping, InFrame, PingInv
<1>4. CASE keeper = "mark"
  <2>1. keeper' = "push" /\ pingAge' = 0 /\ outstanding' = TRUE /\ owed' = owed
    BY <1>4 DEF Ping
  <2>. QED BY <1>1, <1>2, <1>3, <2>1, FrameQuiet DEF PingInv
<1>5. CASE keeper = "push"
  <2>1. keeper' = "idle" /\ UNCHANGED <<pingAge, outstanding>> /\ owed' = 1
    BY <1>3, <1>5 DEF Ping
  <2>2. outstanding /\ (Open => pingAge = 0)
    BY <1>5 DEF InFrame, PingInv
  <2>. QED BY <1>1, <1>2, <1>3, <2>1, <2>2, FrameQuiet DEF PingInv
<1>. QED BY <1>4, <1>5 DEF Ping

\* The ping leaves the queue for a client that has no other.
LEMMA FrameSendPing ==
    ASSUME TypeOK, InFrame, SendPing
    PROVE  InFrame'
<1>1. /\ Open /\ owed > 0 /\ owed' = owed - 1
      /\ UNCHANGED <<wire, buffer, sent, delivered, recv, expect, habit, closedBy>>
      /\ UNCHANGED <<keeper, pingAge, outstanding>>
  BY DEF SendPing, recvVars, keeperVars
<1>2. Answering' = Answering /\ Open' = Open
  BY <1>1 DEF Answering, Stream, Open
<1>3. /\ owed = 1 /\ asked = <<>> /\ ~Answering /\ keeper \notin {"mark", "push"}
      /\ outstanding /\ pingAge = 0
  BY <1>1 DEF InFrame, PingInv
<1>4. asked' = <<>> \/ asked' = <<0>>
  BY <1>3 DEF SendPing
<1>5. asked' # <<>> => Len(asked') = 1 /\ asked'[1] = 0
  BY <1>4
<1>6. PingInv'
  BY <1>1, <1>2, <1>3, <1>5 DEF PingInv
<1>. QED BY <1>1, <1>6, FrameQuiet

\* A tick passes on an open connection only when the stream is used up: a ping is with the
\* client, or there is none.
LEMMA FrameTick ==
    ASSUME TypeOK, AnswersInTime, InFrame, Tick
    PROVE  InFrame'
<1>1. /\ pingAge' = Older(pingAge, Soft) /\ asked' = [i \in DOMAIN asked |-> asked[i] + 1]
      /\ \A i \in DOMAIN asked : asked[i] < habit.within
      /\ UNCHANGED <<wire, buffer, sent, delivered, recv, expect, habit, closedBy>>
      /\ UNCHANGED <<keeper, outstanding, owed>>
  BY DEF Tick, recvVars
<1>2. Answering' = Answering /\ Open' = Open
  BY <1>1 DEF Answering, Stream, Open
<1>3. Len(asked') = Len(asked) /\ (asked' # <<>> => asked # <<>>) /\ (asked = <<>> => asked' = <<>>)
  <2>1. \A i \in DOMAIN asked : asked[i] + 1 \in Nat
    BY Ages
  <2>2. asked' \in Seq(Nat) /\ Len(asked') = Len(asked)
    <3>1. DOMAIN asked = 1 .. Len(asked) /\ Len(asked) \in Nat
      BY Ages
    <3>2. asked' \in [1 .. Len(asked) -> Nat]
      BY <1>1, <2>1, <3>1
    <3>. QED BY <3>1, <3>2
  <2>3. asked = <<>> <=> Len(asked) = 0
    BY Ages
  <2>4. asked' = <<>> <=> Len(asked') = 0
    BY <2>2
  <2>. QED BY <2>2, <2>3, <2>4
<1>4. ASSUME Open
      PROVE  keeper = "idle" /\ owed = 0 /\ ~Answering
  <2>1. keeper = "idle" /\ owed = 0 /\ recv = "waiting" /\ wire = <<>>
    BY <1>4 DEF Tick, Prompt
  <2>2. Len(buffer) <= 1
    BY <2>1 DEF InFrame, ParserInv
  <2>3. 2 \notin DOMAIN Stream
    <3>1. Stream \in Seq(Cell) /\ Len(Stream) = Len(buffer) + Len(wire) /\ Len(wire) = 0
          /\ buffer \in Seq(Cell)
      BY <2>1, StreamCells
    <3>. QED BY <2>2, <3>1
  <2>4. buffer = <<>>
    BY <2>3, WholeItems DEF InFrame
  <2>5. Stream = <<>>
    BY <2>1, <2>4 DEF Stream
  <2>. QED BY <2>1, <2>5 DEF Answering, Responses
<1>5. ASSUME Open, asked' # <<>>
      PROVE  asked'[1] = pingAge'
  <2>1. asked # <<>> /\ asked[1] = pingAge
    BY <1>3, <1>5 DEF InFrame, PingInv
  <2>2. 1 \in DOMAIN asked
    BY <2>1, Ages
  <2>3. asked'[1] = pingAge + 1 /\ pingAge < habit.within
    BY <1>1, <2>1, <2>2
  <2>4. pingAge <= Soft
    BY <2>3, Ages DEF AnswersInTime
  <2>. QED BY <1>1, <2>3, <2>4, Ages DEF Older
<1>6. PingInv'
  BY <1>1, <1>2, <1>3, <1>4, <1>5 DEF InFrame, PingInv
<1>. QED BY <1>1, <1>6, FrameQuiet

LEMMA FramingNext ==
    ASSUME QueueInv, FramingInv, [Next]_vars
    PROVE  FramingInv'
<1>1. habit' = habit
  <2>1. ClientStep \/ RecvStep => habit' = habit
    BY Zenon DEF ClientStep, ClientSendsData, ClientPing, ClientAnswers, ClientFallsSilent,
                 RecvStep, Receive, ParsePacket, ParseWaits, ParseResyncs, clientVars
  <2>2. KeeperStep \/ SendPing \/ SocketFails \/ Tick => habit' = habit
    BY Zenon DEF KeeperStep, Check, Ping, CloseIdle, SendPing, SocketFails, Tick, clientVars
  <2>3. UNCHANGED vars => habit' = habit
    BY DEF vars, clientVars
  <2>. QED BY <2>1, <2>2, <2>3, Zenon DEF Next
<1>. SUFFICES ASSUME AnswersInTime PROVE InFrame'
     BY <1>1 DEF FramingInv, AnswersInTime
<1>2. InFrame /\ TypeOK
  BY DEF FramingInv, QueueInv
<1>3. CASE ClientStep
  <2>1. ~ClientPing
    BY DEF ClientPing, AnswersInTime
  <2>2. CASE ClientFallsSilent
    <3>1. /\ asked' = <<>>
          /\ UNCHANGED <<wire, buffer, sent, delivered, recv, expect>>
          /\ UNCHANGED <<habit, keeper, pingAge, outstanding, owed, closedBy>>
      BY <2>2 DEF ClientFallsSilent, recvVars, keeperVars
    <3>2. PingInv'
      BY <1>2, <3>1 DEF InFrame, PingInv, Answering, Stream, Open
    <3>. QED BY <1>2, <3>1, <3>2, FrameQuiet
  <2>. QED BY <1>2, <1>3, <2>1, <2>2, FrameData, FrameAnswer DEF ClientStep
<1>4. CASE RecvStep
  <2>1. ~ParseResyncs
    BY <1>2, WholeItems DEF ParseResyncs, InFrame
  <2>. QED BY <1>2, <1>4, <2>1, FrameReceive, FrameParse, FrameWait DEF RecvStep
<1>5. CASE KeeperStep
  <2>1. CASE CloseIdle
    <3>1. /\ keeper' = "idle" /\ ~Open'
          /\ UNCHANGED <<wire, buffer, sent, delivered, recv, expect>>
          /\ UNCHANGED <<asked, habit, pingAge, outstanding, owed>>
      BY <2>1 DEF CloseIdle, clientVars, recvVars, Open
    <3>2. PingInv'
      BY <1>2, <3>1 DEF InFrame, PingInv, Answering, Stream
    <3>. QED BY <1>2, <3>1, <3>2, FrameQuiet
  <2>. QED BY <1>2, <1>5, <2>1, FrameCheck, FramePing DEF KeeperStep
<1>6. CASE SocketFails \/ UNCHANGED vars
  <2>1. /\ Open' => Open
        /\ UNCHANGED <<wire, buffer, sent, delivered, recv, expect>>
        /\ UNCHANGED <<asked, habit, keeper, pingAge, outstanding, owed>>
    BY <1>6 DEF SocketFails, vars, clientVars, recvVars, keeperVars, Open
  <2>2. PingInv'
    BY <1>2, <2>1, PingQuiet DEF InFrame, Answering, Stream
  <2>. QED BY <1>2, <2>1, <2>2, FrameQuiet
<1>. QED BY <1>2, <1>3, <1>4, <1>5, <1>6, FrameSendPing, FrameTick DEF Next

\* The ends of the data packets in a stream of whole items have the numbers of their beginnings,
\* and stand in the same order.
LEMMA FramedEnds ==
    ASSUME NEW s \in Seq(Cell), Framed(s), Rising(s), NEW ends,
           ends = {i \in DOMAIN s : s[i].kind = "dat" /\ s[i].part = 2}
    PROVE  /\ {s[i].n : i \in ends} = Numbers(s)
           /\ \A i, j \in ends : i < j => s[i].n < s[j].n
<1>1. DOMAIN s \subseteq Nat
  OBVIOUS
<1>2. ASSUME NEW i \in ends
      PROVE  i \in Nat /\ i - 1 \in DOMAIN s /\ First(s[i - 1]) /\ s[i - 1].n = s[i].n
  <2>1. i \in DOMAIN s /\ i \in Nat /\ s[i].part = 2 /\ s[i].kind = "dat"
    BY <1>1
  <2>2. i - 1 \in DOMAIN s /\ s[i - 1].part = 1
    BY <2>1 DEF Framed
  <2>3. s[(i - 1) + 1].kind = s[i - 1].kind /\ s[(i - 1) + 1].n = s[i - 1].n
    BY <2>2 DEF Framed
  <2>4. (i - 1) + 1 = i
    BY <2>1
  <2>. QED BY <2>1, <2>2, <2>3, <2>4 DEF First
<1>3. ASSUME NEW i \in DOMAIN s, First(s[i])
      PROVE  i + 1 \in ends /\ s[i + 1].n = s[i].n
  BY <1>3 DEF Framed, First
<1>4. {s[i].n : i \in ends} = Numbers(s)
  <2>1. ASSUME NEW i \in ends PROVE s[i].n \in Numbers(s)
    BY <1>2 DEF Numbers
  <2>2. ASSUME NEW i \in DOMAIN s, First(s[i]) PROVE s[i].n \in {s[j].n : j \in ends}
    BY <1>3, <2>2
  <2>. QED BY <2>1, <2>2 DEF Numbers
<1>5. ASSUME NEW i \in ends, NEW j \in ends, i < j
      PROVE  s[i].n < s[j].n
  <2>1. i - 1 < j - 1
    BY <1>2, <1>5
  <2>. QED BY <1>2, <2>1 DEF Rising
<1>. QED BY <1>4, <1>5

\* With a client that sends no pings of its own and answers each one within half the soft
\* timeout, for any timeouts, chunks and numbers of packets: the parser never meets the middle
\* of an item, and no data packet is lost on the way (photon_queue.py: a ping is sent again only
\* after half the soft timeout, and marked as outstanding before it is queued).
THEOREM FramingIsKept == Spec => []FramingKept
<1>1. QueueInv /\ FramingInv /\ [Next]_vars => FramingInv'
  BY FramingNext
<1>2. QueueInv /\ FramingInv => FramingKept
  <2>. SUFFICES ASSUME QueueInv, FramingInv, AnswersInTime
                PROVE  /\ ~Torn
                       /\ \A i \in DOMAIN delivered : delivered[i] = i
                       /\ {Stream[i].n : i \in {j \in DOMAIN Stream : Stream[j].kind = "dat" /\ Stream[j].part = 2}}
                              = Len(delivered) + 1 .. sent
                       /\ \A i, j \in {h \in DOMAIN Stream : Stream[h].kind = "dat" /\ Stream[h].part = 2} :
                              i < j => Stream[i].n < Stream[j].n
       BY DEF FramingKept, Stream
  <2>1. ItemsInv /\ TypeOK /\ ~Torn
    BY WholeItems DEF FramingInv, InFrame, QueueInv
  <2>2. Stream \in Seq(Cell) /\ Framed(Stream) /\ Rising(Stream)
    BY <2>1, StreamCells, StreamRises DEF ItemsInv
  <2>3. PICK ends : ends = {i \in DOMAIN Stream : Stream[i].kind = "dat" /\ Stream[i].part = 2}
    OBVIOUS
  <2>4. /\ {Stream[i].n : i \in ends} = Numbers(Stream)
        /\ \A i, j \in ends : i < j => Stream[i].n < Stream[j].n
    BY <2>2, <2>3, FramedEnds
  <2>. QED BY <2>1, <2>3, <2>4 DEF ItemsInv
<1>. QED BY FramingInit, QueueInvariant, <1>1, <1>2, PTL DEF Spec

-----------------------------------------------------------------------------
(* The inductive invariant of AnsweringClientSurvives.                     *)

\* A ping that the client has not answered yet, or whose answer was not received yet.
Underway == keeper = "push" \/ owed > 0 \/ asked # <<>> \/ wire # <<>>

\* While the connection is open and the client not silent: no ping was sent since the server
\* last heard of the client, unless it is under way; once the client was quiet for longer than
\* the soft timeout a ping is under way, or about to be, and the client's age of it tells for
\* how long; and the hard timeout is never reached.
HeardInv ==
    Open /\ ~silent /\ AnswersBeforeHard =>
        /\ idle <= pingAge \/ pingAge = Soft + 1 \/ Underway
        /\ \/ idle <= Soft
           \/ /\ idle = Soft + 1
              /\ (keeper = "idle" /\ ~checked) \/ keeper \in {"mark", "push"} \/ owed > 0
           \/ wire # <<>>
           \/ \E i \in DOMAIN asked : idle <= Soft + 1 + asked[i]
        /\ idle <= Soft + 1 + habit.within
        /\ keeper # "close"

SurvivalInv == HeardInv /\ AnsweringClientSurvives

LEMMA SurvivalInit == Init => SurvivalInv
<1>. SUFFICES ASSUME Init PROVE SurvivalInv
     OBVIOUS
<1>1. idle = 0 /\ pingAge = Soft + 1 /\ keeper = "idle" /\ closedBy = "none" /\ habit \in Habits
  BY DEF Init
<1>2. habit.within \in Nat
  BY <1>1
<1>. QED BY <1>1, <1>2 DEF SurvivalInv, HeardInv, AnsweringClientSurvives

\* The client is heard of, or nothing happens to its age.
LEMMA SurvivalSteady ==
    ASSUME TypeOK, SurvivalInv, idle' \in {0, idle},
           UNCHANGED <<wire, asked, silent, habit, pingAge, keeper, checked, owed, closedBy>>
    PROVE  SurvivalInv'
<1>1. AnsweringClientSurvives'
  BY DEF SurvivalInv, AnsweringClientSurvives, AnswersBeforeHard
<1>2. HeardInv'
  <2>1. CASE idle' = idle
    BY <2>1 DEF SurvivalInv, HeardInv, Open, AnswersBeforeHard, Underway
  <2>2. CASE idle' = 0
    <3>1. 0 <= pingAge /\ 0 <= Soft /\ 0 <= Soft + 1 + habit.within
      BY Ages
    <3>. QED BY <2>2, <3>1 DEF SurvivalInv, HeardInv, Open, AnswersBeforeHard
  <2>. QED BY <2>1, <2>2
<1>. QED BY <1>1, <1>2 DEF SurvivalInv

LEMMA SurvivalReceive ==
    ASSUME TypeOK, SurvivalInv, Receive
    PROVE  SurvivalInv'
<1>1. idle' = 0 /\ UNCHANGED <<asked, silent, habit, pingAge, keeper, checked, owed, closedBy>>
  BY DEF Receive, keeperVars
<1>2. AnsweringClientSurvives'
  BY <1>1 DEF SurvivalInv, AnsweringClientSurvives, AnswersBeforeHard
<1>3. HeardInv'
  BY <1>1, Ages, SMTT(20) DEF SurvivalInv, HeardInv, Open, AnswersBeforeHard
<1>. QED BY <1>2, <1>3 DEF SurvivalInv

\* Whatever the client sends, something is under way.
LEMMA SurvivalSend ==
    ASSUME TypeOK, SurvivalInv, ClientSendsData \/ ClientPing \/ ClientAnswers
    PROVE  SurvivalInv'
<1>1. UNCHANGED <<silent, habit, idle, pingAge, keeper, checked, owed, closedBy>>
  BY DEF ClientSendsData, ClientPing, ClientAnswers, recvVars, keeperVars
<1>2. wire' # <<>>
  <2>1. PICK kind \in {"dat", "req", "rsp"}, n \in 0 .. MaxData : wire' = wire \o Item(kind, n)
    <3>1. sent \in 0 .. MaxData /\ (ClientSendsData => sent + 1 \in 0 .. MaxData)
      BY DEF TypeOK, ClientSendsData
    <3>2. 0 \in 0 .. MaxData
      OBVIOUS
    <3>. QED BY <3>1, <3>2, Zenon DEF ClientSendsData, ClientPing, ClientAnswers, ClientSends
  <2>2. \E i : i \in DOMAIN wire'
    BY <2>1, Ages, SMTT(20) DEF Item
  <2>. QED BY <2>2
<1>3. AnsweringClientSurvives'
  BY <1>1 DEF SurvivalInv, AnsweringClientSurvives, AnswersBeforeHard
<1>4. HeardInv'
  BY <1>1, <1>2, Ages DEF SurvivalInv, HeardInv, Open, AnswersBeforeHard, Underway
<1>. QED BY <1>3, <1>4 DEF SurvivalInv

\* The round of the keep-alive thread: a quiet client that has no ping under way is sent one,
\* and the hard timeout is over only for a client that is silent.
LEMMA SurvivalCheck ==
    ASSUME TypeOK, SurvivalInv, Check
    PROVE  SurvivalInv'
<1>1. /\ Open /\ keeper = "idle" /\ ~checked
      /\ UNCHANGED <<wire, asked, silent, habit, pingAge, owed, idle, closedBy>>
  BY DEF Check, clientVars, recvVars
<1>2. \/ idle > Hard /\ keeper' = "close"
      \/ idle > Soft /\ 2 * pingAge > Soft /\ keeper' = "mark"
      \/ (idle <= Soft \/ 2 * pingAge <= Soft) /\ keeper' = "idle"
  BY Ages DEF Check
<1>3. AnsweringClientSurvives'
  BY <1>1 DEF SurvivalInv, AnsweringClientSurvives, AnswersBeforeHard
<1>4. ASSUME ~silent, AnswersBeforeHard
      PROVE  /\ idle <= pingAge \/ pingAge = Soft + 1 \/ Underway
             /\ \/ idle <= Soft
                \/ idle = Soft + 1
                \/ wire # <<>>
                \/ \E i \in DOMAIN asked : idle <= Soft + 1 + asked[i]
             /\ idle <= Soft + 1 + habit.within
             /\ Soft + habit.within < Hard
  BY <1>1, <1>4 DEF SurvivalInv, HeardInv, AnswersBeforeHard
<1>5. ASSUME ~silent, AnswersBeforeHard
      PROVE  /\ idle <= pingAge \/ pingAge = Soft + 1 \/ Underway'
             /\ \/ idle <= Soft
                \/ idle = Soft + 1 /\ (keeper' = "mark" \/ owed > 0)
                \/ wire # <<>>
                \/ \E i \in DOMAIN asked : idle <= Soft + 1 + asked[i]
             /\ keeper' # "close"
  <2>1. keeper' # "close"
    BY <1>2, <1>4, <1>5, Ages, SMTT(30)
  <2>2. Underway => Underway'
    BY <1>1 DEF Underway
  <2>3. CASE idle = Soft + 1 /\ keeper' # "mark"
    <3>1. Underway
      BY <1>2, <1>4, <1>5, <2>1, <2>3, Ages
    <3>2. owed > 0 \/ asked # <<>> \/ wire # <<>>
      BY <1>1, <3>1 DEF Underway
    <3>3. asked # <<>> => \E i \in DOMAIN asked : idle <= Soft + 1 + asked[i]
      <4>. SUFFICES ASSUME asked # <<>> PROVE \E i \in DOMAIN asked : idle <= Soft + 1 + asked[i]
           OBVIOUS
      <4>1. 1 \in DOMAIN asked
        BY Ages
      <4>. QED BY <2>3, <4>1, Ages
    <3>. QED BY <1>4, <1>5, <2>1, <2>2, <2>3, <3>2, <3>3
  <2>. QED BY <1>2, <1>4, <1>5, <2>1, <2>2, <2>3
<1>6. HeardInv'
  BY <1>1, <1>4, <1>5 DEF HeardInv, Open, AnswersBeforeHard
<1>. QED BY <1>3, <1>6 DEF SurvivalInv

LEMMA SurvivalClose ==
    ASSUME TypeOK, SurvivalInv, CloseIdle
    PROVE  SurvivalInv'
<1>1. /\ keeper = "close" /\ closedBy' = (IF Open THEN "idle" ELSE closedBy)
      /\ UNCHANGED <<silent, habit>>
  BY DEF CloseIdle, clientVars
<1>2. AnsweringClientSurvives'
  BY <1>1 DEF SurvivalInv, AnsweringClientSurvives, HeardInv, AnswersBeforeHard
<1>3. ~Open'
  BY <1>1 DEF Open
<1>. QED BY <1>2, <1>3 DEF SurvivalInv, HeardInv

\* A ping in the making, and then in the queue.
LEMMA SurvivalPing ==
    ASSUME TypeOK, SurvivalInv, Ping
    PROVE  SurvivalInv'
<1>1. UNCHANGED <<wire, asked, silent, habit, idle, closedBy>>
  BY DEF Ping, clientVars, recvVars
<1>2. \/ keeper = "mark" /\ keeper' = "push" /\ pingAge' = 0 /\ owed' = owed
      \/ keeper = "push" /\ keeper' = "idle" /\ pingAge' = pingAge /\ owed' = owed + 1
  BY DEF Ping
<1>3. AnsweringClientSurvives'
  BY <1>1 DEF SurvivalInv, AnsweringClientSurvives, AnswersBeforeHard
<1>4. Underway' /\ keeper' # "close"
  BY <1>1, <1>2, Ages DEF Underway
<1>5. idle = Soft + 1 /\ keeper \in {"mark", "push"} => keeper' = "push" \/ owed' > 0
  BY <1>2, Ages
<1>6. keeper # "idle" /\ (owed > 0 => owed' > 0)
  BY <1>2, Ages
<1>7. HeardInv'
  BY <1>1, <1>2, <1>4, <1>5, <1>6 DEF SurvivalInv, HeardInv, Open, AnswersBeforeHard
<1>. QED BY <1>3, <1>7 DEF SurvivalInv

\* The client has the ping it will answer.
LEMMA SurvivalSendPing ==
    ASSUME TypeOK, SurvivalInv, SendPing
    PROVE  SurvivalInv'
<1>1. UNCHANGED <<wire, silent, habit, pingAge, keeper, checked, idle, closedBy>>
  BY DEF SendPing, keeperVars
<1>2. AnsweringClientSurvives'
  BY <1>1 DEF SurvivalInv, AnsweringClientSurvives, AnswersBeforeHard
<1>3. ASSUME ~silent
      PROVE  /\ asked' # <<>>
             /\ \A i \in DOMAIN asked : i \in DOMAIN asked' /\ asked'[i] = asked[i]
             /\ \E i \in DOMAIN asked' : asked'[i] = 0
  <2>1. asked' = Append(asked, 0)
    BY <1>3 DEF SendPing
  <2>2. Len(asked) + 1 \in DOMAIN asked' /\ asked'[Len(asked) + 1] = 0
    BY <2>1, Ages
  <2>3. \A i \in DOMAIN asked : i \in DOMAIN asked' /\ asked'[i] = asked[i]
    BY <2>1, Ages, SMTT(20)
  <2>. QED BY <2>2, <2>3
<1>4. HeardInv'
  <2>. SUFFICES ASSUME Open', ~silent', AnswersBeforeHard'
                PROVE  /\ Underway'
                       /\ \/ idle' <= Soft \/ wire' # <<>>
                          \/ \E i \in DOMAIN asked' : idle' <= Soft + 1 + asked'[i]
                       /\ idle' <= Soft + 1 + habit'.within
                       /\ keeper' # "close"
       BY DEF HeardInv
  <2>1. Open /\ ~silent /\ AnswersBeforeHard
    BY <1>1 DEF Open, AnswersBeforeHard
  <2>2. /\ \/ idle <= Soft \/ idle = Soft + 1 \/ wire # <<>>
           \/ \E i \in DOMAIN asked : idle <= Soft + 1 + asked[i]
        /\ idle <= Soft + 1 + habit.within
        /\ keeper # "close"
    BY <2>1 DEF SurvivalInv, HeardInv
  <2>3. idle = Soft + 1 => \E i \in DOMAIN asked' : idle' <= Soft + 1 + asked'[i]
    BY <1>1, <1>3, <2>1, Ages
  <2>4. (\E i \in DOMAIN asked : idle <= Soft + 1 + asked[i])
            => \E i \in DOMAIN asked' : idle' <= Soft + 1 + asked'[i]
    BY <1>1, <1>3, <2>1
  <2>5. Underway'
    BY <1>3, <2>1 DEF Underway
  <2>. QED BY <1>1, <2>2, <2>3, <2>4, <2>5
<1>. QED BY <1>2, <1>4 DEF SurvivalInv

\* A tick passes only when everything under way, the client's answer apart, has arrived, and
\* the client has not waited too long with that.
LEMMA SurvivalTick ==
    ASSUME TypeOK, SurvivalInv, Tick
    PROVE  SurvivalInv'
<1>1. /\ idle' = Older(idle, Hard) /\ pingAge' = Older(pingAge, Soft) /\ ~checked'
      /\ asked' = [i \in DOMAIN asked |-> asked[i] + 1]
      /\ \A i \in DOMAIN asked : asked[i] < habit.within
      /\ UNCHANGED <<wire, silent, habit, keeper, owed, closedBy>>
  BY DEF Tick
<1>2. AnsweringClientSurvives'
  BY <1>1 DEF SurvivalInv, AnsweringClientSurvives, AnswersBeforeHard
<1>3. HeardInv'
  <2>. SUFFICES ASSUME Open', ~silent', AnswersBeforeHard'
                PROVE  /\ idle' <= pingAge' \/ pingAge' = Soft + 1 \/ Underway'
                       /\ \/ idle' <= Soft
                          \/ idle' = Soft + 1 /\ keeper' = "idle" /\ ~checked'
                          \/ \E i \in DOMAIN asked' : idle' <= Soft + 1 + asked'[i]
                       /\ idle' <= Soft + 1 + habit'.within
                       /\ keeper' # "close"
       BY DEF HeardInv
  <2>1. Open /\ ~silent /\ AnswersBeforeHard
    BY <1>1 DEF Open, AnswersBeforeHard
  <2>2. checked /\ keeper = "idle" /\ owed = 0 /\ wire = <<>>
    BY <2>1 DEF Tick, Prompt
  <2>3. /\ idle <= pingAge \/ pingAge = Soft + 1 \/ asked # <<>>
        /\ idle <= Soft \/ \E i \in DOMAIN asked : idle <= Soft + 1 + asked[i]
    BY <2>1, <2>2, Ages DEF SurvivalInv, HeardInv, Underway
  <2>4. idle' <= idle + 1 /\ idle' \in Nat
    BY <1>1, Ages DEF Older
  <2>5. idle <= pingAge \/ pingAge = Soft + 1 => idle' <= pingAge' \/ pingAge' = Soft + 1
    BY <1>1, <2>4, Ages DEF Older
  <2>6. asked # <<>> => Underway'
    <3>1. asked # <<>> => 1 \in DOMAIN asked'
      BY <1>1, Ages
    <3>2. asked # <<>> => asked' # <<>>
      BY <3>1
    <3>. QED BY <3>2 DEF Underway
  <2>7. ASSUME NEW i \in DOMAIN asked, idle <= Soft + 1 + asked[i]
        PROVE  /\ \E j \in DOMAIN asked' : idle' <= Soft + 1 + asked'[j]
               /\ idle' <= Soft + 1 + habit'.within
    <3>1. asked[i] \in Nat /\ asked[i] < habit.within
      BY <1>1, Ages
    <3>2. i \in DOMAIN asked' /\ asked'[i] = asked[i] + 1
      BY <1>1
    <3>3. idle \in Nat /\ Soft \in Nat /\ habit.within \in Nat /\ habit' = habit
      BY <1>1, Ages
    <3>4. idle' <= Soft + 1 + asked'[i] /\ idle' <= Soft + 1 + habit.within
      BY <2>4, <2>7, <3>1, <3>2, <3>3
    <3>. QED BY <3>2, <3>3, <3>4
  <2>8. idle <= Soft => /\ idle' <= Soft \/ idle' = Soft + 1
                        /\ idle' <= Soft + 1 + habit'.within
    BY <1>1, <2>4, Ages
  <2>. QED BY <1>1, <2>2, <2>3, <2>5, <2>6, <2>7, <2>8
<1>. QED BY <1>2, <1>3 DEF SurvivalInv

LEMMA SurvivalNext ==
    ASSUME TypeOK, SurvivalInv, [Next]_vars
    PROVE  SurvivalInv'
<1>1. CASE ClientStep
  <2>1. CASE ClientSendsData \/ ClientPing \/ ClientAnswers
    BY <2>1, SurvivalSend
  <2>2. CASE ClientFallsSilent
    BY <2>2 DEF ClientFallsSilent, SurvivalInv, HeardInv, AnsweringClientSurvives
  <2>. QED BY <1>1, <2>1, <2>2 DEF ClientStep
<1>2. CASE RecvStep
  <2>1. CASE Receive
    BY <2>1, SurvivalReceive
  <2>2. CASE ParsePacket
    <3>1. idle' \in {0, idle}
      BY <2>2, Zenon DEF ParsePacket
    <3>. QED BY <2>2, <3>1, SurvivalSteady DEF ParsePacket, clientVars, keeperVars
  <2>3. CASE ParseWaits \/ ParseResyncs
    BY <2>3, SurvivalSteady DEF ParseWaits, ParseResyncs, clientVars, keeperVars
  <2>. QED BY <1>2, <2>1, <2>2, <2>3 DEF RecvStep
<1>3. CASE KeeperStep
  BY <1>3, SurvivalCheck, SurvivalPing, SurvivalClose DEF KeeperStep
<1>4. CASE SocketFails
  BY <1>4 DEF SocketFails, SurvivalInv, HeardInv, AnsweringClientSurvives, Open
<1>5. CASE UNCHANGED vars
  BY <1>5, SurvivalSteady DEF vars, clientVars, recvVars, keeperVars
<1>. QED BY <1>1, <1>2, <1>3, <1>4, <1>5, SurvivalSendPing, SurvivalTick DEF Next

\* For any timeouts and habits: as long as each ping is answered before the hard timeout, only
\* a client that has stopped sending is closed for being idle, wherever its answers are cut,
\* and although the parser may drop them (photon_queue.py: every chunk received counts).
THEOREM AnsweringClientsSurvive == Spec => []AnsweringClientSurvives
<1>1. TypeOK /\ SurvivalInv /\ [Next]_vars => SurvivalInv'
  BY SurvivalNext
<1>2. SurvivalInv => AnsweringClientSurvives
  BY DEF SurvivalInv
<1>. QED BY SurvivalInit, TypeCorrect, <1>1, <1>2, PTL DEF Spec

=============================================================================
