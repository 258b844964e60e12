-------------------------- MODULE ProxyHopsProofs --------------------------
(***************************************************************************)
(* Proofs about ProxyHops: what a parser makes of the bytes of a packet, or *)
(* of the beginning of them, whatever follows; the invariant of a hop; and  *)
(* with it ReadAsSent, InSync and ClientStaysOnProxy.                       *)
(***************************************************************************)
EXTENDS ProxyHops, SequenceTheorems, TLAPS

-----------------------------------------------------------------------------
(* Sequences of bytes.                                                     *)

\* What lies inside of another sequence, cut out of it.
LEMMA SubSeqInside ==
    ASSUME NEW s \in Seq(Byte), NEW t \in Seq(Byte), NEW a \in Nat,
           a + Len(t) <= Len(s), \A i \in 1 .. Len(t) : s[a + i] = t[i]
    PROVE  SubSeq(s, a + 1, a + Len(t)) = t
<1>. DEFINE u == SubSeq(s, a + 1, a + Len(t))
<1>1. \A i \in a + 1 .. a + Len(t) : s[i] \in Byte
  OBVIOUS
<1>2. /\ u \in Seq(Byte)
      /\ Len(u) = IF a + 1 <= a + Len(t) THEN (a + Len(t)) - (a + 1) + 1 ELSE 0
      /\ \A i \in 1 .. (a + Len(t)) - (a + 1) + 1 : u[i] = s[(a + 1) + i - 1]
  <2>1. a + 1 \in Int /\ a + Len(t) \in Int
    OBVIOUS
  <2>. QED BY ONLY <1>1, <2>1, SubSeqProperties
<1>. HIDE DEF u
<1>3. Len(u) = Len(t) /\ \A i \in 1 .. Len(u) : u[i] = t[i]
  BY <1>2
<1>4. u = t
  BY <1>2, <1>3, SeqEqual
<1>. QED BY <1>4 DEF u

\* Two of them, one behind the other.
Joins(u, s, t) ==
    /\ u \in Seq(Byte) /\ Len(u) = Len(s) + Len(t) /\ Len(s) \in Nat /\ Len(t) \in Nat
    /\ \A i \in 1 .. Len(s) : u[i] = s[i]
    /\ \A i \in 1 .. Len(t) : u[Len(s) + i] = t[i]

\* A concatenation joins its parts.
LEMMA Joined ==
    ASSUME NEW s \in Seq(Byte), NEW t \in Seq(Byte)
    PROVE  Joins(s \o t, s, t)
<1>0. PICK u : u = s \o t
  OBVIOUS
<1>1. /\ u \in Seq(Byte) /\ Len(u) = Len(s) + Len(t)
      /\ \A i \in 1 .. Len(s) + Len(t) : u[i] = IF i <= Len(s) THEN s[i] ELSE t[i - Len(s)]
  BY <1>0, ConcatProperties
<1>2. Len(s) \in Nat /\ Len(t) \in Nat
  OBVIOUS
<1>3. ASSUME NEW i \in 1 .. Len(t) PROVE u[Len(s) + i] = t[i]
  <2>1. Len(s) + i \in 1 .. Len(s) + Len(t) /\ ~(Len(s) + i <= Len(s)) /\ (Len(s) + i) - Len(s) = i
    BY <1>2
  <2>. QED BY <1>1, <2>1
<1>4. \A i \in 1 .. Len(s) : u[i] = s[i]
  BY <1>1, <1>2
<1>. QED BY <1>0, <1>1, <1>2, <1>3, <1>4 DEF Joins

\* What arrives in two parts is the same as in one.
LEMMA Regroup ==
    ASSUME NEW s \in Seq(Byte), NEW t \in Seq(Byte), NEW u \in Seq(Byte)
    PROVE  (s \o t) \o u = s \o (t \o u)
BY ConcatAssociative

\* A sequence cut in two.
LEMMA Cut ==
    ASSUME NEW s \in Seq(Byte), NEW n \in 0 .. Len(s)
    PROVE  /\ SubSeq(s, 1, n) \in Seq(Byte) /\ Len(SubSeq(s, 1, n)) = n
           /\ \A i \in 1 .. n : SubSeq(s, 1, n)[i] = s[i]
           /\ SubSeq(s, n + 1, Len(s)) \in Seq(Byte) /\ Len(SubSeq(s, n + 1, Len(s))) = Len(s) - n
           /\ \A i \in 1 .. Len(s) - n : SubSeq(s, n + 1, Len(s))[i] = s[n + i]
<1>1. \A i \in 1 .. Len(s) : s[i] \in Byte
  OBVIOUS
<1>2. /\ SubSeq(s, 1, n) \in Seq(Byte)
      /\ Len(SubSeq(s, 1, n)) = IF 1 <= n THEN n - 1 + 1 ELSE 0
      /\ \A i \in 1 .. n - 1 + 1 : SubSeq(s, 1, n)[i] = s[1 + i - 1]
  <2>1. \A i \in 1 .. n : s[i] \in Byte
    BY <1>1
  <2>. QED BY <2>1, SubSeqProperties
<1>3. /\ SubSeq(s, n + 1, Len(s)) \in Seq(Byte)
      /\ Len(SubSeq(s, n + 1, Len(s))) = IF n + 1 <= Len(s) THEN Len(s) - (n + 1) + 1 ELSE 0
      /\ \A i \in 1 .. Len(s) - (n + 1) + 1 : SubSeq(s, n + 1, Len(s))[i] = s[(n + 1) + i - 1]
  <2>1. \A i \in n + 1 .. Len(s) : s[i] \in Byte
    BY <1>1
  <2>2. n + 1 \in Int /\ Len(s) \in Int
    OBVIOUS
  <2>. QED BY <2>1, <2>2, SubSeqProperties
<1>. QED BY <1>2, <1>3

\* The parts of a sequence that was cut join to it.
LEMMA CutJoins ==
    ASSUME NEW s \in Seq(Byte), NEW n \in 0 .. Len(s)
    PROVE  SubSeq(s, 1, n) \o SubSeq(s, n + 1, Len(s)) = s
<1>1. PICK a : a = SubSeq(s, 1, n)
  OBVIOUS
<1>2. PICK b : b = SubSeq(s, n + 1, Len(s))
  OBVIOUS
<1>3. /\ a \in Seq(Byte) /\ Len(a) = n /\ \A i \in 1 .. n : a[i] = s[i]
      /\ b \in Seq(Byte) /\ Len(b) = Len(s) - n /\ \A i \in 1 .. Len(s) - n : b[i] = s[n + i]
  BY <1>1, <1>2, Cut
<1>4. PICK u : u = a \o b
  OBVIOUS
<1>5. /\ u \in Seq(Byte) /\ Len(u) = Len(a) + Len(b)
      /\ \A i \in 1 .. Len(a) : u[i] = a[i]
      /\ \A i \in 1 .. Len(b) : u[Len(a) + i] = b[i]
  <2>1. Joins(u, a, b)
    BY <1>3, <1>4, Joined
  <2>. QED BY <2>1 DEF Joins
<1>6. Len(s) \in Nat
  OBVIOUS
<1>7. Len(u) = Len(s)
  BY <1>3, <1>5, <1>6
<1>8. ASSUME NEW i \in 1 .. Len(s) PROVE u[i] = s[i]
  <2>1. CASE i <= n
    BY <1>3, <1>5, <2>1
  <2>2. CASE i > n
    <3>1. PICK j : j = i - n
      OBVIOUS
    <3>2. j \in 1 .. Len(s) - n /\ i = n + j
      BY <1>6, <2>2, <3>1
    <3>. QED BY <1>3, <1>5, <3>2
  <2>. QED BY <1>6, <2>1, <2>2
<1>9. u = s
  BY <1>5, <1>7, <1>8, SeqEqual
<1>. QED BY <1>1, <1>2, <1>4, <1>9

-----------------------------------------------------------------------------
(* Numbers.                                                                *)

\* Numbers of 31 bits, which a header and a keep-alive can hold.
Sized(n) == n \in Nat /\ n \div 256 < 128 * 256 * 256

\* A number by its last digit to the base of 256.
LEMMA LastDigit ==
    ASSUME NEW n \in Nat
    PROVE  n \div 256 \in Nat /\ n % 256 \in Byte /\ n = (n \div 256) * 256 + (n % 256)
BY DEF Byte

\* The digits of a number to the base of 256.
DigitsOf(n, k, a, b, c) ==
    /\ k \in 0 .. 127 /\ k \in Byte /\ a \in Byte /\ b \in Byte /\ c \in Byte
    /\ Long(n) = <<k, a, b, c>> /\ n = ((k * 256 + a) * 256 + b) * 256 + c

\* A number of 31 bits has four digits, the first below 128: it is read as it was packed.
LEMMA Digits ==
    ASSUME NEW n, Sized(n)
    PROVE  \E k, a, b, c : DigitsOf(n, k, a, b, c)
<1>1. PICK m : m = n \div 256
  OBVIOUS
<1>2. PICK l : l = m \div 256
  OBVIOUS
<1>3. PICK k : k = l \div 256
  OBVIOUS
<1>4. PICK a : a = l % 256
  OBVIOUS
<1>5. PICK b : b = m % 256
  OBVIOUS
<1>6. PICK c : c = n % 256
  OBVIOUS
<1>7. m \in Nat /\ c \in Byte /\ n = m * 256 + c /\ m < 128 * 256 * 256
  BY <1>1, <1>6, LastDigit DEF Sized
<1>8. l \in Nat /\ b \in Byte /\ m = l * 256 + b
  BY <1>2, <1>5, <1>7, LastDigit
<1>9. k \in Nat /\ a \in Byte /\ l = k * 256 + a
  BY <1>3, <1>4, <1>8, LastDigit
<1>10. Long(n) = <<k, a, b, c>>
  BY <1>1, <1>2, <1>3, <1>4, <1>5, <1>6 DEF Long
<1>11. k \in 0 .. 127
  BY <1>7, <1>8, <1>9 DEF Byte
<1>12. n = ((k * 256 + a) * 256 + b) * 256 + c
  BY <1>7, <1>8, <1>9
<1>13. k \in Byte
  BY <1>11 DEF Byte
<1>14. DigitsOf(n, k, a, b, c)
  BY <1>7, <1>8, <1>9, <1>10, <1>11, <1>12, <1>13 DEF DigitsOf
<1>. QED BY <1>14

\* They are four bytes.
LEMMA LongBytes ==
    ASSUME NEW n, Sized(n)
    PROVE  Long(n) \in Seq(Byte) /\ Len(Long(n)) = 4
<1>1. PICK k, a, b, c : DigitsOf(n, k, a, b, c)
  BY Digits
<1>. QED BY <1>1 DEF DigitsOf

\* A number is read back from wherever its bytes are.
LEMMA LongIsRead ==
    ASSUME NEW n, Sized(n), NEW bytes, NEW at \in Nat,
           \A i \in 1 .. 4 : bytes[at + i - 1] = Long(n)[i]
    PROVE  LongAt(bytes, at) = n
<1>1. PICK k, a, b, c : DigitsOf(n, k, a, b, c)
  BY Digits
<1>2. bytes[at] = k /\ bytes[at + 1] = a /\ bytes[at + 2] = b /\ bytes[at + 3] = c
  BY <1>1 DEF DigitsOf
<1>3. HighByte(bytes[at]) = k
  BY <1>1, <1>2 DEF HighByte, DigitsOf
<1>. QED BY <1>1, <1>2, <1>3 DEF LongAt, DigitsOf

-----------------------------------------------------------------------------
(* Encryption.                                                             *)

\* The text with its padding.
Fill(bytes) == bytes \o [i \in 1 .. 16 - (Len(bytes) % 16) |-> 16 - (Len(bytes) % 16)]

\* A filled text is bytes, at most 16 more.
LEMMA FillBytes ==
    ASSUME NEW bytes \in Seq(Byte)
    PROVE  /\ Fill(bytes) \in Seq(Byte)
           /\ Len(Fill(bytes)) = Len(bytes) + (16 - (Len(bytes) % 16)) /\ Len(bytes) % 16 \in 0 .. 15
           /\ \A i \in 1 .. Len(bytes) : Fill(bytes)[i] = bytes[i]
           /\ \A i \in Len(bytes) + 1 .. Len(Fill(bytes)) : Fill(bytes)[i] = 16 - (Len(bytes) % 16)
<1>1. PICK n : n = 16 - (Len(bytes) % 16)
  OBVIOUS
<1>2. n \in 1 .. 16 /\ Len(bytes) % 16 \in 0 .. 15 /\ Len(bytes) \in Nat
  <2>1. Len(bytes) \in Nat /\ \A l \in Nat : l % 16 \in 0 .. 15
    OBVIOUS
  <2>2. \A m \in 0 .. 15 : 16 - m \in 1 .. 16
    OBVIOUS
  <2>. QED BY <1>1, <2>1, <2>2, Zenon
<1>3. PICK p : p = [i \in 1 .. n |-> n]
  OBVIOUS
<1>4. p \in Seq(Byte) /\ Len(p) = n /\ \A i \in 1 .. n : p[i] = n
  BY <1>2, <1>3 DEF Byte
<1>5. Fill(bytes) = bytes \o p
  BY <1>1, <1>3 DEF Fill
<1>6. /\ bytes \o p \in Seq(Byte) /\ Len(bytes \o p) = Len(bytes) + Len(p)
      /\ \A i \in 1 .. Len(bytes) + Len(p) :
            (bytes \o p)[i] = IF i <= Len(bytes) THEN bytes[i] ELSE p[i - Len(bytes)]
  BY <1>4, ConcatProperties
<1>. QED BY <1>1, <1>2, <1>4, <1>5, <1>6

\* Filled up to the next multiple of 16, and never left as it is.
LEMMA Multiple ==
    ASSUME NEW n \in Nat
    PROVE  (n + (16 - (n % 16))) % 16 = 0
<1>1. n % 16 \in 0 .. 15 /\ n = 16 * (n \div 16) + (n % 16) /\ n \div 16 \in Nat
  OBVIOUS
<1>2. n + (16 - (n % 16)) = 16 * ((n \div 16) + 1)
  BY <1>1
<1>3. \A q \in Nat : (16 * (q + 1)) % 16 = 0
  OBVIOUS
<1>. QED BY <1>1, <1>2, <1>3

\* Padding is recognised, and taking it off leaves the text, also after a whole number of blocks.
LEMMA FillIsPadded ==
    ASSUME NEW bytes \in Seq(Byte)
    PROVE  Padded(Fill(bytes)) /\ Unpad(Fill(bytes)) = bytes
<1>1. PICK f : f = Fill(bytes)
  OBVIOUS
<1>2. PICK n : n = 16 - (Len(bytes) % 16)
  OBVIOUS
<1>3. /\ f \in Seq(Byte) /\ Len(f) = Len(bytes) + n /\ n \in 1 .. 16 /\ Len(bytes) \in Nat
      /\ \A i \in 1 .. Len(bytes) : f[i] = bytes[i]
      /\ \A i \in Len(bytes) + 1 .. Len(f) : f[i] = n
  <2>1. /\ f \in Seq(Byte)
        /\ Len(f) = Len(bytes) + (16 - (Len(bytes) % 16)) /\ Len(bytes) % 16 \in 0 .. 15
        /\ \A i \in 1 .. Len(bytes) : f[i] = bytes[i]
        /\ \A i \in Len(bytes) + 1 .. Len(f) : f[i] = 16 - (Len(bytes) % 16)
    BY <1>1, FillBytes, Zenon
  <2>2. n \in 1 .. 16 /\ Len(bytes) \in Nat
    <3>1. Len(bytes) \in Nat /\ \A m \in 0 .. 15 : 16 - m \in 1 .. 16
      OBVIOUS
    <3>. QED BY <1>2, <2>1, <3>1, Zenon
  <2>. QED BY <1>2, <2>1, <2>2
<1>4. Len(f) % 16 = 0
  BY <1>2, <1>3, Multiple
<1>5. Padding(f) = n
  BY <1>3 DEF Padding
<1>6. Padded(f)
  <2>1. f # <<>>
    BY <1>3
  <2>2. ASSUME NEW i \in 0 .. n - 1 PROVE f[Len(f) - i] = n
    <3>1. Len(f) - i \in Len(bytes) + 1 .. Len(f)
      BY <1>3
    <3>. QED BY <1>3, <3>1
  <2>. QED BY <1>3, <1>4, <1>5, <2>1, <2>2 DEF Padded
<1>7. Unpad(f) = bytes
  <2>1. SubSeq(f, 0 + 1, 0 + Len(bytes)) = bytes
    <3>1. 0 + Len(bytes) <= Len(f) /\ \A i \in 1 .. Len(bytes) : f[0 + i] = bytes[i]
      BY <1>3
    <3>. QED BY <1>3, <3>1, SubSeqInside
  <2>2. Len(f) - Padding(f) = 0 + Len(bytes) /\ 0 + 1 = 1
    BY <1>3, <1>5
  <2>. QED BY <2>1, <2>2 DEF Unpad
<1>. QED BY <1>1, <1>6, <1>7

\* What is shifted are bytes, as many as before.
LEMMA ShiftBytes ==
    ASSUME NEW bytes \in Seq(Byte), NEW by \in Nat
    PROVE  /\ Shift(bytes, by) \in Seq(Byte) /\ Len(Shift(bytes, by)) = Len(bytes)
           /\ \A i \in 1 .. Len(bytes) : Shift(bytes, by)[i] = (bytes[i] + by) % 256
<1>1. \A i \in 1 .. Len(bytes) : bytes[i] \in Byte /\ (bytes[i] + by) % 256 \in Byte
  <2>1. \A b \in Byte : (b + by) % 256 \in Byte
    BY DEF Byte
  <2>. QED BY <2>1
<1>2. DOMAIN bytes = 1 .. Len(bytes) /\ Len(bytes) \in Nat
  OBVIOUS
<1>. QED BY <1>1, <1>2 DEF Shift

\* What is encrypted with a key is decrypted with it.
LEMMA ShiftBack ==
    ASSUME NEW bytes \in Seq(Byte), NEW k \in 1 .. 255
    PROVE  Shift(Shift(bytes, k), 256 - k) = bytes
<1>1. PICK s : s = Shift(bytes, k)
  OBVIOUS
<1>2. PICK t : t = Shift(s, 256 - k)
  OBVIOUS
<1>3. s \in Seq(Byte) /\ Len(s) = Len(bytes) /\ \A i \in 1 .. Len(bytes) : s[i] = (bytes[i] + k) % 256
  BY <1>1, ShiftBytes
<1>4. t \in Seq(Byte) /\ Len(t) = Len(s) /\ \A i \in 1 .. Len(s) : t[i] = (s[i] + (256 - k)) % 256
  <2>1. 256 - k \in Nat
    OBVIOUS
  <2>. QED BY <1>2, <1>3, <2>1, ShiftBytes
<1>5. \A b \in 0 .. 255 : (((b + k) % 256) + (256 - k)) % 256 = b
  OBVIOUS
<1>6. \A i \in 1 .. Len(t) : t[i] = bytes[i]
  <2>1. ASSUME NEW i \in 1 .. Len(t) PROVE t[i] = bytes[i]
    <3>1. bytes[i] \in 0 .. 255 /\ i \in 1 .. Len(bytes) /\ i \in 1 .. Len(s)
      BY <1>3, <1>4 DEF Byte
    <3>2. t[i] = (((bytes[i] + k) % 256) + (256 - k)) % 256
      BY <1>3, <1>4, <3>1
    <3>. QED BY <1>5, <3>1, <3>2, ZenonT(30)
  <2>. QED BY <2>1
<1>7. t = bytes
  BY <1>3, <1>4, <1>6, SeqEqual
<1>. QED BY <1>1, <1>2, <1>7

\* What is encrypted are bytes, and decrypting them gives the text with its padding.
LEMMA EncryptBytes ==
    ASSUME NEW bytes \in Seq(Byte), NEW k \in 1 .. 255
    PROVE  /\ Encrypt(bytes, k) \in Seq(Byte) /\ Len(Encrypt(bytes, k)) <= Len(bytes) + 16
           /\ Shift(Encrypt(bytes, k), 256 - k) = Fill(bytes)
<1>1. Encrypt(bytes, k) = Shift(Fill(bytes), k)
  BY DEF Encrypt, Fill
<1>2. Fill(bytes) \in Seq(Byte) /\ Len(Fill(bytes)) <= Len(bytes) + 16
  BY FillBytes
<1>3. Shift(Shift(Fill(bytes), k), 256 - k) = Fill(bytes)
  BY <1>2, ShiftBack
<1>4. k \in Nat
  OBVIOUS
<1>5. Shift(Fill(bytes), k) \in Seq(Byte) /\ Len(Shift(Fill(bytes), k)) = Len(Fill(bytes))
  BY <1>2, <1>4, ShiftBytes
<1>. QED BY <1>1, <1>2, <1>3, <1>5

-----------------------------------------------------------------------------
(* Packets of data.                                                        *)

\* The length of a packet that is not too long has 31 bits.
LEMMA SizedPacket ==
    ASSUME NEW n \in Nat, n <= MaxPacketLength
    PROVE  Sized(n)
<1>1. n = (n \div 256) * 256 + (n % 256) /\ n % 256 \in 0 .. 255 /\ n \div 256 \in Nat
  BY LastDigit DEF Byte
<1>2. PICK d : d = n \div 256
  OBVIOUS
<1>3. d \in Nat /\ d * 256 <= 16 * 1024 * 1024
  BY <1>1, <1>2 DEF MaxPacketLength
<1>4. d < 128 * 256 * 256
  BY <1>3
<1>. QED BY <1>2, <1>4 DEF Sized

\* The bytes of a packet of data with its header.
IsData(s, command, content) ==
    /\ s \in Seq(Byte) /\ Len(s) = HeaderSize + Len(content) /\ Len(s) <= MaxPacketLength
    /\ s[1] = DataFormat /\ s[9] = command
    /\ \A i \in 1 .. 4 : s[1 + i] = Long(Len(s))[i]
    /\ \A i \in 1 .. Len(content) : s[HeaderSize + i] = content[i]

\* The first nine bytes of a packet of data.
LEMMA Header ==
    ASSUME NEW n, Sized(n), NEW command \in Byte
    PROVE  LET h == <<DataFormat>> \o Long(n) \o <<0, 1, 243, command>>
           IN  /\ h \in Seq(Byte) /\ Len(h) = 9 /\ h[1] = DataFormat /\ h[9] = command
               /\ \A i \in 1 .. 4 : h[1 + i] = Long(n)[i]
<1>1. PICK k, a, b, c : DigitsOf(n, k, a, b, c)
  BY Digits
<1>2. Long(n) = <<k, a, b, c>> /\ k \in Byte /\ a \in Byte /\ b \in Byte /\ c \in Byte
  BY <1>1 DEF DigitsOf
<1>3. PICK h : h = <<251>> \o <<k, a, b, c>> \o <<0, 1, 243, command>>
  OBVIOUS
<1>5. 251 \in Byte /\ 0 \in Byte /\ 1 \in Byte /\ 243 \in Byte
  BY DEF Byte
<1>4. PICK g : g = <<251>> \o <<k, a, b, c>>
  OBVIOUS
<1>6. /\ g \in Seq(Byte) /\ Len(g) = 5 /\ g[1] = 251
      /\ \A i \in 1 .. 4 : g[1 + i] = <<k, a, b, c>>[i]
  BY <1>2, <1>4, <1>5
<1>7. /\ <<0, 1, 243, command>> \in Seq(Byte) /\ Len(<<0, 1, 243, command>>) = 4
      /\ <<0, 1, 243, command>>[4] = command
  BY <1>5
<1>8. /\ h \in Seq(Byte) /\ Len(h) = 9
      /\ \A i \in 1 .. 9 : h[i] = IF i <= 5 THEN g[i] ELSE <<0, 1, 243, command>>[i - 5]
  BY <1>3, <1>4, <1>6, <1>7, ConcatProperties
<1>9. \A i \in 1 .. 5 : h[i] = g[i]
  BY <1>8
<1>10. h[9] = command
  BY <1>7, <1>8
<1>. QED BY <1>2, <1>3, <1>6, <1>8, <1>9, <1>10 DEF DataFormat

\* Header and content lie where the parser looks for them.
LEMMA DataPacketBytes ==
    ASSUME NEW command \in Byte, NEW content \in Seq(Byte), Len(content) <= MaxPacketLength - HeaderSize
    PROVE  IsData(DataPacket(command, content), command, content)
<1>1. PICK n : n = HeaderSize + Len(content)
  OBVIOUS
<1>2. n \in Nat /\ n <= MaxPacketLength /\ n = 9 + Len(content) /\ Len(content) \in Nat
  BY <1>1 DEF HeaderSize, MaxPacketLength
<1>3. Sized(n)
  BY <1>2, SizedPacket
<1>4. PICK h : h = <<DataFormat>> \o Long(n) \o <<0, 1, 243, command>>
  OBVIOUS
<1>5. /\ h \in Seq(Byte) /\ Len(h) = 9 /\ h[1] = DataFormat /\ h[9] = command
      /\ \A i \in 1 .. 4 : h[1 + i] = Long(n)[i]
  BY <1>3, <1>4, Header
<1>6. PICK s : s = h \o content
  OBVIOUS
<1>7. /\ s \in Seq(Byte) /\ Len(s) = Len(h) + Len(content)
      /\ \A i \in 1 .. Len(h) + Len(content) : s[i] = IF i <= Len(h) THEN h[i] ELSE content[i - Len(h)]
  BY <1>5, <1>6, ConcatProperties
<1>8. Len(s) = n
  BY <1>2, <1>5, <1>7
<1>9. \A i \in 1 .. 9 : s[i] = h[i]
  BY <1>2, <1>5, <1>7
<1>10. \A i \in 1 .. Len(content) : s[9 + i] = content[i]
  BY <1>2, <1>5, <1>7
<1>11. DataPacket(command, content) = s
  BY <1>1, <1>4, <1>6 DEF DataPacket
<1>12. \A i \in 1 .. 4 : s[1 + i] = Long(n)[i]
  BY <1>5, <1>9
<1>13. IsData(s, command, content)
  BY <1>2, <1>5, <1>7, <1>8, <1>9, <1>10, <1>12 DEF IsData, HeaderSize
<1>. QED BY <1>11, <1>13

\* The bytes that are there are those of s.
Agrees(bytes, s) == \A i \in 1 .. Len(s) : i <= Len(bytes) => bytes[i] = s[i]

\* What parse makes of a content for a command.
ParseContent(command, content, length, k) ==
    LET commands == {c \in DOMAIN Command : Command[c] = command}
    IN  IF command = 0 THEN ParseInit(content, length)
        ELSE IF command = 1 THEN ParseInitResponse(content, length)
        ELSE IF commands = {} THEN Raise
        ELSE ParseOperation(CHOOSE c \in commands : TRUE, content, length, k)

\* The length in the header is that of the packet.
LEMMA DataLength ==
    ASSUME NEW s, NEW command, NEW content \in Seq(Byte), IsData(s, command, content),
           NEW bytes \in Seq(Byte), Agrees(bytes, s), Len(bytes) >= HeaderSize
    PROVE  /\ LongAt(bytes, 2) = Len(s) /\ bytes[9] = command
           /\ Len(s) \in Nat /\ Len(s) >= HeaderSize /\ ~(Len(s) <= 0 \/ Len(s) > MaxPacketLength)
<1>1. /\ Len(s) = 9 + Len(content) /\ Len(s) <= MaxPacketLength /\ s[9] = command
      /\ \A i \in 1 .. 4 : s[1 + i] = Long(Len(s))[i]
  BY DEF IsData, HeaderSize
<1>2. Len(content) \in Nat /\ Len(bytes) \in Nat /\ Len(bytes) >= 9
  BY DEF HeaderSize
<1>3. Len(s) \in Nat /\ Len(s) >= 9
  BY <1>1, <1>2
<1>4. \A i \in 1 .. 9 : bytes[i] = s[i]
  BY <1>2, <1>3 DEF Agrees
<1>5. \A i \in 1 .. 4 : bytes[2 + i - 1] = Long(Len(s))[i]
  BY <1>1, <1>4
<1>6. LongAt(bytes, 2) = Len(s)
  BY <1>1, <1>3, <1>5, SizedPacket, LongIsRead
<1>7. MaxPacketLength \in Nat
  BY DEF MaxPacketLength
<1>8. Len(s) >= 9 /\ ~(Len(s) <= 0) /\ ~(Len(s) > MaxPacketLength)
  BY ONLY <1>1, <1>3, <1>7
<1>9. bytes[9] = command
  BY <1>1, <1>4
<1>. QED BY <1>3, <1>6, <1>8, <1>9 DEF HeaderSize

\* Of a part of a packet of data the parser makes nothing yet.
LEMMA DataIsAwaited ==
    ASSUME NEW s, NEW command, NEW content \in Seq(Byte), IsData(s, command, content),
           NEW bytes \in Seq(Byte), Agrees(bytes, s), Len(bytes) < Len(s),
           NEW responses, NEW k
    PROVE  ParseOne(bytes, responses, k) = Wait
<1>1. CASE bytes = <<>>
  BY <1>1 DEF ParseOne
<1>2. CASE bytes # <<>>
  <2>1. Len(bytes) \in Nat /\ Len(bytes) > 0
    BY <1>2
  <2>2. Len(s) \in Nat /\ s[1] = DataFormat
    BY DEF IsData, Byte
  <2>3. bytes[1] = DataFormat
    BY <2>1, <2>2 DEF Agrees
  <2>4. ParseOne(bytes, responses, k) = ParseData(bytes, k)
    BY <1>2, <2>3 DEF ParseOne, DataFormat, KeepAliveFormat
  <2>5. CASE ~Has(bytes, HeaderSize)
    BY <2>4, <2>5 DEF ParseData
  <2>6. CASE Has(bytes, HeaderSize)
    <3>1. LongAt(bytes, 2) = Len(s) /\ ~(Len(s) <= 0 \/ Len(s) > MaxPacketLength)
      BY <2>6, DataLength DEF Has
    <3>2. ~Has(bytes, Len(s))
      BY <2>1, <2>2 DEF Has
    <3>. QED BY <2>4, <2>6, <3>1, <3>2 DEF ParseData
  <2>. QED BY <2>5, <2>6
<1>. QED BY <1>1, <1>2

\* What it makes of a whole one depends on the content and not on what follows.
LEMMA DataIsParsed ==
    ASSUME NEW s, NEW command, NEW content \in Seq(Byte), IsData(s, command, content),
           NEW bytes \in Seq(Byte), Agrees(bytes, s), Len(bytes) >= Len(s),
           NEW responses, NEW k
    PROVE  ParseOne(bytes, responses, k) = ParseContent(command, content, Len(s), k)
<1>1. /\ Len(s) = 9 + Len(content) /\ s[1] = DataFormat /\ Len(content) \in Nat /\ Len(bytes) \in Nat
      /\ \A i \in 1 .. Len(content) : s[9 + i] = content[i]
  BY DEF IsData, HeaderSize
<1>2. Len(s) \in Nat /\ Len(s) >= 9 /\ Len(bytes) >= 9
  BY <1>1
<1>3. \A i \in 1 .. Len(s) : bytes[i] = s[i]
  BY <1>1, <1>2 DEF Agrees
<1>4. bytes # <<>> /\ bytes[1] = DataFormat
  BY <1>1, <1>2, <1>3
<1>5. ParseOne(bytes, responses, k) = ParseData(bytes, k)
  BY <1>4 DEF ParseOne, DataFormat, KeepAliveFormat
<1>6. /\ LongAt(bytes, 2) = Len(s) /\ bytes[9] = command
      /\ ~(Len(s) <= 0 \/ Len(s) > MaxPacketLength) /\ ~(Len(s) < HeaderSize)
  BY <1>1, <1>2, DataLength DEF HeaderSize
<1>7. Has(bytes, HeaderSize) /\ Has(bytes, Len(s))
  BY <1>1, <1>2 DEF Has, HeaderSize
<1>8. SubSeq(bytes, HeaderSize + 1, Len(s)) = content
  <2>1. \A i \in 1 .. Len(content) : bytes[9 + i] = content[i]
    BY <1>1, <1>3
  <2>2. SubSeq(bytes, 9 + 1, 9 + Len(content)) = content
    <3>1. 9 + Len(content) <= Len(bytes) /\ 9 \in Nat
      BY <1>1
    <3>. QED BY <2>1, <3>1, SubSeqInside
  <2>. QED BY <1>1, <2>2 DEF HeaderSize
<1>. QED BY <1>5, <1>6, <1>7, <1>8 DEF ParseData, ParseContent

-----------------------------------------------------------------------------
(* Packets are read as they were written.                                  *)

\* An operation that its payload stands for.
Readable(p) ==
    /\ IsOperation(p) /\ ReadsBack(p)
    /\ p[1] \in KeyExchange => p = KeyExchangePacket(p[1], p[4][1][2][2])

\* A packet that a sender may put on a line to a parser that does or does not expect responses.
Sendable(p, responses) ==
    \/ p = InitRequestPacket(AppId) \/ p = InitResponsePacket
    \/ ~responses /\ \E n : Sized(n) /\ p = KeepAliveRequest(n)
    \/ responses /\ \E m, n : Sized(m) /\ Sized(n) /\ p = KeepAliveResponse(m, n)
    \/ Readable(p)

\* A parser that is given s, or a part of it, and has a key.
IsReadFrom(p, s, responses, k) ==
    /\ s \in Seq(Byte) /\ s # <<>>
    /\ \A bytes \in Seq(Byte) : Agrees(bytes, s) =>
        /\ Len(bytes) < Len(s) => \A key0 : ParseOne(bytes, responses, key0) = Wait
        /\ Len(bytes) >= Len(s) =>
            \A key0 : (IsEncrypted(p) => key0 = k) => ParseOne(bytes, responses, key0) = Parsed(p, Len(s))

\* A packet of data is read when its content is.
LEMMA DataIsReadFrom ==
    ASSUME NEW p, NEW command \in Byte, NEW content \in Seq(Byte),
           Len(content) <= MaxPacketLength - HeaderSize, NEW responses, NEW k,
           \A length, key0 : (IsEncrypted(p) => key0 = k) =>
                ParseContent(command, content, length, key0) = Parsed(p, length)
    PROVE  IsReadFrom(p, DataPacket(command, content), responses, k)
<1>1. PICK s : s = DataPacket(command, content)
  OBVIOUS
<1>2. IsData(s, command, content)
  BY <1>1, DataPacketBytes
<1>3. s \in Seq(Byte) /\ s # <<>>
  <2>1. s \in Seq(Byte) /\ Len(s) = 9 + Len(content) /\ Len(content) \in Nat
    BY <1>2 DEF IsData, HeaderSize
  <2>. QED BY <2>1
<1>4. ASSUME NEW bytes \in Seq(Byte), Agrees(bytes, s), Len(bytes) < Len(s), NEW key0
      PROVE  ParseOne(bytes, responses, key0) = Wait
  BY <1>2, <1>4, DataIsAwaited
<1>5. ASSUME NEW bytes \in Seq(Byte), Agrees(bytes, s), Len(bytes) >= Len(s), NEW key0,
             IsEncrypted(p) => key0 = k
      PROVE  ParseOne(bytes, responses, key0) = Parsed(p, Len(s))
  <2>1. ParseOne(bytes, responses, key0) = ParseContent(command, content, Len(s), key0)
    BY <1>2, <1>5, DataIsParsed
  <2>. QED BY <1>5, <2>1
<1>6. IsReadFrom(p, s, responses, k)
  BY <1>3, <1>4, <1>5 DEF IsReadFrom
<1>. QED BY <1>1, <1>6

\* The versions and the application of an init request are read as they were packed.
LEMMA InitIsRead ==
    ASSUME NEW p, p = InitRequestPacket(AppId), NEW responses, NEW k
    PROVE  IsReadFrom(p, Serialize(p, <<>>, k), responses, k)
<1>1. AppId \in Seq(Byte) /\ Len(AppId) = 32 /\ \A i \in 1 .. 32 : AppId[i] = 54
  BY DEF AppId, Byte
<1>2. PICK v : v = <<1, 6, 17, 4, 1, 11, 0>>
  OBVIOUS
<1>3. PICK c : c = InitContent(v, AppId)
  OBVIOUS
<1>4. c = <<1, 6, 17, 65, 11>> \o <<0, 0>> \o AppId
  <2>1. 4 * 16 + (1 % 16) = 65 /\ (0 \div 256) % 256 = 0 /\ 0 % 256 = 0
    OBVIOUS
  <2>. QED BY <1>2, <1>3, <2>1 DEF InitContent, Word
<1>5. PICK h : h = <<1, 6, 17, 65, 11>> \o <<0, 0>>
  OBVIOUS
<1>6. /\ h \in Seq(Byte) /\ Len(h) = 7 /\ h[1] = 1 /\ h[2] = 6 /\ h[3] = 17 /\ h[4] = 65 /\ h[5] = 11
      /\ h[6] = 0 /\ h[7] = 0
  BY <1>5 DEF Byte
<1>7. /\ c \in Seq(Byte) /\ Len(c) = Len(h) + Len(AppId) /\ \A i \in 1 .. Len(h) : c[i] = h[i]
      /\ \A i \in 1 .. Len(AppId) : c[Len(h) + i] = AppId[i]
  <2>1. c = h \o AppId
    BY <1>4, <1>5
  <2>2. Joins(c, h, AppId)
    BY <1>1, <1>6, <2>1, Joined
  <2>. QED BY <2>2 DEF Joins
<1>8. Len(c) = 39 /\ \A i \in 1 .. 7 : c[i] = h[i]
  BY <1>1, <1>6, <1>7
<1>9. SubSeq(c, 8, 39) = AppId
  <2>1. PICK id : id = AppId
    OBVIOUS
  <2>2. id \in Seq(Byte) /\ Len(id) = 32
    BY <1>1, <2>1
  <2>3. \A i \in 1 .. Len(id) : c[7 + i] = id[i]
    <3>1. Len(h) = 7
      BY <1>6
    <3>2. \A i \in 1 .. Len(AppId) : c[Len(h) + i] = AppId[i]
      BY <1>7
    <3>. QED BY <2>1, <3>1, <3>2, SMTT(20)
  <2>4. 7 \in Nat /\ 7 + Len(id) <= Len(c) /\ c \in Seq(Byte)
    <3>1. c \in Seq(Byte) /\ Len(c) = 39 /\ Len(id) = 32
      BY <1>7, <1>8, <2>2, Zenon
    <3>2. 7 \in Nat /\ 7 + 32 <= 39
      OBVIOUS
    <3>. QED BY <3>1, <3>2
  <2>5. SubSeq(c, 7 + 1, 7 + Len(id)) = id
    BY <2>2, <2>3, <2>4, SubSeqInside
  <2>. QED BY <2>1, <2>2, <2>5
<1>10. ASSUME NEW length, NEW key0 PROVE ParseContent(0, c, length, key0) = Parsed(p, length)
  <2>1. 65 \div 16 = 4 /\ 65 % 16 = 1
    OBVIOUS
  <2>2. WordAt(c, 6) = 0
    BY <1>6, <1>8 DEF WordAt, HighByte
  <2>3. /\ c[1] = 1 /\ c[2] = 6 /\ c[3] = 17 /\ c[4] = 65 /\ c[5] = 11 /\ ~(Len(c) < 39)
    BY <1>6, <1>8
  <2>4. ParseInit(c, length) = Parsed(<<"Init", v, AppId>>, length)
    BY <1>2, <1>9, <2>1, <2>2, <2>3 DEF ParseInit
  <2>. QED BY <1>2, <2>4 DEF ParseContent, InitRequestPacket
<1>11. Serialize(p, <<>>, k) = DataPacket(0, c)
  <2>1. p[1] = "Init" /\ p[2] = v /\ p[3] = AppId
    BY <1>2 DEF InitRequestPacket
  <2>2. ~IsOperation(p)
    BY <2>1 DEF IsOperation, Command
  <2>. QED BY <1>3, <2>1, <2>2 DEF Serialize
<1>12. 0 \in Byte /\ Len(c) <= MaxPacketLength - HeaderSize
  BY <1>8 DEF Byte, MaxPacketLength, HeaderSize
<1>13. IsReadFrom(p, DataPacket(0, c), responses, k)
  BY <1>7, <1>10, <1>12, DataIsReadFrom
<1>. QED BY <1>11, <1>13

\* An init response is recognised.
LEMMA InitResponseIsRead ==
    ASSUME NEW p, p = InitResponsePacket, NEW responses, NEW k
    PROVE  IsReadFrom(p, Serialize(p, <<>>, k), responses, k)
<1>1. Serialize(p, <<>>, k) = DataPacket(1, <<0>>)
  <2>1. p[1] = "InitResponse"
    BY DEF InitResponsePacket
  <2>2. ~IsOperation(p)
    BY <2>1 DEF IsOperation, Command
  <2>. QED BY <2>1, <2>2 DEF Serialize
<1>2. 1 \in Byte /\ <<0>> \in Seq(Byte) /\ Len(<<0>>) <= MaxPacketLength - HeaderSize
  BY DEF Byte, MaxPacketLength, HeaderSize
<1>3. ASSUME NEW length, NEW key0 PROVE ParseContent(1, <<0>>, length, key0) = Parsed(p, length)
  BY DEF ParseContent, ParseInitResponse
<1>4. IsReadFrom(p, DataPacket(1, <<0>>), responses, k)
  BY <1>2, <1>3, DataIsReadFrom
<1>. QED BY <1>1, <1>4

\* What keep-alives are read from is settled by the length of what is there.
Settled(p, s, responses, bytes, key0) ==
    /\ ~(Len(bytes) >= Len(s)) => ParseOne(bytes, responses, key0) = Wait
    /\ Len(bytes) >= Len(s) => ParseOne(bytes, responses, key0) = Parsed(p, Len(s))

\* Keep-alives have no length in them: the side that they come from tells their size.
LEMMA KeepAliveIsReadFrom ==
    ASSUME NEW p, NEW s \in Seq(Byte), Len(s) > 0, NEW responses, NEW k,
           \A bytes \in Seq(Byte) : \A key0 : Agrees(bytes, s) => Settled(p, s, responses, bytes, key0)
    PROVE  IsReadFrom(p, s, responses, k)
<1>1. \A bytes \in Seq(Byte) : Len(bytes) < Len(s) => ~(Len(bytes) >= Len(s))
  OBVIOUS
<1>2. s # <<>>
  OBVIOUS
<1>. QED BY <1>1, <1>2, Zenon DEF IsReadFrom, Settled

\* Five bytes, and the time is read.
LEMMA KeepAliveRequestIsRead ==
    ASSUME NEW p, NEW n, Sized(n), p = KeepAliveRequest(n), NEW k, NEW responses, ~responses
    PROVE  IsReadFrom(p, Serialize(p, <<>>, k), responses, k)
<1>1. PICK one : one = <<240>>
  OBVIOUS
<1>2. PICK s : s = one \o Long(n)
  OBVIOUS
<1>3. Serialize(p, <<>>, k) = s
  <2>1. p[1] = "KeepAliveRequest" /\ p[2] = n
    BY DEF KeepAliveRequest
  <2>2. ~IsOperation(p)
    BY <2>1 DEF IsOperation, Command
  <2>. QED BY <1>1, <1>2, <2>1, <2>2 DEF Serialize, KeepAliveFormat
<1>4. one \in Seq(Byte) /\ Len(one) = 1 /\ one[1] = 240 /\ Long(n) \in Seq(Byte) /\ Len(Long(n)) = 4
  BY <1>1, LongBytes DEF Byte
<1>5. Joins(s, one, Long(n))
  BY <1>2, <1>4, Joined
<1>6. s \in Seq(Byte) /\ Len(s) = 5 /\ s[1] = 240 /\ \A i \in 1 .. 4 : s[1 + i] = Long(n)[i]
  BY <1>4, <1>5 DEF Joins
<1>7. ASSUME NEW bytes \in Seq(Byte), Agrees(bytes, s), NEW key0
      PROVE  /\ ~(Len(bytes) >= 5) => ParseOne(bytes, responses, key0) = Wait
             /\ Len(bytes) >= 5 => ParseOne(bytes, responses, key0) = Parsed(p, 5)
  <2>1. Len(bytes) \in Nat /\ \A i \in 1 .. 5 : i <= Len(bytes) => bytes[i] = s[i]
    BY <1>6, <1>7 DEF Agrees
  <2>2. CASE bytes = <<>>
    BY <2>2 DEF ParseOne
  <2>3. CASE bytes # <<>>
    <3>1. Len(bytes) > 0 /\ bytes[1] = KeepAliveFormat
      BY <1>6, <2>1, <2>3 DEF KeepAliveFormat
    <3>2. ParseOne(bytes, responses, key0) = ParseKeepAlive(bytes, responses)
      BY <2>3, <3>1 DEF ParseOne, KeepAliveFormat, DataFormat
    <3>3. ASSUME Len(bytes) >= 5 PROVE LongAt(bytes, 2) = n
      <4>1. \A i \in 1 .. 4 : bytes[2 + i - 1] = Long(n)[i]
        BY <1>6, <2>1, <3>3
      <4>. QED BY <4>1, LongIsRead
    <3>. QED BY <3>2, <3>3 DEF ParseKeepAlive, Has
  <2>. QED BY <2>2, <2>3
<1>8. \A bytes \in Seq(Byte) : \A key0 : Agrees(bytes, s) => Settled(p, s, responses, bytes, key0)
  BY <1>6, <1>7 DEF Settled
<1>9. IsReadFrom(p, s, responses, k)
  <2>1. Len(s) > 0
    BY <1>6
  <2>. QED BY <1>6, <1>8, <2>1, KeepAliveIsReadFrom
<1>. QED BY <1>3, <1>9

\* Nine bytes, and both times are read.
LEMMA KeepAliveResponseIsRead ==
    ASSUME NEW p, NEW m, NEW n, Sized(m), Sized(n), p = KeepAliveResponse(m, n), NEW k,
           NEW responses, responses
    PROVE  IsReadFrom(p, Serialize(p, <<>>, k), responses, k)
<1>1. PICK one : one = <<240>>
  OBVIOUS
<1>2. PICK g : g = one \o Long(m)
  OBVIOUS
<1>3. PICK s : s = g \o Long(n)
  OBVIOUS
<1>4. Serialize(p, <<>>, k) = s
  <2>1. p[1] = "KeepAliveResponse" /\ p[2] = m /\ p[3] = n
    BY DEF KeepAliveResponse
  <2>2. ~IsOperation(p)
    BY <2>1 DEF IsOperation, Command
  <2>. QED BY <1>1, <1>2, <1>3, <2>1, <2>2 DEF Serialize, KeepAliveFormat
<1>5. /\ one \in Seq(Byte) /\ Len(one) = 1 /\ one[1] = 240
      /\ Long(m) \in Seq(Byte) /\ Len(Long(m)) = 4 /\ Long(n) \in Seq(Byte) /\ Len(Long(n)) = 4
  BY <1>1, LongBytes DEF Byte
<1>6. Joins(g, one, Long(m))
  BY <1>2, <1>5, Joined
<1>7. g \in Seq(Byte) /\ Len(g) = 5 /\ g[1] = 240 /\ \A i \in 1 .. 4 : g[1 + i] = Long(m)[i]
  BY <1>5, <1>6 DEF Joins
<1>8. Joins(s, g, Long(n))
  BY <1>3, <1>5, <1>7, Joined
<1>9. /\ s \in Seq(Byte) /\ Len(s) = 9 /\ s[1] = 240 /\ \A i \in 1 .. 4 : s[1 + i] = Long(m)[i]
      /\ \A i \in 1 .. 4 : s[5 + i] = Long(n)[i]
  BY <1>5, <1>7, <1>8 DEF Joins
<1>10. ASSUME NEW bytes \in Seq(Byte), Agrees(bytes, s), NEW key0
       PROVE  /\ ~(Len(bytes) >= 9) => ParseOne(bytes, responses, key0) = Wait
              /\ Len(bytes) >= 9 => ParseOne(bytes, responses, key0) = Parsed(p, 9)
  <2>1. Len(bytes) \in Nat /\ \A i \in 1 .. 9 : i <= Len(bytes) => bytes[i] = s[i]
    BY <1>9, <1>10 DEF Agrees
  <2>2. CASE bytes = <<>>
    BY <2>2 DEF ParseOne
  <2>3. CASE bytes # <<>>
    <3>1. Len(bytes) > 0 /\ bytes[1] = KeepAliveFormat
      BY <1>9, <2>1, <2>3 DEF KeepAliveFormat
    <3>2. ParseOne(bytes, responses, key0) = ParseKeepAlive(bytes, responses)
      BY <2>3, <3>1 DEF ParseOne, KeepAliveFormat, DataFormat
    <3>3. ASSUME Len(bytes) >= 9 PROVE LongAt(bytes, 2) = m /\ LongAt(bytes, 6) = n
      <4>1. /\ \A i \in 1 .. 4 : bytes[2 + i - 1] = Long(m)[i]
            /\ \A i \in 1 .. 4 : bytes[6 + i - 1] = Long(n)[i]
        BY <1>9, <2>1, <3>3
      <4>. QED BY <4>1, LongIsRead
    <3>. QED BY <3>2, <3>3 DEF ParseKeepAlive, Has
  <2>. QED BY <2>2, <2>3
<1>11. \A bytes \in Seq(Byte) : \A key0 : Agrees(bytes, s) => Settled(p, s, responses, bytes, key0)
  BY <1>9, <1>10 DEF Settled
<1>12. IsReadFrom(p, s, responses, k)
  <2>1. Len(s) > 0
    BY <1>9
  <2>. QED BY <1>9, <1>11, <2>1, KeepAliveIsReadFrom
<1>. QED BY <1>4, <1>12

\* Each command has a number of its own, other than those of the handshake.
LEMMA Commands ==
    ASSUME NEW c \in DOMAIN Command
    PROVE  /\ Command[c] \in Byte \ {0, 1} /\ \A d \in DOMAIN Command : Command[d] = Command[c] => d = c
BY DEF Command, Byte

\* A payload that is read to its end is what it was written from.
LEMMA PayloadIsUnderstood ==
    ASSUME NEW p, Readable(p), NEW length
    PROVE  LET bytes == PayloadBytes(p)
           IN  Understood(p[1], bytes, ReadPayload(p[1], bytes), length) = Parsed(p, length)
<1>1. PICK bytes : bytes = PayloadBytes(p)
  OBVIOUS
<1>2. PICK read : read = ReadPayload(p[1], bytes)
  OBVIOUS
<1>3. read.next \in Nat /\ read.next <= Len(bytes) + 1 /\ Len(bytes) \in Nat
  <2>1. read.next \in Nat /\ read.next <= Len(bytes) + 1 /\ bytes \in Seq(Byte)
    BY <1>1, <1>2 DEF Readable, ReadsBack
  <2>. QED BY <2>1
<1>4. ~(read.next > Len(bytes) + 1)
  BY <1>3
<1>5. CASE p[1] \in KeyExchange
  <2>1. PICK public : p = KeyExchangePacket(p[1], public) /\ public = p[4][1][2][2]
    BY <1>5 DEF Readable
  <2>2. p[4] = << <<ClientKey, <<"Int8Slice", public>>>> >>
    BY <2>1 DEF KeyExchangePacket, Operation
  <2>3. read.value[4] = p[4]
    BY <1>1, <1>2, <1>5 DEF Readable, ReadsBack
  <2>4. PICK params : params = read.value[4]
    OBVIOUS
  <2>5. DOMAIN params = {1} /\ params[1][1] = ClientKey /\ params[1][2][2] = public
    BY <2>2, <2>3, <2>4
  <2>6. {i \in DOMAIN params : params[i][1] = ClientKey} = {1}
    BY <2>5
  <2>7. (CHOOSE i \in {1} : TRUE) = 1
    OBVIOUS
  <2>8. Understood(p[1], bytes, read, length)
            = Parsed(KeyExchangePacket(p[1], params[CHOOSE i \in {1} : TRUE][2][2]), length)
    BY <1>3, <1>4, <1>5, <2>4, <2>6 DEF Understood
  <2>. QED BY <1>1, <1>2, <2>1, <2>5, <2>7, <2>8
<1>6. CASE p[1] \notin KeyExchange
  <2>1. read.value = p
    BY <1>1, <1>2, <1>6 DEF Readable, ReadsBack
  <2>2. Understood(p[1], bytes, read, length) = Parsed(read.value, length)
    BY <1>3, <1>4, <1>6 DEF Understood
  <2>. QED BY <1>1, <1>2, <2>1, <2>2
<1>. QED BY <1>5, <1>6

\* What an operation goes over the wire as.
ContentOf(p, k) == IF IsEncrypted(p) THEN Encrypt(PayloadBytes(p), k) ELSE PayloadBytes(p)

\* What is put on the wire for an operation.
LEMMA SerializedOperation ==
    ASSUME NEW p, IsOperation(p), NEW k
    PROVE  Serialize(p, <<>>, k) = DataPacket(Command[p[1]], ContentOf(p, k))
<1>1. p[1] \notin {"KeepAliveRequest", "KeepAliveResponse", "Init", "InitResponse"}
  BY DEF IsOperation, Command
<1>. QED BY <1>1 DEF Serialize, ContentOf

\* An operation is read from its bytes, encrypted or not, with the key if it is.
LEMMA OperationIsRead ==
    ASSUME NEW p, Readable(p), NEW responses, NEW k \in 1 .. 255
    PROVE  IsReadFrom(p, Serialize(p, <<>>, k), responses, k)
<1>1. PICK payload : payload = PayloadBytes(p)
  OBVIOUS
<1>2. payload \in Seq(Byte) /\ Len(payload) <= MaxPacketLength - HeaderSize - 16
  BY <1>1 DEF Readable, ReadsBack
<1>3. PICK content : content = ContentOf(p, k)
  OBVIOUS
<1>4. IF IsEncrypted(p) THEN content = Encrypt(payload, k) ELSE content = payload
  BY <1>1, <1>3 DEF ContentOf
<1>5. content \in Seq(Byte) /\ Len(content) <= MaxPacketLength - HeaderSize
  <2>1. MaxPacketLength - HeaderSize \in Int /\ Len(payload) \in Nat
    BY <1>2 DEF MaxPacketLength, HeaderSize
  <2>2. CASE IsEncrypted(p)
    <3>1. content \in Seq(Byte) /\ Len(content) <= Len(payload) + 16
      BY <1>2, <1>4, <2>2, EncryptBytes
    <3>2. Len(content) \in Nat
      BY <3>1
    <3>. QED BY <1>2, <2>1, <3>1, <3>2
  <2>3. CASE ~IsEncrypted(p)
    BY <1>2, <1>4, <2>1, <2>3
  <2>. QED BY <2>2, <2>3
<1>6. PICK command : command = Command[p[1]]
  OBVIOUS
<1>7. p[1] \in DOMAIN Command
  BY DEF Readable, IsOperation
<1>8. /\ command \in Byte /\ command # 0 /\ command # 1
      /\ {c \in DOMAIN Command : Command[c] = command} = {p[1]}
  <2>1. /\ command \in Byte \ {0, 1}
        /\ \A d \in DOMAIN Command : Command[d] = command => d = p[1]
    BY <1>6, <1>7, Commands
  <2>. QED BY <1>6, <1>7, <2>1
<1>9. ASSUME NEW length, NEW key0, IsEncrypted(p) => key0 = k
      PROVE  ParseContent(command, content, length, key0) = Parsed(p, length)
  <2>1. (CHOOSE c \in {p[1]} : TRUE) = p[1] /\ {p[1]} # {}
    OBVIOUS
  <2>2. ParseContent(command, content, length, key0) = ParseOperation(p[1], content, length, key0)
    BY <1>8, <2>1 DEF ParseContent
  <2>3. Understood(p[1], payload, ReadPayload(p[1], payload), length) = Parsed(p, length)
    BY <1>1, PayloadIsUnderstood
  <2>4. CASE IsEncrypted(p)
    <3>1. p[1] \in Encrypted /\ key0 = k /\ key0 # 0
      BY <1>9, <2>4 DEF IsEncrypted
    <3>2. PICK plain : plain = Shift(content, 256 - key0)
      OBVIOUS
    <3>3. plain = Fill(payload)
      <4>1. payload \in Seq(Byte)
        BY <1>2
      <4>2. content = Encrypt(payload, k)
        BY <1>4, <2>4
      <4>. QED BY <3>1, <3>2, <4>1, <4>2, EncryptBytes, Zenon
    <3>4. Padded(plain) /\ Unpad(plain) = payload
      BY <1>2, <3>3, FillIsPadded
    <3>5. ParseOperation(p[1], content, length, key0)
            = Understood(p[1], payload, ReadPayload(p[1], payload), length)
      BY <3>1, <3>2, <3>4 DEF ParseOperation
    <3>. QED BY <2>2, <2>3, <3>5
  <2>5. CASE ~IsEncrypted(p)
    <3>1. p[1] \notin Encrypted /\ content = payload
      BY <1>4, <2>5 DEF IsEncrypted
    <3>2. ParseOperation(p[1], content, length, key0)
            = Understood(p[1], payload, ReadPayload(p[1], payload), length)
      BY <3>1 DEF ParseOperation
    <3>. QED BY <2>2, <2>3, <3>2
  <2>. QED BY <2>4, <2>5
<1>10. IsReadFrom(p, DataPacket(command, content), responses, k)
  BY <1>5, <1>8, <1>9, DataIsReadFrom
<1>11. Serialize(p, <<>>, k) = DataPacket(command, content)
  BY <1>3, <1>6, SerializedOperation DEF Readable
<1>. QED BY <1>10, <1>11

\* A parser that holds the bytes of a packet makes of them that packet, and it waits for it
\* while it holds a part of them: at every cut, and whatever comes behind.
THEOREM SentIsRead ==
    ASSUME NEW responses, NEW p, Sendable(p, responses), NEW k \in 1 .. 255
    PROVE  IsReadFrom(p, Serialize(p, <<>>, k), responses, k)
<1>1. CASE p = InitRequestPacket(AppId)
  BY <1>1, InitIsRead
<1>2. CASE p = InitResponsePacket
  BY <1>2, InitResponseIsRead
<1>3. ASSUME ~responses, NEW n, Sized(n), p = KeepAliveRequest(n)
      PROVE  IsReadFrom(p, Serialize(p, <<>>, k), responses, k)
  BY <1>3, KeepAliveRequestIsRead
<1>4. ASSUME responses, NEW m, NEW n, Sized(m), Sized(n), p = KeepAliveResponse(m, n)
      PROVE  IsReadFrom(p, Serialize(p, <<>>, k), responses, k)
  BY <1>4, KeepAliveResponseIsRead
<1>5. CASE Readable(p)
  BY <1>5, OperationIsRead
<1>. QED BY <1>1, <1>2, <1>3, <1>4, <1>5 DEF Sendable

-----------------------------------------------------------------------------
(* The invariant of a hop.                                                 *)

Routed ==
    {session.items[i] : i \in DOMAIN session.items}
    \cup {Hijacked(session.items[i], session.server) : i \in DOMAIN session.items}
KeepAlives ==
    IF Requests THEN {KeepAliveRequest(t[2]) : t \in Times}
    ELSE {KeepAliveResponse(t[1], t[2]) : t \in Times}
Openings == {Opening(h)[n] : h \in Hops, n \in 1 .. OpeningSize}
Packets == Routed \cup KeepAlives \cup Openings
Entries(packets) == [packet : packets, from : Nat, to : Nat, progress : Nat]

TypeOK ==
    /\ session \in Sessions /\ progress \in [Hops -> Nat] /\ pings \in Nat
    /\ wire \in [Hops -> Seq(Byte)] /\ buffer \in [Hops -> Seq(Byte)]
    /\ parsing \in [Hops -> BOOLEAN] /\ broken \in [Hops -> BOOLEAN]
    /\ key \in [Hops -> 0 .. 255] /\ parseKey \in [Hops -> 0 .. 255]
    /\ incoming \in [Hops -> Seq(Routed)] /\ got \in [Hops -> Seq(Packets)]
    /\ line \in [Hops -> Seq(Entries(Packets))]

\* Where a line ends, and where its first g packets end.
End(l) == IF l = <<>> THEN 0 ELSE l[Len(l)].to
Mark(l, g) == IF g = 0 THEN 0 ELSE l[g].to
BytesOf(entry, k) == Serialize(entry.packet, <<>>, k)

\* The packets of a line lie one behind the other.
InLine(l, k) ==
    /\ \A i \in 1 .. Len(l) :
        /\ l[i].to = l[i].from + Len(BytesOf(l[i], k))
        /\ l[i].from = Mark(l, i - 1)
    /\ \A i, j \in 1 .. Len(l) : i < j => l[i].to <= l[j].from

\* A stream of bytes is those of the packets behind the first g.
Carries(u, l, g, k) ==
    /\ u \in Seq(Byte) /\ Len(u) = End(l) - Mark(l, g)
    /\ \A i \in g + 1 .. Len(l) : \A j \in 1 .. Len(BytesOf(l[i], k)) :
            u[l[i].from - Mark(l, g) + j] = BytesOf(l[i], k)[j]

Unread(h) == Len(got[h]) + 1 .. Len(line[h])

InStream(h) ==
    /\ InLine(line[h], SenderKey(h))
    /\ Carries(buffer[h] \o wire[h], line[h], Len(got[h]), SenderKey(h))

InOrder(h) ==
    /\ ~broken[h] /\ Len(got[h]) <= Len(line[h])
    /\ \A i \in 1 .. Len(got[h]) : got[h][i] = line[h][i].packet
    /\ ~parsing[h] /\ Len(got[h]) < Len(line[h]) =>
            Len(buffer[h]) < Len(BytesOf(line[h][Len(got[h]) + 1], SenderKey(h)))

\* No packet is encrypted before the receiver has the key; and when one begins in the buffer,
\* parse was called with it.
InKey(h) ==
    /\ key[h] \in {0, SenderKey(h)}
    /\ \A i \in Unread(h) : IsEncrypted(line[h][i].packet) =>
        /\ key[h] = SenderKey(h)
        /\ parsing[h] /\ line[h][i].from - Mark(line[h], Len(got[h])) < Len(buffer[h]) =>
                parseKey[h] = SenderKey(h)

IsKeepAlive(packet) == packet[1] \in {"KeepAliveRequest", "KeepAliveResponse"}

\* How much had been sent with the first g packets.
Progress(l, g) == IF g = 0 THEN 0 ELSE l[g].progress

\* Each packet is what there was to send next, or a keep-alive.
NextTurn(h, packet, before, n) ==
    IF IsKeepAlive(packet) THEN packet \in KeepAlives /\ n = before
    ELSE /\ n = before + 1
         /\ IF n <= OpeningSize THEN packet = Opening(h)[n]
            ELSE /\ n - OpeningSize \in 1 .. Len(Items(h))
                 /\ packet = Made(h, Items(h)[n - OpeningSize])
InTurn(h) ==
    /\ progress[h] = Progress(line[h], Len(line[h]))
    /\ \A i \in 1 .. Len(line[h]) :
            NextTurn(h, line[h][i].packet, Progress(line[h], i - 1), line[h][i].progress)

\* What was received of it is what was made of as many operations.
Relayed(h) ==
    LET n == Progress(line[h], Len(got[h]))
    IN  /\ Len(incoming[h]) = IF n <= OpeningSize THEN 0 ELSE n - OpeningSize
        /\ Len(incoming[h]) <= Len(Items(h))
        /\ \A i \in 1 .. Len(incoming[h]) : incoming[h][i] = Made(h, Items(h)[i])

HopInv(h) == InStream(h) /\ InOrder(h) /\ InKey(h) /\ InTurn(h) /\ Relayed(h)
IInv == TypeOK /\ \A h \in Hops : HopInv(h)

-----------------------------------------------------------------------------
(* Lines and the streams that carry them.                                  *)

\* Entries have bytes.
Serial(l, k) ==
    \A i \in 1 .. Len(l) : BytesOf(l[i], k) \in Seq(Byte) /\ Len(BytesOf(l[i], k)) \in Nat \ {0}

\* A place between marks.
LEMMA Within ==
    ASSUME NEW mark \in Nat, NEW from \in Nat, NEW size \in Nat, NEW end \in Nat, NEW j \in 1 .. size,
           mark <= from, from + size <= end
    PROVE  from - mark + j \in 1 .. end - mark
OBVIOUS

\* What lies where in a line.
LEMMA LineBounds ==
    ASSUME NEW packets, NEW l \in Seq(Entries(packets)), NEW k, InLine(l, k), Serial(l, k)
    PROVE  /\ Len(l) \in Nat /\ End(l) \in Nat
           /\ \A i \in 1 .. Len(l) : l[i].from \in Nat /\ l[i].to \in Nat /\ l[i].to <= End(l)
           /\ \A g \in 0 .. Len(l) : Mark(l, g) \in Nat /\ Mark(l, g) <= End(l)
           /\ \A g \in 0 .. Len(l) : \A i \in g + 1 .. Len(l) : Mark(l, g) <= l[i].from
<1>1. Len(l) \in Nat /\ \A i \in 1 .. Len(l) : l[i].from \in Nat /\ l[i].to \in Nat
  <2>1. Len(l) \in Nat /\ \A i \in 1 .. Len(l) : l[i] \in Entries(packets)
    OBVIOUS
  <2>2. \A e \in Entries(packets) : e.from \in Nat /\ e.to \in Nat
    BY DEF Entries
  <2>. QED BY <2>1, <2>2
<1>2. \A i, j \in 1 .. Len(l) : i < j => l[i].to <= l[j].from
  BY DEF InLine
<1>3. \A i \in 1 .. Len(l) : l[i].from <= l[i].to
  BY <1>1 DEF InLine, Serial
<1>4. End(l) \in Nat /\ \A i \in 1 .. Len(l) : l[i].to <= End(l)
  <2>1. CASE l = <<>>
    BY <2>1 DEF End
  <2>2. CASE l # <<>>
    <3>1. End(l) = l[Len(l)].to /\ Len(l) \in 1 .. Len(l)
      BY <1>1, <2>2 DEF End
    <3>2. ASSUME NEW i \in 1 .. Len(l) PROVE l[i].to <= l[Len(l)].to
      <4>1. CASE i = Len(l)
        BY <1>1, <4>1
      <4>2. CASE i < Len(l)
        <5>1. l[i].to <= l[Len(l)].from /\ l[Len(l)].from <= l[Len(l)].to
          BY <1>2, <1>3, <3>1, <4>2
        <5>. QED BY <1>1, <3>1, <5>1
      <4>. QED BY <1>1, <4>1, <4>2
    <3>. QED BY <1>1, <3>1, <3>2
  <2>. QED BY <2>1, <2>2
<1>5. \A g \in 0 .. Len(l) : Mark(l, g) \in Nat /\ Mark(l, g) <= End(l)
  BY <1>1, <1>4 DEF Mark
<1>6. ASSUME NEW g \in 0 .. Len(l), NEW i \in g + 1 .. Len(l) PROVE Mark(l, g) <= l[i].from
  <2>1. i \in 1 .. Len(l) /\ g < i
    BY <1>1
  <2>2. CASE g = 0
    BY <1>1, <2>1, <2>2 DEF Mark
  <2>3. CASE g # 0
    <3>1. g \in 1 .. Len(l) /\ Mark(l, g) = l[g].to
      BY <1>1, <2>3 DEF Mark
    <3>. QED BY <1>2, <2>1, <3>1
  <2>. QED BY <2>2, <2>3
<1>. QED BY <1>1, <1>4, <1>5, <1>6

\* The sender appends a packet.
Appended(m, l, e, k, packets) ==
    /\ m \in Seq(Entries(packets)) /\ Len(m) = Len(l) + 1 /\ m[Len(m)] = e
    /\ \A i \in 1 .. Len(l) : m[i] = l[i]
    /\ InLine(m, k) /\ Serial(m, k)
    /\ \A g \in 0 .. Len(l) : Mark(m, g) = Mark(l, g)
    /\ \A g \in 0 .. Len(l) : \A u : Carries(u, l, g, k) => Carries(u \o BytesOf(e, k), m, g, k)

\* A packet that is sent lies behind all others, and its bytes behind theirs.
LEMMA PacketIsAppended ==
    ASSUME NEW packets, NEW l \in Seq(Entries(packets)), NEW k, InLine(l, k), Serial(l, k),
           NEW e \in Entries(packets), BytesOf(e, k) \in Seq(Byte), Len(BytesOf(e, k)) > 0,
           e.from = End(l), e.to = End(l) + Len(BytesOf(e, k))
    PROVE  Appended(Append(l, e), l, e, k, packets)
<1>s. PICK s : s = BytesOf(e, k)
  OBVIOUS
<1>m. PICK m : m = Append(l, e)
  OBVIOUS
<1>1. /\ m \in Seq(Entries(packets)) /\ Len(m) = Len(l) + 1 /\ Len(l) \in Nat /\ m[Len(l) + 1] = e
      /\ \A i \in 1 .. Len(l) : m[i] = l[i]
  BY <1>m, AppendProperties
<1>2. /\ Len(l) \in Nat /\ End(l) \in Nat
      /\ \A i \in 1 .. Len(l) : l[i].from \in Nat /\ l[i].to \in Nat /\ l[i].to <= End(l)
      /\ \A g \in 0 .. Len(l) : Mark(l, g) \in Nat /\ Mark(l, g) <= End(l)
      /\ \A g \in 0 .. Len(l) : \A i \in g + 1 .. Len(l) : Mark(l, g) <= l[i].from
  BY LineBounds
<1>3. \A g \in 0 .. Len(l) : Mark(m, g) = Mark(l, g)
  BY <1>1 DEF Mark
<1>4. s \in Seq(Byte) /\ Len(s) \in Nat \ {0} /\ e.to = End(l) + Len(s)
  BY <1>s
<1>5. Serial(m, k)
  <2>1. ASSUME NEW i \in 1 .. Len(m)
        PROVE  BytesOf(m[i], k) \in Seq(Byte) /\ Len(BytesOf(m[i], k)) \in Nat \ {0}
    <3>1. CASE i \in 1 .. Len(l)
      BY <1>1, <3>1 DEF Serial
    <3>2. CASE i = Len(l) + 1
      BY <1>s, <1>1, <1>4, <3>2
    <3>. QED BY <1>1, <3>1, <3>2
  <2>. QED BY <2>1 DEF Serial
<1>6. Mark(l, Len(l)) = End(l)
  <2>1. CASE l = <<>>
    BY <2>1 DEF Mark, End
  <2>2. CASE l # <<>>
    <3>1. Len(l) # 0
      BY <2>2
    <3>. QED BY <2>2, <3>1 DEF Mark, End
  <2>. QED BY <2>1, <2>2
<1>7. ASSUME NEW i \in 1 .. Len(m)
      PROVE  m[i].to = m[i].from + Len(BytesOf(m[i], k)) /\ m[i].from = Mark(m, i - 1)
  <2>1. CASE i \in 1 .. Len(l)
    <3>1. i - 1 \in 0 .. Len(l)
      BY <1>2, <2>1
    <3>2. l[i].to = l[i].from + Len(BytesOf(l[i], k)) /\ l[i].from = Mark(l, i - 1)
      BY <2>1 DEF InLine
    <3>. QED BY <1>1, <1>3, <2>1, <3>1, <3>2
  <2>2. CASE i = Len(l) + 1
    <3>1. i - 1 = Len(l) /\ Len(l) \in 0 .. Len(l)
      BY <1>2, <2>2
    <3>. QED BY <1>s, <1>1, <1>3, <1>4, <1>6, <2>2, <3>1
  <2>. QED BY <1>1, <2>1, <2>2
<1>8. ASSUME NEW i \in 1 .. Len(m), NEW j \in 1 .. Len(m), i < j PROVE m[i].to <= m[j].from
  <2>1. i \in 1 .. Len(l)
    BY <1>1, <1>8
  <2>2. CASE j \in 1 .. Len(l)
    BY <1>1, <1>8, <2>1, <2>2 DEF InLine
  <2>3. CASE j = Len(l) + 1
    BY <1>1, <1>2, <2>1, <2>3
  <2>. QED BY <1>1, <2>2, <2>3
<1>9. InLine(m, k)
  BY <1>7, <1>8 DEF InLine
<1>10. End(m) = End(l) + Len(s)
  <2>1. m # <<>>
    BY <1>1
  <2>. QED BY <1>1, <1>4, <2>1 DEF End
<1>11. ASSUME NEW g \in 0 .. Len(l), NEW u, Carries(u, l, g, k) PROVE Carries(u \o s, m, g, k)
  <2>1. PICK v : v = u \o s
    OBVIOUS
  <2>2. u \in Seq(Byte) /\ Len(u) = End(l) - Mark(l, g)
    BY <1>11 DEF Carries
  <2>3. Joins(v, u, s)
    BY <1>4, <2>1, <2>2, Joined
  <2>4. /\ v \in Seq(Byte) /\ Len(v) = Len(u) + Len(s) /\ Len(u) \in Nat
        /\ \A i \in 1 .. Len(u) : v[i] = u[i]
        /\ \A i \in 1 .. Len(s) : v[Len(u) + i] = s[i]
    BY <2>3 DEF Joins
  <2>5. Mark(m, g) = Mark(l, g) /\ Mark(l, g) \in Nat /\ Mark(l, g) <= End(l)
    BY <1>2, <1>3
  <2>6. Len(v) = End(m) - Mark(m, g)
    BY <1>2, <1>4, <1>10, <2>2, <2>4, <2>5
  <2>7. ASSUME NEW i \in g + 1 .. Len(m), NEW j \in 1 .. Len(BytesOf(m[i], k))
        PROVE  v[m[i].from - Mark(m, g) + j] = BytesOf(m[i], k)[j]
    <3>1. CASE i \in 1 .. Len(l)
      <4>1. PICK b : b = BytesOf(l[i], k)
        OBVIOUS
      <4>2. m[i] = l[i] /\ i \in g + 1 .. Len(l) /\ j \in 1 .. Len(b) /\ Len(b) \in Nat
        BY <1>1, <2>7, <3>1, <4>1 DEF Serial
      <4>3. u[l[i].from - Mark(l, g) + j] = b[j]
        BY <1>11, <4>1, <4>2 DEF Carries
      <4>4. l[i].to = l[i].from + Len(b) /\ l[i].to <= End(l) /\ l[i].from \in Nat
        BY <1>2, <3>1, <4>1 DEF InLine
      <4>5. Mark(l, g) <= l[i].from
        BY <1>2, <4>2
      <4>6. l[i].from - Mark(l, g) + j \in 1 .. Len(u)
        <5>1. l[i].from + Len(b) <= End(l)
          BY <4>4
        <5>2. l[i].from - Mark(l, g) + j \in 1 .. End(l) - Mark(l, g)
          BY <1>2, <2>5, <4>2, <4>4, <4>5, <5>1, Within
        <5>. QED BY <2>2, <5>2
      <4>. QED BY <2>4, <2>5, <4>1, <4>2, <4>3, <4>6
    <3>2. CASE i = Len(l) + 1
      <4>1. m[i] = e /\ BytesOf(m[i], k) = s /\ j \in 1 .. Len(s)
        BY <1>s, <1>1, <3>2
      <4>2. m[i].from - Mark(m, g) = Len(u)
        BY <2>2, <2>5, <4>1
      <4>. QED BY <2>4, <4>1, <4>2
    <3>3. i \in 1 .. Len(l) \/ i = Len(l) + 1
      BY <1>1
    <3>. QED BY <3>1, <3>2, <3>3
  <2>8. Carries(v, m, g, k)
    BY <2>4, <2>6, <2>7 DEF Carries
  <2>. QED BY <2>1, <2>8
<1>12. m[Len(m)] = e
  BY <1>1
<1>. QED BY <1>s, <1>m, <1>1, <1>3, <1>5, <1>9, <1>11, <1>12 DEF Appended

\* The parser takes the next packet.
LEMMA PacketIsTaken ==
    ASSUME NEW packets, NEW l \in Seq(Entries(packets)), NEW k, InLine(l, k), Serial(l, k),
           NEW g \in Nat, g < Len(l), NEW u, Carries(u, l, g, k), NEW s, s = BytesOf(l[g + 1], k)
    PROVE  /\ s \in Seq(Byte) /\ Len(s) \in Nat \ {0} /\ Len(s) <= Len(u) /\ Agrees(u, s)
           /\ l[g + 1].from = Mark(l, g) /\ Mark(l, g + 1) = Mark(l, g) + Len(s)
           /\ Carries(SubSeq(u, Len(s) + 1, Len(u)), l, g + 1, k)
<1>1. /\ Len(l) \in Nat /\ End(l) \in Nat
      /\ \A i \in 1 .. Len(l) : l[i].from \in Nat /\ l[i].to \in Nat /\ l[i].to <= End(l)
      /\ \A j \in 0 .. Len(l) : Mark(l, j) \in Nat /\ Mark(l, j) <= End(l)
      /\ \A j \in 0 .. Len(l) : \A i \in j + 1 .. Len(l) : Mark(l, j) <= l[i].from
  BY LineBounds
<1>2. g + 1 \in 1 .. Len(l) /\ g \in 0 .. Len(l) /\ g + 1 \in 0 .. Len(l) /\ (g + 1) - 1 = g
  BY <1>1
<1>3. s \in Seq(Byte) /\ Len(s) \in Nat \ {0}
  BY <1>2 DEF Serial
<1>4. l[g + 1].from = Mark(l, g) /\ l[g + 1].to = l[g + 1].from + Len(s)
  BY <1>2 DEF InLine
<1>5. Mark(l, g + 1) = l[g + 1].to
  BY <1>2 DEF Mark
<1>6. Mark(l, g) \in Nat /\ l[g + 1].to <= End(l)
  BY <1>1, <1>2
<1>7. u \in Seq(Byte) /\ Len(u) = End(l) - Mark(l, g)
  BY DEF Carries
<1>8. Len(s) <= Len(u)
  BY <1>1, <1>3, <1>4, <1>6, <1>7
<1>9. \A j \in 1 .. Len(s) : u[l[g + 1].from - Mark(l, g) + j] = s[j]
  BY <1>1, <1>2 DEF Carries
<1>10. Agrees(u, s)
  <2>1. \A j \in 1 .. Len(s) : l[g + 1].from - Mark(l, g) + j = j
    BY <1>3, <1>4, <1>6
  <2>. QED BY <1>9, <2>1 DEF Agrees
<1>11. PICK v : v = SubSeq(u, Len(s) + 1, Len(u))
  OBVIOUS
<1>12. /\ v \in Seq(Byte) /\ Len(v) = Len(u) - Len(s)
       /\ \A i \in 1 .. Len(u) - Len(s) : v[i] = u[Len(s) + i]
  <2>1. Len(s) \in 0 .. Len(u)
    BY <1>3, <1>7, <1>8
  <2>. QED BY <1>7, <1>11, <2>1, Cut
<1>13. Len(v) = End(l) - Mark(l, g + 1)
  BY <1>1, <1>3, <1>4, <1>5, <1>6, <1>7, <1>12
<1>14. ASSUME NEW i \in (g + 1) + 1 .. Len(l), NEW j \in 1 .. Len(BytesOf(l[i], k))
       PROVE  v[l[i].from - Mark(l, g + 1) + j] = BytesOf(l[i], k)[j]
  <2>1. PICK b : b = BytesOf(l[i], k)
    OBVIOUS
  <2>2. i \in g + 1 .. Len(l) /\ i \in 1 .. Len(l)
    BY <1>1, <1>14
  <2>3. Len(b) \in Nat /\ j \in 1 .. Len(b)
    BY <1>14, <2>1, <2>2 DEF Serial
  <2>4. u[l[i].from - Mark(l, g) + j] = b[j]
    BY <2>1, <2>2, <2>3 DEF Carries
  <2>5. l[i].to = l[i].from + Len(b) /\ l[i].to <= End(l) /\ l[i].from \in Nat
    BY <1>1, <2>1, <2>2 DEF InLine
  <2>6. Mark(l, g + 1) <= l[i].from
    BY <1>1, <1>2, <1>14
  <2>7. PICK x : x = l[i].from - Mark(l, g + 1) + j
    OBVIOUS
  <2>8. x \in 1 .. Len(u) - Len(s)
    <3>1. l[i].from + Len(b) <= End(l) /\ Mark(l, g + 1) \in Nat
      BY <1>1, <1>2, <2>5
    <3>2. x \in 1 .. End(l) - Mark(l, g + 1)
      BY <1>1, <2>3, <2>5, <2>6, <2>7, <3>1, Within
    <3>3. End(l) - Mark(l, g + 1) = Len(u) - Len(s)
      BY <1>1, <1>3, <1>4, <1>5, <1>6, <1>7
    <3>. QED BY <3>2, <3>3
  <2>9. Len(s) + x = l[i].from - Mark(l, g) + j
    <3>1. Mark(l, g + 1) = Mark(l, g) + Len(s) /\ Mark(l, g) \in Nat /\ Len(s) \in Nat
      BY <1>3, <1>4, <1>5, <1>6
    <3>2. l[i].from \in Nat /\ j \in Int
      BY <2>3, <2>5
    <3>3. \A a \in Nat, m \in Nat, n \in Nat, z \in Int : n + (a - (m + n) + z) = a - m + z
      OBVIOUS
    <3>. QED BY <2>7, <3>1, <3>2, <3>3, SMTT(20)
  <2>. QED BY <1>12, <2>1, <2>4, <2>7, <2>8, <2>9
<1>15. Carries(v, l, g + 1, k)
  BY <1>12, <1>13, <1>14 DEF Carries
<1>. QED BY <1>3, <1>4, <1>5, <1>8, <1>10, <1>11, <1>15

-----------------------------------------------------------------------------
(* do_hijacks.                                                             *)

\* A table with an address that is v, and else the same.
HasOnlyNew(dict, table, v) ==
    /\ \A i \in DOMAIN dict :
        i \in DOMAIN table /\ table[i][1] = dict[i][1] /\ (dict[i][1] # Address => table[i] = dict[i])
    /\ \A i \in DOMAIN table \ DOMAIN dict : table[i][1] = Address
    /\ \A i \in DOMAIN table : table[i][1] = Address => table[i][2] = v
    /\ \E i \in DOMAIN table : table[i][1] = Address

\* result[k] = v replaces the value of the address or appends one.
LEMMA SetItemIsNew ==
    ASSUME NEW dict, IsTable(dict), NEW v
    PROVE  HasOnlyNew(dict, SetItem(dict, Address, v), v)
<1>1. PICK table : table = SetItem(dict, Address, v)
  OBVIOUS
<1>2. PICK entry : entry = <<Address, v>>
  OBVIOUS
<1>3. entry[1] = Address /\ entry[2] = v
  BY <1>2
<1>4. CASE \E i \in DOMAIN dict : dict[i][1] = Address
  <2>1. table = [i \in DOMAIN dict |-> IF dict[i][1] = Address THEN <<dict[i][1], v>> ELSE dict[i]]
    BY <1>1, <1>4 DEF SetItem, SameKey
  <2>2. DOMAIN table = DOMAIN dict
    BY <2>1
  <2>3. ASSUME NEW i \in DOMAIN dict
        PROVE  /\ dict[i][1] = Address => table[i][1] = Address /\ table[i][2] = v
               /\ dict[i][1] # Address => table[i] = dict[i]
    BY <2>1
  <2>. QED BY <1>1, <1>4, <2>2, <2>3 DEF HasOnlyNew
<1>5. CASE ~\E i \in DOMAIN dict : dict[i][1] = Address
  <2>1. table = Append(dict, entry)
    BY <1>1, <1>2, <1>5 DEF SetItem, SameKey
  <2>2. PICK entries : entries = {<<dict[i][1], dict[i][2]>> : i \in DOMAIN dict}
    OBVIOUS
  <2>3. dict \in Seq(entries)
    BY <2>2 DEF IsTable
  <2>4. dict \in Seq(entries \cup {entry}) /\ DOMAIN dict = 1 .. Len(dict) /\ Len(dict) \in Nat
    BY <2>3
  <2>5. /\ Len(table) = Len(dict) + 1 /\ DOMAIN table = 1 .. Len(dict) + 1
        /\ \A i \in 1 .. Len(dict) : table[i] = dict[i] /\ table[Len(dict) + 1] = entry
    BY <2>1, <2>4
  <2>6. table[Len(dict) + 1] = entry
    BY <2>1, <2>4
  <2>7. \A i \in DOMAIN dict : i \in DOMAIN table /\ table[i] = dict[i]
    BY <2>4, <2>5
  <2>8. \A i \in DOMAIN table \ DOMAIN dict : i = Len(dict) + 1
    BY <2>4, <2>5
  <2>9. Len(dict) + 1 \in DOMAIN table
    BY <2>4, <2>5
  <2>. QED BY <1>1, <1>3, <1>5, <2>6, <2>7, <2>8, <2>9 DEF HasOnlyNew
<1>. QED BY <1>4, <1>5

\* Replacing the address changes nothing else, and then it is the one that is found.
LEMMA AddressIsReplaced ==
    ASSUME NEW p, IsOperationPacket(p), NEW v, NEW q, q = WithAddress(p, v)
    PROVE  SameButAddress(p, q) /\ Gives(q, v)
<1>1. PICK table : table = SetItem(p[4], Address, v)
  OBVIOUS
<1>2. HasOnlyNew(p[4], table, v)
  BY <1>1, SetItemIsNew DEF IsOperationPacket
<1>3. q[1] = p[1] /\ q[2] = p[2] /\ q[3] = p[3] /\ q[4] = table
  <2>1. p = <<p[1], p[2], p[3], p[4]>>
    BY DEF IsOperationPacket, Operation
  <2>2. q = [p EXCEPT ![4] = table]
    BY <1>1 DEF WithAddress
  <2>. QED BY <2>1, <2>2
<1>4. SameButAddress(p, q)
  BY <1>2, <1>3 DEF SameButAddress, HasOnlyNew
<1>5. PICK i : i = CHOOSE j \in DOMAIN table : table[j][1] = Address
  OBVIOUS
<1>6. i \in DOMAIN table /\ table[i][1] = Address
  BY <1>2, <1>5 DEF HasOnlyNew
<1>7. table[i][2] = v
  BY <1>2, <1>6 DEF HasOnlyNew
<1>8. Param(q, Address) = v
  BY <1>3, <1>5, <1>7 DEF Param
<1>9. HasParam(q, Address)
  BY <1>3, <1>6 DEF HasParam
<1>. QED BY <1>4, <1>8, <1>9 DEF Gives

\* The address of the first region is replaced, and no more of the list.
LEMMA RegionIsReplaced ==
    ASSUME NEW p, IsOperationPacket(p), ListsRegions(p), NEW q, q = WithOurRegion(p)
    PROVE  /\ SameButAddress(p, q) /\ ListsRegions(q)
           /\ Param(q, Address)[2].elements[1] = String(OurMaster)
<1>1. PICK addresses : addresses = Param(p, Address)[2]
  OBVIOUS
<1>2. /\ addresses = [code |-> addresses.code, elements |-> addresses.elements]
      /\ 1 \in DOMAIN addresses.elements
  BY <1>1 DEF ListsRegions
<1>3. PICK ours : ours = [addresses EXCEPT !.elements[1] = String(OurMaster)]
  OBVIOUS
<1>4. /\ ours = [code |-> ours.code, elements |-> ours.elements]
      /\ 1 \in DOMAIN ours.elements /\ ours.elements[1] = String(OurMaster)
  BY <1>2, <1>3
<1>5. q = WithAddress(p, <<"Slice", ours>>)
  BY <1>1, <1>3 DEF WithOurRegion
<1>6. SameButAddress(p, q) /\ Gives(q, <<"Slice", ours>>)
  BY <1>5, AddressIsReplaced
<1>7. HasParam(q, Address) /\ Param(q, Address) = <<"Slice", ours>>
  BY <1>6 DEF Gives
<1>8. Param(q, Address)[2] = ours
  BY <1>7
<1>. QED BY <1>4, <1>6, <1>7, <1>8 DEF ListsRegions

\* What do_hijacks owes: see ClientStaysOnProxy.
IsOurs(p, q, server) ==
    /\ SameButAddress(p, q)
    /\ NamesGameServer(q) => Gives(q, String(OurGame))
    /\ NamesMasterServer(q, server) => Gives(q, String(OurMaster))
    /\ NamesRegions(q, server) =>
            ListsRegions(q) /\ Param(q, Address)[2].elements[1] = String(OurMaster)

\* What is not rewritten is the same.
LEMMA SameIsSame ==
    ASSUME NEW p
    PROVE  SameButAddress(p, p)
BY DEF SameButAddress

\* do_hijacks replaces an address with ours, and nothing else.
LEMMA HijackedIsOurs ==
    ASSUME NEW p, NEW server, IsOperationPacket(p), NamesRegions(p, server) => ListsRegions(p),
           NEW q, q = Hijacked(p, server)
    PROVE  IsOurs(p, q, server)
<1>1. SameButAddress(p, q) => q[1] = p[1] /\ q[2] = p[2]
  BY DEF SameButAddress
<1>2. "EncryptedOperationResponse" \in Responses
  BY DEF Responses, Answers
<1>3. CreateGame # GetRegions /\ JoinGame # GetRegions /\ CreateGame # GameList /\ JoinGame # GameList
      /\ GetRegions # GameList
  BY DEF CreateGame, JoinGame, GetRegions, GameList
<1>4. CASE NamesRegions(p, server)
  <2>1. q = WithOurRegion(p)
    BY <1>2, <1>3, <1>4 DEF Hijacked, NamesRegions
  <2>2. /\ SameButAddress(p, q) /\ ListsRegions(q)
        /\ Param(q, Address)[2].elements[1] = String(OurMaster)
    BY <1>4, <2>1, RegionIsReplaced
  <2>3. ~NamesGameServer(q) /\ ~NamesMasterServer(q, server)
    BY <1>1, <1>3, <1>4, <2>2 DEF NamesRegions, NamesGameServer, NamesMasterServer
  <2>. QED BY <2>2, <2>3 DEF IsOurs
<1>5. CASE NamesMasterServer(p, server)
  <2>1. q = WithAddress(p, String(OurMaster))
    BY <1>2, <1>3, <1>5 DEF Hijacked, NamesMasterServer
  <2>2. SameButAddress(p, q) /\ Gives(q, String(OurMaster))
    BY <2>1, AddressIsReplaced
  <2>3. ~NamesGameServer(q) /\ ~NamesRegions(q, server)
    BY <1>1, <1>3, <1>5, <2>2 DEF NamesRegions, NamesGameServer, NamesMasterServer
  <2>. QED BY <2>2, <2>3 DEF IsOurs
<1>6. CASE NamesGameServer(p)
  <2>1. q = WithAddress(p, String(OurGame))
    BY <1>3, <1>6 DEF Hijacked, NamesGameServer
  <2>2. SameButAddress(p, q) /\ Gives(q, String(OurGame))
    BY <2>1, AddressIsReplaced
  <2>3. ~NamesMasterServer(q, server) /\ ~NamesRegions(q, server)
    BY <1>1, <1>3, <1>6, <2>2 DEF NamesRegions, NamesGameServer, NamesMasterServer
  <2>. QED BY <2>2, <2>3 DEF IsOurs
<1>7. CASE ~NamesRegions(p, server) /\ ~NamesMasterServer(p, server) /\ ~NamesGameServer(p)
  <2>1. q = p
    BY <1>7 DEF Hijacked, NamesRegions, NamesGameServer, NamesMasterServer
  <2>2. SameButAddress(p, q)
    BY <2>1, SameIsSame
  <2>. QED BY <1>7, <2>1, <2>2 DEF IsOurs
<1>. QED BY <1>4, <1>5, <1>6, <1>7

-----------------------------------------------------------------------------
(* What is sent in a session.                                              *)

\* What the assumptions say of a single operation.
LEMMA SessionItem ==
    ASSUME session \in Sessions, NEW i \in DOMAIN session.items
    PROVE  LET p == session.items[i]
           IN  /\ IsOperationPacket(p) /\ Forwarded(p) /\ ReadsBack(p)
               /\ NamesRegions(p, session.server) => ListsRegions(p)
               /\ ReadsBack(Hijacked(p, session.server))
BY SessionsAssumption, PayloadAssumption

\* The operations of a session are a sequence.
LEMMA SessionItems ==
    ASSUME session \in Sessions
    PROVE  Len(session.items) \in Nat /\ DOMAIN session.items = 1 .. Len(session.items)
<1>1. PICK packets : packets = {session.items[i] : i \in DOMAIN session.items}
  OBVIOUS
<1>2. session.items \in Seq(packets)
  BY <1>1, SessionsAssumption
<1>. QED BY <1>2

\* What do_hijacks makes of an operation of the session.
LEMMA HijackedItem ==
    ASSUME session \in Sessions, NEW i \in DOMAIN session.items
    PROVE  LET p == session.items[i] q == Hijacked(p, session.server)
           IN  IsOurs(p, q, session.server) /\ q[1] = p[1]
<1>1. PICK p : p = session.items[i]
  OBVIOUS
<1>2. PICK q : q = Hijacked(p, session.server)
  OBVIOUS
<1>3. IsOperationPacket(p) /\ (NamesRegions(p, session.server) => ListsRegions(p))
  BY <1>1, SessionItem
<1>4. IsOurs(p, q, session.server)
  BY <1>2, <1>3, HijackedIsOurs
<1>5. q[1] = p[1]
  BY <1>4 DEF IsOurs, SameButAddress
<1>. QED BY <1>1, <1>2, <1>4, <1>5

\* What is routed is forwarded and can be read.
LEMMA RoutedIsReadable ==
    ASSUME session \in Sessions, NEW p \in Routed
    PROVE  Readable(p) /\ Forwarded(p)
<1>1. Forwarded(p) /\ ReadsBack(p)
  <2>1. ASSUME NEW i \in DOMAIN session.items, p = session.items[i]
        PROVE  Forwarded(p) /\ ReadsBack(p)
    BY <2>1, SessionItem
  <2>2. ASSUME NEW i \in DOMAIN session.items, p = Hijacked(session.items[i], session.server)
        PROVE  Forwarded(p) /\ ReadsBack(p)
    <3>1. Forwarded(session.items[i]) /\ ReadsBack(Hijacked(session.items[i], session.server))
      BY SessionItem
    <3>2. Hijacked(session.items[i], session.server)[1] = session.items[i][1]
      BY HijackedItem
    <3>. QED BY <2>2, <3>1, <3>2 DEF Forwarded, IsOperation
  <2>. QED BY <2>1, <2>2 DEF Routed
<1>. QED BY <1>1 DEF Readable, Forwarded

\* The packets of a handshake.
LEMMA OpeningPackets ==
    ASSUME NEW h \in Hops
    PROVE  /\ Opening(h)[1] \in {InitRequestPacket(AppId), InitResponsePacket}
           /\ Opening(h)[2] \in {KeyExchangePacket(c, PublicKey(Private[h].sender)) : c \in KeyExchange}
           /\ \A n \in 1 .. OpeningSize : n = 1 \/ n = 2
BY DEF Opening, OpeningSize, KeyExchange

\* Where the public key is found.
LEMMA KeyExchangeShape ==
    ASSUME NEW c \in KeyExchange, NEW public
    PROVE  LET p == KeyExchangePacket(c, public)
           IN  p[1] = c /\ p[4][1][2][2] = public
BY DEF KeyExchangePacket, Operation

\* The packets of the key exchange can be read.
LEMMA KeyExchangeIsReadable ==
    ASSUME NEW h \in Hops, NEW c \in KeyExchange
    PROVE  Readable(KeyExchangePacket(c, PublicKey(Private[h].sender)))
<1>1. PICK public : public = PublicKey(Private[h].sender)
  OBVIOUS
<1>2. PICK p : p = KeyExchangePacket(c, public)
  OBVIOUS
<1>3. p[1] = c /\ p[4][1][2][2] = public
  BY <1>2, KeyExchangeShape
<1>4. ReadsBack(p)
  BY <1>1, <1>2, PayloadAssumption
<1>5. c \in DOMAIN Command
  BY DEF KeyExchange, Command
<1>6. Readable(p)
  BY <1>2, <1>3, <1>4, <1>5 DEF Readable, IsOperation
<1>. QED BY <1>1, <1>2, <1>6

\* Times in keep-alives have 31 bits.
LEMMA SizedTimes ==
    ASSUME NEW t \in Times
    PROVE  Sized(t[1]) /\ Sized(t[2])
<1>1. t \in Nat \X Nat
  BY TimesAssumption
<1>2. t[1] \in Nat /\ t[2] \in Nat
  BY <1>1
<1>. QED BY <1>2, TimesAssumption DEF Sized

\* All that is sent in a session can be read at the other end of a hop.
LEMMA PacketsAreSendable ==
    ASSUME session \in Sessions, NEW p \in Packets
    PROVE  Sendable(p, ExpectResponses)
<1>1. CASE p \in Routed
  BY <1>1, RoutedIsReadable DEF Sendable
<1>2. CASE p \in KeepAlives
  <2>1. CASE Requests
    <3>1. PICK t \in Times : p = KeepAliveRequest(t[2])
      BY <1>2, <2>1 DEF KeepAlives
    <3>2. Sized(t[2]) /\ ~ExpectResponses
      BY <2>1, SizedTimes DEF ExpectResponses
    <3>. QED BY <3>1, <3>2 DEF Sendable
  <2>2. CASE ~Requests
    <3>1. PICK t \in Times : p = KeepAliveResponse(t[1], t[2])
      BY <1>2, <2>2 DEF KeepAlives
    <3>2. Sized(t[1]) /\ Sized(t[2]) /\ ExpectResponses
      BY <2>2, SizedTimes DEF ExpectResponses
    <3>. QED BY <3>1, <3>2 DEF Sendable
  <2>. QED BY <2>1, <2>2
<1>3. CASE p \in Openings
  <2>1. PICK h \in Hops, n \in 1 .. OpeningSize : p = Opening(h)[n]
    BY <1>3 DEF Openings
  <2>2. CASE n = 1
    BY <2>1, <2>2, OpeningPackets DEF Sendable
  <2>3. CASE n = 2
    <3>1. PICK c \in KeyExchange : p = KeyExchangePacket(c, PublicKey(Private[h].sender))
      BY <2>1, <2>3, OpeningPackets
    <3>. QED BY <3>1, KeyExchangeIsReadable DEF Sendable
  <2>. QED BY <2>2, <2>3, OpeningPackets
<1>. QED BY <1>1, <1>2, <1>3 DEF Packets

\* There is a key.
LEMMA KeyOfSender ==
    ASSUME NEW h \in Hops
    PROVE  SenderKey(h) \in 1 .. 255
BY KeyAssumption

\* The bytes of a packet of the session, and what a parser makes of them.
LEMMA PacketBytes ==
    ASSUME session \in Sessions, NEW p \in Packets, NEW h \in Hops
    PROVE  LET s == Serialize(p, <<>>, SenderKey(h))
           IN  /\ IsReadFrom(p, s, ExpectResponses, SenderKey(h))
               /\ s \in Seq(Byte) /\ Len(s) \in Nat \ {0}
<1>1. PICK s : s = Serialize(p, <<>>, SenderKey(h))
  OBVIOUS
<1>2. IsReadFrom(p, s, ExpectResponses, SenderKey(h))
  BY <1>1, PacketsAreSendable, KeyOfSender, SentIsRead
<1>3. s \in Seq(Byte) /\ s # <<>>
  BY <1>2 DEF IsReadFrom
<1>4. Len(s) \in Nat \ {0}
  BY <1>3
<1>. QED BY <1>1, <1>2, <1>3, <1>4

\* The lines of a state have bytes.
LEMMA LineIsSerial ==
    ASSUME session \in Sessions, NEW h \in Hops, NEW l \in Seq(Entries(Packets))
    PROVE  Serial(l, SenderKey(h))
<1>1. \A i \in 1 .. Len(l) : l[i] \in Entries(Packets)
  OBVIOUS
<1>2. \A e \in Entries(Packets) : e.packet \in Packets
  BY DEF Entries
<1>. QED BY <1>1, <1>2, PacketBytes DEF Serial, BytesOf

-----------------------------------------------------------------------------
(* Steps.                                                                  *)

\* What is sent depends on the session only.
LEMMA SameSession ==
    ASSUME session' = session
    PROVE  Routed' = Routed /\ KeepAlives' = KeepAlives /\ Openings' = Openings /\ Packets' = Packets
<1>1. Routed' = Routed
  BY DEF Routed, Hijacked
<1>2. KeepAlives' = KeepAlives
  BY DEF KeepAlives, Requests
<1>3. Openings' = Openings
  BY DEF Openings, Opening, Requests
<1>. QED BY <1>1, <1>2, <1>3 DEF Packets

\* So does a handshake.
LEMMA SameOpening ==
    ASSUME session' = session, NEW h
    PROVE  Opening(h)' = Opening(h)
BY DEF Opening, Requests

\* So does what do_hijacks makes of a packet.
LEMMA SameMade ==
    ASSUME session' = session, NEW h, NEW p
    PROVE  Made(h, p)' = Made(h, p)
BY DEF Made, Requests, Hijacked

\* A hop at which nothing happens, while operations may come to the other end of the first.
Still(o) ==
    /\ session' = session
    /\ progress'[o] = progress[o] /\ wire'[o] = wire[o] /\ buffer'[o] = buffer[o]
    /\ parsing'[o] = parsing[o] /\ parseKey'[o] = parseKey[o] /\ key'[o] = key[o]
    /\ incoming'[o] = incoming[o] /\ broken'[o] = broken[o] /\ line'[o] = line[o] /\ got'[o] = got[o]

Grows(o) ==
    /\ Len(Items(o)) \in Nat /\ Len(Items(o))' \in Nat /\ Len(Items(o)) <= Len(Items(o))'
    /\ \A i \in 1 .. Len(Items(o)) : Items(o)'[i] = Items(o)[i]

\* What was next to be sent when there was less to send still was.
LEMMA NextTurnStays ==
    ASSUME session' = session, NEW h, Grows(h), NEW p, NEW before, NEW n \in Nat, NextTurn(h, p, before, n)
    PROVE  NextTurn(h, p, before, n)'
<1>1. KeepAlives' = KeepAlives /\ Opening(h)' = Opening(h)
  BY SameSession, SameOpening
<1>2. OpeningSize \in Nat
  BY DEF OpeningSize
<1>3. CASE IsKeepAlive(p)
  BY <1>1, <1>3 DEF NextTurn
<1>4. CASE ~IsKeepAlive(p) /\ n <= OpeningSize
  BY <1>1, <1>4 DEF NextTurn
<1>5. CASE ~IsKeepAlive(p) /\ ~(n <= OpeningSize)
  <2>1. PICK i : i = n - OpeningSize
    OBVIOUS
  <2>2. i \in 1 .. Len(Items(h)) /\ p = Made(h, Items(h)[i]) /\ n = before + 1
    BY <1>5, <2>1 DEF NextTurn
  <2>3. i \in 1 .. Len(Items(h))' /\ Items(h)'[i] = Items(h)[i]
    BY <2>2 DEF Grows
  <2>4. Made(h, Items(h)[i])' = Made(h, Items(h)[i])
    BY <2>3, SameMade DEF Made, Requests, Hijacked
  <2>. QED BY <1>5, <2>1, <2>2, <2>3, <2>4 DEF NextTurn
<1>. QED BY <1>3, <1>4, <1>5

\* What was sent and relayed in turn still is when there is more to send.
LEMMA InTurnStays ==
    ASSUME TypeOK, NEW o \in Hops, InTurn(o), session' = session, Grows(o),
           line'[o] = line[o], progress'[o] = progress[o]
    PROVE  InTurn(o)'
<1>1. ASSUME NEW i \in 1 .. Len(line[o])
      PROVE  NextTurn(o, line[o][i].packet, Progress(line[o], i - 1), line[o][i].progress)'
  <2>1. NextTurn(o, line[o][i].packet, Progress(line[o], i - 1), line[o][i].progress)
    BY DEF InTurn
  <2>2. line[o] \in Seq(Entries(Packets))
    BY DEF TypeOK
  <2>3. line[o][i] \in Entries(Packets)
    BY <2>2
  <2>4. line[o][i].progress \in Nat
    BY <2>3 DEF Entries
  <2>5. PICK p, before, n :
            p = line[o][i].packet /\ before = Progress(line[o], i - 1) /\ n = line[o][i].progress
    OBVIOUS
  <2>6. NextTurn(o, p, before, n)'
    BY <2>1, <2>4, <2>5, NextTurnStays
  <2>7. p = line'[o][i].packet /\ before = Progress(line'[o], i - 1) /\ n = line'[o][i].progress
    BY <2>5
  <2>. QED BY <2>6, <2>7
<1>2. progress[o]' = Progress(line[o], Len(line[o]))'
  BY DEF InTurn
<1>. QED BY <1>1, <1>2 DEF InTurn

\* What was relayed is still what was made of as many operations when there are more.
LEMMA RelayedStays ==
    ASSUME TypeOK, NEW o \in Hops, Relayed(o), session' = session, Grows(o),
           incoming'[o] = incoming[o], Progress(line[o], Len(got[o]))' = Progress(line[o], Len(got[o]))
    PROVE  Relayed(o)'
<1>1. PICK c : c = incoming[o]
  OBVIOUS
<1>2. /\ Len(c) = IF Progress(line[o], Len(got[o])) <= OpeningSize THEN 0
                  ELSE Progress(line[o], Len(got[o])) - OpeningSize
      /\ Len(c) <= Len(Items(o)) /\ \A i \in 1 .. Len(c) : c[i] = Made(o, Items(o)[i])
  BY <1>1 DEF Relayed
<1>3. Len(c) \in Nat
  <2>1. c \in Seq(Routed)
    BY <1>1 DEF TypeOK
  <2>. QED BY <2>1
<1>4. Len(c) <= Len(Items(o))'
  BY <1>2, <1>3 DEF Grows
<1>5. ASSUME NEW i \in 1 .. Len(c) PROVE c[i] = Made(o, Items(o)[i])'
  <2>1. i \in 1 .. Len(Items(o))
    BY <1>2, <1>3 DEF Grows
  <2>2. Items(o)'[i] = Items(o)[i]
    BY <2>1 DEF Grows
  <2>3. Made(o, Items(o)[i])' = Made(o, Items(o)[i])
    BY <2>2, SameMade DEF Made, Requests, Hijacked
  <2>. QED BY <1>2, <2>3
<1>. QED BY <1>1, <1>2, <1>4, <1>5 DEF Relayed

\* A step at one hop keeps the invariant of the other.
LEMMA OtherHop ==
    ASSUME TypeOK, NEW o \in Hops, HopInv(o), Still(o), Grows(o)
    PROVE  HopInv(o)'
<1>1. InStream(o)'
  BY DEF HopInv, InStream, Still
<1>2. InOrder(o)'
  BY DEF HopInv, InOrder, Still
<1>3. InKey(o)'
  BY DEF HopInv, InKey, Unread, Still
<1>4. InTurn(o)'
  BY InTurnStays DEF HopInv, Still
<1>5. Relayed(o)'
  BY RelayedStays DEF HopInv, Still
<1>. QED BY <1>1, <1>2, <1>3, <1>4, <1>5 DEF HopInv

\* The types by themselves, for steps at one hop.
LEMMA HopTypes ==
    ASSUME TypeOK, NEW h \in Hops
    PROVE  /\ session \in Sessions /\ progress[h] \in Nat
           /\ wire[h] \in Seq(Byte) /\ buffer[h] \in Seq(Byte)
           /\ parsing[h] \in BOOLEAN /\ broken[h] \in BOOLEAN
           /\ key[h] \in 0 .. 255 /\ parseKey[h] \in 0 .. 255
           /\ incoming[h] \in Seq(Routed) /\ got[h] \in Seq(Packets)
           /\ line[h] \in Seq(Entries(Packets))
           /\ Len(line[h]) \in Nat /\ Len(got[h]) \in Nat /\ Len(incoming[h]) \in Nat
           /\ Len(buffer[h]) \in Nat /\ Len(wire[h]) \in Nat
<1>1. /\ session \in Sessions /\ progress[h] \in Nat
      /\ wire[h] \in Seq(Byte) /\ buffer[h] \in Seq(Byte)
      /\ parsing[h] \in BOOLEAN /\ broken[h] \in BOOLEAN
      /\ key[h] \in 0 .. 255 /\ parseKey[h] \in 0 .. 255
      /\ incoming[h] \in Seq(Routed) /\ got[h] \in Seq(Packets)
      /\ line[h] \in Seq(Entries(Packets))
  BY DEF TypeOK
<1>. QED BY <1>1

\* What there is to send is a sequence.
LEMMA ItemsAreFew ==
    ASSUME TypeOK, NEW h \in Hops
    PROVE  Len(Items(h)) \in Nat /\ DOMAIN Items(h) = 1 .. Len(Items(h))
<1>1. CASE h = "first"
  BY <1>1, HopTypes, SessionItems DEF Items
<1>2. CASE h = "second"
  <2>1. incoming["first"] \in Seq(Routed)
    BY HopTypes DEF Hops
  <2>. QED BY <1>2, <2>1 DEF Items
<1>. QED BY <1>1, <1>2 DEF Hops

\* What is put on a hop leads to a state like before.
LEMMA PacketIsSent ==
    ASSUME IInv, NEW h \in Hops, NEW p \in Packets, NEW n \in Nat,
           progress' = [progress EXCEPT ![h] = n], pings' \in Nat,
           Put(h, p, Serialize(p, <<>>, SenderKey(h))),
           IsEncrypted(p) => key[h] # 0, NextTurn(h, p, progress[h], n)
    PROVE  IInv'
<1>1. TypeOK /\ HopInv(h) /\ session \in Sessions
  BY DEF IInv, TypeOK
<1>2. PICK k : k = SenderKey(h)
  OBVIOUS
<1>3. PICK s : s = Serialize(p, <<>>, k)
  OBVIOUS
<1>4. s \in Seq(Byte) /\ Len(s) \in Nat \ {0}
  BY <1>1, <1>2, <1>3, PacketBytes
<1>5. PICK l : l = line[h]
  OBVIOUS
<1>6. PICK e : e = [packet |-> p, from |-> End(l), to |-> End(l) + Len(s), progress |-> n]
  OBVIOUS
<1>7. PICK m : m = Append(l, e)
  OBVIOUS
<1>8. l \in Seq(Entries(Packets)) /\ Serial(l, k) /\ InLine(l, k)
  BY <1>1, <1>2, <1>5, HopTypes, LineIsSerial DEF HopInv, InStream
<1>9. End(l) \in Nat
  BY <1>8, LineBounds
<1>10. e \in Entries(Packets) /\ e.packet = p /\ e.from = End(l) /\ e.to = End(l) + Len(s) /\ e.progress = n
  BY <1>4, <1>6, <1>9 DEF Entries
<1>11. BytesOf(e, k) = s
  BY <1>3, <1>10 DEF BytesOf
<1>12. /\ m \in Seq(Entries(Packets)) /\ Len(m) = Len(l) + 1 /\ m[Len(m)] = e
       /\ \A i \in 1 .. Len(l) : m[i] = l[i]
       /\ InLine(m, k) /\ Serial(m, k)
       /\ \A g \in 0 .. Len(l) : Mark(m, g) = Mark(l, g)
       /\ \A g \in 0 .. Len(l) : \A u : Carries(u, l, g, k) => Carries(u \o s, m, g, k)
  <2>1. /\ BytesOf(e, k) \in Seq(Byte) /\ Len(BytesOf(e, k)) > 0
        /\ e.from = End(l) /\ e.to = End(l) + Len(BytesOf(e, k))
    BY <1>4, <1>10, <1>11
  <2>2. Appended(m, l, e, k, Packets)
    BY <1>7, <1>8, <1>10, <2>1, PacketIsAppended
  <2>. QED BY <1>11, <2>2 DEF Appended
<1>13. Sent(h) = End(l)
  BY <1>5 DEF Sent, End
<1>14. progress'[h] = n
  BY <1>1 DEF TypeOK
<1>15. /\ wire' = [wire EXCEPT ![h] = @ \o s] /\ line' = [line EXCEPT ![h] = m]
       /\ UNCHANGED <<session, buffer, parsing, parseKey, key, incoming, broken, got>>
  BY <1>2, <1>3, <1>5, <1>6, <1>7, <1>13, <1>14 DEF Put
<1>16. wire'[h] = wire[h] \o s /\ line'[h] = m /\ wire'[h] \in Seq(Byte)
  <2>1. wire[h] \in Seq(Byte) /\ wire \in [Hops -> Seq(Byte)] /\ line \in [Hops -> Seq(Entries(Packets))]
    BY <1>1 DEF TypeOK
  <2>2. wire'[h] = wire[h] \o s /\ line'[h] = m
    BY <1>15, <2>1
  <2>3. wire[h] \o s \in Seq(Byte)
    BY <1>4, <2>1
  <2>. QED BY <2>2, <2>3
<1>17. TypeOK'
  <2>1. wire' \in [Hops -> Seq(Byte)]
    BY <1>1, <1>15, <1>16 DEF TypeOK
  <2>2. line' \in [Hops -> Seq(Entries(Packets))]
    BY <1>1, <1>12, <1>15 DEF TypeOK
  <2>3. progress' \in [Hops -> Nat]
    BY <1>1 DEF TypeOK
  <2>4. Routed' = Routed /\ Packets' = Packets
    BY <1>15, SameSession
  <2>. QED BY <1>1, <1>15, <2>1, <2>2, <2>3, <2>4 DEF TypeOK
<1>18. PICK g : g = Len(got[h])
  OBVIOUS
<1>19. g \in Nat /\ g <= Len(l) /\ Len(l) \in Nat /\ Len(buffer[h]) \in Nat /\ Len(wire[h]) \in Nat
  BY <1>1, <1>5, <1>18, HopTypes DEF HopInv, InOrder
<1>20. Carries(buffer[h] \o wire[h], l, g, k)
  BY <1>1, <1>2, <1>5, <1>18 DEF HopInv, InStream
<1>21. Len(buffer[h]) + Len(wire[h]) = End(l) - Mark(l, g) /\ Mark(l, g) \in Nat
  <2>1. buffer[h] \in Seq(Byte) /\ wire[h] \in Seq(Byte)
    BY <1>1, HopTypes
  <2>2. Len(buffer[h] \o wire[h]) = Len(buffer[h]) + Len(wire[h])
    BY <2>1
  <2>3. Mark(l, g) \in Nat
    BY <1>8, <1>19, LineBounds
  <2>. QED BY <1>20, <2>2, <2>3 DEF Carries
<1>22. InStream(h)'
  <2>1. Carries((buffer[h] \o wire[h]) \o s, m, g, k)
    BY <1>12, <1>19, <1>20
  <2>2. (buffer[h] \o wire[h]) \o s = buffer[h] \o (wire[h] \o s)
    <3>1. buffer[h] \in Seq(Byte) /\ wire[h] \in Seq(Byte)
      BY <1>1, HopTypes
    <3>. QED BY <1>4, <3>1, Regroup
  <2>. QED BY <1>2, <1>12, <1>15, <1>16, <1>18, <2>1, <2>2 DEF InStream
<1>23. InOrder(h)'
  <2>1. /\ ~broken[h] /\ \A i \in 1 .. g : got[h][i] = l[i].packet
        /\ ~parsing[h] /\ g < Len(l) => Len(buffer[h]) < Len(BytesOf(l[g + 1], k))
    BY <1>1, <1>2, <1>5, <1>18 DEF HopInv, InOrder
  <2>2. g <= Len(m) /\ \A i \in 1 .. g : got[h][i] = m[i].packet
    BY <1>12, <1>19, <2>1
  <2>3. ASSUME ~parsing[h], g < Len(m) PROVE Len(buffer[h]) < Len(BytesOf(m[g + 1], k))
    <3>1. CASE g < Len(l)
      BY <1>12, <1>19, <2>1, <2>3, <3>1
    <3>2. CASE g = Len(l)
      <4>1. Mark(l, g) = End(l)
        BY <1>8, <1>19, <3>2 DEF Mark, End
      <4>2. Len(buffer[h]) = 0
        <5>1. \A a \in Nat, b \in Nat, c \in Nat : a + b = c - c => a = 0
          OBVIOUS
        <5>. QED BY <1>9, <1>19, <1>21, <4>1, <5>1, Zenon
      <4>3. m[g + 1] = e
        BY <1>12, <3>2
      <4>. QED BY <1>4, <1>11, <4>2, <4>3
    <3>. QED BY <1>19, <3>1, <3>2
  <2>. QED BY <1>2, <1>15, <1>16, <1>18, <2>1, <2>2, <2>3 DEF InOrder
<1>24. InKey(h)'
  <2>1. /\ key[h] \in {0, k}
        /\ \A i \in g + 1 .. Len(l) : IsEncrypted(l[i].packet) =>
            /\ key[h] = k
            /\ parsing[h] /\ l[i].from - Mark(l, g) < Len(buffer[h]) => parseKey[h] = k
    BY <1>1, <1>2, <1>5, <1>18 DEF HopInv, InKey, Unread
  <2>2. ASSUME NEW i \in g + 1 .. Len(m), IsEncrypted(m[i].packet)
        PROVE  /\ key[h] = k
               /\ parsing[h] /\ m[i].from - Mark(m, g) < Len(buffer[h]) => parseKey[h] = k
    <3>1. Mark(m, g) = Mark(l, g)
      BY <1>12, <1>19
    <3>2. CASE i \in g + 1 .. Len(l)
      <4>1. m[i] = l[i]
        BY <1>12, <1>19, <3>2
      <4>. QED BY <2>1, <2>2, <3>1, <3>2, <4>1
    <3>3. CASE i = Len(l) + 1
      <4>1. m[i] = e /\ IsEncrypted(p)
        BY <1>10, <1>12, <2>2, <3>3
      <4>2. key[h] = k
        BY <2>1, <4>1
      <4>3. m[i].from - Mark(m, g) = Len(buffer[h]) + Len(wire[h])
        BY <1>10, <1>21, <3>1, <4>1
      <4>4. ~(m[i].from - Mark(m, g) < Len(buffer[h]))
        <5>1. \A a \in Nat, b \in Nat : ~(a + b < a)
          OBVIOUS
        <5>. QED BY <1>19, <4>3, <5>1, Zenon
      <4>. QED BY <4>2, <4>4
    <3>4. i \in g + 1 .. Len(l) \/ i = Len(l) + 1
      BY <1>12, <1>19
    <3>. QED BY <3>2, <3>3, <3>4
  <2>. QED BY <1>2, <1>15, <1>16, <1>18, <2>1, <2>2 DEF InKey, Unread
<1>25. \A i \in 0 .. Len(l) : Progress(m, i) = Progress(l, i)
  BY <1>12, <1>19 DEF Progress
<1>26. Grows(h)
  <2>1. Items(h)' = Items(h)
    BY <1>15 DEF Items
  <2>. QED BY <1>1, <2>1, ItemsAreFew DEF Grows
<1>27. InTurn(h)'
  <2>1. progress[h] = Progress(l, Len(l))
    BY <1>1, <1>5 DEF HopInv, InTurn
  <2>2. ASSUME NEW i \in 1 .. Len(m) PROVE NextTurn(h, m[i].packet, Progress(m, i - 1), m[i].progress)
    <3>1. CASE i \in 1 .. Len(l)
      <4>1. NextTurn(h, l[i].packet, Progress(l, i - 1), l[i].progress)
        BY <1>1, <1>5, <3>1 DEF HopInv, InTurn
      <4>2. i - 1 \in 0 .. Len(l) /\ m[i] = l[i]
        BY <1>12, <1>19, <3>1
      <4>. QED BY <1>25, <4>1, <4>2
    <3>2. CASE i = Len(l) + 1
      <4>1. i - 1 = Len(l) /\ Len(l) \in 0 .. Len(l) /\ m[i] = e
        BY <1>12, <1>19, <3>2
      <4>. QED BY <1>10, <1>25, <2>1, <4>1
    <3>3. i \in 1 .. Len(l) \/ i = Len(l) + 1
      BY <1>12, <1>19
    <3>. QED BY <3>1, <3>2, <3>3
  <2>3. ASSUME NEW i \in 1 .. Len(m)
        PROVE  NextTurn(h, line[h][i].packet, Progress(line[h], i - 1), line[h][i].progress)'
    <3>1. PICK q, before, x : q = m[i].packet /\ before = Progress(m, i - 1) /\ x = m[i].progress
      OBVIOUS
    <3>2. x \in Nat
      <4>1. m[i] \in Entries(Packets)
        BY <1>12
      <4>. QED BY <3>1, <4>1 DEF Entries
    <3>3. NextTurn(h, q, before, x)'
      BY <1>15, <1>26, <2>2, <3>1, <3>2, NextTurnStays
    <3>. QED BY <1>16, <3>1, <3>3
  <2>4. progress'[h] = Progress(line'[h], Len(line'[h]))
    <3>1. Len(m) # 0 /\ Progress(m, Len(m)) = n
      BY <1>10, <1>12, <1>19 DEF Progress
    <3>. QED BY <1>14, <1>16, <3>1
  <2>. QED BY <1>16, <2>3, <2>4 DEF InTurn
<1>28. Relayed(h)'
  <2>1. Progress(line'[h], Len(got'[h])) = Progress(l, g)
    BY <1>15, <1>16, <1>18, <1>19, <1>25
  <2>2. Progress(line[h], Len(got[h]))' = Progress(line[h], Len(got[h]))
    BY <1>5, <1>18, <2>1
  <2>3. incoming'[h] = incoming[h] /\ session' = session
    BY <1>15
  <2>. QED BY <1>1, <1>26, <2>2, <2>3, RelayedStays DEF HopInv
<1>29. HopInv(h)'
  BY <1>22, <1>23, <1>24, <1>27, <1>28 DEF HopInv
<1>30. ASSUME NEW o \in Hops, o # h PROVE HopInv(o)'
  <2>1. Still(o)
    <3>1. wire \in [Hops -> Seq(Byte)] /\ line \in [Hops -> Seq(Entries(Packets))] /\ progress \in [Hops -> Nat]
      BY <1>1 DEF TypeOK
    <3>. QED BY <1>15, <1>30, <3>1 DEF Still
  <2>2. Grows(o)
    <3>1. Items(o)' = Items(o)
      BY <1>15 DEF Items
    <3>. QED BY <1>1, <3>1, ItemsAreFew DEF Grows
  <2>. QED BY <1>1, <2>1, <2>2, OtherHop DEF IInv
<1>. QED BY <1>17, <1>29, <1>30 DEF IInv

\* What there is to send is what the session has, and so is what is made of it.
LEMMA ItemsAreRouted ==
    ASSUME IInv, NEW h \in Hops, NEW i \in 1 .. Len(Items(h))
    PROVE  /\ i \in DOMAIN session.items /\ Items(h)[i] = session.items[i]
           /\ Made(h, Items(h)[i]) \in Routed /\ Made(h, Items(h)[i])[1] = Items(h)[i][1]
<1>1. TypeOK /\ session \in Sessions
  BY DEF IInv, TypeOK
<1>2. Len(session.items) \in Nat /\ DOMAIN session.items = 1 .. Len(session.items)
  BY <1>1, SessionItems
<1>3. i \in DOMAIN session.items /\ Items(h)[i] = session.items[i]
  <2>1. CASE h = "first"
    BY <1>2, <2>1 DEF Items
  <2>2. CASE h = "second"
    <3>1. "first" \in Hops /\ i \in 1 .. Len(incoming["first"]) /\ Items(h)[i] = incoming["first"][i]
      BY <2>2 DEF Items, Hops
    <3>2. /\ Len(incoming["first"]) <= Len(Items("first"))
          /\ incoming["first"][i] = Made("first", Items("first")[i])
      BY <3>1 DEF IInv, HopInv, Relayed
    <3>3. Items("first") = session.items /\ Made("first", session.items[i]) = session.items[i]
      BY DEF Items, Made
    <3>4. Len(incoming["first"]) \in Nat
      BY <1>1, <3>1, HopTypes
    <3>. QED BY <1>2, <3>1, <3>2, <3>3, <3>4
  <2>. QED BY <2>1, <2>2 DEF Hops
<1>4. PICK p : p = session.items[i]
  OBVIOUS
<1>5. Made(h, p) = p \/ Made(h, p) = Hijacked(p, session.server)
  BY DEF Made
<1>6. Made(h, p) \in Routed
  BY <1>3, <1>4, <1>5 DEF Routed
<1>7. Hijacked(p, session.server)[1] = p[1]
  BY <1>1, <1>3, <1>4, HijackedItem
<1>. QED BY <1>3, <1>4, <1>5, <1>6, <1>7

\* Operations are neither keep-alives nor do they set a key.
LEMMA RoutedIsNoKeepAlive ==
    ASSUME session \in Sessions, NEW p \in Routed
    PROVE  ~IsKeepAlive(p) /\ Forwarded(p) /\ p[1] \notin KeyExchange
<1>1. Forwarded(p)
  BY RoutedIsReadable
<1>2. p[1] \in DOMAIN Command /\ p[1] \notin KeyExchange
  BY <1>1 DEF Forwarded, IsOperation
<1>3. "KeepAliveRequest" \notin DOMAIN Command /\ "KeepAliveResponse" \notin DOMAIN Command
  BY DEF Command
<1>. QED BY <1>1, <1>2, <1>3 DEF IsKeepAlive

\* A handshake is neither relayed nor encrypted, and it carries the public key of its sender.
LEMMA OpeningIsNotForwarded ==
    ASSUME NEW h \in Hops, NEW n \in 1 .. OpeningSize
    PROVE  LET p == Opening(h)[n]
           IN  /\ ~IsKeepAlive(p) /\ ~IsEncrypted(p) /\ ~Forwarded(p) /\ p \in Openings
               /\ p[1] \in KeyExchange => p[4][1][2][2] = PublicKey(Private[h].sender)
<1>1. PICK p : p = Opening(h)[n]
  OBVIOUS
<1>2. p \in Openings
  BY <1>1 DEF Openings
<1>3. CASE n = 1
  <2>1. p[1] \in {"Init", "InitResponse"}
    BY <1>1, <1>3, OpeningPackets DEF InitRequestPacket, InitResponsePacket
  <2>2. {"Init", "InitResponse"} \cap (DOMAIN Command \cup Encrypted \cup KeyExchange) = {}
    BY DEF Command, Encrypted, KeyExchange
  <2>3. ~IsKeepAlive(p)
    BY <2>1 DEF IsKeepAlive
  <2>. QED BY <1>1, <1>2, <2>1, <2>2, <2>3 DEF IsEncrypted, Forwarded, IsOperation
<1>4. CASE n = 2
  <2>1. PICK c \in KeyExchange : p = KeyExchangePacket(c, PublicKey(Private[h].sender))
    BY <1>1, <1>4, OpeningPackets
  <2>2. p[1] = c /\ p[4][1][2][2] = PublicKey(Private[h].sender)
    BY <2>1, KeyExchangeShape
  <2>3. c \notin Encrypted /\ c \notin {"KeepAliveRequest", "KeepAliveResponse"}
    BY DEF KeyExchange, Encrypted
  <2>. QED BY <1>1, <1>2, <2>2, <2>3 DEF IsEncrypted, IsKeepAlive, Forwarded
<1>. QED BY <1>3, <1>4, OpeningPackets

\* A step of the handshake.
LEMMA SendOpeningKeeps ==
    ASSUME IInv, NEW h \in Hops, SendOpening(h)
    PROVE  IInv'
<1>1. TypeOK /\ progress[h] \in Nat
  BY HopTypes DEF IInv
<1>2. PICK n : n = progress[h] + 1
  OBVIOUS
<1>3. /\ n <= OpeningSize /\ progress' = [progress EXCEPT ![h] = n] /\ pings' = pings
      /\ Put(h, Opening(h)[n], Serialize(Opening(h)[n], <<>>, SenderKey(h)))
  BY <1>2 DEF SendOpening
<1>4. n \in Nat /\ n \in 1 .. OpeningSize
  BY <1>1, <1>2, <1>3 DEF OpeningSize
<1>5. PICK p : p = Opening(h)[n]
  OBVIOUS
<1>6. ~IsKeepAlive(p) /\ ~IsEncrypted(p) /\ p \in Openings
  BY <1>4, <1>5, OpeningIsNotForwarded
<1>7. p \in Packets
  BY <1>6 DEF Packets
<1>8. NextTurn(h, p, progress[h], n)
  BY <1>2, <1>3, <1>5, <1>6 DEF NextTurn
<1>9. pings' \in Nat
  BY <1>1, <1>3 DEF TypeOK
<1>. QED BY <1>3, <1>4, <1>5, <1>6, <1>7, <1>8, <1>9, PacketIsSent

\* An operation is sent: if it is encrypted the key exchange is over.
LEMMA SendItemKeeps ==
    ASSUME IInv, NEW h \in Hops, SendItem(h)
    PROVE  IInv'
<1>1. TypeOK /\ progress[h] \in Nat /\ session \in Sessions
  BY HopTypes DEF IInv
<1>2. PICK i : i = progress[h] - OpeningSize + 1
  OBVIOUS
<1>3. PICK p : p = Made(h, Items(h)[i])
  OBVIOUS
<1>4. PICK n : n = progress[h] + 1
  OBVIOUS
<1>5. /\ i \in DOMAIN Items(h) /\ (IsEncrypted(Items(h)[i]) => key[h] # 0)
      /\ progress' = [progress EXCEPT ![h] = n] /\ pings' = pings
      /\ Put(h, p, Serialize(p, <<>>, SenderKey(h)))
  BY <1>2, <1>3, <1>4 DEF SendItem, CacheOf, Cached
<1>6. i \in 1 .. Len(Items(h)) /\ Len(Items(h)) \in Nat
  BY <1>1, <1>5, ItemsAreFew
<1>7. n \in Nat /\ n - OpeningSize = i /\ ~(n <= OpeningSize)
  BY <1>1, <1>2, <1>4, <1>6 DEF OpeningSize
<1>8. p \in Routed /\ p[1] = Items(h)[i][1]
  BY <1>3, <1>6, ItemsAreRouted
<1>9. ~IsKeepAlive(p) /\ p \in Packets
  BY <1>1, <1>8, RoutedIsNoKeepAlive DEF Packets
<1>10. NextTurn(h, p, progress[h], n)
  BY <1>3, <1>4, <1>6, <1>7, <1>9 DEF NextTurn
<1>11. IsEncrypted(p) => key[h] # 0
  BY <1>5, <1>8 DEF IsEncrypted
<1>12. pings' \in Nat
  BY <1>1, <1>5 DEF TypeOK
<1>. QED BY <1>5, <1>7, <1>9, <1>10, <1>11, <1>12, PacketIsSent

\* A keep-alive is sent.
LEMMA SendKeepAliveKeeps ==
    ASSUME IInv, NEW h \in Hops, SendKeepAlive(h)
    PROVE  IInv'
<1>1. TypeOK /\ progress[h] \in Nat
  BY HopTypes DEF IInv
<1>2. PICK t \in Times :
        LET packet == IF Requests THEN KeepAliveRequest(t[2]) ELSE KeepAliveResponse(t[1], t[2])
        IN  /\ pings' = pings + 1 /\ progress' = progress
            /\ Put(h, packet, Serialize(packet, <<>>, SenderKey(h)))
  BY DEF SendKeepAlive
<1>3. PICK p : p = IF Requests THEN KeepAliveRequest(t[2]) ELSE KeepAliveResponse(t[1], t[2])
  OBVIOUS
<1>4. Put(h, p, Serialize(p, <<>>, SenderKey(h))) /\ pings' = pings + 1 /\ progress' = progress
  BY <1>2, <1>3
<1>5. p \in KeepAlives
  BY <1>3 DEF KeepAlives
<1>6. p[1] \in {"KeepAliveRequest", "KeepAliveResponse"}
  BY <1>3 DEF KeepAliveRequest, KeepAliveResponse
<1>7. IsKeepAlive(p) /\ ~IsEncrypted(p)
  BY <1>6 DEF IsKeepAlive, IsEncrypted, Encrypted
<1>8. PICK n : n = progress[h]
  OBVIOUS
<1>9. progress' = [progress EXCEPT ![h] = n] /\ n \in Nat
  <2>1. progress \in [Hops -> Nat]
    BY <1>1 DEF TypeOK
  <2>. QED BY <1>1, <1>4, <1>8, <2>1
<1>10. NextTurn(h, p, progress[h], n)
  BY <1>5, <1>7, <1>8 DEF NextTurn
<1>11. pings' \in Nat
  BY <1>1, <1>4 DEF TypeOK
<1>12. p \in Packets
  BY <1>5 DEF Packets
<1>. QED BY <1>4, <1>7, <1>9, <1>10, <1>11, <1>12, PacketIsSent

\* A chunk moves from the wire to the buffer, and parse gets the key as it is.
LEMMA ReceiveKeeps ==
    ASSUME IInv, NEW h \in Hops, Receive(h)
    PROVE  IInv'
<1>1. TypeOK /\ HopInv(h)
  BY DEF IInv
<1>2. PICK w : w = wire[h]
  OBVIOUS
<1>3. PICK n \in {c \in ChunkSizes : c < Len(wire[h])} \cup {Len(wire[h])} :
        /\ buffer' = [buffer EXCEPT ![h] = @ \o SubSeq(wire[h], 1, n)]
        /\ wire' = [wire EXCEPT ![h] = SubSeq(@, n + 1, Len(@))]
  BY DEF Receive
<1>4. w \in Seq(Byte) /\ buffer[h] \in Seq(Byte) /\ Len(w) \in Nat
  BY <1>1, <1>2, HopTypes
<1>5. n \in 0 .. Len(w)
  BY <1>2, <1>3, <1>4, TimesAssumption
<1>6. PICK chunk : chunk = SubSeq(w, 1, n)
  OBVIOUS
<1>7. PICK rest : rest = SubSeq(w, n + 1, Len(w))
  OBVIOUS
<1>8. chunk \in Seq(Byte) /\ rest \in Seq(Byte)
  BY <1>4, <1>5, <1>6, <1>7, Cut
<1>9. chunk \o rest = w
  BY <1>4, <1>5, <1>6, <1>7, CutJoins
<1>10. /\ buffer' = [buffer EXCEPT ![h] = buffer[h] \o chunk] /\ wire' = [wire EXCEPT ![h] = rest]
       /\ parsing' = [parsing EXCEPT ![h] = TRUE] /\ parseKey' = [parseKey EXCEPT ![h] = key[h]]
       /\ UNCHANGED <<session, progress, pings, key, incoming, broken, line, got>>
  <2>1. buffer \in [Hops -> Seq(Byte)] /\ wire \in [Hops -> Seq(Byte)]
    BY <1>1 DEF TypeOK
  <2>2. UNCHANGED <<session, progress, pings, key, incoming, broken, line, got>>
    BY DEF Receive
  <2>3. parsing' = [parsing EXCEPT ![h] = TRUE] /\ parseKey' = [parseKey EXCEPT ![h] = key[h]]
    BY DEF Receive
  <2>4. buffer' = [buffer EXCEPT ![h] = buffer[h] \o chunk]
    BY <1>2, <1>3, <1>6, <2>1
  <2>5. wire' = [wire EXCEPT ![h] = rest]
    BY <1>2, <1>3, <1>7, <2>1
  <2>. QED BY <2>2, <2>3, <2>4, <2>5
<1>11. buffer[h] \o chunk \in Seq(Byte)
  BY <1>4, <1>8
<1>12. TypeOK'
  <2>1. buffer' \in [Hops -> Seq(Byte)] /\ wire' \in [Hops -> Seq(Byte)]
    BY <1>1, <1>8, <1>10, <1>11 DEF TypeOK
  <2>2. parsing' \in [Hops -> BOOLEAN] /\ parseKey' \in [Hops -> 0 .. 255]
    BY <1>1, <1>10 DEF TypeOK
  <2>3. Routed' = Routed /\ Packets' = Packets
    BY <1>10, SameSession
  <2>. QED BY <1>1, <1>10, <2>1, <2>2, <2>3 DEF TypeOK
<1>13. buffer'[h] = buffer[h] \o chunk /\ wire'[h] = rest /\ parsing'[h] = TRUE /\ parseKey'[h] = key[h]
  BY <1>1, <1>10 DEF TypeOK
<1>14. InStream(h)'
  <2>1. buffer'[h] \o wire'[h] = buffer[h] \o wire[h]
    <3>1. (buffer[h] \o chunk) \o rest = buffer[h] \o (chunk \o rest)
      BY <1>4, <1>8, Regroup
    <3>. QED BY <1>2, <1>9, <1>13, <3>1
  <2>. QED BY <1>1, <1>10, <2>1 DEF HopInv, InStream
<1>15. InOrder(h)'
  BY <1>1, <1>10, <1>13 DEF HopInv, InOrder
<1>16. InKey(h)'
  BY <1>1, <1>10, <1>13 DEF HopInv, InKey, Unread
<1>17. Items(h)' = Items(h)
  BY <1>10 DEF Items
<1>18. Grows(h)
  BY <1>1, <1>17, ItemsAreFew DEF Grows
<1>19. InTurn(h)'
  BY <1>1, <1>10, <1>18, InTurnStays DEF HopInv
<1>20. Relayed(h)'
  BY <1>1, <1>10, <1>18, RelayedStays DEF HopInv
<1>21. HopInv(h)'
  BY <1>14, <1>15, <1>16, <1>19, <1>20 DEF HopInv
<1>22. ASSUME NEW o \in Hops, o # h PROVE HopInv(o)'
  <2>1. Still(o)
    <3>1. /\ buffer \in [Hops -> Seq(Byte)] /\ wire \in [Hops -> Seq(Byte)]
          /\ parsing \in [Hops -> BOOLEAN] /\ parseKey \in [Hops -> 0 .. 255]
      BY <1>1 DEF TypeOK
    <3>. QED BY <1>10, <1>22, <3>1 DEF Still
  <2>2. Items(o)' = Items(o)
    BY <1>10 DEF Items
  <2>3. Grows(o)
    BY <1>1, <2>2, ItemsAreFew DEF Grows
  <2>. QED BY <1>1, <2>1, <2>3, OtherHop DEF IInv
<1>. QED BY <1>12, <1>21, <1>22 DEF IInv

\* The bytes of the packet that the receiver has not yet read, and whether they are all there.
NextEntry(h) == line[h][Len(got[h]) + 1]
NextBytes(h) == BytesOf(NextEntry(h), SenderKey(h))
NextIsThere(h) == Len(got[h]) < Len(line[h]) /\ Len(buffer[h]) >= Len(NextBytes(h))

\* When no packet is unread there is nothing in the buffer.
LEMMA BufferIsEmpty ==
    ASSUME TypeOK, NEW h \in Hops, HopInv(h), ~(Len(got[h]) < Len(line[h]))
    PROVE  buffer[h] = <<>>
<1>1. PICK l : l = line[h]
  OBVIOUS
<1>2. PICK k : k = SenderKey(h)
  OBVIOUS
<1>3. /\ l \in Seq(Entries(Packets)) /\ Len(l) \in Nat /\ Len(got[h]) \in Nat
      /\ buffer[h] \in Seq(Byte) /\ wire[h] \in Seq(Byte)
  BY <1>1, HopTypes
<1>4. Len(got[h]) = Len(l)
  BY <1>1, <1>3 DEF HopInv, InOrder
<1>5. Serial(l, k) /\ InLine(l, k) /\ Carries(buffer[h] \o wire[h], l, Len(l), k)
  BY <1>1, <1>2, <1>3, <1>4, HopTypes, LineIsSerial DEF HopInv, InStream
<1>6. Mark(l, Len(l)) = End(l)
  <2>1. CASE l = <<>>
    BY <2>1 DEF Mark, End
  <2>2. CASE l # <<>>
    <3>1. Len(l) # 0
      BY <1>3, <2>2
    <3>. QED BY <2>2, <3>1 DEF Mark, End
  <2>. QED BY <2>1, <2>2
<1>7. End(l) \in Nat
  BY <1>3, <1>5, LineBounds
<1>8. Len(buffer[h] \o wire[h]) = 0
  BY <1>5, <1>6, <1>7 DEF Carries
<1>9. Len(buffer[h] \o wire[h]) = Len(buffer[h]) + Len(wire[h]) /\ Len(buffer[h]) \in Nat /\ Len(wire[h]) \in Nat
  BY <1>3, Joined DEF Joins
<1>10. Len(buffer[h]) = 0
  <2>1. \A a \in Nat, b \in Nat : a + b = 0 => a = 0
    OBVIOUS
  <2>. QED BY <1>8, <1>9, <2>1, Zenon
<1>. QED BY <1>3, <1>10

\* What holds of the whole stream holds of the part of it that has arrived.
LEMMA BeginningAgrees ==
    ASSUME NEW a \in Seq(Byte), NEW b \in Seq(Byte), NEW s, Agrees(a \o b, s)
    PROVE  Agrees(a, s)
<1>1. PICK u : u = a \o b
  OBVIOUS
<1>2. Joins(u, a, b)
  BY <1>1, Joined
<1>3. /\ Len(u) = Len(a) + Len(b) /\ Len(a) \in Nat /\ Len(b) \in Nat
      /\ \A i \in 1 .. Len(a) : u[i] = a[i]
  BY <1>2 DEF Joins
<1>4. ASSUME NEW i \in 1 .. Len(s), i <= Len(a) PROVE a[i] = s[i]
  <2>1. i \in 1 .. Len(a) /\ i <= Len(u)
    BY <1>3, <1>4
  <2>2. u[i] = s[i]
    BY <1>1, <2>1 DEF Agrees
  <2>. QED BY <1>3, <2>1, <2>2
<1>. QED BY <1>4 DEF Agrees

\* What a turn of parse comes to: the next packet as it was sent, when all of it is there.
LEMMA TurnIs ==
    ASSUME TypeOK, NEW h \in Hops, HopInv(h), parsing[h]
    PROVE  /\ ~NextIsThere(h) => Turn(h) = Wait
           /\ NextIsThere(h) => Turn(h) = Parsed(NextEntry(h).packet, Len(NextBytes(h)))
<1>1. PICK l : l = line[h]
  OBVIOUS
<1>2. PICK k : k = SenderKey(h)
  OBVIOUS
<1>3. PICK g : g = Len(got[h])
  OBVIOUS
<1>4. /\ l \in Seq(Entries(Packets)) /\ Len(l) \in Nat /\ g \in Nat /\ session \in Sessions
      /\ buffer[h] \in Seq(Byte) /\ wire[h] \in Seq(Byte) /\ Len(buffer[h]) \in Nat
  BY <1>1, <1>3, HopTypes
<1>5. CASE ~(g < Len(l))
  <2>1. buffer[h] = <<>>
    BY <1>1, <1>3, <1>5, BufferIsEmpty
  <2>2. Turn(h) = Wait
    BY <2>1 DEF Turn, ParseOne
  <2>. QED BY <1>1, <1>3, <1>5, <2>2 DEF NextIsThere
<1>6. CASE g < Len(l)
  <2>1. Serial(l, k) /\ InLine(l, k) /\ Carries(buffer[h] \o wire[h], l, g, k)
    BY <1>1, <1>2, <1>3, <1>4, LineIsSerial DEF HopInv, InStream
  <2>2. PICK e : e = l[g + 1]
    OBVIOUS
  <2>3. PICK s : s = BytesOf(e, k)
    OBVIOUS
  <2>4. e = NextEntry(h) /\ s = NextBytes(h)
    BY <1>1, <1>2, <1>3, <2>2, <2>3 DEF NextEntry, NextBytes
  <2>5. /\ s \in Seq(Byte) /\ Len(s) \in Nat \ {0} /\ Agrees(buffer[h] \o wire[h], s)
        /\ e.from = Mark(l, g) /\ Mark(l, g) \in Nat
    <3>1. Mark(l, g) \in Nat
      <4>1. g \in 0 .. Len(l)
        BY <1>4, <1>6
      <4>. QED BY <1>4, <2>1, <4>1, LineBounds
    <3>. QED BY <1>4, <1>6, <2>1, <2>2, <2>3, <3>1, PacketIsTaken
  <2>6. Agrees(buffer[h], s)
    BY <1>4, <2>5, BeginningAgrees
  <2>7. e.packet \in Packets
    <3>1. e \in Entries(Packets)
      BY <1>4, <1>6, <2>2
    <3>. QED BY <3>1 DEF Entries
  <2>8. IsReadFrom(e.packet, s, ExpectResponses, k)
    BY <1>2, <1>4, <2>3, <2>7, PacketBytes DEF BytesOf
  <2>9. CASE ~(Len(buffer[h]) >= Len(s))
    <3>1. Len(buffer[h]) < Len(s)
      BY <1>4, <2>5, <2>9
    <3>2. Turn(h) = Wait
      BY <1>4, <2>6, <2>8, <3>1 DEF IsReadFrom, Turn
    <3>. QED BY <2>4, <2>9, <3>2 DEF NextIsThere
  <2>10. CASE Len(buffer[h]) >= Len(s)
    <3>1. ASSUME IsEncrypted(e.packet) PROVE parseKey[h] = k
      <4>1. g + 1 \in Unread(h)
        BY <1>1, <1>3, <1>4, <1>6 DEF Unread
      <4>2. l[g + 1].from - Mark(l, g) < Len(buffer[h])
        BY <1>4, <2>2, <2>5, <2>10
      <4>. QED BY <1>1, <1>2, <1>3, <2>2, <3>1, <4>1, <4>2 DEF HopInv, InKey
    <3>2. Turn(h) = Parsed(e.packet, Len(s))
      BY <1>4, <2>6, <2>8, <2>10, <3>1 DEF IsReadFrom, Turn
    <3>. QED BY <1>1, <1>3, <1>6, <2>4, <2>10, <3>2 DEF NextIsThere
  <2>. QED BY <2>9, <2>10
<1>. QED BY <1>5, <1>6

\* The loop over parse ends, and only because a packet is not complete.
LEMMA EndPassKeeps ==
    ASSUME IInv, NEW h \in Hops, EndPass(h)
    PROVE  IInv'
<1>1. TypeOK /\ HopInv(h) /\ parsing[h] /\ Turn(h).at # "packet"
  BY DEF IInv, EndPass
<1>2. ~NextIsThere(h) /\ Turn(h) = Wait
  <2>1. Parsed(NextEntry(h).packet, Len(NextBytes(h))).at = "packet"
    BY DEF Parsed
  <2>. QED BY <1>1, <2>1, TurnIs
<1>3. Turn(h).at = "wait"
  BY <1>2 DEF Wait
<1>4. buffer' = buffer /\ broken' = [broken EXCEPT ![h] = FALSE] /\ parsing' = [parsing EXCEPT ![h] = FALSE]
  <2>1. /\ buffer' = [buffer EXCEPT ![h] = buffer[h]] /\ broken' = [broken EXCEPT ![h] = Turn(h).at = "raise"]
        /\ parsing' = [parsing EXCEPT ![h] = FALSE]
    BY <1>1, <1>3 DEF EndPass, Left, TypeOK
  <2>2. buffer \in [Hops -> Seq(Byte)] /\ ("wait" = "raise") = FALSE
    BY <1>1 DEF TypeOK
  <2>3. buffer' = buffer
    BY <2>1, <2>2
  <2>. QED BY <1>3, <2>1, <2>2, <2>3
<1>5. UNCHANGED <<session, progress, pings, wire, parseKey, key, incoming, line, got>>
  BY DEF EndPass, PassUnchanged
<1>6. TypeOK'
  <2>1. broken' \in [Hops -> BOOLEAN] /\ parsing' \in [Hops -> BOOLEAN]
    BY <1>1, <1>4 DEF TypeOK
  <2>2. Routed' = Routed /\ Packets' = Packets
    BY <1>5, SameSession
  <2>. QED BY <1>1, <1>4, <1>5, <2>1, <2>2 DEF TypeOK
<1>7. parsing'[h] = FALSE /\ broken'[h] = FALSE
  BY <1>1, <1>4 DEF TypeOK
<1>8. InStream(h)'
  BY <1>1, <1>4, <1>5 DEF HopInv, InStream
<1>9. InOrder(h)'
  <2>1. Len(got[h]) < Len(line[h]) => Len(buffer[h]) < Len(NextBytes(h))
    <3>1. ASSUME Len(got[h]) < Len(line[h]) PROVE Len(buffer[h]) < Len(NextBytes(h))
      <4>1. /\ Len(buffer[h]) \in Nat /\ Len(got[h]) \in Nat /\ Len(line[h]) \in Nat
            /\ line[h] \in Seq(Entries(Packets)) /\ session \in Sessions
        BY <1>1, HopTypes
      <4>2. Serial(line[h], SenderKey(h)) /\ Len(got[h]) + 1 \in 1 .. Len(line[h])
        BY <3>1, <4>1, LineIsSerial
      <4>3. Len(NextBytes(h)) \in Nat
        BY <4>2 DEF Serial, NextBytes, NextEntry
      <4>. QED BY <1>2, <3>1, <4>1, <4>3 DEF NextIsThere
    <3>. QED BY <3>1
  <2>. QED BY <1>1, <1>4, <1>5, <1>7, <2>1 DEF HopInv, InOrder, NextBytes, NextEntry
<1>10. InKey(h)'
  BY <1>1, <1>4, <1>5, <1>7 DEF HopInv, InKey, Unread
<1>11. ASSUME NEW o \in Hops PROVE Grows(o)
  <2>1. Items(o)' = Items(o)
    BY <1>5 DEF Items
  <2>. QED BY <1>1, <2>1, ItemsAreFew DEF Grows
<1>12. InTurn(h)'
  BY <1>1, <1>5, <1>11, InTurnStays DEF HopInv
<1>13. Relayed(h)'
  BY <1>1, <1>5, <1>11, RelayedStays DEF HopInv
<1>14. HopInv(h)'
  BY <1>8, <1>9, <1>10, <1>12, <1>13 DEF HopInv
<1>15. ASSUME NEW o \in Hops, o # h PROVE HopInv(o)'
  <2>1. Still(o)
    <3>1. broken \in [Hops -> BOOLEAN] /\ parsing \in [Hops -> BOOLEAN]
      BY <1>1 DEF TypeOK
    <3>. QED BY <1>4, <1>5, <1>15, <3>1 DEF Still
  <2>. QED BY <1>1, <1>11, <2>1, OtherHop DEF IInv
<1>. QED BY <1>6, <1>14, <1>15 DEF IInv

\* What is left of a stream when its beginning is taken out of the buffer.
LEMMA RestJoins ==
    ASSUME NEW a \in Seq(Byte), NEW b \in Seq(Byte), NEW n \in 0 .. Len(a)
    PROVE  SubSeq(a, n + 1, Len(a)) \o b = SubSeq(a \o b, n + 1, Len(a \o b))
<1>1. PICK u : u = a \o b
  OBVIOUS
<1>2. PICK r : r = SubSeq(a, n + 1, Len(a))
  OBVIOUS
<1>3. PICK v : v = SubSeq(u, n + 1, Len(u))
  OBVIOUS
<1>4. PICK w : w = r \o b
  OBVIOUS
<1>5. /\ u \in Seq(Byte) /\ Len(u) = Len(a) + Len(b) /\ Len(a) \in Nat /\ Len(b) \in Nat
      /\ \A i \in 1 .. Len(a) : u[i] = a[i]
      /\ \A i \in 1 .. Len(b) : u[Len(a) + i] = b[i]
  BY <1>1, Joined DEF Joins
<1>6. r \in Seq(Byte) /\ Len(r) = Len(a) - n /\ \A i \in 1 .. Len(a) - n : r[i] = a[n + i]
  BY <1>2, Cut
<1>7. v \in Seq(Byte) /\ Len(v) = Len(u) - n /\ \A i \in 1 .. Len(u) - n : v[i] = u[n + i]
  <2>1. n \in 0 .. Len(u)
    BY <1>5
  <2>. QED BY <1>3, <1>5, <2>1, Cut
<1>8. /\ w \in Seq(Byte) /\ Len(w) = Len(r) + Len(b) /\ Len(r) \in Nat
      /\ \A i \in 1 .. Len(r) : w[i] = r[i]
      /\ \A i \in 1 .. Len(b) : w[Len(r) + i] = b[i]
  BY <1>4, <1>6, Joined DEF Joins
<1>9. Len(w) = Len(v)
  BY <1>5, <1>6, <1>7, <1>8
<1>10. ASSUME NEW i \in 1 .. Len(w) PROVE w[i] = v[i]
  <2>1. CASE i <= Len(r)
    <3>1. i \in 1 .. Len(r) /\ i \in 1 .. Len(a) - n /\ n + i \in 1 .. Len(a) /\ i \in 1 .. Len(u) - n
      BY <1>5, <1>6, <1>8, <2>1
    <3>. QED BY <1>5, <1>6, <1>7, <1>8, <3>1
  <2>2. CASE ~(i <= Len(r))
    <3>1. PICK j : j = i - Len(r)
      OBVIOUS
    <3>2. j \in 1 .. Len(b) /\ i = Len(r) + j /\ n + i = Len(a) + j /\ i \in 1 .. Len(u) - n
      BY <1>5, <1>6, <1>8, <2>2, <3>1
    <3>. QED BY <1>5, <1>7, <1>8, <3>2
  <2>. QED BY <2>1, <2>2
<1>11. w = v
  BY <1>7, <1>8, <1>9, <1>10, SeqEqual
<1>. QED BY <1>1, <1>2, <1>3, <1>4, <1>11

\* The three kinds of packets on a line.
Kept(p, before, n) == ~Forwarded(p) /\ p[1] \notin KeyExchange /\ n = before
Opened(h, p, before, n) ==
    /\ ~Forwarded(p) /\ n = before + 1 /\ n <= OpeningSize
    /\ p[1] \in KeyExchange => p[4][1][2][2] = PublicKey(Private[h].sender)
Passed(h, p, before, n) ==
    /\ Forwarded(p) /\ p[1] \notin KeyExchange /\ p \in Routed
    /\ n = before + 1 /\ n - OpeningSize \in 1 .. Len(Items(h))
    /\ p = Made(h, Items(h)[n - OpeningSize])

\* There are no others.
LEMMA KindsOfPackets ==
    ASSUME IInv, NEW h \in Hops, NEW p, NEW before \in Nat, NEW n \in Nat, NextTurn(h, p, before, n)
    PROVE  Kept(p, before, n) \/ Opened(h, p, before, n) \/ Passed(h, p, before, n)
<1>1. session \in Sessions
  BY DEF IInv, TypeOK
<1>2. CASE IsKeepAlive(p)
  <2>1. p[1] \in {"KeepAliveRequest", "KeepAliveResponse"} /\ n = before
    BY <1>2 DEF NextTurn, IsKeepAlive
  <2>2. {"KeepAliveRequest", "KeepAliveResponse"} \cap (DOMAIN Command \cup KeyExchange) = {}
    BY DEF Command, KeyExchange
  <2>. QED BY <2>1, <2>2 DEF Kept, Forwarded, IsOperation
<1>3. CASE ~IsKeepAlive(p) /\ n <= OpeningSize
  <2>1. n = before + 1 /\ p = Opening(h)[n]
    BY <1>3 DEF NextTurn
  <2>2. n \in 1 .. OpeningSize
    BY <1>3, <2>1 DEF OpeningSize
  <2>3. ~Forwarded(p) /\ (p[1] \in KeyExchange => p[4][1][2][2] = PublicKey(Private[h].sender))
    BY <2>1, <2>2, OpeningIsNotForwarded
  <2>. QED BY <1>3, <2>1, <2>3 DEF Opened
<1>4. CASE ~IsKeepAlive(p) /\ ~(n <= OpeningSize)
  <2>1. PICK i : i = n - OpeningSize
    OBVIOUS
  <2>2. i \in 1 .. Len(Items(h)) /\ p = Made(h, Items(h)[i]) /\ n = before + 1
    BY <1>4, <2>1 DEF NextTurn
  <2>3. p \in Routed
    BY <2>2, ItemsAreRouted
  <2>4. Forwarded(p) /\ p[1] \notin KeyExchange
    BY <1>1, <2>3, RoutedIsNoKeepAlive
  <2>. QED BY <2>1, <2>2, <2>3, <2>4 DEF Passed
<1>. QED BY <1>2, <1>3, <1>4

\* The entry that is read next, and the progress before and after it.
LEMMA NextEntryIs ==
    ASSUME IInv, NEW h \in Hops, Len(got[h]) < Len(line[h]),
           NEW e, e = NextEntry(h), NEW before, before = Progress(line[h], Len(got[h]))
    PROVE  /\ before \in Nat /\ e.progress \in Nat /\ e.packet \in Packets
           /\ e.progress = Progress(line[h], Len(got[h]) + 1)
           /\ Kept(e.packet, before, e.progress) \/ Opened(h, e.packet, before, e.progress)
              \/ Passed(h, e.packet, before, e.progress)
<1>1. PICK l : l = line[h]
  OBVIOUS
<1>2. PICK g : g = Len(got[h])
  OBVIOUS
<1>3. /\ TypeOK /\ l \in Seq(Entries(Packets)) /\ Len(l) \in Nat /\ g \in Nat
  BY <1>1, <1>2, HopTypes DEF IInv
<1>4. g + 1 \in 1 .. Len(l) /\ (g + 1) - 1 = g /\ g + 1 # 0
  BY <1>1, <1>2, <1>3
<1>5. \A i \in 1 .. Len(l) : l[i].progress \in Nat /\ l[i].packet \in Packets
  <2>1. \A i \in 1 .. Len(l) : l[i] \in Entries(Packets)
    BY <1>3
  <2>. QED BY <2>1 DEF Entries
<1>6. e = l[g + 1]
  BY <1>1, <1>2 DEF NextEntry
<1>7. before \in Nat
  <2>1. CASE g = 0
    BY <1>1, <1>2, <2>1 DEF Progress
  <2>2. CASE g # 0
    <3>1. g \in 1 .. Len(l) /\ before = l[g].progress
      BY <1>1, <1>2, <1>3, <1>4, <2>2 DEF Progress
    <3>. QED BY <1>5, <3>1
  <2>. QED BY <2>1, <2>2
<1>8. e.progress \in Nat /\ e.packet \in Packets
  BY <1>4, <1>5, <1>6
<1>9. NextTurn(h, e.packet, before, e.progress)
  BY <1>1, <1>2, <1>4, <1>6 DEF IInv, HopInv, InTurn
<1>10. e.progress = Progress(l, g + 1)
  BY <1>4, <1>6 DEF Progress
<1>11. \/ Kept(e.packet, before, e.progress) \/ Opened(h, e.packet, before, e.progress)
       \/ Passed(h, e.packet, before, e.progress)
  BY <1>7, <1>8, <1>9, KindsOfPackets
<1>. QED BY <1>1, <1>2, <1>7, <1>8, <1>10, <1>11

\* What Handle does, in terms of the packet that was sent.
LEMMA HandleTakesNext ==
    ASSUME IInv, NEW h \in Hops, Handle(h), NEW p, p = NextEntry(h).packet
    PROVE  /\ NextIsThere(h)
           /\ buffer' = [buffer EXCEPT ![h] = SubSeq(buffer[h], Len(NextBytes(h)) + 1, Len(buffer[h]))]
           /\ got' = [got EXCEPT ![h] = Append(got[h], p)]
           /\ key' = IF p[1] \in KeyExchange
                     THEN [key EXCEPT ![h] = SharedKey(p[4][1][2][2], Private[h].receiver)] ELSE key
           /\ incoming' = IF Forwarded(p) THEN [incoming EXCEPT ![h] = Append(incoming[h], p)] ELSE incoming
           /\ UNCHANGED <<session, progress, pings, wire, parsing, parseKey, broken, line>>
<1>1. TypeOK /\ HopInv(h) /\ parsing[h] /\ Turn(h).at = "packet"
  BY DEF IInv, Handle
<1>2. Wait.at # "packet"
  BY DEF Wait
<1>3. NextIsThere(h) /\ Turn(h) = Parsed(p, Len(NextBytes(h)))
  BY <1>1, <1>2, TurnIs
<1>4. Turn(h).packet = p /\ Turn(h).length = Len(NextBytes(h))
  BY <1>3 DEF Parsed
<1>5. /\ buffer \in [Hops -> Seq(Byte)] /\ got \in [Hops -> Seq(Packets)]
      /\ incoming \in [Hops -> Seq(Routed)]
  BY <1>1 DEF TypeOK
<1>6. buffer' = [buffer EXCEPT ![h] = SubSeq(buffer[h], Len(NextBytes(h)) + 1, Len(buffer[h]))]
  BY <1>4, <1>5 DEF Handle
<1>7. got' = [got EXCEPT ![h] = Append(got[h], p)]
  BY <1>4, <1>5 DEF Handle
<1>8. incoming' = IF Forwarded(p) THEN [incoming EXCEPT ![h] = Append(incoming[h], p)] ELSE incoming
  BY <1>4, <1>5 DEF Handle
<1>9. key' = IF p[1] \in KeyExchange
             THEN [key EXCEPT ![h] = SharedKey(p[4][1][2][2], Private[h].receiver)] ELSE key
  BY <1>4 DEF Handle
<1>10. UNCHANGED <<session, progress, pings, wire, parsing, parseKey, broken, line>>
  BY DEF Handle, PassUnchanged
<1>. QED BY <1>3, <1>6, <1>7, <1>8, <1>9, <1>10

\* The next packet is taken off the buffer and handled.
LEMMA HandleKeeps ==
    ASSUME IInv, NEW h \in Hops, Handle(h)
    PROVE  IInv'
<1>1. TypeOK /\ HopInv(h) /\ session \in Sessions
  BY DEF IInv, TypeOK
<1>2. PICK l : l = line[h]
  OBVIOUS
<1>3. PICK k : k = SenderKey(h)
  OBVIOUS
<1>4. PICK g : g = Len(got[h])
  OBVIOUS
<1>5. PICK e : e = NextEntry(h)
  OBVIOUS
<1>6. PICK p : p = e.packet
  OBVIOUS
<1>7. PICK s : s = NextBytes(h)
  OBVIOUS
<1>8. PICK b : b = SubSeq(buffer[h], Len(s) + 1, Len(buffer[h]))
  OBVIOUS
<1>9. /\ NextIsThere(h)
      /\ buffer' = [buffer EXCEPT ![h] = b] /\ got' = [got EXCEPT ![h] = Append(got[h], p)]
      /\ key' = IF p[1] \in KeyExchange
                THEN [key EXCEPT ![h] = SharedKey(p[4][1][2][2], Private[h].receiver)] ELSE key
      /\ incoming' = IF Forwarded(p) THEN [incoming EXCEPT ![h] = Append(incoming[h], p)] ELSE incoming
      /\ UNCHANGED <<session, progress, pings, wire, parsing, parseKey, broken, line>>
  BY <1>5, <1>6, <1>7, <1>8, HandleTakesNext
<1>10. /\ l \in Seq(Entries(Packets)) /\ Len(l) \in Nat /\ g \in Nat /\ g < Len(l)
       /\ buffer[h] \in Seq(Byte) /\ wire[h] \in Seq(Byte) /\ Len(buffer[h]) \in Nat /\ Len(buffer[h]) >= Len(s)
       /\ got[h] \in Seq(Packets) /\ incoming[h] \in Seq(Routed) /\ Len(incoming[h]) \in Nat
  BY <1>1, <1>2, <1>4, <1>7, <1>9, HopTypes DEF NextIsThere
<1>11. e = l[g + 1] /\ s = BytesOf(l[g + 1], k)
  BY <1>2, <1>3, <1>4, <1>5, <1>7 DEF NextEntry, NextBytes
<1>12. Serial(l, k) /\ InLine(l, k) /\ Carries(buffer[h] \o wire[h], l, g, k)
  BY <1>1, <1>2, <1>3, <1>4, <1>10, LineIsSerial DEF HopInv, InStream
<1>13. /\ s \in Seq(Byte) /\ Len(s) \in Nat \ {0} /\ Mark(l, g + 1) = Mark(l, g) + Len(s)
       /\ Carries(SubSeq(buffer[h] \o wire[h], Len(s) + 1, Len(buffer[h] \o wire[h])), l, g + 1, k)
  <2>1. PICK u : u = buffer[h] \o wire[h]
    OBVIOUS
  <2>2. Carries(u, l, g, k)
    BY <1>12, <2>1
  <2>3. /\ s \in Seq(Byte) /\ Len(s) \in Nat \ {0} /\ Mark(l, g + 1) = Mark(l, g) + Len(s)
        /\ Carries(SubSeq(u, Len(s) + 1, Len(u)), l, g + 1, k)
    BY <1>10, <1>11, <1>12, <2>2, PacketIsTaken
  <2>. QED BY <2>1, <2>3
<1>14. Len(s) \in 0 .. Len(buffer[h])
  BY <1>10, <1>13
<1>15. b \in Seq(Byte) /\ Len(b) = Len(buffer[h]) - Len(s)
  BY <1>8, <1>10, <1>14, Cut
<1>16. Carries(b \o wire[h], l, g + 1, k)
  BY <1>8, <1>10, <1>13, <1>14, RestJoins
<1>17. PICK before : before = Progress(l, g)
  OBVIOUS
<1>18. PICK n : n = e.progress
  OBVIOUS
<1>19. /\ before \in Nat /\ n \in Nat /\ p \in Packets /\ n = Progress(l, g + 1)
       /\ Kept(p, before, n) \/ Opened(h, p, before, n) \/ Passed(h, p, before, n)
  BY <1>2, <1>4, <1>5, <1>6, <1>10, <1>17, <1>18, NextEntryIs
<1>20. buffer'[h] = b /\ buffer' \in [Hops -> Seq(Byte)]
  BY <1>1, <1>9, <1>15 DEF TypeOK
<1>21. PICK t : t = got'[h]
  OBVIOUS
<1>22. /\ t \in Seq(Packets) /\ Len(t) = g + 1 /\ t[g + 1] = p
       /\ \A i \in 1 .. g : t[i] = got[h][i]
  <2>1. t = Append(got[h], p)
    BY <1>1, <1>9, <1>21 DEF TypeOK
  <2>. QED BY <1>4, <1>10, <1>19, <2>1, AppendProperties
<1>23. got' \in [Hops -> Seq(Packets)]
  <2>1. Append(got[h], p) \in Seq(Packets)
    BY <1>10, <1>19, AppendProperties
  <2>. QED BY <1>1, <1>9, <2>1 DEF TypeOK
<1>24. key'[h] \in {0, k} /\ key' \in [Hops -> 0 .. 255] /\ (key[h] = k => key'[h] = k)
  <2>1. k \in 0 .. 255 /\ key[h] \in {0, k} /\ key \in [Hops -> 0 .. 255]
    <3>1. k \in 0 .. 255
      BY <1>3, KeyOfSender
    <3>2. key[h] \in {0, k}
      BY <1>1, <1>3 DEF HopInv, InKey
    <3>3. key \in [Hops -> 0 .. 255]
      BY <1>1 DEF TypeOK
    <3>. QED BY <3>1, <3>2, <3>3
  <2>2. CASE p[1] \in KeyExchange
    <3>1. p[4][1][2][2] = PublicKey(Private[h].sender)
      BY <1>19, <2>2 DEF Kept, Opened, Passed
    <3>2. SharedKey(p[4][1][2][2], Private[h].receiver) = k
      BY <1>3, <3>1, KeyAssumption
    <3>3. key' = [key EXCEPT ![h] = k]
      BY <1>9, <2>2, <3>2
    <3>. QED BY <2>1, <3>3
  <2>3. CASE p[1] \notin KeyExchange
    BY <1>9, <2>1, <2>3
  <2>. QED BY <2>2, <2>3
<1>25. PICK c : c = incoming'[h]
  OBVIOUS
<1>26. Forwarded(p) => p \in Routed
  BY <1>19 DEF Kept, Opened, Passed
<1>27. /\ Forwarded(p) =>
            /\ Len(c) = Len(incoming[h]) + 1 /\ c[Len(incoming[h]) + 1] = p
            /\ \A i \in 1 .. Len(incoming[h]) : c[i] = incoming[h][i]
       /\ ~Forwarded(p) => c = incoming[h]
       /\ c \in Seq(Routed) /\ incoming' \in [Hops -> Seq(Routed)]
       /\ \A o \in Hops : o # h => incoming'[o] = incoming[o]
  <2>1. incoming \in [Hops -> Seq(Routed)]
    BY <1>1 DEF TypeOK
  <2>2. CASE Forwarded(p)
    <3>1. PICK d : d = Append(incoming[h], p)
      OBVIOUS
    <3>2. /\ d \in Seq(Routed) /\ Len(d) = Len(incoming[h]) + 1 /\ d[Len(incoming[h]) + 1] = p
          /\ \A i \in 1 .. Len(incoming[h]) : d[i] = incoming[h][i]
      BY <1>10, <1>26, <2>2, <3>1, AppendProperties
    <3>3. incoming' = [incoming EXCEPT ![h] = d]
      BY <1>9, <2>2, <3>1
    <3>4. c = d
      BY <1>25, <2>1, <3>3
    <3>. QED BY <2>1, <2>2, <3>2, <3>3, <3>4
  <2>3. CASE ~Forwarded(p)
    BY <1>9, <1>10, <1>25, <2>1, <2>3
  <2>. QED BY <2>2, <2>3
<1>28. TypeOK'
  <2>1. Routed' = Routed /\ Packets' = Packets
    BY <1>9, SameSession
  <2>. QED BY <1>1, <1>9, <1>20, <1>23, <1>24, <1>27, <2>1 DEF TypeOK
<1>29. InStream(h)'
  BY <1>2, <1>3, <1>9, <1>12, <1>16, <1>20, <1>21, <1>22 DEF InStream
<1>30. InOrder(h)'
  <2>1. ~broken[h] /\ \A i \in 1 .. g : got[h][i] = l[i].packet
    BY <1>1, <1>2, <1>4 DEF HopInv, InOrder
  <2>2. parsing[h]
    BY DEF Handle
  <2>3. ASSUME NEW i \in 1 .. g + 1 PROVE t[i] = l[i].packet
    <3>1. CASE i = g + 1
      BY <1>6, <1>11, <1>22, <3>1
    <3>2. CASE i \in 1 .. g
      BY <1>22, <2>1, <3>2
    <3>. QED BY <1>10, <3>1, <3>2
  <2>4. g + 1 <= Len(l)
    BY <1>10
  <2>. QED BY <1>2, <1>9, <1>21, <1>22, <2>1, <2>2, <2>3, <2>4 DEF InOrder
<1>31. InKey(h)'
  <2>1. ASSUME NEW i \in (g + 1) + 1 .. Len(l), IsEncrypted(l[i].packet)
        PROVE  /\ key'[h] = k
               /\ parsing[h] /\ l[i].from - Mark(l, g + 1) < Len(b) => parseKey[h] = k
    <3>1. i \in Unread(h) /\ i \in 1 .. Len(l)
      BY <1>2, <1>4, <1>10, <2>1 DEF Unread
    <3>2. key[h] = k /\ (parsing[h] /\ l[i].from - Mark(l, g) < Len(buffer[h]) => parseKey[h] = k)
      BY <1>1, <1>2, <1>3, <1>4, <2>1, <3>1 DEF HopInv, InKey
    <3>3. l[i].from \in Nat /\ Mark(l, g) \in Nat
      <4>1. g \in 0 .. Len(l)
        BY <1>10
      <4>. QED BY <1>10, <1>12, <3>1, <4>1, LineBounds
    <3>4. l[i].from - Mark(l, g + 1) < Len(b) => l[i].from - Mark(l, g) < Len(buffer[h])
      <4>1. \A x \in Nat, m \in Nat, a \in Nat, z \in Nat : x - (m + a) < z - a => x - m < z
        OBVIOUS
      <4>2. Len(b) = Len(buffer[h]) - Len(s) /\ Len(buffer[h]) \in Nat /\ Len(s) \in Nat
        BY <1>10, <1>13, <1>15
      <4>. QED BY <1>13, <3>3, <4>1, <4>2
    <3>. QED BY <1>24, <3>2, <3>4
  <2>. QED BY <1>2, <1>3, <1>9, <1>20, <1>21, <1>22, <1>24, <2>1 DEF InKey, Unread
<1>32. Items(h)' = Items(h)
  <2>1. CASE h = "first"
    BY <1>9, <2>1 DEF Items
  <2>2. CASE h = "second"
    BY <1>9, <1>27, <2>2 DEF Items, Hops
  <2>. QED BY <2>1, <2>2 DEF Hops
<1>33. Grows(h)
  BY <1>1, <1>32, ItemsAreFew DEF Grows
<1>34. InTurn(h)'
  BY <1>1, <1>9, <1>33, InTurnStays DEF HopInv
<1>35. PICK items : items = Items(h)
  OBVIOUS
<1>36. /\ Len(incoming[h]) = IF before <= OpeningSize THEN 0 ELSE before - OpeningSize
       /\ Len(incoming[h]) <= Len(items) /\ Len(items) \in Nat
       /\ \A i \in 1 .. Len(incoming[h]) : incoming[h][i] = Made(h, items[i])
  BY <1>1, <1>2, <1>4, <1>17, <1>35, ItemsAreFew DEF HopInv, Relayed
<1>37. /\ Len(c) = IF n <= OpeningSize THEN 0 ELSE n - OpeningSize
       /\ Len(c) <= Len(items)
       /\ \A i \in 1 .. Len(c) : c[i] = Made(h, items[i])
  <2>1. CASE Kept(p, before, n)
    BY <1>27, <1>36, <2>1 DEF Kept
  <2>2. CASE Opened(h, p, before, n)
    <3>1. n <= OpeningSize /\ before <= OpeningSize /\ c = incoming[h]
      BY <1>19, <1>27, <2>2 DEF Opened, OpeningSize
    <3>. QED BY <1>36, <3>1
  <2>3. CASE Passed(h, p, before, n)
    <3>1. PICK j : j = n - OpeningSize
      OBVIOUS
    <3>2. j \in 1 .. Len(items) /\ p = Made(h, items[j]) /\ n = before + 1 /\ Forwarded(p)
      BY <1>35, <2>3, <3>1 DEF Passed
    <3>3. Len(incoming[h]) + 1 = j /\ ~(n <= OpeningSize)
      BY <1>19, <1>36, <3>1, <3>2 DEF OpeningSize
    <3>4. Len(c) = j /\ c[j] = p /\ \A i \in 1 .. Len(incoming[h]) : c[i] = incoming[h][i]
      BY <1>27, <3>2, <3>3
    <3>5. ASSUME NEW i \in 1 .. Len(c) PROVE c[i] = Made(h, items[i])
      <4>1. i = j \/ i \in 1 .. Len(incoming[h])
        BY <1>10, <1>36, <3>2, <3>3, <3>4
      <4>. QED BY <1>36, <3>2, <3>4, <4>1
    <3>. QED BY <1>36, <3>1, <3>2, <3>3, <3>4, <3>5
  <2>. QED BY <1>19, <2>1, <2>2, <2>3
<1>38. Relayed(h)'
  <2>1. \A i \in 1 .. Len(c) : c[i] = Made(h, items[i])'
    <3>1. ASSUME NEW i \in 1 .. Len(c) PROVE c[i] = Made(h, items[i])'
      <4>1. PICK q : q = items[i]
        OBVIOUS
      <4>2. Made(h, q)' = Made(h, q)
        BY <1>9, SameMade
      <4>. QED BY <1>9, <1>37, <4>1, <4>2 DEF Made, Requests, Hijacked
    <3>. QED BY <3>1
  <2>. QED BY <1>2, <1>9, <1>19, <1>21, <1>22, <1>25, <1>32, <1>35, <1>37, <2>1 DEF Relayed
<1>39. HopInv(h)'
  BY <1>29, <1>30, <1>31, <1>34, <1>38 DEF HopInv
<1>40. ASSUME NEW o \in Hops, o # h PROVE HopInv(o)'
  <2>1. Still(o)
    <3>1. /\ buffer \in [Hops -> Seq(Byte)] /\ got \in [Hops -> Seq(Packets)] /\ key \in [Hops -> 0 .. 255]
      BY <1>1 DEF TypeOK
    <3>2. buffer'[o] = buffer[o] /\ got'[o] = got[o] /\ key'[o] = key[o] /\ incoming'[o] = incoming[o]
      BY <1>9, <1>27, <1>40, <3>1
    <3>. QED BY <1>9, <3>2 DEF Still
  <2>2. Grows(o)
    <3>1. CASE o = "first"
      <4>1. Items(o)' = Items(o)
        BY <1>9, <3>1 DEF Items
      <4>. QED BY <1>1, <4>1, ItemsAreFew DEF Grows
    <3>2. CASE o = "second"
      <4>1. h = "first" /\ Items(o) = incoming[h] /\ Items(o)' = c
        BY <1>25, <1>40, <3>2 DEF Hops, Items
      <4>2. /\ Len(c) \in Nat /\ Len(incoming[h]) <= Len(c)
            /\ \A i \in 1 .. Len(incoming[h]) : c[i] = incoming[h][i]
        BY <1>10, <1>27
      <4>. QED BY <1>10, <4>1, <4>2 DEF Grows
    <3>. QED BY <3>1, <3>2 DEF Hops
  <2>. QED BY <1>1, <2>1, <2>2, OtherHop DEF IInv
<1>. QED BY <1>28, <1>39, <1>40 DEF IInv

-----------------------------------------------------------------------------
(* Behaviours.                                                             *)

\* Nothing has been sent.
LEMMA InitKeeps ==
    ASSUME Init
    PROVE  IInv
<1>1. /\ \A h \in Hops :
            /\ progress[h] = 0 /\ wire[h] = <<>> /\ buffer[h] = <<>> /\ parsing[h] = FALSE
            /\ key[h] = 0 /\ broken[h] = FALSE /\ incoming[h] = <<>> /\ line[h] = <<>> /\ got[h] = <<>>
  BY DEF Init
<1>2. TypeOK
  <2>1. \A S : <<>> \in Seq(S)
    OBVIOUS
  <2>2. /\ wire \in [Hops -> Seq(Byte)] /\ buffer \in [Hops -> Seq(Byte)]
        /\ incoming \in [Hops -> Seq(Routed)] /\ got \in [Hops -> Seq(Packets)]
        /\ line \in [Hops -> Seq(Entries(Packets))]
    BY <2>1 DEF Init
  <2>3. /\ progress \in [Hops -> Nat] /\ parsing \in [Hops -> BOOLEAN] /\ broken \in [Hops -> BOOLEAN]
        /\ key \in [Hops -> 0 .. 255] /\ parseKey \in [Hops -> 0 .. 255]
    BY DEF Init
  <2>4. session \in Sessions /\ pings \in Nat
    BY DEF Init
  <2>. QED BY <2>2, <2>3, <2>4 DEF TypeOK
<1>3. ASSUME NEW h \in Hops PROVE HopInv(h)
  <2>1. /\ wire[h] = <<>> /\ buffer[h] = <<>> /\ line[h] = <<>> /\ got[h] = <<>> /\ incoming[h] = <<>>
        /\ ~parsing[h] /\ ~broken[h] /\ key[h] = 0 /\ progress[h] = 0
    BY <1>1
  <2>2. PICK l : l = line[h]
    OBVIOUS
  <2>3. Len(l) = 0 /\ 1 .. Len(l) = {} /\ 0 + 1 .. Len(l) = {} /\ End(l) = 0 /\ Mark(l, 0) = 0
    BY <2>1, <2>2 DEF End, Mark
  <2>4. Len(got[h]) = 0 /\ Len(incoming[h]) = 0 /\ 1 .. 0 = {}
    BY <2>1
  <2>5. InLine(l, SenderKey(h))
    BY <2>3 DEF InLine
  <2>6. <<>> \o <<>> \in Seq(Byte) /\ Len(<<>> \o <<>>) = 0
    <3>1. <<>> \in Seq(Byte) /\ Len(<<>>) = 0
      OBVIOUS
    <3>. QED BY <3>1, Joined DEF Joins
  <2>7. Carries(<<>> \o <<>>, l, 0, SenderKey(h))
    BY <2>3, <2>6 DEF Carries
  <2>8. InStream(h)
    BY <2>1, <2>2, <2>4, <2>5, <2>7 DEF InStream
  <2>9. InOrder(h)
    BY <2>1, <2>2, <2>3, <2>4 DEF InOrder
  <2>10. InKey(h)
    BY <2>1, <2>2, <2>3, <2>4 DEF InKey, Unread
  <2>11. InTurn(h)
    BY <2>1, <2>2, <2>3 DEF InTurn, Progress
  <2>12. Relayed(h)
    <3>1. Progress(line[h], Len(got[h])) = 0
      BY <2>4 DEF Progress
    <3>2. Len(Items(h)) \in Nat
      BY <1>2, ItemsAreFew
    <3>. QED BY <2>4, <3>1, <3>2 DEF Relayed, OpeningSize
  <2>. QED BY <2>8, <2>9, <2>10, <2>11, <2>12 DEF HopInv
<1>. QED BY <1>2, <1>3 DEF IInv

\* Nothing happens.
LEMMA StutterKeeps ==
    ASSUME IInv, UNCHANGED vars
    PROVE  IInv'
<1>1. TypeOK
  BY DEF IInv
<1>2. TypeOK'
  <2>1. Routed' = Routed /\ Packets' = Packets
    BY SameSession DEF vars
  <2>. QED BY <1>1, <2>1 DEF TypeOK, vars
<1>3. ASSUME NEW o \in Hops PROVE HopInv(o)'
  <2>1. Still(o)
    BY DEF Still, vars
  <2>2. Items(o)' = Items(o)
    BY DEF Items, vars
  <2>3. Grows(o)
    BY <1>1, <2>2, ItemsAreFew DEF Grows
  <2>. QED BY <1>1, <2>1, <2>3, OtherHop DEF IInv
<1>. QED BY <1>2, <1>3 DEF IInv

\* In all states of the machine the invariant of both hops holds.
THEOREM Invariance == Spec => []IInv
<1>1. IInv /\ [Next]_vars => IInv'
  <2>1. ASSUME IInv, NEW h \in Hops,
               SendOpening(h) \/ SendItem(h) \/ SendKeepAlive(h) \/ Receive(h) \/ EndPass(h) \/ Handle(h)
        PROVE  IInv'
    <3>1. CASE SendOpening(h)
      BY <2>1, <3>1, SendOpeningKeeps
    <3>2. CASE SendItem(h)
      BY <2>1, <3>2, SendItemKeeps
    <3>3. CASE SendKeepAlive(h)
      BY <2>1, <3>3, SendKeepAliveKeeps
    <3>4. CASE Receive(h)
      BY <2>1, <3>4, ReceiveKeeps
    <3>5. CASE EndPass(h)
      BY <2>1, <3>5, EndPassKeeps
    <3>6. CASE Handle(h)
      BY <2>1, <3>6, HandleKeeps
    <3>. QED BY <2>1, <3>1, <3>2, <3>3, <3>4, <3>5, <3>6
  <2>2. ASSUME IInv, UNCHANGED vars PROVE IInv'
    BY <2>2, StutterKeeps
  <2>. QED BY <2>1, <2>2 DEF Next
<1>. QED BY <1>1, InitKeeps, PTL DEF Spec

-----------------------------------------------------------------------------
(* What follows.                                                           *)

\* A receiver reads what the sender had in hand, whatever is sent and however it is cut.
THEOREM PacketsReadAsSent == Spec => []ReadAsSent
<1>1. IInv => ReadAsSent
  <2>1. ASSUME IInv, NEW h \in Hops
        PROVE  /\ Len(got[h]) <= Len(line[h])
               /\ \A i \in DOMAIN got[h] : got[h][i] = line[h][i].packet
    <3>1. got[h] \in Seq(Packets)
      BY <2>1, HopTypes DEF IInv
    <3>2. DOMAIN got[h] = 1 .. Len(got[h])
      BY <3>1
    <3>. QED BY <2>1, <3>2 DEF IInv, HopInv, InOrder
  <2>. QED BY <2>1 DEF ReadAsSent
<1>. QED BY <1>1, Invariance, PTL

\* What lies in the stream of a packet that is unread are its bytes.
LEMMA UnreadBytes ==
    ASSUME NEW l \in Seq(Entries(Packets)), NEW k, InLine(l, k), Serial(l, k),
           NEW g \in 0 .. Len(l), NEW u, Carries(u, l, g, k), NEW i \in g + 1 .. Len(l)
    PROVE  SubSeq(u, l[i].from - Mark(l, g) + 1, l[i].to - Mark(l, g)) = BytesOf(l[i], k)
<1>1. PICK b : b = BytesOf(l[i], k)
  OBVIOUS
<1>2. PICK a : a = l[i].from - Mark(l, g)
  OBVIOUS
<1>3. Len(l) \in Nat /\ i \in 1 .. Len(l)
  BY LineBounds
<1>4. b \in Seq(Byte) /\ Len(b) \in Nat
  BY <1>1, <1>3 DEF Serial
<1>5. /\ l[i].from \in Nat /\ Mark(l, g) \in Nat /\ Mark(l, g) <= l[i].from /\ End(l) \in Nat
      /\ l[i].to <= End(l) /\ l[i].to = l[i].from + Len(b)
  <2>1. l[i].to = l[i].from + Len(b)
    BY <1>1, <1>3 DEF InLine
  <2>. QED BY <1>3, <2>1, LineBounds
<1>6. u \in Seq(Byte) /\ Len(u) = End(l) - Mark(l, g) /\ \A j \in 1 .. Len(b) : u[a + j] = b[j]
  BY <1>1, <1>2 DEF Carries
<1>7. a \in Nat /\ a + Len(b) <= Len(u) /\ l[i].to - Mark(l, g) = a + Len(b)
  <2>1. \A x \in Nat, m \in Nat, n \in Nat, z \in Nat : m <= x /\ x + n <= z =>
            x - m \in Nat /\ (x - m) + n <= z - m /\ (x + n) - m = (x - m) + n
    OBVIOUS
  <2>. QED BY <1>2, <1>4, <1>5, <1>6, <2>1, SMTT(20)
<1>8. SubSeq(u, a + 1, a + Len(b)) = b
  BY <1>4, <1>6, <1>7, SubSeqInside
<1>. QED BY <1>1, <1>2, <1>7, <1>8

\* A parser stands between packets, nothing has made it raise, and it does not wait for more
\* than the packet that it has.
THEOREM ParserInSync == Spec => []InSync
<1>1. ASSUME IInv, NEW h \in Hops, NEW u, u = buffer[h] \o wire[h]
      PROVE  /\ ~broken[h]
             /\ Len(u) = Sent(h) - Taken(h)
             /\ \A i \in Len(got[h]) + 1 .. Len(line[h]) :
                 SubSeq(u, line[h][i].from - Taken(h) + 1, line[h][i].to - Taken(h))
                     = Serialize(line[h][i].packet, <<>>, SenderKey(h))
             /\ wire[h] = <<>> /\ ~parsing[h] => Len(got[h]) = Len(line[h])
  <2>1. TypeOK /\ HopInv(h) /\ session \in Sessions
    BY <1>1 DEF IInv, TypeOK
  <2>2. PICK l : l = line[h]
    OBVIOUS
  <2>3. PICK g : g = Len(got[h])
    OBVIOUS
  <2>4. PICK k : k = SenderKey(h)
    OBVIOUS
  <2>5. /\ l \in Seq(Entries(Packets)) /\ Len(l) \in Nat /\ g \in Nat
        /\ buffer[h] \in Seq(Byte) /\ wire[h] \in Seq(Byte) /\ got[h] \in Seq(Packets)
    BY <2>1, <2>2, <2>3, HopTypes
  <2>6. g <= Len(l) /\ ~broken[h]
    BY <2>1, <2>2, <2>3 DEF HopInv, InOrder
  <2>7. InLine(l, k) /\ Serial(l, k) /\ Carries(u, l, g, k)
    BY <1>1, <2>1, <2>2, <2>3, <2>4, <2>5, LineIsSerial DEF HopInv, InStream
  <2>8. Sent(h) = End(l)
    BY <2>2 DEF Sent, End
  <2>9. Taken(h) = Mark(l, g)
    <3>1. got[h] = <<>> <=> g = 0
      BY <2>3, <2>5
    <3>. QED BY <2>2, <2>3, <3>1 DEF Taken, Mark
  <2>10. Len(u) = Sent(h) - Taken(h)
    BY <2>7, <2>8, <2>9 DEF Carries
  <2>11. ASSUME NEW i \in g + 1 .. Len(l)
         PROVE  SubSeq(u, l[i].from - Taken(h) + 1, l[i].to - Taken(h)) = Serialize(l[i].packet, <<>>, k)
    <3>1. g \in 0 .. Len(l)
      BY <2>5, <2>6
    <3>. QED BY <2>5, <2>7, <2>9, <3>1, UnreadBytes DEF BytesOf
  <2>12. ASSUME wire[h] = <<>>, ~parsing[h] PROVE g = Len(l)
    <3>1. SUFFICES ASSUME g < Len(l) PROVE FALSE
      BY <2>5, <2>6
    <3>2. PICK s : s = BytesOf(l[g + 1], k)
      OBVIOUS
    <3>3. Len(s) \in Nat /\ Len(s) <= Len(u)
      BY <2>5, <2>7, <3>1, <3>2, PacketIsTaken
    <3>4. Len(buffer[h]) < Len(s)
      BY <2>1, <2>2, <2>3, <2>4, <2>12, <3>1, <3>2 DEF HopInv, InOrder
    <3>5. Len(u) = Len(buffer[h]) + Len(wire[h]) /\ Len(buffer[h]) \in Nat /\ Len(wire[h]) = 0
      <4>1. Joins(u, buffer[h], wire[h]) /\ Len(wire[h]) = 0
        BY <1>1, <2>5, <2>12, Joined
      <4>. QED BY <4>1 DEF Joins
    <3>. QED BY <3>3, <3>4, <3>5
  <2>. QED BY <2>2, <2>3, <2>4, <2>6, <2>10, <2>11, <2>12
<1>2. IInv => InSync
  BY <1>1 DEF InSync
<1>. QED BY <1>2, Invariance, PTL

\* Operations come through the proxy in order, none missing, changed in nothing but an address,
\* and the address at which a client goes on is the proxy's.
THEOREM ClientKeptOnProxy == Spec => []ClientStaysOnProxy
<1>1. ASSUME IInv, NEW i \in DOMAIN incoming["second"],
             NEW sent, sent = session.items[i], NEW read, read = incoming["second"][i]
      PROVE  /\ i \in DOMAIN session.items /\ SameButAddress(sent, read)
             /\ ~Requests => IsOurs(sent, read, session.server)
  <2>1. TypeOK /\ session \in Sessions /\ "second" \in Hops /\ HopInv("second")
    BY <1>1 DEF IInv, TypeOK, Hops
  <2>2. incoming["second"] \in Seq(Routed) /\ Len(Items("second")) \in Nat
    BY <2>1, HopTypes, ItemsAreFew
  <2>3. i \in 1 .. Len(incoming["second"]) /\ Len(incoming["second"]) \in Nat
    BY <1>1, <2>2
  <2>4. i \in 1 .. Len(Items("second")) /\ read = Made("second", Items("second")[i])
    BY <1>1, <2>1, <2>2, <2>3 DEF HopInv, Relayed
  <2>5. i \in DOMAIN session.items /\ Items("second")[i] = sent
    BY <1>1, <2>1, <2>4, ItemsAreRouted
  <2>6. CASE Requests
    BY <2>4, <2>5, <2>6, SameIsSame DEF Made
  <2>7. CASE ~Requests
    <3>1. read = Hijacked(sent, session.server)
      BY <2>4, <2>5, <2>7 DEF Made
    <3>2. IsOurs(sent, read, session.server)
      BY <1>1, <2>1, <2>5, <3>1, HijackedItem
    <3>. QED BY <2>5, <3>2 DEF IsOurs
  <2>. QED BY <2>6, <2>7
<1>2. IInv => ClientStaysOnProxy
  BY <1>1 DEF ClientStaysOnProxy, IsOurs
<1>. QED BY <1>2, Invariance, PTL

=============================================================================
