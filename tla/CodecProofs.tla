------------------------------ MODULE CodecProofs ------------------------------
(***************************************************************************)
(* The codecs for byte strings of every length: what one library packs the *)
(* other one reads back, URLs match as documented, a key is found where it *)
(* is first, and a container is a map. And the frames of the host: an      *)
(* install is answered once at most.                                       *)
(***************************************************************************)
EXTENDS RestfulCalls, AttrContainer, HostLink, SequenceLemmas

Byte   == 0 .. 255
Word16 == {n \in Nat : n < 65536}
Word32 == {n \in Nat : n < 65536 * 65536}

\* The values the fields of a packet have room for. A string ends at its first 0, and the
\* size of a packet is an int.
Request ==
  {r \in [action : Byte, fmt : Word16, mid : Word32, sender : Word32,
          url : Seq(1 .. 255), payload : Seq(Byte)] :
     /\ Len(r.url) + 1 \in Word16
     /\ RequestFixPart + Len(r.url) + 1 + Len(r.payload) < 65536 * 32768}
Response ==
  {r \in [status : Byte, fmt : Word16, mid : Word32, reciever : Word32,
          payload : Seq(Byte)] :
     ResponseFixPart + Len(r.payload) < 65536 * 32768}

\* Where the elements of two sequences are when they are put together.
LEMMA Joined ==
  ASSUME NEW S, NEW s \in Seq(S), NEW t \in Seq(S)
  PROVE  s \o t \in Seq(S) /\ Len(s \o t) = Len(s) + Len(t)
BY ConcatProperties

LEMMA JoinedFirst ==
  ASSUME NEW S, NEW s \in Seq(S), NEW t \in Seq(S), NEW i \in 1 .. Len(s)
  PROVE  (s \o t)[i] = s[i]
<1>1. i \in 1 .. Len(s) + Len(t) /\ i <= Len(s)
  OBVIOUS
<1>2. QED
  BY <1>1, ConcatProperties

LEMMA JoinedSecond ==
  ASSUME NEW S, NEW s \in Seq(S), NEW t \in Seq(S), NEW i \in 1 .. Len(t)
  PROVE  (s \o t)[Len(s) + i] = t[i]
<1>1. /\ Len(s) + i \in 1 .. Len(s) + Len(t)
      /\ ~(Len(s) + i <= Len(s)) /\ Len(s) + i - Len(s) = i
  OBVIOUS
<1>2. QED
  BY <1>1, ConcatProperties

-----------------------------------------------------------------------------
(* Numbers on the wire.                                                    *)

LEMMA Offsets ==
  0 + 1 = 1 /\ 0 + 2 = 2 /\ 2 + 1 = 3 /\ 2 + 2 = 4 /\ 4 + 1 = 5 /\ 4 + 2 = 6 /\ 6 + 1 = 7
  /\ 6 + 2 = 8 /\ 8 + 1 = 9 /\ 8 + 2 = 10 /\ 10 + 1 = 11 /\ 10 + 2 = 12 /\ 12 + 1 = 13
  /\ 12 + 2 = 14 /\ 14 + 1 = 15 /\ 14 + 2 = 16 /\ 16 + 1 = 17 /\ 16 + 2 = 18
OBVIOUS

LEMMA Quotients ==
  ASSUME NEW q \in Nat, NEW r \in Nat
  PROVE  /\ q * 65536 + r < 65536 * 65536 => q < 65536
         /\ q * 256 + r < 65536 => q <= 255
         /\ q <= 255 => q % 256 = q
OBVIOUS

LEMMA Room ==
  ASSUME NEW a \in Nat, NEW b \in Nat, RequestFixPart + a + 1 + b < 65536 * 32768
  PROVE  b < 65536 * 65536
BY DEF RequestFixPart

LEMMA ResponseRoom ==
  ASSUME NEW b \in Nat, ResponseFixPart + b < 65536 * 32768
  PROVE  b < 65536 * 65536
BY DEF ResponseFixPart

LEMMA HighLow ==
  ASSUME NEW n \in Nat
  PROVE  /\ n % 65536 \in Nat /\ n % 65536 < 65536 /\ n \div 65536 \in Nat
         /\ n = (n \div 65536) * 65536 + (n % 65536)
         /\ n % 256 \in Nat /\ n % 256 <= 255 /\ n \div 256 \in Nat
         /\ n = (n \div 256) * 256 + (n % 256)
OBVIOUS

LEMMA Halves ==
  ASSUME NEW n \in Word32
  PROVE  /\ n \in Nat /\ n % 65536 \in Word16 /\ n \div 65536 \in Word16
         /\ n = (n \div 65536) * 65536 + (n % 65536)
<1> DEFINE q == n \div 65536
           r == n % 65536
<1>1. n \in Nat /\ n < 65536 * 65536
  BY DEF Word32
<1>2. q \in Nat /\ r \in Nat /\ r < 65536 /\ n = q * 65536 + r
  BY <1>1, HighLow
<1> HIDE DEF q, r
<1>3. q < 65536
  BY <1>1, <1>2, Quotients
<1>4. q \in Word16 /\ r \in Word16
  BY <1>2, <1>3 DEF Word16
<1>5. QED
  BY <1>1, <1>2, <1>4 DEF q, r

LEMMA TwoBytes ==
  ASSUME NEW n \in Nat
  PROVE  /\ Bytes2(n) \in Seq(Byte) /\ Len(Bytes2(n)) = 2
         /\ n \in Word16 => Number2(Bytes2(n), 0) = n
<1> DEFINE q == n \div 256
           b == q % 256
           r == n % 256
<1>1. q \in Nat /\ r \in Nat /\ r <= 255 /\ n = q * 256 + r
  BY HighLow
<1>2. Bytes2(n) = <<b, r>>
  BY DEF Bytes2
<1> HIDE DEF q, r
<1>3. b \in Nat /\ b <= 255
  BY <1>1, HighLow
<1>4. n \in Word16 => b = q
  BY <1>1, Quotients DEF Word16
<1> HIDE DEF b
<1>5. b \in Byte /\ r \in Byte
  BY <1>1, <1>3 DEF Byte
<1>6. <<b, r>> \in Seq(Byte) /\ Len(<<b, r>>) = 2 /\ Number2(<<b, r>>, 0) = b * 256 + r
  BY <1>5 DEF Number2
<1>7. QED
  BY <1>1, <1>2, <1>4, <1>6

LEMMA FourBytes ==
  ASSUME NEW n \in Word32
  PROVE  /\ Bytes4(n) \in Seq(Byte) /\ Len(Bytes4(n)) = 4
         /\ Number4(Bytes4(n), 0) = n
<1> DEFINE q == n \div 65536
           r == n % 65536
<1>1. q \in Word16 /\ r \in Word16 /\ n = q * 65536 + r
  BY Halves
<1>2. Bytes4(n) = Bytes2(q) \o Bytes2(r)
  BY DEF Bytes4
<1> HIDE DEF q, r
<1>3. q \in Nat /\ r \in Nat
  BY <1>1 DEF Word16
<1>4. PICK s \in Seq(Byte), t \in Seq(Byte) :
        /\ s = Bytes2(q) /\ t = Bytes2(r) /\ Len(s) = 2 /\ Len(t) = 2
        /\ Number2(s, 0) = q /\ Number2(t, 0) = r
  BY <1>1, <1>3, TwoBytes
<1>5. s \o t \in Seq(Byte) /\ Len(s \o t) = 4
  <2>1. s \o t \in Seq(Byte) /\ Len(s \o t) = Len(s) + Len(t)
    BY Joined
  <2>2. QED
    BY <1>4, <2>1
<1>6. /\ (s \o t)[1] = s[1] /\ (s \o t)[2] = s[2]
      /\ (s \o t)[3] = t[1] /\ (s \o t)[4] = t[2]
  <2>1. \A i \in 1 .. 2 : i \in 1 .. Len(s) /\ i \in 1 .. Len(t) /\ Len(s) + i = 2 + i
    BY <1>4
  <2>2. \A i \in 1 .. 2 : (s \o t)[i] = s[i] /\ (s \o t)[2 + i] = t[i]
    BY <2>1, JoinedFirst, JoinedSecond
  <2>3. 1 \in 1 .. 2 /\ 2 \in 1 .. 2
    OBVIOUS
  <2>4. (s \o t)[2 + 1] = t[1] /\ (s \o t)[2 + 2] = t[2]
    BY <2>2, <2>3, Zenon
  <2>5. QED
    BY <2>2, <2>3, <2>4, Offsets, Zenon
<1>7. Number2(s \o t, 0) = q /\ Number2(s \o t, 2) = r
  <2>1. Number2(s \o t, 0) = Number2(s, 0)
    <3>1. (s \o t)[0 + 1] = s[0 + 1] /\ (s \o t)[0 + 2] = s[0 + 2]
      BY <1>6, Offsets, Zenon
    <3>2. QED
      BY <3>1 DEF Number2
  <2>2. Number2(s \o t, 2) = Number2(t, 0)
    <3>1. (s \o t)[2 + 1] = t[0 + 1] /\ (s \o t)[2 + 2] = t[0 + 2]
      BY <1>6, Offsets, Zenon
    <3>2. QED
      BY <3>1 DEF Number2
  <2>3. QED
    BY <1>4, <2>1, <2>2
<1>8. Number4(s \o t, 0) = n
  BY <1>1, <1>7 DEF Number4
<1>9. QED
  BY <1>2, <1>4, <1>5, <1>8

-----------------------------------------------------------------------------
(* The layout of a packet.                                                 *)

\* The sequence t is in q from the offset n on.
HasAt(q, n, t) == \A i \in 1 .. Len(t) : q[n + i] = t[i]

LEMMA HasAtEnd ==
  ASSUME NEW S, NEW x \in Seq(S), NEW t \in Seq(S)
  PROVE  HasAt(x \o t, Len(x), t)
BY JoinedSecond DEF HasAt

LEMMA HasAtLonger ==
  ASSUME NEW S, NEW x \in Seq(S), NEW z \in Seq(S), NEW n \in Nat, NEW t \in Seq(S),
         HasAt(x, n, t), n + Len(t) <= Len(x)
  PROVE  HasAt(x \o z, n, t)
<1>1. \A i \in 1 .. Len(t) : n + i \in 1 .. Len(x)
  OBVIOUS
<1>2. QED
  BY <1>1, JoinedFirst DEF HasAt

LEMMA SliceIs ==
  ASSUME NEW S, NEW q \in Seq(S), NEW n \in Nat, NEW t \in Seq(S),
         HasAt(q, n, t), n + Len(t) <= Len(q)
  PROVE  SubSeq(q, n + 1, n + Len(t)) = t
<1>1. \A i \in n + 1 .. n + Len(t) : q[i] \in S
  <2>1. \A i \in n + 1 .. n + Len(t) : i \in 1 .. Len(q)
    OBVIOUS
  <2>2. QED
    BY <2>1, ElementOfSeq
<1> DEFINE s == SubSeq(q, n + 1, n + Len(t))
<1>2. n + 1 \in Int /\ n + Len(t) \in Int
  OBVIOUS
<1>3. /\ s \in Seq(S) /\ Len(s) = IF n + 1 <= n + Len(t) THEN n + Len(t) - (n + 1) + 1 ELSE 0
      /\ \A i \in 1 .. n + Len(t) - (n + 1) + 1 : s[i] = q[n + 1 + i - 1]
  BY <1>1, <1>2, SubSeqProperties
<1>4. Len(t) \in Nat /\ Len(s) = Len(t)
  BY <1>3
<1>5. \A i \in 1 .. Len(t) : s[i] = t[i]
  <2> SUFFICES ASSUME NEW i \in 1 .. Len(t)
               PROVE  s[i] = t[i]
    OBVIOUS
  <2>1. n + 1 + i - 1 = n + i /\ i \in 1 .. n + Len(t) - (n + 1) + 1
    OBVIOUS
  <2>2. QED
    BY <1>3, <2>1 DEF HasAt
<1> HIDE DEF s
<1>6. s = t
  BY <1>3, <1>4, <1>5, SeqEqual
<1>7. QED
  BY <1>6 DEF s

LEMMA NumbersAt ==
  ASSUME NEW q, NEW n \in Nat, NEW t \in Seq(Byte), HasAt(q, n, t)
  PROVE  /\ Len(t) = 2 => Number2(q, n) = Number2(t, 0)
         /\ Len(t) = 4 => Number4(q, n) = Number4(t, 0)
<1>1. ASSUME Len(t) = 2
      PROVE  Number2(q, n) = Number2(t, 0)
  <2>1. q[n + 1] = t[0 + 1] /\ q[n + 2] = t[0 + 2]
    BY <1>1 DEF HasAt
  <2>2. QED
    BY <2>1 DEF Number2
<1>2. ASSUME Len(t) = 4
      PROVE  Number4(q, n) = Number4(t, 0)
  <2>1. q[n + 1] = t[0 + 1] /\ q[n + 2] = t[0 + 2]
    BY <1>2 DEF HasAt
  <2>2. q[n + 2 + 1] = t[0 + 2 + 1] /\ q[n + 2 + 2] = t[0 + 2 + 2]
    <3>1. q[n + 3] = t[3] /\ q[n + 4] = t[4]
      BY <1>2 DEF HasAt
    <3>2. n + 2 + 1 = n + 3 /\ n + 2 + 2 = n + 4 /\ 0 + 2 + 1 = 3 /\ 0 + 2 + 2 = 4
      OBVIOUS
    <3>3. QED
      BY <3>1, <3>2, Zenon
  <2>3. Number2(q, n) = Number2(t, 0) /\ Number2(q, n + 2) = Number2(t, 0 + 2)
    BY <2>1, <2>2 DEF Number2
  <2>4. QED
    BY <2>3 DEF Number4
<1>3. QED
  BY <1>1, <1>2

-----------------------------------------------------------------------------
(* The packets.                                                            *)

\* What is at the front of a packet, one part after the other.
LEMMA FixedParts ==
  ASSUME NEW h \in Seq(Byte), NEW f \in Seq(Byte), NEW m \in Seq(Byte), NEW s \in Seq(Byte),
         Len(h) = 2, Len(f) = 2, Len(m) = 4, Len(s) = 4
  PROVE  \E x \in Seq(Byte) :
           /\ x = h \o f \o m \o s /\ Len(x) = 12
           /\ HasAt(x, 0, h) /\ HasAt(x, 2, f) /\ HasAt(x, 4, m) /\ HasAt(x, 8, s)
<1>1. PICK a \in Seq(Byte) : a = h \o f /\ Len(a) = Len(h) + Len(f)
  BY Joined
<1>2. Len(a) = 4 /\ HasAt(a, 0, h) /\ HasAt(a, 2, f)
  <2>1. HasAt(h, 0, h)
    BY DEF HasAt
  <2>2. HasAt(a, 0, h)
    BY <1>1, <2>1, HasAtLonger
  <2>3. HasAt(a, 2, f)
    BY <1>1, HasAtEnd
  <2>4. QED
    BY <1>1, <2>2, <2>3
<1>3. PICK b \in Seq(Byte) : b = a \o m /\ Len(b) = Len(a) + Len(m)
  BY Joined
<1>4. Len(b) = 8 /\ HasAt(b, 0, h) /\ HasAt(b, 2, f) /\ HasAt(b, 4, m)
  <2>1. HasAt(b, 0, h)
    BY <1>2, <1>3, HasAtLonger
  <2>2. HasAt(b, 2, f)
    <3>1. 2 \in Nat /\ 2 + Len(f) <= Len(a)
      BY <1>2
    <3>2. QED
      BY <1>2, <1>3, <3>1, HasAtLonger
  <2>3. HasAt(b, 4, m)
    BY <1>2, <1>3, HasAtEnd
  <2>4. QED
    BY <1>2, <1>3, <2>1, <2>2, <2>3
<1>5. PICK x \in Seq(Byte) : x = b \o s /\ Len(x) = Len(b) + Len(s)
  BY Joined
<1>6. Len(x) = 12 /\ HasAt(x, 0, h) /\ HasAt(x, 2, f) /\ HasAt(x, 4, m) /\ HasAt(x, 8, s)
  <2>1. HasAt(x, 0, h)
    BY <1>4, <1>5, HasAtLonger
  <2>2. HasAt(x, 2, f)
    <3>1. 2 \in Nat /\ 2 + Len(f) <= Len(b)
      BY <1>4
    <3>2. QED
      BY <1>4, <1>5, <3>1, HasAtLonger
  <2>3. HasAt(x, 4, m)
    <3>1. 4 \in Nat /\ 4 + Len(m) <= Len(b)
      BY <1>4
    <3>2. QED
      BY <1>4, <1>5, <3>1, HasAtLonger
  <2>4. HasAt(x, 8, s)
    BY <1>4, <1>5, HasAtEnd
  <2>5. QED
    BY <1>4, <1>5, <2>1, <2>2, <2>3, <2>4
<1>7. x = h \o f \o m \o s
  BY <1>1, <1>3, <1>5, Zenon
<1>8. QED
  BY <1>6, <1>7

\* What both packets begin with.
LEMMA FrontParts ==
  ASSUME NEW c \in Byte, NEW fmt \in Word16, NEW mid \in Word32, NEW party \in Word32
  PROVE  \E x \in Seq(Byte) :
           /\ x = <<PacketVersion, c>> \o Bytes2(fmt) \o Bytes4(mid) \o Bytes4(party)
           /\ Len(x) = 12
           /\ HasAt(x, 0, <<PacketVersion, c>>) /\ HasAt(x, 2, Bytes2(fmt))
           /\ HasAt(x, 4, Bytes4(mid)) /\ HasAt(x, 8, Bytes4(party))
<1>1. <<PacketVersion, c>> \in Seq(Byte) /\ Len(<<PacketVersion, c>>) = 2
  BY DEF PacketVersion, Byte
<1>2. PICK h \in Seq(Byte) : h = <<PacketVersion, c>> /\ Len(h) = 2
  BY <1>1, Zenon
<1>3. fmt \in Nat
  BY DEF Word16
<1>4. PICK f \in Seq(Byte) : f = Bytes2(fmt) /\ Len(f) = 2
  BY <1>3, TwoBytes
<1>5. PICK m \in Seq(Byte) : m = Bytes4(mid) /\ Len(m) = 4
  BY FourBytes
<1>6. PICK s \in Seq(Byte) : s = Bytes4(party) /\ Len(s) = 4
  BY FourBytes
<1>7. \E x \in Seq(Byte) :
           /\ x = h \o f \o m \o s /\ Len(x) = 12
           /\ HasAt(x, 0, h) /\ HasAt(x, 2, f) /\ HasAt(x, 4, m) /\ HasAt(x, 8, s)
  BY <1>2, <1>4, <1>5, <1>6, FixedParts
<1>8. QED
  BY <1>2, <1>4, <1>5, <1>6, <1>7, Zenon

FrontRead(q, c, fmt, mid, party) ==
  /\ q[1] = PacketVersion /\ q[2] = c
  /\ Number2(q, 2) = fmt /\ Number4(q, 4) = mid /\ Number4(q, 8) = party

LEMMA FrontNumbers ==
  ASSUME NEW c \in Byte, NEW fmt \in Word16, NEW mid \in Word32, NEW party \in Word32, NEW q,
         HasAt(q, 0, <<PacketVersion, c>>), HasAt(q, 2, Bytes2(fmt)),
         HasAt(q, 4, Bytes4(mid)), HasAt(q, 8, Bytes4(party))
  PROVE  FrontRead(q, c, fmt, mid, party)
<1>1. q[1] = PacketVersion /\ q[2] = c
  <2>1. PICK h : h = <<PacketVersion, c>>
    OBVIOUS
  <2>2. Len(h) = 2 /\ h[1] = PacketVersion /\ h[2] = c
    BY <2>1
  <2>3. \A i \in 1 .. 2 : q[0 + i] = h[i]
    BY <2>1, <2>2 DEF HasAt
  <2>4. 1 \in 1 .. 2 /\ 2 \in 1 .. 2 /\ 0 + 1 = 1 /\ 0 + 2 = 2
    OBVIOUS
  <2>5. q[0 + 1] = h[1] /\ q[0 + 2] = h[2]
    BY <2>3, <2>4
  <2>6. QED
    BY <2>2, <2>4, <2>5
<1>2. Number2(q, 2) = fmt
  <2>1. fmt \in Nat
    BY DEF Word16
  <2>2. PICK f \in Seq(Byte) : f = Bytes2(fmt) /\ Len(f) = 2 /\ Number2(f, 0) = fmt
    BY <2>1, TwoBytes
  <2>3. 2 \in Nat /\ HasAt(q, 2, f)
    BY <2>2
  <2>4. QED
    BY <2>2, <2>3, NumbersAt
<1>3. Number4(q, 4) = mid
  <2>1. PICK m \in Seq(Byte) : m = Bytes4(mid) /\ Len(m) = 4 /\ Number4(m, 0) = mid
    BY FourBytes
  <2>2. 4 \in Nat /\ HasAt(q, 4, m)
    BY <2>1
  <2>3. QED
    BY <2>1, <2>2, NumbersAt
<1>4. Number4(q, 8) = party
  <2>1. PICK m \in Seq(Byte) : m = Bytes4(party) /\ Len(m) = 4 /\ Number4(m, 0) = party
    BY FourBytes
  <2>2. 8 \in Nat /\ HasAt(q, 8, m)
    BY <2>1
  <2>3. QED
    BY <2>1, <2>2, NumbersAt
<1>5. QED
  BY <1>1, <1>2, <1>3, <1>4 DEF FrontRead


\* What is read at the front depends on the first bytes alone.
Agree(a, b, n) == \A i \in 1 .. n : a[i] = b[i]

LEMMA FrontSame ==
  ASSUME NEW a, NEW b, Agree(a, b, 12), NEW c, NEW fmt, NEW mid, NEW party,
         FrontRead(b, c, fmt, mid, party)
  PROVE  FrontRead(a, c, fmt, mid, party)
<1>1. /\ a[1] = b[1] /\ a[2] = b[2] /\ a[3] = b[3] /\ a[4] = b[4] /\ a[5] = b[5] /\ a[6] = b[6]
      /\ a[7] = b[7] /\ a[8] = b[8] /\ a[9] = b[9] /\ a[10] = b[10] /\ a[11] = b[11]
      /\ a[12] = b[12]
  BY DEF Agree
<1>2. \A n \in {2, 4, 6, 8, 10} : Number2(a, n) = Number2(b, n)
  <2> SUFFICES ASSUME NEW n \in {2, 4, 6, 8, 10}
               PROVE  Number2(a, n) = Number2(b, n)
    OBVIOUS
  <2>1. a[n + 1] = b[n + 1] /\ a[n + 2] = b[n + 2]
    BY <1>1
  <2>2. QED
    BY <2>1, Zenon DEF Number2
<1>3. Number4(a, 4) = Number4(b, 4) /\ Number4(a, 8) = Number4(b, 8)
  <2>1. 4 + 2 = 6 /\ 8 + 2 = 10
    OBVIOUS
  <2>2. QED
    BY <1>2, <2>1, SMT DEF Number4
<1>4. QED
  BY <1>1, <1>2, <1>3, Zenon DEF FrontRead

\* What a request has behind the front.
BackLaid(q, x, u, p, url, payload) ==
  /\ q = x \o u \o p \o url \o payload
  /\ Len(q) = 18 + Len(url) + Len(payload) /\ Agree(q, x, 12)
  /\ HasAt(q, 12, u) /\ HasAt(q, 14, p)
  /\ HasAt(q, 18, url) /\ HasAt(q, 18 + Len(url), payload)

LEMMA BackParts ==
  ASSUME NEW x \in Seq(Byte), NEW u \in Seq(Byte), NEW p \in Seq(Byte),
         NEW url \in Seq(Byte), NEW payload \in Seq(Byte),
         Len(x) = 12, Len(u) = 2, Len(p) = 4
  PROVE  \E q \in Seq(Byte) : BackLaid(q, x, u, p, url, payload)
<1>0. Len(url) \in Nat /\ Len(payload) \in Nat
  OBVIOUS
<1>1. PICK a \in Seq(Byte) : a = x \o u /\ Len(a) = Len(x) + Len(u)
  BY Joined
<1>2. Len(a) = 14 /\ HasAt(a, 0, x) /\ HasAt(a, 12, u)
  <2>1. HasAt(x, 0, x)
    BY DEF HasAt
  <2>2. HasAt(a, 0, x)
    BY <1>1, <2>1, HasAtLonger
  <2>3. HasAt(a, 12, u)
    BY <1>1, HasAtEnd
  <2>4. QED
    BY <1>1, <2>2, <2>3
<1>3. PICK b \in Seq(Byte) : b = a \o p /\ Len(b) = Len(a) + Len(p)
  BY Joined
<1>4. Len(b) = 18 /\ HasAt(b, 0, x) /\ HasAt(b, 12, u) /\ HasAt(b, 14, p)
  <2>1. HasAt(b, 0, x)
    BY <1>2, <1>3, HasAtLonger
  <2>2. HasAt(b, 12, u)
    <3>1. 12 \in Nat /\ 12 + Len(u) <= Len(a)
      BY <1>2
    <3>2. QED
      BY <1>2, <1>3, <3>1, HasAtLonger
  <2>3. HasAt(b, 14, p)
    BY <1>2, <1>3, HasAtEnd
  <2>4. QED
    BY <1>2, <1>3, <2>1, <2>2, <2>3
<1>5. PICK c \in Seq(Byte) : c = b \o url /\ Len(c) = Len(b) + Len(url)
  BY Joined
<1>6. /\ Len(c) = 18 + Len(url) /\ HasAt(c, 0, x) /\ HasAt(c, 12, u) /\ HasAt(c, 14, p)
      /\ HasAt(c, 18, url)
  <2>1. HasAt(c, 0, x)
    <3>1. 0 \in Nat /\ 0 + Len(x) <= Len(b)
      BY <1>4
    <3>2. QED
      BY <1>4, <1>5, <3>1, HasAtLonger
  <2>2. HasAt(c, 12, u)
    <3>1. 12 \in Nat /\ 12 + Len(u) <= Len(b)
      BY <1>4
    <3>2. QED
      BY <1>4, <1>5, <3>1, HasAtLonger
  <2>3. HasAt(c, 14, p)
    <3>1. 14 \in Nat /\ 14 + Len(p) <= Len(b)
      BY <1>4
    <3>2. QED
      BY <1>4, <1>5, <3>1, HasAtLonger
  <2>4. HasAt(c, 18, url)
    BY <1>4, <1>5, HasAtEnd
  <2>5. QED
    BY <1>4, <1>5, <2>1, <2>2, <2>3, <2>4
<1>7. PICK q \in Seq(Byte) : q = c \o payload /\ Len(q) = Len(c) + Len(payload)
  BY Joined
<1>8. /\ Len(q) = 18 + Len(url) + Len(payload) /\ HasAt(q, 0, x)
      /\ HasAt(q, 12, u) /\ HasAt(q, 14, p)
      /\ HasAt(q, 18, url) /\ HasAt(q, 18 + Len(url), payload)
  <2>1. HasAt(q, 0, x)
    <3>1. 0 \in Nat /\ 0 + Len(x) <= Len(c)
      BY <1>0, <1>6
    <3>2. QED
      BY <1>6, <1>7, <3>1, HasAtLonger
  <2>2. HasAt(q, 12, u)
    <3>1. 12 \in Nat /\ 12 + Len(u) <= Len(c)
      BY <1>0, <1>6
    <3>2. QED
      BY <1>6, <1>7, <3>1, HasAtLonger
  <2>3. HasAt(q, 14, p)
    <3>1. 14 \in Nat /\ 14 + Len(p) <= Len(c)
      BY <1>0, <1>6
    <3>2. QED
      BY <1>6, <1>7, <3>1, HasAtLonger
  <2>4. HasAt(q, 18, url)
    <3>1. 18 \in Nat /\ 18 + Len(url) <= Len(c)
      BY <1>0, <1>6
    <3>2. QED
      BY <1>6, <1>7, <3>1, HasAtLonger
  <2>5. HasAt(q, 18 + Len(url), payload)
    BY <1>6, <1>7, HasAtEnd
  <2>6. QED
    BY <1>6, <1>7, <2>1, <2>2, <2>3, <2>4, <2>5
<1>9. Agree(q, x, 12)
  <2>1. \A i \in 1 .. 12 : q[0 + i] = x[i]
    BY <1>8 DEF HasAt
  <2>2. \A i \in 1 .. 12 : 0 + i = i
    OBVIOUS
  <2>3. QED
    BY <2>1, <2>2, Zenon DEF Agree
<1>10. q = x \o u \o p \o url \o payload
  BY <1>1, <1>3, <1>5, <1>7, Zenon
<1>11. QED
  BY <1>8, <1>9, <1>10 DEF BackLaid

\* The string with its NUL.
LEMMA Terminated ==
  ASSUME NEW s \in Seq(1 .. 255)
  PROVE  /\ Append(s, 0) \in Seq(Byte) /\ Len(Append(s, 0)) = Len(s) + 1
         /\ s \in Seq(Byte) /\ HasAt(Append(s, 0), 0, s) /\ Append(s, 0)[Len(s) + 1] = 0
<1>1. s \in Seq(Byte) /\ 0 \in Byte
  <2>1. 1 .. 255 \subseteq Byte /\ 0 \in Byte
    BY DEF Byte
  <2>2. QED
    BY <2>1, SeqMonotonic
<1>2. /\ Append(s, 0) \in Seq(Byte) /\ Len(Append(s, 0)) = Len(s) + 1
      /\ \A i \in 1 .. Len(s) : Append(s, 0)[i] = s[i]
      /\ Append(s, 0)[Len(s) + 1] = 0
  BY <1>1, AppendProperties
<1>3. HasAt(Append(s, 0), 0, s)
  BY <1>2 DEF HasAt
<1>4. QED
  BY <1>1, <1>2, <1>3

\* Where the parts of a request are in its packet, and what is read there.
RequestLaid(q, r) ==
  /\ q \in Seq(Byte) /\ Len(q) = 18 + (Len(r.url) + 1) + Len(r.payload)
  /\ FrontRead(q, r.action, r.fmt, r.mid, r.sender)
  /\ Number2(q, 12) = Len(r.url) + 1 /\ Number4(q, 14) = Len(r.payload)
  /\ HasAt(q, 18, Append(r.url, 0)) /\ HasAt(q, 18 + (Len(r.url) + 1), r.payload)

LEMMA RequestParts ==
  ASSUME NEW r \in Request
  PROVE  RequestLaid(PackRequest(r), r) /\ AsPackRequest(r) = PackRequest(r)
<1>1. PICK c \in Byte, fmt \in Word16, mid \in Word32, party \in Word32,
           s \in Seq(1 .. 255), payload \in Seq(Byte) :
        /\ c = r.action /\ fmt = r.fmt /\ mid = r.mid /\ party = r.sender
        /\ s = r.url /\ payload = r.payload
        /\ Len(s) + 1 \in Word16
        /\ RequestFixPart + Len(s) + 1 + Len(payload) < 65536 * 32768
  BY DEF Request
<1>2. PICK url \in Seq(Byte) : url = Append(s, 0) /\ Len(url) = Len(s) + 1
  BY Terminated
<1>3. PICK n \in Word16, k \in Word32 : n = Len(url) /\ k = Len(payload) /\ n \in Nat /\ k \in Nat
  <2>1. Len(payload) \in Nat /\ Len(s) \in Nat
    OBVIOUS
  <2>2. Len(payload) < 65536 * 65536
    BY <1>1, <2>1, Room
  <2>3. Len(payload) \in Word32
    BY <2>1, <2>2 DEF Word32
  <2>4. Len(url) \in Word16 /\ Len(url) \in Nat
    BY <1>1, <1>2, <2>1
  <2>5. QED
    BY <2>1, <2>3, <2>4
<1>4. PICK x \in Seq(Byte) :
        /\ x = <<PacketVersion, c>> \o Bytes2(fmt) \o Bytes4(mid) \o Bytes4(party)
        /\ Len(x) = 12 /\ FrontRead(x, c, fmt, mid, party)
  <2>1. PICK x \in Seq(Byte) :
           /\ x = <<PacketVersion, c>> \o Bytes2(fmt) \o Bytes4(mid) \o Bytes4(party)
           /\ Len(x) = 12
           /\ HasAt(x, 0, <<PacketVersion, c>>) /\ HasAt(x, 2, Bytes2(fmt))
           /\ HasAt(x, 4, Bytes4(mid)) /\ HasAt(x, 8, Bytes4(party))
    BY FrontParts
  <2>2. FrontRead(x, c, fmt, mid, party)
    BY <2>1, FrontNumbers
  <2>3. QED
    BY <2>1, <2>2
<1>5. PICK u \in Seq(Byte) : u = Bytes2(n) /\ Len(u) = 2 /\ Number2(u, 0) = n
  BY <1>3, TwoBytes
<1>6. PICK p \in Seq(Byte) : p = Bytes4(k) /\ Len(p) = 4 /\ Number4(p, 0) = k
  BY FourBytes
<1>7. PICK q \in Seq(Byte) :
        /\ q = x \o u \o p \o url \o payload
        /\ Len(q) = 18 + Len(url) + Len(payload) /\ Agree(q, x, 12)
        /\ HasAt(q, 12, u) /\ HasAt(q, 14, p)
        /\ HasAt(q, 18, url) /\ HasAt(q, 18 + Len(url), payload)
  <2>1. PICK q \in Seq(Byte) : BackLaid(q, x, u, p, url, payload)
    BY <1>4, <1>5, <1>6, BackParts
  <2>2. QED
    BY <2>1 DEF BackLaid
<1>8. FrontRead(q, c, fmt, mid, party)
  BY <1>4, <1>7, FrontSame
<1>9. Number2(q, 12) = n /\ Number4(q, 14) = k
  <2>1. 12 \in Nat /\ 14 \in Nat
    OBVIOUS
  <2>2. QED
    BY <1>5, <1>6, <1>7, <2>1, NumbersAt
<1>10. PackRequest(r) = q /\ AsPackRequest(r) = q
  <2>1. Len(r.url) + 1 = n /\ Len(Append(r.url, 0)) = n /\ Len(r.payload) = k
    BY <1>1, <1>2, <1>3
  <2>2. Append(r.url, 0) = url /\ r.payload = payload
    BY <1>1, <1>2
  <2>3. /\ PackRequest(r) =
             <<PacketVersion, r.action>> \o Bytes2(r.fmt) \o Bytes4(r.mid) \o Bytes4(r.sender)
               \o Bytes2(n) \o Bytes4(k) \o url \o payload
        /\ AsPackRequest(r) =
             <<PacketVersion, r.action>> \o Bytes2(r.fmt) \o Bytes4(r.mid) \o Bytes4(r.sender)
               \o Bytes2(n) \o Bytes4(k) \o url \o payload
    BY <2>1, <2>2, Zenon DEF PackRequest, AsPackRequest
  <2>4. <<PacketVersion, r.action>> \o Bytes2(r.fmt) \o Bytes4(r.mid) \o Bytes4(r.sender) = x
    BY <1>1, <1>4
  <2>5. QED
    BY <1>5, <1>6, <1>7, <2>3, <2>4
<1>11. RequestLaid(q, r)
  <2>1. Len(url) = Len(r.url) + 1 /\ payload = r.payload /\ url = Append(r.url, 0)
    BY <1>1, <1>2
  <2>2. Len(q) = 18 + (Len(r.url) + 1) + Len(r.payload)
    BY <1>7, <2>1, Zenon
  <2>3. Number2(q, 12) = Len(r.url) + 1 /\ Number4(q, 14) = Len(r.payload)
    BY <1>3, <1>9, <2>1, Zenon
  <2>4. FrontRead(q, r.action, r.fmt, r.mid, r.sender)
    BY <1>1, <1>8
  <2>5. HasAt(q, 18, Append(r.url, 0)) /\ HasAt(q, 18 + (Len(r.url) + 1), r.payload)
    BY <1>7, <2>1, Zenon
  <2>6. QED
    BY <1>7, <2>2, <2>3, <2>4, <2>5, Zenon DEF RequestLaid
<1>12. QED
  BY <1>10, <1>11, Zenon

\* What a response has behind the front.
TailLaid(q, x, p, payload) ==
  /\ q = x \o p \o payload
  /\ Len(q) = 16 + Len(payload) /\ Agree(q, x, 12)
  /\ HasAt(q, 12, p) /\ HasAt(q, 16, payload)

LEMMA TailParts ==
  ASSUME NEW x \in Seq(Byte), NEW p \in Seq(Byte), NEW payload \in Seq(Byte),
         Len(x) = 12, Len(p) = 4
  PROVE  \E q \in Seq(Byte) : TailLaid(q, x, p, payload)
<1>1. PICK a \in Seq(Byte) : a = x \o p /\ Len(a) = Len(x) + Len(p)
  BY Joined
<1>2. Len(a) = 16 /\ HasAt(a, 0, x) /\ HasAt(a, 12, p)
  <2>1. HasAt(x, 0, x)
    BY DEF HasAt
  <2>2. HasAt(a, 0, x)
    BY <1>1, <2>1, HasAtLonger
  <2>3. HasAt(a, 12, p)
    BY <1>1, HasAtEnd
  <2>4. QED
    BY <1>1, <2>2, <2>3
<1>3. PICK q \in Seq(Byte) : q = a \o payload /\ Len(q) = Len(a) + Len(payload)
  BY Joined
<1>4. /\ Len(q) = 16 + Len(payload) /\ HasAt(q, 0, x) /\ HasAt(q, 12, p)
      /\ HasAt(q, 16, payload)
  <2>1. HasAt(q, 0, x)
    <3>1. 0 \in Nat /\ 0 + Len(x) <= Len(a)
      BY <1>2
    <3>2. QED
      BY <1>2, <1>3, <3>1, HasAtLonger
  <2>2. HasAt(q, 12, p)
    <3>1. 12 \in Nat /\ 12 + Len(p) <= Len(a)
      BY <1>2
    <3>2. QED
      BY <1>2, <1>3, <3>1, HasAtLonger
  <2>3. HasAt(q, 16, payload)
    BY <1>2, <1>3, HasAtEnd
  <2>4. QED
    BY <1>2, <1>3, <2>1, <2>2, <2>3
<1>5. Agree(q, x, 12)
  <2>1. \A i \in 1 .. 12 : q[0 + i] = x[i]
    BY <1>4 DEF HasAt
  <2>2. \A i \in 1 .. 12 : 0 + i = i
    OBVIOUS
  <2>3. QED
    BY <2>1, <2>2, Zenon DEF Agree
<1>6. q = x \o p \o payload
  BY <1>1, <1>3, Zenon
<1>7. QED
  BY <1>4, <1>5, <1>6 DEF TailLaid

\* The same of a response.
ResponseLaid(q, r) ==
  /\ q \in Seq(Byte) /\ Len(q) = 16 + Len(r.payload)
  /\ FrontRead(q, r.status, r.fmt, r.mid, r.reciever)
  /\ Number4(q, 12) = Len(r.payload) /\ HasAt(q, 16, r.payload)

LEMMA ResponseParts ==
  ASSUME NEW r \in Response
  PROVE  ResponseLaid(PackResponse(r), r) /\ AsPackResponse(r) = PackResponse(r)
<1>1. PICK c \in Byte, fmt \in Word16, mid \in Word32, party \in Word32, payload \in Seq(Byte) :
        /\ c = r.status /\ fmt = r.fmt /\ mid = r.mid /\ party = r.reciever
        /\ payload = r.payload
        /\ ResponseFixPart + Len(payload) < 65536 * 32768
  BY DEF Response
<1>2. PICK k \in Word32 : k = Len(payload) /\ k \in Nat
  <2>1. Len(payload) \in Nat
    OBVIOUS
  <2>2. Len(payload) < 65536 * 65536
    BY <1>1, <2>1, ResponseRoom
  <2>3. Len(payload) \in Word32
    BY <2>1, <2>2 DEF Word32
  <2>4. QED
    BY <2>1, <2>3
<1>3. PICK x \in Seq(Byte) :
        /\ x = <<PacketVersion, c>> \o Bytes2(fmt) \o Bytes4(mid) \o Bytes4(party)
        /\ Len(x) = 12 /\ FrontRead(x, c, fmt, mid, party)
  <2>1. PICK x \in Seq(Byte) :
           /\ x = <<PacketVersion, c>> \o Bytes2(fmt) \o Bytes4(mid) \o Bytes4(party)
           /\ Len(x) = 12
           /\ HasAt(x, 0, <<PacketVersion, c>>) /\ HasAt(x, 2, Bytes2(fmt))
           /\ HasAt(x, 4, Bytes4(mid)) /\ HasAt(x, 8, Bytes4(party))
    BY FrontParts
  <2>2. FrontRead(x, c, fmt, mid, party)
    BY <2>1, FrontNumbers
  <2>3. QED
    BY <2>1, <2>2
<1>4. PICK p \in Seq(Byte) : p = Bytes4(k) /\ Len(p) = 4 /\ Number4(p, 0) = k
  BY FourBytes
<1>5. PICK q \in Seq(Byte) :
        /\ q = x \o p \o payload
        /\ Len(q) = 16 + Len(payload) /\ Agree(q, x, 12)
        /\ HasAt(q, 12, p) /\ HasAt(q, 16, payload)
  <2>1. PICK q \in Seq(Byte) : TailLaid(q, x, p, payload)
    BY <1>3, <1>4, TailParts
  <2>2. QED
    BY <2>1 DEF TailLaid
<1>6. FrontRead(q, c, fmt, mid, party)
  BY <1>3, <1>5, FrontSame
<1>7. Number4(q, 12) = k
  <2>1. 12 \in Nat
    OBVIOUS
  <2>2. QED
    BY <1>4, <1>5, <2>1, NumbersAt
<1>8. PackResponse(r) = q /\ AsPackResponse(r) = q
  <2>1. Len(r.payload) = k /\ r.payload = payload
    BY <1>1, <1>2
  <2>2. /\ PackResponse(r) =
             <<PacketVersion, r.status>> \o Bytes2(r.fmt) \o Bytes4(r.mid) \o Bytes4(r.reciever)
               \o Bytes4(k) \o payload
        /\ AsPackResponse(r) =
             <<PacketVersion, r.status>> \o Bytes2(r.fmt) \o Bytes4(r.mid) \o Bytes4(r.reciever)
               \o Bytes4(k) \o payload
    BY <2>1, Zenon DEF PackResponse, AsPackResponse
  <2>3. <<PacketVersion, r.status>> \o Bytes2(r.fmt) \o Bytes4(r.mid) \o Bytes4(r.reciever) = x
    BY <1>1, <1>3
  <2>4. QED
    BY <1>4, <1>5, <2>2, <2>3
<1>9. ResponseLaid(q, r)
  <2>1. payload = r.payload
    BY <1>1
  <2>2. Len(q) = 16 + Len(r.payload)
    BY <1>5, <2>1
  <2>3. Number4(q, 12) = Len(r.payload)
    BY <1>2, <1>7, <2>1
  <2>4. FrontRead(q, r.status, r.fmt, r.mid, r.reciever)
    BY <1>1, <1>6
  <2>5. HasAt(q, 16, r.payload)
    BY <1>5, <2>1
  <2>6. QED
    BY <1>5, <2>2, <2>3, <2>4, <2>5 DEF ResponseLaid
<1>10. QED
  BY <1>8, <1>9

-----------------------------------------------------------------------------
(* What is read back.                                                      *)

\* Two numbers are the same when their halves are.
LEMMA HalvesAreAll ==
  ASSUME NEW a \in Nat, NEW b \in Nat, a % 65536 = b % 65536, a \div 65536 = b \div 65536
  PROVE  a = b
BY SMT

\* A sum in 32 bits that does not wrap, in halves.
LEMMA SumInHalves ==
  ASSUME NEW n \in Nat, NEW hi \in Nat, NEW lo \in Nat, n + (hi * 65536 + lo) < 65536 * 65536
  PROVE  /\ (n + lo) % 65536 = (n + (hi * 65536 + lo)) % 65536
         /\ (hi + (n + lo) \div 65536) % 65536 = (n + (hi * 65536 + lo)) \div 65536
BY SMT

\* Added to the same, in 16 bits, two halves are told apart.
LEMMA HalvesToldApart ==
  ASSUME NEW a \in Nat, NEW b \in Word16, NEW c \in Word16,
         (a + b) % 65536 = (a + c) % 65536
  PROVE  b = c
BY SMT DEF Word16

\* Two bytes make a number of 16 bits.
LEMMA HalfWord ==
  ASSUME NEW q \in Seq(Byte), NEW at \in Nat, at + 2 <= Len(q)
  PROVE  Number2(q, at) \in Word16
<1>1. at + 1 \in 1 .. Len(q) /\ at + 2 \in 1 .. Len(q)
  OBVIOUS
<1>2. PICK a \in Byte, b \in Byte : a = q[at + 1] /\ b = q[at + 2]
  BY <1>1, ElementOfSeq
<1>3. a * 256 + b \in Word16
  BY SMT DEF Byte, Word16
<1>4. QED
  BY <1>2, <1>3, SMT DEF Number2

\* A sum of less than 2^32 that is the size agrees with it.
LEMMA SumAgrees ==
  ASSUME NEW q \in Seq(Byte), NEW n \in Nat, NEW at \in Nat, at + 4 <= Len(q),
         Len(q) = n + Number4(q, at), Len(q) \in Word32
  PROVE  SizeAgrees(q, n, at)
<1>1. PICK hi \in Word16, lo \in Word16 : hi = Number2(q, at) /\ lo = Number2(q, at + 2)
  <2>1. at + 2 \in Nat /\ at + 2 <= Len(q) /\ at + 2 + 2 <= Len(q)
    BY ONLY q \in Seq(Byte), at \in Nat, at + 4 <= Len(q), SMT
  <2>2. QED
    BY <2>1, HalfWord, SMT
<1>2. hi \in Nat /\ lo \in Nat
  BY SMT DEF Word16
<1>3. Len(q) = n + (hi * 65536 + lo)
  BY <1>1, SMT DEF Number4
<1>4. /\ (n + lo) % 65536 = Len(q) % 65536
      /\ (hi + (n + lo) \div 65536) % 65536 = Len(q) \div 65536
  BY <1>2, <1>3, SumInHalves, SMT DEF Word32
<1>5. QED
  BY <1>1, <1>4, SMT DEF SizeAgrees

\* The bounds of the messages leave room for the lengths.
LEMMA RequestRoom ==
  ASSUME NEW n \in Nat, NEW k \in Nat, RequestFixPart + n + 1 + k < 65536 * 32768
  PROVE  18 + (n + 1) + k \in Word32
BY SMT DEF RequestFixPart, Word32

LEMMA ResponseWord ==
  ASSUME NEW k \in Nat, ResponseFixPart + k < 65536 * 32768
  PROVE  16 + k \in Word32
BY SMT DEF ResponseFixPart, Word32

LEMMA RequestAgrees ==
  ASSUME NEW q \in Seq(Byte), NEW n \in Nat, NEW k \in Nat, Len(q) = 18 + (n + 1) + k,
         Number4(q, 14) = k, 18 + (n + 1) + k \in Word32
  PROVE  SizeAgrees(q, 18 + (n + 1), 14) /\ 18 + (n + 1) <= Len(q)
<1>1. PICK m \in Nat : m = 18 + (n + 1)
  BY SMT
<1>2. 14 \in Nat /\ 14 + 4 <= Len(q) /\ m <= Len(q) /\ Len(q) = m + Number4(q, 14)
  BY <1>1, SMT
<1>3. Len(q) \in Word32
  BY Zenon
<1>4. SizeAgrees(q, m, 14)
  BY <1>2, <1>3, SumAgrees, Zenon
<1>5. QED
  BY <1>1, <1>2, <1>4, Zenon

LEMMA ResponseAgrees ==
  ASSUME NEW q \in Seq(Byte), NEW k \in Nat, Len(q) = 16 + k, Number4(q, 12) = k,
         16 + k \in Word32
  PROVE  SizeAgrees(q, 16, 12)
<1>1. 16 \in Nat /\ 12 \in Nat /\ 12 + 4 <= Len(q) /\ Len(q) = 16 + Number4(q, 12)
  BY SMT
<1>2. QED
  BY <1>1, SumAgrees, Zenon

LEMMA RequestReadBack ==
  ASSUME NEW r \in Request, NEW q, RequestLaid(q, r)
  PROVE  UnpackRequest(q) = r /\ AsUnpackRequest(q) = r
<1>1. PICK s \in Seq(1 .. 255), payload \in Seq(Byte) :
        /\ s = r.url /\ payload = r.payload
        /\ r = [action |-> r.action, fmt |-> r.fmt, mid |-> r.mid, sender |-> r.sender,
                url |-> s, payload |-> payload]
  BY DEF Request
<1>2. PICK url \in Seq(Byte) :
        /\ url = Append(s, 0) /\ Len(url) = Len(s) + 1 /\ s \in Seq(Byte)
        /\ HasAt(url, 0, s) /\ url[Len(s) + 1] = 0
  BY Terminated
<1>3. /\ q \in Seq(Byte) /\ Len(q) = 18 + (Len(s) + 1) + Len(payload)
      /\ FrontRead(q, r.action, r.fmt, r.mid, r.sender)
      /\ Number2(q, 12) = Len(s) + 1 /\ Number4(q, 14) = Len(payload)
      /\ HasAt(q, 18, url) /\ HasAt(q, 18 + (Len(s) + 1), payload)
  BY <1>1, <1>2, Zenon DEF RequestLaid
<1>4. PICK n \in Nat, k \in Nat : n = Len(s) /\ k = Len(payload)
  OBVIOUS
<1>5. q[18 + (n + 1)] = 0
  <2>1. n + 1 \in 1 .. Len(url)
    BY <1>2, <1>4
  <2>2. q[18 + (n + 1)] = url[n + 1]
    BY <1>3, <2>1 DEF HasAt
  <2>3. QED
    BY <1>2, <1>4, <2>2
<1>6. SubSeq(q, 18 + 1, 18 + n) = s
  <2>1. HasAt(q, 18, s)
    <3>1. \A i \in 1 .. n : i \in 1 .. Len(url)
      BY <1>2, <1>4
    <3>2. \A i \in 1 .. n : q[18 + i] = url[i]
      BY <1>3, <3>1 DEF HasAt
    <3>3. \A i \in 1 .. n : url[0 + i] = s[i] /\ 0 + i = i
      BY <1>2, <1>4 DEF HasAt
    <3>4. QED
      BY <1>4, <3>2, <3>3 DEF HasAt
  <2>2. 18 \in Nat /\ 18 + Len(s) <= Len(q)
    BY <1>3, <1>4
  <2>3. SubSeq(q, 18 + 1, 18 + Len(s)) = s
    BY <1>2, <1>3, <2>1, <2>2, SliceIs
  <2>4. QED
    BY <1>4, <2>3
<1>7. SubSeq(q, 18 + (n + 1) + 1, 18 + (n + 1) + k) = payload
  <2>1. PICK m \in Nat : m = 18 + (n + 1)
    OBVIOUS
  <2>2. HasAt(q, m, payload)
    BY <1>3, <1>4, <2>1
  <2>3. m + Len(payload) <= Len(q)
    BY <1>3, <1>4, <2>1
  <2>4. SubSeq(q, m + 1, m + Len(payload)) = payload
    BY <1>3, <2>2, <2>3, SliceIs
  <2>5. QED
    BY <1>4, <2>1, <2>4
<1>8. /\ q[1] = PacketVersion /\ q[2] = r.action /\ Number2(q, 2) = r.fmt
      /\ Number4(q, 4) = r.mid /\ Number4(q, 8) = r.sender
      /\ Number2(q, 12) = n + 1 /\ Number4(q, 14) = k /\ Len(q) = 18 + (n + 1) + k
  BY <1>3, <1>4 DEF FrontRead
<1>14. SizeAgrees(q, 18 + (n + 1), 14) /\ 18 + (n + 1) <= Len(q)
  <2>1. RequestFixPart + n + 1 + k < 65536 * 32768
    BY <1>1, <1>4, SMT DEF Request
  <2>2. 18 + (n + 1) + k \in Word32
    BY <2>1, RequestRoom
  <2>3. QED
    BY <1>3, <1>8, <2>2, RequestAgrees
<1>9. RequestWellFormed(q)
  <2>1. ByteAt(q, 18 + (n + 1)) = 0
    BY <1>5, <1>14 DEF ByteAt
  <2>2. Len(q) >= 18
    BY <1>8
  <2>3. QED
    BY <1>8, <1>14, <2>1, <2>2 DEF RequestWellFormed, RequestFixPart
<1>10. /\ Slice(q, RequestFixPart, n + 1 - 1) = s
       /\ SubSeq(q, RequestFixPart + (n + 1) + 1, Len(q)) = payload
       /\ Slice(q, RequestFixPart + (n + 1), k) = payload
  <2>1. n + 1 - 1 = n
    OBVIOUS
  <2>2. QED
    BY <1>6, <1>7, <1>8, <2>1 DEF Slice, RequestFixPart
<1>11. UnpackRequest(q) = r
  <2>1. ~(RequestFixPart + Number2(q, 12) > Len(q))
    BY <1>8, <1>14 DEF RequestFixPart
  <2>2. UnpackRequest(q) =
          [action |-> q[2], fmt |-> Number2(q, 2), mid |-> Number4(q, 4),
           sender |-> Number4(q, 8), url |-> Slice(q, RequestFixPart, Number2(q, 12) - 1),
           payload |-> SubSeq(q, RequestFixPart + Number2(q, 12) + 1, Len(q))]
    BY <1>9, <2>1, Zenon DEF UnpackRequest
  <2>3. QED
    BY <1>1, <1>8, <1>10, <2>2
<1>12. AsUnpackRequest(q) = r
  <2>1. /\ ~(Len(q) < RequestFixPart) /\ ~(RequestFixPart + Number2(q, 12) > Len(q))
        /\ SizeAgrees(q, RequestFixPart + Number2(q, 12), 14)
    BY <1>8, <1>14 DEF RequestFixPart
  <2>2. q # <<>>
    BY <1>8
  <2>3. q[1] = PacketVersion
    BY <1>8
  <2>4. AsUnpackRequest(q) =
          [action |-> q[2], fmt |-> Number2(q, 2), mid |-> Number4(q, 4),
           sender |-> Number4(q, 8), url |-> Slice(q, RequestFixPart, Number2(q, 12) - 1),
           payload |-> Slice(q, RequestFixPart + Number2(q, 12), Number4(q, 14))]
    BY <2>1, <2>2, <2>3, Zenon DEF AsUnpackRequest
  <2>5. QED
    BY <1>1, <1>8, <1>10, <2>4
<1>13. QED
  BY <1>11, <1>12

LEMMA ResponseReadBack ==
  ASSUME NEW r \in Response, NEW q, ResponseLaid(q, r)
  PROVE  UnpackResponse(q) = r /\ AsUnpackResponse(q) = r
<1>1. PICK payload \in Seq(Byte) :
        /\ payload = r.payload
        /\ r = [status |-> r.status, fmt |-> r.fmt, mid |-> r.mid, reciever |-> r.reciever,
                payload |-> payload]
  BY DEF Response
<1>2. PICK k \in Nat : k = Len(payload)
  OBVIOUS
<1>3. /\ q \in Seq(Byte) /\ Len(q) = 16 + k
      /\ FrontRead(q, r.status, r.fmt, r.mid, r.reciever)
      /\ Number4(q, 12) = k /\ HasAt(q, 16, payload)
  BY <1>1, <1>2, Zenon DEF ResponseLaid
<1>4. SubSeq(q, 16 + 1, 16 + k) = payload
  <2>1. 16 \in Nat /\ 16 + Len(payload) <= Len(q)
    BY <1>2, <1>3
  <2>2. SubSeq(q, 16 + 1, 16 + Len(payload)) = payload
    BY <1>3, <2>1, SliceIs
  <2>3. QED
    BY <1>2, <2>2
<1>9. SizeAgrees(q, ResponseFixPart, 12)
  <2>1. ResponseFixPart + k < 65536 * 32768
    BY <1>1, <1>2, SMT DEF Response
  <2>2. 16 + k \in Word32
    BY <2>1, ResponseWord
  <2>3. QED
    BY <1>3, <2>2, ResponseAgrees DEF ResponseFixPart
<1>5. /\ q[1] = PacketVersion /\ q[2] = r.status /\ Number2(q, 2) = r.fmt
      /\ Number4(q, 4) = r.mid /\ Number4(q, 8) = r.reciever
      /\ q # <<>> /\ Len(q) >= ResponseFixPart
      /\ SubSeq(q, ResponseFixPart + 1, Len(q)) = payload
  BY <1>3, <1>4 DEF FrontRead, ResponseFixPart
<1>6. UnpackResponse(q) = r
  BY <1>1, <1>5, <1>9 DEF UnpackResponse
<1>7. AsUnpackResponse(q) = r
  <2>0. ~(Len(q) < ResponseFixPart)
    BY <1>2, <1>3 DEF ResponseFixPart
  <2>1. AsUnpackResponse(q) =
          [status |-> q[2], fmt |-> Number2(q, 2), mid |-> Number4(q, 4),
           reciever |-> Number4(q, 8), payload |-> SubSeq(q, ResponseFixPart + 1, Len(q))]
    BY <1>5, <1>9, <2>0, Zenon DEF AsUnpackResponse
  <2>2. QED
    BY <1>1, <1>5, <2>1
<1>8. QED
  BY <1>6, <1>7

\* A byte string of another length that is the same as a packet as far as both go.
Cut(o, q) == /\ o \in Seq(Byte) /\ o # <<>> /\ Len(o) # Len(q)
             /\ \A i \in 1 .. Len(o) : i \in 1 .. Len(q) => o[i] = q[i]

LEMMA Cuts ==
  ASSUME NEW q \in Seq(Byte)
  PROVE  /\ \A n \in 1 .. Len(q) - 1 : Cut(SubSeq(q, 1, n), q)
         /\ q # <<>> => Cut(Append(q, 0), q)
<1>1. ASSUME NEW n \in 1 .. Len(q) - 1
      PROVE  Cut(SubSeq(q, 1, n), q)
  <2>1. Len(q) \in Nat /\ n \in Nat /\ 1 <= n /\ n < Len(q)
    OBVIOUS
  <2>2. \A i \in 1 .. n : q[i] \in Byte
    <3>1. \A i \in 1 .. n : i \in 1 .. Len(q)
      BY <2>1
    <3>2. QED
      BY <3>1, ElementOfSeq
  <2>3. /\ SubSeq(q, 1, n) \in Seq(Byte) /\ Len(SubSeq(q, 1, n)) = n
        /\ \A i \in 1 .. n : SubSeq(q, 1, n)[i] = q[i]
    BY <2>1, <2>2, SubSeqProperties
  <2>4. QED
    BY <2>1, <2>3 DEF Cut
<1>2. ASSUME q # <<>>
      PROVE  Cut(Append(q, 0), q)
  <2>1. /\ Append(q, 0) \in Seq(Byte) /\ Len(Append(q, 0)) = Len(q) + 1 /\ Len(q) \in Nat
        /\ \A i \in 1 .. Len(q) : Append(q, 0)[i] = q[i]
    <3>1. 0 \in Byte
      BY DEF Byte
    <3>2. QED
      BY <3>1, AppendProperties
  <2>2. QED
    BY <2>1 DEF Cut
<1>3. QED
  BY <1>1, <1>2

\* The lengths are read where they were, when they are there at all.
LEMMA LengthsKept ==
  ASSUME NEW q \in Seq(Byte), NEW o, Cut(o, q)
  PROVE  /\ Len(o) >= 18 /\ Len(q) >= 18 =>
              /\ Number2(o, 12) = Number2(q, 12) /\ Number2(o, 14) = Number2(q, 14)
              /\ Number2(o, 14 + 2) = Number2(q, 14 + 2)
         /\ Len(o) >= 16 /\ Len(q) >= 16 =>
              Number2(o, 12) = Number2(q, 12) /\ Number2(o, 12 + 2) = Number2(q, 12 + 2)
<1>0. o \in Seq(Byte) /\ Len(o) \in Nat /\ Len(q) \in Nat
  BY DEF Cut
<1>1. ASSUME NEW m \in Nat, Len(o) >= m, Len(q) >= m
      PROVE  \A i \in 1 .. m : o[i] = q[i]
  BY <1>0, <1>1 DEF Cut
<1>2. ASSUME NEW at \in Nat, Len(o) >= at + 2, Len(q) >= at + 2
      PROVE  Number2(o, at) = Number2(q, at)
  <2>1. \A i \in 1 .. at + 2 : o[i] = q[i]
    BY <1>1, <1>2
  <2>2. at + 1 \in 1 .. at + 2 /\ at + 2 \in 1 .. at + 2
    OBVIOUS
  <2>3. QED
    BY <2>1, <2>2, Zenon DEF Number2
<1>3. QED
  BY <1>0, <1>2

\* Only they make it.
LEMMA BytesOfHalfWord ==
  ASSUME NEW q \in Seq(Byte), NEW o \in Seq(Byte), NEW at \in Nat, at + 2 <= Len(q),
         Len(o) = Len(q), Number2(q, at) = Number2(o, at)
  PROVE  q[at + 1] = o[at + 1] /\ q[at + 2] = o[at + 2]
<1>1. at + 1 \in 1 .. Len(q) /\ at + 2 \in 1 .. Len(q)
  OBVIOUS
<1>2. PICK a \in Byte, b \in Byte, c \in Byte, d \in Byte :
        a = q[at + 1] /\ b = q[at + 2] /\ c = o[at + 1] /\ d = o[at + 2]
  BY <1>1, ElementOfSeq
<1>3. a * 256 + b = c * 256 + d
  BY <1>2, Zenon DEF Number2
<1>4. a = c /\ b = d
  BY <1>3 DEF Byte
<1>5. QED
  BY <1>2, <1>4

\* The two numbers of 16 bits add to fixed + n, in 32 bits, to make the size.
MakeSize(fixed, n, hi, lo, size) ==
  /\ (fixed + n + lo) % 65536 = size % 65536
  /\ (hi + (fixed + n + lo) \div 65536) % 65536 = size \div 65536

LEMMA AgreesIs ==
  ASSUME NEW q, NEW fixed, NEW n, NEW at
  PROVE  SizeAgrees(q, fixed + n, at)
           <=> MakeSize(fixed, n, Number2(q, at), Number2(q, at + 2), Len(q))
BY SMT DEF SizeAgrees, MakeSize

\* They make one size.
LEMMA OneSize ==
  ASSUME NEW fixed \in Nat, NEW n \in Word16, NEW hi \in Word16, NEW lo \in Word16,
         NEW a \in Nat, NEW b \in Nat,
         MakeSize(fixed, n, hi, lo, a), MakeSize(fixed, n, hi, lo, b)
  PROVE  a = b
<1>1. a % 65536 = b % 65536 /\ a \div 65536 = b \div 65536
  BY SMT DEF MakeSize, Word16
<1>2. QED
  BY <1>1, HalvesAreAll

\* A byte string of another size with the same lengths does not agree.
LEMMA OtherSize ==
  ASSUME NEW q, NEW fixed \in Nat, NEW n \in Word16, NEW at,
         SizeAgrees(q, fixed + n, at),
         Number2(q, at) \in Word16, Number2(q, at + 2) \in Word16, Len(q) \in Nat,
         NEW o, Len(o) \in Nat, Len(o) # Len(q),
         Number2(o, at) = Number2(q, at), Number2(o, at + 2) = Number2(q, at + 2)
  PROVE  ~SizeAgrees(o, fixed + n, at)
<1> SUFFICES ASSUME SizeAgrees(o, fixed + n, at)
             PROVE  Len(o) = Len(q)
  OBVIOUS
<1>1. /\ MakeSize(fixed, n, Number2(q, at), Number2(q, at + 2), Len(q))
      /\ MakeSize(fixed, n, Number2(q, at), Number2(q, at + 2), Len(o))
  BY AgreesIs, Zenon
<1>2. QED
  BY <1>1, OneSize, Zenon

\* One of the three 16-bit numbers of the lengths is another, in a packet of the same
\* size.
LEMMA OtherLengths ==
  ASSUME NEW q, NEW o, Len(q) \in Nat, Len(o) = Len(q), NEW fixed \in Nat, NEW at,
         NEW n \in Word16, NEW m \in Word16,
         \A p \in {q, o} : Number2(p, at) \in Word16 /\ Number2(p, at + 2) \in Word16,
         SizeAgrees(q, fixed + n, at), SizeAgrees(o, fixed + m, at),
         n = m \/ Number2(q, at + 2) = Number2(o, at + 2)
  PROVE  n = m /\ Number2(q, at) = Number2(o, at) /\ Number2(q, at + 2) = Number2(o, at + 2)
<1>1. PICK hi \in Word16, lo \in Word16, high \in Word16, low \in Word16 :
        /\ hi = Number2(q, at) /\ lo = Number2(q, at + 2)
        /\ high = Number2(o, at) /\ low = Number2(o, at + 2)
  OBVIOUS
<1>2. MakeSize(fixed, n, hi, lo, Len(q)) /\ MakeSize(fixed, m, high, low, Len(q))
  BY <1>1, AgreesIs, Zenon
<1>3. n \in Nat /\ m \in Nat /\ lo \in Nat /\ low \in Nat /\ hi \in Nat /\ high \in Nat
  BY SMT DEF Word16
<1>4. /\ (fixed + n + lo) % 65536 = (fixed + m + low) % 65536
      /\ (hi + (fixed + n + lo) \div 65536) % 65536
           = (high + (fixed + m + low) \div 65536) % 65536
  BY <1>2, <1>3, SMT DEF MakeSize
<1>5. ASSUME n = m
      PROVE  lo = low
  BY <1>3, <1>4, <1>5, SMT DEF Word16
<1>6. ASSUME lo = low
      PROVE  n = m
  BY <1>3, <1>4, <1>6, SMT DEF Word16
<1>7. n = m /\ lo = low
  BY <1>1, <1>5, <1>6
<1>8. hi = high
  <2>1. PICK a \in Nat : a = (fixed + n + lo) \div 65536
    BY <1>3, SMT
  <2>2. (a + hi) % 65536 = (a + high) % 65536
    BY <1>3, <1>4, <1>7, <2>1, SMT
  <2>3. QED
    BY <2>2, HalvesToldApart, SMT
<1>9. QED
  BY <1>1, <1>7, <1>8

\* What a packet is taken for, if its sizes do not agree or its version is another.
LEMMA RequestTakenForNothing ==
  ASSUME NEW o \in Seq(Byte), o # <<>>,
         \/ o[1] # PacketVersion \/ ~(Len(o) >= 18)
         \/ ~SizeAgrees(o, 18 + Number2(o, 12), 14)
  PROVE  UnpackRequest(o) = Null /\ AsUnpackRequest(o) = Null
<1>1. Len(o) < RequestFixPart <=> ~(Len(o) >= RequestFixPart)
  BY SMT DEF RequestFixPart
<1>2. \/ o[1] # PacketVersion \/ ~(Len(o) >= RequestFixPart)
      \/ ~SizeAgrees(o, RequestFixPart + Number2(o, 12), 14)
  BY Zenon DEF RequestFixPart
<1>3. QED
  BY <1>1, <1>2, Zenon DEF UnpackRequest, RequestWellFormed, AsUnpackRequest

LEMMA ResponseTakenForNothing ==
  ASSUME NEW o \in Seq(Byte), o # <<>>,
         \/ o[1] # PacketVersion \/ ~(Len(o) >= 16) \/ ~SizeAgrees(o, 16, 12)
  PROVE  UnpackResponse(o) = Null /\ AsUnpackResponse(o) = Null
<1>1. Len(o) < ResponseFixPart <=> ~(Len(o) >= ResponseFixPart)
  BY SMT DEF ResponseFixPart
<1>2. \/ o[1] # PacketVersion \/ ~(Len(o) >= ResponseFixPart)
      \/ ~SizeAgrees(o, ResponseFixPart, 12)
  BY Zenon DEF ResponseFixPart
<1>3. QED
  BY <1>1, <1>2, Zenon DEF UnpackResponse, AsUnpackResponse

\* Another byte at one place of a packet.
Changed(o, q, k) == /\ o \in Seq(Byte) /\ Len(o) = Len(q) /\ o[k] # q[k]
                    /\ \A i \in 1 .. Len(q) : i # k => o[i] = q[i]

LEMMA ChangedOnce ==
  ASSUME NEW q \in Seq(Byte), NEW k \in Nat, k \in 1 .. Len(q), NEW b \in 0 .. 255, b # q[k]
  PROVE  Changed([q EXCEPT ![k] = b], q, k)
<1>1. b \in Byte
  BY DEF Byte
<1>2. [q EXCEPT ![k] = b] \in Seq(Byte) /\ Len([q EXCEPT ![k] = b]) = Len(q)
      /\ [q EXCEPT ![k] = b][k] = b
      /\ \A i \in 1 .. Len(q) : i # k => [q EXCEPT ![k] = b][i] = q[i]
  BY <1>1, ExceptSeq
<1>3. QED
  BY <1>2 DEF Changed

\* A byte that is another makes one of the numbers another, and leaves the rest.
LEMMA PairChanged ==
  ASSUME NEW q \in Seq(Byte), NEW o, NEW k \in 13 .. 16, Changed(o, q, k), Len(q) >= 16
  PROVE  Number2(q, 12) # Number2(o, 12) \/ Number2(q, 12 + 2) # Number2(o, 12 + 2)
<1>1. o \in Seq(Byte) /\ Len(o) = Len(q) /\ o[k] # q[k]
  BY SMT DEF Changed
<1>2. 12 + 2 <= Len(q) /\ 12 + 2 + 2 <= Len(q) /\ 12 \in Nat /\ 12 + 2 \in Nat
  BY SMT
<1>3. k \in {12 + 1, 12 + 2, 12 + 2 + 1, 12 + 2 + 2}
  BY SMT
<1>4. QED
  BY <1>1, <1>2, <1>3, BytesOfHalfWord, SMT

LEMMA NumbersChanged ==
  ASSUME NEW q \in Seq(Byte), NEW o, NEW k \in 13 .. 18, Changed(o, q, k), Len(q) >= 18
  PROVE  /\ Number2(q, 12) = Number2(o, 12) \/ Number2(q, 14 + 2) = Number2(o, 14 + 2)
         /\ \/ Number2(q, 12) # Number2(o, 12) \/ Number2(q, 14) # Number2(o, 14)
            \/ Number2(q, 14 + 2) # Number2(o, 14 + 2)
<1>1. o \in Seq(Byte) /\ Len(o) = Len(q) /\ o[k] # q[k]
      /\ \A i \in 1 .. Len(q) : i # k => o[i] = q[i]
  BY SMT DEF Changed
<1>2. 12 + 2 <= Len(q) /\ 14 + 2 <= Len(q) /\ 14 + 2 + 2 <= Len(q)
      /\ 12 \in Nat /\ 14 \in Nat /\ 14 + 2 \in Nat
  BY SMT
<1>3. k \in {12 + 1, 12 + 2, 14 + 1, 14 + 2, 14 + 2 + 1, 14 + 2 + 2}
  BY SMT
<1>4. \/ Number2(q, 12) # Number2(o, 12) \/ Number2(q, 14) # Number2(o, 14)
      \/ Number2(q, 14 + 2) # Number2(o, 14 + 2)
  BY <1>1, <1>2, <1>3, BytesOfHalfWord, SMT
<1>5. CASE k >= 15
  <2>1. 12 + 1 \in 1 .. Len(q) /\ 12 + 2 \in 1 .. Len(q) /\ 12 + 1 # k /\ 12 + 2 # k
    BY <1>5, SMT
  <2>2. o[12 + 1] = q[12 + 1] /\ o[12 + 2] = q[12 + 2]
    BY <1>1, <2>1, SMT
  <2>3. Number2(q, 12) = Number2(o, 12)
    BY <2>2, Zenon DEF Number2
  <2>4. QED
    BY <1>4, <2>3, SMT
<1>6. CASE ~(k >= 15)
  <2>1. /\ 14 + 2 + 1 \in 1 .. Len(q) /\ 14 + 2 + 2 \in 1 .. Len(q)
        /\ 14 + 2 + 1 # k /\ 14 + 2 + 2 # k
    BY <1>6, SMT
  <2>2. o[14 + 2 + 1] = q[14 + 2 + 1] /\ o[14 + 2 + 2] = q[14 + 2 + 2]
    BY <1>1, <2>1, SMT
  <2>3. Number2(q, 14 + 2) = Number2(o, 14 + 2)
    BY <2>2, Zenon DEF Number2
  <2>4. QED
    BY <1>4, <2>3, SMT
<1>7. QED
  BY <1>5, <1>6, SMT

\* The version of what is packed.
LEMMA LaidVersion ==
  /\ \A r \in Request : \A q : RequestLaid(q, r) => q[1] = PacketVersion
  /\ \A r \in Response : \A q : ResponseLaid(q, r) => q[1] = PacketVersion
<1>1. ASSUME NEW r, NEW q, RequestLaid(q, r) \/ ResponseLaid(q, r)
      PROVE  q[1] = PacketVersion
  BY <1>1, Zenon DEF RequestLaid, ResponseLaid, FrontRead
<1>2. QED
  BY <1>1, Zenon

\* The size of a packet agrees with its lengths.
LEMMA LaidAgrees ==
  /\ \A r \in Request : \A q : RequestLaid(q, r) =>
       /\ q \in Seq(Byte) /\ Len(q) >= 18 /\ SizeAgrees(q, 18 + Number2(q, 12), 14)
  /\ \A r \in Response : \A q : ResponseLaid(q, r) =>
       /\ q \in Seq(Byte) /\ Len(q) >= 16 /\ SizeAgrees(q, 16, 12)
<1>1. ASSUME NEW r \in Request, NEW q, RequestLaid(q, r)
      PROVE  q \in Seq(Byte) /\ Len(q) >= 18 /\ SizeAgrees(q, 18 + Number2(q, 12), 14)
  <2>1. PICK n \in Nat, k \in Nat :
          /\ n = Len(r.url) /\ k = Len(r.payload)
          /\ RequestFixPart + n + 1 + k < 65536 * 32768
    BY SMT DEF Request
  <2>5. RequestFixPart + n + 1 + k < 65536 * 32768
    BY <2>1
  <2>2. 18 + (n + 1) + k \in Word32
    BY ONLY n \in Nat, k \in Nat, <2>5, SMT DEF RequestFixPart, Word32
  <2>3. /\ q \in Seq(Byte) /\ Len(q) = 18 + (n + 1) + k
        /\ Number2(q, 12) = n + 1 /\ Number4(q, 14) = k
    <3>1. n = Len(r.url) /\ k = Len(r.payload)
      BY <2>1, SMT
    <3>2. QED
      BY <1>1, <3>1, Zenon DEF RequestLaid
  <2>4. SizeAgrees(q, 18 + (n + 1), 14)
    BY <2>2, <2>3, RequestAgrees, Zenon
  <2>6. Len(q) >= 18
    BY <2>3
  <2>7. QED
    BY <2>3, <2>4, <2>6, Zenon
<1>2. ASSUME NEW r \in Response, NEW q, ResponseLaid(q, r)
      PROVE  q \in Seq(Byte) /\ Len(q) >= 16 /\ SizeAgrees(q, 16, 12)
  <2>1. PICK k \in Nat : k = Len(r.payload) /\ ResponseFixPart + k < 65536 * 32768
    BY SMT DEF Response
  <2>2. 16 + k \in Word32 /\ k = Len(r.payload)
    BY <2>1, ResponseWord, SMT
  <2>3. q \in Seq(Byte) /\ Len(q) = 16 + k /\ Number4(q, 12) = k
    BY <1>2, <2>2, Zenon DEF ResponseLaid
  <2>4. SizeAgrees(q, 16, 12)
    BY <2>2, <2>3, ResponseAgrees, Zenon
  <2>5. Len(q) >= 16
    BY <2>3
  <2>6. QED
    BY <2>3, <2>4, <2>5
<1>3. QED
  BY <1>1, <1>2, Zenon

LEMMA RequestRefused ==
  ASSUME NEW r \in Request, NEW q, RequestLaid(q, r), NEW o,
         Cut(o, q) \/ \E k \in {1} \cup 13 .. 18 : Changed(o, q, k)
  PROVE  UnpackRequest(o) = Null /\ AsUnpackRequest(o) = Null
<1>1. q \in Seq(Byte) /\ Len(q) >= 18 /\ Len(q) \in Nat
      /\ SizeAgrees(q, 18 + Number2(q, 12), 14)
  BY LaidAgrees, LenProperties, SMT
<1>2. CASE Cut(o, q)
  <2>1. o \in Seq(Byte) /\ Len(o) \in Nat /\ Len(o) # Len(q) /\ o # <<>>
    BY <1>2, SMT DEF Cut
  <2>2. ASSUME Len(o) >= 18
        PROVE  ~SizeAgrees(o, 18 + Number2(o, 12), 14)
    <3>1. /\ Number2(o, 12) = Number2(q, 12)
          /\ Number2(o, 14) = Number2(q, 14) /\ Number2(o, 14 + 2) = Number2(q, 14 + 2)
      BY <1>1, <1>2, <2>2, LengthsKept, SMT
    <3>2. Number2(q, 12) \in Word16 /\ Number2(q, 14) \in Word16 /\ Number2(q, 14 + 2) \in Word16
      BY <1>1, HalfWord, SMT
    <3>3. 18 \in Nat
      OBVIOUS
    <3>4. ~SizeAgrees(o, 18 + Number2(q, 12), 14)
      BY <1>1, <2>1, <3>1, <3>2, <3>3, OtherSize, Zenon
    <3>5. QED
      BY <3>1, <3>4, Zenon
  <2>3. QED
    BY <2>1, <2>2, RequestTakenForNothing, SMT
<1>3. ASSUME NEW k \in {1} \cup 13 .. 18, Changed(o, q, k)
      PROVE  UnpackRequest(o) = Null /\ AsUnpackRequest(o) = Null
  <2>1. o \in Seq(Byte) /\ Len(o) = Len(q) /\ o # <<>> /\ Len(o) >= 18
    BY <1>1, <1>3, SMT DEF Changed
  <2>2. CASE k = 1
    BY <1>3, <2>1, <2>2, LaidVersion, RequestTakenForNothing, SMT DEF Changed
  <2>3. ASSUME k # 1, SizeAgrees(o, 18 + Number2(o, 12), 14)
        PROVE  FALSE
    <3>1. /\ \A p \in {q, o} : /\ Number2(p, 12) \in Word16
                               /\ Number2(p, 14) \in Word16 /\ Number2(p, 14 + 2) \in Word16
      BY <1>1, <2>1, HalfWord, SMT
    <3>2. k \in 13 .. 18
      BY <2>3, SMT
    <3>3. Number2(q, 12) = Number2(o, 12) \/ Number2(q, 14 + 2) = Number2(o, 14 + 2)
      BY <1>1, <1>3, <3>2, NumbersChanged, SMT
    <3>4. /\ Number2(q, 12) = Number2(o, 12) /\ Number2(q, 14) = Number2(o, 14)
          /\ Number2(q, 14 + 2) = Number2(o, 14 + 2)
      BY <1>1, <2>1, <2>3, <3>1, <3>3, OtherLengths, SMT
    <3>5. QED
      BY <1>1, <1>3, <3>2, <3>4, NumbersChanged, SMT
  <2>4. QED
    BY <2>1, <2>2, <2>3, RequestTakenForNothing, SMT
<1>4. QED
  BY <1>2, <1>3, SMT

LEMMA Sixteen == 16 \in Nat /\ 0 \in Word16 /\ 16 + 0 = 16
BY SMT DEF Word16

LEMMA ResponseRefused ==
  ASSUME NEW r \in Response, NEW q, ResponseLaid(q, r), NEW o,
         Cut(o, q) \/ \E k \in {1} \cup 13 .. 16 : Changed(o, q, k)
  PROVE  UnpackResponse(o) = Null /\ AsUnpackResponse(o) = Null
<1>1. q \in Seq(Byte) /\ Len(q) >= 16 /\ Len(q) \in Nat /\ SizeAgrees(q, 16, 12)
  BY LaidAgrees, LenProperties, SMT
<1>2. CASE Cut(o, q)
  <2>1. o \in Seq(Byte) /\ Len(o) \in Nat /\ Len(o) # Len(q) /\ o # <<>>
    BY <1>2, SMT DEF Cut
  <2>2. ASSUME Len(o) >= 16
        PROVE  ~SizeAgrees(o, 16, 12)
    <3>1. Number2(o, 12) = Number2(q, 12) /\ Number2(o, 12 + 2) = Number2(q, 12 + 2)
      BY <1>1, <1>2, <2>2, LengthsKept, SMT
    <3>2. Number2(q, 12) \in Word16 /\ Number2(q, 12 + 2) \in Word16
      BY <1>1, HalfWord, SMT
    <3>3. PICK fixed \in Nat, n \in Word16 : fixed + n = 16
      BY Sixteen, Zenon
    <3>4. SizeAgrees(q, fixed + n, 12)
      BY <1>1, <3>3, Zenon
    <3>5. ~SizeAgrees(o, fixed + n, 12)
      BY <1>1, <2>1, <3>1, <3>2, <3>4, OtherSize, Zenon
    <3>6. QED
      BY <3>3, <3>5, Zenon
  <2>3. QED
    BY <2>1, <2>2, ResponseTakenForNothing, SMT
<1>3. ASSUME NEW k \in {1} \cup 13 .. 16, Changed(o, q, k)
      PROVE  UnpackResponse(o) = Null /\ AsUnpackResponse(o) = Null
  <2>1. o \in Seq(Byte) /\ Len(o) = Len(q) /\ o # <<>> /\ Len(o) >= 16
    BY <1>1, <1>3, SMT DEF Changed
  <2>2. CASE k = 1
    BY <1>3, <2>1, <2>2, LaidVersion, ResponseTakenForNothing, SMT DEF Changed
  <2>3. ASSUME k # 1, SizeAgrees(o, 16, 12)
        PROVE  FALSE
    <3>1. \A p \in {q, o} : Number2(p, 12) \in Word16 /\ Number2(p, 12 + 2) \in Word16
      BY <1>1, <2>1, HalfWord, SMT
    <3>2. k \in 13 .. 16
      BY <2>3, SMT
    <3>3. PICK fixed \in Nat, n \in Word16 : fixed + n = 16
      BY Sixteen, Zenon
    <3>4. SizeAgrees(q, fixed + n, 12) /\ SizeAgrees(o, fixed + n, 12)
      BY <1>1, <2>3, <3>3, SMT
    <3>5. Number2(q, 12) = Number2(o, 12) /\ Number2(q, 12 + 2) = Number2(o, 12 + 2)
      BY <1>1, <2>1, <3>1, <3>4, OtherLengths, SMT
    <3>6. QED
      BY <1>1, <1>3, <3>2, <3>5, PairChanged, SMT
  <2>4. QED
    BY <2>1, <2>2, <2>3, ResponseTakenForNothing, SMT
<1>4. QED
  BY <1>2, <1>3, SMT

-----------------------------------------------------------------------------
\* Only samples are called with.
SampleGiven ==
  /\ sample.call = "request"  => sample.r \in SampleRequests
  /\ sample.call = "response" => sample.r \in SampleResponses

LEMMA SamplesAreGiven == RestfulSpec => []SampleGiven
<1>1. RestfulInit => SampleGiven
  BY DEF RestfulInit, SampleGiven
<1>2. SampleGiven /\ [RestfulNext]_restfulVars => SampleGiven'
  <2> SUFFICES ASSUME SampleGiven, [RestfulNext]_restfulVars
               PROVE  SampleGiven'
    OBVIOUS
  <2>1. CASE CallPack
    BY <2>1 DEF CallPack, SampleGiven
  <2>2. CASE CallMatch
    BY <2>2 DEF CallMatch, SampleGiven
  <2>3. CASE CallHandler
    BY <2>3 DEF CallHandler, SampleGiven
  <2>4. CASE CallFind
    BY <2>4 DEF CallFind, SampleGiven
  <2>5. CASE UNCHANGED restfulVars
    BY <2>5 DEF restfulVars, SampleGiven
  <2>6. QED
    BY <2>1, <2>2, <2>3, <2>4, <2>5 DEF RestfulNext
<1>3. QED
  BY <1>1, <1>2, PTL DEF RestfulSpec

\* Whatever the fields of a message hold and however long its URL and its payload
\* are, as long as the fields have room for the lengths, each of the two libraries
\* reads back what either packs, and reads nothing from a packet that is cut short, is
\* followed by a stray byte, or has another byte for its version or in one of its
\* lengths (restful_utils.c:48 and :93, request.ts:255).
THEOREM PacketsSurvive ==
  ASSUME SampleRequests \subseteq Request, SampleResponses \subseteq Response
  PROVE  RestfulSpec => []PacketsReadBack
<1>1. SampleGiven => PacketsReadBack
  <2> SUFFICES ASSUME SampleGiven
               PROVE  PacketsReadBack
    OBVIOUS
  <2>1. ASSUME sample.call = "request",
               NEW packet \in {PackRequest(sample.r), AsPackRequest(sample.r)}
        PROVE  /\ /\ UnpackRequest(packet) = sample.r
                  /\ \A other \in {SubSeq(packet, 1, n) : n \in 1 .. Len(packet) - 1}
                                     \cup {Append(packet, 0)} : UnpackRequest(other) = Null
                  /\ \A i \in {1} \cup 13 .. 18 : \A b \in 0 .. 255 :
                       b # packet[i] => UnpackRequest([packet EXCEPT ![i] = b]) = Null
               /\ /\ AsUnpackRequest(packet) = sample.r
                  /\ \A other \in {SubSeq(packet, 1, n) : n \in 1 .. Len(packet) - 1}
                                     \cup {Append(packet, 0)} : AsUnpackRequest(other) = Null
                  /\ \A i \in {1} \cup 13 .. 18 : \A b \in 0 .. 255 :
                       b # packet[i] => AsUnpackRequest([packet EXCEPT ![i] = b]) = Null
    <3>1. PICK r \in Request : r = sample.r
      BY <2>1 DEF SampleGiven
    <3>2. RequestLaid(packet, r)
      BY <2>1, <3>1, RequestParts
    <3>3. packet \in Seq(Byte) /\ packet # <<>>
      <4>1. PICK s \in Seq(1 .. 255), payload \in Seq(Byte) : s = r.url /\ payload = r.payload
        BY DEF Request
      <4>2. packet \in Seq(Byte) /\ Len(packet) = 18 + (Len(s) + 1) + Len(payload)
        BY <3>2, <4>1, Zenon DEF RequestLaid
      <4>3. Len(packet) # 0
        BY <4>2
      <4>4. QED
        BY <4>2, <4>3
    <3>4. \A other \in {SubSeq(packet, 1, n) : n \in 1 .. Len(packet) - 1}
                         \cup {Append(packet, 0)} : Cut(other, packet)
      BY <3>3, Cuts
    <3>5. UnpackRequest(packet) = r /\ AsUnpackRequest(packet) = r
      BY <3>2, RequestReadBack
    <3>6. \A other \in {SubSeq(packet, 1, n) : n \in 1 .. Len(packet) - 1}
                         \cup {Append(packet, 0)} :
            UnpackRequest(other) = Null /\ AsUnpackRequest(other) = Null
      BY <3>2, <3>4, RequestRefused, Zenon
    <3>7. ASSUME NEW i \in {1} \cup 13 .. 18, NEW b \in 0 .. 255, b # packet[i]
          PROVE  /\ UnpackRequest([packet EXCEPT ![i] = b]) = Null
                 /\ AsUnpackRequest([packet EXCEPT ![i] = b]) = Null
      <4>1. Len(packet) \in Nat /\ Len(packet) >= 18
        BY <3>2, <3>3, LaidAgrees
      <4>2. i \in Nat /\ i \in 1 .. Len(packet)
        BY <4>1
      <4>3. Changed([packet EXCEPT ![i] = b], packet, i)
        BY <3>3, <3>7, <4>2, ChangedOnce
      <4>4. QED
        BY <3>2, <4>3, RequestRefused, Zenon
    <3>8. QED
      BY <3>1, <3>5, <3>6, <3>7, Zenon
  <2>2. ASSUME sample.call = "response",
               NEW packet \in {PackResponse(sample.r), AsPackResponse(sample.r)}
        PROVE  /\ /\ UnpackResponse(packet) = sample.r
                  /\ \A other \in {SubSeq(packet, 1, n) : n \in 1 .. Len(packet) - 1}
                                     \cup {Append(packet, 0)} : UnpackResponse(other) = Null
                  /\ \A i \in {1} \cup 13 .. 16 : \A b \in 0 .. 255 :
                       b # packet[i] => UnpackResponse([packet EXCEPT ![i] = b]) = Null
               /\ /\ AsUnpackResponse(packet) = sample.r
                  /\ \A other \in {SubSeq(packet, 1, n) : n \in 1 .. Len(packet) - 1}
                                     \cup {Append(packet, 0)} : AsUnpackResponse(other) = Null
                  /\ \A i \in {1} \cup 13 .. 16 : \A b \in 0 .. 255 :
                       b # packet[i] => AsUnpackResponse([packet EXCEPT ![i] = b]) = Null
    <3>1. PICK r \in Response : r = sample.r
      BY <2>2 DEF SampleGiven
    <3>2. ResponseLaid(packet, r)
      BY <2>2, <3>1, ResponseParts
    <3>3. packet \in Seq(Byte) /\ packet # <<>>
      <4>1. PICK payload \in Seq(Byte) : payload = r.payload
        BY DEF Response
      <4>2. packet \in Seq(Byte) /\ Len(packet) = 16 + Len(payload)
        BY <3>2, <4>1, Zenon DEF ResponseLaid
      <4>3. Len(packet) # 0
        BY <4>2
      <4>4. QED
        BY <4>2, <4>3
    <3>4. \A other \in {SubSeq(packet, 1, n) : n \in 1 .. Len(packet) - 1}
                         \cup {Append(packet, 0)} : Cut(other, packet)
      BY <3>3, Cuts
    <3>5. UnpackResponse(packet) = r /\ AsUnpackResponse(packet) = r
      BY <3>2, ResponseReadBack
    <3>6. \A other \in {SubSeq(packet, 1, n) : n \in 1 .. Len(packet) - 1}
                         \cup {Append(packet, 0)} :
            UnpackResponse(other) = Null /\ AsUnpackResponse(other) = Null
      BY <3>2, <3>4, ResponseRefused, Zenon
    <3>7. ASSUME NEW i \in {1} \cup 13 .. 16, NEW b \in 0 .. 255, b # packet[i]
          PROVE  /\ UnpackResponse([packet EXCEPT ![i] = b]) = Null
                 /\ AsUnpackResponse([packet EXCEPT ![i] = b]) = Null
      <4>1. Len(packet) \in Nat /\ Len(packet) >= 16
        BY <3>2, <3>3, LaidAgrees
      <4>2. i \in Nat /\ i \in 1 .. Len(packet)
        BY <4>1
      <4>3. Changed([packet EXCEPT ![i] = b], packet, i)
        BY <3>3, <3>7, <4>2, ChangedOnce
      <4>4. QED
        BY <3>2, <4>3, ResponseRefused, Zenon
    <3>8. QED
      BY <3>1, <3>5, <3>6, <3>7, Zenon
  <2>3. QED
    BY <2>1, <2>2, Zenon DEF PacketsReadBack
<1>2. QED
  BY <1>1, SamplesAreGiven, PTL

-----------------------------------------------------------------------------
(* Strings that begin with another.                                        *)

\* A string has no NUL in it.
Char == 1 .. 255

\* A string begins with another one.
BeginsWith(stem, s) == Len(stem) <= Len(s) /\ \A i \in 1 .. Len(stem) : s[i] = stem[i]

LEMMA TailOf ==
  ASSUME NEW S, NEW s \in Seq(S), NEW n \in 1 .. Len(s) + 1
  PROVE  /\ SubSeq(s, n, Len(s)) \in Seq(S) /\ Len(SubSeq(s, n, Len(s))) = Len(s) - n + 1
         /\ \A i \in 1 .. Len(s) - n + 1 : SubSeq(s, n, Len(s))[i] = s[n + i - 1]
<1>1. Len(s) \in Nat /\ n \in Int
  OBVIOUS
<1>2. \A i \in n .. Len(s) : s[i] \in S
  <2>1. \A i \in n .. Len(s) : i \in 1 .. Len(s)
    BY <1>1
  <2>2. QED
    BY <2>1, ElementOfSeq
<1>3. QED
  BY <1>1, <1>2, SubSeqProperties

\* What is behind the string a sequence begins with.
LEMMA BehindStem ==
  ASSUME NEW S, NEW s \in Seq(S), NEW stem \in Seq(S), NEW n \in 1 .. Len(s) + 1,
         s = stem \o SubSeq(s, n, Len(s))
  PROVE  /\ BeginsWith(stem, s)
         /\ SubSeq(s, n, Len(s)) = <<>> <=> Len(s) = Len(stem)
         /\ Len(s) # Len(stem) => Head(SubSeq(s, n, Len(s))) = s[Len(stem) + 1]
<1>1. PICK t \in Seq(S) : t = SubSeq(s, n, Len(s))
  BY TailOf
<1>2. s = stem \o t
  BY <1>1
<1>3. Len(stem \o t) = Len(stem) + Len(t)
  BY Joined
<1>4. Len(s) = Len(stem) + Len(t) /\ Len(s) \in Nat /\ Len(stem) \in Nat /\ Len(t) \in Nat
  BY <1>2, <1>3
<1>5. \A i \in 1 .. Len(stem) : (stem \o t)[i] = stem[i]
  BY JoinedFirst
<1>6. BeginsWith(stem, s)
  BY <1>2, <1>4, <1>5 DEF BeginsWith
<1>7. t = <<>> <=> Len(s) = Len(stem)
  BY <1>4
<1>8. ASSUME Len(s) # Len(stem)
      PROVE  Head(t) = s[Len(stem) + 1]
  <2>1. 1 \in 1 .. Len(t)
    BY <1>4, <1>8
  <2>2. (stem \o t)[Len(stem) + 1] = t[1]
    BY <2>1, JoinedSecond
  <2>3. Head(t) = t[1]
    OBVIOUS
  <2>4. QED
    BY <1>2, <2>2, <2>3
<1>9. QED
  BY <1>1, <1>6, <1>7, <1>8

LEMMA StemAndRest ==
  ASSUME NEW S, NEW s \in Seq(S), NEW stem \in Seq(S), BeginsWith(stem, s)
  PROVE  /\ Len(stem) + 1 \in 1 .. Len(s) + 1
         /\ s = stem \o SubSeq(s, Len(stem) + 1, Len(s))
<1>1. Len(s) \in Nat /\ Len(stem) \in Nat /\ Len(stem) <= Len(s)
  BY DEF BeginsWith
<1>2. PICK n \in 1 .. Len(s) + 1 : n = Len(stem) + 1
  BY <1>1
<1>3. PICK t \in Seq(S) :
        /\ t = SubSeq(s, n, Len(s)) /\ Len(t) = Len(s) - n + 1
        /\ \A i \in 1 .. Len(s) - n + 1 : t[i] = s[n + i - 1]
  <2>1. /\ SubSeq(s, n, Len(s)) \in Seq(S) /\ Len(SubSeq(s, n, Len(s))) = Len(s) - n + 1
        /\ \A i \in 1 .. Len(s) - n + 1 : SubSeq(s, n, Len(s))[i] = s[n + i - 1]
    BY TailOf
  <2>2. QED
    BY <2>1, Zenon
<1>4. PICK z \in Seq(S) : z = stem \o t /\ Len(z) = Len(stem) + Len(t)
  BY Joined
<1>5. Len(z) = Len(s)
  BY <1>1, <1>2, <1>3, <1>4
<1>6. \A i \in 1 .. Len(s) : z[i] = s[i]
  <2> SUFFICES ASSUME NEW i \in 1 .. Len(s)
               PROVE  z[i] = s[i]
    OBVIOUS
  <2>1. CASE i <= Len(stem)
    <3>1. i \in 1 .. Len(stem)
      BY <1>1, <2>1
    <3>2. z[i] = stem[i]
      BY <1>4, <3>1, JoinedFirst
    <3>3. QED
      BY <3>1, <3>2 DEF BeginsWith
  <2>2. CASE ~(i <= Len(stem))
    <3>1. PICK j \in 1 .. Len(t) : i = Len(stem) + j
      <4>1. i - Len(stem) \in 1 .. Len(t) /\ i = Len(stem) + (i - Len(stem))
        BY <1>1, <1>2, <1>3, <2>2
      <4>2. QED
        BY <4>1
    <3>2. z[i] = t[j]
      BY <1>4, <3>1, JoinedSecond
    <3>3. t[j] = s[n + j - 1] /\ n + j - 1 = i
      BY <1>1, <1>2, <1>3, <3>1
    <3>4. QED
      BY <3>2, <3>3
  <2>3. QED
    BY <2>1, <2>2
<1>7. z = s
  BY <1>5, <1>6, SeqEqual
<1>8. QED
  BY <1>2, <1>3, <1>4, <1>7

\* To begin with a string is to be that string and a tail.
LEMMA GoesOn ==
  ASSUME NEW S, NEW s \in Seq(S), NEW stem \in Seq(S)
  PROVE  BeginsWith(stem, s) <=> \E n \in 1 .. Len(s) + 1 : s = stem \o SubSeq(s, n, Len(s))
<1>1. ASSUME BeginsWith(stem, s)
      PROVE  \E n \in 1 .. Len(s) + 1 : s = stem \o SubSeq(s, n, Len(s))
  BY <1>1, StemAndRest
<1>2. ASSUME NEW n \in 1 .. Len(s) + 1, s = stem \o SubSeq(s, n, Len(s))
      PROVE  BeginsWith(stem, s)
  BY <1>2, BehindStem
<1>3. QED
  BY <1>1, <1>2, Zenon

LEMMA LeadingIs ==
  ASSUME NEW s \in Seq(Char), NEW stem \in Seq(Char)
  PROVE  LeadingMatches(s, stem) <=>
           /\ BeginsWith(stem, s)
           /\ Len(s) = Len(stem) \/ s[Len(stem) + 1] \in {Slash, Query}
<1>1. ASSUME NEW n \in 1 .. Len(s) + 1, s = stem \o SubSeq(s, n, Len(s)),
             SubSeq(s, n, Len(s)) = <<>> \/ Head(SubSeq(s, n, Len(s))) \in {Slash, Query}
      PROVE  /\ BeginsWith(stem, s)
             /\ Len(s) = Len(stem) \/ s[Len(stem) + 1] \in {Slash, Query}
  BY <1>1, BehindStem
<1>2. ASSUME BeginsWith(stem, s), Len(s) = Len(stem) \/ s[Len(stem) + 1] \in {Slash, Query}
      PROVE  LeadingMatches(s, stem)
  <2>1. PICK n \in 1 .. Len(s) + 1 : n = Len(stem) + 1 /\ s = stem \o SubSeq(s, n, Len(s))
    BY <1>2, StemAndRest
  <2>2. SubSeq(s, n, Len(s)) = <<>> \/ Head(SubSeq(s, n, Len(s))) \in {Slash, Query}
    BY <1>2, <2>1, BehindStem
  <2>3. QED
    BY <2>1, <2>2 DEF LeadingMatches
<1>3. QED
  BY <1>1, <1>2 DEF LeadingMatches

-----------------------------------------------------------------------------
(* URLs.                                                                   *)

\* A string without the slash it begins with, and without its last character.
LEMMA FirstSlash ==
  ASSUME NEW s \in Seq(Char)
  PROVE  /\ WithoutFirstSlash(s) \in Seq(Char)
         /\ \/ (s = <<>> \/ s[1] # Slash) /\ WithoutFirstSlash(s) = s
            \/ /\ s # <<>> /\ s[1] = Slash
               /\ Len(WithoutFirstSlash(s)) = Len(s) - 1
               /\ \A i \in 1 .. Len(s) - 1 : WithoutFirstSlash(s)[i] = s[i + 1]
<1>1. CASE s # <<>> /\ s[1] = Slash
  <2>1. /\ Tail(s) \in Seq(Char) /\ Len(Tail(s)) = Len(s) - 1
        /\ \A i \in 1 .. Len(s) - 1 : Tail(s)[i] = s[i + 1]
    BY <1>1, HeadTailProperties
  <2>2. WithoutFirstSlash(s) = Tail(s)
    BY <1>1 DEF WithoutFirstSlash
  <2>3. QED
    BY <1>1, <2>1, <2>2
<1>2. CASE ~(s # <<>> /\ s[1] = Slash)
  BY <1>2 DEF WithoutFirstSlash
<1>3. QED
  BY <1>1, <1>2

LEMMA LastOff ==
  ASSUME NEW s \in Seq(Char), s # <<>>
  PROVE  /\ WithoutLast(s) \in Seq(Char) /\ Len(WithoutLast(s)) = Len(s) - 1
         /\ \A i \in 1 .. Len(s) - 1 : WithoutLast(s)[i] = s[i]
<1>1. Len(s) \in Nat /\ Len(s) # 0
  OBVIOUS
<1>2. \A i \in 1 .. Len(s) - 1 : s[i] \in Char
  <2>1. \A i \in 1 .. Len(s) - 1 : i \in 1 .. Len(s)
    BY <1>1
  <2>2. QED
    BY <2>1, ElementOfSeq
<1>3. PICK m \in Nat : m = Len(s) - 1
  BY <1>1
<1>4. /\ SubSeq(s, 1, m) \in Seq(Char) /\ Len(SubSeq(s, 1, m)) = m
      /\ \A i \in 1 .. m : SubSeq(s, 1, m)[i] = s[i]
  BY <1>2, <1>3, SubSeqProperties
<1>5. QED
  BY <1>3, <1>4 DEF WithoutLast

LEMMA LastSlash ==
  ASSUME NEW s \in Seq(Char)
  PROVE  /\ WithoutLastSlash(s) \in Seq(Char)
         /\ \/ (s = <<>> \/ s[Len(s)] # Slash) /\ WithoutLastSlash(s) = s
            \/ /\ s # <<>> /\ s[Len(s)] = Slash
               /\ Len(WithoutLastSlash(s)) = Len(s) - 1
               /\ \A i \in 1 .. Len(s) - 1 : WithoutLastSlash(s)[i] = s[i]
<1>1. CASE s # <<>> /\ s[Len(s)] = Slash
  <2>1. WithoutLastSlash(s) = WithoutLast(s)
    BY <1>1 DEF WithoutLastSlash, EndsWith
  <2>2. QED
    BY <1>1, <2>1, LastOff
<1>2. CASE ~(s # <<>> /\ s[Len(s)] = Slash)
  BY <1>2 DEF WithoutLastSlash, EndsWith
<1>3. QED
  BY <1>1, <1>2

\* strncmp over the whole of the first string.
LEMMA ComparesPrefix ==
  ASSUME NEW a \in Seq(Char), NEW b \in Seq(Char), NEW n \in Nat, n <= Len(a)
  PROVE  SamePrefix(a, b, n) <=> n <= Len(b) /\ \A i \in 1 .. n : a[i] = b[i]
<1>1. Len(a) \in Nat /\ Len(b) \in Nat
  OBVIOUS
<1>2. ASSUME SamePrefix(a, b, n)
      PROVE  n <= Len(b) /\ \A i \in 1 .. n : a[i] = b[i]
  <2>1. \A i \in 1 .. n : i <= Len(b) /\ a[i] = b[i]
    BY <1>2 DEF SamePrefix
  <2>2. n = 0 \/ n \in 1 .. n
    OBVIOUS
  <2>3. QED
    BY <1>1, <2>1, <2>2
<1>3. ASSUME n <= Len(b), \A i \in 1 .. n : a[i] = b[i]
      PROVE  SamePrefix(a, b, n)
  BY <1>1, <1>3 DEF SamePrefix
<1>4. QED
  BY <1>2, <1>3

\* The offset of what is behind the leading string.
Offset(u) == Len(u) - Len(WithoutFirstSlash(u))

LEMMA StartIs ==
  ASSUME NEW u \in Seq(Char), NEW p \in Seq(Char), NEW m \in Seq(Char), NEW stem \in Seq(Char),
         m = WithoutFirstSlash(u), stem = WithoutLastSlash(WithoutFirstSlash(p))
  PROVE  /\ CheckUrlStart(u, p) > 0 <=> stem # <<>> /\ LeadingMatches(m, stem)
         /\ CheckUrlStart(u, p) > 0 =>
              \/ Len(m) = Len(stem) /\ CheckUrlStart(u, p) = Offset(u) + Len(stem)
              \/ /\ Len(m) > Len(stem) /\ m[Len(stem) + 1] \in {Slash, Query}
                 /\ CheckUrlStart(u, p) = Offset(u) + Len(stem) + 1
<1> DEFINE off == Offset(u)
           n == CheckUrlStart(u, p)
<1>1. Len(m) \in Nat /\ Len(stem) \in Nat /\ Len(u) \in Nat
  OBVIOUS
<1>2. off \in Nat
  <2>1. m = u \/ (u # <<>> /\ Len(m) = Len(u) - 1)
    <3>1. \/ WithoutFirstSlash(u) = u
          \/ u # <<>> /\ Len(WithoutFirstSlash(u)) = Len(u) - 1
      BY FirstSlash, Zenon
    <3>2. QED
      BY <3>1
  <2>2. off = Len(u) - Len(m)
    BY DEF Offset
  <2>3. QED
    BY <1>1, <2>1, <2>2
<1>3. n = IF Len(stem) = 0 \/ Len(m) < Len(stem) \/ ~SamePrefix(m, stem, Len(stem)) THEN 0
          ELSE IF Len(m) = Len(stem) THEN off + Len(stem)
          ELSE IF m[Len(stem) + 1] \in {Slash, Query} THEN off + Len(stem) + 1
          ELSE 0
  BY Zenon DEF CheckUrlStart, Offset
<1>4. stem # <<>> <=> Len(stem) # 0
  OBVIOUS
<1>5. Len(stem) <= Len(m) => (SamePrefix(m, stem, Len(stem)) <=> BeginsWith(stem, m))
  <2>1. ASSUME Len(stem) <= Len(m)
        PROVE  SamePrefix(m, stem, Len(stem)) <=> \A i \in 1 .. Len(stem) : m[i] = stem[i]
    <3>1. PICK k \in Nat : k = Len(stem)
      BY <1>1
    <3>2. SamePrefix(m, stem, k) <=> k <= Len(stem) /\ \A i \in 1 .. k : m[i] = stem[i]
      BY <2>1, <3>1, ComparesPrefix
    <3>3. QED
      BY <3>1, <3>2
  <2>2. QED
    BY <2>1 DEF BeginsWith
<1>6. LeadingMatches(m, stem) <=>
        BeginsWith(stem, m) /\ (Len(m) = Len(stem) \/ m[Len(stem) + 1] \in {Slash, Query})
  BY LeadingIs
<1>7. BeginsWith(stem, m) => Len(stem) <= Len(m)
  BY DEF BeginsWith
<1> HIDE DEF off, n
<1>8. n > 0 <=> /\ Len(stem) # 0 /\ BeginsWith(stem, m)
                /\ Len(m) = Len(stem) \/ m[Len(stem) + 1] \in {Slash, Query}
  BY <1>1, <1>2, <1>3, <1>5, <1>7
<1>9. n > 0 => \/ Len(m) = Len(stem) /\ n = off + Len(stem)
               \/ /\ Len(m) > Len(stem) /\ m[Len(stem) + 1] \in {Slash, Query}
                  /\ n = off + Len(stem) + 1
  BY <1>1, <1>2, <1>3
<1>10. QED
  BY <1>4, <1>6, <1>8, <1>9 DEF off, n

\* The beginning of a URL up to the offset, without its first slash.
LEMMA CutAtOffset ==
  ASSUME NEW u \in Seq(Char), NEW m \in Seq(Char), m = WithoutFirstSlash(u),
         NEW k \in Nat, 1 <= k, k <= Len(m)
  PROVE  /\ WithoutFirstSlash(SubSeq(u, 1, Offset(u) + k)) \in Seq(Char)
         /\ Len(WithoutFirstSlash(SubSeq(u, 1, Offset(u) + k))) = k
         /\ \A i \in 1 .. k : WithoutFirstSlash(SubSeq(u, 1, Offset(u) + k))[i] = m[i]
<1>1. Len(m) \in Nat /\ Len(u) \in Nat /\ Offset(u) = Len(u) - Len(m)
  BY DEF Offset
<1>2. \/ (u = <<>> \/ u[1] # Slash) /\ m = u
      \/ /\ u # <<>> /\ u[1] = Slash /\ Len(m) = Len(u) - 1
         /\ \A i \in 1 .. Len(u) - 1 : m[i] = u[i + 1]
  <2>1. \/ (u = <<>> \/ u[1] # Slash) /\ WithoutFirstSlash(u) = u
        \/ /\ u # <<>> /\ u[1] = Slash /\ Len(WithoutFirstSlash(u)) = Len(u) - 1
           /\ \A i \in 1 .. Len(u) - 1 : WithoutFirstSlash(u)[i] = u[i + 1]
    BY FirstSlash, Zenon
  <2>2. QED
    BY <2>1, Zenon
<1>3. PICK n \in Nat : n = Offset(u) + k /\ 1 <= n /\ n <= Len(u)
  BY <1>1, <1>2, SMTT(30)
<1>4. PICK v \in Seq(Char) :
        v = SubSeq(u, 1, n) /\ Len(v) = n /\ \A i \in 1 .. n : v[i] = u[i]
  <2>1. \A i \in 1 .. n : u[i] \in Char
    <3>1. \A i \in 1 .. n : i \in 1 .. Len(u)
      BY <1>1, <1>3
    <3>2. QED
      BY <3>1, ElementOfSeq
  <2>2. /\ SubSeq(u, 1, n) \in Seq(Char) /\ Len(SubSeq(u, 1, n)) = n
        /\ \A i \in 1 .. n : SubSeq(u, 1, n)[i] = u[i]
    BY <1>3, <2>1, SubSeqProperties
  <2>3. QED
    BY <2>2, Zenon
<1>5. v # <<>> /\ v[1] = u[1]
  BY <1>3, <1>4
<1>6. PICK w \in Seq(Char) :
        /\ w = WithoutFirstSlash(v)
        /\ \/ v[1] # Slash /\ w = v
           \/ /\ v[1] = Slash /\ Len(w) = Len(v) - 1
              /\ \A i \in 1 .. Len(v) - 1 : w[i] = v[i + 1]
  BY <1>5, FirstSlash, Zenon
<1>7. Len(w) = k /\ \A i \in 1 .. k : w[i] = m[i]
  <2>1. CASE u[1] # Slash
    <3>1. m = u /\ w = v /\ n = k
      BY <1>1, <1>2, <1>3, <1>5, <1>6, <2>1
    <3>2. QED
      BY <1>4, <3>1
  <2>2. CASE u[1] = Slash
    <3>1. u # <<>>
      BY <1>1, <1>3
    <3>2. /\ Len(m) = Len(u) - 1 /\ \A i \in 1 .. Len(u) - 1 : m[i] = u[i + 1]
          /\ Len(w) = n - 1 /\ \A i \in 1 .. n - 1 : w[i] = v[i + 1]
      BY <1>2, <1>4, <1>5, <1>6, <2>2, <3>1
    <3>3. n = k + 1
      BY <1>1, <1>3, <3>2
    <3>4. \A i \in 1 .. k : i + 1 \in 1 .. n /\ i \in 1 .. n - 1 /\ i \in 1 .. Len(u) - 1
      BY <1>1, <1>3, <3>3
    <3>5. \A i \in 1 .. k : w[i] = v[i + 1] /\ v[i + 1] = u[i + 1] /\ m[i] = u[i + 1]
      BY <1>4, <3>2, <3>4
    <3>6. n - 1 = k
      BY <3>3
    <3>7. QED
      BY <3>2, <3>5, <3>6
  <2>3. QED
    BY <2>1, <2>2
<1>8. WithoutFirstSlash(SubSeq(u, 1, Offset(u) + k)) = w
  BY <1>3, <1>4, <1>6, Zenon
<1>9. QED
  BY <1>7, <1>8

\* check_url_start accepts the URLs it should, and returns where the rest begins.
LEMMA StartMatches ==
  ASSUME NEW u \in Seq(Char), NEW p \in Seq(Char), NEW m \in Seq(Char), NEW stem \in Seq(Char),
         m = WithoutFirstSlash(u), stem = WithoutLastSlash(WithoutFirstSlash(p)),
         CheckUrlStart(u, p) > 0
  PROVE  \/ CheckUrlStart(u, p) = Len(u) /\ m = stem
         \/ WithoutFirstSlash(SubSeq(u, 1, CheckUrlStart(u, p)))
              \in {Append(stem, Slash), Append(stem, Query)}
<1>1. /\ Len(m) \in Nat /\ Len(stem) \in Nat /\ Len(u) \in Nat
      /\ Offset(u) = Len(u) - Len(m)
  BY DEF Offset
<1>2. \/ Len(m) = Len(stem) /\ CheckUrlStart(u, p) = Offset(u) + Len(stem)
      \/ /\ Len(m) > Len(stem) /\ m[Len(stem) + 1] \in {Slash, Query}
         /\ CheckUrlStart(u, p) = Offset(u) + Len(stem) + 1
  BY StartIs
<1>3. BeginsWith(stem, m)
  BY StartIs, LeadingIs
<1>4. CASE Len(m) = Len(stem) /\ CheckUrlStart(u, p) = Offset(u) + Len(stem)
  <2>1. \A i \in 1 .. Len(m) : m[i] = stem[i]
    BY <1>3, <1>4 DEF BeginsWith
  <2>2. m = stem
    BY <1>4, <2>1, SeqEqual
  <2>3. Offset(u) + Len(stem) = Len(u)
    <3>1. \A a, b, c \in Nat : b = c => (a - b) + c = a
      OBVIOUS
    <3>2. (Len(u) - Len(m)) + Len(stem) = Len(u)
      BY <1>1, <1>4, <3>1, Zenon
    <3>3. QED
      BY <1>1, <3>2, Zenon
  <2>4. QED
    BY <1>4, <2>2, <2>3, Zenon
<1>5. CASE /\ Len(m) > Len(stem) /\ m[Len(stem) + 1] \in {Slash, Query}
           /\ CheckUrlStart(u, p) = Offset(u) + Len(stem) + 1
  <2>1. PICK k \in Nat : k = Len(stem) + 1 /\ 1 <= k /\ k <= Len(m)
    BY <1>1, <1>5
  <2>2. PICK c \in {Slash, Query} : c = m[k]
    BY <1>5, <2>1
  <2>3. CheckUrlStart(u, p) = Offset(u) + k
    <3>1. Offset(u) \in Int
      BY <1>1
    <3>2. QED
      BY <1>1, <1>5, <2>1, <3>1
  <2>4. PICK w \in Seq(Char) :
          /\ w = WithoutFirstSlash(SubSeq(u, 1, Offset(u) + k)) /\ Len(w) = k
          /\ \A i \in 1 .. k : w[i] = m[i]
    BY <2>1, CutAtOffset
  <2>5. w = Append(stem, c)
    <3>1. c \in Char
      BY <2>2 DEF Char, Slash, Query
    <3>2. PICK z \in Seq(Char) :
            /\ z = Append(stem, c) /\ Len(z) = Len(stem) + 1 /\ z[Len(stem) + 1] = c
            /\ \A i \in 1 .. Len(stem) : z[i] = stem[i]
      <4>1. /\ Append(stem, c) \in Seq(Char) /\ Len(Append(stem, c)) = Len(stem) + 1
            /\ Append(stem, c)[Len(stem) + 1] = c
            /\ \A i \in 1 .. Len(stem) : Append(stem, c)[i] = stem[i]
        BY <3>1, AppendProperties
      <4>2. QED
        BY <4>1, Zenon
    <3>3. \A i \in 1 .. k : w[i] = z[i]
      <4> SUFFICES ASSUME NEW i \in 1 .. k
                   PROVE  m[i] = z[i]
        BY <2>4
      <4>1. i = k \/ i \in 1 .. Len(stem)
        BY <1>1, <2>1
      <4>2. QED
        BY <1>3, <2>1, <2>2, <3>2, <4>1 DEF BeginsWith
    <3>4. w = z
      BY <2>1, <2>4, <3>2, <3>3, SeqEqual
    <3>5. QED
      BY <3>2, <3>4
  <2>6. QED
    BY <2>2, <2>3, <2>4, <2>5
<1>6. QED
  BY <1>2, <1>4, <1>5

\* A pattern that ends with a slash.
LEMMA SlashPattern ==
  ASSUME NEW P \in Seq(Char), NEW m \in Seq(Char), NEW W \in Seq(Char), NEW d \in Seq(Char),
         NEW len \in Nat, W = WithoutLastSlash(m), d = WithoutLast(P),
         P # <<>>, P[Len(P)] = Slash, len = Len(P) - 1
  PROVE  (/\ SamePrefix(P, m, len)
          /\ \/ len = Len(W)
             \/ Len(W) > len /\ m[len + 1] = Slash)
         <=> (W = d \/ BeginsWith(P, m))
<1>1. /\ Len(P) \in Nat /\ Len(m) \in Nat /\ Len(W) \in Nat /\ Len(P) = len + 1
      /\ P[len + 1] = Slash
  <2>1. Len(P) \in Nat /\ Len(m) \in Nat /\ Len(W) \in Nat
    OBVIOUS
  <2>2. Len(P) = len + 1
    BY <2>1
  <2>3. QED
    BY <2>1, <2>2
<1>2. Len(d) = len /\ \A i \in 1 .. len : d[i] = P[i]
  BY LastOff
<1>3. Len(W) <= Len(m) /\ Len(W) >= Len(m) - 1 /\ \A i \in 1 .. Len(W) : W[i] = m[i]
  <2>1. \/ W = m
        \/ m # <<>> /\ Len(W) = Len(m) - 1 /\ \A i \in 1 .. Len(m) - 1 : W[i] = m[i]
    <3>1. \/ WithoutLastSlash(m) = m
          \/ /\ m # <<>> /\ Len(WithoutLastSlash(m)) = Len(m) - 1
             /\ \A i \in 1 .. Len(m) - 1 : WithoutLastSlash(m)[i] = m[i]
      BY LastSlash, Zenon
    <3>2. QED
      BY <3>1, Zenon
  <2>2. QED
    BY <1>1, <2>1
<1>4. SamePrefix(P, m, len) <=> len <= Len(m) /\ \A i \in 1 .. len : P[i] = m[i]
  <2>1. len <= Len(P)
    BY <1>1
  <2>2. QED
    BY <2>1, ComparesPrefix, ZenonT(30)
<1>5. ASSUME SamePrefix(P, m, len), len = Len(W)
      PROVE  W = d
  <2>1. \A i \in 1 .. Len(W) : W[i] = d[i]
    BY <1>2, <1>3, <1>4, <1>5
  <2>2. Len(W) = Len(d)
    BY <1>2, <1>5
  <2>3. QED
    BY <2>1, <2>2, SeqEqual
<1>6. ASSUME SamePrefix(P, m, len), Len(W) > len, m[len + 1] = Slash
      PROVE  BeginsWith(P, m)
  <2>1. Len(P) <= Len(m)
    BY <1>1, <1>3, <1>6
  <2>2. \A i \in 1 .. Len(P) : m[i] = P[i]
    <3>1. \A i \in 1 .. Len(P) : i = len + 1 \/ i \in 1 .. len
      BY <1>1
    <3>2. QED
      BY <1>1, <1>4, <1>6, <3>1
  <2>3. QED
    BY <2>1, <2>2 DEF BeginsWith
<1>7. ASSUME W = d
      PROVE  SamePrefix(P, m, len) /\ len = Len(W)
  <2>1. len = Len(W)
    BY <1>2, <1>7
  <2>2. \A i \in 1 .. len : P[i] = m[i]
    BY <1>2, <1>3, <1>7, <2>1
  <2>3. len <= Len(m)
    BY <1>3, <2>1
  <2>4. QED
    BY <1>4, <2>1, <2>2, <2>3
<1>8. ASSUME BeginsWith(P, m)
      PROVE  SamePrefix(P, m, len) /\ (len = Len(W) \/ (Len(W) > len /\ m[len + 1] = Slash))
  <2>1. len + 1 <= Len(m) /\ \A i \in 1 .. len + 1 : m[i] = P[i]
    BY <1>1, <1>8 DEF BeginsWith
  <2>2. len <= Len(m) /\ \A i \in 1 .. len : P[i] = m[i]
    BY <1>1, <2>1
  <2>3. m[len + 1] = Slash
    BY <1>1, <2>1
  <2>4. len = Len(W) \/ Len(W) > len
    <3>1. len + 1 <= Len(m) /\ Len(W) >= Len(m) - 1
      BY <1>3, <2>1, Zenon
    <3>2. \A a, b, c \in Nat : a + 1 <= b /\ c >= b - 1 => a = c \/ c > a
      OBVIOUS
    <3>3. len \in Nat /\ Len(m) \in Nat /\ Len(W) \in Nat
      BY <1>1
    <3>4. QED
      BY <3>1, <3>2, <3>3, Zenon
  <2>5. QED
    BY <1>4, <2>2, <2>3, <2>4
<1>9. QED
  BY <1>5, <1>6, <1>7, <1>8

\* match_url accepts the URLs it should.
LEMMA MatchIs ==
  ASSUME NEW u \in Seq(Char), NEW p \in Seq(Char)
  PROVE  MatchUrl(p, u) <=>
           /\ WithoutLastSlash(WithoutFirstSlash(u)) # <<>>
           /\ WithoutFirstSlash(p) # <<>>
           /\ PatternMatches(WithoutFirstSlash(u), WithoutFirstSlash(p))
<1>1. PICK m \in Seq(Char), P \in Seq(Char) :
        m = WithoutFirstSlash(u) /\ P = WithoutFirstSlash(p)
  BY FirstSlash
<1>2. PICK W \in Seq(Char) : W = WithoutLastSlash(m)
  BY LastSlash
<1>3. Len(P) \in Nat /\ (W # <<>> <=> Len(W) # 0)
  OBVIOUS
<1>4. MatchUrl(p, u) <=>
        /\ Len(W) # 0 /\ P # <<>>
        /\ IF EndsWith(P, Slash)
           THEN /\ SamePrefix(P, m, Len(P) - 1)
                /\ \/ Len(P) - 1 = Len(W)
                   \/ Len(W) > Len(P) - 1 /\ m[Len(P) - 1 + 1] = Slash
           ELSE IF EndsWith(P, Star) THEN SamePrefix(P, m, Len(P) - 1)
           ELSE P = m
  BY <1>1, <1>2, Zenon DEF MatchUrl
<1>5. ASSUME P # <<>>
      PROVE  (IF EndsWith(P, Slash)
              THEN /\ SamePrefix(P, m, Len(P) - 1)
                   /\ \/ Len(P) - 1 = Len(W)
                      \/ Len(W) > Len(P) - 1 /\ m[Len(P) - 1 + 1] = Slash
              ELSE IF EndsWith(P, Star) THEN SamePrefix(P, m, Len(P) - 1)
              ELSE P = m)
             <=> PatternMatches(m, P)
  <2>1. PICK d \in Seq(Char) :
          d = WithoutLast(P) /\ Len(d) = Len(P) - 1 /\ \A i \in 1 .. Len(P) - 1 : d[i] = P[i]
    BY <1>5, LastOff, Zenon
  <2>2. PICK len \in Nat : len = Len(P) - 1
    <3>1. Len(P) # 0
      BY <1>5
    <3>2. Len(P) - 1 \in Nat
      BY <1>3, <3>1
    <3>3. QED
      BY <3>2
  <2>3. CASE EndsWith(P, Slash)
    <3>1. P[Len(P)] = Slash
      BY <2>3 DEF EndsWith
    <3>2. (/\ SamePrefix(P, m, len)
           /\ \/ len = Len(W)
              \/ Len(W) > len /\ m[len + 1] = Slash)
          <=> (W = d \/ BeginsWith(P, m))
      BY <1>2, <1>5, <2>1, <2>2, <3>1, SlashPattern
    <3>3. PatternMatches(m, P) <=> W = d \/ \E n \in 1 .. Len(m) + 1 : m = P \o SubSeq(m, n, Len(m))
      BY <1>2, <2>1, <2>3, Zenon DEF PatternMatches
    <3>4. BeginsWith(P, m) <=> \E n \in 1 .. Len(m) + 1 : m = P \o SubSeq(m, n, Len(m))
      BY GoesOn
    <3>5. QED
      BY <2>2, <2>3, <3>2, <3>3, <3>4, Zenon
  <2>4. CASE ~EndsWith(P, Slash) /\ EndsWith(P, Star)
    <3>1. SamePrefix(P, m, len) <=> len <= Len(m) /\ \A i \in 1 .. len : P[i] = m[i]
      <4>1. len <= Len(P)
        BY <1>3, <2>2
      <4>2. QED
        BY <4>1, ComparesPrefix
    <3>2. SamePrefix(P, m, len) <=> BeginsWith(d, m)
      BY <2>1, <2>2, <3>1 DEF BeginsWith
    <3>3. PatternMatches(m, P) <=> \E n \in 1 .. Len(m) + 1 : m = d \o SubSeq(m, n, Len(m))
      BY <2>1, <2>4, Zenon DEF PatternMatches
    <3>4. BeginsWith(d, m) <=> \E n \in 1 .. Len(m) + 1 : m = d \o SubSeq(m, n, Len(m))
      BY GoesOn
    <3>5. QED
      BY <2>2, <2>4, <3>2, <3>3, <3>4, Zenon
  <2>5. CASE ~EndsWith(P, Slash) /\ ~EndsWith(P, Star)
    <3>1. PatternMatches(m, P) <=> m = P
      BY <2>5, Zenon DEF PatternMatches
    <3>2. QED
      BY <2>5, <3>1, Zenon
  <2>6. QED
    BY <2>3, <2>4, <2>5, Zenon
<1>6. QED
  BY <1>1, <1>2, <1>3, <1>4, <1>5, Zenon

-----------------------------------------------------------------------------
(* The handler of a request.                                               *)

LEMMA Smallest ==
  ASSUME NEW I \in SUBSET Nat, I # {}
  PROVE  Min(I) \in I /\ \A y \in I : Min(I) <= y
BY LeastElement DEF Min

LEMMA Pairs ==
  ASSUME NEW S, NEW x \in S, NEW y \in S
  PROVE  <<x>> \o <<y>> = <<x, y>> /\ Append(<<x>>, y) = <<x, y>>
<1>1. <<x>> \in Seq(S) /\ Len(<<x>>) = 1 /\ <<x>>[1] = x
  OBVIOUS
<1>2. <<y>> \in Seq(S) /\ Len(<<y>>) = 1 /\ <<y>>[1] = y
  OBVIOUS
<1>3. <<x, y>> \in Seq(S) /\ Len(<<x, y>>) = 2 /\ <<x, y>>[1] = x /\ <<x, y>>[2] = y
  OBVIOUS
<1>4. PICK a \in Seq(S), b \in Seq(S), c \in Seq(S) :
        /\ a = <<x>> /\ b = <<y>> /\ c = <<x, y>>
        /\ Len(a) = 1 /\ a[1] = x /\ Len(b) = 1 /\ b[1] = y
        /\ Len(c) = 2 /\ c[1] = x /\ c[2] = y
  BY <1>1, <1>2, <1>3, Zenon
<1>5. a \o b = c
  <2>1. PICK e \in Seq(S) : e = a \o b /\ Len(e) = Len(a) + Len(b)
    BY Joined
  <2>2. 1 \in 1 .. Len(a) /\ 1 \in 1 .. Len(b) /\ Len(a) + 1 = 2 /\ Len(e) = 2
    BY <1>4, <2>1
  <2>3. (a \o b)[1] = a[1] /\ (a \o b)[Len(a) + 1] = b[1]
    BY <2>2, JoinedFirst, JoinedSecond
  <2>4. \A i \in 1 .. Len(e) : e[i] = c[i]
    <3>1. \A i \in 1 .. Len(e) : i = 1 \/ i = 2
      BY <2>2
    <3>2. e[1] = c[1] /\ e[2] = c[2]
      BY <1>4, <2>1, <2>2, <2>3, Zenon
    <3>3. QED
      BY <3>1, <3>2, Zenon
  <2>5. e = c
    BY <1>4, <2>2, <2>4, SeqEqual
  <2>6. QED
    BY <2>1, <2>5
<1>6. Append(a, y) = c
  <2>1. PICK e \in Seq(S) :
          e = Append(a, y) /\ Len(e) = 2 /\ e[1] = x /\ e[2] = y
    <3>1. /\ Append(a, y) \in Seq(S) /\ Len(Append(a, y)) = Len(a) + 1
          /\ \A i \in 1 .. Len(a) : Append(a, y)[i] = a[i]
          /\ Append(a, y)[Len(a) + 1] = y
      BY AppendProperties
    <3>2. 1 \in 1 .. Len(a) /\ Len(a) + 1 = 2
      BY <1>4
    <3>3. QED
      BY <1>4, <3>1, <3>2, Zenon
  <2>2. \A i \in 1 .. Len(e) : e[i] = c[i]
    <3>1. \A i \in 1 .. Len(e) : i = 1 \/ i = 2
      BY <2>1
    <3>2. QED
      BY <1>4, <2>1, <3>1, Zenon
  <2>3. e = c
    BY <1>4, <2>1, <2>2, SeqEqual
  <2>4. QED
    BY <2>1, <2>3
<1>7. QED
  BY <1>4, <1>5, <1>6, Zenon

LEMMA Registered ==
  ASSUME NEW S, NEW p \in S, NEW q \in S
  PROVE  /\ Register(Register(<<>>, p), q) = IF p = q THEN <<p>> ELSE <<q, p>>
         /\ AsRegister(AsRegister(<<>>, p), q) = IF p = q THEN <<p>> ELSE <<p, q>>
<1>1. Register(<<>>, p) = <<p>> /\ AsRegister(<<>>, p) = <<p>>
  <2>1. ~Contains(<<>>, p)
    BY DEF Contains
  <2>2. <<p>> \o <<>> = <<p>> /\ Append(<<>>, p) = <<p>>
    OBVIOUS
  <2>3. QED
    BY <2>1, <2>2 DEF Register, AsRegister
<1>2. Contains(<<p>>, q) <=> p = q
  BY DEF Contains
<1>3. <<q>> \o <<p>> = <<q, p>> /\ Append(<<p>>, q) = <<p, q>>
  BY Pairs
<1>4. QED
  BY <1>1, <1>2, <1>3 DEF Register, AsRegister

\* The handler found is the first whose URL leads the one that is asked for.
LEMMA HandlerIsFirst ==
  ASSUME NEW list, Len(list) \in Nat, NEW u
  PROVE  \/ Handler(list, u) = 0 /\ \A i \in 1 .. Len(list) : ~(CheckUrlStart(u, list[i]) > 0)
         \/ /\ Handler(list, u) \in 1 .. Len(list) /\ CheckUrlStart(u, list[Handler(list, u)]) > 0
            /\ \A i \in 1 .. Len(list) : CheckUrlStart(u, list[i]) > 0 => Handler(list, u) <= i
<1> DEFINE I == {i \in 1 .. Len(list) : CheckUrlStart(u, list[i]) > 0}
<1>1. Handler(list, u) = IF I # {} THEN Min(I) ELSE 0
  BY DEF Handler, SelectInSeq
<1>2. I \in SUBSET Nat
  OBVIOUS
<1>3. I # {} => Min(I) \in I /\ \A y \in I : Min(I) <= y
  <2> HIDE DEF I
  <2> QED
    BY <1>2, Smallest
<1>4. CASE I = {}
  BY <1>1, <1>4
<1>5. CASE I # {}
  BY <1>1, <1>3, <1>5
<1>6. QED
  BY <1>4, <1>5

\* A handler that matches is found by the AssemblyScript library.
LEMMA AsHandlerFinds ==
  ASSUME NEW list, NEW u, Len(list) \in Nat, NEW i \in 1 .. Len(list),
         AsCheckUrlStart(u, list[i])
  PROVE  AsHandler(list, u) > 0
<1> DEFINE I == {j \in 1 .. Len(list) : AsCheckUrlStart(u, list[j])}
<1>1. AsHandler(list, u) = IF I # {} THEN Min(I) ELSE 0
  BY DEF AsHandler, SelectInSeq
<1>2. I \in SUBSET Nat /\ I # {}
  OBVIOUS
<1>3. Min(I) \in I
  <2> HIDE DEF I
  <2> QED
    BY <1>2, Smallest
<1>4. QED
  BY <1>1, <1>2, <1>3

\* Where the first part of a URL ends.
EndsAt(s, k) == /\ k \in 0 .. Len(s) /\ \A i \in 1 .. k : s[i] # Slash
                /\ k = Len(s) \/ s[k + 1] = Slash

LEMMA FirstPartIs ==
  ASSUME NEW s \in Seq(Char), NEW k, EndsAt(s, k)
  PROVE  /\ FirstPart(s) \in Seq(Char) /\ Len(FirstPart(s)) = k
         /\ \A i \in 1 .. k : FirstPart(s)[i] = s[i]
<1> DEFINE I == {i \in 1 .. Len(s) : s[i] = Slash}
           n == IF I # {} THEN Min(I) ELSE 0
<1>1. FirstPart(s) = IF n = 0 THEN s ELSE SubSeq(s, 1, n - 1)
  BY DEF FirstPart, SelectInSeq
<1>2. Len(s) \in Nat /\ k \in Nat /\ k <= Len(s) /\ I \in SUBSET Nat
  BY DEF EndsAt
<1>3. I # {} => Min(I) \in I /\ \A y \in I : Min(I) <= y
  <2> HIDE DEF I
  <2> QED
    BY <1>2, Smallest
<1>4. CASE k = Len(s)
  <2>1. I = {}
    BY <1>4 DEF EndsAt
  <2>2. FirstPart(s) = s
    BY <1>1, <2>1
  <2>3. QED
    BY <1>4, <2>2
<1>5. CASE k # Len(s)
  <2>1. k + 1 \in I /\ \A i \in I : ~(i \in 1 .. k)
    BY <1>2, <1>5 DEF EndsAt
  <2>2. Min(I) = k + 1
    <3>1. Min(I) \in Nat /\ 1 <= Min(I) /\ Min(I) <= k + 1 /\ ~(Min(I) \in 1 .. k)
      BY <1>2, <1>3, <2>1
    <3>2. QED
      BY <1>2, <3>1
  <2>3. n = k + 1 /\ n # 0 /\ n - 1 = k
    BY <1>2, <2>1, <2>2
  <2> HIDE DEF n
  <2>4. FirstPart(s) = SubSeq(s, 1, k)
    BY <1>1, <2>3
  <2>5. \A i \in 1 .. k : s[i] \in Char
    <3>1. \A i \in 1 .. k : i \in 1 .. Len(s)
      BY <1>2
    <3>2. QED
      BY <3>1, ElementOfSeq
  <2>6. /\ SubSeq(s, 1, k) \in Seq(Char) /\ Len(SubSeq(s, 1, k)) = k
        /\ \A i \in 1 .. k : SubSeq(s, 1, k)[i] = s[i]
    BY <1>2, <2>5, SubSeqProperties
  <2>7. QED
    BY <2>4, <2>6
<1>6. QED
  BY <1>4, <1>5

LEMMA EndsSomewhere ==
  ASSUME NEW s \in Seq(Char)
  PROVE  \E k : EndsAt(s, k)
<1> DEFINE I == {i \in 1 .. Len(s) : s[i] = Slash}
<1>1. Len(s) \in Nat /\ I \in SUBSET Nat
  OBVIOUS
<1>2. CASE I = {}
  BY <1>1, <1>2 DEF EndsAt
<1>3. CASE I # {}
  <2>1. Min(I) \in I /\ \A y \in I : Min(I) <= y
    <3> HIDE DEF I
    <3> QED
      BY <1>1, <1>3, Smallest
  <2>2. PICK n \in 1 .. Len(s) : s[n] = Slash /\ \A i \in 1 .. Len(s) : s[i] = Slash => n <= i
    BY <2>1
  <2>3. PICK k \in Nat : k = n - 1
    OBVIOUS
  <2>4. \A i \in 1 .. k : s[i] # Slash
    BY <1>1, <2>2, <2>3
  <2>5. s[k + 1] = Slash /\ k \in 0 .. Len(s)
    BY <1>1, <2>2, <2>3
  <2>6. QED
    BY <2>4, <2>5 DEF EndsAt
<1>4. QED
  BY <1>2, <1>3

\* Two URLs whose first parts end at the same place and are the same until there.
LEMMA SameFirstPart ==
  ASSUME NEW s \in Seq(Char), NEW t \in Seq(Char), NEW k, EndsAt(s, k), EndsAt(t, k),
         \A i \in 1 .. k : s[i] = t[i]
  PROVE  FirstPart(s) = FirstPart(t)
<1>1. PICK a \in Seq(Char) :
        a = FirstPart(s) /\ Len(a) = k /\ \A i \in 1 .. k : a[i] = s[i]
  BY FirstPartIs, Zenon
<1>2. PICK b \in Seq(Char) :
        b = FirstPart(t) /\ Len(b) = k /\ \A i \in 1 .. k : b[i] = t[i]
  BY FirstPartIs, Zenon
<1>3. Len(a) = Len(b) /\ \A i \in 1 .. Len(a) : a[i] = b[i]
  BY <1>1, <1>2
<1>4. a = b
  BY <1>3, SeqEqual
<1>5. QED
  BY <1>1, <1>2, <1>4

LEMMA EndsLikeStem ==
  ASSUME NEW s \in Seq(Char), NEW stem \in Seq(Char), NEW k, EndsAt(stem, k),
         BeginsWith(stem, s), Len(s) = Len(stem) \/ s[Len(stem) + 1] = Slash
  PROVE  EndsAt(s, k) /\ \A i \in 1 .. k : s[i] = stem[i]
<1>1. /\ Len(s) \in Nat /\ Len(stem) \in Nat /\ Len(stem) <= Len(s)
      /\ \A i \in 1 .. Len(stem) : s[i] = stem[i]
  BY DEF BeginsWith
<1>2. /\ k \in Nat /\ k <= Len(stem) /\ \A i \in 1 .. k : stem[i] # Slash
      /\ k = Len(stem) \/ stem[k + 1] = Slash
  BY <1>1 DEF EndsAt
<1>3. \A i \in 1 .. k : i \in 1 .. Len(stem)
  BY <1>1, <1>2
<1>4. \A i \in 1 .. k : s[i] = stem[i] /\ s[i] # Slash
  BY <1>1, <1>2, <1>3, Zenon
<1>5. k \in 0 .. Len(s)
  BY <1>1, <1>2
<1>6. k = Len(s) \/ s[k + 1] = Slash
  <2>1. CASE k = Len(stem)
    BY <2>1
  <2>2. CASE k # Len(stem)
    <3>1. k + 1 \in 1 .. Len(stem)
      BY <1>1, <1>2, <2>2
    <3>2. QED
      BY <1>1, <1>2, <2>2, <3>1, Zenon
  <2>3. QED
    BY <2>1, <2>2
<1>7. QED
  BY <1>4, <1>5, <1>6, Zenon DEF EndsAt

\* A URL without a query and a leading string that begin alike have the same first part.
LEMMA LedAlike ==
  ASSUME NEW u \in Seq(Char), NEW r \in Seq(Char), CheckUrlStart(u, r) > 0,
         (r # <<>> /\ r[1] = Slash) <=> (u # <<>> /\ u[1] = Slash), ~Contains(u, Query)
  PROVE  AsCheckUrlStart(u, r)
<1>1. CASE r # <<>> /\ r[1] = Slash
  <2>1. EndsAt(u, 0) /\ EndsAt(r, 0)
    BY <1>1 DEF EndsAt
  <2>2. FirstPart(u) = FirstPart(r)
    <3>1. PICK k : k = 0
      OBVIOUS
    <3>2. \A i \in 1 .. k : u[i] = r[i]
      BY <3>1
    <3>3. QED
      BY <2>1, <3>1, <3>2, SameFirstPart
  <2>3. QED
    BY <2>2 DEF AsCheckUrlStart
<1>2. CASE ~(r # <<>> /\ r[1] = Slash)
  <2>1. WithoutFirstSlash(u) = u /\ WithoutFirstSlash(r) = r
    BY <1>2 DEF WithoutFirstSlash
  <2>2. PICK stem \in Seq(Char) :
          /\ stem = WithoutLastSlash(r)
          /\ \/ stem = r
             \/ /\ r # <<>> /\ r[Len(r)] = Slash /\ Len(stem) = Len(r) - 1
                /\ \A i \in 1 .. Len(r) - 1 : stem[i] = r[i]
    BY LastSlash, Zenon
  <2>3. LeadingMatches(u, stem)
    <3>1. u = WithoutFirstSlash(u) /\ stem = WithoutLastSlash(WithoutFirstSlash(r))
      BY <2>1, <2>2, Zenon
    <3>2. QED
      BY <3>1, StartIs
  <2>4. /\ BeginsWith(stem, u)
        /\ Len(u) = Len(stem) \/ u[Len(stem) + 1] \in {Slash, Query}
    BY <2>3, LeadingIs
  <2>5. Len(u) = Len(stem) \/ u[Len(stem) + 1] = Slash
    <3>1. Len(u) # Len(stem) => Len(stem) + 1 \in 1 .. Len(u)
      BY <2>4 DEF BeginsWith
    <3>2. QED
      BY <2>4, <3>1 DEF Contains
  <2>6. /\ BeginsWith(stem, r)
        /\ Len(r) = Len(stem) \/ r[Len(stem) + 1] = Slash
    <3>1. CASE stem = r
      BY <3>1 DEF BeginsWith
    <3>2. CASE /\ r # <<>> /\ r[Len(r)] = Slash /\ Len(stem) = Len(r) - 1
               /\ \A i \in 1 .. Len(r) - 1 : stem[i] = r[i]
      <4>1. Len(r) \in Nat /\ Len(stem) + 1 = Len(r) /\ Len(stem) <= Len(r)
        BY <3>2
      <4>2. \A i \in 1 .. Len(stem) : r[i] = stem[i]
        BY <3>2
      <4>3. QED
        BY <3>2, <4>1, <4>2, Zenon DEF BeginsWith
    <3>3. QED
      BY <2>2, <3>1, <3>2
  <2>7. PICK k : EndsAt(stem, k)
    BY EndsSomewhere
  <2>8. EndsAt(u, k) /\ \A i \in 1 .. k : u[i] = stem[i]
    BY <2>4, <2>5, <2>7, EndsLikeStem
  <2>9. EndsAt(r, k) /\ \A i \in 1 .. k : r[i] = stem[i]
    BY <2>6, <2>7, EndsLikeStem, SMTT(30)
  <2>10. \A i \in 1 .. k : u[i] = r[i]
    BY <2>8, <2>9, Zenon
  <2>11. FirstPart(u) = FirstPart(r)
    BY <2>8, <2>9, <2>10, SameFirstPart
  <2>12. QED
    BY <2>11 DEF AsCheckUrlStart
<1>3. QED
  BY <1>1, <1>2

\* check_url_start accepts a URL if the string leads it, and nothing else.
LeadsTo(u, r) ==
  /\ WithoutLastSlash(WithoutFirstSlash(r)) # <<>>
  /\ LeadingMatches(WithoutFirstSlash(u), WithoutLastSlash(WithoutFirstSlash(r)))

LEMMA StartLeads ==
  ASSUME NEW u \in Seq(Char), NEW r \in Seq(Char)
  PROVE  CheckUrlStart(u, r) > 0 <=> LeadsTo(u, r)
<1>1. PICK m \in Seq(Char), f \in Seq(Char) :
        m = WithoutFirstSlash(u) /\ f = WithoutFirstSlash(r)
  BY FirstSlash
<1>2. PICK stem \in Seq(Char) : stem = WithoutLastSlash(f)
  BY LastSlash
<1>3. stem = WithoutLastSlash(WithoutFirstSlash(r))
  BY <1>1, <1>2
<1>4. CheckUrlStart(u, r) > 0 <=> stem # <<>> /\ LeadingMatches(m, stem)
  BY <1>1, <1>3, StartIs
<1>5. QED
  BY <1>1, <1>3, <1>4, Zenon DEF LeadsTo

LEMMA HandlerIs ==
  ASSUME NEW u \in Seq(Char), NEW p \in Seq(Char), NEW q \in Seq(Char)
  PROVE  HandlerLeads(u, p, q)
<1>1. PICK reg, as :
        /\ reg = Register(Register(<<>>, p), q) /\ as = AsRegister(AsRegister(<<>>, p), q)
        /\ reg = IF p = q THEN <<p>> ELSE <<q, p>>
        /\ as = IF p = q THEN <<p>> ELSE <<p, q>>
  BY Registered, Zenon
<1>2. /\ Len(reg) \in Nat /\ Len(as) \in Nat /\ DOMAIN reg = 1 .. Len(reg)
      /\ \A i \in 1 .. Len(reg) : reg[i] \in {p, q}
      /\ \A r \in {p, q} : \E j \in 1 .. Len(as) : as[j] = r
  <2>1. CASE p = q
    BY <1>1, <2>1
  <2>2. CASE p # q
    <3>1. /\ reg = <<q, p>> /\ as = <<p, q>>
      BY <1>1, <2>2
    <3>2. Len(reg) = 2 /\ Len(as) = 2 /\ DOMAIN reg = 1 .. 2 /\ 1 \in 1 .. 2 /\ 2 \in 1 .. 2
          /\ reg[1] = q /\ reg[2] = p /\ as[1] = p /\ as[2] = q
      BY <3>1
    <3>3. \A i \in 1 .. 2 : i = 1 \/ i = 2
      OBVIOUS
    <3>4. Len(reg) \in Nat /\ Len(as) \in Nat /\ DOMAIN reg = 1 .. Len(reg)
      BY <3>2
    <3>5. \A i \in 1 .. Len(reg) : reg[i] \in {p, q}
      BY <3>2, <3>3
    <3>6. \A r \in {p, q} : \E j \in 1 .. Len(as) : as[j] = r
      BY <3>2
    <3>7. QED
      BY <3>4, <3>5, <3>6, Zenon
  <2>3. QED
    BY <2>1, <2>2
<1>3. \A i \in 1 .. Len(reg) : CheckUrlStart(u, reg[i]) > 0 <=> LeadsTo(u, reg[i])
  BY <1>2, StartLeads
<1>4. PICK h : h = Handler(reg, u)
  OBVIOUS
<1>5. \/ h = 0 /\ \A i \in 1 .. Len(reg) : ~LeadsTo(u, reg[i])
      \/ /\ h \in 1 .. Len(reg) /\ LeadsTo(u, reg[h])
         /\ \A i \in 1 .. Len(reg) : LeadsTo(u, reg[i]) => h <= i
  <2>1. \/ h = 0 /\ \A i \in 1 .. Len(reg) : ~(CheckUrlStart(u, reg[i]) > 0)
        \/ /\ h \in 1 .. Len(reg) /\ CheckUrlStart(u, reg[h]) > 0
           /\ \A i \in 1 .. Len(reg) : CheckUrlStart(u, reg[i]) > 0 => h <= i
    BY <1>2, <1>4, HandlerIsFirst
  <2>2. QED
    BY <1>3, <2>1, Zenon
<1>6. ASSUME h > 0, (reg[h] # <<>> /\ reg[h][1] = Slash) <=> (u # <<>> /\ u[1] = Slash),
             ~Contains(u, Query)
      PROVE  AsHandler(as, u) > 0
  <2>1. h \in 1 .. Len(reg) /\ LeadsTo(u, reg[h])
    BY <1>5, <1>6
  <2>2. PICK r \in {p, q} : r = reg[h] /\ r \in Seq(Char)
    BY <1>2, <2>1
  <2>3. CheckUrlStart(u, r) > 0
    BY <2>1, <2>2, StartLeads
  <2>4. AsCheckUrlStart(u, r)
    BY <1>6, <2>2, <2>3, LedAlike
  <2>5. PICK j \in 1 .. Len(as) : as[j] = r
    BY <1>2, <2>2
  <2>6. QED
    BY <1>2, <2>4, <2>5, AsHandlerFinds
<1>7. QED
  BY <1>1, <1>2, <1>4, <1>5, <1>6 DEF HandlerLeads, LeadsTo

LEMMA UrlIs ==
  ASSUME NEW u \in Seq(Char), NEW p \in Seq(Char)
  PROVE  UrlMatches(u, p)
<1>1. PICK m \in Seq(Char), f \in Seq(Char) :
        m = WithoutFirstSlash(u) /\ f = WithoutFirstSlash(p)
  BY FirstSlash
<1>2. PICK stem \in Seq(Char) : stem = WithoutLastSlash(f)
  BY LastSlash
<1>3. stem = WithoutLastSlash(WithoutFirstSlash(p))
  BY <1>1, <1>2
<1>4. PICK n : n = CheckUrlStart(u, p)
  OBVIOUS
<1>5. n > 0 <=> stem # <<>> /\ LeadingMatches(m, stem)
  BY <1>1, <1>3, <1>4, StartIs
<1>6. n > 0 => \/ n = Len(u) /\ m = stem
               \/ WithoutFirstSlash(SubSeq(u, 1, n)) \in {Append(stem, Slash), Append(stem, Query)}
  BY <1>1, <1>3, <1>4, StartMatches
<1>7. MatchUrl(p, u) <=> /\ WithoutLastSlash(m) # <<>> /\ f # <<>>
                         /\ PatternMatches(m, f)
  BY <1>1, MatchIs
<1>8. QED
  BY <1>1, <1>3, <1>4, <1>5, <1>6, <1>7, Zenon DEF UrlMatches

-----------------------------------------------------------------------------
\* Only sample strings are matched.
UrlGiven ==
  /\ sample.call = "url" => sample.url \in SampleUrls /\ sample.pattern \in SamplePatterns
  /\ sample.call = "handler" => /\ sample.url \in SampleUrls /\ sample.first \in SamplePatterns
                                /\ sample.second \in SampleResources

LEMMA UrlsAreGiven == RestfulSpec => []UrlGiven
<1>1. RestfulInit => UrlGiven
  BY DEF RestfulInit, UrlGiven
<1>2. UrlGiven /\ [RestfulNext]_restfulVars => UrlGiven'
  <2> SUFFICES ASSUME UrlGiven, [RestfulNext]_restfulVars
               PROVE  UrlGiven'
    OBVIOUS
  <2>1. CASE CallPack
    BY <2>1 DEF CallPack, UrlGiven
  <2>2. CASE CallMatch
    BY <2>2 DEF CallMatch, UrlGiven
  <2>3. CASE CallHandler
    BY <2>3 DEF CallHandler, UrlGiven
  <2>4. CASE CallFind
    BY <2>4 DEF CallFind, UrlGiven
  <2>5. CASE UNCHANGED restfulVars
    BY <2>5 DEF restfulVars, UrlGiven
  <2>6. QED
    BY <2>1, <2>2, <2>3, <2>4, <2>5 DEF RestfulNext
<1>3. QED
  BY <1>1, <1>2, PTL DEF RestfulSpec

\* Whatever the URL, the pattern and the two strings that were registered are: the two
\* helpers accept what their comments list, and nothing else, the offset is that of what
\* follows the leading string, and a request goes to the handler registered last of
\* those that lead its URL (restful_utils.c:345 and :399, request.c:302).
THEOREM UrlsAreMatched ==
  ASSUME SampleUrls \subseteq Seq(Char), SamplePatterns \subseteq Seq(Char),
         SampleResources \subseteq Seq(Char)
  PROVE  RestfulSpec => []UrlsMatchAsDocumented
<1>1. UrlGiven => UrlsMatchAsDocumented
  <2> SUFFICES ASSUME UrlGiven
               PROVE  UrlsMatchAsDocumented
    OBVIOUS
  <2>1. sample.call = "url" => UrlMatches(sample.url, sample.pattern)
    BY UrlIs DEF UrlGiven
  <2>2. sample.call = "handler" => HandlerLeads(sample.url, sample.first, sample.second)
    BY HandlerIs DEF UrlGiven
  <2>3. QED
    BY <2>1, <2>2 DEF UrlsMatchAsDocumented
<1>2. QED
  BY <1>1, UrlsAreGiven, PTL

-----------------------------------------------------------------------------
(* The value of a key. The loops are functions of where they are: what they *)
(* are is shown from the end of the buffer to its front.                   *)

\* There is a greatest number in a set of numbers up to n that is not empty.
LEMMA GreatestElement ==
  ASSUME NEW n \in Nat, NEW T \in SUBSET (1 .. n), T # {}
  PROVE  \E x \in T : \A y \in T : y <= x
<1> DEFINE U == {n - x : x \in T}
<1>1. U \in SUBSET Nat /\ U # {}
  <2>1. \A x \in T : n - x \in Nat
    OBVIOUS
  <2>2. QED
    BY <2>1
<1>2. PICK u \in U : \A v \in U : u <= v
  <2> HIDE DEF U
  <2> QED
    BY <1>1, LeastElement
<1>3. PICK x \in T : u = n - x
  OBVIOUS
<1>4. ASSUME NEW y \in T
      PROVE  y <= x
  <2>1. n - y \in U
    OBVIOUS
  <2>2. n - x <= n - y /\ x \in Nat /\ y \in Nat
    BY <1>2, <1>3, <2>1
  <2>3. QED
    BY <2>2
<1>5. QED
  BY <1>4

\* What holds of n, and of p if it holds of a greater number, holds of all.
LEMMA DownFrom ==
  ASSUME NEW n \in Nat, NEW Good,
         \A p \in 1 .. n : p \in Good \/ \E r \in 1 .. n : p < r /\ (r \in Good => p \in Good)
  PROVE  \A p \in 1 .. n : p \in Good
<1> SUFFICES ASSUME (1 .. n) \ Good # {}
             PROVE  FALSE
  OBVIOUS
<1>1. PICK p \in (1 .. n) \ Good : \A y \in (1 .. n) \ Good : y <= p
  BY GreatestElement
<1>2. QED
  BY <1>1

\* Where a loop that starts at p stops.
StopAt(Stop, p) == Min({q \in Stop : p <= q})

LEMMA StopIs ==
  ASSUME NEW n \in Nat, NEW Stop \in SUBSET (1 .. n), n \in Stop, NEW p \in 1 .. n
  PROVE  /\ StopAt(Stop, p) \in Stop /\ p <= StopAt(Stop, p)
         /\ \A q \in Stop : p <= q => StopAt(Stop, p) <= q
         /\ p \in Stop => StopAt(Stop, p) = p
         /\ p \notin Stop => p + 1 \in 1 .. n /\ StopAt(Stop, p) = StopAt(Stop, p + 1)
<1> DEFINE T == {q \in Stop : p <= q}
<1>1. T \in SUBSET Nat /\ n \in T
  <2>1. Stop \in SUBSET Nat /\ p <= n
    OBVIOUS
  <2>2. QED
    BY <2>1
<1>2. Min(T) \in T /\ \A q \in T : Min(T) <= q
  <2> HIDE DEF T
  <2> QED
    BY <1>1, Smallest
<1>3. StopAt(Stop, p) = Min(T)
  BY DEF StopAt
<1>4. /\ StopAt(Stop, p) \in Stop /\ p <= StopAt(Stop, p)
      /\ \A q \in Stop : p <= q => StopAt(Stop, p) <= q
  BY <1>2, <1>3
<1>5. p \in Stop => StopAt(Stop, p) = p
  <2>1. ASSUME NEW x, x = StopAt(Stop, p), p \in Stop
        PROVE  x = p
    <3>1. x \in 1 .. n /\ p <= x
      BY <1>4, <2>1
    <3>2. x <= p
      BY <1>4, <2>1
    <3>3. QED
      BY <3>1, <3>2
  <2>2. QED
    BY <2>1
<1>6. ASSUME p \notin Stop
      PROVE  p + 1 \in 1 .. n /\ StopAt(Stop, p) = StopAt(Stop, p + 1)
  <2>1. \A q \in Stop : p <= q <=> p + 1 <= q
    BY <1>6
  <2>2. T = {q \in Stop : p + 1 <= q}
    BY <2>1
  <2>3. StopAt(Stop, p + 1) = Min(T)
    BY <2>2 DEF StopAt
  <2>4. QED
    BY <1>3, <1>6, <2>3
<1>7. QED
  BY <1>4, <1>5, <1>6

\* A loop that goes on by one.
LEMMA LoopStops ==
  ASSUME NEW n \in Nat, NEW Stop \in SUBSET (1 .. n), n \in Stop,
         NEW g, \A p \in 1 .. n : g[p] = IF p \in Stop THEN p ELSE g[p + 1]
  PROVE  \A p \in 1 .. n : g[p] = StopAt(Stop, p)
<1> DEFINE Good == {p \in 1 .. n : g[p] = StopAt(Stop, p)}
<1>1. ASSUME NEW p \in 1 .. n
      PROVE  p \in Good \/ \E r \in 1 .. n : p < r /\ (r \in Good => p \in Good)
  <2>1. g[p] = IF p \in Stop THEN p ELSE g[p + 1]
    OBVIOUS
  <2>2. CASE p \in Stop
    BY <2>1, <2>2, StopIs
  <2>3. CASE p \notin Stop
    BY <2>1, <2>3, StopIs
  <2>4. QED
    BY <2>2, <2>3
<1>2. \A p \in 1 .. n : p \in Good
  <2> HIDE DEF Good
  <2> QED
    BY <1>1, DownFrom
<1>3. QED
  BY <1>2

LEMMA LoopExists ==
  ASSUME NEW n \in Nat, NEW Stop \in SUBSET (1 .. n), n \in Stop
  PROVE  \E g : g = [p \in 1 .. n |-> IF p \in Stop THEN p ELSE g[p + 1]]
<1> DEFINE h == [p \in 1 .. n |-> StopAt(Stop, p)]
<1>1. ASSUME NEW p \in 1 .. n
      PROVE  h[p] = IF p \in Stop THEN p ELSE h[p + 1]
  BY StopIs
<1>2. h = [p \in 1 .. n |-> IF p \in Stop THEN p ELSE h[p + 1]]
  BY <1>1
<1>3. QED
  <2> HIDE DEF h
  <2> QED
    BY <1>2

LEMMA SkipIs ==
  ASSUME NEW b \in Seq(Char), NEW n, n = Len(b) + 1,
         NEW Stop, Stop = {p \in 1 .. n : CharAt(b, p) \notin {Space, Delimiter}}
  PROVE  n \in Stop /\ \A p \in 1 .. n : SkipFrom(b)[p] = StopAt(Stop, p)
<1>1. n \in Nat /\ Stop \in SUBSET (1 .. n) /\ n \in Stop
  BY DEF CharAt, Space, Delimiter
<1>2. PICK g : g = [p \in 1 .. n |-> IF p \in Stop THEN p ELSE g[p + 1]]
  BY <1>1, LoopExists
<1>3. g = [p \in 1 .. Len(b) + 1 |-> IF CharAt(b, p) \in {Space, Delimiter} THEN g[p + 1] ELSE p]
  BY <1>2
<1>4. SkipFrom(b) = [p \in 1 .. Len(b) + 1 |->
                       IF CharAt(b, p) \in {Space, Delimiter} THEN SkipFrom(b)[p + 1] ELSE p]
  BY <1>3, Zenon DEF SkipFrom
<1>5. SkipFrom(b) = [p \in 1 .. n |-> IF p \in Stop THEN p ELSE SkipFrom(b)[p + 1]]
  BY <1>4
<1>6. PICK s : s = SkipFrom(b)
  OBVIOUS
<1>7. \A p \in 1 .. n : s[p] = IF p \in Stop THEN p ELSE s[p + 1]
  BY <1>5, <1>6
<1>8. \A p \in 1 .. n : s[p] = StopAt(Stop, p)
  BY ONLY <1>1, <1>7, LoopStops, Zenon
<1>9. QED
  BY <1>1, <1>6, <1>8

LEMMA NextIs ==
  ASSUME NEW b \in Seq(Char), NEW n, n = Len(b) + 1,
         NEW Stop, Stop = {p \in 1 .. n : p = n \/ CharAt(b, p) = Delimiter}
  PROVE  n \in Stop /\ \A p \in 1 .. n : NextFrom(b)[p] = StopAt(Stop, p)
<1>1. n \in Nat /\ Stop \in SUBSET (1 .. n) /\ n \in Stop
  OBVIOUS
<1>2. PICK g : g = [p \in 1 .. n |-> IF p \in Stop THEN p ELSE g[p + 1]]
  BY <1>1, LoopExists
<1>3. g = [p \in 1 .. Len(b) + 1 |->
             IF p = Len(b) + 1 \/ CharAt(b, p) = Delimiter THEN p ELSE g[p + 1]]
  BY <1>2
<1>4. NextFrom(b) = [p \in 1 .. Len(b) + 1 |->
                       IF p = Len(b) + 1 \/ CharAt(b, p) = Delimiter THEN p ELSE NextFrom(b)[p + 1]]
  BY <1>3, Zenon DEF NextFrom
<1>5. NextFrom(b) = [p \in 1 .. n |-> IF p \in Stop THEN p ELSE NextFrom(b)[p + 1]]
  BY <1>4
<1>6. PICK s : s = NextFrom(b)
  OBVIOUS
<1>7. \A p \in 1 .. n : s[p] = IF p \in Stop THEN p ELSE s[p + 1]
  BY <1>5, <1>6
<1>8. \A p \in 1 .. n : s[p] = StopAt(Stop, p)
  BY ONLY <1>1, <1>7, LoopStops, Zenon
<1>9. QED
  BY <1>1, <1>6, <1>8

-----------------------------------------------------------------------------
\* Where pieces begin in what is left of b from a position, and which have the key.
Begins(b, from) ==
  {i \in from .. Len(b) :
     /\ b[i] \notin {Space, Delimiter}
     /\ \E j \in (from - 1) .. (i - 1) : /\ j = from - 1 \/ b[j] = Delimiter
                                        /\ \A x \in (j + 1) .. (i - 1) : b[x] = Space}

KeyAt(b, key, i) ==
  Len(key) < Len(b) + 1 - i /\ Slice(b, i - 1, Len(key) + 1) = Append(key, Equal)

Hits(b, key, from) == {i \in Begins(b, from) : KeyAt(b, key, i)}

FoundFrom(b, key, from) ==
  IF Hits(b, key, from) = {} THEN Null
  ELSE ValueAt(b, Min(Hits(b, key, from)) + Len(key) + 1)

\* Behind spaces and delimiters is where the first piece begins.
LEMMA SkipBegins ==
  ASSUME NEW b \in Seq(Char), NEW n, n = Len(b) + 1, NEW p \in 1 .. n,
         NEW q, q = SkipFrom(b)[p]
  PROVE  /\ q \in p .. n /\ \A i \in Begins(b, p) : q <= i
         /\ q < n => q \in Begins(b, p)
<1>1. PICK Stop : Stop = {x \in 1 .. n : CharAt(b, x) \notin {Space, Delimiter}}
  OBVIOUS
<1>2. q = StopAt(Stop, p) /\ n \in Stop
  BY <1>1, SkipIs
<1>3. /\ Len(b) \in Nat /\ n \in Nat /\ Stop \in SUBSET (1 .. n)
      /\ \A x \in 1 .. n : x < n => CharAt(b, x) = b[x]
  BY <1>1 DEF CharAt
<1>4. q \in Stop /\ p <= q /\ \A x \in Stop : p <= x => q <= x
  BY ONLY <1>2, <1>3, p \in 1 .. n, StopIs, Zenon
<1>5. q \in p .. n
  BY <1>3, <1>4
<1>6. \A x \in p .. q - 1 : b[x] \in {Space, Delimiter}
  <2> SUFFICES ASSUME NEW x \in p .. q - 1
               PROVE  b[x] \in {Space, Delimiter}
    OBVIOUS
  <2>1. x \in 1 .. n /\ x < n /\ p <= x /\ ~(q <= x)
    BY <1>3, <1>5
  <2>2. x \notin Stop
    BY <1>4, <2>1
  <2>3. QED
    BY <1>1, <1>3, <2>1, <2>2
<1>7. ASSUME NEW i \in Begins(b, p)
      PROVE  q <= i
  <2>1. i \in p .. Len(b) /\ b[i] \notin {Space, Delimiter}
    BY DEF Begins
  <2>2. ~(i \in p .. q - 1)
    BY <1>6, <2>1
  <2>3. QED
    BY <1>3, <1>5, <2>1, <2>2
<1>8. ASSUME q < n
      PROVE  q \in Begins(b, p)
  <2> DEFINE T == {j \in 1 .. q - 1 : p <= j /\ b[j] = Delimiter}
  <2>1. q \in p .. Len(b) /\ b[q] \notin {Space, Delimiter} /\ q - 1 \in Nat
    BY <1>1, <1>3, <1>4, <1>5, <1>8
  <2>2. ASSUME T = {}
        PROVE  \A x \in p .. q - 1 : b[x] = Space
    <3>1. \A x \in p .. q - 1 : x \in 1 .. q - 1 /\ p <= x
      BY <1>5
    <3>2. QED
      BY <1>6, <2>2, <3>1
  <2>3. ASSUME T # {}
        PROVE  \E j \in (p - 1) .. (q - 1) : b[j] = Delimiter /\ \A x \in (j + 1) .. (q - 1) : b[x] = Space
    <3>1. PICK j \in T : \A y \in T : y <= j
      <4>1. T \in SUBSET (1 .. q - 1)
        OBVIOUS
      <4> HIDE DEF T
      <4>2. QED
        BY <2>1, <2>3, <4>1, GreatestElement
    <3>2. j \in (p - 1) .. (q - 1) /\ b[j] = Delimiter /\ p <= j /\ j \in Nat
      BY <1>5, <3>1
    <3>3. ASSUME NEW x \in (j + 1) .. (q - 1)
          PROVE  b[x] = Space
      <4>1. x \in p .. q - 1 /\ x \in 1 .. q - 1 /\ p <= x /\ ~(x <= j)
        BY <1>5, <3>2
      <4>2. x \notin T
        BY <3>1, <4>1
      <4>3. QED
        BY <1>6, <4>1, <4>2
    <3>4. QED
      BY <3>2, <3>3
  <2>4. \E j \in (p - 1) .. (q - 1) : /\ j = p - 1 \/ b[j] = Delimiter
                                     /\ \A x \in (j + 1) .. (q - 1) : b[x] = Space
    <3>1. CASE T = {}
      <4>1. p - 1 \in (p - 1) .. (q - 1) /\ (p - 1) + 1 = p
        BY <1>5
      <4>2. QED
        BY <2>2, <3>1, <4>1
    <3>2. CASE T # {}
      BY <2>3, <3>2
    <3>3. QED
      BY <3>1, <3>2
  <2>5. QED
    BY <2>1, <2>4 DEF Begins
<1>9. QED
  BY <1>5, <1>7, <1>8

\* The other pieces begin behind the next delimiter.
LEMMA NextBegins ==
  ASSUME NEW b \in Seq(Char), NEW n, n = Len(b) + 1, NEW p \in 1 .. n,
         NEW q \in Begins(b, p), \A i \in Begins(b, p) : q <= i,
         NEW r, r = NextFrom(b)[q]
  PROVE  r \in 1 .. n /\ q < r /\ Begins(b, p) = {q} \cup Begins(b, r)
<1>1. PICK Stop : Stop = {x \in 1 .. n : x = n \/ CharAt(b, x) = Delimiter}
  OBVIOUS
<1>2. Len(b) \in Nat /\ q \in p .. Len(b) /\ q \in 1 .. n /\ b[q] \notin {Space, Delimiter}
  BY DEF Begins
<1>3. r = StopAt(Stop, q) /\ n \in Stop
  <2>1. n \in Stop /\ \A x \in 1 .. n : NextFrom(b)[x] = StopAt(Stop, x)
    BY <1>1, NextIs
  <2>2. QED
    BY ONLY <1>2, <2>1, r = NextFrom(b)[q], Zenon
<1>4. /\ n \in Nat /\ Stop \in SUBSET (1 .. n)
      /\ \A x \in 1 .. n : x < n => CharAt(b, x) = b[x]
  BY <1>1, <1>2 DEF CharAt
<1>5. r \in Stop /\ q <= r /\ \A x \in Stop : q <= x => r <= x
  BY ONLY <1>2, <1>3, <1>4, StopIs, Zenon
<1>6. r \in 1 .. n /\ q < r /\ (r < n => b[r] = Delimiter)
  <2>1. r \in 1 .. n /\ (r < n => b[r] = Delimiter)
    BY <1>1, <1>4, <1>5
  <2>2. r # q
    BY <1>2, <2>1
  <2>3. QED
    BY <1>2, <1>5, <2>1, <2>2
<1>7. ASSUME NEW i \in Begins(b, p), i # q
      PROVE  i \in Begins(b, r)
  <2>1. i \in p .. Len(b) /\ b[i] \notin {Space, Delimiter} /\ q <= i
    BY DEF Begins
  <2>2. PICK j \in (p - 1) .. (i - 1) : /\ j = p - 1 \/ b[j] = Delimiter
                                      /\ \A x \in (j + 1) .. (i - 1) : b[x] = Space
    BY DEF Begins
  <2>3. q <= j
    <3>1. q \in (j + 1) .. (i - 1) \/ q <= j
      BY <1>2, <1>7, <2>1
    <3>2. QED
      BY <1>2, <2>2, <3>1
  <2>4. j \in Stop /\ b[j] = Delimiter
    <3>1. j # p - 1 /\ j \in 1 .. n /\ j < n
      BY <1>2, <2>1, <2>3
    <3>2. QED
      BY <1>1, <1>4, <2>2, <3>1
  <2>5. r <= j
    BY <1>5, <2>3, <2>4
  <2>6. i \in r .. Len(b) /\ j \in (r - 1) .. (i - 1)
    BY <1>6, <2>1, <2>5
  <2>7. QED
    BY <2>1, <2>2, <2>4, <2>6 DEF Begins
<1>8. ASSUME NEW i \in Begins(b, r)
      PROVE  i \in Begins(b, p)
  <2>1. i \in r .. Len(b) /\ b[i] \notin {Space, Delimiter}
    BY DEF Begins
  <2>2. PICK j \in (r - 1) .. (i - 1) : /\ j = r - 1 \/ b[j] = Delimiter
                                      /\ \A x \in (j + 1) .. (i - 1) : b[x] = Space
    BY DEF Begins
  <2>3. r < n /\ b[r] = Delimiter
    BY <1>2, <1>6, <2>1
  <2>4. j # r - 1
    <3> SUFFICES ASSUME j = r - 1
                 PROVE  FALSE
      OBVIOUS
    <3>1. r \in (j + 1) .. (i - 1) \/ r = i
      BY <1>6, <2>1
    <3>2. QED
      BY <2>1, <2>2, <2>3, <3>1 DEF Space, Delimiter
  <2>5. b[j] = Delimiter /\ i \in p .. Len(b) /\ j \in (p - 1) .. (i - 1)
    BY <1>2, <1>6, <2>1, <2>2, <2>4
  <2>6. QED
    BY <2>1, <2>2, <2>5 DEF Begins
<1>9. QED
  BY <1>6, <1>7, <1>8

\* What is found from p on is in the first piece there or behind it.
LEMMA FoundStep ==
  ASSUME NEW b \in Seq(Char), NEW key \in Seq(Char), NEW n, n = Len(b) + 1, NEW p \in 1 .. n,
         NEW q, q = SkipFrom(b)[p], NEW r, r = NextFrom(b)[q]
  PROVE  /\ FoundFrom(b, key, p) =
              IF p = n THEN Null
              ELSE IF n - q <= Len(key) THEN Null
              ELSE IF Slice(b, q - 1, Len(key) + 1) = Append(key, Equal)
              THEN ValueAt(b, q + Len(key) + 1)
              ELSE FoundFrom(b, key, r)
         /\ n - q > Len(key) => r \in 1 .. n /\ p < r
<1>1. /\ q \in p .. n /\ \A i \in Begins(b, p) : q <= i
      /\ q < n => q \in Begins(b, p)
  BY SkipBegins
<1>2. Len(key) \in Nat /\ Len(b) \in Nat
  OBVIOUS
<1>3. ASSUME n - q <= Len(key)
      PROVE  FoundFrom(b, key, p) = Null
  <2>1. ASSUME NEW i \in Begins(b, p)
        PROVE  ~KeyAt(b, key, i)
    <3>1. q <= i /\ i \in p .. Len(b)
      BY <1>1 DEF Begins
    <3>2. ~(Len(key) < Len(b) + 1 - i)
      BY <1>1, <1>2, <1>3, <3>1
    <3>3. QED
      BY <3>2 DEF KeyAt
  <2>2. Hits(b, key, p) = {}
    BY <2>1 DEF Hits
  <2>3. QED
    BY <2>2 DEF FoundFrom
<1>4. p = n => n - q <= Len(key)
  BY <1>1, <1>2
<1>5. ASSUME n - q > Len(key)
      PROVE  /\ r \in 1 .. n /\ p < r
             /\ FoundFrom(b, key, p) = IF Slice(b, q - 1, Len(key) + 1) = Append(key, Equal)
                                       THEN ValueAt(b, q + Len(key) + 1)
                                       ELSE FoundFrom(b, key, r)
  <2>1. q \in Begins(b, p) /\ q \in Nat /\ p <= q
    BY <1>1, <1>2, <1>5
  <2>2. r \in 1 .. n /\ q < r /\ Begins(b, p) = {q} \cup Begins(b, r)
    BY ONLY b \in Seq(Char), n = Len(b) + 1, p \in 1 .. n, r = NextFrom(b)[q], <1>1, <2>1, NextBegins
  <2>3. KeyAt(b, key, q) <=> Slice(b, q - 1, Len(key) + 1) = Append(key, Equal)
    BY <1>2, <1>5, <2>1 DEF KeyAt
  <2>4. Hits(b, key, p) \in SUBSET Nat /\ \A i \in Hits(b, key, p) : q <= i
    BY <1>1 DEF Hits, Begins
  <2>5. CASE KeyAt(b, key, q)
    <3>1. q \in Hits(b, key, p)
      BY <2>1, <2>5 DEF Hits
    <3>2. Min(Hits(b, key, p)) = q
      <4>1. PICK m : m = Min(Hits(b, key, p))
        OBVIOUS
      <4>2. m \in Hits(b, key, p) /\ m <= q
        BY <2>4, <3>1, <4>1, Smallest
      <4>3. m \in Nat /\ q <= m
        BY <2>4, <4>2
      <4>4. QED
        BY <2>1, <4>1, <4>2, <4>3
    <3>3. QED
      BY <2>1, <2>2, <2>3, <2>5, <3>1, <3>2 DEF FoundFrom
  <2>6. CASE ~KeyAt(b, key, q)
    <3>1. Hits(b, key, p) = Hits(b, key, r)
      BY <2>2, <2>6 DEF Hits
    <3>2. QED
      BY <2>1, <2>2, <2>3, <2>6, <3>1 DEF FoundFrom
  <2>7. QED
    BY <2>5, <2>6
<1>6. QED
  BY <1>1, <1>2, <1>3, <1>4, <1>5

\* A turn of the loop, with names for the two positions.
LEMMA TurnIs ==
  ASSUME NEW b, NEW key, NEW g, NEW p, NEW q, q = SkipFrom(b)[p], NEW r, r = NextFrom(b)[q]
  PROVE  SearchTurn(b, key, g, p) =
           IF p = Len(b) + 1 THEN Null
           ELSE IF Len(b) + 1 - q <= Len(key) THEN Null
           ELSE IF Slice(b, q - 1, Len(key) + 1) = Append(key, Equal)
           THEN ValueAt(b, q + Len(key) + 1)
           ELSE g[r]
BY DEF SearchTurn

LEMMA SearchIs ==
  ASSUME NEW b \in Seq(Char), NEW key \in Seq(Char), NEW n, n = Len(b) + 1
  PROVE  \A p \in 1 .. n : SearchFrom(b, key)[p] = FoundFrom(b, key, p)
<1> DEFINE h == [p \in 1 .. n |-> FoundFrom(b, key, p)]
<1>1. ASSUME NEW p \in 1 .. n
      PROVE  h[p] = SearchTurn(b, key, h, p)
  <2>1. PICK q, r : q = SkipFrom(b)[p] /\ r = NextFrom(b)[q]
    OBVIOUS
  <2>2. /\ FoundFrom(b, key, p) =
              IF p = n THEN Null
              ELSE IF n - q <= Len(key) THEN Null
              ELSE IF Slice(b, q - 1, Len(key) + 1) = Append(key, Equal)
              THEN ValueAt(b, q + Len(key) + 1)
              ELSE FoundFrom(b, key, r)
        /\ n - q > Len(key) => r \in 1 .. n /\ p < r
    BY <2>1, FoundStep
  <2>3. p # n /\ ~(n - q <= Len(key)) => h[r] = FoundFrom(b, key, r)
    <3>1. q \in Int /\ n \in Int /\ Len(key) \in Int
      BY <2>1, SkipBegins
    <3>2. QED
      BY <2>2, <3>1
  <2>4. h[p] = FoundFrom(b, key, p)
    OBVIOUS
  <2> HIDE DEF h
  <2>5. SearchTurn(b, key, h, p) =
          IF p = Len(b) + 1 THEN Null
          ELSE IF Len(b) + 1 - q <= Len(key) THEN Null
          ELSE IF Slice(b, q - 1, Len(key) + 1) = Append(key, Equal)
          THEN ValueAt(b, q + Len(key) + 1)
          ELSE h[r]
    BY <2>1, TurnIs
  <2>6. q \in Int /\ Len(b) \in Int /\ Len(key) \in Int
    BY <2>1, SkipBegins
  <2>7. QED
    BY <2>2, <2>3, <2>4, <2>5, <2>6
<1>2. h = [p \in 1 .. Len(b) + 1 |-> SearchTurn(b, key, h, p)]
  BY <1>1
<1> HIDE DEF h
<1>3. SearchFrom(b, key) = [p \in 1 .. Len(b) + 1 |-> SearchTurn(b, key, SearchFrom(b, key), p)]
  BY ONLY <1>2, Zenon DEF SearchFrom
<1>4. PICK g : g = SearchFrom(b, key)
  OBVIOUS
<1>5. g = [p \in 1 .. Len(b) + 1 |-> SearchTurn(b, key, g, p)]
  BY <1>3, <1>4
<1>6. \A p \in 1 .. n : g[p] = SearchTurn(b, key, g, p)
  BY <1>5
<1> DEFINE Good == {p \in 1 .. n : g[p] = FoundFrom(b, key, p)}
<1>7. ASSUME NEW p \in 1 .. n
      PROVE  p \in Good \/ \E r \in 1 .. n : p < r /\ (r \in Good => p \in Good)
  <2>1. PICK q, r : q = SkipFrom(b)[p] /\ r = NextFrom(b)[q]
    OBVIOUS
  <2>2. /\ FoundFrom(b, key, p) =
              IF p = n THEN Null
              ELSE IF n - q <= Len(key) THEN Null
              ELSE IF Slice(b, q - 1, Len(key) + 1) = Append(key, Equal)
              THEN ValueAt(b, q + Len(key) + 1)
              ELSE FoundFrom(b, key, r)
        /\ n - q > Len(key) => r \in 1 .. n /\ p < r
    BY <2>1, FoundStep
  <2>3. q \in Int /\ n \in Int /\ Len(key) \in Int
    BY <2>1, SkipBegins
  <2>4. g[p] = IF p = n THEN Null
               ELSE IF n - q <= Len(key) THEN Null
               ELSE IF Slice(b, q - 1, Len(key) + 1) = Append(key, Equal)
               THEN ValueAt(b, q + Len(key) + 1)
               ELSE g[r]
    <3>1. SearchTurn(b, key, g, p) =
            IF p = Len(b) + 1 THEN Null
            ELSE IF Len(b) + 1 - q <= Len(key) THEN Null
            ELSE IF Slice(b, q - 1, Len(key) + 1) = Append(key, Equal)
            THEN ValueAt(b, q + Len(key) + 1)
            ELSE g[r]
      BY <2>1, TurnIs
    <3>2. QED
      BY <1>6, <2>3, <3>1
  <2>5. CASE n - q > Len(key)
    <3>1. r \in 1 .. n /\ p < r
      BY <2>2, <2>5
    <3>2. g[r] = FoundFrom(b, key, r) => g[p] = FoundFrom(b, key, p)
      BY <2>2, <2>4
    <3>3. QED
      BY <3>1, <3>2
  <2>6. CASE n - q <= Len(key)
    BY <2>2, <2>4, <2>6
  <2>7. QED
    BY <2>3, <2>5, <2>6
<1>8. n \in Nat /\ \A p \in 1 .. n : p \in Good
  <2>1. n \in Nat
    OBVIOUS
  <2> HIDE DEF Good
  <2>2. QED
    BY ONLY <1>7, <2>1, DownFrom, Zenon
<1>9. QED
  BY <1>4, <1>8

\* A key is found where the buffer goes on with it.
LEMMA KeyAtIs ==
  ASSUME NEW b \in Seq(Char), NEW key \in Seq(Char), NEW k, k = Append(key, Equal),
         NEW i \in 1 .. Len(b)
  PROVE  KeyAt(b, key, i) <=> IsPrefix(k, SubSeq(b, i, Len(b)))
<1> DEFINE t == SubSeq(b, i, Len(b))
<1>1. /\ Len(b) \in Nat /\ Len(key) \in Nat /\ k \in Seq(Char) /\ Len(k) = Len(key) + 1
  BY DEF Equal, Char
<1>2. t \in Seq(Char) /\ Len(t) = Len(b) - i + 1 /\ \A x \in 1 .. Len(b) - i + 1 : t[x] = b[i + x - 1]
  BY TailOf
<1> HIDE DEF t
<1>3. Len(k) <= Len(t) <=> Len(key) < Len(b) + 1 - i
  BY <1>1, <1>2
<1>4. ASSUME Len(k) <= Len(t)
      PROVE  Slice(b, i - 1, Len(key) + 1) = SubSeq(t, 1, Len(k))
  <2> DEFINE u == SubSeq(b, i, i + Len(key))
             v == SubSeq(t, 1, Len(k))
  <2>1. Slice(b, i - 1, Len(key) + 1) = u
    BY <1>1 DEF Slice
  <2>2. u \in Seq(Char) /\ Len(u) = Len(key) + 1 /\ \A x \in 1 .. Len(key) + 1 : u[x] = b[i + x - 1]
    <3>1. \A x \in i .. i + Len(key) : x \in 1 .. Len(b)
      BY <1>1, <1>2, <1>4
    <3>2. \A x \in i .. i + Len(key) : b[x] \in Char
      BY <3>1, ElementOfSeq
    <3>3. QED
      BY <1>1, <3>2, SubSeqProperties
  <2>3. v \in Seq(Char) /\ Len(v) = Len(k) /\ \A x \in 1 .. Len(k) : v[x] = t[x]
    <3>1. \A x \in 1 .. Len(k) : x \in 1 .. Len(t)
      BY <1>1, <1>2, <1>4
    <3>2. \A x \in 1 .. Len(k) : t[x] \in Char
      BY <1>2, <3>1, ElementOfSeq
    <3>3. QED
      BY <1>1, <1>2, <3>2, SubSeqProperties
  <2> HIDE DEF u, v
  <2>4. ASSUME NEW x \in 1 .. Len(u)
        PROVE  u[x] = v[x]
    <3>1. x \in 1 .. Len(key) + 1 /\ x \in 1 .. Len(k) /\ x \in 1 .. Len(b) - i + 1
      BY <1>1, <1>2, <1>4, <2>2
    <3>2. QED
      BY <1>2, <2>2, <2>3, <3>1
  <2>5. u = v
    BY <1>1, <2>2, <2>3, <2>4, SeqEqual
  <2>6. QED
    BY <2>1, <2>5 DEF v
<1>5. SubSeq(k, 1, Len(k)) = k
  BY <1>1
<1>6. QED
  BY <1>3, <1>4, <1>5 DEF KeyAt, IsPrefix, t

LEMMA StartsAre ==
  ASSUME NEW b \in Seq(Char), NEW key \in Seq(Char), NEW k, k = Append(key, Equal)
  PROVE  KeyStarts(b, k) = Hits(b, key, 1)
<1>1. ASSUME NEW i \in 1 .. Len(b)
      PROVE  KeyAt(b, key, i) <=> IsPrefix(k, SubSeq(b, i, Len(b)))
  BY KeyAtIs
<1>2. KeyStarts(b, k) = {i \in 1 .. Len(b) :
        /\ b[i] \notin {Space, Delimiter}
        /\ \E j \in 0 .. (i - 1) : /\ j = 0 \/ b[j] = Delimiter
                                  /\ \A x \in (j + 1) .. (i - 1) : b[x] = Space
        /\ KeyAt(b, key, i)}
  BY <1>1 DEF KeyStarts
<1>3. 1 - 1 = 0
  OBVIOUS
<1>4. Begins(b, 1) = {i \in 1 .. Len(b) :
        /\ b[i] \notin {Space, Delimiter}
        /\ \E j \in 0 .. (i - 1) : /\ j = 0 \/ b[j] = Delimiter
                                  /\ \A x \in (j + 1) .. (i - 1) : b[x] = Space}
  BY <1>3, Zenon DEF Begins
<1>5. QED
  BY <1>2, <1>4, Zenon DEF Hits

\* The value ends at the next delimiter, at the end, or with the room.
LEMMA ValueIs ==
  ASSUME NEW b \in Seq(Char), NEW v \in 1 .. Len(b) + 1
  PROVE  ValueOf(SubSeq(b, v, Len(b)), ValueAt(b, v))
<1> DEFINE text == SubSeq(b, v, Len(b))
<1>1. PICK n, r : n = Len(b) + 1 /\ r = NextFrom(b)[v]
  OBVIOUS
<1>2. PICK Stop : Stop = {x \in 1 .. n : x = n \/ CharAt(b, x) = Delimiter}
  OBVIOUS
<1>3. /\ Len(b) \in Nat /\ n \in Nat /\ v \in 1 .. n /\ Stop \in SUBSET (1 .. n)
      /\ \A x \in 1 .. n : x < n => CharAt(b, x) = b[x]
      /\ ValueRoom \in Nat \ {0}
  BY <1>1, <1>2, RestfulAssumption DEF CharAt
<1>4. n \in Stop /\ \A x \in 1 .. n : NextFrom(b)[x] = StopAt(Stop, x)
  BY <1>1, <1>2, NextIs
<1>5. r \in Stop /\ v <= r /\ \A x \in Stop : v <= x => r <= x
  <2>1. r = StopAt(Stop, v)
    BY <1>1, <1>3, <1>4
  <2>2. QED
    BY ONLY <1>3, <1>4, <2>1, StopIs, Zenon
<1>6. r \in v .. n /\ (r < n => b[r] = Delimiter) /\ \A x \in v .. r - 1 : b[x] # Delimiter
  <2>1. r \in v .. n /\ (r < n => b[r] = Delimiter)
    BY <1>2, <1>3, <1>5
  <2>2. ASSUME NEW x \in v .. r - 1
        PROVE  b[x] # Delimiter
    <3>1. x \in 1 .. n /\ x < n /\ v <= x /\ ~(r <= x)
      BY <1>3, <2>1
    <3>2. x \notin Stop
      BY <1>5, <3>1
    <3>3. QED
      BY <1>2, <1>3, <3>1, <3>2
  <2>3. QED
    BY <2>1, <2>2
<1>7. text \in Seq(Char) /\ Len(text) = n - v /\ \A x \in 1 .. n - v : text[x] = b[v + x - 1]
  BY <1>1, <1>3, TailOf
<1> DEFINE s == SubSeq(b, v, r - 1)
<1>8. s \in Seq(Char) /\ Len(s) = r - v /\ \A x \in 1 .. r - v : s[x] = b[v + x - 1]
  <2>1. \A x \in v .. r - 1 : x \in 1 .. Len(b)
    BY <1>1, <1>3, <1>6
  <2>2. \A x \in v .. r - 1 : b[x] \in Char
    BY <2>1, ElementOfSeq
  <2>3. v \in Int /\ r - 1 \in Int
    BY <1>3, <1>6
  <2>4. QED
    BY <1>3, <1>6, <2>2, <2>3, SubSeqProperties
<1>9. PICK m : m = IF Len(s) < ValueRoom THEN Len(s) ELSE ValueRoom - 1
  OBVIOUS
<1>10. ValueAt(b, v) = SubSeq(s, 1, m)
  BY <1>1, <1>9 DEF ValueAt
<1> HIDE DEF s, text
<1>11. m \in 0 .. r - v /\ m \in 0 .. n - v /\ (m = r - v \/ m = ValueRoom - 1)
  BY <1>3, <1>6, <1>8, <1>9
<1>12. SubSeq(s, 1, m) = SubSeq(text, 1, m)
  <2> DEFINE x == SubSeq(s, 1, m)
             y == SubSeq(text, 1, m)
  <2>1. x \in Seq(Char) /\ Len(x) = m /\ \A i \in 1 .. m : x[i] = s[i]
    <3>1. \A i \in 1 .. m : i \in 1 .. Len(s)
      BY <1>8, <1>11
    <3>2. \A i \in 1 .. m : s[i] \in Char
      BY <1>8, <3>1, ElementOfSeq
    <3>3. QED
      BY <1>8, <1>11, <3>2, SubSeqProperties
  <2>2. y \in Seq(Char) /\ Len(y) = m /\ \A i \in 1 .. m : y[i] = text[i]
    <3>1. \A i \in 1 .. m : i \in 1 .. Len(text)
      BY <1>7, <1>11
    <3>2. \A i \in 1 .. m : text[i] \in Char
      BY <1>7, <3>1, ElementOfSeq
    <3>3. QED
      BY <1>7, <1>11, <3>2, SubSeqProperties
  <2> HIDE DEF x, y
  <2>3. ASSUME NEW i \in 1 .. Len(x)
        PROVE  x[i] = y[i]
    <3>1. i \in 1 .. m /\ i \in 1 .. r - v /\ i \in 1 .. n - v
      BY <1>3, <1>6, <1>11, <2>1
    <3>2. QED
      BY <1>7, <1>8, <2>1, <2>2, <3>1
  <2>4. x = y
    BY <2>1, <2>2, <2>3, SeqEqual
  <2>5. QED
    BY <2>4 DEF x, y
<1>13. ASSUME NEW i \in 1 .. m
       PROVE  text[i] # Delimiter
  <2>1. i \in 1 .. n - v /\ v + i - 1 \in v .. r - 1
    BY <1>3, <1>6, <1>11
  <2>2. QED
    BY <1>6, <1>7, <2>1
<1>14. m = Len(text) \/ text[m + 1] = Delimiter \/ m = ValueRoom - 1
  <2>1. CASE m = r - v /\ r = n
    BY <1>7, <2>1
  <2>2. CASE m = r - v /\ r < n
    <3>1. m + 1 \in 1 .. n - v /\ v + (m + 1) - 1 = r
      BY <1>3, <1>6, <2>2
    <3>2. QED
      BY <1>6, <1>7, <2>2, <3>1
  <2>3. QED
    BY <1>3, <1>6, <1>11, <2>1, <2>2
<1>15. ValueOf(text, SubSeq(s, 1, m))
  BY <1>7, <1>11, <1>12, <1>13, <1>14 DEF ValueOf
<1>16. QED
  BY <1>10, <1>15 DEF text

\* What find_key_value returns.
LEMMA KeyIs ==
  ASSUME NEW b \in Seq(Char), NEW key \in Seq(Char), NEW k, k = Append(key, Equal),
         NEW Starts, Starts = KeyStarts(b, k)
  PROVE  /\ Starts = {} => FindKeyValue(b, key) = Null
         /\ Starts # {} => \A first \in Starts : (\A j \in Starts : first <= j) =>
              ValueOf(SubSeq(b, first + Len(k), Len(b)), FindKeyValue(b, key))
<1>1. Starts = Hits(b, key, 1)
  BY StartsAre
<1>2. FindKeyValue(b, key) = FoundFrom(b, key, 1)
  <2>1. PICK n : n = Len(b) + 1
    OBVIOUS
  <2>2. 1 \in 1 .. n
    BY <2>1
  <2>3. SearchFrom(b, key)[1] = FoundFrom(b, key, 1)
    BY <2>1, <2>2, SearchIs
  <2>4. QED
    BY <2>3 DEF FindKeyValue
<1>3. CASE Starts = {}
  BY <1>1, <1>2, <1>3 DEF FoundFrom
<1>4. ASSUME NEW first \in Starts, \A j \in Starts : first <= j
      PROVE  ValueOf(SubSeq(b, first + Len(k), Len(b)), FindKeyValue(b, key))
  <2>1. /\ Starts \in SUBSET Nat /\ first \in 1 .. Len(b) /\ Len(b) \in Nat /\ Len(key) \in Nat
        /\ Len(key) < Len(b) + 1 - first
    BY <1>1 DEF Hits, Begins, KeyAt
  <2>2. PICK m : m = Min(Starts)
    OBVIOUS
  <2>3. m = first
    <3>1. m \in Starts /\ m <= first
      BY <2>1, <2>2, Smallest
    <3>2. m \in Nat /\ first <= m
      BY <1>4, <2>1, <3>1
    <3>3. QED
      BY <2>1, <3>1, <3>2
  <2>4. FindKeyValue(b, key) = ValueAt(b, first + Len(key) + 1)
    BY <1>1, <1>2, <2>2, <2>3 DEF FoundFrom
  <2>5. PICK v : v = first + Len(key) + 1
    OBVIOUS
  <2>6. v \in 1 .. Len(b) + 1 /\ first + Len(k) = v
    BY <2>1, <2>5 DEF Equal, Char
  <2>7. ValueOf(SubSeq(b, v, Len(b)), ValueAt(b, v))
    BY <2>6, ValueIs
  <2>8. QED
    BY <2>4, <2>5, <2>6, <2>7
<1>5. QED
  BY <1>3, <1>4

\* Only the samples are searched.
KeyGiven == sample.call = "key" => sample.buffer \in SampleBuffers /\ sample.key \in SampleKeys

LEMMA KeysAreGiven == RestfulSpec => []KeyGiven
<1>1. RestfulInit => KeyGiven
  BY DEF RestfulInit, KeyGiven
<1>2. KeyGiven /\ [RestfulNext]_restfulVars => KeyGiven'
  <2> SUFFICES ASSUME KeyGiven, [RestfulNext]_restfulVars
               PROVE  KeyGiven'
    OBVIOUS
  <2>1. CASE CallPack
    BY <2>1 DEF CallPack, KeyGiven
  <2>2. CASE CallMatch
    BY <2>2 DEF CallMatch, KeyGiven
  <2>3. CASE CallHandler
    BY <2>3 DEF CallHandler, KeyGiven
  <2>4. CASE CallFind
    BY <2>4 DEF CallFind, KeyGiven
  <2>5. CASE UNCHANGED restfulVars
    BY <2>5 DEF restfulVars, KeyGiven
  <2>6. QED
    BY <2>1, <2>2, <2>3, <2>4, <2>5 DEF RestfulNext
<1>3. QED
  BY <1>1, <1>2, PTL DEF RestfulSpec

\* Whatever the buffer and the key are: the value that is found is the one of the first
\* piece with this key, and if none has it there is none (find_key_value).
THEOREM FirstKeyIsFound ==
  ASSUME SampleBuffers \subseteq Seq(Char), SampleKeys \subseteq Seq(Char)
  PROVE  RestfulSpec => []KeyFoundIsFirst
<1>1. KeyGiven => KeyFoundIsFirst
  <2> SUFFICES ASSUME KeyGiven, sample.call = "key"
               PROVE  KeyFoundIsFirst
    BY DEF KeyFoundIsFirst
  <2>1. PICK b \in Seq(Char), key \in Seq(Char) : b = sample.buffer /\ key = sample.key
    BY DEF KeyGiven
  <2>2. PICK k, Starts, found : k = Append(key, Equal) /\ Starts = KeyStarts(b, k) /\ found = FindKeyValue(b, key)
    OBVIOUS
  <2>3. /\ Starts = {} => found = Null
        /\ Starts # {} => \A first \in Starts : (\A j \in Starts : first <= j) =>
             ValueOf(SubSeq(b, first + Len(k), Len(b)), found)
    BY <2>2, KeyIs
  <2>4. Starts # {} => \E first \in Starts : \A j \in Starts : first <= j
    <3>1. Starts \in SUBSET Nat
      BY <2>2 DEF KeyStarts
    <3>2. QED
      BY <3>1, LeastElement
  <2>5. IF Starts = {} THEN found = Null
        ELSE LET first == CHOOSE i \in Starts : \A j \in Starts : i <= j
             IN  ValueOf(SubSeq(b, first + Len(k), Len(b)), found)
    BY <2>3, <2>4
  <2>6. QED
    BY <2>1, <2>2, <2>5, Zenon DEF KeyFoundIsFirst
<1>2. QED
  BY <1>1, KeysAreGiven, PTL

-----------------------------------------------------------------------------
(* Attribute containers.                                                   *)

\* An attribute of the list of a container; no key is in the list twice.
Attr == [key : AttrKey, value : AttrValue]
OneOfEach(s) == \A i, j \in 1 .. Len(s) : s[i].key = s[j].key => i = j

\* The attribute that is found is the one with the key.
LEMMA Found ==
  ASSUME NEW c, NEW s \in Seq(Attr), s = c.attrs, NEW k
  PROVE  \/ FindAttr(c, k) = 0 /\ \A i \in 1 .. Len(s) : s[i].key # k
         \/ FindAttr(c, k) \in 1 .. Len(s) /\ s[FindAttr(c, k)].key = k
<1> DEFINE I == {i \in 1 .. Len(s) : s[i].key = k}
<1>1. FindAttr(c, k) = IF I # {} THEN Min(I) ELSE 0
  BY DEF FindAttr, SelectInSeq
<1>2. I \in SUBSET Nat
  OBVIOUS
<1>3. I # {} => Min(I) \in I
  <2> HIDE DEF I
  <2> QED
    BY <1>2, Smallest
<1>4. CASE I = {}
  BY <1>1, <1>4
<1>5. CASE I # {}
  BY <1>1, <1>3, <1>5
<1>6. QED
  BY <1>4, <1>5

\* What GetAttr returns for the list s.
LEMMA GetIs ==
  ASSUME NEW c, NEW s \in Seq(Attr), s = c.attrs, OneOfEach(s), NEW k
  PROVE  /\ \A i \in 1 .. Len(s) : s[i].key = k => GetAttr(c, k) = s[i].value
         /\ (\A i \in 1 .. Len(s) : s[i].key # k) => GetAttr(c, k) = Nothing
<1>1. PICK n : n = FindAttr(c, k)
  OBVIOUS
<1>2. \/ n = 0 /\ \A i \in 1 .. Len(s) : s[i].key # k
      \/ n \in 1 .. Len(s) /\ s[n].key = k
  BY <1>1, Found
<1>3. GetAttr(c, k) = IF n = 0 THEN Nothing ELSE s[n].value
  BY <1>1 DEF GetAttr
<1>4. ASSUME NEW i \in 1 .. Len(s), s[i].key = k
      PROVE  GetAttr(c, k) = s[i].value
  <2>1. n \in 1 .. Len(s) /\ s[n].key = k
    BY <1>2, <1>4
  <2>2. n = i /\ n # 0
    BY <1>4, <2>1 DEF OneOfEach
  <2>3. QED
    BY <1>3, <2>2
<1>5. ASSUME \A i \in 1 .. Len(s) : s[i].key # k
      PROVE  GetAttr(c, k) = Nothing
  BY <1>2, <1>3, <1>5
<1>6. QED
  BY <1>4, <1>5

-----------------------------------------------------------------------------
\* The list t is the list s with a as the attribute of its key.
Stores(s, t, a) ==
  /\ t \in Seq(Attr) /\ OneOfEach(t)
  /\ \E i \in 1 .. Len(t) : t[i] = a
  /\ \A i \in 1 .. Len(t) : t[i] = a \/ \E j \in 1 .. Len(s) : t[i] = s[j] /\ s[j].key # a.key
  /\ \A j \in 1 .. Len(s) : s[j].key # a.key => \E i \in 1 .. Len(t) : t[i] = s[j]

LEMMA Replaced ==
  ASSUME NEW s \in Seq(Attr), OneOfEach(s), NEW a \in Attr, NEW n \in 1 .. Len(s),
         s[n].key = a.key
  PROVE  Stores(s, [s EXCEPT ![n] = a], a)
<1>1. PICK t \in Seq(Attr) :
        /\ t = [s EXCEPT ![n] = a] /\ Len(t) = Len(s) /\ t[n] = a
        /\ \A i \in 1 .. Len(s) : i # n => t[i] = s[i]
  <2>1. /\ [s EXCEPT ![n] = a] \in Seq(Attr) /\ Len([s EXCEPT ![n] = a]) = Len(s)
        /\ [s EXCEPT ![n] = a][n] = a
        /\ \A i \in 1 .. Len(s) : i # n => [s EXCEPT ![n] = a][i] = s[i]
    BY ExceptSeq
  <2>2. QED
    BY <2>1, Zenon
<1>2. \A i \in 1 .. Len(s) : t[i].key = s[i].key
  BY <1>1
<1>3. OneOfEach(t)
  BY <1>1, <1>2, Zenon DEF OneOfEach
<1>4. \A i \in 1 .. Len(s) : i # n => s[i].key # a.key
  BY DEF OneOfEach
<1>5. \A i \in 1 .. Len(t) : t[i] = a \/ \E j \in 1 .. Len(s) : t[i] = s[j] /\ s[j].key # a.key
  BY <1>1, <1>4, Zenon
<1>6. \A j \in 1 .. Len(s) : s[j].key # a.key => \E i \in 1 .. Len(t) : t[i] = s[j]
  BY <1>1, Zenon
<1>7. \E i \in 1 .. Len(t) : t[i] = a
  BY <1>1, Zenon
<1>8. QED
  BY <1>1, <1>3, <1>5, <1>6, <1>7, Zenon DEF Stores

LEMMA AddedLast ==
  ASSUME NEW s \in Seq(Attr), OneOfEach(s), NEW a \in Attr,
         \A i \in 1 .. Len(s) : s[i].key # a.key
  PROVE  Stores(s, Append(s, a), a)
<1>1. PICK t \in Seq(Attr) :
        /\ t = Append(s, a) /\ Len(t) = Len(s) + 1 /\ t[Len(s) + 1] = a
        /\ \A i \in 1 .. Len(s) : t[i] = s[i]
  <2>1. /\ Append(s, a) \in Seq(Attr) /\ Len(Append(s, a)) = Len(s) + 1
        /\ Append(s, a)[Len(s) + 1] = a /\ \A i \in 1 .. Len(s) : Append(s, a)[i] = s[i]
    BY AppendProperties
  <2>2. QED
    BY <2>1, Zenon
<1>2. PICK n \in Nat : n = Len(s)
  OBVIOUS
<1>3. /\ Len(t) = n + 1 /\ n + 1 \in 1 .. n + 1 /\ n + 1 \notin 1 .. n
      /\ \A i \in 1 .. n + 1 : i = n + 1 \/ i \in 1 .. n
      /\ \A i \in 1 .. n : i \in 1 .. n + 1
  BY <1>1, <1>2
<1>4. t[n + 1] = a /\ \A i \in 1 .. n : t[i] = s[i] /\ s[i].key # a.key
  BY <1>1, <1>2
<1>5. OneOfEach(t)
  <2> SUFFICES ASSUME NEW i \in 1 .. n + 1, NEW j \in 1 .. n + 1, t[i].key = t[j].key
               PROVE  i = j
    BY <1>3, Zenon DEF OneOfEach
  <2>1. CASE i = n + 1 \/ j = n + 1
    BY <1>3, <1>4, <2>1, Zenon
  <2>2. CASE i # n + 1 /\ j # n + 1
    <3>1. i \in 1 .. n /\ j \in 1 .. n
      BY <1>3, <2>2, Zenon
    <3>2. s[i].key = s[j].key
      BY <1>4, <3>1, Zenon
    <3>3. QED
      BY <1>2, <3>1, <3>2, Zenon DEF OneOfEach
  <2>3. QED
    BY <2>1, <2>2
<1>6. \A i \in 1 .. n + 1 : t[i] = a \/ \E j \in 1 .. n : t[i] = s[j] /\ s[j].key # a.key
  BY <1>3, <1>4, Zenon
<1>7. \A j \in 1 .. n : s[j].key # a.key => \E i \in 1 .. n + 1 : t[i] = s[j]
  BY <1>3, <1>4, Zenon
<1>8. \E i \in 1 .. n + 1 : t[i] = a
  BY <1>3, <1>4, Zenon
<1>9. QED
  BY <1>1, <1>2, <1>3, <1>5, <1>6, <1>7, <1>8, Zenon DEF Stores

LEMMA MovedLast ==
  ASSUME NEW s \in Seq(Attr), OneOfEach(s), NEW a \in Attr, NEW n \in 1 .. Len(s),
         s[n].key = a.key
  PROVE  Stores(s, Append(RemoveAt(s, n), a), a)
<1>1. PICK r \in Seq(Attr) :
        /\ r = RemoveAt(s, n) /\ Len(r) = Len(s) - 1
        /\ \A j \in 1 .. Len(s) - 1 : r[j] = IF j < n THEN s[j] ELSE s[j + 1]
  <2>1. /\ RemoveAt(s, n) \in Seq(Attr) /\ Len(RemoveAt(s, n)) = Len(s) - 1
        /\ \A j \in 1 .. Len(s) - 1 : RemoveAt(s, n)[j] = IF j < n THEN s[j] ELSE s[j + 1]
    BY RemoveAtElements
  <2>2. QED
    BY <2>1, Zenon
<1> DEFINE old(j) == IF j < n THEN j ELSE j + 1
<1>2. \A j \in 1 .. Len(r) : old(j) \in 1 .. Len(s) /\ old(j) # n /\ r[j] = s[old(j)]
  BY <1>1
<1>3. \A i, j \in 1 .. Len(r) : old(i) = old(j) => i = j
  BY <1>1
<1>4. \A i \in 1 .. Len(s) : i # n => \E j \in 1 .. Len(r) : old(j) = i
  <2> SUFFICES ASSUME NEW i \in 1 .. Len(s), i # n
               PROVE  \E j \in 1 .. Len(r) : old(j) = i
    OBVIOUS
  <2>1. CASE i < n
    <3>1. i \in 1 .. Len(r) /\ old(i) = i
      BY <1>1, <2>1
    <3>2. QED
      BY <3>1
  <2>2. CASE ~(i < n)
    <3>1. i - 1 \in 1 .. Len(r) /\ old(i - 1) = i
      BY <1>1, <2>2
    <3>2. QED
      BY <3>1
  <2>3. QED
    BY <2>1, <2>2
<1> HIDE DEF old
<1>5. OneOfEach(r)
  <2> SUFFICES ASSUME NEW i \in 1 .. Len(r), NEW j \in 1 .. Len(r), r[i].key = r[j].key
               PROVE  i = j
    BY Zenon DEF OneOfEach
  <2>1. s[old(i)].key = s[old(j)].key /\ old(i) \in 1 .. Len(s) /\ old(j) \in 1 .. Len(s)
    BY <1>2, Zenon
  <2>2. old(i) = old(j)
    BY <2>1, Zenon DEF OneOfEach
  <2>3. QED
    BY <1>3, <2>2, Zenon
<1>6. \A i \in 1 .. Len(s) : i # n => s[i].key # a.key
  BY DEF OneOfEach
<1>7. \A j \in 1 .. Len(r) : r[j].key # a.key
  BY <1>2, <1>6, Zenon
<1>8. PICK t : t = Append(r, a)
  OBVIOUS
<1>9. Stores(r, t, a)
  BY <1>5, <1>7, <1>8, AddedLast
<1>10. Stores(s, t, a)
  <2>1. \A i \in 1 .. Len(t) : t[i] = a \/ \E j \in 1 .. Len(s) : t[i] = s[j] /\ s[j].key # a.key
    <3>1. \A i \in 1 .. Len(t) : t[i] = a \/ \E j \in 1 .. Len(r) : t[i] = r[j]
      BY <1>9, Zenon DEF Stores
    <3>2. \A j \in 1 .. Len(r) : \E k \in 1 .. Len(s) : r[j] = s[k] /\ s[k].key # a.key
      BY <1>2, <1>6, Zenon
    <3>3. QED
      BY <3>1, <3>2, ZenonT(30)
  <2>2. \A j \in 1 .. Len(s) : s[j].key # a.key => \E i \in 1 .. Len(t) : t[i] = s[j]
    <3> SUFFICES ASSUME NEW j \in 1 .. Len(s), s[j].key # a.key
                 PROVE  \E i \in 1 .. Len(t) : t[i] = s[j]
      OBVIOUS
    <3>1. PICK m \in 1 .. Len(r) : old(m) = j
      BY <1>4
    <3>2. r[m] = s[j] /\ r[m].key # a.key
      BY <1>2, <1>7, <3>1, Zenon
    <3>3. QED
      BY <1>9, <3>2, Zenon DEF Stores
  <2>3. QED
    BY <1>9, <2>1, <2>2, Zenon DEF Stores
<1>11. QED
  BY <1>1, <1>8, <1>10

-----------------------------------------------------------------------------
(* A call that sets an attribute.                                          *)

\* What the theorem assumes: NULL is no value and no container.
NothingIsNull ==
  /\ AttrValue \subseteq [type : AttrType, size : Nat, word : Nat] /\ Nothing \notin AttrValue
  /\ \A f, n, s : Nothing # [flags |-> f, total |-> n, attrs |-> s]

\* The list of a container, and the container with another list.
Container(c, s) ==
  /\ s \in Seq(Attr) /\ OneOfEach(s) /\ c.attrs = s
  /\ c = [flags |-> c.flags, total |-> c.total, attrs |-> s]

LEMMA SizeIsPositive ==
  ASSUME NothingIsNull, NEW k \in AttrKey, NEW v \in AttrValue
  PROVE  AttrSize(k, v) \in Nat /\ AttrSize(k, v) # 0
<1>1. v.size \in Nat /\ v.type \in AttrType /\ (v.type <= TypeBoolean => v.size = FixedSize(v.type))
  <2>1. v.type \in AttrType /\ (v.type <= TypeBoolean => v.size = FixedSize(v.type))
    BY AttrAssumption
  <2>2. v.size \in Nat
    BY DEF NothingIsNull
  <2>3. QED
    BY <2>1, <2>2
<1>2. KeyLength[k] \in Nat
  <2>1. KeyLength \in [AttrKey -> Nat \ {0}]
    BY AttrAssumption
  <2>2. QED
    BY <2>1
<1>3. CASE v.type <= TypeBoolean
  <2>1. AttrSize(k, v) = 2 + KeyLength[k] + 1 + 1 + v.size
    BY <1>1, <1>3 DEF AttrSize, TypeBoolean, TypeString, TypeByteArray, AttrType
  <2>2. QED
    BY <1>1, <1>2, <2>1
<1>4. CASE v.type = TypeString
  <2>1. AttrSize(k, v) = 2 + KeyLength[k] + 1 + 1 + (2 + v.size)
    BY <1>4 DEF AttrSize, TypeBoolean, TypeString, TypeByteArray
  <2>2. QED
    BY <1>1, <1>2, <2>1
<1>5. CASE v.type = TypeByteArray
  <2>1. AttrSize(k, v) = 2 + KeyLength[k] + 1 + 1 + (4 + v.size)
    BY <1>5 DEF AttrSize, TypeBoolean, TypeString, TypeByteArray
  <2>2. QED
    BY <1>1, <1>2, <2>1
<1>6. QED
  BY <1>1, <1>3, <1>4, <1>5 DEF AttrType, TypeBoolean, TypeString, TypeByteArray

LEMMA SetStores ==
  ASSUME NothingIsNull, NEW c, NEW s, Container(c, s), NEW k \in AttrKey, NEW v \in AttrValue,
         NEW grows \in BOOLEAN, NEW d, d = AttrSet(c, k, v, grows), d # Nothing
  PROVE  \E t : Container(d, t) /\ Stores(s, t, [key |-> k, value |-> v])
<1>1. PICK a \in Attr : a = [key |-> k, value |-> v] /\ a.key = k
  <2>1. [key |-> k, value |-> v] \in Attr
    BY DEF Attr
  <2>2. [key |-> k, value |-> v].key = k
    OBVIOUS
  <2>3. QED
    BY <2>1, <2>2, Zenon
<1>2. PICK n : n = FindAttr(c, k)
  OBVIOUS
<1>3. /\ s \in Seq(Attr) /\ OneOfEach(s) /\ c.attrs = s
      /\ c = [flags |-> c.flags, total |-> c.total, attrs |-> s]
  BY DEF Container
<1>4. \/ n = 0 /\ \A i \in 1 .. Len(s) : s[i].key # k
      \/ n \in 1 .. Len(s) /\ s[n].key = k
  BY <1>2, <1>3, Found
<1> DEFINE size == AttrSize(k, v)
           hole == IF n = 0 THEN 0 ELSE AttrSize(k, c.attrs[n].value)
           e == Grown(c, size)
<1>5. d = IF hole = size THEN [c EXCEPT !.attrs[n] = a]
          ELSE IF hole + RoomLeft(c) >= size
               THEN IF n = 0 THEN Appended(c, a) ELSE Moved(c, n, a)
          ELSE IF grows THEN IF n = 0 THEN Appended(e, a) ELSE Moved(e, n, a)
          ELSE Nothing
  BY <1>1, <1>2, Zenon DEF AttrSet
<1>6. n = 0 => hole # size
  BY SizeIsPositive
<1>7. /\ e.attrs = s /\ e.flags = c.flags
      /\ e = [flags |-> c.flags, total |-> e.total, attrs |-> s]
  BY <1>3 DEF Grown
<1> HIDE DEF size, hole, e
<1>8. CASE n = 0
  <2>1. Stores(s, Append(s, a), a)
    BY <1>1, <1>3, <1>4, <1>8, AddedLast
  <2>2. d = Appended(c, a) \/ d = Appended(e, a)
    BY <1>5, <1>6, <1>8
  <2>3. PICK t : t = Append(s, a)
    OBVIOUS
  <2>4. d.attrs = t /\ d = [flags |-> d.flags, total |-> d.total, attrs |-> t]
    BY <1>3, <1>7, <2>2, <2>3 DEF Appended
  <2>5. t \in Seq(Attr) /\ OneOfEach(t)
    BY <2>1, <2>3 DEF Stores
  <2>6. QED
    BY <1>1, <2>1, <2>3, <2>4, <2>5 DEF Container
<1>9. CASE n # 0 /\ hole = size
  <2>1. n \in 1 .. Len(s) /\ s[n].key = a.key
    BY <1>1, <1>4, <1>9
  <2>2. PICK t : t = [s EXCEPT ![n] = a]
    OBVIOUS
  <2>3. Stores(s, t, a)
    BY <1>3, <2>1, <2>2, Replaced
  <2>4. d.attrs = t /\ d = [flags |-> d.flags, total |-> d.total, attrs |-> t]
    BY <1>3, <1>5, <1>9, <2>2
  <2>5. t \in Seq(Attr) /\ OneOfEach(t)
    BY <2>3 DEF Stores
  <2>6. QED
    BY <1>1, <2>3, <2>4, <2>5 DEF Container
<1>10. CASE n # 0 /\ hole # size
  <2>1. n \in 1 .. Len(s) /\ s[n].key = a.key
    BY <1>1, <1>4, <1>10
  <2>2. PICK t : t = Append(RemoveAt(s, n), a)
    OBVIOUS
  <2>3. Stores(s, t, a)
    BY <1>3, <2>1, <2>2, MovedLast
  <2>4. d = Moved(c, n, a) \/ d = Moved(e, n, a)
    BY <1>5, <1>10
  <2>5. d.attrs = t /\ d = [flags |-> d.flags, total |-> d.total, attrs |-> t]
    BY <1>3, <1>7, <2>2, <2>4 DEF Moved
  <2>6. t \in Seq(Attr) /\ OneOfEach(t)
    BY <2>3 DEF Stores
  <2>7. QED
    BY <1>1, <2>3, <2>5, <2>6 DEF Container
<1>11. QED
  BY <1>8, <1>9, <1>10

-----------------------------------------------------------------------------
(* What a container holds, as a map.                                       *)

LEMMA ContentsAre ==
  ASSUME NothingIsNull, NEW c, NEW s, Container(c, s), NEW k \in AttrKey
  PROVE  c # Nothing /\ Contents(c)[k] = GetAttr(c, k)
<1>1. s \in Seq(Attr) /\ s = c.attrs /\ OneOfEach(s) /\ c # Nothing
  BY DEF Container, NothingIsNull
<1>2. GetAttr(c, k) = Nothing \/ GetAttr(c, k) \in AttrValue
  <2>1. CASE \E i \in 1 .. Len(s) : s[i].key = k
    <3>1. PICK i \in 1 .. Len(s) : s[i].key = k
      BY <2>1
    <3>2. GetAttr(c, k) = s[i].value
      BY <1>1, <3>1, GetIs
    <3>3. s[i] \in Attr
      BY <1>1
    <3>4. QED
      BY <3>2, <3>3 DEF Attr
  <2>2. CASE \A i \in 1 .. Len(s) : s[i].key # k
    BY <1>1, <2>2, GetIs
  <2>3. QED
    BY <2>1, <2>2
<1>3. PICK v : v = GetAttr(c, k)
  OBVIOUS
<1>4. Contents(c)[k] = IF v = Nothing THEN Nothing ELSE [v EXCEPT !.word = GetAs(c, k, v.size)]
  BY <1>1, <1>3 DEF Contents
<1>5. ASSUME v # Nothing
      PROVE  [v EXCEPT !.word = GetAs(c, k, v.size)] = v
  <2>1. v \in [type : AttrType, size : Nat, word : Nat]
    BY <1>2, <1>3, <1>5 DEF NothingIsNull
  <2>2. GetAs(c, k, v.size) = v.word
    <3>1. ~(v.size > v.size)
      BY <2>1
    <3>2. QED
      BY <1>3, <1>5, <3>1, Zenon DEF GetAs
  <2>3. QED
    BY <2>1, <2>2
<1>6. QED
  BY <1>1, <1>3, <1>4, <1>5

LEMMA SetPuts ==
  ASSUME NothingIsNull, NEW c, NEW s, Container(c, s), NEW d, NEW t, Container(d, t),
         NEW k \in AttrKey, NEW v \in AttrValue, Stores(s, t, [key |-> k, value |-> v])
  PROVE  Contents(d) = [Contents(c) EXCEPT ![k] = v]
<1>1. PICK a \in Attr : a = [key |-> k, value |-> v] /\ a.key = k /\ a.value = v
  <2>1. [key |-> k, value |-> v] \in Attr
    BY DEF Attr
  <2>2. [key |-> k, value |-> v].key = k /\ [key |-> k, value |-> v].value = v
    OBVIOUS
  <2>3. QED
    BY <2>1, <2>2, Zenon
<1>2. /\ s \in Seq(Attr) /\ s = c.attrs /\ OneOfEach(s)
      /\ t \in Seq(Attr) /\ t = d.attrs /\ OneOfEach(t)
  BY DEF Container
<1>3. /\ \E i \in 1 .. Len(t) : t[i] = a
      /\ \A i \in 1 .. Len(t) : t[i] = a \/ \E j \in 1 .. Len(s) : t[i] = s[j] /\ s[j].key # k
      /\ \A j \in 1 .. Len(s) : s[j].key # k => \E i \in 1 .. Len(t) : t[i] = s[j]
  BY <1>1, Zenon DEF Stores
<1>4. \A j \in AttrKey : Contents(c)[j] = GetAttr(c, j) /\ Contents(d)[j] = GetAttr(d, j)
  BY ContentsAre
<1>5. GetAttr(d, k) = v
  BY <1>1, <1>2, <1>3, GetIs
<1>6. ASSUME NEW j \in AttrKey, j # k
      PROVE  GetAttr(d, j) = GetAttr(c, j)
  <2>1. CASE \E i \in 1 .. Len(s) : s[i].key = j
    <3>1. PICK i \in 1 .. Len(s) : s[i].key = j
      BY <2>1
    <3>2. PICK n \in 1 .. Len(t) : t[n] = s[i]
      BY <1>3, <1>6, <3>1
    <3>3. GetAttr(c, j) = s[i].value
      BY <1>2, <3>1, GetIs
    <3>4. GetAttr(d, j) = t[n].value
      BY <1>2, <3>1, <3>2, GetIs
    <3>5. QED
      BY <3>2, <3>3, <3>4
  <2>2. CASE \A i \in 1 .. Len(s) : s[i].key # j
    <3>1. \A i \in 1 .. Len(t) : t[i].key # j
      BY <1>1, <1>3, <1>6, <2>2, Zenon
    <3>2. QED
      BY <1>2, <2>2, <3>1, GetIs
  <2>3. QED
    BY <2>1, <2>2
<1>7. /\ Contents(c) = [j \in AttrKey |-> Contents(c)[j]]
      /\ Contents(d) = [j \in AttrKey |-> Contents(d)[j]]
  BY DEF Contents
<1>8. \A j \in AttrKey : Contents(d)[j] = IF j = k THEN v ELSE Contents(c)[j]
  BY <1>4, <1>5, <1>6
<1>9. QED
  <2>1. PICK f, g : f = Contents(c) /\ g = Contents(d)
    OBVIOUS
  <2>2. /\ f = [j \in AttrKey |-> f[j]] /\ g = [j \in AttrKey |-> g[j]]
        /\ \A j \in AttrKey : g[j] = IF j = k THEN v ELSE f[j]
    BY <1>7, <1>8, <2>1, Zenon
  <2>3. g = [f EXCEPT ![k] = v]
    BY <2>2
  <2>4. QED
    BY <2>1, <2>3

LEMMA EmptyContents ==
  ASSUME NothingIsNull, NEW c, c = Nothing \/ Container(c, <<>>)
  PROVE  Contents(c) = [k \in AttrKey |-> Nothing]
<1>1. CASE c = Nothing
  BY <1>1 DEF Contents
<1>2. CASE Container(c, <<>>)
  <2>1. \A k \in AttrKey : Contents(c)[k] = Nothing
    <3> SUFFICES ASSUME NEW k \in AttrKey
                 PROVE  Contents(c)[k] = Nothing
      OBVIOUS
    <3>1. PICK s \in Seq(Attr) : s = <<>> /\ s = c.attrs /\ OneOfEach(s)
      BY <1>2 DEF Container
    <3>2. GetAttr(c, k) = Nothing
      <4>1. \A i \in 1 .. Len(s) : s[i].key # k
        BY <3>1
      <4>2. QED
        BY <3>1, <4>1, GetIs
    <3>3. QED
      BY <1>2, <3>2, ContentsAre
  <2>2. Contents(c) = [k \in AttrKey |-> Contents(c)[k]]
    BY DEF Contents
  <2>3. QED
    BY <2>1, <2>2
<1>3. QED
  BY <1>1, <1>2

\* There is a container, if there is one, with each key once.
HoldsEachOnce == container # Nothing => \E s : Container(container, s)

LEMMA AttrStep ==
  ASSUME NothingIsNull, HoldsEachOnce, [AttrNext]_attrVars
  PROVE  HoldsEachOnce' /\ [Map!MapNext]_(Map!mapVars)
<1>1. CASE CreateContainer
  <2>1. PICK c : c = container' /\ c.attrs = <<>> /\ container = Nothing
    BY <1>1 DEF CreateContainer
  <2>2. Container(c, <<>>)
    BY <1>1, <2>1 DEF CreateContainer, Container, OneOfEach
  <2>3. Contents(container) = [k \in AttrKey |-> Nothing]
    BY <2>1, EmptyContents
  <2>4. Contents(c) = [k \in AttrKey |-> Nothing]
    BY <2>2, EmptyContents
  <2>5. HoldsEachOnce'
    BY <2>1, <2>2 DEF HoldsEachOnce
  <2>6. UNCHANGED Map!mapVars
    <3>1. Contents(container)' = Contents(c)
      BY <2>1 DEF Contents, GetAttr, GetAs, FindAttr, SelectInSeq, Min
    <3>2. QED
      BY <1>1, <2>3, <2>4, <3>1 DEF Map!mapVars, CreateContainer
  <2>7. QED
    BY <2>5, <2>6
<1>2. CASE DestroyContainer
  <2>1. PICK c : c = container' /\ c = Nothing
    BY <1>2 DEF DestroyContainer
  <2>2. Contents(c) = [k \in AttrKey |-> Nothing]
    BY <2>1, EmptyContents
  <2>3. Contents(container)' = Contents(c)
    BY <2>1 DEF Contents, GetAttr, GetAs, FindAttr, SelectInSeq, Min
  <2>4. Map!MakeEmpty
    BY <1>2, <2>2, <2>3 DEF Map!MakeEmpty, DestroyContainer
  <2>5. HoldsEachOnce'
    BY <2>1 DEF HoldsEachOnce
  <2>6. QED
    BY <2>4, <2>5 DEF Map!MapNext
<1>3. CASE Deliver
  <2>1. PICK s : Container(container, s)
    BY <1>3 DEF Deliver, HoldsEachOnce
  <2>2. PICK c : c = container' /\ Container(c, s) /\ c.attrs = container.attrs
    BY <1>3, <2>1 DEF Deliver, Serialized, Container
  <2>3. \A k \in AttrKey : Contents(c)[k] = Contents(container)[k]
    <3> SUFFICES ASSUME NEW k \in AttrKey
                 PROVE  Contents(c)[k] = Contents(container)[k]
      OBVIOUS
    <3>1. Contents(c)[k] = GetAttr(c, k) /\ Contents(container)[k] = GetAttr(container, k)
      BY <2>1, <2>2, ContentsAre
    <3>2. GetAttr(c, k) = GetAttr(container, k)
      BY <2>2 DEF GetAttr, FindAttr
    <3>3. QED
      BY <3>1, <3>2
  <2>4. Contents(c) = Contents(container)
    <3>1. /\ Contents(c) = [k \in AttrKey |-> Contents(c)[k]]
          /\ Contents(container) = [k \in AttrKey |-> Contents(container)[k]]
      BY DEF Contents
    <3>2. QED
      BY <2>3, <3>1
  <2>5. Contents(container)' = Contents(c)
    BY <2>2 DEF Contents, GetAttr, GetAs, FindAttr, SelectInSeq, Min
  <2>6. UNCHANGED Map!mapVars
    BY <1>3, <2>4, <2>5 DEF Deliver, Map!mapVars
  <2>7. HoldsEachOnce'
    BY <2>2 DEF HoldsEachOnce
  <2>8. QED
    BY <2>6, <2>7
<1>4. ASSUME NEW k \in AttrKey, NEW v \in AttrValue, SetAttr(k, v)
      PROVE  HoldsEachOnce' /\ [Map!MapNext]_(Map!mapVars)
  <2>1. PICK s : Container(container, s)
    BY <1>4 DEF SetAttr, HoldsEachOnce
  <2>2. PICK grows \in BOOLEAN :
          /\ container' = IF AttrSet(container, k, v, grows) = Nothing THEN container
                          ELSE AttrSet(container, k, v, grows)
          /\ answer' = [key |-> k, value |-> v,
                        ok |-> AttrSet(container, k, v, grows) # Nothing]
    BY <1>4, Zenon DEF SetAttr
  <2> DEFINE d == AttrSet(container, k, v, grows)
  <2>3. CASE d = Nothing
    <3>1. container' = container /\ answer' = [key |-> k, value |-> v, ok |-> FALSE]
      BY <2>2, <2>3
    <3>2. Contents(container)' = Contents(container)
      BY <3>1 DEF Contents, GetAttr, GetAs, FindAttr, SelectInSeq, Min
    <3>3. Map!Refuse(k, v)
      BY <3>1, <3>2 DEF Map!Refuse
    <3>4. QED
      BY <2>1, <3>1, <3>3 DEF Map!MapNext, HoldsEachOnce
  <2>4. CASE d # Nothing
    <3>1. container' = d /\ answer' = [key |-> k, value |-> v, ok |-> TRUE]
      BY <2>2, <2>4
    <3>2. PICK t : Container(d, t) /\ Stores(s, t, [key |-> k, value |-> v])
      BY <2>1, <2>2, <2>4, SetStores
    <3>3. Contents(d) = [Contents(container) EXCEPT ![k] = v]
      BY <2>1, <3>2, SetPuts
    <3>4. Contents(container)' = Contents(d)
      BY <3>1 DEF Contents, GetAttr, GetAs, FindAttr, SelectInSeq, Min
    <3>5. Map!Put(k, v)
      BY <3>1, <3>3, <3>4 DEF Map!Put
    <3>6. HoldsEachOnce'
      BY <3>1, <3>2 DEF HoldsEachOnce
    <3>7. QED
      BY <3>5, <3>6 DEF Map!MapNext
  <2>5. QED
    BY <2>3, <2>4
<1>5. ASSUME NEW k \in AttrKey, NEW v \in AttrValue, SetRefused(k, v)
      PROVE  HoldsEachOnce' /\ [Map!MapNext]_(Map!mapVars)
  <2>1. container' = container /\ answer' = [key |-> k, value |-> v, ok |-> FALSE]
    BY <1>5 DEF SetRefused
  <2>2. Contents(container)' = Contents(container)
    BY <2>1 DEF Contents, GetAttr, GetAs, FindAttr, SelectInSeq, Min
  <2>3. Map!Refuse(k, v)
    BY <2>1, <2>2 DEF Map!Refuse
  <2>4. QED
    BY <2>1, <2>3 DEF Map!MapNext, HoldsEachOnce
<1>6. CASE UNCHANGED attrVars
  <2>1. container' = container /\ answer' = answer
    BY <1>6 DEF attrVars
  <2>2. Contents(container)' = Contents(container)
    BY <2>1 DEF Contents, GetAttr, GetAs, FindAttr, SelectInSeq, Min
  <2>3. QED
    BY <2>1, <2>2 DEF HoldsEachOnce, Map!mapVars
<1>7. QED
  BY <1>1, <1>2, <1>3, <1>4, <1>5, <1>6 DEF AttrNext

\* However the keys are set, moved, replaced or refused, and for whatever sizes, an
\* attribute container is the map of KeyValueMap: a call changes the entry of its key or
\* nothing (attr_container.c:348).
THEOREM ContainerImplementsMap ==
  ASSUME NothingIsNull
  PROVE  AttrSpec => ContainerIsMap
<1>1. AttrInit => Map!MapInit /\ HoldsEachOnce
  <2>1. ASSUME AttrInit
        PROVE  Map!MapInit /\ HoldsEachOnce
    <3>1. Contents(container) = [k \in AttrKey |-> Nothing]
      BY <2>1, EmptyContents DEF AttrInit
    <3>2. QED
      BY <2>1, <3>1 DEF AttrInit, Map!MapInit, HoldsEachOnce
  <2>2. QED
    BY <2>1
<1>2. HoldsEachOnce /\ [AttrNext]_attrVars => HoldsEachOnce' /\ [Map!MapNext]_(Map!mapVars)
  BY AttrStep
<1>3. QED
  BY <1>1, <1>2, PTL DEF AttrSpec, ContainerIsMap, Map!MapSpec

-----------------------------------------------------------------------------
(* The link from the host. The bits of two bytes.                          *)

\* Nothing is added by a byte without bits.
LEMMA OrZero ==
  ASSUME NEW a \in 0 .. 255
  PROVE  ByteOr(a, 0) = a /\ ByteOr(0, a) = a
<1> DEFINE Ws == {1, 2, 4, 8, 16, 32, 64, 128}
           IsOr(n, x, y) == \A w \in Ws : Bit(n, w) = IF Bit(x, w) + Bit(y, w) = 0 THEN 0 ELSE 1
<1>1. \A w \in Ws : Bit(0, w) = 0 /\ Bit(a, w) \in {0, 1}
  BY DEF Bit
<1>2. \A n \in 0 .. 255 : (\A w \in Ws : Bit(n, w) = Bit(a, w)) => n = a
  <2> SUFFICES ASSUME NEW n \in 0 .. 255, \A w \in Ws : Bit(n, w) = Bit(a, w)
               PROVE  n = a
    OBVIOUS
  <2>1. n \div 128 = a \div 128
    <3>1. \A m \in 0 .. 255 : Bit(m, 128) = m \div 128
      BY DEF Bit
    <3>2. Bit(n, 128) = Bit(a, 128)
      OBVIOUS
    <3>3. n \in 0 .. 255 /\ a \in 0 .. 255
      OBVIOUS
    <3>4. QED
      BY ONLY <3>1, <3>2, <3>3, Zenon
  <2>2. n \div 64 = a \div 64
    <3>1. \A m \in 0 .. 255 : m \div 64 = 2 * (m \div 128) + Bit(m, 64)
      BY DEF Bit
    <3>2. QED
      BY <2>1, <3>1
  <2>3. n \div 32 = a \div 32
    <3>1. \A m \in 0 .. 255 : m \div 32 = 2 * (m \div 64) + Bit(m, 32)
      BY DEF Bit
    <3>2. QED
      BY <2>2, <3>1
  <2>4. n \div 16 = a \div 16
    <3>1. \A m \in 0 .. 255 : m \div 16 = 2 * (m \div 32) + Bit(m, 16)
      BY DEF Bit
    <3>2. QED
      BY <2>3, <3>1
  <2>5. n \div 8 = a \div 8
    <3>1. \A m \in 0 .. 255 : m \div 8 = 2 * (m \div 16) + Bit(m, 8)
      BY DEF Bit
    <3>2. QED
      BY <2>4, <3>1
  <2>6. n \div 4 = a \div 4
    <3>1. \A m \in 0 .. 255 : m \div 4 = 2 * (m \div 8) + Bit(m, 4)
      BY DEF Bit
    <3>2. QED
      BY <2>5, <3>1
  <2>7. n \div 2 = a \div 2
    <3>1. \A m \in 0 .. 255 : m \div 2 = 2 * (m \div 4) + Bit(m, 2)
      BY DEF Bit
    <3>2. QED
      BY <2>6, <3>1
  <2>8. QED
    <3>1. \A m \in 0 .. 255 : m = 2 * (m \div 2) + Bit(m, 1)
      BY DEF Bit
    <3>2. QED
      BY <2>7, <3>1
<1>3. \A n \in 0 .. 255 : IsOr(n, a, 0) <=> n = a
  <2>1. \A w \in Ws : (IF Bit(a, w) + Bit(0, w) = 0 THEN 0 ELSE 1) = Bit(a, w)
    BY <1>1
  <2> HIDE DEF Ws
  <2> SUFFICES ASSUME NEW n \in 0 .. 255
               PROVE  IsOr(n, a, 0) <=> n = a
    OBVIOUS
  <2>2. (\A w \in Ws : Bit(n, w) = (IF Bit(a, w) + Bit(0, w) = 0 THEN 0 ELSE 1))
          <=> (\A w \in Ws : Bit(n, w) = Bit(a, w))
    BY <2>1, Zenon
  <2>3. (\A w \in Ws : Bit(n, w) = Bit(a, w)) <=> n = a
    BY <1>2, Zenon
  <2>4. QED
    BY <2>2, <2>3, Zenon
<1>4. \A n \in 0 .. 255 : IsOr(n, 0, a) <=> n = a
  <2>1. \A w \in Ws : (IF Bit(0, w) + Bit(a, w) = 0 THEN 0 ELSE 1) = Bit(a, w)
    BY <1>1
  <2> HIDE DEF Ws
  <2> SUFFICES ASSUME NEW n \in 0 .. 255
               PROVE  IsOr(n, 0, a) <=> n = a
    OBVIOUS
  <2>2. (\A w \in Ws : Bit(n, w) = (IF Bit(0, w) + Bit(a, w) = 0 THEN 0 ELSE 1))
          <=> (\A w \in Ws : Bit(n, w) = Bit(a, w))
    BY <2>1, Zenon
  <2>3. (\A w \in Ws : Bit(n, w) = Bit(a, w)) <=> n = a
    BY <1>2, Zenon
  <2>4. QED
    BY <2>2, <2>3, Zenon
<1>5. ByteOr(a, 0) = CHOOSE n \in 0 .. 255 : IsOr(n, a, 0)
  BY DEF ByteOr
<1>6. ByteOr(0, a) = CHOOSE n \in 0 .. 255 : IsOr(n, 0, a)
  BY DEF ByteOr
<1> HIDE DEF IsOr
<1>7. QED
  BY <1>3, <1>4, <1>5, <1>6

-----------------------------------------------------------------------------
(* The receiver of applications: what it does with a byte.                 *)

LoaderPhase ==
  {"Req_Ver", "Req_Action", "Req_Fmt", "Req_Mid", "Req_Sender", "Req_Url_Len",
   "Req_Payload_Len", "Req_Url", "App_Magic", "Wasm_Version", "Wasm_Section_Type",
   "Wasm_Section_Size", "Wasm_Section_Content", "AOT_Version", "AOT_Section_ID",
   "AOT_Section_Size", "AOT_Section_Content"}

\* The context has its fields and a phase the receiver knows.
IsLoader(l) ==
  /\ DOMAIN l = {"phase", "at", "total", "mid", "urlLen", "magic", "sections", "id", "body"}
  /\ l.phase \in LoaderPhase

\* A result for a message of total bytes so far and size in all: an error is never an
\* accepted byte, and the last byte of the message is the only one that is posted.
IsResult(r, total, size) ==
  /\ r.ok \in BOOLEAN /\ IsLoader(r.ctx)
  /\ \/ r.event = "none"
     \/ r.event = "error" /\ ~r.ok
     \/ r.event = "posted" /\ r.ok /\ total = size

LEMMA Starts == IsLoader(ZeroLoader)
BY DEF IsLoader, ZeroLoader, LoaderPhase

LEMMA Fails ==
  ASSUME NEW total, NEW size, NEW r \in Fail
  PROVE  IsResult(r, total, size)
<1>1. r = [ok |-> FALSE, ctx |-> ZeroLoader, event |-> "error"]
  BY DEF Fail
<1>2. r.ok = FALSE /\ r.ctx = ZeroLoader /\ r.event = "error"
  BY <1>1
<1>3. QED
  BY <1>2, Starts DEF IsResult

LEMMA Continues ==
  ASSUME NEW l, IsLoader(l), NEW total, NEW size, NEW r \in More(l)
  PROVE  IsResult(r, total, size)
<1>1. r = [ok |-> TRUE, ctx |-> l, event |-> "none"]
  BY DEF More
<1>2. r.ok = TRUE /\ r.ctx = l /\ r.event = "none"
  BY <1>1
<1>3. QED
  BY <1>2 DEF IsResult

LEMMA Moves ==
  ASSUME NEW l, IsLoader(l), NEW phase \in LoaderPhase
  PROVE  IsLoader(To(l, phase)) /\ To(l, phase).total = l.total
BY DEF To, IsLoader

\* The fields a phase changes: the phase itself is not one, nor is what was received.
LEMMA Changes ==
  ASSUME NEW l, IsLoader(l)
  PROVE  LET Same(m) == IsLoader(m) /\ m.total = l.total
         IN  /\ \A x : Same([l EXCEPT !.at = x])
             /\ \A x : Same([l EXCEPT !.mid = x])
             /\ \A x : Same([l EXCEPT !.body = x])
             /\ \A x, y : Same([l EXCEPT !.urlLen = x, !.at = y])
             /\ \A x, y : Same([l EXCEPT !.magic = x, !.at = y])
             /\ \A x, y : Same([l EXCEPT !.body = x, !.at = y])
             /\ \A x, y, z : Same([l EXCEPT !.sections = x, !.id = y, !.at = z])
             /\ \A x, y, z : Same([l EXCEPT !.sections = x, !.id = y, !.body = z])
BY DEF IsLoader

\* What follows from these: the results of each phase.
LEMMA MovesOn ==
  ASSUME NEW l, IsLoader(l), NEW phase \in LoaderPhase, NEW size, NEW r \in More(To(l, phase))
  PROVE  IsResult(r, l.total, size)
BY Moves, Continues

LEMMA IntegerTaken ==
  ASSUME NEW l, IsLoader(l), NEW width, NEW next \in LoaderPhase, NEW size,
         NEW r \in RecvInteger(l, width, next)
  PROVE  IsResult(r, l.total, size)
<1>1. CASE l.at + 1 = width
  BY <1>1, MovesOn DEF RecvInteger
<1>2. CASE l.at + 1 # width
  <2>1. PICK m : m = [l EXCEPT !.at = @ + 1] /\ IsLoader(m) /\ r \in More(m)
    BY <1>2, Changes DEF RecvInteger
  <2>2. QED
    BY <2>1, Continues
<1>3. QED
  BY <1>1, <1>2

LEMMA AllocationTaken ==
  ASSUME NEW results, NEW total, NEW size, \A r \in results : IsResult(r, total, size),
         NEW r \in Allocating(results)
  PROVE  IsResult(r, total, size)
BY Fails DEF Allocating

LEMMA SectionEnds ==
  ASSUME NEW l, IsLoader(l), NEW size, NEW next \in LoaderPhase,
         NEW r \in SectionEnd(l, size, next)
  PROVE  IsResult(r, l.total, size)
<1>1. CASE l.total # size
  BY <1>1, MovesOn DEF SectionEnd
<1>2. CASE l.total = size
  <2>1. \/ r = [ok |-> TRUE, ctx |-> ZeroLoader, event |-> "posted"]
        \/ r = [ok |-> FALSE, ctx |-> l, event |-> "error"]
    BY <1>2 DEF SectionEnd, HandleInstall
  <2>2. \/ r.ok = TRUE /\ r.ctx = ZeroLoader /\ r.event = "posted"
        \/ r.ok = FALSE /\ r.ctx = l /\ r.event = "error"
    BY <2>1
  <2>3. QED
    BY <1>2, <2>2, Starts DEF IsResult
<1>3. QED
  BY <1>1, <1>2

\* The fields of the request.
LEMMA RequestTaken ==
  ASSUME NEW l, IsLoader(l), NEW ch, NEW size,
         NEW r \in RecvVer(l, ch) \union RecvMid(l, ch) \union RecvUrlLen(l, ch)
                     \union RecvUrl(l)
  PROVE  IsResult(r, l.total, size)
<1>1. CASE r \in RecvVer(l, ch)
  <2>1. CASE ch = PacketVersion
    <3>1. IsLoader([l EXCEPT !.phase = "Req_Action"])
      BY DEF IsLoader, LoaderPhase
    <3>2. QED
      BY <1>1, <2>1, <3>1, Continues DEF RecvVer
  <2>2. CASE ch # PacketVersion
    <3>1. r = [ok |-> FALSE, ctx |-> l, event |-> "none"]
      BY <1>1, <2>2 DEF RecvVer
    <3>2. r.ok = FALSE /\ r.ctx = l /\ r.event = "none"
      BY <3>1
    <3>3. QED
      BY <3>2 DEF IsResult
  <2>3. QED
    BY <2>1, <2>2
<1>2. CASE r \in RecvMid(l, ch)
  <2>1. PICK m : IsLoader(m) /\ m.total = l.total /\ r \in RecvInteger(m, 4, "Req_Sender")
    BY <1>2, Changes DEF RecvMid
  <2>2. QED
    BY <2>1, IntegerTaken DEF LoaderPhase
<1>3. CASE r \in RecvUrlLen(l, ch)
  <2>1. PICK m : /\ IsLoader(m) /\ m.total = l.total
                 /\ r \in IF m.at = 2 THEN Allocating(More(To(m, "Req_Payload_Len")))
                          ELSE More(m)
    <3> DEFINE m == [l EXCEPT !.urlLen = IF l.at = 0 THEN ch ELSE Shifted(@, ch), !.at = @ + 1]
    <3>1. IsLoader(m) /\ m.total = l.total
      <4>1. \A x, y : LET n == [l EXCEPT !.urlLen = x, !.at = y]
                     IN  IsLoader(n) /\ n.total = l.total
        BY Changes
      <4>2. QED
        BY <4>1, Zenon
    <3>2. r \in IF m.at = 2 THEN Allocating(More(To(m, "Req_Payload_Len"))) ELSE More(m)
      BY <1>3 DEF RecvUrlLen
    <3>3. QED
      BY <3>1, <3>2
  <2>2. CASE m.at = 2
    <3>1. "Req_Payload_Len" \in LoaderPhase
      BY DEF LoaderPhase
    <3>2. \A s \in More(To(m, "Req_Payload_Len")) : IsResult(s, m.total, size)
      BY <2>1, <3>1, MovesOn
    <3>3. QED
      BY <2>1, <2>2, <3>2, AllocationTaken
  <2>3. CASE m.at # 2
    BY <2>1, <2>3, Continues
  <2>4. QED
    BY <2>2, <2>3
<1>4. CASE r \in RecvUrl(l)
  <2>1. RecvUrl(l) = RecvInteger(l, l.urlLen, "App_Magic")
    BY DEF RecvUrl, RecvInteger
  <2>2. QED
    BY <1>4, <2>1, IntegerTaken DEF LoaderPhase
<1>5. QED
  BY <1>1, <1>2, <1>3, <1>4

\* The file: its head.
LEMMA HeadTaken ==
  ASSUME NEW l, IsLoader(l), NEW ch, NEW size, NEW version,
         NEW next \in {"Wasm_Section_Type", "AOT_Section_ID"},
         NEW r \in RecvMagic(l, ch) \union RecvVersion(l, ch, version, next)
  PROVE  IsResult(r, l.total, size)
<1>1. CASE r \in RecvMagic(l, ch)
  <2>1. PICK m : /\ IsLoader(m) /\ m.total = l.total
                 /\ \/ r \in More(m)
                    \/ r \in More(To(m, "Wasm_Version"))
                    \/ r \in More(To(m, "AOT_Version"))
                    \/ r \in Fail
    <3> DEFINE m == [l EXCEPT !.magic = Append(@, ch), !.at = @ + 1]
    <3>1. IsLoader(m) /\ m.total = l.total
      <4>1. \A x, y : LET n == [l EXCEPT !.magic = x, !.at = y]
                     IN  IsLoader(n) /\ n.total = l.total
        BY Changes
      <4>2. QED
        BY <4>1, Zenon
    <3>2. \/ r \in More(m)
          \/ r \in More(To(m, "Wasm_Version"))
          \/ r \in More(To(m, "AOT_Version"))
          \/ r \in Fail
      BY <1>1, Zenon DEF RecvMagic
    <3>3. QED
      BY <3>1, <3>2
  <2>2. QED
    BY <2>1, Continues, MovesOn, Fails DEF LoaderPhase
<1>2. CASE r \in RecvVersion(l, ch, version, next)
  <2>1. r \in Fail \/ r \in RecvInteger(l, 4, next)
    BY <1>2 DEF RecvVersion
  <2>2. QED
    BY <2>1, Fails, IntegerTaken DEF LoaderPhase
<1>3. QED
  BY <1>1, <1>2

\* The sections of a binary in the format of WebAssembly.
LEMMA WasmSectionTaken ==
  ASSUME NEW l, IsLoader(l), NEW ch, NEW size,
         NEW r \in RecvSectionType(l, ch) \union RecvSectionSize(l, ch)
                     \union RecvContent(l, size)
  PROVE  IsResult(r, l.total, size)
<1>1. CASE r \in RecvSectionType(l, ch)
  <2>1. CASE r \in Fail
    BY <2>1, Fails
  <2>2. CASE r \notin Fail
    <3> DEFINE t == To(l, "Wasm_Section_Size")
               m == [t EXCEPT !.sections = @ + 1, !.id = ch, !.body = 0]
    <3>1. IsLoader(t) /\ t.total = l.total
      BY Moves DEF LoaderPhase
    <3>2. IsLoader(m) /\ m.total = t.total
      <4>1. \A x, y, z : LET n == [t EXCEPT !.sections = x, !.id = y, !.body = z]
                         IN  IsLoader(n) /\ n.total = t.total
        <5> HIDE DEF t
        <5>1. QED
          BY <3>1, Changes
      <4>2. QED
        BY <4>1, Zenon
    <3>3. r \in More(m)
      BY <1>1, <2>2, Zenon DEF RecvSectionType, Allocating
    <3> HIDE DEF m
    <3>4. QED
      BY <3>1, <3>2, <3>3, Continues
  <2>3. QED
    BY <2>1, <2>2
<1>2. CASE r \in RecvSectionSize(l, ch)
  <2>1. PICK x, y : LET m == [l EXCEPT !.body = x, !.at = y]
                    IN  \/ r \in Fail
                        \/ r \in More(To(m, "Wasm_Section_Content"))
                        \/ r \in More(m)
    BY <1>2, Zenon DEF RecvSectionSize, Allocating
  <2> DEFINE m == [l EXCEPT !.body = x, !.at = y]
  <2>2. IsLoader(m) /\ m.total = l.total
    <3>1. \A v, w : LET n == [l EXCEPT !.body = v, !.at = w] IN IsLoader(n) /\ n.total = l.total
      BY Changes
    <3>2. QED
      BY <3>1, Zenon
  <2>3. r \in Fail \/ r \in More(To(m, "Wasm_Section_Content")) \/ r \in More(m)
    BY <2>1
  <2> HIDE DEF m
  <2>4. QED
    BY <2>2, <2>3, Fails, Continues, MovesOn DEF LoaderPhase
<1>3. CASE r \in RecvContent(l, size)
  <2> DEFINE m == [l EXCEPT !.at = @ + 1]
  <2>1. IsLoader(m) /\ m.total = l.total
    <3>1. \A x : LET n == [l EXCEPT !.at = x] IN IsLoader(n) /\ n.total = l.total
      BY Changes
    <3>2. QED
      BY <3>1, Zenon
  <2>2. r \in More(m) \/ r \in SectionEnd(m, size, "Wasm_Section_Type")
    BY <1>3, Zenon DEF RecvContent
  <2> HIDE DEF m
  <2>3. QED
    BY <2>1, <2>2, Continues, SectionEnds DEF LoaderPhase
<1>4. QED
  BY <1>1, <1>2, <1>3

\* The sections of a compiled binary.
LEMMA AotSectionTaken ==
  ASSUME NEW l, IsLoader(l), NEW ch, NEW size,
         NEW r \in RecvAotId(l, ch) \union RecvAotSize(l, ch) \union RecvAotContent(l, size)
  PROVE  IsResult(r, l.total, size)
<1>1. CASE r \in RecvAotId(l, ch)
  <2> DEFINE count == l.sections + IF l.at = 0 THEN 1 ELSE 0
             id == IF l.at = 0 THEN ch ELSE Capped(l.id + ch * 256 ^ l.at)
             m == [l EXCEPT !.sections = count, !.id = id, !.at = @ + 1]
             got == IF m.at < 4 THEN More(m)
                    ELSE IF m.id \in AotTypes THEN More(To(m, "AOT_Section_Size"))
                    ELSE Fail
  <2>1. r \in Fail \/ r \in More(l) \/ r \in got
    BY <1>1, Zenon DEF RecvAotId, Allocating
  <2>2. IsLoader(m) /\ m.total = l.total
    <3> HIDE DEF count, id
    <3>1. \A v, w, x : LET n == [l EXCEPT !.sections = v, !.id = w, !.at = x]
                       IN  IsLoader(n) /\ n.total = l.total
      BY Changes
    <3>2. QED
      BY <3>1, Zenon
  <2> HIDE DEF m
  <2>3. \/ r \in Fail \/ r \in More(l)
        \/ r \in More(To(m, "AOT_Section_Size")) \/ r \in More(m)
    BY <2>1, Zenon
  <2> HIDE DEF m
  <2>4. QED
    BY <2>2, <2>3, Fails, Continues, MovesOn DEF LoaderPhase
<1>2. CASE r \in RecvAotSize(l, ch)
  <2>1. PICK x, y : LET m == [l EXCEPT !.body = x, !.at = y]
                    IN  \/ r \in Fail
                        \/ r \in More(To(m, "AOT_Section_Content"))
                        \/ r \in More(m)
    BY <1>2, Zenon DEF RecvAotSize, Allocating
  <2> DEFINE m == [l EXCEPT !.body = x, !.at = y]
  <2>2. IsLoader(m) /\ m.total = l.total
    <3>1. \A v, w : LET n == [l EXCEPT !.body = v, !.at = w] IN IsLoader(n) /\ n.total = l.total
      BY Changes
    <3>2. QED
      BY <3>1, Zenon
  <2>3. r \in Fail \/ r \in More(To(m, "AOT_Section_Content")) \/ r \in More(m)
    BY <2>1
  <2> HIDE DEF m
  <2>4. QED
    BY <2>2, <2>3, Fails, Continues, MovesOn DEF LoaderPhase
<1>3. CASE r \in RecvAotContent(l, size)
  <2> DEFINE m == [l EXCEPT !.at = @ + 1]
  <2>1. IsLoader(m) /\ m.total = l.total
    <3>1. \A x : LET n == [l EXCEPT !.at = x] IN IsLoader(n) /\ n.total = l.total
      BY Changes
    <3>2. QED
      BY <3>1, Zenon
  <2>2. PICK x : LET s == [m EXCEPT !.body = x]
                 IN  \/ r \in More(m)
                     \/ r \in SectionEnd(s, size, "AOT_Section_ID")
                     \/ r \in SectionEnd(m, size, "AOT_Section_ID")
    BY <1>3, Zenon DEF RecvAotContent
  <2> HIDE DEF m
  <2> DEFINE s == [m EXCEPT !.body = x]
  <2>3. IsLoader(s) /\ s.total = l.total
    BY <2>1, Changes
  <2>4. \/ r \in More(m)
        \/ r \in SectionEnd(s, size, "AOT_Section_ID")
        \/ r \in SectionEnd(m, size, "AOT_Section_ID")
    BY <2>2
  <2> HIDE DEF s
  <2>5. QED
    BY <2>1, <2>3, <2>4, Continues, SectionEnds DEF LoaderPhase
<1>4. QED
  BY <1>1, <1>2, <1>3

\* Every phase of the receiver.
LEMMA ByteTaken ==
  ASSUME NEW l, IsLoader(l), NEW ch, NEW size, NEW r \in LoaderResults(l, ch, size)
  PROVE  IsResult(r, l.total, size)
<1>1. \/ r \in RecvVer(l, ch) \union RecvMid(l, ch) \union RecvUrlLen(l, ch) \union RecvUrl(l)
      \/ r \in More(To(l, "Req_Fmt"))
      \/ r \in RecvInteger(l, 2, "Req_Mid")
      \/ r \in RecvInteger(l, 4, "Req_Url_Len")
      \/ r \in RecvInteger(l, 4, "Req_Url")
      \/ r \in RecvMagic(l, ch)
      \/ r \in RecvVersion(l, ch, WasmVersion, "Wasm_Section_Type")
      \/ r \in RecvVersion(l, ch, AotVersion, "AOT_Section_ID")
      \/ r \in RecvSectionType(l, ch) \union RecvSectionSize(l, ch) \union RecvContent(l, size)
      \/ r \in RecvAotId(l, ch) \union RecvAotSize(l, ch) \union RecvAotContent(l, size)
  BY DEF IsLoader, LoaderPhase, LoaderResults
<1>2. \A p \in {"Req_Fmt", "Req_Mid", "Req_Url_Len", "Req_Url"} : p \in LoaderPhase
  BY DEF LoaderPhase
<1>3. r \in More(To(l, "Req_Fmt")) => IsResult(r, l.total, size)
  BY <1>2, MovesOn
<1>4. r \in RecvInteger(l, 2, "Req_Mid") \/ r \in RecvInteger(l, 4, "Req_Url_Len")
        \/ r \in RecvInteger(l, 4, "Req_Url") => IsResult(r, l.total, size)
  BY <1>2, IntegerTaken
<1>5. \/ r \in RecvMagic(l, ch)
      \/ r \in RecvVersion(l, ch, WasmVersion, "Wasm_Section_Type")
      \/ r \in RecvVersion(l, ch, AotVersion, "AOT_Section_ID")
      => IsResult(r, l.total, size)
  BY HeadTaken
<1>6. QED
  BY <1>1, <1>3, <1>4, <1>5, RequestTaken, WasmSectionTaken, AotSectionTaken

-----------------------------------------------------------------------------
(* A frame.                                                                *)

\* Two pairs of bytes.
LEMMA PairsJoined ==
  ASSUME NEW s \in Seq(Byte), NEW t \in Seq(Byte), Len(s) = 2, Len(t) = 2
  PROVE  /\ s \o t \in Seq(Byte) /\ Len(s \o t) = 4
         /\ (s \o t)[1] = s[1] /\ (s \o t)[2] = s[2]
         /\ (s \o t)[3] = t[1] /\ (s \o t)[4] = t[2]
<1>1. s \o t \in Seq(Byte) /\ Len(s \o t) = Len(s) + Len(t)
  BY Joined
<1>2. \A i \in 1 .. 2 : i \in 1 .. Len(s) /\ i \in 1 .. Len(t) /\ Len(s) + i = 2 + i
  OBVIOUS
<1>3. \A i \in 1 .. 2 : (s \o t)[i] = s[i] /\ (s \o t)[2 + i] = t[i]
  <2>1. \A i \in 1 .. Len(s) : (s \o t)[i] = s[i]
    BY JoinedFirst
  <2>2. \A i \in 1 .. Len(t) : (s \o t)[Len(s) + i] = t[i]
    <3> SUFFICES ASSUME NEW i \in 1 .. Len(t)
                 PROVE  (s \o t)[Len(s) + i] = t[i]
      OBVIOUS
    <3>1. QED
      BY ONLY s \in Seq(Byte), t \in Seq(Byte), i \in 1 .. Len(t), JoinedSecond, Zenon
  <2>3. QED
    BY ONLY <1>2, <2>1, <2>2, Zenon
<1>4. 1 \in 1 .. 2 /\ 2 \in 1 .. 2
  OBVIOUS
<1>5. (s \o t)[2 + 1] = t[1] /\ (s \o t)[2 + 2] = t[2]
  BY <1>3, <1>4, Zenon
<1>6. /\ (s \o t)[1] = s[1] /\ (s \o t)[2] = s[2]
      /\ (s \o t)[3] = t[1] /\ (s \o t)[4] = t[2]
  BY <1>3, <1>4, <1>5, Offsets, Zenon
<1>7. QED
  BY <1>1, <1>6

\* The bytes of the header that name the type, and those behind.
LEMMA FrameHead ==
  ASSUME NEW f, f.type \in 0 .. 50, LeadingsLead(f), NEW b, b = FrameBytes(f)
  PROVE  /\ b \in Seq(Byte) /\ Len(b) >= 8
         /\ b[1] = 18 /\ b[2] = 52 /\ b[3] = 0 /\ b[4] = f.type
         /\ \A i \in 2 .. (Len(b) - 1) : ~(b[i] = 18 /\ b[i + 1] = 52)
<1> DEFINE p == FramePayload(f)
<1>1. p \in Seq(Byte)
  BY DEF LeadingsLead, Byte
<1>2. PICK t \in Seq(Byte) : t = Bytes2(f.type) /\ Len(t) = 2 /\ t[1] = 0 /\ t[2] = f.type
  <2>1. (f.type \div 256) % 256 = 0 /\ f.type % 256 = f.type
    OBVIOUS
  <2>2. Bytes2(f.type) = <<0, f.type>>
    BY <2>1 DEF Bytes2
  <2>3. Bytes2(f.type) \in Seq(Byte) /\ Len(Bytes2(f.type)) = 2
    <3>1. f.type \in Nat
      OBVIOUS
    <3>2. QED
      BY <3>1, TwoBytes
  <2>4. <<0, f.type>>[1] = 0 /\ <<0, f.type>>[2] = f.type
    OBVIOUS
  <2>5. QED
    BY <2>2, <2>3, <2>4, Zenon
<1>3. PICK s \in Seq(Byte) : s = Bytes4(Len(p)) /\ Len(s) = 4
  <2>1. Len(p) \div 65536 \in Nat /\ Len(p) % 65536 \in Nat
    BY <1>1
  <2>2. PICK x \in Seq(Byte), y \in Seq(Byte) :
          /\ x = Bytes2(Len(p) \div 65536) /\ y = Bytes2(Len(p) % 65536)
          /\ Len(x) = 2 /\ Len(y) = 2
    BY <2>1, TwoBytes
  <2>3. Bytes4(Len(p)) = x \o y
    BY <2>2 DEF Bytes4
  <2>4. x \o y \in Seq(Byte) /\ Len(x \o y) = 4
    BY <2>2, PairsJoined
  <2>5. QED
    BY <2>3, <2>4, Zenon
<1>4. PICK h \in Seq(Byte) : /\ h = Leadings \o t /\ Len(h) = 4
                            /\ h[1] = 18 /\ h[2] = 52 /\ h[3] = 0 /\ h[4] = f.type
  <2>1. Leadings \in Seq(Byte) /\ Len(Leadings) = 2 /\ Leadings[1] = 18 /\ Leadings[2] = 52
    BY DEF Leadings, Byte
  <2>2. PICK l \in Seq(Byte) : l = Leadings /\ Len(l) = 2 /\ l[1] = 18 /\ l[2] = 52
    BY <2>1
  <2>3. /\ l \o t \in Seq(Byte) /\ Len(l \o t) = 4
        /\ (l \o t)[1] = l[1] /\ (l \o t)[2] = l[2]
        /\ (l \o t)[3] = t[1] /\ (l \o t)[4] = t[2]
    BY <1>2, <2>2, PairsJoined
  <2>4. QED
    BY <1>2, <2>2, <2>3, Zenon
<1>5. PICK g \in Seq(Byte) : g = h \o s /\ Len(g) = 8 /\ \A i \in 1 .. 4 : g[i] = h[i]
  <2>1. h \o s \in Seq(Byte) /\ Len(h \o s) = Len(h) + Len(s)
    BY Joined
  <2>2. \A i \in 1 .. Len(h) : (h \o s)[i] = h[i]
    BY JoinedFirst
  <2>3. Len(h \o s) = 8
    BY <1>3, <1>4, <2>1
  <2>4. \A i \in 1 .. 4 : (h \o s)[i] = h[i]
    BY <1>4, <2>2, Zenon
  <2>5. QED
    BY <2>1, <2>3, <2>4, Zenon
<1>6. b = g \o p
  BY <1>2, <1>3, <1>4, <1>5 DEF FrameBytes
<1>7. /\ b \in Seq(Byte) /\ Len(b) >= 8
      /\ \A i \in 1 .. 4 : b[i] = g[i]
  <2> HIDE DEF p
  <2>1. g \o p \in Seq(Byte) /\ Len(g \o p) = Len(g) + Len(p)
    BY <1>1, Joined
  <2>2. \A i \in 1 .. Len(g) : (g \o p)[i] = g[i]
    BY <1>1, JoinedFirst
  <2>3. \A i \in 1 .. 4 : i \in 1 .. Len(g)
    BY <1>5
  <2>4. Len(p) \in Nat
    BY <1>1
  <2>5. Len(g \o p) >= 8
    BY <1>5, <2>1, <2>4
  <2>6. QED
    BY <1>6, <2>1, <2>2, <2>3, <2>5, Zenon
<1>8. \A i \in 2 .. (Len(b) - 1) : ~(b[i] = 18 /\ b[i + 1] = 52)
  <2> SUFFICES ASSUME NEW i \in 2 .. (Len(b) - 1), b[i] = 18, b[i + 1] = 52
               PROVE  FALSE
    OBVIOUS
  <2>1. <<b[i], b[i + 1]>> # Leadings
    BY DEF LeadingsLead
  <2>2. QED
    BY <2>1 DEF Leadings
<1>9. b[1] = 18 /\ b[2] = 52 /\ b[3] = 0 /\ b[4] = f.type
  <2>1. \A i \in {1, 2, 3, 4} : i \in 1 .. 4
    OBVIOUS
  <2>2. \A i \in {1, 2, 3, 4} : b[i] = h[i]
    BY <1>5, <1>7, <2>1, Zenon
  <2>3. QED
    BY <1>4, <2>2, Zenon
<1>10. QED
  BY <1>7, <1>8, <1>9

-----------------------------------------------------------------------------
(* Answers and installs are counted.                                       *)

\* What is logged.
Event == {"posted", "error", "dispatched", "unexpected"}

LEMMA AppendedIs ==
  ASSUME NEW S, NEW s \in Seq(S), NEW e \in S
  PROVE  /\ Append(s, e) \in Seq(S) /\ Len(Append(s, e)) = Len(s) + 1
         /\ Append(s, e)[Len(s) + 1] = e
         /\ \A j \in 1 .. Len(s) : Append(s, e)[j] = s[j]
BY AppendProperties

LEMMA AnswerIs ==
  ASSUME NEW lg, NEW x
  PROVE  x \in AnswersIn(lg) <=>
           \E i \in 1 .. Len(lg) : \E j \in 1 .. Len(lg[i]) :
             x = <<i, j>> /\ lg[i][j] \in {"posted", "error"}
<1>1. ASSUME x \in AnswersIn(lg)
      PROVE  \E i \in 1 .. Len(lg) : \E j \in 1 .. Len(lg[i]) :
               x = <<i, j>> /\ lg[i][j] \in {"posted", "error"}
  BY <1>1 DEF AnswersIn
<1>2. ASSUME NEW i \in 1 .. Len(lg), NEW j \in 1 .. Len(lg[i]),
             x = <<i, j>>, lg[i][j] \in {"posted", "error"}
      PROVE  x \in AnswersIn(lg)
  BY <1>2 DEF AnswersIn
<1>3. QED
  BY <1>1, <1>2

\* A frame that was sent has no answer yet.
LEMMA NoAnswerYet ==
  ASSUME NEW lg \in Seq(Seq(Event))
  PROVE  /\ Append(lg, <<>>) \in Seq(Seq(Event))
         /\ AnswersIn(Append(lg, <<>>)) = AnswersIn(lg)
<1> DEFINE more == Append(lg, <<>>)
<1>1. /\ more \in Seq(Seq(Event)) /\ Len(more) = Len(lg) + 1
      /\ \A i \in 1 .. Len(lg) : more[i] = lg[i]
      /\ more[Len(lg) + 1] = <<>>
  BY AppendProperties
<1>2. Len(lg) \in Nat
  OBVIOUS
<1> HIDE DEF more
<1>3. \A i \in 1 .. Len(more) : i \in 1 .. Len(lg) \/ (i = Len(lg) + 1 /\ Len(more[i]) = 0)
  BY <1>1, <1>2
<1>4. \A i \in 1 .. Len(lg) : i \in 1 .. Len(more)
  BY <1>1, <1>2
<1>5. ASSUME NEW x
      PROVE  x \in AnswersIn(more) <=> x \in AnswersIn(lg)
  <2>1. ASSUME x \in AnswersIn(more)
        PROVE  x \in AnswersIn(lg)
    <3>1. PICK i \in 1 .. Len(more) : \E j \in 1 .. Len(more[i]) :
            x = <<i, j>> /\ more[i][j] \in {"posted", "error"}
      BY <2>1, AnswerIs
    <3>2. i \in 1 .. Len(lg)
      BY <1>3, <3>1
    <3>3. QED
      BY <1>1, <3>1, <3>2, AnswerIs
  <2>2. ASSUME x \in AnswersIn(lg)
        PROVE  x \in AnswersIn(more)
    <3>1. PICK i \in 1 .. Len(lg) : \E j \in 1 .. Len(lg[i]) :
            x = <<i, j>> /\ lg[i][j] \in {"posted", "error"}
      BY <2>2, AnswerIs
    <3>2. i \in 1 .. Len(more) /\ more[i] = lg[i]
      BY <1>1, <1>4
    <3>3. QED
      BY <3>1, <3>2, AnswerIs
  <2>3. QED
    BY <2>1, <2>2
<1>6. QED
  BY <1>1, <1>5 DEF more

\* An event is one answer, or none.
LEMMA EventCounted ==
  ASSUME NEW lg \in Seq(Seq(Event)), lg # <<>>, NEW event \in Event,
         IsFiniteSet(AnswersIn(lg)),
         NEW longer, longer = [lg EXCEPT ![Len(lg)] = Append(@, event)]
  PROVE  /\ longer \in Seq(Seq(Event)) /\ Len(longer) = Len(lg)
         /\ IsFiniteSet(AnswersIn(longer))
         /\ Cardinality(AnswersIn(longer)) <= Cardinality(AnswersIn(lg)) + 1
         /\ event \notin {"posted", "error"} => AnswersIn(longer) = AnswersIn(lg)
<1> DEFINE n == Len(lg)
<1>1. n \in 1 .. Len(lg) /\ n \in Nat
  OBVIOUS
<1>2. lg[n] \in Seq(Event)
  BY <1>1, ElementOfSeq
<1> DEFINE last == Append(lg[n], event)
           m == Len(lg[n]) + 1
<1>3. /\ last \in Seq(Event) /\ Len(last) = m /\ last[m] = event
      /\ \A j \in 1 .. Len(lg[n]) : last[j] = lg[n][j]
  <2>1. event \in Event
    OBVIOUS
  <2>2. PICK l \in Seq(Event) : l = lg[n]
    BY <1>2
  <2>3. /\ Append(l, event) \in Seq(Event) /\ Len(Append(l, event)) = Len(l) + 1
        /\ Append(l, event)[Len(l) + 1] = event
        /\ \A j \in 1 .. Len(l) : Append(l, event)[j] = l[j]
    BY ONLY <2>1, l \in Seq(Event), AppendedIs
  <2>4. QED
    BY <2>2, <2>3, Zenon
<1>4. longer = [lg EXCEPT ![n] = last]
  OBVIOUS
<1>5. Len(lg[n]) \in Nat
  BY <1>2
<1> HIDE DEF last
<1>6. /\ longer \in Seq(Seq(Event)) /\ Len(longer) = Len(lg) /\ longer[n] = last
      /\ \A i \in 1 .. Len(lg) : i # n => longer[i] = lg[i]
  <2>1. /\ [lg EXCEPT ![n] = last] \in Seq(Seq(Event))
        /\ Len([lg EXCEPT ![n] = last]) = Len(lg)
        /\ \A j \in 1 .. Len(lg) :
             [lg EXCEPT ![n] = last][j] = IF j = n THEN last ELSE lg[j]
    <3> HIDE DEF n
    <3>1. QED
      BY <1>1, <1>3, ExceptSeq
  <2>2. QED
    BY <1>1, <1>4, <2>1, Zenon
<1> HIDE DEF n
<1>7. \A j \in 1 .. Len(last) : j \in 1 .. Len(lg[n]) \/ j = m
  BY <1>3, <1>5
<1>8. \A j \in 1 .. Len(lg[n]) : j \in 1 .. Len(last)
  BY <1>3, <1>5
<1> HIDE DEF m
<1>9. ASSUME NEW x, x \in AnswersIn(longer), x \notin AnswersIn(lg)
      PROVE  x = <<n, m>> /\ event \in {"posted", "error"}
  <2>1. PICK i \in 1 .. Len(longer) : \E k \in 1 .. Len(longer[i]) :
          x = <<i, k>> /\ longer[i][k] \in {"posted", "error"}
    BY <1>9, AnswerIs
  <2>2. PICK j \in 1 .. Len(longer[i]) : x = <<i, j>> /\ longer[i][j] \in {"posted", "error"}
    BY <2>1
  <2>3. i \in 1 .. Len(lg)
    BY <1>6
  <2>4. CASE i # n
    BY <1>6, <1>9, <2>2, <2>3, <2>4, AnswerIs
  <2>5. CASE i = n
    <3>1. j \in 1 .. Len(last) /\ last[j] \in {"posted", "error"}
      BY <1>6, <2>2, <2>5
    <3>2. CASE j = m
      BY <1>3, <2>2, <2>5, <3>1, <3>2
    <3>3. CASE j \in 1 .. Len(lg[n])
      BY <1>3, <1>9, <2>2, <2>3, <2>5, <3>1, <3>3, AnswerIs
    <3>4. QED
      BY <1>7, <3>1, <3>2, <3>3
  <2>6. QED
    BY <2>4, <2>5
<1>10. ASSUME NEW x, x \in AnswersIn(lg)
       PROVE  x \in AnswersIn(longer)
  <2>1. PICK i \in 1 .. Len(lg) : \E k \in 1 .. Len(lg[i]) :
          x = <<i, k>> /\ lg[i][k] \in {"posted", "error"}
    BY <1>10, AnswerIs
  <2>2. PICK j \in 1 .. Len(lg[i]) : x = <<i, j>> /\ lg[i][j] \in {"posted", "error"}
    BY <2>1
  <2>3. j \in 1 .. Len(longer[i]) /\ longer[i][j] = lg[i][j]
    BY <1>3, <1>6, <1>8, <2>2
  <2>4. QED
    BY <1>6, <2>2, <2>3, AnswerIs
<1>11. event \notin {"posted", "error"} => AnswersIn(longer) = AnswersIn(lg)
  BY <1>9, <1>10
<1>12. AnswersIn(longer) \in SUBSET (AnswersIn(lg) \cup {<<n, m>>})
  BY <1>9
<1>13. /\ IsFiniteSet(AnswersIn(lg) \cup {<<n, m>>})
       /\ Cardinality(AnswersIn(lg) \cup {<<n, m>>}) <= Cardinality(AnswersIn(lg)) + 1
  <2>1. Cardinality(AnswersIn(lg)) \in Nat
    BY FS_CardinalityType
  <2>2. QED
    <3> DEFINE A == AnswersIn(lg)
    <3>1. /\ IsFiniteSet(A \cup {<<n, m>>})
          /\ Cardinality(A \cup {<<n, m>>}) =
               IF <<n, m>> \in A THEN Cardinality(A) ELSE Cardinality(A) + 1
      BY FS_AddElement
    <3> HIDE DEF A
    <3>2. Cardinality(A) \in Nat
      BY <2>1 DEF A
    <3>3. IsFiniteSet(A \cup {<<n, m>>}) /\ Cardinality(A \cup {<<n, m>>}) <= Cardinality(A) + 1
      BY <3>1, <3>2
    <3>4. QED
      BY <3>3 DEF A
<1>14. /\ IsFiniteSet(AnswersIn(longer))
       /\ Cardinality(AnswersIn(longer)) <= Cardinality(AnswersIn(lg) \cup {<<n, m>>})
  BY <1>12, <1>13, FS_Subset
<1>15. Cardinality(AnswersIn(longer)) <= Cardinality(AnswersIn(lg)) + 1
  <2>1. /\ Cardinality(AnswersIn(longer)) \in Nat
        /\ Cardinality(AnswersIn(lg)) \in Nat
        /\ Cardinality(AnswersIn(lg) \cup {<<n, m>>}) \in Nat
    BY <1>13, <1>14, FS_CardinalityType
  <2>2. QED
    BY <1>13, <1>14, <2>1
<1>16. QED
  BY <1>6, <1>11, <1>14, <1>15

\* The installs before the last frame: all of them, or all but that one.
LEMMA InstallsCounted ==
  ASSUME NEW S, NEW sent \in Seq(S)
  PROVE  /\ IsFiniteSet(InstallsIn(sent))
         /\ Cardinality(InstallsIn(sent)) \in Nat
         /\ Cardinality(InstallsIn(sent) \ {Len(sent)}) \in Nat
         /\ Cardinality(InstallsIn(sent) \ {Len(sent)}) <= Cardinality(InstallsIn(sent))
         /\ sent # <<>> /\ sent[Len(sent)].type = InstallWasmApp =>
              Cardinality(InstallsIn(sent) \ {Len(sent)}) < Cardinality(InstallsIn(sent))
         /\ \A f \in S :
              InstallsIn(Append(sent, f)) \ {Len(Append(sent, f))} = InstallsIn(sent)
<1>1. InstallsIn(sent) \in SUBSET (1 .. Len(sent)) /\ IsFiniteSet(1 .. Len(sent))
  BY FS_Interval DEF InstallsIn
<1>2. IsFiniteSet(InstallsIn(sent))
  BY <1>1, FS_Subset
<1>3. /\ IsFiniteSet(InstallsIn(sent) \ {Len(sent)})
      /\ Cardinality(InstallsIn(sent) \ {Len(sent)}) =
           IF Len(sent) \in InstallsIn(sent) THEN Cardinality(InstallsIn(sent)) - 1
           ELSE Cardinality(InstallsIn(sent))
  BY <1>2, FS_RemoveElement
<1>4. /\ Cardinality(InstallsIn(sent)) \in Nat
      /\ Cardinality(InstallsIn(sent) \ {Len(sent)}) \in Nat
  BY <1>2, <1>3, FS_CardinalityType
<1>5. sent # <<>> /\ sent[Len(sent)].type = InstallWasmApp => Len(sent) \in InstallsIn(sent)
  BY DEF InstallsIn
<1>6. ASSUME NEW f \in S
      PROVE  InstallsIn(Append(sent, f)) \ {Len(Append(sent, f))} = InstallsIn(sent)
  <2>1. /\ Len(Append(sent, f)) = Len(sent) + 1 /\ Len(sent) \in Nat
        /\ \A i \in 1 .. Len(sent) : Append(sent, f)[i] = sent[i]
    BY AppendProperties
  <2>2. \A i : i \in 1 .. Len(Append(sent, f)) /\ i # Len(Append(sent, f))
                 <=> i \in 1 .. Len(sent)
    BY <2>1
  <2>3. QED
    BY <2>1, <2>2 DEF InstallsIn
<1>7. QED
  BY <1>2, <1>3, <1>4, <1>5, <1>6

-----------------------------------------------------------------------------
(* One answer at most for an install.                                      *)

\* The frame that is read, and how much of it was.
Current == FrameBytes(frames[Len(frames)])
BytesRead == Len(Current) - Len(wire)

WireIsRest ==
  IF frames = <<>> THEN wire = <<>>
  ELSE /\ Len(wire) <= Len(Current)
       /\ \A i \in 1 .. Len(wire) : wire[i] = Current[BytesRead + i]

LinkTypes ==
  /\ wire \in Seq(Byte)
  /\ frames \in Seq(HostFrames)
  /\ log \in Seq(Seq(Event)) /\ Len(log) = Len(frames)
  /\ IsFiniteSet(AnswersIn(log))
  /\ IsLoader(loaderCtx)
  /\ DOMAIN linkCtx = {"phase", "at", "type", "size", "payload"}

\* The last frame was not answered for: the installs before it suffice for the answers.
Unspent ==
  Cardinality(AnswersIn(log)) <= Cardinality(InstallsIn(frames) \ {Len(frames)})

\* There is an install without an answer.
Owed == Cardinality(AnswersIn(log)) < Cardinality(InstallsIn(frames))

\* The types the context may hold: that of a frame, or the same with its bytes swapped
\* when it was received with the counter of a message before. That of an install is never
\* swapped.
KnownType(t) == (t \in 0 .. 50 \/ (t % 256 = 0 /\ t \div 256 \in 0 .. 50)) /\ t \in Nat /\ t # 1024

\* The type of a frame is read behind its leading bytes, and no answer to the frame was
\* sent before. Where a type is read with the counter of a message before, or a context was
\* left as it was, the type is not that of an install, and an install is received only for a
\* frame that is one.
LinkHeard ==
  /\ OneAnswerPerInstall
  /\ frames # <<>> /\ BytesRead = 0 => Unspent
  /\ linkCtx.phase = "Leading" /\ wire # <<>> /\ wire[1] = 52 => BytesRead = 1 /\ Unspent
  /\ linkCtx.phase = "Type" =>
       /\ frames # <<>> /\ Unspent
       /\ \/ BytesRead = 2 /\ (linkCtx.at # 0 => linkCtx.type # InstallWasmApp)
          \/ BytesRead = 3 /\ linkCtx.at = 1 /\ linkCtx.type = 0
  /\ linkCtx.phase \in {"Size", "Payload"} /\ linkCtx.type = InstallWasmApp => Owed
  /\ linkCtx.phase \in {"Non_Start", "Leading"} /\ linkCtx.at # 0 =>
       linkCtx.type # InstallWasmApp
  /\ KnownType(linkCtx.type)

LinkInv == LinkTypes /\ WireIsRest /\ LinkHeard

\* What is known of the frame that is read.
LEMMA CurrentIs ==
  ASSUME LinkTypes, frames # <<>>, \A f \in HostFrames : LeadingsLead(f)
  PROVE  /\ frames[Len(frames)] \in HostFrames
         /\ frames[Len(frames)].type \in 0 .. 50
         /\ Current \in Seq(Byte) /\ Len(Current) >= 8 /\ Len(Current) \in Nat
         /\ Current[1] = 18 /\ Current[2] = 52 /\ Current[3] = 0
         /\ Current[4] = frames[Len(frames)].type
         /\ \A i \in 2 .. (Len(Current) - 1) : ~(Current[i] = 18 /\ Current[i + 1] = 52)
<1>1. frames[Len(frames)] \in HostFrames
  <2>1. Len(frames) \in 1 .. Len(frames)
    BY DEF LinkTypes
  <2>2. QED
    BY <2>1, ElementOfSeq DEF LinkTypes
<1>2. PICK f \in HostFrames : f = frames[Len(frames)]
  BY <1>1
<1>3. f.type \in 0 .. 50 /\ LeadingsLead(f)
  BY FrameAssumption
<1>4. PICK b : b = FrameBytes(f)
  OBVIOUS
<1>5. /\ b \in Seq(Byte) /\ Len(b) >= 8
      /\ b[1] = 18 /\ b[2] = 52 /\ b[3] = 0 /\ b[4] = f.type
      /\ \A i \in 2 .. (Len(b) - 1) : ~(b[i] = 18 /\ b[i + 1] = 52)
  BY <1>3, <1>4, FrameHead
<1>6. Len(b) \in Nat
  BY <1>5
<1>7. b = Current
  BY <1>2, <1>4 DEF Current
<1>8. QED
  BY <1>2, <1>3, <1>5, <1>6, <1>7, Zenon

\* What is known of a byte that is taken, the counts are of the same frame.
LEMMA TakesOne ==
  ASSUME LinkTypes, WireIsRest, NEW phase, Takes(phase),
         \A f \in HostFrames : LeadingsLead(f)
  PROVE  /\ frames # <<>> /\ frames' = frames
         /\ wire' \in Seq(Byte) /\ WireIsRest'
         /\ BytesRead \in Nat /\ BytesRead < Len(Current) /\ Len(Current) \in Nat
         /\ Head(wire) = wire[1] /\ wire[1] = Current[BytesRead + 1]
         /\ BytesRead' = BytesRead + 1
         /\ wire' # <<>> =>
              BytesRead + 2 <= Len(Current) /\ wire'[1] = Current[BytesRead + 2]
<1>1. /\ frames' = frames /\ wire # <<>> /\ wire' = Tail(wire) /\ wire \in Seq(Byte)
  BY DEF Takes, LinkTypes
<1>2. frames # <<>>
  BY <1>1 DEF WireIsRest
<1>3. Len(Current) \in Nat
  BY <1>2, CurrentIs
<1>4. Current' = Current
  BY <1>1 DEF Current
<1>5. PICK c : c = Current
  OBVIOUS
<1>6. Len(c) \in Nat
  BY <1>3, <1>5
<1>7. /\ Len(wire) \in Nat /\ Len(wire) >= 1
      /\ wire' \in Seq(Byte) /\ Len(wire') = Len(wire) - 1
      /\ \A i \in 1 .. Len(wire') : wire'[i] = wire[i + 1]
  BY <1>1
<1>8. /\ Len(wire) <= Len(c)
      /\ \A i \in 1 .. Len(wire) : wire[i] = c[Len(c) - Len(wire) + i]
  BY <1>2, <1>5 DEF WireIsRest, BytesRead
<1>9. BytesRead = Len(c) - Len(wire) /\ BytesRead' = Len(c) - Len(wire')
  BY <1>4, <1>5 DEF BytesRead
<1>10. /\ BytesRead \in Nat /\ BytesRead < Len(c) /\ BytesRead' = BytesRead + 1
  BY <1>6, <1>7, <1>8, <1>9
<1>11. \A i \in 1 .. Len(wire') : wire'[i] = c[BytesRead' + i]
  <2> SUFFICES ASSUME NEW i \in 1 .. Len(wire')
               PROVE  wire'[i] = c[BytesRead' + i]
    OBVIOUS
  <2>1. i + 1 \in 1 .. Len(wire)
    BY <1>7
  <2>2. wire'[i] = c[Len(c) - Len(wire) + (i + 1)]
    BY <1>7, <1>8, <2>1
  <2>3. Len(c) - Len(wire) + (i + 1) = BytesRead' + i
    BY <1>6, <1>7, <1>9
  <2>4. QED
    BY <2>2, <2>3
<1>12. WireIsRest'
  <2>1. Len(wire') <= Len(c)
    BY <1>6, <1>7, <1>8
  <2>2. QED
    BY <1>1, <1>2, <1>4, <1>5, <1>11, <2>1 DEF WireIsRest
<1>13. Head(wire) = wire[1] /\ wire[1] = c[BytesRead + 1]
  <2>1. 1 \in 1 .. Len(wire)
    BY <1>7
  <2>2. Head(wire) = wire[1]
    BY <1>1
  <2>3. QED
    BY <1>8, <1>9, <2>1, <2>2
<1>14. ASSUME wire' # <<>>
       PROVE  BytesRead + 2 <= Len(c) /\ wire'[1] = c[BytesRead + 2]
  <2>1. 1 \in 1 .. Len(wire')
    BY <1>7, <1>14
  <2>2. wire'[1] = c[BytesRead' + 1]
    BY <1>11, <2>1
  <2>3. BytesRead' + 1 = BytesRead + 2 /\ BytesRead + 2 <= Len(c)
    BY <1>6, <1>7, <1>8, <1>9, <1>10, <2>1
  <2>4. QED
    BY <2>2, <2>3
<1>15. QED
  BY <1>1, <1>2, <1>3, <1>5, <1>7, <1>10, <1>12, <1>13, <1>14

\* The counts depend on what was sent and logged only.
LEMMA CountsKept ==
  ASSUME frames' = frames, AnswersIn(log') = AnswersIn(log)
  PROVE  /\ OneAnswerPerInstall' = OneAnswerPerInstall
         /\ Unspent' = Unspent /\ Owed' = Owed
<1>1. InstallsIn(frames') = InstallsIn(frames)
  OBVIOUS
<1>2. QED
  BY <1>1 DEF OneAnswerPerInstall, Unspent, Owed

\* A frame without an answer that is an install, and what both mean for the counts.
LEMMA CountsCompared ==
  ASSUME LinkTypes
  PROVE  /\ Unspent => OneAnswerPerInstall
         /\ Owed => OneAnswerPerInstall
         /\ Unspent /\ frames # <<>> /\ frames[Len(frames)].type = InstallWasmApp => Owed
<1> DEFINE a == Cardinality(AnswersIn(log))
           i == Cardinality(InstallsIn(frames))
           e == Cardinality(InstallsIn(frames) \ {Len(frames)})
<1>1. a \in Nat
  BY FS_CardinalityType DEF LinkTypes
<1>2. frames \in Seq(HostFrames)
  BY DEF LinkTypes
<1>3. /\ i \in Nat /\ e \in Nat /\ e <= i
      /\ frames # <<>> /\ frames[Len(frames)].type = InstallWasmApp => e < i
  BY <1>2, InstallsCounted
<1>4. (Unspent <=> a <= e) /\ (Owed <=> a < i) /\ (OneAnswerPerInstall <=> a <= i)
  BY DEF Unspent, Owed, OneAnswerPerInstall
<1> HIDE DEF a, i, e
<1>5. QED
  BY <1>1, <1>3, <1>4

\* The host sends a frame when it wrote the one before.
LEMMA FrameSent ==
  ASSUME LinkInv, NEW f \in HostFrames, SendFrame(f), \A g \in HostFrames : LeadingsLead(g)
  PROVE  LinkInv'
<1>1. /\ frames \in Seq(HostFrames) /\ log \in Seq(Seq(Event)) /\ Len(log) = Len(frames)
      /\ wire = <<>> /\ frames' = Append(frames, f) /\ log' = Append(log, <<>>)
      /\ wire' = FrameBytes(f) /\ linkCtx' = linkCtx /\ loaderCtx' = loaderCtx
  BY DEF LinkInv, LinkTypes, SendFrame
<1>2. /\ frames' \in Seq(HostFrames) /\ Len(frames') = Len(frames) + 1 /\ frames' # <<>>
      /\ frames'[Len(frames')] = f
  BY <1>1, AppendProperties
<1>3. Len(frames) \in Nat
  BY <1>1
<1>4. /\ log' \in Seq(Seq(Event)) /\ Len(log') = Len(log) + 1
      /\ AnswersIn(log') = AnswersIn(log)
  BY <1>1, NoAnswerYet, AppendProperties
<1>5. f.type \in 0 .. 50 /\ LeadingsLead(f)
  BY FrameAssumption
<1>6. wire' \in Seq(Byte) /\ Len(wire') \in Nat /\ Len(wire') >= 8 /\ wire'[1] = 18
  BY <1>1, <1>5, FrameHead
<1>7. Current' = wire'
  BY <1>1, <1>2 DEF Current
<1>8. BytesRead' = 0
  BY <1>6, <1>7 DEF BytesRead
<1>9. LinkTypes'
  BY <1>1, <1>2, <1>4, <1>6 DEF LinkInv, LinkTypes
<1>10. WireIsRest'
  <2>1. \A i \in 1 .. Len(wire') : BytesRead' + i = i
    BY <1>8
  <2>2. QED
    BY <1>2, <1>6, <1>7, <2>1 DEF WireIsRest
<1>11. Unspent'
  <2>1. InstallsIn(frames') \ {Len(frames')} = InstallsIn(frames)
    BY <1>1, InstallsCounted
  <2>2. OneAnswerPerInstall
    BY DEF LinkInv, LinkHeard
  <2>3. QED
    BY <1>4, <2>1, <2>2 DEF Unspent, OneAnswerPerInstall
<1>12. OneAnswerPerInstall'
  <2>1. LinkTypes' => (Unspent' => OneAnswerPerInstall')
    BY CountsCompared, PTL
  <2>2. QED
    BY <1>9, <1>11, <2>1
<1>13. linkCtx.phase # "Type"
  <2> SUFFICES ASSUME linkCtx.phase = "Type"
               PROVE  FALSE
    OBVIOUS
  <2>1. frames # <<>> /\ BytesRead \in {2, 3}
    BY DEF LinkInv, LinkHeard
  <2>2. Len(Current) >= 8 /\ Len(Current) \in Nat
    BY <2>1, CurrentIs DEF LinkInv
  <2>3. Len(wire) = 0
    BY <1>1
  <2>4. BytesRead = Len(Current) - Len(wire)
    BY DEF BytesRead
  <2>5. QED
    BY ONLY <2>1, <2>2, <2>3, <2>4
<1>14. linkCtx.phase \in {"Size", "Payload"} /\ linkCtx.type = InstallWasmApp => Owed'
  <2> SUFFICES ASSUME Owed
               PROVE  Owed'
    BY DEF LinkInv, LinkHeard
  <2>1. InstallsIn(frames) = InstallsIn(frames') \ {Len(frames')}
    BY <1>1, InstallsCounted
  <2>2. PICK a, i, j : /\ a = Cardinality(AnswersIn(log)) /\ i = Cardinality(InstallsIn(frames))
                       /\ j = Cardinality(InstallsIn(frames'))
    OBVIOUS
  <2>3. a \in Nat
    BY <2>2, FS_CardinalityType DEF LinkInv, LinkTypes
  <2>4. i \in Nat /\ j \in Nat /\ i <= j
    BY <1>2, <2>1, <2>2, InstallsCounted
  <2>5. a < i
    BY <2>2 DEF Owed
  <2>6. QED
    BY <1>4, <2>2, <2>3, <2>4, <2>5 DEF Owed
<1>15. LinkHeard'
  BY <1>1, <1>6, <1>8, <1>11, <1>12, <1>13, <1>14 DEF LinkInv, LinkHeard
<1>16. QED
  BY <1>9, <1>10, <1>15 DEF LinkInv

\* What a byte that is answered by no one does to the counts: nothing, and the frame
\* was begun.
LEMMA ByteHeard ==
  ASSUME LinkInv, NEW phase, Takes(phase), \A f \in HostFrames : LeadingsLead(f),
         log' \in Seq(Seq(Event)), Len(log') = Len(log), AnswersIn(log') = AnswersIn(log),
         IsLoader(loaderCtx'),
         DOMAIN linkCtx' = {"phase", "at", "type", "size", "payload"},
         linkCtx'.phase = "Leading" /\ wire' # <<>> /\ wire'[1] = 52 =>
           BytesRead' = 1 /\ Unspent,
         linkCtx'.phase = "Type" =>
           /\ Unspent
           /\ \/ BytesRead' = 2 /\ (linkCtx'.at # 0 => linkCtx'.type # InstallWasmApp)
              \/ BytesRead' = 3 /\ linkCtx'.at = 1 /\ linkCtx'.type = 0,
         linkCtx'.phase \in {"Size", "Payload"} /\ linkCtx'.type = InstallWasmApp => Owed,
         linkCtx'.phase \in {"Non_Start", "Leading"} /\ linkCtx'.at # 0 =>
           linkCtx'.type # InstallWasmApp,
         KnownType(linkCtx'.type)
  PROVE  LinkInv'
<1>1. LinkTypes /\ WireIsRest /\ LinkHeard
  BY DEF LinkInv
<1>2. /\ frames # <<>> /\ frames' = frames
      /\ wire' \in Seq(Byte) /\ WireIsRest'
      /\ BytesRead \in Nat /\ BytesRead' = BytesRead + 1
  BY <1>1, TakesOne
<1>3. BytesRead' # 0
  BY <1>2
<1>4. /\ OneAnswerPerInstall' = OneAnswerPerInstall
      /\ Unspent' = Unspent /\ Owed' = Owed
  BY <1>2, CountsKept
<1>5. LinkTypes'
  BY <1>1, <1>2, <1>4 DEF LinkTypes
<1>6. LinkHeard'
  BY <1>1, <1>2, <1>3, <1>4 DEF LinkHeard
<1>7. QED
  BY <1>2, <1>5, <1>6 DEF LinkInv

LEMMA NonStartHeard ==
  ASSUME LinkInv, OnNonStart, \A f \in HostFrames : LeadingsLead(f)
  PROVE  LinkInv'
<1>1. LinkTypes /\ WireIsRest /\ LinkHeard /\ Takes("Non_Start") /\ linkCtx.phase = "Non_Start"
  BY DEF LinkInv, OnNonStart, Takes
<1>2. /\ DOMAIN linkCtx' = {"phase", "at", "type", "size", "payload"}
      /\ linkCtx'.at = linkCtx.at /\ linkCtx'.type = linkCtx.type
      /\ linkCtx'.phase = IF Head(wire) = 18 THEN "Leading" ELSE "Non_Start"
  BY <1>1 DEF OnNonStart, LinkTypes, Leadings
<1>3. linkCtx'.phase = "Leading" /\ wire' # <<>> /\ wire'[1] = 52 =>
        BytesRead' = 1 /\ Unspent
  <2> SUFFICES ASSUME Head(wire) = 18, wire' # <<>>, wire'[1] = 52
               PROVE  BytesRead' = 1 /\ Unspent
    BY <1>2
  <2>1. PICK k, c : k = BytesRead /\ c = Current
    OBVIOUS
  <2>2. /\ frames # <<>> /\ k \in Nat /\ Len(c) \in Nat /\ BytesRead' = k + 1
        /\ c[k + 1] = 18 /\ c[k + 2] = 52 /\ k + 2 <= Len(c)
    BY <1>1, <2>1, TakesOne
  <2>3. \A i \in 2 .. (Len(c) - 1) : ~(c[i] = 18 /\ c[i + 1] = 52)
    BY <1>1, <2>1, <2>2, CurrentIs
  <2>4. k = 0
    <3> SUFFICES ASSUME k # 0
                 PROVE  FALSE
      OBVIOUS
    <3>1. k + 1 \in 2 .. (Len(c) - 1) /\ (k + 1) + 1 = k + 2
      BY <2>2
    <3>2. QED
      BY <2>2, <2>3, <3>1
  <2>5. QED
    BY <1>1, <2>1, <2>2, <2>4 DEF LinkHeard
<1>4. log' = log /\ loaderCtx' = loaderCtx
  BY DEF OnNonStart, Quiet
<1>5. QED
  BY <1>1, <1>2, <1>3, <1>4, ByteHeard DEF LinkHeard, LinkTypes

LEMMA LeadingHeard ==
  ASSUME LinkInv, OnLeading, \A f \in HostFrames : LeadingsLead(f)
  PROVE  LinkInv'
<1>1. LinkTypes /\ WireIsRest /\ LinkHeard /\ Takes("Leading") /\ linkCtx.phase = "Leading"
  BY DEF LinkInv, OnLeading, Takes
<1>2. /\ DOMAIN linkCtx' = {"phase", "at", "type", "size", "payload"}
      /\ linkCtx'.at = linkCtx.at /\ linkCtx'.type = linkCtx.type
      /\ linkCtx'.phase = IF Head(wire) = 52 THEN "Type" ELSE "Non_Start"
  BY <1>1 DEF OnLeading, LinkTypes, Leadings
<1>3. linkCtx'.phase = "Type" =>
        Unspent /\ BytesRead' = 2 /\ (linkCtx'.at # 0 => linkCtx'.type # InstallWasmApp)
  <2>1. Head(wire) = 52 => wire # <<>> /\ wire[1] = 52 /\ BytesRead' = BytesRead + 1
    BY <1>1, TakesOne DEF Takes
  <2>2. Head(wire) = 52 => BytesRead = 1 /\ Unspent
    BY <1>1, <2>1 DEF LinkHeard
  <2>3. QED
    BY <1>1, <1>2, <2>1, <2>2 DEF LinkHeard
<1>4. log' = log /\ loaderCtx' = loaderCtx
  BY DEF OnLeading, Quiet
<1>5. QED
  BY <1>1, <1>2, <1>3, <1>4, ByteHeard DEF LinkHeard, LinkTypes

\* Nothing is logged, or what is no answer.
LEMMA LogKept ==
  ASSUME LinkInv, frames # <<>>,
         NEW event \in {"none", "dispatched", "unexpected"}, log' \in {log, Logged(event)}
  PROVE  log' \in Seq(Seq(Event)) /\ Len(log') = Len(log) /\ AnswersIn(log') = AnswersIn(log)
<1>1. log \in Seq(Seq(Event)) /\ log # <<>> /\ IsFiniteSet(AnswersIn(log))
  BY DEF LinkInv, LinkTypes
<1>2. CASE log' = log
  BY <1>1, <1>2
<1>3. CASE log' = [log EXCEPT ![Len(log)] = Append(@, event)] /\ event # "none"
  <2>1. event \in Event /\ event \notin {"posted", "error"}
    BY <1>3 DEF Event
  <2>2. QED
    BY <1>1, <1>3, <2>1, EventCounted
<1>4. QED
  BY <1>2, <1>3 DEF Logged

LEMMA TypeHeard ==
  ASSUME LinkInv, OnType, \A f \in HostFrames : LeadingsLead(f)
  PROVE  LinkInv'
<1>1. LinkTypes /\ WireIsRest /\ LinkHeard /\ Takes("Type") /\ linkCtx.phase = "Type"
  BY DEF LinkInv, OnType, Takes
<1>2. /\ frames # <<>> /\ BytesRead \in Nat /\ BytesRead' = BytesRead + 1
      /\ Head(wire) = Current[BytesRead + 1]
  BY <1>1, TakesOne
<1>3. /\ Current[3] = 0 /\ Current[4] = frames[Len(frames)].type
      /\ frames[Len(frames)].type \in 0 .. 50
  BY <1>1, <1>2, CurrentIs
<1>4. Unspent /\ KnownType(linkCtx.type)
  BY <1>1 DEF LinkHeard
<1>5. DOMAIN linkCtx = {"phase", "at", "type", "size", "payload"}
  BY <1>1 DEF LinkTypes
<1>6. log' = log /\ loaderCtx' = loaderCtx
  BY DEF OnType, Quiet
<1> DEFINE t == linkCtx.type
           swapped == (t % 256) * 256 + ByteOr(t \div 256, Head(wire))
<1>7. CASE linkCtx.at = 0
  <2>1. linkCtx' = [linkCtx EXCEPT !.at = 1, !.type = Head(wire)]
    BY <1>7 DEF OnType
  <2>2. /\ DOMAIN linkCtx' = {"phase", "at", "type", "size", "payload"}
        /\ linkCtx'.phase = "Type" /\ linkCtx'.at = 1 /\ linkCtx'.type = Head(wire)
    BY <1>1, <1>5, <2>1
  <2>3. BytesRead = 2
    BY <1>1, <1>7 DEF LinkHeard
  <2>4. BytesRead' = 3 /\ linkCtx'.type = 0
    BY <1>2, <1>3, <2>2, <2>3
  <2>5. KnownType(linkCtx'.type)
    BY <2>4 DEF KnownType
  <2>6. QED
    BY <1>1, <1>4, <1>6, <2>2, <2>4, <2>5, ByteHeard DEF LinkTypes
<1>8. CASE linkCtx.at # 0
  <2>1. linkCtx' = [linkCtx EXCEPT !.type = swapped, !.phase = "Size", !.at = 0]
    BY <1>8 DEF OnType
  <2>2. /\ DOMAIN linkCtx' = {"phase", "at", "type", "size", "payload"}
        /\ linkCtx'.phase = "Size" /\ linkCtx'.at = 0 /\ linkCtx'.type = swapped
    BY <1>1, <1>5, <2>1
  <2>3. KnownType(swapped) /\ (swapped = InstallWasmApp => Owed)
    <3>1. CASE BytesRead = 2
      <4>1. t # 4 /\ Head(wire) = 0
        BY <1>1, <1>2, <1>3, <1>8, <3>1 DEF LinkHeard, InstallWasmApp
      <4>2. t \in Nat /\ t # 1024
        BY <1>4 DEF KnownType
      <4>3. t \div 256 \in 0 .. 255
        BY <1>4, <4>2 DEF KnownType
      <4>4. swapped = (t % 256) * 256 + t \div 256
        BY <4>1, <4>3, OrZero
      <4> HIDE DEF swapped, t
      <4>5. CASE t \in 0 .. 50
        <5>1. swapped = t * 256
          BY <4>4, <4>5
        <5>2. swapped % 256 = 0 /\ swapped \div 256 = t /\ swapped \in Nat
          BY <4>5, <5>1
        <5>3. swapped # 1024 /\ swapped # 4
          BY <4>1, <4>5, <5>1
        <5>4. QED
          BY <4>5, <5>2, <5>3 DEF KnownType, InstallWasmApp
      <4>6. CASE t % 256 = 0 /\ t \div 256 \in 0 .. 50
        <5>1. swapped = t \div 256
          BY <4>4, <4>6
        <5>2. t \div 256 # 4
          BY <4>2, <4>6
        <5>3. QED
          BY <4>6, <5>1, <5>2 DEF KnownType, InstallWasmApp
      <4>7. QED
        BY <1>4, <4>5, <4>6 DEF KnownType, t
    <3>2. CASE BytesRead = 3 /\ t = 0
      <4>1. Head(wire) = frames[Len(frames)].type
        BY <1>2, <1>3, <3>2
      <4>2. Head(wire) \in 0 .. 255 /\ Head(wire) \in 0 .. 50
        <5>1. \A n \in 0 .. 50 : n \in 0 .. 255
          OBVIOUS
        <5>2. QED
          BY <1>3, <4>1, <5>1, Zenon
      <4>3. t % 256 = 0 /\ t \div 256 = 0
        BY <3>2
      <4>4. swapped = Head(wire)
        BY <4>2, <4>3, OrZero
      <4>5. swapped = InstallWasmApp => Owed
        BY <1>1, <1>2, <1>4, <4>1, <4>4, CountsCompared
      <4>6. QED
        BY <4>2, <4>4, <4>5 DEF KnownType
    <3>3. QED
      BY <1>1, <3>1, <3>2 DEF LinkHeard
  <2> HIDE DEF swapped
  <2>4. QED
    BY <1>1, <1>6, <2>2, <2>3, ByteHeard DEF LinkTypes
<1>9. QED
  BY <1>7, <1>8

LEMMA IgnoringHeard ==
  ASSUME LinkInv, OnIgnoring, \A f \in HostFrames : LeadingsLead(f)
  PROVE  LinkInv'
<1>1. LinkTypes /\ WireIsRest /\ LinkHeard /\ Takes("Ignoring") /\ linkCtx.phase = "Ignoring"
  BY DEF LinkInv, OnIgnoring, Takes
<1>2. /\ DOMAIN linkCtx' = {"phase", "at", "type", "size", "payload"}
      /\ \/ linkCtx'.phase = "Non_Start" /\ linkCtx'.at = 0 /\ linkCtx'.type = 0
         \/ linkCtx'.phase = "Ignoring" /\ linkCtx'.type = linkCtx.type
  <2>1. CASE linkCtx' = ZeroLink
    BY <2>1 DEF ZeroLink
  <2>2. CASE linkCtx' = [linkCtx EXCEPT !.at = @ + 1]
    BY <1>1, <2>2 DEF LinkTypes
  <2>3. QED
    BY <2>1, <2>2 DEF OnIgnoring
<1>3. log' = log /\ loaderCtx' = loaderCtx
  BY DEF OnIgnoring, Quiet
<1>4. KnownType(0)
  BY DEF KnownType
<1>5. QED
  BY <1>1, <1>2, <1>3, <1>4, ByteHeard DEF LinkHeard, LinkTypes

\* A whole message leaves the context as at the start, or with a request in it.
LEMMA MessageEnds ==
  ASSUME LinkInv, frames # <<>>, NEW c, MessageComplete(c),
         DOMAIN c = {"phase", "at", "type", "size", "payload"}, c.phase = "Non_Start",
         KnownType(c.type)
  PROVE  /\ DOMAIN linkCtx' = {"phase", "at", "type", "size", "payload"}
         /\ linkCtx'.phase = "Non_Start"
         /\ linkCtx'.at # 0 => linkCtx'.type # InstallWasmApp
         /\ KnownType(linkCtx'.type)
         /\ log' \in Seq(Seq(Event)) /\ Len(log') = Len(log)
         /\ AnswersIn(log') = AnswersIn(log)
<1>1. CASE linkCtx' = c /\ c.type = RequestPacket /\ log' = log
  <2>1. log' \in {log, Logged("none")}
    BY <1>1
  <2>2. QED
    BY <1>1, <2>1, LogKept DEF RequestPacket, InstallWasmApp
<1>2. CASE linkCtx' = ZeroLink /\ log' = Logged(IF c.payload = Null THEN "none"
                        ELSE IF c.type = RequestPacket THEN "dispatched" ELSE "unexpected")
  <2>1. PICK event \in {"none", "dispatched", "unexpected"} : log' = Logged(event)
    BY <1>2
  <2>2. log' \in Seq(Seq(Event)) /\ Len(log') = Len(log) /\ AnswersIn(log') = AnswersIn(log)
    BY <2>1, LogKept
  <2>3. KnownType(0)
    BY DEF KnownType
  <2>4. QED
    BY <1>2, <2>2, <2>3 DEF ZeroLink
<1>3. QED
  BY <1>1, <1>2 DEF MessageComplete

LEMMA SizeHeard ==
  ASSUME LinkInv, OnSize, \A f \in HostFrames : LeadingsLead(f)
  PROVE  LinkInv'
<1>1. LinkTypes /\ WireIsRest /\ LinkHeard /\ Takes("Size") /\ linkCtx.phase = "Size"
  BY DEF LinkInv, OnSize, Takes
<1>2. frames # <<>>
  BY <1>1, TakesOne
<1>3. KnownType(linkCtx.type) /\ (linkCtx.type = InstallWasmApp => Owed)
  BY <1>1 DEF LinkHeard
<1>4. loaderCtx' = loaderCtx /\ IsLoader(loaderCtx)
  BY <1>1 DEF OnSize, LinkTypes
<1> DEFINE size == Shifted(linkCtx.size, Head(wire))
           c == [linkCtx EXCEPT !.size = size, !.at = @ + 1]
           full == [c EXCEPT !.phase = "Payload", !.at = 0, !.payload = <<>>]
           none == [full EXCEPT !.payload = Null]
           idle == [c EXCEPT !.phase = "Non_Start", !.payload = Null]
<1>5. /\ DOMAIN c = {"phase", "at", "type", "size", "payload"}
      /\ c.phase = "Size" /\ c.type = linkCtx.type
  <2> HIDE DEF size
  <2>1. QED
    BY <1>1 DEF LinkTypes
<1>6. \/ linkCtx' = c /\ UNCHANGED log
      \/ MessageComplete(idle)
      \/ linkCtx' = none /\ UNCHANGED log
      \/ c.type # InstallWasmApp /\ linkCtx' = full /\ UNCHANGED log
      \/ c.type # InstallWasmApp /\ linkCtx' = idle /\ UNCHANGED log
  <2> HIDE DEF size
  <2>1. QED
    BY Zenon DEF OnSize, size
<1> HIDE DEF c
<1>7. /\ DOMAIN full = {"phase", "at", "type", "size", "payload"}
      /\ full.phase = "Payload" /\ full.type = linkCtx.type
      /\ DOMAIN idle = {"phase", "at", "type", "size", "payload"}
      /\ idle.phase = "Non_Start" /\ idle.type = linkCtx.type
  BY <1>5
<1> HIDE DEF full, idle
<1>8. /\ DOMAIN none = {"phase", "at", "type", "size", "payload"}
      /\ none.phase = "Payload" /\ none.type = linkCtx.type
  BY <1>7
<1> HIDE DEF none
<1>9. CASE MessageComplete(idle)
  <2>1. /\ DOMAIN linkCtx' = {"phase", "at", "type", "size", "payload"}
        /\ linkCtx'.phase = "Non_Start"
        /\ linkCtx'.at # 0 => linkCtx'.type # InstallWasmApp
        /\ KnownType(linkCtx'.type)
        /\ log' \in Seq(Seq(Event)) /\ Len(log') = Len(log)
        /\ AnswersIn(log') = AnswersIn(log)
    BY <1>2, <1>3, <1>7, <1>9, MessageEnds
  <2>2. QED
    BY <1>1, <1>4, <2>1, ByteHeard
<1>10. CASE /\ linkCtx' \in {c, none, full, idle} /\ log' = log
            /\ linkCtx' = idle => c.type # InstallWasmApp
  <2>1. /\ DOMAIN linkCtx' = {"phase", "at", "type", "size", "payload"}
        /\ linkCtx'.type = linkCtx.type
        /\ linkCtx'.phase \in {"Size", "Payload"}
             \/ (linkCtx'.phase = "Non_Start" /\ linkCtx'.type # InstallWasmApp)
    BY <1>5, <1>7, <1>8, <1>10
  <2>2. QED
    BY <1>1, <1>3, <1>4, <1>10, <2>1, ByteHeard DEF LinkTypes
<1>11. QED
  BY <1>5, <1>6, <1>7, <1>8, <1>9, <1>10

LEMMA PayloadHeard ==
  ASSUME LinkInv, OnPayload, \A f \in HostFrames : LeadingsLead(f)
  PROVE  LinkInv'
<1>1. /\ LinkTypes /\ WireIsRest /\ LinkHeard /\ Takes("Payload")
      /\ linkCtx.phase = "Payload" /\ linkCtx.type # InstallWasmApp
  BY DEF LinkInv, OnPayload, Takes
<1>2. frames # <<>>
  BY <1>1, TakesOne
<1>3. KnownType(linkCtx.type)
  BY <1>1 DEF LinkHeard
<1>4. loaderCtx' = loaderCtx /\ IsLoader(loaderCtx)
  BY <1>1 DEF OnPayload, LinkTypes
<1> DEFINE c == [linkCtx EXCEPT !.payload = Append(@, Head(wire)), !.at = @ + 1]
           idle == [c EXCEPT !.phase = "Non_Start"]
<1>5. /\ DOMAIN c = {"phase", "at", "type", "size", "payload"}
      /\ c.phase = "Payload" /\ c.type = linkCtx.type
  BY <1>1 DEF LinkTypes
<1>6. \/ linkCtx' = c /\ UNCHANGED log
      \/ MessageComplete(idle)
  BY Zenon DEF OnPayload
<1> HIDE DEF c
<1>7. /\ DOMAIN idle = {"phase", "at", "type", "size", "payload"}
      /\ idle.phase = "Non_Start" /\ idle.type = linkCtx.type
  BY <1>5
<1> HIDE DEF idle
<1>8. CASE MessageComplete(idle)
  <2>1. /\ DOMAIN linkCtx' = {"phase", "at", "type", "size", "payload"}
        /\ linkCtx'.phase = "Non_Start"
        /\ linkCtx'.at # 0 => linkCtx'.type # InstallWasmApp
        /\ KnownType(linkCtx'.type)
        /\ log' \in Seq(Seq(Event)) /\ Len(log') = Len(log)
        /\ AnswersIn(log') = AnswersIn(log)
    BY <1>2, <1>3, <1>7, <1>8, MessageEnds
  <2>2. QED
    BY <1>1, <1>4, <2>1, ByteHeard
<1>9. CASE linkCtx' = c /\ log' = log
  BY <1>1, <1>3, <1>4, <1>5, <1>9, ByteHeard DEF LinkTypes
<1>10. QED
  BY <1>6, <1>8, <1>9

\* A byte of an application: the receiver answers only when the message is over for it.
LEMMA InstallHeard ==
  ASSUME LinkInv, InstallByte, \A f \in HostFrames : LeadingsLead(f)
  PROVE  LinkInv'
<1>1. /\ LinkTypes /\ WireIsRest /\ LinkHeard /\ Takes("Payload")
      /\ linkCtx.phase = "Payload" /\ linkCtx.type = InstallWasmApp
  BY DEF LinkInv, InstallByte, Takes
<1>2. /\ frames # <<>> /\ frames' = frames /\ wire' \in Seq(Byte) /\ WireIsRest'
      /\ BytesRead \in Nat /\ BytesRead' = BytesRead + 1
  BY <1>1, TakesOne
<1>3. Owed /\ KnownType(linkCtx.type)
  BY <1>1 DEF LinkHeard
<1> DEFINE c == [linkCtx EXCEPT !.at = @ + 1]
           l == Counted(loaderCtx)
           ignoring == [c EXCEPT !.phase = "Ignoring"]
           idle == [c EXCEPT !.phase = "Non_Start", !.at = 0]
<1>4. PICK r \in LoaderResults(l, Head(wire), c.size) :
        /\ loaderCtx' = r.ctx
        /\ log' = Logged(r.event)
        /\ linkCtx' = IF ~r.ok THEN IF c.at < c.size THEN ignoring ELSE idle
                      ELSE IF l.total = c.size THEN ZeroLink
                      ELSE c
  BY DEF InstallByte
<1>5. IsLoader(l)
  BY <1>1 DEF LinkTypes, Counted, IsLoader
<1> HIDE DEF l
<1>6. IsResult(r, l.total, c.size)
  BY <1>4, <1>5, ByteTaken
<1>7. /\ DOMAIN c = {"phase", "at", "type", "size", "payload"}
      /\ c.phase = "Payload" /\ c.type = InstallWasmApp
  BY <1>1 DEF LinkTypes
<1> HIDE DEF c
<1>8. /\ DOMAIN ignoring = {"phase", "at", "type", "size", "payload"}
      /\ ignoring.phase = "Ignoring" /\ ignoring.type = InstallWasmApp
      /\ DOMAIN idle = {"phase", "at", "type", "size", "payload"}
      /\ idle.phase = "Non_Start" /\ idle.at = 0 /\ idle.type = InstallWasmApp
  BY <1>7
<1> HIDE DEF ignoring, idle
<1>9. /\ DOMAIN ZeroLink = {"phase", "at", "type", "size", "payload"}
      /\ ZeroLink.phase = "Non_Start" /\ ZeroLink.at = 0 /\ ZeroLink.type = 0
  BY DEF ZeroLink
<1>10. KnownType(0) /\ KnownType(InstallWasmApp)
  BY <1>1, <1>3 DEF KnownType
<1>11. IsLoader(loaderCtx')
  BY <1>4, <1>6 DEF IsResult
<1>12. CASE r.event = "none"
  <2>1. log' = log
    BY <1>4, <1>12 DEF Logged
  <2>2. linkCtx' \in {ignoring, idle, ZeroLink, c}
    BY <1>4
  <2>3. QED
    BY <1>1, <1>3, <1>7, <1>8, <1>9, <1>10, <1>11, <2>1, <2>2, ByteHeard DEF LinkTypes
<1>13. CASE r.event \in {"error", "posted"}
  <2>1. linkCtx' \in {ignoring, idle, ZeroLink}
    BY <1>4, <1>6, <1>13 DEF IsResult
  <2>2. log' = [log EXCEPT ![Len(log)] = Append(@, r.event)] /\ r.event \in Event
    BY <1>4, <1>13 DEF Logged, Event
  <2>3. /\ log \in Seq(Seq(Event)) /\ log # <<>> /\ IsFiniteSet(AnswersIn(log))
        /\ Len(log) = Len(frames) /\ frames \in Seq(HostFrames)
    BY <1>1, <1>2 DEF LinkTypes
  <2>4. /\ log' \in Seq(Seq(Event)) /\ Len(log') = Len(log)
        /\ IsFiniteSet(AnswersIn(log'))
        /\ Cardinality(AnswersIn(log')) <= Cardinality(AnswersIn(log)) + 1
    BY <2>2, <2>3, EventCounted
  <2>5. OneAnswerPerInstall'
    <3>1. PICK a, b, i : /\ a = Cardinality(AnswersIn(log)) /\ b = Cardinality(AnswersIn(log'))
                         /\ i = Cardinality(InstallsIn(frames))
      OBVIOUS
    <3>2. a \in Nat /\ b \in Nat /\ i \in Nat
      BY <2>3, <2>4, <3>1, FS_CardinalityType, InstallsCounted
    <3>3. b <= a + 1 /\ a < i
      BY <1>3, <2>4, <3>1 DEF Owed
    <3>4. b <= i
      BY <3>2, <3>3
    <3>5. QED
      BY <1>2, <3>1, <3>4 DEF OneAnswerPerInstall
  <2>6. LinkTypes'
    BY <1>2, <1>8, <1>9, <1>11, <2>1, <2>3, <2>4 DEF LinkTypes
  <2>7. BytesRead' # 0
    BY <1>2
  <2>8. LinkHeard'
    BY <1>8, <1>9, <1>10, <2>1, <2>5, <2>7 DEF LinkHeard
  <2>9. QED
    BY <1>2, <2>6, <2>8 DEF LinkInv
<1>14. QED
  BY <1>6, <1>12, <1>13 DEF IsResult

\* When no frame of the host holds the leading bytes but at its beginning, an install is
\* answered once at most, whatever was received before: also after a request that
\* could not be unpacked, a payload without memory, a refused install or a cut file
\* (on_imrt_link_byte_arrive, wasm_app_module_on_install_request_byte_arrive).
THEOREM InstallsAnsweredOnce ==
  ASSUME \A f \in HostFrames : LeadingsLead(f)
  PROVE  LinkSpec => []OneAnswerPerInstall
<1>1. LinkInit => LinkInv
  <2> SUFFICES ASSUME LinkInit
               PROVE  LinkInv
    OBVIOUS
  <2>1. /\ wire = <<>> /\ frames = <<>> /\ log = <<>>
        /\ linkCtx = ZeroLink /\ loaderCtx = ZeroLoader
    BY DEF LinkInit
  <2>2. AnswersIn(log) = {} /\ InstallsIn(frames) = {}
    BY <2>1 DEF AnswersIn, InstallsIn
  <2>3. IsFiniteSet({}) /\ Cardinality({}) = 0
    BY FS_EmptySet
  <2>4. LinkTypes
    <3>1. /\ wire \in Seq(Byte) /\ frames \in Seq(HostFrames) /\ log \in Seq(Seq(Event))
          /\ Len(log) = Len(frames)
      BY <2>1
    <3>2. IsFiniteSet(AnswersIn(log))
      BY <2>2, <2>3
    <3>3. DOMAIN linkCtx = {"phase", "at", "type", "size", "payload"}
      BY <2>1 DEF ZeroLink
    <3>4. QED
      BY <2>1, <3>1, <3>2, <3>3, Starts DEF LinkTypes
  <2>5. KnownType(0)
    BY DEF KnownType
  <2>6. LinkHeard
    <3>1. OneAnswerPerInstall
      BY <2>2, <2>3 DEF OneAnswerPerInstall
    <3>2. linkCtx.phase = "Non_Start" /\ linkCtx.at = 0 /\ linkCtx.type = 0
      BY <2>1 DEF ZeroLink
    <3>3. QED
      BY <2>1, <2>5, <3>1, <3>2 DEF LinkHeard
  <2>7. QED
    BY <2>1, <2>4, <2>6 DEF LinkInv, WireIsRest
<1>2. LinkInv /\ [LinkNext]_linkVars => LinkInv'
  <2> SUFFICES ASSUME LinkInv, [LinkNext]_linkVars
               PROVE  LinkInv'
    OBVIOUS
  <2>1. ASSUME NEW f \in HostFrames, SendFrame(f)
        PROVE  LinkInv'
    BY <2>1, FrameSent
  <2>2. CASE OnNonStart
    BY <2>2, NonStartHeard
  <2>3. CASE OnLeading
    BY <2>3, LeadingHeard
  <2>4. CASE OnType
    BY <2>4, TypeHeard
  <2>5. CASE OnSize
    BY <2>5, SizeHeard
  <2>6. CASE OnPayload
    BY <2>6, PayloadHeard
  <2>7. CASE InstallByte
    BY <2>7, InstallHeard
  <2>8. CASE OnIgnoring
    BY <2>8, IgnoringHeard
  <2>9. CASE UNCHANGED linkVars
    BY <2>9 DEF linkVars, LinkInv, LinkTypes, WireIsRest, LinkHeard, Current, BytesRead,
                OneAnswerPerInstall, Unspent, Owed
  <2>10. QED
    BY <2>1, <2>2, <2>3, <2>4, <2>5, <2>6, <2>7, <2>8, <2>9 DEF LinkNext
<1>3. LinkInv => OneAnswerPerInstall
  BY DEF LinkInv, LinkHeard
<1>4. QED
  BY <1>1, <1>2, <1>3, PTL DEF LinkSpec
===============================================================================
