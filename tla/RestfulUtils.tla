---- MODULE RestfulUtils ----
(***************************************************************************)
(* The serialization and URL helpers shared by the runtime, the apps and   *)
(* the host tool (app-framework/app-native-shared/restful_utils.c).        *)
(*                                                                         *)
(* A buffer is a sequence of bytes and a string a sequence of characters,  *)
(* given by their codes, without the final NUL. Integers are in network    *)
(* order on the wire. Null stands for NULL, whatever it is a pointer to.   *)
(* RestfulCalls compares what the helpers return with definitions that say *)
(* what they are for; HostLink uses the packets.                           *)
(***************************************************************************)
EXTENDS Integers, Sequences, SequencesExt

CONSTANTS
  Null,        \* no object
  Overrun,     \* a message whose parts lie behind its packet
  Behind,      \* the byte that happens to be there
  ValueRoom    \* value_len: the size of the caller's value buffer

ASSUME RestfulAssumption == ValueRoom \in Nat \ {0} /\ Behind \in 0 .. 255

Slash == 47
Star  == 42
Query == 63
Space == 32
Equal == 61
Delimiter == 59

(***************************************************************************)
(* Packing and unpacking.                                                  *)
(***************************************************************************)
RequestFixPart  == 18
ResponseFixPart == 16
PacketVersion   == 1

Bytes2(n) == << (n \div 256) % 256, n % 256 >>
Bytes4(n) == Bytes2(n \div 65536) \o Bytes2(n % 65536)

\* The numbers that begin at the offset at, counted from 0 as in C.
Number2(buffer, at) == buffer[at + 1] * 256 + buffer[at + 2]
Number4(buffer, at) == Number2(buffer, at) * 65536 + Number2(buffer, at + 2)

\* The bytes [from, from + n) of a buffer, counted likewise.
Slice(buffer, from, n) == SubSeq(buffer, from + 1, from + n)

PackRequest(r) ==
  LET url == Append(r.url, 0)
  IN  <<PacketVersion, r.action>> \o Bytes2(r.fmt) \o Bytes4(r.mid)
        \o Bytes4(r.sender) \o Bytes2(Len(url)) \o Bytes4(Len(r.payload))
        \o url \o r.payload

\* n and the four bytes at the offset at add up to the size of the packet in 32 bits:
\* the low halves of the two agree, and the high ones with the carry.
SizeAgrees(packet, n, at) ==
  LET low == n + Number2(packet, at + 2)
  IN  /\ low % 65536 = Len(packet) % 65536
      /\ (Number2(packet, at) + low \div 65536) % 65536 = Len(packet) \div 65536

ByteAt(packet, i) == IF i <= Len(packet) THEN packet[i] ELSE Behind

\* Variant: the lengths are added in 16 bits.
RequestSizedShort(packet) ==
  /\ packet[1] = PacketVersion
  /\ Len(packet) >= RequestFixPart
  /\ LET urlLen == Number2(packet, 12)
     IN  /\ (RequestFixPart + urlLen + Number2(packet, 16)) % 65536 = Len(packet) % 65536
         /\ ByteAt(packet, RequestFixPart + urlLen) = 0

\* NULL when the version, a length or the end of the URL is not right. A received
\* size that differs from what the lengths say is refused, unless by 2^32.
RequestWellFormed(packet) ==
  /\ packet[1] = PacketVersion
  /\ Len(packet) >= RequestFixPart
  /\ LET urlLen == Number2(packet, 12)
     IN  /\ SizeAgrees(packet, RequestFixPart + urlLen, 14)
         /\ ByteAt(packet, RequestFixPart + urlLen) = 0

\* The lengths add up to 2^32 more than the size if and only if the URL has not its
\* end in the packet: then the payload has not either.
UnpackRequest(packet) ==
  LET urlLen == Number2(packet, 12)
  IN  IF ~RequestWellFormed(packet) THEN Null
      ELSE IF RequestFixPart + urlLen > Len(packet) THEN Overrun
      ELSE [action  |-> packet[2],
            fmt     |-> Number2(packet, 2),
            mid     |-> Number4(packet, 4),
            sender  |-> Number4(packet, 8),
            url     |-> Slice(packet, RequestFixPart, urlLen - 1),
            payload |-> SubSeq(packet, RequestFixPart + urlLen + 1, Len(packet))]

PackResponse(r) ==
  <<PacketVersion, r.status>> \o Bytes2(r.fmt) \o Bytes4(r.mid)
    \o Bytes4(r.reciever) \o Bytes4(Len(r.payload)) \o r.payload

\* The size is compared in 32 bits here too.
UnpackResponse(packet) ==
  IF /\ packet[1] = PacketVersion
     /\ Len(packet) >= ResponseFixPart
     /\ SizeAgrees(packet, ResponseFixPart, 12)
  THEN [status   |-> packet[2],
        fmt      |-> Number2(packet, 2),
        mid      |-> Number4(packet, 4),
        reciever |-> Number4(packet, 8),
        payload  |-> SubSeq(packet, ResponseFixPart + 1, Len(packet))]
  ELSE Null

(***************************************************************************)
(* URL matching.                                                           *)
(***************************************************************************)
WithoutFirstSlash(s) == IF s # <<>> /\ s[1] = Slash THEN Tail(s) ELSE s
EndsWith(s, c)       == s # <<>> /\ s[Len(s)] = c
WithoutLast(s)       == SubSeq(s, 1, Len(s) - 1)
WithoutLastSlash(s)  == IF EndsWith(s, Slash) THEN WithoutLast(s) ELSE s

\* strncmp(a, b, n) == 0: b may be shorter, its NUL then ends the comparison.
SamePrefix(a, b, n) ==
  \A i \in 1..n : i <= Len(a) /\ i <= Len(b) /\ a[i] = b[i]

\* The offset in the URL behind what leading_str matched, 0 for no match.
CheckUrlStart(url, leading) ==
  LET stem   == WithoutLastSlash(WithoutFirstSlash(leading))
      rest   == WithoutFirstSlash(url)
      offset == Len(url) - Len(rest)
      len    == Len(stem)
  IN  IF len = 0 \/ Len(rest) < len \/ ~SamePrefix(rest, stem, len) THEN 0
      ELSE IF Len(rest) = len THEN offset + len
      ELSE IF rest[len + 1] \in {Slash, Query} THEN offset + len + 1
      ELSE 0

\* Variant: what follows a prefix that ends with "/" is not looked at.
MatchUrlUnended(pattern, matched) ==
  LET p == WithoutFirstSlash(pattern)
      m == WithoutFirstSlash(matched)
      len == Len(p) - 1
  IN  /\ WithoutLastSlash(m) # <<>>
      /\ p # <<>>
      /\ IF EndsWith(p, Slash) \/ EndsWith(p, Star)
         THEN SamePrefix(p, m, len)
         ELSE p = m

MatchUrl(pattern, matched) ==
  LET p == WithoutFirstSlash(pattern)
      m == WithoutFirstSlash(matched)
      matchedLen == Len(WithoutLastSlash(m))
      len == Len(p) - 1
  IN  /\ matchedLen # 0
      /\ p # <<>>
      /\ IF EndsWith(p, Slash)
         THEN /\ SamePrefix(p, m, len)
              /\ \/ len = matchedLen
                 \/ matchedLen > len /\ m[len + 1] = Slash
         ELSE IF EndsWith(p, Star)
         THEN SamePrefix(p, m, len)
         ELSE p = m

(***************************************************************************)
(* find_key_value: the two loops over the buffer, as functions of the      *)
(* position p they have reached. Behind the buffer there is its NUL.       *)
(***************************************************************************)
CharAt(buffer, p) == IF p <= Len(buffer) THEN buffer[p] ELSE 0

\* Variant: the first "key=" anywhere in the buffer, of any length.
FindKeyAnywhere(buffer, key) ==
  LET Hits == {i \in 1..Len(buffer) :
                 IsPrefix(Append(key, Equal), SubSeq(buffer, i, Len(buffer)))}
  IN  IF Hits = {} THEN Null
      ELSE LET i == CHOOSE i \in Hits : \A j \in Hits : i <= j
               v == SelectInSeq(SubSeq(buffer, i, Len(buffer)), LAMBDA c : c = Delimiter)
           IN  SubSeq(buffer, i + Len(key) + 1,
                      IF v = 0 THEN Len(buffer) ELSE i + v - 2)

\* What is not a space or a delimiter.
SkipFrom(buffer) ==
  LET skip[p \in 1..(Len(buffer) + 1)] ==
        IF CharAt(buffer, p) \in {Space, Delimiter} THEN skip[p + 1] ELSE p
  IN  skip

\* The next delimiter, or the end.
NextFrom(buffer) ==
  LET next[p \in 1..(Len(buffer) + 1)] ==
        IF p = Len(buffer) + 1 \/ CharAt(buffer, p) = Delimiter THEN p ELSE next[p + 1]
  IN  next

\* The value that begins at p, cut to the room of the caller.
ValueAt(buffer, p) ==
  LET v == SubSeq(buffer, p, NextFrom(buffer)[p] - 1)
  IN  SubSeq(v, 1, IF Len(v) < ValueRoom THEN Len(v) ELSE ValueRoom - 1)

\* One turn of the outer loop; found is what the turns from a later place on find.
SearchTurn(buffer, key, found, p) ==
  IF p = Len(buffer) + 1 THEN Null
  ELSE LET q == SkipFrom(buffer)[p]
       IN  IF Len(buffer) + 1 - q <= Len(key) THEN Null
           ELSE IF Slice(buffer, q - 1, Len(key) + 1) = Append(key, Equal)
           THEN ValueAt(buffer, q + Len(key) + 1)
           ELSE found[NextFrom(buffer)[q]]

SearchFrom(buffer, key) ==
  LET search[p \in 1..(Len(buffer) + 1)] == SearchTurn(buffer, key, search, p)
  IN  search

FindKeyValue(buffer, key) == SearchFrom(buffer, key)[1]
====
