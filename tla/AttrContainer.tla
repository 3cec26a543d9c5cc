---- MODULE AttrContainer ----
(***************************************************************************)
(* The attribute container, the payload format of requests, responses and  *)
(* events (app-framework/app-native-shared/attr_container.c): a buffer of  *)
(* its own length with a tag and a list of attributes, each with its own   *)
(* lengths, that is rewritten in place, compacted or reallocated when an   *)
(* attribute is set.                                                       *)
(*                                                                         *)
(* The bytes of the buffer are modelled by the attributes they spell, each *)
(* with the number of bytes it takes; lengths are the ones of the code. Of *)
(* the bytes of a value only their number and one word that stands for     *)
(* them are kept: 0 if they are all 0.                                     *)
(***************************************************************************)
EXTENDS Integers, Sequences, SequencesExt

CONSTANTS
  AttrKey,     \* the keys
  KeyLength,   \* their lengths, [AttrKey -> Nat]
  AttrValue,   \* what attributes are set to: [type : AttrType, size : Nat, word : Nat]
  TagLength,   \* the length of the tag, with its NUL
  Reserved,    \* the bytes reserved behind the tag and behind a grown list, 100
  Nothing      \* NULL, and the value of a key that is not there

TypeBoolean   == 12
TypeString    == 13
TypeByteArray == 14
AttrType == (0..7) \union {10, 11, TypeBoolean, TypeString, TypeByteArray}

ReadonlyShift == 2

\* 1 << (type & 3)
FixedSize(type) == 2 ^ (type % 4)

ASSUME AttrAssumption ==
  /\ KeyLength \in [AttrKey -> Nat \ {0}]
  /\ TagLength \in Nat \ {0} /\ Reserved \in Nat /\ Reserved >= 4
  /\ \A v \in AttrValue :
       /\ v.type \in AttrType
       /\ v.type <= TypeBoolean => v.size = FixedSize(v.type)
       /\ v.size \in Nat /\ v.size < 65536

VARIABLES
  container,  \* the container, being filled or received, or Nothing
  answer      \* the last call to set an attribute, and what it returned

attrVars == <<container, answer>>

AttrInit == container = Nothing /\ answer = Nothing

(***************************************************************************)
(* The layout: total length, tag length, tag, number, attributes.          *)
(***************************************************************************)
HeaderSize == 4 + 2 + TagLength + 2

\* Key length, key with its NUL, type, length of the value if it varies, value.
AttrSize(k, v) ==
  2 + KeyLength[k] + 1 + 1
    + (CASE v.type <= TypeBoolean   -> FixedSize(v.type)
         [] v.type = TypeString     -> 2 + v.size
         [] v.type = TypeByteArray  -> 4 + v.size)

AttrsSize(attrs) ==
  LET sum[n \in 0..Len(attrs)] ==
        IF n = 0 THEN 0 ELSE sum[n - 1] + AttrSize(attrs[n].key, attrs[n].value)
  IN  sum[Len(attrs)]
AttrEnd(c)  == HeaderSize + AttrsSize(c.attrs)
RoomLeft(c) == c.total - AttrEnd(c)

\* The place of a key in the list, 0 when it is not there.
FindAttr(c, k) == SelectInSeq(c.attrs, LAMBDA a : a.key = k)

(***************************************************************************)
(* Reading.                                                                *)
(***************************************************************************)
GetAttr(c, k) ==
  LET i == FindAttr(c, k) IN IF i = 0 THEN Nothing ELSE c.attrs[i].value

\* attr_container_get_as_X in the runtime, X being width bytes wide: the word
\* that is read. A missing attribute reads as 0, and so does a number of more
\* bytes than X has, which bh_memcpy_s refuses to copy.
GetAs(c, k, width) ==
  LET v == GetAttr(c, k)
  IN  IF v = Nothing \/ (v.type <= TypeBoolean /\ v.size > width) THEN 0
      ELSE v.word

(***************************************************************************)
(* Writing.                                                                *)
(***************************************************************************)
\* attr_container_create
CreateContainer ==
  /\ container = Nothing
  /\ container' = [flags |-> 0, total |-> 4 + 2 + TagLength + Reserved, attrs |-> <<>>]
  /\ UNCHANGED answer

DestroyContainer ==
  /\ container # Nothing
  /\ container' = Nothing
  /\ UNCHANGED answer

\* check_set_attr: flags & ATTR_CONT_READONLY_SHIFT, bit 1 of the flags.
MaySet(c) == (c.flags \div 2) % 2 = 0

Moved(c, i, a)  == [c EXCEPT !.attrs = Append(RemoveAt(@, i), a)]
Appended(c, a)  == [c EXCEPT !.attrs = Append(@, a)]
Grown(c, size)  == [c EXCEPT !.total = @ + size + Reserved]

\* attr_container_set_attr on container c: the container afterwards. grows says
\* whether there is memory for a longer one. Nothing when the call returns false.
\* Variant: an attribute of another size is appended and the old one stays.
AttrSetTwice(c, k, v, grows) ==
  LET a == [key |-> k, value |-> v]
      size == AttrSize(k, v)
      i == FindAttr(c, k)
  IN  IF i # 0 /\ AttrSize(k, c.attrs[i].value) = size THEN [c EXCEPT !.attrs[i] = a]
      ELSE IF RoomLeft(c) >= size THEN Appended(c, a)
      ELSE IF grows THEN Appended(Grown(c, size), a)
      ELSE Nothing

AttrSet(c, k, v, grows) ==
  LET a == [key |-> k, value |-> v]
      size == AttrSize(k, v)
      i == FindAttr(c, k)
      hole == IF i = 0 THEN 0 ELSE AttrSize(k, c.attrs[i].value)
      Stored(d) == IF i = 0 THEN Appended(d, a) ELSE Moved(d, i, a)
  IN  IF hole = size THEN [c EXCEPT !.attrs[i] = a]
      ELSE IF hole + RoomLeft(c) >= size THEN Stored(c)
      ELSE IF grows THEN Stored(Grown(c, size))
      ELSE Nothing

\* The call refused as the container is readonly or the first buffer is not
\* there, and the call made.
SetRefused(k, v) ==
  /\ container # Nothing
  /\ answer' = [key |-> k, value |-> v, ok |-> FALSE]
  /\ UNCHANGED container

SetAttr(k, v) ==
  /\ container # Nothing
  /\ MaySet(container)
  /\ \E grows \in BOOLEAN :
       LET c == AttrSet(container, k, v, grows)
       IN  /\ container' = IF c = Nothing THEN container ELSE c
           /\ answer' = [key |-> k, value |-> v, ok |-> c # Nothing]

\* attr_container_serialize, the whole buffer marked as readonly, and the
\* receiver that uses the copy as its container.
Serialized(c) == [c EXCEPT !.flags = 2 ^ ReadonlyShift]
IsConstant(c) == (c.flags \div 2 ^ ReadonlyShift) % 2 = 1

Deliver ==
  /\ container # Nothing
  /\ container' = Serialized(container)
  /\ UNCHANGED answer

AttrNext ==
  \/ CreateContainer \/ DestroyContainer \/ Deliver
  \/ \E k \in AttrKey, v \in AttrValue : SetAttr(k, v) \/ SetRefused(k, v)

AttrSpec == AttrInit /\ [][AttrNext]_attrVars

(***************************************************************************)
(* Properties.                                                             *)
(***************************************************************************)
AttrTypeOK ==
  container # Nothing =>
    /\ container.flags \in 0..255 /\ container.total \in Nat
    /\ \A i \in 1..Len(container.attrs) :
         container.attrs[i] \in [key : AttrKey, value : AttrValue]

\* The container implements a map: reading any key in the width of its value
\* gives the value of the last call that returned true for it, whatever other
\* keys were set, replaced or moved since, and a call that returns false leaves
\* every entry as it was (attr_container.c:348 to :431).
Contents(c) ==
  [k \in AttrKey |->
     LET v == IF c = Nothing THEN Nothing ELSE GetAttr(c, k)
     IN  IF v = Nothing THEN Nothing
         ELSE [v EXCEPT !.word = GetAs(c, k, v.size)]]

Map == INSTANCE KeyValueMap WITH
  MapKey <- AttrKey, MapValue <- AttrValue, NoValue <- Nothing,
  map <- Contents(container), reply <- answer

ContainerIsMap == Map!MapSpec
====
