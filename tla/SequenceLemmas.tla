--------------------------- MODULE SequenceLemmas ---------------------------
(***************************************************************************)
(* What the operators on sequences that the models are built from return:  *)
(* the list operations of the C code append to a list, take an element out *)
(* of it, or look for the first one.                                       *)
(***************************************************************************)
EXTENDS Integers, Sequences, SequencesExt, SequenceTheorems,
        FiniteSets, FiniteSetTheorems, WellFoundedInduction, TLAPS

\* There is a least number in a set of natural numbers that is not empty.
LEMMA LeastElement ==
  ASSUME NEW T \in SUBSET Nat, T # {}
  PROVE  \E x \in T : \A y \in T : x <= y
<1> DEFINE R == {p \in Nat \X Nat : p[1] < p[2]}
<1>1. IsWellFoundedOn(R, Nat)
  BY NatLessThanWellFounded DEF OpToRel
<1>2. PICK x \in T : \A y \in T : ~(<<y, x>> \in R)
  <2> HIDE DEF R
  <2> QED BY <1>1, WFMin
<1>3. ASSUME NEW y \in T
      PROVE  x <= y
  <2>1. x \in Nat /\ y \in Nat
    OBVIOUS
  <2>2. <<y, x>> \in R <=> y < x
    BY <2>1
  <2>3. QED
    BY <1>2, <2>1, <2>2
<1>4. QED
  BY <1>2, <1>3

\* What is appended to a sequence is in it, with the elements that were.
LEMMA AppendedToSet ==
  ASSUME NEW S, NEW s \in Seq(S), NEW e \in S
  PROVE  Append(s, e) \in Seq(S) /\ ToSet(Append(s, e)) = ToSet(s) \cup {e}
<1>1. /\ Append(s, e) \in Seq(S) /\ Len(Append(s, e)) = Len(s) + 1
      /\ DOMAIN Append(s, e) = 1 .. Len(s) + 1 /\ DOMAIN s = 1 .. Len(s) /\ Len(s) \in Nat
      /\ \A i \in 1 .. Len(s) + 1 : Append(s, e)[i] = IF i = Len(s) + 1 THEN e ELSE s[i]
  OBVIOUS
<1>2. Len(s) + 1 \in 1 .. Len(s) + 1 /\ 1 .. Len(s) \subseteq 1 .. Len(s) + 1
  BY <1>1
<1>3. \A i \in 1 .. Len(s) : Append(s, e)[i] = s[i]
  BY <1>1
<1>4. \A i \in 1 .. Len(s) + 1 : i = Len(s) + 1 \/ i \in 1 .. Len(s)
  BY <1>1
<1>5. ToSet(s) = {s[i] : i \in 1 .. Len(s)}
  BY <1>1 DEF ToSet
<1>6. ToSet(Append(s, e)) = {Append(s, e)[i] : i \in 1 .. Len(s) + 1}
  BY <1>1 DEF ToSet
<1>7. QED
  BY <1>1, <1>2, <1>3, <1>4, <1>5, <1>6

\* RemoveAt takes one element out and moves those behind it up by one.
LEMMA RemoveAtElements ==
  ASSUME NEW S, NEW s \in Seq(S), NEW k \in 1 .. Len(s)
  PROVE  /\ RemoveAt(s, k) \in Seq(S)
         /\ Len(RemoveAt(s, k)) = Len(s) - 1
         /\ \A j \in 1 .. Len(s) - 1 :
               RemoveAt(s, k)[j] = IF j < k THEN s[j] ELSE s[j + 1]
<1> DEFINE before == SubSeq(s, 1, k - 1)
           after  == SubSeq(s, k + 1, Len(s))
<1>1. Len(s) \in Nat /\ k \in Int
  BY LenProperties
<1>2. /\ before \in Seq(S) /\ Len(before) = k - 1
      /\ \A j \in 1 .. k - 1 : before[j] = s[j]
  BY <1>1, SubSeqProperties
<1>3. /\ after \in Seq(S) /\ Len(after) = Len(s) - k
      /\ \A j \in 1 .. Len(s) - k : after[j] = s[k + j]
  BY <1>1, SubSeqProperties
<1> HIDE DEF before, after
<1>4. /\ before \o after \in Seq(S)
      /\ Len(before \o after) = Len(s) - 1
      /\ \A j \in 1 .. Len(s) - 1 :
            (before \o after)[j] = IF j < k THEN s[j] ELSE s[j + 1]
  <2>1. /\ before \o after \in Seq(S)
        /\ Len(before \o after) = Len(before) + Len(after)
        /\ \A j \in 1 .. Len(before) + Len(after) :
              (before \o after)[j] = IF j <= Len(before) THEN before[j]
                                    ELSE after[j - Len(before)]
    BY <1>2, <1>3, ConcatProperties
  <2>2. ASSUME NEW j \in 1 .. Len(s) - 1
        PROVE  (before \o after)[j] = IF j < k THEN s[j] ELSE s[j + 1]
    <3>1. CASE j < k
      BY <1>1, <1>2, <1>3, <2>1, <3>1
    <3>2. CASE ~(j < k)
      <4>1. (before \o after)[j] = after[j - (k - 1)]
        BY <1>1, <1>2, <1>3, <2>1, <3>2
      <4>2. after[j - (k - 1)] = s[k + (j - (k - 1))]
        BY <1>1, <1>3, <3>2
      <4>3. QED
        BY <1>1, <3>2, <4>1, <4>2
    <3>3. QED
      BY <3>1, <3>2
  <2>3. QED
    BY <1>1, <1>2, <1>3, <2>1, <2>2
<1>5. QED
  BY <1>4 DEF RemoveAt, before, after

\* RemoveFirst takes out the first element that is e, or leaves the sequence alone.
LEMMA RemoveFirstElement ==
  ASSUME NEW S, NEW s \in Seq(S), NEW e
  PROVE  \/ RemoveFirst(s, e) = s /\ \A i \in 1 .. Len(s) : s[i] # e
         \/ \E k \in 1 .. Len(s) : /\ s[k] = e /\ \A i \in 1 .. Len(s) : i < k => s[i] # e
                                   /\ RemoveFirst(s, e) = RemoveAt(s, k)
<1> DEFINE I == {i \in 1 .. Len(s) : s[i] = e}
<1>1. CASE ~\E i \in 1 .. Len(s) : s[i] = e
  BY <1>1 DEF RemoveFirst
<1>2. CASE \E i \in 1 .. Len(s) : s[i] = e
  <2>1. I \in SUBSET Nat /\ I # {} /\ Len(s) \in Nat
    BY <1>2
  <2>2. RemoveFirst(s, e) = RemoveAt(s, Min(I))
    BY <1>2 DEF RemoveFirst, SelectInSeq
  <2>3. \E x \in I : \A y \in I : x <= y
    <3> HIDE DEF I
    <3> QED
      BY <2>1, LeastElement
  <2>4. Min(I) \in I /\ \A y \in I : Min(I) <= y
    <3> HIDE DEF I
    <3> QED
      BY <2>3 DEF Min
  <2>5. \A i \in 1 .. Len(s) : i < Min(I) => s[i] # e
    BY <2>1, <2>4
  <2>6. Min(I) \in 1 .. Len(s) /\ s[Min(I)] = e
    BY <2>4
  <2>7. QED
    BY <2>2, <2>5, <2>6
<1>3. QED
  BY <1>1, <1>2

-----------------------------------------------------------------------------
(* How often an element is in a sequence.                                  *)

Places(s, e) == {i \in 1 .. Len(s) : s[i] = e}
Times(s, e)  == Cardinality(Places(s, e))

LEMMA TimesIsNatural ==
  ASSUME NEW S, NEW s \in Seq(S), NEW e
  PROVE  /\ IsFiniteSet(Places(s, e)) /\ Times(s, e) \in Nat
         /\ Times(s, e) = 0 <=> \A i \in 1 .. Len(s) : s[i] # e
<1>1. Len(s) \in Nat /\ IsFiniteSet(1 .. Len(s))
  BY FS_Interval
<1>2. IsFiniteSet(Places(s, e))
  BY <1>1, FS_Subset DEF Places
<1>3. Times(s, e) \in Nat /\ (Times(s, e) = 0 <=> Places(s, e) = {})
  BY <1>2, FS_CardinalityType, FS_EmptySet DEF Times
<1>4. QED
  BY <1>2, <1>3 DEF Places

\* What is appended is in the sequence once more, and everything else as often.
LEMMA TimesAppended ==
  ASSUME NEW S, NEW s \in Seq(S), NEW x \in S, NEW e
  PROVE  Times(Append(s, x), e) = IF x = e THEN Times(s, e) + 1 ELSE Times(s, e)
<1>1. /\ Len(Append(s, x)) = Len(s) + 1 /\ Len(s) \in Nat
      /\ \A i \in 1 .. Len(s) + 1 : Append(s, x)[i] = IF i = Len(s) + 1 THEN x ELSE s[i]
  OBVIOUS
<1>2. Places(Append(s, x), e) =
        IF x = e THEN Places(s, e) \cup {Len(s) + 1} ELSE Places(s, e)
  BY <1>1 DEF Places
<1>3. Len(s) + 1 \notin Places(s, e)
  BY <1>1 DEF Places
<1>4. IsFiniteSet(Places(s, e))
  BY TimesIsNatural
<1>5. QED
  BY <1>2, <1>3, <1>4, FS_AddElement DEF Times

\* What is taken out is in the sequence once less.
LEMMA TimesRemoved ==
  ASSUME NEW S, NEW s \in Seq(S), NEW k \in 1 .. Len(s), NEW e
  PROVE  Times(RemoveAt(s, k), e) = IF s[k] = e THEN Times(s, e) - 1 ELSE Times(s, e)
<1> DEFINE old == Places(s, e) \ {k}
           new == Places(RemoveAt(s, k), e)
           f   == [i \in old |-> IF i < k THEN i ELSE i - 1]
<1>1. Len(s) \in Nat /\ k \in Nat /\ 1 <= k /\ k <= Len(s)
  OBVIOUS
<1>2. /\ Len(RemoveAt(s, k)) = Len(s) - 1
      /\ \A j \in 1 .. Len(s) - 1 : RemoveAt(s, k)[j] = IF j < k THEN s[j] ELSE s[j + 1]
  BY RemoveAtElements
<1>3. new = {j \in 1 .. Len(s) - 1 : (IF j < k THEN s[j] ELSE s[j + 1]) = e}
  BY <1>2 DEF Places
<1>4. f \in [old -> new]
  BY <1>1, <1>3 DEF Places
<1>5. \A i, j \in old : f[i] = f[j] => i = j
  BY <1>1 DEF Places
<1>6. ASSUME NEW j \in new
      PROVE  \E i \in old : f[i] = j
  <2>1. CASE j < k
    <3>1. j \in old /\ f[j] = j
      BY <1>1, <1>3, <2>1 DEF Places
    <3>2. QED
      BY <3>1
  <2>2. CASE ~(j < k)
    <3>1. j + 1 \in old
      BY <1>1, <1>3, <2>2 DEF Places
    <3>2. f[j + 1] = j
      BY <1>1, <1>3, <2>2, <3>1
    <3>3. QED
      BY <3>1, <3>2
  <2>3. QED
    BY <2>1, <2>2
<1>7. ExistsBijection(old, new)
  <2> HIDE DEF old, new, f
  <2>1. f \in Bijection(old, new)
    BY <1>4, <1>5, <1>6 DEF Bijection, Injection, Surjection, IsInjective
  <2>2. QED
    BY <2>1 DEF ExistsBijection
<1>8. IsFiniteSet(Places(s, e)) /\ Times(s, e) \in Nat
  BY TimesIsNatural
<1>9. /\ IsFiniteSet(old)
      /\ Cardinality(old) = IF k \in Places(s, e) THEN Times(s, e) - 1 ELSE Times(s, e)
  BY <1>8, FS_RemoveElement DEF Times
<1>10. Cardinality(new) = Cardinality(old)
  <2> HIDE DEF old, new
  <2> QED
    BY <1>7, <1>9, FS_Bijection
<1>11. k \in Places(s, e) <=> s[k] = e
  BY DEF Places
<1>12. QED
  BY <1>9, <1>10, <1>11 DEF Times
=============================================================================
