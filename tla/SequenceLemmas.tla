--------------------------- MODULE SequenceLemmas ---------------------------
(* What the operators on sequences do to a sequence without repetitions: a  *)
(* queue each of whose entries stands in it once.                           *)
EXTENDS Integers, Sequences, FiniteSets, SequencesExt, SequenceTheorems,
        WellFoundedInduction, TLAPS

(* A non-empty set of numbers has a least element.                          *)
LEMMA LeastNumber ==
    ASSUME NEW N \in SUBSET Nat, N # {}
    PROVE  \E n \in N : \A m \in N : n <= m
<1>1. PICK n \in N : \A m \in N : <<m, n>> \notin OpToRel(<, Nat)
  BY WFMin, NatLessThanWellFounded
<1>2. \A m \in N : m \in Nat /\ ~(m < n)
  BY <1>1 DEF OpToRel
<1>3. n \in Nat /\ \A m \in N : n <= m
  BY <1>2
<1> QED
  BY <1>3

(* The entries of a sequence are the members of its range.                  *)
LEMMA InRange ==
    ASSUME NEW S, NEW s \in Seq(S)
    PROVE  /\ Range(s) = {s[i] : i \in 1 .. Len(s)} /\ Range(s) \subseteq S
           /\ Len(s) \in Nat /\ DOMAIN s = 1 .. Len(s)
           /\ \A i \in 1 .. Len(s) : s[i] \in Range(s) /\ s[i] \in S
           /\ s = << >> <=> Range(s) = {}
<1>1. Len(s) \in Nat /\ DOMAIN s = 1 .. Len(s) /\ \A i \in 1 .. Len(s) : s[i] \in S
  BY LenProperties, ElementOfSeq
<1>2. Range(s) = {s[i] : i \in 1 .. Len(s)}
  BY RangeEquality
<1>3. s = << >> <=> Len(s) = 0
  BY EmptySeq
<1>4. Len(s) # 0 => s[1] \in Range(s)
  BY <1>1, <1>2
<1> QED
  BY <1>1, <1>2, <1>3, <1>4

(* Leaving out one entry: those behind it move up.                          *)
LEMMA EntriesLeft ==
    ASSUME NEW S, NEW s \in Seq(S), NEW k \in 1 .. Len(s)
    PROVE  /\ RemoveAt(s, k) \in Seq(S) /\ Len(RemoveAt(s, k)) = Len(s) - 1
           /\ \A i \in 1 .. Len(s) - 1 : RemoveAt(s, k)[i] = s[IF i < k THEN i ELSE i + 1]
<1> DEFINE r == RemoveAt(s, k)
           at(i) == IF i < k THEN i ELSE i + 1
<1>1. Len(s) \in Nat /\ DOMAIN s = 1 .. Len(s) /\ \A i \in 1 .. Len(s) : s[i] \in S
  BY InRange
<1>2. /\ r \in Seq(S) /\ Len(r) = Len(s) - 1
      /\ \A i \in 1 .. Len(s) - 1 : r[i] = s[at(i)]
  <2>0. PICK m \in Int : m = k + 1
    BY <1>1
  <2> DEFINE b == SubSeq(s, 1, k - 1)
             a == SubSeq(s, m, Len(s))
  <2>1. /\ b \in Seq(S) /\ Len(b) = k - 1
        /\ \A i \in 1 .. k - 1 : b[i] = s[i]
    BY <1>1, SubSeqProperties
  <2>2. /\ a \in Seq(S) /\ Len(a) = Len(s) - k
        /\ \A i \in 1 .. Len(s) - k : a[i] = s[i + k]
    <3>1. \A i \in m .. Len(s) : s[i] \in S
      BY <1>1, <2>0
    <3>2. /\ a \in Seq(S) /\ Len(a) = IF m <= Len(s) THEN Len(s) - m + 1 ELSE 0
          /\ \A i \in 1 .. Len(s) - m + 1 : a[i] = s[m + i - 1]
      BY <1>1, <3>1, SubSeqProperties
    <3> HIDE DEF a
    <3>3. /\ Len(s) - m + 1 = Len(s) - k
          /\ \A i \in 1 .. Len(s) - k : m + i - 1 = i + k
      BY <1>1, <2>0
    <3>4. /\ m <= Len(s) => Len(s) - m + 1 = Len(s) - k
          /\ ~(m <= Len(s)) => Len(s) - k = 0
      <4>1. k \in Int /\ Len(s) \in Int /\ k <= Len(s)
        BY <1>1
      <4> QED
        BY <2>0, <4>1
    <3>5. Len(a) = Len(s) - k
      BY <3>2, <3>4
    <3> QED
      BY <3>2, <3>3, <3>5
  <2>3. r = b \o a
    BY <2>0 DEF RemoveAt
  <2> HIDE DEF a, b, r
  <2>4. /\ r \in Seq(S) /\ Len(r) = Len(s) - 1
        /\ \A i \in 1 .. Len(s) - 1 :
              r[i] = IF i <= k - 1 THEN b[i] ELSE a[i - (k - 1)]
    <3>1. /\ b \o a \in Seq(S) /\ Len(b \o a) = Len(b) + Len(a)
          /\ \A i \in 1 .. Len(b) + Len(a) :
                (b \o a)[i] = IF i <= Len(b) THEN b[i] ELSE a[i - Len(b)]
      BY <2>1, <2>2, ConcatProperties
    <3>2. Len(b) + Len(a) = Len(s) - 1
      BY <1>1, <2>1, <2>2
    <3> QED
      BY <2>1, <2>3, <3>1, <3>2
  <2>5. ASSUME NEW i \in 1 .. Len(s) - 1 PROVE r[i] = s[at(i)]
    <3>1. CASE i < k
      BY <1>1, <2>1, <2>4, <3>1
    <3>2. CASE i >= k
      <4>1. i - (k - 1) \in 1 .. Len(s) - k /\ (i - (k - 1)) + k = i + 1
        BY <1>1, <3>2
      <4>2. a[i - (k - 1)] = s[i + 1]
        BY <2>2, <4>1
      <4> QED
        BY <1>1, <2>4, <3>2, <4>2
    <3> QED
      BY <1>1, <3>1, <3>2
  <2> QED
    BY <2>4, <2>5
<1> QED
  BY <1>2

LEMMA RemovedAt ==
    ASSUME NEW S, NEW s \in Seq(S), IsInjective(s), NEW k \in 1 .. Len(s)
    PROVE  /\ RemoveAt(s, k) \in Seq(S) /\ IsInjective(RemoveAt(s, k))
           /\ Range(RemoveAt(s, k)) = Range(s) \ {s[k]}
           /\ Len(RemoveAt(s, k)) = Len(s) - 1
<1> DEFINE r == RemoveAt(s, k)
           at(i) == IF i < k THEN i ELSE i + 1
<1>1. Len(s) \in Nat /\ DOMAIN s = 1 .. Len(s) /\ \A i \in 1 .. Len(s) : s[i] \in S
  BY InRange
<1>2. /\ r \in Seq(S) /\ Len(r) = Len(s) - 1
      /\ \A i \in 1 .. Len(s) - 1 : r[i] = s[at(i)]
  BY EntriesLeft
<1> HIDE DEF r
<1>3. DOMAIN r = 1 .. Len(s) - 1 /\ Range(r) = {r[i] : i \in 1 .. Len(s) - 1}
  BY <1>2, InRange
<1>4. \A i \in 1 .. Len(s) - 1 : at(i) \in 1 .. Len(s) /\ at(i) # k
  BY <1>1
<1>5. \A i, j \in 1 .. Len(s) - 1 : at(i) = at(j) => i = j
  BY <1>1
<1>6. \A i, j \in 1 .. Len(s) : s[i] = s[j] => i = j
  BY <1>1 DEF IsInjective
<1>7. IsInjective(r)
  BY SMTT(30), <1>2, <1>3, <1>4, <1>5, <1>6 DEF IsInjective
<1>8. Range(r) = Range(s) \ {s[k]}
  <2>1. ASSUME NEW x \in Range(s), x # s[k] PROVE x \in Range(r)
    <3>1. PICK i \in 1 .. Len(s) : x = s[i]
      BY InRange
    <3>2. i # k
      BY <2>1, <3>1
    <3>3. PICK j \in 1 .. Len(s) - 1 : at(j) = i
      <4>1. CASE i < k
        BY <1>1, <4>1
      <4>2. CASE i > k
        <5>1. i - 1 \in 1 .. Len(s) - 1 /\ at(i - 1) = i
          BY <1>1, <4>2
        <5> QED
          BY <5>1
      <4> QED
        BY <1>1, <3>2, <4>1, <4>2
    <3> QED
      BY <1>2, <1>3, <3>1, <3>3
  <2>2. ASSUME NEW x \in Range(r) PROVE x \in Range(s) /\ x # s[k]
    <3>1. PICK i \in 1 .. Len(s) - 1 : x = r[i]
      BY <1>3
    <3>2. x = s[at(i)] /\ at(i) \in 1 .. Len(s) /\ at(i) # k
      BY <1>2, <1>4, <3>1
    <3> QED
      BY <1>6, <3>2, InRange
  <2> QED
    BY <2>1, <2>2
<1> QED
  BY <1>2, <1>7, <1>8 DEF r

(* Taking the first or the last entry.                                      *)
LEMMA TailTaken ==
    ASSUME NEW S, NEW s \in Seq(S), IsInjective(s), s # << >>
    PROVE  /\ Head(s) \in Range(s) /\ Head(s) \in S
           /\ Tail(s) \in Seq(S) /\ IsInjective(Tail(s))
           /\ Range(Tail(s)) = Range(s) \ {Head(s)} /\ Len(Tail(s)) = Len(s) - 1
<1>1. Len(s) \in Nat \ {0} /\ 1 \in 1 .. Len(s) /\ s[1] \in Range(s) /\ s[1] \in S
  BY EmptySeq, InRange
<1>2. Head(s) = s[1]
  OBVIOUS
<1>3. Tail(s) = RemoveAt(s, 1)
  <2>1. SubSeq(s, 1, 0) = << >>
    BY SubSeqEmpty
  <2>2. Tail(s) = SubSeq(s, 2, Len(s)) /\ Tail(s) \in Seq(S)
    BY TailIsSubSeq, HeadTailProperties
  <2> QED
    BY <2>1, <2>2, ConcatEmptySeq DEF RemoveAt
<1>4. /\ RemoveAt(s, 1) \in Seq(S) /\ IsInjective(RemoveAt(s, 1))
      /\ Range(RemoveAt(s, 1)) = Range(s) \ {s[1]} /\ Len(RemoveAt(s, 1)) = Len(s) - 1
  BY <1>1, RemovedAt
<1> QED
  BY <1>1, <1>2, <1>3, <1>4

LEMMA FrontTaken ==
    ASSUME NEW S, NEW s \in Seq(S), IsInjective(s), s # << >>
    PROVE  /\ Last(s) \in Range(s) /\ Last(s) \in S
           /\ Front(s) \in Seq(S) /\ IsInjective(Front(s))
           /\ Range(Front(s)) = Range(s) \ {Last(s)} /\ Len(Front(s)) = Len(s) - 1
<1>1. /\ Len(s) \in Nat \ {0} /\ Len(s) \in 1 .. Len(s)
      /\ Last(s) \in Range(s) /\ Last(s) \in S
  BY EmptySeq, InRange DEF Last
<1>2. Front(s) = RemoveAt(s, Len(s))
  <2>1. SubSeq(s, Len(s) + 1, Len(s)) = << >>
    BY <1>1, SubSeqEmpty
  <2>2. SubSeq(s, 1, Len(s) - 1) \in Seq(S)
    BY <1>1, InRange, SubSeqProperties
  <2> QED
    BY <2>1, <2>2, ConcatEmptySeq DEF RemoveAt, Front
<1>3. /\ RemoveAt(s, Len(s)) \in Seq(S) /\ IsInjective(RemoveAt(s, Len(s)))
      /\ Range(RemoveAt(s, Len(s))) = Range(s) \ {s[Len(s)]}
      /\ Len(RemoveAt(s, Len(s))) = Len(s) - 1
  BY <1>1, RemovedAt
<1> QED
  BY <1>1, <1>2, <1>3 DEF Last

(* Removing an entry wherever it stands.                                    *)
LEMMA RemovedFirst ==
    ASSUME NEW S, NEW s \in Seq(S), IsInjective(s), NEW e
    PROVE  /\ RemoveFirst(s, e) \in Seq(S) /\ IsInjective(RemoveFirst(s, e))
           /\ Range(RemoveFirst(s, e)) = Range(s) \ {e}
           /\ e \notin Range(s) => RemoveFirst(s, e) = s
           /\ e \in Range(s) => Len(RemoveFirst(s, e)) = Len(s) - 1
<1>1. CASE e \notin Range(s)
  <2>1. ~\E i \in 1 .. Len(s) : s[i] = e
    BY <1>1, InRange
  <2>2. RemoveFirst(s, e) = s
    BY <2>1 DEF RemoveFirst
  <2> QED
    BY <1>1, <2>2
<1>2. CASE e \in Range(s)
  <2> DEFINE I == {i \in 1 .. Len(s) : s[i] = e}
  <2>1. I # {} /\ I \in SUBSET Nat
    BY <1>2, InRange
  <2>2. Min(I) \in I
    BY <2>1, LeastNumber DEF Min
  <2>3. SelectInSeq(s, LAMBDA v : v = e) = Min(I)
    BY <2>1 DEF SelectInSeq
  <2>4. RemoveFirst(s, e) = RemoveAt(s, Min(I))
    BY <2>1, <2>3 DEF RemoveFirst
  <2>5. PICK k \in 1 .. Len(s) : k = Min(I) /\ s[k] = e
    BY <2>2
  <2>6. /\ RemoveAt(s, k) \in Seq(S) /\ IsInjective(RemoveAt(s, k))
        /\ Range(RemoveAt(s, k)) = Range(s) \ {s[k]} /\ Len(RemoveAt(s, k)) = Len(s) - 1
    BY RemovedAt
  <2>7. RemoveFirst(s, e) = RemoveAt(s, k)
    BY <2>4, <2>5
  <2> QED
    BY <1>2, <2>5, <2>6, <2>7
<1> QED
  BY <1>1, <1>2

(* Adding an entry that was not there, at the end or in front.              *)
LEMMA Appended ==
    ASSUME NEW S, NEW s \in Seq(S), IsInjective(s), NEW e \in S, e \notin Range(s)
    PROVE  /\ Append(s, e) \in Seq(S) /\ IsInjective(Append(s, e))
           /\ Range(Append(s, e)) = Range(s) \cup {e}
           /\ Len(Append(s, e)) = Len(s) + 1
<1> DEFINE a == Append(s, e)
<1>1. /\ a \in Seq(S) /\ Len(a) = Len(s) + 1 /\ a[Len(s) + 1] = e
      /\ \A i \in 1 .. Len(s) : a[i] = s[i]
  BY AppendProperties
<1> HIDE DEF a
<1>2. /\ Len(s) \in Nat /\ DOMAIN s = 1 .. Len(s) /\ DOMAIN a = 1 .. Len(s) + 1
      /\ Range(a) = {a[i] : i \in 1 .. Len(s) + 1}
      /\ Range(s) = {s[i] : i \in 1 .. Len(s)}
  BY <1>1, InRange
<1>3. IsInjective(a)
  BY <1>1, <1>2 DEF IsInjective
<1>4. Range(a) = Range(s) \cup {e}
  BY <1>1, <1>2
<1> QED
  BY <1>1, <1>3, <1>4 DEF a

LEMMA Prepended ==
    ASSUME NEW S, NEW s \in Seq(S), IsInjective(s), NEW e \in S, e \notin Range(s)
    PROVE  /\ <<e>> \o s \in Seq(S) /\ IsInjective(<<e>> \o s)
           /\ Range(<<e>> \o s) = Range(s) \cup {e}
           /\ Len(<<e>> \o s) = Len(s) + 1
<1> DEFINE a == <<e>> \o s
<1>1. /\ a \in Seq(S) /\ Len(a) = Len(s) + 1 /\ a[1] = e /\ Len(s) \in Nat
      /\ \A i \in 1 .. Len(s) + 1 : i # 1 => a[i] = s[i - 1]
  <2>1. <<e>> \in Seq(S) /\ Len(<<e>>) = 1 /\ <<e>>[1] = e /\ Len(s) \in Nat
    BY LenProperties
  <2> QED
    BY <2>1, ConcatProperties
<1> HIDE DEF a
<1>2. /\ DOMAIN s = 1 .. Len(s) /\ DOMAIN a = 1 .. Len(s) + 1
      /\ Range(a) = {a[i] : i \in 1 .. Len(s) + 1}
      /\ Range(s) = {s[i] : i \in 1 .. Len(s)}
  BY <1>1, InRange
<1>3. \A i, j \in 1 .. Len(s) : s[i] = s[j] => i = j
  BY <1>2 DEF IsInjective
<1>4. IsInjective(a)
  <2>1. \A i \in 2 .. Len(s) + 1 : i - 1 \in 1 .. Len(s) /\ a[i] = s[i - 1] /\ a[i] # e
    BY <1>1, <1>2
  <2> QED
    BY <1>1, <1>2, <1>3, <2>1 DEF IsInjective
<1>5. Range(a) = Range(s) \cup {e}
  <2>1. ASSUME NEW i \in 1 .. Len(s) PROVE s[i] \in Range(a)
    <3>1. i + 1 \in 1 .. Len(s) + 1 /\ a[i + 1] = s[i]
      BY <1>1
    <3> QED
      BY <1>2, <3>1
  <2>2. ASSUME NEW i \in 1 .. Len(s) + 1, i # 1 PROVE a[i] \in Range(s)
    <3>1. i - 1 \in 1 .. Len(s) /\ a[i] = s[i - 1]
      BY <1>1, <2>2
    <3> QED
      BY <1>2, <3>1
  <2>3. e \in Range(a)
    BY <1>1, <1>2
  <2> QED
    BY <1>1, <1>2, <2>1, <2>2, <2>3
<1> QED
  BY <1>1, <1>4, <1>5 DEF a

-----------------------------------------------------------------------------
(* The order of a queue.                                                    *)

(* In r nobody stands before an entry of s who did not in s.                *)
KeepsOrder(s, r) ==
    \A a, b : /\ b \in Range(s)
              /\ \E i, j \in DOMAIN r : i < j /\ r[i] = a /\ r[j] = b
              => \E i, j \in DOMAIN s : i < j /\ s[i] = a /\ s[j] = b

LEMMA OrderRemoved ==
    ASSUME NEW S, NEW s \in Seq(S), NEW k \in 1 .. Len(s)
    PROVE  KeepsOrder(s, RemoveAt(s, k))
<1> DEFINE r == RemoveAt(s, k)
           at(i) == IF i < k THEN i ELSE i + 1
<1>1. /\ r \in Seq(S) /\ Len(r) = Len(s) - 1
      /\ \A i \in 1 .. Len(s) - 1 : r[i] = s[at(i)]
  BY EntriesLeft
<1> HIDE DEF r
<1>2. DOMAIN r = 1 .. Len(s) - 1 /\ DOMAIN s = 1 .. Len(s) /\ Len(s) \in Nat
  BY <1>1, InRange
<1>3. \A i, j \in 1 .. Len(s) - 1 :
         i < j => at(i) \in 1 .. Len(s) /\ at(j) \in 1 .. Len(s) /\ at(i) < at(j)
  BY <1>2
<1>4. ASSUME NEW i \in DOMAIN r, NEW j \in DOMAIN r, i < j
      PROVE  \E m, n \in DOMAIN s : m < n /\ s[m] = r[i] /\ s[n] = r[j]
  <2> HIDE DEF at
  <2> QED
    BY <1>1, <1>2, <1>3, <1>4
<1> QED
  BY <1>4 DEF KeepsOrder, r

LEMMA OrderTail ==
    ASSUME NEW S, NEW s \in Seq(S), s # << >>
    PROVE  KeepsOrder(s, Tail(s))
<1>1. 1 \in 1 .. Len(s)
  BY EmptySeq, LenProperties
<1>2. Tail(s) = RemoveAt(s, 1)
  <2>1. SubSeq(s, 1, 0) = << >>
    BY SubSeqEmpty
  <2>2. Tail(s) = SubSeq(s, 2, Len(s)) /\ Tail(s) \in Seq(S)
    BY TailIsSubSeq, HeadTailProperties
  <2> QED
    BY <2>1, <2>2, ConcatEmptySeq DEF RemoveAt
<1> QED
  BY <1>1, <1>2, OrderRemoved

LEMMA OrderAppended ==
    ASSUME NEW S, NEW s \in Seq(S), NEW e \in S, e \notin Range(s)
    PROVE  KeepsOrder(s, Append(s, e))
<1> DEFINE r == Append(s, e)
<1>1. /\ r \in Seq(S) /\ Len(r) = Len(s) + 1 /\ r[Len(s) + 1] = e
      /\ \A i \in 1 .. Len(s) : r[i] = s[i]
  BY AppendProperties
<1> HIDE DEF r
<1>2. DOMAIN r = 1 .. Len(s) + 1 /\ DOMAIN s = 1 .. Len(s) /\ Len(s) \in Nat
  BY <1>1, InRange
<1>3. ASSUME NEW i \in DOMAIN r, NEW j \in DOMAIN r, i < j, r[j] \in Range(s)
      PROVE  \E m, n \in DOMAIN s : m < n /\ s[m] = r[i] /\ s[n] = r[j]
  <2>1. j # Len(s) + 1
    BY <1>1, <1>3
  <2>2. i \in 1 .. Len(s) /\ j \in 1 .. Len(s)
    BY <1>2, <1>3, <2>1
  <2> QED
    BY <1>1, <1>2, <1>3, <2>2
<1> QED
  BY <1>3 DEF KeepsOrder, r
=============================================================================
