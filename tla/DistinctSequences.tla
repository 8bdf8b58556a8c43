------------------------- MODULE DistinctSequences -------------------------
(***************************************************************************)
(* Lemmas about sequences without repetition: what Append, \o, Tail, an    *)
(* insertion, a removal and the orders of a finite set do to their         *)
(* elements.                                                               *)
(***************************************************************************)
EXTENDS Integers, SequencesExt, SequenceTheorems, FiniteSetTheorems, FunctionTheorems, TLAPS

Distinct(s) == \A i, k \in DOMAIN s : s[i] = s[k] => i = k

LEMMA RangeIn ==
  ASSUME NEW T, NEW s \in Seq(T)
  PROVE  ToSet(s) \subseteq T
BY LenProperties, ElementOfSeq DEF ToSet

\* An order SetToSeqs picks for a finite set lists each element once.
LEMMA OrderOfSet ==
  ASSUME NEW S, IsFiniteSet(S), NEW s \in SetToSeqs(S)
  PROVE  s \in Seq(S) /\ ToSet(s) = S /\ Distinct(s)
<1> DEFINE n == Cardinality(S)
<1>1. n \in Nat
  BY FS_CardinalityType
<1>2. s \in [1..n -> S] /\ \A i, k \in 1..n : i # k => s[i] # s[k]
  BY DEF SetToSeqs
<1>3. s \in Injection(1..n, S)
  BY <1>2, Fun_IsInj
<1>4. Cardinality(1..n) = n
  BY <1>1, FS_Interval
<1>5. s \in Surjection(1..n, S)
  BY <1>3, <1>4, FS_Injection
<1>6. \A x \in S : \E i \in 1..n : s[i] = x
  BY <1>5 DEF Surjection
<1>7. s \in Seq(S)
  BY <1>1, <1>2, SeqDef
<1> QED
  BY <1>2, <1>6, <1>7 DEF ToSet, Distinct

LEMMA AppendElements ==
  ASSUME NEW T, NEW s \in Seq(T), NEW x \in T
  PROVE  ToSet(Append(s, x)) = ToSet(s) \cup {x}
<1> DEFINE t == Append(s, x)
<1>1. /\ t \in Seq(T) /\ Len(t) = Len(s) + 1
      /\ \A i \in 1..Len(s) : t[i] = s[i]
      /\ t[Len(s) + 1] = x
  BY AppendProperties
<1>2. Len(s) \in Nat /\ DOMAIN s = 1..Len(s) /\ DOMAIN t = 1..(Len(s) + 1)
  BY <1>1, LenProperties
<1> HIDE DEF t
<1>3. ASSUME NEW y \in ToSet(t) PROVE y \in ToSet(s) \cup {x}
  BY <1>1, <1>2, <1>3 DEF ToSet
<1>4. ToSet(s) \subseteq ToSet(t) /\ x \in ToSet(t)
  BY <1>1, <1>2 DEF ToSet
<1> QED
  BY <1>3, <1>4 DEF t

LEMMA AppendDistinct ==
  ASSUME NEW T, NEW s \in Seq(T), NEW x \in T, Distinct(s), x \notin ToSet(s)
  PROVE  /\ Append(s, x) \in Seq(T)
         /\ ToSet(Append(s, x)) = ToSet(s) \cup {x}
         /\ Distinct(Append(s, x))
<1> DEFINE t == Append(s, x)
<1>1. /\ t \in Seq(T) /\ Len(t) = Len(s) + 1
      /\ \A i \in 1..Len(s) : t[i] = s[i]
      /\ t[Len(s) + 1] = x
  BY AppendProperties
<1>2. Len(s) \in Nat /\ DOMAIN s = 1..Len(s) /\ DOMAIN t = 1..(Len(s) + 1)
  BY <1>1, LenProperties
<1> HIDE DEF t
<1>3. ToSet(t) = ToSet(s) \cup {x}
  BY AppendElements DEF t
<1>4. Distinct(t)
  BY <1>1, <1>2 DEF Distinct, ToSet
<1> QED
  BY <1>1, <1>3, <1>4 DEF t

LEMMA ConcatDistinct ==
  ASSUME NEW T, NEW s \in Seq(T), NEW u \in Seq(T),
         Distinct(s), Distinct(u), ToSet(s) \cap ToSet(u) = {}
  PROVE  /\ s \o u \in Seq(T)
         /\ ToSet(s \o u) = ToSet(s) \cup ToSet(u)
         /\ Distinct(s \o u)
<1> DEFINE t == s \o u
<1>1. /\ t \in Seq(T) /\ Len(t) = Len(s) + Len(u)
      /\ \A i \in 1..(Len(s) + Len(u)) : t[i] = IF i <= Len(s) THEN s[i] ELSE u[i - Len(s)]
  BY ConcatProperties
<1>2. /\ Len(s) \in Nat /\ Len(u) \in Nat
      /\ DOMAIN s = 1..Len(s) /\ DOMAIN u = 1..Len(u)
      /\ DOMAIN t = 1..(Len(s) + Len(u))
  BY <1>1, LenProperties
<1> HIDE DEF t
<1>3. ToSet(t) \subseteq ToSet(s) \cup ToSet(u)
  <2> SUFFICES ASSUME NEW i \in 1..(Len(s) + Len(u)) PROVE t[i] \in ToSet(s) \cup ToSet(u)
    BY <1>2 DEF ToSet
  <2>1. CASE i <= Len(s)
    <3>1. i \in DOMAIN s /\ t[i] = s[i]
      BY <1>1, <1>2, <2>1
    <3> QED
      BY <3>1 DEF ToSet
  <2>2. CASE i > Len(s)
    <3>1. i - Len(s) \in 1..Len(u) /\ t[i] = u[i - Len(s)]
      BY <1>1, <1>2, <2>2
    <3> QED
      BY <1>2, <3>1 DEF ToSet
  <2> QED
    BY <1>2, <2>1, <2>2
<1>4. ToSet(s) \subseteq ToSet(t)
  BY <1>1, <1>2 DEF ToSet
<1>5. ToSet(u) \subseteq ToSet(t)
  <2> SUFFICES ASSUME NEW i \in 1..Len(u) PROVE u[i] \in ToSet(t)
    BY <1>2 DEF ToSet
  <2>1. i + Len(s) \in 1..(Len(s) + Len(u)) /\ ~(i + Len(s) <= Len(s))
    BY <1>2
  <2>2. i + Len(s) \in DOMAIN t /\ t[i + Len(s)] = u[i]
    BY <1>1, <1>2, <2>1
  <2> QED
    BY <2>2 DEF ToSet
<1>6. Distinct(t)
  <2> SUFFICES ASSUME NEW i \in DOMAIN t, NEW k \in DOMAIN t, t[i] = t[k] PROVE i = k
    BY DEF Distinct
  <2>1. CASE i <= Len(s) /\ k <= Len(s)
    BY <1>1, <1>2, <2>1 DEF Distinct
  <2>2. CASE i > Len(s) /\ k > Len(s)
    <3>1. i - Len(s) \in DOMAIN u /\ k - Len(s) \in DOMAIN u /\ u[i - Len(s)] = u[k - Len(s)]
      BY <1>1, <1>2, <2>2
    <3>2. i - Len(s) = k - Len(s)
      BY <3>1 DEF Distinct
    <3> QED
      BY <1>2, <3>2
  <2>3. CASE i <= Len(s) /\ k > Len(s)
    <3>1. t[i] \in ToSet(s)
      BY <1>1, <1>2, <2>3 DEF ToSet
    <3>2. t[k] = u[k - Len(s)] /\ k - Len(s) \in DOMAIN u
      BY <1>1, <1>2, <2>3
    <3> QED
      BY <3>1, <3>2 DEF ToSet
  <2>4. CASE i > Len(s) /\ k <= Len(s)
    <3>1. t[k] \in ToSet(s)
      BY <1>1, <1>2, <2>4 DEF ToSet
    <3>2. t[i] = u[i - Len(s)] /\ i - Len(s) \in DOMAIN u
      BY <1>1, <1>2, <2>4
    <3> QED
      BY <3>1, <3>2 DEF ToSet
  <2> QED
    BY <1>2, <2>1, <2>2, <2>3, <2>4
<1> QED
  BY <1>1, <1>3, <1>4, <1>5, <1>6 DEF t

LEMMA TailDistinct ==
  ASSUME NEW T, NEW s \in Seq(T), s # <<>>, Distinct(s)
  PROVE  /\ Head(s) \in T /\ Head(s) \in ToSet(s)
         /\ Tail(s) \in Seq(T)
         /\ ToSet(Tail(s)) = ToSet(s) \ {Head(s)}
         /\ Distinct(Tail(s))
<1> DEFINE t == Tail(s)
<1>1. /\ Head(s) \in T /\ t \in Seq(T) /\ Len(t) = Len(s) - 1
      /\ \A i \in 1..Len(t) : t[i] = s[i + 1]
  BY HeadTailProperties
<1>2. /\ Len(s) \in Nat \ {0} /\ DOMAIN s = 1..Len(s) /\ DOMAIN t = 1..(Len(s) - 1)
      /\ Head(s) = s[1]
  BY <1>1, LenProperties, EmptySeq
<1> HIDE DEF t
<1>3. \A i \in 2..Len(s) : i - 1 \in 1..Len(t) /\ t[i - 1] = s[i]
  BY <1>1, <1>2
<1>4. ToSet(s) \ {Head(s)} \subseteq ToSet(t)
  <2> SUFFICES ASSUME NEW i \in 1..Len(s), s[i] # s[1] PROVE s[i] \in ToSet(t)
    BY <1>2 DEF ToSet
  <2>1. i - 1 \in DOMAIN t /\ t[i - 1] = s[i]
    BY <1>1, <1>2, <1>3
  <2> QED
    BY <2>1 DEF ToSet
<1>5. ToSet(t) \subseteq ToSet(s) \ {Head(s)}
  <2> SUFFICES ASSUME NEW i \in 1..Len(t) PROVE t[i] \in ToSet(s) \ {Head(s)}
    BY <1>1, <1>2 DEF ToSet
  <2>1. i + 1 \in DOMAIN s /\ i + 1 # 1 /\ t[i] = s[i + 1] /\ 1 \in DOMAIN s
    BY <1>1, <1>2
  <2> QED
    BY <1>2, <2>1 DEF ToSet, Distinct
<1>6. Distinct(t)
  <2> SUFFICES ASSUME NEW i \in DOMAIN t, NEW k \in DOMAIN t, t[i] = t[k] PROVE i = k
    BY DEF Distinct
  <2>1. i + 1 \in DOMAIN s /\ k + 1 \in DOMAIN s /\ s[i + 1] = s[k + 1]
    BY <1>1, <1>2
  <2>2. i + 1 = k + 1
    BY <2>1 DEF Distinct
  <2> QED
    BY <1>2, <2>2
<1>7. Head(s) \in ToSet(s)
  <2>1. 1 \in DOMAIN s
    BY <1>2
  <2> QED
    BY <1>2, <2>1 DEF ToSet
<1> QED
  BY <1>1, <1>4, <1>5, <1>6, <1>7 DEF t

\* A set of natural numbers has a least one.
LEMMA LeastExists ==
  ASSUME NEW S \in SUBSET Nat, S # {}
  PROVE  \E i \in S : \A j \in S : i <= j
<1>1. IsWellFoundedOn(OpToRel(<, Nat), Nat)
  BY NatLessThanWellFounded
<1>2. PICK i \in S : \A j \in S : ~(<<j, i>> \in OpToRel(<, Nat))
  BY <1>1, WFMin
<1>3. \A m, n \in Nat : n < m => <<n, m>> \in OpToRel(<, Nat)
  BY DEF OpToRel
<1>4. \A j \in S : ~(j < i)
  BY <1>2, <1>3
<1>5. \A j \in S : i <= j
  BY <1>4
<1> QED
  BY <1>5

LEMMA MinFacts ==
  ASSUME NEW S \in SUBSET Nat, S # {}
  PROVE  Min(S) \in S /\ \A j \in S : Min(S) <= j
BY LeastExists DEF Min

\* A slice of a sequence.
LEMMA SliceDistinct ==
  ASSUME NEW T, NEW s \in Seq(T), NEW m \in 1 .. Len(s) + 1, NEW n \in 0 .. Len(s), m <= n + 1
  PROVE  /\ SubSeq(s, m, n) \in Seq(T) /\ Len(SubSeq(s, m, n)) = n - m + 1
         /\ ToSet(SubSeq(s, m, n)) = {s[k] : k \in m .. n}
         /\ Distinct(s) => Distinct(SubSeq(s, m, n))
<1> DEFINE t == SubSeq(s, m, n)
<1>1. Len(s) \in Nat /\ DOMAIN s = 1 .. Len(s) /\ \A i \in 1 .. Len(s) : s[i] \in T
  BY LenProperties, ElementOfSeq
<1>2. \A i \in m .. n : s[i] \in T
  BY <1>1
<1>3. /\ t \in Seq(T) /\ Len(t) = n - m + 1
      /\ \A i \in 1 .. n - m + 1 : t[i] = s[m + i - 1]
  BY <1>1, <1>2, SubSeqProperties
<1>4. DOMAIN t = 1 .. n - m + 1
  BY <1>3, LenProperties
<1> HIDE DEF t
<1>5. ToSet(t) \subseteq {s[k] : k \in m .. n}
  <2> SUFFICES ASSUME NEW i \in 1 .. n - m + 1 PROVE t[i] \in {s[k] : k \in m .. n}
    BY <1>4 DEF ToSet
  <2>1. m + i - 1 \in m .. n /\ t[i] = s[m + i - 1]
    BY <1>1, <1>3
  <2> QED
    BY <2>1
<1>6. {s[k] : k \in m .. n} \subseteq ToSet(t)
  <2> SUFFICES ASSUME NEW k \in m .. n PROVE s[k] \in ToSet(t)
    OBVIOUS
  <2>1. k - m + 1 \in 1 .. n - m + 1 /\ t[k - m + 1] = s[k]
    BY <1>1, <1>3
  <2> QED
    BY <1>4, <2>1 DEF ToSet
<1>7. ASSUME Distinct(s) PROVE Distinct(t)
  <2> SUFFICES ASSUME NEW i \in 1 .. n - m + 1, NEW k \in 1 .. n - m + 1, t[i] = t[k] PROVE i = k
    BY <1>4 DEF Distinct
  <2>1. m + i - 1 \in DOMAIN s /\ m + k - 1 \in DOMAIN s /\ s[m + i - 1] = s[m + k - 1]
    BY <1>1, <1>3
  <2>2. m + i - 1 = m + k - 1
    BY <1>7, <2>1 DEF Distinct
  <2> QED
    BY <2>2
<1> QED
  BY <1>3, <1>5, <1>6, <1>7 DEF t

LEMMA InjectiveIsDistinct == ASSUME NEW s PROVE IsInjective(s) <=> Distinct(s)
  BY DEF IsInjective, Distinct

LEMMA EmptyDistinct ==
  ASSUME NEW T
  PROVE  <<>> \in Seq(T) /\ ToSet(<<>>) = {} /\ Distinct(<<>>)
         /\ \A s \in Seq(T) : s = <<>> <=> ToSet(s) = {}
<1>1. <<>> \in Seq(T) /\ DOMAIN <<>> = {}
  OBVIOUS
<1>2. ASSUME NEW s \in Seq(T), ToSet(s) = {} PROVE s = <<>>
  <2>1. Len(s) \in Nat /\ DOMAIN s = 1 .. Len(s) /\ \A i \in DOMAIN s : s[i] \in ToSet(s)
    BY LenProperties DEF ToSet
  <2>2. ~(1 \in DOMAIN s)
    BY <1>2, <2>1
  <2>3. Len(s) = 0
    BY <2>1, <2>2
  <2> QED
    BY <2>3, EmptySeq
<1> QED
  BY <1>1, <1>2 DEF ToSet, Distinct

LEMMA SingleDistinct ==
  ASSUME NEW T, NEW x \in T
  PROVE  <<x>> \in Seq(T) /\ Len(<<x>>) = 1 /\ ToSet(<<x>>) = {x} /\ Distinct(<<x>>)
<1>1. <<x>> \in Seq(T) /\ Len(<<x>>) = 1 /\ DOMAIN <<x>> = {1} /\ <<x>>[1] = x
  OBVIOUS
<1> QED
  BY <1>1 DEF ToSet, Distinct

\* An insertion.
LEMMA InsertDistinct ==
  ASSUME NEW T, NEW s \in Seq(T), NEW x \in T, NEW i \in 1 .. Len(s) + 1,
         Distinct(s), x \notin ToSet(s)
  PROVE  /\ InsertAt(s, i, x) \in Seq(T)
         /\ ToSet(InsertAt(s, i, x)) = ToSet(s) \cup {x}
         /\ Distinct(InsertAt(s, i, x))
<1> DEFINE a == SubSeq(s, 1, i - 1)
           b == SubSeq(s, i, Len(s))
           c == <<x>>
<1>1. Len(s) \in Nat /\ DOMAIN s = 1 .. Len(s) /\ ToSet(s) = {s[k] : k \in 1 .. Len(s)}
  BY LenProperties DEF ToSet
<1>2. a \in Seq(T) /\ Distinct(a) /\ ToSet(a) = {s[k] : k \in 1 .. i - 1}
  BY <1>1, SliceDistinct
<1>3. b \in Seq(T) /\ Distinct(b) /\ ToSet(b) = {s[k] : k \in i .. Len(s)}
  BY <1>1, SliceDistinct
<1>4. ToSet(a) \cap ToSet(b) = {}
  BY <1>1, <1>2, <1>3 DEF Distinct
<1>5. ToSet(a) \cup ToSet(b) = ToSet(s)
  BY <1>1, <1>2, <1>3
<1>6. c \in Seq(T) /\ ToSet(c) = {x} /\ Distinct(c)
  BY SingleDistinct
<1> HIDE DEF a, b, c
<1>7. ToSet(a) \cap ToSet(c) = {} /\ ToSet(b) \cap ToSet(c) = {}
  BY <1>5, <1>6
<1> DEFINE d == a \o c
<1>8. d \in Seq(T) /\ ToSet(d) = ToSet(a) \cup ToSet(c) /\ Distinct(d)
  BY <1>2, <1>6, <1>7, ConcatDistinct
<1> HIDE DEF d
<1>9. ToSet(d) \cap ToSet(b) = {}
  BY <1>4, <1>7, <1>8
<1>10. d \o b \in Seq(T) /\ ToSet(d \o b) = ToSet(d) \cup ToSet(b) /\ Distinct(d \o b)
  BY <1>3, <1>8, <1>9, ConcatDistinct
<1> QED
  BY <1>5, <1>6, <1>8, <1>10 DEF InsertAt, a, b, c, d

\* The removal of the first occurrence, which is the only one.
LEMMA RemoveDistinct ==
  ASSUME NEW T, NEW s \in Seq(T), NEW x, Distinct(s)
  PROVE  /\ RemoveFirst(s, x) \in Seq(T)
         /\ ToSet(RemoveFirst(s, x)) = ToSet(s) \ {x}
         /\ Distinct(RemoveFirst(s, x))
         /\ Len(RemoveFirst(s, x)) = IF x \in ToSet(s) THEN Len(s) - 1 ELSE Len(s)
<1>1. Len(s) \in Nat /\ DOMAIN s = 1 .. Len(s) /\ ToSet(s) = {s[k] : k \in 1 .. Len(s)}
  BY LenProperties DEF ToSet
<1>2. CASE x \notin ToSet(s)
  <2>1. ~\E k \in 1 .. Len(s) : s[k] = x
    BY <1>1, <1>2
  <2>2. RemoveFirst(s, x) = s
    BY <2>1 DEF RemoveFirst
  <2> QED
    BY <1>2, <2>2
<1>3. CASE x \in ToSet(s)
  <2> DEFINE I == {k \in 1 .. Len(s) : s[k] = x}
             i == Min(I)
             a == SubSeq(s, 1, i - 1)
             b == SubSeq(s, i + 1, Len(s))
  <2>1. I # {} /\ I \in SUBSET Nat
    BY <1>1, <1>3
  <2>2. i \in I
    BY <2>1, MinFacts
  <2> HIDE DEF i
  <2>3. i \in 1 .. Len(s) /\ s[i] = x
    BY <2>2
  <2>4. RemoveFirst(s, x) = a \o b
    <3>1. \E k \in 1 .. Len(s) : s[k] = x
      BY <2>3
    <3> QED
      BY <2>1, <3>1 DEF RemoveFirst, SelectInSeq, RemoveAt, i
  <2>5. a \in Seq(T) /\ Distinct(a) /\ ToSet(a) = {s[k] : k \in 1 .. i - 1} /\ Len(a) = i - 1
    BY <1>1, <2>3, SliceDistinct
  <2>6. b \in Seq(T) /\ Distinct(b) /\ ToSet(b) = {s[k] : k \in i + 1 .. Len(s)}
        /\ Len(b) = Len(s) - i
    <3>1. i + 1 \in 1 .. Len(s) + 1 /\ Len(s) \in 0 .. Len(s) /\ i + 1 <= Len(s) + 1
      BY <1>1, <2>3
    <3>2. /\ b \in Seq(T) /\ Len(b) = Len(s) - (i + 1) + 1
          /\ ToSet(b) = {s[k] : k \in i + 1 .. Len(s)}
          /\ Distinct(b)
      BY <3>1, SliceDistinct
    <3>3. Len(s) - (i + 1) + 1 = Len(s) - i
      BY <1>1, <2>3
    <3> QED
      BY <3>2, <3>3
  <2>7. ToSet(a) \cap ToSet(b) = {}
    <3>1. \A k \in 1 .. i - 1, m \in i + 1 .. Len(s) : s[k] # s[m]
      BY <1>1, <2>3 DEF Distinct
    <3> QED
      BY <2>5, <2>6, <3>1
  <2>8. ToSet(a) \cup ToSet(b) = ToSet(s) \ {x}
    <3>1. \A k \in 1 .. Len(s) : s[k] = x <=> k = i
      BY <1>1, <2>3 DEF Distinct
    <3>2. ToSet(s) \ {x} = {s[k] : k \in (1 .. Len(s)) \ {i}}
      BY <1>1, <3>1
    <3>3. (1 .. Len(s)) \ {i} = (1 .. i - 1) \cup (i + 1 .. Len(s))
      BY <1>1, <2>3
    <3> QED
      BY <2>5, <2>6, <3>2, <3>3
  <2> HIDE DEF a, b
  <2>9. a \o b \in Seq(T) /\ ToSet(a \o b) = ToSet(a) \cup ToSet(b) /\ Distinct(a \o b)
    BY <2>5, <2>6, <2>7, ConcatDistinct
  <2>10. Len(a \o b) = Len(s) - 1
    <3>1. Len(a \o b) = Len(a) + Len(b)
      BY <2>5, <2>6, ConcatProperties
    <3> QED
      BY <1>1, <2>3, <2>5, <2>6, <3>1
  <2> QED
    BY <1>3, <2>4, <2>8, <2>9, <2>10
<1> QED
  BY <1>2, <1>3

\* Sets that have nothing in common are counted apart.
LEMMA ApartCardinality ==
  ASSUME NEW S, NEW T, IsFiniteSet(S), IsFiniteSet(T), S \cap T = {}
  PROVE  IsFiniteSet(S \cup T) /\ Cardinality(S \cup T) = Cardinality(S) + Cardinality(T)
<1>1. /\ IsFiniteSet(S \cup T)
      /\ Cardinality(S \cup T) = Cardinality(S) + Cardinality(T) - Cardinality(S \cap T)
  BY FS_Union
<1>2. Cardinality(S \cap T) = 0
  BY FS_EmptySet
<1>3. Cardinality(S) \in Nat /\ Cardinality(T) \in Nat
  BY FS_CardinalityType
<1> QED
  BY <1>1, <1>2, <1>3
=============================================================================
