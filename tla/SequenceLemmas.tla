---------------------------- MODULE SequenceLemmas ----------------------------
(***************************************************************************)
(* Facts about the operations on sequences that the lists of the kernel    *)
(* and of the thread library are modelled with: inserting, removing,       *)
(* searching and rotating.                                                 *)
(***************************************************************************)
EXTENDS Integers, Sequences, SequencesExt, SequenceTheorems,
        FiniteSetTheorems, WellFoundedInduction, NaturalsInduction, TLAPS

\* What inserting an element at a position of a sequence gives.
LEMMA InsertAtProperties ==
  ASSUME NEW S, NEW s \in Seq(S), NEW i \in 1..Len(s) + 1, NEW e \in S
  PROVE  /\ InsertAt(s, i, e) \in Seq(S)
         /\ Len(InsertAt(s, i, e)) = Len(s) + 1
         /\ \A j \in 1..Len(s) + 1 :
              InsertAt(s, i, e)[j] = IF j < i THEN s[j]
                                     ELSE IF j = i THEN e ELSE s[j - 1]
<1> DEFINE a == SubSeq(s, 1, i - 1)
           b == SubSeq(s, i, Len(s))
<1>0. Len(s) \in Nat
  BY LenProperties
<1>1. /\ a \in Seq(S) /\ Len(a) = i - 1
      /\ \A j \in 1..i - 1 : a[j] = s[j]
  <2>1. \A j \in 1..i - 1 : s[j] \in S
    BY <1>0, ElementOfSeq
  <2> QED BY <1>0, <2>1, SubSeqProperties
<1>2. /\ b \in Seq(S) /\ Len(b) = Len(s) - i + 1
      /\ \A j \in 1..Len(s) - i + 1 : b[j] = s[i + j - 1]
  <2>1. \A j \in i..Len(s) : s[j] \in S
    BY <1>0, ElementOfSeq
  <2> QED BY <1>0, <2>1, SubSeqProperties
<1>3. <<e>> \in Seq(S) /\ Len(<<e>>) = 1 /\ <<e>>[1] = e
  OBVIOUS
<1> HIDE DEF a, b
<1> DEFINE c == a \o <<e>>
<1>4. /\ c \in Seq(S) /\ Len(c) = i
      /\ \A j \in 1..i : c[j] = IF j < i THEN s[j] ELSE e
  BY <1>0, <1>1, <1>3, ConcatProperties
<1> HIDE DEF c
<1> DEFINE r == c \o b
<1>5. /\ r \in Seq(S) /\ Len(r) = Len(s) + 1
      /\ \A j \in 1..Len(s) + 1 :
           r[j] = IF j <= i THEN c[j] ELSE b[j - i]
  <2>1. /\ r \in Seq(S) /\ Len(r) = Len(c) + Len(b)
        /\ \A j \in 1..Len(c) + Len(b) :
             r[j] = IF j <= Len(c) THEN c[j] ELSE b[j - Len(c)]
    BY <1>2, <1>4, ConcatProperties
  <2>2. Len(c) + Len(b) = Len(s) + 1
    BY <1>0, <1>2, <1>4
  <2> QED BY <2>1, <2>2, <1>4
<1>6. InsertAt(s, i, e) = r
  BY DEF InsertAt, a, b, c
<1> HIDE DEF r
<1>7. ASSUME NEW j \in 1..Len(s) + 1
      PROVE  r[j] = IF j < i THEN s[j] ELSE IF j = i THEN e ELSE s[j - 1]
  <2>1. CASE j <= i
    BY <2>1, <1>0, <1>4, <1>5
  <2>2. CASE j > i
    <3>1. j - i \in 1..Len(s) - i + 1 /\ i + (j - i) - 1 = j - 1
      BY <2>2, <1>0
    <3>2. r[j] = b[j - i]
      BY <2>2, <1>0, <1>5
    <3>3. b[j - i] = s[j - 1]
      BY <3>1, <1>2
    <3> QED BY <2>2, <3>2, <3>3, <1>0
  <2> QED BY <1>0, <2>1, <2>2
<1> QED BY <1>5, <1>6, <1>7

\* What removing the element at a position gives.
LEMMA RemoveAtProperties ==
  ASSUME NEW S, NEW s \in Seq(S), NEW i \in 1..Len(s)
  PROVE  /\ RemoveAt(s, i) \in Seq(S)
         /\ Len(RemoveAt(s, i)) = Len(s) - 1
         /\ \A j \in 1..Len(s) - 1 :
              RemoveAt(s, i)[j] = IF j < i THEN s[j] ELSE s[j + 1]
<1> DEFINE a == SubSeq(s, 1, i - 1)
           b == SubSeq(s, i + 1, Len(s))
<1>0. Len(s) \in Nat
  BY LenProperties
<1>1. /\ a \in Seq(S) /\ Len(a) = i - 1
      /\ \A j \in 1..i - 1 : a[j] = s[j]
  <2>1. \A j \in 1..i - 1 : s[j] \in S
    BY <1>0, ElementOfSeq
  <2> QED BY <1>0, <2>1, SubSeqProperties
<1>2. /\ b \in Seq(S) /\ Len(b) = Len(s) - i
      /\ \A j \in 1..Len(s) - i : b[j] = s[i + j]
  <2>1. \A j \in i + 1..Len(s) : s[j] \in S
    BY <1>0, ElementOfSeq
  <2> QED BY <1>0, <2>1, SubSeqProperties
<1> HIDE DEF a, b
<1> DEFINE r == a \o b
<1>3. /\ r \in Seq(S) /\ Len(r) = Len(s) - 1
      /\ \A j \in 1..Len(s) - 1 :
           r[j] = IF j <= i - 1 THEN a[j] ELSE b[j - (i - 1)]
  <2>1. a \in Seq(S) /\ b \in Seq(S)
    BY <1>1, <1>2
  <2>2. /\ r \in Seq(S) /\ Len(r) = Len(a) + Len(b)
        /\ \A j \in 1..Len(a) + Len(b) :
             r[j] = IF j <= Len(a) THEN a[j] ELSE b[j - Len(a)]
    BY ONLY <2>1, ConcatProperties
  <2> HIDE DEF r
  <2>3. Len(a) = i - 1 /\ Len(a) + Len(b) = Len(s) - 1
    BY <1>0, <1>1, <1>2
  <2> QED BY ONLY <2>2, <2>3
<1> HIDE DEF r
<1>4. ASSUME NEW j \in 1..Len(s) - 1
      PROVE  r[j] = IF j < i THEN s[j] ELSE s[j + 1]
  <2>1. CASE j < i
    BY <2>1, <1>0, <1>1, <1>3
  <2>2. CASE j >= i
    <3>1. j - (i - 1) \in 1..Len(s) - i /\ i + (j - (i - 1)) = j + 1
      BY <2>2, <1>0
    <3> QED BY <2>2, <3>1, <1>0, <1>2, <1>3
  <2> QED BY <1>0, <2>1, <2>2
<1> QED BY <1>3, <1>4 DEF RemoveAt, a, b, r

\* Removing the only occurrence of an element.
LEMMA RemoveFirstProperties ==
  ASSUME NEW S, NEW s \in Seq(S), IsInjective(s), NEW e \in Range(s)
  PROVE  /\ RemoveFirst(s, e) \in Seq(S)
         /\ IsInjective(RemoveFirst(s, e))
         /\ Range(RemoveFirst(s, e)) = Range(s) \ {e}
         /\ Len(RemoveFirst(s, e)) = Len(s) - 1
<1>0. Len(s) \in Nat /\ DOMAIN s = 1..Len(s)
  BY LenProperties
<1>1. PICK k \in 1..Len(s) : s[k] = e
  BY <1>0 DEF Range
<1>2. {i \in 1..Len(s) : s[i] = e} = {k}
  BY <1>0, <1>1 DEF IsInjective
<1>3. SelectInSeq(s, LAMBDA v : v = e) = k
  <2>1. Min({k}) = k
    BY <1>0, <1>1 DEF Min
  <2> QED BY <1>2, <2>1 DEF SelectInSeq
<1> DEFINE r == RemoveAt(s, k)
<1>4. RemoveFirst(s, e) = r
  BY <1>1, <1>3 DEF RemoveFirst
<1>5. /\ r \in Seq(S) /\ Len(r) = Len(s) - 1
      /\ \A j \in 1..Len(s) - 1 : r[j] = IF j < k THEN s[j] ELSE s[j + 1]
  BY <1>1, RemoveAtProperties
<1> HIDE DEF r
<1>6. DOMAIN r = 1..Len(s) - 1
  BY <1>5, LenProperties
<1>7. IsInjective(r)
  <2> SUFFICES ASSUME NEW a \in 1..Len(s) - 1, NEW b \in 1..Len(s) - 1,
                      r[a] = r[b]
               PROVE  a = b
    BY <1>6 DEF IsInjective
  <2> DEFINE f(j) == IF j < k THEN j ELSE j + 1
  <2>1. /\ f(a) \in DOMAIN s /\ r[a] = s[f(a)]
        /\ f(b) \in DOMAIN s /\ r[b] = s[f(b)]
    BY <1>0, <1>5
  <2>2. f(a) = f(b)
    <3> HIDE DEF f
    <3> QED BY <2>1 DEF IsInjective
  <2> QED BY <2>2, <1>0
<1>8. Range(r) = Range(s) \ {e}
  <2>1. ASSUME NEW x \in Range(r) PROVE x \in Range(s) \ {e}
    <3>1. PICK j \in 1..Len(s) - 1 : x = r[j]
      BY <1>6 DEF Range
    <3>2. PICK m \in 1..Len(s) : m # k /\ x = s[m]
      <4>1. CASE j < k
        BY <1>0, <1>5, <3>1, <4>1
      <4>2. CASE ~(j < k)
        BY <1>0, <1>1, <1>5, <3>1, <4>2
      <4> QED BY <4>1, <4>2
    <3>3. x # s[k]
      BY <1>0, <1>1, <3>2 DEF IsInjective
    <3> QED BY <1>0, <1>1, <3>2, <3>3 DEF Range
  <2>2. ASSUME NEW x \in Range(s) \ {e} PROVE x \in Range(r)
    <3>1. PICK j \in 1..Len(s) : x = s[j]
      BY <1>0 DEF Range
    <3>2. j # k
      BY <3>1, <1>1
    <3>3. CASE j < k
      <4>1. j \in 1..Len(s) - 1 /\ r[j] = x
        BY <3>1, <3>3, <1>0, <1>1, <1>5
      <4> QED BY <4>1, <1>6 DEF Range
    <3>4. CASE j > k
      <4>1. j - 1 \in 1..Len(s) - 1 /\ r[j - 1] = x
        BY <3>1, <3>4, <1>0, <1>1, <1>5
      <4> QED BY <4>1, <1>6 DEF Range
    <3> QED BY <3>2, <3>3, <3>4, <1>0
  <2> QED BY <2>1, <2>2
<1> QED BY <1>4, <1>5, <1>7, <1>8

\* Where the elements are after that.
LEMMA RemoveFirstIndex ==
  ASSUME NEW S, NEW s \in Seq(S), IsInjective(s), NEW k \in 1..Len(s)
  PROVE  \A j \in 1..Len(s) - 1 :
           RemoveFirst(s, s[k])[j] = IF j < k THEN s[j] ELSE s[j + 1]
<1>0. Len(s) \in Nat /\ DOMAIN s = 1..Len(s)
  BY LenProperties
<1>1. {i \in 1..Len(s) : s[i] = s[k]} = {k}
  BY <1>0 DEF IsInjective
<1>2. SelectInSeq(s, LAMBDA v : v = s[k]) = k
  <2>1. Min({k}) = k
    BY <1>0 DEF Min
  <2> QED BY <1>1, <2>1 DEF SelectInSeq
<1>3. RemoveFirst(s, s[k]) = RemoveAt(s, k)
  BY <1>2 DEF RemoveFirst
<1> QED BY ONLY <1>3, RemoveAtProperties, s \in Seq(S), k \in 1..Len(s)

\* Inserting a new element keeps a sequence free of repetitions.
LEMMA InsertAtInjective ==
  ASSUME NEW S, NEW s \in Seq(S), IsInjective(s), NEW i \in 1..Len(s) + 1,
         NEW e \in S, e \notin Range(s)
  PROVE  /\ IsInjective(InsertAt(s, i, e))
         /\ Range(InsertAt(s, i, e)) = Range(s) \cup {e}
<1>0. Len(s) \in Nat /\ DOMAIN s = 1..Len(s)
  BY LenProperties
<1> DEFINE r == InsertAt(s, i, e)
<1>1. /\ r \in Seq(S) /\ Len(r) = Len(s) + 1
      /\ \A j \in 1..Len(s) + 1 :
           r[j] = IF j < i THEN s[j] ELSE IF j = i THEN e ELSE s[j - 1]
  BY ONLY InsertAtProperties, s \in Seq(S), i \in 1..Len(s) + 1, e \in S
<1> HIDE DEF r
<1>2. DOMAIN r = 1..Len(s) + 1
  BY <1>1, LenProperties
<1>3. \A j \in 1..Len(s) : s[j] # e
  BY <1>0 DEF Range
<1>4. IsInjective(r)
  <2> SUFFICES ASSUME NEW a \in 1..Len(s) + 1, NEW b \in 1..Len(s) + 1,
                      r[a] = r[b]
               PROVE  a = b
    BY <1>2 DEF IsInjective
  <2> DEFINE f(j) == IF j < i THEN j ELSE j - 1
  <2>1. \A j \in 1..Len(s) + 1 :
          j # i => f(j) \in DOMAIN s /\ r[j] = s[f(j)] /\ r[j] # e
    BY <1>0, <1>1, <1>3
  <2>2. r[i] = e
    BY <1>0, <1>1
  <2>3. CASE a = i \/ b = i
    BY <2>1, <2>2, <2>3
  <2>4. CASE a # i /\ b # i
    <3>1. f(a) = f(b)
      <4> HIDE DEF f
      <4> QED BY <2>1, <2>4 DEF IsInjective
    <3> QED BY <3>1, <2>4, <1>0
  <2> QED BY <2>3, <2>4
<1>5. Range(r) = Range(s) \cup {e}
  <2>1. ASSUME NEW x \in Range(r) PROVE x \in Range(s) \cup {e}
    <3>1. PICK j \in 1..Len(s) + 1 : x = r[j]
      BY <1>2 DEF Range
    <3>2. CASE j = i
      BY <3>1, <3>2, <1>0, <1>1
    <3>3. CASE j # i
      <4>1. \E m \in 1..Len(s) : x = s[m]
        BY <3>1, <3>3, <1>0, <1>1
      <4> QED BY <4>1, <1>0 DEF Range
    <3> QED BY <3>2, <3>3
  <2>2. ASSUME NEW x \in Range(s) PROVE x \in Range(r)
    <3>1. PICK j \in 1..Len(s) : x = s[j]
      BY <1>0 DEF Range
    <3>2. CASE j < i
      <4>1. j \in 1..Len(s) + 1 /\ r[j] = x
        BY <3>1, <3>2, <1>0, <1>1
      <4> QED BY <4>1, <1>2 DEF Range
    <3>3. CASE j >= i
      <4>1. j + 1 \in 1..Len(s) + 1 /\ r[j + 1] = x
        BY <3>1, <3>3, <1>0, <1>1
      <4> QED BY <4>1, <1>2 DEF Range
    <3> QED BY <3>2, <3>3, <1>0
  <2>3. e \in Range(r)
    <3>1. r[i] = e
      BY <1>0, <1>1
    <3> QED BY <3>1, <1>2 DEF Range
  <2> QED BY <2>1, <2>2, <2>3
<1> QED BY <1>4, <1>5 DEF r

\* Appending a new element.
LEMMA AppendNew ==
  ASSUME NEW S, NEW s \in Seq(S), IsInjective(s), NEW e \in S, e \notin Range(s)
  PROVE  /\ Append(s, e) \in Seq(S)
         /\ IsInjective(Append(s, e))
         /\ Range(Append(s, e)) = Range(s) \cup {e}
         /\ Last(Append(s, e)) = e
<1>0. Len(s) \in Nat /\ DOMAIN s = 1..Len(s)
  BY LenProperties
<1> DEFINE r == Append(s, e)
<1>1. /\ r \in Seq(S) /\ Len(r) = Len(s) + 1 /\ DOMAIN r = 1..Len(s) + 1
      /\ \A i \in 1..Len(s) : r[i] = s[i]
      /\ r[Len(s) + 1] = e
  BY <1>0, AppendProperties, LenProperties
<1> HIDE DEF r
<1>2. IsInjective(r)
  BY <1>0, <1>1 DEF IsInjective, Range
<1>3. Range(r) = Range(s) \cup {e}
  <2>1. ASSUME NEW x \in Range(r) PROVE x \in Range(s) \cup {e}
    BY <1>0, <1>1 DEF Range
  <2>2. ASSUME NEW x \in Range(s) PROVE x \in Range(r)
    BY <1>0, <1>1 DEF Range
  <2>3. e \in Range(r)
    <3>1. Len(s) + 1 \in DOMAIN r
      BY <1>0, <1>1
    <3> QED BY <3>1, <1>1 DEF Range
  <2> QED BY <2>1, <2>2, <2>3
<1>4. Last(r) = e
  BY <1>1 DEF Last
<1> QED BY <1>1, <1>2, <1>3, <1>4 DEF r

\* Dropping the last element.
LEMMA DropLast ==
  ASSUME NEW S, NEW s \in Seq(S), IsInjective(s), NEW e \in Range(s), e = Last(s)
  PROVE  /\ Front(s) \in Seq(S)
         /\ IsInjective(Front(s))
         /\ Range(Front(s)) = Range(s) \ {e}
<1>0. Len(s) \in Nat /\ DOMAIN s = 1..Len(s) /\ Len(s) >= 1
  BY LenProperties DEF Range
<1> DEFINE r == Front(s)
<1>1. /\ r \in Seq(S) /\ Len(r) = Len(s) - 1
      /\ \A i \in 1..Len(s) - 1 : r[i] = s[i]
  <2>1. \A i \in 1..Len(s) - 1 : s[i] \in S
    BY <1>0, ElementOfSeq
  <2> QED BY <1>0, <2>1, SubSeqProperties DEF Front
<1> HIDE DEF r
<1>2. DOMAIN r = 1..Len(s) - 1 /\ s[Len(s)] = e
  BY <1>1, LenProperties DEF Last
<1>3. IsInjective(r)
  BY <1>0, <1>1, <1>2 DEF IsInjective
<1>4. Range(r) = Range(s) \ {e}
  <2>1. ASSUME NEW x \in Range(r) PROVE x \in Range(s) \ {e}
    BY <1>0, <1>1, <1>2 DEF Range, IsInjective
  <2>2. ASSUME NEW x \in Range(s) \ {e} PROVE x \in Range(r)
    BY <1>0, <1>1, <1>2 DEF Range
  <2> QED BY <2>1, <2>2
<1> QED BY <1>1, <1>3, <1>4 DEF r

\* A non-empty set of positions of a sequence has a least and a greatest one.
LEMMA MinProperties ==
  ASSUME NEW I, I \subseteq Nat, I # {}
  PROVE  Min(I) \in I /\ \A y \in I : Min(I) <= y
<1> DEFINE R == OpToRel(<, Nat)
<1>0. \A x, y \in Nat : y < x => <<y, x>> \in R
  BY SMT DEF OpToRel
<1>3. IsWellFoundedOn(R, Nat)
  BY NatLessThanWellFounded
<1> HIDE DEF R
<1>1. \E x \in I : \A y \in I : ~(<<y, x>> \in R)
  BY <1>3, WFMin
<1>2. \E x \in I : \A y \in I : x =< y
  <2>1. PICK x \in I : \A y \in I : ~(<<y, x>> \in R)
    BY <1>1
  <2>2. ASSUME NEW y \in I PROVE x =< y
    <3>1. ~(y < x)
      BY <2>1, <1>0
    <3> QED BY <3>1
  <2> QED BY <2>2
<1> QED BY <1>2 DEF Min

LEMMA MaxProperties ==
  ASSUME NEW n \in Nat, NEW I, I \subseteq 1..n, I # {}
  PROVE  Max(I) \in I /\ \A y \in I : Max(I) >= y
<1> DEFINE J == {n - i : i \in I}
<1>1. J \subseteq Nat /\ J # {}
  OBVIOUS
<1>2. PICK m \in J : \A y \in J : m =< y
  BY <1>1, MinProperties
<1>3. PICK x \in I : m = n - x
  BY <1>2
<1>4. \A y \in I : x >= y
  <2> TAKE y \in I
  <2>1. n - x =< n - y
    BY <1>2, <1>3
  <2>2. n \in Int /\ x \in Int /\ y \in Int
    OBVIOUS
  <2> HIDE DEF J
  <2> QED BY <2>1, <2>2
<1>5. \E z \in I : \A y \in I : z >= y
  BY <1>4
<1> QED BY <1>5 DEF Max

\* The position of the first match in a sequence of length n, 0 if none.
LEMMA FirstMatch ==
  ASSUME NEW n \in Nat, NEW I, I \subseteq 1..n, NEW k,
         k = IF I # {} THEN Min(I) ELSE 0
  PROVE  k \in 0..n /\ (k # 0 => k \in I)
<1>1. CASE I = {}
  BY <1>1
<1>2. CASE I # {}
  <2>1. I \subseteq Nat
    OBVIOUS
  <2>2. k \in I
    BY <1>2, <2>1, MinProperties
  <2> QED BY <2>2
<1> QED BY <1>1, <1>2

\* ... and no earlier place.
LEMMA FirstPlace ==
  ASSUME NEW n \in Nat, NEW I, I \subseteq 1..n, NEW k,
         k = IF I # {} THEN Min(I) ELSE 0
  PROVE  (k = 0 <=> I = {}) /\ (k # 0 => k \in I /\ \A i \in I : k <= i)
<1>1. CASE I = {}
  BY <1>1
<1>2. CASE I # {}
  <2>1. I \subseteq Nat
    OBVIOUS
  <2>2. Min(I) \in I /\ \A i \in I : Min(I) <= i
    BY <1>2, <2>1, MinProperties
  <2>3. k = Min(I) /\ k # 0
    BY <1>2, <2>2
  <2> QED BY <1>2, <2>2, <2>3
<1> QED BY <1>1, <1>2

\* Rotating a sequence keeps its elements, and moves each of them as far.
LEMMA RotationProperties ==
  ASSUME NEW S, NEW s \in Seq(S), IsInjective(s), NEW i \in 1..Len(s)
  PROVE  /\ SubSeq(s, i, Len(s)) \o SubSeq(s, 1, i - 1) \in Seq(S)
         /\ IsInjective(SubSeq(s, i, Len(s)) \o SubSeq(s, 1, i - 1))
         /\ Range(SubSeq(s, i, Len(s)) \o SubSeq(s, 1, i - 1)) = Range(s)
         /\ Len(SubSeq(s, i, Len(s)) \o SubSeq(s, 1, i - 1)) = Len(s)
         /\ \A j \in 1..Len(s) :
              (SubSeq(s, i, Len(s)) \o SubSeq(s, 1, i - 1))[j]
                = s[IF j <= Len(s) - i + 1 THEN i + j - 1 ELSE j - (Len(s) - i + 1)]
<1> DEFINE a == SubSeq(s, i, Len(s))
           b == SubSeq(s, 1, i - 1)
           r == a \o b
<1>0. Len(s) \in Nat /\ DOMAIN s = 1..Len(s)
  BY LenProperties
<1>1. /\ a \in Seq(S) /\ Len(a) = Len(s) - i + 1
      /\ \A j \in 1..Len(s) - i + 1 : a[j] = s[i + j - 1]
  <2>1. \A j \in i..Len(s) : s[j] \in S
    BY <1>0, ElementOfSeq
  <2> QED BY <1>0, <2>1, SubSeqProperties
<1>2. /\ b \in Seq(S) /\ Len(b) = i - 1
      /\ \A j \in 1..i - 1 : b[j] = s[j]
  <2>1. \A j \in 1..i - 1 : s[j] \in S
    BY <1>0, ElementOfSeq
  <2> QED BY <1>0, <2>1, SubSeqProperties
<1> HIDE DEF a, b
<1>3. /\ r \in Seq(S) /\ Len(r) = Len(a) + Len(b)
      /\ \A j \in 1..Len(a) + Len(b) :
           r[j] = IF j <= Len(a) THEN a[j] ELSE b[j - Len(a)]
  BY <1>1, <1>2, ConcatProperties
<1> HIDE DEF r
<1> DEFINE n == Len(s)
           f(j) == IF j <= n - i + 1 THEN i + j - 1 ELSE j - (n - i + 1)
<1>4. Len(a) + Len(b) = n /\ DOMAIN r = 1..n
  BY <1>0, <1>1, <1>2, <1>3, LenProperties
<1>5. ASSUME NEW j \in 1..n PROVE f(j) \in 1..n /\ r[j] = s[f(j)]
  <2>1. CASE j <= n - i + 1
    <3>1. r[j] = a[j]
      BY <2>1, <1>0, <1>1, <1>3, <1>4
    <3> QED BY <2>1, <3>1, <1>0, <1>1
  <2>2. CASE j > n - i + 1
    <3>0. j \in 1..Len(a) + Len(b) /\ ~(j <= Len(a))
      BY <2>2, <1>0, <1>1, <1>4
    <3>1. r[j] = b[j - (n - i + 1)]
      BY <3>0, <1>1, <1>3
    <3>2. j - (n - i + 1) \in 1..i - 1
      BY <2>2, <1>0
    <3> QED BY <2>2, <3>1, <3>2, <1>0, <1>2
  <2> QED BY <1>0, <2>1, <2>2
<1>6. ASSUME NEW j \in 1..n PROVE \E m \in 1..n : f(m) = j
  <2>1. CASE j >= i
    <3>1. j - i + 1 \in 1..n /\ f(j - i + 1) = j
      BY <2>1, <1>0
    <3> QED BY <3>1
  <2>2. CASE j < i
    <3>1. j + (n - i + 1) \in 1..n /\ f(j + (n - i + 1)) = j
      BY <2>2, <1>0
    <3> QED BY <3>1
  <2> QED BY <1>0, <2>1, <2>2
<1>7. \A j, m \in 1..n : f(j) = f(m) => j = m
  BY <1>0
<1> HIDE DEF f, n
<1>8. IsInjective(r)
  <2> SUFFICES ASSUME NEW j \in 1..n, NEW m \in 1..n, r[j] = r[m]
               PROVE  j = m
    BY <1>4 DEF IsInjective
  <2>1. f(j) = f(m)
    BY <1>0, <1>5 DEF IsInjective, n
  <2> QED BY <2>1, <1>7
<1>9. Range(r) = Range(s)
  <2>1. ASSUME NEW x \in Range(r) PROVE x \in Range(s)
    BY <1>0, <1>4, <1>5 DEF Range, n
  <2>2. ASSUME NEW x \in Range(s) PROVE x \in Range(r)
    <3>1. PICK j \in 1..n : x = s[j]
      BY <1>0 DEF Range, n
    <3>2. PICK m \in 1..n : f(m) = j
      BY <1>6
    <3> QED BY <3>1, <3>2, <1>4, <1>5 DEF Range
  <2> QED BY <2>1, <2>2
<1>10. /\ Len(r) = Len(s)
       /\ \A j \in 1..Len(s) :
            r[j] = s[IF j <= Len(s) - i + 1 THEN i + j - 1 ELSE j - (Len(s) - i + 1)]
  BY <1>3, <1>4, <1>5 DEF f, n
<1> QED BY <1>3, <1>8, <1>9, <1>10 DEF r, a, b

\* The first element of a sequence.
LEMMA HeadInRange ==
  ASSUME NEW S, NEW s \in Seq(S), s # <<>>
  PROVE  Head(s) \in Range(s) /\ Head(s) \in S
<1>1. Len(s) \in Nat /\ DOMAIN s = 1..Len(s) /\ Len(s) # 0
  BY LenProperties
<1>2. 1 \in DOMAIN s /\ Head(s) = s[1]
  BY <1>1
<1> QED BY <1>1, <1>2, ElementOfSeq DEF Range

\* Taking the first element off a sequence without repetitions.
LEMMA DropFirst ==
  ASSUME NEW S, NEW s \in Seq(S), IsInjective(s), s # <<>>
  PROVE  /\ Head(s) \in Range(s) /\ Head(s) \in S
         /\ Tail(s) \in Seq(S)
         /\ Len(Tail(s)) = Len(s) - 1
         /\ IsInjective(Tail(s))
         /\ Range(Tail(s)) = Range(s) \ {Head(s)}
<1>1. Len(s) \in Nat /\ DOMAIN s = 1..Len(s) /\ Len(s) # 0
  BY LenProperties
<1> DEFINE r == Tail(s)
<1>2. /\ r \in Seq(S) /\ Len(r) = Len(s) - 1
      /\ \A i \in 1..Len(r) : r[i] = s[i + 1]
  BY ONLY HeadTailProperties, s \in Seq(S), s # <<>>
<1>3. Head(s) = s[1]
  BY <1>1
<1> HIDE DEF r
<1>4. DOMAIN r = 1..Len(s) - 1
  BY <1>2, LenProperties
<1>5. IsInjective(r)
  <2> SUFFICES ASSUME NEW a \in 1..Len(s) - 1, NEW b \in 1..Len(s) - 1,
                      r[a] = r[b]
               PROVE  a = b
    BY <1>4 DEF IsInjective
  <2>1. a + 1 \in DOMAIN s /\ b + 1 \in DOMAIN s
    BY <1>1
  <2>2. s[a + 1] = s[b + 1]
    BY <1>1, <1>2
  <2>3. a + 1 = b + 1
    BY <2>1, <2>2 DEF IsInjective
  <2> QED BY <2>3, <1>1
<1>6. Range(r) \subseteq Range(s) \ {s[1]}
  <2> SUFFICES ASSUME NEW a \in 1..Len(s) - 1
               PROVE  r[a] \in Range(s) \ {s[1]}
    BY <1>4 DEF Range
  <2>1. a + 1 \in DOMAIN s /\ 1 \in DOMAIN s /\ a + 1 # 1 /\ r[a] = s[a + 1]
    BY <1>1, <1>2
  <2> QED BY <2>1 DEF Range, IsInjective
<1>7. Range(s) \ {s[1]} \subseteq Range(r)
  <2> SUFFICES ASSUME NEW a \in 1..Len(s), s[a] # s[1]
               PROVE  s[a] \in Range(r)
    BY <1>1 DEF Range
  <2>1. a - 1 \in 1..Len(s) - 1 /\ r[a - 1] = s[a]
    BY <1>1, <1>2
  <2> QED BY <2>1, <1>4 DEF Range
<1> QED BY <1>2, <1>3, <1>5, <1>6, <1>7, HeadInRange DEF r

\* A sequence is empty if and only if nothing occurs in it.
LEMMA EmptyRange ==
  ASSUME NEW S, NEW s \in Seq(S)
  PROVE  Range(s) = {} <=> s = <<>>
<1>1. CASE s = <<>>
  BY <1>1 DEF Range
<1>2. CASE s # <<>>
  BY <1>2, HeadInRange
<1> QED BY <1>1, <1>2

\* What occurs in a sequence belongs to its set of elements.
LEMMA RangeSubset ==
  ASSUME NEW S, NEW s \in Seq(S)
  PROVE  Range(s) \subseteq S
BY LenProperties, ElementOfSeq DEF Range

\* The empty sequence and a sequence of one element.
LEMMA ShortSequences ==
  /\ \A S : <<>> \in Seq(S)
  /\ IsInjective(<<>>) /\ Range(<<>>) = {}
  /\ \A S : \A x \in S : <<x>> \in Seq(S)
  /\ \A x : IsInjective(<<x>>) /\ Range(<<x>>) = {x}
<1>1. DOMAIN <<>> = {}
  OBVIOUS
<1>2. ASSUME NEW x PROVE DOMAIN <<x>> = {1} /\ <<x>>[1] = x
  OBVIOUS
<1>3. ASSUME NEW x PROVE IsInjective(<<x>>) /\ Range(<<x>>) = {x}
  <2> DEFINE s == <<x>>
  <2>1. DOMAIN s = {1} /\ s[1] = x
    BY <1>2
  <2> HIDE DEF s
  <2>2. IsInjective(s) /\ Range(s) = {x}
    BY <2>1 DEF IsInjective, Range
  <2> QED BY <2>2 DEF s
<1> QED BY <1>1, <1>3 DEF IsInjective, Range

\* The elements of a sequence without repetitions are as many as its length.
LEMMA RangeCardinality ==
  ASSUME NEW S, NEW s \in Seq(S), IsInjective(s)
  PROVE  IsFiniteSet(Range(s)) /\ Cardinality(Range(s)) = Len(s)
<1>1. Len(s) \in Nat /\ DOMAIN s = 1..Len(s) /\ s \in [1..Len(s) -> S]
  BY LenProperties
<1>2. s \in [1..Len(s) -> Range(s)]
  BY <1>1 DEF Range
<1>3. s \in Bijection(1..Len(s), Range(s))
  BY <1>1, <1>2, Zenon DEF Bijection, Injection, Surjection,
                          IsInjective, Range
<1>4. ExistsBijection(1..Len(s), Range(s))
  BY <1>3 DEF ExistsBijection
<1> QED BY <1>1, <1>4, FS_CountingElements, FS_NatBijection

\* A sequence without repetitions and with one value at most is short.
LEMMA LoneElement ==
  ASSUME NEW S, NEW s \in Seq(S), IsInjective(s), s # <<>>,
         \A x, y \in Range(s) : x = y
  PROVE  Tail(s) = <<>>
<1>1. \A i, j \in 1..Len(s) : i = j
  <2> SUFFICES ASSUME NEW i \in 1..Len(s), NEW j \in 1..Len(s) PROVE i = j
    OBVIOUS
  <2>1. i \in DOMAIN s /\ j \in DOMAIN s
    OBVIOUS
  <2>2. s[i] \in Range(s) /\ s[j] \in Range(s)
    BY <2>1 DEF Range
  <2> QED BY <2>1, <2>2 DEF IsInjective
<1>2. Len(s) \in Nat /\ Len(s) > 0
  OBVIOUS
<1>3. ~(Len(s) >= 2)
  BY <1>1, <1>2
<1>4. Len(s) = 1
  <2>1. \A n \in Nat : n > 0 /\ ~(n >= 2) => n = 1
    OBVIOUS
  <2> QED BY ONLY <1>2, <1>3, <2>1, Zenon
<1>5. Tail(s) \in Seq(S) /\ Len(Tail(s)) = 0
  BY <1>4, HeadTailProperties
<1> QED BY ONLY <1>5, EmptySeq

\* Two lists without a common element, one after the other.
LEMMA Concatenation ==
  ASSUME NEW S, NEW s \in Seq(S), NEW t \in Seq(S), IsInjective(s), IsInjective(t),
         Range(s) \cap Range(t) = {}
  PROVE  /\ s \o t \in Seq(S) /\ IsInjective(s \o t)
         /\ Range(s \o t) = Range(s) \cup Range(t)
<1>1. /\ Len(s) \in Nat /\ Len(t) \in Nat
      /\ DOMAIN s = 1..Len(s) /\ DOMAIN t = 1..Len(t)
  BY LenProperties
<1>2. PICK c \in Seq(S) : c = s \o t
  BY ConcatProperties
<1>3. /\ Len(c) = Len(s) + Len(t) /\ DOMAIN c = 1..Len(c)
      /\ \A i \in 1..Len(s) + Len(t) :
           c[i] = IF i <= Len(s) THEN s[i] ELSE t[i - Len(s)]
  BY <1>2, ConcatProperties, LenProperties
<1>4. \A i \in 1..Len(s), j \in 1..Len(t) : s[i] # t[j]
  BY <1>1 DEF Range
<1>5. IsInjective(c)
  <2> SUFFICES ASSUME NEW i \in 1..Len(c), NEW j \in 1..Len(c), c[i] = c[j]
               PROVE  i = j
    BY <1>3 DEF IsInjective
  <2>1. CASE i <= Len(s) /\ j <= Len(s)
    BY <1>1, <1>3, <2>1 DEF IsInjective
  <2>2. CASE i > Len(s) /\ j > Len(s)
    <3>1. i - Len(s) \in 1..Len(t) /\ j - Len(s) \in 1..Len(t)
      BY <1>1, <1>3, <2>2
    <3>2. t[i - Len(s)] = t[j - Len(s)]
      BY <1>1, <1>3, <2>2
    <3>3. i - Len(s) = j - Len(s)
      BY <1>1, <3>1, <3>2 DEF IsInjective
    <3> QED BY <1>1, <1>3, <3>3
  <2>3. CASE i <= Len(s) /\ j > Len(s)
    <3>1. i \in 1..Len(s) /\ j - Len(s) \in 1..Len(t)
      BY <1>1, <1>3, <2>3
    <3> QED BY <1>1, <1>3, <1>4, <2>3, <3>1
  <2>4. CASE i > Len(s) /\ j <= Len(s)
    <3>1. j \in 1..Len(s) /\ i - Len(s) \in 1..Len(t)
      BY <1>1, <1>3, <2>4
    <3> QED BY <1>1, <1>3, <1>4, <2>4, <3>1
  <2> QED BY <1>1, <1>3, <2>1, <2>2, <2>3, <2>4
<1>6. Range(c) = Range(s) \cup Range(t)
  <2>1. ASSUME NEW x \in Range(c) PROVE x \in Range(s) \cup Range(t)
    <3>1. PICK i \in 1..Len(c) : x = c[i]
      BY <1>3 DEF Range
    <3>2. CASE i <= Len(s)
      <4>1. i \in 1..Len(s) /\ c[i] = s[i]
        BY <1>1, <1>3, <3>2
      <4> QED BY <1>1, <3>1, <4>1 DEF Range
    <3>3. CASE i > Len(s)
      <4>1. i - Len(s) \in 1..Len(t) /\ c[i] = t[i - Len(s)]
        BY <1>1, <1>3, <3>3
      <4> QED BY <1>1, <3>1, <4>1 DEF Range
    <3> QED BY <1>1, <1>3, <3>2, <3>3
  <2>2. ASSUME NEW x \in Range(s) PROVE x \in Range(c)
    <3>1. PICK i \in 1..Len(s) : x = s[i]
      BY <1>1 DEF Range
    <3>2. i \in 1..Len(c) /\ c[i] = x
      BY <1>1, <1>3, <3>1
    <3> QED BY <1>3, <3>2 DEF Range
  <2>3. ASSUME NEW x \in Range(t) PROVE x \in Range(c)
    <3>1. PICK i \in 1..Len(t) : x = t[i]
      BY <1>1 DEF Range
    <3> DEFINE j == i + Len(s)
    <3>2. j \in 1..Len(c) /\ ~(j <= Len(s)) /\ j - Len(s) = i
      BY <1>1, <1>3, <3>1
    <3> HIDE DEF j
    <3>3. c[j] = x
      BY <1>3, <3>1, <3>2
    <3> QED BY <1>3, <3>2, <3>3 DEF Range
  <2> QED BY <2>1, <2>2, <2>3
<1> QED BY <1>2, <1>5, <1>6
===============================================================================
