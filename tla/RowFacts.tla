------------------------------- MODULE RowFacts -------------------------------
(***************************************************************************)
(* Facts about lists and row numbers that the proofs of several models     *)
(* need: what Min, Max, RemoveAt, RemoveFirst and InsertAt of the          *)
(* community modules return.                                               *)
(***************************************************************************)
EXTENDS Integers, Sequences, FiniteSets, SequencesExt, Rows,
        FiniteSetTheorems, SequenceTheorems, TLAPS

\* Min finds a least element of a non-empty set of numbers.
LEMMA MinOfRows ==
  ASSUME NEW I \in SUBSET Nat, I # {}
  PROVE  Min(I) \in I /\ \A k \in I : Min(I) <= k
<1> DEFINE T == {0..x : x \in I}
<1>1. T \subseteq FiniteSubsetsOf(Nat) /\ T # {}
  <2>1. \A x \in I : 0..x \in SUBSET Nat
    OBVIOUS
  <2>2. \A x \in I : IsFiniteSet(0..x)
    BY FS_Interval
  <2> QED
    BY <2>1, <2>2 DEF FiniteSubsetsOf
<1>2. PICK J \in T : \A K \in T : ~ (<<K, J>> \in StrictSubsetOrdering(Nat))
  BY <1>1, WFMin, FS_StrictSubsetOrderingWellFounded
<1>3. PICK x \in I : J = 0..x
  OBVIOUS
<1>4. ASSUME NEW y \in I PROVE x <= y
  <2>1. ~ (<<0..y, 0..x>> \in StrictSubsetOrdering(Nat))
    BY <1>2, <1>3
  <2>2. SUFFICES ASSUME y < x PROVE FALSE
    OBVIOUS
  <2>3. (0..y) \subseteq (0..x) /\ (0..y) # (0..x)
    BY <2>2
  <2>4. (0..y) \in SUBSET Nat /\ (0..x) \in SUBSET Nat
    OBVIOUS
  <2> QED
    BY <2>1, <2>3, <2>4 DEF StrictSubsetOrdering
<1> QED
  BY <1>4 DEF Min

\* Every set of numbers has a least one.
LEMMA RowsOrdered == \A I \in SUBSET Nat : I # {} => \E m \in I : \A k \in I : m <= k
BY MinOfRows

\* Max finds a greatest row number of a list.
LEMMA MaxOfRows ==
  ASSUME NEW n \in Nat, NEW I \in SUBSET (1..n), I # {}
  PROVE  Max(I) \in I /\ \A k \in I : k <= Max(I)
<1> DEFINE J == {n - x : x \in I}
<1>1. J \in SUBSET Nat /\ J # {}
  <2>1. \A x \in I : n - x \in Nat
    OBVIOUS
  <2> QED
    BY <2>1
<1>2. Min(J) \in J /\ \A k \in J : Min(J) <= k
  <2> HIDE DEF J
  <2> QED
    BY <1>1, MinOfRows
<1>3. PICK x \in I : Min(J) = n - x
  BY <1>2
<1>4. \A y \in I : y <= x
  <2> TAKE y \in I
  <2>1. n - x <= n - y
    BY <1>2, <1>3
  <2> QED
    BY <2>1
<1> QED
  BY <1>4 DEF Max

\* Taking out a row keeps the others, in order.
LEMMA RemoveAtFacts ==
  ASSUME NEW S, NEW s \in Seq(S), NEW i \in DOMAIN s
  PROVE  /\ RemoveAt(s, i) \in Seq(S)
         /\ Len(RemoveAt(s, i)) = Len(s) - 1
         /\ \A j \in 1..Len(s) - 1 :
              RemoveAt(s, i)[j] = s[IF j < i THEN j ELSE j + 1]
<1> DEFINE a == SubSeq(s, 1, i - 1)
           b == SubSeq(s, i + 1, Len(s))
<1>1. i \in 1..Len(s) /\ Len(s) \in Nat
  OBVIOUS
<1>2. /\ a \in Seq(S) /\ Len(a) = i - 1
      /\ \A j \in 1..i - 1 : a[j] = s[j]
  BY <1>1
<1>3. /\ b \in Seq(S) /\ Len(b) = Len(s) - i
      /\ \A j \in 1..Len(s) - i : b[j] = s[i + j]
  BY <1>1
<1>4. /\ a \o b \in Seq(S) /\ Len(a \o b) = Len(s) - 1
      /\ \A j \in 1..Len(s) - 1 :
           (a \o b)[j] = IF j < i THEN a[j] ELSE b[j - (i - 1)]
  <2> HIDE DEF a, b
  <2>1. a \o b \in Seq(S) /\ Len(a \o b) = Len(a) + Len(b)
    BY <1>2, <1>3, ConcatProperties
  <2>2. Len(a) + Len(b) = Len(s) - 1
    BY <1>1, <1>2, <1>3
  <2>3. \A j \in 1..Len(a) + Len(b) : (a \o b)[j] = IF j <= Len(a) THEN a[j] ELSE b[j - Len(a)]
    BY <1>2, <1>3, ConcatProperties
  <2>4. \A j \in 1..Len(s) - 1 : j <= Len(a) <=> j < i
    BY <1>1, <1>2
  <2> QED
    BY <1>2, <2>1, <2>2, <2>3, <2>4
<1>5. ASSUME NEW j \in 1..Len(s) - 1
      PROVE  (a \o b)[j] = s[IF j < i THEN j ELSE j + 1]
  <2>1. CASE j < i
    BY <1>2, <1>4, <2>1
  <2>2. CASE ~ (j < i)
    <3>1. j - (i - 1) \in 1..Len(s) - i /\ i + (j - (i - 1)) = j + 1
      BY <1>1, <2>2
    <3> QED
      BY <1>3, <1>4, <2>2, <3>1
  <2> QED
    BY <2>1, <2>2
<1> QED
  BY <1>4, <1>5 DEF RemoveAt

\* ... none of them twice, if none was before.
LEMMA RemoveAtInjective ==
  ASSUME NEW S, NEW s \in Seq(S), NEW i \in DOMAIN s, IsInjective(s)
  PROVE  IsInjective(RemoveAt(s, i))
<1> DEFINE t == RemoveAt(s, i)
           old(m) == IF m < i THEN m ELSE m + 1
<1>1. /\ DOMAIN t = 1..Len(s) - 1 /\ Len(s) \in Nat /\ i \in 1..Len(s)
      /\ \A j \in 1..Len(s) - 1 : t[j] = s[old(j)]
  <2>1. t \in Seq(S) /\ Len(t) = Len(s) - 1
    BY RemoveAtFacts
  <2>2. DOMAIN t = 1..Len(t)
    BY <2>1
  <2>3. \A j \in 1..Len(s) - 1 : t[j] = s[old(j)]
    BY RemoveAtFacts
  <2>4. Len(s) \in Nat /\ i \in 1..Len(s)
    OBVIOUS
  <2> QED
    BY <2>1, <2>2, <2>3, <2>4
<1> SUFFICES ASSUME NEW j \in 1..Len(s) - 1, NEW k \in 1..Len(s) - 1, t[j] = t[k]
             PROVE  j = k
  BY <1>1 DEF IsInjective
<1>2. old(j) \in DOMAIN s /\ old(k) \in DOMAIN s
  BY <1>1
<1>3. old(j) = old(k)
  BY <1>1, <1>2 DEF IsInjective
<1> QED
  BY <1>1, <1>3

\* Taking out the first row that is x, where there is one.
LEMMA RemoveFirstFacts ==
  ASSUME NEW S, NEW s \in Seq(S), NEW x, Contains(s, x)
  PROVE  \E k \in DOMAIN s : s[k] = x /\ RemoveFirst(s, x) = RemoveAt(s, k)
<1> DEFINE I == {i \in 1..Len(s) : s[i] = x}
<1>1. I \in SUBSET Nat /\ I # {}
  BY DEF Contains
<1>2. Min(I) \in I
  <2> HIDE DEF I
  <2> QED
    BY <1>1, MinOfRows
<1>3. SelectInSeq(s, LAMBDA v : v = x) = Min(I)
  BY <1>1 DEF SelectInSeq
<1>4. RemoveFirst(s, x) = RemoveAt(s, Min(I))
  BY <1>3 DEF RemoveFirst, Contains
<1>5. Min(I) \in DOMAIN s /\ s[Min(I)] = x
  BY <1>2
<1> QED
  BY <1>4, <1>5

\* Putting a row in keeps the others, in order.
LEMMA InsertAtFacts ==
  ASSUME NEW S, NEW s \in Seq(S), NEW i \in 1..Len(s) + 1, NEW x \in S
  PROVE  /\ InsertAt(s, i, x) \in Seq(S)
         /\ Len(InsertAt(s, i, x)) = Len(s) + 1
         /\ \A j \in 1..Len(s) + 1 :
              InsertAt(s, i, x)[j] = IF j < i THEN s[j] ELSE IF j = i THEN x ELSE s[j - 1]
<1> DEFINE a == SubSeq(s, 1, i - 1)
           b == SubSeq(s, i, Len(s))
           c == a \o <<x>>
           d == c \o b
<1>1. Len(s) \in Nat /\ i \in Nat
  OBVIOUS
<1>2. /\ a \in Seq(S) /\ Len(a) = i - 1
      /\ \A j \in 1..i - 1 : a[j] = s[j]
  BY <1>1
<1>3. /\ b \in Seq(S) /\ Len(b) = Len(s) + 1 - i
      /\ \A j \in 1..Len(s) + 1 - i : b[j] = s[i + j - 1]
  BY <1>1
<1>4. /\ c \in Seq(S) /\ Len(c) = i
      /\ \A j \in 1..i : c[j] = IF j < i THEN s[j] ELSE x
  <2> HIDE DEF a
  <2>1. <<x>> \in Seq(S) /\ Len(<<x>>) = 1 /\ <<x>>[1] = x
    OBVIOUS
  <2>2. c \in Seq(S) /\ Len(c) = i
    BY <1>2, <2>1, ConcatProperties
  <2>3. \A j \in 1..i : c[j] = IF j <= Len(a) THEN a[j] ELSE <<x>>[j - Len(a)]
    BY <1>2, <2>1, <2>2, ConcatProperties
  <2>4. ASSUME NEW j \in 1..i PROVE c[j] = IF j < i THEN s[j] ELSE x
    <3> HIDE DEF c
    <3>0. j < i \/ j = i
      BY <1>1
    <3>1. CASE j < i
      <4>1. j \in 1..i - 1 /\ j <= Len(a)
        BY <1>2, <3>1
      <4> QED
        BY <1>2, <2>3, <3>1, <4>1
    <3>2. CASE j = i
      BY <1>2, <2>1, <2>3, <3>2
    <3> QED
      BY <3>0, <3>1, <3>2
  <2> QED
    BY <2>2, <2>4
<1>5. /\ d \in Seq(S) /\ Len(d) = Len(s) + 1
      /\ \A j \in 1..Len(s) + 1 : d[j] = IF j <= i THEN c[j] ELSE b[j - i]
  <2> HIDE DEF b, c
  <2>1. c \o b \in Seq(S) /\ Len(c \o b) = Len(c) + Len(b)
    BY <1>3, <1>4, ConcatProperties
  <2>2. Len(c) + Len(b) = Len(s) + 1
    BY <1>1, <1>3, <1>4
  <2>3. \A j \in 1..Len(c) + Len(b) : (c \o b)[j] = IF j <= Len(c) THEN c[j] ELSE b[j - Len(c)]
    BY <1>3, <1>4, ConcatProperties
  <2> QED
    BY <1>4, <2>1, <2>2, <2>3
<1>6. ASSUME NEW j \in 1..Len(s) + 1
      PROVE  d[j] = IF j < i THEN s[j] ELSE IF j = i THEN x ELSE s[j - 1]
  <2> HIDE DEF b, c, d
  <2>0. j <= i \/ i < j
    BY <1>1
  <2>1. CASE j <= i
    <3>1. j \in 1..i /\ d[j] = c[j]
      BY <1>5, <2>1
    <3> QED
      BY <1>4, <2>1, <3>1
  <2>2. CASE i < j
    <3>1. j - i \in 1..Len(s) + 1 - i /\ i + (j - i) - 1 = j - 1
      BY <1>1, <2>2
    <3>2. d[j] = b[j - i]
      BY <1>5, <2>2
    <3> QED
      BY <1>3, <2>2, <3>1, <3>2
  <2> QED
    BY <2>0, <2>1, <2>2
<1>7. InsertAt(s, i, x) = d
  BY DEF InsertAt
<1> QED
  BY <1>5, <1>6, <1>7
\* new is s with x put in at p.
InsertedAt(new, s, p, x) ==
  /\ new[p] = x
  /\ \A j \in 1..Len(s) + 1 : j < p => new[j] = s[j]
  /\ \A j \in 1..Len(s) + 1 : j > p => new[j] = s[j - 1]

LEMMA InsertRow ==
  ASSUME NEW S, NEW s \in Seq(S), NEW p \in 1..Len(s) + 1, NEW x \in S
  PROVE  /\ InsertAt(s, p, x) \in Seq(S)
         /\ Len(InsertAt(s, p, x)) = Len(s) + 1
         /\ InsertedAt(InsertAt(s, p, x), s, p, x)
<1>1. InsertAt(s, p, x) \in Seq(S) /\ Len(InsertAt(s, p, x)) = Len(s) + 1
  BY InsertAtFacts
<1>2. \A j \in 1..Len(s) + 1 :
        InsertAt(s, p, x)[j] = IF j < p THEN s[j] ELSE IF j = p THEN x ELSE s[j - 1]
  BY InsertAtFacts, SMTT(30)
<1>3. p \in Nat /\ Len(s) \in Nat
  OBVIOUS
<1>4. InsertAt(s, p, x)[p] = x
  BY <1>2, <1>3
<1>5. \A j \in 1..Len(s) + 1 : j < p => InsertAt(s, p, x)[j] = s[j]
  BY <1>2
<1>6. \A j \in 1..Len(s) + 1 : j > p => InsertAt(s, p, x)[j] = s[j - 1]
  BY <1>2, <1>3
<1> QED
  BY <1>1, <1>4, <1>5, <1>6 DEF InsertedAt

-----------------------------------------------------------------------------
(* Ranking.                                                                *)

Orders(B, S) ==
  /\ \A x \in S : <<x, x>> \notin B
  /\ \A x, y \in S : x # y => <<x, y>> \in B \/ <<y, x>> \in B
  /\ \A x, y, z \in S : <<x, y>> \in B /\ <<y, z>> \in B => <<x, z>> \in B

\* Ranked lists a finite set in its order.
LEMMA RankedFacts ==
  ASSUME NEW S, IsFiniteSet(S), NEW B, Orders(B, S)
  PROVE  /\ Cardinality(S) \in Nat
         /\ DOMAIN Ranked(S, B) = 1..Cardinality(S)
         /\ Ranked(S, B) \in [1..Cardinality(S) -> S]
         /\ \A i, j \in 1..Cardinality(S) : i < j => <<Ranked(S, B)[i], Ranked(S, B)[j]>> \in B
         /\ \A x \in S : \E i \in 1..Cardinality(S) : Ranked(S, B)[i] = x
         /\ \A x \in S : \A i \in 1..Cardinality(S) :
              Cardinality({y \in S : <<y, x>> \in B}) = i - 1 => Ranked(S, B)[i] = x
<1> DEFINE below(x) == {y \in S : <<y, x>> \in B}
           N == Cardinality(S)
           r == [x \in S |-> Cardinality(below(x))]
<1>1. N \in Nat
  BY FS_CardinalityType
<1>2. ASSUME NEW x \in S PROVE IsFiniteSet(below(x)) /\ Cardinality(below(x)) \in 0..N - 1
  <2>1. below(x) \subseteq S /\ x \notin below(x)
    BY DEF Orders
  <2> HIDE DEF below
  <2>2. IsFiniteSet(below(x)) /\ Cardinality(below(x)) <= N /\ (Cardinality(below(x)) = N => below(x) = S)
    BY <2>1, FS_Subset
  <2>3. Cardinality(below(x)) \in Nat
    BY <2>2, FS_CardinalityType
  <2> QED
    BY <1>1, <2>1, <2>2, <2>3
<1>3. ASSUME NEW x \in S, NEW y \in S, <<x, y>> \in B
      PROVE  Cardinality(below(x)) < Cardinality(below(y))
  <2>1. below(x) \subseteq below(y) /\ x \in below(y) /\ x \notin below(x)
    BY <1>3 DEF Orders
  <2>2. IsFiniteSet(below(y)) /\ Cardinality(below(y)) \in Nat /\ Cardinality(below(x)) \in Nat
    BY <1>1, <1>2
  <2> HIDE DEF below
  <2>3. Cardinality(below(x)) <= Cardinality(below(y)) /\ (Cardinality(below(y)) = Cardinality(below(x)) => below(y) = below(x))
    BY <2>1, <2>2, FS_Subset
  <2> QED
    BY <2>1, <2>2, <2>3
<1>4. \A x \in S : r[x] = Cardinality(below(x)) /\ r[x] \in 0..N - 1 /\ r[x] \in Nat
  <2> SUFFICES ASSUME NEW x \in S
               PROVE  r[x] = Cardinality(below(x)) /\ r[x] \in 0..N - 1 /\ r[x] \in Nat
    OBVIOUS
  <2>1. r[x] = Cardinality(below(x))
    OBVIOUS
  <2>2. Cardinality(below(x)) \in 0..N - 1
    BY <1>2
  <2> HIDE DEF r, below, N
  <2> QED
    BY <1>1, <2>1, <2>2
<1>5. \A x, y \in S : <<x, y>> \in B => r[x] < r[y]
  BY <1>3, <1>4
<1>6. \A x, y \in S : r[x] = r[y] => x = y
  <2> SUFFICES ASSUME NEW x \in S, NEW y \in S, r[x] = r[y], x # y PROVE FALSE
    OBVIOUS
  <2>1. r[x] < r[y] \/ r[y] < r[x]
    BY <1>5 DEF Orders
  <2>2. r[x] \in Nat
    BY <1>4
  <2> HIDE DEF r
  <2> QED
    BY <2>1, <2>2
<1>7. \A i \in 0..N - 1 : \E x \in S : r[x] = i
  <2>1. r \in [S -> 0..N - 1]
    BY <1>4
  <2>2. r \in Injection(S, 0..N - 1)
    <3> HIDE DEF r, N
    <3> QED
      BY <1>6, <2>1 DEF Injection, IsInjective
  <2>3. IsFiniteSet(0..N - 1) /\ Cardinality(0..N - 1) = N
    <3>1. 0 \in Int /\ N - 1 \in Int /\ (0 > N - 1 => N = 0) /\ (N - 1) - 0 + 1 = N
      BY <1>1
    <3> HIDE DEF N
    <3> QED
      BY <3>1, FS_Interval
  <2>4. r \in Surjection(S, 0..N - 1)
    <3> HIDE DEF r
    <3> QED
      BY <2>2, <2>3, FS_Injection
  <2> HIDE DEF r, N
  <2> QED
    BY <2>4 DEF Surjection
<1> DEFINE s == Ranked(S, B)
<1>8. DOMAIN s = 1..N /\ \A i \in 1..N : s[i] \in S /\ r[s[i]] = i - 1
  <2>1. s = [i \in 1..N |-> CHOOSE x \in S : Cardinality(below(x)) = i - 1]
    BY DEF Ranked
  <2>2. ASSUME NEW i \in 1..N PROVE \E x \in S : Cardinality(below(x)) = i - 1
    <3>1. i - 1 \in 0..N - 1
      BY <1>1
    <3>2. PICK x \in S : r[x] = i - 1
      BY <1>7, <3>1
    <3> QED
      BY <1>4, <3>2
  <2>3. ASSUME NEW i \in 1..N PROVE s[i] \in S /\ Cardinality(below(s[i])) = i - 1
    <3> HIDE DEF below
    <3>1. s[i] = CHOOSE x \in S : Cardinality(below(x)) = i - 1
      BY <2>1
    <3> HIDE DEF s
    <3> QED
      BY <2>2, <3>1
  <2>4. DOMAIN s = 1..N
    BY <2>1
  <2> HIDE DEF s, below, r
  <2> QED
    BY <1>4, <2>3, <2>4
<1>9. s \in [1..N -> S]
  <2> DEFINE chosen(i) == CHOOSE x \in S : Cardinality({y \in S : <<y, x>> \in B}) = i - 1
  <2>1. s = [i \in 1..N |-> chosen(i)]
    BY DEF Ranked
  <2> HIDE DEF chosen
  <2>2. \A i \in 1..N : s[i] = chosen(i)
    BY <2>1
  <2> HIDE DEF s
  <2>3. \A i \in 1..N : chosen(i) \in S
    BY <1>8, <2>2
  <2> QED
    BY <2>1, <2>3
<1> HIDE DEF s, r
<1>10. ASSUME NEW i \in 1..N, NEW j \in 1..N, i < j PROVE <<s[i], s[j]>> \in B
  <2>1. s[i] \in S /\ s[j] \in S /\ r[s[i]] = i - 1 /\ r[s[j]] = j - 1
    BY <1>8
  <2>2. i - 1 # j - 1 /\ ~ (j - 1 < i - 1)
    BY <1>1, <1>10
  <2>3. s[i] # s[j] /\ ~ (<<s[j], s[i]>> \in B)
    BY <1>5, <2>1, <2>2
  <2> QED
    BY <2>1, <2>3 DEF Orders
<1>11. ASSUME NEW x \in S PROVE \E i \in 1..N : s[i] = x
  <2>0. r[x] \in 0..N - 1
    BY <1>4
  <2>1. r[x] + 1 \in 1..N /\ (r[x] + 1) - 1 = r[x]
    <3> HIDE DEF N
    <3> QED
      BY <1>1, <2>0
  <2>2. s[r[x] + 1] = x
    BY <1>6, <1>8, <2>1
  <2> QED
    BY <2>1, <2>2
<1>12. ASSUME NEW x \in S, NEW i \in 1..N, Cardinality({y \in S : <<y, x>> \in B}) = i - 1
       PROVE  s[i] = x
  <2>1. r[x] = i - 1
    BY <1>4, <1>12
  <2> QED
    BY <1>6, <1>8, <2>1
<1> QED
  BY <1>1, <1>8, <1>9, <1>10, <1>11, <1>12 DEF s

\* Ascending lists row numbers in order, the rows before each counted.
LEMMA AscendingFacts ==
  ASSUME NEW n \in Nat, NEW I \in SUBSET (1..n)
  PROVE  /\ Cardinality(I) \in Nat
         /\ Ascending(I) \in [1..Cardinality(I) -> I]
         /\ \A i, j \in 1..Cardinality(I) : i < j => Ascending(I)[i] < Ascending(I)[j]
         /\ \A x \in I : \E i \in 1..Cardinality(I) : Ascending(I)[i] = x
<1> DEFINE B == {p \in I \X I : p[1] < p[2]}
<1>1. IsFiniteSet(I)
  <2>1. IsFiniteSet(1..n)
    BY FS_Interval
  <2> QED
    BY <2>1, FS_Subset
<1>2. \A x, y \in I : <<x, y>> \in B <=> x < y
  OBVIOUS
<1>3. \A x, y \in I : <<x, y>> \in I \X I /\ <<x, y>>[1] = x /\ <<x, y>>[2] = y
  OBVIOUS
<1>4. \A x \in I : x \in Int
  OBVIOUS
<1> HIDE DEF B
<1>5. Orders(B, I)
  BY <1>2, <1>4 DEF Orders
<1>6. Ascending(I) = Ranked(I, B)
  BY DEF Ascending, B
<1>7. /\ Cardinality(I) \in Nat
      /\ Ranked(I, B) \in [1..Cardinality(I) -> I]
      /\ \A i, j \in 1..Cardinality(I) : i < j => <<Ranked(I, B)[i], Ranked(I, B)[j]>> \in B
      /\ \A x \in I : \E i \in 1..Cardinality(I) : Ranked(I, B)[i] = x
  BY <1>1, <1>5, RankedFacts
<1>8. \A i, j \in 1..Cardinality(I) : i < j => Ranked(I, B)[i] < Ranked(I, B)[j]
  BY <1>2, <1>7
<1> QED
  BY <1>6, <1>7, <1>8

\* Rows taken out of a list keep their order, and there are no others.
LEMMA RowsAtFacts ==
  ASSUME NEW S, NEW s \in Seq(S), NEW I \in SUBSET DOMAIN s
  PROVE  /\ Len(RowsAt(s, I)) = Cardinality(I) /\ Cardinality(I) \in Nat
         /\ RowsAt(s, I) \in Seq(S)
         /\ Ascending(I) \in [1..Cardinality(I) -> I]
         /\ \A i, j \in 1..Cardinality(I) : i < j => Ascending(I)[i] < Ascending(I)[j]
         /\ \A x \in I : \E i \in 1..Cardinality(I) : Ascending(I)[i] = x
         /\ \A i \in 1..Cardinality(I) : RowsAt(s, I)[i] = s[Ascending(I)[i]]
<1> DEFINE m == Cardinality(I)
           g == Ascending(I)
<1>1. DOMAIN s = 1..Len(s) /\ Len(s) \in Nat
  OBVIOUS
<1>2. /\ m \in Nat /\ g \in [1..m -> I]
      /\ \A i, j \in 1..m : i < j => g[i] < g[j]
      /\ \A x \in I : \E i \in 1..m : g[i] = x
  BY <1>1, AscendingFacts
<1>3. RowsAt(s, I) = [k \in 1..m |-> s[g[k]]]
  <2>1. DOMAIN g = 1..m
    BY <1>2
  <2> QED
    BY <2>1 DEF RowsAt
<1> HIDE DEF m, g
<1>4. \A k \in 1..m : s[g[k]] \in S
  BY <1>1, <1>2
<1>5. RowsAt(s, I) \in [1..m -> S]
  BY <1>3, <1>4
<1>6. RowsAt(s, I) \in Seq(S) /\ Len(RowsAt(s, I)) = m
  BY <1>2, <1>5
<1> QED
  BY <1>2, <1>3, <1>6 DEF m, g

\* The rows of a list, ranked, are what they are.
LEMMA RankedAll ==
  ASSUME NEW n \in Nat, NEW I, I = 1..n, NEW B, \A x, y \in I : <<x, y>> \in B <=> x < y
  PROVE  Cardinality(I) = n /\ \A x \in 1..n : Ranked(I, B)[x] = x
<1>1. IsFiniteSet(I) /\ Cardinality(I) = n
  <2>1. IsFiniteSet(1..n) /\ Cardinality(1..n) = n
    <3>1. 1 \in Int /\ n \in Int /\ (1 > n => n = 0) /\ n - 1 + 1 = n
      OBVIOUS
    <3> QED
      BY <3>1, FS_Interval
  <2> QED
    BY <2>1
<1>2. Orders(B, I)
  BY DEF Orders
<1>3. ASSUME NEW x \in 1..n PROVE Cardinality({y \in I : <<y, x>> \in B}) = x - 1
  <2>1. {y \in I : <<y, x>> \in B} = 1..x - 1
    OBVIOUS
  <2>2. Cardinality(1..x - 1) = x - 1
    BY FS_Interval
  <2> QED
    BY <2>1, <2>2
<1>4. ASSUME NEW x \in 1..n PROVE Ranked(I, B)[x] = x
  <2>1. x \in I /\ x \in 1..Cardinality(I) /\ Cardinality({y \in I : <<y, x>> \in B}) = x - 1
    BY <1>1, <1>3
  <2> QED
    BY <1>1, <1>2, <2>1, RankedFacts
<1> QED
  BY <1>1, <1>4

\* A list of which all rows are taken is that list.
LEMMA RowsAtAll ==
  ASSUME NEW S, NEW s \in Seq(S)
  PROVE  RowsAt(s, DOMAIN s) = s
<1> DEFINE I == DOMAIN s
           n == Len(s)
           B == {p \in I \X I : p[1] < p[2]}
<1>1. I = 1..n /\ n \in Nat
  OBVIOUS
<1>2. \A x, y \in I : <<x, y>> \in B <=> x < y
  OBVIOUS
<1>3. Cardinality(I) = n /\ \A x \in 1..n : Ranked(I, B)[x] = x
  <2> HIDE DEF B, I, n
  <2> QED
    BY <1>1, <1>2, RankedAll
<1>4. Ascending(I) = Ranked(I, B)
  BY DEF Ascending
<1>5. Len(RowsAt(s, I)) = n /\ RowsAt(s, I) \in Seq(S) /\ \A i \in 1..n : RowsAt(s, I)[i] = s[i]
  <2>1. I \in SUBSET DOMAIN s
    OBVIOUS
  <2> HIDE DEF B, I, n
  <2> QED
    BY <1>1, <1>3, <1>4, <2>1, RowsAtFacts
<1> QED
  BY <1>1, <1>5

===============================================================================
