---------------------- MODULE TraySortOrderModel_proofs -----------------------
(***************************************************************************)
(* Theorems about TraySortOrderModel: the rows and the lists of the dock's *)
(* tray agree, and so do the three places that say which surfaces are      *)
(* hidden; nothing but a drag reorders a list, and what is held over a     *)
(* surface lands next to it. The inductive invariant is TrayInv: ModelInv  *)
(* for the lists, the rows and what is seen of them, ConfigInv for what is *)
(* saved, called and told, DragInv for a drag and what it staged.          *)
(***************************************************************************)
EXTENDS TraySortOrderModel, RowFacts

-----------------------------------------------------------------------------
(* How often a list names something.                                       *)

\* The places of x in s.
PlacesOf(s, x) == {i \in DOMAIN s : s[i] = x}

\* It is a number, which is 0 for what the list does not name.
LEMMA TimesIsNumber ==
  ASSUME NEW S, NEW s \in Seq(S), NEW x
  PROVE  /\ Times(s, x) \in Nat /\ Times(s, x) = Cardinality(PlacesOf(s, x))
         /\ IsFiniteSet(PlacesOf(s, x)) /\ PlacesOf(s, x) \in SUBSET (1..Len(s))
         /\ Times(s, x) = 0 <=> ~ Contains(s, x)
         /\ Contains(s, x) <=> \E i \in DOMAIN s : s[i] = x
<1>1. DOMAIN s = 1..Len(s) /\ Len(s) \in Nat
  OBVIOUS
<1>2. PlacesOf(s, x) \in SUBSET (1..Len(s))
  BY <1>1 DEF PlacesOf
<1>3. IsFiniteSet(1..Len(s))
  BY <1>1, FS_Interval
<1>4. IsFiniteSet(PlacesOf(s, x))
  BY <1>2, <1>3, FS_Subset
<1>5. Times(s, x) = Cardinality(PlacesOf(s, x))
  BY DEF Times, PlacesOf
<1>6. Cardinality(PlacesOf(s, x)) \in Nat
  BY <1>4, FS_CardinalityType
<1>7. Contains(s, x) <=> \E i \in DOMAIN s : s[i] = x
  BY <1>1 DEF Contains
<1>8. Contains(s, x) <=> PlacesOf(s, x) # {}
  BY <1>7 DEF PlacesOf
<1>9. Cardinality(PlacesOf(s, x)) = 0 <=> PlacesOf(s, x) = {}
  BY <1>4, FS_EmptySet
<1> QED
  BY <1>2, <1>4, <1>5, <1>6, <1>7, <1>8, <1>9

\* A thing the list names once has one place.
LEMMA OncePlaced ==
  ASSUME NEW S, NEW s \in Seq(S), NEW x, Times(s, x) = 1
  PROVE  \E i \in DOMAIN s : s[i] = x /\ \A j \in DOMAIN s : s[j] = x => j = i
<1>1. IsFiniteSet(PlacesOf(s, x)) /\ Cardinality(PlacesOf(s, x)) = 1
  BY TimesIsNumber
<1>2. PICK i : PlacesOf(s, x) = {i}
  BY <1>1, FS_Singleton
<1>3. i \in DOMAIN s /\ s[i] = x
  BY <1>2 DEF PlacesOf
<1>4. \A j \in DOMAIN s : s[j] = x => j = i
  BY <1>2 DEF PlacesOf
<1> QED
  BY <1>3, <1>4

\* Places that correspond one to one are as many.
LEMMA SamePlaces ==
  ASSUME NEW S, NEW s \in Seq(S), NEW T, NEW t \in Seq(T), NEW x, NEW y,
         NEW f \in Bijection(PlacesOf(s, x), PlacesOf(t, y))
  PROVE  Times(s, x) = Times(t, y)
<1>1. IsFiniteSet(PlacesOf(s, x))
  BY TimesIsNumber
<1>2. ExistsBijection(PlacesOf(s, x), PlacesOf(t, y))
  BY DEF ExistsBijection
<1>3. Cardinality(PlacesOf(t, y)) = Cardinality(PlacesOf(s, x))
  BY <1>1, <1>2, FS_Bijection
<1> QED
  BY <1>3, TimesIsNumber

\* Of a list with one row, and of one with none.
LEMMA TimesInOne ==
  ASSUME NEW x, NEW y
  PROVE  Times(<<y>>, x) = IF x = y THEN 1 ELSE 0
<1>1. DOMAIN <<y>> = {1} /\ <<y>>[1] = y
  OBVIOUS
<1>2. CASE x = y
  <2>1. {i \in DOMAIN <<y>> : <<y>>[i] = x} = {1}
    BY <1>1, <1>2
  <2>2. Cardinality({1}) = 1
    BY FS_Singleton
  <2> QED
    BY <1>2, <2>1, <2>2 DEF Times
<1>3. CASE x # y
  <2>1. {i \in DOMAIN <<y>> : <<y>>[i] = x} = {}
    BY <1>1, <1>3
  <2>2. Cardinality({}) = 0
    BY FS_EmptySet
  <2> QED
    BY <1>3, <2>1, <2>2 DEF Times
<1> QED
  BY <1>2, <1>3

LEMMA TimesInNone ==
  ASSUME NEW x
  PROVE  Times(<< >>, x) = 0
<1>1. {i \in DOMAIN << >> : << >>[i] = x} = {}
  OBVIOUS
<1> QED
  BY <1>1, FS_EmptySet DEF Times

\* Of two lists, one behind the other.
LEMMA TimesInBoth ==
  ASSUME NEW S, NEW a \in Seq(S), NEW b \in Seq(S), NEW x
  PROVE  a \o b \in Seq(S) /\ Times(a \o b, x) = Times(a, x) + Times(b, x)
<1> DEFINE c == a \o b
           n == Len(a)
           A == PlacesOf(a, x)
           B == PlacesOf(b, x)
           C == {i \in DOMAIN c : c[i] = x /\ i > n}
           f == [i \in B |-> n + i]
<1>1. /\ c \in Seq(S) /\ n \in Nat /\ Len(b) \in Nat /\ Len(c) = n + Len(b)
      /\ DOMAIN a = 1..n /\ DOMAIN b = 1..Len(b) /\ DOMAIN c = 1..n + Len(b)
      /\ \A i \in 1..n : c[i] = a[i]
      /\ \A i \in 1..Len(b) : c[n + i] = b[i]
  OBVIOUS
<1> HIDE DEF c, n
<1>2. IsFiniteSet(A) /\ IsFiniteSet(B) /\ IsFiniteSet(PlacesOf(c, x))
  BY <1>1, TimesIsNumber
<1>3. PlacesOf(c, x) = A \cup C /\ A \cap C = {}
  <2>1. A \cap C = {}
    BY <1>1 DEF PlacesOf
  <2>2. ASSUME NEW i \in PlacesOf(c, x) PROVE i \in A \cup C
    <3>1. i \in 1..n + Len(b) /\ c[i] = x
      BY <1>1, <2>2 DEF PlacesOf
    <3>2. CASE i > n
      BY <1>1, <3>1, <3>2
    <3>3. CASE i <= n
      <4>1. i \in 1..n
        BY <1>1, <3>1, <3>3
      <4> QED
        BY <1>1, <3>1, <4>1 DEF PlacesOf
    <3> QED
      BY <1>1, <3>1, <3>2, <3>3
  <2>3. C \subseteq PlacesOf(c, x)
    BY DEF PlacesOf
  <2>4. ASSUME NEW i \in A PROVE i \in PlacesOf(c, x)
    <3>1. i \in 1..n /\ a[i] = x
      BY <1>1, <2>4 DEF PlacesOf
    <3>2. i \in 1..n + Len(b) /\ c[i] = x
      BY <1>1, <3>1
    <3> QED
      BY <1>1, <3>2 DEF PlacesOf
  <2> QED
    BY <2>1, <2>2, <2>3, <2>4
<1>4. f \in Bijection(B, C)
  <2>1. \A i \in B : i \in 1..Len(b) /\ b[i] = x
    BY <1>1 DEF PlacesOf
  <2>2. \A i \in B : f[i] = n + i /\ n + i \in C
    <3> SUFFICES ASSUME NEW i \in B PROVE n + i \in C
      OBVIOUS
    <3>1. i \in 1..Len(b) /\ c[n + i] = x
      BY <1>1, <2>1
    <3>2. n + i \in 1..n + Len(b) /\ n + i > n
      BY <1>1, <3>1
    <3> QED
      BY <1>1, <3>1, <3>2
  <2>3. f \in [B -> C]
    BY <2>2
  <2>4. \A i, j \in B : f[i] = f[j] => i = j
    BY <1>1, <2>1, <2>2
  <2>5. \A k \in C : \E i \in B : f[i] = k
    <3> SUFFICES ASSUME NEW k \in C PROVE \E i \in B : f[i] = k
      OBVIOUS
    <3>1. k \in 1..n + Len(b) /\ k > n /\ c[k] = x
      BY <1>1
    <3>2. k - n \in 1..Len(b) /\ n + (k - n) = k
      BY <1>1, <3>1
    <3>3. b[k - n] = x
      BY <1>1, <3>1, <3>2
    <3>4. k - n \in B
      BY <1>1, <3>2, <3>3 DEF PlacesOf
    <3> QED
      BY <2>2, <3>2, <3>4
  <2> HIDE DEF f, B, C
  <2> QED
    BY <2>3, <2>4, <2>5, Zenon DEF Bijection, Injection, Surjection, IsInjective
<1>5. IsFiniteSet(C) /\ Cardinality(C) = Cardinality(B)
  <2>1. ExistsBijection(B, C)
    BY <1>4 DEF ExistsBijection
  <2> QED
    BY <1>2, <2>1, FS_Bijection
<1>6. Cardinality(A \cup C) = Cardinality(A) + Cardinality(C) - Cardinality(A \cap C)
  BY <1>2, <1>5, FS_Union
<1>7. Cardinality(A \cap C) = 0
  BY <1>3, FS_EmptySet
<1>8. Cardinality(A) \in Nat /\ Cardinality(C) \in Nat
  BY <1>2, <1>5, FS_CardinalityType
<1>9. /\ Times(c, x) = Cardinality(PlacesOf(c, x)) /\ Times(a, x) = Cardinality(A)
      /\ Times(b, x) = Cardinality(B)
  BY <1>1, TimesIsNumber
<1> HIDE DEF A, B, C
<1>10. Times(c, x) = Times(a, x) + Times(b, x)
  BY <1>3, <1>5, <1>6, <1>7, <1>8, <1>9
<1> QED
  BY <1>1, <1>10 DEF c

\* Of a list with one row more.
LEMMA TimesAppended ==
  ASSUME NEW S, NEW s \in Seq(S), NEW y \in S, NEW x
  PROVE  /\ Append(s, y) \in Seq(S) /\ Times(Append(s, y), x) = Times(s, x) + (IF x = y THEN 1 ELSE 0)
         /\ <<y>> \o s \in Seq(S) /\ Times(<<y>> \o s, x) = Times(s, x) + (IF x = y THEN 1 ELSE 0)
<1> DEFINE u == <<y>>
<1>1. u \in Seq(S) /\ Append(s, y) = s \o u
  OBVIOUS
<1>2. Times(u, x) = IF x = y THEN 1 ELSE 0
  BY TimesInOne
<1>0. <<y>> = u
  OBVIOUS
<1> HIDE DEF u
<1>3. s \o u \in Seq(S) /\ Times(s \o u, x) = Times(s, x) + Times(u, x)
  BY <1>1, TimesInBoth
<1>4. u \o s \in Seq(S) /\ Times(u \o s, x) = Times(u, x) + Times(s, x)
  BY <1>1, TimesInBoth
<1>5. Times(s, x) \in Nat
  BY TimesIsNumber
<1> QED
  BY <1>0, <1>1, <1>2, <1>3, <1>4, <1>5

LEMMA TimesLonger ==
  ASSUME NEW S, NEW s \in Seq(S), NEW y \in S, NEW x
  PROVE  Append(s, y) \in Seq(S) /\ Times(Append(s, y), x) = Times(s, x) + (IF x = y THEN 1 ELSE 0)
<1>1. /\ Append(s, y) \in Seq(S) /\ Times(Append(s, y), x) = Times(s, x) + (IF x = y THEN 1 ELSE 0)
      /\ <<y>> \o s \in Seq(S) /\ Times(<<y>> \o s, x) = Times(s, x) + (IF x = y THEN 1 ELSE 0)
  BY TimesAppended
<1> QED
  BY <1>1

\* Of a list in which something was put.
LEMMA TimesInserted ==
  ASSUME NEW S, NEW s \in Seq(S), NEW p \in 1..Len(s) + 1, NEW y \in S, NEW x
  PROVE  /\ InsertAt(s, p, y) \in Seq(S)
         /\ Times(InsertAt(s, p, y), x) = Times(s, x) + (IF x = y THEN 1 ELSE 0)
<1> DEFINE a == SubSeq(s, 1, p - 1)
           b == SubSeq(s, p, Len(s))
           u == <<y>>
           c == a \o b
           d == a \o u
<1>1. p \in Nat /\ Len(s) \in Nat /\ 1 <= p /\ p <= Len(s) + 1
  OBVIOUS
<1>2. a \in Seq(S) /\ b \in Seq(S) /\ u \in Seq(S)
  BY <1>1
<1>3. s = c
  <2>1. /\ Len(a) = p - 1 /\ Len(b) = Len(s) - p + 1
        /\ \A j \in 1..p - 1 : a[j] = s[j]
        /\ \A j \in 1..Len(s) - p + 1 : b[j] = s[p + j - 1]
    BY <1>1
  <2>2. /\ c \in Seq(S) /\ Len(c) = Len(a) + Len(b)
        /\ \A j \in 1..Len(a) : c[j] = a[j]
        /\ \A j \in 1..Len(b) : c[Len(a) + j] = b[j]
    <3> HIDE DEF a, b
    <3> QED
      BY <1>2
  <2> HIDE DEF a, b, c
  <2>3. \A j \in 1..Len(s) : c[j] = s[j]
    <3> SUFFICES ASSUME NEW j \in 1..Len(s) PROVE c[j] = s[j]
      OBVIOUS
    <3>1. CASE j < p
      <4>1. j \in 1..p - 1
        BY <1>1, <3>1
      <4> QED
        BY <1>1, <2>1, <2>2, <4>1
    <3>2. CASE j >= p
      <4>1. j - p + 1 \in 1..Len(s) - p + 1 /\ Len(a) + (j - p + 1) = j /\ p + (j - p + 1) - 1 = j
        BY <1>1, <2>1, <3>2
      <4> QED
        BY <1>1, <2>1, <2>2, <4>1
    <3> QED
      BY <1>1, <3>1, <3>2
  <2>4. Len(c) = Len(s)
    BY <1>1, <2>1, <2>2
  <2> QED
    BY <1>1, <2>2, <2>3, <2>4
<1>4. InsertAt(s, p, y) = d \o b
  BY DEF InsertAt
<1>5. Times(u, x) = IF x = y THEN 1 ELSE 0
  BY TimesInOne
<1> HIDE DEF a, b, u
<1>6. Times(c, x) = Times(a, x) + Times(b, x)
  BY <1>2, TimesInBoth
<1>7. d \in Seq(S) /\ Times(d, x) = Times(a, x) + Times(u, x)
  BY <1>2, TimesInBoth
<1> HIDE DEF c, d
<1>8. d \o b \in Seq(S) /\ Times(d \o b, x) = Times(d, x) + Times(b, x)
  BY <1>2, <1>7, TimesInBoth
<1>9. Times(a, x) \in Nat /\ Times(b, x) \in Nat
  BY <1>2, TimesIsNumber
<1> QED
  BY <1>3, <1>4, <1>5, <1>6, <1>7, <1>8, <1>9

\* Of the rows at the places I.
LEMMA TimesAt ==
  ASSUME NEW S, NEW s \in Seq(S), NEW I \in SUBSET DOMAIN s, NEW x
  PROVE  /\ RowsAt(s, I) \in Seq(S) /\ Len(RowsAt(s, I)) = Cardinality(I)
         /\ (\A i \in DOMAIN s : s[i] = x => i \in I) => Times(RowsAt(s, I), x) = Times(s, x)
         /\ (\A i \in I : s[i] # x) => Times(RowsAt(s, I), x) = 0
<1> DEFINE t == RowsAt(s, I)
           n == Cardinality(I)
           g == Ascending(I)
           f == [k \in PlacesOf(t, x) |-> g[k]]
<1>1. /\ Len(t) = n /\ n \in Nat /\ t \in Seq(S) /\ DOMAIN t = 1..n
      /\ g \in [1..n -> I]
      /\ \A i, j \in 1..n : i < j => g[i] < g[j]
      /\ \A y \in I : \E i \in 1..n : g[i] = y
      /\ \A i \in 1..n : t[i] = s[g[i]]
  <2>1. /\ Len(t) = n /\ n \in Nat /\ t \in Seq(S)
        /\ g \in [1..n -> I]
        /\ \A i, j \in 1..n : i < j => g[i] < g[j]
        /\ \A y \in I : \E i \in 1..n : g[i] = y
        /\ \A i \in 1..n : t[i] = s[g[i]]
    BY RowsAtFacts
  <2> HIDE DEF t, n, g
  <2>2. DOMAIN t = 1..Len(t)
    BY <2>1
  <2> QED
    BY <2>1, <2>2
<1>2. DOMAIN s = 1..Len(s) /\ Len(s) \in Nat /\ \A i \in I : i \in Nat
  OBVIOUS
<1> HIDE DEF t, n, g
<1>3. ASSUME \A i \in DOMAIN s : s[i] = x => i \in I PROVE Times(t, x) = Times(s, x)
  <2>1. \A k \in PlacesOf(t, x) : k \in 1..n /\ g[k] \in I /\ s[g[k]] = x
    BY <1>1 DEF PlacesOf
  <2>2. f \in [PlacesOf(t, x) -> PlacesOf(s, x)]
    BY <2>1 DEF PlacesOf
  <2>3. \A i, j \in PlacesOf(t, x) : f[i] = f[j] => i = j
    <3> SUFFICES ASSUME NEW i \in PlacesOf(t, x), NEW j \in PlacesOf(t, x), f[i] = f[j] PROVE i = j
      OBVIOUS
    <3>1. i \in 1..n /\ j \in 1..n /\ g[i] = g[j] /\ g[i] \in Nat
      BY <1>1, <1>2, <2>1
    <3>2. ~ (i < j) /\ ~ (j < i)
      BY <1>1, <3>1
    <3> QED
      BY <1>1, <3>1, <3>2
  <2>4. \A i \in PlacesOf(s, x) : \E k \in PlacesOf(t, x) : f[k] = i
    <3> SUFFICES ASSUME NEW i \in PlacesOf(s, x) PROVE \E k \in PlacesOf(t, x) : f[k] = i
      OBVIOUS
    <3>1. i \in I /\ s[i] = x
      BY <1>3 DEF PlacesOf
    <3>2. PICK k \in 1..n : g[k] = i
      BY <1>1, <3>1
    <3>3. k \in PlacesOf(t, x)
      BY <1>1, <3>1, <3>2 DEF PlacesOf
    <3> QED
      BY <3>2, <3>3
  <2> HIDE DEF f
  <2>5. f \in Bijection(PlacesOf(t, x), PlacesOf(s, x))
    BY <2>2, <2>3, <2>4, Zenon DEF Bijection, Injection, Surjection, IsInjective
  <2> QED
    BY <1>1, <2>5, SamePlaces
<1>4. ASSUME \A i \in I : s[i] # x PROVE Times(t, x) = 0
  <2>1. ~ \E i \in DOMAIN t : t[i] = x
    BY <1>1, <1>4
  <2> QED
    BY <1>1, <2>1, TimesIsNumber
<1> QED
  BY <1>1, <1>3, <1>4 DEF t, n

\* Of a list without y.
LEMMA TimesWithout ==
  ASSUME NEW S, NEW s \in Seq(S), NEW y, NEW x
  PROVE  /\ Without(s, y) \in Seq(S) /\ Len(Without(s, y)) = Len(s) - Times(s, y)
         /\ Times(Without(s, y), x) = IF x = y THEN 0 ELSE Times(s, x)
<1> DEFINE I == {i \in DOMAIN s : s[i] # y}
<1>1. Without(s, y) = RowsAt(s, I) /\ I \in SUBSET DOMAIN s
  BY DEF Without
<1>2. Len(s) \in Nat /\ DOMAIN s = 1..Len(s)
  OBVIOUS
<1>3. I = (1..Len(s)) \ PlacesOf(s, y)
  BY <1>2 DEF PlacesOf
<1>4. /\ Without(s, y) \in Seq(S) /\ Len(Without(s, y)) = Cardinality(I)
      /\ (\A i \in DOMAIN s : s[i] = x => i \in I) => Times(Without(s, y), x) = Times(s, x)
      /\ (\A i \in I : s[i] # x) => Times(Without(s, y), x) = 0
  <2> HIDE DEF I
  <2> QED
    BY <1>1, TimesAt
<1>5. Cardinality(I) = Len(s) - Times(s, y)
  <2>1. IsFiniteSet(1..Len(s)) /\ Cardinality(1..Len(s)) = Len(s)
    <3>1. 1 \in Int /\ Len(s) \in Int /\ (1 > Len(s) => Len(s) = 0) /\ Len(s) - 1 + 1 = Len(s)
      BY <1>2
    <3> QED
      BY <3>1, FS_Interval
  <2>2. /\ Times(s, y) = Cardinality(PlacesOf(s, y)) /\ PlacesOf(s, y) \in SUBSET (1..Len(s))
    BY TimesIsNumber
  <2>3. (1..Len(s)) \cap PlacesOf(s, y) = PlacesOf(s, y)
    BY <2>2
  <2>4. Cardinality((1..Len(s)) \ PlacesOf(s, y))
          = Cardinality(1..Len(s)) - Cardinality((1..Len(s)) \cap PlacesOf(s, y))
    BY <2>1, FS_Difference
  <2> QED
    BY <1>3, <2>1, <2>2, <2>3, <2>4
<1>6. Times(Without(s, y), x) = IF x = y THEN 0 ELSE Times(s, x)
  <2>1. x = y => \A i \in I : s[i] # x
    OBVIOUS
  <2>2. x # y => \A i \in DOMAIN s : s[i] = x => i \in I
    OBVIOUS
  <2> HIDE DEF I
  <2> QED
    BY <1>4, <2>1, <2>2
<1> QED
  BY <1>4, <1>5, <1>6

-----------------------------------------------------------------------------
(* What is asked for, and what the two lists and the queued calls say of it. *)

Call == [id : Surface, visible : BOOLEAN]

\* The last call under way says what was asked for; without one, the
\* configuration does.  Where TraySettings has not heard of the configuration, a
\* call under way says what the configuration does; where the model, having heard
\* all news, hides what is not hidden there, a call says so too, and one that
\* makes TraySettings agree with the configuration comes before it.
Fits(s, hid, cfg, ins, ask, q, n) ==
  /\ \A k \in DOMAIN q :
       q[k].id = s /\ (\A j \in DOMAIN q : q[j].id = s => j <= k) => (q[k].visible <=> s \notin ask)
  /\ (\A k \in DOMAIN q : q[k].id # s) => (s \in cfg <=> s \in ask)
  /\ ~ (s \in ins <=> s \in cfg) => \E k \in DOMAIN q : q[k].id = s /\ (q[k].visible <=> s \notin cfg)
  /\ n = 0 /\ ~ (s \in hid <=> s \in cfg) =>
       \E k \in DOMAIN q :
         /\ q[k].id = s /\ (q[k].visible <=> s \notin hid)
         /\ ~ (s \in ins <=> s \in cfg) =>
              \E j \in DOMAIN q : j < k /\ q[j].id = s /\ (q[j].visible <=> s \notin cfg)

\* A call more, which the model and the user know of.
LEMMA FitsCalled ==
  ASSUME NEW s, NEW hid, NEW cfg, NEW ins, NEW ask, NEW n, NEW q \in Seq(Call),
         Fits(s, hid, cfg, ins, ask, q, n),
         NEW r \in Surface, NEW v \in BOOLEAN, NEW hid2, NEW ask2,
         s # r => (s \in ask2 <=> s \in ask) /\ (s \in hid2 <=> s \in hid),
         s = r => (s \in ask2 <=> ~v) /\ ((s \in hid2 <=> s \in hid) \/ (s \in hid2 <=> ~v))
  PROVE  Fits(s, hid2, cfg, ins, ask2, Append(q, [id |-> r, visible |-> v]), n)
<1> DEFINE c == [id |-> r, visible |-> v]
           p == Append(q, c)
           N == Len(q)
<1>1. c.id = r /\ c.visible = v /\ c \in Call
  BY DEF Call
<1>2. /\ N \in Nat /\ DOMAIN q = 1..N /\ DOMAIN p = 1..N + 1
      /\ \A k \in 1..N : p[k] = q[k]
      /\ p[N + 1] = c
  <2> HIDE DEF c
  <2> QED
    BY <1>1
<1> HIDE DEF c, p, N
<1>3. \A k \in DOMAIN q : k \in DOMAIN p /\ p[k] = q[k] /\ k < N + 1
  BY <1>2
<1>4. N + 1 \in DOMAIN p /\ p[N + 1].id = r /\ p[N + 1].visible = v
  BY <1>1, <1>2
<1>5. \A k \in DOMAIN p : k = N + 1 \/ k \in DOMAIN q
  BY <1>2
<1>6. CASE s = r
  <2>1. ASSUME NEW k \in DOMAIN p, p[k].id = s, \A j \in DOMAIN p : p[j].id = s => j <= k
        PROVE  p[k].visible <=> s \notin ask2
    <3>1. N + 1 <= k
      BY <1>4, <1>6, <2>1
    <3>2. k = N + 1
      BY <1>3, <1>5, <3>1, <1>2
    <3> QED
      BY <1>4, <1>6, <3>2
  <2>2. ~ \A k \in DOMAIN p : p[k].id # s
    BY <1>4, <1>6
  <2>3. ~ (s \in ins <=> s \in cfg) => \E k \in DOMAIN q : q[k].id = s /\ (q[k].visible <=> s \notin cfg)
    BY DEF Fits
  <2>4. ~ (s \in ins <=> s \in cfg) => \E k \in DOMAIN p : k < N + 1 /\ p[k].id = s /\ (p[k].visible <=> s \notin cfg)
    BY <1>3, <2>3
  <2>5. ASSUME n = 0, ~ (s \in hid2 <=> s \in cfg)
        PROVE \E k \in DOMAIN p :
                /\ p[k].id = s /\ (p[k].visible <=> s \notin hid2)
                /\ ~ (s \in ins <=> s \in cfg) =>
                     \E j \in DOMAIN p : j < k /\ p[j].id = s /\ (p[j].visible <=> s \notin cfg)
    <3>1. CASE s \in hid2 <=> ~v
      BY <1>4, <1>6, <2>4, <3>1
    <3>2. CASE s \in hid2 <=> s \in hid
      <4>1. PICK k \in DOMAIN q :
              /\ q[k].id = s /\ (q[k].visible <=> s \notin hid)
              /\ ~ (s \in ins <=> s \in cfg) =>
                   \E j \in DOMAIN q : j < k /\ q[j].id = s /\ (q[j].visible <=> s \notin cfg)
        BY <2>5, <3>2 DEF Fits
      <4>2. /\ p[k].id = s /\ (p[k].visible <=> s \notin hid2)
            /\ ~ (s \in ins <=> s \in cfg) =>
                 \E j \in DOMAIN p : j < k /\ p[j].id = s /\ (p[j].visible <=> s \notin cfg)
        BY <1>3, <3>2, <4>1
      <4> QED
        BY <1>3, <4>2
    <3> QED
      BY <1>6, <3>1, <3>2
  <2>6. Fits(s, hid2, cfg, ins, ask2, p, n)
    BY <2>1, <2>2, <2>4, <2>5 DEF Fits
  <2> QED
    BY <2>6 DEF p, c
<1>7. CASE s # r
  <2>0. \A k \in DOMAIN p : p[k].id = s => k \in DOMAIN q
    BY <1>4, <1>5, <1>7
  <2>1. ASSUME NEW k \in DOMAIN p, p[k].id = s, \A j \in DOMAIN p : p[j].id = s => j <= k
        PROVE  p[k].visible <=> s \notin ask2
    <3>1. k \in DOMAIN q /\ q[k].id = s /\ \A j \in DOMAIN q : q[j].id = s => j <= k
      BY <1>3, <2>0, <2>1
    <3>2. q[k].visible <=> s \notin ask
      BY <3>1 DEF Fits
    <3> QED
      BY <1>3, <1>7, <3>1, <3>2
  <2>2. (\A k \in DOMAIN p : p[k].id # s) => (s \in cfg <=> s \in ask2)
    <3>1. (\A k \in DOMAIN q : q[k].id # s) => (s \in cfg <=> s \in ask)
      BY DEF Fits
    <3> QED
      BY <1>3, <1>7, <3>1
  <2>3. ~ (s \in ins <=> s \in cfg) => \E k \in DOMAIN p : p[k].id = s /\ (p[k].visible <=> s \notin cfg)
    <3>1. ~ (s \in ins <=> s \in cfg) => \E k \in DOMAIN q : q[k].id = s /\ (q[k].visible <=> s \notin cfg)
      BY DEF Fits
    <3> QED
      BY <1>3, <3>1
  <2>5. ASSUME n = 0, ~ (s \in hid2 <=> s \in cfg)
        PROVE \E k \in DOMAIN p :
                /\ p[k].id = s /\ (p[k].visible <=> s \notin hid2)
                /\ ~ (s \in ins <=> s \in cfg) =>
                     \E j \in DOMAIN p : j < k /\ p[j].id = s /\ (p[j].visible <=> s \notin cfg)
    <4>1. PICK k \in DOMAIN q :
            /\ q[k].id = s /\ (q[k].visible <=> s \notin hid)
            /\ ~ (s \in ins <=> s \in cfg) =>
                 \E j \in DOMAIN q : j < k /\ q[j].id = s /\ (q[j].visible <=> s \notin cfg)
      BY <1>7, <2>5 DEF Fits
    <4>2. /\ p[k].id = s /\ (p[k].visible <=> s \notin hid2)
          /\ ~ (s \in ins <=> s \in cfg) =>
               \E j \in DOMAIN p : j < k /\ p[j].id = s /\ (p[j].visible <=> s \notin cfg)
      BY <1>3, <1>7, <4>1
    <4> QED
      BY <1>3, <4>2
  <2>6. Fits(s, hid2, cfg, ins, ask2, p, n)
    BY <2>1, <2>2, <2>3, <2>5 DEF Fits
  <2> QED
    BY <2>6 DEF p, c
<1> QED
  BY <1>6, <1>7

\* The calls for s that are under way have a last one.
LEMMA LastCall ==
  ASSUME NEW q \in Seq(Call), NEW s, \E k \in DOMAIN q : q[k].id = s
  PROVE  \E k \in DOMAIN q : q[k].id = s /\ \A j \in DOMAIN q : q[j].id = s => j <= k
<1> DEFINE I == {k \in 1..Len(q) : q[k].id = s}
<1>1. I \in SUBSET (1..Len(q)) /\ I # {} /\ Len(q) \in Nat /\ DOMAIN q = 1..Len(q)
  OBVIOUS
<1>2. Max(I) \in I /\ \A k \in I : k <= Max(I)
  <2> HIDE DEF I
  <2> QED
    BY <1>1, MaxOfRows
<1> QED
  BY <1>1, <1>2

\* The model saves what it hides, and does not undo what was asked for.
LEMMA FitsSaved ==
  ASSUME NEW s, NEW hid, NEW cfg, NEW ins, NEW ask, NEW n, NEW n2, NEW q \in Seq(Call),
         Fits(s, hid, cfg, ins, ask, q, n),
         n = 0 \/ ~ ((s \in cfg <=> s \in ask) /\ ~ (s \in hid <=> s \in ask))
  PROVE  Fits(s, hid, hid, ins, ask, q, n2)
<1>1. \A k \in DOMAIN q :
        q[k].id = s /\ (\A j \in DOMAIN q : q[j].id = s => j <= k) => (q[k].visible <=> s \notin ask)
  BY DEF Fits
<1>2. (\A k \in DOMAIN q : q[k].id # s) => (s \in cfg <=> s \in ask)
  BY DEF Fits
<1>3. n = 0 /\ ~ (s \in hid <=> s \in cfg) => \E k \in DOMAIN q : q[k].id = s /\ (q[k].visible <=> s \notin hid)
  BY DEF Fits
<1>4. ~ (s \in ins <=> s \in cfg) => \E k \in DOMAIN q : q[k].id = s /\ (q[k].visible <=> s \notin cfg)
  BY DEF Fits
<1>5. (\A k \in DOMAIN q : q[k].id # s) => (s \in hid <=> s \in ask)
  BY <1>2, <1>3
<1>6. ASSUME ~ (s \in ins <=> s \in hid)
      PROVE  \E k \in DOMAIN q : q[k].id = s /\ (q[k].visible <=> s \notin hid)
  <2>1. CASE s \in hid <=> s \in cfg
    BY <1>4, <1>6, <2>1
  <2>2. CASE n = 0 /\ ~ (s \in hid <=> s \in cfg)
    BY <1>3, <2>2
  <2>3. CASE n # 0 /\ ~ (s \in hid <=> s \in cfg)
    <3>1. ~ (s \in cfg <=> s \in ask) /\ (s \in hid <=> s \in ask)
      BY <2>3
    <3>2. \E k \in DOMAIN q : q[k].id = s
      BY <1>2, <3>1
    <3>3. PICK k \in DOMAIN q : q[k].id = s /\ \A j \in DOMAIN q : q[j].id = s => j <= k
      BY <3>2, LastCall
    <3>4. q[k].visible <=> s \notin ask
      BY <1>1, <3>3
    <3> QED
      BY <3>1, <3>3, <3>4
  <2> QED
    BY <2>1, <2>2, <2>3
<1> QED
  BY <1>1, <1>5, <1>6 DEF Fits

\* The model has heard of the configuration.
LEMMA FitsHeard ==
  ASSUME NEW s, NEW hid, NEW cfg, NEW ins, NEW ask, NEW n, NEW n2, NEW q,
         Fits(s, hid, cfg, ins, ask, q, n)
  PROVE  Fits(s, cfg, cfg, ins, ask, q, n2)
BY DEF Fits

\* TraySettings has.
LEMMA FitsLearnt ==
  ASSUME NEW s, NEW hid, NEW cfg, NEW ins, NEW ask, NEW n, NEW q,
         Fits(s, hid, cfg, ins, ask, q, n)
  PROVE  Fits(s, hid, cfg, cfg, ask, q, n)
BY DEF Fits

\* A call that is for another surface, or changes nothing, goes.
LEMMA FitsPassed ==
  ASSUME NEW s, NEW hid, NEW cfg, NEW ins, NEW ask, NEW n, NEW q \in Seq(Call), q # << >>,
         Fits(s, hid, cfg, ins, ask, q, n),
         Head(q).id = s => (Head(q).visible <=> s \notin ins)
  PROVE  Fits(s, hid, cfg, ins, ask, Tail(q), n)
<1> DEFINE p == Tail(q)
           N == Len(q) - 1
<1>1. /\ N \in Nat /\ Len(q) = N + 1 /\ DOMAIN q = 1..N + 1 /\ DOMAIN p = 1..N
      /\ \A k \in 1..N : p[k] = q[k + 1]
      /\ Head(q) = q[1]
  OBVIOUS
<1> HIDE DEF p, N
<1>2. \A k \in DOMAIN p : k \in Nat /\ k + 1 \in DOMAIN q /\ p[k] = q[k + 1] /\ k + 1 # 1
  BY <1>1
<1>3. \A k \in DOMAIN q : k \in Nat /\ (k # 1 => k - 1 \in DOMAIN p /\ p[k - 1] = q[k] /\ k - 1 < k)
  BY <1>1
<1>4. ASSUME NEW k \in DOMAIN p, p[k].id = s, \A j \in DOMAIN p : p[j].id = s => j <= k
      PROVE  p[k].visible <=> s \notin ask
  <2>1. k + 1 \in DOMAIN q /\ q[k + 1].id = s
    BY <1>2, <1>4
  <2>2. \A j \in DOMAIN q : q[j].id = s => j <= k + 1
    <3> SUFFICES ASSUME NEW j \in DOMAIN q, q[j].id = s PROVE j <= k + 1
      OBVIOUS
    <3>1. CASE j = 1
      BY <1>2, <3>1
    <3>2. CASE j # 1
      <4>1. j - 1 <= k
        BY <1>3, <1>4, <3>2
      <4> QED
        BY <1>2, <1>3, <4>1
    <3> QED
      BY <3>1, <3>2
  <2>3. q[k + 1].visible <=> s \notin ask
    BY <2>1, <2>2 DEF Fits
  <2> QED
    BY <1>2, <2>3
<1>5. ~ (s \in ins <=> s \in cfg) => \E k \in DOMAIN p : p[k].id = s /\ (p[k].visible <=> s \notin cfg)
  <2> SUFFICES ASSUME ~ (s \in ins <=> s \in cfg)
               PROVE  \E k \in DOMAIN p : p[k].id = s /\ (p[k].visible <=> s \notin cfg)
    OBVIOUS
  <2>1. PICK k \in DOMAIN q : q[k].id = s /\ (q[k].visible <=> s \notin cfg)
    BY DEF Fits
  <2>2. k # 1
    BY <1>1, <2>1
  <2> QED
    BY <1>3, <2>1, <2>2
<1>6. (\A k \in DOMAIN p : p[k].id # s) => (s \in cfg <=> s \in ask)
  <2> SUFFICES ASSUME \A k \in DOMAIN p : p[k].id # s PROVE s \in cfg <=> s \in ask
    OBVIOUS
  <2>1. s \in ins <=> s \in cfg
    BY <1>5
  <2>2. CASE q[1].id = s
    <3>1. 1 \in DOMAIN q /\ \A j \in DOMAIN q : q[j].id = s => j <= 1
      <4>1. \A j \in DOMAIN q : q[j].id = s => j = 1
        BY <1>3
      <4> QED
        BY <1>1, <4>1
    <3>2. q[1].visible <=> s \notin ask
      BY <2>2, <3>1 DEF Fits
    <3> QED
      BY <1>1, <2>1, <2>2, <3>2
  <2>3. CASE q[1].id # s
    <3>1. \A k \in DOMAIN q : q[k].id # s
      BY <1>3, <2>3
    <3> QED
      BY <3>1 DEF Fits
  <2> QED
    BY <2>2, <2>3
<1>7. ASSUME n = 0, ~ (s \in hid <=> s \in cfg)
      PROVE \E k \in DOMAIN p :
              /\ p[k].id = s /\ (p[k].visible <=> s \notin hid)
              /\ ~ (s \in ins <=> s \in cfg) =>
                   \E j \in DOMAIN p : j < k /\ p[j].id = s /\ (p[j].visible <=> s \notin cfg)
  <2>1. PICK k \in DOMAIN q :
          /\ q[k].id = s /\ (q[k].visible <=> s \notin hid)
          /\ ~ (s \in ins <=> s \in cfg) =>
               \E j \in DOMAIN q : j < k /\ q[j].id = s /\ (q[j].visible <=> s \notin cfg)
    BY <1>7 DEF Fits
  <2>2. CASE s \in ins <=> s \in cfg
    <3>1. k # 1
      BY <1>1, <1>7, <2>1, <2>2
    <3> QED
      BY <1>3, <2>1, <2>2, <3>1
  <2>3. CASE ~ (s \in ins <=> s \in cfg)
    <3>1. PICK j \in DOMAIN q : j < k /\ q[j].id = s /\ (q[j].visible <=> s \notin cfg)
      BY <2>1, <2>3
    <3>2. j # 1
      BY <1>1, <2>3, <3>1
    <3>3. k # 1
      BY <1>1, <3>1, <3>2
    <3>4. /\ j - 1 \in DOMAIN p /\ p[j - 1] = q[j] /\ k - 1 \in DOMAIN p /\ p[k - 1] = q[k]
          /\ j - 1 < k - 1
      BY <1>3, <3>1, <3>2, <3>3
    <3> QED
      BY <2>1, <3>1, <3>4
  <2> QED
    BY <2>2, <2>3
<1>8. Fits(s, hid, cfg, ins, ask, p, n)
  BY <1>4, <1>5, <1>6, <1>7 DEF Fits
<1> QED
  BY <1>8 DEF p

\* A call that is taken: TraySettings writes its own list, with what the call says.
LEMMA FitsSet ==
  ASSUME NEW s, NEW hid, NEW cfg, NEW ins, NEW ask, NEW n, NEW n2, NEW q \in Seq(Call), q # << >>,
         Fits(s, hid, cfg, ins, ask, q, n), NEW now,
         s \in now <=> IF Head(q).id = s THEN ~ Head(q).visible ELSE s \in ins,
         n2 = 0 => n = 0 /\ now = cfg
  PROVE  Fits(s, hid, now, now, ask, Tail(q), n2)
<1> DEFINE p == Tail(q)
           N == Len(q) - 1
<1>1. /\ N \in Nat /\ Len(q) = N + 1 /\ DOMAIN q = 1..N + 1 /\ DOMAIN p = 1..N
      /\ \A k \in 1..N : p[k] = q[k + 1]
      /\ Head(q) = q[1]
  OBVIOUS
<1> HIDE DEF p, N
<1>2. \A k \in DOMAIN p : k \in Nat /\ k + 1 \in DOMAIN q /\ p[k] = q[k + 1] /\ k + 1 # 1
  BY <1>1
<1>3. \A k \in DOMAIN q : k \in Nat /\ (k # 1 => k - 1 \in DOMAIN p /\ p[k - 1] = q[k] /\ k - 1 < k)
  BY <1>1
<1>4. ASSUME NEW k \in DOMAIN p, p[k].id = s, \A j \in DOMAIN p : p[j].id = s => j <= k
      PROVE  p[k].visible <=> s \notin ask
  <2>1. k + 1 \in DOMAIN q /\ q[k + 1].id = s
    BY <1>2, <1>4
  <2>2. \A j \in DOMAIN q : q[j].id = s => j <= k + 1
    <3> SUFFICES ASSUME NEW j \in DOMAIN q, q[j].id = s PROVE j <= k + 1
      OBVIOUS
    <3>1. CASE j = 1
      BY <1>2, <3>1
    <3>2. CASE j # 1
      <4>1. j - 1 <= k
        BY <1>3, <1>4, <3>2
      <4> QED
        BY <1>2, <1>3, <4>1
    <3> QED
      BY <3>1, <3>2
  <2>3. q[k + 1].visible <=> s \notin ask
    BY <2>1, <2>2 DEF Fits
  <2> QED
    BY <1>2, <2>3
<1>6. (\A k \in DOMAIN p : p[k].id # s) => (s \in now <=> s \in ask)
  <2> SUFFICES ASSUME \A k \in DOMAIN p : p[k].id # s PROVE s \in now <=> s \in ask
    OBVIOUS
  <2>2. CASE q[1].id = s
    <3>1. 1 \in DOMAIN q /\ \A j \in DOMAIN q : q[j].id = s => j <= 1
      <4>1. \A j \in DOMAIN q : q[j].id = s => j = 1
        BY <1>3
      <4> QED
        BY <1>1, <4>1
    <3>2. q[1].visible <=> s \notin ask
      BY <2>2, <3>1 DEF Fits
    <3> QED
      BY <1>1, <2>2, <3>2
  <2>3. CASE q[1].id # s
    <3>1. \A k \in DOMAIN q : q[k].id # s
      BY <1>3, <2>3
    <3> QED
      BY <1>1, <2>3, <3>1 DEF Fits
  <2> QED
    BY <2>2, <2>3
<1>7. ASSUME n2 = 0, ~ (s \in hid <=> s \in now)
      PROVE \E k \in DOMAIN p :
              /\ p[k].id = s /\ (p[k].visible <=> s \notin hid)
              /\ ~ (s \in now <=> s \in now) =>
                   \E j \in DOMAIN p : j < k /\ p[j].id = s /\ (p[j].visible <=> s \notin now)
  <2>1. PICK k \in DOMAIN q : q[k].id = s /\ (q[k].visible <=> s \notin hid)
    BY <1>7 DEF Fits
  <2>2. k # 1
    BY <1>1, <1>7, <2>1
  <2> QED
    BY <1>3, <2>1, <2>2
<1>8. Fits(s, hid, now, now, ask, p, n2)
  BY <1>4, <1>6, <1>7 DEF Fits
<1> QED
  BY <1>8 DEF p

-----------------------------------------------------------------------------
(* Where the lists name a surface.                                         *)

Lists4 == [Section -> Seq(Surface)]

\* Once in the list of y and in no other; in none at all if y is no section.
At(lists, s, y) == \A z \in Section : Times(lists[z], s) = IF z = y THEN 1 ELSE 0

\* s goes to y, and all others stay where they are.
Rehomed(new, lists, s, y) ==
  /\ new \in Lists4
  /\ At(new, s, y)
  /\ \A t \in Surface \ {s} : \A z \in Section : Times(new[z], t) = Times(lists[z], t)

\* A surface that is named at a place.
LEMMA AtContains ==
  ASSUME NEW lists \in Lists4, NEW s, NEW y, At(lists, s, y), NEW z \in Section
  PROVE  /\ lists[z] \in Seq(Surface)
         /\ Times(lists[z], s) = IF z = y THEN 1 ELSE 0
         /\ Contains(lists[z], s) <=> z = y
<1>1. lists[z] \in Seq(Surface)
  BY DEF Lists4
<1>2. Times(lists[z], s) = 0 <=> ~ Contains(lists[z], s)
  BY <1>1, TimesIsNumber
<1>3. Times(lists[z], s) = IF z = y THEN 1 ELSE 0
  BY DEF At
<1> QED
  BY <1>1, <1>2, <1>3

\* Taken out of its list x and put into that of y.
LEMMA MovedTo ==
  ASSUME NEW lists \in Lists4, NEW s \in Surface, NEW x, NEW y \in Section, At(lists, s, x),
         NEW new \in Lists4,
         \A t \in Surface : Times(new[y], t) = IF t = s THEN 1 ELSE Times(lists[y], t),
         x \in Section /\ x # y => new[x] = Without(lists[x], s),
         \A z \in Section : z # x /\ z # y => new[z] = lists[z]
  PROVE  Rehomed(new, lists, s, y)
<1>1. ASSUME NEW z \in Section, NEW t \in Surface
      PROVE  Times(new[z], t) = IF t = s THEN (IF z = y THEN 1 ELSE 0) ELSE Times(lists[z], t)
  <2>1. CASE z = y
    BY <2>1
  <2>2. CASE z # y /\ z # x
    <3>1. Times(lists[z], s) = 0
      BY <2>2, AtContains
    <3> QED
      BY <2>2, <3>1
  <2>3. CASE z # y /\ z = x
    <3>1. lists[z] \in Seq(Surface) /\ new[z] = Without(lists[z], s)
      BY <2>3 DEF Lists4
    <3>2. Times(new[z], t) = IF t = s THEN 0 ELSE Times(lists[z], t)
      BY <3>1, TimesWithout
    <3> QED
      BY <2>3, <3>2
  <2> QED
    BY <2>1, <2>2, <2>3
<1> QED
  BY <1>1 DEF Rehomed, At

\* Where something is put into a list that has it not.
LEMMA PutInto ==
  ASSUME NEW lists \in Lists4, NEW s \in Surface, NEW x, NEW y \in Section, At(lists, s, x),
         NEW b, b = IF x = y THEN Without(lists[y], s) ELSE lists[y]
  PROVE  /\ b \in Seq(Surface)
         /\ \A t \in Surface : /\ Times(b, t) \in Nat
                               /\ Times(b, t) = IF t = s THEN 0 ELSE Times(lists[y], t)
<1>1. lists[y] \in Seq(Surface) /\ Times(lists[y], s) = IF y = x THEN 1 ELSE 0
  BY AtContains
<1>2. CASE x = y
  <2>1. b = Without(lists[y], s)
    BY <1>2
  <2>2. \A t : b \in Seq(Surface) /\ Times(b, t) = IF t = s THEN 0 ELSE Times(lists[y], t)
    BY <1>1, <2>1, TimesWithout
  <2>3. \A t \in Surface : Times(b, t) \in Nat
    BY <2>2, TimesIsNumber
  <2> QED
    BY <2>2, <2>3
<1>3. CASE x # y
  <2>1. b = lists[y]
    BY <1>3
  <2>2. \A t \in Surface : Times(b, t) \in Nat
    BY <1>1, <2>1, TimesIsNumber
  <2> QED
    BY <1>1, <1>3, <2>1, <2>2
<1> QED
  BY <1>2, <1>3

\* To the end of a section, or to its head.
LEMMA EndMoves ==
  ASSUME NEW lists \in Lists4, NEW s \in Surface, NEW x \in Section, NEW y \in Section,
         At(lists, s, x)
  PROVE  /\ Rehomed(Appended(lists, x, y, s), lists, s, y)
         /\ Rehomed(Prepended(lists, x, y, s), lists, s, y)
<1> DEFINE b == IF x = y THEN Without(lists[y], s) ELSE lists[y]
           w == Without(lists[x], s)
           a == Append(b, s)
           p == <<s>> \o b
           A == Appended(lists, x, y, s)
           P == Prepended(lists, x, y, s)
<1>1. /\ b \in Seq(Surface)
      /\ \A t \in Surface : /\ Times(b, t) \in Nat
                            /\ Times(b, t) = IF t = s THEN 0 ELSE Times(lists[y], t)
  <2> HIDE DEF b
  <2> QED
    BY PutInto DEF b
<1>2. w \in Seq(Surface)
  <2>1. lists[x] \in Seq(Surface)
    BY DEF Lists4
  <2> QED
    BY <2>1, TimesWithout
<1>3. /\ A = [z \in Section |-> IF z = y THEN a ELSE IF z = x THEN w ELSE lists[z]]
      /\ P = [z \in Section |-> IF z = y THEN p ELSE IF z = x THEN w ELSE lists[z]]
  BY DEF Appended, Prepended, TakenFrom, Lists4
<1>4. \A t \in Surface : /\ a \in Seq(Surface) /\ Times(a, t) = Times(b, t) + (IF t = s THEN 1 ELSE 0)
                         /\ p \in Seq(Surface) /\ Times(p, t) = Times(b, t) + (IF t = s THEN 1 ELSE 0)
  <2> HIDE DEF b
  <2> QED
    BY <1>1, TimesAppended
<1> HIDE DEF a, p, b, w
<1>5. A \in Lists4 /\ P \in Lists4
  <2>1. \A z \in Section : lists[z] \in Seq(Surface)
    BY DEF Lists4
  <2> QED
    BY <1>2, <1>3, <1>4, <2>1 DEF Lists4
<1>6. /\ A[y] = a /\ (x # y => A[x] = w) /\ \A z \in Section : z # x /\ z # y => A[z] = lists[z]
      /\ P[y] = p /\ (x # y => P[x] = w) /\ \A z \in Section : z # x /\ z # y => P[z] = lists[z]
  BY <1>3
<1>7. \A t \in Surface : /\ Times(a, t) = IF t = s THEN 1 ELSE Times(lists[y], t)
                         /\ Times(p, t) = IF t = s THEN 1 ELSE Times(lists[y], t)
  BY <1>1, <1>4
<1> HIDE DEF A, P
<1>8. Rehomed(A, lists, s, y)
  BY <1>5, <1>6, <1>7, MovedTo DEF w
<1>9. Rehomed(P, lists, s, y)
  BY <1>5, <1>6, <1>7, MovedTo DEF w
<1> QED
  BY <1>8, <1>9 DEF A, P

\* The place of what a list names.
LEMMA IndexInFacts ==
  ASSUME NEW S, NEW list \in Seq(S), NEW s, Contains(list, s)
  PROVE  IndexIn(list, s) \in 1..Len(list) /\ list[IndexIn(list, s)] = s
BY DEF Contains, IndexIn

\* The list of y that s goes into, and where in it, when s is dropped on another
\* surface of y.
Left(lists, x, y, s) == IF x = y THEN Without(lists[y], s) ELSE lists[y]
Aim(lists, x, y, on, before) ==
  IF x = y THEN (IF before /\ IndexIn(lists[y], on) > 1 THEN IndexIn(lists[y], on) - 1
                 ELSE IndexIn(lists[y], on))
  ELSE (IF before THEN IndexIn(lists[y], on) ELSE IndexIn(lists[y], on) + 1)

Onto(lists, x, y, s, on, before) ==
  IF x = y THEN [lists EXCEPT ![x] = MovedWithin(@, s, on, before)]
  ELSE [lists EXCEPT ![x] = Without(@, s), ![y] = MovedInto(@, s, on, before)]

LEMMA OntoPlaces ==
  ASSUME NEW lists \in Lists4, NEW s \in Surface, NEW x \in Section, NEW y \in Section,
         At(lists, s, x), NEW on \in Surface, on # s, At(lists, on, y), NEW before \in BOOLEAN
  PROVE  /\ Left(lists, x, y, s) \in Seq(Surface) /\ lists[y] \in Seq(Surface)
         /\ IndexIn(lists[y], on) \in 1..Len(lists[y]) /\ lists[y][IndexIn(lists[y], on)] = on
         /\ Aim(lists, x, y, on, before) \in 1..Len(Left(lists, x, y, s)) + 1
         /\ Onto(lists, x, y, s, on, before) \in Lists4
         /\ Onto(lists, x, y, s, on, before)[y]
              = InsertAt(Left(lists, x, y, s), Aim(lists, x, y, on, before), s)
         /\ x # y => Onto(lists, x, y, s, on, before)[x] = Without(lists[x], s)
         /\ \A z \in Section : z # x /\ z # y => Onto(lists, x, y, s, on, before)[z] = lists[z]
<1> DEFINE new == Onto(lists, x, y, s, on, before)
           b == Left(lists, x, y, s)
           w == Without(lists[x], s)
           place == IndexIn(lists[y], on)
           to == Aim(lists, x, y, on, before)
           l == InsertAt(b, to, s)
<1>1. b \in Seq(Surface)
  BY PutInto DEF Left
<1>2. /\ lists[x] \in Seq(Surface) /\ w \in Seq(Surface) /\ Len(w) = Len(lists[x]) - Times(lists[x], s)
      /\ Times(lists[x], s) = 1
  <2>1. lists[x] \in Seq(Surface) /\ Times(lists[x], s) = 1
    BY AtContains
  <2>2. w \in Seq(Surface) /\ Len(w) = Len(lists[x]) - Times(lists[x], s)
    BY <2>1, TimesWithout
  <2> QED
    BY <2>1, <2>2
<1>3. place \in 1..Len(lists[y]) /\ lists[y] \in Seq(Surface) /\ lists[y][place] = on
  <2>1. lists[y] \in Seq(Surface) /\ Contains(lists[y], on)
    BY AtContains
  <2> QED
    BY <2>1, IndexInFacts
<1>4. Len(b) = IF x = y THEN Len(lists[y]) - 1 ELSE Len(lists[y])
  BY <1>2 DEF Left
<1>5. /\ x = y => to = IF before /\ place > 1 THEN place - 1 ELSE place
      /\ x # y => to = IF before THEN place ELSE place + 1
  BY DEF Aim
<1>6. new = [z \in Section |-> IF z = y THEN l ELSE IF z = x THEN w ELSE lists[z]]
  BY DEF MovedWithin, MovedInto, Lists4, Left, Aim, Onto
<1> HIDE DEF w, l, b, to, place, new
<1>7. to \in 1..Len(b) + 1
  <2>1. Len(lists[y]) \in Nat /\ place \in Nat
    BY <1>3
  <2>2. CASE x = y
    BY <1>3, <1>4, <1>5, <2>1, <2>2
  <2>3. CASE x # y
    BY <1>3, <1>4, <1>5, <2>1, <2>3
  <2> QED
    BY <2>2, <2>3
<1>8. l \in Seq(Surface)
  BY <1>1, <1>7, TimesInserted DEF l
<1>9. new \in Lists4
  <2>1. \A z \in Section : lists[z] \in Seq(Surface)
    BY DEF Lists4
  <2> QED
    BY <1>2, <1>6, <1>8, <2>1 DEF Lists4
<1>10. new[y] = l /\ (x # y => new[x] = w) /\ \A z \in Section : z # x /\ z # y => new[z] = lists[z]
  BY <1>6
<1> QED
  BY <1>1, <1>3, <1>7, <1>9, <1>10 DEF l, w, b, to, place, new

LEMMA OntoMoves ==
  ASSUME NEW lists \in Lists4, NEW s \in Surface, NEW x \in Section, NEW y \in Section,
         At(lists, s, x), NEW on \in Surface, on # s, At(lists, on, y), NEW before \in BOOLEAN
  PROVE  Rehomed(Onto(lists, x, y, s, on, before), lists, s, y)
<1> DEFINE new == Onto(lists, x, y, s, on, before)
           b == Left(lists, x, y, s)
           to == Aim(lists, x, y, on, before)
           l == InsertAt(b, to, s)
<1>1. \A t \in Surface : /\ Times(b, t) \in Nat
                         /\ Times(b, t) = IF t = s THEN 0 ELSE Times(lists[y], t)
  BY PutInto DEF Left
<1>2. /\ b \in Seq(Surface) /\ to \in 1..Len(b) + 1 /\ new[y] = l /\ new \in Lists4
      /\ x # y => new[x] = Without(lists[x], s)
      /\ \A z \in Section : z # x /\ z # y => new[z] = lists[z]
  BY OntoPlaces
<1>3. \A t \in Surface : l \in Seq(Surface) /\ Times(l, t) = Times(b, t) + (IF t = s THEN 1 ELSE 0)
  <2> HIDE DEF b, to
  <2> QED
    BY <1>1, <1>2, TimesInserted
<1> HIDE DEF l, b, to, new
<1>4. \A t \in Surface : Times(new[y], t) = IF t = s THEN 1 ELSE Times(lists[y], t)
  BY <1>1, <1>2, <1>3
<1> QED
  BY <1>2, <1>4, MovedTo DEF new

\* Applications may be stashed: rebuildSurfacesData forbids them only the fixed
\* section, but for one of a custom size or one forced onto the dock
\* (tray.qml:141-149).  dropToDockTray does not ask what a surface that is dropped
\* on the button of the stash may be in; that only applications are dropped there
\* is seen to by the containers.
AppsStashed == \A s \in Surface : Kind[s].app => "stashed" \notin Kind[s].forbidden

\* Every surface is in one list at most.
Single(lists) == \A s \in Surface : \E y \in Section \cup {"none"} : At(lists, s, y)

\* A row names the list of its surface, which may be there.
Home(lists, rows) ==
  /\ DOMAIN rows \subseteq Surface /\ rows = [s \in DOMAIN rows |-> rows[s]]
  /\ \A s \in DOMAIN rows : /\ rows[s] \in Section \ Kind[s].forbidden
                            /\ At(lists, s, rows[s])

\* What is moved leaves the others at home.
LEMMA RehomedFacts ==
  ASSUME NEW lists \in Lists4, NEW s \in Surface, NEW y \in Section, NEW new,
         Rehomed(new, lists, s, y), Single(lists)
  PROVE  /\ new \in Lists4 /\ Single(new)
         /\ \A t \in Surface \ {s} : \A z : At(lists, t, z) => At(new, t, z)
<1>1. \A t \in Surface \ {s} : \A z : At(lists, t, z) => At(new, t, z)
  BY DEF Rehomed, At
<1>2. Single(new)
  <2> SUFFICES ASSUME NEW t \in Surface PROVE \E z \in Section \cup {"none"} : At(new, t, z)
    BY DEF Single
  <2>1. CASE t = s
    BY <2>1 DEF Rehomed
  <2>2. CASE t # s
    BY <1>1, <2>2 DEF Single
  <2> QED
    BY <2>1, <2>2
<1> QED
  BY <1>1, <1>2 DEF Rehomed

\* A drop on any item of the dock moves the surface or nothing, and never to a
\* section it is forbidden in.
LEMMA DroppedMoves ==
  ASSUME ids \in Lists4, Home(ids, section), NEW s \in Registered,
         NEW on \in Registered \cup Action, NEW before \in BOOLEAN,
         on = "show-stash" => "stashed" \notin Kind[s].forbidden
  PROVE  \E y \in Section \ Kind[s].forbidden : Rehomed(Dropped(s, on, before), ids, s, y)
<1> DEFINE x == section[s]
           new == Dropped(s, on, before)
           Goal == \E y \in Section \ Kind[s].forbidden : Rehomed(new, ids, s, y)
<1>1. /\ s \in Surface /\ x \in Section \ Kind[s].forbidden /\ At(ids, s, x)
  BY DEF Home, Registered
<1>2. s # "show-stash" /\ s # "toggle-collapse" /\ s # "quick-settings"
  BY <1>1, SurfaceAssumption DEF Action
<1>3. Rehomed(ids, ids, s, x)
  BY <1>1 DEF Rehomed
<1>4. \A y \in Section : /\ Rehomed(Appended(ids, x, y, s), ids, s, y)
                         /\ Rehomed(Prepended(ids, x, y, s), ids, s, y)
  BY <1>1, EndMoves
<1>5. {"stashed", "collapsable", "pinned"} \subseteq Section
  BY DEF Section
<1>6. CASE on = "show-stash"
  <2>1. new = IF x = "stashed" THEN ids ELSE Appended(ids, x, "stashed", s)
    BY <1>2, <1>6 DEF Dropped
  <2> QED
    BY <1>1, <1>3, <1>4, <1>5, <1>6, <2>1
<1>7. CASE on = "toggle-collapse"
  <2>1. new = IF before
              THEN IF "collapsable" \in Kind[s].forbidden THEN ids ELSE Appended(ids, x, "collapsable", s)
              ELSE IF "pinned" \in Kind[s].forbidden THEN ids ELSE Prepended(ids, x, "pinned", s)
    BY <1>2, <1>7 DEF Dropped
  <2> QED
    BY <1>1, <1>3, <1>4, <1>5, <2>1
<1>8. CASE on = "quick-settings"
  <2>1. new = IF "pinned" \in Kind[s].forbidden THEN ids ELSE Appended(ids, x, "pinned", s)
    BY <1>2, <1>8 DEF Dropped
  <2> QED
    BY <1>1, <1>3, <1>4, <1>5, <2>1
<1>9. CASE on = s
  <2>1. new = ids
    BY <1>2, <1>9 DEF Dropped
  <2> QED
    BY <1>1, <1>3, <2>1
<1>10. CASE on \notin Action /\ on # s
  <2> DEFINE y == section[on]
             put == IF x = y THEN [ids EXCEPT ![x] = MovedWithin(@, s, on, before)]
                    ELSE [ids EXCEPT ![x] = Without(@, s), ![y] = MovedInto(@, s, on, before)]
  <2>1. on # "show-stash" /\ on # "toggle-collapse" /\ on # "quick-settings"
    BY <1>10 DEF Action
  <2>2. new = IF y \in Kind[s].forbidden THEN ids ELSE put
    BY <1>10, <2>1 DEF Dropped
  <2>3. on \in Registered
    BY <1>10
  <2>4. on \in Surface /\ y \in Section /\ At(ids, on, y)
    BY <2>3 DEF Home, Registered
  <2>5. Rehomed(put, ids, s, y)
    <3>1. put = Onto(ids, x, y, s, on, before)
      BY DEF Onto
    <3> HIDE DEF x, y, put
    <3> QED
      BY <1>1, <1>10, <2>4, <3>1, OntoMoves
  <2> HIDE DEF put, y, x
  <2> QED
    BY <1>1, <1>3, <2>2, <2>4, <2>5
<1> QED
  BY <1>6, <1>7, <1>8, <1>9, <1>10 DEF Action

-----------------------------------------------------------------------------
(* Surfaces come and go.                                                   *)

\* A finite set as a sequence names each member once and nothing else.
LEMMA SetToSeqFacts ==
  ASSUME NEW S, IsFiniteSet(S)
  PROVE  /\ SetToSeq(S) \in Seq(S)
         /\ \A x : Times(SetToSeq(S), x) = IF x \in S THEN 1 ELSE 0
<1> DEFINE n == Cardinality(S)
           f == SetToSeq(S)
<1>1. n \in Nat /\ ExistsBijection(1..n, S)
  <2>1. PICK m \in Nat : ExistsBijection(1..m, S)
    BY FS_NatBijection
  <2>2. n = m
    BY <2>1, FS_CountingElements
  <2> QED
    BY <2>1, <2>2
<1>2. PICK g \in Bijection(1..n, S) : TRUE
  BY <1>1 DEF ExistsBijection
<1>3. g \in [1..n -> S] /\ IsInjective(g)
  BY <1>2 DEF Bijection, Injection, IsInjective
<1>4. f \in [1..n -> S] /\ IsInjective(f)
  <2>1. f = CHOOSE h \in [1..n -> S] : IsInjective(h)
    BY DEF SetToSeq
  <2> QED
    BY <1>3, <2>1
<1> HIDE DEF n, f
<1>5. f \in Seq(S) /\ DOMAIN f = 1..n
  BY <1>1, <1>4
<1>6. \A i, j \in 1..n : f[i] = f[j] => i = j
  BY <1>4 DEF IsInjective
<1>7. Cardinality(1..n) = n /\ IsFiniteSet(1..n)
  <2>1. 1 \in Int /\ n \in Int /\ (1 > n => n = 0) /\ n - 1 + 1 = n
    BY <1>1
  <2> QED
    BY <2>1, FS_Interval
<1>8. \A x \in S : \E i \in 1..n : f[i] = x
  <2>1. f \in Injection(1..n, S)
    BY <1>4, <1>6 DEF Injection, IsInjective
  <2>2. Cardinality(S) = Cardinality(1..n)
    BY <1>7 DEF n
  <2>3. f \in Surjection(1..n, S)
    BY <1>7, <2>1, <2>2, FS_Injection
  <2> QED
    BY <2>3 DEF Surjection
<1>9. ASSUME NEW x PROVE Times(f, x) = IF x \in S THEN 1 ELSE 0
  <2>1. CASE x \in S
    <3>1. PICK i \in 1..n : f[i] = x
      BY <1>8, <2>1
    <3>2. {j \in DOMAIN f : f[j] = x} = {i}
      BY <1>5, <1>6, <3>1
    <3> QED
      BY <2>1, <3>2, FS_Singleton DEF Times
  <2>2. CASE x \notin S
    <3>1. {j \in DOMAIN f : f[j] = x} = {}
      BY <1>4, <1>5, <2>2
    <3> QED
      BY <2>2, <3>1, FS_EmptySet DEF Times
  <2> QED
    BY <2>1, <2>2
<1> QED
  BY <1>5, <1>9 DEF f

\* Lists filled with sets that have nothing in common.
LEMMA FilledLists ==
  ASSUME NEW place \in [Surface -> Section \cup {"none"}],
         NEW lists, lists = [x \in Section |-> SetToSeq({s \in Surface : place[s] = x})]
  PROVE  lists \in Lists4 /\ \A s \in Surface : At(lists, s, place[s])
<1>1. ASSUME NEW x \in Section
      PROVE  lists[x] \in Seq(Surface) /\ \A s \in Surface : Times(lists[x], s) = IF x = place[s] THEN 1 ELSE 0
  <2> DEFINE S == {s \in Surface : place[s] = x}
             l == SetToSeq(S)
  <2>1. IsFiniteSet(S) /\ S \subseteq Surface
    BY SurfaceAssumption, FS_Subset
  <2>2. l \in Seq(S) /\ \A s : Times(l, s) = IF s \in S THEN 1 ELSE 0
    <3> HIDE DEF S
    <3> QED
      BY <2>1, SetToSeqFacts
  <2>3. lists[x] = l
    OBVIOUS
  <2>4. l \in Seq(Surface)
    BY <2>1, <2>2
  <2> HIDE DEF l
  <2> QED
    BY <2>2, <2>3, <2>4
<1>2. lists \in Lists4
  BY <1>1 DEF Lists4
<1> QED
  BY <1>1, <1>2 DEF At

RegisterStep(c, acc, i) == RegisterSurfaceId(acc, c.seq[i])

\* Only s is new.
RegisterHolds(c, acc, i) ==
  acc = IF \E j \in 1..i : c.seq[j] = c.s THEN RegisterSurfaceId(c.base, c.s) ELSE c.base

Registering == INSTANCE FoldFacts WITH Step <- RegisterStep, Holds <- RegisterHolds

LEMMA RegisterFolds ==
  ASSUME NEW c
  PROVE  FoldLeft(RegisterSurfaceId, c.base, c.seq) = Registering!Fold(c, c.base, DOMAIN c.seq)
BY DEF FoldLeft, MapThenFoldSet, Max, RegisterStep, Registering!Fold, Registering!IsIter, Registering!Max

Registers(base, seq) == FoldLeft(RegisterSurfaceId, base, seq)

\* Registering surfaces of which one is new, and the others are as they should be.
LEMMA RegisterOnce ==
  ASSUME NEW seq \in Seq(Surface), NEW base, NEW s, NEW new, new = RegisterSurfaceId(base, s),
         \A i \in DOMAIN seq :
           /\ seq[i] = s => RegisterSurfaceId(new, seq[i]) = new
           /\ seq[i] # s => RegisterSurfaceId(base, seq[i]) = base /\ RegisterSurfaceId(new, seq[i]) = new
  PROVE  Registers(base, seq) = IF \E i \in DOMAIN seq : seq[i] = s THEN new ELSE base
<1> DEFINE c == [seq |-> seq, base |-> base, s |-> s]
           n == Len(seq)
           f == Registering!Fold(c, base, 1..n)
<1>1. n \in Nat /\ DOMAIN seq = 1..n
  OBVIOUS
<1>2. Registers(base, seq) = f
  <2>1. c.base = base /\ c.seq = seq
    OBVIOUS
  <2> HIDE DEF c
  <2>2. FoldLeft(RegisterSurfaceId, c.base, c.seq) = Registering!Fold(c, c.base, DOMAIN c.seq)
    BY RegisterFolds
  <2> QED
    BY <1>1, <2>1, <2>2 DEF Registers
<1>3. c.seq = seq /\ c.base = base /\ c.s = s
  OBVIOUS
<1> HIDE DEF c, n, f
<1>4. RegisterHolds(c, base, 0)
  BY <1>3 DEF RegisterHolds
<1>5. ASSUME NEW i \in 1..n, NEW acc, RegisterHolds(c, acc, i - 1)
      PROVE  RegisterHolds(c, RegisterStep(c, acc, i), i)
  <2> DEFINE out == RegisterStep(c, acc, i)
  <2>1. i \in Nat /\ i \in 1..i /\ \A j \in 1..i : j \in 1..i - 1 \/ j = i
    BY <1>1
  <2>2. \A j \in 1..i - 1 : j \in 1..i
    BY <1>1
  <2>3. out = RegisterSurfaceId(acc, seq[i])
    BY <1>3 DEF RegisterStep
  <2>4. acc = IF \E j \in 1..i - 1 : seq[j] = s THEN new ELSE base
    BY <1>3, <1>5 DEF RegisterHolds
  <2>5. i \in DOMAIN seq
    BY <1>1
  <2> HIDE DEF out
  <2>6. CASE seq[i] = s
    <3>1. out = new
      BY <2>3, <2>4, <2>5, <2>6
    <3> QED
      BY <1>3, <2>1, <2>6, <3>1 DEF RegisterHolds, out
  <2>7. CASE seq[i] # s
    <3>1. out = acc
      BY <2>3, <2>4, <2>5, <2>7
    <3>2. (\E j \in 1..i : seq[j] = s) <=> \E j \in 1..i - 1 : seq[j] = s
      BY <2>1, <2>2, <2>7
    <3> QED
      BY <1>3, <2>4, <3>1, <3>2 DEF RegisterHolds, out
  <2> QED
    BY <2>6, <2>7
<1>6. RegisterHolds(c, f, n)
  BY <1>1, <1>4, <1>5, RowsOrdered, Registering!FoldKeeps DEF f
<1> QED
  BY <1>1, <1>2, <1>3, <1>6 DEF RegisterHolds

\* Where a surface is looked for, it is found where it is.
LEMMA FoundFacts ==
  ASSUME NEW lists \in Lists4, NEW s, NEW y \in Section \cup {"none"}, At(lists, s, y)
  PROVE  /\ y = "none" => Found(lists, s) = << >>
         /\ y \in Section => Found(lists, s) # << >> /\ Head(Found(lists, s)) = y
<1> DEFINE order == <<"pinned", "collapsable", "stashed", "fixed">>
           I == {k \in DOMAIN order : Contains(lists[order[k]], s)}
           t == RowsAt(order, I)
<1>1. Found(lists, s) = t
  BY DEF Found
<1>2. /\ order \in Seq(Section) /\ DOMAIN order = 1..4 /\ "none" \notin Section
      /\ \A k \in 1..4 : order[k] \in Section
      /\ \A z \in Section : \E k \in 1..4 : order[k] = z
      /\ \A j, k \in 1..4 : order[j] = order[k] => j = k
  BY DEF Section
<1>3. \A k \in 1..4 : Contains(lists[order[k]], s) <=> order[k] = y
  BY <1>2, AtContains
<1>4. I = {k \in 1..4 : order[k] = y}
  BY <1>2, <1>3
<1>5. I \in SUBSET DOMAIN order
  OBVIOUS
<1> HIDE DEF I, order
<1>6. /\ Len(t) = Cardinality(I) /\ t \in Seq(Section)
      /\ Ascending(I) \in [1..Cardinality(I) -> I]
      /\ \A i \in 1..Cardinality(I) : t[i] = order[Ascending(I)[i]]
  BY <1>2, <1>5, RowsAtFacts
<1> HIDE DEF t
<1>7. CASE y = "none"
  <2>1. I = {}
    BY <1>2, <1>4, <1>7
  <2>2. Len(t) = 0
    BY <1>6, <2>1, FS_EmptySet
  <2> QED
    BY <1>1, <1>2, <1>6, <1>7, <2>2
<1>8. CASE y \in Section
  <2>1. PICK k \in 1..4 : I = {k} /\ order[k] = y
    BY <1>2, <1>4, <1>8
  <2> DEFINE g == Ascending(I)
             m == Cardinality(I)
  <2>2. m = 1
    BY <2>1, FS_Singleton
  <2>3. g \in [1..m -> I] /\ \A i \in 1..m : t[i] = order[g[i]]
    BY <1>6
  <2> HIDE DEF g, m
  <2>4. 1 \in 1..m /\ g[1] = k
    BY <2>1, <2>2, <2>3
  <2>5. t[1] = y
    BY <2>1, <2>3, <2>4
  <2>6. Len(t) = 1 /\ t \in Seq(Section)
    BY <1>6, <2>2 DEF m
  <2>7. t # << >> /\ Head(t) = t[1]
    BY <2>6
  <2> QED
    BY <1>1, <1>2, <1>8, <2>5, <2>7
<1> QED
  BY <1>7, <1>8

\* What rows, hidden surfaces and calls become when s gets its row.
Joined(out, base, s) ==
  /\ DOMAIN out.section = DOMAIN base.section \cup {s}
  /\ \A t \in DOMAIN base.section : out.section[t] = base.section[t]
  /\ out.section[s] \in Section \ Kind[s].forbidden
  /\ Rehomed(out.ids, base.ids, s, out.section[s])
  /\ \/ out.hidden = base.hidden /\ out.calls = base.calls
     \/ /\ s \notin base.hidden /\ out.hidden = base.hidden \cup {s}
        /\ out.calls = Append(base.calls, [id |-> s, visible |-> FALSE])

\* findSection, of a surface without a row.
LEMMA FindSectionFacts ==
  ASSUME NEW base, base \in [ids : Lists4, section : {section}, hidden : {hidden}, calls : {calls}],
         Single(base.ids), NEW s \in Surface, s \notin DOMAIN base.section,
         NEW out, out = FindSection(base, s)
  PROVE  /\ DOMAIN out.section = DOMAIN base.section \cup {s}
         /\ \A t \in DOMAIN base.section : out.section[t] = base.section[t]
         /\ out.section[s] \in Section \ Kind[s].forbidden
         /\ \/ out.hidden = base.hidden /\ out.calls = base.calls
            \/ /\ s \notin base.hidden /\ out.hidden = base.hidden \cup {s}
               /\ out.calls = Append(base.calls, [id |-> s, visible |-> FALSE])
         /\ \E x \in Section \cup {"none"} :
              /\ At(base.ids, s, x)
              /\ \/ x = out.section[s] /\ out.ids = base.ids
                 \/ x = "none" /\ out.ids = base.ids
                 \/ /\ x \in Section /\ x # out.section[s]
                    /\ out.ids = TakenFrom(base.ids, x, s)
         /\ out = [ids |-> out.ids, section |-> out.section, hidden |-> out.hidden, calls |-> out.calls]
<1>1. PICK y \in Section \cup {"none"} : At(base.ids, s, y)
  BY DEF Single
<1> DEFINE found == Found(base.ids, s)
           x == IF found = <<>> THEN Kind[s].prefer ELSE Head(found)
           hides == found = <<>> /\ Settable(s) /\ x # "fixed" /\ ~Kind[s].app /\ s \notin base.hidden
           leaves == found # <<>> /\ x \in Kind[s].forbidden
           home == IF leaves THEN Kind[s].prefer ELSE x
<1>2. base.ids \in Lists4
  OBVIOUS
<1>3. /\ y = "none" => found = << >>
      /\ y \in Section => found # << >> /\ Head(found) = y
  BY <1>1, <1>2, FoundFacts
<1>0. base = [ids |-> base.ids, section |-> base.section, hidden |-> base.hidden, calls |-> base.calls]
  OBVIOUS
<1>4. /\ out.hidden = IF hides THEN base.hidden \cup {s} ELSE base.hidden
      /\ out.calls = IF hides THEN Append(base.calls, [id |-> s, visible |-> FALSE]) ELSE base.calls
      /\ out.ids = IF leaves THEN TakenFrom(base.ids, x, s) ELSE base.ids
      /\ out.section = Rowed(base.section, s, home)
      /\ out = [ids |-> out.ids, section |-> out.section, hidden |-> out.hidden, calls |-> out.calls]
  <2>0. out = [base EXCEPT !.hidden = IF hides THEN @ \cup {s} ELSE @,
                           !.calls = IF hides THEN Append(@, [id |-> s, visible |-> FALSE]) ELSE @,
                           !.ids = IF leaves THEN TakenFrom(@, x, s) ELSE @,
                           !.section = Rowed(@, s, home)]
    BY Zenon DEF FindSection
  <2> HIDE DEF found, x, hides, leaves, home
  <2>1. out.hidden = IF hides THEN base.hidden \cup {s} ELSE base.hidden
    BY <1>0, <2>0
  <2>2. out.calls = IF hides THEN Append(base.calls, [id |-> s, visible |-> FALSE]) ELSE base.calls
    BY <1>0, <2>0
  <2>3. out.ids = IF leaves THEN TakenFrom(base.ids, x, s) ELSE base.ids
    BY <1>0, <2>0
  <2>4. out.section = Rowed(base.section, s, home)
    BY <1>0, <2>0
  <2>5. out = [ids |-> out.ids, section |-> out.section, hidden |-> out.hidden, calls |-> out.calls]
    BY <1>0, <2>0
  <2> QED
    BY <2>1, <2>2, <2>3, <2>4, <2>5
<1>5. /\ Kind[s].prefer \in Section /\ Kind[s].prefer \notin Kind[s].forbidden
  BY KindAssumption
<1>6. /\ DOMAIN Rowed(base.section, s, home) = DOMAIN base.section \cup {s}
      /\ Rowed(base.section, s, home)[s] = home
      /\ \A t \in DOMAIN base.section : Rowed(base.section, s, home)[t] = base.section[t]
  <2> HIDE DEF home
  <2> QED
    BY DEF Rowed
<1>7. "none" \notin Section
  BY DEF Section
<1>8. out.section[s] = home
  BY <1>4, <1>6
<1>9. y = "none" => home = Kind[s].prefer /\ ~ leaves
  BY <1>3
<1>10. y \in Section => x = y /\ ~ hides
  BY <1>3
<1>11. home \in Section \ Kind[s].forbidden
  BY <1>5, <1>7, <1>9, <1>10
<1>12. \/ out.hidden = base.hidden /\ out.calls = base.calls
       \/ /\ s \notin base.hidden /\ out.hidden = base.hidden \cup {s}
          /\ out.calls = Append(base.calls, [id |-> s, visible |-> FALSE])
  <2> HIDE DEF found
  <2> QED
    BY <1>4
<1>13. \/ y = home /\ out.ids = base.ids
       \/ y = "none" /\ out.ids = base.ids
       \/ y \in Section /\ y # home /\ out.ids = TakenFrom(base.ids, y, s)
  <2>1. CASE y = "none"
    BY <1>4, <1>9, <2>1
  <2>2. CASE y \in Section
    BY <1>4, <1>5, <1>10, <2>2
  <2> QED
    BY <2>1, <2>2
<1> HIDE DEF home
<1> QED
  BY <1>1, <1>4, <1>6, <1>8, <1>11, <1>12, <1>13

\* A list gets what it has not.
LEMMA AppendOne ==
  ASSUME NEW l \in Seq(Surface), NEW s \in Surface, Times(l, s) = 0, NEW t \in Surface
  PROVE  Append(l, s) \in Seq(Surface) /\ Times(Append(l, s), t) = IF t = s THEN 1 ELSE Times(l, t)
<1>1. Append(l, s) \in Seq(Surface) /\ Times(Append(l, s), t) = Times(l, t) + (IF t = s THEN 1 ELSE 0)
  BY TimesLonger
<1>2. Times(l, t) \in Nat
  BY TimesIsNumber
<1> QED
  BY <1>1, <1>2

\* registerSurfaceId, of a surface without a row.
LEMMA RegisteredFacts ==
  ASSUME NEW base, base \in [ids : Lists4, section : {section}, hidden : {hidden}, calls : {calls}],
         Single(base.ids), NEW s \in Surface, s \notin DOMAIN base.section
  PROVE  Joined(RegisterSurfaceId(base, s), base, s)
<1> DEFINE acc == FindSection(base, s)
           out == RegisterSurfaceId(base, s)
           y == acc.section[s]
<1>0. acc = FindSection(base, s)
  OBVIOUS
<1>1. out = IF Contains(acc.ids[y], s) THEN acc ELSE [acc EXCEPT !.ids[y] = Append(@, s)]
  BY DEF RegisterSurfaceId, RegisterToSection
<1> HIDE DEF acc, out
<1>2. /\ DOMAIN acc.section = DOMAIN base.section \cup {s}
      /\ \A t \in DOMAIN base.section : acc.section[t] = base.section[t]
      /\ y \in Section \ Kind[s].forbidden
      /\ \/ acc.hidden = base.hidden /\ acc.calls = base.calls
         \/ /\ s \notin base.hidden /\ acc.hidden = base.hidden \cup {s}
            /\ acc.calls = Append(base.calls, [id |-> s, visible |-> FALSE])
      /\ \E x \in Section \cup {"none"} :
           /\ At(base.ids, s, x)
           /\ \/ x = y /\ acc.ids = base.ids
              \/ x = "none" /\ acc.ids = base.ids
              \/ x \in Section /\ x # y /\ acc.ids = TakenFrom(base.ids, x, s)
      /\ acc = [ids |-> acc.ids, section |-> acc.section, hidden |-> acc.hidden, calls |-> acc.calls]
  BY <1>0, FindSectionFacts
<1>3. PICK x \in Section \cup {"none"} :
           /\ At(base.ids, s, x)
           /\ \/ x = y /\ acc.ids = base.ids
              \/ x = "none" /\ acc.ids = base.ids
              \/ x \in Section /\ x # y /\ acc.ids = TakenFrom(base.ids, x, s)
  BY <1>2
<1>4. base.ids \in Lists4 /\ "none" \notin Section
  BY DEF Section
<1> DEFINE lists == base.ids
           l == lists[y]
           w == Without(lists[x], s)
           a == Append(l, s)
<1>5. y \in Section /\ l \in Seq(Surface) /\ (Contains(l, s) <=> x = y) /\ Times(l, s) = IF x = y THEN 1 ELSE 0
  BY <1>2, <1>3, <1>4, AtContains
<1>6. CASE x = y
  <2>1. acc.ids = lists
    BY <1>3, <1>4, <1>5, <1>6
  <2>2. out = acc
    BY <1>1, <1>5, <1>6, <2>1
  <2>3. Rehomed(lists, lists, s, y)
    BY <1>3, <1>4, <1>6 DEF Rehomed
  <2> QED
    BY <1>2, <2>1, <2>2, <2>3 DEF Joined, out
<1>7. CASE x # y
  <2>1. acc.ids \in [Section -> Seq(Surface)] /\ acc.ids[y] = l
    <3>1. CASE x = "none"
      BY <1>3, <1>4, <1>5, <1>7, <3>1 DEF Lists4
    <3>2. CASE x \in Section
      <4>1. w \in Seq(Surface)
        <5>1. lists[x] \in Seq(Surface)
          BY <1>4, <3>2 DEF Lists4
        <5> QED
          BY <5>1, TimesWithout
      <4>2. acc.ids = [lists EXCEPT ![x] = w]
        BY <1>3, <1>4, <1>7, <3>2 DEF TakenFrom
      <4> HIDE DEF w
      <4> QED
        BY <1>4, <1>5, <1>7, <3>2, <4>1, <4>2 DEF Lists4
    <3> QED
      BY <3>1, <3>2
  <2>2. out = [acc EXCEPT !.ids[y] = Append(@, s)]
    BY <1>1, <1>5, <1>7, <2>1
  <2> DEFINE new == [acc.ids EXCEPT ![y] = a]
  <2>3. /\ out.ids = new /\ out.section = acc.section /\ out.hidden = acc.hidden /\ out.calls = acc.calls
    BY <1>2, <2>1, <2>2
  <2>4. \A t \in Surface : a \in Seq(Surface) /\ Times(a, t) = IF t = s THEN 1 ELSE Times(l, t)
    <3> SUFFICES ASSUME NEW t \in Surface
                 PROVE  a \in Seq(Surface) /\ Times(a, t) = IF t = s THEN 1 ELSE Times(l, t)
      OBVIOUS
    <3>1. l \in Seq(Surface) /\ Times(l, s) = 0
      BY <1>5, <1>7
    <3> HIDE DEF l
    <3> QED
      BY <3>1, AppendOne
  <2> HIDE DEF a
  <2>5. new \in Lists4 /\ new[y] = a /\ \A z \in Section : z # y => new[z] = acc.ids[z]
    BY <1>5, <2>1, <2>4 DEF Lists4
  <2>6. x \in Section /\ x # y => new[x] = w
    BY <1>3, <1>4, <1>7, <2>5 DEF Lists4, TakenFrom
  <2>7. \A z \in Section : z # x /\ z # y => new[z] = lists[z]
    BY <1>3, <1>4, <1>5, <1>7, <2>5 DEF Lists4, TakenFrom
  <2>8. \A t \in Surface : Times(new[y], t) = IF t = s THEN 1 ELSE Times(lists[y], t)
    BY <2>4, <2>5
  <2> HIDE DEF new
  <2>9. Rehomed(new, lists, s, y)
    BY <1>3, <1>4, <1>5, <2>5, <2>6, <2>7, <2>8, MovedTo
  <2> QED
    BY <1>2, <2>3, <2>9 DEF Joined, out
<1> QED
  BY <1>6, <1>7

-----------------------------------------------------------------------------
(* updateVisualIndexes.                                                    *)

\* Rows get the section whose list names them.
LEMMA RowsAtHome ==
  ASSUME ids' \in Lists4, NEW rows, DOMAIN rows \subseteq Surface, UpdateVisualIndexes(rows),
         \A t \in DOMAIN rows : \E y \in Section \ Kind[t].forbidden : At(ids', t, y)
  PROVE  Home(ids', section') /\ DOMAIN section' = DOMAIN rows
<1>1. section' = [s \in DOMAIN rows |->
                   IF \E x \in Section : Contains(ids'[x], s)
                   THEN CHOOSE x \in Section : Contains(ids'[x], s) ELSE rows[s]]
  BY DEF UpdateVisualIndexes
<1>2. DOMAIN section' = DOMAIN rows /\ section' = [s \in DOMAIN section' |-> section'[s]]
  BY <1>1
<1>3. ASSUME NEW t \in DOMAIN rows
      PROVE  section'[t] \in Section \ Kind[t].forbidden /\ At(ids', t, section'[t])
  <2>1. PICK y \in Section \ Kind[t].forbidden : At(ids', t, y)
    BY <1>3
  <2>2. \A x \in Section : Contains(ids'[x], t) <=> x = y
    BY <2>1, AtContains
  <2>3. (CHOOSE x \in Section : Contains(ids'[x], t)) = y
    BY <2>1, <2>2
  <2>4. section'[t] = y
    BY <1>1, <2>1, <2>2, <2>3
  <2> QED
    BY <2>1, <2>4
<1> QED
  BY <1>2, <1>3 DEF Home

\* What is shown of a section.
Visible(s, x) == x = "stashed" \/ ~Settable(s) \/ s \notin hidden'

LEMMA ShownFacts ==
  ASSUME ids' \in Lists4, Home(ids', section'), NEW x \in Section
  PROVE  /\ Shown(x) \in Seq(DOMAIN section')
         /\ \A s \in DOMAIN section' :
              Times(Shown(x), s) = IF section'[s] = x /\ Visible(s, x) THEN 1 ELSE 0
<1> DEFINE l == ids'[x]
           I == {i \in DOMAIN l : LET s == l[i] IN s \in DOMAIN section' /\ Visible(s, x)}
           t == RowsAt(l, I)
           S == DOMAIN section'
<1>1. Shown(x) = t
  BY DEF Shown, Visible
<1>2. l \in Seq(Surface) /\ I \in SUBSET DOMAIN l
  BY DEF Lists4
<1>3. \A i \in I : l[i] \in S /\ Visible(l[i], x)
  OBVIOUS
<1>4. \A s : s \in S /\ Visible(s, x) => \A i \in DOMAIN l : l[i] = s => i \in I
  OBVIOUS
<1>5. \A s \in S : Times(l, s) = IF x = section'[s] THEN 1 ELSE 0
  BY AtContains DEF Home
<1> HIDE DEF l, I
<1>6. t \in Seq(S)
  <2> DEFINE g == Ascending(I)
             m == Cardinality(I)
  <2>1. /\ Len(t) = m /\ m \in Nat /\ t \in Seq(Surface) /\ g \in [1..m -> I]
        /\ \A i \in 1..m : t[i] = l[g[i]]
    BY <1>2, RowsAtFacts
  <2> HIDE DEF g, m, t, S
  <2>2. \A i \in 1..Len(t) : t[i] \in S
    BY <1>3, <2>1
  <2> QED
    BY <2>1, <2>2
<1>7. ASSUME NEW s \in S PROVE Times(t, s) = IF section'[s] = x /\ Visible(s, x) THEN 1 ELSE 0
  <2>1. /\ (\A i \in DOMAIN l : l[i] = s => i \in I) => Times(t, s) = Times(l, s)
        /\ (\A i \in I : l[i] # s) => Times(t, s) = 0
    BY <1>2, TimesAt
  <2>2. CASE Visible(s, x)
    BY <1>4, <1>5, <2>1, <2>2
  <2>3. CASE ~ Visible(s, x)
    <3>1. \A i \in I : l[i] # s
      BY <1>3, <2>3
    <3> QED
      BY <2>1, <2>3, <3>1
  <2> QED
    BY <2>2, <2>3
<1> QED
  BY <1>1, <1>6, <1>7

\* The first of two lists, one behind the other.
LEMMA FirstOfBoth ==
  ASSUME NEW S, NEW a \in Seq(S), NEW b \in Seq(S), a # << >>
  PROVE  a \o b # << >> /\ (a \o b)[1] = a[1]
<1>1. /\ Len(a) \in Nat /\ Len(a) # 0 /\ Len(b) \in Nat
      /\ Len(a \o b) = Len(a) + Len(b)
  OBVIOUS
<1>2. \A i \in 1..Len(a) : (a \o b)[i] = a[i]
  OBVIOUS
<1>3. 1 \in 1..Len(a) /\ Len(a \o b) # 0
  BY <1>1
<1> QED
  BY <1>2, <1>3

Items == DOMAIN section' \cup Action \cup {"gap"}

\* The items from the stash button to the quick settings.
LEMMA MovableFacts ==
  ASSUME ids' \in Lists4, Home(ids', section'), NEW M, M = Movable
  PROVE  /\ M \in Seq(Items) /\ ~ Contains(M, "gap")
         /\ actionsAlwaysVisible' => M # << >> /\ M[1] = "show-stash" /\ Times(M, "show-stash") = 1
         /\ \A s \in DOMAIN section' :
              Times(M, s) = IF \/ section'[s] = "collapsable" /\ ~collapsed' /\ Visible(s, "collapsable")
                               \/ section'[s] = "pinned" /\ Visible(s, "pinned")
                            THEN 1 ELSE 0
<1> DEFINE a == IF actionsAlwaysVisible' \/ Shown("stashed") # <<>> THEN <<"show-stash">> ELSE <<>>
           b == IF collapsed' THEN <<>> ELSE Shown("collapsable")
           c == IF actionsAlwaysVisible' \/ Shown("collapsable") # <<>> THEN <<"toggle-collapse">> ELSE <<>>
           d == Shown("pinned")
           e == <<"quick-settings">>
           R == DOMAIN section'
           ab == a \o b
           abc == ab \o c
           abcd == abc \o d
<1>1. M = abcd \o e
  BY DEF Movable
<1>2. /\ "collapsable" \in Section /\ "pinned" \in Section
      /\ "show-stash" \in Items /\ "toggle-collapse" \in Items /\ "quick-settings" \in Items
  BY DEF Section, Items, Action
<1>3. /\ "show-stash" \notin R /\ "toggle-collapse" \notin R /\ "quick-settings" \notin R /\ "gap" \notin R
      /\ R \subseteq Items
  BY SurfaceAssumption DEF Home, Action, Items
<1>4. /\ Shown("collapsable") \in Seq(R) /\ d \in Seq(R)
      /\ \A s \in R : /\ Times(Shown("collapsable"), s) = IF section'[s] = "collapsable" /\ Visible(s, "collapsable") THEN 1 ELSE 0
                      /\ Times(d, s) = IF section'[s] = "pinned" /\ Visible(s, "pinned") THEN 1 ELSE 0
  BY <1>2, ShownFacts
<1>5. b \in Seq(R) /\ \A s \in R : Times(b, s) = IF section'[s] = "collapsable" /\ ~collapsed' /\ Visible(s, "collapsable") THEN 1 ELSE 0
  <2>1. CASE collapsed'
    <3>1. b = << >>
      BY <2>1
    <3> HIDE DEF b
    <3> QED
      BY <2>1, <3>1, TimesInNone
  <2>2. CASE ~ collapsed'
    <3>1. b = Shown("collapsable")
      BY <2>2
    <3> HIDE DEF b
    <3> QED
      BY <1>4, <2>2, <3>1
  <2> QED
    BY <2>1, <2>2
<1>6. \A l \in Seq(R) : \A z : z \notin R => Times(l, z) = 0 /\ ~ Contains(l, z)
  <2> SUFFICES ASSUME NEW l \in Seq(R), NEW z, z \notin R PROVE Times(l, z) = 0 /\ ~ Contains(l, z)
    OBVIOUS
  <2>1. ~ \E i \in DOMAIN l : l[i] = z
    OBVIOUS
  <2> QED
    BY <2>1, TimesIsNumber
<1>7. /\ a \in Seq(Items)
      /\ \A z : z # "show-stash" => Times(a, z) = 0
      /\ actionsAlwaysVisible' => a # << >> /\ a[1] = "show-stash" /\ Times(a, "show-stash") = 1
  <2>1. CASE a = <<"show-stash">>
    <3> HIDE DEF a
    <3> QED
      BY <1>2, <2>1, TimesInOne
  <2>2. CASE a = << >> /\ ~ actionsAlwaysVisible'
    <3> HIDE DEF a
    <3> QED
      BY <2>2, TimesInNone
  <2> QED
    BY <2>1, <2>2
<1>8. c \in Seq(Items) /\ \A z : z # "toggle-collapse" => Times(c, z) = 0
  <2>1. CASE c = <<"toggle-collapse">>
    <3> HIDE DEF c
    <3> QED
      BY <1>2, <2>1, TimesInOne
  <2>2. CASE c = << >>
    <3> HIDE DEF c
    <3> QED
      BY <2>2, TimesInNone
  <2> QED
    BY <2>1, <2>2
<1>9. e \in Seq(Items) /\ \A z : z # "quick-settings" => Times(e, z) = 0
  BY <1>2, TimesInOne
<1>10. b \in Seq(Items) /\ d \in Seq(Items)
  <2> HIDE DEF b, d
  <2> QED
    BY <1>3, <1>4, <1>5
<1> HIDE DEF a, b, c, d, e
<1>11. \A z : ab \in Seq(Items) /\ Times(ab, z) = Times(a, z) + Times(b, z)
  BY <1>7, <1>10, TimesInBoth
<1>12. actionsAlwaysVisible' => ab # << >> /\ ab[1] = "show-stash"
  BY <1>7, <1>10, FirstOfBoth
<1> HIDE DEF ab
<1>13. \A z : abc \in Seq(Items) /\ Times(abc, z) = Times(ab, z) + Times(c, z)
  BY <1>8, <1>11, TimesInBoth
<1>14. actionsAlwaysVisible' => abc # << >> /\ abc[1] = "show-stash"
  BY <1>8, <1>11, <1>12, FirstOfBoth
<1> HIDE DEF abc
<1>15. \A z : abcd \in Seq(Items) /\ Times(abcd, z) = Times(abc, z) + Times(d, z)
  BY <1>10, <1>13, TimesInBoth
<1>16. actionsAlwaysVisible' => abcd # << >> /\ abcd[1] = "show-stash"
  BY <1>10, <1>13, <1>14, FirstOfBoth
<1> HIDE DEF abcd
<1>17. \A z : M \in Seq(Items) /\ Times(M, z) = Times(abcd, z) + Times(e, z)
  BY <1>1, <1>9, <1>15, TimesInBoth
<1>18. actionsAlwaysVisible' => M # << >> /\ M[1] = "show-stash"
  BY <1>1, <1>9, <1>15, <1>16, FirstOfBoth
<1>19. \A z : Times(M, z) = Times(a, z) + Times(b, z) + Times(c, z) + Times(d, z) + Times(e, z)
  BY <1>11, <1>13, <1>15, <1>17
<1>20. actionsAlwaysVisible' => Times(M, "show-stash") = 1
  <2>1. Times(b, "show-stash") = 0 /\ Times(d, "show-stash") = 0
    BY <1>3, <1>4, <1>5, <1>6
  <2>2. Times(c, "show-stash") = 0 /\ Times(e, "show-stash") = 0
    BY <1>8, <1>9
  <2> QED
    BY <1>7, <1>19, <2>1, <2>2
<1>21. ~ Contains(M, "gap")
  <2>1. Times(b, "gap") = 0 /\ Times(d, "gap") = 0
    BY <1>3, <1>4, <1>5, <1>6
  <2>2. Times(a, "gap") = 0 /\ Times(c, "gap") = 0 /\ Times(e, "gap") = 0
    BY <1>7, <1>8, <1>9
  <2>3. Times(M, "gap") = 0
    BY <1>19, <2>1, <2>2
  <2> QED
    BY <1>17, <2>3, TimesIsNumber
<1>22. ASSUME NEW s \in R
       PROVE  Times(M, s) = IF \/ section'[s] = "collapsable" /\ ~collapsed' /\ Visible(s, "collapsable")
                               \/ section'[s] = "pinned" /\ Visible(s, "pinned")
                            THEN 1 ELSE 0
  <2>1. Times(a, s) = 0 /\ Times(c, s) = 0 /\ Times(e, s) = 0
    BY <1>3, <1>7, <1>8, <1>9
  <2>2. /\ Times(b, s) = IF section'[s] = "collapsable" /\ ~collapsed' /\ Visible(s, "collapsable") THEN 1 ELSE 0
        /\ Times(d, s) = IF section'[s] = "pinned" /\ Visible(s, "pinned") THEN 1 ELSE 0
    BY <1>4, <1>5
  <2>3. Times(M, s) = Times(b, s) + Times(d, s)
    BY <1>19, <2>1, <2>2
  <2> QED
    BY <2>2, <2>3
<1> QED
  BY <1>17, <1>18, <1>20, <1>21, <1>22

\* A gap reserved among the items moves none of them to another list, and never
\* takes the place of the stash button that is always shown.
LEMMA ReservedFacts ==
  ASSUME NEW M \in Seq(Items), ~ Contains(M, "gap"), staged'.index \in Nat,
         actionsAlwaysVisible' => M # << >> /\ M[1] = "show-stash" /\ Times(M, "show-stash") = 1,
         NEW R, R = Reserved(M)
  PROVE  /\ R \in Seq(Items)
         /\ \A z : z # "gap" => Times(R, z) = Times(M, z)
         /\ Contains(R, "gap") => staged'.id # NoSurface
         /\ actionsAlwaysVisible' => R # << >> /\ R[1] = "show-stash" /\ Times(R, "show-stash") = 1
<1> DEFINE k == staged'.index
           Takes == staged'.id # NoSurface /\ k < Len(M) /\ (k = 0 => M[1] # "show-stash")
           N == InsertAt(M, k + 1, "gap")
<1>1. R = IF Takes THEN N ELSE M
  BY DEF Reserved
<1>2. CASE ~ Takes
  <2> HIDE DEF Takes, N
  <2> QED
    BY <1>1, <1>2
<1>3. CASE Takes
  <2>1. R = N /\ k + 1 \in 1..Len(M) + 1 /\ k \in Nat /\ staged'.id # NoSurface
        /\ (k = 0 => M[1] # "show-stash")
    BY <1>1, <1>3
  <2>2. "gap" \in Items
    BY DEF Items
  <2> HIDE DEF N, k, Takes
  <2>3. ASSUME NEW z
        PROVE N \in Seq(Items) /\ Times(N, z) = Times(M, z) + (IF z = "gap" THEN 1 ELSE 0)
    <3> DEFINE p == k + 1
    <3>1. p \in 1..Len(M) + 1 /\ N = InsertAt(M, p, "gap")
      BY <2>1 DEF N
    <3> HIDE DEF p
    <3> QED
      BY <2>2, <3>1, TimesInserted
  <2>4. \A z : Times(M, z) \in Nat
    BY TimesIsNumber
  <2>5. \A z : z # "gap" => Times(N, z) = Times(M, z)
    BY <2>3, <2>4
  <2>6. ASSUME actionsAlwaysVisible'
        PROVE  N # << >> /\ N[1] = "show-stash" /\ Times(N, "show-stash") = 1
    <3>1. M # << >> /\ M[1] = "show-stash" /\ Times(M, "show-stash") = 1
      BY <2>6
    <3>2. k # 0
      BY <2>1, <3>1
    <3>3. /\ Len(N) = Len(M) + 1
          /\ \A j \in 1..Len(M) + 1 :
               N[j] = IF j < k + 1 THEN M[j] ELSE IF j = k + 1 THEN "gap" ELSE M[j - 1]
      <4> DEFINE p == k + 1
      <4>1. p \in 1..Len(M) + 1 /\ N = InsertAt(M, p, "gap")
        BY <2>1 DEF N
      <4> HIDE DEF p
      <4>2. /\ Len(N) = Len(M) + 1
            /\ \A j \in 1..Len(M) + 1 :
                 N[j] = IF j < p THEN M[j] ELSE IF j = p THEN "gap" ELSE M[j - 1]
        BY <2>2, <4>1, InsertAtFacts
      <4> QED
        BY <4>2 DEF p
    <3>4. Len(M) \in Nat /\ 1 \in 1..Len(M) + 1 /\ 1 < k + 1
      BY <2>1, <3>2
    <3>5. N[1] = M[1] /\ Len(N) # 0
      BY <3>3, <3>4
    <3>6. N # << >>
      BY <3>5
    <3> QED
      BY <2>5, <3>1, <3>5, <3>6
  <2>7. N \in Seq(Items)
    BY <2>3
  <2> QED
    BY <2>1, <2>5, <2>6, <2>7
<1> QED
  BY <1>2, <1>3

\* What the dock and the stash show: every surface that is to be seen once, the
\* button of the stash first while it is always shown, and a gap only when one is
\* reserved.
Pictured ==
  /\ visual.dock \in Seq(Registered \cup Action \cup {"gap"})
  /\ Contains(visual.dock, "gap") => staged.id # NoSurface
  /\ actionsAlwaysVisible =>
       /\ visual.dock # << >> /\ visual.dock[1] = "show-stash"
       /\ Times(visual.dock, "show-stash") = 1
  /\ \A s \in Registered :
       (~Settable(s) \/ s \notin hidden) /\ ~(collapsed /\ section[s] = "collapsable") =>
         Times(visual.dock \o visual.stash, s) = 1

LEMMA PicturedFacts ==
  ASSUME ids' \in Lists4, Home(ids', section'), staged'.index \in Nat, NEW rows,
         UpdateVisualIndexes(rows)
  PROVE  Pictured'
<1> DEFINE M == Movable
           R == Reserved(M)
           F == Shown("fixed")
           stash == Shown("stashed")
           dock == R \o F
           S == DOMAIN section'
<1>1. visual' = [dock |-> dock, stash |-> stash]
  BY DEF UpdateVisualIndexes
<1>2. visual'.dock = dock /\ visual'.stash = stash
  <2> HIDE DEF dock, stash
  <2> QED
    BY <1>1
<1>3. "fixed" \in Section /\ "stashed" \in Section
  BY DEF Section
<1>4. /\ F \in Seq(S)
      /\ \A s \in S : Times(F, s) = IF section'[s] = "fixed" /\ Visible(s, "fixed") THEN 1 ELSE 0
  BY <1>3, ShownFacts
<1>5. /\ stash \in Seq(S)
      /\ \A s \in S : Times(stash, s) = IF section'[s] = "stashed" /\ Visible(s, "stashed") THEN 1 ELSE 0
  BY <1>3, ShownFacts
<1>6. M = Movable
  OBVIOUS
<1> HIDE DEF M
<1>7. /\ M \in Seq(Items) /\ ~ Contains(M, "gap")
      /\ actionsAlwaysVisible' => M # << >> /\ M[1] = "show-stash" /\ Times(M, "show-stash") = 1
      /\ \A s \in S :
           Times(M, s) = IF \/ section'[s] = "collapsable" /\ ~collapsed' /\ Visible(s, "collapsable")
                            \/ section'[s] = "pinned" /\ Visible(s, "pinned")
                         THEN 1 ELSE 0
  BY <1>6, MovableFacts
<1>8. R = Reserved(M)
  OBVIOUS
<1> HIDE DEF R
<1>9. /\ R \in Seq(Items)
      /\ \A z : z # "gap" => Times(R, z) = Times(M, z)
      /\ Contains(R, "gap") => staged'.id # NoSurface
      /\ actionsAlwaysVisible' => R # << >> /\ R[1] = "show-stash" /\ Times(R, "show-stash") = 1
  BY <1>7, <1>8, ReservedFacts
<1>10. S \subseteq Surface /\ \A s \in S : section'[s] \in Section
  BY DEF Home
<1>11. /\ "gap" \notin S /\ "show-stash" \notin S /\ S \subseteq Items
       /\ Items = S \cup Action \cup {"gap"}
  BY <1>10, SurfaceAssumption DEF Action, Items
<1> HIDE DEF F, stash
<1>12. F \in Seq(Items) /\ stash \in Seq(Items)
  <2> HIDE DEF S
  <2> QED
    BY <1>4, <1>5, <1>11
<1>13. \A z : z \notin S => Times(F, z) = 0
  <2> SUFFICES ASSUME NEW z, z \notin S PROVE Times(F, z) = 0
    OBVIOUS
  <2>1. ~ \E i \in DOMAIN F : F[i] = z
    BY <1>4
  <2> QED
    BY <1>4, <2>1, TimesIsNumber
<1>14. \A z : dock \in Seq(Items) /\ Times(dock, z) = Times(R, z) + Times(F, z)
  BY <1>9, <1>12, TimesInBoth
<1>15. actionsAlwaysVisible' => dock # << >> /\ dock[1] = "show-stash"
  BY <1>9, <1>12, FirstOfBoth
<1>16. \A z : Times(R, z) \in Nat /\ Times(F, z) \in Nat
  BY <1>9, <1>12, TimesIsNumber
<1> HIDE DEF dock
<1>17. actionsAlwaysVisible' => Times(dock, "show-stash") = 1
  <2>1. Times(F, "show-stash") = 0
    BY <1>11, <1>13
  <2> QED
    BY <1>9, <1>14, <2>1
<1>18. Contains(dock, "gap") => staged'.id # NoSurface
  <2> SUFFICES ASSUME Contains(dock, "gap") PROVE Contains(R, "gap")
    BY <1>9
  <2>1. Times(dock, "gap") # 0
    BY <1>14, TimesIsNumber
  <2>2. Times(F, "gap") = 0
    BY <1>11, <1>13
  <2>3. Times(R, "gap") # 0
    BY <1>14, <1>16, <2>1, <2>2
  <2> QED
    BY <1>9, <2>3, TimesIsNumber
<1>19. ASSUME NEW s \in S, ~Settable(s) \/ s \notin hidden', ~(collapsed' /\ section'[s] = "collapsable")
       PROVE  Times(dock \o stash, s) = 1
  <2>1. Times(dock \o stash, s) = Times(dock, s) + Times(stash, s)
    BY <1>12, <1>14, TimesInBoth
  <2>2. s # "gap"
    BY <1>11
  <2>3. Times(dock \o stash, s) = Times(M, s) + Times(F, s) + Times(stash, s)
    BY <1>9, <1>14, <2>1, <2>2
  <2>4. \A x \in Section : Visible(s, x)
    BY <1>19 DEF Visible
  <2>5. /\ Times(F, s) = IF section'[s] = "fixed" THEN 1 ELSE 0
        /\ Times(stash, s) = IF section'[s] = "stashed" THEN 1 ELSE 0
    BY <1>3, <1>4, <1>5, <2>4
  <2>6. Times(M, s) = IF section'[s] = "collapsable" \/ section'[s] = "pinned" THEN 1 ELSE 0
    <3>1. "collapsable" \in Section /\ "pinned" \in Section
      BY DEF Section
    <3> QED
      BY <1>7, <1>19, <2>4, <3>1
  <2>7. section'[s] \in {"stashed", "collapsable", "pinned", "fixed"}
    BY <1>10 DEF Section
  <2> QED
    BY <2>3, <2>5, <2>6, <2>7
<1>20. visual'.dock \in Seq(Registered' \cup Action \cup {"gap"})
  BY <1>2, <1>11, <1>14 DEF Registered
<1> HIDE DEF S
<1>21. Registered' = S
  BY DEF Registered, S
<1> QED
  BY <1>2, <1>15, <1>17, <1>18, <1>19, <1>20, <1>21 DEF Pictured

\* The rows are brought up to date with lists in which all of them have a place.
LEMMA Redrawn ==
  ASSUME ids' \in Lists4, NEW rows, DOMAIN rows \subseteq Surface, UpdateVisualIndexes(rows),
         \A t \in DOMAIN rows : \E y \in Section \ Kind[t].forbidden : At(ids', t, y),
         staged'.index \in Nat
  PROVE  Home(ids', section') /\ DOMAIN section' = DOMAIN rows /\ Pictured'
<1>1. Home(ids', section') /\ DOMAIN section' = DOMAIN rows
  BY RowsAtHome
<1>2. Pictured'
  BY <1>1, PicturedFacts
<1> QED
  BY <1>1, <1>2

-----------------------------------------------------------------------------
(* The inductive invariant.                                                *)

Stage == [id : Surface \cup {NoSurface}, index : Nat]
Hover == [index : Nat, before : BOOLEAN, pending : BOOLEAN]
Drag == [id : Surface \cup {NoSurface}, stash : BOOLEAN, quick : BOOLEAN, over : BOOLEAN,
         hover : Hover]
Config == [ids : [Saved -> Seq(Surface)], hidden : SUBSET Surface, collapsed : BOOLEAN]
News == [{"model", "settings"} -> 0..MaxNews]

\* The lists have every surface once at most, the rows name the lists of theirs,
\* and what is shown follows from them.
ModelInv ==
  /\ ids \in Lists4 /\ Single(ids) /\ Home(ids, section)
  /\ hidden \subseteq Surface /\ collapsed \in BOOLEAN /\ actionsAlwaysVisible \in BOOLEAN
  /\ staged \in Stage
  /\ Pictured

\* What is saved are the lists as they are, the fixed one excepted, and all agree
\* on what is hidden as far as they have heard of each other.
ConfigInv ==
  /\ config \in Config /\ config.ids = [x \in Saved |-> ids[x]]
  /\ inSettings \subseteq Surface /\ asked \subseteq Surface
  /\ news \in News
  /\ calls \in Seq(Call) /\ Len(calls) <= MaxCalls
  /\ \A s \in Surface \ lost : Fits(s, hidden, config.hidden, inSettings, asked, calls, news.model)

\* While something is over the tray the stash button is shown, so that the places
\* for it, taken or to be taken, are behind that.
DragInv ==
  /\ drag \in Drag /\ drag.id \in Registered \cup {NoSurface}
  /\ drag.over => drag.id # NoSurface /\ actionsAlwaysVisible
  /\ drag.hover.pending => drag.hover.index # 0
  /\ staged = NoStage \/ staged.id # NoSurface
  /\ staged.id # NoSurface =>
       staged.id = drag.id /\ drag.over /\ drag.stash /\ staged.index # 0

TrayInv == ModelInv /\ ConfigInv /\ DragInv

-----------------------------------------------------------------------------
(* The records.                                                            *)

LEMMA NoneTyped ==
  /\ NoStage \in Stage /\ NoStage.id = NoSurface /\ NoStage.index = 0
  /\ NoHover \in Hover /\ NoHover.pending = FALSE
  /\ NoDrag \in Drag /\ NoDrag.id = NoSurface /\ NoDrag.over = FALSE
  /\ NoDrag.hover = NoHover /\ NoDrag.stash = FALSE /\ NoDrag.quick = FALSE
BY DEF NoStage, Stage, NoHover, Hover, NoDrag, Drag

LEMMA StageFields ==
  ASSUME NEW st \in Stage
  PROVE  st.id \in Surface \cup {NoSurface} /\ st.index \in Nat
BY DEF Stage

LEMMA StageMade ==
  ASSUME NEW s \in Surface \cup {NoSurface}, NEW i \in Nat, NEW st, st = [id |-> s, index |-> i]
  PROVE  st \in Stage /\ st.id = s /\ st.index = i
BY DEF Stage

LEMMA HoverFields ==
  ASSUME NEW h \in Hover
  PROVE  h.index \in Nat /\ h.before \in BOOLEAN /\ h.pending \in BOOLEAN
BY DEF Hover

LEMMA HoverMade ==
  ASSUME NEW i \in Nat, NEW b \in BOOLEAN, NEW p \in BOOLEAN,
         NEW h, h = [index |-> i, before |-> b, pending |-> p]
  PROVE  h \in Hover /\ h.index = i
BY DEF Hover

LEMMA DragFields ==
  ASSUME NEW d \in Drag
  PROVE  /\ d.id \in Surface \cup {NoSurface} /\ d.stash \in BOOLEAN /\ d.quick \in BOOLEAN
         /\ d.over \in BOOLEAN /\ d.hover \in Hover
BY DEF Drag

LEMMA DragStarted ==
  ASSUME NEW s \in Surface, NEW a \in BOOLEAN, NEW d, d = [NoDrag EXCEPT !.id = s, !.stash = a]
  PROVE  d \in Drag /\ d.id = s /\ d.over = FALSE /\ d.hover = NoHover
<1>1. NoHover \in Hover
  BY NoneTyped
<1> HIDE DEF NoHover
<1> QED
  BY <1>1 DEF NoDrag, Drag

LEMMA QuickStarted ==
  ASSUME NEW s \in Surface, NEW a \in BOOLEAN, NEW d, d = [NoDrag EXCEPT !.id = s, !.quick = a]
  PROVE  d \in Drag /\ d.id = s /\ d.over = FALSE /\ d.hover = NoHover
<1>1. NoHover \in Hover
  BY NoneTyped
<1> HIDE DEF NoHover
<1> QED
  BY <1>1 DEF NoDrag, Drag

LEMMA DragHovers ==
  ASSUME NEW d \in Drag, NEW h \in Hover, NEW e, e = [d EXCEPT !.hover = h]
  PROVE  /\ e \in Drag /\ e.id = d.id /\ e.stash = d.stash /\ e.quick = d.quick
         /\ e.over = d.over /\ e.hover = h
BY DEF Drag

LEMMA DragEnters ==
  ASSUME NEW d \in Drag, NEW o \in BOOLEAN, NEW e, e = [d EXCEPT !.over = o]
  PROVE  /\ e \in Drag /\ e.id = d.id /\ e.stash = d.stash /\ e.quick = d.quick
         /\ e.over = o /\ e.hover = d.hover
BY DEF Drag

Away(d, h) == [d EXCEPT !.over = FALSE, !.hover = h]

LEMMA DragLeaves ==
  ASSUME NEW d \in Drag, NEW h \in Hover
  PROVE  /\ Away(d, h) \in Drag /\ Away(d, h).id = d.id
         /\ Away(d, h).over = FALSE /\ Away(d, h).hover = h
BY DEF Drag, Away

LEMMA ConfigFields ==
  ASSUME NEW c \in Config
  PROVE  /\ c.ids \in [Saved -> Seq(Surface)] /\ c.hidden \subseteq Surface /\ c.collapsed \in BOOLEAN
BY DEF Config

Configured(l, h, b) == [ids |-> l, hidden |-> h, collapsed |-> b]

LEMMA ConfigMade ==
  ASSUME NEW l, l \in [Saved -> Seq(Surface)], NEW h, h \subseteq Surface, NEW b, b \in BOOLEAN
  PROVE  /\ Configured(l, h, b) \in Config /\ Configured(l, h, b).ids = l
         /\ Configured(l, h, b).hidden = h /\ Configured(l, h, b).collapsed = b
BY DEF Config, Configured

LEMMA ConfigRehidden ==
  ASSUME NEW c \in Config, NEW h, h \subseteq Surface, NEW d, d = [c EXCEPT !.hidden = h]
  PROVE  d \in Config /\ d.ids = c.ids /\ d.hidden = h
BY DEF Config

LEMMA CallMade ==
  ASSUME NEW s \in Surface, NEW v \in BOOLEAN, NEW q \in Seq(Call), Len(q) < MaxCalls,
         NEW c, c = [id |-> s, visible |-> v]
  PROVE  Append(q, c) \in Seq(Call) /\ Len(Append(q, c)) <= MaxCalls
<1>1. c \in Call
  BY DEF Call
<1>2. Append(q, c) \in Seq(Call) /\ Len(Append(q, c)) = Len(q) + 1
  BY <1>1
<1> QED
  BY <1>2, BoundsAssumption

-----------------------------------------------------------------------------
(* What the actions have in common.                                        *)

\* News of a change.
LEMMA ToldFacts ==
  ASSUME news \in News
  PROVE  Told \in News /\ Told.model # 0
<1>1. /\ Told = [who \in {"model", "settings"} |-> IF news[who] < MaxNews THEN news[who] + 1 ELSE MaxNews]
      /\ \A who \in {"model", "settings"} : news[who] \in 0..MaxNews
  BY DEF Told, News
<1>2. \A who \in {"model", "settings"} :
        (IF news[who] < MaxNews THEN news[who] + 1 ELSE MaxNews) \in 1..MaxNews
  BY <1>1, BoundsAssumption
<1>3. \A who \in {"model", "settings"} : Told[who] \in 1..MaxNews
  BY <1>1, <1>2
<1>4. 1..MaxNews \subseteq 0..MaxNews
  BY BoundsAssumption
<1>5. Told \in News
  BY <1>1, <1>3, <1>4 DEF News
<1>6. Told["model"] \in 1..MaxNews
  BY <1>3
<1> QED
  BY <1>5, <1>6, BoundsAssumption

\* What is saved, and what it does not undo.
LEMMA Saves ==
  ASSUME ids' \in Lists4, hidden' \subseteq Surface, collapsed' \in BOOLEAN, news \in News,
         inSettings \subseteq Surface, asked' \subseteq Surface,
         calls' \in Seq(Call), Len(calls') <= MaxCalls,
         \A s \in Surface \ lost :
           Fits(s, hidden', config.hidden, inSettings, asked', calls', news.model),
         SaveDataToDConfig
  PROVE  ConfigInv'
<1>1. /\ config' = [ids |-> [x \in Saved |-> ids'[x]], hidden |-> hidden', collapsed |-> collapsed']
      /\ news' = IF hidden' = config.hidden THEN news ELSE Told
      /\ lost' = IF news.model = 0 THEN lost ELSE lost \cup Overwritten
      /\ inSettings' = inSettings
  BY DEF SaveDataToDConfig
<1>2. [x \in Saved |-> ids'[x]] \in [Saved -> Seq(Surface)]
  BY DEF Lists4, Saved
<1>3. config' \in Config /\ config'.ids = [x \in Saved |-> ids'[x]] /\ config'.hidden = hidden'
  <2> DEFINE lists == [x \in Saved |-> ids'[x]]
  <2>1. lists \in [Saved -> Seq(Surface)] /\ hidden' \subseteq Surface /\ collapsed' \in BOOLEAN
    BY <1>2
  <2>2. config' = Configured(lists, hidden', collapsed')
    BY <1>1 DEF Configured
  <2> HIDE DEF lists
  <2>3. config' \in Config /\ config'.ids = lists /\ config'.hidden = hidden'
    BY <2>1, <2>2, ConfigMade
  <2> QED
    BY <2>3 DEF lists
<1>4. news' \in News
  BY <1>1, ToldFacts
<1>5. ASSUME NEW s \in Surface \ lost'
      PROVE  Fits(s, hidden', config'.hidden, inSettings', asked', calls', news'.model)
  <2>1. s \in Surface \ lost
    BY <1>1
  <2>2. Fits(s, hidden', config.hidden, inSettings, asked', calls', news.model)
    BY <2>1
  <2>3. \/ news.model = 0
        \/ ~ ((s \in config.hidden <=> s \in asked') /\ ~ (s \in hidden' <=> s \in asked'))
    BY <1>1, <2>1 DEF Overwritten
  <2>4. Fits(s, hidden', hidden', inSettings, asked', calls', news'.model)
    BY <2>2, <2>3, FitsSaved
  <2> QED
    BY <1>1, <1>3, <2>4
<1> QED
  BY <1>1, <1>3, <1>4, <1>5 DEF ConfigInv

\* Nothing of the configuration, the lists and what is hidden changes.
LEMMA ConfigKept ==
  ASSUME ConfigInv, UNCHANGED configVars, ids' = ids, hidden' = hidden
  PROVE  ConfigInv'
BY DEF ConfigInv, configVars

\* The rows are brought up to date and nothing moves.
LEMMA ModelRedrawn ==
  ASSUME ModelInv, ids' = ids, hidden' \subseteq Surface, collapsed' \in BOOLEAN,
         actionsAlwaysVisible' \in BOOLEAN, staged' \in Stage, UpdateVisualIndexes(section)
  PROVE  ModelInv' /\ Registered' = Registered
<1>1. ids \in Lists4 /\ Single(ids) /\ Home(ids, section)
  BY DEF ModelInv
<1>2. DOMAIN section \subseteq Surface
  BY <1>1 DEF Home
<1>3. \A t \in DOMAIN section : \E y \in Section \ Kind[t].forbidden : At(ids', t, y)
  BY <1>1 DEF Home
<1>4. staged'.index \in Nat
  BY StageFields
<1>5. Home(ids', section') /\ DOMAIN section' = DOMAIN section /\ Pictured'
  BY <1>1, <1>2, <1>3, <1>4, Redrawn
<1> QED
  BY <1>1, <1>5 DEF ModelInv, Registered

\* Or something moves to a place where it may be.
LEMMA ModelMoved ==
  ASSUME ModelInv, NEW s \in Registered, NEW y \in Section \ Kind[s].forbidden,
         Rehomed(ids', ids, s, y), hidden' \subseteq Surface, collapsed' \in BOOLEAN,
         actionsAlwaysVisible' \in BOOLEAN, staged' \in Stage, UpdateVisualIndexes(section)
  PROVE  ModelInv' /\ Registered' = Registered
<1>1. ids \in Lists4 /\ Single(ids) /\ Home(ids, section)
  BY DEF ModelInv
<1>2. DOMAIN section \subseteq Surface /\ s \in Surface
  BY <1>1 DEF Home, Registered
<1>3. /\ ids' \in Lists4 /\ Single(ids')
      /\ \A t \in Surface \ {s} : \A z : At(ids, t, z) => At(ids', t, z)
  BY <1>1, <1>2, RehomedFacts
<1>4. \A t \in DOMAIN section : \E z \in Section \ Kind[t].forbidden : At(ids', t, z)
  <2> SUFFICES ASSUME NEW t \in DOMAIN section
               PROVE  \E z \in Section \ Kind[t].forbidden : At(ids', t, z)
    OBVIOUS
  <2>1. CASE t = s
    BY <2>1 DEF Rehomed
  <2>2. CASE t # s
    <3>1. section[t] \in Section \ Kind[t].forbidden /\ At(ids, t, section[t])
      BY <1>1 DEF Home
    <3>2. At(ids', t, section[t])
      BY <1>2, <1>3, <2>2, <3>1
    <3> QED
      BY <3>1, <3>2
  <2> QED
    BY <2>1, <2>2
<1>5. staged'.index \in Nat
  BY StageFields
<1>6. Home(ids', section') /\ DOMAIN section' = DOMAIN section /\ Pictured'
  BY <1>2, <1>3, <1>4, <1>5, Redrawn
<1> QED
  BY <1>3, <1>6 DEF ModelInv, Registered

-----------------------------------------------------------------------------
(* News and calls.                                                         *)

\* A drag is not disturbed where its surface, its place and the buttons stay.
LEMMA DragKept ==
  ASSUME DragInv, UNCHANGED <<drag, staged, actionsAlwaysVisible>>, Registered' = Registered
  PROVE  DragInv'
BY DEF DragInv

\* What is saved of the lists is what the model has.
LEMMA ReadBack ==
  ASSUME ids \in Lists4, config.ids = [x \in Saved |-> ids[x]]
  PROVE  [x \in Section |-> IF x \in Saved THEN config.ids[x] ELSE ids[x]] = ids
BY DEF Lists4, Saved

LEMMA ModelValueChangedKeeps ==
  ASSUME TrayInv, ModelValueChanged
  PROVE  TrayInv'
<1>1. /\ news.model > 0 /\ news' = [news EXCEPT !.model = @ - 1]
      /\ ids' = [x \in Section |-> IF x \in Saved THEN config.ids[x] ELSE ids[x]]
      /\ hidden' = config.hidden /\ collapsed' = config.collapsed
      /\ UNCHANGED <<actionsAlwaysVisible, staged, config, inSettings, calls, drag, asked, lost>>
      /\ UpdateVisualIndexes(section)
  BY DEF ModelValueChanged, LoadDataFromDConfig
<1>2. ModelInv /\ ConfigInv /\ DragInv
  BY DEF TrayInv
<1>3. ids' = ids
  BY <1>1, <1>2, ReadBack DEF ModelInv, ConfigInv
<1>4. config.hidden \subseteq Surface /\ config.collapsed \in BOOLEAN
  BY <1>2, ConfigFields DEF ConfigInv
<1>5. actionsAlwaysVisible' \in BOOLEAN /\ staged' \in Stage
  BY <1>1, <1>2 DEF ModelInv
<1>6. ModelInv' /\ Registered' = Registered
  <2>1. hidden' \subseteq Surface /\ collapsed' \in BOOLEAN
    BY <1>1, <1>4
  <2> QED
    BY <1>1, <1>2, <1>3, <1>5, <2>1, ModelRedrawn
<1>7. news' \in News
  <2>1. news \in News
    BY <1>2 DEF ConfigInv
  <2> QED
    BY <1>1, <2>1, BoundsAssumption DEF News
<1>8. ASSUME NEW s \in Surface \ lost'
      PROVE  Fits(s, hidden', config'.hidden, inSettings', asked', calls', news'.model)
  <2>1. s \in Surface \ lost
    BY <1>1
  <2>2. Fits(s, hidden, config.hidden, inSettings, asked, calls, news.model)
    BY <1>2, <2>1 DEF ConfigInv
  <2>3. Fits(s, config.hidden, config.hidden, inSettings, asked, calls, news'.model)
    BY <2>2, FitsHeard
  <2> QED
    BY <1>1, <2>3
<1>9. ConfigInv'
  BY <1>1, <1>2, <1>3, <1>7, <1>8 DEF ConfigInv
<1>10. DragInv'
  BY <1>1, <1>2, <1>6, DragKept
<1> QED
  BY <1>6, <1>9, <1>10 DEF TrayInv

\* What is shown stays as it is with the model.
LEMMA ModelKept ==
  ASSUME ModelInv, UNCHANGED modelVars
  PROVE  ModelInv' /\ Registered' = Registered
BY DEF ModelInv, modelVars, Pictured, Registered

LEMMA SettingsValueChangedKeeps ==
  ASSUME TrayInv, SettingsValueChanged
  PROVE  TrayInv'
<1>1. /\ news.settings > 0 /\ news' = [news EXCEPT !.settings = @ - 1]
      /\ inSettings' = config.hidden
      /\ UNCHANGED <<modelVars, config, calls, drag, asked, lost>>
  BY DEF SettingsValueChanged
<1>2. ModelInv /\ ConfigInv /\ DragInv
  BY DEF TrayInv
<1>3. ModelInv' /\ Registered' = Registered
  BY <1>1, <1>2, ModelKept
<1>4. news' \in News /\ news'.model = news.model
  <2>1. news \in News
    BY <1>2 DEF ConfigInv
  <2> QED
    BY <1>1, <2>1, BoundsAssumption DEF News
<1>5. inSettings' \subseteq Surface
  BY <1>1, <1>2, ConfigFields DEF ConfigInv
<1>6. ASSUME NEW s \in Surface \ lost'
      PROVE  Fits(s, hidden', config'.hidden, inSettings', asked', calls', news'.model)
  <2>1. s \in Surface \ lost
    BY <1>1
  <2>2. Fits(s, hidden, config.hidden, inSettings, asked, calls, news.model)
    BY <1>2, <2>1 DEF ConfigInv
  <2>3. Fits(s, hidden, config.hidden, config.hidden, asked, calls, news.model)
    BY <2>2, FitsLearnt
  <2> QED
    BY <1>1, <1>4, <2>3 DEF modelVars
<1>7. ConfigInv'
  BY <1>1, <1>2, <1>4, <1>5, <1>6 DEF ConfigInv, modelVars
<1>8. DragInv'
  BY <1>1, <1>2, <1>3, DragKept DEF modelVars
<1> QED
  BY <1>3, <1>7, <1>8 DEF TrayInv

\* A queued call that is taken.
LEMMA HeadFacts ==
  ASSUME NEW q \in Seq(Call), q # << >>
  PROVE  /\ Head(q) \in Call /\ Head(q).id \in Surface /\ Head(q).visible \in BOOLEAN
         /\ Tail(q) \in Seq(Call) /\ Len(Tail(q)) <= Len(q) /\ Len(q) \in Nat /\ Len(Tail(q)) \in Nat
<1>1. Head(q) \in Call /\ Tail(q) \in Seq(Call) /\ Len(Tail(q)) = Len(q) - 1 /\ Len(q) \in Nat
      /\ Len(Tail(q)) \in Nat
  OBVIOUS
<1>2. \A c \in Call : c.id \in Surface /\ c.visible \in BOOLEAN
  BY DEF Call
<1> QED
  BY <1>1, <1>2

LEMMA SetItemOnDockKeeps ==
  ASSUME TrayInv, SetItemOnDock
  PROVE  TrayInv'
<1> DEFINE s == Head(calls).id
           v == Head(calls).visible
           known == s \in Registered /\ Settable(s)
           changes == known /\ v = (s \in inSettings)
           now == IF v THEN inSettings \ {s} ELSE inSettings \cup {s}
<1>1. /\ calls # << >>
      /\ inSettings' = IF changes THEN now ELSE inSettings
      /\ config' = IF changes THEN [config EXCEPT !.hidden = now] ELSE config
      /\ news' = IF changes /\ now # config.hidden THEN Told ELSE news
      /\ lost' = IF known THEN lost ELSE lost \cup {s}
      /\ calls' = Tail(calls)
      /\ UNCHANGED <<modelVars, drag, asked>>
  BY DEF SetItemOnDock
<1>2. ModelInv /\ ConfigInv /\ DragInv
  BY DEF TrayInv
<1>3. ModelInv' /\ Registered' = Registered
  BY <1>1, <1>2, ModelKept
<1>4. calls \in Seq(Call) /\ Len(calls) <= MaxCalls /\ news \in News /\ inSettings \subseteq Surface
      /\ config \in Config /\ config.ids = [x \in Saved |-> ids[x]] /\ asked \subseteq Surface
  BY <1>2 DEF ConfigInv
<1>5. /\ s \in Surface /\ v \in BOOLEAN
      /\ Tail(calls) \in Seq(Call) /\ Len(Tail(calls)) <= Len(calls)
      /\ Len(calls) \in Nat /\ Len(Tail(calls)) \in Nat
  BY <1>1, <1>4, HeadFacts
<1>6. now \subseteq Surface /\ \A t : t \in now <=> IF s = t THEN ~ v ELSE t \in inSettings
  <2> HIDE DEF s, v
  <2> QED
    BY <1>4, <1>5
<1>7. Told \in News /\ Told.model # 0
  BY <1>4, ToldFacts
<1>a. s = Head(calls).id /\ v = Head(calls).visible /\ \A t : t \in lost' \/ t # s \/ known
  BY <1>1
<1>b. changes <=> known /\ v = (s \in inSettings)
  OBVIOUS
<1> HIDE DEF now, known, changes
<1>8. news' \in News /\ inSettings' \subseteq Surface
  BY <1>1, <1>4, <1>6, <1>7
<1>9. config' \in Config /\ config'.ids = [x \in Saved |-> ids'[x]]
  <2>1. ids' = ids
    BY <1>1 DEF modelVars
  <2>2. CASE changes
    <3>1. config' = [config EXCEPT !.hidden = now]
      BY <1>1, <2>2
    <3> QED
      BY <1>4, <1>6, <2>1, <3>1, ConfigRehidden
  <2>3. CASE ~ changes
    BY <1>1, <1>4, <2>1, <2>3
  <2> QED
    BY <2>2, <2>3
<1>10. calls' \in Seq(Call) /\ Len(calls') <= MaxCalls
  BY <1>1, <1>4, <1>5, BoundsAssumption
<1>11. ASSUME NEW t \in Surface \ lost'
       PROVE  Fits(t, hidden', config'.hidden, inSettings', asked', calls', news'.model)
  <2>1. t \in Surface \ lost
    BY <1>1
  <2>2. Fits(t, hidden, config.hidden, inSettings, asked, calls, news.model)
    BY <1>2, <2>1 DEF ConfigInv
  <2>3. hidden' = hidden /\ asked' = asked
    BY <1>1 DEF modelVars
  <2>4. CASE changes
    <3>1. config'.hidden = now /\ inSettings' = now
      <4>1. config' = [config EXCEPT !.hidden = now]
        BY <1>1, <2>4
      <4> QED
        BY <1>1, <1>4, <1>6, <2>4, <4>1, ConfigRehidden
    <3>2. news'.model = 0 => news.model = 0 /\ now = config.hidden
      BY <1>1, <1>7, <2>4
    <3>3. t \in now <=> IF Head(calls).id = t THEN ~ Head(calls).visible ELSE t \in inSettings
      BY <1>6, <1>a
    <3>4. Fits(t, hidden, now, now, asked, Tail(calls), news'.model)
      BY <1>1, <1>4, <2>2, <3>2, <3>3, FitsSet
    <3> QED
      BY <1>1, <2>3, <3>1, <3>4
  <2>5. CASE ~ changes
    <3>1. Head(calls).id = t => (Head(calls).visible <=> t \notin inSettings)
      BY <1>5, <1>a, <1>b, <2>5
    <3>2. Fits(t, hidden, config.hidden, inSettings, asked, Tail(calls), news.model)
      BY <1>1, <1>4, <2>2, <3>1, FitsPassed
    <3> QED
      BY <1>1, <2>3, <2>5, <3>2
  <2> QED
    BY <2>4, <2>5
<1>12. ConfigInv'
  <2>1. asked' \subseteq Surface
    BY <1>1, <1>4
  <2> QED
    BY <1>8, <1>9, <1>10, <1>11, <2>1 DEF ConfigInv
<1>13. DragInv'
  BY <1>1, <1>2, <1>3, DragKept DEF modelVars
<1> QED
  BY <1>3, <1>12, <1>13 DEF TrayInv

LEMMA ControlCenterKeeps ==
  ASSUME TrayInv, NEW s \in Registered, NEW visible \in BOOLEAN, ControlCenter(s, visible)
  PROVE  TrayInv'
<1>1. /\ Len(calls) < MaxCalls
      /\ calls' = Append(calls, [id |-> s, visible |-> visible])
      /\ asked' = IF visible THEN asked \ {s} ELSE asked \cup {s}
      /\ UNCHANGED <<modelVars, config, inSettings, news, drag, lost>>
  BY DEF ControlCenter, Room, HandlePluginVisibleChanged
<1>2. ModelInv /\ ConfigInv /\ DragInv
  BY DEF TrayInv
<1>3. ModelInv' /\ Registered' = Registered
  BY <1>1, <1>2, ModelKept
<1>4. s \in Surface
  BY <1>2 DEF ModelInv, Home, Registered
<1>5. calls \in Seq(Call)
  BY <1>2 DEF ConfigInv
<1>6. calls' \in Seq(Call) /\ Len(calls') <= MaxCalls
  BY <1>1, <1>4, <1>5, CallMade
<1>7. asked' \subseteq Surface
  BY <1>1, <1>2, <1>4 DEF ConfigInv
<1>8. ASSUME NEW t \in Surface \ lost'
      PROVE  Fits(t, hidden', config'.hidden, inSettings', asked', calls', news'.model)
  <2>1. t \in Surface \ lost
    BY <1>1
  <2>2. Fits(t, hidden, config.hidden, inSettings, asked, calls, news.model)
    BY <1>2, <2>1 DEF ConfigInv
  <2>3. Fits(t, hidden, config.hidden, inSettings, asked', Append(calls, [id |-> s, visible |-> visible]), news.model)
    <3>1. t # s => (t \in asked' <=> t \in asked) /\ (t \in hidden <=> t \in hidden)
      BY <1>1
    <3>2. t = s => (t \in asked' <=> ~ visible) /\ ((t \in hidden <=> t \in hidden) \/ (t \in hidden <=> ~ visible))
      BY <1>1
    <3> QED
      BY <1>4, <1>5, <2>2, <3>1, <3>2, FitsCalled
  <2> QED
    BY <1>1, <2>3 DEF modelVars
<1>9. ConfigInv'
  BY <1>1, <1>2, <1>6, <1>7, <1>8 DEF ConfigInv, modelVars
<1>10. DragInv'
  BY <1>1, <1>2, <1>3, DragKept DEF modelVars
<1> QED
  BY <1>3, <1>9, <1>10 DEF TrayInv

-----------------------------------------------------------------------------
(* Surfaces that come and go.                                              *)

Base == [ids |-> ids, section |-> section, hidden |-> hidden, calls |-> calls]

LEMMA BaseFields ==
  ASSUME ids \in Lists4
  PROVE  /\ Base \in [ids : Lists4, section : {section}, hidden : {hidden}, calls : {calls}]
         /\ Base.ids = ids /\ Base.section = section /\ Base.hidden = hidden /\ Base.calls = calls
BY DEF Base

\* A surface with a row, in a section where it may be, is left alone.
LEMMA RegisterAgain ==
  ASSUME NEW acc, NEW s, s \in DOMAIN acc.section, acc.section[s] \notin Kind[s].forbidden
  PROVE  RegisterSurfaceId(acc, s) = acc
BY DEF RegisterSurfaceId

\* The members of a set, as a sequence.
Lines(seq, A) ==
  /\ seq \in Seq(Surface) /\ \A i \in DOMAIN seq : seq[i] \in A
  /\ \A s : s \in A => \E i \in DOMAIN seq : seq[i] = s

LEMMA Available ==
  ASSUME NEW A, A \subseteq Surface, NEW seq, seq = SetToSeq(A)
  PROVE  Lines(seq, A)
<1>1. IsFiniteSet(A)
  BY SurfaceAssumption, FS_Subset
<1>2. seq \in Seq(A) /\ \A x : Times(seq, x) = IF x \in A THEN 1 ELSE 0
  BY <1>1, SetToSeqFacts
<1>3. \A i \in DOMAIN seq : seq[i] \in A
  BY <1>2
<1>4. seq \in Seq(Surface)
  BY <1>2
<1>5. ASSUME NEW s, s \in A PROVE \E i \in DOMAIN seq : seq[i] = s
  <2>1. Times(seq, s) # 0
    BY <1>2, <1>5
  <2> QED
    BY <1>2, <2>1, TimesIsNumber
<1> QED
  BY <1>3, <1>4, <1>5 DEF Lines

\* One surface more.
LEMMA RegisterNew ==
  ASSUME ModelInv, NEW s \in Surface \ Registered, NEW A, A = Registered \cup {s}, NEW acc,
         acc = Registers(Base, SetToSeq(A))
  PROVE  acc = RegisterSurfaceId(Base, s) /\ Joined(acc, Base, s)
<1> DEFINE seq == SetToSeq(A)
           new == RegisterSurfaceId(Base, s)
<1>1. /\ ids \in Lists4 /\ Single(ids) /\ Home(ids, section)
      /\ DOMAIN section \subseteq Surface
      /\ \A t \in DOMAIN section : section[t] \notin Kind[t].forbidden
  BY DEF ModelInv, Home
<1>2. /\ Base \in [ids : Lists4, section : {section}, hidden : {hidden}, calls : {calls}]
      /\ Base.ids = ids /\ Base.section = section
  BY <1>1, BaseFields
<1>3. seq \in Seq(Surface) /\ (\A i \in DOMAIN seq : seq[i] \in A) /\ \E i \in DOMAIN seq : seq[i] = s
  <2>1. A \subseteq Surface /\ seq = SetToSeq(A) /\ s \in A
    BY <1>1 DEF Registered
  <2> HIDE DEF seq
  <2>2. Lines(seq, A)
    BY <2>1, Available
  <2> QED
    BY <2>1, <2>2 DEF Lines
<1>4. new = RegisterSurfaceId(Base, s) /\ acc = Registers(Base, seq)
  OBVIOUS
<1>5. s \notin DOMAIN Base.section
  BY <1>2 DEF Registered
<1> HIDE DEF seq, new
<1>6. Joined(new, Base, s)
  BY <1>1, <1>2, <1>4, <1>5, RegisteredFacts
<1>7. \A t \in A : /\ t \in DOMAIN new.section /\ new.section[t] \notin Kind[t].forbidden
                   /\ t # s => t \in DOMAIN Base.section /\ Base.section[t] \notin Kind[t].forbidden
  BY <1>1, <1>2, <1>6 DEF Joined, Registered
<1>8. ASSUME NEW i \in DOMAIN seq
      PROVE  /\ seq[i] = s => RegisterSurfaceId(new, seq[i]) = new
             /\ seq[i] # s => RegisterSurfaceId(Base, seq[i]) = Base /\ RegisterSurfaceId(new, seq[i]) = new
  <2> DEFINE t == seq[i]
  <2>1. t \in A
    BY <1>3
  <2> HIDE DEF t
  <2>2. RegisterSurfaceId(new, t) = new
    BY <1>7, <2>1, RegisterAgain
  <2>3. t # s => RegisterSurfaceId(Base, t) = Base
    BY <1>7, <2>1, RegisterAgain
  <2> QED
    BY <2>2, <2>3 DEF t
<1>9. Registers(Base, seq) = IF \E i \in DOMAIN seq : seq[i] = s THEN new ELSE Base
  BY <1>3, <1>4, <1>8, RegisterOnce
<1> QED
  BY <1>3, <1>4, <1>6, <1>9

\* One less.
LEMMA RegisterOld ==
  ASSUME ModelInv, NEW s \in Registered, NEW A, A = Registered \ {s}, NEW acc,
         acc = Registers(Base, SetToSeq(A))
  PROVE  acc = Base
<1> DEFINE seq == SetToSeq(A)
           new == RegisterSurfaceId(Base, s)
<1>1. /\ ids \in Lists4
      /\ DOMAIN section \subseteq Surface
      /\ \A t \in DOMAIN section : section[t] \notin Kind[t].forbidden
  BY DEF ModelInv, Home
<1>2. Base.section = section
  BY <1>1, BaseFields
<1>3. seq \in Seq(Surface) /\ \A i \in DOMAIN seq : seq[i] \in A
  <2>1. A \subseteq Surface /\ seq = SetToSeq(A)
    BY <1>1 DEF Registered
  <2> HIDE DEF seq
  <2>2. Lines(seq, A)
    BY <2>1, Available
  <2> QED
    BY <2>2 DEF Lines
<1>4. new = RegisterSurfaceId(Base, s) /\ acc = Registers(Base, seq)
  OBVIOUS
<1> HIDE DEF seq, new
<1>5. \A t \in Registered : RegisterSurfaceId(Base, t) = Base
  BY <1>1, <1>2, RegisterAgain DEF Registered
<1>6. new = Base
  BY <1>4, <1>5
<1>7. ASSUME NEW i \in DOMAIN seq
      PROVE  /\ seq[i] = s => RegisterSurfaceId(new, seq[i]) = new
             /\ seq[i] # s => RegisterSurfaceId(Base, seq[i]) = Base /\ RegisterSurfaceId(new, seq[i]) = new
  <2> DEFINE t == seq[i]
  <2>1. t \in Registered
    BY <1>3
  <2> HIDE DEF t
  <2>2. RegisterSurfaceId(Base, t) = Base
    BY <1>5, <2>1
  <2> QED
    BY <1>6, <2>2 DEF t
<1>8. Registers(Base, seq) = IF \E i \in DOMAIN seq : seq[i] = s THEN new ELSE Base
  BY <1>3, <1>4, <1>7, RegisterOnce
<1> QED
  BY <1>4, <1>6, <1>8

\* The drag goes on where its surface stays.
LEMMA DragGoesOn ==
  ASSUME DragInv, UNCHANGED <<drag, staged, actionsAlwaysVisible>>,
         drag.id \in Registered' \cup {NoSurface}
  PROVE  DragInv'
BY DEF DragInv

\* The rows of the surfaces that are there.
LEMMA RestrictedTo ==
  ASSUME NEW f, NEW A
  PROVE  DOMAIN Restrict(f, A) = A
BY DEF Restrict

\* A drag goes on as well when its surface is not the one that leaves.
LEMMA AvailableChanged ==
  ASSUME TrayInv, NEW A, A \subseteq Surface, NEW acc, acc = Registers(Base, SetToSeq(A)),
         OnAvailableSurfacesChanged(A), UNCHANGED drag, drag.id \in A \cup {NoSurface},
         acc.ids \in Lists4, Single(acc.ids), acc.hidden \subseteq Surface,
         acc.calls \in Seq(Call), Len(acc.calls) <= MaxCalls,
         \A t \in A : \E y \in Section \ Kind[t].forbidden : At(acc.ids, t, y),
         \A t \in Surface \ lost :
           Fits(t, acc.hidden, config.hidden, inSettings, asked \cup (acc.hidden \ hidden), acc.calls, news.model)
  PROVE  TrayInv'
<1>1. /\ ids' = acc.ids /\ hidden' = acc.hidden /\ calls' = acc.calls
      /\ asked' = asked \cup (hidden' \ hidden)
      /\ UNCHANGED <<collapsed, actionsAlwaysVisible, staged>>
      /\ UpdateVisualIndexes(Restrict(acc.section, A))
      /\ SaveDataToDConfig
  BY DEF OnAvailableSurfacesChanged, Base, Registers
<1>2. ModelInv /\ ConfigInv /\ DragInv
  BY DEF TrayInv
<1>3. collapsed' \in BOOLEAN /\ actionsAlwaysVisible' \in BOOLEAN /\ staged' \in Stage /\ staged'.index \in Nat
  BY <1>1, <1>2, StageFields DEF ModelInv
<1> DEFINE rows == Restrict(acc.section, A)
<1>4. DOMAIN rows = A /\ UpdateVisualIndexes(rows)
  BY <1>1, RestrictedTo
<1> HIDE DEF rows
<1>5. ids' \in Lists4 /\ \A t \in DOMAIN rows : \E y \in Section \ Kind[t].forbidden : At(ids', t, y)
  BY <1>1, <1>4
<1>6. Home(ids', section') /\ DOMAIN section' = DOMAIN rows /\ Pictured'
  BY <1>3, <1>4, <1>5, Redrawn
<1>7. ModelInv'
  BY <1>1, <1>3, <1>6 DEF ModelInv
<1>8. DragInv'
  BY <1>1, <1>2, <1>4, <1>6, DragGoesOn DEF Registered
<1>9. /\ hidden' \subseteq Surface /\ asked' \subseteq Surface /\ inSettings \subseteq Surface /\ news \in News
      /\ calls' \in Seq(Call) /\ Len(calls') <= MaxCalls
  BY <1>1, <1>2 DEF ConfigInv
<1>10. \A t \in Surface \ lost :
         Fits(t, hidden', config.hidden, inSettings, asked', calls', news.model)
  BY <1>1
<1>11. ConfigInv'
  BY <1>1, <1>3, <1>5, <1>9, <1>10, Saves
<1> QED
  BY <1>7, <1>8, <1>11 DEF TrayInv

LEMMA SurfaceCreatedKeeps ==
  ASSUME TrayInv, NEW s \in Surface, SurfaceCreated(s)
  PROVE  TrayInv'
<1> DEFINE A == Registered \cup {s}
           acc == Registers(Base, SetToSeq(A))
<1>1. /\ Len(calls) < MaxCalls /\ s \notin Registered
      /\ OnAvailableSurfacesChanged(A) /\ UNCHANGED drag
  BY DEF SurfaceCreated, Room
<1>2. ModelInv /\ ConfigInv /\ DragInv
  BY DEF TrayInv
<1>3. /\ ids \in Lists4 /\ Single(ids) /\ Home(ids, section) /\ hidden \subseteq Surface
      /\ Registered \subseteq Surface
  BY <1>2 DEF ModelInv, Home, Registered
<1>4. A \subseteq Surface /\ drag.id \in A \cup {NoSurface}
  BY <1>2, <1>3 DEF DragInv
<1>5. A = Registered \cup {s} /\ acc = Registers(Base, SetToSeq(A))
  OBVIOUS
<1> HIDE DEF A, acc
<1>6. Joined(acc, Base, s)
  BY <1>1, <1>2, <1>5, RegisterNew
<1>7. Base.ids = ids /\ Base.section = section /\ Base.hidden = hidden /\ Base.calls = calls
  BY <1>3, BaseFields
<1> DEFINE y == acc.section[s]
           c == [id |-> s, visible |-> FALSE]
<1>8. /\ y \in Section \ Kind[s].forbidden /\ Rehomed(acc.ids, ids, s, y)
      /\ \/ acc.hidden = hidden /\ acc.calls = calls
         \/ s \notin hidden /\ acc.hidden = hidden \cup {s} /\ acc.calls = Append(calls, c)
  BY <1>6, <1>7 DEF Joined
<1>9. /\ acc.ids \in Lists4 /\ Single(acc.ids)
      /\ \A t \in Surface \ {s} : \A z : At(ids, t, z) => At(acc.ids, t, z)
  BY <1>3, <1>8, RehomedFacts
<1>10. \A t \in A : \E z \in Section \ Kind[t].forbidden : At(acc.ids, t, z)
  <2> SUFFICES ASSUME NEW t \in A PROVE \E z \in Section \ Kind[t].forbidden : At(acc.ids, t, z)
    OBVIOUS
  <2>1. CASE t = s
    BY <1>8, <2>1 DEF Rehomed
  <2>2. CASE t # s
    <3>1. t \in DOMAIN section /\ t \in Surface
      BY <1>4, <1>5, <2>2 DEF Registered
    <3>2. section[t] \in Section \ Kind[t].forbidden /\ At(ids, t, section[t])
      BY <1>3, <3>1 DEF Home
    <3>3. At(acc.ids, t, section[t])
      BY <1>9, <2>2, <3>1, <3>2
    <3> QED
      BY <3>2, <3>3
  <2> QED
    BY <2>1, <2>2
<1>11. calls \in Seq(Call) /\ Len(calls) <= MaxCalls
  BY <1>2 DEF ConfigInv
<1>12. Append(calls, c) \in Seq(Call) /\ Len(Append(calls, c)) <= MaxCalls
  BY <1>1, <1>11, CallMade
<1>13. acc.hidden \subseteq Surface /\ acc.calls \in Seq(Call) /\ Len(acc.calls) <= MaxCalls
  <2> HIDE DEF c
  <2> QED
    BY <1>3, <1>8, <1>11, <1>12
<1>14. ASSUME NEW t \in Surface \ lost
       PROVE  Fits(t, acc.hidden, config.hidden, inSettings, asked \cup (acc.hidden \ hidden), acc.calls, news.model)
  <2>1. Fits(t, hidden, config.hidden, inSettings, asked, calls, news.model)
    BY <1>2 DEF ConfigInv
  <2>2. CASE acc.hidden = hidden /\ acc.calls = calls
    <3>1. asked \cup (acc.hidden \ hidden) = asked
      BY <2>2
    <3> QED
      BY <2>1, <2>2, <3>1
  <2>3. CASE s \notin hidden /\ acc.hidden = hidden \cup {s} /\ acc.calls = Append(calls, c)
    <3> DEFINE ask == asked \cup (acc.hidden \ hidden)
               hid == acc.hidden
    <3>1. t # s => (t \in ask <=> t \in asked) /\ (t \in hid <=> t \in hidden)
      BY <2>3
    <3>2. t = s => (t \in ask <=> ~ FALSE) /\ ((t \in hid <=> t \in hidden) \/ (t \in hid <=> ~ FALSE))
      BY <2>3
    <3> HIDE DEF ask, hid
    <3>3. Fits(t, hid, config.hidden, inSettings, ask, Append(calls, c), news.model)
      BY <1>11, <2>1, <3>1, <3>2, FitsCalled
    <3> QED
      BY <2>3, <3>3 DEF ask, hid
  <2> QED
    BY <1>8, <2>2, <2>3
<1> QED
  BY <1>1, <1>4, <1>5, <1>9, <1>10, <1>13, <1>14, AvailableChanged

LEMMA SurfaceDestroyedKeeps ==
  ASSUME TrayInv, NEW s \in Surface, SurfaceDestroyed(s)
  PROVE  TrayInv'
<1> DEFINE A == Registered \ {s}
           acc == Registers(Base, SetToSeq(A))
<1>1. /\ s \in Registered /\ s # drag.id
      /\ OnAvailableSurfacesChanged(A) /\ UNCHANGED drag
  BY DEF SurfaceDestroyed
<1>2. ModelInv /\ ConfigInv /\ DragInv
  BY DEF TrayInv
<1>3. /\ ids \in Lists4 /\ Single(ids) /\ Home(ids, section) /\ hidden \subseteq Surface
      /\ Registered \subseteq Surface
  BY <1>2 DEF ModelInv, Home, Registered
<1>4. A \subseteq Surface /\ drag.id \in A \cup {NoSurface}
  BY <1>1, <1>2, <1>3 DEF DragInv
<1>5. A = Registered \ {s} /\ acc = Registers(Base, SetToSeq(A))
  OBVIOUS
<1> HIDE DEF A, acc
<1>6. acc = Base
  BY <1>1, <1>2, <1>5, RegisterOld
<1>7. acc.ids = ids /\ acc.hidden = hidden /\ acc.calls = calls
  BY <1>3, <1>6, BaseFields
<1>8. \A t \in A : \E z \in Section \ Kind[t].forbidden : At(acc.ids, t, z)
  BY <1>3, <1>5, <1>7 DEF Home, Registered
<1>9. asked \cup (acc.hidden \ hidden) = asked
  BY <1>7
<1>10. \A t \in Surface \ lost :
         Fits(t, acc.hidden, config.hidden, inSettings, asked \cup (acc.hidden \ hidden), acc.calls, news.model)
  BY <1>2, <1>7, <1>9 DEF ConfigInv
<1>11. /\ acc.ids \in Lists4 /\ Single(acc.ids) /\ acc.hidden \subseteq Surface
       /\ acc.calls \in Seq(Call) /\ Len(acc.calls) <= MaxCalls
  BY <1>2, <1>3, <1>7 DEF ConfigInv
<1> QED
  BY <1>1, <1>4, <1>5, <1>8, <1>10, <1>11, AvailableChanged

-----------------------------------------------------------------------------
(* Drops.                                                                  *)

\* Behind the button of the stash there is no other one,
LEMMA BehindStash ==
  ASSUME NEW S, NEW dock \in Seq(S), dock[1] = "show-stash", Times(dock, "show-stash") = 1,
         NEW k \in 1..Len(dock), k # 1
  PROVE  dock[k] # "show-stash"
<1>1. Len(dock) \in Nat /\ DOMAIN dock = 1..Len(dock) /\ 1 \in DOMAIN dock /\ k \in DOMAIN dock
  OBVIOUS
<1>2. PICK i \in DOMAIN dock : dock[i] = "show-stash" /\ \A j \in DOMAIN dock : dock[j] = "show-stash" => j = i
  BY OncePlaced
<1> QED
  BY <1>1, <1>2

\* also when a gap is given up.
LEMMA BehindStashWithout ==
  ASSUME NEW S, NEW dock \in Seq(S), dock[1] = "show-stash", Times(dock, "show-stash") = 1,
         NEW w, w = Without(dock, "gap"), NEW k \in 1..Len(w), k # 1
  PROVE  w[k] # "show-stash"
<1> DEFINE I == {i \in DOMAIN dock : dock[i] # "gap"}
           g == Ascending(I)
           n == Cardinality(I)
<1>1. I \in SUBSET DOMAIN dock /\ w = RowsAt(dock, I)
  BY DEF Without
<1>2. DOMAIN dock = 1..Len(dock) /\ Len(dock) \in Nat
  OBVIOUS
<1> HIDE DEF I
<1>3. /\ Len(w) = n /\ n \in Nat /\ g \in [1..n -> I]
      /\ \A i, j \in 1..n : i < j => g[i] < g[j]
      /\ \A i \in 1..n : w[i] = dock[g[i]]
  BY <1>1, RowsAtFacts
<1> HIDE DEF g, n
<1>4. 1 \in 1..n /\ k \in 1..n /\ 1 < k
  BY <1>3
<1>5. g[1] \in 1..Len(dock) /\ g[k] \in 1..Len(dock) /\ g[1] < g[k]
  BY <1>1, <1>2, <1>3, <1>4
<1>6. g[k] \in 1..Len(dock) /\ g[k] # 1
  BY <1>2, <1>5
<1>7. dock[g[k]] # "show-stash"
  BY <1>6, BehindStash
<1> QED
  BY <1>3, <1>4, <1>7

\* A drop on the dock.
LEMMA DropKeeps ==
  ASSUME ModelInv, ConfigInv, Len(calls) < MaxCalls,
         NEW s \in Registered, NEW dock \in Seq(Registered \cup Action \cup {"gap"}),
         NEW index \in Nat, NEW before \in BOOLEAN,
         index < Len(dock) /\ dock[index + 1] = "show-stash" => "stashed" \notin Kind[s].forbidden,
         collapsed' = collapsed, actionsAlwaysVisible' \in BOOLEAN, staged' \in Stage,
         DropToDockTray(s, dock, index, before)
  PROVE  ModelInv' /\ ConfigInv' /\ Registered' = Registered
<1> DEFINE on == dock[index + 1]
           c == [id |-> s, visible |-> TRUE]
<1>1. /\ ids \in Lists4 /\ Home(ids, section) /\ hidden \subseteq Surface /\ collapsed' \in BOOLEAN
      /\ Registered \subseteq Surface
  BY DEF ModelInv, Home, Registered
<1>2. CASE index < Len(dock) /\ on # "gap"
  <2>1. /\ ids' = Dropped(s, on, before) /\ hidden' = hidden \ {s}
        /\ IF s \in hidden THEN HandlePluginVisibleChanged(s, TRUE) ELSE UNCHANGED <<calls, asked>>
        /\ UpdateVisualIndexes(section) /\ SaveDataToDConfig
    BY <1>2 DEF DropToDockTray
  <2>2. on \in Registered \cup Action
    <3>1. index + 1 \in 1..Len(dock)
      BY <1>2
    <3> QED
      BY <1>2, <3>1
  <2>3. on = "show-stash" => "stashed" \notin Kind[s].forbidden
    BY <1>2
  <2> HIDE DEF on
  <2>4. PICK y \in Section \ Kind[s].forbidden : Rehomed(ids', ids, s, y)
    BY <1>1, <2>1, <2>2, <2>3, DroppedMoves
  <2>5. hidden' \subseteq Surface
    BY <1>1, <2>1
  <2>6. ModelInv' /\ Registered' = Registered
    BY <1>1, <2>1, <2>4, <2>5, ModelMoved
  <2>7. calls \in Seq(Call) /\ Len(calls) <= MaxCalls /\ asked \subseteq Surface
        /\ inSettings \subseteq Surface /\ news \in News
    BY DEF ConfigInv
  <2>8. s \in Surface
    BY <1>1
  <2>9. Append(calls, c) \in Seq(Call) /\ Len(Append(calls, c)) <= MaxCalls
    BY <2>7, <2>8, CallMade
  <2>10. \/ s \in hidden /\ calls' = Append(calls, c) /\ asked' = asked \ {s}
         \/ s \notin hidden /\ calls' = calls /\ asked' = asked
    BY <2>1 DEF HandlePluginVisibleChanged
  <2>11. calls' \in Seq(Call) /\ Len(calls') <= MaxCalls /\ asked' \subseteq Surface
    <3> HIDE DEF c
    <3> QED
      BY <2>7, <2>9, <2>10
  <2>12. ASSUME NEW t \in Surface \ lost
         PROVE  Fits(t, hidden', config.hidden, inSettings, asked', calls', news.model)
    <3>1. Fits(t, hidden, config.hidden, inSettings, asked, calls, news.model)
      BY DEF ConfigInv
    <3>2. CASE s \in hidden /\ calls' = Append(calls, c) /\ asked' = asked \ {s}
      <4>1. t # s => (t \in asked' <=> t \in asked) /\ (t \in hidden' <=> t \in hidden)
        BY <2>1, <3>2
      <4>2. t = s => (t \in asked' <=> ~ TRUE) /\ ((t \in hidden' <=> t \in hidden) \/ (t \in hidden' <=> ~ TRUE))
        BY <2>1, <3>2
      <4>3. Fits(t, hidden', config.hidden, inSettings, asked', Append(calls, c), news.model)
        BY <2>7, <2>8, <3>1, <4>1, <4>2, FitsCalled
      <4> QED
        BY <3>2, <4>3
    <3>3. CASE s \notin hidden /\ calls' = calls /\ asked' = asked
      <4>1. hidden' = hidden
        BY <2>1, <3>3
      <4> QED
        BY <3>1, <3>3, <4>1
    <3> QED
      BY <2>10, <3>2, <3>3
  <2>13. ids' \in Lists4
    BY <2>4 DEF Rehomed
  <2>14. ConfigInv'
    BY <1>1, <2>1, <2>5, <2>7, <2>11, <2>12, <2>13, Saves
  <2> QED
    BY <2>6, <2>14
<1>3. CASE ~ (index < Len(dock) /\ on # "gap")
  <2>1. UNCHANGED <<ids, hidden, configVars>> /\ UpdateVisualIndexes(section)
    BY <1>3 DEF DropToDockTray
  <2>2. ModelInv' /\ Registered' = Registered
    <3>1. ids' = ids /\ hidden' \subseteq Surface
      BY <1>1, <2>1
    <3> QED
      BY <1>1, <2>1, <3>1, ModelRedrawn
  <2>3. ConfigInv'
    BY <2>1, ConfigKept
  <2> QED
    BY <2>2, <2>3
<1> QED
  BY <1>2, <1>3

\* The tray that something is over has the button of the stash first.
LEMMA OverTray ==
  ASSUME TrayInv, drag.over
  PROVE  /\ drag.id \in Registered
         /\ visual.dock \in Seq(Registered \cup Action \cup {"gap"})
         /\ visual.dock[1] = "show-stash" /\ Times(visual.dock, "show-stash") = 1
         /\ InDock("show-stash")
<1>1. DragInv /\ Pictured
  BY DEF TrayInv, ModelInv
<1>2. drag.id \in Registered /\ actionsAlwaysVisible
  BY <1>1 DEF DragInv
<1>3. /\ visual.dock \in Seq(Registered \cup Action \cup {"gap"})
      /\ visual.dock[1] = "show-stash" /\ Times(visual.dock, "show-stash") = 1
  BY <1>1, <1>2 DEF Pictured
<1>4. Contains(visual.dock, "show-stash")
  BY <1>3, TimesIsNumber
<1> QED
  BY <1>2, <1>3, <1>4 DEF InDock

LEMMA HoverTimeoutKeeps ==
  ASSUME TrayInv, HoverTimeout
  PROVE  TrayInv'
<1>1. /\ Len(calls) < MaxCalls /\ drag.hover.pending
      /\ drag' = [drag EXCEPT !.hover = NoHover]
      /\ IF drag.over
         THEN /\ UNCHANGED <<collapsed, actionsAlwaysVisible, staged>>
              /\ DropToDockTray(drag.id, visual.dock, drag.hover.index, drag.hover.before)
         ELSE UNCHANGED <<modelVars, configVars>>
  BY DEF HoverTimeout, Room
<1>2. ModelInv /\ ConfigInv /\ DragInv
  BY DEF TrayInv
<1>3. drag \in Drag /\ drag.hover.index # 0
  BY <1>1, <1>2 DEF DragInv
<1>4. drag.hover.index \in Nat /\ drag.hover.before \in BOOLEAN /\ drag.over \in BOOLEAN
  BY <1>3, DragFields, HoverFields
<1>5. UNCHANGED <<staged, actionsAlwaysVisible>>
  BY <1>1 DEF modelVars
<1>6. ModelInv' /\ ConfigInv' /\ Registered' = Registered
  <2>1. CASE drag.over
    <3> DEFINE dock == visual.dock
               index == drag.hover.index
               before == drag.hover.before
               s == drag.id
    <3>1. /\ s \in Registered /\ dock \in Seq(Registered \cup Action \cup {"gap"})
          /\ dock[1] = "show-stash" /\ Times(dock, "show-stash") = 1
      BY <2>1, OverTray
    <3>2. UNCHANGED <<collapsed, actionsAlwaysVisible, staged>> /\ DropToDockTray(s, dock, index, before)
      BY <1>1, <2>1
    <3>3. actionsAlwaysVisible' \in BOOLEAN /\ staged' \in Stage
      BY <1>2, <3>2 DEF ModelInv
    <3>4. index \in Nat /\ index # 0 /\ before \in BOOLEAN
      BY <1>3, <1>4
    <3> HIDE DEF dock, index, before, s
    <3>5. ~ (index < Len(dock) /\ dock[index + 1] = "show-stash")
      <4>1. SUFFICES ASSUME index < Len(dock) PROVE dock[index + 1] # "show-stash"
        OBVIOUS
      <4>2. Len(dock) \in Nat
        BY <3>1
      <4> DEFINE k == index + 1
      <4>3. k \in 1..Len(dock) /\ k # 1
        BY <3>4, <4>1, <4>2
      <4> HIDE DEF k
      <4>4. dock[k] # "show-stash"
        BY <3>1, <4>3, BehindStash
      <4> QED
        BY <4>4 DEF k
    <3> QED
      BY <1>1, <1>2, <3>1, <3>2, <3>3, <3>4, <3>5, DropKeeps
  <2>2. CASE ~ drag.over
    <3>1. UNCHANGED <<modelVars, configVars>>
      BY <1>1, <2>2
    <3>2. ModelInv' /\ Registered' = Registered
      BY <1>2, <3>1, ModelKept
    <3>3. ConfigInv'
      BY <1>2, <3>1, ConfigKept DEF modelVars
    <3> QED
      BY <3>2, <3>3
  <2> QED
    BY <2>1, <2>2
<1>7. /\ drag' \in Drag /\ drag'.id = drag.id /\ drag'.stash = drag.stash /\ drag'.over = drag.over
      /\ drag'.hover = NoHover
  BY <1>1, <1>3, NoneTyped, DragHovers
<1>8. DragInv'
  BY <1>2, <1>5, <1>6, <1>7, NoneTyped DEF DragInv
<1> QED
  BY <1>6, <1>8 DEF TrayInv

-----------------------------------------------------------------------------
(* Drags.                                                                  *)

\* Nothing is staged while nothing is over the tray.
LEMMA NotStaged ==
  ASSUME DragInv, ~ drag.over
  PROVE  staged = NoStage /\ staged.id = NoSurface
BY NoneTyped DEF DragInv

LEMMA DragStartKeeps ==
  ASSUME TrayInv, NEW s \in Registered, DragStart(s)
  PROVE  TrayInv'
<1>1. /\ ~ Dragged
      /\ drag' = [NoDrag EXCEPT !.id = s, !.stash = section[s] = "stashed"]
      /\ actionsAlwaysVisible' = (actionsAlwaysVisible \/ Kind[s].app)
      /\ UNCHANGED <<ids, hidden, collapsed, staged, configVars>>
      /\ UpdateVisualIndexes(section)
  BY DEF DragStart
<1>2. ModelInv /\ ConfigInv /\ DragInv
  BY DEF TrayInv
<1>3. ~ drag.over
  BY <1>1, <1>2 DEF DragInv, Dragged
<1>4. s \in Surface /\ hidden \subseteq Surface /\ collapsed \in BOOLEAN /\ staged \in Stage
  BY <1>2 DEF ModelInv, Home, Registered
<1>5. actionsAlwaysVisible' \in BOOLEAN
  BY <1>1
<1>6. ModelInv' /\ Registered' = Registered
  <2>1. hidden' \subseteq Surface /\ collapsed' \in BOOLEAN /\ staged' \in Stage /\ ids' = ids
    BY <1>1, <1>4
  <2> QED
    BY <1>1, <1>2, <1>5, <2>1, ModelRedrawn
<1>7. ConfigInv'
  BY <1>1, <1>2, ConfigKept
<1>8. drag' \in Drag /\ drag'.id = s /\ drag'.over = FALSE /\ drag'.hover = NoHover
  <2> DEFINE a == section[s] = "stashed"
  <2>1. a \in BOOLEAN /\ drag' = [NoDrag EXCEPT !.id = s, !.stash = a]
    BY <1>1
  <2> HIDE DEF a
  <2> QED
    BY ONLY <1>4, <2>1, DragStarted
<1>9. DragInv'
  <2>1. staged' = NoStage /\ staged'.id = NoSurface
    BY <1>1, <1>2, <1>3, NotStaged
  <2> QED
    BY <1>6, <1>8, <2>1, NoneTyped DEF DragInv
<1> QED
  BY <1>6, <1>7, <1>9 DEF TrayInv

LEMMA QuickDragStartKeeps ==
  ASSUME TrayInv, NEW s \in Registered, QuickDragStart(s)
  PROVE  TrayInv'
<1>1. /\ ~ Dragged
      /\ drag' = [NoDrag EXCEPT !.id = s, !.quick = TRUE]
      /\ UNCHANGED <<modelVars, configVars>>
  BY DEF QuickDragStart
<1>2. ModelInv /\ ConfigInv /\ DragInv
  BY DEF TrayInv
<1>3. ~ drag.over
  BY <1>1, <1>2 DEF DragInv, Dragged
<1>4. s \in Surface
  BY <1>2 DEF ModelInv, Home, Registered
<1>5. ModelInv' /\ Registered' = Registered
  BY <1>1, <1>2, ModelKept
<1>6. ConfigInv'
  BY <1>1, <1>2, ConfigKept DEF modelVars
<1>7. drag' \in Drag /\ drag'.id = s /\ drag'.over = FALSE /\ drag'.hover = NoHover
  BY <1>1, <1>4, QuickStarted
<1>8. DragInv'
  <2>1. staged' = NoStage /\ staged'.id = NoSurface
    BY <1>1, <1>2, <1>3, NotStaged DEF modelVars
  <2> QED
    BY <1>5, <1>7, <2>1, NoneTyped DEF DragInv
<1> QED
  BY <1>5, <1>6, <1>8 DEF TrayInv

LEMMA DragEnteredKeeps ==
  ASSUME TrayInv, DragEntered
  PROVE  TrayInv'
<1> DEFINE o == drag.quick => drag.id \in hidden
<1>1. /\ Dragged /\ ~drag.over
      /\ drag' = [drag EXCEPT !.over = o]
      /\ actionsAlwaysVisible' = TRUE
      /\ UNCHANGED <<ids, hidden, collapsed, staged, configVars>>
      /\ UpdateVisualIndexes(section)
  BY DEF DragEntered
<1>2. ModelInv /\ ConfigInv /\ DragInv
  BY DEF TrayInv
<1>3. ModelInv' /\ Registered' = Registered
  <2>1. hidden' \subseteq Surface /\ collapsed' \in BOOLEAN /\ staged' \in Stage /\ ids' = ids
        /\ actionsAlwaysVisible' \in BOOLEAN
    BY <1>1, <1>2 DEF ModelInv
  <2> QED
    BY <1>1, <1>2, <2>1, ModelRedrawn
<1>4. ConfigInv'
  BY <1>1, <1>2, ConfigKept
<1>5. drag \in Drag /\ o \in BOOLEAN
  BY <1>2 DEF DragInv
<1>a. drag.id # NoSurface
  BY <1>1 DEF Dragged
<1> HIDE DEF o
<1>6. drag' \in Drag /\ drag'.id = drag.id /\ drag'.hover = drag.hover
  BY <1>1, <1>5, DragEnters
<1>7. DragInv'
  <2>1. staged' = NoStage /\ staged'.id = NoSurface
    BY <1>1, <1>2, NotStaged
  <2> QED
    BY <1>1, <1>2, <1>3, <1>6, <1>a, <2>1 DEF DragInv
<1> QED
  BY <1>3, <1>4, <1>7 DEF TrayInv

LEMMA PositionChangedKeeps ==
  ASSUME TrayInv, NEW i \in DOMAIN visual.dock, NEW before \in BOOLEAN, PositionChanged(i, before)
  PROVE  TrayInv'
<1> DEFINE h == [index |-> i - 1, before |-> before, pending |-> TRUE]
<1>1. /\ drag.over /\ ~ OnStash(i)
      /\ IF drag.stash
         THEN /\ staged' = [id |-> drag.id, index |-> i - 1]
              /\ UNCHANGED <<ids, hidden, collapsed, actionsAlwaysVisible, drag>>
              /\ UpdateVisualIndexes(section)
         ELSE drag' = [drag EXCEPT !.hover = h] /\ UNCHANGED modelVars
      /\ UNCHANGED configVars
  BY DEF PositionChanged
<1>2. ModelInv /\ ConfigInv /\ DragInv
  BY DEF TrayInv
<1>3. drag.id \in Registered /\ visual.dock \in Seq(Registered \cup Action \cup {"gap"}) /\ InDock("show-stash")
  BY <1>1, OverTray
<1>4. i - 1 \in Nat /\ i - 1 # 0
  <2>1. i \in Nat /\ i # 0
    BY <1>3
  <2>2. i # 1
    BY <1>1, <1>3 DEF OnStash
  <2> QED
    BY <2>1, <2>2
<1>5. drag \in Drag /\ drag.id \in Surface \cup {NoSurface} /\ drag.id # NoSurface
  BY <1>1, <1>2, DragFields DEF DragInv
<1>6. CASE drag.stash
  <2>1. /\ staged' = [id |-> drag.id, index |-> i - 1]
        /\ UNCHANGED <<ids, hidden, collapsed, actionsAlwaysVisible, drag>>
        /\ UpdateVisualIndexes(section) /\ UNCHANGED configVars
    BY <1>1, <1>6
  <2>2. staged' \in Stage /\ staged'.id = drag.id /\ staged'.index = i - 1
    <3> DEFINE s == drag.id
               k == i - 1
    <3>1. s \in Surface \cup {NoSurface} /\ k \in Nat /\ staged' = [id |-> s, index |-> k]
      BY <1>4, <1>5, <2>1
    <3> HIDE DEF s, k
    <3>2. staged' \in Stage /\ staged'.id = s /\ staged'.index = k
      BY <3>1, StageMade
    <3> QED
      BY <3>2 DEF s, k
  <2>3. ModelInv' /\ Registered' = Registered
    <3>1. hidden' \subseteq Surface /\ collapsed' \in BOOLEAN /\ ids' = ids /\ actionsAlwaysVisible' \in BOOLEAN
      BY <1>2, <2>1 DEF ModelInv
    <3> QED
      BY <1>2, <2>1, <2>2, <3>1, ModelRedrawn
  <2>4. ConfigInv'
    BY <1>2, <2>1, ConfigKept
  <2>5. DragInv'
    BY <1>1, <1>2, <1>4, <1>5, <1>6, <2>1, <2>2, <2>3 DEF DragInv
  <2> QED
    BY <2>3, <2>4, <2>5 DEF TrayInv
<1>7. CASE ~ drag.stash
  <2>1. drag' = [drag EXCEPT !.hover = h] /\ UNCHANGED modelVars /\ UNCHANGED configVars
    BY <1>1, <1>7
  <2>2. h \in Hover /\ h.index = i - 1
    <3> DEFINE k == i - 1
    <3>1. k \in Nat
      BY <1>4
    <3> HIDE DEF k
    <3>2. [index |-> k, before |-> before, pending |-> TRUE] \in Hover
          /\ [index |-> k, before |-> before, pending |-> TRUE].index = k
      BY <3>1 DEF Hover
    <3> QED
      BY <3>2 DEF k
  <2> HIDE DEF h
  <2>3. /\ drag' \in Drag /\ drag'.id = drag.id /\ drag'.stash = drag.stash /\ drag'.over = drag.over
        /\ drag'.hover = h
    BY <1>5, <2>1, <2>2, DragHovers
  <2>4. ModelInv' /\ Registered' = Registered
    BY <1>2, <2>1, ModelKept
  <2>5. ConfigInv'
    BY <1>2, <2>1, ConfigKept DEF modelVars
  <2>6. DragInv'
    BY <1>2, <1>4, <2>1, <2>2, <2>3, <2>4 DEF DragInv, modelVars
  <2> QED
    BY <2>4, <2>5, <2>6 DEF TrayInv
<1> QED
  BY <1>6, <1>7

\* Where a drag ends, the invariant asks nothing of it any more.
LEMMA NoDragKeeps ==
  ASSUME drag' = NoDrag, staged' = NoStage
  PROVE  DragInv'
BY NoneTyped DEF DragInv

LEMMA DropInDockKeeps ==
  ASSUME AppsStashed, TrayInv, NEW i \in DOMAIN visual.dock, NEW before \in BOOLEAN,
         DropInDock(i, before)
  PROVE  TrayInv'
<1>1. /\ Len(calls) < MaxCalls
      /\ drag.over /\ (OnStash(i) => Kind[drag.id].app)
      /\ drag' = NoDrag /\ actionsAlwaysVisible' = FALSE /\ staged' = NoStage
      /\ UNCHANGED collapsed
      /\ IF ~drag.stash THEN DropToDockTray(drag.id, visual.dock, i - 1, before)
         ELSE IF staged = NoStage
         THEN UNCHANGED <<ids, hidden, configVars>> /\ UpdateVisualIndexes(section)
         ELSE DropToDockTray(staged.id, Without(visual.dock, "gap"), staged.index, TRUE)
  BY DEF DropInDock, Room
<1>2. ModelInv /\ ConfigInv /\ DragInv
  BY DEF TrayInv
<1> DEFINE dock == visual.dock
           w == Without(dock, "gap")
           S == Registered \cup Action \cup {"gap"}
<1>3. /\ drag.id \in Registered /\ dock \in Seq(S) /\ dock[1] = "show-stash"
      /\ Times(dock, "show-stash") = 1 /\ InDock("show-stash")
  BY <1>1, OverTray
<1>4. drag.id \in Surface
  BY <1>2, <1>3 DEF ModelInv, Home, Registered
<1>5. actionsAlwaysVisible' \in BOOLEAN /\ staged' \in Stage /\ collapsed' = collapsed
  BY <1>1, NoneTyped
<1>6. CASE ~ drag.stash
  <2> DEFINE index == i - 1
             s == drag.id
  <2>1. DropToDockTray(s, dock, index, before)
    BY <1>1, <1>6
  <2>2. index \in Nat /\ index + 1 = i /\ i \in 1..Len(dock)
    BY <1>3
  <2>3. dock[index + 1] = "show-stash" => "stashed" \notin Kind[s].forbidden
    <3> SUFFICES ASSUME dock[i] = "show-stash" PROVE "stashed" \notin Kind[s].forbidden
      BY <2>2
    <3>1. i = 1
      <4> HIDE DEF dock, S
      <4> QED
        BY <1>3, <2>2, BehindStash
    <3>2. OnStash(i)
      BY <1>3, <3>1 DEF OnStash
    <3> QED
      BY <1>1, <1>4, <3>2 DEF AppsStashed
  <2>4. s \in Registered
    BY <1>3
  <2> HIDE DEF index, dock, s
  <2>5. ModelInv' /\ ConfigInv' /\ Registered' = Registered
    BY <1>1, <1>2, <1>3, <1>5, <2>1, <2>2, <2>3, <2>4, DropKeeps
  <2> QED
    BY <1>1, <2>5, NoDragKeeps DEF TrayInv
<1>7. CASE drag.stash /\ staged = NoStage
  <2>1. UNCHANGED <<ids, hidden, configVars>> /\ UpdateVisualIndexes(section)
    BY <1>1, <1>7
  <2>2. ModelInv' /\ Registered' = Registered
    <3>1. hidden' \subseteq Surface /\ collapsed' \in BOOLEAN /\ ids' = ids
      BY <1>2, <1>5, <2>1 DEF ModelInv
    <3> QED
      BY <1>2, <1>5, <2>1, <3>1, ModelRedrawn
  <2>3. ConfigInv'
    BY <1>2, <2>1, ConfigKept
  <2> QED
    BY <1>1, <2>2, <2>3, NoDragKeeps DEF TrayInv
<1>8. CASE drag.stash /\ staged # NoStage
  <2> DEFINE index == staged.index
             s == staged.id
  <2>1. DropToDockTray(s, w, index, TRUE)
    BY <1>1, <1>8
  <2>2. s \in Registered /\ index # 0
    BY <1>2, <1>3, <1>8 DEF DragInv
  <2>3. index \in Nat
    BY <1>2, StageFields DEF ModelInv
  <2> HIDE DEF index, s, dock, S
  <2>4. w \in Seq(S)
    BY <1>3, TimesWithout
  <2>a. w = Without(dock, "gap")
    OBVIOUS
  <2> HIDE DEF w
  <2>5. ~ (index < Len(w) /\ w[index + 1] = "show-stash")
    <3>1. SUFFICES ASSUME index < Len(w) PROVE w[index + 1] # "show-stash"
      OBVIOUS
    <3> DEFINE k == index + 1
    <3>2. Len(w) \in Nat
      BY <2>4
    <3>3. k \in 1..Len(w) /\ k # 1
      BY <2>2, <2>3, <3>1, <3>2
    <3> HIDE DEF k
    <3>4. w[k] # "show-stash"
      BY <1>3, <2>a, <3>3, BehindStashWithout
    <3> QED
      BY <3>4 DEF k
  <2>6. w \in Seq(Registered \cup Action \cup {"gap"})
    BY <2>4 DEF S
  <2>7. TRUE \in BOOLEAN /\ (index < Len(w) /\ w[index + 1] = "show-stash" => "stashed" \notin Kind[s].forbidden)
    BY <2>5
  <2>8. ModelInv' /\ ConfigInv' /\ Registered' = Registered
    BY <1>1, <1>2, <1>5, <2>1, <2>2, <2>3, <2>6, <2>7, DropKeeps
  <2> QED
    BY <1>1, <2>8, NoDragKeeps DEF TrayInv
<1> QED
  BY <1>6, <1>7, <1>8

LEMMA DropInStashKeeps ==
  ASSUME TrayInv, DropInStash
  PROVE  TrayInv'
<1> DEFINE s == drag.id
           x == section[s]
           Stays == x = "stashed" \/ "stashed" \in Kind[s].forbidden
<1>1. /\ Len(calls) < MaxCalls /\ Dragged /\ ~drag.over
      /\ ids' = IF Stays THEN ids ELSE Appended(ids, x, "stashed", s)
      /\ drag' = NoDrag /\ actionsAlwaysVisible' = FALSE
      /\ UNCHANGED <<hidden, collapsed, staged, calls, asked>>
      /\ UpdateVisualIndexes(section)
      /\ IF "stashed" \in Kind[s].forbidden THEN UNCHANGED <<config, news, lost, inSettings>>
         ELSE SaveDataToDConfig
  BY DEF DropInStash, Room
<1>2. ModelInv /\ ConfigInv /\ DragInv
  BY DEF TrayInv
<1>3. s \in Registered
  BY <1>1, <1>2 DEF DragInv, Dragged
<1>4. /\ ids \in Lists4 /\ Home(ids, section) /\ hidden \subseteq Surface /\ s \in Surface
      /\ collapsed \in BOOLEAN /\ staged \in Stage
  BY <1>2, <1>3 DEF ModelInv, Home, Registered
<1>5. x \in Section \ Kind[s].forbidden /\ At(ids, s, x)
  BY <1>3, <1>4 DEF Home, Registered
<1>6. "stashed" \in Section
  BY DEF Section
<1> HIDE DEF s, x
<1>7. \E y \in Section \ Kind[s].forbidden : Rehomed(ids', ids, s, y)
  <2>1. CASE Stays
    <3>1. Rehomed(ids, ids, s, x)
      BY <1>4, <1>5 DEF Rehomed
    <3> QED
      BY <1>1, <1>5, <2>1, <3>1
  <2>2. CASE ~ Stays
    <3>1. Rehomed(Appended(ids, x, "stashed", s), ids, s, "stashed")
      BY <1>4, <1>5, <1>6, EndMoves
    <3> QED
      BY <1>1, <1>6, <2>2, <3>1
  <2> QED
    BY <2>1, <2>2
<1>8. PICK y \in Section \ Kind[s].forbidden : Rehomed(ids', ids, s, y)
  BY <1>7
<1>9. hidden' \subseteq Surface /\ collapsed' \in BOOLEAN /\ actionsAlwaysVisible' \in BOOLEAN /\ staged' \in Stage
  BY <1>1, <1>4
<1>10. ModelInv' /\ Registered' = Registered
  BY <1>1, <1>2, <1>3, <1>8, <1>9, ModelMoved
<1>11. ConfigInv'
  <2>1. CASE "stashed" \in Kind[s].forbidden
    <3>1. ids' = ids /\ UNCHANGED <<hidden, configVars>>
      BY <1>1, <2>1 DEF configVars
    <3> QED
      BY <1>2, <3>1, ConfigKept
  <2>2. CASE "stashed" \notin Kind[s].forbidden
    <3>1. SaveDataToDConfig /\ UNCHANGED <<hidden, calls, asked>>
      BY <1>1, <2>2
    <3>2. /\ asked' \subseteq Surface /\ inSettings \subseteq Surface /\ news \in News
          /\ calls' \in Seq(Call) /\ Len(calls') <= MaxCalls
      BY <1>2, <3>1 DEF ConfigInv
    <3>3. \A t \in Surface \ lost : Fits(t, hidden', config.hidden, inSettings, asked', calls', news.model)
      BY <1>2, <3>1 DEF ConfigInv
    <3>4. ids' \in Lists4
      BY <1>8 DEF Rehomed
    <3> QED
      BY <1>9, <3>1, <3>2, <3>3, <3>4, Saves
  <2> QED
    BY <2>1, <2>2
<1>12. DragInv'
  <2>1. staged' = NoStage
    BY <1>1, <1>2, NotStaged
  <2> QED
    BY <1>1, <2>1, NoDragKeeps
<1> QED
  BY <1>10, <1>11, <1>12 DEF TrayInv

LEMMA DragExitedKeeps ==
  ASSUME TrayInv, DragExited
  PROVE  TrayInv'
<1> DEFINE s == drag.id
           h == IF drag.quick THEN NoHover ELSE drag.hover
           c == [id |-> s, visible |-> FALSE]
<1>1. /\ Len(calls) < MaxCalls /\ drag.over
      /\ drag' = [drag EXCEPT !.over = FALSE, !.hover = IF drag.quick THEN NoHover ELSE @]
      /\ staged' = NoStage /\ actionsAlwaysVisible' = FALSE
      /\ IF drag.quick
         THEN hidden' = hidden \cup {s} /\ HandlePluginVisibleChanged(s, FALSE)
         ELSE UNCHANGED <<hidden, calls, asked>>
      /\ UNCHANGED <<ids, collapsed, config, inSettings, news, lost>>
      /\ UpdateVisualIndexes(section)
  BY DEF DragExited, Room
<1>2. ModelInv /\ ConfigInv /\ DragInv
  BY DEF TrayInv
<1>3. s \in Registered /\ drag \in Drag
  BY <1>1, <1>2 DEF DragInv
<1>4. s \in Surface /\ hidden \subseteq Surface /\ collapsed \in BOOLEAN
  BY <1>2, <1>3 DEF ModelInv, Home, Registered
<1>5. drag' = Away(drag, h)
  BY <1>1 DEF Away
<1>6. h \in Hover /\ (h.pending => h.index # 0)
  <2>1. drag.hover \in Hover /\ (drag.hover.pending => drag.hover.index # 0)
    BY <1>2, <1>3, DragFields DEF DragInv
  <2>2. NoHover \in Hover /\ NoHover.pending = FALSE
    BY NoneTyped
  <2>3. CASE drag.quick
    <3>1. h = NoHover
      BY <2>3
    <3> QED
      BY <2>2, <3>1
  <2>4. CASE ~ drag.quick
    <3>1. h = drag.hover
      BY <2>4
    <3> QED
      BY <2>1, <3>1
  <2> QED
    BY <2>3, <2>4
<1> HIDE DEF h
<1>7. drag' \in Drag /\ drag'.id = s /\ drag'.over = FALSE /\ drag'.hover = h
  BY <1>3, <1>5, <1>6, DragLeaves
<1>8. hidden' \subseteq Surface
  BY <1>1, <1>4
<1>9. ModelInv' /\ Registered' = Registered
  <2>1. ids' = ids /\ collapsed' \in BOOLEAN /\ actionsAlwaysVisible' \in BOOLEAN /\ staged' \in Stage
    BY <1>1, <1>4, NoneTyped
  <2> QED
    BY <1>1, <1>2, <1>8, <2>1, ModelRedrawn
<1>10. calls \in Seq(Call) /\ asked \subseteq Surface /\ Len(calls) <= MaxCalls
  BY <1>2 DEF ConfigInv
<1>11. Append(calls, c) \in Seq(Call) /\ Len(Append(calls, c)) <= MaxCalls
  <2> HIDE DEF s
  <2> QED
    BY <1>1, <1>4, <1>10, CallMade
<1>12. \/ hidden' = hidden \cup {s} /\ calls' = Append(calls, c) /\ asked' = asked \cup {s}
       \/ hidden' = hidden /\ calls' = calls /\ asked' = asked
  BY <1>1 DEF HandlePluginVisibleChanged
<1>13. calls' \in Seq(Call) /\ Len(calls') <= MaxCalls /\ asked' \subseteq Surface
  <2> HIDE DEF c, s
  <2> QED
    BY <1>4, <1>10, <1>11, <1>12
<1>14. ASSUME NEW t \in Surface \ lost'
       PROVE  Fits(t, hidden', config'.hidden, inSettings', asked', calls', news'.model)
  <2> HIDE DEF s
  <2>1. Fits(t, hidden, config.hidden, inSettings, asked, calls, news.model)
    BY <1>1, <1>2 DEF ConfigInv
  <2>2. CASE hidden' = hidden \cup {s} /\ calls' = Append(calls, c) /\ asked' = asked \cup {s}
    <3>1. t # s => (t \in asked' <=> t \in asked) /\ (t \in hidden' <=> t \in hidden)
      BY <2>2
    <3>2. t = s => (t \in asked' <=> ~ FALSE) /\ ((t \in hidden' <=> t \in hidden) \/ (t \in hidden' <=> ~ FALSE))
      BY <2>2
    <3>3. Fits(t, hidden', config.hidden, inSettings, asked', Append(calls, c), news.model)
      BY <1>4, <1>10, <2>1, <3>1, <3>2, FitsCalled
    <3> QED
      BY <1>1, <2>2, <3>3
  <2>3. CASE hidden' = hidden /\ calls' = calls /\ asked' = asked
    BY <1>1, <2>1, <2>3
  <2> QED
    BY <1>12, <2>2, <2>3
<1>15. ConfigInv'
  BY <1>1, <1>2, <1>13, <1>14 DEF ConfigInv
<1>16. DragInv'
  <2>1. drag'.hover.pending => drag'.hover.index # 0
    BY <1>6, <1>7
  <2>2. drag'.id \in Registered' \cup {NoSurface}
    BY <1>3, <1>7, <1>9
  <2>3. staged' = NoStage /\ staged'.id = NoSurface
    BY <1>1, NoneTyped
  <2> QED
    BY <1>7, <2>1, <2>2, <2>3 DEF DragInv
<1> QED
  BY <1>9, <1>15, <1>16 DEF TrayInv

LEMMA DragEndKeeps ==
  ASSUME TrayInv, DragEnd
  PROVE  TrayInv'
<1>1. /\ ~ drag.over /\ drag' = NoDrag
      /\ actionsAlwaysVisible' = (actionsAlwaysVisible /\ ~Kind[drag.id].app)
      /\ UNCHANGED <<ids, hidden, collapsed, staged, configVars>>
      /\ UpdateVisualIndexes(section)
  BY DEF DragEnd
<1>2. ModelInv /\ ConfigInv /\ DragInv
  BY DEF TrayInv
<1>3. ModelInv' /\ Registered' = Registered
  <2>1. hidden' \subseteq Surface /\ collapsed' \in BOOLEAN /\ staged' \in Stage /\ ids' = ids
        /\ actionsAlwaysVisible' \in BOOLEAN
    BY <1>1, <1>2 DEF ModelInv
  <2> QED
    BY <1>1, <1>2, <2>1, ModelRedrawn
<1>4. ConfigInv'
  BY <1>1, <1>2, ConfigKept
<1>5. staged' = NoStage
  BY <1>1, <1>2, NotStaged
<1> QED
  BY <1>1, <1>3, <1>4, <1>5, NoDragKeeps DEF TrayInv

LEMMA ToggleCollapsedKeeps ==
  ASSUME TrayInv, ToggleCollapsed
  PROVE  TrayInv'
<1>1. /\ collapsed' = ~collapsed
      /\ UNCHANGED <<ids, hidden, actionsAlwaysVisible, staged, calls, drag, asked>>
      /\ UpdateVisualIndexes(section) /\ SaveDataToDConfig
  BY DEF ToggleCollapsed
<1>2. ModelInv /\ ConfigInv /\ DragInv
  BY DEF TrayInv
<1>3. hidden' \subseteq Surface /\ collapsed' \in BOOLEAN /\ staged' \in Stage /\ ids' = ids
      /\ actionsAlwaysVisible' \in BOOLEAN /\ ids' \in Lists4
  BY <1>1, <1>2 DEF ModelInv
<1>4. ModelInv' /\ Registered' = Registered
  BY <1>1, <1>2, <1>3, ModelRedrawn
<1>5. /\ asked' \subseteq Surface /\ inSettings \subseteq Surface /\ news \in News
      /\ calls' \in Seq(Call) /\ Len(calls') <= MaxCalls
  BY <1>1, <1>2 DEF ConfigInv
<1>6. \A t \in Surface \ lost : Fits(t, hidden', config.hidden, inSettings, asked', calls', news.model)
  BY <1>1, <1>2 DEF ConfigInv
<1>7. ConfigInv'
  BY <1>1, <1>3, <1>5, <1>6, Saves
<1>8. DragInv'
  BY <1>1, <1>2, <1>4, DragKept
<1> QED
  BY <1>4, <1>7, <1>8 DEF TrayInv

-----------------------------------------------------------------------------
(* The start.                                                              *)

\* Only the quick settings are shown, in no gap.
LEMMA QuickOnly ==
  /\ <<"quick-settings">> \in Seq({"quick-settings"})
  /\ ~ Contains(<<"quick-settings">>, "gap")
<1> DEFINE q == <<"quick-settings">>
<1>1. q \in Seq({"quick-settings"}) /\ Times(q, "gap") = 0
  BY TimesInOne
<1> HIDE DEF q
<1>2. ~ Contains(q, "gap")
  BY <1>1, TimesIsNumber
<1> QED
  BY <1>1, <1>2 DEF q

\* No surface has a row.
LEMMA NoRows ==
  ASSUME NEW rows, rows = << >>, NEW lists
  PROVE  DOMAIN rows = {} /\ Home(lists, rows)
<1>1. DOMAIN rows = {}
  OBVIOUS
<1>2. rows = [s \in DOMAIN rows |-> rows[s]]
  BY <1>1
<1> QED
  BY <1>1, <1>2 DEF Home

\* Lists as they are read at the start: of what is saved, and no fixed one.
LEMMA ReadLists ==
  ASSUME NEW old \in Lists4, Single(old), NEW saved, saved.ids = [x \in Saved |-> old[x]]
  PROVE  /\ Lists(saved) \in Lists4 /\ Single(Lists(saved))
         /\ saved.ids = [x \in Saved |-> Lists(saved)[x]]
<1> DEFINE new == Lists(saved)
<1>1. Section = Saved \cup {"fixed"} /\ "fixed" \notin Saved /\ "none" \notin Section
  BY DEF Section, Saved
<1>2. new = [x \in Section |-> IF x \in Saved THEN old[x] ELSE << >>]
  BY DEF Lists
<1> HIDE DEF new
<1>3. << >> \in Seq(Surface)
  OBVIOUS
<1>4. new \in Lists4
  BY <1>2, <1>3 DEF Lists4
<1>5. saved.ids = [x \in Saved |-> new[x]]
  BY <1>1, <1>2
<1>6. ASSUME NEW s \in Surface PROVE \E z \in Section \cup {"none"} : At(new, s, z)
  <2>1. PICK y \in Section \cup {"none"} : At(old, s, y)
    BY DEF Single
  <2> DEFINE z == IF y \in Saved THEN y ELSE "none"
  <2>2. ASSUME NEW x \in Section PROVE Times(new[x], s) = IF x = z THEN 1 ELSE 0
    <3>1. CASE x \in Saved
      <4>1. new[x] = old[x] /\ (x = z <=> x = y)
        BY <1>1, <1>2, <3>1
      <4>2. Times(old[x], s) = IF x = y THEN 1 ELSE 0
        BY <2>1 DEF At
      <4> QED
        BY <4>1, <4>2
    <3>2. CASE x \notin Saved
      <4>1. new[x] = << >> /\ x # z
        BY <1>1, <1>2, <3>2
      <4> QED
        BY <4>1, TimesInNone
    <3> QED
      BY <3>1, <3>2
  <2>3. z \in Section \cup {"none"}
    BY <1>1
  <2> HIDE DEF z
  <2>4. At(new, s, z)
    BY <2>2 DEF At
  <2> QED
    BY <2>3, <2>4
<1>7. Single(new)
  BY <1>6 DEF Single
<1> QED
  BY <1>4, <1>5, <1>7 DEF new

LEMMA InitHolds ==
  ASSUME Init
  PROVE  TrayInv
<1>1. PICK place \in [Surface -> Section] :
        config = [ids |-> [x \in Saved |-> SetToSeq({s \in Surface : place[s] = x})],
                  hidden |-> {}, collapsed |-> FALSE]
  BY DEF Init
<1>2. /\ ids = Lists(config) /\ hidden = {} /\ collapsed = FALSE /\ section = << >>
      /\ actionsAlwaysVisible = FALSE /\ staged = NoStage
      /\ visual = [dock |-> <<"quick-settings">>, stash |-> <<>>]
      /\ inSettings = {} /\ news = [model |-> 0, settings |-> 0] /\ calls = <<>>
      /\ drag = NoDrag /\ asked = {} /\ lost = {}
  BY DEF Init
<1> DEFINE old == [x \in Section |-> SetToSeq({s \in Surface : place[s] = x})]
           saved == [x \in Saved |-> old[x]]
<1>3. old \in Lists4 /\ \A s \in Surface : At(old, s, place[s])
  <2>1. place \in [Surface -> Section \cup {"none"}] /\ old = old
    OBVIOUS
  <2> QED
    BY <2>1, FilledLists
<1>4. config = Configured(saved, {}, FALSE)
  BY <1>1 DEF Saved, Configured
<1> HIDE DEF old
<1>5. Single(old)
  BY <1>3 DEF Single
<1>6. saved \in [Saved -> Seq(Surface)]
  BY <1>3 DEF Lists4, Saved
<1>7. config \in Config /\ config.ids = saved /\ config.hidden = {}
  <2> DEFINE none == {}
  <2>1. none \subseteq Surface /\ FALSE \in BOOLEAN /\ config = Configured(saved, none, FALSE)
    BY <1>4
  <2>2. saved \in [Saved -> Seq(Surface)]
    BY <1>6
  <2> HIDE DEF saved, none
  <2>3. /\ Configured(saved, none, FALSE) \in Config
        /\ Configured(saved, none, FALSE).ids = saved
        /\ Configured(saved, none, FALSE).hidden = none
    BY <2>1, <2>2 DEF Config, Configured
  <2>4. config \in Config /\ config.ids = saved /\ config.hidden = none
    BY <2>1, <2>3
  <2> QED
    BY <2>4 DEF none
<1>8. ids \in Lists4 /\ Single(ids) /\ config.ids = [x \in Saved |-> ids[x]]
  BY <1>2, <1>3, <1>5, <1>7, ReadLists
<1>9. Pictured /\ Home(ids, section)
  <2>1. Registered = {} /\ Home(ids, section)
    BY <1>2, NoRows DEF Registered
  <2>2. visual.dock = <<"quick-settings">> /\ "quick-settings" \in Action
    BY <1>2 DEF Action
  <2>3. <<"quick-settings">> \in Seq(Registered \cup Action \cup {"gap"})
    BY <2>2
  <2>4. ~ Contains(<<"quick-settings">>, "gap")
    BY QuickOnly
  <2> QED
    BY <1>2, <2>1, <2>2, <2>3, <2>4 DEF Pictured
<1>10. ModelInv
  BY <1>2, <1>8, <1>9, NoneTyped DEF ModelInv
<1>11. news \in News /\ calls \in Seq(Call) /\ Len(calls) <= MaxCalls
  BY <1>2, BoundsAssumption DEF News
<1>12. \A s \in Surface \ lost : Fits(s, hidden, config.hidden, inSettings, asked, calls, news.model)
  BY <1>2, <1>7 DEF Fits
<1>13. ConfigInv
  BY <1>2, <1>7, <1>8, <1>11, <1>12 DEF ConfigInv
<1>14. DragInv
  BY <1>2, NoneTyped DEF DragInv
<1> QED
  BY <1>10, <1>13, <1>14 DEF TrayInv

LEMMA RestartKeeps ==
  ASSUME TrayInv, Restart
  PROVE  TrayInv'
<1>1. /\ config' = config
      /\ ids' = Lists(config) /\ hidden' = config.hidden /\ collapsed' = config.collapsed
      /\ section' = << >> /\ actionsAlwaysVisible' = FALSE /\ staged' = NoStage
      /\ visual' = [dock |-> <<"quick-settings">>, stash |-> <<>>]
      /\ inSettings' = config.hidden /\ news' = [model |-> 0, settings |-> 0] /\ calls' = <<>>
      /\ drag' = NoDrag /\ asked' = config.hidden /\ lost' = {}
  BY DEF Restart
<1>2. ModelInv /\ ConfigInv
  BY DEF TrayInv
<1>3. ids \in Lists4 /\ Single(ids) /\ config.ids = [x \in Saved |-> ids[x]] /\ config \in Config
  BY <1>2 DEF ModelInv, ConfigInv
<1>4. config.hidden \subseteq Surface /\ config.collapsed \in BOOLEAN
  BY <1>3, ConfigFields
<1>5. ids' \in Lists4 /\ Single(ids') /\ config'.ids = [x \in Saved |-> ids'[x]]
  BY <1>1, <1>3, ReadLists
<1>6. Pictured' /\ Home(ids', section')
  <2>1. DOMAIN section' = {} /\ Home(ids', section')
    BY <1>1, NoRows
  <2>2. Registered' = {} /\ Home(ids', section')
    BY <2>1 DEF Registered
  <2>3. visual'.dock = <<"quick-settings">> /\ "quick-settings" \in Action
    BY <1>1 DEF Action
  <2>4. <<"quick-settings">> \in Seq(Registered' \cup Action \cup {"gap"})
    BY <2>3
  <2>5. ~ Contains(<<"quick-settings">>, "gap")
    BY QuickOnly
  <2> QED
    BY <1>1, <2>2, <2>3, <2>4, <2>5 DEF Pictured
<1>7. hidden' \subseteq Surface /\ collapsed' \in BOOLEAN /\ actionsAlwaysVisible' \in BOOLEAN /\ staged' \in Stage
  BY <1>1, <1>4, NoneTyped
<1>8. ModelInv'
  BY <1>5, <1>6, <1>7 DEF ModelInv
<1>9. news' \in News /\ calls' \in Seq(Call) /\ Len(calls') <= MaxCalls
  BY <1>1, BoundsAssumption DEF News
<1>10. \A s \in Surface \ lost' :
         Fits(s, hidden', config'.hidden, inSettings', asked', calls', news'.model)
  BY <1>1 DEF Fits
<1>11. ConfigInv'
  BY <1>1, <1>3, <1>4, <1>5, <1>9, <1>10 DEF ConfigInv
<1>12. DragInv'
  BY <1>1, NoDragKeeps
<1> QED
  BY <1>8, <1>11, <1>12 DEF TrayInv

LEMMA StutterKeeps ==
  ASSUME TrayInv, UNCHANGED vars
  PROVE  TrayInv'
<1>1. UNCHANGED modelVars /\ UNCHANGED configVars /\ drag' = drag
  BY DEF vars
<1>2. ModelInv' /\ Registered' = Registered
  BY <1>1, ModelKept DEF TrayInv
<1>3. ConfigInv'
  BY <1>1, ConfigKept DEF TrayInv, modelVars
<1>4. DragInv'
  BY <1>1, <1>2, DragKept DEF TrayInv, modelVars
<1> QED
  BY <1>2, <1>3, <1>4 DEF TrayInv

LEMMA NextKeeps ==
  ASSUME AppsStashed, TrayInv, [Next]_vars
  PROVE  TrayInv'
<1>0. CASE UNCHANGED vars
  BY <1>0, StutterKeeps
<1>1. CASE ModelValueChanged
  BY <1>1, ModelValueChangedKeeps
<1>2. CASE SettingsValueChanged
  BY <1>2, SettingsValueChangedKeeps
<1>3. CASE SetItemOnDock
  BY <1>3, SetItemOnDockKeeps
<1>4. CASE \E s \in Registered, visible \in BOOLEAN : ControlCenter(s, visible)
  BY <1>4, ControlCenterKeeps
<1>5. CASE \E s \in Surface : SurfaceCreated(s) \/ SurfaceDestroyed(s)
  BY <1>5, SurfaceCreatedKeeps, SurfaceDestroyedKeeps
<1>6. CASE \E s \in Registered : DragStart(s) \/ QuickDragStart(s)
  BY <1>6, DragStartKeeps, QuickDragStartKeeps
<1>7. CASE \E i \in DOMAIN visual.dock, before \in BOOLEAN : PositionChanged(i, before) \/ DropInDock(i, before)
  BY <1>7, PositionChangedKeeps, DropInDockKeeps
<1>8. CASE DragEntered
  BY <1>8, DragEnteredKeeps
<1>9. CASE DragExited
  BY <1>9, DragExitedKeeps
<1>10. CASE HoverTimeout
  BY <1>10, HoverTimeoutKeeps
<1>11. CASE DropInStash
  BY <1>11, DropInStashKeeps
<1>12. CASE DragEnd
  BY <1>12, DragEndKeeps
<1>13. CASE ToggleCollapsed
  BY <1>13, ToggleCollapsedKeeps
<1>14. CASE Restart
  BY <1>14, RestartKeeps
<1> QED
  BY <1>0, <1>1, <1>2, <1>3, <1>4, <1>5, <1>6, <1>7, <1>8, <1>9, <1>10, <1>11, <1>12, <1>13, <1>14 DEF Next

-----------------------------------------------------------------------------
(* What follows from the invariant.                                        *)

\* Where every application may be stashed, each reachable state of the model, of
\* the configuration and of a drag agrees with the others as the invariant says.
THEOREM TrayInvHolds ==
  ASSUME AppsStashed
  PROVE  Spec => []TrayInv
<1>1. Init => TrayInv
  BY InitHolds
<1>2. TrayInv /\ [Next]_vars => TrayInv'
  BY NextKeeps
<1> QED
  BY <1>1, <1>2, PTL DEF Spec

\* The variables keep their types, and the bounds are kept: TraySortOrderModel,
\* TraySettings and the containers of the tray.
THEOREM TypeCorrect ==
  ASSUME AppsStashed
  PROVE  Spec => []TypeOK
<1>1. TrayInv => TypeOK
  <2> SUFFICES ASSUME TrayInv PROVE TypeOK
    OBVIOUS
  <2>1. ModelInv /\ ConfigInv /\ DragInv
    BY DEF TrayInv
  <2>2. ids \in [Section -> Seq(Surface)] /\ hidden \subseteq Surface
    BY <2>1 DEF ModelInv, Lists4
  <2>3. section \in UNION {[S -> Section] : S \in SUBSET Surface}
    <3>1. Home(ids, section)
      BY <2>1 DEF ModelInv
    <3>2. DOMAIN section \in SUBSET Surface /\ \A s \in DOMAIN section : section[s] \in Section
      BY <3>1 DEF Home
    <3>3. section = [s \in DOMAIN section |-> section[s]]
      BY <3>1 DEF Home
    <3>4. section \in [DOMAIN section -> Section]
      BY <3>2, <3>3
    <3> QED
      BY <3>2, <3>4
  <2>4. inSettings \subseteq Surface /\ asked \subseteq Surface /\ Len(calls) <= MaxCalls
    BY <2>1 DEF ConfigInv
  <2>5. config.ids \in [Saved -> Seq(Surface)] /\ config.hidden \subseteq Surface
    BY <2>1, ConfigFields DEF ConfigInv
  <2>6. staged.id \in Surface \cup {NoSurface} /\ staged.index \in Nat
    BY <2>1, StageFields DEF ModelInv
  <2>7. /\ staged.id # NoSurface => staged.id = drag.id /\ drag.over
        /\ drag.id \in Registered \cup {NoSurface}
    BY <2>1 DEF DragInv
  <2>8. \A who \in DOMAIN news : news[who] <= MaxNews
    BY <2>1, BoundsAssumption DEF ConfigInv, News
  <2> QED
    BY <2>2, <2>3, <2>4, <2>5, <2>6, <2>7, <2>8 DEF TypeOK
<1> QED
  BY <1>1, TrayInvHolds, PTL

\* Every surface is in the list its row names and in no other, in none it is
\* forbidden in, and what is to be seen of it is seen once: however surfaces come
\* and go, are dropped anywhere, with delay or without, and lists are read again.
THEOREM SurfacesStayPlaced ==
  ASSUME AppsStashed
  PROVE  Spec => []Placed
<1>1. TrayInv => Placed
  <2> SUFFICES ASSUME TrayInv PROVE Placed
    OBVIOUS
  <2>1. Home(ids, section) /\ Pictured /\ DragInv
    BY DEF TrayInv, ModelInv
  <2>2. Rooted
    <3> SUFFICES ASSUME NEW s \in Registered
                 PROVE  /\ section[s] \notin Kind[s].forbidden
                        /\ \A x \in Section : Times(ids[x], s) = IF x = section[s] THEN 1 ELSE 0
      BY DEF Rooted
    <3>1. section[s] \in Section \ Kind[s].forbidden /\ At(ids, s, section[s])
      BY <2>1 DEF Home, Registered
    <3> QED
      BY <3>1 DEF At
  <2>3. \A s \in Registered :
          (~Settable(s) \/ s \notin hidden) /\ ~(collapsed /\ section[s] = "collapsable") =>
            Times(visual.dock \o visual.stash, s) = 1
    BY <2>1 DEF Pictured
  <2>4. InDock("gap") => drag.over /\ drag.stash
    BY <2>1 DEF InDock, Pictured, DragInv
  <2>5. Displayed
    BY <2>3, <2>4 DEF Displayed
  <2> QED
    BY <2>2, <2>5 DEF Placed
<1> QED
  BY <1>1, TrayInvHolds, PTL

\* When all calls and news have arrived, the model and TraySettings hide what the
\* user last asked to hide, unless that was overwritten or dropped.
THEOREM HiddenStaysAsAsked ==
  ASSUME AppsStashed
  PROVE  Spec => []HiddenAsAsked
<1>1. TrayInv => HiddenAsAsked
  <2> SUFFICES ASSUME TrayInv, calls = <<>>, news = [model |-> 0, settings |-> 0],
                      NEW s \in Registered \ lost
               PROVE  (s \in hidden) = (s \in asked) /\ (s \in inSettings) = (s \in asked)
    BY DEF HiddenAsAsked
  <2>1. ConfigInv /\ s \in Surface \ lost
    BY DEF TrayInv, ModelInv, Home, Registered
  <2>2. Fits(s, hidden, config.hidden, inSettings, asked, calls, 0)
    <3>1. news.model = 0
      OBVIOUS
    <3> QED
      BY <2>1, <3>1 DEF ConfigInv
  <2>3. DOMAIN calls = {}
    OBVIOUS
  <2>4. s \in config.hidden <=> s \in asked
    BY <2>2, <2>3 DEF Fits
  <2>5. s \in inSettings <=> s \in config.hidden
    BY <2>2, <2>3 DEF Fits
  <2>6. s \in hidden <=> s \in config.hidden
    BY <2>2, <2>3 DEF Fits
  <2> QED
    BY <2>4, <2>5, <2>6
<1> QED
  BY <1>1, TrayInvHolds, PTL

-----------------------------------------------------------------------------
(* The order of the lists.                                                 *)

\* A place of s is before one of t.
Ahead(list, s, t) == \E i, j \in DOMAIN list : i < j /\ list[i] = s /\ list[j] = t

\* Of two things that a list names once at most, that says which comes first.
LEMMA BeforeIsAhead ==
  ASSUME NEW S, NEW list \in Seq(S), NEW s, NEW t,
         Times(list, s) \in {0, 1}, Times(list, t) \in {0, 1}
  PROVE  Before(list, s, t) <=> Ahead(list, s, t)
<1>1. ASSUME Before(list, s, t) PROVE Ahead(list, s, t)
  <2>1. Contains(list, s) /\ Contains(list, t) /\ IndexIn(list, s) < IndexIn(list, t)
    BY <1>1 DEF Before
  <2>2. /\ IndexIn(list, s) \in DOMAIN list /\ list[IndexIn(list, s)] = s
        /\ IndexIn(list, t) \in DOMAIN list /\ list[IndexIn(list, t)] = t
    <3>1. /\ IndexIn(list, s) \in 1..Len(list) /\ list[IndexIn(list, s)] = s
          /\ IndexIn(list, t) \in 1..Len(list) /\ list[IndexIn(list, t)] = t
      BY <2>1, IndexInFacts
    <3> QED
      BY <3>1
  <2> QED
    BY <2>1, <2>2 DEF Ahead
<1>2. ASSUME Ahead(list, s, t) PROVE Before(list, s, t)
  <2>1. PICK i \in DOMAIN list, j \in DOMAIN list : i < j /\ list[i] = s /\ list[j] = t
    BY <1>2 DEF Ahead
  <2>2. Contains(list, s) /\ Contains(list, t)
    <3>1. \A x : Contains(list, x) <=> \E k \in DOMAIN list : list[k] = x
      BY TimesIsNumber
    <3> QED
      BY <2>1, <3>1
  <2>3. Times(list, s) = 1 /\ Times(list, t) = 1
    <3>1. \A x : Times(list, x) = 0 <=> ~ Contains(list, x)
      BY TimesIsNumber
    <3> QED
      BY <2>2, <3>1
  <2>4. /\ IndexIn(list, s) \in DOMAIN list /\ list[IndexIn(list, s)] = s
        /\ IndexIn(list, t) \in DOMAIN list /\ list[IndexIn(list, t)] = t
    <3>1. /\ IndexIn(list, s) \in 1..Len(list) /\ list[IndexIn(list, s)] = s
          /\ IndexIn(list, t) \in 1..Len(list) /\ list[IndexIn(list, t)] = t
      BY <2>2, IndexInFacts
    <3> QED
      BY <3>1
  <2>5. PICK k \in DOMAIN list : list[k] = s /\ \A m \in DOMAIN list : list[m] = s => m = k
    BY <2>3, OncePlaced
  <2>6. PICK l \in DOMAIN list : list[l] = t /\ \A m \in DOMAIN list : list[m] = t => m = l
    BY <2>3, OncePlaced
  <2>7. IndexIn(list, s) = i /\ IndexIn(list, t) = j
    BY <2>1, <2>4, <2>5, <2>6
  <2> QED
    BY <2>1, <2>2, <2>7 DEF Before
<1> QED
  BY <1>1, <1>2

\* Leaving out, putting in and adding at the ends keep the order of the others.
LEMMA WithoutKeepsOrder ==
  ASSUME NEW S, NEW list \in Seq(S), NEW d, NEW s, NEW t, s # d, t # d, Ahead(list, s, t)
  PROVE  Ahead(Without(list, d), s, t)
<1> DEFINE I == {i \in DOMAIN list : list[i] # d}
           m == Cardinality(I)
           w == RowsAt(list, I)
<1>1. PICK i \in DOMAIN list, j \in DOMAIN list : i < j /\ list[i] = s /\ list[j] = t
  BY DEF Ahead
<1>2. i \in I /\ j \in I /\ i \in Nat /\ j \in Nat
  BY <1>1
<1>3. I \in SUBSET DOMAIN list
  OBVIOUS
<1> HIDE DEF I
<1>4. /\ Len(w) = m /\ m \in Nat /\ w \in Seq(S)
      /\ Ascending(I) \in [1..m -> I]
      /\ \A k, l \in 1..m : k < l => Ascending(I)[k] < Ascending(I)[l]
      /\ \A x \in I : \E k \in 1..m : Ascending(I)[k] = x
      /\ \A k \in 1..m : w[k] = list[Ascending(I)[k]]
  BY <1>3, RowsAtFacts
<1>5. PICK p \in 1..m : Ascending(I)[p] = i
  BY <1>2, <1>4
<1>6. PICK q \in 1..m : Ascending(I)[q] = j
  BY <1>2, <1>4
<1>7. p \in Nat /\ q \in Nat
  BY <1>4
<1>8. p < q
  <2>1. ~ (q < p)
    <3>1. q < p => j < i
      BY <1>4, <1>5, <1>6
    <3> QED
      BY <1>1, <1>2, <3>1
  <2>2. p # q
    BY <1>1, <1>2, <1>5, <1>6
  <2> QED
    BY <1>7, <2>1, <2>2
<1>9. DOMAIN w = 1..m
  BY <1>4
<1>10. w[p] = s /\ w[q] = t
  BY <1>1, <1>4, <1>5, <1>6
<1>11. Ahead(w, s, t)
  <2> HIDE DEF w, m
  <2> QED
    BY <1>8, <1>9, <1>10 DEF Ahead
<1>12. Without(list, d) = w
  BY DEF Without, I
<1> QED
  BY <1>11, <1>12

LEMMA InsertKeepsOrder ==
  ASSUME NEW S, NEW list \in Seq(S), NEW p \in 1..Len(list) + 1, NEW x \in S, NEW s, NEW t,
         Ahead(list, s, t)
  PROVE  Ahead(InsertAt(list, p, x), s, t)
<1> DEFINE new == InsertAt(list, p, x)
<1>1. PICK i \in DOMAIN list, j \in DOMAIN list : i < j /\ list[i] = s /\ list[j] = t
  BY DEF Ahead
<1>2. /\ new \in Seq(S) /\ Len(new) = Len(list) + 1
      /\ \A k \in 1..Len(list) + 1 : new[k] = IF k < p THEN list[k] ELSE IF k = p THEN x ELSE list[k - 1]
  BY InsertAtFacts
<1> HIDE DEF new
<1>3. Len(list) \in Nat /\ DOMAIN list = 1..Len(list) /\ DOMAIN new = 1..Len(list) + 1
  BY <1>2
<1> DEFINE k == IF i < p THEN i ELSE i + 1
           l == IF j < p THEN j ELSE j + 1
<1>4. k \in DOMAIN new /\ l \in DOMAIN new /\ k < l
  BY <1>1, <1>3
<1>5. new[k] = list[i]
  BY <1>2, <1>3
<1>6. new[l] = list[j]
  BY <1>2, <1>3
<1>7. new[k] = s /\ new[l] = t
  BY <1>1, <1>5, <1>6
<1> HIDE DEF k, l
<1>8. Ahead(new, s, t)
  BY <1>4, <1>7 DEF Ahead
<1> QED
  BY <1>8 DEF new

LEMMA EndsKeepOrder ==
  ASSUME NEW S, NEW list \in Seq(S), NEW x \in S, NEW s, NEW t, Ahead(list, s, t)
  PROVE  Ahead(Append(list, x), s, t) /\ Ahead(<<x>> \o list, s, t)
<1>1. PICK i \in DOMAIN list, j \in DOMAIN list : i < j /\ list[i] = s /\ list[j] = t
  BY DEF Ahead
<1>2. Ahead(Append(list, x), s, t)
  <2> DEFINE new == Append(list, x)
  <2>1. i \in DOMAIN new /\ j \in DOMAIN new /\ new[i] = s /\ new[j] = t
    BY <1>1
  <2> HIDE DEF new
  <2>2. Ahead(new, s, t)
    BY <1>1, <2>1 DEF Ahead
  <2> QED
    BY <2>2 DEF new
<1>3. Ahead(<<x>> \o list, s, t)
  <2> DEFINE new == <<x>> \o list
             k == i + 1
             l == j + 1
  <2>1. k \in DOMAIN new /\ l \in DOMAIN new /\ new[k] = s /\ new[l] = t /\ k < l
    BY <1>1
  <2> HIDE DEF new, k, l
  <2>2. Ahead(new, s, t)
    BY <2>1 DEF Ahead
  <2> QED
    BY <2>2 DEF new
<1> QED
  BY <1>2, <1>3

\* In no list do others than s change places.
OthersKeep(new, lists, s) ==
  \A z \in Section : \A t, u \in Surface \ {s} : Ahead(lists[z], t, u) => Ahead(new[z], t, u)

LEMMA TakenKeepsOrder ==
  ASSUME NEW lists \in Lists4, NEW x, NEW s
  PROVE  OthersKeep(TakenFrom(lists, x, s), lists, s)
<1> SUFFICES ASSUME NEW z \in Section, NEW t \in Surface \ {s}, NEW u \in Surface \ {s},
                    Ahead(lists[z], t, u)
             PROVE  Ahead(TakenFrom(lists, x, s)[z], t, u)
  BY DEF OthersKeep
<1>1. lists[z] \in Seq(Surface) /\ t # s /\ u # s
  BY DEF Lists4
<1>2. Ahead(Without(lists[z], s), t, u)
  BY <1>1, WithoutKeepsOrder
<1>3. TakenFrom(lists, x, s)[z] = IF z = x THEN Without(lists[z], s) ELSE lists[z]
  BY DEF TakenFrom, Lists4
<1> QED
  BY <1>2, <1>3

LEMMA EndsKeep ==
  ASSUME NEW lists \in Lists4, NEW s \in Surface, NEW x \in Section, NEW y \in Section
  PROVE  /\ OthersKeep(Appended(lists, x, y, s), lists, s)
         /\ OthersKeep(Prepended(lists, x, y, s), lists, s)
<1> SUFFICES ASSUME NEW z \in Section, NEW t \in Surface \ {s}, NEW u \in Surface \ {s},
                    Ahead(lists[z], t, u)
             PROVE  /\ Ahead(Appended(lists, x, y, s)[z], t, u)
                    /\ Ahead(Prepended(lists, x, y, s)[z], t, u)
  BY DEF OthersKeep
<1> DEFINE taken == TakenFrom(lists, x, s)
           l == taken[z]
<1>1. Ahead(l, t, u)
  BY TakenKeepsOrder DEF OthersKeep
<1>2. taken \in Lists4
  <2>1. \A v \in Section : lists[v] \in Seq(Surface) /\ Without(lists[v], s) \in Seq(Surface)
    BY TimesWithout DEF Lists4
  <2> QED
    BY <2>1 DEF TakenFrom, Lists4
<1>3. /\ Appended(lists, x, y, s)[z] = IF z = y THEN Append(l, s) ELSE l
      /\ Prepended(lists, x, y, s)[z] = IF z = y THEN <<s>> \o l ELSE l
  <2> HIDE DEF taken
  <2>1. /\ Appended(lists, x, y, s) = [taken EXCEPT ![y] = Append(@, s)]
        /\ Prepended(lists, x, y, s) = [taken EXCEPT ![y] = <<s>> \o @]
    BY DEF Appended, Prepended, taken
  <2> QED
    BY <1>2, <2>1 DEF Lists4
<1>4. l \in Seq(Surface)
  BY <1>2 DEF Lists4
<1> HIDE DEF taken, l
<1>5. Ahead(Append(l, s), t, u) /\ Ahead(<<s>> \o l, t, u)
  BY <1>1, <1>4, EndsKeepOrder
<1> QED
  BY <1>1, <1>3, <1>5

LEMMA OntoKeeps ==
  ASSUME NEW lists \in Lists4, NEW s \in Surface, NEW x \in Section, NEW y \in Section,
         At(lists, s, x), NEW on \in Surface, on # s, At(lists, on, y), NEW before \in BOOLEAN
  PROVE  OthersKeep(Onto(lists, x, y, s, on, before), lists, s)
<1> DEFINE new == Onto(lists, x, y, s, on, before)
           b == Left(lists, x, y, s)
           to == Aim(lists, x, y, on, before)
<1>1. /\ b \in Seq(Surface) /\ to \in 1..Len(b) + 1 /\ new[y] = InsertAt(b, to, s)
      /\ x # y => new[x] = Without(lists[x], s)
      /\ \A z \in Section : z # x /\ z # y => new[z] = lists[z]
  BY OntoPlaces
<1> SUFFICES ASSUME NEW z \in Section, NEW t \in Surface \ {s}, NEW u \in Surface \ {s},
                    Ahead(lists[z], t, u)
             PROVE  Ahead(new[z], t, u)
  BY DEF OthersKeep
<1>2. lists[z] \in Seq(Surface) /\ t # s /\ u # s
  BY DEF Lists4
<1>3. Ahead(Without(lists[z], s), t, u)
  BY <1>2, WithoutKeepsOrder
<1>4. CASE z = y
  <2>1. Ahead(b, t, u)
    BY <1>3, <1>4 DEF Left
  <2> HIDE DEF b, to, new
  <2>2. Ahead(InsertAt(b, to, s), t, u)
    BY <1>1, <2>1, InsertKeepsOrder
  <2> QED
    BY <1>1, <1>4, <2>2
<1>5. CASE z # y /\ z = x
  <2> HIDE DEF b, to, new
  <2> QED
    BY <1>1, <1>3, <1>5
<1>6. CASE z # y /\ z # x
  <2> HIDE DEF b, to, new
  <2> QED
    BY <1>1, <1>6
<1> QED
  BY <1>4, <1>5, <1>6

\* A drop moves nothing but what is dropped.
LEMMA DroppedKeepsOrder ==
  ASSUME ids \in Lists4, Home(ids, section), NEW s \in Registered,
         NEW on \in Registered \cup Action, NEW before \in BOOLEAN
  PROVE  OthersKeep(Dropped(s, on, before), ids, s)
<1> DEFINE x == section[s]
           new == Dropped(s, on, before)
<1>1. s \in Surface /\ x \in Section /\ At(ids, s, x)
  BY DEF Home, Registered
<1>2. s # "show-stash" /\ s # "toggle-collapse" /\ s # "quick-settings"
  BY <1>1, SurfaceAssumption DEF Action
<1>3. OthersKeep(ids, ids, s)
  BY DEF OthersKeep
<1>4. \A y \in Section : OthersKeep(Appended(ids, x, y, s), ids, s) /\ OthersKeep(Prepended(ids, x, y, s), ids, s)
  BY <1>1, EndsKeep
<1>5. {"stashed", "collapsable", "pinned"} \subseteq Section
  BY DEF Section
<1>6. CASE on = "show-stash"
  <2>1. new = IF x = "stashed" THEN ids ELSE Appended(ids, x, "stashed", s)
    BY <1>2, <1>6 DEF Dropped
  <2> QED
    BY <1>3, <1>4, <1>5, <2>1
<1>7. CASE on = "toggle-collapse"
  <2>1. new = IF before
              THEN IF "collapsable" \in Kind[s].forbidden THEN ids ELSE Appended(ids, x, "collapsable", s)
              ELSE IF "pinned" \in Kind[s].forbidden THEN ids ELSE Prepended(ids, x, "pinned", s)
    BY <1>2, <1>7 DEF Dropped
  <2> QED
    BY <1>3, <1>4, <1>5, <2>1
<1>8. CASE on = "quick-settings"
  <2>1. new = IF "pinned" \in Kind[s].forbidden THEN ids ELSE Appended(ids, x, "pinned", s)
    BY <1>2, <1>8 DEF Dropped
  <2> QED
    BY <1>3, <1>4, <1>5, <2>1
<1>9. CASE on = s
  <2>1. new = ids
    BY <1>2, <1>9 DEF Dropped
  <2> QED
    BY <1>3, <2>1
<1>10. CASE on \notin Action /\ on # s
  <2> DEFINE y == section[on]
             put == Onto(ids, x, y, s, on, before)
  <2>1. on # "show-stash" /\ on # "toggle-collapse" /\ on # "quick-settings"
    BY <1>10 DEF Action
  <2>2. new = IF y \in Kind[s].forbidden THEN ids ELSE put
    BY <1>10, <2>1 DEF Dropped, Onto
  <2>3. on \in Registered
    BY <1>10
  <2>4. on \in Surface /\ y \in Section /\ At(ids, on, y)
    BY <2>3 DEF Home, Registered
  <2>5. OthersKeep(put, ids, s)
    <3> HIDE DEF x, y
    <3> QED
      BY <1>1, <1>10, <2>4, OntoKeeps
  <2> HIDE DEF put, y, x
  <2> QED
    BY <1>3, <2>2, <2>5
<1> QED
  BY <1>6, <1>7, <1>8, <1>9, <1>10 DEF Action

LEMMA DropToDockTrayKeepsOrder ==
  ASSUME ModelInv, NEW s \in Registered, NEW dock \in Seq(Registered \cup Action \cup {"gap"}),
         NEW index \in Nat, NEW before \in BOOLEAN, DropToDockTray(s, dock, index, before)
  PROVE  OthersKeep(ids', ids, s)
<1> DEFINE on == dock[index + 1]
<1>1. ids \in Lists4 /\ Home(ids, section)
  BY DEF ModelInv
<1>2. CASE index < Len(dock) /\ on # "gap"
  <2>1. ids' = Dropped(s, on, before)
    BY <1>2 DEF DropToDockTray
  <2>2. on \in Registered \cup Action
    <3>1. index + 1 \in 1..Len(dock)
      BY <1>2
    <3> QED
      BY <1>2, <3>1
  <2> HIDE DEF on
  <2> QED
    BY <1>1, <2>1, <2>2, DroppedKeepsOrder
<1>3. CASE ~ (index < Len(dock) /\ on # "gap")
  <2>1. ids' = ids
    BY <1>3 DEF DropToDockTray
  <2> QED
    BY <2>1 DEF OthersKeep
<1> QED
  BY <1>2, <1>3

\* Of surfaces that a list may have, and of which none is dragged, none passes another.
OrderStep ==
  \A x \in Saved : \A s, t \in Surface \ {drag.id} :
    x \notin Kind[s].forbidden /\ x \notin Kind[t].forbidden /\ Ahead(ids[x], s, t)
      => Ahead(ids'[x], s, t)

LEMMA SameOrder ==
  ASSUME ids' = ids
  PROVE  OrderStep
BY DEF OrderStep

LEMMA OthersKeepOrder ==
  ASSUME OthersKeep(ids', ids, drag.id)
  PROVE  OrderStep
BY DEF OrderStep, OthersKeep, Saved

LEMMA TakenTyped ==
  ASSUME NEW lists \in Lists4, NEW x, NEW s, NEW z \in Section
  PROVE  /\ TakenFrom(lists, x, s) \in Lists4
         /\ TakenFrom(lists, x, s)[z] = IF z = x THEN Without(lists[z], s) ELSE lists[z]
<1>1. \A v \in Section : lists[v] \in Seq(Surface) /\ Without(lists[v], s) \in Seq(Surface)
  BY TimesWithout DEF Lists4
<1> QED
  BY <1>1 DEF TakenFrom, Lists4

\* What is registered is taken out of a list it may not be in, or added to one.
Whole(acc) == acc = [ids |-> acc.ids, section |-> acc.section, hidden |-> acc.hidden, calls |-> acc.calls]

LEMMA FindSectionTakes ==
  ASSUME NEW base, base \in [ids : Lists4, section : {section}, hidden : {hidden}, calls : {calls}],
         NEW s, NEW out, out = FindSection(base, s)
  PROVE  /\ Whole(out)
         /\ \/ out.ids = base.ids
            \/ \E x \in Kind[s].forbidden : out.ids = TakenFrom(base.ids, x, s)
<1> DEFINE found == Found(base.ids, s)
           x == IF found = <<>> THEN Kind[s].prefer ELSE Head(found)
           hides == found = <<>> /\ Settable(s) /\ x # "fixed" /\ ~Kind[s].app /\ s \notin base.hidden
           leaves == found # <<>> /\ x \in Kind[s].forbidden
           home == IF leaves THEN Kind[s].prefer ELSE x
<1>1. base = [ids |-> base.ids, section |-> base.section, hidden |-> base.hidden, calls |-> base.calls]
  OBVIOUS
<1>2. out = [base EXCEPT !.hidden = IF hides THEN @ \cup {s} ELSE @,
                         !.calls = IF hides THEN Append(@, [id |-> s, visible |-> FALSE]) ELSE @,
                         !.ids = IF leaves THEN TakenFrom(@, x, s) ELSE @,
                         !.section = Rowed(@, s, home)]
  BY Zenon DEF FindSection
<1>3. leaves => x \in Kind[s].forbidden
  OBVIOUS
<1> HIDE DEF found, x, hides, leaves, home
<1>4. out.ids = IF leaves THEN TakenFrom(base.ids, x, s) ELSE base.ids
  BY <1>1, <1>2
<1>5. Whole(out)
  BY <1>1, <1>2 DEF Whole
<1> QED
  BY <1>3, <1>4, <1>5

LEMMA RegisteredKeepsOrder ==
  ASSUME NEW base, base \in [ids : Lists4, section : {section}, hidden : {hidden}, calls : {calls}],
         Single(base.ids), NEW s \in Surface, s \notin DOMAIN base.section, NEW z \in Section,
         NEW t \in Surface, NEW u \in Surface, z \notin Kind[t].forbidden, z \notin Kind[u].forbidden,
         Ahead(base.ids[z], t, u)
  PROVE  Ahead(RegisterSurfaceId(base, s).ids[z], t, u)
<1> DEFINE acc == FindSection(base, s)
           out == RegisterSurfaceId(base, s)
           y == acc.section[s]
           l == acc.ids[z]
<1>1. out = IF Contains(acc.ids[y], s) THEN acc ELSE [acc EXCEPT !.ids[y] = Append(@, s)]
  BY DEF RegisterSurfaceId, RegisterToSection
<1>2. /\ Whole(acc)
      /\ \/ acc.ids = base.ids
         \/ \E x \in Kind[s].forbidden : acc.ids = TakenFrom(base.ids, x, s)
  <2>1. acc = FindSection(base, s)
    OBVIOUS
  <2> HIDE DEF acc
  <2> QED
    BY <2>1, FindSectionTakes
<1>3. base.ids \in Lists4
  OBVIOUS
<1> HIDE DEF acc
<1>4. acc.ids \in Lists4 /\ Ahead(l, t, u)
  <2>1. CASE acc.ids = base.ids
    BY <1>3, <2>1
  <2>2. CASE acc.ids # base.ids
    <3>1. PICK x \in Kind[s].forbidden : acc.ids = TakenFrom(base.ids, x, s)
      BY <1>2, <2>2
    <3>2. base.ids[z] \in Seq(Surface)
      BY <1>3 DEF Lists4
    <3>3. acc.ids \in Lists4 /\ l = IF z = x THEN Without(base.ids[z], s) ELSE base.ids[z]
      BY <1>3, <3>1, TakenTyped
    <3>4. CASE z = x
      <4>1. t # s /\ u # s
        BY <3>1, <3>4
      <4>2. Ahead(Without(base.ids[z], s), t, u)
        BY <3>2, <4>1, WithoutKeepsOrder
      <4> QED
        BY <3>3, <3>4, <4>2
    <3>5. CASE z # x
      BY <3>3, <3>5
    <3> QED
      BY <3>3, <3>4, <3>5
  <2> QED
    BY <2>1, <2>2
<1>5. CASE Contains(acc.ids[y], s)
  <2>1. out.ids[z] = l
    BY <1>1, <1>5
  <2> QED
    BY <1>4, <2>1
<1>6. CASE ~ Contains(acc.ids[y], s)
  <2>1. out = [acc EXCEPT !.ids[y] = Append(@, s)]
    BY <1>1, <1>6
  <2> HIDE DEF out
  <2>2. out.ids = [acc.ids EXCEPT ![y] = Append(@, s)]
    BY <1>2, <2>1 DEF Whole
  <2>3. out.ids[z] = IF z = y THEN Append(l, s) ELSE l
    BY <1>4, <2>2 DEF Lists4
  <2>4. l \in Seq(Surface)
    BY <1>4 DEF Lists4
  <2> HIDE DEF l
  <2>5. Ahead(Append(l, s), t, u)
    BY <1>4, <2>4, EndsKeepOrder
  <2> QED
    BY <1>4, <2>3, <2>5 DEF out
<1> QED
  BY <1>5, <1>6

LEMMA SurfaceCreatedOrder ==
  ASSUME TrayInv, NEW s \in Surface, SurfaceCreated(s)
  PROVE  OrderStep
<1> DEFINE A == Registered \cup {s}
           acc == Registers(Base, SetToSeq(A))
<1>1. s \notin Registered /\ ids' = acc.ids
  BY DEF SurfaceCreated, OnAvailableSurfacesChanged, Base, Registers
<1>2. ModelInv /\ ids \in Lists4 /\ Single(ids)
  BY DEF TrayInv, ModelInv
<1>3. A = Registered \cup {s} /\ acc = Registers(Base, SetToSeq(A))
  OBVIOUS
<1> HIDE DEF A, acc
<1>4. acc = RegisterSurfaceId(Base, s)
  BY <1>1, <1>2, <1>3, RegisterNew
<1>5. /\ Base \in [ids : Lists4, section : {section}, hidden : {hidden}, calls : {calls}]
      /\ Base.ids = ids /\ Base.section = section
  BY <1>2, BaseFields
<1>6. s \notin DOMAIN Base.section /\ Single(Base.ids)
  BY <1>1, <1>2, <1>5 DEF Registered
<1> SUFFICES ASSUME NEW x \in Saved, NEW t \in Surface, NEW u \in Surface,
                    x \notin Kind[t].forbidden, x \notin Kind[u].forbidden, Ahead(ids[x], t, u)
             PROVE  Ahead(ids'[x], t, u)
  BY DEF OrderStep
<1>7. x \in Section /\ Ahead(Base.ids[x], t, u)
  BY <1>5 DEF Saved
<1>8. Ahead(RegisterSurfaceId(Base, s).ids[x], t, u)
  BY <1>5, <1>6, <1>7, RegisteredKeepsOrder
<1> QED
  BY <1>1, <1>4, <1>8

LEMMA SurfaceDestroyedOrder ==
  ASSUME TrayInv, NEW s \in Surface, SurfaceDestroyed(s)
  PROVE  OrderStep
<1> DEFINE A == Registered \ {s}
           acc == Registers(Base, SetToSeq(A))
<1>1. s \in Registered /\ ids' = acc.ids
  BY DEF SurfaceDestroyed, OnAvailableSurfacesChanged, Base, Registers
<1>2. ModelInv /\ ids \in Lists4
  BY DEF TrayInv, ModelInv
<1>3. A = Registered \ {s} /\ acc = Registers(Base, SetToSeq(A))
  OBVIOUS
<1> HIDE DEF A, acc
<1>4. acc = Base
  BY <1>1, <1>2, <1>3, RegisterOld
<1>5. ids' = ids
  BY <1>1, <1>2, <1>4, BaseFields
<1> QED
  BY <1>5, SameOrder

LEMMA DropsOrder ==
  ASSUME TrayInv,
         \/ HoverTimeout \/ DropInStash
         \/ \E i \in DOMAIN visual.dock, before \in BOOLEAN : DropInDock(i, before)
  PROVE  OrderStep
<1>1. ModelInv /\ DragInv /\ ids \in Lists4 /\ Home(ids, section) /\ drag \in Drag
  BY DEF TrayInv, ModelInv, DragInv
<1>2. CASE HoverTimeout /\ ~ drag.over
  BY <1>2, SameOrder DEF HoverTimeout, modelVars
<1>3. CASE HoverTimeout /\ drag.over
  <2> DEFINE dock == visual.dock
             index == drag.hover.index
             before == drag.hover.before
             s == drag.id
  <2>1. DropToDockTray(s, dock, index, before)
    BY <1>3 DEF HoverTimeout
  <2>2. s \in Registered /\ dock \in Seq(Registered \cup Action \cup {"gap"})
    BY <1>3, OverTray
  <2>3. index \in Nat /\ before \in BOOLEAN
    BY <1>1, DragFields, HoverFields
  <2>4. OthersKeep(ids', ids, s)
    <3> HIDE DEF dock, index, before, s
    <3> QED
      BY <1>1, <2>1, <2>2, <2>3, DropToDockTrayKeepsOrder
  <2> QED
    BY <2>4, OthersKeepOrder
<1>4. CASE DropInStash
  <2> DEFINE s == drag.id
             x == section[s]
  <2>1. ids' = ids \/ ids' = Appended(ids, x, "stashed", s)
    BY <1>4 DEF DropInStash
  <2>2. s \in Registered
    BY <1>1, <1>4 DEF DropInStash, DragInv, Dragged
  <2>3. s \in Surface /\ x \in Section /\ "stashed" \in Section
    BY <1>1, <2>2 DEF Home, Registered, Section
  <2> HIDE DEF s, x
  <2>4. OthersKeep(Appended(ids, x, "stashed", s), ids, s)
    BY <1>1, <2>3, EndsKeep
  <2>5. ids' = Appended(ids, x, "stashed", s) => OthersKeep(ids', ids, drag.id)
    BY <2>4 DEF s
  <2> QED
    BY <2>1, <2>5, SameOrder, OthersKeepOrder
<1>5. ASSUME NEW i \in DOMAIN visual.dock, NEW before \in BOOLEAN, DropInDock(i, before)
      PROVE  OrderStep
  <2> DEFINE dock == visual.dock
             w == Without(dock, "gap")
             S == Registered \cup Action \cup {"gap"}
             s == drag.id
  <2>1. /\ drag.over
        /\ IF ~drag.stash THEN DropToDockTray(s, dock, i - 1, before)
           ELSE IF staged = NoStage THEN ids' = ids
           ELSE DropToDockTray(staged.id, w, staged.index, TRUE)
    BY <1>5 DEF DropInDock
  <2>2. s \in Registered /\ dock \in Seq(S)
    BY <2>1, OverTray
  <2>3. w \in Seq(S)
    <3> HIDE DEF dock, S
    <3> QED
      BY <2>2, TimesWithout
  <2>4. staged # NoStage => staged.id = s
    BY <1>1 DEF DragInv
  <2>5. staged.index \in Nat
    BY <1>1, StageFields DEF ModelInv
  <2>6. CASE ~ drag.stash
    <3> DEFINE index == i - 1
    <3>1. index \in Nat
      BY <2>2
    <3>2. DropToDockTray(s, dock, index, before)
      BY <2>1, <2>6
    <3> HIDE DEF dock, index, s
    <3>3. OthersKeep(ids', ids, s)
      BY <1>1, <2>2, <3>1, <3>2, DropToDockTrayKeepsOrder
    <3> QED
      BY <3>3, OthersKeepOrder DEF s
  <2>7. CASE drag.stash /\ staged = NoStage
    BY <2>1, <2>7, SameOrder
  <2>8. CASE drag.stash /\ staged # NoStage
    <3> DEFINE index == staged.index
    <3>1. DropToDockTray(s, w, index, TRUE)
      BY <2>1, <2>4, <2>8
    <3>2. index \in Nat /\ TRUE \in BOOLEAN
      BY <2>5
    <3> HIDE DEF w, dock, index, s
    <3>3. OthersKeep(ids', ids, s)
      BY <1>1, <2>2, <2>3, <3>1, <3>2, DropToDockTrayKeepsOrder
    <3> QED
      BY <3>3, OthersKeepOrder DEF s
  <2> QED
    BY <2>6, <2>7, <2>8
<1> QED
  BY <1>2, <1>3, <1>4, <1>5

LEMMA NextKeepsOrder ==
  ASSUME TrayInv, [Next]_vars
  PROVE  OrderStep
<1>1. CASE UNCHANGED vars
  BY <1>1, SameOrder DEF vars, modelVars
<1>2. CASE ModelValueChanged
  <2>1. ids' = [x \in Section |-> IF x \in Saved THEN config.ids[x] ELSE ids[x]]
    BY <1>2 DEF ModelValueChanged, LoadDataFromDConfig
  <2>2. ids' = ids
    BY <2>1, ReadBack DEF TrayInv, ModelInv, ConfigInv
  <2> QED
    BY <2>2, SameOrder
<1>3. CASE SettingsValueChanged
  BY <1>3, SameOrder DEF SettingsValueChanged, modelVars
<1>4. CASE SetItemOnDock
  BY <1>4, SameOrder DEF SetItemOnDock, modelVars
<1>5. CASE \E s \in Registered, visible \in BOOLEAN : ControlCenter(s, visible)
  BY <1>5, SameOrder DEF ControlCenter, modelVars
<1>6. CASE \E s \in Surface : SurfaceCreated(s) \/ SurfaceDestroyed(s)
  BY <1>6, SurfaceCreatedOrder, SurfaceDestroyedOrder
<1>7. CASE \E s \in Registered : DragStart(s) \/ QuickDragStart(s)
  BY <1>7, SameOrder DEF DragStart, QuickDragStart, modelVars
<1>8. CASE \E i \in DOMAIN visual.dock, before \in BOOLEAN : PositionChanged(i, before) \/ DropInDock(i, before)
  <2>1. ASSUME NEW i \in DOMAIN visual.dock, NEW before \in BOOLEAN, PositionChanged(i, before)
        PROVE  ids' = ids
    BY <2>1 DEF PositionChanged, modelVars
  <2> QED
    BY <1>8, <2>1, SameOrder, DropsOrder
<1>9. CASE DragEntered
  BY <1>9, SameOrder DEF DragEntered
<1>10. CASE DragExited
  BY <1>10, SameOrder DEF DragExited
<1>11. CASE HoverTimeout
  BY <1>11, DropsOrder
<1>12. CASE DropInStash
  BY <1>12, DropsOrder
<1>13. CASE DragEnd
  BY <1>13, SameOrder DEF DragEnd
<1>14. CASE ToggleCollapsed
  BY <1>14, SameOrder DEF ToggleCollapsed
<1>15. CASE Restart
  <2>1. ids' = Lists(config) /\ config.ids = [x \in Saved |-> ids[x]]
    BY <1>15 DEF Restart, TrayInv, ConfigInv
  <2>2. \A x \in Saved : ids'[x] = ids[x]
    BY <2>1 DEF Lists, Saved
  <2> QED
    BY <2>2 DEF OrderStep
<1> QED
  BY <1>1, <1>2, <1>3, <1>4, <1>5, <1>6, <1>7, <1>8, <1>9, <1>10, <1>11, <1>12, <1>13, <1>14, <1>15 DEF Next

\* Surfaces that a list may have keep their order in it, but for the one that is
\* dragged: whatever comes or goes, is dropped or read again.
THEOREM OrderStaysKept ==
  ASSUME AppsStashed
  PROVE  Spec => OrderKept
<1> DEFINE Passes == \A x \in Saved : \A s, t \in Surface \ {drag.id} :
                       /\ x \notin Kind[s].forbidden /\ x \notin Kind[t].forbidden
                       /\ Before(ids[x], s, t)
                       => Before(ids'[x], s, t)
<1>1. TrayInv /\ [Next]_vars => [Passes]_vars
  <2> SUFFICES ASSUME TrayInv, [Next]_vars,
                      NEW x \in Saved, NEW s \in Surface \ {drag.id}, NEW t \in Surface \ {drag.id},
                      x \notin Kind[s].forbidden, x \notin Kind[t].forbidden, Before(ids[x], s, t)
               PROVE  Before(ids'[x], s, t)
    OBVIOUS
  <2>1. TrayInv'
    BY NextKeeps
  <2>2. ids \in Lists4 /\ Single(ids) /\ ids' \in Lists4 /\ Single(ids')
    BY <2>1 DEF TrayInv, ModelInv
  <2>3. x \in Section /\ s \in Surface /\ t \in Surface
    BY DEF Saved
  <2>4. /\ ids[x] \in Seq(Surface) /\ Times(ids[x], s) \in {0, 1} /\ Times(ids[x], t) \in {0, 1}
        /\ ids'[x] \in Seq(Surface) /\ Times(ids'[x], s) \in {0, 1} /\ Times(ids'[x], t) \in {0, 1}
    BY <2>2, <2>3 DEF Lists4, Single, At
  <2>5. Ahead(ids[x], s, t)
    BY <2>4, BeforeIsAhead
  <2>6. Ahead(ids'[x], s, t)
    BY <2>5, NextKeepsOrder DEF OrderStep
  <2> QED
    BY <2>4, <2>6, BeforeIsAhead
<1>2. OrderKept <=> [][Passes]_vars
  BY DEF OrderKept
<1> QED
  BY <1>1, <1>2, TrayInvHolds, PTL DEF Spec

-----------------------------------------------------------------------------
(* Where a drop lands.                                                     *)

\* What is behind the one that is left out comes one place forward.
LEMMA WithoutPulls ==
  ASSUME NEW S, NEW list \in Seq(S), NEW p \in DOMAIN list, NEW q \in DOMAIN list, p < q,
         \A k \in DOMAIN list : list[k] = list[p] => k = p
  PROVE  /\ q - 1 \in 1..Len(Without(list, list[p]))
         /\ Without(list, list[p])[q - 1] = list[q]
<1> DEFINE n == Len(list)
           I == {i \in DOMAIN list : list[i] # list[p]}
           B == {r \in I \X I : r[1] < r[2]}
           w == RowsAt(list, I)
           m == Cardinality(I)
<1>1. n \in Nat /\ DOMAIN list = 1..n /\ p \in 1..n /\ q \in 1..n
  OBVIOUS
<1>2. I = (1..n) \ {p}
  BY <1>1
<1>3. w = Without(list, list[p])
  BY DEF Without
<1>4. I \in SUBSET DOMAIN list
  OBVIOUS
<1>5. \A x, y \in I : <<x, y>> \in B <=> x < y
  OBVIOUS
<1>6. Ascending(I) = Ranked(I, B)
  BY DEF Ascending
<1> HIDE DEF B, I, w, n, m
<1>7. /\ Len(w) = m /\ m \in Nat
      /\ \A k \in 1..m : w[k] = list[Ascending(I)[k]]
  BY <1>4, RowsAtFacts DEF w, m
<1>8. IsFiniteSet(1..n) /\ Cardinality(1..n) = n
  <2>1. 1 \in Int /\ n \in Int /\ (1 > n => n = 0) /\ n - 1 + 1 = n
    BY <1>1
  <2> QED
    BY <2>1, FS_Interval
<1>9. IsFiniteSet(I) /\ m = n - 1
  BY <1>1, <1>2, <1>8, FS_RemoveElement DEF m
<1>10. Orders(B, I)
  <2>1. \A x \in I : x \in Nat
    BY <1>1, <1>2
  <2> QED
    BY <1>5, <2>1 DEF Orders
<1>11. q \in I /\ q - 1 \in 1..m
  BY <1>1, <1>2, <1>9
<1>12. Cardinality({y \in I : <<y, q>> \in B}) = (q - 1) - 1
  <2>1. {y \in I : <<y, q>> \in B} = (1..q - 1) \ {p}
    <3>1. {y \in I : <<y, q>> \in B} = {y \in I : y < q}
      BY <1>5, <1>11
    <3> QED
      BY <1>1, <1>2, <3>1
  <2>2. IsFiniteSet(1..q - 1) /\ Cardinality(1..q - 1) = q - 1
    <3>1. 1 \in Int /\ q - 1 \in Int /\ ~ (1 > q - 1) /\ (q - 1) - 1 + 1 = q - 1
      BY <1>1
    <3> QED
      BY <3>1, FS_Interval
  <2>3. p \in 1..q - 1
    BY <1>1
  <2>4. Cardinality((1..q - 1) \ {p}) = Cardinality(1..q - 1) - 1
    BY <2>2, <2>3, FS_RemoveElement
  <2> QED
    BY <2>1, <2>2, <2>4
<1>13. \A x \in I : \A i \in 1..m :
         Cardinality({y \in I : <<y, x>> \in B}) = i - 1 => Ranked(I, B)[i] = x
  BY <1>9, <1>10, RankedFacts DEF m
<1>14. Ranked(I, B)[q - 1] = q
  BY <1>11, <1>12, <1>13
<1> QED
  BY <1>3, <1>6, <1>7, <1>11, <1>14

\* The place of what a list names once is where it is found.
LEMMA PlaceFound ==
  ASSUME NEW S, NEW list \in Seq(S), NEW s, Times(list, s) = 1,
         NEW i \in DOMAIN list, list[i] = s
  PROVE  IndexIn(list, s) = i
<1>1. PICK k \in DOMAIN list : list[k] = s /\ \A m \in DOMAIN list : list[m] = s => m = k
  BY OncePlaced
<1>2. IndexIn(list, s) \in DOMAIN list /\ list[IndexIn(list, s)] = s
  BY <1>1 DEF IndexIn
<1> QED
  BY <1>1, <1>2

\* What is put before or behind a row r is next to it.
Beside(r, before) == IF before THEN r ELSE r + 1
Pushed(r, before) == IF before THEN r + 1 ELSE r

LEMMA InsertedNext ==
  ASSUME NEW S, NEW b \in Seq(S), NEW s \in S, NEW r \in 1..Len(b), NEW before \in BOOLEAN
  PROVE  /\ InsertAt(b, Beside(r, before), s) \in Seq(S)
         /\ Len(InsertAt(b, Beside(r, before), s)) = Len(b) + 1
         /\ InsertAt(b, Beside(r, before), s)[Beside(r, before)] = s
         /\ InsertAt(b, Beside(r, before), s)[Pushed(r, before)] = b[r]
<1> DEFINE to == Beside(r, before)
           at == Pushed(r, before)
<1>0. to = (IF before THEN r ELSE r + 1) /\ at = (IF before THEN r + 1 ELSE r)
  BY DEF Beside, Pushed
<1> DEFINE l == InsertAt(b, to, s)
<1> HIDE DEF to, at
<1>1. Len(b) \in Nat /\ to \in 1..Len(b) + 1
  BY <1>0
<1>2. /\ l \in Seq(S) /\ Len(l) = Len(b) + 1
      /\ \A j \in 1..Len(b) + 1 : l[j] = IF j < to THEN b[j] ELSE IF j = to THEN s ELSE b[j - 1]
  <2>1. ASSUME NEW p \in 1..Len(b) + 1
        PROVE  /\ InsertAt(b, p, s) \in Seq(S) /\ Len(InsertAt(b, p, s)) = Len(b) + 1
               /\ \A j \in 1..Len(b) + 1 :
                    InsertAt(b, p, s)[j] = IF j < p THEN b[j] ELSE IF j = p THEN s ELSE b[j - 1]
    BY InsertAtFacts
  <2> QED
    BY <1>1, <2>1
<1> HIDE DEF l
<1>3. l[to] = s
  BY <1>1, <1>2
<1>4. CASE before
  <2>1. r + 1 \in 1..Len(b) + 1 /\ ~ (r + 1 < to) /\ r + 1 # to /\ r + 1 - 1 = r
    BY <1>0, <1>1, <1>4
  <2> QED
    BY <1>0, <1>2, <1>3, <1>4, <2>1 DEF l, to, at
<1>5. CASE ~ before
  <2>1. r \in 1..Len(b) + 1 /\ r < to
    BY <1>0, <1>1, <1>5
  <2> QED
    BY <1>0, <1>2, <1>3, <1>5, <2>1 DEF l, to, at
<1> QED
  BY <1>4, <1>5

\* Dropped on a surface that is not before it in its own list, it is next to that.
LEMMA OntoLands ==
  ASSUME NEW lists \in Lists4, NEW s \in Surface, NEW x \in Section, NEW y \in Section,
         At(lists, s, x), NEW on \in Surface, on # s, At(lists, on, y), NEW before \in BOOLEAN,
         ~ Before(lists[y], on, s)
  PROVE  IndexIn(Onto(lists, x, y, s, on, before)[y], on)
           = IF before THEN IndexIn(Onto(lists, x, y, s, on, before)[y], s) + 1
             ELSE IndexIn(Onto(lists, x, y, s, on, before)[y], s) - 1
<1> DEFINE new == Onto(lists, x, y, s, on, before)
           l == new[y]
           b == Left(lists, x, y, s)
           to == Aim(lists, x, y, on, before)
           place == IndexIn(lists[y], on)
<1>1. /\ b \in Seq(Surface) /\ lists[y] \in Seq(Surface)
      /\ place \in 1..Len(lists[y]) /\ lists[y][place] = on
      /\ l = InsertAt(b, to, s)
  BY OntoPlaces
<1>2. Times(l, s) = 1 /\ Times(l, on) = 1
  <2>1. Rehomed(new, lists, s, y)
    BY OntoMoves
  <2> HIDE DEF new
  <2>2. Times(new[y], s) = 1 /\ Times(new[y], on) = Times(lists[y], on)
    BY <2>1 DEF Rehomed, At
  <2> QED
    BY <2>2 DEF At
<1>3. /\ x = y => b = Without(lists[y], s) /\ to = IF before /\ place > 1 THEN place - 1 ELSE place
      /\ x # y => b = lists[y] /\ to = IF before THEN place ELSE place + 1
  BY DEF Left, Aim
<1>4. \E r \in 1..Len(b) : b[r] = on /\ to = IF before THEN r ELSE r + 1
  <2>1. CASE x = y
    <3>1. Times(lists[y], s) = 1 /\ Contains(lists[y], s) /\ Contains(lists[y], on)
      BY <2>1, AtContains
    <3>2. PICK p \in DOMAIN lists[y] : lists[y][p] = s /\ \A k \in DOMAIN lists[y] : lists[y][k] = s => k = p
      BY <1>1, <3>1, OncePlaced
    <3>3. IndexIn(lists[y], s) = p
      BY <1>1, <3>1, <3>2, PlaceFound
    <3>4. p < place /\ place \in DOMAIN lists[y] /\ p \in Nat /\ p > 0
      <4>1. ~ (place < p)
        BY <3>1, <3>3 DEF Before
      <4>2. p # place
        BY <1>1, <3>2
      <4>3. p \in 1..Len(lists[y])
        BY <1>1, <3>2
      <4> QED
        BY <1>1, <4>1, <4>2, <4>3
    <3>5. place - 1 \in 1..Len(b) /\ b[place - 1] = on
      <4> DEFINE list == lists[y]
      <4>1. list \in Seq(Surface) /\ p \in DOMAIN list /\ place \in DOMAIN list /\ list[p] = s
        BY <1>1, <3>2, <3>4
      <4>2. \A k \in DOMAIN list : list[k] = list[p] => k = p
        BY <3>2
      <4>3. list[place] = on /\ b = Without(list, list[p])
        BY <1>1, <1>3, <2>1, <4>1
      <4> HIDE DEF list, place, b
      <4> QED
        BY <3>4, <4>1, <4>2, <4>3, WithoutPulls
    <3>6. to = IF before THEN place - 1 ELSE (place - 1) + 1
      <4>1. place > 1 /\ place \in Nat
        BY <1>1, <3>4
      <4> QED
        BY <1>3, <2>1, <4>1
    <3> QED
      BY <3>5, <3>6
  <2>2. CASE x # y
    BY <1>1, <1>3, <2>2
  <2> QED
    BY <2>1, <2>2
<1>5. PICK r \in 1..Len(b) : b[r] = on /\ to = IF before THEN r ELSE r + 1
  BY <1>4
<1> HIDE DEF new, l, b, to, place
<1>6. /\ l \in Seq(Surface) /\ Len(l) = Len(b) + 1
      /\ l[Beside(r, before)] = s /\ l[Pushed(r, before)] = on
  <2>1. l = InsertAt(b, Beside(r, before), s)
    BY <1>1, <1>5 DEF Beside
  <2>2. /\ InsertAt(b, Beside(r, before), s) \in Seq(Surface)
        /\ Len(InsertAt(b, Beside(r, before), s)) = Len(b) + 1
        /\ InsertAt(b, Beside(r, before), s)[Beside(r, before)] = s
        /\ InsertAt(b, Beside(r, before), s)[Pushed(r, before)] = b[r]
    BY <1>1, InsertedNext
  <2> QED
    BY <1>5, <2>1, <2>2
<1>7. Beside(r, before) \in DOMAIN l /\ Pushed(r, before) \in DOMAIN l
  <2>1. DOMAIN l = 1..Len(b) + 1 /\ Len(b) \in Nat
    BY <1>1, <1>6
  <2> QED
    BY <2>1 DEF Beside, Pushed
<1>8. IndexIn(l, s) = Beside(r, before)
  BY <1>2, <1>6, <1>7, PlaceFound
<1>9. IndexIn(l, on) = Pushed(r, before)
  BY <1>2, <1>6, <1>7, PlaceFound
<1>10. IndexIn(l, on) = IF before THEN IndexIn(l, s) + 1 ELSE IndexIn(l, s) - 1
  BY <1>8, <1>9 DEF Beside, Pushed
<1> QED
  BY <1>10 DEF l, new

LEMMA HeldDropLands ==
  ASSUME TrayInv, HoverTimeout, drag.over, NEW t \in Registered \ {drag.id},
         drag.hover.index < Len(visual.dock), visual.dock[drag.hover.index + 1] = t,
         section[t] \notin Kind[drag.id].forbidden,
         ~ Before(ids[section[t]], t, drag.id)
  PROVE  IndexIn(ids'[section[t]], t)
           = IF drag.hover.before THEN IndexIn(ids'[section[t]], drag.id) + 1
             ELSE IndexIn(ids'[section[t]], drag.id) - 1
<1> DEFINE s == drag.id
           before == drag.hover.before
           x == section[s]
           y == section[t]
<1>1. ids \in Lists4 /\ Home(ids, section) /\ drag \in Drag
  BY DEF TrayInv, ModelInv, DragInv
<1>2. s \in Registered /\ t \in Registered /\ t # s
  BY OverTray
<1>3. /\ s \in Surface /\ x \in Section /\ At(ids, s, x)
      /\ t \in Surface /\ y \in Section /\ At(ids, t, y)
  BY <1>1, <1>2 DEF Home, Registered
<1>4. before \in BOOLEAN
  BY <1>1, DragFields, HoverFields
<1>5. t \notin Action /\ t # "gap"
  BY <1>3, SurfaceAssumption
<1>6. ids' = Dropped(s, t, before)
  BY <1>5 DEF HoverTimeout, DropToDockTray
<1>7. t # "show-stash" /\ t # "toggle-collapse" /\ t # "quick-settings"
  BY <1>5 DEF Action
<1>8. ids' = Onto(ids, x, y, s, t, before)
  BY <1>2, <1>6, <1>7 DEF Dropped, Onto
<1>9. ~ Before(ids[y], t, s)
  OBVIOUS
<1> HIDE DEF s, before, x, y
<1>10. IndexIn(Onto(ids, x, y, s, t, before)[y], t)
         = IF before THEN IndexIn(Onto(ids, x, y, s, t, before)[y], s) + 1
           ELSE IndexIn(Onto(ids, x, y, s, t, before)[y], s) - 1
  BY <1>1, <1>2, <1>3, <1>4, <1>9, OntoLands
<1>11. IndexIn(ids'[y], t) = IF before THEN IndexIn(ids'[y], s) + 1 ELSE IndexIn(ids'[y], s) - 1
  BY <1>8, <1>10
<1> QED
  BY <1>11 DEF s, before, y

\* Nothing but the timeout lets a held surface be no longer waited for while it
\* stays over the tray.
LEMMA OnlyTimeout ==
  ASSUME TrayInv, [Next]_vars, drag.hover.pending, drag.over, drag'.over, ~ drag'.hover.pending
  PROVE  HoverTimeout
<1>1. drag \in Drag /\ Dragged /\ drag' # drag /\ drag' # NoDrag
  <2>1. drag \in Drag /\ drag.id \in Registered
    BY OverTray DEF TrayInv, DragInv
  <2>2. drag.id \in Surface
    BY <2>1 DEF TrayInv, ModelInv, Home, Registered
  <2> QED
    BY <2>1, <2>2, SurfaceAssumption, NoneTyped DEF Dragged
<1>2. CASE UNCHANGED vars
  BY <1>1, <1>2 DEF vars
<1>3. CASE ModelValueChanged \/ SettingsValueChanged \/ SetItemOnDock
  BY <1>1, <1>3 DEF ModelValueChanged, SettingsValueChanged, SetItemOnDock
<1>4. CASE \E s \in Registered, visible \in BOOLEAN : ControlCenter(s, visible)
  BY <1>1, <1>4 DEF ControlCenter
<1>5. CASE \E s \in Surface : SurfaceCreated(s) \/ SurfaceDestroyed(s)
  BY <1>1, <1>5 DEF SurfaceCreated, SurfaceDestroyed
<1>6. CASE \E s \in Registered : DragStart(s) \/ QuickDragStart(s)
  BY <1>1, <1>6 DEF DragStart, QuickDragStart
<1>7. ASSUME NEW i \in DOMAIN visual.dock, NEW before \in BOOLEAN, PositionChanged(i, before)
      PROVE  HoverTimeout
  <2>1. ~ drag.stash
    BY <1>1, <1>7 DEF PositionChanged
  <2>2. drag' = [drag EXCEPT !.hover = [index |-> i - 1, before |-> before, pending |-> TRUE]]
    BY <1>7, <2>1 DEF PositionChanged
  <2>3. drag'.hover.pending
    BY <1>1, <2>2 DEF Drag
  <2> QED
    BY <2>3
<1>8. ASSUME NEW i \in DOMAIN visual.dock, NEW before \in BOOLEAN, DropInDock(i, before)
      PROVE  HoverTimeout
  BY <1>1, <1>8 DEF DropInDock
<1>9. CASE DragEntered \/ DropInStash \/ DragEnd
  BY <1>9 DEF DragEntered, DropInStash, DragEnd
<1>10. CASE DragExited
  <2>1. drag' = [drag EXCEPT !.over = FALSE, !.hover = IF drag.quick THEN NoHover ELSE @]
    BY <1>10 DEF DragExited
  <2>2. drag'.over = FALSE
    BY <1>1, <2>1 DEF Drag
  <2> QED
    BY <2>2
<1>11. CASE ToggleCollapsed
  BY <1>1, <1>11 DEF ToggleCollapsed
<1>12. CASE Restart
  BY <1>1, <1>12 DEF Restart
<1> QED
  BY <1>2, <1>3, <1>4, <1>5, <1>6, <1>7, <1>8, <1>9, <1>10, <1>11, <1>12 DEF Next

\* A surface that is held over another goes next to it, on the side of the
\* pointer, if it may be there and does not come from behind it in its list.
THEOREM HeldDropsLand ==
  ASSUME AppsStashed
  PROVE  Spec => DropLands
<1> DEFINE Lands == drag.hover.pending /\ drag.over /\ drag'.over /\ ~drag'.hover.pending =>
             \A t \in Registered \ {drag.id} :
               LET x == section[t]
                   list == ids'[x]
               IN /\ drag.hover.index < Len(visual.dock) /\ visual.dock[drag.hover.index + 1] = t
                  /\ x \notin Kind[drag.id].forbidden
                  /\ ~Before(ids[x], t, drag.id)
                  => IndexIn(list, t) = IF drag.hover.before THEN IndexIn(list, drag.id) + 1
                                        ELSE IndexIn(list, drag.id) - 1
<1>1. TrayInv /\ [Next]_vars => [Lands]_vars
  <2> SUFFICES ASSUME TrayInv, [Next]_vars,
                      drag.hover.pending, drag.over, drag'.over, ~drag'.hover.pending,
                      NEW t \in Registered \ {drag.id},
                      drag.hover.index < Len(visual.dock), visual.dock[drag.hover.index + 1] = t,
                      section[t] \notin Kind[drag.id].forbidden,
                      ~ Before(ids[section[t]], t, drag.id)
               PROVE  IndexIn(ids'[section[t]], t)
                        = IF drag.hover.before THEN IndexIn(ids'[section[t]], drag.id) + 1
                          ELSE IndexIn(ids'[section[t]], drag.id) - 1
    OBVIOUS
  <2>1. HoverTimeout
    BY OnlyTimeout
  <2> QED
    BY <2>1, HeldDropLands
<1>2. DropLands <=> [][Lands]_vars
  BY DEF DropLands
<1> QED
  BY <1>1, <1>2, TrayInvHolds, PTL DEF Spec

===============================================================================
