------------------------ MODULE NotificationCenter_proofs ------------------------
(***************************************************************************)
(* Theorems about the notification centre, for every number of rows,       *)
(* applications, notifications and signals under way: first about the live *)
(* notifications, which the rows of the records and what the user does     *)
(* with them leave alone, then about the rows of the records.              *)
(***************************************************************************)
EXTENDS NotificationCenter, RowFacts

-----------------------------------------------------------------------------
(* What is read from memory.                                               *)

\* A list of k rows holds at most k notifications.
LEMMA RowsBound ==
  ASSUME NEW s \in Seq(Nat)
  PROVE  LET R == {s[i] : i \in DOMAIN s}
         IN  IsFiniteSet(R) /\ Cardinality(R) <= Len(s) /\ Len(s) \in Nat
<1> DEFINE R == {s[i] : i \in DOMAIN s}
<1>1. Len(s) \in Nat /\ DOMAIN s = 1..Len(s) /\ s \in [DOMAIN s -> R]
  OBVIOUS
<1>2. s \in Surjection(1..Len(s), R)
  BY <1>1 DEF Surjection
<1>3. IsFiniteSet(1..Len(s)) /\ Cardinality(1..Len(s)) = Len(s)
  BY <1>1, FS_Interval
<1> HIDE DEF R
<1>4. IsFiniteSet(R) /\ Cardinality(R) <= Len(s)
  BY <1>2, <1>3, FS_Surjection
<1> QED
  BY <1>1, <1>4 DEF R

\* Where a list with room has all that is fetched, it has all there is: fetching
\* leaves out only what is newer than the rows of a whole list.
LEMMA FetchedIsAll ==
  ASSUME NEW k \in Nat, NEW live \in SUBSET (1..k), NEW s \in Seq(Nat),
         Len(s) < BubbleMaxCount, \A m \in Fetched(live) : Contains(s, m)
  PROVE  \A m \in live : Contains(s, m)
<1> DEFINE U == {m \in live : ~Contains(s, m)}
           R == {s[i] : i \in DOMAIN s}
<1>1. SUFFICES ASSUME U # {} PROVE FALSE
  OBVIOUS
<1>0. \A m \in live : m \in Nat
  OBVIOUS
<1>2. U \in SUBSET Nat
  BY <1>0
<1>3. Min(U) \in U /\ \A m \in U : Min(U) <= m
  <2> HIDE DEF U
  <2> QED
    BY <1>1, <1>2, MinOfRows
<1> DEFINE y == Min(U)
           B == {m \in live : m < y}
<1>4. y \in live /\ ~Contains(s, y) /\ y \in Nat
  <2>1. y \in U
    BY <1>3
  <2> QED
    BY <1>0, <2>1
<1>5. ASSUME NEW m \in B PROVE m \in R
  <2>1. m \in live /\ m \in Nat /\ y \in Nat /\ m < y
    BY <1>0, <1>4
  <2>2. m \notin U
    <3> HIDE DEF U
    <3> QED
      BY <1>3, <2>1
  <2>3. Contains(s, m)
    BY <2>1, <2>2
  <2> QED
    BY <2>3 DEF Contains
<1>6. Cardinality(B) \in Nat /\ Cardinality(B) <= Len(s) /\ Len(s) \in Nat
  <2>1. IsFiniteSet(R) /\ Cardinality(R) <= Len(s) /\ Len(s) \in Nat
    BY RowsBound
  <2>4. B \subseteq R
    BY <1>5
  <2> HIDE DEF R, B
  <2>2. IsFiniteSet(B) /\ Cardinality(B) <= Cardinality(R)
    BY <2>1, <2>4, FS_Subset
  <2>3. Cardinality(B) \in Nat /\ Cardinality(R) \in Nat
    BY <2>1, <2>2, FS_CardinalityType
  <2> QED
    BY <2>1, <2>2, <2>3
<1>7. Cardinality(B) <= MaxCount
  BY <1>6, CenterAssumption DEF MaxCount
<1>8. y \in Fetched(live)
  BY <1>4, <1>7 DEF Fetched
<1> QED
  BY <1>4, <1>8

\* LatestFirst lists the newest without a gap, the latest first.
LEMMA LatestFirstFacts ==
  ASSUME NEW k \in Nat, NEW T \in SUBSET (1..k), NEW c \in 0..Cardinality(T)
  PROVE  /\ Cardinality(T) \in Nat
         /\ LatestFirst(T, c) \in Seq(T) /\ Len(LatestFirst(T, c)) = c
         /\ \A i, j \in 1..c : i < j => LatestFirst(T, c)[i] > LatestFirst(T, c)[j]
         /\ c = Cardinality(T) => \A n \in T : Contains(LatestFirst(T, c), n)
<1> DEFINE after(n) == {m \in T : m > n}
           N == Cardinality(T)
           r == [n \in T |-> Cardinality(after(n))]
<1>1. IsFiniteSet(T) /\ N \in Nat
  <2>1. IsFiniteSet(1..k)
    BY FS_Interval
  <2> QED
    BY <2>1, FS_Subset, FS_CardinalityType
<1>2. ASSUME NEW n \in T PROVE IsFiniteSet(after(n)) /\ Cardinality(after(n)) \in 0..N - 1
  <2>1. after(n) \subseteq T /\ n \notin after(n)
    OBVIOUS
  <2> HIDE DEF after
  <2>2. IsFiniteSet(after(n)) /\ Cardinality(after(n)) <= N /\ (Cardinality(after(n)) = N => after(n) = T)
    BY <1>1, <2>1, FS_Subset
  <2>3. Cardinality(after(n)) \in Nat
    BY <2>2, FS_CardinalityType
  <2> QED
    BY <1>1, <2>1, <2>2, <2>3
<1>3. ASSUME NEW m \in T, NEW n \in T, m < n
      PROVE  Cardinality(after(n)) < Cardinality(after(m))
  <2>0. \A x \in T : x \in Nat
    OBVIOUS
  <2>1. after(n) \subseteq after(m) /\ n \in after(m) /\ n \notin after(n)
    <3>1. \A x \in T : x > n => x > m
      BY <1>3, <2>0
    <3>2. n > m /\ ~ (n > n)
      BY <1>3, <2>0
    <3> QED
      BY <3>1, <3>2
  <2>2. IsFiniteSet(after(m)) /\ Cardinality(after(m)) \in Nat /\ Cardinality(after(n)) \in Nat
    BY <1>1, <1>2
  <2> HIDE DEF after
  <2>3. Cardinality(after(n)) <= Cardinality(after(m)) /\ (Cardinality(after(m)) = Cardinality(after(n)) => after(m) = after(n))
    BY <2>1, <2>2, FS_Subset
  <2> QED
    BY <2>1, <2>2, <2>3
<1>4. \A n \in T : r[n] = Cardinality(after(n)) /\ r[n] \in 0..N - 1
  BY <1>2
<1>5. \A m, n \in T : m < n => r[n] < r[m]
  BY <1>3, <1>4
<1>6. \A m, n \in T : r[m] = r[n] => m = n
  <2>0. \A x \in T : x \in Nat
    OBVIOUS
  <2> HIDE DEF r
  <2>1. \A n \in T : n \in Nat /\ r[n] \in Int
    <3>1. \A i \in 0..N - 1 : i \in Int
      BY <1>1
    <3> HIDE DEF N
    <3> QED
      BY <1>4, <2>0, <3>1
  <2> HIDE DEF N
  <2>2. \A m, n \in T : m < n \/ n < m \/ m = n
    BY <2>1
  <2> QED
    BY <1>5, <2>1, <2>2
<1>7. \A i \in 0..N - 1 : \E n \in T : r[n] = i
  <2>1. r \in [T -> 0..N - 1]
    BY <1>4
  <2>2. r \in Injection(T, 0..N - 1)
    <3> HIDE DEF r, N
    <3> QED
      BY <1>6, <2>1 DEF Injection, IsInjective
  <2>3. IsFiniteSet(0..N - 1) /\ Cardinality(0..N - 1) = N
    <3>1. 0 \in Int /\ N - 1 \in Int /\ (0 > N - 1 => N = 0) /\ (N - 1) - 0 + 1 = N
      BY <1>1
    <3> HIDE DEF N
    <3> QED
      BY <3>1, FS_Interval
  <2>4. r \in Surjection(T, 0..N - 1)
    <3> HIDE DEF r
    <3> QED
      BY <2>2, <2>3, FS_Injection
  <2> HIDE DEF r, N
  <2> QED
    BY <2>4 DEF Surjection
<1> DEFINE s == LatestFirst(T, c)
<1>8. /\ \A i \in 1..c : s[i] \in T /\ r[s[i]] = i - 1
      /\ DOMAIN s = 1..c
  <2>1. s = [i \in 1..c |-> CHOOSE n \in T : Cardinality(after(n)) = i - 1]
    BY DEF LatestFirst
  <2>2. ASSUME NEW i \in 1..c PROVE \E n \in T : Cardinality(after(n)) = i - 1
    <3>1. i - 1 \in 0..N - 1
      BY <1>1
    <3>2. PICK n \in T : r[n] = i - 1
      BY <1>7, <3>1
    <3> QED
      BY <1>4, <3>2
  <2>3. ASSUME NEW i \in 1..c PROVE s[i] \in T /\ Cardinality(after(s[i])) = i - 1
    <3> HIDE DEF after
    <3>1. s[i] = CHOOSE n \in T : Cardinality(after(n)) = i - 1
      BY <2>1
    <3> HIDE DEF s
    <3> QED
      BY <2>2, <3>1
  <2> HIDE DEF s, after, r
  <2> QED
    BY <1>4, <2>1, <2>3
<1> HIDE DEF s, r
<1>9. c \in Nat /\ T \subseteq Nat
  BY <1>1
<1>10. s \in [1..c -> T]
  <2> DEFINE chosen(i) == CHOOSE n \in T : Cardinality({m \in T : m > n}) = i - 1
  <2>1. s = [i \in 1..c |-> chosen(i)]
    BY DEF s, LatestFirst
  <2> HIDE DEF chosen
  <2>2. \A i \in 1..c : chosen(i) \in T
    BY <1>8, <2>1
  <2> QED
    BY <2>1, <2>2
<1>11. s \in Seq(T) /\ Len(s) = c
  BY <1>9, <1>10
<1>12. ASSUME NEW i \in 1..c, NEW j \in 1..c, i < j PROVE s[i] > s[j]
  <2>1. s[i] \in T /\ s[j] \in T /\ r[s[i]] < r[s[j]]
    BY <1>8, <1>9, <1>12
  <2>2. s[i] \in Nat /\ s[j] \in Nat /\ r[s[i]] \in Int /\ r[s[j]] \in Int
    <3>1. \A q \in 0..N - 1 : q \in Int
      BY <1>1
    <3> HIDE DEF N
    <3> QED
      BY <1>4, <1>9, <2>1, <3>1
  <2>3. s[i] # s[j] /\ ~ (s[i] < s[j])
    BY <1>5, <2>1, <2>2
  <2> QED
    BY <2>2, <2>3
<1>13. ASSUME c = N, NEW n \in T PROVE Contains(s, n)
  <2>1. r[n] \in 0..N - 1
    BY <1>4
  <2>2. r[n] + 1 \in 1..c /\ (r[n] + 1) - 1 = r[n]
    BY <1>1, <1>13, <2>1
  <2>3. s[r[n] + 1] = n
    BY <1>6, <1>8, <2>2
  <2> QED
    BY <1>11, <2>2, <2>3 DEF Contains
<1> QED
  BY <1>1, <1>11, <1>12, <1>13 DEF s

-----------------------------------------------------------------------------
(* The list, apart from what it lists: live are the live notifications,    *)
(* out those that may be out of turn, twice those that may be there twice, *)
(* and ok those that may be listed.                                        *)

InOrder(s, live, out) ==
  \A i, j \in DOMAIN s : i < j /\ s[j] \in live => s[i] > s[j] \/ s[j] \in out
Once(s, twice) == \A i, j \in DOMAIN s : i # j /\ s[i] = s[j] => s[i] \in twice
Alive(s, ok) == \A i \in DOMAIN s : s[i] \in ok
Good(s, live, out, twice, ok) == InOrder(s, live, out) /\ Once(s, twice) /\ Alive(s, ok)

\* r is s with n put in as row p.
Inserted(r, s, p, n) ==
  /\ r \in Seq(Nat) /\ Len(r) = Len(s) + 1 /\ p \in 1..Len(s) + 1
  /\ \A j \in 1..Len(s) + 1 : r[j] = IF j < p THEN s[j] ELSE IF j = p THEN n ELSE s[j - 1]

LEMMA InsertAtInserts ==
  ASSUME NEW s \in Seq(Nat), NEW p \in 1..Len(s) + 1, NEW n \in Nat
  PROVE  Inserted(InsertAt(s, p, n), s, p, n)
<1> DEFINE r == InsertAt(s, p, n)
<1>1. /\ r \in Seq(Nat)
      /\ Len(r) = Len(s) + 1
      /\ \A j \in 1..Len(s) + 1 : r[j] = IF j < p THEN s[j] ELSE IF j = p THEN n ELSE s[j - 1]
  BY InsertAtFacts
<1> QED
  BY <1>1 DEF Inserted

\* The list is as good for other sets that treat its rows no worse.
LEMMA GoodStays ==
  ASSUME NEW s, NEW live, NEW out, NEW twice, NEW ok, Good(s, live, out, twice, ok),
         NEW live1, NEW out1, NEW twice1, NEW ok1,
         \A i \in DOMAIN s :
           /\ s[i] \in live1 => s[i] \in live /\ (s[i] \in out => s[i] \in out1)
           /\ s[i] \in twice => s[i] \in twice1
           /\ s[i] \in ok => s[i] \in ok1
  PROVE  Good(s, live1, out1, twice1, ok1)
<1>1. InOrder(s, live1, out1)
  BY DEF Good, InOrder
<1>2. Once(s, twice1)
  BY DEF Good, Once
<1>3. Alive(s, ok1)
  BY DEF Good, Alive
<1> QED
  BY <1>1, <1>2, <1>3 DEF Good

\* Without a row, what that row listed is only there if it was twice.
LEMMA GoodRemoved ==
  ASSUME NEW s \in Seq(Nat), NEW live, NEW out, NEW twice, NEW ok, Good(s, live, out, twice, ok),
         NEW k \in DOMAIN s
  PROVE  Good(RemoveAt(s, k), live, out, twice, (ok \ {s[k]}) \cup twice)
<1> DEFINE t == RemoveAt(s, k)
           old(j) == IF j < k THEN j ELSE j + 1
<1>1. /\ Len(s) \in Nat /\ k \in 1..Len(s) /\ DOMAIN s = 1..Len(s)
      /\ DOMAIN t = 1..Len(s) - 1
      /\ \A j \in 1..Len(s) - 1 : t[j] = s[old(j)]
  <2>1. t \in Seq(Nat) /\ Len(t) = Len(s) - 1
    BY RemoveAtFacts
  <2>2. DOMAIN t = 1..Len(t)
    BY <2>1
  <2>3. Len(s) \in Nat /\ k \in 1..Len(s) /\ DOMAIN s = 1..Len(s)
    OBVIOUS
  <2>4. \A j \in 1..Len(s) - 1 : t[j] = s[old(j)]
    BY RemoveAtFacts
  <2> QED
    BY <2>1, <2>2, <2>3, <2>4
<1>2. /\ \A j \in 1..Len(s) - 1 : old(j) \in 1..Len(s) /\ old(j) # k
      /\ \A i, j \in 1..Len(s) - 1 : (i < j => old(i) < old(j)) /\ (i # j => old(i) # old(j))
  BY <1>1
<1> HIDE DEF t, old
<1>3. InOrder(t, live, out)
  <2>1. InOrder(s, live, out)
    BY DEF Good
  <2>2. \A i, j \in DOMAIN t : i < j /\ t[j] \in live => t[i] > t[j] \/ t[j] \in out
    BY <1>1, <1>2, <2>1 DEF InOrder
  <2> QED
    BY <2>2 DEF InOrder
<1>4. Once(t, twice)
  <2>1. Once(s, twice)
    BY DEF Good
  <2> QED
    BY <1>1, <1>2, <2>1 DEF Once
<1>5. Alive(t, (ok \ {s[k]}) \cup twice)
  <2>1. ASSUME NEW j \in DOMAIN t PROVE t[j] \in (ok \ {s[k]}) \cup twice
    <3>1. t[j] = s[old(j)] /\ old(j) \in DOMAIN s /\ old(j) # k
      BY <1>1, <1>2
    <3>2. t[j] \in ok
      BY <3>1 DEF Good, Alive
    <3>3. t[j] = s[k] => t[j] \in twice
      BY <1>1, <3>1 DEF Good, Once
    <3> QED
      BY <3>2, <3>3
  <2> QED
    BY <2>1 DEF Alive
<1> QED
  BY <1>3, <1>4, <1>5 DEF Good, t

\* Refilled puts one of the notifications in, right above an older row or last; the
\* rows below that one are newer.
LEMMA RefilledFacts ==
  ASSUME NEW s \in Seq(Nat), NEW new \in SUBSET Nat, new # {}, \A n \in new : ~Contains(s, n)
  PROVE  \E p \in 1..Len(s) + 1, n \in new :
           /\ Inserted(Refilled(s, new), s, p, n)
           /\ p \in DOMAIN s => s[p] < n
           /\ \A j \in DOMAIN s : p < j \/ p = Len(s) + 1 => n < s[j]
<1> DEFINE newer(i) == {n \in new : s[i] < n}
           places == {i \in DOMAIN s : newer(i) # {}}
<1>1. /\ Len(s) \in Nat /\ DOMAIN s = 1..Len(s)
      /\ \A i \in DOMAIN s : s[i] \in Nat
      /\ \A n \in new : n \in Nat /\ \A i \in DOMAIN s : s[i] # n
  BY DEF Contains
<1>2. ASSUME NEW j \in DOMAIN s, j \notin places, NEW n \in new PROVE n < s[j]
  <2>1. ~ (s[j] < n)
    BY <1>2
  <2> QED
    BY <1>1, <2>1
<1>3. CASE places = {}
  <2>1. Min(new) \in new
    BY MinOfRows
  <2>2. Refilled(s, new) = Append(s, Min(new))
    BY <1>3 DEF Refilled
  <2>3. Inserted(Append(s, Min(new)), s, Len(s) + 1, Min(new))
    <3> DEFINE n == Min(new)
    <3>1. n \in Nat
      BY <2>1
    <3> HIDE DEF n
    <3>2. Append(s, n) \in Seq(Nat) /\ Len(Append(s, n)) = Len(s) + 1
      BY <3>1
    <3>3. \A j \in 1..Len(s) + 1 : Append(s, n)[j] = IF j < Len(s) + 1 THEN s[j] ELSE n
      BY <1>1, <3>1
    <3>4. Inserted(Append(s, n), s, Len(s) + 1, n)
      BY <1>1, <3>2, <3>3 DEF Inserted
    <3> QED
      BY <3>4 DEF n
  <2>4. \A j \in DOMAIN s : Min(new) < s[j]
    BY <1>2, <1>3, <2>1
  <2>5. Len(s) + 1 \in 1..Len(s) + 1 /\ Len(s) + 1 \notin DOMAIN s
    BY <1>1
  <2> QED
    BY <2>1, <2>2, <2>3, <2>4, <2>5
<1>4. CASE places # {}
  <2> DEFINE p == Max(places)
             n == Min(newer(p))
  <2>1. p \in places /\ \A i \in places : i <= p
    <3>1. places \in SUBSET (1..Len(s))
      BY <1>1
    <3> HIDE DEF places
    <3> QED
      BY <1>1, <1>4, <3>1, MaxOfRows
  <2>2. p \in 1..Len(s) /\ newer(p) # {} /\ newer(p) \in SUBSET Nat
    BY <1>1, <2>1
  <2>3. n \in newer(p)
    <3> HIDE DEF newer, p
    <3> QED
      BY <2>2, MinOfRows
  <2>4. n \in new /\ s[p] < n /\ n \in Nat
    <3> HIDE DEF p, n
    <3> QED
      BY <1>1, <2>3
  <2>5. Refilled(s, new) = InsertAt(s, p, n)
    BY <1>4 DEF Refilled
  <2> HIDE DEF p, n
  <2>6. p \in 1..Len(s) + 1
    BY <1>1, <2>2
  <2>7. Inserted(InsertAt(s, p, n), s, p, n)
    BY <2>4, <2>6, InsertAtInserts
  <2>8. \A j \in DOMAIN s : p < j \/ p = Len(s) + 1 => n < s[j]
    <3>1. \A j \in DOMAIN s : p < j => j \notin places
      <4>1. \A j \in DOMAIN s : j \in Nat /\ p \in Nat
        BY <1>1, <2>2
      <4>2. \A i \in places : i <= p
        BY <2>1
      <4> HIDE DEF places
      <4> QED
        BY <4>1, <4>2
    <3>2. p # Len(s) + 1
      BY <1>1, <2>2
    <3> QED
      BY <1>2, <2>4, <3>1, <3>2
  <2> QED
    BY <2>4, <2>5, <2>6, <2>7, <2>8
<1> QED
  BY <1>3, <1>4

\* A notification that was not listed may be put in right above an older row, if no
\* row below that one is older and it counts as out of turn where two rows are older.
LEMMA GoodInserted ==
  ASSUME NEW s \in Seq(Nat), NEW live, NEW out, NEW twice, NEW ok, Good(s, live, out, twice, ok),
         NEW r, NEW p \in 1..Len(s) + 1, NEW n \in ok, n \in Nat, ~Contains(s, n), Inserted(r, s, p, n),
         p \in DOMAIN s => s[p] < n,
         \A j \in DOMAIN s : p < j \/ p = Len(s) + 1 => n < s[j],
         (\E i, j \in DOMAIN r : i < j /\ r[i] < n /\ r[j] < n) => n \in out
  PROVE  Good(r, live, out, twice, ok)
<1> DEFINE old(j) == IF j < p THEN j ELSE j - 1
<1>1. /\ Len(s) \in Nat /\ DOMAIN s = 1..Len(s) /\ DOMAIN r = 1..Len(s) + 1 /\ p \in DOMAIN r
      /\ \A j \in DOMAIN s : s[j] \in Nat /\ s[j] # n
  BY DEF Inserted, Contains
<1>2. r[p] = n /\ \A j \in DOMAIN r : j # p => old(j) \in DOMAIN s /\ r[j] = s[old(j)]
  <2>1. \A j \in DOMAIN r : r[j] = IF j < p THEN s[j] ELSE IF j = p THEN n ELSE s[j - 1]
    BY <1>1 DEF Inserted
  <2>2. \A j \in DOMAIN r : j \in Nat /\ p \in Nat /\ (j # p => j < p \/ p < j)
    BY <1>1
  <2>3. \A j \in DOMAIN r : j # p => old(j) \in DOMAIN s
    BY <1>1
  <2>4. \A j \in DOMAIN r : j # p => r[j] = s[old(j)]
    BY <2>1, <2>2
  <2>5. r[p] = n
    BY <1>1, <2>1, <2>2
  <2> QED
    BY <2>3, <2>4, <2>5
<1>3. \A i, j \in DOMAIN r : i # p /\ j # p => (i < j => old(i) < old(j)) /\ (i # j => old(i) # old(j))
  BY <1>1
<1>4. \A j \in DOMAIN r : j # p => (p < j => p \in DOMAIN s /\ (old(j) = p \/ p < old(j)))
  BY <1>1
<1>5. p < Len(s) + 1 => p + 1 \in DOMAIN r /\ r[p + 1] = s[p] /\ p \in DOMAIN s
  <2>1. SUFFICES ASSUME p < Len(s) + 1 PROVE p + 1 \in DOMAIN r /\ r[p + 1] = s[p] /\ p \in DOMAIN s
    OBVIOUS
  <2>2. p \in DOMAIN s /\ p + 1 \in DOMAIN r /\ p + 1 # p /\ (p + 1) - 1 = p /\ ~ (p + 1 < p)
    BY <1>1, <2>1
  <2>3. old(p + 1) = p
    BY <2>2
  <2> QED
    BY <1>2, <2>2, <2>3
<1> HIDE DEF old
<1>6. InOrder(r, live, out)
  <2>1. SUFFICES ASSUME NEW i \in DOMAIN r, NEW j \in DOMAIN r, i < j, r[j] \in live
                 PROVE  r[i] > r[j] \/ r[j] \in out
    BY DEF InOrder
  <2>2. CASE i # p /\ j # p
    <3>1. old(i) \in DOMAIN s /\ old(j) \in DOMAIN s /\ old(i) < old(j)
      BY <1>2, <1>3, <2>1, <2>2
    <3>2. InOrder(s, live, out)
      BY DEF Good
    <3> QED
      BY <1>2, <2>1, <2>2, <3>1, <3>2 DEF InOrder
  \* The row above is older: so is the one below, unless all rows are newer.
  <2>3. CASE j = p
    <3>1. i # p /\ r[i] \in Nat /\ r[i] # n
      BY <1>1, <1>2, <2>1, <2>3
    <3>2. SUFFICES ASSUME r[i] < n PROVE n \in out
      BY <1>2, <2>3, <3>1
    <3>3. p # Len(s) + 1
      BY <1>1, <1>2, <3>1, <3>2
    <3>4. p + 1 \in DOMAIN r /\ r[p + 1] < n /\ i < p + 1
      BY <1>1, <1>5, <2>1, <2>3, <3>3
    <3> QED
      BY <3>2, <3>4
  \* The row below is newer: so it was out of turn with the row that n came above.
  <2>4. CASE i = p
    <3>1. j # p /\ p \in DOMAIN s /\ s[p] < n /\ r[j] \in Nat /\ r[j] # n
      BY <1>1, <1>2, <1>4, <2>1, <2>4
    <3>2. SUFFICES ASSUME n < r[j] PROVE r[j] \in out
      BY <1>2, <2>4, <3>1
    <3>3. r[j] = s[old(j)] /\ old(j) \in DOMAIN s
      BY <1>2, <3>1
    <3>4. s[p] < s[old(j)] /\ p < old(j)
      <4>1. s[p] \in Nat /\ n \in Nat /\ r[j] \in Nat
        BY <1>1, <3>1
      <4>2. s[p] < s[old(j)] /\ s[old(j)] # s[p]
        BY <3>1, <3>2, <3>3, <4>1
      <4>3. old(j) # p
        BY <4>2
      <4> QED
        BY <1>4, <2>1, <2>4, <3>1, <4>2, <4>3
    <3>5. ~ (s[p] > s[old(j)])
      BY <1>1, <3>1, <3>3, <3>4
    <3> QED
      BY <2>1, <3>1, <3>3, <3>4, <3>5 DEF Good, InOrder
  <2> QED
    BY <2>2, <2>3, <2>4
<1>7. Once(r, twice)
  <2>1. Once(s, twice)
    BY DEF Good
  <2>2. \A j \in DOMAIN r : j # p => r[j] # n
    BY <1>1, <1>2
  <2>3. ASSUME NEW i \in DOMAIN r, NEW j \in DOMAIN r, i # j, r[i] = r[j] PROVE r[i] \in twice
    <3>1. i # p /\ j # p
      BY <1>2, <2>2, <2>3
    <3>2. old(i) # old(j) /\ s[old(i)] = s[old(j)] /\ old(i) \in DOMAIN s /\ old(j) \in DOMAIN s
      BY <1>2, <1>3, <2>3, <3>1
    <3> QED
      BY <1>2, <2>1, <3>1, <3>2 DEF Once
  <2> QED
    BY <2>3 DEF Once
<1>8. Alive(r, ok)
  BY <1>2 DEF Good, Alive
<1> QED
  BY <1>6, <1>7, <1>8 DEF Good

\* What Push does to the list: the new row is on top, the last one goes if it must.
LEMMA PushFacts ==
  ASSUME NEW n \in Nat, staging \in Seq(Nat), Len(staging) <= BubbleMaxCount, Push(n)
  PROVE  /\ staging' \in Seq(Nat) /\ 1 \in DOMAIN staging' /\ staging'[1] = n
         /\ \A j \in DOMAIN staging' : j # 1 => j - 1 \in DOMAIN staging /\ staging'[j] = staging[j - 1]
         /\ Len(staging') <= BubbleMaxCount
         /\ Len(staging') = BubbleMaxCount \/ \A m : Contains(staging, m) => Contains(staging', m)
         /\ Len(staging) <= Len(staging')
<1> DEFINE t == <<n>> \o staging
           w == Min({Len(staging) + 1, BubbleMaxCount})
<1>1. Len(staging) \in Nat /\ BubbleMaxCount \in Nat /\ BubbleMaxCount > 0
  BY CenterAssumption
<1>2. /\ t \in Seq(Nat) /\ Len(t) = Len(staging) + 1
      /\ \A j \in 1..Len(staging) + 1 : t[j] = IF j = 1 THEN n ELSE staging[j - 1]
  <2>1. <<n>> \in Seq(Nat) /\ Len(<<n>>) = 1 /\ <<n>>[1] = n
    OBVIOUS
  <2>2. t \in Seq(Nat) /\ Len(t) = Len(staging) + 1
    BY <1>1, <2>1, ConcatProperties
  <2>3. \A j \in 1..Len(staging) + 1 : t[j] = IF j <= 1 THEN <<n>>[j] ELSE staging[j - 1]
    BY <1>1, <2>1, ConcatProperties
  <2> HIDE DEF t
  <2> QED
    BY <1>1, <2>1, <2>2, <2>3
<1>3. w \in 1..Len(staging) + 1 /\ w <= BubbleMaxCount /\ (w = BubbleMaxCount \/ w = Len(staging) + 1)
  <2>1. {Len(staging) + 1, BubbleMaxCount} \in SUBSET Nat /\ {Len(staging) + 1, BubbleMaxCount} # {}
    BY <1>1
  <2>2. w \in {Len(staging) + 1, BubbleMaxCount} /\ \A x \in {Len(staging) + 1, BubbleMaxCount} : w <= x
    BY <2>1, MinOfRows
  <2> HIDE DEF w
  <2> QED
    BY <1>1, <2>2
<1>4. staging' = SubSeq(t, 1, w)
  BY DEF Push
<1> HIDE DEF t, w
<1>5. staging' \in Seq(Nat) /\ Len(staging') = w /\ \A j \in 1..w : staging'[j] = t[j]
  BY <1>1, <1>2, <1>3, <1>4
<1>6. DOMAIN staging' = 1..w /\ DOMAIN staging = 1..Len(staging)
  BY <1>5
<1>7. 1 \in DOMAIN staging' /\ staging'[1] = n
  BY <1>1, <1>2, <1>3, <1>5, <1>6
<1>8. \A j \in DOMAIN staging' : j # 1 => j - 1 \in DOMAIN staging /\ staging'[j] = staging[j - 1]
  <2>1. \A j \in 1..w : j \in 1..Len(staging) + 1 /\ (j # 1 => j - 1 \in 1..Len(staging))
    BY <1>1, <1>3
  <2> QED
    BY <1>2, <1>5, <1>6, <2>1
<1>9. w = Len(staging) + 1 => \A m : Contains(staging, m) => Contains(staging', m)
  <2>1. SUFFICES ASSUME w = Len(staging) + 1, NEW i \in 1..Len(staging) PROVE Contains(staging', staging[i])
    BY DEF Contains
  <2>2. i + 1 \in 1..w /\ i + 1 # 1 /\ (i + 1) - 1 = i
    BY <1>1, <2>1
  <2>3. staging'[i + 1] = staging[i]
    BY <1>6, <1>8, <2>2
  <2> QED
    BY <1>5, <2>2, <2>3 DEF Contains
<1> QED
  BY <1>1, <1>3, <1>5, <1>7, <1>8, <1>9

-----------------------------------------------------------------------------
(* The inductive invariant.  The signals of new notifications are under    *)
(* way in the order of creation, and what was announced is older than they *)
(* are: so what push puts on top is newer than the rows below, unless one  *)
(* of these was read from memory before its own signal came.               *)

StagingTypes ==
  /\ app \in Seq(App) /\ memory \subseteq Note /\ restaged \subseteq Note
  /\ queue \in Seq([n : Nat, row : BOOLEAN, type : {"NotProcessed", "Processed"}])
  /\ staging \in Seq(Nat) /\ Len(staging) <= BubbleMaxCount
  /\ visible \in BOOLEAN

QueueInv ==
  /\ \A i \in DOMAIN queue :
       /\ queue[i].n \in Note
       /\ queue[i].type = "Processed" => queue[i].n \notin memory
       /\ queue[i].type = "NotProcessed" => queue[i].row = FALSE
  /\ \A i, j \in DOMAIN queue :
       i < j /\ queue[i].type = "NotProcessed" /\ queue[j].type = "NotProcessed"
         => queue[i].n < queue[j].n
  /\ \A m \in memory, i \in DOMAIN queue :
       queue[i].type = "NotProcessed" => Queued(m, "NotProcessed") \/ m < queue[i].n

Out == {n \in Note : OutOfTurn(n)}
Twice == restaged \ replaces
Ok == {n \in Note : n \in memory \/ Queued(n, "Processed") \/ n \in untold \/ n \in Twice}
ListInv ==
  /\ Good(staging, memory, Out, Twice, Ok)
  /\ StagingFull
  /\ ~visible => staging = <<>>

StagingInv == StagingTypes /\ QueueInv /\ ListInv

\* The properties of the list follow.
LEMMA InvGivesLive == StagingInv => StagingLive
<1> SUFFICES ASSUME StagingInv PROVE StagingLive
  OBVIOUS
<1>1. Alive(staging, Ok)
  BY DEF StagingInv, ListInv, Good
<1> QED
  BY <1>1 DEF Alive, Ok, Twice, StagingLive

LEMMA InvGivesOrder == StagingInv => StagingOrdered
<1> SUFFICES ASSUME StagingInv PROVE StagingOrdered
  OBVIOUS
<1>1. InOrder(staging, memory, Out) /\ StagingFull
  BY DEF StagingInv, ListInv, Good
<1> QED
  BY <1>1 DEF InOrder, Out, StagingOrdered, StagingSorted

-----------------------------------------------------------------------------
(* The signals.                                                            *)

LEMMA QueuedSent ==
  ASSUME StagingTypes, NEW n \in Nat, NEW row \in BOOLEAN, NEW t \in {"NotProcessed", "Processed"},
         Send(n, row, t)
  PROVE  \A m, u : Queued(m, u)' <=> Queued(m, u) \/ (m = n /\ u = t)
<1> DEFINE s == Signal(n, row, t)
<1>1. /\ queue \in Seq([n : Nat, row : BOOLEAN, type : {"NotProcessed", "Processed"}])
      /\ s \in [n : Nat, row : BOOLEAN, type : {"NotProcessed", "Processed"}]
      /\ queue' = Append(queue, s) /\ s.n = n /\ s.type = t
  BY DEF StagingTypes, Send, Signal
<1> HIDE DEF s
<1>2. /\ Len(queue) \in Nat /\ DOMAIN queue = 1..Len(queue) /\ DOMAIN queue' = 1..Len(queue) + 1
      /\ \A i \in 1..Len(queue) : queue'[i] = queue[i]
      /\ queue'[Len(queue) + 1] = s
  BY <1>1
<1>3. \A i \in 1..Len(queue) + 1 : i \in 1..Len(queue) \/ i = Len(queue) + 1
  BY <1>2
<1>4. 1..Len(queue) \subseteq 1..Len(queue) + 1 /\ Len(queue) + 1 \in 1..Len(queue) + 1
  BY <1>2
<1> TAKE m, u
<1>5. Queued(m, u)' => Queued(m, u) \/ (m = n /\ u = t)
  BY <1>1, <1>2, <1>3 DEF Queued
<1>6. Queued(m, u) \/ (m = n /\ u = t) => Queued(m, u)'
  BY <1>1, <1>2, <1>4 DEF Queued
<1> QED
  BY <1>5, <1>6

LEMMA QueuedTaken ==
  ASSUME StagingTypes, queue # <<>>, queue' = Tail(queue)
  PROVE  \A m, u : Queued(m, u) <=> Queued(m, u)' \/ (Head(queue).n = m /\ Head(queue).type = u)
<1>1. /\ Len(queue) \in Nat /\ Len(queue) > 0 /\ DOMAIN queue = 1..Len(queue) /\ Head(queue) = queue[1]
      /\ DOMAIN queue' = 1..Len(queue) - 1 /\ \A i \in 1..Len(queue) - 1 : queue'[i] = queue[i + 1]
  BY DEF StagingTypes
<1>2. \A i \in 1..Len(queue) : i = 1 \/ (i - 1 \in 1..Len(queue) - 1 /\ (i - 1) + 1 = i)
  BY <1>1
<1>3. 1 \in 1..Len(queue) /\ \A i \in 1..Len(queue) - 1 : i + 1 \in 1..Len(queue)
  BY <1>1
<1> TAKE m, u
<1>4. Queued(m, u) => Queued(m, u)' \/ (Head(queue).n = m /\ Head(queue).type = u)
  <2>1. ASSUME NEW i \in DOMAIN queue, queue[i].n = m, queue[i].type = u, i # 1 PROVE Queued(m, u)'
    <3>1. i - 1 \in DOMAIN queue' /\ queue'[i - 1] = queue[i]
      BY <1>1, <1>2, <2>1
    <3> QED
      BY <2>1, <3>1 DEF Queued
  <2> QED
    BY <1>1, <2>1 DEF Queued
<1>5. Queued(m, u)' \/ (Head(queue).n = m /\ Head(queue).type = u) => Queued(m, u)
  <2>1. ASSUME NEW i \in DOMAIN queue', queue'[i].n = m, queue'[i].type = u PROVE Queued(m, u)
    <3>1. i \in 1..Len(queue) - 1 /\ i + 1 \in DOMAIN queue /\ queue'[i] = queue[i + 1]
      BY <1>1, <1>3
    <3> QED
      BY <2>1, <3>1 DEF Queued
  <2>2. Head(queue).n = m /\ Head(queue).type = u => Queued(m, u)
    BY <1>1, <1>3 DEF Queued
  <2> QED
    BY <2>1, <2>2 DEF Queued
<1> QED
  BY <1>4, <1>5

\* A signal of a new notification, or that one is none of the live.
Announces(n, row, t) ==
  \/ /\ t = "NotProcessed" /\ row = FALSE
     /\ n = Len(app) + 1 /\ memory' \subseteq memory \cup {n}
  \/ /\ t = "Processed" /\ row \in BOOLEAN
     /\ n \notin memory' /\ memory' \subseteq memory

LEMMA QueueSent ==
  ASSUME StagingTypes, QueueInv, NEW n \in Note', NEW row \in BOOLEAN, NEW t \in {"NotProcessed", "Processed"},
         Send(n, row, t), Announces(n, row, t), Len(app') \in Nat, Len(app) <= Len(app')
  PROVE  /\ queue' \in Seq([n : Nat, row : BOOLEAN, type : {"NotProcessed", "Processed"}])
         /\ QueueInv'
<1> DEFINE s == Signal(n, row, t)
<1>0. Len(app) \in Nat /\ Note \subseteq Note' /\ n \in Nat
  BY DEF StagingTypes, Note
<1>1. /\ queue \in Seq([n : Nat, row : BOOLEAN, type : {"NotProcessed", "Processed"}])
      /\ s \in [n : Nat, row : BOOLEAN, type : {"NotProcessed", "Processed"}]
      /\ queue' = Append(queue, s) /\ s.n = n /\ s.type = t /\ s.row = row
  BY <1>0 DEF StagingTypes, Send, Signal
<1> HIDE DEF s
<1>2. /\ Len(queue) \in Nat /\ DOMAIN queue = 1..Len(queue) /\ DOMAIN queue' = 1..Len(queue) + 1
      /\ \A i \in 1..Len(queue) : queue'[i] = queue[i]
      /\ queue'[Len(queue) + 1] = s
  BY <1>1
<1>3. /\ \A i \in 1..Len(queue) + 1 : i \in 1..Len(queue) \/ i = Len(queue) + 1
      /\ \A i \in 1..Len(queue) : i < Len(queue) + 1 /\ ~ (Len(queue) + 1 < i)
      /\ ~ (Len(queue) + 1 < Len(queue) + 1)
  BY <1>2
<1>4. /\ \A i \in 1..Len(queue) : queue[i].n \in Note /\ queue[i].n \in Nat /\ queue[i].n < Len(app) + 1
      /\ \A m \in memory : m \in Nat /\ m < Len(app) + 1
  <2>1. \A m \in Note : m \in Nat /\ m < Len(app) + 1
    BY <1>0 DEF Note
  <2>2. memory \subseteq Note
    BY DEF StagingTypes
  <2>3. \A i \in 1..Len(queue) : queue[i].n \in Note
    BY <1>2 DEF QueueInv
  <2> QED
    BY <2>1, <2>2, <2>3
<1>5. \A m \in memory' : m \in memory \/ (t = "NotProcessed" /\ m = n)
  BY DEF Announces
<1>6. \A i \in DOMAIN queue' :
        /\ queue'[i].n \in Note'
        /\ queue'[i].type = "Processed" => queue'[i].n \notin memory'
        /\ queue'[i].type = "NotProcessed" => queue'[i].row = FALSE
  <2>1. \A i \in 1..Len(queue) :
          /\ queue'[i].n \in Note'
          /\ queue'[i].type = "Processed" => queue'[i].n \notin memory'
          /\ queue'[i].type = "NotProcessed" => queue'[i].row = FALSE
    <3>1. \A i \in 1..Len(queue) : t = "NotProcessed" => queue[i].n # n
      BY <1>0, <1>4 DEF Announces
    <3> QED
      BY <1>0, <1>2, <1>5, <3>1 DEF QueueInv
  <2>2. /\ s.n \in Note'
        /\ s.type = "Processed" => s.n \notin memory'
        /\ s.type = "NotProcessed" => s.row = FALSE
    BY <1>1 DEF Announces
  <2> QED
    BY <1>2, <1>3, <2>1, <2>2
<1>7. \A i, j \in DOMAIN queue' :
        i < j /\ queue'[i].type = "NotProcessed" /\ queue'[j].type = "NotProcessed"
          => queue'[i].n < queue'[j].n
  <2>1. SUFFICES ASSUME NEW i \in DOMAIN queue', NEW j \in DOMAIN queue', i < j,
                        queue'[i].type = "NotProcessed", queue'[j].type = "NotProcessed"
                 PROVE  queue'[i].n < queue'[j].n
    OBVIOUS
  <2>2. i \in 1..Len(queue)
    BY <1>2, <1>3, <2>1
  <2>3. CASE j \in 1..Len(queue)
    BY <1>2, <2>1, <2>2, <2>3 DEF QueueInv
  <2>4. CASE j = Len(queue) + 1
    <3>1. queue'[j].n = Len(app) + 1
      BY <1>1, <1>2, <2>1, <2>4 DEF Announces
    <3> QED
      BY <1>2, <1>4, <2>2, <3>1
  <2> QED
    BY <1>2, <1>3, <2>3, <2>4
<1>8. \A m \in memory', i \in DOMAIN queue' :
        queue'[i].type = "NotProcessed" => Queued(m, "NotProcessed")' \/ m < queue'[i].n
  <2>1. SUFFICES ASSUME NEW m \in memory', NEW i \in DOMAIN queue', queue'[i].type = "NotProcessed",
                        ~ Queued(m, "NotProcessed")'
                 PROVE  m < queue'[i].n
    OBVIOUS
  <2>2. m \in memory /\ ~ Queued(m, "NotProcessed")
    BY <1>0, <1>5, <2>1, QueuedSent
  <2>3. CASE i \in 1..Len(queue)
    BY <1>2, <2>1, <2>2, <2>3 DEF QueueInv
  <2>4. CASE i = Len(queue) + 1
    <3>1. queue'[i].n = Len(app) + 1
      BY <1>1, <1>2, <2>1, <2>4 DEF Announces
    <3> QED
      BY <1>4, <2>2, <3>1
  <2> QED
    BY <1>2, <1>3, <2>3, <2>4
<1>9. QueueInv'
  BY <1>6, <1>7, <1>8 DEF QueueInv
<1> QED
  BY <1>1, <1>9

LEMMA QueueTaken ==
  ASSUME StagingTypes, QueueInv, queue # <<>>, queue' = Tail(queue), app' = app, memory' = memory
  PROVE  /\ queue' \in Seq([n : Nat, row : BOOLEAN, type : {"NotProcessed", "Processed"}])
         /\ QueueInv'
<1>0. queue' \in Seq([n : Nat, row : BOOLEAN, type : {"NotProcessed", "Processed"}])
  BY DEF StagingTypes
<1>1. /\ Len(queue) \in Nat /\ Len(queue) > 0 /\ DOMAIN queue = 1..Len(queue) /\ Head(queue) = queue[1]
      /\ DOMAIN queue' = 1..Len(queue) - 1 /\ \A i \in 1..Len(queue) - 1 : queue'[i] = queue[i + 1]
  BY DEF StagingTypes
<1>2. /\ \A i \in 1..Len(queue) - 1 : i + 1 \in 1..Len(queue) /\ 1 < i + 1
      /\ \A i, j \in 1..Len(queue) - 1 : i < j => i + 1 < j + 1
      /\ 1 \in 1..Len(queue) /\ Note' = Note
  BY <1>1 DEF Note
<1>3. \A i \in DOMAIN queue' :
        /\ queue'[i].n \in Note'
        /\ queue'[i].type = "Processed" => queue'[i].n \notin memory'
        /\ queue'[i].type = "NotProcessed" => queue'[i].row = FALSE
  BY <1>1, <1>2 DEF QueueInv
<1>4. \A i, j \in DOMAIN queue' :
        i < j /\ queue'[i].type = "NotProcessed" /\ queue'[j].type = "NotProcessed"
          => queue'[i].n < queue'[j].n
  BY <1>1, <1>2 DEF QueueInv
<1>5. \A m \in memory', i \in DOMAIN queue' :
        queue'[i].type = "NotProcessed" => Queued(m, "NotProcessed")' \/ m < queue'[i].n
  <2>1. SUFFICES ASSUME NEW m \in memory, NEW i \in DOMAIN queue', queue'[i].type = "NotProcessed",
                        ~ Queued(m, "NotProcessed")'
                 PROVE  m < queue'[i].n
    OBVIOUS
  <2>2. CASE Queued(m, "NotProcessed")
    <3>1. queue[1].n = m /\ queue[1].type = "NotProcessed"
      BY <1>1, <2>1, <2>2, QueuedTaken
    <3> QED
      BY <1>1, <1>2, <2>1, <3>1 DEF QueueInv
  <2>3. CASE ~ Queued(m, "NotProcessed")
    BY <1>1, <1>2, <2>1, <2>3 DEF QueueInv
  <2> QED
    BY <2>2, <2>3
<1>6. QueueInv'
  BY <1>3, <1>4, <1>5 DEF QueueInv
<1> QED
  BY <1>0, <1>6

LEMMA QueueKept ==
  ASSUME StagingTypes, QueueInv, UNCHANGED <<app, queue>>, memory' \subseteq memory
  PROVE  QueueInv'
<1>1. Note' = Note /\ \A m, u : Queued(m, u)' <=> Queued(m, u)
  BY DEF Note, Queued
<1> QED
  BY <1>1 DEF QueueInv

-----------------------------------------------------------------------------
(* The list.                                                               *)

\* A step that leaves the list: what is new is announced, what goes is on its way out
\* or untold, and what is announced is listed already or gone.
LEMMA ListKept ==
  ASSUME ListInv, UNCHANGED <<staging, visible, astray>>, Note \subseteq Note',
         \A m \in Note :
           /\ m \in memory' => m \in memory
           /\ m \in memory => m \in memory' \/ Queued(m, "Processed")' \/ m \in untold'
           /\ Queued(m, "Processed") => Queued(m, "Processed")'
           /\ m \in memory' /\ Queued(m, "NotProcessed")
                => Queued(m, "NotProcessed")' \/ (m \in restaged' /\ Contains(staging, m))
           /\ m \in replaces' => m \in replaces,
         \A m \in memory' : m \in Note \/ Queued(m, "NotProcessed")',
         untold \subseteq untold', restaged \subseteq restaged'
  PROVE  ListInv'
<1>1. Good(staging, memory, Out, Twice, Ok) /\ Alive(staging, Ok)
  BY DEF ListInv, Good
<1>2. ASSUME NEW i \in DOMAIN staging
      PROVE  /\ staging[i] \in memory' => staging[i] \in memory /\ (staging[i] \in Out => staging[i] \in Out')
             /\ staging[i] \in Twice => staging[i] \in Twice'
             /\ staging[i] \in Ok => staging[i] \in Ok'
  <2> DEFINE m == staging[i]
  <2>1. m \in Note /\ m \in Note'
    BY <1>1 DEF Alive, Ok
  <2> HIDE DEF m
  <2>2. m \in memory' => m \in memory /\ (m \in Out => m \in Out')
    BY <2>1 DEF Out, OutOfTurn
  <2>3. m \in Twice => m \in Twice'
    BY <2>1 DEF Twice
  <2>4. m \in Ok => m \in Ok'
    BY <2>1, <2>3 DEF Ok
  <2> QED
    BY <2>2, <2>3, <2>4 DEF m
<1>3. Good(staging, memory', Out', Twice', Ok')
  BY <1>1, <1>2, GoodStays
<1>4. StagingFull'
  <2>1. SUFFICES ASSUME visible, NEW m \in memory'
                 PROVE  \/ Queued(m, "NotProcessed")' \/ Contains(staging, m)
                        \/ Len(staging) = BubbleMaxCount
    BY DEF StagingFull
  <2>2. CASE m \in Note
    BY <2>1, <2>2 DEF ListInv, StagingFull
  <2> QED
    BY <2>2
<1> QED
  BY <1>3, <1>4 DEF ListInv

\* Without row k, all else is still listed; with another row, too.
LEMMA RowsStayListed ==
  ASSUME NEW s \in Seq(Nat), NEW k \in DOMAIN s
  PROVE  \A m : m # s[k] => (Contains(s, m) <=> Contains(RemoveAt(s, k), m))
<1> DEFINE t == RemoveAt(s, k)
<1>1. t \in Seq(Nat) /\ Len(t) = Len(s) - 1
  BY RemoveAtFacts
<1>2. \A j \in 1..Len(s) - 1 : t[j] = s[IF j < k THEN j ELSE j + 1]
  BY RemoveAtFacts
<1>3. Len(s) \in Nat /\ k \in 1..Len(s)
  OBVIOUS
<1> HIDE DEF t
<1> SUFFICES ASSUME NEW m, m # s[k] PROVE Contains(s, m) <=> Contains(t, m)
  BY DEF t
<1>4. ASSUME NEW j \in 1..Len(s), s[j] = m PROVE Contains(t, m)
  <2>1. CASE j < k
    <3>1. j \in 1..Len(s) - 1 /\ t[j] = s[j]
      BY <1>2, <1>3, <2>1
    <3> QED
      BY <1>1, <1>4, <3>1 DEF Contains
  <2>2. CASE k < j
    <3>1. j - 1 \in 1..Len(s) - 1 /\ ~ (j - 1 < k) /\ (j - 1) + 1 = j
      BY <1>3, <2>2
    <3>2. t[j - 1] = s[j]
      BY <1>2, <3>1
    <3> QED
      BY <1>1, <1>4, <3>1, <3>2 DEF Contains
  <2> QED
    BY <1>3, <1>4, <2>1, <2>2
<1>5. ASSUME NEW j \in 1..Len(t), t[j] = m PROVE Contains(s, m)
  <2>1. (IF j < k THEN j ELSE j + 1) \in 1..Len(s)
    BY <1>1, <1>3
  <2> QED
    BY <1>1, <1>2, <1>5, <2>1 DEF Contains
<1> QED
  BY <1>4, <1>5 DEF Contains

LEMMA InsertedListed ==
  ASSUME NEW s \in Seq(Nat), NEW r, NEW p, NEW n, Inserted(r, s, p, n)
  PROVE  Contains(r, n) /\ \A m : Contains(s, m) => Contains(r, m)
<1>1. /\ Len(s) \in Nat /\ p \in 1..Len(s) + 1 /\ Len(r) = Len(s) + 1
      /\ \A j \in 1..Len(s) + 1 : r[j] = IF j < p THEN s[j] ELSE IF j = p THEN n ELSE s[j - 1]
  BY DEF Inserted
<1>2. r[p] = n
  BY <1>1
<1>3. ASSUME NEW j \in 1..Len(s) PROVE Contains(r, s[j])
  <2>1. CASE j < p
    <3>1. j \in 1..Len(s) + 1 /\ r[j] = s[j]
      BY <1>1, <2>1
    <3> QED
      BY <1>1, <3>1 DEF Contains
  <2>2. CASE ~ (j < p)
    <3>1. j + 1 \in 1..Len(s) + 1 /\ ~ (j + 1 < p) /\ j + 1 # p /\ (j + 1) - 1 = j
      BY <1>1, <2>2
    <3>2. r[j + 1] = s[j]
      BY <1>1, <3>1
    <3> QED
      BY <1>1, <3>1, <3>2 DEF Contains
  <2> QED
    BY <2>1, <2>2
<1> QED
  BY <1>1, <1>2, <1>3 DEF Contains

\* remove of a notification that is not live any more, and nothing else.
LEMMA RemovalKeeps ==
  ASSUME StagingTypes, ListInv, NEW x, StagingRemoved(x), astray' = astray \cup Misplaced,
         x \notin memory', memory' \subseteq memory, \A m \in memory : m = x \/ m \in memory',
         UNCHANGED <<app, visible, restaged, replaces>>,
         \A m : Queued(m, "NotProcessed")' <=> Queued(m, "NotProcessed"),
         \A m : m # x /\ Queued(m, "Processed") => Queued(m, "Processed")',
         untold \subseteq untold'
  PROVE  ListInv' /\ staging' \in Seq(Nat) /\ Len(staging') <= BubbleMaxCount
<1>1. /\ Good(staging, memory, Out, Twice, Ok) /\ Alive(staging, Ok) /\ StagingFull
      /\ ~visible => staging = <<>>
  BY DEF ListInv, Good
<1>2. /\ staging \in Seq(Nat) /\ Len(staging) \in Nat /\ Len(staging) <= BubbleMaxCount
      /\ BubbleMaxCount \in Nat /\ Len(app) \in Nat
      /\ memory \subseteq Note /\ restaged \subseteq Note /\ Note' = Note /\ Twice' = Twice
      /\ Note \subseteq Nat
  BY CenterAssumption DEF StagingTypes, Note, Twice
\* What is listed for good reason, except x, still is.
<1>3. ASSUME NEW m \in Note, m # x
      PROVE  /\ m \in memory' => m \in memory /\ (m \in Out => m \in Out')
             /\ m \in Ok => m \in Ok'
  <2>1. m \in Out => m \in Out'
    BY <1>2 DEF Out, OutOfTurn
  <2>2. m \in Ok => m \in Ok'
    BY <1>2, <1>3 DEF Ok
  <2> QED
    BY <2>1, <2>2
<1>4. Twice \subseteq Ok' /\ Ok \subseteq Note
  BY <1>2 DEF Ok, Twice
<1>5. CASE ~ Contains(staging, x)
  <2>1. staging' = staging
    BY <1>5 DEF StagingRemoved
  <2>2. \A i \in DOMAIN staging : staging[i] \in Note /\ staging[i] # x
    BY <1>1, <1>4, <1>5 DEF Alive, Contains
  <2>3. \A i \in DOMAIN staging :
          /\ staging[i] \in memory' => staging[i] \in memory /\ (staging[i] \in Out => staging[i] \in Out')
          /\ staging[i] \in Twice => staging[i] \in Twice'
          /\ staging[i] \in Ok => staging[i] \in Ok'
    BY <1>2, <1>3, <2>2
  <2>4. Good(staging, memory', Out', Twice', Ok')
    BY <1>1, <2>3, GoodStays
  <2>5. StagingFull'
    BY <1>1, <2>1 DEF StagingFull
  <2>6. ~visible' => staging' = <<>>
    BY <1>1, <2>1
  <2> QED
    BY <1>2, <2>1, <2>4, <2>5, <2>6 DEF ListInv
<1>6. CASE Contains(staging, x)
  <2>1. PICK k \in DOMAIN staging : staging[k] = x /\ RemoveFirst(staging, x) = RemoveAt(staging, k)
    BY <1>2, <1>6, RemoveFirstFacts
  <2> DEFINE s == RemoveAt(staging, k)
             new == {m \in Fetched(memory') : ~Contains(s, m)}
  <2>2. staging' = Refilled(s, new)
    BY <1>6, <2>1 DEF StagingRemoved
  <2>3. s \in Seq(Nat) /\ Len(s) = Len(staging) - 1 /\ Len(s) \in Nat
    BY <1>2, RemoveAtFacts
  <2>4. \A m : m # x => (Contains(staging, m) <=> Contains(s, m))
    BY <1>2, <2>1, RowsStayListed
  <2>5. Good(s, memory, Out, Twice, (Ok \ {x}) \cup Twice)
    BY <1>1, <1>2, <2>1, GoodRemoved
  <2>6. new \subseteq memory' /\ memory' \subseteq 1..Len(app)
    BY <1>2 DEF Fetched, Note
  <2>7. visible
    BY <1>1, <1>6 DEF Contains
  <2>8. Len(s) < BubbleMaxCount
    BY <1>2, <2>3
  <2> HIDE DEF s
  <2>9. Good(s, memory', Out', Twice', Ok')
    <3>1. \A i \in DOMAIN s : s[i] \in (Ok \ {x}) \cup Twice
      BY <2>5 DEF Good, Alive
    <3>2. ASSUME NEW i \in DOMAIN s
          PROVE  /\ s[i] \in memory' => s[i] \in memory /\ (s[i] \in Out => s[i] \in Out')
                 /\ s[i] \in Twice => s[i] \in Twice'
                 /\ s[i] \in (Ok \ {x}) \cup Twice => s[i] \in Ok'
      <4>1. s[i] \in Note
        BY <1>2, <1>4, <3>1 DEF Twice
      <4>2. s[i] \in memory' => s[i] # x
        OBVIOUS
      <4> QED
        BY <1>2, <1>3, <1>4, <4>1, <4>2
    <3> QED
      BY <2>5, <3>2, GoodStays
  <2>10. CASE new = {}
    <3>1. staging' = s
      BY <2>2, <2>10 DEF Refilled
    <3>2. \A m \in Fetched(memory') : Contains(s, m)
      BY <2>10
    <3>3. \A m \in memory' : Contains(s, m)
      <4>1. memory' \in SUBSET (1..Len(app))
        BY <2>6
      <4> HIDE DEF new
      <4> QED
        BY <1>2, <2>3, <2>8, <3>2, <4>1, FetchedIsAll
    <3>4. StagingFull'
      BY <3>1, <3>3 DEF StagingFull
    <3> QED
      BY <1>2, <2>3, <2>7, <2>8, <2>9, <3>1, <3>4 DEF ListInv
  <2>11. CASE new # {}
    <3>1. new \in SUBSET Nat /\ \A m \in new : ~Contains(s, m)
      BY <1>2, <2>6
    <3> HIDE DEF new
    <3>2. PICK p \in 1..Len(s) + 1, n \in new :
            /\ Inserted(Refilled(s, new), s, p, n)
            /\ p \in DOMAIN s => s[p] < n
            /\ \A j \in DOMAIN s : p < j \/ p = Len(s) + 1 => n < s[j]
      BY <2>3, <2>11, <3>1, RefilledFacts
    <3>3. Inserted(staging', s, p, n)
      BY <2>2, <3>2
    <3>4. /\ staging' \in Seq(Nat) /\ Len(staging') = Len(staging)
          /\ Contains(staging', n) /\ \A m : Contains(s, m) => Contains(staging', m)
      <4>1. Contains(staging', n) /\ \A m : Contains(s, m) => Contains(staging', m)
        BY <2>3, <3>3, InsertedListed
      <4>2. staging' \in Seq(Nat) /\ Len(staging') = Len(s) + 1
        BY <3>3 DEF Inserted
      <4> QED
        BY <1>2, <2>3, <4>1, <4>2
    <3>5. n \in memory' /\ n \in memory /\ n # x /\ n \in Note /\ n \in Nat /\ ~Contains(s, n) /\ n \in Ok'
      <4>1. n \in memory' /\ n \in memory /\ n # x /\ n \in Note /\ n \in Nat /\ ~Contains(s, n)
        BY <1>2, <2>6, <3>1
      <4> QED
        BY <1>2, <4>1 DEF Ok
    <3>6. (\E i, j \in DOMAIN staging' : i < j /\ staging'[i] < n /\ staging'[j] < n) => n \in Out'
      <4>1. SUFFICES ASSUME \E i, j \in DOMAIN staging' : i < j /\ staging'[i] < n /\ staging'[j] < n
                     PROVE  n \in Out'
        OBVIOUS
      <4>2. ~Contains(staging, n)
        BY <2>4, <3>5
      <4>3. n \in astray'
        BY <3>4, <3>5, <4>1, <4>2 DEF Misplaced
      <4> QED
        BY <1>2, <3>5, <4>3 DEF Out, OutOfTurn
    <3>7. Good(staging', memory', Out', Twice', Ok')
      BY <2>3, <2>9, <3>2, <3>3, <3>5, <3>6, GoodInserted
    <3>8. StagingFull'
      <4>1. SUFFICES ASSUME NEW m \in memory'
                     PROVE  \/ Queued(m, "NotProcessed")' \/ Contains(staging', m)
                            \/ Len(staging') = BubbleMaxCount
        BY DEF StagingFull
      <4>2. m \in memory /\ m # x
        BY <4>1
      <4>3. Queued(m, "NotProcessed") \/ Contains(staging, m) \/ Len(staging) = BubbleMaxCount
        BY <1>1, <2>7, <4>2 DEF StagingFull
      <4> QED
        BY <2>4, <3>4, <4>2, <4>3
    <3> QED
      BY <1>2, <2>7, <3>4, <3>7, <3>8 DEF ListInv
  <2> QED
    BY <2>10, <2>11
<1> QED
  BY <1>5, <1>6

\* The signal of live notification n, of which push makes a row.
LEMMA PushKeeps ==
  ASSUME StagingTypes, QueueInv, ListInv, queue # <<>>, queue' = Tail(queue),
         NEW n \in memory, Head(queue).n = n, Head(queue).type = "NotProcessed",
         UNCHANGED <<app, memory, visible, replaces, untold, astray>>, visible,
         Push(n), n \in replaces => ~Contains(staging, n),
         restaged' = IF Contains(staging, n) THEN restaged \cup {n} ELSE restaged
  PROVE  ListInv' /\ staging' \in Seq(Nat) /\ Len(staging') <= BubbleMaxCount
<1>1. /\ staging \in Seq(Nat) /\ Len(staging) <= BubbleMaxCount
      /\ Note' = Note /\ memory \subseteq Note /\ Note \subseteq Nat /\ n \in Note /\ n \in Nat
  BY DEF StagingTypes, Note
<1>2. InOrder(staging, memory, Out) /\ Once(staging, Twice) /\ Alive(staging, Ok) /\ StagingFull
  BY DEF ListInv, Good
<1>3. /\ staging' \in Seq(Nat) /\ 1 \in DOMAIN staging' /\ staging'[1] = n
      /\ \A j \in DOMAIN staging' : j # 1 => j - 1 \in DOMAIN staging /\ staging'[j] = staging[j - 1]
      /\ Len(staging') <= BubbleMaxCount
      /\ Len(staging') = BubbleMaxCount \/ \A m : Contains(staging, m) => Contains(staging', m)
      /\ Len(staging) <= Len(staging')
  BY <1>1, PushFacts
<1>4. \A m, u : Queued(m, u) <=> Queued(m, u)' \/ (n = m /\ u = "NotProcessed")
  BY QueuedTaken
<1>5. \A m \in memory : Queued(m, "NotProcessed") \/ m < n
  <2>1. 1 \in DOMAIN queue /\ queue[1] = Head(queue)
    BY DEF StagingTypes
  <2> QED
    BY <2>1 DEF QueueInv
<1>6. ASSUME NEW m \in Note
      PROVE  /\ m \in Ok => m \in Ok'
             /\ m \in Out => m = n \/ m \in Out'
             /\ m = n /\ Contains(staging, n) => m \in Out' /\ m \in Twice'
             /\ m \in Twice => m \in Twice'
  <2>1. m \in Twice => m \in Twice'
    BY DEF Twice
  <2>2. m \in Ok => m \in Ok'
    BY <1>1, <1>4, <2>1 DEF Ok
  <2>3. m \in Out => m = n \/ m \in Out'
    BY <1>1, <1>4 DEF Out, OutOfTurn
  <2>4. m = n /\ Contains(staging, n) => m \in Out' /\ m \in Twice'
    BY <1>1 DEF Out, OutOfTurn, Twice
  <2> QED
    BY <2>1, <2>2, <2>3, <2>4
<1>7. \A i \in DOMAIN staging : staging[i] \in Note /\ staging[i] \in Ok /\ Contains(staging, staging[i])
  <2>1. DOMAIN staging = 1..Len(staging)
    BY <1>1
  <2> QED
    BY <1>2, <2>1 DEF Alive, Ok, Contains
<1>8. \A j \in DOMAIN staging' : j \in Nat
  BY <1>3
<1>9. InOrder(staging', memory', Out')
  <2>1. SUFFICES ASSUME NEW i \in DOMAIN staging', NEW j \in DOMAIN staging', i < j, staging'[j] \in memory
                 PROVE  staging'[i] > staging'[j] \/ staging'[j] \in Out'
    BY DEF InOrder
  <2> DEFINE m == staging'[j]
  <2>2. j # 1 /\ j - 1 \in DOMAIN staging /\ m = staging[j - 1]
    <3>1. j # 1
      <4>1. i >= 1
        BY <1>3
      <4> QED
        BY <1>8, <2>1, <4>1
    <3> QED
      BY <1>3, <3>1
  <2>3. m \in Note /\ Contains(staging, m) /\ m \in memory
    BY <1>7, <2>1, <2>2
  <2>4. CASE i = 1
    <3>1. CASE m = n
      BY <1>6, <2>3, <3>1
    <3>2. CASE m # n /\ Queued(m, "NotProcessed")
      BY <1>1, <1>4, <2>3, <3>2 DEF Out, OutOfTurn
    <3>3. CASE ~ Queued(m, "NotProcessed")
      <4>1. m < n /\ m \in Nat
        BY <1>1, <1>5, <2>3, <3>3
      <4> HIDE DEF m
      <4>2. n > m
        BY <1>1, <4>1
      <4> QED
        BY <1>3, <2>4, <4>2 DEF m
    <3> QED
      BY <3>1, <3>2, <3>3
  <2>5. CASE i # 1
    <3>1. i - 1 \in DOMAIN staging /\ staging'[i] = staging[i - 1] /\ i - 1 < j - 1
      BY <1>3, <1>8, <2>1, <2>5
    <3>2. staging[i - 1] > m \/ m \in Out
      BY <1>2, <2>2, <2>3, <3>1 DEF InOrder
    <3> QED
      BY <1>6, <2>3, <3>1, <3>2
  <2> QED
    BY <2>4, <2>5
<1>10. Once(staging', Twice')
  <2>1. SUFFICES ASSUME NEW i \in DOMAIN staging', NEW j \in DOMAIN staging', i # j, staging'[i] = staging'[j]
                 PROVE  staging'[i] \in Twice'
    BY DEF Once
  <2>2. CASE i = 1
    <3>1. staging'[j] = n /\ Contains(staging, n)
      BY <1>3, <1>7, <2>1, <2>2
    <3> QED
      BY <1>1, <1>6, <2>1, <3>1
  <2>3. CASE j = 1
    <3>1. staging'[i] = n /\ Contains(staging, n)
      BY <1>3, <1>7, <2>1, <2>3
    <3> QED
      BY <1>1, <1>6, <3>1
  <2>4. CASE i # 1 /\ j # 1
    <3>1. /\ i - 1 \in DOMAIN staging /\ staging'[i] = staging[i - 1]
          /\ j - 1 \in DOMAIN staging /\ staging'[j] = staging[j - 1]
          /\ i - 1 # j - 1
      <4>1. i \in Nat /\ j \in Nat
        BY <1>8
      <4>2. i - 1 # j - 1
        BY <2>1, <4>1
      <4> QED
        BY <1>3, <2>4, <4>2
    <3>2. staging[i - 1] \in Twice
      BY <1>2, <2>1, <3>1 DEF Once
    <3> QED
      BY <1>6, <1>7, <3>1, <3>2
  <2> QED
    BY <2>2, <2>3, <2>4
<1>11. Alive(staging', Ok')
  <2>1. n \in Ok'
    BY <1>1 DEF Ok
  <2>2. \A j \in DOMAIN staging' : staging'[j] \in Ok'
    BY <1>3, <1>6, <1>7, <2>1
  <2> QED
    BY <2>2 DEF Alive
<1>12. StagingFull'
  <2>1. SUFFICES ASSUME NEW m \in memory
                 PROVE  \/ Queued(m, "NotProcessed")' \/ Contains(staging', m)
                        \/ Len(staging') = BubbleMaxCount
    BY DEF StagingFull
  <2>2. CASE m = n
    <3>1. 1 \in 1..Len(staging')
      BY <1>3
    <3> QED
      BY <1>3, <2>2, <3>1 DEF Contains
  <2>3. CASE m # n
    <3>1. Queued(m, "NotProcessed")' \/ Contains(staging, m) \/ Len(staging) = BubbleMaxCount
      BY <1>2, <1>4, <2>3 DEF StagingFull
    <3>2. Len(staging) = BubbleMaxCount => Len(staging') = BubbleMaxCount
      BY <1>1, <1>3, CenterAssumption
    <3> QED
      BY <1>3, <3>1, <3>2
  <2> QED
    BY <2>2, <2>3
<1>13. Good(staging', memory', Out', Twice', Ok')
  BY <1>9, <1>10, <1>11 DEF Good
<1> QED
  BY <1>3, <1>12, <1>13 DEF ListInv

-----------------------------------------------------------------------------
(* The steps.                                                              *)

LEMMA StagingInit == Init => StagingInv
<1> SUFFICES ASSUME Init PROVE StagingInv
  OBVIOUS
<1>1. StagingTypes
  <2>1. app = <<>> /\ memory = {} /\ restaged = {} /\ queue = <<>> /\ staging = <<>> /\ visible = FALSE
    BY DEF Init
  <2>2. staging \in Seq(Nat) /\ Len(staging) <= BubbleMaxCount
    <3>1. Len(<<>>) = 0 /\ 0 <= BubbleMaxCount /\ <<>> \in Seq(Nat)
      BY CenterAssumption
    <3> QED
      BY <2>1, <3>1
  <2>3. app \in Seq(App)
    BY <2>1
  <2>4. queue \in Seq([n : Nat, row : BOOLEAN, type : {"NotProcessed", "Processed"}])
    BY <2>1
  <2>5. memory \subseteq Note /\ restaged \subseteq Note /\ visible \in BOOLEAN
    BY <2>1
  <2> QED
    BY <2>2, <2>3, <2>4, <2>5 DEF StagingTypes
<1>2. QueueInv
  BY DEF Init, QueueInv
<1>3. ListInv
  <2>1. staging = <<>> /\ DOMAIN staging = {} /\ visible = FALSE
    BY DEF Init
  <2> QED
    BY <2>1 DEF ListInv, Good, InOrder, Once, Alive, StagingFull
<1> QED
  BY <1>1, <1>2, <1>3 DEF StagingInv

\* What the user does with the records changes nothing that matters here.
listVars == <<app, memory, queue, staging, visible, replaces, untold, restaged, astray>>

LEMMA RecordSteps ==
  ASSUME \/ \E r \in DOMAIN rows : Fold(r) \/ Unfold(r) \/ DropApp(r) \/ RemoveNotify(r)
         \/ ClearAll \/ FoldAll \/ \E a \in App : PinApplication(a)
         \/ UNCHANGED allVars
  PROVE  UNCHANGED listVars
<1>1. ASSUME NEW r \in DOMAIN rows, Fold(r) PROVE UNCHANGED listVars
  BY <1>1 DEF Fold, OnRows, ExpandApp, storeVars, listVars
<1>2. ASSUME NEW r \in DOMAIN rows, Unfold(r) PROVE UNCHANGED listVars
  BY <1>2 DEF Unfold, OnRows, CollapseApp, storeVars, listVars
<1>3. ASSUME NEW r \in DOMAIN rows, DropApp(r) PROVE UNCHANGED listVars
  BY <1>3 DEF DropApp, OnRows, RemoveByApp, listVars
<1>4. ASSUME NEW r \in DOMAIN rows, RemoveNotify(r) PROVE UNCHANGED listVars
  BY <1>4 DEF RemoveNotify, OnRows, listVars
<1>5. CASE ClearAll
  BY <1>5 DEF ClearAll, OnRows, Clear, listVars
<1>6. CASE FoldAll
  BY <1>6 DEF FoldAll, OnRows, CollapseAllApp, storeVars, listVars
<1>7. ASSUME NEW a \in App, PinApplication(a) PROVE UNCHANGED listVars
  BY <1>7 DEF PinApplication, OnRows, listVars
<1>8. CASE UNCHANGED allVars
  BY <1>8 DEF allVars, storeVars, centerVars, ghosts, listVars
<1> QED
  BY <1>1, <1>2, <1>3, <1>4, <1>5, <1>6, <1>7, <1>8

LEMMA RecordStepsKeep == ASSUME StagingInv, UNCHANGED listVars PROVE StagingInv'
<1>1. UNCHANGED <<app, memory, queue, staging, visible, replaces, untold, restaged, astray>>
  BY DEF listVars
<1>2. Note' = Note /\ \A m, u : Queued(m, u)' <=> Queued(m, u)
  BY <1>1 DEF Note, Queued
<1>3. StagingTypes'
  BY <1>1, <1>2 DEF StagingInv, StagingTypes
<1>4. QueueInv'
  BY <1>1, QueueKept DEF StagingInv
<1>5. ListInv'
  <2>1. memory \subseteq Note
    BY DEF StagingInv, StagingTypes
  <2> QED
    BY <1>1, <1>2, <2>1, ListKept DEF StagingInv
<1> QED
  BY <1>3, <1>4, <1>5 DEF StagingInv

\* A step of the server that sends a signal.
LEMMA ServerKeeps ==
  ASSUME StagingInv, NEW n \in Note', NEW row \in BOOLEAN, NEW t \in {"NotProcessed", "Processed"},
         Send(n, row, t), Announces(n, row, t),
         app' \in Seq(App), Len(app) <= Len(app'), memory' \subseteq Note',
         UNCHANGED <<staging, visible, restaged, astray>>,
         untold \subseteq untold', \A m \in Note : m \in replaces' => m \in replaces,
         \A m \in memory : m \in memory' \/ m \in untold' \/ (m = n /\ t = "Processed")
  PROVE  StagingInv'
<1>1. /\ StagingTypes /\ QueueInv /\ ListInv
      /\ Len(app) \in Nat /\ Len(app') \in Nat /\ Note \subseteq Note' /\ n \in Nat
      /\ Len(app) + 1 \notin Note /\ memory \subseteq Note /\ restaged \subseteq Note
  BY DEF StagingInv, StagingTypes, Note
<1>2. \A m, u : Queued(m, u)' <=> Queued(m, u) \/ (m = n /\ u = t)
  BY <1>1, QueuedSent
<1>3. /\ queue' \in Seq([n : Nat, row : BOOLEAN, type : {"NotProcessed", "Processed"}])
      /\ QueueInv'
  BY <1>1, QueueSent
<1>4. StagingTypes'
  BY <1>1, <1>3 DEF StagingTypes
<1>5. ListInv'
  <2>1. \A m \in Note :
          /\ m \in memory' => m \in memory
          /\ m \in memory => m \in memory' \/ Queued(m, "Processed")' \/ m \in untold'
          /\ Queued(m, "Processed") => Queued(m, "Processed")'
          /\ m \in memory' /\ Queued(m, "NotProcessed")
               => Queued(m, "NotProcessed")' \/ (m \in restaged' /\ Contains(staging, m))
          /\ m \in replaces' => m \in replaces
    BY <1>1, <1>2 DEF Announces
  <2>2. \A m \in memory' : m \in Note \/ Queued(m, "NotProcessed")'
    BY <1>1, <1>2 DEF Announces
  <2> QED
    BY <1>1, <2>1, <2>2, ListKept
<1> QED
  BY <1>3, <1>4, <1>5 DEF StagingInv

LEMMA NotifyKeeps ==
  ASSUME StagingInv, NEW a \in App, NEW t \in {"NotProcessed", "Processed"}, Notify(a, t)
  PROVE  StagingInv'
<1> DEFINE n == Len(app) + 1
           row == t = "Processed"
<1>1. /\ app \in Seq(App) /\ Len(app) \in Nat /\ memory \subseteq Note /\ Note \subseteq Nat
  BY DEF StagingInv, StagingTypes, Note
<1>2. app' = Append(app, a) /\ app' \in Seq(App) /\ Len(app') = Len(app) + 1
  BY <1>1 DEF Notify
<1>3. n \in Note' /\ n \notin Note /\ Note \subseteq Note'
  BY <1>1, <1>2 DEF Note
<1>4. memory' = IF row THEN memory ELSE memory \cup {n}
  BY DEF Notify
<1>5. Send(n, row, t) /\ UNCHANGED <<staging, visible, replaces, untold, restaged, astray>>
  BY DEF Notify, ListsKept, ghosts
<1>6. Announces(n, row, t)
  BY <1>1, <1>3, <1>4 DEF Announces
<1>7. /\ memory' \subseteq Note' /\ Len(app) <= Len(app') /\ row \in BOOLEAN
      /\ \A m \in memory : m \in memory'
  <2>1. Len(app) <= Len(app') /\ row \in BOOLEAN
    BY <1>1, <1>2
  <2> HIDE DEF n, row
  <2> QED
    BY <1>1, <1>3, <1>4, <2>1
<1>8. untold \subseteq untold' /\ \A m \in Note : m \in replaces' => m \in replaces
  BY <1>5
<1> HIDE DEF n, row
<1> QED
  BY <1>2, <1>3, <1>5, <1>6, <1>7, <1>8, ServerKeeps

LEMMA ReplaceKeeps ==
  ASSUME StagingInv, NEW m \in memory, NEW kept \in BOOLEAN, Replace(m, kept)
  PROVE  StagingInv'
<1> DEFINE n == Len(app) + 1
<1>1. /\ app \in Seq(App) /\ Len(app) \in Nat /\ memory \subseteq Note /\ m \in 1..Len(app)
  BY DEF StagingInv, StagingTypes, Note
<1>2. app' = Append(app, app[m]) /\ app' \in Seq(App) /\ Len(app') = Len(app) + 1
  BY <1>1 DEF Replace
<1>3. n \in Note' /\ n \notin Note /\ Note \subseteq Note'
  BY <1>1, <1>2 DEF Note
<1>4. /\ memory' = (memory \ {m}) \cup {n} /\ Send(n, FALSE, "NotProcessed")
      /\ replaces' = replaces \cup {n} /\ untold' = untold \cup {m}
      /\ UNCHANGED <<staging, visible, restaged, astray>>
  BY DEF Replace, ListsKept
<1>5. Announces(n, FALSE, "NotProcessed")
  BY <1>4 DEF Announces
<1>6. /\ memory' \subseteq Note' /\ Len(app) <= Len(app') /\ untold \subseteq untold'
      /\ \A k \in memory : k \in memory' \/ k \in untold'
      /\ \A k \in Note : k \in replaces' => k \in replaces
  <2>1. Len(app) <= Len(app')
    BY <1>1, <1>2
  <2> HIDE DEF n
  <2> QED
    BY <1>1, <1>3, <1>4, <2>1
<1> HIDE DEF n
<1> QED
  BY <1>2, <1>3, <1>4, <1>5, <1>6, ServerKeeps

LEMMA ExpireKeeps ==
  ASSUME StagingInv, NEW n \in memory, NEW kept \in BOOLEAN, Expire(n, kept)
  PROVE  StagingInv'
<1>1. /\ app \in Seq(App) /\ Len(app) \in Nat /\ memory \subseteq Note
  BY DEF StagingInv, StagingTypes
<1>2. /\ memory' = memory \ {n} /\ Send(n, kept, "Processed")
      /\ UNCHANGED <<app, staging, visible, replaces, untold, restaged, astray>>
  BY DEF Expire, ListsKept, ghosts
<1>3. Announces(n, kept, "Processed") /\ Note' = Note /\ n \in Note'
  BY <1>1, <1>2 DEF Announces, Note
<1>4. /\ app' \in Seq(App) /\ Len(app) <= Len(app') /\ memory' \subseteq Note'
      /\ untold \subseteq untold'
      /\ \A m \in memory : m \in memory' \/ m = n
      /\ \A m \in Note : m \in replaces' => m \in replaces
  BY <1>1, <1>2, <1>3
<1> QED
  BY <1>2, <1>3, <1>4, ServerKeeps

LEMMA WithdrawKeeps ==
  ASSUME StagingInv, NEW n \in memory, Withdraw(n)
  PROVE  StagingInv'
<1>1. /\ StagingTypes /\ QueueInv /\ ListInv /\ memory \subseteq Note
  BY DEF StagingInv, StagingTypes
<1>2. /\ memory' = memory \ {n} /\ untold' = untold \cup {n}
      /\ UNCHANGED <<app, queue, staging, visible, replaces, restaged, astray>>
  BY DEF Withdraw, ListsKept, centerVars
<1>3. Note' = Note /\ \A m, u : Queued(m, u)' <=> Queued(m, u)
  BY <1>2 DEF Note, Queued
<1>4. StagingTypes'
  BY <1>1, <1>2, <1>3 DEF StagingTypes
<1>5. QueueInv'
  BY <1>1, <1>2, QueueKept
<1>6. ListInv'
  BY <1>1, <1>2, <1>3, ListKept
<1> QED
  BY <1>4, <1>5, <1>6 DEF StagingInv

\* open() lists the latest of what is live, all of it if there is room.
LEMMA ShowKeeps ==
  ASSUME StagingInv, NEW oldest, Show(oldest)
  PROVE  StagingInv'
<1> DEFINE T == Fetched(memory)
           size == Cardinality(T)
           w == Min({size, BubbleMaxCount})
<1>1. /\ StagingTypes /\ QueueInv /\ ListInv /\ Len(app) \in Nat /\ memory \subseteq Note
      /\ BubbleMaxCount \in Nat
  BY CenterAssumption DEF StagingInv, StagingTypes
<1>2. ~visible /\ visible' = TRUE /\ UNCHANGED <<app, memory, queue, replaces, untold, restaged, astray>>
  BY DEF Show, ghosts
<1>3. staging = <<>> /\ StagingOpen
  BY <1>1, <1>2 DEF ListInv, Show
<1>4. Note' = Note /\ \A m, u : Queued(m, u)' <=> Queued(m, u)
  BY <1>2 DEF Note, Queued
<1>5. QueueInv'
  BY <1>1, <1>2, QueueKept
<1>6. Ok' = Ok /\ Note \subseteq Nat /\ memory \subseteq Ok
  BY <1>1, <1>2, <1>4 DEF Ok, Twice, Note
<1>7. CASE memory = {}
  <2>1. staging' = <<>> /\ DOMAIN staging' = {}
    BY <1>3, <1>7 DEF StagingOpen
  <2>2. ListInv'
    <3>1. Good(staging', memory', Out', Twice', Ok')
      BY <2>1 DEF Good, InOrder, Once, Alive
    <3>2. StagingFull'
      BY <1>2, <1>7 DEF StagingFull
    <3> QED
      BY <1>2, <3>1, <3>2 DEF ListInv
  <2>3. StagingTypes'
    <3>1. staging' = staging
      BY <1>3, <2>1
    <3> QED
      BY <1>1, <1>2, <1>4, <3>1 DEF StagingTypes
  <2> QED
    BY <1>5, <2>2, <2>3 DEF StagingInv
<1>8. CASE memory # {}
  <2>1. T \in SUBSET (1..Len(app)) /\ T \subseteq memory
    BY <1>1 DEF Fetched, Note
  <2>2. size \in Nat
    <3>1. 0 \in 0..Cardinality(T)
      <4>1. IsFiniteSet(1..Len(app))
        BY <1>1, FS_Interval
      <4> HIDE DEF T
      <4>2. Cardinality(T) \in Nat
        BY <2>1, <4>1, FS_Subset, FS_CardinalityType
      <4> QED
        BY <4>2
    <3> HIDE DEF T
    <3> QED
      BY <1>1, <2>1, <3>1, LatestFirstFacts
  <2>3. /\ w \in 0..size /\ w <= BubbleMaxCount
        /\ w = BubbleMaxCount \/ (w = size /\ w < BubbleMaxCount)
    <3>1. {size, BubbleMaxCount} \in SUBSET Nat /\ {size, BubbleMaxCount} # {}
      BY <1>1, <2>2
    <3>2. w \in {size, BubbleMaxCount} /\ \A i \in {size, BubbleMaxCount} : w <= i
      <4> HIDE DEF size
      <4> QED
        BY <3>1, MinOfRows
    <3> HIDE DEF size, w
    <3> QED
      BY <1>1, <2>2, <3>2
  <2> DEFINE L == LatestFirst(T, w)
  <2>4. /\ L \in Seq(T) /\ Len(L) = w
        /\ \A i, j \in 1..w : i < j => L[i] > L[j]
        /\ w = size => \A n \in T : Contains(L, n)
    <3> HIDE DEF T, w
    <3> QED
      BY <1>1, <2>1, <2>3, LatestFirstFacts
  <2>5. staging' = L
    <3>1. staging' = staging \o L
      BY <1>3, <1>8 DEF StagingOpen
    <3> HIDE DEF L, T
    <3> QED
      BY <1>3, <2>4, <3>1
  <2> HIDE DEF L, w
  <2>6. DOMAIN staging' = 1..w /\ w \in Nat /\ \A i \in DOMAIN staging' : staging'[i] \in T
    <3> HIDE DEF T
    <3> QED
      BY <2>4, <2>5
  <2> HIDE DEF T, size
  <2>7. \A i \in DOMAIN staging' : staging'[i] \in Nat /\ staging'[i] \in Ok'
    BY <1>1, <1>6, <2>1, <2>6
  <2>8. InOrder(staging', memory', Out')
    BY <2>4, <2>5, <2>6 DEF InOrder
  <2>9. Once(staging', Twice')
    <3>1. \A i, j \in 1..w : i < j => staging'[i] > staging'[j]
      BY <2>4, <2>5
    <3>2. ASSUME NEW i \in 1..w, NEW j \in 1..w, i # j PROVE staging'[i] # staging'[j]
      <4>1. i < j \/ j < i
        BY <2>6, <3>2
      <4>2. staging'[i] \in Nat /\ staging'[j] \in Nat
        BY <2>6, <2>7
      <4> QED
        BY <3>1, <4>1, <4>2
    <3> QED
      BY <2>6, <3>2 DEF Once
  <2>10. Alive(staging', Ok')
    BY <2>7 DEF Alive
  <2>11. /\ staging' \in Seq(Nat) /\ Len(staging') = w
    <3>1. Len(staging') = w
      BY <2>4, <2>5
    <3>2. staging' = [i \in 1..w |-> staging'[i]]
      BY <2>4, <2>5, <2>6
    <3>3. staging' \in [1..w -> Nat]
      BY <2>6, <2>7, <3>2
    <3> QED
      BY <2>6, <3>1, <3>3
  <2>12. StagingFull'
    <3>1. CASE w = BubbleMaxCount
      BY <2>11, <3>1 DEF StagingFull
    <3>2. CASE w = size /\ w < BubbleMaxCount
      <4>1. \A m \in Fetched(memory) : Contains(staging', m)
        BY <2>4, <2>5, <3>2 DEF T
      <4>2. memory \in SUBSET (1..Len(app)) /\ Len(staging') < BubbleMaxCount
        BY <1>1, <2>11, <3>2 DEF Note
      <4>3. \A m \in memory : Contains(staging', m)
        BY <1>1, <2>11, <4>1, <4>2, FetchedIsAll
      <4> QED
        BY <1>2, <4>3 DEF StagingFull
    <3> QED
      BY <2>3, <3>1, <3>2
  <2>13. ListInv'
    BY <1>2, <2>8, <2>9, <2>10, <2>12 DEF ListInv, Good
  <2>14. StagingTypes'
    <3>1. Len(staging') <= BubbleMaxCount
      BY <2>3, <2>11
    <3> QED
      BY <1>1, <1>2, <1>4, <2>11, <3>1 DEF StagingTypes
  <2> QED
    BY <1>5, <2>13, <2>14 DEF StagingInv
<1> QED
  BY <1>7, <1>8

LEMMA HideKeeps ==
  ASSUME StagingInv, Hide
  PROVE  StagingInv'
<1>1. StagingTypes /\ QueueInv
  BY DEF StagingInv
<1>2. /\ visible' = FALSE /\ staging' = <<>> /\ restaged' = {}
      /\ UNCHANGED <<app, memory, queue>>
  BY DEF Hide, StagingClose, storeVars
<1>3. Note' = Note
  BY <1>2 DEF Note
<1>4. QueueInv'
  BY <1>1, <1>2, QueueKept
<1>5. ListInv'
  <2>1. DOMAIN staging' = {}
    BY <1>2
  <2> QED
    BY <1>2, <2>1 DEF ListInv, Good, InOrder, Once, Alive, StagingFull
<1>6. StagingTypes'
  <2>1. staging' \in Seq(Nat) /\ Len(staging') <= BubbleMaxCount
    <3>1. Len(<<>>) = 0 /\ 0 <= BubbleMaxCount /\ <<>> \in Seq(Nat)
      BY CenterAssumption
    <3> QED
      BY <1>2, <3>1
  <2>2. restaged' \subseteq Note' /\ visible' \in BOOLEAN
    BY <1>2
  <2> QED
    BY <1>1, <1>2, <1>3, <2>1, <2>2 DEF StagingTypes
<1> QED
  BY <1>4, <1>5, <1>6 DEF StagingInv

\* Only push and remove change the list; a signal that says less leaves it.
LEMMA DeliverKeeps ==
  ASSUME StagingInv, Deliver
  PROVE  StagingInv'
<1> DEFINE s == Head(queue)
           n == s.n
<1>1. /\ StagingTypes /\ QueueInv /\ ListInv /\ memory \subseteq Note /\ Note \subseteq Nat
      /\ restaged \subseteq Note /\ staging \in Seq(Nat) /\ Len(staging) <= BubbleMaxCount
  BY DEF StagingInv, StagingTypes, Note
<1>2. /\ queue # <<>> /\ queue' = Tail(queue)
      /\ UNCHANGED <<app, memory, db, visible, replaces, untold>>
      /\ IF ~visible THEN ListsKept /\ UNCHANGED <<relisted, restaged, astray>>
         ELSE IF s.type = "Processed" THEN ProcessedReceived(n, s.row) ELSE LiveReceived(n, s.row)
  BY DEF Deliver, storeVars
<1>3. 1 \in DOMAIN queue /\ queue[1] = s
  <2>1. queue \in Seq([n : Nat, row : BOOLEAN, type : {"NotProcessed", "Processed"}])
    BY <1>1 DEF StagingTypes
  <2> QED
    BY <1>2, <2>1
<1>4. /\ n \in Note
      /\ s.type = "Processed" => n \notin memory
      /\ s.type = "NotProcessed" => s.row = FALSE
      /\ s.type \in {"NotProcessed", "Processed"}
  <2>1. s.type \in {"NotProcessed", "Processed"}
    <3>1. queue[1] \in [n : Nat, row : BOOLEAN, type : {"NotProcessed", "Processed"}]
      <4>1. queue \in Seq([n : Nat, row : BOOLEAN, type : {"NotProcessed", "Processed"}])
        BY <1>1 DEF StagingTypes
      <4>2. 1 \in 1..Len(queue)
        BY <1>3, <4>1
      <4> QED
        BY <4>1, <4>2, ElementOfSeq
    <3> QED
      BY <1>3, <3>1
  <2> QED
    BY <1>1, <1>3, <2>1 DEF QueueInv
<1>5. Note' = Note
  BY <1>2 DEF Note
<1>6. /\ queue' \in Seq([n : Nat, row : BOOLEAN, type : {"NotProcessed", "Processed"}])
      /\ QueueInv'
  BY <1>1, <1>2, QueueTaken
<1>7. \A m, u : Queued(m, u) <=> Queued(m, u)' \/ (n = m /\ s.type = u)
  BY <1>1, <1>2, QueuedTaken
<1> HIDE DEF s, n
\* Where the list is left, the signal is not one that it misses.
<1>8. ASSUME UNCHANGED <<staging, astray>>, restaged \subseteq restaged', restaged' \subseteq Note,
             ~visible \/ (s.type = "NotProcessed" /\ (n \in memory => n \in restaged' /\ Contains(staging, n)))
      PROVE  StagingInv'
  <2>1. CASE visible
    <3>1. \A m \in Note :
            /\ m \in memory' => m \in memory
            /\ m \in memory => m \in memory' \/ Queued(m, "Processed")' \/ m \in untold'
            /\ Queued(m, "Processed") => Queued(m, "Processed")'
            /\ m \in memory' /\ Queued(m, "NotProcessed")
                 => Queued(m, "NotProcessed")' \/ (m \in restaged' /\ Contains(staging, m))
            /\ m \in replaces' => m \in replaces
      BY <1>2, <1>7, <1>8, <2>1
    <3>2. Note \subseteq Note' /\ untold \subseteq untold' /\ \A m \in memory' : m \in Note
      BY <1>1, <1>2, <1>5
    <3>3. ListInv'
      BY <1>1, <1>2, <1>8, <3>1, <3>2, ListKept
    <3>4. StagingTypes'
      BY <1>1, <1>2, <1>5, <1>6, <1>8 DEF StagingTypes
    <3> QED
      BY <1>6, <3>3, <3>4 DEF StagingInv
  <2>2. CASE ~visible
    <3>1. staging' = <<>> /\ DOMAIN staging' = {} /\ ~visible'
      BY <1>1, <1>2, <1>8, <2>2 DEF ListInv
    <3>2. ListInv'
      BY <3>1 DEF ListInv, Good, InOrder, Once, Alive, StagingFull
    <3>3. StagingTypes'
      BY <1>1, <1>2, <1>5, <1>6, <1>8 DEF StagingTypes
    <3> QED
      BY <1>6, <3>2, <3>3 DEF StagingInv
  <2> QED
    BY <2>1, <2>2
<1>9. CASE ~visible
  <2>1. UNCHANGED <<staging, astray, restaged>>
    BY <1>2, <1>9 DEF ListsKept
  <2> QED
    BY <1>1, <1>8, <1>9, <2>1
<1>10. CASE visible /\ s.type = "Processed"
  <2>1. StagingRemoved(n) /\ astray' = astray \cup Misplaced /\ restaged' = restaged
    BY <1>2, <1>10 DEF ProcessedReceived
  <2>2. n \notin memory' /\ memory' \subseteq memory /\ \A m \in memory : m = n \/ m \in memory'
    BY <1>2, <1>4, <1>10
  <2>3. /\ \A m : Queued(m, "NotProcessed")' <=> Queued(m, "NotProcessed")
        /\ \A m : m # n /\ Queued(m, "Processed") => Queued(m, "Processed")'
    BY <1>7, <1>10
  <2>4. ListInv' /\ staging' \in Seq(Nat) /\ Len(staging') <= BubbleMaxCount
    <3>1. UNCHANGED <<app, visible, restaged, replaces>> /\ untold \subseteq untold'
      BY <1>2, <2>1
    <3> QED
      BY <1>1, <2>1, <2>2, <2>3, <3>1, RemovalKeeps
  <2>5. StagingTypes'
    BY <1>1, <1>2, <1>5, <1>6, <2>1, <2>4 DEF StagingTypes
  <2> QED
    BY <1>6, <2>4, <2>5 DEF StagingInv
<1>11. CASE visible /\ s.type = "NotProcessed"
  <2>1. /\ IF n \in memory THEN StagingReceived(n, n \in replaces)
                           ELSE UNCHANGED <<staging, overlapCount>>
        /\ restaged' = IF n \in memory /\ Contains(staging, n) THEN restaged \cup {n} ELSE restaged
        /\ astray' = astray
    <3>1. LiveReceived(n, FALSE)
      BY <1>2, <1>4, <1>11
    <3> QED
      BY <3>1 DEF LiveReceived, Valid
  <2>2. restaged \subseteq restaged' /\ restaged' \subseteq Note
    BY <1>1, <1>4, <2>1
  <2>3. CASE n \notin memory
    BY <1>8, <1>11, <2>1, <2>2, <2>3
  <2>4. CASE n \in memory /\ n \in replaces /\ Contains(staging, n)
    <3>1. UNCHANGED staging
      BY <2>1, <2>4 DEF StagingReceived
    <3>2. n \in restaged'
      BY <2>1, <2>4
    <3> QED
      BY <1>8, <1>11, <2>1, <2>2, <2>4, <3>1, <3>2
  <2>5. CASE n \in memory /\ ~(n \in replaces /\ Contains(staging, n))
    <3>1. Push(n)
      BY <2>1, <2>5 DEF StagingReceived
    <3>2. restaged' = IF Contains(staging, n) THEN restaged \cup {n} ELSE restaged
      BY <2>1, <2>5
    <3>3. UNCHANGED <<app, memory, visible, replaces, untold, astray>>
      BY <1>2, <2>1
    <3>4. ListInv' /\ staging' \in Seq(Nat) /\ Len(staging') <= BubbleMaxCount
      BY <1>1, <1>2, <1>11, <2>5, <3>1, <3>2, <3>3, PushKeeps DEF s, n
    <3>5. StagingTypes'
      BY <1>1, <1>2, <1>5, <1>6, <2>2, <3>4 DEF StagingTypes
    <3> QED
      BY <1>6, <3>4, <3>5 DEF StagingInv
  <2> QED
    BY <2>3, <2>4, <2>5
<1> QED
  BY <1>4, <1>9, <1>10, <1>11

\* closeNotify(id, reason): the row may be one that was filed meanwhile.
LEMMA CloseNotifyKeeps ==
  ASSUME StagingInv, NEW i \in DOMAIN staging, NEW kept \in BOOLEAN, CloseNotify(i, kept)
  PROVE  StagingInv'
<1> DEFINE n == staging[i]
<1>1. /\ StagingTypes /\ QueueInv /\ ListInv /\ memory \subseteq Note /\ Len(app) \in Nat
      /\ Note \subseteq Nat /\ restaged \subseteq Note
  BY DEF StagingInv, StagingTypes, Note
<1>2. /\ memory' = memory \ {n} /\ StagingRemoved(n) /\ astray' = astray \cup Misplaced
      /\ UNCHANGED <<app, visible, replaces, restaged>> /\ untold \subseteq untold'
      /\ Send(n, TRUE, "Processed") \/ UNCHANGED queue
  BY DEF CloseNotify, OnStaging
<1>3. n \in Note /\ n \in Nat /\ Note' = Note
  BY <1>1, <1>2 DEF ListInv, Good, Alive, Ok, Note
<1> HIDE DEF n
<1>4. /\ queue' \in Seq([n : Nat, row : BOOLEAN, type : {"NotProcessed", "Processed"}])
      /\ QueueInv'
      /\ \A m : Queued(m, "NotProcessed")' <=> Queued(m, "NotProcessed")
      /\ \A m : Queued(m, "Processed") => Queued(m, "Processed")'
  <2>1. CASE Send(n, TRUE, "Processed")
    <3>1. /\ Announces(n, TRUE, "Processed") /\ n \in Note'
          /\ Len(app') \in Nat /\ Len(app) <= Len(app')
          /\ TRUE \in BOOLEAN /\ "Processed" \in {"NotProcessed", "Processed"}
      BY <1>1, <1>2, <1>3 DEF Announces
    <3>2. /\ queue' \in Seq([n : Nat, row : BOOLEAN, type : {"NotProcessed", "Processed"}])
          /\ QueueInv'
      BY <1>1, <2>1, <3>1, QueueSent
    <3>3. \A m, u : Queued(m, u)' <=> Queued(m, u) \/ (m = n /\ u = "Processed")
      BY <1>1, <1>3, <2>1, QueuedSent
    <3> QED
      BY <3>2, <3>3
  <2>2. CASE UNCHANGED queue
    <3>1. QueueInv'
      BY <1>1, <1>2, <2>2, QueueKept
    <3>2. \A m, u : Queued(m, u)' <=> Queued(m, u)
      BY <2>2 DEF Queued
    <3>3. queue' \in Seq([n : Nat, row : BOOLEAN, type : {"NotProcessed", "Processed"}])
      <4>1. queue' = queue
        BY <2>2
      <4> QED
        BY <1>1, <4>1 DEF StagingTypes
    <3> QED
      BY <3>1, <3>2, <3>3
  <2> QED
    BY <1>2, <2>1, <2>2
<1>5. ListInv' /\ staging' \in Seq(Nat) /\ Len(staging') <= BubbleMaxCount
  <2>1. n \notin memory' /\ memory' \subseteq memory /\ \A m \in memory : m = n \/ m \in memory'
    BY <1>2
  <2> QED
    BY <1>1, <1>2, <1>4, <2>1, RemovalKeeps
<1>6. StagingTypes'
  BY <1>1, <1>2, <1>3, <1>4, <1>5 DEF StagingTypes
<1> QED
  BY <1>4, <1>5, <1>6 DEF StagingInv

LEMMA InvokeNotifyKeeps ==
  ASSUME StagingInv, NEW i \in DOMAIN staging, InvokeNotify(i)
  PROVE  StagingInv'
<1> DEFINE n == staging[i]
<1>1. StagingTypes /\ QueueInv /\ ListInv /\ memory \subseteq Note /\ restaged \subseteq Note
  BY DEF StagingInv, StagingTypes
<1>2. /\ memory' = memory \ {n} /\ StagingRemoved(n) /\ astray' = astray \cup Misplaced
      /\ UNCHANGED <<app, visible, replaces, restaged, queue>> /\ untold \subseteq untold'
  BY DEF InvokeNotify, OnStaging
<1> HIDE DEF n
<1>3. Note' = Note /\ \A m, u : Queued(m, u)' <=> Queued(m, u)
  BY <1>2 DEF Note, Queued
<1>4. QueueInv'
  BY <1>1, <1>2, QueueKept
<1>5. ListInv' /\ staging' \in Seq(Nat) /\ Len(staging') <= BubbleMaxCount
  <2>1. n \notin memory' /\ memory' \subseteq memory /\ \A m \in memory : m = n \/ m \in memory'
    BY <1>2
  <2> QED
    BY <1>1, <1>2, <1>3, <2>1, RemovalKeeps
<1>6. StagingTypes'
  BY <1>1, <1>2, <1>3, <1>5 DEF StagingTypes
<1> QED
  BY <1>4, <1>5, <1>6 DEF StagingInv

-----------------------------------------------------------------------------
(* The theorems.                                                           *)

LEMMA StagingStep == StagingInv /\ [Next]_allVars => StagingInv'
<1> SUFFICES ASSUME StagingInv, [Next]_allVars PROVE StagingInv'
  OBVIOUS
<1>1. ASSUME NEW a \in App, NEW type \in {"NotProcessed", "Processed"}, Notify(a, type) PROVE StagingInv'
  BY <1>1, NotifyKeeps
<1>2. ASSUME NEW n \in memory, Withdraw(n) PROVE StagingInv'
  BY <1>2, WithdrawKeeps
<1>3. ASSUME NEW n \in memory, NEW kept \in BOOLEAN, Replace(n, kept) \/ Expire(n, kept) PROVE StagingInv'
  BY <1>3, ReplaceKeeps, ExpireKeeps
<1>4. ASSUME NEW oldest \in 1..Len(app) + 1, Show(oldest) PROVE StagingInv'
  BY <1>4, ShowKeeps
<1>5. CASE Hide
  BY <1>5, HideKeeps
<1>6. CASE Deliver
  BY <1>6, DeliverKeeps
<1>7. ASSUME NEW i \in DOMAIN staging, InvokeNotify(i) \/ \E kept \in BOOLEAN : CloseNotify(i, kept)
      PROVE  StagingInv'
  BY <1>7, CloseNotifyKeeps, InvokeNotifyKeeps
<1>8. CASE \/ \E r \in DOMAIN rows : Fold(r) \/ Unfold(r) \/ DropApp(r) \/ RemoveNotify(r)
           \/ ClearAll \/ FoldAll \/ \E a \in App : PinApplication(a)
           \/ UNCHANGED allVars
  BY <1>8, RecordSteps, RecordStepsKeep
<1> QED
  BY <1>1, <1>2, <1>3, <1>4, <1>5, <1>6, <1>7, <1>8 DEF Next

\* A row among the live notifications is live or its closing is on the way, unless
\* the server closed or filed it in silence or push listed it twice: remove(id) takes
\* out every row whose signal arrives, and puts in only what the store has.
THEOREM StagingIsLive == Spec => []StagingLive
<1>1. Init => StagingInv
  BY StagingInit
<1>2. StagingInv /\ [Next]_allVars => StagingInv'
  BY StagingStep
<1>3. StagingInv => StagingLive
  BY InvGivesLive
<1> QED
  BY <1>1, <1>2, <1>3, PTL DEF Spec

\* The live notifications are listed the latest first, and none that was announced is
\* left out while a row is free, for every number of rows and of signals under way:
\* what open(), push and remove leave fits together, whatever arrives in between.
THEOREM StagingIsOrdered == Spec => []StagingOrdered
<1>1. Init => StagingInv
  BY StagingInit
<1>2. StagingInv /\ [Next]_allVars => StagingInv'
  BY StagingStep
<1>3. StagingInv => StagingOrdered
  BY InvGivesOrder
<1> QED
  BY <1>1, <1>2, <1>3, PTL DEF Spec

-----------------------------------------------------------------------------
(* Lists of rows: t is rest with L more rows from p on.                    *)

Row == [type : {"normal", "overlap", "group"}, app : App, n : Nat, count : 0..FullCount]

Around(t, rest, p, L) ==
  /\ t \in Seq(Row) /\ rest \in Seq(Row) /\ L \in Nat /\ p \in Nat
  /\ 1 <= p /\ p <= Len(rest) + 1 /\ Len(t) = Len(rest) + L
  /\ \A j \in 1..Len(t) : j < p => t[j] = rest[j]
  /\ \A j \in 1..Len(t) : p + L <= j => t[j] = rest[j - L]

\* InsertAt and RemoveAt put one row in and take one out.
LEMMA InsertAround ==
  ASSUME NEW rest \in Seq(Row), NEW p \in 1..Len(rest) + 1, NEW x \in Row
  PROVE  Around(InsertAt(rest, p, x), rest, p, 1) /\ InsertAt(rest, p, x)[p] = x
<1> DEFINE t == InsertAt(rest, p, x)
<1>1. /\ t \in Seq(Row) /\ Len(t) = Len(rest) + 1 /\ Len(rest) \in Nat /\ p \in Nat
      /\ \A j \in 1..Len(rest) + 1 : t[j] = IF j < p THEN rest[j] ELSE IF j = p THEN x ELSE rest[j - 1]
  <2> DEFINE Kept(S, s, i, y) ==
               /\ InsertAt(s, i, y) \in Seq(S) /\ Len(InsertAt(s, i, y)) = Len(s) + 1
               /\ \A j \in 1..Len(s) + 1 :
                    InsertAt(s, i, y)[j] = IF j < i THEN s[j] ELSE IF j = i THEN y ELSE s[j - 1]
  <2>0. ASSUME NEW S, NEW s \in Seq(S), NEW i \in 1..Len(s) + 1, NEW y \in S PROVE Kept(S, s, i, y)
    BY InsertAtFacts
  <2>1. Kept(Row, rest, p, x)
    <3> HIDE DEF Kept
    <3> QED
      BY <2>0, Zenon
  <2>2. /\ t \in Seq(Row) /\ Len(t) = Len(rest) + 1
        /\ \A j \in 1..Len(rest) + 1 : t[j] = IF j < p THEN rest[j] ELSE IF j = p THEN x ELSE rest[j - 1]
    BY <2>1
  <2>3. Len(rest) \in Nat /\ p \in Nat
    OBVIOUS
  <2> HIDE DEF t
  <2> QED
    BY <2>1, <2>2, <2>3
<1> HIDE DEF t
<1>2. t[p] = x
  BY <1>1
<1>3. Around(t, rest, p, 1)
  BY <1>1 DEF Around
<1> QED
  BY <1>2, <1>3 DEF t

\* RemoveAt takes one row out.
LEMMA RemoveAround ==
  ASSUME NEW s \in Seq(Row), NEW r \in DOMAIN s
  PROVE  Around(s, RemoveAt(s, r), r, 1)
<1> DEFINE t == RemoveAt(s, r)
<1>1. /\ t \in Seq(Row) /\ Len(t) = Len(s) - 1 /\ Len(s) \in Nat /\ r \in 1..Len(s)
      /\ \A j \in 1..Len(s) - 1 : t[j] = s[IF j < r THEN j ELSE j + 1]
  BY RemoveAtFacts
<1> HIDE DEF t
<1>2. \A j \in 1..Len(s) : j < r => s[j] = t[j]
  BY <1>1
<1>3. \A j \in 1..Len(s) : r + 1 <= j => s[j] = t[j - 1]
  <2> SUFFICES ASSUME NEW j \in 1..Len(s), r + 1 <= j PROVE s[j] = t[j - 1]
    OBVIOUS
  <2>1. j - 1 \in 1..Len(s) - 1 /\ ~ (j - 1 < r) /\ (j - 1) + 1 = j
    BY <1>1
  <2> QED
    BY <1>1, <2>1
<1> QED
  BY <1>1, <1>2, <1>3 DEF Around, t

\* Two lists, then three, one behind the other.
LEMMA TwoLists ==
  ASSUME NEW S, NEW a \in Seq(S), NEW b \in Seq(S), NEW t, t = a \o b
  PROVE  /\ t \in Seq(S) /\ Len(t) = Len(a) + Len(b)
         /\ \A j \in 1..Len(a) + Len(b) : t[j] = IF j <= Len(a) THEN a[j] ELSE b[j - Len(a)]
<1>1. a \o b \in Seq(S) /\ Len(a \o b) = Len(a) + Len(b)
  BY ConcatProperties
<1>2. \A j \in 1..Len(a) + Len(b) : (a \o b)[j] = IF j <= Len(a) THEN a[j] ELSE b[j - Len(a)]
  BY ConcatProperties
<1> QED
  BY <1>1, <1>2

\* Three lists, one behind the other.
LEMMA ThreeLists ==
  ASSUME NEW S, NEW a \in Seq(S), NEW b \in Seq(S), NEW c \in Seq(S), NEW t, t = a \o b \o c
  PROVE  /\ t \in Seq(S) /\ Len(t) = Len(a) + Len(b) + Len(c)
         /\ \A j \in 1..Len(t) : j <= Len(a) => t[j] = a[j]
         /\ \A j \in 1..Len(b) : t[Len(a) + j] = b[j]
         /\ \A j \in 1..Len(c) : t[Len(a) + Len(b) + j] = c[j]
<1> DEFINE d == a \o b
<1>1. Len(a) \in Nat /\ Len(b) \in Nat /\ Len(c) \in Nat
  OBVIOUS
<1>2. /\ d \in Seq(S) /\ Len(d) = Len(a) + Len(b)
      /\ \A j \in 1..Len(a) + Len(b) : d[j] = IF j <= Len(a) THEN a[j] ELSE b[j - Len(a)]
  BY TwoLists
<1>3. t = d \o c
  OBVIOUS
<1> HIDE DEF d
<1>4. /\ t \in Seq(S) /\ Len(t) = Len(d) + Len(c)
      /\ \A j \in 1..Len(d) + Len(c) : t[j] = IF j <= Len(d) THEN d[j] ELSE c[j - Len(d)]
  <2>1. d \in Seq(S)
    BY <1>2
  <2> QED
    BY <1>3, <2>1, TwoLists
<1>5. \A j \in 1..Len(t) : j <= Len(a) => t[j] = a[j]
  <2> SUFFICES ASSUME NEW j \in 1..Len(t), j <= Len(a) PROVE t[j] = a[j]
    OBVIOUS
  <2>1. j \in 1..Len(a) + Len(b) /\ j \in 1..Len(d) + Len(c) /\ j <= Len(d)
    BY <1>1, <1>2, <1>4
  <2> QED
    BY <1>2, <1>4, <2>1
<1>6. \A j \in 1..Len(b) : t[Len(a) + j] = b[j]
  <2> SUFFICES ASSUME NEW j \in 1..Len(b) PROVE t[Len(a) + j] = b[j]
    OBVIOUS
  <2>1. /\ Len(a) + j \in 1..Len(a) + Len(b) /\ Len(a) + j \in 1..Len(d) + Len(c) /\ Len(a) + j <= Len(d)
        /\ ~ (Len(a) + j <= Len(a)) /\ (Len(a) + j) - Len(a) = j
    BY <1>1, <1>2
  <2> QED
    BY <1>2, <1>4, <2>1
<1>7. \A j \in 1..Len(c) : t[Len(a) + Len(b) + j] = c[j]
  <2> SUFFICES ASSUME NEW j \in 1..Len(c) PROVE t[Len(a) + Len(b) + j] = c[j]
    OBVIOUS
  <2>1. /\ Len(a) + Len(b) + j \in 1..Len(d) + Len(c) /\ ~ (Len(a) + Len(b) + j <= Len(d))
        /\ (Len(a) + Len(b) + j) - Len(d) = j
    BY <1>1, <1>2
  <2> QED
    BY <1>4, <2>1
<1>8. Len(t) = Len(a) + Len(b) + Len(c)
  BY <1>1, <1>2, <1>4
<1> QED
  BY <1>4, <1>5, <1>6, <1>7, <1>8

\* Part of a list.
LEMMA PartOf ==
  ASSUME NEW s \in Seq(Row), NEW lo \in Nat, NEW hi \in Nat, 1 <= lo, lo <= hi + 1, hi <= Len(s)
  PROVE  /\ SubSeq(s, lo, hi) \in Seq(Row) /\ Len(SubSeq(s, lo, hi)) = hi + 1 - lo
         /\ \A j \in 1..hi + 1 - lo : SubSeq(s, lo, hi)[j] = s[lo + j - 1]
<1>1. Len(s) \in Nat /\ \A i \in lo..hi : s[i] \in Row
  OBVIOUS
<1>2. lo \in Int /\ hi \in Int
  OBVIOUS
<1>3. /\ SubSeq(s, lo, hi) \in Seq(Row)
      /\ Len(SubSeq(s, lo, hi)) = IF lo <= hi THEN hi - lo + 1 ELSE 0
      /\ \A j \in 1..hi - lo + 1 : SubSeq(s, lo, hi)[j] = s[lo + j - 1]
  BY <1>1, <1>2, SubSeqProperties
<1>4. (IF lo <= hi THEN hi - lo + 1 ELSE 0) = hi + 1 - lo /\ hi - lo + 1 = hi + 1 - lo
  OBVIOUS
<1> QED
  BY <1>3, <1>4

\* The rows b put before row p of rest.
Pasted(rest, b, p) == SubSeq(rest, 1, p - 1) \o b \o SubSeq(rest, p, Len(rest))

\* Pasting leaves the rows of rest around the new ones.
LEMMA PasteAround ==
  ASSUME NEW rest \in Seq(Row), NEW b \in Seq(Row), NEW p \in 1..Len(rest) + 1, NEW t,
         t = Pasted(rest, b, p)
  PROVE  /\ Around(t, rest, p, Len(b))
         /\ \A j \in 1..Len(b) : t[p + j - 1] = b[j]
<1> DEFINE a == SubSeq(rest, 1, p - 1)
           c == SubSeq(rest, p, Len(rest))
<1>1. Len(rest) \in Nat /\ Len(b) \in Nat /\ p \in Nat /\ p - 1 \in Nat /\ 1 <= p /\ p <= Len(rest) + 1
  OBVIOUS
<1>2. a \in Seq(Row) /\ Len(a) = p - 1 /\ \A j \in 1..p - 1 : a[j] = rest[j]
  <2>1. 1 \in Nat /\ 1 <= 1 /\ 1 <= (p - 1) + 1 /\ p - 1 <= Len(rest) /\ (p - 1) + 1 - 1 = p - 1
    BY <1>1
  <2>2. a \in Seq(Row) /\ Len(a) = (p - 1) + 1 - 1 /\ \A j \in 1..(p - 1) + 1 - 1 : a[j] = rest[1 + j - 1]
    BY <1>1, <2>1, PartOf
  <2>3. \A j \in 1..p - 1 : 1 + j - 1 = j
    BY <1>1
  <2> QED
    BY <2>1, <2>2, <2>3
<1>3. c \in Seq(Row) /\ Len(c) = Len(rest) + 1 - p /\ \A j \in 1..Len(rest) + 1 - p : c[j] = rest[p + j - 1]
  BY <1>1, PartOf
<1>4. t = a \o b \o c
  BY DEF Pasted
<1> HIDE DEF a, c
<1>5. /\ t \in Seq(Row) /\ Len(t) = Len(a) + Len(b) + Len(c)
      /\ \A j \in 1..Len(t) : j <= Len(a) => t[j] = a[j]
      /\ \A j \in 1..Len(b) : t[Len(a) + j] = b[j]
      /\ \A j \in 1..Len(c) : t[Len(a) + Len(b) + j] = c[j]
  <2>1. a \in Seq(Row) /\ b \in Seq(Row) /\ c \in Seq(Row)
    BY <1>2, <1>3
  <2> QED
    BY <1>4, <2>1, ThreeLists, SMTT(30)
<1>6. Len(t) = Len(rest) + Len(b)
  <2>1. Len(a) = p - 1 /\ Len(c) = Len(rest) + 1 - p /\ Len(t) = Len(a) + Len(b) + Len(c)
    BY <1>2, <1>3, <1>5
  <2> QED
    BY <1>1, <2>1
<1>7. \A j \in 1..Len(t) : j < p => t[j] = rest[j]
  <2> SUFFICES ASSUME NEW j \in 1..Len(t), j < p PROVE t[j] = rest[j]
    OBVIOUS
  <2>1. j <= Len(a) /\ j \in 1..p - 1
    BY <1>1, <1>2
  <2> QED
    BY <1>2, <1>5, <2>1
<1>8. \A j \in 1..Len(t) : p + Len(b) <= j => t[j] = rest[j - Len(b)]
  <2> SUFFICES ASSUME NEW j \in 1..Len(t), p + Len(b) <= j PROVE t[j] = rest[j - Len(b)]
    OBVIOUS
  <2> DEFINE k == j - (p - 1) - Len(b)
  <2>1. /\ k \in 1..Len(c) /\ Len(a) + Len(b) + k = j
        /\ k \in 1..Len(rest) + 1 - p /\ p + k - 1 = j - Len(b)
    BY <1>1, <1>2, <1>3, <1>6
  <2> HIDE DEF k
  <2> QED
    BY <1>3, <1>5, <2>1
<1>9. \A j \in 1..Len(b) : t[p + j - 1] = b[j]
  <2> SUFFICES ASSUME NEW j \in 1..Len(b) PROVE t[p + j - 1] = b[j]
    OBVIOUS
  <2>1. Len(a) + j = p + j - 1
    BY <1>1, <1>2
  <2> QED
    BY <1>5, <2>1
<1> QED
  BY <1>1, <1>5, <1>6, <1>7, <1>8, <1>9 DEF Around

\* What is left of s without L rows from lo on.
Cut(s, lo, L) == SubSeq(s, 1, lo - 1) \o SubSeq(s, lo + L, Len(s))

\* Cutting leaves the rows around those that go.
LEMMA CutAround ==
  ASSUME NEW s \in Seq(Row), NEW lo \in Nat, NEW L \in Nat, 1 <= lo, lo + L <= Len(s) + 1, NEW rest,
         rest = Cut(s, lo, L)
  PROVE  Around(s, rest, lo, L)
<1> DEFINE a == SubSeq(s, 1, lo - 1)
           c == SubSeq(s, lo + L, Len(s))
<1>1. Len(s) \in Nat /\ lo - 1 \in Nat /\ lo + L \in Nat /\ 1 <= lo + L
  OBVIOUS
<1>2. a \in Seq(Row) /\ Len(a) = lo - 1 /\ \A j \in 1..lo - 1 : a[j] = s[j]
  <2>1. 1 \in Nat /\ 1 <= 1 /\ 1 <= (lo - 1) + 1 /\ lo - 1 <= Len(s) /\ (lo - 1) + 1 - 1 = lo - 1
    BY <1>1
  <2>2. a \in Seq(Row) /\ Len(a) = (lo - 1) + 1 - 1 /\ \A j \in 1..(lo - 1) + 1 - 1 : a[j] = s[1 + j - 1]
    BY <1>1, <2>1, PartOf
  <2>3. \A j \in 1..lo - 1 : 1 + j - 1 = j
    BY <1>1
  <2> QED
    BY <2>1, <2>2, <2>3
<1>3. c \in Seq(Row) /\ Len(c) = Len(s) + 1 - (lo + L)
      /\ \A j \in 1..Len(s) + 1 - (lo + L) : c[j] = s[(lo + L) + j - 1]
  BY <1>1, PartOf
<1>4. rest = a \o c
  BY DEF Cut
<1> HIDE DEF a, c
<1>5. /\ rest \in Seq(Row) /\ Len(rest) = Len(a) + Len(c)
      /\ \A j \in 1..Len(a) + Len(c) : rest[j] = IF j <= Len(a) THEN a[j] ELSE c[j - Len(a)]
  <2>1. a \in Seq(Row) /\ c \in Seq(Row)
    BY <1>2, <1>3
  <2> QED
    BY <1>4, <2>1, TwoLists
<1>6. Len(s) = Len(rest) + L /\ lo <= Len(rest) + 1
  <2>1. Len(a) = lo - 1 /\ Len(c) = Len(s) + 1 - (lo + L) /\ Len(rest) = Len(a) + Len(c)
    BY <1>2, <1>3, <1>5
  <2> QED
    BY <1>1, <2>1
<1>7. \A j \in 1..Len(s) : j < lo => s[j] = rest[j]
  <2> SUFFICES ASSUME NEW j \in 1..Len(s), j < lo PROVE s[j] = rest[j]
    OBVIOUS
  <2>1. j \in 1..Len(a) + Len(c) /\ j <= Len(a) /\ j \in 1..lo - 1
    BY <1>1, <1>2, <1>5, <1>6
  <2> QED
    BY <1>2, <1>5, <2>1
<1>8. \A j \in 1..Len(s) : lo + L <= j => s[j] = rest[j - L]
  <2> SUFFICES ASSUME NEW j \in 1..Len(s), lo + L <= j PROVE s[j] = rest[j - L]
    OBVIOUS
  <2> DEFINE k == j - (lo + L) + 1
  <2>1. /\ j - L \in 1..Len(a) + Len(c) /\ ~ (j - L <= Len(a)) /\ (j - L) - Len(a) = k
        /\ k \in 1..Len(s) + 1 - (lo + L) /\ (lo + L) + k - 1 = j
    BY <1>1, <1>2, <1>3, <1>5, <1>6
  <2> HIDE DEF k
  <2> QED
    BY <1>3, <1>5, <2>1
<1> QED
  BY <1>5, <1>6, <1>7, <1>8 DEF Around

\* MovedRows keeps the other rows as they are.
LEMMA MovedAround ==
  ASSUME NEW s \in Seq(Row), NEW from \in Nat, NEW count \in Nat, 1 <= from, from + count <= Len(s) + 1,
         NEW place \in Nat, 1 <= place, place + count <= Len(s) + 1
  PROVE  \E rest : /\ Around(s, rest, from, count)
                   /\ Around(MovedRows(s, from, count, place), rest, place, count)
                   /\ \A j \in 1..count : MovedRows(s, from, count, place)[place + j - 1] = s[from + j - 1]
<1> DEFINE block == SubSeq(s, from, from + count - 1)
           rest == Cut(s, from, count)
           t == MovedRows(s, from, count, place)
<1>1. Around(s, rest, from, count)
  BY CutAround
<1>2. t = Pasted(rest, block, place)
  BY DEF MovedRows, Pasted, Cut
<1>3. block \in Seq(Row) /\ Len(block) = count /\ \A j \in 1..count : block[j] = s[from + j - 1]
  <2>1. Len(s) \in Nat /\ from + count - 1 \in Nat /\ from <= (from + count - 1) + 1
        /\ from + count - 1 <= Len(s) /\ (from + count - 1) + 1 - from = count
    OBVIOUS
  <2> QED
    BY SMTT(30), <2>1, PartOf
<1> HIDE DEF rest, block, t
<1>4. rest \in Seq(Row) /\ Len(rest) \in Nat /\ Len(s) = Len(rest) + count
  BY <1>1 DEF Around
<1>5. place \in 1..Len(rest) + 1
  BY <1>4
<1>6. /\ Around(t, rest, place, Len(block))
      /\ \A j \in 1..Len(block) : t[place + j - 1] = block[j]
  <2>1. rest \in Seq(Row) /\ block \in Seq(Row)
    BY <1>3, <1>4
  <2> QED
    BY SMTT(30), <1>2, <1>5, <2>1, PasteAround
<1>7. \A j \in 1..count : t[place + j - 1] = s[from + j - 1]
  BY <1>3, <1>6
<1> QED
  BY <1>1, <1>3, <1>6, <1>7 DEF t

-----------------------------------------------------------------------------
(* The shape of a list.                                                    *)

\* The L rows from lo on are the rows of an application: one record or overlap, or
\* a header and two records or more.
Block(s, lo, L) ==
  /\ lo \in Nat /\ L \in Nat /\ 1 <= lo /\ 1 <= L /\ lo + L <= Len(s) + 1
  /\ \A j \in 1..Len(s) : s[j].app = s[lo].app <=> lo <= j /\ j < lo + L
  /\ L = 1 => s[lo].type # "group"
  /\ L > 1 => /\ L >= 3 /\ s[lo].type = "group"
              /\ \A j \in 1..Len(s) : lo < j /\ j < lo + L => s[j].type = "normal"

\* Every row is in the block of its application.
Whole(s) == \A i \in 1..Len(s) : \E lo, L \in Nat : Block(s, lo, L) /\ lo <= i /\ i < lo + L

\* The pinned applications P are above all others.
PinsOnTop(s, P) == \A i, j \in 1..Len(s) : i < j /\ s[j].app \in P => s[i].app \in P

\* Only the applications D have two rows of one record.
Singly(s, D) ==
  \A i, j \in 1..Len(s) :
    i # j /\ s[i].app = s[j].app /\ s[i].type = "normal" /\ s[j].type = "normal" /\ s[i].n = s[j].n
      => s[i].app \in D

Shape(s, P, D) == s \in Seq(Row) /\ Whole(s) /\ PinsOnTop(s, P) /\ Singly(s, D)

NoneOf(s, a) == \A i \in 1..Len(s) : s[i].app # a

\* Rows of a can be put before row p: nothing is torn apart and the pins stay on top.
Gap(s, p, a, P) ==
  /\ p \in Nat /\ 1 <= p /\ p <= Len(s) + 1
  /\ 1 < p /\ p <= Len(s) => s[p - 1].app # s[p].app
  /\ a \in P => \A i \in 1..Len(s) : i < p => s[i].app \in P
  /\ a \notin P => \A i \in 1..Len(s) : p <= i => s[i].app \notin P

\* The rows of other applications than a are the same ones.
OthersSame(s, t, a) ==
  /\ \A i \in 1..Len(s) : s[i].app # a => \E j \in 1..Len(t) : t[j] = s[i]
  /\ \A i \in 1..Len(t) : t[i].app # a => \E j \in 1..Len(s) : s[j] = t[i]

\* Two blocks of one list are one, or one is before the other.
LEMMA BlocksApart ==
  ASSUME NEW s, Len(s) \in Nat, NEW lo, NEW L, NEW lo2, NEW L2, Block(s, lo, L), Block(s, lo2, L2)
  PROVE  \/ lo = lo2 /\ L = L2
         \/ s[lo].app # s[lo2].app /\ (lo + L <= lo2 \/ lo2 + L2 <= lo)
<1>1. /\ lo \in Nat /\ L \in Nat /\ 1 <= lo /\ 1 <= L /\ lo + L <= Len(s) + 1
      /\ lo2 \in Nat /\ L2 \in Nat /\ 1 <= lo2 /\ 1 <= L2 /\ lo2 + L2 <= Len(s) + 1
      /\ \A j \in 1..Len(s) : s[j].app = s[lo].app <=> lo <= j /\ j < lo + L
      /\ \A j \in 1..Len(s) : s[j].app = s[lo2].app <=> lo2 <= j /\ j < lo2 + L2
  BY DEF Block
<1>2. /\ lo \in 1..Len(s) /\ lo2 \in 1..Len(s)
      /\ lo + L - 1 \in 1..Len(s) /\ lo2 + L2 - 1 \in 1..Len(s)
  BY <1>1
<1>3. CASE s[lo].app = s[lo2].app
  <2>1. lo2 <= lo /\ lo <= lo2
    BY <1>1, <1>2, <1>3
  <2>2. lo + L - 1 < lo2 + L2 /\ lo2 + L2 - 1 < lo + L
    BY <1>1, <1>2, <1>3
  <2> QED
    BY <1>1, <2>1, <2>2
<1>4. CASE s[lo].app # s[lo2].app
  <2>1. ~ (lo2 <= lo /\ lo < lo2 + L2) /\ ~ (lo <= lo2 /\ lo2 < lo + L)
    BY <1>1, <1>2, <1>4
  <2> QED
    BY <1>1, <1>4, <2>1
<1> QED
  BY <1>3, <1>4

\* Taking a block out.
LEMMA TakeOut ==
  ASSUME NEW P, NEW D, NEW s, NEW rest, NEW lo, NEW L, Shape(s, P, D), Block(s, lo, L),
         Around(s, rest, lo, L)
  PROVE  /\ Shape(rest, P, D) /\ NoneOf(rest, s[lo].app)
         /\ Gap(rest, lo, s[lo].app, P) /\ OthersSame(s, rest, s[lo].app)
<1> DEFINE a == s[lo].app
           out(j) == IF j < lo THEN j ELSE j + L
<1>1. /\ s \in Seq(Row) /\ rest \in Seq(Row) /\ L \in Nat /\ lo \in Nat
      /\ Len(s) \in Nat /\ Len(rest) \in Nat
      /\ 1 <= lo /\ lo <= Len(rest) + 1 /\ Len(s) = Len(rest) + L
      /\ \A j \in 1..Len(s) : j < lo => s[j] = rest[j]
      /\ \A j \in 1..Len(s) : lo + L <= j => s[j] = rest[j - L]
  BY DEF Around
<1>2. /\ 1 <= L /\ lo + L <= Len(s) + 1
      /\ \A j \in 1..Len(s) : s[j].app = a <=> lo <= j /\ j < lo + L
  BY DEF Block
<1>3. \A j \in 1..Len(rest) : /\ out(j) \in 1..Len(s) /\ rest[j] = s[out(j)]
                              /\ out(j) < lo \/ lo + L <= out(j)
  <2> SUFFICES ASSUME NEW j \in 1..Len(rest)
               PROVE  /\ out(j) \in 1..Len(s) /\ rest[j] = s[out(j)]
                      /\ out(j) < lo \/ lo + L <= out(j)
    OBVIOUS
  <2>1. CASE j < lo
    BY <1>1, <2>1
  <2>2. CASE lo <= j
    <3>1. j + L \in 1..Len(s) /\ lo + L <= j + L /\ (j + L) - L = j
      BY <1>1, <2>2
    <3> QED
      BY <1>1, <2>2, <3>1
  <2> QED
    BY <1>1, <2>1, <2>2
<1>4. NoneOf(rest, a)
  BY <1>1, <1>2, <1>3 DEF NoneOf
<1>5. PinsOnTop(rest, P)
  <2> SUFFICES ASSUME NEW i \in 1..Len(rest), NEW j \in 1..Len(rest), i < j, rest[j].app \in P
               PROVE  rest[i].app \in P
    BY DEF PinsOnTop
  <2>1. out(i) < out(j)
    BY <1>1
  <2>2. \A x, y \in 1..Len(s) : x < y /\ s[y].app \in P => s[x].app \in P
    BY DEF Shape, PinsOnTop
  <2> QED
    BY <1>3, <2>1, <2>2
<1>6. Singly(rest, D)
  <2> SUFFICES ASSUME NEW i \in 1..Len(rest), NEW j \in 1..Len(rest), i # j,
                      rest[i].app = rest[j].app, rest[i].type = "normal", rest[j].type = "normal",
                      rest[i].n = rest[j].n
               PROVE  rest[i].app \in D
    BY DEF Singly
  <2>1. out(i) # out(j)
    BY <1>1
  <2>2. \A x, y \in 1..Len(s) :
          x # y /\ s[x].app = s[y].app /\ s[x].type = "normal" /\ s[y].type = "normal" /\ s[x].n = s[y].n
            => s[x].app \in D
    BY DEF Shape, Singly
  <2> QED
    BY <1>3, <2>1, <2>2
<1>7. Gap(rest, lo, a, P)
  <2>1. 1 < lo /\ lo <= Len(rest) => rest[lo - 1].app # rest[lo].app
    <3> SUFFICES ASSUME 1 < lo, lo <= Len(rest), rest[lo - 1].app = rest[lo].app PROVE FALSE
      OBVIOUS
    <3>1. /\ lo - 1 \in 1..Len(s) /\ lo + L \in 1..Len(s) /\ lo - 1 < lo /\ lo \in 1..Len(s)
          /\ (lo + L) - L = lo /\ lo \in 1..Len(rest)
      BY SMTT(30), <1>1, <1>2
    <3>2. s[lo - 1] = rest[lo - 1] /\ s[lo + L] = rest[lo]
      BY <1>1, <3>1
    <3>3. PICK lo2 \in Nat, L2 \in Nat : Block(s, lo2, L2) /\ lo2 <= lo - 1 /\ lo - 1 < lo2 + L2
      BY <3>1 DEF Shape, Whole
    <3>4. \A j \in 1..Len(s) : s[j].app = s[lo2].app <=> lo2 <= j /\ j < lo2 + L2
      BY <3>3 DEF Block
    <3>5. s[lo + L].app = s[lo2].app
      BY <3>1, <3>2, <3>3, <3>4
    <3>6. lo + L < lo2 + L2
      BY <3>1, <3>4, <3>5
    <3>7. s[lo].app = s[lo2].app
      BY <1>1, <3>1, <3>3, <3>4, <3>6
    <3> QED
      BY <1>1, <1>2, <3>1, <3>5, <3>7
  <2>2. \A x, y \in 1..Len(s) : x < y /\ s[y].app \in P => s[x].app \in P
    BY DEF Shape, PinsOnTop
  <2>3. lo \in 1..Len(s)
    BY <1>1, <1>2
  <2>4. ASSUME a \in P, NEW i \in 1..Len(rest), i < lo PROVE rest[i].app \in P
    BY <1>1, <1>3, <2>2, <2>3, <2>4
  <2>5. ASSUME a \notin P, NEW i \in 1..Len(rest), lo <= i PROVE rest[i].app \notin P
    <3>1. out(i) = i + L /\ lo < i + L
      BY <1>1, <1>2, <2>5
    <3> QED
      BY <1>3, <2>2, <2>3, <2>5, <3>1
  <2> QED
    BY <1>1, <2>1, <2>4, <2>5 DEF Gap
<1>8. OthersSame(s, rest, a)
  <2>1. ASSUME NEW i \in 1..Len(s), s[i].app # a PROVE \E j \in 1..Len(rest) : rest[j] = s[i]
    <3>1. i < lo \/ lo + L <= i
      BY <1>1, <1>2, <2>1
    <3>2. CASE i < lo
      BY <1>1, <3>2
    <3>3. CASE lo + L <= i
      <4>1. i - L \in 1..Len(rest)
        BY <1>1, <3>3
      <4> QED
        BY <1>1, <3>3, <4>1
    <3> QED
      BY <3>1, <3>2, <3>3
  <2>2. ASSUME NEW i \in 1..Len(rest) PROVE \E j \in 1..Len(s) : s[j] = rest[i]
    BY <1>3
  <2> QED
    BY <2>1, <2>2 DEF OthersSame
<1>9. Whole(rest)
  <2> SUFFICES ASSUME NEW i \in 1..Len(rest)
               PROVE  \E lo1, L1 \in Nat : Block(rest, lo1, L1) /\ lo1 <= i /\ i < lo1 + L1
    BY DEF Whole
  <2>1. PICK lo2 \in Nat, L2 \in Nat : Block(s, lo2, L2) /\ lo2 <= out(i) /\ out(i) < lo2 + L2
    BY <1>3 DEF Shape, Whole
  <2>2. /\ 1 <= lo2 /\ 1 <= L2 /\ lo2 + L2 <= Len(s) + 1
        /\ \A j \in 1..Len(s) : s[j].app = s[lo2].app <=> lo2 <= j /\ j < lo2 + L2
        /\ L2 = 1 => s[lo2].type # "group"
        /\ L2 > 1 => /\ L2 >= 3 /\ s[lo2].type = "group"
                     /\ \A j \in 1..Len(s) : lo2 < j /\ j < lo2 + L2 => s[j].type = "normal"
    BY <2>1 DEF Block
  <2>3. s[lo2].app # a
    <3>1. out(i) \in 1..Len(s) /\ (out(i) < lo \/ lo + L <= out(i))
      BY <1>3
    <3> HIDE DEF out, a
    <3>2. s[out(i)].app = s[lo2].app
      BY <2>1, <2>2, <3>1
    <3>3. out(i) \in Nat /\ lo + L \in Nat
      BY <1>1, <3>1
    <3>4. ~ (lo <= out(i) /\ out(i) < lo + L)
      BY <1>1, <3>1, <3>3
    <3> QED
      BY <1>2, <3>1, <3>2, <3>4
  <2>4. lo + L <= lo2 \/ lo2 + L2 <= lo
    BY <1>1, <2>1, <2>3, BlocksApart
  <2> DEFINE lo1 == IF lo2 < lo THEN lo2 ELSE lo2 - L
  <2>5. lo1 \in 1..Len(rest) /\ lo1 + L2 <= Len(rest) + 1 /\ out(lo1) = lo2
    BY <1>1, <1>2, <2>1, <2>2, <2>4
  <2>6. rest[lo1] = s[lo2]
    BY <1>3, <2>5
  <2>7. \A j \in 1..Len(rest) : /\ lo2 <= out(j) <=> lo1 <= j
                                /\ out(j) < lo2 + L2 <=> j < lo1 + L2
                                /\ lo2 < out(j) <=> lo1 < j
    <3> SUFFICES ASSUME NEW j \in 1..Len(rest)
                 PROVE  /\ lo2 <= out(j) <=> lo1 <= j
                        /\ out(j) < lo2 + L2 <=> j < lo1 + L2
                        /\ lo2 < out(j) <=> lo1 < j
      OBVIOUS
    <3>1. CASE lo + L <= lo2
      BY <1>1, <1>2, <2>1, <2>2, <3>1
    <3>2. CASE lo2 + L2 <= lo
      BY <1>1, <1>2, <2>1, <2>2, <3>2
    <3> QED
      BY <2>4, <3>1, <3>2
  <2> HIDE DEF lo1, out, a
  <2>8. \A j \in 1..Len(rest) : rest[j].app = rest[lo1].app <=> lo1 <= j /\ j < lo1 + L2
    BY <1>3, <2>2, <2>6, <2>7
  <2>9. L2 > 1 => \A j \in 1..Len(rest) : lo1 < j /\ j < lo1 + L2 => rest[j].type = "normal"
    BY <1>3, <2>2, <2>7
  <2>10. Block(rest, lo1, L2)
    BY <2>1, <2>2, <2>5, <2>6, <2>8, <2>9 DEF Block
  <2>11. lo1 <= i /\ i < lo1 + L2
    BY <2>1, <2>7
  <2>12. lo1 \in Nat /\ L2 \in Nat
    BY <2>1, <2>5
  <2> QED
    BY <2>10, <2>11, <2>12
<1> QED
  BY <1>1, <1>4, <1>5, <1>6, <1>7, <1>8, <1>9 DEF Shape

\* Putting a block in.
Form(t, p, L, a) ==
  /\ 1 <= L
  /\ \A j \in 1..Len(t) : p <= j /\ j < p + L => t[j].app = a
  /\ L = 1 => t[p].type # "group"
  /\ L > 1 => /\ L >= 3 /\ t[p].type = "group"
              /\ \A j \in 1..Len(t) : p < j /\ j < p + L => t[j].type = "normal"

Distinct(t, p, L) ==
  \A i, j \in 1..Len(t) :
    p <= i /\ i < p + L /\ p <= j /\ j < p + L /\ i # j /\ t[i].type = "normal" /\ t[j].type = "normal"
      => t[i].n # t[j].n

\* A block fits where there is a gap for its application.
LEMMA PutIn ==
  ASSUME NEW P, NEW D, NEW E, D \subseteq E, NEW rest, NEW t, NEW p, NEW L, NEW a,
         Shape(rest, P, D), NoneOf(rest, a), Gap(rest, p, a, P), Around(t, rest, p, L), Form(t, p, L, a),
         a \in E \/ Distinct(t, p, L)
  PROVE  Shape(t, P, E) /\ Block(t, p, L) /\ t[p].app = a /\ OthersSame(rest, t, a)
<1> DEFINE out(j) == IF j < p THEN j ELSE j + L
           in(j) == IF j < p THEN j ELSE j - L
           own(j) == p <= j /\ j < p + L
<1>1. /\ t \in Seq(Row) /\ rest \in Seq(Row) /\ L \in Nat /\ p \in Nat
      /\ Len(t) \in Nat /\ Len(rest) \in Nat
      /\ 1 <= p /\ p <= Len(rest) + 1 /\ Len(t) = Len(rest) + L
      /\ \A j \in 1..Len(t) : j < p => t[j] = rest[j]
      /\ \A j \in 1..Len(t) : p + L <= j => t[j] = rest[j - L]
  BY DEF Around
<1>2. /\ 1 <= L /\ p \in 1..Len(t) /\ own(p)
      /\ \A j \in 1..Len(t) : own(j) => t[j].app = a
  BY <1>1 DEF Form
<1>3. \A j \in 1..Len(rest) : out(j) \in 1..Len(t) /\ rest[j] = t[out(j)] /\ ~own(out(j)) /\ in(out(j)) = j
  <2> SUFFICES ASSUME NEW j \in 1..Len(rest)
               PROVE  out(j) \in 1..Len(t) /\ rest[j] = t[out(j)] /\ ~own(out(j)) /\ in(out(j)) = j
    OBVIOUS
  <2>1. CASE j < p
    BY <1>1, <2>1
  <2>2. CASE p <= j
    <3>1. j + L \in 1..Len(t) /\ p + L <= j + L /\ (j + L) - L = j /\ ~ (j + L < p)
      BY <1>1, <2>2
    <3> QED
      BY <1>1, <2>2, <3>1
  <2> QED
    BY <1>1, <2>1, <2>2
<1>4. \A j \in 1..Len(t) : ~own(j) => in(j) \in 1..Len(rest) /\ t[j] = rest[in(j)] /\ out(in(j)) = j
  <2> SUFFICES ASSUME NEW j \in 1..Len(t), ~own(j)
               PROVE  in(j) \in 1..Len(rest) /\ t[j] = rest[in(j)] /\ out(in(j)) = j
    OBVIOUS
  <2>1. CASE j < p
    BY <1>1, <2>1
  <2>2. CASE p + L <= j
    <3>1. j - L \in 1..Len(rest) /\ ~ (j < p) /\ ~ (j - L < p) /\ (j - L) + L = j
      BY <1>1, <1>2, <2>2
    <3> QED
      BY <1>1, <2>2, <3>1
  <2> QED
    BY <1>1, <2>1, <2>2
<1>5. \A i, j \in 1..Len(t) : ~own(i) /\ ~own(j) => (in(i) < in(j) <=> i < j) /\ (in(i) <= in(j) <=> i <= j)
  BY <1>1, <1>2
<1>6. \A j \in 1..Len(t) : t[j].app = a <=> own(j)
  <2>1. \A j \in 1..Len(rest) : rest[j].app # a
    BY DEF NoneOf
  <2> HIDE DEF own, in
  <2> QED
    BY <1>2, <1>4, <2>1
<1>7. Block(t, p, L) /\ t[p].app = a
  <2>1. t[p].app = a
    BY <1>2
  <2>2. \A j \in 1..Len(t) : t[j].app = t[p].app <=> p <= j /\ j < p + L
    BY <1>6, <2>1
  <2> QED
    BY <1>1, <2>1, <2>2 DEF Block, Form
<1>8. OthersSame(rest, t, a)
  <2>1. \A i \in 1..Len(rest) : \E j \in 1..Len(t) : t[j] = rest[i]
    BY <1>3
  <2>2. \A i \in 1..Len(t) : t[i].app # a => \E j \in 1..Len(rest) : rest[j] = t[i]
    <3> HIDE DEF own, in
    <3> QED
      BY <1>4, <1>6
  <2> QED
    BY <2>1, <2>2 DEF OthersSame
<1>9. PinsOnTop(t, P)
  <2> SUFFICES ASSUME NEW i \in 1..Len(t), NEW j \in 1..Len(t), i < j, t[j].app \in P
               PROVE  t[i].app \in P
    BY DEF PinsOnTop
  <2>1. CASE own(i) /\ own(j)
    BY <1>2, <2>1
  <2>2. CASE ~own(i) /\ ~own(j)
    <3>1. \A x, y \in 1..Len(rest) : x < y /\ rest[y].app \in P => rest[x].app \in P
      BY DEF Shape, PinsOnTop
    <3> HIDE DEF own, in
    <3> QED
      BY <1>4, <1>5, <2>2, <3>1
  <2>3. CASE own(i) /\ ~own(j)
    <3>1. in(j) \in 1..Len(rest) /\ p <= in(j) /\ t[j] = rest[in(j)]
      <4>1. p <= in(j)
        BY <1>1, <2>3
      <4> QED
        BY <1>4, <2>3, <4>1
    <3>2. a \notin P => \A x \in 1..Len(rest) : p <= x => rest[x].app \notin P
      BY DEF Gap
    <3> HIDE DEF own, in
    <3> QED
      BY <1>2, <2>3, <3>1, <3>2
  <2>4. CASE ~own(i) /\ own(j)
    <3>1. in(i) \in 1..Len(rest) /\ in(i) < p /\ t[i] = rest[in(i)]
      <4>1. in(i) < p
        BY <1>1, <2>4
      <4> QED
        BY <1>4, <2>4, <4>1
    <3>2. a \in P => \A x \in 1..Len(rest) : x < p => rest[x].app \in P
      BY DEF Gap
    <3> HIDE DEF own, in
    <3> QED
      BY <1>2, <2>4, <3>1, <3>2
  <2> QED
    BY <2>1, <2>2, <2>3, <2>4
<1>10. Singly(t, E)
  <2> SUFFICES ASSUME NEW i \in 1..Len(t), NEW j \in 1..Len(t), i # j,
                      t[i].app = t[j].app, t[i].type = "normal", t[j].type = "normal",
                      t[i].n = t[j].n
               PROVE  t[i].app \in E
    BY DEF Singly
  <2>1. CASE own(i)
    <3>1. own(j)
      BY <1>6, <2>1
    <3> QED
      BY <1>2, <2>1, <3>1 DEF Distinct
  <2>2. CASE ~own(i)
    <3>1. ~own(j)
      BY <1>6, <2>2
    <3>2. in(i) # in(j)
      BY <1>5, <2>2, <3>1
    <3>3. \A x, y \in 1..Len(rest) :
            x # y /\ rest[x].app = rest[y].app /\ rest[x].type = "normal" /\ rest[y].type = "normal"
              /\ rest[x].n = rest[y].n => rest[x].app \in D
      BY DEF Shape, Singly
    <3> HIDE DEF own, in
    <3> QED
      BY <1>4, <2>2, <3>1, <3>2, <3>3
  <2> QED
    BY <2>1, <2>2
<1>11. Whole(t)
  <2> SUFFICES ASSUME NEW i \in 1..Len(t)
               PROVE  \E lo1, L1 \in Nat : Block(t, lo1, L1) /\ lo1 <= i /\ i < lo1 + L1
    BY DEF Whole
  <2>1. CASE own(i)
    BY <1>1, <1>7, <2>1
  <2>2. CASE ~own(i)
    <3>1. in(i) \in 1..Len(rest) /\ t[i] = rest[in(i)]
      BY <1>4, <2>2
    <3>2. PICK lo2 \in Nat, L2 \in Nat : Block(rest, lo2, L2) /\ lo2 <= in(i) /\ in(i) < lo2 + L2
      BY <3>1 DEF Shape, Whole
    <3>3. /\ 1 <= lo2 /\ 1 <= L2 /\ lo2 + L2 <= Len(rest) + 1
          /\ \A j \in 1..Len(rest) : rest[j].app = rest[lo2].app <=> lo2 <= j /\ j < lo2 + L2
          /\ L2 = 1 => rest[lo2].type # "group"
          /\ L2 > 1 => /\ L2 >= 3 /\ rest[lo2].type = "group"
                       /\ \A j \in 1..Len(rest) : lo2 < j /\ j < lo2 + L2 => rest[j].type = "normal"
      BY <3>2 DEF Block
    <3>4. lo2 \in 1..Len(rest)
      BY <1>1, <3>3
    <3>5. p <= lo2 \/ lo2 + L2 <= p
      <4> SUFFICES ASSUME lo2 < p, p < lo2 + L2 PROVE FALSE
        BY <1>1, <3>3
      <4>1. p - 1 \in 1..Len(rest) /\ p \in 1..Len(rest) /\ 1 < p /\ p <= Len(rest)
            /\ lo2 <= p - 1 /\ p - 1 < lo2 + L2 /\ lo2 <= p
        BY <1>1, <3>3
      <4>2. rest[p - 1].app # rest[p].app
        BY <4>1 DEF Gap
      <4> QED
        BY <3>3, <4>1, <4>2
    <3> DEFINE lo1 == out(lo2)
    <3>6. lo1 \in 1..Len(t) /\ rest[lo2] = t[lo1] /\ ~own(lo1) /\ in(lo1) = lo2
      BY <1>3, <3>4
    <3>7. lo1 + L2 <= Len(t) + 1
      BY <1>1, <3>3, <3>5
    <3>8. \A j \in 1..Len(t) : ~own(j) => /\ lo2 <= in(j) <=> lo1 <= j
                                          /\ in(j) < lo2 + L2 <=> j < lo1 + L2
                                          /\ lo2 < in(j) <=> lo1 < j
      <4> SUFFICES ASSUME NEW j \in 1..Len(t), ~own(j)
                   PROVE  /\ lo2 <= in(j) <=> lo1 <= j
                          /\ in(j) < lo2 + L2 <=> j < lo1 + L2
                          /\ lo2 < in(j) <=> lo1 < j
        OBVIOUS
      <4>1. CASE p <= lo2
        BY <1>1, <1>2, <3>3, <3>4, <4>1
      <4>2. CASE lo2 + L2 <= p
        BY <1>1, <1>2, <3>3, <3>4, <4>2
      <4> QED
        BY <3>5, <4>1, <4>2
    <3>9. \A j \in 1..Len(t) : own(j) => ~ (lo1 <= j /\ j < lo1 + L2)
      BY <1>1, <1>2, <3>3, <3>4, <3>5
    <3> HIDE DEF lo1, own, in, out
    <3>10. rest[lo2].app # a
      BY <3>4 DEF NoneOf
    <3>11. \A j \in 1..Len(t) : t[j].app = t[lo1].app <=> lo1 <= j /\ j < lo1 + L2
      <4> SUFFICES ASSUME NEW j \in 1..Len(t) PROVE t[j].app = t[lo1].app <=> lo1 <= j /\ j < lo1 + L2
        OBVIOUS
      <4>1. CASE own(j)
        BY <1>6, <3>6, <3>9, <3>10, <4>1
      <4>2. CASE ~own(j)
        BY <1>4, <3>3, <3>6, <3>8, <4>2
      <4> QED
        BY <4>1, <4>2
    <3>12. L2 > 1 => \A j \in 1..Len(t) : lo1 < j /\ j < lo1 + L2 => t[j].type = "normal"
      <4> SUFFICES ASSUME L2 > 1, NEW j \in 1..Len(t), lo1 < j, j < lo1 + L2 PROVE t[j].type = "normal"
        OBVIOUS
      <4>1. ~own(j)
        BY <3>6, <3>9
      <4> QED
        BY <1>4, <3>3, <3>8, <4>1
    <3>13. Block(t, lo1, L2)
      BY <3>2, <3>3, <3>6, <3>7, <3>11, <3>12 DEF Block
    <3>14. lo1 <= i /\ i < lo1 + L2
      BY <2>2, <3>2, <3>8
    <3> QED
      BY <3>2, <3>6, <3>13, <3>14
  <2> QED
    BY <2>1, <2>2
<1> QED
  BY <1>1, <1>7, <1>8, <1>9, <1>10, <1>11 DEF Shape

\* What the operators that look for a row find in a block, and where there is none.
LEMMA BlockFound ==
  ASSUME NEW s \in Seq(Row), NEW lo, NEW L, Block(s, lo, L)
  PROVE  LET a == s[lo].app
         IN  /\ RowOf(s, a) = lo /\ GroupOf(s, a) = (IF L > 1 THEN lo ELSE 0)
             /\ NormalsOf(s, a) = {i \in 1..Len(s) : lo <= i /\ i < lo + L /\ s[i].type = "normal"}
<1> DEFINE a == s[lo].app
           I == {i \in 1..Len(s) : s[i].app = a}
           G == {i \in 1..Len(s) : s[i].app = a /\ s[i].type = "group"}
<1>1. /\ lo \in Nat /\ L \in Nat /\ 1 <= lo /\ 1 <= L /\ lo + L <= Len(s) + 1 /\ Len(s) \in Nat
      /\ \A j \in 1..Len(s) : s[j].app = a <=> lo <= j /\ j < lo + L
      /\ L = 1 => s[lo].type # "group"
      /\ L > 1 => /\ L >= 3 /\ s[lo].type = "group"
                  /\ \A j \in 1..Len(s) : lo < j /\ j < lo + L => s[j].type = "normal"
  BY DEF Block
<1>2. lo \in I /\ \A i \in I : lo <= i
  BY <1>1
<1>3. RowOf(s, a) = lo
  <2>1. RowOf(s, a) = IF I # {} THEN Min(I) ELSE 0
    BY DEF RowOf, SelectInSeq
  <2>2. I \in SUBSET Nat
    BY <1>1
  <2> HIDE DEF I, a
  <2>3. Min(I) \in I /\ Min(I) <= lo
    BY <1>2, <2>2, MinOfRows
  <2>4. lo <= Min(I) /\ Min(I) \in Nat
    BY <1>2, <2>2, <2>3
  <2> QED
    BY <1>1, <1>2, <2>1, <2>3, <2>4
<1>4. GroupOf(s, a) = IF L > 1 THEN lo ELSE 0
  <2>1. GroupOf(s, a) = IF G # {} THEN Min(G) ELSE 0
    BY DEF GroupOf, SelectInSeq
  <2>2. CASE L > 1
    <3>1. G = {lo}
      <4>1. lo \in 1..Len(s) /\ s[lo].type = "group" /\ lo <= lo /\ lo < lo + L
        BY <1>1, <2>2
      <4>2. ASSUME NEW i \in G PROVE i = lo
        <5>1. i \in 1..Len(s) /\ s[i].app = a /\ s[i].type = "group"
          OBVIOUS
        <5>2. lo <= i /\ i < lo + L /\ s[i].type # "normal"
          BY <1>1, <5>1
        <5>3. ~ (lo < i)
          BY <1>1, <2>2, <5>1, <5>2
        <5> QED
          BY <1>1, <5>1, <5>2, <5>3
      <4> QED
        BY <4>1, <4>2
    <3>2. G \in SUBSET Nat /\ G # {}
      BY <1>1, <3>1
    <3> HIDE DEF G
    <3>3. Min(G) \in G
      BY <3>2, MinOfRows
    <3> QED
      BY <2>1, <2>2, <3>1, <3>3
  <2>3. CASE L = 1
    <3>1. \A i \in 1..Len(s) : lo <= i /\ i < lo + L => i = lo
      BY <1>1, <2>3
    <3>2. G = {}
      BY <1>1, <2>3, <3>1
    <3> QED
      BY <2>1, <2>3, <3>2
  <2> QED
    BY <1>1, <2>2, <2>3
<1>5. NormalsOf(s, a) = {i \in 1..Len(s) : lo <= i /\ i < lo + L /\ s[i].type = "normal"}
  BY <1>1 DEF NormalsOf
<1> QED
  BY <1>3, <1>4, <1>5

\* An application without rows is not found.
LEMMA NoneFound ==
  ASSUME NEW s \in Seq(Row), NEW a
  PROVE  /\ RowOf(s, a) = 0 <=> NoneOf(s, a)
         /\ NoneOf(s, a) => GroupOf(s, a) = 0 /\ NormalsOf(s, a) = {}
<1> DEFINE I == {i \in 1..Len(s) : s[i].app = a}
<1>1. RowOf(s, a) = IF I # {} THEN Min(I) ELSE 0
  BY DEF RowOf, SelectInSeq
<1>2. I # {} => Min(I) # 0
  <2>1. I \in SUBSET Nat /\ 0 \notin I
    OBVIOUS
  <2> HIDE DEF I
  <2> QED
    BY <2>1, MinOfRows
<1>3. I = {} <=> NoneOf(s, a)
  BY DEF NoneOf
<1>4. NoneOf(s, a) => GroupOf(s, a) = 0 /\ NormalsOf(s, a) = {}
  BY DEF NoneOf, GroupOf, SelectInSeq, NormalsOf
<1> QED
  BY <1>1, <1>2, <1>3, <1>4

\* The block of an application that has a row, and the block of a row.
LEMMA FirstRow ==
  ASSUME NEW s \in Seq(Row), Whole(s), NEW a, ~NoneOf(s, a)
  PROVE  /\ RowOf(s, a) \in 1..Len(s) /\ s[RowOf(s, a)].app = a
         /\ \E L \in Nat : Block(s, RowOf(s, a), L)
<1>1. PICK i \in 1..Len(s) : s[i].app = a
  BY DEF NoneOf
<1>2. PICK lo \in Nat, L \in Nat : Block(s, lo, L) /\ lo <= i /\ i < lo + L
  BY DEF Whole
<1>3. s[lo].app = a /\ lo \in 1..Len(s)
  BY <1>1, <1>2 DEF Block
<1>4. RowOf(s, a) = lo
  BY <1>2, <1>3, BlockFound
<1> QED
  BY <1>2, <1>3, <1>4

\* The rows of a block are placed by its first row.
LEMMA PlacedByHead ==
  ASSUME NEW s \in Seq(Row), NEW lo, NEW L, Block(s, lo, L), NEW i \in 1..Len(s), lo <= i, i < lo + L
  PROVE  PlacedBy(s, s[i]) = s[lo].n
<1>1. /\ lo \in Nat /\ L \in Nat /\ 1 <= lo /\ 1 <= L /\ s[i].app = s[lo].app
  BY DEF Block
<1>2. GroupOf(s, s[i].app) = IF L > 1 THEN lo ELSE 0
  BY <1>1, BlockFound
<1>3. L = 1 => i = lo
  BY <1>1
<1> QED
  BY <1>1, <1>2, <1>3 DEF PlacedBy

\* The rows are of notifications of their applications.
Fits(s) == \A i \in 1..Len(s) : s[i].n \in Note /\ app[s[i].n] = s[i].app

\* lastNotifyIndex finds a place between blocks.
LEMMA LastNotifyGap ==
  ASSUME NEW s, NEW D, Shape(s, pinned, D), Fits(s), NEW n \in Note
  PROVE  /\ Gap(s, LastNotifyIndex(s, n), app[n], pinned)
         /\ \A i \in 1..Len(s) : GreaterNotify(pinned, n, PlacedBy(s, s[i])) => LastNotifyIndex(s, n) <= i
<1> DEFINE I == {i \in DOMAIN s : GreaterNotify(pinned, n, PlacedBy(s, s[i]))}
           p == LastNotifyIndex(s, n)
           a == app[n]
<1>1. s \in Seq(Row) /\ Len(s) \in Nat /\ DOMAIN s = 1..Len(s) /\ Whole(s) /\ PinsOnTop(s, pinned)
  BY DEF Shape
<1>2. p = Min(I \cup {Len(s) + 1})
  BY DEF LastNotifyIndex
<1>3. p \in I \cup {Len(s) + 1} /\ \A i \in I \cup {Len(s) + 1} : p <= i
  <2>1. I \cup {Len(s) + 1} \in SUBSET Nat /\ I \cup {Len(s) + 1} # {}
    BY <1>1
  <2> HIDE DEF I, p
  <2> QED
    BY <1>2, <2>1, MinOfRows
<1> HIDE DEF p
<1>4. p \in Nat /\ 1 <= p /\ p <= Len(s) + 1
  BY <1>1, <1>3
<1>5. \A i \in 1..Len(s) : i < p => ~GreaterNotify(pinned, n, PlacedBy(s, s[i]))
  <2> SUFFICES ASSUME NEW i \in 1..Len(s), i < p, i \in I PROVE FALSE
    BY <1>1
  <2> QED
    BY <1>3, <1>4
<1>6. p \in 1..Len(s) => GreaterNotify(pinned, n, PlacedBy(s, s[p]))
  BY <1>1, <1>3
<1>7. \A i \in 1..Len(s) : app[PlacedBy(s, s[i])] = s[i].app
  <2> SUFFICES ASSUME NEW i \in 1..Len(s) PROVE app[PlacedBy(s, s[i])] = s[i].app
    OBVIOUS
  <2>1. PICK lo \in Nat, L \in Nat : Block(s, lo, L) /\ lo <= i /\ i < lo + L
    BY <1>1 DEF Whole
  <2>2. lo \in 1..Len(s) /\ s[i].app = s[lo].app
    BY <1>1, <2>1 DEF Block
  <2>3. PlacedBy(s, s[i]) = s[lo].n
    BY <1>1, <2>1, PlacedByHead
  <2> QED
    BY <2>2, <2>3 DEF Fits
<1>8. 1 < p /\ p <= Len(s) => s[p - 1].app # s[p].app
  <2> SUFFICES ASSUME 1 < p, p <= Len(s), s[p - 1].app = s[p].app PROVE FALSE
    OBVIOUS
  <2>1. p \in 1..Len(s) /\ p - 1 \in 1..Len(s) /\ p - 1 < p
    BY <1>1, <1>4
  <2>2. PICK lo \in Nat, L \in Nat : Block(s, lo, L) /\ lo <= p /\ p < lo + L
    BY <1>1, <2>1 DEF Whole
  <2>3. lo <= p - 1 /\ p - 1 < lo + L
    BY <2>1, <2>2 DEF Block
  <2>4. PlacedBy(s, s[p - 1]) = PlacedBy(s, s[p])
    <3>1. PlacedBy(s, s[p - 1]) = s[lo].n
      BY <1>1, <2>1, <2>2, <2>3, PlacedByHead
    <3>2. PlacedBy(s, s[p]) = s[lo].n
      BY <1>1, <2>1, <2>2, PlacedByHead
    <3> QED
      BY <3>1, <3>2
  <2> QED
    BY <1>5, <1>6, <2>1, <2>4
<1>9. ASSUME a \in pinned, NEW i \in 1..Len(s), i < p PROVE s[i].app \in pinned
  BY <1>5, <1>7, <1>9 DEF GreaterNotify
<1>10. ASSUME a \notin pinned, NEW i \in 1..Len(s), p <= i PROVE s[i].app \notin pinned
  <2>1. p \in 1..Len(s)
    BY <1>1, <1>4, <1>10
  <2>2. s[p].app \notin pinned
    BY <1>6, <1>7, <1>10, <2>1 DEF GreaterNotify
  <2>3. p = i \/ p < i
    BY <1>4, <1>10
  <2> QED
    BY <1>1, <2>1, <2>2, <2>3 DEF PinsOnTop
<1>11. Gap(s, p, a, pinned)
  BY <1>4, <1>8, <1>9, <1>10 DEF Gap
<1>12. \A i \in 1..Len(s) : GreaterNotify(pinned, n, PlacedBy(s, s[i])) => p <= i
  BY <1>1, <1>3
<1> QED
  BY <1>11, <1>12 DEF p

\* A place above a block stays one when the block is taken out.
LEMMA GapAbove ==
  ASSUME NEW P, NEW a, NEW s, NEW rest, NEW lo, NEW L, Around(s, rest, lo, L), NEW p, Gap(s, p, a, P), p < lo
  PROVE  Gap(rest, p, a, P)
<1> DEFINE out(j) == IF j < lo THEN j ELSE j + L
<1>1. /\ L \in Nat /\ lo \in Nat /\ Len(s) \in Nat /\ Len(rest) \in Nat
      /\ 1 <= lo /\ lo <= Len(rest) + 1 /\ Len(s) = Len(rest) + L
      /\ \A j \in 1..Len(s) : j < lo => s[j] = rest[j]
      /\ \A j \in 1..Len(s) : lo + L <= j => s[j] = rest[j - L]
  BY DEF Around
<1>2. /\ p \in Nat /\ 1 <= p /\ p <= Len(s) + 1
      /\ 1 < p /\ p <= Len(s) => s[p - 1].app # s[p].app
      /\ a \in P => \A i \in 1..Len(s) : i < p => s[i].app \in P
      /\ a \notin P => \A i \in 1..Len(s) : p <= i => s[i].app \notin P
  BY DEF Gap
<1>3. \A j \in 1..Len(rest) : out(j) \in 1..Len(s) /\ rest[j] = s[out(j)]
  <2> SUFFICES ASSUME NEW j \in 1..Len(rest) PROVE out(j) \in 1..Len(s) /\ rest[j] = s[out(j)]
    OBVIOUS
  <2>1. CASE j < lo
    BY <1>1, <2>1
  <2>2. CASE lo <= j
    <3>1. j + L \in 1..Len(s) /\ lo + L <= j + L /\ (j + L) - L = j
      BY <1>1, <2>2
    <3> QED
      BY <1>1, <2>2, <3>1
  <2> QED
    BY <1>1, <2>1, <2>2
<1>4. p <= Len(rest) + 1
  BY <1>1, <1>2
<1>5. 1 < p /\ p <= Len(rest) => rest[p - 1].app # rest[p].app
  <2> SUFFICES ASSUME 1 < p, p <= Len(rest) PROVE rest[p - 1].app # rest[p].app
    OBVIOUS
  <2>1. p \in 1..Len(s) /\ p - 1 \in 1..Len(s) /\ p < lo /\ p - 1 < lo /\ p <= Len(s)
    BY <1>1, <1>2
  <2> QED
    BY <1>1, <1>2, <2>1
<1>6. ASSUME a \in P, NEW i \in 1..Len(rest), i < p PROVE rest[i].app \in P
  <2>1. out(i) < p
    BY <1>1, <1>2, <1>6
  <2> QED
    BY <1>2, <1>3, <1>6, <2>1
<1>7. ASSUME a \notin P, NEW i \in 1..Len(rest), p <= i PROVE rest[i].app \notin P
  <2>1. p <= out(i)
    BY <1>1, <1>2, <1>7
  <2> QED
    BY <1>2, <1>3, <1>7, <2>1
<1> QED
  BY <1>2, <1>4, <1>5, <1>6, <1>7 DEF Gap

\* The size of a set of two parts.
LEMMA TwoParts ==
  ASSUME NEW A, NEW B, IsFiniteSet(A), IsFiniteSet(B), A \cap B = {}, NEW C, C = A \cup B
  PROVE  Cardinality(C) = Cardinality(A) + Cardinality(B)
<1>1. Cardinality(A \cup B) = Cardinality(A) + Cardinality(B) - Cardinality(A \cap B)
  BY FS_Union
<1>2. Cardinality(A \cap B) = 0
  BY FS_EmptySet
<1>3. Cardinality(A) \in Nat /\ Cardinality(B) \in Nat
  BY FS_CardinalityType
<1> QED
  BY <1>1, <1>2, <1>3

\* What is left when a block is selected out of a list.
LEMMA LeftAround ==
  ASSUME NEW s \in Seq(Row), NEW lo \in Nat, NEW L \in Nat, 1 <= lo, lo + L <= Len(s) + 1
  PROVE  Around(s, RowsAt(s, {i \in 1..Len(s) : i < lo \/ lo + L <= i}), lo, L)
<1> DEFINE I == {i \in 1..Len(s) : i < lo \/ lo + L <= i}
           B == {p \in I \X I : p[1] < p[2]}
           q == Ranked(I, B)
           N == Len(s) - L
           out(k) == IF k < lo THEN k ELSE k + L
           t == RowsAt(s, I)
<1>1. Len(s) \in Nat /\ N \in Nat /\ lo <= N + 1 /\ I \subseteq 1..Len(s) /\ \A i \in I : i \in Nat
  OBVIOUS
<1>2. IsFiniteSet(I)
  <2>1. IsFiniteSet(1..Len(s))
    BY <1>1, FS_Interval
  <2> HIDE DEF I
  <2> QED
    BY <1>1, <2>1, FS_Subset
<1>3. \A x, y \in I : <<x, y>> \in B <=> x < y
  OBVIOUS
<1>4. Orders(B, I)
  <2> HIDE DEF I, B
  <2> QED
    BY <1>1, <1>3 DEF Orders
<1>5. \A k \in 1..N : out(k) \in I
  BY <1>1
<1>6. Cardinality(I) = N
  <2>1. I = (1..lo - 1) \cup (lo + L..Len(s)) /\ (1..lo - 1) \cap (lo + L..Len(s)) = {}
    BY <1>1
  <2>2. /\ IsFiniteSet(1..lo - 1) /\ Cardinality(1..lo - 1) = lo - 1
        /\ IsFiniteSet(lo + L..Len(s)) /\ Cardinality(lo + L..Len(s)) = Len(s) - (lo + L) + 1
    <3>1. 1 \in Int /\ lo - 1 \in Int /\ lo + L \in Int /\ Len(s) \in Int
          /\ (1 > lo - 1 => lo - 1 = 0) /\ (lo - 1) - 1 + 1 = lo - 1
          /\ (lo + L > Len(s) => Len(s) - (lo + L) + 1 = 0)
      BY <1>1
    <3> QED
      BY <3>1, FS_Interval
  <2> HIDE DEF I
  <2>3. Cardinality(I) = Cardinality(1..lo - 1) + Cardinality(lo + L..Len(s))
    BY <2>1, <2>2, TwoParts
  <2> QED
    BY <1>1, <2>2, <2>3
<1>7. ASSUME NEW k \in 1..N PROVE Cardinality({y \in I : <<y, out(k)>> \in B}) = k - 1
  <2> DEFINE Y == {y \in I : <<y, out(k)>> \in B}
  <2>1. Y = {y \in I : y < out(k)}
    <3>1. out(k) \in I
      BY <1>5
    <3> HIDE DEF I, B, out
    <3> QED
      BY <1>3, <3>1
  <2> HIDE DEF Y
  <2>2. CASE k < lo
    <3>1. Y = 1..k - 1
      BY <1>1, <2>1, <2>2
    <3>2. 1 \in Int /\ k - 1 \in Int /\ (1 > k - 1 => k - 1 = 0) /\ (k - 1) - 1 + 1 = k - 1
      BY <1>1
    <3>3. Cardinality(1..k - 1) = k - 1
      BY <3>2, FS_Interval
    <3> QED
      BY <3>1, <3>3 DEF Y
  <2>3. CASE lo <= k
    <3>1. Y = (1..lo - 1) \cup (lo + L..k + L - 1) /\ (1..lo - 1) \cap (lo + L..k + L - 1) = {}
      BY <1>1, <2>1, <2>3
    <3>2. /\ IsFiniteSet(1..lo - 1) /\ Cardinality(1..lo - 1) = lo - 1
          /\ IsFiniteSet(lo + L..k + L - 1) /\ Cardinality(lo + L..k + L - 1) = k - lo
      <4>1. 1 \in Int /\ lo - 1 \in Int /\ lo + L \in Int /\ k + L - 1 \in Int
            /\ (1 > lo - 1 => lo - 1 = 0) /\ (lo - 1) - 1 + 1 = lo - 1
            /\ (lo + L > k + L - 1 => k - lo = 0) /\ (k + L - 1) - (lo + L) + 1 = k - lo
        BY <1>1, <2>3
      <4> QED
        BY <4>1, FS_Interval
    <3>3. Cardinality(Y) = Cardinality(1..lo - 1) + Cardinality(lo + L..k + L - 1)
      BY <3>1, <3>2, TwoParts
    <3>4. Cardinality(Y) = k - 1
      BY <1>1, <2>3, <3>2, <3>3
    <3> QED
      BY <3>4 DEF Y
  <2> QED
    BY <1>1, <2>2, <2>3
<1>8. DOMAIN q = 1..N /\ \A k \in 1..N : q[k] = out(k)
  <2>1. DOMAIN q = 1..N
    <3> HIDE DEF I, B, N
    <3> QED
      BY <1>2, <1>4, <1>6, RankedFacts
  <2>2. ASSUME NEW k \in 1..N PROVE q[k] = out(k)
    <3>1. out(k) \in I /\ Cardinality({y \in I : <<y, out(k)>> \in B}) = k - 1
      BY <1>5, <1>7
    <3> HIDE DEF I, B, out, N
    <3> QED
      BY <1>2, <1>4, <1>6, <3>1, RankedFacts
  <2> QED
    BY <2>1, <2>2
<1>9. t = [k \in DOMAIN q |-> s[q[k]]]
  BY DEF RowsAt, Ascending
<1> HIDE DEF I, B, q, t
<1>10. t = [k \in 1..N |-> s[out(k)]]
  BY <1>8, <1>9
<1>11. \A k \in 1..N : s[out(k)] \in Row /\ t[k] = s[out(k)]
  <2>1. \A k \in 1..N : out(k) \in 1..Len(s)
    BY <1>1
  <2>2. \A i \in 1..Len(s) : s[i] \in Row
    OBVIOUS
  <2> HIDE DEF out, N
  <2> QED
    BY <1>10, <2>1, <2>2
<1>12. t \in Seq(Row) /\ Len(t) = N
  <2>1. t \in [1..N -> Row]
    <3> HIDE DEF out, N
    <3> QED
      BY <1>10, <1>11
  <2> HIDE DEF N
  <2> QED
    BY <1>1, <2>1
<1>13. \A j \in 1..Len(s) : j < lo => s[j] = t[j]
  <2> SUFFICES ASSUME NEW j \in 1..Len(s), j < lo PROVE s[j] = t[j]
    OBVIOUS
  <2>1. j \in 1..N /\ out(j) = j
    BY <1>1
  <2> QED
    BY <1>11, <2>1
<1>14. \A j \in 1..Len(s) : lo + L <= j => s[j] = t[j - L]
  <2> SUFFICES ASSUME NEW j \in 1..Len(s), lo + L <= j PROVE s[j] = t[j - L]
    OBVIOUS
  <2>1. j - L \in 1..N /\ out(j - L) = j
    BY <1>1
  <2> QED
    BY <1>11, <2>1
<1>15. Around(s, t, lo, L)
  BY <1>1, <1>12, <1>13, <1>14 DEF Around
<1> QED
  BY <1>15 DEF t, I

-----------------------------------------------------------------------------
(* Sorting.                                                                *)

\* All rows of an application are placed by one record of it.
LEMMA PlacedFacts ==
  ASSUME NEW s \in Seq(Row), Whole(s), Fits(s), NEW i \in 1..Len(s)
  PROVE  /\ PlacedBy(s, s[i]) \in Note /\ app[PlacedBy(s, s[i])] = s[i].app
         /\ \A j \in 1..Len(s) : s[j].app = s[i].app => PlacedBy(s, s[j]) = PlacedBy(s, s[i])
<1>1. PICK lo \in Nat, L \in Nat : Block(s, lo, L) /\ lo <= i /\ i < lo + L
  BY DEF Whole
<1>2. lo \in 1..Len(s) /\ \A j \in 1..Len(s) : s[j].app = s[lo].app <=> lo <= j /\ j < lo + L
  BY <1>1 DEF Block
<1>3. PlacedBy(s, s[i]) = s[lo].n
  BY <1>1, PlacedByHead
<1>4. s[lo].n \in Note /\ app[s[lo].n] = s[lo].app /\ s[i].app = s[lo].app
  BY <1>1, <1>2 DEF Fits
<1>5. \A j \in 1..Len(s) : s[j].app = s[i].app => PlacedBy(s, s[j]) = s[lo].n
  <2> SUFFICES ASSUME NEW j \in 1..Len(s), s[j].app = s[i].app PROVE PlacedBy(s, s[j]) = s[lo].n
    OBVIOUS
  <2>1. lo <= j /\ j < lo + L
    BY <1>2, <1>4
  <2> QED
    BY <1>1, <2>1, PlacedByHead
<1> QED
  BY <1>3, <1>4, <1>5

\* Of two rows of an application only the first may be a header.
LEMMA RowKinds ==
  ASSUME NEW s \in Seq(Row), Whole(s), NEW i \in 1..Len(s), NEW j \in 1..Len(s),
         i # j, s[i].app = s[j].app
  PROVE  /\ s[i].type = "group" => s[j].type = "normal"
         /\ s[i].type # "group" => s[i].type = "normal"
<1>1. PICK lo \in Nat, L \in Nat : Block(s, lo, L) /\ lo <= i /\ i < lo + L
  BY DEF Whole
<1>2. /\ \A k \in 1..Len(s) : s[k].app = s[lo].app <=> lo <= k /\ k < lo + L
      /\ L > 1 => /\ s[lo].type = "group"
                  /\ \A k \in 1..Len(s) : lo < k /\ k < lo + L => s[k].type = "normal"
  BY <1>1 DEF Block
<1>3. lo <= j /\ j < lo + L
  BY <1>1, <1>2
<1>4. L > 1
  BY <1>1, <1>3
<1>5. i = lo \/ lo < i
  BY <1>1
<1>6. j = lo \/ lo < j
  BY <1>1, <1>3
<1> QED
  BY <1>1, <1>2, <1>3, <1>4, <1>5, <1>6

\* greaterNotify orders the entities of a store, and so the items of a list.
LEMMA EntitiesOrdered ==
  ASSUME NEW P, NEW x \in Int, NEW y \in Int
  PROVE  /\ GreaterNotify(P, x, y) \/ GreaterNotify(P, y, x)
         /\ GreaterNotify(P, x, y) /\ GreaterNotify(P, y, x) => x = y
         /\ \A z \in Int : GreaterNotify(P, x, y) /\ GreaterNotify(P, y, z) => GreaterNotify(P, x, z)
         /\ GreaterNotify(P, x, y) /\ app[y] \in P => app[x] \in P
BY DEF GreaterNotify

\* greaterNotify on items is total and transitive, and puts pins and headers first.
LEMMA ItemsOrdered ==
  ASSUME NEW s \in Seq(Row), Whole(s), Fits(s), NEW P
  PROVE  LET G(i, j) == GreaterItem(P, s, s[i], s[j])
         IN  \A i, j \in 1..Len(s) :
               /\ G(i, j) \/ G(j, i)
               /\ s[i].app # s[j].app => ~ (G(i, j) /\ G(j, i))
               /\ \A k \in 1..Len(s) : G(i, j) /\ G(j, k) => G(i, k)
               /\ G(i, j) /\ s[j].app \in P => s[i].app \in P
               /\ i # j /\ s[i].app = s[j].app /\ s[i].type = "group" => ~ G(j, i)
<1> DEFINE G(i, j) == GreaterItem(P, s, s[i], s[j])
           q(i) == PlacedBy(s, s[i])
           N(i, j) == GreaterNotify(P, q(i), q(j))
<1>1. \A i \in 1..Len(s) : q(i) \in Int /\ app[q(i)] = s[i].app
  <2> SUFFICES ASSUME NEW i \in 1..Len(s) PROVE q(i) \in Int /\ app[q(i)] = s[i].app
    OBVIOUS
  <2>1. q(i) \in Note /\ app[q(i)] = s[i].app
    BY PlacedFacts
  <2>2. \A n \in Note : n \in Int
    BY DEF Note
  <2> QED
    BY <2>1, <2>2
<1>2. \A i, j \in 1..Len(s) : s[i].app = s[j].app => q(i) = q(j)
  BY PlacedFacts
<1>3. \A i, j \in 1..Len(s) :
        /\ s[i].app # s[j].app => (G(i, j) <=> N(i, j))
        /\ s[i].app = s[j].app /\ s[i].type = s[j].type => (G(i, j) <=> s[i].n >= s[j].n)
        /\ s[i].app = s[j].app /\ s[i].type # s[j].type => (G(i, j) <=> s[i].type = "group")
  BY DEF GreaterItem
<1>4. \A i \in 1..Len(s) : s[i].n \in Int
  <2> SUFFICES ASSUME NEW i \in 1..Len(s) PROVE s[i].n \in Int
    OBVIOUS
  <2>1. s[i].n \in Note
    BY DEF Fits
  <2> QED
    BY <2>1 DEF Note
<1>5. \A i, j \in 1..Len(s) :
        i # j /\ s[i].app = s[j].app => /\ s[i].type = "group" => s[j].type = "normal"
                                        /\ s[i].type # "group" => s[i].type = "normal"
  BY RowKinds
<1>6. \A i, j \in 1..Len(s) : /\ N(i, j) \/ N(j, i)
                              /\ N(i, j) /\ N(j, i) => q(i) = q(j)
                              /\ N(i, j) /\ s[j].app \in P => s[i].app \in P
                              /\ \A k \in 1..Len(s) : N(i, j) /\ N(j, k) => N(i, k)
  <2> HIDE DEF q
  <2> QED
    BY <1>1, EntitiesOrdered
<1> SUFFICES ASSUME NEW i \in 1..Len(s), NEW j \in 1..Len(s)
             PROVE  /\ G(i, j) \/ G(j, i)
                    /\ s[i].app # s[j].app => ~ (G(i, j) /\ G(j, i))
                    /\ \A k \in 1..Len(s) : G(i, j) /\ G(j, k) => G(i, k)
                    /\ G(i, j) /\ s[j].app \in P => s[i].app \in P
                    /\ i # j /\ s[i].app = s[j].app /\ s[i].type = "group" => ~ G(j, i)
  OBVIOUS
<1> HIDE DEF G, q, N
<1>7. G(i, j) \/ G(j, i)
  <2>1. CASE s[i].app # s[j].app
    BY <1>3, <1>6, <2>1
  <2>2. CASE s[i].app = s[j].app /\ s[i].type = s[j].type
    <3>1. s[i].n >= s[j].n \/ s[j].n >= s[i].n
      BY <1>4
    <3> QED
      BY <1>3, <2>2, <3>1
  <2>3. CASE s[i].app = s[j].app /\ s[i].type # s[j].type
    BY <1>3, <1>5, <2>3
  <2> QED
    BY <2>1, <2>2, <2>3
<1>8. s[i].app # s[j].app => ~ (G(i, j) /\ G(j, i))
  BY <1>1, <1>3, <1>6
<1>9. ASSUME NEW k \in 1..Len(s), G(i, j), G(j, k) PROVE G(i, k)
  <2>1. CASE s[i].app = s[j].app /\ s[j].app = s[k].app
    <3>0. s[i].n \in Int /\ s[j].n \in Int /\ s[k].n \in Int
      BY <1>4
    <3>1. CASE s[i].type = s[j].type /\ s[j].type = s[k].type
      <4>1. s[i].n >= s[j].n /\ s[j].n >= s[k].n
        BY <1>3, <1>9, <2>1, <3>1
      <4>2. s[i].n >= s[k].n
        BY <3>0, <4>1
      <4> QED
        BY <1>3, <2>1, <3>1, <4>2
    <3>2. CASE s[i].type = s[j].type /\ s[j].type # s[k].type
      BY <1>3, <1>9, <2>1, <3>2
    <3>3. CASE s[i].type # s[j].type
      <4>1. s[i].type = "group" /\ s[j].type # "group"
        BY <1>3, <1>9, <2>1, <3>3
      <4>2. s[k].type # "group"
        BY <1>3, <1>9, <2>1, <4>1
      <4> QED
        BY <1>3, <2>1, <4>1, <4>2
    <3> QED
      BY <3>1, <3>2, <3>3
  <2>2. CASE s[i].app = s[j].app /\ s[j].app # s[k].app
    <3>1. N(j, k) /\ q(i) = q(j)
      BY <1>2, <1>3, <1>9, <2>2
    <3>2. N(i, k)
      BY <3>1 DEF N
    <3> QED
      BY <1>3, <2>2, <3>2
  <2>3. CASE s[i].app # s[j].app /\ s[j].app = s[k].app
    <3>1. N(i, j) /\ q(j) = q(k)
      BY <1>2, <1>3, <1>9, <2>3
    <3>2. N(i, k)
      BY <3>1 DEF N
    <3> QED
      BY <1>3, <2>3, <3>2
  <2>4. CASE s[i].app # s[j].app /\ s[j].app # s[k].app
    <3>1. N(i, j) /\ N(j, k)
      BY <1>3, <1>9, <2>4
    <3>2. N(i, k)
      BY <1>6, <3>1
    <3>3. s[i].app # s[k].app
      <4> SUFFICES ASSUME s[i].app = s[k].app PROVE FALSE
        OBVIOUS
      <4>1. N(j, i)
        BY <1>2, <3>1 DEF N
      <4> QED
        BY <1>1, <1>6, <2>4, <3>1, <4>1
    <3> QED
      BY <1>3, <3>2, <3>3
  <2> QED
    BY <2>1, <2>2, <2>3, <2>4
<1>10. G(i, j) /\ s[j].app \in P => s[i].app \in P
  BY <1>3, <1>6
<1>11. i # j /\ s[i].app = s[j].app /\ s[i].type = "group" => ~ G(j, i)
  BY <1>3, <1>5
<1> QED
  BY <1>7, <1>8, <1>9, <1>10, <1>11

SameRows(s, t) ==
  /\ \A i \in 1..Len(s) : \E j \in 1..Len(t) : t[j] = s[i]
  /\ \A i \in 1..Len(t) : \E j \in 1..Len(s) : s[j] = t[i]

\* sort() keeps the rows, and puts them into the shape that the pins P ask for.
LEMMA SortedFacts ==
  ASSUME NEW s, NEW Q, NEW D, Shape(s, Q, D), Fits(s), NEW P
  PROVE  Shape(Sorted(s, P), P, D) /\ SameRows(s, Sorted(s, P))
<1> DEFINE G(i, j) == GreaterItem(P, s, s[i], s[j])
           I == 1..Len(s)
           B == {p \in I \X I : G(p[1], p[2]) /\ (p[1] < p[2] \/ ~G(p[2], p[1]))}
           q == Ranked(I, B)
           t == Sorted(s, P)
<1>1. s \in Seq(Row) /\ Whole(s) /\ Len(s) \in Nat /\ DOMAIN s = I /\ I = 1..Len(s)
      /\ \A i \in I : i \in Nat /\ s[i] \in Row
  BY DEF Shape
<1>2. IsFiniteSet(I) /\ Cardinality(I) = Len(s)
  BY SMTT(30), <1>1, FS_Interval
<1>3. \A i, j \in I :
        /\ G(i, j) \/ G(j, i)
        /\ s[i].app # s[j].app => ~ (G(i, j) /\ G(j, i))
        /\ \A k \in I : G(i, j) /\ G(j, k) => G(i, k)
        /\ G(i, j) /\ s[j].app \in P => s[i].app \in P
        /\ i # j /\ s[i].app = s[j].app /\ s[i].type = "group" => ~ G(j, i)
  BY <1>1, ItemsOrdered
<1>4. t = [k \in I |-> s[q[k]]]
  BY <1>1 DEF Sorted
<1> HIDE DEF G
<1>5. \A i, j \in I : <<i, j>> \in B <=> G(i, j) /\ (i < j \/ ~G(j, i))
  OBVIOUS
<1> HIDE DEF B, I
<1>6. Orders(B, I)
  <2>1. \A i \in I : <<i, i>> \notin B
    BY <1>1, <1>5
  <2>2. \A i, j \in I : i # j => <<i, j>> \in B \/ <<j, i>> \in B
    <3> SUFFICES ASSUME NEW i \in I, NEW j \in I, i # j PROVE <<i, j>> \in B \/ <<j, i>> \in B
      OBVIOUS
    <3>1. i < j \/ j < i
      BY <1>1
    <3> QED
      BY <1>3, <1>5, <3>1
  <2>3. \A i, j, k \in I : <<i, j>> \in B /\ <<j, k>> \in B => <<i, k>> \in B
    <3> SUFFICES ASSUME NEW i \in I, NEW j \in I, NEW k \in I, <<i, j>> \in B, <<j, k>> \in B
                 PROVE  <<i, k>> \in B
      OBVIOUS
    <3>1. G(i, j) /\ G(j, k) /\ G(i, k)
      BY <1>3, <1>5
    <3>2. ASSUME G(k, i) PROVE i < k
      <4>1. G(k, j) /\ G(j, i)
        BY <1>3, <3>1, <3>2
      <4>2. i < j /\ j < k
        BY <1>5, <4>1
      <4> QED
        BY <1>1, <4>2
    <3> QED
      BY <1>5, <3>1, <3>2
  <2> QED
    BY <2>1, <2>2, <2>3 DEF Orders
<1>7. /\ q \in [I -> I]
      /\ \A i, j \in I : i < j => <<q[i], q[j]>> \in B
      /\ \A x \in I : \E i \in I : q[i] = x
  BY SMTT(30), <1>1, <1>2, <1>6, RankedFacts
<1> HIDE DEF q, t
<1>8. t \in Seq(Row) /\ Len(t) = Len(s) /\ \A k \in I : t[k] = s[q[k]] /\ q[k] \in I
  <2>1. \A k \in I : q[k] \in I /\ s[q[k]] \in Row
    BY <1>1, <1>7
  <2>2. t \in [1..Len(s) -> Row]
    BY <1>1, <1>4, <2>1
  <2> QED
    BY <1>1, <1>4, <2>1, <2>2
<1>9. \A i, j \in I : i # j => q[i] # q[j]
  <2> SUFFICES ASSUME NEW i \in I, NEW j \in I, i < j, q[i] = q[j] PROVE FALSE
    BY <1>1
  <2> QED
    BY <1>6, <1>7 DEF Orders
<1>10. \A i, j \in I : i < j => G(q[i], q[j])
  BY <1>5, <1>7
<1>11. SameRows(s, t)
  <2>1. \A i \in I : \E j \in I : t[j] = s[i]
    BY <1>7, <1>8
  <2>2. \A i \in I : \E j \in I : s[j] = t[i]
    BY <1>8
  <2> QED
    BY <1>1, <1>8, <2>1, <2>2 DEF SameRows
<1>12. PinsOnTop(t, P)
  <2> SUFFICES ASSUME NEW i \in I, NEW j \in I, i < j, t[j].app \in P PROVE t[i].app \in P
    BY <1>1, <1>8 DEF PinsOnTop
  <2> QED
    BY <1>3, <1>8, <1>10
<1>13. Singly(t, D)
  <2> SUFFICES ASSUME NEW i \in I, NEW j \in I, i # j, t[i].app = t[j].app,
                      t[i].type = "normal", t[j].type = "normal", t[i].n = t[j].n
               PROVE  t[i].app \in D
    BY <1>1, <1>8 DEF Singly
  <2>1. \A x, y \in I : x # y /\ s[x].app = s[y].app /\ s[x].type = "normal" /\ s[y].type = "normal"
                          /\ s[x].n = s[y].n => s[x].app \in D
    BY <1>1 DEF Shape, Singly
  <2> QED
    BY <1>8, <1>9, <2>1
<1>14. Whole(t)
  <2> SUFFICES ASSUME NEW i \in I
               PROVE  \E lo1, L1 \in Nat : Block(t, lo1, L1) /\ lo1 <= i /\ i < lo1 + L1
    BY <1>1, <1>8 DEF Whole
  <2>1. PICK lo \in Nat, L \in Nat : Block(s, lo, L) /\ lo <= q[i] /\ q[i] < lo + L
    BY <1>1, <1>8 DEF Whole
  <2>2. /\ lo \in I /\ 1 <= L /\ lo + L <= Len(s) + 1
        /\ \A j \in I : s[j].app = s[lo].app <=> lo <= j /\ j < lo + L
        /\ L = 1 => s[lo].type # "group"
        /\ L > 1 => /\ L >= 3 /\ s[lo].type = "group"
                    /\ \A j \in I : lo < j /\ j < lo + L => s[j].type = "normal"
    BY <1>1, <2>1 DEF Block
  <2> DEFINE a == s[lo].app
             own == {k \in I : t[k].app = a}
             lo1 == Min(own)
             hi1 == Max(own)
  <2>3. \A k \in I : k \in own <=> s[q[k]].app = a
    BY <1>8
  <2>4. i \in own /\ own \subseteq 1..Len(s)
    <3>1. s[q[i]].app = a
      BY <1>8, <2>1, <2>2
    <3> QED
      BY <1>1, <2>3, <3>1
  <2>5. own \in SUBSET Nat /\ own # {} /\ \A k \in own : k \in I
    BY <1>1, <2>4
  <2>6. lo1 \in own /\ \A k \in own : lo1 <= k
    <3> HIDE DEF own
    <3> QED
      BY <2>5, MinOfRows
  <2>7. hi1 \in own /\ \A k \in own : k <= hi1
    <3> HIDE DEF own
    <3> QED
      BY <1>1, <2>4, MaxOfRows
  <2> HIDE DEF own, lo1, hi1
  <2>8. lo1 \in I /\ hi1 \in I /\ lo1 <= hi1
    BY <2>5, <2>6, <2>7
  <2>9. \A k \in I : k \in own <=> lo1 <= k /\ k <= hi1
    <3>1. ASSUME NEW k \in I, lo1 <= k, k <= hi1 PROVE k \in own
      <4>1. k = lo1 \/ k = hi1 \/ (lo1 < k /\ k < hi1)
        BY <1>1, <2>8, <3>1
      <4>2. CASE lo1 < k /\ k < hi1
        <5>1. G(q[lo1], q[k]) /\ G(q[k], q[hi1])
          BY <1>10, <2>8, <4>2
        <5>2. s[q[lo1]].app = a /\ s[q[hi1]].app = a
          BY <2>3, <2>6, <2>7, <2>8
        <5>3. G(q[hi1], q[lo1]) => G(q[k], q[lo1])
          BY <1>3, <1>8, <2>8, <5>1
        <5>4. CASE G(q[hi1], q[lo1])
          <6>1. s[q[lo1]].app = s[q[k]].app
            BY <1>3, <1>8, <2>8, <5>1, <5>3, <5>4
          <6> QED
            BY <2>3, <5>2, <6>1
        <5>5. CASE ~ G(q[hi1], q[lo1])
          <6>1. q[lo1] \in I /\ q[hi1] \in I /\ q[k] \in I
            BY <1>8, <2>8
          <6>2. SUFFICES ASSUME s[q[k]].app # a PROVE FALSE
            BY <2>3
          <6>3. PlacedBy(s, s[q[lo1]]) = PlacedBy(s, s[q[hi1]])
            <7>1. q[lo1] \in 1..Len(s) /\ q[hi1] \in 1..Len(s) /\ s[q[lo1]].app = s[q[hi1]].app
              BY <1>1, <5>2, <6>1
            <7> QED
              BY <1>1, <7>1, PlacedFacts
          <6>4. G(q[k], q[lo1])
            BY <5>1, <5>2, <6>2, <6>3 DEF G, GreaterItem
          <6> QED
            BY <1>3, <5>1, <5>2, <6>1, <6>2, <6>4
        <5> QED
          BY <5>4, <5>5
      <4> QED
        BY <2>6, <2>7, <4>1, <4>2
    <3> QED
      BY <2>6, <2>7, <3>1
  <2> DEFINE M == hi1 - lo1 + 1
  <2>10. M \in Nat /\ 1 <= M /\ lo1 + M <= Len(t) + 1 /\ lo1 + M - 1 = hi1
    BY <1>1, <1>8, <2>8
  <2>11. t[lo1].app = a
    BY <1>8, <2>3, <2>6, <2>8
  <2>12. \A j \in 1..Len(t) : t[j].app = t[lo1].app <=> lo1 <= j /\ j < lo1 + M
    <3> SUFFICES ASSUME NEW j \in I PROVE t[j].app = a <=> lo1 <= j /\ j < lo1 + M
      BY <1>1, <1>8, <2>11
    <3>1. t[j].app = a <=> j \in own
      BY <1>8, <2>3
    <3>2. j < lo1 + M <=> j <= hi1
      BY <1>1, <2>8, <2>10
    <3> QED
      BY <2>9, <3>1, <3>2
  <2>13. CASE L = 1
    <3>1. \A k \in own : q[k] = lo
      <4> SUFFICES ASSUME NEW k \in own PROVE q[k] = lo
        OBVIOUS
      <4>1. q[k] \in I /\ s[q[k]].app = a
        BY <1>8, <2>3, <2>5
      <4>2. lo <= q[k] /\ q[k] < lo + 1 /\ q[k] \in Nat
        BY <1>1, <2>2, <2>13, <4>1
      <4> QED
        BY <2>1, <4>2
    <3>2. lo1 = hi1
      BY <1>9, <2>6, <2>7, <2>8, <3>1
    <3>3. M = 1 /\ t[lo1].type # "group"
      BY <1>1, <1>8, <2>2, <2>6, <2>8, <2>13, <3>1, <3>2
    <3>4. Block(t, lo1, M)
      BY <1>1, <2>8, <2>10, <2>12, <3>3 DEF Block
    <3> QED
      BY <1>1, <2>4, <2>6, <2>7, <2>8, <2>10, <3>4
  <2>14. CASE L > 1
    <3>1. lo + 1 \in I /\ lo + 2 \in I /\ s[lo + 1].app = a /\ s[lo + 2].app = a
      BY <1>1, <2>2, <2>14
    <3>2. PICK k1 \in I : q[k1] = lo
      BY <1>7, <2>2
    <3>3. PICK k2 \in I : q[k2] = lo + 1
      BY <1>7, <3>1
    <3>4. PICK k3 \in I : q[k3] = lo + 2
      BY <1>7, <3>1
    <3>5. k1 \in own /\ k2 \in own /\ k3 \in own
      BY <2>3, <3>1, <3>2, <3>3, <3>4
    <3>6. k1 # k2 /\ k2 # k3 /\ k1 # k3
      BY <1>1, <2>2, <3>2, <3>3, <3>4
    <3>7. M >= 3
      <4>1. /\ lo1 <= k1 /\ k1 <= hi1 /\ lo1 <= k2 /\ k2 <= hi1 /\ lo1 <= k3 /\ k3 <= hi1
            /\ k1 \in Nat /\ k2 \in Nat /\ k3 \in Nat /\ lo1 \in Nat /\ hi1 \in Nat
        BY <1>1, <2>8, <2>9, <3>5
      <4> QED
        BY <3>6, <4>1
    <3>8. ASSUME NEW k \in own, k # k1 PROVE k1 < k /\ t[k].type = "normal"
      <4>1. k \in I /\ q[k] \in I /\ q[k] # lo /\ s[q[k]].app = a
        BY <1>8, <1>9, <2>3, <2>5, <3>2, <3>8
      <4>2. lo < q[k] /\ q[k] < lo + L
        BY <1>1, <2>2, <4>1
      <4>3. t[k].type = "normal"
        <5>1. \A j \in I : lo < j /\ j < lo + L => s[j].type = "normal"
          BY <2>2, <2>14
        <5>2. s[q[k]].type = "normal"
          BY <4>1, <4>2, <5>1
        <5> QED
          BY <1>8, <4>1, <5>2
      <4>4. ~ G(q[k], lo)
        BY <1>3, <2>2, <2>14, <4>1
      <4>5. ~ (k < k1)
        BY <1>10, <3>2, <4>1, <4>4
      <4> QED
        BY <1>1, <3>8, <4>1, <4>3, <4>5
    <3>9. lo1 = k1
      BY <1>1, <2>6, <2>8, <3>5, <3>8
    <3>10. t[lo1].type = "group"
      BY <1>8, <2>2, <2>14, <3>2, <3>9
    <3>11. \A j \in 1..Len(t) : lo1 < j /\ j < lo1 + M => t[j].type = "normal"
      <4> SUFFICES ASSUME NEW j \in I, lo1 < j, j < lo1 + M PROVE t[j].type = "normal"
        BY <1>1, <1>8
      <4>1. j <= hi1 /\ lo1 <= j /\ j # lo1
        BY <1>1, <2>8, <2>10
      <4> QED
        BY <2>9, <3>8, <3>9, <4>1
    <3>12. Block(t, lo1, M)
      BY <1>1, <2>8, <2>10, <2>12, <3>7, <3>10, <3>11 DEF Block
    <3> QED
      BY <1>1, <2>4, <2>6, <2>7, <2>8, <2>10, <3>12
  <2> QED
    BY <2>2, <2>13, <2>14, <2>1
<1> QED
  BY <1>8, <1>11, <1>12, <1>13, <1>14 DEF Shape, t

-----------------------------------------------------------------------------
(* Changes of one block.                                                   *)

\* t is s with M rows in place of the L rows from lo on.
Differ(s, t, lo, L, M) ==
  /\ s \in Seq(Row) /\ t \in Seq(Row) /\ lo \in Nat /\ L \in Nat /\ M \in Nat
  /\ 1 <= lo /\ lo + L <= Len(s) + 1 /\ Len(t) + L = Len(s) + M
  /\ \A j \in 1..Len(t) : j < lo => t[j] = s[j]
  /\ \A j \in 1..Len(t) : lo + M <= j => t[j] = s[(j + L) - M]

\* Both lists have the same rows around the block.
LEMMA DifferAround ==
  ASSUME NEW s, NEW t, NEW lo, NEW L, NEW M, Differ(s, t, lo, L, M)
  PROVE  Around(s, Cut(s, lo, L), lo, L) /\ Around(t, Cut(s, lo, L), lo, M)
<1> DEFINE rest == Cut(s, lo, L)
<1>1. /\ s \in Seq(Row) /\ t \in Seq(Row) /\ lo \in Nat /\ L \in Nat /\ M \in Nat
      /\ Len(s) \in Nat /\ Len(t) \in Nat
      /\ 1 <= lo /\ lo + L <= Len(s) + 1 /\ Len(t) + L = Len(s) + M
      /\ \A j \in 1..Len(t) : j < lo => t[j] = s[j]
      /\ \A j \in 1..Len(t) : lo + M <= j => t[j] = s[(j + L) - M]
  BY DEF Differ
<1>2. Around(s, rest, lo, L)
  BY <1>1, CutAround
<1> HIDE DEF rest
<1>3. /\ rest \in Seq(Row) /\ Len(rest) \in Nat /\ lo <= Len(rest) + 1 /\ Len(s) = Len(rest) + L
      /\ \A j \in 1..Len(s) : j < lo => s[j] = rest[j]
      /\ \A j \in 1..Len(s) : lo + L <= j => s[j] = rest[j - L]
  BY <1>2 DEF Around
<1>4. Len(t) = Len(rest) + M
  BY <1>1, <1>3
<1>5. ASSUME NEW j \in 1..Len(t), j < lo PROVE t[j] = rest[j]
  <2>1. j \in 1..Len(s)
    BY <1>1, <1>5
  <2> QED
    BY <1>1, <1>3, <1>5, <2>1
<1>6. ASSUME NEW j \in 1..Len(t), lo + M <= j PROVE t[j] = rest[j - M]
  <2> DEFINE k == (j + L) - M
  <2>1. k \in 1..Len(s) /\ lo + L <= k /\ k - L = j - M
    BY <1>1, <1>6
  <2>2. t[j] = s[k]
    BY <1>1, <1>6
  <2> HIDE DEF k
  <2> QED
    BY <1>3, <2>1, <2>2
<1>7. Around(t, rest, lo, M)
  BY <1>1, <1>3, <1>4, <1>5, <1>6 DEF Around
<1> QED
  BY <1>2, <1>7 DEF rest

\* Two steps of which each leaves the other applications.
LEMMA OthersStay ==
  ASSUME NEW s, NEW r, NEW t, NEW a, OthersSame(s, r, a), OthersSame(r, t, a)
  PROVE  OthersSame(s, t, a)
<1>1. /\ \A i \in 1..Len(s) : s[i].app # a => \E j \in 1..Len(r) : r[j] = s[i]
      /\ \A i \in 1..Len(r) : r[i].app # a => \E j \in 1..Len(s) : s[j] = r[i]
      /\ \A i \in 1..Len(r) : r[i].app # a => \E j \in 1..Len(t) : t[j] = r[i]
      /\ \A i \in 1..Len(t) : t[i].app # a => \E j \in 1..Len(r) : r[j] = t[i]
  BY DEF OthersSame
<1>2. ASSUME NEW i \in 1..Len(s), s[i].app # a PROVE \E j \in 1..Len(t) : t[j] = s[i]
  <2>1. PICK j \in 1..Len(r) : r[j] = s[i]
    BY <1>1, <1>2
  <2> QED
    BY <1>1, <1>2, <2>1
<1>3. ASSUME NEW i \in 1..Len(t), t[i].app # a PROVE \E j \in 1..Len(s) : s[j] = t[i]
  <2>1. PICK j \in 1..Len(r) : r[j] = t[i]
    BY <1>1, <1>3
  <2> QED
    BY <1>1, <1>3, <2>1
<1> QED
  BY <1>2, <1>3 DEF OthersSame

\* The rows of an application are changed where they are.
Replacing(s, t, a, lo, L, M, P, D, E) ==
  /\ D \subseteq E /\ Shape(s, P, D) /\ Block(s, lo, L) /\ s[lo].app = a
  /\ Differ(s, t, lo, L, M) /\ Form(t, lo, M, a) /\ (a \in E \/ Distinct(t, lo, M))

\* The list keeps its shape when the new rows are a block.
LEMMA Replaced ==
  ASSUME NEW s, NEW t, NEW a, NEW lo, NEW L, NEW M, NEW P, NEW D, NEW E,
         Replacing(s, t, a, lo, L, M, P, D, E)
  PROVE  Shape(t, P, E) /\ Block(t, lo, M) /\ t[lo].app = a /\ OthersSame(s, t, a)
<1>0. /\ D \subseteq E /\ Shape(s, P, D) /\ Block(s, lo, L) /\ s[lo].app = a
      /\ Differ(s, t, lo, L, M) /\ Form(t, lo, M, a) /\ (a \in E \/ Distinct(t, lo, M))
  BY DEF Replacing
<1> DEFINE rest == Cut(s, lo, L)
<1>1. Around(s, rest, lo, L) /\ Around(t, rest, lo, M)
  BY <1>0, DifferAround
<1> HIDE DEF rest
<1>2. /\ Shape(rest, P, D) /\ NoneOf(rest, a) /\ Gap(rest, lo, a, P) /\ OthersSame(s, rest, a)
  BY <1>0, <1>1, TakeOut
<1>3. Shape(t, P, E) /\ Block(t, lo, M) /\ t[lo].app = a /\ OthersSame(rest, t, a)
  BY <1>0, <1>1, <1>2, PutIn
<1> QED
  BY <1>2, <1>3, OthersStay

\* The rows of an application are the same ones.
OwnSame(s, t, a) ==
  /\ \A i \in 1..Len(s) : s[i].app = a => \E j \in 1..Len(t) : t[j] = s[i]
  /\ \A i \in 1..Len(t) : t[i].app = a => \E j \in 1..Len(s) : s[j] = t[i]

\* A block is moved up.
LEMMA MovedUp ==
  ASSUME NEW P, NEW D, NEW s, NEW lo, NEW L, Shape(s, P, D), Block(s, lo, L),
         NEW a, s[lo].app = a, NEW place, Gap(s, place, a, P), place <= lo,
         NEW t, t = MovedRows(s, lo, L, place)
  PROVE  /\ Shape(t, P, D) /\ Block(t, place, L) /\ t[place].app = a /\ OthersSame(s, t, a)
         /\ OwnSame(s, t, a) /\ t[place] = s[lo]
<1>1. /\ s \in Seq(Row) /\ Len(s) \in Nat /\ lo \in Nat /\ L \in Nat /\ 1 <= lo /\ 1 <= L
      /\ lo + L <= Len(s) + 1 /\ place \in Nat /\ 1 <= place /\ place + L <= Len(s) + 1
      /\ \A j \in 1..Len(s) : s[j].app = s[lo].app <=> lo <= j /\ j < lo + L
      /\ L = 1 => s[lo].type # "group"
      /\ L > 1 => /\ L >= 3 /\ s[lo].type = "group"
                  /\ \A j \in 1..Len(s) : lo < j /\ j < lo + L => s[j].type = "normal"
  BY DEF Shape, Block, Gap
<1>2. PICK rest : /\ Around(s, rest, lo, L) /\ Around(t, rest, place, L)
                  /\ \A j \in 1..L : t[place + j - 1] = s[lo + j - 1]
  <2> DEFINE m == MovedRows(s, lo, L, place)
  <2>1. /\ s \in Seq(Row) /\ lo \in Nat /\ L \in Nat /\ 1 <= lo /\ lo + L <= Len(s) + 1
        /\ place \in Nat /\ 1 <= place /\ place + L <= Len(s) + 1
    BY <1>1
  <2>2. \E rest : /\ Around(s, rest, lo, L) /\ Around(m, rest, place, L)
                  /\ \A j \in 1..L : m[place + j - 1] = s[lo + j - 1]
    BY <2>1, MovedAround
  <2>3. t = m
    OBVIOUS
  <2> HIDE DEF m
  <2> QED
    BY <2>2, <2>3
<1>3. /\ Shape(rest, P, D) /\ NoneOf(rest, a) /\ Gap(rest, lo, a, P) /\ OthersSame(s, rest, a)
  BY <1>2, TakeOut
<1>4. Gap(rest, place, a, P)
  <2>1. place = lo \/ place < lo
    BY <1>1
  <2> QED
    BY <1>2, <1>3, <2>1, GapAbove
<1>5. Len(t) \in Nat /\ t \in Seq(Row) /\ Len(t) = Len(s) /\ place + L <= Len(t) + 1
  <2>1. t \in Seq(Row) /\ Len(t) \in Nat /\ Len(t) = Len(s)
    BY <1>2 DEF Around
  <2> QED
    BY <1>1, <2>1
<1>6. \A j \in 1..Len(t) : place <= j /\ j < place + L =>
         /\ (j - place) + lo \in 1..Len(s) /\ t[j] = s[(j - place) + lo]
         /\ lo <= (j - place) + lo /\ (j - place) + lo < lo + L
         /\ (place < j => lo < (j - place) + lo)
  <2> SUFFICES ASSUME NEW j \in 1..Len(t), place <= j, j < place + L
               PROVE  /\ (j - place) + lo \in 1..Len(s) /\ t[j] = s[(j - place) + lo]
                      /\ lo <= (j - place) + lo /\ (j - place) + lo < lo + L
                      /\ (place < j => lo < (j - place) + lo)
    OBVIOUS
  <2> DEFINE k == j - place + 1
  <2>1. k \in 1..L /\ place + k - 1 = j /\ lo + k - 1 = (j - place) + lo
        /\ (j - place) + lo \in 1..Len(s) /\ lo <= (j - place) + lo /\ (j - place) + lo < lo + L
        /\ (place < j => lo < (j - place) + lo)
    BY <1>1, <1>5
  <2> HIDE DEF k
  <2> QED
    BY <1>2, <2>1
<1>7. t[place] = s[lo]
  <2>1. 1 \in 1..L /\ place + 1 - 1 = place /\ lo + 1 - 1 = lo
    BY <1>1
  <2> QED
    BY <1>2, <2>1
<1>8. Form(t, place, L, a)
  <2>1. \A j \in 1..Len(t) : place <= j /\ j < place + L => t[j].app = a
    BY <1>1, <1>6
  <2>2. L > 1 => \A j \in 1..Len(t) : place < j /\ j < place + L => t[j].type = "normal"
    <3> SUFFICES ASSUME L > 1, NEW j \in 1..Len(t), place < j, j < place + L PROVE t[j].type = "normal"
      OBVIOUS
    <3>1. place <= j
      BY <1>1
    <3> QED
      BY <1>1, <1>6, <3>1
  <2> QED
    BY <1>1, <1>7, <2>1, <2>2 DEF Form
<1>9. ASSUME a \notin D PROVE Distinct(t, place, L)
  <2>1. ASSUME NEW i \in 1..Len(t), NEW j \in 1..Len(t),
               place <= i, i < place + L, place <= j, j < place + L, i # j,
               t[i].type = "normal", t[j].type = "normal"
        PROVE  t[i].n # t[j].n
    <3> DEFINE x == (i - place) + lo
               y == (j - place) + lo
    <3>1. x \in 1..Len(s) /\ y \in 1..Len(s) /\ t[i] = s[x] /\ t[j] = s[y]
          /\ lo <= x /\ x < lo + L /\ lo <= y /\ y < lo + L
      BY <1>6, <2>1
    <3>2. x # y
      BY <1>1, <2>1
    <3> HIDE DEF x, y
    <3>3. s[x].app = a /\ s[y].app = a
      BY <1>1, <3>1
    <3> QED
      BY <1>9, <2>1, <3>1, <3>2, <3>3 DEF Shape, Singly
  <2> QED
    BY <2>1 DEF Distinct
<1>10. Shape(t, P, D) /\ Block(t, place, L) /\ t[place].app = a /\ OthersSame(rest, t, a)
  BY <1>2, <1>3, <1>4, <1>8, <1>9, PutIn
<1>11. OthersSame(s, t, a)
  BY <1>3, <1>10, OthersStay
<1>12. OwnSame(s, t, a)
  <2>1. ASSUME NEW i \in 1..Len(s), s[i].app = a PROVE \E j \in 1..Len(t) : t[j] = s[i]
    <3> DEFINE k == i - lo + 1
    <3>1. lo <= i /\ i < lo + L
      BY <1>1, <2>1
    <3>2. k \in 1..L /\ lo + k - 1 = i /\ place + k - 1 \in 1..Len(t)
      BY <1>1, <1>5, <3>1
    <3> HIDE DEF k
    <3>3. t[place + k - 1] = s[i]
      BY <1>2, <3>2
    <3> QED
      BY <3>2, <3>3
  <2>2. ASSUME NEW i \in 1..Len(t), t[i].app = a PROVE \E j \in 1..Len(s) : s[j] = t[i]
    <3>1. place <= i /\ i < place + L
      BY <1>10, <2>2 DEF Block
    <3> QED
      BY <1>6, <3>1
  <2> QED
    BY <2>1, <2>2 DEF OwnSame
<1> QED
  BY <1>7, <1>10, <1>11, <1>12

-----------------------------------------------------------------------------
(* What the rows of an application say of its records.                     *)

\* The rows that s has of application a, of whose records recs those in told were
\* announced: all of them are records, each of told is among them or an overlap
\* stands for it, and an overlap stands for two records or more.
Covers(s, a, recs, told) ==
  /\ \A i \in 1..Len(s) : s[i].app = a /\ s[i].type # "group" => s[i].n \in recs
  /\ \A i \in 1..Len(s) : s[i].app = a /\ s[i].type = "overlap" =>
       /\ Cardinality(recs) >= 2
       /\ told = recs => s[i].count = OverlapCount(Cardinality(recs))
  /\ \A n \in told : \E i \in 1..Len(s) :
       s[i].app = a /\ (s[i].type = "overlap" \/ (s[i].type = "normal" /\ s[i].n = n))

Stores == app \in Seq(App) /\ db \subseteq Note

\* Records are counted.
LEMMA StoreFacts ==
  ASSUME app \in Seq(App), NEW store \in SUBSET Note, NEW a
  PROVE  /\ Len(app) \in Nat /\ Note = 1..Len(app) /\ Note \subseteq Nat /\ \A n \in Note : app[n] \in App
         /\ Records(store, a) \subseteq Note /\ Records(store, a) \in SUBSET (1..Len(app))
         /\ IsFiniteSet(Records(store, a)) /\ Cardinality(Records(store, a)) \in Nat
<1>1. Len(app) \in Nat /\ Note = 1..Len(app) /\ Note \subseteq Nat /\ \A n \in Note : app[n] \in App
  BY DEF Note
<1>2. Records(store, a) \subseteq 1..Len(app)
  BY <1>1 DEF Records
<1>3. IsFiniteSet(1..Len(app))
  BY <1>1, FS_Interval
<1>4. IsFiniteSet(Records(store, a)) /\ Cardinality(Records(store, a)) \in Nat
  BY <1>2, <1>3, FS_Subset, FS_CardinalityType
<1> QED
  BY <1>1, <1>2, <1>4

\* Min and Max of two numbers.
LEMMA TwoNumbers ==
  ASSUME NEW x \in Int, NEW y \in Int
  PROVE  /\ Min({x, y}) = IF x <= y THEN x ELSE y
         /\ Max({x, y}) = IF x >= y THEN x ELSE y
<1>1. /\ \E m \in {x, y} : \A k \in {x, y} : m <= k
      /\ \E m \in {x, y} : \A k \in {x, y} : m >= k
  OBVIOUS
<1>2. Min({x, y}) \in {x, y} /\ \A k \in {x, y} : Min({x, y}) <= k
  BY <1>1 DEF Min
<1>3. Max({x, y}) \in {x, y} /\ \A k \in {x, y} : Max({x, y}) >= k
  BY <1>1 DEF Max
<1> QED
  BY <1>2, <1>3

\* The number on an overlap: none behind the first, one, or two that stand for more.
LEMMA OverlapCountFacts ==
  ASSUME NEW k \in Nat
  PROVE  /\ OverlapCount(k) \in 0..FullCount
         /\ OverlapCount(k) = 0 <=> k <= 1
         /\ k = 2 => OverlapCount(k) = 1
         /\ k >= 3 => OverlapCount(k) = 2
<1>1. Min({k - 1, 2}) = IF k - 1 <= 2 THEN k - 1 ELSE 2
  BY TwoNumbers
<1> DEFINE m == Min({k - 1, 2})
<1>2. m \in Int
  BY <1>1
<1> HIDE DEF m
<1>3. Max({0, m}) = IF 0 >= m THEN 0 ELSE m
  BY <1>2, TwoNumbers
<1>4. OverlapCount(k) = Max({0, m})
  BY DEF OverlapCount, FullCount, m
<1> QED
  BY <1>1, <1>3, <1>4 DEF m, FullCount

\* The kinds of rows that the list makes.
LEMMA NewRows ==
  ASSUME app \in Seq(App), NEW n \in Note, NEW c \in 0..FullCount
  PROVE  /\ Normal(n) \in Row /\ Overlap(n, c) \in Row /\ Group(n) \in Row
         /\ Normal(n).app = app[n] /\ Normal(n).n = n /\ Normal(n).type = "normal"
         /\ Overlap(n, c).app = app[n] /\ Overlap(n, c).n = n /\ Overlap(n, c).type = "overlap"
         /\ Overlap(n, c).count = c
         /\ Group(n).app = app[n] /\ Group(n).n = n /\ Group(n).type = "group"
<1>1. app[n] \in App /\ n \in Nat /\ 0 \in 0..FullCount
  BY DEF Note, FullCount
<1> QED
  BY <1>1 DEF Normal, Overlap, Group, Row

\* Rows of other applications tell what they told.
LEMMA OthersFit ==
  ASSUME NEW s, NEW t, NEW a, Fits(s), OthersSame(s, t, a),
         \A i \in 1..Len(t) : t[i].app = a => t[i].n \in Note /\ app[t[i].n] = a
  PROVE  Fits(t)
<1> SUFFICES ASSUME NEW i \in 1..Len(t) PROVE t[i].n \in Note /\ app[t[i].n] = t[i].app
  BY DEF Fits
<1>1. CASE t[i].app = a
  BY <1>1
<1>2. CASE t[i].app # a
  <2>1. PICK j \in 1..Len(s) : s[j] = t[i]
    BY <1>2 DEF OthersSame
  <2> QED
    BY <2>1 DEF Fits
<1> QED
  BY <1>1, <1>2

\* The same rows of an application say the same.
LEMMA CoveredSame ==
  ASSUME NEW s, NEW t, NEW b, OwnSame(s, t, b), NEW R, NEW T, Covers(s, b, R, T)
  PROVE  Covers(t, b, R, T)
<1>1. ASSUME NEW i \in 1..Len(t), t[i].app = b PROVE \E j \in 1..Len(s) : s[j] = t[i]
  BY <1>1 DEF OwnSame
<1>2. \A i \in 1..Len(t) : t[i].app = b /\ t[i].type # "group" => t[i].n \in R
  BY <1>1 DEF Covers
<1>3. \A i \in 1..Len(t) : t[i].app = b /\ t[i].type = "overlap" =>
        /\ Cardinality(R) >= 2
        /\ T = R => t[i].count = OverlapCount(Cardinality(R))
  BY <1>1 DEF Covers
<1>4. ASSUME NEW n \in T
      PROVE  \E i \in 1..Len(t) :
               t[i].app = b /\ (t[i].type = "overlap" \/ (t[i].type = "normal" /\ t[i].n = n))
  <2>1. PICK i \in 1..Len(s) :
          s[i].app = b /\ (s[i].type = "overlap" \/ (s[i].type = "normal" /\ s[i].n = n))
    BY DEF Covers
  <2>2. PICK j \in 1..Len(t) : t[j] = s[i]
    BY <2>1 DEF OwnSame
  <2> QED
    BY <2>1, <2>2
<1> QED
  BY <1>2, <1>3, <1>4 DEF Covers

\* What the rows of another application say stays.
LEMMA OthersCovered ==
  ASSUME NEW s, NEW t, NEW a, NEW b, b # a, OthersSame(s, t, a), NEW R, NEW T, Covers(s, b, R, T)
  PROVE  Covers(t, b, R, T)
<1>1. OwnSame(s, t, b)
  BY DEF OthersSame, OwnSame
<1> QED
  BY <1>1, CoveredSame

RowsFit(s, D) == Shape(s, pinned, D) /\ Fits(s)

\* Only the rows of application a may differ.
Changed(s, t, a, E) == RowsFit(t, E) /\ OthersSame(s, t, a)

\* An application with one row.
LEMMA SingleCovers ==
  ASSUME NEW t, NEW p, Block(t, p, 1), NEW a, t[p].app = a, NEW R, NEW T, t[p].n \in R,
         \/ t[p].type = "normal" /\ \A n \in T : n = t[p].n
         \/ /\ t[p].type = "overlap" /\ Cardinality(R) >= 2
            /\ T = R => t[p].count = OverlapCount(Cardinality(R))
  PROVE  Covers(t, a, R, T)
<1>1. p \in Nat /\ 1 <= p /\ p <= Len(t) /\ \A j \in 1..Len(t) : t[j].app = a <=> p <= j /\ j < p + 1
  BY DEF Block
<1>2. \A j \in 1..Len(t) : t[j].app = a => j = p
  BY <1>1
<1>3. \A n \in T : t[p].app = a /\ (t[p].type = "overlap" \/ (t[p].type = "normal" /\ t[p].n = n))
  OBVIOUS
<1>4. T = {} \/ p \in 1..Len(t)
  <2>1. CASE Len(t) \in Nat
    BY <1>1, <2>1
  <2> QED
    BY <1>1
<1> QED
  BY <1>2, <1>3, <1>4 DEF Covers

\* append(entity): the first row of an application.
LEMMA ReceivedFirst ==
  ASSUME Stores, NEW D, RowsFit(rows, D), NEW n \in db, RowOf(rows, app[n]) = 0,
         NEW t, t = InsertAt(rows, LastNotifyIndex(rows, n), Normal(n))
  PROVE  /\ Changed(rows, t, app[n], D)
         /\ \A R, T, U : Covers(rows, app[n], R, T) /\ n \in R /\ U \subseteq T \cup {n}
                           => Covers(t, app[n], R, U)
<1> DEFINE a == app[n]
           p == LastNotifyIndex(rows, n)
<1>1. /\ rows \in Seq(Row) /\ Shape(rows, pinned, D) /\ Fits(rows) /\ NoneOf(rows, a) /\ n \in Note
      /\ app \in Seq(App) /\ Len(rows) \in Nat
  BY NoneFound DEF RowsFit, Shape, Stores
<1>2. Gap(rows, p, a, pinned)
  BY <1>1, LastNotifyGap
<1>3. p \in 1..Len(rows) + 1
  BY <1>2 DEF Gap
<1>4. Normal(n) \in Row /\ Normal(n).app = a /\ Normal(n).n = n /\ Normal(n).type = "normal"
  <2>1. 0 \in 0..FullCount
    BY DEF FullCount
  <2> QED
    BY <1>1, <2>1, NewRows
<1> HIDE DEF p
<1>5. Around(t, rows, p, 1) /\ t[p] = Normal(n)
  BY <1>1, <1>3, <1>4, InsertAround DEF p
<1>6. \A j \in 1..Len(t) : p <= j /\ j < p + 1 => j = p
  BY <1>3
<1>7. Form(t, p, 1, a) /\ Distinct(t, p, 1)
  BY <1>4, <1>5, <1>6 DEF Form, Distinct
<1>8. Shape(t, pinned, D) /\ Block(t, p, 1) /\ OthersSame(rows, t, a)
  BY <1>1, <1>2, <1>5, <1>7, PutIn
<1>9. Fits(t)
  <2>1. \A i \in 1..Len(t) : t[i].app = a => i = p
    BY <1>3, <1>4, <1>5, <1>8 DEF Block
  <2>2. \A i \in 1..Len(t) : t[i].app = a => t[i].n \in Note /\ app[t[i].n] = a
    BY <1>1, <1>4, <1>5, <2>1
  <2> QED
    BY <1>1, <1>8, <2>2, OthersFit
<1>10. ASSUME NEW R, NEW T, NEW U, Covers(rows, a, R, T), n \in R, U \subseteq T \cup {n}
       PROVE  Covers(t, a, R, U)
  <2>1. T = {}
    BY <1>1, <1>10 DEF Covers, NoneOf
  <2>2. \A m \in U : m = t[p].n
    BY <1>4, <1>5, <1>10, <2>1
  <2> QED
    BY <1>4, <1>5, <1>8, <1>10, <2>2, SingleCovers
<1> QED
  BY <1>8, <1>9, <1>10 DEF Changed, RowsFit

\* A block of one row, and a longer one.
LEMMA BlockKinds ==
  ASSUME NEW s \in Seq(Row), NEW lo, NEW L, Block(s, lo, L)
  PROVE  /\ lo \in 1..Len(s) /\ s[lo] \in Row /\ L \in Nat
         /\ s[lo].type # "group" => L = 1
         /\ s[lo].type = "group" => L >= 3
         /\ L = 1 => \A j \in 1..Len(s) : s[j].app = s[lo].app => j = lo
<1>1. /\ lo \in Nat /\ L \in Nat /\ 1 <= lo /\ 1 <= L /\ lo + L <= Len(s) + 1 /\ Len(s) \in Nat
      /\ \A j \in 1..Len(s) : s[j].app = s[lo].app <=> lo <= j /\ j < lo + L
      /\ L = 1 => s[lo].type # "group"
      /\ L > 1 => L >= 3 /\ s[lo].type = "group"
  BY DEF Block
<1>2. lo \in 1..Len(s)
  BY <1>1
<1>3. L = 1 \/ L > 1
  BY <1>1
<1>4. L = 1 => \A j \in 1..Len(s) : s[j].app = s[lo].app => j = lo
  BY <1>1
<1>5. s[lo] \in Row
  BY <1>2
<1> QED
  BY <1>1, <1>2, <1>3, <1>4, <1>5

\* Two records of an application, or only two.
LEMMA TwoOf ==
  ASSUME NEW R, IsFiniteSet(R), NEW x \in R, NEW y \in R, x # y
  PROVE  Cardinality(R) >= 2 /\ (R \subseteq {x, y} => Cardinality(R) = 2)
<1>1. Cardinality(R) \in Nat
  BY FS_CardinalityType
<1>2. IsFiniteSet({x}) /\ Cardinality({x}) = 1 /\ IsFiniteSet({y}) /\ Cardinality({y}) = 1
  BY FS_Singleton
<1>3. Cardinality({x, y}) = Cardinality({x}) + Cardinality({y})
  <2>1. {x} \cap {y} = {} /\ {x, y} = {x} \cup {y}
    OBVIOUS
  <2> QED
    BY <1>2, <2>1, TwoParts
<1>4. Cardinality({x, y}) = 2
  BY <1>2, <1>3
<1>5. {x, y} \subseteq R
  OBVIOUS
<1>6. Cardinality({x, y}) <= Cardinality(R)
  BY <1>5, FS_Subset
<1>7. R \subseteq {x, y} => R = {x, y}
  BY <1>5
<1> QED
  BY <1>1, <1>4, <1>6, <1>7

\* append(entity): the record joins one that is listed.
LEMMA ReceivedSecond ==
  ASSUME Stores, NEW D, NEW E, D \subseteq E, RowsFit(rows, D), NEW n \in db,
         NEW r, r = RowOf(rows, app[n]), r > 0, rows[r].type = "normal",
         (\E i \in NormalsOf(rows, app[n]) : rows[i].n = n) => app[n] \in E,
         NEW single, single = RemoveAt(rows, r),
         NEW t, t = InsertAt(single, LastNotifyIndex(single, n), Overlap(n, 1))
  PROVE  /\ Changed(rows, t, app[n], E)
         /\ \A R, T, U : app[n] \notin E /\ IsFiniteSet(R) /\ Covers(rows, app[n], R, T) /\ n \in R
                         /\ U \subseteq T \cup {n} => Covers(t, app[n], R, U)
<1> DEFINE a == app[n]
           p == LastNotifyIndex(single, n)
<1>1. /\ rows \in Seq(Row) /\ Shape(rows, pinned, D) /\ Fits(rows) /\ Whole(rows) /\ n \in Note
      /\ app \in Seq(App) /\ Len(rows) \in Nat
  BY DEF RowsFit, Shape, Stores
<1>2. ~NoneOf(rows, a)
  BY <1>1, NoneFound
<1>3. r \in 1..Len(rows) /\ rows[r].app = a
  BY <1>1, <1>2, FirstRow
<1>4. Block(rows, r, 1)
  <2>1. PICK L \in Nat : Block(rows, r, L)
    BY <1>1, <1>2, FirstRow
  <2>2. L = 1
    BY <1>1, <2>1, BlockKinds
  <2> QED
    BY <2>1, <2>2
<1>5. Around(rows, single, r, 1)
  BY <1>1, <1>3, RemoveAround
<1>6. Shape(single, pinned, D) /\ NoneOf(single, a) /\ OthersSame(rows, single, a)
  BY <1>1, <1>3, <1>4, <1>5, TakeOut
<1>7. Fits(single)
  <2>1. \A i \in 1..Len(single) : single[i].app = a => single[i].n \in Note /\ app[single[i].n] = a
    BY <1>6 DEF NoneOf
  <2> QED
    BY <1>1, <1>6, <2>1, OthersFit
<1>8. Gap(single, p, a, pinned) /\ single \in Seq(Row) /\ Len(single) \in Nat
  <2>1. Gap(single, p, a, pinned)
    BY <1>1, <1>6, <1>7, LastNotifyGap
  <2> QED
    BY <1>6, <2>1 DEF Shape
<1>9. p \in 1..Len(single) + 1
  BY <1>8 DEF Gap
<1>10. /\ Overlap(n, 1) \in Row /\ Overlap(n, 1).app = a /\ Overlap(n, 1).n = n
       /\ Overlap(n, 1).type = "overlap" /\ Overlap(n, 1).count = 1
  <2>1. 1 \in 0..FullCount
    BY DEF FullCount
  <2> QED
    BY <1>1, <2>1, NewRows
<1> HIDE DEF p
<1>11. Around(t, single, p, 1) /\ t[p] = Overlap(n, 1)
  BY <1>8, <1>9, <1>10, InsertAround DEF p
<1>12. \A j \in 1..Len(t) : p <= j /\ j < p + 1 => j = p
  BY <1>9
<1>13. Form(t, p, 1, a) /\ Distinct(t, p, 1)
  BY <1>10, <1>11, <1>12 DEF Form, Distinct
<1>14. Shape(t, pinned, E) /\ Block(t, p, 1) /\ OthersSame(single, t, a)
  BY <1>6, <1>8, <1>11, <1>13, PutIn
<1>15. OthersSame(rows, t, a)
  BY <1>6, <1>14, OthersStay
<1>16. Fits(t)
  <2>1. \A i \in 1..Len(t) : t[i].app = a => i = p
    BY <1>9, <1>10, <1>11, <1>14 DEF Block
  <2>2. \A i \in 1..Len(t) : t[i].app = a => t[i].n \in Note /\ app[t[i].n] = a
    BY <1>1, <1>10, <1>11, <2>1
  <2> QED
    BY <1>1, <1>15, <2>2, OthersFit
<1>17. ASSUME NEW R, NEW T, NEW U, a \notin E, IsFiniteSet(R), Covers(rows, a, R, T), n \in R,
              U \subseteq T \cup {n}
       PROVE  Covers(t, a, R, U)
  <2> DEFINE m == rows[r].n
  <2>1. m # n
    <3>1. r \in NormalsOf(rows, a)
      BY <1>1, <1>3 DEF NormalsOf
    <3> QED
      BY <1>17, <3>1
  <2>2. m \in R
    BY <1>3, <1>17 DEF Covers
  <2>3. \A i \in 1..Len(rows) : rows[i].app = a => i = r
    BY <1>1, <1>3, <1>4, BlockKinds
  <2>4. T \subseteq {m}
    <3> SUFFICES ASSUME NEW x \in T PROVE x = m
      OBVIOUS
    <3>1. PICK i \in 1..Len(rows) :
            rows[i].app = a /\ (rows[i].type = "overlap" \/ (rows[i].type = "normal" /\ rows[i].n = x))
      BY <1>17 DEF Covers
    <3>2. i = r
      BY <2>3, <3>1
    <3> QED
      BY <3>1, <3>2
  <2>5. Cardinality(R) >= 2 /\ (R \subseteq {m, n} => Cardinality(R) = 2)
    BY <1>17, <2>1, <2>2, TwoOf
  <2>6. U = R => 1 = OverlapCount(Cardinality(R))
    <3> SUFFICES ASSUME U = R PROVE 1 = OverlapCount(Cardinality(R))
      OBVIOUS
    <3>1. R \subseteq {m, n}
      BY <1>17, <2>4
    <3>2. Cardinality(R) = 2 /\ 2 \in Nat
      BY <2>5, <3>1
    <3> QED
      BY <3>2, OverlapCountFacts
  <2>7. t[p].app = a /\ t[p].n = n /\ t[p].type = "overlap" /\ t[p].count = 1
    BY <1>10, <1>11
  <2> HIDE DEF m
  <2>8. U = R => t[p].count = OverlapCount(Cardinality(R))
    BY <2>6, <2>7
  <2>9. t[p].n \in R
    BY <1>17, <2>7
  <2> QED
    BY <1>14, <2>5, <2>7, <2>8, <2>9, SingleCovers
<1> QED
  BY <1>14, <1>15, <1>16, <1>17 DEF Changed, RowsFit

\* A row is written over.
SetTo(s, r, x) == [s EXCEPT ![r] = x]

Written(s, t, r, x) ==
  /\ t \in Seq(Row) /\ Len(t) = Len(s) /\ t[r] = x
  /\ \A j \in 1..Len(s) : j # r => t[j] = s[j]

\* Writing over a row leaves the others.
LEMMA SetRow ==
  ASSUME NEW s, s \in Seq(Row), NEW r, r \in 1..Len(s), NEW x, x \in Row
  PROVE  Written(s, SetTo(s, r, x), r, x)
<1> DEFINE t == SetTo(s, r, x)
<1>1. Len(s) \in Nat /\ DOMAIN s = 1..Len(s) /\ s \in [1..Len(s) -> Row]
  OBVIOUS
<1>2. t \in [1..Len(s) -> Row] /\ t[r] = x /\ \A j \in 1..Len(s) : j # r => t[j] = s[j]
  BY <1>1 DEF SetTo
<1> HIDE DEF t
<1>3. t \in Seq(Row) /\ Len(t) = Len(s)
  BY <1>1, <1>2
<1> QED
  BY <1>2, <1>3 DEF t, Written

\* A list that differs from another only within a block.
LEMMA SetDiffers ==
  ASSUME NEW s, NEW t, s \in Seq(Row), t \in Seq(Row), Len(t) = Len(s),
         NEW lo, NEW L, lo \in Nat, L \in Nat, 1 <= lo, lo + L <= Len(s) + 1,
         \A j \in 1..Len(s) : ~ (lo <= j /\ j < lo + L) => t[j] = s[j]
  PROVE  Differ(s, t, lo, L, L)
<1>1. Len(s) \in Nat
  OBVIOUS
<1>2. \A j \in 1..Len(t) : j < lo => t[j] = s[j]
  BY <1>1
<1>3. \A j \in 1..Len(t) : lo + L <= j => t[j] = s[(j + L) - L]
  <2> SUFFICES ASSUME NEW j \in 1..Len(t), lo + L <= j PROVE t[j] = s[(j + L) - L]
    OBVIOUS
  <2>1. (j + L) - L = j /\ ~ (lo <= j /\ j < lo + L) /\ j \in 1..Len(s)
    BY <1>1
  <2> QED
    BY <2>1
<1> QED
  BY <1>1, <1>2, <1>3 DEF Differ

\* The place of a block is not below it.
LEMMA PlacedTop ==
  ASSUME NEW s, NEW D, Shape(s, pinned, D), Fits(s), NEW lo, NEW L, Block(s, lo, L)
  PROVE  /\ Gap(s, LastNotifyIndex(s, s[lo].n), s[lo].app, pinned)
         /\ LastNotifyIndex(s, s[lo].n) <= lo
<1>1. s \in Seq(Row) /\ lo \in 1..Len(s) /\ lo \in Nat /\ 1 <= L /\ L \in Nat
  BY BlockKinds DEF Shape, Block
<1>2. s[lo].n \in Note /\ app[s[lo].n] = s[lo].app
  BY <1>1 DEF Fits
<1>3. PlacedBy(s, s[lo]) = s[lo].n
  <2>1. lo <= lo /\ lo < lo + L
    BY <1>1
  <2> QED
    BY <1>1, <2>1, PlacedByHead
<1>4. GreaterNotify(pinned, s[lo].n, PlacedBy(s, s[lo]))
  BY <1>2, <1>3 DEF GreaterNotify, Note
<1> QED
  BY <1>1, <1>2, <1>4, LastNotifyGap

\* append(entity): an overlap shows the record, and moves up.
LEMMA ReceivedOverlap ==
  ASSUME Stores, NEW D, RowsFit(rows, D), NEW n \in db,
         NEW r, r = RowOf(rows, app[n]), r > 0, rows[r].type = "overlap",
         NEW o, o = SetTo(rows, r, Counted(n)),
         NEW t, t = MovedRows(o, r, 1, LastNotifyIndex(o, n))
  PROVE  /\ Changed(rows, t, app[n], D)
         /\ \A T, U : Covers(rows, app[n], Records(db, app[n]), T) => Covers(t, app[n], Records(db, app[n]), U)
<1> DEFINE a == app[n]
           p == LastNotifyIndex(o, n)
<1>1. /\ rows \in Seq(Row) /\ Shape(rows, pinned, D) /\ Fits(rows) /\ Whole(rows) /\ n \in Note
      /\ app \in Seq(App) /\ Len(rows) \in Nat /\ db \in SUBSET Note
  BY DEF RowsFit, Shape, Stores
<1>2. ~NoneOf(rows, a)
  BY <1>1, NoneFound
<1>3. r \in 1..Len(rows) /\ rows[r].app = a
  BY <1>1, <1>2, FirstRow
<1>4. Block(rows, r, 1)
  <2>1. PICK L \in Nat : Block(rows, r, L)
    BY <1>1, <1>2, FirstRow
  <2>2. L = 1
    BY <1>1, <2>1, BlockKinds
  <2> QED
    BY <2>1, <2>2
<1> DEFINE c == OverlapCount(Cardinality(Records(db, a)))
<1>5. c \in 0..FullCount
  <2>1. Cardinality(Records(db, a)) \in Nat
    BY <1>1, StoreFacts
  <2> QED
    BY <2>1, OverlapCountFacts
<1>6. Counted(n) = Overlap(n, c)
  BY DEF Counted
<1> HIDE DEF c
<1>7. /\ Counted(n) \in Row /\ Counted(n).app = a /\ Counted(n).n = n
      /\ Counted(n).type = "overlap" /\ Counted(n).count = c
  BY <1>1, <1>5, <1>6, NewRows
<1>8. o \in Seq(Row) /\ Len(o) = Len(rows) /\ o[r] = Counted(n) /\ Differ(rows, o, r, 1, 1)
  <2>1. /\ o \in Seq(Row) /\ Len(o) = Len(rows) /\ o[r] = Counted(n)
        /\ \A j \in 1..Len(rows) : j # r => o[j] = rows[j]
    <3>1. Written(rows, o, r, Counted(n))
      BY <1>1, <1>3, <1>7, SetRow
    <3> QED
      BY <3>1 DEF Written
  <2>2. r \in Nat /\ 1 \in Nat /\ 1 <= r /\ r + 1 <= Len(rows) + 1
    BY <1>1, <1>3
  <2>3. \A j \in 1..Len(rows) : ~ (r <= j /\ j < r + 1) => o[j] = rows[j]
    BY <2>1, <2>2
  <2>4. Differ(rows, o, r, 1, 1)
    BY <1>1, <2>1, <2>2, <2>3, SetDiffers
  <2> QED
    BY <2>1, <2>4
<1>9. \A j \in 1..Len(o) : r <= j /\ j < r + 1 => j = r
  BY <1>1, <1>3, <1>8
<1>10. Form(o, r, 1, a) /\ Distinct(o, r, 1)
  BY <1>7, <1>8, <1>9 DEF Form, Distinct
<1>11. Shape(o, pinned, D) /\ Block(o, r, 1) /\ o[r].app = a /\ OthersSame(rows, o, a)
  <2>1. Replacing(rows, o, a, r, 1, 1, pinned, D, D)
    BY <1>1, <1>3, <1>4, <1>8, <1>10 DEF Replacing
  <2> QED
    BY <2>1, Replaced
<1>12. Fits(o)
  <2>1. \A i \in 1..Len(o) : o[i].app = a => i = r
    BY <1>8, <1>11, BlockKinds
  <2>2. \A i \in 1..Len(o) : o[i].app = a => o[i].n \in Note /\ app[o[i].n] = a
    BY <1>1, <1>7, <1>8, <2>1
  <2> QED
    BY <1>1, <1>11, <2>2, OthersFit
<1>13. Gap(o, p, a, pinned) /\ p <= r
  <2>1. o[r].n = n
    BY <1>7, <1>8
  <2> QED
    BY <1>11, <1>12, <2>1, PlacedTop
<1> HIDE DEF p
<1>14. /\ Shape(t, pinned, D) /\ Block(t, p, 1) /\ t[p].app = a /\ OthersSame(o, t, a)
       /\ t[p] = o[r]
  <2>1. /\ t = MovedRows(o, r, 1, p) /\ Shape(o, pinned, D) /\ Block(o, r, 1) /\ o[r].app = a
        /\ Gap(o, p, a, pinned) /\ p <= r
    BY <1>11, <1>13 DEF p
  <2> QED
    BY <2>1, MovedUp
<1>15. t[p] = Counted(n)
  BY <1>8, <1>14
<1>16. OthersSame(rows, t, a)
  BY <1>11, <1>14, OthersStay
<1>17. Fits(t)
  <2>1. \A i \in 1..Len(t) : t[i].app = a => i = p
    <3>1. t \in Seq(Row)
      BY <1>14 DEF Shape
    <3> QED
      BY <1>14, <3>1, BlockKinds
  <2>2. \A i \in 1..Len(t) : t[i].app = a => t[i].n \in Note /\ app[t[i].n] = a
    BY <1>1, <1>7, <1>15, <2>1
  <2> QED
    BY <1>1, <1>16, <2>2, OthersFit
<1>18. ASSUME NEW T, NEW U, Covers(rows, a, Records(db, a), T) PROVE Covers(t, a, Records(db, a), U)
  <2>1. Cardinality(Records(db, a)) >= 2
    BY <1>3, <1>18 DEF Covers
  <2>2. n \in Records(db, a)
    BY DEF Records
  <2>3. t[p].n = n /\ t[p].type = "overlap" /\ t[p].count = OverlapCount(Cardinality(Records(db, a)))
    BY <1>7, <1>15 DEF c
  <2> QED
    BY <1>14, <2>1, <2>2, <2>3, SingleCovers
<1> QED
  BY <1>14, <1>16, <1>17, <1>18 DEF Changed, RowsFit

\* append(entity) to an open group, before the group moves.
Joined(r, n) == [InsertAt(rows, r + 1, Normal(n)) EXCEPT ![r].n = Max({@, n})]

Joining(r, L, n, D, E) ==
  /\ Stores /\ D \subseteq E /\ RowsFit(rows, D) /\ n \in db
  /\ Block(rows, r, L) /\ rows[r].app = app[n] /\ rows[r].type = "group"
  /\ (\E i \in NormalsOf(rows, app[n]) : rows[i].n = n) => app[n] \in E

\* The group grows by the record, and its header shows the newest.
LEMMA JoinedFacts ==
  ASSUME NEW r, NEW L, NEW n, NEW D, NEW E, Joining(r, L, n, D, E), NEW t, t = Joined(r, n)
  PROVE  /\ Changed(rows, t, app[n], E) /\ Block(t, r, L + 1) /\ t[r].app = app[n]
         /\ \A R, T, U : Covers(rows, app[n], R, T) /\ n \in R /\ U \subseteq T \cup {n}
                           => Covers(t, app[n], R, U)
<1> DEFINE a == app[n]
           long == InsertAt(rows, r + 1, Normal(n))
           x == Max({rows[r].n, n})
           q == r + 1
<1>0. /\ Stores /\ D \subseteq E /\ RowsFit(rows, D) /\ n \in db
      /\ Block(rows, r, L) /\ rows[r].app = a /\ rows[r].type = "group"
      /\ (\E i \in NormalsOf(rows, a) : rows[i].n = n) => a \in E
  BY DEF Joining
<1>1. /\ rows \in Seq(Row) /\ Shape(rows, pinned, D) /\ Fits(rows) /\ Whole(rows) /\ n \in Note /\ n \in Nat
      /\ app \in Seq(App) /\ Len(rows) \in Nat
  BY <1>0 DEF RowsFit, Shape, Stores, Note
<1>2. /\ r \in 1..Len(rows) /\ r \in Nat /\ L \in Nat /\ L >= 3 /\ r + L <= Len(rows) + 1
      /\ rows[r] \in Row
      /\ \A j \in 1..Len(rows) : rows[j].app = a <=> r <= j /\ j < r + L
      /\ \A j \in 1..Len(rows) : r < j /\ j < r + L => rows[j].type = "normal"
  <2>1. r \in 1..Len(rows) /\ rows[r] \in Row /\ L >= 3
    BY <1>0, <1>1, BlockKinds
  <2> QED
    BY <1>0, <2>1 DEF Block
<1>3. /\ Normal(n) \in Row /\ Normal(n).app = a /\ Normal(n).n = n /\ Normal(n).type = "normal"
  <2>1. 0 \in 0..FullCount
    BY DEF FullCount
  <2> QED
    BY <1>1, <2>1, NewRows
<1>4. /\ long \in Seq(Row) /\ Len(long) = Len(rows) + 1
      /\ \A j \in 1..Len(rows) + 1 :
           long[j] = IF j < r + 1 THEN rows[j] ELSE IF j = r + 1 THEN Normal(n) ELSE rows[j - 1]
  <2>1. q \in 1..Len(rows) + 1
    BY <1>1, <1>2
  <2>2. long = InsertAt(rows, q, Normal(n)) /\ q = r + 1
    OBVIOUS
  <2> HIDE DEF q, long
  <2>3. /\ long \in Seq(Row) /\ Len(long) = Len(rows) + 1
        /\ \A j \in 1..Len(rows) + 1 :
             long[j] = IF j < q THEN rows[j] ELSE IF j = q THEN Normal(n) ELSE rows[j - 1]
    BY <1>1, <1>3, <2>1, <2>2, InsertAtFacts
  <2> QED
    BY <2>2, <2>3
<1>5. x \in Note /\ app[x] = a /\ x \in Nat
  <2>1. rows[r].n \in Note /\ app[rows[r].n] = a
    BY <1>0, <1>1, <1>2 DEF Fits
  <2>2. rows[r].n \in Int /\ n \in Int
    BY <1>1, <2>1 DEF Note
  <2>3. x = IF rows[r].n >= n THEN rows[r].n ELSE n
    BY <2>2, TwoNumbers
  <2>4. x = rows[r].n \/ x = n
    BY <2>3
  <2> QED
    BY <1>1, <2>1, <2>4 DEF Note
<1> HIDE DEF long, x
<1>6. /\ long[r] = rows[r] /\ long[r + 1] = Normal(n)
      /\ \A j \in 1..Len(rows) + 1 : j < r => long[j] = rows[j]
      /\ \A j \in 1..Len(rows) + 1 : r + 1 < j => long[j] = rows[j - 1]
  <2>1. r \in 1..Len(rows) + 1 /\ r + 1 \in 1..Len(rows) + 1 /\ r < r + 1 /\ ~ (r + 1 < r + 1)
    BY <1>1, <1>2
  <2>2. long[r] = rows[r] /\ long[r + 1] = Normal(n)
    BY <1>4, <2>1
  <2>3. ASSUME NEW j \in 1..Len(rows) + 1, j < r PROVE long[j] = rows[j]
    <3>1. j < r + 1
      BY <1>2, <2>3
    <3> QED
      BY <1>4, <3>1
  <2>4. ASSUME NEW j \in 1..Len(rows) + 1, r + 1 < j PROVE long[j] = rows[j - 1]
    <3>1. ~ (j < r + 1) /\ j # r + 1
      BY <1>2, <2>4
    <3> QED
      BY <1>4, <3>1
  <2> QED
    BY <2>2, <2>3, <2>4
<1>7. /\ t \in Seq(Row) /\ Len(t) = Len(rows) + 1
      /\ t[r].app = a /\ t[r].type = "group" /\ t[r].n = x
      /\ \A j \in 1..Len(rows) + 1 : j # r => t[j] = long[j]
  <2> DEFINE y == [long[r] EXCEPT !.n = x]
  <2>1. t = [long EXCEPT ![r] = y]
    BY <1>6 DEF Joined, long, x
  <2>2. y \in Row /\ y.app = a /\ y.type = "group" /\ y.n = x
    BY <1>0, <1>2, <1>5, <1>6 DEF Row
  <2> HIDE DEF y
  <2>3. r \in 1..Len(long)
    BY <1>1, <1>2, <1>4
  <2>4. t = SetTo(long, r, y)
    BY <2>1 DEF SetTo
  <2>5. Written(long, t, r, y)
    BY <1>4, <2>2, <2>3, <2>4, SetRow
  <2> QED
    BY <1>4, <2>2, <2>5 DEF Written
<1>8. /\ t[r + 1] = Normal(n)
      /\ \A j \in 1..Len(t) : j < r => t[j] = rows[j]
      /\ \A j \in 1..Len(t) : r + 1 < j => t[j] = rows[j - 1]
  <2>1. r + 1 \in 1..Len(rows) + 1 /\ r + 1 # r
    BY <1>1, <1>2
  <2>2. t[r + 1] = Normal(n)
    BY <1>6, <1>7, <2>1
  <2>3. \A j \in 1..Len(t) : j < r => t[j] = rows[j]
    BY <1>2, <1>6, <1>7
  <2>4. ASSUME NEW j \in 1..Len(t), r + 1 < j PROVE t[j] = rows[j - 1]
    <3>1. j \in 1..Len(rows) + 1 /\ j # r
      BY <1>2, <1>7, <2>4
    <3>2. t[j] = long[j]
      BY <1>7, <3>1
    <3>3. long[j] = rows[j - 1]
      BY <1>6, <2>4, <3>1
    <3> QED
      BY <3>2, <3>3
  <2> QED
    BY <2>2, <2>3, <2>4
<1>9. Differ(rows, t, r, L, L + 1)
  <2>1. \A j \in 1..Len(t) : r + (L + 1) <= j => t[j] = rows[(j + L) - (L + 1)]
    <3> SUFFICES ASSUME NEW j \in 1..Len(t), r + (L + 1) <= j PROVE t[j] = rows[(j + L) - (L + 1)]
      OBVIOUS
    <3>1. r + 1 < j /\ (j + L) - (L + 1) = j - 1
      BY <1>1, <1>2, <1>7
    <3> QED
      BY <1>8, <3>1
  <2>2. L + 1 \in Nat /\ Len(t) + L = Len(rows) + (L + 1) /\ 1 <= r
    BY <1>1, <1>2, <1>7
  <2> QED
    BY <1>1, <1>2, <1>7, <1>8, <2>1, <2>2 DEF Differ
\* The record, or a row that was there.
<1>10. ASSUME NEW j \in 1..Len(t), r < j, j < r + (L + 1)
       PROVE  \/ j = r + 1 /\ t[j] = Normal(n)
              \/ /\ r + 1 < j /\ t[j] = rows[j - 1] /\ j - 1 \in 1..Len(rows)
                 /\ rows[j - 1].app = a /\ rows[j - 1].type = "normal"
  <2>1. CASE j = r + 1
    BY <1>8, <2>1
  <2>2. CASE r + 1 < j
    <3>1. j - 1 \in 1..Len(rows) /\ r < j - 1 /\ r <= j - 1 /\ j - 1 < r + L
      BY SMTT(30), <1>1, <1>2, <1>7, <1>10, <2>2
    <3> QED
      BY <1>2, <1>8, <2>2, <3>1
  <2> QED
    BY <1>2, <1>10, <2>1, <2>2
<1>11. \A j \in 1..Len(t) : r < j /\ j < r + (L + 1) => t[j].app = a /\ t[j].type = "normal"
  BY <1>3, <1>10
<1>12. Form(t, r, L + 1, a)
  <2>1. 1 <= L + 1 /\ L + 1 > 1 /\ L + 1 >= 3
    BY <1>2
  <2>2. \A j \in 1..Len(t) : r <= j /\ j < r + (L + 1) => t[j].app = a
    <3> SUFFICES ASSUME NEW j \in 1..Len(t), r <= j, j < r + (L + 1) PROVE t[j].app = a
      OBVIOUS
    <3>1. j = r \/ r < j
      BY <1>2
    <3> QED
      BY <1>7, <1>11, <3>1
  <2> QED
    BY <1>7, <1>11, <2>1, <2>2 DEF Form
<1>13. ASSUME a \notin E PROVE Distinct(t, r, L + 1)
  <2>1. \A i \in 1..Len(rows) : rows[i].app = a /\ rows[i].type = "normal" => rows[i].n # n
    <3>1. \A i \in 1..Len(rows) : rows[i].app = a /\ rows[i].type = "normal" => i \in NormalsOf(rows, a)
      BY <1>1 DEF NormalsOf
    <3> QED
      BY <1>0, <1>13, <3>1
  <2>2. \A i, j \in 1..Len(rows) :
          i # j /\ rows[i].app = a /\ rows[j].app = a /\ rows[i].type = "normal" /\ rows[j].type = "normal"
            => rows[i].n # rows[j].n
    BY <1>0, <1>1, <1>13 DEF Shape, Singly
  <2>3. ASSUME NEW i \in 1..Len(t), NEW j \in 1..Len(t), r <= i, i < r + (L + 1), r <= j, j < r + (L + 1),
               i # j, t[i].type = "normal", t[j].type = "normal"
        PROVE  t[i].n # t[j].n
    <3>1. i # r /\ j # r
      BY <1>7, <2>3
    <3>2. r < i /\ r < j
      BY <1>2, <2>3, <3>1
    <3>3. \/ i = r + 1 /\ t[i] = Normal(n)
          \/ /\ r + 1 < i /\ t[i] = rows[i - 1] /\ i - 1 \in 1..Len(rows)
             /\ rows[i - 1].app = a /\ rows[i - 1].type = "normal"
      BY <1>10, <2>3, <3>2
    <3>4. \/ j = r + 1 /\ t[j] = Normal(n)
          \/ /\ r + 1 < j /\ t[j] = rows[j - 1] /\ j - 1 \in 1..Len(rows)
             /\ rows[j - 1].app = a /\ rows[j - 1].type = "normal"
      BY <1>10, <2>3, <3>2
    <3>5. i - 1 # j - 1
      BY <2>3
    <3> QED
      BY <1>3, <2>1, <2>2, <2>3, <3>3, <3>4, <3>5
  <2> QED
    BY <2>3 DEF Distinct
<1>14. Shape(t, pinned, E) /\ Block(t, r, L + 1) /\ OthersSame(rows, t, a)
  <2>1. Replacing(rows, t, a, r, L, L + 1, pinned, D, E)
    BY <1>0, <1>1, <1>9, <1>12, <1>13 DEF Replacing
  <2> QED
    BY <2>1, Replaced
<1>15. \A j \in 1..Len(t) : t[j].app = a => r <= j /\ j < r + (L + 1)
  BY <1>7, <1>14 DEF Block
<1>16. Fits(t)
  <2>1. ASSUME NEW i \in 1..Len(t), t[i].app = a PROVE t[i].n \in Note /\ app[t[i].n] = a
    <3>1. i = r \/ r < i
      BY <1>2, <1>15, <2>1
    <3>2. CASE i = r
      BY <1>5, <1>7, <3>2
    <3>3. CASE r < i
      <4>1. \/ t[i] = Normal(n)
            \/ t[i] = rows[i - 1] /\ i - 1 \in 1..Len(rows) /\ rows[i - 1].app = a
        BY <1>10, <1>15, <2>1, <3>3
      <4> QED
        BY <1>1, <1>3, <4>1 DEF Fits
    <3> QED
      BY <3>1, <3>2, <3>3
  <2> QED
    BY <1>1, <1>14, <2>1, OthersFit
<1>17. ASSUME NEW R, NEW T, NEW U, Covers(rows, a, R, T), n \in R, U \subseteq T \cup {n}
       PROVE  Covers(t, a, R, U)
  <2>1. ASSUME NEW i \in 1..Len(t), t[i].app = a
        PROVE  /\ t[i].type # "group" => t[i].n \in R
               /\ t[i].type # "overlap"
    <3>1. i = r \/ r < i
      BY <1>2, <1>15, <2>1
    <3>2. CASE i = r
      BY <1>7, <3>2
    <3>3. CASE r < i
      <4>1. \/ t[i] = Normal(n)
            \/ /\ t[i] = rows[i - 1] /\ i - 1 \in 1..Len(rows) /\ rows[i - 1].app = a
               /\ rows[i - 1].type = "normal"
        BY <1>10, <1>15, <2>1, <3>3
      <4> QED
        BY <1>3, <1>17, <4>1 DEF Covers
    <3> QED
      BY <3>1, <3>2, <3>3
  <2>2. ASSUME NEW m \in U
        PROVE  \E i \in 1..Len(t) :
                 t[i].app = a /\ (t[i].type = "overlap" \/ (t[i].type = "normal" /\ t[i].n = m))
    <3>1. CASE m = n
      <4>1. r + 1 \in 1..Len(t)
        BY <1>1, <1>2, <1>7
      <4> QED
        BY <1>3, <1>8, <3>1, <4>1
    <3>2. CASE m \in T
      <4>1. PICK i \in 1..Len(rows) :
              rows[i].app = a /\ (rows[i].type = "overlap" \/ (rows[i].type = "normal" /\ rows[i].n = m))
        BY <1>17, <3>2 DEF Covers
      <4>2. r <= i /\ i < r + L /\ i # r
        <5>1. rows[i].type # "group"
          BY <4>1
        <5> QED
          BY <1>0, <1>2, <4>1, <5>1
      <4>3. r < i /\ rows[i].type = "normal" /\ rows[i].n = m
        BY <1>2, <4>1, <4>2
      <4>4. i + 1 \in 1..Len(t) /\ r + 1 < i + 1 /\ (i + 1) - 1 = i
        BY <1>1, <1>2, <1>7, <4>3
      <4>5. t[i + 1] = rows[i]
        BY <1>8, <4>4
      <4> QED
        BY <4>1, <4>3, <4>4, <4>5
    <3> QED
      BY <1>17, <2>2, <3>1, <3>2
  <2> QED
    BY <2>1, <2>2 DEF Covers
<1> QED
  BY <1>7, <1>14, <1>16, <1>17 DEF Changed, RowsFit

\* append(entity) to an open group.
LEMMA ReceivedToGroup ==
  ASSUME Stores, NEW D, NEW E, D \subseteq E, RowsFit(rows, D), NEW n \in db,
         NEW r, r = RowOf(rows, app[n]), r > 0, rows[r].type = "group",
         (\E i \in NormalsOf(rows, app[n]) : rows[i].n = n) => app[n] \in E,
         NEW t, t = ReceivedInGroup(r, n)
  PROVE  /\ Changed(rows, t, app[n], E)
         /\ \A R, T, U : Covers(rows, app[n], R, T) /\ n \in R /\ U \subseteq T \cup {n}
                           => Covers(t, app[n], R, U)
<1> DEFINE a == app[n]
           g == Joined(r, n)
           p == LastNotifyIndex(g, g[r].n)
           c == Cardinality(NormalsOf(g, a)) + 1
<1>1. rows \in Seq(Row) /\ Whole(rows) /\ Len(rows) \in Nat
  BY DEF RowsFit, Shape
<1>2. ~NoneOf(rows, a)
  BY <1>1, NoneFound
<1>3. r \in 1..Len(rows) /\ rows[r].app = a
  BY <1>1, <1>2, FirstRow
<1>4. PICK L \in Nat : Block(rows, r, L)
  BY <1>1, <1>2, FirstRow
<1>5. t = g \/ t = MovedRows(g, r, c, p)
  BY DEF ReceivedInGroup, Joined
<1> HIDE DEF g, p, c
<1>6. /\ Changed(rows, g, a, E) /\ Block(g, r, L + 1) /\ g[r].app = a
      /\ \A R, T, U : Covers(rows, a, R, T) /\ n \in R /\ U \subseteq T \cup {n} => Covers(g, a, R, U)
  <2>1. Joining(r, L, n, D, E)
    BY <1>3, <1>4 DEF Joining
  <2> QED
    BY <2>1, JoinedFacts DEF g
<1>7. Shape(g, pinned, E) /\ Fits(g) /\ OthersSame(rows, g, a) /\ g \in Seq(Row) /\ Len(g) \in Nat
  BY <1>6 DEF Changed, RowsFit, Shape
<1>8. c = L + 1
  <2>1. /\ r \in Nat /\ 1 <= r /\ r + (L + 1) <= Len(g) + 1 /\ 1 <= L + 1
        /\ L + 1 > 1 => /\ g[r].type = "group"
                        /\ \A j \in 1..Len(g) : r < j /\ j < r + (L + 1) => g[j].type = "normal"
    BY <1>6 DEF Block
  <2>2. L >= 3
    BY <1>1, <1>4, BlockKinds
  <2>3. NormalsOf(g, a) = {i \in 1..Len(g) : r <= i /\ i < r + (L + 1) /\ g[i].type = "normal"}
    BY <1>6, <1>7, BlockFound
  <2>4. NormalsOf(g, a) = r + 1..r + L
    <3>1. ASSUME NEW i \in 1..Len(g), r <= i, i < r + (L + 1), g[i].type = "normal" PROVE i \in r + 1..r + L
      <4>1. i # r
        BY <2>1, <2>2, <3>1
      <4> QED
        BY <1>4, <2>1, <3>1, <4>1
    <3>2. ASSUME NEW i \in r + 1..r + L
          PROVE  i \in 1..Len(g) /\ r <= i /\ i < r + (L + 1) /\ g[i].type = "normal"
      <4>1. i \in 1..Len(g) /\ r <= i /\ i < r + (L + 1) /\ r < i /\ L + 1 > 1
        BY <1>4, <1>7, <2>1, <2>2
      <4> QED
        BY <2>1, <4>1
    <3> QED
      BY <2>3, <3>1, <3>2
  <2>5. Cardinality(r + 1..r + L) = (r + L) - (r + 1) + 1
    <3>1. r + 1 \in Int /\ r + L \in Int /\ ~ (r + 1 > r + L)
      BY <1>4, <2>1, <2>2
    <3> QED
      BY <3>1, FS_Interval
  <2> QED
    BY <1>4, <2>1, <2>4, <2>5 DEF c
<1>9. Gap(g, p, a, pinned) /\ p <= r
  BY <1>6, <1>7, PlacedTop DEF p
<1>10. CASE t = g
  BY <1>6, <1>10
<1>11. CASE t = MovedRows(g, r, c, p)
  <2>1. /\ Shape(t, pinned, E) /\ Block(t, p, L + 1) /\ t[p].app = a /\ OthersSame(g, t, a)
        /\ OwnSame(g, t, a)
    BY <1>6, <1>7, <1>8, <1>9, <1>11, MovedUp
  <2>2. OthersSame(rows, t, a)
    BY <1>7, <2>1, OthersStay
  <2>3. Fits(t)
    <3>1. \A i \in 1..Len(t) : t[i].app = a => t[i].n \in Note /\ app[t[i].n] = a
      BY SMTT(30), <1>7, <2>1 DEF OwnSame, Fits
    <3> QED
      BY <1>7, <2>1, <3>1, OthersFit
  <2>4. \A R, T, U : Covers(rows, a, R, T) /\ n \in R /\ U \subseteq T \cup {n} => Covers(t, a, R, U)
    BY <1>6, <2>1, CoveredSame
  <2> QED
    BY <2>1, <2>2, <2>3, <2>4 DEF Changed, RowsFit
<1> QED
  BY <1>5, <1>10, <1>11

\* A list fits if more applications may be listed twice.
LEMMA MoreDoubled ==
  ASSUME NEW D, NEW E, D \subseteq E, NEW s, RowsFit(s, D)
  PROVE  RowsFit(s, E)
BY DEF RowsFit, Shape, Singly

\* append(entity)
LEMMA ReceivedFacts ==
  ASSUME Stores, NEW D, NEW E, D \subseteq E, RowsFit(rows, D), NEW n \in db,
         (\E i \in NormalsOf(rows, app[n]) : rows[i].n = n) => app[n] \in E
  PROVE  /\ Changed(rows, Received(n), app[n], E)
         /\ \A T, U : app[n] \notin E /\ Covers(rows, app[n], Records(db, app[n]), T) /\ U \subseteq T \cup {n}
                        => Covers(Received(n), app[n], Records(db, app[n]), U)
<1> DEFINE a == app[n]
           R == Records(db, a)
           r == RowOf(rows, a)
           t == Received(n)
<1>1. rows \in Seq(Row) /\ Whole(rows) /\ Len(rows) \in Nat /\ app \in Seq(App) /\ db \in SUBSET Note
  BY DEF RowsFit, Shape, Stores
<1>2. n \in R /\ IsFiniteSet(R)
  <2>1. IsFiniteSet(R)
    BY <1>1, StoreFacts
  <2> QED
    BY <2>1 DEF Records
<1>3. CASE r = 0
  <2>1. t = InsertAt(rows, LastNotifyIndex(rows, n), Normal(n))
    BY <1>3 DEF Received
  <2> HIDE DEF t, R, r
  <2>2. Changed(rows, t, a, D) /\ \A Q, T, U : Covers(rows, a, Q, T) /\ n \in Q /\ U \subseteq T \cup {n}
                                                 => Covers(t, a, Q, U)
    BY <1>3, <2>1, ReceivedFirst DEF r
  <2>3. Changed(rows, t, a, E)
    BY <2>2, MoreDoubled DEF Changed
  <2> QED
    BY <1>2, <2>2, <2>3 DEF t, R
<1>4. r # 0 => r \in 1..Len(rows) /\ r > 0 /\ rows[r].type \in {"normal", "overlap", "group"}
  <2> SUFFICES ASSUME r # 0 PROVE r \in 1..Len(rows) /\ r > 0 /\ rows[r].type \in {"normal", "overlap", "group"}
    OBVIOUS
  <2>1. ~NoneOf(rows, a)
    BY <1>1, NoneFound
  <2> HIDE DEF r
  <2>2. r \in 1..Len(rows)
    BY <1>1, <2>1, FirstRow DEF r
  <2>3. rows[r] \in Row
    BY <1>1, <2>2
  <2> QED
    BY <2>2, <2>3 DEF Row
<1>5. CASE r # 0 /\ rows[r].type = "normal"
  <2> DEFINE single == RemoveAt(rows, r)
  <2>1. t = InsertAt(single, LastNotifyIndex(single, n), Overlap(n, 1))
    BY <1>4, <1>5 DEF Received
  <2> HIDE DEF t, R, r, single
  <2>2. /\ Changed(rows, t, a, E)
        /\ \A Q, T, U : a \notin E /\ IsFiniteSet(Q) /\ Covers(rows, a, Q, T) /\ n \in Q /\ U \subseteq T \cup {n}
                          => Covers(t, a, Q, U)
    BY <1>4, <1>5, <2>1, ReceivedSecond DEF r, single
  <2> QED
    BY <1>2, <2>2 DEF t, R
<1>6. CASE r # 0 /\ rows[r].type = "overlap"
  <2> DEFINE o == SetTo(rows, r, Counted(n))
  <2>1. t = MovedRows(o, r, 1, LastNotifyIndex(o, n))
    BY <1>4, <1>6 DEF Received, SetTo
  <2> HIDE DEF t, R, r, o
  <2>2. /\ Changed(rows, t, a, D)
        /\ \A T, U : Covers(rows, a, R, T) => Covers(t, a, R, U)
    BY <1>4, <1>6, <2>1, ReceivedOverlap DEF r, o, R
  <2>3. Changed(rows, t, a, E)
    BY <2>2, MoreDoubled DEF Changed
  <2> QED
    BY <2>2, <2>3 DEF t, R
<1>7. CASE r # 0 /\ rows[r].type = "group"
  <2>1. t = ReceivedInGroup(r, n)
    BY <1>4, <1>7 DEF Received
  <2> HIDE DEF t, R, r
  <2>2. Changed(rows, t, a, E) /\ \A Q, T, U : Covers(rows, a, Q, T) /\ n \in Q /\ U \subseteq T \cup {n}
                                                 => Covers(t, a, Q, U)
    BY <1>4, <1>7, <2>1, ReceivedToGroup DEF r
  <2> QED
    BY <1>2, <2>2 DEF t, R
<1> QED
  BY <1>3, <1>4, <1>5, <1>6, <1>7

-----------------------------------------------------------------------------
(* What reads the list from the store, as a whole or in part.              *)

\* The last record is one of the records.
LEMMA LastFacts ==
  ASSUME app \in Seq(App), NEW store \in SUBSET Note, NEW a, Records(store, a) # {}
  PROVE  LastRecord(store, a) \in Records(store, a)
<1>1. Len(app) \in Nat /\ Records(store, a) \in SUBSET (1..Len(app))
  BY StoreFacts
<1> QED
  BY <1>1, MaxOfRows DEF LastRecord

\* An application that has no row, and no record that was announced.
LEMMA NoneCovers ==
  ASSUME NEW t, NEW a, NoneOf(t, a), NEW R
  PROVE  Covers(t, a, R, {})
BY DEF Covers, NoneOf

\* open(): one row for each application with records.
LEMMA OpenedFacts ==
  ASSUME app \in Seq(App), NEW store \in SUBSET Note, NEW D
  PROVE  /\ RowsFit(Opened(store), D)
         /\ \A a, T : T \subseteq Records(store, a) => Covers(Opened(store), a, Records(store, a), T)
<1> DEFINE all == {LastRecord(store, a) : a \in AppsOf(store)}
           before == {p \in all \X all : p[1] # p[2] /\ GreaterNotify(pinned, p[1], p[2])}
           lasts == Ranked(all, before)
           R(a) == Records(store, a)
           K(n) == Cardinality(R(app[n]))
           t == Opened(store)
<1>1. /\ Len(app) \in Nat /\ Note = 1..Len(app) /\ \A n \in Note : app[n] \in App /\ n \in Int
      /\ \A a : IsFiniteSet(R(a)) /\ Cardinality(R(a)) \in Nat /\ R(a) \subseteq Note
  <2>1. /\ Len(app) \in Nat /\ Note = 1..Len(app) /\ \A n \in Note : app[n] \in App
        /\ \A a : IsFiniteSet(R(a)) /\ Cardinality(R(a)) \in Nat /\ R(a) \subseteq Note
    BY StoreFacts
  <2>2. \A n \in Note : n \in Int
    BY <2>1
  <2> QED
    BY <2>1, <2>2
<1>2. \A a \in AppsOf(store) : LastRecord(store, a) \in R(a)
  <2> SUFFICES ASSUME NEW a \in AppsOf(store) PROVE LastRecord(store, a) \in R(a)
    OBVIOUS
  <2>1. R(a) # {}
    BY DEF AppsOf, Records
  <2> QED
    BY <2>1, LastFacts
<1>3. \A n \in all : n \in store /\ n \in Note /\ n = LastRecord(store, app[n]) /\ n \in R(app[n])
  BY <1>2 DEF Records
<1>4. \A m, n \in all : app[m] = app[n] => m = n
  BY <1>3
<1>5. IsFiniteSet(all)
  <2>1. IsFiniteSet(1..Len(app))
    BY <1>1, FS_Interval
  <2>2. all \subseteq 1..Len(app)
    BY <1>1, <1>3
  <2> QED
    BY <2>1, <2>2, FS_Subset
<1> HIDE DEF all
<1>6. Orders(before, all)
  <2>1. \A x, y : <<x, y>> \in before <=> x \in all /\ y \in all /\ x # y /\ GreaterNotify(pinned, x, y)
    OBVIOUS
  <2>2. \A x \in all : x \in Int
    BY <1>1, <1>3
  <2> HIDE DEF before
  <2>3. \A x, y \in all : x # y => <<x, y>> \in before \/ <<y, x>> \in before
    BY <2>1, <2>2, EntitiesOrdered
  <2>4. ASSUME NEW x \in all, NEW y \in all, NEW z \in all, <<x, y>> \in before, <<y, z>> \in before
        PROVE  <<x, z>> \in before
    <3>1. GreaterNotify(pinned, x, y) /\ GreaterNotify(pinned, y, z) /\ x # y
      BY <2>1, <2>4
    <3>2. GreaterNotify(pinned, x, z)
      BY <2>2, <3>1, EntitiesOrdered
    <3>3. x # z
      BY <2>2, <3>1, EntitiesOrdered
    <3> QED
      BY <2>1, <3>2, <3>3
  <2> QED
    BY <2>1, <2>3, <2>4 DEF Orders
<1> DEFINE k == Cardinality(all)
<1>7. /\ k \in Nat /\ DOMAIN lasts = 1..k /\ \A i \in 1..k : lasts[i] \in all
      /\ \A i, j \in 1..k : i < j => <<lasts[i], lasts[j]>> \in before
      /\ \A x \in all : \E i \in 1..k : lasts[i] = x
  <2> HIDE DEF before
  <2> QED
    BY <1>5, <1>6, RankedFacts
<1>8. \A i, j \in 1..k : i < j => lasts[i] # lasts[j] /\ GreaterNotify(pinned, lasts[i], lasts[j])
  <2> HIDE DEF lasts, k
  <2> QED
    BY <1>7
<1>9. /\ DOMAIN t = 1..k
      /\ \A i \in 1..k : t[i] = IF Min({3, K(lasts[i])}) >= 2
                                THEN Overlap(lasts[i], OverlapCount(Min({3, K(lasts[i])})))
                                ELSE Normal(lasts[i])
  BY <1>7 DEF Opened, all
<1> HIDE DEF lasts, k, t
<1>10. \A i \in 1..k : t[i] = IF K(lasts[i]) >= 2 THEN Overlap(lasts[i], OverlapCount(K(lasts[i])))
                              ELSE Normal(lasts[i])
  <2> SUFFICES ASSUME NEW i \in 1..k
               PROVE  t[i] = IF K(lasts[i]) >= 2 THEN Overlap(lasts[i], OverlapCount(K(lasts[i])))
                             ELSE Normal(lasts[i])
    OBVIOUS
  <2> DEFINE c == K(lasts[i])
             m == Min({3, c})
  <2>1. c \in Nat
    BY <1>1
  <2>2. t[i] = IF m >= 2 THEN Overlap(lasts[i], OverlapCount(m)) ELSE Normal(lasts[i])
    BY <1>9
  <2> HIDE DEF c
  <2>3. m = IF 3 <= c THEN 3 ELSE c
    BY <2>1, TwoNumbers
  <2> HIDE DEF m
  <2>4. c >= 3 => OverlapCount(m) = OverlapCount(c)
    BY <2>1, <2>3, OverlapCountFacts
  <2>5. t[i] = IF c >= 2 THEN Overlap(lasts[i], OverlapCount(c)) ELSE Normal(lasts[i])
    <3>1. CASE c >= 3
      BY <2>1, <2>2, <2>3, <2>4, <3>1
    <3>2. CASE ~ (c >= 3)
      <4>1. m = c
        BY <2>1, <2>3, <3>2
      <4> QED
        BY <2>2, <4>1
    <3> QED
      BY <3>1, <3>2
  <2> QED
    BY <2>5 DEF c
<1>11. \A i \in 1..k : /\ t[i] \in Row /\ t[i].app = app[lasts[i]] /\ t[i].n = lasts[i]
                       /\ t[i].type # "group" /\ lasts[i] \in Note
                       /\ K(lasts[i]) >= 2 => t[i].type = "overlap" /\ t[i].count = OverlapCount(K(lasts[i]))
                       /\ ~ (K(lasts[i]) >= 2) => t[i].type = "normal"
  <2> SUFFICES ASSUME NEW i \in 1..k
               PROVE  /\ t[i] \in Row /\ t[i].app = app[lasts[i]] /\ t[i].n = lasts[i]
                      /\ t[i].type # "group" /\ lasts[i] \in Note
                      /\ K(lasts[i]) >= 2 => t[i].type = "overlap" /\ t[i].count = OverlapCount(K(lasts[i]))
                      /\ ~ (K(lasts[i]) >= 2) => t[i].type = "normal"
    OBVIOUS
  <2>1. lasts[i] \in Note
    BY <1>3, <1>7
  <2> DEFINE n == lasts[i]
             c == K(n)
             o == OverlapCount(c)
  <2>2. c \in Nat
    BY <1>1
  <2>3. t[i] = IF c >= 2 THEN Overlap(n, o) ELSE Normal(n)
    BY <1>10
  <2> HIDE DEF c, n
  <2>4. o \in 0..FullCount
    BY <2>2, OverlapCountFacts
  <2> HIDE DEF o
  <2>5. n \in Note
    BY <2>1 DEF n
  <2>6. /\ Normal(n) \in Row /\ Overlap(n, o) \in Row
        /\ Normal(n).app = app[n] /\ Normal(n).n = n /\ Normal(n).type = "normal"
        /\ Overlap(n, o).app = app[n] /\ Overlap(n, o).n = n /\ Overlap(n, o).type = "overlap"
        /\ Overlap(n, o).count = o
    BY <2>4, <2>5, NewRows
  <2>7. /\ t[i] \in Row /\ t[i].app = app[n] /\ t[i].n = n /\ t[i].type # "group"
        /\ c >= 2 => t[i].type = "overlap" /\ t[i].count = o
        /\ ~ (c >= 2) => t[i].type = "normal"
    BY <2>3, <2>6
  <2> QED
    BY <2>1, <2>7 DEF n, c, o
<1>12. t \in Seq(Row) /\ Len(t) = k
  <2>1. t \in [1..k -> Row]
    BY <1>9, <1>11 DEF t, Opened
  <2> QED
    BY <1>7, <2>1
<1>13. \A i, j \in 1..k : t[i].app = t[j].app => i = j
  <2> SUFFICES ASSUME NEW i \in 1..k, NEW j \in 1..k, t[i].app = t[j].app PROVE i = j
    OBVIOUS
  <2>1. lasts[i] = lasts[j]
    BY <1>4, <1>7, <1>11
  <2>2. i \in Int /\ j \in Int /\ (i < j \/ j < i \/ i = j)
    BY <1>7
  <2> QED
    BY <1>8, <2>1, <2>2
<1>14. \A i \in 1..k : Block(t, i, 1)
  <2> SUFFICES ASSUME NEW i \in 1..k PROVE Block(t, i, 1)
    OBVIOUS
  <2>1. i \in Nat /\ 1 <= i /\ i + 1 <= Len(t) + 1 /\ \A j \in 1..k : i <= j /\ j < i + 1 <=> j = i
    BY <1>7, <1>12
  <2>2. \A j \in 1..Len(t) : t[j].app = t[i].app <=> i <= j /\ j < i + 1
    BY <1>12, <1>13, <2>1
  <2> QED
    BY <1>11, <2>1, <2>2 DEF Block
<1>15. Whole(t)
  <2>1. \A i \in 1..k : i \in Nat /\ i <= i /\ i < i + 1
    BY <1>7
  <2> QED
    BY <1>12, <1>14, <2>1 DEF Whole
<1>16. PinsOnTop(t, pinned)
  <2> SUFFICES ASSUME NEW i \in 1..k, NEW j \in 1..k, i < j, t[j].app \in pinned PROVE t[i].app \in pinned
    BY <1>12 DEF PinsOnTop
  <2>1. GreaterNotify(pinned, lasts[i], lasts[j]) /\ app[lasts[j]] \in pinned
    BY <1>8, <1>11
  <2>2. lasts[i] \in Int /\ lasts[j] \in Int
    BY <1>1, <1>11
  <2>3. app[lasts[i]] \in pinned
    BY <2>1, <2>2, EntitiesOrdered
  <2> QED
    BY <1>11, <2>3
<1>17. Singly(t, D)
  BY <1>12, <1>13 DEF Singly
<1>18. Fits(t)
  BY <1>11, <1>12 DEF Fits
<1>19. ASSUME NEW a, NEW T, T \subseteq R(a)
       PROVE  Covers(t, a, R(a), T)
  <2>1. CASE a \in AppsOf(store)
    <3>1. LastRecord(store, a) \in all /\ app[LastRecord(store, a)] = a
      BY <1>2, <2>1 DEF all, Records
    <3>2. PICK i \in 1..k : lasts[i] = LastRecord(store, a)
      BY <1>7, <3>1
    <3> DEFINE Q == R(a)
               n == lasts[i]
    <3>3. n \in Q /\ IsFiniteSet(Q) /\ Cardinality(Q) \in Nat
      BY <1>1, <1>2, <2>1, <3>2
    <3>4. /\ t[i].app = a /\ t[i].n = n
          /\ Cardinality(Q) >= 2 => t[i].type = "overlap" /\ t[i].count = OverlapCount(Cardinality(Q))
          /\ ~ (Cardinality(Q) >= 2) => t[i].type = "normal"
      BY <1>11, <3>1, <3>2
    <3> HIDE DEF Q
    <3>5. ~ (Cardinality(Q) >= 2) => \A m \in T : m = n
      BY <1>19, <3>3, TwoOf DEF Q
    <3> HIDE DEF n
    <3>6. Block(t, i, 1)
      BY <1>14
    <3>7. Covers(t, a, Q, T)
      BY <3>3, <3>4, <3>5, <3>6, SingleCovers
    <3> QED
      BY <3>7 DEF Q
  <2>2. CASE a \notin AppsOf(store)
    <3>1. R(a) = {}
      BY <2>2 DEF AppsOf, Records
    <3>2. NoneOf(t, a)
      <4> SUFFICES ASSUME NEW i \in 1..k PROVE t[i].app # a
        BY <1>12 DEF NoneOf
      <4>1. lasts[i] \in store
        BY <1>3, <1>7
      <4> QED
        BY <1>11, <2>2, <4>1 DEF AppsOf
    <3>3. T = {}
      BY <1>19, <3>1
    <3> QED
      BY <3>2, <3>3, NoneCovers
  <2> QED
    BY <2>1, <2>2
<1> QED
  BY <1>12, <1>15, <1>16, <1>17, <1>18, <1>19 DEF RowsFit, Shape, t

-----------------------------------------------------------------------------
(* What the user does to the rows of an application.                       *)

\* Without its block, an application has no row and the others have theirs.
LEMMA BlockGone ==
  ASSUME NEW D, NEW s, RowsFit(s, D), NEW lo, NEW L, Block(s, lo, L), NEW a, s[lo].app = a,
         NEW rest, Around(s, rest, lo, L)
  PROVE  Changed(s, rest, a, D) /\ NoneOf(rest, a) /\ Gap(rest, lo, a, pinned)
<1>1. /\ Shape(rest, pinned, D) /\ NoneOf(rest, a) /\ Gap(rest, lo, a, pinned)
      /\ OthersSame(s, rest, a)
  BY TakeOut DEF RowsFit
<1>2. \A i \in 1..Len(rest) : rest[i].app = a => rest[i].n \in Note /\ app[rest[i].n] = a
  BY <1>1 DEF NoneOf
<1>3. Fits(rest)
  BY <1>1, <1>2, OthersFit DEF RowsFit
<1> QED
  BY <1>1, <1>3 DEF Changed, RowsFit

\* The block of a row: a header is its first, and an overlap is alone.
InBlock(s, r, lo, L) ==
  /\ Block(s, lo, L) /\ lo <= r /\ r < lo + L /\ s[lo].app = s[r].app
  /\ s[r].type = "group" => lo = r /\ L >= 3
  /\ s[r].type = "overlap" => lo = r /\ L = 1

\* Every row is in a block.
LEMMA BlockOf ==
  ASSUME NEW s \in Seq(Row), Whole(s), NEW r \in 1..Len(s)
  PROVE  \E lo, L \in Nat : InBlock(s, r, lo, L)
<1>1. PICK lo, L \in Nat : Block(s, lo, L) /\ lo <= r /\ r < lo + L
  BY DEF Whole
<1>2. s[lo].app = s[r].app
  BY <1>1 DEF Block
<1>3. s[r].type # "normal" => lo = r
  <2> SUFFICES ASSUME lo # r, s[r].type # "normal" PROVE FALSE
    OBVIOUS
  <2>1. lo < r /\ L > 1
    BY <1>1
  <2> QED
    BY <1>1, <2>1 DEF Block
<1>4. s[lo].type # "group" => L = 1
  BY <1>1, BlockKinds
<1>5. s[lo].type = "group" => L >= 3
  BY <1>1, BlockKinds
<1>6. (s[r].type = "group" => lo = r /\ L >= 3) /\ (s[r].type = "overlap" => lo = r /\ L = 1)
  BY <1>3, <1>4, <1>5
<1> QED
  BY <1>1, <1>2, <1>6 DEF InBlock

\* A header begins a block of three rows or more, an overlap is one row.
LEMMA KindOfBlock ==
  ASSUME NEW s \in Seq(Row), Whole(s), NEW r \in 1..Len(s)
  PROVE  /\ s[r].type = "group" => \E L \in Nat : Block(s, r, L) /\ L >= 3
         /\ s[r].type = "overlap" => Block(s, r, 1)
<1>1. PICK lo, L \in Nat : InBlock(s, r, lo, L)
  BY BlockOf
<1>2. CASE s[r].type = "group"
  BY <1>1, <1>2 DEF InBlock
<1>3. CASE s[r].type = "overlap"
  BY <1>1, <1>3 DEF InBlock
<1> QED
  BY <1>2, <1>3

\* expandApp: an overlap gives way to a header and all records.
Expanded(a) ==
  LET newest == LatestFirst(Records(db, a), Cardinality(Records(db, a)))
  IN  <<Group(Max(Records(db, a)))>> \o [i \in DOMAIN newest |-> Normal(newest[i])]

\* A header and the rows of the records R.
Opens(b, a, R) ==
  /\ b \in Seq(Row) /\ Len(b) = Cardinality(R) + 1
  /\ b[1].type = "group" /\ \A j \in 1..Len(b) : b[j].app = a /\ b[j].n \in R
  /\ \A j \in 1..Len(b) : j # 1 => b[j].type = "normal"
  /\ \A i, j \in 1..Len(b) : i # 1 /\ j # 1 /\ i # j => b[i].n # b[j].n
  /\ \A n \in R : \E j \in 1..Len(b) : j # 1 /\ b[j].n = n

\* All records of the application come behind the header, each once.
LEMMA ExpandedFacts ==
  ASSUME app \in Seq(App), db \in SUBSET Note, NEW a, NEW R, R = Records(db, a), Cardinality(R) >= 2,
         NEW b, b = Expanded(a)
  PROVE  Opens(b, a, R)
<1> DEFINE c == Cardinality(R)
           newest == LatestFirst(R, c)
           normals == [i \in DOMAIN newest |-> Normal(newest[i])]
           g == <<Group(Max(R))>>
<1>1. /\ Len(app) \in Nat /\ Note = 1..Len(app) /\ R \in SUBSET (1..Len(app)) /\ R \subseteq Note
      /\ IsFiniteSet(R) /\ c \in Nat
  BY StoreFacts
<1>2. \A n \in R : app[n] = a
  BY DEF Records
<1>3. R # {}
  BY <1>1, FS_EmptySet
<1>4. Max(R) \in R
  BY <1>1, <1>3, MaxOfRows
<1>5. b = g \o normals
  BY DEF Expanded
<1>6. c \in 0..c
  BY <1>1
<1>7. /\ newest \in Seq(R) /\ Len(newest) = c
      /\ \A i, j \in 1..c : i < j => newest[i] > newest[j]
      /\ \A n \in R : Contains(newest, n)
  BY <1>1, <1>6, LatestFirstFacts
<1>8. DOMAIN newest = 1..c /\ \A i \in 1..c : newest[i] \in R
  BY <1>7
<1>9. \A n \in R : \E i \in 1..c : newest[i] = n
  BY <1>7, <1>8 DEF Contains
<1> HIDE DEF newest
<1>10. 0 \in 0..FullCount
  BY DEF FullCount
<1>11. \A n \in R : /\ Normal(n) \in Row /\ Normal(n).app = a /\ Normal(n).n = n /\ Normal(n).type = "normal"
                    /\ Group(n) \in Row /\ Group(n).app = a /\ Group(n).n = n /\ Group(n).type = "group"
  BY <1>1, <1>2, <1>10, NewRows
<1>12. normals \in Seq(Row) /\ Len(normals) = c /\ \A i \in 1..c : normals[i] = Normal(newest[i])
  <2>1. normals \in [1..c -> Row]
    BY <1>8, <1>11
  <2> QED
    BY <1>1, <1>8, <2>1
<1>13. g \in Seq(Row) /\ Len(g) = 1 /\ g[1] = Group(Max(R))
  BY <1>4, <1>11
<1> HIDE DEF g, normals, c
<1>14. /\ b \in Seq(Row) /\ Len(b) = 1 + c
       /\ \A j \in 1..1 + c : b[j] = IF j <= 1 THEN g[j] ELSE normals[j - 1]
  <2>1. /\ b \in Seq(Row) /\ Len(b) = Len(g) + Len(normals)
        /\ \A j \in 1..Len(g) + Len(normals) : b[j] = IF j <= Len(g) THEN g[j] ELSE normals[j - Len(g)]
    <3>1. g \in Seq(Row) /\ normals \in Seq(Row)
      BY <1>12, <1>13
    <3> QED
      BY <1>5, <3>1, TwoLists
  <2> QED
    BY <1>12, <1>13, <2>1
<1>15. b[1] = Group(Max(R)) /\ \A j \in 1..1 + c : j # 1 => j - 1 \in 1..c /\ b[j] = Normal(newest[j - 1])
  BY <1>1, <1>12, <1>13, <1>14
<1>16. b[1].type = "group" /\ b[1].app = a /\ b[1].n \in R
  BY <1>4, <1>11, <1>15
<1>17. \A j \in 1..1 + c : j # 1 => /\ b[j].app = a /\ b[j].n = newest[j - 1] /\ b[j].n \in R
                                    /\ b[j].type = "normal"
  BY <1>8, <1>11, <1>15
<1>18. ASSUME NEW i \in 1..1 + c, NEW j \in 1..1 + c, i # 1, j # 1, i # j
       PROVE  b[i].n # b[j].n
  <2> DEFINE x == i - 1
             y == j - 1
  <2>1. x \in 1..c /\ y \in 1..c /\ (x < y \/ y < x)
    BY <1>1, <1>18
  <2> HIDE DEF x, y
  <2>2. newest[x] \in Int /\ newest[y] \in Int
    BY <1>1, <1>8, <2>1
  <2>3. newest[x] # newest[y]
    BY <1>7, <2>1, <2>2 DEF c
  <2> QED
    BY <1>17, <1>18, <2>3 DEF x, y
<1>19. ASSUME NEW n \in R
       PROVE  \E j \in 1..1 + c : j # 1 /\ b[j].n = n
  <2>1. PICK i \in 1..c : newest[i] = n
    BY <1>9
  <2>2. i + 1 \in 1..1 + c /\ i + 1 # 1 /\ (i + 1) - 1 = i
    BY <1>1
  <2> QED
    BY <1>17, <2>1, <2>2
<1> QED
  BY <1>1, <1>14, <1>16, <1>17, <1>18, <1>19 DEF c, Opens

\* One row gives way to the rows b.
Spliced(s, r, b) == SubSeq(s, 1, r - 1) \o b \o SubSeq(s, r + 1, Len(s))

\* The rows around the one that gives way stay.
LEMMA SplicedFacts ==
  ASSUME NEW s \in Seq(Row), NEW r \in 1..Len(s), NEW b \in Seq(Row), NEW t, t = Spliced(s, r, b)
  PROVE  /\ Differ(s, t, r, 1, Len(b)) /\ \A j \in 1..Len(b) : t[(r - 1) + j] = b[j]
         /\ Len(b) = 0 => Around(s, t, r, 1)
<1> DEFINE a == SubSeq(s, 1, r - 1)
           c == SubSeq(s, r + 1, Len(s))
<1>1. Len(s) \in Nat /\ r \in Nat /\ 1 <= r /\ r <= Len(s) /\ Len(b) \in Nat
  OBVIOUS
<1>2. a \in Seq(Row) /\ Len(a) = r - 1 /\ \A j \in 1..r - 1 : a[j] = s[j]
  <2>1. 1 \in Nat /\ r - 1 \in Nat /\ 1 <= (r - 1) + 1 /\ r - 1 <= Len(s) /\ (r - 1) + 1 - 1 = r - 1
    BY <1>1
  <2>2. a \in Seq(Row) /\ Len(a) = (r - 1) + 1 - 1 /\ \A j \in 1..(r - 1) + 1 - 1 : a[j] = s[1 + j - 1]
    BY <2>1, PartOf
  <2>3. \A j \in 1..r - 1 : 1 + j - 1 = j
    BY <1>1
  <2> HIDE DEF a
  <2> QED
    BY <2>1, <2>2, <2>3
<1>3. c \in Seq(Row) /\ Len(c) = Len(s) - r /\ \A j \in 1..Len(s) - r : c[j] = s[r + j]
  <2>1. /\ r + 1 \in Nat /\ 1 <= r + 1 /\ r + 1 <= Len(s) + 1 /\ Len(s) <= Len(s)
        /\ Len(s) + 1 - (r + 1) = Len(s) - r
    BY <1>1
  <2>2. /\ c \in Seq(Row) /\ Len(c) = Len(s) + 1 - (r + 1)
        /\ \A j \in 1..Len(s) + 1 - (r + 1) : c[j] = s[(r + 1) + j - 1]
    BY <1>1, <2>1, PartOf
  <2>3. \A j \in 1..Len(s) - r : (r + 1) + j - 1 = r + j
    BY <1>1
  <2> HIDE DEF c
  <2> QED
    BY <2>1, <2>2, <2>3
<1>4. t = a \o b \o c
  BY DEF Spliced
<1> HIDE DEF a, c
<1>5. /\ t \in Seq(Row) /\ Len(t) = Len(a) + Len(b) + Len(c)
      /\ \A j \in 1..Len(t) : j <= Len(a) => t[j] = a[j]
      /\ \A j \in 1..Len(b) : t[Len(a) + j] = b[j]
      /\ \A j \in 1..Len(c) : t[Len(a) + Len(b) + j] = c[j]
  <2>1. a \in Seq(Row) /\ c \in Seq(Row)
    BY <1>2, <1>3
  <2> QED
    BY <1>4, <2>1, ThreeLists
<1>6. Len(t) + 1 = Len(s) + Len(b)
  BY <1>1, <1>2, <1>3, <1>5
<1>7. \A j \in 1..Len(t) : j < r => t[j] = s[j]
  BY <1>1, <1>2, <1>5
<1>8. ASSUME NEW j \in 1..Len(t), r + Len(b) <= j
      PROVE  t[j] = s[(j + 1) - Len(b)]
  <2> DEFINE i == j + 1 - (r + Len(b))
  <2>1. i \in 1..Len(s) - r /\ j = (r - 1) + Len(b) + i /\ r + i = (j + 1) - Len(b)
    BY <1>1, <1>6, <1>8
  <2> HIDE DEF i
  <2>2. t[Len(a) + Len(b) + i] = c[i] /\ c[i] = s[r + i]
    BY <1>3, <1>5, <2>1
  <2> QED
    BY <1>2, <2>1, <2>2
<1>9. Differ(s, t, r, 1, Len(b))
  BY <1>1, <1>5, <1>6, <1>7, <1>8 DEF Differ
<1>10. ASSUME Len(b) = 0
       PROVE  Around(s, t, r, 1)
  <2>1. Len(s) = Len(t) + 1 /\ Len(t) \in Nat
    BY <1>1, <1>5, <1>6, <1>10
  <2>2. \A j \in 1..Len(s) : j < r => s[j] = t[j]
    BY <1>1, <1>7, <2>1
  <2>3. ASSUME NEW j \in 1..Len(s), r + 1 <= j
        PROVE  s[j] = t[j - 1]
    <3> DEFINE i == j - 1
    <3>1. i \in 1..Len(t) /\ r + Len(b) <= i /\ (i + 1) - Len(b) = j
      BY <1>1, <1>10, <2>1, <2>3
    <3> HIDE DEF i
    <3>2. t[i] = s[(i + 1) - Len(b)]
      BY <1>8, <3>1
    <3> QED
      BY <3>1, <3>2 DEF i
  <2> QED
    BY <1>1, <1>5, <2>1, <2>2, <2>3 DEF Around
<1>11. \A j \in 1..Len(b) : t[(r - 1) + j] = b[j]
  BY <1>2, <1>5
<1> QED
  BY <1>9, <1>10, <1>11

\* expandApp only changes the rows of one application, and they cover its records.
LEMMA ExpandAppFacts ==
  ASSUME Stores, NEW D, RowsFit(rows, D), NEW r \in 1..Len(rows), ExpandApp(r), NEW a, a = rows[r].app,
         NEW R, R = Records(db, a)
  PROVE  /\ Changed(rows, rows', a, D)
         /\ \A T : T \subseteq R /\ Covers(rows, a, R, T) => Covers(rows', a, R, T)
<1> DEFINE t == rows'
           b == IF Cardinality(R) < 2 THEN <<>> ELSE Expanded(a)
<1>1. /\ rows \in Seq(Row) /\ Shape(rows, pinned, D) /\ Fits(rows) /\ Whole(rows) /\ Len(rows) \in Nat
      /\ app \in Seq(App) /\ db \in SUBSET Note
  BY DEF RowsFit, Shape, Stores
<1>2. rows[r].type = "overlap" /\ t = Spliced(rows, r, b)
  BY DEF ExpandApp, Spliced, Expanded
<1>3. Block(rows, r, 1)
  BY <1>1, <1>2, KindOfBlock
<1>4. Cardinality(R) \in Nat /\ R \subseteq Note /\ \A n \in R : app[n] = a
  <2>1. Cardinality(R) \in Nat /\ R \subseteq Note
    BY <1>1, StoreFacts
  <2> QED
    BY <2>1 DEF Records
<1> HIDE DEF t
<1>5. CASE Cardinality(R) < 2
  <2>1. b \in Seq(Row) /\ Len(b) = 0
    BY <1>5
  <2> HIDE DEF b
  <2>2. Around(rows, t, r, 1)
    BY <1>1, <1>2, <2>1, SplicedFacts
  <2>3. Changed(rows, t, a, D)
    BY <1>3, <2>2, BlockGone
  <2>4. \A T : ~Covers(rows, a, R, T)
    BY <1>2, <1>4, <1>5 DEF Covers
  <2> QED
    BY <2>3, <2>4 DEF t
<1>6. CASE Cardinality(R) >= 2
  <2> DEFINE M == Len(b)
  <2>1. b = Expanded(a)
    BY <1>4, <1>6
  <2> HIDE DEF b
  <2>2. /\ b \in Seq(Row) /\ Len(b) = Cardinality(R) + 1
        /\ b[1].type = "group" /\ \A j \in 1..Len(b) : b[j].app = a /\ b[j].n \in R
        /\ \A j \in 1..Len(b) : j # 1 => b[j].type = "normal"
        /\ \A i, j \in 1..Len(b) : i # 1 /\ j # 1 /\ i # j => b[i].n # b[j].n
        /\ \A n \in R : \E j \in 1..Len(b) : j # 1 /\ b[j].n = n
    <3>1. Opens(b, a, R)
      BY <1>1, <1>6, <2>1, ExpandedFacts
    <3> QED
      BY <3>1 DEF Opens
  <2>3. M \in Nat /\ M >= 3 /\ M = Len(b)
    BY <1>4, <1>6, <2>2
  <2>4. Differ(rows, t, r, 1, M) /\ \A j \in 1..M : t[(r - 1) + j] = b[j]
    BY <1>1, <1>2, <2>2, SplicedFacts
  <2> HIDE DEF M
  <2>5. /\ t \in Seq(Row) /\ Len(t) \in Nat /\ Len(t) = Len(rows) + M - 1
        /\ r \in Nat /\ 1 <= r /\ r <= Len(rows)
    BY <1>1, <2>3, <2>4 DEF Differ
  <2>6. ASSUME NEW j \in 1..Len(t), r <= j, j < r + M
        PROVE  /\ j + 1 - r \in 1..M /\ t[j] = b[j + 1 - r] /\ (j = r <=> j + 1 - r = 1)
    <3> DEFINE i == j + 1 - r
    <3>1. i \in 1..M /\ (r - 1) + i = j /\ (j = r <=> i = 1)
      BY <2>3, <2>5, <2>6
    <3> HIDE DEF i
    <3>2. t[j] = b[i]
      BY <2>4, <3>1
    <3> QED
      BY <3>1, <3>2 DEF i
  <2>7. \A j \in 1..Len(t) : r <= j /\ j < r + M =>
          /\ t[j].app = a /\ t[j].n \in R
          /\ j = r => t[j].type = "group"
          /\ j # r => t[j].type = "normal"
    <3> SUFFICES ASSUME NEW j \in 1..Len(t), r <= j, j < r + M
                 PROVE  /\ t[j].app = a /\ t[j].n \in R
                        /\ j = r => t[j].type = "group"
                        /\ j # r => t[j].type = "normal"
      OBVIOUS
    <3> DEFINE i == j + 1 - r
    <3>1. i \in 1..M /\ t[j] = b[i] /\ (j = r <=> i = 1)
      BY <2>6
    <3> HIDE DEF i
    <3> QED
      BY SMTT(30), <2>2, <2>3, <3>1
  <2>8. r \in 1..Len(t) /\ r <= r /\ r < r + M
    BY <2>3, <2>5
  <2>9. Form(t, r, M, a)
    <3>1. \A j \in 1..Len(t) : r < j /\ j < r + M => r <= j /\ j # r
      BY <2>5
    <3> QED
      BY <2>3, <2>7, <2>8, <3>1 DEF Form
  <2>10. Distinct(t, r, M)
    <3> SUFFICES ASSUME NEW i \in 1..Len(t), NEW j \in 1..Len(t), r <= i, i < r + M, r <= j, j < r + M,
                        i # j, t[i].type = "normal", t[j].type = "normal"
                 PROVE  t[i].n # t[j].n
      BY DEF Distinct
    <3> DEFINE x == i + 1 - r
               y == j + 1 - r
    <3>1. x \in 1..M /\ t[i] = b[x] /\ (i = r <=> x = 1) /\ y \in 1..M /\ t[j] = b[y] /\ (j = r <=> y = 1)
      BY <2>6
    <3>2. i # r /\ j # r /\ x # y
      BY <2>5, <2>7
    <3> HIDE DEF x, y
    <3> QED
      BY <2>2, <2>3, <3>1, <3>2
  <2>11. Shape(t, pinned, D) /\ Block(t, r, M) /\ t[r].app = a /\ OthersSame(rows, t, a)
    <3>1. Replacing(rows, t, a, r, 1, M, pinned, D, D)
      BY <1>1, <1>3, <2>4, <2>9, <2>10 DEF Replacing
    <3> QED
      BY <3>1, Replaced
  <2>12. \A j \in 1..Len(t) : t[j].app = a => r <= j /\ j < r + M
    BY <2>11 DEF Block
  <2>13. Fits(t)
    <3>1. \A j \in 1..Len(t) : t[j].app = a => t[j].n \in Note /\ app[t[j].n] = a
      BY <1>4, <2>7, <2>12
    <3> QED
      BY <1>1, <2>11, <3>1, OthersFit
  <2>14. ASSUME NEW T, T \subseteq R PROVE Covers(t, a, R, T)
    <3>1. \A j \in 1..Len(t) : t[j].app = a => t[j].n \in R /\ t[j].type # "overlap"
      BY <2>7, <2>12
    <3>2. ASSUME NEW n \in T PROVE \E j \in 1..Len(t) : t[j].app = a /\ t[j].type = "normal" /\ t[j].n = n
      <4>1. PICK i \in 1..M : i # 1 /\ b[i].n = n
        BY <2>2, <2>3, <2>14, <3>2
      <4> DEFINE j == (r - 1) + i
      <4>2. j \in 1..Len(t) /\ r <= j /\ j < r + M /\ j # r
        BY <2>3, <2>5, <4>1
      <4>3. t[j] = b[i]
        BY <2>4
      <4> HIDE DEF j
      <4> QED
        BY <2>7, <4>1, <4>2, <4>3
    <3> QED
      BY <3>1, <3>2 DEF Covers
  <2> QED
    BY <2>11, <2>13, <2>14 DEF Changed, RowsFit, t
<1> QED
  BY <1>4, <1>5, <1>6

\* What is left of the rows without those of an open group.
LEMMA WithoutGroupFacts ==
  ASSUME NEW D, RowsFit(rows, D), NEW r \in 1..Len(rows), rows[r].type = "group",
         NEW a, a = rows[r].app, NEW rest, rest = WithoutGroup(r, a)
  PROVE  \E L \in Nat : Block(rows, r, L) /\ L >= 3 /\ Around(rows, rest, r, L)
<1>1. rows \in Seq(Row) /\ Whole(rows) /\ Len(rows) \in Nat
  BY DEF RowsFit, Shape
<1>2. PICK L \in Nat : Block(rows, r, L) /\ L >= 3
  BY <1>1, KindOfBlock
<1>3. r \in Nat /\ 1 <= r /\ r + L <= Len(rows) + 1
  BY <1>2 DEF Block
<1>4. NormalsOf(rows, a) = {i \in 1..Len(rows) : r <= i /\ i < r + L /\ rows[i].type = "normal"}
  <2>1. NormalsOf(rows, rows[r].app) = {i \in 1..Len(rows) : r <= i /\ i < r + L /\ rows[i].type = "normal"}
    <3> DEFINE x == rows[r].app
    <3>1. rows \in Seq(Row) /\ Block(rows, r, L)
      BY <1>1, <1>2
    <3> QED
      BY <3>1, BlockFound
  <2> QED
    BY <2>1
<1>5. \A i \in 1..Len(rows) : r < i /\ i < r + L => rows[i].type = "normal"
  BY <1>2 DEF Block
<1> DEFINE I == {i \in 1..Len(rows) : i < r \/ r + L <= i}
           J == {i \in DOMAIN rows : i < r \/ (i > r /\ i \notin NormalsOf(rows, a))}
<1>6. \A i \in 1..Len(rows) : i \in I <=> i \in J
  <2> SUFFICES ASSUME NEW i \in 1..Len(rows) PROVE i \in I <=> i \in J
    OBVIOUS
  <2>1. i \in NormalsOf(rows, a) <=> r <= i /\ i < r + L /\ rows[i].type = "normal"
    BY <1>4
  <2>2. i \in J <=> i < r \/ (i > r /\ ~ (r <= i /\ i < r + L /\ rows[i].type = "normal"))
    BY <2>1
  <2>3. i \in I <=> i < r \/ r + L <= i
    OBVIOUS
  <2> HIDE DEF I, J
  <2>4. r < i /\ i < r + L => rows[i].type = "normal"
    BY <1>5
  <2> QED
    BY <1>1, <1>3, <1>2, <2>2, <2>3, <2>4
<1>7. I = J
  BY <1>1, <1>6
<1>8. rest = RowsAt(rows, I)
  BY <1>7 DEF WithoutGroup
<1>9. Around(rows, RowsAt(rows, I), r, L)
  BY <1>1, <1>3, LeftAround
<1> QED
  BY <1>2, <1>8, <1>9

\* The header of a group that is only told once of its records has two of them.
LEMMA GroupOfTwo ==
  ASSUME NEW D, NEW s, Shape(s, pinned, D), NEW r, NEW L, Block(s, r, L), L >= 3,
         NEW a, a = s[r].app, a \notin D, NEW R, IsFiniteSet(R), NEW T, Covers(s, a, R, T)
  PROVE  Cardinality(R) >= 2
<1>1. /\ s \in Seq(Row) /\ Len(s) \in Nat /\ r \in Nat /\ L \in Nat /\ 1 <= r /\ r + L <= Len(s) + 1
      /\ \A j \in 1..Len(s) : r < j /\ j < r + L => s[j].app = a /\ s[j].type = "normal"
  BY DEF Shape, Block
<1> DEFINE i == r + 1
           j == r + 2
<1>2. i \in 1..Len(s) /\ j \in 1..Len(s) /\ r < i /\ i < r + L /\ r < j /\ j < r + L /\ i # j
  BY <1>1
<1> HIDE DEF i, j
<1>3. s[i].app = a /\ s[i].type = "normal" /\ s[j].app = a /\ s[j].type = "normal"
  BY <1>1, <1>2
<1>4. s[i].n # s[j].n
  BY <1>2, <1>3 DEF Shape, Singly
<1>5. s[i].n \in R /\ s[j].n \in R
  BY <1>2, <1>3 DEF Covers
<1> QED
  BY <1>4, <1>5, TwoOf

\* collapseApp: an open group gives way to an overlap.
LEMMA CollapseAppFacts ==
  ASSUME Stores, NEW D, RowsFit(rows, D), NEW r \in 1..Len(rows), CollapseApp(r), NEW a, a = rows[r].app,
         NEW R, R = Records(db, a)
  PROVE  /\ Changed(rows, rows', a, D)
         /\ \A T : a \notin D /\ Covers(rows, a, R, T) => Covers(rows', a, R, T)
<1> DEFINE t == rows'
           rest == WithoutGroup(r, a)
           n == LastRecord(db, a)
           c == OverlapCount(Cardinality(R))
<1>1. /\ rows \in Seq(Row) /\ Shape(rows, pinned, D) /\ Fits(rows) /\ Whole(rows) /\ Len(rows) \in Nat
      /\ app \in Seq(App) /\ db \in SUBSET Note
  BY DEF RowsFit, Shape, Stores
<1>2. rows[r].type = "group" /\ t = IF Cardinality(R) >= 2 THEN InsertAt(rest, r, Counted(n)) ELSE rest
  BY DEF CollapseApp
<1> HIDE DEF t, rest
<1>3. PICK L \in Nat : Block(rows, r, L) /\ L >= 3 /\ Around(rows, rest, r, L)
  BY <1>2, WithoutGroupFacts DEF rest
<1>4. Changed(rows, rest, a, D) /\ NoneOf(rest, a) /\ Gap(rest, r, a, pinned)
  BY <1>3, BlockGone
<1>5. IsFiniteSet(R) /\ Cardinality(R) \in Nat /\ R \subseteq Note /\ \A m \in R : app[m] = a
  <2>1. IsFiniteSet(R) /\ Cardinality(R) \in Nat /\ R \subseteq Note
    BY <1>1, StoreFacts
  <2> QED
    BY <2>1 DEF Records
<1>6. CASE ~ (Cardinality(R) >= 2)
  <2>1. t = rest
    BY <1>2, <1>6
  <2>2. \A T : ~ (a \notin D /\ Covers(rows, a, R, T))
    BY <1>1, <1>3, <1>5, <1>6, GroupOfTwo
  <2> QED
    BY <1>4, <2>1, <2>2 DEF t
<1>7. CASE Cardinality(R) >= 2
  <2>1. n \in R
    <3>1. R # {}
      BY <1>5, <1>7, FS_EmptySet
    <3> QED
      BY <1>1, <3>1, LastFacts
  <2>2. c \in 0..FullCount
    BY <1>5, OverlapCountFacts
  <2>3. n \in Note /\ app[n] = a
    BY <1>5, <2>1
  <2>4. Counted(n) = Overlap(n, c)
    BY <2>3 DEF Counted
  <2> HIDE DEF n, c
  <2>5. /\ Overlap(n, c) \in Row /\ Overlap(n, c).app = a /\ Overlap(n, c).n = n
        /\ Overlap(n, c).type = "overlap" /\ Overlap(n, c).count = c
    BY <1>1, <2>2, <2>3, NewRows
  <2>6. t = InsertAt(rest, r, Overlap(n, c))
    BY <1>2, <1>7, <2>4 DEF n
  <2>7. rest \in Seq(Row) /\ r \in 1..Len(rest) + 1 /\ Shape(rest, pinned, D) /\ OthersSame(rows, rest, a)
    BY <1>4 DEF Changed, RowsFit, Shape, Gap
  <2>8. Around(t, rest, r, 1) /\ t[r] = Overlap(n, c)
    BY <2>5, <2>6, <2>7, InsertAround
  <2>9. Form(t, r, 1, a) /\ Distinct(t, r, 1)
    <3>1. \A j \in 1..Len(t) : r <= j /\ j < r + 1 => j = r
      BY <2>7
    <3> QED
      BY <2>5, <2>8, <3>1 DEF Form, Distinct
  <2>10. Shape(t, pinned, D) /\ Block(t, r, 1) /\ OthersSame(rest, t, a)
    BY <1>4, <2>7, <2>8, <2>9, PutIn
  <2>11. OthersSame(rows, t, a)
    BY <2>7, <2>10, OthersStay
  <2>12. Fits(t)
    <3>1. t \in Seq(Row) /\ t[r].app = a
      BY <2>5, <2>8, <2>10 DEF Shape
    <3>2. \A j \in 1..Len(t) : t[j].app = a => j = r
      BY <2>10, <3>1, BlockKinds
    <3>3. \A j \in 1..Len(t) : t[j].app = a => t[j].n \in Note /\ app[t[j].n] = a
      BY <2>3, <2>5, <2>8, <3>2
    <3> QED
      BY <1>1, <2>11, <3>3, OthersFit
  <2>13. \A T : Covers(t, a, R, T)
    BY <1>7, <2>1, <2>5, <2>8, <2>10, SingleCovers DEF c
  <2> QED
    BY <2>10, <2>11, <2>12, <2>13 DEF Changed, RowsFit, t
<1> QED
  BY <1>6, <1>7

\* removeByApp: an application loses its rows.
LEMMA RemoveByAppFacts ==
  ASSUME NEW D, RowsFit(rows, D), NEW r \in 1..Len(rows), RemoveByApp(r), NEW a, a = rows[r].app
  PROVE  Changed(rows, rows', a, D) /\ NoneOf(rows', a)
<1>1. rows \in Seq(Row) /\ Whole(rows) /\ Len(rows) \in Nat
  BY DEF RowsFit, Shape
<1> DEFINE t == rows'
<1>2. /\ rows[r].type \in {"group", "overlap"}
      /\ t = IF rows[r].type = "group" THEN WithoutGroup(r, a) ELSE RemoveAt(rows, r)
  BY DEF RemoveByApp
<1> HIDE DEF t
<1>3. \E L \in Nat : Block(rows, r, L) /\ Around(rows, t, r, L)
  <2>1. CASE rows[r].type = "group"
    BY <1>2, <2>1, WithoutGroupFacts
  <2>2. CASE rows[r].type = "overlap"
    <3>1. Block(rows, r, 1)
      BY <1>1, <2>2, KindOfBlock
    <3>2. Around(rows, t, r, 1)
      BY <1>1, <1>2, <2>2, RemoveAround
    <3> QED
      BY <3>1, <3>2
  <2> QED
    BY <1>2, <2>1, <2>2
<1> QED
  BY <1>3, BlockGone DEF t

-----------------------------------------------------------------------------
(* remove(id) of the record in a row.                                      *)

\* The rows of a from lo on are a header and M - 1 records: remove leaves one or more,
\* which make a block only if they are two or more.
Headed(s, lo, M, a) ==
  /\ s \in Seq(Row) /\ lo \in Nat /\ M \in Nat /\ 1 <= lo /\ 1 <= M /\ lo + M <= Len(s) + 1
  /\ \A j \in 1..Len(s) : s[j].app = a <=> lo <= j /\ j < lo + M
  /\ s[lo].type = "group"
  /\ \A j \in 1..Len(s) : lo < j /\ j < lo + M => s[j].type = "normal"

\* What is found of such rows.
LEMMA HeadedFacts ==
  ASSUME NEW s, NEW lo, NEW M, NEW a, Headed(s, lo, M, a)
  PROVE  GroupOf(s, a) = lo /\ Cardinality(NormalsOf(s, a)) = M - 1
<1>1. /\ s \in Seq(Row) /\ lo \in Nat /\ M \in Nat /\ 1 <= lo /\ 1 <= M /\ lo + M <= Len(s) + 1
      /\ Len(s) \in Nat
      /\ \A j \in 1..Len(s) : s[j].app = a <=> lo <= j /\ j < lo + M
      /\ s[lo].type = "group"
      /\ \A j \in 1..Len(s) : lo < j /\ j < lo + M => s[j].type = "normal"
  BY DEF Headed
<1>2. lo \in 1..Len(s) /\ s[lo].app = a
  BY <1>1
<1>3. \A j \in 1..Len(s) : s[j].app = a /\ s[j].type = "group" <=> j = lo
  <2> SUFFICES ASSUME NEW j \in 1..Len(s), s[j].app = a, s[j].type = "group" PROVE j = lo
    BY <1>1, <1>2
  <2>1. lo <= j /\ j < lo + M /\ ~ (lo < j /\ j < lo + M)
    BY <1>1
  <2> QED
    BY <1>1, <2>1
<1>4. GroupOf(s, a) = lo
  <2> DEFINE G == {i \in 1..Len(s) : s[i].app = a /\ s[i].type = "group"}
  <2>1. GroupOf(s, a) = IF G # {} THEN Min(G) ELSE 0
    BY DEF GroupOf, SelectInSeq
  <2>2. G = {lo} /\ G \in SUBSET Nat
    BY <1>1, <1>2, <1>3
  <2> HIDE DEF G
  <2>3. Min(G) \in G
    BY <2>2, MinOfRows
  <2> QED
    BY <2>1, <2>2, <2>3
<1>5. NormalsOf(s, a) = (lo + 1)..(lo + M - 1)
  <2>1. NormalsOf(s, a) = {i \in 1..Len(s) : s[i].app = a /\ s[i].type = "normal"}
    BY <1>1 DEF NormalsOf
  <2> HIDE DEF NormalsOf
  <2>2. ASSUME NEW i \in (lo + 1)..(lo + M - 1)
        PROVE  i \in 1..Len(s) /\ s[i].app = a /\ s[i].type = "normal"
    <3>1. i \in 1..Len(s) /\ lo < i /\ lo <= i /\ i < lo + M
      BY <1>1
    <3> QED
      BY <1>1, <3>1
  <2>3. ASSUME NEW i \in 1..Len(s), s[i].app = a, s[i].type = "normal"
        PROVE  i \in (lo + 1)..(lo + M - 1)
    <3>1. lo <= i /\ i < lo + M
      BY <1>1, <2>3
    <3>2. i # lo
      BY <1>1, <2>3
    <3> QED
      BY <1>1, <3>1, <3>2
  <2> QED
    BY <2>1, <2>2, <2>3
<1>6. Cardinality((lo + 1)..(lo + M - 1)) = M - 1
  <2> DEFINE x == lo + 1
             y == lo + M - 1
  <2>1. x \in Int /\ y \in Int /\ (x > y <=> M = 1) /\ y - x + 1 = M - 1
    BY <1>1
  <2> HIDE DEF x, y
  <2>2. Cardinality(x..y) = IF x > y THEN 0 ELSE y - x + 1
    BY <2>1, FS_Interval
  <2>3. Cardinality(x..y) = M - 1
    BY <1>1, <2>1, <2>2
  <2> QED
    BY <2>3 DEF x, y
<1> QED
  BY <1>4, <1>5, <1>6

\* The row of the list that is row j when row r is gone.
Past(j, r) == IF j < r THEN j ELSE j + 1

\* Row r of a group goes.
Thinning(r, lo, L, a, D) ==
  /\ app \in Seq(App) /\ RowsFit(rows, D) /\ Block(rows, lo, L) /\ L >= 3 /\ a = rows[lo].app
  /\ r \in 1..Len(rows) /\ lo < r /\ r < lo + L

\* t has the rows without row r, and its header shows one of the records.
Thinned(t, r, lo, L, a) ==
  /\ t \in Seq(Row) /\ Len(t) = Len(rows) - 1
  /\ \A j \in 1..Len(t) : j # lo => t[j] = rows[Past(j, r)]
  /\ t[lo].app = a /\ t[lo].type = "group" /\ t[lo].n \in Note /\ app[t[lo].n] = a
  /\ Headed(t, lo, L - 1, a)

InGroup(r, lo, L, a) ==
  /\ rows \in Seq(Row) /\ Len(rows) \in Nat /\ lo \in Nat /\ L \in Nat /\ 1 <= lo /\ L >= 3
  /\ r \in Nat /\ lo < r /\ r < lo + L /\ lo + L <= Len(rows) + 1
  /\ \A j \in 1..Len(rows) : rows[j].app = a <=> lo <= j /\ j < lo + L
  /\ rows[lo].type = "group" /\ rows[lo] \in Row
  /\ \A j \in 1..Len(rows) : lo < j /\ j < lo + L => rows[j].type = "normal"
  /\ \A j \in 1..Len(rows) : rows[j].app = a => rows[j].n \in Note /\ app[rows[j].n] = a

\* The rows of the group, written out.
LEMMA ThinningFacts ==
  ASSUME NEW r, NEW lo, NEW L, NEW a, NEW D, Thinning(r, lo, L, a, D)
  PROVE  InGroup(r, lo, L, a)
<1>1. rows \in Seq(Row) /\ Len(rows) \in Nat /\ Fits(rows)
  BY DEF Thinning, RowsFit, Shape
<1>2. /\ lo \in Nat /\ L \in Nat /\ 1 <= lo /\ L >= 3 /\ r \in Nat /\ lo < r /\ r < lo + L
      /\ lo + L <= Len(rows) + 1
  BY <1>1 DEF Thinning, Block
<1>3. /\ \A j \in 1..Len(rows) : rows[j].app = a <=> lo <= j /\ j < lo + L
      /\ rows[lo].type = "group"
      /\ \A j \in 1..Len(rows) : lo < j /\ j < lo + L => rows[j].type = "normal"
  BY <1>2 DEF Thinning, Block
<1>4. rows[lo] \in Row
  BY <1>1, <1>2
<1>5. \A j \in 1..Len(rows) : rows[j].app = a => rows[j].n \in Note /\ app[rows[j].n] = a
  BY <1>1 DEF Fits
<1> QED
  BY <1>1, <1>2, <1>3, <1>4, <1>5 DEF InGroup

\* A list that has the rows without row r is headed, too.
LEMMA ThinHeaded ==
  ASSUME NEW r, NEW lo, NEW L, NEW a, NEW D, Thinning(r, lo, L, a, D),
         NEW s \in Seq(Row), Len(s) = Len(rows) - 1, s[lo].app = a, s[lo].type = "group",
         \A j \in 1..Len(s) : j # lo => s[j] = rows[Past(j, r)]
  PROVE  Headed(s, lo, L - 1, a)
<1>1. /\ rows \in Seq(Row) /\ Len(rows) \in Nat /\ lo \in Nat /\ L \in Nat /\ 1 <= lo /\ L >= 3
      /\ r \in Nat /\ lo < r /\ r < lo + L /\ lo + L <= Len(rows) + 1
      /\ \A j \in 1..Len(rows) : rows[j].app = a <=> lo <= j /\ j < lo + L
      /\ \A j \in 1..Len(rows) : lo < j /\ j < lo + L => rows[j].type = "normal"
  <2>1. InGroup(r, lo, L, a)
    BY ThinningFacts
  <2> QED
    BY <2>1 DEF InGroup
<1>2. L - 1 \in Nat /\ 1 <= L - 1 /\ lo + (L - 1) <= Len(s) + 1 /\ lo \in 1..Len(s) /\ Len(s) \in Nat
  BY <1>1
<1>3. ASSUME NEW j \in 1..Len(s), j # lo
      PROVE  /\ s[j].app = a <=> lo <= j /\ j < lo + (L - 1)
             /\ lo < j /\ j < lo + (L - 1) => s[j].type = "normal"
  <2> DEFINE i == Past(j, r)
  <2>1. i \in 1..Len(rows) /\ (lo <= i /\ i < lo + L <=> lo <= j /\ j < lo + (L - 1))
        /\ (lo < j => lo < i)
    <3>1. CASE j < r
      <4>1. i = j
        BY <3>1 DEF Past
      <4> QED
        BY <1>1, <1>2, <3>1, <4>1
    <3>2. CASE ~ (j < r)
      <4>1. i = j + 1
        BY <3>2 DEF Past
      <4> QED
        BY <1>1, <1>2, <3>2, <4>1
    <3> QED
      BY <3>1, <3>2
  <2>2. s[j] = rows[i]
    BY <1>3
  <2> HIDE DEF i
  <2>3. lo < j => lo <= j
    BY <1>1
  <2> QED
    BY <1>1, <2>1, <2>2, <2>3
<1>4. \A j \in 1..Len(s) : s[j].app = a <=> lo <= j /\ j < lo + (L - 1)
  <2>1. lo <= lo /\ lo < lo + (L - 1)
    BY <1>1
  <2> QED
    BY <1>3, <2>1
<1>5. \A j \in 1..Len(s) : lo < j /\ j < lo + (L - 1) => s[j].type = "normal"
  BY <1>1, <1>3
<1> QED
  BY <1>1, <1>2, <1>4, <1>5 DEF Headed

\* The rows without row r, then with the header that trayUpdateGroupLastEntity leaves.
LEMMA ThinnedFacts ==
  ASSUME NEW r, NEW lo, NEW L, NEW a, NEW D, Thinning(r, lo, L, a, D),
         NEW t, t = NormalRemoved(RemoveAt(rows, r), a)
  PROVE  Thinned(t, r, lo, L, a)
<1> DEFINE s == RemoveAt(rows, r)
           q == lo + 1
           x == Max({s[lo].n, s[q].n})
           y == [s[lo] EXCEPT !.n = x]
<1>1. /\ rows \in Seq(Row) /\ Len(rows) \in Nat /\ lo \in Nat /\ L \in Nat /\ 1 <= lo /\ L >= 3
      /\ r \in Nat /\ lo < r /\ r < lo + L /\ lo + L <= Len(rows) + 1
      /\ \A j \in 1..Len(rows) : rows[j].app = a <=> lo <= j /\ j < lo + L
      /\ rows[lo].type = "group" /\ rows[lo] \in Row
      /\ \A j \in 1..Len(rows) : lo < j /\ j < lo + L => rows[j].type = "normal"
      /\ \A j \in 1..Len(rows) : rows[j].app = a => rows[j].n \in Note /\ app[rows[j].n] = a
  <2>1. InGroup(r, lo, L, a)
    BY ThinningFacts
  <2> QED
    BY <2>1 DEF InGroup
<1>2. /\ s \in Seq(Row) /\ Len(s) = Len(rows) - 1
      /\ \A j \in 1..Len(rows) - 1 : s[j] = rows[IF j < r THEN j ELSE j + 1]
  <2>1. r \in DOMAIN rows
    BY <1>1
  <2> QED
    BY <1>1, <2>1, RemoveAtFacts
<1> HIDE DEF s
<1>3. lo \in 1..Len(s) /\ q \in 1..Len(s) /\ q # lo
  BY <1>1, <1>2
<1>4. \A j \in 1..Len(s) : s[j] = rows[Past(j, r)]
  BY <1>1, <1>2 DEF Past
<1>5. s[lo] = rows[lo]
  <2>1. Past(lo, r) = lo
    BY <1>1 DEF Past
  <2> QED
    BY <1>3, <1>4, <2>1
<1>6. rows[lo].app = a
  BY <1>1
<1>7. s[lo].app = a /\ s[lo].type = "group" /\ s[lo] \in Row
  BY <1>1, <1>5, <1>6
<1>8. Headed(s, lo, L - 1, a)
  BY <1>2, <1>4, <1>7, ThinHeaded
<1>9. GroupOf(s, a) = lo
  BY <1>8, HeadedFacts
<1> HIDE DEF q
<1>10. t = [s EXCEPT ![lo] = y]
  <2>1. lo > 0
    BY <1>1
  <2> QED
    BY <1>9, <2>1 DEF NormalRemoved, s, q
<1>11. s[lo].n \in Note /\ app[s[lo].n] = a /\ s[q].n \in Note /\ app[s[q].n] = a
  <2>1. s[lo].n \in Note /\ app[s[lo].n] = a
    BY <1>1, <1>3, <1>5, <1>6
  <2>2. \A j \in 1..Len(s) : s[j].app = a <=> lo <= j /\ j < lo + (L - 1)
    BY <1>8 DEF Headed
  <2>3. lo <= q /\ q < lo + (L - 1)
    BY <1>1 DEF q
  <2>4. s[q].app = a
    BY <1>3, <2>2, <2>3
  <2>5. Past(q, r) \in 1..Len(rows)
    BY <1>1, <1>2, <1>3 DEF Past
  <2> QED
    BY <1>1, <1>3, <1>4, <2>1, <2>4, <2>5
<1>12. x \in Note /\ app[x] = a /\ x \in Nat
  <2>1. s[lo].n \in Nat /\ s[q].n \in Nat
    BY <1>11 DEF Note
  <2>2. x = IF s[lo].n >= s[q].n THEN s[lo].n ELSE s[q].n
    <3>1. s[lo].n \in Int /\ s[q].n \in Int
      BY <2>1
    <3> QED
      BY <3>1, TwoNumbers
  <2>3. x = s[lo].n \/ x = s[q].n
    BY <2>2
  <2> QED
    BY <1>11, <2>1, <2>3
<1> HIDE DEF x
<1>13. y \in Row /\ y.app = a /\ y.type = "group" /\ y.n = x
  BY <1>7, <1>12 DEF Row
<1> HIDE DEF y
<1>14. Written(s, t, lo, y)
  <2>1. t = SetTo(s, lo, y)
    BY <1>10 DEF SetTo
  <2> QED
    BY <1>2, <1>3, <1>13, <2>1, SetRow
<1>15. /\ t \in Seq(Row) /\ Len(t) = Len(rows) - 1 /\ t[lo] = y
       /\ \A j \in 1..Len(t) : j # lo => t[j] = rows[Past(j, r)]
  BY <1>2, <1>4, <1>14 DEF Written
<1>16. Headed(t, lo, L - 1, a)
  BY <1>13, <1>15, ThinHeaded
<1> QED
  BY <1>12, <1>13, <1>15, <1>16 DEF Thinned

\* The rows from lo on that are left are M: rows of the group, but not row r.
Kept(t, r, lo, L, M, a) ==
  /\ Differ(rows, t, lo, L, M) /\ Form(t, lo, M, a)
  /\ \A j \in 1..Len(t) : lo <= j /\ j < lo + M =>
       /\ t[j].n \in Note /\ app[t[j].n] = a
       /\ t[j].type # "group" =>
            \E i \in 1..Len(rows) : i # r /\ lo < i /\ i < lo + L /\ t[j] = rows[i]
  /\ \A i \in 1..Len(rows) : i # r /\ lo < i /\ i < lo + L => \E j \in 1..Len(t) : t[j] = rows[i]
  /\ \A j, k \in 1..Len(t) : lo < j /\ j < lo + M /\ lo < k /\ k < lo + M /\ j # k =>
       \E h, i \in 1..Len(rows) : /\ lo < h /\ h < lo + L /\ lo < i /\ i < lo + L /\ h # i
                                  /\ t[j] = rows[h] /\ t[k] = rows[i]

\* More than two records: one row less.
LEMMA ThinKept ==
  ASSUME NEW r, NEW lo, NEW L, NEW a, NEW D, Thinning(r, lo, L, a, D), L # 3,
         NEW t, Thinned(t, r, lo, L, a)
  PROVE  Kept(t, r, lo, L, L - 1, a)
<1>0. InGroup(r, lo, L, a)
  BY ThinningFacts
<1>1. /\ rows \in Seq(Row) /\ Len(rows) \in Nat /\ lo \in Nat /\ L \in Nat /\ 1 <= lo /\ L >= 4
      /\ r \in Nat /\ lo < r /\ r < lo + L /\ lo + L <= Len(rows) + 1
      /\ \A j \in 1..Len(rows) : rows[j].app = a <=> lo <= j /\ j < lo + L
      /\ \A j \in 1..Len(rows) : rows[j].app = a => rows[j].n \in Note /\ app[rows[j].n] = a
  BY <1>0 DEF InGroup
<1>2. /\ t \in Seq(Row) /\ Len(t) = Len(rows) - 1
      /\ \A j \in 1..Len(t) : j # lo => t[j] = rows[Past(j, r)]
      /\ t[lo].app = a /\ t[lo].type = "group" /\ t[lo].n \in Note /\ app[t[lo].n] = a
      /\ Headed(t, lo, L - 1, a)
  BY DEF Thinned
<1> DEFINE M == L - 1
<1>3. M \in Nat /\ M >= 3 /\ M + 1 = L /\ L = M + 1 /\ Len(t) = Len(rows) - 1 /\ Len(t) \in Nat
  BY <1>1, <1>2
<1> HIDE DEF M
<1>4. Differ(rows, t, lo, L, M)
  <2>1. ASSUME NEW j \in 1..Len(t), j < lo PROVE t[j] = rows[j]
    <3>1. Past(j, r) = j /\ j # lo
      BY <1>1, <2>1 DEF Past
    <3> QED
      BY <1>2, <3>1
  <2>2. ASSUME NEW j \in 1..Len(t), lo + M <= j PROVE t[j] = rows[(j + L) - M]
    <3>1. Past(j, r) = (j + L) - M /\ j # lo
      BY <1>1, <1>3, <2>2 DEF Past
    <3> QED
      BY <1>2, <3>1
  <2> QED
    BY <1>1, <1>2, <1>3, <2>1, <2>2 DEF Differ
<1>5. Form(t, lo, M, a)
  <2>1. Headed(t, lo, M, a)
    BY <1>2 DEF M
  <2> QED
    BY <1>3, <2>1 DEF Headed, Form
<1>6. ASSUME NEW j \in 1..Len(t), lo < j, j < lo + M
      PROVE  /\ Past(j, r) \in 1..Len(rows) /\ Past(j, r) # r /\ lo < Past(j, r) /\ Past(j, r) < lo + L
             /\ t[j] = rows[Past(j, r)]
  <2>1. j # lo
    BY <1>1, <1>6
  <2>2. Past(j, r) \in 1..Len(rows) /\ Past(j, r) # r /\ lo < Past(j, r) /\ Past(j, r) < lo + L
    BY <1>1, <1>3, <1>6 DEF Past
  <2> QED
    BY <1>2, <2>1, <2>2
<1>7. ASSUME NEW j \in 1..Len(t), lo <= j, j < lo + M
      PROVE  /\ t[j].n \in Note /\ app[t[j].n] = a
             /\ t[j].type # "group" =>
                  \E i \in 1..Len(rows) : i # r /\ lo < i /\ i < lo + L /\ t[j] = rows[i]
  <2>1. CASE j = lo
    BY <1>2, <2>1
  <2>2. CASE lo < j
    <3> DEFINE i == Past(j, r)
    <3>1. i \in 1..Len(rows) /\ i # r /\ lo < i /\ i < lo + L /\ t[j] = rows[i]
      BY <1>6, <1>7, <2>2
    <3> HIDE DEF i
    <3>2. rows[i].app = a
      BY <1>1, <3>1
    <3> QED
      BY <1>1, <3>1, <3>2
  <2> QED
    BY <1>1, <1>7, <2>1, <2>2
<1>8. ASSUME NEW i \in 1..Len(rows), i # r, lo < i, i < lo + L
      PROVE  \E j \in 1..Len(t) : t[j] = rows[i]
  <2> DEFINE j == IF i < r THEN i ELSE i - 1
  <2>1. j \in 1..Len(t) /\ j # lo /\ Past(j, r) = i
    BY <1>1, <1>3, <1>8 DEF Past
  <2> HIDE DEF j
  <2> QED
    BY <1>2, <2>1
<1>9. ASSUME NEW j \in 1..Len(t), NEW k \in 1..Len(t), lo < j, j < lo + M, lo < k, k < lo + M, j # k
      PROVE  \E h, i \in 1..Len(rows) : /\ lo < h /\ h < lo + L /\ lo < i /\ i < lo + L /\ h # i
                                        /\ t[j] = rows[h] /\ t[k] = rows[i]
  <2> DEFINE h == Past(j, r)
             i == Past(k, r)
  <2>1. h # i
    BY <1>1, <1>3, <1>9 DEF Past
  <2>2. h \in 1..Len(rows) /\ lo < h /\ h < lo + L /\ t[j] = rows[h]
    BY <1>6, <1>9
  <2>3. i \in 1..Len(rows) /\ lo < i /\ i < lo + L /\ t[k] = rows[i]
    BY <1>6, <1>9
  <2> HIDE DEF h, i
  <2> QED
    BY <2>1, <2>2, <2>3
<1>10. Kept(t, r, lo, L, M, a)
  BY <1>4, <1>5, <1>7, <1>8, <1>9 DEF Kept
<1> QED
  BY <1>10 DEF M

\* Of two records, the other.
LEMMA ThinLast ==
  ASSUME NEW r, NEW lo, NEW L, NEW a, NEW D, Thinning(r, lo, L, a, D), L = 3,
         NEW s, Thinned(s, r, lo, L, a), NEW t, t = RemoveAt(s, lo)
  PROVE  Kept(t, r, lo, L, 1, a)
<1>0. InGroup(r, lo, L, a)
  BY ThinningFacts
<1>1. /\ rows \in Seq(Row) /\ Len(rows) \in Nat /\ lo \in Nat /\ 1 <= lo
      /\ r \in Nat /\ lo < r /\ r < lo + 3 /\ lo + 3 <= Len(rows) + 1
      /\ \A j \in 1..Len(rows) : rows[j].app = a <=> lo <= j /\ j < lo + 3
      /\ \A j \in 1..Len(rows) : rows[j].app = a => rows[j].n \in Note /\ app[rows[j].n] = a
      /\ \A j \in 1..Len(rows) : lo < j /\ j < lo + 3 => rows[j].type = "normal"
  BY <1>0 DEF InGroup
<1>2. /\ s \in Seq(Row) /\ Len(s) = Len(rows) - 1
      /\ \A j \in 1..Len(s) : j # lo => s[j] = rows[Past(j, r)]
  BY DEF Thinned
<1>3. /\ t \in Seq(Row) /\ Len(t) = Len(s) - 1
      /\ \A j \in 1..Len(s) - 1 : t[j] = s[IF j < lo THEN j ELSE j + 1]
  <2>1. lo \in DOMAIN s
    BY <1>1, <1>2
  <2> QED
    BY <1>2, <2>1, RemoveAtFacts
<1>4. Len(t) = Len(rows) - 2 /\ Len(t) \in Nat /\ Len(s) - 1 = Len(t)
  BY <1>1, <1>2, <1>3
<1>5. ASSUME NEW j \in 1..Len(t) PROVE t[j] = rows[IF j < lo THEN j ELSE Past(j + 1, r)]
  <2>1. CASE j < lo
    <3>1. j \in 1..Len(s) /\ j # lo /\ Past(j, r) = j
      BY <1>1, <1>2, <1>4, <2>1 DEF Past
    <3> QED
      BY <1>2, <1>3, <1>4, <2>1, <3>1
  <2>2. CASE ~ (j < lo)
    <3>1. j + 1 \in 1..Len(s) /\ j + 1 # lo
      BY <1>1, <1>2, <1>4, <2>2
    <3>2. t[j] = s[j + 1]
      BY <1>3, <1>4, <2>2
    <3> QED
      BY <1>2, <2>2, <3>1, <3>2
  <2> QED
    BY <2>1, <2>2
<1> DEFINE o == IF r = lo + 1 THEN lo + 2 ELSE lo + 1
<1>6. lo \in 1..Len(t) /\ o \in 1..Len(rows) /\ lo < o /\ o < lo + 3 /\ o # r /\ Past(lo + 1, r) = o
  BY <1>1, <1>4 DEF Past
<1>7. \A i \in 1..Len(rows) : i # r /\ lo < i /\ i < lo + 3 => i = o
  BY <1>1
<1> HIDE DEF o
<1>8. t[lo] = rows[o]
  <2>1. ~ (lo < lo)
    BY <1>1
  <2> QED
    BY <1>5, <1>6, <2>1
<1>9. rows[o].app = a /\ rows[o].type = "normal" /\ rows[o].n \in Note /\ app[rows[o].n] = a
  <2>1. rows[o].app = a
    BY <1>1, <1>6
  <2> QED
    BY <1>1, <1>6, <2>1
<1>10. Differ(rows, t, lo, 3, 1)
  <2>1. ASSUME NEW j \in 1..Len(t), lo + 1 <= j PROVE t[j] = rows[(j + 3) - 1]
    <3>1. Past(j + 1, r) = (j + 3) - 1 /\ ~ (j < lo)
      BY <1>1, <2>1 DEF Past
    <3> QED
      BY <1>5, <3>1
  <2>2. Len(t) + 3 = Len(rows) + 1
    BY <1>1, <1>4
  <2>3. \A j \in 1..Len(t) : j < lo => t[j] = rows[j]
    BY <1>5
  <2> QED
    BY <1>1, <1>3, <2>1, <2>2, <2>3 DEF Differ
<1>11. \A j \in 1..Len(t) : lo <= j /\ j < lo + 1 => j = lo
  BY <1>1
<1>12. Form(t, lo, 1, a)
  BY <1>8, <1>9, <1>11 DEF Form
<1>13. \A j \in 1..Len(t) : ~ (lo < j /\ j < lo + 1)
  BY <1>1
<1> QED
  BY <1>6, <1>7, <1>8, <1>9, <1>10, <1>11, <1>12, <1>13 DEF Kept

\* A record of a group is removed, and the header with it if one record is left.
LEMMA RemovedFromGroup ==
  ASSUME NEW r, NEW lo, NEW L, NEW a, NEW D, Thinning(r, lo, L, a, D), NEW n, n = rows[r].n,
         NEW t, t = WithoutLoneHeader(NormalRemoved(RemoveAt(rows, r), a), a)
  PROVE  /\ Changed(rows, t, a, D)
         /\ \A R, T : a \notin D /\ Covers(rows, a, R, T) => Covers(t, a, R \ {n}, T \ {n})
<1> DEFINE s == NormalRemoved(RemoveAt(rows, r), a)
           M == IF L = 3 THEN 1 ELSE L - 1
<1>1. InGroup(r, lo, L, a) /\ Thinned(s, r, lo, L, a)
  BY ThinningFacts, ThinnedFacts
<1>2. /\ rows \in Seq(Row) /\ Len(rows) \in Nat /\ lo \in Nat /\ L \in Nat /\ 1 <= lo /\ L >= 3
      /\ r \in 1..Len(rows) /\ lo < r /\ r < lo + L /\ lo + L <= Len(rows) + 1
      /\ \A j \in 1..Len(rows) : rows[j].app = a <=> lo <= j /\ j < lo + L
      /\ \A j \in 1..Len(rows) : lo < j /\ j < lo + L => rows[j].type = "normal"
  BY <1>1 DEF InGroup
<1>3. RowsFit(rows, D) /\ Shape(rows, pinned, D) /\ Block(rows, lo, L) /\ rows[lo].app = a
  BY DEF Thinning, RowsFit
<1>4. Kept(t, r, lo, L, M, a)
  <2> HIDE DEF s
  <2>1. Headed(s, lo, L - 1, a)
    BY <1>1 DEF Thinned
  <2>2. GroupOf(s, a) = lo /\ Cardinality(NormalsOf(s, a)) = (L - 1) - 1
    BY <2>1, HeadedFacts
  <2>3. t = IF L = 3 THEN RemoveAt(s, lo) ELSE s
    <3>1. lo > 0 /\ ((L - 1) - 1 <= 1 <=> L = 3)
      BY <1>2
    <3>2. t = WithoutLoneHeader(s, a)
      BY DEF s
    <3> QED
      BY <2>2, <3>1, <3>2 DEF WithoutLoneHeader
  <2>4. CASE L = 3
    BY <1>1, <2>3, <2>4, ThinLast
  <2>5. CASE L # 3
    BY <1>1, <2>3, <2>5, ThinKept
  <2> QED
    BY <2>4, <2>5
<1> HIDE DEF M, s
<1>5. /\ Differ(rows, t, lo, L, M) /\ Form(t, lo, M, a)
      /\ \A j \in 1..Len(t) : lo <= j /\ j < lo + M =>
           /\ t[j].n \in Note /\ app[t[j].n] = a
           /\ t[j].type # "group" =>
                \E i \in 1..Len(rows) : i # r /\ lo < i /\ i < lo + L /\ t[j] = rows[i]
      /\ \A i \in 1..Len(rows) : i # r /\ lo < i /\ i < lo + L => \E j \in 1..Len(t) : t[j] = rows[i]
  BY <1>4 DEF Kept
<1>13. \A j, k \in 1..Len(t) : lo < j /\ j < lo + M /\ lo < k /\ k < lo + M /\ j # k =>
         \E h, i \in 1..Len(rows) : /\ lo < h /\ h < lo + L /\ lo < i /\ i < lo + L /\ h # i
                                    /\ t[j] = rows[h] /\ t[k] = rows[i]
  BY <1>4 DEF Kept
<1>14. \A i \in 1..Len(rows) : lo < i /\ i < lo + L => rows[i].app = a /\ rows[i].type = "normal"
  <2> SUFFICES ASSUME NEW i \in 1..Len(rows), lo < i, i < lo + L
               PROVE  rows[i].app = a /\ rows[i].type = "normal"
    OBVIOUS
  <2>1. lo <= i
    BY <1>2
  <2> QED
    BY <1>2, <2>1
<1>15. \A i \in 1..Len(rows) : rows[i].app = a /\ i # lo => lo < i /\ i < lo + L
  <2> SUFFICES ASSUME NEW i \in 1..Len(rows), rows[i].app = a, i # lo PROVE lo < i /\ i < lo + L
    OBVIOUS
  <2>1. lo <= i /\ i < lo + L
    BY <1>2
  <2> QED
    BY <1>2, <2>1
<1>6. \A h, i \in 1..Len(rows) :
        lo < h /\ h < lo + L /\ lo < i /\ i < lo + L /\ h # i /\ a \notin D => rows[h].n # rows[i].n
  <2> SUFFICES ASSUME NEW h \in 1..Len(rows), NEW i \in 1..Len(rows), lo < h, h < lo + L, lo < i, i < lo + L,
                      h # i, a \notin D
               PROVE  rows[h].n # rows[i].n
    OBVIOUS
  <2>1. rows[h].app = a /\ rows[i].app = a
    BY <1>2
  <2>2. rows[h].type = "normal" /\ rows[i].type = "normal"
    BY <1>2
  <2> QED
    BY <1>3, <2>1, <2>2 DEF Shape, Singly
<1>7. a \in D \/ Distinct(t, lo, M)
  <2> SUFFICES ASSUME a \notin D, NEW j \in 1..Len(t), NEW k \in 1..Len(t), lo <= j, j < lo + M,
                      lo <= k, k < lo + M, j # k, t[j].type = "normal", t[k].type = "normal"
               PROVE  t[j].n # t[k].n
    BY DEF Distinct
  <2>1. M > 1
    BY <1>2, <1>5 DEF Differ
  <2>2. lo # j /\ lo # k
    BY <1>5, <2>1 DEF Form
  <2>3. lo < j /\ lo < k
    BY <1>2, <2>2
  <2>4. PICK h, i \in 1..Len(rows) : /\ lo < h /\ h < lo + L /\ lo < i /\ i < lo + L /\ h # i
                                     /\ t[j] = rows[h] /\ t[k] = rows[i]
    BY <1>13, <2>3
  <2> QED
    BY <1>6, <2>4
<1>8. Shape(t, pinned, D) /\ Block(t, lo, M) /\ t[lo].app = a /\ OthersSame(rows, t, a)
  <2>1. Replacing(rows, t, a, lo, L, M, pinned, D, D)
    BY <1>3, <1>5, <1>7 DEF Replacing
  <2> QED
    BY <2>1, Replaced
<1>9. \A j \in 1..Len(t) : t[j].app = a => lo <= j /\ j < lo + M
  BY <1>8 DEF Block
<1>10. Fits(t)
  <2>1. \A j \in 1..Len(t) : t[j].app = a => t[j].n \in Note /\ app[t[j].n] = a
    BY <1>5, <1>9
  <2> QED
    BY <1>3, <1>8, <2>1, OthersFit DEF RowsFit
<1>11. ASSUME NEW R, NEW T, a \notin D, Covers(rows, a, R, T)
       PROVE  Covers(t, a, R \ {n}, T \ {n})
  <2>1. ASSUME NEW j \in 1..Len(t), t[j].app = a, t[j].type # "group"
        PROVE  t[j].n \in R \ {n} /\ t[j].type = "normal"
    <3>1. PICK i \in 1..Len(rows) : i # r /\ lo < i /\ i < lo + L /\ t[j] = rows[i]
      BY <1>5, <1>9, <2>1
    <3>2. rows[i].app = a /\ rows[i].type = "normal"
      BY <1>14, <3>1
    <3>3. rows[i].n \in R
      BY <1>11, <3>2 DEF Covers
    <3>4. rows[i].n # n
      BY <1>2, <1>6, <1>11, <3>1
    <3> QED
      BY <3>1, <3>2, <3>3, <3>4
  <2>2. ASSUME NEW m \in T \ {n}
        PROVE  \E j \in 1..Len(t) : t[j].app = a /\ t[j].type = "normal" /\ t[j].n = m
    <3>1. PICK i \in 1..Len(rows) : /\ rows[i].app = a
                                    /\ rows[i].type = "overlap" \/ (rows[i].type = "normal" /\ rows[i].n = m)
      BY <1>11, <2>2 DEF Covers
    <3>2. i # lo
      BY <1>1, <3>1 DEF InGroup
    <3>3. lo < i /\ i < lo + L
      BY <1>15, <3>1, <3>2
    <3>4. rows[i].type = "normal" /\ rows[i].n = m
      BY <1>14, <3>1, <3>3
    <3>5. i # r
      BY <2>2, <3>4
    <3>6. PICK j \in 1..Len(t) : t[j] = rows[i]
      BY <1>5, <3>3, <3>5
    <3> QED
      BY <3>1, <3>4, <3>6
  <2> QED
    BY <2>1, <2>2 DEF Covers
<1> QED
  BY <1>8, <1>10, <1>11 DEF Changed, RowsFit

\* An overlap shows the record that is left as the last, or gives way to it.
LEMMA RemovedFromOverlap ==
  ASSUME app \in Seq(App), NEW D, RowsFit(rows, D), NEW r \in 1..Len(rows), rows[r].type = "overlap",
         NEW a, a = rows[r].app, NEW store \in SUBSET Note, NEW Q, Q = Records(store, a), Q # {},
         NEW t, t = WithoutLoneHeader(SetTo(rows, r, OverlapRow(store, a)), a)
  PROVE  Changed(rows, t, a, D) /\ \A U : U \subseteq Q => Covers(t, a, Q, U)
<1> DEFINE n == LastRecord(store, a)
           c == OverlapCount(Cardinality(Q))
           o == OverlapRow(store, a)
           s == SetTo(rows, r, o)
<1>1. /\ rows \in Seq(Row) /\ Shape(rows, pinned, D) /\ Fits(rows) /\ Whole(rows) /\ Len(rows) \in Nat
  BY DEF RowsFit, Shape
<1>2. Block(rows, r, 1)
  BY <1>1, KindOfBlock
<1>3. IsFiniteSet(Q) /\ Cardinality(Q) \in Nat /\ Q \subseteq Note /\ \A m \in Q : app[m] = a
  <2>1. IsFiniteSet(Q) /\ Cardinality(Q) \in Nat /\ Q \subseteq Note
    BY StoreFacts
  <2> QED
    BY <2>1 DEF Records
<1>4. n \in Q
  BY LastFacts
<1>5. n \in Note /\ app[n] = a
  BY <1>3, <1>4
<1>6. c \in 0..FullCount /\ (c = 0 <=> Cardinality(Q) <= 1)
  BY <1>3, OverlapCountFacts
<1>7. o = IF c = 0 THEN Normal(n) ELSE Overlap(n, c)
  BY DEF OverlapRow
<1> HIDE DEF n, c, o
<1>8. /\ o \in Row /\ o.app = a /\ o.n = n
      /\ c = 0 => o.type = "normal"
      /\ c # 0 => o.type = "overlap" /\ o.count = c
  <2>1. /\ Normal(n) \in Row /\ Overlap(n, c) \in Row
        /\ Normal(n).app = app[n] /\ Normal(n).n = n /\ Normal(n).type = "normal"
        /\ Overlap(n, c).app = app[n] /\ Overlap(n, c).n = n /\ Overlap(n, c).type = "overlap"
        /\ Overlap(n, c).count = c
    BY <1>5, <1>6, NewRows
  <2>2. CASE c = 0
    BY <1>5, <1>7, <2>1, <2>2
  <2>3. CASE c # 0
    BY <1>5, <1>7, <2>1, <2>3
  <2> QED
    BY <2>2, <2>3
<1> HIDE DEF s
<1>9. Written(rows, s, r, o)
  BY <1>1, <1>8, SetRow DEF s
<1>10. s \in Seq(Row) /\ Len(s) = Len(rows) /\ s[r] = o /\ \A j \in 1..Len(rows) : j # r => s[j] = rows[j]
  BY <1>9 DEF Written
<1>11. Differ(rows, s, r, 1, 1)
  <2>1. \A j \in 1..Len(rows) : ~ (r <= j /\ j < r + 1) => j # r
    BY <1>1
  <2>2. r \in Nat /\ 1 \in Nat /\ 1 <= r /\ r + 1 <= Len(rows) + 1
    BY <1>1
  <2>3. \A j \in 1..Len(rows) : ~ (r <= j /\ j < r + 1) => s[j] = rows[j]
    BY <1>10, <2>1
  <2> QED
    BY <1>1, <1>10, <2>2, <2>3, SetDiffers
<1>12. Form(s, r, 1, a) /\ Distinct(s, r, 1)
  <2>1. \A j \in 1..Len(s) : r <= j /\ j < r + 1 => j = r
    BY <1>1
  <2>2. s[r].app = a /\ s[r].type # "group"
    BY <1>8, <1>10
  <2> QED
    BY <2>1, <2>2 DEF Form, Distinct
<1>13. Shape(s, pinned, D) /\ Block(s, r, 1) /\ s[r].app = a /\ OthersSame(rows, s, a)
  <2>1. Replacing(rows, s, a, r, 1, 1, pinned, D, D)
    BY <1>1, <1>2, <1>11, <1>12 DEF Replacing
  <2> QED
    BY <2>1, Replaced
<1>14. t = s
  <2>1. GroupOf(s, s[r].app) = (IF 1 > 1 THEN r ELSE 0)
    BY <1>10, <1>13, BlockFound
  <2>2. GroupOf(s, a) = 0
    BY <1>13, <2>1
  <2>3. t = WithoutLoneHeader(s, a)
    BY DEF s, o
  <2> QED
    BY <2>2, <2>3 DEF WithoutLoneHeader
<1>15. Fits(s)
  <2>1. \A j \in 1..Len(s) : s[j].app = a => j = r
    BY <1>10, <1>13, BlockKinds
  <2>2. \A j \in 1..Len(s) : s[j].app = a => s[j].n \in Note /\ app[s[j].n] = a
    BY <1>5, <1>8, <1>10, <2>1
  <2> QED
    BY <1>1, <1>13, <2>2, OthersFit
<1>16. ASSUME NEW U, U \subseteq Q PROVE Covers(s, a, Q, U)
  <2>1. s[r].n = n /\ n \in Q
    BY <1>4, <1>8, <1>10
  <2>2. CASE c = 0
    <3>1. \A m \in U : m = n
      BY <1>3, <1>4, <1>6, <1>16, <2>2, TwoOf
    <3> QED
      BY <1>8, <1>10, <1>13, <2>1, <2>2, <3>1, SingleCovers
  <2>3. CASE c # 0
    <3>1. Cardinality(Q) >= 2
      BY <1>3, <1>6, <2>3
    <3>2. s[r].type = "overlap" /\ s[r].count = OverlapCount(Cardinality(Q))
      BY <1>8, <1>10, <2>3 DEF c
    <3> QED
      BY <1>13, <2>1, <3>1, <3>2, SingleCovers
  <2> QED
    BY <2>2, <2>3
<1> QED
  BY <1>13, <1>14, <1>15, <1>16 DEF Changed, RowsFit

\* The only record of an application goes.
LEMMA RemovedAlone ==
  ASSUME NEW D, RowsFit(rows, D), NEW r \in 1..Len(rows), rows[r].type = "normal", Block(rows, r, 1),
         NEW a, a = rows[r].app, NEW n, n = rows[r].n,
         NEW t, t = WithoutLoneHeader(NormalRemoved(RemoveAt(rows, r), a), a)
  PROVE  Changed(rows, t, a, D) /\ \A R, T : Covers(rows, a, R, T) => Covers(t, a, R \ {n}, T \ {n})
<1> DEFINE s == RemoveAt(rows, r)
<1>1. rows \in Seq(Row)
  BY DEF RowsFit, Shape
<1>2. Around(rows, s, r, 1)
  BY <1>1, RemoveAround
<1>3. Changed(rows, s, a, D) /\ NoneOf(s, a)
  BY <1>2, BlockGone
<1>4. t = s
  <2>1. s \in Seq(Row)
    BY <1>3 DEF Changed, RowsFit, Shape
  <2>2. t = WithoutLoneHeader(NormalRemoved(s, a), a)
    OBVIOUS
  <2> HIDE DEF s
  <2>3. GroupOf(s, a) = 0
    BY <1>3, <2>1, NoneFound
  <2>4. NormalRemoved(s, a) = s
    BY <2>3 DEF NormalRemoved
  <2>5. WithoutLoneHeader(s, a) = s
    BY <2>3 DEF WithoutLoneHeader
  <2> QED
    BY <2>2, <2>4, <2>5
<1> HIDE DEF s
<1>5. ASSUME NEW R, NEW T, Covers(rows, a, R, T)
      PROVE  Covers(t, a, R \ {n}, T \ {n})
  <2>1. \A i \in 1..Len(rows) : rows[i].app = a => i = r
    BY <1>1, BlockKinds
  <2>2. T \subseteq {n}
    <3> SUFFICES ASSUME NEW m \in T PROVE m = n
      OBVIOUS
    <3>1. PICK i \in 1..Len(rows) :
            rows[i].app = a /\ (rows[i].type = "overlap" \/ (rows[i].type = "normal" /\ rows[i].n = m))
      BY <1>5 DEF Covers
    <3>2. i = r
      BY <2>1, <3>1
    <3> QED
      BY <3>1, <3>2
  <2>3. T \ {n} = {}
    BY <2>2
  <2> QED
    BY <1>3, <1>4, <2>3, NoneCovers
<1> QED
  BY <1>3, <1>4, <1>5

\* remove(id), unless it fails its assertion.
LEMMA RemoveRecordFacts ==
  ASSUME Stores, NEW D, RowsFit(rows, D), NEW r \in 1..Len(rows), rows[r].type # "group",
         NEW a, a = rows[r].app, NEW n, n = rows[r].n, NEW store, store = db \ {n},
         ~RemovedAllOf(r, store), RemoveRecord(r, store)
  PROVE  /\ Changed(rows, rows', a, D)
         /\ \A T : a \notin D /\ T \subseteq Records(db, a) /\ Covers(rows, a, Records(db, a), T)
                     => Covers(rows', a, Records(store, a), T \ {n})
<1> DEFINE t == rows'
           R == Records(db, a)
           Q == Records(store, a)
           s == IF rows[r].type = "normal" THEN NormalRemoved(RemoveAt(rows, r), a)
                ELSE SetTo(rows, r, OverlapRow(store, a))
<1>1. /\ rows \in Seq(Row) /\ Shape(rows, pinned, D) /\ Fits(rows) /\ Whole(rows) /\ Len(rows) \in Nat
      /\ app \in Seq(App) /\ store \in SUBSET Note
  BY DEF RowsFit, Shape, Stores
<1>2. t = WithoutLoneHeader(s, a)
  BY DEF RemoveRecord, SetTo
<1>3. Q = R \ {n}
  BY DEF Records
<1> HIDE DEF t, Q, R
<1>4. rows[r].type \in {"normal", "overlap"}
  <2>1. rows[r] \in Row
    BY <1>1
  <2> QED
    BY <2>1 DEF Row
<1>5. CASE rows[r].type = "overlap"
  <2>1. t = WithoutLoneHeader(SetTo(rows, r, OverlapRow(store, a)), a)
    BY <1>2, <1>5
  <2>2. Q # {}
    BY <1>5 DEF RemovedAllOf, Q
  <2>3. Changed(rows, t, a, D) /\ \A U : U \subseteq Q => Covers(t, a, Q, U)
    BY <1>1, <1>5, <2>1, <2>2, RemovedFromOverlap DEF Q
  <2>4. \A T : T \subseteq R => T \ {n} \subseteq Q
    BY <1>3
  <2> QED
    BY <2>3, <2>4 DEF t, Q, R
<1>6. CASE rows[r].type = "normal"
  <2>1. t = WithoutLoneHeader(NormalRemoved(RemoveAt(rows, r), a), a)
    BY <1>2, <1>6
  <2>2. PICK lo, L \in Nat : InBlock(rows, r, lo, L)
    BY <1>1, BlockOf
  <2>3. Block(rows, lo, L) /\ lo <= r /\ r < lo + L /\ rows[lo].app = a /\ r \in Nat
    BY <2>2 DEF InBlock
  <2>4. CASE lo = r
    <3>1. L = 1
      BY <1>1, <1>6, <2>3, <2>4, BlockKinds
    <3>2. Block(rows, r, 1)
      BY <2>3, <2>4, <3>1
    <3>3. Changed(rows, t, a, D) /\ \A A, T : Covers(rows, a, A, T) => Covers(t, a, A \ {n}, T \ {n})
      BY <1>6, <2>1, <3>2, RemovedAlone
    <3>5. ASSUME NEW T, a \notin D, Covers(rows, a, R, T) PROVE Covers(t, a, Q, T \ {n})
      <4>1. Covers(t, a, R \ {n}, T \ {n})
        BY <3>3, <3>5
      <4> QED
        BY <1>3, <4>1
    <3> QED
      BY <3>3, <3>5 DEF t, Q, R
  <2>5. CASE lo # r
    <3>1. lo < r /\ L > 1
      BY <2>3, <2>5
    <3>2. L >= 3
      BY <2>3, <3>1 DEF Block
    <3>3. Thinning(r, lo, L, a, D)
      BY <1>1, <2>3, <3>1, <3>2 DEF Thinning
    <3>4. /\ Changed(rows, t, a, D)
          /\ \A A, T : a \notin D /\ Covers(rows, a, A, T) => Covers(t, a, A \ {n}, T \ {n})
      BY <2>1, <3>3, RemovedFromGroup
    <3>5. ASSUME NEW T, a \notin D, Covers(rows, a, R, T) PROVE Covers(t, a, Q, T \ {n})
      <4>1. Covers(t, a, R \ {n}, T \ {n})
        BY <3>4, <3>5
      <4> QED
        BY <1>3, <4>1
    <3> QED
      BY <3>4, <3>5 DEF t, Q, R
  <2> QED
    BY <2>4, <2>5
<1> QED
  BY <1>4, <1>5, <1>6

\* sort() for other pins: the same rows.
LEMMA SortedKeeps ==
  ASSUME NEW D, RowsFit(rows, D), NEW P, NEW t, t = Sorted(rows, P)
  PROVE  Shape(t, P, D) /\ Fits(t) /\ \A a : OwnSame(rows, t, a)
<1>1. Shape(t, P, D) /\ SameRows(rows, t)
  BY SortedFacts DEF RowsFit
<1>2. Fits(t)
  BY <1>1 DEF RowsFit, Fits, SameRows
<1>3. \A a : OwnSame(rows, t, a)
  BY <1>1 DEF SameRows, OwnSame
<1> QED
  BY <1>1, <1>2, <1>3

-----------------------------------------------------------------------------
(* The inductive invariant of the list.  The centre may be behind the      *)
(* stores by the signals under way: of the records of an application it    *)
(* has been told of those whose signal is not among them.                  *)

Told(a) == {n \in Records(db, a) : ~Queued(n, "Processed")}

RowsTypes ==
  /\ app \in Seq(App) /\ memory \subseteq Note /\ db \subseteq filed /\ filed \subseteq Note \ memory
  /\ pinned \subseteq App /\ relisted \subseteq App

\* A signal that says that a notification is gone, and names no record, is right.
SilentInv ==
  \A i \in DOMAIN queue : queue[i].type = "Processed" /\ ~queue[i].row => queue[i].n \notin db \cup memory

ListsRecords == \A a \in App \ Misled : Covers(rows, a, Records(db, a), Told(a))

RowsInv ==
  /\ RowsTypes /\ SilentInv
  /\ RowsFit(rows, relisted)
  /\ ~visible => rows = <<>>
  /\ visible => ListsRecords

-----------------------------------------------------------------------------
(* The stores and the signals.                                             *)

\* What the steps use of the invariant.
LEMMA RowsFacts ==
  ASSUME RowsInv
  PROVE  /\ RowsTypes /\ SilentInv /\ RowsFit(rows, relisted) /\ rows \in Seq(Row) /\ Len(rows) \in Nat
         /\ Stores /\ app \in Seq(App) /\ Len(app) \in Nat /\ Note = 1..Len(app)
         /\ db \in SUBSET Note /\ filed \subseteq Note /\ memory \subseteq Note
         /\ \A n \in Note : app[n] \in App
         /\ \A r \in DOMAIN rows : r \in 1..Len(rows) /\ rows[r] \in Row /\ rows[r].app \in App /\ visible
<1>1. /\ RowsTypes /\ SilentInv /\ RowsFit(rows, relisted) /\ app \in Seq(App) /\ memory \subseteq Note
      /\ db \subseteq filed /\ filed \subseteq Note \ memory
  BY DEF RowsInv, RowsTypes
<1>2. rows \in Seq(Row) /\ Len(rows) \in Nat
  BY <1>1 DEF RowsFit, Shape
<1>3. Len(app) \in Nat /\ Note = 1..Len(app) /\ \A n \in Note : app[n] \in App
  BY <1>1 DEF Note
<1>4. db \in SUBSET Note /\ filed \subseteq Note /\ Stores
  BY <1>1 DEF Stores
<1>5. \A r \in DOMAIN rows : r \in 1..Len(rows) /\ rows[r] \in Row /\ rows[r].app \in App
  <2> SUFFICES ASSUME NEW r \in DOMAIN rows PROVE r \in 1..Len(rows) /\ rows[r] \in Row /\ rows[r].app \in App
    OBVIOUS
  <2>1. r \in 1..Len(rows) /\ rows[r] \in Row
    BY <1>2
  <2> QED
    BY <2>1 DEF Row
<1>6. \A r \in DOMAIN rows : visible
  <2>1. rows = <<>> => DOMAIN rows = {}
    OBVIOUS
  <2> QED
    BY <2>1 DEF RowsInv
<1> QED
  BY <1>1, <1>2, <1>3, <1>4, <1>5, <1>6

\* A signal more, of what is right.
LEMMA SilentSent ==
  ASSUME StagingTypes, SilentInv, NEW n \in Nat, NEW row \in BOOLEAN, NEW t \in {"NotProcessed", "Processed"},
         Send(n, row, t), t = "Processed" /\ ~row => n \notin db' \cup memory',
         \A i \in DOMAIN queue : queue[i].type = "Processed" /\ queue[i].n \notin db \cup memory
                                   => queue[i].n \notin db' \cup memory'
  PROVE  SilentInv'
<1> DEFINE s == Signal(n, row, t)
<1>1. /\ queue \in Seq([n : Nat, row : BOOLEAN, type : {"NotProcessed", "Processed"}])
      /\ s \in [n : Nat, row : BOOLEAN, type : {"NotProcessed", "Processed"}]
      /\ queue' = Append(queue, s) /\ s.n = n /\ s.type = t /\ s.row = row
  BY DEF StagingTypes, Send, Signal
<1> HIDE DEF s
<1>2. /\ Len(queue) \in Nat /\ DOMAIN queue = 1..Len(queue) /\ DOMAIN queue' = 1..Len(queue) + 1
      /\ \A i \in 1..Len(queue) : queue'[i] = queue[i]
      /\ queue'[Len(queue) + 1] = s
  BY <1>1
<1>3. \A i \in 1..Len(queue) + 1 : i \in 1..Len(queue) \/ i = Len(queue) + 1
  BY <1>2
<1> SUFFICES ASSUME NEW i \in DOMAIN queue', queue'[i].type = "Processed", ~queue'[i].row
             PROVE  queue'[i].n \notin db' \cup memory'
  BY DEF SilentInv
<1>4. CASE i \in 1..Len(queue)
  <2>1. i \in DOMAIN queue /\ queue'[i] = queue[i]
    BY <1>2, <1>4
  <2>2. queue[i].n \notin db \cup memory
    BY <2>1 DEF SilentInv
  <2> QED
    BY <2>1, <2>2
<1>5. CASE i = Len(queue) + 1
  BY <1>1, <1>2, <1>5
<1> QED
  BY <1>2, <1>3, <1>4, <1>5

\* A signal less.
LEMMA SilentTaken ==
  ASSUME StagingTypes, SilentInv, queue # <<>>, queue' = Tail(queue), UNCHANGED <<db, memory>>
  PROVE  /\ SilentInv'
         /\ Head(queue).type = "Processed" /\ ~Head(queue).row => Head(queue).n \notin db \cup memory
<1>1. /\ Len(queue) \in Nat /\ Len(queue) > 0 /\ DOMAIN queue = 1..Len(queue) /\ Head(queue) = queue[1]
      /\ DOMAIN queue' = 1..Len(queue) - 1 /\ \A i \in 1..Len(queue) - 1 : queue'[i] = queue[i + 1]
  BY DEF StagingTypes
<1>2. 1 \in DOMAIN queue /\ \A i \in 1..Len(queue) - 1 : i + 1 \in DOMAIN queue
  BY <1>1
<1>3. SilentInv'
  <2> SUFFICES ASSUME NEW i \in DOMAIN queue', queue'[i].type = "Processed", ~queue'[i].row
               PROVE  queue'[i].n \notin db \cup memory
    BY DEF SilentInv
  <2>1. i \in 1..Len(queue) - 1
    BY <1>1
  <2>2. i + 1 \in DOMAIN queue /\ queue'[i] = queue[i + 1]
    BY <1>1, <1>2, <2>1
  <2> QED
    BY <2>2 DEF SilentInv
<1> QED
  BY <1>1, <1>2, <1>3 DEF SilentInv

\* The same signals, and nothing new in the stores.
LEMMA SilentKept ==
  ASSUME SilentInv, UNCHANGED queue, db' \cup memory' \subseteq db \cup memory
  PROVE  SilentInv'
BY DEF SilentInv

\* What the centre was not told of stays so.
LEMMA MisledStay ==
  ASSUME filed \subseteq Note, \A n \in Note : app'[n] = app[n],
         relisted \subseteq relisted', untold \subseteq untold', filed \subseteq filed'
  PROVE  Misled \subseteq Misled'
BY DEF Misled

\* More records, of which the list was not told.
LEMMA CoversMore ==
  ASSUME NEW s, NEW a, NEW R, NEW T, Covers(s, a, R, T), NEW Q, R \subseteq Q, IsFiniteSet(Q),
         NEW U, U \subseteq T, U = Q => Q = R /\ T = R
  PROVE  Covers(s, a, Q, U)
<1>1. IsFiniteSet(R) /\ Cardinality(R) <= Cardinality(Q) /\ Cardinality(R) \in Nat /\ Cardinality(Q) \in Nat
  <2>1. IsFiniteSet(R) /\ Cardinality(R) <= Cardinality(Q)
    BY FS_Subset
  <2> QED
    BY <2>1, FS_CardinalityType
<1>2. \A i \in 1..Len(s) : s[i].app = a /\ s[i].type # "group" => s[i].n \in Q
  BY DEF Covers
<1>3. \A i \in 1..Len(s) : s[i].app = a /\ s[i].type = "overlap" =>
        /\ Cardinality(Q) >= 2
        /\ U = Q => s[i].count = OverlapCount(Cardinality(Q))
  <2> SUFFICES ASSUME NEW i \in 1..Len(s), s[i].app = a, s[i].type = "overlap"
               PROVE  Cardinality(Q) >= 2 /\ (U = Q => s[i].count = OverlapCount(Cardinality(Q)))
    OBVIOUS
  <2>1. Cardinality(R) >= 2 /\ (T = R => s[i].count = OverlapCount(Cardinality(R)))
    BY DEF Covers
  <2> QED
    BY <1>1, <2>1
<1>4. \A n \in U : \E i \in 1..Len(s) :
        s[i].app = a /\ (s[i].type = "overlap" \/ (s[i].type = "normal" /\ s[i].n = n))
  BY DEF Covers
<1> QED
  BY <1>2, <1>3, <1>4 DEF Covers

-----------------------------------------------------------------------------
(* Three kinds of steps.                                                   *)

\* The rows stay as they are, and what is new in the store is announced.
LEMMA RowsStay ==
  ASSUME RowsInv, UNCHANGED <<rows, pinned, visible, relisted>>, RowsTypes', SilentInv',
         Note \subseteq Note', \A n \in Note : app'[n] = app[n],
         untold \subseteq untold', filed \subseteq filed',
         \A n \in db : n \in db' \/ app[n] \in Misled',
         \A n \in db' : \/ Queued(n, "Processed")' \/ app'[n] \in Misled'
                        \/ n \in db /\ ~Queued(n, "Processed")
  PROVE  RowsInv'
<1>1. /\ rows \in Seq(Row) /\ RowsFit(rows, relisted) /\ app \in Seq(App) /\ db \in SUBSET Note
      /\ filed \subseteq Note
  BY RowsFacts
<1>2. Misled \subseteq Misled'
  BY <1>1, MisledStay
<1>3. RowsFit(rows, relisted)'
  <2>1. Shape(rows, pinned, relisted) /\ Fits(rows)
    BY <1>1 DEF RowsFit
  <2>2. \A i \in 1..Len(rows) : rows[i].n \in Note' /\ app'[rows[i].n] = rows[i].app
    BY <2>1 DEF Fits
  <2>3. Fits(rows)'
    BY <2>2 DEF Fits
  <2> QED
    BY <2>1, <2>3 DEF RowsFit
<1>4. ASSUME visible, NEW a \in App \ Misled'
      PROVE  Covers(rows, a, Records(db, a), Told(a))'
  <2> DEFINE R == Records(db, a)
             T == Told(a)
             Q == {n \in db' : app'[n] = a}
             U == {n \in Q : ~Queued(n, "Processed")'}
  <2>1. Covers(rows, a, R, T)
    BY <1>2, <1>4 DEF RowsInv, ListsRecords
  <2>2. R \subseteq Q
    <3> SUFFICES ASSUME NEW n \in db, app[n] = a PROVE n \in Q
      BY DEF Records
    <3>1. n \in Note
      BY <1>1
    <3> QED
      BY <1>4, <3>1
  <2>3. U \subseteq T
    <3> SUFFICES ASSUME NEW n \in U PROVE n \in T
      OBVIOUS
    <3>1. n \in db /\ ~Queued(n, "Processed") /\ app'[n] = a
      BY <1>4
    <3>2. app[n] = a
      BY <1>1, <3>1
    <3> QED
      BY <3>1, <3>2 DEF Told, Records
  <2>4. T \subseteq R
    BY DEF Told
  <2>5. IsFiniteSet(Q)
    <3>1. app' \in Seq(App) /\ db' \subseteq Note'
      BY DEF RowsTypes
    <3>2. Len(app') \in Nat /\ Q \subseteq 1..Len(app')
      <4>1. Len(app') \in Nat
        BY <3>1
      <4>2. Note' = 1..Len(app')
        BY DEF Note
      <4> QED
        BY <3>1, <4>1, <4>2
    <3>3. IsFiniteSet(1..Len(app'))
      BY <3>2, FS_Interval
    <3> QED
      BY <3>2, <3>3, FS_Subset
  <2> HIDE DEF R, T
  <2>6. U = Q => Q = R /\ T = R
    BY <2>2, <2>3, <2>4
  <2>7. Records(db, a)' = Q /\ Told(a)' = U
    BY DEF Records, Told
  <2> HIDE DEF Q, U
  <2>8. Covers(rows, a, Q, U)
    BY <2>1, <2>2, <2>3, <2>5, <2>6, CoversMore
  <2>9. Covers(rows', a, Q, U)
    BY <2>8
  <2> QED
    BY <2>7, <2>9 DEF Covers, OverlapCount, FullCount
<1> QED
  BY <1>3, <1>4 DEF RowsInv, ListsRecords

\* The rows of one application are changed.
LEMMA RowsTurn ==
  ASSUME RowsInv, UNCHANGED <<app, pinned, visible, untold, filed>>, visible, relisted \subseteq relisted',
         RowsTypes', SilentInv', NEW a, Changed(rows, rows', a, relisted'),
         \A n \in Note : app[n] # a => /\ n \in db' <=> n \in db
                                       /\ Queued(n, "Processed")' <=> Queued(n, "Processed"),
         a \in App \ Misled' => Covers(rows', a, Records(db, a)', Told(a)')
  PROVE  RowsInv'
<1>1. db \in SUBSET Note /\ filed \subseteq Note /\ Note' = Note /\ db' \subseteq Note
  <2>1. db \in SUBSET Note /\ filed \subseteq Note /\ Note' = Note
    BY RowsFacts DEF Note
  <2> QED
    BY <2>1 DEF RowsTypes
<1>2. Misled \subseteq Misled'
  BY <1>1, MisledStay
<1>3. RowsFit(rows, relisted)'
  BY DEF Changed, RowsFit, Fits, Note
<1>4. ASSUME NEW b \in App \ Misled'
      PROVE  Covers(rows, b, Records(db, b), Told(b))'
  <2>1. CASE b = a
    BY <1>4, <2>1
  <2>2. CASE b # a
    <3> DEFINE R == Records(db, b)
               T == Told(b)
    <3>1. Covers(rows, b, R, T)
      BY <1>2, <1>4 DEF RowsInv, ListsRecords
    <3>2. Records(db, b)' = R
      <4> SUFFICES ASSUME NEW n PROVE n \in db' /\ app[n] = b <=> n \in db /\ app[n] = b
        BY DEF Records
      <4> QED
        BY <1>1, <2>2
    <3>3. Told(b)' = T
      <4>1. \A n \in R : Queued(n, "Processed")' <=> Queued(n, "Processed")
        BY <1>1, <2>2 DEF Records
      <4> QED
        BY <3>2, <4>1 DEF Told
    <3>4. OthersSame(rows, rows', a)
      BY DEF Changed
    <3> HIDE DEF R, T
    <3>5. Covers(rows', b, R, T)
      BY <2>2, <3>1, <3>4, OthersCovered
    <3> QED
      BY <3>2, <3>3, <3>5
  <2> QED
    BY <2>1, <2>2
<1> QED
  BY <1>3, <1>4 DEF RowsInv, ListsRecords

\* The list is read from the store.
LEMMA RowsRead ==
  ASSUME RowsTypes', SilentInv', visible', UNCHANGED <<app, pinned>>, rows' = Opened(db')
  PROVE  RowsInv'
<1>1. app \in Seq(App) /\ Note' = Note /\ db' \in SUBSET Note
  BY DEF RowsTypes, Note
<1> DEFINE store == db'
<1>2. store \in SUBSET Note
  BY <1>1
<1>3. rows' = Opened(store)
  OBVIOUS
<1> HIDE DEF store
<1>4. /\ RowsFit(Opened(store), relisted')
      /\ \A a, T : T \subseteq Records(store, a) => Covers(Opened(store), a, Records(store, a), T)
  BY <1>1, <1>2, OpenedFacts
<1>5. RowsFit(rows, relisted)'
  BY <1>3, <1>4 DEF RowsFit, Fits, Note
<1>6. ASSUME NEW a \in App
      PROVE  Covers(rows, a, Records(db, a), Told(a))'
  <2>1. Records(db, a)' = Records(store, a)
    BY DEF Records, store
  <2>2. Told(a)' \subseteq Records(store, a)
    BY <2>1 DEF Told
  <2>3. Covers(rows', a, Records(store, a), Told(a)')
    BY <1>3, <1>4, <2>2
  <2> QED
    BY <2>1, <2>3
<1> QED
  BY <1>5, <1>6 DEF RowsInv, ListsRecords

\* An empty list.
LEMMA EmptyFits ==
  ASSUME NEW D
  PROVE  RowsFit(<<>>, D)
<1>1. <<>> \in Seq(Row) /\ Len(<<>>) = 0 /\ 1..0 = {}
  OBVIOUS
<1> QED
  BY <1>1 DEF RowsFit, Shape, Whole, PinsOnTop, Singly, Fits

\* The list is empty, and so is the store if it is shown.
LEMMA RowsEmpty ==
  ASSUME RowsTypes', SilentInv', rows' = <<>>, visible' => db' = {}
  PROVE  RowsInv'
<1>1. RowsFit(rows, relisted)'
  <2>1. RowsFit(<<>>, relisted')
    BY EmptyFits
  <2> QED
    BY <2>1 DEF RowsFit, Fits, Shape, Whole, PinsOnTop, Singly, Note
<1>2. ASSUME visible', NEW a PROVE Covers(rows, a, Records(db, a), Told(a))'
  <2>1. Len(rows') = 0 /\ 1..0 = {}
    OBVIOUS
  <2>2. NoneOf(rows', a)
    BY <2>1 DEF NoneOf
  <2>3. Records(db, a)' = {} /\ Told(a)' = {}
    BY <1>2 DEF Records, Told
  <2>4. Covers(rows', a, {}, {})
    BY <2>2, NoneCovers
  <2> QED
    BY <2>3, <2>4
<1> QED
  BY <1>1, <1>2 DEF RowsInv, ListsRecords

-----------------------------------------------------------------------------
(* The steps of the server.                                                *)

\* A signal is queued once more, or not; the others are under way as before.
LEMMA NotifyRows ==
  ASSUME StagingInv, RowsInv, NEW a \in App, NEW t \in {"NotProcessed", "Processed"}, Notify(a, t)
  PROVE  RowsInv'
<1> DEFINE n == Len(app) + 1
           row == t = "Processed"
<1>1. /\ app \in Seq(App) /\ Len(app) \in Nat /\ Note = 1..Len(app) /\ RowsTypes /\ SilentInv
      /\ db \subseteq filed /\ filed \subseteq Note \ memory /\ memory \subseteq Note
      /\ pinned \subseteq App /\ relisted \subseteq App
  BY RowsFacts DEF RowsTypes
<1>2. /\ app' = Append(app, a) /\ memory' = (IF row THEN memory ELSE memory \cup {n})
      /\ db' = (IF row THEN db \cup {n} ELSE db) /\ filed' = (IF row THEN filed \cup {n} ELSE filed)
      /\ Send(n, row, t) /\ row \in BOOLEAN /\ UNCHANGED <<rows, pinned, visible, relisted, untold>>
  BY DEF Notify, ListsKept, ghosts
<1>3. app' \in Seq(App) /\ Len(app') = n /\ \A m \in Note : app'[m] = app[m]
  BY <1>1, <1>2
<1>4. Note' = 1..n /\ n \in Note' /\ n \notin Note /\ Note \subseteq Note' /\ n \in Nat
  BY <1>1, <1>3 DEF Note
<1>5. StagingTypes /\ \A i \in DOMAIN queue : queue[i].n \in Note
  BY DEF StagingInv, QueueInv
<1> HIDE DEF n
<1>6. \A m, u : Queued(m, u)' <=> Queued(m, u) \/ (m = n /\ u = t)
  <2> HIDE DEF row
  <2> QED
    BY <1>2, <1>4, <1>5, QueuedSent
<1>7. RowsTypes'
  <2>1. CASE row
    BY <1>1, <1>2, <1>3, <1>4, <2>1 DEF RowsTypes
  <2>2. CASE ~row
    BY <1>1, <1>2, <1>3, <1>4, <2>2 DEF RowsTypes
  <2> QED
    BY <2>1, <2>2
<1>8. SilentInv'
  <2>1. \A m \in Note : m \notin db \cup memory => m \notin db' \cup memory'
    BY <1>2, <1>4
  <2>2. t = "Processed" /\ ~row => n \notin db' \cup memory'
    OBVIOUS
  <2> HIDE DEF row
  <2> QED
    BY <1>1, <1>2, <1>4, <1>5, <2>1, <2>2, SilentSent
<1>9. \A m \in db : m \in db'
  BY <1>2
<1>10. ASSUME NEW m \in db', ~Queued(m, "Processed")'
       PROVE  m \in db /\ ~Queued(m, "Processed")
  BY <1>2, <1>6, <1>10
<1> HIDE DEF row
<1>11. filed \subseteq filed' /\ untold \subseteq untold'
  BY <1>2
<1> QED
  BY <1>2, <1>3, <1>4, <1>7, <1>8, <1>9, <1>10, <1>11, RowsStay

\* recordNotification files or drops the predecessor in silence.
LEMMA ReplaceRows ==
  ASSUME StagingInv, RowsInv, NEW m \in memory, NEW kept \in BOOLEAN, Replace(m, kept)
  PROVE  RowsInv'
<1> DEFINE n == Len(app) + 1
<1>1. /\ app \in Seq(App) /\ Len(app) \in Nat /\ Note = 1..Len(app) /\ RowsTypes /\ SilentInv
      /\ db \subseteq filed /\ filed \subseteq Note \ memory /\ memory \subseteq Note
      /\ pinned \subseteq App /\ relisted \subseteq App /\ m \in Note /\ app[m] \in App
  BY RowsFacts DEF RowsTypes
<1>2. /\ app' = Append(app, app[m]) /\ memory' = (memory \ {m}) \cup {n}
      /\ db' = (IF kept THEN db \cup {m} ELSE db) /\ filed' = (IF kept THEN filed \cup {m} ELSE filed)
      /\ untold' = untold \cup {m}
      /\ Send(n, FALSE, "NotProcessed") /\ UNCHANGED <<rows, pinned, visible, relisted>>
  BY DEF Replace, ListsKept
<1>3. app' \in Seq(App) /\ Len(app') = n /\ \A k \in Note : app'[k] = app[k]
  BY <1>1, <1>2
<1>4. Note' = 1..n /\ n \in Note' /\ n \notin Note /\ Note \subseteq Note' /\ n \in Nat
  BY <1>1, <1>3 DEF Note
<1>5. /\ StagingTypes
      /\ \A i \in DOMAIN queue : queue[i].n \in Note /\ (queue[i].type = "Processed" => queue[i].n \notin memory)
  BY DEF StagingInv, QueueInv
<1> HIDE DEF n
<1>6. \A k, u : Queued(k, u)' <=> Queued(k, u) \/ (k = n /\ u = "NotProcessed")
  BY <1>2, <1>4, <1>5, QueuedSent
<1>7. RowsTypes'
  <2>1. CASE kept
    BY <1>1, <1>2, <1>3, <1>4, <2>1 DEF RowsTypes
  <2>2. CASE ~kept
    BY <1>1, <1>2, <1>3, <1>4, <2>2 DEF RowsTypes
  <2> QED
    BY <2>1, <2>2
<1>8. SilentInv'
  <2>1. \A k \in Note : k \notin memory /\ k \notin db \cup memory => k \notin db' \cup memory'
    BY <1>2, <1>4
  <2>2. \A i \in DOMAIN queue : queue[i].type = "Processed" /\ queue[i].n \notin db \cup memory
                                   => queue[i].n \notin db' \cup memory'
    BY <1>5, <2>1
  <2> QED
    BY <1>1, <1>2, <1>4, <1>5, <2>2, SilentSent
<1>9. \A k \in db : k \in db'
  BY <1>2
<1>10. kept => app[m] \in Misled'
  BY <1>1, <1>2, <1>3 DEF Misled
<1>11. filed \subseteq filed' /\ untold \subseteq untold'
  BY <1>2
<1>12. \A k \in db' : \/ Queued(k, "Processed")' \/ app'[k] \in Misled'
                      \/ k \in db /\ ~Queued(k, "Processed")
  <2>1. kept => app'[m] \in Misled'
    BY <1>1, <1>3, <1>10
  <2> QED
    BY <1>2, <1>6, <2>1
<1> QED
  BY <1>2, <1>3, <1>4, <1>7, <1>8, <1>9, <1>11, <1>12, RowsStay

\* The signal of a record, or of a banner that leaves none, is on its way.
LEMMA ExpireRows ==
  ASSUME StagingInv, RowsInv, NEW n \in memory, NEW kept \in BOOLEAN, Expire(n, kept)
  PROVE  RowsInv'
<1>1. /\ app \in Seq(App) /\ RowsTypes /\ SilentInv
      /\ db \subseteq filed /\ filed \subseteq Note \ memory /\ memory \subseteq Note
      /\ pinned \subseteq App /\ relisted \subseteq App /\ n \in Note /\ Note \subseteq Nat /\ n \notin db
  BY RowsFacts DEF RowsTypes
<1>2. /\ memory' = memory \ {n} /\ db' = (IF kept THEN db \cup {n} ELSE db)
      /\ filed' = (IF kept THEN filed \cup {n} ELSE filed)
      /\ Send(n, kept, "Processed") /\ UNCHANGED <<app, rows, pinned, visible, relisted, untold>>
  BY DEF Expire, ListsKept, ghosts
<1>3. /\ StagingTypes
      /\ \A i \in DOMAIN queue : queue[i].n \in Note /\ (queue[i].type = "Processed" => queue[i].n \notin memory)
  BY DEF StagingInv, QueueInv
<1>4. \A m, u : Queued(m, u)' <=> Queued(m, u) \/ (m = n /\ u = "Processed")
  <2>1. n \in Nat
    BY <1>1
  <2> QED
    BY <1>2, <1>3, <2>1, QueuedSent
<1>5. Note' = Note
  BY <1>2 DEF Note
<1>6. RowsTypes'
  <2>1. CASE kept
    BY <1>1, <1>2, <1>5, <2>1 DEF RowsTypes
  <2>2. CASE ~kept
    BY <1>1, <1>2, <1>5, <2>2 DEF RowsTypes
  <2> QED
    BY <2>1, <2>2
<1>7. SilentInv'
  <2>1. \A k \in Note : k \notin memory /\ k \notin db => k \notin db' \cup memory'
    BY <1>1, <1>2
  <2>2. \A i \in DOMAIN queue : queue[i].type = "Processed" /\ queue[i].n \notin db \cup memory
                                   => queue[i].n \notin db' \cup memory'
    BY <1>3, <2>1
  <2>3. ~kept => n \notin db' \cup memory'
    BY <1>1, <1>2
  <2>4. n \in Nat
    BY <1>1
  <2> QED
    BY <1>1, <1>2, <1>3, <2>2, <2>3, <2>4, SilentSent
<1>8. \A k \in db : k \in db'
  BY <1>2
<1>9. \A k \in db' : \/ Queued(k, "Processed")' \/ app'[k] \in Misled'
                     \/ k \in db /\ ~Queued(k, "Processed")
  BY <1>2, <1>4
<1>10. filed \subseteq filed' /\ untold \subseteq untold' /\ Note \subseteq Note' /\ \A k \in Note : app'[k] = app[k]
  BY <1>2, <1>5
<1> QED
  BY <1>2, <1>6, <1>7, <1>8, <1>9, <1>10, RowsStay

\* CloseNotification leaves the records.
LEMMA WithdrawRows ==
  ASSUME RowsInv, NEW n \in memory, Withdraw(n)
  PROVE  RowsInv'
<1>1. /\ app \in Seq(App) /\ RowsTypes /\ SilentInv
      /\ db \subseteq filed /\ filed \subseteq Note \ memory /\ memory \subseteq Note
  BY RowsFacts DEF RowsTypes
<1>2. /\ memory' = memory \ {n} /\ untold' = untold \cup {n}
      /\ UNCHANGED <<app, db, filed, rows, pinned, visible, queue, relisted>>
  BY DEF Withdraw, ListsKept, centerVars
<1>3. Note' = Note /\ \A m, u : Queued(m, u)' <=> Queued(m, u)
  BY <1>2 DEF Note, Queued
<1>4. RowsTypes'
  BY <1>1, <1>2, <1>3 DEF RowsTypes
<1>5. SilentInv'
  <2>1. db' \cup memory' \subseteq db \cup memory
    BY <1>2
  <2> QED
    BY <1>1, <1>2, <2>1, SilentKept
<1>6. \A k \in db' : \/ Queued(k, "Processed")' \/ app'[k] \in Misled'
                     \/ k \in db /\ ~Queued(k, "Processed")
  BY <1>2, <1>3
<1>7. /\ filed \subseteq filed' /\ untold \subseteq untold' /\ Note \subseteq Note'
      /\ (\A k \in Note : app'[k] = app[k]) /\ \A k \in db : k \in db'
  BY <1>2, <1>3
<1> QED
  BY <1>2, <1>4, <1>5, <1>6, <1>7, RowsStay

-----------------------------------------------------------------------------
(* The steps of the panel and its user.                                    *)

\* setVisible(true) reads the list from what is left of the store.
LEMMA ShowRows ==
  ASSUME RowsInv, NEW oldest, Show(oldest)
  PROVE  RowsInv'
<1>1. RowsTypes /\ SilentInv /\ rows \in Seq(Row)
  BY RowsFacts
<1>2. /\ db' \subseteq db /\ rows = <<>> /\ rows' = rows \o Opened(db') /\ visible'
      /\ UNCHANGED <<app, memory, filed, pinned, queue, relisted>>
  BY DEF RowsInv, Show, Open, ghosts
<1>3. RowsTypes'
  BY <1>1, <1>2 DEF RowsTypes, Note
<1>4. SilentInv'
  <2>1. db' \cup memory' \subseteq db \cup memory
    BY <1>2
  <2> QED
    BY <1>1, <1>2, <2>1, SilentKept
<1>5. rows' = Opened(db')
  <2>1. app \in Seq(App) /\ db' \in SUBSET Note
    BY <1>2, RowsFacts
  <2> DEFINE store == db'
  <2> HIDE DEF store
  <2>2. Opened(store) \in Seq(Row)
    <3>1. RowsFit(Opened(store), {})
      BY <2>1, OpenedFacts DEF store
    <3> QED
      BY <3>1 DEF RowsFit, Shape
  <2>3. rows' = <<>> \o Opened(store)
    BY <1>2 DEF store
  <2> QED
    BY <2>2, <2>3 DEF store
<1> QED
  BY <1>2, <1>3, <1>4, <1>5, RowsRead

\* setVisible(false) empties the list.
LEMMA HideRows ==
  ASSUME RowsInv, Hide
  PROVE  RowsInv'
<1>1. RowsTypes /\ SilentInv
  BY RowsFacts
<1>2. /\ rows' = <<>> /\ ~visible' /\ relisted' = {}
      /\ UNCHANGED <<app, db, memory, filed, pinned, queue>>
  BY DEF Hide, Close, storeVars
<1>3. RowsTypes' /\ SilentInv'
  BY <1>1, <1>2 DEF RowsTypes, SilentInv, Note
<1> QED
  BY <1>2, <1>3, RowsEmpty

\* clear() empties the list and the store.
LEMMA ClearAllRows ==
  ASSUME RowsInv, ClearAll
  PROVE  RowsInv'
<1>1. RowsTypes /\ SilentInv
  BY RowsFacts
<1>2. rows' = <<>> /\ db' = {} /\ relisted' = {} /\ UNCHANGED <<app, memory, filed, pinned, queue>>
  BY DEF ClearAll, Clear, OnRows
<1>3. RowsTypes' /\ SilentInv'
  BY <1>1, <1>2 DEF RowsTypes, SilentInv, Note
<1> QED
  BY <1>2, <1>3, RowsEmpty

\* collapseAllApp reads the list again.
LEMMA FoldAllRows ==
  ASSUME RowsInv, FoldAll
  PROVE  RowsInv'
<1>1. RowsTypes /\ SilentInv
  BY RowsFacts
<1>2. /\ rows' = Opened(db') /\ visible' /\ relisted' = {}
      /\ UNCHANGED <<app, db, memory, filed, pinned, queue>>
  BY DEF FoldAll, CollapseAllApp, OnRows, storeVars
<1>3. RowsTypes' /\ SilentInv'
  BY <1>1, <1>2 DEF RowsTypes, SilentInv, Note
<1> QED
  BY <1>2, <1>3, RowsRead

\* What the list does with a signal: it takes in the record, or nothing.
LEMMA DeliverFacts ==
  ASSUME Deliver, NEW n, NEW row, n = Head(queue).n, row = Head(queue).row
  PROVE  /\ Running /\ queue # <<>> /\ queue' = Tail(queue)
         /\ UNCHANGED <<app, memory, db, filed, pinned, visible, untold>>
         /\ visible /\ Head(queue).type = "Processed" /\ Valid(n, row) =>
              /\ rows' = Received(n)
              /\ relisted' = IF \E i \in NormalsOf(rows, app[n]) : rows[i].n = n
                             THEN relisted \cup {app[n]} ELSE relisted
         /\ ~ (visible /\ Head(queue).type = "Processed" /\ Valid(n, row)) => UNCHANGED <<rows, relisted>>
<1>1. /\ Running /\ queue # <<>> /\ queue' = Tail(queue)
      /\ UNCHANGED <<app, memory, db, filed, pinned, visible, untold>>
      /\ IF ~visible THEN UNCHANGED <<rows, relisted>>
         ELSE IF Head(queue).type = "Processed" THEN ProcessedReceived(n, row) ELSE LiveReceived(n, row)
  BY DEF Deliver, ListsKept, storeVars
<1>2. CASE ~visible
  BY <1>1, <1>2
<1>3. CASE visible /\ Head(queue).type = "Processed"
  <2>1. ProcessedReceived(n, row)
    BY <1>1, <1>3
  <2>2. CASE Valid(n, row)
    BY <1>1, <1>3, <2>1, <2>2 DEF ProcessedReceived
  <2>3. CASE ~Valid(n, row)
    BY <1>1, <1>3, <2>1, <2>3 DEF ProcessedReceived
  <2> QED
    BY <2>2, <2>3
<1>4. CASE visible /\ Head(queue).type # "Processed"
  <2>1. LiveReceived(n, row)
    BY <1>1, <1>4
  <2> QED
    BY <1>1, <1>4, <2>1 DEF LiveReceived
<1> QED
  BY <1>2, <1>3, <1>4

\* A record that a signal names is listed; what the centre does not find, or what is
\* not of a record, was not under way for the list.
LEMMA DeliverRows ==
  ASSUME StagingInv, RowsInv, Deliver
  PROVE  RowsInv'
<1> SUFFICES ASSUME NEW n, n = Head(queue).n, NEW row, row = Head(queue).row, NEW a, a = app[n]
             PROVE  RowsInv'
  OBVIOUS
<1>1. /\ app \in Seq(App) /\ RowsTypes /\ SilentInv /\ Stores /\ RowsFit(rows, relisted)
      /\ memory \subseteq Note /\ pinned \subseteq App /\ relisted \subseteq App
      /\ db \subseteq filed /\ filed \subseteq Note \ memory /\ \A k \in Note : app[k] \in App
  BY RowsFacts DEF RowsTypes
<1>2. /\ Running /\ queue # <<>> /\ queue' = Tail(queue)
      /\ UNCHANGED <<app, memory, db, filed, pinned, visible, untold>>
      /\ visible /\ Head(queue).type = "Processed" /\ Valid(n, row) =>
              /\ rows' = Received(n)
              /\ relisted' = IF \E i \in NormalsOf(rows, app[n]) : rows[i].n = n
                             THEN relisted \cup {app[n]} ELSE relisted
      /\ ~ (visible /\ Head(queue).type = "Processed" /\ Valid(n, row)) => UNCHANGED <<rows, relisted>>
  BY DeliverFacts
<1>3. /\ StagingTypes /\ 1 \in DOMAIN queue /\ Head(queue) = queue[1]
  <2>1. StagingTypes
    BY DEF StagingInv
  <2> QED
    BY <1>2, <2>1 DEF StagingTypes
<1>4. n \in Note /\ (Head(queue).type = "Processed" => n \notin memory)
  BY <1>3 DEF StagingInv, QueueInv
<1>5. \A m, u : Queued(m, u) <=> Queued(m, u)' \/ (n = m /\ Head(queue).type = u)
  BY <1>2, <1>3, QueuedTaken
<1>6. SilentInv' /\ (Head(queue).type = "Processed" /\ ~row => n \notin db \cup memory)
  BY <1>1, <1>2, <1>3, SilentTaken
<1>7. Note' = Note
  BY <1>2 DEF Note
<1>8. CASE ~visible
  <2>1. RowsTypes'
    BY <1>1, <1>2, <1>7, <1>8 DEF RowsTypes
  <2>2. rows' = <<>>
    BY <1>2, <1>8 DEF RowsInv
  <2> QED
    BY <1>2, <1>6, <1>8, <2>1, <2>2, RowsEmpty
<1>9. CASE visible /\ Head(queue).type = "Processed" /\ Valid(n, row)
  <2>1. n \in db
    BY <1>4, <1>9 DEF Valid
  <2>2. /\ rows' = Received(n) /\ relisted \subseteq relisted' /\ relisted' \subseteq App
        /\ (\E i \in NormalsOf(rows, app[n]) : rows[i].n = n) => app[n] \in relisted'
    BY <1>1, <1>2, <1>4, <1>9
  <2>3. RowsTypes'
    BY <1>1, <1>2, <1>7, <2>2 DEF RowsTypes
  <2> DEFINE E == relisted'
  <2> HIDE DEF E
  <2>4. /\ Changed(rows, Received(n), a, E)
        /\ \A T, U : a \notin E /\ Covers(rows, a, Records(db, a), T) /\ U \subseteq T \cup {n}
                       => Covers(Received(n), a, Records(db, a), U)
    <3>1. relisted \subseteq E /\ ((\E i \in NormalsOf(rows, app[n]) : rows[i].n = n) => app[n] \in E)
      BY <2>2 DEF E
    <3> QED
      BY <1>1, <2>1, <3>1, ReceivedFacts
  <2>5. \A k \in Note : app[k] # a => /\ k \in db' <=> k \in db
                                      /\ Queued(k, "Processed")' <=> Queued(k, "Processed")
    BY <1>2, <1>5
  <2>6. ASSUME a \in App \ Misled'
        PROVE  Covers(rows', a, Records(db, a)', Told(a)')
    <3>1. a \notin Misled /\ a \notin E
      <4>1. Misled \subseteq Misled'
        BY <1>1, <1>2, <2>2, MisledStay
      <4>2. a \notin relisted'
        BY <2>6 DEF Misled
      <4> QED
        BY <2>6, <4>1, <4>2 DEF E
    <3>2. Covers(rows, a, Records(db, a), Told(a))
      BY <1>9, <2>6, <3>1 DEF RowsInv, ListsRecords
    <3>3. Records(db, a)' = Records(db, a)
      BY <1>2 DEF Records
    <3>4. Told(a)' \subseteq Told(a) \cup {n}
      BY <1>5, <3>3 DEF Told
    <3>5. Covers(Received(n), a, Records(db, a), Told(a)')
      BY <2>4, <3>1, <3>2, <3>4
    <3> QED
      BY <2>2, <3>3, <3>5
  <2>7. Changed(rows, rows', a, relisted')
    BY <2>2, <2>4 DEF E
  <2> QED
    BY <1>2, <1>6, <1>9, <2>2, <2>3, <2>5, <2>6, <2>7, RowsTurn
<1>10. CASE visible /\ ~ (Head(queue).type = "Processed" /\ Valid(n, row))
  <2>1. UNCHANGED <<rows, relisted>>
    BY <1>2, <1>10
  <2>2. RowsTypes'
    BY <1>1, <1>2, <1>7, <2>1 DEF RowsTypes
  <2>3. ASSUME NEW k \in db', ~Queued(k, "Processed")'
        PROVE  k \in db /\ ~Queued(k, "Processed")
    <3>1. k \in db
      BY <1>2
    <3>2. ASSUME k = n, Head(queue).type = "Processed"
          PROVE  FALSE
      <4>1. ~row
        BY <1>10, <3>1, <3>2 DEF Valid
      <4> QED
        BY <1>6, <3>1, <3>2, <4>1
    <3> QED
      BY <1>5, <2>3, <3>1, <3>2
  <2>4. /\ filed \subseteq filed' /\ untold \subseteq untold' /\ Note \subseteq Note'
        /\ (\A k \in Note : app'[k] = app[k]) /\ \A k \in db : k \in db'
    BY <1>2, <1>7
  <2> QED
    BY <1>2, <1>6, <2>1, <2>2, <2>3, <2>4, RowsStay
<1> QED
  BY <1>8, <1>9, <1>10

-----------------------------------------------------------------------------
(* The steps of the user.                                                  *)

\* What the steps on the rows of one application have in common.
LEMMA RowSteps ==
  ASSUME RowsInv, UNCHANGED <<app, memory, filed, pinned, visible, untold, queue, relisted>>,
         NEW r \in DOMAIN rows, NEW a, a = rows[r].app, db' \subseteq db, \A n \in db : app[n] # a => n \in db',
         Changed(rows, rows', a, relisted),
         \A T : a \notin relisted /\ T \subseteq Records(db, a) /\ Covers(rows, a, Records(db, a), T)
                  => Covers(rows', a, Records(db', a), T \cap db')
  PROVE  RowsInv'
<1>1. /\ RowsTypes /\ SilentInv /\ visible /\ db \in SUBSET Note
  BY RowsFacts
<1>2. RowsTypes'
  <2>1. Note' = Note
    BY DEF Note
  <2> QED
    BY <1>1, <2>1 DEF RowsTypes
<1>3. SilentInv'
  BY <1>1, SilentKept
<1>4. \A m, u : Queued(m, u)' <=> Queued(m, u)
  BY DEF Queued
<1>5. Misled' = Misled
  BY DEF Misled
<1>6. ASSUME a \in App \ Misled'
      PROVE  Covers(rows', a, Records(db, a)', Told(a)')
  <2>1. Covers(rows, a, Records(db, a), Told(a)) /\ a \notin relisted
    BY <1>1, <1>5, <1>6 DEF RowsInv, ListsRecords, Misled
  <2>2. Told(a) \subseteq Records(db, a)
    BY DEF Told
  <2>3. Covers(rows', a, Records(db', a), Told(a) \cap db')
    BY <2>1, <2>2
  <2>4. Records(db, a)' = Records(db', a)
    BY DEF Records
  <2>5. Told(a)' = Told(a) \cap db'
    BY <1>4 DEF Told, Records
  <2> QED
    BY <2>3, <2>4, <2>5
<1>7. Changed(rows, rows', a, relisted')
  OBVIOUS
<1> HIDE DEF Changed
<1>8. \A n \in Note : app[n] # a => /\ n \in db' <=> n \in db
                                    /\ Queued(n, "Processed")' <=> Queued(n, "Processed")
  BY <1>4
<1> QED
  BY <1>1, <1>2, <1>3, <1>6, <1>7, <1>8, RowsTurn

\* expandApp
LEMMA FoldRows ==
  ASSUME RowsInv, NEW r \in DOMAIN rows, Fold(r)
  PROVE  RowsInv'
<1> DEFINE a == rows[r].app
<1>1. Stores /\ RowsFit(rows, relisted) /\ r \in 1..Len(rows)
  BY RowsFacts
<1>2. ExpandApp(r) /\ UNCHANGED <<app, memory, db, filed, pinned, visible, untold, queue, relisted>>
  BY DEF Fold, ExpandApp, OnRows, storeVars
<1>3. /\ Changed(rows, rows', a, relisted)
      /\ \A T : T \subseteq Records(db, a) /\ Covers(rows, a, Records(db, a), T) => Covers(rows', a, Records(db, a), T)
  BY <1>1, <1>2, ExpandAppFacts
<1> HIDE DEF a
<1>4. \A T : T \subseteq Records(db, a) => T \cap db = T
  BY DEF Records
<1>5. \A T : T \subseteq Records(db, a) /\ Covers(rows, a, Records(db, a), T)
               => Covers(rows', a, Records(db', a), T \cap db')
  BY <1>2, <1>3, <1>4
<1>6. a = rows[r].app
  BY DEF a
<1> QED
  BY <1>2, <1>3, <1>5, <1>6, RowSteps

\* collapseApp
LEMMA UnfoldRows ==
  ASSUME RowsInv, NEW r \in DOMAIN rows, Unfold(r)
  PROVE  RowsInv'
<1> DEFINE a == rows[r].app
<1>1. Stores /\ RowsFit(rows, relisted) /\ r \in 1..Len(rows)
  BY RowsFacts
<1>2. CollapseApp(r) /\ UNCHANGED <<app, memory, db, filed, pinned, visible, untold, queue, relisted>>
  BY DEF Unfold, CollapseApp, OnRows, storeVars
<1>3. /\ Changed(rows, rows', a, relisted)
      /\ \A T : a \notin relisted /\ Covers(rows, a, Records(db, a), T) => Covers(rows', a, Records(db, a), T)
  BY <1>1, <1>2, CollapseAppFacts
<1> HIDE DEF a
<1>4. \A T : T \subseteq Records(db, a) => T \cap db = T
  BY DEF Records
<1>5. \A T : a \notin relisted /\ T \subseteq Records(db, a) /\ Covers(rows, a, Records(db, a), T)
               => Covers(rows', a, Records(db', a), T \cap db')
  BY <1>2, <1>3, <1>4
<1>6. a = rows[r].app
  BY DEF a
<1> QED
  BY <1>2, <1>3, <1>5, <1>6, RowSteps

\* removeByApp
LEMMA DropAppRows ==
  ASSUME RowsInv, NEW r \in DOMAIN rows, DropApp(r)
  PROVE  RowsInv'
<1> DEFINE a == rows[r].app
<1>1. Stores /\ RowsFit(rows, relisted) /\ r \in 1..Len(rows)
  BY RowsFacts
<1>2. /\ RemoveByApp(r) /\ db' = db \ Records(db, a)
      /\ UNCHANGED <<app, memory, filed, pinned, visible, untold, queue, relisted>>
  BY DEF DropApp, RemoveByApp, OnRows
<1>3. Changed(rows, rows', a, relisted) /\ NoneOf(rows', a)
  BY <1>1, <1>2, RemoveByAppFacts
<1> HIDE DEF a
<1>4. \A T : T \subseteq Records(db, a) => T \cap db' = {}
  BY <1>2
<1>5. \A T : T \subseteq Records(db, a) => Covers(rows', a, Records(db', a), T \cap db')
  BY <1>3, <1>4, NoneCovers
<1>6. a = rows[r].app /\ db' \subseteq db /\ \A n \in db : app[n] # a => n \in db'
  BY <1>2 DEF a, Records
<1> QED
  BY <1>2, <1>3, <1>5, <1>6, RowSteps

\* The assertion of remove fails for an application of which the list was not told all.
LEMMA AbortMisled ==
  ASSUME RowsInv, NEW r \in DOMAIN rows, NEW a, a = rows[r].app,
         RemovedAllOf(r, db \ {rows[r].n})
  PROVE  a \in Misled
<1>1. Stores /\ r \in 1..Len(rows) /\ a \in App /\ visible /\ db \in SUBSET Note /\ app \in Seq(App)
  BY RowsFacts
<1>2. rows[r].type = "overlap" /\ Records(db \ {rows[r].n}, a) = {}
  BY DEF RemovedAllOf
<1> DEFINE R == Records(db, a)
           n == rows[r].n
<1>3. \A k \in R : k = n
  BY <1>2 DEF Records
<1> HIDE DEF R, n
<1>4. Cardinality(R) <= 1
  <2>1. R \subseteq {n}
    BY <1>3
  <2>2. IsFiniteSet({n}) /\ Cardinality({n}) = 1
    BY FS_Singleton
  <2> QED
    BY <2>1, <2>2, FS_Subset
<1>5. Cardinality(R) \in Nat
  BY <1>1, StoreFacts DEF R
<1>6. ASSUME a \notin Misled PROVE FALSE
  <2>1. Covers(rows, a, R, Told(a))
    BY <1>1, <1>6 DEF RowsInv, ListsRecords, R
  <2>2. Cardinality(R) >= 2
    BY <1>1, <1>2, <2>1 DEF Covers
  <2> QED
    BY <1>4, <1>5, <2>2
<1> QED
  BY <1>6

\* remove(id), which ends the program where its assertion fails.
LEMMA RemoveNotifyRows ==
  ASSUME RowsInv, NEW r \in DOMAIN rows, RemoveNotify(r)
  PROVE  RowsInv'
<1> SUFFICES ASSUME NEW n, n = rows[r].n, NEW a, a = rows[r].app
             PROVE  RowsInv'
  OBVIOUS
<1>1. /\ Stores /\ RowsFit(rows, relisted) /\ r \in 1..Len(rows) /\ RowsTypes /\ SilentInv
      /\ db \in SUBSET Note /\ visible
  BY RowsFacts
<1>2. n \in Note /\ app[n] = a
  BY <1>1 DEF RowsFit, Fits
<1>3. /\ db' = db \ {n} /\ rows[r].type # "group"
      /\ UNCHANGED <<app, memory, filed, pinned, visible, untold, queue, relisted>>
      /\ IF RemovedAllOf(r, db \ {n}) THEN UNCHANGED rows ELSE RemoveRecord(r, db \ {n})
  BY DEF RemoveNotify, OnRows
<1>4. CASE RemovedAllOf(r, db \ {n})
  <2>1. UNCHANGED rows /\ Note' = Note
    BY <1>3, <1>4 DEF Note
  <2>2. a \in Misled
    BY <1>4, AbortMisled
  <2>3. Misled' = Misled /\ \A m, u : Queued(m, u)' <=> Queued(m, u)
    BY <1>3 DEF Misled, Queued
  <2>4. \A k \in db : k \in db' \/ app[k] \in Misled'
    BY <1>2, <1>3, <2>2, <2>3
  <2>5. \A k \in db' : \/ Queued(k, "Processed")' \/ app'[k] \in Misled'
                       \/ k \in db /\ ~Queued(k, "Processed")
    BY <1>3, <2>3
  <2>6. RowsTypes' /\ SilentInv'
    <3>1. db' \subseteq db
      BY <1>3
    <3>2. RowsTypes'
      BY <1>1, <1>3, <2>1, <3>1 DEF RowsTypes
    <3>3. db' \cup memory' \subseteq db \cup memory
      BY <1>3
    <3> QED
      BY <1>1, <1>3, <3>2, <3>3, SilentKept
  <2>7. /\ filed \subseteq filed' /\ untold \subseteq untold' /\ Note \subseteq Note'
        /\ \A k \in Note : app'[k] = app[k]
    BY <1>3, <2>1
  <2> QED
    BY <1>3, <2>1, <2>4, <2>5, <2>6, <2>7, RowsStay
<1>5. CASE ~RemovedAllOf(r, db \ {n})
  <2> DEFINE store == db \ {n}
  <2>1. RemoveRecord(r, store)
    BY <1>3, <1>5
  <2>2. /\ Changed(rows, rows', a, relisted)
        /\ \A T : a \notin relisted /\ T \subseteq Records(db, a) /\ Covers(rows, a, Records(db, a), T)
                    => Covers(rows', a, Records(store, a), T \ {n})
    <3>1. ~RemovedAllOf(r, store) /\ store = db \ {n}
      BY <1>5
    <3> HIDE DEF store
    <3> QED
      BY <1>1, <1>3, <2>1, <3>1, RemoveRecordFacts
  <2>3. \A T : T \subseteq Records(db, a) => T \cap store = T \ {n}
    BY DEF Records
  <2>4. db' = store /\ db' \subseteq db /\ \A k \in db : app[k] # a => k \in db'
    BY <1>2, <1>3
  <2> HIDE DEF store
  <2>5. \A T : a \notin relisted /\ T \subseteq Records(db, a) /\ Covers(rows, a, Records(db, a), T)
                 => Covers(rows', a, Records(db', a), T \cap db')
    BY <2>2, <2>3, <2>4
  <2> QED
    BY <1>3, <2>2, <2>4, <2>5, RowSteps
<1> QED
  BY <1>4, <1>5

\* sort() after a pin leaves the rows, in another order.
LEMMA PinRows ==
  ASSUME RowsInv, NEW a \in App, PinApplication(a)
  PROVE  RowsInv'
<1>1. /\ RowsFit(rows, relisted) /\ RowsTypes /\ SilentInv
  BY RowsFacts
<1>2. /\ rows' = Sorted(rows, pinned') /\ pinned' = SymDiff(pinned, {a})
      /\ UNCHANGED <<app, memory, db, filed, visible, untold, queue, relisted>>
  BY DEF PinApplication, OnRows
<1>3. pinned' \subseteq App
  BY <1>1, <1>2 DEF RowsTypes, SymDiff
<1>4. Note' = Note /\ Misled' = Misled /\ \A m, u : Queued(m, u)' <=> Queued(m, u)
  BY <1>2 DEF Note, Misled, Queued
<1>5. RowsTypes' /\ SilentInv'
  <2>1. RowsTypes'
    BY <1>1, <1>2, <1>3, <1>4 DEF RowsTypes
  <2>2. db' \cup memory' \subseteq db \cup memory
    BY <1>2
  <2> QED
    BY <1>1, <1>2, <2>1, <2>2, SilentKept
<1> DEFINE P == pinned'
           t == rows'
<1>6. t = Sorted(rows, P)
  BY <1>2
<1> HIDE DEF P, t
<1>7. Shape(t, P, relisted) /\ Fits(t) /\ \A b : OwnSame(rows, t, b)
  BY <1>1, <1>6, SortedKeeps
<1>8. RowsFit(rows, relisted)'
  BY <1>2, <1>4, <1>7 DEF RowsFit, Fits, P, t
<1>9. rows = <<>> => rows' = <<>>
  <2>1. ASSUME rows = <<>> PROVE Len(rows') = 0 /\ rows' \in Seq(Row)
    <3>1. rows' \in Seq(Row)
      BY <1>8 DEF RowsFit, Shape
    <3>2. Len(rows') \in Nat
      BY <3>1
    <3>3. \A i \in 1..Len(rows') : FALSE
      <4> SUFFICES ASSUME NEW i \in 1..Len(rows') PROVE FALSE
        OBVIOUS
      <4>1. OwnSame(rows, t, t[i].app)
        BY <1>7
      <4>2. \E j \in 1..Len(rows) : rows[j] = t[i]
        BY <4>1 DEF OwnSame, t
      <4>3. Len(rows) = 0
        BY <2>1
      <4> QED
        BY <4>2, <4>3
    <3> QED
      BY <3>1, <3>2, <3>3
  <2> QED
    BY <2>1
<1>10. ASSUME visible, NEW b \in App \ Misled
       PROVE  Covers(rows, b, Records(db, b), Told(b))'
  <2>1. Covers(rows, b, Records(db, b), Told(b))
    BY <1>10 DEF RowsInv, ListsRecords
  <2>2. Covers(t, b, Records(db, b), Told(b))
    BY <1>7, <2>1, CoveredSame
  <2>3. Records(db, b)' = Records(db, b) /\ Told(b)' = Told(b)
    BY <1>2, <1>4 DEF Records, Told
  <2> QED
    BY <2>2, <2>3 DEF t
<1> QED
  BY <1>2, <1>4, <1>5, <1>8, <1>9, <1>10 DEF RowsInv, ListsRecords

-----------------------------------------------------------------------------
(* The steps on the live notifications.                                    *)

\* closeNotify: a record is announced once more, also when it is removed.
LEMMA CloseNotifyRows ==
  ASSUME StagingInv, RowsInv, NEW i \in DOMAIN staging, NEW kept \in BOOLEAN, CloseNotify(i, kept)
  PROVE  RowsInv'
<1> SUFFICES ASSUME NEW n, n = staging[i]
             PROVE  RowsInv'
  OBVIOUS
<1>1. /\ RowsTypes /\ SilentInv /\ StagingTypes /\ n \in Nat
      /\ db \subseteq filed /\ filed \subseteq Note
  BY RowsFacts DEF StagingInv, StagingTypes, RowsTypes
<1>2. /\ memory' = memory \ {n} /\ UNCHANGED <<app, filed, pinned, rows, visible, relisted>>
      /\ db' = (IF kept THEN db ELSE db \ {n})
      /\ untold' = (IF n \in db /\ ~kept THEN untold \cup {n} ELSE untold)
      /\ IF n \in db THEN Send(n, TRUE, "Processed") ELSE UNCHANGED queue
  BY DEF CloseNotify, OnStaging
<1>3. Note' = Note
  BY <1>2 DEF Note
<1>4. RowsTypes'
  <2>1. db' \subseteq db
    BY <1>2
  <2> QED
    BY <1>1, <1>2, <1>3, <2>1 DEF RowsTypes
<1>5. db' \cup memory' \subseteq db \cup memory
  BY <1>2
<1>6. /\ filed \subseteq filed' /\ untold \subseteq untold' /\ Note \subseteq Note'
      /\ \A k \in Note : app'[k] = app[k]
  BY <1>2, <1>3
<1>9. \A k \in db : k \in db' \/ app[k] \in Misled'
  <2> SUFFICES ASSUME n \in db, ~kept PROVE app[n] \in Misled'
    BY <1>2
  <2>1. n \in untold' \cap filed' /\ app'[n] = app[n]
    BY <1>1, <1>2
  <2>2. app'[n] \in Misled'
    BY <2>1 DEF Misled
  <2> QED
    BY <2>1, <2>2
<1>7. SilentInv' /\ \A k : Queued(k, "Processed") => Queued(k, "Processed")'
  <2>1. CASE n \in db
    <3>1. Send(n, TRUE, "Processed")
      BY <1>2, <2>1
    <3>2. \A m, u : Queued(m, u)' <=> Queued(m, u) \/ (m = n /\ u = "Processed")
      BY <1>1, <3>1, QueuedSent
    <3>3. SilentInv'
      BY <1>1, <1>5, <3>1, SilentSent
    <3> QED
      BY <3>2, <3>3
  <2>2. CASE n \notin db
    <3>1. UNCHANGED queue
      BY <1>2, <2>2
    <3>2. SilentInv'
      BY <1>1, <1>5, <3>1, SilentKept
    <3> QED
      BY <3>1, <3>2 DEF Queued
  <2> QED
    BY <2>1, <2>2
<1>8. \A k \in db' : \/ Queued(k, "Processed")' \/ app'[k] \in Misled'
                     \/ k \in db /\ ~Queued(k, "Processed")
  BY <1>2, <1>7
<1> QED
  BY <1>2, <1>4, <1>6, <1>7, <1>8, <1>9, RowsStay

\* invokeNotify: a record is removed, of which the centre is not told.
LEMMA InvokeNotifyRows ==
  ASSUME RowsInv, NEW i \in DOMAIN staging, InvokeNotify(i)
  PROVE  RowsInv'
<1> SUFFICES ASSUME NEW n, n = staging[i]
             PROVE  RowsInv'
  OBVIOUS
<1>1. RowsTypes /\ SilentInv /\ db \subseteq filed /\ filed \subseteq Note
  BY RowsFacts DEF RowsTypes
<1>2. /\ memory' = memory \ {n} /\ db' = db \ {n} /\ UNCHANGED <<app, filed, pinned, rows, visible, relisted, queue>>
      /\ untold' = (IF n \in db THEN untold \cup {n} ELSE untold)
  BY DEF InvokeNotify, OnStaging
<1>3. Note' = Note /\ untold \subseteq untold' /\ \A m, u : Queued(m, u)' <=> Queued(m, u)
  BY <1>2 DEF Note, Queued
<1>4. RowsTypes'
  BY <1>1, <1>2, <1>3 DEF RowsTypes
<1>5. SilentInv'
  <2>1. db' \cup memory' \subseteq db \cup memory
    BY <1>2
  <2> QED
    BY <1>1, <1>2, <2>1, SilentKept
<1>6. /\ filed \subseteq filed' /\ Note \subseteq Note' /\ \A k \in Note : app'[k] = app[k]
  BY <1>2, <1>3
<1>7. \A k \in db : k \in db' \/ app[k] \in Misled'
  <2> SUFFICES ASSUME n \in db PROVE app[n] \in Misled'
    BY <1>2
  <2>1. n \in untold' \cap filed' /\ app'[n] = app[n]
    BY <1>1, <1>2
  <2>2. app'[n] \in Misled'
    BY <2>1 DEF Misled
  <2> QED
    BY <2>1, <2>2
<1>8. \A k \in db' : \/ Queued(k, "Processed")' \/ app'[k] \in Misled'
                     \/ k \in db /\ ~Queued(k, "Processed")
  BY <1>2, <1>3
<1> QED
  BY <1>2, <1>3, <1>4, <1>5, <1>6, <1>7, <1>8, RowsStay

-----------------------------------------------------------------------------
(* The invariant holds.                                                    *)

\* The empty list.
LEMMA RowsInit == Init => RowsInv
<1> SUFFICES ASSUME Init PROVE RowsInv
  OBVIOUS
<1>1. /\ app = <<>> /\ memory = {} /\ db = {} /\ filed = {} /\ pinned = {} /\ rows = <<>> /\ ~visible
      /\ queue = <<>> /\ relisted = {}
  BY DEF Init
<1>2. RowsTypes /\ SilentInv
  BY <1>1 DEF RowsTypes, SilentInv
<1>3. RowsFit(rows, relisted)
  BY <1>1, EmptyFits
<1> QED
  BY <1>1, <1>2, <1>3 DEF RowsInv

\* A step of something else.
LEMMA RowsUnchanged == ASSUME RowsInv, UNCHANGED allVars PROVE RowsInv'
<1>1. UNCHANGED <<app, memory, db, filed, pinned, rows, queue, visible, untold, relisted>>
  BY DEF allVars, storeVars, centerVars, ghosts
<1>2. /\ Note' = Note /\ Misled' = Misled /\ (\A m, u : Queued(m, u)' <=> Queued(m, u))
  BY <1>1 DEF Note, Misled, Queued
<1>3. RowsTypes /\ SilentInv
  BY RowsFacts
<1>4. RowsTypes' /\ SilentInv'
  BY <1>1, <1>2, <1>3 DEF RowsTypes, SilentInv
<1>5. \A k \in db' : \/ Queued(k, "Processed")' \/ app'[k] \in Misled'
                     \/ k \in db /\ ~Queued(k, "Processed")
  BY <1>1, <1>2
<1>6. /\ filed \subseteq filed' /\ untold \subseteq untold' /\ Note \subseteq Note'
      /\ (\A k \in Note : app'[k] = app[k]) /\ \A k \in db : k \in db'
  BY <1>1, <1>2
<1> QED
  BY <1>1, <1>4, <1>5, <1>6, RowsStay

\* Every step keeps the list in step with the records.
LEMMA RowsStep == StagingInv /\ RowsInv /\ [Next]_allVars => RowsInv'
<1> SUFFICES ASSUME StagingInv, RowsInv, [Next]_allVars PROVE RowsInv'
  OBVIOUS
<1>1. CASE \E a \in App, type \in {"NotProcessed", "Processed"} : Notify(a, type)
  BY <1>1, NotifyRows
<1>2. CASE \E n \in memory : Withdraw(n)
  BY <1>2, WithdrawRows
<1>3. CASE \E n \in memory, kept \in BOOLEAN : Replace(n, kept) \/ Expire(n, kept)
  BY <1>3, ReplaceRows, ExpireRows
<1>4. CASE \E oldest \in 1..Len(app) + 1 : Show(oldest)
  BY <1>4, ShowRows
<1>5. CASE Hide
  BY <1>5, HideRows
<1>6. CASE Deliver
  BY <1>6, DeliverRows
<1>7. CASE \E r \in DOMAIN rows : Fold(r) \/ Unfold(r) \/ DropApp(r) \/ RemoveNotify(r)
  BY <1>7, FoldRows, UnfoldRows, DropAppRows, RemoveNotifyRows
<1>8. CASE ClearAll \/ FoldAll
  BY <1>8, ClearAllRows, FoldAllRows
<1>9. CASE \E a \in App : PinApplication(a)
  BY <1>9, PinRows
<1>10. CASE \E i \in DOMAIN staging : InvokeNotify(i) \/ \E kept \in BOOLEAN : CloseNotify(i, kept)
  BY <1>10, CloseNotifyRows, InvokeNotifyRows
<1>11. CASE UNCHANGED allVars
  BY <1>11, RowsUnchanged
<1> QED
  BY <1>1, <1>2, <1>3, <1>4, <1>5, <1>6, <1>7, <1>8, <1>9, <1>10, <1>11 DEF Next

-----------------------------------------------------------------------------
(* What follows from the invariant.                                        *)

\* Blocks of rows are what the properties ask for.
LEMMA InvArranges == RowsInv => Arranged
<1> SUFFICES ASSUME RowsInv PROVE Blocks /\ PinnedFirst
  BY DEF Arranged
<1>1. /\ rows \in Seq(Row) /\ Len(rows) \in Nat /\ Whole(rows) /\ PinsOnTop(rows, pinned)
      /\ DOMAIN rows = 1..Len(rows)
  BY RowsFacts DEF RowsFit, Shape
<1>2. PinnedFirst
  BY <1>1 DEF PinsOnTop, PinnedFirst
<1>3. ASSUME NEW a \in App, NEW own, own = {i \in DOMAIN rows : rows[i].app = a}, Cardinality(own) > 1
      PROVE  /\ own = Min(own)..Max(own)
             /\ Cardinality(own) > 2
             /\ \A i \in own : rows[i].type = IF i = Min(own) THEN "group" ELSE "normal"
  <2>1. PICK i \in 1..Len(rows) : rows[i].app = a
    <3>1. own # {}
      BY <1>3, FS_EmptySet
    <3> QED
      BY <1>1, <1>3, <3>1
  <2>2. PICK lo, L \in Nat : Block(rows, lo, L) /\ lo <= i /\ i < lo + L
    BY <1>1, <2>1 DEF Whole
  <2>3. /\ 1 <= lo /\ 1 <= L /\ lo + L <= Len(rows) + 1
        /\ \A j \in 1..Len(rows) : rows[j].app = rows[lo].app <=> lo <= j /\ j < lo + L
        /\ L > 1 => /\ L >= 3 /\ rows[lo].type = "group"
                    /\ \A j \in 1..Len(rows) : lo < j /\ j < lo + L => rows[j].type = "normal"
    BY <2>2 DEF Block
  <2>4. rows[lo].app = a
    BY <2>1, <2>2, <2>3
  <2> DEFINE hi == lo + L - 1
  <2>5. hi \in Int /\ lo \in Int /\ lo <= hi /\ hi <= Len(rows) /\ L = hi - lo + 1
    BY <2>3
  <2>6. \A j \in 1..Len(rows) : j < lo + L <=> j <= hi
    BY <2>3
  <2> HIDE DEF hi
  <2>7. own = lo..hi
    <3>1. \A j \in lo..hi : j \in 1..Len(rows)
      BY <1>1, <2>3, <2>5
    <3>2. \A j \in 1..Len(rows) : rows[j].app = a <=> lo <= j /\ j <= hi
      BY <2>3, <2>4, <2>6
    <3> QED
      BY <1>1, <1>3, <2>5, <3>1, <3>2
  <2>8. Cardinality(own) = L
    BY <2>5, <2>7, FS_Interval
  <2>9. Min(own) = lo /\ Max(own) = hi
    <3>1. own \in SUBSET Nat /\ own \in SUBSET (1..Len(rows)) /\ lo \in own /\ hi \in own
      BY <1>1, <2>3, <2>5, <2>7
    <3>2. Min(own) \in own /\ Min(own) <= lo
      BY <3>1, MinOfRows
    <3>3. Max(own) \in own /\ hi <= Max(own)
      BY <1>1, <3>1, MaxOfRows
    <3> QED
      BY <2>5, <2>7, <3>2, <3>3
  <2>10. L >= 3
    BY <1>3, <2>3, <2>8
  <2>11. \A j \in own : rows[j].type = IF j = lo THEN "group" ELSE "normal"
    <3> SUFFICES ASSUME NEW j \in own PROVE rows[j].type = IF j = lo THEN "group" ELSE "normal"
      OBVIOUS
    <3>1. j \in 1..Len(rows) /\ lo <= j /\ j <= hi
      BY <1>1, <1>3, <2>7
    <3>2. j # lo => rows[j].type = "normal"
      BY <2>3, <2>6, <2>10, <3>1
    <3> QED
      BY <2>3, <2>10, <3>2
  <2> QED
    BY <2>7, <2>8, <2>9, <2>10, <2>11
<1>4. Blocks
  BY <1>3 DEF Blocks
<1> QED
  BY <1>2, <1>4

\* What the rows cover is what the properties ask for.
LEMMA InvGivesRecords == RowsInv => RowsLive /\ RecordsListed /\ OverlapsCounted
<1> SUFFICES ASSUME RowsInv PROVE RowsLive /\ RecordsListed /\ OverlapsCounted
  OBVIOUS
<1>1. /\ rows \in Seq(Row) /\ db \in SUBSET Note /\ filed \subseteq Note /\ DOMAIN rows = 1..Len(rows)
      /\ \A n \in Note : app[n] \in App
      /\ \A r \in DOMAIN rows : rows[r].app \in App /\ visible
  BY RowsFacts
<1>2. visible => \A a \in App \ Misled : Covers(rows, a, Records(db, a), Told(a))
  BY DEF RowsInv, ListsRecords
<1>3. RowsLive
  <2> SUFFICES ASSUME NEW i \in DOMAIN rows, rows[i].type # "group", rows[i].app \notin Misled
               PROVE  rows[i].n \in db
    BY DEF RowsLive
  <2>1. Covers(rows, rows[i].app, Records(db, rows[i].app), Told(rows[i].app))
    BY <1>1, <1>2
  <2>2. rows[i].n \in Records(db, rows[i].app)
    BY <1>1, <2>1 DEF Covers
  <2> QED
    BY <2>2 DEF Records
<1>4. RecordsListed
  <2> SUFFICES ASSUME visible, NEW n \in db, ~Queued(n, "Processed"), app[n] \notin Misled
               PROVE  \E i \in DOMAIN rows :
                        /\ rows[i].app = app[n]
                        /\ rows[i].type = "overlap" \/ (rows[i].type = "normal" /\ rows[i].n = n)
    BY DEF RecordsListed
  <2>1. Covers(rows, app[n], Records(db, app[n]), Told(app[n]))
    BY <1>1, <1>2
  <2>2. n \in Told(app[n])
    BY DEF Told, Records
  <2> QED
    BY <1>1, <2>1, <2>2 DEF Covers
<1>5. OverlapsCounted
  <2> SUFFICES ASSUME NEW i \in DOMAIN rows, NEW a, a = rows[i].app, rows[i].type = "overlap", a \notin relisted,
                      \A n \in Records(Note, a) : ~Queued(n, "Processed") /\ n \notin untold
               PROVE  rows[i].count = OverlapCount(Cardinality(Records(db, a)))
    BY DEF OverlapsCounted
  <2>1. a \notin Misled
    BY <1>1 DEF Misled, Records
  <2>2. Told(a) = Records(db, a)
    BY <1>1 DEF Told, Records
  <2>3. Covers(rows, a, Records(db, a), Told(a))
    BY <1>1, <1>2, <2>1
  <2> QED
    BY <1>1, <2>2, <2>3 DEF Covers
<1> QED
  BY <1>3, <1>4, <1>5

-----------------------------------------------------------------------------
(* The bounds, and the end of the program.                                 *)

BoundsInv ==
  /\ Len(app) <= MaxNotify /\ Len(queue) <= MaxQueued /\ overlapCount \in 0..MaxCount
  /\ replaces \subseteq Note /\ untold \subseteq Note /\ astray \subseteq Note
  /\ aborted \in BOOLEAN

CenterInv == StagingInv /\ RowsInv /\ BoundsInv

\* A list of members of T.
LEMMA ListOf ==
  ASSUME NEW S, NEW s, s \in Seq(S), NEW T, \A i \in DOMAIN s : s[i] \in T
  PROVE  s \in Seq(T)
<1>1. s \in [1..Len(s) -> T] /\ Len(s) \in Nat
  OBVIOUS
<1> QED
  BY <1>1

\* The types follow.
LEMMA InvGivesTypes == CenterInv => TypeOK
<1> SUFFICES ASSUME CenterInv PROVE TypeOK
  OBVIOUS
<1>1. StagingTypes /\ QueueInv /\ ListInv /\ RowsTypes /\ BoundsInv /\ RowsFit(rows, relisted)
  BY DEF CenterInv, StagingInv, RowsInv
<1>2. staging \in Seq(Note)
  <2>1. \A i \in DOMAIN staging : staging[i] \in Note
    BY <1>1 DEF ListInv, Good, Alive, Ok
  <2>2. staging \in Seq(Nat)
    BY <1>1 DEF StagingTypes
  <2> QED
    BY <2>1, <2>2, ListOf
<1>3. queue \in Seq([n : Note, row : BOOLEAN, type : {"NotProcessed", "Processed"}])
  <2> DEFINE S == [n : Nat, row : BOOLEAN, type : {"NotProcessed", "Processed"}]
             T == [n : Note, row : BOOLEAN, type : {"NotProcessed", "Processed"}]
  <2>1. queue \in Seq(S)
    BY <1>1 DEF StagingTypes
  <2>2. \A x \in S : x.n \in Note => x \in T
    OBVIOUS
  <2> HIDE DEF S, T
  <2>3. \A i \in DOMAIN queue : queue[i] \in S /\ queue[i].n \in Note
    BY <1>1, <2>1 DEF QueueInv
  <2>4. queue \in Seq(T)
    BY <2>1, <2>2, <2>3, ListOf
  <2> QED
    BY <2>4 DEF T
<1>4. rows \in Seq([type : {"normal", "overlap", "group"}, app : App, n : Note, count : 0..FullCount])
  <2> DEFINE T == [type : {"normal", "overlap", "group"}, app : App, n : Note, count : 0..FullCount]
  <2>1. rows \in Seq(Row) /\ Fits(rows)
    BY <1>1 DEF RowsFit, Shape
  <2>2. \A x \in Row : x.n \in Note => x \in T
    BY DEF Row
  <2> HIDE DEF T
  <2>3. \A i \in DOMAIN rows : rows[i] \in Row /\ rows[i].n \in Note
    BY <2>1 DEF Fits
  <2>4. rows \in Seq(T)
    BY <2>1, <2>2, <2>3, ListOf
  <2> QED
    BY <2>4 DEF T
<1>5. app \in Seq(App) /\ Len(staging) <= BubbleMaxCount /\ visible \in BOOLEAN /\ restaged \subseteq Note
  BY <1>1 DEF StagingTypes
<1> QED
  BY <1>1, <1>2, <1>3, <1>4, <1>5 DEF RowsTypes, BoundsInv, TypeOK

\* The number of notifications that have no row.
LEMMA CountBound ==
  ASSUME NEW c \in Nat, UpdateOverlapCount(c), Len(staging') \in Nat
  PROVE  overlapCount' \in 0..MaxCount
<1>1. BubbleMaxCount \in Nat /\ OverlayMaxCount \in Nat
  BY CenterAssumption
<1>2. MaxCount \in Nat
  BY <1>1 DEF MaxCount
<1> DEFINE x == Min({c, MaxCount}) - Len(staging')
<1>3. x \in Int /\ x <= MaxCount
  <2>1. Min({c, MaxCount}) = IF c <= MaxCount THEN c ELSE MaxCount
    BY <1>2, TwoNumbers
  <2>2. Min({c, MaxCount}) \in Nat /\ Min({c, MaxCount}) <= MaxCount
    BY <1>2, <2>1
  <2> QED
    BY <1>2, <2>2
<1>4. overlapCount' = Max({0, x})
  BY DEF UpdateOverlapCount
<1> HIDE DEF x
<1>5. Max({0, x}) = IF 0 >= x THEN 0 ELSE x
  BY <1>3, TwoNumbers
<1> QED
  BY <1>2, <1>3, <1>4, <1>5

\* What is fetched can be counted.
LEMMA MemoryCounted ==
  ASSUME app' \in Seq(App), memory' \subseteq Note'
  PROVE  Cardinality(memory') \in Nat /\ Cardinality(Fetched(memory')) \in Nat
<1>1. Len(app') \in Nat /\ Note' = 1..Len(app')
  BY DEF Note
<1>2. IsFiniteSet(1..Len(app'))
  BY <1>1, FS_Interval
<1>3. IsFiniteSet(memory')
  BY <1>1, <1>2, FS_Subset
<1>4. IsFiniteSet(Fetched(memory'))
  <2>1. Fetched(memory') \subseteq memory'
    BY DEF Fetched
  <2> QED
    BY <1>3, <2>1, FS_Subset
<1> QED
  BY <1>3, <1>4, FS_CardinalityType

\* The queue stays within its bound.
LEMMA QueueBound ==
  ASSUME StagingTypes, Len(queue) <= MaxQueued,
         \/ UNCHANGED queue
         \/ Len(queue) < MaxQueued /\ \E n, row, t : Send(n, row, t)
         \/ queue # <<>> /\ queue' = Tail(queue)
  PROVE  Len(queue') <= MaxQueued
<1>1. Len(queue) \in Nat /\ MaxQueued \in Nat
  BY CenterAssumption DEF StagingTypes
<1>2. CASE UNCHANGED queue
  BY <1>2
<1>3. ASSUME NEW n, NEW row, NEW t, Len(queue) < MaxQueued, Send(n, row, t)
      PROVE  Len(queue') <= MaxQueued
  <2> DEFINE s == Signal(n, row, t)
  <2>1. queue' = Append(queue, s)
    BY <1>3 DEF Send
  <2> HIDE DEF s
  <2>2. Len(queue') = Len(queue) + 1
    BY <2>1 DEF StagingTypes
  <2> QED
    BY <1>1, <1>3, <2>2
<1>4. CASE queue # <<>> /\ queue' = Tail(queue)
  <2>1. Len(queue') = Len(queue) - 1
    BY <1>4 DEF StagingTypes
  <2> QED
    BY <1>1, <2>1
<1> QED
  BY <1>2, <1>3, <1>4

\* A step of a program that runs, and goes on.
LEMMA BoundsKept ==
  ASSUME StagingTypes, BoundsInv, StagingTypes', Len(app') <= MaxNotify, Note \subseteq Note',
         \/ UNCHANGED queue
         \/ Len(queue) < MaxQueued /\ \E n, row, t : Send(n, row, t)
         \/ queue # <<>> /\ queue' = Tail(queue),
         \/ UNCHANGED overlapCount
         \/ UpdateOverlapCount(Cardinality(memory')) \/ UpdateOverlapCount(Cardinality(Fetched(memory'))),
         replaces' \subseteq Note', untold' \subseteq Note', astray' \subseteq astray \cup Note',
         Running, UNCHANGED aborted
  PROVE  BoundsInv'
<1>1. Len(queue') <= MaxQueued
  BY QueueBound DEF BoundsInv
<1>2. overlapCount' \in 0..MaxCount
  <2>1. Cardinality(memory') \in Nat /\ Cardinality(Fetched(memory')) \in Nat /\ Len(staging') \in Nat
    BY MemoryCounted DEF StagingTypes
  <2> QED
    BY <2>1, CountBound DEF BoundsInv, MaxCount
<1>3. aborted' = FALSE
  BY DEF BoundsInv, Running
<1>4. astray' \subseteq Note'
  BY DEF BoundsInv
<1>5. MaxCount' = MaxCount
  BY DEF MaxCount
<1> QED
  BY <1>1, <1>2, <1>3, <1>4, <1>5 DEF BoundsInv

\* What the steps use of the bounds.
LEMMA BoundsFacts ==
  ASSUME CenterInv
  PROVE  /\ StagingTypes /\ BoundsInv /\ RowsInv /\ app \in Seq(App) /\ Len(app) \in Nat /\ Note = 1..Len(app)
         /\ Len(app) <= MaxNotify /\ memory \subseteq Note /\ db \subseteq Note /\ replaces \subseteq Note
         /\ untold \subseteq Note /\ astray \subseteq Note
<1>1. StagingTypes /\ BoundsInv /\ RowsInv
  BY DEF CenterInv, StagingInv
<1>2. db \subseteq Note /\ Len(app) \in Nat /\ Note = 1..Len(app)
  BY <1>1, RowsFacts
<1> QED
  BY <1>1, <1>2 DEF StagingTypes, BoundsInv

\* One notification more.
LEMMA NewNote ==
  ASSUME app \in Seq(App), NEW a, app' = Append(app, a), Len(app) + 1 <= MaxNotify
  PROVE  Len(app') <= MaxNotify /\ Note \subseteq Note' /\ Len(app) + 1 \in Note'
<1>1. Len(app') = Len(app) + 1 /\ Len(app) \in Nat
  OBVIOUS
<1> QED
  BY <1>1 DEF Note

\* The server: one notification or one signal more.
LEMMA ServerBounds ==
  ASSUME CenterInv, StagingTypes',
         \/ \E a \in App, type \in {"NotProcessed", "Processed"} : Notify(a, type)
         \/ \E n \in memory : Withdraw(n)
         \/ \E n \in memory, kept \in BOOLEAN : Replace(n, kept) \/ Expire(n, kept)
  PROVE  BoundsInv'
<1>0. /\ StagingTypes /\ BoundsInv /\ app \in Seq(App) /\ Len(app) \in Nat /\ Note = 1..Len(app)
      /\ Len(app) <= MaxNotify /\ memory \subseteq Note /\ db \subseteq Note /\ replaces \subseteq Note
      /\ untold \subseteq Note /\ astray \subseteq Note
  BY BoundsFacts
<1>1. ASSUME NEW a \in App, NEW type, Notify(a, type) PROVE BoundsInv'
  <2>1. /\ app' = Append(app, a) /\ Len(app) + 1 <= MaxNotify /\ Len(queue) < MaxQueued
        /\ (\E n, row, t : Send(n, row, t)) /\ Running
        /\ UNCHANGED <<overlapCount, replaces, aborted, untold, astray>>
    BY <1>1 DEF Notify, CanSignal, ListsKept, ghosts
  <2>2. Len(app') <= MaxNotify /\ Note \subseteq Note'
    BY <1>0, <2>1, NewNote
  <2> QED
    BY <1>0, <2>1, <2>2, BoundsKept
<1>2. ASSUME NEW m \in memory, NEW kept \in BOOLEAN, Replace(m, kept) PROVE BoundsInv'
  <2>1. /\ app' = Append(app, app[m]) /\ Len(app) + 1 <= MaxNotify /\ Len(queue) < MaxQueued
        /\ (\E n, row, t : Send(n, row, t)) /\ Running
        /\ replaces' = replaces \cup {Len(app) + 1} /\ untold' = untold \cup {m}
        /\ UNCHANGED <<overlapCount, aborted, astray>>
    BY <1>2 DEF Replace, CanSignal, ListsKept
  <2>2. Len(app') <= MaxNotify /\ Note \subseteq Note' /\ Len(app) + 1 \in Note'
    BY <1>0, <2>1, NewNote
  <2>3. replaces' \subseteq Note' /\ untold' \subseteq Note' /\ astray' \subseteq astray \cup Note'
    BY <1>0, <2>1, <2>2
  <2> QED
    BY <1>0, <2>1, <2>2, <2>3, BoundsKept
<1>3. ASSUME NEW m \in memory, Withdraw(m) PROVE BoundsInv'
  <2>1. /\ Running /\ untold' = untold \cup {m} /\ UNCHANGED <<app, queue, overlapCount, replaces, aborted, astray>>
    BY <1>3 DEF Withdraw, ListsKept, centerVars
  <2>2. Note' = Note
    BY <2>1 DEF Note
  <2>3. /\ Len(app') <= MaxNotify /\ Note \subseteq Note' /\ replaces' \subseteq Note'
        /\ untold' \subseteq Note' /\ astray' \subseteq astray \cup Note'
    BY <1>0, <2>1, <2>2
  <2> QED
    BY <1>0, <2>1, <2>3, BoundsKept
<1>4. ASSUME NEW m \in memory, NEW kept \in BOOLEAN, Expire(m, kept) PROVE BoundsInv'
  <2>1. /\ Running /\ Len(queue) < MaxQueued /\ (\E n, row, t : Send(n, row, t))
        /\ UNCHANGED <<app, overlapCount, replaces, aborted, untold, astray>>
    BY <1>4 DEF Expire, CanSignal, ListsKept, ghosts
  <2>2. Note' = Note
    BY <2>1 DEF Note
  <2>3. /\ Len(app') <= MaxNotify /\ Note \subseteq Note' /\ replaces' \subseteq Note'
        /\ untold' \subseteq Note' /\ astray' \subseteq astray \cup Note'
    BY <1>0, <2>1, <2>2
  <2> QED
    BY <1>0, <2>1, <2>3, BoundsKept
<1> QED
  BY <1>1, <1>2, <1>3, <1>4

\* The panel: it counts what is live, and takes signals.
LEMMA PanelBounds ==
  ASSUME CenterInv, StagingTypes', (\E oldest \in 1..Len(app) + 1 : Show(oldest)) \/ Hide \/ Deliver
  PROVE  BoundsInv'
<1>0. /\ StagingTypes /\ BoundsInv /\ app \in Seq(App) /\ Len(app) \in Nat /\ Note = 1..Len(app)
      /\ Len(app) <= MaxNotify /\ memory \subseteq Note /\ db \subseteq Note /\ replaces \subseteq Note
      /\ untold \subseteq Note /\ astray \subseteq Note
  BY BoundsFacts
<1> DEFINE Counts == \/ UNCHANGED overlapCount
                     \/ UpdateOverlapCount(Cardinality(memory')) \/ UpdateOverlapCount(Cardinality(Fetched(memory')))
<1>1. ASSUME UNCHANGED <<app, replaces, aborted>>, untold' \subseteq untold, astray' \subseteq astray \cup Note, Running,
             UNCHANGED queue \/ (queue # <<>> /\ queue' = Tail(queue)),
             Counts
      PROVE  BoundsInv'
  <2>1. Note' = Note
    BY <1>1 DEF Note
  <2>2. /\ Len(app') <= MaxNotify /\ Note \subseteq Note' /\ replaces' \subseteq Note'
        /\ untold' \subseteq Note' /\ astray' \subseteq astray \cup Note'
    BY <1>0, <1>1, <2>1
  <2> QED
    BY <1>0, <1>1, <2>2, BoundsKept
<1>2. ASSUME NEW oldest, Show(oldest) PROVE BoundsInv'
  <2>1. Running /\ UNCHANGED <<app, memory, queue, replaces, aborted, untold, astray>> /\ StagingOpen
    BY <1>2 DEF Show, ghosts
  <2>2. Counts
    BY <2>1 DEF StagingOpen
  <2> HIDE DEF Counts
  <2> QED
    BY <1>1, <2>1, <2>2
<1>3. CASE Hide
  <2>1. Running /\ UNCHANGED <<app, queue, replaces, aborted, untold, overlapCount>> /\ astray' = {}
    BY <1>3 DEF Hide, StagingClose, storeVars
  <2> QED
    BY <1>1, <2>1
<1>4. CASE Deliver
  <2>1. /\ Running /\ queue # <<>> /\ queue' = Tail(queue) /\ UNCHANGED <<app, memory, replaces, aborted, untold>>
        /\ \/ UNCHANGED <<overlapCount, astray>>
           \/ \E n, row : ProcessedReceived(n, row) \/ LiveReceived(n, row)
    BY <1>4 DEF Deliver, ListsKept, storeVars
  <2>2. ASSUME NEW n, NEW row, ProcessedReceived(n, row) PROVE Counts /\ astray' \subseteq astray \cup Note
    BY <2>2 DEF ProcessedReceived, StagingRemoved, Misplaced
  <2>3. ASSUME NEW n, NEW row, LiveReceived(n, row) PROVE Counts /\ astray' \subseteq astray \cup Note
    <3>1. /\ astray' = astray
          /\ UNCHANGED overlapCount \/ StagingReceived(n, n \in replaces)
      BY <2>3 DEF LiveReceived
    <3>2. UNCHANGED overlapCount \/ Push(n)
      BY <3>1 DEF StagingReceived
    <3> QED
      BY <2>1, <3>1, <3>2 DEF Push
  <2>4. Counts /\ astray' \subseteq astray \cup Note
    BY <2>1, <2>2, <2>3
  <2> HIDE DEF Counts
  <2> QED
    BY <1>1, <2>1, <2>4
<1> QED
  BY <1>2, <1>3, <1>4

\* The user: the rows of the records count nothing, those of what is live do.
LEMMA UserBounds ==
  ASSUME CenterInv, StagingTypes',
         \/ \E r \in DOMAIN rows : Fold(r) \/ Unfold(r) \/ DropApp(r)
         \/ ClearAll \/ FoldAll \/ \E a \in App : PinApplication(a)
         \/ \E i \in DOMAIN staging : InvokeNotify(i) \/ \E kept \in BOOLEAN : CloseNotify(i, kept)
  PROVE  BoundsInv'
<1>0. /\ StagingTypes /\ BoundsInv /\ app \in Seq(App) /\ Len(app) \in Nat /\ Note = 1..Len(app)
      /\ Len(app) <= MaxNotify /\ memory \subseteq Note /\ db \subseteq Note /\ replaces \subseteq Note
      /\ untold \subseteq Note /\ astray \subseteq Note
  BY BoundsFacts
<1>1. ASSUME UNCHANGED <<app, replaces, aborted>>, untold' \subseteq untold \cup Note, astray' \subseteq astray \cup Note,
             Running, UNCHANGED queue \/ (Len(queue) < MaxQueued /\ \E n, row, t : Send(n, row, t)),
             UNCHANGED overlapCount \/ UpdateOverlapCount(Cardinality(Fetched(memory')))
      PROVE  BoundsInv'
  <2>1. Note' = Note
    BY <1>1 DEF Note
  <2>2. /\ Len(app') <= MaxNotify /\ Note \subseteq Note' /\ replaces' \subseteq Note'
        /\ untold' \subseteq Note' /\ astray' \subseteq astray \cup Note'
    BY <1>0, <1>1, <2>1
  <2> QED
    BY <1>0, <1>1, <2>2, BoundsKept
<1>2. ASSUME \/ \E r \in DOMAIN rows : Fold(r) \/ Unfold(r) \/ DropApp(r)
             \/ ClearAll \/ FoldAll \/ \E a \in App : PinApplication(a)
      PROVE  BoundsInv'
  <2>1. Running /\ UNCHANGED <<app, replaces, aborted, untold, astray, queue, overlapCount>>
    BY <1>2 DEF Fold, Unfold, DropApp, ClearAll, FoldAll, PinApplication, OnRows,
                ExpandApp, CollapseApp, RemoveByApp, Clear, CollapseAllApp, storeVars
  <2> QED
    BY <1>1, <2>1
<1>3. ASSUME NEW i \in DOMAIN staging, NEW kept \in BOOLEAN, CloseNotify(i, kept) PROVE BoundsInv'
  <2>1. /\ Running /\ UNCHANGED <<app, replaces, aborted>> /\ astray' \subseteq astray \cup Note
        /\ untold' = (IF staging[i] \in db /\ ~kept THEN untold \cup {staging[i]} ELSE untold)
        /\ UNCHANGED queue \/ (Len(queue) < MaxQueued /\ \E n, row, t : Send(n, row, t))
        /\ UpdateOverlapCount(Cardinality(Fetched(memory')))
    BY <1>3 DEF CloseNotify, OnStaging, StagingRemoved, Misplaced
  <2>2. untold' \subseteq untold \cup Note
    BY <1>0, <2>1
  <2> QED
    BY <1>1, <2>1, <2>2
<1>4. ASSUME NEW i \in DOMAIN staging, InvokeNotify(i) PROVE BoundsInv'
  <2>1. /\ Running /\ UNCHANGED <<app, replaces, aborted, queue>> /\ astray' \subseteq astray \cup Note
        /\ untold' = (IF staging[i] \in db THEN untold \cup {staging[i]} ELSE untold)
        /\ UpdateOverlapCount(Cardinality(Fetched(memory')))
    BY <1>4 DEF InvokeNotify, OnStaging, StagingRemoved, Misplaced
  <2>2. untold' \subseteq untold \cup Note
    BY <1>0, <2>1
  <2> QED
    BY <1>1, <2>1, <2>2
<1> QED
  BY <1>2, <1>3, <1>4

\* remove takes a record, or fails its assertion.
LEMMA RemoveNotifyBounds ==
  ASSUME CenterInv, NEW r \in DOMAIN rows, RemoveNotify(r)
  PROVE  BoundsInv'
<1>0. BoundsInv
  BY BoundsFacts
<1>1. /\ UNCHANGED <<app, untold, queue, replaces, astray, overlapCount>>
      /\ aborted' = RemovedAllOf(r, db \ {rows[r].n})
  BY DEF RemoveNotify, OnRows
<1>2. Note' = Note /\ MaxCount' = MaxCount
  BY <1>1 DEF Note, MaxCount
<1>3. aborted' \in BOOLEAN
  BY <1>1 DEF RemovedAllOf
<1> QED
  BY <1>0, <1>1, <1>2, <1>3 DEF BoundsInv

\* Every step stays within the bounds.
LEMMA BoundsStep == CenterInv /\ [Next]_allVars /\ StagingTypes' => BoundsInv'
<1> SUFFICES ASSUME CenterInv, [Next]_allVars, StagingTypes' PROVE BoundsInv'
  OBVIOUS
<1>1. CASE \/ \E a \in App, type \in {"NotProcessed", "Processed"} : Notify(a, type)
           \/ \E n \in memory : Withdraw(n)
           \/ \E n \in memory, kept \in BOOLEAN : Replace(n, kept) \/ Expire(n, kept)
  BY <1>1, ServerBounds
<1>2. CASE (\E oldest \in 1..Len(app) + 1 : Show(oldest)) \/ Hide \/ Deliver
  BY <1>2, PanelBounds
<1>3. CASE \/ \E r \in DOMAIN rows : Fold(r) \/ Unfold(r) \/ DropApp(r)
           \/ ClearAll \/ FoldAll \/ \E a \in App : PinApplication(a)
           \/ \E i \in DOMAIN staging : InvokeNotify(i) \/ \E kept \in BOOLEAN : CloseNotify(i, kept)
  BY <1>3, UserBounds
<1>4. ASSUME NEW r \in DOMAIN rows, RemoveNotify(r) PROVE BoundsInv'
  BY <1>4, RemoveNotifyBounds
<1>5. CASE UNCHANGED allVars
  <2>1. UNCHANGED <<app, filed, untold, relisted, queue, replaces, astray, overlapCount, aborted>>
    BY <1>5 DEF allVars, storeVars, centerVars, ghosts
  <2> QED
    BY <2>1 DEF CenterInv, BoundsInv, Note, MaxCount
<1> QED
  BY <1>1, <1>2, <1>3, <1>4, <1>5 DEF Next

\* The invariant holds at first.
LEMMA CenterInit == Init => CenterInv
<1> SUFFICES ASSUME Init PROVE CenterInv
  OBVIOUS
<1>1. MaxNotify \in Nat /\ MaxQueued \in Nat /\ MaxCount \in Nat
  BY CenterAssumption DEF MaxCount
<1>2. /\ app = <<>> /\ queue = <<>> /\ overlapCount = 0 /\ replaces = {} /\ untold = {} /\ astray = {} /\ aborted = FALSE
  BY DEF Init
<1>3. Len(app) <= MaxNotify /\ Len(queue) <= MaxQueued /\ overlapCount \in 0..MaxCount
  BY <1>1, <1>2
<1>4. BoundsInv
  BY <1>2, <1>3 DEF BoundsInv
<1> QED
  BY <1>4, StagingInit, RowsInit DEF CenterInv

\* Every step keeps the invariant.
LEMMA CenterStep == CenterInv /\ [Next]_allVars => CenterInv'
<1> SUFFICES ASSUME CenterInv, [Next]_allVars PROVE CenterInv'
  OBVIOUS
<1>1. StagingInv /\ RowsInv
  BY DEF CenterInv
<1>2. StagingInv' /\ RowsInv'
  BY <1>1, StagingStep, RowsStep
<1>3. StagingTypes'
  BY <1>2 DEF StagingInv
<1>4. BoundsInv'
  BY <1>3, BoundsStep
<1> QED
  BY <1>2, <1>4 DEF CenterInv

\* The invariant of the centre.
LEMMA CenterInvHolds == Spec => []CenterInv
<1>1. Init => CenterInv
  BY CenterInit
<1>2. CenterInv /\ [Next]_allVars => CenterInv'
  BY CenterStep
<1> QED
  BY <1>1, <1>2, PTL DEF Spec

-----------------------------------------------------------------------------
(* The theorems.                                                           *)

\* The lists, the stores and the signals of the centre have their types, and stay
\* within the bounds of the model (notifycenter, notifymodel.cpp and notifystagingmodel.cpp).
THEOREM CenterTypesCorrect == Spec => []TypeOK
BY CenterInvHolds, InvGivesTypes, PTL

\* However records arrive, are folded, pinned and removed, the rows of an application
\* stay together behind their header, and the pinned ones on top (notifymodel.cpp).
THEOREM ListStaysArranged == Spec => []Arranged
<1>1. CenterInv => Arranged
  BY InvArranges DEF CenterInv
<1> QED
  BY <1>1, CenterInvHolds, PTL

\* A row always has its record, so that the user acts on what is there, unless the
\* centre was not told, or was told of a record that it had read before.
THEOREM RowsStayLive == Spec => []RowsLive
<1>1. CenterInv => RowsLive
  BY InvGivesRecords DEF CenterInv
<1> QED
  BY <1>1, CenterInvHolds, PTL

\* No record that was announced gets lost from the list, whatever is folded, moved or
\* removed in between.
THEOREM RecordsStayListed == Spec => []RecordsListed
<1>1. CenterInv => RecordsListed
  BY InvGivesRecords DEF CenterInv
<1> QED
  BY <1>1, CenterInvHolds, PTL

\* The number on an overlap is that of the store, once the centre is told of all.
THEOREM OverlapsStayCounted == Spec => []OverlapsCounted
<1>1. CenterInv => OverlapsCounted
  BY InvGivesRecords DEF CenterInv
<1> QED
  BY <1>1, CenterInvHolds, PTL

\* Q_ASSERT(entity.isValid()) in NotifyModel::remove holds on every row of an
\* application whose records were announced once, before they were listed, and
\* neither filed nor removed in silence: its overlap leaves a record behind.
THEOREM AssertionFailsMisled == Spec => []AbortsOnlyMisled
<1>1. ASSUME RowsInv PROVE AbortsOnlyMisled
  <2> SUFFICES ASSUME NEW r \in DOMAIN rows, RemovedAllOf(r, db \ {rows[r].n})
               PROVE  rows[r].app \in Misled
    BY DEF AbortsOnlyMisled
  <2> QED
    BY <1>1, AbortMisled
<1>2. CenterInv => AbortsOnlyMisled
  BY <1>1 DEF CenterInv
<1> QED
  BY <1>2, CenterInvHolds, PTL
=============================================================================
