------------------------------ MODULE FoldFacts ------------------------------
(***************************************************************************)
(* What folding over a list comes to.  The provers cannot instantiate a    *)
(* theorem with an operator parameter, so Step and Holds are constants of  *)
(* this module: a proof about a fold instantiates it with that fold.  That *)
(* every set of numbers has a least one, which MinOfRows proves, is left   *)
(* to the instances, so that they bring in no more than the fold.          *)
(***************************************************************************)
EXTENDS Integers, TLAPS

CONSTANTS
  Step(_, _, _),   \* Step(c, acc, i): what element i makes of acc
  Holds(_, _, _)   \* Holds(c, acc, i): what is true after i elements

\* The greatest of a set, as the community modules define it.
Max(S) == CHOOSE x \in S : \A y \in S : x >= y

\* The function the fold is defined by.
IsIter(f, c, base, D) ==
  f = [s \in SUBSET D |-> IF s = {} THEN base ELSE Step(c, f[s \ {Max(s)}], Max(s))]

\* Finite or not, a set of numbers has a least one.
Ordered == \A I \in SUBSET Nat : I # {} => \E m \in I : \A k \in I : m <= k

\* Then a set of numbers up to n has a greatest one.
LEMMA MaxOfRows ==
  ASSUME Ordered, NEW n \in Nat, NEW I \in SUBSET (1..n), I # {}
  PROVE  Max(I) \in I /\ \A k \in I : k <= Max(I)
<1> DEFINE J == {n - x : x \in I}
<1>1. J \in SUBSET Nat /\ J # {}
  <2>1. \A x \in I : n - x \in Nat
    OBVIOUS
  <2> QED
    BY <2>1
<1>2. PICK m \in J : \A k \in J : m <= k
  <2> HIDE DEF J
  <2> QED
    BY <1>1 DEF Ordered
<1>3. PICK x \in I : m = n - x
  BY <1>2
<1>4. \A y \in I : y <= x
  <2> TAKE y \in I
  <2>1. n - x <= n - y
    BY <1>2, <1>3
  <2> QED
    BY <2>1
<1> QED
  BY <1>4 DEF Max

\* What is taken from a range first is its end.
LEMMA MaxOfRange ==
  ASSUME Ordered, NEW n \in Nat, n # 0
  PROVE  Max(1..n) = n /\ (1..n) \ {n} = 1..n - 1
<1>1. 1..n \in SUBSET (1..n) /\ 1..n # {}
  OBVIOUS
<1>2. Max(1..n) \in 1..n /\ \A k \in 1..n : k <= Max(1..n)
  BY <1>1, MaxOfRows
<1> QED
  BY <1>2

\* A fold over n elements goes on to the next one.
LEMMA IterGrows ==
  ASSUME Ordered, NEW n \in Nat, NEW c, NEW base, NEW f, IsIter(f, c, base, 1..n)
  PROVE  \E g : IsIter(g, c, base, 1..n + 1)
<1> DEFINE N == n + 1
           g == [s \in SUBSET (1..N) |-> IF N \in s THEN Step(c, f[s \ {N}], N) ELSE f[s]]
<1>1. ASSUME NEW s \in SUBSET (1..N), s # {} PROVE g[s] = Step(c, g[s \ {Max(s)}], Max(s))
  <2>1. Max(s) \in s /\ \A k \in s : k <= Max(s)
    BY <1>1, MaxOfRows, N \in Nat
  <2>2. CASE N \in s
    <3>1. Max(s) = N
      <4>1. Max(s) \in 1..N /\ N <= Max(s)
        BY <2>1, <2>2
      <4> QED
        BY <4>1
    <3>2. g[s \ {N}] = f[s \ {N}]
      OBVIOUS
    <3> QED
      BY <2>2, <3>1, <3>2
  <2>3. CASE N \notin s
    <3>1. s \in SUBSET (1..n)
      BY <2>3
    <3>2. f[s] = Step(c, f[s \ {Max(s)}], Max(s))
      BY <1>1, <3>1 DEF IsIter
    <3>3. g[s] = f[s] /\ g[s \ {Max(s)}] = f[s \ {Max(s)}]
      BY <2>3
    <3> QED
      BY <3>2, <3>3
  <2> QED
    BY <2>2, <2>3
<1>2. g[{}] = base
  <2>1. f[{}] = base
    BY DEF IsIter
  <2> QED
    BY <2>1
<1> HIDE DEF g
<1>3. \A s \in SUBSET (1..N) :
        g[s] = IF s = {} THEN base ELSE Step(c, g[s \ {Max(s)}], Max(s))
  BY <1>1, <1>2
<1>4. g = [s \in SUBSET (1..N) |-> g[s]]
  BY DEF g
<1>5. g = [s \in SUBSET (1..N) |-> IF s = {} THEN base ELSE Step(c, g[s \ {Max(s)}], Max(s))]
  BY <1>3, <1>4
<1> QED
  BY <1>5 DEF IsIter

\* There is a fold over any number of elements.
LEMMA IterExists ==
  ASSUME Ordered, NEW c, NEW base
  PROVE  \A n \in Nat : \E f : IsIter(f, c, base, 1..n)
<1> DEFINE I == {n \in Nat : ~ \E f : IsIter(f, c, base, 1..n)}
<1> SUFFICES ASSUME I # {} PROVE FALSE
  OBVIOUS
<1>2. PICK m \in I : \A k \in I : m <= k
  <2> HIDE DEF I
  <2>1. I \in SUBSET Nat
    BY DEF I
  <2> QED
    BY <2>1 DEF Ordered
<1>3. CASE m = 0
  <2> DEFINE f == [s \in SUBSET (1..0) |-> base]
  <2>1. SUBSET (1..0) = {{}}
    OBVIOUS
  <2>2. f = [s \in SUBSET (1..0) |-> IF s = {} THEN base ELSE Step(c, f[s \ {Max(s)}], Max(s))]
    BY <2>1
  <2>3. IsIter(f, c, base, 1..0)
    BY <2>2 DEF IsIter
  <2> QED
    BY <1>2, <1>3, <2>3
<1>4. CASE m # 0
  <2>1. m - 1 \in Nat /\ m - 1 + 1 = m
    BY <1>2, <1>4
  <2>2. m - 1 \notin I
    BY <1>2, <2>1
  <2>3. PICK f : IsIter(f, c, base, 1..m - 1)
    BY <2>1, <2>2
  <2>4. \E g : IsIter(g, c, base, 1..m)
    BY <2>1, <2>3, IterGrows
  <2> QED
    BY <1>2, <2>4
<1> QED
  BY <1>3, <1>4


\* The fold of the first i elements is what element i makes of that before.
LEMMA IterSteps ==
  ASSUME Ordered, NEW c, NEW base, NEW n \in Nat, NEW f, IsIter(f, c, base, 1..n)
  PROVE  /\ f[1..0] = base
         /\ \A i \in 1..n : f[1..i] = Step(c, f[1..i - 1], i)
<1>1. \A s \in SUBSET (1..n) : f[s] = IF s = {} THEN base ELSE Step(c, f[s \ {Max(s)}], Max(s))
  BY DEF IsIter
<1>2. 1..0 \in SUBSET (1..n) /\ 1..0 = {}
  OBVIOUS
<1>3. ASSUME NEW i \in 1..n PROVE 1..i \in SUBSET (1..n) /\ 1..i # {} /\ i \in Nat /\ i # 0
  <2>1. i \in Nat /\ 1 <= i /\ i <= n
    OBVIOUS
  <2>2. i \in 1..i /\ \A k \in 1..i : k \in 1..n
    BY <2>1
  <2>3. 1..i \in SUBSET (1..n) /\ 1..i # {}
    BY <2>2, Zenon
  <2> QED
    BY <2>1, <2>3
<1>4. \A i \in 1..n : Max(1..i) = i /\ (1..i) \ {i} = 1..i - 1
  BY <1>3, MaxOfRange
<1> QED
  BY <1>1, <1>2, <1>3, <1>4

\* What is true at the start and handed on by each step is true after all of them.
LEMMA IterKeeps ==
  ASSUME Ordered, NEW c, NEW base, NEW n \in Nat, NEW f, IsIter(f, c, base, 1..n),
         Holds(c, base, 0),
         \A i \in 1..n : \A acc : Holds(c, acc, i - 1) => Holds(c, Step(c, acc, i), i)
  PROVE  Holds(c, f[1..n], n)
<1> DEFINE I == {i \in 0..n : ~ Holds(c, f[1..i], i)}
<1>1. f[1..0] = base
  BY IterSteps
<1>2. I = {}
  <2> SUFFICES ASSUME I # {} PROVE FALSE
    OBVIOUS
  <2>1. PICK m \in I : \A k \in I : m <= k
    <3> HIDE DEF I
    <3>1. I \in SUBSET Nat
      BY DEF I
    <3> QED
      BY <3>1 DEF Ordered
  <2>2. m \in 0..n /\ ~ Holds(c, f[1..m], m)
    OBVIOUS
  <2>3. m # 0
    BY <1>1, <2>2
  <2>4. m - 1 \in 0..n /\ m \in 1..n /\ m - 1 < m
    BY <2>2, <2>3
  <2>5. m - 1 \notin I
    <3> HIDE DEF I
    <3> QED
      BY <2>1, <2>4
  <2>6. Holds(c, f[1..m - 1], m - 1)
    BY <2>4, <2>5
  <2>7. f[1..m] = Step(c, f[1..m - 1], m)
    BY <2>4, IterSteps
  <2> QED
    BY <2>2, <2>4, <2>6, <2>7
<1>3. n \in 0..n
  OBVIOUS
<1>4. n \notin I
  BY <1>2
<1> QED
  BY <1>3, <1>4

\* The fold itself, as MapThenFoldSet of the community modules defines it.
Fold(c, base, D) == (CHOOSE f : IsIter(f, c, base, D))[D]

\* What is true at the start and handed on by each element is true at the end.
THEOREM FoldKeeps ==
  ASSUME \A I \in SUBSET Nat : I # {} => \E m \in I : \A k \in I : m <= k,
         NEW c, NEW base, NEW n \in Nat, Holds(c, base, 0),
         \A i \in 1..n : \A acc : Holds(c, acc, i - 1) => Holds(c, Step(c, acc, i), i)
  PROVE  Holds(c, Fold(c, base, 1..n), n)
<1> DEFINE f == CHOOSE g : IsIter(g, c, base, 1..n)
<1>0. Ordered
  BY DEF Ordered
<1>1. IsIter(f, c, base, 1..n)
  BY <1>0, IterExists
<1>2. Fold(c, base, 1..n) = f[1..n]
  BY DEF Fold
<1> HIDE DEF f
<1> QED
  BY <1>0, <1>1, <1>2, IterKeeps
===============================================================================
