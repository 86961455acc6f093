-------------------------- MODULE BubbleModel_proofs --------------------------
(***************************************************************************)
(* Proofs about BubbleModel for every set of bubbles and of bubble counts. *)
(* All four invariants are inductive together with the types; the lemmas   *)
(* say what taking a row out and putting a bubble on top do to a sequence. *)
(***************************************************************************)
EXTENDS BubbleModel, SequenceTheorems, TLAPS

-----------------------------------------------------------------------------
(* Sequences. *)

\* Taking out one element keeps the others, in order.
LEMMA WithoutFacts ==
  ASSUME NEW S, NEW s \in Seq(S), NEW i \in DOMAIN s
  PROVE  /\ Without(s, i) \in Seq(S)
         /\ Len(Without(s, i)) = Len(s) - 1
         /\ Listed(Without(s, i)) \subseteq Listed(s)
         /\ Distinct(s) => Distinct(Without(s, i))
<1> DEFINE n == Len(s) - 1
           t == Without(s, i)
<1>1. n \in Nat /\ DOMAIN s = 1..n + 1 /\ \A k \in 1..n + 1 : s[k] \in S
  OBVIOUS
<1>2. t = [j \in 1..n |-> IF j < i THEN s[j] ELSE s[j + 1]]
  BY DEF Without
<1>3. t \in Seq(S) /\ Len(t) = n /\ DOMAIN t = 1..n
  BY <1>1, <1>2
<1>4. \A j \in 1..n : t[j] = s[IF j < i THEN j ELSE j + 1]
  BY <1>2
<1>5. Listed(t) \subseteq Listed(s)
  BY <1>1, <1>3, <1>4 DEF Listed
<1>6. ASSUME Distinct(s) PROVE Distinct(t)
  <2> SUFFICES ASSUME NEW j \in 1..n, NEW k \in 1..n, t[j] = t[k]
               PROVE  j = k
    BY <1>3 DEF Distinct
  <2> DEFINE old(m) == IF m < i THEN m ELSE m + 1
  <2>1. old(j) \in DOMAIN s /\ old(k) \in DOMAIN s
    BY <1>1
  <2>2. s[old(j)] = s[old(k)]
    BY <1>4
  <2>3. old(j) = old(k)
    BY <1>6, <2>1, <2>2 DEF Distinct
  <2> QED
    BY <1>1, <2>3
<1> QED
  BY <1>3, <1>5, <1>6

\* A new element on top of a sequence of distinct elements.
LEMMA OnTopFacts ==
  ASSUME NEW S, NEW s \in Seq(S), NEW x \in S
  PROVE  /\ <<x>> \o s \in Seq(S)
         /\ Len(<<x>> \o s) = Len(s) + 1
         /\ Listed(<<x>> \o s) = {x} \cup Listed(s)
         /\ Distinct(s) /\ x \notin Listed(s) => Distinct(<<x>> \o s)
<1> DEFINE t == <<x>> \o s
<1>1. t \in Seq(S) /\ Len(t) = Len(s) + 1 /\ DOMAIN t = 1..Len(s) + 1
  OBVIOUS
<1>2. t[1] = x /\ \A j \in 1..Len(s) : t[j + 1] = s[j]
  OBVIOUS
<1>3. DOMAIN s = 1..Len(s) /\ Len(s) \in Nat
  OBVIOUS
<1>4. \A j \in DOMAIN t : t[j] = IF j = 1 THEN x ELSE s[j - 1]
  BY <1>1, <1>2, <1>3
<1> HIDE DEF t
<1>5. Listed(t) = {x} \cup Listed(s)
  <2>1. ASSUME NEW j \in DOMAIN t PROVE t[j] \in {x} \cup Listed(s)
    BY <1>1, <1>3, <1>4 DEF Listed
  <2>2. x \in Listed(t)
    BY <1>1, <1>2, <1>3 DEF Listed
  <2>3. ASSUME NEW j \in DOMAIN s PROVE s[j] \in Listed(t)
    BY <1>1, <1>2, <1>3 DEF Listed
  <2> QED
    BY <2>1, <2>2, <2>3 DEF Listed
<1>6. ASSUME Distinct(s), x \notin Listed(s) PROVE Distinct(t)
  BY <1>1, <1>3, <1>4, <1>6 DEF Distinct, Listed
<1> QED
  BY <1>1, <1>5, <1>6 DEF t

\* A new element at the end.
LEMMA AppendFacts ==
  ASSUME NEW S, NEW s \in Seq(S), NEW x \in S
  PROVE  /\ Append(s, x) \in Seq(S)
         /\ Listed(Append(s, x)) = {x} \cup Listed(s)
         /\ Distinct(s) /\ x \notin Listed(s) => Distinct(Append(s, x))
<1> DEFINE t == Append(s, x)
<1>1. t \in Seq(S) /\ DOMAIN t = 1..Len(s) + 1
  OBVIOUS
<1>2. t[Len(s) + 1] = x /\ \A j \in 1..Len(s) : t[j] = s[j]
  OBVIOUS
<1>3. DOMAIN s = 1..Len(s) /\ Len(s) \in Nat
  OBVIOUS
<1> HIDE DEF t
<1>4. Listed(t) = {x} \cup Listed(s)
  BY <1>1, <1>2, <1>3 DEF Listed
<1>5. ASSUME Distinct(s), x \notin Listed(s) PROVE Distinct(t)
  BY <1>1, <1>2, <1>3, <1>5 DEF Distinct, Listed
<1> QED
  BY <1>1, <1>4, <1>5 DEF t

\* The head of a sequence of distinct elements is not in its tail.
LEMMA TailFacts ==
  ASSUME NEW S, NEW s \in Seq(S), s # <<>>
  PROVE  /\ Head(s) \in S /\ Tail(s) \in Seq(S)
         /\ Head(s) \in Listed(s)
         /\ Listed(Tail(s)) \subseteq Listed(s)
         /\ Distinct(s) => Distinct(Tail(s)) /\ Head(s) \notin Listed(Tail(s))
<1> DEFINE t == Tail(s)
<1>1. Len(s) \in Nat /\ Len(s) > 0 /\ DOMAIN s = 1..Len(s)
  OBVIOUS
<1>2. t \in Seq(S) /\ DOMAIN t = 1..Len(s) - 1 /\ \A j \in 1..Len(s) - 1 : t[j] = s[j + 1]
  <2>1. t \in Seq(S) /\ Len(t) = Len(s) - 1
    OBVIOUS
  <2>2. DOMAIN t = 1..Len(t)
    BY <2>1
  <2>3. \A j \in 1..Len(s) - 1 : t[j] = s[j + 1]
    OBVIOUS
  <2> QED
    BY <2>1, <2>2, <2>3
<1>3. Head(s) = s[1] /\ Head(s) \in S
  OBVIOUS
<1> HIDE DEF t
<1>4. Head(s) \in Listed(s) /\ Listed(t) \subseteq Listed(s)
  BY <1>1, <1>2, <1>3 DEF Listed
<1>5. ASSUME Distinct(s) PROVE Distinct(t) /\ Head(s) \notin Listed(t)
  <2>1. ASSUME NEW i \in DOMAIN t, NEW j \in DOMAIN t, t[i] = t[j] PROVE i = j
    <3>1. i \in 1..Len(s) - 1 /\ j \in 1..Len(s) - 1 /\ s[i + 1] = s[j + 1]
      BY <1>2, <2>1
    <3>2. i + 1 \in DOMAIN s /\ j + 1 \in DOMAIN s
      BY <1>1, <3>1
    <3>3. i + 1 = j + 1
      BY <1>5, <3>1, <3>2 DEF Distinct
    <3> QED
      BY <3>1, <3>3
  <2>2. Head(s) \notin Listed(t)
    BY <1>1, <1>2, <1>3, <1>5 DEF Distinct, Listed
  <2> QED
    BY <2>1, <2>2 DEF Distinct
<1> QED
  BY <1>2, <1>3, <1>4, <1>5 DEF t

-----------------------------------------------------------------------------
(* The list. *)

\* insertBubble: the new bubble is on top, the others stay in order, and there are
\* never more rows than before or than m_maxKeep.
LEMMA InsertedFacts ==
  ASSUME TypeOK, NEW x \in Bubble
  PROVE  /\ Inserted(x) \in Seq(Bubble)
         /\ Listed(Inserted(x)) \subseteq {x} \cup Listed(m_bubbles)
         /\ Distinct(m_bubbles) /\ x \notin Listed(m_bubbles) => Distinct(Inserted(x))
         /\ Len(Inserted(x)) <= Len(m_bubbles) \/ Len(Inserted(x)) <= m_maxKeep
<1> DEFINE last == Len(m_bubbles)
           rest == Without(m_bubbles, last)
<1>1. m_bubbles \in Seq(Bubble) /\ last \in Nat
  BY DEF TypeOK
<1>2. m_maxKeep \in Nat /\ m_maxKeep > 0
  BY CountsAssumption DEF TypeOK
<1>3. CASE last >= m_maxKeep /\ m_bubbles # <<>>
  <2>1. last \in DOMAIN m_bubbles
    BY <1>1, <1>2, <1>3
  <2>2. /\ rest \in Seq(Bubble) /\ Len(rest) = last - 1
        /\ Listed(rest) \subseteq Listed(m_bubbles)
        /\ Distinct(m_bubbles) => Distinct(rest)
    BY <1>1, <2>1, WithoutFacts
  <2>3. Inserted(x) = <<x>> \o rest
    BY <1>3 DEF Inserted
  <2> HIDE DEF rest
  <2>4. /\ <<x>> \o rest \in Seq(Bubble)
        /\ Len(<<x>> \o rest) = Len(rest) + 1
        /\ Listed(<<x>> \o rest) = {x} \cup Listed(rest)
        /\ Distinct(rest) /\ x \notin Listed(rest) => Distinct(<<x>> \o rest)
    BY <2>2, OnTopFacts
  <2>5. Len(<<x>> \o rest) <= last
    BY <1>1, <2>2, <2>4
  <2> HIDE DEF last
  <2> QED
    BY <2>2, <2>3, <2>4, <2>5 DEF last
<1>4. CASE ~(last >= m_maxKeep /\ m_bubbles # <<>>)
  <2>1. last < m_maxKeep
    BY <1>1, <1>2, <1>4
  <2>2. Inserted(x) = <<x>> \o m_bubbles
    BY <1>4 DEF Inserted
  <2>3. /\ <<x>> \o m_bubbles \in Seq(Bubble)
        /\ Len(<<x>> \o m_bubbles) = last + 1
        /\ Listed(<<x>> \o m_bubbles) = {x} \cup Listed(m_bubbles)
        /\ Distinct(m_bubbles) /\ x \notin Listed(m_bubbles) => Distinct(<<x>> \o m_bubbles)
    BY <1>1, OnTopFacts
  <2>4. Len(<<x>> \o m_bubbles) <= m_maxKeep
    BY <1>1, <1>2, <2>1, <2>3
  <2> QED
    BY <2>2, <2>3, <2>4
<1> QED
  BY <1>3, <1>4

\* What holds of the list between two operations.
Inv == TypeOK /\ PendingHasTimer /\ OnePlace /\ RowsKept

LEMMA InvInit == Init => Inv
<1> SUFFICES ASSUME Init PROVE Inv
  OBVIOUS
<1>1. TypeOK
  <2>1. m_processPendingTimer \in BOOLEAN /\ m_updateTimeTipTimer \in BOOLEAN
    BY Zenon DEF Init
  <2> QED
    BY <2>1 DEF Init, TypeOK
<1>2. PendingHasTimer
  BY DEF Init, PendingHasTimer
<1>3. OnePlace
  BY DEF Init, OnePlace, Distinct, Listed
<1>4. RowsKept
  BY CountsAssumption DEF Init, RowsKept
<1> QED
  BY <1>1, <1>2, <1>3, <1>4 DEF Inv

\* A list that did not grow past its limit or its old length keeps RowsKept.
LEMMA RowsStayKept ==
  ASSUME TypeOK, RowsKept, m_bubbles' \in Seq(Bubble),
         Len(m_bubbles') <= Len(m_bubbles) \/ Len(m_bubbles') <= m_maxKeep
  PROVE  RowsKept'
<1>1. Len(m_bubbles) \in Nat /\ Len(m_bubbles') \in Nat
  BY DEF TypeOK
<1>2. PICK k \in BubbleCounts : m_maxKeep = k + 2
  BY DEF TypeOK
<1>3. PICK n \in BubbleCounts : Len(m_bubbles) <= n + 2
  BY DEF RowsKept
<1>4. k \in Nat /\ n \in Nat
  BY CountsAssumption
<1>5. Len(m_bubbles') <= n + 2 \/ Len(m_bubbles') <= k + 2
  BY <1>1, <1>2, <1>3, <1>4
<1> QED
  BY <1>5 DEF RowsKept

\* push
LEMMA PushStep ==
  ASSUME Inv, NEW x \in Bubble, New(x), Push(x)
  PROVE  Inv'
<1> USE DEF Inv
<1>1. x \notin Listed(m_bubbles) /\ x \notin Listed(m_pendingBubbles)
  BY DEF New
<1>2. m_updateTimeTipTimer' \in BOOLEAN /\ m_processPendingTimer' \in BOOLEAN
  BY Zenon DEF Push, TypeOK
<1>3. CASE m_processPendingTimer
  <2>1. /\ m_pendingBubbles' = Append(m_pendingBubbles, x)
        /\ m_bubbles' = m_bubbles /\ m_maxKeep' = m_maxKeep
        /\ m_processPendingTimer'
    BY <1>3 DEF Push
  <2>2. /\ m_pendingBubbles' \in Seq(Bubble)
        /\ Listed(m_pendingBubbles') = {x} \cup Listed(m_pendingBubbles)
        /\ Distinct(m_pendingBubbles) => Distinct(m_pendingBubbles')
    BY <1>1, <2>1, AppendFacts DEF TypeOK
  <2>3. TypeOK'
    BY <1>2, <2>1, <2>2 DEF TypeOK
  <2>4. PendingHasTimer'
    BY <2>1 DEF PendingHasTimer
  <2>5. OnePlace'
    BY <1>1, <2>1, <2>2 DEF OnePlace
  <2>6. RowsKept'
    BY <2>1 DEF RowsKept
  <2> QED
    BY <2>3, <2>4, <2>5, <2>6
<1>4. CASE ~m_processPendingTimer
  <2>1. /\ m_bubbles' = Inserted(x) /\ m_processPendingTimer'
        /\ m_pendingBubbles' = m_pendingBubbles /\ m_maxKeep' = m_maxKeep
    BY <1>4 DEF Push
  <2>2. /\ m_bubbles' \in Seq(Bubble)
        /\ Listed(m_bubbles') \subseteq {x} \cup Listed(m_bubbles)
        /\ Distinct(m_bubbles) => Distinct(m_bubbles')
        /\ Len(m_bubbles') <= Len(m_bubbles) \/ Len(m_bubbles') <= m_maxKeep
    BY <1>1, <2>1, InsertedFacts
  <2>3. TypeOK'
    BY <1>2, <2>1, <2>2 DEF TypeOK
  <2>4. PendingHasTimer'
    BY <2>1 DEF PendingHasTimer
  <2>5. OnePlace'
    BY <1>1, <2>1, <2>2 DEF OnePlace
  <2>6. RowsKept'
    BY <2>2, RowsStayKept
  <2> QED
    BY <2>3, <2>4, <2>5, <2>6
<1> QED
  BY <1>3, <1>4

\* The timeout of m_processPendingTimer: the head of the queue moves to the top.
LEMMA ProcessPendingStep ==
  ASSUME Inv, ProcessPending
  PROVE  Inv'
<1> USE DEF Inv
<1>1. m_updateTimeTipTimer' \in BOOLEAN /\ m_processPendingTimer' \in BOOLEAN
  BY Zenon DEF ProcessPending, TypeOK
<1>2. m_maxKeep' = m_maxKeep
  BY DEF ProcessPending
<1>3. CASE m_pendingBubbles # <<>>
  <2> DEFINE x == Head(m_pendingBubbles)
  <2>1. /\ m_pendingBubbles' = Tail(m_pendingBubbles) /\ m_bubbles' = Inserted(x)
        /\ m_processPendingTimer'
    BY <1>3 DEF ProcessPending
  <2>2. /\ x \in Bubble /\ m_pendingBubbles' \in Seq(Bubble)
        /\ x \in Listed(m_pendingBubbles)
        /\ Listed(m_pendingBubbles') \subseteq Listed(m_pendingBubbles)
        /\ Distinct(m_pendingBubbles) =>
             Distinct(m_pendingBubbles') /\ x \notin Listed(m_pendingBubbles')
    BY <1>3, <2>1, TailFacts DEF TypeOK
  <2> HIDE DEF x
  <2>3. x \notin Listed(m_bubbles)
    BY <2>2 DEF OnePlace
  <2>4. /\ m_bubbles' \in Seq(Bubble)
        /\ Listed(m_bubbles') \subseteq {x} \cup Listed(m_bubbles)
        /\ Distinct(m_bubbles) => Distinct(m_bubbles')
        /\ Len(m_bubbles') <= Len(m_bubbles) \/ Len(m_bubbles') <= m_maxKeep
    BY <2>1, <2>2, <2>3, InsertedFacts
  <2>5. TypeOK'
    BY <1>1, <1>2, <2>2, <2>4 DEF TypeOK
  <2>6. PendingHasTimer'
    BY <2>1 DEF PendingHasTimer
  <2>7. OnePlace'
    BY <2>2, <2>4 DEF OnePlace
  <2>8. RowsKept'
    BY <2>4, RowsStayKept
  <2> QED
    BY <2>5, <2>6, <2>7, <2>8
<1>4. CASE m_pendingBubbles = <<>>
  <2>1. m_pendingBubbles' = m_pendingBubbles /\ m_bubbles' = m_bubbles
    BY <1>4 DEF ProcessPending
  <2>2. TypeOK'
    BY <1>1, <1>2, <2>1 DEF TypeOK
  <2>3. PendingHasTimer' /\ OnePlace' /\ RowsKept'
    BY <1>4, <2>1 DEF PendingHasTimer, OnePlace, RowsKept
  <2> QED
    BY <2>2, <2>3
<1> QED
  BY <1>3, <1>4

\* replaceBubble: a row changes its bubble.
LEMMA ReplaceStep ==
  ASSUME Inv, NEW x \in Bubble, NEW i \in DOMAIN m_bubbles, New(x), ReplaceBubble(x, i)
  PROVE  Inv'
<1> USE DEF Inv
<1>1. x \notin Listed(m_bubbles) /\ x \notin Listed(m_pendingBubbles)
  BY DEF New
<1>2. /\ m_bubbles' = [m_bubbles EXCEPT ![i] = x]
      /\ UNCHANGED <<m_pendingBubbles, m_processPendingTimer, m_updateTimeTipTimer, m_maxKeep>>
  BY DEF ReplaceBubble
<1>3. /\ m_bubbles' \in Seq(Bubble) /\ Len(m_bubbles') = Len(m_bubbles)
      /\ Listed(m_bubbles') \subseteq {x} \cup Listed(m_bubbles)
      /\ Distinct(m_bubbles) => Distinct(m_bubbles')
  <2>1. m_bubbles \in Seq(Bubble)
    BY DEF TypeOK
  <2>2. m_bubbles' \in Seq(Bubble) /\ Len(m_bubbles') = Len(m_bubbles)
    BY <1>2, <2>1
  <2>3. \A j \in DOMAIN m_bubbles : m_bubbles'[j] = IF j = i THEN x ELSE m_bubbles[j]
    BY <1>2, <2>1
  <2>4. DOMAIN m_bubbles' = DOMAIN m_bubbles
    BY <2>1, <2>2
  <2>5. Listed(m_bubbles') \subseteq {x} \cup Listed(m_bubbles)
    BY <2>3, <2>4 DEF Listed
  <2>6. ASSUME Distinct(m_bubbles) PROVE Distinct(m_bubbles')
    BY <1>1, <2>3, <2>4, <2>6 DEF Distinct, Listed
  <2> QED
    BY <2>2, <2>5, <2>6
<1>4. TypeOK' /\ PendingHasTimer'
  BY <1>2, <1>3 DEF TypeOK, PendingHasTimer
<1>5. OnePlace'
  BY <1>1, <1>2, <1>3 DEF OnePlace
<1>6. RowsKept'
  BY <1>3 DEF RowsKept
<1> QED
  BY <1>4, <1>5, <1>6

\* remove: a row goes.
LEMMA RemoveStep ==
  ASSUME Inv, NEW i \in DOMAIN m_bubbles, Remove(i)
  PROVE  Inv'
<1> USE DEF Inv
<1>1. /\ m_bubbles' = Without(m_bubbles, i)
      /\ UNCHANGED <<m_pendingBubbles, m_processPendingTimer, m_updateTimeTipTimer, m_maxKeep>>
  BY DEF Remove
<1>2. /\ m_bubbles' \in Seq(Bubble) /\ Len(m_bubbles') = Len(m_bubbles) - 1
      /\ Listed(m_bubbles') \subseteq Listed(m_bubbles)
      /\ Distinct(m_bubbles) => Distinct(m_bubbles')
  BY <1>1, WithoutFacts DEF TypeOK
<1>3. TypeOK' /\ PendingHasTimer'
  BY <1>1, <1>2 DEF TypeOK, PendingHasTimer
<1>4. OnePlace'
  BY <1>1, <1>2 DEF OnePlace
<1>5. Len(m_bubbles') <= Len(m_bubbles)
  BY <1>2 DEF TypeOK
<1>6. RowsKept'
  BY <1>2, <1>5, RowsStayKept
<1> QED
  BY <1>3, <1>4, <1>6

\* Every step keeps the invariant; the time-tip timer and the setting touch no row.
LEMMA InvStep ==
  ASSUME Inv, [Next]_vars
  PROVE  Inv'
<1>1. ASSUME NEW x \in Bubble, New(x), Push(x) PROVE Inv'
  BY <1>1, PushStep
<1>2. ASSUME NEW x \in Bubble, NEW i \in DOMAIN m_bubbles, New(x), ReplaceBubble(x, i) PROVE Inv'
  BY <1>2, ReplaceStep
<1>3. ASSUME NEW i \in DOMAIN m_bubbles, Remove(i) PROVE Inv'
  BY <1>3, RemoveStep
<1>4. CASE ProcessPending
  BY <1>4, ProcessPendingStep
<1>5. CASE UpdateTimeTip
  <2>1. m_updateTimeTipTimer' \in BOOLEAN
    BY <1>5, Zenon DEF UpdateTimeTip
  <2> QED
    BY <1>5, <2>1 DEF Inv, UpdateTimeTip, TypeOK, PendingHasTimer, OnePlace, RowsKept
<1>6. ASSUME NEW n \in BubbleCounts, UpdateBubbleCount(n) PROVE Inv'
  BY <1>6 DEF Inv, UpdateBubbleCount, TypeOK, PendingHasTimer, OnePlace, RowsKept
<1>7. CASE UNCHANGED vars
  BY <1>7 DEF Inv, vars, TypeOK, PendingHasTimer, OnePlace, RowsKept
<1> QED
  BY <1>1, <1>2, <1>3, <1>4, <1>5, <1>6, <1>7 DEF Next

LEMMA InvHolds == Spec => []Inv
  BY InvInit, InvStep, PTL DEF Spec

\* The rows and the queue hold bubbles, and the limit is a count of the settings
\* plus two.
THEOREM TypeCorrect == Spec => []TypeOK
<1>1. Inv => TypeOK
  BY DEF Inv
<1> QED
  BY <1>1, InvHolds, PTL

\* m_pendingBubbles: a waiting bubble has a running timer that will let it in.
THEOREM PendingKeepsTimer == Spec => []PendingHasTimer
<1>1. Inv => PendingHasTimer
  BY DEF Inv
<1> QED
  BY <1>1, InvHolds, PTL

\* A bubble item is in one row or at one place of the queue, never in two.
THEOREM PlacesAreSingle == Spec => []OnePlace
<1>1. Inv => OnePlace
  BY DEF Inv
<1> QED
  BY <1>1, InvHolds, PTL

\* m_maxKeep: the rows stay within the largest limit, though the limit changes
\* at any time and drops no row itself.
THEOREM RowsStayWithin == Spec => []RowsKept
<1>1. Inv => RowsKept
  BY DEF Inv
<1> QED
  BY <1>1, InvHolds, PTL
=============================================================================
