----------------------------- MODULE BubbleModel -----------------------------
(***************************************************************************)
(* The list of notification banners (bubbles).  New bubbles enter at most  *)
(* one per period of m_processPendingTimer (300 ms); in between they wait  *)
(* in m_pendingBubbles.  A bubble that replaces a listed one takes its row *)
(* at once; rows past m_maxKeep are dropped when a bubble enters.          *)
(*                                                                         *)
(* The module says what the operations do to the list; which bubble        *)
(* replaces which, and which is closed, is up to BubblePanel.              *)
(***************************************************************************)
EXTENDS Naturals, Sequences

CONSTANTS
  Bubble,        \* bubble items
  BubbleCounts   \* values of NotifySetting::bubbleCount

ASSUME CountsAssumption == BubbleCounts \subseteq Nat /\ BubbleCounts # {}

VARIABLES
  m_bubbles,             \* rows, newest first
  m_pendingBubbles,      \* queue
  m_processPendingTimer, \* TRUE while it runs
  m_updateTimeTipTimer,  \* TRUE while it runs
  m_maxKeep

vars == <<m_bubbles, m_pendingBubbles, m_processPendingTimer, m_updateTimeTipTimer, m_maxKeep>>

Listed(s) == {s[i] : i \in DOMAIN s}
Distinct(s) == \A i, j \in DOMAIN s : s[i] = s[j] => i = j
Without(s, i) == [j \in 1..Len(s) - 1 |-> IF j < i THEN s[j] ELSE s[j + 1]]

\* removeById: s without its first bubble of B.
WithoutFirst(s, B) ==
  IF Listed(s) \cap B = {} THEN s
  ELSE Without(s, CHOOSE i \in DOMAIN s : s[i] \in B /\ \A j \in 1..i-1 : s[j] \notin B)

\* Mutant of Inserted: no row makes room.
InsertedUnbounded(x) == <<x>> \o m_bubbles

\* insertBubble: at the top; the last row makes room.
Inserted(x) ==
  <<x>> \o IF Len(m_bubbles) >= m_maxKeep /\ m_bubbles # <<>>
           THEN Without(m_bubbles, Len(m_bubbles)) ELSE m_bubbles

Push(x) ==
  /\ m_updateTimeTipTimer' = TRUE
  /\ IF m_processPendingTimer
     THEN /\ m_pendingBubbles' = Append(m_pendingBubbles, x)
          /\ UNCHANGED <<m_bubbles, m_processPendingTimer>>
     ELSE /\ m_bubbles' = Inserted(x)
          /\ m_processPendingTimer' = TRUE
          /\ UNCHANGED m_pendingBubbles
  /\ UNCHANGED m_maxKeep

\* Mutants of ProcessPending: the timer is not started again; the bubble that
\* enters stays in the queue.
ProcessPendingOnce ==
  /\ m_processPendingTimer
  /\ m_processPendingTimer' = FALSE
  /\ IF m_pendingBubbles # <<>>
     THEN /\ m_pendingBubbles' = Tail(m_pendingBubbles)
          /\ m_bubbles' = Inserted(Head(m_pendingBubbles))
     ELSE UNCHANGED <<m_pendingBubbles, m_bubbles>>
  /\ UNCHANGED <<m_updateTimeTipTimer, m_maxKeep>>
ProcessPendingPeeks ==
  /\ m_processPendingTimer
  /\ m_pendingBubbles # <<>>
  /\ m_bubbles' = Inserted(Head(m_pendingBubbles))
  /\ UNCHANGED <<m_pendingBubbles, m_processPendingTimer, m_updateTimeTipTimer, m_maxKeep>>

\* The timeout of m_processPendingTimer: one bubble enters and the timer runs
\* again, or nothing waits and it stays off.
ProcessPending ==
  /\ m_processPendingTimer
  /\ IF m_pendingBubbles # <<>>
     THEN /\ m_pendingBubbles' = Tail(m_pendingBubbles)
          /\ m_bubbles' = Inserted(Head(m_pendingBubbles))
          /\ UNCHANGED m_processPendingTimer
     ELSE /\ m_processPendingTimer' = FALSE
          /\ UNCHANGED <<m_pendingBubbles, m_bubbles>>
  /\ UNCHANGED <<m_updateTimeTipTimer, m_maxKeep>>

\* replaceBubble(x) in row i; the bubble that was there is deleted.
ReplaceBubble(x, i) ==
  /\ i \in DOMAIN m_bubbles
  /\ m_bubbles' = [m_bubbles EXCEPT ![i] = x]
  /\ UNCHANGED <<m_pendingBubbles, m_processPendingTimer, m_updateTimeTipTimer, m_maxKeep>>

\* remove(i)
Remove(i) ==
  /\ i \in DOMAIN m_bubbles
  /\ m_bubbles' = Without(m_bubbles, i)
  /\ UNCHANGED <<m_pendingBubbles, m_processPendingTimer, m_updateTimeTipTimer, m_maxKeep>>

\* updateBubbleTimeTip, the timeout of m_updateTimeTipTimer.
UpdateTimeTip ==
  /\ m_updateTimeTipTimer
  /\ m_bubbles = <<>>
  /\ m_updateTimeTipTimer' = FALSE
  /\ UNCHANGED <<m_bubbles, m_pendingBubbles, m_processPendingTimer, m_maxKeep>>

\* Mutant of UpdateBubbleCount: the two folded rows are forgotten.
UpdateBubbleCountBare(n) ==
  /\ m_maxKeep' = n
  /\ UNCHANGED <<m_bubbles, m_pendingBubbles, m_processPendingTimer, m_updateTimeTipTimer>>

\* updateBubbleCount: rows beyond the new limit stay.
UpdateBubbleCount(n) ==
  /\ m_maxKeep' = n + 2
  /\ UNCHANGED <<m_bubbles, m_pendingBubbles, m_processPendingTimer, m_updateTimeTipTimer>>

Init ==
  /\ m_bubbles = <<>>
  /\ m_pendingBubbles = <<>>
  /\ m_processPendingTimer = FALSE
  /\ m_updateTimeTipTimer = FALSE
  /\ m_maxKeep \in {n + 2 : n \in BubbleCounts}

\* A bubble item is new when the panel hands it over.
New(x) == x \notin Listed(m_bubbles) \cup Listed(m_pendingBubbles)

Next ==
  \/ \E x \in Bubble : New(x) /\ Push(x)
  \/ \E x \in Bubble, i \in DOMAIN m_bubbles : New(x) /\ ReplaceBubble(x, i)
  \/ \E i \in DOMAIN m_bubbles : Remove(i)
  \/ ProcessPending
  \/ UpdateTimeTip
  \/ \E n \in BubbleCounts : UpdateBubbleCount(n)

Spec == Init /\ [][Next]_vars
FairSpec == Spec /\ WF_vars(ProcessPending)

-----------------------------------------------------------------------------
TypeOK ==
  /\ m_bubbles \in Seq(Bubble)
  /\ m_pendingBubbles \in Seq(Bubble)
  /\ m_processPendingTimer \in BOOLEAN
  /\ m_updateTimeTipTimer \in BOOLEAN
  /\ m_maxKeep \in {n + 2 : n \in BubbleCounts}

\* A waiting bubble has a timer that will let it in: push queues only while the
\* timer runs, and the timer stops only on an empty queue.
PendingHasTimer == m_pendingBubbles # <<>> => m_processPendingTimer

\* A bubble item is deleted with its row, so no item may have two places.
OnePlace ==
  /\ Distinct(m_bubbles) /\ Distinct(m_pendingBubbles)
  /\ Listed(m_bubbles) \cap Listed(m_pendingBubbles) = {}

\* The list keeps no more rows than the largest count the user ever chose, plus
\* the two of the folded stack ("max keep folds").
RowsKept == \E n \in BubbleCounts : Len(m_bubbles) <= n + 2

\* A bubble that waits is let in, whatever is closed meanwhile.
PendingEnters ==
  \A x \in Bubble : x \in Listed(m_pendingBubbles) ~> x \notin Listed(m_pendingBubbles)
=============================================================================
