-------------------------- MODULE BubblePanel_proofs --------------------------
(***************************************************************************)
(* Theorems about NotificationManager, the notification server, and then   *)
(* about BubblePanel, which is composed with it.  They hold for every value*)
(* of the constants.                                                       *)
(***************************************************************************)
EXTENDS BubblePanel, FiniteSetTheorems, SequenceTheorems, TLAPS

USE DEF Note, NotPending, InvalidId, Never, TimerOff, Threads

-----------------------------------------------------------------------------
(* Helpers.                                                                *)

\* Least returns a least element of a non-empty set of naturals: the intervals
\* 0..x, for x in the set, are finite and well-founded under strict inclusion.
LEMMA LeastOfNonempty ==
  ASSUME NEW S \in SUBSET Nat, S # {}
  PROVE  Least(S) \in S /\ \A y \in S : Least(S) <= y
<1> DEFINE T == {0..x : x \in S}
<1>1. T \subseteq FiniteSubsetsOf(Nat) /\ T # {}
  <2>1. \A x \in S : 0..x \in SUBSET Nat
    OBVIOUS
  <2>2. \A x \in S : IsFiniteSet(0..x)
    BY FS_Interval
  <2> QED
    BY <2>1, <2>2 DEF FiniteSubsetsOf
<1>2. PICK I \in T : \A J \in T : ~ (<<J, I>> \in StrictSubsetOrdering(Nat))
  BY <1>1, WFMin, FS_StrictSubsetOrderingWellFounded
<1>3. PICK x \in S : I = 0..x
  OBVIOUS
<1>4. ASSUME NEW y \in S PROVE x <= y
  <2>1. ~ (<<0..y, 0..x>> \in StrictSubsetOrdering(Nat))
    BY <1>2, <1>3
  <2>2. SUFFICES ASSUME y < x PROVE FALSE
    OBVIOUS
  <2>3. (0..y) \subseteq (0..x) /\ (0..y) # (0..x)
    BY <2>2
  <2>4. (0..y) \in SUBSET Nat /\ (0..x) \in SUBSET Nat
    OBVIOUS
  <2> QED
    BY <2>1, <2>3, <2>4 DEF StrictSubsetOrdering
<1> QED
  BY <1>4 DEF Least

\* An entity of the heap keeps its sort when its id and type are set.
LEMMA SetFields ==
  ASSUME NEW f \in [Note -> Entities], NEW n \in Note, NEW i \in Int,
         NEW ty \in {"None", "NotProcessed", "Processed", "Removed"}
  PROVE  /\ [f EXCEPT ![n].type = ty] \in [Note -> Entities]
         /\ [f EXCEPT ![n].type = ty, ![n].id = i] \in [Note -> Entities]
BY DEF Entities

-----------------------------------------------------------------------------
(* What a call that handles expiries leaves behind.                        *)

Delays == {NotPending} \cup 0..MaxDelay

\* No expiry is pending for a notification that does not exist yet.
OnlyCreated(d, c) == \A n \in Note : d[n] # NotPending => n \in 1..c

\* Whatever is pending, and whatever lastTimeoutPoint stands for, a start call
\* is queued.
StartQueued ==
  /\ (\E n \in Note : due'[n] # NotPending) => starts' # <<>>
  /\ lastTimeoutPoint' # Never => starts' # <<>>

\* Nothing comes to be pending, or to be the work of a thread, but what was
\* pending in d or is in work.
NothingAdded(d, work) ==
  /\ \A n \in Note : due'[n] # NotPending => d[n] # NotPending
  /\ \A s \in Threads : \A n \in todo'[s] : n \in work[s] \/ (n \in Note /\ d[n] # NotPending)

\* The variables of expiry are of their sort after a step.
ExpiryTypes(c) ==
  /\ due' \in [Note -> Delays]
  /\ OnlyCreated(due', c)
  /\ lastTimeoutPoint' \in 0..Never
  /\ starts' \in Seq(1..MaxDelay)
  /\ todo' \in [Threads -> SUBSET (1..c)]

\* What something was appended to has an element.
LEMMA AppendNotEmpty ==
  ASSUME NEW S, NEW s \in Seq(S), NEW e \in S
  PROVE  Append(s, e) # <<>>
  BY AppendProperties

\* onHandingPendingEntities keeps the sorts, queues a start call for what it
\* leaves pending, and forgets nothing.
LEMMA HandPendingFacts ==
  ASSUME NEW t \in Threads, NEW c \in Nat, NEW d \in [Note -> Delays], OnlyCreated(d, c),
         NEW work \in [Threads -> SUBSET (1..c)],
         starts \in Seq(1..MaxDelay),
         HandPending(t, d, work)
  PROVE  /\ ExpiryTypes(c)
         /\ StartQueued
         /\ \A n \in Note : d[n] # NotPending => due'[n] # NotPending \/ n \in todo'[t]
         /\ \A s \in Threads : work[s] \subseteq todo'[s]
         /\ NothingAdded(d, work)
<1> DEFINE rest == {d[n] : n \in {m \in Note : d[m] > 0}}
<1> USE BoundsAssumption
<1>1. rest \in SUBSET (1..MaxDelay)
  BY DEF Delays
<1>2. rest # {} => Least(rest) \in 1..MaxDelay
  <2> HIDE DEF rest
  <2>1. rest \in SUBSET Nat
    BY <1>1
  <2>2. rest # {} => Least(rest) \in rest
    BY <2>1, LeastOfNonempty
  <2> QED
    BY <1>1, <2>2
<1>3. /\ due' = [n \in Note |-> IF d[n] = 0 THEN NotPending ELSE d[n]]
      /\ todo' = [work EXCEPT ![t] = @ \cup {n \in Note : d[n] = 0}]
      /\ rest = {} => lastTimeoutPoint' = Never /\ starts' = starts
      /\ rest # {} => /\ lastTimeoutPoint' = Least(rest)
                      /\ starts' = Append(starts, Least(rest))
  BY DEF HandPending
<1>4. due' \in [Note -> Delays] /\ OnlyCreated(due', c)
  BY <1>3 DEF Delays, OnlyCreated
<1>5. todo' \in [Threads -> SUBSET (1..c)]
  BY <1>3 DEF OnlyCreated
<1>6. starts' \in Seq(1..MaxDelay) /\ lastTimeoutPoint' \in 0..Never
  <2> HIDE DEF rest
  <2>1. CASE rest = {}
    BY <2>1, <1>3
  <2>2. CASE rest # {}
    <3> DEFINE least == Least(rest)
    <3>1. least \in 1..MaxDelay
      BY <2>2, <1>2
    <3>2. lastTimeoutPoint' = least /\ starts' = Append(starts, least)
      BY <2>2, <1>3
    <3> HIDE DEF least
    <3> QED
      BY <3>1, <3>2, AppendProperties
  <2> QED
    BY <2>1, <2>2
<1>7. StartQueued
  <2>1. CASE rest = {}
    <3>1. \A n \in Note : ~(d[n] > 0)
      <4>1. \A n \in Note : d[n] > 0 => d[n] \in rest
        OBVIOUS
      <4> QED
        BY <2>1, <4>1
    <3>2. \A n \in Note : due'[n] = NotPending
      BY <3>1, <1>3 DEF Delays
    <3> QED
      BY <2>1, <3>2, <1>3 DEF StartQueued
  <2>2. CASE rest # {}
    <3> DEFINE least == Least(rest)
    <3>1. least \in 1..MaxDelay /\ starts' = Append(starts, least)
      BY <2>2, <1>2, <1>3
    <3> HIDE DEF rest, least
    <3>2. Append(starts, least) # <<>>
      BY <3>1, AppendNotEmpty
    <3> QED
      BY <3>1, <3>2, Zenon DEF StartQueued
  <2> QED
    BY <2>1, <2>2
<1>8. \A n \in Note : d[n] # NotPending => due'[n] # NotPending \/ n \in todo'[t]
  BY <1>3
<1>9. \A s \in Threads : work[s] \subseteq todo'[s]
  BY <1>3
<1>10. NothingAdded(d, work)
  BY <1>3 DEF NothingAdded
<1> QED
  BY <1>4, <1>5, <1>6, <1>7, <1>8, <1>9, <1>10 DEF ExpiryTypes

\* removePendingEntity: the same, but for the one entry that it erases; without
\* a match it does nothing.
LEMMA RemovePendingFacts ==
  ASSUME NEW t \in Threads, NEW c \in Nat, due \in [Note -> Delays], OnlyCreated(due, c),
         NEW work \in [Threads -> SUBSET (1..c)],
         starts \in Seq(1..MaxDelay), lastTimeoutPoint \in 0..Never,
         NEW id, NEW replace, NEW b,
         RemovePending(t, id, replace, b, work)
  PROVE  /\ ExpiryTypes(c)
         /\ \/ StartQueued
            \/ PendingOf(id, replace, b) = {} /\ UNCHANGED expiry
         /\ \A n \in Note : due[n] # NotPending /\ n \notin PendingOf(id, replace, b)
              => due'[n] # NotPending \/ n \in todo'[t]
         /\ \A s \in Threads : work[s] \subseteq todo'[s]
         /\ NothingAdded(due, work)
<1> DEFINE found == PendingOf(id, replace, b)
<1> HIDE DEF found
<1>1. CASE found = {}
  <2>1. todo' = work /\ UNCHANGED expiry
    BY <1>1 DEF found, RemovePending
  <2>2. due' = due /\ lastTimeoutPoint' = lastTimeoutPoint /\ starts' = starts
    BY <2>1 DEF expiry
  <2> QED
    BY <1>1, <2>1, <2>2 DEF found, ExpiryTypes, OnlyCreated, NothingAdded
<1>2. CASE found # {}
  <2>1. PICK n \in found : HandPending(t, [due EXCEPT ![n] = NotPending], work)
    BY <1>2 DEF found, RemovePending
  <2>2. n \in Note
    BY DEF found, PendingOf
  <2> DEFINE d == [due EXCEPT ![n] = NotPending]
  <2>3. d \in [Note -> Delays] /\ OnlyCreated(d, c)
    BY <2>2 DEF Delays, OnlyCreated
  <2>4. \A m \in Note : /\ due[m] # NotPending /\ m \notin found => d[m] # NotPending
                        /\ d[m] # NotPending => due[m] # NotPending
    BY <2>1
  <2> HIDE DEF d
  <2>5. HandPending(t, d, work)
    BY <2>1 DEF d
  <2>6. /\ ExpiryTypes(c)
        /\ StartQueued
        /\ \A m \in Note : d[m] # NotPending => due'[m] # NotPending \/ m \in todo'[t]
        /\ \A s \in Threads : work[s] \subseteq todo'[s]
        /\ NothingAdded(d, work)
    BY <2>3, <2>5, HandPendingFacts
  <2>7. NothingAdded(due, work)
    BY <2>3, <2>4, <2>6 DEF NothingAdded
  <2> QED
    BY <2>4, <2>6, <2>7 DEF found
<1> QED
  BY <1>1, <1>2

-----------------------------------------------------------------------------
(* What a step does to the stores.                                         *)

Types == {"None", "NotProcessed", "Processed", "Removed"}

\* A banner leaves memory for good, it is filed, or rows are removed.
Dropped(n) ==
  /\ n \in memory /\ memory' = memory \ {n}
  /\ \E ty \in {"Processed", "Removed"} :
       /\ note' = [note EXCEPT ![n].type = ty]
       /\ ty = "Removed" \/ note[n].content.hint # "show" \/ note[n].content.bluetooth
  /\ UNCHANGED <<count, db, memoryIds, rowIds, replacesCount>>

Filed(n) ==
  /\ n \in memory /\ memory' = memory \ {n}
  /\ db' = db \cup {n} /\ rowIds' = rowIds + 1
  /\ note' = [note EXCEPT ![n].type = "Processed", ![n].id = rowIds + 1]
  /\ UNCHANGED <<count, memoryIds, replacesCount>>

RowsGone == db' \subseteq db /\ UNCHANGED <<count, note, memory, memoryIds, rowIds, replacesCount>>

Leaving(n) == Dropped(n) \/ Filed(n) \/ (n \in db /\ RowsGone)

\* The type invariant, with the fact about pending expiries it rests on.
TypeInv == TypeOK /\ OnlyCreated(due, count)

StoreTypes(c) ==
  /\ note' \in [Note -> Entities]
  /\ memory' \subseteq 1..c /\ db' \subseteq 1..c
  /\ memoryIds' \in Nat /\ rowIds' \in Nat /\ replacesCount' \in Nat

LEMMA ClosingTypes ==
  ASSUME TypeOK, NEW n \in Note, Leaving(n)
  PROVE  StoreTypes(count) /\ count' = count
<1>1. CASE Dropped(n)
  <2>1. PICK ty \in {"Processed", "Removed"} : note' = [note EXCEPT ![n].type = ty]
    BY <1>1 DEF Dropped
  <2>2. note' \in [Note -> Entities]
    BY <2>1, SetFields DEF TypeOK
  <2> QED
    BY <1>1, <2>2 DEF Dropped, StoreTypes, TypeOK
<1>2. CASE Filed(n)
  <2>1. rowIds + 1 \in Int /\ note' = [note EXCEPT ![n].type = "Processed", ![n].id = rowIds + 1]
    BY <1>2 DEF Filed, TypeOK
  <2>2. note' \in [Note -> Entities]
    BY <2>1, SetFields DEF TypeOK
  <2> QED
    BY <1>2, <2>2 DEF Filed, StoreTypes, TypeOK
<1>3. CASE RowsGone
  BY <1>3 DEF RowsGone, StoreTypes, TypeOK
<1> QED
  BY <1>1, <1>2, <1>3 DEF Leaving

\* What updateEntityProcessed(entity) amounts to.
UpdateEffect(t, n, work) ==
  /\ Leaving(n)
  /\ ExpiryTypes(count)
  /\ \/ StartQueued
     \/ PendingOf(note'[n].id, note[n].replace, note[n].bubble) = {} /\ UNCHANGED expiry
  /\ \A m \in Note :
       due[m] # NotPending /\ m \notin PendingOf(note'[n].id, note[n].replace, note[n].bubble)
         => due'[m] # NotPending \/ m \in todo'[t]
  /\ \A s \in Threads : work[s] \subseteq todo'[s]
  /\ NothingAdded(due, work)
  /\ signal' \in [by : Threads, id : Int, type : Types]
  /\ signal'.id = note'[n].id /\ signal'.type \in {"Processed", "Removed"}

LEMMA UpdateProcessedFacts ==
  ASSUME TypeInv, NEW t \in Threads, NEW n \in memory \cup db, NEW ty \in {"Processed", "Removed"},
         NEW work \in [Threads -> SUBSET (1..count)],
         UpdateProcessed(t, n, ty, work)
  PROVE  UpdateEffect(t, n, work)
<1>1. n \in Note /\ count \in Nat
  BY BoundsAssumption DEF TypeInv, TypeOK
<1>2. Leaving(n)
  <2>1. CASE n \in memory
    <3>1. PICK show \in ShowInCenter(n) :
            IF ty = "Removed" \/ ~show
            THEN /\ memory' = memory \ {n}
                 /\ note' = [note EXCEPT ![n].type = ty]
                 /\ UNCHANGED <<db, rowIds>>
            ELSE File(n)
      BY <2>1 DEF UpdateProcessed
    <3>2. UNCHANGED <<count, memoryIds, replacesCount>>
      BY DEF UpdateProcessed
    <3>3. CASE ty = "Removed" \/ ~show
      <4>1. ~show => note[n].content.hint # "show"
        BY DEF ShowInCenter
      <4>2. /\ memory' = memory \ {n} /\ note' = [note EXCEPT ![n].type = ty]
            /\ UNCHANGED <<db, rowIds>>
        BY <3>1, <3>3
      <4> QED
        BY <2>1, <3>2, <3>3, <4>1, <4>2 DEF Leaving, Dropped
    <3>4. CASE ~(ty = "Removed" \/ ~show)
      <4>1. File(n)
        BY <3>1, <3>4
      <4> QED
        BY <2>1, <3>2, <4>1 DEF Leaving, Dropped, Filed, File
    <3> QED
      BY <3>3, <3>4
  <2>2. CASE n \notin memory
    <3>1. db' \subseteq db /\ UNCHANGED <<memory, rowIds, note, count, memoryIds, replacesCount>>
      BY <2>2 DEF UpdateProcessed
    <3> QED
      BY <2>2, <3>1 DEF Leaving, RowsGone
  <2> QED
    BY <2>1, <2>2
<1>3. RemovePending(t, note'[n].id, note[n].replace, note[n].bubble, work)
  BY DEF UpdateProcessed
<1>4. /\ due \in [Note -> Delays] /\ OnlyCreated(due, count)
      /\ starts \in Seq(1..MaxDelay) /\ lastTimeoutPoint \in 0..Never
  BY DEF TypeInv, TypeOK, Delays
<1> DEFINE id == note'[n].id
           replace == note[n].replace
           bubble == note[n].bubble
<1>5. /\ ExpiryTypes(count)
      /\ StartQueued \/ (PendingOf(id, replace, bubble) = {} /\ UNCHANGED expiry)
      /\ \A m \in Note : due[m] # NotPending /\ m \notin PendingOf(id, replace, bubble)
           => due'[m] # NotPending \/ m \in todo'[t]
      /\ \A s \in Threads : work[s] \subseteq todo'[s]
      /\ NothingAdded(due, work)
  <2> HIDE DEF id, replace, bubble
  <2>1. RemovePending(t, id, replace, bubble, work)
    BY <1>3 DEF id, replace, bubble
  <2> QED
    BY <1>1, <1>4, <2>1, RemovePendingFacts
<1>6. /\ signal' \in [by : Threads, id : Int, type : Types]
      /\ signal'.id = note'[n].id /\ signal'.type \in {"Processed", "Removed"}
  <2>1. note' \in [Note -> Entities]
    BY <1>1, <1>2, ClosingTypes DEF TypeInv, StoreTypes
  <2>2. note'[n].id \in Int
    BY <1>1, <2>1 DEF Entities
  <2>3. signal' = [by |-> t, id |-> note'[n].id, type |-> ty]
    BY DEF UpdateProcessed
  <2> QED
    BY <2>2, <2>3 DEF Types
<1> QED
  BY <1>2, <1>5, <1>6 DEF UpdateEffect

\* A call of notificationClosed finds nothing, or is an updateEntityProcessed.
LEMMA ClosedFacts ==
  ASSUME TypeInv, NEW t \in Threads, NEW id, NEW reason,
         NEW work \in [Threads -> SUBSET (1..count)],
         Closed(t, id, reason, work)
  PROVE  \/ /\ Fetched(id) = {}
            /\ todo' = work /\ signal' = NoSignal /\ UNCHANGED <<stores, expiry>>
         \/ \E n \in Fetched(id) : UpdateEffect(t, n, work)
<1>1. CASE Fetched(id) = {}
  BY <1>1 DEF Closed
<1>2. CASE Fetched(id) # {}
  <2>1. PICK n \in Fetched(id), ty \in {"Processed", "Removed"} : UpdateProcessed(t, n, ty, work)
    BY <1>2 DEF Closed
  <2>2. n \in memory \cup db
    BY DEF Fetched, InMemory, InSource
  <2> QED
    BY <2>1, <2>2, UpdateProcessedFacts
<1> QED
  BY <1>1, <1>2

-----------------------------------------------------------------------------
(* Type correctness.                                                       *)

\* The control variables that an updateEntityProcessed leaves alone.
ControlTypes(c) ==
  /\ timer' \in {TimerOff} \cup 0..MaxDelay
  /\ blockClosedId' \in Int
  /\ call' \in [note : 1..c, at : {"emit", "push"}] \cup {NoCall}
  /\ restarts' \in 0..MaxRestarts
  /\ signal' \in [by : Threads, id : Int, type : Types]

LEMMA TypesTogether ==
  ASSUME NEW c \in 0..MaxNotify, count' = c, StoreTypes(c), ExpiryTypes(c), ControlTypes(c)
  PROVE  TypeInv'
BY DEF StoreTypes, ExpiryTypes, ControlTypes, TypeInv, TypeOK, Delays, Types, OnlyCreated

LEMMA SameTypes ==
  ASSUME TypeInv
  PROVE  /\ UNCHANGED stores => StoreTypes(count) /\ count' = count
         /\ UNCHANGED <<due, lastTimeoutPoint, starts, todo>> => ExpiryTypes(count)
BY DEF TypeInv, TypeOK, stores, StoreTypes, ExpiryTypes, OnlyCreated, Delays

LEMMA NoSignalType == NoSignal \in [by : Threads, id : Int, type : Types]
BY DEF NoSignal, Types

LEMMA TypeInit == Init => TypeInv
<1> SUFFICES ASSUME Init PROVE TypeInv
  OBVIOUS
<1> USE BoundsAssumption
<1>1. note \in [Note -> Entities]
  <2> DEFINE c == CHOOSE c \in Contents : TRUE
  <2>1. c \in Contents
    BY ContentsAssumption
  <2> HIDE DEF c
  <2>2. Blank(c) \in Entities
    BY <2>1 DEF Blank, Entities
  <2> QED
    BY <2>2 DEF Init, c
<1>2. starts \in Seq(1..MaxDelay)
  BY DEF Init
<1>3. signal \in [by : Threads, id : Int, type : Types]
  BY NoSignalType DEF Init
<1>4. /\ due \in [Note -> Delays] /\ OnlyCreated(due, count)
      /\ lastTimeoutPoint \in 0..Never /\ timer = TimerOff
  BY DEF Init, Delays, OnlyCreated
<1>5. /\ count \in 0..MaxNotify /\ restarts \in 0..MaxRestarts
      /\ memory \subseteq 1..count /\ db \subseteq 1..count
      /\ memoryIds \in Nat /\ rowIds \in Nat /\ replacesCount \in Nat /\ blockClosedId \in Int
  BY DEF Init
<1>6. todo \in [Threads -> SUBSET (1..count)] /\ call = NoCall
  BY DEF Init
<1> QED
  BY <1>1, <1>2, <1>3, <1>4, <1>5, <1>6 DEF TypeInv, TypeOK, Types, Delays

\* The steps that go through updateEntityProcessed.
LEMMA UpdateStepTypes ==
  ASSUME TypeInv, NEW t \in Threads, NEW n \in memory \cup db,
         NEW work \in [Threads -> SUBSET (1..count)], UpdateEffect(t, n, work),
         UNCHANGED <<timer, blockClosedId, call, restarts>>
  PROVE  TypeInv'
<1>1. n \in Note
  BY BoundsAssumption DEF TypeInv, TypeOK
<1>2. StoreTypes(count) /\ count' = count
  BY <1>1, ClosingTypes DEF UpdateEffect, TypeInv
<1>3. ControlTypes(count)
  BY DEF UpdateEffect, ControlTypes, TypeInv, TypeOK
<1>4. ExpiryTypes(count) /\ count \in 0..MaxNotify
  BY DEF UpdateEffect, TypeInv, TypeOK
<1> QED
  BY <1>2, <1>3, <1>4, TypesTogether

LEMMA ClosedStepTypes ==
  ASSUME TypeInv, NEW t \in Threads, NEW id, NEW reason,
         NEW work \in [Threads -> SUBSET (1..count)], Closed(t, id, reason, work),
         UNCHANGED <<timer, blockClosedId, call, restarts>>
  PROVE  TypeInv'
<1>1. CASE \E n \in Fetched(id) : UpdateEffect(t, n, work)
  BY <1>1, UpdateStepTypes DEF Fetched, InMemory, InSource
<1>2. CASE todo' = work /\ signal' = NoSignal /\ UNCHANGED <<stores, expiry>>
  BY <1>2, NoSignalType DEF TypeInv, TypeOK, stores, expiry, OnlyCreated, Types
<1> QED
  BY <1>1, <1>2, ClosedFacts

\* A new heap entry is of the sort of the heap.
LEMMA EntityType ==
  ASSUME note \in [Note -> Entities], NEW n \in Note, NEW id \in Int, NEW b \in Nat,
         NEW isReplace \in BOOLEAN, NEW ty \in Types, NEW c \in Contents
  PROVE  Entity(n, id, b, isReplace, ty, c) \in [Note -> Entities]
<1>1. [id |-> id, bubble |-> b, replace |-> isReplace, type |-> ty, content |-> c] \in Entities
  BY DEF Entities, Types
<1> QED
  BY <1>1 DEF Entity

LEMMA NotifyNewTypes ==
  ASSUME TypeInv, NEW c \in Contents, NotifyNew(c)
  PROVE  TypeInv'
<1> DEFINE n == count + 1
<1>1. /\ n \in Note /\ n \in 1..MaxNotify /\ count \in Nat /\ count' = n
      /\ 1..count \subseteq 1..n
  BY BoundsAssumption DEF TypeInv, TypeOK, NotifyNew
<1>2. /\ note \in [Note -> Entities] /\ memory \subseteq 1..count /\ db \subseteq 1..count
      /\ memoryIds \in Nat /\ rowIds \in Nat /\ replacesCount \in Nat
  BY DEF TypeInv, TypeOK
<1>3. replacesCount' = replacesCount + 1 /\ call' = [note |-> n, at |-> "emit"]
  BY DEF NotifyNew
<1>4. StoreTypes(n)
  <2> HIDE DEF n
  <2>1. note' \in [Note -> Entities]
    <3>1. PICK id \in Int, ty \in Types : note' = Entity(n, id, replacesCount + 1, FALSE, ty, c)
      <4>1. \E id \in {-(memoryIds + 1), rowIds + 1, -1}, ty \in {"NotProcessed", "Processed"} :
              note' = Entity(n, id, replacesCount + 1, FALSE, ty, c)
        BY DEF NotifyNew, n
      <4>2. {-(memoryIds + 1), rowIds + 1, -1} \subseteq Int
        BY <1>2
      <4>3. {"NotProcessed", "Processed"} \subseteq Types
        BY DEF Types
      <4> QED
        BY <4>1, <4>2, <4>3
    <3>2. replacesCount + 1 \in Nat /\ FALSE \in BOOLEAN
      BY <1>2
    <3>3. Entity(n, id, replacesCount + 1, FALSE, ty, c) \in [Note -> Entities]
      <4> DEFINE r == replacesCount + 1
      <4>1. r \in Nat /\ n \in Note
        BY <1>1, <3>2
      <4> HIDE DEF r
      <4> QED
        BY <1>2, <3>2, <4>1, EntityType DEF r
    <3> QED
      BY <3>1, <3>3
  <2>2. /\ memory' \in {memory, memory \cup {n}} /\ db' \in {db, db \cup {n}}
        /\ memoryIds' \in {memoryIds, memoryIds + 1} /\ rowIds' \in {rowIds, rowIds + 1}
    BY DEF NotifyNew, n
  <2>3. n \in 1..n
    BY <1>1
  <2>4. memory' \subseteq 1..n /\ db' \subseteq 1..n
    BY <1>1, <1>2, <2>2, <2>3
  <2> QED
    BY <1>2, <1>3, <2>1, <2>2, <2>4 DEF StoreTypes
<1>5. ExpiryTypes(n)
  <2>1. /\ UNCHANGED <<due, lastTimeoutPoint, starts, todo>>
    BY DEF NotifyNew
  <2>2. todo' \in [Threads -> SUBSET (1..n)]
    BY <1>1, <2>1 DEF TypeInv, TypeOK
  <2>3. OnlyCreated(due', n)
    BY <1>1, <2>1 DEF TypeInv, OnlyCreated
  <2> QED
    BY <2>1, <2>2, <2>3 DEF ExpiryTypes, TypeInv, TypeOK, Delays
<1>6. ControlTypes(n)
  <2>1. UNCHANGED <<timer, blockClosedId, restarts>> /\ signal' = NoSignal
    BY DEF NotifyNew
  <2>2. call' \in [note : 1..n, at : {"emit", "push"}]
    BY <1>1, <1>3
  <2> QED
    BY <2>1, <2>2, NoSignalType DEF ControlTypes, TypeInv, TypeOK
<1> QED
  BY <1>1, <1>4, <1>5, <1>6, TypesTogether

\* A replacement's heap, whichever way its predecessor goes.
LEMMA NotifyReplaceHeap ==
  ASSUME TypeInv, NEW c \in Contents, NEW b \in Nat, NEW last \in memory, count + 1 \in Note,
         \/ \E i \in Int :
              note' = [Entity(count + 1, -(memoryIds + 1), b, TRUE, "NotProcessed", c)
                         EXCEPT ![last].type = "Processed", ![last].id = i]
         \/ note' = Entity(count + 1, note[last].id, b, TRUE, "NotProcessed", c)
  PROVE  note' \in [Note -> Entities]
<1> DEFINE n == count + 1
<1>1. /\ note \in [Note -> Entities] /\ last \in Note /\ n \in Note
      /\ -(memoryIds + 1) \in Int
  <2>1. /\ memory \subseteq 1..count /\ count \in 0..MaxNotify /\ memoryIds \in Nat
        /\ note \in [Note -> Entities]
    BY DEF TypeInv, TypeOK
  <2>2. last \in Note
    BY <2>1, BoundsAssumption
  <2>3. -(memoryIds + 1) \in Int
    BY <2>1
  <2> QED
    BY <2>1, <2>2, <2>3
<1>2. note[last].id \in Int
  BY <1>1 DEF Entities
<1> HIDE DEF n
<1>3. \A id \in Int : Entity(n, id, b, TRUE, "NotProcessed", c) \in [Note -> Entities]
  BY <1>1, EntityType DEF Types
<1>4. CASE \E i \in Int :
              note' = [Entity(n, -(memoryIds + 1), b, TRUE, "NotProcessed", c)
                         EXCEPT ![last].type = "Processed", ![last].id = i]
  <2> DEFINE f == Entity(n, -(memoryIds + 1), b, TRUE, "NotProcessed", c)
  <2>1. f \in [Note -> Entities]
    BY <1>1, <1>3
  <2>2. PICK i \in Int : note' = [f EXCEPT ![last].type = "Processed", ![last].id = i]
    BY <1>4
  <2> HIDE DEF f
  <2> QED
    BY <1>1, <2>1, <2>2, SetFields
<1>5. CASE note' = Entity(n, note[last].id, b, TRUE, "NotProcessed", c)
  BY <1>2, <1>3, <1>5
<1> QED
  BY <1>4, <1>5 DEF n

LEMMA NotifyReplaceTypes ==
  ASSUME TypeInv, NEW c \in Contents, NEW b \in 1..replacesCount, NotifyReplace(c, b)
  PROVE  TypeInv'
<1> DEFINE n == count + 1
<1>1. /\ n \in Note /\ n \in 1..n /\ n \in 1..MaxNotify /\ count \in Nat /\ n \in Nat
      /\ 1..count \subseteq 1..n /\ b \in Nat
  <2>1. count < MaxNotify
    BY DEF NotifyReplace
  <2>2. count \in 0..MaxNotify /\ replacesCount \in Nat /\ MaxNotify \in Nat
    BY BoundsAssumption DEF TypeInv, TypeOK
  <2> QED
    BY <2>1, <2>2
<1>2. /\ memory \subseteq 1..count /\ db \subseteq 1..count
      /\ memoryIds \in Nat /\ rowIds \in Nat /\ replacesCount \in Nat
  BY DEF TypeInv, TypeOK
<1>3. PICK last \in Last(b) :
        /\ count' = n
        /\ call' = [note |-> n, at |-> "emit"]
        /\ memory' = (memory \ {last}) \cup {n}
        /\ db' \in {db, db \cup {last}}
        /\ memoryIds' \in {memoryIds, memoryIds + 1}
        /\ rowIds' \in {rowIds, rowIds + 1}
        /\ \/ \E i \in {rowIds + 1, note[last].id} :
                note' = [Entity(n, -(memoryIds + 1), b, TRUE, "NotProcessed", c)
                           EXCEPT ![last].type = "Processed", ![last].id = i]
           \/ note' = Entity(n, note[last].id, b, TRUE, "NotProcessed", c)
        /\ RemovePending("worker", note'[n].id, TRUE, b, todo)
  <2>1. PICK last \in Last(b) :
        /\ count' = n
        /\ call' = [note |-> n, at |-> "emit"]
        /\ IF c.hint # "hide"
              THEN /\ memory' = (memory \ {last}) \cup {n}
                   /\ memoryIds' = memoryIds + 1
                   /\ LET filed == ~note[last].content.bluetooth
                          new == Entity(n, -(memoryIds + 1), b, TRUE, "NotProcessed", c)
                      IN  /\ db' = IF filed THEN db \cup {last} ELSE db
                          /\ rowIds' = IF filed THEN rowIds + 1 ELSE rowIds
                          /\ note' = [new EXCEPT ![last].type = "Processed",
                                                 ![last].id = IF filed THEN rowIds + 1 ELSE @]
              ELSE /\ memory' = (memory \ {last}) \cup {n}
                   /\ note' = Entity(n, note[last].id, b, TRUE, "NotProcessed", c)
                   /\ UNCHANGED <<memoryIds, db, rowIds>>
        /\ RemovePending("worker", note'[n].id, TRUE, b, todo)
    BY DEF NotifyReplace
  <2>2. last \in memory /\ last # n /\ last \in Note
    BY <1>1, <1>2, BoundsAssumption DEF Last, TypeInv, TypeOK
  <2>3. Entity(n, -(memoryIds + 1), b, TRUE, "NotProcessed", c)[last].id = note[last].id
    BY <2>2 DEF Entity, TypeInv, TypeOK
  <2> QED
    <3> HIDE DEF n
    <3>1. CASE c.hint # "hide"
      <4> DEFINE new == Entity(n, -(memoryIds + 1), b, TRUE, "NotProcessed", c)
      <4>1. note' = [new EXCEPT ![last].type = "Processed",
               ![last].id = IF ~note[last].content.bluetooth THEN rowIds + 1 ELSE @]
        BY <2>1, <3>1
      <4>2. new \in [Note -> Entities]
        <5>1. -(memoryIds + 1) \in Int
          BY <1>2
        <5> QED
          BY <1>1, <5>1, EntityType DEF TypeInv, TypeOK, Types
      <4>3. new[last].id = note[last].id
        BY <2>3
      <4> HIDE DEF new
      <4>4. \E i \in {rowIds + 1, note[last].id} :
              note' = [new EXCEPT ![last].type = "Processed", ![last].id = i]
        BY <2>2, <4>1, <4>2, <4>3 DEF Entities
      <4>5. /\ memory' = (memory \ {last}) \cup {n}
            /\ memoryIds' = memoryIds + 1
            /\ db' \in {db, db \cup {last}} /\ rowIds' \in {rowIds, rowIds + 1}
        BY <2>1, <3>1
      <4> QED
        BY <2>1, <4>4, <4>5 DEF new
    <3>2. CASE c.hint = "hide"
      BY <2>1, <3>2
    <3> QED
      BY <3>1, <3>2
<1>4. last \in memory
  BY DEF Last
<1>5. replacesCount' = replacesCount /\ UNCHANGED <<timer, blockClosedId, restarts>>
  BY DEF NotifyReplace
<1>6. signal' = NoSignal
  BY DEF NotifyReplace
<1>7. StoreTypes(n)
  <2>1. rowIds + 1 \in Int /\ note[last].id \in Int
    <3>1. last \in Note
      BY <1>2, <1>4, BoundsAssumption DEF TypeInv, TypeOK
    <3> QED
      BY <1>2, <3>1 DEF TypeInv, TypeOK, Entities
  <2>2. note' \in [Note -> Entities]
    <3>1. \/ \E i \in Int :
               note' = [Entity(n, -(memoryIds + 1), b, TRUE, "NotProcessed", c)
                           EXCEPT ![last].type = "Processed", ![last].id = i]
          \/ note' = Entity(n, note[last].id, b, TRUE, "NotProcessed", c)
      BY <1>3, <2>1
    <3> QED
      BY <1>1, <1>4, <3>1, NotifyReplaceHeap
  <2> HIDE DEF n
  <2>3. memory' \subseteq 1..n /\ db' \subseteq 1..n
    BY <1>1, <1>2, <1>3, <1>4
  <2> QED
    BY <1>2, <1>3, <1>5, <2>2, <2>3 DEF StoreTypes
<1>8. ExpiryTypes(n)
  <2> DEFINE id == note'[n].id
  <2> HIDE DEF n, id
  <2>1. due \in [Note -> Delays] /\ OnlyCreated(due, n)
    BY <1>1 DEF TypeInv, TypeOK, Delays, OnlyCreated
  <2>2. todo \in [Threads -> SUBSET (1..n)]
    BY <1>1 DEF TypeInv, TypeOK
  <2>3. starts \in Seq(1..MaxDelay) /\ lastTimeoutPoint \in 0..Never
    BY DEF TypeInv, TypeOK
  <2>4. RemovePending("worker", id, TRUE, b, todo)
    BY <1>3 DEF id
  <2>5. "worker" \in Threads
    OBVIOUS
  <2> QED
    BY <1>1, <2>1, <2>2, <2>3, <2>4, <2>5, RemovePendingFacts
<1>9. ControlTypes(n)
  <2>1. call' \in [note : 1..n, at : {"emit", "push"}]
    BY <1>1, <1>3
  <2> QED
    BY <1>5, <1>6, <2>1, NoSignalType DEF ControlTypes, TypeInv, TypeOK
<1>10. count' = n /\ n \in 0..MaxNotify
  BY <1>1, <1>3
<1> QED
  BY <1>7, <1>8, <1>9, <1>10, TypesTogether

\* Steps that leave the stores alone and rearm the timer.
LEMMA HandStepTypes ==
  ASSUME TypeInv, NEW t \in Threads, NEW d \in [Note -> Delays], OnlyCreated(d, count),
         HandPending(t, d, todo), UNCHANGED <<stores, call, restarts>>, signal' = NoSignal,
         timer' \in {TimerOff} \cup 0..MaxDelay, blockClosedId' \in Int
  PROVE  TypeInv'
<1>1. /\ count \in 0..MaxNotify /\ count \in Nat
      /\ todo \in [Threads -> SUBSET (1..count)] /\ starts \in Seq(1..MaxDelay)
  BY BoundsAssumption DEF TypeInv, TypeOK
<1>2. ExpiryTypes(count)
  BY <1>1, HandPendingFacts
<1>3. StoreTypes(count) /\ count' = count
  BY SameTypes
<1>4. ControlTypes(count)
  BY NoSignalType DEF ControlTypes, TypeInv, TypeOK
<1> QED
  BY <1>1, <1>2, <1>3, <1>4, TypesTogether

LEMMA KnownIdsType == TypeInv => KnownIds \subseteq Int
<1> SUFFICES ASSUME TypeInv, NEW n \in 1..count PROVE note[n].id \in Int
  BY DEF KnownIds
<1>1. n \in Note
  BY BoundsAssumption DEF TypeInv, TypeOK
<1> QED
  BY <1>1 DEF TypeInv, TypeOK, Entities

LEMMA SetBlockClosedIdTypes ==
  ASSUME TypeInv, NEW id \in KnownIds \cup {InvalidId}, SetBlockClosedId(id)
  PROVE  TypeInv'
<1>1. PICK d \in {due} \cup {[due EXCEPT ![n] = BlockItemTimeout] :
                               n \in {m \in Note : due[m] # NotPending}} :
        HandPending("main", d, todo)
  BY DEF SetBlockClosedId
<1>2. d \in [Note -> Delays] /\ OnlyCreated(d, count)
  BY BoundsAssumption DEF TypeInv, TypeOK, Delays, OnlyCreated
<1>3. blockClosedId' \in Int
  BY KnownIdsType DEF SetBlockClosedId
<1>4. timer' \in {TimerOff} \cup 0..MaxDelay /\ signal' = NoSignal /\ UNCHANGED <<stores, call, restarts>>
  BY DEF SetBlockClosedId, TypeInv, TypeOK
<1> QED
  BY <1>1, <1>2, <1>3, <1>4, HandStepTypes

LEMMA HandOneTypes ==
  ASSUME TypeInv, NEW t \in Threads, NEW n \in Note, HandOne(t, n)
  PROVE  TypeInv'
<1> DEFINE work == [todo EXCEPT ![t] = @ \ {n}]
<1>1. work \in [Threads -> SUBSET (1..count)]
  BY DEF TypeInv, TypeOK
<1>2. UNCHANGED <<timer, blockClosedId, call, restarts>> /\ n \in 1..count
  BY DEF HandOne, TypeInv, TypeOK
<1>3. CASE note[n].id = blockClosedId
  <2>1. /\ due' = [due EXCEPT ![n] = 0] /\ todo' = work /\ signal' = NoSignal
        /\ UNCHANGED <<stores, lastTimeoutPoint, starts>>
    BY <1>3 DEF HandOne
  <2>2. due' \in [Note -> Delays] /\ OnlyCreated(due', count)
    BY <1>2, <2>1, BoundsAssumption DEF TypeInv, TypeOK, Delays, OnlyCreated
  <2>3. ExpiryTypes(count) /\ StoreTypes(count) /\ count' = count
    BY <1>1, <2>1, <2>2, SameTypes DEF ExpiryTypes, TypeInv, TypeOK
  <2>4. ControlTypes(count)
    BY <1>2, <2>1, NoSignalType DEF ControlTypes, TypeInv, TypeOK
  <2>5. count \in 0..MaxNotify
    BY DEF TypeInv, TypeOK
  <2> QED
    BY <2>3, <2>4, <2>5, TypesTogether
<1>4. CASE note[n].id # blockClosedId
  <2>1. Closed(t, note[n].id, "Expired", work)
    BY <1>4 DEF HandOne
  <2> HIDE DEF work
  <2> QED
    BY <1>1, <1>2, <2>1, ClosedStepTypes
<1> QED
  BY <1>3, <1>4

\* Time passes.
LEMMA TickTypes == ASSUME TypeInv, Tick PROVE TypeInv'
<1>1. /\ due' = [n \in Note |-> IF due[n] > 0 THEN due[n] - 1 ELSE due[n]]
      /\ UNCHANGED <<starts, todo>>
  BY DEF Tick
<1>2. due' \in [Note -> Delays] /\ OnlyCreated(due', count)
  BY <1>1, BoundsAssumption DEF TypeInv, TypeOK, Delays, OnlyCreated
<1>3. lastTimeoutPoint' \in 0..Never /\ timer' \in {TimerOff} \cup 0..MaxDelay
  BY BoundsAssumption DEF Tick, TypeInv, TypeOK
<1>4. ExpiryTypes(count)
  BY <1>1, <1>2, <1>3 DEF ExpiryTypes, TypeInv, TypeOK
<1>5. StoreTypes(count) /\ count' = count
  BY SameTypes DEF Tick
<1>6. ControlTypes(count)
  BY <1>3, NoSignalType DEF Tick, ControlTypes, TypeInv, TypeOK
<1>7. count \in 0..MaxNotify
  BY DEF TypeInv, TypeOK
<1> QED
  BY <1>4, <1>5, <1>6, <1>7, TypesTogether

LEMMA RestartTypes == ASSUME TypeInv, Restart PROVE TypeInv'
<1>1. /\ due' = [n \in Note |-> NotPending] /\ todo' = [t \in Threads |-> {}]
      /\ lastTimeoutPoint' = Never /\ starts' = <<>> /\ timer' = TimerOff
      /\ blockClosedId' = InvalidId /\ call' = NoCall /\ signal' = NoSignal
      /\ memory' = {} /\ memoryIds' = 0 /\ replacesCount' = 0
      /\ db' \subseteq db /\ UNCHANGED <<count, note, rowIds>>
      /\ restarts < MaxRestarts /\ restarts' = restarts + 1
  BY DEF Restart
<1>2. ExpiryTypes(count)
  BY <1>1, BoundsAssumption DEF ExpiryTypes, Delays, OnlyCreated
<1>3. StoreTypes(count) /\ count' = count /\ count \in 0..MaxNotify
  BY <1>1 DEF StoreTypes, TypeInv, TypeOK
<1>4. restarts' \in 0..MaxRestarts
  BY <1>1, BoundsAssumption DEF TypeInv, TypeOK
<1>5. ControlTypes(count)
  BY <1>1, <1>4, NoSignalType DEF ControlTypes
<1> QED
  BY <1>2, <1>3, <1>5, TypesTogether

LEMMA NotifyEmitTypes == ASSUME TypeInv, NotifyEmit PROVE TypeInv'
<1>1. UNCHANGED <<stores, due, lastTimeoutPoint, starts, timer, blockClosedId, todo, restarts>>
  BY DEF NotifyEmit, expiry
<1>2. ExpiryTypes(count) /\ StoreTypes(count) /\ count' = count /\ count \in 0..MaxNotify
  BY <1>1, SameTypes DEF TypeInv, TypeOK
<1>3. call \in [note : 1..count, at : {"emit", "push"}] /\ call.note \in Note
  BY BoundsAssumption DEF NotifyEmit, NoCall, TypeInv, TypeOK
<1>4. note[call.note] \in Entities
  BY <1>3 DEF TypeInv, TypeOK
<1>5. signal' \in [by : Threads, id : Int, type : Types]
  BY <1>4 DEF NotifyEmit, Entities, Types
<1>6. call' \in [note : 1..count, at : {"emit", "push"}] \cup {NoCall}
  BY <1>3 DEF NotifyEmit
<1>7. ControlTypes(count)
  BY <1>1, <1>5, <1>6 DEF ControlTypes, TypeInv, TypeOK
<1> QED
  BY <1>2, <1>7, TypesTogether

LEMMA NotifyPushTypes == ASSUME TypeInv, NotifyPush PROVE TypeInv'
<1> DEFINE left == note[call.note].content.timeout
<1>1. call \in [note : 1..count, at : {"emit", "push"}] /\ call.note \in Note
  BY BoundsAssumption DEF NotifyPush, NoCall, TypeInv, TypeOK
<1>2. left \in 0..MaxDelay
  <2>1. note[call.note] \in Entities
    BY <1>1 DEF TypeInv, TypeOK
  <2> QED
    BY <2>1, ContentsAssumption DEF Entities
<1>3. UNCHANGED <<stores, starts, blockClosedId, todo, restarts>> /\ signal' = NoSignal /\ call' = NoCall
  BY DEF NotifyPush
<1>4. /\ due' = [due EXCEPT ![call.note] = left]
      /\ \/ lastTimeoutPoint' = left /\ timer' = left
         \/ UNCHANGED <<lastTimeoutPoint, timer>>
  BY DEF NotifyPush
<1>5. due' \in [Note -> Delays] /\ OnlyCreated(due', count)
  <2> HIDE DEF left
  <2> QED
    BY <1>1, <1>2, <1>4 DEF TypeInv, TypeOK, Delays, OnlyCreated
<1>6. lastTimeoutPoint' \in 0..Never /\ timer' \in {TimerOff} \cup 0..MaxDelay
  <2> HIDE DEF left
  <2> QED
    BY <1>2, <1>4, BoundsAssumption DEF TypeInv, TypeOK
<1>7. ExpiryTypes(count) /\ StoreTypes(count) /\ count' = count /\ count \in 0..MaxNotify
  BY <1>3, <1>5, <1>6, SameTypes DEF ExpiryTypes, TypeInv, TypeOK
<1>8. ControlTypes(count)
  BY <1>3, <1>6, NoSignalType DEF ControlTypes, TypeInv, TypeOK
<1> QED
  BY <1>7, <1>8, TypesTogether

LEMMA StartTimerTypes == ASSUME TypeInv, StartTimer PROVE TypeInv'
<1>1. starts \in Seq(1..MaxDelay) /\ starts # <<>>
  BY DEF StartTimer, TypeInv, TypeOK
<1>2. Head(starts) \in 1..MaxDelay /\ Tail(starts) \in Seq(1..MaxDelay)
  BY <1>1, HeadTailProperties
<1>3. /\ timer' = Head(starts) /\ starts' = Tail(starts) /\ signal' = NoSignal
      /\ UNCHANGED <<stores, due, lastTimeoutPoint, blockClosedId, todo, call, restarts>>
  BY DEF StartTimer
<1>4. ExpiryTypes(count) /\ StoreTypes(count) /\ count' = count /\ count \in 0..MaxNotify
  BY <1>2, <1>3, SameTypes DEF ExpiryTypes, TypeInv, TypeOK, Delays, OnlyCreated
<1>5. ControlTypes(count)
  BY <1>2, <1>3, NoSignalType, BoundsAssumption DEF ControlTypes, TypeInv, TypeOK
<1> QED
  BY <1>4, <1>5, TypesTogether

LEMMA TimerFiresTypes == ASSUME TypeInv, TimerFires PROVE TypeInv'
<1>1. due \in [Note -> Delays] /\ OnlyCreated(due, count) /\ blockClosedId' \in Int
  BY DEF TimerFires, TypeInv, TypeOK, Delays
<1> QED
  BY <1>1, HandStepTypes DEF TimerFires

LEMMA RemoveRowsTypes == ASSUME TypeInv, NEW S, RemoveRows(S) PROVE TypeInv'
<1>1. /\ RowsGone /\ signal' = NoSignal
      /\ UNCHANGED <<due, lastTimeoutPoint, starts, timer, blockClosedId, todo, call, restarts>>
  BY DEF RemoveRows, RowsGone, expiry
<1>2. StoreTypes(count) /\ count' = count /\ ExpiryTypes(count) /\ count \in 0..MaxNotify
  BY <1>1, SameTypes DEF RowsGone, StoreTypes, TypeInv, TypeOK
<1>3. ControlTypes(count)
  BY <1>1, NoSignalType DEF ControlTypes, TypeInv, TypeOK
<1> QED
  BY <1>2, <1>3, TypesTogether

LEMMA TypeStep == TypeInv /\ [Next]_vars => TypeInv'
<1> SUFFICES ASSUME TypeInv, [Next]_vars PROVE TypeInv'
  OBVIOUS
<1> DEFINE calm == UNCHANGED <<timer, blockClosedId, call, restarts>>
<1>1. todo \in [Threads -> SUBSET (1..count)]
  BY DEF TypeInv, TypeOK
<1>2. ASSUME NEW c \in Contents, NotifyNew(c) PROVE TypeInv'
  BY <1>2, NotifyNewTypes
<1>3. ASSUME NEW c \in Contents, NEW b \in 1..replacesCount, NotifyReplace(c, b) PROVE TypeInv'
  BY <1>3, NotifyReplaceTypes
<1>4. CASE NotifyEmit
  BY <1>4, NotifyEmitTypes
<1>5. CASE NotifyPush
  BY <1>5, NotifyPushTypes
<1>6. ASSUME NEW b \in 1..replacesCount, CloseNotification(b) PROVE TypeInv'
  <2>1. PICK n \in Last(b) : UpdateProcessed("worker", n, "Removed", todo)
    BY <1>6 DEF CloseNotification
  <2>2. n \in memory \cup db /\ calm
    BY <1>6 DEF CloseNotification, Last
  <2>3. UpdateEffect("worker", n, todo)
    BY <1>1, <2>1, <2>2, UpdateProcessedFacts
  <2> QED
    BY <1>1, <2>2, <2>3, UpdateStepTypes
<1>7. CASE StartTimer
  BY <1>7, StartTimerTypes
<1>8. CASE TimerFires
  BY <1>8, TimerFiresTypes
<1>9. ASSUME NEW t \in Threads, NEW n \in Note, HandOne(t, n) PROVE TypeInv'
  BY <1>9, HandOneTypes
<1>10. ASSUME NEW id \in KnownIds, UserCloses(id) PROVE TypeInv'
  <2>1. Closed("main", id, "Closed", todo) /\ calm
    BY <1>10 DEF UserCloses
  <2> QED
    BY <1>1, <2>1, ClosedStepTypes
<1>11. ASSUME NEW id \in KnownIds, UserInvokes(id) PROVE TypeInv'
  <2>1. PICK n \in Fetched(id) : UpdateProcessed("main", n, "Removed", todo)
    BY <1>11 DEF UserInvokes
  <2>2. n \in memory \cup db /\ calm
    BY <1>11 DEF UserInvokes, Fetched, InMemory, InSource
  <2>3. UpdateEffect("main", n, todo)
    BY <1>1, <2>1, <2>2, UpdateProcessedFacts
  <2> QED
    BY <1>1, <2>2, <2>3, UpdateStepTypes
<1>12. ASSUME NEW id \in KnownIds \cup {InvalidId}, SetBlockClosedId(id) PROVE TypeInv'
  BY <1>12, SetBlockClosedIdTypes
<1>13. ASSUME NEW S, RemoveRows(S) PROVE TypeInv'
  BY <1>13, RemoveRowsTypes
<1>14. CASE Tick
  BY <1>14, TickTypes
<1>15. CASE Restart
  BY <1>15, RestartTypes
<1>16. CASE UNCHANGED vars
  BY <1>16 DEF vars, TypeInv, TypeOK, OnlyCreated
<1>17. CASE Worker
  BY <1>2, <1>3, <1>4, <1>5, <1>6, <1>7, <1>8, <1>9, <1>17 DEF Worker
<1>18. CASE Main
  BY <1>9, <1>10, <1>11, <1>12, <1>13, <1>18 DEF Main, RemoveNotification, RemoveNotifications,
     RemoveExpiredNotifications, ClearNotifications
<1> QED
  BY <1>14, <1>15, <1>16, <1>17, <1>18 DEF Next

\* The state of the server is of its sort whatever the bounds are; in particular
\* every start call and every timeout is in range, and expiries, the work of the
\* threads and both stores speak of notifications that exist.
THEOREM TypeCorrect == Spec => []TypeOK
<1>1. TypeInv => TypeOK
  BY DEF TypeInv
<1> QED
  BY <1>1, TypeInit, TypeStep, PTL DEF Spec

-----------------------------------------------------------------------------
(* The two stores.  Memory ids count down and row ids count up, so that a  *)
(* notification that is filed meets no id in use; a bubble id is given out *)
(* once, and its banner goes before the next one comes.                    *)

StoreInv ==
  /\ memory \cap db = {}
  /\ \A n \in memory : note[n].id \in -memoryIds..-1 /\ note[n].bubble \in 1..replacesCount
  /\ \A n \in db : note[n].id \in 1..rowIds
  /\ UniqueIds
  /\ OneBannerPerBubble

\* The settings may silence a file transfer, which then gets no id of its own.
TransfersSilenced == "Processed" \in NewTypes /\ \E c \in Contents : c.bluetooth

\* A new notification k: on screen, silenced, or a silenced transfer.
Recorded(k) ==
  /\ k = count + 1 /\ count' = k
  /\ \A m \in Note \ {k} : note'[m] = note[m]
  /\ replacesCount' = replacesCount + 1 /\ note'[k].type \in {"NotProcessed", "Processed"}
  /\ \/ /\ memory' = memory \cup {k} /\ memoryIds' = memoryIds + 1
        /\ note'[k].id = -(memoryIds + 1) /\ note'[k].bubble = replacesCount + 1
        /\ note'[k].type = "NotProcessed"
        /\ UNCHANGED <<db, rowIds>>
     \/ /\ db' = db \cup {k} /\ rowIds' = rowIds + 1
        /\ note'[k].id = rowIds + 1 /\ note'[k].type = "Processed"
        /\ UNCHANGED <<memory, memoryIds>>
     \/ TransfersSilenced /\ UNCHANGED <<memory, db, memoryIds, rowIds>>

\* Banner k succeeds last, which is filed or gives up its id.
Replaced(k, last) ==
  /\ k = count + 1 /\ count' = k /\ last \in memory /\ memory' = (memory \ {last}) \cup {k}
  /\ \A m \in Note \ {k, last} : note'[m] = note[m]
  /\ note'[k].bubble = note[last].bubble /\ note'[k].replace /\ note'[k].type = "NotProcessed"
  /\ note'[last].bubble = note[last].bubble /\ note'[last].replace = note[last].replace
  /\ note'[last].type \in {note[last].type, "Processed"}
  /\ UNCHANGED replacesCount
  /\ \/ /\ memoryIds' = memoryIds + 1 /\ note'[k].id = -(memoryIds + 1)
        /\ note'[last].type = "Processed"
        /\ \/ db' = db \cup {last} /\ rowIds' = rowIds + 1 /\ note'[last].id = rowIds + 1
           \/ /\ note[last].content.bluetooth /\ note'[last].id = note[last].id
              /\ UNCHANGED <<db, rowIds>>
     \/ /\ note'[k].id = note[last].id /\ note'[last] = note[last]
        /\ UNCHANGED <<db, rowIds, memoryIds>>

LEMMA RecordedStores ==
  ASSUME TypeInv, StoreInv, NEW k \in Note, Recorded(k) PROVE StoreInv'
<1>1. /\ memory \subseteq 1..count /\ db \subseteq 1..count /\ count \in Nat
      /\ memoryIds \in Nat /\ rowIds \in Nat /\ replacesCount \in Nat
      /\ k \notin memory /\ k \notin db
  BY BoundsAssumption DEF TypeInv, TypeOK, Recorded
<1>2. memory \subseteq Note /\ db \subseteq Note
  BY BoundsAssumption DEF TypeInv, TypeOK
<1>3. \A m \in memory \cup db : note'[m] = note[m]
  BY <1>1, <1>2 DEF Recorded
<1> USE DEF StoreInv, UniqueIds, OneBannerPerBubble
<1>4. CASE /\ memory' = memory \cup {k} /\ memoryIds' = memoryIds + 1
           /\ note'[k].id = -(memoryIds + 1) /\ note'[k].bubble = replacesCount + 1
           /\ UNCHANGED <<db, rowIds>>
  BY <1>1, <1>3, <1>4 DEF Recorded
<1>5. CASE /\ db' = db \cup {k} /\ rowIds' = rowIds + 1 /\ note'[k].id = rowIds + 1
           /\ UNCHANGED <<memory, memoryIds>>
  BY <1>1, <1>3, <1>5 DEF Recorded
<1>6. CASE UNCHANGED <<memory, db, memoryIds, rowIds>>
  BY <1>1, <1>3, <1>6 DEF Recorded
<1> QED
  BY <1>4, <1>5, <1>6 DEF Recorded

LEMMA ReplacedStores ==
  ASSUME TypeInv, StoreInv, NEW k \in Note, NEW last \in Note, Replaced(k, last) PROVE StoreInv'
<1>1. /\ memory \subseteq 1..count /\ db \subseteq 1..count /\ count \in Nat
      /\ memoryIds \in Nat /\ rowIds \in Nat /\ replacesCount \in Nat
      /\ k \notin memory /\ k \notin db /\ last \in memory /\ last \notin db
  BY BoundsAssumption DEF TypeInv, TypeOK, Replaced, StoreInv
<1>2. memory \subseteq Note /\ db \subseteq Note
  BY BoundsAssumption DEF TypeInv, TypeOK
<1>3. \A m \in (memory \ {last}) \cup db : note'[m] = note[m]
  BY <1>1, <1>2 DEF Replaced
<1>4. /\ memory' = (memory \ {last}) \cup {k} /\ UNCHANGED replacesCount
      /\ note'[k].bubble = note[last].bubble
  BY DEF Replaced
<1>5. OneBannerPerBubble' /\ \A m \in memory' : note'[m].bubble \in 1..replacesCount'
  <2>1. \A m \in memory \ {last} : note[m].bubble # note[last].bubble
    BY <1>1 DEF StoreInv, OneBannerPerBubble
  <2>2. note[last].bubble \in 1..replacesCount
    BY <1>1 DEF StoreInv
  <2>3. \A m \in memory' : m = k \/ (m \in memory \ {last} /\ note'[m].bubble = note[m].bubble)
    <3>1. memory' = (memory \ {last}) \cup {k}
      BY <1>4
    <3>2. \A m \in memory \ {last} : note'[m] = note[m]
      BY <1>3
    <3> QED
      BY <3>1, <3>2
  <2>4. \A m, n \in memory \ {last} : note[m].bubble = note[n].bubble => m = n
    BY DEF StoreInv, OneBannerPerBubble
  <2>5. OneBannerPerBubble'
    BY <1>4, <2>1, <2>3, <2>4 DEF OneBannerPerBubble
  <2>6. \A m \in memory : note[m].bubble \in 1..replacesCount
    BY DEF StoreInv
  <2> QED
    BY <1>4, <2>2, <2>3, <2>5, <2>6
<1>6. memory' \cap db' = {}
  BY <1>1, <1>4 DEF Replaced, StoreInv
\* The ids after the step: those of k and of last are new, or k has that of last.
<1>7. /\ \A m \in memory' : note'[m].id \in -memoryIds'..-1
      /\ \A m \in db' : note'[m].id \in 1..rowIds'
      /\ \A m \in memory' : m # k => note'[m].id # note'[k].id
      /\ \A m \in db' : last \in db' /\ m # last => note'[m].id # note'[last].id
  <2>1. \A m \in memory \ {last} : note'[m].id \in -memoryIds..-1 /\ note'[m].id # note[last].id
    BY <1>1, <1>3 DEF StoreInv, UniqueIds
  <2>2. \A m \in db : note'[m].id \in 1..rowIds
    BY <1>3 DEF StoreInv
  <2>3. note[last].id \in -memoryIds..-1
    BY <1>1 DEF StoreInv
  <2>4. CASE /\ memoryIds' = memoryIds + 1 /\ note'[k].id = -(memoryIds + 1)
             /\ db' = db \cup {last} /\ rowIds' = rowIds + 1 /\ note'[last].id = rowIds + 1
    BY <1>1, <1>4, <2>1, <2>2, <2>4
  <2>5. CASE /\ memoryIds' = memoryIds + 1 /\ note'[k].id = -(memoryIds + 1)
             /\ UNCHANGED <<db, rowIds>>
    <3>1. db' = db /\ rowIds' = rowIds
      BY <2>5
    <3>2. \A m \in memory' : m # k => m \in memory \ {last}
      BY <1>4
    <3>3. \A m \in memory \ {last} : note'[m].id \in -memoryIds'..-1 /\ note'[m].id # note'[k].id
      <4>1. -memoryIds..-1 \subseteq -(memoryIds + 1)..-1 /\ -(memoryIds + 1) \notin -memoryIds..-1
        BY <1>1
      <4>2. memoryIds' = memoryIds + 1 /\ note'[k].id = -(memoryIds + 1)
        BY <2>5
      <4> QED
        BY <2>1, <4>1, <4>2
    <3>4. note'[k].id \in -memoryIds'..-1
      BY <1>1, <2>5
    <3> QED
      BY <1>1, <2>2, <3>1, <3>2, <3>3, <3>4
  <2>6. CASE note'[k].id = note[last].id /\ UNCHANGED <<db, rowIds, memoryIds>>
    BY <1>1, <1>4, <2>1, <2>2, <2>3, <2>6
  <2> QED
    BY <2>4, <2>5, <2>6 DEF Replaced
<1>8. UniqueIds'
  <2> SUFFICES ASSUME NEW m \in memory' \cup db', NEW n \in memory' \cup db',
                      note'[m].id = note'[n].id
               PROVE  m = n
    BY DEF UniqueIds
  <2>1. db' \in {db, db \cup {last}} /\ memoryIds' \in Nat /\ rowIds' \in Nat
    BY <1>1 DEF Replaced
  <2>2. CASE m \in memory' /\ n \in memory'
    BY <1>3, <1>4, <1>7, <2>2 DEF StoreInv, UniqueIds
  <2>3. CASE m \in db' /\ n \in db'
    BY <1>3, <1>7, <2>1, <2>3 DEF StoreInv, UniqueIds
  <2>4. CASE m \in memory' /\ n \in db'
    BY <1>7, <2>1, <2>4
  <2>5. CASE m \in db' /\ n \in memory'
    BY <1>7, <2>1, <2>5
  <2> QED
    BY <2>2, <2>3, <2>4, <2>5
<1> QED
  BY <1>5, <1>6, <1>7, <1>8 DEF StoreInv

LEMMA ClosingStores ==
  ASSUME TypeInv, StoreInv, NEW n \in Note, Leaving(n) PROVE StoreInv'
<1>1. /\ memory \subseteq Note /\ db \subseteq Note
      /\ rowIds \in Nat /\ memoryIds \in Nat /\ replacesCount \in Nat
      /\ note \in [Note -> Entities]
  BY BoundsAssumption DEF TypeInv, TypeOK
<1> USE DEF StoreInv, UniqueIds, OneBannerPerBubble
<1>2. CASE Dropped(n)
  <2>1. \A m \in Note : note'[m].id = note[m].id /\ note'[m].bubble = note[m].bubble
    BY <1>1, <1>2 DEF Dropped, Entities
  <2> QED
    BY <1>1, <1>2, <2>1 DEF Dropped
<1>3. CASE Filed(n)
  <2>1. /\ \A m \in Note \ {n} : note'[m] = note[m]
        /\ note'[n].id = rowIds + 1
    BY <1>1, <1>3 DEF Filed, Entities
  <2>2. /\ memory' = memory \ {n} /\ db' = db \cup {n} /\ n \in memory
        /\ rowIds' = rowIds + 1 /\ UNCHANGED <<memoryIds, replacesCount>>
    BY <1>3 DEF Filed
  <2>3. \A m \in memory' : note'[m] = note[m]
    BY <1>1, <2>1, <2>2
  <2>4. /\ \A m \in db \ {n} : note'[m] = note[m]
        /\ \A m \in db : note[m].id \in 1..rowIds
    BY <1>1, <2>1
  <2>5. memory' \cap db' = {} /\ OneBannerPerBubble'
    BY <2>2, <2>3
  <2>6. /\ \A m \in memory' : /\ note'[m].id \in -memoryIds'..-1
                             /\ note'[m].bubble \in 1..replacesCount'
        /\ \A m \in db' : note'[m].id \in 1..rowIds'
    BY <1>1, <2>1, <2>2, <2>3, <2>4
  <2>7. UniqueIds'
    <3>1. \A m \in (memory \cup db) \ {n} : note'[m] = note[m] /\ note[m].id # note'[n].id
      BY <1>1, <2>1, <2>2, <2>4
    <3> QED
      BY <2>2, <3>1
  <2> QED
    BY <2>5, <2>6, <2>7
<1>4. CASE RowsGone
  BY <1>4 DEF RowsGone
<1> QED
  BY <1>2, <1>3, <1>4 DEF Leaving

LEMMA NotifyNewRecords ==
  ASSUME TypeInv, NEW c \in Contents, NotifyNew(c)
  PROVE  count + 1 \in Note /\ Recorded(count + 1)
<1> DEFINE k == count + 1
<1>1. k \in Note /\ note \in [Note -> Entities]
  BY BoundsAssumption DEF TypeInv, TypeOK, NotifyNew
<1> HIDE DEF k
<1>2. ASSUME NEW id, NEW ty, note' = Entity(k, id, replacesCount + 1, FALSE, ty, c)
      PROVE  /\ \A m \in Note \ {k} : note'[m] = note[m]
             /\ note'[k].id = id /\ note'[k].bubble = replacesCount + 1 /\ note'[k].type = ty
  BY <1>1, <1>2 DEF Entity
<1>3. /\ replacesCount' = replacesCount + 1 /\ count' = k
      /\ \/ /\ memory' = memory \cup {k} /\ memoryIds' = memoryIds + 1
            /\ note' = Entity(k, -(memoryIds + 1), replacesCount + 1, FALSE, "NotProcessed", c)
            /\ UNCHANGED <<db, rowIds>>
         \/ /\ db' = db \cup {k} /\ rowIds' = rowIds + 1
            /\ note' = Entity(k, rowIds + 1, replacesCount + 1, FALSE, "Processed", c)
            /\ UNCHANGED <<memory, memoryIds>>
         \/ /\ note' = Entity(k, -1, replacesCount + 1, FALSE, "Processed", c)
            /\ TransfersSilenced
            /\ UNCHANGED <<memory, memoryIds, db, rowIds>>
  BY DEF NotifyNew, k, TransfersSilenced
<1> QED
  BY <1>1, <1>2, <1>3 DEF Recorded, k

LEMMA NotifyReplaceReplaces ==
  ASSUME TypeInv, NEW c \in Contents, NEW b, NotifyReplace(c, b)
  PROVE  /\ count + 1 \in Note
         /\ \E last \in Note :
              /\ note[last].bubble = b
              /\ Replaced(count + 1, last)
              /\ RemovePending("worker", note'[count + 1].id, TRUE, b, todo)
<1> DEFINE k == count + 1
<1>1. k \in Note /\ note \in [Note -> Entities] /\ count \in Nat
  <2>1. count < MaxNotify
    BY DEF NotifyReplace
  <2> QED
    BY <2>1, BoundsAssumption DEF TypeInv, TypeOK
<1>2. PICK last \in Last(b) :
        /\ memory' = (memory \ {last}) \cup {k}
        /\ RemovePending("worker", note'[k].id, TRUE, b, todo)
        /\ \/ /\ memoryIds' = memoryIds + 1
              /\ LET filed == ~note[last].content.bluetooth
                     new == Entity(k, -(memoryIds + 1), b, TRUE, "NotProcessed", c)
                 IN  /\ db' = IF filed THEN db \cup {last} ELSE db
                     /\ rowIds' = IF filed THEN rowIds + 1 ELSE rowIds
                     /\ note' = [new EXCEPT ![last].type = "Processed",
                                            ![last].id = IF filed THEN rowIds + 1 ELSE @]
           \/ /\ note' = Entity(k, note[last].id, b, TRUE, "NotProcessed", c)
              /\ UNCHANGED <<memoryIds, db, rowIds>>
  BY DEF NotifyReplace
<1>3. last \in memory /\ note[last].bubble = b /\ last # k /\ last \in Note
  BY <1>1, BoundsAssumption DEF Last, TypeInv, TypeOK
<1>4. UNCHANGED replacesCount /\ count' = k
  BY DEF NotifyReplace
<1> HIDE DEF k
<1>5. CASE /\ memoryIds' = memoryIds + 1
           /\ LET filed == ~note[last].content.bluetooth
                  new == Entity(k, -(memoryIds + 1), b, TRUE, "NotProcessed", c)
              IN  /\ db' = IF filed THEN db \cup {last} ELSE db
                  /\ rowIds' = IF filed THEN rowIds + 1 ELSE rowIds
                  /\ note' = [new EXCEPT ![last].type = "Processed",
                                         ![last].id = IF filed THEN rowIds + 1 ELSE @]
  <2> DEFINE new == Entity(k, -(memoryIds + 1), b, TRUE, "NotProcessed", c)
  <2>1. /\ \A m \in Note \ {k} : new[m] = note[m]
        /\ DOMAIN new = Note /\ new[k].id = -(memoryIds + 1) /\ new[k].bubble = b
    BY <1>1, <1>3 DEF Entity
  <2>10. new[k].replace /\ new[k].type = "NotProcessed"
    BY <1>1, <1>3 DEF Entity
  <2>2. PICK i : note' = [new EXCEPT ![last].type = "Processed", ![last].id = i]
    BY <1>5
  <2>3. ~note[last].content.bluetooth
          => note' = [new EXCEPT ![last].type = "Processed", ![last].id = rowIds + 1]
    BY <1>5
  <2>4. /\ ~note[last].content.bluetooth => db' = db \cup {last} /\ rowIds' = rowIds + 1
        /\ note[last].content.bluetooth => db' = db /\ rowIds' = rowIds
        /\ memoryIds' = memoryIds + 1
    BY <1>5
  <2>5. note[last] \in Entities
    BY <1>1, <1>3
  <2> HIDE DEF new
  <2>6. /\ \A m \in Note \ {k, last} : note'[m] = note[m]
        /\ note'[k].id = -(memoryIds + 1) /\ note'[k].bubble = b
    BY <1>1, <1>3, <2>1, <2>2
  <2>11. note'[k].replace /\ note'[k].type = "NotProcessed"
    BY <1>1, <1>3, <2>1, <2>2, <2>10
  <2>7. /\ note'[last].bubble = b /\ note'[last].replace = note[last].replace
        /\ note'[last].type = "Processed"
    BY <1>3, <2>1, <2>2, <2>5 DEF Entities
  <2>8. ~note[last].content.bluetooth => note'[last].id = rowIds + 1
    BY <1>3, <2>1, <2>3, <2>5 DEF Entities
  <2>9. note[last].content.bluetooth => note'[last].id = note[last].id
    <3>1. new[last] = note[last]
      BY <1>3, <2>1
    <3>2. note[last].content.bluetooth =>
            note' = [new EXCEPT ![last].type = "Processed", ![last].id = note[last].id]
      BY <1>3, <1>5, <2>1, <2>5, <3>1 DEF Entities, new
    <3> QED
      BY <1>3, <2>1, <2>5, <3>2 DEF Entities
  <2> QED
    BY <1>1, <1>2, <1>3, <1>4, <2>4, <2>6, <2>7, <2>8, <2>9, <2>11 DEF Replaced, k
<1>6. CASE /\ note' = Entity(k, note[last].id, b, TRUE, "NotProcessed", c)
           /\ UNCHANGED <<memoryIds, db, rowIds>>
  <2>1. /\ \A m \in Note \ {k} : note'[m] = note[m]
        /\ note'[k].id = note[last].id /\ note'[k].bubble = b /\ note'[k].replace
        /\ note'[k].type = "NotProcessed"
    BY <1>1, <1>6 DEF Entity
  <2> QED
    BY <1>1, <1>2, <1>3, <1>4, <1>6, <2>1 DEF Replaced, k
<1> QED
  BY <1>2, <1>5, <1>6

\* What any step does to the stores.
StoreStep ==
  \/ UNCHANGED stores
  \/ \E n \in Note : Leaving(n) \/ Recorded(n)
  \/ \E k, last \in Note : Replaced(k, last)
  \/ RowsGone
  \/ Restart

LEMMA ClosedStores ==
  ASSUME TypeInv, NEW t \in Threads, NEW id, NEW reason,
         NEW work \in [Threads -> SUBSET (1..count)], Closed(t, id, reason, work)
  PROVE  StoreStep
<1>1. CASE UNCHANGED <<stores, expiry>>
  BY <1>1 DEF StoreStep
<1>2. CASE \E n \in Fetched(id) : UpdateEffect(t, n, work)
  <2>1. Fetched(id) \subseteq Note
    <3>1. memory \cup db \subseteq Note
      BY BoundsAssumption DEF TypeInv, TypeOK
    <3> QED
      BY <3>1 DEF Fetched, InMemory, InSource
  <2> QED
    BY <1>2, <2>1 DEF StoreStep, UpdateEffect
<1> QED
  BY <1>1, <1>2, ClosedFacts

LEMMA NextStores == ASSUME TypeInv, [Next]_vars PROVE StoreStep
<1>1. todo \in [Threads -> SUBSET (1..count)] /\ memory \cup db \subseteq Note
  BY BoundsAssumption DEF TypeInv, TypeOK
<1>2. ASSUME NEW c \in Contents, NotifyNew(c) PROVE StoreStep
  BY <1>2, NotifyNewRecords DEF StoreStep
<1>3. ASSUME NEW c \in Contents, NEW b \in 1..replacesCount, NotifyReplace(c, b) PROVE StoreStep
  BY <1>3, NotifyReplaceReplaces DEF StoreStep
<1>4. CASE NotifyEmit \/ NotifyPush \/ StartTimer \/ TimerFires \/ Tick \/ UNCHANGED vars
  BY <1>4 DEF StoreStep, NotifyEmit, NotifyPush, StartTimer, TimerFires, Tick, vars, stores
<1>5. ASSUME NEW t \in Threads, NEW n \in memory \cup db, UpdateProcessed(t, n, "Removed", todo)
      PROVE  StoreStep
  <2>1. UpdateEffect(t, n, todo)
    BY <1>1, <1>5, UpdateProcessedFacts
  <2> QED
    BY <1>1, <2>1 DEF UpdateEffect, StoreStep
<1>6. ASSUME NEW b \in 1..replacesCount, CloseNotification(b) PROVE StoreStep
  BY <1>5, <1>6 DEF CloseNotification, Last
<1>7. ASSUME NEW id \in KnownIds, UserInvokes(id) PROVE StoreStep
  BY <1>5, <1>7 DEF UserInvokes, Fetched, InMemory, InSource
<1>8. ASSUME NEW id \in KnownIds, UserCloses(id) PROVE StoreStep
  BY <1>1, <1>8, ClosedStores DEF UserCloses
<1>9. ASSUME NEW t \in Threads, NEW n \in Note, HandOne(t, n) PROVE StoreStep
  <2> DEFINE work == [todo EXCEPT ![t] = @ \ {n}]
  <2>1. work \in [Threads -> SUBSET (1..count)]
    BY <1>1
  <2>2. CASE note[n].id = blockClosedId
    BY <1>9, <2>2 DEF HandOne, StoreStep
  <2>3. CASE note[n].id # blockClosedId
    <3>1. Closed(t, note[n].id, "Expired", work)
      BY <1>9, <2>3 DEF HandOne
    <3> HIDE DEF work
    <3> QED
      BY <2>1, <3>1, ClosedStores
  <2> QED
    BY <2>2, <2>3
<1>10. ASSUME NEW id, SetBlockClosedId(id) PROVE StoreStep
  BY <1>10 DEF SetBlockClosedId, StoreStep
<1>11. ASSUME NEW S, RemoveRows(S) PROVE StoreStep
  BY <1>11 DEF RemoveRows, RowsGone, StoreStep
<1>12. CASE Restart
  BY <1>12 DEF StoreStep
<1>13. CASE Worker
  BY <1>2, <1>3, <1>4, <1>6, <1>9, <1>13 DEF Worker
<1>14. CASE Main
  BY <1>7, <1>8, <1>9, <1>10, <1>11, <1>14 DEF Main, RemoveNotification, RemoveNotifications,
     RemoveExpiredNotifications, ClearNotifications
<1> QED
  BY <1>4, <1>12, <1>13, <1>14 DEF Next

LEMMA StoreInitially == Init => StoreInv
BY DEF Init, StoreInv, UniqueIds, OneBannerPerBubble

LEMMA StoreInvStep == TypeInv /\ StoreInv /\ [Next]_vars => StoreInv'
<1> SUFFICES ASSUME TypeInv, StoreInv, [Next]_vars PROVE StoreInv'
  OBVIOUS
<1>1. CASE UNCHANGED stores
  BY <1>1 DEF stores, StoreInv, UniqueIds, OneBannerPerBubble
<1>2. CASE RowsGone
  BY <1>2 DEF RowsGone, StoreInv, UniqueIds, OneBannerPerBubble
<1>3. CASE Restart
  BY <1>3 DEF Restart, StoreInv, UniqueIds, OneBannerPerBubble
<1>4. CASE \E n \in Note : Leaving(n) \/ Recorded(n)
  BY <1>4, ClosingStores, RecordedStores
<1>5. CASE \E k, last \in Note : Replaced(k, last)
  BY <1>5, ReplacedStores
<1> QED
  BY <1>1, <1>2, <1>3, <1>4, <1>5, NextStores DEF StoreStep

THEOREM StoresCorrect == Spec => []StoreInv
BY StoreInitially, StoreInvStep, TypeInit, TypeStep, PTL DEF Spec

\* An id names one notification of the two stores, although a notification
\* changes its id when it is filed, both threads file, and a restart starts the
\* memory ids over.
THEOREM IdsAreUnique == Spec => []UniqueIds
BY StoresCorrect, PTL DEF StoreInv

\* A client's bubble id has at most one banner on screen, so that
\* fetchLastEntity, replaceBubble and CloseNotification mean the same one.
THEOREM BannersAreSingle == Spec => []OneBannerPerBubble
BY StoresCorrect, PTL DEF StoreInv

-----------------------------------------------------------------------------
(* The expiry timer.  pushPendingEntity trusts lastTimeoutPoint, so what   *)
(* has to be invariant with TimerArmed is that a lastTimeoutPoint that is  *)
(* set has a timer, or a start call, behind it.                            *)

Armed ==
  /\ lastTimeoutPoint # Never => timer # TimerOff \/ starts # <<>>
  /\ TimerArmed

\* After a call that rearms, a start call stands for all that is pending.
LEMMA QueuedIsArmed == StartQueued => Armed'
BY DEF StartQueued, Armed, TimerArmed

\* A step that changes no expiry, and no id of a pending notification.
LEMMA QuietIsArmed ==
  ASSUME Armed, UNCHANGED <<due, lastTimeoutPoint, starts, timer, blockClosedId>>,
         \A n \in Note : due[n] # NotPending => note'[n].id = note[n].id
  PROVE  Armed'
BY DEF Armed, TimerArmed

\* removePendingEntity leaves the expiries alone only when the notification that
\* changed its id was not pending.
LEMMA UpdateArmed ==
  ASSUME TypeInv, Armed, NEW t, NEW n \in Note, NEW work, UpdateEffect(t, n, work),
         UNCHANGED <<timer, blockClosedId>>
  PROVE  Armed'
<1>1. CASE StartQueued
  BY <1>1, QueuedIsArmed
<1>2. CASE PendingOf(note'[n].id, note[n].replace, note[n].bubble) = {} /\ UNCHANGED expiry
  <2>1. UNCHANGED <<due, lastTimeoutPoint, starts>> /\ due[n] = NotPending
    BY <1>2 DEF expiry, PendingOf
  <2>2. note \in [Note -> Entities]
    BY DEF TypeInv, TypeOK
  <2>3. \A m \in Note \ {n} : note'[m] = note[m]
    BY <2>2 DEF UpdateEffect, Leaving, Dropped, Filed, RowsGone
  <2> QED
    BY <2>1, <2>3, QuietIsArmed
<1> QED
  BY <1>1, <1>2 DEF UpdateEffect

LEMMA ClosedArmed ==
  ASSUME TypeInv, Armed, NEW t \in Threads, NEW id, NEW reason,
         NEW work \in [Threads -> SUBSET (1..count)], Closed(t, id, reason, work),
         UNCHANGED <<timer, blockClosedId>>
  PROVE  Armed'
<1>1. CASE UNCHANGED <<stores, expiry>>
  <2>1. UNCHANGED <<note, due, lastTimeoutPoint, starts>>
    BY <1>1 DEF stores, expiry
  <2> QED
    BY <2>1, QuietIsArmed
<1>2. CASE \E n \in Fetched(id) : UpdateEffect(t, n, work)
  <2>1. memory \cup db \subseteq Note
    BY BoundsAssumption DEF TypeInv, TypeOK
  <2> QED
    BY <1>2, <2>1, UpdateArmed DEF Fetched, InMemory, InSource
<1> QED
  BY <1>1, <1>2, ClosedFacts

LEMMA NotifyArmed ==
  ASSUME TypeInv, Armed, NEW c \in Contents,
         NotifyNew(c) \/ \E b \in 1..replacesCount : NotifyReplace(c, b)
  PROVE  Armed'
<1>1. count \in Nat /\ count + 1 \notin 1..count
  BY BoundsAssumption DEF TypeInv, TypeOK
<1>2. \A n \in Note : due[n] # NotPending => n # count + 1
  BY <1>1 DEF TypeInv, OnlyCreated
<1>3. CASE NotifyNew(c)
  <2>1. Recorded(count + 1) /\ UNCHANGED <<due, lastTimeoutPoint, starts, timer, blockClosedId>>
    BY <1>3, NotifyNewRecords DEF NotifyNew
  <2>2. \A n \in Note : due[n] # NotPending => note'[n].id = note[n].id
    BY <1>2, <2>1 DEF Recorded
  <2> QED
    BY <2>1, <2>2, QuietIsArmed
<1>4. ASSUME NEW b \in 1..replacesCount, NotifyReplace(c, b) PROVE Armed'
  <2>1. PICK last \in Note :
          /\ note[last].bubble = b
          /\ Replaced(count + 1, last)
          /\ RemovePending("worker", note'[count + 1].id, TRUE, b, todo)
    BY <1>4, NotifyReplaceReplaces
  <2>2. UNCHANGED <<timer, blockClosedId>>
    BY <1>4 DEF NotifyReplace
  <2> DEFINE id == note'[count + 1].id
  <2>3. StartQueued \/ (PendingOf(id, TRUE, b) = {} /\ UNCHANGED expiry)
    <3> HIDE DEF id
    <3>1. RemovePending("worker", id, TRUE, b, todo) /\ "worker" \in Threads
      BY <2>1 DEF id
    <3>2. /\ due \in [Note -> Delays] /\ OnlyCreated(due, count)
          /\ todo \in [Threads -> SUBSET (1..count)]
          /\ starts \in Seq(1..MaxDelay) /\ lastTimeoutPoint \in 0..Never
      BY DEF TypeInv, TypeOK, Delays
    <3> QED
      BY <1>1, <3>1, <3>2, RemovePendingFacts
  <2>4. CASE PendingOf(id, TRUE, b) = {} /\ UNCHANGED expiry
    <3>1. due[last] = NotPending /\ UNCHANGED <<due, lastTimeoutPoint, starts>>
      BY <2>1, <2>4 DEF PendingOf, expiry
    <3>2. \A n \in Note : due[n] # NotPending => note'[n].id = note[n].id
      BY <1>2, <2>1, <3>1 DEF Replaced
    <3> QED
      BY <2>2, <3>1, <3>2, QuietIsArmed
  <2> QED
    BY <2>3, <2>4, QueuedIsArmed
<1> QED
  BY <1>3, <1>4

LEMMA PushArmed == ASSUME TypeInv, Armed, NotifyPush PROVE Armed'
<1> DEFINE left == note[call.note].content.timeout
<1>1. left \in 0..MaxDelay
  <2>1. call \in [note : 1..count, at : {"emit", "push"}] /\ call.note \in Note
    BY BoundsAssumption DEF NotifyPush, NoCall, TypeInv, TypeOK
  <2>2. note[call.note] \in Entities
    BY <2>1 DEF TypeInv, TypeOK
  <2> QED
    BY <2>2, ContentsAssumption DEF Entities
<1>2. IF lastTimeoutPoint > left
      THEN lastTimeoutPoint' = left /\ timer' = left
      ELSE UNCHANGED <<lastTimeoutPoint, timer>>
  BY DEF NotifyPush
<1>3. starts' = starts /\ lastTimeoutPoint \in 0..Never
  BY DEF NotifyPush, TypeInv, TypeOK
<1> HIDE DEF left
<1>4. timer' # TimerOff \/ starts' # <<>>
  <2>1. CASE lastTimeoutPoint > left
    BY <1>1, <1>2, <2>1
  <2>2. CASE ~(lastTimeoutPoint > left)
    <3>1. lastTimeoutPoint # Never
      BY <1>1, <1>3, <2>2, BoundsAssumption
    <3> QED
      BY <1>2, <1>3, <2>2, <3>1 DEF Armed
  <2> QED
    BY <2>1, <2>2
<1> QED
  BY <1>4 DEF Armed, TimerArmed

LEMMA HandOneArmed ==
  ASSUME TypeInv, Armed, NEW t \in Threads, NEW n \in Note, HandOne(t, n)
  PROVE  Armed'
<1> DEFINE work == [todo EXCEPT ![t] = @ \ {n}]
<1>1. UNCHANGED <<timer, blockClosedId>>
  BY DEF HandOne
<1>2. CASE note[n].id = blockClosedId
  <2>1. due' = [due EXCEPT ![n] = 0] /\ UNCHANGED <<note, lastTimeoutPoint, starts>>
    BY <1>2 DEF HandOne, stores
  <2>2. \A m \in Note : due'[m] # NotPending /\ note'[m].id # blockClosedId' => due[m] # NotPending
    BY <1>1, <1>2, <2>1 DEF TypeInv, TypeOK
  <2> QED
    BY <1>1, <2>1, <2>2 DEF Armed, TimerArmed
<1>3. CASE note[n].id # blockClosedId
  <2>1. Closed(t, note[n].id, "Expired", work)
    BY <1>3 DEF HandOne
  <2>2. work \in [Threads -> SUBSET (1..count)]
    BY DEF TypeInv, TypeOK
  <2> HIDE DEF work
  <2> QED
    BY <1>1, <2>1, <2>2, ClosedArmed
<1> QED
  BY <1>2, <1>3

LEMMA TickArmed == ASSUME TypeInv, Armed, Tick PROVE Armed'
<1>1. /\ due \in [Note -> Delays] /\ timer \in {TimerOff} \cup 0..MaxDelay
      /\ lastTimeoutPoint \in 0..Never
  BY DEF TypeInv, TypeOK, Delays
<1>2. /\ due' = [n \in Note |-> IF due[n] > 0 THEN due[n] - 1 ELSE due[n]]
      /\ timer' = IF timer > 0 THEN timer - 1 ELSE timer
      /\ lastTimeoutPoint' = IF lastTimeoutPoint \in 1..MaxDelay THEN lastTimeoutPoint - 1
                                                                 ELSE lastTimeoutPoint
      /\ UNCHANGED <<note, starts, blockClosedId>>
  BY DEF Tick, stores
<1>3. \A n \in Note : due'[n] # NotPending => due[n] # NotPending
  BY <1>1, <1>2, BoundsAssumption DEF Delays
<1>4. timer' = TimerOff => timer = TimerOff
  BY <1>1, <1>2, BoundsAssumption
<1>5. lastTimeoutPoint' # Never => lastTimeoutPoint # Never
  BY <1>1, <1>2, BoundsAssumption
<1> QED
  BY <1>2, <1>3, <1>4, <1>5 DEF Armed, TimerArmed

LEMMA ArmedStep == TypeInv /\ Armed /\ [Next]_vars => Armed'
<1> SUFFICES ASSUME TypeInv, Armed, [Next]_vars PROVE Armed'
  OBVIOUS
<1>1. /\ todo \in [Threads -> SUBSET (1..count)] /\ memory \cup db \subseteq Note
      /\ due \in [Note -> Delays] /\ OnlyCreated(due, count) /\ starts \in Seq(1..MaxDelay)
      /\ count \in Nat
  BY BoundsAssumption DEF TypeInv, TypeOK, Delays
<1>2. ASSUME NEW t \in Threads, NEW d \in [Note -> Delays], OnlyCreated(d, count),
             HandPending(t, d, todo)
      PROVE  Armed'
  BY <1>1, <1>2, HandPendingFacts, QueuedIsArmed
<1>3. ASSUME NEW t \in Threads, NEW n \in memory \cup db, UpdateProcessed(t, n, "Removed", todo),
             UNCHANGED <<timer, blockClosedId>>
      PROVE  Armed'
  BY <1>1, <1>3, UpdateProcessedFacts, UpdateArmed
<1>4. ASSUME NEW c \in Contents, NotifyNew(c) PROVE Armed'
  BY <1>4, NotifyArmed
<1>5. ASSUME NEW c \in Contents, NEW b \in 1..replacesCount, NotifyReplace(c, b) PROVE Armed'
  BY <1>5, NotifyArmed
<1>6. CASE NotifyEmit
  BY <1>6, QuietIsArmed DEF NotifyEmit, stores, expiry
<1>7. CASE NotifyPush
  BY <1>7, PushArmed
<1>8. ASSUME NEW b \in 1..replacesCount, CloseNotification(b) PROVE Armed'
  BY <1>3, <1>8 DEF CloseNotification, Last
<1>9. CASE StartTimer
  <2>1. timer' = Head(starts) /\ starts # <<>>
    BY <1>9 DEF StartTimer
  <2>2. starts \in Seq(1..MaxDelay) /\ starts # <<>>
    BY <1>1, <2>1
  <2>3. Head(starts) \in 1..MaxDelay
    BY <2>2, HeadTailProperties
  <2>4. timer' # TimerOff
    BY <2>1, <2>3
  <2> QED
    BY <2>4 DEF Armed, TimerArmed
<1>10. CASE TimerFires
  BY <1>1, <1>2, <1>10 DEF TimerFires
<1>11. ASSUME NEW t \in Threads, NEW n \in Note, HandOne(t, n) PROVE Armed'
  BY <1>11, HandOneArmed
<1>12. ASSUME NEW id \in KnownIds, UserCloses(id) PROVE Armed'
  BY <1>1, <1>12, ClosedArmed DEF UserCloses
<1>13. ASSUME NEW id \in KnownIds, UserInvokes(id) PROVE Armed'
  BY <1>3, <1>13 DEF UserInvokes, Fetched, InMemory, InSource
<1>14. ASSUME NEW id, SetBlockClosedId(id) PROVE Armed'
  <2>1. PICK d \in {due} \cup {[due EXCEPT ![n] = BlockItemTimeout] :
                                 n \in {m \in Note : due[m] # NotPending}} :
          HandPending("main", d, todo)
    BY <1>14 DEF SetBlockClosedId
  <2>2. d \in [Note -> Delays] /\ OnlyCreated(d, count)
    BY BoundsAssumption DEF TypeInv, TypeOK, Delays, OnlyCreated
  <2> QED
    BY <1>2, <2>1, <2>2
<1>15. ASSUME NEW S, RemoveRows(S) PROVE Armed'
  BY <1>15, QuietIsArmed DEF RemoveRows, expiry
<1>16. CASE Tick
  BY <1>16, TickArmed
<1>17. CASE Restart
  BY <1>17 DEF Restart, Armed, TimerArmed
<1>18. CASE UNCHANGED vars
  BY <1>18, QuietIsArmed DEF vars
<1>19. CASE Worker
  BY <1>4, <1>5, <1>6, <1>7, <1>8, <1>9, <1>10, <1>11, <1>19 DEF Worker
<1>20. CASE Main
  BY <1>11, <1>12, <1>13, <1>14, <1>15, <1>20 DEF Main, RemoveNotification,
     RemoveNotifications, RemoveExpiredNotifications, ClearNotifications
<1> QED
  BY <1>16, <1>17, <1>18, <1>19, <1>20 DEF Next

\* Nothing that is pending is forgotten by the timer: whatever the two threads
\* close, replace or hover, and in whatever order start calls and timeouts run,
\* an expiry that no hovered banner holds back has a timer or a start call.
THEOREM TimerStaysArmed == Spec => []TimerArmed
<1>1. Init => Armed
  BY DEF Init, Armed, TimerArmed
<1>2. Armed => TimerArmed
  BY DEF Armed
<1> QED
  BY <1>1, <1>2, ArmedStep, TypeInit, TypeStep, PTL DEF Spec

-----------------------------------------------------------------------------
(* What a step schedules.                                                  *)

\* A notification is scheduled as the argument of the Notify in progress, or in
\* the queues of expiries.
Queued(n) == due[n] # NotPending \/ \E t \in Threads : n \in todo[t]

LEMMA ScheduledIsQueued ==
  \A n \in Note : (Scheduled(n) <=> Queued(n) \/ call.note = n)
                  /\ (Scheduled(n)' <=> Queued(n)' \/ call'.note = n)
BY DEF Scheduled, Queued

\* The steps that create no notification schedule none.
SchedulesNone == count' = count /\ \A n \in Note : Scheduled(n)' => Scheduled(n)

\* A Notify schedules the notification that it creates.
SchedulesNew ==
  /\ count' = count + 1 /\ call'.note = count + 1
  /\ \A n \in Note : Scheduled(n)' => Scheduled(n) \/ n = count + 1

\* Calls that handle expiries add nothing to what the queues hold.
LEMMA AddedSchedules ==
  ASSUME NEW d, NEW work, NothingAdded(d, work), count' = count, call' = call,
         \A n \in Note : d[n] # NotPending => Queued(n),
         \A s \in Threads : work[s] \subseteq todo[s]
  PROVE  SchedulesNone
<1> SUFFICES ASSUME NEW n \in Note, Queued(n)' PROVE Queued(n)
  BY ScheduledIsQueued DEF SchedulesNone
<1>1. CASE due'[n] # NotPending
  BY <1>1 DEF NothingAdded
<1>2. ASSUME NEW s \in Threads, n \in todo'[s] PROVE Queued(n)
  BY <1>2 DEF NothingAdded, Queued
<1> QED
  BY <1>1, <1>2 DEF Queued

LEMMA UpdateSchedules ==
  ASSUME TypeInv, NEW t, NEW x \in Note, NEW work, UpdateEffect(t, x, work), call' = call,
         \A s \in Threads : work[s] \subseteq todo[s]
  PROVE  SchedulesNone
<1>1. count' = count
  BY DEF UpdateEffect, Leaving, Dropped, Filed, RowsGone
<1>2. NothingAdded(due, work)
  BY DEF UpdateEffect
<1>3. \A n \in Note : due[n] # NotPending => Queued(n)
  BY DEF Queued
<1> QED
  BY <1>1, <1>2, <1>3, AddedSchedules

LEMMA ClosedSchedules ==
  ASSUME TypeInv, NEW t \in Threads, NEW id, NEW reason,
         NEW work \in [Threads -> SUBSET (1..count)],
         Closed(t, id, reason, work), call' = call,
         \A s \in Threads : work[s] \subseteq todo[s]
  PROVE  SchedulesNone
<1>1. CASE todo' = work /\ UNCHANGED <<stores, expiry>>
  BY <1>1 DEF stores, expiry, SchedulesNone, Scheduled
<1>2. CASE \E x \in Fetched(id) : UpdateEffect(t, x, work)
  <2>1. Fetched(id) \subseteq Note
    <3>1. memory \cup db \subseteq Note
      BY BoundsAssumption DEF TypeInv, TypeOK
    <3> QED
      BY <3>1 DEF Fetched, InMemory, InSource
  <2> QED
    BY <1>2, <2>1, UpdateSchedules
<1> QED
  BY <1>1, <1>2, ClosedFacts

LEMMA HandSchedules ==
  ASSUME TypeInv, NEW t \in Threads, NEW d \in [Note -> Delays], OnlyCreated(d, count),
         \A n \in Note : d[n] # NotPending => due[n] # NotPending,
         HandPending(t, d, todo), UNCHANGED <<stores, call>>
  PROVE  SchedulesNone
<1>1. /\ count \in Nat /\ todo \in [Threads -> SUBSET (1..count)]
      /\ starts \in Seq(1..MaxDelay)
  BY BoundsAssumption DEF TypeInv, TypeOK
<1>2. NothingAdded(d, todo)
  BY <1>1, HandPendingFacts
<1>3. count' = count /\ \A n \in Note : d[n] # NotPending => Queued(n)
  BY DEF stores, Queued
<1> QED
  BY <1>2, <1>3, AddedSchedules

LEMMA HandOneSchedules ==
  ASSUME TypeInv, NEW t \in Threads, NEW n \in Note, HandOne(t, n) PROVE SchedulesNone
<1> DEFINE work == [todo EXCEPT ![t] = @ \ {n}]
<1>1. /\ work \in [Threads -> SUBSET (1..count)] /\ \A s \in Threads : work[s] \subseteq todo[s]
      /\ call' = call /\ n \in todo[t]
  BY DEF HandOne, TypeInv, TypeOK
<1>2. CASE note[n].id = blockClosedId
  <2>1. due' = [due EXCEPT ![n] = 0] /\ todo' = work /\ count' = count
    BY <1>2 DEF HandOne, stores
  <2> HIDE DEF work
  <2>2. \A m \in Note : due'[m] # NotPending => due[m] # NotPending \/ m = n
    BY <2>1 DEF TypeInv, TypeOK
  <2> QED
    BY <1>1, <2>1, <2>2 DEF SchedulesNone, Scheduled
<1>3. CASE note[n].id # blockClosedId
  <2>1. Closed(t, note[n].id, "Expired", work)
    BY <1>3 DEF HandOne
  <2> HIDE DEF work
  <2> QED
    BY <1>1, <2>1, ClosedSchedules
<1> QED
  BY <1>2, <1>3

LEMMA NotifySchedules ==
  ASSUME TypeInv, NEW c \in Contents,
         NotifyNew(c) \/ \E b \in 1..replacesCount : NotifyReplace(c, b)
  PROVE  SchedulesNew
<1>1. CASE NotifyNew(c)
  BY <1>1 DEF NotifyNew, SchedulesNew, Scheduled
<1>2. ASSUME NEW b \in 1..replacesCount, NotifyReplace(c, b) PROVE SchedulesNew
  <2>1. /\ count' = count + 1 /\ call'.note = count + 1
    BY <1>2 DEF NotifyReplace
  <2> DEFINE id == note'[count + 1].id
  <2>2. RemovePending("worker", id, TRUE, b, todo)
    BY <1>2, NotifyReplaceReplaces
  <2>3. /\ due \in [Note -> Delays] /\ OnlyCreated(due, count) /\ count \in Nat
        /\ todo \in [Threads -> SUBSET (1..count)]
        /\ starts \in Seq(1..MaxDelay) /\ lastTimeoutPoint \in 0..Never
    BY BoundsAssumption DEF TypeInv, TypeOK, Delays
  <2>4. "worker" \in Threads
    OBVIOUS
  <2> HIDE DEF id
  <2>5. NothingAdded(due, todo)
    BY <2>2, <2>3, <2>4, RemovePendingFacts
  <2> QED
    BY <2>1, <2>5 DEF NothingAdded, SchedulesNew, Scheduled
<1> QED
  BY <1>1, <1>2

LEMMA NextSchedules == ASSUME TypeInv, [Next]_vars PROVE SchedulesNone \/ SchedulesNew
<1>1. /\ todo \in [Threads -> SUBSET (1..count)] /\ memory \cup db \subseteq Note
      /\ due \in [Note -> Delays] /\ OnlyCreated(due, count)
  BY BoundsAssumption DEF TypeInv, TypeOK, Delays
<1>2. ASSUME NEW t \in Threads, NEW x \in memory \cup db, UpdateProcessed(t, x, "Removed", todo),
             call' = call
      PROVE  SchedulesNone
  <2>1. UpdateEffect(t, x, todo)
    BY <1>1, <1>2, UpdateProcessedFacts
  <2> QED
    BY <1>1, <1>2, <2>1, UpdateSchedules
<1>3. ASSUME NEW c \in Contents, NotifyNew(c) PROVE SchedulesNew
  BY <1>3, NotifySchedules
<1>4. ASSUME NEW c \in Contents, NEW b \in 1..replacesCount, NotifyReplace(c, b) PROVE SchedulesNew
  BY <1>4, NotifySchedules
<1>5. CASE NotifyEmit
  <2>1. call' \in {NoCall, [call EXCEPT !.at = "push"]} /\ UNCHANGED <<stores, expiry, todo>>
    BY <1>5 DEF NotifyEmit
  <2>2. call \in [note : 1..count, at : {"emit", "push"}]
    BY <1>5 DEF NotifyEmit, TypeInv, TypeOK, NoCall
  <2>3. \A n \in Note : call'.note = n => call.note = n
    BY <2>1, <2>2 DEF NoCall
  <2> QED
    BY <2>1, <2>3 DEF SchedulesNone, Scheduled, stores, expiry
<1>6. CASE NotifyPush
  <2>1. /\ call \in [note : 1..count, at : {"emit", "push"}]
        /\ call' = NoCall /\ UNCHANGED <<stores, todo>>
        /\ due' = [due EXCEPT ![call.note] = note[call.note].content.timeout]
    BY <1>6 DEF NotifyPush, TypeInv, TypeOK, NoCall
  <2>2. \A n \in Note : due'[n] # NotPending => due[n] # NotPending \/ n = call.note
    BY <1>1, <2>1
  <2> QED
    BY <2>1, <2>2 DEF SchedulesNone, Scheduled, stores, NoCall
<1>7. ASSUME NEW b \in 1..replacesCount, CloseNotification(b) PROVE SchedulesNone
  BY <1>2, <1>7 DEF CloseNotification, Last
<1>8. CASE StartTimer
  BY <1>8 DEF StartTimer, SchedulesNone, Scheduled, stores
<1>9. CASE TimerFires
  BY <1>1, <1>9, HandSchedules DEF TimerFires
<1>10. ASSUME NEW t \in Threads, NEW n \in Note, HandOne(t, n) PROVE SchedulesNone
  BY <1>10, HandOneSchedules
<1>11. ASSUME NEW id \in KnownIds, UserCloses(id) PROVE SchedulesNone
  BY <1>1, <1>11, ClosedSchedules DEF UserCloses
<1>12. ASSUME NEW id \in KnownIds, UserInvokes(id) PROVE SchedulesNone
  BY <1>2, <1>12 DEF UserInvokes, Fetched, InMemory, InSource
<1>13. ASSUME NEW id, SetBlockClosedId(id) PROVE SchedulesNone
  <2>1. PICK d \in {due} \cup {[due EXCEPT ![n] = BlockItemTimeout] :
                                 n \in {m \in Note : due[m] # NotPending}} :
          HandPending("main", d, todo)
    BY <1>13 DEF SetBlockClosedId
  <2>2. d \in [Note -> Delays] /\ OnlyCreated(d, count)
    BY <1>1, BoundsAssumption DEF Delays, OnlyCreated
  <2>3. \A n \in Note : d[n] # NotPending => due[n] # NotPending
    BY <1>1
  <2> QED
    BY <1>13, <2>1, <2>2, <2>3, HandSchedules DEF SetBlockClosedId
<1>14. ASSUME NEW S, RemoveRows(S) PROVE SchedulesNone
  BY <1>14 DEF RemoveRows, SchedulesNone, Scheduled, expiry
<1>15. CASE Tick
  <2>1. \A n \in Note : due'[n] # NotPending => due[n] # NotPending
    BY <1>1, <1>15 DEF Tick, Delays
  <2> QED
    BY <1>15, <2>1 DEF Tick, SchedulesNone, Scheduled, stores
<1>16. CASE Restart
  BY <1>16 DEF Restart, SchedulesNone, Scheduled, NoCall
<1>17. CASE UNCHANGED vars
  BY <1>17 DEF vars, SchedulesNone, Scheduled
<1>18. CASE Worker
  BY <1>3, <1>4, <1>5, <1>6, <1>7, <1>8, <1>9, <1>10, <1>18 DEF Worker
<1>19. CASE Main
  BY <1>10, <1>11, <1>12, <1>13, <1>14, <1>19 DEF Main, RemoveNotification,
     RemoveNotifications, RemoveExpiredNotifications, ClearNotifications
<1> QED
  BY <1>15, <1>16, <1>17, <1>18, <1>19 DEF Next

-----------------------------------------------------------------------------
(* Expiries close by id.  A banner and a scheduled notification of the     *)
(* same id are of one bubble, because an id that is given out is one that  *)
(* no scheduled notification has, and one that is taken over stays in its  *)
(* bubble.  A file transfer that the settings silence has no id of its     *)
(* own, and breaks this.                                                   *)

\* The id of what is scheduled is one that was given out since the start.
ScheduledIds ==
  \A n \in Note : Scheduled(n) => note[n].id \in (-memoryIds..-1) \cup (1..rowIds)

OwnInv == ScheduledIds /\ ExpiryHitsItsOwn

LEMMA OwnInitially == Init => OwnInv
<1> SUFFICES ASSUME Init PROVE OwnInv
  OBVIOUS
<1>1. \A n \in Note : ~Scheduled(n)
  BY DEF Init, Scheduled, NoCall
<1> QED
  BY <1>1 DEF OwnInv, ScheduledIds, ExpiryHitsItsOwn

\* What is scheduled exists, unless it is just being created.
LEMMA ScheduledExist ==
  ASSUME TypeInv PROVE \A n \in Note : Scheduled(n) => n \in 1..count
BY DEF TypeInv, TypeOK, OnlyCreated, Scheduled, NoCall

LEMMA ClosingOwn ==
  ASSUME TypeInv, StoreInv, OwnInv, NEW x \in Note, Leaving(x), SchedulesNone
  PROVE  OwnInv'
<1>1. /\ memory \subseteq Note /\ note \in [Note -> Entities]
      /\ rowIds \in Nat /\ memoryIds \in Nat
  BY BoundsAssumption DEF TypeInv, TypeOK
<1> USE DEF OwnInv, ScheduledIds, ExpiryHitsItsOwn
<1>2. CASE Dropped(x) \/ RowsGone
  <2>1. /\ \A m \in Note : note'[m].id = note[m].id /\ note'[m].bubble = note[m].bubble
        /\ memory' \subseteq memory /\ UNCHANGED <<memoryIds, rowIds>>
    <3>1. CASE Dropped(x)
      BY <1>1, <3>1 DEF Dropped, Entities
    <3>2. CASE RowsGone
      BY <3>2 DEF RowsGone
    <3> QED
      BY <1>2, <3>1, <3>2
  <2> HIDE DEF Scheduled
  <2> QED
    BY <1>1, <2>1 DEF SchedulesNone
<1>3. CASE Filed(x)
  <2>1. /\ \A m \in Note \ {x} : note'[m] = note[m]
        /\ note'[x].id = rowIds + 1 /\ note'[x].bubble = note[x].bubble
        /\ memory' = memory \ {x} /\ memoryIds' = memoryIds /\ rowIds' = rowIds + 1
    BY <1>1, <1>3 DEF Filed, Entities
  <2>2. \A m \in memory' : note'[m].id \in -memoryIds..-1 /\ note'[m] = note[m]
    BY <1>1, <2>1 DEF StoreInv
  <2>3. ScheduledIds'
    BY <1>1, <2>1 DEF SchedulesNone
  <2>4. ExpiryHitsItsOwn'
    <3> SUFFICES ASSUME NEW m \in memory', NEW n \in Note, Scheduled(n)', note'[m].id = note'[n].id
                 PROVE  note'[m].bubble = note'[n].bubble
      OBVIOUS
    <3>1. n # x
      BY <1>1, <2>1, <2>2
    <3> QED
      BY <2>1, <2>2, <3>1 DEF SchedulesNone
  <2> QED
    BY <2>3, <2>4
<1> QED
  BY <1>2, <1>3 DEF Leaving

LEMMA RecordedOwn ==
  ASSUME ~TransfersSilenced, TypeInv, StoreInv, OwnInv, NEW k \in Note, Recorded(k),
         SchedulesNone \/ SchedulesNew
  PROVE  OwnInv'
<1>1. /\ memory \subseteq Note /\ k \notin memory /\ rowIds \in Nat /\ memoryIds \in Nat
      /\ k = count + 1 /\ count \in Nat
  BY BoundsAssumption DEF TypeInv, TypeOK, Recorded
<1>2. \A n \in Note : Scheduled(n)' => (n # k /\ Scheduled(n)) \/ n = k
  BY <1>1 DEF SchedulesNone, SchedulesNew
<1>3. \A m \in Note \ {k} : note'[m] = note[m]
  BY DEF Recorded
<1>4. CASE /\ memory' = memory \cup {k} /\ memoryIds' = memoryIds + 1
           /\ note'[k].id = -(memoryIds + 1) /\ UNCHANGED rowIds
  <2>1. \A m \in memory : note'[m].id \in -memoryIds..-1
    BY <1>1, <1>3 DEF StoreInv
  <2>2. ScheduledIds'
    BY <1>1, <1>2, <1>3, <1>4 DEF OwnInv, ScheduledIds
  <2>3. ExpiryHitsItsOwn'
    <3> SUFFICES ASSUME NEW m \in memory', NEW n \in Note, Scheduled(n)', note'[m].id = note'[n].id
                 PROVE  note'[m].bubble = note'[n].bubble
      BY DEF ExpiryHitsItsOwn
    <3>1. CASE m = k /\ n # k
      BY <1>1, <1>2, <1>3, <1>4, <3>1 DEF OwnInv, ScheduledIds
    <3>2. CASE m # k /\ n = k
      BY <1>1, <1>4, <2>1, <3>2
    <3>3. CASE m # k /\ n # k
      BY <1>1, <1>2, <1>3, <1>4, <3>3 DEF OwnInv, ExpiryHitsItsOwn
    <3> QED
      BY <3>1, <3>2, <3>3
  <2> QED
    BY <2>2, <2>3 DEF OwnInv
<1>5. CASE rowIds' = rowIds + 1 /\ note'[k].id = rowIds + 1 /\ UNCHANGED <<memory, memoryIds>>
  <2>1. \A m \in memory : note'[m].id \in -memoryIds..-1 /\ m # k
    BY <1>1, <1>3 DEF StoreInv
  <2>2. ScheduledIds'
    BY <1>1, <1>2, <1>3, <1>5 DEF OwnInv, ScheduledIds
  <2>3. ExpiryHitsItsOwn'
    BY <1>1, <1>2, <1>3, <1>5, <2>1 DEF OwnInv, ExpiryHitsItsOwn
  <2> QED
    BY <2>2, <2>3 DEF OwnInv
<1> QED
  BY <1>4, <1>5 DEF Recorded

LEMMA ReplacedOwn ==
  ASSUME TypeInv, StoreInv, OwnInv, NEW k \in Note, NEW last \in Note, Replaced(k, last),
         SchedulesNone \/ SchedulesNew
  PROVE  OwnInv'
<1>1. /\ memory \subseteq Note /\ k \notin memory /\ rowIds \in Nat /\ memoryIds \in Nat
      /\ k = count + 1 /\ count \in Nat /\ last \in memory /\ k # last
  BY BoundsAssumption DEF TypeInv, TypeOK, Replaced
<1>2. \A n \in Note : Scheduled(n)' => (n # k /\ Scheduled(n)) \/ n = k
  BY <1>1 DEF SchedulesNone, SchedulesNew
<1>3. /\ \A m \in Note \ {k, last} : note'[m] = note[m]
      /\ note'[k].bubble = note[last].bubble /\ note'[last].bubble = note[last].bubble
      /\ memory' = (memory \ {last}) \cup {k}
  BY DEF Replaced
<1>4. /\ \A m \in memory \ {last} : note'[m].id \in -memoryIds..-1 /\ note'[m] = note[m]
                                    /\ note[m].id # note[last].id
      /\ note[last].id \in -memoryIds..-1
  BY <1>1, <1>3 DEF StoreInv, UniqueIds
<1>5. CASE /\ memoryIds' = memoryIds + 1 /\ note'[k].id = -(memoryIds + 1)
           /\ \/ rowIds' = rowIds + 1 /\ note'[last].id = rowIds + 1
              \/ note'[last].id = note[last].id /\ UNCHANGED rowIds
  <2>1. \A n \in Note \ {k} : Scheduled(n)' =>
          note'[n].id \in (-memoryIds..-1) \cup (1..rowIds')
    BY <1>1, <1>2, <1>3, <1>5 DEF OwnInv, ScheduledIds
  <2>2. ScheduledIds'
    BY <1>1, <1>5, <2>1 DEF ScheduledIds
  <2>3. ASSUME NEW m \in memory', NEW n \in Note, Scheduled(n)', note'[m].id = note'[n].id
        PROVE  note'[m].bubble = note'[n].bubble
    <3>1. CASE m = k /\ n # k
      BY <1>1, <1>5, <2>1, <2>3, <3>1
    <3>2. CASE m # k /\ n = k
      BY <1>1, <1>3, <1>4, <1>5, <2>3, <3>2
    <3>3. CASE m # k /\ n = last
      <4>1. m \in memory \ {last}
        BY <1>3, <3>3
      <4> QED
        BY <1>1, <1>4, <1>5, <2>3, <3>3, <4>1
    <3>4. CASE m # k /\ n \notin {k, last}
      BY <1>1, <1>2, <1>3, <1>4, <2>3, <3>4 DEF OwnInv, ExpiryHitsItsOwn
    <3> QED
      BY <3>1, <3>2, <3>3, <3>4
  <2> QED
    BY <2>2, <2>3 DEF OwnInv, ExpiryHitsItsOwn
<1>6. CASE note'[k].id = note[last].id /\ note'[last] = note[last] /\ UNCHANGED <<rowIds, memoryIds>>
  <2>1. ScheduledIds'
    BY <1>1, <1>2, <1>3, <1>4, <1>6 DEF OwnInv, ScheduledIds
  <2>2. ASSUME NEW m \in memory', NEW n \in Note, Scheduled(n)', note'[m].id = note'[n].id
        PROVE  note'[m].bubble = note'[n].bubble
    <3>1. CASE m = k /\ n # k
      <4>1. note[last].id = note[n].id /\ Scheduled(n) /\ note'[n].bubble = note[n].bubble
        BY <1>2, <1>3, <1>6, <2>2, <3>1
      <4> QED
        BY <1>1, <1>3, <3>1, <4>1 DEF OwnInv, ExpiryHitsItsOwn
    <3>2. CASE m # k /\ n = k
      BY <1>3, <1>4, <1>6, <2>2, <3>2
    <3>3. CASE m # k /\ n # k
      BY <1>1, <1>2, <1>3, <1>4, <1>6, <2>2, <3>3 DEF OwnInv, ExpiryHitsItsOwn
    <3> QED
      BY <3>1, <3>2, <3>3
  <2> QED
    BY <2>1, <2>2 DEF OwnInv, ExpiryHitsItsOwn
<1> QED
  BY <1>5, <1>6 DEF Replaced

LEMMA OwnStep == ~TransfersSilenced /\ TypeInv /\ StoreInv /\ OwnInv /\ [Next]_vars => OwnInv'
<1> SUFFICES ASSUME ~TransfersSilenced, TypeInv, StoreInv, OwnInv, [Next]_vars PROVE OwnInv'
  OBVIOUS
<1>1. SchedulesNone \/ SchedulesNew
  BY NextSchedules
<1>2. ASSUME count' = count PROVE SchedulesNone
  BY <1>1, <1>2 DEF SchedulesNew, TypeInv, TypeOK
<1>3. CASE UNCHANGED stores
  <2>1. SchedulesNone /\ UNCHANGED <<note, memory, memoryIds, rowIds>>
    BY <1>2, <1>3 DEF stores
  <2> QED
    BY <2>1 DEF SchedulesNone, OwnInv, ScheduledIds, ExpiryHitsItsOwn
<1>4. ASSUME NEW n \in Note, Leaving(n) PROVE OwnInv'
  <2>1. SchedulesNone
    BY <1>2, <1>4 DEF Leaving, Dropped, Filed, RowsGone
  <2> QED
    BY <1>4, <2>1, ClosingOwn
<1>5. ASSUME NEW k \in Note, Recorded(k) PROVE OwnInv'
  BY <1>1, <1>5, RecordedOwn
<1>6. ASSUME NEW k \in Note, NEW last \in Note, Replaced(k, last) PROVE OwnInv'
  BY <1>1, <1>6, ReplacedOwn
<1>7. CASE RowsGone
  <2>1. SchedulesNone /\ UNCHANGED <<note, memory, memoryIds, rowIds>>
    BY <1>2, <1>7 DEF RowsGone
  <2> QED
    BY <2>1 DEF SchedulesNone, OwnInv, ScheduledIds, ExpiryHitsItsOwn
<1>8. CASE Restart
  <2>1. \A n \in Note : ~Scheduled(n)'
    BY <1>8 DEF Restart, Scheduled, NoCall
  <2> QED
    BY <2>1 DEF OwnInv, ScheduledIds, ExpiryHitsItsOwn
<1> QED
  BY <1>3, <1>4, <1>5, <1>6, <1>7, <1>8, NextStores DEF StoreStep

\* The expiry of a notification closes no banner of another bubble, however the
\* ids of both change meanwhile, as long as no file transfer is silenced.
THEOREM ExpiryStaysOwn == ASSUME ~TransfersSilenced PROVE Spec => []ExpiryHitsItsOwn
<1>1. TypeInv /\ StoreInv /\ OwnInv /\ [Next]_vars => OwnInv'
  BY OwnStep
<1>2. OwnInv => ExpiryHitsItsOwn
  BY DEF OwnInv
<1>3. Spec => []TypeInv
  BY TypeInit, TypeStep, PTL DEF Spec
<1> QED
  BY <1>1, <1>2, <1>3, OwnInitially, StoresCorrect, PTL DEF Spec

-----------------------------------------------------------------------------
(* What is bound to expire.  Banners that stay on screen keep what they    *)
(* are made of, and what was scheduled for them.                           *)

\* What a step does to notifications that exist: a banner that stays changes
\* nothing, no other changes its bubble or becomes a replacement.
BannersKept ==
  /\ count' = count \/ count' = count + 1
  /\ \A m \in 1..count : note'[m].replace = note[m].replace /\ note'[m].bubble = note[m].bubble
  /\ \A n \in memory \cap memory' : note'[n] = note[n]
  /\ \A n \in memory' \ memory : n = count + 1 /\ count' = count + 1

LEMMA NextKeeps == ASSUME TypeInv, [Next]_vars PROVE BannersKept
<1>1. /\ note \in [Note -> Entities] /\ 1..count \subseteq Note /\ memory \subseteq 1..count
      /\ count \in Nat
  BY BoundsAssumption DEF TypeInv, TypeOK
<1>2. CASE UNCHANGED stores
  BY <1>2 DEF stores, BannersKept
<1>3. ASSUME NEW x \in Note, Dropped(x) PROVE BannersKept
  <2>1. PICK ty \in {"Processed", "Removed"} : note' = [note EXCEPT ![x].type = ty]
    BY <1>3 DEF Dropped
  <2>2. \A m \in Note : note'[m].replace = note[m].replace /\ note'[m].bubble = note[m].bubble
    BY <1>1, <2>1 DEF Entities
  <2>3. \A m \in Note \ {x} : note'[m] = note[m]
    BY <1>1, <2>1
  <2> QED
    BY <1>1, <1>3, <2>2, <2>3 DEF Dropped, BannersKept
<1>4. ASSUME NEW x \in Note, Filed(x) PROVE BannersKept
  <2>1. note' = [note EXCEPT ![x].type = "Processed", ![x].id = rowIds + 1]
    BY <1>4 DEF Filed
  <2>2. \A m \in Note : note'[m].replace = note[m].replace /\ note'[m].bubble = note[m].bubble
    BY <1>1, <2>1 DEF Entities
  <2>3. \A m \in Note \ {x} : note'[m] = note[m]
    BY <1>1, <2>1
  <2> QED
    BY <1>1, <1>4, <2>2, <2>3 DEF Filed, BannersKept
<1>5. CASE RowsGone
  BY <1>5 DEF RowsGone, BannersKept
<1>6. ASSUME NEW k \in Note, Recorded(k) PROVE BannersKept
  <2>1. \A m \in 1..count : note'[m] = note[m]
    BY <1>1, <1>6 DEF Recorded
  <2> QED
    BY <1>1, <1>6, <2>1 DEF Recorded, BannersKept
<1>7. ASSUME NEW k \in Note, NEW last \in Note, Replaced(k, last) PROVE BannersKept
  <2>1. \A m \in 1..count \ {last} : note'[m] = note[m]
    BY <1>1, <1>7 DEF Replaced
  <2>2. note'[last].bubble = note[last].bubble /\ note'[last].replace = note[last].replace
    BY <1>7 DEF Replaced
  <2> QED
    BY <1>1, <1>7, <2>1, <2>2 DEF Replaced, BannersKept
<1>8. CASE Restart
  BY <1>8 DEF Restart, BannersKept
<1> QED
  BY <1>2, <1>3, <1>4, <1>5, <1>6, <1>7, <1>8, NextStores DEF StoreStep, Leaving

\* Whoever was the sole banner of its bubble is still.
LEMMA SoleBefore ==
  ASSUME TypeInv, BannersKept, NEW n \in memory \cap memory', Sole(n)'
  PROVE  Sole(n)
<1>1. count \in Nat /\ 1..count \subseteq 1..count' /\ note'[n] = note[n]
  BY DEF TypeInv, TypeOK, BannersKept
<1>2. \A m \in 1..count : note'[m].replace = note[m].replace /\ note'[m].bubble = note[m].bubble
  BY DEF BannersKept
<1> QED
  BY <1>1, <1>2 DEF Sole

\* updateEntityProcessed for x leaves the expiry of another banner n alone, since
\* n has another id, and x is no replacement in the bubble of n.
LEMMA UpdateKeeps ==
  ASSUME TypeInv, StoreInv, BannersKept, NEW t \in Threads, NEW x \in Note, NEW work,
         UpdateEffect(t, x, work), x \in memory \cup db,
         NEW n \in memory \cap memory', Sole(n)',
         due[n] # NotPending \/ \E s \in Threads : n \in work[s]
  PROVE  Queued(n)'
<1>1. /\ n \in Note /\ x \in 1..count /\ count' = count
      /\ memory \subseteq Note /\ db \subseteq Note /\ note \in [Note -> Entities]
      /\ rowIds \in Nat /\ memoryIds \in Nat
  <2>1. StoreTypes(count) /\ count' = count
    BY ClosingTypes DEF TypeInv, UpdateEffect
  <2>2. /\ memory \subseteq 1..count /\ db \subseteq 1..count /\ count \in 0..MaxNotify
        /\ note \in [Note -> Entities] /\ rowIds \in Nat /\ memoryIds \in Nat
    BY DEF TypeInv, TypeOK
  <2>3. 1..count \subseteq Note
    BY <2>2, BoundsAssumption
  <2> QED
    BY <2>1, <2>2, <2>3
<1>2. Leaving(x)
  BY DEF UpdateEffect
<1>3. n # x /\ note'[n].id # note'[x].id
  <2>1. CASE Dropped(x)
    <3>1. n # x /\ note'[x].id = note[x].id /\ note'[n] = note[n] /\ x \in memory
      BY <1>1, <2>1 DEF Dropped, Entities
    <3> QED
      BY <3>1 DEF StoreInv, UniqueIds
  <2>2. CASE Filed(x)
    <3>1. n # x /\ note'[x].id = rowIds + 1 /\ note'[n] = note[n]
      BY <1>1, <2>2 DEF Filed, Entities
    <3>2. note[n].id \in -memoryIds..-1
      BY DEF StoreInv
    <3> QED
      BY <1>1, <3>1, <3>2
  <2>3. CASE x \in db /\ RowsGone
    BY <2>3 DEF RowsGone, StoreInv, UniqueIds
  <2> QED
    BY <1>2, <2>1, <2>2, <2>3 DEF Leaving
<1>4. ~(note[x].replace /\ note[n].bubble = note[x].bubble)
  <2>1. ~(note'[x].replace /\ note'[x].bubble = note'[n].bubble)
    BY <1>1, <1>3 DEF Sole
  <2> QED
    BY <1>1, <2>1 DEF BannersKept
<1>5. n \notin PendingOf(note'[x].id, note[x].replace, note[x].bubble)
  BY <1>3, <1>4 DEF PendingOf
<1>6. CASE due[n] # NotPending
  <2>1. due'[n] # NotPending \/ n \in todo'[t]
    BY <1>1, <1>5, <1>6 DEF UpdateEffect
  <2> QED
    BY <2>1 DEF Queued
<1>7. ASSUME NEW s \in Threads, n \in work[s] PROVE Queued(n)'
  BY <1>7 DEF UpdateEffect, Queued
<1> QED
  BY <1>6, <1>7

LEMMA ClosedKeeps ==
  ASSUME TypeInv, StoreInv, BannersKept, NEW t \in Threads, NEW id, NEW reason,
         NEW work \in [Threads -> SUBSET (1..count)], Closed(t, id, reason, work),
         NEW n \in memory \cap memory', Sole(n)',
         due[n] # NotPending \/ \E s \in Threads : n \in work[s]
  PROVE  Queued(n)'
<1>1. CASE todo' = work /\ UNCHANGED <<stores, expiry>>
  BY <1>1 DEF expiry, Queued
<1>2. ASSUME NEW x \in Fetched(id), UpdateEffect(t, x, work) PROVE Queued(n)'
  <2>1. x \in memory \cup db /\ x \in Note
    <3>1. memory \cup db \subseteq Note
      BY BoundsAssumption DEF TypeInv, TypeOK
    <3> QED
      BY <3>1 DEF Fetched, InMemory, InSource
  <2> QED
    BY <1>2, <2>1, UpdateKeeps
<1> QED
  BY <1>1, <1>2, ClosedFacts

\* The expiry of n, by id, takes n itself off the screen; that of another keeps
\* what was scheduled for n.
LEMMA HandOneKeeps ==
  ASSUME TypeInv, StoreInv, BannersKept, NEW t \in Threads, NEW y \in Note, HandOne(t, y),
         NEW n \in memory \cap memory', Sole(n)', Scheduled(n)
  PROVE  Scheduled(n)'
<1> DEFINE work == [todo EXCEPT ![t] = @ \ {y}]
<1>1. /\ n \in Note /\ work \in [Threads -> SUBSET (1..count)] /\ call' = call
      /\ memory \subseteq Note /\ note \in [Note -> Entities]
      /\ todo \in [Threads -> SUBSET (1..count)] /\ due \in [Note -> Delays]
  BY BoundsAssumption DEF HandOne, TypeInv, TypeOK, Delays
<1>2. n # y => \A s \in Threads : n \in todo[s] => n \in work[s]
  BY <1>1
<1>3. CASE note[y].id = blockClosedId
  <2>1. due' = [due EXCEPT ![y] = 0] /\ todo' = work
    BY <1>3 DEF HandOne
  <2>2. CASE n = y
    BY <1>1, <2>1, <2>2 DEF Scheduled
  <2>3. CASE n # y
    <3> HIDE DEF work
    <3>1. due'[n] = due[n]
      BY <1>1, <2>1, <2>3
    <3> QED
      BY <1>1, <1>2, <2>1, <2>3, <3>1 DEF Scheduled
  <2> QED
    BY <2>2, <2>3
<1>4. CASE note[y].id # blockClosedId
  <2>1. Closed(t, note[y].id, "Expired", work)
    BY <1>4 DEF HandOne
  <2> HIDE DEF work
  <2>2. CASE n = y
    <3>1. Fetched(note[n].id) = {n}
      BY DEF Fetched, InMemory, StoreInv, UniqueIds
    <3>2. UpdateEffect(t, n, work)
      BY <1>1, <2>1, <2>2, <3>1, ClosedFacts
    <3>3. n \notin memory'
      BY <3>2 DEF UpdateEffect, Leaving, Dropped, Filed, StoreInv
    <3> QED
      BY <3>3
  <2>3. CASE n # y /\ call.note = n
    BY <1>1, <2>3 DEF Scheduled
  <2>4. CASE n # y /\ call.note # n
    <3>1. due[n] # NotPending \/ \E s \in Threads : n \in work[s]
      BY <1>1, <1>2, <2>4 DEF Scheduled
    <3>2. Queued(n)'
      BY <1>1, <2>1, <3>1, ClosedKeeps
    <3> QED
      BY <1>1, <3>2, ScheduledIsQueued
  <2> QED
    BY <2>2, <2>3, <2>4
<1> QED
  BY <1>3, <1>4
LEMMA ReplaceKeeps ==
  ASSUME TypeInv, StoreInv, StoreInv', BannersKept, NEW c \in Contents,
         NEW b \in 1..replacesCount, NotifyReplace(c, b),
         NEW n \in memory \cap memory', Sole(n)', Scheduled(n)
  PROVE  Scheduled(n)'
<1> DEFINE k == count + 1
           id == note'[k].id
<1>1. /\ k \in Note /\ RemovePending("worker", id, TRUE, b, todo)
      /\ \E last \in Note : note[last].bubble = b /\ Replaced(k, last)
  BY NotifyReplaceReplaces
<1>2. /\ n \in 1..count /\ n # k /\ k \in memory' /\ count' = k /\ n \in Note
      /\ note'[k].bubble = b /\ note'[k].replace
  <2>1. /\ k \in memory' /\ count' = k /\ note'[k].bubble = b /\ note'[k].replace
    BY <1>1 DEF Replaced
  <2>2. n \in 1..count /\ n # k /\ n \in Note
    BY BoundsAssumption DEF TypeInv, TypeOK
  <2> QED
    BY <2>1, <2>2
<1>3. note'[n].id # id
  BY <1>2 DEF StoreInv, UniqueIds
<1>4. note[n].bubble # b
  <2>1. note'[n].bubble # b
    BY <1>2 DEF Sole, TypeInv, TypeOK
  <2> QED
    BY <2>1 DEF BannersKept
<1>5. n \notin PendingOf(id, TRUE, b)
  BY <1>3, <1>4 DEF PendingOf
<1>6. /\ due \in [Note -> Delays] /\ OnlyCreated(due, count) /\ count \in Nat
      /\ todo \in [Threads -> SUBSET (1..count)]
      /\ starts \in Seq(1..MaxDelay) /\ lastTimeoutPoint \in 0..Never /\ "worker" \in Threads
  BY BoundsAssumption DEF TypeInv, TypeOK, Delays
<1> HIDE DEF id
<1>7. /\ due[n] # NotPending => due'[n] # NotPending \/ n \in todo'["worker"]
      /\ \A s \in Threads : todo[s] \subseteq todo'[s]
  BY <1>1, <1>2, <1>5, <1>6, RemovePendingFacts
<1>8. call.note # n
  BY <1>2 DEF NotifyReplace, WorkerIdle, NoCall
<1> QED
  BY <1>6, <1>7, <1>8 DEF Scheduled

\* Handling what is due forgets nothing.
LEMMA HandKeeps ==
  ASSUME TypeInv, NEW t \in Threads, NEW d \in [Note -> Delays], OnlyCreated(d, count),
         HandPending(t, d, todo), call' = call,
         NEW n \in Note, Scheduled(n), due[n] # NotPending => d[n] # NotPending
  PROVE  Scheduled(n)'
<1>1. /\ count \in Nat /\ todo \in [Threads -> SUBSET (1..count)] /\ starts \in Seq(1..MaxDelay)
  BY BoundsAssumption DEF TypeInv, TypeOK
<1>2. /\ d[n] # NotPending => due'[n] # NotPending \/ n \in todo'[t]
      /\ \A s \in Threads : todo[s] \subseteq todo'[s]
  BY <1>1, HandPendingFacts
<1> QED
  BY <1>2 DEF Scheduled

LEMMA NextKeepsScheduled ==
  ASSUME TypeInv, StoreInv, [Next]_vars, NEW n \in memory \cap memory', Sole(n)', Scheduled(n),
         note[n].content.timeout # 0
  PROVE  Scheduled(n)'
<1>1. /\ todo \in [Threads -> SUBSET (1..count)] /\ memory \cup db \subseteq Note
      /\ due \in [Note -> Delays] /\ OnlyCreated(due, count) /\ n \in Note /\ n # 0
      /\ note \in [Note -> Entities]
  <2>1. /\ todo \in [Threads -> SUBSET (1..count)] /\ memory \cup db \subseteq 1..count
        /\ note \in [Note -> Entities] /\ OnlyCreated(due, count)
    BY DEF TypeInv, TypeOK
  <2>2. due \in [Note -> Delays]
    BY DEF TypeInv, TypeOK, Delays
  <2>3. 1..count \subseteq Note /\ \A m \in Note : m # 0
    BY BoundsAssumption DEF TypeInv, TypeOK
  <2> QED
    BY <2>1, <2>2, <2>3
<1>2. BannersKept /\ StoreInv'
  BY NextKeeps, StoreInvStep
<1>3. ASSUME NEW t \in Threads, NEW x \in memory \cup db, UpdateProcessed(t, x, "Removed", todo),
             call' = call
      PROVE  Scheduled(n)'
  <2>1. UpdateEffect(t, x, todo) /\ x \in Note
    BY <1>1, <1>3, UpdateProcessedFacts
  <2>2. CASE call.note = n
    BY <1>3, <2>2 DEF Scheduled
  <2>3. CASE call.note # n
    <3>1. due[n] # NotPending \/ \E s \in Threads : n \in todo[s]
      BY <2>3 DEF Scheduled
    <3>2. Queued(n)'
      BY <1>2, <2>1, <3>1, UpdateKeeps
    <3> QED
      BY <1>1, <3>2, ScheduledIsQueued
  <2> QED
    BY <2>2, <2>3
<1>4. ASSUME NEW c \in Contents, NotifyNew(c) PROVE Scheduled(n)'
  BY <1>1, <1>4 DEF NotifyNew, WorkerIdle, NoCall, Scheduled
<1>5. ASSUME NEW c \in Contents, NEW b \in 1..replacesCount, NotifyReplace(c, b) PROVE Scheduled(n)'
  BY <1>2, <1>5, ReplaceKeeps
<1>6. CASE NotifyEmit
  <2>1. UNCHANGED <<due, todo>>
    BY <1>6 DEF NotifyEmit, expiry
  <2>2. CASE call.note = n
    <3>1. call' = [call EXCEPT !.at = "push"]
      BY <1>6, <2>2 DEF NotifyEmit
    <3>2. call \in [note : 1..count, at : {"emit", "push"}]
      BY <1>6 DEF NotifyEmit, TypeInv, TypeOK, NoCall
    <3>3. call'.note = call.note
      BY <3>1, <3>2
    <3> QED
      BY <2>2, <3>3 DEF Scheduled
  <2> QED
    BY <2>1, <2>2 DEF Scheduled
<1>7. CASE NotifyPush
  <2>1. due' = [due EXCEPT ![call.note] = note[call.note].content.timeout] /\ todo' = todo
    BY <1>7 DEF NotifyPush
  <2>2. note[n].content.timeout \in 0..MaxDelay
    BY <1>1, ContentsAssumption DEF Entities
  <2>3. CASE call.note = n
    BY <1>1, <2>1, <2>2, <2>3, BoundsAssumption DEF Scheduled
  <2>4. CASE call.note # n
    BY <1>1, <2>1, <2>4 DEF Scheduled
  <2> QED
    BY <2>3, <2>4
<1>8. ASSUME NEW b \in 1..replacesCount, CloseNotification(b) PROVE Scheduled(n)'
  BY <1>3, <1>8 DEF CloseNotification, Last
<1>9. CASE StartTimer
  BY <1>9 DEF StartTimer, Scheduled
<1>10. CASE TimerFires
  BY <1>1, <1>10, HandKeeps DEF TimerFires
<1>11. ASSUME NEW t \in Threads, NEW y \in Note, HandOne(t, y) PROVE Scheduled(n)'
  BY <1>2, <1>11, HandOneKeeps
<1>12. ASSUME NEW id \in KnownIds, UserCloses(id) PROVE Scheduled(n)'
  <2>1. Closed("main", id, "Closed", todo) /\ call' = call /\ "main" \in Threads
    BY <1>12 DEF UserCloses
  <2>2. CASE call.note = n
    BY <2>1, <2>2 DEF Scheduled
  <2>3. CASE call.note # n
    <3>1. due[n] # NotPending \/ \E s \in Threads : n \in todo[s]
      BY <2>3 DEF Scheduled
    <3>2. Queued(n)'
      BY <1>1, <1>2, <2>1, <3>1, ClosedKeeps
    <3> QED
      BY <1>1, <3>2, ScheduledIsQueued
  <2> QED
    BY <2>2, <2>3
<1>13. ASSUME NEW id \in KnownIds, UserInvokes(id) PROVE Scheduled(n)'
  BY <1>3, <1>13 DEF UserInvokes, Fetched, InMemory, InSource
<1>14. ASSUME NEW id, SetBlockClosedId(id) PROVE Scheduled(n)'
  <2>1. PICK d \in {due} \cup {[due EXCEPT ![m] = BlockItemTimeout] :
                                 m \in {k \in Note : due[k] # NotPending}} :
          HandPending("main", d, todo)
    BY <1>14 DEF SetBlockClosedId
  <2>2. d \in [Note -> Delays] /\ OnlyCreated(d, count)
    BY <1>1, BoundsAssumption DEF Delays, OnlyCreated
  <2>3. due[n] # NotPending => d[n] # NotPending
    BY <1>1, BoundsAssumption
  <2>4. call' = call
    BY <1>14 DEF SetBlockClosedId
  <2> QED
    BY <1>1, <2>1, <2>2, <2>3, <2>4, HandKeeps
<1>15. ASSUME NEW S, RemoveRows(S) PROVE Scheduled(n)'
  BY <1>15 DEF RemoveRows, expiry, Scheduled
<1>16. CASE Tick
  <2>1. due[n] # NotPending => due'[n] # NotPending
    BY <1>1, <1>16, BoundsAssumption DEF Tick, Delays
  <2> QED
    BY <1>16, <2>1 DEF Tick, Scheduled
<1>17. CASE Restart
  BY <1>17 DEF Restart
<1>18. CASE UNCHANGED vars
  BY <1>18 DEF vars, Scheduled
<1>19. CASE Worker
  BY <1>4, <1>5, <1>6, <1>7, <1>8, <1>9, <1>10, <1>11, <1>19 DEF Worker
<1>20. CASE Main
  BY <1>11, <1>12, <1>13, <1>14, <1>15, <1>20 DEF Main, RemoveNotification,
     RemoveNotifications, RemoveExpiredNotifications, ClearNotifications
<1> QED
  BY <1>16, <1>17, <1>18, <1>19, <1>20 DEF Next

LEMMA ScheduledStep == TypeInv /\ StoreInv /\ BannersAreScheduled /\ [Next]_vars => BannersAreScheduled'
<1> SUFFICES ASSUME TypeInv, StoreInv, BannersAreScheduled, [Next]_vars,
                    NEW n \in memory', note'[n].content.timeout # 0, Sole(n)'
             PROVE  Scheduled(n)'
  BY DEF BannersAreScheduled
<1>1. BannersKept
  BY NextKeeps
<1>2. CASE n \notin memory
  <2>1. n = count + 1 /\ count' = count + 1 /\ count \in Nat
    BY <1>1, <1>2 DEF BannersKept, TypeInv, TypeOK
  <2>2. SchedulesNew
    BY <2>1, NextSchedules DEF SchedulesNone
  <2> QED
    BY <2>1, <2>2 DEF SchedulesNew, Scheduled
<1>3. CASE n \in memory
  <2>1. Sole(n) /\ note[n].content.timeout # 0
    BY <1>1, <1>3, SoleBefore DEF BannersKept
  <2>2. Scheduled(n)
    BY <1>3, <2>1 DEF BannersAreScheduled
  <2> QED
    BY <1>3, <2>1, <2>2, NextKeepsScheduled
<1> QED
  BY <1>2, <1>3

\* Every banner with a timeout is going to expire, whatever the two threads do
\* between the steps of its Notify, as long as its bubble has seen no other
\* replacement.
THEOREM BannersStayScheduled == Spec => []BannersAreScheduled
<1>1. Init => BannersAreScheduled
  BY DEF Init, BannersAreScheduled
<1> QED
  BY <1>1, ScheduledStep, StoresCorrect, TypeInit, TypeStep, PTL DEF Spec

-----------------------------------------------------------------------------
(* What the centre keeps of a banner that asked for it.                    *)

KeptStep ==
  \A n \in memory :
    /\ note[n].content.hint = "show" /\ ~note[n].content.bluetooth
    /\ n \notin memory' /\ restarts' = restarts
    => \/ n \in db'
       \/ note'[n].type = "Removed"
       \/ \E m \in memory' : note'[m].id = note[n].id

LEMMA NextKeepsInCenter == ASSUME TypeInv, [Next]_vars PROVE KeptStep
<1> SUFFICES ASSUME NEW n \in memory, note[n].content.hint = "show", ~note[n].content.bluetooth,
                    n \notin memory', restarts' = restarts
             PROVE  \/ n \in db'
                    \/ note'[n].type = "Removed"
                    \/ \E m \in memory' : note'[m].id = note[n].id
  BY DEF KeptStep
<1>1. note \in [Note -> Entities] /\ n \in Note
  BY BoundsAssumption DEF TypeInv, TypeOK
<1>2. ASSUME NEW x \in Note, Dropped(x) PROVE note'[n].type = "Removed"
  <2>1. PICK ty \in {"Processed", "Removed"} :
          /\ note' = [note EXCEPT ![x].type = ty]
          /\ ty = "Removed" \/ note[x].content.hint # "show" \/ note[x].content.bluetooth
    BY <1>2 DEF Dropped
  <2>2. n = x
    BY <1>2 DEF Dropped
  <2> QED
    BY <1>1, <2>1, <2>2 DEF Entities
<1>3. ASSUME NEW x \in Note, Filed(x) PROVE n \in db'
  BY <1>3 DEF Filed
<1>4. ASSUME NEW k \in Note, NEW last \in Note, Replaced(k, last)
      PROVE  n \in db' \/ \E m \in memory' : note'[m].id = note[n].id
  BY <1>4 DEF Replaced
<1>5. CASE UNCHANGED stores \/ RowsGone
  BY <1>5 DEF stores, RowsGone
<1>6. ASSUME NEW k \in Note, Recorded(k) PROVE FALSE
  BY <1>6 DEF Recorded
<1>7. CASE Restart
  BY <1>7 DEF Restart, TypeInv, TypeOK
<1> QED
  BY <1>2, <1>3, <1>4, <1>5, <1>6, <1>7, NextStores DEF StoreStep, Leaving, RowsGone

\* No step of either thread takes a banner that asked for the centre off the
\* screen without a row, a removal or a successor that takes its id.
THEOREM CenterKeepsBanners == Spec => KeptInCenter
<1>1. TypeInv /\ [Next]_vars => KeptStep
  BY NextKeepsInCenter
<1> QED
  BY <1>1, TypeInit, TypeStep, PTL DEF Spec, KeptInCenter, KeptStep

-----------------------------------------------------------------------------
(* Rows.                                                                   *)

\* Every row of r is one of s, and no higher there.
Within(r, s) == \A j \in DOMAIN r : \E h \in DOMAIN s : j <= h /\ r[j] = s[h]

LEMMA RowOf == ASSUME NEW S, NEW s \in Seq(S), NEW i \in DOMAIN s PROVE s[i] \in S
OBVIOUS

LEMMA WithoutRows ==
  ASSUME NEW S, NEW s \in Seq(S), NEW i \in DOMAIN s
  PROVE  /\ Model!Without(s, i) \in Seq(S)
         /\ Within(Model!Without(s, i), s)
         /\ \A x \in Model!Listed(s) : x = s[i] \/ x \in Model!Listed(Model!Without(s, i))
<1> DEFINE n == Len(s) - 1
           t == Model!Without(s, i)
<1>1. n \in Nat /\ DOMAIN s = 1..n + 1 /\ \A k \in 1..n + 1 : s[k] \in S
  OBVIOUS
<1>2. t = [j \in 1..n |-> IF j < i THEN s[j] ELSE s[j + 1]]
  BY DEF Model!Without
<1>3. t \in Seq(S) /\ Len(t) = n /\ DOMAIN t = 1..n
  BY <1>1, <1>2
<1>4. Within(t, s)
  BY <1>1, <1>2, <1>3 DEF Within
<1>5. ASSUME NEW h \in DOMAIN s, h # i PROVE s[h] \in Model!Listed(t)
  <2>1. CASE h < i
    BY <1>1, <1>2, <1>3, <2>1 DEF Model!Listed
  <2>2. CASE h > i
    <3>1. h - 1 \in DOMAIN t /\ t[h - 1] = s[h]
      BY <1>1, <1>2, <1>3, <2>2
    <3> QED
      BY <3>1 DEF Model!Listed
  <2> QED
    BY <1>1, <1>5, <2>1, <2>2
<1> QED
  BY <1>3, <1>4, <1>5 DEF Model!Listed

LEMMA WithoutFirstRows ==
  ASSUME NEW S, NEW s \in Seq(S), NEW B
  PROVE  /\ Model!WithoutFirst(s, B) \in Seq(S)
         /\ Within(Model!WithoutFirst(s, B), s)
         /\ \A x \in Model!Listed(s) : x \in B \/ x \in Model!Listed(Model!WithoutFirst(s, B))
<1>1. CASE Model!Listed(s) \cap B = {}
  BY <1>1 DEF Model!WithoutFirst, Within
<1>2. CASE Model!Listed(s) \cap B # {}
  <2> DEFINE P == {i \in DOMAIN s : s[i] \in B}
             i == CHOOSE i \in DOMAIN s : s[i] \in B /\ \A j \in 1..i-1 : s[j] \notin B
  <2>1. P # {} /\ P \in SUBSET Nat
    BY <1>2 DEF Model!Listed
  <2>2. PICK m \in P : \A j \in P : m <= j
    BY <2>1, LeastOfNonempty
  <2>3. m \in DOMAIN s /\ s[m] \in B /\ \A j \in 1..m-1 : s[j] \notin B
    <3>1. m \in 1..Len(s) /\ Len(s) \in Nat /\ DOMAIN s = 1..Len(s)
      BY <2>2
    <3>2. ASSUME NEW j \in 1..m-1 PROVE s[j] \notin B
      <4>1. j \in DOMAIN s /\ ~(m <= j)
        BY <3>1
      <4> QED
        BY <2>2, <4>1
    <3> QED
      BY <2>2, <3>1, <3>2
  <2>4. i \in DOMAIN s /\ s[i] \in B
    BY <2>3
  <2>5. Model!WithoutFirst(s, B) = Model!Without(s, i)
    BY <1>2, Zenon DEF Model!WithoutFirst
  <2> HIDE DEF i
  <2> QED
    BY <2>4, <2>5, WithoutRows
<1> QED
  BY <1>1, <1>2

LEMMA WithinTransitive ==
  ASSUME NEW S, NEW q \in Seq(S), NEW r \in Seq(S), NEW s \in Seq(S), Within(q, r), Within(r, s)
  PROVE  Within(q, s)
<1> SUFFICES ASSUME NEW j \in DOMAIN q PROVE \E h \in DOMAIN s : j <= h /\ q[j] = s[h]
  BY DEF Within
<1>1. PICK k \in DOMAIN r : j <= k /\ q[j] = r[k]
  BY DEF Within
<1>2. PICK h \in DOMAIN s : k <= h /\ r[k] = s[h]
  BY DEF Within
<1> QED
  BY <1>1, <1>2

\* What a state signal takes away: at most a row with its id.
LEMMA ClosingRows ==
  ASSUME NEW S, NEW s \in Seq(S), NEW sig
  PROVE  /\ Closing(s, sig) \in Seq(S)
         /\ Within(Closing(s, sig), s)
         /\ \A x \in Model!Listed(s) :
              \/ x \in Model!Listed(Closing(s, sig))
              \/ sig.type \in {"Processed", "Removed"} /\ note'[x].id = sig.id
<1>1. CASE sig.type \in {"Processed", "Removed"}
  <2> DEFINE B == {n \in Note : note'[n].id = sig.id}
  <2>1. Closing(s, sig) = Model!WithoutFirst(s, B)
    BY <1>1 DEF Closing
  <2>2. \A x \in B : note'[x].id = sig.id
    OBVIOUS
  <2> HIDE DEF B
  <2> QED
    BY <1>1, <2>1, <2>2, WithoutFirstRows
<1>2. CASE ~(sig.type \in {"Processed", "Removed"})
  BY <1>2 DEF Closing, Within
<1> QED
  BY <1>1, <1>2

\* The rows go down by one; only a last row at the limit is pushed off.
LEMMA InsertedRows ==
  ASSUME NEW S, m_bubbles \in Seq(S), m_maxKeep \in Nat, m_maxKeep > 0, NEW x \in S
  PROVE  /\ Model!Inserted(x) \in Seq(S) /\ Model!Inserted(x) # <<>>
         /\ \A j \in DOMAIN Model!Inserted(x) :
              \/ j = 1 /\ Model!Inserted(x)[j] = x
              \/ j - 1 \in DOMAIN m_bubbles /\ Model!Inserted(x)[j] = m_bubbles[j - 1]
         /\ x \in Model!Listed(Model!Inserted(x))
         /\ \A y \in Model!Listed(m_bubbles) :
              \/ y \in Model!Listed(Model!Inserted(x))
              \/ m_maxKeep <= Len(m_bubbles) /\ y = m_bubbles[Len(m_bubbles)]
<1> DEFINE last == Len(m_bubbles)
           kept == IF last >= m_maxKeep /\ m_bubbles # <<>>
                   THEN Model!Without(m_bubbles, last) ELSE m_bubbles
           new == Model!Inserted(x)
<1>1. new = <<x>> \o kept /\ last \in Nat /\ DOMAIN m_bubbles = 1..last
  BY DEF Model!Inserted
<1>2. /\ kept \in Seq(S)
      /\ \A j \in DOMAIN kept : j \in DOMAIN m_bubbles /\ kept[j] = m_bubbles[j]
      /\ \A h \in DOMAIN m_bubbles : h \in DOMAIN kept \/ (m_maxKeep <= last /\ h = last)
  <2>1. CASE last >= m_maxKeep /\ m_bubbles # <<>>
    <3>1. kept = [j \in 1..last - 1 |-> m_bubbles[j]]
      BY <1>1, <2>1 DEF Model!Without
    <3>2. kept \in Seq(S) /\ DOMAIN kept = 1..last - 1
      BY <1>1, <3>1
    <3> QED
      BY <1>1, <2>1, <3>1, <3>2
  <2>2. CASE ~(last >= m_maxKeep /\ m_bubbles # <<>>)
    BY <1>1, <2>2
  <2> QED
    BY <2>1, <2>2
<1> HIDE DEF kept, last
<1>3. /\ new \in Seq(S) /\ DOMAIN new = 1..Len(kept) + 1 /\ new[1] = x
      /\ \A j \in DOMAIN kept : new[j + 1] = kept[j]
  BY <1>1, <1>2
<1>4. Len(kept) \in Nat /\ DOMAIN kept = 1..Len(kept)
  BY <1>2
<1> HIDE DEF new
<1>5. new # <<>>
  BY <1>3, <1>4
<1>6. \A j \in DOMAIN new : (j = 1 /\ new[j] = x) \/ (j - 1 \in DOMAIN kept /\ new[j] = kept[j - 1])
  BY <1>3, <1>4
<1>7. x \in Model!Listed(new) /\ \A j \in DOMAIN kept : kept[j] \in Model!Listed(new)
  BY <1>3, <1>4 DEF Model!Listed
<1>8. \A y \in Model!Listed(m_bubbles) :
        y \in Model!Listed(new) \/ (m_maxKeep <= last /\ y = m_bubbles[last])
  BY <1>2, <1>7 DEF Model!Listed
<1> QED
  BY <1>2, <1>3, <1>5, <1>6, <1>7, <1>8 DEF new, last

-----------------------------------------------------------------------------
(* What a step of the server announces.                                    *)

\* The worker starts a Notify, goes on with one, or does something else; a
\* closing that is announced leaves no banner with its id.
Notified == /\ count' = count + 1 /\ call = NoCall /\ call' = [note |-> count + 1, at |-> "emit"]
            /\ signal' = NoSignal
Quiet == /\ count' = count /\ signal' = NoSignal
         /\ call' = call \/ (call.at = "push" /\ call' = NoCall)
Closes == /\ count' = count /\ call' = call
          /\ signal'.type \in {"Processed", "Removed"}
          /\ \E x \in 1..count : signal'.id = note'[x].id
          /\ \A n \in memory' : note'[n].id # signal'.id
Announces == restarts' = restarts /\ (Notified \/ NotifyEmit \/ Quiet \/ Closes)

LEMMA LeavingAlone ==
  ASSUME TypeInv, StoreInv, NEW x \in memory \cup db, Leaving(x)
  PROVE  \A n \in memory' : note'[n].id # note'[x].id
<1>1. /\ memory \subseteq Note /\ db \subseteq Note /\ note \in [Note -> Entities] /\ rowIds \in Nat
      /\ memoryIds \in Nat
  BY BoundsAssumption DEF TypeInv, TypeOK
<1>2. CASE Dropped(x)
  <2>1. x \in memory /\ memory' = memory \ {x}
    BY <1>2 DEF Dropped
  <2>2. \A m \in Note : note'[m].id = note[m].id
    BY <1>1, <1>2 DEF Dropped, Entities
  <2>3. \A n \in memory \ {x} : note[n].id # note[x].id
    BY <2>1 DEF StoreInv, UniqueIds
  <2>4. ASSUME NEW n \in memory' PROVE note'[n].id # note'[x].id
    <3>1. n \in memory \ {x} /\ n \in Note /\ x \in Note
      BY <1>1, <2>1
    <3> QED
      BY <2>2, <2>3, <3>1, Zenon
  <2> QED
    BY <2>4
<1>3. CASE Filed(x)
  <2>1. /\ x \in memory /\ memory' = memory \ {x} /\ note'[x].id = rowIds + 1
        /\ \A m \in Note \ {x} : note'[m] = note[m]
    BY <1>1, <1>3 DEF Filed, Entities
  <2>2. ASSUME NEW n \in memory' PROVE note'[n].id # note'[x].id
    <3>1. n \in memory \ {x} /\ note'[n] = note[n]
      BY <1>1, <2>1
    <3>2. note[n].id < 0
      BY <1>1, <3>1 DEF StoreInv
    <3> QED
      BY <1>1, <2>1, <3>1, <3>2
  <2> QED
    BY <2>2
<1>4. CASE x \in db /\ RowsGone
  BY <1>4 DEF RowsGone, StoreInv, UniqueIds
<1> QED
  BY <1>2, <1>3, <1>4 DEF Leaving

LEMMA UpdateCloses ==
  ASSUME TypeInv, StoreInv, NEW t, NEW x \in memory \cup db, NEW work, UpdateEffect(t, x, work),
         call' = call
  PROVE  Closes
<1>1. memory \cup db \subseteq 1..count /\ 1..count \subseteq Note
  BY BoundsAssumption DEF TypeInv, TypeOK
<1>2. count' = count
  BY <1>1, ClosingTypes DEF TypeInv, UpdateEffect
<1>3. \A n \in memory' : note'[n].id # note'[x].id
  BY LeavingAlone DEF UpdateEffect
<1> QED
  BY <1>1, <1>2, <1>3 DEF UpdateEffect, Closes

LEMMA ClosedAnnounces ==
  ASSUME TypeInv, StoreInv, NEW t \in Threads, NEW id, NEW reason,
         NEW work \in [Threads -> SUBSET (1..count)], Closed(t, id, reason, work), call' = call
  PROVE  Quiet \/ Closes
<1>1. CASE signal' = NoSignal /\ UNCHANGED <<stores, expiry>>
  BY <1>1 DEF Quiet, stores
<1>2. ASSUME NEW x \in Fetched(id), UpdateEffect(t, x, work) PROVE Closes
  <2>1. x \in memory \cup db
    BY DEF Fetched, InMemory, InSource
  <2> QED
    BY <1>2, <2>1, UpdateCloses
<1> QED
  BY <1>1, <1>2, ClosedFacts

LEMMA HandOneAnnounces ==
  ASSUME TypeInv, StoreInv, NEW t \in Threads, NEW n \in Note, HandOne(t, n)
  PROVE  restarts' = restarts /\ (Quiet \/ Closes)
<1> DEFINE work == [todo EXCEPT ![t] = @ \ {n}]
<1>1. /\ restarts' = restarts /\ call' = call
      /\ work \in [Threads -> SUBSET (1..count)]
  BY DEF HandOne, TypeInv, TypeOK
<1>2. CASE note[n].id = blockClosedId
  <2>1. signal' = NoSignal /\ count' = count
    BY <1>2 DEF HandOne, stores
  <2> QED
    BY <1>1, <2>1 DEF Quiet
<1>3. CASE note[n].id # blockClosedId
  <2>1. Closed(t, note[n].id, "Expired", work)
    BY <1>3 DEF HandOne
  <2> HIDE DEF work
  <2> QED
    BY <1>1, <2>1, ClosedAnnounces
<1> QED
  BY <1>1, <1>2, <1>3

LEMMA RemovalCloses ==
  ASSUME TypeInv, StoreInv, NEW t \in Threads, NEW x \in memory \cup db,
         UpdateProcessed(t, x, "Removed", todo), call' = call
  PROVE  Closes
<1>1. todo \in [Threads -> SUBSET (1..count)]
  BY DEF TypeInv, TypeOK
<1>2. UpdateEffect(t, x, todo)
  BY <1>1, UpdateProcessedFacts
<1> QED
  BY <1>2, UpdateCloses

LEMMA WorkerAnnounces == ASSUME TypeInv, StoreInv, Worker PROVE Announces
<1>1. ASSUME NEW c \in Contents, NotifyNew(c) PROVE Announces
  BY <1>1 DEF NotifyNew, WorkerIdle, Notified, Announces
<1>2. ASSUME NEW c \in Contents, NEW b \in 1..replacesCount, NotifyReplace(c, b) PROVE Announces
  BY <1>2 DEF NotifyReplace, WorkerIdle, Notified, Announces
<1>3. CASE NotifyEmit
  BY <1>3 DEF NotifyEmit, Announces
<1>4. CASE NotifyPush
  BY <1>4 DEF NotifyPush, stores, Quiet, Announces
<1>5. ASSUME NEW b \in 1..replacesCount, CloseNotification(b) PROVE Announces
  BY <1>5, RemovalCloses DEF CloseNotification, Last, Announces
<1>6. CASE StartTimer
  BY <1>6 DEF StartTimer, stores, Quiet, Announces
<1>7. CASE TimerFires
  BY <1>7 DEF TimerFires, stores, Quiet, Announces
<1>8. ASSUME NEW n \in Note, HandOne("worker", n) PROVE Announces
  BY <1>8, HandOneAnnounces DEF Announces
<1> QED
  BY <1>1, <1>2, <1>3, <1>4, <1>5, <1>6, <1>7, <1>8 DEF Worker

LEMMA InvokeAnnounces ==
  ASSUME TypeInv, StoreInv, NEW id, UserInvokes(id) PROVE restarts' = restarts /\ Closes
BY RemovalCloses DEF UserInvokes, Fetched, InMemory, InSource

LEMMA CloseAnnounces ==
  ASSUME TypeInv, StoreInv, NEW id, UserCloses(id) PROVE restarts' = restarts /\ (Quiet \/ Closes)
<1>1. todo \in [Threads -> SUBSET (1..count)]
  BY DEF TypeInv, TypeOK
<1> QED
  BY <1>1, ClosedAnnounces DEF UserCloses

\* Moving the pointer, and time, announce nothing.
LEMMA HoverAnnounces == ASSUME NEW id, SetBlockClosedId(id) PROVE restarts' = restarts /\ Quiet
BY DEF SetBlockClosedId, stores, Quiet

LEMMA TickAnnounces == ASSUME Tick PROVE restarts' = restarts /\ Quiet
BY DEF Tick, stores, Quiet

-----------------------------------------------------------------------------
(* The panel and the server together.                                      *)

\* The sorts of the panel.  Only rows that wait keep the timer running, so that
\* none of them is overtaken.
PanelTypes ==
  /\ m_bubbles \in Seq(1..count) /\ m_pendingBubbles \in Seq(1..count)
  /\ m_processPendingTimer \in BOOLEAN /\ m_updateTimeTipTimer \in BOOLEAN
  /\ m_maxKeep \in {n + 2 : n \in BubbleCounts}
  /\ m_pendingBubbles # <<>> => m_processPendingTimer
  /\ queue \in Seq([id : Int, type : {"NotProcessed", "Processed", "Removed"}])
  /\ visible \in BOOLEAN /\ enabled \in BOOLEAN
  /\ hides \in Nat

LEMMA RowsAreKnown ==
  ASSUME TypeInv, PanelTypes, NEW i \in Rows
  PROVE  m_bubbles[i] \in 1..count /\ note[m_bubbles[i]].id \in KnownIds
<1>1. m_bubbles \in Seq(1..count) /\ i \in DOMAIN m_bubbles
  BY DEF PanelTypes, Rows
<1> QED
  BY <1>1, RowOf DEF KnownIds

\* The panel asks nothing of the server that the server's model leaves out.
LEMMA PanelServes ==
  ASSUME TypeInv, PanelTypes, [PanelNext]_allVars
  PROVE  [Next]_vars /\ restarts' = restarts
<1> USE RowsAreKnown
<1>1. CASE WorkerStep
  <2>1. Worker /\ Next
    BY <1>1 DEF WorkerStep, Next
  <2>2. restarts' = restarts
    BY <2>1 DEF Worker, NotifyNew, NotifyReplace, NotifyEmit, NotifyPush, CloseNotification,
                StartTimer, TimerFires, HandOne
  <2> QED
    BY <2>1, <2>2
<1>2. CASE MainStep
  <2>1. ASSUME NEW n \in Note, HandOne("main", n) PROVE Next /\ restarts' = restarts
    BY <2>1 DEF HandOne, Next, Main
  <2>2. ASSUME NEW n \in db, UserInvokes(note[n].id) PROVE Next /\ restarts' = restarts
    <3>1. note[n].id \in KnownIds
      BY DEF KnownIds, TypeInv, TypeOK
    <3> QED
      BY <2>2, <3>1 DEF UserInvokes, Next, Main
  <2> QED
    BY <1>2, <2>1, <2>2 DEF MainStep
<1>3. ASSUME NEW i \in Rows, Close(i) PROVE Next /\ restarts' = restarts
  BY <1>3 DEF Close, UserCloses, Next, Main
<1>4. ASSUME NEW i \in Rows, InvokeAction(i) PROVE Next /\ restarts' = restarts
  BY <1>4 DEF InvokeAction, UserInvokes, Next, Main
<1>5. ASSUME NEW i \in Rows \cup {0}, SetHoveredId(i) PROVE Next /\ restarts' = restarts
  <2>1. PICK id \in KnownIds \cup {InvalidId} : SetBlockClosedId(id)
    BY <1>5 DEF SetHoveredId
  <2> QED
    BY <2>1 DEF SetBlockClosedId, Next, Main
<1>6. CASE TimePasses
  BY <1>6 DEF TimePasses, Tick, Next
<1>7. CASE UNCHANGED vars
  BY <1>7 DEF vars
<1>8. CASE UNCHANGED allVars
  BY <1>7, <1>8 DEF allVars
<1>9. CASE Deliver \/ ProcessPending \/ HideTimeout \/ \E on \in BOOLEAN : SetEnabled(on)
  BY <1>7, <1>9 DEF Deliver, ProcessPending, HideTimeout, SetEnabled
<1> QED
  BY <1>1, <1>2, <1>3, <1>4, <1>5, <1>6, <1>8, <1>9 DEF PanelNext

\* A call of the main thread: rows go up, and those that go were closed.
Direct ==
  /\ restarts' = restarts /\ (Quiet \/ Closes)
  /\ m_bubbles' \in Seq(1..count) /\ Within(m_bubbles', m_bubbles)
  /\ \A x \in Model!Listed(m_bubbles) : x \in Model!Listed(m_bubbles') \/ x \notin memory'
  /\ RowsChanged
  /\ UNCHANGED <<m_pendingBubbles, m_processPendingTimer, m_updateTimeTipTimer, m_maxKeep,
                 queue, enabled>>

LEMMA ClosingAway ==
  ASSUME Quiet \/ Closes, NEW S, NEW s \in Seq(S)
  PROVE  /\ Closing(s, signal') \in Seq(S) /\ Within(Closing(s, signal'), s)
         /\ \A x \in Model!Listed(s) : x \in Model!Listed(Closing(s, signal')) \/ x \notin memory'
<1>1. \A x : signal'.type \in {"Processed", "Removed"} /\ note'[x].id = signal'.id => x \notin memory'
  BY DEF Quiet, Closes, NoSignal
<1>2. /\ Closing(s, signal') \in Seq(S) /\ Within(Closing(s, signal'), s)
      /\ \A x \in Model!Listed(s) :
           \/ x \in Model!Listed(Closing(s, signal'))
           \/ signal'.type \in {"Processed", "Removed"} /\ note'[x].id = signal'.id
  BY ClosingRows, ZenonT(60)
<1> QED
  BY <1>1, <1>2, ZenonT(60)

LEMMA LeavesMemory ==
  ASSUME TypeInv, StoreInv, NEW n \in 1..count, NEW x \in Fetched(note[n].id), Leaving(x)
  PROVE  n \notin memory'
<1>1. memory' \subseteq memory
  BY DEF Leaving, Dropped, Filed, RowsGone
<1>2. ASSUME n \in memory PROVE n \notin memory'
  <2>1. x \in memory /\ note[x].id = note[n].id
    BY <1>2 DEF Fetched, InMemory
  <2>2. x = n /\ x \notin db
    BY <1>2, <2>1 DEF StoreInv, UniqueIds
  <2> QED
    BY <2>2 DEF Leaving, Dropped, Filed
<1> QED
  BY <1>1, <1>2

LEMMA CloseLeaves ==
  ASSUME TypeInv, StoreInv, NEW n \in 1..count, UserCloses(note[n].id) \/ UserInvokes(note[n].id)
  PROVE  n \notin memory'
<1>1. todo \in [Threads -> SUBSET (1..count)]
  BY DEF TypeInv, TypeOK
<1>2. CASE Fetched(note[n].id) = {} /\ UNCHANGED <<stores, expiry>>
  BY <1>2 DEF Fetched, InMemory, stores
<1>3. ASSUME NEW x \in Fetched(note[n].id), UpdateEffect("main", x, todo) PROVE n \notin memory'
  BY <1>3, LeavesMemory DEF UpdateEffect
<1>4. CASE UserCloses(note[n].id)
  <2>1. Closed("main", note[n].id, "Closed", todo)
    BY <1>4 DEF UserCloses
  <2> QED
    BY <1>1, <1>2, <1>3, <2>1, ClosedFacts
<1>5. CASE UserInvokes(note[n].id)
  <2>1. PICK x \in Fetched(note[n].id) : UpdateProcessed("main", x, "Removed", todo)
    BY <1>5 DEF UserInvokes
  <2>2. x \in memory \cup db
    BY <2>1 DEF Fetched, InMemory, InSource
  <2> QED
    BY <1>1, <1>3, <2>1, <2>2, UpdateProcessedFacts
<1> QED
  BY <1>4, <1>5

LEMMA MainIsDirect == ASSUME TypeInv, StoreInv, PanelTypes, MainStep PROVE Direct
<1>1. restarts' = restarts /\ (Quiet \/ Closes)
  BY HandOneAnnounces, InvokeAnnounces DEF MainStep
<1>2. m_bubbles \in Seq(1..count) /\ m_bubbles' = Closing(m_bubbles, signal')
  BY DEF PanelTypes, MainStep
<1> QED
  BY <1>1, <1>2, ClosingAway DEF MainStep, Direct

LEMMA ClosingIsDirect ==
  ASSUME TypeInv, StoreInv, PanelTypes, NEW i \in Rows, Close(i) \/ InvokeAction(i)
  PROVE  Direct
<1> DEFINE n == m_bubbles[i]
           rest == Model!Without(m_bubbles, i)
<1>1. n \in 1..count /\ (UserCloses(note[n].id) \/ UserInvokes(note[n].id))
  BY RowsAreKnown DEF Close, InvokeAction
<1>2. restarts' = restarts /\ (Quiet \/ Closes) /\ n \notin memory'
  BY <1>1, CloseAnnounces, InvokeAnnounces, CloseLeaves
<1>3. /\ m_bubbles \in Seq(1..count) /\ i \in DOMAIN m_bubbles
      /\ m_bubbles' = Closing(rest, signal')
  BY DEF PanelTypes, Rows, Close, InvokeAction
<1>4. /\ rest \in Seq(1..count) /\ Within(rest, m_bubbles)
      /\ \A x \in Model!Listed(m_bubbles) : x = n \/ x \in Model!Listed(rest)
  BY <1>3, WithoutRows
<1> HIDE DEF rest, n
<1>5. /\ m_bubbles' \in Seq(1..count) /\ Within(m_bubbles', rest)
      /\ \A x \in Model!Listed(rest) : x \in Model!Listed(m_bubbles') \/ x \notin memory'
  BY <1>2, <1>3, <1>4, ClosingAway
<1>6. Within(m_bubbles', m_bubbles)
  BY <1>3, <1>4, <1>5, WithinTransitive
<1> QED
  BY <1>2, <1>4, <1>5, <1>6 DEF Close, InvokeAction, Direct

\* Everything else leaves the rows, and what is queued, as they are.
Aside ==
  /\ UNCHANGED <<stores, call, listVars, queue>>
  /\ \/ UNCHANGED <<visible, enabled, hides>>
     \/ HideTimeout
     \/ \E on \in BOOLEAN : SetEnabled(on)

LEMMA PanelKinds ==
  ASSUME TypeInv, StoreInv, PanelTypes, [PanelNext]_allVars
  PROVE  (WorkerStep /\ Announces) \/ Direct \/ Deliver \/ ProcessPending \/ Aside
<1>1. CASE WorkerStep
  BY <1>1, WorkerAnnounces DEF WorkerStep
<1>2. CASE MainStep \/ \E i \in Rows : Close(i) \/ InvokeAction(i)
  BY <1>2, MainIsDirect, ClosingIsDirect
<1>3. CASE HideTimeout \/ \E on \in BOOLEAN : SetEnabled(on)
  BY <1>3 DEF HideTimeout, SetEnabled, Aside, vars, stores
<1>4. CASE TimePasses
  BY <1>4 DEF TimePasses, Tick, Aside, panelVars
<1>5. ASSUME NEW i \in Rows \cup {0}, SetHoveredId(i) PROVE Aside
  BY <1>5 DEF SetHoveredId, SetBlockClosedId, Aside, panelVars
<1>6. CASE UNCHANGED allVars
  BY <1>6 DEF allVars, vars, stores, panelVars, Aside
<1> QED
  BY <1>1, <1>2, <1>3, <1>4, <1>5, <1>6 DEF PanelNext

-----------------------------------------------------------------------------
(* What is on screen in memory.                                            *)

\* Only what asks to be shown is in memory, and only there does a notification
\* have an id of memory.
HeapInv ==
  /\ \A n \in 1..count : note[n].type # "None"
  /\ \A n \in memory : note[n].type = "NotProcessed"

LEMMA HeapInitially == Init => HeapInv
BY DEF Init, HeapInv

LEMMA HeapStep == TypeInv /\ HeapInv /\ [Next]_vars => HeapInv'
<1> SUFFICES ASSUME TypeInv, HeapInv, [Next]_vars PROVE HeapInv'
  OBVIOUS
<1>1. /\ note \in [Note -> Entities] /\ 1..count \subseteq Note /\ memory \subseteq 1..count
      /\ count \in Nat
  BY BoundsAssumption DEF TypeInv, TypeOK
<1> USE DEF HeapInv
<1>2. CASE UNCHANGED stores \/ RowsGone \/ Restart
  BY <1>2 DEF stores, RowsGone, Restart
<1>3. ASSUME NEW x \in Note, Dropped(x) \/ Filed(x) PROVE HeapInv'
  <2>1. /\ count' = count /\ memory' = memory \ {x}
        /\ \A m \in Note \ {x} : note'[m] = note[m]
        /\ note'[x].type \in {"Processed", "Removed"}
    BY <1>1, <1>3 DEF Dropped, Filed, Entities
  <2> QED
    BY <1>1, <2>1
<1>4. ASSUME NEW k \in Note, Recorded(k) PROVE HeapInv'
  <2>1. /\ k = count + 1 /\ count' = k /\ memory' \subseteq memory \cup {k}
        /\ \A m \in 1..count : note'[m] = note[m]
        /\ note'[k].type \in {"NotProcessed", "Processed"}
        /\ k \in memory' => note'[k].type = "NotProcessed"
    BY <1>1, <1>4 DEF Recorded
  <2> QED
    BY <1>1, <2>1
<1>5. ASSUME NEW k \in Note, NEW last \in Note, Replaced(k, last) PROVE HeapInv'
  <2>1. /\ k = count + 1 /\ count' = k /\ last \in memory /\ memory' = (memory \ {last}) \cup {k}
        /\ \A m \in 1..count \ {last} : note'[m] = note[m]
        /\ note'[k].type = "NotProcessed" /\ note'[last].type \in {note[last].type, "Processed"}
    BY <1>1, <1>5 DEF Replaced
  <2>2. \A m \in 1..count : note'[m].type # "None"
    BY <1>1, <2>1
  <2>3. \A m \in memory \ {last} : note'[m].type = "NotProcessed"
    BY <1>1, <2>1
  <2> QED
    BY <1>1, <2>1, <2>2, <2>3
<1> QED
  BY <1>2, <1>3, <1>4, <1>5, NextStores DEF StoreStep, Leaving

-----------------------------------------------------------------------------
(* The sorts of the panel.                                                 *)

LEMMA HeadAndTail ==
  ASSUME NEW S, NEW s \in Seq(S), s # <<>> PROVE Head(s) \in S /\ Tail(s) \in Seq(S)
OBVIOUS

LEMMA SeqWider == ASSUME NEW S, NEW T, S \subseteq T, NEW s \in Seq(S) PROVE s \in Seq(T)
OBVIOUS

LEMMA MaxKeepIsPositive == ASSUME PanelTypes PROVE m_maxKeep \in Nat /\ m_maxKeep > 0
BY PanelCountsAssumption DEF PanelTypes

LEMMA FetchedExist ==
  ASSUME TypeInv, NEW id, NEW n \in Fetched(id) PROVE n \in 1..count /\ note[n].id = id
BY DEF TypeInv, TypeOK, Fetched, InMemory, InSource

LEMMA VisibilityTypes ==
  ASSUME visible \in BOOLEAN, enabled \in BOOLEAN, hides \in Nat, RowsChanged
  PROVE  visible' \in BOOLEAN /\ hides' \in Nat
BY DEF RowsChanged

LEMMA EmitsExisting == TypeInv /\ call.at = "emit" => call.note \in 1..count
<1> SUFFICES ASSUME TypeInv, call.at = "emit" PROVE call.note \in 1..count
  OBVIOUS
<1>1. call # NoCall
  BY DEF NoCall
<1>2. call \in [note : 1..count, at : {"emit", "push"}]
  BY <1>1 DEF TypeInv, TypeOK
<1> QED
  BY <1>2

LEMMA PostedTypes ==
  ASSUME TypeInv, TypeInv', HeapInv, Announces, signal' # NoSignal
  PROVE  [id |-> signal'.id, type |-> signal'.type]
           \in [id : Int, type : {"NotProcessed", "Processed", "Removed"}]
<1>1. signal'.id \in Int
  BY DEF TypeInv, TypeOK
<1>2. signal'.type \in {"NotProcessed", "Processed", "Removed"}
  <2>1. CASE NotifyEmit
    <3>1. call.note \in 1..count /\ 1..count \subseteq Note
      <4>1. call.note \in 1..count /\ count \in 0..MaxNotify /\ MaxNotify \in Nat
        BY <2>1, EmitsExisting, BoundsAssumption DEF NotifyEmit, TypeInv, TypeOK
      <4> QED
        BY <4>1
    <3>2. note[call.note] \in Entities /\ note[call.note].type # "None"
      BY <3>1 DEF HeapInv, TypeInv, TypeOK
    <3> QED
      BY <2>1, <3>2 DEF NotifyEmit, Entities
  <2> QED
    BY <2>1 DEF Announces, Notified, Quiet, Closes
<1> QED
  BY <1>1, <1>2

\* The rows and the queue of bubbles after a call of addBubble.
ListTypes(c) ==
  /\ m_bubbles' \in Seq(1..c) /\ m_pendingBubbles' \in Seq(1..c)
  /\ m_processPendingTimer' \in BOOLEAN /\ m_updateTimeTipTimer' \in BOOLEAN
  /\ m_maxKeep' = m_maxKeep
  /\ m_pendingBubbles' # <<>> => m_processPendingTimer'

LEMMA InsertedTypes ==
  ASSUME PanelTypes, NEW x \in 1..count PROVE Model!Inserted(x) \in Seq(1..count)
<1>1. m_bubbles \in Seq(1..count) /\ m_maxKeep \in Nat /\ m_maxKeep > 0
  BY MaxKeepIsPositive DEF PanelTypes
<1> QED
  BY <1>1, InsertedRows

LEMMA PushTypes ==
  ASSUME PanelTypes, NEW x \in 1..count, Model!Push(x) PROVE ListTypes(count)
<1>1. m_bubbles \in Seq(1..count) /\ m_pendingBubbles \in Seq(1..count)
  BY DEF PanelTypes
<1>2. Append(m_pendingBubbles, x) \in Seq(1..count)
  BY <1>1
<1> QED
  BY <1>1, <1>2, InsertedTypes DEF Model!Push, PanelTypes, ListTypes

LEMMA ReplaceTypes ==
  ASSUME PanelTypes, NEW x \in 1..count, NEW i, Model!ReplaceBubble(x, i)
  PROVE  ListTypes(count) /\ m_bubbles # <<>> /\ m_bubbles' # <<>>
<1>1. m_bubbles \in Seq(1..count) /\ m_pendingBubbles \in Seq(1..count) /\ i \in DOMAIN m_bubbles
      /\ m_bubbles' = [m_bubbles EXCEPT ![i] = x]
  BY DEF PanelTypes, Model!ReplaceBubble
<1>2. m_bubbles' \in Seq(1..count) /\ Len(m_bubbles') = Len(m_bubbles) /\ Len(m_bubbles) > 0
  BY <1>1
<1>3. m_bubbles # <<>> /\ m_bubbles' # <<>>
  BY <1>1, <1>2
<1> QED
  BY <1>1, <1>2, <1>3 DEF Model!ReplaceBubble, PanelTypes, ListTypes

LEMMA AddBubbleTypes ==
  ASSUME TypeInv, PanelTypes, NEW id, AddBubble(id)
  PROVE  ListTypes(count) /\ visible' \in BOOLEAN /\ hides' \in Nat
<1>1. visible \in BOOLEAN /\ enabled \in BOOLEAN /\ hides \in Nat
  BY DEF PanelTypes
<1>2. CASE UNCHANGED <<listVars, visible, hides>>
  BY <1>2 DEF listVars, PanelTypes, ListTypes
<1>3. ASSUME NEW n \in Fetched(id), Model!Push(n), RowsChanged
      PROVE  ListTypes(count) /\ visible' \in BOOLEAN /\ hides' \in Nat
  BY <1>1, <1>3, FetchedExist, PushTypes, VisibilityTypes
<1>4. ASSUME NEW n \in Fetched(id), NEW i \in ReplacedRows(n), Model!ReplaceBubble(n, i),
             UNCHANGED <<visible, hides>>
      PROVE  ListTypes(count) /\ visible' \in BOOLEAN /\ hides' \in Nat
  BY <1>1, <1>4, FetchedExist, ReplaceTypes
<1> QED
  BY <1>2, <1>3, <1>4 DEF AddBubble

LEMMA ProcessPendingTypes ==
  ASSUME PanelTypes, ProcessPending PROVE ListTypes(count) /\ visible' \in BOOLEAN /\ hides' \in Nat
<1>1. m_bubbles \in Seq(1..count) /\ m_pendingBubbles \in Seq(1..count)
  BY DEF PanelTypes
<1>2. CASE m_pendingBubbles # <<>>
  <2>1. Head(m_pendingBubbles) \in 1..count /\ Tail(m_pendingBubbles) \in Seq(1..count)
    BY <1>1, <1>2, HeadAndTail
  <2> QED
    BY <1>1, <1>2, <2>1, InsertedTypes, VisibilityTypes
       DEF ProcessPending, Model!ProcessPending, PanelTypes, ListTypes
<1>3. CASE m_pendingBubbles = <<>>
  BY <1>1, <1>3, VisibilityTypes DEF ProcessPending, Model!ProcessPending, PanelTypes, ListTypes
<1> QED
  BY <1>2, <1>3

LEMMA DeliverTypes ==
  ASSUME TypeInv, PanelTypes, Deliver
  PROVE  /\ ListTypes(count) /\ visible' \in BOOLEAN /\ hides' \in Nat
         /\ queue' \in Seq([id : Int, type : {"NotProcessed", "Processed", "Removed"}])
<1> DEFINE sig == Head(queue)
<1>1. queue' \in Seq([id : Int, type : {"NotProcessed", "Processed", "Removed"}])
  BY HeadAndTail DEF Deliver, PanelTypes
<1>2. CASE AddBubble(sig.id)
  BY <1>1, <1>2, AddBubbleTypes
<1>3. CASE ~(sig.type = "NotProcessed")
  <2>1. PICK B : m_bubbles' = Model!WithoutFirst(m_bubbles, B) /\ RowsChanged
    BY <1>3 DEF Deliver
  <2>2. m_bubbles' \in Seq(1..count)
    BY <2>1, WithoutFirstRows DEF PanelTypes
  <2>3. UNCHANGED <<m_pendingBubbles, m_processPendingTimer, m_updateTimeTipTimer, m_maxKeep>>
    BY <1>3 DEF Deliver
  <2> QED
    BY <1>1, <2>1, <2>2, <2>3, VisibilityTypes DEF PanelTypes, ListTypes
<1> QED
  BY <1>2, <1>3 DEF Deliver

LEMMA TypesOfPanel ==
  ASSUME PanelTypes, NEW c \in Nat, NEW d \in Nat, c <= d, count' = d, ListTypes(c),
         queue' \in Seq([id : Int, type : {"NotProcessed", "Processed", "Removed"}]),
         visible' \in BOOLEAN, enabled' \in BOOLEAN, hides' \in Nat
  PROVE  PanelTypes'
<1>1. 1..c \subseteq 1..d
  OBVIOUS
<1>2. m_bubbles' \in Seq(1..d) /\ m_pendingBubbles' \in Seq(1..d)
  BY <1>1, SeqWider DEF ListTypes
<1> QED
  BY <1>2 DEF PanelTypes, ListTypes

LEMMA PanelTypeStep ==
  TypeInv /\ TypeInv' /\ StoreInv /\ HeapInv /\ PanelTypes /\ [PanelNext]_allVars => PanelTypes'
<1> SUFFICES ASSUME TypeInv, TypeInv', StoreInv, HeapInv, PanelTypes, [PanelNext]_allVars
             PROVE  PanelTypes'
  OBVIOUS
<1> DEFINE Signals == [id : Int, type : {"NotProcessed", "Processed", "Removed"}]
<1>1. /\ count \in Nat /\ count' \in Nat /\ count <= count'
      /\ visible \in BOOLEAN /\ enabled \in BOOLEAN /\ hides \in Nat /\ queue \in Seq(Signals)
  <2>1. BannersKept
    BY PanelServes, NextKeeps
  <2> QED
    BY <2>1 DEF BannersKept, TypeInv, TypeOK, PanelTypes
<1>3. UNCHANGED listVars => ListTypes(count)
  BY DEF listVars, PanelTypes, ListTypes
<1>4. CASE WorkerStep /\ Announces
  <2>1. queue' \in Seq(Signals)
    <3>1. CASE signal' = NoSignal
      BY <1>1, <1>4, <3>1 DEF WorkerStep
    <3>2. CASE signal' # NoSignal
      <4>1. [id |-> signal'.id, type |-> signal'.type] \in Signals
        BY <1>4, <3>2, PostedTypes
      <4>2. queue' = Append(queue, [id |-> signal'.id, type |-> signal'.type])
        BY <1>4, <3>2 DEF WorkerStep
      <4> HIDE DEF Signals
      <4> QED
        BY <1>1, <4>1, <4>2
    <3> QED
      BY <3>1, <3>2
  <2> QED
    BY <1>1, <1>3, <1>4, <2>1, TypesOfPanel DEF WorkerStep
<1>5. CASE Direct
  <2>1. ListTypes(count)
    BY <1>5 DEF Direct, PanelTypes, ListTypes
  <2> QED
    BY <1>1, <1>5, <2>1, VisibilityTypes, TypesOfPanel DEF Direct
<1>6. CASE Deliver
  BY <1>1, <1>6, DeliverTypes, TypesOfPanel DEF Deliver
<1>7. CASE ProcessPending
  BY <1>1, <1>7, ProcessPendingTypes, TypesOfPanel DEF ProcessPending
<1>8. CASE Aside
  <2>1. visible' \in BOOLEAN /\ enabled' \in BOOLEAN /\ hides' \in Nat
    <3>1. CASE HideTimeout
      <4>1. visible' = FALSE \/ visible' = visible
        BY <3>1 DEF HideTimeout
      <4>2. hides > 0 /\ hides' = hides - 1 /\ enabled' = enabled
        BY <3>1 DEF HideTimeout
      <4>3. visible' \in BOOLEAN /\ enabled' \in BOOLEAN
        BY <1>1, <4>1, <4>2
      <4> QED
        BY <1>1, <4>2, <4>3
    <3>2. ASSUME NEW on \in BOOLEAN, SetEnabled(on)
          PROVE  visible' \in BOOLEAN /\ enabled' \in BOOLEAN /\ hides' = hides
      <4>1. visible' = (m_bubbles # <<>> /\ on) /\ enabled' = on /\ hides' = hides
        BY <3>2 DEF SetEnabled
      <4>2. visible' = TRUE \/ visible' = FALSE
        BY <4>1, Zenon
      <4> QED
        BY <4>1, <4>2
    <3> QED
      BY <1>1, <1>8, <3>1, <3>2 DEF Aside
  <2>2. count' = count
    BY <1>8 DEF Aside, stores
  <2> QED
    BY <1>1, <1>3, <1>8, <2>1, <2>2, TypesOfPanel DEF Aside
<1> QED
  BY <1>4, <1>5, <1>6, <1>7, <1>8, PanelKinds

-----------------------------------------------------------------------------
(* The panel is a part of the system that the server's theorems are about, *)
(* and its state has its sort.                                             *)

PanelInv == TypeInv /\ StoreInv /\ HeapInv /\ PanelTypes

LEMMA PanelInitially == PanelInit => PanelInv
<1> SUFFICES ASSUME PanelInit PROVE PanelInv
  OBVIOUS
<1>1. TypeInv /\ StoreInv /\ HeapInv
  BY TypeInit, StoreInitially, HeapInitially DEF PanelInit
<1>2. /\ m_bubbles = <<>> /\ m_pendingBubbles = <<>> /\ queue = <<>> /\ hides = 0
      /\ m_maxKeep \in {n + 2 : n \in BubbleCounts}
      /\ m_processPendingTimer \in BOOLEAN /\ m_updateTimeTipTimer \in BOOLEAN
      /\ visible \in BOOLEAN /\ enabled \in BOOLEAN
  BY DEF PanelInit, Model!Init
<1>3. \A S : <<>> \in Seq(S)
  OBVIOUS
<1>4. PanelTypes
  BY <1>2, <1>3 DEF PanelTypes
<1> QED
  BY <1>1, <1>4 DEF PanelInv

LEMMA PanelInvStep == PanelInv /\ [PanelNext]_allVars => PanelInv'
BY PanelServes, TypeStep, StoreInvStep, HeapStep, PanelTypeStep DEF PanelInv

LEMMA PanelCorrect == PanelSpec => []PanelInv
BY PanelInitially, PanelInvStep, PTL DEF PanelSpec

\* The panel composed with the server does nothing to the server that the
\* server's own specification does not allow: what its theorems say of ids,
\* records and expiries holds with banners on screen.
THEOREM PanelKeepsServer == PanelSpec => Spec
<1>1. PanelInit => Init
  BY DEF PanelInit
<1>2. PanelInv /\ [PanelNext]_allVars => [Next]_vars
  BY PanelServes DEF PanelInv
<1> QED
  BY <1>1, <1>2, PanelCorrect, PTL DEF PanelSpec, Spec

LEMMA PanelInvSorts == PanelInv => PanelTypeOK
<1> SUFFICES ASSUME PanelInv PROVE PanelTypeOK
  OBVIOUS
<1>1. 1..count \subseteq Note
  BY BoundsAssumption DEF PanelInv, TypeInv, TypeOK
<1>2. m_bubbles \in Seq(Note) /\ m_pendingBubbles \in Seq(Note)
  BY <1>1, SeqWider DEF PanelInv, PanelTypes
<1> QED
  BY <1>2 DEF PanelInv, PanelTypes, PanelTypeOK, Model!TypeOK

\* The rows hold entities of the server, and every signal that is posted is a
\* state that a notification can be in.
THEOREM PanelTypesCorrect == PanelSpec => []PanelTypeOK
BY PanelInvSorts, PanelCorrect, PTL

-----------------------------------------------------------------------------
(* The panel and its rows.                                                 *)

LEMMA RowsChangedTracks ==
  ASSUME PanelInv, VisibleTracksRows, RowsChanged, enabled' = enabled
  PROVE  VisibleTracksRows'
<1>1. hides \in Nat
  BY DEF PanelInv, PanelTypes
<1> QED
  BY <1>1 DEF RowsChanged, VisibleTracksRows

LEMMA AddBubbleTracks ==
  ASSUME PanelInv, VisibleTracksRows, NEW id, AddBubble(id), enabled' = enabled
  PROVE  VisibleTracksRows'
<1>1. CASE UNCHANGED <<listVars, visible, hides>>
  BY <1>1 DEF listVars, VisibleTracksRows
<1>2. CASE RowsChanged
  BY <1>2, RowsChangedTracks
<1>3. ASSUME NEW n \in Fetched(id), NEW i \in ReplacedRows(n), Model!ReplaceBubble(n, i),
             UNCHANGED <<visible, hides>>
      PROVE  VisibleTracksRows'
  <2>1. m_bubbles # <<>> /\ m_bubbles' # <<>>
    BY <1>3, FetchedExist, ReplaceTypes DEF PanelInv
  <2> QED
    BY <1>3, <2>1 DEF VisibleTracksRows
<1> QED
  BY <1>1, <1>2, <1>3 DEF AddBubble

LEMMA TracksStep == PanelInv /\ VisibleTracksRows /\ [PanelNext]_allVars => VisibleTracksRows'
<1> SUFFICES ASSUME PanelInv, VisibleTracksRows, [PanelNext]_allVars PROVE VisibleTracksRows'
  OBVIOUS
<1>1. CASE UNCHANGED <<m_bubbles, visible, enabled, hides>>
  BY <1>1 DEF VisibleTracksRows
<1>2. CASE WorkerStep
  BY <1>1, <1>2 DEF WorkerStep, listVars
<1>3. CASE Direct \/ ProcessPending
  BY <1>3, RowsChangedTracks DEF Direct, ProcessPending
<1>4. CASE Deliver
  BY <1>4, RowsChangedTracks, AddBubbleTracks DEF Deliver
<1>5. CASE Aside
  <2>1. CASE HideTimeout
    BY <2>1 DEF HideTimeout, listVars, VisibleTracksRows
  <2>2. ASSUME NEW on \in BOOLEAN, SetEnabled(on) PROVE VisibleTracksRows'
    BY <2>2, Zenon DEF SetEnabled, listVars, VisibleTracksRows
  <2> QED
    BY <1>1, <1>5, <2>1, <2>2 DEF Aside, listVars
<1> QED
  BY <1>2, <1>3, <1>4, <1>5, PanelKinds DEF PanelInv

\* The panel window follows its rows, whichever of addBubble, close, the pending
\* timer, a signal or the notification centre changes them, and in any order
\* with the delayed hide.
THEOREM PanelTracksRows == PanelSpec => []VisibleTracksRows
<1>1. PanelInit => VisibleTracksRows
  BY DEF PanelInit, Model!Init, VisibleTracksRows
<1> QED
  BY <1>1, TracksStep, PanelCorrect, PTL DEF PanelSpec

-----------------------------------------------------------------------------
(* Ids and the signals on their way.                                       *)

\* A notification that is created has an id that no signal names yet, or takes
\* over that of the banner it succeeds.
Fresh(k) ==
  /\ k \in memory' \cup db'
  /\ \/ note'[k].id > 0 /\ note'[k].type = "Processed"
     \/ note'[k].id \in -memoryIds'..(-memoryIds - 1)
     \/ \E last \in memory : note'[k].id = note[last].id /\ note'[k].bubble = note[last].bubble

StoresMove ==
  /\ memoryIds <= memoryIds'
  /\ \A n \in 1..count :
       /\ note'[n].id = note[n].id \/ note'[n].id > 0
       /\ note'[n].type = "NotProcessed" => note'[n].id = note[n].id /\ note[n].type = "NotProcessed"
  /\ \A n \in memory' : n \in memory \/ n = count + 1
  /\ count' = count \/ (count' = count + 1 /\ Fresh(count + 1))

LEMMA LeavingMoves ==
  ASSUME TypeInv, NEW x \in Note, Leaving(x) PROVE StoresMove
<1>1. /\ note \in [Note -> Entities] /\ 1..count \subseteq Note /\ memoryIds \in Nat /\ rowIds \in Nat
  BY BoundsAssumption DEF TypeInv, TypeOK
<1>2. CASE Dropped(x)
  <2>1. /\ \A m \in Note : note'[m].id = note[m].id
        /\ \A m \in Note : note'[m].type = "NotProcessed" => note[m].type = "NotProcessed"
    BY <1>1, <1>2 DEF Dropped, Entities
  <2> QED
    BY <1>1, <1>2, <2>1 DEF Dropped, StoresMove
<1>3. CASE Filed(x)
  <2>1. /\ \A m \in Note \ {x} : note'[m] = note[m]
        /\ note'[x].id = rowIds + 1 /\ note'[x].type = "Processed"
    BY <1>1, <1>3 DEF Filed, Entities
  <2> QED
    BY <1>1, <1>3, <2>1 DEF Filed, StoresMove
<1>4. CASE RowsGone
  BY <1>1, <1>4 DEF RowsGone, StoresMove
<1> QED
  BY <1>2, <1>3, <1>4 DEF Leaving

LEMMA NextMoves ==
  ASSUME ~TransfersSilenced, TypeInv, [Next]_vars, restarts' = restarts PROVE StoresMove
<1>1. /\ note \in [Note -> Entities] /\ 1..count \subseteq Note /\ memoryIds \in Nat
      /\ rowIds \in Nat /\ count \in Nat /\ memory \subseteq 1..count
  BY BoundsAssumption DEF TypeInv, TypeOK
<1>2. CASE UNCHANGED stores \/ RowsGone
  <2>1. UNCHANGED <<count, note, memory, memoryIds>>
    BY <1>2 DEF stores, RowsGone
  <2> QED
    BY <1>1, <2>1 DEF StoresMove
<1>3. ASSUME NEW k \in Note, Recorded(k) PROVE StoresMove
  <2>1. k = count + 1 /\ count' = k /\ \A m \in 1..count : note'[m] = note[m]
    BY <1>1, <1>3 DEF Recorded
  <2>2. memoryIds <= memoryIds' /\ \A n \in memory' : n \in memory \/ n = k
    BY <1>1, <1>3 DEF Recorded
  <2>3. Fresh(k)
    BY <1>1, <1>3 DEF Recorded, Fresh
  <2> QED
    BY <2>1, <2>2, <2>3 DEF StoresMove
<1>4. ASSUME NEW k \in Note, NEW last \in Note, Replaced(k, last) PROVE StoresMove
  <2>1. /\ k = count + 1 /\ count' = k /\ last \in memory /\ memory' = (memory \ {last}) \cup {k}
        /\ \A m \in 1..count \ {last} : note'[m] = note[m]
    BY <1>1, <1>4 DEF Replaced
  <2>2. memoryIds <= memoryIds' /\ Fresh(k)
    BY <1>1, <1>4 DEF Replaced, Fresh
  <2>3. /\ note'[last].id = note[last].id \/ note'[last].id > 0
        /\ note'[last].type = "NotProcessed"
             => note'[last].id = note[last].id /\ note[last].type = "NotProcessed"
    BY <1>1, <1>4 DEF Replaced
  <2> QED
    BY <1>1, <2>1, <2>2, <2>3 DEF StoresMove
<1>5. CASE Restart
  BY <1>5 DEF Restart, TypeInv, TypeOK
<1> QED
  BY <1>2, <1>3, <1>4, <1>5, NextStores, LeavingMoves DEF StoreStep

\* The Notify in progress is that of a step ago, unless it begins.
CallKept == call' # NoCall => call # NoCall /\ call'.note = call.note

LEMMA PanelCalls ==
  ASSUME PanelInv, [PanelNext]_allVars PROVE Notified \/ (count' = count /\ CallKept)
<1>1. CASE NotifyEmit
  <2>1. call # NoCall /\ call \in [note : 1..count, at : {"emit", "push"}]
    BY <1>1 DEF NotifyEmit, NoCall, PanelInv, TypeInv, TypeOK
  <2> QED
    BY <1>1, <2>1 DEF NotifyEmit, stores, CallKept
<1>2. CASE Quiet \/ Closes
  BY <1>2 DEF Quiet, Closes, NoCall, CallKept
<1>3. CASE UNCHANGED vars \/ UNCHANGED <<stores, call>>
  BY <1>3 DEF vars, stores, CallKept
<1> QED
  BY <1>1, <1>2, <1>3, PanelKinds DEF PanelInv, Announces, Direct, Deliver, ProcessPending, Aside

\* Ids are given out downwards, and the Notify in progress shares its id with no
\* banner but its own.
IdInv ==
  /\ \A n \in 1..count : -memoryIds <= note[n].id
  /\ \A n \in 1..count : note[n].type = "NotProcessed" => note[n].id < 0
  /\ call # NoCall => \A m \in memory \ {call.note} : note[m].id # note[call.note].id

LEMMA IdsAreInts ==
  ASSUME PanelInv PROVE memory \subseteq 1..count /\ \A n \in 1..count : note[n].id \in Int
<1>1. note \in [Note -> Entities] /\ 1..count \subseteq Note /\ memory \subseteq 1..count
  <2>1. note \in [Note -> Entities] /\ memory \subseteq 1..count /\ count \in 0..MaxNotify
    BY DEF PanelInv, TypeInv, TypeOK
  <2> QED
    BY <2>1, BoundsAssumption
<1> QED
  BY <1>1 DEF Entities

LEMMA IdsStayInts ==
  ASSUME PanelInv' PROVE memory' \subseteq 1..count' /\ \A n \in 1..count' : note'[n].id \in Int
<1>1. note' \in [Note -> Entities] /\ 1..count' \subseteq Note /\ memory' \subseteq 1..count'
  <2>1. note' \in [Note -> Entities] /\ memory' \subseteq 1..count' /\ count' \in 0..MaxNotify
    BY DEF PanelInv, TypeInv, TypeOK
  <2> QED
    BY <2>1, BoundsAssumption
<1> QED
  BY <1>1 DEF Entities

LEMMA IdStep ==
  ASSUME PanelInv, PanelInv', IdInv, StoresMove, Notified \/ (count' = count /\ CallKept)
  PROVE  IdInv'
<1>1. /\ count \in Nat /\ memory \subseteq 1..count /\ memoryIds \in Nat /\ memoryIds' \in Nat
      /\ memory' \subseteq 1..count'
  <2>1. count \in Nat /\ memory \subseteq 1..count /\ memoryIds \in Nat
    <3>1. TypeOK
      BY DEF PanelInv, TypeInv
    <3> QED
      BY <3>1, BoundsAssumption DEF TypeOK
  <2>2. memoryIds' \in Nat /\ memory' \subseteq 1..count'
    <3>1. TypeOK'
      BY DEF PanelInv, TypeInv
    <3> QED
      BY <3>1 DEF TypeOK
  <2> QED
    BY <2>1, <2>2
<1>2. /\ \A n \in 1..count : note[n].id \in Int /\ note'[n].id \in Int
      /\ count' \in Nat /\ count <= count'
  BY <1>1, IdsAreInts, IdsStayInts DEF StoresMove
<1>3. /\ \A n \in memory : note[n].id \in -memoryIds..-1
      /\ \A n \in memory' : note'[n].id \in -memoryIds'..-1
      /\ \A m, n \in memory' \cup db' : note'[m].id = note'[n].id => m = n
  BY DEF PanelInv, StoreInv, UniqueIds
<1>4. ASSUME NEW n \in 1..count
      PROVE  /\ -memoryIds' <= note'[n].id
             /\ note'[n].type = "NotProcessed" => note'[n].id < 0
  <2>1. -memoryIds <= note[n].id /\ (note[n].type = "NotProcessed" => note[n].id < 0)
    BY DEF IdInv
  <2>2. /\ memoryIds <= memoryIds'
        /\ note'[n].id = note[n].id \/ note'[n].id > 0
        /\ note'[n].type = "NotProcessed"
             => note'[n].id = note[n].id /\ note[n].type = "NotProcessed"
    BY DEF StoresMove
  <2> QED
    BY <1>1, <1>2, <2>1, <2>2
<1>5. CASE count' = count + 1
  <2> DEFINE k == count + 1
  <2>1. Fresh(k) /\ call'.note = k
    BY <1>1, <1>5 DEF StoresMove, Notified
  <2>2. -memoryIds' <= note'[k].id /\ (note'[k].type = "NotProcessed" => note'[k].id < 0)
    <3>1. memoryIds <= memoryIds' /\ note'[k].id \in Int
      BY <1>1, <1>5, IdsStayInts DEF StoresMove
    <3>2. CASE note'[k].id > 0 /\ note'[k].type = "Processed"
      BY <1>1, <3>1, <3>2
    <3>3. CASE note'[k].id \in -memoryIds'..(-memoryIds - 1)
      BY <1>1, <3>1, <3>3
    <3>4. ASSUME NEW last \in memory, note'[k].id = note[last].id
          PROVE  -memoryIds' <= note'[k].id /\ note'[k].id < 0
      BY <1>1, <1>3, <3>1, <3>4
    <3> QED
      BY <2>1, <3>2, <3>3, <3>4 DEF Fresh
  <2>3. \A m \in memory' \ {k} : note'[m].id # note'[k].id
    BY <1>3, <2>1 DEF Fresh
  <2>4. \A n \in 1..count' : n \in 1..count \/ n = k
    BY <1>1, <1>5
  <2> HIDE DEF k
  <2> QED
    BY <1>4, <2>1, <2>2, <2>3, <2>4 DEF IdInv
<1>6. CASE count' = count
  <2>1. ASSUME call' # NoCall, NEW m \in memory' \ {call'.note}
        PROVE  note'[m].id # note'[call'.note].id
    <3>1. call # NoCall /\ call'.note = call.note
      BY <1>1, <1>6, <2>1 DEF Notified, CallKept
    <3>2. call.note \in 1..count
      BY <3>1 DEF PanelInv, TypeInv, TypeOK
    <3>3. m \in memory /\ note'[m].id < 0
      BY <1>1, <1>3, <1>6 DEF StoresMove
    <3>4. note'[m].id = note[m].id
      <4>1. m \in 1..count /\ (note'[m].id = note[m].id \/ note'[m].id > 0)
        BY <1>1, <3>3 DEF StoresMove
      <4> QED
        BY <1>2, <3>3, <4>1
    <3>5. note[m].id # note[call.note].id
      BY <2>1, <3>1, <3>3 DEF IdInv
    <3>6. note'[call.note].id = note[call.note].id \/ note'[call.note].id > 0
      BY <3>2 DEF StoresMove
    <3>7. note'[call.note].id \in Int /\ note'[m].id \in Int
      BY <1>1, <1>2, <3>2, <3>3
    <3> QED
      BY <3>1, <3>3, <3>4, <3>5, <3>6, <3>7
  <2> QED
    BY <1>4, <1>6, <2>1 DEF IdInv
<1> QED
  BY <1>5, <1>6 DEF StoresMove

\* A signal on its way: an announcement names an id of memory, a closing none
\* that a banner has.
SignalSound(s, ids, mem, f) ==
  /\ -ids <= s.id
  /\ s.type = "NotProcessed" => s.id < 0
  /\ s.type # "NotProcessed" => \A n \in mem : f[n].id # s.id

QueueInv == \A q \in DOMAIN queue : SignalSound(queue[q], memoryIds, memory, note)

LEMMA SoundStays ==
  ASSUME PanelInv, PanelInv', StoresMove, NEW s, s.id \in Int,
         SignalSound(s, memoryIds, memory, note)
  PROVE  SignalSound(s, memoryIds', memory', note')
<1>1. /\ count \in Nat /\ memory \subseteq 1..count /\ memoryIds \in Nat /\ memoryIds' \in Nat
      /\ memoryIds <= memoryIds'
  BY DEF PanelInv, TypeInv, TypeOK, StoresMove
<1>2. \A n \in memory' : note'[n].id \in -memoryIds'..-1
  BY DEF PanelInv, StoreInv
<1>3. ASSUME s.type # "NotProcessed", NEW n \in memory' PROVE note'[n].id # s.id
  <2>1. -memoryIds <= s.id /\ \A m \in memory : note[m].id # s.id
    BY <1>3 DEF SignalSound
  <2>2. CASE n \in memory
    <3>1. note'[n].id = note[n].id \/ note'[n].id > 0
      BY <1>1, <2>2 DEF StoresMove
    <3>2. note'[n].id \in -memoryIds'..-1
      BY <1>2
    <3> QED
      BY <1>1, <2>1, <2>2, <3>1, <3>2
  <2>3. CASE n \notin memory
    <3>1. n = count + 1 /\ n \in memory'
      BY <2>3 DEF StoresMove
    <3>2. memory' \subseteq 1..count'
      BY DEF PanelInv, TypeInv, TypeOK
    <3>3. Fresh(n)
      BY <1>1, <3>1, <3>2 DEF StoresMove
    <3>4. note'[n].id \in -memoryIds'..-1
      BY <1>2
    <3>5. CASE note'[n].id \in -memoryIds'..(-memoryIds - 1)
      BY <1>1, <2>1, <3>5
    <3>6. ASSUME NEW last \in memory, note'[n].id = note[last].id PROVE note'[n].id # s.id
      BY <2>1, <3>6
    <3>7. ~ (note'[n].id > 0)
      BY <1>1, <3>4
    <3>8. \/ note'[n].id \in -memoryIds'..(-memoryIds - 1)
          \/ \E last \in memory : note'[n].id = note[last].id
      BY <3>3, <3>7 DEF Fresh
    <3> QED
      BY <3>5, <3>6, <3>8
  <2> QED
    BY <2>2, <2>3
<1> QED
  BY <1>1, <1>3 DEF SignalSound

LEMMA PostedSound ==
  ASSUME PanelInv, PanelInv', IdInv, IdInv', Announces, signal' # NoSignal
  PROVE  SignalSound([id |-> signal'.id, type |-> signal'.type], memoryIds', memory', note')
<1>1. CASE NotifyEmit
  <2>1. UNCHANGED <<memoryIds, memory, note>> /\ call.at = "emit"
        /\ signal'.id = note[call.note].id /\ signal'.type = note[call.note].type
    BY <1>1 DEF NotifyEmit, stores
  <2>2. call.note \in 1..count /\ call # NoCall
    BY <2>1, EmitsExisting DEF PanelInv, NoCall
  <2>3. /\ -memoryIds <= note[call.note].id
        /\ note[call.note].type = "NotProcessed" => note[call.note].id < 0
        /\ \A m \in memory \ {call.note} : note[m].id # note[call.note].id
    BY <2>2 DEF IdInv
  <2>4. note[call.note].type # "NotProcessed" => call.note \notin memory
    BY DEF PanelInv, HeapInv
  <2> QED
    BY <2>1, <2>3, <2>4 DEF SignalSound
<1>2. CASE Closes
  <2>1. PICK x \in 1..count : signal'.id = note'[x].id
    BY <1>2 DEF Closes
  <2>2. -memoryIds' <= signal'.id
    BY <1>2, <2>1 DEF Closes, IdInv
  <2>3. signal'.type # "NotProcessed" /\ \A n \in memory' : note'[n].id # signal'.id
    BY <1>2 DEF Closes
  <2> QED
    BY <2>2, <2>3 DEF SignalSound
<1> QED
  BY <1>1, <1>2 DEF Announces, Notified, Quiet

LEMMA ElementsAppended ==
  ASSUME NEW S, NEW s \in Seq(S), NEW e \in S
  PROVE  /\ Append(s, e) \in Seq(S) /\ Len(Append(s, e)) = Len(s) + 1 /\ Len(s) \in Nat
         /\ \A q \in 1..Len(s) : Append(s, e)[q] = s[q]
         /\ Append(s, e)[Len(s) + 1] = e
OBVIOUS

LEMMA ElementsLeft ==
  ASSUME NEW S, NEW s \in Seq(S), s # <<>>
  PROVE  /\ Tail(s) \in Seq(S) /\ Len(Tail(s)) = Len(s) - 1 /\ Len(s) \in Nat /\ Len(s) > 0
         /\ \A q \in 1..Len(s) - 1 : Tail(s)[q] = s[q + 1]
         /\ Head(s) = s[1]
OBVIOUS

Signals == [id : Int, type : {"NotProcessed", "Processed", "Removed"}]

LEMMA QueueStep ==
  ASSUME PanelInv, PanelInv', IdInv, IdInv', StoresMove, QueueInv, [PanelNext]_allVars
  PROVE  QueueInv'
<1>1. queue \in Seq(Signals)
  BY DEF PanelInv, PanelTypes, Signals
<1>2. ASSUME NEW q \in DOMAIN queue PROVE SignalSound(queue[q], memoryIds', memory', note')
  <2>1. queue[q] \in Signals
    BY <1>1, RowOf
  <2> QED
    BY <2>1, SoundStays DEF QueueInv, Signals
<1>3. CASE queue' = queue
  BY <1>2, <1>3 DEF QueueInv
<1>4. CASE WorkerStep /\ Announces /\ signal' # NoSignal
  <2> DEFINE s == [id |-> signal'.id, type |-> signal'.type]
  <2>1. s \in Signals /\ SignalSound(s, memoryIds', memory', note') /\ queue' = Append(queue, s)
    BY <1>4, PostedTypes, PostedSound DEF WorkerStep, PanelInv, Signals
  <2> HIDE DEF s
  <2>2. /\ DOMAIN queue' = 1..Len(queue) + 1 /\ Len(queue) \in Nat /\ DOMAIN queue = 1..Len(queue)
        /\ queue'[Len(queue) + 1] = s /\ \A q \in 1..Len(queue) : queue'[q] = queue[q]
    BY <1>1, <2>1, ElementsAppended
  <2>3. \A q \in DOMAIN queue' : q \in DOMAIN queue \/ q = Len(queue) + 1
    BY <2>2
  <2> QED
    BY <1>2, <2>1, <2>2, <2>3 DEF QueueInv
<1>5. CASE Deliver
  <2>1. queue # <<>> /\ queue' = Tail(queue)
    BY <1>5 DEF Deliver
  <2>2. /\ DOMAIN queue' = 1..Len(queue) - 1 /\ Len(queue) \in Nat /\ DOMAIN queue = 1..Len(queue)
        /\ \A q \in 1..Len(queue) - 1 : queue'[q] = queue[q + 1]
    BY <1>1, <2>1, ElementsLeft
  <2>3. \A q \in DOMAIN queue' : q + 1 \in DOMAIN queue
    BY <2>2
  <2> QED
    BY <1>2, <2>2, <2>3 DEF QueueInv
<1> QED
  BY <1>3, <1>4, <1>5, PanelKinds DEF PanelInv, WorkerStep, Direct, ProcessPending, Aside

-----------------------------------------------------------------------------
(* Which banners may be pushed off.  A banner that k announcements followed *)
(* is of a bubble that was there when k notifications had still to come, a  *)
(* successor counting as the bubble that it takes over.                     *)

Behind(n, k, c, f) == \E m \in 1..c : f[m].bubble = f[n].bubble /\ c - m >= k

\* k announcements come after all that waits.
RowsBehind(k, rows, pending, c, f) ==
  /\ \A j \in 1..Len(pending) : Behind(pending[j], k + Len(pending) - j, c, f)
  /\ \A i \in 1..Len(rows) : Behind(rows[i], k + Len(pending) + i - 1, c, f)

\* after[q] announcements come after the first q signals of the queue, with that
\* of the Notify in progress.
Numbers(after, s, emits, mem, c, f) ==
  /\ after \in [0..Len(s) -> Nat]
  /\ emits => after[Len(s)] >= 1
  /\ \A q \in 1..Len(s) : /\ after[q] <= after[q - 1]
                          /\ s[q].type = "NotProcessed" => after[q] + 1 <= after[q - 1]
  /\ \A q \in 1..Len(s), n \in mem :
       s[q].type = "NotProcessed" /\ f[n].id = s[q].id => Behind(n, after[q], c, f)

BehindInv ==
  \E after \in [0..Len(queue) -> Nat] :
    /\ Numbers(after, queue, call.at = "emit", memory, count, note)
    /\ RowsBehind(after[0], m_bubbles, m_pendingBubbles, count, note)

LEMMA BehindLess ==
  ASSUME NEW n, NEW c \in Nat, NEW f, NEW k \in Nat, NEW l \in Nat, l <= k, Behind(n, k, c, f)
  PROVE  Behind(n, l, c, f)
<1>1. PICK m \in 1..c : f[m].bubble = f[n].bubble /\ c - m >= k
  BY DEF Behind
<1>2. c - m >= l
  BY <1>1
<1> QED
  BY <1>1, <1>2 DEF Behind

LEMMA BehindNothing == ASSUME NEW c \in Nat, NEW n \in 1..c, NEW f PROVE Behind(n, 0, c, f)
<1>1. c - n >= 0
  OBVIOUS
<1> QED
  BY <1>1 DEF Behind

\* A successor is where its predecessor was.
LEMMA BehindSame ==
  ASSUME NEW m, NEW n, NEW c, NEW f, NEW k, Behind(m, k, c, f), f[m].bubble = f[n].bubble
  PROVE  Behind(n, k, c, f)
BY DEF Behind

\* What a step of the server does to it.
LEMMA BehindMoves ==
  ASSUME PanelInv, BannersKept, NEW n \in 1..count, NEW k \in Nat, Behind(n, k, count, note)
  PROVE  /\ Behind(n, k, count', note')
         /\ count' = count + 1 => Behind(n, k + 1, count', note')
<1>1. count \in Nat /\ (count' = count \/ count' = count + 1)
      /\ \A m \in 1..count : note'[m].bubble = note[m].bubble
  BY DEF PanelInv, TypeInv, TypeOK, BannersKept
<1>2. PICK m \in 1..count : note[m].bubble = note[n].bubble /\ count - m >= k
  BY DEF Behind
<1>3. m \in 1..count' /\ note'[m].bubble = note'[n].bubble
  BY <1>1, <1>2
<1>4. count' - m >= k /\ (count' = count + 1 => count' - m >= k + 1)
  BY <1>1, <1>2
<1> QED
  BY <1>3, <1>4 DEF Behind

\* Rows that go up, with fewer announcements to come, are still behind as much.
LEMMA RowsBehindLess ==
  ASSUME NEW c \in Nat, NEW f, NEW S, NEW rows \in Seq(S), NEW pending \in Seq(S),
         NEW k \in Nat, NEW l \in Nat, l <= k, RowsBehind(k, rows, pending, c, f),
         NEW up \in Seq(S), Within(up, rows)
  PROVE  RowsBehind(l, up, pending, c, f)
<1>1. /\ Len(pending) \in Nat /\ Len(rows) \in Nat /\ Len(up) \in Nat
      /\ DOMAIN rows = 1..Len(rows) /\ DOMAIN up = 1..Len(up)
  OBVIOUS
<1>2. ASSUME NEW j \in 1..Len(pending) PROVE Behind(pending[j], l + Len(pending) - j, c, f)
  <2>1. Behind(pending[j], k + Len(pending) - j, c, f)
    BY DEF RowsBehind
  <2>2. /\ k + Len(pending) - j \in Nat /\ l + Len(pending) - j \in Nat
        /\ l + Len(pending) - j <= k + Len(pending) - j
    BY <1>1
  <2> QED
    BY <2>1, <2>2, BehindLess
<1>3. ASSUME NEW i \in 1..Len(up) PROVE Behind(up[i], l + Len(pending) + i - 1, c, f)
  <2>1. PICK h \in 1..Len(rows) : i <= h /\ up[i] = rows[h]
    BY <1>1 DEF Within
  <2>2. Behind(rows[h], k + Len(pending) + h - 1, c, f)
    BY DEF RowsBehind
  <2>3. /\ k + Len(pending) + h - 1 \in Nat /\ l + Len(pending) + i - 1 \in Nat
        /\ l + Len(pending) + i - 1 <= k + Len(pending) + h - 1
    BY <1>1, <2>1
  <2> QED
    BY <2>1, <2>2, <2>3, BehindLess
<1> QED
  BY <1>2, <1>3 DEF RowsBehind

LEMMA RowsBehindMoves ==
  ASSUME PanelInv, BannersKept, NEW k \in Nat,
         RowsBehind(k, m_bubbles, m_pendingBubbles, count, note)
  PROVE  /\ RowsBehind(k, m_bubbles, m_pendingBubbles, count', note')
         /\ count' = count + 1 => RowsBehind(k + 1, m_bubbles, m_pendingBubbles, count', note')
<1>1. /\ m_bubbles \in Seq(1..count) /\ m_pendingBubbles \in Seq(1..count)
      /\ Len(m_bubbles) \in Nat /\ DOMAIN m_bubbles = 1..Len(m_bubbles)
      /\ Len(m_pendingBubbles) \in Nat /\ DOMAIN m_pendingBubbles = 1..Len(m_pendingBubbles)
  BY DEF PanelInv, PanelTypes
<1> DEFINE w == Len(m_pendingBubbles)
<1>2. ASSUME NEW j \in 1..w
      PROVE  /\ Behind(m_pendingBubbles[j], k + w - j, count', note')
             /\ count' = count + 1 => Behind(m_pendingBubbles[j], k + 1 + w - j, count', note')
  <2>1. m_pendingBubbles[j] \in 1..count
    BY <1>1, RowOf
  <2>2. k + w - j \in Nat /\ (k + w - j) + 1 = k + 1 + w - j
    BY <1>1
  <2>3. Behind(m_pendingBubbles[j], k + w - j, count, note)
    BY DEF RowsBehind
  <2> QED
    BY <2>1, <2>2, <2>3, BehindMoves
<1>3. ASSUME NEW i \in 1..Len(m_bubbles)
      PROVE  /\ Behind(m_bubbles[i], k + w + i - 1, count', note')
             /\ count' = count + 1 => Behind(m_bubbles[i], k + 1 + w + i - 1, count', note')
  <2>1. m_bubbles[i] \in 1..count
    BY <1>1, RowOf
  <2>2. k + w + i - 1 \in Nat /\ (k + w + i - 1) + 1 = k + 1 + w + i - 1
    BY <1>1
  <2>3. Behind(m_bubbles[i], k + w + i - 1, count, note)
    BY DEF RowsBehind
  <2> QED
    BY <2>1, <2>2, <2>3, BehindMoves
<1> QED
  BY <1>2, <1>3 DEF RowsBehind

\* What an announcement on its way may still put on screen.
LEMMA AnnouncedBehind ==
  ASSUME PanelInv, PanelInv', StoresMove, BannersKept, NEW s \in Signals, NEW k \in Nat,
         SignalSound(s, memoryIds, memory, note),
         \A n \in memory : note[n].id = s.id => Behind(n, k, count, note),
         NEW n \in memory', note'[n].id = s.id
  PROVE  /\ Behind(n, k, count', note')
         /\ count' = count + 1 => Behind(n, k + 1, count', note')
<1>1. /\ count \in Nat /\ memory \subseteq 1..count /\ memory' \subseteq 1..count'
      /\ memoryIds \in Nat /\ memoryIds' \in Nat /\ s.id \in Int /\ -memoryIds <= s.id
  <2>1. s.id \in Int /\ -memoryIds <= s.id
    BY DEF Signals, SignalSound
  <2>2. memory \subseteq 1..count /\ memory' \subseteq 1..count'
    BY IdsAreInts, IdsStayInts
  <2>3. count \in Nat /\ memoryIds \in Nat /\ memoryIds' \in Nat
    BY DEF PanelInv, TypeInv, TypeOK
  <2> QED
    BY <2>1, <2>2, <2>3
<1>2. CASE n \in memory
  <2>1. note'[n] = note[n] /\ n \in 1..count
    BY <1>1, <1>2 DEF BannersKept
  <2> QED
    BY <1>2, <2>1, BehindMoves
<1>3. CASE n \notin memory
  <2>1. n = count + 1 /\ count' = count + 1 /\ Fresh(n)
    BY <1>1, <1>3 DEF StoresMove
  <2>2. note'[n].id \in -memoryIds'..-1
    BY DEF PanelInv, StoreInv
  <2>3. ~(note'[n].id \in -memoryIds'..(-memoryIds - 1))
    BY <1>1
  <2>4. PICK last \in memory : note'[n].id = note[last].id /\ note'[n].bubble = note[last].bubble
    BY <2>1, <2>2, <2>3 DEF Fresh
  <2>5. /\ Behind(last, k, count', note') /\ Behind(last, k + 1, count', note')
        /\ note'[last].bubble = note'[n].bubble
    <3>1. last \in 1..count /\ Behind(last, k, count, note)
      BY <1>1, <2>4
    <3>2. note'[last].bubble = note[last].bubble
      BY <3>1 DEF BannersKept
    <3> QED
      BY <2>1, <2>4, <3>1, <3>2, BehindMoves
  <2> QED
    BY <2>5, BehindSame
<1> QED
  BY <1>2, <1>3

\* A step of the server that posts nothing, and leaves what waits.
LEMMA BehindStays ==
  ASSUME PanelInv, PanelInv', StoresMove, BannersKept, QueueInv, BehindInv,
         queue' = queue, m_pendingBubbles' = m_pendingBubbles,
         m_bubbles' \in Seq(1..count), Within(m_bubbles', m_bubbles),
         call'.at = "emit" => call.at = "emit" \/ count' = count + 1
  PROVE  BehindInv'
<1>1. PICK after \in [0..Len(queue) -> Nat] :
        /\ Numbers(after, queue, call.at = "emit", memory, count, note)
        /\ RowsBehind(after[0], m_bubbles, m_pendingBubbles, count, note)
  BY DEF BehindInv
<1>2. /\ queue \in Seq(Signals) /\ Len(queue) \in Nat /\ DOMAIN queue = 1..Len(queue)
      /\ m_bubbles \in Seq(1..count) /\ m_pendingBubbles \in Seq(1..count)
  BY DEF PanelInv, PanelTypes, Signals
<1>11. count \in Nat /\ count' \in Nat /\ (count' = count \/ count' = count + 1)
  BY DEF PanelInv, TypeInv, TypeOK, StoresMove
<1> DEFINE d == IF count' = count THEN 0 ELSE 1
           number == [q \in 0..Len(queue) |-> after[q] + d]
<1>3. d = 0 \/ (d = 1 /\ count' = count + 1)
  BY <1>11
<1>12. count' = count + 1 => d = 1
  BY <1>11
<1>4. \A q \in 0..Len(queue) : after[q] \in Nat /\ number[q] = after[q] + d /\ number[q] \in Nat
  BY <1>3
<1>5. number \in [0..Len(queue) -> Nat]
  BY <1>4
<1> HIDE DEF number, d
<1>6. ASSUME NEW q \in 1..Len(queue)
      PROVE  /\ number[q] <= number[q - 1]
             /\ queue[q].type = "NotProcessed" => number[q] + 1 <= number[q - 1]
  <2>1. /\ after[q] <= after[q - 1]
        /\ queue[q].type = "NotProcessed" => after[q] + 1 <= after[q - 1]
    BY <1>1 DEF Numbers
  <2>2. q \in 0..Len(queue) /\ q - 1 \in 0..Len(queue)
    BY <1>2
  <2>3. after[q] \in Nat /\ after[q - 1] \in Nat /\ number[q] = after[q] + d
        /\ number[q - 1] = after[q - 1] + d
    BY <1>4, <2>2
  <2> QED
    BY <1>3, <2>1, <2>3
<1>7. ASSUME NEW q \in 1..Len(queue), NEW n \in memory',
             queue[q].type = "NotProcessed", note'[n].id = queue[q].id
      PROVE  Behind(n, number[q], count', note')
  <2>1. queue[q] \in Signals /\ SignalSound(queue[q], memoryIds, memory, note)
    BY <1>2, RowOf DEF QueueInv
  <2>2. \A m \in memory : note[m].id = queue[q].id => Behind(m, after[q], count, note)
    BY <1>1, <1>7 DEF Numbers
  <2>3. after[q] \in Nat /\ number[q] = after[q] + d
    BY <1>4
  <2>4. /\ Behind(n, after[q], count', note')
        /\ count' = count + 1 => Behind(n, after[q] + 1, count', note')
    BY <1>7, <2>1, <2>2, <2>3, AnnouncedBehind
  <2> QED
    BY <1>3, <2>3, <2>4
<1>8. call'.at = "emit" => number[Len(queue)] >= 1
  <2>1. call.at = "emit" => after[Len(queue)] >= 1
    BY <1>1 DEF Numbers
  <2>2. after[Len(queue)] \in Nat /\ number[Len(queue)] = after[Len(queue)] + d
    BY <1>2, <1>4
  <2> QED
    BY <1>3, <1>12, <2>1, <2>2
<1>9. Numbers(number, queue', call'.at = "emit", memory', count', note')
  BY <1>5, <1>6, <1>7, <1>8 DEF Numbers
<1>10. RowsBehind(number[0], m_bubbles', m_pendingBubbles', count', note')
  <2>1. after[0] \in Nat /\ number[0] = after[0] + d
    BY <1>2, <1>4
  <2>2. RowsBehind(number[0], m_bubbles, m_pendingBubbles, count', note')
    BY <1>1, <1>3, <2>1, RowsBehindMoves
  <2> QED
    BY <1>2, <1>4, <1>11, <2>1, <2>2, RowsBehindLess
<1> QED
  BY <1>5, <1>9, <1>10 DEF BehindInv

\* What the worker does to the Notify in progress when it posts a signal.
LEMMA PostedCalls ==
  ASSUME PanelInv, Announces, signal' # NoSignal
  PROVE  /\ count' = count
         /\ signal'.type = "NotProcessed" => call.at = "emit" /\ call'.at # "emit"
         /\ call'.at = "emit" => call.at = "emit"
<1>1. CASE NotifyEmit
  <2>1. call # NoCall /\ call \in [note : 1..count, at : {"emit", "push"}]
    BY <1>1 DEF NotifyEmit, NoCall, PanelInv, TypeInv, TypeOK
  <2>2. call'.at # "emit"
    BY <1>1, <2>1 DEF NotifyEmit, NoCall
  <2> QED
    BY <1>1, <2>2 DEF NotifyEmit, stores
<1>2. CASE Closes
  BY <1>2 DEF Closes
<1> QED
  BY <1>1, <1>2 DEF Announces, Notified, Quiet

LEMMA BehindPosted ==
  ASSUME PanelInv, PanelInv', StoresMove, BannersKept, QueueInv, BehindInv,
         WorkerStep, Announces, signal' # NoSignal
  PROVE  BehindInv'
<1>1. PICK after \in [0..Len(queue) -> Nat] :
        /\ Numbers(after, queue, call.at = "emit", memory, count, note)
        /\ RowsBehind(after[0], m_bubbles, m_pendingBubbles, count, note)
  BY DEF BehindInv
<1> DEFINE s == [id |-> signal'.id, type |-> signal'.type]
           w == Len(queue)
           announced == signal'.type = "NotProcessed"
           number == [q \in 0..w + 1 |-> IF q <= w THEN after[q]
                                         ELSE IF announced THEN 0 ELSE after[w]]
<1>2. queue \in Seq(Signals) /\ w \in Nat /\ DOMAIN queue = 1..w
  BY DEF PanelInv, PanelTypes, Signals
<1>3. /\ Len(queue') = w + 1 /\ queue'[w + 1].type = signal'.type
      /\ \A q \in 1..w : queue'[q] = queue[q]
  <2>1. s \in Signals /\ queue' = Append(queue, s)
    BY PostedTypes DEF WorkerStep, PanelInv, Signals
  <2> QED
    BY <1>2, <2>1, ElementsAppended
<1>4. /\ \A q \in 0..w : after[q] \in Nat /\ number[q] = after[q] /\ q \in 0..w + 1
      /\ number[w + 1] = (IF announced THEN 0 ELSE after[w])
  BY <1>2
<1>5. number \in [0..Len(queue') -> Nat]
  BY <1>2, <1>3, <1>4
<1> HIDE DEF number, s
<1>6. ASSUME NEW q \in 1..w + 1
      PROVE  /\ number[q] <= number[q - 1]
             /\ queue'[q].type = "NotProcessed" => number[q] + 1 <= number[q - 1]
  <2>1. CASE q \in 1..w
    <3>1. /\ after[q] <= after[q - 1]
          /\ queue[q].type = "NotProcessed" => after[q] + 1 <= after[q - 1]
      BY <1>1, <2>1 DEF Numbers
    <3>2. number[q] = after[q] /\ number[q - 1] = after[q - 1] /\ queue'[q] = queue[q]
      BY <1>2, <1>3, <1>4, <2>1
    <3> QED
      BY <3>1, <3>2
  <2>2. CASE q = w + 1
    <3>1. number[q - 1] = after[w] /\ after[w] \in Nat /\ w \in 0..w /\ q - 1 = w
      BY <1>2, <1>4, <2>2
    <3>2. announced => after[w] >= 1
      BY <1>1, PostedCalls DEF Numbers
    <3>3. number[q] = (IF announced THEN 0 ELSE after[w])
      BY <1>4, <2>2
    <3>4. queue'[q].type = "NotProcessed" <=> announced
      BY <1>3, <2>2
    <3> HIDE DEF announced
    <3> QED
      BY <3>1, <3>2, <3>3, <3>4
  <2> QED
    BY <1>2, <2>1, <2>2
<1>7. ASSUME NEW q \in 1..w + 1, NEW n \in memory',
             queue'[q].type = "NotProcessed", note'[n].id = queue'[q].id
      PROVE  Behind(n, number[q], count', note')
  <2>1. CASE q \in 1..w
    <3>1. queue[q] \in Signals /\ SignalSound(queue[q], memoryIds, memory, note)
      BY <1>2, <2>1, RowOf DEF QueueInv
    <3>2. \A m \in memory : note[m].id = queue[q].id => Behind(m, after[q], count, note)
      BY <1>1, <1>3, <1>7, <2>1 DEF Numbers
    <3>3. after[q] \in Nat /\ number[q] = after[q] /\ queue'[q] = queue[q]
      BY <1>2, <1>3, <1>4, <2>1
    <3> QED
      BY <1>7, <3>1, <3>2, <3>3, AnnouncedBehind
  <2>2. CASE q = w + 1
    <3>1. number[q] = 0
      BY <1>3, <1>4, <1>7, <2>2
    <3>2. count' \in Nat /\ n \in 1..count'
      BY IdsStayInts DEF PanelInv, TypeInv, TypeOK
    <3> QED
      BY <3>1, <3>2, BehindNothing
  <2> QED
    BY <1>2, <2>1, <2>2
<1>8. call'.at = "emit" => number[w + 1] >= 1
  <2>1. call'.at = "emit" => ~announced /\ after[w] >= 1
    BY <1>1, PostedCalls DEF Numbers
  <2> QED
    BY <1>4, <2>1
<1>9. Numbers(number, queue', call'.at = "emit", memory', count', note')
  BY <1>3, <1>5, <1>6, <1>7, <1>8 DEF Numbers
<1>10. RowsBehind(number[0], m_bubbles', m_pendingBubbles', count', note')
  <2>1. number[0] = after[0] /\ after[0] \in Nat
    BY <1>2, <1>4
  <2>2. m_bubbles' = m_bubbles /\ m_pendingBubbles' = m_pendingBubbles
    BY DEF WorkerStep, listVars
  <2> QED
    BY <1>1, <2>1, <2>2, RowsBehindMoves
<1> QED
  BY <1>5, <1>9, <1>10 DEF BehindInv

\* A row enters at the top, after k announcements less than what it pushes down.
LEMMA InsertedBehind ==
  ASSUME PanelInv, NEW x \in 1..count, NEW k \in Nat, Behind(x, k, count, note),
         \A i \in 1..Len(m_bubbles) : Behind(m_bubbles[i], k + i, count, note)
  PROVE  \A i \in 1..Len(Model!Inserted(x)) : Behind(Model!Inserted(x)[i], k + i - 1, count, note)
<1> DEFINE new == Model!Inserted(x)
<1>1. /\ m_bubbles \in Seq(1..count) /\ DOMAIN m_bubbles = 1..Len(m_bubbles)
      /\ Len(m_bubbles) \in Nat
  BY DEF PanelInv, PanelTypes
<1>2. /\ new \in Seq(1..count)
      /\ \A j \in DOMAIN new : \/ j = 1 /\ new[j] = x
                               \/ j - 1 \in DOMAIN m_bubbles /\ new[j] = m_bubbles[j - 1]
  BY <1>1, InsertedRows, MaxKeepIsPositive DEF PanelInv
<1> HIDE DEF new
<1>3. ASSUME NEW i \in 1..Len(new) PROVE Behind(new[i], k + i - 1, count, note)
  <2>1. i \in DOMAIN new
    BY <1>2
  <2>2. CASE i = 1 /\ new[i] = x
    <3>1. k + i - 1 = k
      BY <2>2
    <3> QED
      BY <2>2, <3>1
  <2>3. CASE i - 1 \in 1..Len(m_bubbles) /\ new[i] = m_bubbles[i - 1]
    <3>1. k + (i - 1) = k + i - 1
      BY <1>1, <2>3
    <3>2. Behind(m_bubbles[i - 1], k + (i - 1), count, note)
      BY <2>3
    <3> QED
      BY <2>3, <3>1, <3>2
  <2> QED
    BY <1>1, <1>2, <2>1, <2>2, <2>3
<1> QED
  BY <1>3 DEF new

\* addBubble, with l announcements to come after the one it handles.
LEMMA PushBehind ==
  ASSUME PanelInv, NEW n \in 1..count, Model!Push(n), NEW k \in Nat, NEW l \in Nat, l + 1 <= k,
         RowsBehind(k, m_bubbles, m_pendingBubbles, count, note), Behind(n, l, count, note)
  PROVE  RowsBehind(l, m_bubbles', m_pendingBubbles', count, note)
<1> DEFINE w == Len(m_pendingBubbles)
<1>1. /\ m_pendingBubbles \in Seq(1..count) /\ w \in Nat /\ count \in Nat
      /\ m_bubbles \in Seq(1..count) /\ Len(m_bubbles) \in Nat
  BY DEF PanelInv, PanelTypes, TypeInv, TypeOK
<1>2. /\ \A j \in 1..w : Behind(m_pendingBubbles[j], k + w - j, count, note)
      /\ \A i \in 1..Len(m_bubbles) : Behind(m_bubbles[i], k + w + i - 1, count, note)
  BY DEF RowsBehind
<1>3. CASE m_processPendingTimer
  <2>1. m_bubbles' = m_bubbles /\ m_pendingBubbles' = Append(m_pendingBubbles, n)
    BY <1>3 DEF Model!Push
  <2>2. /\ Len(m_pendingBubbles') = w + 1 /\ m_pendingBubbles'[w + 1] = n
        /\ \A j \in 1..w : m_pendingBubbles'[j] = m_pendingBubbles[j]
    BY <1>1, <2>1, ElementsAppended
  <2>3. ASSUME NEW j \in 1..w + 1
        PROVE  Behind(m_pendingBubbles'[j], l + (w + 1) - j, count, note)
    <3>1. CASE j \in 1..w
      <4>1. /\ l + (w + 1) - j <= k + w - j /\ k + w - j \in Nat /\ l + (w + 1) - j \in Nat
        BY <1>1, <3>1
      <4> QED
        BY <1>1, <1>2, <2>2, <3>1, <4>1, BehindLess
    <3>2. CASE j = w + 1
      <4>1. l + (w + 1) - j = l
        BY <1>1, <3>2
      <4> QED
        BY <2>2, <3>2, <4>1
    <3> QED
      BY <1>1, <3>1, <3>2
  <2>4. ASSUME NEW i \in 1..Len(m_bubbles)
        PROVE  Behind(m_bubbles[i], l + (w + 1) + i - 1, count, note)
    <3>1. /\ l + (w + 1) + i - 1 <= k + w + i - 1
          /\ k + w + i - 1 \in Nat /\ l + (w + 1) + i - 1 \in Nat
      BY <1>1
    <3> QED
      BY <1>1, <1>2, <3>1, BehindLess
  <2> QED
    BY <2>1, <2>2, <2>3, <2>4 DEF RowsBehind
<1>4. CASE ~m_processPendingTimer
  <2>1. m_bubbles' = Model!Inserted(n) /\ m_pendingBubbles' = m_pendingBubbles
    BY <1>4 DEF Model!Push
  <2>2. m_pendingBubbles = <<>> /\ w = 0
    BY <1>4 DEF PanelInv, PanelTypes
  <2>3. ASSUME NEW i \in 1..Len(m_bubbles) PROVE Behind(m_bubbles[i], l + i, count, note)
    <3>1. l + i <= k + w + i - 1 /\ k + w + i - 1 \in Nat /\ l + i \in Nat
      BY <1>1, <2>2
    <3> QED
      BY <1>1, <1>2, <3>1, BehindLess
  <2>4. \A i \in 1..Len(Model!Inserted(n)) :
          Behind(Model!Inserted(n)[i], l + i - 1, count, note)
    BY <2>3, InsertedBehind
  <2>5. ASSUME NEW i \in 1..Len(m_bubbles')
        PROVE  Behind(m_bubbles'[i], l + Len(m_pendingBubbles') + i - 1, count, note)
    <3>1. l + Len(m_pendingBubbles') + i - 1 = l + i - 1
      BY <2>1, <2>2
    <3> QED
      BY <2>1, <2>4, <3>1
  <2>6. \A j \in 1..Len(m_pendingBubbles') : FALSE
    BY <2>1, <2>2
  <2> QED
    BY <2>5, <2>6 DEF RowsBehind
<1> QED
  BY <1>3, <1>4

\* A successor takes over a row.
LEMMA ReplaceBehind ==
  ASSUME PanelInv, NEW n \in 1..count, NEW p \in ReplacedRows(n), Model!ReplaceBubble(n, p),
         NEW k \in Nat, RowsBehind(k, m_bubbles, m_pendingBubbles, count, note)
  PROVE  RowsBehind(k, m_bubbles', m_pendingBubbles', count, note)
<1>1. /\ m_bubbles \in Seq(1..count) /\ p \in DOMAIN m_bubbles
      /\ note[m_bubbles[p]].bubble = note[n].bubble
      /\ m_bubbles' = [m_bubbles EXCEPT ![p] = n] /\ m_pendingBubbles' = m_pendingBubbles
  BY DEF PanelInv, PanelTypes, ReplacedRows, Model!ReplaceBubble
<1>2. /\ Len(m_bubbles') = Len(m_bubbles) /\ DOMAIN m_bubbles = 1..Len(m_bubbles)
      /\ m_bubbles'[p] = n /\ \A i \in DOMAIN m_bubbles \ {p} : m_bubbles'[i] = m_bubbles[i]
  BY <1>1
<1>3. ASSUME NEW i \in 1..Len(m_bubbles)
      PROVE  Behind(m_bubbles'[i], k + Len(m_pendingBubbles) + i - 1, count, note)
  <2>1. Behind(m_bubbles[i], k + Len(m_pendingBubbles) + i - 1, count, note)
    BY DEF RowsBehind
  <2> QED
    BY <1>1, <1>2, <2>1, BehindSame
<1> QED
  BY <1>1, <1>2, <1>3 DEF RowsBehind

LEMMA AddBubbleBehind ==
  ASSUME PanelInv, NEW id \in Int, id < 0, AddBubble(id), NEW k \in Nat, NEW l \in Nat, l + 1 <= k,
         RowsBehind(k, m_bubbles, m_pendingBubbles, count, note),
         \A n \in memory : note[n].id = id => Behind(n, l, count, note)
  PROVE  RowsBehind(l, m_bubbles', m_pendingBubbles', count, note)
<1>1. /\ m_pendingBubbles \in Seq(1..count) /\ count \in Nat /\ m_bubbles \in Seq(1..count)
      /\ l <= k
  BY DEF PanelInv, PanelTypes, TypeInv, TypeOK
<1>2. RowsBehind(l, m_bubbles, m_pendingBubbles, count, note)
  <2>1. Within(m_bubbles, m_bubbles)
    BY <1>1 DEF Within
  <2> QED
    BY <1>1, <2>1, RowsBehindLess
<1>3. ASSUME NEW n \in Fetched(id) PROVE n \in 1..count /\ Behind(n, l, count, note)
  <2>1. n \in 1..count /\ note[n].id = id
    BY FetchedExist DEF PanelInv
  <2>2. n \notin db
    BY <2>1 DEF PanelInv, StoreInv
  <2>3. n \in memory
    BY <2>2 DEF Fetched, InMemory, InSource
  <2> QED
    BY <2>1, <2>3
<1>4. CASE UNCHANGED listVars
  BY <1>2, <1>4 DEF listVars
<1>5. ASSUME NEW n \in Fetched(id), Model!Push(n)
      PROVE  RowsBehind(l, m_bubbles', m_pendingBubbles', count, note)
  BY <1>3, <1>5, PushBehind
<1>6. ASSUME NEW n \in Fetched(id), NEW p \in ReplacedRows(n), Model!ReplaceBubble(n, p)
      PROVE  RowsBehind(l, m_bubbles', m_pendingBubbles', count, note)
  BY <1>2, <1>3, <1>6, ReplaceBehind
<1> QED
  BY <1>4, <1>5, <1>6 DEF AddBubble

LEMMA DeliveredRows ==
  ASSUME PanelInv, Deliver, Head(queue).type # "NotProcessed"
  PROVE  /\ m_bubbles' \in Seq(1..count) /\ Within(m_bubbles', m_bubbles)
         /\ UNCHANGED <<m_pendingBubbles, m_maxKeep>>
         /\ \A x \in Model!Listed(m_bubbles) :
              note[x].id = Head(queue).id \/ x \in Model!Listed(m_bubbles')
<1> DEFINE B == {n \in Note : note[n].id = Head(queue).id}
<1>1. m_bubbles \in Seq(1..count) /\ m_bubbles' = Model!WithoutFirst(m_bubbles, B)
  BY DEF Deliver, PanelInv, PanelTypes
<1>2. \A x \in B : note[x].id = Head(queue).id
  OBVIOUS
<1>3. UNCHANGED <<m_pendingBubbles, m_maxKeep>>
  BY DEF Deliver
<1> HIDE DEF B
<1> QED
  BY <1>1, <1>2, <1>3, WithoutFirstRows

LEMMA BehindDelivered ==
  ASSUME PanelInv, QueueInv, BehindInv, Deliver
  PROVE  BehindInv'
<1>1. PICK after \in [0..Len(queue) -> Nat] :
        /\ Numbers(after, queue, call.at = "emit", memory, count, note)
        /\ RowsBehind(after[0], m_bubbles, m_pendingBubbles, count, note)
  BY DEF BehindInv
<1> DEFINE w == Len(queue) - 1
           number == [q \in 0..w |-> after[q + 1]]
<1>2. queue \in Seq(Signals) /\ queue # <<>> /\ queue' = Tail(queue)
  BY DEF PanelInv, PanelTypes, Signals, Deliver
<1>3. /\ w \in Nat /\ Len(queue) = w + 1 /\ Len(queue') = w /\ DOMAIN queue = 1..w + 1
      /\ \A q \in 1..w : queue'[q] = queue[q + 1]
      /\ Head(queue) = queue[1]
  BY <1>2, ElementsLeft
<1>4. UNCHANGED <<count, note, memory, call>>
  BY DEF Deliver, vars
<1>5. \A q \in 0..w : q + 1 \in 0..w + 1 /\ number[q] = after[q + 1] /\ after[q + 1] \in Nat
  BY <1>3
<1>6. number \in [0..Len(queue') -> Nat]
  BY <1>3, <1>5
<1> HIDE DEF number, w
<1>7. ASSUME NEW q \in 1..w
      PROVE  /\ number[q] <= number[q - 1]
             /\ queue'[q].type = "NotProcessed" => number[q] + 1 <= number[q - 1]
             /\ \A n \in memory : queue'[q].type = "NotProcessed" /\ note[n].id = queue'[q].id
                  => Behind(n, number[q], count, note)
  <2>1. /\ q + 1 \in 1..Len(queue) /\ q \in 0..w /\ q - 1 \in 0..w
        /\ (q + 1) - 1 = q /\ (q - 1) + 1 = q
    BY <1>3
  <2>2. /\ after[q + 1] <= after[q]
        /\ queue[q + 1].type = "NotProcessed" => after[q + 1] + 1 <= after[q]
        /\ \A n \in memory : queue[q + 1].type = "NotProcessed" /\ note[n].id = queue[q + 1].id
             => Behind(n, after[q + 1], count, note)
    BY <1>1, <2>1 DEF Numbers
  <2>3. number[q] = after[q + 1] /\ number[q - 1] = after[q] /\ queue'[q] = queue[q + 1]
    BY <1>3, <1>5, <2>1
  <2> QED
    BY <2>2, <2>3
<1>8. call.at = "emit" => number[w] >= 1
  BY <1>1, <1>3, <1>5 DEF Numbers
<1>9. Numbers(number, queue', call'.at = "emit", memory', count', note')
  BY <1>3, <1>4, <1>6, <1>7, <1>8 DEF Numbers
<1>10. /\ number[0] = after[1] /\ after[1] \in Nat /\ after[0] \in Nat /\ after[1] <= after[0]
       /\ Head(queue).type = "NotProcessed" => after[1] + 1 <= after[0]
       /\ \A n \in memory : Head(queue).type = "NotProcessed" /\ note[n].id = Head(queue).id
            => Behind(n, after[1], count, note)
  <2>1. 1 \in 1..Len(queue) /\ 1 - 1 = 0 /\ 0 \in 0..w /\ 0 + 1 = 1 /\ 0 \in 0..Len(queue)
    BY <1>3
  <2>2. number[0] = after[1] /\ after[1] \in Nat /\ after[0] \in Nat
    BY <1>5, <2>1
  <2>3. /\ after[1] <= after[0]
        /\ queue[1].type = "NotProcessed" => after[1] + 1 <= after[0]
        /\ \A n \in memory : queue[1].type = "NotProcessed" /\ note[n].id = queue[1].id
             => Behind(n, after[1], count, note)
    BY <1>1, <2>1 DEF Numbers
  <2> QED
    BY <1>3, <2>2, <2>3
<1>11. RowsBehind(after[1], m_bubbles', m_pendingBubbles', count, note)
  <2>1. CASE Head(queue).type = "NotProcessed"
    <3>1. Head(queue).id \in Int /\ Head(queue).id < 0
      <4>1. queue[1] \in Signals /\ SignalSound(queue[1], memoryIds, memory, note)
        BY <1>2, <1>3, RowOf DEF QueueInv
      <4>2. Head(queue) \in Signals /\ SignalSound(Head(queue), memoryIds, memory, note)
        BY <1>3, <4>1
      <4>3. Head(queue).id \in Int
        BY <4>2 DEF Signals
      <4> QED
        BY <2>1, <4>2, <4>3 DEF SignalSound
    <3>2. AddBubble(Head(queue).id)
      BY <2>1 DEF Deliver
    <3> QED
      BY <1>1, <1>10, <2>1, <3>1, <3>2, AddBubbleBehind
  <2>2. CASE Head(queue).type # "NotProcessed"
    <3>1. /\ m_bubbles' \in Seq(1..count) /\ Within(m_bubbles', m_bubbles)
          /\ m_pendingBubbles' = m_pendingBubbles
      BY <2>2, DeliveredRows
    <3>2. m_bubbles \in Seq(1..count) /\ m_pendingBubbles \in Seq(1..count) /\ count \in Nat
      BY DEF PanelInv, PanelTypes, TypeInv, TypeOK
    <3> QED
      BY <1>1, <1>10, <3>1, <3>2, RowsBehindLess
  <2> QED
    BY <2>1, <2>2
<1> QED
  BY <1>4, <1>6, <1>9, <1>10, <1>11 DEF BehindInv

LEMMA BehindProcessed ==
  ASSUME PanelInv, BehindInv, ProcessPending
  PROVE  BehindInv'
<1>1. PICK after \in [0..Len(queue) -> Nat] :
        /\ Numbers(after, queue, call.at = "emit", memory, count, note)
        /\ RowsBehind(after[0], m_bubbles, m_pendingBubbles, count, note)
  BY DEF BehindInv
<1> DEFINE w == Len(m_pendingBubbles)
           k == after[0]
<1>2. /\ m_pendingBubbles \in Seq(1..count) /\ w \in Nat /\ count \in Nat
      /\ m_bubbles \in Seq(1..count) /\ Len(m_bubbles) \in Nat
      /\ queue \in Seq(Signals) /\ Len(queue) \in Nat
  BY DEF PanelInv, PanelTypes, TypeInv, TypeOK, Signals
<1>3. k \in Nat
  BY <1>2
<1>4. UNCHANGED <<count, note, memory, call, queue>>
  BY DEF ProcessPending, vars
<1>5. RowsBehind(k, m_bubbles', m_pendingBubbles', count, note)
  <2>1. CASE m_pendingBubbles = <<>>
    BY <1>1, <2>1 DEF ProcessPending, Model!ProcessPending
  <2>2. CASE m_pendingBubbles # <<>>
    <3> DEFINE x == Head(m_pendingBubbles)
    <3>1. /\ m_pendingBubbles' = Tail(m_pendingBubbles) /\ m_bubbles' = Model!Inserted(x)
      BY <2>2 DEF ProcessPending, Model!ProcessPending
    <3>2. /\ Len(m_pendingBubbles') = w - 1 /\ w > 0 /\ x = m_pendingBubbles[1]
          /\ \A j \in 1..w - 1 : m_pendingBubbles'[j] = m_pendingBubbles[j + 1]
          /\ x \in 1..count
      BY <1>2, <2>2, <3>1, ElementsLeft, HeadAndTail
    <3> HIDE DEF x, k
    <3>3. /\ \A j \in 1..w : Behind(m_pendingBubbles[j], k + w - j, count, note)
          /\ \A i \in 1..Len(m_bubbles) : Behind(m_bubbles[i], k + w + i - 1, count, note)
      BY <1>1 DEF RowsBehind, k
    <3>4. ASSUME NEW j \in 1..w - 1
          PROVE  Behind(m_pendingBubbles'[j], k + (w - 1) - j, count, note)
      <4>1. j + 1 \in 1..w /\ k + (w - 1) - j = k + w - (j + 1)
        BY <1>2, <1>3
      <4> QED
        BY <3>2, <3>3, <4>1
    <3>5. /\ k + w - 1 \in Nat /\ Behind(x, k + w - 1, count, note)
          /\ \A i \in 1..Len(m_bubbles) : Behind(m_bubbles[i], (k + w - 1) + i, count, note)
      <4>1. 1 \in 1..w /\ k + w - 1 \in Nat
        BY <1>2, <1>3, <3>2
      <4>2. \A i \in 1..Len(m_bubbles) : k + w + i - 1 = (k + w - 1) + i
        BY <1>2, <1>3
      <4> QED
        BY <3>2, <3>3, <4>1, <4>2
    <3>6. \A i \in 1..Len(m_bubbles') : Behind(m_bubbles'[i], (k + w - 1) + i - 1, count, note)
      BY <3>1, <3>2, <3>5, InsertedBehind
    <3>7. ASSUME NEW i \in 1..Len(m_bubbles')
          PROVE  Behind(m_bubbles'[i], k + (w - 1) + i - 1, count, note)
      <4>1. k + (w - 1) + i - 1 = (k + w - 1) + i - 1
        BY <1>2, <1>3
      <4> QED
        BY <3>6, <4>1
    <3> QED
      BY <3>2, <3>4, <3>7 DEF RowsBehind
  <2> QED
    BY <2>1, <2>2
<1> QED
  BY <1>1, <1>4, <1>5 DEF BehindInv

LEMMA BehindStep ==
  ASSUME PanelInv, PanelInv', StoresMove, BannersKept, QueueInv, BehindInv, [PanelNext]_allVars
  PROVE  BehindInv'
<1>1. m_bubbles \in Seq(1..count) /\ Within(m_bubbles, m_bubbles)
  BY DEF PanelInv, PanelTypes, Within
<1>2. CASE WorkerStep /\ Announces
  <2>1. m_bubbles' = m_bubbles /\ m_pendingBubbles' = m_pendingBubbles
    BY <1>2 DEF WorkerStep, listVars
  <2>2. CASE signal' = NoSignal
    <3>1. queue' = queue
      BY <1>2, <2>2 DEF WorkerStep
    <3>2. call'.at = "emit" => call.at = "emit" \/ count' = count + 1
      <4>1. ~NotifyEmit \/ call.at = "emit"
        BY DEF NotifyEmit
      <4> QED
        BY <1>2, <4>1 DEF Announces, Notified, Quiet, Closes, NoCall
    <3> QED
      BY <1>1, <2>1, <3>1, <3>2, BehindStays
  <2>3. CASE signal' # NoSignal
    BY <1>2, <2>3, BehindPosted
  <2> QED
    BY <2>2, <2>3
<1>3. CASE Direct
  <2>1. call'.at = "emit" => call.at = "emit"
    BY <1>3 DEF Direct, Quiet, Closes, NoCall
  <2> QED
    BY <1>3, <2>1, BehindStays DEF Direct
<1>4. CASE Aside
  BY <1>1, <1>4, BehindStays DEF Aside, listVars
<1> QED
  BY <1>2, <1>3, <1>4, BehindDelivered, BehindProcessed, PanelKinds DEF PanelInv

-----------------------------------------------------------------------------
(* No banner is lost.                                                      *)

LostInv == IdInv /\ QueueInv /\ BehindInv /\ NoBannerLost

\* What pushes the last row off stands in front of enough newer ones.
LEMMA PushedOff ==
  ASSUME PanelInv, BehindInv, m_bubbles # <<>>, m_maxKeep <= Len(m_bubbles),
         NEW k \in Nat, RowsBehind(k, m_bubbles, m_pendingBubbles, count, note),
         k + Len(m_pendingBubbles) >= 1, NEW n \in 1..count, n = m_bubbles[Len(m_bubbles)]
  PROVE  \E m \in 1..n : note[m].bubble = note[n].bubble /\ count - m >= m_maxKeep
<1> DEFINE last == Len(m_bubbles)
           w == Len(m_pendingBubbles)
<1>1. /\ last \in Nat /\ last > 0 /\ w \in Nat /\ m_maxKeep \in Nat /\ count \in Nat
  <2>1. m_bubbles \in Seq(1..count) /\ m_pendingBubbles \in Seq(1..count)
    BY DEF PanelInv, PanelTypes
  <2>2. m_maxKeep \in Nat /\ count \in Nat
    BY MaxKeepIsPositive DEF PanelInv, TypeInv, TypeOK
  <2> QED
    BY <2>1, <2>2
<1>2. Behind(n, k + w + last - 1, count, note)
  <2>1. last \in 1..Len(m_bubbles)
    BY <1>1
  <2> QED
    BY <2>1 DEF RowsBehind
<1> HIDE DEF last, w
<1>3. PICK m \in 1..count : note[m].bubble = note[n].bubble /\ count - m >= k + w + last - 1
  BY <1>2 DEF Behind
<1>4. count - m >= m_maxKeep
  <2>1. m_maxKeep <= last /\ k + w >= 1
    BY DEF last, w
  <2> QED
    BY <1>1, <1>3, <2>1
<1>5. CASE m <= n
  BY <1>3, <1>4, <1>5
<1>6. CASE n < m
  <2>1. count - n >= m_maxKeep /\ n \in 1..n
    BY <1>1, <1>4, <1>6
  <2> QED
    BY <2>1
<1> QED
  BY <1>5, <1>6

\* Where a live banner is after a step.
Safe(n) ==
  \/ n \in Shown' \cup Waiting'
  \/ \E i \in DOMAIN queue' : queue'[i] = [id |-> note'[n].id, type |-> "NotProcessed"]
  \/ call' = [note |-> n, at |-> "emit"]
  \/ \E m \in 1..n : note'[m].bubble = note'[n].bubble /\ count' - m >= m_maxKeep'

LEMMA SafeIsKept == (\A n \in memory' : Safe(n)) => NoBannerLost'
BY DEF Safe, NoBannerLost, Announced

LEMMA ListedAppended ==
  ASSUME NEW S, NEW s \in Seq(S), NEW e \in S
  PROVE  Model!Listed(s) \subseteq Model!Listed(Append(s, e)) /\ e \in Model!Listed(Append(s, e))
<1>1. /\ DOMAIN Append(s, e) = 1..Len(s) + 1 /\ Len(s) \in Nat /\ DOMAIN s = 1..Len(s)
      /\ \A q \in 1..Len(s) : Append(s, e)[q] = s[q]
      /\ Append(s, e)[Len(s) + 1] = e
  BY ElementsAppended
<1>2. Len(s) + 1 \in DOMAIN Append(s, e) /\ DOMAIN s \subseteq DOMAIN Append(s, e)
  BY <1>1
<1> QED
  BY <1>1, <1>2 DEF Model!Listed

LEMMA ListedLeft ==
  ASSUME NEW S, NEW s \in Seq(S), s # <<>>, NEW e \in Model!Listed(s)
  PROVE  e = Head(s) \/ e \in Model!Listed(Tail(s))
<1>1. PICK i \in 1..Len(s) : e = s[i]
  BY DEF Model!Listed
<1>2. /\ DOMAIN Tail(s) = 1..Len(s) - 1 /\ Len(s) \in Nat /\ Head(s) = s[1]
      /\ \A q \in 1..Len(s) - 1 : Tail(s)[q] = s[q + 1]
  BY ElementsLeft
<1>3. CASE i # 1
  <2>1. i - 1 \in DOMAIN Tail(s) /\ Tail(s)[i - 1] = s[i]
    BY <1>2, <1>3
  <2> QED
    BY <1>1, <2>1 DEF Model!Listed
<1> QED
  BY <1>1, <1>2, <1>3

\* A bubble x enters: every other stays, or has had its time on screen.
LEMMA InsertedSafe ==
  ASSUME PanelInv, BehindInv, UNCHANGED <<count, note, m_maxKeep>>,
         NEW x \in 1..count, m_bubbles' = Model!Inserted(x),
         NEW k \in Nat, RowsBehind(k, m_bubbles, m_pendingBubbles, count, note),
         k + Len(m_pendingBubbles) >= 1, NEW n \in Shown
  PROVE  Safe(n)
<1>1. m_bubbles \in Seq(1..count) /\ m_maxKeep \in Nat /\ m_maxKeep > 0
  BY MaxKeepIsPositive DEF PanelInv, PanelTypes
<1>2. \/ n \in Model!Listed(m_bubbles')
      \/ m_maxKeep <= Len(m_bubbles) /\ n = m_bubbles[Len(m_bubbles)]
  BY <1>1, InsertedRows DEF Shown
<1>3. n \in 1..count /\ m_bubbles # <<>>
  <2>1. PICK i \in DOMAIN m_bubbles : n = m_bubbles[i]
    BY DEF Shown, Model!Listed
  <2>2. m_bubbles[i] \in 1..count
    BY <1>1, <2>1, RowOf
  <2>3. m_bubbles # <<>>
    BY <2>1
  <2> QED
    BY <2>1, <2>2, <2>3
<1>4. CASE m_maxKeep <= Len(m_bubbles) /\ n = m_bubbles[Len(m_bubbles)]
  <2>1. \E m \in 1..n : note[m].bubble = note[n].bubble /\ count - m >= m_maxKeep
    BY <1>3, <1>4, PushedOff
  <2> QED
    BY <2>1 DEF Safe
<1> QED
  BY <1>2, <1>4 DEF Safe, Shown

\* addBubble shows or queues the banner that it was called for.
LEMMA AddedSafe ==
  ASSUME PanelInv, NEW n \in memory, AddBubble(note[n].id), UNCHANGED <<count, note, m_maxKeep>>
  PROVE  Safe(n)
<1>1. Fetched(note[n].id) = {n}
  BY DEF PanelInv, StoreInv, UniqueIds, Fetched, InMemory
<1>2. /\ n \in 1..count /\ m_bubbles \in Seq(1..count) /\ m_pendingBubbles \in Seq(1..count)
      /\ m_maxKeep \in Nat /\ m_maxKeep > 0
  BY MaxKeepIsPositive DEF PanelInv, PanelTypes, TypeInv, TypeOK
<1>3. CASE Model!Push(n)
  <2>1. n \in Model!Listed(m_bubbles') \/ n \in Model!Listed(m_pendingBubbles')
    BY <1>2, <1>3, ListedAppended, InsertedRows DEF Model!Push
  <2> QED
    BY <2>1 DEF Safe, Shown, Waiting
<1>4. ASSUME NEW p, Model!ReplaceBubble(n, p) PROVE Safe(n)
  <2>1. p \in DOMAIN m_bubbles' /\ m_bubbles'[p] = n
    BY <1>2, <1>4 DEF Model!ReplaceBubble
  <2> QED
    BY <2>1 DEF Safe, Shown, Model!Listed
<1> QED
  BY <1>1, <1>3, <1>4 DEF AddBubble

\* And every other banner stays.
LEMMA AddKeepsSafe ==
  ASSUME PanelInv, BehindInv, NEW id \in Int, id < 0, AddBubble(id),
         UNCHANGED <<count, note, memory, m_maxKeep>>,
         NEW k \in Nat, k >= 1, RowsBehind(k, m_bubbles, m_pendingBubbles, count, note),
         NEW n \in memory, n \in Shown \cup Waiting
  PROVE  Safe(n)
<1>1. /\ n \in 1..count /\ m_bubbles \in Seq(1..count) /\ m_pendingBubbles \in Seq(1..count)
  BY DEF PanelInv, PanelTypes, TypeInv, TypeOK
<1>2. CASE UNCHANGED listVars
  BY <1>2 DEF listVars, Safe, Shown, Waiting
<1>3. ASSUME NEW x \in Fetched(id), Model!Push(x) PROVE Safe(n)
  <2>1. x \in 1..count
    BY FetchedExist DEF PanelInv
  <2>2. CASE m_processPendingTimer
    <3>1. m_bubbles' = m_bubbles /\ m_pendingBubbles' = Append(m_pendingBubbles, x)
      BY <1>3, <2>2 DEF Model!Push
    <3> QED
      BY <1>1, <2>1, <3>1, ListedAppended DEF Safe, Shown, Waiting
  <2>3. CASE ~m_processPendingTimer
    <3>1. m_bubbles' = Model!Inserted(x)
      BY <1>3, <2>3 DEF Model!Push
    <3>2. m_pendingBubbles = <<>> /\ Len(m_pendingBubbles) = 0
      BY <2>3 DEF PanelInv, PanelTypes
    <3>3. n \in Shown
      BY <3>2 DEF Waiting, Model!Listed
    <3>4. k + Len(m_pendingBubbles) >= 1
      BY <3>2
    <3> QED
      BY <2>1, <3>1, <3>3, <3>4, InsertedSafe
  <2> QED
    BY <2>2, <2>3
<1>4. ASSUME NEW x \in Fetched(id), NEW p \in ReplacedRows(x), Model!ReplaceBubble(x, p)
      PROVE  Safe(n)
  <2>1. x \in memory
    <3>1. note[x].id < 0 /\ x \in memory \cup db
      BY FetchedExist DEF PanelInv, Fetched, InMemory, InSource
    <3> QED
      BY <3>1 DEF PanelInv, StoreInv
  <2>2. /\ p \in DOMAIN m_bubbles /\ note[m_bubbles[p]].bubble = note[x].bubble
        /\ m_bubbles' = [m_bubbles EXCEPT ![p] = x] /\ m_pendingBubbles' = m_pendingBubbles
    BY <1>4 DEF ReplacedRows, Model!ReplaceBubble
  <2>3. /\ m_bubbles'[p] = x /\ DOMAIN m_bubbles' = DOMAIN m_bubbles
        /\ \A i \in DOMAIN m_bubbles \ {p} : m_bubbles'[i] = m_bubbles[i]
    BY <1>1, <2>2
  <2>4. n = m_bubbles[p] => n = x
    BY <2>1, <2>2 DEF PanelInv, StoreInv, OneBannerPerBubble
  <2>5. n \in Shown => n \in Model!Listed(m_bubbles')
    BY <2>2, <2>3, <2>4 DEF Shown, Model!Listed
  <2> QED
    BY <2>2, <2>5 DEF Safe, Shown, Waiting
<1> QED
  BY <1>2, <1>3, <1>4 DEF AddBubble

\* The panel takes up an announcement, or a closing that is about no live banner.
LEMMA DeliverSafe ==
  ASSUME PanelInv, QueueInv, BehindInv, NoBannerLost, Deliver, NEW n \in memory,
         n \in Shown \cup Waiting \/ Announced(n)
  PROVE  Safe(n)
<1>1. PICK after \in [0..Len(queue) -> Nat] :
        /\ Numbers(after, queue, call.at = "emit", memory, count, note)
        /\ RowsBehind(after[0], m_bubbles, m_pendingBubbles, count, note)
  BY DEF BehindInv
<1>2. queue \in Seq(Signals) /\ queue # <<>> /\ queue' = Tail(queue)
  BY DEF PanelInv, PanelTypes, Signals, Deliver
<1>3. /\ Len(queue) \in Nat /\ Len(queue) > 0 /\ DOMAIN queue = 1..Len(queue)
      /\ DOMAIN queue' = 1..Len(queue) - 1
      /\ \A q \in 1..Len(queue) - 1 : queue'[q] = queue[q + 1]
      /\ Head(queue) = queue[1]
  BY <1>2, ElementsLeft
<1>4. UNCHANGED <<count, note, memory, call>>
  BY DEF Deliver, vars
<1>5. CASE Head(queue).type = "NotProcessed"
  <2>1. AddBubble(Head(queue).id)
    BY <1>5 DEF Deliver
  <2>2. UNCHANGED m_maxKeep
    BY <2>1 DEF AddBubble, listVars, Model!Push, Model!ReplaceBubble
  <2>3. Head(queue).id \in Int /\ Head(queue).id < 0
    <3>1. queue[1] \in Signals /\ SignalSound(queue[1], memoryIds, memory, note)
      BY <1>2, <1>3, RowOf DEF QueueInv
    <3> QED
      BY <1>3, <1>5, <3>1 DEF Signals, SignalSound
  <2>4. after[0] \in Nat /\ after[0] >= 1
    <3>1. 0 \in 0..Len(queue) /\ 1 \in 0..Len(queue) /\ 1 \in 1..Len(queue) /\ 1 - 1 = 0
      BY <1>3
    <3>2. after[1] + 1 <= after[0]
      BY <1>1, <1>3, <1>5, <3>1 DEF Numbers
    <3> QED
      BY <3>1, <3>2
  <2>5. CASE n \in Shown \cup Waiting
    BY <1>1, <1>4, <2>1, <2>2, <2>3, <2>4, <2>5, AddKeepsSafe
  <2>6. CASE Announced(n)
    <3>1. PICK i \in 1..Len(queue) : queue[i] = [id |-> note[n].id, type |-> "NotProcessed"]
      BY <1>3, <2>6 DEF Announced
    <3>2. CASE i = 1
      BY <1>3, <1>4, <2>1, <2>2, <3>1, <3>2, AddedSafe
    <3>3. CASE i # 1
      <4>1. i - 1 \in DOMAIN queue' /\ queue'[i - 1] = queue[i]
        BY <1>3, <3>3
      <4> QED
        BY <1>4, <3>1, <4>1 DEF Safe
    <3> QED
      BY <3>2, <3>3
  <2> QED
    BY <2>5, <2>6
<1>6. CASE Head(queue).type # "NotProcessed"
  <2>1. note[n].id # Head(queue).id
    BY <1>3, <1>6 DEF QueueInv, SignalSound
  <2>2. /\ UNCHANGED <<m_pendingBubbles, m_maxKeep>>
        /\ n \in Model!Listed(m_bubbles) => n \in Model!Listed(m_bubbles')
    BY <1>6, <2>1, DeliveredRows
  <2>3. CASE Announced(n)
    <3>1. PICK i \in 1..Len(queue) : queue[i] = [id |-> note[n].id, type |-> "NotProcessed"]
      BY <1>3, <2>3 DEF Announced
    <3>2. i - 1 \in DOMAIN queue' /\ queue'[i - 1] = queue[i]
      BY <1>3, <1>6, <3>1
    <3> QED
      BY <1>4, <3>1, <3>2 DEF Safe
  <2> QED
    BY <2>2, <2>3 DEF Safe, Shown, Waiting
<1> QED
  BY <1>5, <1>6

\* The pending timer lets the next bubble in.
LEMMA ProcessSafe ==
  ASSUME PanelInv, BehindInv, ProcessPending, NEW n \in memory,
         n \in Shown \cup Waiting \/ Announced(n)
  PROVE  Safe(n)
<1>1. PICK after \in [0..Len(queue) -> Nat] :
        RowsBehind(after[0], m_bubbles, m_pendingBubbles, count, note)
  BY DEF BehindInv
<1>2. m_pendingBubbles \in Seq(1..count) /\ after[0] \in Nat
  <2>1. Len(queue) \in Nat /\ m_pendingBubbles \in Seq(1..count)
    BY DEF PanelInv, PanelTypes
  <2>2. 0 \in 0..Len(queue)
    BY <2>1
  <2> QED
    BY <2>1, <2>2
<1>3. UNCHANGED <<count, note, queue, m_maxKeep>>
  BY DEF ProcessPending, vars, Model!ProcessPending
<1>4. CASE Announced(n)
  BY <1>3, <1>4 DEF Announced, Safe
<1>5. CASE n \in Shown \cup Waiting
  <2>1. CASE m_pendingBubbles = <<>>
    BY <1>5, <2>1 DEF ProcessPending, Model!ProcessPending, Safe, Shown, Waiting
  <2>2. CASE m_pendingBubbles # <<>>
    <3> DEFINE x == Head(m_pendingBubbles)
    <3>1. /\ m_pendingBubbles' = Tail(m_pendingBubbles) /\ m_bubbles' = Model!Inserted(x)
          /\ x \in 1..count
      BY <1>2, <2>2, HeadAndTail DEF ProcessPending, Model!ProcessPending
    <3>2. after[0] + Len(m_pendingBubbles) >= 1
      BY <1>2, <2>2, ElementsLeft
    <3>3. x \in Model!Listed(m_bubbles')
      <4>1. m_bubbles \in Seq(1..count) /\ m_maxKeep \in Nat /\ m_maxKeep > 0
        BY MaxKeepIsPositive DEF PanelInv, PanelTypes
      <4> QED
        BY <3>1, <4>1, InsertedRows
    <3> HIDE DEF x
    <3>4. CASE n \in Shown
      BY <1>1, <1>2, <1>3, <3>1, <3>2, <3>4, InsertedSafe
    <3>5. CASE n \in Waiting
      <4>1. n = x \/ n \in Model!Listed(m_pendingBubbles')
        BY <1>2, <2>2, <3>1, <3>5, ListedLeft DEF Waiting, x
      <4> QED
        BY <3>3, <4>1 DEF Safe, Shown, Waiting
    <3> QED
      BY <1>5, <3>4, <3>5
  <2> QED
    BY <2>1, <2>2
<1> QED
  BY <1>4, <1>5

LEMMA SafeStep ==
  ASSUME PanelInv, PanelInv', StoresMove, BannersKept, QueueInv, BehindInv, NoBannerLost,
         [PanelNext]_allVars, NEW n \in memory'
  PROVE  Safe(n)
<1>1. /\ count \in Nat /\ memory \subseteq 1..count /\ memory' \subseteq 1..count'
      /\ count' = count \/ count' = count + 1
  <2>1. memory \subseteq 1..count /\ memory' \subseteq 1..count'
    BY IdsAreInts, IdsStayInts
  <2>2. count' = count \/ count' = count + 1
    BY DEF StoresMove
  <2>3. count \in Nat
    BY DEF PanelInv, TypeInv, TypeOK
  <2> QED
    BY <2>1, <2>2, <2>3
<1>2. CASE n \notin memory
  <2>1. n = count + 1 /\ count' # count
    BY <1>1, <1>2 DEF StoresMove
  <2> QED
    BY <2>1, PanelCalls DEF Notified, Safe
<1>3. CASE n \in memory
  <2>1. note'[n] = note[n] /\ n \in 1..count
    BY <1>1, <1>3 DEF BannersKept
  <2>2. (WorkerStep /\ Announces) \/ Direct \/ Deliver \/ ProcessPending \/ Aside
    BY PanelKinds DEF PanelInv
  <2>3. m_maxKeep' = m_maxKeep
    BY <2>2 DEF WorkerStep, listVars, Direct, Deliver, AddBubble, Model!Push, Model!ReplaceBubble,
                ProcessPending, Model!ProcessPending, Aside
  <2>4. ASSUME NEW m \in 1..n, note[m].bubble = note[n].bubble, count - m >= m_maxKeep
        PROVE  Safe(n)
    <3>1. m \in 1..count /\ m_maxKeep \in Nat
      <4>1. m \in 1..count
        BY <1>1, <2>1
      <4> QED
        BY <4>1, MaxKeepIsPositive DEF PanelInv
    <3>2. note'[m].bubble = note'[n].bubble
      BY <2>1, <2>4, <3>1 DEF BannersKept
    <3>3. count' - m >= m_maxKeep'
      BY <1>1, <2>3, <2>4, <3>1
    <3> QED
      BY <3>2, <3>3 DEF Safe
  <2>5. CASE call = [note |-> n, at |-> "emit"]
    <3>1. count' = count
      BY <1>1, <2>5, PanelCalls DEF Notified, NoCall
    <3>2. CASE WorkerStep /\ NotifyEmit
      <4>1. signal'.id = note[n].id /\ signal'.type = "NotProcessed" /\ signal' # NoSignal
        <5>1. note[n].type = "NotProcessed"
          BY <1>3 DEF PanelInv, HeapInv
        <5> QED
          BY <2>5, <3>2, <5>1 DEF NotifyEmit, NoSignal
      <4>2. queue' = Append(queue, [id |-> note[n].id, type |-> "NotProcessed"])
        BY <3>2, <4>1 DEF WorkerStep
      <4>3. queue \in Seq(Signals) /\ [id |-> note[n].id, type |-> "NotProcessed"] \in Signals
        BY <2>1, IdsAreInts DEF PanelInv, PanelTypes, Signals
      <4>4. /\ Len(queue) + 1 \in DOMAIN queue'
            /\ queue'[Len(queue) + 1] = [id |-> note[n].id, type |-> "NotProcessed"]
        BY <4>2, <4>3, ElementsAppended
      <4> QED
        BY <2>1, <4>4 DEF Safe
    <3>3. CASE Quiet \/ Closes
      BY <2>5, <3>3 DEF Quiet, Closes, Safe
    <3>4. CASE call' = call
      BY <2>5, <3>4 DEF Safe
    <3> QED
      BY <2>2, <2>5, <3>2, <3>3, <3>4
         DEF Announces, Notified, NoCall, Direct, Deliver, ProcessPending, Aside, vars
  <2>6. CASE n \in Shown \cup Waiting \/ Announced(n)
    <3>1. CASE WorkerStep
      <4>1. UNCHANGED listVars
        BY <3>1 DEF WorkerStep
      <4>2. CASE n \in Shown \cup Waiting
        BY <4>1, <4>2 DEF listVars, Safe, Shown, Waiting
      <4>3. ASSUME NEW i \in DOMAIN queue,
                   queue[i] = [id |-> note[n].id, type |-> "NotProcessed"]
            PROVE  Safe(n)
        <5>1. CASE queue' = queue
          BY <2>1, <4>3, <5>1 DEF Safe
        <5>2. CASE queue' # queue
          <6>1. signal' # NoSignal /\ Announces
            BY <3>1, <5>2, WorkerAnnounces DEF WorkerStep, PanelInv
          <6>2. [id |-> signal'.id, type |-> signal'.type] \in Signals
            BY <6>1, PostedTypes DEF PanelInv, Signals
          <6>3. /\ queue \in Seq(Signals)
                /\ queue' = Append(queue, [id |-> signal'.id, type |-> signal'.type])
            BY <3>1, <6>1 DEF WorkerStep, PanelInv, PanelTypes, Signals
          <6>4. i \in DOMAIN queue' /\ queue'[i] = queue[i]
            BY <6>2, <6>3, ElementsAppended
          <6> QED
            BY <2>1, <4>3, <6>4 DEF Safe
        <5> QED
          BY <5>1, <5>2
      <4> QED
        BY <2>6, <4>2, <4>3 DEF Announced
    <3>2. CASE Direct
      BY <2>1, <2>6, <3>2 DEF Direct, Safe, Shown, Waiting, Announced
    <3>3. CASE Aside
      BY <2>1, <2>6, <3>3 DEF Aside, listVars, Safe, Shown, Waiting, Announced
    <3>4. CASE Deliver
      BY <1>3, <2>6, <3>4, DeliverSafe
    <3>5. CASE ProcessPending
      BY <1>3, <2>6, <3>5, ProcessSafe
    <3> QED
      BY <2>2, <3>1, <3>2, <3>3, <3>4, <3>5
  <2> QED
    BY <1>3, <2>4, <2>5, <2>6 DEF NoBannerLost
<1> QED
  BY <1>2, <1>3

LEMMA LostInitially == PanelInit => LostInv
<1> SUFFICES ASSUME PanelInit PROVE LostInv
  OBVIOUS
<1>1. /\ count = 0 /\ memory = {} /\ call = NoCall /\ queue = <<>>
      /\ m_bubbles = <<>> /\ m_pendingBubbles = <<>>
  BY DEF PanelInit, Init, Model!Init
<1>2. IdInv /\ QueueInv /\ NoBannerLost
  BY <1>1 DEF IdInv, QueueInv, NoBannerLost
<1>3. BehindInv
  <2> DEFINE after == [q \in 0..Len(queue) |-> 0]
  <2>1. Len(queue) = 0 /\ after \in [0..Len(queue) -> Nat]
    BY <1>1
  <2>2. Numbers(after, queue, call.at = "emit", memory, count, note)
    BY <1>1, <2>1 DEF Numbers, NoCall
  <2>3. RowsBehind(after[0], m_bubbles, m_pendingBubbles, count, note)
    BY <1>1 DEF RowsBehind
  <2> HIDE DEF after
  <2> QED
    BY <2>1, <2>2, <2>3 DEF BehindInv
<1> QED
  BY <1>2, <1>3 DEF LostInv

LEMMA LostStep ==
  ~TransfersSilenced /\ PanelInv /\ PanelInv' /\ LostInv /\ [PanelNext]_allVars => LostInv'
<1> SUFFICES ASSUME ~TransfersSilenced, PanelInv, PanelInv', LostInv, [PanelNext]_allVars
             PROVE  LostInv'
  OBVIOUS
<1>1. [Next]_vars /\ restarts' = restarts
  BY PanelServes DEF PanelInv
<1>2. StoresMove /\ BannersKept
  BY <1>1, NextMoves, NextKeeps DEF PanelInv
<1>3. IdInv'
  BY <1>2, IdStep, PanelCalls DEF LostInv
<1>4. QueueInv' /\ BehindInv'
  BY <1>2, <1>3, QueueStep, BehindStep DEF LostInv
<1>5. NoBannerLost'
  BY <1>2, SafeStep, SafeIsKept DEF LostInv
<1> QED
  BY <1>3, <1>4, <1>5 DEF LostInv

\* Whatever the order of the signals that are queued for the panel and of the
\* calls that it makes and whose signals reach it at once, a banner that is live
\* is on screen, waits, or is about to be announced, until as many newer ones as
\* there are rows have pushed it off.  A file transfer that the settings silence
\* takes the id of the first banner, and may close it.
THEOREM BannersAreNotLost == ASSUME ~TransfersSilenced PROVE PanelSpec => []NoBannerLost
<1>1. PanelInv /\ PanelInv' /\ LostInv /\ [PanelNext]_allVars => LostInv'
  BY LostStep
<1>2. LostInv => NoBannerLost
  BY DEF LostInv
<1> QED
  BY <1>1, <1>2, LostInitially, PanelCorrect, PTL DEF PanelSpec

=============================================================================
