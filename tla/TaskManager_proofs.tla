-------------------------- MODULE TaskManager_proofs --------------------------
(***************************************************************************)
(* Theorems about the dock, for every set of windows and applications, any *)
(* number of steps and whatever is queued.                                 *)
(*                                                                         *)
(* First the map between windows and applications: no queued handler       *)
(* touches it, so the steps that matter are those of the two sources.      *)
(* Then the groups, the list and its handlers one by one, what they do to  *)
(* any list they may find.  Then the queue: a ghost sequence gives each    *)
(* queued call the rows of the two models as they were when it was posted, *)
(* and the list is always that of the rows that the next call sees.        *)
(***************************************************************************)
EXTENDS TaskManager, RowFacts

-----------------------------------------------------------------------------
(* Sequences.                                                              *)

\* A lookup by identity finds a row that answers to it, and none only if no
\* row does.
LEMMA CombineFuncFinds ==
  ASSUME NEW S, NEW list \in Seq(S), NEW id
  PROVE  /\ CombineFunc(id, list) \in 0..Len(list)
         /\ CombineFunc(id, list) # 0 => list[CombineFunc(id, list)] = id
         /\ id \in ToSet(list) => CombineFunc(id, list) # 0
<1> DEFINE I == {i \in 1..Len(list) : list[i] = id}
<1>1. CombineFunc(id, list) = IF I # {} THEN Min(I) ELSE 0
  BY DEF CombineFunc, SelectInSeq
<1>2. id \in ToSet(list) => I # {}
  BY DEF ToSet
<1>3. CASE I = {}
  BY <1>1, <1>2, <1>3
<1>4. CASE I # {}
  <2>0. I \in SUBSET Nat
    OBVIOUS
  <2>1. Min(I) \in I
    <3> HIDE DEF I
    <3> QED
      BY <1>4, <2>0, MinOfRows
  <2> QED
    BY <1>1, <1>4, <2>1
<1> QED
  BY <1>3, <1>4

\* A row put at the end leaves the others where they are.
LEMMA AppendRow ==
  ASSUME NEW S, NEW s \in Seq(S), NEW x \in S
  PROVE  /\ Append(s, x) \in Seq(S)
         /\ Len(Append(s, x)) = Len(s) + 1
         /\ Append(s, x)[Len(s) + 1] = x
         /\ \A j \in 1..Len(s) : Append(s, x)[j] = s[j]
OBVIOUS

-----------------------------------------------------------------------------
(* The two models.                                                         *)

\* The rows of both models, none twice, and the identity of each window.
ModelsInv ==
  /\ windows \in Seq(Window) /\ IsInjective(windows)
  /\ identity \in [Window -> App \cup Stranger \cup {NoId}]
  /\ apps \in Seq(App) /\ IsInjective(apps)

\* What a step does to them; a handler of the map is part of each.
SourceStep ==
  \/ \E w \in Window, id \in App \cup Stranger : OpenWindow(w, id)
  \/ \E i \in DOMAIN windows : CloseWindow(i)
  \/ \E i \in DOMAIN windows, id \in App \cup Stranger : ChangeIdentity(i, id)
  \/ \E i \in DOMAIN windows : ChangeState(i)
  \/ \E app \in App : Install(app)
  \/ \E i \in DOMAIN apps : Uninstall(i)

\* The user's steps in the list and every queued handler leave the map alone.
LEMMA OtherStepsKeep ==
  ASSUME [Next]_vars
  PROVE  SourceStep \/ UNCHANGED combineVars
BY DEF Next, SourceStep, vars, combineVars, ToggleDocked, SaveDockElementsOrder, InitDockedElements,
       SetDockedElements, SetWindowSplit, MoveItem, HandleEvent

\* Both models start in order.
LEMMA ModelsInit == Init => ModelsInv
<1> SUFFICES ASSUME Init PROVE ModelsInv
  OBVIOUS
<1>1. PICK n \in 0..Cardinality(App) : apps \in [1..n -> App] /\ IsInjective(apps)
  BY DEF Init, AppLists, Lists
<1>2. windows = <<>> /\ identity = [w \in Window |-> NoId]
  BY DEF Init, CombineInit
<1>3. apps \in Seq(App)
  BY <1>1
<1>4. windows \in Seq(Window) /\ IsInjective(windows)
  BY <1>2 DEF IsInjective
<1> QED
  BY <1>1, <1>2, <1>3, <1>4 DEF ModelsInv

\* No step lists a window or an application twice.
LEMMA ModelsStep == ModelsInv /\ [Next]_vars => ModelsInv'
<1> SUFFICES ASSUME ModelsInv, [Next]_vars PROVE ModelsInv'
  OBVIOUS
<1> USE DEF ModelsInv
<1>1. ASSUME NEW w \in Window, NEW id \in App \cup Stranger, OpenWindow(w, id)
      PROVE  ModelsInv'
  <2>1. windows' = Append(windows, w) /\ w \notin ToSet(windows) /\ apps' = apps
    BY <1>1 DEF OpenWindow
  <2>2. \A r \in 1..Len(windows) : windows[r] # w
    BY <2>1 DEF ToSet
  <2>3. windows' \in Seq(Window) /\ IsInjective(windows')
    BY <2>1, <2>2, AppendRow DEF IsInjective
  <2>4. identity' \in [Window -> App \cup Stranger \cup {NoId}]
    BY <1>1 DEF OpenWindow
  <2> QED
    BY <2>1, <2>3, <2>4
<1>2. ASSUME NEW i \in DOMAIN windows, CloseWindow(i) PROVE ModelsInv'
  <2>1. windows' = RemoveAt(windows, i) /\ apps' = apps
    BY <1>2 DEF CloseWindow
  <2>2. windows' \in Seq(Window) /\ IsInjective(windows')
    BY <2>1, RemoveAtFacts, RemoveAtInjective
  <2>3. identity' \in [Window -> App \cup Stranger \cup {NoId}]
    BY <1>2 DEF CloseWindow
  <2> QED
    BY <2>1, <2>2, <2>3
<1>3. ASSUME NEW i \in DOMAIN windows, NEW id \in App \cup Stranger, ChangeIdentity(i, id)
      PROVE  ModelsInv'
  BY <1>3 DEF ChangeIdentity
<1>4. ASSUME NEW i \in DOMAIN windows, ChangeState(i) PROVE ModelsInv'
  BY <1>4 DEF ChangeState
<1>5. ASSUME NEW app \in App, Install(app) PROVE ModelsInv'
  <2>1. apps' = Append(apps, app) /\ app \notin ToSet(apps)
        /\ windows' = windows /\ identity' = identity
    BY <1>5 DEF Install
  <2>2. \A r \in 1..Len(apps) : apps[r] # app
    BY <2>1 DEF ToSet
  <2>3. apps' \in Seq(App) /\ IsInjective(apps')
    BY <2>1, <2>2, AppendRow DEF IsInjective
  <2> QED
    BY <2>1, <2>3
<1>6. ASSUME NEW i \in DOMAIN apps, Uninstall(i) PROVE ModelsInv'
  <2>1. apps' = RemoveAt(apps, i) /\ windows' = windows /\ identity' = identity
    BY <1>6 DEF Uninstall
  <2>2. apps' \in Seq(App) /\ IsInjective(apps')
    BY <2>1, RemoveAtFacts, RemoveAtInjective
  <2> QED
    BY <2>1, <2>2
<1>7. CASE UNCHANGED combineVars
  BY <1>7 DEF combineVars
<1> QED
  BY <1>1, <1>2, <1>3, <1>4, <1>5, <1>6, <1>7, OtherStepsKeep DEF SourceStep

-----------------------------------------------------------------------------
(* The map, after each step of the two models.  A row that keeps its place  *)
(* keeps its binding, unless the step looks it up again.                    *)

\* A window that opens gets a row at the end, bound if its application is there.
LEMMA OpenMap ==
  ASSUME ModelsInv, BindingsFollow,
         NEW w \in Window, NEW id \in App \cup Stranger, OpenWindow(w, id)
  PROVE  /\ DOMAIN m_indexMap \subseteq DOMAIN m_indexMap'
         /\ DOMAIN m_indexMap' \subseteq DOMAIN m_indexMap \cup {Len(windows) + 1}
         /\ \A r \in DOMAIN m_indexMap : m_indexMap'[r] = m_indexMap[r]
         /\ Len(windows) + 1 \in DOMAIN m_indexMap' =>
              m_indexMap'[Len(windows) + 1] \in 1..Len(apps)
         /\ id \in ToSet(apps) => Len(windows) + 1 \in DOMAIN m_indexMap'
<1> DEFINE n == Len(windows)
           i == n + 1
           D == DOMAIN m_indexMap
           from(r) == IF r > i THEN r - 1 ELSE r
           shifted == [r \in {IF k >= i THEN k + 1 ELSE k : k \in D} |-> m_indexMap[from(r)]]
           found == CombineFunc(id, apps)
<1>1. /\ windows \in Seq(Window) /\ windows' = Append(windows, w) /\ n \in Nat
      /\ identity'[w] = id /\ apps \in Seq(App)
  <2>1. windows \in Seq(Window) /\ apps \in Seq(App)
        /\ identity \in [Window -> App \cup Stranger \cup {NoId}]
    BY DEF ModelsInv
  <2>2. windows' = Append(windows, w) /\ identity' = [identity EXCEPT ![w] = id]
    BY DEF OpenWindow
  <2> QED
    BY <2>1, <2>2
<1>2. D \subseteq 1..n
  BY DEF BindingsFollow
<1>3. Len(windows') = i /\ windows'[i] = w
  BY <1>1, AppendRow
<1>4. DOMAIN shifted = D /\ \A r \in D : shifted[r] = m_indexMap[r]
  <2>1. \A k \in D : (IF k >= i THEN k + 1 ELSE k) = k /\ from(k) = k
    BY <1>1, <1>2
  <2> QED
    BY <2>1
<1>5. m_indexMap' = Bind(shifted, i, found)
  <2>1. MajorRowsInserted(i)
    BY <1>3 DEF OpenWindow
  <2> QED
    BY <1>1, <1>3, <2>1 DEF MajorRowsInserted
<1>6. /\ found \in 0..Len(apps) /\ Len(apps) \in Nat
      /\ id \in ToSet(apps) => found # 0
  BY <1>1, CombineFuncFinds
<1>7. i \notin D
  BY <1>1, <1>2
<1> HIDE DEF shifted, found, i
<1>8. /\ found = 0 => m_indexMap' = shifted
      /\ found # 0 => /\ DOMAIN m_indexMap' = DOMAIN shifted \cup {i}
                      /\ m_indexMap'[i] = found
                      /\ \A r \in DOMAIN shifted \ {i} : m_indexMap'[r] = shifted[r]
  BY <1>5 DEF Bind
<1>9. CASE found = 0
  BY <1>4, <1>6, <1>7, <1>8, <1>9 DEF i
<1>10. CASE found # 0
  <2>1. DOMAIN m_indexMap' = D \cup {i} /\ \A r \in D : m_indexMap'[r] = m_indexMap[r]
    BY <1>4, <1>7, <1>8, <1>10
  <2>2. m_indexMap'[i] \in 1..Len(apps)
    BY <1>6, <1>8, <1>10
  <2> QED
    BY <2>1, <2>2 DEF i
<1> QED
  BY <1>9, <1>10

\* A window that closes takes its row; the bindings behind move up with theirs.
LEMMA CloseMap ==
  ASSUME ModelsInv, BindingsFollow, NEW i \in DOMAIN windows, CloseWindow(i),
         NEW r
  PROVE  /\ r \in DOMAIN m_indexMap' => r \in 1..Len(windows) - 1
         /\ r \in 1..Len(windows) - 1 =>
              LET old == IF r < i THEN r ELSE r + 1
              IN /\ r \in DOMAIN m_indexMap' <=> old \in DOMAIN m_indexMap
                 /\ r \in DOMAIN m_indexMap' => m_indexMap'[r] = m_indexMap[old]
<1> DEFINE n == Len(windows)
           D == DOMAIN m_indexMap
           new(k) == IF k > i THEN k - 1 ELSE k
           old == IF r < i THEN r ELSE r + 1
<1>1. n \in Nat /\ i \in 1..n
  BY DEF ModelsInv
<1>2. D \subseteq 1..n
  BY DEF BindingsFollow
<1>3. m_indexMap' = [q \in {new(k) : k \in D \ {i}} |-> m_indexMap[IF q >= i THEN q + 1 ELSE q]]
  BY DEF CloseWindow, MajorRowsRemoved
<1>4. \A k \in D \ {i} : new(k) \in 1..n - 1 /\ (IF new(k) < i THEN new(k) ELSE new(k) + 1) = k
  BY <1>1, <1>2
<1>5. r \in 1..n - 1 => new(old) = r /\ old # i
  BY <1>1
<1>6. r \in DOMAIN m_indexMap' <=> \E k \in D \ {i} : r = new(k)
  BY <1>3
<1>7. r \in DOMAIN m_indexMap' => r \in 1..n - 1 /\ old \in D
  BY <1>4, <1>6
<1>8. r \in 1..n - 1 /\ old \in D => r \in DOMAIN m_indexMap'
  BY <1>5, <1>6
<1>9. r \in DOMAIN m_indexMap' => m_indexMap'[r] = m_indexMap[old]
  <2> SUFFICES ASSUME r \in DOMAIN m_indexMap' PROVE m_indexMap'[r] = m_indexMap[old]
    OBVIOUS
  <2>1. (IF r >= i THEN r + 1 ELSE r) = old
    BY <1>1, <1>7
  <2> QED
    BY <1>3, <2>1
<1> QED
  BY <1>7, <1>8, <1>9

\* A window that reports a change is looked up again, and no other.
LEMMA ChangeMap ==
  ASSUME ModelsInv, NEW i \in DOMAIN windows, MajorDataChanged(i),
         NEW id, id = identity'[windows[i]]
  PROVE  /\ \A r \in DOMAIN m_indexMap \ {i} : r \in DOMAIN m_indexMap'
                                               /\ m_indexMap'[r] = m_indexMap[r]
         /\ DOMAIN m_indexMap' \subseteq DOMAIN m_indexMap \cup {i}
         /\ \/ m_indexMap' = m_indexMap /\ id \notin ToSet(apps)
            \/ /\ i \in DOMAIN m_indexMap' /\ m_indexMap'[i] \in 1..Len(apps)
               /\ apps[m_indexMap'[i]] = id
<1> DEFINE found == CombineFunc(id, apps)
<1>1. m_indexMap' = Bind(m_indexMap, i, found)
  BY DEF MajorDataChanged
<1>2. /\ found \in 0..Len(apps) /\ Len(apps) \in Nat
      /\ found # 0 => apps[found] = id
      /\ id \in ToSet(apps) => found # 0
  BY CombineFuncFinds DEF ModelsInv
<1> HIDE DEF found
<1>3. /\ found = 0 => m_indexMap' = m_indexMap
      /\ found # 0 => /\ DOMAIN m_indexMap' = DOMAIN m_indexMap \cup {i}
                      /\ m_indexMap'[i] = found
                      /\ \A r \in DOMAIN m_indexMap \ {i} : m_indexMap'[r] = m_indexMap[r]
  BY <1>1 DEF Bind
<1>4. CASE found = 0
  BY <1>2, <1>3, <1>4
<1>5. CASE found # 0
  BY <1>2, <1>3, <1>5
<1> QED
  BY <1>4, <1>5

\* An application that is installed at the end of its model is looked for by
\* the rows without one.
LEMMA InstallMap ==
  ASSUME ModelsInv, NEW app \in App, Install(app)
  PROVE  /\ DOMAIN m_indexMap \subseteq DOMAIN m_indexMap'
         /\ DOMAIN m_indexMap' \subseteq DOMAIN m_indexMap \cup 1..Len(windows)
         /\ \A r \in DOMAIN m_indexMap : m_indexMap'[r] = m_indexMap[r]
         /\ \A r \in DOMAIN m_indexMap' \ DOMAIN m_indexMap : m_indexMap'[r] \in 1..Len(apps')
         /\ \A r \in 1..Len(windows) :
              identity[windows[r]] \in ToSet(apps') => r \in DOMAIN m_indexMap'
<1> DEFINE D == DOMAIN m_indexMap
           found(r) == CombineFunc(identity[windows[r]], apps')
           new == {r \in (1..Len(windows)) \ D : found(r) # 0}
<1>1. m_indexMap' = [r \in D \cup new |-> IF r \in new THEN found(r) ELSE m_indexMap[r]]
  BY DEF Install, MinorRowsInserted
<1>2. apps' \in Seq(App)
  BY DEF ModelsInv, Install
<1>3. \A r : /\ found(r) \in 0..Len(apps')
             /\ identity[windows[r]] \in ToSet(apps') => found(r) # 0
  BY <1>2, CombineFuncFinds
<1>4. Len(apps') \in Nat
  BY <1>2
<1> HIDE DEF found
<1> QED
  BY <1>1, <1>3, <1>4

\* An application that goes takes its bindings, or they go to another row that
\* answers to the window; those to rows behind it move up.
LEMMA UninstallMap ==
  ASSUME ModelsInv, BindingsFollow, NEW i \in DOMAIN apps, Uninstall(i),
         NEW r \in DOMAIN m_indexMap
  PROVE  /\ DOMAIN m_indexMap' \subseteq DOMAIN m_indexMap
         /\ m_indexMap[r] # i =>
              /\ r \in DOMAIN m_indexMap'
              /\ m_indexMap'[r] = IF m_indexMap[r] > i THEN m_indexMap[r] - 1
                                                       ELSE m_indexMap[r]
         /\ m_indexMap[r] = i =>
              /\ r \in DOMAIN m_indexMap' => m_indexMap'[r] \in 1..Len(apps')
              /\ identity[windows[r]] \in ToSet(apps') => r \in DOMAIN m_indexMap'
<1> DEFINE D == DOMAIN m_indexMap
           found(q) == CombineFunc(identity[windows[q]], apps')
           lost == {q \in BoundTo(i) : found(q) = 0}
<1>1. m_indexMap' = [q \in D \ lost |->
                       IF q \in BoundTo(i) THEN found(q)
                       ELSE IF m_indexMap[q] > i THEN m_indexMap[q] - 1 ELSE m_indexMap[q]]
  BY DEF Uninstall, MinorRowsRemoved
<1>2. apps' \in Seq(App) /\ Len(apps') \in Nat
  <2>1. apps' = RemoveAt(apps, i) /\ apps \in Seq(App)
    BY DEF ModelsInv, Uninstall
  <2>2. apps' \in Seq(App)
    BY <2>1, RemoveAtFacts
  <2> QED
    BY <2>2
<1>3. /\ found(r) \in 0..Len(apps')
      /\ identity[windows[r]] \in ToSet(apps') => found(r) # 0
  BY <1>2, CombineFuncFinds
<1>4. r \in BoundTo(i) <=> m_indexMap[r] = i
  BY DEF BoundTo
<1> HIDE DEF found
<1> QED
  BY <1>1, <1>2, <1>3, <1>4

-----------------------------------------------------------------------------
(* BindingsFollow.                                                         *)

\* There is nothing to bind at the start.
LEMMA FollowInit == Init => BindingsFollow
<1> SUFFICES ASSUME Init PROVE BindingsFollow
  OBVIOUS
<1>1. windows = <<>> /\ m_indexMap = << >>
  BY DEF Init, CombineInit
<1> QED
  BY <1>1 DEF BindingsFollow

\* Each of the six steps of the sources keeps the map in step.
LEMMA FollowStep == ModelsInv /\ BindingsFollow /\ [Next]_vars => BindingsFollow'
<1> SUFFICES ASSUME ModelsInv, BindingsFollow, [Next]_vars PROVE BindingsFollow'
  OBVIOUS
<1>0. /\ windows \in Seq(Window) /\ apps \in Seq(App)
      /\ Len(windows) \in Nat /\ Len(apps) \in Nat
      /\ identity \in [Window -> App \cup Stranger \cup {NoId}]
      /\ \A r \in DOMAIN m_indexMap : r \in 1..Len(windows) /\ m_indexMap[r] \in 1..Len(apps)
      /\ \A r \in 1..Len(windows) :
           identity[windows[r]] \in ToSet(apps) => r \in DOMAIN m_indexMap
  <2>1. windows \in Seq(Window) /\ apps \in Seq(App)
        /\ identity \in [Window -> App \cup Stranger \cup {NoId}]
    BY DEF ModelsInv
  <2>2. Len(windows) \in Nat /\ Len(apps) \in Nat
    BY <2>1
  <2> QED
    BY <2>1, <2>2 DEF BindingsFollow
<1>1. ASSUME NEW w \in Window, NEW id \in App \cup Stranger, OpenWindow(w, id)
      PROVE  BindingsFollow'
  <2>1. /\ windows' = Append(windows, w) /\ w \notin ToSet(windows) /\ apps' = apps
        /\ identity' = [identity EXCEPT ![w] = id]
    BY <1>1 DEF OpenWindow
  <2>2. Len(windows') = Len(windows) + 1 /\ windows'[Len(windows) + 1] = w
        /\ \A r \in 1..Len(windows) : windows'[r] = windows[r]
    BY <1>0, <2>1, AppendRow
  <2>3. \A r \in 1..Len(windows) : identity'[windows'[r]] = identity[windows[r]]
    <3>1. \A r \in 1..Len(windows) : windows[r] # w /\ windows[r] \in Window
      BY <1>0, <2>1 DEF ToSet
    <3> QED
      BY <1>0, <2>1, <2>2, <3>1
  <2>4. identity'[w] = id
    BY <1>0, <2>1
  <2>5. ASSUME NEW r \in DOMAIN m_indexMap'
        PROVE  r \in 1..Len(windows') /\ m_indexMap'[r] \in 1..Len(apps')
    BY <1>0, <1>1, <2>1, <2>2, OpenMap
  <2>6. ASSUME NEW r \in 1..Len(windows'), identity'[windows'[r]] \in ToSet(apps')
        PROVE  r \in DOMAIN m_indexMap'
    <3>1. CASE r \in 1..Len(windows)
      BY <1>0, <1>1, <2>1, <2>3, <2>6, <3>1, OpenMap
    <3>2. CASE r = Len(windows) + 1
      BY <1>0, <1>1, <2>1, <2>2, <2>4, <2>6, <3>2, OpenMap
    <3> QED
      BY <1>0, <2>2, <3>1, <3>2
  <2> QED
    BY <2>5, <2>6 DEF BindingsFollow
<1>2. ASSUME NEW i \in DOMAIN windows, CloseWindow(i) PROVE BindingsFollow'
  <2>1. /\ windows' = RemoveAt(windows, i) /\ apps' = apps
        /\ identity' = [identity EXCEPT ![windows[i]] = NoId]
    BY <1>2 DEF CloseWindow
  <2>2. /\ Len(windows') = Len(windows) - 1
        /\ \A r \in 1..Len(windows) - 1 : windows'[r] = windows[IF r < i THEN r ELSE r + 1]
    BY <1>0, <2>1, RemoveAtFacts
  <2>3. ASSUME NEW r \in DOMAIN m_indexMap'
        PROVE  r \in 1..Len(windows') /\ m_indexMap'[r] \in 1..Len(apps')
    BY <1>0, <1>2, <2>1, <2>2, CloseMap
  <2>4. ASSUME NEW r \in 1..Len(windows'), identity'[windows'[r]] \in ToSet(apps')
        PROVE  r \in DOMAIN m_indexMap'
    <3> DEFINE old == IF r < i THEN r ELSE r + 1
    <3>1. old \in 1..Len(windows) /\ old # i /\ i \in 1..Len(windows)
      BY <1>0, <2>2
    <3>2. windows'[r] = windows[old] /\ windows[old] # windows[i]
      <4>1. IsInjective(windows)
        BY DEF ModelsInv
      <4> QED
        BY <1>0, <2>2, <3>1, <4>1 DEF IsInjective
    <3>3. identity'[windows'[r]] = identity[windows[old]]
      <4>1. windows[old] \in Window
        BY <1>0, <3>1
      <4> QED
        BY <1>0, <2>1, <3>2, <4>1
    <3>4. old \in DOMAIN m_indexMap
      BY <1>0, <2>1, <2>4, <3>1, <3>3
    <3> QED
      BY <1>2, <2>2, <3>4, CloseMap
  <2> QED
    BY <2>3, <2>4 DEF BindingsFollow
<1>3. ASSUME NEW i \in DOMAIN windows, NEW id,
             windows' = windows, apps' = apps, MajorDataChanged(i),
             identity' = [identity EXCEPT ![windows[i]] = id], id = identity'[windows[i]]
      PROVE  BindingsFollow'
  <2>1. ASSUME NEW r \in DOMAIN m_indexMap'
        PROVE  r \in 1..Len(windows') /\ m_indexMap'[r] \in 1..Len(apps')
    BY <1>0, <1>3, ChangeMap
  <2>2. ASSUME NEW r \in 1..Len(windows'), identity'[windows'[r]] \in ToSet(apps')
        PROVE  r \in DOMAIN m_indexMap'
    <3>1. CASE r = i
      BY <1>0, <1>3, <2>2, <3>1, ChangeMap
    <3>2. CASE r # i
      <4>1. windows[r] # windows[i] /\ windows[r] \in Window
        <5>1. IsInjective(windows)
          BY DEF ModelsInv
        <5> QED
          BY <1>0, <1>3, <3>2, <5>1 DEF IsInjective
      <4>2. identity'[windows'[r]] = identity[windows[r]]
        BY <1>0, <1>3, <4>1
      <4>3. r \in DOMAIN m_indexMap
        BY <1>0, <1>3, <2>2, <4>2
      <4> QED
        BY <1>3, <3>2, <4>3, ChangeMap
    <3> QED
      BY <3>1, <3>2
  <2> QED
    BY <2>1, <2>2 DEF BindingsFollow
<1>4. ASSUME NEW i \in DOMAIN windows, NEW id \in App \cup Stranger, ChangeIdentity(i, id)
      PROVE  BindingsFollow'
  <2>1. /\ windows' = windows /\ apps' = apps /\ MajorDataChanged(i)
        /\ identity' = [identity EXCEPT ![windows[i]] = id]
    BY <1>4 DEF ChangeIdentity
  <2>2. id = identity'[windows[i]]
    BY <1>0, <2>1
  <2> QED
    BY <1>3, <2>1, <2>2
<1>5. ASSUME NEW i \in DOMAIN windows, ChangeState(i) PROVE BindingsFollow'
  <2>1. /\ windows' = windows /\ apps' = apps /\ MajorDataChanged(i) /\ identity' = identity
    BY <1>5 DEF ChangeState
  <2>2. identity' = [identity EXCEPT ![windows[i]] = identity'[windows[i]]]
    BY <1>0, <2>1
  <2> QED
    BY <1>3, <2>1, <2>2
<1>6. ASSUME NEW app \in App, Install(app) PROVE BindingsFollow'
  <2>1. apps' = Append(apps, app) /\ windows' = windows /\ identity' = identity
    BY <1>6 DEF Install
  <2>2. Len(apps') = Len(apps) + 1
    BY <1>0, <2>1, AppendRow
  <2>3. ASSUME NEW r \in DOMAIN m_indexMap'
        PROVE  r \in 1..Len(windows') /\ m_indexMap'[r] \in 1..Len(apps')
    BY <1>0, <1>6, <2>1, <2>2, InstallMap
  <2>4. ASSUME NEW r \in 1..Len(windows'), identity'[windows'[r]] \in ToSet(apps')
        PROVE  r \in DOMAIN m_indexMap'
    BY <1>6, <2>1, <2>4, InstallMap
  <2> QED
    BY <2>3, <2>4 DEF BindingsFollow
<1>7. ASSUME NEW i \in DOMAIN apps, Uninstall(i) PROVE BindingsFollow'
  <2>1. apps' = RemoveAt(apps, i) /\ windows' = windows /\ identity' = identity
    BY <1>7 DEF Uninstall
  <2>2. /\ Len(apps') = Len(apps) - 1 /\ apps' \in Seq(App)
        /\ \A j \in 1..Len(apps) - 1 : apps'[j] = apps[IF j < i THEN j ELSE j + 1]
    BY <1>0, <2>1, RemoveAtFacts
  <2>3. ToSet(apps') \subseteq ToSet(apps)
    <3>1. DOMAIN apps' = 1..Len(apps) - 1 /\ DOMAIN apps = 1..Len(apps)
      BY <1>0, <2>2
    <3>2. \A j \in 1..Len(apps) - 1 : (IF j < i THEN j ELSE j + 1) \in DOMAIN apps
      BY <1>0, <3>1
    <3> QED
      BY <2>2, <3>1, <3>2 DEF ToSet
  <2>4. ASSUME NEW r \in DOMAIN m_indexMap'
        PROVE  r \in 1..Len(windows') /\ m_indexMap'[r] \in 1..Len(apps')
    <3>1. r \in DOMAIN m_indexMap
      <4>1. CASE DOMAIN m_indexMap = {}
        BY <1>7, <4>1 DEF Uninstall, MinorRowsRemoved
      <4>2. CASE DOMAIN m_indexMap # {}
        BY <1>7, <4>2, UninstallMap
      <4> QED
        BY <4>1, <4>2
    <3>2. m_indexMap[r] \in 1..Len(apps) /\ i \in 1..Len(apps)
      BY <1>0, <3>1
    <3>3. CASE m_indexMap[r] = i
      BY <1>0, <1>7, <2>1, <3>1, <3>3, UninstallMap
    <3>4. CASE m_indexMap[r] # i
      BY <1>0, <1>7, <2>1, <2>2, <3>1, <3>2, <3>4, UninstallMap
    <3> QED
      BY <3>3, <3>4
  <2>5. ASSUME NEW r \in 1..Len(windows'), identity'[windows'[r]] \in ToSet(apps')
        PROVE  r \in DOMAIN m_indexMap'
    <3>1. r \in DOMAIN m_indexMap
      BY <1>0, <2>1, <2>3, <2>5
    <3> QED
      BY <1>7, <2>1, <2>5, <3>1, UninstallMap
  <2> QED
    BY <2>4, <2>5 DEF BindingsFollow
<1>8. CASE UNCHANGED combineVars
  BY <1>8 DEF combineVars, BindingsFollow
<1> QED
  BY <1>1, <1>2, <1>4, <1>5, <1>6, <1>7, <1>8, OtherStepsKeep DEF SourceStep

\* Every binding is of a window that is there to an application that is there,
\* and every window that names an installed application is bound
\* (rolecombinemodel.cpp), whatever order windows and applications come and go
\* in and whatever is still queued.
THEOREM BindingsAlwaysFollow == Spec => []BindingsFollow
<1>1. Init => ModelsInv /\ BindingsFollow
  BY ModelsInit, FollowInit
<1>2. ModelsInv /\ BindingsFollow /\ [Next]_vars => (ModelsInv /\ BindingsFollow)'
  BY ModelsStep, FollowStep
<1> QED
  BY <1>1, <1>2, PTL DEF Spec

-----------------------------------------------------------------------------
(* BindingsKept.                                                           *)

\* The application of a window, as the rows, the map and the applications in
\* them give it: BoundApp before a step and after it.
BoundIn(rows, map, names, w) ==
  LET r == CombineFunc(w, rows)
  IN IF r \in DOMAIN map /\ map[r] \in 1..Len(names) THEN names[map[r]] ELSE NoId

\* BoundApp is that, before a step and after it.
LEMMA BoundAppIn ==
  ASSUME NEW w
  PROVE  /\ BoundApp(w) = BoundIn(windows, m_indexMap, apps, w)
         /\ BoundApp(w)' = BoundIn(windows', m_indexMap', apps', w)
BY DEF BoundApp, BoundIn, CombineFunc, SelectInSeq

\* It is what the map holds for the one row of the window.
LEMMA BoundInAt ==
  ASSUME NEW rows \in Seq(Window), IsInjective(rows), NEW map, NEW names,
         NEW r \in 1..Len(rows), NEW w, rows[r] = w
  PROVE  BoundIn(rows, map, names, w) =
           IF r \in DOMAIN map /\ map[r] \in 1..Len(names) THEN names[map[r]] ELSE NoId
<1>1. w \in ToSet(rows)
  BY DEF ToSet
<1>2. CombineFunc(w, rows) \in 1..Len(rows) /\ rows[CombineFunc(w, rows)] = w
  BY <1>1, CombineFuncFinds
<1>3. CombineFunc(w, rows) = r
  BY <1>2 DEF IsInjective
<1> QED
  BY <1>3 DEF BoundIn

\* What BindingsKept says of one window.
Keeps(w) ==
  identity'[w] = identity[w] /\ BoundApp(w) \in ToSet(apps') =>
    BoundApp(w)' \in {BoundApp(w), identity[w]}

\* It holds of a window in row r before a step and in row q after it, if it had
\* no binding, or one that leads to the same application, or the named one.
LEMMA KeepsAt ==
  ASSUME ModelsInv, ModelsInv', NEW w, NEW r \in 1..Len(windows), NEW q \in 1..Len(windows'),
         windows[r] = w, windows'[q] = w,
         \/ /\ r \in DOMAIN m_indexMap /\ m_indexMap[r] \in 1..Len(apps)
            /\ identity'[w] = identity[w] /\ apps[m_indexMap[r]] \in ToSet(apps') =>
                 /\ q \in DOMAIN m_indexMap' /\ m_indexMap'[q] \in 1..Len(apps')
                 /\ apps'[m_indexMap'[q]] \in {apps[m_indexMap[r]], identity[w]}
         \/ r \notin DOMAIN m_indexMap
  PROVE  Keeps(w)
<1>1. BoundApp(w) = IF r \in DOMAIN m_indexMap /\ m_indexMap[r] \in 1..Len(apps)
                    THEN apps[m_indexMap[r]] ELSE NoId
  <2>1. windows \in Seq(Window) /\ IsInjective(windows)
    BY DEF ModelsInv
  <2>2. BoundIn(windows, m_indexMap, apps, w) =
          IF r \in DOMAIN m_indexMap /\ m_indexMap[r] \in 1..Len(apps)
          THEN apps[m_indexMap[r]] ELSE NoId
    BY <2>1, BoundInAt
  <2> QED
    BY <2>2, BoundAppIn
<1>2. BoundApp(w)' = IF q \in DOMAIN m_indexMap' /\ m_indexMap'[q] \in 1..Len(apps')
                     THEN apps'[m_indexMap'[q]] ELSE NoId
  BY BoundAppIn, BoundInAt DEF ModelsInv
<1>3. CASE r \notin DOMAIN m_indexMap
  <2>1. NoId \notin ToSet(apps')
    BY IdsDiffer DEF ModelsInv, ToSet
  <2> QED
    BY <1>1, <1>3, <2>1 DEF Keeps
<1>4. CASE r \in DOMAIN m_indexMap
  BY <1>1, <1>2, <1>4 DEF Keeps
<1> QED
  BY <1>3, <1>4

\* Step by step: only the row that is looked up changes hands.
LEMMA KeptStep ==
  ASSUME ModelsInv, BindingsFollow, [Next]_vars,
         NEW w \in ToSet(windows) \cap ToSet(windows')
  PROVE  Keeps(w)
<1>0. /\ windows \in Seq(Window) /\ apps \in Seq(App)
      /\ Len(windows) \in Nat /\ Len(apps) \in Nat
      /\ identity \in [Window -> App \cup Stranger \cup {NoId}]
      /\ \A r \in DOMAIN m_indexMap : r \in 1..Len(windows) /\ m_indexMap[r] \in 1..Len(apps)
      /\ IsInjective(windows) /\ IsInjective(apps)
  <2>1. windows \in Seq(Window) /\ apps \in Seq(App)
        /\ identity \in [Window -> App \cup Stranger \cup {NoId}]
        /\ IsInjective(windows) /\ IsInjective(apps)
    BY DEF ModelsInv
  <2>2. Len(windows) \in Nat /\ Len(apps) \in Nat
    BY <2>1
  <2> QED
    BY <2>1, <2>2 DEF BindingsFollow
<1>b. ModelsInv'
  BY ModelsStep
<1>c. PICK r \in 1..Len(windows) : windows[r] = w
  BY <1>0 DEF ToSet
<1> USE DEF ToSet
<1>1. ASSUME NEW v \in Window, NEW id \in App \cup Stranger, OpenWindow(v, id)
      PROVE  Keeps(w)
  <2>1. windows' = Append(windows, v) /\ apps' = apps
    BY <1>1 DEF OpenWindow
  <2>2. r \in 1..Len(windows') /\ windows'[r] = w
    BY <1>0, <1>c, <2>1, AppendRow
  <2>3. r \in DOMAIN m_indexMap => r \in DOMAIN m_indexMap' /\ m_indexMap'[r] = m_indexMap[r]
    BY <1>1, OpenMap
  <2> QED
    BY <1>0, <1>b, <1>c, <2>1, <2>2, <2>3, KeepsAt
<1>2. ASSUME NEW i \in DOMAIN windows, CloseWindow(i) PROVE Keeps(w)
  <2> DEFINE q == IF r > i THEN r - 1 ELSE r
  <2>1. windows' = RemoveAt(windows, i) /\ apps' = apps
    BY <1>2 DEF CloseWindow
  <2>2. /\ Len(windows') = Len(windows) - 1
        /\ \A j \in 1..Len(windows) - 1 : windows'[j] = windows[IF j < i THEN j ELSE j + 1]
    BY <1>0, <2>1, RemoveAtFacts
  <2>3. r # i
    <3> SUFFICES ASSUME r = i PROVE FALSE
      OBVIOUS
    <3>1. windows' \in Seq(Window)
      BY <1>b DEF ModelsInv
    <3>2. PICK j \in 1..Len(windows') : windows'[j] = w
      BY <3>1
    <3>3. (IF j < i THEN j ELSE j + 1) \in 1..Len(windows)
          /\ (IF j < i THEN j ELSE j + 1) # i
      BY <1>0, <2>2
    <3>4. windows[IF j < i THEN j ELSE j + 1] = windows[i]
      BY <1>c, <2>2, <3>2
    <3> QED
      BY <1>0, <3>3, <3>4 DEF IsInjective
  <2>4. q \in 1..Len(windows') /\ (IF q < i THEN q ELSE q + 1) = r
    BY <1>0, <1>c, <2>2, <2>3
  <2>5. windows'[q] = w
    BY <1>c, <2>2, <2>4
  <2>6. r \in DOMAIN m_indexMap => q \in DOMAIN m_indexMap' /\ m_indexMap'[q] = m_indexMap[r]
    BY <1>2, <2>2, <2>4, CloseMap
  <2> HIDE DEF q
  <2> QED
    BY <1>0, <1>b, <1>c, <2>1, <2>4, <2>5, <2>6, KeepsAt
<1>3. ASSUME NEW i \in DOMAIN windows, MajorDataChanged(i), windows' = windows, apps' = apps
      PROVE  Keeps(w)
  <2>1. CASE r = i
    <3>1. \/ m_indexMap' = m_indexMap
          \/ r \in DOMAIN m_indexMap' /\ m_indexMap'[r] \in 1..Len(apps)
             /\ apps[m_indexMap'[r]] = identity'[w]
      BY <1>c, <1>3, <2>1, ChangeMap
    <3> QED
      BY <1>0, <1>b, <1>c, <1>3, <3>1, KeepsAt
  <2>2. CASE r # i
    <3>1. r \in DOMAIN m_indexMap => r \in DOMAIN m_indexMap' /\ m_indexMap'[r] = m_indexMap[r]
      BY <1>3, <2>2, ChangeMap
    <3> QED
      BY <1>0, <1>b, <1>c, <1>3, <3>1, KeepsAt
  <2> QED
    BY <2>1, <2>2
<1>4. ASSUME NEW app \in App, Install(app) PROVE Keeps(w)
  <2>1. apps' = Append(apps, app) /\ windows' = windows
    BY <1>4 DEF Install
  <2>2. Len(apps') = Len(apps) + 1 /\ \A j \in 1..Len(apps) : apps'[j] = apps[j]
    BY <1>0, <2>1, AppendRow
  <2>3. r \in DOMAIN m_indexMap => r \in DOMAIN m_indexMap' /\ m_indexMap'[r] = m_indexMap[r]
    BY <1>4, InstallMap
  <2>4. r \in DOMAIN m_indexMap =>
          /\ m_indexMap[r] \in 1..Len(apps) /\ m_indexMap'[r] \in 1..Len(apps')
          /\ apps'[m_indexMap'[r]] = apps[m_indexMap[r]]
    BY <1>0, <2>2, <2>3
  <2> QED
    BY <1>b, <1>c, <2>1, <2>3, <2>4, KeepsAt
<1>5. ASSUME NEW i \in DOMAIN apps, Uninstall(i) PROVE Keeps(w)
  <2>1. apps' = RemoveAt(apps, i) /\ windows' = windows
    BY <1>5 DEF Uninstall
  <2>2. /\ Len(apps') = Len(apps) - 1 /\ apps' \in Seq(App)
        /\ \A j \in 1..Len(apps) - 1 : apps'[j] = apps[IF j < i THEN j ELSE j + 1]
    BY <1>0, <2>1, RemoveAtFacts
  <2>3. apps[i] \notin ToSet(apps')
    <3> SUFFICES ASSUME NEW j \in 1..Len(apps) - 1, apps'[j] = apps[i] PROVE FALSE
      BY <2>2
    <3>1. (IF j < i THEN j ELSE j + 1) \in 1..Len(apps) /\ (IF j < i THEN j ELSE j + 1) # i
      BY <1>0
    <3>2. apps[IF j < i THEN j ELSE j + 1] = apps[i]
      BY <2>2
    <3> QED
      BY <1>0, <3>1, <3>2 DEF IsInjective
  <2>4. CASE r \notin DOMAIN m_indexMap
    BY <1>b, <1>c, <2>1, <2>4, KeepsAt
  <2>5. CASE r \in DOMAIN m_indexMap /\ m_indexMap[r] = i
    BY <1>0, <1>b, <1>c, <2>1, <2>3, <2>5, KeepsAt
  <2>6. CASE r \in DOMAIN m_indexMap /\ m_indexMap[r] # i
    <3> DEFINE k == m_indexMap[r]
               m == IF k > i THEN k - 1 ELSE k
    <3>1. r \in DOMAIN m_indexMap' /\ m_indexMap'[r] = m
      BY <1>5, <2>6, UninstallMap
    <3>2. k \in 1..Len(apps) /\ m \in 1..Len(apps) - 1 /\ (IF m < i THEN m ELSE m + 1) = k
      BY <1>0, <2>6
    <3> HIDE DEF m
    <3>3. apps'[m] = apps[k]
      <4>1. apps'[m] = apps[IF m < i THEN m ELSE m + 1]
        BY <2>2, <3>2
      <4> QED
        BY <3>2, <4>1
    <3> QED
      BY <1>0, <1>b, <1>c, <2>1, <2>2, <2>6, <3>1, <3>2, <3>3, KeepsAt
  <2> QED
    BY <2>4, <2>5, <2>6
<1>6. CASE UNCHANGED combineVars
  <2>1. windows' = windows /\ apps' = apps /\ m_indexMap' = m_indexMap
    BY <1>6 DEF combineVars
  <2> QED
    BY <1>0, <1>b, <1>c, <2>1, KeepsAt
<1>7. ASSUME NEW i \in DOMAIN windows, NEW id \in App \cup Stranger, ChangeIdentity(i, id)
      PROVE  Keeps(w)
  BY <1>3, <1>7 DEF ChangeIdentity
<1>8. ASSUME NEW i \in DOMAIN windows, ChangeState(i) PROVE Keeps(w)
  BY <1>3, <1>8 DEF ChangeState
<1> QED
  BY <1>1, <1>2, <1>4, <1>5, <1>6, <1>7, <1>8, OtherStepsKeep DEF SourceStep

\* Rows that come and go in either model never turn a window over to another
\* application (rolecombinemodel.cpp): while it keeps its identity and its
\* application stays installed, it stays with it or goes to the one it names.
THEOREM WindowsKeepApplications == Spec => BindingsKept
<1>1. ModelsInv /\ BindingsFollow /\ [Next]_vars =>
        [\A w \in ToSet(windows) \cap ToSet(windows') : Keeps(w)]_combineVars
  BY KeptStep
<1>2. Spec => [](ModelsInv /\ BindingsFollow)
  <2>1. Init => ModelsInv /\ BindingsFollow
    BY ModelsInit, FollowInit
  <2>2. ModelsInv /\ BindingsFollow /\ [Next]_vars => (ModelsInv /\ BindingsFollow)'
    BY ModelsStep, FollowStep
  <2> QED
    BY <2>1, <2>2, PTL DEF Spec
<1>3. BindingsKept <=> [][\A w \in ToSet(windows) \cap ToSet(windows') : Keeps(w)]_combineVars
  BY DEF BindingsKept, Keeps
<1> QED
  BY <1>1, <1>2, <1>3, PTL DEF Spec

-----------------------------------------------------------------------------
(* Groups.                                                                 *)

GroupSet == [key : ElementIds, rows : Seq(Nat)]

\* Groups that list no row twice and none outside R, none of them empty and no
\* two for one key.
GroupsOver(G, R) ==
  /\ G \in Seq(GroupSet)
  /\ \A g, h \in DOMAIN G : G[g].key = G[h].key => g = h
  /\ \A g \in DOMAIN G : G[g].rows # <<>>
  /\ \A g \in DOMAIN G : \A j \in DOMAIN G[g].rows : G[g].rows[j] \in R
  /\ \A g, h \in DOMAIN G : \A j \in DOMAIN G[g].rows : \A k \in DOMAIN G[h].rows :
       G[g].rows[j] = G[h].rows[k] => g = h /\ j = k

ListsAll(G, R) == \A r \in R : \E g \in DOMAIN G : \E j \in DOMAIN G[g].rows : G[g].rows[j] = r

\* The rows of a list are of the set it is over.
LEMMA RowTyped ==
  ASSUME NEW S, NEW s \in Seq(S), NEW i \in DOMAIN s
  PROVE  s[i] \in S
OBVIOUS

\* A group with its rows replaced.
LEMMA GroupReplaced ==
  ASSUME NEW x \in GroupSet, NEW new
  PROVE  [x EXCEPT !.rows = new] = [key |-> x.key, rows |-> new]
<1>1. \A y \in [key : ElementIds, rows : Seq(Nat)] : \A v :
        [y EXCEPT !.rows = v] = [key |-> y.key, rows |-> v]
  OBVIOUS
<1> QED
  BY <1>1, Zenon DEF GroupSet

\* The parts of a group.
LEMMA GroupTyped ==
  ASSUME NEW x \in GroupSet
  PROVE  x.key \in ElementIds /\ x.rows \in Seq(Nat) /\ x = [key |-> x.key, rows |-> x.rows]
BY DEF GroupSet

\* A group made of its parts.
LEMMA MadeGroup ==
  ASSUME NEW key \in ElementIds, NEW rows \in Seq(Nat), NEW x, x = [key |-> key, rows |-> rows]
  PROVE  x \in GroupSet /\ x.key = key /\ x.rows = rows
BY DEF GroupSet

\* A lookup by key finds the group of it, if there is one.
LEMMA GroupOfFacts ==
  ASSUME NEW G \in Seq(GroupSet), NEW key
  PROVE  /\ GroupOf(G, key) \in 0..Len(G)
         /\ GroupOf(G, key) # 0 => G[GroupOf(G, key)].key = key
         /\ GroupOf(G, key) = 0 => \A g \in DOMAIN G : G[g].key # key
<1> DEFINE I == {i \in 1..Len(G) : G[i].key = key}
<1>1. GroupOf(G, key) = IF I # {} THEN Min(I) ELSE 0
  BY DEF GroupOf, SelectInSeq
<1>2. CASE I = {}
  BY <1>1, <1>2
<1>3. CASE I # {}
  <2>1. I \in SUBSET Nat
    OBVIOUS
  <2>2. Min(I) \in I
    <3> HIDE DEF I
    <3> QED
      BY <1>3, <2>1, MinOfRows
  <2>3. Min(I) \in 1..Len(G) /\ G[Min(I)].key = key /\ Min(I) # 0
    BY <2>2
  <2> HIDE DEF I
  <2> QED
    BY <1>1, <1>3, <2>3
<1> QED
  BY <1>2, <1>3

\* What two lists of groups have in common when one has a row more at a place.
LEMMA EnterFacts ==
  ASSUME NEW R \in SUBSET Nat, NEW G, GroupsOver(G, R), NEW row \in Nat \ R,
         NEW none, NEW key \in ElementIds \cup {none}, none \notin ElementIds
  PROVE  /\ GroupsOver(Enter(G, row, key, none), R \cup {row})
         /\ key # none /\ ListsAll(G, R) => ListsAll(Enter(G, row, key, none), R \cup {row})
<1> DEFINE g0 == GroupOf(G, key)
           T == Enter(G, row, key, none)
<1>1. /\ g0 \in 0..Len(G)
      /\ g0 # 0 => G[g0].key = key
      /\ g0 = 0 => \A g \in DOMAIN G : G[g].key # key
  BY GroupOfFacts DEF GroupsOver
<1>2. G \in Seq(GroupSet) /\ Len(G) \in Nat /\ DOMAIN G = 1..Len(G)
  BY DEF GroupsOver
<1>3. T = IF key = none THEN G
          ELSE IF g0 = 0 THEN Append(G, [key |-> key, rows |-> <<row>>])
          ELSE [G EXCEPT ![g0].rows = Append(@, row)]
  BY DEF Enter
<1> HIDE DEF g0, T
<1>4. CASE key = none
  <2>1. T = G
    BY <1>3, <1>4
  <2> QED
    BY <1>4, <2>1 DEF GroupsOver, T
<1>5. CASE key # none /\ g0 = 0
  <2> DEFINE x == [key |-> key, rows |-> <<row>>]
             n == Len(G)
  <2>1. T = Append(G, x) /\ x \in GroupSet /\ x.key = key /\ x.rows = <<row>>
    BY <1>3, <1>5 DEF GroupSet
  <2>2. <<row>> # <<>> /\ DOMAIN <<row>> = {1} /\ <<row>>[1] = row
    OBVIOUS
  <2> HIDE DEF x, n
  <2>3. /\ T \in Seq(GroupSet) /\ Len(T) = n + 1 /\ T[n + 1] = x
        /\ \A j \in 1..n : T[j] = G[j]
    BY <1>2, <2>1, AppendRow DEF n
  <2>4. DOMAIN T = 1..n + 1 /\ n \in Nat /\ DOMAIN G = 1..n
    BY <1>2, <2>3 DEF n
  <2>5. \A g \in 1..n + 1 : g \in 1..n \/ g = n + 1
    BY <2>4
  <2>a. /\ \A g, h \in 1..n : G[g].key = G[h].key => g = h
        /\ \A g \in 1..n : G[g].rows # <<>>
        /\ \A g \in 1..n : \A j \in DOMAIN G[g].rows : G[g].rows[j] \in R
        /\ \A g, h \in 1..n : \A j \in DOMAIN G[g].rows : \A k \in DOMAIN G[h].rows :
             G[g].rows[j] = G[h].rows[k] => g = h /\ j = k
    BY <2>4 DEF GroupsOver
  <2>b. \A g \in 1..n : G[g].key # key
    BY <1>1, <1>5, <2>4
  <2>6. GroupsOver(T, R \cup {row})
    <3>1. \A g, h \in 1..n + 1 : T[g].key = T[h].key => g = h
      BY <2>1, <2>3, <2>5, <2>a, <2>b
    <3>2. \A g \in 1..n + 1 : T[g].rows # <<>>
      BY <2>1, <2>2, <2>3, <2>5, <2>a
    <3>3. \A g \in 1..n + 1 : \A j \in DOMAIN T[g].rows : T[g].rows[j] \in R \cup {row}
      BY <2>1, <2>2, <2>3, <2>5, <2>a
    <3>4. ASSUME NEW g \in 1..n + 1, NEW h \in 1..n + 1,
                 NEW j \in DOMAIN T[g].rows, NEW k \in DOMAIN T[h].rows, T[g].rows[j] = T[h].rows[k]
          PROVE  g = h /\ j = k
      <4>1. row \notin R
        OBVIOUS
      <4>2. CASE g \in 1..n /\ h \in 1..n
        BY <2>3, <2>a, <3>4, <4>2
      <4>3. CASE g = n + 1 /\ h = n + 1
        BY <2>1, <2>2, <2>3, <4>3
      <4>4. CASE g \in 1..n /\ h = n + 1
        BY <2>1, <2>2, <2>3, <2>a, <3>4, <4>1, <4>4
      <4>5. CASE g = n + 1 /\ h \in 1..n
        BY <2>1, <2>2, <2>3, <2>a, <3>4, <4>1, <4>5
      <4> QED
        BY <2>5, <4>2, <4>3, <4>4, <4>5
    <3> QED
      BY <2>3, <2>4, <3>1, <3>2, <3>3, <3>4 DEF GroupsOver
  <2>7. ASSUME ListsAll(G, R) PROVE ListsAll(T, R \cup {row})
    <3>1. n + 1 \in DOMAIN T /\ \A g \in DOMAIN G : g \in DOMAIN T
      BY <2>4
    <3>2. \E g \in DOMAIN T : \E j \in DOMAIN T[g].rows : T[g].rows[j] = row
      BY <2>1, <2>2, <2>3, <3>1
    <3>3. ASSUME NEW r \in R PROVE \E g \in DOMAIN T : \E j \in DOMAIN T[g].rows : T[g].rows[j] = r
      BY <2>3, <2>4, <2>7, <3>1 DEF ListsAll
    <3> QED
      BY <3>2, <3>3 DEF ListsAll
  <2> QED
    BY <1>5, <2>6, <2>7 DEF T
<1>6. CASE key # none /\ g0 # 0
  <2> DEFINE old == G[g0].rows
             new == Append(old, row)
             m == Len(old)
             x == [key |-> G[g0].key, rows |-> new]
  <2>0. g0 \in DOMAIN G /\ G[g0] \in GroupSet
    <3>1. g0 \in 1..Len(G)
      BY <1>1, <1>2, <1>6
    <3> QED
      BY <1>2, <3>1
  <2>1. T = [G EXCEPT ![g0] = x]
    <3>1. T = [G EXCEPT ![g0] = [G[g0] EXCEPT !.rows = Append(G[g0].rows, row)]]
      BY <1>3, <1>6
    <3>2. [G[g0] EXCEPT !.rows = Append(G[g0].rows, row)] = x
      BY <2>0, GroupReplaced
    <3> QED
      BY <3>1, <3>2, Zenon
  <2>2. old \in Seq(Nat) /\ G[g0].key \in ElementIds
    BY <2>0, GroupTyped
  <2> HIDE DEF old
  <2>3. /\ new \in Seq(Nat) /\ Len(new) = m + 1 /\ new[m + 1] = row /\ m \in Nat
        /\ \A j \in 1..m : new[j] = old[j]
    BY <2>2, AppendRow
  <2>4. DOMAIN new = 1..m + 1 /\ DOMAIN old = 1..m /\ new # <<>>
    BY <2>2, <2>3
  <2> HIDE DEF new, m
  <2>x. x \in GroupSet /\ x.key = G[g0].key /\ x.rows = new
    BY <2>2, <2>3, MadeGroup
  <2> HIDE DEF x
  <2>5. /\ T \in Seq(GroupSet) /\ DOMAIN T = DOMAIN G
        /\ \A g \in DOMAIN G : T[g].key = G[g].key
                               /\ T[g].rows = IF g = g0 THEN new ELSE G[g].rows
    BY <1>2, <2>0, <2>1, <2>x
  <2>6. \A j \in 1..m + 1 : j \in 1..m \/ j = m + 1
    BY <2>3
  <2>7. \A g \in DOMAIN G : \A j \in DOMAIN G[g].rows : G[g].rows[j] \in R
    BY DEF GroupsOver
  <2>a. /\ \A g, h \in DOMAIN G : G[g].key = G[h].key => g = h
        /\ \A g \in DOMAIN G : G[g].rows # <<>>
        /\ \A g, h \in DOMAIN G : \A j \in DOMAIN G[g].rows : \A k \in DOMAIN G[h].rows :
             G[g].rows[j] = G[h].rows[k] => g = h /\ j = k
    BY DEF GroupsOver
  <2>b. \A j \in DOMAIN new : \/ j \in DOMAIN old /\ new[j] = old[j] /\ old[j] \in R
                              \/ j = m + 1 /\ new[j] = row
    BY <2>0, <2>3, <2>4, <2>6, <2>7 DEF old
  <2>c. ASSUME NEW g \in DOMAIN T, NEW j \in DOMAIN T[g].rows
        PROVE  \/ j \in DOMAIN G[g].rows /\ T[g].rows[j] = G[g].rows[j] /\ G[g].rows[j] \in R
               \/ g = g0 /\ j = m + 1 /\ T[g].rows[j] = row
    BY <2>5, <2>7, <2>b DEF old
  <2>d. ASSUME NEW g \in DOMAIN T, NEW h \in DOMAIN T,
               NEW j \in DOMAIN T[g].rows, NEW k \in DOMAIN T[h].rows, T[g].rows[j] = T[h].rows[k]
        PROVE  g = h /\ j = k
    <3>1. row \notin R
      OBVIOUS
    <3> QED
      BY <2>5, <2>a, <2>c, <2>d, <3>1
  <2>8. GroupsOver(T, R \cup {row})
    <3>1. \A g, h \in DOMAIN T : T[g].key = T[h].key => g = h
      BY <2>5, <2>a
    <3>2. \A g \in DOMAIN T : T[g].rows # <<>>
      BY <2>4, <2>5, <2>a
    <3>3. \A g \in DOMAIN T : \A j \in DOMAIN T[g].rows : T[g].rows[j] \in R \cup {row}
      BY <2>c
    <3> QED
      BY <2>5, <2>d, <3>1, <3>2, <3>3 DEF GroupsOver
  <2>9. ASSUME ListsAll(G, R) PROVE ListsAll(T, R \cup {row})
    <3>1. m + 1 \in DOMAIN new /\ \A j \in DOMAIN old : j \in DOMAIN new
      BY <2>3, <2>4
    <3>2. \E g \in DOMAIN T : \E j \in DOMAIN T[g].rows : T[g].rows[j] = row
      BY <2>0, <2>3, <2>5, <3>1
    <3>3. ASSUME NEW r \in R PROVE \E g \in DOMAIN T : \E j \in DOMAIN T[g].rows : T[g].rows[j] = r
      <4>0. PICK g \in DOMAIN G : \E j \in DOMAIN G[g].rows : G[g].rows[j] = r
        BY <2>9 DEF ListsAll
      <4>1. PICK j \in DOMAIN G[g].rows : G[g].rows[j] = r
        BY <4>0
      <4>2. j \in DOMAIN T[g].rows /\ T[g].rows[j] = G[g].rows[j]
        BY <2>3, <2>4, <2>5, <3>1 DEF old
      <4> QED
        BY <2>5, <4>1, <4>2
    <3> QED
      BY <3>2, <3>3 DEF ListsAll
  <2> QED
    BY <1>6, <2>8, <2>9 DEF T
<1> QED
  BY <1>4, <1>5, <1>6

\* Groups whose rows are all given new numbers.
Relabelled(x, f) == [key |-> x.key, rows |-> [j \in DOMAIN x.rows |-> f[x.rows[j]]]]
AllRelabelled(G, f) == [g \in DOMAIN G |-> Relabelled(G[g], f)]

\* Groups whose rows are numbered anew, no two alike, stay groups.
LEMMA RelabelledGroups ==
  ASSUME NEW R \in SUBSET Nat, NEW Q \in SUBSET Nat, NEW G, GroupsOver(G, R),
         NEW f \in [R -> Q], \A r, q \in R : f[r] = f[q] => r = q
  PROVE  /\ GroupsOver(AllRelabelled(G, f), Q)
         /\ ListsAll(G, R) /\ (\A q \in Q : \E r \in R : f[r] = q) => ListsAll(AllRelabelled(G, f), Q)
<1> DEFINE T == AllRelabelled(G, f)
<1>0. DOMAIN T = DOMAIN G /\ \A g \in DOMAIN G : T[g] = Relabelled(G[g], f)
  BY DEF AllRelabelled
<1> HIDE DEF T
<1>f. \A r \in R : f[r] \in Q /\ f[r] \in Nat
  OBVIOUS
<1>1. /\ \A g, h \in DOMAIN G : G[g].key = G[h].key => g = h
      /\ \A g \in DOMAIN G : G[g].rows # <<>>
      /\ \A g \in DOMAIN G : \A j \in DOMAIN G[g].rows : G[g].rows[j] \in R
      /\ \A g, h \in DOMAIN G : \A j \in DOMAIN G[g].rows : \A k \in DOMAIN G[h].rows :
           G[g].rows[j] = G[h].rows[k] => g = h /\ j = k
  BY DEF GroupsOver
<1>2. ASSUME NEW g \in DOMAIN G
      PROVE  /\ T[g] \in GroupSet /\ T[g].key = G[g].key
             /\ DOMAIN T[g].rows = DOMAIN G[g].rows /\ T[g].rows # <<>>
             /\ \A j \in DOMAIN G[g].rows : T[g].rows[j] = f[G[g].rows[j]]
  <2> DEFINE old == G[g].rows
             new == [j \in DOMAIN old |-> f[old[j]]]
             key == G[g].key
  <2>1. T[g] = [key |-> key, rows |-> new]
    BY <1>0 DEF Relabelled
  <2>2. key \in ElementIds /\ old \in Seq(Nat)
    <3>0. G \in Seq(GroupSet)
      BY DEF GroupsOver
    <3>1. G[g] \in GroupSet
      BY <3>0, RowTyped, Zenon
    <3> QED
      BY <3>1, GroupTyped
  <2>3. \A j \in DOMAIN old : old[j] \in R /\ f[old[j]] \in Nat
    BY <1>1, <1>f, Zenon
  <2>4. DOMAIN old = 1..Len(old) /\ Len(old) \in Nat /\ old # <<>>
    BY <1>1, <2>2
  <2>5. DOMAIN new = DOMAIN old /\ \A j \in DOMAIN old : new[j] = f[old[j]]
    OBVIOUS
  <2> HIDE DEF old, key
  <2>6. new \in Seq(Nat)
    <3>1. new \in [1..Len(old) -> Nat]
      BY <2>3, <2>4
    <3> QED
      BY <2>4, <3>1
  <2>7. new # <<>>
    <3>1. 1 \in DOMAIN old
      BY <2>2, <2>4
    <3> QED
      BY <2>5, <3>1
  <2> HIDE DEF new
  <2>8. T[g] \in GroupSet /\ T[g].key = key /\ T[g].rows = new
    BY <2>1, <2>2, <2>6, MadeGroup
  <2> QED
    BY <2>5, <2>7, <2>8 DEF old, key
<1>3. T \in Seq(GroupSet)
  <2> DEFINE n == Len(G)
  <2>1. DOMAIN G = 1..n /\ n \in Nat
    BY DEF GroupsOver
  <2>2. \A g \in DOMAIN G : Relabelled(G[g], f) \in GroupSet
    BY <1>0, <1>2
  <2> HIDE DEF n
  <2>3. T \in [1..n -> GroupSet]
    BY <2>1, <2>2 DEF AllRelabelled, T
  <2> QED
    BY <2>1, <2>3
<1>4. GroupsOver(T, Q)
  <2>1. \A g, h \in DOMAIN T : T[g].key = T[h].key => g = h
    BY <1>1, <1>0, <1>2
  <2>2. \A g \in DOMAIN T : T[g].rows # <<>>
    BY <1>0, <1>2
  <2>3. ASSUME NEW g \in DOMAIN T, NEW j \in DOMAIN T[g].rows PROVE T[g].rows[j] \in Q
    <3>1. g \in DOMAIN G /\ j \in DOMAIN G[g].rows /\ T[g].rows[j] = f[G[g].rows[j]]
      BY <1>0, <1>2
    <3> QED
      BY <1>1, <1>f, <3>1
  <2>4. ASSUME NEW g \in DOMAIN T, NEW h \in DOMAIN T,
               NEW j \in DOMAIN T[g].rows, NEW k \in DOMAIN T[h].rows, T[g].rows[j] = T[h].rows[k]
        PROVE  g = h /\ j = k
    <3>1. f[G[g].rows[j]] = f[G[h].rows[k]] /\ G[g].rows[j] \in R /\ G[h].rows[k] \in R
      BY <1>0, <1>1, <1>2, <2>4
    <3>2. G[g].rows[j] = G[h].rows[k]
      BY <3>1
    <3> QED
      BY <1>0, <1>1, <1>2, <2>4, <3>2
  <2> QED
    BY <1>3, <2>1, <2>2, <2>3, <2>4 DEF GroupsOver
<1>5. ASSUME ListsAll(G, R), \A q \in Q : \E r \in R : f[r] = q, NEW q \in Q
      PROVE  \E g \in DOMAIN T : \E j \in DOMAIN T[g].rows : T[g].rows[j] = q
  <2>1. PICK r \in R : f[r] = q
    BY <1>5
  <2>2. PICK g \in DOMAIN G : \E j \in DOMAIN G[g].rows : G[g].rows[j] = r
    BY <1>5 DEF ListsAll
  <2>3. PICK j \in DOMAIN G[g].rows : G[g].rows[j] = r
    BY <2>2
  <2> QED
    BY <1>0, <1>2, <2>1, <2>3
<1> QED
  BY <1>4, <1>5 DEF ListsAll, T

\* Room made for m rows at first.
LEMMA AdjustUpFacts ==
  ASSUME NEW n \in Nat, NEW G, GroupsOver(G, 1..n), NEW first \in 1..n + 1, NEW m \in Nat,
         NEW Q, Q = (1..first - 1) \cup (first + m..n + m)
  PROVE  /\ GroupsOver(AdjustUp(G, first, m), Q)
         /\ ListsAll(G, 1..n) => ListsAll(AdjustUp(G, first, m), Q)
<1> DEFINE R == 1..n
           f == [r \in R |-> IF r < first THEN r ELSE r + m]
           T == AdjustUp(G, first, m)
<1>1. R \in SUBSET Nat /\ Q \in SUBSET Nat /\ f \in [R -> Q] /\ \A r, q \in R : f[r] = f[q] => r = q
  OBVIOUS
<1>2. ASSUME NEW q \in Q PROVE \E r \in R : f[r] = q
  <2>1. CASE q \in 1..first - 1
    BY <2>1
  <2>2. CASE q \in first + m..n + m
    <3>1. q - m \in R /\ f[q - m] = q
      BY <2>2
    <3> QED
      BY <3>1
  <2> QED
    BY <2>1, <2>2
<1>3. G \in Seq(GroupSet) /\ DOMAIN G = 1..Len(G) /\ Len(G) \in Nat
  BY DEF GroupsOver
<1>4. ASSUME NEW g \in DOMAIN G
      PROVE  [G[g] EXCEPT !.rows = [j \in DOMAIN G[g].rows |->
                IF G[g].rows[j] < first THEN G[g].rows[j] ELSE G[g].rows[j] + m]]
             = Relabelled(G[g], f)
  <2> DEFINE rows == G[g].rows
             new == [j \in DOMAIN rows |-> IF rows[j] < first THEN rows[j] ELSE rows[j] + m]
  <2>1. \A j \in DOMAIN rows : rows[j] \in R
    BY DEF GroupsOver
  <2>2. new = [j \in DOMAIN rows |-> f[rows[j]]]
    <3> HIDE DEF rows
    <3> QED
      BY <2>1
  <2>3. G[g] \in GroupSet
    BY <1>3
  <2>4. [G[g] EXCEPT !.rows = new] = [key |-> G[g].key, rows |-> new]
    BY <2>3, GroupReplaced
  <2> QED
    BY <2>2, <2>4, Zenon DEF Relabelled
<1>5. T = [g \in DOMAIN G |-> [G[g] EXCEPT !.rows = [j \in DOMAIN G[g].rows |->
                IF G[g].rows[j] < first THEN G[g].rows[j] ELSE G[g].rows[j] + m]]]
  BY DEF AdjustUp
<1>6. T = AllRelabelled(G, f)
  BY <1>4, <1>5, Zenon DEF AllRelabelled
<1> HIDE DEF R, f, T
<1>9. GroupsOver(G, R)
  BY DEF R
<1>10. /\ GroupsOver(T, Q)
       /\ ListsAll(G, R) /\ (\A q \in Q : \E r \in R : f[r] = q) => ListsAll(T, Q)
  <2>1. R \in SUBSET Nat
    BY <1>1
  <2>2. Q \in SUBSET Nat
    BY <1>1
  <2>3. f \in [R -> Q]
    BY <1>1
  <2>4. \A r, q \in R : f[r] = f[q] => r = q
    BY <1>1
  <2> QED
    BY <1>6, <1>9, <2>1, <2>2, <2>3, <2>4, RelabelledGroups
<1> QED
  BY <1>2, <1>10 DEF R, T

\* The room of one row taken away.
LEMMA AdjustDownFacts ==
  ASSUME NEW n \in Nat, NEW row \in 1..n, NEW G, GroupsOver(G, (1..n) \ {row})
  PROVE  /\ GroupsOver(AdjustDown(G, row, 1), 1..n - 1)
         /\ ListsAll(G, (1..n) \ {row}) => ListsAll(AdjustDown(G, row, 1), 1..n - 1)
<1> DEFINE R == (1..n) \ {row}
           Q == 1..n - 1
           f == [r \in R |-> IF r < row THEN r ELSE r - 1]
           T == AdjustDown(G, row, 1)
<1>1. R \in SUBSET Nat /\ Q \in SUBSET Nat /\ f \in [R -> Q] /\ \A r, q \in R : f[r] = f[q] => r = q
  OBVIOUS
<1>2. ASSUME NEW q \in Q PROVE \E r \in R : f[r] = q
  <2>1. CASE q < row
    BY <2>1
  <2>2. CASE row <= q
    <3>1. q + 1 \in R /\ f[q + 1] = q
      BY <2>2
    <3> QED
      BY <3>1
  <2> QED
    BY <2>1, <2>2
<1>3. G \in Seq(GroupSet) /\ DOMAIN G = 1..Len(G) /\ Len(G) \in Nat
  BY DEF GroupsOver
<1>4. ASSUME NEW g \in DOMAIN G
      PROVE  [G[g] EXCEPT !.rows = [j \in DOMAIN G[g].rows |->
                IF G[g].rows[j] < row THEN G[g].rows[j] ELSE G[g].rows[j] - 1]]
             = Relabelled(G[g], f)
  <2> DEFINE rows == G[g].rows
             new == [j \in DOMAIN rows |-> IF rows[j] < row THEN rows[j] ELSE rows[j] - 1]
  <2>1. \A j \in DOMAIN rows : rows[j] \in R
    BY DEF GroupsOver
  <2>2. new = [j \in DOMAIN rows |-> f[rows[j]]]
    <3> HIDE DEF rows
    <3> QED
      BY <2>1
  <2>3. G[g] \in GroupSet
    BY <1>3
  <2>4. [G[g] EXCEPT !.rows = new] = [key |-> G[g].key, rows |-> new]
    BY <2>3, GroupReplaced
  <2> QED
    BY <2>2, <2>4, Zenon DEF Relabelled
<1>5. T = [g \in DOMAIN G |-> [G[g] EXCEPT !.rows = [j \in DOMAIN G[g].rows |->
                IF G[g].rows[j] < row THEN G[g].rows[j] ELSE G[g].rows[j] - 1]]]
  BY DEF AdjustDown
<1>6. T = AllRelabelled(G, f)
  BY <1>4, <1>5, Zenon DEF AllRelabelled
<1> HIDE DEF R, Q, f, T
<1>9. GroupsOver(G, R)
  BY DEF R
<1>10. /\ GroupsOver(T, Q)
       /\ ListsAll(G, R) /\ (\A q \in Q : \E r \in R : f[r] = q) => ListsAll(T, Q)
  <2>1. R \in SUBSET Nat
    BY <1>1
  <2>2. Q \in SUBSET Nat
    BY <1>1
  <2>3. f \in [R -> Q]
    BY <1>1
  <2>4. \A r, q \in R : f[r] = f[q] => r = q
    BY <1>1
  <2> QED
    BY <1>6, <1>9, <2>1, <2>2, <2>3, <2>4, RelabelledGroups
<1> QED
  BY <1>2, <1>10 DEF R, Q, T

\* Rows that are entered one after the other.
EnterStep(c, acc, i) ==
  LET k == [j \in 1..Len(c.keys) |-> j][i]
  IN Enter(acc, c.first + k - 1, c.keys[k], c.none)

EnterHolds(c, acc, i) ==
  /\ GroupsOver(acc, c.before \cup (c.first..c.first + i - 1))
  /\ c.listed => ListsAll(acc, c.before \cup (c.first..c.first + i - 1))

Entering == INSTANCE FoldFacts WITH Step <- EnterStep, Holds <- EnterHolds

\* RowsInserted is that fold.
LEMMA RowsInsertedFolds ==
  ASSUME NEW c
  PROVE  RowsInserted(c.groups, c.first, c.keys, c.none)
         = Entering!Fold(c, AdjustUp(c.groups, c.first, Len(c.keys)), DOMAIN [j \in 1..Len(c.keys) |-> j])
BY DEF RowsInserted, FoldLeft, MapThenFoldSet, Max, EnterStep,
       Entering!Fold, Entering!IsIter, Entering!Max

\* New rows are listed, each once, and the rows behind them follow.
LEMMA RowsInsertedFacts ==
  ASSUME NEW n \in Nat, NEW G, GroupsOver(G, 1..n), NEW first \in 1..n + 1,
         NEW none, none \notin ElementIds, NEW keys \in Seq(ElementIds \cup {none})
  PROVE  /\ GroupsOver(RowsInserted(G, first, keys, none), 1..n + Len(keys))
         /\ ListsAll(G, 1..n) /\ (\A i \in 1..Len(keys) : keys[i] # none) =>
              ListsAll(RowsInserted(G, first, keys, none), 1..n + Len(keys))
<1> DEFINE m == Len(keys)
           before == (1..first - 1) \cup (first + m..n + m)
           listed == ListsAll(G, 1..n) /\ \A i \in 1..m : keys[i] # none
           c == [groups |-> G, first |-> first, keys |-> keys, none |-> none,
                 before |-> before, listed |-> listed]
           base == AdjustUp(G, first, m)
           R(i) == before \cup (first..first + i - 1)
<1>1. /\ c.groups = G /\ c.first = first /\ c.keys = keys /\ c.none = none
      /\ c.before = before /\ c.listed = listed
  OBVIOUS
<1>2. m \in Nat /\ first \in Nat /\ \A i \in 1..m : keys[i] \in ElementIds \cup {none}
  OBVIOUS
<1>3. DOMAIN [j \in 1..m |-> j] = 1..m
  OBVIOUS
<1>4. R(0) = before /\ R(m) = 1..n + m
  BY <1>2
<1>5. \A i \in 1..m : /\ R(i) = R(i - 1) \cup {first + i - 1}
                      /\ first + i - 1 \in Nat \ R(i - 1) /\ R(i - 1) \in SUBSET Nat
  BY <1>2
<1> HIDE DEF m, before, c, listed
<1>6. GroupsOver(base, before) /\ (listed => ListsAll(base, before))
  BY <1>2, AdjustUpFacts DEF before, listed
<1> HIDE DEF base
<1>7. EnterHolds(c, base, 0)
  BY <1>1, <1>4, <1>6 DEF EnterHolds
<1>8. ASSUME NEW i \in 1..m, NEW acc, EnterHolds(c, acc, i - 1)
      PROVE  EnterHolds(c, EnterStep(c, acc, i), i)
  <2> DEFINE row == first + i - 1
             T == Enter(acc, row, keys[i], none)
  <2>1. EnterStep(c, acc, i) = T
    <3>1. Len(c.keys) = m /\ [j \in 1..m |-> j][i] = i
      BY <1>1 DEF m
    <3> QED
      BY <1>1, <3>1 DEF EnterStep
  <2>2. GroupsOver(acc, R(i - 1)) /\ (listed => ListsAll(acc, R(i - 1)))
    <3>1. c.first + (i - 1) - 1 = first + (i - 1) - 1
      BY <1>1
    <3> QED
      BY <1>1, <1>8, <3>1 DEF EnterHolds
  <2>3. /\ GroupsOver(T, R(i - 1) \cup {row})
        /\ keys[i] # none /\ ListsAll(acc, R(i - 1)) => ListsAll(T, R(i - 1) \cup {row})
    <3>1. /\ R(i - 1) \in SUBSET Nat /\ row \in Nat \ R(i - 1)
          /\ keys[i] \in ElementIds \cup {none}
      BY <1>2, <1>5
    <3> HIDE DEF row, R
    <3> QED
      BY <2>2, <3>1, EnterFacts
  <2>4. R(i - 1) \cup {row} = R(i)
    BY <1>5
  <2>5. GroupsOver(T, R(i)) /\ (listed => ListsAll(T, R(i)))
    <3> HIDE DEF row, T, R
    <3> QED
      BY <2>2, <2>3, <2>4 DEF listed, m
  <2> HIDE DEF T
  <2> QED
    BY <1>1, <2>1, <2>5 DEF EnterHolds
<1>9. EnterHolds(c, Entering!Fold(c, base, 1..m), m)
  BY <1>2, <1>7, <1>8, RowsOrdered, Entering!FoldKeeps
<1>10. RowsInserted(G, first, keys, none) = Entering!Fold(c, base, 1..m)
  BY <1>1, <1>3, RowsInsertedFolds DEF base, m
<1> QED
  BY <1>1, <1>4, <1>9, <1>10 DEF EnterHolds, listed, m

-----------------------------------------------------------------------------
(* A row taken out of its group.                                           *)

Left(rows, row) == RowsAt(rows, {j \in DOMAIN rows : rows[j] \notin row..row})

\* The rows of left are those of rows other than row, each from one place.
PickedFrom(left, rows, row) ==
  \E place \in [DOMAIN left -> DOMAIN rows] :
    /\ \A j, k \in DOMAIN left : place[j] = place[k] => j = k
    /\ \A j \in DOMAIN left : left[j] = rows[place[j]] /\ rows[place[j]] # row
    /\ \A x \in DOMAIN rows : rows[x] # row => \E j \in DOMAIN left : place[j] = x

\* Taking a row out of a list keeps the others, each once.
LEMMA LeftFacts ==
  ASSUME NEW rows \in Seq(Nat), NEW row \in Nat
  PROVE  /\ Left(rows, row) \in Seq(Nat)
         /\ PickedFrom(Left(rows, row), rows, row)
         /\ (\A j \in DOMAIN rows : rows[j] # row) => Left(rows, row) = rows
<1> DEFINE I == {j \in DOMAIN rows : rows[j] \notin row..row}
           left == Left(rows, row)
           m == Cardinality(I)
           place == Ascending(I)
<1>1. left = RowsAt(rows, I)
  BY DEF Left
<1>2. \A j \in DOMAIN rows : rows[j] \in Nat /\ (j \in I <=> rows[j] # row)
  OBVIOUS
<1>3. I \in SUBSET DOMAIN rows
  OBVIOUS
<1>4. DOMAIN rows = 1..Len(rows) /\ Len(rows) \in Nat
  OBVIOUS
<1> HIDE DEF I, left
<1>5. /\ Len(left) = m /\ m \in Nat /\ left \in Seq(Nat)
      /\ place \in [1..m -> I]
      /\ \A i, j \in 1..m : i < j => place[i] < place[j]
      /\ \A x \in I : \E i \in 1..m : place[i] = x
      /\ \A i \in 1..m : left[i] = rows[place[i]]
  BY <1>1, <1>3, RowsAtFacts
<1>6. DOMAIN left = 1..m
  BY <1>5
<1> HIDE DEF place, m
<1>7. place \in [1..m -> DOMAIN rows] /\ \A i \in 1..m : place[i] \in I
  BY <1>3, <1>5
<1>8. ASSUME NEW j \in 1..m, NEW k \in 1..m, place[j] = place[k] PROVE j = k
  <2>1. ~ (j < k) /\ ~ (k < j)
    <3>1. place[j] \in Nat
      BY <1>4, <1>7
    <3> QED
      BY <1>5, <1>8, <3>1
  <2> QED
    BY <2>1
<1>9. ASSUME \A j \in DOMAIN rows : rows[j] # row PROVE left = rows
  <2>1. I = DOMAIN rows
    BY <1>2, <1>3, <1>9
  <2> QED
    BY <1>1, <2>1, RowsAtAll
<1>10. /\ place \in [DOMAIN left -> DOMAIN rows]
       /\ \A j, k \in DOMAIN left : place[j] = place[k] => j = k
       /\ \A j \in DOMAIN left : left[j] = rows[place[j]] /\ rows[place[j]] # row
       /\ \A x \in DOMAIN rows : rows[x] # row => \E j \in DOMAIN left : place[j] = x
  <2>1. \A j \in 1..m : place[j] \in DOMAIN rows /\ rows[place[j]] # row
    BY <1>2, <1>3, <1>7, Zenon
  <2> QED
    BY <1>2, <1>5, <1>6, <1>7, <1>8, <2>1
<1>11. PickedFrom(left, rows, row)
  BY <1>10, Zenon DEF PickedFrom
<1> QED
  BY <1>5, <1>9, <1>11, Zenon DEF left

Trimmed(x, row) == [x EXCEPT !.rows = Left(x.rows, row)]

\* A group without the row has the same key.
LEMMA TrimmedFacts ==
  ASSUME NEW x \in GroupSet, NEW row \in Nat
  PROVE  /\ Trimmed(x, row) \in GroupSet
         /\ Trimmed(x, row).key = x.key
         /\ Trimmed(x, row).rows = Left(x.rows, row)
         /\ (\A j \in DOMAIN x.rows : x.rows[j] # row) => Trimmed(x, row) = x
<1> DEFINE left == Left(x.rows, row)
<1>1. x.key \in ElementIds /\ x.rows \in Seq(Nat) /\ x = [key |-> x.key, rows |-> x.rows]
  BY GroupTyped
<1>2. left \in Seq(Nat) /\ ((\A j \in DOMAIN x.rows : x.rows[j] # row) => left = x.rows)
  BY <1>1, LeftFacts
<1> HIDE DEF left
<1>3. Trimmed(x, row) = [key |-> x.key, rows |-> left]
  <2>1. [x EXCEPT !.rows = left] = [key |-> x.key, rows |-> left]
    BY GroupReplaced
  <2> QED
    BY <2>1 DEF Trimmed, left
<1>4. Trimmed(x, row) \in GroupSet /\ Trimmed(x, row).key = x.key /\ Trimmed(x, row).rows = left
  BY <1>1, <1>2, <1>3, MadeGroup
<1>5. ASSUME \A j \in DOMAIN x.rows : x.rows[j] # row PROVE Trimmed(x, row) = x
  BY <1>1, <1>2, <1>3, <1>5
<1> QED
  BY <1>4, <1>5 DEF left

\* The groups that are left when a row goes: that of which it was the last is
\* not among them.
Emptied(G, row, at) == at \in DOMAIN G /\ Left(G[at].rows, row) = <<>>

\* A row is in one group at most, so that one alone is emptied.
LEMMA OthersKept ==
  ASSUME NEW R \in SUBSET Nat, NEW G, GroupsOver(G, R), NEW row \in R, NEW at, Emptied(G, row, at)
  PROVE  \A g \in DOMAIN G \ {at} : \A j \in DOMAIN G[g].rows : G[g].rows[j] # row
<1>1. G[at].rows \in Seq(Nat) /\ G[at].rows # <<>> /\ at \in DOMAIN G
  <2>1. G \in Seq(GroupSet) /\ at \in DOMAIN G
    BY DEF GroupsOver, Emptied
  <2>2. G[at] \in GroupSet
    BY <2>1
  <2> QED
    BY <2>1, <2>2, GroupTyped DEF GroupsOver
<1>2. 1 \in DOMAIN G[at].rows
  BY <1>1
<1>3. G[at].rows[1] = row
  <2> SUFFICES ASSUME G[at].rows[1] # row PROVE FALSE
    OBVIOUS
  <2>1. \E j \in DOMAIN Left(G[at].rows, row) : TRUE
    BY <1>1, <1>2, LeftFacts DEF PickedFrom
  <2>2. Left(G[at].rows, row) = <<>>
    BY DEF Emptied
  <2> QED
    BY <2>1, <2>2
<1> QED
  BY <1>1, <1>2, <1>3 DEF GroupsOver

\* The groups without the row list what is left.
LEMMA TrimmedGroups ==
  ASSUME NEW R \in SUBSET Nat, NEW G, GroupsOver(G, R), NEW row \in Nat,
         NEW T, T \in Seq(GroupSet),
         NEW old \in [DOMAIN T -> DOMAIN G],
         \A g, h \in DOMAIN T : old[g] = old[h] => g = h,
         \A g \in DOMAIN T : T[g] = Trimmed(G[old[g]], row) /\ Left(G[old[g]].rows, row) # <<>>,
         \A g \in DOMAIN G : Left(G[g].rows, row) # <<>> => \E h \in DOMAIN T : old[h] = g
  PROVE  /\ GroupsOver(T, R \ {row})
         /\ ListsAll(G, R) => ListsAll(T, R \ {row})
<1>0. /\ \A g, h \in DOMAIN G : G[g].key = G[h].key => g = h
      /\ \A g \in DOMAIN G : \A j \in DOMAIN G[g].rows : G[g].rows[j] \in R
      /\ \A g, h \in DOMAIN G : \A j \in DOMAIN G[g].rows : \A k \in DOMAIN G[h].rows :
           G[g].rows[j] = G[h].rows[k] => g = h /\ j = k
  BY DEF GroupsOver
<1>1. ASSUME NEW g \in DOMAIN G PROVE G[g] \in GroupSet /\ G[g].rows \in Seq(Nat)
  <2>1. G \in Seq(GroupSet)
    BY DEF GroupsOver
  <2>2. G[g] \in GroupSet
    BY <2>1, RowTyped, Zenon
  <2> QED
    BY <2>2, GroupTyped
<1>2. ASSUME NEW g \in DOMAIN T
      PROVE  /\ old[g] \in DOMAIN G
             /\ T[g].key = G[old[g]].key /\ T[g].rows = Left(G[old[g]].rows, row) /\ T[g].rows # <<>>
  <2>1. old[g] \in DOMAIN G
    OBVIOUS
  <2>2. T[g] = Trimmed(G[old[g]], row) /\ Left(G[old[g]].rows, row) # <<>>
    OBVIOUS
  <2>3. G[old[g]] \in GroupSet
    BY <1>1, <2>1
  <2>4. /\ Trimmed(G[old[g]], row).key = G[old[g]].key
        /\ Trimmed(G[old[g]], row).rows = Left(G[old[g]].rows, row)
    BY <2>3, TrimmedFacts
  <2> QED
    BY <2>1, <2>2, <2>4, Zenon
<1>3. ASSUME NEW g \in DOMAIN T PROVE PickedFrom(T[g].rows, G[old[g]].rows, row)
  <2>1. G[old[g]].rows \in Seq(Nat) /\ T[g].rows = Left(G[old[g]].rows, row)
    BY <1>1, <1>2
  <2>2. PickedFrom(Left(G[old[g]].rows, row), G[old[g]].rows, row)
    BY <2>1, LeftFacts
  <2> QED
    BY <2>1, <2>2, Zenon
<1>4. ASSUME NEW g \in DOMAIN T, NEW j \in DOMAIN T[g].rows PROVE T[g].rows[j] \in R \ {row}
  <2>1. PICK place \in [DOMAIN T[g].rows -> DOMAIN G[old[g]].rows] :
          T[g].rows[j] = G[old[g]].rows[place[j]] /\ G[old[g]].rows[place[j]] # row
    BY <1>3 DEF PickedFrom
  <2>2. place[j] \in DOMAIN G[old[g]].rows
    OBVIOUS
  <2> QED
    BY <1>0, <1>2, <2>1, <2>2
<1>5. ASSUME NEW g \in DOMAIN T, NEW h \in DOMAIN T,
             NEW j \in DOMAIN T[g].rows, NEW k \in DOMAIN T[h].rows, T[g].rows[j] = T[h].rows[k]
      PROVE  g = h /\ j = k
  <2>1. PICK x \in DOMAIN G[old[g]].rows : T[g].rows[j] = G[old[g]].rows[x]
    BY <1>3 DEF PickedFrom
  <2>2. PICK y \in DOMAIN G[old[h]].rows : T[h].rows[k] = G[old[h]].rows[y]
    BY <1>3 DEF PickedFrom
  <2>3. old[g] = old[h]
    <3>1. old[g] \in DOMAIN G /\ old[h] \in DOMAIN G /\ G[old[g]].rows[x] = G[old[h]].rows[y]
      BY <1>2, <1>5, <2>1, <2>2
    <3> QED
      BY <1>0, <3>1
  <2>4. g = h
    BY <2>3
  <2>5. PICK place \in [DOMAIN T[g].rows -> DOMAIN G[old[g]].rows] :
          /\ \A a, b \in DOMAIN T[g].rows : place[a] = place[b] => a = b
          /\ \A a \in DOMAIN T[g].rows : T[g].rows[a] = G[old[g]].rows[place[a]]
    BY <1>3 DEF PickedFrom
  <2>6. k \in DOMAIN T[g].rows /\ T[g].rows[j] = T[g].rows[k]
    BY <1>5, <2>4
  <2>7. /\ place[j] \in DOMAIN G[old[g]].rows /\ place[k] \in DOMAIN G[old[g]].rows
        /\ G[old[g]].rows[place[j]] = G[old[g]].rows[place[k]]
    BY <2>5, <2>6
  <2>8. place[j] = place[k]
    BY <1>0, <1>2, <2>7
  <2> QED
    BY <2>4, <2>5, <2>6, <2>8
<1>6. \A g, h \in DOMAIN T : T[g].key = T[h].key => g = h
  BY <1>0, <1>2
<1>7. ASSUME ListsAll(G, R), NEW r \in R \ {row}
      PROVE  \E g \in DOMAIN T : \E j \in DOMAIN T[g].rows : T[g].rows[j] = r
  <2>1. PICK q \in DOMAIN G : \E x \in DOMAIN G[q].rows : G[q].rows[x] = r
    BY <1>7 DEF ListsAll
  <2>2. PICK x \in DOMAIN G[q].rows : G[q].rows[x] = r
    BY <2>1
  <2>3. Left(G[q].rows, row) # <<>>
    <3>1. G[q].rows \in Seq(Nat) /\ G[q].rows[x] # row
      BY <1>1, <2>2
    <3>2. \E j \in DOMAIN Left(G[q].rows, row) : TRUE
      BY <2>2, <3>1, LeftFacts DEF PickedFrom
    <3> QED
      BY <3>2
  <2>4. PICK g \in DOMAIN T : old[g] = q
    BY <2>3
  <2>5. PICK place \in [DOMAIN T[g].rows -> DOMAIN G[old[g]].rows] :
          /\ \A j \in DOMAIN T[g].rows : T[g].rows[j] = G[old[g]].rows[place[j]]
          /\ \A y \in DOMAIN G[old[g]].rows :
               G[old[g]].rows[y] # row => \E j \in DOMAIN T[g].rows : place[j] = y
    BY <1>3 DEF PickedFrom
  <2>6. PICK j \in DOMAIN T[g].rows : place[j] = x
    BY <2>2, <2>4, <2>5
  <2> QED
    BY <2>2, <2>4, <2>5, <2>6
<1>8. GroupsOver(T, R \ {row})
  BY <1>2, <1>4, <1>5, <1>6 DEF GroupsOver
<1> QED
  BY <1>7, <1>8 DEF ListsAll

\* The loop over the groups.
VisitStep(c, acc, i) ==
  LET group == c.groups[i]
      left == RowsAt(group.rows, {j \in DOMAIN group.rows : group.rows[j] \notin c.first..c.last})
  IN IF acc.pass THEN [out |-> Append(acc.out, group), pass |-> FALSE]
     ELSE IF left = <<>> THEN [out |-> acc.out, pass |-> TRUE]
     ELSE [out |-> Append(acc.out, [group EXCEPT !.rows = left]), pass |-> FALSE]

\* Before the emptied group they are listed in their places, behind it one less.
VisitHolds(c, acc, i) ==
  /\ acc.out \in Seq(GroupSet)
  /\ Len(acc.out) = IF c.at # 0 /\ i >= c.at THEN i - 1 ELSE i
  /\ \A j \in 1..Len(acc.out) : acc.out[j] = c.target[j]
  /\ acc.pass = (c.at # 0 /\ i = c.at)

Visiting == INSTANCE FoldFacts WITH Step <- VisitStep, Holds <- VisitHolds

\* RowsRemoved is that fold.
LEMMA RowsRemovedFolds ==
  ASSUME NEW c
  PROVE  RowsRemoved(c.groups, c.first, c.last)
         = AdjustDown(Visiting!Fold(c, [out |-> <<>>, pass |-> FALSE], DOMAIN c.groups).out,
                      c.first, c.last - c.first + 1)
BY DEF RowsRemoved, FoldLeft, MapThenFoldSet, Max, VisitStep,
       Visiting!Fold, Visiting!IsIter, Visiting!Max

\* One turn of it.
LEMMA VisitOne ==
  ASSUME NEW G \in Seq(GroupSet), NEW row \in Nat, NEW c, c.groups = G, c.first = row, c.last = row,
         NEW i \in DOMAIN G, NEW acc
  PROVE  VisitStep(c, acc, i) =
           IF acc.pass THEN [out |-> Append(acc.out, G[i]), pass |-> FALSE]
           ELSE IF Left(G[i].rows, row) = <<>> THEN [out |-> acc.out, pass |-> TRUE]
           ELSE [out |-> Append(acc.out, Trimmed(G[i], row)), pass |-> FALSE]
BY DEF VisitStep, Left, Trimmed

\* A row that is removed leaves its group, the rows behind it follow, and no
\* other is lost, although the loop passes over a group.
LEMMA RowsRemovedFacts ==
  ASSUME NEW n \in Nat, NEW G, GroupsOver(G, 1..n), NEW row \in 1..n
  PROVE  /\ GroupsOver(RowsRemoved(G, row, row), 1..n - 1)
         /\ ListsAll(G, 1..n) => ListsAll(RowsRemoved(G, row, row), 1..n - 1)
<1> DEFINE N == Len(G)
           at == IF \E g \in DOMAIN G : Emptied(G, row, g)
                 THEN CHOOSE g \in DOMAIN G : Emptied(G, row, g) ELSE 0
           long(i) == IF at # 0 /\ i >= at THEN i - 1 ELSE i
           old == [g \in 1..long(N) |-> IF at # 0 /\ g >= at THEN g + 1 ELSE g]
           T == [g \in 1..long(N) |-> Trimmed(G[old[g]], row)]
           c == [groups |-> G, first |-> row, last |-> row, target |-> T, at |-> at]
           base == [out |-> <<>>, pass |-> FALSE]
<1>1. G \in Seq(GroupSet) /\ DOMAIN G = 1..N /\ N \in Nat
  BY DEF GroupsOver
<1>2. /\ at # 0 => at \in DOMAIN G /\ Emptied(G, row, at)
      /\ at = 0 => \A g \in DOMAIN G : ~ Emptied(G, row, g)
  <2>1. 0 \notin DOMAIN G
    BY <1>1
  <2> QED
    BY <2>1, Zenon
<1> HIDE DEF at
<1>3. at \in 0..N
  BY <1>1, <1>2
<1>4. \A g \in DOMAIN G : Left(G[g].rows, row) = <<>> => g = at
  <2> SUFFICES ASSUME NEW g \in DOMAIN G, Left(G[g].rows, row) = <<>>, g # at PROVE FALSE
    OBVIOUS
  <2>1. Emptied(G, row, g)
    BY DEF Emptied
  <2>2. at # 0
    BY <1>2, <2>1
  <2>3. at \in DOMAIN G \ {g}
    BY <1>2, <2>2
  <2>4. \A j \in DOMAIN G[at].rows : G[at].rows[j] # row
    <3>1. 1..n \in SUBSET Nat
      OBVIOUS
    <3> QED
      BY <2>1, <2>3, <3>1, OthersKept
  <2>5. G[at].rows \in Seq(Nat) /\ G[at].rows # <<>>
    <3>1. G[at] \in GroupSet
      BY <1>1, <2>3, RowTyped, Zenon
    <3> QED
      BY <2>3, <3>1, GroupTyped DEF GroupsOver
  <2>0. row \in Nat
    OBVIOUS
  <2>6. Left(G[at].rows, row) = G[at].rows
    BY <2>0, <2>4, <2>5, LeftFacts
  <2>7. Left(G[at].rows, row) = <<>>
    BY <1>2, <2>2 DEF Emptied
  <2> QED
    BY <2>5, <2>6, <2>7
<1>5. at # 0 => \A g \in DOMAIN G \ {at} : Trimmed(G[g], row) = G[g]
  <2> SUFFICES ASSUME at # 0, NEW g \in DOMAIN G \ {at} PROVE Trimmed(G[g], row) = G[g]
    OBVIOUS
  <2>1. \A j \in DOMAIN G[g].rows : G[g].rows[j] # row
    <3>1. 1..n \in SUBSET Nat /\ Emptied(G, row, at)
      BY <1>2
    <3> QED
      BY <3>1, OthersKept
  <2>2. G[g] \in GroupSet
    BY <1>1, RowTyped, Zenon
  <2>3. row \in Nat
    BY n \in Nat
  <2> HIDE DEF N, long, old, T, c, base
  <2> QED
    BY <2>1, <2>2, <2>3, TrimmedFacts
<1>6. /\ long(N) \in Nat /\ DOMAIN T = 1..long(N) /\ old \in [1..long(N) -> DOMAIN G]
      /\ \A g \in 1..long(N) : T[g] = Trimmed(G[old[g]], row) /\ old[g] # at
      /\ \A g, h \in 1..long(N) : old[g] = old[h] => g = h
      /\ \A g \in DOMAIN G : g # at => \E h \in 1..long(N) : old[h] = g
  <2>1. long(N) \in Nat /\ DOMAIN T = 1..long(N)
    BY <1>1, <1>3
  <2>2. \A g \in 1..long(N) : T[g] = Trimmed(G[old[g]], row)
    OBVIOUS
  <2>3. old \in [1..long(N) -> DOMAIN G] /\ \A g \in 1..long(N) : old[g] # at
    BY <1>1, <1>3
  <2>4. \A g, h \in 1..long(N) : old[g] = old[h] => g = h
    BY <1>1, <1>3
  <2>5. ASSUME NEW g \in DOMAIN G, g # at PROVE \E h \in 1..long(N) : old[h] = g
    <3> DEFINE h == IF at # 0 /\ g >= at THEN g - 1 ELSE g
    <3>1. h \in 1..long(N) /\ old[h] = g
      BY <1>1, <1>3, <2>5
    <3> QED
      BY <3>1
  <2> QED
    BY <2>1, <2>2, <2>3, <2>4, <2>5
<1>7. ASSUME NEW g \in DOMAIN G PROVE Trimmed(G[g], row) \in GroupSet /\ G[g] \in GroupSet
  <2>1. G[g] \in GroupSet
    BY <1>1, RowTyped, Zenon
  <2> QED
    BY <2>1, TrimmedFacts
<1>8. T \in Seq(GroupSet)
  <2>1. \A g \in 1..long(N) : Trimmed(G[old[g]], row) \in GroupSet
    BY <1>6, <1>7
  <2>2. T \in [1..long(N) -> GroupSet]
    <3> HIDE DEF old, long
    <3> QED
      BY <2>1
  <2>3. long(N) \in Nat
    BY <1>6
  <2> HIDE DEF long, T
  <2> QED
    BY <2>2, <2>3
<1>9. ASSUME NEW i \in 1..N
      PROVE  /\ i # at => long(i - 1) + 1 = long(i) /\ long(i) \in 1..long(N) /\ old[long(i)] = i
             /\ i = at => long(i - 1) = long(i)
  BY <1>1, <1>3
<1>10. /\ c.groups = G /\ c.first = row /\ c.last = row /\ c.target = T /\ c.at = at
       /\ base.out = <<>> /\ base.pass = FALSE
  OBVIOUS
<1>11. long(0) = 0 /\ \A i \in 0..N : long(i) \in Nat
  BY <1>1, <1>3
<1> HIDE DEF T, old, c, base, N
<1>12. VisitHolds(c, base, 0)
  <2>1. base.out \in Seq(GroupSet) /\ Len(base.out) = 0
    BY <1>10
  <2>2. ~ (at # 0 /\ 0 >= at)
    BY <1>1, <1>3
  <2>3. base.pass = (at # 0 /\ 0 = at)
    BY <1>10
  <2> QED
    BY <1>10, <2>1, <2>2, <2>3 DEF VisitHolds
<1>13. ASSUME NEW i \in 1..N, NEW acc, VisitHolds(c, acc, i - 1)
       PROVE  VisitHolds(c, VisitStep(c, acc, i), i)
  <2> DEFINE new == VisitStep(c, acc, i)
  <2>1. /\ acc.out \in Seq(GroupSet) /\ Len(acc.out) = long(i - 1)
        /\ \A j \in 1..long(i - 1) : acc.out[j] = T[j]
        /\ acc.pass = (at # 0 /\ i - 1 = at)
    BY <1>10, <1>13 DEF VisitHolds
  <2>2. i \in DOMAIN G
    BY <1>1
  <2>3. new = IF acc.pass THEN [out |-> Append(acc.out, G[i]), pass |-> FALSE]
              ELSE IF Left(G[i].rows, row) = <<>> THEN [out |-> acc.out, pass |-> TRUE]
              ELSE [out |-> Append(acc.out, Trimmed(G[i], row)), pass |-> FALSE]
    BY <1>1, <1>10, <2>2, VisitOne
  <2> HIDE DEF new
  <2>4. CASE i = at
    <3>0. i # 0 /\ i - 1 # at
      BY <1>1, <2>4
    <3>1. acc.pass = FALSE /\ Left(G[i].rows, row) = <<>>
      BY <1>2, <2>1, <2>4, <3>0 DEF Emptied
    <3>2. new.out = acc.out /\ new.pass = TRUE
      BY <2>3, <3>1
    <3>3. at # 0 /\ long(i - 1) = long(i)
      BY <1>1, <1>9, <2>2, <2>4
    <3> HIDE DEF long
    <3>4. Len(new.out) = long(i) /\ new.pass = (at # 0 /\ i = at)
      BY <2>1, <2>4, <3>2, <3>3
    <3> QED
      BY <1>10, <2>1, <3>2, <3>3, <3>4 DEF VisitHolds, new, long
  <2>5. CASE i # at
    <3>1. Left(G[i].rows, row) # <<>>
      BY <1>4, <2>2, <2>5
    <3>2. new.out = Append(acc.out, Trimmed(G[i], row)) /\ new.pass = FALSE
      <4>1. CASE acc.pass = TRUE
        <5>1. Trimmed(G[i], row) = G[i]
          BY <1>5, <2>1, <2>2, <2>5, <4>1
        <5> QED
          BY <2>3, <4>1, <5>1
      <4>2. CASE acc.pass = FALSE
        BY <2>3, <3>1, <4>2
      <4> QED
        BY <2>1, <4>1, <4>2
    <3>3. long(i - 1) + 1 = long(i) /\ T[long(i)] = Trimmed(G[i], row)
      BY <1>6, <1>9, <2>5
    <3>4. long(i - 1) \in Nat /\ Trimmed(G[i], row) \in GroupSet
      <4>1. i - 1 \in 0..N
        BY <1>1
      <4> QED
        BY <1>7, <1>11, <2>2, <4>1
    <3> HIDE DEF long
    <3>5. /\ new.out \in Seq(GroupSet) /\ Len(new.out) = long(i)
          /\ new.out[long(i)] = T[long(i)]
          /\ \A j \in 1..long(i - 1) : new.out[j] = T[j]
      BY <2>1, <3>2, <3>3, <3>4, AppendRow
    <3>6. \A j \in 1..long(i) : new.out[j] = T[j]
      BY <3>3, <3>4, <3>5
    <3>7. new.pass = (at # 0 /\ i = at)
      BY <2>5, <3>2
    <3> QED
      BY <1>10, <3>5, <3>6, <3>7 DEF VisitHolds, new, long
  <2> QED
    BY <2>4, <2>5
<1>14. VisitHolds(c, Visiting!Fold(c, base, 1..N), N)
  BY <1>1, <1>12, <1>13, RowsOrdered, Visiting!FoldKeeps
<1>15. Visiting!Fold(c, base, 1..N).out = T
  <2> DEFINE out == Visiting!Fold(c, base, 1..N).out
  <2>1. out \in Seq(GroupSet) /\ Len(out) = long(N) /\ \A j \in 1..long(N) : out[j] = T[j]
    BY <1>10, <1>14 DEF VisitHolds
  <2>2. Len(T) = long(N)
    BY <1>6, <1>8
  <2> HIDE DEF out, long
  <2>3. out = T
    BY <1>8, <2>1, <2>2
  <2> QED
    BY <2>3 DEF out
<1>16. RowsRemoved(G, row, row) = AdjustDown(T, row, 1)
  <2>1. row - row + 1 = 1
    OBVIOUS
  <2>2. RowsRemoved(c.groups, c.first, c.last)
         = AdjustDown(Visiting!Fold(c, base, DOMAIN c.groups).out, c.first, c.last - c.first + 1)
    BY RowsRemovedFolds DEF base
  <2> QED
    BY <1>1, <1>10, <1>15, <2>1, <2>2
<1>17. /\ GroupsOver(T, (1..n) \ {row})
       /\ ListsAll(G, 1..n) => ListsAll(T, (1..n) \ {row})
  <2>1. 1..n \in SUBSET Nat /\ row \in Nat
    OBVIOUS
  <2>2. old \in [DOMAIN T -> DOMAIN G] /\ \A g, h \in DOMAIN T : old[g] = old[h] => g = h
    BY <1>6
  <2>3. \A g \in DOMAIN T : T[g] = Trimmed(G[old[g]], row) /\ Left(G[old[g]].rows, row) # <<>>
    BY <1>4, <1>6
  <2>4. \A g \in DOMAIN G : Left(G[g].rows, row) # <<>> => \E h \in DOMAIN T : old[h] = g
    <3>1. at # 0 => Left(G[at].rows, row) = <<>>
      BY <1>2 DEF Emptied
    <3>2. \A g \in DOMAIN G : g # 0
      BY <1>1
    <3> QED
      BY <1>6, <3>1, <3>2
  <2> QED
    BY <1>8, <2>1, <2>2, <2>3, <2>4, TrimmedGroups
<1> QED
  BY <1>16, <1>17, AdjustDownFacts

-----------------------------------------------------------------------------
(* The groups follow the list.                                             *)

ChildCall == [on : {"childRemoved", "childChanged"}, row : Nat, what : Nat]

\* A row is listed in one place at most.
LEMMA PlacesFacts ==
  ASSUME NEW R, NEW G, GroupsOver(G, R), NEW row
  PROVE  /\ \A p, q \in Places(G, row) : p = q
         /\ \A p \in Places(G, row) : p[1] \in Nat /\ p[2] \in Nat /\ p[1] \in DOMAIN G
         /\ \A g \in DOMAIN G : \A j \in DOMAIN G[g].rows : G[g].rows[j] = row => <<g, j>> \in Places(G, row)
<1>1. ASSUME NEW g \in DOMAIN G PROVE g \in Nat /\ \A j \in DOMAIN G[g].rows : j \in Nat
  <2>1. G \in Seq(GroupSet)
    BY DEF GroupsOver
  <2>2. G[g] \in GroupSet
    BY <2>1, RowTyped, Zenon
  <2>3. G[g].rows \in Seq(Nat)
    BY <2>2, GroupTyped
  <2> QED
    BY <2>1, <2>3
<1>2. ASSUME NEW p \in Places(G, row)
      PROVE  \E g \in DOMAIN G : \E j \in DOMAIN G[g].rows : p = <<g, j>> /\ G[g].rows[j] = row
  <2>1. PICK g \in DOMAIN G : p \in {g} \X DOMAIN G[g].rows
    BY DEF Places
  <2>2. PICK j \in DOMAIN G[g].rows : p = <<g, j>>
    BY <2>1
  <2>3. G[p[1]].rows[p[2]] = row
    BY DEF Places
  <2> QED
    BY <2>2, <2>3
<1>3. ASSUME NEW p \in Places(G, row), NEW q \in Places(G, row) PROVE p = q
  <2>1. PICK g \in DOMAIN G : \E j \in DOMAIN G[g].rows : p = <<g, j>> /\ G[g].rows[j] = row
    BY <1>2
  <2>2. PICK j \in DOMAIN G[g].rows : p = <<g, j>> /\ G[g].rows[j] = row
    BY <2>1
  <2>3. PICK h \in DOMAIN G : \E k \in DOMAIN G[h].rows : q = <<h, k>> /\ G[h].rows[k] = row
    BY <1>2
  <2>4. PICK k \in DOMAIN G[h].rows : q = <<h, k>> /\ G[h].rows[k] = row
    BY <2>3
  <2>5. g = h /\ j = k
    BY <2>2, <2>4 DEF GroupsOver
  <2> QED
    BY <2>2, <2>4, <2>5
<1>4. ASSUME NEW p \in Places(G, row) PROVE p[1] \in Nat /\ p[2] \in Nat /\ p[1] \in DOMAIN G
  BY <1>1, <1>2
<1>5. ASSUME NEW g \in DOMAIN G, NEW j \in DOMAIN G[g].rows, G[g].rows[j] = row
      PROVE  <<g, j>> \in Places(G, row)
  <2>1. <<g, j>> \in {g} \X DOMAIN G[g].rows /\ <<g, j>>[1] = g /\ <<g, j>>[2] = j
    OBVIOUS
  <2> QED
    BY <1>5, <2>1 DEF Places
<1> QED
  BY <1>3, <1>4, <1>5

\* A set of at most one call as a queue.
LEMMA OneQueued ==
  ASSUME NEW S, NEW A \in SUBSET S, \A x, y \in A : x = y
  PROVE  SetToSeq(A) \in Seq(S)
<1>1. CASE A = {}
  <2>1. Cardinality(A) = 0
    BY <1>1, FS_EmptySet
  <2>2. << >> \in [1..0 -> A] /\ IsInjective(<< >>)
    BY DEF IsInjective
  <2>3. \E f \in [1..Cardinality(A) -> A] : IsInjective(f)
    BY <2>1, <2>2
  <2>4. SetToSeq(A) \in [1..0 -> A]
    BY <2>1, <2>3 DEF SetToSeq
  <2> QED
    BY <2>4
<1>2. CASE A # {}
  <2>1. PICK x \in A : A = {x}
    BY <1>2
  <2>2. Cardinality(A) = 1
    BY <2>1, FS_Singleton
  <2> DEFINE g == [i \in 1..1 |-> x]
  <2>3. g \in [1..1 -> A] /\ IsInjective(g)
    BY DEF IsInjective
  <2>4. \E f \in [1..Cardinality(A) -> A] : IsInjective(f)
    BY <2>2, <2>3
  <2>5. SetToSeq(A) \in [1..1 -> A]
    BY <2>2, <2>4 DEF SetToSeq
  <2>6. SetToSeq(A) \in [1..1 -> S]
    BY <2>5
  <2>7. \A n \in Nat : \A f \in [1..n -> S] : f \in Seq(S)
    OBVIOUS
  <2> QED
    BY <2>6, <2>7
<1> QED
  BY <1>1, <1>2

\* The calls that a group model queues for itself about one row.
LEMMA ChildCalls ==
  ASSUME NEW R, NEW G, GroupsOver(G, R), NEW row, NEW P \in SUBSET Places(G, row),
         NEW on \in {"childRemoved", "childChanged"}
  PROVE  SetToSeq({Event(on, p[1], p[2]) : p \in P}) \in Seq(ChildCall)
<1> DEFINE A == {Event(on, p[1], p[2]) : p \in P}
<1>1. \A p, q \in P : p = q
  BY PlacesFacts
<1>2. \A p \in P : p[1] \in Nat /\ p[2] \in Nat
  BY PlacesFacts
<1>3. \A x, y \in A : x = y
  BY <1>1
<1>4. A \in SUBSET ChildCall
  <2>1. \A p \in P : Event(on, p[1], p[2]) \in ChildCall
    BY <1>2 DEF Event, ChildCall
  <2> QED
    BY <2>1
<1> HIDE DEF A
<1>5. SetToSeq(A) \in Seq(ChildCall)
  BY <1>3, <1>4, OneQueued
<1> QED
  BY <1>5 DEF A

\* Row signals that take a list of n rows to one of m.
OpAt(op, n, m) ==
  \/ op.op = "insert" /\ op.row \in 1..n + 1 /\ op.id \in ElementIds /\ m = n + 1
  \/ op.op = "remove" /\ op.row \in 1..n /\ m = n - 1

OpsFit(ops, n, m) ==
  \E l \in [0..Len(ops) -> Nat] :
    /\ l[0] = n /\ l[Len(ops)] = m
    /\ \A k \in 1..Len(ops) : OpAt(ops[k], l[k - 1], l[k])

\* No entry has the empty id.
LEMMA NoIdIsNone == NoId \notin ElementIds
BY IdsDiffer DEF ElementIds

\* One row signal of the list keeps the groups in step with it.
LEMMA FollowedOne ==
  ASSUME NEW n \in Nat, NEW m \in Nat, NEW op, OpAt(op, n, m),
         NEW acc \in [groups : Seq(GroupSet), posted : Seq(ChildCall)],
         GroupsOver(acc.groups, 1..n)
  PROVE  /\ Followed(acc, op) \in [groups : Seq(GroupSet), posted : Seq(ChildCall)]
         /\ GroupsOver(Followed(acc, op).groups, 1..m)
         /\ ListsAll(acc.groups, 1..n) => ListsAll(Followed(acc, op).groups, 1..m)
<1> DEFINE G == acc.groups
           P == acc.posted
           new == Followed(acc, op)
<1>0. G \in Seq(GroupSet) /\ P \in Seq(ChildCall)
  OBVIOUS
<1>1. CASE op.op = "insert"
  <2> DEFINE H == RowsInserted(G, op.row, <<op.id>>, NoId)
  <2>1. op.row \in 1..n + 1 /\ op.id \in ElementIds /\ m = n + 1
    BY <1>1 DEF OpAt
  <2>2. <<op.id>> \in Seq(ElementIds \cup {NoId}) /\ Len(<<op.id>>) = 1
        /\ \A i \in 1..1 : <<op.id>>[i] # NoId
    BY <2>1, NoIdIsNone
  <2>3. GroupsOver(H, 1..n + 1) /\ (ListsAll(G, 1..n) => ListsAll(H, 1..n + 1))
    BY <2>1, <2>2, NoIdIsNone, RowsInsertedFacts
  <2>4. new = [acc EXCEPT !.groups = H]
    BY <1>1 DEF Followed
  <2> HIDE DEF H, G
  <2>5. H \in Seq(GroupSet)
    BY <2>3 DEF GroupsOver
  <2>6. new.groups = H /\ new.posted = P /\ new \in [groups : Seq(GroupSet), posted : Seq(ChildCall)]
    BY <1>0, <2>4, <2>5
  <2> HIDE DEF new
  <2> QED
    BY <2>1, <2>3, <2>6 DEF G, new
<1>2. CASE op.op = "remove"
  <2> DEFINE H == RowsRemoved(G, op.row, op.row)
             A == SetToSeq({Event("childRemoved", p[1], p[2]) : p \in Places(G, op.row)})
  <2>1. op.row \in 1..n /\ m = n - 1
    BY <1>2 DEF OpAt
  <2>2. GroupsOver(H, 1..n - 1) /\ (ListsAll(G, 1..n) => ListsAll(H, 1..n - 1))
    BY <2>1, RowsRemovedFacts
  <2>3. A \in Seq(ChildCall)
    <3>1. "childRemoved" \in {"childRemoved", "childChanged"} /\ Places(G, op.row) \in SUBSET Places(G, op.row)
      OBVIOUS
    <3> QED
      BY <3>1, ChildCalls
  <2>4. new = [groups |-> H, posted |-> P \o A]
    BY <1>2 DEF Followed
  <2> HIDE DEF H, A, G
  <2>5. H \in Seq(GroupSet)
    BY <2>2 DEF GroupsOver
  <2>6. new.groups = H /\ new \in [groups : Seq(GroupSet), posted : Seq(ChildCall)]
    <3>1. P \o A \in Seq(ChildCall)
      BY <1>0, <2>3
    <3> QED
      BY <2>4, <2>5, <3>1
  <2> HIDE DEF new
  <2> QED
    BY <2>1, <2>2, <2>6 DEF G, new
<1> QED
  BY <1>1, <1>2 DEF OpAt

FollowTurn(c, acc, i) == Followed(acc, c.ops[i])

FollowHolds(c, acc, i) ==
  /\ acc \in [groups : Seq(GroupSet), posted : Seq(ChildCall)]
  /\ GroupsOver(acc.groups, 1..c.long[i])
  /\ c.listed => ListsAll(acc.groups, 1..c.long[i])

Following == INSTANCE FoldFacts WITH Step <- FollowTurn, Holds <- FollowHolds

\* What Apply folds is that.
LEMMA FollowedFolds ==
  ASSUME NEW c
  PROVE  FoldLeft(Followed, [groups |-> c.groups, posted |-> <<>>], c.ops)
         = Following!Fold(c, [groups |-> c.groups, posted |-> <<>>], DOMAIN c.ops)
BY DEF FoldLeft, MapThenFoldSet, Max, FollowTurn,
       Following!Fold, Following!IsIter, Following!Max

\* The row signals of a handler keep the groups in step with the list.
LEMMA FollowedFacts ==
  ASSUME NEW n \in Nat, NEW m \in Nat, NEW G, GroupsOver(G, 1..n),
         NEW S, NEW ops \in Seq(S), OpsFit(ops, n, m),
         NEW f, f = FoldLeft(Followed, [groups |-> G, posted |-> <<>>], ops)
  PROVE  /\ GroupsOver(f.groups, 1..m) /\ f.posted \in Seq(ChildCall)
         /\ ListsAll(G, 1..n) => ListsAll(f.groups, 1..m)
<1> DEFINE N == Len(ops)
           base == [groups |-> G, posted |-> <<>>]
           listed == ListsAll(G, 1..n)
<1>1. N \in Nat /\ DOMAIN ops = 1..N
  OBVIOUS
<1>2. PICK l \in [0..N -> Nat] : /\ l[0] = n /\ l[N] = m
                                 /\ \A k \in 1..N : OpAt(ops[k], l[k - 1], l[k])
  BY DEF OpsFit
<1> DEFINE c == [groups |-> G, ops |-> ops, long |-> l, listed |-> listed]
<1>3. c.groups = G /\ c.ops = ops /\ c.long = l /\ c.listed = listed
  OBVIOUS
<1>4. base.groups = G /\ base \in [groups : Seq(GroupSet), posted : Seq(ChildCall)]
  <2>1. G \in Seq(GroupSet) /\ <<>> \in Seq(ChildCall)
    BY DEF GroupsOver
  <2> QED
    BY <2>1
<1> HIDE DEF c, base, listed, N
<1>5. FollowHolds(c, base, 0)
  BY <1>2, <1>3, <1>4 DEF FollowHolds, listed
<1>6. ASSUME NEW i \in 1..N, NEW acc, FollowHolds(c, acc, i - 1)
      PROVE  FollowHolds(c, FollowTurn(c, acc, i), i)
  <2>1. l[i - 1] \in Nat /\ l[i] \in Nat /\ OpAt(ops[i], l[i - 1], l[i])
    BY <1>1, <1>2
  <2>2. /\ acc \in [groups : Seq(GroupSet), posted : Seq(ChildCall)]
        /\ GroupsOver(acc.groups, 1..l[i - 1])
        /\ listed => ListsAll(acc.groups, 1..l[i - 1])
    BY <1>3, <1>6 DEF FollowHolds
  <2>3. FollowTurn(c, acc, i) = Followed(acc, ops[i])
    BY <1>3 DEF FollowTurn
  <2>4. /\ Followed(acc, ops[i]) \in [groups : Seq(GroupSet), posted : Seq(ChildCall)]
        /\ GroupsOver(Followed(acc, ops[i]).groups, 1..l[i])
        /\ ListsAll(acc.groups, 1..l[i - 1]) => ListsAll(Followed(acc, ops[i]).groups, 1..l[i])
    BY <2>1, <2>2, FollowedOne
  <2> QED
    BY <1>3, <2>2, <2>3, <2>4 DEF FollowHolds
<1>7. FollowHolds(c, Following!Fold(c, base, 1..N), N)
  BY <1>1, <1>5, <1>6, RowsOrdered, Following!FoldKeeps
<1>8. f = Following!Fold(c, base, 1..N)
  BY <1>1, <1>3, FollowedFolds DEF base
<1>9. f.posted \in Seq(ChildCall)
  BY <1>7, <1>8 DEF FollowHolds
<1> QED
  BY <1>2, <1>3, <1>7, <1>8, <1>9 DEF FollowHolds, listed

-----------------------------------------------------------------------------
(* The list.                                                               *)

RowSet == [id : ElementIds, model : {"active", "apps"}, row : Nat]

\* The entries of an id are in one piece.
Together(data) ==
  \A p, q \in DOMAIN data : \A k \in p..q :
    data[p].id = data[q].id => data[k].id = data[p].id

\* The windows in the rows S have an entry each, and no other has.
WindowsIn(data, S) ==
  /\ \A p \in DOMAIN data : data[p].model = "active" => data[p].row \in S
  /\ \A r \in S : \E p \in DOMAIN data : data[p].model = "active" /\ data[p].row = r
  /\ \A p, q \in DOMAIN data :
       data[p].model = "active" /\ data[q].model = "active" /\ data[p].row = data[q].row => p = q

\* Every icon is of the application in its row of list, which has no other entry.
LaunchersIn(data, list) ==
  \A p \in DOMAIN data : data[p].model = "apps" =>
    /\ data[p].row \in DOMAIN list /\ list[data[p].row] = data[p].id
    /\ \A q \in DOMAIN data : data[q].id = data[p].id => q = p

\* The parts of an entry.
LEMMA RowFields ==
  ASSUME NEW x \in RowSet
  PROVE  /\ x.id \in ElementIds /\ x.model \in {"active", "apps"} /\ x.row \in Nat
         /\ x.model = "active" <=> x.model # "apps"
BY DEF RowSet

\* An entry made of its parts.
LEMMA EntryFields ==
  ASSUME NEW id \in ElementIds, NEW model \in {"active", "apps"}, NEW row \in Nat
  PROVE  /\ Entry(id, model, row) \in RowSet
         /\ Entry(id, model, row).id = id /\ Entry(id, model, row).model = model
         /\ Entry(id, model, row).row = row
BY DEF Entry, RowSet

\* The parts of an update.
LEMMA UpdateFields ==
  ASSUME NEW data, NEW ops, NEW changed
  PROVE  /\ Update(data, ops, changed).data = data /\ Update(data, ops, changed).ops = ops
         /\ Update(data, ops, changed).changed = changed
         /\ \A d : [Update(data, ops, changed) EXCEPT !.data = d] = Update(d, ops, changed)
BY DEF Update

\* An entry put at the end is put behind the last.
LEMMA AppendInserts ==
  ASSUME NEW S, NEW s \in Seq(S), NEW x \in S
  PROVE  Append(s, x) = InsertAt(s, Len(s) + 1, x)
<1>1. Len(s) + 1 \in 1..Len(s) + 1 /\ Len(s) \in Nat
  OBVIOUS
<1>2. /\ InsertAt(s, Len(s) + 1, x) \in Seq(S)
      /\ Len(InsertAt(s, Len(s) + 1, x)) = Len(s) + 1
      /\ \A j \in 1..Len(s) + 1 : InsertAt(s, Len(s) + 1, x)[j] =
           IF j < Len(s) + 1 THEN s[j] ELSE IF j = Len(s) + 1 THEN x ELSE s[j - 1]
  <2> DEFINE Kept(T, t, i, y) ==
               /\ InsertAt(t, i, y) \in Seq(T) /\ Len(InsertAt(t, i, y)) = Len(t) + 1
               /\ \A j \in 1..Len(t) + 1 :
                    InsertAt(t, i, y)[j] =
                      IF j < i THEN t[j] ELSE IF j = i THEN y ELSE t[j - 1]
  <2>1. ASSUME NEW T, NEW t \in Seq(T), NEW i \in 1..Len(t) + 1, NEW y \in T
        PROVE  Kept(T, t, i, y)
    BY InsertAtFacts
  <2>2. Kept(S, s, Len(s) + 1, x)
    <3> HIDE DEF Kept
    <3> QED
      BY <1>1, <2>1, Zenon
  <2> QED
    BY <2>2
<1>3. /\ Append(s, x) \in Seq(S) /\ Len(Append(s, x)) = Len(s) + 1
      /\ Append(s, x)[Len(s) + 1] = x /\ \A j \in 1..Len(s) : Append(s, x)[j] = s[j]
  BY AppendRow
<1>4. \A j \in 1..Len(s) + 1 : Append(s, x)[j] = InsertAt(s, Len(s) + 1, x)[j]
  <2> TAKE j \in 1..Len(s) + 1
  <2>1. CASE j = Len(s) + 1
    BY <1>1, <1>2, <1>3, <2>1
  <2>2. CASE j # Len(s) + 1
    <3>1. j \in 1..Len(s) /\ j < Len(s) + 1
      BY <1>1, <2>2
    <3> QED
      BY <1>2, <1>3, <3>1
  <2> QED
    BY <2>1, <2>2
<1> DEFINE a == Append(s, x)
           b == InsertAt(s, Len(s) + 1, x)
<1>5. a \in Seq(S) /\ b \in Seq(S) /\ Len(a) = Len(b) /\ \A j \in 1..Len(b) : a[j] = b[j]
  BY <1>2, <1>3, <1>4
<1> HIDE DEF a, b
<1>6. a = b
  BY <1>5
<1> QED
  BY <1>6 DEF a, b

-----------------------------------------------------------------------------
(* What an edit of the list leaves of its windows and icons.               *)

\* The entries of new at A are those of data at B, each from one place.
Edit(new, data, A, B) ==
  /\ A \subseteq DOMAIN new /\ B \subseteq DOMAIN data
  /\ \E f \in [A -> B] :
       /\ \A j, k \in A : f[j] = f[k] => j = k
       /\ \A b \in B : \E k \in A : f[k] = b
       /\ \A k \in A : new[k] = data[f[k]]

\* Nothing but icons comes or goes.
LEMMA EditKeepsWindows ==
  ASSUME NEW new, NEW data, NEW A, NEW B, Edit(new, data, A, B), NEW S, WindowsIn(data, S),
         \A k \in DOMAIN new \ A : new[k].model # "active",
         \A k \in DOMAIN data \ B : data[k].model # "active"
  PROVE  WindowsIn(new, S)
<1>1. PICK f \in [A -> B] : /\ \A j, k \in A : f[j] = f[k] => j = k
                            /\ \A b \in B : \E k \in A : f[k] = b
                            /\ \A k \in A : new[k] = data[f[k]]
  BY Zenon DEF Edit
<1>2. A \subseteq DOMAIN new /\ B \subseteq DOMAIN data
  BY DEF Edit
<1>3. ASSUME NEW p \in DOMAIN new, new[p].model = "active"
      PROVE  p \in A /\ f[p] \in B /\ f[p] \in DOMAIN data /\ new[p] = data[f[p]]
  BY <1>1, <1>2, <1>3
<1>4. \A p \in DOMAIN new : new[p].model = "active" => new[p].row \in S
  BY <1>3 DEF WindowsIn
<1>5. ASSUME NEW r \in S
      PROVE  \E p \in DOMAIN new : new[p].model = "active" /\ new[p].row = r
  <2>1. PICK q \in DOMAIN data : data[q].model = "active" /\ data[q].row = r
    BY DEF WindowsIn
  <2>2. q \in B
    BY <2>1
  <2>3. PICK k \in A : f[k] = q
    BY <1>1, <2>2
  <2> QED
    BY <1>1, <1>2, <2>1, <2>3
<1>6. ASSUME NEW p \in DOMAIN new, NEW q \in DOMAIN new,
             new[p].model = "active", new[q].model = "active", new[p].row = new[q].row
      PROVE  p = q
  <2>1. f[p] = f[q]
    BY <1>3, <1>6 DEF WindowsIn
  <2> QED
    BY <1>1, <1>3, <1>6, <2>1
<1> QED
  BY <1>4, <1>5, <1>6 DEF WindowsIn

\* A window comes.
LEMMA EditAddsWindow ==
  ASSUME NEW new, NEW data, NEW A, NEW B, Edit(new, data, A, B), NEW S, WindowsIn(data, S),
         NEW p \in DOMAIN new, A = DOMAIN new \ {p}, new[p].model = "active", new[p].row \notin S,
         \A k \in DOMAIN data \ B : data[k].model # "active"
  PROVE  WindowsIn(new, S \cup {new[p].row})
<1>1. PICK f \in [A -> B] : /\ \A j, k \in A : f[j] = f[k] => j = k
                            /\ \A b \in B : \E k \in A : f[k] = b
                            /\ \A k \in A : new[k] = data[f[k]]
  BY Zenon DEF Edit
<1>2. A \subseteq DOMAIN new /\ B \subseteq DOMAIN data
  BY DEF Edit
<1>3. ASSUME NEW q \in DOMAIN new, new[q].model = "active", q # p
      PROVE  /\ q \in A /\ f[q] \in B /\ f[q] \in DOMAIN data /\ new[q] = data[f[q]]
             /\ new[q].row \in S
  <2>1. q \in A /\ f[q] \in B /\ f[q] \in DOMAIN data /\ new[q] = data[f[q]]
    BY <1>1, <1>2, <1>3
  <2> QED
    BY <1>3, <2>1 DEF WindowsIn
<1>4. \A q \in DOMAIN new : new[q].model = "active" => new[q].row \in S \cup {new[p].row}
  BY <1>3
<1>5. ASSUME NEW r \in S \cup {new[p].row}
      PROVE  \E q \in DOMAIN new : new[q].model = "active" /\ new[q].row = r
  <2>1. CASE r \in S
    <3>1. PICK q \in DOMAIN data : data[q].model = "active" /\ data[q].row = r
      BY <2>1 DEF WindowsIn
    <3>2. q \in B
      BY <3>1
    <3>3. PICK k \in A : f[k] = q
      BY <1>1, <3>2
    <3> QED
      BY <1>1, <1>2, <3>1, <3>3
  <2> QED
    BY <2>1
<1>6. ASSUME NEW q \in DOMAIN new, NEW r \in DOMAIN new,
             new[q].model = "active", new[r].model = "active", new[q].row = new[r].row
      PROVE  q = r
  <2>1. CASE q # p /\ r # p
    <3>1. f[q] = f[r]
      BY <1>3, <1>6, <2>1 DEF WindowsIn
    <3> QED
      BY <1>1, <1>3, <1>6, <2>1, <3>1
  <2>2. CASE q = p \/ r = p
    BY <1>3, <1>6, <2>2
  <2> QED
    BY <2>1, <2>2
<1> QED
  BY <1>4, <1>5, <1>6 DEF WindowsIn

\* A window goes.
LEMMA EditTakesWindow ==
  ASSUME NEW new, NEW data, NEW A, NEW B, Edit(new, data, A, B), NEW S, WindowsIn(data, S),
         NEW p \in DOMAIN data, B = DOMAIN data \ {p}, data[p].model = "active",
         \A k \in DOMAIN new \ A : new[k].model # "active"
  PROVE  WindowsIn(new, S \ {data[p].row})
<1>1. PICK f \in [A -> B] : /\ \A j, k \in A : f[j] = f[k] => j = k
                            /\ \A b \in B : \E k \in A : f[k] = b
                            /\ \A k \in A : new[k] = data[f[k]]
  BY Zenon DEF Edit
<1>2. A \subseteq DOMAIN new /\ B \subseteq DOMAIN data
  BY DEF Edit
<1>3. ASSUME NEW q \in DOMAIN new, new[q].model = "active"
      PROVE  q \in A /\ f[q] \in B /\ f[q] \in DOMAIN data /\ f[q] # p /\ new[q] = data[f[q]]
  BY <1>1, <1>2, <1>3
<1>4. ASSUME NEW q \in DOMAIN new, new[q].model = "active"
      PROVE  new[q].row \in S \ {data[p].row}
  <2>1. data[f[q]].model = "active" /\ f[q] \in DOMAIN data /\ f[q] # p
    BY <1>3, <1>4
  <2>2. data[f[q]].row \in S /\ data[f[q]].row # data[p].row
    BY <2>1 DEF WindowsIn
  <2> QED
    BY <1>3, <1>4, <2>2
<1>5. ASSUME NEW r \in S \ {data[p].row}
      PROVE  \E q \in DOMAIN new : new[q].model = "active" /\ new[q].row = r
  <2>1. PICK q \in DOMAIN data : data[q].model = "active" /\ data[q].row = r
    BY DEF WindowsIn
  <2>2. q \in B
    BY <2>1
  <2>3. PICK k \in A : f[k] = q
    BY <1>1, <2>2
  <2> QED
    BY <1>1, <1>2, <2>1, <2>3
<1>6. ASSUME NEW q \in DOMAIN new, NEW r \in DOMAIN new,
             new[q].model = "active", new[r].model = "active", new[q].row = new[r].row
      PROVE  q = r
  <2>1. f[q] = f[r]
    BY <1>3, <1>6 DEF WindowsIn
  <2> QED
    BY <1>1, <1>3, <1>6, <2>1
<1> QED
  BY <1>4, <1>5, <1>6 DEF WindowsIn

\* The icons that were there stay right, if what comes has no entry among them.
LEMMA EditKeepsLaunchers ==
  ASSUME NEW new, NEW data, NEW A, NEW B, Edit(new, data, A, B), NEW list, LaunchersIn(data, list),
         \A j, k \in DOMAIN new \ A : j = k,
         \A k \in DOMAIN new \ A :
           /\ new[k].model = "apps" =>
                /\ new[k].row \in DOMAIN list /\ list[new[k].row] = new[k].id
                /\ \A b \in B : data[b].id # new[k].id
           /\ \A b \in B : data[b].model = "apps" => data[b].id # new[k].id
  PROVE  LaunchersIn(new, list)
<1>1. PICK f \in [A -> B] : /\ \A j, k \in A : f[j] = f[k] => j = k
                            /\ \A b \in B : \E k \in A : f[k] = b
                            /\ \A k \in A : new[k] = data[f[k]]
  BY Zenon DEF Edit
<1>2. A \subseteq DOMAIN new /\ B \subseteq DOMAIN data
  BY DEF Edit
<1> SUFFICES ASSUME NEW p \in DOMAIN new, new[p].model = "apps"
             PROVE  /\ new[p].row \in DOMAIN list /\ list[new[p].row] = new[p].id
                    /\ \A q \in DOMAIN new : new[q].id = new[p].id => q = p
  BY DEF LaunchersIn
<1>3. CASE p \in A
  <2>1. f[p] \in B /\ f[p] \in DOMAIN data /\ new[p] = data[f[p]]
    BY <1>1, <1>2, <1>3
  <2>2. data[f[p]].row \in DOMAIN list /\ list[data[f[p]].row] = data[f[p]].id
        /\ \A q \in DOMAIN data : data[q].id = data[f[p]].id => q = f[p]
    BY <2>1 DEF LaunchersIn
  <2>3. ASSUME NEW q \in DOMAIN new, new[q].id = new[p].id PROVE q = p
    <3>1. CASE q \in A
      <4>1. f[q] \in DOMAIN data /\ new[q] = data[f[q]]
        BY <1>1, <1>2, <3>1
      <4>2. f[q] = f[p]
        BY <2>1, <2>2, <2>3, <4>1
      <4> QED
        BY <1>1, <1>3, <3>1, <4>2
    <3>2. CASE q \notin A
      BY <2>1, <2>3, <3>2
    <3> QED
      BY <3>1, <3>2
  <2> QED
    BY <2>1, <2>2, <2>3
<1>4. CASE p \notin A
  <2>1. \A q \in A : f[q] \in B /\ new[q] = data[f[q]]
    BY <1>1
  <2>2. ASSUME NEW q \in DOMAIN new, new[q].id = new[p].id PROVE q = p
    BY <1>4, <2>1, <2>2
  <2> QED
    BY <1>4, <2>2
<1> QED
  BY <1>3, <1>4

\* The ids it leaves.
LEMMA EditIds ==
  ASSUME NEW new, NEW data, NEW A, NEW B, Edit(new, data, A, B)
  PROVE  /\ \A b \in B : data[b].id \in IdsOf(new)
         /\ \A k \in DOMAIN new \ A : new[k].id \in IdsOf(new)
         /\ \A x \in IdsOf(new) : \/ \E b \in B : x = data[b].id
                                  \/ \E k \in DOMAIN new \ A : x = new[k].id
<1>1. PICK f \in [A -> B] : /\ \A j, k \in A : f[j] = f[k] => j = k
                            /\ \A b \in B : \E k \in A : f[k] = b
                            /\ \A k \in A : new[k] = data[f[k]]
  BY Zenon DEF Edit
<1>2. A \subseteq DOMAIN new /\ B \subseteq DOMAIN data
  BY DEF Edit
<1>3. ASSUME NEW b \in B PROVE \E k \in A : new[k] = data[b]
  <2>1. PICK k \in A : f[k] = b
    BY <1>1
  <2>2. new[k] = data[b]
    BY <1>1, <2>1
  <2> QED
    BY <2>2
<1>4. \A k \in A : \E b \in B : new[k] = data[b]
  BY <1>1, Zenon
<1> QED
  BY <1>2, <1>3, <1>4 DEF IdsOf

-----------------------------------------------------------------------------
(* Row signals.                                                            *)

OpSet == [op : {"insert", "remove"}, row : Nat, id : ElementIds \cup {NoId}]

\* The parts of a row signal.
LEMMA OpFields ==
  ASSUME NEW row \in Nat, NEW id \in ElementIds
  PROVE  /\ Inserting(row, id) \in OpSet /\ Inserting(row, id).op = "insert"
         /\ Inserting(row, id).row = row /\ Inserting(row, id).id = id
         /\ Removing(row) \in OpSet /\ Removing(row).op = "remove" /\ Removing(row).row = row
BY DEF Inserting, Removing, OpSet

\* No signals, no change of length.
LEMMA NoOps ==
  ASSUME NEW n \in Nat
  PROVE  OpsFit(<<>>, n, n)
<1> DEFINE l == [k \in 0..0 |-> n]
<1>1. l \in [0..Len(<<>>) -> Nat] /\ l[0] = n /\ l[Len(<<>>)] = n
      /\ \A k \in 1..Len(<<>>) : OpAt(<<>>[k], l[k - 1], l[k])
  OBVIOUS
<1> QED
  BY <1>1 DEF OpsFit

\* One more signal.
LEMMA MoreOps ==
  ASSUME NEW S, NEW ops \in Seq(S), NEW op \in S, NEW n \in Nat, NEW m \in Nat, NEW k \in Nat,
         OpsFit(ops, n, m), OpAt(op, m, k)
  PROVE  OpsFit(Append(ops, op), n, k)
<1>1. PICK l \in [0..Len(ops) -> Nat] :
        /\ l[0] = n /\ l[Len(ops)] = m
        /\ \A j \in 1..Len(ops) : OpAt(ops[j], l[j - 1], l[j])
  BY DEF OpsFit
<1> DEFINE N == Len(ops)
           new == Append(ops, op)
           h == [j \in 0..N + 1 |-> IF j = N + 1 THEN k ELSE l[j]]
<1>2. N \in Nat /\ Len(new) = N + 1 /\ new[N + 1] = op /\ \A j \in 1..N : new[j] = ops[j]
  BY AppendRow
<1>3. h \in [0..N + 1 -> Nat] /\ h[0] = n /\ h[N + 1] = k /\ h[N] = m
      /\ \A j \in 1..N : h[j] = l[j] /\ h[j - 1] = l[j - 1]
  BY <1>1, <1>2
<1> HIDE DEF h, new
<1>4. \A j \in 1..N + 1 : OpAt(new[j], h[j - 1], h[j])
  <2> TAKE j \in 1..N + 1
  <2>1. CASE j = N + 1
    <3>1. j - 1 = N
      BY <1>2, <2>1
    <3> QED
      BY <1>2, <1>3, <2>1, <3>1
  <2>2. CASE j # N + 1
    <3>1. j \in 1..N
      BY <1>2, <2>2
    <3> QED
      BY <1>1, <1>2, <1>3, <3>1
  <2> QED
    BY <2>1, <2>2
<1>5. OpsFit(new, n, k)
  BY <1>2, <1>3, <1>4 DEF OpsFit
<1> QED
  BY <1>5 DEF new

\* One signal alone.
LEMMA OneOp ==
  ASSUME NEW S, NEW op \in S, NEW n \in Nat, NEW k \in Nat, OpAt(op, n, k)
  PROVE  <<op>> \in Seq(S) /\ OpsFit(<<op>>, n, k)
<1>0. <<>> \in Seq(S) /\ OpsFit(<<>>, n, n)
  BY NoOps
<1>1. OpsFit(Append(<<>>, op), n, k)
  BY <1>0, MoreOps, Zenon
<1>2. Append(<<>>, op) = <<op>>
  OBVIOUS
<1> QED
  BY <1>1, <1>2

-----------------------------------------------------------------------------
(* An entry that is replaced, put in or taken out.                         *)

\* An entry replaced by another of its id.
LEMMA ReplaceFacts ==
  ASSUME NEW data \in Seq(RowSet), NEW p \in DOMAIN data, NEW x \in RowSet, x.id = data[p].id,
         NEW new, new = [data EXCEPT ![p] = x]
  PROVE  /\ new \in Seq(RowSet) /\ Len(new) = Len(data) /\ DOMAIN new = DOMAIN data
         /\ new[p] = x
         /\ Edit(new, data, DOMAIN data \ {p}, DOMAIN data \ {p})
         /\ IdsOf(new) = IdsOf(data)
         /\ Together(data) => Together(new)
<1>1. new \in Seq(RowSet) /\ DOMAIN new = DOMAIN data /\ Len(new) = Len(data)
  OBVIOUS
<1>2. new[p] = x /\ \A q \in DOMAIN data \ {p} : new[q] = data[q]
  OBVIOUS
<1>3. \A q \in DOMAIN data : new[q].id = data[q].id
  BY <1>2
<1>4. IdsOf(new) = IdsOf(data)
  BY <1>1, <1>3 DEF IdsOf
<1>5. Together(data) => Together(new)
  <2> SUFFICES ASSUME Together(data), NEW a \in DOMAIN data, NEW b \in DOMAIN data,
                      NEW k \in a..b, new[a].id = new[b].id
               PROVE  new[k].id = new[a].id
    BY <1>1 DEF Together
  <2>1. k \in DOMAIN data
    OBVIOUS
  <2> QED
    BY <1>3, <2>1 DEF Together
<1>6. Edit(new, data, DOMAIN data \ {p}, DOMAIN data \ {p})
  <2> DEFINE A == DOMAIN data \ {p}
             f == [k \in A |-> k]
  <2>1. A \subseteq DOMAIN new /\ A \subseteq DOMAIN data
    BY <1>1
  <2>2. f \in [A -> A] /\ (\A j, k \in A : f[j] = f[k] => j = k)
        /\ (\A b \in A : \E k \in A : f[k] = b) /\ \A k \in A : new[k] = data[f[k]]
    BY <1>2
  <2> HIDE DEF f, A
  <2>3. Edit(new, data, A, A)
    BY <2>1, <2>2 DEF Edit
  <2> QED
    BY <2>3 DEF A
<1> QED
  BY <1>1, <1>2, <1>4, <1>5, <1>6

\* Where an entry can go without parting others.
FitsAt(data, p, id) ==
  \/ p = Len(data) + 1 /\ id \notin IdsOf(data)
  \/ /\ p - 1 \in DOMAIN data /\ data[p - 1].id = id
     /\ \A q \in DOMAIN data : data[q].id = id => q < p

\* An entry put in behind those of its id parts no others.
LEMMA InsertFacts ==
  ASSUME NEW data \in Seq(RowSet), NEW p \in 1..Len(data) + 1, NEW x \in RowSet,
         NEW new, new = InsertAt(data, p, x)
  PROVE  /\ new \in Seq(RowSet) /\ Len(new) = Len(data) + 1 /\ p \in DOMAIN new
         /\ InsertedAt(new, data, p, x)
         /\ Edit(new, data, DOMAIN new \ {p}, DOMAIN data)
         /\ FitsAt(data, p, x.id) /\ Together(data) => Together(new)
         /\ OpAt(Inserting(p, x.id), Len(data), Len(new))
<1>b. p \in 1..Len(data) + 1 /\ x \in RowSet /\ data \in Seq(RowSet)
  OBVIOUS
<1>c. InsertAt(data, p, x) \in Seq(RowSet)
  BY <1>b, InsertRow
<1>d. Len(InsertAt(data, p, x)) = Len(data) + 1
  BY <1>b, InsertRow
<1>e. InsertedAt(InsertAt(data, p, x), data, p, x)
  BY <1>b, InsertRow
<1>f. new \in Seq(RowSet) /\ Len(new) = Len(data) + 1 /\ InsertedAt(new, data, p, x)
  BY <1>c, <1>d, <1>e
<1> DEFINE n == Len(data)
           was(j) == IF j < p THEN j ELSE j - 1
           is(j) == IF j < p THEN j ELSE j + 1
<1>1. /\ new \in Seq(RowSet) /\ Len(new) = n + 1
      /\ new[p] = x
      /\ \A j \in 1..n + 1 : j < p => new[j] = data[j]
      /\ \A j \in 1..n + 1 : j > p => new[j] = data[j - 1]
  BY <1>f DEF InsertedAt
<1>2. DOMAIN new = 1..n + 1 /\ n \in Nat /\ DOMAIN data = 1..n /\ p \in 1..n + 1 /\ p \in Nat
  BY <1>1
<1> HIDE DEF n
<1>3. /\ new[p] = x
      /\ \A j \in 1..n + 1 : j # p => was(j) \in 1..n /\ new[j] = data[was(j)]
      /\ \A j \in 1..n : is(j) \in 1..n + 1 /\ is(j) # p /\ was(is(j)) = j
  <2>2. new[p] = x
    BY <1>1, <1>2
  <2>3. ASSUME NEW j \in 1..n + 1, j # p PROVE was(j) \in 1..n /\ new[j] = data[was(j)]
    BY <1>1, <1>2, <2>3
  <2>4. \A j \in 1..n : is(j) \in 1..n + 1 /\ is(j) # p /\ was(is(j)) = j
    BY <1>2
  <2> QED
    BY <2>2, <2>3, <2>4
<1>4. Edit(new, data, DOMAIN new \ {p}, DOMAIN data)
  <2> DEFINE A == (1..n + 1) \ {p}
             f == [j \in A |-> was(j)]
  <2>1. \A j \in A : f[j] = was(j)
    OBVIOUS
  <2>2. f \in [A -> 1..n]
    BY <1>3
  <2>3. ASSUME NEW j \in A, NEW k \in A, f[j] = f[k] PROVE j = k
    BY <1>2, <2>1, <2>3
  <2>4. \A b \in 1..n : \E k \in A : f[k] = b
    <3> TAKE b \in 1..n
    <3>1. is(b) \in A /\ was(is(b)) = b
      BY <1>3
    <3> QED
      BY <2>1, <3>1
  <2>5. \A k \in A : new[k] = data[f[k]]
    BY <1>3, <2>1
  <2>6. A \subseteq DOMAIN new
    BY <1>2
  <2> HIDE DEF f, A
  <2>7. Edit(new, data, A, 1..n)
    BY <1>2, <2>2, <2>3, <2>4, <2>5, <2>6 DEF Edit
  <2> QED
    BY <1>2, <2>7 DEF A
<1>5. ASSUME FitsAt(data, p, x.id), Together(data), NEW a \in 1..n + 1, NEW b \in 1..n + 1,
             NEW k \in a..b, new[a].id = new[b].id
      PROVE  new[k].id = new[a].id
  <2>0. k \in 1..n + 1 /\ a <= k /\ k <= b
    BY <1>2
  <2>t. \A i, j \in 1..n : \A h \in i..j : data[i].id = data[j].id => data[h].id = data[i].id
    BY <1>2, <1>5 DEF Together
  <2>1. CASE a # p /\ b # p /\ k # p
    <3>1. was(a) \in 1..n /\ was(b) \in 1..n /\ was(k) \in was(a)..was(b)
      BY <1>2, <1>3, <2>0, <2>1
    <3>2. new[a] = data[was(a)] /\ new[b] = data[was(b)] /\ new[k] = data[was(k)]
      BY <1>3, <2>0, <2>1
    <3>3. data[was(a)].id = data[was(b)].id
      BY <1>5, <3>2
    <3> HIDE DEF was
    <3>4. data[was(k)].id = data[was(a)].id
      BY <2>t, <3>1, <3>3
    <3> QED
      BY <3>2, <3>4
  <2>2. CASE k = p /\ a # p /\ b # p
    <3>1. a < p /\ p < b
      BY <1>2, <2>0, <2>2
    <3>2. a \in 1..n /\ b - 1 \in 1..n /\ data[a].id = data[b - 1].id /\ p - 1 \in a..b - 1
          /\ p \in a..b - 1 /\ p \in 1..n
      BY <1>2, <1>3, <1>5, <2>0, <2>2, <3>1
    <3>3. data[p - 1].id = data[a].id /\ data[p].id = data[a].id
      BY <2>t, <3>2
    <3>4. p # n + 1 /\ ~ (p < p)
      BY <1>2, <3>2
    <3>5. p - 1 \in 1..n /\ data[p - 1].id = x.id /\ data[p].id # x.id
      BY <1>2, <1>5, <3>2, <3>4 DEF FitsAt, n
    <3> QED
      BY <3>3, <3>5
  <2>3. CASE a = p /\ b # p
    <3>1. b - 1 \in 1..n /\ data[b - 1].id = x.id /\ ~ (b - 1 < p)
      BY <1>2, <1>3, <1>5, <2>0, <2>3
    <3>2. x.id \in IdsOf(data)
      BY <1>2, <3>1 DEF IdsOf
    <3> QED
      BY <1>2, <1>5, <3>1, <3>2 DEF FitsAt
  <2>4. CASE b = p /\ a # p
    <3>1. a < p /\ a \in 1..n /\ data[a].id = x.id
      BY <1>2, <1>3, <1>5, <2>0, <2>4
    <3>2. x.id \in IdsOf(data)
      BY <1>2, <3>1 DEF IdsOf
    <3>3. p - 1 \in 1..n /\ data[p - 1].id = x.id
      BY <1>2, <1>5, <3>2 DEF FitsAt
    <3>4. CASE k = p
      BY <1>3, <1>5, <2>4, <3>4
    <3>5. CASE k # p
      <4>1. k \in a..p - 1 /\ k < p
        BY <2>0, <2>4, <3>5
      <4>2. data[k].id = data[a].id
        BY <2>t, <3>1, <3>3, <4>1
      <4> QED
        BY <1>3, <2>0, <2>4, <3>1, <4>1, <4>2
    <3> QED
      BY <3>4, <3>5
  <2>5. CASE a = p /\ b = p
    <3>1. k = a
      BY <2>0, <2>5
    <3> QED
      BY <3>1
  <2> QED
    BY <2>1, <2>2, <2>3, <2>4, <2>5
<1>6. OpAt(Inserting(p, x.id), n, n + 1)
  <2>1. x.id \in ElementIds
    BY RowFields
  <2>2. Inserting(p, x.id).op = "insert" /\ Inserting(p, x.id).row = p /\ Inserting(p, x.id).id = x.id
    BY <1>2, <2>1, OpFields
  <2> QED
    BY <1>2, <2>1, <2>2 DEF OpAt
<1>7. FitsAt(data, p, x.id) /\ Together(data) => Together(new)
  BY <1>2, <1>5 DEF Together
<1>8. Len(new) = Len(data) + 1 /\ OpAt(Inserting(p, x.id), Len(data), Len(new))
  BY <1>1, <1>6 DEF n
<1> QED
  BY <1>1, <1>2, <1>4, <1>7, <1>8, <1>f

\* An entry taken out parts no others.
LEMMA RemoveFacts ==
  ASSUME NEW data \in Seq(RowSet), NEW p \in DOMAIN data,
         NEW new, new = RemoveAt(data, p)
  PROVE  /\ new \in Seq(RowSet) /\ Len(new) = Len(data) - 1
         /\ Edit(new, data, DOMAIN new, DOMAIN data \ {p})
         /\ Together(data) => Together(new)
         /\ OpAt(Removing(p), Len(data), Len(new))
         /\ \A j \in DOMAIN new : new[j] = data[IF j < p THEN j ELSE j + 1]
<1> DEFINE n == Len(data)
           was(j) == IF j < p THEN j ELSE j + 1
           is(j) == IF j < p THEN j ELSE j - 1
<1>a. /\ RemoveAt(data, p) \in Seq(RowSet) /\ Len(RemoveAt(data, p)) = Len(data) - 1
      /\ \A j \in 1..Len(data) - 1 : RemoveAt(data, p)[j] = data[IF j < p THEN j ELSE j + 1]
  BY RemoveAtFacts
<1>1. /\ new \in Seq(RowSet) /\ Len(new) = n - 1
      /\ \A j \in 1..n - 1 : new[j] = data[was(j)]
  BY <1>a
<1>2. DOMAIN new = 1..n - 1 /\ n \in Nat /\ DOMAIN data = 1..n /\ p \in 1..n /\ p \in Nat
  BY <1>1
<1>8. Len(new) = Len(data) - 1
  BY <1>1
<1> HIDE DEF n
<1>3. /\ \A j \in 1..n - 1 : was(j) \in 1..n /\ was(j) # p
      /\ \A j \in 1..n : j # p => is(j) \in 1..n - 1 /\ was(is(j)) = j
      /\ \A j, k \in 1..n - 1 : (was(j) = was(k) => j = k) /\ (j <= k => was(j) <= was(k))
  BY <1>2
<1> HIDE DEF was, is
<1>4. Edit(new, data, DOMAIN new, DOMAIN data \ {p})
  <2> DEFINE A == 1..n - 1
             B == (1..n) \ {p}
             f == [j \in A |-> was(j)]
  <2>1. \A j \in A : f[j] = was(j)
    OBVIOUS
  <2>2. f \in [A -> B]
    BY <1>3
  <2>3. \A j, k \in A : f[j] = f[k] => j = k
    BY <1>3, <2>1
  <2>4. \A b \in B : \E k \in A : f[k] = b
    <3> TAKE b \in B
    <3>1. is(b) \in A /\ was(is(b)) = b
      BY <1>3
    <3> QED
      BY <2>1, <3>1
  <2>5. \A k \in A : new[k] = data[f[k]]
    BY <1>1, <2>1
  <2>6. A \subseteq DOMAIN new /\ B \subseteq DOMAIN data
    BY <1>2
  <2> HIDE DEF f, A, B
  <2>7. Edit(new, data, A, B)
    BY <2>2, <2>3, <2>4, <2>5, <2>6 DEF Edit
  <2> QED
    BY <1>2, <2>7 DEF A, B
<1>5. ASSUME Together(data), NEW a \in 1..n - 1, NEW b \in 1..n - 1,
             NEW k \in a..b, new[a].id = new[b].id
      PROVE  new[k].id = new[a].id
  <2>0. k \in 1..n - 1 /\ a <= k /\ k <= b
    BY <1>2
  <2>1. was(a) \in 1..n /\ was(b) \in 1..n /\ was(a) <= was(k) /\ was(k) <= was(b) /\ was(k) \in 1..n
    BY <1>3, <2>0
  <2>2. was(k) \in was(a)..was(b)
    BY <2>1
  <2>3. new[a] = data[was(a)] /\ new[b] = data[was(b)] /\ new[k] = data[was(k)]
    BY <1>1, <2>0
  <2>4. data[was(k)].id = data[was(a)].id
    BY <1>2, <1>5, <2>1, <2>2, <2>3 DEF Together
  <2> QED
    BY <2>3, <2>4
<1>6. OpAt(Removing(p), n, n - 1)
  BY <1>2 DEF OpAt, Removing
<1>7. Together(data) => Together(new)
  BY <1>2, <1>5 DEF Together
<1> QED
  BY <1>1, <1>2, <1>4, <1>6, <1>7, <1>8 DEF n, was

-----------------------------------------------------------------------------
(* Rows of the two source models that are numbered anew.                   *)

\* The entries keep their ids and the model that answers for them.
Renumbers(new, data) ==
  /\ new \in Seq(RowSet) /\ Len(new) = Len(data) /\ DOMAIN new = DOMAIN data
  /\ \A p \in DOMAIN data : new[p].id = data[p].id /\ new[p].model = data[p].model

\* Neither the ids nor their order change.
LEMMA RenumbersKeeps ==
  ASSUME NEW new, NEW data \in Seq(RowSet), Renumbers(new, data)
  PROVE  /\ IdsOf(new) = IdsOf(data)
         /\ Together(data) => Together(new)
<1>1. /\ DOMAIN new = DOMAIN data /\ DOMAIN data = 1..Len(data) /\ Len(data) \in Nat
      /\ \A p \in DOMAIN data : new[p].id = data[p].id
  BY DEF Renumbers
<1>2. IdsOf(new) = IdsOf(data)
  BY <1>1 DEF IdsOf
<1>3. Together(data) => Together(new)
  <2> SUFFICES ASSUME Together(data), NEW a \in DOMAIN data, NEW b \in DOMAIN data,
                      NEW k \in a..b, new[a].id = new[b].id
               PROVE  new[k].id = new[a].id
    BY <1>1 DEF Together
  <2>1. k \in DOMAIN data
    BY <1>1
  <2>2. data[a].id = data[b].id
    BY <1>1
  <2>3. data[k].id = data[a].id
    BY <2>2 DEF Together
  <2> QED
    BY <1>1, <2>1, <2>3
<1> QED
  BY <1>2, <1>3

\* The icons keep their rows.
LEMMA RenumbersIcons ==
  ASSUME NEW new, NEW data \in Seq(RowSet), Renumbers(new, data), NEW list, LaunchersIn(data, list),
         \A p \in DOMAIN data : data[p].model = "apps" => new[p].row = data[p].row
  PROVE  LaunchersIn(new, list)
<1> SUFFICES ASSUME NEW p \in DOMAIN new, new[p].model = "apps"
             PROVE  /\ new[p].row \in DOMAIN list /\ list[new[p].row] = new[p].id
                    /\ \A q \in DOMAIN new : new[q].id = new[p].id => q = p
  BY DEF LaunchersIn
<1>1. p \in DOMAIN data /\ data[p].model = "apps" /\ new[p].row = data[p].row /\ new[p].id = data[p].id
  BY DEF Renumbers
<1>2. \A q \in DOMAIN new : q \in DOMAIN data /\ new[q].id = data[q].id
  BY DEF Renumbers
<1> QED
  BY <1>1, <1>2 DEF LaunchersIn

\* The windows keep their rows.
LEMMA RenumbersWindows ==
  ASSUME NEW new, NEW data \in Seq(RowSet), Renumbers(new, data), NEW S, WindowsIn(data, S),
         \A p \in DOMAIN data : data[p].model = "active" => new[p].row = data[p].row
  PROVE  WindowsIn(new, S)
<1>1. DOMAIN new = DOMAIN data /\ \A p \in DOMAIN data : new[p].model = data[p].model
  BY DEF Renumbers
<1> QED
  BY <1>1 DEF WindowsIn

\* Only the row changes.
LEMMA RowReplaced ==
  ASSUME NEW x \in RowSet, NEW row \in Nat
  PROVE  /\ [x EXCEPT !.row = row] \in RowSet
         /\ [x EXCEPT !.row = row].id = x.id /\ [x EXCEPT !.row = row].model = x.model
         /\ [x EXCEPT !.row = row].row = row
<1>1. \A y \in [id : ElementIds, model : {"active", "apps"}, row : Nat] : \A v \in Nat :
        [y EXCEPT !.row = v] = [id |-> y.id, model |-> y.model, row |-> v]
  OBVIOUS
<1>2. [x EXCEPT !.row = row] = [id |-> x.id, model |-> x.model, row |-> row]
  BY <1>1, Zenon DEF RowSet
<1>3. x.id \in ElementIds /\ x.model \in {"active", "apps"}
  BY RowFields
<1> QED
  BY <1>2, <1>3 DEF RowSet

\* The rows of a model behind one that is gone.
LEMMA LoweredFacts ==
  ASSUME NEW data \in Seq(RowSet), NEW model, NEW i \in Nat \ {0},
         NEW new, new = Lowered(data, model, i)
  PROVE  /\ Renumbers(new, data)
         /\ \A p \in DOMAIN data : new[p].row =
              IF data[p].model = model /\ data[p].row >= i THEN data[p].row - 1 ELSE data[p].row
<1>1. DOMAIN new = DOMAIN data /\ DOMAIN data = 1..Len(data) /\ Len(data) \in Nat
  BY DEF Lowered
<1>2. ASSUME NEW p \in DOMAIN data
      PROVE  /\ new[p] \in RowSet /\ new[p].id = data[p].id /\ new[p].model = data[p].model
             /\ new[p].row = IF data[p].model = model /\ data[p].row >= i THEN data[p].row - 1 ELSE data[p].row
  <2>1. data[p] \in RowSet
    BY RowTyped, Zenon
  <2>2. data[p].row \in Nat
    BY <2>1, RowFields
  <2>3. new[p] = IF data[p].model = model /\ data[p].row >= i
                 THEN [data[p] EXCEPT !.row = data[p].row - 1] ELSE data[p]
    BY <1>2 DEF Lowered
  <2>4. CASE data[p].model = model /\ data[p].row >= i
    <3>1. data[p].row - 1 \in Nat
      BY <2>2, <2>4
    <3> DEFINE r == data[p].row - 1
    <3>2. new[p] = [data[p] EXCEPT !.row = r]
      BY <2>3, <2>4
    <3>3. r \in Nat
      BY <3>1
    <3> HIDE DEF r
    <3>4. new[p] \in RowSet /\ new[p].id = data[p].id /\ new[p].model = data[p].model /\ new[p].row = r
      BY <2>1, <3>2, <3>3, RowReplaced
    <3> QED
      BY <2>4, <3>4 DEF r
  <2>5. CASE ~ (data[p].model = model /\ data[p].row >= i)
    BY <2>1, <2>3, <2>5
  <2> QED
    BY <2>4, <2>5
<1>3. new \in Seq(RowSet) /\ Len(new) = Len(data)
  <2>1. new = [p \in 1..Len(data) |-> new[p]]
    BY <1>1 DEF Lowered
  <2>2. \A p \in 1..Len(data) : new[p] \in RowSet
    BY <1>1, <1>2
  <2>3. new \in [1..Len(data) -> RowSet]
    BY <2>1, <2>2
  <2> QED
    BY <1>1, <2>3
<1> QED
  BY <1>1, <1>2, <1>3 DEF Renumbers

\* A window that is gone leaves the rows of the others one less.
LEMMA LoweredWindows ==
  ASSUME NEW data \in Seq(RowSet), NEW n \in Nat, NEW i \in 1..n, WindowsIn(data, (1..n) \ {i}),
         NEW new, new = Lowered(data, "active", i)
  PROVE  WindowsIn(new, 1..n - 1)
<1>1. i \in Nat \ {0}
  OBVIOUS
<1>2. /\ Renumbers(new, data)
      /\ \A p \in DOMAIN data : new[p].row =
              IF data[p].model = "active" /\ data[p].row >= i THEN data[p].row - 1 ELSE data[p].row
  BY <1>1, LoweredFacts
<1>3. DOMAIN new = DOMAIN data /\ \A p \in DOMAIN data : new[p].model = data[p].model
  BY <1>2 DEF Renumbers
<1>4. ASSUME NEW p \in DOMAIN data, data[p].model = "active"
      PROVE  /\ data[p].row \in (1..n) \ {i}
             /\ new[p].row = IF data[p].row >= i THEN data[p].row - 1 ELSE data[p].row
  BY <1>2, <1>4 DEF WindowsIn
<1>5. \A p \in DOMAIN new : new[p].model = "active" => new[p].row \in 1..n - 1
  <2> TAKE p \in DOMAIN new
  <2> HAVE new[p].model = "active"
  <2>1. p \in DOMAIN data /\ data[p].model = "active"
    BY <1>3
  <2> QED
    BY <1>4, <2>1
<1>6. ASSUME NEW r \in 1..n - 1
      PROVE  \E p \in DOMAIN new : new[p].model = "active" /\ new[p].row = r
  <2> DEFINE s == IF r < i THEN r ELSE r + 1
  <2>1. s \in (1..n) \ {i} /\ r = IF s >= i THEN s - 1 ELSE s
    OBVIOUS
  <2> HIDE DEF s
  <2>2. PICK p \in DOMAIN data : data[p].model = "active" /\ data[p].row = s
    BY <2>1 DEF WindowsIn
  <2>3. new[p].row = r
    BY <1>4, <2>1, <2>2
  <2> QED
    BY <1>3, <2>2, <2>3
<1>7. ASSUME NEW p \in DOMAIN new, NEW q \in DOMAIN new,
             new[p].model = "active", new[q].model = "active", new[p].row = new[q].row
      PROVE  p = q
  <2>1. p \in DOMAIN data /\ data[p].model = "active" /\ q \in DOMAIN data /\ data[q].model = "active"
    BY <1>3, <1>7
  <2>2. /\ data[p].row \in (1..n) \ {i} /\ data[q].row \in (1..n) \ {i}
        /\ new[p].row = IF data[p].row >= i THEN data[p].row - 1 ELSE data[p].row
        /\ new[q].row = IF data[q].row >= i THEN data[q].row - 1 ELSE data[q].row
    BY <1>4, <2>1
  <2>3. data[p].row = data[q].row
    BY <1>7, <2>2
  <2> QED
    BY <2>1, <2>3 DEF WindowsIn
<1> QED
  BY <1>5, <1>6, <1>7 DEF WindowsIn

\* Icons follow their applications when one of them is gone.
LEMMA LoweredLaunchers ==
  ASSUME NEW data \in Seq(RowSet), NEW list \in Seq(App), NEW i \in DOMAIN list, LaunchersIn(data, list),
         \A p \in DOMAIN data : data[p].model = "apps" => data[p].row # i,
         NEW new, new = Lowered(data, "apps", i)
  PROVE  LaunchersIn(new, RemoveAt(list, i))
<1>1. i \in Nat \ {0} /\ Len(list) \in Nat /\ DOMAIN list = 1..Len(list)
  OBVIOUS
<1>2. /\ Renumbers(new, data)
      /\ \A p \in DOMAIN data : new[p].row =
              IF data[p].model = "apps" /\ data[p].row >= i THEN data[p].row - 1 ELSE data[p].row
  BY <1>1, LoweredFacts
<1>3. DOMAIN new = DOMAIN data
      /\ \A p \in DOMAIN data : new[p].model = data[p].model /\ new[p].id = data[p].id
  BY <1>2 DEF Renumbers
<1>4. /\ RemoveAt(list, i) \in Seq(App) /\ Len(RemoveAt(list, i)) = Len(list) - 1
      /\ \A j \in 1..Len(list) - 1 : RemoveAt(list, i)[j] = list[IF j < i THEN j ELSE j + 1]
  BY RemoveAtFacts
<1> SUFFICES ASSUME NEW p \in DOMAIN new, new[p].model = "apps"
             PROVE  /\ new[p].row \in DOMAIN RemoveAt(list, i)
                    /\ RemoveAt(list, i)[new[p].row] = new[p].id
                    /\ \A q \in DOMAIN new : new[q].id = new[p].id => q = p
  BY DEF LaunchersIn
<1>5. p \in DOMAIN data /\ data[p].model = "apps"
  BY <1>3
<1>6. /\ data[p].row \in 1..Len(list) /\ list[data[p].row] = data[p].id /\ data[p].row # i
      /\ \A q \in DOMAIN data : data[q].id = data[p].id => q = p
  BY <1>1, <1>5 DEF LaunchersIn
<1>7. new[p].row = IF data[p].row >= i THEN data[p].row - 1 ELSE data[p].row
  BY <1>2, <1>5
<1>8. new[p].row \in 1..Len(list) - 1 /\ (IF new[p].row < i THEN new[p].row ELSE new[p].row + 1) = data[p].row
  BY <1>1, <1>6, <1>7
<1>9. DOMAIN RemoveAt(list, i) = 1..Len(list) - 1
  BY <1>1, <1>4
<1> QED
  BY <1>3, <1>4, <1>5, <1>6, <1>8, <1>9

-----------------------------------------------------------------------------
(* Lookups.                                                                *)

\* A lookup by model and row finds such an entry, if there is one.
LEMMA FindFacts ==
  ASSUME NEW data \in Seq(RowSet), NEW model, NEW row
  PROVE  /\ Find(data, model, row) \in 0..Len(data)
         /\ Find(data, model, row) # 0 =>
              /\ Find(data, model, row) \in DOMAIN data
              /\ data[Find(data, model, row)].model = model /\ data[Find(data, model, row)].row = row
         /\ Find(data, model, row) = 0 =>
              \A p \in DOMAIN data : ~ (data[p].model = model /\ data[p].row = row)
<1> DEFINE I == {i \in 1..Len(data) : data[i].model = model /\ data[i].row = row}
<1>1. Find(data, model, row) = IF I # {} THEN Min(I) ELSE 0
  BY DEF Find, SelectInSeq
<1>2. CASE I = {}
  BY <1>1, <1>2
<1>3. CASE I # {}
  <2>1. I \in SUBSET Nat
    OBVIOUS
  <2>2. Min(I) \in I
    <3> HIDE DEF I
    <3> QED
      BY <1>3, <2>1, MinOfRows
  <2>3. Min(I) \in 1..Len(data) /\ data[Min(I)].model = model /\ data[Min(I)].row = row /\ Min(I) # 0
    BY <2>2
  <2> HIDE DEF I
  <2> QED
    BY <1>1, <1>3, <2>3
<1> QED
  BY <1>2, <1>3

\* The icon of an id.
IconOf(data, id) == SelectInSeq(data, LAMBDA e : e.id = id /\ e.model = "apps")

\* A lookup finds the icon of an id, if there is one.
LEMMA IconFacts ==
  ASSUME NEW data \in Seq(RowSet), NEW id, NEW icon, icon = IconOf(data, id)
  PROVE  /\ icon \in 0..Len(data)
         /\ icon # 0 => icon \in DOMAIN data /\ data[icon].id = id /\ data[icon].model = "apps"
         /\ icon = 0 => \A p \in DOMAIN data : ~ (data[p].id = id /\ data[p].model = "apps")
<1> DEFINE I == {i \in 1..Len(data) : data[i].id = id /\ data[i].model = "apps"}
<1>1. icon = IF I # {} THEN Min(I) ELSE 0
  BY DEF IconOf, SelectInSeq
<1>2. CASE I = {}
  BY <1>1, <1>2
<1>3. CASE I # {}
  <2>1. I \in SUBSET Nat
    OBVIOUS
  <2>2. Min(I) \in I
    <3> HIDE DEF I
    <3> QED
      BY <1>3, <2>1, MinOfRows
  <2>3. Min(I) \in 1..Len(data) /\ data[Min(I)].id = id /\ data[Min(I)].model = "apps" /\ Min(I) # 0
    BY <2>2
  <2> HIDE DEF I
  <2> QED
    BY <1>1, <1>3, <2>3
<1> QED
  BY <1>2, <1>3

-----------------------------------------------------------------------------
(* A window comes.                                                         *)

UpdateFits(u, n) ==
  /\ u = Update(u.data, u.ops, u.changed)
  /\ u.data \in Seq(RowSet) /\ u.ops \in Seq(OpSet) /\ OpsFit(u.ops, n, Len(u.data))

\* An update is made of its parts.
LEMMA UpdateIs ==
  ASSUME NEW data, NEW ops, NEW changed, NEW u, u = Update(data, ops, changed)
  PROVE  u = Update(u.data, u.ops, u.changed) /\ u.data = data /\ u.ops = ops /\ u.changed = changed
BY UpdateFields

\* No signal of rows, or one.
LEMMA QuietFits ==
  ASSUME NEW data \in Seq(RowSet), NEW changed, NEW n, n = Len(data),
         NEW u, u = Update(data, <<>>, changed)
  PROVE  UpdateFits(u, n)
<1>1. n \in Nat /\ <<>> \in Seq(OpSet)
  OBVIOUS
<1>2. u = Update(u.data, u.ops, u.changed) /\ u.data = data /\ u.ops = <<>>
  BY UpdateIs
<1>3. OpsFit(u.ops, n, Len(u.data))
  BY <1>1, <1>2, NoOps
<1> QED
  BY <1>1, <1>2, <1>3 DEF UpdateFits

\* One signal that fits.
LEMMA OneFits ==
  ASSUME NEW data \in Seq(RowSet), NEW changed, NEW n \in Nat, NEW op \in OpSet,
         OpAt(op, n, Len(data)), NEW u, u = Update(data, <<op>>, changed)
  PROVE  UpdateFits(u, n)
<1>1. Len(data) \in Nat
  OBVIOUS
<1>2. u = Update(u.data, u.ops, u.changed) /\ u.data = data /\ u.ops = <<op>>
  BY UpdateIs
<1>3. <<op>> \in Seq(OpSet) /\ OpsFit(<<op>>, n, Len(data))
  BY <1>1, OneOp
<1> QED
  BY <1>2, <1>3 DEF UpdateFits

\* What the row of a window that comes does to the list.
PutsIn(new, data, i) ==
  /\ Together(data) => Together(new)
  /\ \A S : WindowsIn(data, S) /\ i \notin S => WindowsIn(new, S \cup {i})
  /\ \A list : LaunchersIn(data, list) => LaunchersIn(new, list)
  /\ IdsOf(data) \subseteq IdsOf(new)

\* A window put in where it parts no others.
LEMMA PutInserts ==
  ASSUME NEW data \in Seq(RowSet), NEW id \in ElementIds, NEW i \in Nat \ {0},
         NEW p \in 1..Len(data) + 1, FitsAt(data, p, id),
         \A list : LaunchersIn(data, list) =>
           \A q \in DOMAIN data : data[q].id = id => data[q].model = "active",
         NEW u, u = Update(InsertAt(data, p, Entry(id, "active", i)), <<Inserting(p, id)>>, {})
  PROVE  UpdateFits(u, Len(data)) /\ PutsIn(u.data, data, i)
<1> DEFINE x == Entry(id, "active", i)
           new == InsertAt(data, p, x)
<1>1. x \in RowSet /\ x.id = id /\ x.model = "active" /\ x.row = i
  BY EntryFields
<1>2. p \in Nat /\ Inserting(p, id) \in OpSet /\ Len(data) \in Nat
  BY OpFields
<1>3. u.data = new /\ u = Update(new, <<Inserting(p, id)>>, {})
  BY UpdateIs
<1> HIDE DEF x
<1>4. /\ new \in Seq(RowSet) /\ p \in DOMAIN new /\ new[p] = x
      /\ Edit(new, data, DOMAIN new \ {p}, DOMAIN data)
      /\ FitsAt(data, p, x.id) /\ Together(data) => Together(new)
      /\ OpAt(Inserting(p, x.id), Len(data), Len(new))
  <2>1. new = InsertAt(data, p, x)
    OBVIOUS
  <2> HIDE DEF new
  <2>2. data \in Seq(RowSet) /\ p \in 1..Len(data) + 1 /\ x \in RowSet
    BY <1>1
  <2>3. new \in Seq(RowSet) /\ p \in DOMAIN new
    BY <2>1, <2>2, InsertFacts
  <2>4. new[p] = x
    <3>1. InsertedAt(new, data, p, x)
      BY <2>1, <2>2, InsertFacts
    <3> QED
      BY <3>1 DEF InsertedAt
  <2>5. Edit(new, data, DOMAIN new \ {p}, DOMAIN data)
    BY <2>1, <2>2, InsertFacts
  <2>6. FitsAt(data, p, x.id) /\ Together(data) => Together(new)
    BY <2>1, <2>2, InsertFacts
  <2>7. OpAt(Inserting(p, x.id), Len(data), Len(new))
    BY <2>1, <2>2, InsertFacts
  <2> QED
    BY <2>3, <2>4, <2>5, <2>6, <2>7
<1> HIDE DEF new
<1>5. UpdateFits(u, Len(data))
  <2>1. OpAt(Inserting(p, id), Len(data), Len(new))
    BY <1>1, <1>4
  <2> QED
    BY <1>2, <1>3, <1>4, <2>1, OneFits
<1>6. ASSUME NEW S, WindowsIn(data, S), i \notin S
      PROVE  WindowsIn(new, S \cup {i})
  <2>1. new[p].model = "active" /\ new[p].row = i
    BY <1>1, <1>4
  <2>2. \A k \in DOMAIN data \ DOMAIN data : data[k].model # "active"
    OBVIOUS
  <2> DEFINE A == DOMAIN new \ {p}
             B == DOMAIN data
  <2>3. Edit(new, data, A, B) /\ A = DOMAIN new \ {p} /\ \A k \in DOMAIN data \ B : data[k].model # "active"
    BY <1>4, <2>2
  <2> HIDE DEF A, B
  <2>4. new[p].row \notin S
    BY <1>6, <2>1
  <2>5. WindowsIn(new, S \cup {new[p].row})
    BY <1>4, <1>6, <2>1, <2>3, <2>4, EditAddsWindow
  <2> QED
    BY <2>1, <2>5
<1>7. ASSUME NEW list, LaunchersIn(data, list)
      PROVE  LaunchersIn(new, list)
  <2> DEFINE A == DOMAIN new \ {p}
             B == DOMAIN data
  <2>1. \A j, k \in DOMAIN new \ A : j = k
    OBVIOUS
  <2>2. ASSUME NEW k \in DOMAIN new \ A
        PROVE  /\ new[k].model = "apps" =>
                    /\ new[k].row \in DOMAIN list /\ list[new[k].row] = new[k].id
                    /\ \A b \in B : data[b].id # new[k].id
               /\ \A b \in B : data[b].model = "apps" => data[b].id # new[k].id
    <3>1. k = p /\ new[k] = x
      BY <1>4, <2>2
    <3>2. \A b \in B : data[b].id = id => data[b].model = "active"
      BY <1>7
    <3> QED
      BY <1>1, <3>1, <3>2
  <2>3. Edit(new, data, A, B)
    BY <1>4
  <2> HIDE DEF A, B
  <2> QED
    BY <1>7, <2>1, <2>2, <2>3, EditKeepsLaunchers
<1>8. IdsOf(data) \subseteq IdsOf(new)
  <2> DEFINE A == DOMAIN new \ {p}
             B == DOMAIN data
  <2>1. Edit(new, data, A, B)
    BY <1>4
  <2> HIDE DEF A
  <2>2. \A b \in B : data[b].id \in IdsOf(new)
    BY <2>1, EditIds
  <2> QED
    BY <2>2 DEF IdsOf
<1>9. Together(data) => Together(new)
  BY <1>1, <1>4
<1> QED
  BY <1>3, <1>5, <1>6, <1>7, <1>8, <1>9 DEF PutsIn

\* The windows of an application are put together, a docked icon gives way.
LEMMA PutFacts ==
  ASSUME NEW data \in Seq(RowSet), NEW id \in ElementIds, NEW i \in Nat \ {0},
         NEW u, u = PutWindow(data, id, i)
  PROVE  UpdateFits(u, Len(data)) /\ PutsIn(u.data, data, i)
<1> DEFINE mine == {p \in DOMAIN data : data[p].id = id}
           new == Entry(id, "active", i)
<1>0. new \in RowSet /\ new.id = id /\ new.model = "active" /\ new.row = i
  BY EntryFields
<1>a. id # NoId /\ Len(data) \in Nat /\ DOMAIN data = 1..Len(data)
  BY NoIdIsNone
<1>1. CASE mine = {}
  <2>1. u = Update(Append(data, new), <<Inserting(Len(data) + 1, id)>>, {})
    BY <1>a, <1>1 DEF PutWindow
  <2>2. Append(data, new) = InsertAt(data, Len(data) + 1, new)
    BY <1>0, AppendInserts
  <2>3. \A q \in DOMAIN data : data[q].id # id
    BY <1>1
  <2>4. FitsAt(data, Len(data) + 1, id)
    BY <2>3 DEF FitsAt, IdsOf
  <2>5. Len(data) + 1 \in 1..Len(data) + 1
    BY <1>a
  <2>6. u = Update(InsertAt(data, Len(data) + 1, Entry(id, "active", i)), <<Inserting(Len(data) + 1, id)>>, {})
    BY <2>1, <2>2
  <2> HIDE DEF mine, new
  <2> DEFINE p == Len(data) + 1
  <2>7. FitsAt(data, p, id) /\ p \in 1..Len(data) + 1
        /\ u = Update(InsertAt(data, p, Entry(id, "active", i)), <<Inserting(p, id)>>, {})
    BY <2>4, <2>5, <2>6
  <2>8. \A list : LaunchersIn(data, list) =>
           \A q \in DOMAIN data : data[q].id = id => data[q].model = "active"
    BY <2>3
  <2> HIDE DEF p
  <2> QED
    BY <2>7, <2>8, PutInserts
<1>2. CASE mine # {}
  <2>0. mine \in SUBSET Nat /\ mine \in SUBSET (1..Len(data))
    BY <1>a
  <2> DEFINE first == Min(mine)
             last == Max(mine)
  <2>1. first \in mine /\ (\A k \in mine : first <= k)
    <3> HIDE DEF mine
    <3> QED
      BY <1>2, <2>0, MinOfRows
  <2>2. last \in mine /\ (\A k \in mine : k <= last)
    <3> HIDE DEF mine
    <3> QED
      BY <1>a, <1>2, <2>0, MaxOfRows
  <2>3. CASE data[first].model = "apps"
    <3>1. u = Update([data EXCEPT ![first] = new], <<>>, {first})
      BY <1>a, <1>2, <2>3 DEF PutWindow
    <3> HIDE DEF first, last
    <3>2. first \in DOMAIN data /\ data[first].id = id
      BY <2>1
    <3> DEFINE list1 == [data EXCEPT ![first] = new]
               A == DOMAIN data \ {first}
    <3> HIDE DEF mine, new
    <3>3. /\ list1 \in Seq(RowSet) /\ Len(list1) = Len(data) /\ DOMAIN list1 = DOMAIN data
          /\ list1[first] = new /\ Edit(list1, data, A, A)
          /\ IdsOf(list1) = IdsOf(data)
          /\ Together(data) => Together(list1)
      <4>1. new \in RowSet /\ new.id = data[first].id
        BY <1>0, <3>2
      <4> QED
        BY <3>2, <4>1, ReplaceFacts
    <3>4. UpdateFits(u, Len(data)) /\ u.data = list1
      <4> DEFINE changed == {first}
      <4>1. u = Update(list1, <<>>, changed) /\ Len(data) = Len(list1)
        BY <3>1, <3>3
      <4> HIDE DEF list1, changed
      <4> QED
        BY <3>3, <4>1, QuietFits, UpdateIs
    <3>5. A = DOMAIN list1 \ {first} /\ first \in DOMAIN list1
      BY <3>2, <3>3
    <3> HIDE DEF list1, A
    <3>6. ASSUME NEW S, WindowsIn(data, S), i \notin S
          PROVE  WindowsIn(list1, S \cup {i})
      <4>1. list1[first].model = "active" /\ list1[first].row = i
        BY <1>0, <3>3
      <4>2. \A k \in DOMAIN data \ A : data[k].model # "active"
        BY <2>3 DEF A
      <4>3. list1[first].row \notin S
        BY <3>6, <4>1
      <4>4. WindowsIn(list1, S \cup {list1[first].row})
        BY <3>3, <3>5, <3>6, <4>1, <4>2, <4>3, EditAddsWindow
      <4> QED
        BY <4>1, <4>4
    <3>7. ASSUME NEW list, LaunchersIn(data, list)
          PROVE  LaunchersIn(list1, list)
      <4>1. \A j, k \in DOMAIN list1 \ A : j = k
        BY <3>5
      <4>2. \A b \in A : data[b].id # id
        BY <2>3, <3>2, <3>7 DEF A, LaunchersIn
      <4>3. \A k \in DOMAIN list1 \ A : list1[k].model = "active" /\ list1[k].id = id
        BY <1>0, <3>3, <3>5
      <4>4. ASSUME NEW k \in DOMAIN list1 \ A
            PROVE  /\ list1[k].model = "apps" =>
                        /\ list1[k].row \in DOMAIN list /\ list[list1[k].row] = list1[k].id
                        /\ \A b \in A : data[b].id # list1[k].id
                   /\ \A b \in A : data[b].model = "apps" => data[b].id # list1[k].id
        BY <4>2, <4>3
      <4> QED
        BY <3>3, <3>7, <4>1, <4>4, EditKeepsLaunchers
    <3>8. PutsIn(list1, data, i)
      <4>1. IdsOf(data) \subseteq IdsOf(list1) /\ (Together(data) => Together(list1))
        BY <3>3
      <4> QED
        BY <3>6, <3>7, <4>1 DEF PutsIn
    <3> QED
      BY <3>4, <3>8
  <2>4. CASE data[first].model # "apps"
    <3>1. u = Update(InsertAt(data, last + 1, new), <<Inserting(last + 1, id)>>, {})
      BY <1>a, <1>2, <2>4 DEF PutWindow
    <3> HIDE DEF first, last
    <3>2. first \in DOMAIN data /\ data[first].id = id /\ data[first].model = "active"
      BY <2>1, <2>4, RowTyped, RowFields
    <3>3. last \in 1..Len(data) /\ data[last].id = id
      BY <1>a, <2>2
    <3> DEFINE p == last + 1
    <3>4. p \in 1..Len(data) + 1 /\ p - 1 = last
      BY <1>a, <3>3
    <3>5. \A q \in DOMAIN data : data[q].id = id => q < p
      BY <1>a, <2>2, <3>3
    <3>6. FitsAt(data, p, id)
      BY <1>a, <3>3, <3>4, <3>5 DEF FitsAt
    <3>7. \A list : LaunchersIn(data, list) =>
            \A q \in DOMAIN data : data[q].id = id => data[q].model = "active"
      <4> SUFFICES ASSUME NEW list, LaunchersIn(data, list),
                          NEW q \in DOMAIN data, data[q].id = id, data[q].model # "active"
                   PROVE  FALSE
        OBVIOUS
      <4>1. data[q].model = "apps"
        BY RowTyped, RowFields
      <4> QED
        BY <3>2, <4>1 DEF LaunchersIn
    <3>8. u = Update(InsertAt(data, p, Entry(id, "active", i)), <<Inserting(p, id)>>, {})
      BY <3>1
    <3> HIDE DEF p
    <3> QED
      BY <3>4, <3>6, <3>7, <3>8, PutInserts
  <2> QED
    BY <2>3, <2>4
<1> QED
  BY <1>1, <1>2

\* The rows of the windows behind a new one.
Raised(data, i) ==
  [p \in DOMAIN data |-> IF data[p].model = "active" /\ data[p].row > i
                         THEN [data[p] EXCEPT !.row = @ + 1] ELSE data[p]]

\* Only the rows of windows behind i change.
LEMMA RaisedFacts ==
  ASSUME NEW data \in Seq(RowSet), NEW i \in Nat, NEW new, new = Raised(data, i)
  PROVE  /\ Renumbers(new, data)
         /\ \A p \in DOMAIN data : ~ (data[p].model = "active" /\ data[p].row > i) => new[p].row = data[p].row
<1>1. DOMAIN new = DOMAIN data /\ DOMAIN data = 1..Len(data) /\ Len(data) \in Nat
  BY DEF Raised
<1>2. ASSUME NEW p \in DOMAIN data
      PROVE  /\ new[p] \in RowSet /\ new[p].id = data[p].id /\ new[p].model = data[p].model
             /\ ~ (data[p].model = "active" /\ data[p].row > i) => new[p].row = data[p].row
  <2>1. data[p] \in RowSet
    BY RowTyped, Zenon
  <2>2. data[p].row \in Nat
    BY <2>1, RowFields
  <2>3. new[p] = IF data[p].model = "active" /\ data[p].row > i
                 THEN [data[p] EXCEPT !.row = data[p].row + 1] ELSE data[p]
    BY <1>2 DEF Raised
  <2>4. CASE data[p].model = "active" /\ data[p].row > i
    <3> DEFINE r == data[p].row + 1
    <3>2. new[p] = [data[p] EXCEPT !.row = r]
      BY <2>3, <2>4
    <3>3. r \in Nat
      BY <2>2
    <3> HIDE DEF r
    <3>4. new[p] \in RowSet /\ new[p].id = data[p].id /\ new[p].model = data[p].model
      BY <2>1, <3>2, <3>3, RowReplaced
    <3> QED
      BY <2>4, <3>4
  <2>5. CASE ~ (data[p].model = "active" /\ data[p].row > i)
    BY <2>1, <2>3, <2>5
  <2> QED
    BY <2>4, <2>5
<1>3. new \in Seq(RowSet) /\ Len(new) = Len(data)
  <2>1. new = [p \in 1..Len(data) |-> new[p]]
    BY <1>1 DEF Raised
  <2>2. \A p \in 1..Len(data) : new[p] \in RowSet
    BY <1>1, <1>2
  <2>3. new \in [1..Len(data) -> RowSet]
    BY <2>1, <2>2
  <2> QED
    BY <1>1, <2>3
<1> QED
  BY <1>1, <1>2, <1>3 DEF Renumbers

\* An update with its list numbered anew.
LEMMA RenumberedFits ==
  ASSUME NEW u, NEW n, UpdateFits(u, n), NEW data, Renumbers(data, u.data),
         NEW v, v = [u EXCEPT !.data = data]
  PROVE  UpdateFits(v, n) /\ v.data = data
<1>1. v = Update(data, u.ops, u.changed)
  <2>1. u = Update(u.data, u.ops, u.changed)
    BY DEF UpdateFits
  <2>2. [Update(u.data, u.ops, u.changed) EXCEPT !.data = data] = Update(data, u.ops, u.changed)
    BY UpdateFields
  <2> QED
    BY <2>1, <2>2
<1>2. v = Update(v.data, v.ops, v.changed) /\ v.data = data /\ v.ops = u.ops
  BY <1>1, UpdateIs
<1>3. data \in Seq(RowSet) /\ Len(data) = Len(u.data)
  BY DEF Renumbers
<1> QED
  BY <1>2, <1>3 DEF UpdateFits

\* rowsInserted of the combined model, whatever the row is by now.
LEMMA ActiveInsertedFacts ==
  ASSUME m_data \in Seq(RowSet), NEW i \in Nat \ {0}, DesktopId(i) \in ElementIds \cup {NoId},
         NEW u, u = ActiveInserted(i)
  PROVE  /\ UpdateFits(u, Len(m_data))
         /\ Together(m_data) => Together(u.data)
         /\ DesktopId(i) # NoId =>
              /\ \A n \in Nat : i = n + 1 /\ WindowsIn(m_data, 1..n) => WindowsIn(u.data, 1..n + 1)
              /\ \A list : LaunchersIn(m_data, list) => LaunchersIn(u.data, list)
              /\ IdsOf(m_data) \subseteq IdsOf(u.data)
<1> DEFINE id == DesktopId(i)
           put == PutWindow(m_data, id, i)
           new == Raised(put.data, i)
<1>1. u = [put EXCEPT !.data = new]
  BY DEF ActiveInserted, Raised
<1> HIDE DEF id
<1>2. CASE id = NoId
  <2>1. put = Update(m_data, <<>>, {})
    BY <1>2 DEF PutWindow
  <2>2. UpdateFits(put, Len(m_data)) /\ put.data = m_data
    <3> DEFINE none == {}
    <3>1. put = Update(m_data, <<>>, none)
      BY <2>1
    <3> HIDE DEF none, put
    <3> QED
      BY <3>1, QuietFits, UpdateIs
  <2> HIDE DEF put
  <2>3. Renumbers(new, put.data)
    BY <2>2, RaisedFacts
  <2> HIDE DEF new
  <2>4. UpdateFits(u, Len(m_data)) /\ u.data = new
    BY <1>1, <2>2, <2>3, RenumberedFits
  <2>5. Together(m_data) => Together(new)
    BY <2>2, <2>3, RenumbersKeeps
  <2> QED
    BY <1>2, <2>4, <2>5 DEF id
<1>3. CASE id # NoId
  <2>1. id \in ElementIds
    BY <1>3 DEF id
  <2>2. UpdateFits(put, Len(m_data)) /\ PutsIn(put.data, m_data, i)
    <3>1. \A d \in Seq(RowSet) : \A v : v = PutWindow(d, id, i) =>
             UpdateFits(v, Len(d)) /\ PutsIn(v.data, d, i)
      BY <2>1, PutFacts
    <3> QED
      BY <3>1
  <2> HIDE DEF put
  <2>0. put.data \in Seq(RowSet)
    BY <2>2 DEF UpdateFits
  <2>3. Renumbers(new, put.data)
        /\ \A p \in DOMAIN put.data : ~ (put.data[p].model = "active" /\ put.data[p].row > i) =>
             new[p].row = put.data[p].row
    BY <2>0, RaisedFacts
  <2> HIDE DEF new
  <2>4. UpdateFits(u, Len(m_data)) /\ u.data = new
    BY <1>1, <2>2, <2>3, RenumberedFits
  <2>5. IdsOf(new) = IdsOf(put.data) /\ (Together(put.data) => Together(new))
    BY <2>0, <2>3, RenumbersKeeps
  <2>6. ASSUME NEW list, LaunchersIn(m_data, list)
        PROVE  LaunchersIn(new, list)
    <3>1. LaunchersIn(put.data, list)
      BY <2>2, <2>6 DEF PutsIn
    <3>2. \A p \in DOMAIN put.data : put.data[p].model = "apps" => new[p].row = put.data[p].row
      BY <2>3
    <3> QED
      BY <2>0, <2>3, <3>1, <3>2, RenumbersIcons
  <2>7. ASSUME NEW n \in Nat, i = n + 1, WindowsIn(m_data, 1..n)
        PROVE  WindowsIn(new, 1..n + 1)
    <3>1. i \notin 1..n /\ (1..n) \cup {i} = 1..n + 1
      BY <2>7
    <3>2. WindowsIn(put.data, 1..n + 1)
      <4>1. WindowsIn(put.data, (1..n) \cup {i})
        BY <2>2, <2>7, <3>1 DEF PutsIn
      <4> QED
        BY <3>1, <4>1
    <3>3. \A p \in DOMAIN put.data : put.data[p].model = "active" => put.data[p].row \in 1..n + 1
      BY <3>2 DEF WindowsIn
    <3>4. \A p \in DOMAIN put.data : put.data[p].model = "active" => new[p].row = put.data[p].row
      BY <2>3, <2>7, <3>3
    <3> QED
      BY <2>0, <2>3, <3>2, <3>4, RenumbersWindows
  <2>8. Together(m_data) => Together(new)
    BY <2>2, <2>5 DEF PutsIn
  <2>9. IdsOf(m_data) \subseteq IdsOf(new)
    BY <2>2, <2>5 DEF PutsIn
  <2> QED
    BY <2>4, <2>6, <2>7, <2>8, <2>9
<1> QED
  BY <1>2, <1>3

-----------------------------------------------------------------------------
(* An entry goes.                                                          *)

\* Every entry that stays was there.
LEMMA EditPicks ==
  ASSUME NEW new, NEW data, NEW A, NEW B, Edit(new, data, A, B), NEW k \in A
  PROVE  \E b \in B : new[k] = data[b]
<1>1. PICK f \in [A -> B] : \A j \in A : new[j] = data[f[j]]
  BY Zenon DEF Edit
<1> QED
  BY <1>1

\* What it means that the entry at p is taken out.
TakesOut(new, data, p) ==
  /\ Together(data) => Together(new)
  /\ data[p].model = "active" =>
       \A S : WindowsIn(data, S) => WindowsIn(new, S \ {data[p].row})
  /\ data[p].model = "apps" => \A S : WindowsIn(data, S) => WindowsIn(new, S)
  /\ \A list : LaunchersIn(data, list) => LaunchersIn(new, list)
  /\ \A q \in DOMAIN data \ {p} : data[q].id \in IdsOf(new)
  /\ \A k \in DOMAIN new : \E q \in DOMAIN data \ {p} : new[k] = data[q]

\* An entry taken out leaves the others.
LEMMA TakesOutFacts ==
  ASSUME NEW data \in Seq(RowSet), NEW p \in DOMAIN data, NEW new, new = RemoveAt(data, p)
  PROVE  new \in Seq(RowSet) /\ OpAt(Removing(p), Len(data), Len(new)) /\ TakesOut(new, data, p)
<1> DEFINE A == DOMAIN new
           B == DOMAIN data \ {p}
<1>1. new \in Seq(RowSet) /\ OpAt(Removing(p), Len(data), Len(new))
  BY RemoveFacts
<1>2. Edit(new, data, A, B)
  BY RemoveFacts
<1>3. Together(data) => Together(new)
  BY RemoveFacts
<1>4. DOMAIN new \ A = {} /\ B = DOMAIN data \ {p} /\ DOMAIN data \ B = {p} /\ A = DOMAIN new
  OBVIOUS
<1> HIDE DEF A, B
<1>5. ASSUME data[p].model = "active", NEW S, WindowsIn(data, S)
      PROVE  WindowsIn(new, S \ {data[p].row})
  <2>1. \A k \in DOMAIN new \ A : new[k].model # "active"
    BY <1>4
  <2> QED
    BY <1>2, <1>4, <1>5, <2>1, EditTakesWindow
<1>6. ASSUME data[p].model = "apps", NEW S, WindowsIn(data, S)
      PROVE  WindowsIn(new, S)
  <2>1. \A k \in DOMAIN new \ A : new[k].model # "active"
    BY <1>4
  <2>2. \A k \in DOMAIN data \ B : data[k].model # "active"
    BY <1>4, <1>6
  <2> QED
    BY <1>2, <1>6, <2>1, <2>2, EditKeepsWindows
<1>7. ASSUME NEW list, LaunchersIn(data, list)
      PROVE  LaunchersIn(new, list)
  <2>1. \A j, k \in DOMAIN new \ A : j = k
    BY <1>4
  <2>2. ASSUME NEW k \in DOMAIN new \ A PROVE FALSE
    BY <1>4, <2>2
  <2>3. \A k \in DOMAIN new \ A :
           /\ new[k].model = "apps" =>
                /\ new[k].row \in DOMAIN list /\ list[new[k].row] = new[k].id
                /\ \A b \in B : data[b].id # new[k].id
           /\ \A b \in B : data[b].model = "apps" => data[b].id # new[k].id
    BY <2>2
  <2> QED
    BY <1>2, <1>7, <2>1, <2>3, EditKeepsLaunchers
<1>8. \A q \in B : data[q].id \in IdsOf(new)
  BY <1>2, EditIds
<1>9. \A k \in A : \E q \in B : new[k] = data[q]
  BY <1>2, EditPicks
<1> QED
  BY <1>1, <1>3, <1>4, <1>5, <1>6, <1>7, <1>8, <1>9 DEF TakesOut

\* ... and is reported.
LEMMA TakenFits ==
  ASSUME NEW data \in Seq(RowSet), NEW p \in DOMAIN data,
         NEW u, u = Update(RemoveAt(data, p), <<Removing(p)>>, {})
  PROVE  UpdateFits(u, Len(data)) /\ TakesOut(u.data, data, p)
<1> DEFINE new == RemoveAt(data, p)
           none == {}
<1>1. new \in Seq(RowSet) /\ OpAt(Removing(p), Len(data), Len(new)) /\ TakesOut(new, data, p)
  BY TakesOutFacts
<1>2. u = Update(new, <<Removing(p)>>, none) /\ p \in Nat /\ Len(data) \in Nat
  OBVIOUS
<1>3. Removing(p) \in OpSet
  BY <1>2 DEF Removing, OpSet
<1> HIDE DEF new, none
<1>4. UpdateFits(u, Len(data))
  BY <1>1, <1>2, <1>3, OneFits
<1>5. u.data = new
  BY <1>2, UpdateIs
<1> QED
  BY <1>1, <1>4, <1>5

\* The row of a window that is gone, before the rows behind it move up.
LEMMA TakeFacts ==
  ASSUME m_data \in Seq(RowSet), apps \in Seq(App), NEW i \in Nat \ {0},
         NEW u, u = TakeWindow(i)
  PROVE  /\ UpdateFits(u, Len(m_data))
         /\ Together(m_data) => Together(u.data)
         /\ \A S : WindowsIn(m_data, S) /\ i \in S => WindowsIn(u.data, S \ {i})
         /\ \A S : WindowsIn(m_data, S) /\ i \in S /\ LaunchersIn(m_data, apps) => LaunchersIn(u.data, apps)
         /\ \A x \in IdsOf(m_data) : x \in ToSet(m_dockedElements) /\ x \in ToSet(apps) => x \in IdsOf(u.data)
<1> DEFINE pos == Find(m_data, "active", i)
           id == m_data[pos].id
           others == \E e \in ToSet(m_data) : e.id = id /\ e.model = "active" /\ e.row # i
           appRow == CombineFunc(id, apps)
<1>1. /\ pos # 0 => pos \in DOMAIN m_data /\ m_data[pos].model = "active" /\ m_data[pos].row = i
      /\ pos = 0 => \A p \in DOMAIN m_data : ~ (m_data[p].model = "active" /\ m_data[p].row = i)
  BY FindFacts
<1>2. u = IF pos = 0 THEN Update(m_data, <<>>, {})
          ELSE IF ~others /\ id \in ToSet(m_dockedElements) /\ appRow # 0
          THEN Update([m_data EXCEPT ![pos] = Entry(id, "apps", appRow)], <<>>, {pos})
          ELSE Update(RemoveAt(m_data, pos), <<Removing(pos)>>, {})
  BY Zenon DEF TakeWindow
<1> HIDE DEF pos
<1>3. CASE pos = 0
  <2> DEFINE none == {}
  <2>1. u = Update(m_data, <<>>, none)
    BY <1>2, <1>3
  <2> HIDE DEF none
  <2>2. UpdateFits(u, Len(m_data)) /\ u.data = m_data
    BY <2>1, QuietFits, UpdateIs
  <2>3. \A S : ~ (WindowsIn(m_data, S) /\ i \in S)
    BY <1>1, <1>3 DEF WindowsIn
  <2> QED
    BY <2>2, <2>3
<1>4. CASE pos # 0 /\ ~ (~others /\ id \in ToSet(m_dockedElements) /\ appRow # 0)
  <2>1. u = Update(RemoveAt(m_data, pos), <<Removing(pos)>>, {})
    BY <1>2, <1>4
  <2>2. pos \in DOMAIN m_data /\ m_data[pos].model = "active" /\ m_data[pos].row = i
    BY <1>1, <1>4
  <2>3. UpdateFits(u, Len(m_data)) /\ TakesOut(u.data, m_data, pos)
    BY <2>1, <2>2, TakenFits
  <2>4. ASSUME NEW x \in IdsOf(m_data), x \in ToSet(m_dockedElements), x \in ToSet(apps)
        PROVE  x \in IdsOf(u.data)
    <3>1. PICK q \in DOMAIN m_data : m_data[q].id = x
      BY DEF IdsOf
    <3>2. CASE q # pos
      BY <2>3, <3>1, <3>2 DEF TakesOut
    <3>3. CASE q = pos
      <4>1. id = x
        BY <3>1, <3>3
      <4>2. appRow # 0
        BY <2>4, <4>1, CombineFuncFinds
      <4>3. others
        BY <1>4, <2>4, <4>1, <4>2
      <4>4. PICK r \in DOMAIN m_data : m_data[r].id = id /\ m_data[r].row # i
        BY <4>3 DEF ToSet
      <4>5. r # pos
        BY <2>2, <4>4
      <4> QED
        BY <2>3, <4>1, <4>4, <4>5 DEF TakesOut
    <3> QED
      BY <3>2, <3>3
  <2> QED
    BY <2>2, <2>3, <2>4 DEF TakesOut
<1>5. CASE pos # 0 /\ ~others /\ id \in ToSet(m_dockedElements) /\ appRow # 0
  <2> DEFINE x == Entry(id, "apps", appRow)
             new == [m_data EXCEPT ![pos] = x]
             changed == {pos}
             A == DOMAIN m_data \ {pos}
  <2>1. u = Update(new, <<>>, changed)
    BY <1>2, <1>5
  <2>2. pos \in DOMAIN m_data /\ m_data[pos].model = "active" /\ m_data[pos].row = i
    BY <1>1, <1>5
  <2>3. id \in ElementIds
    BY <2>2, RowTyped, RowFields
  <2>4. appRow \in 1..Len(apps) /\ apps[appRow] = id /\ appRow \in Nat /\ appRow \in DOMAIN apps
    <3>1. appRow \in 0..Len(apps) /\ (appRow # 0 => apps[appRow] = id)
      BY CombineFuncFinds
    <3> QED
      BY <1>5, <3>1
  <2> HIDE DEF appRow
  <2>5. x \in RowSet /\ x.id = m_data[pos].id /\ x.model = "apps" /\ x.row = appRow
    BY <2>3, <2>4, EntryFields
  <2>o. \A q \in DOMAIN m_data \ {pos} : m_data[q].id = id => m_data[q].model # "active" \/ m_data[q].row = i
    <3>1. \A q \in DOMAIN m_data : m_data[q] \in ToSet(m_data)
      BY DEF ToSet
    <3> QED
      BY <1>5, <3>1
  <2>i. id = m_data[pos].id
    OBVIOUS
  <2> HIDE DEF x, id, others
  <2>6. /\ new \in Seq(RowSet) /\ Len(new) = Len(m_data) /\ DOMAIN new = DOMAIN m_data
        /\ new[pos] = x /\ Edit(new, m_data, A, A)
        /\ IdsOf(new) = IdsOf(m_data)
        /\ Together(m_data) => Together(new)
    <3>1. \A d \in Seq(RowSet) : pos \in DOMAIN d /\ x.id = d[pos].id =>
            LET v == [d EXCEPT ![pos] = x]
            IN /\ v \in Seq(RowSet) /\ Len(v) = Len(d) /\ DOMAIN v = DOMAIN d
               /\ v[pos] = x /\ Edit(v, d, DOMAIN d \ {pos}, DOMAIN d \ {pos})
               /\ IdsOf(v) = IdsOf(d)
               /\ Together(d) => Together(v)
      BY <2>5, ReplaceFacts
    <3> QED
      BY <2>2, <2>5, <3>1
  <2> HIDE DEF new, changed
  <2>7. UpdateFits(u, Len(m_data)) /\ u.data = new
    BY <2>1, <2>6, QuietFits, UpdateIs
  <2>8. A = DOMAIN m_data \ {pos} /\ A = DOMAIN new \ {pos}
    BY <2>6
  <2> HIDE DEF A
  <2>9. ASSUME NEW S, WindowsIn(m_data, S), i \in S
        PROVE  WindowsIn(new, S \ {i})
    <3>1. \A k \in DOMAIN new \ A : new[k].model # "active"
      BY <2>5, <2>6, <2>8
    <3>2. WindowsIn(new, S \ {m_data[pos].row})
      BY <2>2, <2>6, <2>8, <2>9, <3>1, EditTakesWindow
    <3> QED
      BY <2>2, <3>2
  <2>10. ASSUME NEW S, WindowsIn(m_data, S), i \in S, LaunchersIn(m_data, apps)
         PROVE  LaunchersIn(new, apps)
    <3>1. ASSUME NEW b \in A PROVE m_data[b].id # id
      <4> SUFFICES ASSUME m_data[b].id = id PROVE FALSE
        OBVIOUS
      <4>1. b \in DOMAIN m_data /\ b # pos
        BY <2>8
      <4>2. m_data[b].model # "active" \/ m_data[b].row = i
        BY <2>o, <4>1
      <4>3. CASE m_data[b].model = "active"
        BY <2>2, <2>10, <4>1, <4>2, <4>3 DEF WindowsIn
      <4>4. CASE m_data[b].model # "active"
        <5>1. m_data[b].model = "apps"
          BY <4>1, <4>4, RowTyped, RowFields
        <5> QED
          BY <2>2, <2>10, <2>i, <4>1, <5>1 DEF LaunchersIn
      <4> QED
        BY <4>3, <4>4
    <3>2. \A j, k \in DOMAIN new \ A : j = k
      BY <2>8
    <3>3. ASSUME NEW k \in DOMAIN new \ A
          PROVE  /\ new[k].model = "apps" =>
                      /\ new[k].row \in DOMAIN apps /\ apps[new[k].row] = new[k].id
                      /\ \A b \in A : m_data[b].id # new[k].id
                 /\ \A b \in A : m_data[b].model = "apps" => m_data[b].id # new[k].id
      <4>1. k = pos /\ new[k] = x
        BY <2>6, <2>8, <3>3
      <4>2. new[k].id = id /\ new[k].row = appRow
        BY <2>5, <2>i, <4>1
      <4> QED
        BY <2>4, <3>1, <4>2
    <3> DEFINE B == A
    <3>4. Edit(new, m_data, A, B) /\ LaunchersIn(m_data, apps)
      BY <2>6, <2>10
    <3>5. \A k \in DOMAIN new \ A :
            /\ new[k].model = "apps" =>
                      /\ new[k].row \in DOMAIN apps /\ apps[new[k].row] = new[k].id
                      /\ \A b \in B : m_data[b].id # new[k].id
            /\ \A b \in B : m_data[b].model = "apps" => m_data[b].id # new[k].id
      BY <3>3
    <3> HIDE DEF B
    <3> QED
      BY <3>2, <3>4, <3>5, EditKeepsLaunchers
  <2> QED
    BY <2>6, <2>7, <2>9, <2>10
<1> QED
  BY <1>3, <1>4, <1>5

\* rowsRemoved of the combined model, whatever the row was.
LEMMA ActiveRemovedFacts ==
  ASSUME m_data \in Seq(RowSet), apps \in Seq(App), NEW i \in Nat \ {0},
         NEW u, u = ActiveRemoved(i)
  PROVE  /\ UpdateFits(u, Len(m_data))
         /\ Together(m_data) => Together(u.data)
         /\ \A n \in Nat : i \in 1..n /\ WindowsIn(m_data, 1..n) =>
              /\ WindowsIn(u.data, 1..n - 1)
              /\ LaunchersIn(m_data, apps) => LaunchersIn(u.data, apps)
         /\ \A x \in IdsOf(m_data) : x \in ToSet(m_dockedElements) /\ x \in ToSet(apps) => x \in IdsOf(u.data)
<1> DEFINE take == TakeWindow(i)
           new == Lowered(take.data, "active", i)
<1>1. u = [take EXCEPT !.data = new]
  BY DEF ActiveRemoved
<1>2. take = TakeWindow(i)
  OBVIOUS
<1> HIDE DEF take
<1>3. /\ UpdateFits(take, Len(m_data))
      /\ Together(m_data) => Together(take.data)
      /\ \A S : WindowsIn(m_data, S) /\ i \in S => WindowsIn(take.data, S \ {i})
      /\ \A S : WindowsIn(m_data, S) /\ i \in S /\ LaunchersIn(m_data, apps) => LaunchersIn(take.data, apps)
      /\ \A x \in IdsOf(m_data) : x \in ToSet(m_dockedElements) /\ x \in ToSet(apps) => x \in IdsOf(take.data)
  BY <1>2, TakeFacts
<1>4. take.data \in Seq(RowSet)
  BY <1>3 DEF UpdateFits
<1>5. Renumbers(new, take.data)
      /\ \A p \in DOMAIN take.data : new[p].row =
              IF take.data[p].model = "active" /\ take.data[p].row >= i THEN take.data[p].row - 1 ELSE take.data[p].row
  BY <1>4, LoweredFacts
<1>6. ASSUME NEW n \in Nat, i \in 1..n, WindowsIn(m_data, 1..n)
      PROVE  WindowsIn(new, 1..n - 1) /\ (LaunchersIn(m_data, apps) => LaunchersIn(new, apps))
  <2>1. WindowsIn(take.data, (1..n) \ {i})
    BY <1>3, <1>6
  <2>2. WindowsIn(new, 1..n - 1)
    BY <1>4, <1>6, <2>1, LoweredWindows
  <2>3. ASSUME LaunchersIn(m_data, apps) PROVE LaunchersIn(new, apps)
    <3>1. LaunchersIn(take.data, apps)
      BY <1>3, <1>6, <2>3
    <3>2. \A p \in DOMAIN take.data : take.data[p].model = "apps" => new[p].row = take.data[p].row
      BY <1>5
    <3> HIDE DEF new
    <3> QED
      BY <1>4, <1>5, <3>1, <3>2, RenumbersIcons
  <2> QED
    BY <2>2, <2>3
<1> HIDE DEF new
<1>7. UpdateFits(u, Len(m_data)) /\ u.data = new
  BY <1>1, <1>3, <1>5, RenumberedFits
<1>8. IdsOf(new) = IdsOf(take.data) /\ (Together(take.data) => Together(new))
  BY <1>4, <1>5, RenumbersKeeps
<1> QED
  BY <1>3, <1>6, <1>7, <1>8

\* rowsRemoved of the applications.
LEMMA AppsRemovedFacts ==
  ASSUME m_data \in Seq(RowSet), NEW i \in Nat \ {0}, NEW u, u = AppsRemoved(i)
  PROVE  /\ UpdateFits(u, Len(m_data))
         /\ Together(m_data) => Together(u.data)
         /\ \A S : WindowsIn(m_data, S) => WindowsIn(u.data, S)
         /\ \A list \in Seq(App) : i \in DOMAIN list /\ LaunchersIn(m_data, list) =>
              /\ LaunchersIn(u.data, RemoveAt(list, i))
              /\ \A x \in IdsOf(m_data) : x # list[i] => x \in IdsOf(u.data)
<1> DEFINE pos == Find(m_data, "apps", i)
           take == IF pos = 0 THEN Update(m_data, <<>>, {})
                   ELSE Update(RemoveAt(m_data, pos), <<Removing(pos)>>, {})
           new == Lowered(take.data, "apps", i)
<1>1. u = [take EXCEPT !.data = new]
  BY DEF AppsRemoved
<1>2. /\ pos # 0 => pos \in DOMAIN m_data /\ m_data[pos].model = "apps" /\ m_data[pos].row = i
      /\ pos = 0 => \A p \in DOMAIN m_data : ~ (m_data[p].model = "apps" /\ m_data[p].row = i)
  BY FindFacts
<1> HIDE DEF pos
<1>3. /\ UpdateFits(take, Len(m_data))
      /\ Together(m_data) => Together(take.data)
      /\ \A S : WindowsIn(m_data, S) => WindowsIn(take.data, S)
      /\ \A list \in Seq(App) : LaunchersIn(m_data, list) => LaunchersIn(take.data, list)
      /\ \A list \in Seq(App) : LaunchersIn(m_data, list) /\ i \in DOMAIN list =>
           /\ \A x \in IdsOf(m_data) : x # list[i] => x \in IdsOf(take.data)
           /\ \A p \in DOMAIN take.data : take.data[p].model = "apps" => take.data[p].row # i
  <2>1. CASE pos = 0
    <3> DEFINE none == {}
    <3>1. take = Update(m_data, <<>>, none)
      BY <2>1
    <3> HIDE DEF none, take
    <3>2. UpdateFits(take, Len(m_data)) /\ take.data = m_data
      BY <3>1, QuietFits, UpdateIs
    <3> QED
      BY <1>2, <2>1, <3>2
  <2>2. CASE pos # 0
    <3>1. take = Update(RemoveAt(m_data, pos), <<Removing(pos)>>, {})
      BY <2>2
    <3> HIDE DEF take
    <3>2. pos \in DOMAIN m_data /\ m_data[pos].model = "apps" /\ m_data[pos].row = i
      BY <1>2, <2>2
    <3>3. UpdateFits(take, Len(m_data)) /\ TakesOut(take.data, m_data, pos)
      BY <3>1, <3>2, TakenFits
    <3>4. ASSUME NEW list \in Seq(App), LaunchersIn(m_data, list), i \in DOMAIN list
          PROVE  /\ \A x \in IdsOf(m_data) : x # list[i] => x \in IdsOf(take.data)
                 /\ \A p \in DOMAIN take.data : take.data[p].model = "apps" => take.data[p].row # i
      <4>1. list[i] = m_data[pos].id /\ \A q \in DOMAIN m_data : m_data[q].id = list[i] => q = pos
        BY <3>2, <3>4 DEF LaunchersIn
      <4>2. \A x \in IdsOf(m_data) : x # list[i] => \E q \in DOMAIN m_data \ {pos} : m_data[q].id = x
        BY <4>1 DEF IdsOf
      <4>3. ASSUME NEW p \in DOMAIN take.data, take.data[p].model = "apps", take.data[p].row = i
            PROVE  FALSE
        <5>1. PICK q \in DOMAIN m_data \ {pos} : take.data[p] = m_data[q]
          BY <3>3 DEF TakesOut
        <5>2. m_data[q].model = "apps" /\ m_data[q].row = i
          BY <4>3, <5>1
        <5>3. list[i] = m_data[q].id
          BY <3>4, <5>2 DEF LaunchersIn
        <5> QED
          BY <4>1, <5>1, <5>3
      <4> QED
        BY <3>3, <4>2, <4>3 DEF TakesOut
    <3> QED
      BY <3>2, <3>3, <3>4 DEF TakesOut
  <2> QED
    BY <2>1, <2>2
<1> HIDE DEF take
<1>4. take.data \in Seq(RowSet)
  BY <1>3 DEF UpdateFits
<1>5. Renumbers(new, take.data)
      /\ \A p \in DOMAIN take.data : new[p].row =
              IF take.data[p].model = "apps" /\ take.data[p].row >= i THEN take.data[p].row - 1 ELSE take.data[p].row
  BY <1>4, LoweredFacts
<1>6. ASSUME NEW list \in Seq(App), i \in DOMAIN list, LaunchersIn(m_data, list)
      PROVE  LaunchersIn(new, RemoveAt(list, i))
  <2>1. LaunchersIn(take.data, list)
        /\ \A p \in DOMAIN take.data : take.data[p].model = "apps" => take.data[p].row # i
    BY <1>3, <1>6
  <2> QED
    BY <1>4, <1>6, <2>1, LoweredLaunchers
<1> HIDE DEF new
<1>7. UpdateFits(u, Len(m_data)) /\ u.data = new
  BY <1>1, <1>3, <1>5, RenumberedFits
<1>8. IdsOf(new) = IdsOf(take.data) /\ (Together(take.data) => Together(new))
  BY <1>4, <1>5, RenumbersKeeps
<1>9. ASSUME NEW S, WindowsIn(m_data, S) PROVE WindowsIn(new, S)
  <2>1. WindowsIn(take.data, S)
    BY <1>3, <1>9
  <2>2. \A p \in DOMAIN take.data : take.data[p].model = "active" => new[p].row = take.data[p].row
    BY <1>5
  <2> QED
    BY <1>4, <1>5, <2>1, <2>2, RenumbersWindows
<1> QED
  BY <1>3, <1>6, <1>7, <1>8, <1>9

-----------------------------------------------------------------------------
(* The docked elements are loaded.                                         *)

\* Of the elements, those that are installed.
LEMMA InstalledFacts ==
  ASSUME apps \in Seq(App), NEW S, NEW elements \in Seq(S)
  PROVE  /\ Installed(elements) \in Seq(App)
         /\ \A x : x \in ToSet(Installed(elements)) <=> x \in ToSet(elements) /\ x \in ToSet(apps)
<1> DEFINE I == {i \in DOMAIN elements : CombineFunc(elements[i], apps) # 0}
           new == RowsAt(elements, I)
           N == Cardinality(I)
<1>1. \A id : CombineFunc(id, apps) # 0 <=> id \in ToSet(apps)
  <2> TAKE id
  <2>1. CombineFunc(id, apps) \in 0..Len(apps)
        /\ (CombineFunc(id, apps) # 0 => apps[CombineFunc(id, apps)] = id)
        /\ (id \in ToSet(apps) => CombineFunc(id, apps) # 0)
    BY CombineFuncFinds
  <2>2. ASSUME CombineFunc(id, apps) # 0 PROVE id \in ToSet(apps)
    <3>1. CombineFunc(id, apps) \in DOMAIN apps /\ apps[CombineFunc(id, apps)] = id
      BY <2>1, <2>2
    <3> QED
      BY <3>1 DEF ToSet
  <2> QED
    BY <2>1, <2>2
<1>2. ToSet(apps) \subseteq App
  BY DEF ToSet
<1>3. \A i \in DOMAIN elements : i \in I <=> elements[i] \in ToSet(apps)
  BY <1>1
<1>4. I \in SUBSET DOMAIN elements
  OBVIOUS
<1>5. Installed(elements) = new
  BY DEF Installed
<1> HIDE DEF I
<1>6. /\ Len(new) = N /\ N \in Nat /\ new \in Seq(S)
      /\ Ascending(I) \in [1..N -> I]
      /\ \A x \in I : \E i \in 1..N : Ascending(I)[i] = x
      /\ \A i \in 1..N : new[i] = elements[Ascending(I)[i]]
  BY <1>4, RowsAtFacts
<1> HIDE DEF new, N
<1>7. DOMAIN new = 1..N
  BY <1>6
<1>8. \A k \in 1..N : Ascending(I)[k] \in I /\ new[k] \in ToSet(apps) /\ new[k] \in ToSet(elements)
  BY <1>3, <1>4, <1>6 DEF ToSet
<1>9. \A i \in DOMAIN elements : elements[i] \in ToSet(apps) => \E k \in 1..N : new[k] = elements[i]
  <2> SUFFICES ASSUME NEW i \in DOMAIN elements, elements[i] \in ToSet(apps)
               PROVE  \E k \in 1..N : new[k] = elements[i]
    OBVIOUS
  <2>1. i \in I
    BY <1>3
  <2>2. PICK k \in 1..N : Ascending(I)[k] = i
    BY <1>6, <2>1
  <2>3. new[k] = elements[Ascending(I)[k]]
    BY <1>6
  <2>4. new[k] = elements[i]
    BY <2>2, <2>3
  <2> QED
    BY <2>4
<1>10. new \in Seq(App)
  <2>1. \A k \in 1..Len(new) : new[k] \in App
    BY <1>2, <1>6, <1>8
  <2> QED
    BY <1>6, <2>1
<1>11. \A x : x \in ToSet(new) <=> x \in ToSet(elements) /\ x \in ToSet(apps)
  BY <1>7, <1>8, <1>9 DEF ToSet
<1> QED
  BY <1>5, <1>10, <1>11

\* What a change of the docked elements leaves as it is.
Refreshes(new, data) ==
  /\ Together(data) => Together(new)
  /\ \A S : WindowsIn(data, S) => WindowsIn(new, S)
  /\ LaunchersIn(data, apps) => LaunchersIn(new, apps)

\* The icon of an application that has no entry is put at the end.
LEMMA AddFacts ==
  ASSUME apps \in Seq(App), NEW n \in Nat, NEW acc, UpdateFits(acc, n),
         NEW id, id \in ToSet(apps), id \notin IdsOf(acc.data),
         NEW u, u = Update(Append(acc.data, Entry(id, "apps", CombineFunc(id, apps))),
                           Append(acc.ops, Inserting(Len(acc.data) + 1, id)), {})
  PROVE  /\ UpdateFits(u, n) /\ Refreshes(u.data, acc.data)
         /\ IdsOf(acc.data) \subseteq IdsOf(u.data) /\ id \in IdsOf(u.data)
<1> DEFINE data == acc.data
           row == CombineFunc(id, apps)
           x == Entry(id, "apps", row)
           p == Len(data) + 1
           new == InsertAt(data, p, x)
           op == Inserting(p, id)
           none == {}
<1>1. id \in App /\ id \in ElementIds
  BY DEF ToSet, ElementIds
<1>2. row \in Nat /\ row \in DOMAIN apps /\ apps[row] = id
  <2>1. row \in 0..Len(apps) /\ (row # 0 => apps[row] = id) /\ row # 0
    BY CombineFuncFinds
  <2> QED
    BY <2>1
<1> HIDE DEF row
<1>3. x \in RowSet /\ x.id = id /\ x.model = "apps" /\ x.row = row
  BY <1>1, <1>2, EntryFields
<1>4. data \in Seq(RowSet) /\ acc.ops \in Seq(OpSet) /\ OpsFit(acc.ops, n, Len(data))
  BY DEF UpdateFits
<1>5. p \in 1..Len(data) + 1 /\ p \in Nat /\ Len(data) \in Nat
  BY <1>4
<1>6. op \in OpSet
  BY <1>1, <1>5, OpFields
<1>7. new = Append(data, x)
  BY <1>3, <1>4, AppendInserts
<1>8. u = Update(new, Append(acc.ops, op), none)
  BY <1>7 DEF row
<1> HIDE DEF x
<1>9. /\ new \in Seq(RowSet) /\ p \in DOMAIN new
      /\ InsertedAt(new, data, p, x)
      /\ Edit(new, data, DOMAIN new \ {p}, DOMAIN data)
  BY <1>3, <1>4, <1>5, InsertFacts
<1>10. FitsAt(data, p, x.id) /\ Together(data) => Together(new)
  <2>1. new = InsertAt(data, p, x)
    OBVIOUS
  <2> HIDE DEF new, p, data
  <2> QED
    BY <1>3, <1>4, <1>5, <2>1, InsertFacts
<1>11. OpAt(Inserting(p, x.id), Len(data), Len(new))
  BY <1>3, <1>4, <1>5, InsertFacts
<1>12. new[p] = x
  BY <1>9 DEF InsertedAt
<1>13. FitsAt(data, p, x.id)
  BY <1>3 DEF FitsAt
<1>14. OpAt(op, Len(data), Len(new))
  BY <1>3, <1>11
<1> HIDE DEF p, new, op, none
<1>15. UpdateFits(u, n)
  <2>1. Len(new) \in Nat
    BY <1>9
  <2>2. OpsFit(Append(acc.ops, op), n, Len(new))
    BY <1>4, <1>5, <1>6, <1>14, <2>1, MoreOps
  <2>3. u = Update(u.data, u.ops, u.changed) /\ u.data = new /\ u.ops = Append(acc.ops, op)
    <3> DEFINE more == Append(acc.ops, op)
    <3>1. u = Update(new, more, none)
      BY <1>8
    <3> HIDE DEF more
    <3>2. u = Update(u.data, u.ops, u.changed) /\ u.data = new /\ u.ops = more
      BY <3>1, UpdateIs
    <3> QED
      BY <3>2 DEF more
  <2>4. Append(acc.ops, op) \in Seq(OpSet)
    BY <1>4, <1>6
  <2> QED
    BY <1>9, <2>2, <2>3, <2>4 DEF UpdateFits
<1>16. u.data = new
  BY <1>8, UpdateIs
<1> DEFINE A == DOMAIN new \ {p}
           B == DOMAIN data
<1>17. /\ Edit(new, data, A, B)
       /\ \A k \in DOMAIN new \ A : k = p
       /\ DOMAIN data \ B = {}
       /\ \A b \in B : data[b].id \in IdsOf(data)
  BY <1>9 DEF IdsOf
<1>i. id \notin IdsOf(data)
  OBVIOUS
<1> HIDE DEF A, B, data
<1>18. ASSUME NEW S, WindowsIn(data, S) PROVE WindowsIn(new, S)
  <2>1. \A k \in DOMAIN new \ A : new[k].model # "active"
    BY <1>3, <1>12, <1>17
  <2>2. \A k \in DOMAIN data \ B : data[k].model # "active"
    BY <1>17
  <2> QED
    BY <1>17, <1>18, <2>1, <2>2, EditKeepsWindows
<1>19. ASSUME LaunchersIn(data, apps) PROVE LaunchersIn(new, apps)
  <2>1. \A j, k \in DOMAIN new \ A : j = k
    BY <1>17
  <2>2. \A b \in B : data[b].id # id
    BY <1>i, <1>17
  <2>3. \A k \in DOMAIN new \ A :
           /\ new[k].model = "apps" =>
                /\ new[k].row \in DOMAIN apps /\ apps[new[k].row] = new[k].id
                /\ \A b \in B : data[b].id # new[k].id
           /\ \A b \in B : data[b].model = "apps" => data[b].id # new[k].id
    BY <1>2, <1>3, <1>12, <1>17, <2>2
  <2> QED
    BY <1>17, <1>19, <2>1, <2>3, EditKeepsLaunchers
<1>20. IdsOf(data) \subseteq IdsOf(new)
  <2>1. \A b \in B : data[b].id \in IdsOf(new)
    BY <1>17, EditIds
  <2> QED
    BY <2>1 DEF IdsOf, B
<1>21. id \in IdsOf(new)
  BY <1>3, <1>9, <1>12 DEF IdsOf
<1> QED
  BY <1>10, <1>13, <1>15, <1>16, <1>18, <1>19, <1>20, <1>21 DEF Refreshes, data

\* The icon of an application that is no longer docked is taken.
LEMMA DropFacts ==
  ASSUME NEW n \in Nat, NEW acc, UpdateFits(acc, n),
         NEW pos, pos \in DOMAIN acc.data, acc.data[pos].model = "apps",
         NEW u, u = Update(RemoveAt(acc.data, pos), Append(acc.ops, Removing(pos)), {})
  PROVE  /\ UpdateFits(u, n) /\ Refreshes(u.data, acc.data)
         /\ \A x \in IdsOf(acc.data) : x # acc.data[pos].id => x \in IdsOf(u.data)
<1> DEFINE data == acc.data
           new == RemoveAt(data, pos)
           op == Removing(pos)
           none == {}
<1>1. data \in Seq(RowSet) /\ acc.ops \in Seq(OpSet) /\ OpsFit(acc.ops, n, Len(data))
  BY DEF UpdateFits
<1>2. pos \in Nat /\ Len(data) \in Nat /\ pos \in DOMAIN data /\ data[pos].model = "apps"
  BY <1>1
<1>3. op \in OpSet
  BY <1>2 DEF Removing, OpSet
<1>4. new \in Seq(RowSet) /\ OpAt(op, Len(data), Len(new)) /\ TakesOut(new, data, pos)
  BY <1>1, <1>2, TakesOutFacts
<1>5. u = Update(new, Append(acc.ops, op), none)
  OBVIOUS
<1> HIDE DEF new, op, none
<1>6. UpdateFits(u, n) /\ u.data = new
  <2>1. Len(new) \in Nat
    BY <1>4
  <2>2. OpsFit(Append(acc.ops, op), n, Len(new))
    BY <1>1, <1>2, <1>3, <1>4, <2>1, MoreOps
  <2>3. u = Update(u.data, u.ops, u.changed) /\ u.data = new /\ u.ops = Append(acc.ops, op)
    <3> DEFINE more == Append(acc.ops, op)
    <3>1. u = Update(new, more, none)
      BY <1>5
    <3> HIDE DEF more
    <3>2. u = Update(u.data, u.ops, u.changed) /\ u.data = new /\ u.ops = more
      BY <3>1, UpdateIs
    <3> QED
      BY <3>2 DEF more
  <2>4. Append(acc.ops, op) \in Seq(OpSet)
    BY <1>1, <1>3
  <2> QED
    BY <1>4, <2>2, <2>3, <2>4 DEF UpdateFits
<1>7. \A x \in IdsOf(data) : x # data[pos].id => x \in IdsOf(new)
  <2> TAKE x \in IdsOf(data)
  <2> HAVE x # data[pos].id
  <2>1. PICK q \in DOMAIN data : data[q].id = x
    BY DEF IdsOf
  <2> QED
    BY <1>4, <2>1 DEF TakesOut
<1>8. Refreshes(new, data)
  BY <1>2, <1>4 DEF TakesOut, Refreshes
<1> QED
  BY <1>6, <1>7, <1>8

\* One change after another.
LEMMA RefreshesBoth ==
  ASSUME NEW a, NEW b, NEW c, Refreshes(b, a), Refreshes(c, b)
  PROVE  Refreshes(c, a)
BY DEF Refreshes

-----------------------------------------------------------------------------
AddStep(c, acc, i) ==
  LET id == Installed(c.elements)[i]
  IN IF id \in ToSet(m_dockedElements) \cup IdsOf(acc.data) THEN acc
     ELSE Update(Append(acc.data, Entry(id, "apps", CombineFunc(id, apps))),
                 Append(acc.ops, Inserting(Len(acc.data) + 1, id)), {})

AddHolds(c, acc, i) ==
  /\ UpdateFits(acc, c.n) /\ Refreshes(acc.data, c.data)
  /\ IdsOf(c.data) \subseteq IdsOf(acc.data)
  /\ \A j \in 1..i : \/ Installed(c.elements)[j] \in ToSet(m_dockedElements)
                    \/ Installed(c.elements)[j] \in IdsOf(acc.data)

Adding == INSTANCE FoldFacts WITH Step <- AddStep, Holds <- AddHolds

DropStep(c, acc, i) ==
  LET id == m_dockedElements[i]
      pos == IconOf(acc.data, id)
  IN IF id \in ToSet(Installed(c.elements)) \/ pos = 0 THEN acc
     ELSE Update(RemoveAt(acc.data, pos), Append(acc.ops, Removing(pos)), {})

DropHolds(c, acc, i) ==
  /\ UpdateFits(acc, c.n) /\ Refreshes(acc.data, c.data)
  /\ \A x \in ToSet(Installed(c.elements)) :
       x \in IdsOf(c.data) \/ x \notin ToSet(m_dockedElements) => x \in IdsOf(acc.data)

Dropping == INSTANCE FoldFacts WITH Step <- DropStep, Holds <- DropHolds

\* Load is the two folds, one after the other.
LEMMA LoadFolds ==
  ASSUME NEW c
  PROVE  Load(c.elements) =
           Dropping!Fold(c, Adding!Fold(c, Update(m_data, <<>>, {}), DOMAIN Installed(c.elements)),
                         DOMAIN m_dockedElements)
BY DEF Load, IconOf, FoldLeft, MapThenFoldSet, Max, AddStep, Adding!Fold, Adding!IsIter, Adding!Max,
       DropStep, Dropping!Fold, Dropping!IsIter, Dropping!Max

\* An update starts from a list of some length.
LEMMA FitsFrom ==
  ASSUME NEW acc, NEW n, UpdateFits(acc, n)
  PROVE  n \in Nat
<1>1. OpsFit(acc.ops, n, Len(acc.data)) /\ acc.ops \in Seq(OpSet)
  BY DEF UpdateFits
<1>2. PICK l \in [0..Len(acc.ops) -> Nat] : l[0] = n
  BY <1>1, Zenon DEF OpsFit
<1>3. 0 \in 0..Len(acc.ops)
  BY <1>1
<1> QED
  BY <1>2, <1>3

\* One turn of the first loop.
LEMMA AddOne ==
  ASSUME apps \in Seq(App), NEW c, Installed(c.elements) \in Seq(ToSet(apps)),
         NEW i \in DOMAIN Installed(c.elements),
         NEW acc, AddHolds(c, acc, i - 1)
  PROVE  AddHolds(c, AddStep(c, acc, i), i)
<1> DEFINE inst == Installed(c.elements)
           id == inst[i]
           out == AddStep(c, acc, i)
           n == c.n
<1>1. /\ UpdateFits(acc, n) /\ Refreshes(acc.data, c.data)
      /\ IdsOf(c.data) \subseteq IdsOf(acc.data)
      /\ \A j \in 1..i - 1 : inst[j] \in ToSet(m_dockedElements) \/ inst[j] \in IdsOf(acc.data)
  BY DEF AddHolds
<1>2. id \in ToSet(apps)
  BY RowTyped
<1>3. i \in Nat /\ \A j \in 1..i : j \in 1..i - 1 \/ j = i
  OBVIOUS
<1>4. CASE id \in ToSet(m_dockedElements) \cup IdsOf(acc.data)
  <2>1. out = acc
    BY <1>4 DEF AddStep
  <2>2. \A j \in 1..i : inst[j] \in ToSet(m_dockedElements) \/ inst[j] \in IdsOf(acc.data)
    BY <1>1, <1>3, <1>4
  <2> QED
    BY <1>1, <2>1, <2>2 DEF AddHolds
<1>5. CASE id \notin ToSet(m_dockedElements) \cup IdsOf(acc.data)
  <2>1. out = Update(Append(acc.data, Entry(id, "apps", CombineFunc(id, apps))),
                     Append(acc.ops, Inserting(Len(acc.data) + 1, id)), {})
    BY <1>5 DEF AddStep
  <2>2. n \in Nat
    BY <1>1, FitsFrom
  <2> HIDE DEF id, out, n, inst
  <2>4. id \notin IdsOf(acc.data)
    BY <1>5
  <2>5. /\ UpdateFits(out, n) /\ Refreshes(out.data, acc.data)
        /\ IdsOf(acc.data) \subseteq IdsOf(out.data) /\ id \in IdsOf(out.data)
    <3>1. \A a : \A u : UpdateFits(a, n) /\ id \notin IdsOf(a.data)
            /\ u = Update(Append(a.data, Entry(id, "apps", CombineFunc(id, apps))),
                          Append(a.ops, Inserting(Len(a.data) + 1, id)), {})
            => /\ UpdateFits(u, n) /\ Refreshes(u.data, a.data)
               /\ IdsOf(a.data) \subseteq IdsOf(u.data) /\ id \in IdsOf(u.data)
      BY <1>2, <2>2, AddFacts
    <3> QED
      BY <1>1, <2>1, <2>4, <3>1, Zenon
  <2>6. Refreshes(out.data, c.data)
    BY <1>1, <2>5, RefreshesBoth
  <2>7. \A j \in 1..i : inst[j] \in ToSet(m_dockedElements) \/ inst[j] \in IdsOf(out.data)
    BY <1>1, <1>3, <2>5 DEF id
  <2>8. IdsOf(c.data) \subseteq IdsOf(out.data)
    BY <1>1, <2>5
  <2> QED
    BY <2>5, <2>6, <2>7, <2>8 DEF AddHolds, out, n, inst
<1> QED
  BY <1>4, <1>5

\* One turn of the second loop.
LEMMA DropOne ==
  ASSUME NEW c, NEW i \in DOMAIN m_dockedElements, NEW acc, DropHolds(c, acc, i - 1)
  PROVE  DropHolds(c, DropStep(c, acc, i), i)
<1> DEFINE id == m_dockedElements[i]
           pos == IconOf(acc.data, id)
           out == DropStep(c, acc, i)
           n == c.n
<1>1. /\ UpdateFits(acc, n) /\ Refreshes(acc.data, c.data)
      /\ \A x \in ToSet(Installed(c.elements)) :
           x \in IdsOf(c.data) \/ x \notin ToSet(m_dockedElements) => x \in IdsOf(acc.data)
  BY DEF DropHolds
<1>2. acc.data \in Seq(RowSet) /\ n \in Nat
  BY <1>1, FitsFrom DEF UpdateFits
<1>3. pos # 0 => pos \in DOMAIN acc.data /\ acc.data[pos].id = id /\ acc.data[pos].model = "apps"
  BY <1>2, IconFacts
<1>4. out = IF id \in ToSet(Installed(c.elements)) \/ pos = 0 THEN acc
            ELSE Update(RemoveAt(acc.data, pos), Append(acc.ops, Removing(pos)), {})
  BY Zenon DEF DropStep
<1> HIDE DEF out, pos, id, n
<1>5. CASE id \in ToSet(Installed(c.elements)) \/ pos = 0
  BY <1>1, <1>4, <1>5 DEF DropHolds, out, n
<1>6. CASE ~ (id \in ToSet(Installed(c.elements)) \/ pos = 0)
  <2>1. out = Update(RemoveAt(acc.data, pos), Append(acc.ops, Removing(pos)), {})
    BY <1>4, <1>6
  <2>2. /\ UpdateFits(out, n) /\ Refreshes(out.data, acc.data)
        /\ \A x \in IdsOf(acc.data) : x # acc.data[pos].id => x \in IdsOf(out.data)
    <3>1. \A a : \A u : UpdateFits(a, n) /\ pos \in DOMAIN a.data /\ a.data[pos].model = "apps"
            /\ u = Update(RemoveAt(a.data, pos), Append(a.ops, Removing(pos)), {})
            => /\ UpdateFits(u, n) /\ Refreshes(u.data, a.data)
               /\ \A x \in IdsOf(a.data) : x # a.data[pos].id => x \in IdsOf(u.data)
      BY <1>2, DropFacts
    <3>2. pos \in DOMAIN acc.data /\ acc.data[pos].model = "apps"
      BY <1>3, <1>6
    <3> QED
      BY <1>1, <2>1, <3>1, <3>2, Zenon
  <2>3. Refreshes(out.data, c.data)
    BY <1>1, <2>2, RefreshesBoth
  <2>4. \A x \in ToSet(Installed(c.elements)) :
           x \in IdsOf(c.data) \/ x \notin ToSet(m_dockedElements) => x \in IdsOf(out.data)
    BY <1>1, <1>3, <1>6, <2>2
  <2> QED
    BY <2>2, <2>3, <2>4 DEF DropHolds, out, n
<1> QED
  BY <1>5, <1>6

\* loadDockedElements gives every docked application that is installed an
\* entry, and leaves windows and other icons as they are.
LEMMA LoadFacts ==
  ASSUME m_data \in Seq(RowSet), apps \in Seq(App), m_dockedElements \in Seq(App),
         NEW S, NEW elements \in Seq(S), NEW u, u = Load(elements)
  PROVE  /\ UpdateFits(u, Len(m_data)) /\ Refreshes(u.data, m_data)
         /\ \A x \in ToSet(Installed(elements)) :
              x \in IdsOf(m_data) \/ x \notin ToSet(m_dockedElements) => x \in IdsOf(u.data)
<1> DEFINE inst == Installed(elements)
           n == Len(m_data)
           base == Update(m_data, <<>>, {})
           c == [data |-> m_data, elements |-> elements, n |-> n]
           N == Len(inst)
<1>0. inst \in Seq(App) /\ \A x : x \in ToSet(inst) <=> x \in ToSet(elements) /\ x \in ToSet(apps)
  <2>1. \A T : \A e \in Seq(T) :
          /\ Installed(e) \in Seq(App)
          /\ \A x : x \in ToSet(Installed(e)) <=> x \in ToSet(e) /\ x \in ToSet(apps)
    BY InstalledFacts
  <2> QED
    BY <2>1
<1>1. n \in Nat
  OBVIOUS
<1>2. N \in Nat /\ DOMAIN inst = 1..N
  BY <1>0
<1>i. inst = Installed(elements)
  OBVIOUS
<1> HIDE DEF inst
<1>3. inst \in Seq(ToSet(apps))
  <2>1. \A k \in 1..N : inst[k] \in ToSet(inst)
    BY <1>2 DEF ToSet
  <2>2. \A k \in 1..N : inst[k] \in ToSet(apps)
    BY <1>0, <2>1
  <2> QED
    BY <1>0, <1>2, <2>2
<1>4. c.data = m_data /\ c.elements = elements /\ c.n = n /\ Installed(c.elements) = inst
  BY <1>i
<1>5. UpdateFits(base, n) /\ base.data = m_data
  <2> DEFINE none == {}
  <2>1. base = Update(m_data, <<>>, none)
    OBVIOUS
  <2> HIDE DEF none, base
  <2> QED
    BY <2>1, QuietFits, UpdateIs
<1>b. base = Update(m_data, <<>>, {})
  OBVIOUS
<1> HIDE DEF c, N, n, base
<1>6. AddHolds(c, base, 0)
  <2>1. Refreshes(m_data, m_data)
    BY DEF Refreshes
  <2> QED
    BY <1>4, <1>5, <2>1 DEF AddHolds
<1>7. ASSUME NEW i \in 1..N, NEW acc, AddHolds(c, acc, i - 1)
      PROVE  AddHolds(c, AddStep(c, acc, i), i)
  <2>1. Installed(c.elements) \in Seq(ToSet(apps)) /\ i \in DOMAIN Installed(c.elements)
    BY <1>2, <1>3, <1>4
  <2> QED
    BY <1>7, <2>1, AddOne
<1> DEFINE added == Adding!Fold(c, base, 1..N)
<1>8. AddHolds(c, added, N)
  BY <1>2, <1>6, <1>7, RowsOrdered, Adding!FoldKeeps
<1> DEFINE M == Len(m_dockedElements)
           dropped == Dropping!Fold(c, added, 1..M)
<1>9. M \in Nat /\ DOMAIN m_dockedElements = 1..M
  OBVIOUS
<1> HIDE DEF M
<1>10. u = dropped
  <2>1. Load(c.elements) =
           Dropping!Fold(c, Adding!Fold(c, Update(m_data, <<>>, {}), DOMAIN Installed(c.elements)),
                         DOMAIN m_dockedElements)
    BY LoadFolds
  <2> QED
    BY <1>2, <1>4, <1>9, <1>b, <2>1
<1> HIDE DEF added
<1>11. /\ UpdateFits(added, n) /\ Refreshes(added.data, m_data)
       /\ \A x \in ToSet(inst) : x \in IdsOf(m_data) \/ x \notin ToSet(m_dockedElements) => x \in IdsOf(added.data)
  <2>1. /\ UpdateFits(added, n) /\ Refreshes(added.data, m_data)
        /\ IdsOf(m_data) \subseteq IdsOf(added.data)
        /\ \A j \in 1..N : inst[j] \in ToSet(m_dockedElements) \/ inst[j] \in IdsOf(added.data)
    BY <1>4, <1>8 DEF AddHolds
  <2>2. \A x \in ToSet(inst) : \E j \in 1..N : x = inst[j]
    BY <1>2 DEF ToSet
  <2> QED
    BY <2>1, <2>2
<1>12. DropHolds(c, added, 0)
  BY <1>4, <1>11 DEF DropHolds
<1>13. \A i \in 1..M : \A acc : DropHolds(c, acc, i - 1) => DropHolds(c, DropStep(c, acc, i), i)
  BY <1>9, DropOne
<1>14. DropHolds(c, dropped, M)
  BY <1>9, <1>12, <1>13, RowsOrdered, Dropping!FoldKeeps
<1> HIDE DEF dropped
<1>15. /\ UpdateFits(u, n) /\ Refreshes(u.data, m_data)
       /\ \A x \in ToSet(inst) : x \in IdsOf(m_data) \/ x \notin ToSet(m_dockedElements) => x \in IdsOf(u.data)
  BY <1>4, <1>10, <1>14 DEF DropHolds
<1> QED
  BY <1>15 DEF inst, n

-----------------------------------------------------------------------------
(* The entries in another order.                                           *)

\* new is s in the order f.
Rearranges(new, s, f) ==
  /\ Len(new) = Len(s)
  /\ f \in [1..Len(s) -> 1..Len(s)]
  /\ \A j, k \in 1..Len(s) : f[j] = f[k] => j = k
  /\ \A b \in 1..Len(s) : \E k \in 1..Len(s) : f[k] = b
  /\ \A k \in 1..Len(s) : new[k] = s[f[k]]

\* One order after another.
LEMMA RearrangesTwice ==
  ASSUME NEW S, NEW a \in Seq(S), NEW b, NEW c, NEW f, NEW g,
         Rearranges(b, a, f), Rearranges(c, b, g)
  PROVE  \E h : Rearranges(c, a, h)
<1> DEFINE n == Len(a)
           h == [k \in 1..n |-> f[g[k]]]
<1>1. n \in Nat /\ Len(b) = n /\ Len(c) = n
  BY DEF Rearranges
<1> HIDE DEF n
<1>2. /\ f \in [1..n -> 1..n] /\ g \in [1..n -> 1..n]
      /\ \A j, k \in 1..n : f[j] = f[k] => j = k
      /\ \A j, k \in 1..n : g[j] = g[k] => j = k
  BY <1>1 DEF Rearranges, n
<1>3. (\A k \in 1..n : b[k] = a[f[k]]) /\ (\A k \in 1..n : c[k] = b[g[k]])
  BY <1>1 DEF Rearranges, n
<1>4. (\A x \in 1..n : \E k \in 1..n : f[k] = x) /\ (\A x \in 1..n : \E k \in 1..n : g[k] = x)
  BY <1>1 DEF Rearranges, n
<1>5. h \in [1..n -> 1..n] /\ \A k \in 1..n : h[k] = f[g[k]] /\ g[k] \in 1..n
  BY <1>2
<1> HIDE DEF h
<1>6. \A j, k \in 1..n : h[j] = h[k] => j = k
  BY <1>2, <1>5
<1>7. ASSUME NEW x \in 1..n PROVE \E k \in 1..n : h[k] = x
  <2>1. PICK y \in 1..n : f[y] = x
    BY <1>4
  <2>2. PICK k \in 1..n : g[k] = y
    BY <1>4
  <2> QED
    BY <1>5, <2>1, <2>2
<1>8. \A k \in 1..n : c[k] = a[h[k]]
  BY <1>3, <1>5
<1>9. Rearranges(c, a, h)
  BY <1>1, <1>5, <1>6, <1>7, <1>8 DEF Rearranges, n
<1> QED
  BY <1>9

\* Whatever the order, the entries are of the same windows and icons.
LEMMA RearrangedEdit ==
  ASSUME NEW new \in Seq(RowSet), NEW data \in Seq(RowSet), NEW f, Rearranges(new, data, f)
  PROVE  /\ \A S : WindowsIn(data, S) => WindowsIn(new, S)
         /\ \A list : LaunchersIn(data, list) => LaunchersIn(new, list)
         /\ IdsOf(new) = IdsOf(data)
<1> DEFINE A == 1..Len(data)
           B == 1..Len(data)
<1>1. DOMAIN new = A /\ DOMAIN data = A /\ DOMAIN data = B
  BY DEF Rearranges
<1>2. Edit(new, data, A, B)
  BY <1>1 DEF Edit, Rearranges
<1>3. DOMAIN new \ A = {} /\ DOMAIN data \ B = {}
  BY <1>1
<1>4. \A k \in DOMAIN new \ A : FALSE
  BY <1>3
<1>5. \A k \in DOMAIN data \ B : FALSE
  BY <1>3
<1> HIDE DEF A, B
<1>6. ASSUME NEW S, WindowsIn(data, S) PROVE WindowsIn(new, S)
  <2>1. \A k \in DOMAIN new \ A : new[k].model # "active"
    BY <1>4
  <2>2. \A k \in DOMAIN data \ B : data[k].model # "active"
    BY <1>5
  <2> QED
    BY <1>2, <1>6, <2>1, <2>2, EditKeepsWindows
<1>7. ASSUME NEW list, LaunchersIn(data, list) PROVE LaunchersIn(new, list)
  <2>1. \A j, k \in DOMAIN new \ A : j = k
    BY <1>4
  <2>2. \A k \in DOMAIN new \ A :
           /\ new[k].model = "apps" =>
                /\ new[k].row \in DOMAIN list /\ list[new[k].row] = new[k].id
                /\ \A b \in B : data[b].id # new[k].id
           /\ \A b \in B : data[b].model = "apps" => data[b].id # new[k].id
    BY <1>4
  <2> QED
    BY <1>2, <1>7, <2>1, <2>2, EditKeepsLaunchers
<1>8. IdsOf(new) = IdsOf(data)
  <2>1. \A b \in B : data[b].id \in IdsOf(new)
    BY <1>2, EditIds
  <2>2. \A x \in IdsOf(new) : (\E b \in B : x = data[b].id) \/ (\E k \in DOMAIN new \ A : x = new[k].id)
    BY <1>2, EditIds
  <2>3. \A x \in IdsOf(new) : \E b \in B : x = data[b].id
    BY <1>4, <2>2
  <2>4. IdsOf(data) \subseteq IdsOf(new)
    BY <1>1, <2>1 DEF IdsOf
  <2>5. IdsOf(new) \subseteq IdsOf(data)
    BY <1>1, <2>3 DEF IdsOf
  <2> QED
    BY <2>4, <2>5
<1> QED
  BY <1>6, <1>7, <1>8

\* moveItem keeps the entries.
LEMMA MovedFacts ==
  ASSUME NEW data \in Seq(RowSet), NEW from \in DOMAIN data, NEW to \in DOMAIN data,
         NEW new, new = Moved(data, from, to)
  PROVE  new \in Seq(RowSet) /\ \E f : Rearranges(new, data, f)
<1> DEFINE n == Len(data)
           mid == RemoveAt(data, from)
           x == data[from]
           was(j) == IF j < from THEN j ELSE j + 1
           f == [k \in 1..n |-> IF k = to THEN from ELSE was(IF k < to THEN k ELSE k - 1)]
<1>1. n \in Nat /\ DOMAIN data = 1..n /\ from \in 1..n /\ to \in 1..n /\ from \in Nat /\ to \in Nat
  OBVIOUS
<1>2. x \in RowSet
  BY RowTyped
<1>3. mid \in Seq(RowSet) /\ Len(mid) = n - 1 /\ \A j \in DOMAIN mid : mid[j] = data[IF j < from THEN j ELSE j + 1]
  BY RemoveFacts
<1>4. new = InsertAt(mid, to, x)
  BY DEF Moved
<1>5. to \in 1..Len(mid) + 1
  BY <1>1, <1>3
<1> HIDE DEF x, mid
<1>6. new \in Seq(RowSet) /\ Len(new) = Len(mid) + 1 /\ InsertedAt(new, mid, to, x)
  BY <1>2, <1>3, <1>4, <1>5, InsertRow
<1>7. Len(new) = n /\ DOMAIN mid = 1..n - 1 /\ Len(mid) + 1 = n
  BY <1>1, <1>3, <1>6
<1> HIDE DEF n
<1>8. new[to] = x /\ (\A j \in 1..n : j < to => new[j] = mid[j]) /\ (\A j \in 1..n : j > to => new[j] = mid[j - 1])
  BY <1>6, <1>7 DEF InsertedAt
<1>9. \A j \in 1..n - 1 : mid[j] = data[was(j)]
  BY <1>3, <1>7
<1>10. \A k \in 1..n : f[k] = IF k = to THEN from ELSE was(IF k < to THEN k ELSE k - 1)
  OBVIOUS
<1>11. f \in [1..n -> 1..n]
  BY <1>1
<1> HIDE DEF f
<1>12. ASSUME NEW j \in 1..n, NEW k \in 1..n, f[j] = f[k] PROVE j = k
  BY <1>1, <1>10, <1>12
<1>13. ASSUME NEW b \in 1..n PROVE \E k \in 1..n : f[k] = b
  <2> DEFINE j == IF b < from THEN b ELSE b - 1
             k == IF b = from THEN to ELSE IF j < to THEN j ELSE j + 1
  <2>1. k \in 1..n /\ f[k] = b
    BY <1>1, <1>10
  <2> QED
    BY <2>1
<1>14. ASSUME NEW k \in 1..n PROVE new[k] = data[f[k]]
  <2>1. CASE k = to
    BY <1>8, <1>10, <2>1 DEF x
  <2>2. CASE k < to
    <3>1. k \in 1..n - 1 /\ f[k] = was(k)
      BY <1>1, <1>10, <2>2
    <3> HIDE DEF was
    <3> QED
      BY <1>8, <1>9, <2>2, <3>1
  <2>3. CASE k > to
    <3>1. k - 1 \in 1..n - 1 /\ f[k] = was(k - 1)
      BY <1>1, <1>10, <2>3
    <3> HIDE DEF was
    <3>2. new[k] = mid[k - 1] /\ mid[k - 1] = data[was(k - 1)]
      BY <1>8, <1>9, <2>3, <3>1
    <3> QED
      BY <3>1, <3>2
  <2> QED
    BY <1>1, <2>1, <2>2, <2>3
<1>15. Rearranges(new, data, f)
  BY <1>7, <1>11, <1>12, <1>13, <1>14 DEF Rearranges, n
<1> QED
  BY <1>6, <1>15

-----------------------------------------------------------------------------
(* groupItemsByApp.                                                        *)

\* Increasing places differ.
LEMMA IncreasingDiffer ==
  ASSUME NEW n \in Nat, NEW b \in Nat, NEW J \in SUBSET (1..n), NEW B \in [1..b -> J],
         \A i, j \in 1..b : i < j => B[i] < B[j]
  PROVE  \A i, j \in 1..b : B[i] = B[j] => i = j
<1>1. \A i \in 1..b : B[i] \in Nat /\ i \in Nat
  <2>1. \A i \in 1..b : B[i] \in J
    OBVIOUS
  <2>2. \A x \in J : x \in Nat
    OBVIOUS
  <2>3. \A i \in 1..b : i \in Nat
    OBVIOUS
  <2> QED
    BY <2>1, <2>2, <2>3, Zenon
<1> TAKE i, j \in 1..b
<1> HAVE B[i] = B[j]
<1>2. ~ (i < j) /\ ~ (j < i)
  BY <1>1
<1> QED
  BY <1>1, <1>2

\* Three lists one behind the other.
LEMMA RowsAssociate ==
  ASSUME NEW S, NEW x \in Seq(S), NEW y \in Seq(S), NEW z \in Seq(S)
  PROVE  (x \o y) \o z = x \o (y \o z)
<1>1. /\ (x \o y) \o z \in Seq(S) /\ x \o (y \o z) \in Seq(S)
      /\ Len((x \o y) \o z) = Len(x \o (y \o z))
      /\ \A i \in 1..Len((x \o y) \o z) : ((x \o y) \o z)[i] = (x \o (y \o z))[i]
  OBVIOUS
<1> QED
  BY <1>1

\* The rows of a list at some places, then the others.
LEMMA SplitRows ==
  ASSUME NEW S, NEW s \in Seq(S), NEW I \in SUBSET DOMAIN s,
         NEW new, new = RowsAt(s, I) \o RowsAt(s, DOMAIN s \ I)
  PROVE  /\ new \in Seq(S) /\ Cardinality(I) \in 0..Len(s)
         /\ \E f : /\ Rearranges(new, s, f)
                   /\ \A k \in 1..Len(s) : f[k] \in I <=> k <= Cardinality(I)
<1> DEFINE n == Len(s)
           J == DOMAIN s \ I
           a == Cardinality(I)
           b == Cardinality(J)
           A == Ascending(I)
           B == Ascending(J)
           f == [k \in 1..n |-> IF k <= a THEN A[k] ELSE B[k - a]]
<1>1. n \in Nat /\ DOMAIN s = 1..n /\ I \in SUBSET (1..n) /\ J \in SUBSET (1..n) /\ J \in SUBSET DOMAIN s
  OBVIOUS
<1>2. /\ Len(RowsAt(s, I)) = a /\ a \in Nat /\ RowsAt(s, I) \in Seq(S)
      /\ A \in [1..a -> I]
      /\ \A i, j \in 1..a : i < j => A[i] < A[j]
      /\ \A x \in I : \E i \in 1..a : A[i] = x
      /\ \A i \in 1..a : RowsAt(s, I)[i] = s[A[i]]
  BY RowsAtFacts
<1> HIDE DEF J
<1>3. /\ Len(RowsAt(s, J)) = b /\ b \in Nat /\ RowsAt(s, J) \in Seq(S)
      /\ B \in [1..b -> J]
      /\ \A i, j \in 1..b : i < j => B[i] < B[j]
      /\ \A x \in J : \E i \in 1..b : B[i] = x
      /\ \A i \in 1..b : RowsAt(s, J)[i] = s[B[i]]
  BY <1>1, RowsAtFacts
<1>4. a + b = n
  <2>1. IsFiniteSet(1..n) /\ Cardinality(1..n) = n
    <3>1. 1 \in Int /\ n \in Int /\ (1 > n => n = 0) /\ n - 1 + 1 = n
      BY <1>1
    <3> HIDE DEF n
    <3> QED
      BY <3>1, FS_Interval
  <2>2. J = (1..n) \ I /\ (1..n) \cap I = I
    BY <1>1 DEF J
  <2>3. Cardinality((1..n) \ I) = Cardinality(1..n) - Cardinality((1..n) \cap I)
    BY <2>1, FS_Difference
  <2>4. Cardinality(J) = n - Cardinality(I)
    BY <2>1, <2>2, <2>3, Zenon
  <2>5. Cardinality(I) \in Nat /\ Cardinality(J) \in Nat
    BY <1>2, <1>3
  <2> QED
    BY <1>1, <2>4, <2>5
<1>5. /\ new \in Seq(S) /\ Len(new) = n
      /\ \A k \in 1..n : new[k] = IF k <= a THEN RowsAt(s, I)[k] ELSE RowsAt(s, J)[k - a]
  <2> DEFINE p == RowsAt(s, I)
             q == RowsAt(s, J)
  <2>1. p \in Seq(S) /\ q \in Seq(S) /\ Len(p) = a /\ Len(q) = b /\ new = p \o q
    BY <1>2, <1>3 DEF J
  <2> HIDE DEF p, q
  <2>2. /\ p \o q \in Seq(S) /\ Len(p \o q) = Len(p) + Len(q)
        /\ \A i \in 1 .. Len(p) + Len(q) : (p \o q)[i] = IF i <= Len(p) THEN p[i] ELSE q[i - Len(p)]
    BY <2>1, ConcatProperties
  <2>3. new \in Seq(S) /\ Len(new) = n /\ \A k \in 1..n : new[k] = IF k <= a THEN p[k] ELSE q[k - a]
    BY <1>4, <2>1, <2>2
  <2> QED
    BY <2>3 DEF p, q
<1> HIDE DEF A, B, a, b
<1>6. \A k \in 1..n : /\ k <= a => k \in 1..a
                      /\ ~ (k <= a) => k - a \in 1..b
  BY <1>2, <1>3, <1>4
<1>7. \A x \in 1..n : x \in I \/ x \in J
  BY <1>1 DEF J
<1>8. I \cap J = {}
  BY DEF J
<1>9. \A k \in 1..n : f[k] = IF k <= a THEN A[k] ELSE B[k - a]
  OBVIOUS
<1> HIDE DEF n
<1>10. \A k \in 1..n : /\ k <= a => f[k] \in I /\ f[k] = A[k]
                       /\ ~ (k <= a) => f[k] \in J /\ f[k] = B[k - a]
  BY <1>2, <1>3, <1>6, <1>9
<1>11. f \in [1..n -> 1..n]
  <2>1. \A k \in 1..n : f[k] \in 1..n
    BY <1>1, <1>10
  <2> QED
    BY <2>1
<1> HIDE DEF f
<1>12. ASSUME NEW j \in 1..n, NEW k \in 1..n, f[j] = f[k] PROVE j = k
  <2>1. CASE j <= a /\ k <= a
    <3>1. j \in 1..a /\ k \in 1..a /\ A[j] = A[k] /\ A[j] \in Nat /\ A[k] \in Nat
      BY <1>1, <1>6, <1>10, <1>12, <2>1
    <3> QED
      BY <1>2, <3>1
  <2>2. CASE ~ (j <= a) /\ ~ (k <= a)
    <3>1. j - a \in 1..b /\ k - a \in 1..b
      BY <1>6, <2>2
    <3>2. f[j] = B[j - a] /\ f[k] = B[k - a]
      BY <1>10, <2>2, Zenon
    <3>3. B[j - a] = B[k - a]
      BY <1>12, <3>2, Zenon
    <3>4. \A x, y \in 1..b : B[x] = B[y] => x = y
      <4>1. n \in Nat /\ J \in SUBSET (1..n)
        BY <1>1
      <4>2. b \in Nat /\ B \in [1..b -> J] /\ \A i, l \in 1..b : i < l => B[i] < B[l]
        BY <1>3
      <4> HIDE DEF n
      <4> QED
        BY <4>1, <4>2, IncreasingDiffer
    <3>5. j - a = k - a
      BY <3>1, <3>3, <3>4, Zenon
    <3> QED
      BY <1>1, <1>2, <3>5
  <2>3. CASE (j <= a) # (k <= a)
    BY <1>8, <1>10, <1>12, <2>3
  <2> QED
    BY <2>1, <2>2, <2>3
<1>13. ASSUME NEW x \in 1..n PROVE \E k \in 1..n : f[k] = x
  <2>1. CASE x \in I
    <3>1. PICK i \in 1..a : A[i] = x
      BY <1>2, <2>1
    <3>2. i \in 1..n /\ i <= a
      BY <1>2, <1>3, <1>4
    <3> QED
      BY <1>10, <3>1, <3>2
  <2>2. CASE x \in J
    <3>1. PICK i \in 1..b : B[i] = x
      BY <1>3, <2>2
    <3>2. i + a \in 1..n /\ ~ (i + a <= a) /\ (i + a) - a = i
      BY <1>2, <1>3, <1>4
    <3> QED
      BY <1>10, <3>1, <3>2
  <2> QED
    BY <1>7, <2>1, <2>2
<1>14. ASSUME NEW k \in 1..n PROVE new[k] = s[f[k]]
  <2>1. CASE k <= a
    <3>1. k \in 1..a
      BY <1>6, <2>1
    <3>2. new[k] = RowsAt(s, I)[k]
      BY <1>5, <2>1, Zenon
    <3>3. RowsAt(s, I)[k] = s[A[k]]
      BY <1>2, <3>1, Zenon
    <3>4. f[k] = A[k]
      BY <1>10, <2>1, Zenon
    <3> QED
      BY <3>2, <3>3, <3>4, Zenon
  <2>2. CASE ~ (k <= a)
    <3>1. k - a \in 1..b
      BY <1>6, <2>2
    <3>2. new[k] = RowsAt(s, J)[k - a]
      BY <1>5, <2>2, Zenon
    <3>3. RowsAt(s, J)[k - a] = s[B[k - a]]
      BY <1>3, <3>1, Zenon
    <3>4. f[k] = B[k - a]
      BY <1>10, <2>2, Zenon
    <3> QED
      BY <3>2, <3>3, <3>4, Zenon
  <2> QED
    BY <2>1, <2>2, Zenon
<1>15. Rearranges(new, s, f)
  BY <1>5, <1>11, <1>12, <1>13, <1>14 DEF Rearranges, n
<1>16. \A k \in 1..n : f[k] \in I <=> k <= a
  BY <1>8, <1>10
<1>17. a \in 0..n
  BY <1>2, <1>3, <1>4
<1> QED
  BY <1>5, <1>15, <1>16, <1>17 DEF n, a

\* ... behind the rows before them, which stay.
SplitFrom(new, s, run, behind, I, f) ==
  /\ Rearranges(new, s, f)
  /\ \A k \in 1..Len(s) : k < run => f[k] = k
  /\ \A k \in 1..Len(s) : k >= run =>
       /\ f[k] >= run /\ s[f[k]] = behind[f[k] - run + 1]
       /\ f[k] - run + 1 \in DOMAIN behind
       /\ f[k] - run + 1 \in I <=> k < run + Cardinality(I)

\* The rows behind a place, those at I first.
LEMMA SplitBehind ==
  ASSUME NEW S, NEW s \in Seq(S), NEW run \in 1..Len(s) + 1,
         NEW behind, behind = SubSeq(s, run, Len(s)), NEW I \in SUBSET DOMAIN behind,
         NEW new, new = SubSeq(s, 1, run - 1) \o RowsAt(behind, I) \o RowsAt(behind, DOMAIN behind \ I)
  PROVE  /\ new \in Seq(S) /\ run + Cardinality(I) \in run..Len(s) + 1
         /\ \E f : SplitFrom(new, s, run, behind, I, f)
<1> DEFINE n == Len(s)
           m == n - run + 1
           head == SubSeq(s, 1, run - 1)
           split == RowsAt(behind, I) \o RowsAt(behind, DOMAIN behind \ I)
           a == Cardinality(I)
<1>1. n \in Nat /\ DOMAIN s = 1..n /\ run \in 1..n + 1 /\ run \in Nat /\ m \in Nat
  OBVIOUS
<1>2. behind \in Seq(S) /\ Len(behind) = m /\ (\A i \in 1..m : behind[i] = s[run + i - 1]) /\ DOMAIN behind = 1..m
  <2>1. \A i \in run..n : s[i] \in S
    BY <1>1, RowTyped
  <2>2. /\ SubSeq(s, run, n) \in Seq(S) /\ Len(SubSeq(s, run, n)) = IF run <= n THEN n - run + 1 ELSE 0
        /\ \A i \in 1 .. n - run + 1 : SubSeq(s, run, n)[i] = s[run + i - 1]
    BY <1>1, <2>1, SubSeqProperties
  <2> QED
    BY <1>1, <2>2
<1>3. head \in Seq(S) /\ Len(head) = run - 1 /\ \A i \in 1..run - 1 : head[i] = s[i]
  <2>1. \A i \in 1..run - 1 : s[i] \in S
    BY <1>1, RowTyped
  <2> DEFINE r == run - 1
  <2>2. r \in Int /\ \A i \in 1..r : s[i] \in S
    BY <1>1, <2>1
  <2> HIDE DEF r
  <2>3. /\ SubSeq(s, 1, r) \in Seq(S) /\ Len(SubSeq(s, 1, r)) = IF 1 <= r THEN r - 1 + 1 ELSE 0
        /\ \A i \in 1 .. r - 1 + 1 : SubSeq(s, 1, r)[i] = s[1 + i - 1]
    BY <2>2, SubSeqProperties
  <2> QED
    BY <1>1, <2>3 DEF r
<1>4. /\ split \in Seq(S) /\ a \in 0..m
      /\ \E f : /\ Rearranges(split, behind, f)
                /\ \A k \in 1..m : f[k] \in I <=> k <= a
  <2>1. split = RowsAt(behind, I) \o RowsAt(behind, DOMAIN behind \ I)
    OBVIOUS
  <2> HIDE DEF split
  <2> QED
    BY <1>2, <2>1, SplitRows
<1>5. PICK g : /\ Rearranges(split, behind, g)
               /\ \A k \in 1..m : g[k] \in I <=> k <= a
  BY <1>4
<1>6. /\ Len(split) = m /\ g \in [1..m -> 1..m]
      /\ \A j, k \in 1..m : g[j] = g[k] => j = k
      /\ \A b \in 1..m : \E k \in 1..m : g[k] = b
      /\ \A k \in 1..m : split[k] = behind[g[k]]
  BY <1>2, <1>5 DEF Rearranges
<1>7. new = head \o split
  <2> DEFINE p == RowsAt(behind, I)
             q == RowsAt(behind, DOMAIN behind \ I)
  <2>1. p \in Seq(S) /\ q \in Seq(S)
    BY <1>2, RowsAtFacts
  <2>2. new = (head \o p) \o q /\ split = p \o q
    OBVIOUS
  <2>3. head \in Seq(S)
    BY <1>3
  <2> HIDE DEF p, q, head, split
  <2>4. p \in Seq(S) /\ q \in Seq(S) /\ head \in Seq(S)
    BY <2>1, <2>3
  <2>5. (head \o p) \o q = head \o (p \o q)
    <3> DEFINE Same(x, y, z) == (x \o y) \o z = x \o (y \o z)
    <3>1. ASSUME NEW x \in Seq(S), NEW y \in Seq(S), NEW z \in Seq(S)
          PROVE  Same(x, y, z)
      BY ONLY RowsAssociate
    <3>2. Same(head, p, q)
      <4> HIDE DEF Same
      <4> QED
        BY ONLY <2>4, <3>1, Zenon
    <3> QED
      BY ONLY <3>2
  <2> QED
    BY <2>2, <2>5, Zenon
<1> HIDE DEF head, split, a
<1>8. /\ new \in Seq(S) /\ Len(new) = n
      /\ \A k \in 1..n : new[k] = IF k <= run - 1 THEN head[k] ELSE split[k - (run - 1)]
  <2>1. /\ head \o split \in Seq(S) /\ Len(head \o split) = Len(head) + Len(split)
        /\ \A i \in 1 .. Len(head) + Len(split) :
             (head \o split)[i] = IF i <= Len(head) THEN head[i] ELSE split[i - Len(head)]
    BY <1>3, <1>4, ConcatProperties
  <2>2. Len(head) + Len(split) = n /\ Len(head) = run - 1
    BY <1>1, <1>3, <1>6
  <2> QED
    BY <1>7, <2>1, <2>2
<1> DEFINE f == [k \in 1..n |-> IF k < run THEN k ELSE g[k - run + 1] + run - 1]
<1>9. \A k \in 1..n : f[k] = IF k < run THEN k ELSE g[k - run + 1] + run - 1
  OBVIOUS
<1>10. \A k \in 1..n : k >= run => k - run + 1 \in 1..m /\ g[k - run + 1] \in 1..m
  <2> TAKE k \in 1..n
  <2> HAVE k >= run
  <2>1. k - run + 1 \in 1..m
    BY <1>1
  <2>2. \A i \in 1..m : g[i] \in 1..m
    BY <1>6
  <2> HIDE DEF m, n
  <2> QED
    BY <2>1, <2>2, Zenon
<1>11. ASSUME NEW k \in 1..n, k >= run
       PROVE  /\ f[k] \in run..n /\ f[k] - run + 1 = g[k - run + 1]
  BY <1>1, <1>9, <1>10, <1>11
<1>12. f \in [1..n -> 1..n]
  <2>1. \A k \in 1..n : f[k] \in 1..n
    BY <1>1, <1>9, <1>11
  <2> QED
    BY <2>1
<1> HIDE DEF f, n
<1>13. ASSUME NEW j \in 1..n, NEW k \in 1..n, f[j] = f[k] PROVE j = k
  <2>1. CASE j < run \/ k < run
    BY <1>1, <1>9, <1>11, <1>13, <2>1
  <2>2. CASE j >= run /\ k >= run
    <3>1. g[j - run + 1] = g[k - run + 1]
      BY <1>11, <1>13, <2>2
    <3>2. j - run + 1 = k - run + 1
      BY <1>6, <1>10, <2>2, <3>1
    <3> QED
      BY <1>1, <3>2
  <2> QED
    BY <1>1, <2>1, <2>2
<1>14. ASSUME NEW b \in 1..n PROVE \E k \in 1..n : f[k] = b
  <2>1. CASE b < run
    BY <1>9, <2>1
  <2>2. CASE b >= run
    <3>1. b - run + 1 \in 1..m
      BY <1>1, <2>2
    <3>2. PICK j \in 1..m : g[j] = b - run + 1
      BY <1>6, <3>1
    <3>3. j + run - 1 \in 1..n /\ j + run - 1 >= run /\ (j + run - 1) - run + 1 = j
      BY <1>1
    <3>4. f[j + run - 1] = b
      BY <1>1, <1>9, <3>2, <3>3
    <3> QED
      BY <3>3, <3>4
  <2> QED
    BY <1>1, <2>1, <2>2
<1>15. ASSUME NEW k \in 1..n, k >= run
       PROVE  s[f[k]] = behind[f[k] - run + 1] /\ f[k] - run + 1 \in 1..m
  <2>1. f[k] \in run..n /\ f[k] - run + 1 = g[k - run + 1] /\ g[k - run + 1] \in 1..m
    BY <1>10, <1>11, <1>15
  <2>2. run + (f[k] - run + 1) - 1 = f[k] /\ f[k] - run + 1 \in 1..m
    BY <1>1, <2>1
  <2> QED
    BY <1>2, <2>2
<1>16. ASSUME NEW k \in 1..n PROVE new[k] = s[f[k]]
  <2>1. CASE k < run
    <3>1. k \in 1..run - 1 /\ k <= run - 1
      BY <1>1, <2>1
    <3>2. new[k] = head[k]
      BY <1>8, <3>1, Zenon
    <3>3. head[k] = s[k] /\ f[k] = k
      BY <1>3, <1>9, <2>1, <3>1, Zenon
    <3> QED
      BY <3>2, <3>3, Zenon
  <2>2. CASE k >= run
    <3>1. k - (run - 1) = k - run + 1 /\ ~ (k <= run - 1) /\ k - run + 1 \in 1..m
      BY <1>1, <2>2
    <3>2. new[k] = split[k - run + 1]
      BY <1>8, <3>1
    <3>3. new[k] = behind[g[k - run + 1]]
      BY <1>6, <3>1, <3>2
    <3> QED
      BY <1>11, <1>15, <2>2, <3>3
  <2>3. k < run \/ k >= run
    BY <1>1
  <2> QED
    BY <2>1, <2>2, <2>3, Zenon
<1>17. Rearranges(new, s, f)
  BY <1>8, <1>12, <1>13, <1>14, <1>16 DEF Rearranges, n
<1>18. ASSUME NEW k \in 1..n, k >= run
       PROVE  f[k] - run + 1 \in I <=> k < run + a
  <2>1. k - run + 1 \in 1..m /\ f[k] - run + 1 = g[k - run + 1]
    BY <1>10, <1>11, <1>18
  <2>2. g[k - run + 1] \in I <=> k - run + 1 <= a
    BY <1>5, <2>1
  <2> QED
    BY <1>1, <1>4, <2>1, <2>2
<1>19. run + a \in run..n + 1
  BY <1>1, <1>4
<1>20. \A k \in 1..n : k < run => f[k] = k
  BY <1>9
<1>21. \A k \in 1..n : k >= run =>
         /\ f[k] >= run /\ s[f[k]] = behind[f[k] - run + 1]
         /\ f[k] - run + 1 \in DOMAIN behind
         /\ f[k] - run + 1 \in I <=> k < run + a
  <2> TAKE k \in 1..n
  <2> HAVE k >= run
  <2>1. f[k] >= run
    BY <1>1, <1>11
  <2> QED
    BY <1>2, <1>15, <1>18, <2>1
<1>22. SplitFrom(new, s, run, behind, I, f)
  BY <1>17, <1>20, <1>21 DEF n, a, SplitFrom
<1> QED
  BY <1>8, <1>19, <1>22 DEF n, a

\* No id on both sides of a place.
ApartAt(data, next) == \A p \in 1..next - 1 : \A q \in next..Len(data) : data[p].id # data[q].id

\* The rows of an id are in one piece before a place.
InPieces(data, next) ==
  \A p, q \in 1..next - 1 : \A j \in p..q : data[p].id = data[q].id => data[j].id = data[p].id

GatherHolds(c, acc, i) ==
  /\ acc.data \in Seq(RowSet)
  /\ \E f : Rearranges(acc.data, c, f)
  /\ acc.next \in i + 1..Len(c) + 1
  /\ ApartAt(acc.data, acc.next)
  /\ InPieces(acc.data, acc.next)

\* What the loop over k leaves when it finds the first row of an id.
LEMMA GatheredRows ==
  ASSUME NEW data \in Seq(RowSet), NEW k \in 1..Len(data), ApartAt(data, k), InPieces(data, k),
         NEW new, Len(new) = Len(data), NEW next \in k + 1..Len(data) + 1,
         \A j \in 1..Len(data) : j < k => new[j].id = data[j].id,
         \A j \in 1..Len(data) : k <= j /\ j < next => new[j].id = data[k].id,
         \A j \in 1..Len(data) : j >= next =>
           new[j].id # data[k].id /\ \E b \in k..Len(data) : new[j].id = data[b].id
  PROVE  ApartAt(new, next) /\ InPieces(new, next)
<1> DEFINE n == Len(data)
           is == data[k].id
<1>1. n \in Nat /\ k \in 1..n /\ k \in Nat /\ next \in k + 1..n + 1 /\ next \in Nat
  OBVIOUS
<1>2. \A j \in 1..n : j < k => new[j].id = data[j].id
  OBVIOUS
<1>3. \A j \in 1..n : k <= j /\ j < next => new[j].id = is
  OBVIOUS
<1>4. \A j \in 1..n : j >= next => new[j].id # is /\ \E b \in k..n : new[j].id = data[b].id
  OBVIOUS
<1>5. \A p \in 1..k - 1 : \A q \in k..n : data[p].id # data[q].id
  BY DEF ApartAt
<1>6. \A p, q \in 1..k - 1 : \A j \in p..q : data[p].id = data[q].id => data[j].id = data[p].id
  BY DEF InPieces
<1>7. k \in k..n /\ is = data[k].id
  BY <1>1
<1>8. Len(new) = n
  OBVIOUS
<1> HIDE DEF n, is
<1>9. ASSUME NEW p \in 1..next - 1, NEW q \in next..n
      PROVE  new[p].id # new[q].id
  <2>1. p \in 1..n /\ q \in 1..n /\ q >= next
    BY <1>1
  <2>2. PICK b \in k..n : new[q].id = data[b].id
    BY <1>4, <2>1
  <2>3. CASE p < k
    <3>1. p \in 1..k - 1
      BY <1>1, <2>3
    <3>2. new[p].id = data[p].id /\ data[p].id # data[b].id
      BY <1>2, <1>5, <2>1, <2>3, <3>1, Zenon
    <3> QED
      BY <2>2, <3>2, Zenon
  <2>4. CASE k <= p
    <3>1. p < next
      BY <1>1
    <3>2. new[p].id = is /\ new[q].id # is
      BY <1>3, <1>4, <2>1, <2>4, <3>1, Zenon
    <3> QED
      BY <3>2, Zenon
  <2>5. p < k \/ k <= p
    BY <1>1
  <2> QED
    BY <2>3, <2>4, <2>5, Zenon
<1>10. ASSUME NEW p \in 1..next - 1, NEW q \in 1..next - 1, NEW j \in p..q, new[p].id = new[q].id
       PROVE  new[j].id = new[p].id
  <2>1. p \in 1..n /\ q \in 1..n /\ j \in 1..n /\ p < next /\ q < next /\ j < next /\ p <= j /\ j <= q
    BY <1>1
  <2>2. CASE q < k
    <3>1. p \in 1..k - 1 /\ q \in 1..k - 1 /\ j \in 1..n /\ p < k /\ j < k
      BY <1>1, <2>1, <2>2
    <3>2. new[p].id = data[p].id /\ new[q].id = data[q].id /\ new[j].id = data[j].id
      BY <1>2, <2>1, <2>2, <3>1, Zenon
    <3>3. data[p].id = data[q].id
      BY <1>10, <3>2, Zenon
    <3>4. data[j].id = data[p].id
      BY <1>6, <3>1, <3>3, Zenon
    <3> QED
      BY <3>2, <3>4, Zenon
  <2>3. CASE k <= q /\ p < k
    <3>1. p \in 1..k - 1
      BY <1>1, <2>3
    <3>2. new[p].id = data[p].id /\ new[q].id = is
      BY <1>2, <1>3, <2>1, <2>3, Zenon
    <3>3. data[p].id # is
      BY <1>5, <1>7, <3>1, Zenon
    <3> QED
      BY <1>10, <3>2, <3>3, Zenon
  <2>4. CASE k <= p
    <3>1. k <= j
      BY <1>1, <2>1, <2>4
    <3>2. new[p].id = is /\ new[j].id = is
      BY <1>3, <2>1, <2>4, <3>1, Zenon
    <3> QED
      BY <3>2, Zenon
  <2>5. q < k \/ (k <= q /\ p < k) \/ k <= p
    BY <1>1, <2>1
  <2> QED
    BY <2>2, <2>3, <2>4, <2>5, Zenon
<1>11. ApartAt(new, next)
  BY <1>8, <1>9 DEF ApartAt
<1> QED
  BY <1>10, <1>11 DEF InPieces

\* One turn of the outer loop.
LEMMA GatherOne ==
  ASSUME NEW acc, NEW data \in Seq(RowSet), acc.data = data, NEW k \in 1..Len(data), acc.next = k,
         ApartAt(data, k), InPieces(data, k),
         NEW out, out = Gather(acc, k)
  PROVE  /\ out.data \in Seq(RowSet) /\ out.next \in k + 1..Len(data) + 1
         /\ \E f : Rearranges(out.data, data, f)
         /\ ApartAt(out.data, out.next) /\ InPieces(out.data, out.next)
<1> DEFINE n == Len(data)
           is == data[k].id
           R == {p \in k + 1..n + 1 : p = n + 1 \/ data[p].id # is}
           run == Min(R)
           behind == SubSeq(data, run, n)
           mine == {p \in DOMAIN behind : behind[p].id = is}
           new == SubSeq(data, 1, run - 1) \o RowsAt(behind, mine) \o RowsAt(behind, DOMAIN behind \ mine)
           next == run + Cardinality(mine)
<1>1. n \in Nat /\ k \in 1..n /\ k \in Nat
  OBVIOUS
<1>2. out = [data |-> new, next |-> next]
  <2>1. ~ (k < acc.next)
    BY <1>1
  <2>2. out = IF k < acc.next THEN acc ELSE [data |-> new, next |-> next]
    BY DEF Gather
  <2> QED
    BY <2>1, <2>2, Zenon
<1>r. R \in SUBSET Nat /\ R # {} /\ \A p : p \in R <=> p \in k + 1..n + 1 /\ (p = n + 1 \/ data[p].id # is)
  <2>1. n + 1 \in R
    BY <1>1
  <2>2. \A p \in R : p \in Nat
    BY <1>1
  <2> QED
    BY <2>1, <2>2
<1> HIDE DEF R
<1>3. run \in R /\ \A p \in R : run <= p
  BY <1>r, MinOfRows
<1>m. mine \in SUBSET DOMAIN behind /\ \A p \in DOMAIN behind : p \in mine <=> behind[p].id = is
  OBVIOUS
<1> HIDE DEF run, mine
<1>4. run \in k + 1..n + 1 /\ run \in 1..n + 1 /\ run \in Nat
  BY <1>1, <1>3, <1>r
<1>5. \A j \in 1..n : k <= j /\ j < run => data[j].id = is
  <2> SUFFICES ASSUME NEW j \in 1..n, k <= j, j < run PROVE data[j].id = is
    OBVIOUS
  <2>1. CASE j = k
    BY <2>1
  <2>2. CASE j > k
    <3>1. j \in k + 1..n + 1 /\ j \notin R
      <4>1. ~ (run <= j)
        BY <1>4
      <4> QED
        BY <1>1, <1>3, <2>2, <4>1
    <3> QED
      BY <1>r, <3>1, Zenon
  <2> QED
    BY <1>1, <2>1, <2>2
<1>6. /\ new \in Seq(RowSet) /\ next \in run..n + 1
      /\ \E f : /\ Rearranges(new, data, f)
                /\ \A j \in 1..n : j < run => f[j] = j
                /\ \A j \in 1..n : j >= run =>
                     /\ f[j] >= run /\ data[f[j]] = behind[f[j] - run + 1]
                     /\ f[j] - run + 1 \in DOMAIN behind
                     /\ f[j] - run + 1 \in mine <=> j < next
  <2> DEFINE I == mine
  <2>1. behind = SubSeq(data, run, Len(data)) /\ new = SubSeq(data, 1, run - 1) \o RowsAt(behind, mine) \o RowsAt(behind, DOMAIN behind \ mine)
    OBVIOUS
  <2>2. run \in 1..Len(data) + 1
    BY <1>4
  <2>3. mine \in SUBSET DOMAIN behind
    BY <1>m
  <2>4. behind = SubSeq(data, run, Len(data))
    BY <2>1
  <2>5. new = SubSeq(data, 1, run - 1) \o RowsAt(behind, mine) \o RowsAt(behind, DOMAIN behind \ mine)
    BY <2>1
  <2> HIDE DEF behind, new
  <2>6. /\ new \in Seq(RowSet) /\ run + Cardinality(mine) \in run..Len(data) + 1
        /\ \E f : SplitFrom(new, data, run, behind, mine, f)
    BY <2>2, <2>3, <2>4, <2>5, SplitBehind
  <2> QED
    BY <2>6 DEF SplitFrom
<1>7. PICK f : /\ Rearranges(new, data, f)
               /\ \A j \in 1..n : j < run => f[j] = j
               /\ \A j \in 1..n : j >= run =>
                    /\ f[j] >= run /\ data[f[j]] = behind[f[j] - run + 1]
                    /\ f[j] - run + 1 \in DOMAIN behind
                    /\ f[j] - run + 1 \in mine <=> j < next
  BY <1>6
<1> HIDE DEF new, behind, next
<1>8. Len(new) = n /\ f \in [1..n -> 1..n] /\ \A j \in 1..n : new[j] = data[f[j]]
  BY <1>7 DEF Rearranges
<1>9. next \in k + 1..n + 1 /\ next \in Nat /\ run <= next
  BY <1>1, <1>4, <1>6
<1> HIDE DEF n
<1>10. \A j \in 1..n : j < k => new[j].id = data[j].id
  <2> SUFFICES ASSUME NEW j \in 1..n, j < k PROVE new[j].id = data[j].id
    OBVIOUS
  <2>1. j < run
    BY <1>1, <1>4
  <2>2. f[j] = j /\ new[j] = data[f[j]]
    BY <1>7, <1>8, <2>1, Zenon
  <2> QED
    BY <2>2, Zenon
<1>11. ASSUME NEW j \in 1..n, k <= j, j < run PROVE new[j].id = is
  <2>1. f[j] = j /\ new[j] = data[f[j]] /\ data[j].id = is
    BY <1>5, <1>7, <1>8, <1>11, Zenon
  <2> QED
    BY <2>1, Zenon
<1>12. ASSUME NEW j \in 1..n, j >= run
       PROVE  (new[j].id = is <=> j < next) /\ f[j] \in k..n /\ new[j].id = data[f[j]].id
  <2> DEFINE x == f[j] - run + 1
  <2>1. data[f[j]] = behind[x] /\ x \in DOMAIN behind /\ (x \in mine <=> j < next) /\ f[j] >= run
    BY <1>7, <1>12
  <2>2. f[j] \in 1..n /\ new[j] = data[f[j]]
    BY <1>8
  <2> HIDE DEF x
  <2>3. x \in mine <=> behind[x].id = is
    BY <1>m, <2>1, Zenon
  <2>4. f[j] \in k..n
    BY <1>1, <1>4, <2>1, <2>2
  <2> QED
    BY <2>1, <2>2, <2>3, <2>4, Zenon
<1>13. \A j \in 1..n : k <= j /\ j < next => new[j].id = is
  <2> SUFFICES ASSUME NEW j \in 1..n, k <= j, j < next PROVE new[j].id = is
    OBVIOUS
  <2>1. j < run \/ j >= run
    BY <1>4
  <2> QED
    BY <1>11, <1>12, <2>1
<1>14. \A j \in 1..n : j >= next => new[j].id # is /\ \E b \in k..n : new[j].id = data[b].id
  <2> SUFFICES ASSUME NEW j \in 1..n, j >= next PROVE new[j].id # is /\ \E b \in k..n : new[j].id = data[b].id
    OBVIOUS
  <2>1. j >= run /\ ~ (j < next)
    BY <1>4, <1>9
  <2> QED
    BY <1>12, <2>1
<1>15. ApartAt(new, next) /\ InPieces(new, next)
  <2>1. Len(new) = Len(data) /\ next \in k + 1..Len(data) + 1
    BY <1>8, <1>9 DEF n
  <2>2. /\ \A j \in 1..Len(data) : j < k => new[j].id = data[j].id
        /\ \A j \in 1..Len(data) : k <= j /\ j < next => new[j].id = data[k].id
        /\ \A j \in 1..Len(data) : j >= next =>
             new[j].id # data[k].id /\ \E b \in k..Len(data) : new[j].id = data[b].id
    BY <1>10, <1>13, <1>14 DEF n
  <2> QED
    BY <2>1, <2>2, GatheredRows
<1>16. out.data = new /\ out.next = next
  BY <1>2
<1>17. new \in Seq(RowSet) /\ \E g : Rearranges(new, data, g)
  BY <1>6, <1>7 DEF n
<1> QED
  BY <1>9, <1>15, <1>16, <1>17 DEF n

GatherStep(c, acc, i) == Gather(acc, [k \in DOMAIN c |-> k][i])

Gathering == INSTANCE FoldFacts WITH Step <- GatherStep, Holds <- GatherHolds

\* groupItemsByApp is that fold.
LEMMA GatherFolds ==
  ASSUME NEW c
  PROVE  GroupedByApp(c) = Gathering!Fold(c, [data |-> c, next |-> 1], DOMAIN [k \in DOMAIN c |-> k]).data
BY DEF GroupedByApp, FoldLeft, MapThenFoldSet, Max, GatherStep,
       Gathering!Fold, Gathering!IsIter, Gathering!Max

\* groupItemsByApp puts the entries of each application together and keeps
\* them all.
LEMMA GroupedFacts ==
  ASSUME NEW data \in Seq(RowSet), NEW new, new = GroupedByApp(data)
  PROVE  /\ new \in Seq(RowSet) /\ Together(new)
         /\ \E f : Rearranges(new, data, f)
<1> DEFINE n == Len(data)
           base == [data |-> data, next |-> 1]
           s == [k \in DOMAIN data |-> k]
<1>1. n \in Nat /\ DOMAIN data = 1..n /\ DOMAIN s = 1..n /\ \A k \in 1..n : s[k] = k
  OBVIOUS
<1>2. base.data = data /\ base.next = 1
  OBVIOUS
<1>3. Rearranges(data, data, s)
  BY <1>1 DEF Rearranges
<1>4. GatherHolds(data, base, 0)
  <2>1. 1 \in 0 + 1..n + 1 /\ \A p \in 1..1 - 1 : FALSE
    BY <1>1
  <2>2. ApartAt(data, 1) /\ InPieces(data, 1)
    BY <2>1 DEF ApartAt, InPieces
  <2> HIDE DEF base, s
  <2> QED
    BY <1>2, <1>3, <2>1, <2>2 DEF GatherHolds
<1>5. ASSUME NEW i \in 1..n, NEW acc, GatherHolds(data, acc, i - 1)
      PROVE  GatherHolds(data, GatherStep(data, acc, i), i)
  <2> DEFINE out == Gather(acc, i)
             a == acc.data
  <2>1. GatherStep(data, acc, i) = out
    BY <1>1 DEF GatherStep
  <2>2. /\ a \in Seq(RowSet) /\ acc.next \in (i - 1) + 1..n + 1
        /\ ApartAt(a, acc.next) /\ InPieces(a, acc.next)
    BY <1>5 DEF GatherHolds
  <2>3. PICK f : Rearranges(a, data, f)
    BY <1>5 DEF GatherHolds
  <2>4. Len(a) = n
    BY <2>3 DEF Rearranges
  <2>5. i \in Nat /\ acc.next \in Nat
    BY <1>1, <2>2
  <2>6. CASE i < acc.next
    <3>1. out = acc
      BY <2>6 DEF Gather
    <3>2. acc.next \in i + 1..n + 1
      BY <1>1, <2>2, <2>5, <2>6
    <3> HIDE DEF out
    <3> QED
      BY <2>1, <2>2, <2>3, <3>1, <3>2 DEF GatherHolds
  <2>7. CASE ~ (i < acc.next)
    <3>1. acc.next = i /\ i \in 1..Len(a)
      BY <1>1, <2>2, <2>4, <2>5, <2>7
    <3>2. ApartAt(a, i) /\ InPieces(a, i)
      BY <2>2, <3>1
    <3>3. acc.data = a /\ out = Gather(acc, i)
      OBVIOUS
    <3> HIDE DEF out, a
    <3>4. /\ out.data \in Seq(RowSet) /\ out.next \in i + 1..Len(a) + 1
          /\ \E g : Rearranges(out.data, a, g)
          /\ ApartAt(out.data, out.next) /\ InPieces(out.data, out.next)
      BY <2>2, <3>1, <3>2, <3>3, GatherOne
    <3>5. PICK g : Rearranges(out.data, a, g)
      BY <3>4
    <3>6. \E h : Rearranges(out.data, data, h)
      BY <2>3, <3>5, RearrangesTwice
    <3> QED
      BY <2>1, <2>4, <3>4, <3>6 DEF GatherHolds
  <2> QED
    BY <2>6, <2>7
<1> DEFINE last == Gathering!Fold(data, base, 1..n)
<1>6. new = last.data
  <2>1. GroupedByApp(data) = Gathering!Fold(data, [data |-> data, next |-> 1], DOMAIN [k \in DOMAIN data |-> k]).data
    BY GatherFolds
  <2> QED
    BY <1>1, <2>1
<1> HIDE DEF n, base
<1>7. GatherHolds(data, last, n)
  BY <1>1, <1>4, <1>5, RowsOrdered, Gathering!FoldKeeps
<1> HIDE DEF last
<1>8. /\ new \in Seq(RowSet) /\ (\E f : Rearranges(new, data, f)) /\ last.next \in n + 1..n + 1
      /\ InPieces(new, last.next)
  BY <1>6, <1>7 DEF GatherHolds, n
<1>9. Len(new) = n
  BY <1>8 DEF Rearranges, n
<1>10. last.next - 1 = n
  BY <1>1, <1>8
<1>11. \A p, q \in 1..n : \A j \in p..q : new[p].id = new[q].id => new[j].id = new[p].id
  BY <1>8, <1>10 DEF InPieces
<1>12. DOMAIN new = 1..n
  BY <1>8, <1>9
<1>13. Together(new)
  BY <1>11, <1>12 DEF Together
<1> QED
  BY <1>8, <1>13

-----------------------------------------------------------------------------
(* What is queued.                                                         *)

CallKinds == {"load", "activeInserted", "activeRemoved", "activeChanged", "appsRemoved",
              "childRemoved", "childChanged"}
RowCalls == {"activeInserted", "activeRemoved", "appsRemoved"}
ChildKinds == {"childRemoved", "childChanged"}

CallSet == {e \in [on : CallKinds, row : Nat, what : {"", "identity", "state"} \cup Nat] :
              /\ e.on \in RowCalls => e.row # 0
              /\ e.on = "activeChanged" => e.what \in {"identity", "state"}
              /\ e.on \in ChildKinds => e.what \in Nat}

\* The parts of a queued call.
LEMMA CallFields ==
  ASSUME NEW e \in CallSet
  PROVE  /\ e.on \in CallKinds /\ e.row \in Nat
         /\ e.on \in RowCalls => e.row \in Nat \ {0}
         /\ e.on = "activeChanged" => e.what \in {"identity", "state"}
         /\ OfGroups(e) => e.what \in Nat
BY DEF CallSet, OfGroups, ChildKinds

\* Calls about rows.
LEMMA RowCalled ==
  ASSUME NEW on \in {"activeInserted", "activeRemoved", "activeChanged", "appsRemoved"},
         NEW row \in Nat \ {0}, NEW what \in {"", "identity", "state"},
         on = "activeChanged" => what # ""
  PROVE  Event(on, row, what) \in CallSet
BY DEF CallSet, Event, CallKinds, RowCalls, ChildKinds

\* The call of the start.
LEMMA LoadCalled == Event("load", 0, "") \in CallSet
BY DEF CallSet, Event, CallKinds, RowCalls, ChildKinds

\* The calls of the group model are among them.
LEMMA ChildrenCalled == ChildCall \subseteq CallSet
<1> SUFFICES ASSUME NEW e \in ChildCall PROVE e \in CallSet
  OBVIOUS
<1>1. /\ e \in [on : CallKinds, row : Nat, what : {"", "identity", "state"} \cup Nat]
      /\ e.on \notin RowCalls /\ e.on # "activeChanged" /\ e.what \in Nat
  <2>1. e = [on |-> e.on, row |-> e.row, what |-> e.what]
        /\ e.on \in {"childRemoved", "childChanged"} /\ e.row \in Nat /\ e.what \in Nat
    BY DEF ChildCall
  <2>2. e.on \in CallKinds /\ e.on \notin RowCalls /\ e.on # "activeChanged" /\ e.what \in {"", "identity", "state"} \cup Nat
    BY <2>1 DEF CallKinds, RowCalls
  <2> QED
    BY <2>1, <2>2
<1> QED
  BY <1>1 DEF CallSet

\* A call made of its parts.
LEMMA EventFields ==
  ASSUME NEW on, NEW row, NEW what
  PROVE  Event(on, row, what).on = on /\ Event(on, row, what).row = row /\ Event(on, row, what).what = what
BY DEF Event

\* Calls put at the end of the queue.
LEMMA QueueGrows ==
  ASSUME NEW S, NEW s \in Seq(S), NEW t \in Seq(S)
  PROVE  /\ s \o t \in Seq(S) /\ Len(s \o t) = Len(s) + Len(t)
         /\ \A k \in 1..Len(s) : (s \o t)[k] = s[k]
         /\ \A k \in 1..Len(t) : (s \o t)[Len(s) + k] = t[k]
         /\ \A k \in 1..Len(s \o t) : k > Len(s) => (s \o t)[k] = t[k - Len(s)] /\ k - Len(s) \in 1..Len(t)
OBVIOUS

\* The first call and the others.
LEMMA TailFacts ==
  ASSUME NEW S, NEW s \in Seq(S), s # <<>>
  PROVE  /\ Head(s) \in S /\ Head(s) = s[1] /\ Tail(s) \in Seq(S) /\ Len(Tail(s)) = Len(s) - 1
         /\ Len(s) \in Nat \ {0}
         /\ \A k \in 1..Len(s) - 1 : Tail(s)[k] = s[k + 1]
OBVIOUS

-----------------------------------------------------------------------------
(* The list and the groups, whatever is queued.                            *)

\* Every row has an identity.
Named == \A r \in 1..Len(windows) : identity[windows[r]] \in App \cup Stranger

GroupsFit(split, G, n) == IF split THEN G = <<>> ELSE GroupsOver(G, 1..n)

ListInv ==
  /\ m_data \in Seq(RowSet)
  /\ m_dockedElements \in Seq(App)
  /\ dockedElements \in Seq(ElementIds)
  /\ windowSplit \in BOOLEAN
  /\ queue \in Seq(CallSet)
  /\ GroupsFit(windowSplit, groups, Len(m_data))
  /\ \A g \in DOMAIN m_currentActiveWindow : m_currentActiveWindow[g] \in Nat
  /\ ~windowSplit => Together(m_data)

\* There are no windows at the start.
LEMMA NamedInit == Init => Named
<1> SUFFICES ASSUME Init PROVE Named
  OBVIOUS
<1>1. windows = <<>>
  BY DEF Init, CombineInit
<1>2. 1..Len(windows) = {}
  BY <1>1
<1> QED
  BY <1>2 DEF Named

\* A window gets its identity when it opens.
LEMMA NamedStep == ModelsInv /\ Named /\ [Next]_vars => Named'
<1> SUFFICES ASSUME ModelsInv, Named, [Next]_vars PROVE Named'
  OBVIOUS
<1>0. /\ windows \in Seq(Window) /\ IsInjective(windows)
      /\ identity \in [Window -> App \cup Stranger \cup {NoId}]
  BY DEF ModelsInv
<1>1. ASSUME NEW w \in Window, NEW id \in App \cup Stranger, OpenWindow(w, id) PROVE Named'
  <2>1. windows' = Append(windows, w) /\ w \notin ToSet(windows) /\ identity' = [identity EXCEPT ![w] = id]
    BY <1>1 DEF OpenWindow
  <2>2. /\ Len(windows') = Len(windows) + 1 /\ windows'[Len(windows) + 1] = w
        /\ \A j \in 1..Len(windows) : windows'[j] = windows[j] /\ windows[j] \in Window /\ windows[j] # w
    BY <1>0, <2>1, AppendRow DEF ToSet
  <2>3. identity'[w] = id /\ \A v \in Window : v # w => identity'[v] = identity[v]
    BY <1>0, <2>1
  <2>4. \A r \in 1..Len(windows') : r \in 1..Len(windows) \/ r = Len(windows) + 1
    BY <1>0, <2>2
  <2> QED
    BY <2>2, <2>3, <2>4 DEF Named
<1>2. ASSUME NEW i \in DOMAIN windows, CloseWindow(i) PROVE Named'
  <2> DEFINE old(r) == IF r < i THEN r ELSE r + 1
  <2>1. windows' = RemoveAt(windows, i) /\ identity' = [identity EXCEPT ![windows[i]] = NoId]
    BY <1>2 DEF CloseWindow
  <2>2. /\ Len(windows') = Len(windows) - 1
        /\ \A r \in 1..Len(windows) - 1 : windows'[r] = windows[old(r)]
    BY <1>0, <2>1, RemoveAtFacts
  <2>3. \A r \in 1..Len(windows) - 1 : old(r) \in 1..Len(windows) /\ old(r) # i
    BY <1>0
  <2>4. \A j, k \in DOMAIN windows : windows[j] = windows[k] => j = k
    BY <1>0 DEF IsInjective
  <2> HIDE DEF old
  <2>5. \A v \in Window : v # windows[i] => identity'[v] = identity[v]
    BY <1>0, <2>1
  <2>6. DOMAIN windows = 1..Len(windows) /\ \A j \in 1..Len(windows) : windows[j] \in Window
    BY <1>0
  <2>7. \A r \in 1..Len(windows) - 1 : windows[old(r)] # windows[i]
    BY <2>3, <2>4, <2>6
  <2> QED
    BY <2>2, <2>3, <2>5, <2>6, <2>7 DEF Named
<1>3. ASSUME NEW i \in DOMAIN windows, NEW id \in App \cup Stranger, ChangeIdentity(i, id) PROVE Named'
  <2>1. windows' = windows /\ identity' = [identity EXCEPT ![windows[i]] = id]
    BY <1>3 DEF ChangeIdentity
  <2>2. \A v \in Window : identity'[v] = identity[v] \/ identity'[v] = id
    BY <1>0, <2>1
  <2> QED
    BY <1>0, <2>1, <2>2 DEF Named
<1>4. ASSUME NEW i \in DOMAIN windows, ChangeState(i) PROVE Named'
  BY <1>4 DEF ChangeState, Named
<1>5. ASSUME NEW app \in App, Install(app) PROVE Named'
  BY <1>5 DEF Install, Named
<1>6. ASSUME NEW i \in DOMAIN apps, Uninstall(i) PROVE Named'
  BY <1>6 DEF Uninstall, Named
<1>7. CASE UNCHANGED combineVars
  BY <1>7 DEF combineVars, Named
<1> QED
  BY <1>1, <1>2, <1>3, <1>4, <1>5, <1>6, <1>7, OtherStepsKeep DEF SourceStep

\* A row that is there has an id.
LEMMA DesktopIdTyped ==
  ASSUME ModelsInv, Named, NEW row
  PROVE  /\ DesktopId(row) \in ElementIds \cup {NoId}
         /\ row \in 1..Len(windows) => DesktopId(row) \in ElementIds /\ DesktopId(row) # NoId
<1>1. apps \in Seq(App)
  BY DEF ModelsInv
<1>2. App \subseteq ElementIds /\ \A id \in App \cup Stranger : Bare(id) \in ElementIds
  BY DEF ElementIds
<1>3. NoId \notin ElementIds
  BY NoIdIsNone
<1>4. \A j \in 1..Len(apps) : apps[j] \in App
  BY <1>1
<1>5. CASE row \in 1..Len(windows)
  <2>1. identity[windows[row]] \in App \cup Stranger
    BY <1>5 DEF Named
  <2>2. DesktopId(row) \in ElementIds
    BY <1>2, <1>4, <1>5, <2>1 DEF DesktopId
  <2> QED
    BY <1>3, <2>2
<1>6. CASE row \notin 1..Len(windows)
  BY <1>6 DEF DesktopId
<1> QED
  BY <1>5, <1>6

\* The rows that the entries name are there.
RowsThere(data) ==
  \A p \in DOMAIN data : \/ data[p].model = "active" /\ data[p].row \in 1..Len(windows)
                         \/ data[p].model = "apps" /\ data[p].row \in DOMAIN apps

\* The keys of the entries; none is empty if their rows are there.
LEMMA KeysFacts ==
  ASSUME ModelsInv, Named, NEW data \in Seq(RowSet)
  PROVE  /\ Keys(data) \in Seq(ElementIds \cup {NoId}) /\ Len(Keys(data)) = Len(data)
         /\ RowsThere(data) => \A p \in 1..Len(Keys(data)) : Keys(data)[p] # NoId
<1>1. apps \in Seq(App)
  BY DEF ModelsInv
<1>2. App \subseteq ElementIds /\ NoId \notin App
  BY IdsDiffer DEF ElementIds
<1>3. \A j \in 1..Len(apps) : apps[j] \in App
  BY <1>1
<1>4. ASSUME NEW e PROVE ElementId(e) \in ElementIds \cup {NoId}
  <2>1. CASE e.model = "active"
    BY <2>1, DesktopIdTyped DEF ElementId
  <2>2. CASE e.model # "active"
    BY <1>2, <1>3, <2>2 DEF ElementId
  <2> QED
    BY <2>1, <2>2
<1> DEFINE n == Len(data)
<1>5. n \in Nat /\ DOMAIN data = 1..n
  OBVIOUS
<1>6. Keys(data) = [p \in 1..n |-> ElementId(data[p])]
  BY <1>5 DEF Keys
<1> HIDE DEF n
<1>7. \A p \in 1..n : ElementId(data[p]) \in ElementIds \cup {NoId}
  BY <1>4
<1>8. Keys(data) \in [1..n -> ElementIds \cup {NoId}] /\ DOMAIN Keys(data) = 1..n
  BY <1>6, <1>7
<1>9. Keys(data) \in Seq(ElementIds \cup {NoId}) /\ Len(Keys(data)) = n
  BY <1>5, <1>8
<1>10. ASSUME NEW p \in 1..n,
              \/ data[p].model = "active" /\ data[p].row \in 1..Len(windows)
              \/ data[p].model = "apps" /\ data[p].row \in DOMAIN apps
       PROVE  Keys(data)[p] # NoId
  <2>1. Keys(data)[p] = ElementId(data[p])
    BY <1>6
  <2>2. CASE data[p].model = "active" /\ data[p].row \in 1..Len(windows)
    <3>1. DesktopId(data[p].row) # NoId
      BY <2>2, DesktopIdTyped
    <3> QED
      BY <2>1, <2>2, <3>1 DEF ElementId
  <2>3. CASE data[p].model = "apps" /\ data[p].row \in DOMAIN apps
    <3>1. data[p].row \in 1..Len(apps)
      BY <1>1, <2>3
    <3> QED
      BY <1>2, <1>3, <2>1, <2>3, <3>1 DEF ElementId
  <2> QED
    BY <1>10, <2>2, <2>3
<1> QED
  BY <1>5, <1>9, <1>10 DEF n, RowsThere

\* rebuildTreeSource lists every entry whose row is there, once.
LEMMA RebuiltFacts ==
  ASSUME ModelsInv, Named, NEW data \in Seq(RowSet)
  PROVE  /\ GroupsOver(Rebuilt(Keys(data), NoId), 1..Len(data))
         /\ RowsThere(data) => ListsAll(Rebuilt(Keys(data), NoId), 1..Len(data))
<1> DEFINE keys == Keys(data)
           G == RowsInserted(<<>>, 1, keys, NoId)
<1>1. keys \in Seq(ElementIds \cup {NoId}) /\ Len(keys) = Len(data) /\ Len(data) \in Nat
  BY KeysFacts
<1>2. Rebuilt(keys, NoId) = G
  BY DEF Rebuilt
<1>3. GroupsOver(<<>>, 1..0) /\ ListsAll(<<>>, 1..0)
  BY DEF GroupsOver, ListsAll
<1> HIDE DEF keys
<1>4. 1 \in 1..0 + 1 /\ 0 \in Nat /\ 0 + Len(keys) = Len(data) /\ NoId \notin ElementIds
  BY <1>1, NoIdIsNone
<1>5. /\ GroupsOver(G, 1..0 + Len(keys))
      /\ ListsAll(<<>>, 1..0) /\ (\A i \in 1..Len(keys) : keys[i] # NoId) => ListsAll(G, 1..0 + Len(keys))
  <2> HIDE DEF G
  <2>1. \A H : GroupsOver(H, 1..0) =>
          /\ GroupsOver(RowsInserted(H, 1, keys, NoId), 1..0 + Len(keys))
          /\ ListsAll(H, 1..0) /\ (\A i \in 1..Len(keys) : keys[i] # NoId) =>
               ListsAll(RowsInserted(H, 1, keys, NoId), 1..0 + Len(keys))
    BY <1>1, <1>4, RowsInsertedFacts
  <2> QED
    BY <1>3, <2>1, Zenon DEF G
<1> HIDE DEF G
<1>6. RowsThere(data) => \A p \in 1..Len(keys) : keys[p] # NoId
  BY KeysFacts, Zenon DEF keys
<1>7. GroupsOver(G, 1..Len(data))
  BY <1>4, <1>5
<1>8. (\A i \in 1..Len(keys) : keys[i] # NoId) => ListsAll(G, 1..Len(data))
  BY <1>3, <1>4, <1>5
<1> QED
  BY <1>2, <1>6, <1>7, <1>8, Zenon DEF keys

-----------------------------------------------------------------------------
(* A handler of the list.                                                  *)

\* What is queued for a child that reports a change.
LEMMA ChildChangesFacts ==
  ASSUME NEW R, NEW G, GroupsOver(G, R), NEW data, NEW row
  PROVE  ChildChanges(data, G, row) \in Seq(ChildCall)
<1> DEFINE P == {q \in Places(G, row) : G[q[1]].key = ElementId(data[row])}
<1>1. P \in SUBSET Places(G, row)
  OBVIOUS
<1>2. ChildChanges(data, G, row) = SetToSeq({Event("childChanged", p[1], p[2]) : p \in P})
  BY DEF ChildChanges
<1> HIDE DEF P
<1> QED
  BY <1>1, <1>2, ChildCalls

\* A handler of the list leaves its update, groups in step with it and calls of
\* the group model behind those that are queued.
LEMMA ApplyFacts ==
  ASSUME m_data \in Seq(RowSet), GroupsFit(windowSplit, groups, Len(m_data)), windowSplit \in BOOLEAN,
         NEW u, UpdateFits(u, Len(m_data)), NEW rest, Apply(u, rest), rest \in Seq(CallSet)
  PROVE  /\ m_data' = u.data /\ u.data \in Seq(RowSet)
         /\ \E extra \in Seq(ChildCall) : queue' = rest \o extra
         /\ GroupsFit(windowSplit, groups', Len(u.data))
         /\ ~windowSplit /\ ListsAll(groups, 1..Len(m_data)) => ListsAll(groups', 1..Len(u.data))
<1> DEFINE n == Len(m_data)
           m == Len(u.data)
           f == FoldLeft(Followed, [groups |-> groups, posted |-> <<>>], u.ops)
           changes == IF u.changed = {} THEN <<>>
                      ELSE ChildChanges(u.data, f.groups, CHOOSE p \in u.changed : TRUE)
<1>1. /\ m_data' = u.data
      /\ windowSplit => groups' = groups /\ queue' = rest
      /\ ~windowSplit => groups' = f.groups /\ queue' = rest \o f.posted \o changes
  BY DEF Apply
<1>2. u.data \in Seq(RowSet) /\ u.ops \in Seq(OpSet) /\ OpsFit(u.ops, n, m)
  BY DEF UpdateFits
<1>3. n \in Nat /\ m \in Nat
  BY <1>2
<1> HIDE DEF n, m
<1>4. CASE windowSplit
  <2>1. <<>> \in Seq(ChildCall) /\ queue' = rest \o <<>>
    BY <1>1, <1>4
  <2>2. \E extra \in Seq(ChildCall) : queue' = rest \o extra
    BY <2>1, Zenon
  <2>3. GroupsFit(windowSplit, groups', Len(u.data))
    BY <1>1, <1>4 DEF GroupsFit
  <2> QED
    BY <1>1, <1>2, <1>4, <2>2, <2>3
<1>5. CASE ~windowSplit
  <2>1. GroupsOver(groups, 1..n)
    BY <1>5 DEF GroupsFit, n
  <2>f. f = FoldLeft(Followed, [groups |-> groups, posted |-> <<>>], u.ops)
    OBVIOUS
  <2>c. changes = IF u.changed = {} THEN <<>>
                  ELSE ChildChanges(u.data, f.groups, CHOOSE p \in u.changed : TRUE)
    OBVIOUS
  <2> HIDE DEF f, changes
  <2>2. /\ GroupsOver(f.groups, 1..m) /\ f.posted \in Seq(ChildCall)
        /\ ListsAll(groups, 1..n) => ListsAll(f.groups, 1..m)
    BY <1>2, <1>3, <2>1, <2>f, FollowedFacts
  <2>3. changes \in Seq(ChildCall)
    <3>1. \A row : ChildChanges(u.data, f.groups, row) \in Seq(ChildCall)
      BY <2>2, ChildChangesFacts
    <3>2. <<>> \in Seq(ChildCall)
      OBVIOUS
    <3> QED
      BY <2>c, <3>1, <3>2, Zenon
  <2>4. f.posted \o changes \in Seq(ChildCall)
    BY <2>2, <2>3
  <2>5. rest \o f.posted \o changes = rest \o (f.posted \o changes)
    <3> DEFINE S == CallSet
               a == f.posted
    <3>1. ChildCall \subseteq S
      BY ChildrenCalled
    <3>2. \A s : s \in Seq(ChildCall) => s \in Seq(S)
      BY <3>1
    <3>3. a \in Seq(S) /\ changes \in Seq(S) /\ rest \in Seq(S)
      BY <2>2, <2>3, <3>2
    <3> HIDE DEF S, a
    <3>4. (rest \o a) \o changes = rest \o (a \o changes)
      BY <3>3, RowsAssociate
    <3> QED
      BY <3>4 DEF a
  <2>6. \E extra \in Seq(ChildCall) : queue' = rest \o extra
    BY <1>1, <1>5, <2>4, <2>5, Zenon
  <2>7. GroupsFit(windowSplit, groups', Len(u.data))
    BY <1>1, <1>5, <2>2 DEF GroupsFit, m
  <2>8. ListsAll(groups, 1..n) => ListsAll(groups', 1..m)
    BY <1>1, <1>5, <2>2
  <2> QED
    BY <1>1, <1>2, <2>6, <2>7, <2>8 DEF n, m
<1> QED
  BY <1>4, <1>5

-----------------------------------------------------------------------------
(* What windows, applications and the user queue.                          *)

\* The calls for the windows that lose their application.
Lost(i) == [k \in 1..Cardinality(BoundTo(i)) |->
              Event("activeChanged", Ascending(BoundTo(i))[k], "identity")]

\* They are changes of identity.
LEMMA LostCalls ==
  ASSUME ModelsInv, BindingsFollow, NEW i
  PROVE  /\ Lost(i) \in Seq(CallSet)
         /\ \A k \in 1..Len(Lost(i)) : Lost(i)[k].on = "activeChanged"
<1> DEFINE I == BoundTo(i)
           N == Cardinality(I)
           n == Len(windows)
<1>1. n \in Nat
  BY DEF ModelsInv
<1>2. I \in SUBSET (1..n)
  BY DEF BindingsFollow, BoundTo
<1>l. Lost(i) = [k \in 1..N |-> Event("activeChanged", Ascending(I)[k], "identity")]
  BY DEF Lost
<1> HIDE DEF I, n
<1>3. N \in Nat /\ Ascending(I) \in [1..N -> I]
  BY <1>1, <1>2, AscendingFacts
<1> HIDE DEF N
<1>4. ASSUME NEW k \in 1..N
      PROVE  Event("activeChanged", Ascending(I)[k], "identity") \in CallSet
  <2> DEFINE r == Ascending(I)[k]
  <2>1. r \in I
    BY <1>3
  <2> HIDE DEF r
  <2>2. r \in Nat \ {0}
    BY <1>1, <1>2, <2>1
  <2>3. Event("activeChanged", r, "identity") \in CallSet
    BY <2>2, RowCalled
  <2> QED
    BY <2>3 DEF r
<1>5. Lost(i) \in [1..N -> CallSet]
  BY <1>4, <1>l
<1>6. Lost(i) \in Seq(CallSet) /\ Len(Lost(i)) = N
  <2>1. \A c \in Nat : \A f \in [1..c -> CallSet] : f \in Seq(CallSet) /\ Len(f) = c
    OBVIOUS
  <2> QED
    BY <1>3, <1>5, <2>1
<1>7. \A k \in 1..N : Lost(i)[k].on = "activeChanged"
  <2>1. \A r : Event("activeChanged", r, "identity").on = "activeChanged"
    BY EventFields
  <2> QED
    BY <1>l, <2>1
<1> QED
  BY <1>6, <1>7

\* What each of their steps queues.
Posts(events) == queue' = queue \o events

\* A step of the sources queues calls and touches neither list nor groups.
LEMMA SourcePosts ==
  ASSUME ModelsInv, BindingsFollow, SourceStep
  PROVE  /\ UNCHANGED <<globalVars, groups, m_currentActiveWindow>>
         /\ \E events \in Seq(CallSet) : Posts(events) \/ UNCHANGED queue
<1>0. /\ windows \in Seq(Window) /\ apps \in Seq(App)
      /\ Len(windows) \in Nat /\ DOMAIN windows = 1..Len(windows)
      /\ Len(apps) \in Nat /\ DOMAIN apps = 1..Len(apps)
  BY DEF ModelsInv
<1>s. \A e \in CallSet : <<e>> \in Seq(CallSet)
  OBVIOUS
<1>1. ASSUME NEW w \in Window, NEW id \in App \cup Stranger, OpenWindow(w, id)
      PROVE  \E events \in Seq(CallSet) : Posts(events)
  <2>1. windows' = Append(windows, w) /\ Posts(<<Event("activeInserted", Len(windows'), "")>>)
    BY <1>1 DEF OpenWindow, Post, Posts
  <2>2. Len(windows') \in Nat \ {0}
    <3>1. Len(windows') = Len(windows) + 1
      BY <1>0, <2>1, AppendRow
    <3> QED
      BY <1>0, <3>1
  <2>3. Event("activeInserted", Len(windows'), "") \in CallSet
    BY <2>2, RowCalled
  <2> QED
    BY <1>s, <2>1, <2>3, Zenon
<1>2. ASSUME NEW i \in DOMAIN windows, CloseWindow(i)
      PROVE  \E events \in Seq(CallSet) : Posts(events)
  <2>1. Posts(<<Event("activeRemoved", i, "")>>)
    BY <1>2 DEF CloseWindow, Post, Posts
  <2>2. Event("activeRemoved", i, "") \in CallSet
    <3>1. i \in Nat \ {0}
      BY <1>0
    <3> QED
      BY <3>1, RowCalled
  <2> QED
    BY <1>s, <2>1, <2>2, Zenon
<1>3. ASSUME NEW i \in DOMAIN windows, NEW id \in App \cup Stranger, ChangeIdentity(i, id)
      PROVE  \E events \in Seq(CallSet) : Posts(events)
  <2>1. Posts(<<Event("activeChanged", i, "identity")>>)
    BY <1>3 DEF ChangeIdentity, Post, Posts
  <2>2. Event("activeChanged", i, "identity") \in CallSet
    <3>1. i \in Nat \ {0}
      BY <1>0
    <3> QED
      BY <3>1, RowCalled
  <2> QED
    BY <1>s, <2>1, <2>2, Zenon
<1>4. ASSUME NEW i \in DOMAIN windows, ChangeState(i)
      PROVE  \E events \in Seq(CallSet) : Posts(events)
  <2>1. Posts(<<Event("activeChanged", i, "state")>>)
    BY <1>4 DEF ChangeState, Post, Posts
  <2>2. Event("activeChanged", i, "state") \in CallSet
    <3>1. i \in Nat \ {0}
      BY <1>0
    <3> QED
      BY <3>1, RowCalled
  <2> QED
    BY <1>s, <2>1, <2>2, Zenon
<1>5. ASSUME NEW app \in App, Install(app)
      PROVE  \E events \in Seq(CallSet) : UNCHANGED queue
  <2>1. <<>> \in Seq(CallSet) /\ UNCHANGED queue
    BY <1>5 DEF Install
  <2> QED
    BY <2>1
<1>6. ASSUME NEW i \in DOMAIN apps, Uninstall(i)
      PROVE  \E events \in Seq(CallSet) : Posts(events)
  <2>1. Posts(Lost(i) \o <<Event("appsRemoved", i, "")>>)
    BY <1>6 DEF Uninstall, Post, Posts, Lost
  <2>2. Event("appsRemoved", i, "") \in CallSet
    <3>1. i \in Nat \ {0}
      BY <1>0
    <3> QED
      BY <3>1, RowCalled
  <2>3. Lost(i) \in Seq(CallSet) /\ <<Event("appsRemoved", i, "")>> \in Seq(CallSet)
    BY <1>s, <2>2, LostCalls
  <2>4. Lost(i) \o <<Event("appsRemoved", i, "")>> \in Seq(CallSet)
    BY <2>3, QueueGrows
  <2> QED
    BY <2>1, <2>4, Zenon
<1>7. UNCHANGED <<globalVars, groups, m_currentActiveWindow>>
  BY DEF SourceStep, OpenWindow, CloseWindow, ChangeIdentity, ChangeState, Install, Uninstall, Unlisted
<1> QED
  BY <1>1, <1>2, <1>3, <1>4, <1>5, <1>6, <1>7 DEF SourceStep

-----------------------------------------------------------------------------
(* The steps of the list.                                                  *)

\* A row of Update, with the queue that the handler leaves.
LEMMA AppliedKeeps ==
  ASSUME ListInv, NEW u, UpdateFits(u, Len(m_data)), NEW rest, Apply(u, rest), rest \in Seq(CallSet),
         Together(m_data) => Together(u.data),
         m_dockedElements' \in Seq(App), dockedElements' \in Seq(ElementIds), windowSplit' = windowSplit,
         m_currentActiveWindow' = m_currentActiveWindow
  PROVE  ListInv'
<1>1. /\ m_data \in Seq(RowSet) /\ GroupsFit(windowSplit, groups, Len(m_data)) /\ windowSplit \in BOOLEAN
      /\ (~windowSplit => Together(m_data))
      /\ \A g \in DOMAIN m_currentActiveWindow : m_currentActiveWindow[g] \in Nat
  BY DEF ListInv
<1>2. /\ m_data' = u.data /\ u.data \in Seq(RowSet)
      /\ \E extra \in Seq(ChildCall) : queue' = rest \o extra
      /\ GroupsFit(windowSplit, groups', Len(u.data))
  BY <1>1, ApplyFacts
<1>3. PICK extra \in Seq(ChildCall) : queue' = rest \o extra
  BY <1>2
<1>4. queue' \in Seq(CallSet)
  <2>1. extra \in Seq(CallSet)
    BY ChildrenCalled
  <2> QED
    BY <1>3, <2>1, QueueGrows
<1>5. ~windowSplit' => Together(m_data')
  BY <1>1, <1>2
<1>6. GroupsFit(windowSplit', groups', Len(m_data'))
  BY <1>2
<1> QED
  BY <1>1, <1>2, <1>4, <1>5, <1>6 DEF ListInv

\* A list without one of its elements.
LEMMA WithoutTyped ==
  ASSUME NEW S, NEW s \in Seq(S), NEW x
  PROVE  /\ Without(s, x) \in Seq(S)
         /\ \A y : y \in ToSet(Without(s, x)) <=> y \in ToSet(s) /\ y # x
<1> DEFINE I == {i \in DOMAIN s : s[i] # x}
           N == Cardinality(I)
           t == RowsAt(s, I)
<1>1. I \in SUBSET DOMAIN s /\ \A i \in DOMAIN s : i \in I <=> s[i] # x
  OBVIOUS
<1>w. Without(s, x) = t
  BY DEF Without
<1> HIDE DEF I
<1>2. /\ Len(t) = N /\ N \in Nat /\ t \in Seq(S)
      /\ Ascending(I) \in [1..N -> I]
      /\ \A i \in I : \E k \in 1..N : Ascending(I)[k] = i
      /\ \A k \in 1..N : t[k] = s[Ascending(I)[k]]
  BY <1>1, RowsAtFacts
<1> HIDE DEF t, N
<1>3. DOMAIN t = 1..N
  BY <1>2
<1>4. ASSUME NEW y, y \in ToSet(t) PROVE y \in ToSet(s) /\ y # x
  <2>1. PICK k \in 1..N : y = t[k]
    BY <1>3, <1>4 DEF ToSet
  <2>2. PICK i \in I : Ascending(I)[k] = i
    BY <1>2
  <2>3. y = s[i] /\ i \in DOMAIN s /\ s[i] # x
    BY <1>1, <1>2, <2>1, <2>2
  <2> QED
    BY <2>3 DEF ToSet
<1>5. ASSUME NEW y, y \in ToSet(s), y # x PROVE y \in ToSet(t)
  <2>1. PICK i \in DOMAIN s : y = s[i]
    BY <1>5 DEF ToSet
  <2>2. i \in I
    BY <1>1, <1>5, <2>1
  <2>3. PICK k \in 1..N : Ascending(I)[k] = i
    BY <1>2, <2>2
  <2>4. t[k] = y /\ k \in DOMAIN t
    BY <1>2, <1>3, <2>1, <2>3
  <2> QED
    BY <2>4 DEF ToSet
<1> QED
  BY <1>2, <1>4, <1>5, <1>w

\* What sets the docked elements anew.
DockStep ==
  \/ \E id \in IdsOf(m_data) : ToggleDocked(id)
  \/ \E elements \in AppLists : SetDockedElements(elements)
  \/ \E ids \in Lists(DockedIds, Len(dockedElements)) :
       ToSet(ids) = DockedIds /\ SaveDockElementsOrder(ids)
  \/ InitDockedElements

\* A list without repetitions is a sequence.
LEMMA ListTyped ==
  ASSUME NEW S, NEW n, NEW s \in Lists(S, n)
  PROVE  s \in Seq(S)
<1>1. PICK k \in 0..n : s \in [1..k -> S]
  BY DEF Lists
<1>2. k \in Nat
  BY <1>1
<1> QED
  BY <1>1, <1>2

\* Whoever does it, the docked elements become ids of entries.
LEMMA DockStepSets ==
  ASSUME dockedElements \in Seq(ElementIds), m_data \in Seq(RowSet), DockStep
  PROVE  \E elements \in Seq(ElementIds) : SetDockedElements(elements)
<1>0. IdsOf(m_data) \subseteq ElementIds
  BY RowFields DEF IdsOf
<1>1. ASSUME NEW id \in IdsOf(m_data), ToggleDocked(id)
      PROVE  \E elements \in Seq(ElementIds) : SetDockedElements(elements)
  <2> DEFINE elements == IF id \in ToSet(dockedElements) THEN Without(dockedElements, id)
                         ELSE Append(dockedElements, id)
  <2>1. SetDockedElements(elements)
    BY <1>1 DEF ToggleDocked
  <2>2. id \in ElementIds
    BY <1>0
  <2>3. Without(dockedElements, id) \in Seq(ElementIds)
    BY WithoutTyped
  <2>4. Append(dockedElements, id) \in Seq(ElementIds)
    BY <2>2
  <2>5. elements \in Seq(ElementIds)
    BY <2>3, <2>4
  <2> QED
    BY <2>1, <2>5
<1>2. ASSUME NEW elements \in AppLists, SetDockedElements(elements)
      PROVE  elements \in Seq(ElementIds)
  <2>1. elements \in Seq(App)
    BY ListTyped DEF AppLists
  <2>2. App \subseteq ElementIds
    BY DEF ElementIds
  <2> QED
    BY <2>1, <2>2
<1>3. ASSUME NEW ids \in Lists(DockedIds, Len(dockedElements)), SaveDockElementsOrder(ids)
      PROVE  \E elements \in Seq(ElementIds) : SetDockedElements(elements)
  <2> DEFINE I == {i \in DOMAIN ids : ids[i] \in ToSet(dockedElements)}
             elements == RowsAt(ids, I)
  <2>1. ids \in Seq(IdsOf(m_data))
    BY ListTyped DEF DockedIds
  <2>2. ids \in Seq(ElementIds) /\ I \in SUBSET DOMAIN ids
    BY <1>0, <2>1
  <2>3. SetDockedElements(elements)
    BY <1>3 DEF SaveDockElementsOrder
  <2> HIDE DEF I
  <2>4. elements \in Seq(ElementIds)
    BY <2>2, RowsAtFacts
  <2> QED
    BY <2>3, <2>4
<1>4. CASE InitDockedElements
  BY <1>4 DEF InitDockedElements
<1> QED
  BY <1>1, <1>2, <1>3, <1>4 DEF DockStep

\* loadDockedElements, whoever asked for it.
LEMMA LoadedKeeps ==
  ASSUME ModelsInv, ListInv, NEW elements \in Seq(ElementIds), NEW rest \in Seq(CallSet),
         LoadElements(elements, rest), dockedElements' \in Seq(ElementIds), windowSplit' = windowSplit,
         m_currentActiveWindow' = m_currentActiveWindow
  PROVE  ListInv'
<1>1. apps \in Seq(App) /\ m_data \in Seq(RowSet) /\ m_dockedElements \in Seq(App)
  BY DEF ModelsInv, ListInv
<1>2. Apply(Load(elements), rest) /\ m_dockedElements' = Installed(elements)
  BY DEF LoadElements
<1> DEFINE u == Load(elements)
<1>3. u = Load(elements)
  OBVIOUS
<1> HIDE DEF u
<1>4. UpdateFits(u, Len(m_data)) /\ Refreshes(u.data, m_data)
  BY <1>1, <1>3, LoadFacts
<1>5. Installed(elements) \in Seq(App)
  BY <1>1, InstalledFacts
<1>6. Together(m_data) => Together(u.data)
  BY <1>4 DEF Refreshes
<1> QED
  BY <1>2, <1>3, <1>4, <1>5, <1>6, AppliedKeeps

\* The queued handlers of rows.
LEMMA RowHandledKeeps ==
  ASSUME ModelsInv, Named, ListInv, NEW e \in CallSet, e.on \in RowCalls,
         NEW rest \in Seq(CallSet), RowHandled(e, rest),
         dockedElements' = dockedElements, windowSplit' = windowSplit
  PROVE  ListInv'
<1>1. apps \in Seq(App) /\ m_data \in Seq(RowSet) /\ m_dockedElements \in Seq(App) /\ dockedElements \in Seq(ElementIds)
  BY DEF ModelsInv, ListInv
<1>2. e.row \in Nat \ {0}
  BY CallFields
<1>3. m_dockedElements' \in Seq(App) /\ dockedElements' \in Seq(ElementIds) /\ m_currentActiveWindow' = m_currentActiveWindow
  BY <1>1 DEF RowHandled
<1>4. CASE e.on = "activeInserted"
  <2> DEFINE u == ActiveInserted(e.row)
  <2>1. Apply(u, rest)
    BY <1>4 DEF RowHandled
  <2>2. u = ActiveInserted(e.row)
    OBVIOUS
  <2> HIDE DEF u
  <2>3. DesktopId(e.row) \in ElementIds \cup {NoId}
    BY DesktopIdTyped
  <2>4. UpdateFits(u, Len(m_data)) /\ (Together(m_data) => Together(u.data))
    BY <1>1, <1>2, <2>2, <2>3, ActiveInsertedFacts
  <2> QED
    BY <1>3, <2>1, <2>4, AppliedKeeps
<1>5. CASE e.on = "activeRemoved"
  <2> DEFINE u == ActiveRemoved(e.row)
  <2>1. Apply(u, rest)
    BY <1>5 DEF RowHandled
  <2>2. u = ActiveRemoved(e.row)
    OBVIOUS
  <2> HIDE DEF u
  <2>4. UpdateFits(u, Len(m_data)) /\ (Together(m_data) => Together(u.data))
    BY <1>1, <1>2, <2>2, ActiveRemovedFacts
  <2> QED
    BY <1>3, <2>1, <2>4, AppliedKeeps
<1>6. CASE e.on = "appsRemoved"
  <2> DEFINE u == AppsRemoved(e.row)
  <2>1. Apply(u, rest)
    BY <1>6 DEF RowHandled
  <2>2. u = AppsRemoved(e.row)
    OBVIOUS
  <2> HIDE DEF u
  <2>4. UpdateFits(u, Len(m_data)) /\ (Together(m_data) => Together(u.data))
    BY <1>1, <1>2, <2>2, AppsRemovedFacts
  <2> QED
    BY <1>3, <2>1, <2>4, AppliedKeeps
<1> QED
  BY <1>4, <1>5, <1>6 DEF RowCalls

\* What a change of identity or of state leaves.
LEMMA ChangeHandledFacts ==
  ASSUME ModelsInv, Named, ListInv, NEW e \in CallSet, e.on = "activeChanged",
         NEW rest \in Seq(CallSet), ChangeHandled(e, rest)
  PROVE  /\ UNCHANGED <<m_data, m_dockedElements, m_currentActiveWindow>>
         /\ \E extra \in Seq(ChildCall) : queue' = rest \o extra
         /\ GroupsFit(windowSplit, groups', Len(m_data))
         /\ \/ groups' = groups /\ misgrouped' = misgrouped
            \/ groups' = Rebuilt(Keys(m_data), NoId) /\ misgrouped' = RemovalIn(rest) /\ queue' = rest
<1> DEFINE pos == Find(m_data, "active", e.row)
           more == ChildChanges(m_data, groups, pos)
<1>1. m_data \in Seq(RowSet) /\ GroupsFit(windowSplit, groups, Len(m_data)) /\ windowSplit \in BOOLEAN
  BY DEF ListInv
<1>2. e.what \in {"identity", "state"}
  BY CallFields
<1>3. /\ UNCHANGED <<m_data, m_dockedElements, m_currentActiveWindow>>
      /\ \/ /\ groups' = groups /\ queue' = rest /\ misgrouped' = misgrouped
         \/ /\ ~windowSplit
            /\ groups' = Rebuilt(Keys(m_data), NoId) /\ queue' = rest /\ misgrouped' = RemovalIn(rest)
         \/ /\ ~windowSplit
            /\ groups' = groups /\ queue' = rest \o more /\ misgrouped' = misgrouped
  BY <1>2 DEF ChangeHandled
<1>r. rest = rest \o <<>> /\ <<>> \in Seq(ChildCall)
  OBVIOUS
<1> HIDE DEF more
<1>4. CASE groups' = groups /\ queue' = rest /\ misgrouped' = misgrouped
  <2>1. \E extra \in Seq(ChildCall) : queue' = rest \o extra
    BY <1>4, <1>r, Zenon
  <2> QED
    BY <1>1, <1>3, <1>4, <2>1
<1>5. CASE ~windowSplit /\ groups' = Rebuilt(Keys(m_data), NoId) /\ queue' = rest /\ misgrouped' = RemovalIn(rest)
  <2>1. \E extra \in Seq(ChildCall) : queue' = rest \o extra
    BY <1>5, <1>r, Zenon
  <2>2. GroupsOver(Rebuilt(Keys(m_data), NoId), 1..Len(m_data))
    BY <1>1, RebuiltFacts
  <2>3. GroupsFit(windowSplit, groups', Len(m_data))
    BY <1>5, <2>2 DEF GroupsFit
  <2> QED
    BY <1>3, <1>5, <2>1, <2>3
<1>6. CASE ~windowSplit /\ groups' = groups /\ queue' = rest \o more /\ misgrouped' = misgrouped
  <2>1. GroupsOver(groups, 1..Len(m_data))
    BY <1>1, <1>6 DEF GroupsFit
  <2>2. more \in Seq(ChildCall)
    BY <2>1, ChildChangesFacts DEF more
  <2>3. \E extra \in Seq(ChildCall) : queue' = rest \o extra
    BY <1>6, <2>2, Zenon
  <2> QED
    BY <1>1, <1>3, <1>6, <2>3
<1> QED
  BY <1>3, <1>4, <1>5, <1>6

\* What happened to the children of the groups.
LEMMA ChildHandledKeeps ==
  ASSUME ListInv, NEW e \in CallSet, OfGroups(e), NEW rest \in Seq(CallSet), ChildHandled(e, rest),
         dockedElements' = dockedElements, windowSplit' = windowSplit
  PROVE  ListInv'
<1> DEFINE g == e.row
           current == m_currentActiveWindow[g]
           old == m_currentActiveWindow
           new == m_currentActiveWindow'
<1>1. e.what \in Nat
  BY CallFields
<1>2. \A h \in DOMAIN old : old[h] \in Nat
  BY DEF ListInv
<1>3. /\ queue' = rest /\ UNCHANGED <<m_data, m_dockedElements, groups, misgrouped>>
      /\ \/ new = old
         \/ new = Assign(g, e.what)
         \/ g \in DOMAIN old /\ current > e.what /\ new = Assign(g, current - 1)
         \/ new = Assign(g, 1)
         \/ new = [h \in DOMAIN old \ {g} |-> old[h]]
  BY DEF ChildHandled
<1>4. ASSUME NEW x \in Nat PROVE \A h \in DOMAIN Assign(g, x) : Assign(g, x)[h] \in Nat
  BY <1>2 DEF Assign
<1>5. \A h \in DOMAIN new : new[h] \in Nat
  <2>1. CASE new = old
    BY <1>2, <2>1
  <2>2. CASE new = Assign(g, e.what)
    BY <1>1, <1>4, <2>2
  <2>3. CASE g \in DOMAIN old /\ current > e.what /\ new = Assign(g, current - 1)
    <3>1. current \in Nat
      BY <1>2, <2>3
    <3>2. current - 1 \in Nat
      BY <1>1, <2>3, <3>1
    <3> QED
      BY <1>4, <2>3, <3>2
  <2>4. CASE new = Assign(g, 1)
    BY <1>4, <2>4
  <2>5. CASE new = [h \in DOMAIN old \ {g} |-> old[h]]
    BY <1>2, <2>5
  <2> QED
    BY <1>3, <2>1, <2>2, <2>3, <2>4, <2>5
<1> QED
  BY <1>3, <1>5 DEF ListInv

\* groupItemsByApp and the groups built anew.
LEMMA SplitKeeps ==
  ASSUME ModelsInv, Named, ListInv, SetWindowSplit
  PROVE  /\ ListInv'
         /\ m_data' = m_data \/ (Together(m_data') /\ \E f : Rearranges(m_data', m_data, f))
<1>1. /\ m_data \in Seq(RowSet) /\ queue \in Seq(CallSet) /\ windowSplit \in BOOLEAN
      /\ m_dockedElements \in Seq(App) /\ dockedElements \in Seq(ElementIds)
  BY DEF ListInv
<1> DEFINE K == {k \in DOMAIN queue : ~OfGroups(queue[k])}
<1>2. /\ windowSplit' = ~windowSplit
      /\ m_data' = IF windowSplit THEN GroupedByApp(m_data) ELSE m_data
      /\ groups' = IF windowSplit THEN Rebuilt(Keys(m_data'), NoId) ELSE <<>>
      /\ m_currentActiveWindow' = << >> /\ queue' = RowsAt(queue, K)
      /\ UNCHANGED <<combineVars, m_dockedElements, dockedElements>>
  BY DEF SetWindowSplit
<1>3. queue' \in Seq(CallSet)
  <2>1. K \in SUBSET DOMAIN queue
    OBVIOUS
  <2> HIDE DEF K
  <2> QED
    BY <1>1, <1>2, <2>1, RowsAtFacts
<1>4. \A g \in DOMAIN m_currentActiveWindow' : m_currentActiveWindow'[g] \in Nat
  <2>1. DOMAIN m_currentActiveWindow' = {}
    BY <1>2
  <2> QED
    BY <2>1
<1>5. CASE ~windowSplit
  <2>1. GroupsFit(windowSplit', groups', Len(m_data'))
    BY <1>2, <1>5 DEF GroupsFit
  <2> QED
    BY <1>1, <1>2, <1>3, <1>4, <1>5, <2>1 DEF ListInv
<1>6. CASE windowSplit
  <2> DEFINE data == GroupedByApp(m_data)
  <2>1. m_data' = data
    BY <1>2, <1>6
  <2>2. data \in Seq(RowSet) /\ Together(data) /\ \E f : Rearranges(data, m_data, f)
    <3>1. data = GroupedByApp(m_data)
      OBVIOUS
    <3> HIDE DEF data
    <3> QED
      BY <1>1, <3>1, GroupedFacts
  <2> HIDE DEF data
  <2>3. Keys(m_data') = Keys(data)
    BY <2>1
  <2>4. GroupsOver(Rebuilt(Keys(data), NoId), 1..Len(data))
    BY <2>2, RebuiltFacts
  <2>5. GroupsFit(windowSplit', groups', Len(m_data'))
    BY <1>2, <1>6, <2>1, <2>3, <2>4 DEF GroupsFit
  <2> QED
    BY <1>1, <1>2, <1>3, <1>4, <1>6, <2>1, <2>2, <2>5 DEF ListInv
<1> QED
  BY <1>1, <1>5, <1>6

\* moveItem.
LEMMA MoveKeeps ==
  ASSUME ListInv, NEW from \in DOMAIN m_data, NEW to \in DOMAIN m_data, MoveItem(from, to)
  PROVE  /\ ListInv'
         /\ \E f : Rearranges(m_data', m_data, f)
<1>1. m_data \in Seq(RowSet)
  BY DEF ListInv
<1>2. /\ m_data' = Moved(m_data, from, to) /\ windowSplit
      /\ UNCHANGED <<m_dockedElements, dockedElements, windowSplit, groups, m_currentActiveWindow, queue>>
  BY DEF MoveItem
<1>3. m_data' \in Seq(RowSet) /\ \E f : Rearranges(m_data', m_data, f)
  BY <1>1, <1>2, MovedFacts
<1> QED
  BY <1>2, <1>3 DEF ListInv, GroupsFit

\* The next queued call.
LEMMA HandledKeeps ==
  ASSUME ModelsInv, Named, ListInv, HandleEvent
  PROVE  ListInv'
<1> DEFINE e == Head(queue)
           rest == Tail(queue)
<1>1. queue \in Seq(CallSet) /\ queue # <<>>
  BY DEF HandleEvent, ListInv
<1>2. e \in CallSet /\ rest \in Seq(CallSet)
  BY <1>1
<1>3. /\ \/ e.on \in RowCalls /\ RowHandled(e, rest)
         \/ e.on = "activeChanged" /\ ChangeHandled(e, rest)
         \/ e.on = "load" /\ LoadElements(dockedElements, rest) /\ UNCHANGED <<m_currentActiveWindow, misgrouped>>
         \/ OfGroups(e) /\ ChildHandled(e, rest)
      /\ dockedElements' = dockedElements /\ windowSplit' = windowSplit
  BY DEF HandleEvent, RowCalls
<1> HIDE DEF e, rest
<1>4. CASE e.on \in RowCalls /\ RowHandled(e, rest)
  BY <1>2, <1>3, <1>4, RowHandledKeeps
<1>5. CASE e.on = "activeChanged" /\ ChangeHandled(e, rest)
  <2>1. /\ UNCHANGED <<m_data, m_dockedElements, m_currentActiveWindow>>
        /\ \E extra \in Seq(ChildCall) : queue' = rest \o extra
        /\ GroupsFit(windowSplit, groups', Len(m_data))
    BY <1>2, <1>5, ChangeHandledFacts
  <2>2. PICK extra \in Seq(ChildCall) : queue' = rest \o extra
    BY <2>1
  <2>3. extra \in Seq(CallSet)
    BY ChildrenCalled
  <2>4. queue' \in Seq(CallSet)
    BY <1>2, <2>2, <2>3, QueueGrows
  <2> QED
    BY <1>3, <2>1, <2>4 DEF ListInv
<1>6. CASE e.on = "load" /\ LoadElements(dockedElements, rest) /\ UNCHANGED <<m_currentActiveWindow, misgrouped>>
  <2>1. dockedElements \in Seq(ElementIds) /\ dockedElements' \in Seq(ElementIds)
    BY <1>3 DEF ListInv
  <2> QED
    BY <1>2, <1>3, <1>6, <2>1, LoadedKeeps
<1>7. CASE OfGroups(e) /\ ChildHandled(e, rest)
  BY <1>2, <1>3, <1>7, ChildHandledKeeps
<1> QED
  BY <1>3, <1>4, <1>5, <1>6, <1>7

\* An empty list, and the first call queued.
LEMMA ListInit == Init => ListInv
<1> SUFFICES ASSUME Init PROVE ListInv
  OBVIOUS
<1>1. /\ m_data = <<>> /\ m_dockedElements = <<>> /\ windowSplit \in BOOLEAN /\ groups = <<>>
      /\ m_currentActiveWindow = << >> /\ queue = <<Event("load", 0, "")>>
      /\ dockedElements \in {<<>>} \cup {<<a>> : a \in App}
  BY DEF Init, GlobalInit
<1>0. \A S : <<>> \in Seq(S)
  OBVIOUS
<1>n. Len(<<>>) = 0 /\ DOMAIN << >> = {}
  OBVIOUS
<1>2. m_data \in Seq(RowSet) /\ m_dockedElements \in Seq(App)
  BY <1>0, <1>1, Zenon
<1>3. dockedElements \in Seq(ElementIds)
  <2>1. \A a \in App : a \in ElementIds
    BY DEF ElementIds
  <2>2. \A a \in ElementIds : <<a>> \in Seq(ElementIds)
    OBVIOUS
  <2>3. CASE dockedElements = <<>>
    BY <1>0, <2>3, Zenon
  <2>4. CASE dockedElements \in {<<a>> : a \in App}
    <3>1. PICK a \in App : dockedElements = <<a>>
      BY <2>4
    <3> QED
      BY <2>1, <2>2, <3>1, Zenon
  <2> QED
    BY <1>1, <2>3, <2>4
<1>4. queue \in Seq(CallSet)
  <2>1. \A x \in CallSet : <<x>> \in Seq(CallSet)
    OBVIOUS
  <2> QED
    BY <1>1, <2>1, LoadCalled, Zenon
<1>5. Len(m_data) = 0 /\ DOMAIN m_data = {} /\ DOMAIN m_currentActiveWindow = {}
  BY <1>1, <1>n, Zenon
<1>6. GroupsFit(windowSplit, groups, Len(m_data))
  <2>1. groups \in Seq(GroupSet) /\ DOMAIN groups = {}
    BY <1>0, <1>1, <1>n, Zenon
  <2>2. GroupsOver(groups, 1..Len(m_data))
    BY <2>1 DEF GroupsOver
  <2> QED
    BY <1>1, <2>2 DEF GroupsFit
<1>7. Together(m_data)
  BY <1>5 DEF Together
<1> QED
  BY <1>1, <1>2, <1>3, <1>4, <1>5, <1>6, <1>7 DEF ListInv

\* Every step keeps the list, its groups and the queue in order.
LEMMA ListStep == ModelsInv /\ BindingsFollow /\ Named /\ ListInv /\ [Next]_vars => ListInv'
<1> SUFFICES ASSUME ModelsInv, BindingsFollow, Named, ListInv, [Next]_vars PROVE ListInv'
  OBVIOUS
<1>1. CASE SourceStep
  <2>1. /\ UNCHANGED <<globalVars, groups, m_currentActiveWindow>>
        /\ \E events \in Seq(CallSet) : Posts(events) \/ UNCHANGED queue
    BY <1>1, SourcePosts
  <2>2. queue \in Seq(CallSet)
    BY DEF ListInv
  <2>3. queue' \in Seq(CallSet)
    BY <2>1, <2>2, QueueGrows DEF Posts
  <2> QED
    BY <2>1, <2>3 DEF ListInv, globalVars
<1>2. CASE DockStep
  <2>1. dockedElements \in Seq(ElementIds) /\ m_data \in Seq(RowSet) /\ queue \in Seq(CallSet)
    BY DEF ListInv
  <2>2. PICK elements \in Seq(ElementIds) : SetDockedElements(elements)
    BY <1>2, <2>1, DockStepSets
  <2>3. /\ LoadElements(elements, queue) /\ windowSplit' = windowSplit
        /\ m_currentActiveWindow' = m_currentActiveWindow /\ dockedElements' = elements
    BY <2>2 DEF SetDockedElements
  <2> QED
    BY <2>1, <2>2, <2>3, LoadedKeeps
<1>3. CASE SetWindowSplit
  BY <1>3, SplitKeeps
<1>4. ASSUME NEW from \in DOMAIN m_data, NEW to \in DOMAIN m_data, MoveItem(from, to) PROVE ListInv'
  BY <1>4, MoveKeeps
<1>5. CASE HandleEvent
  BY <1>5, HandledKeeps
<1>6. CASE UNCHANGED vars
  BY <1>6 DEF vars, globalVars, ListInv
<1> QED
  BY <1>1, <1>2, <1>3, <1>4, <1>5, <1>6 DEF Next, SourceStep, DockStep

-----------------------------------------------------------------------------
(* Type correctness, and the entries of an application in one piece.       *)

DockInv == ModelsInv /\ BindingsFollow /\ Named /\ ListInv

\* All of this holds throughout.
LEMMA DockAlways == Spec => []DockInv
<1>1. Init => DockInv
  BY ModelsInit, FollowInit, NamedInit, ListInit DEF DockInv
<1>2. DockInv /\ [Next]_vars => DockInv'
  BY ModelsStep, FollowStep, NamedStep, ListStep DEF DockInv
<1> QED
  BY <1>1, <1>2, PTL DEF Spec

\* Whatever windows, applications and the user do while calls are queued, every
\* handler finds rows, groups and calls of the kind it expects.
THEOREM TypeCorrect == Spec => []TypeOK
<1>1. DockInv => TypeOK
  <2> SUFFICES ASSUME DockInv PROVE TypeOK
    OBVIOUS
  <2>1. ModelsInv /\ ListInv
    BY DEF DockInv
  <2>2. groups \in Seq([key : ElementIds, rows : Seq(Nat)])
    <3>1. groups = <<>> \/ GroupsOver(groups, 1..Len(m_data))
      BY <2>1 DEF ListInv, GroupsFit
    <3>0. <<>> \in Seq(GroupSet)
      OBVIOUS
    <3>2. groups \in Seq(GroupSet)
      BY <3>0, <3>1, Zenon DEF GroupsOver
    <3> QED
      BY <3>2 DEF GroupSet
  <2>3. \A e \in ToSet(queue) : e.row \in Nat
    <3>1. queue \in Seq(CallSet)
      BY <2>1 DEF ListInv
    <3>2. \A e \in ToSet(queue) : e \in CallSet
      BY <3>1 DEF ToSet
    <3> QED
      BY <3>2, CallFields
  <2>4. m_data \in Seq([id : ElementIds, model : {"active", "apps"}, row : Nat])
    BY <2>1 DEF ListInv, RowSet
  <2> QED
    BY <2>1, <2>2, <2>3, <2>4 DEF TypeOK, ModelsInv, ListInv
<1> QED
  BY <1>1, DockAlways, PTL

\* Unless windows are shown apart, no handler of windows, applications or the
\* settings puts an entry between two of another application.
THEOREM WindowsStayTogether == Spec => []WindowsTogether
<1>1. DockInv => WindowsTogether
  BY DEF DockInv, ListInv, Together, WindowsTogether
<1> QED
  BY <1>1, DockAlways, PTL

-----------------------------------------------------------------------------
(* What the queued calls are about.                                        *)

\* The rows of the two models as a queued call sees them: how many windows, and
\* which applications.
View == [n : Nat, list : Seq(App)]

StepView(e, a, b) ==
  /\ e.on = "activeInserted" => e.row = a.n + 1 /\ b.n = a.n + 1
  /\ e.on = "activeRemoved" => e.row \in 1..a.n /\ b.n = a.n - 1
  /\ e.on \notin {"activeInserted", "activeRemoved"} => b.n = a.n
  /\ e.on = "appsRemoved" => e.row \in DOMAIN a.list /\ b.list = RemoveAt(a.list, e.row)
  /\ e.on # "appsRemoved" => b.list = a.list

\* v[k] is what the call at k is about; the last is what the models are now.
Views(q, v, end) ==
  /\ v \in [1..Len(q) + 1 -> View]
  /\ v[Len(q) + 1] = end
  /\ \A k \in 1..Len(q) : StepView(q[k], v[k], v[k + 1])

\* The parts of a view.
LEMMA ViewFields ==
  ASSUME NEW a \in View
  PROVE  a.n \in Nat /\ a.list \in Seq(App) /\ a = [n |-> a.n, list |-> a.list]
BY DEF View

\* A view made of its parts.
LEMMA MadeView ==
  ASSUME NEW n \in Nat, NEW list \in Seq(App), NEW a, a = [n |-> n, list |-> list]
  PROVE  a \in View /\ a.n = n /\ a.list = list
BY DEF View

\* Calls that are not about rows change no view.
LEMMA QuietView ==
  ASSUME NEW e, e.on \notin RowCalls, NEW a \in View, NEW b \in View, StepView(e, a, b)
  PROVE  b = a
<1>1. b.n = a.n /\ b.list = a.list
  BY DEF StepView, RowCalls
<1>2. a = [n |-> a.n, list |-> a.list] /\ b = [n |-> b.n, list |-> b.list]
  BY ViewFields
<1> QED
  BY <1>1, <1>2

\* ... as the view is the same behind them.
LEMMA StandsQuiet ==
  ASSUME NEW e, e.on \notin RowCalls, NEW a
  PROVE  StepView(e, a, a)
BY DEF StepView, RowCalls

\* What each queued call sees is a view.
LEMMA ViewsAt ==
  ASSUME NEW q \in Seq(CallSet), NEW v, NEW end, Views(q, v, end)
  PROVE  /\ Len(q) \in Nat /\ end \in View
         /\ \A k \in 1..Len(q) + 1 : v[k] \in View
         /\ v[Len(q) + 1] = end
         /\ \A k \in 1..Len(q) : StepView(q[k], v[k], v[k + 1])
<1>1. Len(q) \in Nat
  OBVIOUS
<1>2. \A k \in 1..Len(q) + 1 : v[k] \in View
  BY DEF Views
<1>3. Len(q) + 1 \in 1..Len(q) + 1
  BY <1>1
<1> QED
  BY <1>1, <1>2, <1>3 DEF Views

\* Between two calls that change no rows nothing changes.
LEMMA QuietViews ==
  ASSUME NEW q \in Seq(CallSet), NEW v, NEW end, Views(q, v, end),
         NEW a \in 1..Len(q) + 1, NEW b \in 1..Len(q) + 1, a <= b,
         \A k \in 1..Len(q) : a <= k /\ k < b => q[k].on \notin RowCalls
  PROVE  v[a] = v[b]
<1> DEFINE L == Len(q)
           I == {j \in 1..L + 1 : a <= j /\ j <= b /\ v[j] # v[b]}
<1>1. /\ L \in Nat /\ \A k \in 1..L + 1 : v[k] \in View
      /\ \A k \in 1..L : StepView(q[k], v[k], v[k + 1])
  BY ViewsAt
<1>2. a \in 1..L + 1 /\ b \in 1..L + 1 /\ a \in Nat /\ b \in Nat /\ L + 1 \in Nat
  BY <1>1
<1>3. \A k \in 1..L : a <= k /\ k < b => q[k].on \notin RowCalls
  OBVIOUS
<1>4. I \in SUBSET (1..L + 1) /\ \A j \in 1..L + 1 : j \in I <=> a <= j /\ j <= b /\ v[j] # v[b]
  OBVIOUS
<1> HIDE DEF I, L
<1>5. SUFFICES ASSUME v[a] # v[b] PROVE FALSE
  OBVIOUS
<1>6. a \in I
  BY <1>2, <1>4, <1>5
<1> DEFINE m == Max(I)
<1>7. m \in I /\ \A k \in I : k <= m
  BY <1>2, <1>4, <1>6, MaxOfRows
<1> HIDE DEF m
<1>8. m \in 1..L + 1 /\ m \in Nat /\ a <= m /\ m <= b /\ v[m] # v[b]
  BY <1>2, <1>4, <1>7
<1>9. m # b
  BY <1>8
<1>10. m < b /\ m \in 1..L /\ m + 1 \in 1..L + 1 /\ a <= m + 1 /\ m + 1 <= b
  BY <1>1, <1>2, <1>8, <1>9
<1>11. ~ (m + 1 \in I)
  BY <1>7, <1>8
<1>12. v[m + 1] = v[b]
  BY <1>4, <1>10, <1>11
<1>13. v[m + 1] = v[m]
  <2>1. q[m].on \notin RowCalls /\ StepView(q[m], v[m], v[m + 1]) /\ v[m] \in View /\ v[m + 1] \in View
    BY <1>1, <1>3, <1>8, <1>10
  <2> QED
    BY <2>1, QuietView
<1> QED
  BY <1>8, <1>12, <1>13

\* Without a removal of windows their number only grows.
LEMMA GrowingViews ==
  ASSUME NEW q \in Seq(CallSet), NEW v, NEW end, Views(q, v, end),
         NEW a \in 1..Len(q) + 1,
         \A k \in 1..Len(q) : a <= k => q[k].on # "activeRemoved"
  PROVE  v[a].n <= end.n
<1> DEFINE L == Len(q)
           I == {j \in 1..L + 1 : a <= j /\ ~ (v[j].n <= end.n)}
<1>1. /\ L \in Nat /\ \A k \in 1..L + 1 : v[k] \in View
      /\ \A k \in 1..L : StepView(q[k], v[k], v[k + 1])
      /\ end \in View /\ v[L + 1] = end
  BY ViewsAt
<1>2. a \in 1..L + 1 /\ a \in Nat /\ L + 1 \in Nat
  BY <1>1
<1>3. \A k \in 1..L : a <= k => q[k].on # "activeRemoved"
  OBVIOUS
<1>4. I \in SUBSET (1..L + 1) /\ \A j \in 1..L + 1 : j \in I <=> a <= j /\ ~ (v[j].n <= end.n)
  OBVIOUS
<1> HIDE DEF I, L
<1>n. end.n \in Nat /\ \A k \in 1..L + 1 : v[k].n \in Nat
  BY <1>1, ViewFields
<1>5. SUFFICES ASSUME ~ (v[a].n <= end.n) PROVE FALSE
  OBVIOUS
<1>6. a \in I
  BY <1>2, <1>4, <1>5
<1> DEFINE m == Max(I)
<1>7. m \in I /\ \A k \in I : k <= m
  BY <1>2, <1>4, <1>6, MaxOfRows
<1> HIDE DEF m
<1>8. m \in 1..L + 1 /\ m \in Nat /\ a <= m /\ ~ (v[m].n <= end.n)
  BY <1>2, <1>4, <1>7
<1>9. m # L + 1
  <2>1. end.n <= end.n
    BY <1>n
  <2> QED
    BY <1>1, <1>8, <2>1
<1>10. m \in 1..L /\ m + 1 \in 1..L + 1 /\ a <= m + 1
  BY <1>1, <1>2, <1>8, <1>9
<1>11. ~ (m + 1 \in I)
  BY <1>7, <1>8
<1>12. v[m + 1].n <= end.n
  BY <1>4, <1>10, <1>11
<1>13. v[m].n <= v[m + 1].n
  <2>1. q[m].on # "activeRemoved" /\ StepView(q[m], v[m], v[m + 1]) /\ v[m].n \in Nat
    BY <1>1, <1>3, <1>8, <1>10, <1>n
  <2>2. v[m + 1].n = v[m].n \/ v[m + 1].n = v[m].n + 1
    BY <2>1 DEF StepView
  <2> QED
    BY <2>1, <2>2
<1>14. v[m].n \in Nat /\ v[m + 1].n \in Nat
  BY <1>8, <1>10, <1>n
<1> QED
  BY <1>8, <1>12, <1>13, <1>14, <1>n

\* Without a removal of applications they are the same.
LEMMA SteadyViews ==
  ASSUME NEW q \in Seq(CallSet), NEW v, NEW end, Views(q, v, end),
         NEW a \in 1..Len(q) + 1,
         \A k \in 1..Len(q) : a <= k => q[k].on # "appsRemoved"
  PROVE  v[a].list = end.list
<1> DEFINE L == Len(q)
           I == {j \in 1..L + 1 : a <= j /\ v[j].list # end.list}
<1>1. /\ L \in Nat
      /\ \A k \in 1..L : StepView(q[k], v[k], v[k + 1])
      /\ v[L + 1] = end
  BY ViewsAt
<1>2. a \in 1..L + 1 /\ a \in Nat /\ L + 1 \in Nat
  BY <1>1
<1>3. \A k \in 1..L : a <= k => q[k].on # "appsRemoved"
  OBVIOUS
<1>4. I \in SUBSET (1..L + 1) /\ \A j \in 1..L + 1 : j \in I <=> a <= j /\ v[j].list # end.list
  OBVIOUS
<1> HIDE DEF I, L
<1>5. SUFFICES ASSUME v[a].list # end.list PROVE FALSE
  OBVIOUS
<1>6. a \in I
  BY <1>2, <1>4, <1>5
<1> DEFINE m == Max(I)
<1>7. m \in I /\ \A k \in I : k <= m
  BY <1>2, <1>4, <1>6, MaxOfRows
<1> HIDE DEF m
<1>8. m \in 1..L + 1 /\ m \in Nat /\ a <= m /\ v[m].list # end.list
  BY <1>2, <1>4, <1>7
<1>9. m # L + 1
  BY <1>1, <1>8
<1>10. m \in 1..L /\ m + 1 \in 1..L + 1 /\ a <= m + 1
  BY <1>1, <1>2, <1>8, <1>9
<1>11. ~ (m + 1 \in I)
  BY <1>7, <1>8
<1>12. v[m + 1].list = end.list
  BY <1>4, <1>10, <1>11
<1>13. v[m + 1].list = v[m].list
  <2>1. q[m].on # "appsRemoved" /\ StepView(q[m], v[m], v[m + 1])
    BY <1>1, <1>3, <1>8, <1>10
  <2> QED
    BY <2>1 DEF StepView
<1> QED
  BY <1>8, <1>12, <1>13

\* The first call is handled.
LEMMA ViewsTail ==
  ASSUME NEW q \in Seq(CallSet), q # <<>>, NEW v, NEW end, Views(q, v, end)
  PROVE  /\ StepView(Head(q), v[1], v[2]) /\ v[1] \in View /\ v[2] \in View
         /\ \E w : /\ Views(Tail(q), w, end)
                   /\ \A k \in 1..Len(q) : w[k] = v[k + 1]
<1> DEFINE L == Len(q)
           w == [k \in 1..L |-> v[k + 1]]
           t == Tail(q)
<1>1. /\ L \in Nat /\ \A k \in 1..L + 1 : v[k] \in View
      /\ \A k \in 1..L : StepView(q[k], v[k], v[k + 1])
      /\ v[L + 1] = end
  BY ViewsAt
<1>2. Head(q) = q[1] /\ t \in Seq(CallSet) /\ Len(t) = L - 1 /\ L \in Nat \ {0} /\ \A k \in 1..L - 1 : t[k] = q[k + 1]
  BY TailFacts
<1> HIDE DEF L, t
<1>3. L - 1 + 1 = L /\ 1 \in 1..L /\ 1 + 1 = 2 /\ L \in 1..L /\ 1 \in 1..L + 1 /\ 2 \in 1..L + 1
  BY <1>2
<1>4. \A k \in 1..L : w[k] = v[k + 1] /\ k + 1 \in 1..L + 1
  BY <1>2
<1>5. w \in [1..L -> View]
  BY <1>1, <1>4
<1> HIDE DEF w
<1>6. ASSUME NEW k \in 1..L - 1 PROVE StepView(t[k], w[k], w[k + 1])
  <2>1. k \in 1..L /\ k + 1 \in 1..L
    BY <1>2
  <2>2. t[k] = q[k + 1] /\ w[k] = v[k + 1] /\ w[k + 1] = v[(k + 1) + 1]
    BY <1>2, <1>4, <2>1
  <2>3. StepView(q[k + 1], v[k + 1], v[(k + 1) + 1])
    BY <1>1, <2>1
  <2> QED
    BY <2>2, <2>3
<1>7. Views(t, w, end)
  BY <1>1, <1>2, <1>3, <1>4, <1>5, <1>6 DEF Views
<1>8. StepView(q[1], v[1], v[2]) /\ v[1] \in View /\ v[2] \in View
  BY <1>1, <1>3
<1> QED
  BY <1>2, <1>4, <1>7, <1>8 DEF t, L

\* The calls of q see what they saw.
Continues(w, v, q) == \A k \in 1..Len(q) + 1 : w[k] = v[k]

\* A call is queued.
LEMMA ViewsPost ==
  ASSUME NEW q \in Seq(CallSet), NEW v, NEW a, Views(q, v, a),
         NEW e \in CallSet, NEW b \in View, StepView(e, a, b),
         NEW new, new = q \o <<e>>
  PROVE  \E w : Views(new, w, b) /\ Continues(w, v, q)
<1> DEFINE L == Len(q)
           w == [k \in 1..L + 2 |-> IF k = L + 2 THEN b ELSE v[k]]
<1>1. /\ L \in Nat /\ \A k \in 1..L + 1 : v[k] \in View
      /\ \A k \in 1..L : StepView(q[k], v[k], v[k + 1])
      /\ v[L + 1] = a
  BY ViewsAt
<1>2. Len(new) = L + 1 /\ new[L + 1] = e /\ \A k \in 1..L : new[k] = q[k]
  OBVIOUS
<1> HIDE DEF L
<1>3. (L + 1) + 1 = L + 2 /\ L + 2 \in 1..L + 2 /\ L + 1 \in 1..L + 1
  BY <1>1
<1>4. w[L + 2] = b /\ \A k \in 1..L + 1 : k \in 1..L + 2 /\ w[k] = v[k]
  BY <1>1
<1>5. w \in [1..L + 2 -> View]
  <2>1. \A k \in 1..L + 2 : w[k] \in View
    <3>1. \A k \in 1..L + 2 : k \in 1..L + 1 \/ k = L + 2
      BY <1>1
    <3> HIDE DEF w
    <3> QED
      BY <1>1, <1>4, <3>1
  <2> QED
    BY <2>1
<1> HIDE DEF w
<1>6. ASSUME NEW k \in 1..L + 1 PROVE StepView(new[k], w[k], w[k + 1])
  <2>1. CASE k \in 1..L
    <3>1. k + 1 \in 1..L + 1
      BY <1>1, <2>1
    <3>2. new[k] = q[k] /\ w[k] = v[k] /\ w[k + 1] = v[k + 1]
      BY <1>2, <1>4, <2>1, <3>1
    <3>3. StepView(q[k], v[k], v[k + 1])
      BY <1>1, <2>1
    <3> QED
      BY <3>2, <3>3
  <2>2. CASE k = L + 1
    <3>1. new[k] = e /\ w[k] = a /\ w[k + 1] = b
      BY <1>1, <1>2, <1>3, <1>4, <2>2
    <3> QED
      BY <3>1
  <2>3. k \in 1..L \/ k = L + 1
    BY <1>1
  <2> QED
    BY <2>1, <2>2, <2>3, Zenon
<1>7. Views(new, w, b)
  BY <1>2, <1>3, <1>4, <1>5, <1>6 DEF Views
<1> QED
  BY <1>4, <1>7 DEF L, Continues

\* Calls that change no rows are queued.
LEMMA ViewsMore ==
  ASSUME NEW q \in Seq(CallSet), NEW v, NEW end, Views(q, v, end),
         NEW extra \in Seq(CallSet), \A k \in 1..Len(extra) : extra[k].on \notin RowCalls,
         NEW new, new = q \o extra
  PROVE  \E w : Views(new, w, end) /\ Continues(w, v, q)
<1> DEFINE L == Len(q)
           M == Len(extra)
           w == [k \in 1..L + M + 1 |-> IF k <= L THEN v[k] ELSE end]
<1>1. /\ L \in Nat /\ \A k \in 1..L + 1 : v[k] \in View
      /\ \A k \in 1..L : StepView(q[k], v[k], v[k + 1])
      /\ v[L + 1] = end /\ end \in View
  BY ViewsAt
<1>2. /\ Len(new) = L + M /\ M \in Nat /\ \A k \in 1..L : new[k] = q[k]
      /\ \A k \in 1..L + M : k > L => new[k] = extra[k - L] /\ k - L \in 1..M
  BY QueueGrows
<1>3. \A k \in 1..M : extra[k].on \notin RowCalls
  OBVIOUS
<1> HIDE DEF L, M
<1>4. /\ \A k \in 1..L : k \in 1..L + M + 1 /\ w[k] = v[k]
      /\ \A k \in 1..L + M + 1 : k > L => w[k] = end
  BY <1>1, <1>2
<1>5. w \in [1..L + M + 1 -> View]
  <2>1. \A k \in 1..L + M + 1 : w[k] \in View
    <3>1. \A k \in 1..L + M + 1 : (k \in 1..L /\ k \in 1..L + 1) \/ k > L
      BY <1>1, <1>2
    <3> HIDE DEF w
    <3> QED
      BY <1>1, <1>4, <3>1
  <2> QED
    BY <2>1
<1> HIDE DEF w
<1>6. L + 1 \in 1..L + M + 1 /\ L + 1 > L /\ L + M + 1 \in 1..L + M + 1 /\ L + M + 1 > L
  BY <1>1, <1>2
<1>7. ASSUME NEW k \in 1..L + 1 PROVE w[k] = v[k]
  <2>1. k \in 1..L \/ k = L + 1
    BY <1>1
  <2> QED
    BY <1>1, <1>4, <1>6, <2>1
<1>8. ASSUME NEW k \in 1..L + M PROVE StepView(new[k], w[k], w[k + 1])
  <2>1. CASE k \in 1..L
    <3>1. k + 1 \in 1..L + 1 /\ k \in 1..L + 1
      BY <1>1, <2>1
    <3>2. new[k] = q[k] /\ w[k] = v[k] /\ w[k + 1] = v[k + 1]
      BY <1>2, <1>7, <2>1, <3>1
    <3>3. StepView(q[k], v[k], v[k + 1])
      BY <1>1, <2>1
    <3> QED
      BY <3>2, <3>3
  <2>2. CASE k > L
    <3>1. k \in 1..L + M + 1 /\ k + 1 \in 1..L + M + 1 /\ k + 1 > L
      BY <1>1, <1>2, <2>2
    <3>2. w[k] = end /\ w[k + 1] = end
      BY <1>4, <2>2, <3>1
    <3>3. new[k].on \notin RowCalls
      BY <1>2, <1>3, <2>2
    <3>4. StepView(new[k], end, end)
      BY <3>3, StandsQuiet
    <3> QED
      BY <3>2, <3>4
  <2>3. k \in 1..L \/ k > L
    BY <1>1
  <2> QED
    BY <2>1, <2>2, <2>3, Zenon
<1>9. Views(new, w, end)
  BY <1>2, <1>4, <1>5, <1>6, <1>8 DEF Views
<1> QED
  BY <1>7, <1>9 DEF L, Continues

\* Calls that change no rows are dropped: new is what is left of q, and w of v.
PickedViews(new, q, K, w, v, f) ==
  /\ w[1] = v[1]
  /\ f \in [1..Len(new) -> K]
  /\ \A i, j \in 1..Len(new) : i < j => f[i] < f[j]
  /\ \A x \in K : \E i \in 1..Len(new) : f[i] = x
  /\ \A i \in 1..Len(new) : new[i] = q[f[i]] /\ w[i] = v[f[i]]

\* Dropping calls that change no rows leaves what the others see.
LEMMA ViewsPicked ==
  ASSUME NEW q \in Seq(CallSet), NEW v, NEW end, Views(q, v, end),
         NEW K \in SUBSET DOMAIN q, \A k \in DOMAIN q \ K : q[k].on \notin RowCalls,
         NEW new, new = RowsAt(q, K)
  PROVE  /\ new \in Seq(CallSet)
         /\ \E w, f : Views(new, w, end) /\ PickedViews(new, q, K, w, v, f)
<1> DEFINE L == Len(q)
           N == Len(new)
           f == Ascending(K)
           g == [i \in 1..N + 1 |-> IF i = N + 1 THEN L + 1 ELSE f[i]]
           w == [i \in 1..N + 1 |-> v[g[i]]]
<1>1. /\ L \in Nat /\ \A k \in 1..L + 1 : v[k] \in View
      /\ \A k \in 1..L : StepView(q[k], v[k], v[k + 1])
      /\ v[L + 1] = end /\ DOMAIN q = 1..L
  BY ViewsAt
<1>2. /\ Len(RowsAt(q, K)) = Cardinality(K) /\ Cardinality(K) \in Nat /\ RowsAt(q, K) \in Seq(CallSet)
      /\ f \in [1..Cardinality(K) -> K]
      /\ \A i, j \in 1..Cardinality(K) : i < j => f[i] < f[j]
      /\ \A x \in K : \E i \in 1..Cardinality(K) : f[i] = x
      /\ \A i \in 1..Cardinality(K) : RowsAt(q, K)[i] = q[f[i]]
  BY RowsAtFacts
<1>3. /\ N \in Nat /\ new \in Seq(CallSet) /\ f \in [1..N -> K]
      /\ \A i, j \in 1..N : i < j => f[i] < f[j]
      /\ \A x \in K : \E i \in 1..N : f[i] = x
      /\ \A i \in 1..N : new[i] = q[f[i]]
  BY <1>2
<1>k. K \in SUBSET (1..L) /\ \A k \in 1..L : k \notin K => q[k].on \notin RowCalls
  BY <1>1
<1> HIDE DEF L, N, f
<1>4. /\ \A i \in 1..N : i \in 1..N + 1 /\ g[i] = f[i] /\ g[i] \in K /\ g[i] \in 1..L /\ g[i] \in Nat
      /\ N + 1 \in 1..N + 1 /\ g[N + 1] = L + 1
  <2>1. \A i \in 1..N : i \in 1..N + 1 /\ i # N + 1
    BY <1>3
  <2>2. N + 1 \in 1..N + 1
    BY <1>3
  <2>3. \A i \in 1..N : f[i] \in K
    BY <1>3
  <2>4. \A x \in K : x \in 1..L /\ x \in Nat
    BY <1>k
  <2>5. \A i \in 1..N + 1 : g[i] = IF i = N + 1 THEN L + 1 ELSE f[i]
    OBVIOUS
  <2> HIDE DEF g
  <2> QED
    BY <2>1, <2>2, <2>3, <2>4, <2>5
<1>5. \A i \in 1..N + 1 : w[i] = v[g[i]]
  OBVIOUS
<1> HIDE DEF g
<1>6. \A i \in 1..N + 1 : i \in 1..N \/ i = N + 1
  BY <1>3
<1>7. \A i \in 1..N + 1 : g[i] \in 1..L + 1 /\ g[i] \in Nat
  <2>1. \A x \in 1..L : x \in 1..L + 1
    BY <1>1
  <2>2. L + 1 \in 1..L + 1 /\ L + 1 \in Nat
    BY <1>1
  <2> QED
    BY <1>4, <1>6, <2>1, <2>2
<1>8. w \in [1..N + 1 -> View]
  <2>1. \A i \in 1..N + 1 : v[g[i]] \in View
    BY <1>1, <1>7
  <2> QED
    BY <2>1
<1> HIDE DEF w
<1>9. ASSUME NEW i \in 1..N
      PROVE  /\ g[i] < g[i + 1] /\ i + 1 \in 1..N + 1
             /\ \A k \in 1..L : g[i] < k /\ k < g[i + 1] => k \notin K
  <2>1. i \in Nat /\ i + 1 \in 1..N + 1 /\ i < i + 1
    BY <1>3
  <2>2. CASE i + 1 \in 1..N
    <3>1. f[i] < f[i + 1] /\ g[i] = f[i] /\ g[i + 1] = f[i + 1]
      BY <1>3, <1>4, <2>1, <2>2
    <3>2. ASSUME NEW k \in 1..L, g[i] < k, k < g[i + 1], k \in K PROVE FALSE
      <4>1. PICK j \in 1..N : f[j] = k
        BY <1>3, <3>2
      <4>2. j \in Nat /\ f[i] < f[j] /\ f[j] < f[i + 1]
        BY <3>1, <3>2, <4>1
      <4>3. ~ (f[j] < f[i]) /\ ~ (f[i + 1] < f[j]) /\ f[i] # f[j] /\ f[j] # f[i + 1]
        <5>1. f[i] \in Nat /\ f[j] \in Nat /\ f[i + 1] \in Nat
          BY <1>4, <2>2
        <5> QED
          BY <4>2, <5>1
      <4>4. ~ (j < i) /\ ~ (i + 1 < j) /\ j # i /\ j # i + 1
        BY <1>3, <2>2, <4>3
      <4> QED
        BY <2>1, <4>2, <4>4
    <3> QED
      BY <2>1, <3>1, <3>2
  <2>3. CASE i = N
    <3>1. g[i + 1] = L + 1 /\ g[i] \in 1..L
      BY <1>4, <2>3
    <3>2. ASSUME NEW k \in 1..L, g[i] < k, k \in K PROVE FALSE
      <4>1. PICK j \in 1..N : f[j] = k
        BY <1>3, <3>2
      <4>2. g[i] = f[i] /\ f[i] \in Nat /\ f[j] \in Nat
        BY <1>4
      <4>3. ~ (f[j] < f[i]) /\ f[i] # f[j]
        BY <3>2, <4>1, <4>2
      <4>4. ~ (j < i) /\ j # i
        BY <1>3, <4>3
      <4> QED
        BY <1>3, <2>3, <4>4
    <3>3. g[i] < g[i + 1]
      BY <1>1, <3>1
    <3> QED
      BY <2>1, <3>2, <3>3
  <2>4. i + 1 \in 1..N \/ i = N
    BY <1>3, <2>1
  <2> QED
    BY <2>2, <2>3, <2>4, Zenon
<1>10. ASSUME NEW i \in 1..N PROVE StepView(new[i], w[i], w[i + 1])
  <2> DEFINE a == g[i]
             b == g[i + 1]
  <2>1. a \in 1..L /\ a \in Nat /\ b \in 1..L + 1 /\ b \in Nat /\ a < b /\ i \in 1..N + 1 /\ i + 1 \in 1..N + 1
    BY <1>4, <1>7, <1>9
  <2>2. \A k \in 1..L : a < k /\ k < b => k \notin K
    BY <1>9
  <2>3. w[i] = v[a] /\ w[i + 1] = v[b] /\ new[i] = q[a]
    BY <1>3, <1>4, <1>5, <2>1
  <2> HIDE DEF a, b
  <2>4. a + 1 \in 1..L + 1 /\ a + 1 <= b
    BY <1>1, <2>1
  <2>5. \A k \in 1..L : a + 1 <= k /\ k < b => q[k].on \notin RowCalls
    <3>1. \A k \in 1..L : a + 1 <= k => a < k
      BY <2>1
    <3> QED
      BY <1>k, <2>2, <3>1
  <2>6. v[a + 1] = v[b]
    BY <2>1, <2>4, <2>5, QuietViews DEF L
  <2>7. StepView(q[a], v[a], v[a + 1])
    BY <1>1, <2>1
  <2> QED
    BY <2>3, <2>6, <2>7
<1>11. w[N + 1] = end
  BY <1>1, <1>4, <1>5
<1>12. Views(new, w, end)
  BY <1>8, <1>10, <1>11 DEF Views, N
<1>13. w[1] = v[1]
  <2> DEFINE b == g[1]
  <2>1. 1 \in 1..N + 1 /\ 1 \in 1..L + 1
    BY <1>1, <1>3
  <2>2. b \in 1..L + 1 /\ b \in Nat /\ 1 <= b /\ w[1] = v[b]
    BY <1>5, <1>7, <2>1
  <2>3. ASSUME NEW k \in 1..L, k < b, k \in K PROVE FALSE
    <3>1. PICK j \in 1..N : f[j] = k
      BY <1>3, <2>3
    <3>2. 1 \in 1..N /\ j \in Nat
      BY <1>3
    <3>3. b = f[1] /\ f[1] \in Nat /\ f[j] \in Nat
      BY <1>4, <3>2
    <3>4. ~ (f[1] < f[j]) /\ f[1] # f[j]
      BY <2>3, <3>1, <3>3
    <3>5. ~ (1 < j) /\ 1 # j
      BY <1>3, <3>2, <3>4
    <3> QED
      BY <3>2, <3>5
  <2> HIDE DEF b
  <2>4. \A k \in 1..L : 1 <= k /\ k < b => q[k].on \notin RowCalls
    BY <1>k, <2>3
  <2>5. v[1] = v[b]
    BY <2>1, <2>2, <2>4, QuietViews DEF L
  <2> QED
    BY <2>2, <2>5
<1>14. \A i \in 1..N : new[i] = q[f[i]] /\ w[i] = v[f[i]]
  BY <1>3, <1>4, <1>5
<1>15. PickedViews(new, q, K, w, v, f)
  BY <1>3, <1>13, <1>14 DEF PickedViews, N
<1> QED
  BY <1>3, <1>12, <1>15

\* A row taken out before another is put at the end, or after.
LEMMA RemoveBeforeAppended ==
  ASSUME NEW S, NEW s \in Seq(S), NEW i \in DOMAIN s, NEW x \in S
  PROVE  i \in DOMAIN Append(s, x) /\ RemoveAt(Append(s, x), i) = Append(RemoveAt(s, i), x)
<1> DEFINE n == Len(s)
           t == Append(s, x)
           a == RemoveAt(t, i)
           r == RemoveAt(s, i)
           b == Append(r, x)
<1>1. n \in Nat /\ i \in 1..n /\ DOMAIN s = 1..n
  OBVIOUS
<1>2. t \in Seq(S) /\ Len(t) = n + 1 /\ t[n + 1] = x /\ \A j \in 1..n : t[j] = s[j]
  BY AppendRow
<1>3. i \in DOMAIN t
  BY <1>1, <1>2
<1> HIDE DEF t
<1>4. /\ a \in Seq(S) /\ Len(a) = Len(t) - 1
      /\ \A j \in 1..Len(t) - 1 : a[j] = t[IF j < i THEN j ELSE j + 1]
  BY <1>2, <1>3, RemoveAtFacts
<1>5. /\ r \in Seq(S) /\ Len(r) = n - 1
      /\ \A j \in 1..n - 1 : r[j] = s[IF j < i THEN j ELSE j + 1]
  BY RemoveAtFacts
<1> HIDE DEF a, r
<1>6. b \in Seq(S) /\ Len(b) = Len(r) + 1 /\ b[Len(r) + 1] = x /\ \A j \in 1..Len(r) : b[j] = r[j]
  BY <1>5, AppendRow
<1> HIDE DEF b, n
<1>7. Len(a) = n /\ Len(b) = n /\ Len(t) - 1 = n /\ Len(r) + 1 = n
  BY <1>1, <1>2, <1>4, <1>5, <1>6
<1>8. ASSUME NEW j \in 1..n PROVE a[j] = b[j]
  <2> DEFINE o == IF j < i THEN j ELSE j + 1
  <2>1. a[j] = t[o]
    BY <1>4, <1>7
  <2>2. CASE j \in 1..n - 1
    <3>1. o \in 1..n
      BY <1>1, <2>2
    <3>2. b[j] = r[j] /\ r[j] = s[o]
      BY <1>5, <1>6, <2>2
    <3>3. t[o] = s[o]
      BY <1>2, <3>1
    <3> QED
      BY <2>1, <3>2, <3>3
  <2>3. CASE j = n
    <3>1. o = n + 1
      BY <1>1, <2>3
    <3> QED
      BY <1>2, <1>6, <1>7, <2>1, <2>3, <3>1
  <2>4. j \in 1..n - 1 \/ j = n
    BY <1>1
  <2> QED
    BY <2>2, <2>3, <2>4, Zenon
<1>9. a = b
  BY <1>4, <1>6, <1>7, <1>8
<1> QED
  BY <1>3, <1>9 DEF a, b, t, r

\* An application is installed: the calls read the rows before it.
LEMMA ViewsInstalled ==
  ASSUME NEW q \in Seq(CallSet), NEW v, NEW end, Views(q, v, end), NEW app \in App,
         NEW new \in View, new.n = end.n, new.list = Append(end.list, app)
  PROVE  \E w : /\ Views(q, w, new)
                /\ \A k \in 1..Len(q) + 1 : w[k] \in View /\ w[k].n = v[k].n /\ w[k].list = Append(v[k].list, app)
<1> DEFINE L == Len(q)
           more(a) == [n |-> a.n, list |-> Append(a.list, app)]
           w == [k \in 1..L + 1 |-> more(v[k])]
<1>1. /\ L \in Nat /\ \A k \in 1..L + 1 : v[k] \in View
      /\ \A k \in 1..L : StepView(q[k], v[k], v[k + 1])
      /\ v[L + 1] = end /\ end \in View
  BY ViewsAt
<1>2. ASSUME NEW a \in View
      PROVE  more(a) \in View /\ more(a).n = a.n /\ more(a).list = Append(a.list, app)
  <2>1. a.n \in Nat /\ a.list \in Seq(App)
    BY ViewFields
  <2>2. Append(a.list, app) \in Seq(App)
    BY <2>1
  <2> DEFINE n == a.n
             list == Append(a.list, app)
             b == more(a)
  <2>3. n \in Nat /\ list \in Seq(App)
    BY <2>1, <2>2
  <2>4. b = [n |-> n, list |-> list]
    OBVIOUS
  <2> HIDE DEF n, list, b
  <2>5. b \in View /\ b.n = n /\ b.list = list
    BY <2>3, <2>4, MadeView
  <2> QED
    BY <2>5 DEF n, list, b
<1>3. \A k \in 1..L + 1 : w[k] = more(v[k])
  OBVIOUS
<1> HIDE DEF L, more, w
<1>4. \A k \in 1..L + 1 : w[k] \in View /\ w[k].n = v[k].n /\ w[k].list = Append(v[k].list, app)
  BY <1>1, <1>2, <1>3
<1>5. w \in [1..L + 1 -> View]
  BY <1>4 DEF w
<1>6. ASSUME NEW k \in 1..L PROVE StepView(q[k], w[k], w[k + 1])
  <2> DEFINE a == v[k]
             b == v[k + 1]
             e == q[k]
             c == w[k]
             d == w[k + 1]
  <2>1. k \in 1..L + 1 /\ k + 1 \in 1..L + 1
    BY <1>1
  <2>2. StepView(e, a, b) /\ a.list \in Seq(App) /\ b.list \in Seq(App)
    BY <1>1, <2>1, ViewFields
  <2>3. c.n = a.n /\ d.n = b.n /\ c.list = Append(a.list, app) /\ d.list = Append(b.list, app)
    BY <1>4, <2>1
  <2> HIDE DEF a, b, c, d, e
  <2>4. CASE e.on = "appsRemoved"
    <3> DEFINE s == a.list
               i == e.row
    <3>1. i \in DOMAIN s /\ b.list = RemoveAt(s, i)
      BY <2>2, <2>4 DEF StepView
    <3>2. s \in Seq(App)
      BY <2>2
    <3> HIDE DEF s, i
    <3>3. i \in DOMAIN Append(s, app) /\ RemoveAt(Append(s, app), i) = Append(RemoveAt(s, i), app)
      BY <3>1, <3>2, RemoveBeforeAppended
    <3>4. d.list = RemoveAt(c.list, i) /\ i \in DOMAIN c.list
      BY <2>3, <3>1, <3>3 DEF s
    <3>5. d.n = c.n
      BY <2>2, <2>3, <2>4 DEF StepView
    <3>6. StepView(e, c, d)
      BY <2>4, <3>4, <3>5 DEF StepView, i
    <3> QED
      BY <3>6 DEF c, d, e
  <2>5. CASE e.on # "appsRemoved"
    <3>1. d.list = c.list
      BY <2>2, <2>3, <2>5 DEF StepView
    <3>2. StepView(e, c, d)
      BY <2>2, <2>3, <2>5, <3>1 DEF StepView
    <3> QED
      BY <3>2 DEF c, d, e
  <2>6. StepView(e, c, d)
    BY <2>4, <2>5 DEF c, d, e
  <2> QED
    BY <2>6 DEF c, d, e
<1>7. w[L + 1] = new
  <2>1. L + 1 \in 1..L + 1
    BY <1>1
  <2>2. w[L + 1].n = new.n /\ w[L + 1].list = new.list /\ w[L + 1] \in View
    BY <1>1, <1>4, <2>1
  <2>3. w[L + 1] = [n |-> w[L + 1].n, list |-> w[L + 1].list] /\ new = [n |-> new.n, list |-> new.list]
    BY <2>2, ViewFields
  <2> QED
    BY <2>2, <2>3
<1>8. Views(q, w, new)
  BY <1>5, <1>6, <1>7 DEF Views, L
<1> QED
  BY <1>4, <1>8 DEF L

-----------------------------------------------------------------------------
(* The order of the queued calls, when no row was overtaken.               *)

\* The start-up call is the first.
LoadFirst(q) == \A k \in 1..Len(q) : q[k].on = "load" => k = 1
Loading(q) == Len(q) # 0 /\ q[1].on = "load"

\* No row of a window goes that is still to come, and no application goes that
\* a handler is still to look up.
CallsOrdered(q) ==
  \A j, k \in 1..Len(q) : j < k =>
    /\ q[k].on = "activeRemoved" => q[j].on # "activeInserted"
    /\ q[k].on = "appsRemoved" => q[j].on # "load" /\ q[j].on # "activeRemoved"

\* The applications that go are none of D.
Spares(q, v, D) ==
  \A k \in 1..Len(q) : q[k].on = "appsRemoved" => v[k].list[q[k].row] \notin D

QueueFits(q, v, D) == CallsOrdered(q) /\ Spares(q, v, D)

QuietCall(e) == e.on \notin RowCalls /\ e.on # "load"

\* Calls that are not about rows go to the end of the queue.
LEMMA MoreQueued ==
  ASSUME NEW q \in Seq(CallSet), NEW v, NEW end, Views(q, v, end),
         NEW extra \in Seq(CallSet), \A k \in 1..Len(extra) : QuietCall(extra[k]),
         NEW new, new = q \o extra
  PROVE  /\ new \in Seq(CallSet)
         /\ \E w : /\ Views(new, w, end) /\ w[1] = v[1]
                   /\ \A D : QueueFits(q, v, D) => QueueFits(new, w, D)
         /\ LoadFirst(q) => LoadFirst(new)
         /\ Loading(new) <=> Loading(q)
<1> DEFINE L == Len(q)
           M == Len(extra)
<1>1. \A k \in 1..M : extra[k].on \notin RowCalls /\ extra[k].on # "load"
  BY DEF QuietCall
<1>w. \E w : Views(new, w, end) /\ Continues(w, v, q)
  <2>1. \A k \in 1..Len(extra) : extra[k].on \notin RowCalls
    BY <1>1
  <2> HIDE DEF L, M
  <2> QED
    BY <2>1, ViewsMore
<1>2. PICK w : /\ Views(new, w, end)
               /\ \A k \in 1..L + 1 : w[k] = v[k]
  BY <1>w DEF Continues
<1>3. /\ new \in Seq(CallSet) /\ Len(new) = L + M /\ M \in Nat /\ L \in Nat /\ \A k \in 1..L : new[k] = q[k]
      /\ \A k \in 1..L + M : k > L => new[k] = extra[k - L] /\ k - L \in 1..M
  BY QueueGrows
<1> HIDE DEF L, M
<1>4. ASSUME NEW k \in 1..L + M
      PROVE  \/ k \in 1..L /\ new[k] = q[k] /\ w[k] = v[k]
             \/ new[k].on \notin RowCalls /\ new[k].on # "load"
  <2>1. CASE k > L
    BY <1>1, <1>3, <2>1
  <2>2. CASE k \in 1..L
    <3>1. k \in 1..L + 1
      BY <1>3, <2>2
    <3> QED
      BY <1>2, <1>3, <2>2, <3>1
  <2>3. k > L \/ k \in 1..L
    BY <1>3
  <2> QED
    BY <2>1, <2>2, <2>3, Zenon
<1>5. w[1] = v[1]
  <2>1. 1 \in 1..L + 1
    BY <1>3
  <2> QED
    BY <1>2, <2>1
<1>6. ASSUME NEW D, QueueFits(q, v, D) PROVE QueueFits(new, w, D)
  <2>1. Spares(new, w, D)
    <3>1. ASSUME NEW k \in 1..L + M, new[k].on = "appsRemoved" PROVE w[k].list[new[k].row] \notin D
      <4>1. k \in 1..L /\ new[k] = q[k] /\ w[k] = v[k]
        BY <1>4, <3>1 DEF RowCalls
      <4> QED
        BY <1>6, <3>1, <4>1 DEF QueueFits, Spares, L
    <3> QED
      BY <1>3, <3>1 DEF Spares
  <2>2. ASSUME NEW j \in 1..L + M, NEW k \in 1..L + M, j < k
        PROVE  /\ new[k].on = "activeRemoved" => new[j].on # "activeInserted"
               /\ new[k].on = "appsRemoved" => new[j].on # "load" /\ new[j].on # "activeRemoved"
    <3>1. CASE new[k].on \notin RowCalls
      BY <3>1 DEF RowCalls
    <3>2. CASE k \in 1..L /\ new[k] = q[k]
      <4>1. j \in 1..L /\ new[j] = q[j]
        <5>1. j \in 1..L
          BY <1>3, <2>2, <3>2
        <5> QED
          BY <1>3, <5>1
      <4> QED
        BY <1>6, <2>2, <3>2, <4>1 DEF QueueFits, CallsOrdered, L
    <3> QED
      BY <1>4, <3>1, <3>2
  <2>3. CallsOrdered(new)
    BY <1>3, <2>2 DEF CallsOrdered
  <2> QED
    BY <2>1, <2>3 DEF QueueFits
<1>7. LoadFirst(q) => LoadFirst(new)
  BY <1>3, <1>4 DEF LoadFirst, L
<1>8. Loading(new) <=> Loading(q)
  <2>1. CASE L = 0
    <3>1. ~ Loading(q)
      BY <2>1 DEF Loading, L
    <3>2. ~ Loading(new)
      <4>1. Len(new) # 0 => 1 \in 1..L + M /\ ~ (1 \in 1..L)
        BY <1>3, <2>1
      <4> QED
        BY <1>4, <4>1 DEF Loading
    <3> QED
      BY <3>1, <3>2
  <2>2. CASE L # 0
    <3>1. 1 \in 1..L /\ Len(new) # 0
      BY <1>3, <2>2
    <3>2. new[1] = q[1]
      BY <1>3, <3>1
    <3> QED
      BY <2>2, <3>1, <3>2 DEF Loading, L
  <2> QED
    BY <2>1, <2>2
<1> QED
  BY <1>2, <1>3, <1>5, <1>6, <1>7, <1>8

\* What must not be queued when a call about rows is.
MayPost(q, a, e, D) ==
  /\ e.on = "activeRemoved" => \A k \in 1..Len(q) : q[k].on # "activeInserted"
  /\ e.on = "appsRemoved" =>
       /\ \A k \in 1..Len(q) : q[k].on # "load" /\ q[k].on # "activeRemoved"
       /\ a.list[e.row] \notin D

\* A call about a row goes to the end of the queue.
LEMMA OneQueuedMore ==
  ASSUME NEW q \in Seq(CallSet), NEW v, NEW a, Views(q, v, a),
         NEW e \in CallSet, e.on # "load", NEW b \in View, StepView(e, a, b),
         NEW new, new = q \o <<e>>
  PROVE  /\ new \in Seq(CallSet)
         /\ \E w : /\ Views(new, w, b) /\ w[1] = v[1]
                   /\ \A D : QueueFits(q, v, D) /\ MayPost(q, a, e, D) => QueueFits(new, w, D)
         /\ LoadFirst(q) => LoadFirst(new)
         /\ Loading(new) <=> Loading(q)
<1> DEFINE L == Len(q)
<1>1. L \in Nat /\ v[L + 1] = a
  BY ViewsAt
<1>w. \E w : Views(new, w, b) /\ Continues(w, v, q)
  BY ViewsPost
<1>2. PICK w : /\ Views(new, w, b)
               /\ \A k \in 1..L + 1 : w[k] = v[k]
  BY <1>w DEF Continues
<1>3. new \in Seq(CallSet) /\ Len(new) = L + 1 /\ new[L + 1] = e /\ \A k \in 1..L : new[k] = q[k]
  OBVIOUS
<1> HIDE DEF L
<1>4. \A k \in 1..L + 1 : (k \in 1..L /\ new[k] = q[k]) \/ (k = L + 1 /\ new[k] = e)
  <2>1. \A k \in 1..L + 1 : k \in 1..L \/ k = L + 1
    BY <1>1
  <2> QED
    BY <1>3, <2>1
<1>5. w[1] = v[1]
  <2>1. 1 \in 1..L + 1
    BY <1>1
  <2> QED
    BY <1>2, <2>1
<1>6. ASSUME NEW D, QueueFits(q, v, D), MayPost(q, a, e, D) PROVE QueueFits(new, w, D)
  <2>1. Spares(new, w, D)
    <3>1. ASSUME NEW k \in 1..L + 1, new[k].on = "appsRemoved" PROVE w[k].list[new[k].row] \notin D
      <4>1. w[k] = v[k]
        BY <1>2
      <4>2. CASE k \in 1..L /\ new[k] = q[k]
        BY <1>6, <3>1, <4>1, <4>2 DEF QueueFits, Spares, L
      <4>3. CASE k = L + 1 /\ new[k] = e
        <5>1. w[k] = a
          BY <1>1, <4>1, <4>3
        <5> QED
          BY <1>6, <3>1, <4>3, <5>1 DEF MayPost
      <4> QED
        BY <1>4, <4>2, <4>3
    <3> QED
      BY <1>3, <3>1 DEF Spares
  <2>2. ASSUME NEW j \in 1..L + 1, NEW k \in 1..L + 1, j < k
        PROVE  /\ new[k].on = "activeRemoved" => new[j].on # "activeInserted"
               /\ new[k].on = "appsRemoved" => new[j].on # "load" /\ new[j].on # "activeRemoved"
    <3>1. j \in 1..L /\ new[j] = q[j]
      <4>1. j \in 1..L
        BY <1>1, <2>2
      <4> QED
        BY <1>3, <4>1
    <3>2. CASE k \in 1..L /\ new[k] = q[k]
      BY <1>6, <2>2, <3>1, <3>2 DEF QueueFits, CallsOrdered, L
    <3>3. CASE k = L + 1 /\ new[k] = e
      BY <1>6, <3>1, <3>3 DEF MayPost, L
    <3> QED
      BY <1>4, <3>2, <3>3
  <2>3. CallsOrdered(new)
    BY <1>3, <2>2 DEF CallsOrdered
  <2> QED
    BY <2>1, <2>3 DEF QueueFits
<1>7. LoadFirst(q) => LoadFirst(new)
  BY <1>3, <1>4 DEF LoadFirst, L
<1>8. Loading(new) <=> Loading(q)
  <2>1. CASE L = 0
    <3>1. ~ Loading(q)
      BY <2>1 DEF Loading, L
    <3>2. new[1] = e
      BY <1>3, <2>1
    <3> QED
      BY <3>1, <3>2 DEF Loading
  <2>2. CASE L # 0
    <3>1. 1 \in 1..L /\ Len(new) # 0
      BY <1>1, <1>3, <2>2
    <3>2. new[1] = q[1]
      BY <1>3, <3>1
    <3> QED
      BY <2>2, <3>1, <3>2 DEF Loading, L
  <2> QED
    BY <2>1, <2>2
<1> QED
  BY <1>2, <1>3, <1>5, <1>6, <1>7, <1>8

\* The first call leaves the queue.
LEMMA FirstHandled ==
  ASSUME NEW q \in Seq(CallSet), q # <<>>, NEW v, NEW end, Views(q, v, end)
  PROVE  /\ Tail(q) \in Seq(CallSet) /\ Head(q) \in CallSet /\ Head(q) = q[1] /\ Len(q) # 0
         /\ StepView(Head(q), v[1], v[2]) /\ v[1] \in View /\ v[2] \in View
         /\ \E w : /\ Views(Tail(q), w, end) /\ w[1] = v[2]
                   /\ \A D : QueueFits(q, v, D) => QueueFits(Tail(q), w, D)
         /\ LoadFirst(q) => LoadFirst(Tail(q)) /\ ~ Loading(Tail(q))
<1> DEFINE L == Len(q)
           t == Tail(q)
<1>1. /\ StepView(Head(q), v[1], v[2]) /\ v[1] \in View /\ v[2] \in View
      /\ \E w : /\ Views(Tail(q), w, end)
                /\ \A k \in 1..Len(q) : w[k] = v[k + 1]
  BY ViewsTail
<1>2. PICK w : /\ Views(t, w, end)
               /\ \A k \in 1..L : w[k] = v[k + 1]
  BY <1>1
<1>3. Head(q) \in CallSet /\ Head(q) = q[1] /\ t \in Seq(CallSet) /\ Len(t) = L - 1 /\ L \in Nat \ {0} /\ \A k \in 1..L - 1 : t[k] = q[k + 1]
  BY TailFacts
<1> HIDE DEF L, t
<1>4. \A k \in 1..L - 1 : k + 1 \in 1..L /\ k \in 1..L /\ k + 1 # 1 /\ k \in Nat
  BY <1>3
<1>5. w[1] = v[2]
  <2>1. 1 \in 1..L /\ 1 + 1 = 2
    BY <1>3
  <2> QED
    BY <1>2, <2>1
<1>6. ASSUME NEW D, QueueFits(q, v, D) PROVE QueueFits(t, w, D)
  <2>1. Spares(t, w, D)
    <3>1. ASSUME NEW k \in 1..L - 1, t[k].on = "appsRemoved" PROVE w[k].list[t[k].row] \notin D
      <4>1. t[k] = q[k + 1] /\ w[k] = v[k + 1] /\ k + 1 \in 1..L
        BY <1>2, <1>3, <1>4
      <4>2. v[k + 1].list[q[k + 1].row] \notin D
        BY <1>6, <3>1, <4>1 DEF QueueFits, Spares, L
      <4> QED
        BY <4>1, <4>2
    <3> QED
      BY <1>3, <3>1 DEF Spares
  <2>2. ASSUME NEW j \in 1..L - 1, NEW k \in 1..L - 1, j < k
        PROVE  /\ t[k].on = "activeRemoved" => t[j].on # "activeInserted"
               /\ t[k].on = "appsRemoved" => t[j].on # "load" /\ t[j].on # "activeRemoved"
    <3>1. j + 1 \in 1..L /\ k + 1 \in 1..L /\ t[j] = q[j + 1] /\ t[k] = q[k + 1]
      BY <1>3, <1>4
    <3>2. j + 1 < k + 1
      BY <1>4, <2>2
    <3>3. /\ q[k + 1].on = "activeRemoved" => q[j + 1].on # "activeInserted"
          /\ q[k + 1].on = "appsRemoved" => q[j + 1].on # "load" /\ q[j + 1].on # "activeRemoved"
      BY <1>6, <3>1, <3>2 DEF QueueFits, CallsOrdered, L
    <3> QED
      BY <3>1, <3>3
  <2>3. CallsOrdered(t)
    BY <1>3, <2>2 DEF CallsOrdered
  <2> QED
    BY <2>1, <2>3 DEF QueueFits
<1>7. LoadFirst(q) => LoadFirst(t) /\ ~ Loading(t)
  <2> SUFFICES ASSUME LoadFirst(q) PROVE LoadFirst(t) /\ ~ Loading(t)
    OBVIOUS
  <2>1. \A k \in 1..L - 1 : t[k].on # "load"
    BY <1>3, <1>4 DEF LoadFirst, L
  <2>2. Len(t) # 0 => 1 \in 1..L - 1
    BY <1>3
  <2> QED
    BY <1>3, <2>1, <2>2 DEF LoadFirst, Loading
<1> QED
  BY <1>1, <1>2, <1>3, <1>5, <1>6, <1>7 DEF t, L

\* Calls that are not about rows are dropped.
LEMMA PickedQueue ==
  ASSUME NEW q \in Seq(CallSet), NEW v, NEW end, Views(q, v, end),
         NEW K \in SUBSET DOMAIN q, \A k \in DOMAIN q \ K : QuietCall(q[k]),
         NEW new, new = RowsAt(q, K)
  PROVE  /\ new \in Seq(CallSet)
         /\ \E w : /\ Views(new, w, end) /\ w[1] = v[1]
                   /\ \A D : QueueFits(q, v, D) => QueueFits(new, w, D)
         /\ LoadFirst(q) => LoadFirst(new) /\ (Loading(new) <=> Loading(q))
<1> DEFINE L == Len(q)
           N == Len(new)
<1>0. \A k \in DOMAIN q \ K : q[k].on \notin RowCalls /\ q[k].on # "load"
  BY DEF QuietCall
<1>1. /\ new \in Seq(CallSet)
      /\ \E w, f : Views(new, w, end) /\ PickedViews(new, q, K, w, v, f)
  BY <1>0, ViewsPicked
<1>2. PICK w, f : Views(new, w, end) /\ PickedViews(new, q, K, w, v, f)
  BY <1>1
<1>3. L \in Nat /\ N \in Nat /\ DOMAIN q = 1..L
  BY <1>1
<1>4. /\ w[1] = v[1]
      /\ f \in [1..N -> K]
      /\ \A i, j \in 1..N : i < j => f[i] < f[j]
      /\ \A x \in K : \E i \in 1..N : f[i] = x
      /\ \A i \in 1..N : new[i] = q[f[i]] /\ w[i] = v[f[i]]
  BY <1>2 DEF PickedViews
<1>5. K \in SUBSET (1..L)
  BY <1>3
<1> HIDE DEF L, N
<1>6. \A i \in 1..N : f[i] \in 1..L /\ f[i] \in K /\ f[i] \in Nat /\ i \in Nat
  <2>1. \A i \in 1..N : f[i] \in K
    BY <1>4
  <2>2. \A x \in K : x \in 1..L /\ x \in Nat
    BY <1>5
  <2>3. \A i \in 1..N : i \in Nat
    BY <1>3
  <2> QED
    BY <2>1, <2>2, <2>3, Zenon
<1>7. ASSUME NEW D, QueueFits(q, v, D) PROVE QueueFits(new, w, D)
  <2>1. ASSUME NEW k \in 1..N, new[k].on = "appsRemoved" PROVE w[k].list[new[k].row] \notin D
    <3> DEFINE x == f[k]
    <3>1. x \in 1..L /\ new[k] = q[x] /\ w[k] = v[x]
      BY <1>4, <1>6
    <3> HIDE DEF x
    <3> QED
      BY <1>7, <2>1, <3>1 DEF QueueFits, Spares, L
  <2>2. ASSUME NEW j \in 1..N, NEW k \in 1..N, j < k
        PROVE  /\ new[k].on = "activeRemoved" => new[j].on # "activeInserted"
               /\ new[k].on = "appsRemoved" => new[j].on # "load" /\ new[j].on # "activeRemoved"
    <3> DEFINE x == f[j]
               y == f[k]
    <3>1. x \in 1..L /\ y \in 1..L /\ x < y /\ new[j] = q[x] /\ new[k] = q[y]
      BY <1>4, <1>6, <2>2
    <3> HIDE DEF x, y
    <3> QED
      BY <1>7, <3>1 DEF QueueFits, CallsOrdered, L
  <2> QED
    BY <2>1, <2>2 DEF QueueFits, CallsOrdered, Spares, N
<1>8. ASSUME LoadFirst(q) PROVE LoadFirst(new) /\ (Loading(new) <=> Loading(q))
  <2>1. ASSUME NEW k \in 1..N, new[k].on = "load" PROVE f[k] = 1 /\ k = 1
    <3>1. f[k] = 1
      <4> DEFINE x == f[k]
      <4>1. x \in 1..L /\ new[k] = q[x]
        BY <1>4, <1>6
      <4> HIDE DEF x
      <4>2. x = 1
        BY <1>8, <2>1, <4>1 DEF LoadFirst, L
      <4> QED
        BY <4>2 DEF x
    <3>2. 1 \in 1..N /\ k \in Nat /\ (1 < k \/ k = 1)
      BY <1>3
    <3>3. f[1] \in Nat /\ 1 <= f[1]
      <4> DEFINE x == f[1]
      <4>1. x \in 1..L
        BY <1>6, <3>2
      <4> HIDE DEF x
      <4>2. x \in Nat /\ 1 <= x
        BY <1>3, <4>1
      <4> QED
        BY <4>2 DEF x
    <3>4. ~ (f[1] < f[k])
      BY <3>1, <3>3
    <3>5. ~ (1 < k)
      BY <1>4, <3>2, <3>4
    <3> QED
      BY <3>1, <3>2, <3>5
  <2>2. LoadFirst(new)
    BY <2>1 DEF LoadFirst, N
  <2>3. ASSUME Loading(new) PROVE Loading(q)
    <3>1. 1 \in 1..N /\ new[1].on = "load"
      BY <1>3, <2>3 DEF Loading, N
    <3>2. f[1] = 1 /\ new[1] = q[f[1]] /\ f[1] \in 1..L
      BY <1>4, <1>6, <2>1, <3>1
    <3>3. L # 0
      BY <1>3, <3>2
    <3> QED
      BY <3>1, <3>2, <3>3 DEF Loading, L
  <2>4. ASSUME Loading(q) PROVE Loading(new)
    <3>1. 1 \in 1..L /\ q[1].on = "load"
      BY <1>3, <2>4 DEF Loading, L
    <3>2. 1 \in K
      BY <1>0, <1>3, <3>1
    <3>3. PICK i \in 1..N : f[i] = 1
      BY <1>4, <3>2
    <3>4. new[i] = q[1]
      BY <1>4, <3>3
    <3>5. i = 1
      BY <2>1, <3>1, <3>4
    <3>6. N # 0
      BY <1>3
    <3> QED
      BY <3>1, <3>4, <3>5, <3>6 DEF Loading, N
  <2> QED
    BY <2>2, <2>3, <2>4
<1> QED
  BY <1>1, <1>2, <1>4, <1>7, <1>8

-----------------------------------------------------------------------------
(* The entries and what is queued.                                         *)

\* The docked applications that keep an entry.
Docked == (ToSet(dockedElements) \cap ToSet(apps)) \ late
NowView == [n |-> Len(windows), list |-> apps]

DataFits(data, a) == WindowsIn(data, 1..a.n) /\ LaunchersIn(data, a.list)
DocksIn(elements, data, D) == D \subseteq ToSet(elements) /\ D \subseteq IdsOf(data)

\* The list is that of the rows that the next call sees; it has the docked
\* applications that were loaded, and once that is done these are all.
ListFits(q, v, data, elements, D) ==
  /\ QueueFits(q, v, D)
  /\ DataFits(data, v[1])
  /\ D \cap ToSet(elements) \subseteq IdsOf(data)
  /\ ~ Loading(q) => D \subseteq ToSet(elements)

\* What is loaded is docked.
DocksNamed == ToSet(m_dockedElements) \subseteq ToSet(dockedElements)

EntryInv ==
  /\ LoadFirst(queue)
  /\ DocksNamed
  /\ \E v : /\ Views(queue, v, NowView)
            /\ ~ overtaken => ListFits(queue, v, m_data, m_dockedElements, Docked)

\* The parts of what the models are now.
LEMMA NowIs ==
  ASSUME ModelsInv
  PROVE  /\ NowView \in View /\ NowView.n = Len(windows) /\ NowView.list = apps
         /\ Len(windows) \in Nat /\ DOMAIN windows = 1..Len(windows)
         /\ Len(apps) \in Nat /\ DOMAIN apps = 1..Len(apps)
<1>1. /\ windows \in Seq(Window) /\ apps \in Seq(App)
      /\ Len(windows) \in Nat /\ DOMAIN windows = 1..Len(windows)
      /\ Len(apps) \in Nat /\ DOMAIN apps = 1..Len(apps)
  BY DEF ModelsInv
<1> QED
  BY <1>1, MadeView DEF NowView

\* A call is queued and the list stays.
LEMMA PostedFits ==
  ASSUME NEW q \in Seq(CallSet), NEW v, NEW a, Views(q, v, a), LoadFirst(q),
         NEW e \in CallSet, e.on # "load", NEW b \in View, StepView(e, a, b),
         NEW new, new = q \o <<e>>, NEW data, NEW elements
  PROVE  /\ new \in Seq(CallSet) /\ LoadFirst(new) /\ (Loading(new) <=> Loading(q))
         /\ \E w : /\ Views(new, w, b)
                   /\ \A D : ListFits(q, v, data, elements, D) /\ MayPost(q, a, e, D) => ListFits(new, w, data, elements, D)
<1>1. /\ new \in Seq(CallSet)
      /\ \E w : /\ Views(new, w, b) /\ w[1] = v[1]
                /\ \A D : QueueFits(q, v, D) /\ MayPost(q, a, e, D) => QueueFits(new, w, D)
      /\ LoadFirst(q) => LoadFirst(new)
      /\ Loading(new) <=> Loading(q)
  BY OneQueuedMore
<1>2. PICK w : /\ Views(new, w, b) /\ w[1] = v[1]
               /\ \A D : QueueFits(q, v, D) /\ MayPost(q, a, e, D) => QueueFits(new, w, D)
  BY <1>1
<1>3. \A D : ListFits(q, v, data, elements, D) /\ MayPost(q, a, e, D) => ListFits(new, w, data, elements, D)
  BY <1>1, <1>2 DEF ListFits
<1> QED
  BY <1>1, <1>2, <1>3

\* The list fits new as well as it fits q.
FitsAlike(new, q, v, end, data, elements) ==
  \E w : /\ Views(new, w, end)
         /\ \A D : ListFits(q, v, data, elements, D) => ListFits(new, w, data, elements, D)

\* Calls that change no rows are queued.
LEMMA MoreFits ==
  ASSUME NEW q \in Seq(CallSet), NEW v, NEW end, Views(q, v, end), LoadFirst(q),
         NEW extra \in Seq(CallSet), \A k \in 1..Len(extra) : QuietCall(extra[k]),
         NEW new, new = q \o extra, NEW data, NEW elements
  PROVE  /\ new \in Seq(CallSet) /\ LoadFirst(new) /\ (Loading(new) <=> Loading(q))
         /\ FitsAlike(new, q, v, end, data, elements)
<1>1. /\ new \in Seq(CallSet)
      /\ \E w : /\ Views(new, w, end) /\ w[1] = v[1]
                /\ \A D : QueueFits(q, v, D) => QueueFits(new, w, D)
      /\ LoadFirst(q) => LoadFirst(new)
      /\ Loading(new) <=> Loading(q)
  BY MoreQueued
<1>2. PICK w : /\ Views(new, w, end) /\ w[1] = v[1]
               /\ \A D : QueueFits(q, v, D) => QueueFits(new, w, D)
  BY <1>1
<1>3. \A D : ListFits(q, v, data, elements, D) => ListFits(new, w, data, elements, D)
  BY <1>1, <1>2 DEF ListFits
<1> QED
  BY <1>1, <1>2, <1>3 DEF FitsAlike

\* The child calls are such.
LEMMA ChildrenQuiet ==
  ASSUME NEW extra \in Seq(ChildCall)
  PROVE  extra \in Seq(CallSet) /\ \A k \in 1..Len(extra) : QuietCall(extra[k])
<1>1. extra \in Seq(CallSet)
  BY ChildrenCalled
<1>2. \A x \in ChildCall : QuietCall(x)
  BY DEF ChildCall, QuietCall, RowCalls
<1>3. \A k \in 1..Len(extra) : extra[k] \in ChildCall
  OBVIOUS
<1> QED
  BY <1>1, <1>2, <1>3

\* No call of a kind is queued.
LEMMA NoEvents ==
  ASSUME NEW on, Events(on) = {}, NEW S, queue \in Seq(S)
  PROVE  \A k \in 1..Len(queue) : queue[k].on # on
<1>1. ASSUME NEW k \in 1..Len(queue), queue[k].on = on PROVE FALSE
  <2>1. queue[k] \in ToSet(queue)
    BY DEF ToSet
  <2> QED
    BY <1>1, <2>1 DEF Events
<1> QED
  BY <1>1

\* The end of a proof that a step keeps the entries.
LEMMA EntryHolds ==
  ASSUME LoadFirst(queue'), DocksNamed',
         NEW w, Views(queue', w, NowView'),
         ~ overtaken' => ListFits(queue', w, m_data', m_dockedElements', Docked')
  PROVE  EntryInv'
BY DEF EntryInv

\* At the start the list is empty and its load is queued.
LEMMA EntryInit == Init => EntryInv
<1> SUFFICES ASSUME Init PROVE EntryInv
  OBVIOUS
<1>1. /\ m_data = <<>> /\ m_dockedElements = <<>> /\ windows = <<>>
      /\ queue = <<Event("load", 0, "")>>
  BY DEF Init, GlobalInit, CombineInit
<1> DEFINE v == [k \in 1..2 |-> NowView]
           e == Event("load", 0, "")
<1>2. ModelsInv
  BY ModelsInit
<1>3. NowView \in View /\ NowView.n = Len(windows) /\ Len(windows) = 0
  BY <1>1, <1>2, NowIs
<1>4. Len(queue) = 1 /\ queue[1] = e
  BY <1>1
<1>5. e.on = "load"
  BY DEF Event
<1>6. v[1] = NowView /\ v[2] = NowView /\ v \in [1..1 + 1 -> View] /\ 1 + 1 = 2
  BY <1>3
<1> HIDE DEF v, e
<1>7. \A k \in 1..1 : k = 1
  OBVIOUS
<1>8. StepView(e, NowView, NowView)
  <2>1. e.on \notin RowCalls
    BY <1>5 DEF RowCalls
  <2> QED
    BY <2>1, StandsQuiet
<1>9. Views(queue, v, NowView)
  <2>1. \A k \in 1..Len(queue) : StepView(queue[k], v[k], v[k + 1])
    BY <1>4, <1>6, <1>7, <1>8
  <2> QED
    BY <1>4, <1>6, <2>1 DEF Views
<1>10. Loading(queue) /\ LoadFirst(queue)
  BY <1>4, <1>5, <1>7 DEF Loading, LoadFirst
<1>11. QueueFits(queue, v, Docked)
  <2>1. Spares(queue, v, Docked)
    BY <1>4, <1>5, <1>7 DEF Spares
  <2>2. CallsOrdered(queue)
    BY <1>4, <1>5, <1>7 DEF CallsOrdered
  <2> QED
    BY <2>1, <2>2 DEF QueueFits
<1>12. DataFits(m_data, v[1])
  <2>0. DOMAIN << >> = {}
    OBVIOUS
  <2>1. DOMAIN m_data = {}
    BY <1>1, <2>0, Zenon
  <2>2. 1..v[1].n = {}
    BY <1>3, <1>6
  <2> QED
    BY <2>1, <2>2 DEF DataFits, WindowsIn, LaunchersIn
<1>13. ToSet(m_dockedElements) = {}
  <2>0. DOMAIN << >> = {}
    OBVIOUS
  <2>1. DOMAIN m_dockedElements = {}
    BY <1>1, <2>0, Zenon
  <2> QED
    BY <2>1 DEF ToSet
<1> QED
  BY <1>9, <1>10, <1>11, <1>12, <1>13 DEF EntryInv, ListFits, DocksNamed

-----------------------------------------------------------------------------
(* What windows, applications and the user do to the entries.              *)

\* The fewer docked, the easier.
LEMMA FewerDocked ==
  ASSUME NEW q, NEW v, NEW data, NEW elements, NEW D, NEW C, C \subseteq D,
         ListFits(q, v, data, elements, D)
  PROVE  ListFits(q, v, data, elements, C)
<1>1. Spares(q, v, C)
  BY DEF ListFits, QueueFits, Spares
<1> QED
  BY <1>1 DEF ListFits, QueueFits, DocksIn

\* q are the calls before the one about rows.
LEMMA PostKeeps ==
  ASSUME NEW q \in Seq(CallSet), LoadFirst(q),
         DocksNamed',
         NEW v, Views(q, v, NowView),
         ~ overtaken => ListFits(q, v, m_data, m_dockedElements, Docked),
         NEW e \in CallSet, e.on # "load", queue' = q \o <<e>>,
         m_data' = m_data, m_dockedElements' = m_dockedElements,
         NowView' \in View, StepView(e, NowView, NowView'),
         ~ overtaken' => ~ overtaken /\ MayPost(q, NowView, e, Docked') /\ Docked' \subseteq Docked
  PROVE  EntryInv'
<1>1. /\ LoadFirst(queue') /\ (Loading(queue') <=> Loading(q))
      /\ \E w : /\ Views(queue', w, NowView')
                /\ \A D : ListFits(q, v, m_data, m_dockedElements, D) /\ MayPost(q, NowView, e, D)
                            => ListFits(queue', w, m_data, m_dockedElements, D)
  <2> DEFINE new == queue'
             a == NowView
             b == NowView'
  <2>1. b \in View /\ StepView(e, a, b) /\ Views(q, v, a) /\ new = q \o <<e>>
    OBVIOUS
  <2> HIDE DEF new, a, b
  <2>2. /\ LoadFirst(new) /\ (Loading(new) <=> Loading(q))
        /\ \E w : /\ Views(new, w, b)
                  /\ \A D : ListFits(q, v, m_data, m_dockedElements, D) /\ MayPost(q, a, e, D)
                              => ListFits(new, w, m_data, m_dockedElements, D)
    BY <2>1, PostedFits
  <2> QED
    BY <2>2 DEF new, a, b
<1>2. PICK w : /\ Views(queue', w, NowView')
               /\ \A D : ListFits(q, v, m_data, m_dockedElements, D) /\ MayPost(q, NowView, e, D)
                            => ListFits(queue', w, m_data, m_dockedElements, D)
  BY <1>1
<1>3. ASSUME ~ overtaken' PROVE ListFits(queue', w, m_data, m_dockedElements, Docked')
  <2>1. ListFits(q, v, m_data, m_dockedElements, Docked')
    BY <1>3, FewerDocked
  <2> QED
    BY <1>2, <1>3, <2>1
<1> QED
  BY <1>1, <1>2, <1>3, EntryHolds

\* A call about one row of the windows.
LEMMA WindowPosts ==
  ASSUME ModelsInv, ModelsInv', ListInv, EntryInv,
         NEW e \in CallSet, e.on \in {"activeInserted", "activeRemoved", "activeChanged"}, Posts(<<e>>),
         UNCHANGED <<globalVars, apps, late>>,
         e.on = "activeInserted" => e.row = Len(windows) + 1 /\ Len(windows') = Len(windows) + 1,
         e.on = "activeRemoved" => e.row \in 1..Len(windows) /\ Len(windows') = Len(windows) - 1,
         e.on = "activeChanged" => Len(windows') = Len(windows),
         ~ overtaken' => ~ overtaken /\ (e.on = "activeRemoved" => Events("activeInserted") = {})
  PROVE  EntryInv'
<1>1. PICK v : /\ Views(queue, v, NowView)
               /\ ~ overtaken => ListFits(queue, v, m_data, m_dockedElements, Docked)
  BY DEF EntryInv
<1>2. NowView \in View /\ NowView.n = Len(windows) /\ NowView.list = apps /\ apps' = apps
  BY NowIs
<1>3. NowView' = [n |-> Len(windows'), list |-> apps']
  BY DEF NowView
<1>4. NowView' \in View /\ NowView'.n = Len(windows') /\ NowView'.list = apps'
  <2>1. Len(windows') \in Nat /\ apps' \in Seq(App)
    BY DEF ModelsInv
  <2> QED
    BY <1>3, <2>1, MadeView
<1>5. StepView(e, NowView, NowView')
  BY <1>2, <1>4 DEF StepView
<1>6. Docked' = Docked
  BY DEF Docked, globalVars
<1>7. ASSUME ~ overtaken' PROVE ~ overtaken /\ MayPost(queue, NowView, e, Docked')
  <2>1. ~ overtaken /\ e.on # "appsRemoved"
    BY <1>7
  <2>2. ASSUME e.on = "activeRemoved" PROVE \A k \in 1..Len(queue) : queue[k].on # "activeInserted"
    <3>1. Events("activeInserted") = {}
      BY <1>7, <2>2
    <3>2. queue \in Seq(CallSet)
      BY DEF ListInv
    <3> QED
      BY <3>1, <3>2, NoEvents
  <2> QED
    BY <2>1, <2>2 DEF MayPost
<1>8. queue \in Seq(CallSet) /\ LoadFirst(queue) /\ DocksNamed'
      /\ e.on # "load" /\ queue' = queue \o <<e>> /\ m_data' = m_data /\ m_dockedElements' = m_dockedElements
  BY DEF EntryInv, ListInv, Posts, globalVars, DocksNamed
<1>9. ~ overtaken' => ~ overtaken /\ MayPost(queue, NowView, e, Docked') /\ Docked' \subseteq Docked
  BY <1>6, <1>7
<1> QED
  BY <1>1, <1>4, <1>5, <1>8, <1>9, PostKeeps

\* A window opens.
LEMMA OpenEntries ==
  ASSUME ModelsInv, ModelsInv', ListInv, EntryInv,
         NEW w \in Window, NEW id \in App \cup Stranger, OpenWindow(w, id)
  PROVE  EntryInv'
<1> DEFINE e == Event("activeInserted", Len(windows'), "")
<1>1. /\ Posts(<<e>>) /\ windows' = Append(windows, w) /\ UNCHANGED <<globalVars, apps, late>>
      /\ overtaken' = overtaken
  BY DEF OpenWindow, Post, Posts, Unlisted
<1>2. Len(windows') = Len(windows) + 1 /\ Len(windows) \in Nat
  <2>1. windows \in Seq(Window) /\ Len(windows) \in Nat
    BY DEF ModelsInv
  <2> QED
    BY <1>1, <2>1, AppendRow
<1>3. e \in CallSet
  <2>1. Len(windows') \in Nat \ {0}
    BY <1>2
  <2> QED
    BY <2>1, RowCalled
<1>4. e.on = "activeInserted" /\ e.row = Len(windows')
  BY DEF Event
<1> HIDE DEF e
<1>5. /\ e.on \in {"activeInserted", "activeRemoved", "activeChanged"}
      /\ e.on = "activeInserted" => e.row = Len(windows) + 1 /\ Len(windows') = Len(windows) + 1
      /\ e.on # "activeRemoved" /\ e.on # "activeChanged"
  BY <1>2, <1>4
<1>6. ~ overtaken' => ~ overtaken /\ (e.on = "activeRemoved" => Events("activeInserted") = {})
  BY <1>1, <1>5
<1> QED
  BY <1>1, <1>3, <1>5, <1>6, WindowPosts

\* A window closes, and none that is still to be listed.
LEMMA CloseEntries ==
  ASSUME ModelsInv, ModelsInv', ListInv, EntryInv, NEW i \in DOMAIN windows, CloseWindow(i)
  PROVE  EntryInv'
<1> DEFINE e == Event("activeRemoved", i, "")
<1>1. /\ Posts(<<e>>) /\ windows' = RemoveAt(windows, i) /\ UNCHANGED <<globalVars, apps, late>>
      /\ overtaken' = (overtaken \/ Events("activeInserted") # {})
  BY DEF CloseWindow, Post, Posts, Unlisted
<1>2. Len(windows') = Len(windows) - 1 /\ i \in 1..Len(windows) /\ i \in Nat \ {0}
  <2>1. windows \in Seq(Window) /\ Len(windows) \in Nat /\ DOMAIN windows = 1..Len(windows)
    BY DEF ModelsInv
  <2>2. i \in 1..Len(windows) /\ i \in Nat \ {0}
    BY <2>1
  <2> QED
    BY <1>1, <2>1, <2>2, RemoveAtFacts
<1>3. e \in CallSet
  BY <1>2, RowCalled
<1>4. e.on = "activeRemoved" /\ e.row = i
  BY DEF Event
<1> HIDE DEF e
<1>5. ~ overtaken' => ~ overtaken /\ (e.on = "activeRemoved" => Events("activeInserted") = {})
  BY <1>1
<1> QED
  BY <1>1, <1>2, <1>3, <1>4, <1>5, WindowPosts

\* A window reports a change.
LEMMA ChangeEntries ==
  ASSUME ModelsInv, ModelsInv', ListInv, EntryInv, NEW i \in DOMAIN windows,
         (\E id \in App \cup Stranger : ChangeIdentity(i, id)) \/ ChangeState(i)
  PROVE  EntryInv'
<1>1. ASSUME NEW what \in {"identity", "state"}, Posts(<<Event("activeChanged", i, what)>>),
             windows' = windows, UNCHANGED <<globalVars, apps, late>>, overtaken' = overtaken
      PROVE  EntryInv'
  <2> DEFINE e == Event("activeChanged", i, what)
  <2>2. i \in Nat \ {0}
    <3>1. windows \in Seq(Window) /\ Len(windows) \in Nat /\ DOMAIN windows = 1..Len(windows)
      BY DEF ModelsInv
    <3> QED
      BY <3>1
  <2>3. e \in CallSet
    BY <2>2, RowCalled
  <2>4. e.on = "activeChanged" /\ Posts(<<e>>) /\ Len(windows') = Len(windows)
    BY <1>1 DEF Event
  <2> HIDE DEF e
  <2>5. /\ e.on \in {"activeInserted", "activeRemoved", "activeChanged"}
        /\ e.on # "activeInserted" /\ e.on # "activeRemoved"
    BY <2>4
  <2>6. ~ overtaken' => ~ overtaken /\ (e.on = "activeRemoved" => Events("activeInserted") = {})
    BY <1>1, <2>5
  <2> QED
    BY <1>1, <2>3, <2>4, <2>5, <2>6, WindowPosts
<1>2. ASSUME NEW id \in App \cup Stranger, ChangeIdentity(i, id) PROVE EntryInv'
  <2>1. /\ Posts(<<Event("activeChanged", i, "identity")>>)
        /\ windows' = windows /\ UNCHANGED <<globalVars, apps, late>> /\ overtaken' = overtaken
    BY <1>2 DEF ChangeIdentity, Post, Posts, Unlisted
  <2> QED
    BY <1>1, <2>1
<1>3. CASE ChangeState(i)
  <2>1. /\ Posts(<<Event("activeChanged", i, "state")>>)
        /\ windows' = windows /\ UNCHANGED <<globalVars, apps, late>> /\ overtaken' = overtaken
    BY <1>3 DEF ChangeState, Post, Posts, Unlisted
  <2> QED
    BY <1>1, <2>1
<1> QED
  BY <1>2, <1>3

\* Icons stay right when an application comes behind.
LEMMA MoreLaunchers ==
  ASSUME NEW data, NEW list \in Seq(App), NEW app \in App, LaunchersIn(data, list)
  PROVE  LaunchersIn(data, Append(list, app))
<1>1. \A i \in DOMAIN list : i \in DOMAIN Append(list, app) /\ Append(list, app)[i] = list[i]
  OBVIOUS
<1> QED
  BY <1>1 DEF LaunchersIn

\* An application that is installed is none that a queued call is about.
LEMMA InstalledFits ==
  ASSUME NEW q \in Seq(CallSet), NEW v, NEW end, Views(q, v, end), NEW app \in App,
         NEW new \in View, new.n = end.n, new.list = Append(end.list, app), NEW data, NEW elements
  PROVE  \E w : /\ Views(q, w, new)
                /\ \A D : ListFits(q, v, data, elements, D) => ListFits(q, w, data, elements, D)
<1>1. PICK w : /\ Views(q, w, new)
               /\ \A k \in 1..Len(q) + 1 : w[k] \in View /\ w[k].n = v[k].n /\ w[k].list = Append(v[k].list, app)
  BY ViewsInstalled
<1>2. /\ Len(q) \in Nat /\ \A k \in 1..Len(q) + 1 : v[k] \in View
      /\ \A k \in 1..Len(q) : StepView(q[k], v[k], v[k + 1])
  BY ViewsAt
<1>3. \A k \in 1..Len(q) : k \in 1..Len(q) + 1
  BY <1>2
<1>4. 1 \in 1..Len(q) + 1
  BY <1>2
<1>5. ASSUME NEW k \in 1..Len(q), q[k].on = "appsRemoved"
      PROVE  w[k].list[q[k].row] = v[k].list[q[k].row]
  <2> DEFINE list == v[k].list
             row == q[k].row
  <2>1. StepView(q[k], v[k], v[k + 1])
    BY <1>2
  <2>2. row \in DOMAIN list
    BY <1>5, <2>1 DEF StepView
  <2>3. list \in Seq(App) /\ w[k].list = Append(list, app)
    BY <1>1, <1>2, <1>3, ViewFields
  <2> HIDE DEF list, row
  <2>4. Append(list, app)[row] = list[row]
    BY <2>2, <2>3
  <2> QED
    BY <2>3, <2>4 DEF list, row
<1>6. ASSUME NEW D, ListFits(q, v, data, elements, D) PROVE ListFits(q, w, data, elements, D)
  <2>1. Spares(q, w, D)
    <3>1. \A k \in 1..Len(q) : q[k].on = "appsRemoved" => v[k].list[q[k].row] \notin D
      BY <1>6 DEF ListFits, QueueFits, Spares
    <3> QED
      BY <1>5, <3>1 DEF Spares
  <2>2. DataFits(data, w[1])
    <3> DEFINE list == v[1].list
    <3>1. list \in Seq(App) /\ w[1].list = Append(list, app) /\ w[1].n = v[1].n
      BY <1>1, <1>2, <1>4, ViewFields
    <3>2. LaunchersIn(data, list) /\ WindowsIn(data, 1..v[1].n)
      BY <1>6 DEF ListFits, DataFits
    <3> HIDE DEF list
    <3>3. LaunchersIn(data, Append(list, app))
      BY <3>1, <3>2, MoreLaunchers
    <3> QED
      BY <3>1, <3>2, <3>3 DEF DataFits
  <2> QED
    BY <1>6, <2>1, <2>2 DEF ListFits, QueueFits
<1> QED
  BY <1>1, <1>6

\* An application is installed; if it is docked it counts as late.
LEMMA InstallEntries ==
  ASSUME ModelsInv, ModelsInv', ListInv, EntryInv, NEW app \in App, Install(app)
  PROVE  EntryInv'
<1>1. /\ apps' = Append(apps, app) /\ app \notin ToSet(apps) /\ windows' = windows /\ queue' = queue
      /\ late' = late \cup ({app} \cap ToSet(dockedElements))
      /\ UNCHANGED <<m_data, m_dockedElements, dockedElements, overtaken>>
  BY DEF Install, Unlisted, globalVars
<1>2. PICK v : /\ Views(queue, v, NowView)
               /\ ~ overtaken => ListFits(queue, v, m_data, m_dockedElements, Docked)
  BY DEF EntryInv
<1>3. NowView \in View /\ NowView.n = Len(windows) /\ NowView.list = apps
  BY NowIs
<1>4. NowView' = [n |-> Len(windows'), list |-> apps']
  BY DEF NowView
<1>5. NowView' \in View /\ NowView'.n = NowView.n /\ NowView'.list = Append(NowView.list, app)
  <2>1. Len(windows') \in Nat /\ apps' \in Seq(App)
    BY DEF ModelsInv
  <2> QED
    BY <1>1, <1>3, <1>4, <2>1, MadeView
<1>6. Docked' = Docked
  <2>1. apps \in Seq(App)
    BY DEF ModelsInv
  <2>2. ToSet(apps') = ToSet(apps) \cup {app}
    <3> DEFINE n == Len(apps)
               s == Append(apps, app)
    <3>1. /\ n \in Nat /\ DOMAIN apps = 1..n /\ DOMAIN s = 1..n + 1 /\ s[n + 1] = app
          /\ \A j \in 1..n : s[j] = apps[j]
      BY <2>1
    <3> HIDE DEF n, s
    <3>2. \A j \in 1..n + 1 : j \in 1..n \/ j = n + 1
      BY <3>1
    <3>3. n + 1 \in 1..n + 1 /\ \A j \in 1..n : j \in 1..n + 1
      BY <3>1
    <3>4. ToSet(s) = ToSet(apps) \cup {app}
      BY <3>1, <3>2, <3>3 DEF ToSet
    <3> QED
      BY <1>1, <3>4 DEF s
  <2>3. (ToSet(dockedElements) \cap ToSet(apps)) \ late = (ToSet(dockedElements) \cap ToSet(apps')) \ late'
    BY <1>1, <2>2
  <2> QED
    BY <1>1, <2>3 DEF Docked
<1>7. \E w : /\ Views(queue, w, NowView')
             /\ \A D : ListFits(queue, v, m_data, m_dockedElements, D) => ListFits(queue, w, m_data, m_dockedElements, D)
  <2> DEFINE new == NowView'
             end == NowView
  <2>1. new \in View /\ new.n = end.n /\ new.list = Append(end.list, app) /\ Views(queue, v, end) /\ queue \in Seq(CallSet)
    BY <1>2, <1>5 DEF ListInv
  <2> HIDE DEF new, end
  <2>2. \E w : /\ Views(queue, w, new)
               /\ \A D : ListFits(queue, v, m_data, m_dockedElements, D) => ListFits(queue, w, m_data, m_dockedElements, D)
    BY <2>1, InstalledFits
  <2> QED
    BY <2>2 DEF new
<1>8. PICK w : /\ Views(queue, w, NowView')
               /\ \A D : ListFits(queue, v, m_data, m_dockedElements, D) => ListFits(queue, w, m_data, m_dockedElements, D)
  BY <1>7
<1>9. /\ LoadFirst(queue') /\ DocksNamed'
      /\ Views(queue', w, NowView')
  BY <1>1, <1>8 DEF EntryInv, DocksNamed
<1>10. ~ overtaken' => ListFits(queue', w, m_data', m_dockedElements', Docked')
  BY <1>1, <1>2, <1>6, <1>8
<1> QED
  BY <1>9, <1>10, EntryHolds

\* An application goes, and none that a queued handler looks up.
LEMMA UninstallEntries ==
  ASSUME ModelsInv, ModelsInv', BindingsFollow, ListInv, EntryInv, NEW i \in DOMAIN apps, Uninstall(i)
  PROVE  EntryInv'
<1> DEFINE e == Event("appsRemoved", i, "")
           q == queue \o Lost(i)
<1>1. /\ apps' = RemoveAt(apps, i) /\ windows' = windows
      /\ Posts(Lost(i) \o <<e>>)
      /\ overtaken' = (overtaken \/ Events("load") \cup Events("activeRemoved") # {})
      /\ UNCHANGED <<m_data, m_dockedElements, dockedElements, late>>
  BY DEF Uninstall, Unlisted, globalVars, Post, Posts, Lost
<1>2. PICK v : /\ Views(queue, v, NowView)
               /\ ~ overtaken => ListFits(queue, v, m_data, m_dockedElements, Docked)
  BY DEF EntryInv
<1>3. NowView \in View /\ NowView.n = Len(windows) /\ NowView.list = apps
  BY NowIs
<1>4. NowView' = [n |-> Len(windows'), list |-> apps']
  BY DEF NowView
<1>a. apps \in Seq(App) /\ IsInjective(apps) /\ i \in 1..Len(apps) /\ i \in Nat \ {0}
  BY DEF ModelsInv
<1>5. NowView' \in View /\ NowView'.n = NowView.n /\ NowView'.list = RemoveAt(NowView.list, i)
  <2>1. Len(windows') \in Nat /\ apps' \in Seq(App)
    BY DEF ModelsInv
  <2> QED
    BY <1>1, <1>3, <1>4, <2>1, MadeView
<1>6. e \in CallSet /\ e.on = "appsRemoved" /\ e.row = i
  <2>1. e \in CallSet
    BY <1>a, RowCalled
  <2> QED
    BY <2>1 DEF Event
<1> HIDE DEF e
<1>7. Lost(i) \in Seq(CallSet) /\ \A k \in 1..Len(Lost(i)) : Lost(i)[k].on = "activeChanged"
  BY LostCalls
<1>8. queue \in Seq(CallSet) /\ LoadFirst(queue) /\ DocksNamed
  BY DEF ListInv, EntryInv
<1>9. queue' = q \o <<e>>
  <2>1. <<e>> \in Seq(CallSet)
    BY <1>6
  <2>2. (queue \o Lost(i)) \o <<e>> = queue \o (Lost(i) \o <<e>>)
    BY <1>7, <1>8, <2>1, RowsAssociate
  <2> QED
    BY <1>1, <2>2 DEF Posts
<1>10. \A k \in 1..Len(Lost(i)) : QuietCall(Lost(i)[k])
  BY <1>7 DEF QuietCall, RowCalls
<1>11. q = queue \o Lost(i)
  OBVIOUS
<1> HIDE DEF q
<1>12. /\ q \in Seq(CallSet) /\ LoadFirst(q) /\ (Loading(q) <=> Loading(queue))
       /\ \E w : /\ Views(q, w, NowView)
                 /\ \A D : ListFits(queue, v, m_data, m_dockedElements, D) => ListFits(q, w, m_data, m_dockedElements, D)
  <2> DEFINE extra == Lost(i)
             end == NowView
  <2>1. /\ queue \in Seq(CallSet) /\ Views(queue, v, end) /\ LoadFirst(queue)
        /\ extra \in Seq(CallSet) /\ (\A k \in 1..Len(extra) : QuietCall(extra[k])) /\ q = queue \o extra
    BY <1>2, <1>7, <1>8, <1>10, <1>11
  <2> HIDE DEF extra, end
  <2>2. /\ q \in Seq(CallSet) /\ LoadFirst(q) /\ (Loading(q) <=> Loading(queue))
        /\ FitsAlike(q, queue, v, end, m_data, m_dockedElements)
    BY <2>1, MoreFits
  <2> QED
    BY <2>2 DEF end, FitsAlike
<1>13. PICK w : /\ Views(q, w, NowView)
                /\ \A D : ListFits(queue, v, m_data, m_dockedElements, D) => ListFits(q, w, m_data, m_dockedElements, D)
  BY <1>12
<1>14. StepView(e, NowView, NowView')
  BY <1>3, <1>5, <1>6 DEF StepView
<1>15. Docked' \subseteq Docked /\ apps[i] \notin Docked'
  <2> DEFINE n == Len(apps)
             r == RemoveAt(apps, i)
  <2>1. /\ r \in Seq(App) /\ Len(r) = n - 1
        /\ \A j \in 1..n - 1 : r[j] = apps[IF j < i THEN j ELSE j + 1]
    BY <1>a, RemoveAtFacts
  <2>2. n \in Nat /\ DOMAIN apps = 1..n
    BY <1>a
  <2> HIDE DEF n, r
  <2>3. \A j \in 1..n - 1 : LET o == IF j < i THEN j ELSE j + 1 IN o \in 1..n /\ o # i
    BY <1>a, <2>2
  <2>4. ASSUME NEW x \in ToSet(r) PROVE x \in ToSet(apps) /\ x # apps[i]
    <3>1. DOMAIN r = 1..n - 1
      BY <2>1, <2>2
    <3>2. PICK j \in 1..n - 1 : x = r[j]
      BY <3>1 DEF ToSet
    <3> DEFINE o == IF j < i THEN j ELSE j + 1
    <3>3. o \in DOMAIN apps /\ o # i /\ x = apps[o]
      BY <2>1, <2>2, <2>3, <3>2
    <3> HIDE DEF o
    <3> QED
      BY <1>a, <2>2, <3>3 DEF ToSet, IsInjective
  <2>5. Docked' = (ToSet(dockedElements) \cap ToSet(r)) \ late
    BY <1>1 DEF Docked, r
  <2> QED
    BY <2>4, <2>5 DEF Docked
<1>16. ASSUME ~ overtaken' PROVE ~ overtaken /\ MayPost(q, NowView, e, Docked') /\ Docked' \subseteq Docked
  <2>1. ~ overtaken /\ Events("load") = {} /\ Events("activeRemoved") = {}
    BY <1>1, <1>16
  <2>2. \A k \in 1..Len(queue) : queue[k].on # "load" /\ queue[k].on # "activeRemoved"
    BY <1>8, <2>1, NoEvents
  <2>3. \A k \in 1..Len(q) : q[k].on # "load" /\ q[k].on # "activeRemoved"
    <3> DEFINE L == Len(queue)
               M == Len(Lost(i))
    <3>1. /\ Len(q) = L + M /\ L \in Nat /\ M \in Nat
          /\ \A k \in 1..L : q[k] = queue[k]
          /\ \A k \in 1..L + M : k > L => q[k] = Lost(i)[k - L] /\ k - L \in 1..M
      BY <1>7, <1>8, <1>11, QueueGrows
    <3>2. \A k \in 1..L : queue[k].on # "load" /\ queue[k].on # "activeRemoved"
      BY <2>2
    <3>3. \A k \in 1..M : Lost(i)[k].on = "activeChanged"
      BY <1>7
    <3> HIDE DEF L, M
    <3>4. \A k \in 1..L + M : k \in 1..L \/ k > L
      BY <3>1
    <3> QED
      BY <3>1, <3>2, <3>3, <3>4
  <2>4. e.on # "activeRemoved" /\ NowView.list[e.row] \notin Docked'
    BY <1>3, <1>6, <1>15
  <2> QED
    BY <1>15, <2>1, <2>3, <2>4 DEF MayPost
<1>17. DocksNamed'
  BY <1>1, <1>8 DEF DocksNamed
<1>18. ~ overtaken => ListFits(q, w, m_data, m_dockedElements, Docked)
  BY <1>2, <1>13
<1>19. e.on # "load" /\ m_data' = m_data /\ m_dockedElements' = m_dockedElements
  BY <1>1, <1>6
<1> QED
  BY <1>5, <1>6, <1>9, <1>12, <1>13, <1>14, <1>16, <1>17, <1>18, <1>19, PostKeeps

-----------------------------------------------------------------------------
(* What changes the list.                                                  *)

\* The group model queues calls for itself behind those of q.
LEMMA FollowedKeeps ==
  ASSUME NEW q \in Seq(CallSet), NEW v, Views(q, v, NowView'), LoadFirst(q),
         NEW extra \in Seq(ChildCall), queue' = q \o extra,
         DocksNamed',
         ~ overtaken' => ListFits(q, v, m_data', m_dockedElements', Docked')
  PROVE  EntryInv'
<1> DEFINE new == queue'
           end == NowView'
           data == m_data'
           elements == m_dockedElements'
<1>1. /\ Views(q, v, end) /\ new = q \o extra
      /\ extra \in Seq(CallSet) /\ \A k \in 1..Len(extra) : QuietCall(extra[k])
  BY ChildrenQuiet
<1> HIDE DEF new, end, data, elements
<1>2. LoadFirst(new) /\ (Loading(new) <=> Loading(q)) /\ FitsAlike(new, q, v, end, data, elements)
  BY <1>1, MoreFits
<1>3. PICK w : /\ Views(new, w, end)
               /\ \A D : ListFits(q, v, data, elements, D) => ListFits(new, w, data, elements, D)
  BY <1>2 DEF FitsAlike
<1> QED
  BY <1>2, <1>3, EntryHolds DEF new, end, data, elements

\* No application goes, so whichever are docked are spared.
LEMMA NoneGoes ==
  ASSUME NEW q, NEW v, NEW D, NEW C, QueueFits(q, v, D),
         \A k \in 1..Len(q) : q[k].on # "appsRemoved"
  PROVE  QueueFits(q, v, C)
BY DEF QueueFits, Spares

\* The docked elements are loaded: of those that are installed none is left
\* without an entry, unless it was late and is late still.
LEMMA LoadEntries ==
  ASSUME ModelsInv, ListInv, DocksNamed, NEW elements \in Seq(ElementIds),
         dockedElements' = elements, apps' = apps,
         NEW rest \in Seq(CallSet), LoadElements(elements, rest)
  PROVE  /\ DocksNamed' /\ \E extra \in Seq(ChildCall) : queue' = rest \o extra
         /\ \A a : /\ a.list = apps /\ DataFits(m_data, a)
                  /\ Docked \cap ToSet(m_dockedElements) \subseteq IdsOf(m_data)
                  => DataFits(m_data', a) /\ DocksIn(m_dockedElements', m_data', Docked')
<1>0. /\ apps \in Seq(App) /\ m_data \in Seq(RowSet) /\ m_dockedElements \in Seq(App) /\ windowSplit \in BOOLEAN
      /\ GroupsFit(windowSplit, groups, Len(m_data)) /\ dockedElements \in Seq(ElementIds)
  BY DEF ModelsInv, ListInv
<1> DEFINE u == Load(elements)
<1>1. /\ u = Load(elements) /\ Apply(u, rest) /\ m_dockedElements' = Installed(elements)
      /\ late' = late \cap ToSet(m_dockedElements)
  BY DEF LoadElements
<1> HIDE DEF u
<1>2. /\ UpdateFits(u, Len(m_data)) /\ Refreshes(u.data, m_data)
      /\ \A x \in ToSet(Installed(elements)) :
           x \in IdsOf(m_data) \/ x \notin ToSet(m_dockedElements) => x \in IdsOf(u.data)
  BY <1>0, <1>1, LoadFacts
<1>3. \A x : x \in ToSet(Installed(elements)) <=> x \in ToSet(elements) /\ x \in ToSet(apps)
  BY <1>0, InstalledFacts
<1>4. m_data' = u.data /\ \E extra \in Seq(ChildCall) : queue' = rest \o extra
  BY <1>0, <1>1, <1>2, ApplyFacts
<1>5. Docked' = (ToSet(elements) \cap ToSet(apps)) \ (late \cap ToSet(m_dockedElements))
  BY <1>1 DEF Docked
<1>6. ASSUME NEW a, a.list = apps, DataFits(m_data, a),
             Docked \cap ToSet(m_dockedElements) \subseteq IdsOf(m_data)
      PROVE  DataFits(u.data, a) /\ DocksIn(Installed(elements), u.data, Docked')
  <2>1. DataFits(u.data, a)
    BY <1>2, <1>6 DEF DataFits, Refreshes
  <2>2. ASSUME NEW x \in Docked' PROVE x \in ToSet(Installed(elements)) /\ x \in IdsOf(u.data)
    <3>1. x \in ToSet(elements) /\ x \in ToSet(apps) /\ (x \in ToSet(m_dockedElements) => x \notin late)
      BY <1>5, <2>2
    <3>2. x \in ToSet(Installed(elements))
      BY <1>3, <3>1
    <3>3. ASSUME x \in ToSet(m_dockedElements) PROVE x \in IdsOf(m_data)
      BY <1>6, <3>1, <3>3 DEF Docked, DocksNamed
    <3> QED
      BY <1>2, <3>2, <3>3
  <2> QED
    BY <2>1, <2>2 DEF DocksIn
<1>7. DocksNamed'
  BY <1>1, <1>3 DEF DocksNamed
<1> QED
  BY <1>1, <1>4, <1>6, <1>7

\* The docked elements are set anew, and no application is to go.
LEMMA DockEntries ==
  ASSUME ModelsInv, ListInv, EntryInv, DockStep
  PROVE  EntryInv'
<1>0. /\ dockedElements \in Seq(ElementIds) /\ m_data \in Seq(RowSet) /\ queue \in Seq(CallSet)
      /\ LoadFirst(queue) /\ DocksNamed
  BY DEF ListInv, EntryInv
<1>1. PICK elements \in Seq(ElementIds) : SetDockedElements(elements)
  BY <1>0, DockStepSets
<1>2. /\ dockedElements' = elements /\ LoadElements(elements, queue)
      /\ overtaken' = (overtaken \/ Events("appsRemoved") # {})
      /\ windows' = windows /\ apps' = apps
  BY <1>1 DEF SetDockedElements, combineVars
<1>3. /\ DocksNamed' /\ \E extra \in Seq(ChildCall) : queue' = queue \o extra
      /\ \A a : /\ a.list = apps /\ DataFits(m_data, a)
               /\ Docked \cap ToSet(m_dockedElements) \subseteq IdsOf(m_data)
               => DataFits(m_data', a) /\ DocksIn(m_dockedElements', m_data', Docked')
  BY <1>0, <1>1, <1>2, LoadEntries
<1>4. PICK extra \in Seq(ChildCall) : queue' = queue \o extra
  BY <1>3
<1>5. PICK v : /\ Views(queue, v, NowView)
               /\ ~ overtaken => ListFits(queue, v, m_data, m_dockedElements, Docked)
  BY DEF EntryInv
<1>6. NowView' = NowView
  BY <1>2 DEF NowView
<1>7. ASSUME ~ overtaken' PROVE ListFits(queue, v, m_data', m_dockedElements', Docked')
  <2>1. ~ overtaken /\ Events("appsRemoved") = {}
    BY <1>2, <1>7
  <2>2. \A k \in 1..Len(queue) : queue[k].on # "appsRemoved"
    BY <1>0, <2>1, NoEvents
  <2>3. /\ QueueFits(queue, v, Docked) /\ DataFits(m_data, v[1])
        /\ Docked \cap ToSet(m_dockedElements) \subseteq IdsOf(m_data)
    BY <1>5, <2>1 DEF ListFits
  <2>4. QueueFits(queue, v, Docked')
    BY <2>2, <2>3, NoneGoes
  <2>5. v[1].list = apps
    <3>1. 1 \in 1..Len(queue) + 1
      BY <1>0
    <3>2. v[1].list = NowView.list
      BY <1>0, <1>5, <2>2, <3>1, SteadyViews
    <3> QED
      BY <3>2, NowIs
  <2>6. DataFits(m_data', v[1]) /\ DocksIn(m_dockedElements', m_data', Docked')
    BY <1>3, <2>3, <2>5
  <2> QED
    BY <2>4, <2>6 DEF ListFits, DocksIn
<1> QED
  BY <1>0, <1>3, <1>4, <1>5, <1>6, <1>7, FollowedKeeps

\* The entries in another order.
LEMMA RearrangedFits ==
  ASSUME NEW new \in Seq(RowSet), NEW data \in Seq(RowSet), NEW f, Rearranges(new, data, f)
  PROVE  /\ \A a : DataFits(data, a) => DataFits(new, a)
         /\ IdsOf(new) = IdsOf(data)
<1>1. /\ \A S : WindowsIn(data, S) => WindowsIn(new, S)
      /\ \A list : LaunchersIn(data, list) => LaunchersIn(new, list)
      /\ IdsOf(new) = IdsOf(data)
  BY RearrangedEdit
<1> QED
  BY <1>1 DEF DataFits

\* A step that only orders the entries anew and drops or keeps queued calls.
LEMMA OrderKeeps ==
  ASSUME ListInv', EntryInv, m_data \in Seq(RowSet), m_data' = m_data \/ \E f : Rearranges(m_data', m_data, f),
         UNCHANGED <<windows, apps, m_dockedElements, dockedElements, overtaken, late>>,
         NEW v, Views(queue, v, NowView),
         ~ overtaken => ListFits(queue, v, m_data, m_dockedElements, Docked),
         NEW w, Views(queue', w, NowView), w[1] = v[1],
         \A D : QueueFits(queue, v, D) => QueueFits(queue', w, D),
         LoadFirst(queue'), Loading(queue') <=> Loading(queue)
  PROVE  EntryInv'
<1>1. NowView' = NowView /\ Docked' = Docked
  BY DEF NowView, Docked
<1>2. /\ \A a : DataFits(m_data, a) => DataFits(m_data', a)
      /\ IdsOf(m_data') = IdsOf(m_data)
  <2>1. CASE m_data' = m_data
    BY <2>1
  <2>2. CASE \E f : Rearranges(m_data', m_data, f)
    <3>1. m_data' \in Seq(RowSet)
      BY DEF ListInv
    <3> QED
      BY <2>2, <3>1, RearrangedFits
  <2> QED
    BY <2>1, <2>2
<1>3. DocksNamed'
  BY DEF EntryInv, DocksNamed
<1>4. ~ overtaken' => ListFits(queue', w, m_data', m_dockedElements', Docked')
  <2> SUFFICES ASSUME ~ overtaken' PROVE ListFits(queue', w, m_data', m_dockedElements', Docked')
    OBVIOUS
  <2>1. ListFits(queue, v, m_data, m_dockedElements, Docked)
    OBVIOUS
  <2>2. QueueFits(queue', w, Docked)
    BY <2>1 DEF ListFits
  <2>3. DataFits(m_data', w[1])
    BY <1>2, <2>1 DEF ListFits
  <2>4. /\ Docked \cap ToSet(m_dockedElements) \subseteq IdsOf(m_data')
        /\ ~ Loading(queue') => Docked \subseteq ToSet(m_dockedElements)
    BY <1>2, <2>1 DEF ListFits
  <2> QED
    BY <1>1, <2>2, <2>3, <2>4 DEF ListFits
<1>5. Views(queue', w, NowView')
  BY <1>1
<1> QED
  BY <1>3, <1>4, <1>5, EntryHolds

\* Windows are shown apart or together.
LEMMA SplitEntries ==
  ASSUME ModelsInv, Named, ListInv, EntryInv, SetWindowSplit
  PROVE  EntryInv'
<1>1. /\ queue' = RowsAt(queue, {k \in DOMAIN queue : ~ OfGroups(queue[k])})
      /\ UNCHANGED <<windows, apps, m_dockedElements, dockedElements, overtaken, late>>
  BY DEF SetWindowSplit, combineVars
<1>2. ListInv' /\ (m_data' = m_data \/ \E f : Rearranges(m_data', m_data, f))
  BY SplitKeeps
<1>3. queue \in Seq(CallSet) /\ m_data \in Seq(RowSet) /\ LoadFirst(queue)
  BY DEF ListInv, EntryInv
<1>4. PICK v : /\ Views(queue, v, NowView)
               /\ ~ overtaken => ListFits(queue, v, m_data, m_dockedElements, Docked)
  BY DEF EntryInv
<1> DEFINE K == {k \in DOMAIN queue : ~ OfGroups(queue[k])}
           new == queue'
           end == NowView
<1>5. K \in SUBSET DOMAIN queue /\ new = RowsAt(queue, K) /\ Views(queue, v, end)
  BY <1>1, <1>4
<1>6. \A k \in DOMAIN queue \ K : QuietCall(queue[k])
  <2>1. \A k \in DOMAIN queue \ K : OfGroups(queue[k])
    OBVIOUS
  <2>2. \A x : OfGroups(x) => QuietCall(x)
    BY DEF OfGroups, QuietCall, RowCalls
  <2> QED
    BY <2>1, <2>2
<1> HIDE DEF K, new, end
<1>7. /\ \E w : /\ Views(new, w, end) /\ w[1] = v[1]
                /\ \A D : QueueFits(queue, v, D) => QueueFits(new, w, D)
      /\ LoadFirst(queue) => LoadFirst(new) /\ (Loading(new) <=> Loading(queue))
  BY <1>3, <1>5, <1>6, PickedQueue
<1>8. PICK w : /\ Views(new, w, end) /\ w[1] = v[1]
               /\ \A D : QueueFits(queue, v, D) => QueueFits(new, w, D)
  BY <1>7
<1>9. /\ Views(queue', w, NowView) /\ w[1] = v[1] /\ LoadFirst(queue') /\ (Loading(queue') <=> Loading(queue))
      /\ \A D : QueueFits(queue, v, D) => QueueFits(queue', w, D)
  BY <1>3, <1>7, <1>8 DEF new, end
<1> QED
  BY <1>1, <1>2, <1>3, <1>4, <1>9, OrderKeeps

\* An entry is moved.
LEMMA MoveEntries ==
  ASSUME ListInv, EntryInv, NEW from \in DOMAIN m_data, NEW to \in DOMAIN m_data, MoveItem(from, to)
  PROVE  EntryInv'
<1>1. /\ queue' = queue
      /\ UNCHANGED <<windows, apps, m_dockedElements, dockedElements, overtaken, late>>
  BY DEF MoveItem, combineVars
<1>2. ListInv' /\ \E f : Rearranges(m_data', m_data, f)
  BY MoveKeeps
<1>3. m_data \in Seq(RowSet) /\ LoadFirst(queue)
  BY DEF ListInv, EntryInv
<1>4. PICK v : /\ Views(queue, v, NowView)
               /\ ~ overtaken => ListFits(queue, v, m_data, m_dockedElements, Docked)
  BY DEF EntryInv
<1>5. /\ Views(queue', v, NowView) /\ v[1] = v[1] /\ LoadFirst(queue') /\ (Loading(queue') <=> Loading(queue))
      /\ \A D : QueueFits(queue, v, D) => QueueFits(queue', v, D)
  BY <1>1, <1>3, <1>4
<1> QED
  BY <1>1, <1>2, <1>3, <1>4, <1>5, OrderKeeps

-----------------------------------------------------------------------------
(* The next queued call.                                                   *)

\* Every entry has the row in its model that the call sees.
LEMMA DockedLoaded ==
  ASSUME NEW q, NEW v, NEW data, NEW elements, NEW D, ListFits(q, v, data, elements, D), q[1].on # "load"
  PROVE  DocksIn(elements, data, D)
BY DEF ListFits, Loading, DocksIn

\* The handlers of rows.
LEMMA RowEntries ==
  ASSUME ModelsInv, Named, ListInv, NEW e \in CallSet, e.on \in RowCalls,
         NEW rest \in Seq(CallSet), RowHandled(e, rest),
         NEW a \in View, NEW b \in View, StepView(e, a, b), NEW D, D \subseteq ToSet(apps),
         DataFits(m_data, a), DocksIn(m_dockedElements, m_data, D),
         e.on = "activeInserted" => b.n <= Len(windows),
         e.on = "activeRemoved" => a.list = apps,
         e.on = "appsRemoved" => a.list[e.row] \notin D
  PROVE  /\ DataFits(m_data', b) /\ DocksIn(m_dockedElements', m_data', D)
         /\ \E extra \in Seq(ChildCall) : queue' = rest \o extra
<1>0. /\ apps \in Seq(App) /\ m_data \in Seq(RowSet) /\ windowSplit \in BOOLEAN
      /\ GroupsFit(windowSplit, groups, Len(m_data))
  BY DEF ModelsInv, ListInv
<1>1. e.row \in Nat \ {0}
  BY CallFields
<1>2. m_dockedElements' = m_dockedElements
  BY DEF RowHandled
<1>3. a.n \in Nat /\ b.n \in Nat /\ a.list \in Seq(App)
  BY ViewFields
<1>4. WindowsIn(m_data, 1..a.n) /\ LaunchersIn(m_data, a.list) /\ D \subseteq ToSet(m_dockedElements) /\ D \subseteq IdsOf(m_data)
  BY DEF DataFits, DocksIn
<1>5. CASE e.on = "activeInserted"
  <2> DEFINE i == e.row
             u == ActiveInserted(i)
  <2>1. Apply(u, rest)
    BY <1>5 DEF RowHandled
  <2>2. u = ActiveInserted(i) /\ i \in Nat \ {0}
    BY <1>1
  <2>3. i = a.n + 1 /\ b.n = a.n + 1 /\ b.list = a.list
    BY <1>5 DEF StepView
  <2> HIDE DEF u, i
  <2>4. i \in 1..Len(windows)
    <3>1. Len(windows) \in Nat
      BY NowIs
    <3> QED
      BY <1>3, <1>5, <2>3, <3>1
  <2>5. DesktopId(i) \in ElementIds \cup {NoId} /\ DesktopId(i) # NoId
    BY <2>4, DesktopIdTyped
  <2>6. /\ UpdateFits(u, Len(m_data))
        /\ DesktopId(i) # NoId =>
             /\ \A n \in Nat : i = n + 1 /\ WindowsIn(m_data, 1..n) => WindowsIn(u.data, 1..n + 1)
             /\ \A list : LaunchersIn(m_data, list) => LaunchersIn(u.data, list)
             /\ IdsOf(m_data) \subseteq IdsOf(u.data)
    BY <1>0, <2>2, <2>5, ActiveInsertedFacts
  <2>7. m_data' = u.data /\ \E extra \in Seq(ChildCall) : queue' = rest \o extra
    BY <1>0, <2>1, <2>6, ApplyFacts
  <2>8. WindowsIn(u.data, 1..a.n + 1)
    BY <1>3, <1>4, <2>3, <2>5, <2>6
  <2>9. LaunchersIn(u.data, a.list) /\ IdsOf(m_data) \subseteq IdsOf(u.data)
    BY <1>4, <2>5, <2>6
  <2>10. DataFits(u.data, b)
    BY <2>3, <2>8, <2>9 DEF DataFits
  <2>11. DocksIn(m_dockedElements, u.data, D)
    BY <1>4, <2>9 DEF DocksIn
  <2> QED
    BY <1>2, <2>7, <2>10, <2>11
<1>6. CASE e.on = "activeRemoved"
  <2> DEFINE i == e.row
             u == ActiveRemoved(i)
  <2>1. Apply(u, rest)
    BY <1>6 DEF RowHandled
  <2>2. u = ActiveRemoved(i) /\ i \in Nat \ {0}
    BY <1>1
  <2>3. i \in 1..a.n /\ b.n = a.n - 1 /\ b.list = a.list
    BY <1>6 DEF StepView
  <2> HIDE DEF u, i
  <2>6. /\ UpdateFits(u, Len(m_data))
        /\ \A n \in Nat : i \in 1..n /\ WindowsIn(m_data, 1..n) =>
             /\ WindowsIn(u.data, 1..n - 1)
             /\ LaunchersIn(m_data, apps) => LaunchersIn(u.data, apps)
        /\ \A x \in IdsOf(m_data) : x \in ToSet(m_dockedElements) /\ x \in ToSet(apps) => x \in IdsOf(u.data)
    BY <1>0, <2>2, ActiveRemovedFacts
  <2>7. m_data' = u.data /\ \E extra \in Seq(ChildCall) : queue' = rest \o extra
    BY <1>0, <2>1, <2>6, ApplyFacts
  <2>8. WindowsIn(u.data, 1..a.n - 1) /\ LaunchersIn(u.data, a.list)
    BY <1>3, <1>4, <1>6, <2>3, <2>6
  <2>10. DataFits(u.data, b)
    BY <2>3, <2>8 DEF DataFits
  <2>11. DocksIn(m_dockedElements, u.data, D)
    BY <1>4, <2>6 DEF DocksIn
  <2> QED
    BY <1>2, <2>7, <2>10, <2>11
<1>7. CASE e.on = "appsRemoved"
  <2> DEFINE i == e.row
             list == a.list
             u == AppsRemoved(i)
  <2>1. Apply(u, rest)
    BY <1>7 DEF RowHandled
  <2>2. u = AppsRemoved(i) /\ i \in Nat \ {0} /\ list \in Seq(App) /\ LaunchersIn(m_data, list)
    BY <1>1, <1>3, <1>4
  <2>3. i \in DOMAIN list /\ b.n = a.n /\ b.list = RemoveAt(list, i) /\ list[i] \notin D
    BY <1>7 DEF StepView
  <2> HIDE DEF u, i, list
  <2>6. /\ UpdateFits(u, Len(m_data))
        /\ \A S : WindowsIn(m_data, S) => WindowsIn(u.data, S)
        /\ \A l \in Seq(App) : i \in DOMAIN l /\ LaunchersIn(m_data, l) =>
             /\ LaunchersIn(u.data, RemoveAt(l, i))
             /\ \A x \in IdsOf(m_data) : x # l[i] => x \in IdsOf(u.data)
    BY <1>0, <2>2, AppsRemovedFacts
  <2>7. m_data' = u.data /\ \E extra \in Seq(ChildCall) : queue' = rest \o extra
    BY <1>0, <2>1, <2>6, ApplyFacts
  <2>8. /\ WindowsIn(u.data, 1..a.n) /\ LaunchersIn(u.data, RemoveAt(list, i))
        /\ \A x \in IdsOf(m_data) : x # list[i] => x \in IdsOf(u.data)
    BY <1>4, <2>2, <2>3, <2>6
  <2>10. DataFits(u.data, b)
    BY <2>3, <2>8 DEF DataFits
  <2>11. DocksIn(m_dockedElements, u.data, D)
    BY <1>4, <2>3, <2>8 DEF DocksIn
  <2> QED
    BY <1>2, <2>7, <2>10, <2>11
<1> QED
  BY <1>5, <1>6, <1>7 DEF RowCalls

\* A queued handler of rows sends signals that fit the list.
LEMMA RowUpdates ==
  ASSUME ModelsInv, Named, ListInv, NEW e \in CallSet, e.on \in RowCalls, NEW rest, RowHandled(e, rest)
  PROVE  \E u : UpdateFits(u, Len(m_data)) /\ Apply(u, rest)
<1>0. apps \in Seq(App) /\ m_data \in Seq(RowSet)
  BY DEF ModelsInv, ListInv
<1> DEFINE i == e.row
<1>1. i \in Nat \ {0}
  BY CallFields
<1>2. CASE e.on = "activeInserted"
  <2>1. Apply(ActiveInserted(i), rest)
    BY <1>2 DEF RowHandled
  <2> HIDE DEF i
  <2>2. DesktopId(i) \in ElementIds \cup {NoId}
    BY DesktopIdTyped
  <2>3. UpdateFits(ActiveInserted(i), Len(m_data))
    BY <1>0, <1>1, <2>2, ActiveInsertedFacts
  <2> QED
    BY <2>1, <2>3
<1>3. CASE e.on = "activeRemoved"
  <2>1. Apply(ActiveRemoved(i), rest)
    BY <1>3 DEF RowHandled
  <2> HIDE DEF i
  <2>2. UpdateFits(ActiveRemoved(i), Len(m_data))
    BY <1>0, <1>1, ActiveRemovedFacts
  <2> QED
    BY <2>1, <2>2
<1>4. CASE e.on = "appsRemoved"
  <2>1. Apply(AppsRemoved(i), rest)
    BY <1>4 DEF RowHandled
  <2> HIDE DEF i
  <2>2. UpdateFits(AppsRemoved(i), Len(m_data))
    BY <1>0, <1>1, AppsRemovedFacts
  <2> QED
    BY <2>1, <2>2
<1> QED
  BY <1>2, <1>3, <1>4 DEF RowCalls

\* The next call is gone from the queue, and the group model may have queued
\* calls for itself at its end.
LEMMA HandledQueue ==
  ASSUME ModelsInv, Named, ListInv, HandleEvent
  PROVE  \E extra \in Seq(ChildCall) : queue' = Tail(queue) \o extra
<1> DEFINE e == Head(queue)
           rest == Tail(queue)
<1>1. queue \in Seq(CallSet) /\ queue # <<>>
  BY DEF HandleEvent, ListInv
<1>2. e \in CallSet /\ rest \in Seq(CallSet)
  BY <1>1
<1>3. \/ e.on \in RowCalls /\ RowHandled(e, rest)
      \/ e.on = "activeChanged" /\ ChangeHandled(e, rest)
      \/ e.on = "load" /\ LoadElements(dockedElements, rest)
      \/ OfGroups(e) /\ ChildHandled(e, rest)
  BY DEF HandleEvent, RowCalls
<1>0. /\ apps \in Seq(App) /\ m_data \in Seq(RowSet) /\ m_dockedElements \in Seq(App) /\ windowSplit \in BOOLEAN
      /\ GroupsFit(windowSplit, groups, Len(m_data)) /\ dockedElements \in Seq(ElementIds)
  BY DEF ModelsInv, ListInv
<1> HIDE DEF e, rest
<1>a. ASSUME NEW u, UpdateFits(u, Len(m_data)), Apply(u, rest)
      PROVE  \E extra \in Seq(ChildCall) : queue' = rest \o extra
  BY <1>0, <1>2, <1>a, ApplyFacts
<1>4. CASE e.on \in RowCalls /\ RowHandled(e, rest)
  <2>1. \E u : UpdateFits(u, Len(m_data)) /\ Apply(u, rest)
    BY <1>2, <1>4, RowUpdates
  <2> QED
    BY <1>a, <2>1 DEF rest
<1>5. CASE e.on = "activeChanged" /\ ChangeHandled(e, rest)
  <2>1. \E extra \in Seq(ChildCall) : queue' = rest \o extra
    BY <1>2, <1>5, ChangeHandledFacts
  <2> QED
    BY <2>1 DEF rest
<1>6. CASE e.on = "load" /\ LoadElements(dockedElements, rest)
  <2>1. Apply(Load(dockedElements), rest)
    BY <1>6 DEF LoadElements
  <2>2. UpdateFits(Load(dockedElements), Len(m_data))
    BY <1>0, LoadFacts
  <2> QED
    BY <1>a, <2>1, <2>2 DEF rest
<1>7. CASE OfGroups(e) /\ ChildHandled(e, rest)
  <2>1. queue' = rest
    BY <1>7 DEF ChildHandled
  <2>2. rest \o <<>> = rest /\ \A S : <<>> \in Seq(S)
    BY <1>2
  <2>3. <<>> \in Seq(ChildCall) /\ queue' = rest \o <<>>
    BY <2>1, <2>2, Zenon
  <2> QED
    BY <2>3 DEF rest
<1> QED
  BY <1>3, <1>4, <1>5, <1>6, <1>7

\* The next call sees the list it was queued for, and hands it on.
LEMMA HandledEntries ==
  ASSUME ModelsInv, Named, ListInv, EntryInv, HandleEvent
  PROVE  EntryInv'
<1> DEFINE e == Head(queue)
           rest == Tail(queue)
<1>1. queue \in Seq(CallSet) /\ queue # <<>> /\ LoadFirst(queue)
  BY DEF HandleEvent, ListInv, EntryInv
<1>2. PICK v : /\ Views(queue, v, NowView)
               /\ ~ overtaken => ListFits(queue, v, m_data, m_dockedElements, Docked)
  BY DEF EntryInv
<1>3. /\ rest \in Seq(CallSet) /\ e \in CallSet /\ e = queue[1] /\ Len(queue) # 0
      /\ StepView(e, v[1], v[2]) /\ v[1] \in View /\ v[2] \in View
      /\ \E w : /\ Views(rest, w, NowView) /\ w[1] = v[2]
                /\ \A D : QueueFits(queue, v, D) => QueueFits(rest, w, D)
      /\ LoadFirst(queue) => LoadFirst(rest) /\ ~ Loading(rest)
  BY <1>1, <1>2, FirstHandled
<1>4. PICK w : /\ Views(rest, w, NowView) /\ w[1] = v[2]
               /\ \A D : QueueFits(queue, v, D) => QueueFits(rest, w, D)
  BY <1>3
<1>5. \E extra \in Seq(ChildCall) : queue' = rest \o extra
  BY HandledQueue
<1>6. /\ \/ e.on \in RowCalls /\ RowHandled(e, rest)
         \/ e.on = "activeChanged" /\ ChangeHandled(e, rest)
         \/ e.on = "load" /\ LoadElements(dockedElements, rest)
         \/ OfGroups(e) /\ ChildHandled(e, rest)
      /\ windows' = windows /\ apps' = apps /\ dockedElements' = dockedElements /\ overtaken' = overtaken
  BY DEF HandleEvent, RowCalls, combineVars
<1> HIDE DEF e, rest
<1>7. NowView' = NowView
  BY <1>6 DEF NowView
<1>d. Docked' = Docked \/ (e.on = "load" /\ LoadElements(dockedElements, rest))
  <2>1. late' = late \/ (e.on = "load" /\ LoadElements(dockedElements, rest))
    <3>1. RowHandled(e, rest) => late' = late
      BY DEF RowHandled
    <3>2. ChangeHandled(e, rest) => late' = late
      BY DEF ChangeHandled
    <3>3. ChildHandled(e, rest) => late' = late
      BY DEF ChildHandled
    <3> QED
      BY <1>6, <3>1, <3>2, <3>3
  <2> QED
    BY <1>6, <2>1 DEF Docked
<1>n. DocksNamed /\ DocksNamed'
  <2>1. DocksNamed /\ dockedElements \in Seq(ElementIds)
    BY DEF EntryInv, ListInv
  <2>2. CASE m_dockedElements' = m_dockedElements
    BY <1>6, <2>1, <2>2 DEF DocksNamed
  <2>3. CASE e.on = "load" /\ LoadElements(dockedElements, rest)
    BY <1>3, <1>6, <2>1, <2>3, LoadEntries
  <2> QED
    BY <1>6, <2>2, <2>3 DEF RowHandled, ChangeHandled, ChildHandled
<1>8. NowView.n = Len(windows) /\ NowView.list = apps /\ Len(queue) \in Nat
  BY <1>1, NowIs
<1>9. ASSUME ~ overtaken
      PROVE  DataFits(m_data', v[2]) /\ DocksIn(m_dockedElements', m_data', Docked') /\ QueueFits(rest, w, Docked')
  <2>1. ListFits(queue, v, m_data, m_dockedElements, Docked)
    BY <1>2, <1>9
  <2>q. QueueFits(rest, w, Docked)
    BY <1>4, <2>1 DEF ListFits
  <2>2. CallsOrdered(queue) /\ Spares(queue, v, Docked) /\ DataFits(m_data, v[1])
    BY <2>1 DEF ListFits, QueueFits
  <2>3. 1 \in 1..Len(queue) /\ 1 \in 1..Len(queue) + 1 /\ 2 \in 1..Len(queue) + 1
    BY <1>3, <1>8
  <2>4. \A k \in 1..Len(queue) : 1 < k \/ k = 1
    BY <1>8
  <2>5. \A k \in 1..Len(queue) : 2 <= k => 1 < k
    BY <1>8
  <2>6. CASE e.on \in RowCalls /\ RowHandled(e, rest)
    <3>1. DocksIn(m_dockedElements, m_data, Docked)
      <4>1. queue[1].on # "load"
        BY <1>3, <2>6 DEF RowCalls
      <4> QED
        BY <2>1, <4>1, DockedLoaded
    <3>2. Docked \subseteq ToSet(apps)
      BY DEF Docked
    <3>3. ASSUME e.on = "activeInserted" PROVE v[2].n <= Len(windows)
      <4>1. \A k \in 1..Len(queue) : 2 <= k => queue[k].on # "activeRemoved"
        BY <1>3, <2>2, <2>3, <2>5, <3>3 DEF CallsOrdered
      <4>2. v[2].n <= NowView.n
        BY <1>1, <1>2, <2>3, <4>1, GrowingViews
      <4> QED
        BY <1>8, <4>2
    <3>4. ASSUME e.on = "activeRemoved" PROVE v[1].list = apps
      <4>1. \A k \in 1..Len(queue) : queue[k].on # "appsRemoved"
        BY <1>3, <2>2, <2>3, <2>4, <3>4 DEF CallsOrdered
      <4>2. v[1].list = NowView.list
        BY <1>1, <1>2, <2>3, <4>1, SteadyViews
      <4> QED
        BY <1>8, <4>2
    <3>5. e.on = "appsRemoved" => v[1].list[e.row] \notin Docked
      BY <1>3, <2>2, <2>3 DEF Spares
    <3> DEFINE a == v[1]
               b == v[2]
               D == Docked
    <3>6. /\ a \in View /\ b \in View /\ StepView(e, a, b) /\ D \subseteq ToSet(apps)
          /\ DataFits(m_data, a) /\ DocksIn(m_dockedElements, m_data, D)
          /\ e.on = "activeInserted" => b.n <= Len(windows)
          /\ e.on = "activeRemoved" => a.list = apps
          /\ e.on = "appsRemoved" => a.list[e.row] \notin D
          /\ e \in CallSet /\ e.on \in RowCalls /\ rest \in Seq(CallSet) /\ RowHandled(e, rest)
      BY <1>3, <2>2, <2>6, <3>1, <3>2, <3>3, <3>4, <3>5
    <3> HIDE DEF a, b, D
    <3>7. DataFits(m_data', b) /\ DocksIn(m_dockedElements', m_data', D)
      BY <3>6, RowEntries
    <3>8. Docked' = Docked
      BY <1>d, <2>6 DEF RowCalls
    <3> QED
      BY <2>q, <3>7, <3>8 DEF b, D
  <2>7. CASE (e.on = "activeChanged" /\ ChangeHandled(e, rest)) \/ (OfGroups(e) /\ ChildHandled(e, rest))
    <3>1. m_data' = m_data /\ m_dockedElements' = m_dockedElements
      BY <2>7 DEF ChangeHandled, ChildHandled
    <3>2. e.on \notin RowCalls /\ queue[1].on # "load"
      BY <1>3, <2>7 DEF OfGroups, RowCalls
    <3>3. DocksIn(m_dockedElements, m_data, Docked)
      BY <2>1, <3>2, DockedLoaded
    <3>4. v[2] = v[1]
      BY <1>3, <3>2, QuietView
    <3>5. Docked' = Docked
      BY <1>3, <1>d, <3>2
    <3> QED
      BY <2>2, <2>q, <3>1, <3>3, <3>4, <3>5
  <2>8. CASE e.on = "load" /\ LoadElements(dockedElements, rest)
    <3>1. Docked \cap ToSet(m_dockedElements) \subseteq IdsOf(m_data)
      BY <2>1 DEF ListFits
    <3>2. v[2] = v[1]
      <4>1. e.on \notin RowCalls
        BY <2>8 DEF RowCalls
      <4> QED
        BY <1>3, <4>1, QuietView
    <3>0. \A k \in 1..Len(queue) : queue[k].on # "appsRemoved"
      BY <1>3, <2>2, <2>3, <2>4, <2>8 DEF CallsOrdered
    <3>3. v[1].list = apps
      <4>2. v[1].list = NowView.list
        BY <1>1, <1>2, <2>3, <3>0, SteadyViews
      <4> QED
        BY <1>8, <4>2
    <3>4. DataFits(m_data', v[1]) /\ DocksIn(m_dockedElements', m_data', Docked')
      <4>1. dockedElements \in Seq(ElementIds)
        BY DEF ListInv
      <4>2. \A a : /\ a.list = apps /\ DataFits(m_data, a)
                  /\ Docked \cap ToSet(m_dockedElements) \subseteq IdsOf(m_data)
                  => DataFits(m_data', a) /\ DocksIn(m_dockedElements', m_data', Docked')
        BY <1>3, <1>6, <1>n, <2>8, <4>1, LoadEntries
      <4> QED
        BY <2>2, <3>1, <3>3, <4>2
    <3>5. QueueFits(rest, w, Docked')
      <4>1. rest = Tail(queue)
        BY DEF rest
      <4>2. \A k \in 1..Len(rest) : rest[k] = queue[k + 1] /\ k + 1 \in 1..Len(queue)
        BY <1>1, <4>1
      <4>3. \A k \in 1..Len(rest) : rest[k].on # "appsRemoved"
        BY <3>0, <4>2
      <4> QED
        BY <2>q, <4>3, NoneGoes
    <3> QED
      BY <3>2, <3>4, <3>5
  <2> QED
    BY <1>6, <2>6, <2>7, <2>8
<1>10. ~ overtaken' => ListFits(rest, w, m_data', m_dockedElements', Docked')
  <2> SUFFICES ASSUME ~ overtaken' PROVE ListFits(rest, w, m_data', m_dockedElements', Docked')
    OBVIOUS
  <2> QED
    BY <1>4, <1>6, <1>9 DEF ListFits, DocksIn
<1>11. PICK extra \in Seq(ChildCall) : queue' = rest \o extra
  BY <1>5
<1>12. Views(rest, w, NowView') /\ LoadFirst(rest) /\ ~ Loading(rest)
  BY <1>1, <1>3, <1>4, <1>7
<1> QED
  BY <1>3, <1>n, <1>10, <1>11, <1>12, FollowedKeeps

\* Every step keeps the list in step with what is queued.
LEMMA EntryStep == ModelsInv /\ ModelsInv' /\ BindingsFollow /\ Named /\ ListInv /\ EntryInv /\ [Next]_vars => EntryInv'
<1> SUFFICES ASSUME ModelsInv, ModelsInv', BindingsFollow, Named, ListInv, EntryInv, [Next]_vars PROVE EntryInv'
  OBVIOUS
<1>1. ASSUME NEW w \in Window, NEW id \in App \cup Stranger, OpenWindow(w, id) PROVE EntryInv'
  BY <1>1, OpenEntries
<1>2. ASSUME NEW i \in DOMAIN windows, CloseWindow(i) PROVE EntryInv'
  BY <1>2, CloseEntries
<1>3. ASSUME NEW i \in DOMAIN windows, NEW id \in App \cup Stranger, ChangeIdentity(i, id) PROVE EntryInv'
  BY <1>3, ChangeEntries
<1>4. ASSUME NEW i \in DOMAIN windows, ChangeState(i) PROVE EntryInv'
  BY <1>4, ChangeEntries
<1>5. ASSUME NEW app \in App, Install(app) PROVE EntryInv'
  BY <1>5, InstallEntries
<1>6. ASSUME NEW i \in DOMAIN apps, Uninstall(i) PROVE EntryInv'
  BY <1>6, UninstallEntries
<1>7. CASE DockStep
  BY <1>7, DockEntries
<1>8. CASE SetWindowSplit
  BY <1>8, SplitEntries
<1>9. ASSUME NEW from \in DOMAIN m_data, NEW to \in DOMAIN m_data, MoveItem(from, to) PROVE EntryInv'
  BY <1>9, MoveEntries
<1>10. CASE HandleEvent
  BY <1>10, HandledEntries
<1>11. CASE UNCHANGED vars
  <2>1. /\ queue' = queue /\ m_data' = m_data /\ m_dockedElements' = m_dockedElements /\ overtaken' = overtaken
        /\ windows' = windows /\ apps' = apps /\ dockedElements' = dockedElements /\ late' = late
    BY <1>11 DEF vars, combineVars, globalVars
  <2>2. NowView' = NowView /\ Docked' = Docked
    BY <2>1 DEF NowView, Docked
  <2> QED
    BY <2>1, <2>2 DEF EntryInv, DocksNamed
<1> QED
  BY <1>1, <1>2, <1>3, <1>4, <1>5, <1>6, <1>7, <1>8, <1>9, <1>10, <1>11 DEF Next, DockStep

\* Once settled, each window has its entry, each icon its application, and the
\* docked applications are there.
THEOREM EntriesAlwaysFit == Spec => []EntriesFit
<1>1. Init => EntryInv
  BY EntryInit
<1>2. DockInv /\ DockInv' /\ EntryInv /\ [Next]_vars => EntryInv'
  BY EntryStep DEF DockInv
<1>3. DockInv /\ EntryInv => EntriesFit
  <2> SUFFICES ASSUME DockInv, EntryInv PROVE EntriesFit
    OBVIOUS
  <2> SUFFICES ASSUME Settled PROVE EntriesFit
    BY DEF EntriesFit, WindowsShown, LaunchersFit, DockedShown
  <2>0. queue = <<>> /\ ~ overtaken /\ ModelsInv /\ m_data \in Seq(RowSet)
    BY DEF Settled, DockInv, ListInv
  <2>1. PICK v : /\ Views(queue, v, NowView)
                 /\ ListFits(queue, v, m_data, m_dockedElements, Docked)
    BY <2>0 DEF EntryInv
  <2>2. Len(queue) = 0
    BY <2>0
  <2>3. v[1] = NowView
    BY <2>1, <2>2 DEF Views
  <2>4. NowView.n = Len(windows) /\ NowView.list = apps /\ DOMAIN windows = 1..Len(windows)
    BY <2>0, NowIs
  <2>5. ~ Loading(queue)
    BY <2>2 DEF Loading
  <2>6. /\ WindowsIn(m_data, DOMAIN windows) /\ LaunchersIn(m_data, apps)
        /\ Docked \subseteq IdsOf(m_data)
    BY <2>1, <2>3, <2>4, <2>5 DEF ListFits, DataFits, DocksIn
  <2>7. WindowsShown
    <3>1. ASSUME NEW r \in DOMAIN windows PROVE Cardinality({p \in Active : m_data[p].row = r}) = 1
      <4>1. PICK p \in DOMAIN m_data : m_data[p].model = "active" /\ m_data[p].row = r
        BY <2>6 DEF WindowsIn
      <4>2. \A q \in DOMAIN m_data : m_data[q].model = "active" /\ m_data[q].row = r => q = p
        BY <2>6, <4>1 DEF WindowsIn
      <4>3. {q \in Active : m_data[q].row = r} = {p}
        BY <4>1, <4>2 DEF Active
      <4> QED
        BY <4>3, FS_Singleton
    <3>2. \A p \in Active : m_data[p].row \in DOMAIN windows
      BY <2>6 DEF WindowsIn, Active
    <3> QED
      BY <3>1, <3>2 DEF WindowsShown
  <2>8. LaunchersFit
    <3>1. ASSUME NEW p \in Launchers
          PROVE  /\ m_data[p].row \in DOMAIN apps
                 /\ apps[m_data[p].row] = m_data[p].id
                 /\ \A q \in DOMAIN m_data \ {p} : m_data[q].id # m_data[p].id
      BY <2>6 DEF LaunchersIn, Launchers
    <3> QED
      BY <3>1 DEF LaunchersFit
  <2>9. DockedShown
    BY <2>6 DEF DockedShown, Docked
  <2> QED
    BY <2>7, <2>8, <2>9 DEF EntriesFit
<1> QED
  BY <1>1, <1>2, <1>3, DockAlways, PTL DEF Spec

-----------------------------------------------------------------------------
(* The groups.                                                             *)

\* No group lacks an entry, unless one was built while a row was to go.
GroupInv ==
  ~ windowSplit /\ ~ overtaken /\ ~ misgrouped => ListsAll(groups, 1..Len(m_data))

\* No removal is queued.
LEMMA RemovalSeen ==
  ASSUME NEW q \in Seq(CallSet), ~ RemovalIn(q)
  PROVE  \A k \in 1..Len(q) : q[k].on # "activeRemoved" /\ q[k].on # "appsRemoved"
<1>1. ASSUME NEW k \in 1..Len(q) PROVE q[k] \in ToSet(q)
  BY DEF ToSet
<1> QED
  BY <1>1 DEF RemovalIn

\* The rows that entries name are there, if no removal is queued.
LEMMA FitsThere ==
  ASSUME ModelsInv, NEW q \in Seq(CallSet), NEW v, Views(q, v, NowView), NEW a \in 1..Len(q) + 1,
         \A k \in 1..Len(q) : a <= k => q[k].on # "activeRemoved" /\ q[k].on # "appsRemoved",
         NEW data \in Seq(RowSet), DataFits(data, v[a])
  PROVE  RowsThere(data)
<1>1. v[a].n <= NowView.n
  BY GrowingViews
<1>2. v[a].list = NowView.list
  BY SteadyViews
<1>3. NowView.n = Len(windows) /\ NowView.list = apps /\ Len(windows) \in Nat
  BY NowIs
<1>4. v[a].n \in Nat
  BY ViewsAt, ViewFields
<1>5. 1..v[a].n \subseteq 1..Len(windows)
  BY <1>1, <1>3, <1>4
<1>6. \A p \in DOMAIN data : data[p].model \in {"active", "apps"}
  <2>1. \A p \in DOMAIN data : data[p] \in RowSet
    OBVIOUS
  <2> QED
    BY <2>1, RowFields
<1> QED
  BY <1>2, <1>3, <1>5, <1>6 DEF DataFits, WindowsIn, LaunchersIn, RowsThere

\* A handler of the list keeps every entry in a group.
LEMMA AppliedLists ==
  ASSUME ListInv, GroupInv, NEW u, UpdateFits(u, Len(m_data)), NEW rest, Apply(u, rest), rest \in Seq(CallSet),
         windowSplit' = windowSplit, misgrouped' = misgrouped, ~ overtaken' => ~ overtaken
  PROVE  GroupInv'
<1>1. /\ m_data' = u.data
      /\ ~ windowSplit /\ ListsAll(groups, 1..Len(m_data)) => ListsAll(groups', 1..Len(u.data))
  BY ApplyFacts DEF ListInv
<1> QED
  BY <1>1 DEF GroupInv

\* Groups built when no removal is queued have every entry.
LEMMA SplitLists ==
  ASSUME ModelsInv, Named, ListInv, EntryInv, SetWindowSplit
  PROVE  GroupInv'
<1>1. /\ windowSplit' = ~ windowSplit /\ overtaken' = overtaken /\ misgrouped' = RemovalIn(queue)
      /\ windowSplit => groups' = Rebuilt(Keys(m_data'), NoId)
  BY DEF SetWindowSplit
<1>2. ListInv' /\ (m_data' = m_data \/ \E f : Rearranges(m_data', m_data, f))
  BY SplitKeeps
<1>3. queue \in Seq(CallSet) /\ m_data \in Seq(RowSet) /\ windowSplit \in BOOLEAN /\ m_data' \in Seq(RowSet)
  BY <1>2 DEF ListInv
<1>4. ASSUME ~ windowSplit', ~ overtaken', ~ misgrouped' PROVE ListsAll(groups', 1..Len(m_data'))
  <2>1. windowSplit /\ ~ overtaken /\ ~ RemovalIn(queue) /\ groups' = Rebuilt(Keys(m_data'), NoId)
    BY <1>1, <1>3, <1>4
  <2>2. PICK v : /\ Views(queue, v, NowView)
                 /\ ListFits(queue, v, m_data, m_dockedElements, Docked)
    BY <2>1 DEF EntryInv
  <2>3. DataFits(m_data', v[1])
    <3>1. DataFits(m_data, v[1])
      BY <2>2 DEF ListFits
    <3>2. CASE m_data' = m_data
      BY <3>1, <3>2
    <3>3. CASE \E f : Rearranges(m_data', m_data, f)
      BY <1>3, <3>1, <3>3, RearrangedFits
    <3> QED
      BY <1>2, <3>2, <3>3
  <2>4. \A k \in 1..Len(queue) : queue[k].on # "activeRemoved" /\ queue[k].on # "appsRemoved"
    BY <1>3, <2>1, RemovalSeen
  <2>5. 1 \in 1..Len(queue) + 1
    BY <1>3
  <2> DEFINE data == m_data'
  <2>6. data \in Seq(RowSet) /\ DataFits(data, v[1]) /\ groups' = Rebuilt(Keys(data), NoId)
    BY <1>3, <2>1, <2>3
  <2> HIDE DEF data
  <2>7. RowsThere(data)
    BY <1>3, <2>2, <2>4, <2>5, <2>6, FitsThere
  <2>8. ListsAll(Rebuilt(Keys(data), NoId), 1..Len(data))
    BY <2>6, <2>7, RebuiltFacts
  <2> QED
    BY <2>6, <2>8 DEF data
<1> QED
  BY <1>4 DEF GroupInv

\* The next call keeps every entry in a group.
LEMMA HandledLists ==
  ASSUME ModelsInv, Named, ListInv, EntryInv, GroupInv, HandleEvent
  PROVE  GroupInv'
<1> DEFINE e == Head(queue)
           rest == Tail(queue)
<1>1. queue \in Seq(CallSet) /\ queue # <<>>
  BY DEF HandleEvent, ListInv
<1>2. PICK v : /\ Views(queue, v, NowView)
               /\ ~ overtaken => ListFits(queue, v, m_data, m_dockedElements, Docked)
  BY DEF EntryInv
<1>3. /\ rest \in Seq(CallSet) /\ e \in CallSet /\ e = queue[1] /\ Len(queue) # 0
  BY <1>1, <1>2, FirstHandled
<1>4. /\ \/ e.on \in RowCalls /\ RowHandled(e, rest)
         \/ e.on = "activeChanged" /\ ChangeHandled(e, rest)
         \/ e.on = "load" /\ LoadElements(dockedElements, rest) /\ misgrouped' = misgrouped
         \/ OfGroups(e) /\ ChildHandled(e, rest)
      /\ windowSplit' = windowSplit /\ overtaken' = overtaken
  BY DEF HandleEvent, RowCalls
<1>5. rest = Tail(queue)
  OBVIOUS
<1> HIDE DEF e, rest
<1>6. CASE e.on \in RowCalls /\ RowHandled(e, rest)
  <2>1. PICK u : UpdateFits(u, Len(m_data)) /\ Apply(u, rest)
    BY <1>3, <1>6, RowUpdates
  <2>2. misgrouped' = misgrouped
    BY <1>6 DEF RowHandled
  <2> QED
    BY <1>3, <1>4, <2>1, <2>2, AppliedLists
<1>7. CASE e.on = "activeChanged" /\ ChangeHandled(e, rest)
  <2>1. /\ m_data' = m_data
        /\ \/ groups' = groups /\ misgrouped' = misgrouped
           \/ groups' = Rebuilt(Keys(m_data), NoId) /\ misgrouped' = RemovalIn(rest)
    BY <1>3, <1>7, ChangeHandledFacts
  <2>2. CASE groups' = groups /\ misgrouped' = misgrouped
    BY <1>4, <2>1, <2>2 DEF GroupInv
  <2>3. CASE groups' = Rebuilt(Keys(m_data), NoId) /\ misgrouped' = RemovalIn(rest)
    <3>1. ASSUME ~ overtaken', ~ misgrouped' PROVE ListsAll(groups', 1..Len(m_data'))
      <4>1. DataFits(m_data, v[1]) /\ m_data \in Seq(RowSet)
        BY <1>2, <1>4, <3>1 DEF ListFits, ListInv
      <4>2. \A k \in 1..Len(rest) : rest[k].on # "activeRemoved" /\ rest[k].on # "appsRemoved"
        BY <1>3, <2>3, <3>1, RemovalSeen
      <4>3. /\ Len(rest) = Len(queue) - 1 /\ Len(queue) \in Nat \ {0}
            /\ \A k \in 1..Len(queue) - 1 : rest[k] = queue[k + 1]
        BY <1>1, <1>5, TailFacts
      <4>4. ASSUME NEW k \in 1..Len(queue) PROVE queue[k].on # "activeRemoved" /\ queue[k].on # "appsRemoved"
        <5>1. CASE k = 1
          BY <1>3, <1>7, <5>1
        <5>2. CASE k # 1
          <6> DEFINE j == k - 1
          <6>1. j \in 1..Len(queue) - 1 /\ j + 1 = k
            BY <4>3, <5>2
          <6> HIDE DEF j
          <6>2. rest[j] = queue[k] /\ j \in 1..Len(rest)
            BY <4>3, <6>1
          <6> QED
            BY <4>2, <6>2
        <5> QED
          BY <5>1, <5>2
      <4>5. 1 \in 1..Len(queue) + 1
        BY <4>3
      <4>6. RowsThere(m_data)
        BY <1>1, <1>2, <4>1, <4>4, <4>5, FitsThere
      <4>7. ListsAll(Rebuilt(Keys(m_data), NoId), 1..Len(m_data))
        BY <4>1, <4>6, RebuiltFacts
      <4> QED
        BY <2>1, <2>3, <4>7
    <3> QED
      BY <3>1 DEF GroupInv
  <2> QED
    BY <2>1, <2>2, <2>3
<1>8. CASE e.on = "load" /\ LoadElements(dockedElements, rest) /\ misgrouped' = misgrouped
  <2> DEFINE u == Load(dockedElements)
  <2>1. u = Load(dockedElements) /\ Apply(u, rest)
    BY <1>8 DEF LoadElements
  <2>2. apps \in Seq(App) /\ m_data \in Seq(RowSet) /\ m_dockedElements \in Seq(App) /\ dockedElements \in Seq(ElementIds)
    BY DEF ModelsInv, ListInv
  <2> HIDE DEF u
  <2>3. UpdateFits(u, Len(m_data))
    BY <2>1, <2>2, LoadFacts
  <2> QED
    BY <1>3, <1>4, <1>8, <2>1, <2>3, AppliedLists
<1>9. CASE OfGroups(e) /\ ChildHandled(e, rest)
  <2>1. m_data' = m_data /\ groups' = groups /\ misgrouped' = misgrouped
    BY <1>9 DEF ChildHandled
  <2> QED
    BY <1>4, <2>1 DEF GroupInv
<1> QED
  BY <1>4, <1>6, <1>7, <1>8, <1>9

\* There are no entries at the start.
LEMMA GroupInit == Init => GroupInv
<1> SUFFICES ASSUME Init PROVE GroupInv
  OBVIOUS
<1>1. m_data = <<>>
  BY DEF Init, GlobalInit
<1>2. 1..Len(m_data) = {}
  BY <1>1
<1> QED
  BY <1>2 DEF GroupInv, ListsAll

\* Every step keeps every entry in a group.
LEMMA GroupStep == ModelsInv /\ Named /\ ListInv /\ EntryInv /\ GroupInv /\ [Next]_vars => GroupInv'
<1> SUFFICES ASSUME ModelsInv, Named, ListInv, EntryInv, GroupInv, [Next]_vars PROVE GroupInv'
  OBVIOUS
<1>0. ASSUME m_data' = m_data, groups' = groups, windowSplit' = windowSplit, misgrouped' = misgrouped,
             ~ overtaken' => ~ overtaken
      PROVE  GroupInv'
  BY <1>0 DEF GroupInv
<1>1. CASE SourceStep
  <2>1. ASSUME NEW w \in Window, NEW id \in App \cup Stranger, OpenWindow(w, id) PROVE GroupInv'
    BY <1>0, <2>1 DEF OpenWindow, Unlisted, globalVars
  <2>2. ASSUME NEW i \in DOMAIN windows, CloseWindow(i) PROVE GroupInv'
    BY <1>0, <2>2 DEF CloseWindow, Unlisted, globalVars
  <2>3. ASSUME NEW i \in DOMAIN windows, NEW id \in App \cup Stranger, ChangeIdentity(i, id) PROVE GroupInv'
    BY <1>0, <2>3 DEF ChangeIdentity, Unlisted, globalVars
  <2>4. ASSUME NEW i \in DOMAIN windows, ChangeState(i) PROVE GroupInv'
    BY <1>0, <2>4 DEF ChangeState, Unlisted, globalVars
  <2>5. ASSUME NEW app \in App, Install(app) PROVE GroupInv'
    BY <1>0, <2>5 DEF Install, Unlisted, globalVars
  <2>6. ASSUME NEW i \in DOMAIN apps, Uninstall(i) PROVE GroupInv'
    BY <1>0, <2>6 DEF Uninstall, Unlisted, globalVars
  <2> QED
    BY <1>1, <2>1, <2>2, <2>3, <2>4, <2>5, <2>6 DEF SourceStep
<1>6. CASE UNCHANGED vars
  BY <1>0, <1>6 DEF vars, globalVars
<1>2. CASE DockStep
  <2>1. apps \in Seq(App) /\ m_data \in Seq(RowSet) /\ m_dockedElements \in Seq(App) /\ dockedElements \in Seq(ElementIds)
        /\ queue \in Seq(CallSet)
    BY DEF ModelsInv, ListInv
  <2>2. PICK elements \in Seq(ElementIds) : SetDockedElements(elements)
    BY <1>2, <2>1, DockStepSets
  <2> DEFINE u == Load(elements)
  <2>3. /\ Apply(u, queue) /\ windowSplit' = windowSplit /\ misgrouped' = misgrouped
        /\ ~ overtaken' => ~ overtaken
        /\ u = Load(elements)
    BY <2>2 DEF SetDockedElements, LoadElements
  <2> HIDE DEF u
  <2>4. UpdateFits(u, Len(m_data))
    BY <2>1, <2>3, LoadFacts
  <2> QED
    BY <2>1, <2>3, <2>4, AppliedLists
<1>3. CASE SetWindowSplit
  BY <1>3, SplitLists
<1>4. ASSUME NEW from \in DOMAIN m_data, NEW to \in DOMAIN m_data, MoveItem(from, to) PROVE GroupInv'
  BY <1>4 DEF MoveItem, GroupInv
<1>5. CASE HandleEvent
  BY <1>5, HandledLists
<1> QED
  BY <1>1, <1>2, <1>3, <1>4, <1>5, <1>6 DEF Next, SourceStep, DockStep

\* Whatever is queued, the groups list no entry twice and no row that is not
\* there, none is empty and no two have one key; once settled they list every
\* entry, if they were not built while a removal was queued.
THEOREM GroupsAlwaysPartition == Spec => []GroupsPartition
<1>1. Init => EntryInv /\ GroupInv
  BY EntryInit, GroupInit
<1>2. DockInv /\ DockInv' /\ EntryInv /\ GroupInv /\ [Next]_vars => EntryInv' /\ GroupInv'
  BY EntryStep, GroupStep DEF DockInv
<1>3. DockInv /\ GroupInv => GroupsPartition
  <2> SUFFICES ASSUME DockInv, GroupInv, ~ windowSplit PROVE GroupsPartition
    BY DEF GroupsPartition
  <2>1. /\ m_data \in Seq(RowSet) /\ GroupsOver(groups, 1..Len(m_data))
        /\ DOMAIN m_data = 1..Len(m_data)
    BY DEF DockInv, ListInv, GroupsFit
  <2>2. ASSUME NEW p \in DOMAIN m_data
        PROVE  /\ Cardinality(Places(groups, p)) \in {0, 1}
               /\ Settled /\ ~ misgrouped => Cardinality(Places(groups, p)) = 1
    <3> DEFINE P == Places(groups, p)
    <3>1. /\ \A x, y \in P : x = y
          /\ \A g \in DOMAIN groups : \A j \in DOMAIN groups[g].rows : groups[g].rows[j] = p => <<g, j>> \in P
      BY <2>1, PlacesFacts
    <3>2. ASSUME Settled, ~ misgrouped PROVE P # {}
      <4>1. ListsAll(groups, 1..Len(m_data))
        BY <3>2 DEF GroupInv, Settled
      <4>2. PICK g \in DOMAIN groups : \E j \in DOMAIN groups[g].rows : groups[g].rows[j] = p
        BY <2>1, <4>1 DEF ListsAll
      <4>3. PICK j \in DOMAIN groups[g].rows : groups[g].rows[j] = p
        BY <4>2
      <4>4. <<g, j>> \in P
        BY <3>1, <4>3
      <4> QED
        BY <4>4
    <3> HIDE DEF P
    <3>3. P = {} => Cardinality(P) = 0
      BY FS_EmptySet
    <3>4. P # {} => Cardinality(P) = 1
      <4> SUFFICES ASSUME NEW x \in P PROVE Cardinality(P) = 1
        OBVIOUS
      <4>1. P = {x}
        BY <3>1
      <4> QED
        BY <4>1, FS_Singleton
    <3>5. /\ Cardinality(P) \in {0, 1}
          /\ Settled /\ ~ misgrouped => Cardinality(P) = 1
      BY <3>2, <3>3, <3>4
    <3> QED
      BY <3>5 DEF P
  <2>3. ASSUME NEW g \in DOMAIN groups PROVE groups[g].rows # <<>> /\ ToSet(groups[g].rows) \subseteq DOMAIN m_data
    <3>1. groups[g].rows # <<>> /\ \A j \in DOMAIN groups[g].rows : groups[g].rows[j] \in DOMAIN m_data
      BY <2>1 DEF GroupsOver
    <3> QED
      BY <3>1 DEF ToSet
  <2>4. \A g, h \in DOMAIN groups : groups[g].key = groups[h].key => g = h
    BY <2>1 DEF GroupsOver
  <2> QED
    BY <2>2, <2>3, <2>4 DEF GroupsPartition
<1> QED
  BY <1>1, <1>2, <1>3, DockAlways, PTL DEF Spec

===============================================================================
