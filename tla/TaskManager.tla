----------------------------- MODULE TaskManager -----------------------------
(* The chain of models behind the dock (TaskManager::init): the windows of    *)
(* the session are combined with the applications (RoleCombineModel), listed  *)
(* with the docked elements (DockGlobalElementModel) and, unless windows are  *)
(* shown apart, grouped by application (DockGroupModel over RoleGroupModel).  *)
(* All of it runs in one thread, but the handlers of the list and of the      *)
(* groups are queued connections: events are what the thread has queued, and  *)
(* windows and applications go on changing before they are handled.           *)
EXTENDS DockGlobalElementModel, RoleGroupModel

CONSTANTS
  MaxSteps,    \* bound on what users and clients do
  MaxQueued    \* bound on the calls that are queued when they do it

ASSUME MaxSteps \in Nat /\ MaxQueued \in Nat

VARIABLES
  groups,                \* m_rowMap and m_map of the shown group model
  m_currentActiveWindow, \* row of a group -> row of a window in it
  queue,                 \* queued calls, the next one first
  steps,                 \* what users and clients have done
  overtaken,             \* a row was taken while news of it were queued
  misgrouped,            \* the groups were built while a removal was queued
  late                   \* docked applications installed since the start

vars == <<combineVars, globalVars, groups, m_currentActiveWindow, queue, steps,
          overtaken, misgrouped, late>>

\* A queued call: on what, of which row, and the child of it or what changed.
Event(on, row, what) == [on |-> on, row |-> row, what |-> what]
Events(on) == {e \in ToSet(queue) : e.on = on}
RemovalIn(events) == \E e \in ToSet(events) : e.on \in {"activeRemoved", "appsRemoved"}
OfGroups(e) == e.on \in {"childRemoved", "childChanged"}

Keys(data) == [p \in DOMAIN data |-> ElementId(data[p])]

\* Lists of at most n members of S, none twice.
Lists(S, n) == {s \in UNION {[1..k -> S] : k \in 0..n} : IsInjective(s)}
AppLists == Lists(App, Cardinality(App))

Init ==
  /\ CombineInit
  /\ GlobalInit
  /\ apps \in AppLists
  /\ dockedElements \in {<<>>} \cup {<<a>> : a \in App}
  /\ windowSplit \in BOOLEAN
  /\ groups = <<>>
  /\ m_currentActiveWindow = << >>
  /\ queue = <<Event("load", 0, "")>>
  /\ steps = 0
  /\ overtaken = FALSE
  /\ misgrouped = FALSE
  /\ late = {}

-----------------------------------------------------------------------------
(* The list of the dock and the groups that follow it.                        *)

\* The group model handles a row signal of the list inside that signal, and
\* queues for itself what happened to the children of its groups.
Followed(acc, op) ==
  IF op.op = "insert"
  THEN [acc EXCEPT !.groups = RowsInserted(@, op.row, <<op.id>>, NoId)]
  ELSE [groups |-> RowsRemoved(acc.groups, op.row, op.row),
        posted |-> acc.posted \o SetToSeq({Event("childRemoved", p[1], p[2]) :
                                             p \in Places(acc.groups, op.row)})]

\* dataChanged of a row reaches its child in the group of its present key.
ChildChanges(data, grouped, row) ==
  SetToSeq({Event("childChanged", p[1], p[2]) :
              p \in {q \in Places(grouped, row) : grouped[q[1]].key = ElementId(data[row])}})

\* The effect of a handler of the list: u, then the rest of the queue.
Apply(u, rest) ==
  LET f == FoldLeft(Followed, [groups |-> groups, posted |-> <<>>], u.ops)
      changes == IF u.changed = {} THEN <<>>
                 ELSE ChildChanges(u.data, f.groups, CHOOSE p \in u.changed : TRUE)
  IN /\ m_data' = u.data
     /\ IF windowSplit THEN groups' = groups /\ queue' = rest
        ELSE groups' = f.groups /\ queue' = rest \o f.posted \o changes

\* An application counts as late until a load that finds it new.
LoadElements(elements, rest) ==
  /\ Apply(Load(elements), rest)
  /\ m_dockedElements' = Installed(elements)
  /\ late' = late \cap ToSet(m_dockedElements)

-----------------------------------------------------------------------------
(* What windows, applications and the user do.                                *)

Step == steps < MaxSteps /\ Len(queue) < MaxQueued /\ steps' = steps + 1
Post(events) == queue' = queue \o events
Unlisted == UNCHANGED <<globalVars, groups, m_currentActiveWindow>>

OpenWindow(w, id) ==
  /\ Step
  /\ w \notin ToSet(windows)
  /\ windows' = Append(windows, w)
  /\ identity' = [identity EXCEPT ![w] = id]
  /\ MajorRowsInserted(Len(windows'))
  /\ Post(<<Event("activeInserted", Len(windows'), "")>>)
  /\ Unlisted
  /\ UNCHANGED <<apps, overtaken, misgrouped, late>>

CloseWindow(i) ==
  /\ Step
  /\ windows' = RemoveAt(windows, i)
  /\ identity' = [identity EXCEPT ![windows[i]] = NoId]
  /\ MajorRowsRemoved(i)
  /\ Post(<<Event("activeRemoved", i, "")>>)
  /\ overtaken' = (overtaken \/ Events("activeInserted") # {})
  /\ Unlisted
  /\ UNCHANGED <<apps, misgrouped, late>>

ChangeIdentity(i, id) ==
  /\ Step
  /\ identity[windows[i]] # id
  /\ identity' = [identity EXCEPT ![windows[i]] = id]
  /\ MajorDataChanged(i)
  /\ Post(<<Event("activeChanged", i, "identity")>>)
  /\ Unlisted
  /\ UNCHANGED <<windows, apps, overtaken, misgrouped, late>>

ChangeState(i) ==
  /\ Step
  /\ identity' = identity
  /\ MajorDataChanged(i)
  /\ Post(<<Event("activeChanged", i, "state")>>)
  /\ Unlisted
  /\ UNCHANGED <<windows, apps, overtaken, misgrouped, late>>

Install(app) ==
  /\ Step
  /\ app \notin ToSet(apps)
  /\ apps' = Append(apps, app)
  /\ MinorRowsInserted
  /\ late' = late \cup ({app} \cap ToSet(dockedElements))
  /\ Unlisted
  /\ UNCHANGED <<windows, identity, queue, overtaken, misgrouped>>

\* The combined model reports its rows that lost their application before the
\* queued handler of the list is posted.
Uninstall(i) ==
  /\ Step
  /\ apps' = RemoveAt(apps, i)
  /\ MinorRowsRemoved(i)
  /\ Post([k \in 1..Cardinality(BoundTo(i)) |->
             Event("activeChanged", Ascending(BoundTo(i))[k], "identity")]
          \o <<Event("appsRemoved", i, "")>>)
  /\ overtaken' = (overtaken \/ Events("load") \cup Events("activeRemoved") # {})
  /\ Unlisted
  /\ UNCHANGED <<windows, identity, misgrouped, late>>

\* dockedElementsChanged, and what is connected to it.  The value comes from
\* DConfig when somebody else has set it.
SetDockedElements(elements) ==
  /\ Step
  /\ dockedElements' = elements
  /\ LoadElements(elements, queue)
  /\ overtaken' = (overtaken \/ Events("appsRemoved") # {})
  /\ UNCHANGED <<combineVars, windowSplit, m_currentActiveWindow, misgrouped>>

\* toggleDockedElement, from the menu of an entry.
ToggleDocked(id) ==
  SetDockedElements(IF id \in ToSet(dockedElements) THEN Without(dockedElements, id)
                    ELSE Append(dockedElements, id))

\* After a drop: the view names its items in their order, and what is docked
\* and not among them is docked no more.  Others that it names do not count.
DockedIds == IdsOf(m_data) \cap ToSet(dockedElements)

SaveDockElementsOrder(ids) ==
  SetDockedElements(RowsAt(ids, {i \in DOMAIN ids : ids[i] \in ToSet(dockedElements)}))

\* appModelReadyChanged, whatever it has become.
InitDockedElements == SetDockedElements(dockedElements)

\* groupItemsByApp runs first, then a new group model is built; a group model
\* that is not shown goes on by itself.
SetWindowSplit ==
  /\ Step
  /\ windowSplit' = ~windowSplit
  /\ m_data' = IF windowSplit THEN GroupedByApp(m_data) ELSE m_data
  /\ groups' = IF windowSplit THEN Rebuilt(Keys(m_data'), NoId) ELSE <<>>
  /\ m_currentActiveWindow' = << >>
  /\ queue' = RowsAt(queue, {k \in DOMAIN queue : ~OfGroups(queue[k])})
  /\ misgrouped' = RemovalIn(queue)
  /\ UNCHANGED <<combineVars, m_dockedElements, dockedElements, overtaken, late>>

MoveItem(from, to) ==
  /\ Step
  /\ windowSplit
  /\ from # to
  /\ m_data' = Moved(m_data, from, to)
  /\ UNCHANGED <<combineVars, m_dockedElements, dockedElements, windowSplit, groups,
                 m_currentActiveWindow, queue, overtaken, misgrouped, late>>

-----------------------------------------------------------------------------
(* Queued handlers.                                                           *)

RowHandled(e, rest) ==
  /\ CASE e.on = "activeInserted" -> Apply(ActiveInserted(e.row), rest)
       [] e.on = "activeRemoved" -> Apply(ActiveRemoved(e.row), rest)
       [] e.on = "appsRemoved" -> Apply(AppsRemoved(e.row), rest)
  /\ UNCHANGED <<m_dockedElements, m_currentActiveWindow, misgrouped, late>>

\* A change of identity makes the group model start over from the list.
ChangeHandled(e, rest) ==
  LET pos == Find(m_data, "active", e.row)
  IN /\ IF pos = 0 \/ windowSplit THEN groups' = groups /\ queue' = rest
        ELSE IF e.what = "identity"
        THEN groups' = Rebuilt(Keys(m_data), NoId) /\ queue' = rest
        ELSE groups' = groups /\ queue' = rest \o ChildChanges(m_data, groups, pos)
     /\ misgrouped' = IF pos = 0 \/ windowSplit \/ e.what = "state" THEN misgrouped
                      ELSE RemovalIn(rest)
     /\ UNCHANGED <<m_data, m_dockedElements, m_currentActiveWindow, late>>

\* resetActiveWindow: a group that is gone counts all the groups instead.
WindowsOf(g) == IF g \in DOMAIN groups THEN Len(groups[g].rows) ELSE Len(groups)

Assign(g, child) == [h \in DOMAIN m_currentActiveWindow \cup {g} |->
                       IF h = g THEN child ELSE m_currentActiveWindow[h]]

\* A change of a child whose group is gone has no parent to report to.
ChildHandled(e, rest) ==
  LET g == e.row
      current == m_currentActiveWindow[g]
  IN /\ m_currentActiveWindow' =
          IF e.on = "childChanged"
          THEN IF g \in DOMAIN groups THEN Assign(g, e.what) ELSE m_currentActiveWindow
          ELSE IF g \notin DOMAIN m_currentActiveWindow \/ current < e.what
          THEN m_currentActiveWindow
          ELSE IF current > e.what THEN Assign(g, current - 1)
          ELSE IF WindowsOf(g) > 0 THEN Assign(g, 1)
          ELSE [h \in DOMAIN m_currentActiveWindow \ {g} |-> m_currentActiveWindow[h]]
     /\ queue' = rest
     /\ UNCHANGED <<m_data, m_dockedElements, groups, misgrouped, late>>

HandleEvent ==
  /\ queue # <<>>
  /\ LET e == Head(queue)
         rest == Tail(queue)
     IN \/ /\ e.on \in {"activeInserted", "activeRemoved", "appsRemoved"}
           /\ RowHandled(e, rest)
        \/ /\ e.on = "activeChanged"
           /\ ChangeHandled(e, rest)
        \/ /\ e.on = "load"
           /\ LoadElements(dockedElements, rest)
           /\ UNCHANGED <<m_currentActiveWindow, misgrouped>>
        \/ /\ OfGroups(e)
           /\ ChildHandled(e, rest)
  /\ UNCHANGED <<combineVars, dockedElements, windowSplit, steps, overtaken>>

Next ==
  \/ \E w \in Window, id \in App \cup Stranger : OpenWindow(w, id)
  \/ \E i \in DOMAIN windows : CloseWindow(i)
  \/ \E i \in DOMAIN windows, id \in App \cup Stranger : ChangeIdentity(i, id)
  \/ \E i \in DOMAIN windows : ChangeState(i)
  \/ \E app \in App : Install(app)
  \/ \E i \in DOMAIN apps : Uninstall(i)
  \/ \E id \in IdsOf(m_data) : ToggleDocked(id)
  \/ \E elements \in AppLists : SetDockedElements(elements)
  \/ \E ids \in Lists(DockedIds, Len(dockedElements)) :
       ToSet(ids) = DockedIds /\ SaveDockElementsOrder(ids)
  \/ InitDockedElements
  \/ SetWindowSplit
  \/ \E from, to \in DOMAIN m_data : MoveItem(from, to)
  \/ HandleEvent

Spec == Init /\ [][Next]_vars

-----------------------------------------------------------------------------
(* Properties.  Settled: nothing is queued, and no row was taken away while a  *)
(* call about rows of its model was still queued that reads them.              *)
Settled == queue = <<>> /\ ~overtaken
Active == {p \in DOMAIN m_data : m_data[p].model = "active"}
Launchers == {p \in DOMAIN m_data : m_data[p].model = "apps"}
ElementIds == App \cup {Bare(id) : id \in App \cup Stranger}

\* Every variable has the values its handlers expect, queued rows included.
TypeOK ==
  /\ windows \in Seq(Window) /\ IsInjective(windows)
  /\ identity \in [Window -> App \cup Stranger \cup {NoId}]
  /\ apps \in Seq(App) /\ IsInjective(apps)
  /\ m_data \in Seq([id : ElementIds, model : {"active", "apps"}, row : Nat])
  /\ m_dockedElements \in Seq(App)
  /\ groups \in Seq([key : ElementIds, rows : Seq(Nat)])
  /\ \A g \in DOMAIN m_currentActiveWindow : m_currentActiveWindow[g] \in Nat
  /\ \A e \in ToSet(queue) : e.row \in Nat

\* The list is kept by calls that run after the windows have changed again:
\* whatever was queued in between, each window ends up in the dock once, and
\* the dock has no entry left for a window that is gone.
WindowsShown ==
  Settled => /\ \A r \in DOMAIN windows : Cardinality({p \in Active : m_data[p].row = r}) = 1
             /\ \A p \in Active : m_data[p].row \in DOMAIN windows

\* The icon of an application that does not run starts that application, not
\* the one that moved into its row, and is its only entry.
LaunchersFit ==
  Settled => \A p \in Launchers :
    /\ m_data[p].row \in DOMAIN apps
    /\ apps[m_data[p].row] = m_data[p].id
    /\ \A q \in DOMAIN m_data \ {p} : m_data[q].id # m_data[p].id

\* A docked application keeps an entry while its windows come and go, if it
\* was installed from the start.
DockedShown ==
  Settled => (ToSet(dockedElements) \cap ToSet(apps)) \ late \subseteq IdsOf(m_data)

\* Once the queued calls have run, the entries of the dock are those of the
\* windows, the docked applications and no other.
EntriesFit == WindowsShown /\ LaunchersFit /\ DockedShown

\* Unless windows are shown apart, the entries of an application are in one
\* piece, also after they were shown apart and moved about.
WindowsTogether ==
  ~windowSplit => \A p, q \in DOMAIN m_data : \A k \in p..q :
    m_data[p].id = m_data[q].id => m_data[k].id = m_data[p].id

\* The groups never list an entry twice, a row that is not there or nothing at
\* all, and no two have one key, even while calls are queued; once settled
\* they list every entry, or one would be missing in the dock.
GroupsPartition ==
  ~windowSplit =>
    /\ \A p \in DOMAIN m_data : Cardinality(Places(groups, p)) \in
         IF Settled /\ ~misgrouped THEN {1} ELSE {0, 1}
    /\ \A g \in DOMAIN groups : groups[g].rows # <<>>
                                /\ ToSet(groups[g].rows) \subseteq DOMAIN m_data
    /\ \A g, h \in DOMAIN groups : groups[g].key = groups[h].key => g = h

\* What is queued when the last window of a group goes forgets which window of
\* it is current (dockgroupmodel.cpp:227, "No windows left, remove the
\* tracking"): no entry is left for a group that is not there.
TrackingRemoved ==
  [][Len(queue) = 1 /\ Events("childRemoved") # {} /\ HandleEvent =>
       LET g == Head(queue).row
       IN g \in DOMAIN m_currentActiveWindow' => g \in DOMAIN groups']_vars

=============================================================================
