------------------------ MODULE DockGlobalElementModel ------------------------
(* The rows of the dock: docked applications and windows in one list, as in   *)
(* taskmanager/dockglobalelementmodel.cpp.  Its handlers are queued: each     *)
(* runs on the source models as they are by then.  They are given here as     *)
(* what they make of m_data, with the row signals they send on the way.       *)
EXTENDS RoleCombineModel, Rows

VARIABLES
  m_data,            \* rows: id, the model that answers for it, the row there
  m_dockedElements,  \* the docked elements as last loaded
  dockedElements,    \* TaskManagerSettings::dockedElements
  windowSplit        \* TaskManagerSettings::isWindowSplit

globalVars == <<m_data, m_dockedElements, dockedElements, windowSplit>>

Entry(id, model, row) == [id |-> id, model |-> model, row |-> row]

\* What a handler leaves: the rows, the row signals in order, the rows whose
\* ActiveRole it reports as changed.
Update(data, ops, changed) == [data |-> data, ops |-> ops, changed |-> changed]
Inserting(row, id) == [op |-> "insert", row |-> row, id |-> id]
Removing(row) == [op |-> "remove", row |-> row, id |-> NoId]

IdsOf(data) == {data[p].id : p \in DOMAIN data}
Find(data, model, row) == SelectInSeq(data, LAMBDA e : e.model = model /\ e.row = row)

\* DesktopIdRole of a row of the dock.
ElementId(e) ==
  IF e.model = "active" THEN DesktopId(e.row)
  ELSE IF e.row \in 1..Len(apps) THEN apps[e.row] ELSE NoId

\* Mutant of PutWindow: every further window goes to the end.
PutWindowLast(data, id, i) ==
  LET icon == SelectInSeq(data, LAMBDA e : e.id = id /\ e.model = "apps")
  IN IF icon # 0 THEN Update([data EXCEPT ![icon] = Entry(id, "active", i)], <<>>, {icon})
     ELSE Update(Append(data, Entry(id, "active", i)), <<Inserting(Len(data) + 1, id)>>, {})

\* The windows of an application are put together: the first takes the place of
\* its docked icon, the next ones go behind the last.
PutWindow(data, id, i) ==
  LET mine == {p \in DOMAIN data : data[p].id = id}
      first == Min(mine)
      new == Entry(id, "active", i)
  IN IF id = NoId THEN Update(data, <<>>, {})
     ELSE IF mine = {} THEN Update(Append(data, new), <<Inserting(Len(data) + 1, id)>>, {})
     ELSE IF data[first].model = "apps" THEN Update([data EXCEPT ![first] = new], <<>>, {first})
     ELSE Update(InsertAt(data, Max(mine) + 1, new), <<Inserting(Max(mine) + 1, id)>>, {})

\* rowsInserted of the combined model: the new rows first, then the shift.
ActiveInserted(i) ==
  LET put == PutWindow(m_data, DesktopId(i), i)
      moved(e) == IF e.model = "active" /\ e.row > i THEN [e EXCEPT !.row = @ + 1] ELSE e
  IN [put EXCEPT !.data = [p \in DOMAIN @ |-> moved(@[p])]]

\* The row of a window that is gone: the last window of a docked application
\* leaves its icon behind, if the application is still installed.
TakeWindow(i) ==
  LET pos == Find(m_data, "active", i)
      id == m_data[pos].id
      others == \E e \in ToSet(m_data) : e.id = id /\ e.model = "active" /\ e.row # i
      appRow == CombineFunc(id, apps)
  IN IF pos = 0 THEN Update(m_data, <<>>, {})
     ELSE IF ~others /\ id \in ToSet(m_dockedElements) /\ appRow # 0
     THEN Update([m_data EXCEPT ![pos] = Entry(id, "apps", appRow)], <<>>, {pos})
     ELSE Update(RemoveAt(m_data, pos), <<Removing(pos)>>, {})

\* Mutant of Lowered: every row of the model.
LoweredAll(data, model, i) ==
  [p \in DOMAIN data |-> IF data[p].model = model THEN [data[p] EXCEPT !.row = @ - 1] ELSE data[p]]

\* Rows of a model from i on, one less.
Lowered(data, model, i) ==
  [p \in DOMAIN data |-> IF data[p].model = model /\ data[p].row >= i
                         THEN [data[p] EXCEPT !.row = @ - 1] ELSE data[p]]

\* rowsRemoved of the combined model.
ActiveRemoved(i) ==
  [TakeWindow(i) EXCEPT !.data = Lowered(@, "active", i)]

\* Mutant of AppsRemoved: icons behind the application are not adjusted.
AppsRemovedBare(i) ==
  LET pos == Find(m_data, "apps", i)
  IN IF pos = 0 THEN Update(m_data, <<>>, {})
     ELSE Update(RemoveAt(m_data, pos), <<Removing(pos)>>, {})

\* rowsRemoved of the applications.
AppsRemoved(i) ==
  LET pos == Find(m_data, "apps", i)
      taken == IF pos = 0 THEN Update(m_data, <<>>, {})
               ELSE Update(RemoveAt(m_data, pos), <<Removing(pos)>>, {})
  IN [taken EXCEPT !.data = Lowered(@, "apps", i)]

\* loadDockedElements: the elements that are installed, those new among them
\* put at the end unless they run, the icons of those no longer docked taken.
Installed(elements) ==
  RowsAt(elements, {i \in DOMAIN elements : CombineFunc(elements[i], apps) # 0})

Load(elements) ==
  LET add(u, id) ==
        IF id \in ToSet(m_dockedElements) \cup IdsOf(u.data) THEN u
        ELSE Update(Append(u.data, Entry(id, "apps", CombineFunc(id, apps))),
                    Append(u.ops, Inserting(Len(u.data) + 1, id)), {})
      take(u, id) ==
        LET pos == SelectInSeq(u.data, LAMBDA e : e.id = id /\ e.model = "apps")
        IN IF id \in ToSet(Installed(elements)) \/ pos = 0 THEN u
           ELSE Update(RemoveAt(u.data, pos), Append(u.ops, Removing(pos)), {})
  IN FoldLeft(take,
              FoldLeft(add, Update(m_data, <<>>, {}), Installed(elements)),
              m_dockedElements)

\* moveItem; called by the view when windows are shown apart.
Moved(data, from, to) == InsertAt(RemoveAt(data, from), to, data[from])

\* groupItemsByApp, one turn of its outer loop: the entries of the id at k that
\* are behind its run are moved to the end of the run.
Gather(acc, k) ==
  LET data == acc.data
      id == data[k].id
      run == Min({p \in k + 1..Len(data) + 1 : p = Len(data) + 1 \/ data[p].id # id})
      behind == SubSeq(data, run, Len(data))
      mine == {p \in DOMAIN behind : behind[p].id = id}
  IN IF k < acc.next THEN acc
     ELSE [data |-> SubSeq(data, 1, run - 1) \o RowsAt(behind, mine)
                      \o RowsAt(behind, DOMAIN behind \ mine),
           next |-> run + Cardinality(mine)]

GroupedByApp(data) ==
  FoldLeft(Gather, [data |-> data, next |-> 1], [k \in DOMAIN data |-> k]).data

GlobalInit ==
  /\ m_data = <<>>
  /\ m_dockedElements = <<>>

=============================================================================
