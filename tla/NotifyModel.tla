------------------------------ MODULE NotifyModel ------------------------------
(***************************************************************************)
(* The list of the notification centre.  Each application with records has *)
(* one row (a single record, or an overlap of several), or a group header  *)
(* followed by the rows of its records.                                    *)
(***************************************************************************)
EXTENDS NotifyAccessor, Rows

VARIABLE rows   \* m_appNotifies

FullCount == 2

OverlapCount(source) == Max({0, Min({source - 1, FullCount})})

Normal(n) == [type |-> "normal", app |-> app[n], n |-> n, count |-> 0]
Overlap(n, count) == [type |-> "overlap", app |-> app[n], n |-> n, count |-> count]
\* n: lastEntity of the group.
Group(n) == [type |-> "group", app |-> app[n], n |-> n, count |-> 0]

RowOf(s, a) == SelectInSeq(s, LAMBDA item : item.app = a)
GroupOf(s, a) == SelectInSeq(s, LAMBDA item : item.app = a /\ item.type = "group")
NormalsOf(s, a) == {i \in DOMAIN s : s[i].app = a /\ s[i].type = "normal"}

\* greaterNotifyEntity: the rows of a group are placed by the group's last entity.
PlacedBy(s, item) ==
  LET g == GroupOf(s, item.app) IN IF g = 0 THEN item.n ELSE s[g].n

\* greaterNotify on entities, given the pinned applications.
GreaterNotify(pins, m, n) ==
  IF (app[m] \in pins) = (app[n] \in pins) THEN m >= n ELSE app[m] \in pins

\* greaterNotify on items, by which sort() orders.
GreaterItem(pins, s, x, y) ==
  IF x.app # y.app THEN GreaterNotify(pins, PlacedBy(s, x), PlacedBy(s, y))
  ELSE IF x.type = y.type THEN x.n >= y.n ELSE x.type = "group"

\* lastNotifyIndex
LastNotifyIndex(s, n) ==
  Min({i \in DOMAIN s : GreaterNotify(pinned, n, PlacedBy(s, s[i]))} \cup {Len(s) + 1})

\* The rows from to..to+count-1 moved to where index place will be.
MovedRows(s, from, count, place) ==
  LET block == SubSeq(s, from, from + count - 1)
      rest == SubSeq(s, 1, from - 1) \o SubSeq(s, from + count, Len(s))
  IN  SubSeq(rest, 1, place - 1) \o block \o SubSeq(rest, place, Len(rest))

-----------------------------------------------------------------------------
\* One row per application, the latest first, pinned ones before all.
Opened(store) ==
  LET all == {LastRecord(store, a) : a \in AppsOf(store)}
      lasts == Ranked(all, {p \in all \X all : p[1] # p[2] /\ GreaterNotify(pinned, p[1], p[2])})
      row(n) == LET size == Min({3, Cardinality(Records(store, app[n]))})
                IN IF size >= 2 THEN Overlap(n, OverlapCount(size)) ELSE Normal(n)
  IN  [i \in DOMAIN lasts |-> row(lasts[i])]

Open(store) == rows' = rows \o Opened(store)

Close == rows' = <<>>

\* Mutant of Counted: the number of records is taken for the number behind the first.
CountedAll(n) == Overlap(n, Min({Cardinality(Records(db, app[n])), FullCount}))

\* An overlap of the records of its application, showing n.
Counted(n) == Overlap(n, OverlapCount(Cardinality(Records(db, app[n]))))

\* append to an open group at row r: the record comes first in it, and the group
\* moves up when the record became its last entity.
ReceivedInGroup(r, n) ==
  LET longer == InsertAt(rows, r + 1, Normal(n))
      group == [longer EXCEPT ![r].n = Max({@, n})]
      oldStart == LastNotifyIndex(longer, longer[r].n)
      newStart == LastNotifyIndex(group, group[r].n)
  IN  IF oldStart = newStart THEN group
      ELSE MovedRows(group, r, Cardinality(NormalsOf(group, app[n])) + 1, newStart)

\* append(entity)
Received(n) ==
  LET r == RowOf(rows, app[n])
      single == RemoveAt(rows, r)
      overlap == [rows EXCEPT ![r] = Counted(n)]
  IN  CASE r = 0 -> InsertAt(rows, LastNotifyIndex(rows, n), Normal(n))
        [] r > 0 /\ rows[r].type = "normal" ->
             InsertAt(single, LastNotifyIndex(single, n), Overlap(n, 1))
        [] r > 0 /\ rows[r].type = "overlap" ->
             MovedRows(overlap, r, 1, LastNotifyIndex(overlap, n))
        [] OTHER -> ReceivedInGroup(r, n)

\* expandApp(row)
ExpandApp(r) ==
  LET all == Records(db, rows[r].app)
      newest == LatestFirst(all, Cardinality(all))
      normals == [i \in DOMAIN newest |-> Normal(newest[i])]
  IN  /\ rows[r].type = "overlap"
      /\ rows' = SubSeq(rows, 1, r - 1)
                 \o (IF Cardinality(all) < 2 THEN <<>> ELSE <<Group(Max(all))>> \o normals)
                 \o SubSeq(rows, r + 1, Len(rows))
      /\ UNCHANGED storeVars

\* The rows without row r and the rows of records of a behind it.
WithoutGroup(r, a) ==
  RowsAt(rows, {i \in DOMAIN rows : i < r \/ (i > r /\ i \notin NormalsOf(rows, a))})

\* collapseApp(row)
CollapseApp(r) ==
  LET a == rows[r].app
      rest == WithoutGroup(r, a)
  IN  /\ rows[r].type = "group"
      /\ rows' = IF Cardinality(Records(db, a)) >= 2
                 THEN InsertAt(rest, r, Counted(LastRecord(db, a)))
                 ELSE rest
      /\ UNCHANGED storeVars

-----------------------------------------------------------------------------
\* Mutant of WithoutLoneHeader: a header stays as long as one record follows.
WithoutEmptyHeader(s, a) ==
  LET g == GroupOf(s, a)
  IN  IF g > 0 /\ NormalsOf(s, a) = {} THEN RemoveAt(s, g) ELSE s

\* The end of remove: a group of one record becomes the record.
WithoutLoneHeader(s, a) ==
  LET g == GroupOf(s, a)
  IN  IF g > 0 /\ Cardinality(NormalsOf(s, a)) <= 1 THEN RemoveAt(s, g) ELSE s

\* remove of a single record: trayUpdateGroupLastEntity looks at the row behind the header.
NormalRemoved(s, a) ==
  LET g == GroupOf(s, a)
  IN  IF g > 0 THEN [s EXCEPT ![g].n = Max({@, s[g + 1].n})] ELSE s

\* Mutants of OverlapRow: the last record takes the place of the overlap too early;
\* an overlap of one record stays an overlap.
OverlapRowSingle(store, a) == Normal(LastRecord(store, a))
OverlapRowKept(store, a) ==
  Overlap(LastRecord(store, a), OverlapCount(Cardinality(Records(store, a))))

\* The row of an overlap of a, after its entity was removed and left store.
OverlapRow(store, a) ==
  LET count == OverlapCount(Cardinality(Records(store, a)))
      last == LastRecord(store, a)
  IN  IF count = 0 THEN Normal(last) ELSE Overlap(last, count)

\* Q_ASSERT(entity.isValid()) in remove: an overlap leaves a record behind.
RemovedAllOf(r, store) == rows[r].type = "overlap" /\ Records(store, rows[r].app) = {}

\* remove(id) of the record in row r, the first with its id; the store loses the record.
RemoveRecord(r, store) ==
  LET a == rows[r].app
      s == IF rows[r].type = "normal" THEN NormalRemoved(RemoveAt(rows, r), a)
           ELSE [rows EXCEPT ![r] = OverlapRow(store, a)]
  IN  rows' = WithoutLoneHeader(s, a)

\* Mutant of RemoveByApp: the records of an open group stay on the list.
RemoveByAppHeader(r) ==
  LET a == rows[r].app
  IN  /\ rows[r].type \in {"group", "overlap"}
      /\ rows' = RemoveAt(rows, r)
      /\ db' = db \ Records(db, a)
      /\ UNCHANGED <<app, memory, filed, pinned>>

\* removeByApp(appName), which the header of a group and an overlap offer.
RemoveByApp(r) ==
  LET a == rows[r].app
  IN  /\ rows[r].type \in {"group", "overlap"}
      /\ rows' = IF rows[r].type = "group" THEN WithoutGroup(r, a) ELSE RemoveAt(rows, r)
      /\ db' = db \ Records(db, a)
      /\ UNCHANGED <<app, memory, filed, pinned>>

\* clear()
Clear ==
  /\ rows' = <<>>
  /\ db' = {}
  /\ UNCHANGED <<app, memory, filed, pinned>>

\* collapseAllApp: close and open.
CollapseAllApp ==
  /\ rows' = Opened(db)
  /\ UNCHANGED storeVars

\* sort(); what greaterNotify takes for equal stays as it was.
Sorted(s, pins) ==
  LET places == DOMAIN s
      greater(i, j) == GreaterItem(pins, s, s[i], s[j])
      before == {p \in places \X places :
                   greater(p[1], p[2]) /\ (p[1] < p[2] \/ ~greater(p[2], p[1]))}
      order == Ranked(places, before)
  IN  [k \in places |-> s[order[k]]]
=============================================================================
