-------------------------- MODULE NotificationCenter --------------------------
(***************************************************************************)
(* The notification centre: its panel, its two lists and the signals that  *)
(* keep them in step with the stores.                                      *)
(*                                                                         *)
(* The server changes the stores on its own thread; the centre hears of it *)
(* by queued signals and reads the stores again whenever it handles one or *)
(* the user does something, so it can read a change before it is told of   *)
(* it, or never be told.  A handler of the main thread and a change of the *)
(* stores are one step each.                                               *)
(***************************************************************************)
EXTENDS NotifyModel, NotifyStagingModel

CONSTANTS
  MaxNotify,  \* bound: notifications
  MaxQueued   \* bound: signals waiting

ASSUME CenterAssumption ==
  /\ BubbleMaxCount \in Nat \ {0}
  /\ OverlayMaxCount \in Nat
  /\ MaxNotify \in Nat
  /\ MaxQueued \in Nat \ {0}

VARIABLES
  queue,     \* notificationStateChanged on its way to NotifyAccessor
  visible,   \* m_visible, and the accessor's enabled
  replaces,  \* the notifications that replace another
  aborted,   \* a Q_ASSERT has failed
  \* What the code is never told, or told too late; only properties read it.
  untold,    \* closed, filed or removed without a signal the lists heed
  relisted,  \* applications with a record that was announced when it was listed
  restaged,  \* live notifications that were announced when they were listed
  astray     \* live notifications that remove put among rows of which it sees but the last

centerVars == <<queue, visible, replaces, aborted>>
ghosts == <<untold, relisted, restaged, astray>>
allVars == <<storeVars, rows, staging, overlapCount, centerVars, ghosts>>

Note == 1..Len(app)
Signal(n, row, type) == [n |-> n, row |-> row, type |-> type]
Running == ~aborted
CanSignal == Running /\ Len(queue) < MaxQueued
Send(n, row, type) == queue' = Append(queue, Signal(n, row, type))
ListsKept == UNCHANGED <<rows, staging, overlapCount>>
Queued(n, type) == \E i \in DOMAIN queue : queue[i].n = n /\ queue[i].type = type

\* What the step puts among rows of which more than one is older.
Misplaced ==
  {n \in Note : /\ Contains(staging', n) /\ ~Contains(staging, n)
                /\ \E i, j \in DOMAIN staging' : i < j /\ staging'[i] < n /\ staging'[j] < n}

-----------------------------------------------------------------------------
(* What the server does to the stores.                                     *)

\* Notify: a banner, or a record at once when the user is not to be disturbed.
Notify(a, type) ==
  LET n == Len(app) + 1
      row == type = "Processed"
  IN  /\ CanSignal /\ n <= MaxNotify
      /\ app' = Append(app, a)
      /\ memory' = IF row THEN memory ELSE memory \cup {n}
      /\ db' = IF row THEN db \cup {n} ELSE db
      /\ filed' = IF row THEN filed \cup {n} ELSE filed
      /\ Send(n, row, type)
      /\ ListsKept /\ UNCHANGED <<pinned, visible, replaces, aborted, ghosts>>

\* Notify with the id of banner m: recordNotification files m, or drops it if it is
\* not to be recorded; no signal tells of either.
Replace(m, kept) ==
  LET n == Len(app) + 1
  IN  /\ CanSignal /\ n <= MaxNotify
      /\ app' = Append(app, app[m])
      /\ memory' = (memory \ {m}) \cup {n}
      /\ db' = IF kept THEN db \cup {m} ELSE db
      /\ filed' = IF kept THEN filed \cup {m} ELSE filed
      /\ replaces' = replaces \cup {n}
      /\ untold' = untold \cup {m}
      /\ Send(n, FALSE, "NotProcessed")
      /\ ListsKept /\ UNCHANGED <<pinned, visible, aborted, relisted, restaged, astray>>

\* A banner expires: it is filed if its application is kept in the centre.
Expire(n, kept) ==
  /\ CanSignal
  /\ memory' = memory \ {n}
  /\ db' = IF kept THEN db \cup {n} ELSE db
  /\ filed' = IF kept THEN filed \cup {n} ELSE filed
  /\ Send(n, kept, "Processed")
  /\ ListsKept /\ UNCHANGED <<app, pinned, visible, replaces, aborted, ghosts>>

\* CloseNotification: its signal says Removed, which the centre does not look at.
Withdraw(n) ==
  /\ Running
  /\ memory' = memory \ {n}
  /\ untold' = untold \cup {n}
  /\ ListsKept /\ UNCHANGED <<app, db, filed, pinned, centerVars, relisted, restaged, astray>>

-----------------------------------------------------------------------------
(* The panel.                                                              *)

\* setVisible(true): old records go, then both lists are read.
Show(oldest) ==
  LET kept == {n \in db : n >= oldest}
  IN  /\ Running /\ ~visible
      /\ visible' = TRUE
      /\ db' = kept
      /\ Open(kept)
      /\ StagingOpen
      /\ UNCHANGED <<app, memory, filed, pinned, queue, replaces, aborted, ghosts>>

\* setVisible(false)
Hide ==
  /\ Running /\ visible
  /\ visible' = FALSE
  /\ Close
  /\ StagingClose
  /\ relisted' = {} /\ restaged' = {} /\ astray' = {}
  /\ UNCHANGED <<storeVars, queue, replaces, aborted, untold>>

\* Mutant of ProcessedReceived: the live notifications are not told.
ProcessedReceivedAlone(n, row) ==
  /\ rows' = IF Valid(n, row) THEN Received(n) ELSE rows
  /\ relisted' = IF Valid(n, row) /\ \E i \in NormalsOf(rows, app[n]) : rows[i].n = n
                 THEN relisted \cup {app[n]} ELSE relisted
  /\ UNCHANGED <<staging, overlapCount, restaged, astray>>

\* entityReceived, then stagingEntityClosed; the entity is looked up again.
ProcessedReceived(n, row) ==
  /\ rows' = IF Valid(n, row) THEN Received(n) ELSE rows
  /\ relisted' = IF Valid(n, row) /\ \E i \in NormalsOf(rows, app[n]) : rows[i].n = n
                 THEN relisted \cup {app[n]} ELSE relisted
  /\ StagingRemoved(n)
  /\ astray' = astray \cup Misplaced
  /\ UNCHANGED restaged

\* stagingEntityReceived
LiveReceived(n, row) ==
  /\ IF Valid(n, row) THEN StagingReceived(n, n \in replaces)
                      ELSE UNCHANGED <<staging, overlapCount>>
  /\ restaged' = IF Valid(n, row) /\ Contains(staging, n) THEN restaged \cup {n} ELSE restaged
  /\ UNCHANGED <<rows, relisted, astray>>

\* NotifyAccessor::onNotificationStateChanged; a hidden centre drops the signal.
Deliver ==
  /\ Running /\ queue # <<>>
  /\ queue' = Tail(queue)
  /\ UNCHANGED <<storeVars, visible, replaces, aborted, untold>>
  /\ LET s == Head(queue)
     IN  IF ~visible THEN ListsKept /\ UNCHANGED <<relisted, restaged, astray>>
         ELSE IF s.type = "Processed" THEN ProcessedReceived(s.n, s.row)
         ELSE LiveReceived(s.n, s.row)

-----------------------------------------------------------------------------
(* What the user does in the centre.                                       *)

OnRows ==
  Running /\ UNCHANGED <<staging, overlapCount, queue, visible, replaces, untold, restaged, astray>>

\* expandApp, collapseApp or removeByApp on row r.
Fold(r) == OnRows /\ ExpandApp(r) /\ UNCHANGED <<aborted, relisted>>
Unfold(r) == OnRows /\ CollapseApp(r) /\ UNCHANGED <<aborted, relisted>>
DropApp(r) == OnRows /\ RemoveByApp(r) /\ UNCHANGED <<aborted, relisted>>

\* remove(id) on a record's row or an overlap, or invokeAction(id), by which the
\* server removes the record first.
RemoveNotify(r) ==
  LET n == rows[r].n
      left == db \ {n}
  IN  /\ OnRows
      /\ rows[r].type # "group"
      /\ \A i \in 1..r-1 : rows[i].type = "group" \/ rows[i].n # n
      /\ db' = left
      /\ aborted' = RemovedAllOf(r, left)
      /\ IF RemovedAllOf(r, left) THEN UNCHANGED rows ELSE RemoveRecord(r, left)
      /\ UNCHANGED <<app, memory, filed, pinned, relisted>>

ClearAll == OnRows /\ visible /\ Clear /\ relisted' = {} /\ UNCHANGED aborted
FoldAll == OnRows /\ visible /\ CollapseAllApp /\ relisted' = {} /\ UNCHANGED aborted

\* pinApplication, which is offered on a row of the application.
PinApplication(a) ==
  /\ OnRows
  /\ RowOf(rows, a) > 0
  /\ pinned' = SymDiff(pinned, {a})
  /\ rows' = Sorted(rows, pinned')
  /\ UNCHANGED <<app, memory, db, filed, aborted, relisted>>

OnStaging == Running /\ UNCHANGED <<app, filed, pinned, rows, visible, replaces, aborted, relisted, restaged>>

\* closeNotify(id, reason): a live notification is removed; of a row whose
\* notification was filed meanwhile, the record is announced once more, also when
\* it goes because the centre keeps none of its application by now.
CloseNotify(i, kept) ==
  LET n == staging[i]
  IN  /\ OnStaging
      /\ memory' = memory \ {n}
      /\ db' = IF kept THEN db ELSE db \ {n}
      /\ untold' = IF n \in db /\ ~kept THEN untold \cup {n} ELSE untold
      /\ IF n \in db THEN Len(queue) < MaxQueued /\ Send(n, TRUE, "Processed")
                     ELSE UNCHANGED queue
      /\ StagingRemoved(n)
      /\ astray' = astray \cup Misplaced

\* invokeNotify(id, actionId): the server removes the notification wherever it is.
InvokeNotify(i) ==
  LET n == staging[i]
  IN  /\ OnStaging
      /\ memory' = memory \ {n}
      /\ db' = db \ {n}
      /\ untold' = IF n \in db THEN untold \cup {n} ELSE untold
      /\ StagingRemoved(n)
      /\ astray' = astray \cup Misplaced
      /\ UNCHANGED queue

-----------------------------------------------------------------------------
Init ==
  /\ app = <<>> /\ memory = {} /\ db = {} /\ filed = {}
  /\ pinned = {}
  /\ rows = <<>> /\ staging = <<>> /\ overlapCount = 0
  /\ queue = <<>> /\ visible = FALSE /\ replaces = {} /\ aborted = FALSE
  /\ untold = {} /\ relisted = {} /\ restaged = {} /\ astray = {}

Next ==
  \/ \E a \in App, type \in {"NotProcessed", "Processed"} : Notify(a, type)
  \/ \E n \in memory : Withdraw(n)
  \/ \E n \in memory, kept \in BOOLEAN : Replace(n, kept) \/ Expire(n, kept)
  \/ \E oldest \in 1..Len(app) + 1 : Show(oldest)
  \/ Hide
  \/ Deliver
  \/ \E r \in DOMAIN rows : Fold(r) \/ Unfold(r) \/ DropApp(r) \/ RemoveNotify(r)
  \/ ClearAll
  \/ FoldAll
  \/ \E a \in App : PinApplication(a)
  \/ \E i \in DOMAIN staging : InvokeNotify(i) \/ \E kept \in BOOLEAN : CloseNotify(i, kept)

Spec == Init /\ [][Next]_allVars

-----------------------------------------------------------------------------
TypeOK ==
  /\ app \in Seq(App) /\ Len(app) <= MaxNotify
  /\ memory \subseteq Note /\ db \subseteq filed /\ filed \subseteq Note \ memory
  /\ pinned \subseteq App
  /\ rows \in Seq([type : {"normal", "overlap", "group"}, app : App, n : Note, count : 0..FullCount])
  /\ staging \in Seq(Note) /\ Len(staging) <= BubbleMaxCount
  /\ overlapCount \in 0..MaxCount
  /\ queue \in Seq([n : Note, row : BOOLEAN, type : {"NotProcessed", "Processed"}])
  /\ Len(queue) <= MaxQueued
  /\ visible \in BOOLEAN /\ aborted \in BOOLEAN 
  /\ restaged \subseteq Note /\ astray \subseteq Note /\ replaces \subseteq Note /\ untold \subseteq Note /\ relisted \subseteq App

\* Applications of whose records the list was not told, because they were filed or
\* removed in silence, or told when it had them.
Misled == relisted \cup {app[n] : n \in untold \cap filed}

\* The rows of an application are one row, or a header with its records right
\* behind it: no insertion, move or removal tears a group apart or leaves a
\* header that expandApp and collapseApp could not handle.
Blocks ==
  \A a \in App :
    LET own == {i \in DOMAIN rows : rows[i].app = a}
    IN  Cardinality(own) > 1 =>
          /\ own = Min(own)..Max(own)
          /\ Cardinality(own) > 2
          /\ \A i \in own : rows[i].type = IF i = Min(own) THEN "group" ELSE "normal"

\* No row of another application is above a pinned one.
PinnedFirst ==
  \A i, j \in DOMAIN rows : i < j /\ rows[j].app \in pinned => rows[i].app \in pinned

\* The list of the centre stays one that the view can show, whatever is expanded,
\* pinned, removed or announced in between.
Arranged == Blocks /\ PinnedFirst

\* What is listed has a record: removing it, acting on it or reading its group
\* finds it in the store.  Left out are the applications of Misled: a record that
\* was announced while it was listed is listed twice and outlives its removal, and
\* a record that the server removed in silence keeps its row.
RowsLive ==
  Running => \A i \in DOMAIN rows :
    rows[i].type = "group" \/ rows[i].app \in Misled \/ rows[i].n \in db

\* Every record the centre was told of can be reached from the list: it has a row,
\* or an overlap stands for it.
RecordsListed ==
  visible => \A n \in db :
    \/ Queued(n, "Processed") \/ app[n] \in Misled
    \/ \E i \in DOMAIN rows :
         /\ rows[i].app = app[n]
         /\ rows[i].type = "overlap" \/ (rows[i].type = "normal" /\ rows[i].n = n)

\* The number on an overlap tells how many records are behind the first.
OverlapsCounted ==
  \A i \in DOMAIN rows :
    LET a == rows[i].app
    IN  /\ rows[i].type = "overlap" /\ a \notin relisted
        /\ \A n \in Records(Note, a) : ~Queued(n, "Processed") /\ n \notin untold
        => rows[i].count = OverlapCount(Cardinality(Records(db, a)))

\* The assertion of remove, that an overlap leaves a record behind, cannot fail on
\* the row of an application whose records were each announced once, before they
\* were listed, and removed by the list itself.  It fails after a record was
\* announced while it was listed, and after one that an overlap stands for was
\* removed in silence.
AbortsOnlyMisled ==
  \A i \in DOMAIN rows : RemovedAllOf(i, db \ {rows[i].n}) => rows[i].app \in Misled

\* A row among the live notifications is live, or its closing is on the way, unless
\* the server closed or filed it in a way the centre is not told of, or it was
\* announced when it was listed, so that push lists it twice.
StagingLive ==
  \A i \in DOMAIN staging :
    \/ staging[i] \in memory \/ Queued(staging[i], "Processed")
    \/ staging[i] \in untold \/ staging[i] \in restaged \ replaces

\* What may be listed below an older row: a notification that is pushed when it is
\* listed, at once or soon, or that remove put there.
OutOfTurn(n) == n \in restaged \/ n \in astray \/ Queued(n, "NotProcessed")

\* The live notifications are listed the latest first.
StagingSorted ==
  \A i, j \in DOMAIN staging :
    i < j /\ staging[j] \in memory => staging[i] > staging[j] \/ OutOfTurn(staging[j])

\* A live notification that was announced is left out only when the list is full.
StagingFull ==
  visible => \A n \in memory :
    \/ Queued(n, "NotProcessed") \/ Contains(staging, n)
    \/ Len(staging) = BubbleMaxCount

\* The list of live notifications is in the order of time and as long as it can be,
\* also when a row that goes is replaced from the store.
StagingOrdered == StagingSorted /\ StagingFull
=============================================================================
