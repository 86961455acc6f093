--------------------------- MODULE RoleCombineModel ---------------------------
(* The rows of the window monitor (the major model) combined with the         *)
(* application each window belongs to (the minor model), as in                *)
(* taskmanager/rolecombinemodel.cpp.  m_indexMap takes a row of the major     *)
(* model to a row of the minor one and must follow every change of either.    *)
(* Rows count from 1; both models have one column, and both add and remove    *)
(* one row at a time, so the first and the last row of a signal are the same. *)
EXTENDS Naturals, Sequences, SequencesExt

CONSTANTS
  Window,    \* windows of the session
  App,       \* applications, by desktop id
  Stranger,  \* identities of windows that no application accounts for
  NoId,      \* the empty string
  Treeland   \* whether the windows are Treeland's or those of X11

\* An identity joined to one string.  Treeland's is the application id alone,
\* that of X11 is a list that ends with the process id.
Bare(id) == IF Treeland THEN id ELSE <<id>>

ASSUME TreelandAssumption == Treeland \in BOOLEAN

ASSUME IdsDiffer ==
  /\ App \cap Stranger = {}
  /\ NoId \notin App \cup Stranger
  /\ \A id \in App \cup Stranger : Bare(id) # NoId

VARIABLES
  windows,    \* rows of the major model
  identity,   \* IdentityRole of each window
  apps,       \* rows of the minor model
  m_indexMap

combineVars == <<windows, identity, apps, m_indexMap>>

\* CombineFunc of TaskManager::init: the first row that answers to an identity,
\* 0 when none does.
CombineFunc(id, list) == SelectInSeq(list, LAMBDA app : app = id)

\* m_indexMap[row] = CombineFunc(...), unless the function finds nothing.
Bind(map, row, found) ==
  IF found = 0 THEN map
  ELSE [r \in DOMAIN map \cup {row} |-> IF r = row THEN found ELSE map[r]]

\* DesktopIdRole of a row of the combined model: of the application, else the
\* identity of the window itself; nothing for a row that is gone.
DesktopId(row) ==
  IF row \notin 1..Len(windows) THEN NoId
  ELSE IF row \in DOMAIN m_indexMap /\ m_indexMap[row] \in 1..Len(apps)
       THEN apps[m_indexMap[row]]
       ELSE Bare(identity[windows[row]])

\* The rows whose binding is lost when row i of the minor model goes.
BoundTo(i) == {r \in DOMAIN m_indexMap : m_indexMap[r] = i}

CombineInit ==
  /\ windows = <<>>
  /\ identity = [w \in Window |-> NoId]
  /\ m_indexMap = << >>

-----------------------------------------------------------------------------
(* The handlers, each run inside the signal of the source.                    *)

MajorRowsInserted(i) ==
  LET from(r) == IF r > i THEN r - 1 ELSE r
      shifted == [r \in {IF k >= i THEN k + 1 ELSE k : k \in DOMAIN m_indexMap} |->
                    m_indexMap[from(r)]]
  IN m_indexMap' = Bind(shifted, i, CombineFunc(identity'[windows'[i]], apps))

\* Mutant of MajorRowsRemoved: the rows behind keep their places.
MajorRowsRemovedBare(i) == m_indexMap' = [r \in DOMAIN m_indexMap \ {i} |-> m_indexMap[r]]

MajorRowsRemoved(i) ==
  m_indexMap' = [r \in {IF k > i THEN k - 1 ELSE k : k \in DOMAIN m_indexMap \ {i}} |->
                   m_indexMap[IF r >= i THEN r + 1 ELSE r]]

\* Whatever the roles, the row is looked up again; an old binding stays when
\* nothing is found.
MajorDataChanged(i) ==
  m_indexMap' = Bind(m_indexMap, i, CombineFunc(identity'[windows[i]], apps))

\* Mutant of MinorRowsRemoved: bindings to the rows behind are not moved up.
MinorRowsRemovedBare(i) ==
  m_indexMap' = [r \in DOMAIN m_indexMap \ BoundTo(i) |-> m_indexMap[r]]

\* Rows bound to the removed row are looked up in what is left, or unbound.
MinorRowsRemoved(i) ==
  LET found(r) == CombineFunc(identity[windows[r]], apps')
      lost == {r \in BoundTo(i) : found(r) = 0}
  IN m_indexMap' = [r \in DOMAIN m_indexMap \ lost |->
                      IF r \in BoundTo(i) THEN found(r)
                      ELSE IF m_indexMap[r] > i THEN m_indexMap[r] - 1 ELSE m_indexMap[r]]

\* Only rows without a binding are looked up.
MinorRowsInserted ==
  LET found(r) == CombineFunc(identity[windows[r]], apps')
      new == {r \in (1..Len(windows)) \ DOMAIN m_indexMap : found(r) # 0}
  IN m_indexMap' = [r \in DOMAIN m_indexMap \cup new |->
                      IF r \in new THEN found(r) ELSE m_indexMap[r]]

-----------------------------------------------------------------------------
\* The application a row is bound to, NoId when there is none.
BoundApp(w) ==
  LET r == SelectInSeq(windows, LAMBDA v : v = w)
  IN IF r \in DOMAIN m_indexMap /\ m_indexMap[r] \in 1..Len(apps)
     THEN apps[m_indexMap[r]] ELSE NoId

\* An index map that lags behind either model shows a window under the icon of
\* another application: every binding is of a row that exists to a row that
\* exists, and a window that names an installed application is bound.
BindingsFollow ==
  /\ \A r \in DOMAIN m_indexMap : r \in 1..Len(windows) /\ m_indexMap[r] \in 1..Len(apps)
  /\ \A r \in 1..Len(windows) :
       identity[windows[r]] \in ToSet(apps) => r \in DOMAIN m_indexMap

\* Rows that come and go in either model never turn a window over to another
\* application: while it keeps its identity and its application stays
\* installed, a window stays with it, or goes to the one it names.
BindingsKept ==
  [][\A w \in ToSet(windows) \cap ToSet(windows') :
       identity'[w] = identity[w] /\ BoundApp(w) \in ToSet(apps') =>
         BoundApp(w)' \in {BoundApp(w), identity[w]}]_combineVars

=============================================================================
