------------------------- MODULE NotificationManager -------------------------
(***************************************************************************)
(* The notification server: NotificationManager, the two stores behind     *)
(* DataAccessorProxy (MemoryAccessor for banners on screen, DBAccessor for *)
(* the records of the notification centre), the expiry timer and the       *)
(* hovered banner.                                                         *)
(*                                                                         *)
(* The manager lives on a worker thread, which runs D-Bus calls, queued    *)
(* QTimer::start calls and timeouts.  The panels call it directly from the *)
(* main thread (Qt::DirectConnection), so two calls may be in progress at  *)
(* once.  The unit of interleaving is one pass of the loop at the end of   *)
(* onHandingPendingEntities, and the points of Notify before the state     *)
(* signal and before pushPendingEntity.                                    *)
(*                                                                         *)
(* A NotifyEntity is a handle on shared data that copies do not detach     *)
(* from: setId and setProcessedType on any copy are seen by the store, the *)
(* pending expiries and the banners.  Hence the heap `note`, indexed by    *)
(* the order of creation, and sets of indices everywhere else.             *)
(*                                                                         *)
(* Time is relative: `due`, lastTimeoutPoint and the timer hold the time   *)
(* that is left, 0 standing for now or the past.                           *)
(***************************************************************************)
EXTENDS Integers, Sequences, FiniteSets

CONSTANTS
  Contents,         \* what clients send: [timeout, hint, bluetooth, app]
  NewTypes,         \* the processedTypes the settings can give a new notification
  BlockItemTimeout, \* grace period of a banner the pointer leaves
  MaxDelay,         \* bound: longest timeout
  MaxNotify,        \* bound: notifications over all sessions
  MaxStarts,        \* bound: QTimer::start calls waiting in the worker's queue
  MaxRestarts       \* bound: restarts of the shell

Note == 1..MaxNotify
NotPending == -1
InvalidId == 0
Never == MaxDelay + 1       \* std::numeric_limits<qint64>::max()
TimerOff == -1
Threads == {"worker", "main"}
NoCall == [note |-> 0, at |-> "idle"]
NoSignal == [by |-> "worker", id |-> InvalidId, type |-> "None"]

ASSUME ContentsAssumption ==
  /\ Contents \subseteq
       [timeout : 0..MaxDelay,            \* 0: never expires, or critical
        hint : {"none", "show", "hide"},  \* x-deepin-ShowInNotifyCenter
        bluetooth : BOOLEAN,            \* progress of a file transfer
        app : STRING]
  /\ Contents # {}
ASSUME TypesAssumption == NewTypes \subseteq {"NotProcessed", "Processed"}
ASSUME BoundsAssumption ==
  /\ MaxDelay \in Nat \ {0}
  /\ MaxNotify \in Nat
  /\ MaxStarts \in Nat \ {0}
  /\ MaxRestarts \in Nat
  /\ BlockItemTimeout \in 1..MaxDelay

VARIABLES
  count,            \* notifications created so far: 1..count are in the heap
  note,             \* the heap: [id, bubble, replace, type, content]
  memory,           \* MemoryAccessor: the entities of m_entities
  db,               \* DBAccessor: the notifications that have a row
  memoryIds,        \* MemoryAccessor: ids given out (g_Id = -memoryIds)
  rowIds,           \* DBAccessor: AUTOINCREMENT
  replacesCount,    \* m_replacesCount
  due,              \* m_pendingTimeoutEntities: time left, or NotPending
  lastTimeoutPoint, \* m_lastTimeoutPoint
  timer,            \* m_pendingTimeout: time left, or TimerOff
  starts,           \* queued QTimer::start(interval) calls
  blockClosedId,    \* m_blockClosedId: the id of the hovered banner
  todo,             \* per thread, what is left of its timeoutEntities
  call,             \* the Notify in progress on the worker
  restarts,
  signal            \* NotificationStateChanged emitted by the last step

stores == <<count, note, memory, db, memoryIds, rowIds, replacesCount>>
expiry == <<due, lastTimeoutPoint, starts>>
vars == <<count, note, memory, db, memoryIds, rowIds, replacesCount, due,
          lastTimeoutPoint, timer, starts, blockClosedId, todo, call,
          restarts, signal>>

-----------------------------------------------------------------------------
(* The stores, as seen through DataAccessorProxy.                          *)

InMemory(id) == {n \in memory : note[n].id = id}
InSource(id) == {n \in db : note[n].id = id}

\* What fetchEntity(id) may return: the entity itself, or a copy of its row.
Fetched(id) == IF InMemory(id) # {} THEN InMemory(id) ELSE InSource(id)

\* fetchLastEntity(bubbleId): the last match in m_entities, which is in order
\* of creation among the entities of one bubble.
Last(b) ==
  {n \in memory : note[n].bubble = b /\ \A m \in memory : note[m].bubble = b => m <= n}

\* Mutant of File: a row id is given twice.
FileReusesRowId(n) ==
  /\ memory' = memory \ {n}
  /\ db' = db \cup {n}
  /\ note' = [note EXCEPT ![n].type = "Processed", ![n].id = rowIds + 1]
  /\ UNCHANGED rowIds

\* updateEntityProcessedType(id, Processed) for an entity n that is in memory:
\* it moves to the database under a new id, except for a file transfer.
File(n) ==
  /\ memory' = memory \ {n}
  /\ IF note[n].content.bluetooth
     THEN /\ note' = [note EXCEPT ![n].type = "Processed"]
          /\ UNCHANGED <<db, rowIds>>
     ELSE /\ db' = db \cup {n}
          /\ rowIds' = rowIds + 1
          /\ note' = [note EXCEPT ![n].type = "Processed", ![n].id = rowIds + 1]

-----------------------------------------------------------------------------
(* The pending expiries.                                                   *)

Least(S) == CHOOSE x \in S : \A y \in S : x <= y

\* Mutants of HandPending: what is due stays pending; lastTimeoutPoint outlives
\* the last expiry.
HandPendingKeepsDue(t, d, work) ==
  LET rest == {d[n] : n \in {m \in Note : d[m] # NotPending}}
  IN  /\ due' = d
      /\ todo' = [work EXCEPT ![t] = @ \cup {n \in Note : d[n] = 0}]
      /\ IF rest = {}
         THEN lastTimeoutPoint' = Never /\ starts' = starts
         ELSE lastTimeoutPoint' = Least(rest) /\ starts' = Append(starts, Least(rest))
HandPendingKeepsPoint(t, d, work) ==
  LET rest == {d[n] : n \in {m \in Note : d[m] > 0}}
  IN  /\ due' = [n \in Note |-> IF d[n] = 0 THEN NotPending ELSE d[n]]
      /\ todo' = [work EXCEPT ![t] = @ \cup {n \in Note : d[n] = 0}]
      /\ IF rest = {}
         THEN UNCHANGED <<lastTimeoutPoint, starts>>
         ELSE lastTimeoutPoint' = Least(rest) /\ starts' = Append(starts, Least(rest))

\* onHandingPendingEntities by thread t, on pending expiries d: what is due
\* joins the work of the thread, the timer is rearmed for the rest.
HandPending(t, d, work) ==
  LET rest == {d[n] : n \in {m \in Note : d[m] > 0}}
  IN  /\ due' = [n \in Note |-> IF d[n] = 0 THEN NotPending ELSE d[n]]
      /\ todo' = [work EXCEPT ![t] = @ \cup {n \in Note : d[n] = 0}]
      /\ IF rest = {}
         THEN lastTimeoutPoint' = Never /\ starts' = starts
         ELSE /\ lastTimeoutPoint' = Least(rest)
              /\ starts' = Append(starts, Least(rest))

\* The pending entries removePendingEntity(entity) may stop at; the order of a
\* QMultiHash is arbitrary.  Ids are those after the update of the entity.
PendingOf(id, replace, bubble) ==
  {n \in Note : /\ due[n] # NotPending
                /\ note'[n].id = id \/ (replace /\ note[n].bubble = bubble)}

RemovePending(t, id, replace, bubble, work) ==
  LET found == PendingOf(id, replace, bubble)
  IN  IF found = {}
      THEN todo' = work /\ UNCHANGED expiry
      ELSE \E n \in found : HandPending(t, [due EXCEPT ![n] = NotPending], work)

\* Bound: the user waits until the worker has run the start calls queued so far.
Room == Len(starts) < MaxStarts

-----------------------------------------------------------------------------
(* Closing.                                                                *)

\* Whether updateEntityProcessed(entity) keeps a record: the hint decides, and
\* without one the setting of the application, which may change at any time.
ShowInCenter(n) ==
  CASE note[n].content.hint = "hide" -> {FALSE}
    [] note[n].content.hint = "show" -> {TRUE}
    [] OTHER -> BOOLEAN

\* updateEntityProcessed(entity) by thread t, where entity was fetched as n and
\* got the type ty.
UpdateProcessed(t, n, ty, work) ==
  /\ IF n \in memory
     THEN \E show \in ShowInCenter(n) :
            IF ty = "Removed" \/ ~show
            THEN /\ memory' = memory \ {n}
                 /\ note' = [note EXCEPT ![n].type = ty]
                 /\ UNCHANGED <<db, rowIds>>
            ELSE File(n)
     ELSE /\ \E show \in ShowInCenter(n) :
               db' = IF ty = "Removed" \/ ~show THEN db \ {n} ELSE db
          /\ UNCHANGED <<memory, rowIds, note>>
  /\ signal' = [by |-> t, id |-> note'[n].id, type |-> ty]
  /\ RemovePending(t, note'[n].id, note[n].replace, note[n].bubble, work)
  /\ UNCHANGED <<count, memoryIds, replacesCount>>

\* notificationClosed(id, bubbleId, reason) by thread t.
Closed(t, id, reason, work) ==
  \/ /\ Fetched(id) = {}
     /\ todo' = work
     /\ signal' = NoSignal
     /\ UNCHANGED <<stores, expiry>>
  \/ \E n \in Fetched(id) :
       UpdateProcessed(t, n,
         IF reason = "Closed" /\ n \in memory /\ note[n].type = "NotProcessed"
         THEN "Removed" ELSE "Processed", work)

-----------------------------------------------------------------------------
(* The worker thread.                                                      *)

WorkerIdle == todo["worker"] = {} /\ call = NoCall

\* Mutant of Entity: a memory id that counts the banners on screen.
EntityReusesId(n, id, b, isReplace, ty, c) ==
  [note EXCEPT ![n] = [id |-> IF id < 0 THEN -(Cardinality(memory) + 1) ELSE id,
                       bubble |-> b, replace |-> isReplace, type |-> ty, content |-> c]]

\* A heap entry for notification n.
Entity(n, id, b, isReplace, ty, c) ==
  [note EXCEPT ![n] = [id |-> id, bubble |-> b, replace |-> isReplace,
                       type |-> ty, content |-> c]]

\* Notify(..., replacesId = 0): recorded in memory to be shown, or, when the
\* settings silence it, in the database.  A file transfer that is silenced is
\* recorded nowhere and addEntity returns -1, which is not InvalidId.
NotifyNew(c) ==
  /\ WorkerIdle
  /\ count < MaxNotify
  /\ LET n == count + 1
     IN  /\ count' = n
         /\ replacesCount' = replacesCount + 1
         /\ call' = [note |-> n, at |-> "emit"]
         /\ \/ /\ "NotProcessed" \in NewTypes
               /\ memory' = memory \cup {n}
               /\ memoryIds' = memoryIds + 1
               /\ note' = Entity(n, -(memoryIds + 1), replacesCount + 1, FALSE,
                                 "NotProcessed", c)
               /\ UNCHANGED <<db, rowIds>>
            \/ /\ "Processed" \in NewTypes
               /\ ~c.bluetooth
               /\ db' = db \cup {n}
               /\ rowIds' = rowIds + 1
               /\ note' = Entity(n, rowIds + 1, replacesCount + 1, FALSE, "Processed", c)
               /\ UNCHANGED <<memory, memoryIds>>
            \/ /\ "Processed" \in NewTypes
               /\ c.bluetooth
               /\ note' = Entity(n, -1, replacesCount + 1, FALSE, "Processed", c)
               /\ UNCHANGED <<memory, memoryIds, db, rowIds>>
  /\ signal' = NoSignal
  /\ UNCHANGED <<due, lastTimeoutPoint, timer, starts, blockClosedId, todo, restarts>>

\* Mutants of NotifyReplace: the predecessor stays, or goes without a record.
ReplaceInMemory(c, b, gone) ==
  /\ WorkerIdle
  /\ count < MaxNotify
  /\ LET n == count + 1
     IN  \E last \in Last(b) :
           /\ count' = n
           /\ call' = [note |-> n, at |-> "emit"]
           /\ memory' = (IF gone THEN memory \ {last} ELSE memory) \cup {n}
           /\ memoryIds' = memoryIds + 1
           /\ note' = Entity(n, -(memoryIds + 1), b, TRUE, "NotProcessed", c)
           /\ RemovePending("worker", -(memoryIds + 1), TRUE, b, todo)
  /\ signal' = NoSignal
  /\ UNCHANGED <<db, rowIds, replacesCount, timer, blockClosedId, restarts>>
NotifyReplaceKeepsLast(c, b) == ReplaceInMemory(c, b, FALSE)
NotifyReplaceDropsLast(c, b) == ReplaceInMemory(c, b, TRUE)

\* Notify(..., replacesId = b): the banner of b is filed and a new one added,
\* or, when the client asks to stay out of the centre, it takes over its id.
\* Without such a banner recordNotification fails and Notify returns 0.
NotifyReplace(c, b) ==
  /\ WorkerIdle
  /\ count < MaxNotify
  /\ LET n == count + 1
     IN  \E last \in Last(b) :
           /\ count' = n
           /\ call' = [note |-> n, at |-> "emit"]
           /\ IF c.hint # "hide"
              THEN /\ memory' = (memory \ {last}) \cup {n}
                   /\ memoryIds' = memoryIds + 1
                   /\ LET filed == ~note[last].content.bluetooth
                          new == Entity(n, -(memoryIds + 1), b, TRUE, "NotProcessed", c)
                      IN  /\ db' = IF filed THEN db \cup {last} ELSE db
                          /\ rowIds' = IF filed THEN rowIds + 1 ELSE rowIds
                          /\ note' = [new EXCEPT ![last].type = "Processed",
                                                 ![last].id = IF filed THEN rowIds + 1 ELSE @]
              ELSE /\ memory' = (memory \ {last}) \cup {n}
                   /\ note' = Entity(n, note[last].id, b, TRUE, "NotProcessed", c)
                   /\ UNCHANGED <<memoryIds, db, rowIds>>
           /\ RemovePending("worker", note'[n].id, TRUE, b, todo)
  /\ signal' = NoSignal
  /\ UNCHANGED <<replacesCount, timer, blockClosedId, restarts>>

\* Notify, continued: the state signal, once what removePendingEntity found due
\* has been handled.
NotifyEmit ==
  /\ todo["worker"] = {}
  /\ call.at = "emit"
  /\ LET e == note[call.note]
     IN  /\ signal' = [by |-> "worker", id |-> e.id, type |-> e.type]
         /\ call' = IF e.content.timeout = 0 THEN NoCall ELSE [call EXCEPT !.at = "push"]
  /\ UNCHANGED <<stores, expiry, timer, blockClosedId, todo, restarts>>

\* Notify, continued: pushPendingEntity starts the timer when the new expiry is
\* ahead of the one it was last set for.
NotifyPush ==
  /\ call.at = "push"
  /\ LET left == note[call.note].content.timeout
     IN  /\ due' = [due EXCEPT ![call.note] = left]
         /\ IF lastTimeoutPoint > left
            THEN lastTimeoutPoint' = left /\ timer' = left
            ELSE UNCHANGED <<lastTimeoutPoint, timer>>
  /\ call' = NoCall
  /\ signal' = NoSignal
  /\ UNCHANGED <<stores, starts, blockClosedId, todo, restarts>>

\* CloseNotification(bubbleId) of a banner that is on screen.
CloseNotification(b) ==
  /\ WorkerIdle
  /\ \E n \in Last(b) : UpdateProcessed("worker", n, "Removed", todo)
  /\ UNCHANGED <<timer, blockClosedId, call, restarts>>

\* A queued QTimer::start(interval) counts from when it runs.
StartTimer ==
  /\ WorkerIdle
  /\ starts # <<>>
  /\ timer' = Head(starts)
  /\ starts' = Tail(starts)
  /\ signal' = NoSignal
  /\ UNCHANGED <<stores, due, lastTimeoutPoint, blockClosedId, todo, call, restarts>>

TimerFires ==
  /\ WorkerIdle
  /\ timer = 0
  /\ timer' = TimerOff
  /\ HandPending("worker", due, todo)
  /\ signal' = NoSignal
  /\ UNCHANGED <<stores, blockClosedId, call, restarts>>

\* Mutant of HandOne: the hovered banner is skipped and not put back.
HandOneLosesHovered(t, n) ==
  /\ n \in todo[t]
  /\ LET work == [todo EXCEPT ![t] = @ \ {n}]
     IN  IF note[n].id = blockClosedId
         THEN todo' = work /\ signal' = NoSignal /\ UNCHANGED <<stores, expiry>>
         ELSE Closed(t, note[n].id, "Expired", work)
  /\ UNCHANGED <<timer, blockClosedId, call, restarts>>

\* One pass of the loop of onHandingPendingEntities: a hovered banner is put
\* back, without rearming the timer; any other expires.
HandOne(t, n) ==
  /\ n \in todo[t]
  /\ LET work == [todo EXCEPT ![t] = @ \ {n}]
     IN  IF note[n].id = blockClosedId
         THEN /\ due' = [due EXCEPT ![n] = 0]
              /\ todo' = work
              /\ signal' = NoSignal
              /\ UNCHANGED <<stores, lastTimeoutPoint, starts>>
         ELSE Closed(t, note[n].id, "Expired", work)
  /\ UNCHANGED <<timer, blockClosedId, call, restarts>>

-----------------------------------------------------------------------------
(* The main thread.                                                        *)

MainIdle == todo["main"] = {}

KnownIds == {note[n].id : n \in 1..count}

\* The user closes, dismisses or delays a banner or a record.
UserCloses(id) ==
  /\ MainIdle
  /\ Room
  /\ Closed("main", id, "Closed", todo)
  /\ UNCHANGED <<timer, blockClosedId, call, restarts>>

\* actionInvoked: an action of a banner or of a record.
UserInvokes(id) ==
  /\ MainIdle
  /\ Room
  /\ \E n \in Fetched(id) : UpdateProcessed("main", n, "Removed", todo)
  /\ UNCHANGED <<timer, blockClosedId, call, restarts>>

\* Mutant of SetBlockClosedId: the pointer leaves without rearming the timer.
SetBlockClosedIdAlone(id) ==
  /\ MainIdle
  /\ Room
  /\ id # blockClosedId
  /\ blockClosedId' = id
  /\ signal' = NoSignal
  /\ UNCHANGED <<stores, expiry, timer, todo, call, restarts>>

\* setBlockClosedId(id), the pointer moves to another banner or away: the one it
\* leaves is given BlockItemTimeout when it has less than that left.
SetBlockClosedId(id) ==
  /\ MainIdle
  /\ Room
  /\ id # blockClosedId
  /\ blockClosedId' = id
  /\ LET left == {n \in Note : due[n] # NotPending /\ note[n].id = blockClosedId}
     IN  IF blockClosedId = InvalidId \/ left = {}
         THEN HandPending("main", due, todo)
         ELSE \E n \in left :
                HandPending("main",
                  IF due[n] < BlockItemTimeout THEN [due EXCEPT ![n] = BlockItemTimeout]
                                               ELSE due, todo)
  /\ signal' = NoSignal
  /\ UNCHANGED <<stores, timer, call, restarts>>

\* removeNotification, removeNotifications and removeExpiredNotifications: rows
\* go away; pending expiries and banners are not touched.
RemoveRows(S) ==
  /\ MainIdle
  /\ db' = db \ S
  /\ signal' = NoSignal
  /\ UNCHANGED <<count, note, memory, memoryIds, rowIds, replacesCount, expiry, timer,
                 blockClosedId, todo, call, restarts>>

RemoveNotification(n) == n \in db /\ RemoveRows({n})
RemoveNotifications(a) == RemoveRows({n \in db : note[n].content.app = a})
ClearNotifications == RemoveRows(db)
RemoveExpiredNotifications(k) == RemoveRows({n \in db : n <= k})

-----------------------------------------------------------------------------
(* The environment.                                                        *)

Tick ==
  /\ due' = [n \in Note |-> IF due[n] > 0 THEN due[n] - 1 ELSE due[n]]
  /\ timer' = IF timer > 0 THEN timer - 1 ELSE timer
  /\ lastTimeoutPoint' = IF lastTimeoutPoint \in 1..MaxDelay THEN lastTimeoutPoint - 1
                                                             ELSE lastTimeoutPoint
  /\ signal' = NoSignal
  /\ UNCHANGED <<stores, starts, blockClosedId, todo, call, restarts>>

\* The shell stops, or crashes, and starts again: the rows that have not expired
\* are all that is left, and the counters of the process start over.
Restart ==
  /\ restarts < MaxRestarts
  /\ restarts' = restarts + 1
  /\ memory' = {}
  /\ memoryIds' = 0
  /\ replacesCount' = 0
  /\ due' = [n \in Note |-> NotPending]
  /\ lastTimeoutPoint' = Never
  /\ timer' = TimerOff
  /\ starts' = <<>>
  /\ blockClosedId' = InvalidId
  /\ todo' = [t \in Threads |-> {}]
  /\ call' = NoCall
  /\ signal' = NoSignal
  /\ \E k \in 0..count : db' = {n \in db : n > k}
  /\ UNCHANGED <<count, note, rowIds>>

-----------------------------------------------------------------------------
Blank(c) == [id |-> InvalidId, bubble |-> 0, replace |-> FALSE, type |-> "None", content |-> c]

Init ==
  /\ count = 0
  /\ note = [n \in Note |-> Blank(CHOOSE c \in Contents : TRUE)]
  /\ memory = {} /\ db = {}
  /\ memoryIds = 0 /\ rowIds = 0 /\ replacesCount = 0
  /\ due = [n \in Note |-> NotPending]
  /\ lastTimeoutPoint = Never
  /\ timer = TimerOff
  /\ starts = <<>>
  /\ blockClosedId = InvalidId
  /\ todo = [t \in Threads |-> {}]
  /\ call = NoCall
  /\ restarts = 0
  /\ signal = NoSignal

Worker ==
  \/ \E c \in Contents : NotifyNew(c)
  \/ \E c \in Contents, b \in 1..replacesCount : NotifyReplace(c, b)
  \/ NotifyEmit
  \/ NotifyPush
  \/ \E b \in 1..replacesCount : CloseNotification(b)
  \/ StartTimer
  \/ TimerFires
  \/ \E n \in Note : HandOne("worker", n)

Main ==
  \/ \E id \in KnownIds : UserCloses(id) \/ UserInvokes(id)
  \/ \E id \in KnownIds \cup {InvalidId} : SetBlockClosedId(id)
  \/ \E n \in Note : RemoveNotification(n) \/ RemoveExpiredNotifications(n)
  \/ \E c \in Contents : RemoveNotifications(c.app)
  \/ ClearNotifications
  \/ \E n \in Note : HandOne("main", n)

Next == Worker \/ Main \/ Tick \/ Restart

Spec == Init /\ [][Next]_vars

\* The event loops run: posted calls are delivered, timeouts fire, calls in
\* progress finish, time passes.  Nobody has to call Notify or move the pointer.
Fairness ==
  /\ WF_vars(Tick)
  /\ WF_vars(StartTimer)
  /\ WF_vars(TimerFires)
  /\ WF_vars(NotifyEmit)
  /\ WF_vars(NotifyPush)
  /\ \A t \in Threads, n \in Note : WF_vars(HandOne(t, n))

FairSpec == Spec /\ Fairness

-----------------------------------------------------------------------------
(* Properties.                                                             *)

Entities ==
  [id : Int, bubble : Nat, replace : BOOLEAN,
   type : {"None", "NotProcessed", "Processed", "Removed"}, content : Contents]

TypeOK ==
  /\ count \in 0..MaxNotify
  /\ note \in [Note -> Entities]
  /\ memory \subseteq 1..count /\ db \subseteq 1..count
  /\ memoryIds \in Nat /\ rowIds \in Nat /\ replacesCount \in Nat
  /\ due \in [Note -> {NotPending} \cup 0..MaxDelay]
  /\ lastTimeoutPoint \in 0..Never
  /\ timer \in {TimerOff} \cup 0..MaxDelay
  /\ starts \in Seq(1..MaxDelay)
  /\ blockClosedId \in Int
  /\ todo \in [Threads -> SUBSET (1..count)]
  /\ call \in [note : 1..count, at : {"emit", "push"}] \cup {NoCall}
  /\ restarts \in 0..MaxRestarts
  /\ signal \in [by : Threads, id : Int, type : {"None", "NotProcessed", "Processed", "Removed"}]

Scheduled(n) == due[n] # NotPending \/ call.note = n \/ \E t \in Threads : n \in todo[t]

\* An expiry that no banner under the pointer holds back is going to be looked
\* at: the timer runs, or a call that starts it is queued.  pushPendingEntity
\* leaves the timer alone when lastTimeoutPoint is early enough, and a hovered
\* banner is put back without rearming it.
TimerArmed ==
  (\E n \in Note : due[n] # NotPending /\ note[n].id # blockClosedId)
    => timer # TimerOff \/ starts # <<>>

\* A client's bubble id names at most one banner on screen: a replacement files
\* its predecessor or takes its place (recordNotification).
OneBannerPerBubble ==
  \A m, n \in memory : note[m].bubble = note[n].bubble => m = n

\* An id names one notification of the two stores, while notifications move from
\* memory ids to row ids: what the panels ask for by id is what they show.
UniqueIds ==
  \A m, n \in memory \cup db : note[m].id = note[n].id => m = n

\* The expiry of a notification closes, by id, no banner of another bubble.
ExpiryHitsItsOwn ==
  \A m \in memory, n \in Note :
    Scheduled(n) /\ note[m].id = note[n].id => note[m].bubble = note[n].bubble

\* A banner with a timeout is bound to expire, unless its bubble has seen another
\* replacement, whose record removePendingEntity confuses with the banner.
Sole(n) == \A m \in 1..count \ {n} : ~(note[m].replace /\ note[m].bubble = note[n].bubble)
BannersAreScheduled ==
  \A n \in memory : note[n].content.timeout # 0 /\ Sole(n) => Scheduled(n)

\* The comment of Notify: only expireTimeout 0 and critical notifications stay.
NonZeroTimeoutExpires ==
  \A n \in memory : note[n].content.timeout # 0 => Scheduled(n)

\* A banner whose client asked for the centre never leaves the screen without a
\* row, except by the user's or the client's removal, by a successor that takes
\* its id, or with the process.
KeptInCenter ==
  [][\A n \in memory :
       /\ note[n].content.hint = "show" /\ ~note[n].content.bluetooth
       /\ n \notin memory' /\ restarts' = restarts
       => \/ n \in db'
          \/ note'[n].type = "Removed"
          \/ \E m \in memory' : note'[m].id = note[n].id]_vars

\* A banner with a timeout is off the screen in the end, unless the pointer keeps
\* coming back to it.
BannersExpire ==
  \A n \in Note :
    (n \in memory /\ note[n].content.timeout # 0 /\ Sole(n))
      ~> (n \notin memory \/ ~Sole(n) \/ note[n].id = blockClosedId)
=============================================================================
