----------------------------- MODULE BubblePanel -----------------------------
(***************************************************************************)
(* The banners on screen: BubblePanel with its BubbleModel, composed with  *)
(* the notification server.                                                *)
(*                                                                         *)
(* NotificationStateChanged reaches the panel through NotifyServerApplet,  *)
(* which lives on the main thread: a signal the worker emits is queued, one*)
(* emitted by a call from the main thread is handled within that call.  So *)
(* the panel can learn of two changes in the wrong order.                  *)
(*                                                                         *)
(* A bubble item holds a NotifyEntity, a handle on the heap of the server, *)
(* and is written here as the index of that entity.                        *)
(***************************************************************************)
EXTENDS NotificationManager

CONSTANT BubbleCounts   \* values of NotifySetting::bubbleCount

ASSUME PanelCountsAssumption == BubbleCounts \subseteq Nat /\ BubbleCounts # {}

VARIABLES
  m_bubbles, m_pendingBubbles, m_processPendingTimer, m_updateTimeTipTimer, m_maxKeep,
  queue,     \* state signals on their way from the worker
  visible,   \* m_visible
  enabled,   \* m_enabled: the notification centre is closed
  hides      \* QTimer::singleShot(500) of onBubbleCountChanged not yet fired

Model == INSTANCE BubbleModel WITH Bubble <- Note

listVars == <<m_bubbles, m_pendingBubbles, m_processPendingTimer, m_updateTimeTipTimer, m_maxKeep>>
panelVars == <<queue, visible, enabled, hides>>
allVars == <<vars, listVars, panelVars>>

-----------------------------------------------------------------------------
\* onBubbleCountChanged, connected to rowsInserted and rowsRemoved: hide after a
\* while when no row is left, show otherwise.  Of two rows that go, the first
\* leaves one.
RowsChanged ==
  IF m_bubbles' = m_bubbles THEN UNCHANGED <<visible, hides>>
  ELSE IF m_bubbles' = <<>>
       THEN hides' = hides + 1 /\ visible' = IF Len(m_bubbles) > 1 THEN enabled ELSE visible
       ELSE visible' = enabled /\ UNCHANGED hides

\* The rows s after the panel has handled signal sig, a closing.
Closing(s, sig) ==
  IF sig.type \in {"Processed", "Removed"}
  THEN Model!WithoutFirst(s, {n \in Note : note'[n].id = sig.id}) ELSE s

\* replaceBubbleIndex: the first row that shows the application and bubble of n.
ReplacedRows(n) ==
  LET same(i) == /\ note[m_bubbles[i]].bubble = note[n].bubble
                 /\ note[m_bubbles[i]].content.app = note[n].content.app
  IN  {i \in DOMAIN m_bubbles : note[n].replace /\ same(i) /\ \A j \in 1..i-1 : ~same(j)}

\* Mutant of AddBubble: a successor whose predecessor has no row is not shown.
AddBubbleReplacing(id) ==
  \/ Fetched(id) = {} /\ UNCHANGED <<listVars, visible, hides>>
  \/ \E n \in Fetched(id) :
       IF note[n].replace
       THEN /\ m_bubbles' = [i \in DOMAIN m_bubbles |-> IF i \in ReplacedRows(n) THEN n
                                                                              ELSE m_bubbles[i]]
            /\ UNCHANGED <<m_pendingBubbles, m_processPendingTimer, m_updateTimeTipTimer,
                           m_maxKeep, visible, hides>>
       ELSE Model!Push(n) /\ RowsChanged

\* addBubble(id): the entity is looked up again; without one there is no banner.
\* A replaced row is announced by dataChanged alone.
AddBubble(id) ==
  \/ Fetched(id) = {} /\ UNCHANGED <<listVars, visible, hides>>
  \/ \E n \in Fetched(id) :
       IF ReplacedRows(n) = {} THEN Model!Push(n) /\ RowsChanged
       ELSE /\ \E i \in ReplacedRows(n) : Model!ReplaceBubble(n, i)
            /\ UNCHANGED <<visible, hides>>

\* onNotificationStateChanged, for the next signal of the queue.
Deliver ==
  /\ MainIdle
  /\ queue # <<>>
  /\ queue' = Tail(queue)
  /\ LET sig == Head(queue)
     IN  IF sig.type = "NotProcessed" THEN AddBubble(sig.id)
         ELSE /\ m_bubbles' = Model!WithoutFirst(m_bubbles, {n \in Note : note[n].id = sig.id})
              /\ RowsChanged
              /\ UNCHANGED <<m_pendingBubbles, m_processPendingTimer,
                             m_updateTimeTipTimer, m_maxKeep>>
  /\ UNCHANGED <<vars, enabled>>

\* The pointer enters the banner in row i, or leaves all of them.
SetHoveredId(i) ==
  /\ SetBlockClosedId(IF i = 0 THEN InvalidId ELSE note[m_bubbles[i]].id)
  /\ UNCHANGED <<listVars, panelVars>>

\* close(i, reason) and delayProcess(i): the row goes first, then the server is
\* told, whose signal may take another row.
Close(i) ==
  /\ LET n == m_bubbles[i]
     IN  /\ UserCloses(note[n].id)
         /\ m_bubbles' = Closing(Model!Without(m_bubbles, i), signal')
  /\ RowsChanged
  /\ UNCHANGED <<m_pendingBubbles, m_processPendingTimer, m_updateTimeTipTimer, m_maxKeep,
                 queue, enabled>>

\* invokeAction(i, actionId)
InvokeAction(i) ==
  /\ LET n == m_bubbles[i]
     IN  /\ UserInvokes(note[n].id)
         /\ m_bubbles' = Closing(Model!Without(m_bubbles, i), signal')
  /\ RowsChanged
  /\ UNCHANGED <<m_pendingBubbles, m_processPendingTimer, m_updateTimeTipTimer, m_maxKeep,
                 queue, enabled>>

ProcessPending ==
  /\ MainIdle
  /\ Model!ProcessPending
  /\ RowsChanged
  /\ UNCHANGED <<vars, queue, enabled>>

\* The delayed half of onBubbleCountChanged.
HideTimeout ==
  /\ MainIdle
  /\ hides > 0
  /\ hides' = hides - 1
  /\ visible' = IF m_bubbles = <<>> THEN FALSE ELSE visible
  /\ UNCHANGED <<vars, listVars, queue, enabled>>

\* Mutant of SetEnabled: the panel comes back whether or not it has rows.
SetEnabledBlindly(on) ==
  /\ MainIdle
  /\ on # enabled
  /\ enabled' = on
  /\ visible' = on
  /\ UNCHANGED <<vars, listVars, queue, hides>>

\* setEnabled, when the notification centre opens or closes.
SetEnabled(on) ==
  /\ MainIdle
  /\ on # enabled
  /\ enabled' = on
  /\ visible' = (m_bubbles # <<>> /\ on)
  /\ UNCHANGED <<vars, listVars, queue, hides>>

\* Mutant of WorkerStep: every step of the worker posts something.
WorkerStepAlways ==
  /\ Worker
  /\ queue' = Append(queue, [id |-> signal'.id, type |-> signal'.type])
  /\ UNCHANGED <<listVars, visible, enabled, hides>>

\* A step of the worker; what it emits is queued.
WorkerStep ==
  /\ Worker
  /\ queue' = IF signal' = NoSignal THEN queue
              ELSE Append(queue, [id |-> signal'.id, type |-> signal'.type])
  /\ UNCHANGED <<listVars, visible, enabled, hides>>

\* The rest of a call of the main thread that handles expiries, and an action of
\* a record in the notification centre; what they emit is handled at once.
MainStep ==
  /\ \/ \E n \in Note : HandOne("main", n)
     \/ \E n \in db : UserInvokes(note[n].id)
  /\ m_bubbles' = Closing(m_bubbles, signal')
  /\ RowsChanged
  /\ UNCHANGED <<m_pendingBubbles, m_processPendingTimer, m_updateTimeTipTimer, m_maxKeep,
                 queue, enabled>>

TimePasses == Tick /\ UNCHANGED <<listVars, panelVars>>

PanelInit ==
  /\ Init
  /\ Model!Init
  /\ queue = <<>>
  /\ visible = FALSE
  /\ enabled = TRUE
  /\ hides = 0

Rows == DOMAIN m_bubbles

PanelNext ==
  \/ WorkerStep
  \/ MainStep
  \/ Deliver
  \/ ProcessPending
  \/ HideTimeout
  \/ \E on \in BOOLEAN : SetEnabled(on)
  \/ \E i \in Rows : Close(i) \/ InvokeAction(i)
  \/ \E i \in Rows \cup {0} : SetHoveredId(i)
  \/ TimePasses

PanelSpec == PanelInit /\ [][PanelNext]_allVars

-----------------------------------------------------------------------------
PanelTypeOK ==
  /\ Model!TypeOK
  /\ queue \in Seq([id : Int, type : {"NotProcessed", "Processed", "Removed"}])
  /\ visible \in BOOLEAN /\ enabled \in BOOLEAN
  /\ hides \in Nat

Shown == Model!Listed(m_bubbles)
Waiting == Model!Listed(m_pendingBubbles)
Announced(n) == \E i \in DOMAIN queue : queue[i] = [id |-> note[n].id, type |-> "NotProcessed"]

\* Every live banner is on screen, waits its turn, or is about to be announced:
\* no order of queued and direct signals loses one.  Only as many banners as
\* there are rows push one off, newer than the first of its bubble, whose row a
\* successor takes over.
NoBannerLost ==
  \A n \in memory :
    \/ n \in Shown \cup Waiting \/ Announced(n)
    \/ call = [note |-> n, at |-> "emit"]
    \/ \E m \in 1..n : note[m].bubble = note[n].bubble /\ count - m >= m_maxKeep

\* The panel is seen exactly while it has rows and the centre is closed; after
\* the last row it may stay until a timeout that is still to come.
VisibleTracksRows ==
  /\ m_bubbles # <<>> => visible = enabled
  /\ m_bubbles = <<>> /\ visible => hides > 0

\* What the validation in addBubble is for: once every signal is delivered, each
\* banner on screen belongs to a live notification.
NoInvalidBanner ==
  queue = <<>> /\ MainIdle /\ WorkerIdle => Shown \subseteq memory
=============================================================================
