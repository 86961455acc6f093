----------------------------- MODULE DockHelper -----------------------------
(***************************************************************************)
(* When the dock shows, when it hides and on which screen (DockHelper and  *)
(* DockPanel, with the Wayland backend).  Two timers of 400 ms lead to the *)
(* checks that hide and show it; some events check at once.  A hidden dock *)
(* is woken by wake areas, one per screen; the area of another screen      *)
(* moves the dock there 200 ms later.                                      *)
(*                                                                         *)
(* The pointer, the popups, the screens, the compositor and the launcher   *)
(* do what they like, within the guards below.  Positions, themes and the  *)
(* drawing of the animations are left out.                                 *)
(***************************************************************************)
EXTENDS Naturals, Sequences

CONSTANTS
  Screen,       \* QScreens the system may have
  Popup,        \* transient children of the dock
  Dock,         \* the window of the dock itself
  NoScreen,     \* nullptr
  MaxSwitches   \* bound: pending switches of screen

ASSUME WindowsAssumption == Dock \notin Popup /\ NoScreen \notin Screen

VARIABLES
  hideMode, m_hideState, m_launcherShown, m_contextDragging, m_inMultitaskView,
  overlap, fullscreen,          \* what the backend last heard
  m_enters,                     \* windows the pointer is in
  m_transientChildShows,        \* popups on screen
  m_hideTimer, m_showTimer,     \* TRUE while they run
  screens, primary, showInPrimary, m_dockScreen,
  connected,                    \* primaryScreenChanged reaches updateDockScreen
  switches,                     \* screens of the pending single shots
  m_areas,                      \* screens whose wake area is open
  inArea,                       \* the area that was last entered and not left
  visible,                      \* the window of the dock is mapped
  \* History: steps of the code after which a timer, an area or the screen
  \* of the dock is not what the settings ask for.
  unheld,  \* the dock lost the pointer without a Leave event
  cut,     \* a Leave event stopped the timer of a wanted show
  stale,   \* screens changed and the areas were not updated
  astray   \* the dock followed an outdated wish, or the primary screen went unheard

wishes == <<hideMode, m_contextDragging, m_inMultitaskView, overlap, fullscreen>>
pointer == <<m_enters, m_transientChildShows>>
timers == <<m_hideTimer, m_showTimer>>
layout == <<screens, primary, showInPrimary, connected>>
history == <<unheld, cut, stale, astray>>
vars == <<wishes, pointer, timers, layout, m_hideState, m_launcherShown, m_dockScreen,
          switches, m_areas, inArea, visible, history>>

\* hideState() of the panel.
Shown == m_launcherShown \/ m_hideState = "Show"

NeedHide ==
  /\ \/ hideMode = "KeepShowing" /\ fullscreen
     \/ hideMode = "SmartHide" /\ overlap
     \/ hideMode = "KeepHidden"
  /\ ~m_contextDragging
  /\ m_enters = {}
  /\ m_transientChildShows = {}
  /\ ~m_inMultitaskView

NeedShow ==
  \/ hideMode = "KeepShowing" /\ ~fullscreen
  \/ hideMode = "SmartHide" /\ ~overlap
  \/ m_enters # {}
  \/ m_inMultitaskView

\* The screens whose area updateAllDockWakeArea opens.
WakeUpAreaNeedShow ==
  {s \in screens : /\ showInPrimary => s = primary
                   /\ ~(m_dockScreen = s /\ Shown)}

-----------------------------------------------------------------------------
(* Parts of the handlers. *)

UpdateAllDockWakeArea ==
  /\ m_areas' = WakeUpAreaNeedShow'
  /\ stale' = FALSE

KeepAreas == UNCHANGED <<m_areas, stale>>

\* hideStateChanged: the areas follow, and a dock that shows is mapped.
HideStateFollowed ==
  /\ visible' = (visible \/ Shown')
  /\ IF m_hideState' # m_hideState THEN UpdateAllDockWakeArea ELSE KeepAreas

CheckNeedHideOrNot ==
  m_hideState' = IF NeedHide' THEN "Hide" ELSE m_hideState

CheckNeedShowOrNot ==
  m_hideState' = IF NeedShow' THEN "Show" ELSE m_hideState

\* A timer starts: whatever it was to repair is on its way again.
StartHideTimer == m_hideTimer' = TRUE /\ unheld' = FALSE
StartShowTimer == m_showTimer' = TRUE /\ cut' = FALSE

-----------------------------------------------------------------------------
(* Events of the windows of the dock (eventFilter). *)

Enter(w) ==
  /\ w \notin m_enters
  /\ IF w = Dock THEN visible ELSE w \in m_transientChildShows
  /\ m_enters' = m_enters \cup {w}
  /\ m_hideTimer' = FALSE
  /\ StartShowTimer
  /\ unheld' = FALSE
  /\ UNCHANGED <<wishes, m_transientChildShows, layout, m_hideState, m_launcherShown,
                 m_dockScreen, switches, m_areas, inArea, visible, stale, astray>>

\* Also of a window that the pointer is not in, as after its Hide event.
Leave(w) ==
  /\ m_enters' = m_enters \ {w}
  /\ m_showTimer' = FALSE
  /\ StartHideTimer
  /\ UNCHANGED <<wishes, m_transientChildShows, layout, m_hideState, m_launcherShown,
                 m_dockScreen, switches, m_areas, inArea, visible, stale, astray>>
  /\ cut' = (NeedShow' /\ m_hideState = "Hide")

ShowPopup(w) ==
  /\ visible /\ w \notin m_transientChildShows
  /\ m_transientChildShows' = m_transientChildShows \cup {w}
  /\ m_hideTimer' = FALSE
  /\ UNCHANGED <<wishes, m_enters, layout, m_hideState, m_launcherShown, m_showTimer,
                 m_dockScreen, switches, m_areas, inArea, visible, history>>

\* Mutant of HidePopup: the popup keeps its hold on the dock.
HidePopupEntered(w) ==
  /\ w \in m_transientChildShows
  /\ m_transientChildShows' = m_transientChildShows \ {w}
  /\ StartHideTimer
  /\ UNCHANGED <<wishes, m_enters, layout, m_hideState, m_launcherShown, m_showTimer,
                 m_dockScreen, switches, m_areas, inArea, visible, cut, stale, astray>>

HidePopup(w) ==
  /\ w \in m_transientChildShows
  /\ m_enters' = m_enters \ {w}
  /\ m_transientChildShows' = m_transientChildShows \ {w}
  /\ StartHideTimer
  /\ UNCHANGED <<wishes, layout, m_hideState, m_launcherShown, m_showTimer,
                 m_dockScreen, switches, m_areas, inArea, visible, cut, stale, astray>>

\* The Hide event of the dock itself starts no timer.  It comes at the end of
\* the hide animation, and when the dock moves to another edge of the screen.
HideDock ==
  /\ visible
  /\ visible' = Shown
  /\ m_enters' = m_enters \ {Dock}
  /\ unheld' = (unheld \/ Dock \in m_enters)
  /\ UNCHANGED <<wishes, m_transientChildShows, timers, layout, m_hideState, m_launcherShown,
                 m_dockScreen, switches, m_areas, inArea, cut, stale, astray>>

-----------------------------------------------------------------------------
(* The timers and the checks that need none. *)

\* A pending switch is older than the timer that LeaveArea started after it, and
\* its 200 ms are over before the 400 of the timer.
HideTimeout ==
  /\ m_hideTimer
  /\ switches = <<>> \/ inArea # NoScreen
  /\ m_hideTimer' = FALSE
  /\ UNCHANGED <<wishes, pointer, m_showTimer, layout, m_launcherShown, m_dockScreen,
                 switches, inArea, unheld, cut, astray>>
  /\ CheckNeedHideOrNot
  /\ HideStateFollowed

ShowTimeout ==
  /\ m_showTimer
  /\ m_showTimer' = FALSE
  /\ UNCHANGED <<wishes, pointer, m_hideTimer, layout, m_launcherShown, m_dockScreen,
                 switches, inArea, unheld, cut, astray>>
  /\ CheckNeedShowOrNot
  /\ HideStateFollowed

\* isWindowOverlapChanged: the checker of the compositor lives in SmartHide only.
OverlapChanged ==
  /\ hideMode = "SmartHide"
  /\ overlap' = ~overlap
  /\ IF overlap' THEN StartHideTimer /\ UNCHANGED <<m_showTimer, cut>>
                 ELSE StartShowTimer /\ UNCHANGED <<m_hideTimer, unheld>>
  /\ UNCHANGED <<hideMode, m_contextDragging, m_inMultitaskView, fullscreen, pointer, layout,
                 m_hideState, m_launcherShown, m_dockScreen, switches, m_areas, inArea,
                 visible, stale, astray>>

\* Mutant of FullscreenChanged: the check reads the flag before it changes.
FullscreenChangedLate ==
  /\ fullscreen' = ~fullscreen
  /\ UNCHANGED <<hideMode, m_contextDragging, m_inMultitaskView, overlap, pointer, timers,
                 layout, m_launcherShown, m_dockScreen, switches, inArea, unheld, cut, astray>>
  /\ m_hideState' = CASE fullscreen' /\ NeedHide -> "Hide"
                      [] ~fullscreen' /\ NeedShow -> "Show"
                      [] OTHER -> m_hideState
  /\ HideStateFollowed

FullscreenChanged ==
  /\ fullscreen' = ~fullscreen
  /\ UNCHANGED <<hideMode, m_contextDragging, m_inMultitaskView, overlap, pointer, timers,
                 layout, m_launcherShown, m_dockScreen, switches, inArea, unheld, cut, astray>>
  /\ IF fullscreen' THEN CheckNeedHideOrNot ELSE CheckNeedShowOrNot
  /\ HideStateFollowed

MultitaskStateChanged ==
  /\ m_inMultitaskView' = ~m_inMultitaskView
  /\ UNCHANGED <<hideMode, m_contextDragging, overlap, fullscreen, pointer, timers,
                 layout, m_launcherShown, m_dockScreen, switches, inArea, unheld, cut, astray>>
  /\ IF m_inMultitaskView' THEN CheckNeedShowOrNot ELSE CheckNeedHideOrNot
  /\ HideStateFollowed

\* Mutant of SetContextDragging: the end of a drag checks nothing.
SetContextDraggingBare ==
  /\ m_contextDragging' = ~m_contextDragging
  /\ UNCHANGED <<hideMode, m_inMultitaskView, overlap, fullscreen, pointer, timers, m_hideState,
                 layout, m_launcherShown, m_dockScreen, switches, inArea, unheld, cut, astray>>
  /\ HideStateFollowed

SetContextDragging ==
  /\ m_contextDragging' = ~m_contextDragging
  /\ UNCHANGED <<hideMode, m_inMultitaskView, overlap, fullscreen, pointer, timers,
                 layout, m_launcherShown, m_dockScreen, switches, inArea, unheld, cut, astray>>
  /\ IF m_contextDragging' THEN UNCHANGED m_hideState ELSE CheckNeedHideOrNot
  /\ HideStateFollowed

\* setHideMode ends in hideStateChanged whether or not the mode was new.
SetHideMode(mode) ==
  /\ hideMode' = mode
  /\ IF mode # hideMode
     THEN StartHideTimer /\ StartShowTimer
     ELSE UNCHANGED <<timers, unheld, cut>>
  /\ m_hideState' = IF mode = "KeepShowing" /\ mode # hideMode THEN "Show" ELSE m_hideState
  /\ UNCHANGED <<m_contextDragging, m_inMultitaskView, overlap, fullscreen, pointer, layout,
                 m_launcherShown, m_dockScreen, switches, inArea, astray>>
  /\ visible' = (visible \/ Shown')
  /\ UpdateAllDockWakeArea

LauncherVisibleChanged ==
  /\ m_launcherShown' = ~m_launcherShown
  /\ UNCHANGED <<wishes, pointer, timers, layout, m_hideState, m_dockScreen,
                 switches, inArea, unheld, cut, astray>>
  /\ visible' = (visible \/ Shown')
  /\ IF Shown' # Shown THEN UpdateAllDockWakeArea ELSE KeepAreas

-----------------------------------------------------------------------------
(* Wake areas and screens. *)

\* enterScreen: on its own screen, and while a popup is up, the dock just shows.
EnterArea(s) ==
  /\ inArea = NoScreen /\ s \in m_areas
  /\ Len(switches) < MaxSwitches
  /\ inArea' = s
  /\ IF m_dockScreen = s \/ m_transientChildShows # {}
     THEN m_hideState' = "Show" /\ UNCHANGED switches
     ELSE switches' = Append(switches, s) /\ UNCHANGED m_hideState
  /\ astray' = (astray \/ (showInPrimary /\ s # primary))
  /\ UNCHANGED <<wishes, pointer, timers, layout, m_launcherShown, m_dockScreen, unheld, cut>>
  /\ HideStateFollowed

\* leaveScreen.
LeaveArea ==
  /\ inArea # NoScreen
  /\ inArea' = NoScreen
  /\ StartHideTimer
  /\ UNCHANGED <<wishes, pointer, m_showTimer, layout, m_hideState, m_launcherShown,
                 m_dockScreen, switches, m_areas, visible, cut, stale, astray>>

\* Mutant of SwitchScreen: the areas are left to hideStateChanged.
SwitchScreenBare ==
  /\ switches # <<>>
  /\ switches' = Tail(switches)
  /\ m_dockScreen' = Head(switches)
  /\ m_hideState' = "Show"
  /\ UNCHANGED <<wishes, pointer, timers, layout, m_launcherShown, inArea, unheld, cut, astray>>
  /\ HideStateFollowed

\* The single shot of enterScreen; what it was told is not checked again.
SwitchScreen ==
  /\ switches # <<>>
  /\ switches' = Tail(switches)
  /\ m_dockScreen' = Head(switches)
  /\ m_hideState' = "Show"
  /\ visible' = TRUE
  /\ UNCHANGED <<wishes, pointer, timers, layout, m_launcherShown, inArea, unheld, cut, astray>>
  /\ UpdateAllDockWakeArea

\* Mutant of ShowInPrimaryChanged: the dock waits for the next change of screens.
ShowInPrimaryChangedLazy ==
  /\ showInPrimary' = ~showInPrimary
  /\ astray' = (switches # <<>>)
  /\ UNCHANGED <<wishes, pointer, timers, screens, primary, m_hideState, m_launcherShown,
                 m_dockScreen, switches, inArea, visible, unheld, cut>>
  /\ UpdateAllDockWakeArea

\* showInPrimaryChanged: the dock moves to the primary screen, also when the
\* setting is switched off.
ShowInPrimaryChanged ==
  /\ showInPrimary' = ~showInPrimary
  /\ m_dockScreen' = primary
  /\ astray' = (switches # <<>>)
  /\ UNCHANGED <<wishes, pointer, timers, screens, primary, m_hideState, m_launcherShown,
                 switches, inArea, visible, unheld, cut>>
  /\ UpdateAllDockWakeArea

\* setShowInPrimary of the panel listens to the primary screen from now on, or no
\* more; a setting that DConfig reports leaves that as it was.
SetShowInPrimary == ShowInPrimaryChanged /\ connected' = showInPrimary'
ConfigShowInPrimary == ShowInPrimaryChanged /\ UNCHANGED connected

\* primaryScreenChanged: updateDockScreen, and no update of the areas.
PrimaryScreenChanged(s) ==
  /\ s \in screens \ {primary}
  /\ primary' = s
  /\ m_dockScreen' = IF connected THEN s ELSE m_dockScreen
  /\ astray' = IF connected THEN switches # <<>> ELSE astray \/ showInPrimary
  /\ UNCHANGED <<wishes, pointer, timers, screens, showInPrimary, connected, m_hideState,
                 m_launcherShown, switches, m_areas, inArea, visible, unheld, cut>>
  /\ stale' = (stale \/ m_areas # WakeUpAreaNeedShow')

\* screenAdded: createArea leaves the area closed.
ScreenAdded(s) ==
  /\ s \notin screens
  /\ screens' = screens \cup {s}
  /\ UNCHANGED <<wishes, pointer, timers, primary, showInPrimary, connected, m_hideState,
                 m_launcherShown, m_dockScreen, switches, m_areas, inArea, visible, unheld, cut, astray>>
  /\ stale' = (stale \/ m_areas # WakeUpAreaNeedShow')

\* screenRemoved.  A primary screen has given up that role before; a screen a
\* pending switch names does not go (the switch would use a deleted screen).
ScreenRemoved(s) ==
  /\ s \in screens \ {primary}
  /\ \A i \in DOMAIN switches : switches[i] # s
  /\ screens' = screens \ {s}
  /\ m_areas' = m_areas \ {s}
  /\ m_dockScreen' = IF m_dockScreen = s THEN NoScreen ELSE m_dockScreen
  /\ UNCHANGED <<wishes, pointer, timers, primary, showInPrimary, connected, m_hideState,
                 m_launcherShown, switches, inArea, visible, history>>

-----------------------------------------------------------------------------
Modes == {"KeepShowing", "SmartHide", "KeepHidden"}

\* After initAreas and the first checkNeedShowOrNot, on one screen.
Init ==
  /\ hideMode \in Modes
  /\ m_hideState = "Show"
  /\ m_launcherShown = FALSE /\ m_contextDragging = FALSE /\ m_inMultitaskView = FALSE
  /\ overlap = FALSE /\ fullscreen = FALSE
  /\ m_enters = {} /\ m_transientChildShows = {}
  /\ m_hideTimer = FALSE /\ m_showTimer = FALSE
  /\ primary \in Screen /\ screens = {primary}
  /\ showInPrimary \in BOOLEAN /\ connected = showInPrimary
  /\ m_dockScreen = primary
  /\ switches = <<>>
  /\ m_areas = WakeUpAreaNeedShow
  /\ inArea = NoScreen
  /\ visible = TRUE
  /\ unheld = (hideMode = "KeepHidden") /\ cut = FALSE /\ stale = FALSE /\ astray = FALSE

\* What the user and the system do.
Outside ==
  \/ \E w \in Popup \cup {Dock} : Enter(w) \/ Leave(w)
  \/ \E w \in Popup : ShowPopup(w) \/ HidePopup(w)
  \/ HideDock
  \/ OverlapChanged \/ FullscreenChanged \/ MultitaskStateChanged
  \/ SetContextDragging
  \/ \E mode \in Modes : SetHideMode(mode)
  \/ LauncherVisibleChanged
  \/ \E s \in Screen : EnterArea(s)
  \/ LeaveArea
  \/ SetShowInPrimary \/ ConfigShowInPrimary
  \/ \E s \in Screen : PrimaryScreenChanged(s) \/ ScreenAdded(s) \/ ScreenRemoved(s)

Next == Outside \/ HideTimeout \/ ShowTimeout \/ SwitchScreen

Spec == Init /\ [][Next]_vars

-----------------------------------------------------------------------------
Flags ==
  /\ m_launcherShown \in BOOLEAN /\ m_contextDragging \in BOOLEAN
  /\ m_inMultitaskView \in BOOLEAN /\ overlap \in BOOLEAN /\ fullscreen \in BOOLEAN
  /\ m_hideTimer \in BOOLEAN /\ m_showTimer \in BOOLEAN
  /\ showInPrimary \in BOOLEAN /\ connected \in BOOLEAN /\ visible \in BOOLEAN
  /\ unheld \in BOOLEAN /\ cut \in BOOLEAN /\ stale \in BOOLEAN /\ astray \in BOOLEAN

\* The pointer is only in windows that are on screen, and every screen the dock
\* knows of is still there (an area that is not left may outlive its screen).
TypeOK ==
  /\ Flags
  /\ hideMode \in Modes
  /\ m_hideState \in {"Show", "Hide"}
  /\ m_transientChildShows \subseteq Popup
  /\ m_enters \subseteq m_transientChildShows \cup {Dock}
  /\ screens \subseteq Screen /\ primary \in screens
  /\ m_dockScreen \in screens \cup {NoScreen}
  /\ switches \in Seq(screens)
  /\ m_areas \subseteq screens
  /\ inArea \in Screen \cup {NoScreen}

\* A dock that nothing holds has its hide timer running, unless no Leave event
\* ended the hold (HideDock) or there was none from the start.  Each of the
\* events that stop m_hideTimer must be followed by one that starts it.
HideIsComing ==
  (m_hideState = "Show" /\ NeedHide /\ inArea = NoScreen) => m_hideTimer \/ unheld

\* A hidden dock that should show has its show timer running, unless a Leave
\* event stopped it: that event also stops a timer it did not start.
ShowIsComing ==
  (m_hideState = "Hide" /\ NeedShow) => m_showTimer \/ cut

\* updateAllDockWakeArea: a hidden dock can be woken on every screen it may show
\* on, and nowhere else, once the areas were updated after a change of screens.
AreasFit == stale \/ m_areas = WakeUpAreaNeedShow

\* showInPrimary: the dock is on the primary screen, unless a switch was pending
\* when the setting or the screen changed, an outdated area was entered, or the
\* screen changed while nothing listened: a setting that came from DConfig alone
\* does not connect primaryScreenChanged.
OnPrimary == showInPrimary => m_dockScreen = primary \/ astray
=============================================================================
