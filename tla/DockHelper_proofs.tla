-------------------------- MODULE DockHelper_proofs --------------------------
(***************************************************************************)
(* Proofs about DockHelper for every set of screens and popups and every   *)
(* bound of pending switches.                                              *)
(*                                                                         *)
(* The type invariant is inductive as it stands.  HideIsComing needs to    *)
(* know that a pending switch of screen is backed, once the pointer has    *)
(* left the area, by the hide timer or by something that holds the dock    *)
(* (SwitchBacked): the switch shows the dock when it comes.  OnPrimary     *)
(* needs to know that no switch is pending on a dock that is bound to the  *)
(* primary screen.  ShowIsComing and AreasFit are inductive.               *)
(***************************************************************************)
EXTENDS DockHelper, TLAPS

-----------------------------------------------------------------------------
(* Types. *)

\* Every step keeps the flags Boolean.
LEMMA FlagsStep ==
  ASSUME Flags, [Next]_vars
  PROVE  Flags'
<1>1. ASSUME NEW w \in Popup \cup {Dock}, Enter(w) PROVE Flags'
  BY <1>1, Zenon DEF Flags, Shown, wishes, timers, layout, history, Enter, StartShowTimer
<1>2. ASSUME NEW w \in Popup \cup {Dock}, Leave(w) PROVE Flags'
  BY <1>2, Zenon DEF Flags, Shown, wishes, timers, layout, history, Leave, StartHideTimer
<1>3. ASSUME NEW w \in Popup, ShowPopup(w) PROVE Flags'
  BY <1>3, Zenon DEF Flags, Shown, wishes, timers, layout, history, ShowPopup
<1>4. ASSUME NEW w \in Popup, HidePopup(w) PROVE Flags'
  BY <1>4, Zenon DEF Flags, Shown, wishes, timers, layout, history, HidePopup, StartHideTimer
<1>5. CASE HideDock
  BY <1>5, Zenon DEF Flags, Shown, wishes, timers, layout, history, HideDock
<1>6. CASE OverlapChanged
  BY <1>6, ZenonT(60) DEF Flags, Shown, wishes, timers, layout, history, OverlapChanged, StartHideTimer, StartShowTimer
<1>7. CASE FullscreenChanged
  BY <1>7, Zenon DEF Flags, Shown, wishes, timers, layout, history, FullscreenChanged, CheckNeedHideOrNot, CheckNeedShowOrNot, HideStateFollowed, UpdateAllDockWakeArea, KeepAreas
<1>8. CASE MultitaskStateChanged
  BY <1>8, Zenon DEF Flags, Shown, wishes, timers, layout, history, MultitaskStateChanged, CheckNeedHideOrNot, CheckNeedShowOrNot, HideStateFollowed, UpdateAllDockWakeArea, KeepAreas
<1>9. CASE SetContextDragging
  BY <1>9, Zenon DEF Flags, Shown, wishes, timers, layout, history, SetContextDragging, CheckNeedHideOrNot, HideStateFollowed, UpdateAllDockWakeArea, KeepAreas
<1>10. ASSUME NEW mode \in Modes, SetHideMode(mode) PROVE Flags'
  BY <1>10, Zenon DEF Flags, Shown, wishes, timers, layout, history, SetHideMode, StartHideTimer, StartShowTimer, UpdateAllDockWakeArea, KeepAreas
<1>11. CASE LauncherVisibleChanged
  BY <1>11, Zenon DEF Flags, Shown, wishes, timers, layout, history, LauncherVisibleChanged, UpdateAllDockWakeArea, KeepAreas
<1>12. ASSUME NEW s \in Screen, EnterArea(s) PROVE Flags'
  BY <1>12, Zenon DEF Flags, Shown, wishes, timers, layout, history, EnterArea, HideStateFollowed, UpdateAllDockWakeArea, KeepAreas
<1>13. CASE LeaveArea
  BY <1>13, Zenon DEF Flags, Shown, wishes, timers, layout, history, LeaveArea, StartHideTimer
<1>14. CASE SetShowInPrimary \/ ConfigShowInPrimary
  <2>1. ShowInPrimaryChanged /\ connected' \in BOOLEAN => Flags'
    BY Zenon DEF Flags, Shown, wishes, timers, layout, history, ShowInPrimaryChanged, UpdateAllDockWakeArea, KeepAreas
  <2>2. ShowInPrimaryChanged /\ connected' \in BOOLEAN
    BY <1>14, Zenon DEF Flags, SetShowInPrimary, ConfigShowInPrimary, ShowInPrimaryChanged
  <2> QED
    BY <2>1, <2>2
<1>15. ASSUME NEW s \in Screen, PrimaryScreenChanged(s) PROVE Flags'
  BY <1>15, Zenon DEF Flags, Shown, wishes, timers, layout, history, PrimaryScreenChanged
<1>16. ASSUME NEW s \in Screen, ScreenAdded(s) PROVE Flags'
  BY <1>16, ZenonT(60) DEF Flags, Shown, wishes, timers, layout, history, ScreenAdded
<1>17. ASSUME NEW s \in Screen, ScreenRemoved(s) PROVE Flags'
  BY <1>17, SMT DEF Flags, Shown, wishes, timers, layout, history, ScreenRemoved
<1>18. CASE HideTimeout
  BY <1>18, Zenon DEF Flags, Shown, wishes, timers, layout, history, HideTimeout, CheckNeedHideOrNot, HideStateFollowed, UpdateAllDockWakeArea, KeepAreas
<1>19. CASE ShowTimeout
  BY <1>19, Zenon DEF Flags, Shown, wishes, timers, layout, history, ShowTimeout, CheckNeedShowOrNot, HideStateFollowed, UpdateAllDockWakeArea, KeepAreas
<1>20. CASE SwitchScreen
  BY <1>20, Zenon DEF Flags, Shown, wishes, timers, layout, history, SwitchScreen, UpdateAllDockWakeArea, KeepAreas
<1>21. CASE UNCHANGED vars
  BY <1>21, SMT DEF Flags, Shown, wishes, timers, layout, history, vars
<1> QED
  BY <1>1, <1>2, <1>3, <1>4, <1>5, <1>6, <1>7, <1>8, <1>9, <1>10, <1>11,
     <1>12, <1>13, <1>14, <1>15, <1>16, <1>17, <1>18, <1>19, <1>20, <1>21 DEF Next, Outside

\* Every step keeps the types.
LEMMA TypeStep ==
  ASSUME TypeOK, [Next]_vars
  PROVE  TypeOK'
<1>0. Flags'
  BY FlagsStep DEF TypeOK
<1>1. ASSUME NEW w \in Popup \cup {Dock}, Enter(w) PROVE TypeOK'
  BY <1>1, <1>0 DEF TypeOK, Modes, WakeUpAreaNeedShow, wishes, pointer, layout, Enter, StartShowTimer
<1>2. ASSUME NEW w \in Popup \cup {Dock}, Leave(w) PROVE TypeOK'
  BY <1>2, <1>0 DEF TypeOK, Modes, WakeUpAreaNeedShow, wishes, pointer, layout, Leave, StartHideTimer
<1>3. ASSUME NEW w \in Popup, ShowPopup(w) PROVE TypeOK'
  BY <1>3, <1>0 DEF TypeOK, Modes, WakeUpAreaNeedShow, wishes, pointer, layout, ShowPopup
<1>4. ASSUME NEW w \in Popup, HidePopup(w) PROVE TypeOK'
  BY <1>4, <1>0 DEF TypeOK, Modes, WakeUpAreaNeedShow, wishes, pointer, layout, HidePopup, StartHideTimer
<1>5. CASE HideDock
  BY <1>5, <1>0 DEF TypeOK, Modes, WakeUpAreaNeedShow, wishes, pointer, layout, HideDock
<1>6. CASE OverlapChanged
  BY <1>6, <1>0 DEF TypeOK, Modes, WakeUpAreaNeedShow, wishes, pointer, layout, OverlapChanged, StartHideTimer, StartShowTimer
<1>7. CASE FullscreenChanged
  BY <1>7, <1>0 DEF TypeOK, Modes, WakeUpAreaNeedShow, wishes, pointer, layout, FullscreenChanged, CheckNeedHideOrNot, CheckNeedShowOrNot, HideStateFollowed, UpdateAllDockWakeArea, KeepAreas
<1>8. CASE MultitaskStateChanged
  BY <1>8, <1>0 DEF TypeOK, Modes, WakeUpAreaNeedShow, wishes, pointer, layout, MultitaskStateChanged, CheckNeedHideOrNot, CheckNeedShowOrNot, HideStateFollowed, UpdateAllDockWakeArea, KeepAreas
<1>9. CASE SetContextDragging
  BY <1>9, <1>0 DEF TypeOK, Modes, WakeUpAreaNeedShow, wishes, pointer, layout, SetContextDragging, CheckNeedHideOrNot, HideStateFollowed, UpdateAllDockWakeArea, KeepAreas
<1>10. ASSUME NEW mode \in Modes, SetHideMode(mode) PROVE TypeOK'
  BY <1>10, <1>0 DEF TypeOK, Modes, WakeUpAreaNeedShow, wishes, pointer, layout, SetHideMode, StartHideTimer, StartShowTimer, UpdateAllDockWakeArea, KeepAreas
<1>11. CASE LauncherVisibleChanged
  BY <1>11, <1>0 DEF TypeOK, Modes, WakeUpAreaNeedShow, wishes, pointer, layout, LauncherVisibleChanged, UpdateAllDockWakeArea, KeepAreas
<1>12. ASSUME NEW s \in Screen, EnterArea(s) PROVE TypeOK'
  BY <1>12, <1>0 DEF TypeOK, Modes, WakeUpAreaNeedShow, wishes, pointer, layout, EnterArea, HideStateFollowed, UpdateAllDockWakeArea, KeepAreas
<1>13. CASE LeaveArea
  BY <1>13, <1>0 DEF TypeOK, Modes, WakeUpAreaNeedShow, wishes, pointer, layout, LeaveArea, StartHideTimer
<1>14. CASE SetShowInPrimary \/ ConfigShowInPrimary
  BY <1>14, <1>0 DEF TypeOK, Modes, WakeUpAreaNeedShow, wishes, pointer, layout, SetShowInPrimary, UpdateAllDockWakeArea, KeepAreas, ConfigShowInPrimary, ShowInPrimaryChanged
<1>15. ASSUME NEW s \in Screen, PrimaryScreenChanged(s) PROVE TypeOK'
  BY <1>15, <1>0 DEF TypeOK, Modes, WakeUpAreaNeedShow, wishes, pointer, layout, PrimaryScreenChanged
<1>16. ASSUME NEW s \in Screen, ScreenAdded(s) PROVE TypeOK'
  BY <1>16, <1>0 DEF TypeOK, Modes, WakeUpAreaNeedShow, wishes, pointer, layout, ScreenAdded
<1>17. ASSUME NEW s \in Screen, ScreenRemoved(s) PROVE TypeOK'
  BY <1>17, <1>0 DEF TypeOK, Modes, WakeUpAreaNeedShow, wishes, pointer, layout, ScreenRemoved
<1>18. CASE HideTimeout
  BY <1>18, <1>0 DEF TypeOK, Modes, WakeUpAreaNeedShow, wishes, pointer, layout, HideTimeout, CheckNeedHideOrNot, HideStateFollowed, UpdateAllDockWakeArea, KeepAreas
<1>19. CASE ShowTimeout
  BY <1>19, <1>0 DEF TypeOK, Modes, WakeUpAreaNeedShow, wishes, pointer, layout, ShowTimeout, CheckNeedShowOrNot, HideStateFollowed, UpdateAllDockWakeArea, KeepAreas
<1>20. CASE SwitchScreen
  BY <1>20, <1>0 DEF TypeOK, Modes, WakeUpAreaNeedShow, wishes, pointer, layout, SwitchScreen, UpdateAllDockWakeArea, KeepAreas
<1>21. CASE UNCHANGED vars
  BY <1>21, <1>0 DEF TypeOK, Modes, WakeUpAreaNeedShow, wishes, pointer, layout, vars
<1> QED
  BY <1>1, <1>2, <1>3, <1>4, <1>5, <1>6, <1>7, <1>8, <1>9, <1>10, <1>11,
     <1>12, <1>13, <1>14, <1>15, <1>16, <1>17, <1>18, <1>19, <1>20, <1>21 DEF Next, Outside

\* Types: a pointer is only in windows on screen, areas, pending switches and the
\* dock only name screens that are there, through every change of screens.
THEOREM TypeCorrect == Spec => []TypeOK
<1>1. Init => TypeOK
  <2>1. Init => Flags
    BY Zenon DEF Init, Flags
  <2> QED
    BY <2>1 DEF Init, TypeOK, Modes, WakeUpAreaNeedShow
<1>2. TypeOK /\ [Next]_vars => TypeOK'
  BY TypeStep
<1> QED
  BY <1>1, <1>2, PTL DEF Spec

-----------------------------------------------------------------------------
(* Hiding and showing. *)

\* A pending switch of screen is backed: when the pointer is out of the areas,
\* the hide timer runs or the pointer or a popup holds the dock.
SwitchBacked ==
  (switches # <<>> /\ inArea = NoScreen) =>
    m_hideTimer \/ unheld \/ m_enters # {} \/ m_transientChildShows # {}

\* SwitchBacked is kept: whatever stops the hide timer holds the dock, and
\* whatever ends a hold starts it.
LEMMA SwitchBackedStep ==
  ASSUME SwitchBacked, [Next]_vars
  PROVE  SwitchBacked'
<1>1. ASSUME NEW w \in Popup \cup {Dock}, Enter(w) PROVE SwitchBacked'
  BY <1>1 DEF SwitchBacked, pointer, timers, history, Enter, StartShowTimer
<1>2. ASSUME NEW w \in Popup \cup {Dock}, Leave(w) PROVE SwitchBacked'
  BY <1>2 DEF SwitchBacked, pointer, timers, history, Leave, StartHideTimer
<1>3. ASSUME NEW w \in Popup, ShowPopup(w) PROVE SwitchBacked'
  BY <1>3 DEF SwitchBacked, pointer, timers, history, ShowPopup
<1>4. ASSUME NEW w \in Popup, HidePopup(w) PROVE SwitchBacked'
  BY <1>4 DEF SwitchBacked, pointer, timers, history, HidePopup, StartHideTimer
<1>5. CASE HideDock
  BY <1>5 DEF SwitchBacked, pointer, timers, history, HideDock
<1>6. CASE OverlapChanged
  BY <1>6 DEF SwitchBacked, pointer, timers, history, OverlapChanged, StartHideTimer, StartShowTimer
<1>7. CASE FullscreenChanged
  BY <1>7 DEF SwitchBacked, pointer, timers, history, FullscreenChanged, CheckNeedHideOrNot, CheckNeedShowOrNot, HideStateFollowed
<1>8. CASE MultitaskStateChanged
  BY <1>8 DEF SwitchBacked, pointer, timers, history, MultitaskStateChanged, CheckNeedHideOrNot, CheckNeedShowOrNot, HideStateFollowed
<1>9. CASE SetContextDragging
  BY <1>9 DEF SwitchBacked, pointer, timers, history, SetContextDragging, CheckNeedHideOrNot, HideStateFollowed
<1>10. ASSUME NEW mode \in Modes, SetHideMode(mode) PROVE SwitchBacked'
  BY <1>10 DEF SwitchBacked, pointer, timers, history, SetHideMode, StartHideTimer, StartShowTimer
<1>11. CASE LauncherVisibleChanged
  BY <1>11 DEF SwitchBacked, pointer, timers, history, LauncherVisibleChanged
<1>12. ASSUME NEW s \in Screen, EnterArea(s) PROVE SwitchBacked'
  BY <1>12, WindowsAssumption DEF SwitchBacked, EnterArea
<1>13. CASE LeaveArea
  BY <1>13 DEF SwitchBacked, pointer, timers, history, LeaveArea, StartHideTimer
<1>14. CASE SetShowInPrimary \/ ConfigShowInPrimary
  BY <1>14 DEF SwitchBacked, pointer, timers, history, SetShowInPrimary, ConfigShowInPrimary, ShowInPrimaryChanged
<1>15. ASSUME NEW s \in Screen, PrimaryScreenChanged(s) PROVE SwitchBacked'
  BY <1>15 DEF SwitchBacked, pointer, timers, history, PrimaryScreenChanged
<1>16. ASSUME NEW s \in Screen, ScreenAdded(s) PROVE SwitchBacked'
  BY <1>16 DEF SwitchBacked, pointer, timers, history, ScreenAdded
<1>17. ASSUME NEW s \in Screen, ScreenRemoved(s) PROVE SwitchBacked'
  BY <1>17 DEF SwitchBacked, pointer, timers, history, ScreenRemoved
<1>18. CASE HideTimeout
  BY <1>18 DEF SwitchBacked, pointer, timers, history, HideTimeout, CheckNeedHideOrNot, HideStateFollowed
<1>19. CASE ShowTimeout
  BY <1>19 DEF SwitchBacked, pointer, timers, history, ShowTimeout, CheckNeedShowOrNot, HideStateFollowed
<1>20. CASE SwitchScreen
  BY <1>20 DEF SwitchBacked, pointer, timers, history, SwitchScreen
<1>21. CASE UNCHANGED vars
  BY <1>21 DEF SwitchBacked, pointer, timers, history, vars
<1> QED
  BY <1>1, <1>2, <1>3, <1>4, <1>5, <1>6, <1>7, <1>8, <1>9, <1>10, <1>11,
     <1>12, <1>13, <1>14, <1>15, <1>16, <1>17, <1>18, <1>19, <1>20, <1>21 DEF Next, Outside

\* HideIsComing is kept: SwitchBacked answers for the switch of screen.
LEMMA HideStep ==
  ASSUME SwitchBacked, HideIsComing, [Next]_vars
  PROVE  HideIsComing'
<1>1. ASSUME NEW w \in Popup \cup {Dock}, Enter(w) PROVE HideIsComing'
  BY <1>1 DEF HideIsComing, SwitchBacked, NeedHide, NeedShow, wishes, pointer, timers, history, Enter, StartShowTimer
<1>2. ASSUME NEW w \in Popup \cup {Dock}, Leave(w) PROVE HideIsComing'
  BY <1>2 DEF HideIsComing, SwitchBacked, NeedHide, NeedShow, wishes, pointer, timers, history, Leave, StartHideTimer
<1>3. ASSUME NEW w \in Popup, ShowPopup(w) PROVE HideIsComing'
  BY <1>3 DEF HideIsComing, SwitchBacked, NeedHide, NeedShow, wishes, pointer, timers, history, ShowPopup
<1>4. ASSUME NEW w \in Popup, HidePopup(w) PROVE HideIsComing'
  BY <1>4 DEF HideIsComing, SwitchBacked, NeedHide, NeedShow, wishes, pointer, timers, history, HidePopup, StartHideTimer
<1>5. CASE HideDock
  BY <1>5 DEF HideIsComing, SwitchBacked, NeedHide, NeedShow, wishes, pointer, timers, history, HideDock
<1>6. CASE OverlapChanged
  BY <1>6 DEF HideIsComing, SwitchBacked, NeedHide, NeedShow, wishes, pointer, timers, history, OverlapChanged, StartHideTimer, StartShowTimer
<1>7. CASE FullscreenChanged
  BY <1>7 DEF HideIsComing, SwitchBacked, NeedHide, NeedShow, wishes, pointer, timers, history, FullscreenChanged, CheckNeedHideOrNot, CheckNeedShowOrNot, HideStateFollowed
<1>8. CASE MultitaskStateChanged
  BY <1>8 DEF HideIsComing, SwitchBacked, NeedHide, NeedShow, wishes, pointer, timers, history, MultitaskStateChanged, CheckNeedHideOrNot, CheckNeedShowOrNot, HideStateFollowed
<1>9. CASE SetContextDragging
  BY <1>9 DEF HideIsComing, SwitchBacked, NeedHide, NeedShow, wishes, pointer, timers, history, SetContextDragging, CheckNeedHideOrNot, HideStateFollowed
<1>10. ASSUME NEW mode \in Modes, SetHideMode(mode) PROVE HideIsComing'
  BY <1>10 DEF HideIsComing, SwitchBacked, NeedHide, NeedShow, wishes, pointer, timers, history, SetHideMode, StartHideTimer, StartShowTimer
<1>11. CASE LauncherVisibleChanged
  BY <1>11 DEF HideIsComing, SwitchBacked, NeedHide, NeedShow, wishes, pointer, timers, history, LauncherVisibleChanged
<1>12. ASSUME NEW s \in Screen, EnterArea(s) PROVE HideIsComing'
  BY <1>12, WindowsAssumption DEF HideIsComing, EnterArea
<1>13. CASE LeaveArea
  BY <1>13 DEF HideIsComing, SwitchBacked, NeedHide, NeedShow, wishes, pointer, timers, history, LeaveArea, StartHideTimer
<1>14. CASE SetShowInPrimary \/ ConfigShowInPrimary
  BY <1>14 DEF HideIsComing, SwitchBacked, NeedHide, NeedShow, wishes, pointer, timers, history, SetShowInPrimary, ConfigShowInPrimary, ShowInPrimaryChanged
<1>15. ASSUME NEW s \in Screen, PrimaryScreenChanged(s) PROVE HideIsComing'
  BY <1>15 DEF HideIsComing, SwitchBacked, NeedHide, NeedShow, wishes, pointer, timers, history, PrimaryScreenChanged
<1>16. ASSUME NEW s \in Screen, ScreenAdded(s) PROVE HideIsComing'
  BY <1>16 DEF HideIsComing, SwitchBacked, NeedHide, NeedShow, wishes, pointer, timers, history, ScreenAdded
<1>17. ASSUME NEW s \in Screen, ScreenRemoved(s) PROVE HideIsComing'
  BY <1>17 DEF HideIsComing, SwitchBacked, NeedHide, NeedShow, wishes, pointer, timers, history, ScreenRemoved
<1>18. CASE HideTimeout
  BY <1>18 DEF HideIsComing, SwitchBacked, NeedHide, NeedShow, wishes, pointer, timers, history, HideTimeout, CheckNeedHideOrNot, HideStateFollowed
<1>19. CASE ShowTimeout
  BY <1>19 DEF HideIsComing, SwitchBacked, NeedHide, NeedShow, wishes, pointer, timers, history, ShowTimeout, CheckNeedShowOrNot, HideStateFollowed
<1>20. CASE SwitchScreen
  BY <1>20 DEF HideIsComing, SwitchBacked, NeedHide, NeedShow, wishes, pointer, timers, history, SwitchScreen
<1>21. CASE UNCHANGED vars
  BY <1>21 DEF HideIsComing, SwitchBacked, NeedHide, NeedShow, wishes, pointer, timers, history, vars
<1> QED
  BY <1>1, <1>2, <1>3, <1>4, <1>5, <1>6, <1>7, <1>8, <1>9, <1>10, <1>11,
     <1>12, <1>13, <1>14, <1>15, <1>16, <1>17, <1>18, <1>19, <1>20, <1>21 DEF Next, Outside

\* Init: the hide timer does not run, and only KeepHidden wants it to.
LEMMA HideInit == Init => SwitchBacked /\ HideIsComing
  BY DEF Init, Modes, SwitchBacked, HideIsComing, NeedHide

\* m_hideTimer: whenever a shown dock is held by nothing, its hide timer runs,
\* unless the hold ended without a Leave event.
THEOREM HideStaysComing == Spec => []HideIsComing
<1>1. Init => SwitchBacked /\ HideIsComing
  BY HideInit
<1>2. SwitchBacked /\ HideIsComing /\ [Next]_vars => (SwitchBacked /\ HideIsComing)'
  BY SwitchBackedStep, HideStep
<1> QED
  BY <1>1, <1>2, PTL DEF Spec

\* ShowIsComing is kept: NeedShow and NeedHide exclude each other.
LEMMA ShowStep ==
  ASSUME TypeOK, ShowIsComing, [Next]_vars
  PROVE  ShowIsComing'
<1>1. ASSUME NEW w \in Popup \cup {Dock}, Enter(w) PROVE ShowIsComing'
  BY <1>1 DEF ShowIsComing, TypeOK, NeedHide, NeedShow, Modes, wishes, pointer, timers, history, Enter, StartShowTimer
<1>2. ASSUME NEW w \in Popup \cup {Dock}, Leave(w) PROVE ShowIsComing'
  BY <1>2 DEF ShowIsComing, TypeOK, NeedHide, NeedShow, Modes, wishes, pointer, timers, history, Leave, StartHideTimer
<1>3. ASSUME NEW w \in Popup, ShowPopup(w) PROVE ShowIsComing'
  BY <1>3 DEF ShowIsComing, TypeOK, NeedHide, NeedShow, Modes, wishes, pointer, timers, history, ShowPopup
<1>4. ASSUME NEW w \in Popup, HidePopup(w) PROVE ShowIsComing'
  BY <1>4 DEF ShowIsComing, TypeOK, NeedHide, NeedShow, Modes, wishes, pointer, timers, history, HidePopup, StartHideTimer
<1>5. CASE HideDock
  BY <1>5 DEF ShowIsComing, TypeOK, NeedHide, NeedShow, Modes, wishes, pointer, timers, history, HideDock
<1>6. CASE OverlapChanged
  BY <1>6 DEF ShowIsComing, TypeOK, NeedHide, NeedShow, Modes, wishes, pointer, timers, history, OverlapChanged, StartHideTimer, StartShowTimer
<1>7. CASE FullscreenChanged
  BY <1>7 DEF ShowIsComing, TypeOK, NeedHide, NeedShow, Modes, wishes, pointer, timers, history, FullscreenChanged, CheckNeedHideOrNot, CheckNeedShowOrNot, HideStateFollowed
<1>8. CASE MultitaskStateChanged
  BY <1>8 DEF ShowIsComing, TypeOK, NeedHide, NeedShow, Modes, wishes, pointer, timers, history, MultitaskStateChanged, CheckNeedHideOrNot, CheckNeedShowOrNot, HideStateFollowed
<1>9. CASE SetContextDragging
  BY <1>9 DEF ShowIsComing, TypeOK, NeedHide, NeedShow, Modes, wishes, pointer, timers, history, SetContextDragging, CheckNeedHideOrNot, HideStateFollowed
<1>10. ASSUME NEW mode \in Modes, SetHideMode(mode) PROVE ShowIsComing'
  BY <1>10 DEF ShowIsComing, TypeOK, NeedHide, NeedShow, Modes, wishes, pointer, timers, history, SetHideMode, StartHideTimer, StartShowTimer
<1>11. CASE LauncherVisibleChanged
  BY <1>11 DEF ShowIsComing, TypeOK, NeedHide, NeedShow, Modes, wishes, pointer, timers, history, LauncherVisibleChanged
<1>12. ASSUME NEW s \in Screen, EnterArea(s) PROVE ShowIsComing'
  BY <1>12 DEF ShowIsComing, TypeOK, NeedHide, NeedShow, Modes, wishes, pointer, timers, history, EnterArea, HideStateFollowed
<1>13. CASE LeaveArea
  BY <1>13 DEF ShowIsComing, TypeOK, NeedHide, NeedShow, Modes, wishes, pointer, timers, history, LeaveArea, StartHideTimer
<1>14. CASE SetShowInPrimary \/ ConfigShowInPrimary
  BY <1>14 DEF ShowIsComing, TypeOK, NeedHide, NeedShow, Modes, wishes, pointer, timers, history, SetShowInPrimary, ConfigShowInPrimary, ShowInPrimaryChanged
<1>15. ASSUME NEW s \in Screen, PrimaryScreenChanged(s) PROVE ShowIsComing'
  BY <1>15 DEF ShowIsComing, TypeOK, NeedHide, NeedShow, Modes, wishes, pointer, timers, history, PrimaryScreenChanged
<1>16. ASSUME NEW s \in Screen, ScreenAdded(s) PROVE ShowIsComing'
  BY <1>16 DEF ShowIsComing, TypeOK, NeedHide, NeedShow, Modes, wishes, pointer, timers, history, ScreenAdded
<1>17. ASSUME NEW s \in Screen, ScreenRemoved(s) PROVE ShowIsComing'
  BY <1>17 DEF ShowIsComing, TypeOK, NeedHide, NeedShow, Modes, wishes, pointer, timers, history, ScreenRemoved
<1>18. CASE HideTimeout
  BY <1>18 DEF ShowIsComing, TypeOK, NeedHide, NeedShow, Modes, wishes, pointer, timers, history, HideTimeout, CheckNeedHideOrNot, HideStateFollowed
<1>19. CASE ShowTimeout
  BY <1>19 DEF ShowIsComing, TypeOK, NeedHide, NeedShow, Modes, wishes, pointer, timers, history, ShowTimeout, CheckNeedShowOrNot, HideStateFollowed
<1>20. CASE SwitchScreen
  BY <1>20 DEF ShowIsComing, TypeOK, NeedHide, NeedShow, Modes, wishes, pointer, timers, history, SwitchScreen
<1>21. CASE UNCHANGED vars
  BY <1>21 DEF ShowIsComing, TypeOK, NeedHide, NeedShow, Modes, wishes, pointer, timers, history, vars
<1> QED
  BY <1>1, <1>2, <1>3, <1>4, <1>5, <1>6, <1>7, <1>8, <1>9, <1>10, <1>11,
     <1>12, <1>13, <1>14, <1>15, <1>16, <1>17, <1>18, <1>19, <1>20, <1>21 DEF Next, Outside

\* m_showTimer: whenever a hidden dock should show, its show timer runs, unless a
\* Leave event stopped it.
THEOREM ShowStaysComing == Spec => []ShowIsComing
<1>1. Init => ShowIsComing
  BY DEF Init, ShowIsComing
<1>2. TypeOK /\ ShowIsComing /\ [Next]_vars => ShowIsComing'
  BY ShowStep
<1> QED
  BY <1>1, <1>2, TypeCorrect, PTL DEF Spec

-----------------------------------------------------------------------------
(* Areas and screens. *)

\* AreasFit is kept; the area of a removed screen goes with it.
LEMMA AreasStep ==
  ASSUME TypeOK, AreasFit, [Next]_vars
  PROVE  AreasFit'
<1>1. ASSUME NEW w \in Popup \cup {Dock}, Enter(w) PROVE AreasFit'
  BY <1>1 DEF AreasFit, WakeUpAreaNeedShow, Shown, layout, history, Enter, StartShowTimer
<1>2. ASSUME NEW w \in Popup \cup {Dock}, Leave(w) PROVE AreasFit'
  BY <1>2 DEF AreasFit, WakeUpAreaNeedShow, Shown, layout, history, Leave, StartHideTimer
<1>3. ASSUME NEW w \in Popup, ShowPopup(w) PROVE AreasFit'
  BY <1>3 DEF AreasFit, WakeUpAreaNeedShow, Shown, layout, history, ShowPopup
<1>4. ASSUME NEW w \in Popup, HidePopup(w) PROVE AreasFit'
  BY <1>4 DEF AreasFit, WakeUpAreaNeedShow, Shown, layout, history, HidePopup, StartHideTimer
<1>5. CASE HideDock
  BY <1>5 DEF AreasFit, WakeUpAreaNeedShow, Shown, layout, history, HideDock
<1>6. CASE OverlapChanged
  BY <1>6 DEF AreasFit, WakeUpAreaNeedShow, Shown, layout, history, OverlapChanged, StartHideTimer, StartShowTimer
<1>7. CASE FullscreenChanged
  BY <1>7 DEF AreasFit, WakeUpAreaNeedShow, Shown, layout, history, FullscreenChanged, CheckNeedHideOrNot, CheckNeedShowOrNot, HideStateFollowed, UpdateAllDockWakeArea, KeepAreas
<1>8. CASE MultitaskStateChanged
  BY <1>8 DEF AreasFit, WakeUpAreaNeedShow, Shown, layout, history, MultitaskStateChanged, CheckNeedHideOrNot, CheckNeedShowOrNot, HideStateFollowed, UpdateAllDockWakeArea, KeepAreas
<1>9. CASE SetContextDragging
  BY <1>9 DEF AreasFit, WakeUpAreaNeedShow, Shown, layout, history, SetContextDragging, CheckNeedHideOrNot, HideStateFollowed, UpdateAllDockWakeArea, KeepAreas
<1>10. ASSUME NEW mode \in Modes, SetHideMode(mode) PROVE AreasFit'
  BY <1>10 DEF AreasFit, WakeUpAreaNeedShow, Shown, layout, history, SetHideMode, StartHideTimer, StartShowTimer, UpdateAllDockWakeArea, KeepAreas
<1>11. CASE LauncherVisibleChanged
  BY <1>11 DEF AreasFit, WakeUpAreaNeedShow, Shown, layout, history, LauncherVisibleChanged, UpdateAllDockWakeArea, KeepAreas
<1>12. ASSUME NEW s \in Screen, EnterArea(s) PROVE AreasFit'
  BY <1>12 DEF AreasFit, WakeUpAreaNeedShow, Shown, layout, history, EnterArea, HideStateFollowed, UpdateAllDockWakeArea, KeepAreas
<1>13. CASE LeaveArea
  BY <1>13 DEF AreasFit, WakeUpAreaNeedShow, Shown, layout, history, LeaveArea, StartHideTimer
<1>14. CASE SetShowInPrimary \/ ConfigShowInPrimary
  BY <1>14 DEF AreasFit, WakeUpAreaNeedShow, Shown, layout, history, SetShowInPrimary, UpdateAllDockWakeArea, KeepAreas, ConfigShowInPrimary, ShowInPrimaryChanged
<1>15. ASSUME NEW s \in Screen, PrimaryScreenChanged(s) PROVE AreasFit'
  BY <1>15 DEF AreasFit, WakeUpAreaNeedShow, Shown, layout, history, PrimaryScreenChanged
<1>16. ASSUME NEW s \in Screen, ScreenAdded(s) PROVE AreasFit'
  BY <1>16 DEF AreasFit, WakeUpAreaNeedShow, Shown, layout, history, ScreenAdded
<1>17. ASSUME NEW s \in Screen, ScreenRemoved(s) PROVE AreasFit'
  <2>1. WakeUpAreaNeedShow' = WakeUpAreaNeedShow \ {s}
    <3>1. ASSUME NEW z
          PROVE  z \in WakeUpAreaNeedShow' <=> z \in WakeUpAreaNeedShow \ {s}
      BY <1>17, WindowsAssumption DEF TypeOK, WakeUpAreaNeedShow, Shown, ScreenRemoved, layout
    <3> QED
      BY <3>1
  <2>2. m_areas' = m_areas \ {s} /\ stale' = stale
    BY <1>17 DEF ScreenRemoved, history
  <2> QED
    BY <2>1, <2>2 DEF AreasFit
<1>18. CASE HideTimeout
  BY <1>18 DEF AreasFit, WakeUpAreaNeedShow, Shown, layout, history, HideTimeout, CheckNeedHideOrNot, HideStateFollowed, UpdateAllDockWakeArea, KeepAreas
<1>19. CASE ShowTimeout
  BY <1>19 DEF AreasFit, WakeUpAreaNeedShow, Shown, layout, history, ShowTimeout, CheckNeedShowOrNot, HideStateFollowed, UpdateAllDockWakeArea, KeepAreas
<1>20. CASE SwitchScreen
  BY <1>20 DEF AreasFit, WakeUpAreaNeedShow, Shown, layout, history, SwitchScreen, UpdateAllDockWakeArea, KeepAreas
<1>21. CASE UNCHANGED vars
  BY <1>21 DEF AreasFit, WakeUpAreaNeedShow, Shown, layout, history, vars
<1> QED
  BY <1>1, <1>2, <1>3, <1>4, <1>5, <1>6, <1>7, <1>8, <1>9, <1>10, <1>11,
     <1>12, <1>13, <1>14, <1>15, <1>16, <1>17, <1>18, <1>19, <1>20, <1>21 DEF Next, Outside

\* updateAllDockWakeArea: the wake areas are those the dock needs, unless screens
\* changed since the last update.
THEOREM AreasStayFit == Spec => []AreasFit
<1>1. Init => AreasFit
  BY DEF Init, AreasFit
<1>2. TypeOK /\ AreasFit /\ [Next]_vars => AreasFit'
  BY AreasStep
<1> QED
  BY <1>1, <1>2, TypeCorrect, PTL DEF Spec

\* No switch is pending on a dock that keeps to the primary screen.
PrimaryKept == showInPrimary /\ ~astray => m_dockScreen = primary /\ switches = <<>>

\* PrimaryKept is kept: on its own screen the dock shows at once.
LEMMA PrimaryStep ==
  ASSUME PrimaryKept, [Next]_vars
  PROVE  PrimaryKept'
<1>1. ASSUME NEW w \in Popup \cup {Dock}, Enter(w) PROVE PrimaryKept'
  BY <1>1 DEF PrimaryKept, layout, history, Enter, StartShowTimer
<1>2. ASSUME NEW w \in Popup \cup {Dock}, Leave(w) PROVE PrimaryKept'
  BY <1>2 DEF PrimaryKept, layout, history, Leave, StartHideTimer
<1>3. ASSUME NEW w \in Popup, ShowPopup(w) PROVE PrimaryKept'
  BY <1>3 DEF PrimaryKept, layout, history, ShowPopup
<1>4. ASSUME NEW w \in Popup, HidePopup(w) PROVE PrimaryKept'
  BY <1>4 DEF PrimaryKept, layout, history, HidePopup, StartHideTimer
<1>5. CASE HideDock
  BY <1>5 DEF PrimaryKept, layout, history, HideDock
<1>6. CASE OverlapChanged
  BY <1>6 DEF PrimaryKept, layout, history, OverlapChanged, StartHideTimer, StartShowTimer
<1>7. CASE FullscreenChanged
  BY <1>7 DEF PrimaryKept, layout, history, FullscreenChanged, CheckNeedHideOrNot, CheckNeedShowOrNot, HideStateFollowed
<1>8. CASE MultitaskStateChanged
  BY <1>8 DEF PrimaryKept, layout, history, MultitaskStateChanged, CheckNeedHideOrNot, CheckNeedShowOrNot, HideStateFollowed
<1>9. CASE SetContextDragging
  BY <1>9 DEF PrimaryKept, layout, history, SetContextDragging, CheckNeedHideOrNot, HideStateFollowed
<1>10. ASSUME NEW mode \in Modes, SetHideMode(mode) PROVE PrimaryKept'
  BY <1>10 DEF PrimaryKept, layout, history, SetHideMode, StartHideTimer, StartShowTimer
<1>11. CASE LauncherVisibleChanged
  BY <1>11 DEF PrimaryKept, layout, history, LauncherVisibleChanged
<1>12. ASSUME NEW s \in Screen, EnterArea(s) PROVE PrimaryKept'
  BY <1>12 DEF PrimaryKept, layout, history, EnterArea, HideStateFollowed
<1>13. CASE LeaveArea
  BY <1>13 DEF PrimaryKept, layout, history, LeaveArea, StartHideTimer
<1>14. CASE SetShowInPrimary \/ ConfigShowInPrimary
  BY <1>14 DEF PrimaryKept, layout, history, SetShowInPrimary, ConfigShowInPrimary, ShowInPrimaryChanged
<1>15. ASSUME NEW s \in Screen, PrimaryScreenChanged(s) PROVE PrimaryKept'
  BY <1>15 DEF PrimaryKept, layout, history, PrimaryScreenChanged
<1>16. ASSUME NEW s \in Screen, ScreenAdded(s) PROVE PrimaryKept'
  BY <1>16 DEF PrimaryKept, layout, history, ScreenAdded
<1>17. ASSUME NEW s \in Screen, ScreenRemoved(s) PROVE PrimaryKept'
  BY <1>17 DEF PrimaryKept, layout, history, ScreenRemoved
<1>18. CASE HideTimeout
  BY <1>18 DEF PrimaryKept, layout, history, HideTimeout, CheckNeedHideOrNot, HideStateFollowed
<1>19. CASE ShowTimeout
  BY <1>19 DEF PrimaryKept, layout, history, ShowTimeout, CheckNeedShowOrNot, HideStateFollowed
<1>20. CASE SwitchScreen
  BY <1>20 DEF PrimaryKept, layout, history, SwitchScreen
<1>21. CASE UNCHANGED vars
  BY <1>21 DEF PrimaryKept, layout, history, vars
<1> QED
  BY <1>1, <1>2, <1>3, <1>4, <1>5, <1>6, <1>7, <1>8, <1>9, <1>10, <1>11,
     <1>12, <1>13, <1>14, <1>15, <1>16, <1>17, <1>18, <1>19, <1>20, <1>21 DEF Next, Outside

\* showInPrimary: the dock is on the primary screen, unless it follows an
\* outdated wish.
THEOREM StaysOnPrimary == Spec => []OnPrimary
<1>1. Init => PrimaryKept
  BY DEF Init, PrimaryKept
<1>2. PrimaryKept /\ [Next]_vars => PrimaryKept'
  BY PrimaryStep
<1>3. PrimaryKept => OnPrimary
  BY DEF PrimaryKept, OnPrimary
<1> QED
  BY <1>1, <1>2, <1>3, PTL DEF Spec
=============================================================================
