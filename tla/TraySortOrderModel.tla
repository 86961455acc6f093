------------------------ MODULE TraySortOrderModel -------------------------
(* The tray of the dock.  TraySortOrderModel keeps the order of its items in  *)
(* four sections, places them by visual index, moves them on drops and saves  *)
(* its lists to DConfig.  TraySettings writes the list of hidden items to the *)
(* same configuration, on calls of setItemOnDock that are queued; each of the *)
(* two learns of the other by valueChanged, which arrives later.              *)
EXTENDS Naturals, SequencesExt, Rows

CONSTANTS
  Surface,   \* tray items of plugins
  Kind,      \* what rebuildSurfacesData tells of each
  NoSurface, \* the null surface
  MaxCalls,  \* bound on queued calls
  MaxNews    \* announcements of hiddenSurfaceIds told apart while under way

Section == {"stashed", "collapsable", "pinned", "fixed"}
Saved == Section \ {"fixed"}

ASSUME KindAssumption ==
  \A s \in Surface :
    /\ Kind[s] \in [prefer : Section, forbidden : SUBSET Section,
                    force : BOOLEAN,     \* Attribute_ForceDock
                    setting : BOOLEAN,   \* Attribute_CanSetting
                    app : BOOLEAN,       \* application-tray::
                    quick : BOOLEAN]     \* dragged from the quick panel
    /\ Kind[s].prefer \notin Kind[s].forbidden
    /\ Kind[s].prefer # "fixed" => "fixed" \in Kind[s].forbidden

\* The rows of updateVisualIndexes that stand for no surface.
Action == {"show-stash", "toggle-collapse", "quick-settings"}

ASSUME SurfaceAssumption ==
  /\ IsFiniteSet(Surface)
  /\ Surface \cap (Action \cup {"gap"}) = {}
  /\ NoSurface \notin Surface

ASSUME BoundsAssumption == MaxCalls \in Nat /\ MaxNews \in Nat \ {0}

VARIABLES
  ids,        \* m_stashedIds, m_collapsableIds, m_pinnedIds, m_fixedIds
  section,    \* rows: surface -> SectionTypeRole
  hidden,     \* m_hiddenIds
  collapsed,  \* m_collapsed
  actionsAlwaysVisible,
  staged,     \* m_stagedSurfaceId and m_stagedVisualIndex
  visual,     \* what has a VisualIndexRole, in that order: dock and stash
  config,     \* the values in DConfig
  inSettings, \* TraySettings::m_hiddenSurfaceIds
  news,       \* valueChanged under way to the model and to TraySettings
  calls,      \* queued TrayItem::setItemOnDock
  drag,       \* the drag in progress and what the tray knows of it
  asked,      \* the surfaces that were last asked to hide
  lost        \* the surfaces for which that was overwritten or dropped

modelVars == <<ids, section, hidden, collapsed, actionsAlwaysVisible, staged, visual>>
configVars == <<config, inSettings, news, calls, asked, lost>>
vars == <<modelVars, configVars, drag>>

NoStage == [id |-> NoSurface, index |-> 0]
NoHover == [index |-> 0, before |-> FALSE, pending |-> FALSE]
NoDrag == [id |-> NoSurface, stash |-> FALSE, quick |-> FALSE, over |-> FALSE,
           hover |-> NoHover]

\* Settable surfaces are hidden by the control center and the quick panel.
Settable(s) == Kind[s].setting /\ ~Kind[s].force
Registered == DOMAIN section

-----------------------------------------------------------------------------
(* updateVisualIndexes.                                                      *)

\* The items of a section that are shown; those of the stash always are.
Shown(x) ==
  RowsAt(ids'[x], {i \in DOMAIN ids'[x] :
                     LET s == ids'[x][i]
                     IN /\ s \in DOMAIN section'
                        /\ x = "stashed" \/ ~Settable(s) \/ s \notin hidden'})

\* From the stash button to the quick settings, and without a staged drop.
Movable ==
  (IF actionsAlwaysVisible' \/ Shown("stashed") # <<>> THEN <<"show-stash">> ELSE <<>>)
  \o (IF collapsed' THEN <<>> ELSE Shown("collapsable"))
  \o (IF actionsAlwaysVisible' \/ Shown("collapsable") # <<>> THEN <<"toggle-collapse">> ELSE <<>>)
  \o Shown("pinned") \o <<"quick-settings">>

\* reserveStagedDropSpace: a gap at the staged index, unless it is that of the
\* stash button or behind all that is movable.
Reserved(items) ==
  IF /\ staged'.id # NoSurface
     /\ staged'.index < Len(items)
     /\ staged'.index = 0 => items[1] # "show-stash"
  THEN InsertAt(items, staged'.index + 1, "gap") ELSE items

\* The rows, with the sections they had or are created with.
UpdateVisualIndexes(rows) ==
  /\ section' = [s \in DOMAIN rows |->
                   IF \E x \in Section : Contains(ids'[x], s)
                   THEN CHOOSE x \in Section : Contains(ids'[x], s) ELSE rows[s]]
  /\ visual' = [dock |-> Reserved(Movable) \o Shown("fixed"), stash |-> Shown("stashed")]

-----------------------------------------------------------------------------
(* DConfig.                                                                  *)

\* Who changes the list of hidden items is told of it as well.
Told == [who \in DOMAIN news |-> IF news[who] < MaxNews THEN news[who] + 1 ELSE MaxNews]

\* Values that are as asked for, and that the model is about to write otherwise.
Overwritten ==
  {s \in Surface : /\ (s \in config.hidden) = (s \in asked')
                   /\ (s \in hidden') # (s \in asked')}

\* Mutant of SaveDataToDConfig: the lists are saved before they are changed.
SaveDataToDConfigEarly ==
  /\ config' = [ids |-> [x \in Saved |-> ids[x]], hidden |-> hidden', collapsed |-> collapsed']
  /\ news' = IF hidden' = config.hidden THEN news ELSE Told
  /\ lost' = IF news.model = 0 THEN lost ELSE lost \cup Overwritten
  /\ UNCHANGED inSettings

\* saveDataToDConfig writes every value, also one of which news are under way.
SaveDataToDConfig ==
  /\ config' = [ids |-> [x \in Saved |-> ids'[x]], hidden |-> hidden', collapsed |-> collapsed']
  /\ news' = IF hidden' = config.hidden THEN news ELSE Told
  /\ lost' = IF news.model = 0 THEN lost ELSE lost \cup Overwritten
  /\ UNCHANGED inSettings

\* loadDataFromDConfig leaves m_fixedIds alone, which is never saved.
LoadDataFromDConfig ==
  /\ ids' = [x \in Section |-> IF x \in Saved THEN config.ids[x] ELSE ids[x]]
  /\ hidden' = config.hidden
  /\ collapsed' = config.collapsed

\* handlePluginVisibleChanged: a D-Bus call that queues a call of TrayItem.
HandlePluginVisibleChanged(s, visible) ==
  /\ calls' = Append(calls, [id |-> s, visible |-> visible])
  /\ asked' = IF visible THEN asked \ {s} ELSE asked \cup {s}

\* Calls are made when not too many are under way.
Room == Len(calls) < MaxCalls

\* The model hears of a change of hiddenSurfaceIds.
ModelValueChanged ==
  /\ news.model > 0
  /\ news' = [news EXCEPT !.model = @ - 1]
  /\ LoadDataFromDConfig
  /\ UNCHANGED <<actionsAlwaysVisible, staged, config, inSettings, calls, drag, asked, lost>>
  /\ UpdateVisualIndexes(section)

\* TraySettings hears of it too.
SettingsValueChanged ==
  /\ news.settings > 0
  /\ news' = [news EXCEPT !.settings = @ - 1]
  /\ inSettings' = config.hidden
  /\ UNCHANGED <<modelVars, config, calls, drag, asked, lost>>

\* Mutant of SetItemOnDock: TraySettings waits for the news of its own change.
SetItemOnDockLate ==
  /\ calls # <<>>
  /\ LET s == Head(calls).id
         changes == /\ s \in Registered /\ Settable(s)
                    /\ Head(calls).visible = (s \in inSettings)
         now == IF Head(calls).visible THEN inSettings \ {s} ELSE inSettings \cup {s}
     IN /\ config' = IF changes THEN [config EXCEPT !.hidden = now] ELSE config
        /\ news' = IF changes /\ now # config.hidden THEN Told ELSE news
        /\ lost' = IF s \in Registered /\ Settable(s) THEN lost ELSE lost \cup {s}
  /\ calls' = Tail(calls)
  /\ UNCHANGED <<modelVars, drag, asked, inSettings>>

\* addTrayItemOnDock and removeTrayItemOnDock go by what TraySettings knows.
SetItemOnDock ==
  /\ calls # <<>>
  /\ LET s == Head(calls).id
         known == s \in Registered /\ Settable(s)
         changes == known /\ Head(calls).visible = (s \in inSettings)
         now == IF Head(calls).visible THEN inSettings \ {s} ELSE inSettings \cup {s}
     IN /\ inSettings' = IF changes THEN now ELSE inSettings
        /\ config' = IF changes THEN [config EXCEPT !.hidden = now] ELSE config
        /\ news' = IF changes /\ now # config.hidden THEN Told ELSE news
        /\ lost' = IF known THEN lost ELSE lost \cup {s}
  /\ calls' = Tail(calls)
  /\ UNCHANGED <<modelVars, drag, asked>>

\* The control center calls the dock over D-Bus.
ControlCenter(s, visible) ==
  /\ Room
  /\ s \in Registered /\ Settable(s)
  /\ HandlePluginVisibleChanged(s, visible)
  /\ UNCHANGED <<modelVars, config, inSettings, news, drag, lost>>

-----------------------------------------------------------------------------
(* Surfaces come and go.                                                     *)

\* The sections whose lists name a surface, in the order they are looked through.
Found(lists, s) ==
  LET order == <<"pinned", "collapsable", "stashed", "fixed">>
  IN  RowsAt(order, {k \in DOMAIN order : Contains(lists[order[k]], s)})

\* Out of the list of section x.
TakenFrom(lists, x, s) == [lists EXCEPT ![x] = Without(@, s)]

\* A row for s, or its row with another section.
Rowed(rows, s, x) == [t \in DOMAIN rows \cup {s} |-> IF t = s THEN x ELSE rows[t]]

\* Mutant of FindSection: a surface stays in the list it may not be in.
FindSectionLeaving(acc, s) ==
  LET found == Found(acc.ids, s)
      x == IF found = <<>> THEN Kind[s].prefer ELSE Head(found)
  IN [acc EXCEPT !.section = Rowed(@, s, IF x \in Kind[s].forbidden THEN Kind[s].prefer ELSE x)]

\* findSection hides a new surface that can be shown by the settings, and takes
\* one out of a list it is forbidden in.
FindSection(acc, s) ==
  LET found == Found(acc.ids, s)
      x == IF found = <<>> THEN Kind[s].prefer ELSE Head(found)
      hides == found = <<>> /\ Settable(s) /\ x # "fixed" /\ ~Kind[s].app /\ s \notin acc.hidden
      leaves == found # <<>> /\ x \in Kind[s].forbidden
  IN [acc EXCEPT !.hidden = IF hides THEN @ \cup {s} ELSE @,
                 !.calls = IF hides THEN Append(@, [id |-> s, visible |-> FALSE]) ELSE @,
                 !.ids = IF leaves THEN TakenFrom(@, x, s) ELSE @,
                 !.section = Rowed(@, s, IF leaves THEN Kind[s].prefer ELSE x)]

\* registerToSection.
RegisterToSection(acc, s) ==
  LET x == acc.section[s]
  IN IF Contains(acc.ids[x], s) THEN acc ELSE [acc EXCEPT !.ids[x] = Append(@, s)]

\* registerSurfaceId: a surface that has a row is only looked up again when its
\* section is forbidden, and is then not registered to the section it gets.
RegisterSurfaceId(acc, s) ==
  IF s \notin DOMAIN acc.section THEN RegisterToSection(FindSection(acc, s), s)
  ELSE IF acc.section[s] \in Kind[s].forbidden THEN FindSection(acc, s) ELSE acc

OnAvailableSurfacesChanged(available) ==
  LET acc == FoldLeft(RegisterSurfaceId,
                      [ids |-> ids, section |-> section, hidden |-> hidden, calls |-> calls],
                      SetToSeq(available))
  IN /\ ids' = acc.ids
     /\ hidden' = acc.hidden
     /\ calls' = acc.calls
     /\ asked' = asked \cup (hidden' \ hidden)
     /\ UNCHANGED <<collapsed, actionsAlwaysVisible, staged>>
     /\ UpdateVisualIndexes(Restrict(acc.section, available))
     /\ SaveDataToDConfig

SurfaceCreated(s) ==
  /\ Room
  /\ s \notin Registered
  /\ OnAvailableSurfacesChanged(Registered \cup {s})
  /\ UNCHANGED drag

\* A surface that is being dragged stays.
SurfaceDestroyed(s) ==
  /\ Room
  /\ s \in Registered /\ s # drag.id
  /\ OnAvailableSurfacesChanged(Registered \ {s})
  /\ UNCHANGED drag

-----------------------------------------------------------------------------
(* Drops.                                                                    *)

Prepended(lists, x, y, s) == [TakenFrom(lists, x, s) EXCEPT ![y] = <<s>> \o @]
Appended(lists, x, y, s) == [TakenFrom(lists, x, s) EXCEPT ![y] = Append(@, s)]
IndexIn(list, s) == CHOOSE i \in DOMAIN list : list[i] = s

\* A move within a list goes to the place of the target, or the one before.
MovedWithin(list, s, on, before) ==
  LET place == IndexIn(list, on)
      to == IF before /\ place > 1 THEN place - 1 ELSE place
  IN InsertAt(Without(list, s), to, s)

\* Mutant of MovedInto: it always goes behind.
MovedIntoBehind(list, s, on, before) == InsertAt(list, IndexIn(list, on) + 1, s)

\* From another list it goes before or behind the target.
MovedInto(list, s, on, before) ==
  InsertAt(list, IF before THEN IndexIn(list, on) ELSE IndexIn(list, on) + 1, s)

\* What dropToDockTray makes of the lists when s is dropped on an item.
Dropped(s, on, before) ==
  LET x == section[s]
      To(y, lists) == IF y \in Kind[s].forbidden THEN ids ELSE lists
  IN CASE on = "show-stash" -> IF x = "stashed" THEN ids ELSE Appended(ids, x, "stashed", s)
       [] on = "toggle-collapse" ->
            IF before THEN To("collapsable", Appended(ids, x, "collapsable", s))
            ELSE To("pinned", Prepended(ids, x, "pinned", s))
       [] on = "quick-settings" -> To("pinned", Appended(ids, x, "pinned", s))
       [] on = s -> ids
       [] OTHER ->
            LET y == section[on]
            IN To(y, IF x = y THEN [ids EXCEPT ![x] = MovedWithin(@, s, on, before)]
                     ELSE [ids EXCEPT ![x] = Without(@, s), ![y] = MovedInto(@, s, on, before)])

\* dropToDockTray: the item at an index of the dock is looked up when it runs.
\* It shows the dropped surface also where it then refuses the place.
DropToDockTray(s, dock, index, before) ==
  IF index < Len(dock) /\ dock[index + 1] # "gap"
  THEN /\ ids' = Dropped(s, dock[index + 1], before)
       /\ hidden' = hidden \ {s}
       /\ IF s \in hidden THEN HandlePluginVisibleChanged(s, TRUE)
          ELSE UNCHANGED <<calls, asked>>
       /\ UpdateVisualIndexes(section)
       /\ SaveDataToDConfig
  ELSE /\ UNCHANGED <<ids, hidden, configVars>>
       /\ UpdateVisualIndexes(section)

-----------------------------------------------------------------------------
(* What TrayContainer and StashContainer do while something is dragged.      *)

Dragged == drag.id # NoSurface
InDock(s) == Contains(visual.dock, s)

\* The tray lets nothing be dropped on what is fixed, unless it mistakes it for
\* the item with that index in the stash, and only applications on the button
\* of the stash.
Open(i) ==
  /\ visual.dock[i] # "quick-settings"
  /\ (visual.dock[i] \in Registered /\ section[visual.dock[i]] = "fixed")
       => i <= Len(visual.stash)
OnStash(i) == i = 1 /\ InDock("show-stash")

DragStart(s) ==
  /\ ~Dragged
  /\ InDock(s) \/ Contains(visual.stash, s)
  /\ section[s] # "fixed"
  /\ drag' = [NoDrag EXCEPT !.id = s, !.stash = section[s] = "stashed"]
  /\ actionsAlwaysVisible' = (actionsAlwaysVisible \/ Kind[s].app)
  /\ UNCHANGED <<ids, hidden, collapsed, staged, configVars>>
  /\ UpdateVisualIndexes(section)

\* From the quick panel.
QuickDragStart(s) ==
  /\ ~Dragged
  /\ Kind[s].quick
  /\ drag' = [NoDrag EXCEPT !.id = s, !.quick = TRUE]
  /\ UNCHANGED <<modelVars, configVars>>

\* What the tray shows already it does not take from the quick panel.
DragEntered ==
  /\ Dragged /\ ~drag.over
  /\ drag' = [drag EXCEPT !.over = drag.quick => drag.id \in hidden]
  /\ actionsAlwaysVisible' = TRUE
  /\ UNCHANGED <<ids, hidden, collapsed, staged, configVars>>
  /\ UpdateVisualIndexes(section)

\* Over the tray: a place is reserved for what comes from the stash, and after
\* 50 ms anything else is moved to the index the pointer was at.
PositionChanged(i, before) ==
  /\ drag.over /\ Open(i) /\ ~OnStash(i)
  /\ IF drag.stash
     THEN /\ staged' = [id |-> drag.id, index |-> i - 1]
          /\ UNCHANGED <<ids, hidden, collapsed, actionsAlwaysVisible, drag>>
          /\ UpdateVisualIndexes(section)
     ELSE /\ drag' = [drag EXCEPT !.hover = [index |-> i - 1, before |-> before, pending |-> TRUE]]
          /\ UNCHANGED modelVars
  /\ UNCHANGED configVars

HoverTimeout ==
  /\ Room
  /\ drag.hover.pending
  /\ drag' = [drag EXCEPT !.hover = NoHover]
  /\ IF drag.over
     THEN /\ UNCHANGED <<collapsed, actionsAlwaysVisible, staged>>
          /\ DropToDockTray(drag.id, visual.dock, drag.hover.index, drag.hover.before)
     ELSE UNCHANGED <<modelVars, configVars>>

\* onDropped, with commitStagedDrop: the reserved place is given up, and the
\* surface goes before what is then at its index.
DropInDock(i, before) ==
  /\ Room
  /\ drag.over /\ Open(i) /\ (OnStash(i) => Kind[drag.id].app)
  /\ drag' = NoDrag
  /\ actionsAlwaysVisible' = FALSE
  /\ staged' = NoStage
  /\ UNCHANGED collapsed
  /\ IF ~drag.stash THEN DropToDockTray(drag.id, visual.dock, i - 1, before)
     ELSE IF staged = NoStage
     THEN UNCHANGED <<ids, hidden, configVars>> /\ UpdateVisualIndexes(section)
     ELSE DropToDockTray(staged.id, Without(visual.dock, "gap"), staged.index, TRUE)

\* dropToStashTray; the stash takes applications only.
DropInStash ==
  /\ Room
  /\ Dragged /\ ~drag.over /\ Kind[drag.id].app
  /\ ids' = IF section[drag.id] = "stashed" \/ "stashed" \in Kind[drag.id].forbidden THEN ids
            ELSE Appended(ids, section[drag.id], "stashed", drag.id)
  /\ drag' = NoDrag
  /\ actionsAlwaysVisible' = FALSE
  /\ UNCHANGED <<hidden, collapsed, staged, calls, asked>>
  /\ UpdateVisualIndexes(section)
  /\ IF "stashed" \in Kind[drag.id].forbidden THEN UNCHANGED <<config, news, lost, inSettings>>
     ELSE SaveDataToDConfig

\* Mutant of DragExited: the place stays reserved.
DragExitedStaged ==
  /\ Room
  /\ drag.over
  /\ drag' = [drag EXCEPT !.over = FALSE]
  /\ actionsAlwaysVisible' = FALSE
  /\ UNCHANGED <<ids, hidden, collapsed, staged, configVars>>
  /\ UpdateVisualIndexes(section)

\* clearStagedDrop; what came from the quick panel is hidden again, and that is
\* not saved (setSurfaceVisible).
DragExited ==
  /\ Room
  /\ drag.over
  /\ drag' = [drag EXCEPT !.over = FALSE, !.hover = IF drag.quick THEN NoHover ELSE @]
  /\ staged' = NoStage
  /\ actionsAlwaysVisible' = FALSE
  /\ IF drag.quick
     THEN hidden' = hidden \cup {drag.id} /\ HandlePluginVisibleChanged(drag.id, FALSE)
     ELSE UNCHANGED <<hidden, calls, asked>>
  /\ UNCHANGED <<ids, collapsed, config, inSettings, news, lost>>
  /\ UpdateVisualIndexes(section)

\* The drag ends elsewhere.
DragEnd ==
  /\ Dragged /\ ~drag.over
  /\ drag' = NoDrag
  /\ actionsAlwaysVisible' = (actionsAlwaysVisible /\ ~Kind[drag.id].app)
  /\ UNCHANGED <<ids, hidden, collapsed, staged, configVars>>
  /\ UpdateVisualIndexes(section)

ToggleCollapsed ==
  /\ Room
  /\ ~Dragged /\ InDock("toggle-collapse")
  /\ collapsed' = ~collapsed
  /\ UNCHANGED <<ids, hidden, actionsAlwaysVisible, staged, calls, drag, asked>>
  /\ UpdateVisualIndexes(section)
  /\ SaveDataToDConfig

-----------------------------------------------------------------------------
\* The constructor finds the lists that were saved.
Lists(saved) == [x \in Section |-> IF x \in Saved THEN saved.ids[x] ELSE <<>>]

\* The constructors of the model and of TraySettings.  The lists on disk may
\* name surfaces in sections they are forbidden in.
Init ==
  /\ \E place \in [Surface -> Section] :
       LET In(x) == SetToSeq({s \in Surface : place[s] = x})
       IN config = [ids |-> [x \in Saved |-> In(x)], hidden |-> {}, collapsed |-> FALSE]
  /\ ids = Lists(config)
  /\ hidden = {} /\ collapsed = FALSE
  /\ section = << >>
  /\ actionsAlwaysVisible = FALSE
  /\ staged = NoStage
  /\ visual = [dock |-> <<"quick-settings">>, stash |-> <<>>]
  /\ inSettings = {}
  /\ news = [model |-> 0, settings |-> 0]
  /\ calls = <<>>
  /\ drag = NoDrag
  /\ asked = {} /\ lost = {}

Restart ==
  /\ UNCHANGED config
  /\ ids' = Lists(config)
  /\ hidden' = config.hidden /\ collapsed' = config.collapsed
  /\ section' = << >>
  /\ actionsAlwaysVisible' = FALSE
  /\ staged' = NoStage
  /\ visual' = [dock |-> <<"quick-settings">>, stash |-> <<>>]
  /\ inSettings' = config.hidden
  /\ news' = [model |-> 0, settings |-> 0]
  /\ calls' = <<>>
  /\ drag' = NoDrag
  /\ asked' = config.hidden /\ lost' = {}

Next ==
  \/ ModelValueChanged \/ SettingsValueChanged \/ SetItemOnDock
  \/ \E s \in Registered, visible \in BOOLEAN : ControlCenter(s, visible)
  \/ \E s \in Surface : SurfaceCreated(s) \/ SurfaceDestroyed(s)
  \/ \E s \in Registered : DragStart(s) \/ QuickDragStart(s)
  \/ \E i \in DOMAIN visual.dock, before \in BOOLEAN :
       PositionChanged(i, before) \/ DropInDock(i, before)
  \/ DragEntered \/ DragExited \/ HoverTimeout \/ DropInStash \/ DragEnd
  \/ ToggleCollapsed
  \/ Restart

Spec == Init /\ [][Next]_vars

-----------------------------------------------------------------------------
TypeOK ==
  /\ ids \in [Section -> Seq(Surface)]
  /\ section \in UNION {[S -> Section] : S \in SUBSET Surface}
  /\ hidden \subseteq Surface /\ inSettings \subseteq Surface /\ asked \subseteq Surface
  /\ config.ids \in [Saved -> Seq(Surface)] /\ config.hidden \subseteq Surface
  /\ staged.id \in Surface \cup {NoSurface} /\ staged.index \in Nat
  /\ staged.id # NoSurface => staged.id = drag.id /\ drag.over
  /\ drag.id \in Registered \cup {NoSurface}
  /\ Len(calls) <= MaxCalls
  /\ \A who \in DOMAIN news : news[who] <= MaxNews

Times(list, s) == Cardinality({i \in DOMAIN list : list[i] = s})

\* Every surface is in the list its row names and in no other, and in none that
\* it is forbidden in: a surface without a list is not shown before the shell
\* starts again, and one with two would move and come back.
Rooted ==
  \A s \in Registered :
    /\ section[s] \notin Kind[s].forbidden
    /\ \A x \in Section :
         Times(ids[x], s) = IF x = section[s] THEN 1 ELSE 0

\* Whatever is to be seen is seen once, and a gap only while a surface is over
\* the tray that would go there.
Displayed ==
  /\ \A s \in Registered :
       (~Settable(s) \/ s \notin hidden) /\ ~(collapsed /\ section[s] = "collapsable") =>
         Times(visual.dock \o visual.stash, s) = 1
  /\ InDock("gap") => drag.over /\ drag.stash

Placed == Rooted /\ Displayed

Before(list, s, t) == Contains(list, s) /\ Contains(list, t) /\ IndexIn(list, s) < IndexIn(list, t)

\* Only the surface that is dragged changes places, also when surfaces leave and
\* come back, the configuration is read again and the shell is started again.
\* The fixed section is not saved.
OrderKept ==
  [][\A x \in Saved : \A s, t \in Surface \ {drag.id} :
       /\ x \notin Kind[s].forbidden /\ x \notin Kind[t].forbidden
       /\ Before(ids[x], s, t)
       => Before(ids'[x], s, t)]_vars

\* When all calls and news have arrived, both lists of hidden surfaces say what
\* the user asked for last, unless the model wrote its own list over one it had
\* not heard of, or the call came when the surface was gone.
HiddenAsAsked ==
  calls = <<>> /\ news = [model |-> 0, settings |-> 0] =>
    \A s \in Registered \ lost : Settable(s) =>
      (s \in hidden) = (s \in asked) /\ (s \in inSettings) = (s \in asked)

\* A surface that is held over another for 50 ms goes next to it, on the side of
\* the pointer, if it may be there.  Within its list only a move to the back does:
\* one to the front goes one place too far.
DropLands ==
  [][drag.hover.pending /\ drag.over /\ drag'.over /\ ~drag'.hover.pending =>
       \A t \in Registered \ {drag.id} :
         LET x == section[t]
             list == ids'[x]
         IN /\ drag.hover.index < Len(visual.dock) /\ visual.dock[drag.hover.index + 1] = t
            /\ x \notin Kind[drag.id].forbidden
            /\ ~Before(ids[x], t, drag.id)
            => IndexIn(list, t) = IF drag.hover.before THEN IndexIn(list, drag.id) + 1
                                  ELSE IndexIn(list, drag.id) - 1]_vars
=============================================================================
