# A verification project for velora-shell

velora-shell is a desktop shell (C++/Qt, QML): a small plugin framework and the
panels and applets it loads, of which the dock, its tray and the notifications
are the largest. This directory holds TLA+ models of its state machines, the
TLC configurations that check them, and proofs checked by TLAPS.

Run things inside this directory:

    tlc -workers 2 -config Expiry.cfg MCNotificationManager.tla
    tlapm BubblePanel_proofs.tla

## 1. Inventory

**Notification server** (`panels/notification/server`). `NotificationManager`
keeps the bubble counter, the pending expiries (`m_pendingTimeoutEntities`), the
point its one timer was last set for (`m_lastTimeoutPoint`), the timer and the
hovered banner (`m_blockClosedId`). It answers D-Bus calls on a worker thread;
`NotifyServerApplet` forwards the panels' calls to it *directly*, so these run on
the main thread. Nothing is locked but the stores. Hard: two threads in one
object, queued `QTimer::start`, a list of due entities handled after it was taken.
Correct when: every banner with a timeout expires, nothing else does, every
notification the user has not removed is on screen or in the centre, and ids
mean one thing.

**Stores** (`panels/notification/common`). `MemoryAccessor` holds the banners on
screen under negative ids, `DBAccessor` the records of the centre under row ids;
`DataAccessorProxy` routes between them and moves a notification from one to the
other when it is filed, which changes its id. `NotifyEntity` is a handle on shared
data that copies do not detach from. Hard: ids that change under their holders,
a crash that loses memory, check-then-act between separately locked steps.

**Banners** (`panels/notification/bubble`). `BubbleModel` is the list: new bubbles
enter at most one per 300 ms and wait in a queue meanwhile, rows past a limit are
dropped. `BubblePanel` turns state signals into bubbles, user actions into calls
of the server, and rows into visibility. Hard: signals of the worker are queued
while those of direct calls are handled at once, so orders differ.

**Notification centre** (`panels/notification/center`). `NotifyModel` (normal,
overlapped and grouped records, pinned applications first), `NotifyStagingModel`
(banners collected while the centre is open), `NotifyAccessor` between them and
the server. Opening the centre disables the banners and removes old records.
Hard: list positions computed before and after moves, counts read from a store
that has changed.

**Task manager** (`panels/dock/taskmanager`). A tower of proxy models from
windows and desktop files to dock items: `RoleCombineModel` (joins two models),
`RoleGroupModel` (groups rows by a role), `DockGlobalElementModel` (docked and
running elements), `DockGroupModel`, `DockItemModel`. Each keeps row numbers of its
source and shifts them on every signal; some handlers are queued and run when the
source has changed again. Correct when every mapping names the row it stands for.

**Dock** (`panels/dock`). `DockHelper` decides when the dock hides and shows, from
timers, pointer, popups, window overlap and screens. `DockSettings`, `DockDBusProxy`
and the Wayland plugin manager forward properties and surfaces.

**Tray** (`panels/dock/tray`). `TraySortOrderModel` keeps items in sections,
shows those that are neither hidden nor collapsed, moves them on drops (at once,
after 50 ms of hovering, or staged in a gap) and saves its lists to DConfig.
`TraySettings` writes the list of hidden items to the same configuration, on D-Bus
calls that `TrayItem` handles from the event queue. Hard: two writers of one list
that hear of each other late, drops that carry old indices, four lists that must
stay a partition. Correct when every item is in one list it may be in, the order
survives restarts, and what the user hid stays hidden.

**Launcher models** (`applets/dde-apps`). `AppGroupManager` and `ItemsPage`:
folders and pages of applications, saved to DConfig.

**Frame and shell** (`frame`, `shell`). Plugin loading, creation and destruction of
applets and panels, layer shell, popups. Mostly toolkit glue.

`PROJECT.json` lists every component with its status, and every hazard at its line.

## 2. What is modelled

| module | models | state |
| --- | --- | --- |
| `NotificationManager` | the server, the stores, expiry, hover, restart | heap of entities, the two stores and their counters, pending expiries, timer and queued starts, work of each thread |
| `BubbleModel` | the list of banners | rows, queue, two timers, row limit |
| `BubblePanel` | the panel, composed with both | queued signals, visibility, delayed hides |
| `NotifyAccessor` | the stores as the centre reads them | the two stores, pinned applications |
| `NotifyModel` | the records in the centre | rows: single, overlapped, grouped |
| `NotifyStagingModel` | the live notifications in the centre | rows, overlap count |
| `NotificationCenter` | panel and signals, composed with the three | signals under way, visibility |
| `RoleCombineModel` | windows joined with applications | windows, applications, `m_indexMap` |
| `RoleGroupModel` | rows grouped by a role (operators) | |
| `DockGlobalElementModel` | docked and running elements, on `RoleCombineModel` | `m_data`, `m_dockedElements` |
| `TaskManager` | the chain, composed with its queued handlers | groups, current windows, queue |
| `DockHelper` | hide state, wake areas and screen of the dock | settings, pointer, timers, screens, areas |
| `TraySortOrderModel` | the tray's order, drops and hidden items | four lists, rows, configuration, calls and news under way, the drag |
| `Rows` | lists and the rows in them (operators): ranking, picking out, leaving out | |
| `RowFacts` | lemmas on lists of rows: taking out, putting in, least and last, `Rows` | |
| `FoldFacts` | what folding over a list comes to, for any step | |
| `MC...` | contents, symmetry and constraints for TLC | |
| `..._proofs` | theorems, for every value of the constants (section 4) | |

### NotificationManager

`note` is the heap: one entry per notification ever created, in order of creation;
`memory` and `db` are the sets of those that are in each store. Since a
`NotifyEntity` is a shared handle, every other variable that holds an entity in
the code holds an index here, and `setId` and `setProcessedType` update the heap.

One action is one handler, but for the places where another thread may come in:
`Notify` is `NotifyNew` or `NotifyReplace` (up to the state signal), `NotifyEmit` and
`NotifyPush`; `onHandingPendingEntities` is `HandPending` (take what is due, rearm)
followed by one `HandOne` per entity taken, which `todo[t]` records per thread. The
worker starts no new call while it has work left (`WorkerIdle`); neither does the
main thread (`MainIdle`).

Time is relative: `due`, `lastTimeoutPoint` and `timer` hold the time that is left.
`Tick` lowers all of them; nothing makes the timer fire in time, since the code has
no such guarantee. A queued `start(interval)` counts from when it runs.

Settings (do not disturb, lock screen, per-application switches) come down to
`NewTypes`, the types a new notification can be given; whether a closed banner is
filed follows the hint, and without one it may go either way.

Modelled as one step although the code has several: a call of `DataAccessorProxy`,
a pass over the hash of pending expiries. Races inside these are listed as hazards
without a property. Left out: launching the action, sounds, signals to D-Bus
clients, the record count, failures of the database, timeouts below -1.
`RemoveNotification` removes rows only: the code would remove a banner of that id first
(dataaccessorproxy.cpp:135-142), but its callers pass ids of records.
`notificationReplaced` and the reason `Timeout` have no callers.

### BubbleModel and BubblePanel

`BubbleModel` is usable alone (bubbles as model values, any of which may arrive) and
through `BubblePanel`, where a bubble is the index of its entity. `BubblePanel`
takes each step of the server, adds what the panel does within the same event
(`MainStep`, `Close`, `InvokeAction`) or queues the signal (`WorkerStep`), and delivers
queued signals one by one (`Deliver`). `addBubble` looks the entity up again when it
runs. `BubbleModel::clear` has no caller, and `clearInvalidBubbles` is reached only by
a signal with id 0, which no step sends; both are left out. So are, from the
composition only, changes of the row limit (`UpdateBubbleCount` is a step of `BubbleModel`
alone; the instances of the panel have either limit from the start), the time texts, and
what the centre does to notifications meanwhile.

### Notification centre

A notification is its number; the number is also its time, so no two times tie (with
a tie `greaterNotify`, which compares with >=, is no strict order). `memory` and `db`
are the stores, which the server changes on its own thread (`Notify`, `Replace`,
`Expire`, `Withdraw`); signals of it wait in `queue` until `Deliver`. `Show` and `Hide`
are the panel; `Fold`, `Unfold`, `DropApp`, `RemoveNotify`, `ClearAll`, `FoldAll`,
`PinApplication`, `CloseNotify` and `InvokeNotify` are what the user does, each with the
rows of `NotifyModel` or `NotifyStagingModel` changed as in the code, position by
position. Whether a notification is kept as a record follows hints and settings that may
change at any time: `Expire`, `Replace` and `CloseNotify` take it from an argument, and a
closing of a record that is kept no more removes it and announces it all the same.
Left out: `expandAllApp`, replacement in place (notificationmanager.cpp:417, where the client
wants no record; `NotificationManager` has it), time texts.

Four history variables mark where the code itself loses step, and the properties
are stated up to them:

* `untold`: the record or live notification came or went without a signal the lists heed.
  A replacement files its predecessor silently (notificationmanager.cpp:415-424); the
  `Removed` signal of `CloseNotification` is dropped (notifyaccessor.cpp:230-240); acting on
  a row of the staging list whose notification was filed meanwhile removes the record.
* `relisted`: a record announced by a queued signal had been read from the store
  before, when the centre opened. It is listed twice, or as the only record of an
  overlap, where removing it fails the assertion at notifymodel.cpp:484 (`aborted`).

  An application in either case is `Misled`, from then on (`untold`) or until the lists are
  read again (`relisted`). Both lead to that assertion: of an overlap of {m, k}, m filed in
  silence and then acted on from the staging list, k is the last record. So
  `AbortsOnlyMisled` says which rows can fail it, not which of the two causes it was.
* `restaged`: a live notification that was announced when it was listed already, since
  `open` or `remove` had read it from the store. `push` lists it a second time; a
  successor is left where it is, since `replace` compares an item's id with the
  entity's *bubble* id (notifystagingmodel.cpp:253) and does not find its predecessor.
* `astray`: a live notification that `remove` put among rows of which more than one is
  older. It takes the oldest of those that are newer than some row and puts it before
  the *last* such row (:117-145), which is in order only where one row is older. With
  three rows and two behind them, as in the code, three removals from the top suffice:
  of 1..6 it lists 6 5 4, then 5 4 1, then 4 2 1, then 2 3 1.

### Task manager

`RoleCombineModel` names rows as the code numbers them (from 1); `windows`, `apps` and
`m_indexMap` change with each signal of a source. `DockGlobalElementModel` gives each
queued handler as an operator on `m_data` that returns the new list and the row signals
it emits; `TaskManager` applies them, lets `RoleGroupModel` follow each signal at once,
and posts what `DockGroupModel` queues for itself. `queue` is the event queue of the
one thread; windows and applications go on changing while it is not empty.
`SetWindowSplit`, `ToggleDocked`, `SaveDockElementsOrder` and `MoveItem` are the user's. All
that changes `dockedElements`, a value from DConfig too, goes through `SetDockedElements`,
and `InitDockedElements` loads them once more when `appModelReadyChanged` comes again.

`Treeland` says which backend the windows are of: the identity of a Treeland window is its
application id alone (treelandwindow.cpp:135), so that joined it may be a desktop id, and
that of an X11 window is a list with the process id. Run `windows` has the one,
`active_window` the other; the theorems are for both.

History variables: `overtaken` (a row was taken while calls that read rows of its model
were queued; dockglobalelementmodel.cpp:66 then reads another row), `misgrouped` (the
groups were built from a list with a removal under way), `late` (a docked application
that was installed later has no icon before the settings are read,
dockglobalelementmodel.cpp:282; one that was uninstalled and came back has none
unless they were also read while it was gone, as the reading finds nothing new). Once one of them is set, the properties that depend on
it promise less. Left out: activation, menus, the X11 and treeland monitors behind
the windows, rows that are moved or reset, an empty application id
(dockglobalelementmodel.cpp:69).

### DockHelper

One action per event of the dock's windows (`Enter`, `Leave`, `ShowPopup`, `HidePopup`,
`HideDock`), timer (`HideTimeout`, `ShowTimeout`), signal of the compositor
(`OverlapChanged`, `FullscreenChanged`, `MultitaskStateChanged`), wake area (`EnterArea`,
`LeaveArea`, `SwitchScreen`, the single shot 200 ms later), setting and screen. `connected`
is whether `primaryScreenChanged` is heard: the setter of the panel connects it
(`SetShowInPrimary`, dockpanel.cpp:394), a setting that arrives from DConfig does not
(`ConfigShowInPrimary`, docksettings.cpp:210), but both move the dock once. The Wayland backend is modelled; X11 computes the same signals from window positions.
Assumed of what is outside: an area that is entered is left; `HideTimeout` does not run
before a switch that is older (200 ms against 400); a screen that a pending switch
names is not unplugged (the code has no such guard and would use a deleted screen); the
primary screen gives up its role before it goes.

History variables mark four steps after which the code does not do what the settings
ask: `unheld` (the dock is unmapped under the pointer, no Leave event follows), `cut` (a
Leave event stops a show timer that something else started, dockhelper.cpp:107),
`stale` (screens changed and `updateAllDockWakeArea` was not called, dockhelper.cpp:308,
dockpanel.cpp:376), `astray` (a switch that was pending when `showInPrimary` or the
screens changed is carried out all the same, dockhelper.cpp:171, an outdated area was
entered, or the primary screen changed and nothing listened). Each holds until the dock next
does what it should.

### TraySortOrderModel

`ids` are the four lists, `section` the rows that exist with their `SectionTypeRole`;
`visual` is what `updateVisualIndexes` shows, in order, `gap` being the place
`reserveStagedDropSpace` leaves. Every action that calls `updateVisualIndexes` in the code
ends in `UpdateVisualIndexes`, and every one that saves in `SaveDataToDConfig`. `Kind[s]` is
what `rebuildSurfacesData` (tray.qml) tells of a surface. The drag handlers of
TrayContainer.qml, StashContainer.qml and the delegates are actions: `DragStart`,
`QuickDragStart`, `DragEntered`, `PositionChanged`, `HoverTimeout`, `DropInDock`,
`DropInStash`, `DragExited`, `DragEnd`.

`config` is DConfig, shared by the model and `TraySettings`; `news` counts the
`valueChanged` signals under way to each (`MaxNews` of them are told apart), `calls` are
the queued `TrayItem::setItemOnDock`. `asked` records what the user asked for last, `lost`
the surfaces for which that was undone:

* `saveDataToDConfig` writes `hiddenSurfaceIds` as the model knows it, over a change by
  `TraySettings` it has not heard of (traysortordermodel.cpp:554);
* `setItemOnDock` drops a call for an item that has gone (trayitem.cpp:128).

Other things the translation shows and no property promises: a move to the front
*within* a list goes one place too far (the index is taken before the item is removed,
:195-203; `DropLands` excludes it); an item in the stash cannot be hidden, since :403
tests one flag against itself; an item that comes from the quick panel and is
displayed already leaves `actionsAlwaysVisible` set (TrayContainer.qml:156).
Left out: `dockHiddenIds` (`setDockVisible` has no caller), the placeholder of the
stash, sizes and positions, plugins that answer `setItemOnDock` as applets, ids that are not
of the form plugin::item, which hide nothing (traysortordermodel.cpp:584), and items without
a surface, which drop the call (trayitem.cpp:79). What a surface tells of itself does not
change, so a registered one never becomes forbidden where it is
(traysortordermodel.cpp:528).

## 3. What is checked

| run | question | bounds |
| --- | --- | --- |
| `expiry` | do timer, ids and stores stay in step? | 3 notifications, timeouts 1 and 2, both ways to replace, 1 restart |
| `eventually` | does a banner with a timeout go, is every record kept? | 2 notifications of every kind, 1 restart, fairness below |
| `bubbles` | does the queue drain, one at a time, within the limit? | 4 bubbles, limits 2 and 3 |
| `banners` | do queued and direct signals agree with the screen? | 2 notifications, 3 that stay, or 4 that stay and ask for the centre; limits 2 and 3 |
| `center` | do both lists of the centre stay in order and in step with the stores? | 4 notifications of 2 applications, 2 signals under way |
| `windows` | does the dock end up with the entries it should have? | 2 windows, 2 applications, 1 unknown identity, 5 steps, 3 queued calls |
| `dock` | is a wanted hide or show always on its way? | 2 screens, 1 popup, 1 pending switch |
| `tray` | do the sections stay a partition, is what was asked for kept? | 3 surfaces of different kinds, 2 calls under way |
| `never_expires` | finding | 3 notifications |
| `transfer_id` | finding | 2 notifications |
| `invalid_banner` | finding | 2 notifications |
| `active_window` | finding | as `windows` |

The properties, in words, are above their definitions. The ones that matter most:

* `TimerArmed`: an expiry no hovered banner holds back has a running timer or a
  queued start behind it. `BannersExpire` is its liveness counterpart.
* `BannersAreScheduled`: a banner with a timeout is pending, in the hands of a
  thread, or about to be pushed, unless other replacements of its bubble exist.
* `UniqueIds`, `OneBannerPerBubble`, `ExpiryHitsItsOwn`: what is asked for by id is
  what is meant.
* `KeptInCenter`: a banner whose client asked for a record leaves memory only with
  one, or because it was removed or replaced under its id.
* `NoBannerLost`, `VisibleTracksRows`: the panel shows every live banner and is
  seen exactly while it has rows and the centre is closed.
* `Arranged`, `RowsLive`, `RecordsListed`, `OverlapsCounted`: no insertion, move or removal
  tears a group of the centre apart or puts it above a pinned one; what is listed has
  a record, what has a record is listed, and overlaps tell the right number.
* `StagingLive`, `StagingOrdered`: a row among the live notifications is live or about to
  go; the rows are in the order of time but for what was announced late or went astray,
  and none is free while a live notification that was announced is left out.
* `BindingsFollow`, `BindingsKept`: `m_indexMap` names the application of each window
  through shifts of both models, and no window that stays changes its application.
* `EntriesFit`, `WindowsTogether`, `GroupsPartition`: after the queued handlers ran, every
  window has one entry, every icon starts its own application, entries of one
  application are together, and the groups list each entry once.
* `HideIsComing`, `ShowIsComing`: a dock that should hide or show and has not has a
  running timer. `AreasFit`, `OnPrimary`: it can be woken where it may show.
* `Placed`: a tray item is in one list, which it may be in, and is seen once.
  `OrderKept`: nothing but a drag reorders a saved list, not a reload, not a restart.
  `HiddenAsAsked`: when all is quiet, both writers agree with the user. `DropLands`: a
  hovered item goes next to the one under the pointer, also 50 ms later.

**Bounds.** Two threads interact over one banner, its predecessor and one bystander:
three notifications give a replaced pair and a stranger, or a chain of two
replacements. Two timeouts give a timer that is early enough and one that is not.
`MaxStarts` = 1 lets one start call wait while the user acts; the worker itself may
queue more. Three bubbles are one more than the smallest row limit, and the fourth
waits behind another. The panel needs four notifications: a replacement takes over the
row of the *first* banner of its bubble, wherever that is, so that it takes a
replacement, its predecessor and two strangers to push a young banner off with an old
row. The centre has two applications, so that one can be pinned
above, or inserted into, the other; the fourth notification makes an overlap of
three, and `BubbleMaxCount` 2 and `OverlayMaxCount` 0 (3 and 2 in the code) make a list
that is full with two, and leave one to refill it. With two rows nothing goes astray;
the proof covers the lists where something can. Two windows are a group and its loss; two applications shift
each other. Three tray items are one that can be hidden, one that may be stashed and
one that is forbidden there, and make a list with a neighbour on both sides.
`MaxNotify`, `MaxDelay`, `MaxStarts`, `MaxRestarts`, `MaxQueued`, `MaxSteps`,
`MaxSwitches` and `MaxCalls` are bounds of the instances only; the proofs are for all values.

**Views, symmetry and constraints.** Applications, windows and screens are alike where a
run says so, and only invariants and action properties are checked there.
`Few` (`center`) leaves crossing signals to two notifications, more than one silent closing
and more than one application read too early as well, and the fourth notification to
those that have become records or are all live and of one application. `Apart` (`tray`) leaves calls and news under way, and
drags from the quick panel, to two surfaces, and stops after a wish was lost.
`Few` (`windows`) follows the last of the five steps only while fewer than three calls are
queued; the four before it may leave the queue full.
`Unheard` leaves out `signal`, the state signal of the last step, which no
action and no property of those runs reads.

**Fairness.** `FairSpec` assumes that time passes, that posted start calls and
timeouts are delivered, and that calls in progress finish: what the two Qt event
loops guarantee. No user and no client is obliged to act. `BubbleModel!FairSpec`
assumes that its timer, while running, fires.

**Findings.** Four runs show the code contradicting what its comments say:

1. `NonZeroTimeoutExpires`. Acting on the *record* of a replaced banner (say, from
   the centre) calls `removePendingEntity`, which matches the bubble id and erases the
   expiry of the banner that replaced it. That banner stays until someone closes it.
2. `ExpiryHitsItsOwn` with a silenced file transfer. `DataAccessorProxy::addEntity`
   returns -1 when neither store takes the entity; -1 is also the first memory id, and
   the expiry of the transfer closes the first banner.
3. `NoInvalidBanner`. A notification closed while its bubble waits in
   `m_pendingBubbles` is shown afterwards: `removeById` looks through the rows only.
4. `TrackingRemoved`. When the last window of a group closes, the queued handler counts
   the windows of a row that is not there, gets the number of *groups* instead, and
   keeps the group's current window, which the next group in that row inherits.

## 4. What is proved

Every theorem holds for all values of the constants, under the assumptions the modules
name; none bounds the number of notifications, bubbles, screens, windows or applications.

`BubblePanel_proofs`, first about the server alone, from three assumptions
(contents are of their type and some exist, new notifications get one of two types,
delays are positive and the grace period is one of them):

* `TypeCorrect`: `Spec => []TypeOK`. The invariant is `TypeInv`, which adds that only
  notifications that exist are pending. The work is in `HandPendingFacts` and
  `RemovePendingFacts`, which say once what rearming does, and in `LeastOfNonempty`:
  the interval a start call gets is the least of a set of naturals and so is in
  range. It is proved by well-foundedness of finite intervals under inclusion.
* `IdsAreUnique` and `BannersAreSingle`, from `StoresCorrect`: `UniqueIds` is not
  inductive alone. `StoreInv` adds that the stores are disjoint, memory ids lie in
  -`memoryIds`..-1, row ids in 1..`rowIds`, and bubble ids in 1..`replacesCount`. Each
  step is first reduced to what it does to the stores (`StoreStep`).
* `TimerStaysArmed`: `TimerArmed` is not inductive alone either, because
  `pushPendingEntity` trusts `m_lastTimeoutPoint`; `Armed` adds that a point that is set
  has a timer or a start behind it. The delicate case is a notification that
  changes its id, away from the hovered one, while its expiry is pending:
  `removePendingEntity` finds nothing to erase only when it was not pending.
* `ExpiryStaysOwn` assumes `~TransfersSilenced`: no file transfer is kept from the screen
  and from the centre by the settings. Without the assumption it is false, and run
  `transfer_id` shows how: such a transfer gets the id -1, which is a banner's.
  `ExpiryHitsItsOwn` is inductive with `ScheduledIds`: whatever is scheduled, in the
  pending expiries, in a thread's list or in a call, has an id that was given out
  since the start, so that one given out later is not taken for it.
* `BannersStayScheduled`: `BannersAreScheduled` is kept by each step from the types, the
  stores and uniqueness of ids alone. Its exception (another replacement of the bubble) is
  the finding of run `never_expires`, not a device of the proof.
* `CenterKeepsBanners`: the action property `KeptInCenter`, from the same invariants.

`BubbleModel_proofs`, for every set of bubbles and every range of limits:

* `TypeCorrect`, `PendingKeepsTimer`, `PlacesAreSingle`, `RowsStayWithin`. The four are
  inductive together: the rows never exceed the largest limit because an insertion
  drops a row when they are at the present one, and a bubble is in one place because the
  head of the queue leaves it in the step that inserts it. The work is in what taking
  out and putting on top do to a sequence.

Then, in the same module, about the panel composed with the server:

* `PanelKeepsServer`: `PanelSpec => Spec`, every step of the composition is a step of the
  server or leaves it alone, so that all theorems above hold of the composition.
* `PanelTypesCorrect` and `PanelTracksRows`. `PanelInv` adds to the types that every bubble
  is of a notification that exists (`HeapInv`), since `addBubble` looks entities up.
* `BannersAreNotLost` (with `~TransfersSilenced`): `NoBannerLost` is about one banner, but
  why it stays true is about all that is above it and all that is still to come.
  `LostInv` adds that ids are given out downwards (`IdInv`), that a queued signal of a
  closing names no banner (`QueueInv`), and `BehindInv`: one can number the places of the
  signal queue with the announcements that follow, such that everything that waits or is
  shown is of a bubble after whose first notification at least that many were created as
  are ahead of it, waiting or announced. The last row that an insertion drops then
  has `m_maxKeep` newer ones before it. Proving it corrected the property: as it was stated
  first (*newer than the banner itself*) it held with three notifications and failed with
  four, since a successor takes over the old row of its predecessor.

`TaskManager_proofs`, for every set of windows and applications, either backend, any number
of steps and whatever is queued. Assumed is `IdsDiffer`: identities of applications, of
windows that have none and the empty one differ, and what dockcombinemodel.cpp:51-54 joins
for a window without application is not empty. It may be a desktop id, as it is on
Treeland after an application went from under its window.

* `BindingsAlwaysFollow` and `WindowsKeepApplications`: `BindingsFollow` and the action
  property `BindingsKept`. No queued handler touches `m_indexMap` (`OtherStepsKeep`), so
  it takes the six steps of the two sources, with one lemma each for what the handler in
  the step does to the map (`OpenMap`, `CloseMap`, `ChangeMap`, `InstallMap`,
  `UninstallMap`). `ModelsInv` adds that no window and no application has two rows: else the
  row that a lookup finds need not be the one that moved.
* `TypeCorrect` and `WindowsStayTogether`: `TypeOK` and `WindowsTogether`, from `DockInv`. Its
  part `ListInv` says of the list that entries of one identity stand together, of the groups
  that they hold rows of the list, each once, and are empty in a split dock, and of each
  queued call what it carries. There is a lemma for each handler, about any list it may
  find (`Edit` collects what they have in common), and one for what the row signals of a
  handler do to the groups (`FollowedOne`), since `RoleGroupModel` follows them one by one.
* `EntriesAlwaysFit`: `EntriesFit` says nothing while anything is queued, so the invariant has to
  say what the queue will make of the list. `EntryInv` does it with a ghost sequence:
  one can give each queued call a view of the rows of both models (`Views`), such that
  each call leads from its view to the next and the last view is what the models are
  now; and unless a row was overtaken, the list is exactly that of the *first* view, and
  no queued call takes an application that is docked (`ListFits`). A step of a source adds a
  view at the end, a handler takes the first one off. The start-up call is always the
  first (`LoadFirst`), and nothing is listed before it.
* `GroupsAlwaysPartition`: `GroupsPartition`, from `GroupInv`: every entry has a group, unless the
  groups were built from a list with a removal under way (`misgrouped`).
* Folds are reasoned about with `FoldFacts`. The provers cannot instantiate an operator
  parameter of a theorem, but they can a constant of a module: each fold of the model has
  an instance, whose `Step` is that of the fold and whose `Holds` is what it keeps. That every
  set of numbers has a least one is a premise, so that an instance brings in nothing else.

`NotificationCenter_proofs`, first about the live notifications of the centre, for every number of
rows, notifications and signals under way (there is at least one row):

* `StagingIsLive` and `StagingIsOrdered`: `StagingLive` and `StagingOrdered`, from `StagingInv`.
  Its types are `StagingTypes`, a part of `TypeOK`. `QueueInv` says of the signals what makes
  `push` right: those of new notifications are under way in the order of creation, whoever
  was announced is older than those still to come, and a signal of a closing names nothing
  that is live. `ListInv` says of the rows what the properties do, and that a notification
  is listed once unless it is in `restaged`: else `remove`, which takes out the first row
  with its id, would leave another.
* The steps come down to four: nothing happens to the list (`ListKept`), `push`
  (`PushKeeps`), `remove` (`RemovalKeeps`) and `open` (`ShowKeeps`). Of `remove`, `RefilledFacts`
  says where the new row goes, and `FetchedIsAll` why none is left out although only the
  oldest few are fetched: a list with room that has all that is fetched has all there is,
  since the oldest one missing would have fewer before it than the fetch returns.
* It corrected the properties, which held with two rows and no third notification to
  refill them and failed with more: a refill can list a notification before its own
  signal comes, and can break the order (`astray`).

Then about the records of the centre, for every number of applications,
notifications and signals under way:

* `ListStaysArranged` (`Arranged`), `RowsStayLive` (`RowsLive`), `RecordsStayListed`
  (`RecordsListed`), `OverlapsStayCounted` (`OverlapsCounted`), `AssertionFailsMisled`
  (`AbortsOnlyMisled`) and `CenterTypesCorrect` (`TypeOK`), from `CenterInv`, which joins
  `StagingInv` above, `RowsInv` and `BoundsInv`. None is inductive alone: where a record is
  inserted depends on the entity that places each group (`Fits`) and on the pins, and whether
  an overlap counts right depends on which signals are still under way (`Told`).
* `RowsInv` says of the list that it is made of blocks (`Whole`: one row, or a header and two
  records or more), with the pinned applications on top, no record twice but for `relisted`
  (`Singly`), and every row of a notification of its application; and of each application
  that has not been `Misled` that its rows `Covers` its records: each row has a record, an
  overlap stands for two or more and tells their number when all were announced, and each
  record that was announced is listed. `SilentInv` adds that a signal without a row names
  nothing in the stores.
* `Changed` is what each operation of the list comes to: the list keeps its shape and the
  other applications their rows. There is a lemma for each (`ReceivedFacts`,
  `ExpandAppFacts`, `CollapseAppFacts`, `RemoveByAppFacts`, `RemoveRecordFacts`,
  `SortedKeeps`, `OpenedFacts`), from lemmas on taking a block out (`TakeOut`), putting
  one in (`PutIn`), where `lastNotifyIndex` leaves a gap (`LastNotifyGap`) and what ranking
  by an order returns (`RankedFacts`). The steps then are of four kinds: the rows stay
  (`RowsStay`), those of one application change (`RowsTurn`), the list is read anew
  (`RowsRead`) or is emptied (`RowsEmpty`).
* Why the assertion of `remove` holds: an overlap of an application that is not `Misled`
  stands for two records, so one is left when the first goes (`AbortMisled`).
  `AbortsOnlyMisled` is therefore about each row and its own application.

`DockHelper_proofs`, for every set of popups and screens and every number of switches:

* `TypeCorrect`, `HideStaysComing`, `ShowStaysComing`, `AreasStayFit`, `StaysOnPrimary`. Two
  strengthenings: `SwitchBacked` (while a switch of screen is pending and the pointer has
  left the areas, the hide timer runs or something holds the dock, so that the dock will
  hide where it goes) and `PrimaryKept` (a dock kept to the primary screen has no switch
  pending, unless `astray`).

`TraySortOrderModel_proofs`, for every set of surfaces and every bound on calls and news
under way. Assumed of the constants is what `rebuildSurfacesData` says of a surface
(`KindAssumption`), that surfaces are finitely many and none is called like a button. The
theorems have one hypothesis more, `AppsStashed`: an application may be in the stash. That
is so unless it asks for a custom size or is forced onto the dock (tray.qml:141-149); such
a one would be put there all the same when dropped on the button of the stash, as
`dropToDockTray` does not ask for the forbidden sections there (traysortordermodel.cpp:127),
and `Placed` would be false of it. The tray run satisfies the hypothesis.

* `TrayInvHolds`, from which the others follow: `TrayInv` is `ModelInv`, `ConfigInv` and
  `DragInv`, and there is a lemma for each action.
* `TypeCorrect` (`TypeOK`) and `SurfacesStayPlaced` (`Placed`). `Placed` only speaks of
  surfaces that have rows. `ModelInv` adds that *every* surface is in one list at most
  (`Single`), since one that went may come back, and `Pictured`, which says of what is
  shown that each item to be seen is there once and the button of the stash, while it is
  always shown, comes first. `ConfigInv` adds that the saved lists are those of the model,
  since any news of the configuration reads them again. `DragInv` says what the
  containers make of the stage: it is empty, or holds what is dragged over the tray, and
  never at the place of the button of the stash, where `reserveStagedDropSpace` leaves no
  gap and `dropToDockTray` would stash what is dropped.
* The work is in what a drop does to two lists (`DropKeeps`, with one lemma for each way to
  take a surface out and put it in again), in `RegisterFolds` (`onAvailableSurfacesChanged`
  registers all surfaces in turn, an instance of `FoldFacts`: registering those that have a
  row changes nothing), and in how often a picked-out list names something (`Times`).
* `HiddenStaysAsAsked` (`HiddenAsAsked`), from `ConfigInv`. The property is silent while
  anything is under way, so the invariant has to say what the calls and news will make of it.
  `Fits` does, of each surface: the last call under way says what was asked for, and without
  one the configuration does; if `TraySettings` differs from the configuration, a call says
  what the configuration does; and if the model differs from it, having heard all news, a
  call says what the model does. Calls are taken off the front of the queue, so the last
  clause also says in which order these two come.

* `OrderStaysKept` (`OrderKept`). Where a list names two things once at most, `Before` is
  `Ahead` (a place of the one is before a place of the other), which needs no `CHOOSE` and
  which leaving out, putting in and adding at the ends keep (`WithoutKeepsOrder`,
  `InsertKeepsOrder`, `EndsKeepOrder`). So every drop lets all others keep their order in all
  lists (`OthersKeep`), registering takes out of a list only what it may not have, and what
  a reload or a restart reads back is what `ConfigInv` says was saved.
* `HeldDropsLand` (`DropLands`). `OnlyTimeout`: no other step ends the wait of a surface that
  stays over the tray. `OntoLands`: the index that `dropToDockTray` takes from the old list
  is right in the list it inserts into, since a list without a row has the rows behind it
  one place further in front (`WithoutPulls`). It is not when the surface comes from
  behind the target, the case that `DropLands` leaves out.

Model-checked only: liveness (`BannersExpire`, `PendingEnters`), which is out of the reach of
the installed provers. Every other property of a passing run is proved.

## 5. What is left

1. That `BubblePanel` takes only steps of `BubbleModel` is not planned, as it does not: an
   entity may be pushed twice, and `close` may take two rows within one event. Its theorems
   are proved of it directly.
2. `AppGroupManager` and `ItemsPage`: folders and pages of the launcher. The calls that
   rearrange them have no caller in this repository, and the ids of folders are not
   settled: `assignGroupId` makes `internal/group/N`, while `parseGroupId` and
   `idIsFolder` expect `internal/folder/N`. A model waits for a caller to fix their use.
3. `EntityHandoff`: the steps of `DataAccessorProxy` one by one, with failures of the
   database; shown to implement the stores of `NotificationManager` where it does.
4. The X11 backend of the dock, which computes overlap from window positions;
   `AppletLoader`.

Not planned: QML views, Wayland and X11 plumbing, painting, D-Bus marshalling, settings
caches, generated DConfig wrappers. Their state is that of libraries, or they
forward one call each.
