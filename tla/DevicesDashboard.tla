-------------------------- MODULE DevicesDashboard --------------------------
(***************************************************************************)
(* The right half of the devices page: the device the operator has picked, *)
(* its facts and its history.  Both are fetched by effects that run some   *)
(* time after the page shows another device, each fetch can be aborted,    *)
(* and the history is put together from pages.                             *)
(*                                                                         *)
(* The events of a device are numbered in the order they happened; a page  *)
(* of the feed is a number of the newest ones before a cursor (ChangeFeed  *)
(* has the feed itself).  An aborted request is gone: its code returns     *)
(* before it sets any state.                                               *)
(*                                                                         *)
(* React runs the effects of a render that an answer of the server caused  *)
(* some time later, those of a click at once and after any that are due.   *)
(***************************************************************************)
EXTENDS Naturals, Sequences, FiniteSets

CONSTANTS
  Devices,
  NoDevice,      \* no device is selected
  DeviceLists,   \* the lists of devices the server may return
  HistoryLimit,  \* HISTORY_PAGE_LIMIT
  MaxEvents,     \* bound on the events of a device
  MaxChanges     \* bound on selections and new lists

ASSUME DashboardAssumption ==
  /\ NoDevice \notin Devices
  /\ \A l \in DeviceLists : l \in Seq(Devices)
  /\ HistoryLimit \in Nat \ {0} /\ MaxEvents \in Nat /\ MaxChanges \in Nat

VARIABLES
  events,         \* core-go: number of events of each device
  listed,         \* devicePage.devices
  selected,       \* selectedId
  loadedFor,      \* the device the effects last ran for
  changes,        \* selections and new lists so far
  facts,          \* the device whose facts are held
  factsStatus,
  factsReqs,      \* devices of the facts requests not aborted
  history,        \* historyEvents: [of, n]
  historyCursor,  \* historyCursor, 0 for null
  historyStatus,
  historyReqs     \* history requests not aborted: [of, before, reset, page]

listVars == <<events, listed, changes>>
factsVars == <<facts, factsStatus, factsReqs>>
historyVars == <<history, historyCursor, historyStatus, historyReqs>>
dashboardVars == <<listVars, selected, loadedFor, factsVars, historyVars>>

Selectable == Devices \cup {NoDevice}
Statuses == {"idle", "loading", "success", "error"}
ListedDevices == {listed[i] : i \in DOMAIN listed}

\* selectedDevice: nothing while the one picked is not in the list.
Chosen == IF selected \in ListedDevices THEN selected ELSE NoDevice

\* The effects have run for the device that is shown.
EffectsRan == loadedFor = Chosen

\* The selection effect.
Kept ==
  IF selected \in ListedDevices THEN selected
  ELSE IF listed = <<>> THEN NoDevice ELSE listed[1]

-----------------------------------------------------------------------------
(* The history endpoint: the newest events before a cursor, and the cursor *)
(* of the next page.                                                       *)

Unanswered == <<>>

NewestEvent(n, before) == IF before = 0 \/ n < before THEN n ELSE before - 1

PageOf(d, before) ==
  LET top == NewestEvent(events[d], before)
      size == IF top < HistoryLimit THEN top ELSE HistoryLimit
  IN [list |-> [i \in 1 .. size |-> [of |-> d, n |-> top - (i - 1)]],
      next |-> IF top > HistoryLimit THEN top - HistoryLimit + 1 ELSE 0]

-----------------------------------------------------------------------------
Event == [of : Devices, n : 1 .. MaxEvents]

DashboardTypeOK ==
  /\ events \in [Devices -> 0 .. MaxEvents]
  /\ listed \in DeviceLists /\ changes \in 0 .. MaxChanges
  /\ selected \in Selectable /\ loadedFor \in Selectable
  /\ facts \in Selectable /\ factsStatus \in Statuses /\ factsReqs \subseteq Devices
  /\ history \in Seq(Event) /\ historyCursor \in 0 .. MaxEvents /\ historyStatus \in Statuses
  /\ \A r \in historyReqs : r.of \in Devices /\ r.before \in 0 .. MaxEvents

DashboardInit ==
  /\ events \in [Devices -> 0 .. MaxEvents]
  /\ listed \in DeviceLists
  /\ selected = (IF listed = <<>> THEN NoDevice ELSE listed[1])
  /\ loadedFor = NoDevice
  /\ changes = 0
  /\ facts = NoDevice /\ factsStatus = "idle" /\ factsReqs = {}
  /\ history = <<>> /\ historyCursor = 0 /\ historyStatus = "idle" /\ historyReqs = {}

\* Discovery, or an edit.
Happens(d) ==
  /\ events[d] < MaxEvents
  /\ events' = [events EXCEPT ![d] = @ + 1]
  /\ UNCHANGED <<listed, changes, selected, loadedFor, factsVars, historyVars>>

\* Another filter or page, or the page is rendered again.  React does not render
\* before the effects of the last render have run.
NewList(l) ==
  /\ EffectsRan /\ changes < MaxChanges /\ l # listed
  /\ listed' = l /\ changes' = changes + 1
  /\ UNCHANGED <<events, selected, loadedFor, factsVars, historyVars>>

-----------------------------------------------------------------------------
(* The effects.                                                            *)

\* An effect that does not abort the request of the device before.
LoadFactsBeside(d) ==
  /\ facts' = NoDevice
  /\ factsStatus' = IF d = NoDevice THEN "idle" ELSE "loading"
  /\ factsReqs' = IF d = NoDevice THEN {} ELSE factsReqs \cup {d}

LoadFacts(d) ==
  /\ facts' = NoDevice
  /\ factsStatus' = IF d = NoDevice THEN "idle" ELSE "loading"
  /\ factsReqs' = IF d = NoDevice THEN {} ELSE {d}

\* loadHistoryPage without the abort.
RequestBeside(d, before, reset) ==
  historyReqs' = historyReqs \cup {[of |-> d, before |-> before, reset |-> reset, page |-> Unanswered]}

\* loadHistoryPage: the request before it is aborted.
Request(d, before, reset) ==
  historyReqs' = {[of |-> d, before |-> before, reset |-> reset, page |-> Unanswered]}

LoadHistory(d) ==
  /\ history' = <<>> /\ historyCursor' = 0
  /\ IF d = NoDevice
     THEN historyStatus' = "idle" /\ historyReqs' = {}
     ELSE historyStatus' = "loading" /\ Request(d, 0, TRUE)

\* The effects of one render.  They see the device of that render, so a device
\* that has left the list is cleared first and its successor loaded by the next.
Effects ==
  /\ Chosen # loadedFor \/ Kept # selected
  /\ selected' = Kept
  /\ loadedFor' = Chosen
  /\ IF Chosen # loadedFor
     THEN LoadFacts(Chosen) /\ LoadHistory(Chosen)
     ELSE UNCHANGED <<factsVars, historyVars>>
  /\ UNCHANGED listVars

\* A click on a row, and the effects of the render it causes.
SelectRow(d) ==
  /\ changes < MaxChanges /\ d \in ListedDevices /\ d # selected
  /\ selected' = d /\ loadedFor' = d /\ changes' = changes + 1
  /\ LoadFacts(d) /\ LoadHistory(d)
  /\ UNCHANGED <<events, listed>>

-----------------------------------------------------------------------------
(* Answers.                                                                *)

FactsArrive(d) ==
  /\ d \in factsReqs
  /\ factsReqs' = factsReqs \ {d}
  /\ facts' = d /\ factsStatus' = "success"
  /\ UNCHANGED <<listVars, selected, loadedFor, historyVars>>

\* The request fails and nothing is said.
FactsLost(d) ==
  /\ d \in factsReqs
  /\ factsReqs' = factsReqs \ {d}
  /\ UNCHANGED <<listVars, selected, loadedFor, facts, factsStatus, historyVars>>

FactsFail(d) ==
  /\ d \in factsReqs
  /\ factsReqs' = factsReqs \ {d}
  /\ facts' = NoDevice /\ factsStatus' = "error"
  /\ UNCHANGED <<listVars, selected, loadedFor, historyVars>>

\* The server reads the events before the answer travels back.
HistoryAnswer(r) ==
  /\ r \in historyReqs /\ r.page = Unanswered
  /\ historyReqs' = (historyReqs \ {r}) \cup {[r EXCEPT !.page = PageOf(r.of, r.before)]}
  /\ UNCHANGED <<listVars, selected, loadedFor, factsVars, history, historyCursor, historyStatus>>

HistoryArrive(r) ==
  /\ r \in historyReqs /\ r.page # Unanswered
  /\ historyReqs' = historyReqs \ {r}
  /\ history' = IF r.reset THEN r.page.list ELSE history \o r.page.list
  /\ historyCursor' = r.page.next
  /\ historyStatus' = "success"
  /\ UNCHANGED <<listVars, selected, loadedFor, factsVars>>

\* What is shown stays, and so does the cursor: the operator may try again.
HistoryFail(r) ==
  /\ r \in historyReqs
  /\ historyReqs' = historyReqs \ {r}
  /\ historyStatus' = "error"
  /\ UNCHANGED <<listVars, selected, loadedFor, factsVars, history, historyCursor>>

\* handleLoadMoreHistory; the abort of effects that are due would undo it.
LoadMoreHistory ==
  /\ EffectsRan /\ Chosen # NoDevice /\ historyCursor # 0 /\ historyStatus # "loading"
  /\ historyStatus' = "loading"
  /\ Request(Chosen, historyCursor, FALSE)
  /\ UNCHANGED <<listVars, selected, loadedFor, factsVars, history, historyCursor>>

FactsRespond == \E d \in Devices : FactsArrive(d) \/ FactsFail(d)
HistoryRespond == \E r \in historyReqs : HistoryAnswer(r) \/ HistoryArrive(r) \/ HistoryFail(r)

DashboardOperator ==
  \/ \E d \in Devices : SelectRow(d)
  \/ \E l \in DeviceLists : NewList(l)
  \/ LoadMoreHistory

\* The operator may leave the page as it is.
DashboardIdle == loadedFor = Chosen /\ factsReqs = {} /\ historyReqs = {} /\ UNCHANGED dashboardVars

DashboardNext ==
  \/ \E d \in Devices : Happens(d)
  \/ DashboardOperator \/ Effects \/ FactsRespond \/ HistoryRespond \/ DashboardIdle

\* React runs its effects and every request is answered or fails.
DashboardFairness ==
  /\ WF_dashboardVars(Effects)
  /\ WF_dashboardVars(FactsRespond)
  /\ WF_dashboardVars(HistoryRespond)

DashboardSpec == DashboardInit /\ [][DashboardNext]_dashboardVars

DashboardFairSpec == DashboardSpec /\ DashboardFairness

-----------------------------------------------------------------------------
(* What is rendered.                                                       *)

FactsCard ==
  CASE Chosen = NoDevice -> "select a device"
    [] factsStatus = "loading" -> "loading"
    [] factsStatus = "error" -> "failed"
    [] factsStatus = "success" /\ facts # NoDevice -> "facts"
    [] OTHER -> "nothing"

\* The overview's line about the facts, and what it says with them.
OverviewCard ==
  CASE Chosen = NoDevice -> "none"
    [] factsStatus = "loading" -> "refreshing facts"
    [] factsStatus = "error" -> "unable to refresh"
    [] factsStatus = "success" -> "facts refreshed"
    [] OTHER -> "facts will sync"

MoreToLoad == historyCursor # 0

HistoryCard ==
  CASE Chosen = NoDevice -> "select a device"
    [] historyStatus = "loading" /\ history = <<>> -> "loading"
    [] historyStatus # "loading" /\ history = <<>> -> "no history yet"
    [] OTHER -> IF MoreToLoad THEN "events, load more" ELSE "all available events loaded"

-----------------------------------------------------------------------------
(* Properties.                                                             *)

\* Neither the facts card nor the overview shows the facts of one device under the
\* name of another, however answers and selections meet; between the render and
\* its effects, which this excludes, they do.
FactsOfSelected ==
  EffectsRan /\ (FactsCard = "facts" \/ OverviewCard = "facts refreshed") => facts = Chosen

\* The timeline is the selected device's: every event once, newest first, none
\* left out between two pages, although events are added while pages are loaded;
\* and "All available events loaded" is shown only when the oldest event is.
HistoryContiguous ==
  EffectsRan =>
    /\ \A i \in DOMAIN history : history[i].of = Chosen
    /\ \A i \in 1 .. Len(history) - 1 : history[i].n = history[i + 1].n + 1
    /\ HistoryCard = "all available events loaded" => history[Len(history)].n = 1

\* No card stays at "loading", for any order of selections, answers and failures.
CardsSettle == []<>(FactsCard # "loading") /\ []<>(HistoryCard # "loading")
=============================================================================
