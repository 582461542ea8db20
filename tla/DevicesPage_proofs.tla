-------------------------- MODULE DevicesPage_proofs --------------------------
(***************************************************************************)
(* Proofs about the devices page: the discovery panel asks before every    *)
(* run it puts on top of another, the list never asks for a cursor of      *)
(* other filters, the cards and the forms show the device that is          *)
(* selected, and a timeline or log has no gap.  They hold for any number   *)
(* of devices, clicks, polls, pages and failures.                          *)
(***************************************************************************)
EXTENDS DiscoveryPanel, DevicesDashboard, DeviceListUrl, DeviceForms, LoadMoreList,
        Integers, SequenceTheorems, TLAPS

-----------------------------------------------------------------------------
(* The panel.  The flag that lets a submission pass without a question     *)
(* stands for a confirmation that has been given and not used yet.         *)

PanelCounts == confirms \in Nat /\ busySubmits \in Nat

PanelInv ==
  /\ PanelCounts
  /\ busySubmits <= confirms
  /\ bypass => busySubmits + 1 <= confirms

LEMMA PanelInvSuffices == PanelInv => QuestionPerRun
<1> SUFFICES ASSUME PanelInv PROVE QuestionPerRun
  OBVIOUS
<1>1. busySubmits + 0 <= confirms
  BY DEF PanelInv, PanelCounts
<1>2. CASE bypass
  BY <1>2, Zenon DEF PanelInv, QuestionPerRun
<1>3. CASE ~bypass
  BY <1>1, <1>3, Zenon DEF QuestionPerRun
<1> QED BY <1>2, <1>3, Zenon

LEMMA PanelInitInv == PanelInit => PanelInv
<1> SUFFICES ASSUME PanelInit PROVE PanelInv
  OBVIOUS
<1>1. confirms = 0 /\ busySubmits = 0 /\ ~bypass
  BY Zenon DEF PanelInit
<1> QED BY <1>1 DEF PanelInv, PanelCounts

\* Steps that leave the flag and the counters alone.
LEMMA PanelQuietInv ==
  ASSUME PanelInv, UNCHANGED <<confirms, busySubmits, bypass>>
  PROVE  PanelInv'
BY Zenon DEF PanelInv, PanelCounts

\* A submission is held back or passes; what passes while the panel shows a run
\* takes the flag down.
LEMMA HandleSubmitCounts ==
  ASSUME NEW b, HandleSubmit(b), busySubmits \in Nat
  PROVE  \/ busySubmits' = busySubmits /\ bypass' = b
         \/ b /\ busySubmits' = busySubmits + 1 /\ ~bypass'
<1>1. CASE ~shown /\ PassOn /\ bypass' = b
  <2>1. busySubmits' = busySubmits + 0
    BY <1>1, Zenon DEF PassOn
  <2>2. busySubmits' = busySubmits
    BY <2>1
  <2> QED BY <1>1, <2>2, Zenon
<1>2. CASE shown /\ b /\ PassOn /\ bypass' = FALSE
  <2>1. busySubmits' = busySubmits + 1
    BY <1>2, Zenon DEF PassOn
  <2> QED BY <1>2, <2>1, Zenon
<1>3. CASE bypass' = b /\ UNCHANGED busySubmits
  BY <1>3, Zenon
<1> QED BY <1>1, <1>2, <1>3, Zenon DEF HandleSubmit

LEMMA ClickInv ==
  ASSUME PanelInv, Click
  PROVE  PanelInv'
<1>1. HandleSubmit(bypass) /\ UNCHANGED confirms
  BY Zenon DEF Click
<1>2. CASE busySubmits' = busySubmits /\ bypass' = bypass
  BY <1>1, <1>2, PanelQuietInv, Zenon
<1>3. CASE bypass /\ busySubmits' = busySubmits + 1 /\ ~bypass'
  BY <1>1, <1>3 DEF PanelInv, PanelCounts
<1> QED BY <1>1, <1>2, <1>3, HandleSubmitCounts, Zenon DEF PanelInv, PanelCounts

LEMMA ConfirmInv ==
  ASSUME PanelInv, Confirm
  PROVE  PanelInv'
<1>1. HandleSubmit(TRUE) /\ confirms' = confirms + 1
  BY Zenon DEF Confirm
<1>2. CASE busySubmits' = busySubmits /\ bypass' = TRUE
  BY <1>1, <1>2 DEF PanelInv, PanelCounts
<1>3. CASE busySubmits' = busySubmits + 1 /\ ~bypass'
  BY <1>1, <1>3 DEF PanelInv, PanelCounts
<1> QED BY <1>1, <1>2, <1>3, HandleSubmitCounts, Zenon DEF PanelInv, PanelCounts

LEMMA PanelStepInv == PanelInv /\ [PanelNext]_panelVars => PanelInv'
<1> SUFFICES ASSUME PanelInv, [PanelNext]_panelVars PROVE PanelInv'
  OBVIOUS
<1>1. CASE UNCHANGED panelVars
  BY <1>1, PanelQuietInv DEF panelVars, form
<1>2. CASE OtherTrigger \/ ActiveEnds \/ StatusTick \/ StatusAnswer \/ Retry \/ StatusFails
  BY <1>2, PanelQuietInv, Zenon
  DEF OtherTrigger, ActiveEnds, StatusTick, StatusAnswer, Retry, StatusFails, form
<1>3. CASE Deliver
  BY <1>3, PanelQuietInv DEF Deliver, form
<1>4. CASE Hide \/ Show \/ Render \/ Cancel
  BY <1>4, PanelQuietInv, Zenon DEF Hide, Show, Render, Cancel, PanelRendered, form
<1>5. CASE Send \/ Accept \/ Refuse \/ Return
  BY <1>5, PanelQuietInv, Zenon DEF Send, Accept, Refuse, Return
<1>6. CASE Click
  BY <1>6, ClickInv
<1>7. CASE Confirm
  BY <1>7, ConfirmInv
<1> QED BY <1>1, <1>2, <1>3, <1>4, <1>5, <1>6, <1>7, Zenon DEF PanelNext, StatusPoll, Trigger, PanelOperator

\* Every run queued on top of one the panel shows was confirmed in the dialog: with
\* any number of clicks, confirmations, cancellations, answers and failed polls.
THEOREM EveryRunIsConfirmed == PanelSpec => []QuestionPerRun
<1> QED BY PanelInitInv, PanelStepInv, PanelInvSuffices, PTL DEF PanelSpec

-----------------------------------------------------------------------------
(* The URL.  A cursor only ever gets into a URL whose filters and sort are *)
(* read as those it was made for, and every control that changes them      *)
(* drops it, also while another push is under way.                         *)

Legal(u) == u \in Urls /\ (u.cursor # NoCursor => Selection(u.cursor) = Normalized(u))

UrlInv ==
  /\ Legal(url) /\ Legal(nav)
  /\ asked = [selection |-> Normalized(url), cursor |-> url.cursor]
  /\ next \in Cursors \cup {NoCursor}
  /\ next # NoCursor => Selection(next) = Normalized(url)
  /\ input \in Texts

\* What the server reads from a URL is a selection a cursor can be made for.
LEMMA NormalizedIsSelection ==
  ASSUME NEW u \in Urls
  PROVE  /\ Normalized(u).q \in Texts
         /\ Normalized(u).status \in VALID_STATUS \cup {"all"}
         /\ Normalized(u).sort \in VALID_SORTS
BY DEF Normalized, Urls, RawStatus, RawSort, VALID_SORTS, DEFAULT_SORT

\* The cursor of the page after the one that was asked for.
LEMMA NextCursor ==
  ASSUME NEW u \in Urls, NEW n \in 2 .. Pages
  PROVE  /\ CursorOf(Normalized(u), n) \in Cursors
         /\ Selection(CursorOf(Normalized(u), n)) = Normalized(u)
<1>1. CursorOf(Normalized(u), n) \in Cursors
  BY NormalizedIsSelection DEF CursorOf, Cursors
<1>2. Selection(CursorOf(Normalized(u), n)) = Normalized(u)
  BY DEF CursorOf, Selection, Normalized
<1> QED BY <1>1, <1>2

LEMMA PagesPositive == Pages \in Nat /\ Pages # 0
BY UrlAssumption, Zenon

LEMMA PageNumberRange ==
  ASSUME NEW u \in Urls, PageNumber(u.cursor) < Pages
  PROVE  PageNumber(u.cursor) + 1 \in 2 .. Pages
<1>1. u.cursor # NoCursor => u.cursor.page \in 2 .. Pages
  BY DEF Urls, Cursors
<1>2. PageNumber(u.cursor) \in Nat /\ PageNumber(u.cursor) >= 1
  BY <1>1, PagesPositive DEF PageNumber
<1> QED BY <1>2, PagesPositive

\* The controls show the selection the list was made by.
LEMMA DisplayedIsNormalized ==
  ASSUME NEW u \in Urls
  PROVE  Displayed(u, Normalized(u)) = Normalized(u)
BY DEF Displayed, Normalized, Urls, RawStatus, RawSort, VALID_STATUS

LEMMA UrlInitInv == UrlInit => UrlInv
<1> SUFFICES ASSUME UrlInit PROVE UrlInv
  OBVIOUS
<1>1. url \in Urls /\ url.cursor = NoCursor /\ nav = url
  BY DEF UrlInit, Urls
<1>2. next \in Cursors \cup {NoCursor} /\ (next # NoCursor => Selection(next) = Normalized(url))
  <2>1. CASE Pages > 1
    <3>1. next = CursorOf(Normalized(url), 2)
      BY <2>1 DEF UrlInit
    <3>2. 2 \in 2 .. Pages
      BY <2>1, PagesPositive
    <3> QED BY <1>1, <3>1, <3>2, NextCursor
  <2>2. CASE ~(Pages > 1)
    BY <2>2 DEF UrlInit
  <2> QED BY <2>1, <2>2
<1>3. input \in Texts
  BY <1>1 DEF UrlInit, Urls
<1>4. asked = [selection |-> Normalized(url), cursor |-> url.cursor]
  BY <1>1 DEF UrlInit
<1> QED BY <1>1, <1>2, <1>3, <1>4 DEF UrlInv, Legal

\* A control pushes the URL u.
LEMMA PushInv ==
  ASSUME UrlInv, NEW u, Legal(u), nav' = u, input' \in Texts, UNCHANGED <<url, asked, next>>
  PROVE  UrlInv'
BY DEF UrlInv, Legal, Normalized

LEMMA CommitInv ==
  ASSUME UrlInv, Commit
  PROVE  UrlInv'
<1>1. /\ url' = nav /\ nav' = nav /\ Legal(nav) /\ nav \in Urls
      /\ asked' = [selection |-> Normalized(nav), cursor |-> nav.cursor]
      /\ next' = IF PageNumber(nav.cursor) < Pages
                 THEN CursorOf(Normalized(nav), PageNumber(nav.cursor) + 1) ELSE NoCursor
  BY DEF Commit, PageRendered, UrlInv, Legal
<1>2. next' \in Cursors \cup {NoCursor} /\ (next' # NoCursor => Selection(next') = Normalized(nav))
  BY <1>1, PageNumberRange, NextCursor
<1>3. input' \in Texts
  BY DEF Commit, UrlInv, Legal, Urls
<1> QED BY <1>1, <1>2, <1>3 DEF UrlInv, Legal, Normalized

LEMMA UrlStepInv == UrlInv /\ [UrlNext]_urlVars => UrlInv'
<1> SUFFICES ASSUME UrlInv, [UrlNext]_urlVars PROVE UrlInv'
  OBVIOUS
<1>0. url \in Urls /\ Legal(url) /\ Legal(nav) /\ input \in Texts
  BY DEF UrlInv, Legal
<1>1. CASE UNCHANGED urlVars \/ UrlRest
  BY <1>1, <1>0, PushInv DEF urlVars, UrlRest
<1>2. ASSUME NEW t \in Texts, TypeSearch(t) PROVE UrlInv'
  BY <1>2, <1>0, PushInv DEF TypeSearch
<1>3. ASSUME NEW s \in VALID_STATUS \cup {"all"}, SetStatus(s) PROVE UrlInv'
  <2> DEFINE u == [url EXCEPT !.status = IF s = "all" THEN "" ELSE s, !.cursor = NoCursor]
  <2>1. Legal(u)
    BY <1>0 DEF Legal, Urls, RawStatus
  <2> QED BY <1>3, <1>0, <2>1, PushInv DEF SetStatus, Push, Use
<1>4. ASSUME NEW o \in VALID_SORTS, SetSort(o) PROVE UrlInv'
  <2> DEFINE u == [url EXCEPT !.sort = o, !.cursor = NoCursor]
  <2>1. Legal(u)
    BY <1>0 DEF Legal, Urls, RawSort
  <2> QED BY <1>4, <1>0, <2>1, PushInv DEF SetSort, Push, Use
<1>5. CASE NextPage
  <2> DEFINE u == [url EXCEPT !.cursor = next]
  <2>1. Legal(u)
    BY <1>0 DEF UrlInv, Legal, Urls, Normalized
  <2> QED BY <1>5, <1>0, <2>1, PushInv DEF NextPage, Push, Use
<1>6. CASE FirstPage
  <2> DEFINE u == [url EXCEPT !.cursor = NoCursor]
  <2>1. Legal(u)
    BY <1>0 DEF Legal, Urls
  <2> QED BY <1>6, <1>0, <2>1, PushInv DEF FirstPage, Push, Use
<1>7. CASE Reset
  <2> DEFINE u == [q |-> "", status |-> "", sort |-> "", cursor |-> NoCursor]
  <2>1. Legal(u)
    BY UrlAssumption DEF Legal, Urls, RawStatus, RawSort
  <2> QED BY <1>7, UrlAssumption, <1>0, <2>1, PushInv DEF Reset, Push, Use
<1>8. CASE Search
  <2> DEFINE u == [url EXCEPT !.q = input, !.cursor = NoCursor]
  <2>1. Legal(u)
    BY <1>0 DEF Legal, Urls
  <2> QED BY <1>8, <1>0, <2>1, PushInv DEF Search, Push, Use
<1>9. CASE Commit
  BY <1>9, CommitInv
<1> QED BY <1>1, <1>2, <1>3, <1>4, <1>5, <1>6, <1>7, <1>8, <1>9 DEF UrlNext

\* core-go is never asked for a position in one ordering with the filters of another,
\* and the controls show the selection of the list, for any texts, pages and clicks.
THEOREM CursorsKeepTheirSelection == UrlSpec => []CursorOfSelection
<1>1. UrlInv => CursorOfSelection
  BY DisplayedIsNormalized DEF UrlInv, Legal, CursorOfSelection
<1> QED BY UrlInitInv, UrlStepInv, <1>1, PTL DEF UrlSpec

-----------------------------------------------------------------------------
(* The cards.  A request that has not been aborted is for the device the   *)
(* effects ran for last, and so is what is shown.                          *)

FactsInv ==
  /\ factsReqs \subseteq {loadedFor}
  /\ factsStatus = "success" => facts = loadedFor

LEMMA FactsStepInv ==
  ASSUME FactsInv, [DashboardNext]_dashboardVars
  PROVE  FactsInv'
<1> USE DEF FactsInv
<1>1. CASE UNCHANGED dashboardVars \/ DashboardIdle
  BY <1>1 DEF dashboardVars, factsVars, DashboardIdle
<1>2. ASSUME NEW d, Happens(d) PROVE FactsInv'
  BY <1>2 DEF Happens, factsVars
<1>3. ASSUME NEW d, SelectRow(d) PROVE FactsInv'
  BY <1>3 DEF SelectRow, LoadFacts
<1>4. ASSUME NEW l, NewList(l) PROVE FactsInv'
  BY <1>4 DEF NewList, factsVars
<1>5. CASE LoadMoreHistory
  BY <1>5 DEF LoadMoreHistory, factsVars
<1>6. CASE Effects
  <2>1. CASE Chosen # loadedFor
    BY <1>6, <2>1 DEF Effects, LoadFacts
  <2>2. CASE Chosen = loadedFor
    BY <1>6, <2>2 DEF Effects, factsVars
  <2> QED BY <2>1, <2>2
<1>7. ASSUME NEW d, FactsArrive(d) \/ FactsFail(d) PROVE FactsInv'
  BY <1>7 DEF FactsArrive, FactsFail
<1>8. ASSUME NEW r, HistoryAnswer(r) \/ HistoryArrive(r) \/ HistoryFail(r) PROVE FactsInv'
  BY <1>8 DEF HistoryAnswer, HistoryArrive, HistoryFail, factsVars
<1> QED BY <1>1, <1>2, <1>3, <1>4, <1>5, <1>6, <1>7, <1>8
        DEF DashboardNext, DashboardOperator, FactsRespond, HistoryRespond

\* The cards never show one device's facts under another's name, for any devices,
\* lists, selections and order of answers.
THEOREM FactsAreOfSelected == DashboardSpec => []FactsOfSelected
<1>1. DashboardInit => FactsInv
  BY DEF DashboardInit, FactsInv
<1>2. FactsInv /\ [DashboardNext]_dashboardVars => FactsInv'
  BY FactsStepInv
<1>3. FactsInv => FactsOfSelected
  BY DEF FactsInv, FactsOfSelected, EffectsRan, FactsCard, OverviewCard
<1> QED BY <1>1, <1>2, <1>3, PTL DEF DashboardSpec

-----------------------------------------------------------------------------
(* The timeline is an unbroken run of one device's events, k of them from  *)
(* the a-th down, and the cursor says where it ends.  A page on its way    *)
(* continues it, however many events have been added since it was asked    *)
(* for: they are newer than its cursor.                                    *)

Run(d, a, k) == [i \in 1 .. k |-> [of |-> d, n |-> a - (i - 1)]]

CursorAfter(a, k) == IF k = a THEN 0 ELSE a - k + 1

\* A page of the events of d as it was some time ago.
IsHistoryPage(page, d, before) ==
  \E b, m \in Nat :
    /\ page = [list |-> Run(d, b, m), next |-> CursorAfter(b, m)]
    /\ m <= b /\ (m = 0 => b = 0) /\ b <= events[d]
    /\ before # 0 => b = before - 1

TimelineInv ==
  \E a, k \in Nat :
    /\ history = Run(loadedFor, a, k) /\ historyCursor = CursorAfter(a, k)
    /\ k <= a /\ (k = 0 => a = 0)
    /\ loadedFor \in Devices => a <= events[loadedFor]
    /\ loadedFor \notin Devices => a = 0

RequestInv(r) ==
  /\ r = [of |-> loadedFor, before |-> r.before, reset |-> r.reset, page |-> r.page]
  /\ loadedFor \in Devices
  /\ r.reset => r.before = 0
  /\ ~r.reset => r.before = historyCursor /\ historyCursor # 0
  /\ r.page = Unanswered \/ IsHistoryPage(r.page, loadedFor, r.before)

EventsInv == events \in [Devices -> Nat] /\ loadedFor \in Selectable /\ selected \in Selectable /\ listed \in Seq(Devices)

HistoryInv ==
  /\ EventsInv
  /\ TimelineInv
  /\ \A r \in historyReqs : RequestInv(r)
  /\ \A r, s \in historyReqs : r = s

LEMMA RunIsSeq ==
  ASSUME NEW d, NEW a \in Nat, NEW k \in Nat
  PROVE  /\ Run(d, a, k) \in Seq([of : {d}, n : Int])
         /\ Len(Run(d, a, k)) = k
         /\ DOMAIN Run(d, a, k) = 1 .. k
         /\ \A i \in 1 .. k : Run(d, a, k)[i] = [of |-> d, n |-> a - (i - 1)]
<1>1. Run(d, a, k) \in [1 .. k -> [of : {d}, n : Int]]
  BY DEF Run
<1>2. Run(d, a, k) \in Seq([of : {d}, n : Int])
  BY <1>1, SeqDef
<1> QED BY <1>1, <1>2 DEF Run

LEMMA NoRun == \A d, a : Run(d, a, 0) = <<>>
BY DEF Run

\* Two runs that follow each other are one.
LEMMA RunsJoin ==
  ASSUME NEW d, NEW a \in Nat, NEW k \in Nat, NEW m \in Nat, k <= a
  PROVE  Run(d, a, k) \o Run(d, a - k, m) = Run(d, a, k + m)
<1> DEFINE Set == [of : {d}, n : Int]
           s == Run(d, a, k)
           t == Run(d, a - k, m)
           u == Run(d, a, k + m)
<1>0. a - k \in Nat /\ k + m \in Nat
  OBVIOUS
<1>1. /\ s \in Seq(Set) /\ t \in Seq(Set) /\ u \in Seq(Set)
      /\ Len(s) = k /\ Len(t) = m /\ Len(u) = k + m
      /\ \A i \in 1 .. k : s[i] = [of |-> d, n |-> a - (i - 1)]
      /\ \A i \in 1 .. m : t[i] = [of |-> d, n |-> (a - k) - (i - 1)]
      /\ \A i \in 1 .. k + m : u[i] = [of |-> d, n |-> a - (i - 1)]
  BY <1>0, RunIsSeq
<1> HIDE DEF s, t, u, Set
<1>2. /\ s \o t \in Seq(Set) /\ Len(s \o t) = k + m
      /\ \A i \in 1 .. k + m : (s \o t)[i] = IF i <= k THEN s[i] ELSE t[i - k]
  BY <1>1, ConcatProperties
<1>3. ASSUME NEW i \in 1 .. k + m PROVE (s \o t)[i] = u[i]
  <2>1. CASE i <= k
    BY <1>1, <1>2, <2>1
  <2>2. CASE ~(i <= k)
    <3>1. i - k \in 1 .. m
      BY <2>2
    <3>2. (a - k) - ((i - k) - 1) = a - (i - 1)
      BY <2>2
    <3>3. (s \o t)[i] = t[i - k]
      BY <1>2, <2>2
    <3> QED BY <1>1, <3>1, <3>2, <3>3
  <2> QED BY <2>1, <2>2
<1>4. s \o t = u
  BY <1>1, <1>2, <1>3, SeqEqual
<1> QED BY <1>4 DEF s, t, u

\* What the server answers.
LEMMA PageIsPage ==
  ASSUME EventsInv, NEW d \in Devices, NEW before \in Nat,
         before # 0 => before <= events[d]
  PROVE  IsHistoryPage(PageOf(d, before), d, before)
<1> DEFINE top == NewestEvent(events[d], before)
           size == IF top < HistoryLimit THEN top ELSE HistoryLimit
<1>0. HistoryLimit \in Nat /\ HistoryLimit # 0
  BY DashboardAssumption, Zenon
<1>1. events[d] \in Nat
  BY DEF EventsInv
<1>2. top \in Nat /\ top <= events[d] /\ (before # 0 => top = before - 1)
  BY <1>1 DEF NewestEvent
<1>3. size \in Nat /\ size <= top /\ (size = 0 => top = 0)
  BY <1>0, <1>2
<1>4. CursorAfter(top, size) = IF top > HistoryLimit THEN top - HistoryLimit + 1 ELSE 0
  BY <1>0, <1>2 DEF CursorAfter
<1>5. PageOf(d, before) = [list |-> Run(d, top, size), next |-> CursorAfter(top, size)]
  BY <1>4, Zenon DEF PageOf, Run
<1> HIDE DEF top, size
<1> QED BY <1>2, <1>3, <1>5 DEF IsHistoryPage

\* Events are only added, and a page that was one stays one.
LEMMA PageStays ==
  ASSUME NEW page, NEW d \in Devices, NEW before, IsHistoryPage(page, d, before),
         EventsInv, EventsInv', events'[d] >= events[d]
  PROVE  IsHistoryPage(page, d, before)'
<1>1. PICK b, m \in Nat :
        /\ page = [list |-> Run(d, b, m), next |-> CursorAfter(b, m)]
        /\ m <= b /\ (m = 0 => b = 0) /\ b <= events[d]
        /\ before # 0 => b = before - 1
  BY DEF IsHistoryPage
<1>2. events[d] \in Nat /\ events'[d] \in Nat
  BY DEF EventsInv
<1>3. b <= events'[d]
  BY <1>1, <1>2
<1> QED BY <1>1, <1>3 DEF IsHistoryPage

\* The effects have run for d: the timeline is empty and its first page asked for.
LEMMA StartInv ==
  ASSUME NEW d \in Selectable, LoadHistory(d), loadedFor' = d, EventsInv'
  PROVE  HistoryInv'
<1>1. history' = Run(loadedFor', 0, 0) /\ historyCursor' = CursorAfter(0, 0)
  BY NoRun DEF LoadHistory, CursorAfter
<1>2. TimelineInv'
  <2>1. loadedFor' \in Devices => 0 <= events'[loadedFor']
    BY DEF EventsInv
  <2> QED BY <1>1, <2>1 DEF TimelineInv
<1>3. ASSUME NEW r \in historyReqs' PROVE RequestInv(r)'
  <2>1. d \in Devices /\ r = [of |-> d, before |-> 0, reset |-> TRUE, page |-> Unanswered]
    BY <1>3 DEF LoadHistory, Request, Selectable
  <2> QED BY <2>1 DEF RequestInv
<1>4. \A r, s \in historyReqs' : r = s
  BY DEF LoadHistory, Request
<1> QED BY <1>2, <1>3, <1>4 DEF HistoryInv

\* Steps that leave the events, the timeline and its requests alone.
LEMMA HistoryQuiet ==
  ASSUME HistoryInv, UNCHANGED <<events, loadedFor, history, historyCursor, historyReqs>>,
         selected' \in Selectable, listed' \in Seq(Devices)
  PROVE  HistoryInv'
<1>1. EventsInv'
  BY DEF HistoryInv, EventsInv
<1>2. TimelineInv'
  BY Zenon DEF HistoryInv, TimelineInv
<1>3. ASSUME NEW r \in historyReqs' PROVE RequestInv(r)'
  BY <1>3, Zenon DEF HistoryInv, RequestInv, IsHistoryPage
<1> QED BY <1>1, <1>2, <1>3 DEF HistoryInv

LEMMA HappensInv ==
  ASSUME HistoryInv, NEW d \in Devices, Happens(d)
  PROVE  HistoryInv'
<1>1. /\ UNCHANGED <<loadedFor, selected, listed, history, historyCursor, historyReqs>>
      /\ events' = [events EXCEPT ![d] = @ + 1]
  BY DEF Happens, historyVars
<1>2. EventsInv' /\ \A e \in Devices : events'[e] >= events[e] /\ events[e] \in Nat /\ events'[e] \in Nat
  BY <1>1 DEF HistoryInv, EventsInv
<1>3. TimelineInv'
  <2>1. PICK a, k \in Nat :
          /\ history = Run(loadedFor, a, k) /\ historyCursor = CursorAfter(a, k)
          /\ k <= a /\ (k = 0 => a = 0)
          /\ loadedFor \in Devices => a <= events[loadedFor]
          /\ loadedFor \notin Devices => a = 0
    BY DEF HistoryInv, TimelineInv
  <2>2. loadedFor' \in Devices => a <= events'[loadedFor']
    BY <1>1, <1>2, <2>1
  <2> QED BY <1>1, <2>1, <2>2 DEF TimelineInv
<1>4. ASSUME NEW r \in historyReqs' PROVE RequestInv(r)'
  <2>1. RequestInv(r)
    BY <1>1, <1>4 DEF HistoryInv
  <2>2. EventsInv /\ events'[loadedFor] >= events[loadedFor] /\ loadedFor \in Devices
    BY <1>2, <2>1 DEF HistoryInv, RequestInv
  <2>3. \A e \in Devices : \A page, before :
          IsHistoryPage(page, e, before) /\ events'[e] >= events[e] => IsHistoryPage(page, e, before)'
    BY <1>2, <2>2, PageStays
  <2>4. IsHistoryPage(r.page, loadedFor, r.before) => IsHistoryPage(r.page, loadedFor, r.before)'
    BY <1>1, <2>2, <2>3
  <2> QED BY <1>1, <2>1, <2>4, Zenon DEF RequestInv
<1> QED BY <1>1, <1>2, <1>3, <1>4 DEF HistoryInv

LEMMA ListedAreDevices ==
  ASSUME EventsInv
  PROVE  /\ ListedDevices \subseteq Devices
         /\ Chosen \in Selectable /\ Kept \in Selectable
         /\ Chosen # NoDevice => Chosen \in Devices
<1>1. \A i \in DOMAIN listed : listed[i] \in Devices
  BY DEF EventsInv
<1>2. listed # <<>> => 1 \in DOMAIN listed
  BY DEF EventsInv
<1> QED BY <1>1, <1>2 DEF EventsInv, ListedDevices, Chosen, Kept, Selectable

LEMMA EffectsInv ==
  ASSUME HistoryInv, Effects
  PROVE  HistoryInv'
<1>1. /\ EventsInv /\ Chosen \in Selectable /\ Kept \in Selectable
      /\ loadedFor' = Chosen /\ selected' = Kept /\ events' = events /\ listed' = listed
  BY ListedAreDevices DEF HistoryInv, Effects, listVars
<1>2. EventsInv'
  BY <1>1 DEF EventsInv
<1>3. CASE Chosen # loadedFor
  <2>1. LoadHistory(Chosen)
    BY <1>3 DEF Effects
  <2> HIDE DEF Effects
  <2> QED BY <1>1, <1>2, <2>1, StartInv
<1>4. CASE Chosen = loadedFor
  BY <1>1, <1>4, HistoryQuiet DEF Effects, historyVars, EventsInv
<1> QED BY <1>3, <1>4

LEMMA SelectRowInv ==
  ASSUME HistoryInv, NEW d \in Devices, SelectRow(d)
  PROVE  HistoryInv'
<1>1. /\ loadedFor' = d /\ selected' = d /\ LoadHistory(d) /\ d \in Selectable
      /\ UNCHANGED <<events, listed>>
  BY DEF SelectRow, Selectable
<1>2. EventsInv'
  BY <1>1 DEF HistoryInv, EventsInv
<1> QED BY <1>1, <1>2, StartInv

LEMMA LoadMoreInv ==
  ASSUME HistoryInv, LoadMoreHistory
  PROVE  HistoryInv'
<1>1. /\ UNCHANGED <<events, listed, selected, loadedFor, history, historyCursor>>
      /\ loadedFor \in Devices /\ historyCursor # 0
      /\ historyReqs' = {[of |-> loadedFor, before |-> historyCursor, reset |-> FALSE, page |-> Unanswered]}
  BY ListedAreDevices DEF LoadMoreHistory, EffectsRan, Request, HistoryInv, listVars
<1>2. EventsInv' /\ TimelineInv'
  BY <1>1, Zenon DEF HistoryInv, EventsInv, TimelineInv
<1>3. ASSUME NEW r \in historyReqs' PROVE RequestInv(r)'
  BY <1>1, <1>3 DEF RequestInv
<1> QED BY <1>1, <1>2, <1>3 DEF HistoryInv

\* A request ends without an answer.
LEMMA HistoryFailInv ==
  ASSUME HistoryInv, NEW r, HistoryFail(r)
  PROVE  HistoryInv'
<1>1. /\ UNCHANGED <<events, listed, selected, loadedFor, history, historyCursor>>
      /\ historyReqs' \subseteq historyReqs
  BY DEF HistoryFail, listVars
<1>2. EventsInv' /\ TimelineInv'
  BY <1>1, Zenon DEF HistoryInv, EventsInv, TimelineInv
<1>3. ASSUME NEW q \in historyReqs' PROVE RequestInv(q)'
  <2>1. RequestInv(q)
    BY <1>1, <1>3 DEF HistoryInv
  <2> QED BY <1>1, <2>1, Zenon DEF RequestInv, IsHistoryPage
<1> QED BY <1>1, <1>2, <1>3 DEF HistoryInv

\* The cursor is that of an event there is.
LEMMA CursorIsEvent ==
  ASSUME TimelineInv, EventsInv, loadedFor \in Devices
  PROVE  historyCursor \in Nat /\ historyCursor <= events[loadedFor]
<1>1. PICK a, k \in Nat :
        /\ historyCursor = CursorAfter(a, k)
        /\ k <= a /\ (k = 0 => a = 0)
        /\ a <= events[loadedFor]
  BY DEF TimelineInv
<1>2. events[loadedFor] \in Nat
  BY DEF EventsInv
<1> QED BY <1>1, <1>2 DEF CursorAfter

LEMMA HistoryAnswerInv ==
  ASSUME HistoryInv, NEW r, HistoryAnswer(r)
  PROVE  HistoryInv'
<1> DEFINE page == PageOf(r.of, r.before)
           q == [r EXCEPT !.page = page]
<1>1. /\ UNCHANGED <<events, listed, selected, loadedFor, history, historyCursor>>
      /\ r \in historyReqs /\ RequestInv(r)
      /\ historyReqs' = (historyReqs \ {r}) \cup {q}
  BY DEF HistoryAnswer, HistoryInv, listVars
<1>2. EventsInv' /\ TimelineInv'
  BY <1>1, Zenon DEF HistoryInv, EventsInv, TimelineInv
<1>3. r.of = loadedFor /\ loadedFor \in Devices /\ q = [of |-> loadedFor, before |-> r.before, reset |-> r.reset, page |-> page]
  BY <1>1 DEF RequestInv
<1>4. IsHistoryPage(page, loadedFor, r.before)
  <2>1. historyCursor \in Nat /\ historyCursor <= events[loadedFor]
    BY <1>3, CursorIsEvent DEF HistoryInv
  <2>2. r.before \in Nat /\ (r.before # 0 => r.before <= events[loadedFor])
    BY <1>1, <2>1 DEF RequestInv
  <2> QED BY <1>3, <2>2, PageIsPage DEF HistoryInv
<1> HIDE DEF page, q
<1>5. historyReqs' = {q}
  BY <1>1 DEF HistoryInv
<1>6. q.of = loadedFor /\ q.before = r.before /\ q.reset = r.reset /\ q.page = page
  BY <1>3
<1>7. RequestInv(q)
  BY <1>1, <1>3, <1>4, <1>6 DEF RequestInv
<1>8. \A x : RequestInv(x) => RequestInv(x)'
  BY <1>1, Zenon DEF RequestInv, IsHistoryPage
<1> QED BY <1>2, <1>5, <1>7, <1>8 DEF HistoryInv

\* A page that arrives begins the timeline or continues it.
LEMMA HistoryArriveInv ==
  ASSUME HistoryInv, NEW r, HistoryArrive(r)
  PROVE  HistoryInv'
<1>1. /\ UNCHANGED <<events, listed, selected, loadedFor>>
      /\ r \in historyReqs /\ RequestInv(r) /\ r.page # Unanswered
      /\ historyReqs' = historyReqs \ {r}
      /\ history' = (IF r.reset THEN r.page.list ELSE history \o r.page.list)
      /\ historyCursor' = r.page.next
  BY DEF HistoryArrive, HistoryInv, listVars
<1>2. EventsInv' /\ historyReqs' = {} /\ loadedFor \in Devices
  BY <1>1 DEF HistoryInv, EventsInv, RequestInv
<1>3. PICK b, m \in Nat :
        /\ r.page = [list |-> Run(loadedFor, b, m), next |-> CursorAfter(b, m)]
        /\ m <= b /\ (m = 0 => b = 0) /\ b <= events[loadedFor]
        /\ r.before # 0 => b = r.before - 1
  BY <1>1 DEF RequestInv, IsHistoryPage
<1>4. r.page.list = Run(loadedFor, b, m) /\ r.page.next = CursorAfter(b, m)
  BY <1>3
<1>5. TimelineInv'
  <2>1. CASE r.reset
    <3>1. history' = Run(loadedFor', b, m) /\ historyCursor' = CursorAfter(b, m) /\ b <= events'[loadedFor']
      BY <1>1, <1>3, <1>4, <2>1
    <3> QED BY <1>1, <1>2, <1>3, <3>1 DEF TimelineInv
  <2>2. CASE ~r.reset
    <3>1. PICK a, k \in Nat :
            /\ history = Run(loadedFor, a, k) /\ historyCursor = CursorAfter(a, k)
            /\ k <= a /\ (k = 0 => a = 0)
            /\ a <= events[loadedFor]
      BY <1>2 DEF HistoryInv, TimelineInv
    <3>2. r.before = historyCursor /\ historyCursor # 0
      BY <1>1, <2>2 DEF RequestInv
    <3>3. k # a /\ b = a - k
      BY <1>3, <3>1, <3>2 DEF CursorAfter
    <3>4. history' = Run(loadedFor, a, k) \o Run(loadedFor, a - k, m)
      BY <1>1, <1>4, <2>2, <3>1, <3>3
    <3>5. history' = Run(loadedFor, a, k + m)
      BY <3>1, <3>4, RunsJoin
    <3>6. CursorAfter(b, m) = CursorAfter(a, k + m)
      BY <1>3, <3>1, <3>3 DEF CursorAfter
    <3>7. k + m \in Nat /\ k + m <= a /\ (k + m = 0 => a = 0)
      BY <1>3, <3>1, <3>3
    <3> QED BY <1>1, <1>2, <1>4, <3>1, <3>5, <3>6, <3>7 DEF TimelineInv
  <2> QED BY <2>1, <2>2
<1> QED BY <1>2, <1>5 DEF HistoryInv

LEMMA HistoryInitInv == DashboardInit => HistoryInv
<1> SUFFICES ASSUME DashboardInit PROVE HistoryInv
  OBVIOUS
<1>1. EventsInv
  <2>1. listed \in Seq(Devices)
    BY DashboardAssumption DEF DashboardInit
  <2>2. selected \in Selectable
    BY <2>1 DEF DashboardInit, Selectable
  <2>3. events \in [Devices -> Nat]
    BY DashboardAssumption DEF DashboardInit
  <2> QED BY <2>1, <2>2, <2>3 DEF EventsInv, DashboardInit, Selectable
<1>2. TimelineInv
  <2>1. history = Run(loadedFor, 0, 0) /\ historyCursor = CursorAfter(0, 0) /\ loadedFor \notin Devices
    BY NoRun, DashboardAssumption DEF DashboardInit, CursorAfter
  <2> QED BY <2>1 DEF TimelineInv
<1>3. historyReqs = {}
  BY DEF DashboardInit
<1> QED BY <1>1, <1>2, <1>3 DEF HistoryInv

LEMMA HistoryStepInv ==
  ASSUME HistoryInv, [DashboardNext]_dashboardVars
  PROVE  HistoryInv'
<1>0. selected \in Selectable /\ listed \in Seq(Devices)
  BY DEF HistoryInv, EventsInv
<1>1. CASE UNCHANGED dashboardVars \/ DashboardIdle
  BY <1>0, <1>1, HistoryQuiet DEF dashboardVars, listVars, historyVars, DashboardIdle
<1>2. ASSUME NEW d \in Devices, Happens(d) PROVE HistoryInv'
  BY <1>2, HappensInv
<1>3. ASSUME NEW d \in Devices, SelectRow(d) PROVE HistoryInv'
  BY <1>3, SelectRowInv
<1>4. ASSUME NEW l \in DeviceLists, NewList(l) PROVE HistoryInv'
  BY <1>0, <1>4, HistoryQuiet, DashboardAssumption DEF NewList, historyVars
<1>5. CASE LoadMoreHistory
  BY <1>5, LoadMoreInv
<1>6. CASE Effects
  BY <1>6, EffectsInv
<1>7. ASSUME NEW d \in Devices, FactsArrive(d) \/ FactsFail(d) PROVE HistoryInv'
  BY <1>0, <1>7, HistoryQuiet DEF FactsArrive, FactsFail, listVars, historyVars
<1>8. ASSUME NEW r \in historyReqs, HistoryAnswer(r) \/ HistoryArrive(r) \/ HistoryFail(r) PROVE HistoryInv'
  BY <1>8, HistoryAnswerInv, HistoryArriveInv, HistoryFailInv
<1> QED BY <1>1, <1>2, <1>3, <1>4, <1>5, <1>6, <1>7, <1>8
        DEF DashboardNext, DashboardOperator, FactsRespond, HistoryRespond

LEMMA RunIsContiguous ==
  ASSUME HistoryInv, EffectsRan
  PROVE  HistoryContiguous
<1>1. PICK a, k \in Nat :
        /\ history = Run(loadedFor, a, k) /\ historyCursor = CursorAfter(a, k)
        /\ k <= a /\ (k = 0 => a = 0)
  BY DEF HistoryInv, TimelineInv
<1>2. /\ Len(history) = k /\ DOMAIN history = 1 .. k
      /\ \A i \in 1 .. k : history[i] = [of |-> loadedFor, n |-> a - (i - 1)]
  BY <1>1, RunIsSeq
<1>3. \A i \in 1 .. k : history[i].of = Chosen /\ history[i].n = a - (i - 1)
  BY <1>2 DEF EffectsRan
<1>4. \A i \in 1 .. k - 1 : history[i].n = history[i + 1].n + 1
  BY <1>3
<1>5. ASSUME HistoryCard = "all available events loaded"
      PROVE  history[Len(history)].n = 1
  <2>1. history # <<>> /\ historyCursor = 0
    BY <1>5 DEF HistoryCard, MoreToLoad
  <2>2. k # 0
    BY <1>1, <2>1, NoRun
  <2>3. k = a
    BY <1>1, <2>1 DEF CursorAfter
  <2> QED BY <1>2, <1>3, <2>2, <2>3
<1> QED BY <1>2, <1>3, <1>4, <1>5 DEF HistoryContiguous

\* The timeline has every event of the selected device once, newest first, down to
\* where its cursor says, for any page size and however many events are added.
THEOREM TimelineIsContiguous == DashboardSpec => []HistoryContiguous
<1>1. HistoryInv /\ [DashboardNext]_dashboardVars => HistoryInv'
  BY HistoryStepInv
<1>2. HistoryInv => HistoryContiguous
  BY RunIsContiguous DEF HistoryContiguous
<1> QED BY HistoryInitInv, <1>1, <1>2, PTL DEF DashboardSpec

-----------------------------------------------------------------------------
(* The forms.  A load that is not cancelled is for the device selected, so *)
(* a list that is not loading is that device's.  A load that began after   *)
(* the tags were saved reads a version not older than the one saved.       *)

Loads == [of : OpenDevices, ver : Nat]

FormsInv ==
  /\ device \in OpenDevices
  /\ version \in [OpenDevices -> Nat]
  /\ listRequest \in [LoadedLists -> Loads \cup {Nothing}]
  /\ listShown \in [LoadedLists -> Loads \cup {Nothing}]
  /\ \A l \in LoadedLists :
       IF loading(l) THEN listRequest[l].of = device ELSE listShown[l].of \in {device, NoOwner}
  /\ meta = [of |-> meta.of, how |-> meta.how]
  /\ meta.how = "default" => meta.of = device
  /\ formAction = NoAction \/ formAction.to \in OpenDevices

\* The version the tags of device d were saved in, if the last ones were d's.
SavedOf(d) == IF saved.of = d THEN saved.ver ELSE 0

NotOlder(read) == read.ver >= SavedOf(device)

SavedInv ==
  /\ saved = [of |-> saved.of, ver |-> saved.ver, reloaded |-> saved.reloaded] /\ saved.ver \in Nat
  /\ saved.reloaded \in BOOLEAN
  /\ \A d \in OpenDevices : SavedOf(d) <= version[d]
  /\ saved.reloaded =>
       /\ loading("tags") /\ listRequest["tags"].ver # Unread => NotOlder(listRequest["tags"])
       /\ ~loading("tags") /\ listShown["tags"] # Nothing => NotOlder(listShown["tags"])

LEMMA LoadIsLoad ==
  ASSUME NEW d \in OpenDevices
  PROVE  [of |-> d, ver |-> Unread] \in Loads /\ [of |-> d, ver |-> Unread] # Nothing
BY FormsAssumption DEF Loads, Nothing, Unread

LEMMA FormsInitInv == FormsInit => FormsInv
<1> SUFFICES ASSUME FormsInit PROVE FormsInv
  OBVIOUS
<1>1. device \in OpenDevices /\ version \in [OpenDevices -> Nat]
  BY DEF FormsInit
<1>2. /\ listRequest \in [LoadedLists -> Loads \cup {Nothing}]
      /\ listShown \in [LoadedLists -> Loads \cup {Nothing}]
      /\ \A l \in LoadedLists : loading(l) /\ listRequest[l].of = device
  BY <1>1, LoadIsLoad DEF FormsInit, loading
<1>3. /\ meta = [of |-> meta.of, how |-> meta.how] /\ (meta.how = "default" => meta.of = device)
      /\ formAction = NoAction
  BY DEF FormsInit
<1> QED BY <1>1, <1>2, <1>3, Zenon DEF FormsInv

\* Steps of the server and of core-go: neither lists nor fields change.
LEMMA FormsQuiet ==
  ASSUME FormsInv, UNCHANGED <<device, lists, meta>>, version' \in [OpenDevices -> Nat],
         formAction' = NoAction \/ formAction'.to \in OpenDevices
  PROVE  FormsInv'
BY Zenon DEF FormsInv, loading, lists

\* What the lists hold changes in one place.
LEMMA ListStepInv ==
  ASSUME FormsInv, UNCHANGED <<device, version, meta, formAction>>,
         NEW l \in LoadedLists, NEW req \in Loads \cup {Nothing}, NEW sh \in Loads \cup {Nothing},
         listRequest' = [listRequest EXCEPT ![l] = req], listShown' = [listShown EXCEPT ![l] = sh],
         IF req # Nothing THEN req.of = device ELSE sh.of \in {device, NoOwner}
  PROVE  FormsInv'
<1>1. /\ listRequest' \in [LoadedLists -> Loads \cup {Nothing}]
      /\ listShown' \in [LoadedLists -> Loads \cup {Nothing}]
      /\ \A k \in LoadedLists : listRequest'[k] = IF k = l THEN req ELSE listRequest[k]
      /\ \A k \in LoadedLists : listShown'[k] = IF k = l THEN sh ELSE listShown[k]
  BY DEF FormsInv
<1>2. ASSUME NEW k \in LoadedLists
      PROVE  IF loading(k)' THEN listRequest'[k].of = device' ELSE listShown'[k].of \in {device', NoOwner}
  BY <1>1 DEF FormsInv, loading
<1> QED BY <1>1, <1>2, Zenon DEF FormsInv

LEMMA FormsStepInv ==
  ASSUME FormsInv, [FormsNext]_formsVars
  PROVE  FormsInv'
<1>0. /\ device \in OpenDevices /\ version \in [OpenDevices -> Nat]
      /\ listRequest \in [LoadedLists -> Loads \cup {Nothing}]
      /\ listShown \in [LoadedLists -> Loads \cup {Nothing}]
      /\ formAction = NoAction \/ formAction.to \in OpenDevices
      /\ Nothing.of = NoOwner
  BY Zenon DEF FormsInv, Nothing
<1>1. CASE UNCHANGED formsVars
  BY <1>0, <1>1, FormsQuiet DEF formsVars, deviceVars, fields, acting
<1>2. ASSUME NEW d \in OpenDevices, Changes(d) PROVE FormsInv'
  BY <1>0, <1>2, FormsQuiet DEF Changes, deviceVars, fields, acting
<1>3. ASSUME NEW l \in LoadedLists, Reload(l) PROVE FormsInv'
  <2>1. /\ listRequest' = [listRequest EXCEPT ![l] = [of |-> device, ver |-> Unread]]
        /\ UNCHANGED <<device, version, listShown, meta, formAction>>
    BY <1>3 DEF Reload, Load, deviceVars, fields, acting
  <2>2. listShown' = [listShown EXCEPT ![l] = listShown[l]] /\ listShown[l] \in Loads \cup {Nothing}
    BY <1>0, <2>1
  <2>3. [of |-> device, ver |-> Unread].of = device
    OBVIOUS
  <2> QED BY <1>0, <2>1, <2>2, <2>3, LoadIsLoad, ListStepInv
<1>4. ASSUME NEW l \in LoadedLists, Read(l) PROVE FormsInv'
  <2> DEFINE v == IF l = "tags" THEN version[listRequest[l].of] ELSE 0
  <2>1. listRequest[l] \in Loads /\ listRequest[l].of = device
    BY <1>0, <1>4 DEF FormsInv, Read, loading
  <2>2. v \in Nat
    BY <1>0, <2>1
  <2>3. [of |-> device, ver |-> v] \in Loads /\ [of |-> device, ver |-> v] # Nothing
    BY <1>0, <2>2, FormsAssumption DEF Loads, Nothing
  <2>4. listRequest' = [listRequest EXCEPT ![l] = [of |-> device, ver |-> v]]
    <3>1. listRequest' = [listRequest EXCEPT ![l] = [listRequest[l] EXCEPT !.ver = v]]
      BY <1>4, Zenon DEF Read
    <3>2. [listRequest[l] EXCEPT !.ver = v] = [of |-> device, ver |-> v]
      BY <2>1 DEF Loads
    <3> QED BY <3>1, <3>2, Zenon
  <2> HIDE DEF v
  <2>5. listShown' = [listShown EXCEPT ![l] = listShown[l]] /\ listShown[l] \in Loads \cup {Nothing}
    BY <1>0, <1>4 DEF Read
  <2> QED BY <1>4, <2>3, <2>4, <2>5, ListStepInv DEF Read, deviceVars, fields, acting
<1>5. ASSUME NEW l \in LoadedLists, ListArrives(l) PROVE FormsInv'
  <2>1. listRequest[l] \in Loads \cup {Nothing} /\ listRequest[l].of = device
    BY <1>0, <1>5 DEF FormsInv, ListArrives, loading
  <2> QED BY <1>5, <2>1, ListStepInv DEF ListArrives, deviceVars, acting
<1>6. ASSUME NEW l \in LoadedLists, LoadFails(l) PROVE FormsInv'
  BY <1>0, <1>6, ListStepInv DEF LoadFails, deviceVars, fields, acting
<1>7. ASSUME NEW d \in OpenDevices, ShowDevice(d) PROVE FormsInv'
  <2>1. /\ listRequest' = [l \in LoadedLists |-> [of |-> d, ver |-> Unread]]
        /\ device' = d /\ UNCHANGED <<version, listShown, formAction>>
    BY <1>7 DEF ShowDevice, Load, acting, FormsInv
  <2>2. /\ listRequest' \in [LoadedLists -> Loads \cup {Nothing}]
        /\ \A l \in LoadedLists : loading(l)' /\ listRequest'[l].of = d
    BY <2>1, LoadIsLoad DEF loading
  <2>3. meta' = [of |-> meta'.of, how |-> meta'.how] /\ (meta'.how = "default" => meta'.of = d)
    BY <1>7 DEF ShowDevice, Defaulted, Showing, FormsInv
  <2> QED BY <1>0, <2>1, <2>2, <2>3, Zenon DEF FormsInv
<1>8. CASE TypeMetadata
  <2>1. meta' = [of |-> meta.of, how |-> "own"]
    BY <1>8 DEF TypeMetadata, FormsInv
  <2>2. meta' = [of |-> meta'.of, how |-> meta'.how] /\ meta'.how # "default"
    BY <2>1
  <2>3. UNCHANGED <<device, version, listRequest, listShown, formAction>>
    BY <1>8 DEF TypeMetadata, deviceVars, lists, acting
  <2> QED BY <2>2, <2>3, Zenon DEF FormsInv, loading
<1>9. CASE ToggleTag \/ \E p \in Panels : Submit(p)
  BY <1>0, <1>9, FormsQuiet DEF Submit, ToggleTag, deviceVars, fields, acting
<1>10. CASE Server
  <2>1. UNCHANGED <<device, lists, meta>>
    BY <1>10 DEF Server, updateDeviceTags, updateDeviceDisplayName, updateDeviceMetadata, Refused, deviceVars, fields
  <2>2. version' \in [OpenDevices -> Nat]
    BY <1>0, <1>10 DEF Server, updateDeviceTags, updateDeviceDisplayName, updateDeviceMetadata, Refused
  <2>3. formAction # NoAction /\ \E pc \in {"done", "failed"} : formAction' = [formAction EXCEPT !.pc = pc]
    BY <1>10 DEF Server, updateDeviceTags, updateDeviceDisplayName, updateDeviceMetadata, Refused, Acted, NoAction
  <2>4. formAction'.to \in OpenDevices
    BY <1>0, <2>3
  <2> QED BY <2>1, <2>2, <2>4, FormsQuiet
<1>11. CASE Returned
  <2>1. /\ UNCHANGED <<device, version, listShown>> /\ formAction' = NoAction
    BY <1>11 DEF Returned, deviceVars
  <2>2. meta' = [of |-> meta'.of, how |-> meta'.how] /\ (meta'.how = "default" => meta'.of = device)
    BY <1>11 DEF Returned, Showing, FormsInv
  <2>3. CASE UNCHANGED listRequest
    BY <1>0, <2>1, <2>2, <2>3, Zenon DEF FormsInv, loading
  <2>4. ASSUME NEW p \in LoadedLists, listRequest' = Load(p, device) PROVE FormsInv'
    <3>1. /\ listRequest' \in [LoadedLists -> Loads \cup {Nothing}]
          /\ \A k \in LoadedLists :
               IF loading(k)' THEN listRequest'[k].of = device ELSE listShown[k].of \in {device, NoOwner}
      BY <1>0, <2>4, LoadIsLoad DEF Load, FormsInv, loading
    <3> QED BY <1>0, <2>1, <2>2, <3>1, Zenon DEF FormsInv, loading
  <2> QED BY <1>11, <2>3, <2>4, Zenon DEF Returned
<1> QED BY <1>1, <1>2, <1>3, <1>4, <1>5, <1>6, <1>7, <1>8, <1>9, <1>10, <1>11
        DEF FormsNext, Answers, FormsOperator

\* What is under a device's name is that device's, for any devices, loads, selections
\* and submissions.
THEOREM ListsAreOfSelected == FormsSpec => []ListsOfSelected
<1>1. FormsInv => ListsOfSelected
  BY Zenon DEF FormsInv, ListsOfSelected
<1>2. FormsInv /\ [FormsNext]_formsVars => FormsInv'
  BY FormsStepInv
<1> QED BY FormsInitInv, <1>1, <1>2, PTL DEF FormsSpec

LEMMA SavedInitInv == FormsInit => SavedInv
<1> SUFFICES ASSUME FormsInit PROVE SavedInv
  OBVIOUS
<1>1. saved = [of |-> NoOwner, ver |-> 0, reloaded |-> FALSE] /\ ~saved.reloaded
  BY DEF FormsInit
<1>2. saved = [of |-> saved.of, ver |-> saved.ver, reloaded |-> saved.reloaded] /\ saved.ver = 0
  BY <1>1
<1>3. \A d \in OpenDevices : SavedOf(d) <= version[d]
  <2>1. version = [d \in OpenDevices |-> 0]
    BY Zenon DEF FormsInit
  <2>2. TAKE d \in OpenDevices
  <2>3. SavedOf(d) = 0
    BY <1>2 DEF SavedOf
  <2>4. version[d] = 0
    BY <2>1
  <2> QED BY <2>3, <2>4
<1>4. saved.reloaded \in BOOLEAN
  BY <1>1
<1> QED BY <1>1, <1>2, <1>3, <1>4, Zenon DEF SavedInv

LEMMA SavedOfIsNat == ASSUME SavedInv, NEW d PROVE SavedOf(d) \in Nat
BY DEF SavedInv, SavedOf

\* Steps that save nothing.  What the list of tags is loading or shows stays, is to be
\* read again, has been read just now, or arrives.
LEMMA SavedFrame ==
  ASSUME FormsInv, FormsInv', SavedInv, saved' = saved,
         \A d \in OpenDevices : version'[d] >= version[d],
         \/ /\ device' = device
            /\ listRequest'["tags"] = listRequest["tags"] /\ listShown'["tags"] = listShown["tags"]
         \/ loading("tags")' /\ listRequest'["tags"].ver = Unread'
         \/ loading("tags")' /\ listRequest'["tags"].ver = version'[device']
         \/ /\ device' = device
            /\ loading("tags") /\ listRequest["tags"].ver # Unread
            /\ ~loading("tags")' /\ listShown'["tags"] = listRequest["tags"]
         \/ ~loading("tags")' /\ listShown'["tags"] = Nothing
  PROVE  SavedInv'
<1>1. \A d : SavedOf(d)' = SavedOf(d) /\ SavedOf(d) \in Nat
  BY SavedOfIsNat DEF SavedOf
<1>2. \A d \in OpenDevices : version[d] \in Nat /\ version'[d] \in Nat
  BY DEF FormsInv
<1>3. ASSUME NEW d \in OpenDevices PROVE SavedOf(d)' <= version'[d]
  BY <1>1, <1>2 DEF SavedInv
<1>4. /\ saved' = [of |-> saved'.of, ver |-> saved'.ver, reloaded |-> saved'.reloaded] /\ saved'.ver \in Nat
      /\ saved'.reloaded \in BOOLEAN
  BY Zenon DEF SavedInv
<1>5. device' \in OpenDevices
  BY DEF FormsInv
<1>6. ASSUME saved'.reloaded
      PROVE  /\ loading("tags")' /\ listRequest'["tags"].ver # Unread' => NotOlder(listRequest["tags"])'
             /\ ~loading("tags")' /\ listShown'["tags"] # Nothing => NotOlder(listShown["tags"])'
  <2>1. saved.reloaded
    BY <1>6
  <2>2. /\ loading("tags") /\ listRequest["tags"].ver # Unread => NotOlder(listRequest["tags"])
        /\ ~loading("tags") /\ listShown["tags"] # Nothing => NotOlder(listShown["tags"])
    BY <2>1 DEF SavedInv
  <2>3. SavedOf(device') <= version'[device'] /\ SavedOf(device') \in Nat /\ version'[device'] \in Nat
    BY <1>1, <1>2, <1>3, <1>5
  <2>4. SavedOf(device)' = SavedOf(device')
    BY DEF SavedOf
  <2>5. Unread' = Unread /\ Nothing' = Nothing
    BY DEF Unread, Nothing
  <2> QED BY <2>2, <2>3, <2>4, <2>5 DEF loading, NotOlder
<1> QED BY <1>3, <1>4, <1>6, Zenon DEF SavedInv

LEMMA SavedStepInv ==
  ASSUME FormsInv, SavedInv, [FormsNext]_formsVars, FormsInv'
  PROVE  SavedInv'
<1>0. /\ device \in OpenDevices /\ "tags" \in LoadedLists
      /\ \A d \in OpenDevices : version[d] \in Nat /\ version[d] >= version[d]
      /\ listRequest \in [LoadedLists -> Loads \cup {Nothing}]
      /\ listShown \in [LoadedLists -> Loads \cup {Nothing}]
  BY DEF FormsInv, LoadedLists
<1>1. CASE UNCHANGED <<device, version, lists, saved>>
  BY <1>0, <1>1, SavedFrame DEF lists
<1>2. ASSUME NEW d \in OpenDevices, Changes(d) PROVE SavedInv'
  <2>1. \A e \in OpenDevices : version'[e] >= version[e]
    BY <1>0, <1>2 DEF Changes, FormsInv
  <2> QED BY <1>2, <2>1, SavedFrame DEF Changes, deviceVars, lists, acting
<1>3. ASSUME NEW l \in LoadedLists, Reload(l) PROVE SavedInv'
  <2>1. UNCHANGED <<device, version, listShown, saved>> /\ listRequest' = [listRequest EXCEPT ![l] = [of |-> device, ver |-> Unread]]
    BY <1>3 DEF Reload, Load, deviceVars, acting
  <2>2. CASE l = "tags"
    <3>1. listRequest'["tags"] = [of |-> device, ver |-> Unread]
      BY <1>0, <2>1, <2>2
    <3>2. loading("tags")' /\ listRequest'["tags"].ver = Unread'
      BY <1>0, <3>1, LoadIsLoad DEF loading, Unread, Nothing
    <3> QED BY <1>0, <2>1, <3>2, SavedFrame
  <2>3. CASE l # "tags"
    BY <1>0, <2>1, <2>3, SavedFrame
  <2> QED BY <2>2, <2>3
<1>4. ASSUME NEW l \in LoadedLists, Read(l) PROVE SavedInv'
  <2>1. UNCHANGED <<device, version, listShown, saved>>
    BY <1>4 DEF Read, deviceVars, acting
  <2>2. CASE l = "tags"
    <3>1. listRequest["tags"] \in Loads /\ listRequest["tags"].of = device
      BY <1>0, <1>4, <2>2 DEF FormsInv, Read, loading
    <3>2. listRequest'["tags"] = [listRequest["tags"] EXCEPT !.ver = version[listRequest["tags"].of]]
      BY <1>0, <1>4, <2>2 DEF Read
    <3>3. listRequest'["tags"] = [of |-> device, ver |-> version[device]]
      BY <3>1, <3>2 DEF Loads
    <3>4. loading("tags")' /\ listRequest'["tags"].ver = version'[device']
      BY <1>0, <2>1, <3>3, FormsAssumption DEF loading, Nothing
    <3> QED BY <1>0, <2>1, <3>4, SavedFrame
  <2>3. CASE l # "tags"
    <3>1. listRequest'["tags"] = listRequest["tags"]
      BY <1>0, <1>4, <2>3 DEF Read
    <3> QED BY <1>0, <2>1, <3>1, SavedFrame
  <2> QED BY <2>2, <2>3
<1>5. ASSUME NEW l \in LoadedLists, ListArrives(l) PROVE SavedInv'
  <2>1. /\ UNCHANGED <<device, version, saved>>
        /\ listShown' = [listShown EXCEPT ![l] = listRequest[l]]
        /\ listRequest' = [listRequest EXCEPT ![l] = Nothing]
        /\ loading(l) /\ listRequest[l].ver # Unread
    BY <1>5 DEF ListArrives, deviceVars, acting
  <2>2. CASE l = "tags"
    <3>1. ~loading("tags")' /\ listShown'["tags"] = listRequest["tags"]
      BY <1>0, <2>1, <2>2 DEF loading
    <3> QED BY <1>0, <2>1, <2>2, <3>1, SavedFrame
  <2>3. CASE l # "tags"
    BY <1>0, <2>1, <2>3, SavedFrame
  <2> QED BY <2>2, <2>3
<1>6. ASSUME NEW l \in LoadedLists, LoadFails(l) PROVE SavedInv'
  <2>1. /\ UNCHANGED <<device, version, saved>>
        /\ listShown' = [listShown EXCEPT ![l] = Nothing]
        /\ listRequest' = [listRequest EXCEPT ![l] = Nothing]
    BY <1>6 DEF LoadFails, deviceVars, acting
  <2>2. CASE l = "tags"
    <3>1. ~loading("tags")' /\ listShown'["tags"] = Nothing
      BY <1>0, <2>1, <2>2 DEF loading
    <3> QED BY <1>0, <2>1, <3>1, SavedFrame
  <2>3. CASE l # "tags"
    BY <1>0, <2>1, <2>3, SavedFrame
  <2> QED BY <2>2, <2>3
<1>7. ASSUME NEW d \in OpenDevices, ShowDevice(d) PROVE SavedInv'
  <2>1. /\ listRequest' = [l \in LoadedLists |-> [of |-> d, ver |-> Unread]]
        /\ UNCHANGED <<version, saved>>
    BY <1>7 DEF ShowDevice, Load, acting, FormsInv
  <2>2. loading("tags")' /\ listRequest'["tags"].ver = Unread'
    BY <1>0, <2>1, LoadIsLoad DEF loading, Unread, Nothing
  <2> QED BY <1>0, <2>1, <2>2, SavedFrame
<1>8. CASE updateDeviceTags
  <2>1. /\ formAction.to \in OpenDevices
        /\ version' = [version EXCEPT ![formAction.to] = @ + 1]
        /\ saved' = [of |-> formAction.to, ver |-> version'[formAction.to], reloaded |-> FALSE]
    BY <1>8 DEF updateDeviceTags, FormsInv, NoAction
  <2>2. saved'.of = formAction.to /\ saved'.ver = version'[formAction.to] /\ saved'.reloaded = FALSE
    BY <2>1
  <2>3. \A d \in OpenDevices : version'[d] \in Nat
    BY DEF FormsInv
  <2>4. ASSUME NEW d \in OpenDevices PROVE SavedOf(d)' <= version'[d]
    BY <2>2, <2>3 DEF SavedOf
  <2>5. saved' = [of |-> saved'.of, ver |-> saved'.ver, reloaded |-> saved'.reloaded] /\ saved'.ver \in Nat
    BY <2>1, <2>3
  <2>6. saved'.reloaded \in BOOLEAN
    BY <2>2
  <2> QED BY <2>2, <2>4, <2>5, <2>6, Zenon DEF SavedInv
<1>9. CASE Returned
  <2>1. UNCHANGED <<device, version, listShown>>
    BY <1>9 DEF Returned, deviceVars
  <2>2. CASE formAction.panel = "tags" /\ Succeeds("tags")
    <3>1. /\ listRequest' = [listRequest EXCEPT !["tags"] = [of |-> device, ver |-> Unread]]
      BY <1>9, <2>2, Zenon DEF Returned, Load, LoadedLists
    <3>2. listRequest'["tags"] = [of |-> device, ver |-> Unread]
      BY <1>0, <3>1
    <3>3. loading("tags")' /\ listRequest'["tags"].ver = Unread'
      BY <1>0, <3>2, LoadIsLoad DEF loading, Unread, Nothing
    <3>4. saved' = [saved EXCEPT !.reloaded = saved.reloaded \/ (formAction.panel = "tags" /\ Succeeds(formAction.panel))]
      BY <1>9, Zenon DEF Returned
    <3>5. \E b \in BOOLEAN : saved' = [of |-> saved.of, ver |-> saved.ver, reloaded |-> b]
      BY <3>4 DEF SavedInv
    <3>6. saved' = [of |-> saved'.of, ver |-> saved'.ver, reloaded |-> saved'.reloaded] /\ saved'.of = saved.of /\ saved'.ver = saved.ver
          /\ saved'.reloaded \in BOOLEAN
      BY <3>5
    <3>7. \A d \in OpenDevices : SavedOf(d)' <= version'[d]
      BY <2>1, <3>6 DEF SavedInv, SavedOf
    <3> QED BY <3>3, <3>6, <3>7, Zenon DEF SavedInv
  <2>3. CASE ~(formAction.panel = "tags" /\ Succeeds("tags"))
    <3>1. listRequest'["tags"] = listRequest["tags"]
      <4>1. CASE UNCHANGED listRequest
        BY <4>1
      <4>2. ASSUME NEW p \in LoadedLists, p # "tags", listRequest' = Load(p, device) PROVE listRequest'["tags"] = listRequest["tags"]
        BY <1>0, <4>2 DEF Load
      <4> QED BY <1>9, <2>3, <4>1, <4>2, Zenon DEF Returned
    <3>2. saved' = [saved EXCEPT !.reloaded = saved.reloaded]
      <4>1. ~(formAction.panel = "tags" /\ Succeeds(formAction.panel))
        BY <2>3, Zenon
      <4>2. saved' = [saved EXCEPT !.reloaded = saved.reloaded \/ (formAction.panel = "tags" /\ Succeeds(formAction.panel))]
        BY <1>9, Zenon DEF Returned
      <4>3. (saved.reloaded \/ (formAction.panel = "tags" /\ Succeeds(formAction.panel))) = saved.reloaded
        BY <4>1, Zenon DEF SavedInv
      <4> QED BY <4>2, <4>3, Zenon
    <3>3. saved' = saved
      BY <3>2 DEF SavedInv
    <3> QED BY <1>0, <2>1, <3>1, <3>3, SavedFrame
  <2> QED BY <2>2, <2>3
<1>10. CASE updateDeviceDisplayName \/ updateDeviceMetadata \/ Refused \/ TypeMetadata \/ ToggleTag
           \/ (\E p \in Panels : Submit(p)) \/ UNCHANGED formsVars
  BY <1>1, <1>10 DEF updateDeviceDisplayName, updateDeviceMetadata, Refused, TypeMetadata, ToggleTag, Submit, formsVars, deviceVars, acting
<1> QED BY <1>2, <1>3, <1>4, <1>5, <1>6, <1>7, <1>8, <1>9, <1>10
        DEF FormsNext, Answers, FormsOperator, Server

\* Beside "Manual tags updated." there is never a list from before, for any loads and
\* changes that were under way.
THEOREM SavedTagsAreShown == FormsSpec => []SavedIsShown
<1>1. FormsInv /\ SavedInv => SavedIsShown
  <2> SUFFICES ASSUME SavedInv, saved.reloaded, saved.of = device, ~loading("tags"), listShown["tags"] # Nothing
               PROVE  listShown["tags"].ver >= saved.ver
    BY Zenon DEF SavedIsShown
  <2> QED BY DEF SavedInv, NotOlder, SavedOf
<1>2. FormsInv /\ SavedInv /\ [FormsNext]_formsVars => FormsInv' /\ SavedInv'
  BY FormsStepInv, SavedStepInv
<1> QED BY FormsInitInv, SavedInitInv, <1>1, <1>2, PTL DEF FormsSpec

-----------------------------------------------------------------------------
(* A list that older pages are appended to shows the numbers from a down,  *)
(* k of them, and its cursor says where they end, as in the timeline.      *)

Down(a, k) == [i \in 1 .. k |-> a - (i - 1)]

EndOf(a, k) == IF k = a THEN 0 ELSE a - k + 1

ShowsDown(list, left, a, k) ==
  /\ a \in Nat /\ k \in Nat /\ k <= a /\ (k = 0 => a = 0)
  /\ list = Down(a, k) /\ left = EndOf(a, k)

LogInv ==
  /\ written \in Nat
  /\ \E a \in 0 .. written, k \in Nat : ShowsDown(entries, logCursor, a, k)
  /\ logRequest # "idle" => logCursor # 0
  /\ logRequest = "answered" =>
       \E m \in Nat : ShowsDown(logAnswer.list, logAnswer.next, logCursor - 1, m)

LEMMA DownIsSeq ==
  ASSUME NEW a \in Nat, NEW k \in Nat
  PROVE  /\ Down(a, k) \in Seq(Int)
         /\ Len(Down(a, k)) = k
         /\ \A i \in 1 .. k : Down(a, k)[i] = a - (i - 1)
<1>1. Down(a, k) \in [1 .. k -> Int]
  BY DEF Down
<1>2. Down(a, k) \in Seq(Int)
  BY <1>1, SeqDef
<1> QED BY <1>1, <1>2 DEF Down

LEMMA DownsJoin ==
  ASSUME NEW a \in Nat, NEW k \in Nat, NEW m \in Nat, k <= a
  PROVE  Down(a, k) \o Down(a - k, m) = Down(a, k + m)
<1> DEFINE s == Down(a, k)
           t == Down(a - k, m)
           u == Down(a, k + m)
<1>0. a - k \in Nat /\ k + m \in Nat
  OBVIOUS
<1>1. /\ s \in Seq(Int) /\ t \in Seq(Int) /\ u \in Seq(Int)
      /\ Len(s) = k /\ Len(t) = m /\ Len(u) = k + m
      /\ \A i \in 1 .. k : s[i] = a - (i - 1)
      /\ \A i \in 1 .. m : t[i] = (a - k) - (i - 1)
      /\ \A i \in 1 .. k + m : u[i] = a - (i - 1)
  BY <1>0, DownIsSeq
<1> HIDE DEF s, t, u
<1>2. /\ s \o t \in Seq(Int) /\ Len(s \o t) = k + m
      /\ \A i \in 1 .. k + m : (s \o t)[i] = IF i <= k THEN s[i] ELSE t[i - k]
  BY <1>1, ConcatProperties
<1>3. ASSUME NEW i \in 1 .. k + m PROVE (s \o t)[i] = u[i]
  <2>1. CASE i <= k
    BY <1>1, <1>2, <2>1
  <2>2. CASE ~(i <= k)
    <3>1. i - k \in 1 .. m /\ (a - k) - ((i - k) - 1) = a - (i - 1)
      BY <2>2
    <3>2. (s \o t)[i] = t[i - k]
      BY <1>2, <2>2
    <3> QED BY <1>1, <3>1, <3>2
  <2> QED BY <2>1, <2>2
<1>4. s \o t = u
  BY <1>1, <1>2, <1>3, SeqEqual
<1> QED BY <1>4 DEF s, t, u

\* A page that continues a list makes it longer.
LEMMA PageContinues ==
  ASSUME NEW list, NEW left, NEW a, NEW k, ShowsDown(list, left, a, k), left # 0,
         NEW more, NEW end, NEW m, ShowsDown(more, end, left - 1, m)
  PROVE  ShowsDown(list \o more, end, a, k + m)
<1>1. a \in Nat /\ k \in Nat /\ m \in Nat /\ k <= a /\ list = Down(a, k) /\ left = EndOf(a, k)
  BY Zenon DEF ShowsDown
<1>2. more = Down(left - 1, m) /\ end = EndOf(left - 1, m) /\ m <= left - 1
  BY Zenon DEF ShowsDown
<1>3. k # a /\ left - 1 = a - k
  BY <1>1 DEF EndOf
<1>4. list \o more = Down(a, k + m)
  <2>1. Down(a, k) \o Down(a - k, m) = Down(a, k + m)
    BY <1>1, DownsJoin
  <2> QED BY <1>1, <1>2, <1>3, <2>1, Zenon
<1>5. end = EndOf(a, k + m)
  BY <1>1, <1>2, <1>3 DEF EndOf
<1>6. k + m \in Nat /\ k + m <= a /\ k + m # 0
  <2>1. k = 0 => a = 0
    BY Zenon DEF ShowsDown
  <2> QED BY <1>1, <1>2, <1>3, <2>1
<1> QED BY <1>1, <1>4, <1>5, <1>6 DEF ShowsDown

\* What the server answers.
LEMMA EntriesShow ==
  ASSUME written \in Nat, NEW before \in 0 .. written
  PROVE  LET page == EntriesBefore(before)
             top == IF before = 0 THEN written ELSE before - 1
         IN \E m \in Nat : ShowsDown(page.list, page.next, top, m)
<1> DEFINE top == IF before = 0 THEN written ELSE before - 1
           size == IF top < LogPageLimit THEN top ELSE LogPageLimit
<1>0. LogPageLimit \in Nat /\ LogPageLimit # 0
  BY ListAssumption, Zenon
<1>1. top \in Nat /\ NewestEntry(before) = top
  BY DEF NewestEntry
<1>2. size \in Nat /\ size <= top /\ (size = 0 => top = 0)
  BY <1>0, <1>1
<1>3. EndOf(top, size) = IF top > LogPageLimit THEN top - LogPageLimit + 1 ELSE 0
  BY <1>0, <1>1 DEF EndOf
<1>4. EntriesBefore(before).list = Down(top, size) /\ EntriesBefore(before).next = EndOf(top, size)
  BY <1>1, <1>3 DEF EntriesBefore, Down
<1> HIDE DEF top, size
<1>5. ShowsDown(EntriesBefore(before).list, EntriesBefore(before).next, top, size)
  BY <1>1, <1>2, <1>4 DEF ShowsDown
<1> QED BY <1>2, <1>5 DEF top

LEMMA EmptyShown == ShowsDown(<<>>, 0, 0, 0)
BY DEF ShowsDown, Down, EndOf

LEMMA LogInitInv == LogInit => LogInv
<1> SUFFICES ASSUME LogInit PROVE LogInv
  OBVIOUS
<1>1. written \in Nat
  BY ListAssumption DEF LogInit
<1>2. \E m \in Nat : ShowsDown(EntriesBefore(0).list, EntriesBefore(0).next, written, m)
  BY <1>1, EntriesShow
<1>3. \E a \in 0 .. written, k \in Nat : ShowsDown(entries, logCursor, a, k)
  <2>1. CASE entries = EntriesBefore(0).list /\ logCursor = EntriesBefore(0).next
    BY <1>1, <1>2, <2>1
  <2>2. CASE entries = <<>> /\ logCursor = 0
    BY <1>1, <2>2, EmptyShown
  <2> QED BY <2>1, <2>2 DEF LogInit
<1>4. logRequest = "idle"
  BY DEF LogInit
<1> QED BY <1>1, <1>3, <1>4 DEF LogInv

LEMMA LogStepInv ==
  ASSUME LogInv, [LogNext]_logVars
  PROVE  LogInv'
<1>0. PICK a \in 0 .. written, k \in Nat : ShowsDown(entries, logCursor, a, k)
  BY DEF LogInv
<1>1. CASE UNCHANGED <<entries, logCursor, logRequest, logAnswer>> /\ written' \in Nat /\ written' >= written
  <2>1. a \in 0 .. written'
    BY <1>1 DEF LogInv
  <2> QED BY <1>0, <1>1, <2>1, Zenon DEF LogInv
<1>2. CASE LoadOlderLogs
  <2>1. UNCHANGED <<written, entries, logCursor>> /\ logRequest' = "asked" /\ logCursor # 0
    BY <1>2, Zenon DEF LoadOlderLogs
  <2>2. logRequest' # "answered" /\ written \in Nat
    BY <2>1 DEF LogInv
  <2> QED BY <1>0, <2>1, <2>2, Zenon DEF LogInv
<1>3. CASE LogAnswer
  <2>1. /\ UNCHANGED <<written, entries, logCursor>> /\ logRequest' = "answered"
        /\ logAnswer' = EntriesBefore(logCursor) /\ logCursor # 0 /\ written \in Nat
    BY <1>3 DEF LogAnswer, LogInv
  <2>2. logCursor \in 0 .. written
    BY <1>0, <2>1 DEF ShowsDown, EndOf
  <2>3. \E m \in Nat : ShowsDown(EntriesBefore(logCursor).list, EntriesBefore(logCursor).next, logCursor - 1, m)
    BY <2>1, <2>2, EntriesShow
  <2> QED BY <1>0, <2>1, <2>3 DEF LogInv
<1>4. CASE LogArrive
  <2>1. /\ written' = written /\ logRequest' = "idle" /\ logCursor # 0
        /\ entries' = entries \o logAnswer.list /\ logCursor' = logAnswer.next
    BY <1>4 DEF LogArrive, LogInv
  <2>2. PICK m \in Nat : ShowsDown(logAnswer.list, logAnswer.next, logCursor - 1, m)
    BY <1>4 DEF LogArrive, LogInv
  <2>3. ShowsDown(entries', logCursor', a, k + m) /\ k + m \in Nat
    BY <1>0, <2>1, <2>2, PageContinues
  <2> QED BY <2>1, <2>3 DEF LogInv
<1>5. CASE LogFails
  BY <1>5 DEF LogFails, LogInv
<1> QED BY <1>1, <1>2, <1>3, <1>4, <1>5 DEF LogNext, Write, LogRest, logVars, LogInv

\* The entries shown are consecutive and complete where the list says so, for any page
\* size, any entries written meanwhile and any failures.
THEOREM EntriesAreConsecutive == LogSpec => []Consecutive
<1>1. LogInv => Consecutive
  <2> SUFFICES ASSUME LogInv PROVE Consecutive
    OBVIOUS
  <2>1. PICK a \in Nat, k \in Nat : ShowsDown(entries, logCursor, a, k)
    BY DEF LogInv
  <2>2. Len(entries) = k /\ entries \in Seq(Int) /\ \A i \in 1 .. k : entries[i] = a - (i - 1)
    BY <2>1, DownIsSeq DEF ShowsDown
  <2>3. \A i \in 1 .. k - 1 : entries[i] = entries[i + 1] + 1
    BY <2>2
  <2>4. ASSUME ListFooter = "all loaded" PROVE Last(entries) = 1
    <3>1. logCursor = 0 /\ entries # <<>>
      BY <2>4 DEF ListFooter
    <3>2. k # 0 /\ k = a
      BY <2>1, <2>2, <3>1 DEF ShowsDown, EndOf
    <3> QED BY <2>2, <3>2 DEF Last
  <2> QED BY <2>2, <2>3, <2>4 DEF Consecutive
<1>2. LogInv /\ [LogNext]_logVars => LogInv'
  BY LogStepInv
<1> QED BY LogInitInv, <1>1, <1>2, PTL DEF LogSpec

-----------------------------------------------------------------------------
(* Types of the panel.  A run that is active is queued, so the counts stay *)
(* within one bound; the timers and the dialog only take values of their   *)
(* kind.                                                                   *)

PollingOK ==
  /\ tab \in {"visible", "hidden"} /\ hides \in 0 .. MaxHides /\ shown \in BOOLEAN
  /\ timer \in BOOLEAN /\ statusPoll \in {"idle", "asked", "answered", "failed"}
  /\ statusAnswer \in BOOLEAN /\ attempts \in 0 .. Retries /\ pollFailures \in 0 .. MaxPollFailures

QueueOK == active \in Nat /\ queued \in 0 .. MaxQueued /\ active <= queued

FormOK ==
  /\ dialog \in BOOLEAN /\ bypass \in BOOLEAN
  /\ pending \in Nat /\ trigger \in {"none", "sent", "accepted", "refused"}
  /\ confirms \in Nat /\ submits \in Nat /\ busySubmits \in Nat

PanelParts == QueueOK /\ PollingOK /\ FormOK

LEMMA PanelPartsType == PanelParts => PanelTypeOK
<1> SUFFICES ASSUME PanelParts PROVE PanelTypeOK
  OBVIOUS
<1>1. active \in 0 .. MaxQueued
  BY PanelAssumption DEF PanelParts, QueueOK
<1> QED BY <1>1, Zenon DEF PanelParts, QueueOK, PollingOK, FormOK, PanelTypeOK

LEMMA PanelPartsInit == PanelInit => PanelParts
<1> SUFFICES ASSUME PanelInit PROVE PanelParts
  OBVIOUS
<1>1. QueueOK
  BY PanelAssumption DEF PanelInit, QueueOK
<1>2. 0 \in 0 .. MaxHides /\ 0 \in 0 .. Retries /\ 0 \in 0 .. MaxPollFailures /\ 0 \in Nat
  BY PanelAssumption DEF Retries
<1>3. PollingOK /\ FormOK
  BY <1>2, Zenon DEF PanelInit, PollingOK, FormOK
<1> QED BY <1>1, <1>3 DEF PanelParts

LEMMA QueueStep == QueueOK /\ [PanelNext]_panelVars => QueueOK'
<1> SUFFICES ASSUME QueueOK, [PanelNext]_panelVars PROVE QueueOK'
  OBVIOUS
<1>1. CASE queued < MaxQueued /\ queued' = queued + 1 /\ active' = active + 1
  BY <1>1, PanelAssumption DEF QueueOK
<1>2. CASE ActiveEnds
  BY <1>2 DEF ActiveEnds, Busy, QueueOK
<1>3. CASE UNCHANGED server
  BY <1>3 DEF server, QueueOK
<1> QED BY <1>1, <1>2, <1>3, Zenon
    DEF PanelNext, StatusPoll, Trigger, PanelOperator, OtherTrigger, StatusTick, StatusAnswer, Deliver, Retry, StatusFails,
        Send, Accept, Refuse, Return, Hide, Show, Render, Click, Confirm, Cancel, PanelRendered, panelVars

LEMMA PollingStep == PollingOK /\ [PanelNext]_panelVars => PollingOK'
<1> SUFFICES ASSUME PollingOK, [PanelNext]_panelVars PROVE PollingOK'
  OBVIOUS
<1> USE DEF PollingOK
<1>0. Interval \in BOOLEAN /\ Busy \in BOOLEAN /\ 0 \in 0 .. Retries
  BY DEF Interval, Busy, Retries
<1>1. CASE StatusTick \/ StatusAnswer \/ Deliver \/ Retry \/ Render
  BY <1>0, <1>1, Zenon DEF StatusTick, StatusAnswer, Deliver, Retry, Render, window
<1>2. CASE StatusFails
  <2>1. pollFailures' \in 0 .. MaxPollFailures
    BY <1>2, PanelAssumption DEF StatusFails
  <2>2. attempts' \in 0 .. Retries /\ statusPoll' \in {"idle", "failed"}
    BY <1>2 DEF StatusFails, Retries
  <2> QED BY <1>0, <1>2, <2>1, <2>2, Zenon DEF StatusFails, window
<1>3. CASE Hide
  <2>1. hides' \in 0 .. MaxHides
    BY <1>3, PanelAssumption DEF Hide
  <2> QED BY <1>3, <2>1, Zenon DEF Hide, polling
<1>4. CASE Show
  BY <1>4, Zenon DEF Show, polling
<1>5. CASE Return \/ PanelRendered
  BY <1>0, <1>5, Zenon DEF Return, PanelRendered, window
<1>6. CASE UNCHANGED <<shown, window, polling>>
  BY <1>6, Zenon DEF window, polling
<1> QED BY <1>1, <1>2, <1>3, <1>4, <1>5, <1>6, Zenon
    DEF PanelNext, StatusPoll, Trigger, PanelOperator, OtherTrigger, ActiveEnds, Send, Accept, Refuse, Click, Confirm, Cancel, panelVars

LEMMA FormStep == FormOK /\ [PanelNext]_panelVars => FormOK'
<1> SUFFICES ASSUME FormOK, [PanelNext]_panelVars PROVE FormOK'
  OBVIOUS
<1> USE DEF FormOK
<1>1. ASSUME NEW b \in BOOLEAN, HandleSubmit(b)
      PROVE  /\ dialog' \in BOOLEAN /\ bypass' \in BOOLEAN
             /\ pending' \in Nat /\ submits' \in Nat /\ busySubmits' \in Nat
  <2>1. pending + 1 \in Nat /\ submits + 1 \in Nat /\ busySubmits + 1 \in Nat /\ busySubmits + 0 \in Nat
    OBVIOUS
  <2>2. PassOn => pending' \in Nat /\ submits' \in Nat /\ busySubmits' \in Nat
    BY <2>1, Zenon DEF PassOn
  <2> QED BY <1>1, <2>2, Zenon DEF HandleSubmit
<1>2. CASE Click
  BY <1>1, <1>2, Zenon DEF Click
<1>3. CASE Confirm
  <2>1. confirms' \in Nat
    BY <1>3 DEF Confirm
  <2> QED BY <1>1, <1>3, <2>1, Zenon DEF Confirm
<1>4. CASE Cancel
  BY <1>4, Zenon DEF Cancel
<1>5. CASE Send
  <2>1. pending' \in Nat
    BY <1>5 DEF Send
  <2> QED BY <1>5, <2>1, Zenon DEF Send
<1>6. CASE Accept \/ Refuse \/ Return
  BY <1>6, Zenon DEF Accept, Refuse, Return
<1>7. CASE UNCHANGED form
  BY <1>7, Zenon DEF form
<1> QED BY <1>2, <1>3, <1>4, <1>5, <1>6, <1>7, Zenon
    DEF PanelNext, StatusPoll, Trigger, PanelOperator, OtherTrigger, ActiveEnds, StatusTick, StatusAnswer, Deliver, Retry,
        StatusFails, Hide, Show, Render, panelVars

\* The panel's timers, retries, dialog and counters stay within what the code can hold:
\* no run is active that was not queued, and a poll is tried at most twice more.
THEOREM PanelTypeCorrect == PanelSpec => []PanelTypeOK
<1>1. PanelParts /\ [PanelNext]_panelVars => PanelParts'
  BY QueueStep, PollingStep, FormStep, Zenon DEF PanelParts
<1> QED BY <1>1, PanelPartsInit, PanelPartsType, PTL DEF PanelSpec

-----------------------------------------------------------------------------
(* Types of the cards.  The list comes from the server and the rest from   *)
(* what is in it.                                                          *)

\* What the dashboard keeps beside the timeline.
CardsOK ==
  /\ events \in [Devices -> 0 .. MaxEvents]
  /\ listed \in DeviceLists /\ changes \in 0 .. MaxChanges
  /\ facts \in Selectable /\ factsStatus \in Statuses /\ factsReqs \subseteq Devices
  /\ historyStatus \in Statuses

LEMMA CardsInit == DashboardInit => CardsOK
<1>1. 0 \in 0 .. MaxChanges
  BY DashboardAssumption
<1> QED BY <1>1, Zenon DEF DashboardInit, CardsOK, Selectable, Statuses

LEMMA ChosenSelectable == HistoryInv => Chosen \in Selectable
  BY Zenon DEF HistoryInv, EventsInv, Chosen, Selectable

LEMMA CardsStep == HistoryInv /\ CardsOK /\ [DashboardNext]_dashboardVars => CardsOK'
<1> SUFFICES ASSUME HistoryInv, CardsOK, [DashboardNext]_dashboardVars PROVE CardsOK'
  OBVIOUS
<1> USE DEF CardsOK
<1>0. \A d \in Selectable : LoadFacts(d) =>
        facts' \in Selectable /\ factsStatus' \in Statuses /\ factsReqs' \subseteq Devices
  BY DEF LoadFacts, Selectable, Statuses
<1>1. \A d : LoadHistory(d) => historyStatus' \in Statuses
  BY DEF LoadHistory, Statuses
<1>2. CASE UNCHANGED dashboardVars \/ DashboardIdle
  BY <1>2, Zenon DEF dashboardVars, listVars, factsVars, historyVars, DashboardIdle
<1>3. ASSUME NEW d \in Devices, Happens(d) PROVE CardsOK'
  <2>1. events' \in [Devices -> 0 .. MaxEvents]
    BY <1>3, DashboardAssumption DEF Happens
  <2> QED BY <1>3, <2>1, Zenon DEF Happens, factsVars, historyVars
<1>4. ASSUME NEW d \in Devices, SelectRow(d) PROVE CardsOK'
  <2>1. changes' \in 0 .. MaxChanges
    BY <1>4, DashboardAssumption DEF SelectRow
  <2>2. d \in Selectable
    BY DEF Selectable
  <2> QED BY <1>0, <1>1, <1>4, <2>1, <2>2, Zenon DEF SelectRow
<1>5. ASSUME NEW l \in DeviceLists, NewList(l) PROVE CardsOK'
  <2>1. changes' \in 0 .. MaxChanges
    BY <1>5, DashboardAssumption DEF NewList
  <2> QED BY <1>5, <2>1, Zenon DEF NewList, factsVars, historyVars
<1>6. CASE LoadMoreHistory
  BY <1>6, Zenon DEF LoadMoreHistory, listVars, factsVars, Statuses
<1>7. CASE Effects
  BY <1>0, <1>1, <1>7, ChosenSelectable, Zenon DEF Effects, listVars, factsVars, historyVars
<1>8. ASSUME NEW d \in Devices, FactsArrive(d) \/ FactsFail(d) PROVE CardsOK'
  BY <1>8, Zenon DEF FactsArrive, FactsFail, listVars, historyVars, Selectable, Statuses
<1>9. ASSUME NEW r \in historyReqs, HistoryAnswer(r) \/ HistoryArrive(r) \/ HistoryFail(r) PROVE CardsOK'
  BY <1>9, Zenon DEF HistoryAnswer, HistoryArrive, HistoryFail, listVars, factsVars, Statuses
<1> QED BY <1>2, <1>3, <1>4, <1>5, <1>6, <1>7, <1>8, <1>9, Zenon
        DEF DashboardNext, DashboardOperator, FactsRespond, HistoryRespond

LEMMA HistoryInvType == HistoryInv /\ CardsOK => DashboardTypeOK
<1> SUFFICES ASSUME HistoryInv, CardsOK PROVE DashboardTypeOK
  OBVIOUS
<1>0. MaxEvents \in Nat /\ events \in [Devices -> 0 .. MaxEvents] /\ NoDevice \notin Devices
  BY DashboardAssumption DEF CardsOK
<1>1. PICK a, k \in Nat :
        /\ history = Run(loadedFor, a, k) /\ historyCursor = CursorAfter(a, k)
        /\ k <= a /\ (k = 0 => a = 0)
        /\ loadedFor \in Devices => a <= events[loadedFor]
        /\ loadedFor \notin Devices => a = 0
  BY DEF HistoryInv, TimelineInv
<1>2. a <= MaxEvents /\ (k # 0 => loadedFor \in Devices)
  <2>1. CASE loadedFor \in Devices
    <3>1. events[loadedFor] \in 0 .. MaxEvents
      BY <1>0, <2>1
    <3> QED BY <1>0, <1>1, <2>1, <3>1
  <2>2. CASE loadedFor \notin Devices
    BY <1>0, <1>1, <2>2
  <2> QED BY <2>1, <2>2
<1>3. history \in Seq(Event)
  <2>1. \A i \in 1 .. k : [of |-> loadedFor, n |-> a - (i - 1)] \in Event
    <3> TAKE i \in 1 .. k
    <3>1. a - (i - 1) \in 1 .. MaxEvents /\ loadedFor \in Devices
      BY <1>0, <1>1, <1>2
    <3> QED BY <3>1, Zenon DEF Event
  <2>2. Run(loadedFor, a, k) \in [1 .. k -> Event]
    BY <2>1, Zenon DEF Run
  <2> QED BY <1>1, <2>2, SeqDef
<1>4. historyCursor \in 0 .. MaxEvents
  BY <1>0, <1>1, <1>2 DEF CursorAfter
<1>5. \A r \in historyReqs : r.of \in Devices /\ r.before \in 0 .. MaxEvents
  <2> TAKE r \in historyReqs
  <2>1. RequestInv(r)
    BY DEF HistoryInv
  <2>2. r.of = loadedFor /\ loadedFor \in Devices /\ (r.before = 0 \/ r.before = historyCursor)
    BY <2>1 DEF RequestInv
  <2> QED BY <1>0, <1>4, <2>2
<1> QED BY <1>3, <1>4, <1>5, Zenon DEF HistoryInv, EventsInv, CardsOK, DashboardTypeOK

\* What the cards hold is of a device of the list, or of none, and every request is for
\* one; for any lists, selections and answers.
THEOREM DashboardTypeCorrect == DashboardSpec => []DashboardTypeOK
<1>1. HistoryInv /\ [DashboardNext]_dashboardVars => HistoryInv'
  BY HistoryStepInv
<1> QED BY <1>1, HistoryInitInv, CardsInit, CardsStep, HistoryInvType, PTL DEF DashboardSpec

-----------------------------------------------------------------------------
(* Why no card stays at "loading".  An effect that starts a request says so*)
(* in the same step, and what ends it says otherwise; only one request of a*)
(* kind is ever under way.                                                 *)

\* A card is at "loading" as long as its request is under way, and no longer.
LoadingIsAsked ==
  /\ factsStatus = "loading" <=> factsReqs # {}
  /\ historyStatus = "loading" <=> historyReqs # {}

LEMMA LoadingStep ==
  ASSUME LoadingIsAsked, FactsInv, HistoryInv, [DashboardNext]_dashboardVars
  PROVE  LoadingIsAsked'
<1> USE DEF LoadingIsAsked
<1>1. CASE UNCHANGED dashboardVars \/ DashboardIdle
  BY <1>1 DEF dashboardVars, factsVars, historyVars, DashboardIdle
<1>2. ASSUME NEW d, Happens(d) PROVE LoadingIsAsked'
  BY <1>2 DEF Happens, factsVars, historyVars
<1>3. ASSUME NEW d, d # NoDevice, LoadFacts(d), LoadHistory(d) PROVE LoadingIsAsked'
  BY <1>3 DEF LoadFacts, LoadHistory, Request
<1>4. ASSUME LoadFacts(NoDevice), LoadHistory(NoDevice) PROVE LoadingIsAsked'
  BY <1>4 DEF LoadFacts, LoadHistory
<1>5. ASSUME NEW d, SelectRow(d) PROVE LoadingIsAsked'
  <2>1. d \in Devices /\ LoadFacts(d) /\ LoadHistory(d)
    BY <1>5, ListedAreDevices DEF SelectRow, HistoryInv
  <2> QED BY <1>3, <2>1, DashboardAssumption
<1>6. ASSUME NEW l, NewList(l) PROVE LoadingIsAsked'
  BY <1>6 DEF NewList, factsVars, historyVars
<1>7. CASE LoadMoreHistory
  BY <1>7 DEF LoadMoreHistory, factsVars, Request
<1>8. CASE Effects
  <2>1. CASE Chosen # loadedFor
    BY <1>3, <1>4, <1>8, <2>1 DEF Effects
  <2>2. CASE Chosen = loadedFor
    BY <1>8, <2>2 DEF Effects, factsVars, historyVars
  <2> QED BY <2>1, <2>2
<1>9. ASSUME NEW d, FactsArrive(d) \/ FactsFail(d) PROVE LoadingIsAsked'
  <2>1. factsReqs' = {} /\ factsStatus' \in {"success", "error"}
    BY <1>9 DEF FactsArrive, FactsFail, FactsInv
  <2>2. UNCHANGED historyVars
    BY <1>9 DEF FactsArrive, FactsFail
  <2> QED BY <2>1, <2>2 DEF historyVars
<1>10. ASSUME NEW r, HistoryAnswer(r) PROVE LoadingIsAsked'
  <2>1. historyReqs # {} /\ historyReqs' # {} /\ historyStatus' = historyStatus /\ UNCHANGED factsVars
    BY <1>10 DEF HistoryAnswer
  <2> QED BY <2>1 DEF factsVars
<1>11. ASSUME NEW r, HistoryArrive(r) \/ HistoryFail(r) PROVE LoadingIsAsked'
  <2>1. r \in historyReqs /\ historyReqs' = historyReqs \ {r}
    BY <1>11 DEF HistoryArrive, HistoryFail
  <2>2. historyReqs' = {}
    BY <2>1 DEF HistoryInv
  <2>3. historyStatus' \in {"success", "error"} /\ UNCHANGED factsVars
    BY <1>11 DEF HistoryArrive, HistoryFail
  <2> QED BY <2>2, <2>3 DEF factsVars
<1> QED BY <1>1, <1>2, <1>5, <1>6, <1>7, <1>8, <1>9, <1>10, <1>11
        DEF DashboardNext, DashboardOperator, FactsRespond, HistoryRespond

\* A card never waits for an answer nobody will give: it says "loading" exactly
\* while its request has not been answered, failed or aborted, for any order of
\* selections, new lists, aborts and answers.  CardsSettle then only needs that a
\* request is answered or fails.
THEOREM LoadingHasRequest == DashboardSpec => []LoadingIsAsked
<1>1. DashboardInit => FactsInv
  BY DEF DashboardInit, FactsInv
<1>2. DashboardInit => LoadingIsAsked
  BY DEF DashboardInit, LoadingIsAsked
<1>3. HistoryInv /\ [DashboardNext]_dashboardVars => HistoryInv'
  BY HistoryStepInv
<1>4. FactsInv /\ [DashboardNext]_dashboardVars => FactsInv'
  BY FactsStepInv
<1>5. LoadingIsAsked /\ FactsInv /\ HistoryInv /\ [DashboardNext]_dashboardVars => LoadingIsAsked'
  BY LoadingStep
<1> QED BY HistoryInitInv, <1>1, <1>2, <1>3, <1>4, <1>5, PTL DEF DashboardSpec

-----------------------------------------------------------------------------
(* Types of the list of entries and of the URL.                            *)

LogFlags ==
  /\ written \in 0 .. MaxEntries /\ logRequest \in {"idle", "asked", "answered"}
  /\ error \in BOOLEAN /\ logFailures \in 0 .. MaxLogFailures

LEMMA LogFlagsInit == LogInit => LogFlags
<1>1. 0 \in 0 .. MaxLogFailures
  BY ListAssumption
<1> QED BY <1>1, Zenon DEF LogInit, LogFlags

LEMMA LogFlagsStep == LogFlags /\ [LogNext]_logVars => LogFlags'
<1> SUFFICES ASSUME LogFlags, [LogNext]_logVars PROVE LogFlags'
  OBVIOUS
<1> USE DEF LogFlags
<1>1. CASE Write
  <2>1. written' \in 0 .. MaxEntries
    BY <1>1, ListAssumption DEF Write
  <2> QED BY <1>1, <2>1, Zenon DEF Write
<1>2. CASE LogFails
  <2>1. logFailures' \in 0 .. MaxLogFailures
    BY <1>2, ListAssumption DEF LogFails
  <2> QED BY <1>2, <2>1, Zenon DEF LogFails
<1>3. CASE LoadOlderLogs \/ LogAnswer \/ LogArrive \/ UNCHANGED logVars
  BY <1>3, Zenon DEF LoadOlderLogs, LogAnswer, LogArrive, logVars
<1> QED BY <1>1, <1>2, <1>3, Zenon DEF LogNext, LogRest

\* The list has no more entries than were written.
LEMMA LogInvType == LogInv /\ LogFlags => LogTypeOK
<1> SUFFICES ASSUME LogInv, LogFlags PROVE LogTypeOK
  OBVIOUS
<1>1. PICK a \in 0 .. written, k \in Nat : ShowsDown(entries, logCursor, a, k)
  BY DEF LogInv
<1>2. written \in Nat /\ MaxEntries \in Nat /\ written <= MaxEntries /\ a \in Nat /\ a <= written
  BY ListAssumption DEF LogFlags
<1>3. entries = Down(a, k) /\ logCursor = EndOf(a, k) /\ k <= a /\ (k = 0 => a = 0)
  BY <1>1, Zenon DEF ShowsDown
<1>4. Len(entries) = k /\ DOMAIN entries = 1 .. k /\ \A i \in 1 .. k : entries[i] = a - (i - 1)
  BY <1>2, <1>3, DownIsSeq DEF Down
<1>5. Len(entries) <= MaxEntries /\ \A i \in DOMAIN entries : entries[i] \in 1 .. MaxEntries
  <2>1. \A i \in 1 .. k : a - (i - 1) \in 1 .. MaxEntries
    BY <1>2, <1>3
  <2>2. k <= MaxEntries
    BY <1>2, <1>3
  <2> QED BY <1>4, <2>1, <2>2, Zenon
<1>6. logCursor \in 0 .. MaxEntries
  BY <1>2, <1>3 DEF EndOf
<1> QED BY <1>5, <1>6, Zenon DEF LogFlags, LogTypeOK

\* The entries a log holds are entries there can be, and its cursor is one of them or none.
THEOREM LogTypeCorrect == LogSpec => []LogTypeOK
<1>1. LogInv /\ [LogNext]_logVars => LogInv'
  BY LogStepInv
<1> QED BY <1>1, LogInitInv, LogFlagsInit, LogFlagsStep, LogInvType, PTL DEF LogSpec

ClicksOK == clicks \in 0 .. MaxClicks

\* The address and the controls hold filters, pages and cursors the page can be opened
\* with, however often they are changed.
THEOREM UrlTypeCorrect == UrlSpec => []UrlTypeOK
<1>0. MaxClicks \in Nat
  BY UrlAssumption, Zenon
<1>1. UrlInit => ClicksOK
  <2>1. 0 \in 0 .. MaxClicks
    BY <1>0
  <2> QED BY <2>1, Zenon DEF UrlInit, ClicksOK
<1>2. ClicksOK /\ [UrlNext]_urlVars => ClicksOK'
  <2> SUFFICES ASSUME ClicksOK, [UrlNext]_urlVars PROVE ClicksOK'
    OBVIOUS
  <2>1. CASE clicks < MaxClicks /\ clicks' = clicks + 1
    BY <1>0, <2>1 DEF ClicksOK
  <2>2. CASE clicks' = clicks
    BY <2>2 DEF ClicksOK
  <2> QED BY <2>1, <2>2, Zenon
      DEF UrlNext, UrlRest, TypeSearch, SetStatus, SetSort, NextPage, FirstPage, Reset, Search, Commit, Use, urlVars
<1>3. UrlInv /\ ClicksOK => UrlTypeOK
  BY Zenon DEF UrlInv, Legal, ClicksOK, UrlTypeOK
<1> QED BY <1>1, <1>2, <1>3, UrlInitInv, UrlStepInv, PTL DEF UrlSpec

-----------------------------------------------------------------------------
(* Types of the forms.  What a load holds is not newer than what the server*)
(* has, and only a submission says which panel acts.                       *)

\* Every variable of the forms has its type, and what a load holds is not newer than the
\* server has been.
RequestedOf == [of : OpenDevices, ver : 0 .. Unread]
ArrivedOf == [of : OpenDevices, ver : 0 .. MaxVersion]

ListTypes ==
  /\ device \in OpenDevices
  /\ version \in [OpenDevices -> 0 .. MaxVersion]
  /\ listRequest \in [LoadedLists -> RequestedOf \cup {Nothing}]
  /\ listShown \in [LoadedLists -> ArrivedOf \cup {Nothing}]

DraftTypes ==
  /\ initialized \in BOOLEAN /\ draft \in OpenDevices \cup {NoOwner}
  /\ listShown["tags"] # Nothing => initialized
  /\ initialized => draft # NoOwner

MetaTypes == meta \in [of : OpenDevices, how : {"default", "own"}]

ActionTypes ==
  /\ formAction \in [panel : Panels, to : OpenDevices, from : OpenDevices \cup {NoOwner}, pc : {"sent", "done", "failed"}]
       \cup {NoAction}
  /\ succeeded \subseteq LoadedLists
  /\ formSubmits \in 0 .. MaxFormSubmits /\ selects \in 0 .. MaxSelects

FormsTypes == ListTypes /\ DraftTypes /\ MetaTypes /\ ActionTypes

LEMMA FormsTypesSuffice == FormsTypes => FormsTypeOK
<1> SUFFICES ASSUME FormsTypes PROVE FormsTypeOK
  OBVIOUS
<1>1. ASSUME NEW l \in LoadedLists
      PROVE  /\ listRequest[l] = Nothing \/ listRequest[l] \in [of : OpenDevices, ver : 0 .. Unread]
             /\ listShown[l] = Nothing \/ listShown[l] \in [of : OpenDevices, ver : 0 .. MaxVersion]
  BY DEF FormsTypes, ListTypes, RequestedOf, ArrivedOf
<1>2. formAction.panel \in Panels \cup {"none"} /\ formAction.pc \in {"none", "sent", "done", "failed"}
  BY DEF FormsTypes, ActionTypes, NoAction
<1>3. device \in OpenDevices /\ selects \in 0 .. MaxSelects /\ version \in [OpenDevices -> 0 .. MaxVersion]
  BY Zenon DEF FormsTypes, ListTypes, ActionTypes
<1>4. succeeded \subseteq LoadedLists /\ formSubmits \in 0 .. MaxFormSubmits
  BY Zenon DEF FormsTypes, ActionTypes
<1> QED BY <1>1, <1>2, <1>3, <1>4, Zenon DEF FormsTypes, DraftTypes, MetaTypes, FormsTypeOK

\* A load that was just begun.
LEMMA NewLoadTyped ==
  ASSUME NEW d \in OpenDevices
  PROVE  [of |-> d, ver |-> Unread] \in RequestedOf /\ Unread \in Nat /\ MaxVersion \in Nat
BY FormsAssumption DEF RequestedOf, Unread

LEMMA FormsInitTypes == FormsInit => FormsTypes
<1> SUFFICES ASSUME FormsInit PROVE FormsTypes
  OBVIOUS
<1>1. device \in OpenDevices /\ 0 \in 0 .. MaxVersion /\ 0 \in 0 .. MaxSelects /\ 0 \in 0 .. MaxFormSubmits
  BY FormsAssumption DEF FormsInit
<1>2. ListTypes
  BY <1>1, NewLoadTyped DEF FormsInit, ListTypes
<1>3. DraftTypes
  BY FormsAssumption DEF FormsInit, DraftTypes, LoadedLists
<1>4. MetaTypes
  BY <1>1 DEF FormsInit, MetaTypes
<1>5. ActionTypes
  BY <1>1 DEF FormsInit, ActionTypes
<1> QED BY <1>2, <1>3, <1>4, <1>5 DEF FormsTypes

LEMMA ListStepTypes ==
  ASSUME FormsTypes, [FormsNext]_formsVars
  PROVE  ListTypes'
<1>0. ListTypes /\ ActionTypes
  BY DEF FormsTypes
<1> USE <1>0
<1>1. CASE UNCHANGED <<device, version, lists>>
  BY <1>1 DEF ListTypes, lists
<1>2. ASSUME NEW d \in OpenDevices, Changes(d) PROVE ListTypes'
  <2>1. version[d] + 1 \in 0 .. MaxVersion
    BY <1>2, FormsAssumption DEF Changes, ListTypes
  <2> QED BY <1>2, <2>1 DEF Changes, ListTypes, deviceVars, lists
<1>3. ASSUME NEW l \in LoadedLists, Reload(l) PROVE ListTypes'
  BY <1>3, NewLoadTyped DEF Reload, Load, ListTypes, deviceVars
<1>4. ASSUME NEW l \in LoadedLists, Read(l) PROVE ListTypes'
  <2> DEFINE v == IF l = "tags" THEN version[listRequest[l].of] ELSE 0
  <2>1. listRequest[l] \in RequestedOf
    BY <1>4 DEF Read, loading, ListTypes
  <2>2. v \in 0 .. Unread
    <3>1. listRequest[l].of \in OpenDevices
      BY <2>1 DEF RequestedOf
    <3>2. version[listRequest[l].of] \in 0 .. MaxVersion
      BY <3>1 DEF ListTypes
    <3> QED BY <3>2, FormsAssumption DEF Unread
  <2>3. [listRequest[l] EXCEPT !.ver = v] \in RequestedOf
    BY <2>1, <2>2 DEF RequestedOf
  <2> HIDE DEF v
  <2>4. listRequest' = [listRequest EXCEPT ![l] = [listRequest[l] EXCEPT !.ver = v]]
    BY <1>4, Zenon DEF Read, v
  <2> QED BY <1>4, <2>3, <2>4 DEF Read, ListTypes, deviceVars
<1>5. ASSUME NEW l \in LoadedLists, ListArrives(l) PROVE ListTypes'
  <2>1. listRequest[l] \in RequestedOf /\ listRequest[l].ver # Unread
    BY <1>5 DEF ListArrives, loading, ListTypes
  <2>2. listRequest[l] \in ArrivedOf
    BY <2>1, FormsAssumption DEF RequestedOf, ArrivedOf, Unread
  <2> QED BY <1>5, <2>2 DEF ListArrives, ListTypes, deviceVars
<1>6. ASSUME NEW l \in LoadedLists, LoadFails(l) PROVE ListTypes'
  BY <1>6 DEF LoadFails, ListTypes, deviceVars
<1>7. ASSUME NEW d \in OpenDevices, ShowDevice(d) PROVE ListTypes'
  <2>1. listRequest' = [l \in LoadedLists |-> [of |-> d, ver |-> Unread]]
    BY <1>7 DEF ShowDevice, Load, ListTypes
  <2> QED BY <1>7, <2>1, NewLoadTyped DEF ShowDevice, ListTypes
<1>8. CASE updateDeviceTags
  <2>1. formAction.to \in OpenDevices
    BY <1>8 DEF updateDeviceTags, ActionTypes, NoAction
  <2>2. version[formAction.to] + 1 \in 0 .. MaxVersion
    BY <1>8, <2>1, FormsAssumption DEF updateDeviceTags, ListTypes
  <2> QED BY <1>8, <2>1, <2>2 DEF updateDeviceTags, ListTypes, deviceVars, lists
<1>9. CASE Returned
  <2>1. UNCHANGED <<device, version, listShown>>
    BY <1>9 DEF Returned, deviceVars
  <2>2. CASE UNCHANGED listRequest
    BY <2>1, <2>2 DEF ListTypes
  <2>3. ASSUME NEW p \in LoadedLists, listRequest' = Load(p, device) PROVE ListTypes'
    BY <2>1, <2>3, NewLoadTyped DEF ListTypes, Load
  <2> QED BY <1>9, <2>2, <2>3, Zenon DEF Returned
<1>10. CASE updateDeviceDisplayName \/ updateDeviceMetadata \/ Refused \/ TypeMetadata \/ ToggleTag
           \/ (\E p \in Panels : Submit(p)) \/ UNCHANGED formsVars
  BY <1>1, <1>10 DEF updateDeviceDisplayName, updateDeviceMetadata, Refused, TypeMetadata, ToggleTag, Submit, formsVars, deviceVars
<1> QED BY <1>2, <1>3, <1>4, <1>5, <1>6, <1>7, <1>8, <1>9, <1>10
        DEF FormsNext, Answers, FormsOperator, Server

LEMMA DraftStepTypes ==
  ASSUME FormsTypes, [FormsNext]_formsVars
  PROVE  DraftTypes'
<1>0. ListTypes /\ DraftTypes /\ "tags" \in LoadedLists /\ NoOwner \notin OpenDevices
  BY FormsAssumption DEF FormsTypes, LoadedLists
<1>1. CASE UNCHANGED <<picker, listShown>>
  BY <1>0, <1>1 DEF DraftTypes, picker
<1>2. ASSUME NEW l \in LoadedLists, ListArrives(l) PROVE DraftTypes'
  <2>1. listRequest[l] \in RequestedOf
    BY <1>0, <1>2 DEF ListArrives, loading, ListTypes
  <2>2. listRequest[l].of \in OpenDevices
    BY <2>1 DEF RequestedOf
  <2>3. listShown' = [listShown EXCEPT ![l] = listRequest[l]] /\ Initialise(l, listRequest[l].of)
    BY <1>2 DEF ListArrives
  <2>4. listShown'["tags"] = IF l = "tags" THEN listRequest[l] ELSE listShown["tags"]
    BY <1>0, <2>3 DEF ListTypes
  <2>5. CASE l = "tags" /\ ~initialized
    BY <1>0, <2>2, <2>3, <2>5 DEF DraftTypes, Initialise
  <2>6. CASE l # "tags" \/ initialized
    BY <1>0, <2>3, <2>4, <2>6 DEF DraftTypes, Initialise, picker
  <2> QED BY <2>5, <2>6, Zenon DEF DraftTypes
<1>3. ASSUME NEW l \in LoadedLists, LoadFails(l) PROVE DraftTypes'
  <2>1. listShown'["tags"] = IF l = "tags" THEN Nothing ELSE listShown["tags"]
    BY <1>0, <1>3 DEF LoadFails, ListTypes
  <2> QED BY <1>0, <1>3, <2>1 DEF LoadFails, DraftTypes, fields, picker
<1>4. CASE ToggleTag
  BY <1>0, <1>4 DEF ToggleTag, DraftTypes, ListTypes, lists
<1>5. CASE UNCHANGED formsVars \/ (\E d \in OpenDevices : Changes(d) \/ ShowDevice(d)) \/ (\E l \in LoadedLists : Read(l) \/ Reload(l))
           \/ TypeMetadata \/ Returned
  BY <1>1, <1>5 DEF formsVars, lists, fields, Changes, ShowDevice, Read, Reload, TypeMetadata, Returned
<1>6. CASE (\E p \in Panels : Submit(p)) \/ Server
  BY <1>1, <1>6 DEF lists, fields, Submit, Server, updateDeviceTags, updateDeviceDisplayName, updateDeviceMetadata, Refused
<1> QED BY <1>2, <1>3, <1>4, <1>5, <1>6, Zenon DEF FormsNext, Answers, FormsOperator

LEMMA MetaStepTypes ==
  ASSUME FormsTypes, [FormsNext]_formsVars
  PROVE  MetaTypes'
<1>0. ListTypes /\ MetaTypes
  BY DEF FormsTypes
<1>1. CASE UNCHANGED meta
  BY <1>0, <1>1 DEF MetaTypes
<1>2. ASSUME NEW d \in OpenDevices, ShowDevice(d) PROVE MetaTypes'
  BY <1>0, <1>2 DEF ShowDevice, Defaulted, Showing, MetaTypes
<1>3. CASE TypeMetadata
  BY <1>0, <1>3 DEF TypeMetadata, MetaTypes
<1>4. CASE Returned
  <2>1. CASE meta' = Showing(device, "default")
    BY <1>0, <2>1 DEF Showing, MetaTypes, ListTypes
  <2> QED BY <1>1, <1>4, <2>1, Zenon DEF Returned
<1>5. CASE UNCHANGED formsVars \/ ToggleTag \/ (\E d \in OpenDevices : Changes(d))
           \/ (\E l \in LoadedLists : Read(l) \/ Reload(l) \/ ListArrives(l) \/ LoadFails(l))
  BY <1>1, <1>5 DEF formsVars, fields, ToggleTag, Changes, Read, Reload, ListArrives, LoadFails
<1>6. CASE (\E p \in Panels : Submit(p)) \/ Server
  BY <1>1, <1>6 DEF fields, Submit, Server, updateDeviceTags, updateDeviceDisplayName, updateDeviceMetadata, Refused
<1> QED BY <1>2, <1>3, <1>4, <1>5, <1>6, Zenon DEF FormsNext, Answers, FormsOperator

LEMMA ActionStepTypes ==
  ASSUME FormsTypes, [FormsNext]_formsVars
  PROVE  ActionTypes'
<1>0. ListTypes /\ DraftTypes /\ ActionTypes
  BY DEF FormsTypes
<1>1. CASE UNCHANGED <<formAction, formSubmits, succeeded, selects>>
  BY <1>0, <1>1 DEF ActionTypes
<1>2. ASSUME NEW d \in OpenDevices, ShowDevice(d) PROVE ActionTypes'
  <2>1. selects' \in 0 .. MaxSelects
    BY <1>0, <1>2, FormsAssumption DEF ShowDevice, ActionTypes
  <2> QED BY <1>0, <1>2, <2>1 DEF ShowDevice, acting, ActionTypes
<1>3. ASSUME NEW p \in Panels, Submit(p) PROVE ActionTypes'
  <2>1. formSubmits' \in 0 .. MaxFormSubmits
    BY <1>0, <1>3, FormsAssumption DEF Submit, ActionTypes
  <2>2. formAction' \in [panel : Panels, to : OpenDevices, from : OpenDevices \cup {NoOwner}, pc : {"sent", "done", "failed"}]
    BY <1>0, <1>3 DEF Submit, ListTypes, DraftTypes
  <2> QED BY <1>0, <1>3, <2>1, <2>2 DEF Submit, ActionTypes, deviceVars
<1>4. CASE Server
  <2>1. UNCHANGED <<formSubmits, succeeded, selects>> /\ formAction.pc = "sent"
    BY <1>4 DEF Server, updateDeviceTags, updateDeviceDisplayName, updateDeviceMetadata, Refused, deviceVars
  <2>2. \E pc \in {"done", "failed"} : formAction' = [formAction EXCEPT !.pc = pc]
    BY <1>4 DEF Server, updateDeviceTags, updateDeviceDisplayName, updateDeviceMetadata, Refused, Acted
  <2>3. formAction' \in [panel : Panels, to : OpenDevices, from : OpenDevices \cup {NoOwner}, pc : {"sent", "done", "failed"}]
    BY <1>0, <2>1, <2>2 DEF ActionTypes, NoAction
  <2> QED BY <1>0, <2>1, <2>3 DEF ActionTypes
<1>5. CASE Returned
  BY <1>0, <1>5 DEF Returned, deviceVars, ActionTypes
<1>6. CASE UNCHANGED formsVars \/ (\E d \in OpenDevices : Changes(d)) \/ TypeMetadata \/ ToggleTag
           \/ (\E l \in LoadedLists : Read(l) \/ Reload(l) \/ ListArrives(l) \/ LoadFails(l))
  BY <1>1, <1>6 DEF formsVars, deviceVars, acting, Changes, Read, Reload, ListArrives, LoadFails, TypeMetadata, ToggleTag
<1> QED BY <1>2, <1>3, <1>4, <1>5, <1>6, Zenon DEF FormsNext, Answers, FormsOperator

\* Lists, drafts and submissions belong to devices that can be open and are not newer
\* than what the server has, for any selections, loads and submissions.
THEOREM FormsTypeCorrect == FormsSpec => []FormsTypeOK
<1>1. FormsTypes /\ [FormsNext]_formsVars => FormsTypes'
  BY ListStepTypes, DraftStepTypes, MetaStepTypes, ActionStepTypes, Zenon DEF FormsTypes
<1> QED BY FormsInitTypes, FormsTypesSuffice, <1>1, PTL DEF FormsSpec
===============================================================================
