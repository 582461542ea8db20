------------------------------ MODULE Map_proofs ------------------------------
(***************************************************************************)
(* Proofs about the pages of the network map.  The projection a page holds *)
(* is its own and a pinned view stays, for any scopes, versions, visits and*)
(* failures; its links lead to pages that support their focus, for any     *)
(* objects; and a drawing announces what it leaves out, for any devices,   *)
(* regions and links and any limits.                                       *)
(***************************************************************************)
EXTENDS MapView, MapLinks, MapCanvas, NaturalsLemmas

-----------------------------------------------------------------------------
(* The view.  What the page holds is the shown scope's because a poll and  *)
(* the server answer for the page they were asked for, and the key of the  *)
(* providers drops the view and the poll of another page; and no branch of *)
(* the effect touches what a pinned view shows.                            *)

\* Projections of the scope s, or none.
Holds(s) == [of : {s, NoScope}, ver : Nat]

Views(s) == [pinned : BOOLEAN, applied : Holds(s), offer : Holds(s)]

ViewInv ==
  /\ scope \in Scopes /\ initial \in Holds(scope)
  /\ mapVersion \in [Scopes -> Nat]
  /\ mapCache = [s \in Scopes |-> mapCache[s]]
  /\ \A s \in Scopes : mapCache[s] \in Holds(s)
  /\ view \in Views(scope)
  /\ mapPoll.data \in Holds(scope)
  /\ visit = [to |-> visit.to, pc |-> visit.pc, fetched |-> visit.fetched]
  /\ visit.pc # "none" => visit.to \in Scopes
  /\ visit.fetched \in Holds(visit.to)

-----------------------------------------------------------------------------
(* What is held.                                                           *)

LEMMA NothingHeld == \A s : NoProjection \in Holds(s)
BY DEF NoProjection, Holds

LEMMA CurrentHeld ==
  ASSUME mapVersion \in [Scopes -> Nat], NEW s \in Scopes
  PROVE  Current(s) \in Holds(s)
BY DEF Current, Holds

LEMMA LatestHeld == ASSUME ViewInv PROVE latestProjection \in Holds(scope)
BY Zenon DEF ViewInv, latestProjection

LEMMA MountedView ==
  ASSUME NEW s, NEW p \in Holds(s)
  PROVE  Mounted(p) \in Views(s)
BY NothingHeld DEF Mounted, Views

-----------------------------------------------------------------------------
(* The effect.                                                             *)

\* It keeps the pin, what it sets is the scope's, and a pinned view keeps what it
\* shows if it shows anything.
LEMMA EffectKeeps ==
  ASSUME ViewInv, NEW seen \in Views(scope), NEW v \in Views(scope)
  PROVE  /\ EffectOn(seen, v) \in Views(scope)
         /\ EffectOn(seen, v).pinned = v.pinned
         /\ seen.pinned /\ seen.applied # NoProjection => EffectOn(seen, v).applied = v.applied
<1>1. latestProjection \in Holds(scope) /\ NoProjection \in Holds(scope)
  BY LatestHeld, NothingHeld
<1>2. ASSUME NEW p \in Holds(scope)
      PROVE  /\ [v EXCEPT !.applied = p] \in Views(scope) /\ [v EXCEPT !.applied = p].pinned = v.pinned
             /\ [v EXCEPT !.offer = p] \in Views(scope) /\ [v EXCEPT !.offer = p].pinned = v.pinned
             /\ [v EXCEPT !.offer = p].applied = v.applied
             /\ [v EXCEPT !.applied = p, !.offer = NoProjection] \in Views(scope)
             /\ [v EXCEPT !.applied = p, !.offer = NoProjection].pinned = v.pinned
  BY <1>1 DEF Views
<1> QED BY <1>1, <1>2, Zenon DEF EffectOn

LEMMA SettleKeeps ==
  ASSUME ViewInv, NEW v \in Views(scope)
  PROVE  /\ Settle(v) \in Views(scope)
         /\ Settle(v).pinned = v.pinned
         /\ v.pinned /\ v.applied # NoProjection => Settle(v).applied = v.applied
<1> DEFINE once == EffectOn(v, v)
<1>1. /\ once \in Views(scope) /\ once.pinned = v.pinned
      /\ v.pinned /\ v.applied # NoProjection => once.applied = v.applied
  BY EffectKeeps
<1>2. Settle(v) = EffectOn(once, once)
  BY DEF Settle
<1> HIDE DEF once
<1>3. /\ EffectOn(once, once) \in Views(scope)
      /\ EffectOn(once, once).pinned = once.pinned
      /\ once.pinned /\ once.applied # NoProjection => EffectOn(once, once).applied = once.applied
  BY <1>1, EffectKeeps
<1> QED BY <1>1, <1>2, <1>3, Zenon

LEMMA AfterClickKeeps ==
  ASSUME ViewInv, NEW v \in Views(scope)
  PROVE  AfterClick(v) \in Views(scope) /\ AfterClick(v).pinned = v.pinned
<1>1. view \in Views(scope)
  BY DEF ViewInv
<1>2. EffectOn(view, v) \in Views(scope) /\ EffectOn(view, v).pinned = v.pinned
  BY <1>1, EffectKeeps
<1>3. /\ Settle(EffectOn(view, v)) \in Views(scope)
      /\ Settle(EffectOn(view, v)).pinned = v.pinned
      /\ Settle(v) \in Views(scope) /\ Settle(v).pinned = v.pinned
  BY <1>2, SettleKeeps, Zenon
<1> QED BY <1>3, Zenon DEF AfterClick

\* What the controls leave is a view of the page.
LEMMA ClickedView ==
  ASSUME ViewInv
  PROVE  /\ Accepted(view) \in Views(scope)
         /\ \A v \in Views(scope), b \in BOOLEAN :
              [v EXCEPT !.pinned = b] \in Views(scope) /\ [v EXCEPT !.pinned = b].pinned = b
BY NothingHeld DEF ViewInv, Accepted, Views

-----------------------------------------------------------------------------
(* Steps.                                                                  *)

LEMMA ViewInitInv == MapViewInit => ViewInv
<1> SUFFICES ASSUME MapViewInit PROVE ViewInv
  OBVIOUS
<1>1. mapVersion \in [Scopes -> Nat] /\ scope \in Scopes
  BY DEF MapViewInit
<1>2. \A s \in Scopes : mapCache[s] \in Holds(s)
  BY <1>1, CurrentHeld, NothingHeld DEF MapViewInit
<1>3. initial \in Holds(scope)
  BY <1>1, CurrentHeld, NothingHeld DEF MapViewInit
<1>4. view \in Views(scope)
  BY <1>3, MountedView DEF MapViewInit
<1>5. mapCache = [s \in Scopes |-> mapCache[s]]
  BY DEF MapViewInit
<1>6. mapPoll.data \in Holds(scope)
  BY NothingHeld DEF MapViewInit, NoPoll
<1>7. /\ visit = [to |-> visit.to, pc |-> visit.pc, fetched |-> visit.fetched]
      /\ visit.pc = "none" /\ visit.fetched \in Holds(visit.to)
  BY NothingHeld DEF MapViewInit, NoVisit
<1> QED BY <1>1, <1>2, <1>3, <1>4, <1>5, <1>6, <1>7 DEF ViewInv

LEMMA ScopeChangesInv ==
  ASSUME ViewInv, NEW s \in Scopes, ScopeChanges(s)
  PROVE  ViewInv'
<1>1. mapVersion' \in [Scopes -> Nat]
  BY DEF ViewInv, ScopeChanges
<1> QED BY <1>1 DEF ViewInv, ScopeChanges, navigation

\* A step of the query or a navigation that has not arrived.
LEMMA PollStepInv ==
  ASSUME ViewInv, UNCHANGED <<mapVersion, navigation, mapCache, view>>, mapPoll'.data \in Holds(scope)
  PROVE  ViewInv'
BY Zenon DEF ViewInv, navigation

LEMMA MapQueryInv ==
  ASSUME ViewInv, MapAsk \/ MapAnswer \/ MapPollFails
  PROVE  ViewInv'
<1>1. mapPoll'.data \in Holds(scope)
  BY NothingHeld, CurrentHeld DEF ViewInv, MapAsk, MapAnswer, MapPollFails, NoPoll
<1> QED BY <1>1, PollStepInv DEF MapAsk, MapAnswer, MapPollFails

\* The query's data of one scope changes.
LEMMA CacheStepInv ==
  ASSUME ViewInv, NEW s \in Scopes, NEW p \in Holds(s), mapCache' = [mapCache EXCEPT ![s] = p],
         UNCHANGED <<mapVersion, navigation, view>>, mapPoll'.data \in Holds(scope)
  PROVE  ViewInv'
<1>1. \A t \in Scopes : mapCache'[t] = IF t = s THEN p ELSE mapCache[t]
  BY Zenon DEF ViewInv
<1>2. mapCache' = [t \in Scopes |-> mapCache'[t]]
  BY DEF ViewInv
<1>3. \A t \in Scopes : mapCache'[t] \in Holds(t)
  BY <1>1, Zenon DEF ViewInv
<1> QED BY <1>2, <1>3, Zenon DEF ViewInv, navigation

LEMMA MapArriveInv ==
  ASSUME ViewInv, MapArrive
  PROVE  ViewInv'
<1>1. mapPoll.data \in Holds(scope) /\ scope \in Scopes /\ NoPoll.data \in Holds(scope)
  BY NothingHeld DEF ViewInv, NoPoll
<1> QED BY <1>1, CacheStepInv DEF MapArrive

LEMMA ForgetInv ==
  ASSUME ViewInv, NEW s \in Scopes, Forget(s)
  PROVE  ViewInv'
<1>1. mapPoll'.data \in Holds(scope)
  BY DEF ViewInv, Forget
<1> QED BY <1>1, CacheStepInv, NothingHeld DEF Forget

\* Only the view changes.
LEMMA ViewStepInv ==
  ASSUME ViewInv, view' \in Views(scope), UNCHANGED <<mapVersion, navigation, mapCache, mapPoll>>
  PROVE  ViewInv'
BY Zenon DEF ViewInv, navigation

LEMMA ControlsInv ==
  ASSUME ViewInv, MapEffect \/ MapControls
  PROVE  ViewInv'
<1>1. view \in Views(scope)
  BY DEF ViewInv
<1>2. CASE MapEffect
  BY <1>1, <1>2, SettleKeeps, ViewStepInv DEF MapEffect
<1>3. CASE applyPendingUpdates
  BY <1>3, ClickedView, AfterClickKeeps, ViewStepInv DEF applyPendingUpdates
<1>4. CASE EnableLive
  <2> DEFINE v == IF view.offer # NoProjection THEN Accepted(view) ELSE view
  <2>1. v \in Views(scope)
    BY <1>1, ClickedView
  <2> HIDE DEF v
  <2>2. [v EXCEPT !.pinned = FALSE] \in Views(scope)
    BY <2>1, ClickedView
  <2>3. view' = AfterClick([v EXCEPT !.pinned = FALSE])
    BY <1>4 DEF EnableLive, v
  <2> QED BY <1>4, <2>2, <2>3, AfterClickKeeps, ViewStepInv DEF EnableLive
<1>5. CASE PauseLive
  <2>1. [view EXCEPT !.pinned = TRUE] \in Views(scope)
    BY <1>1, ClickedView
  <2> QED BY <1>5, <2>1, AfterClickKeeps, ViewStepInv DEF PauseLive
<1> QED BY <1>2, <1>3, <1>4, <1>5 DEF MapControls

LEMMA VisitInv ==
  ASSUME ViewInv, NEW s \in Scopes, Visit(s)
  PROVE  ViewInv'
<1>1. visit' = [to |-> s, pc |-> "asked", fetched |-> NoProjection]
  BY DEF Visit
<1>2. visit'.to = s /\ visit'.fetched \in Holds(s) /\ visit' = [to |-> visit'.to, pc |-> visit'.pc, fetched |-> visit'.fetched]
  BY <1>1, NothingHeld
<1> QED BY <1>2, Zenon DEF ViewInv, Visit

LEMMA PageFetchInv ==
  ASSUME ViewInv, PageFetch
  PROVE  ViewInv'
<1>1. PICK p \in {Current(visit.to), NoProjection} : visit' = [visit EXCEPT !.pc = "fetched", !.fetched = p]
  BY DEF PageFetch
<1>2. visit.to \in Scopes
  BY DEF ViewInv, PageFetch
<1>3. p \in Holds(visit.to)
  BY <1>1, <1>2, CurrentHeld, NothingHeld DEF ViewInv
<1>4. visit' = [to |-> visit.to, pc |-> "fetched", fetched |-> p]
  BY <1>1 DEF ViewInv
<1>5. visit'.to = visit.to /\ visit'.fetched = p /\ visit' = [to |-> visit'.to, pc |-> visit'.pc, fetched |-> visit'.fetched]
  BY <1>4
<1> QED BY <1>2, <1>3, <1>5, Zenon DEF ViewInv, PageFetch

LEMMA CommitPageInv ==
  ASSUME ViewInv, CommitPage
  PROVE  ViewInv'
<1>1. /\ scope' = visit.to /\ initial' = visit.fetched /\ visit' = NoVisit /\ mapVersion' = mapVersion
      /\ visit.to \in Scopes /\ visit.fetched \in Holds(visit.to)
  BY DEF CommitPage, ViewInv
<1>2. view' \in Views(scope')
  <2>1. CASE visit.to = scope
    BY <1>1, <2>1 DEF CommitPage, ViewInv
  <2>2. CASE visit.to # scope
    BY <1>1, <2>2, MountedView DEF CommitPage
  <2> QED BY <2>1, <2>2
<1>3. mapPoll'.data \in Holds(scope')
  <2>1. CASE visit.to = scope
    BY <1>1, <2>1 DEF CommitPage, ViewInv
  <2>2. CASE visit.to # scope
    BY <1>1, <2>2, NothingHeld DEF CommitPage, NoPoll
  <2> QED BY <2>1, <2>2
<1>4. PICK p \in Holds(visit.to) : mapCache' = [mapCache EXCEPT ![visit.to] = p]
  BY <1>1 DEF CommitPage, ViewInv
<1>5. \A t \in Scopes : mapCache'[t] = IF t = visit.to THEN p ELSE mapCache[t]
  BY <1>1, <1>4, Zenon DEF ViewInv
<1>6. mapCache' = [t \in Scopes |-> mapCache'[t]]
  BY <1>4 DEF ViewInv
<1>7. \A t \in Scopes : mapCache'[t] \in Holds(t)
  BY <1>5, Zenon DEF ViewInv
<1>8. /\ NoVisit = [to |-> NoVisit.to, pc |-> NoVisit.pc, fetched |-> NoVisit.fetched]
      /\ NoVisit.pc = "none" /\ NoVisit.fetched \in Holds(NoVisit.to)
  BY NothingHeld DEF NoVisit
<1> QED BY <1>1, <1>2, <1>3, <1>6, <1>7, <1>8, Zenon DEF ViewInv

LEMMA ViewNextInv == ViewInv /\ [MapViewNext]_mapViewVars => ViewInv'
<1> SUFFICES ASSUME ViewInv, [MapViewNext]_mapViewVars PROVE ViewInv'
  OBVIOUS
<1>1. CASE UNCHANGED mapViewVars
  BY <1>1, Zenon DEF mapViewVars, navigation, ViewInv
<1>2. CASE MapQuery \/ MapPollFails
  BY <1>2, MapQueryInv, MapArriveInv DEF MapQuery
<1>3. CASE MapEffect \/ MapControls
  BY <1>3, ControlsInv
<1>4. CASE MapPage
  BY <1>4, PageFetchInv, CommitPageInv DEF MapPage
<1>5. ASSUME NEW s \in Scopes, ScopeChanges(s) \/ Forget(s) \/ Visit(s) PROVE ViewInv'
  BY <1>5, ScopeChangesInv, ForgetInv, VisitInv
<1> QED BY <1>1, <1>2, <1>3, <1>4, <1>5 DEF MapViewNext

-----------------------------------------------------------------------------
(* Theorems.                                                               *)

\* Nothing that is shown, offered, polled or rendered is another page's.
THEOREM ProjectionIsOfPage == MapViewSpec => []ProjectionOfPage
<1>1. \A s, p : p \in Holds(s) => p.of \in {s, NoScope}
  BY DEF Holds
<1>2. \A s, v : v \in Views(s) => v.applied \in Holds(s) /\ v.offer \in Holds(s)
  BY DEF Views
<1>3. ViewInv => ProjectionOfPage
  BY <1>1, <1>2, Zenon DEF ViewInv, ProjectionOfPage
<1> QED BY ViewInitInv, ViewNextInv, <1>3, PTL DEF MapViewSpec

PinnedStep ==
  view.pinned /\ view'.pinned /\ view.applied # NoProjection /\ view'.applied # view.applied
    => applyPendingUpdates \/ CommitPage

\* The effect, the poll and the switches of the view leave a pinned view as it is.
LEMMA PinnedStepHolds ==
  ASSUME ViewInv, [MapViewNext]_mapViewVars
  PROVE  PinnedStep
<1>1. CASE view' = view
  BY <1>1, Zenon DEF PinnedStep
<1>2. CASE MapEffect
  BY <1>2, SettleKeeps DEF MapEffect, ViewInv, PinnedStep
<1>3. CASE EnableLive
  <2> DEFINE v == IF view.offer # NoProjection THEN Accepted(view) ELSE view
  <2>1. v \in Views(scope)
    BY ClickedView DEF ViewInv
  <2> HIDE DEF v
  <2>2. [v EXCEPT !.pinned = FALSE] \in Views(scope) /\ [v EXCEPT !.pinned = FALSE].pinned = FALSE
    BY <2>1, ClickedView
  <2>3. view'.pinned = FALSE
    BY <1>3, <2>2, AfterClickKeeps DEF EnableLive, v
  <2> QED BY <2>3, Zenon DEF PinnedStep
<1>4. CASE PauseLive
  BY <1>4, Zenon DEF PauseLive, PinnedStep
<1>5. CASE applyPendingUpdates \/ CommitPage
  BY <1>5, Zenon DEF PinnedStep
<1>6. CASE UNCHANGED mapViewVars \/ MapQuery \/ MapPollFails \/ PageFetch
  BY <1>1, <1>6, Zenon DEF mapViewVars, MapQuery, MapAsk, MapAnswer, MapArrive, MapPollFails, PageFetch
<1>7. ASSUME NEW s \in Scopes, ScopeChanges(s) \/ Forget(s) \/ Visit(s) PROVE PinnedStep
  BY <1>1, <1>7, Zenon DEF ScopeChanges, Forget, Visit
<1> QED BY <1>2, <1>3, <1>4, <1>5, <1>6, <1>7, Zenon DEF MapViewNext, MapControls, MapPage

\* While the view is pinned what it shows changes only by "Apply updates" or by going
\* to another page, whatever answers arrive and whenever the effect runs.
THEOREM PinnedViewStays == MapViewSpec => PinnedStays
<1>1. ViewInv /\ [MapViewNext]_mapViewVars => [PinnedStep]_mapViewVars
  BY PinnedStepHolds
<1>2. ViewInv /\ [MapViewNext]_mapViewVars => ViewInv'
  BY ViewNextInv
<1> QED BY ViewInitInv, <1>1, <1>2, PTL DEF MapViewSpec, PinnedStays, PinnedStep

-----------------------------------------------------------------------------
(* Why the effect is quiet.  It sets the view it reads and so runs again; a*)
(* view it has run on twice is one it leaves as it is.                     *)

Calm(v) ==
  \/ latestProjection = NoProjection
  \/ v.applied = latestProjection /\ v.offer = NoProjection
  \/ v.pinned /\ v.applied \notin {NoProjection, latestProjection} /\ v.offer = latestProjection

LEMMA CalmIsFixed ==
  ASSUME NEW v \in Views(scope), Calm(v)
  PROVE  EffectOn(v, v) = v
<1>1. CASE latestProjection = NoProjection
  BY <1>1, Zenon DEF EffectOn
<1>2. ASSUME NEW p, v.offer = p PROVE [v EXCEPT !.offer = p] = v
  BY <1>2 DEF Views
<1>3. CASE latestProjection # NoProjection /\ v.applied = latestProjection /\ v.offer = NoProjection
  BY <1>2, <1>3, Zenon DEF EffectOn
<1>4. CASE /\ latestProjection # NoProjection /\ v.pinned
           /\ v.applied \notin {NoProjection, latestProjection} /\ v.offer = latestProjection
  BY <1>2, <1>4, Zenon DEF EffectOn
<1> QED BY <1>1, <1>3, <1>4, Zenon DEF Calm

LEMMA FieldsOfViews ==
  ASSUME NEW u \in Views(scope), NEW p \in Holds(scope), NEW q \in Holds(scope)
  PROVE  /\ [u EXCEPT !.applied = p].applied = p
         /\ [u EXCEPT !.offer = q].offer = q /\ [u EXCEPT !.offer = q].applied = u.applied
         /\ [u EXCEPT !.offer = q].pinned = u.pinned
BY DEF Views

\* One run shows what was fetched last, or offers it and is done.
LEMMA OnceIsNearlyCalm ==
  ASSUME ViewInv, NEW v \in Views(scope), NEW once, once = EffectOn(v, v),
         latestProjection # NoProjection
  PROVE  \/ once.applied = latestProjection
         \/ /\ once.pinned /\ once.applied \notin {NoProjection, latestProjection}
            /\ once.offer = latestProjection
<1>1. latestProjection \in Holds(scope) /\ NoProjection \in Holds(scope)
  BY LatestHeld, NothingHeld, Zenon
<1>2. CASE v.applied = NoProjection
  <2>1. once = [v EXCEPT !.applied = latestProjection]
    BY <1>2, Zenon DEF EffectOn
  <2>2. [v EXCEPT !.applied = latestProjection].applied = latestProjection
    BY <1>1, FieldsOfViews, Zenon
  <2> QED BY <2>1, <2>2, Zenon
<1>3. CASE v.applied # NoProjection /\ v.applied = latestProjection
  <2>1. once = [v EXCEPT !.offer = NoProjection]
    BY <1>3, Zenon DEF EffectOn
  <2>2. [v EXCEPT !.offer = NoProjection].applied = v.applied
    BY <1>1, FieldsOfViews, Zenon
  <2> QED BY <1>3, <2>1, <2>2, Zenon
<1>4. CASE v.applied \notin {NoProjection, latestProjection} /\ v.pinned
  <2>1. once = [v EXCEPT !.offer = latestProjection]
    BY <1>4, Zenon DEF EffectOn
  <2>2. /\ [v EXCEPT !.offer = latestProjection].applied = v.applied
        /\ [v EXCEPT !.offer = latestProjection].pinned = v.pinned
        /\ [v EXCEPT !.offer = latestProjection].offer = latestProjection
    BY <1>1, FieldsOfViews, Zenon
  <2>3. once.applied = v.applied
    BY <2>1, <2>2, Zenon
  <2>4. once.pinned = v.pinned
    BY <2>1, <2>2, Zenon
  <2>5. once.offer = latestProjection
    BY <2>1, <2>2, Zenon
  <2> QED BY <1>4, <2>3, <2>4, <2>5, Zenon
<1>5. CASE v.applied \notin {NoProjection, latestProjection} /\ ~v.pinned
  <2>1. once = [v EXCEPT !.applied = latestProjection, !.offer = NoProjection]
    BY <1>5, Zenon DEF EffectOn
  <2>2. [v EXCEPT !.applied = latestProjection, !.offer = NoProjection].applied = latestProjection
    BY <1>1 DEF Views
  <2> QED BY <2>1, <2>2, Zenon
<1> QED BY <1>2, <1>3, <1>4, <1>5, Zenon

\* After two runs there is nothing left to do.
LEMMA SettledIsCalm ==
  ASSUME ViewInv, NEW v \in Views(scope)
  PROVE  Calm(Settle(v))
<1>1. CASE latestProjection = NoProjection
  BY <1>1, Zenon DEF Calm
<1>2. CASE latestProjection # NoProjection
  <2>1. PICK once : once = EffectOn(v, v)
    OBVIOUS
  <2>2. Settle(v) = EffectOn(once, once) /\ once \in Views(scope)
    BY <2>1, EffectKeeps, Zenon DEF Settle
  <2>3. CASE once.applied = latestProjection
    <3>1. EffectOn(once, once) = [once EXCEPT !.offer = NoProjection]
      BY <1>2, <2>3, Zenon DEF EffectOn
    <3>0. NoProjection \in Holds(scope)
      BY NothingHeld
    <3>2. /\ [once EXCEPT !.offer = NoProjection].applied = once.applied
          /\ [once EXCEPT !.offer = NoProjection].offer = NoProjection
      BY <2>2, <3>0 DEF Views
    <3>3. Settle(v).applied = latestProjection /\ Settle(v).offer = NoProjection
      BY <2>2, <2>3, <3>1, <3>2, Zenon
    <3> QED BY <3>3, Zenon DEF Calm
  <2>4. CASE /\ once.pinned /\ once.applied \notin {NoProjection, latestProjection}
             /\ once.offer = latestProjection
    <3>1. Calm(once)
      BY <2>4, Zenon DEF Calm
    <3> QED BY <2>2, <3>1, CalmIsFixed, Zenon
  <2> QED BY <1>2, <2>1, <2>3, <2>4, OnceIsNearlyCalm, Zenon
<1> QED BY <1>1, <1>2, Zenon

LEMMA AfterClickIsCalm ==
  ASSUME ViewInv, NEW v \in Views(scope)
  PROVE  Calm(AfterClick(v)) /\ AfterClick(v) \in Views(scope)
<1>1. view \in Views(scope)
  BY DEF ViewInv
<1>2. EffectOn(view, v) \in Views(scope)
  BY <1>1, EffectKeeps
<1>3. Calm(Settle(EffectOn(view, v))) /\ Calm(Settle(v))
  BY <1>2, SettledIsCalm, Zenon
<1> QED BY <1>3, AfterClickKeeps, Zenon DEF AfterClick

\* What is rendered after the effect, and after a click.
SettledStep ==
  /\ ~MapEffectDue'
  /\ latestProjection' \in {view'.applied, view'.offer, NoProjection}

LEMMA SettledStepHolds ==
  ASSUME ViewInv, MapEffect \/ MapControls
  PROVE  SettledStep
<1>1. view \in Views(scope)
  BY DEF ViewInv
<1>2. Calm(view') /\ view' \in Views(scope)
  <2>2. CASE MapEffect
    BY <1>1, <2>2, SettleKeeps, SettledIsCalm, Zenon DEF MapEffect
  <2>3. CASE applyPendingUpdates
    BY <2>3, ClickedView, AfterClickIsCalm, Zenon DEF applyPendingUpdates
  <2>4. CASE EnableLive
    <3> DEFINE v == IF view.offer # NoProjection THEN Accepted(view) ELSE view
    <3>1. v \in Views(scope)
      BY <1>1, ClickedView
    <3>2. view' = AfterClick([v EXCEPT !.pinned = FALSE])
      BY <2>4 DEF EnableLive, v
    <3> HIDE DEF v
    <3>3. [v EXCEPT !.pinned = FALSE] \in Views(scope)
      BY <3>1, ClickedView
    <3> QED BY <3>2, <3>3, AfterClickIsCalm, Zenon
  <2>5. CASE PauseLive
    <3>1. [view EXCEPT !.pinned = TRUE] \in Views(scope)
      BY <1>1, ClickedView
    <3> QED BY <2>5, <3>1, AfterClickIsCalm, Zenon DEF PauseLive
  <2> QED BY <2>2, <2>3, <2>4, <2>5 DEF MapControls
<1>3. UNCHANGED <<scope, initial, mapCache>>
  BY Zenon DEF MapEffect, MapControls, applyPendingUpdates, EnableLive, PauseLive, navigation
<1>4. latestProjection' = latestProjection
  BY <1>3, Zenon DEF latestProjection
<1>5. \A a, b : EffectOn(a, b)' = EffectOn(a, b)
  BY <1>4, Zenon DEF EffectOn
<1>6. EffectOn(view', view') = view'
  BY <1>2, CalmIsFixed, Zenon
<1>7. ~MapEffectDue'
  <2>1. MapEffectDue' <=> EffectOn(view, view)' # view'
    BY Zenon DEF MapEffectDue
  <2>2. PICK x : x = view'
    OBVIOUS
  <2>3. EffectOn(view, view)' = EffectOn(x, x)
    BY <1>4, <2>2, Zenon DEF EffectOn
  <2> QED BY <1>6, <2>1, <2>2, <2>3, Zenon
<1>8. latestProjection \in {view'.applied, view'.offer, NoProjection}
  BY <1>2, Zenon DEF Calm
<1> QED BY <1>4, <1>7, <1>8, Zenon DEF SettledStep

\* The effect that sets the view it reads never sends the page into a loop of
\* renders: one that has run has nothing left to do, and neither has the one that
\* follows a click made while it was due.  What was fetched last is then shown or
\* offered.
EffectSettles == [][MapEffect \/ MapControls => SettledStep]_mapViewVars

THEOREM ViewSettles == MapViewSpec => EffectSettles
<1>1. ViewInv /\ [MapViewNext]_mapViewVars => [MapEffect \/ MapControls => SettledStep]_mapViewVars
  BY SettledStepHolds
<1>2. ViewInv /\ [MapViewNext]_mapViewVars => ViewInv'
  BY ViewNextInv
<1> QED BY ViewInitInv, <1>1, <1>2, PTL DEF MapViewSpec, EffectSettles

-----------------------------------------------------------------------------
(* Types.  What is held is a version core-go had.                          *)

Held == Projections \cup {NoProjection}

HeldViews == [pinned : BOOLEAN, applied : Held, offer : Held]

VersionTypes == mapVersion \in [Scopes -> 1 .. MaxMapVersion]

PageTypes ==
  /\ scope \in Scopes /\ initial \in Held
  /\ visit \in [to : Scopes \cup {NoScope}, pc : {"none", "asked", "fetched"}, fetched : Held]
  /\ visit.pc # "none" => visit.to \in Scopes

QueryTypes ==
  /\ mapCache \in [Scopes -> Held]
  /\ mapPoll \in [pc : {"none", "asked", "answered"}, data : Held]

CountTypes == visits \in 0 .. MaxVisits /\ mapFailures \in 0 .. MaxMapFailures

HeldTypes == VersionTypes /\ PageTypes /\ QueryTypes /\ view \in HeldViews /\ CountTypes

LEMMA CurrentIsHeld ==
  ASSUME VersionTypes, NEW s \in Scopes
  PROVE  Current(s) \in Held
BY DEF VersionTypes, Current, Held, Projections

LEMMA LatestIsHeld ==
  ASSUME PageTypes, QueryTypes
  PROVE  latestProjection \in Held
BY Zenon DEF PageTypes, QueryTypes, latestProjection

LEMMA HeldViewParts ==
  ASSUME NEW v \in HeldViews, NEW p \in Held
  PROVE  /\ [v EXCEPT !.applied = p] \in HeldViews
         /\ [v EXCEPT !.offer = p] \in HeldViews
         /\ [v EXCEPT !.applied = p, !.offer = NoProjection] \in HeldViews
BY DEF HeldViews, Held

LEMMA EffectHolds ==
  ASSUME PageTypes, QueryTypes, NEW seen, NEW v \in HeldViews
  PROVE  EffectOn(seen, v) \in HeldViews
<1>1. latestProjection \in Held /\ NoProjection \in Held
  BY LatestIsHeld DEF Held
<1> QED BY <1>1, HeldViewParts, Zenon DEF EffectOn

LEMMA SettleHolds ==
  ASSUME PageTypes, QueryTypes, NEW v \in HeldViews
  PROVE  Settle(v) \in HeldViews /\ AfterClick(v) \in HeldViews
<1>1. \A u \in HeldViews : Settle(u) \in HeldViews
  BY EffectHolds, Zenon DEF Settle
<1> QED BY <1>1, EffectHolds, Zenon DEF AfterClick

LEMMA ViewInitTypes == MapViewInit => HeldTypes
<1> SUFFICES ASSUME MapViewInit PROVE HeldTypes
  OBVIOUS
<1>1. VersionTypes /\ CountTypes
  BY MapViewAssumption DEF MapViewInit, VersionTypes, CountTypes
<1>2. scope \in Scopes /\ NoProjection \in Held /\ initial \in Held
  BY <1>1, CurrentIsHeld DEF MapViewInit, Held
<1>3. PageTypes
  BY <1>2 DEF MapViewInit, PageTypes, NoVisit
<1>4. QueryTypes
  BY <1>2 DEF MapViewInit, QueryTypes, NoPoll, Held
<1>5. view \in HeldViews
  BY <1>2 DEF MapViewInit, Mounted, HeldViews
<1> QED BY <1>1, <1>3, <1>4, <1>5, Zenon DEF HeldTypes

LEMMA VersionStepTypes == VersionTypes /\ [MapViewNext]_mapViewVars => VersionTypes'
<1> SUFFICES ASSUME VersionTypes, [MapViewNext]_mapViewVars PROVE VersionTypes'
  OBVIOUS
<1>1. ASSUME NEW s \in Scopes, ScopeChanges(s) PROVE VersionTypes'
  <2>1. mapVersion[s] + 1 \in 1 .. MaxMapVersion
    BY <1>1, MapViewAssumption DEF ScopeChanges, VersionTypes
  <2> QED BY <1>1, <2>1 DEF ScopeChanges, VersionTypes
<1>2. CASE UNCHANGED mapVersion
  BY <1>2 DEF VersionTypes
<1> QED BY <1>1, <1>2, Zenon
    DEF MapViewNext, MapQuery, MapAsk, MapAnswer, MapArrive, MapPollFails, MapEffect, MapControls, applyPendingUpdates,
        EnableLive, PauseLive, MapPage, PageFetch, CommitPage, Forget, Visit, mapViewVars

LEMMA PageStepTypes ==
  ASSUME HeldTypes, [MapViewNext]_mapViewVars
  PROVE  PageTypes'
<1>0. VersionTypes /\ PageTypes /\ NoProjection \in Held
  BY DEF HeldTypes, Held
<1>1. CASE UNCHANGED <<scope, initial, visit>>
  BY <1>0, <1>1, Zenon DEF PageTypes
<1>2. ASSUME NEW s \in Scopes, Visit(s) PROVE PageTypes'
  <2>1. visit' = [to |-> s, pc |-> "asked", fetched |-> NoProjection]
    BY <1>2 DEF Visit
  <2> QED BY <1>0, <1>2, <2>1 DEF Visit, PageTypes
<1>3. CASE PageFetch
  <2>1. PICK p \in {Current(visit.to), NoProjection} : visit' = [visit EXCEPT !.pc = "fetched", !.fetched = p]
    BY <1>3 DEF PageFetch
  <2>2. p \in Held /\ visit.to \in Scopes
    BY <1>0, <1>3, <2>1, CurrentIsHeld DEF PageTypes, PageFetch
  <2> QED BY <1>0, <1>3, <2>1, <2>2 DEF PageFetch, PageTypes
<1>4. CASE CommitPage
  BY <1>0, <1>4 DEF CommitPage, PageTypes, NoVisit
<1> QED BY <1>1, <1>2, <1>3, <1>4, Zenon
    DEF MapViewNext, MapQuery, MapAsk, MapAnswer, MapArrive, MapPollFails, MapEffect, MapControls, applyPendingUpdates,
        EnableLive, PauseLive, MapPage, ScopeChanges, Forget, navigation, mapViewVars

LEMMA QueryStepTypes ==
  ASSUME HeldTypes, [MapViewNext]_mapViewVars
  PROVE  QueryTypes'
<1>0. VersionTypes /\ PageTypes /\ QueryTypes /\ NoProjection \in Held
  BY DEF HeldTypes, Held
<1>1. CASE UNCHANGED <<mapCache, mapPoll>>
  BY <1>0, <1>1, Zenon DEF QueryTypes
<1>2. CASE MapAsk \/ MapPollFails
  BY <1>0, <1>2 DEF MapAsk, MapPollFails, NoPoll, QueryTypes
<1>3. CASE MapAnswer
  <2>1. Current(scope) \in Held
    BY <1>0, CurrentIsHeld DEF PageTypes
  <2> QED BY <1>0, <1>3, <2>1 DEF MapAnswer, QueryTypes
<1>4. CASE MapArrive
  BY <1>0, <1>4 DEF MapArrive, NoPoll, QueryTypes
<1>5. ASSUME NEW s \in Scopes, Forget(s) PROVE QueryTypes'
  BY <1>0, <1>5 DEF Forget, QueryTypes
<1>6. CASE CommitPage
  <2>1. mapPoll' \in {mapPoll, NoPoll}
    BY <1>6, Zenon DEF CommitPage
  <2>2. visit.fetched \in Held
    BY <1>0 DEF PageTypes
  <2>3. mapCache' \in [Scopes -> Held]
    BY <1>0, <1>6, <2>2 DEF CommitPage, QueryTypes
  <2> QED BY <1>0, <2>1, <2>3 DEF QueryTypes, NoPoll
<1> QED BY <1>1, <1>2, <1>3, <1>4, <1>5, <1>6, Zenon
    DEF MapViewNext, MapQuery, MapEffect, MapControls, applyPendingUpdates, EnableLive, PauseLive, MapPage, PageFetch,
        ScopeChanges, Visit, mapViewVars

LEMMA ViewStepTypes ==
  ASSUME HeldTypes, [MapViewNext]_mapViewVars
  PROVE  (view \in HeldViews)'
<1>0. PageTypes /\ QueryTypes /\ view \in HeldViews
  BY DEF HeldTypes
<1>1. CASE UNCHANGED view
  BY <1>0, <1>1
<1>2. CASE MapEffect
  BY <1>0, <1>2, SettleHolds DEF MapEffect
<1>3. Accepted(view) \in HeldViews /\ \A v \in HeldViews, b \in BOOLEAN : [v EXCEPT !.pinned = b] \in HeldViews
  BY <1>0 DEF Accepted, HeldViews, Held
<1>4. CASE applyPendingUpdates
  BY <1>0, <1>3, <1>4, SettleHolds DEF applyPendingUpdates
<1>5. CASE EnableLive
  <2> DEFINE v == IF view.offer # NoProjection THEN Accepted(view) ELSE view
  <2>1. v \in HeldViews
    BY <1>0, <1>3
  <2> HIDE DEF v
  <2>2. [v EXCEPT !.pinned = FALSE] \in HeldViews
    BY <1>3, <2>1
  <2>3. view' = AfterClick([v EXCEPT !.pinned = FALSE])
    BY <1>5 DEF EnableLive, v
  <2> QED BY <1>0, <2>2, <2>3, SettleHolds
<1>6. CASE PauseLive
  <2>1. [view EXCEPT !.pinned = TRUE] \in HeldViews
    BY <1>0, <1>3
  <2> QED BY <1>0, <1>6, <2>1, SettleHolds DEF PauseLive
<1>7. CASE CommitPage
  <2>1. Mounted(visit.fetched) \in HeldViews
    BY <1>0 DEF Mounted, PageTypes, HeldViews, Held
  <2> QED BY <1>0, <1>7, <2>1 DEF CommitPage
<1> QED BY <1>1, <1>2, <1>4, <1>5, <1>6, <1>7, Zenon
    DEF MapViewNext, MapQuery, MapAsk, MapAnswer, MapArrive, MapPollFails, MapControls, MapPage, PageFetch,
        ScopeChanges, Forget, Visit, mapViewVars

LEMMA CountStepTypes == CountTypes /\ [MapViewNext]_mapViewVars => CountTypes'
<1> SUFFICES ASSUME CountTypes, [MapViewNext]_mapViewVars PROVE CountTypes'
  OBVIOUS
<1>1. ASSUME NEW s \in Scopes, Visit(s) PROVE CountTypes'
  BY <1>1, MapViewAssumption DEF Visit, CountTypes
<1>2. CASE MapPollFails
  BY <1>2, MapViewAssumption DEF MapPollFails, navigation, CountTypes
<1>3. CASE UNCHANGED <<visits, mapFailures>>
  BY <1>3, Zenon DEF CountTypes
<1> QED BY <1>1, <1>2, <1>3, Zenon
    DEF MapViewNext, MapQuery, MapAsk, MapAnswer, MapArrive, MapEffect, MapControls, applyPendingUpdates,
        EnableLive, PauseLive, MapPage, PageFetch, CommitPage, ScopeChanges, Forget, navigation, mapViewVars

\* Every projection the page holds is one core-go had, and the bounds hold: for any
\* scopes, versions, visits and failures.
THEOREM MapViewTypeCorrect == MapViewSpec => []MapViewTypeOK
<1>1. HeldTypes /\ [MapViewNext]_mapViewVars => HeldTypes'
  BY VersionStepTypes, PageStepTypes, QueryStepTypes, ViewStepTypes, CountStepTypes, Zenon DEF HeldTypes
<1>2. HeldTypes => MapViewTypeOK
  BY Zenon DEF HeldTypes, VersionTypes, PageTypes, QueryTypes, CountTypes, HeldViews, Held, MapViewTypeOK
<1> QED BY ViewInitTypes, <1>1, <1>2, PTL DEF MapViewSpec

-----------------------------------------------------------------------------
(* The links.  A page whose layer supports its focus offers focuses its    *)
(* layer supports, and the inspector keeps to the same table.              *)

LinksInv ==
  /\ MapLinksTypeOK
  /\ chosen # NoObject => ~UnknownLayer(address) /\ chosen.type \in PageFocusSupport[address.layer]

LEMMA LayerSupport ==
  ASSUME NEW l \in Layers
  PROVE  /\ PageFocusSupport[l] \subseteq FocusTypes
         /\ InspectorFocusSupport[l] = PageFocusSupport[l]
         /\ l # "" /\ l # "bogus"
<1>1. PageFocusSupport[l] \in {{"device"}, {"device", "vlan"}, {"device", "subnet"}, {"device", "service"}, {"device", "zone"}}
  BY DEF Layers, PageFocusSupport
<1>2. InspectorFocusSupport = PageFocusSupport
  BY DEF PageFocusSupport, InspectorFocusSupport
<1>3. l # "" /\ l # "bogus"
  BY DEF Layers
<1> QED BY <1>1, <1>2, <1>3 DEF FocusTypes

\* What core-go draws in a layer is of a type that layer can be focused on.
LEMMA KindsAreSupported ==
  ASSUME NEW l \in Layers, NEW type
  PROVE  RegionKinds(l, type) \subseteq PageFocusSupport[l] /\ NodeKinds(l, type) \subseteq PageFocusSupport[l]
BY DEF Layers, PageFocusSupport, RegionKinds, NodeKinds

LEMMA FocusedMeans ==
  ASSUME NEW a
  PROVE  Focused(a) <=> (a.type \in FocusTypes /\ a.id # NoId)
BY DEF Focused, FocusOf, NoObject, FocusTypes

\* An address to an object of a supported type, or to none.
LEMMA ToSupported ==
  ASSUME NEW l \in Layers, NEW o, o = NoObject \/ o.type \in PageFocusSupport[l]
  PROVE  Supported(To(l, o)) /\ To(l, o).layer = l
<1>1. To(l, o).layer = l /\ To(l, o).type = o.type /\ To(l, o).id = o.id
  BY DEF To
<1>2. o = NoObject => ~Focused(To(l, o))
  <2>1. Focused(To(l, o)) => o.type \in FocusTypes
    BY <1>1, FocusedMeans
  <2>2. NoObject.type = "" /\ "" \notin FocusTypes
    BY DEF NoObject, FocusTypes
  <2> QED BY <2>1, <2>2
<1> QED BY <1>1, <1>2 DEF Supported, UnknownLayer

LEMMA LayerLinkSupported ==
  ASSUME NEW a \in Addresses, NEW l \in Layers
  PROVE  Supported(LayerLink(a, l))
<1>1. CASE Focused(a) /\ a.type \notin PageFocusSupport[l]
  BY <1>1, ToSupported DEF LayerLink
<1>2. CASE ~(Focused(a) /\ a.type \notin PageFocusSupport[l])
  <2> DEFINE b == [a EXCEPT !.layer = l]
  <2>1. b.layer = l /\ b.type = a.type /\ b.id = a.id
    BY DEF Addresses
  <2>2. Focused(b) => a.type \in PageFocusSupport[l]
    BY <1>2, <2>1, FocusedMeans
  <2>3. Supported(b)
    BY <2>1, <2>2 DEF Supported, UnknownLayer
  <2> QED BY <1>2, <2>3 DEF LayerLink
<1> QED BY <1>1, <1>2

LEMMA ServerRelationshipKinds ==
  ASSUME NEW layer, NEW focus, NEW r \in ServerRelationships(layer, focus)
  PROVE  \/ \E l \in Layers : r = To(l, focus)
         \/ \E k \in RegionKinds(layer, "device") \cup NodeKinds(layer, focus.type), i \in ObjectIds :
              r = To(layer, [type |-> k, id |-> i])
<1> DEFINE layers == {To(l, focus) : l \in Layers}
           regions == {To(layer, [type |-> k, id |-> i]) : k \in RegionKinds(layer, "device") \ {"device"}, i \in ObjectIds}
           nodes == {To(layer, [type |-> k, id |-> i]) : k \in NodeKinds(layer, focus.type) \cap {"device"}, i \in ObjectIds}
<1>1. ServerRelationships(layer, focus) =
        layers \cup (IF focus.type = "device" THEN regions ELSE {}) \cup (IF layer # "security" THEN nodes ELSE {})
  BY DEF ServerRelationships
<1>2. r \in layers \/ r \in regions \/ r \in nodes
  <2> HIDE DEF layers, regions, nodes
  <2> QED BY <1>1
<1>3. CASE r \in layers
  BY <1>3
<1>4. CASE r \in regions
  BY <1>4
<1>5. CASE r \in nodes
  <2>1. PICK k \in NodeKinds(layer, focus.type) \cap {"device"}, i \in ObjectIds : r = To(layer, [type |-> k, id |-> i])
    BY <1>5
  <2>2. k \in RegionKinds(layer, "device") \cup NodeKinds(layer, focus.type)
    OBVIOUS
  <2> QED BY <2>1, <2>2, Zenon
<1> QED BY <1>2, <1>3, <1>4, <1>5

LEMMA RelationshipsSupported ==
  ASSUME LinksInv, Supported(address), NEW r \in Relationships(address)
  PROVE  Supported(RelationshipLink(address, r))
<1> DEFINE a == address
<1>1. a.layer \in Layers /\ Asks(a) /\ held
  BY DEF Supported, UnknownLayer, Relationships
<1>2. r.layer \in Layers /\ (r.layer = a.layer => Supported(r))
  <2>1. CASE chosen # NoObject
    <3>1. PICK l \in Layers : r = To(l, chosen)
      BY <1>1, <2>1 DEF Relationships, SelectionRelationships
    <3>2. r.layer = l
      BY <3>1 DEF To
    <3> QED BY <2>1, <3>1, <3>2, ToSupported DEF LinksInv
  <2>2. CASE chosen = NoObject
    <3> DEFINE focus == FocusOf(a)
    <3>1. focus.type = a.type /\ a.type \in PageFocusSupport[a.layer]
      BY <1>1 DEF Asks, Supported, Focused, FocusOf
    <3>2. r \in ServerRelationships(a.layer, focus)
      BY <1>1, <2>2 DEF Relationships
    <3>3. CASE r \in {To(l, focus) : l \in Layers}
      <4>1. PICK l \in Layers : r = To(l, focus)
        BY <3>3
      <4>2. r.layer = l
        BY <4>1 DEF To
      <4> QED BY <3>1, <4>1, <4>2, ToSupported
    <3>4. ASSUME NEW k \in PageFocusSupport[a.layer], NEW i \in ObjectIds, r = To(a.layer, [type |-> k, id |-> i])
          PROVE  r.layer = a.layer /\ Supported(r)
      BY <1>1, <3>4, ToSupported
    <3>5. CASE r \notin {To(l, focus) : l \in Layers}
      <4>1. \E k \in RegionKinds(a.layer, "device") \cup NodeKinds(a.layer, focus.type), i \in ObjectIds :
              r = To(a.layer, [type |-> k, id |-> i])
        <5> HIDE DEF a, focus
        <5> HIDE DEF a, focus
        <5> QED BY <3>2, <3>5, ServerRelationshipKinds
      <4> HIDE DEF a
      <4> QED BY <1>1, <3>4, <4>1, KindsAreSupported
    <3> QED BY <3>3, <3>5
  <2> QED BY <2>1, <2>2
<1>3. resolveCrossLayerFocus(r.layer, FocusOf(r)) = NoObject \/ resolveCrossLayerFocus(r.layer, FocusOf(r)).type \in PageFocusSupport[r.layer]
  BY <1>2, LayerSupport DEF resolveCrossLayerFocus
<1> QED BY <1>2, <1>3, ToSupported DEF RelationshipLink

LEMMA LinksAreSupported ==
  ASSUME LinksInv
  PROVE  LinksStaySupported
<1> SUFFICES ASSUME Supported(address), NEW b \in Links(address) PROVE Supported(b)
  BY DEF LinksStaySupported
<1>1. address \in Addresses /\ address.layer \in Layers
  BY DEF LinksInv, MapLinksTypeOK, Supported, UnknownLayer
<1>2. CASE b \in {LayerLink(address, l) : l \in Layers}
  BY <1>1, <1>2, LayerLinkSupported
<1>3. CASE b \in {RelationshipLink(address, r) : r \in Relationships(address)}
  BY <1>3, RelationshipsSupported
<1>4. CASE b \in CanvasLinks(address)
  <2>1. PICK o \in OnCanvas(address) : b = To(address.layer, o)
    BY <1>4 DEF CanvasLinks
  <2>2. o.type \in RegionKinds(address.layer, address.type) \cup NodeKinds(address.layer, address.type)
    BY <2>1 DEF OnCanvas
  <2>3. o.type \in PageFocusSupport[address.layer]
    BY <1>1, <2>2, KindsAreSupported
  <2> QED BY <1>1, <2>1, <2>3, ToSupported
<1>5. CASE b = ClearLink(address)
  BY <1>1, <1>5, ToSupported DEF ClearLink
<1> QED BY <1>2, <1>3, <1>4, <1>5 DEF Links

-----------------------------------------------------------------------------
LEMMA RedirectedAddress ==
  ASSUME NEW a \in Addresses
  PROVE  Redirected(a) \in Addresses /\ Redirected(a).layer # ""
BY DEF Redirected, Addresses, RawLayers, Layers, DEFAULT_LAYER

LEMMA MapLinksInitInv == MapLinksInit => LinksInv
<1> SUFFICES ASSUME MapLinksInit PROVE LinksInv
  OBVIOUS
<1>1. address \in Addresses /\ address.layer # ""
  BY RedirectedAddress DEF MapLinksInit
<1>2. chosen = NoObject /\ fetched \in {"none", "loaded", "failed"} /\ held \in BOOLEAN
  BY DEF MapLinksInit
<1> QED BY <1>1, <1>2 DEF LinksInv, MapLinksTypeOK

LEMMA ToAddress ==
  ASSUME NEW l \in Layers, NEW type \in FocusTypes \cup {""}, NEW id \in ObjectIds \cup {NoId}
  PROVE  [layer |-> l, type |-> type, id |-> id] \in Addresses
BY DEF Addresses, RawLayers, RawFocusTypes

\* A page keeps the selection only in the layer it was made in.
LEMMA ShowsInv ==
  ASSUME LinksInv, NEW a \in Addresses, Shows(a)
  PROVE  LinksInv'
<1>1. address' \in Addresses /\ address'.layer # "" /\ address' = Redirected(a)
  BY RedirectedAddress DEF Shows
<1>2. fetched' \in {"none", "loaded", "failed"} /\ held' \in BOOLEAN
  BY DEF Shows
<1>3. chosen' \in {chosen, NoObject}
  BY DEF Shows
<1>4. chosen' # NoObject => chosen' = chosen /\ address'.layer = address.layer
  BY <1>1 DEF Shows, selectionScopeKey
<1> QED BY <1>1, <1>2, <1>3, <1>4 DEF LinksInv, MapLinksTypeOK, UnknownLayer

LEMMA LinksAreAddresses ==
  ASSUME LinksInv, NEW b \in Links(address)
  PROVE  b \in Addresses
<1> DEFINE a == address
<1>1. a \in Addresses /\ a.layer \in RawLayers
  BY DEF LinksInv, MapLinksTypeOK, Addresses
<1>2. ASSUME NEW l \in RawLayers, NEW o \in Objects \cup {NoObject} PROVE To(l, o) \in Addresses
  <2>1. o.type \in RawFocusTypes /\ o.id \in ObjectIds \cup {NoId}
    <3>1. CASE o \in Objects
      BY <3>1 DEF Objects, RawFocusTypes
    <3>2. CASE o = NoObject
      BY <3>2 DEF NoObject, RawFocusTypes
    <3> QED BY <3>1, <3>2
  <2> QED BY <2>1 DEF To, Addresses
<1>3. Asks(a) => a.layer \in Layers /\ FocusOf(a) \in Objects
  <2>1. a.id \in ObjectIds \cup {NoId}
    BY <1>1 DEF Addresses
  <2>2. Asks(a) => a.layer \in Layers /\ a.type \in FocusTypes /\ a.id # NoId
    BY FocusedMeans DEF Asks, UnknownLayer
  <2>3. a.type \in FocusTypes /\ a.id # NoId => FocusOf(a) \in Objects
    BY <2>1 DEF FocusOf, Objects
  <2> QED BY <2>2, <2>3
<1>4. chosen \in Objects \cup {NoObject}
  BY DEF LinksInv, MapLinksTypeOK
<1>5. Layers \subseteq RawLayers /\ NoObject \in Objects \cup {NoObject}
  BY DEF RawLayers
<1>6. ASSUME NEW l \in Layers PROVE LayerLink(a, l) \in Addresses
  <2>1. [a EXCEPT !.layer = l] \in Addresses
    BY <1>1, <1>5 DEF Addresses
  <2> QED BY <1>2, <1>5, <2>1 DEF LayerLink
<1>7. ASSUME NEW l \in Layers, NEW type \in {"device", "subnet", "vlan", "zone", "service"}, NEW i \in ObjectIds
      PROVE  To(l, [type |-> type, id |-> i]) \in Addresses
  BY <1>2, <1>5 DEF Objects, FocusTypes
<1>8. ASSUME NEW r \in Relationships(a) PROVE RelationshipLink(a, r) \in Addresses
  <2>1. Asks(a) /\ a.layer \in Layers /\ FocusOf(a) \in Objects
    BY <1>3, <1>8 DEF Relationships
  <2>2. \A k \in RegionKinds(a.layer, "device") \cup NodeKinds(a.layer, FocusOf(a).type) : k \in FocusTypes
    BY <2>1, KindsAreSupported, LayerSupport
  <2>3. r \in Addresses /\ r.layer \in Layers
    <3>1. CASE chosen # NoObject
      <4>1. PICK l \in Layers : r = To(l, chosen)
        BY <2>1, <1>8, <3>1 DEF Relationships, SelectionRelationships
      <4> QED BY <1>2, <1>4, <1>5, <4>1 DEF To
    <3>2. CASE chosen = NoObject
      <4>1. r \in ServerRelationships(a.layer, FocusOf(a))
        BY <1>8, <3>2 DEF Relationships
      <4>2. \/ \E l \in Layers : r = To(l, FocusOf(a))
            \/ \E k \in RegionKinds(a.layer, "device") \cup NodeKinds(a.layer, FocusOf(a).type), i \in ObjectIds :
                 r = To(a.layer, [type |-> k, id |-> i])
        BY <4>1, ServerRelationshipKinds
      <4>3. ASSUME NEW l \in Layers, r = To(l, FocusOf(a)) PROVE r \in Addresses /\ r.layer \in Layers
        BY <1>2, <1>5, <2>1, <4>3 DEF To
      <4>4. ASSUME NEW k \in FocusTypes, NEW i \in ObjectIds, r = To(a.layer, [type |-> k, id |-> i])
            PROVE  r \in Addresses /\ r.layer \in Layers
        BY <1>7, <2>1, <4>4 DEF To, FocusTypes
      <4> HIDE DEF a
      <4> QED BY <2>2, <4>2, <4>3, <4>4
    <3> QED BY <3>1, <3>2
  <2>4. resolveCrossLayerFocus(r.layer, FocusOf(r)) \in Objects \cup {NoObject}
    BY <2>3 DEF resolveCrossLayerFocus, FocusOf, Objects, Addresses
  <2> QED BY <1>2, <1>5, <2>3, <2>4 DEF RelationshipLink
<1>9. ASSUME b \in CanvasLinks(a) PROVE b \in Addresses
  <2>1. PICK o \in OnCanvas(a) : b = To(a.layer, o)
    BY <1>9 DEF CanvasLinks
  <2>2. Asks(a) /\ o \in [type : RegionKinds(a.layer, a.type) \cup NodeKinds(a.layer, a.type), id : ObjectIds]
    BY <2>1 DEF OnCanvas
  <2>3. RegionKinds(a.layer, a.type) \cup NodeKinds(a.layer, a.type) \subseteq FocusTypes
    BY <1>3, <2>2, KindsAreSupported, LayerSupport
  <2>4. o \in Objects
    BY <2>2, <2>3 DEF Objects
  <2> QED BY <1>1, <1>2, <2>1, <2>4
<1>10. ClearLink(a) \in Addresses
  BY <1>1, <1>2 DEF ClearLink
<1> QED BY <1>6, <1>8, <1>9, <1>10 DEF Links

LEMMA ChooseInv ==
  ASSUME LinksInv, NEW o \in Objects, Choose(o)
  PROVE  LinksInv'
<1>1. Asks(address) /\ o.type \in RegionKinds(address.layer, address.type) \cup NodeKinds(address.layer, address.type)
  BY DEF Choose, OnCanvas
<1>2. ~UnknownLayer(address) /\ o.type \in PageFocusSupport[address.layer]
  BY <1>1, KindsAreSupported DEF Asks, UnknownLayer
<1> QED BY <1>2 DEF Choose, LinksInv, MapLinksTypeOK, UnknownLayer

LEMMA MapLinksStepInv == LinksInv /\ [MapLinksNext]_mapLinksVars => LinksInv'
<1> SUFFICES ASSUME LinksInv, [MapLinksNext]_mapLinksVars PROVE LinksInv'
  OBVIOUS
<1>1. CASE UNCHANGED mapLinksVars
  BY <1>1 DEF mapLinksVars, LinksInv, MapLinksTypeOK, UnknownLayer
<1>2. CASE PollLoads
  BY <1>2 DEF PollLoads, LinksInv, MapLinksTypeOK, UnknownLayer
<1>3. CASE FollowLink
  BY <1>3, LinksAreAddresses, ShowsInv DEF FollowLink
<1>4. CASE ApplyFocus
  <2>1. PICK type \in FocusTypes \cup {""}, id \in ObjectIds \cup {NoId} :
          Shows([layer |-> activeLayerId(address), type |-> type, id |-> id])
    BY <1>4 DEF ApplyFocus
  <2>2. activeLayerId(address) \in Layers
    BY DEF activeLayerId, UnknownLayer, Layers, DEFAULT_LAYER
  <2> QED BY <2>1, <2>2, ToAddress, ShowsInv
<1>5. ASSUME NEW o \in Objects, Choose(o) PROVE LinksInv'
  BY <1>5, ChooseInv
<1>6. CASE ClearSelection
  BY <1>6 DEF ClearSelection, LinksInv, MapLinksTypeOK
<1> QED BY <1>1, <1>2, <1>3, <1>4, <1>5, <1>6 DEF MapLinksNext

\* The layer, the focus and the selection are ones the page can be opened with, for any
\* set of objects.
THEOREM MapLinksTypeCorrect == MapLinksSpec => []MapLinksTypeOK
<1>1. LinksInv => MapLinksTypeOK
  BY DEF LinksInv
<1> QED BY <1>1, MapLinksInitInv, MapLinksStepInv, PTL DEF MapLinksSpec

\* From a page whose layer supports its focus no link of the list, the inspector
\* or the canvas leads to one whose layer does not, for any set of objects.
THEOREM LinksLeadSomewhere == MapLinksSpec => []LinksStaySupported
BY LinksAreSupported, MapLinksInitInv, MapLinksStepInv, PTL DEF MapLinksSpec

-----------------------------------------------------------------------------
(* The canvas.  The lists core-go cuts are the least of a finite set of    *)
(* numbers; a build that reads its regions, devices and links one after the*)
(* other keeps what it read of the earlier, and a drawing is made from a   *)
(* build that has read everything.                                         *)

Below(S, x) == {y \in S : y < x}

LEMMA BelowIsFinite ==
  ASSUME NEW S \in SUBSET Nat, IsFiniteSet(S), NEW x
  PROVE  /\ IsFiniteSet(Below(S, x)) /\ Cardinality(Below(S, x)) \in Nat
         /\ IsFiniteSet(S) /\ Cardinality(S) \in Nat
<1>1. Below(S, x) \in SUBSET S
  BY DEF Below
<1>2. IsFiniteSet(Below(S, x))
  BY <1>1, FS_Subset, Zenon
<1> QED BY <1>2, FS_CardinalityType, Zenon

LEMMA FirstOfBelow ==
  ASSUME NEW S, NEW n
  PROVE  /\ FirstOf(S, n) \in SUBSET S
         /\ \A x \in S : x \in FirstOf(S, n) <=> Cardinality(Below(S, x)) < n
BY DEF FirstOf, Below

LEMMA FirstOfIsFinite ==
  ASSUME NEW S \in SUBSET Nat, IsFiniteSet(S), NEW n
  PROVE  FirstOf(S, n) \in SUBSET Nat /\ IsFiniteSet(FirstOf(S, n)) /\ Cardinality(FirstOf(S, n)) \in Nat
<1>1. FirstOf(S, n) \in SUBSET S
  BY FirstOfBelow
<1>2. IsFiniteSet(FirstOf(S, n))
  BY <1>1, FS_Subset, Zenon
<1> QED BY <1>1, <1>2, FS_CardinalityType, Zenon

\* A limit that is not exceeded leaves nothing out.
LEMMA FirstOfFew ==
  ASSUME NEW S \in SUBSET Nat, IsFiniteSet(S), NEW n \in Nat, Cardinality(S) <= n
  PROVE  FirstOf(S, n) = S
<1>1. ASSUME NEW x \in S PROVE Cardinality(Below(S, x)) < n
  <2>1. Below(S, x) \in SUBSET (S \ {x})
    BY DEF Below
  <2>2. IsFiniteSet(S \ {x}) /\ Cardinality(S \ {x}) = Cardinality(S) - 1
    BY FS_RemoveElement, Zenon
  <2>3. Cardinality(Below(S, x)) <= Cardinality(S \ {x})
    BY <2>1, <2>2, FS_Subset, Zenon
  <2> QED BY <2>2, <2>3, BelowIsFinite
<1> QED BY <1>1, FirstOfBelow

\* What a limit leaves out lies above the first n.
LEMMA LeftOutIsAbove ==
  ASSUME NEW S \in SUBSET Nat, IsFiniteSet(S), NEW n \in Nat, NEW d \in S \ FirstOf(S, n)
  PROVE  FirstOf(S, n) \in SUBSET Below(S, d) /\ n <= Cardinality(FirstOf(S, n))
<1>1. ASSUME NEW e \in S \ FirstOf(S, n) PROVE FirstOf(S, n) \in SUBSET Below(S, e)
  <2>1. ASSUME NEW x \in FirstOf(S, n), ~(x < e) PROVE FALSE
    <3>0. x \in S /\ e \in S
      BY FirstOfBelow
    <3>1. Below(S, e) \in SUBSET Below(S, x)
      <4>1. x \in Nat /\ e \in Nat
        BY <3>0
      <4>2. ASSUME NEW z \in Below(S, e) PROVE z \in S /\ z < x
        BY <2>1, <4>1 DEF Below
      <4> QED BY <4>2 DEF Below
    <3>2. Cardinality(Below(S, e)) <= Cardinality(Below(S, x))
      BY <3>1, BelowIsFinite, FS_Subset, Zenon
    <3>3. Cardinality(Below(S, x)) < n /\ ~(Cardinality(Below(S, e)) < n)
      BY <3>0, FirstOfBelow
    <3> QED BY <3>2, <3>3, BelowIsFinite
  <2> QED BY <2>1, FirstOfBelow DEF Below
<1>2. PICK e \in S \ FirstOf(S, n) : \A z \in S \ FirstOf(S, n) : e <= z
  <2>1. (S \ FirstOf(S, n)) \in SUBSET Nat /\ S \ FirstOf(S, n) # {}
    OBVIOUS
  <2> QED BY <2>1, LeastNat
<1>3. Below(S, e) \in SUBSET FirstOf(S, n)
  <2>1. ASSUME NEW y \in Below(S, e), y \notin FirstOf(S, n) PROVE FALSE
    <3>1. y \in S \ FirstOf(S, n) /\ y < e /\ y \in Nat /\ e \in Nat
      BY <2>1 DEF Below
    <3>2. e <= y
      BY <1>2, <3>1, Zenon
    <3> QED BY <3>1, <3>2
  <2> QED BY <2>1
<1>4. Cardinality(Below(S, e)) <= Cardinality(FirstOf(S, n))
  BY <1>3, FirstOfIsFinite, FS_Subset, Zenon
<1>5. ~(Cardinality(Below(S, e)) < n)
  BY FirstOfBelow
<1>6. n <= Cardinality(FirstOf(S, n))
  BY <1>4, <1>5, BelowIsFinite, FirstOfIsFinite
<1> QED BY <1>1, <1>6

\* Fewer than the limit is everybody.
LEMMA FirstOfShort ==
  ASSUME NEW S \in SUBSET Nat, IsFiniteSet(S), NEW n \in Nat, Cardinality(FirstOf(S, n)) < n
  PROVE  FirstOf(S, n) = S
<1>1. ASSUME NEW d \in S \ FirstOf(S, n) PROVE FALSE
  BY LeftOutIsAbove, FirstOfIsFinite
<1> QED BY <1>1, FirstOfBelow

\* A limit is kept.
LEMMA FirstOfBounded ==
  ASSUME NEW S \in SUBSET Nat, IsFiniteSet(S), NEW n \in Nat
  PROVE  Cardinality(FirstOf(S, n)) <= n
<1> DEFINE F == FirstOf(S, n)
<1>1. F \in SUBSET S /\ F \in SUBSET Nat /\ IsFiniteSet(F) /\ Cardinality(F) \in Nat
  BY FirstOfIsFinite, FirstOfBelow
<1>2. CASE F = {}
  BY <1>2, FS_EmptySet
<1>3. CASE F # {}
  <2>1. PICK x \in F : \A y \in F : y <= x
    <3> HIDE DEF F
    <3> QED BY <1>1, <1>3, GreatestNat
  <2>2. (F \ {x}) \in SUBSET Below(S, x)
    <3> HIDE DEF F
    <3> QED BY <1>1, <2>1 DEF Below
  <2>3. x \in S /\ Cardinality(Below(S, x)) < n
    BY <1>1, FirstOfBelow
  <2> HIDE DEF F
  <2>4. Cardinality(F \ {x}) = Cardinality(F) - 1
    BY <1>1, FS_RemoveElement, Zenon
  <2>5. Cardinality(F \ {x}) <= Cardinality(Below(S, x))
    BY <1>1, <2>2, BelowIsFinite, FS_Subset, Zenon
  <2>6. Cardinality(Below(S, x)) \in Nat
    BY BelowIsFinite, Zenon
  <2>7. Cardinality(F) <= n
    BY <1>1, <2>3, <2>4, <2>5, <2>6
  <2> QED BY <2>7 DEF F
<1> QED BY <1>2, <1>3

LEMMA LeastIs ==
  ASSUME NEW S \in SUBSET Nat, S # {}
  PROVE  Least(S) \in S /\ \A y \in S : Least(S) <= y
<1>1. \E i \in S : \A j \in S : i <= j
  BY LeastNat
<1> QED BY <1>1 DEF Least

PeersOf(b) == UNION {b.found[r] : r \in b.kept}
ShownOf(b) == FirstOf(PeersOf(b), NodeLimit - 1)
RegionsOf(b, d) == {r \in b.kept : d \in b.found[r]}

\* A node is placed in the first of its regions, which are among those drawn.
NodeOK(n, regions) ==
  /\ n.id \in MapDevices /\ n.regions \subseteq regions
  /\ n.primary = IF n.regions = {} THEN 0 ELSE Least(n.regions)
  /\ regions # {} => n.regions # {}

DrawingOK(p) ==
  /\ p.regions \subseteq MapRegions /\ IsFiniteSet(p.nodes)
  /\ \A n \in p.nodes : NodeOK(n, p.regions)

Complete(b) ==
  /\ b.all = inRegions[FocusDevice]
  /\ \A r \in DOMAIN b.found : b.found[r] = FirstOf(MembersOf(r) \ {FocusDevice}, NodeLimit)

BuildInv ==
  \/ build.pc = "none"
  \/ /\ build.pc = "peers" /\ mapFocus.kind = "device"
     /\ build = [pc |-> "peers", kept |-> build.kept, all |-> build.all, found |-> build.found]
     /\ build.all \subseteq MapRegions /\ build.kept \subseteq build.all
     /\ build.kept = FirstOf(build.all, RegionLimit)
     /\ DOMAIN build.found \subseteq build.kept
     /\ \A r \in DOMAIN build.found : build.found[r] \subseteq Peers
     /\ ~moved => Complete(build)

StateOK ==
  /\ inRegions \in [MapDevices -> SUBSET MapRegions]
  /\ links \subseteq [peer : Peers, key : 1 .. 2]
  /\ moves \in 0 .. MaxMoves
  /\ mapFocus.kind \in {"device", "region", "links"}
  /\ mapFocus.kind = "region" => mapFocus.id \in MapRegions

CanvasInv == StateOK /\ BuildInv /\ DrawingOK(projection) /\ CutIsTold

LEMMA SetsAreFinite ==
  /\ MapDevices \in SUBSET Nat /\ MapRegions \in SUBSET Nat /\ Peers \in SUBSET MapDevices
  /\ 0 \notin MapRegions /\ FocusDevice \in MapDevices
  /\ NodeLimit \in Nat /\ NodeLimit - 1 \in Nat /\ RegionLimit \in Nat /\ EdgeLimit \in Nat
  /\ \A S \in SUBSET MapDevices : S \in SUBSET Nat /\ IsFiniteSet(S) /\ Cardinality(S) \in Nat
  /\ \A S \in SUBSET MapRegions : S \in SUBSET Nat /\ IsFiniteSet(S) /\ Cardinality(S) \in Nat
<1>1. IsFiniteSet(MapDevices) /\ IsFiniteSet(MapRegions) /\ MapDevices \in SUBSET Nat /\ MapRegions \in SUBSET Nat
  BY CanvasAssumption
<1>2. ASSUME NEW D, IsFiniteSet(D), NEW S \in SUBSET D PROVE IsFiniteSet(S) /\ Cardinality(S) \in Nat
  <2>1. IsFiniteSet(S)
    BY <1>2, FS_Subset, Zenon
  <2> QED BY <2>1, FS_CardinalityType, Zenon
<1>3. \A S \in SUBSET MapDevices : S \in SUBSET Nat /\ IsFiniteSet(S) /\ Cardinality(S) \in Nat
  BY <1>1, <1>2
<1>4. \A S \in SUBSET MapRegions : S \in SUBSET Nat /\ IsFiniteSet(S) /\ Cardinality(S) \in Nat
  BY <1>1, <1>2
<1>5. NodeLimit \in Nat /\ NodeLimit - 1 \in Nat /\ RegionLimit \in Nat /\ EdgeLimit \in Nat
  BY CanvasAssumption
<1>6. Peers \in SUBSET MapDevices /\ 0 \notin MapRegions /\ FocusDevice \in MapDevices
  BY CanvasAssumption DEF Peers
<1> QED BY <1>1, <1>3, <1>4, <1>5, <1>6

LEMMA NodeIsOK ==
  ASSUME NEW d \in MapDevices, NEW own \in SUBSET MapRegions, NEW regions, own \subseteq regions,
         regions # {} => own # {}
  PROVE  NodeOK(Node(d, own), regions)
BY DEF Node, NodeOK

\* The nodes of finitely many devices are finitely many.
LEMMA NodesAreFinite ==
  ASSUME NEW D, IsFiniteSet(D), NEW f, NEW N, f \in [D -> N], \A n \in N : \E d \in D : f[d] = n
  PROVE  IsFiniteSet(N)
<1>1. f \in Surjection(D, N)
  BY DEF Surjection
<1> QED BY <1>1, FS_Surjection, Zenon

LEMMA DeviceNodes ==
  ASSUME NEW b, NEW c, NEW p, p = DeviceDrawing(b, c)
  PROVE  /\ p.regions = b.kept
         /\ p.nodes = {Node(FocusDevice, b.kept)} \cup {Node(d, RegionsOf(b, d)) : d \in ShownOf(b)}
         /\ \A e \in p.edges : e.peer \in ShownOf(b)
<1> DEFINE joined == IF c THEN FirstOf(ShownOf(b), EdgeLimit) ELSE {}
<1>1. /\ p.regions = b.kept
      /\ p.nodes = {Node(FocusDevice, b.kept)} \cup {Node(d, RegionsOf(b, d)) : d \in ShownOf(b)}
      /\ p.edges = {[peer |-> d, key |-> 0] : d \in joined}
  BY DEF DeviceDrawing, PeersOf, ShownOf, RegionsOf
<1>2. joined \subseteq ShownOf(b)
  BY FirstOfBelow
<1> HIDE DEF joined
<1> QED BY <1>1, <1>2

LEMMA DeviceCuts ==
  ASSUME NEW b, NEW c, NEW p, p = DeviceDrawing(b, c)
  PROVE  /\ ~p.nodesCut => ~(Cardinality(PeersOf(b)) > NodeLimit - 1)
         /\ ~p.regionsCut => b.all = b.kept
BY DEF DeviceDrawing, PeersOf

LEMMA DeviceDrawingOK ==
  ASSUME CanvasInv, build.pc = "peers", build.kept = DOMAIN build.found, NEW c
  PROVE  /\ DrawingOK(DeviceDrawing(build, c))
         /\ PeersOf(build) \in SUBSET Peers /\ ShownOf(build) \in SUBSET PeersOf(build)
<1> DEFINE p == DeviceDrawing(build, c)
           shown == ShownOf(build)
<1>1. /\ build.kept \in SUBSET MapRegions
      /\ \A r \in build.kept : build.found[r] \in SUBSET Peers
  BY DEF CanvasInv, BuildInv
<1>2. PeersOf(build) \in SUBSET Peers /\ shown \in SUBSET PeersOf(build)
  BY <1>1, FirstOfBelow DEF PeersOf, ShownOf
<1>3. /\ p.regions = build.kept
      /\ p.nodes = {Node(FocusDevice, build.kept)} \cup {Node(d, RegionsOf(build, d)) : d \in shown}
  BY DeviceNodes
<1>4. ASSUME NEW d \in shown PROVE RegionsOf(build, d) \in SUBSET build.kept /\ RegionsOf(build, d) # {}
  BY <1>2 DEF RegionsOf, PeersOf
<1>5. shown \in SUBSET MapDevices /\ IsFiniteSet(shown)
  BY <1>2, SetsAreFinite, Zenon
<1> HIDE DEF p, shown
<1>6. ASSUME NEW n \in p.nodes PROVE NodeOK(n, p.regions)
  <2>1. CASE n = Node(FocusDevice, build.kept)
    BY <1>1, <1>3, <2>1, SetsAreFinite, NodeIsOK
  <2>2. CASE n # Node(FocusDevice, build.kept)
    <3>1. PICK d \in shown : n = Node(d, RegionsOf(build, d))
      BY <1>3, <2>2
    <3> QED BY <1>1, <1>3, <1>4, <1>5, <3>1, NodeIsOK
  <2> QED BY <2>1, <2>2
<1>7. IsFiniteSet(p.nodes)
  <2> DEFINE others == {Node(d, RegionsOf(build, d)) : d \in shown}
             f == [d \in shown |-> Node(d, RegionsOf(build, d))]
  <2>1. f \in [shown -> others] /\ \A n \in others : \E d \in shown : f[d] = n
    <3>1. \A d \in shown : Node(d, RegionsOf(build, d)) \in others
      OBVIOUS
    <3>2. \A n \in others : \E d \in shown : n = Node(d, RegionsOf(build, d))
      BY Zenon
    <3>3. f \in [shown -> others]
      <4> HIDE DEF others
      <4> QED BY <3>1
    <3>4. \A d \in shown : f[d] = Node(d, RegionsOf(build, d))
      OBVIOUS
    <3> HIDE DEF others, f
    <3> QED BY <3>2, <3>3, <3>4
  <2> HIDE DEF f, others
  <2>2. IsFiniteSet(others)
    BY <1>5, <2>1, NodesAreFinite
  <2>3. IsFiniteSet(others \cup {Node(FocusDevice, build.kept)})
    BY <2>2, FS_AddElement, Zenon
  <2>4. p.nodes = others \cup {Node(FocusDevice, build.kept)}
    BY <1>3 DEF others
  <2> QED BY <2>3, <2>4
<1>8. DrawingOK(p)
  BY <1>1, <1>3, <1>6, <1>7 DEF DrawingOK
<1> QED BY <1>2, <1>8 DEF p, shown

\* A drawing p tells what is left out of what core-go has.
Told(p) ==
  /\ ~(p.regionsCut \/ p.nodesCut \/ p.edgesCut) /\ mapFocus.kind = "device" => p.regions = inRegions[FocusDevice]
  /\ ~p.nodesCut =>
       {n.id : n \in p.nodes} =
         CASE mapFocus.kind = "device" -> {FocusDevice} \cup {d \in Peers : inRegions[d] \cap p.regions # {}}
           [] mapFocus.kind = "region" -> MembersOf(mapFocus.id)
           [] mapFocus.kind = "links" -> {FocusDevice} \cup {l.peer : l \in links}
  /\ \A n \in p.nodes : n.regions = inRegions[n.id] \cap p.regions
  /\ \A e \in p.edges : e.peer \in {n.id : n \in p.nodes} \ {FocusDevice}
  /\ mapFocus.kind = "links" => {n.id : n \in p.nodes} = {FocusDevice} \cup {e.peer : e \in p.edges}

LEMMA RowsArePeers == {row.peer : row \in LinkRows} = {e.peer : e \in projection.edges}
<1>1. ASSUME NEW x \in {row.peer : row \in LinkRows} PROVE x \in {e.peer : e \in projection.edges}
  BY DEF LinkRows
<1>2. ASSUME NEW e \in projection.edges PROVE e.peer \in {row.peer : row \in LinkRows}
  <2>1. [key |-> e.key, peer |-> e.peer] \in LinkRows /\ [key |-> e.key, peer |-> e.peer].peer = e.peer
    BY DEF LinkRows
  <2> QED BY <2>1
<1> QED BY <1>1, <1>2

LEMMA ToldMeansCutIsTold == Told(projection) => CutIsTold
BY RowsArePeers, Zenon DEF Told, CutIsTold, Warned, Expected

\* Nobody who is drawn has been left out of one of his regions.
LEMMA ShownAreFound ==
  ASSUME CanvasInv, build.pc = "peers", build.kept = DOMAIN build.found, Complete(build),
         NEW r \in build.kept, NEW d \in ShownOf(build), d \in MembersOf(r)
  PROVE  d \in build.found[r]
<1> DEFINE S == MembersOf(r) \ {FocusDevice}
<1>0. PeersOf(build) \in SUBSET Peers /\ ShownOf(build) \in SUBSET PeersOf(build)
  BY DeviceDrawingOK
<1>1. S \in SUBSET MapDevices /\ d \in S /\ build.found[r] = FirstOf(S, NodeLimit)
  BY <1>0 DEF Complete, MembersOf, Peers
<1>2. S \in SUBSET Nat /\ IsFiniteSet(S)
  BY <1>1, SetsAreFinite, Zenon
<1>3. PeersOf(build) \in SUBSET Nat /\ IsFiniteSet(PeersOf(build))
  BY <1>0, SetsAreFinite
<1>4. Cardinality(Below(PeersOf(build), d)) < NodeLimit - 1
  BY <1>0, FirstOfBelow DEF ShownOf
<1>5. FirstOf(S, NodeLimit) \in SUBSET PeersOf(build)
  BY <1>1 DEF PeersOf
<1> HIDE DEF S
<1>6. ASSUME d \notin FirstOf(S, NodeLimit) PROVE FALSE
  <2>1. FirstOf(S, NodeLimit) \in SUBSET Below(S, d) /\ NodeLimit <= Cardinality(FirstOf(S, NodeLimit))
    BY <1>1, <1>2, <1>6, SetsAreFinite, LeftOutIsAbove
  <2>2. FirstOf(S, NodeLimit) \in SUBSET Below(PeersOf(build), d)
    BY <1>5, <2>1 DEF Below
  <2>3. IsFiniteSet(Below(PeersOf(build), d)) /\ Cardinality(Below(PeersOf(build), d)) \in Nat
    BY <1>3, BelowIsFinite
  <2>4. Cardinality(FirstOf(S, NodeLimit)) <= Cardinality(Below(PeersOf(build), d))
    BY <2>2, <2>3, FS_Subset, Zenon
  <2>5. Cardinality(FirstOf(S, NodeLimit)) \in Nat
    BY <1>2, FirstOfIsFinite
  <2> QED BY <1>4, <2>1, <2>3, <2>4, <2>5, SetsAreFinite
<1> QED BY <1>1, <1>6

\* When the peers found are not cut, no query was.
LEMMA FoundAreAll ==
  ASSUME CanvasInv, build.pc = "peers", build.kept = DOMAIN build.found, Complete(build),
         ~(Cardinality(PeersOf(build)) > NodeLimit - 1)
  PROVE  /\ ShownOf(build) = PeersOf(build)
         /\ \A r \in build.kept : build.found[r] = MembersOf(r) \ {FocusDevice}
<1>0. PeersOf(build) \in SUBSET Peers
  BY DeviceDrawingOK
<1>1. PeersOf(build) \in SUBSET Nat /\ IsFiniteSet(PeersOf(build)) /\ Cardinality(PeersOf(build)) \in Nat
  BY <1>0, SetsAreFinite
<1>2. ShownOf(build) = PeersOf(build)
  BY <1>1, SetsAreFinite, FirstOfFew DEF ShownOf
<1>3. ASSUME NEW r \in build.kept PROVE build.found[r] = MembersOf(r) \ {FocusDevice}
  <2> DEFINE S == MembersOf(r) \ {FocusDevice}
  <2>1. S \in SUBSET MapDevices /\ build.found[r] = FirstOf(S, NodeLimit)
    BY DEF Complete, MembersOf
  <2>2. S \in SUBSET Nat /\ IsFiniteSet(S)
    BY <2>1, SetsAreFinite, Zenon
  <2>3. build.found[r] \in SUBSET PeersOf(build)
    BY DEF PeersOf
  <2> HIDE DEF S
  <2>4. Cardinality(FirstOf(S, NodeLimit)) <= Cardinality(PeersOf(build))
    BY <1>1, <2>1, <2>3, FS_Subset, Zenon
  <2>5. Cardinality(FirstOf(S, NodeLimit)) \in Nat
    BY <2>2, FirstOfIsFinite
  <2>6. FirstOf(S, NodeLimit) = S
    BY <1>1, <2>2, <2>4, <2>5, SetsAreFinite, FirstOfShort
  <2> QED BY <2>1, <2>6 DEF S
<1> QED BY <1>2, <1>3

LEMMA IdOfNode == \A d, own : Node(d, own).id = d /\ Node(d, own).regions = own
BY DEF Node

LEMMA DeviceTold ==
  ASSUME CanvasInv, build.pc = "peers", build.kept = DOMAIN build.found, Complete(build), NEW c
  PROVE  Told(DeviceDrawing(build, c))
<1> DEFINE p == DeviceDrawing(build, c)
           shown == ShownOf(build)
<1>1. /\ p.regions = build.kept
      /\ p.nodes = {Node(FocusDevice, build.kept)} \cup {Node(d, RegionsOf(build, d)) : d \in shown}
      /\ \A e \in p.edges : e.peer \in shown
  BY DeviceNodes
<1>2. PeersOf(build) \in SUBSET Peers /\ shown \in SUBSET PeersOf(build)
  BY DeviceDrawingOK
<1>3. /\ build.all = inRegions[FocusDevice] /\ build.kept \subseteq inRegions[FocusDevice]
      /\ mapFocus.kind = "device"
  BY DEF CanvasInv, BuildInv, Complete
<1>4. /\ ~p.nodesCut => ~(Cardinality(PeersOf(build)) > NodeLimit - 1)
      /\ ~p.regionsCut => build.all = build.kept
  BY DeviceCuts, Zenon
<1>5. ASSUME NEW d \in shown PROVE RegionsOf(build, d) = inRegions[d] \cap build.kept
  <2>1. d \in MapDevices /\ d # FocusDevice
    BY <1>2, SetsAreFinite DEF Peers
  <2>2. ASSUME NEW r \in build.kept, d \in build.found[r] PROVE r \in inRegions[d]
    <3>1. build.found[r] = FirstOf(MembersOf(r) \ {FocusDevice}, NodeLimit)
      BY DEF Complete
    <3> QED BY <2>2, <3>1, FirstOfBelow DEF MembersOf
  <2>3. ASSUME NEW r \in build.kept, r \in inRegions[d] PROVE d \in build.found[r]
    BY <2>1, <2>3, ShownAreFound DEF MembersOf
  <2> QED BY <2>2, <2>3 DEF RegionsOf
<1>6. {n.id : n \in p.nodes} = {FocusDevice} \cup shown
  <2> HIDE DEF p, shown
  <2>1. ASSUME NEW n \in p.nodes PROVE n.id \in {FocusDevice} \cup shown
    BY <1>1, IdOfNode
  <2>2. ASSUME NEW d \in {FocusDevice} \cup shown PROVE \E n \in p.nodes : n.id = d
    <3>1. CASE d = FocusDevice
      BY <1>1, <3>1, IdOfNode
    <3>2. CASE d \in shown
      BY <1>1, <3>2, IdOfNode
    <3> QED BY <3>1, <3>2
  <2> QED BY <2>1, <2>2
<1>7. ASSUME ~p.nodesCut
      PROVE  {n.id : n \in p.nodes} = {FocusDevice} \cup {d \in Peers : inRegions[d] \cap p.regions # {}}
  <2>1. shown = PeersOf(build) /\ \A r \in build.kept : build.found[r] = MembersOf(r) \ {FocusDevice}
    BY <1>4, <1>7, FoundAreAll
  <2>2. PeersOf(build) = {d \in Peers : inRegions[d] \cap build.kept # {}}
    BY <2>1 DEF PeersOf, MembersOf, Peers
  <2> HIDE DEF p, shown
  <2> QED BY <1>1, <1>6, <2>1, <2>2
<1>8. ASSUME NEW n \in p.nodes PROVE n.regions = inRegions[n.id] \cap p.regions
  <2> HIDE DEF p, shown
  <2>1. CASE n = Node(FocusDevice, build.kept)
    BY <1>1, <1>3, <2>1, IdOfNode
  <2>2. CASE n # Node(FocusDevice, build.kept)
    <3>1. PICK d \in shown : n = Node(d, RegionsOf(build, d))
      BY <1>1, <2>2
    <3> QED BY <1>1, <1>5, <3>1, IdOfNode
  <2> QED BY <2>1, <2>2
<1>9. ASSUME NEW e \in p.edges PROVE e.peer \in {n.id : n \in p.nodes} \ {FocusDevice}
  <2> HIDE DEF p, shown
  <2> QED BY <1>1, <1>2, <1>6 DEF Peers
<1>10. ~(p.regionsCut \/ p.nodesCut \/ p.edgesCut) => p.regions = inRegions[FocusDevice]
  <2> HIDE DEF p, shown
  <2> QED BY <1>1, <1>3, <1>4
<1> HIDE DEF p
<1>11. Told(p)
  BY <1>3, <1>7, <1>8, <1>9, <1>10, Zenon DEF Told
<1> QED BY <1>11 DEF p

\* Nodes for the devices D, each with the same regions.
LEMMA SameNodesFinite ==
  ASSUME NEW D, IsFiniteSet(D), NEW own
  PROVE  IsFiniteSet({Node(d, own) : d \in D})
<1> DEFINE N == {Node(d, own) : d \in D}
           f == [d \in D |-> Node(d, own)]
<1>1. \A d \in D : Node(d, own) \in N
  OBVIOUS
<1>2. \A n \in N : \E d \in D : n = Node(d, own)
  BY Zenon
<1>3. f \in [D -> N]
  <2> HIDE DEF N
  <2> QED BY <1>1
<1>4. \A d \in D : f[d] = Node(d, own)
  OBVIOUS
<1> HIDE DEF N, f
<1>5. IsFiniteSet(N)
  BY <1>2, <1>3, <1>4, NodesAreFinite
<1> QED BY <1>5 DEF N

LEMMA RegionParts ==
  ASSUME NEW r, NEW members, NEW p, p = RegionDrawing(r, members)
  PROVE  /\ p.regions = {r} /\ p.edges = {}
         /\ p.nodes = {Node(d, {r}) : d \in FirstOf(members, NodeLimit)}
         /\ ~p.nodesCut => ~(Cardinality(members) > NodeLimit)
BY DEF RegionDrawing

LEMMA RegionTold ==
  ASSUME CanvasInv, mapFocus.kind = "region",
         NEW p, p = RegionDrawing(mapFocus.id, FirstOf(MembersOf(mapFocus.id), NodeLimit + 1))
  PROVE  DrawingOK(p) /\ Told(p)
<1> DEFINE r == mapFocus.id
           members == FirstOf(MembersOf(r), NodeLimit + 1)
           shown == FirstOf(members, NodeLimit)
<1>1. /\ p.regions = {r} /\ p.edges = {}
      /\ p.nodes = {Node(d, {r}) : d \in shown}
      /\ ~p.nodesCut => ~(Cardinality(members) > NodeLimit)
  <2>1. p = RegionDrawing(r, members)
    OBVIOUS
  <2> HIDE DEF r, members
  <2> QED BY <2>1, RegionParts
<1>2. r \in MapRegions
  BY DEF CanvasInv, StateOK
<1>3. MembersOf(r) \in SUBSET MapDevices /\ members \in SUBSET MembersOf(r) /\ shown \in SUBSET members
  BY FirstOfBelow DEF MembersOf
<1>4. /\ MembersOf(r) \in SUBSET Nat /\ IsFiniteSet(MembersOf(r))
      /\ members \in SUBSET Nat /\ IsFiniteSet(members) /\ Cardinality(members) \in Nat
      /\ IsFiniteSet(shown)
  <2>1. members \in SUBSET MapDevices /\ shown \in SUBSET MapDevices
    BY <1>3
  <2> HIDE DEF members, shown, r
  <2> QED BY <1>3, <2>1, SetsAreFinite
<1>5. \A d \in shown : inRegions[d] \cap {r} = {r}
  BY <1>3 DEF MembersOf
<1>6. ASSUME ~p.nodesCut PROVE shown = MembersOf(r)
  <2>1. Cardinality(members) <= NodeLimit /\ NodeLimit + 1 \in Nat /\ Cardinality(members) < NodeLimit + 1
    BY <1>1, <1>4, <1>6, SetsAreFinite
  <2>2. members = MembersOf(r)
    BY <1>4, <2>1, FirstOfShort
  <2>3. shown = members
    <3> HIDE DEF members
    <3> QED BY <1>4, <2>1, SetsAreFinite, FirstOfFew
  <2> QED BY <2>2, <2>3
<1> HIDE DEF members, shown, r
<1>7. {n.id : n \in p.nodes} = shown
  BY <1>1, IdOfNode
<1>8. \A n \in p.nodes : n.regions = inRegions[n.id] \cap p.regions
  BY <1>1, <1>5, IdOfNode
<1>9. Told(p)
  BY <1>1, <1>6, <1>7, <1>8, Zenon DEF Told, r
<1>10. \A n \in p.nodes : NodeOK(n, p.regions)
  <2>1. \A d \in shown : d \in MapDevices
    BY <1>3
  <2>2. {r} \in SUBSET MapRegions
    BY <1>2
  <2> QED BY <1>1, <2>1, <2>2, NodeIsOK
<1>11. IsFiniteSet(p.nodes)
  BY <1>1, <1>4, SameNodesFinite
<1> QED BY <1>1, <1>2, <1>9, <1>10, <1>11 DEF DrawingOK

\* The regions of a node of the physical layer.
Nowhere == {}

ShownLinks(some) == {l \in some : l.peer \in FirstOf({k.peer : k \in some}, MaxLinks)}
ShownPeers(some) == {l.peer : l \in ShownLinks(some)}

LEMMA LinkParts ==
  ASSUME NEW some, NEW p, p = LinksDrawing(some)
  PROVE  /\ p.regions = {} /\ p.edges = ShownLinks(some)
         /\ p.nodes = {Node(FocusDevice, Nowhere)} \cup {Node(d, Nowhere) : d \in ShownPeers(some)}
         /\ ~p.nodesCut => ShownLinks(some) = some
<1> DEFINE shown == ShownLinks(some)
           peers == ShownPeers(some)
<1>1. /\ p.regions = {} /\ p.edges = shown
      /\ p.nodes = {Node(FocusDevice, Nowhere)} \cup {Node(l.peer, Nowhere) : l \in shown}
      /\ ~p.nodesCut => shown = some
  BY DEF LinksDrawing, Nowhere, ShownLinks
<1>2. {Node(l.peer, Nowhere) : l \in shown} = {Node(d, Nowhere) : d \in peers}
  BY Zenon DEF ShownPeers
<1> QED BY <1>1, <1>2, Zenon

\* Every peer has one link that is listed.
LEMMA EveryPeerHasALink ==
  ASSUME links \subseteq [peer : Peers, key : 1 .. 2], NEW l \in links
  PROVE  \E k \in LinkPerPeer : k.peer = l.peer
<1> DEFINE Keys == {k.key : k \in {m \in links : m.peer = l.peer}}
<1>1. Keys \in SUBSET Nat /\ Keys # {}
  OBVIOUS
<1>2. PICK x \in Keys : \A y \in Keys : x <= y
  <2> HIDE DEF Keys
  <2> QED BY <1>1, LeastNat
<1>3. PICK k \in links : k.peer = l.peer /\ k.key = x
  OBVIOUS
<1>4. \A m \in links : m.peer = k.peer => k.key <= m.key
  BY <1>2, <1>3
<1> QED BY <1>3, <1>4 DEF LinkPerPeer

\* The links the query answers with.
ListedLinks == {l \in LinkPerPeer : l.peer \in FirstOf({k.peer : k \in LinkPerPeer}, MaxLinks + 1)}

LEMMA LinksTold ==
  ASSUME CanvasInv, mapFocus.kind = "links", NEW p, p = LinksDrawing(ListedLinks)
  PROVE  DrawingOK(p) /\ Told(p)
<1> DEFINE all == {k.peer : k \in LinkPerPeer}
           listed == {k.peer : k \in ListedLinks}
           shown == ShownLinks(ListedLinks)
           peers == ShownPeers(ListedLinks)
<1>1. /\ p.regions = {} /\ p.edges = shown
      /\ p.nodes = {Node(FocusDevice, Nowhere)} \cup {Node(d, Nowhere) : d \in peers}
      /\ ~p.nodesCut => shown = ListedLinks
  BY LinkParts, Zenon
<1>2. links \subseteq [peer : Peers, key : 1 .. 2]
  BY DEF CanvasInv, StateOK
<1>3. all \in SUBSET Peers /\ listed = FirstOf(all, MaxLinks + 1) /\ peers = FirstOf(listed, MaxLinks)
  <2>1. all \in SUBSET Peers
    BY <1>2 DEF LinkPerPeer
  <2>2. listed = FirstOf(all, MaxLinks + 1)
    BY FirstOfBelow DEF ListedLinks
  <2>3. peers = FirstOf(listed, MaxLinks)
    <3> HIDE DEF listed
    <3>1. FirstOf(listed, MaxLinks) \in SUBSET listed
      BY FirstOfBelow
    <3> QED BY <3>1 DEF listed, ShownLinks, ShownPeers
  <2> QED BY <2>1, <2>2, <2>3
<1>4. all = {l.peer : l \in links}
  <2>1. all \in SUBSET {l.peer : l \in links}
    BY DEF LinkPerPeer
  <2>2. ASSUME NEW l \in links PROVE l.peer \in all
    BY <1>2, EveryPeerHasALink
  <2> QED BY <2>1, <2>2
<1>5. MaxLinks \in Nat /\ MaxLinks + 1 \in Nat
  BY SetsAreFinite DEF MaxLinks
<1> HIDE DEF all, listed, shown, peers
<1>6. listed \in SUBSET all /\ peers \in SUBSET listed /\ all \in SUBSET MapDevices
  BY <1>3, FirstOfBelow, SetsAreFinite
<1>7. /\ all \in SUBSET Nat /\ IsFiniteSet(all) /\ Cardinality(all) \in Nat
      /\ listed \in SUBSET Nat /\ IsFiniteSet(listed) /\ Cardinality(listed) \in Nat
      /\ IsFiniteSet(peers)
  <2>1. listed \in SUBSET MapDevices /\ peers \in SUBSET MapDevices
    BY <1>6
  <2> QED BY <1>6, <2>1, SetsAreFinite
<1>8. {n.id : n \in p.nodes} = {FocusDevice} \cup peers
  BY <1>1, IdOfNode
<1>9. ASSUME ~p.nodesCut PROVE peers = all
  <2>1. peers = listed
    BY <1>1, <1>9 DEF peers, listed, ShownPeers, shown
  <2>2. Cardinality(listed) <= MaxLinks
    BY <1>3, <1>5, <1>7, <2>1, FirstOfBounded
  <2>3. listed = all
    BY <1>3, <1>5, <1>7, <2>2, FirstOfShort
  <2> QED BY <2>1, <2>3
<1>10. \A n \in p.nodes : n.regions = {} /\ inRegions[n.id] \cap p.regions = {}
  BY <1>1, IdOfNode DEF Nowhere
<1>11. \A e \in p.edges : e.peer \in peers /\ e.peer # FocusDevice
  BY <1>1, <1>3, <1>6 DEF peers, shown, ShownPeers, Peers
<1>12. {e.peer : e \in p.edges} = peers
  BY <1>1 DEF peers, shown, ShownPeers
<1>13. Told(p)
  <2>1. ~p.nodesCut => {n.id : n \in p.nodes} = {FocusDevice} \cup {l.peer : l \in links}
    BY <1>4, <1>8, <1>9, Zenon
  <2>2. \A n \in p.nodes : n.regions = inRegions[n.id] \cap p.regions
    BY <1>10
  <2>3. \A e \in p.edges : e.peer \in {n.id : n \in p.nodes} \ {FocusDevice}
    BY <1>8, <1>11
  <2> QED BY <1>8, <1>12, <2>1, <2>2, <2>3, Zenon DEF Told
<1>14. \A n \in p.nodes : NodeOK(n, p.regions)
  <2>1. \A d \in peers : d \in MapDevices
    BY <1>6
  <2> QED BY <1>1, <2>1, SetsAreFinite, NodeIsOK DEF Nowhere
<1>15. IsFiniteSet(p.nodes)
  <2>1. p.nodes = {Node(d, Nowhere) : d \in peers} \cup {Node(FocusDevice, Nowhere)}
    BY <1>1
  <2>2. IsFiniteSet({Node(d, Nowhere) : d \in peers})
    BY <1>7, SameNodesFinite
  <2> HIDE DEF Node
  <2> QED BY <2>1, <2>2, FS_AddElement, Zenon
<1> QED BY <1>1, <1>13, <1>14, <1>15 DEF DrawingOK

LEMMA NothingDrawn == NoDrawing.regions = {} /\ DrawingOK(NoDrawing)
<1>1. NoDrawing.regions = {} /\ NoDrawing.nodes = {}
  BY DEF NoDrawing
<1> QED BY <1>1, FS_EmptySet DEF DrawingOK

LEMMA CanvasInitInv == MapCanvasInit => CanvasInv
<1> SUFFICES ASSUME MapCanvasInit PROVE CanvasInv
  OBVIOUS
<1>1. projection = NoDrawing /\ build.pc = "none" /\ moves = 0
  BY DEF MapCanvasInit, NotBuilding
<1>2. /\ inRegions \in [MapDevices -> SUBSET MapRegions]
      /\ links \subseteq [peer : Peers, key : 1 .. 2]
      /\ mapFocus.kind \in {"device", "region", "links"}
      /\ mapFocus.kind = "region" => mapFocus.id \in MapRegions
  <2>1. CASE mapFocus = [kind |-> "device", id |-> FocusDevice] /\ inRegions \in [MapDevices -> SUBSET MapRegions] /\ links = {}
    BY <2>1
  <2>2. ASSUME NEW r \in MapRegions, mapFocus = [kind |-> "region", id |-> r],
               inRegions \in [MapDevices -> {{}, {mapFocus.id}}], links = {}
        PROVE  <1>2!:
    <3>1. mapFocus.id = r /\ mapFocus.kind = "region"
      BY <2>2
    <3>2. {{}, {mapFocus.id}} \subseteq SUBSET MapRegions
      BY <3>1
    <3> QED BY <2>2, <3>1, <3>2
  <2>3. CASE /\ mapFocus = [kind |-> "links", id |-> FocusDevice] /\ inRegions = [d \in MapDevices |-> {}]
             /\ links \in SUBSET [peer : Peers, key : 1 .. 2]
    BY <2>3
  <2> QED BY <2>1, <2>2, <2>3 DEF MapCanvasInit
<1>3. StateOK
  BY <1>1, <1>2, CanvasAssumption DEF StateOK
<1>4. CutIsTold
  BY <1>1 DEF CutIsTold
<1> QED BY <1>1, <1>3, <1>4, NothingDrawn DEF CanvasInv, BuildInv

\* Nothing is drawn while the queries are made.
LEMMA BuildingTellsNothing == build'.pc # "none" => CutIsTold'
BY DEF CutIsTold

LEMMA MovesInv ==
  ASSUME CanvasInv, NEW d \in MapDevices, NEW r \in MapRegions, Moves(d, r)
  PROVE  CanvasInv'
<1>1. inRegions' \in [MapDevices -> SUBSET MapRegions] /\ moves' \in 0 .. MaxMoves
  BY CanvasAssumption DEF Moves, CanvasInv, StateOK
<1>2. StateOK'
  BY <1>1 DEF StateOK, CanvasInv, Moves
<1>3. moved' /\ UNCHANGED <<mapFocus, build, projection>> /\ build.pc # "none"
  BY Zenon DEF Moves
<1>4. BuildInv'
  BY <1>3, Zenon DEF BuildInv, CanvasInv
<1>5. DrawingOK(projection)'
  BY <1>3 DEF CanvasInv, DrawingOK, NodeOK
<1> QED BY <1>2, <1>3, <1>4, <1>5, BuildingTellsNothing DEF CanvasInv

LEMMA ReadRegionsInv ==
  ASSUME CanvasInv, ReadRegions
  PROVE  CanvasInv'
<1> DEFINE all == inRegions[FocusDevice]
           b == [pc |-> "peers", kept |-> FirstOf(all, RegionLimit), all |-> all, found |-> <<>>]
<1>1. build' = b /\ mapFocus.kind = "device" /\ UNCHANGED <<inRegions, links, mapFocus, projection, moves>>
  BY DEF ReadRegions
<1>2. all \in SUBSET MapRegions /\ FirstOf(all, RegionLimit) \in SUBSET all
  BY CanvasAssumption, FirstOfBelow DEF CanvasInv, StateOK
<1>3. /\ build'.pc = "peers" /\ build'.all = all /\ build'.kept = FirstOf(all, RegionLimit)
      /\ DOMAIN build'.found = {}
  BY <1>1
<1>4. BuildInv'
  BY <1>1, <1>2, <1>3 DEF BuildInv, Complete
<1>5. StateOK' /\ DrawingOK(projection)'
  BY <1>1 DEF CanvasInv, StateOK, DrawingOK, NodeOK
<1> QED BY <1>3, <1>4, <1>5, BuildingTellsNothing DEF CanvasInv

LEMMA ReadPeersInv ==
  ASSUME CanvasInv, ReadPeers
  PROVE  CanvasInv'
<1> DEFINE r == Least(build.kept \ DOMAIN build.found)
           peers == FirstOf(MembersOf(r) \ {FocusDevice}, PeerQueryLimit)
           more == [s \in DOMAIN build.found \cup {r} |-> IF s = r THEN peers ELSE build.found[s]]
<1>1. build' = [build EXCEPT !.found = more] /\ UNCHANGED <<inRegions, links, mapFocus, projection, moves, moved>>
  BY DEF ReadPeers
<1>2. build.pc = "peers" /\ build.kept \ DOMAIN build.found # {} /\ build.kept \in SUBSET MapRegions
  BY DEF CanvasInv, BuildInv, ReadPeers
<1>3. r \in build.kept
  <2>1. (build.kept \ DOMAIN build.found) \in SUBSET Nat
    BY <1>2, SetsAreFinite
  <2> QED BY <1>2, <2>1, LeastIs
<1>4. peers \in SUBSET Peers
  BY FirstOfBelow DEF MembersOf, Peers
<1>5. PeerQueryLimit = NodeLimit
  BY DEF PeerQueryLimit
<1> HIDE DEF r
<1>6. DOMAIN more = DOMAIN build.found \cup {r} /\ more[r] = peers /\ \A s \in DOMAIN build.found \ {r} : more[s] = build.found[s]
  OBVIOUS
<1> HIDE DEF more
<1>7. build'.pc = "peers" /\ build'.all = build.all /\ build'.kept = build.kept /\ build'.found = more
  <2>1. build = [pc |-> "peers", kept |-> build.kept, all |-> build.all, found |-> build.found]
    BY <1>2 DEF CanvasInv, BuildInv
  <2> QED BY <1>1, <2>1
<1>8. BuildInv'
  <2>1. \A s \in DOMAIN more : more[s] \subseteq Peers
    BY <1>2, <1>4, <1>6 DEF CanvasInv, BuildInv
  <2>2. ASSUME ~moved PROVE Complete(build)'
    <3>1. Complete(build)
      BY <1>2, <2>2 DEF CanvasInv, BuildInv
    <3>2. \A s \in DOMAIN more : more[s] = FirstOf(MembersOf(s) \ {FocusDevice}, NodeLimit)
      BY <1>5, <1>6, <3>1 DEF Complete
    <3> QED BY <1>1, <1>7, <3>1, <3>2 DEF Complete, MembersOf
  <2> QED BY <1>1, <1>2, <1>3, <1>6, <1>7, <2>1, <2>2 DEF BuildInv, CanvasInv
<1>9. StateOK' /\ DrawingOK(projection)'
  BY <1>1 DEF CanvasInv, StateOK, DrawingOK, NodeOK
<1> QED BY <1>7, <1>8, <1>9, BuildingTellsNothing DEF CanvasInv

\* A drawing is put on the page.
LEMMA DrawnInv ==
  ASSUME CanvasInv, NEW p, Drawn(p), DrawingOK(p), ~moved' => Told(p)
  PROVE  CanvasInv'
<1>1. projection' = p /\ build'.pc = "none" /\ UNCHANGED <<inRegions, links, mapFocus, moves>>
  BY DEF Drawn, NotBuilding
<1>2. StateOK' /\ BuildInv' /\ DrawingOK(projection)'
  BY <1>1 DEF CanvasInv, StateOK, BuildInv, DrawingOK, NodeOK
<1>3. ~moved' => Told(projection)'
  BY <1>1 DEF Told, MembersOf
<1>4. Told(projection)' => CutIsTold'
  BY ToldMeansCutIsTold, PTL
<1>5. moved' => CutIsTold'
  BY Zenon DEF CutIsTold
<1> QED BY <1>2, <1>3, <1>4, <1>5 DEF CanvasInv

LEMMA CanvasStepInv == CanvasInv /\ [MapCanvasNext]_canvasVars => CanvasInv'
<1> SUFFICES ASSUME CanvasInv, [MapCanvasNext]_canvasVars PROVE CanvasInv'
  OBVIOUS
<1>1. CASE UNCHANGED canvasVars
  <2>1. UNCHANGED <<inRegions, links, mapFocus, build, projection, moves, moved>>
    BY <1>1 DEF canvasVars
  <2>2. StateOK' /\ DrawingOK(projection)'
    BY <2>1 DEF CanvasInv, StateOK, DrawingOK, NodeOK
  <2>3. BuildInv'
    BY <2>1 DEF CanvasInv, BuildInv, Complete, MembersOf
  <2>4. CutIsTold'
    BY <2>1 DEF CanvasInv, CutIsTold, Warned, Expected, MembersOf, LinkRows
  <2> QED BY <2>2, <2>3, <2>4 DEF CanvasInv
<1>2. CASE ReadRegions
  BY <1>2, ReadRegionsInv
<1>3. CASE ReadPeers
  BY <1>3, ReadPeersInv
<1>4. CASE DrawDevice
  <2>1. PICK c \in BOOLEAN : Drawn(DeviceDrawing(build, c))
    BY <1>4 DEF DrawDevice
  <2>2. build.pc = "peers" /\ build.kept = DOMAIN build.found /\ moved' = moved
    BY <1>4 DEF DrawDevice
  <2>3. ~moved => Complete(build)
    BY <2>2 DEF CanvasInv, BuildInv
  <2>4. DrawingOK(DeviceDrawing(build, c))
    BY <2>2, DeviceDrawingOK
  <2>5. ~moved' => Told(DeviceDrawing(build, c))
    BY <2>2, <2>3, DeviceTold, Zenon
  <2> QED BY <2>1, <2>4, <2>5, DrawnInv, Zenon
<1>5. CASE DrawRegion
  <2> DEFINE p == RegionDrawing(mapFocus.id, FirstOf(MembersOf(mapFocus.id), NodeLimit + 1))
  <2>1. mapFocus.kind = "region" /\ Drawn(p)
    BY <1>5 DEF DrawRegion
  <2>2. DrawingOK(p) /\ Told(p)
    BY <2>1, RegionTold
  <2> HIDE DEF p
  <2> QED BY <2>1, <2>2, DrawnInv, Zenon
<1>6. CASE DrawLinks
  <2> DEFINE p == LinksDrawing(ListedLinks)
  <2>1. mapFocus.kind = "links" /\ Drawn(p)
    BY <1>6 DEF DrawLinks, ListedLinks
  <2>2. DrawingOK(p) /\ Told(p)
    BY <2>1, LinksTold
  <2> HIDE DEF p
  <2> QED BY <2>1, <2>2, DrawnInv, Zenon
<1>7. ASSUME NEW d \in MapDevices, NEW r \in MapRegions, Moves(d, r) PROVE CanvasInv'
  BY <1>7, MovesInv
<1> QED BY <1>1, <1>2, <1>3, <1>4, <1>5, <1>6, <1>7 DEF MapCanvasNext

\* A node with regions is placed in the least of them and in no other.
LEMMA PlacementIsLeast ==
  ASSUME DrawingOK(projection), NEW n \in projection.nodes
  PROVE  /\ n.regions # {} => Placement(n) \in n.regions /\ Placement(n) \in projection.regions
         /\ n.regions = {} => Placement(n) = 0
<1>1. /\ n.regions \in SUBSET MapRegions /\ n.regions \in SUBSET projection.regions
      /\ n.primary = IF n.regions = {} THEN 0 ELSE Least(n.regions)
  BY DEF DrawingOK, NodeOK
<1>2. n.regions \in SUBSET Nat /\ 0 \notin n.regions
  BY <1>1, SetsAreFinite
<1>3. n.regions # {} => Least(n.regions) \in n.regions
  BY <1>2, LeastIs
<1> QED BY <1>1, <1>2, <1>3 DEF Placement

LEMMA PlacedInOne == DrawingOK(projection) => PlacedOnce
<1> SUFFICES ASSUME DrawingOK(projection) PROVE PlacedOnce
  OBVIOUS
<1>1. ASSUME mapFocus.kind # "links", NEW n \in projection.nodes \ CloudNodes
      PROVE  \E r \in n.regions \cap projection.regions : {s \in projection.regions : n \in PlacedIn(s)} = {r}
  <2>1. projection.regions # {}
    BY <1>1 DEF CloudNodes, showRegions
  <2>2. n.regions # {}
    BY <2>1 DEF DrawingOK, NodeOK
  <2>3. Placement(n) \in n.regions /\ Placement(n) \in projection.regions
    BY <2>2, PlacementIsLeast
  <2>4. {s \in projection.regions : n \in PlacedIn(s)} = {Placement(n)}
    BY <2>3 DEF PlacedIn
  <2> QED BY <2>3, <2>4
<1>2. ASSUME NEW r \in projection.regions
      PROVE  Card(r).members = Card(r).placed + Card(r).elsewhere
  <2>1. r # 0
    BY SetsAreFinite DEF DrawingOK
  <2>2. ASSUME NEW n \in PlacedIn(r) PROVE n \in MembersShown(r)
    <3>1. n \in projection.nodes /\ Placement(n) = r
      BY DEF PlacedIn
    <3> QED BY <2>1, <3>1, PlacementIsLeast DEF MembersShown
  <2>3. MembersShown(r) \in SUBSET projection.nodes /\ PlacedIn(r) \in SUBSET MembersShown(r) /\ IsFiniteSet(projection.nodes)
    BY <2>2 DEF MembersShown, DrawingOK
  <2>4. IsFiniteSet(MembersShown(r))
    BY <2>3, FS_Subset, Zenon
  <2>5. IsFiniteSet(PlacedIn(r)) /\ Cardinality(PlacedIn(r)) <= Cardinality(MembersShown(r))
    BY <2>3, <2>4, FS_Subset, Zenon
  <2>6. Cardinality(PlacedIn(r)) \in Nat /\ Cardinality(MembersShown(r)) \in Nat
    BY <2>4, <2>5, FS_CardinalityType, Zenon
  <2> QED BY <2>5, <2>6 DEF Card
<1> QED BY <1>1, <1>2, Zenon DEF PlacedOnce

\* What CanvasInv does not say: an empty build is the initial one.
EmptyBuild == (build.pc = "none" => build = NotBuilding) /\ moved \in BOOLEAN

LEMMA EmptyBuildInit == MapCanvasInit => EmptyBuild
  BY Zenon DEF MapCanvasInit, EmptyBuild, NotBuilding

LEMMA EmptyBuildStep == CanvasInv /\ EmptyBuild /\ [MapCanvasNext]_canvasVars => EmptyBuild'
<1> SUFFICES ASSUME CanvasInv, EmptyBuild, [MapCanvasNext]_canvasVars PROVE EmptyBuild'
  OBVIOUS
<1>1. moved' \in BOOLEAN
  BY Zenon DEF EmptyBuild, MapCanvasNext, ReadRegions, ReadPeers, DrawDevice, DrawRegion, DrawLinks, Moves, canvasVars
<1>2. build'.pc = "none" => build' = NotBuilding
  <2>1. CASE build' = build
    BY <2>1 DEF EmptyBuild
  <2>2. CASE ReadRegions
    BY <2>2 DEF ReadRegions
  <2>3. CASE ReadPeers
    <3>1. build.pc = "peers"
      BY <2>3 DEF ReadPeers
    <3>2. DOMAIN build = {"pc", "kept", "all", "found"}
      BY <3>1 DEF CanvasInv, BuildInv
    <3>3. build'.pc = build.pc
      BY <2>3, <3>2 DEF ReadPeers
    <3> QED BY <3>1, <3>3
  <2>4. CASE build' = NotBuilding
    BY <2>4
  <2> QED BY <2>1, <2>2, <2>3, <2>4, Zenon DEF MapCanvasNext, DrawDevice, DrawRegion, DrawLinks, Drawn, Moves, canvasVars
<1> QED BY <1>1, <1>2 DEF EmptyBuild

\* What a projection holds is devices and regions there are, whenever its queries were
\* read: for any devices, regions, links and moves.
THEOREM CanvasTypeCorrect == MapCanvasSpec => []MapCanvasTypeOK
<1>1. CanvasInv /\ EmptyBuild => MapCanvasTypeOK
  <2> SUFFICES ASSUME CanvasInv, EmptyBuild PROVE MapCanvasTypeOK
    OBVIOUS
  <2>1. build.pc \in {"none", "peers"} /\ build.kept \subseteq MapRegions
    BY DEF CanvasInv, EmptyBuild, BuildInv, NotBuilding
  <2>2. /\ inRegions \in [MapDevices -> SUBSET MapRegions] /\ links \subseteq [peer : Peers, key : 1 .. 2]
        /\ moves \in 0 .. MaxMoves
    BY DEF CanvasInv, StateOK
  <2>3. /\ projection.regions \subseteq MapRegions
        /\ \A n \in projection.nodes : n.id \in MapDevices /\ n.regions \subseteq MapRegions
    BY DEF CanvasInv, DrawingOK, NodeOK
  <2> QED BY <2>1, <2>2, <2>3, Zenon DEF EmptyBuild, MapCanvasTypeOK
<1> QED BY <1>1, CanvasInitInv, CanvasStepInv, EmptyBuildInit, EmptyBuildStep, PTL DEF MapCanvasSpec

\* Every node is placed in one card and the limits announce what they leave out,
\* for any devices, regions, links and limits.
THEOREM DrawingTells == MapCanvasSpec => []CanvasTells
<1>1. CanvasInv => CanvasTells
  BY PlacedInOne DEF CanvasInv, CanvasTells
<1> QED BY <1>1, CanvasInitInv, CanvasStepInv, PTL DEF MapCanvasSpec
===============================================================================
