------------------------------- MODULE MapView -------------------------------
(***************************************************************************)
(* The projection a map page shows.  The server renders the page with one, *)
(* a query polls for newer ones and keeps what it has over navigation, and *)
(* while the view is pinned a newer one is offered instead of applied.     *)
(*                                                                         *)
(* A projection is abstracted to its scope, which is a layer and a focus,  *)
(* and to the version of that scope core-go had: the fingerprint, which    *)
(* tells versions apart, leaves the rest out.  The tab stays visible.      *)
(*                                                                         *)
(* React runs the effect of a render that an answer caused some time after *)
(* it.  A click is handled with what was rendered, then an effect that is  *)
(* due sets its state on top, and those of the new render run at once.     *)
(***************************************************************************)
EXTENDS Naturals

CONSTANTS
  Scopes,
  NoScope,
  MaxMapVersion,  \* bound on the versions of a scope
  MaxVisits,      \* bound on navigations
  MaxMapFailures  \* bound on failed polls

ASSUME MapViewAssumption ==
  /\ NoScope \notin Scopes
  /\ MaxMapVersion \in Nat \ {0} /\ MaxVisits \in Nat /\ MaxMapFailures \in Nat

VARIABLES
  mapVersion,   \* core-go: the version of each scope
  scope,        \* the page shown
  visit,        \* the navigation under way: [to, pc, fetched]
  visits,
  initial,      \* initialProjection of the page
  mapCache,     \* the query's data for each scope
  view,         \* pinned, appliedProjection, pendingProjection
  mapPoll,      \* the fetch of the query, for the page shown: [pc, data]
  mapFailures

navigation == <<scope, visit, visits, initial>>
mapViewVars == <<mapVersion, navigation, mapCache, view, mapPoll, mapFailures>>

NoProjection == [of |-> NoScope, ver |-> 0]
Projections == [of : Scopes, ver : 1 .. MaxMapVersion]
Current(s) == [of |-> s, ver |-> mapVersion[s]]

NoVisit == [to |-> NoScope, pc |-> "none", fetched |-> NoProjection]
NoPoll == [pc |-> "none", data |-> NoProjection]

\* The state of a provider that has just been mounted.
Mounted(projection) == [pinned |-> TRUE, applied |-> projection, offer |-> NoProjection]

latestProjection == IF mapCache[scope] # NoProjection THEN mapCache[scope] ELSE initial

-----------------------------------------------------------------------------
(* The effect.  It is given what its render had and sets what v holds.     *)

\* An effect that offers the first change and no later one.
EffectOnce(seen, v) ==
  IF latestProjection = NoProjection THEN v
  ELSE IF seen.applied = NoProjection THEN [v EXCEPT !.applied = latestProjection]
  ELSE IF seen.applied = latestProjection THEN [v EXCEPT !.offer = NoProjection]
  ELSE IF seen.pinned THEN [v EXCEPT !.offer = IF @ = NoProjection THEN latestProjection ELSE @]
  ELSE [v EXCEPT !.applied = latestProjection, !.offer = NoProjection]

\* An effect that applies every change.
EffectLive(seen, v) ==
  IF latestProjection = NoProjection THEN v
  ELSE [v EXCEPT !.applied = latestProjection, !.offer = NoProjection]

EffectOn(seen, v) ==
  IF latestProjection = NoProjection THEN v
  ELSE IF seen.applied = NoProjection THEN [v EXCEPT !.applied = latestProjection]
  ELSE IF seen.applied = latestProjection THEN [v EXCEPT !.offer = NoProjection]
  ELSE IF seen.pinned THEN [v EXCEPT !.offer = latestProjection]
  ELSE [v EXCEPT !.applied = latestProjection, !.offer = NoProjection]

\* One run may cause a render whose effect runs again, and that one is the last.
Settle(v) == LET once == EffectOn(v, v) IN EffectOn(once, once)

MapEffectDue == EffectOn(view, view) # view

\* The state after a click whose handler leaves v.
AfterClick(v) == Settle(IF MapEffectDue THEN EffectOn(view, v) ELSE v)

-----------------------------------------------------------------------------
MapViewTypeOK ==
  LET Some == Projections \cup {NoProjection} IN
  /\ mapVersion \in [Scopes -> 1 .. MaxMapVersion]
  /\ scope \in Scopes /\ visits \in 0 .. MaxVisits
  /\ visit \in [to : Scopes \cup {NoScope}, pc : {"none", "asked", "fetched"}, fetched : Some]
  /\ initial \in Some /\ mapCache \in [Scopes -> Some]
  /\ view \in [pinned : BOOLEAN, applied : Some, offer : Some]
  /\ mapPoll \in [pc : {"none", "asked", "answered"}, data : Some]
  /\ mapFailures \in 0 .. MaxMapFailures

\* A page, rendered with a projection or, when core-go did not answer, none.  The
\* others may have been visited before.
MapViewInit ==
  /\ mapVersion = [s \in Scopes |-> 1]
  /\ scope \in Scopes
  /\ visit = NoVisit /\ visits = 0
  /\ initial \in {Current(scope), NoProjection}
  /\ mapCache \in [Scopes -> Projections \cup {NoProjection}]
  /\ \A s \in Scopes : mapCache[s] \in {Current(s), NoProjection}
  /\ mapCache[scope] = initial
  /\ view = Mounted(initial)
  /\ mapPoll = NoPoll /\ mapFailures = 0

\* Discovery changes what the scope shows.
ScopeChanges(s) ==
  /\ mapVersion[s] < MaxMapVersion
  /\ mapVersion' = [mapVersion EXCEPT ![s] = @ + 1]
  /\ UNCHANGED <<navigation, mapCache, view, mapPoll, mapFailures>>

-----------------------------------------------------------------------------
(* Polling.                                                                *)

MapAsk ==
  /\ mapPoll.pc = "none"
  /\ mapPoll' = [pc |-> "asked", data |-> NoProjection]
  /\ UNCHANGED <<mapVersion, navigation, mapCache, view, mapFailures>>

MapAnswer ==
  /\ mapPoll.pc = "asked"
  /\ mapPoll' = [pc |-> "answered", data |-> Current(scope)]
  /\ UNCHANGED <<mapVersion, navigation, mapCache, view, mapFailures>>

MapArrive ==
  /\ mapPoll.pc = "answered"
  /\ mapCache' = [mapCache EXCEPT ![scope] = mapPoll.data]
  /\ mapPoll' = NoPoll
  /\ UNCHANGED <<mapVersion, navigation, view, mapFailures>>

\* Whether it is tried again at once or by the next interval makes no difference.
MapPollFails ==
  /\ mapPoll.pc # "none" /\ mapFailures < MaxMapFailures
  /\ mapPoll' = NoPoll /\ mapFailures' = mapFailures + 1
  /\ UNCHANGED <<mapVersion, navigation, mapCache, view>>

MapEffect ==
  /\ MapEffectDue
  /\ view' = Settle(view)
  /\ UNCHANGED <<mapVersion, navigation, mapCache, mapPoll, mapFailures>>

\* Unused data is dropped after a while.
Forget(s) ==
  /\ s # scope /\ mapCache[s] # NoProjection
  /\ mapCache' = [mapCache EXCEPT ![s] = NoProjection]
  /\ UNCHANGED <<mapVersion, navigation, view, mapPoll, mapFailures>>

-----------------------------------------------------------------------------
(* The controls.                                                           *)

hasPendingUpdates ==
  /\ view.offer # NoProjection /\ view.applied # NoProjection
  /\ latestProjection \notin {view.applied, NoProjection}

Accepted(v) == [v EXCEPT !.applied = view.offer, !.offer = NoProjection]

\* "Apply updates".
applyPendingUpdates ==
  /\ hasPendingUpdates
  /\ view' = AfterClick(Accepted(view))
  /\ UNCHANGED <<mapVersion, navigation, mapCache, mapPoll, mapFailures>>

\* "Enable live".
EnableLive ==
  /\ view.pinned
  /\ view' = AfterClick([(IF view.offer # NoProjection THEN Accepted(view) ELSE view) EXCEPT !.pinned = FALSE])
  /\ UNCHANGED <<mapVersion, navigation, mapCache, mapPoll, mapFailures>>

\* "Pause live".
PauseLive ==
  /\ ~view.pinned
  /\ view' = AfterClick([view EXCEPT !.pinned = TRUE])
  /\ UNCHANGED <<mapVersion, navigation, mapCache, mapPoll, mapFailures>>

-----------------------------------------------------------------------------
(* Navigation.                                                             *)

\* A link of the page, or the page once more; a later one takes the place of one
\* that is under way.
Visit(s) ==
  /\ visits < MaxVisits
  /\ visits' = visits + 1
  /\ visit' = [to |-> s, pc |-> "asked", fetched |-> NoProjection]
  /\ UNCHANGED <<mapVersion, scope, initial, mapCache, view, mapPoll, mapFailures>>

\* MapPage renders on the server, with a projection or with an error.
PageFetch ==
  /\ visit.pc = "asked"
  /\ \E p \in {Current(visit.to), NoProjection} : visit' = [visit EXCEPT !.pc = "fetched", !.fetched = p]
  /\ UNCHANGED <<mapVersion, scope, visits, initial, mapCache, view, mapPoll, mapFailures>>

\* The page without a key on its providers: they stay mounted.
CommitKept ==
  /\ visit.pc = "fetched"
  /\ scope' = visit.to /\ initial' = visit.fetched
  /\ visit' = NoVisit
  /\ mapPoll' = IF visit.to = scope THEN mapPoll ELSE NoPoll
  /\ view' = view
  /\ mapCache' = [mapCache EXCEPT ![visit.to] = IF @ = NoProjection THEN visit.fetched ELSE @]
  /\ UNCHANGED <<mapVersion, visits, mapFailures>>

\* The page is shown.  Another scope has another key: the providers start anew and
\* the old query's fetch is aborted.  The query keeps the data it has.
CommitPage ==
  /\ visit.pc = "fetched"
  /\ scope' = visit.to /\ initial' = visit.fetched
  /\ visit' = NoVisit
  /\ IF visit.to = scope
     THEN UNCHANGED <<view, mapPoll>>
     ELSE view' = Mounted(visit.fetched) /\ mapPoll' = NoPoll
  /\ mapCache' = [mapCache EXCEPT ![visit.to] = IF @ = NoProjection THEN visit.fetched ELSE @]
  /\ UNCHANGED <<mapVersion, visits, mapFailures>>

-----------------------------------------------------------------------------
MapQuery == MapAsk \/ MapAnswer \/ MapArrive
MapControls == applyPendingUpdates \/ EnableLive \/ PauseLive
MapPage == PageFetch \/ CommitPage

MapViewNext ==
  \/ MapQuery \/ MapPollFails \/ MapEffect \/ MapControls \/ MapPage
  \/ \E s \in Scopes : ScopeChanges(s) \/ Forget(s) \/ Visit(s)

MapViewSpec == MapViewInit /\ [][MapViewNext]_mapViewVars

\* Polls are made and answered, effects run and pages arrive.
MapViewFairness == WF_mapViewVars(MapQuery) /\ WF_mapViewVars(MapEffect) /\ WF_mapViewVars(MapPage)

MapViewFairSpec == MapViewSpec /\ MapViewFairness

-----------------------------------------------------------------------------
(* Properties.                                                             *)

\* docs/network_map/interface-rules.md: polling must not reshuffle the view.  While
\* the view is pinned the projection only changes by "Apply updates" or by going
\* to another page, also when an effect is due while the operator clicks.
PinnedStays ==
  [][view.pinned /\ view'.pinned /\ view.applied # NoProjection /\ view'.applied # view.applied
       => applyPendingUpdates \/ CommitPage]_mapViewVars

\* What is shown, offered and kept for a page is that page's, although the query's
\* data, the provider's state and the server's answers each have a life of their own.
ProjectionOfPage ==
  /\ view.applied.of \in {scope, NoScope} /\ view.offer.of \in {scope, NoScope}
  /\ initial.of \in {scope, NoScope} /\ mapPoll.data.of \in {scope, NoScope}
  /\ \A s \in Scopes : mapCache[s].of \in {s, NoScope}

\* Once the network is quiet its state is on the canvas or one click away, whatever
\* polls failed and whatever was visited, pinned and applied before.
ShownOrOffered == <>[](Current(scope) \in {view.applied, view.offer})
=============================================================================
