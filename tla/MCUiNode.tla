------------------------------ MODULE MCUiNode ------------------------------
(***************************************************************************)
(* The components of ui-node, one at a time, for TLC.  They share no state *)
(* and no component calls another: which one moves is chosen at the start, *)
(* and those that do not stay in one of their initial states.              *)
(***************************************************************************)
EXTENDS DiscoveryPanel, DevicesDashboard, DeviceListUrl, DeviceForms, RunPages, LoadMoreList,
        MapLinks, MapView, MapCanvas, UsersStore, TLC

CONSTANTS d1, d2

VARIABLE part

allVars ==
  <<panelVars, dashboardVars, urlVars, formsVars, runPagesVars, logVars,
    mapLinksVars, mapViewVars, canvasVars, usersVars, part>>

\* The list may lose the selected device, change its order or be empty.
SomeLists == {<<>>, <<d1, d2>>, <<d2>>}

One(S) == CHOOSE x \in S : TRUE

Parts == {"panel", "dashboard", "url", "forms", "runs", "log", "links", "view", "canvas", "users"}

MCInit ==
  /\ part \in Parts
  /\ PanelInit /\ (part # "panel" => ~Busy /\ ~shown)
  /\ DashboardInit
  /\ part # "dashboard" => listed = <<>> /\ events = [d \in Devices |-> 0]
  /\ UrlInit
  /\ part # "url" => url = [q |-> "", status |-> "", sort |-> "", cursor |-> NoCursor]
  /\ FormsInit /\ device = One(OpenDevices) /\ (part # "forms" => meta.how = "default")
  /\ RunPagesInit /\ (part # "runs" => runs = 0)
  /\ LogInit /\ (part # "log" => written = 0 /\ ~error)
  /\ MapLinksInit
  /\ part # "links" => address = [layer |-> DEFAULT_LAYER, type |-> "", id |-> NoId]
  /\ MapViewInit
  /\ part # "view" =>
       /\ scope = One(Scopes) /\ initial = Current(scope)
       /\ \A s \in Scopes \ {scope} : mapCache[s] = NoProjection
  /\ MapCanvasInit /\ (part # "canvas" => mapFocus.kind = "links" /\ links = {})
  /\ \A d \in MapDevices : d > 2 => inRegions[d] \in {{}, {1}, MapRegions}
  /\ UsersInit

-----------------------------------------------------------------------------
MCPanel ==
  /\ part = "panel" /\ PanelNext
  /\ UNCHANGED <<dashboardVars, urlVars, formsVars, runPagesVars, logVars, mapLinksVars, mapViewVars, canvasVars, usersVars, part>>

MCDashboard ==
  /\ part = "dashboard" /\ DashboardNext
  /\ UNCHANGED <<panelVars, urlVars, formsVars, runPagesVars, logVars, mapLinksVars, mapViewVars, canvasVars, usersVars, part>>

MCUrl ==
  /\ part = "url" /\ UrlNext
  /\ UNCHANGED <<panelVars, dashboardVars, formsVars, runPagesVars, logVars, mapLinksVars, mapViewVars, canvasVars, usersVars, part>>

MCForms ==
  /\ part = "forms" /\ FormsNext
  /\ UNCHANGED <<panelVars, dashboardVars, urlVars, runPagesVars, logVars, mapLinksVars, mapViewVars, canvasVars, usersVars, part>>

MCRunPages ==
  /\ part = "runs" /\ RunPagesNext
  /\ UNCHANGED <<panelVars, dashboardVars, urlVars, formsVars, logVars, mapLinksVars, mapViewVars, canvasVars, usersVars, part>>

MCLog ==
  /\ part = "log" /\ LogNext
  /\ UNCHANGED <<panelVars, dashboardVars, urlVars, formsVars, runPagesVars, mapLinksVars, mapViewVars, canvasVars, usersVars, part>>

MCMapLinks ==
  /\ part = "links" /\ MapLinksNext
  /\ UNCHANGED <<panelVars, dashboardVars, urlVars, formsVars, runPagesVars, logVars, mapViewVars, canvasVars, usersVars, part>>

MCMapView ==
  /\ part = "view" /\ MapViewNext
  /\ UNCHANGED <<panelVars, dashboardVars, urlVars, formsVars, runPagesVars, logVars, mapLinksVars, canvasVars, usersVars, part>>

MCMapCanvas ==
  /\ part = "canvas" /\ MapCanvasNext
  /\ UNCHANGED <<panelVars, dashboardVars, urlVars, formsVars, runPagesVars, logVars, mapLinksVars, mapViewVars, usersVars, part>>

MCUsers ==
  /\ part = "users" /\ UsersNext
  /\ UNCHANGED <<panelVars, dashboardVars, urlVars, formsVars, runPagesVars, logVars, mapLinksVars, mapViewVars, canvasVars, part>>

MCNext ==
  \/ MCPanel \/ MCDashboard \/ MCUrl \/ MCForms \/ MCRunPages
  \/ MCLog \/ MCMapLinks \/ MCMapView \/ MCMapCanvas \/ MCUsers

\* The fairness of each component, while it is the one that moves.
MCFairness ==
  /\ WF_panelVars(part = "panel" /\ ActiveEnds) /\ WF_panelVars(part = "panel" /\ StatusPoll)
  /\ WF_panelVars(part = "panel" /\ Trigger) /\ WF_panelVars(part = "panel" /\ Show)
  /\ WF_dashboardVars(part = "dashboard" /\ Effects)
  /\ WF_dashboardVars(part = "dashboard" /\ FactsRespond) /\ WF_dashboardVars(part = "dashboard" /\ HistoryRespond)
  /\ WF_mapViewVars(part = "view" /\ MapQuery)
  /\ WF_mapViewVars(part = "view" /\ MapEffect) /\ WF_mapViewVars(part = "view" /\ MapPage)

MCFairSpec == MCInit /\ [][MCNext]_allVars /\ MCFairness

-----------------------------------------------------------------------------
\* The state of every component is of the kind its code can hold.
TypesOK ==
  /\ PanelTypeOK /\ DashboardTypeOK /\ UrlTypeOK /\ FormsTypeOK /\ RunPagesTypeOK
  /\ LogTypeOK /\ MapLinksTypeOK /\ MapViewTypeOK /\ MapCanvasTypeOK /\ UsersTypeOK
=============================================================================
