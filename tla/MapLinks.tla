------------------------------- MODULE MapLinks -------------------------------
(***************************************************************************)
(* The address of the map page, a layer and a focus, and every link and    *)
(* form that leads from one address to another: the list of layers, the    *)
(* relationships of the inspector, "Drill in" and "Open" of the canvas,    *)
(* the focus form and "Clear".                                             *)
(*                                                                         *)
(* An object of the map is its type and an identifier.  Parameters of the  *)
(* address that the page does not read are left out.                       *)
(***************************************************************************)
EXTENDS Naturals

CONSTANTS
  ObjectIds,   \* identifiers of objects
  NoId         \* no focusId in the address

ASSUME MapLinksAssumption == NoId \notin ObjectIds

Layers == {"physical", "l2", "l3", "services", "security"}
FocusTypes == {"device", "subnet", "vlan", "zone", "service"}
DEFAULT_LAYER == "l3"

\* LAYER_FOCUS_SUPPORT of page.tsx.
PageFocusSupport ==
  [physical |-> {"device"}, l2 |-> {"device", "vlan"}, l3 |-> {"device", "subnet"},
   services |-> {"device", "service"}, security |-> {"device", "zone"}]

\* LAYER_FOCUS_SUPPORT of MapInspectorDetails.tsx.
InspectorFocusSupport ==
  [physical |-> {"device"}, l2 |-> {"device", "vlan"}, l3 |-> {"device", "subnet"},
   services |-> {"device", "service"}, security |-> {"device", "zone"}]

\* Values in an address somebody typed; "" is an absent one.
RawLayers == Layers \cup {"", "bogus"}
RawFocusTypes == FocusTypes \cup {"", "bogus"}

Objects == [type : FocusTypes, id : ObjectIds]
NoObject == [type |-> "", id |-> NoId]
Addresses == [layer : RawLayers, type : RawFocusTypes, id : ObjectIds \cup {NoId}]

VARIABLES
  address,     \* the parameters of the page shown
  fetched,     \* the projection it was rendered with: "none", "loaded" or "failed"
  held,        \* the provider of the page has a projection, fetched or polled
  chosen       \* the selection: an object of the projection, or NoObject

mapLinksVars == <<address, fetched, held, chosen>>

To(layer, object) == [layer |-> layer, type |-> object.type, id |-> object.id]

-----------------------------------------------------------------------------
(* Reading an address.                                                     *)

\* MapPage redirects an address without a layer.
Redirected(a) == IF a.layer = "" THEN [a EXCEPT !.layer = DEFAULT_LAYER] ELSE a

UnknownLayer(a) == a.layer \notin Layers

\* The layer of the focus form and the inspector, when there is none.
activeLayerId(a) == IF UnknownLayer(a) THEN DEFAULT_LAYER ELSE a.layer

\* A focus is a known type and an identifier.
FocusOf(a) ==
  IF a.type \in FocusTypes /\ a.id # NoId THEN [type |-> a.type, id |-> a.id] ELSE NoObject

Focused(a) == FocusOf(a) # NoObject

hasFocusParams(a) == a.type # "" \/ a.id # NoId

\* core-go is only asked for a known layer with a focus.
Asks(a) == ~UnknownLayer(a) /\ Focused(a)

\* The key under which the selection lives.
selectionScopeKey(a) ==
  IF UnknownLayer(a) THEN [layer |-> a.layer, focus |-> NoObject]
  ELSE [layer |-> a.layer, focus |-> FocusOf(a)]

-----------------------------------------------------------------------------
(* What core-go puts on the canvas.                                        *)

\* handleGetMapProjection has a branch for each layer and type of focus (map.go:674, 804,
\* 887, 1011, 1100, 1216), which says of what kind the regions and nodes are; an object
\* of a type the layer does not know gets an inspector and nothing else.
RegionKinds(layer, type) ==
  CASE layer = "l3" /\ type \in {"device", "subnet"} -> {"subnet"}
    [] layer = "l2" /\ type \in {"device", "vlan"} -> {"vlan"}
    [] layer = "services" /\ type \in {"device", "service"} -> {"device"}
    [] OTHER -> {}

NodeKinds(layer, type) ==
  CASE layer \in {"l3", "l2"} /\ type \in PageFocusSupport[layer] -> {"device"}
    [] layer = "services" /\ type \in {"device", "service"} -> {"service"}
    [] layer \in {"physical", "security"} /\ type = "device" -> {"device"}
    [] OTHER -> {}

\* The inspector of the focus itself: the focus in every layer, and the regions
\* and devices of the projection in this one.
ServerRelationships(layer, focus) ==
  {To(l, focus) : l \in Layers}
    \cup (IF focus.type = "device" THEN {To(layer, [type |-> k, id |-> i]) : k \in RegionKinds(layer, "device") \ {"device"}, i \in ObjectIds} ELSE {})
    \cup (IF layer # "security" THEN {To(layer, [type |-> k, id |-> i]) : k \in NodeKinds(layer, focus.type) \cap {"device"}, i \in ObjectIds} ELSE {})

OnCanvas(a) ==
  IF Asks(a) /\ fetched = "loaded"
  THEN [type : RegionKinds(a.layer, a.type) \cup NodeKinds(a.layer, a.type), id : ObjectIds]
  ELSE {}

-----------------------------------------------------------------------------
(* Links.  Each is the address it leads to.                                *)

\* The list of layers keeps a focus the layer supports, and an incomplete one.
LayerLink(a, layer) ==
  IF Focused(a) /\ a.type \notin PageFocusSupport[layer]
  THEN To(layer, NoObject)
  ELSE [a EXCEPT !.layer = layer]

\* buildSelectionInspector: "Drill in" and "View in" every layer.
SelectionRelationships(layer, object) == {To(l, object) : l \in Layers}

\* The inspector describes the selection if there is one, else the focus.
Relationships(a) ==
  IF ~Asks(a) \/ ~held THEN {}
  ELSE IF chosen # NoObject THEN SelectionRelationships(a.layer, chosen)
  ELSE ServerRelationships(a.layer, FocusOf(a))

\* A cross-layer link that keeps any focus.
FocusKept(layer, focus) == focus

resolveCrossLayerFocus(layer, focus) ==
  IF focus.type \in InspectorFocusSupport[layer] THEN focus ELSE NoObject

\* A relationship within the layer keeps its object, one to another layer only
\* when that layer supports the type.
RelationshipLink(a, r) ==
  IF r.layer = a.layer THEN r
  ELSE To(r.layer, resolveCrossLayerFocus(r.layer, FocusOf(r)))

\* "Drill in" of a region and "Open" of the selection stay in the layer.
CanvasLinks(a) ==
  {To(a.layer, o) : o \in {x \in OnCanvas(a) : x = chosen \/ x.type \in RegionKinds(a.layer, a.type)}}

ClearLink(a) == To(a.layer, NoObject)

Links(a) ==
  {LayerLink(a, l) : l \in Layers}
    \cup {RelationshipLink(a, r) : r \in Relationships(a)}
    \cup CanvasLinks(a)
    \cup (IF hasFocusParams(a) THEN {ClearLink(a)} ELSE {})

-----------------------------------------------------------------------------
MapLinksTypeOK ==
  /\ address \in Addresses /\ address.layer # ""
  /\ fetched \in {"none", "loaded", "failed"}
  /\ held \in BOOLEAN /\ chosen \in Objects \cup {NoObject}

\* The page for the address a: the server asks core-go, which answers or does not.
Shows(a) ==
  /\ address' = Redirected(a)
  /\ fetched' \in IF Asks(Redirected(a)) THEN {"loaded", "failed"} ELSE {"none"}
  /\ LET same == selectionScopeKey(Redirected(a)) = selectionScopeKey(address) IN
     /\ held' = (fetched' = "loaded" \/ (same /\ held))
     /\ chosen' = IF same THEN chosen ELSE NoObject

MapLinksInit ==
  /\ \E a \in Addresses : address = Redirected(a)
  /\ fetched \in IF Asks(address) THEN {"loaded", "failed"} ELSE {"none"}
  /\ held = (fetched = "loaded") /\ chosen = NoObject

\* The provider polls also when the page was rendered without a projection.
PollLoads ==
  /\ Asks(address) /\ ~held
  /\ held' = TRUE /\ UNCHANGED <<address, fetched, chosen>>

FollowLink == \E a \in Links(address) : Shows(a)

\* The form takes any type, and the layer of the page or the default one.
ApplyFocus ==
  \E type \in FocusTypes \cup {""}, id \in ObjectIds \cup {NoId} :
    Shows([layer |-> activeLayerId(address), type |-> type, id |-> id])

\* A click on a region or a node.
Choose(o) ==
  /\ o \in OnCanvas(address) /\ o # chosen
  /\ chosen' = o /\ UNCHANGED <<address, fetched, held>>

ClearSelection ==
  /\ chosen # NoObject
  /\ chosen' = NoObject /\ UNCHANGED <<address, fetched, held>>

MapLinksNext == PollLoads \/ FollowLink \/ ApplyFocus \/ (\E o \in Objects : Choose(o)) \/ ClearSelection

MapLinksSpec == MapLinksInit /\ [][MapLinksNext]_mapLinksVars

-----------------------------------------------------------------------------
(* Properties.                                                             *)

Supported(a) == ~UnknownLayer(a) /\ (Focused(a) => a.type \in PageFocusSupport[a.layer])

\* On a page whose layer supports its focus, every link leads to one whose layer
\* supports its focus: whatever the list, the inspector and the canvas offer, for
\* the focus or for any selection, the operator is not led to a page that can only
\* be empty.
LinksStaySupported == Supported(address) => \A a \in Links(address) : Supported(a)
=============================================================================
