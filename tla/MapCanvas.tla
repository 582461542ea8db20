------------------------------ MODULE MapCanvas ------------------------------
(***************************************************************************)
(* A projection of the map, from the queries core-go makes for it to the   *)
(* cards the canvas draws.  Subnets, VLANs and the host of services are    *)
(* regions, what lies in them is a node; devices and regions are numbered  *)
(* in the order of their identifiers, which core-go sorts by.              *)
(*                                                                         *)
(* The queries of one projection are separate statements, and discovery    *)
(* moves devices between them.                                             *)
(***************************************************************************)
EXTENDS Naturals, FiniteSets

CONSTANTS
  MapDevices,   \* a set of numbers; 0 is none
  MapRegions,   \* a set of numbers
  FocusDevice,  \* the device a projection of a device is about
  RegionLimit, NodeLimit, EdgeLimit,
  MaxMoves      \* bound on the changes between the queries of a projection

ASSUME CanvasAssumption ==
  /\ MapDevices \subseteq Nat \ {0} /\ MapRegions \subseteq Nat \ {0}
  /\ IsFiniteSet(MapDevices) /\ IsFiniteSet(MapRegions)
  /\ FocusDevice \in MapDevices
  /\ RegionLimit \in Nat \ {0} /\ NodeLimit \in Nat \ {0} /\ EdgeLimit \in Nat \ {0}
  /\ MaxMoves \in Nat

Peers == MapDevices \ {FocusDevice}

VARIABLES
  inRegions,   \* core-go: the regions each device lies in
  links,       \* core-go: physical links of FocusDevice: [peer, key]
  mapFocus,    \* [kind, id]: a device, a region, or a device's physical links
  build,       \* the projection being built: [pc, kept, all, found]
  projection,  \* the one drawn
  moves, moved \* history: something moved since the first query for it

canvasVars == <<inRegions, links, mapFocus, build, projection, moves, moved>>

FirstOf(S, n) == {x \in S : Cardinality({y \in S : y < x}) < n}
Least(S) == CHOOSE x \in S : \A y \in S : x <= y

NotBuilding == [pc |-> "none", kept |-> {}, all |-> {}, found |-> <<>>]
NoDrawing == [regions |-> {}, nodes |-> {}, edges |-> {}, regionsCut |-> FALSE, nodesCut |-> FALSE, edgesCut |-> FALSE]

-----------------------------------------------------------------------------
(* Queries.                                                                *)

MembersOf(r) == {d \in MapDevices : r \in inRegions[d]}

\* A limit that leaves no room to see that there are more.
PeerQueryShort == NodeLimit - 1

\* One more than there is room for beside the focus.
PeerQueryLimit == NodeLimit

\* ListDeviceLinkPeers: one link for every peer, the one with the lowest key.
LinkPerPeer == {l \in links : \A k \in links : k.peer = l.peer => l.key <= k.key}

MaxLinks == IF EdgeLimit < NodeLimit - 1 THEN EdgeLimit ELSE NodeLimit - 1

-----------------------------------------------------------------------------
(* Answers.                                                                *)

Node(d, regions) ==
  [id |-> d, regions |-> regions, primary |-> IF regions = {} THEN 0 ELSE Least(regions)]

\* A device, in the layers of subnets and VLANs; only the first connects it to its
\* peers.
DeviceDrawing(b, connected) ==
  LET peers == UNION {b.found[r] : r \in b.kept}
      shown == FirstOf(peers, NodeLimit - 1)
      joined == IF connected THEN FirstOf(shown, EdgeLimit) ELSE {}
  IN [regions |-> b.kept,
      nodes |-> {Node(FocusDevice, b.kept)} \cup {Node(d, {r \in b.kept : d \in b.found[r]}) : d \in shown},
      edges |-> {[peer |-> d, key |-> 0] : d \in joined},
      regionsCut |-> b.all # b.kept,
      nodesCut |-> Cardinality(peers) > NodeLimit - 1,
      edgesCut |-> connected /\ joined # shown]

\* A subnet, a VLAN or the services of a host: all are in the one region.
RegionDrawing(r, members) ==
  [regions |-> {r},
   nodes |-> {Node(d, {r}) : d \in FirstOf(members, NodeLimit)},
   edges |-> {}, regionsCut |-> FALSE,
   nodesCut |-> Cardinality(members) > NodeLimit, edgesCut |-> FALSE]

\* The physical layer has no regions.
LinksDrawing(peerLinks) ==
  LET shown == {l \in peerLinks : l.peer \in FirstOf({k.peer : k \in peerLinks}, MaxLinks)} IN
  [regions |-> {}, nodes |-> {Node(FocusDevice, {})} \cup {Node(l.peer, {}) : l \in shown},
   edges |-> shown, regionsCut |-> FALSE,
   nodesCut |-> shown # peerLinks, edgesCut |-> shown # peerLinks]

-----------------------------------------------------------------------------
MapCanvasTypeOK ==
  /\ inRegions \in [MapDevices -> SUBSET MapRegions]
  /\ links \subseteq [peer : Peers, key : 1 .. 2]
  /\ build.pc \in {"none", "peers"} /\ build.kept \subseteq MapRegions
  /\ projection.regions \subseteq MapRegions
  /\ \A n \in projection.nodes : n.id \in MapDevices /\ n.regions \subseteq MapRegions
  /\ moves \in 0 .. MaxMoves /\ moved \in BOOLEAN

\* The focus never changes: another one is another page.
MapCanvasInit ==
  /\ \/ /\ mapFocus = [kind |-> "device", id |-> FocusDevice]
        /\ inRegions \in [MapDevices -> SUBSET MapRegions] /\ links = {}
     \/ /\ \E r \in MapRegions : mapFocus = [kind |-> "region", id |-> r]
        /\ inRegions \in [MapDevices -> {{}, {mapFocus.id}}] /\ links = {}
     \/ /\ mapFocus = [kind |-> "links", id |-> FocusDevice]
        /\ inRegions = [d \in MapDevices |-> {}]
        /\ links \in SUBSET [peer : Peers, key : 1 .. 2]
  /\ build = NotBuilding /\ projection = NoDrawing
  /\ moves = 0 /\ moved = FALSE

\* Discovery puts a device in a region or takes it out.
Moves(d, r) ==
  /\ build.pc # "none" /\ moves < MaxMoves
  /\ inRegions' = [inRegions EXCEPT ![d] = IF r \in @ THEN @ \ {r} ELSE @ \cup {r}]
  /\ moves' = moves + 1 /\ moved' = TRUE
  /\ UNCHANGED <<links, mapFocus, build, projection>>

Drawn(drawing) ==
  /\ projection' = drawing /\ build' = NotBuilding
  /\ UNCHANGED <<inRegions, links, mapFocus, moves>>

\* The regions of a device, the first ones of which are drawn.
ReadRegions ==
  /\ build.pc = "none" /\ mapFocus.kind = "device"
  /\ LET all == inRegions[FocusDevice]
         kept == FirstOf(all, RegionLimit)
     IN build' = [pc |-> "peers", kept |-> kept, all |-> all, found |-> <<>>]
  /\ moved' = FALSE
  /\ UNCHANGED <<inRegions, links, mapFocus, projection, moves>>

\* The peers in one of them.
ReadPeers ==
  /\ build.pc = "peers" /\ build.kept # DOMAIN build.found
  /\ LET r == Least(build.kept \ DOMAIN build.found)
         peers == FirstOf(MembersOf(r) \ {FocusDevice}, PeerQueryLimit)
     IN build' = [build EXCEPT !.found = [s \in DOMAIN @ \cup {r} |-> IF s = r THEN peers ELSE @[s]]]
  /\ UNCHANGED <<inRegions, links, mapFocus, projection, moves, moved>>

DrawDevice ==
  /\ build.pc = "peers" /\ build.kept = DOMAIN build.found
  /\ \E connected \in BOOLEAN : Drawn(DeviceDrawing(build, connected))
  /\ UNCHANGED moved

\* One query answers for a region or for links.
DrawRegion ==
  /\ mapFocus.kind = "region" /\ moved' = FALSE
  /\ Drawn(RegionDrawing(mapFocus.id, FirstOf(MembersOf(mapFocus.id), NodeLimit + 1)))

DrawLinks ==
  /\ mapFocus.kind = "links" /\ moved' = FALSE
  /\ LET peers == FirstOf({l.peer : l \in LinkPerPeer}, MaxLinks + 1)
     IN Drawn(LinksDrawing({l \in LinkPerPeer : l.peer \in peers}))

MapCanvasNext ==
  \/ ReadRegions \/ ReadPeers \/ DrawDevice \/ DrawRegion \/ DrawLinks
  \/ \E d \in MapDevices, r \in MapRegions : Moves(d, r)

MapCanvasSpec == MapCanvasInit /\ [][MapCanvasNext]_canvasVars

-----------------------------------------------------------------------------
(* What is drawn.                                                          *)

showRegions == projection.regions # {}

\* resolveNodePlacement: the primary region, else the first one, else none.
Placement(n) == IF n.primary # 0 THEN n.primary ELSE IF n.regions # {} THEN Least(n.regions) ELSE 0

PlacedIn(r) == {n \in projection.nodes : Placement(n) = r}
MembersShown(r) == {n \in projection.nodes : r \in n.regions}

\* The line of a card: members, placed, not placed here.
Card(r) ==
  LET members == Cardinality(MembersShown(r))
      placed == Cardinality(PlacedIn(r))
  IN [members |-> members, placed |-> placed,
      elsewhere |-> IF members > placed THEN members - placed ELSE 0]

\* The list of the physical view, or the cloud of nodes without regions.
LinkRows == {[key |-> e.key, peer |-> e.peer] : e \in projection.edges}
CloudNodes == IF showRegions \/ mapFocus.kind = "links" THEN {} ELSE projection.nodes

Warned == projection.regionsCut \/ projection.nodesCut \/ projection.edgesCut

-----------------------------------------------------------------------------
(* Properties.                                                             *)

\* A node is drawn in one card, which has it among its members, so the numbers of a
\* card add up; devices that move between the queries do not change that.
PlacedOnce ==
  mapFocus.kind # "links" =>
    /\ \A n \in projection.nodes \ CloudNodes :
         \E r \in n.regions \cap projection.regions :
           {s \in projection.regions : n \in PlacedIn(s)} = {r}
    /\ \A r \in projection.regions : Card(r).members = Card(r).placed + Card(r).elsewhere

\* Whoever is in the regions drawn, or is linked.
Expected ==
  CASE mapFocus.kind = "device" -> {FocusDevice} \cup {d \in Peers : inRegions[d] \cap projection.regions # {}}
    [] mapFocus.kind = "region" -> MembersOf(mapFocus.id)
    [] mapFocus.kind = "links" -> {FocusDevice} \cup {l.peer : l \in links}

\* Without a warning every region is there, without one about nodes everybody in the
\* regions shown, and with it everybody drawn still has all of his memberships and is
\* at the end of every edge, if nothing moved between the queries.
CutIsTold ==
  projection # NoDrawing /\ build.pc = "none" /\ ~moved =>
    /\ ~Warned /\ mapFocus.kind = "device" => projection.regions = inRegions[FocusDevice]
    /\ ~projection.nodesCut => {n.id : n \in projection.nodes} = Expected
    /\ \A n \in projection.nodes : n.regions = inRegions[n.id] \cap projection.regions
    /\ \A e \in projection.edges : e.peer \in {n.id : n \in projection.nodes} \ {FocusDevice}
    /\ mapFocus.kind = "links" => {n.id : n \in projection.nodes} = {FocusDevice} \cup {row.peer : row \in LinkRows}

\* docs/network_map/interface-rules.md: one placement, no duplicates by default; and
\* what the limits leave out is announced.
CanvasTells == PlacedOnce /\ CutIsTold
=============================================================================
