------------------------------ MODULE Topology ------------------------------
(***************************************************************************)
(* What enriching switches stores of their ports and cables.  A goroutine  *)
(* polls one switch: it writes a row for each port, keyed by the port's    *)
(* index, then for each neighbour a row for the neighbour's port, found by *)
(* the name the switch was told, and a link between the two.  Both ends of *)
(* a cable report it, in any order and at the same time.                   *)
(*                                                                         *)
(* The device at the other end is taken as found; DeviceIdentity has how.  *)
(* MAC addresses, VLANs and SNMP facts beside the keys are left out.       *)
(***************************************************************************)
EXTENDS Naturals, Sequences, FiniteSets

CONSTANTS
  Ports,           \* [dev, index], devices numbered in the order of their ids
  Cables,          \* sets of two ports of different devices
  IfName,          \* the name each port has by SNMP
  ToldName,        \* the name its neighbour was told, NoName for none
  NoName,
  LinkSources,     \* "lldp", "cdp"
  MaxPolls,        \* bound on the polls of a switch
  MaxTopologyFaults  \* bound on failed statements

ASSUME TopologyAssumption ==
  /\ \A p \in Ports : p.dev \in Nat /\ p.index \in Nat \ {0} /\ p = [dev |-> p.dev, index |-> p.index]
  /\ \A c \in Cables : \E p, q \in Ports : p.dev # q.dev /\ c = {p, q}
  /\ \A p \in Ports : IfName[p] # NoName
  /\ MaxPolls \in Nat /\ MaxTopologyFaults \in Nat

Switches == {p.dev : p \in Ports}
PortsOf(d) == {p \in Ports : p.dev = d}

None == 0   \* no row: a NULL interface id
NoIndex == 0

NoNeighbour == [source |-> "none"]

VARIABLES
  interfaces,      \* rows [dev, index, name]; the id of a row is its place
  links,           \* rows [source, a, aIf, b, bIf]: the columns that make up link_key
  polled,          \* polls of each switch so far
  walking,         \* ports of the switch still to be written
  idOf,            \* ifIndexToInterfaceID, None where it has no entry
  neighbours,      \* neighbours still to be handled: [source, local, remote]
  handled,         \* the neighbour whose port has just been looked up, with the row found
  topologyFaults

topologyVars == <<interfaces, links, polled, walking, idOf, neighbours, handled, topologyFaults>>

RowIds == 1 .. Len(interfaces)

-----------------------------------------------------------------------------
(* The statements.                                                         *)

ByIndex(d, i) == {r \in RowIds : interfaces[r].dev = d /\ interfaces[r].index = i}
ByName(d, n) == {r \in RowIds : interfaces[r].dev = d /\ interfaces[r].name = n}

\* UpsertInterfaceFromSNMP: a row is known by its index; a name that another row of
\* the device has makes the statement fail.
UpsertInterfaceFromSNMP(p, d) ==
  LET mine == ByIndex(d, p.index) IN
  \/ /\ ByName(d, IfName[p]) \ mine # {}
     /\ UNCHANGED <<interfaces, idOf>>
  \/ /\ ByName(d, IfName[p]) \ mine = {}
     /\ \/ /\ mine = {}
           /\ interfaces' = Append(interfaces, [dev |-> d, index |-> p.index, name |-> IfName[p]])
           /\ idOf' = [idOf EXCEPT ![p] = Len(interfaces) + 1]
        \/ \E r \in mine :
             /\ interfaces' = [interfaces EXCEPT ![r].name = IfName[p]]
             /\ idOf' = [idOf EXCEPT ![p] = r]

InsertRow(row, r) == r = Len(interfaces) + 1 /\ interfaces' = Append(interfaces, row)

NamedRow(d, n) == [dev |-> d, index |-> NoIndex, name |-> n]

\* A statement that adds a row whether there is one or not.
InsertInterfaceByName(d, n, r) == InsertRow(NamedRow(d, n), r)

\* UpsertInterfaceByName, which answers with the id of the row.
UpsertInterfaceByName(d, n, r) ==
  \/ r \in ByName(d, n) /\ UNCHANGED interfaces
  \/ ByName(d, n) = {} /\ InsertRow(NamedRow(d, n), r)

\* An order that leaves the interfaces where they are.
DevicesInOrder(s, d, dIf, e, eIf) ==
  IF d <= e THEN [source |-> s, a |-> d, aIf |-> dIf, b |-> e, bIf |-> eIf]
  ELSE [source |-> s, a |-> e, aIf |-> dIf, b |-> d, bIf |-> eIf]

\* canonicalizeLinkEndpoints; the ends are always two devices.
CanonicalLink(s, d, dIf, e, eIf) ==
  IF d <= e THEN [source |-> s, a |-> d, aIf |-> dIf, b |-> e, bIf |-> eIf]
  ELSE [source |-> s, a |-> e, aIf |-> eIf, b |-> d, bIf |-> dIf]

-----------------------------------------------------------------------------
Neighbours == [source : LinkSources, local : Ports, remote : Ports]

TopologyTypeOK ==
  /\ interfaces \in Seq([dev : Switches, index : Nat, name : {IfName[p] : p \in Ports} \cup {ToldName[p] : p \in Ports}])
  /\ \A l \in links : l.a \in Switches /\ l.b \in Switches /\ {l.aIf, l.bIf} \subseteq RowIds \cup {None}
  /\ polled \in [Switches -> 0 .. MaxPolls] /\ topologyFaults \in 0 .. MaxTopologyFaults
  /\ walking \subseteq Ports /\ neighbours \subseteq Neighbours
  /\ idOf \in [Ports -> RowIds \cup {None}]
  /\ \A d \in Switches : handled[d] # NoNeighbour =>
       handled[d].of \in Neighbours /\ handled[d].row \in RowIds \cup {None}

TopologyInit ==
  /\ interfaces = <<>> /\ links = {}
  /\ polled = [d \in Switches |-> 0]
  /\ walking = {} /\ neighbours = {}
  /\ idOf = [p \in Ports |-> None]
  /\ handled = [d \in Switches |-> NoNeighbour]
  /\ topologyFaults = 0

Busy(d) == (walking \cup {n.local : n \in neighbours}) \cap PortsOf(d) # {} \/ handled[d] # NoNeighbour

\* A run enriches the switch: SNMP lists its ports and neighbours.
Poll(d) ==
  /\ ~Busy(d) /\ polled[d] < MaxPolls
  /\ polled' = [polled EXCEPT ![d] = @ + 1]
  /\ walking' = walking \cup PortsOf(d)
  /\ idOf' = [p \in Ports |-> IF p.dev = d THEN None ELSE idOf[p]]
  /\ neighbours' = neighbours \cup
       {n \in Neighbours : n.local.dev = d /\ n.local # n.remote /\ {n.local, n.remote} \in Cables}
  /\ UNCHANGED <<interfaces, links, handled, topologyFaults>>

\* Ports come out of a Go map, in any order.
WritePort(p) ==
  /\ p \in walking
  /\ walking' = walking \ {p}
  /\ UpsertInterfaceFromSNMP(p, p.dev)
  /\ UNCHANGED <<links, polled, neighbours, handled, topologyFaults>>

\* A statement that fails is passed over.
WritePortFails(p) ==
  /\ p \in walking /\ topologyFaults < MaxTopologyFaults
  /\ walking' = walking \ {p} /\ topologyFaults' = topologyFaults + 1
  /\ UNCHANGED <<interfaces, links, polled, idOf, neighbours, handled>>

\* The ports have been written and the neighbour before has been handled.
Turn(n) ==
  n \in neighbours /\ walking \cap PortsOf(n.local.dev) = {} /\ handled[n.local.dev] = NoNeighbour

Hold(n, r) == handled' = [handled EXCEPT ![n.local.dev] = [of |-> n, row |-> r]]

\* The neighbour's port, if its name is known.
LookUpPort(n) ==
  /\ Turn(n)
  /\ neighbours' = neighbours \ {n}
  /\ \/ ToldName[n.remote] = NoName /\ UNCHANGED interfaces /\ Hold(n, None)
     \/ /\ ToldName[n.remote] # NoName
        /\ \E r \in 1 .. Len(interfaces) + 1 :
             UpsertInterfaceByName(n.remote.dev, ToldName[n.remote], r) /\ Hold(n, r)
  /\ UNCHANGED <<links, polled, walking, idOf, topologyFaults>>

LookUpPortFails(n) ==
  /\ Turn(n) /\ topologyFaults < MaxTopologyFaults
  /\ neighbours' = neighbours \ {n} /\ topologyFaults' = topologyFaults + 1
  /\ Hold(n, None)
  /\ UNCHANGED <<interfaces, links, polled, walking, idOf>>

\* A neighbour that could not be created, has a name that says nothing, or comes
\* after the deadline.
PassOver(n) ==
  /\ Turn(n) /\ topologyFaults < MaxTopologyFaults
  /\ neighbours' = neighbours \ {n} /\ topologyFaults' = topologyFaults + 1
  /\ UNCHANGED <<interfaces, links, polled, walking, idOf, handled>>

\* UpsertLink; the row of the same key only gets a new observed_at.
WriteLink(d) ==
  /\ handled[d] # NoNeighbour
  /\ LET n == handled[d].of IN
     links' = links \cup {CanonicalLink(n.source, d, idOf[n.local], n.remote.dev, handled[d].row)}
  /\ handled' = [handled EXCEPT ![d] = NoNeighbour]
  /\ UNCHANGED <<interfaces, polled, walking, idOf, neighbours, topologyFaults>>

WriteLinkFails(d) ==
  /\ handled[d] # NoNeighbour /\ topologyFaults < MaxTopologyFaults
  /\ handled' = [handled EXCEPT ![d] = NoNeighbour] /\ topologyFaults' = topologyFaults + 1
  /\ UNCHANGED <<interfaces, links, polled, walking, idOf, neighbours>>

TopologyNext ==
  \/ \E d \in Switches : Poll(d) \/ WriteLink(d) \/ WriteLinkFails(d)
  \/ \E p \in Ports : WritePort(p) \/ WritePortFails(p)
  \/ \E n \in neighbours : LookUpPort(n) \/ LookUpPortFails(n) \/ PassOver(n)

TopologySpec == TopologyInit /\ [][TopologyNext]_topologyVars

-----------------------------------------------------------------------------
(* Properties.                                                             *)

\* The row was written for the port: by its switch, or by a neighbour.
RowOf(r, p) ==
  /\ interfaces[r].dev = p.dev
  /\ interfaces[r].index = p.index \/ interfaces[r].name \in {IfName[p], ToldName[p]}

Joins(l, p, q) ==
  /\ l.a = p.dev /\ l.b = q.dev
  /\ l.aIf # None => RowOf(l.aIf, p)
  /\ l.bIf # None => RowOf(l.bIf, q)

\* Every link is a cable, with each interface at its own end, whichever switch
\* reported it and whatever failed on the way.
LinksAreCables ==
  \A l \in links : \E p, q \in Ports : {p, q} \in Cables /\ Joins(l, p, q)

LinksOf(s, c) == {l \in links : l.source = s /\ \E p, q \in c : p # q /\ Joins(l, p, q)}

CalledByItsName(p) == ToldName[p] \in {IfName[p], NoName}

KnownEnds(l) == <<l.aIf # None, l.bIf # None>>

\* Where neighbours call ports by the names SNMP has for them, two rows of one cable
\* differ in the ends they know, so there are never two with both ends; a cable
\* that two switches report at once is no exception.
OneLinkPerKnownEnds ==
  \A s \in LinkSources, c \in Cables :
    (\A p \in c : CalledByItsName(p)) =>
      \A l, k \in LinksOf(s, c) : KnownEnds(l) = KnownEnds(k) => l = k

\* docs/data-model.md: (a,b) and (b,a) are not duplicates.
OneLinkPerCable ==
  \A s \in LinkSources, c \in Cables :
    topologyFaults = 0 /\ (\A p \in c : ToldName[p] = IfName[p]) =>
      Cardinality(LinksOf(s, c)) <= 1
=============================================================================
