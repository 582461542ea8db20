--------------------------- MODULE MCCoreRecords ---------------------------
(***************************************************************************)
(* Records of core-go, for TLC: the devices of addresses, the feeds, what  *)
(* topology discovery stores and the tags of a device.  They share no      *)
(* state; which of them moves is chosen at the start.                      *)
(***************************************************************************)
EXTENDS DeviceIdentity, ChangeFeed, Topology, DeviceTags, TLC

CONSTANTS s1, n1, s2,      \* a scraper and its enrichment, another process
          m1, m2, ip1      \* addresses

VARIABLE part

allVars == <<identityVars, vars, topologyVars, tagVars, part>>

Arp(m, i) == [kind |-> "arp", mac |-> m, ip |-> i]
Neighbor(m, i) == [kind |-> "neighbor", mac |-> m, ip |-> i]
Interface(m) == [kind |-> "interface", mac |-> m, ip |-> NoAddr]
Import(i) == [kind |-> "import", mac |-> NoAddr, ip |-> i]

\* Two processes see the same segment, where ip1 moves between two hosts.  The first
\* scrapes and enriches; the second scrapes or imports an inventory.  m2 is the MAC
\* of an interface as well, so it may have been attached to another device.
Segment ==
  s1 :> {Arp(m1, ip1), Arp(m2, ip1)} @@
  n1 :> {Neighbor(m1, NoAddr), Neighbor(NoAddr, ip1), Interface(m2)} @@
  s2 :> {Arp(m2, ip1), Import(ip1)}

\* Two switches with two cables between them; the neighbour calls one of the ports
\* by its description and is not told the name of another.
Port(d, i) == [dev |-> d, index |-> i]
SomePorts == {Port(1, 1), Port(1, 2), Port(2, 1), Port(2, 2)}
SomeCables == {{Port(1, 1), Port(2, 1)}, {Port(1, 2), Port(2, 2)}}
Names == [p \in SomePorts |-> IF p.index = 1 THEN "eth1" ELSE "eth2"]
ToldNames ==
  [p \in SomePorts |-> IF p = Port(2, 2) THEN "uplink" ELSE IF p = Port(1, 2) THEN NoName ELSE Names[p]]

MCInit ==
  /\ part \in {"identity", "feed", "topology", "tags"}
  /\ IdentityInit /\ Init /\ TopologyInit /\ TagsInit

MCIdentity ==
  part = "identity" /\ IdentityNext /\ UNCHANGED <<vars, topologyVars, tagVars, part>>
MCFeed ==
  part = "feed" /\ Next /\ UNCHANGED <<identityVars, topologyVars, tagVars, part>>
MCTopology ==
  part = "topology" /\ TopologyNext /\ UNCHANGED <<identityVars, vars, tagVars, part>>
MCTags ==
  part = "tags" /\ TagsNext /\ UNCHANGED <<identityVars, vars, topologyVars, part>>

MCNext == MCIdentity \/ MCFeed \/ MCTopology \/ MCTags

MCSpec == MCInit /\ [][MCNext]_allVars

\* The state of every component is of the kind its tables can hold.
TypesOK == IdentityTypeOK /\ TypeOK /\ TopologyTypeOK /\ TagsTypeOK
=============================================================================
