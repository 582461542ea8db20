--------------------------- MODULE DeviceIdentity ---------------------------
(***************************************************************************)
(* How core-go decides which device an address belongs to.  Four writers   *)
(* share the tables devices, mac_addresses and ip_addresses, each sending  *)
(* one statement at a time outside any transaction:                        *)
(*                                                                         *)
(*   arp        scrapeARP, for an entry of the kernel's ARP table          *)
(*   neighbor   runEnrichment, for an LLDP or CDP neighbour of a device    *)
(*   interface  runEnrichment, for the MAC of a device's own interface     *)
(*   import     handleImportInventoryPayload, for a NetBox/Nautobot device *)
(*                                                                         *)
(* All but "interface" find the device by its addresses or create one, so  *)
(* two writers that look before either has written make two devices.       *)
(* Neither table has a unique index on the address alone; a lookup returns *)
(* the device of the row with the oldest created_at.  That column is the   *)
(* time at which the INSERT began, and the row is seen when it commits, so *)
(* a row may appear that is older than those there are.                    *)
(*                                                                         *)
(* A statement may fail (a database error, a deadline, a lost connection)  *)
(* and a writer may die between two statements.  Names, metadata, links    *)
(* and the answers to the client are left out.  An INSERT in flight when   *)
(* its writer dies is rolled back; one that commits has done so before.    *)
(***************************************************************************)
EXTENDS Integers, FiniteSets, Sequences

CONSTANTS
  Actors,      \* goroutines and request handlers that resolve devices
  Macs, Ips,   \* addresses
  NoAddr,      \* an address the job does not have
  JobsOf,      \* JobsOf[a]: the jobs actor a may be given
  MaxDevices,  \* bound: devices created
  MaxJobs,     \* bound: jobs started
  MaxFaults    \* bound: failed statements and crashes

Kinds == {"arp", "neighbor", "interface", "import"}
Jobs == [kind : Kinds, mac : Macs \cup {NoAddr}, ip : Ips \cup {NoAddr}]

ASSUME DeviceIdentityAssumption ==
  /\ NoAddr \notin Macs \cup Ips
  /\ Macs \cap Ips = {}
  /\ JobsOf \in [Actors -> SUBSET Jobs]
  /\ \A a \in Actors : \A j \in JobsOf[a] :
       /\ j.kind = "arp" => j.mac # NoAddr /\ j.ip # NoAddr
       /\ j.kind = "interface" => j.mac # NoAddr
       /\ j.kind = "import" => j.mac = NoAddr
  /\ MaxDevices \in Nat /\ MaxJobs \in Nat /\ MaxFaults \in Nat

VARIABLES
  origin,     \* origin[d]: the job device d was created for; devices are 1 .. Len(origin)
  rows,       \* rows of both address tables, [device, addr, created]
  observed,   \* rows of mac_observations and ip_observations, [device, addr]
  at,         \* at[a]: the statement actor a sends next
  job,        \* job[a]: what it is resolving
  self,       \* self[a]: the device a neighbour or interface was reported by
  dev,        \* dev[a]: the device it has found or created, 0 for none yet
  stamp,      \* stamp[a]: created_at of the INSERT it has in flight, 0 for none
  lastStamp,  \* the last created_at that was taken
  begun,      \* jobs started so far
  faults      \* faults that happened so far

tables == <<origin, rows, observed>>
actor == <<at, job, self, dev>>
stamps == <<stamp, lastStamp>>
identityVars == <<tables, actor, stamps, begun, faults>>

Devices == 1 .. Len(origin)
Statements == {"idle", "byMac", "byIp", "create", "writeMac", "writeIp",
           "linkMac", "observeMac", "observeIp"}
AddressRows == [device : Nat \ {0}, addr : Macs \cup Ips, created : Nat \ {0}]
Attachments == [device : Nat \ {0}, addr : Macs \cup Ips]
NoJob == [kind |-> "import", mac |-> NoAddr, ip |-> NoAddr]

IdentityTypeOK ==
  /\ origin \in Seq(Jobs)
  /\ rows \subseteq AddressRows
  /\ observed \subseteq Attachments
  /\ at \in [Actors -> Statements]
  /\ job \in [Actors -> Jobs]
  /\ self \in [Actors -> Nat]
  /\ dev \in [Actors -> Nat]
  /\ stamp \in [Actors -> Nat]
  /\ lastStamp \in Nat
  /\ begun \in Nat
  /\ faults \in Nat
  /\ \A r \in rows : r.device \in Devices
  /\ \A a \in Actors : self[a] \in Devices \cup {0} /\ dev[a] \in Devices \cup {0}

IdentityInit ==
  /\ origin = <<>>
  /\ rows = {}
  /\ observed = {}
  /\ at = [a \in Actors |-> "idle"]
  /\ job = [a \in Actors |-> NoJob]
  /\ self = [a \in Actors |-> 0]
  /\ dev = [a \in Actors |-> 0]
  /\ stamp = [a \in Actors |-> 0]
  /\ lastStamp = 0
  /\ begun = 0
  /\ faults = 0

-----------------------------------------------------------------------------
(* The tables.                                                             *)

Facts == {[device |-> r.device, addr |-> r.addr] : r \in rows}

RowsOf(addr) == {r \in rows : r.addr = addr}

Oldest(R) == CHOOSE r \in R : \A q \in R : r.created <= q.created

\* FindDeviceIDByMAC and FindDeviceIDByIP: the device of the oldest row with this
\* address, 0 if there is none.
Owner(addr) == IF RowsOf(addr) = {} THEN 0 ELSE Oldest(RowsOf(addr)).device

\* An upsert that also refreshes created_at.
UpsertRefreshed(d, addr, created) ==
  {r \in rows : ~(r.device = d /\ r.addr = addr)}
    \cup {[device |-> d, addr |-> addr, created |-> IF created = 0 THEN lastStamp + 1 ELSE created]}

\* UpsertDeviceMAC and UpsertDeviceIP: ON CONFLICT touches updated_at only.
Upsert(d, addr, created) ==
  IF [device |-> d, addr |-> addr] \in Facts
  THEN rows
  ELSE rows \cup {[device |-> d, addr |-> addr, created |-> created]}

-----------------------------------------------------------------------------
(* Where a job goes.                                                       *)

FirstPlace(j) ==
  CASE j.kind = "interface" -> "writeMac"
    [] j.kind # "interface" /\ j.mac # NoAddr -> "byMac"
    [] j.kind # "interface" /\ j.mac = NoAddr /\ j.ip # NoAddr -> "byIp"
    [] OTHER -> "create"

AfterMiss(j, place) == IF place = "byMac" /\ j.ip # NoAddr THEN "byIp" ELSE "create"

\* A neighbour's management address and an import's missing address are not
\* written.
FirstWrite(j) ==
  IF j.mac # NoAddr THEN "writeMac"
  ELSE IF j.kind = "import" /\ j.ip # NoAddr THEN "writeIp" ELSE "idle"

AfterWrite(j, place) ==
  CASE j.kind = "arp" /\ place = "writeMac" -> "writeIp"
    [] j.kind = "arp" /\ place = "writeIp"  -> "observeMac"
    [] j.kind = "interface" /\ place = "writeMac" -> "linkMac"
    [] OTHER -> "idle"

\* A neighbour that turns out to be the reporting device is skipped.
AfterFound(a, d) ==
  IF job[a].kind = "neighbor" /\ d = self[a] THEN "idle" ELSE FirstWrite(job[a])

Goto(a, place) == at' = [at EXCEPT ![a] = place]

Fault == faults < MaxFaults /\ faults' = faults + 1

-----------------------------------------------------------------------------
(* One action per statement.                                               *)

\* The actor turns to its next entry, neighbour, interface or device.
Begin(a, j, reporter) ==
  /\ at[a] = "idle"
  /\ begun < MaxJobs
  /\ begun' = begun + 1
  /\ IF j.kind \in {"neighbor", "interface"} THEN reporter \in Devices ELSE reporter = 0
  /\ job' = [job EXCEPT ![a] = j]
  /\ self' = [self EXCEPT ![a] = reporter]
  /\ dev' = [dev EXCEPT ![a] = IF j.kind = "interface" THEN reporter ELSE 0]
  /\ Goto(a, FirstPlace(j))
  /\ UNCHANGED <<tables, stamps, faults>>

Lookup(a, place, addr) ==
  /\ at[a] = place
  /\ dev' = [dev EXCEPT ![a] = Owner(addr)]
  /\ Goto(a, IF Owner(addr) = 0 THEN AfterMiss(job[a], place) ELSE AfterFound(a, Owner(addr)))
  /\ UNCHANGED <<tables, job, self, stamps, begun, faults>>

\* A lookup that goes to the IP address first and never asks for the MAC.
FindByMACSkipped(a) ==
  /\ at[a] = "byMac"
  /\ Goto(a, AfterMiss(job[a], "byMac"))
  /\ UNCHANGED <<tables, job, self, dev, stamps, begun, faults>>

FindByMAC(a) == Lookup(a, "byMac", job[a].mac)

FindByIP(a) == Lookup(a, "byIp", job[a].ip)

\* scrapeARP gives up; enrichment and the import take an error for a miss.
LookupFailed(a) ==
  /\ at[a] \in {"byMac", "byIp"}
  /\ Fault
  /\ Goto(a, IF job[a].kind = "arp" THEN "idle" ELSE AfterMiss(job[a], at[a]))
  /\ UNCHANGED <<tables, job, self, dev, stamps, begun>>

\* Only a device that was found has the address attached to it.
CreateOnly(a) ==
  /\ at[a] = "create"
  /\ Len(origin) < MaxDevices
  /\ origin' = Append(origin, job[a])
  /\ dev' = [dev EXCEPT ![a] = Len(origin) + 1]
  /\ Goto(a, "idle")
  /\ UNCHANGED <<rows, observed, job, self, stamps, begun, faults>>

Create(a) ==
  /\ at[a] = "create"
  /\ Len(origin) < MaxDevices
  /\ origin' = Append(origin, job[a])
  /\ dev' = [dev EXCEPT ![a] = Len(origin) + 1]
  /\ Goto(a, FirstWrite(job[a]))
  /\ UNCHANGED <<rows, observed, job, self, stamps, begun, faults>>

CreateFailed(a) ==
  /\ at[a] = "create"
  /\ Fault
  /\ Goto(a, "idle")
  /\ UNCHANGED <<tables, job, self, dev, stamps, begun>>

\* The address the actor writes.
Target(a) == IF at[a] = "writeIp" THEN job[a].ip ELSE job[a].mac

\* An INSERT begins: now() of its transaction is the created_at of a new row.
InsertBegins(a) ==
  /\ at[a] \in {"writeMac", "writeIp", "linkMac"}
  /\ stamp[a] = 0
  /\ [device |-> dev[a], addr |-> Target(a)] \notin Facts
  /\ lastStamp' = lastStamp + 1
  /\ stamp' = [stamp EXCEPT ![a] = lastStamp']
  /\ UNCHANGED <<tables, actor, begun, faults>>

\* It commits, or finds that the row is there already.
WriteRow(a, place, addr) ==
  /\ at[a] = place
  /\ stamp[a] # 0 \/ [device |-> dev[a], addr |-> addr] \in Facts
  /\ rows' = Upsert(dev[a], addr, stamp[a])
  /\ stamp' = [stamp EXCEPT ![a] = 0]
  /\ Goto(a, AfterWrite(job[a], place))
  /\ UNCHANGED <<origin, observed, job, self, dev, lastStamp, begun, faults>>

WriteMAC(a) == WriteRow(a, "writeMac", job[a].mac)

WriteIP(a) == WriteRow(a, "writeIp", job[a].ip)

\* UpsertInterfaceMAC writes the same MAC for the same device, with the
\* interface; when UpsertDeviceMAC has written it the unique index refuses it.
WriteInterfaceMAC(a) == WriteRow(a, "linkMac", job[a].mac)

\* A scrape that ignores a failed write and goes on.
WriteFailedIgnored(a) ==
  /\ at[a] \in {"writeMac", "writeIp"}
  /\ Fault
  /\ Goto(a, AfterWrite(job[a], at[a]))
  /\ stamp' = [stamp EXCEPT ![a] = 0]
  /\ UNCHANGED <<tables, job, self, dev, lastStamp, begun>>

\* scrapeARP returns the error; the others ignore it, and only for an interface
\* is there more to write.
WriteFailed(a) ==
  /\ at[a] \in {"writeMac", "writeIp"}
  /\ Fault
  /\ Goto(a, IF job[a].kind = "interface" THEN "linkMac" ELSE "idle")
  /\ stamp' = [stamp EXCEPT ![a] = 0]
  /\ UNCHANGED <<tables, job, self, dev, lastStamp, begun>>

Observe(a, place, addr, next) ==
  /\ at[a] = place
  /\ observed' = observed \cup {[device |-> dev[a], addr |-> addr]}
  /\ Goto(a, next)
  /\ UNCHANGED <<origin, rows, job, self, dev, stamps, begun, faults>>

ObserveMAC(a) == Observe(a, "observeMac", job[a].mac, "observeIp")

ObserveIP(a) == Observe(a, "observeIp", job[a].ip, "idle")

\* An observation could not be stored, or the process died; a new actor takes
\* the place of the old one.
Abandon(a) ==
  /\ at[a] # "idle"
  /\ Fault
  /\ Goto(a, "idle")
  /\ stamp' = [stamp EXCEPT ![a] = 0]
  /\ UNCHANGED <<tables, job, self, dev, lastStamp, begun>>

Step(a) ==
  \/ \E j \in JobsOf[a], reporter \in Devices \cup {0} : Begin(a, j, reporter)
  \/ FindByMAC(a) \/ FindByIP(a) \/ LookupFailed(a)
  \/ Create(a) \/ CreateFailed(a)
  \/ InsertBegins(a)
  \/ WriteMAC(a) \/ WriteIP(a) \/ WriteInterfaceMAC(a) \/ WriteFailed(a)
  \/ ObserveMAC(a) \/ ObserveIP(a)
  \/ Abandon(a)

IdentityNext == \E a \in Actors : Step(a)

IdentitySpec == IdentityInit /\ [][IdentityNext]_identityVars

-----------------------------------------------------------------------------
(* Properties.                                                             *)

Holders(addr) == {d \in Devices : [device |-> d, addr |-> addr] \in Facts}

\* Who may attach MAC m to a device of its own choosing, and the MACs devices
\* report for their interfaces, which are written without a lookup.
Resolvers(m) == {a \in Actors : \E j \in JobsOf[a] : j.mac = m /\ j.kind # "interface"}
Reported == {j.mac : j \in UNION {{i \in JobsOf[a] : i.kind = "interface"} : a \in Actors}}

\* Racing lookups do make several devices of one MAC, but no more than there
\* are writers that look it up, plus one for each failed lookup that was taken
\* for a miss: however often a MAC is seen again, its devices do not multiply.
\* With one scraper and no topology that is at most one device per MAC.
OwnersBounded ==
  \A m \in Macs \ Reported :
    Cardinality(Holders(m)) <= Cardinality(Resolvers(m)) + faults

\* An address resolves to a device and no INSERT in flight has an older created_at
\* than the row that says so.
Settled(addr) ==
  /\ Owner(addr) # 0
  /\ \A a \in Actors :
       stamp[a] # 0 /\ Target(a) = addr => Oldest(RowsOf(addr)).created < stamp[a]

\* An address changes its device only if an INSERT that began earlier commits later.
\* Where none is in flight the address keeps its device, and stays so for ever,
\* whatever duplicates are made and however often rows are written again.
SettledOwner ==
  [][\A addr \in Macs \cup Ips :
       Settled(addr) => Settled(addr)' /\ Owner(addr)' = Owner(addr)]_identityVars

\* The history of a device never shows an address the device does not have:
\* a scrape that failed to attach an address records no observation of it.
ObservedIsFact == observed \subseteq Facts

\* A device created for a job that writes an address is left without one only
\* by a fault; such a device is never found again and stays for ever.
Orphans ==
  {d \in Devices :
     /\ FirstWrite(origin[d]) # "idle"
     /\ \A f \in Facts : f.device # d
     /\ \A a \in Actors : at[a] = "idle" \/ dev[a] # d}

OrphansBounded == Cardinality(Orphans) <= faults
=============================================================================
