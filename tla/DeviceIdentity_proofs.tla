------------------------ MODULE DeviceIdentity_proofs -----------------------
(***************************************************************************)
(* Proofs about DeviceIdentity for any number of writers, jobs and faults. *)
(* Rows are only added, and an actor that is about to record an observation *)
(* has written the address before.  No two rows or INSERTs in flight have  *)
(* the same created_at, so the oldest row of an address changes only when  *)
(* an INSERT that began before it commits.  At the end devices are         *)
(* counted: every orphan has its fault, and every further device of a MAC  *)
(* its fault or its writer.                                                *)
(***************************************************************************)
EXTENDS DeviceIdentity, NaturalsLemmas, FiniteSetTheorems, TLAPS

-----------------------------------------------------------------------------
(* Rows.                                                                   *)

\* Among rows there are is a row with the least created_at.
LEMMA OldestIsLeast ==
  ASSUME NEW R \in SUBSET AddressRows, R # {}
  PROVE  Oldest(R) \in R /\ \A q \in R : Oldest(R).created <= q.created
<1> DEFINE C == {r.created : r \in R}
<1>1. C \in SUBSET Nat /\ C # {}
  BY DEF AddressRows
<1>2. PICK c \in C : \A e \in C : c <= e
  BY <1>1, LeastNat
<1>3. \E r \in R : \A q \in R : r.created <= q.created
  BY <1>2
<1> QED BY <1>3 DEF Oldest

\* An upsert adds the row if it is missing and keeps the others.
LEMMA UpsertAdds ==
  ASSUME rows \subseteq AddressRows, NEW d \in Nat \ {0}, NEW addr \in Macs \cup Ips,
         NEW c \in Nat, c # 0 \/ [device |-> d, addr |-> addr] \in Facts
  PROVE  /\ Upsert(d, addr, c) \subseteq AddressRows
         /\ rows \subseteq Upsert(d, addr, c)
         /\ \A r \in Upsert(d, addr, c) :
              r \in rows \/ (c # 0 /\ r = [device |-> d, addr |-> addr, created |-> c])
         /\ {[device |-> r.device, addr |-> r.addr] : r \in Upsert(d, addr, c)}
              = Facts \cup {[device |-> d, addr |-> addr]}
<1>1. CASE [device |-> d, addr |-> addr] \in Facts
  BY <1>1 DEF Upsert, Facts
<1>2. CASE [device |-> d, addr |-> addr] \notin Facts
  <2> DEFINE row == [device |-> d, addr |-> addr, created |-> c]
  <2>1. Upsert(d, addr, c) = rows \cup {row} /\ c # 0
    BY <1>2 DEF Upsert
  <2>2. row \in AddressRows
    BY <2>1 DEF AddressRows
  <2>3. [device |-> row.device, addr |-> row.addr] = [device |-> d, addr |-> addr]
    OBVIOUS
  <2> QED BY <2>1, <2>2, <2>3 DEF Facts
<1> QED BY <1>1, <1>2

-----------------------------------------------------------------------------
(* The inductive invariant.                                                *)

WritePlaces == {"writeMac", "writeIp", "linkMac"}
ObservePlaces == {"observeMac", "observeIp"}

\* What an actor knows at each statement: it has the address the statement
\* takes and a device to attach it to, and a scrape that records observations
\* has attached the addresses.
ActorOK(a) ==
  /\ at[a] \in {"byMac", "writeMac", "linkMac", "observeMac"} => job[a].mac \in Macs
  /\ at[a] \in {"byIp", "writeIp", "observeIp"} => job[a].ip \in Ips
  /\ at[a] # "idle" /\ job[a].kind \in {"arp", "interface"} => job[a].mac \in Macs
  /\ at[a] # "idle" /\ job[a].kind = "arp" => job[a].ip \in Ips
  /\ at[a] \in WritePlaces \cup ObservePlaces => dev[a] \in Devices
  /\ at[a] = "writeIp" /\ job[a].kind = "arp" =>
       [device |-> dev[a], addr |-> job[a].mac] \in Facts
  /\ at[a] \in ObservePlaces =>
       /\ job[a].kind = "arp"
       /\ [device |-> dev[a], addr |-> job[a].mac] \in Facts
       /\ [device |-> dev[a], addr |-> job[a].ip] \in Facts

IdentityInv ==
  /\ IdentityTypeOK
  /\ ObservedIsFact
  /\ \A a \in Actors : ActorOK(a)

\* Rows and devices are only added, so an actor that does not move loses
\* nothing.
LEMMA StillOK ==
  ASSUME IdentityTypeOK, NEW b \in Actors, ActorOK(b),
         Facts \subseteq Facts', Devices \subseteq Devices',
         at'[b] = at[b], job'[b] = job[b], dev'[b] = dev[b]
  PROVE  ActorOK(b)'
BY DEF ActorOK, WritePlaces, ObservePlaces

\* A statement that leaves the tables alone and moves one actor.
LEMMA MoveKeeps ==
  ASSUME IdentityInv, NEW a \in Actors, NEW place \in Statements, Goto(a, place),
         UNCHANGED tables, begun' \in Nat, faults' \in Nat,
         stamp' \in [Actors -> Nat], lastStamp' \in Nat,
         NEW r \in Devices \cup {0}, self' = [self EXCEPT ![a] = r],
         NEW j \in Jobs, job' = [job EXCEPT ![a] = j],
         NEW d \in Devices \cup {0}, dev' = [dev EXCEPT ![a] = d],
         ActorOK(a)'
  PROVE  IdentityInv'
<1>1. IdentityTypeOK'
  BY DEF IdentityInv, IdentityTypeOK, tables, Goto, Devices
<1>2. ObservedIsFact'
  BY DEF IdentityInv, ObservedIsFact, tables, Facts
<1>3. ASSUME NEW b \in Actors PROVE ActorOK(b)'
  <2>1. CASE b = a
    BY <2>1
  <2>2. CASE b # a
    BY <1>3, <2>2, StillOK DEF IdentityInv, IdentityTypeOK, tables, Goto, Facts, Devices
  <2> QED BY <2>1, <2>2
<1> QED BY <1>1, <1>2, <1>3 DEF IdentityInv

LEMMA IdentityInvInit == IdentityInit => IdentityInv
BY DEF IdentityInit, IdentityInv, IdentityTypeOK, ObservedIsFact, ActorOK, Facts, Devices,
       Statements, NoJob, Jobs, Kinds, WritePlaces, ObservePlaces

-----------------------------------------------------------------------------
(* Steps that leave the tables alone.                                      *)

LEMMA BeginKeeps ==
  ASSUME IdentityInv, NEW a \in Actors, NEW j \in JobsOf[a],
         NEW reporter \in Devices \cup {0}, Begin(a, j, reporter)
  PROVE  IdentityInv'
<1> DEFINE d == IF j.kind = "interface" THEN reporter ELSE 0
<1>1. j \in Jobs
  BY DeviceIdentityAssumption
<1>2. FirstPlace(j) \in Statements /\ d \in Devices \cup {0}
  BY <1>1 DEF FirstPlace, Statements
<1>3. /\ at'[a] = FirstPlace(j) /\ job'[a] = j /\ dev'[a] = d
      /\ UNCHANGED tables
      /\ begun' \in Nat /\ faults' \in Nat
      /\ stamp' \in [Actors -> Nat] /\ lastStamp' \in Nat
  BY DEF IdentityInv, IdentityTypeOK, Begin, Goto, tables, stamps
<1>4. j.kind = "interface" => d \in Devices
  BY DEF Begin
<1>5. ActorOK(a)'
  <2>1. /\ j.kind \in Kinds /\ j.mac \in Macs \cup {NoAddr} /\ j.ip \in Ips \cup {NoAddr}
        /\ j.kind = "arp" => j.mac \in Macs /\ j.ip \in Ips
        /\ j.kind = "interface" => j.mac \in Macs
    BY <1>1, DeviceIdentityAssumption DEF Jobs
  <2>2. Devices' = Devices
    BY <1>3 DEF tables, Devices
  <2> QED BY <1>3, <1>4, <2>1, <2>2, DeviceIdentityAssumption
          DEF ActorOK, FirstPlace, Kinds, WritePlaces, ObservePlaces
<1>6. /\ Goto(a, FirstPlace(j))
      /\ job' = [job EXCEPT ![a] = j]
      /\ dev' = [dev EXCEPT ![a] = d]
      /\ self' = [self EXCEPT ![a] = reporter]
  BY DEF Begin
<1> HIDE DEF d
<1> QED BY <1>1, <1>2, <1>3, <1>5, <1>6, MoveKeeps

\* A lookup answers with a device, or with 0.
LEMMA OwnerIsDevice ==
  ASSUME IdentityTypeOK, NEW addr
  PROVE  Owner(addr) \in Devices \cup {0}
<1>1. RowsOf(addr) \in SUBSET AddressRows /\ \A r \in RowsOf(addr) : r.device \in Devices
  BY DEF IdentityTypeOK, RowsOf
<1> QED BY <1>1, OldestIsLeast DEF Owner

\* A statement that changes neither the tables nor the job.
LEMMA TurnKeeps ==
  ASSUME IdentityInv, NEW a \in Actors, NEW place \in Statements, Goto(a, place),
         UNCHANGED <<tables, job, self, begun>>, faults' \in Nat,
         stamp' \in [Actors -> Nat], lastStamp' \in Nat,
         NEW d \in Devices \cup {0}, dev' = [dev EXCEPT ![a] = d],
         ActorOK(a)'
  PROVE  IdentityInv'
<1>1. /\ job[a] \in Jobs /\ job' = [job EXCEPT ![a] = job[a]]
      /\ self[a] \in Devices \cup {0} /\ self' = [self EXCEPT ![a] = self[a]]
      /\ begun' \in Nat
  BY DEF IdentityInv, IdentityTypeOK
<1> QED BY <1>1, MoveKeeps

LEMMA LookupKeeps ==
  ASSUME IdentityInv, NEW a \in Actors,
         NEW place \in {"byMac", "byIp"}, NEW addr, Lookup(a, place, addr)
  PROVE  IdentityInv'
<1> DEFINE d == Owner(addr)
           next == IF d = 0 THEN AfterMiss(job[a], place) ELSE AfterFound(a, d)
<1>1. d \in Devices \cup {0}
  BY OwnerIsDevice DEF IdentityInv
<1>2. /\ Goto(a, next) /\ dev' = [dev EXCEPT ![a] = d] /\ at[a] = place
      /\ UNCHANGED <<tables, job, self, begun, faults>>
      /\ stamp' = stamp /\ lastStamp' = lastStamp
  BY DEF Lookup, stamps
<1>3. /\ job[a] \in Jobs /\ faults' \in Nat
      /\ stamp' \in [Actors -> Nat] /\ lastStamp' \in Nat
      /\ at'[a] = next /\ dev'[a] = d /\ Devices' = Devices /\ job'[a] = job[a]
  BY <1>2 DEF IdentityInv, IdentityTypeOK, Goto, Devices, tables
<1>4. next \in Statements
  BY DEF AfterMiss, AfterFound, FirstWrite, Statements
<1>5. ActorOK(a)'
  <2>1. d # 0 => d \in Devices
    BY <1>1
  <2>2. /\ job[a].mac # NoAddr => job[a].mac \in Macs
        /\ job[a].ip # NoAddr => job[a].ip \in Ips
        /\ job[a].kind \in {"arp", "interface"} => job[a].mac \in Macs
        /\ job[a].kind = "arp" => job[a].ip \in Ips
    BY <1>2, <1>3 DEF IdentityInv, ActorOK, Jobs
  <2>3. /\ next \notin ObservePlaces \cup {"byMac", "linkMac"}
        /\ next = "byIp" => job[a].ip # NoAddr
        /\ next = "writeMac" => d # 0 /\ job[a].mac # NoAddr
        /\ next = "writeIp" => d # 0 /\ job[a].ip # NoAddr /\ job[a].kind = "import"
    BY DEF AfterMiss, AfterFound, FirstWrite, ObservePlaces
  <2> HIDE DEF next, d
  <2> QED BY <1>3, <2>1, <2>2, <2>3 DEF ActorOK, WritePlaces, ObservePlaces
<1> HIDE DEF next, d
<1> QED BY <1>1, <1>2, <1>3, <1>4, <1>5, TurnKeeps

\* A failed statement or a crash.
LEMMA FaultKeeps ==
  ASSUME IdentityInv, NEW a \in Actors,
         LookupFailed(a) \/ CreateFailed(a) \/ WriteFailed(a) \/ Abandon(a)
  PROVE  IdentityInv'
<1>1. /\ UNCHANGED <<tables, job, self, dev, begun>> /\ faults' \in Nat
      /\ dev[a] \in Devices \cup {0} /\ dev' = [dev EXCEPT ![a] = dev[a]]
      /\ job[a] \in Jobs
      /\ stamp' \in [Actors -> Nat] /\ lastStamp' \in Nat
  BY DEF IdentityInv, IdentityTypeOK, LookupFailed, CreateFailed, WriteFailed, Abandon, Fault, stamps
<1>2. CASE Goto(a, "idle")
  <2>1. ActorOK(a)'
    BY <1>2 DEF IdentityInv, IdentityTypeOK, Goto, ActorOK, WritePlaces, ObservePlaces
  <2>2. "idle" \in Statements
    BY DEF Statements
  <2> QED BY <1>1, <1>2, <2>1, <2>2, TurnKeeps
<1>3. CASE LookupFailed(a) /\ job[a].kind # "arp"
  <2> DEFINE next == AfterMiss(job[a], at[a])
  <2>1. Goto(a, next) /\ next \in Statements /\ next \in {"byIp", "create"}
    BY <1>3 DEF LookupFailed, AfterMiss, Statements
  <2>2. next = "byIp" => job[a].ip \in Ips
    BY <1>1 DEF AfterMiss, Jobs
  <2> HIDE DEF next
  <2>3. ActorOK(a)'
    <3>1. at'[a] = next /\ job'[a] = job[a] /\ dev'[a] = dev[a]
      BY <1>1, <2>1 DEF IdentityInv, IdentityTypeOK, Goto
    <3>2. job[a].kind = "interface" => job[a].mac \in Macs
      BY <1>3 DEF IdentityInv, ActorOK, LookupFailed
    <3> QED BY <1>3, <2>1, <2>2, <3>1, <3>2 DEF ActorOK, WritePlaces, ObservePlaces
  <2> QED BY <1>1, <2>1, <2>3, TurnKeeps
<1>4. CASE WriteFailed(a) /\ job[a].kind = "interface"
  <2>1. Goto(a, "linkMac") /\ at[a] \in {"writeMac", "writeIp"}
    BY <1>4 DEF WriteFailed
  <2>2. dev[a] \in Devices /\ Devices' = Devices
    BY <1>1, <2>1 DEF IdentityInv, ActorOK, WritePlaces, tables, Devices
  <2>3. job[a].mac \in Macs
    BY <1>4, <2>1 DEF IdentityInv, ActorOK
  <2>4. ActorOK(a)'
    <3>1. at'[a] = "linkMac" /\ job'[a] = job[a] /\ dev'[a] = dev[a]
      BY <1>1, <2>1 DEF IdentityInv, IdentityTypeOK, Goto
    <3> QED BY <1>4, <2>2, <2>3, <3>1 DEF ActorOK, WritePlaces, ObservePlaces
  <2>5. "linkMac" \in Statements
    BY DEF Statements
  <2> QED BY <1>1, <2>1, <2>4, <2>5, TurnKeeps
<1> QED BY <1>2, <1>3, <1>4 DEF LookupFailed, CreateFailed, WriteFailed, Abandon

\* An INSERT that begins changes no table and moves no actor.
LEMMA InsertBeginsKeeps ==
  ASSUME IdentityInv, NEW a \in Actors, InsertBegins(a)
  PROVE  IdentityInv'
<1>1. UNCHANGED <<tables, actor, begun, faults>> /\ stamp' \in [Actors -> Nat] /\ lastStamp' \in Nat
  BY DEF IdentityInv, IdentityTypeOK, InsertBegins
<1>2. Devices' = Devices /\ Facts' = Facts
  BY <1>1 DEF tables, Devices, Facts
<1>3. IdentityTypeOK' /\ ObservedIsFact'
  BY <1>1, <1>2 DEF IdentityInv, IdentityTypeOK, ObservedIsFact, tables, actor
<1>4. \A b \in Actors : ActorOK(b)'
  BY <1>1, <1>2, StillOK DEF IdentityInv, actor
<1> QED BY <1>3, <1>4 DEF IdentityInv

-----------------------------------------------------------------------------
(* Steps that write.                                                       *)

\* What an actor that writes needs; the tables it leaves are given.
LEMMA TablesGrow ==
  ASSUME IdentityInv, NEW a \in Actors, NEW place \in Statements, Goto(a, place),
         UNCHANGED <<job, self, begun, faults>>,
         NEW d \in Devices', dev' = [dev EXCEPT ![a] = d],
         origin' \in Seq(Jobs), Devices \subseteq Devices',
         rows' \subseteq AddressRows, Facts \subseteq Facts',
         \A r \in rows' : r.device \in Devices',
         observed' \subseteq Attachments, observed' \subseteq Facts',
         stamp' \in [Actors -> Nat], lastStamp' \in Nat,
         ActorOK(a)'
  PROVE  IdentityInv'
<1>1. IdentityTypeOK'
  <2>1. /\ \A b \in Actors : self[b] \in Devices' \cup {0}
        /\ \A b \in Actors : dev'[b] \in Devices' \cup {0}
    BY DEF IdentityInv, IdentityTypeOK
  <2>2. d \in Nat
    BY DEF Devices
  <2> QED BY <2>1, <2>2 DEF IdentityInv, IdentityTypeOK, Goto
<1>2. ASSUME NEW b \in Actors PROVE ActorOK(b)'
  <2>1. CASE b = a
    BY <2>1
  <2>2. CASE b # a
    BY <1>2, <2>2, StillOK DEF IdentityInv, IdentityTypeOK, Goto
  <2> QED BY <2>1, <2>2
<1> QED BY <1>1, <1>2 DEF IdentityInv, ObservedIsFact

LEMMA CreateKeeps ==
  ASSUME IdentityInv, NEW a \in Actors, Create(a)
  PROVE  IdentityInv'
<1> DEFINE d == Len(origin) + 1
           next == FirstWrite(job[a])
<1>1. /\ origin' = Append(origin, job[a]) /\ dev' = [dev EXCEPT ![a] = d]
      /\ Goto(a, next) /\ at[a] = "create"
      /\ UNCHANGED <<rows, observed, job, self, begun, faults, stamp, lastStamp>>
  BY DEF Create, stamps
<1>2. /\ origin \in Seq(Jobs) /\ rows \subseteq AddressRows /\ observed \subseteq Attachments
      /\ observed \subseteq Facts /\ job[a] \in Jobs
      /\ at'[a] = next /\ dev'[a] = d
      /\ stamp' \in [Actors -> Nat] /\ lastStamp' \in Nat
      /\ \A r \in rows : r.device \in Devices
  BY <1>1 DEF IdentityInv, IdentityTypeOK, ObservedIsFact, Goto
<1>3. /\ origin' \in Seq(Jobs) /\ Len(origin') = Len(origin) + 1
      /\ Len(origin) \in Nat
  BY <1>1, <1>2
<1>4. Devices \subseteq Devices' /\ d \in Devices'
  BY <1>3 DEF Devices
<1>5. Facts' = Facts
  BY <1>1 DEF Facts
<1>6. /\ next \in {"writeMac", "writeIp", "idle"}
      /\ next = "writeMac" => job[a].mac \in Macs
      /\ next = "writeIp" => job[a].ip \in Ips /\ job[a].kind = "import"
  BY <1>2 DEF FirstWrite, Jobs
<1> HIDE DEF d, next
<1>7. ActorOK(a)'
  BY <1>1, <1>2, <1>4, <1>6 DEF IdentityInv, ActorOK, WritePlaces, ObservePlaces
<1>8. next \in Statements
  BY <1>6 DEF Statements
<1> QED BY <1>1, <1>2, <1>3, <1>4, <1>5, <1>7, <1>8, TablesGrow

\* The row a write adds.
LEMMA WriteGrows ==
  ASSUME IdentityTypeOK, NEW d \in Devices, NEW addr \in Macs \cup Ips, UNCHANGED origin,
         NEW c \in Nat, c # 0 \/ [device |-> d, addr |-> addr] \in Facts,
         rows' = Upsert(d, addr, c)
  PROVE  /\ rows' \subseteq AddressRows
         /\ Facts \subseteq Facts'
         /\ [device |-> d, addr |-> addr] \in Facts'
         /\ \A r \in rows' : r.device \in Devices
<1> DEFINE t == Upsert(d, addr, c)
<1>1. d \in Nat \ {0} /\ rows \subseteq AddressRows /\ \A r \in rows : r.device \in Devices
  BY DEF IdentityTypeOK, Devices
<1>2. /\ t \subseteq AddressRows
      /\ \A r \in t : r \in rows \/ r = [device |-> d, addr |-> addr, created |-> c]
      /\ {[device |-> r.device, addr |-> r.addr] : r \in t} = Facts \cup {[device |-> d, addr |-> addr]}
  BY <1>1, UpsertAdds
<1>3. rows' = t
  OBVIOUS
<1> HIDE DEF t
<1>4. Facts' = Facts \cup {[device |-> d, addr |-> addr]}
  BY <1>2, <1>3 DEF Facts
<1> QED BY <1>1, <1>2, <1>3, <1>4

LEMMA WriteRowKeeps ==
  ASSUME IdentityInv, NEW a \in Actors, NEW place \in WritePlaces, NEW addr \in Macs \cup Ips,
         place = "writeIp" => addr = job[a].ip,
         place # "writeIp" => addr = job[a].mac,
         WriteRow(a, place, addr)
  PROVE  IdentityInv'
<1> DEFINE d == dev[a]
           next == AfterWrite(job[a], place)
<1>1. /\ Goto(a, next) /\ at[a] = place /\ rows' = Upsert(d, addr, stamp[a])
      /\ stamp[a] # 0 \/ [device |-> d, addr |-> addr] \in Facts
      /\ stamp' = [stamp EXCEPT ![a] = 0]
      /\ UNCHANGED <<origin, observed, job, self, dev, begun, faults, lastStamp>>
  BY DEF WriteRow
<1>2. d \in Devices /\ IdentityTypeOK /\ stamp[a] \in Nat
      /\ stamp' \in [Actors -> Nat] /\ lastStamp' \in Nat
  BY <1>1 DEF IdentityInv, IdentityTypeOK, ActorOK
<1>3. /\ rows' \subseteq AddressRows
      /\ Facts \subseteq Facts'
      /\ [device |-> d, addr |-> addr] \in Facts'
      /\ \A r \in rows' : r.device \in Devices
  BY <1>1, <1>2, WriteGrows
<1>4. /\ Devices' = Devices /\ origin' \in Seq(Jobs)
      /\ observed' \subseteq Attachments /\ observed' \subseteq Facts'
  BY <1>1, <1>3 DEF IdentityInv, IdentityTypeOK, ObservedIsFact, Devices
<1>5. /\ dev' = [dev EXCEPT ![a] = d]
      /\ at'[a] = next /\ dev'[a] = d /\ job'[a] = job[a] /\ job[a] \in Jobs
  BY <1>1 DEF IdentityInv, IdentityTypeOK, Goto
<1>6. /\ next \in {"writeIp", "observeMac", "linkMac", "idle"}
      /\ next = "writeIp" => place = "writeMac" /\ job[a].kind = "arp"
      /\ next = "observeMac" => place = "writeIp" /\ job[a].kind = "arp"
      /\ next = "linkMac" => job[a].kind = "interface"
  BY Zenon DEF AfterWrite
<1>7. ActorOK(a)'
  <2>1. /\ job[a].kind \in {"arp", "interface"} => job[a].mac \in Macs
        /\ job[a].kind = "arp" => job[a].ip \in Ips
        /\ place = "writeIp" /\ job[a].kind = "arp" =>
             [device |-> d, addr |-> job[a].mac] \in Facts
    BY <1>1 DEF IdentityInv, ActorOK, WritePlaces
  <2> HIDE DEF d, next
  <2>2. next = "writeIp" => [device |-> d, addr |-> job[a].mac] \in Facts'
    BY <1>3, <1>6
  <2>3. next = "observeMac" =>
          /\ [device |-> d, addr |-> job[a].mac] \in Facts'
          /\ [device |-> d, addr |-> job[a].ip] \in Facts'
    BY <1>3, <1>6, <2>1
  <2> QED BY <1>2, <1>4, <1>5, <1>6, <2>1, <2>2, <2>3 DEF ActorOK, WritePlaces, ObservePlaces
<1>8. next \in Statements
  BY <1>6 DEF Statements
<1> HIDE DEF d, next
<1> QED BY <1>1, <1>2, <1>3, <1>4, <1>5, <1>7, <1>8, TablesGrow

LEMMA ObserveKeeps ==
  ASSUME IdentityInv, NEW a \in Actors, ObserveMAC(a) \/ ObserveIP(a)
  PROVE  IdentityInv'
<1> DEFINE d == dev[a]
<1>1. PICK addr \in Macs \cup Ips, next \in {"observeIp", "idle"} :
        /\ at[a] \in ObservePlaces
        /\ observed' = observed \cup {[device |-> d, addr |-> addr]}
        /\ [device |-> d, addr |-> addr] \in Facts
        /\ Goto(a, next)
        /\ UNCHANGED <<origin, rows, job, self, dev, begun, faults, stamp, lastStamp>>
  <2>1. CASE ObserveMAC(a)
    <3>1. /\ job[a].mac \in Macs /\ [device |-> d, addr |-> job[a].mac] \in Facts
          /\ at[a] \in ObservePlaces
      BY <2>1 DEF ObserveMAC, Observe, IdentityInv, ActorOK, ObservePlaces
    <3> QED BY <2>1, <3>1 DEF ObserveMAC, Observe, stamps
  <2>2. CASE ObserveIP(a)
    <3>1. /\ job[a].ip \in Ips /\ [device |-> d, addr |-> job[a].ip] \in Facts
          /\ at[a] \in ObservePlaces
      BY <2>2 DEF ObserveIP, Observe, IdentityInv, ActorOK, ObservePlaces
    <3> QED BY <2>2, <3>1 DEF ObserveIP, Observe, stamps
  <2> QED BY <2>1, <2>2
<1>2. d \in Devices /\ IdentityTypeOK
  BY <1>1 DEF IdentityInv, ActorOK
<1>3. /\ Devices' = Devices /\ Facts' = Facts
      /\ origin' \in Seq(Jobs) /\ rows' \subseteq AddressRows
      /\ \A r \in rows' : r.device \in Devices'
      /\ stamp' \in [Actors -> Nat] /\ lastStamp' \in Nat
  BY <1>1, <1>2 DEF IdentityTypeOK, Devices, Facts
<1>4. observed' \subseteq Attachments /\ observed' \subseteq Facts'
  <2>1. [device |-> d, addr |-> addr] \in Attachments
    BY <1>2 DEF Attachments, Devices, IdentityTypeOK
  <2> QED BY <1>1, <1>3, <2>1 DEF IdentityInv, IdentityTypeOK, ObservedIsFact
<1>5. /\ dev' = [dev EXCEPT ![a] = d]
      /\ at'[a] = next /\ dev'[a] = d /\ job'[a] = job[a]
  BY <1>1 DEF IdentityInv, IdentityTypeOK, Goto
<1>6. ActorOK(a)'
  BY <1>1, <1>3, <1>5 DEF IdentityInv, ActorOK, WritePlaces, ObservePlaces
<1>7. next \in Statements
  BY DEF Statements
<1> HIDE DEF d
<1> QED BY <1>1, <1>2, <1>3, <1>4, <1>5, <1>6, <1>7, TablesGrow

-----------------------------------------------------------------------------
(* The theorems.                                                           *)

LEMMA IdentityInvStep == IdentityInv /\ [IdentityNext]_identityVars => IdentityInv'
<1> SUFFICES ASSUME IdentityInv, [IdentityNext]_identityVars PROVE IdentityInv'
  OBVIOUS
<1>1. CASE UNCHANGED identityVars
  BY <1>1 DEF identityVars, tables, actor, stamps, IdentityInv, IdentityTypeOK, ObservedIsFact,
              ActorOK, Facts, Devices
<1>2. ASSUME NEW a \in Actors, Step(a) PROVE IdentityInv'
  <2>1. ASSUME NEW j \in JobsOf[a], NEW reporter \in Devices \cup {0}, Begin(a, j, reporter)
        PROVE  IdentityInv'
    BY <1>2, <2>1, BeginKeeps
  <2>2. CASE FindByMAC(a)
    BY <1>2, <2>2, LookupKeeps DEF FindByMAC
  <2>3. CASE FindByIP(a)
    BY <1>2, <2>3, LookupKeeps DEF FindByIP
  <2>4. CASE Create(a)
    BY <1>2, <2>4, CreateKeeps
  <2>5. CASE WriteMAC(a)
    <3>1. job[a].mac \in Macs /\ "writeMac" \in WritePlaces
      BY <2>5 DEF IdentityInv, ActorOK, WriteMAC, WriteRow, WritePlaces
    <3> QED BY <1>2, <2>5, <3>1, WriteRowKeeps DEF WriteMAC
  <2>6. CASE WriteIP(a)
    <3>1. job[a].ip \in Ips /\ "writeIp" \in WritePlaces
      BY <2>6 DEF IdentityInv, ActorOK, WriteIP, WriteRow, WritePlaces
    <3> QED BY <1>2, <2>6, <3>1, WriteRowKeeps DEF WriteIP
  <2>7. CASE WriteInterfaceMAC(a)
    <3>1. job[a].mac \in Macs /\ "linkMac" \in WritePlaces
      BY <2>7 DEF IdentityInv, ActorOK, WriteInterfaceMAC, WriteRow, WritePlaces
    <3> QED BY <1>2, <2>7, <3>1, WriteRowKeeps DEF WriteInterfaceMAC
  <2>8. CASE ObserveMAC(a) \/ ObserveIP(a)
    BY <1>2, <2>8, ObserveKeeps
  <2>9. CASE LookupFailed(a) \/ CreateFailed(a) \/ WriteFailed(a) \/ Abandon(a)
    BY <1>2, <2>9, FaultKeeps
  <2>10. CASE InsertBegins(a)
    BY <1>2, <2>10, InsertBeginsKeeps
  <2> QED BY <1>2, <2>1, <2>2, <2>3, <2>4, <2>5, <2>6, <2>7, <2>8, <2>9, <2>10 DEF Step
<1> QED BY <1>1, <1>2 DEF IdentityNext

LEMMA IdentityInvHolds == IdentitySpec => []IdentityInv
BY IdentityInvInit, IdentityInvStep, PTL DEF IdentitySpec

\* Every variable keeps its type, and every row belongs to a device.
THEOREM IdentityTypeCorrect == IdentitySpec => []IdentityTypeOK
<1>1. IdentityInv => IdentityTypeOK
  BY DEF IdentityInv
<1> QED BY IdentityInvHolds, <1>1, PTL

\* No observation of an address is recorded for a device that does not have
\* it, whichever statement of a scrape fails and whoever writes meanwhile.
THEOREM ObservationsAreFacts == IdentitySpec => []ObservedIsFact
<1>1. IdentityInv => ObservedIsFact
  BY DEF IdentityInv
<1> QED BY IdentityInvHolds, <1>1, PTL

-----------------------------------------------------------------------------
(* The order of the rows.                                                  *)

\* created_at values are taken once each, and only by an INSERT.
StampsInv ==
  /\ \A r \in rows : r.created <= lastStamp
  /\ \A a \in Actors : stamp[a] <= lastStamp
  /\ \A a \in Actors : stamp[a] # 0 => at[a] \in WritePlaces
  /\ \A a, b \in Actors : stamp[a] # 0 /\ stamp[a] = stamp[b] => a = b
  /\ \A a \in Actors, r \in rows : r.created # stamp[a]
  /\ \A r, q \in rows : r.created = q.created => r = q

\* The four things a step of a may do with rows and stamps.
Idles(a) ==
  /\ at[a] \notin WritePlaces
  /\ rows' = rows /\ stamp' = stamp /\ lastStamp' = lastStamp
Stamps(a) ==
  /\ at[a] \in WritePlaces /\ at' = at /\ job' = job
  /\ rows' = rows /\ stamp' = [stamp EXCEPT ![a] = lastStamp + 1] /\ lastStamp' = lastStamp + 1
Drops(a) ==
  /\ rows' = rows /\ stamp' = [stamp EXCEPT ![a] = 0] /\ lastStamp' = lastStamp
Adds(a) ==
  /\ stamp[a] # 0
  /\ rows' = rows \cup {[device |-> dev[a], addr |-> Target(a), created |-> stamp[a]]}
  /\ stamp' = [stamp EXCEPT ![a] = 0] /\ lastStamp' = lastStamp

LEMMA RowStep ==
  ASSUME IdentityInv, NEW a \in Actors, Step(a)
  PROVE  Idles(a) \/ Stamps(a) \/ Drops(a) \/ Adds(a)
<1>1. CASE InsertBegins(a)
  BY <1>1 DEF InsertBegins, Stamps, WritePlaces, tables, actor
<1>2. CASE WriteFailed(a) \/ Abandon(a)
  BY <1>2 DEF WriteFailed, Abandon, Drops, tables
<1>3. CASE WriteMAC(a) \/ WriteIP(a) \/ WriteInterfaceMAC(a)
  <2>1. /\ rows' = Upsert(dev[a], Target(a), stamp[a])
        /\ stamp[a] # 0 \/ [device |-> dev[a], addr |-> Target(a)] \in Facts
        /\ stamp' = [stamp EXCEPT ![a] = 0] /\ lastStamp' = lastStamp
    BY <1>3 DEF WriteMAC, WriteIP, WriteInterfaceMAC, WriteRow, Target
  <2> QED BY <2>1 DEF Upsert, Drops, Adds
<1>4. CASE \/ \E j \in JobsOf[a], reporter \in Devices \cup {0} : Begin(a, j, reporter)
           \/ FindByMAC(a) \/ FindByIP(a) \/ LookupFailed(a) \/ Create(a) \/ CreateFailed(a)
           \/ ObserveMAC(a) \/ ObserveIP(a)
  BY <1>4 DEF Begin, FindByMAC, FindByIP, Lookup, LookupFailed, Create, CreateFailed,
              ObserveMAC, ObserveIP, Observe, Idles, WritePlaces, tables, stamps
<1> QED BY <1>1, <1>2, <1>3, <1>4 DEF Step

\* A step moves one actor.
LEMMA OthersStay ==
  ASSUME IdentityTypeOK, NEW a \in Actors, Step(a), NEW b \in Actors, b # a
  PROVE  at'[b] = at[b] /\ job'[b] = job[b] /\ dev'[b] = dev[b]
BY DEF IdentityTypeOK, Step, Begin, FindByMAC, FindByIP, Lookup, LookupFailed, Create, CreateFailed,
       InsertBegins, actor, WriteMAC, WriteIP, WriteInterfaceMAC, WriteRow, WriteFailed, ObserveMAC,
       ObserveIP, Observe, Abandon, Goto

LEMMA StampsStep ==
  ASSUME IdentityInv, StampsInv, NEW a \in Actors, Step(a)
  PROVE  StampsInv'
<1>1. /\ stamp \in [Actors -> Nat] /\ lastStamp \in Nat
      /\ \A r \in rows : r.created \in Nat \ {0}
  BY DEF IdentityInv, IdentityTypeOK, AddressRows
<1>2. \A b \in Actors : b # a => at'[b] = at[b]
  BY OthersStay DEF IdentityInv
<1>3. CASE Idles(a)
  <2>1. stamp[a] = 0
    BY <1>3 DEF Idles, StampsInv
  <2>2. \A b \in Actors : stamp'[b] # 0 => at'[b] \in WritePlaces
    BY <1>2, <1>3, <2>1 DEF Idles, StampsInv
  <2> QED BY <1>3, <2>2 DEF Idles, StampsInv
<1>4. CASE Stamps(a)
  <2>1. /\ rows' = rows /\ lastStamp' = lastStamp + 1 /\ at' = at /\ at[a] \in WritePlaces
        /\ stamp'[a] = lastStamp + 1 /\ \A b \in Actors : b # a => stamp'[b] = stamp[b]
    BY <1>1, <1>4 DEF Stamps
  <2> QED BY <1>1, <2>1 DEF StampsInv
<1>5. CASE Drops(a)
  <2>1. /\ rows' = rows /\ lastStamp' = lastStamp
        /\ stamp'[a] = 0 /\ \A b \in Actors : b # a => stamp'[b] = stamp[b]
    BY <1>1, <1>5 DEF Drops
  <2> QED BY <1>1, <1>2, <2>1 DEF StampsInv
<1>6. CASE Adds(a)
  <2> DEFINE row == [device |-> dev[a], addr |-> Target(a), created |-> stamp[a]]
  <2>1. /\ rows' = rows \cup {row} /\ lastStamp' = lastStamp /\ stamp[a] # 0
        /\ stamp'[a] = 0 /\ \A b \in Actors : b # a => stamp'[b] = stamp[b]
    BY <1>1, <1>6 DEF Adds
  <2>2. row.created = stamp[a]
    OBVIOUS
  <2> HIDE DEF row
  <2> QED BY <1>1, <1>2, <2>1, <2>2 DEF StampsInv
<1> QED BY <1>3, <1>4, <1>5, <1>6, RowStep

LEMMA StampsHold == IdentitySpec => []StampsInv
<1>1. IdentityInit => StampsInv
  BY DEF IdentityInit, StampsInv
<1>2. IdentityInv /\ StampsInv /\ [IdentityNext]_identityVars => StampsInv'
  <2> SUFFICES ASSUME IdentityInv, StampsInv, [IdentityNext]_identityVars PROVE StampsInv'
    OBVIOUS
  <2>1. CASE UNCHANGED identityVars
    BY <2>1 DEF identityVars, tables, actor, stamps, StampsInv
  <2>2. CASE IdentityNext
    BY <2>2, StampsStep DEF IdentityNext
  <2> QED BY <2>1, <2>2
<1> QED BY <1>1, <1>2, IdentityInvHolds, PTL DEF IdentitySpec

\* With one row for each created_at there is only one oldest row.
LEMMA OldestIs ==
  ASSUME NEW R \in SUBSET AddressRows, \A r, q \in R : r.created = q.created => r = q,
         NEW o \in R, \A q \in R : o.created <= q.created
  PROVE  Oldest(R) = o
<1>1. Oldest(R) \in R /\ \A q \in R : Oldest(R).created <= q.created
  BY OldestIsLeast
<1>2. Oldest(R).created = o.created
  BY <1>1 DEF AddressRows
<1> QED BY <1>1, <1>2

LEMMA SettledStep ==
  ASSUME IdentityInv, StampsInv, IdentityInv', StampsInv', NEW a \in Actors, Step(a),
         NEW addr \in Macs \cup Ips, Settled(addr)
  PROVE  Settled(addr)' /\ Owner(addr)' = Owner(addr)
<1> DEFINE o == Oldest(RowsOf(addr))
<1>1. /\ stamp \in [Actors -> Nat] /\ lastStamp \in Nat /\ rows \subseteq AddressRows
      /\ rows' \subseteq AddressRows
  BY DEF IdentityInv, IdentityTypeOK
<1>2. RowsOf(addr) # {} /\ RowsOf(addr) \in SUBSET AddressRows
  BY <1>1 DEF Settled, Owner, RowsOf
<1>3. /\ o \in RowsOf(addr) /\ \A q \in RowsOf(addr) : o.created <= q.created
      /\ Owner(addr) = o.device /\ Owner(addr) # 0
  BY <1>2, OldestIsLeast DEF Owner, Settled
<1>4. \A b \in Actors : stamp[b] # 0 /\ Target(b) = addr => o.created < stamp[b]
  BY DEF Settled
<1> HIDE DEF o
<1>5. o \in rows /\ o.addr = addr /\ o.created \in Nat /\ o.created <= lastStamp
  BY <1>1, <1>3 DEF RowsOf, StampsInv, AddressRows
<1>6. o \in RowsOf(addr)' /\ \A q \in RowsOf(addr)' : o.created <= q.created
  <2>1. CASE rows' = rows
    BY <1>3, <2>1 DEF RowsOf
  <2>2. CASE Adds(a)
    <3> DEFINE row == [device |-> dev[a], addr |-> Target(a), created |-> stamp[a]]
    <3>1. rows' = rows \cup {row} /\ row.addr = Target(a) /\ row.created = stamp[a] /\ stamp[a] # 0
      BY <2>2 DEF Adds
    <3> HIDE DEF row
    <3>2. ASSUME row.addr = addr PROVE o.created <= row.created
      <4>1. Target(a) = addr /\ row.created = stamp[a]
        BY <3>1, <3>2
      <4>2. o.created < stamp[a]
        BY <1>4, <3>1, <4>1
      <4>3. stamp[a] \in Nat
        BY <1>1
      <4> QED BY <1>5, <4>1, <4>2, <4>3
    <3>3. \A q \in RowsOf(addr)' : q \in RowsOf(addr) \/ (q = row /\ row.addr = addr)
      BY <3>1 DEF RowsOf
    <3>4. o \in RowsOf(addr)'
      BY <1>5, <3>1 DEF RowsOf
    <3> QED BY <1>3, <3>2, <3>3, <3>4
  <2> QED BY <2>1, <2>2, RowStep DEF Idles, Stamps, Drops
<1>7. RowsOf(addr)' \in SUBSET AddressRows /\ RowsOf(addr)' \subseteq rows'
  BY <1>1 DEF RowsOf
<1>8. \A r, q \in RowsOf(addr)' : r.created = q.created => r = q
  BY <1>7 DEF StampsInv
<1>9. Oldest(RowsOf(addr)') = o
  <2> DEFINE R == RowsOf(addr)'
  <2>1. R \in SUBSET AddressRows /\ (\A r, q \in R : r.created = q.created => r = q) /\ o \in R
        /\ \A q \in R : o.created <= q.created
    BY <1>6, <1>7, <1>8
  <2> HIDE DEF R
  <2>2. Oldest(R) = o
    BY <2>1, OldestIs
  <2> QED BY <2>2 DEF R
<1>10. Oldest(RowsOf(addr))' = o
  BY <1>9 DEF Oldest
<1>11. Owner(addr)' = o.device
  BY <1>6, <1>10 DEF Owner
<1>12. ASSUME NEW b \in Actors, stamp'[b] # 0, Target(b)' = addr PROVE o.created < stamp'[b]
  <2>1. CASE Stamps(a) /\ b = a
    <3>1. stamp'[b] = lastStamp + 1
      BY <1>1, <2>1 DEF Stamps
    <3> QED BY <1>1, <1>5, <3>1
  <2>2. CASE Stamps(a) /\ b # a
    <3>1. stamp'[b] = stamp[b] /\ Target(b)' = Target(b)
      BY <1>1, <2>2 DEF Stamps, Target
    <3> QED BY <1>4, <1>12, <3>1
  <2>3. CASE ~Stamps(a)
    <3>1. b # a /\ stamp'[b] = stamp[b]
      BY <1>1, <1>12, <2>3, RowStep DEF Idles, Drops, Adds, StampsInv
    <3>2. Target(b)' = Target(b)
      BY <3>1, OthersStay DEF Target, IdentityInv
    <3> QED BY <1>4, <1>12, <3>1, <3>2
  <2> QED BY <2>1, <2>2, <2>3
<1>13. Settled(addr)'
  BY <1>3, <1>10, <1>11, <1>12 DEF Settled
<1> QED BY <1>3, <1>11, <1>13

\* Once an address resolves to a device and no INSERT in flight began before the row
\* that says so, it resolves to that device for ever, for any number of writers, however
\* they race, commit out of order and fail.
THEOREM OwnerIsStable == IdentitySpec => SettledOwner
<1>1. /\ IdentityInv /\ StampsInv /\ IdentityInv' /\ StampsInv' /\ [IdentityNext]_identityVars
      => [\A addr \in Macs \cup Ips :
            Settled(addr) => Settled(addr)' /\ Owner(addr)' = Owner(addr)]_identityVars
  <2> SUFFICES ASSUME IdentityInv, StampsInv, IdentityInv', StampsInv', IdentityNext,
                      NEW addr \in Macs \cup Ips, Settled(addr)
               PROVE  Settled(addr)' /\ Owner(addr)' = Owner(addr)
    OBVIOUS
  <2> QED BY SettledStep DEF IdentityNext
<1> QED BY IdentityInvHolds, StampsHold, <1>1, PTL DEF IdentitySpec, SettledOwner

-----------------------------------------------------------------------------
(* Counting.  A device that will be left without an address, and one that  *)
(* will share its MAC with another, has a fault or a writer of its own.    *)

\* The job under way is one of the actor's, and it has no device before it has
\* looked for one.
JobOK(a) ==
  /\ at[a] # "idle" => job[a] \in JobsOf[a]
  /\ at[a] \in {"byMac", "byIp", "create"} => dev[a] = 0 /\ job[a].kind # "interface"
  /\ at[a] = "linkMac" => job[a].kind = "interface"

JobInv == \A a \in Actors : JobOK(a)

Faulty(a) == LookupFailed(a) \/ CreateFailed(a) \/ WriteFailed(a) \/ Abandon(a)
Looking(a) == FindByMAC(a) \/ FindByIP(a)
Writing(a) == WriteMAC(a) \/ WriteIP(a) \/ WriteInterfaceMAC(a)
Observing(a) == ObserveMAC(a) \/ ObserveIP(a)
Beginning(a) == \E j \in JobsOf[a], reporter \in Devices \cup {0} : Begin(a, j, reporter)

LEMMA StepKinds ==
  ASSUME NEW a \in Actors, Step(a)
  PROVE  \/ Beginning(a) \/ Looking(a) \/ Create(a) \/ InsertBegins(a)
         \/ Writing(a) \/ Observing(a) \/ Faulty(a)
BY DEF Step, Beginning, Looking, Writing, Observing, Faulty

\* What a step does to its own actor.
LEMMA BeginningDoes ==
  ASSUME IdentityTypeOK, NEW a \in Actors, Beginning(a)
  PROVE  /\ at[a] = "idle" /\ Facts' = Facts /\ origin' = origin /\ faults' = faults
         /\ job'[a] \in JobsOf[a] /\ at'[a] = FirstPlace(job'[a])
         /\ job'[a].kind # "interface" => dev'[a] = 0
BY DEF IdentityTypeOK, Beginning, Begin, Goto, tables, Facts

LEMMA LookingDoes ==
  ASSUME IdentityTypeOK, NEW a \in Actors, Looking(a)
  PROVE  /\ at[a] \in {"byMac", "byIp"} /\ Facts' = Facts /\ origin' = origin /\ faults' = faults
         /\ job'[a] = job[a]
         /\ LET addr == IF at[a] = "byMac" THEN job[a].mac ELSE job[a].ip
            IN /\ dev'[a] = Owner(addr)
               /\ at'[a] = IF Owner(addr) = 0 THEN AfterMiss(job[a], at[a]) ELSE AfterFound(a, Owner(addr))
BY DEF IdentityTypeOK, Looking, FindByMAC, FindByIP, Lookup, Goto, tables, Facts

LEMMA CreateDoes ==
  ASSUME IdentityTypeOK, NEW a \in Actors, Create(a)
  PROVE  /\ at[a] = "create" /\ Facts' = Facts /\ origin' = Append(origin, job[a]) /\ faults' = faults
         /\ job'[a] = job[a] /\ dev'[a] = Len(origin) + 1 /\ at'[a] = FirstWrite(job[a])
BY DEF IdentityTypeOK, Create, Goto, Facts

LEMMA WritingDoes ==
  ASSUME IdentityInv, NEW a \in Actors, Writing(a)
  PROVE  /\ at[a] \in WritePlaces /\ origin' = origin /\ faults' = faults
         /\ job'[a] = job[a] /\ dev'[a] = dev[a] /\ at'[a] = AfterWrite(job[a], at[a])
         /\ at[a] = "writeIp" => Facts' = Facts \cup {[device |-> dev[a], addr |-> job[a].ip]}
         /\ at[a] # "writeIp" => Facts' = Facts \cup {[device |-> dev[a], addr |-> job[a].mac]}
<1> DEFINE addr == IF at[a] = "writeIp" THEN job[a].ip ELSE job[a].mac
           row == [device |-> dev[a], addr |-> addr]
<1>1. /\ at[a] \in WritePlaces /\ origin' = origin /\ faults' = faults
      /\ job'[a] = job[a] /\ dev'[a] = dev[a] /\ at'[a] = AfterWrite(job[a], at[a])
      /\ rows' = Upsert(dev[a], addr, stamp[a])
      /\ stamp[a] # 0 \/ row \in Facts
  <2>1. at \in [Actors -> Statements] /\ job \in [Actors -> Jobs] /\ dev \in [Actors -> Nat]
    BY DEF IdentityInv, IdentityTypeOK
  <2>2. CASE WriteMAC(a)
    BY <2>1, <2>2 DEF WriteMAC, WriteRow, WritePlaces, Goto
  <2>3. CASE WriteIP(a)
    BY <2>1, <2>3 DEF WriteIP, WriteRow, WritePlaces, Goto
  <2>4. CASE WriteInterfaceMAC(a)
    BY <2>1, <2>4 DEF WriteInterfaceMAC, WriteRow, WritePlaces, Goto
  <2> QED BY <2>2, <2>3, <2>4 DEF Writing
<1>2. /\ addr \in Macs \cup Ips /\ dev[a] \in Nat \ {0} /\ rows \subseteq AddressRows
      /\ stamp[a] \in Nat
  <2>1. dev[a] \in Devices /\ (at[a] = "writeIp" => job[a].ip \in Ips)
        /\ (at[a] # "writeIp" => job[a].mac \in Macs)
    BY <1>1, Zenon DEF IdentityInv, ActorOK, WritePlaces
  <2>2. origin \in Seq(Jobs) /\ rows \subseteq AddressRows /\ stamp[a] \in Nat
    BY DEF IdentityInv, IdentityTypeOK
  <2> QED BY <2>1, <2>2 DEF Devices
<1> DEFINE t == Upsert(dev[a], addr, stamp[a])
<1>3. {[device |-> r.device, addr |-> r.addr] : r \in t} = Facts \cup {row}
  BY <1>1, <1>2, UpsertAdds
<1>4. rows' = t
  BY <1>1
<1> HIDE DEF t, row, addr
<1>6. Facts' = Facts \cup {row}
  BY <1>3, <1>4 DEF Facts
<1> QED BY <1>1, <1>6 DEF row, addr

LEMMA InsertBeginsDoes ==
  ASSUME NEW a \in Actors, InsertBegins(a)
  PROVE  /\ Facts' = Facts /\ origin' = origin /\ faults' = faults
         /\ at' = at /\ job' = job /\ dev' = dev
BY DEF InsertBegins, tables, actor, Facts

LEMMA ObservingDoes ==
  ASSUME IdentityInv, NEW a \in Actors, Observing(a)
  PROVE  /\ at[a] \in ObservePlaces /\ Facts' = Facts /\ origin' = origin /\ faults' = faults
         /\ job'[a] = job[a] /\ dev'[a] = dev[a] /\ at'[a] \in {"observeIp", "idle"}
BY DEF IdentityInv, IdentityTypeOK, Observing, ObserveMAC, ObserveIP, Observe, ObservePlaces, Goto, Facts

LEMMA FaultyDoes ==
  ASSUME IdentityTypeOK, NEW a \in Actors, Faulty(a)
  PROVE  /\ Facts' = Facts /\ origin' = origin /\ faults' = faults + 1
         /\ at[a] # "idle" /\ job'[a] = job[a] /\ dev'[a] = dev[a]
         /\ \/ at'[a] = "idle"
            \/ at[a] \in {"byMac", "byIp"} /\ at'[a] = AfterMiss(job[a], at[a])
            \/ job[a].kind = "interface" /\ at'[a] = "linkMac"
BY DEF IdentityTypeOK, Faulty, LookupFailed, CreateFailed, WriteFailed, Abandon, Fault, Goto, tables, Facts

LEMMA JobStep ==
  ASSUME IdentityInv, JobInv, NEW a \in Actors, Step(a)
  PROVE  JobInv'
<1>0. IdentityTypeOK /\ JobOK(a)
  BY DEF IdentityInv, JobInv
<1>1. JobOK(a)'
  <2>1. CASE Beginning(a)
    <3>1. /\ job'[a] \in JobsOf[a] /\ at'[a] = FirstPlace(job'[a])
          /\ job'[a].kind # "interface" => dev'[a] = 0
      BY <1>0, <2>1, BeginningDoes
    <3>2. /\ FirstPlace(job'[a]) \in {"byMac", "byIp", "create"} => job'[a].kind # "interface"
          /\ FirstPlace(job'[a]) # "linkMac"
      BY Zenon DEF FirstPlace
    <3> QED BY <3>1, <3>2 DEF JobOK
  <2>2. CASE Looking(a)
    BY <1>0, <2>2, LookingDoes DEF JobOK, AfterMiss, AfterFound, FirstWrite
  <2>3. CASE Create(a)
    BY <1>0, <2>3, CreateDoes DEF JobOK, FirstWrite
  <2>4. CASE Writing(a)
    <3>1. /\ AfterWrite(job[a], at[a]) \in {"writeIp", "observeMac", "linkMac", "idle"}
          /\ AfterWrite(job[a], at[a]) = "linkMac" => job[a].kind = "interface"
      BY Zenon DEF AfterWrite
    <3> QED BY <1>0, <2>4, <3>1, WritingDoes DEF JobOK, WritePlaces
  <2>5. CASE Observing(a)
    BY <1>0, <2>5, ObservingDoes DEF JobOK, ObservePlaces
  <2>6. CASE Faulty(a)
    BY <1>0, <2>6, FaultyDoes DEF JobOK, AfterMiss
  <2>7. CASE InsertBegins(a)
    BY <1>0, <2>7, InsertBeginsDoes DEF JobOK
  <2> QED BY <2>1, <2>2, <2>3, <2>4, <2>5, <2>6, <2>7, StepKinds
<1>2. ASSUME NEW b \in Actors, b # a PROVE JobOK(b)'
  BY <1>0, <1>2, OthersStay DEF JobInv, JobOK
<1> QED BY <1>1, <1>2 DEF JobInv

LEMMA JobHolds == IdentitySpec => []JobInv
<1>1. IdentityInit => JobInv
  BY DEF IdentityInit, JobInv, JobOK
<1>2. IdentityInv /\ JobInv /\ [IdentityNext]_identityVars => JobInv'
  <2> SUFFICES ASSUME IdentityInv, JobInv, [IdentityNext]_identityVars PROVE JobInv'
    OBVIOUS
  <2>1. CASE UNCHANGED identityVars
    BY <2>1 DEF identityVars, actor, JobInv, JobOK
  <2>2. CASE IdentityNext
    BY <2>2, JobStep DEF IdentityNext
  <2> QED BY <2>1, <2>2
<1> QED BY <1>1, <1>2, IdentityInvHolds, PTL DEF IdentitySpec

LEMMA OrphansFinite ==
  ASSUME IdentityTypeOK
  PROVE  /\ IsFiniteSet(Devices)
         /\ \A S \in SUBSET Devices : IsFiniteSet(S) /\ Cardinality(S) \in Nat
<1>1. Len(origin) \in Int /\ 1 \in Int
  BY DEF IdentityTypeOK
<1>2. IsFiniteSet(Devices)
  BY <1>1, FS_Interval DEF Devices
<1> QED BY <1>2, FS_Subset, FS_CardinalityType

\* A device loses the last actor that could attach an address only by a fault.
LEMMA OrphanStep ==
  ASSUME IdentityInv, JobInv, NEW a \in Actors, Step(a)
  PROVE  \/ Orphans' \subseteq Orphans /\ faults' = faults
         \/ Orphans' \subseteq Orphans \cup {dev[a]} /\ faults' = faults + 1
<1>0. IdentityTypeOK /\ JobOK(a) /\ ActorOK(a)
  BY DEF IdentityInv, JobInv
<1>1. ASSUME Facts \subseteq Facts', origin' = origin, NEW d \in Orphans', d \notin Orphans
      PROVE  at[a] # "idle" /\ dev[a] = d /\ \A f \in Facts' : f.device # d
  <2>1. /\ d \in Devices /\ FirstWrite(origin[d]) # "idle"
        /\ \A f \in Facts' : f.device # d
        /\ \A b \in Actors : at'[b] = "idle" \/ dev'[b] # d
    BY <1>1 DEF Orphans, Devices
  <2>2. \A f \in Facts : f.device # d
    BY <1>1, <2>1
  <2>3. PICK b \in Actors : at[b] # "idle" /\ dev[b] = d
    BY <1>1, <2>1, <2>2 DEF Orphans
  <2>4. b = a
    BY <1>0, <2>1, <2>3, OthersStay
  <2> QED BY <2>1, <2>3, <2>4
<1>2. CASE Beginning(a)
  <2>1. at[a] = "idle" /\ Facts' = Facts /\ origin' = origin /\ faults' = faults
    BY <1>0, <1>2, BeginningDoes
  <2> QED BY <1>1, <2>1
<1>3. CASE Looking(a)
  <2>1. dev[a] = 0 /\ Facts' = Facts /\ origin' = origin /\ faults' = faults
    BY <1>0, <1>3, LookingDoes DEF JobOK
  <2>2. \A d \in Orphans' : d # 0
    BY <1>0, <2>1 DEF Orphans, Devices, IdentityTypeOK
  <2> QED BY <1>1, <2>1, <2>2
<1>4. CASE Create(a)
  <2>1. /\ dev[a] = 0 /\ Facts' = Facts /\ faults' = faults
        /\ origin' = Append(origin, job[a]) /\ dev'[a] = Len(origin) + 1 /\ at'[a] = FirstWrite(job[a])
    BY <1>0, <1>4, CreateDoes DEF JobOK
  <2>2. /\ origin \in Seq(Jobs) /\ job[a] \in Jobs /\ Len(origin) \in Nat
    BY <1>0 DEF IdentityTypeOK
  <2>3. /\ Len(origin') = Len(origin) + 1 /\ origin'[Len(origin) + 1] = job[a]
        /\ \A i \in 1 .. Len(origin) : origin'[i] = origin[i]
    BY <2>1, <2>2
  <2>4. ASSUME NEW d \in Orphans' PROVE d \in Orphans
    <3>1. /\ d \in 1 .. Len(origin) + 1 /\ FirstWrite(origin'[d]) # "idle"
          /\ \A f \in Facts : f.device # d
          /\ \A b \in Actors : at'[b] = "idle" \/ dev'[b] # d
      BY <2>1, <2>3, <2>4 DEF Orphans, Devices
    <3>2. d # Len(origin) + 1
      BY <2>1, <2>3, <3>1
    <3>3. d \in Devices /\ FirstWrite(origin[d]) # "idle" /\ d # 0
      BY <2>2, <2>3, <3>1, <3>2 DEF Devices
    <3>4. \A b \in Actors : at[b] = "idle" \/ dev[b] # d
      BY <1>0, <2>1, <3>1, <3>3, OthersStay
    <3> QED BY <3>1, <3>3, <3>4 DEF Orphans
  <2> QED BY <2>1, <2>4
<1>5. CASE Writing(a)
  <2>1. origin' = origin /\ faults' = faults
    BY <1>5, WritingDoes
  <2>2. \E addr : Facts' = Facts \cup {[device |-> dev[a], addr |-> addr]}
    BY <1>5, WritingDoes, Zenon
  <2>3. PICK addr : Facts' = Facts \cup {[device |-> dev[a], addr |-> addr]}
    BY <2>2
  <2>4. Facts \subseteq Facts' /\ [device |-> dev[a], addr |-> addr] \in Facts'
    BY <2>3, Zenon
  <2>5. [device |-> dev[a], addr |-> addr].device = dev[a]
    OBVIOUS
  <2>6. ~\A f \in Facts' : f.device # dev[a]
    BY <2>4, <2>5, Zenon
  <2> QED BY <1>1, <2>1, <2>4, <2>6
<1>6. CASE Observing(a)
  <2>1. /\ Facts' = Facts /\ origin' = origin /\ faults' = faults /\ at[a] \in ObservePlaces
    BY <1>6, ObservingDoes
  <2>2. \E f \in Facts' : f.device = dev[a]
    <3>1. [device |-> dev[a], addr |-> job[a].mac] \in Facts
      BY <1>0, <2>1, Zenon DEF ActorOK
    <3> QED BY <2>1, <3>1
  <2> QED BY <1>1, <2>1, <2>2
<1>7. CASE Faulty(a)
  <2>1. Facts' = Facts /\ origin' = origin /\ faults' = faults + 1
    BY <1>0, <1>7, FaultyDoes
  <2> QED BY <1>1, <2>1
<1>8. CASE InsertBegins(a)
  <2>1. /\ Facts' = Facts /\ origin' = origin /\ faults' = faults
        /\ at' = at /\ dev' = dev
    BY <1>8, InsertBeginsDoes
  <2> QED BY <2>1 DEF Orphans, Devices
<1> QED BY <1>2, <1>3, <1>4, <1>5, <1>6, <1>7, <1>8, StepKinds

LEMMA OrphansBoundedStep ==
  ASSUME IdentityInv, JobInv, OrphansBounded, [IdentityNext]_identityVars
  PROVE  OrphansBounded'
<1>1. IdentityTypeOK /\ IdentityTypeOK' /\ Orphans \in SUBSET Devices
  BY IdentityInvStep DEF IdentityInv, Orphans
<1>2. /\ IsFiniteSet(Orphans) /\ Cardinality(Orphans) \in Nat /\ faults \in Nat
      /\ Cardinality(Orphans) <= faults
  BY <1>1, OrphansFinite DEF OrphansBounded, IdentityTypeOK
<1>3. CASE UNCHANGED identityVars
  <2>1. Orphans' = Orphans /\ faults' = faults
    BY <1>3 DEF identityVars, tables, actor, Orphans, Facts, Devices
  <2> QED BY <1>2, <2>1 DEF OrphansBounded
<1>4. ASSUME NEW a \in Actors, Step(a) PROVE OrphansBounded'
  <2>1. CASE Orphans' \subseteq Orphans /\ faults' = faults
    <3>1. Cardinality(Orphans') \in Nat /\ Cardinality(Orphans') <= Cardinality(Orphans)
      BY <1>2, <2>1, FS_Subset, FS_CardinalityType
    <3> QED BY <1>2, <2>1, <3>1 DEF OrphansBounded
  <2>2. CASE Orphans' \subseteq Orphans \cup {dev[a]} /\ faults' = faults + 1
    <3> DEFINE more == Orphans \cup {dev[a]}
    <3>1. /\ IsFiniteSet(more)
          /\ Cardinality(more) = IF dev[a] \in Orphans THEN Cardinality(Orphans) ELSE Cardinality(Orphans) + 1
      BY <1>2, FS_AddElement, Zenon
    <3>2. Orphans' \subseteq more
      BY <2>2
    <3> HIDE DEF more
    <3>3. Cardinality(Orphans') \in Nat /\ Cardinality(Orphans') <= Cardinality(more)
      BY <3>1, <3>2, FS_Subset, FS_CardinalityType
    <3>4. Cardinality(Orphans') <= faults'
      BY <1>2, <2>2, <3>1, <3>3
    <3> QED BY <3>4 DEF OrphansBounded
  <2> QED BY <1>4, <2>1, <2>2, OrphanStep
<1> QED BY <1>3, <1>4 DEF IdentityNext

\* Devices that were created for an address and have none are no more than the faults
\* there were: nothing but a failed statement or a crash leaves one.
THEOREM OrphansNeedFaults == IdentitySpec => []OrphansBounded
<1>1. IdentityInit => OrphansBounded
  <2> SUFFICES ASSUME IdentityInit PROVE OrphansBounded
    OBVIOUS
  <2>1. Orphans = {} /\ faults = 0
    BY DEF IdentityInit, Orphans, Devices
  <2> QED BY <2>1, FS_EmptySet DEF OrphansBounded
<1>2. IdentityInv /\ JobInv /\ OrphansBounded /\ [IdentityNext]_identityVars => OrphansBounded'
  BY OrphansBoundedStep
<1> QED BY <1>1, <1>2, IdentityInvHolds, JobHolds, PTL DEF IdentitySpec

\* Actors that have missed MAC m and may yet attach it to a device.
Missed(m) ==
  {a \in Actors :
     /\ job[a].mac = m
     /\ \/ at[a] \in {"byIp", "create"}
        \/ at[a] = "writeMac" /\ dev[a] \notin Holders(m)}

OwnersInv(m) == Cardinality(Holders(m)) + Cardinality(Missed(m)) <= Cardinality(Resolvers(m)) + faults

LEMMA MissedResolve ==
  ASSUME JobInv, NEW m \in Macs \ Reported
  PROVE  /\ Missed(m) \subseteq Resolvers(m)
         /\ \A a \in Actors : at[a] # "idle" /\ job[a].mac = m => job[a].kind # "interface"
BY DEF JobInv, JobOK, Missed, Resolvers, Reported

\* The holders of an address are the devices of its rows.
LEMMA HoldersAreRows ==
  ASSUME IdentityTypeOK, NEW addr, NEW d
  PROVE  d \in Holders(addr) <=> [device |-> d, addr |-> addr] \in Facts
<1>1. ASSUME [device |-> d, addr |-> addr] \in Facts PROVE d \in Devices
  <2>1. PICK r \in rows : [device |-> r.device, addr |-> r.addr] = [device |-> d, addr |-> addr]
    BY <1>1 DEF Facts
  <2>2. r.device = d /\ r.device \in Devices
    BY <2>1 DEF IdentityTypeOK
  <2> QED BY <2>2
<1> QED BY <1>1 DEF Holders

LEMMA HoldersExist ==
  ASSUME IdentityTypeOK, NEW addr
  PROVE  /\ Owner(addr) # 0 => Owner(addr) \in Holders(addr)
         /\ Owner(addr) = 0 => Holders(addr) = {}
<1>1. RowsOf(addr) \in SUBSET AddressRows /\ RowsOf(addr) \subseteq rows
      /\ \A r \in RowsOf(addr) : r.addr = addr
  BY DEF IdentityTypeOK, RowsOf
<1>2. CASE RowsOf(addr) = {}
  BY <1>2 DEF Owner, RowsOf, Holders, Facts
<1>3. CASE RowsOf(addr) # {}
  <2> DEFINE o == Oldest(RowsOf(addr))
  <2>1. o \in RowsOf(addr) /\ Owner(addr) = o.device
    BY <1>1, <1>3, OldestIsLeast DEF Owner
  <2> HIDE DEF o
  <2>2. o \in rows /\ o.addr = addr /\ o.device # 0
    BY <1>1, <2>1 DEF AddressRows
  <2>3. [device |-> Owner(addr), addr |-> addr] \in Facts
    BY <2>1, <2>2 DEF Facts
  <2> QED BY <2>1, <2>2, <2>3, HoldersAreRows
<1> QED BY <1>2, <1>3

\* What a step does to the holders of m and to those who may add one.
Fewer(m) == Holders(m)' = Holders(m) /\ Missed(m)' \subseteq Missed(m) /\ faults' >= faults
Misses(m) == Holders(m)' = {} /\ Missed(m)' \subseteq Resolvers(m) /\ faults' >= faults
Attaches(m, a) ==
  /\ a \in Missed(m) /\ Missed(m)' \subseteq Missed(m) \ {a}
  /\ Holders(m)' = Holders(m) \cup {dev[a]} /\ faults' >= faults
Errs(m, a) == Holders(m)' = Holders(m) /\ Missed(m)' \subseteq Missed(m) \cup {a} /\ faults' = faults + 1

LEMMA HoldersFollow ==
  ASSUME IdentityTypeOK, IdentityTypeOK', NEW m
  PROVE  /\ Facts' = Facts => Holders(m)' = Holders(m)
         /\ \A d : Facts' = Facts \cup {[device |-> d, addr |-> m]} => Holders(m)' = Holders(m) \cup {d}
         /\ \A d, addr : addr # m /\ Facts' = Facts \cup {[device |-> d, addr |-> addr]} =>
              Holders(m)' = Holders(m)
<1>1. \A d : d \in Holders(m) <=> [device |-> d, addr |-> m] \in Facts
  BY HoldersAreRows
<1>2. \A d : d \in Holders(m)' <=> [device |-> d, addr |-> m] \in Facts'
  <2>1. ASSUME NEW d, [device |-> d, addr |-> m] \in Facts' PROVE d \in Devices'
    <3>1. PICK r \in rows' : [device |-> r.device, addr |-> r.addr] = [device |-> d, addr |-> m]
      BY <2>1 DEF Facts
    <3>2. r.device = d /\ r.device \in Devices'
      BY <3>1 DEF IdentityTypeOK
    <3> QED BY <3>2
  <2> QED BY <2>1 DEF Holders
<1>3. Facts' = Facts => Holders(m)' = Holders(m)
  BY <1>1, <1>2
<1>4. ASSUME NEW d, Facts' = Facts \cup {[device |-> d, addr |-> m]}
      PROVE  Holders(m)' = Holders(m) \cup {d}
  <2>1. \A e : [device |-> e, addr |-> m] = [device |-> d, addr |-> m] <=> e = d
    OBVIOUS
  <2> QED BY <1>1, <1>2, <1>4, <2>1
<1>5. ASSUME NEW d, NEW addr, addr # m, Facts' = Facts \cup {[device |-> d, addr |-> addr]}
      PROVE  Holders(m)' = Holders(m)
  <2>1. \A e : [device |-> e, addr |-> m] # [device |-> d, addr |-> addr]
    BY <1>5
  <2> QED BY <1>1, <1>2, <1>5, <2>1
<1> QED BY <1>3, <1>4, <1>5

LEMMA OwnersMove ==
  ASSUME IdentityInv, JobInv, JobInv', IdentityTypeOK', NEW m \in Macs \ Reported, NEW a \in Actors, Step(a)
  PROVE  Fewer(m) \/ Misses(m) \/ Attaches(m, a) \/ Errs(m, a)
<1>0. IdentityTypeOK /\ JobOK(a) /\ JobOK(a)' /\ ActorOK(a) /\ m # NoAddr /\ faults \in Nat
  BY DeviceIdentityAssumption DEF IdentityInv, JobInv, IdentityTypeOK
<1>1. \A b \in Actors \ {a} : at'[b] = at[b] /\ job'[b] = job[b] /\ dev'[b] = dev[b]
  BY <1>0, OthersStay
<1>2. \A b \in Actors \ {a} : Holders(m) \subseteq Holders(m)' /\ b \in Missed(m)' => b \in Missed(m)
  BY <1>1 DEF Missed
<1>3. ASSUME Facts' = Facts, faults' = faults, a \in Missed(m)' => a \in Missed(m)
      PROVE  Fewer(m)
  <2>1. Holders(m)' = Holders(m)
    BY <1>0, <1>3, HoldersFollow
  <2>2. Missed(m)' \subseteq Missed(m)
    <3>1. \A b \in Missed(m)' : b \in Actors
      BY DEF Missed
    <3> QED BY <1>2, <1>3, <2>1, <3>1
  <2> QED BY <1>0, <1>3, <2>1, <2>2 DEF Fewer
<1>4. CASE Beginning(a)
  <2>1. /\ Facts' = Facts /\ faults' = faults
        /\ job'[a] \in JobsOf[a] /\ at'[a] = FirstPlace(job'[a])
    BY <1>0, <1>4, BeginningDoes
  <2>2. job'[a].mac = m => job'[a].kind # "interface"
    BY <2>1 DEF Reported
  <2>3. job'[a].mac = m => at'[a] = "byMac"
    BY <1>0, <2>1, <2>2 DEF FirstPlace
  <2> QED BY <1>3, <2>1, <2>3 DEF Missed
<1>5. CASE Looking(a)
  <2> DEFINE addr == IF at[a] = "byMac" THEN job[a].mac ELSE job[a].ip
  <2>1. /\ at[a] \in {"byMac", "byIp"} /\ Facts' = Facts /\ faults' = faults
        /\ job'[a] = job[a] /\ dev'[a] = Owner(addr)
        /\ at'[a] = IF Owner(addr) = 0 THEN AfterMiss(job[a], at[a]) ELSE AfterFound(a, Owner(addr))
    BY <1>0, <1>5, LookingDoes
  <2>2. CASE job[a].mac # m \/ at[a] = "byIp"
    <3>1. a \in Missed(m)' => a \in Missed(m)
      BY <2>1, <2>2 DEF Missed
    <3> QED BY <1>3, <2>1, <3>1
  <2>3. CASE job[a].mac = m /\ at[a] = "byMac"
    <3>1. addr = m
      BY <2>3
    <3> HIDE DEF addr
    <3>2. CASE Owner(m) = 0
      <4>1. Holders(m)' = Holders(m) /\ Holders(m) = {}
        BY <1>0, <2>1, <3>2, HoldersFollow, HoldersExist
      <4>2. Missed(m)' \subseteq Resolvers(m)
        BY <1>0 DEF JobInv, JobOK, Missed, Resolvers, Reported
      <4> QED BY <1>0, <2>1, <4>1, <4>2 DEF Misses
    <3>3. CASE Owner(m) # 0
      <4>1. Holders(m)' = Holders(m) /\ Owner(m) \in Holders(m)
        BY <1>0, <2>1, <3>3, HoldersFollow, HoldersExist
      <4>2. at'[a] = AfterFound(a, Owner(m)) /\ dev'[a] = Owner(m)
        BY <2>1, <3>1, <3>3
      <4>3. at'[a] \notin {"byIp", "create"} /\ dev'[a] \in Holders(m)'
        BY <4>1, <4>2 DEF AfterFound, FirstWrite
      <4> QED BY <1>3, <2>1, <4>3 DEF Missed
    <3> QED BY <3>2, <3>3
  <2> QED BY <2>1, <2>2, <2>3
<1>6. CASE Create(a)
  <2>1. at[a] = "create" /\ Facts' = Facts /\ faults' = faults /\ job'[a] = job[a]
    BY <1>0, <1>6, CreateDoes
  <2>2. a \in Missed(m)' => a \in Missed(m)
    BY <2>1 DEF Missed
  <2> QED BY <1>3, <2>1, <2>2
<1>7. CASE Writing(a)
  <2>1. /\ at[a] \in WritePlaces /\ faults' = faults
        /\ job'[a] = job[a] /\ dev'[a] = dev[a] /\ at'[a] = AfterWrite(job[a], at[a])
        /\ at[a] = "writeIp" => Facts' = Facts \cup {[device |-> dev[a], addr |-> job[a].ip]}
        /\ at[a] # "writeIp" => Facts' = Facts \cup {[device |-> dev[a], addr |-> job[a].mac]}
    BY <1>7, WritingDoes
  <2>2. a \notin Missed(m)'
    <3>1. at'[a] \in {"writeIp", "observeMac", "linkMac", "idle"}
      BY <2>1, Zenon DEF AfterWrite
    <3> QED BY <3>1 DEF Missed
  <2>3. \A b \in Missed(m)' : b \in Actors \ {a}
    BY <2>2 DEF Missed
  <2>4. CASE at[a] = "writeIp" \/ job[a].mac # m
    <3>1. at[a] = "writeIp" => job[a].ip # m
      BY <1>0, DeviceIdentityAssumption DEF ActorOK
    <3>2. Holders(m)' = Holders(m)
      BY <1>0, <2>1, <2>4, <3>1, HoldersFollow, Zenon
    <3>3. Missed(m)' \subseteq Missed(m)
      BY <1>2, <2>3, <3>2
    <3> QED BY <1>0, <2>1, <3>2, <3>3 DEF Fewer
  <2>5. CASE at[a] # "writeIp" /\ job[a].mac = m
    <3>1. at[a] = "writeMac"
      <4>1. at[a] # "linkMac"
        BY <1>0, <2>1, <2>5, MissedResolve DEF JobOK, WritePlaces
      <4> QED BY <2>1, <2>5, <4>1 DEF WritePlaces
    <3>2. Holders(m)' = Holders(m) \cup {dev[a]}
      BY <1>0, <2>1, <2>5, HoldersFollow, Zenon
    <3>3. Missed(m)' \subseteq Missed(m) \ {a}
      BY <1>2, <2>2, <2>3, <3>2
    <3>4. CASE dev[a] \in Holders(m)
      BY <1>0, <2>1, <3>2, <3>3, <3>4 DEF Fewer
    <3>5. CASE dev[a] \notin Holders(m)
      <4>1. a \in Missed(m)
        BY <2>5, <3>1, <3>5 DEF Missed
      <4> QED BY <1>0, <2>1, <3>2, <3>3, <4>1 DEF Attaches
    <3> QED BY <3>4, <3>5
  <2> QED BY <2>4, <2>5
<1>8. CASE Observing(a)
  <2>1. Facts' = Facts /\ faults' = faults /\ at'[a] \in {"observeIp", "idle"}
    BY <1>8, ObservingDoes
  <2> QED BY <1>3, <2>1 DEF Missed
<1>9. CASE Faulty(a)
  <2>1. Facts' = Facts /\ faults' = faults + 1
    BY <1>0, <1>9, FaultyDoes
  <2>2. Holders(m)' = Holders(m)
    BY <1>0, <2>1, HoldersFollow
  <2>3. \A b \in Missed(m)' : b \in Actors
    BY DEF Missed
  <2>4. Missed(m)' \subseteq Missed(m) \cup {a}
    BY <1>2, <2>2, <2>3
  <2> QED BY <2>1, <2>2, <2>4 DEF Errs
<1>10. CASE InsertBegins(a)
  BY <1>3, <1>10, InsertBeginsDoes DEF Missed, Holders, Devices
<1> QED BY <1>4, <1>5, <1>6, <1>7, <1>8, <1>9, <1>10, StepKinds

LEMMA OwnersCount ==
  ASSUME IsFiniteSet(Actors), IdentityInv, IdentityTypeOK', NEW m \in Macs \ Reported, NEW a \in Actors,
         OwnersInv(m), Fewer(m) \/ Misses(m) \/ Attaches(m, a) \/ Errs(m, a)
  PROVE  OwnersInv(m)'
<1> DEFINE H == Holders(m)
           P == Missed(m)
           R == Resolvers(m)
<1>1. /\ IsFiniteSet(H) /\ Cardinality(H) \in Nat /\ IsFiniteSet(P) /\ Cardinality(P) \in Nat
      /\ IsFiniteSet(R) /\ Cardinality(R) \in Nat
  <2>1. H \in SUBSET Devices /\ P \in SUBSET Actors /\ R \in SUBSET Actors
    BY DEF Holders, Missed, Resolvers
  <2>2. IsFiniteSet(Devices)
    BY OrphansFinite DEF IdentityInv
  <2> HIDE DEF H, P, R
  <2> QED BY <2>1, <2>2, FS_Subset, FS_CardinalityType
<1>2. /\ faults \in Nat /\ faults' \in Nat
      /\ Cardinality(H) + Cardinality(P) <= Cardinality(R) + faults
  BY DEF IdentityInv, IdentityTypeOK, OwnersInv
<1>3. SUFFICES Cardinality(H') + Cardinality(P') <= Cardinality(R) + faults'
  BY DEF OwnersInv, Resolvers
<1>4. CASE Fewer(m)
  <2>1. H' = H /\ P' \subseteq P /\ faults' >= faults
    BY <1>4 DEF Fewer
  <2> HIDE DEF H, P, R
  <2>2. Cardinality(P') \in Nat /\ Cardinality(P') <= Cardinality(P)
    BY <1>1, <2>1, FS_Subset, FS_CardinalityType
  <2> QED BY <1>1, <1>2, <2>1, <2>2
<1>5. CASE Misses(m)
  <2>1. H' = {} /\ P' \subseteq R
    BY <1>5 DEF Misses
  <2> HIDE DEF H, P, R
  <2>2. Cardinality(P') \in Nat /\ Cardinality(P') <= Cardinality(R)
    BY <1>1, <2>1, FS_Subset, FS_CardinalityType
  <2> QED BY <1>1, <1>2, <2>1, <2>2, FS_EmptySet
<1>6. CASE Attaches(m, a)
  <2>1. a \in P /\ P' \subseteq P \ {a} /\ H' = H \cup {dev[a]} /\ faults' >= faults
    BY <1>6 DEF Attaches
  <2> DEFINE d == dev[a]
             rest == P \ {a}
  <2> HIDE DEF H, P, R, d
  <2>2. IsFiniteSet(rest) /\ Cardinality(rest) = Cardinality(P) - 1
    BY <1>1, <2>1, FS_RemoveElement, Zenon
  <2>3. P' \subseteq rest
    BY <2>1
  <2> HIDE DEF rest
  <2>4. Cardinality(P') \in Nat /\ Cardinality(P') <= Cardinality(P) - 1
    BY <2>2, <2>3, FS_Subset, FS_CardinalityType
  <2>5. Cardinality(H \cup {d}) = IF d \in H THEN Cardinality(H) ELSE Cardinality(H) + 1
    BY <1>1, FS_AddElement, Zenon
  <2>6. H' = H \cup {d}
    BY <2>1 DEF d
  <2>7. Cardinality(H') \in Nat /\ Cardinality(H') <= Cardinality(H) + 1
    BY <1>1, <2>5, <2>6
  <2> QED BY <1>1, <1>2, <2>1, <2>4, <2>7
<1>7. CASE Errs(m, a)
  <2>1. H' = H /\ P' \subseteq P \cup {a} /\ faults' = faults + 1
    BY <1>7 DEF Errs
  <2> DEFINE more == P \cup {a}
  <2> HIDE DEF H, P, R
  <2>2. IsFiniteSet(more) /\ Cardinality(more) = IF a \in P THEN Cardinality(P) ELSE Cardinality(P) + 1
    BY <1>1, FS_AddElement, Zenon
  <2>3. P' \subseteq more
    BY <2>1
  <2> HIDE DEF more
  <2>4. Cardinality(P') \in Nat /\ Cardinality(P') <= Cardinality(P) + 1
    BY <1>1, <2>2, <2>3, FS_Subset, FS_CardinalityType
  <2> QED BY <1>1, <1>2, <2>1, <2>4
<1> QED BY <1>4, <1>5, <1>6, <1>7

AllOwnersInv == \A m \in Macs \ Reported : OwnersInv(m)

LEMMA OwnersStep ==
  ASSUME IsFiniteSet(Actors), IdentityInv, JobInv, AllOwnersInv, [IdentityNext]_identityVars
  PROVE  AllOwnersInv'
<1>1. IdentityTypeOK'
  BY IdentityInvStep DEF IdentityInv
<1>2. ASSUME NEW m \in Macs \ Reported PROVE OwnersInv(m)'
  <2>0. OwnersInv(m)
    BY DEF AllOwnersInv
  <2>1. CASE UNCHANGED identityVars
    <3>1. Holders(m)' = Holders(m) /\ Missed(m)' = Missed(m) /\ faults' = faults
      BY <2>1 DEF identityVars, tables, actor, Holders, Missed, Facts, Devices
    <3> QED BY <2>0, <3>1 DEF OwnersInv, Resolvers
  <2>2. ASSUME NEW a \in Actors, Step(a) PROVE OwnersInv(m)'
    <3>1. JobInv'
      BY <2>2, JobStep
    <3>2. Fewer(m) \/ Misses(m) \/ Attaches(m, a) \/ Errs(m, a)
      BY <1>1, <2>2, <3>1, OwnersMove
    <3> QED BY <1>1, <2>0, <3>2, OwnersCount
  <2> QED BY <2>1, <2>2 DEF IdentityNext
<1> QED BY <1>2 DEF AllOwnersInv

LEMMA OwnersInitially ==
  ASSUME IsFiniteSet(Actors), IdentityInit
  PROVE  AllOwnersInv
<1>1. ASSUME NEW m \in Macs \ Reported PROVE OwnersInv(m)
  <2>1. Holders(m) = {} /\ Missed(m) = {} /\ faults = 0
    BY DEF IdentityInit, Holders, Missed, Facts, Devices
  <2>2. Resolvers(m) \in SUBSET Actors
    BY DEF Resolvers
  <2>3. Cardinality(Resolvers(m)) \in Nat
    BY <2>2, FS_Subset, FS_CardinalityType
  <2> QED BY <2>1, <2>3, FS_EmptySet DEF OwnersInv
<1> QED BY <1>1 DEF AllOwnersInv

\* However the writers race and however often a MAC is seen, it never has more
\* devices than writers that look it up, plus one for each fault, for any finite
\* number of writers.
THEOREM OwnersAreBounded ==
  ASSUME IsFiniteSet(Actors)
  PROVE  IdentitySpec => []OwnersBounded
<1>1. IdentityInv /\ AllOwnersInv => OwnersBounded
  <2> SUFFICES ASSUME IdentityInv, AllOwnersInv, NEW m \in Macs \ Reported
               PROVE  Cardinality(Holders(m)) <= Cardinality(Resolvers(m)) + faults
    BY DEF OwnersBounded
  <2>1. OwnersInv(m)
    BY DEF AllOwnersInv
  <2>2. /\ Holders(m) \in SUBSET Devices /\ Missed(m) \in SUBSET Actors /\ Resolvers(m) \in SUBSET Actors
        /\ IsFiniteSet(Devices) /\ faults \in Nat
    BY OrphansFinite DEF Holders, Missed, Resolvers, IdentityInv, IdentityTypeOK
  <2>3. Cardinality(Holders(m)) \in Nat /\ Cardinality(Missed(m)) \in Nat /\ Cardinality(Resolvers(m)) \in Nat
    BY <2>2, FS_Subset, FS_CardinalityType
  <2> QED BY <2>1, <2>2, <2>3 DEF OwnersInv
<1>2. IdentityInv /\ JobInv /\ AllOwnersInv /\ [IdentityNext]_identityVars => AllOwnersInv'
  BY OwnersStep
<1>3. IdentityInit => AllOwnersInv
  BY OwnersInitially
<1> QED BY <1>1, <1>2, <1>3, IdentityInvHolds, JobHolds, PTL DEF IdentitySpec
=============================================================================
