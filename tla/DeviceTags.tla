----------------------------- MODULE DeviceTags -----------------------------
(***************************************************************************)
(* The tags of one device.  PUT /devices/{id}/tags deletes the manual ones *)
(* and inserts those it was sent, one statement each and without a         *)
(* transaction, while other requests do the same.  A discovery run that    *)
(* has seen the device deletes the automatic ones and upserts those that   *)
(* its enrichment and its port scan suggest, and runs of two processes may *)
(* do so at once.  A tag that does not get inserted is passed over.        *)
(***************************************************************************)
EXTENDS Naturals

CONSTANTS
  TagNames,
  TagRequests,
  NoRequest,
  TagScanners,  \* core-go processes, each with one discovery run at a time
  MaxTagFaults  \* bound on failed statements and requests cut short

ASSUME TagsAssumption == NoRequest \notin TagRequests /\ MaxTagFaults \in Nat

VARIABLES
  tagRows,      \* device_tags: [tag, source]
  put,          \* each request: [pc, asked, todo]
  scan,         \* each scanner: where its run is with this device
  lastClear,    \* history: the request whose delete was the last
  late,         \* history: tags that requests under way at that delete had yet to insert
  suggested,    \* history: tags discovery has suggested since it deleted them last
  tagFaults

tagVars == <<tagRows, put, scan, lastClear, late, suggested, tagFaults>>

TagRow == [tag : TagNames, source : {"manual", "auto"}]
TagsBy(source) == {t \in TagNames : [tag |-> t, source |-> source] \in tagRows}

TagsTypeOK ==
  /\ tagRows \subseteq TagRow
  /\ put \in [TagRequests -> [pc : {"new", "clear", "insert", "done"}, asked : SUBSET TagNames, todo : SUBSET TagNames]]
  /\ scan \in [TagScanners -> {"idle", "clear", "suggest"}]
  /\ lastClear \in TagRequests \cup {NoRequest} /\ late \subseteq TagNames
  /\ suggested \subseteq TagNames /\ tagFaults \in 0 .. MaxTagFaults

TagsInit ==
  /\ tagRows = {}
  /\ put = [q \in TagRequests |-> [pc |-> "new", asked |-> {}, todo |-> {}]]
  /\ scan = [w \in TagScanners |-> "idle"]
  /\ lastClear = NoRequest /\ late = {}
  /\ suggested = {} /\ tagFaults = 0

\* The scrape of a run has seen the device.
ScanBegins(w) ==
  /\ scan[w] = "idle"
  /\ scan' = [scan EXCEPT ![w] = "clear"]
  /\ UNCHANGED <<tagRows, put, lastClear, late, suggested, tagFaults>>

\* DeleteDeviceTagsBySource for the source that discovery writes.
ClearAuto(w) ==
  /\ scan[w] = "clear"
  /\ tagRows' = {r \in tagRows : r.source # "auto"}
  /\ suggested' = {}
  /\ scan' = [scan EXCEPT ![w] = "suggest"]
  /\ UNCHANGED <<put, lastClear, late, tagFaults>>

\* Its error is ignored.
ClearAutoFails(w) ==
  /\ scan[w] = "clear" /\ tagFaults < MaxTagFaults
  /\ scan' = [scan EXCEPT ![w] = "suggest"] /\ tagFaults' = tagFaults + 1
  /\ UNCHANGED <<tagRows, put, lastClear, late, suggested>>

\* Enrichment or the port scan.
Suggest(w, t) ==
  /\ scan[w] = "suggest"
  /\ tagRows' = tagRows \cup {[tag |-> t, source |-> "auto"]}
  /\ suggested' = suggested \cup {t}
  /\ UNCHANGED <<put, scan, lastClear, late, tagFaults>>

\* The run is over, or its context is done.
ScanEnds(w) ==
  /\ scan[w] # "idle"
  /\ scan' = [scan EXCEPT ![w] = "idle"]
  /\ UNCHANGED <<tagRows, put, lastClear, late, suggested, tagFaults>>

\* A request for a device that exists.
PutTags(q, S) ==
  /\ put[q].pc = "new"
  /\ put' = [put EXCEPT ![q] = [pc |-> "clear", asked |-> S, todo |-> S]]
  /\ UNCHANGED <<tagRows, scan, lastClear, late, suggested, tagFaults>>

Cleared(q) ==
  /\ put' = [put EXCEPT ![q].pc = "insert"]
  /\ lastClear' = q
  /\ late' = UNION {put[r].todo : r \in {x \in TagRequests : put[x].pc = "insert"}}
  /\ UNCHANGED <<scan, suggested, tagFaults>>

\* A handler that takes an empty list for nothing to do.
ClearUnlessEmpty(q) ==
  /\ put[q].pc = "clear"
  /\ tagRows' = IF put[q].asked = {} THEN tagRows ELSE {r \in tagRows : r.source # "manual"}
  /\ Cleared(q)

\* DeleteDeviceTagsBySource.
ClearManual(q) ==
  /\ put[q].pc = "clear"
  /\ tagRows' = {r \in tagRows : r.source # "manual"}
  /\ Cleared(q)

\* UpsertDeviceTag.
InsertTag(q, t) ==
  /\ put[q].pc = "insert" /\ t \in put[q].todo
  /\ tagRows' = tagRows \cup {[tag |-> t, source |-> "manual"]}
  /\ put' = [put EXCEPT ![q].todo = @ \ {t}]
  /\ UNCHANGED <<scan, lastClear, late, suggested, tagFaults>>

\* Its error is ignored.
InsertFails(q, t) ==
  /\ put[q].pc = "insert" /\ t \in put[q].todo /\ tagFaults < MaxTagFaults
  /\ put' = [put EXCEPT ![q].todo = @ \ {t}] /\ tagFaults' = tagFaults + 1
  /\ UNCHANGED <<tagRows, scan, lastClear, late, suggested>>

\* The request ends with the list of the device's tags, which is read like any other.
AnswerTags(q) ==
  /\ put[q].pc = "insert" /\ put[q].todo = {}
  /\ put' = [put EXCEPT ![q].pc = "done"]
  /\ UNCHANGED <<tagRows, scan, lastClear, late, suggested, tagFaults>>

\* The client or the process has gone, or a statement whose error ends the request
\* has failed.
CutShort(q) ==
  /\ put[q].pc \in {"clear", "insert"} /\ tagFaults < MaxTagFaults
  /\ put' = [put EXCEPT ![q].pc = "done", ![q].todo = {}] /\ tagFaults' = tagFaults + 1
  /\ UNCHANGED <<tagRows, scan, lastClear, late, suggested>>

TagsNext ==
  \/ \E w \in TagScanners :
       \/ ScanBegins(w) \/ ClearAuto(w) \/ ClearAutoFails(w) \/ ScanEnds(w)
       \/ \E t \in TagNames : Suggest(w, t)
  \/ \E q \in TagRequests :
       \/ \E S \in SUBSET TagNames : PutTags(q, S)
       \/ ClearManual(q) \/ AnswerTags(q) \/ CutShort(q)
       \/ \E t \in TagNames : InsertTag(q, t) \/ InsertFails(q, t)

TagsSpec == TagsInit /\ [][TagsNext]_tagVars

-----------------------------------------------------------------------------
(* Properties.                                                             *)

\* The request that deleted last wins: its tags are there as soon as it has inserted
\* them, and besides them there can only be what requests under way at its delete had
\* not inserted yet; what was there before is gone.  A run deletes nothing of that,
\* and no request deletes what discovery has suggested since it deleted its own.
LastClearWins ==
  /\ TagsBy("auto") = suggested
  /\ lastClear # NoRequest =>
       LET last == put[lastClear] IN
       /\ TagsBy("manual") \subseteq last.asked \cup late
       /\ tagFaults = 0 => last.asked \ last.todo \subseteq TagsBy("manual")
=============================================================================
