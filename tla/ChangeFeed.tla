----------------------------- MODULE ChangeFeed -----------------------------
(***************************************************************************)
(* A client pages through one of core-go's feeds while rows are written:   *)
(* GET /devices/changes, /devices/{id}/history, /discovery/runs and        *)
(* /discovery/runs/{id}/logs answer in the same way.  They differ in the   *)
(* rows: runs, logs and observations are never written again, while the    *)
(* row of a link, service, VLAN, SNMP state, name or metadata gets a new   *)
(* timestamp each time; and a link is in the feed of all devices twice,    *)
(* once for either end, with the same timestamp and the same id.           *)
(*                                                                         *)
(* A row may become visible a little after the moment in its timestamp:    *)
(* now() is the start of the transaction, and links and services carry the *)
(* clock of the process that observed them.                                *)
(***************************************************************************)
EXTENDS Keyset

CONSTANTS
  Ids,         \* event, run or log ids, compared as numbers
  Links,       \* those that the feed shows for two devices
  Rewritten,   \* those whose row is written again
  Limit,       \* the page size
  MaxClock     \* bound: timestamps

ASSUME ChangeFeedAssumption ==
  /\ Ids \subseteq Nat \ {0} /\ IsFiniteSet(Ids)
  /\ Links \subseteq Ids /\ Rewritten \subseteq Ids
  /\ Limit \in Nat \ {0} /\ MaxClock \in Nat \ {0}

VARIABLES
  ts,       \* ts[i]: the timestamp of row i, 0 if there is none yet
  clock,    \* the newest timestamp so far
  pages,    \* the pages the client has got
  cursor,   \* the last page's cursor; NoCursor before the first and after the last
  since,    \* the client's since parameter, 0 for none
  known,    \* history: rows there were when the first page was answered
  dirty     \* history: rows written since

vars == <<ts, clock, pages, cursor, since, known, dirty>>

Present == {i \in Ids : ts[i] # 0}
Sides(i) == IF i \in Links THEN {1, 2} ELSE {1}
Rows == UNION {{[id |-> i, side |-> s, at |-> ts[i]] : s \in Sides(i)} : i \in Present}

AllRows == [id : Ids, side : {1, 2}, at : 1 .. MaxClock]

TypeOK ==
  /\ ts \in [Ids -> 0 .. MaxClock]
  /\ clock \in 1 .. MaxClock
  /\ pages \in Seq(Seq(AllRows))
  /\ \A p \in DOMAIN pages : Len(pages[p]) <= Limit
  /\ cursor \in [at : 0 .. MaxClock, id : Ids \cup {0}]
  /\ since \in 0 .. MaxClock
  /\ known \subseteq Ids /\ dirty \subseteq Ids

Init ==
  /\ ts = [i \in Ids |-> 0]
  /\ clock = 1
  /\ pages = <<>>
  /\ cursor = NoCursor
  /\ since = 0
  /\ known = {} /\ dirty = {}

\* A row is written for the first time, or again.
Write(i, t) ==
  /\ i \in Present => i \in Rewritten
  /\ t \in {clock - 1, clock, clock + 1} /\ t \in 1 .. MaxClock
  /\ ts' = [ts EXCEPT ![i] = t]
  /\ clock' = IF t > clock THEN t ELSE clock
  /\ dirty' = IF pages = <<>> THEN {} ELSE dirty \cup {i}
  /\ UNCHANGED <<pages, cursor, since, known>>

\* The query of the next page: below the cursor, and with a cursor the since
\* parameter is ignored.
Selected(c, s) ==
  {r \in Rows : IF c = NoCursor THEN r.at >= s ELSE Below(r, c)}

Answer(c, s) ==
  \E l \in Listings(Selected(c, s), Limit + 1) :
    LET page == PageOf(l, Limit)
    IN /\ pages' = Append(pages, page.rows)
       /\ cursor' = page.cursor

FirstPage(s) ==
  /\ pages = <<>>
  /\ Answer(NoCursor, s)
  /\ since' = s
  /\ known' = Present
  /\ UNCHANGED <<ts, clock, dirty>>

NextPage ==
  /\ pages # <<>> /\ cursor # NoCursor
  /\ Answer(cursor, since)
  /\ UNCHANGED <<ts, clock, since, known, dirty>>

Next ==
  \/ \E i \in Ids, t \in 1 .. MaxClock : Write(i, t)
  \/ \E s \in 0 .. MaxClock : FirstPage(s)
  \/ NextPage

Spec == Init /\ [][Next]_vars

-----------------------------------------------------------------------------
(* Properties.                                                             *)

Places == {x \in (DOMAIN pages) \X (1 .. Limit) : x[2] <= Len(pages[x[1]])}
At(x) == pages[x[1]][x[2]]

Got(i, s) == \E x \in Places : At(x).id = i /\ At(x).side = s

\* Nothing is delivered twice, however rows are added while the client pages,
\* unless it was written in between.
NoRepeat ==
  \A x, y \in Places :
    x # y /\ At(x).id = At(y).id /\ At(x).side = At(y).side => At(x).id \in dirty

AtEnd == pages # <<>> /\ cursor = NoCursor

Expected == {i \in known \ dirty : ts[i] >= since}

\* A client that has come to the end has got every event there was when it
\* began that was not written since; of a link, at least one end.
Complete == AtEnd => \A i \in Expected : \E s \in Sides(i) : Got(i, s)

\* Every page lies below the one before, so paging ends.
PagesDescend ==
  [][pages # <<>> /\ pages' # pages =>
       LET new == pages'[Len(pages')]
       IN \A k \in DOMAIN new : Precedes(cursor, new[k])]_vars

\* The feed has an event for either end of a link.
BothEnds == AtEnd => \A i \in Expected : \A s \in Sides(i) : Got(i, s)

\* since gates the timeframe.
SinceGates == \A x \in Places : At(x).at >= since
=============================================================================
