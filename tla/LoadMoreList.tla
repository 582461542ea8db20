----------------------------- MODULE LoadMoreList -----------------------------
(***************************************************************************)
(* The log of a run and the timeline of a device: both are rendered with   *)
(* their newest page, and append older ones when the operator asks.  The   *)
(* code of the two is the same but for an abort that only matters when a   *)
(* request is under way, and then neither starts another.                  *)
(*                                                                         *)
(* Entries are numbered in the order they are written; a page is a number  *)
(* of the newest before a cursor.                                          *)
(***************************************************************************)
EXTENDS Naturals, Sequences, SequencesExt

CONSTANTS
  LogPageLimit,   \* limit
  MaxEntries,     \* bound on entries
  MaxLogFailures  \* bound on failed requests

ASSUME ListAssumption == LogPageLimit \in Nat \ {0} /\ MaxEntries \in Nat /\ MaxLogFailures \in Nat

VARIABLES
  written,     \* core-go: entries so far
  entries,     \* the numbers of those shown
  logCursor,   \* 0 for null
  logRequest,  \* "idle", "asked", "answered"
  logAnswer,   \* the page on its way
  error,
  logFailures

logVars == <<written, entries, logCursor, logRequest, logAnswer, error, logFailures>>

NoPage == [list |-> <<>>, next |-> 0]

NewestEntry(before) == IF before = 0 \/ written < before THEN written ELSE before - 1

\* A page one too short: the entry that shows there are more is not given back.
PageSkipping(before) ==
  LET top == NewestEntry(before)
      size == IF top < LogPageLimit THEN top ELSE LogPageLimit
  IN [list |-> [i \in 1 .. size |-> top - (i - 1)],
      next |-> IF top > LogPageLimit THEN top - LogPageLimit ELSE 0]

EntriesBefore(before) ==
  LET top == NewestEntry(before)
      size == IF top < LogPageLimit THEN top ELSE LogPageLimit
  IN [list |-> [i \in 1 .. size |-> top - (i - 1)],
      next |-> IF top > LogPageLimit THEN top - LogPageLimit + 1 ELSE 0]

LogTypeOK ==
  /\ written \in 0 .. MaxEntries
  /\ Len(entries) <= MaxEntries /\ \A i \in DOMAIN entries : entries[i] \in 1 .. MaxEntries
  /\ logCursor \in 0 .. MaxEntries
  /\ logRequest \in {"idle", "asked", "answered"} /\ error \in BOOLEAN
  /\ logFailures \in 0 .. MaxLogFailures

\* The server rendered the first page, or an empty list and the error it met.
LogInit ==
  /\ written \in 0 .. MaxEntries
  /\ \/ error = FALSE /\ entries = EntriesBefore(0).list /\ logCursor = EntriesBefore(0).next
     \/ error = TRUE /\ entries = <<>> /\ logCursor = 0
  /\ logRequest = "idle" /\ logAnswer = NoPage
  /\ logFailures = 0

Write ==
  /\ written < MaxEntries
  /\ written' = written + 1
  /\ UNCHANGED <<entries, logCursor, logRequest, logAnswer, error, logFailures>>

\* handleLoadMore, loadMore.
LoadOlderLogs ==
  /\ logCursor # 0 /\ logRequest = "idle"
  /\ logRequest' = "asked" /\ error' = FALSE
  /\ UNCHANGED <<written, entries, logCursor, logAnswer, logFailures>>

LogAnswer ==
  /\ logRequest = "asked"
  /\ logRequest' = "answered" /\ logAnswer' = EntriesBefore(logCursor)
  /\ UNCHANGED <<written, entries, logCursor, error, logFailures>>

LogArrive ==
  /\ logRequest = "answered"
  /\ logRequest' = "idle" /\ logAnswer' = NoPage
  /\ entries' = entries \o logAnswer.list /\ logCursor' = logAnswer.next
  /\ UNCHANGED <<written, error, logFailures>>

\* What is shown stays, and so does the cursor: the operator may try again.
LogFails ==
  /\ logRequest # "idle" /\ logFailures < MaxLogFailures
  /\ logRequest' = "idle" /\ logAnswer' = NoPage
  /\ error' = TRUE /\ logFailures' = logFailures + 1
  /\ UNCHANGED <<written, entries, logCursor>>

\* Nothing left to do on this page.
LogRest == logCursor = 0 /\ UNCHANGED logVars

LogNext == Write \/ LoadOlderLogs \/ LogAnswer \/ LogArrive \/ LogFails \/ LogRest

LogSpec == LogInit /\ [][LogNext]_logVars

-----------------------------------------------------------------------------
(* What is rendered.                                                       *)

ListFooter == IF logCursor # 0 THEN "load more" ELSE IF entries # <<>> THEN "all loaded" ELSE ""

-----------------------------------------------------------------------------
(* Properties.                                                             *)

\* The entries shown are consecutive, newest first: none twice, none left out,
\* whatever is written and whatever fails while pages are loaded; and "All logs
\* loaded." is only said when the oldest is shown.
Consecutive ==
  /\ \A i \in 1 .. Len(entries) - 1 : entries[i] = entries[i + 1] + 1
  /\ ListFooter = "all loaded" => Last(entries) = 1
=============================================================================
