------------------------------- MODULE RunPages -------------------------------
(***************************************************************************)
(* The run list of the discovery page: a first page that is polled, and    *)
(* the pages the operator has asked for below it.                          *)
(*                                                                         *)
(* loadDiscoveryRuns gives its limit and its cursor as "query" beside      *)
(* "params", where the client of the API does not look: neither is sent.   *)
(* Only the page rendered by the server is cut at PAGE_LIMIT; a poll and a *)
(* request for more both get the newest runs, as many as core-go lists to  *)
(* a client that states no limit.                                          *)
(*                                                                         *)
(* Runs are numbered in the order they were started, which is the order    *)
(* core-go lists and works them in: those after "ended" are not finished.  *)
(*                                                                         *)
(* React runs the effect of a poll's answer some time after it, and before *)
(* any click is handled.                                                   *)
(***************************************************************************)
EXTENDS Naturals, Sequences, FiniteSets, SequencesExt

CONSTANTS
  RunPageLimit,     \* PAGE_LIMIT, the runs of the page the server renders
  DefaultRunLimit,  \* the runs core-go lists when no limit is sent
  MaxRuns,          \* bound on runs
  MaxPages          \* bound on the pages of the list

ASSUME PagesAssumption ==
  /\ RunPageLimit \in Nat \ {0} /\ DefaultRunLimit \in Nat \ {0}
  /\ MaxRuns \in Nat /\ MaxPages \in Nat \ {0}

VARIABLES
  runs,     \* core-go: runs so far
  ended,    \* core-go: those that have ended
  data,     \* the query's data
  pages,    \* the pages shown, each [rows, next]
  runPoll,  \* the poll under way: Idle, Asked, or the page on its way
  more      \* loadingMore: the same for the request for more

runPagesVars == <<runs, ended, data, pages, runPoll, more>>

NoFetch == [at |-> "idle"]
Asked == [at |-> "asked"]
Answered(page) == [at |-> "answered", page |-> page]

Min2(a, b) == IF a < b THEN a ELSE b

\* A row shows whether its run had ended.
RowsFrom(top, size, over) == [i \in 1 .. size |-> [run |-> top - (i - 1), over |-> top - (i - 1) <= over]]

\* The newest runs, at most as many as the limit, and the cursor of the next page, 0
\* for none, as core-go answers when there are that many runs and that many have ended.
PageWhen(count, over, limit) ==
  [rows |-> RowsFrom(count, Min2(count, limit), over),
   next |-> IF count > limit THEN count - limit + 1 ELSE 0]

\* What the server renders, and what a request of the component is answered.
RenderedPage == PageWhen(runs, ended, RunPageLimit)
NewestPage == PageWhen(runs, ended, DefaultRunLimit)

NoRuns == [rows |-> <<>>, next |-> 0]

Rows == FlattenSeq([i \in DOMAIN pages |-> pages[i].rows])
hasMore == pages # <<>> /\ Last(pages).next # 0

\* The effect on data has run.
RunsSettled == pages # <<>> /\ pages[1] = data

-----------------------------------------------------------------------------
Row == [run : 1 .. MaxRuns, over : BOOLEAN]

IsPage(p) ==
  /\ p.next \in 0 .. MaxRuns
  /\ Len(p.rows) <= RunPageLimit \/ Len(p.rows) <= DefaultRunLimit
  /\ \A i \in DOMAIN p.rows : p.rows[i] \in Row

RunPagesTypeOK ==
  /\ runs \in 0 .. MaxRuns /\ ended \in 0 .. runs
  /\ IsPage(data)
  /\ Len(pages) \in 1 .. MaxPages /\ \A i \in DOMAIN pages : IsPage(pages[i])
  /\ runPoll.at \in {"idle", "asked", "answered"}
  /\ more.at \in {"idle", "asked", "answered"}

\* The page is rendered with the first page of that moment, or with none and an
\* error.  The query starts from the page of an earlier visit if it still has one.
RunPagesInit ==
  /\ runs \in 0 .. MaxRuns /\ ended \in 0 .. runs
  /\ \E page \in {RenderedPage, NoRuns} :
       /\ pages = <<page>>
       /\ data \in {page} \cup
            {PageWhen(n, Min2(n, m), limit) :
               n \in 0 .. runs, m \in 0 .. ended, limit \in {RunPageLimit, DefaultRunLimit}}
  /\ runPoll = NoFetch /\ more = NoFetch

RunStarts == runs < MaxRuns /\ runs' = runs + 1 /\ UNCHANGED <<ended, data, pages, runPoll, more>>

RunEnds == ended < runs /\ ended' = ended + 1 /\ UNCHANGED <<runs, data, pages, runPoll, more>>

-----------------------------------------------------------------------------
(* Polling, while the tab is visible.                                      *)

RunTick ==
  /\ runPoll = NoFetch
  /\ runPoll' = Asked
  /\ UNCHANGED <<runs, ended, data, pages, more>>

PollAnswer ==
  /\ runPoll = Asked
  /\ runPoll' = Answered(NewestPage)
  /\ UNCHANGED <<runs, ended, data, pages, more>>

PollArrive ==
  /\ runPoll.at = "answered"
  /\ data' = runPoll.page /\ runPoll' = NoFetch
  /\ UNCHANGED <<runs, ended, pages, more>>

\* Whatever happened to it; the next tick asks again, after a longer while.
PollFails ==
  /\ runPoll # NoFetch
  /\ runPoll' = NoFetch
  /\ UNCHANGED <<runs, ended, data, pages, more>>

\* The polled page takes the place of the first.
Replaced(page) == IF pages = <<>> THEN <<page>> ELSE [pages EXCEPT ![1] = page]

Effect ==
  /\ ~RunsSettled
  /\ pages' = Replaced(data)
  /\ UNCHANGED <<runs, ended, data, runPoll, more>>

-----------------------------------------------------------------------------
(* Pages asked for by the operator.                                        *)

\* handleLoadMore: the button is there if the last page had a cursor, but the cursor
\* does not reach core-go.
LoadOlderRuns ==
  /\ RunsSettled
  /\ hasMore /\ more = NoFetch /\ Len(pages) < MaxPages
  /\ more' = Asked
  /\ UNCHANGED <<runs, ended, data, pages, runPoll>>

MoreAnswer ==
  /\ more = Asked
  /\ more' = Answered(NewestPage)
  /\ UNCHANGED <<runs, ended, data, pages, runPoll>>

MoreArrive ==
  /\ more.at = "answered"
  /\ pages' = Append(pages, more.page) /\ more' = NoFetch
  /\ UNCHANGED <<runs, ended, data, runPoll>>

MoreFails ==
  /\ more # NoFetch
  /\ more' = NoFetch
  /\ UNCHANGED <<runs, ended, data, pages, runPoll>>

-----------------------------------------------------------------------------
RunPoll == RunTick \/ PollAnswer \/ PollArrive

RunPagesNext ==
  \/ RunStarts \/ RunEnds \/ RunPoll \/ PollFails \/ Effect
  \/ LoadOlderRuns \/ MoreAnswer \/ MoreArrive \/ MoreFails

RunPagesSpec == RunPagesInit /\ [][RunPagesNext]_runPagesVars

-----------------------------------------------------------------------------
(* Properties.                                                             *)

\* What the documents promise of the list, a paginated list of runs, newest first:
\* a page loaded below the others goes on with older runs, so no run is listed twice
\* and a newer one never below an older.
RunsInOrder == \A i \in 1 .. Len(Rows) - 1 : Rows[i].run > Rows[i + 1].run
=============================================================================
