---------------------------- MODULE DiscoveryRuns ----------------------------
(***************************************************************************)
(* The discovery run queue of core-go: the API handler that inserts a run  *)
(* as "queued", the table discovery_runs that all processes share, and the *)
(* discovery worker of each process, which claims the oldest queued run    *)
(* (SELECT ... FOR UPDATE SKIP LOCKED), takes it through its phases under  *)
(* a deadline, and records how it ended.                                   *)
(*                                                                         *)
(* One action is one database statement, or one stretch of runOnce that    *)
(* touches no shared state.  A statement has three outcomes: it commits    *)
(* and the worker hears so, it fails and nothing is written, or it commits *)
(* and the worker gets an error because the connection or the deadline     *)
(* went first.  The INSERT is two steps, because the time it stamps the    *)
(* row with is that of its beginning, and the row appears when it commits. *)
(* A process may crash at any step, and on SIGTERM main cancels the        *)
(* worker's context and exits without waiting for it.                      *)
(*                                                                         *)
(* Left out: time (a deadline may pass at any step, a poll interval has no *)
(* length), log rows, and the columns a row's status determines.           *)
(***************************************************************************)
EXTENDS Integers, FiniteSets, ScanConfig

CONSTANTS
  Workers,     \* core-go processes; each runs one discovery worker
  Runs,        \* identifiers of discovery_runs rows
  NoRun,       \* "no run"
  Requests,    \* accepted request bodies: [targets, preset, tags]
  BaseConfig,  \* the settings the process was started with
  RunDelay,    \* whether DISCOVERY_RUN_DELAY is positive
  MaxFaults    \* bound: crashes, SIGTERMs and failed or unanswered statements

ASSUME DiscoveryRunsAssumption ==
  /\ IsFiniteSet(Runs)
  /\ NoRun \notin Runs
  /\ BaseConfig \in Configs
  /\ Requests \subseteq [targets : Nat, preset : Presets, tags : SUBSET ScanTags]
  /\ RunDelay \in BOOLEAN
  /\ MaxFaults \in Nat

VARIABLES
  status,      \* status[r]: the status column, "absent" before the INSERT
  startedAt,   \* startedAt[r]: the started_at column, as a position in time, 0 before
  request,     \* request[r]: scope and stats.preset, stats.tags of the row
  cutShort,    \* cutShort[r]: r was marked succeeded after work was skipped
  known,       \* known[r]: history, the rows that could be seen when r's INSERT began
  late,        \* history, the runs whose deadline passed inside failRun, after its check
  pc,          \* pc[w]: where the worker of process w is
  cur,         \* cur[w]: the run it is claiming or executing
  config,      \* config[w]: the scan settings in the Worker struct
  saved,       \* saved[w]: what the two restore closures captured
  cancelled,   \* cancelled[w]: SIGTERM cancelled the context of process w
  expired,     \* expired[w]: the run's own deadline has passed
  targets,     \* targets[w]: the ARP scrape found devices to work on
  skipped,     \* skipped[w]: a phase of this run dropped targets
  failed,      \* failed[w]: what runOnce is about to return is an error
  faults       \* faults that happened so far

rows == <<status, startedAt, request, cutShort, known>>
local == <<config, saved, targets, skipped, failed>>
vars == <<rows, late, pc, cur, local, cancelled, expired, faults>>

Statuses == {"absent", "queued", "running", "succeeded", "failed"}
Phases == {"delay", "scope", "ping", "arp", "enrich", "ports", "finish"}
Failing == {"fail", "failctx", "failbg"}
Holding == Phases \cup Failing
Places == Holding \cup {"idle", "next", "claim", "return", "stopped", "down"}

TypeOK ==
  /\ status \in [Runs -> Statuses]
  /\ startedAt \in [Runs -> Nat]
  /\ request \in [Runs -> [targets : Nat, preset : Presets, tags : SUBSET ScanTags]]
  /\ cutShort \in [Runs -> BOOLEAN]
  /\ known \in [Runs -> SUBSET Runs]
  /\ late \in SUBSET Runs
  /\ pc \in [Workers -> Places]
  /\ cur \in [Workers -> Runs \cup {NoRun}]
  /\ config \in [Workers -> Configs]
  /\ saved \in [Workers -> [preset : Configs, tags : Configs]]
  /\ cancelled \in [Workers -> BOOLEAN]
  /\ expired \in [Workers -> BOOLEAN]
  /\ targets \in [Workers -> BOOLEAN]
  /\ skipped \in [Workers -> BOOLEAN]
  /\ failed \in [Workers -> BOOLEAN]
  /\ faults \in Nat

NoRequest == [targets |-> 0, preset |-> "normal", tags |-> {}]

Init ==
  /\ status = [r \in Runs |-> "absent"]
  /\ startedAt = [r \in Runs |-> 0]
  /\ request = [r \in Runs |-> NoRequest]
  /\ cutShort = [r \in Runs |-> FALSE]
  /\ known = [r \in Runs |-> {}]
  /\ late = {}
  /\ pc = [w \in Workers |-> "idle"]
  /\ cur = [w \in Workers |-> NoRun]
  /\ config = [w \in Workers |-> BaseConfig]
  /\ saved = [w \in Workers |-> [preset |-> BaseConfig, tags |-> BaseConfig]]
  /\ cancelled = [w \in Workers |-> FALSE]
  /\ expired = [w \in Workers |-> FALSE]
  /\ targets = [w \in Workers |-> FALSE]
  /\ skipped = [w \in Workers |-> FALSE]
  /\ failed = [w \in Workers |-> FALSE]
  /\ faults = 0

-----------------------------------------------------------------------------
(* The API.                                                                *)

\* The rows that can be seen, and those an INSERT has stamped.
Submitted == {r \in Runs : status[r] # "absent"}
Stamped == {r \in Runs : startedAt[r] # 0}

\* handleDiscoveryRun sends a validated request to the database: started_at is
\* the column's default now(), the time at which the statement began.
Insert(r, req) ==
  /\ startedAt[r] = 0
  /\ startedAt' = [startedAt EXCEPT ![r] = Cardinality(Stamped) + 1]
  /\ known' = [known EXCEPT ![r] = Submitted]
  /\ request' = [request EXCEPT ![r] = req]
  /\ UNCHANGED <<status, cutShort, late, pc, cur, local, cancelled, expired, faults>>

\* The INSERT commits, before or after others that began later, or never.
Enqueue(r) ==
  /\ startedAt[r] # 0
  /\ status[r] = "absent"
  /\ status' = [status EXCEPT ![r] = "queued"]
  /\ UNCHANGED <<startedAt, request, cutShort, known, late, pc, cur, local, cancelled,
                 expired, faults>>

-----------------------------------------------------------------------------
(* The worker's loop and the claim.                                        *)

\* execCtx is done when its own deadline passed or the process is stopping.
CtxDone(w) == expired[w] \/ cancelled[w]

Fault == faults < MaxFaults /\ faults' = faults + 1

\* A step of worker w that only moves it.
Goto(w, from, to) ==
  /\ pc[w] = from
  /\ pc' = [pc EXCEPT ![w] = to]

\* The timer of Run fired.
Tick(w) ==
  /\ Goto(w, "idle", "next")
  /\ UNCHANGED <<rows, late, cur, local, cancelled, expired, faults>>

\* Run saw ctx.Done and returned.
Stop(w) ==
  /\ cancelled[w]
  /\ Goto(w, "idle", "stopped")
  /\ UNCHANGED <<rows, late, cur, local, cancelled, expired, faults>>

\* The row lock FOR UPDATE takes for as long as the claim is in flight.
Locked(r) == \E w \in Workers : pc[w] = "claim" /\ cur[w] = r

Claimable == {r \in Runs : status[r] = "queued" /\ ~Locked(r)}

\* A claim that reads the queue without locking the row it picked.
ClaimLockUnlocked(w, r) ==
  /\ ~cancelled[w]
  /\ status[r] = "queued"
  /\ \A q \in Runs : status[q] = "queued" => startedAt[r] <= startedAt[q]
  /\ Goto(w, "next", "claim")
  /\ cur' = [cur EXCEPT ![w] = r]
  /\ UNCHANGED <<rows, late, local, cancelled, expired, faults>>

\* A claim that takes the newest run first.
ClaimLockNewest(w, r) ==
  /\ ~cancelled[w]
  /\ r \in Claimable
  /\ \A q \in Claimable : startedAt[q] <= startedAt[r]
  /\ Goto(w, "next", "claim")
  /\ cur' = [cur EXCEPT ![w] = r]
  /\ UNCHANGED <<rows, late, local, cancelled, expired, faults>>

\* ClaimNextDiscoveryRun locks the oldest queued row nobody else has locked.
ClaimLock(w, r) ==
  /\ ~cancelled[w]
  /\ r \in Claimable
  /\ \A q \in Claimable : startedAt[r] <= startedAt[q]
  /\ Goto(w, "next", "claim")
  /\ cur' = [cur EXCEPT ![w] = r]
  /\ UNCHANGED <<rows, late, local, cancelled, expired, faults>>

\* ErrNoRows: the inner loop of Run ends and the timer is set again.
NoRows(w) ==
  /\ ~cancelled[w]
  /\ Claimable = {}
  /\ Goto(w, "next", "idle")
  /\ UNCHANGED <<rows, late, cur, local, cancelled, expired, faults>>

\* With a cancelled context no statement is sent.
ClaimRefused(w) ==
  /\ cancelled[w]
  /\ Goto(w, "next", "idle")
  /\ UNCHANGED <<rows, late, cur, local, cancelled, expired, faults>>

\* The database refused the statement.
ClaimError(w) ==
  /\ ~cancelled[w]
  /\ Fault
  /\ Goto(w, "next", "idle")
  /\ UNCHANGED <<rows, late, cur, local, cancelled, expired>>

\* An error that needs no new fault when the context is being cancelled.
Interrupted(w) == IF cancelled[w] THEN UNCHANGED faults ELSE Fault

\* The statement in flight was rolled back; the row is queued again.
ClaimAbort(w) ==
  /\ Interrupted(w)
  /\ Goto(w, "claim", "idle")
  /\ cur' = [cur EXCEPT ![w] = NoRun]
  /\ UNCHANGED <<rows, late, local, cancelled, expired>>

\* The statement committed but its answer was lost: the row is running and
\* no worker knows.
ClaimReplyLost(w) ==
  /\ Interrupted(w)
  /\ Goto(w, "claim", "idle")
  /\ status' = [status EXCEPT ![cur[w]] = "running"]
  /\ cur' = [cur EXCEPT ![w] = NoRun]
  /\ UNCHANGED <<startedAt, request, cutShort, known, late, local, cancelled, expired>>

\* The claim committed: applyScanPreset and applyScanTags rewrite the
\* worker's settings, each keeping what it must put back, and the run's
\* deadline starts.
ClaimCommit(w) ==
  LET req == request[cur[w]]
      preset == applyScanPreset(config[w], req.preset)
  IN /\ Goto(w, "claim", "delay")
     /\ status' = [status EXCEPT ![cur[w]] = "running"]
     /\ saved' = [saved EXCEPT ![w] = [preset |-> config[w], tags |-> preset]]
     /\ config' = [config EXCEPT ![w] = applyScanTags(preset, req.tags)]
     /\ targets' = [targets EXCEPT ![w] = FALSE]
     /\ skipped' = [skipped EXCEPT ![w] = FALSE]
     /\ failed' = [failed EXCEPT ![w] = FALSE]
     /\ expired' = [expired EXCEPT ![w] = FALSE]
     /\ UNCHANGED <<startedAt, request, cutShort, known, late, cur, cancelled, faults>>

-----------------------------------------------------------------------------
(* The phases of runOnce.                                                  *)

\* maxRuntime has passed since the claim, at any step of the run; when it is
\* between the check of failRun and its update, the history notes the run.
Expire(w) ==
  /\ pc[w] \in Holding
  /\ ~expired[w]
  /\ expired' = [expired EXCEPT ![w] = TRUE]
  /\ late' = IF pc[w] = "failctx" THEN late \cup {cur[w]} ELSE late
  /\ UNCHANGED <<rows, pc, cur, local, cancelled, faults>>

\* Moving to failRun: runOnce will return an error whatever failRun does.
GiveUp(w, from) ==
  /\ Goto(w, from, "fail")
  /\ failed' = [failed EXCEPT ![w] = TRUE]
  /\ UNCHANGED <<startedAt, request, cutShort, known, late, cur, config, saved, targets,
                 skipped, cancelled, expired>>

\* The delay elapsed, or there is none; the select may see this first even
\* when the context is done.
DelayDone(w) ==
  /\ Goto(w, "delay", "scope")
  /\ UNCHANGED <<rows, late, cur, local, cancelled, expired, faults>>

DelayCancelled(w) ==
  /\ RunDelay
  /\ CtxDone(w)
  /\ GiveUp(w, "delay")
  /\ UNCHANGED <<status, faults>>

\* No scope: the run looks at the ARP table only.
NoScope(w) ==
  /\ Goto(w, "scope", "arp")
  /\ request[cur[w]].targets = 0
  /\ UNCHANGED <<rows, late, cur, local, cancelled, expired, faults>>

\* countScopeTargets accepts a scope that fits the worker's own limit.
ScopeFits(w) ==
  /\ Goto(w, "scope", "ping")
  /\ request[cur[w]].targets \in 1 .. config[w].limits.maxTargets
  /\ UNCHANGED <<rows, late, cur, local, cancelled, expired, faults>>

ScopeTooLarge(w) ==
  /\ GiveUp(w, "scope")
  /\ request[cur[w]].targets > config[w].limits.maxTargets
  /\ UNCHANGED <<status, faults>>

\* The preflight fails at once on a done context; a deadline that passes
\* after the last address was handed out is not noticed here.
PingDone(w) ==
  /\ ~CtxDone(w)
  /\ Goto(w, "ping", "arp")
  /\ UNCHANGED <<rows, late, cur, local, cancelled, expired, faults>>

\* ping is missing or not permitted, or the sweep was cut off.
PingFailed(w) ==
  /\ GiveUp(w, "ping")
  /\ UNCHANGED <<status, faults>>

\* scrapeARP: with no entry in scope it sends no statement, so only a scrape
\* that found entries needs the context.
ArpDone(w, found) ==
  /\ found => ~CtxDone(w)
  /\ Goto(w, "arp", "enrich")
  /\ targets' = [targets EXCEPT ![w] = found]
  /\ UNCHANGED <<rows, late, cur, config, saved, skipped, failed, cancelled, expired, faults>>

\* The table could not be read or one of the statements failed.
ArpFailed(w) ==
  /\ GiveUp(w, "arp")
  /\ UNCHANGED <<status, faults>>

\* The worker pools drop what is left when the context is done, and report
\* that only in the statistics.
Phase(w, from, to, features) ==
  /\ Goto(w, from, to)
  /\ skipped' = [skipped EXCEPT ![w] =
       @ \/ (targets[w] /\ CtxDone(w) /\ config[w].features \cap features # {})]
  /\ UNCHANGED <<rows, late, cur, config, saved, targets, failed, cancelled, expired, faults>>

Enrich(w) == Phase(w, "enrich", "ports", {"names", "snmp"})

PortScan(w) == Phase(w, "ports", "finish", {"ports"})

-----------------------------------------------------------------------------
(* How a run ends.                                                         *)

MarkSucceeded(w) ==
  /\ status' = [status EXCEPT ![cur[w]] = "succeeded"]
  /\ cutShort' = [cutShort EXCEPT ![cur[w]] = skipped[w]]
  /\ UNCHANGED <<startedAt, request, known, late>>

\* A last update that outlives the run's deadline.
FinishAnyway(w) ==
  /\ Goto(w, "finish", "return")
  /\ MarkSucceeded(w)
  /\ UNCHANGED <<cur, local, cancelled, expired, faults>>

\* UpdateDiscoveryRun(succeeded) uses execCtx, so it needs the deadline open.
Finish(w) ==
  /\ ~CtxDone(w)
  /\ Goto(w, "finish", "return")
  /\ MarkSucceeded(w)
  /\ UNCHANGED <<cur, local, cancelled, expired, faults>>

\* It failed without effect, because of the context or the database.
FinishFailed(w) ==
  /\ GiveUp(w, "finish")
  /\ IF CtxDone(w) THEN UNCHANGED faults ELSE Fault
  /\ UNCHANGED status

\* It committed, and the error the worker got sends it to failRun anyway.
FinishReplyLost(w) ==
  /\ ~CtxDone(w)
  /\ Fault
  /\ Goto(w, "finish", "fail")
  /\ MarkSucceeded(w)
  /\ failed' = [failed EXCEPT ![w] = TRUE]
  /\ UNCHANGED <<cur, config, saved, targets, skipped, cancelled, expired>>

\* failRun without its fallback to a background context.
FailSameContext(w) ==
  /\ Goto(w, "fail", "failctx")
  /\ UNCHANGED <<rows, late, cur, local, cancelled, expired, faults>>

\* failRun keeps the run's context unless that is done already.
FailCheck(w) ==
  /\ Goto(w, "fail", IF CtxDone(w) THEN "failbg" ELSE "failctx")
  /\ UNCHANGED <<rows, late, cur, local, cancelled, expired, faults>>

\* The context of failRun's update is open.
FailOpen(w) == pc[w] = "failbg" \/ (pc[w] = "failctx" /\ ~CtxDone(w))

\* failRun that puts the run back in the queue.
FailRequeue(w) ==
  /\ FailOpen(w)
  /\ pc' = [pc EXCEPT ![w] = "return"]
  /\ status' = [status EXCEPT ![cur[w]] = "queued"]
  /\ UNCHANGED <<startedAt, request, cutShort, known, late, cur, local, cancelled, expired, faults>>

\* The update of failRun has no condition on the status it overwrites.
Fail(w) ==
  /\ FailOpen(w)
  /\ pc' = [pc EXCEPT ![w] = "return"]
  /\ status' = [status EXCEPT ![cur[w]] = "failed"]
  /\ UNCHANGED <<startedAt, request, cutShort, known, late, cur, local, cancelled, expired, faults>>

\* The run's context ended after the check: the update fails, its error is
\* logged and ignored, and there is no second attempt.
FailMissed(w) ==
  /\ CtxDone(w)
  /\ Goto(w, "failctx", "return")
  /\ UNCHANGED <<rows, late, cur, local, cancelled, expired, faults>>

\* The database refused the update; that error is ignored as well.
FailLost(w) ==
  /\ Fault
  /\ FailOpen(w)
  /\ pc' = [pc EXCEPT ![w] = "return"]
  /\ UNCHANGED <<rows, late, cur, local, cancelled, expired>>

\* The same closures run in the order they were registered.
RestoredInOrder(w) ==
  RestoreTags(saved[w].tags, RestorePreset(saved[w].preset, config[w]),
              request[cur[w]].tags)

\* What runOnce's deferred calls leave of the configuration: they run in
\* reverse order, tags first.
Restored(w) ==
  RestorePreset(saved[w].preset,
                RestoreTags(saved[w].tags, config[w], request[cur[w]].tags))

\* A loop that an error ends.
ReturnStops(w) ==
  /\ Goto(w, "return", IF failed[w] THEN "stopped" ELSE "next")
  /\ config' = [config EXCEPT ![w] = Restored(w)]
  /\ cur' = [cur EXCEPT ![w] = NoRun]
  /\ UNCHANGED <<rows, late, saved, targets, skipped, failed, cancelled, expired, faults>>

\* runOnce returns: on success Run calls it again, on an error it sets the
\* timer first.
Return(w) ==
  /\ Goto(w, "return", IF failed[w] THEN "idle" ELSE "next")
  /\ config' = [config EXCEPT ![w] = Restored(w)]
  /\ cur' = [cur EXCEPT ![w] = NoRun]
  /\ UNCHANGED <<rows, late, saved, targets, skipped, failed, cancelled, expired, faults>>

-----------------------------------------------------------------------------
(* The process.                                                            *)

\* SIGTERM.
Shutdown(w) ==
  /\ pc[w] # "down"
  /\ ~cancelled[w]
  /\ Fault
  /\ cancelled' = [cancelled EXCEPT ![w] = TRUE]
  /\ UNCHANGED <<rows, late, pc, cur, local, expired>>

\* main returns.  It waits for the HTTP server, and closing the pool waits
\* for a statement in flight, but nothing waits for the worker.
Exit(w) ==
  /\ cancelled[w]
  /\ pc[w] \notin {"claim", "down"}
  /\ pc' = [pc EXCEPT ![w] = "down"]
  /\ cur' = [cur EXCEPT ![w] = NoRun]
  /\ UNCHANGED <<rows, late, local, cancelled, expired, faults>>

\* The process dies.  A claim in flight is rolled back or still commits.
Crash(w) ==
  /\ pc[w] # "down"
  /\ Fault
  /\ pc' = [pc EXCEPT ![w] = "down"]
  /\ cur' = [cur EXCEPT ![w] = NoRun]
  /\ \/ UNCHANGED status
     \/ pc[w] = "claim" /\ status' = [status EXCEPT ![cur[w]] = "running"]
  /\ UNCHANGED <<startedAt, request, cutShort, known, late, local, cancelled, expired>>

\* A new process with the same environment.
Start(w) ==
  /\ Goto(w, "down", "idle")
  /\ config' = [config EXCEPT ![w] = BaseConfig]
  /\ cancelled' = [cancelled EXCEPT ![w] = FALSE]
  /\ expired' = [expired EXCEPT ![w] = FALSE]
  /\ UNCHANGED <<rows, late, cur, saved, targets, skipped, failed, faults>>

-----------------------------------------------------------------------------
\* What a worker does by itself, without a fault, a deadline or a signal.
Claiming(w) ==
  \/ Tick(w) \/ Stop(w)
  \/ \E r \in Runs : ClaimLock(w, r)
  \/ NoRows(w) \/ ClaimRefused(w) \/ ClaimCommit(w)

Executing(w) ==
  \/ DelayDone(w) \/ DelayCancelled(w)
  \/ NoScope(w) \/ ScopeFits(w) \/ ScopeTooLarge(w)
  \/ PingDone(w) \/ PingFailed(w)
  \/ \E found \in BOOLEAN : ArpDone(w, found)
  \/ ArpFailed(w) \/ Enrich(w) \/ PortScan(w)

Ending(w) ==
  \/ Finish(w) \/ FinishFailed(w)
  \/ FailCheck(w) \/ Fail(w) \/ FailMissed(w)
  \/ Return(w)

WorkerStep(w) == Claiming(w) \/ Executing(w) \/ Ending(w)

Disturbed(w) ==
  \/ Expire(w)
  \/ ClaimError(w) \/ ClaimAbort(w) \/ ClaimReplyLost(w)
  \/ FinishReplyLost(w) \/ FailLost(w)
  \/ Shutdown(w) \/ Exit(w) \/ Crash(w) \/ Start(w)

Next ==
  \/ \E r \in Runs, req \in Requests : Insert(r, req)
  \/ \E r \in Runs : Enqueue(r)
  \/ \E w \in Workers : WorkerStep(w) \/ Disturbed(w)

Spec == Init /\ [][Next]_vars

\* A goroutine that can take a step is eventually scheduled; a statement in
\* flight is eventually answered, and every wait in runOnce is bounded.
Fairness == \A w \in Workers : WF_vars(WorkerStep(w))

FairSpec == Spec /\ Fairness

-----------------------------------------------------------------------------
(* Properties.                                                             *)

Owns(w, r) == pc[w] \in Holding /\ cur[w] = r

\* Two processes polling the same table never execute the same run: the row
\* lock of ClaimNextDiscoveryRun, not the status column alone, keeps a second
\* worker from picking the row while the first claim is in flight.
ClaimExclusive ==
  \A v, w \in Workers : \A r \in Runs : Owns(v, r) /\ Owns(w, r) => v = w

\* A row that says "running" with nobody working on it is the trace of a
\* crash, a SIGTERM or a statement whose outcome the worker never learned,
\* and each of those leaves at most one such row; the one other cause is a
\* deadline that passes between failRun's check of its context and the update.
Stranded == {r \in Runs : status[r] = "running" /\ \A w \in Workers : ~Owns(w, r)}

StrandedBound == Cardinality(Stranded \ late) <= faults

\* A run that dropped targets because its time was up is never reported as
\* succeeded: enrichment and the port scan hide the interruption, and only
\* the context of the last update stops runOnce from storing "succeeded".
SucceededComplete == \A r \in Runs : status[r] = "succeeded" => ~cutShort[r]

\* A run is executed under the settings of its process changed by its own
\* preset and tags, and between runs the worker is back at those of the
\* process: no setting leaks from one run into the next, in whatever order
\* presets and tags overlap and whichever way the previous run ended.
OwnConfig ==
  \A w \in Workers :
    /\ pc[w] \in Holding =>
         config[w] = Effective(BaseConfig, request[cur[w]].preset, request[cur[w]].tags)
    /\ pc[w] \in {"idle", "next", "claim"} => config[w] = BaseConfig

\* Runs are claimed in the order they were queued, as far as that order can be
\* told: once a run has ended without any fault, none of those that were in the
\* table when it was submitted still waits.  Each has ended or is in the hands of
\* a worker other than the one that claimed it, unless failRun missed its deadline.
\* Of two submissions that overlap, either may be claimed first.
Ended(r) == status[r] \in {"succeeded", "failed"}

EarlierAreTaken ==
  \A r \in Runs :
    faults = 0 /\ Ended(r) =>
      LET rest == {q \in known[r] : ~Ended(q) /\ q \notin late}
      IN /\ Cardinality(rest) < Cardinality(Workers)
         /\ \A q \in rest : status[q] = "running" \/ Locked(q)

\* The queue implements the ledger; a worker holds a run from the commit of
\* its claim until it has written the outcome.
Ledger == INSTANCE RunLedger
            WITH held <- [w \in Workers |-> IF pc[w] \in Holding THEN cur[w] ELSE NoRun]

LedgerSpec == Ledger!Spec

\* A queued run ends, whenever its deadline passes, unless there is a fault or the
\* deadline falls between failRun's check and its update.
RunConcludes ==
  \A r \in Runs : status[r] = "queued" ~> Ended(r) \/ r \in late \/ faults > 0

\* Failed statements, crashes and deadlines do not keep a run in the queue
\* as long as one process is up that was not told to stop.
QueuedIsServed ==
  \A r \in Runs :
    status[r] = "queued" ~>
      (status[r] # "queued" \/ \A w \in Workers : pc[w] = "down" \/ cancelled[w])

\* failRun retries with a background context "so we don't leave it stuck in
\* running" when the context was cancelled, so a process that was asked to
\* stop leaves no run behind.
StopLeavesNothingRunning ==
  (\A w \in Workers : pc[w] = "down" /\ cancelled[w]) => Stranded = {}
=============================================================================
