------------------------ MODULE DiscoveryRuns_proofs ------------------------
(***************************************************************************)
(* Proofs about DiscoveryRuns for any number of processes and runs, any    *)
(* accepted requests, any process settings and any number of faults.       *)
(*                                                                         *)
(* First come facts about ScanConfig: the settings stay well-formed, and   *)
(* the two restore closures undo the two changes.  Then the inductive      *)
(* invariant: a worker that is claiming or holding a run is alone with it, *)
(* and the row says what the worker's place in runOnce implies.  Three     *)
(* more stand on it: one about the settings, one about the runs that       *)
(* nobody will conclude, one about the order in which runs are taken.      *)
(***************************************************************************)
EXTENDS DiscoveryRuns, FiniteSetTheorems, TLAPS

-----------------------------------------------------------------------------
(* Settings.                                                               *)

\* Raising or lowering a limit leaves a natural number.
LEMMA LimitsStayNat ==
  ASSUME NEW a \in Nat, NEW b \in Nat
  PROVE  MinPositive(a, b) \in Nat /\ MaxPositive(a, b) \in Nat
BY DEF MinPositive, MaxPositive

\* What a preset makes of a configuration is a configuration.
LEMMA PresetType ==
  ASSUME NEW c \in Configs, NEW preset
  PROVE  applyScanPreset(c, preset) \in Configs
<1>1. /\ \A l \in DOMAIN FastCaps : FastCaps[l] \in Nat
      /\ \A l \in LimitNames : DeepFloors[l] \in Nat
  BY DEF FastCaps, DeepFloors, LimitNames
<1>2. \A l \in LimitNames : c.limits[l] \in Nat
  BY DEF Configs
<1>3. c.features \in SUBSET Features /\ PresetFeatures \subseteq Features
  BY DEF Configs, PresetFeatures, Features
<1>4. CASE preset = "fast"
  <2> DEFINE lower == [l \in LimitNames |->
               IF l \in DOMAIN FastCaps THEN MinPositive(c.limits[l], FastCaps[l])
                                        ELSE c.limits[l]]
  <2>1. lower \in [LimitNames -> Nat]
    BY <1>1, <1>2, LimitsStayNat
  <2>2. applyScanPreset(c, preset) =
          [limits |-> lower, features |-> c.features \ PresetFeatures]
    BY <1>4 DEF applyScanPreset
  <2>3. c.features \ PresetFeatures \in SUBSET Features
    BY <1>3
  <2> QED BY <2>1, <2>2, <2>3 DEF Configs
<1>5. CASE preset = "deep"
  <2> DEFINE raise == [l \in LimitNames |-> MaxPositive(c.limits[l], DeepFloors[l])]
  <2>1. raise \in [LimitNames -> Nat]
    BY <1>1, <1>2, LimitsStayNat
  <2>2. applyScanPreset(c, preset) =
          [limits |-> raise, features |-> c.features \cup PresetFeatures]
    BY <1>5 DEF applyScanPreset
  <2>3. c.features \cup PresetFeatures \in SUBSET Features
    BY <1>3
  <2> QED BY <2>1, <2>2, <2>3 DEF Configs
<1>6. CASE preset # "fast" /\ preset # "deep"
  BY <1>6 DEF applyScanPreset
<1> QED BY <1>4, <1>5, <1>6

\* Tags only add features that exist.
LEMMA TagsType ==
  ASSUME NEW c \in Configs, NEW tags \in SUBSET ScanTags
  PROVE  applyScanTags(c, tags) \in Configs
<1>1. \A tag \in ScanTags : TagFeatures(tag) \subseteq Features
  BY DEF ScanTags, TagFeatures, Features
<1>2. UNION {TagFeatures(tag) : tag \in tags} \subseteq Features
  BY <1>1
<1>3. c.features \cup UNION {TagFeatures(tag) : tag \in tags} \in SUBSET Features
  BY <1>2 DEF Configs
<1> QED BY <1>3 DEF applyScanTags, Configs

\* The closures put back a configuration.
LEMMA RestoreType ==
  ASSUME NEW c \in Configs, NEW sp \in Configs, NEW st \in Configs, NEW tags
  PROVE  RestorePreset(sp, RestoreTags(st, c, tags)) \in Configs
<1>1. RestoreTags(st, c, tags) \in Configs
  BY DEF RestoreTags, Configs
<1> QED BY <1>1 DEF RestorePreset, Configs

\* A preset does not touch name resolution.
LEMMA PresetKeepsNames ==
  ASSUME NEW c \in Configs, NEW preset
  PROVE  applyScanPreset(c, preset).features \cap {"names"} = c.features \cap {"names"}
BY DEF applyScanPreset, PresetFeatures, Configs

\* The closures, run in reverse order of the changes, undo them, although the
\* preset's closure does not restore name resolution and the tags' closure
\* does nothing when there are no tags.
LEMMA RestoreUndoes ==
  ASSUME NEW c \in Configs, NEW preset, NEW tags \in SUBSET ScanTags
  PROVE  RestorePreset(c, RestoreTags(applyScanPreset(c, preset),
                                      Effective(c, preset, tags), tags)) = c
<1> DEFINE p == applyScanPreset(c, preset)
           r == RestoreTags(p, Effective(c, preset, tags), tags)
<1>1. p \in Configs
  BY PresetType
<1>2. r.features = p.features
  <2>1. CASE tags = {}
    BY <2>1, <1>1 DEF RestoreTags, Effective, applyScanTags, Configs
  <2>2. CASE tags # {}
    <3>1. Effective(c, preset, tags) \in Configs
      BY <1>1, TagsType DEF Effective
    <3> QED BY <2>2, <3>1 DEF RestoreTags, Configs
  <2> QED BY <2>1, <2>2
<1>3. p.features \cap {"names"} = c.features \cap {"names"}
  BY PresetKeepsNames
<1>4. (c.features \ {"names"}) \cup (r.features \cap {"names"}) = c.features
  BY <1>2, <1>3
<1>5. RestorePreset(c, r) = [limits |-> c.limits, features |-> c.features]
  BY <1>4 DEF RestorePreset
<1> QED BY <1>5 DEF Configs

-----------------------------------------------------------------------------
(* The inductive invariant.                                                *)

\* A worker that is claiming, executing or closing a run names one.
CurIsRun ==
  \A w \in Workers : pc[w] \in Holding \cup {"claim", "return"} => cur[w] \in Runs

\* What the worker's place says about the row.
RowMatches ==
  \A w \in Workers :
    /\ pc[w] = "claim" => status[cur[w]] = "queued"
    /\ pc[w] \in Phases => status[cur[w]] = "running"
    /\ pc[w] \in Failing => status[cur[w]] \in {"running", "succeeded"}
    /\ pc[w] = "return" => status[cur[w]] # "absent"

\* No two workers are claiming or holding the same run.
Alone ==
  \A v, w \in Workers :
    /\ pc[v] \in Holding \cup {"claim"}
    /\ pc[w] \in Holding \cup {"claim"}
    /\ cur[v] = cur[w]
    => v = w

\* Work is dropped only when the context of the run is done, and it stays so.
SkippedKnown ==
  \A w \in Workers : pc[w] \in Phases /\ skipped[w] => CtxDone(w)

\* A run whose deadline passed inside failRun, after its check, is noted.
LateKnown ==
  \A w \in Workers : pc[w] = "failctx" /\ expired[w] => cur[w] \in late

\* A row that can be seen has been stamped.
RowsStamped == \A r \in Submitted : startedAt[r] # 0

IInv ==
  /\ TypeOK /\ CurIsRun /\ RowMatches /\ Alone
  /\ SkippedKnown /\ SucceededComplete /\ LateKnown /\ RowsStamped

\* A step of a worker keeps the types.
LEMMA WorkerType ==
  ASSUME IInv, NEW w \in Workers, WorkerStep(w) \/ Disturbed(w)
  PROVE  TypeOK'
<1> USE DiscoveryRunsAssumption DEF IInv, TypeOK, CurIsRun, Statuses, Places, Holding, Phases, Failing, rows, local, Goto
<1>1. CASE Tick(w)
  BY <1>1 DEF Tick
<1>2. CASE Stop(w)
  BY <1>2 DEF Stop
<1>3. CASE NoRows(w)
  BY <1>3 DEF NoRows
<1>4. CASE ClaimRefused(w)
  BY <1>4 DEF ClaimRefused
<1>5. CASE ClaimCommit(w)
  <2> DEFINE req == request[cur[w]]
             preset == applyScanPreset(config[w], req.preset)
  <2>1. cur[w] \in Runs /\ config[w] \in Configs
    BY <1>5 DEF ClaimCommit
  <2>2. req.tags \in SUBSET ScanTags
    BY <2>1
  <2>3. preset \in Configs
    BY <2>1, PresetType
  <2>4. applyScanTags(preset, req.tags) \in Configs
    BY <2>2, <2>3, TagsType
  <2>5. [preset |-> config[w], tags |-> preset] \in [preset : Configs, tags : Configs]
    BY <2>1, <2>3
  <2> QED BY <1>5, <2>1, <2>4, <2>5 DEF ClaimCommit
<1>6. CASE DelayDone(w)
  BY <1>6 DEF DelayDone
<1>7. CASE DelayCancelled(w)
  BY <1>7 DEF DelayCancelled, GiveUp
<1>8. CASE NoScope(w)
  BY <1>8 DEF NoScope
<1>9. CASE ScopeFits(w)
  BY <1>9 DEF ScopeFits
<1>10. CASE ScopeTooLarge(w)
  BY <1>10 DEF ScopeTooLarge, GiveUp
<1>11. CASE PingDone(w)
  BY <1>11 DEF PingDone
<1>12. CASE PingFailed(w)
  BY <1>12 DEF PingFailed, GiveUp
<1>13. CASE ArpFailed(w)
  BY <1>13 DEF ArpFailed, GiveUp
<1>14. CASE Enrich(w)
  BY <1>14 DEF Enrich, Phase
<1>15. CASE PortScan(w)
  BY <1>15 DEF PortScan, Phase
<1>16. CASE Finish(w)
  BY <1>16 DEF Finish, MarkSucceeded
<1>17. CASE FinishFailed(w)
  BY <1>17 DEF FinishFailed, GiveUp, Fault
<1>18. CASE Fail(w)
  BY <1>18 DEF Fail, FailOpen
<1>19. CASE Return(w)
  <2>1. cur[w] \in Runs /\ config[w] \in Configs
    BY <1>19 DEF Return
  <2>2. saved[w].preset \in Configs /\ saved[w].tags \in Configs
    OBVIOUS
  <2>3. Restored(w) \in Configs
    BY <2>1, <2>2, RestoreType DEF Restored
  <2> QED BY <1>19, <2>3 DEF Return
<1>20. CASE Expire(w)
  BY <1>20 DEF Expire
<1>21. CASE ClaimError(w)
  BY <1>21 DEF ClaimError, Fault
<1>22. CASE ClaimAbort(w)
  BY <1>22 DEF ClaimAbort, Interrupted, Fault
<1>23. CASE ClaimReplyLost(w)
  BY <1>23 DEF ClaimReplyLost, Interrupted, Fault
<1>24. CASE FinishReplyLost(w)
  BY <1>24 DEF FinishReplyLost, MarkSucceeded, Fault
<1>25. CASE FailLost(w)
  BY <1>25 DEF FailLost, FailOpen, Fault
<1>26. CASE Shutdown(w)
  BY <1>26 DEF Shutdown, Fault
<1>27. CASE Exit(w)
  BY <1>27 DEF Exit
<1>28. CASE Crash(w)
  <2>1. status' \in [Runs -> Statuses]
    BY <1>28 DEF Crash
  <2>2. pc' \in [Workers -> Places] /\ cur' \in [Workers -> Runs \cup {NoRun}] /\ faults' \in Nat
    BY <1>28 DEF Crash, Fault
  <2> QED BY <1>28, <2>1, <2>2 DEF Crash
<1>29. CASE Start(w)
  BY <1>29 DEF Start
<1>30. CASE \E r \in Runs : ClaimLock(w, r)
  BY <1>30 DEF ClaimLock
<1>31. CASE \E found \in BOOLEAN : ArpDone(w, found)
  BY <1>31 DEF ArpDone
<1>32. CASE FailCheck(w)
  BY <1>32 DEF FailCheck
<1>33. CASE FailMissed(w)
  BY <1>33 DEF FailMissed
<1> QED
  BY <1>1, <1>2, <1>3, <1>4, <1>5, <1>6, <1>7, <1>8, <1>9, <1>10, <1>11, <1>12, <1>13, <1>14, <1>15, <1>16, <1>17, <1>18, <1>19, <1>20, <1>21, <1>22, <1>23, <1>24, <1>25, <1>26, <1>27, <1>28, <1>29, <1>30, <1>31, <1>32, <1>33
     DEF WorkerStep, Disturbed, Claiming, Executing, Ending

\* A step of a worker keeps rows and places in agreement.
LEMMA WorkerPlaces ==
  ASSUME IInv, NEW w \in Workers, WorkerStep(w) \/ Disturbed(w)
  PROVE  CurIsRun' /\ RowMatches'
<1> USE DiscoveryRunsAssumption DEF IInv, TypeOK, CurIsRun, RowMatches, Alone, Holding, Phases, Failing, rows, Goto
<1>1. CASE Tick(w)
  BY <1>1 DEF Tick
<1>2. CASE Stop(w)
  BY <1>2 DEF Stop
<1>3. CASE NoRows(w)
  BY <1>3 DEF NoRows
<1>4. CASE ClaimRefused(w)
  BY <1>4 DEF ClaimRefused
<1>5. CASE ClaimCommit(w)
  BY <1>5 DEF ClaimCommit
<1>6. CASE DelayDone(w)
  BY <1>6 DEF DelayDone
<1>7. CASE DelayCancelled(w)
  BY <1>7 DEF DelayCancelled, GiveUp
<1>8. CASE NoScope(w)
  BY <1>8 DEF NoScope
<1>9. CASE ScopeFits(w)
  BY <1>9 DEF ScopeFits
<1>10. CASE ScopeTooLarge(w)
  BY <1>10 DEF ScopeTooLarge, GiveUp
<1>11. CASE PingDone(w)
  BY <1>11 DEF PingDone
<1>12. CASE PingFailed(w)
  BY <1>12 DEF PingFailed, GiveUp
<1>13. CASE ArpFailed(w)
  BY <1>13 DEF ArpFailed, GiveUp
<1>14. CASE Enrich(w)
  BY <1>14 DEF Enrich, Phase
<1>15. CASE PortScan(w)
  BY <1>15 DEF PortScan, Phase
<1>16. CASE Finish(w)
  BY <1>16 DEF Finish, MarkSucceeded
<1>17. CASE FinishFailed(w)
  BY <1>17 DEF FinishFailed, GiveUp, Fault
<1>18. CASE Fail(w)
  BY <1>18 DEF Fail, FailOpen
<1>19. CASE Return(w)
  BY <1>19 DEF Return, Restored
<1>20. CASE Expire(w)
  BY <1>20 DEF Expire
<1>21. CASE ClaimError(w)
  BY <1>21 DEF ClaimError, Fault
<1>22. CASE ClaimAbort(w)
  BY <1>22 DEF ClaimAbort, Interrupted, Fault
<1>23. CASE ClaimReplyLost(w)
  BY <1>23 DEF ClaimReplyLost, Interrupted, Fault
<1>24. CASE FinishReplyLost(w)
  BY <1>24 DEF FinishReplyLost, MarkSucceeded, Fault
<1>25. CASE FailLost(w)
  BY <1>25 DEF FailLost, FailOpen, Fault
<1>26. CASE Shutdown(w)
  BY <1>26 DEF Shutdown, Fault
<1>27. CASE Exit(w)
  BY <1>27 DEF Exit
<1>28. CASE Crash(w)
  BY <1>28 DEF Crash, Fault
<1>29. CASE Start(w)
  BY <1>29 DEF Start
<1>30. CASE \E r \in Runs : ClaimLock(w, r)
  BY <1>30 DEF ClaimLock, Claimable
<1>31. CASE \E found \in BOOLEAN : ArpDone(w, found)
  BY <1>31 DEF ArpDone
<1>32. CASE FailCheck(w)
  BY <1>32 DEF FailCheck
<1>33. CASE FailMissed(w)
  BY <1>33 DEF FailMissed
<1> QED
  BY <1>1, <1>2, <1>3, <1>4, <1>5, <1>6, <1>7, <1>8, <1>9, <1>10, <1>11, <1>12, <1>13, <1>14, <1>15, <1>16, <1>17, <1>18, <1>19, <1>20, <1>21, <1>22, <1>23, <1>24, <1>25, <1>26, <1>27, <1>28, <1>29, <1>30, <1>31, <1>32, <1>33
     DEF WorkerStep, Disturbed, Claiming, Executing, Ending

\* A step of a worker leaves every run with at most one worker.
LEMMA WorkerAlone ==
  ASSUME IInv, NEW w \in Workers, WorkerStep(w) \/ Disturbed(w)
  PROVE  Alone'
<1> USE DiscoveryRunsAssumption DEF IInv, TypeOK, CurIsRun, Alone, Holding, Phases, Failing, Goto
<1>1. CASE Tick(w)
  BY <1>1 DEF Tick
<1>2. CASE Stop(w)
  BY <1>2 DEF Stop
<1>3. CASE NoRows(w)
  BY <1>3 DEF NoRows
<1>4. CASE ClaimRefused(w)
  BY <1>4 DEF ClaimRefused
<1>5. CASE ClaimCommit(w)
  BY <1>5 DEF ClaimCommit
<1>6. CASE DelayDone(w)
  BY <1>6 DEF DelayDone
<1>7. CASE DelayCancelled(w)
  BY <1>7 DEF DelayCancelled, GiveUp
<1>8. CASE NoScope(w)
  BY <1>8 DEF NoScope
<1>9. CASE ScopeFits(w)
  BY <1>9 DEF ScopeFits
<1>10. CASE ScopeTooLarge(w)
  BY <1>10 DEF ScopeTooLarge, GiveUp
<1>11. CASE PingDone(w)
  BY <1>11 DEF PingDone
<1>12. CASE PingFailed(w)
  BY <1>12 DEF PingFailed, GiveUp
<1>13. CASE ArpFailed(w)
  BY <1>13 DEF ArpFailed, GiveUp
<1>14. CASE Enrich(w)
  BY <1>14 DEF Enrich, Phase
<1>15. CASE PortScan(w)
  BY <1>15 DEF PortScan, Phase
<1>16. CASE Finish(w)
  BY <1>16 DEF Finish, MarkSucceeded
<1>17. CASE FinishFailed(w)
  BY <1>17 DEF FinishFailed, GiveUp, Fault
<1>18. CASE Fail(w)
  BY <1>18 DEF Fail, FailOpen
<1>19. CASE Return(w)
  BY <1>19 DEF Return, Restored
<1>20. CASE Expire(w)
  BY <1>20 DEF Expire
<1>21. CASE ClaimError(w)
  BY <1>21 DEF ClaimError, Fault
<1>22. CASE ClaimAbort(w)
  BY <1>22 DEF ClaimAbort, Interrupted, Fault
<1>23. CASE ClaimReplyLost(w)
  BY <1>23 DEF ClaimReplyLost, Interrupted, Fault
<1>24. CASE FinishReplyLost(w)
  BY <1>24 DEF FinishReplyLost, MarkSucceeded, Fault
<1>25. CASE FailLost(w)
  BY <1>25 DEF FailLost, FailOpen, Fault
<1>26. CASE Shutdown(w)
  BY <1>26 DEF Shutdown, Fault
<1>27. CASE Exit(w)
  BY <1>27 DEF Exit
<1>28. CASE Crash(w)
  BY <1>28 DEF Crash, Fault
<1>29. CASE Start(w)
  BY <1>29 DEF Start
<1>30. CASE \E r \in Runs : ClaimLock(w, r)
  <2>1. PICK r \in Runs : ClaimLock(w, r)
    BY <1>30
  <2>2. \A v \in Workers \ {w} :
          pc[v] \in Holding \cup {"claim"} => cur[v] # r
    BY <2>1 DEF ClaimLock, Claimable, Locked, RowMatches
  <2> QED BY <2>1, <2>2 DEF ClaimLock
<1>31. CASE \E found \in BOOLEAN : ArpDone(w, found)
  BY <1>31 DEF ArpDone
<1>32. CASE FailCheck(w)
  BY <1>32 DEF FailCheck
<1>33. CASE FailMissed(w)
  BY <1>33 DEF FailMissed
<1> QED
  BY <1>1, <1>2, <1>3, <1>4, <1>5, <1>6, <1>7, <1>8, <1>9, <1>10, <1>11, <1>12, <1>13, <1>14, <1>15, <1>16, <1>17, <1>18, <1>19, <1>20, <1>21, <1>22, <1>23, <1>24, <1>25, <1>26, <1>27, <1>28, <1>29, <1>30, <1>31, <1>32, <1>33
     DEF WorkerStep, Disturbed, Claiming, Executing, Ending

\* A step of a worker marks no curtailed run as succeeded.
LEMMA WorkerComplete ==
  ASSUME IInv, NEW w \in Workers, WorkerStep(w) \/ Disturbed(w)
  PROVE  SkippedKnown' /\ SucceededComplete' /\ LateKnown'
<1> USE DEF IInv, TypeOK, CurIsRun, RowMatches, Alone, SkippedKnown, SucceededComplete, LateKnown, CtxDone,
            Holding, Phases, Failing, rows, local, Goto
<1>1. CASE Tick(w)
  BY <1>1 DEF Tick
<1>2. CASE Stop(w)
  BY <1>2 DEF Stop
<1>3. CASE NoRows(w)
  BY <1>3 DEF NoRows
<1>4. CASE ClaimRefused(w)
  BY <1>4 DEF ClaimRefused
<1>5. CASE ClaimCommit(w)
  BY <1>5 DEF ClaimCommit
<1>6. CASE DelayDone(w)
  BY <1>6 DEF DelayDone
<1>7. CASE DelayCancelled(w)
  BY <1>7 DEF DelayCancelled, GiveUp
<1>8. CASE NoScope(w)
  BY <1>8 DEF NoScope
<1>9. CASE ScopeFits(w)
  BY <1>9 DEF ScopeFits
<1>10. CASE ScopeTooLarge(w)
  BY <1>10 DEF ScopeTooLarge, GiveUp
<1>11. CASE PingDone(w)
  BY <1>11 DEF PingDone
<1>12. CASE PingFailed(w)
  BY <1>12 DEF PingFailed, GiveUp
<1>13. CASE ArpFailed(w)
  BY <1>13 DEF ArpFailed, GiveUp
<1>14. CASE Enrich(w)
  BY <1>14 DEF Enrich, Phase
<1>15. CASE PortScan(w)
  BY <1>15 DEF PortScan, Phase
<1>16. CASE Finish(w)
  BY <1>16 DEF Finish, MarkSucceeded
<1>17. CASE FinishFailed(w)
  BY <1>17 DEF FinishFailed, GiveUp, Fault
<1>18. CASE Fail(w)
  BY <1>18 DEF Fail, FailOpen
<1>19. CASE Return(w)
  BY <1>19 DEF Return, Restored
<1>20. CASE Expire(w)
  BY <1>20 DEF Expire
<1>21. CASE ClaimError(w)
  BY <1>21 DEF ClaimError, Fault
<1>22. CASE ClaimAbort(w)
  BY <1>22 DEF ClaimAbort, Interrupted, Fault
<1>23. CASE ClaimReplyLost(w)
  BY <1>23 DEF ClaimReplyLost, Interrupted, Fault
<1>24. CASE FinishReplyLost(w)
  BY <1>24 DEF FinishReplyLost, MarkSucceeded, Fault
<1>25. CASE FailLost(w)
  BY <1>25 DEF FailLost, FailOpen, Fault
<1>26. CASE Shutdown(w)
  BY <1>26 DEF Shutdown, Fault
<1>27. CASE Exit(w)
  BY <1>27 DEF Exit
<1>28. CASE Crash(w)
  BY <1>28 DEF Crash, Fault
<1>29. CASE Start(w)
  BY <1>29 DEF Start
<1>30. CASE \E r \in Runs : ClaimLock(w, r)
  BY <1>30 DEF ClaimLock
<1>31. CASE \E found \in BOOLEAN : ArpDone(w, found)
  BY <1>31 DEF ArpDone
<1>32. CASE FailCheck(w)
  BY <1>32 DEF FailCheck
<1>33. CASE FailMissed(w)
  BY <1>33 DEF FailMissed
<1> QED
  BY <1>1, <1>2, <1>3, <1>4, <1>5, <1>6, <1>7, <1>8, <1>9, <1>10, <1>11, <1>12, <1>13, <1>14, <1>15, <1>16, <1>17, <1>18, <1>19, <1>20, <1>21, <1>22, <1>23, <1>24, <1>25, <1>26, <1>27, <1>28, <1>29, <1>30, <1>31, <1>32, <1>33
     DEF WorkerStep, Disturbed, Claiming, Executing, Ending

\* A step of a worker adds no row and changes none of what a row says of its INSERT.
LEMMA WorkerStamps ==
  ASSUME IInv, NEW w \in Workers, WorkerStep(w) \/ Disturbed(w)
  PROVE  startedAt' = startedAt /\ known' = known /\ request' = request /\ Submitted' = Submitted
<1> USE DEF IInv, TypeOK, CurIsRun, RowMatches, Holding, Phases, Failing, rows, local, Goto, Submitted
<1>1. CASE Tick(w)
  BY <1>1 DEF Tick
<1>2. CASE Stop(w)
  BY <1>2 DEF Stop
<1>3. CASE NoRows(w)
  BY <1>3 DEF NoRows
<1>4. CASE ClaimRefused(w)
  BY <1>4 DEF ClaimRefused
<1>5. CASE ClaimCommit(w)
  BY <1>5 DEF ClaimCommit
<1>6. CASE DelayDone(w)
  BY <1>6 DEF DelayDone
<1>7. CASE DelayCancelled(w)
  BY <1>7 DEF DelayCancelled, GiveUp
<1>8. CASE NoScope(w)
  BY <1>8 DEF NoScope
<1>9. CASE ScopeFits(w)
  BY <1>9 DEF ScopeFits
<1>10. CASE ScopeTooLarge(w)
  BY <1>10 DEF ScopeTooLarge, GiveUp
<1>11. CASE PingDone(w)
  BY <1>11 DEF PingDone
<1>12. CASE PingFailed(w)
  BY <1>12 DEF PingFailed, GiveUp
<1>13. CASE ArpFailed(w)
  BY <1>13 DEF ArpFailed, GiveUp
<1>14. CASE Enrich(w)
  BY <1>14 DEF Enrich, Phase
<1>15. CASE PortScan(w)
  BY <1>15 DEF PortScan, Phase
<1>16. CASE Finish(w)
  BY <1>16 DEF Finish, MarkSucceeded, CtxDone
<1>17. CASE FinishFailed(w)
  BY <1>17 DEF FinishFailed, GiveUp, Fault
<1>18. CASE Fail(w)
  BY <1>18 DEF Fail, FailOpen
<1>19. CASE Return(w)
  BY <1>19 DEF Return
<1>20. CASE Expire(w)
  BY <1>20 DEF Expire
<1>21. CASE ClaimError(w)
  BY <1>21 DEF ClaimError, Fault
<1>22. CASE ClaimAbort(w)
  BY <1>22 DEF ClaimAbort, Interrupted, Fault
<1>23. CASE ClaimReplyLost(w)
  BY <1>23 DEF ClaimReplyLost, Interrupted, Fault
<1>24. CASE FinishReplyLost(w)
  BY <1>24 DEF FinishReplyLost, MarkSucceeded, Fault, CtxDone
<1>25. CASE FailLost(w)
  BY <1>25 DEF FailLost, FailOpen, Fault
<1>26. CASE Shutdown(w)
  BY <1>26 DEF Shutdown, Fault
<1>27. CASE Exit(w)
  BY <1>27 DEF Exit
<1>28. CASE Crash(w)
  BY <1>28 DEF Crash, Fault
<1>29. CASE Start(w)
  BY <1>29 DEF Start
<1>30. CASE \E r \in Runs : ClaimLock(w, r)
  BY <1>30 DEF ClaimLock
<1>31. CASE \E found \in BOOLEAN : ArpDone(w, found)
  BY <1>31 DEF ArpDone
<1>32. CASE FailCheck(w)
  BY <1>32 DEF FailCheck
<1>33. CASE FailMissed(w)
  BY <1>33 DEF FailMissed
<1> QED
  BY <1>1, <1>2, <1>3, <1>4, <1>5, <1>6, <1>7, <1>8, <1>9, <1>10, <1>11, <1>12, <1>13, <1>14, <1>15, <1>16, <1>17, <1>18, <1>19, <1>20, <1>21, <1>22, <1>23, <1>24, <1>25, <1>26, <1>27, <1>28, <1>29, <1>30, <1>31, <1>32, <1>33
     DEF WorkerStep, Disturbed, Claiming, Executing, Ending

\* An INSERT that begins disturbs no worker: its row cannot be seen.
LEMMA InsertStep ==
  ASSUME IInv, NEW r \in Runs, NEW req \in Requests, Insert(r, req)
  PROVE  IInv' /\ r \notin Submitted
<1> USE DEF IInv, Insert, local
<1>1. TypeOK'
  <2>1. Submitted \subseteq Runs /\ Stamped \subseteq Runs
    BY DEF Submitted, Stamped
  <2>2. Cardinality(Stamped) \in Nat
    BY <2>1, DiscoveryRunsAssumption, FS_Subset, FS_CardinalityType
  <2> QED BY <2>1, <2>2, DiscoveryRunsAssumption DEF TypeOK, Statuses
<1>2. CurIsRun' /\ RowMatches'
  BY DEF TypeOK, CurIsRun, RowMatches, Holding, Phases, Failing
<1>3. Alone' /\ SkippedKnown' /\ LateKnown'
  BY DEF Alone, SkippedKnown, CtxDone, LateKnown
<1>4. SucceededComplete'
  BY DEF SucceededComplete, TypeOK
<1>5. RowsStamped' /\ r \notin Submitted
  <2>1. Submitted' = Submitted /\ r \notin Submitted
    BY DEF Submitted, RowsStamped
  <2>2. \A q \in Submitted : startedAt'[q] = startedAt[q]
    BY <2>1 DEF Submitted, TypeOK
  <2> QED BY <2>1, <2>2 DEF RowsStamped
<1> QED BY <1>1, <1>2, <1>3, <1>4, <1>5

\* Nor does its commit: the row could not be seen, so none holds it.
LEMMA EnqueueStep ==
  ASSUME IInv, NEW r \in Runs, Enqueue(r)
  PROVE  IInv' /\ Submitted' = Submitted \cup {r} /\ r \notin Submitted
<1> USE DEF IInv, Enqueue, local
<1>1. TypeOK'
  BY DEF TypeOK, Statuses
<1>2. CurIsRun' /\ RowMatches'
  BY DEF TypeOK, CurIsRun, RowMatches, Holding, Phases, Failing
<1>3. Alone' /\ SkippedKnown' /\ LateKnown'
  BY DEF Alone, SkippedKnown, CtxDone, LateKnown
<1>4. SucceededComplete'
  BY DEF SucceededComplete, TypeOK
<1>5. Submitted' = Submitted \cup {r} /\ r \notin Submitted
  BY DEF Submitted, TypeOK
<1>6. RowsStamped'
  BY <1>5 DEF RowsStamped
<1> QED BY <1>1, <1>2, <1>3, <1>4, <1>5, <1>6

LEMMA IInvInit == Init => IInv
<1> SUFFICES ASSUME Init PROVE IInv
  OBVIOUS
<1> USE DEF Init
<1>1. TypeOK
  <2>1. NoRequest \in [targets : Nat, preset : Presets, tags : SUBSET ScanTags]
    BY DEF NoRequest, Presets
  <2> QED BY <2>1, DiscoveryRunsAssumption DEF TypeOK, Statuses, Places, Holding, Phases, Failing
<1>2. CurIsRun /\ RowMatches /\ Alone /\ SkippedKnown
  BY DEF CurIsRun, RowMatches, Alone, SkippedKnown, Holding, Phases, Failing
<1>3. SucceededComplete /\ LateKnown /\ RowsStamped
  BY DEF SucceededComplete, LateKnown, RowsStamped, Submitted
<1> QED BY <1>1, <1>2, <1>3 DEF IInv

LEMMA IInvStep == IInv /\ [Next]_vars => IInv'
<1> SUFFICES ASSUME IInv, [Next]_vars PROVE IInv'
  OBVIOUS
<1>1. CASE UNCHANGED vars
  BY <1>1 DEF IInv, TypeOK, CurIsRun, RowMatches, Alone, SkippedKnown, CtxDone,
              SucceededComplete, LateKnown, RowsStamped, Submitted, vars, rows, local
<1>2. CASE (\E r \in Runs, req \in Requests : Insert(r, req)) \/ (\E r \in Runs : Enqueue(r))
  BY <1>2, InsertStep, EnqueueStep
<1>3. CASE \E w \in Workers : WorkerStep(w) \/ Disturbed(w)
  <2>1. PICK w \in Workers : WorkerStep(w) \/ Disturbed(w)
    BY <1>3
  <2>2. TypeOK'
    BY <2>1, WorkerType
  <2>3. CurIsRun' /\ RowMatches'
    BY <2>1, WorkerPlaces
  <2>4. Alone'
    BY <2>1, WorkerAlone
  <2>5. SkippedKnown' /\ SucceededComplete' /\ LateKnown'
    BY <2>1, WorkerComplete
  <2>6. RowsStamped'
    BY <2>1, WorkerStamps DEF IInv, RowsStamped
  <2> QED BY <2>2, <2>3, <2>4, <2>5, <2>6 DEF IInv
<1> QED BY <1>1, <1>2, <1>3 DEF Next

LEMMA IInvHolds == Spec => []IInv
BY IInvInit, IInvStep, PTL DEF Spec

-----------------------------------------------------------------------------
(* Safety.                                                                 *)

\* Every variable keeps its type in every execution.
THEOREM TypeCorrect == Spec => []TypeOK
<1>1. IInv => TypeOK
  BY DEF IInv
<1> QED BY <1>1, IInvHolds, PTL

\* However many processes poll the queue, no run is executed by two of them:
\* the row lock of the claim and the status it writes together exclude it.
THEOREM ClaimIsExclusive == Spec => []ClaimExclusive
<1>1. IInv => ClaimExclusive
  BY DEF IInv, Alone, ClaimExclusive, Owns
<1> QED BY <1>1, IInvHolds, PTL

\* A run whose work was curtailed by its deadline or by a shutdown is never
\* recorded as succeeded.
THEOREM SucceededIsComplete == Spec => []SucceededComplete
<1>1. IInv => SucceededComplete
  BY DEF IInv
<1> QED BY <1>1, IInvHolds, PTL

-----------------------------------------------------------------------------
(* Settings do not leak between runs.                                      *)

\* What the closures captured, while a run is being executed or closed.
SavedFor(w) ==
  LET req == request[cur[w]]
  IN /\ saved[w] = [preset |-> BaseConfig, tags |-> applyScanPreset(BaseConfig, req.preset)]
     /\ config[w] = Effective(BaseConfig, req.preset, req.tags)

SettingsInv ==
  \A w \in Workers :
    /\ pc[w] \in Holding \cup {"return"} => SavedFor(w)
    /\ pc[w] \in {"idle", "next", "claim"} => config[w] = BaseConfig

\* A step of a worker keeps its own settings in order; those of the others
\* are out of its reach.
LEMMA WorkerSettings ==
  ASSUME IInv, SettingsInv, NEW w \in Workers, WorkerStep(w) \/ Disturbed(w)
  PROVE  SettingsInv'
<1> USE DEF IInv, TypeOK, CurIsRun, SettingsInv, SavedFor, Holding, Phases, Failing, rows, local, Goto
<1>1. CASE Tick(w)
  BY <1>1 DEF Tick
<1>2. CASE Stop(w)
  BY <1>2 DEF Stop
<1>3. CASE NoRows(w)
  BY <1>3 DEF NoRows
<1>4. CASE ClaimRefused(w)
  BY <1>4 DEF ClaimRefused
<1>5. CASE ClaimCommit(w)
  <2>1. config[w] = BaseConfig
    BY <1>5 DEF ClaimCommit
  <2> QED BY <1>5, <2>1 DEF ClaimCommit, Effective
<1>6. CASE DelayDone(w)
  BY <1>6 DEF DelayDone
<1>7. CASE DelayCancelled(w)
  BY <1>7 DEF DelayCancelled, GiveUp
<1>8. CASE NoScope(w)
  BY <1>8 DEF NoScope
<1>9. CASE ScopeFits(w)
  BY <1>9 DEF ScopeFits
<1>10. CASE ScopeTooLarge(w)
  BY <1>10 DEF ScopeTooLarge, GiveUp
<1>11. CASE PingDone(w)
  BY <1>11 DEF PingDone
<1>12. CASE PingFailed(w)
  BY <1>12 DEF PingFailed, GiveUp
<1>13. CASE ArpFailed(w)
  BY <1>13 DEF ArpFailed, GiveUp
<1>14. CASE Enrich(w)
  BY <1>14 DEF Enrich, Phase
<1>15. CASE PortScan(w)
  BY <1>15 DEF PortScan, Phase
<1>16. CASE Finish(w)
  BY <1>16 DEF Finish, MarkSucceeded
<1>17. CASE FinishFailed(w)
  BY <1>17 DEF FinishFailed, GiveUp
<1>18. CASE Fail(w)
  BY <1>18 DEF Fail, FailOpen
<1>19. CASE Return(w)
  <2> DEFINE req == request[cur[w]]
  <2>1. cur[w] \in Runs /\ SavedFor(w)
    BY <1>19 DEF Return
  <2>2. req.tags \in SUBSET ScanTags
    BY <2>1
  <2>3. Restored(w) = BaseConfig
    BY <2>1, <2>2, RestoreUndoes, DiscoveryRunsAssumption DEF Restored
  <2> QED BY <1>19, <2>3 DEF Return
<1>20. CASE Expire(w)
  BY <1>20 DEF Expire
<1>21. CASE ClaimError(w)
  BY <1>21 DEF ClaimError
<1>22. CASE ClaimAbort(w)
  BY <1>22 DEF ClaimAbort
<1>23. CASE ClaimReplyLost(w)
  BY <1>23 DEF ClaimReplyLost
<1>24. CASE FinishReplyLost(w)
  BY <1>24 DEF FinishReplyLost, MarkSucceeded
<1>25. CASE FailLost(w)
  BY <1>25 DEF FailLost, FailOpen
<1>26. CASE Shutdown(w)
  BY <1>26 DEF Shutdown
<1>27. CASE Exit(w)
  BY <1>27 DEF Exit
<1>28. CASE Crash(w)
  BY <1>28 DEF Crash
<1>29. CASE Start(w)
  BY <1>29 DEF Start
<1>30. CASE \E r \in Runs : ClaimLock(w, r)
  BY <1>30 DEF ClaimLock
<1>31. CASE \E found \in BOOLEAN : ArpDone(w, found)
  BY <1>31 DEF ArpDone
<1>32. CASE FailCheck(w)
  BY <1>32 DEF FailCheck
<1>33. CASE FailMissed(w)
  BY <1>33 DEF FailMissed
<1> QED
  BY <1>1, <1>2, <1>3, <1>4, <1>5, <1>6, <1>7, <1>8, <1>9, <1>10, <1>11, <1>12, <1>13, <1>14, <1>15, <1>16, <1>17, <1>18, <1>19, <1>20, <1>21, <1>22, <1>23, <1>24, <1>25, <1>26, <1>27, <1>28, <1>29, <1>30, <1>31, <1>32, <1>33
     DEF WorkerStep, Disturbed, Claiming, Executing, Ending

LEMMA SettingsStep == IInv /\ SettingsInv /\ [Next]_vars => SettingsInv'
<1> SUFFICES ASSUME IInv, SettingsInv, [Next]_vars PROVE SettingsInv'
  OBVIOUS
<1>1. CASE UNCHANGED vars
  BY <1>1 DEF SettingsInv, SavedFor, vars, rows, local
<1>2. ASSUME NEW r \in Runs, NEW req \in Requests, Insert(r, req)
      PROVE  SettingsInv'
  <2>0. r \notin Submitted
    BY <1>2, InsertStep
  <2>1. \A w \in Workers : pc[w] \in Holding \cup {"return"} => cur[w] # r
    BY <2>0 DEF IInv, RowMatches, Holding, Submitted
  <2>2. /\ UNCHANGED <<pc, cur, config, saved>>
        /\ \A q \in Runs : q # r => request'[q] = request[q]
    BY <1>2 DEF Insert, local, IInv, TypeOK
  <2> QED BY <2>1, <2>2 DEF SettingsInv, SavedFor, IInv, CurIsRun
<1>4. ASSUME NEW r \in Runs, Enqueue(r) PROVE SettingsInv'
  BY <1>4 DEF Enqueue, SettingsInv, SavedFor, local
<1>3. CASE \E w \in Workers : WorkerStep(w) \/ Disturbed(w)
  BY <1>3, WorkerSettings
<1> QED BY <1>1, <1>2, <1>3, <1>4 DEF Next

LEMMA SettingsHold == Spec => []SettingsInv
<1>1. Init => SettingsInv
  BY DEF Init, SettingsInv, Holding, Phases, Failing
<1> QED BY <1>1, IInvHolds, SettingsStep, PTL DEF Spec

\* Every run is executed under its own preset and tags over the settings of
\* the process, whatever ran before it and however that ended.
THEOREM OwnConfigHolds == Spec => []OwnConfig
<1>1. SettingsInv => OwnConfig
  BY DEF SettingsInv, SavedFor, OwnConfig
<1> QED BY <1>1, SettingsHold, PTL

-----------------------------------------------------------------------------
(* The queue implements the ledger.                                        *)

\* Every step of a worker is a step of the ledger or none.
LEMMA WorkerRefines ==
  ASSUME IInv, NEW w \in Workers, WorkerStep(w) \/ Disturbed(w)
  PROVE  [Ledger!Next]_(Ledger!vars)
<1> USE DiscoveryRunsAssumption DEF IInv, TypeOK, CurIsRun, RowMatches, Holding, Phases, Failing, rows, local, Goto,
            Ledger!vars
<1>1. CASE Tick(w)
  BY <1>1 DEF Tick
<1>2. CASE Stop(w)
  BY <1>2 DEF Stop
<1>3. CASE NoRows(w)
  BY <1>3 DEF NoRows
<1>4. CASE ClaimRefused(w)
  BY <1>4 DEF ClaimRefused
<1>5. CASE ClaimCommit(w)
  <2>1. PICK r \in Runs : r = cur[w]
    BY <1>5 DEF ClaimCommit
  <2>2. Ledger!Claim(w, r)
    BY <1>5, <2>1 DEF ClaimCommit, Ledger!Claim
  <2> QED BY <2>2 DEF Ledger!Next
<1>6. CASE DelayDone(w)
  BY <1>6 DEF DelayDone
<1>7. CASE DelayCancelled(w)
  BY <1>7 DEF DelayCancelled, GiveUp
<1>8. CASE NoScope(w)
  BY <1>8 DEF NoScope
<1>9. CASE ScopeFits(w)
  BY <1>9 DEF ScopeFits
<1>10. CASE ScopeTooLarge(w)
  BY <1>10 DEF ScopeTooLarge, GiveUp
<1>11. CASE PingDone(w)
  BY <1>11 DEF PingDone
<1>12. CASE PingFailed(w)
  BY <1>12 DEF PingFailed, GiveUp
<1>13. CASE ArpFailed(w)
  BY <1>13 DEF ArpFailed, GiveUp
<1>14. CASE Enrich(w)
  BY <1>14 DEF Enrich, Phase
<1>15. CASE PortScan(w)
  BY <1>15 DEF PortScan, Phase
<1>16. CASE Finish(w)
  <2>1. Ledger!Conclude(w, cur[w], "succeeded")
    BY <1>16 DEF Finish, MarkSucceeded, Ledger!Conclude
  <2> QED BY <1>16, <2>1 DEF Finish, Ledger!Next
<1>17. CASE FinishFailed(w)
  BY <1>17 DEF FinishFailed, GiveUp
<1>18. CASE Fail(w)
  <2>1. Ledger!Conclude(w, cur[w], "failed")
    BY <1>18 DEF Fail, FailOpen, Ledger!Conclude
  <2> QED BY <1>18, <2>1 DEF Fail, Ledger!Next
<1>19. CASE Return(w)
  BY <1>19 DEF Return
<1>20. CASE Expire(w)
  BY <1>20 DEF Expire
<1>21. CASE ClaimError(w)
  BY <1>21 DEF ClaimError
<1>22. CASE ClaimAbort(w)
  BY <1>22 DEF ClaimAbort
<1>23. CASE ClaimReplyLost(w)
  <2>1. Ledger!ClaimUnheld(cur[w])
    BY <1>23 DEF ClaimReplyLost, Ledger!ClaimUnheld
  <2> QED BY <1>23, <2>1 DEF ClaimReplyLost, Ledger!Next
<1>24. CASE FinishReplyLost(w)
  <2>1. Ledger!Conclude(w, cur[w], "succeeded")
    BY <1>24 DEF FinishReplyLost, MarkSucceeded, Ledger!Conclude
  <2> QED BY <1>24, <2>1 DEF FinishReplyLost, Ledger!Next
<1>25. CASE FailLost(w)
  <2>1. Ledger!Drop(w)
    BY <1>25 DEF FailLost, FailOpen, Ledger!Drop
  <2> QED BY <2>1 DEF Ledger!Next
<1>26. CASE Shutdown(w)
  BY <1>26 DEF Shutdown
<1>27. CASE Exit(w)
  <2>1. Ledger!Drop(w)
    BY <1>27 DEF Exit, Ledger!Drop
  <2> QED BY <2>1 DEF Ledger!Next
<1>28. CASE Crash(w)
  <2>1. CASE UNCHANGED status
    <3>1. Ledger!Drop(w)
      BY <1>28, <2>1 DEF Crash, Ledger!Drop
    <3> QED BY <3>1 DEF Ledger!Next
  <2>2. CASE pc[w] = "claim" /\ status' = [status EXCEPT ![cur[w]] = "running"]
    <3>1. Ledger!ClaimUnheld(cur[w])
      BY <1>28, <2>2 DEF Crash, Ledger!ClaimUnheld
    <3> QED BY <2>2, <3>1 DEF Ledger!Next
  <2> QED BY <1>28, <2>1, <2>2 DEF Crash
<1>29. CASE Start(w)
  BY <1>29 DEF Start
<1>30. CASE \E r \in Runs : ClaimLock(w, r)
  BY <1>30 DEF ClaimLock
<1>31. CASE \E found \in BOOLEAN : ArpDone(w, found)
  BY <1>31 DEF ArpDone
<1>32. CASE FailCheck(w)
  BY <1>32 DEF FailCheck
<1>33. CASE FailMissed(w)
  <2>1. Ledger!Drop(w)
    BY <1>33 DEF FailMissed, Ledger!Drop
  <2> QED BY <2>1 DEF Ledger!Next
<1> QED
  BY <1>1, <1>2, <1>3, <1>4, <1>5, <1>6, <1>7, <1>8, <1>9, <1>10, <1>11, <1>12, <1>13, <1>14, <1>15, <1>16, <1>17, <1>18, <1>19, <1>20, <1>21, <1>22, <1>23, <1>24, <1>25, <1>26, <1>27, <1>28, <1>29, <1>30, <1>31, <1>32, <1>33
     DEF WorkerStep, Disturbed, Claiming, Executing, Ending

LEMMA LedgerInit == Init => Ledger!Init
BY DEF Init, Ledger!Init, Holding, Phases, Failing

LEMMA LedgerStep == IInv /\ [Next]_vars => [Ledger!Next]_(Ledger!vars)
<1> SUFFICES ASSUME IInv, [Next]_vars PROVE [Ledger!Next]_(Ledger!vars)
  OBVIOUS
<1>1. CASE UNCHANGED vars
  BY <1>1 DEF vars, rows, Ledger!vars
<1>2. ASSUME NEW r \in Runs, Enqueue(r)
      PROVE  [Ledger!Next]_(Ledger!vars)
  <2>1. Ledger!Submit(r)
    BY <1>2 DEF Enqueue, Ledger!Submit
  <2> QED BY <2>1 DEF Ledger!Next
<1>3. CASE \E w \in Workers : WorkerStep(w) \/ Disturbed(w)
  BY <1>3, WorkerRefines
<1>4. ASSUME NEW r \in Runs, NEW req \in Requests, Insert(r, req)
      PROVE  [Ledger!Next]_(Ledger!vars)
  BY <1>4 DEF Insert, Ledger!vars
<1> QED BY <1>1, <1>2, <1>3, <1>4 DEF Next

\* The run queue implements the ledger: a row is submitted once, claimed once,
\* and concluded only by the worker that claimed it.
THEOREM QueueImplementsLedger == Spec => LedgerSpec
<1>1. Init => Ledger!Init
  BY LedgerInit
<1>2. IInv /\ [Next]_vars => [Ledger!Next]_(Ledger!vars)
  BY LedgerStep
<1> QED BY <1>1, <1>2, IInvHolds, PTL DEF Spec, LedgerSpec, Ledger!Spec

-----------------------------------------------------------------------------
(* Runs that nobody will conclude, and those a process that was told to    *)
(* stop will leave so.  Each has its fault.                                *)

At(w, r) == pc[w] \in Holding \cup {"claim"} /\ cur[w] = r

Doomed(r) == \E w \in Workers : At(w, r) /\ cancelled[w]

Lost == (Stranded \cup {r \in Runs : Doomed(r)}) \ late

\* What a worker's step changes of a run: only that of its own, and only rows it holds.
LostKept(w) == Lost' \subseteq Lost /\ faults' >= faults

LostOne(w) == Lost' \subseteq Lost \cup {cur[w]} /\ faults' = faults + 1

LEMMA WorkerLost ==
  ASSUME IInv, NEW w \in Workers, WorkerStep(w) \/ Disturbed(w)
  PROVE  LostKept(w) \/ LostOne(w)
<1> USE DEF IInv, TypeOK, CurIsRun, RowMatches, Alone, LateKnown, Holding, Phases, Failing, rows, local, Goto, LostKept, LostOne, Lost, Stranded, Doomed, At, Owns
<1>1. CASE Tick(w)
  BY <1>1 DEF Tick
<1>2. CASE Stop(w)
  BY <1>2 DEF Stop
<1>3. CASE NoRows(w)
  BY <1>3 DEF NoRows
<1>4. CASE ClaimRefused(w)
  BY <1>4 DEF ClaimRefused
<1>5. CASE ClaimCommit(w)
  BY <1>5 DEF ClaimCommit
<1>6. CASE DelayDone(w)
  BY <1>6 DEF DelayDone
<1>7. CASE DelayCancelled(w)
  BY <1>7 DEF DelayCancelled, GiveUp
<1>8. CASE NoScope(w)
  BY <1>8 DEF NoScope
<1>9. CASE ScopeFits(w)
  BY <1>9 DEF ScopeFits
<1>10. CASE ScopeTooLarge(w)
  BY <1>10 DEF ScopeTooLarge, GiveUp
<1>11. CASE PingDone(w)
  BY <1>11 DEF PingDone
<1>12. CASE PingFailed(w)
  BY <1>12 DEF PingFailed, GiveUp
<1>13. CASE ArpFailed(w)
  BY <1>13 DEF ArpFailed, GiveUp
<1>14. CASE Enrich(w)
  BY <1>14 DEF Enrich, Phase
<1>15. CASE PortScan(w)
  BY <1>15 DEF PortScan, Phase
<1>16. CASE Finish(w)
  BY <1>16 DEF Finish, MarkSucceeded, CtxDone
<1>17. CASE FinishFailed(w)
  BY <1>17 DEF FinishFailed, GiveUp, Fault
<1>18. CASE Fail(w)
  BY <1>18 DEF Fail, FailOpen
<1>19. CASE Return(w)
  BY <1>19 DEF Return
<1>20. CASE Expire(w)
  BY <1>20 DEF Expire
<1>21. CASE ClaimError(w)
  BY <1>21 DEF ClaimError, Fault
<1>22. CASE ClaimAbort(w)
  BY <1>22 DEF ClaimAbort, Interrupted, Fault
<1>23. CASE ClaimReplyLost(w)
  BY <1>23 DEF ClaimReplyLost, Interrupted, Fault
<1>24. CASE FinishReplyLost(w)
  BY <1>24 DEF FinishReplyLost, MarkSucceeded, Fault, CtxDone
<1>25. CASE FailLost(w)
  BY <1>25 DEF FailLost, FailOpen, Fault
<1>26. CASE Shutdown(w)
  BY <1>26 DEF Shutdown, Fault
<1>27. CASE Exit(w)
  BY <1>27 DEF Exit
<1>28. CASE Crash(w)
  BY <1>28 DEF Crash, Fault
<1>29. CASE Start(w)
  BY <1>29 DEF Start
<1>30. CASE \E r \in Runs : ClaimLock(w, r)
  BY <1>30 DEF ClaimLock
<1>31. CASE \E found \in BOOLEAN : ArpDone(w, found)
  BY <1>31 DEF ArpDone
<1>32. CASE FailCheck(w)
  BY <1>32 DEF FailCheck
<1>33. CASE FailMissed(w)
  BY <1>33 DEF FailMissed, CtxDone
<1> QED
  BY <1>1, <1>2, <1>3, <1>4, <1>5, <1>6, <1>7, <1>8, <1>9, <1>10, <1>11, <1>12, <1>13, <1>14, <1>15, <1>16, <1>17, <1>18, <1>19, <1>20, <1>21, <1>22, <1>23, <1>24, <1>25, <1>26, <1>27, <1>28, <1>29, <1>30, <1>31, <1>32, <1>33
     DEF WorkerStep, Disturbed, Claiming, Executing, Ending

LostBound == Cardinality(Lost) <= faults

LEMMA RunsAreFinite ==
  ASSUME NEW S \in SUBSET Runs
  PROVE  IsFiniteSet(S) /\ Cardinality(S) \in Nat
BY DiscoveryRunsAssumption, FS_Subset, FS_CardinalityType

LEMMA LostAreRuns == Lost \subseteq Runs
BY DEF Lost, Stranded, Doomed

LEMMA LostSubmit ==
  ASSUME IInv, NEW r \in Runs, (\E req \in Requests : Insert(r, req)) \/ Enqueue(r)
  PROVE  Lost' = Lost /\ faults' = faults
<1>1. /\ pc' = pc /\ cur' = cur /\ cancelled' = cancelled /\ late' = late /\ faults' = faults
      /\ \/ status' = status
         \/ status' = [status EXCEPT ![r] = "queued"] /\ status[r] = "absent"
  BY DEF Insert, Enqueue
<1>2. status \in [Runs -> Statuses]
  BY DEF IInv, TypeOK
<1>3. Stranded' = Stranded
  BY <1>1, <1>2 DEF Stranded, Owns
<1>4. \A q \in Runs : Doomed(q)' <=> Doomed(q)
  BY <1>1 DEF Doomed, At
<1> QED BY <1>1, <1>3, <1>4 DEF Lost

LEMMA LostStep ==
  ASSUME IInv, LostBound, [Next]_vars
  PROVE  LostBound'
<1>0. /\ IsFiniteSet(Lost) /\ Cardinality(Lost) \in Nat /\ faults \in Nat
      /\ Cardinality(Lost) <= faults
  BY LostAreRuns, RunsAreFinite DEF IInv, TypeOK, LostBound
<1>1. ASSUME Lost' = Lost, faults' = faults PROVE LostBound'
  BY <1>0, <1>1 DEF LostBound
<1>2. CASE UNCHANGED vars
  <2>1. Lost' = Lost
    BY <1>2 DEF Lost, Stranded, Doomed, At, Owns, vars, rows
  <2> QED BY <1>1, <1>2, <2>1 DEF vars
<1>3. ASSUME NEW r \in Runs, (\E req \in Requests : Insert(r, req)) \/ Enqueue(r) PROVE LostBound'
  BY <1>1, <1>3, LostSubmit
<1>4. ASSUME NEW w \in Workers, WorkerStep(w) \/ Disturbed(w) PROVE LostBound'
  <2>0. IInv' /\ faults' \in Nat
    BY <1>4, IInvStep DEF Next, IInv, TypeOK
  <2>1. CASE LostKept(w)
    <3>1. Cardinality(Lost') \in Nat /\ Cardinality(Lost') <= Cardinality(Lost)
      BY <1>0, <2>1, FS_Subset, FS_CardinalityType DEF LostKept
    <3> QED BY <1>0, <2>0, <2>1, <3>1 DEF LostKept, LostBound
  <2>2. CASE LostOne(w)
    <3> DEFINE more == Lost \cup {cur[w]}
    <3>1. /\ IsFiniteSet(more) /\ Cardinality(more) \in Nat
          /\ Cardinality(more) <= Cardinality(Lost) + 1
      <4>1. /\ IsFiniteSet(more)
            /\ Cardinality(more) = IF cur[w] \in Lost THEN Cardinality(Lost) ELSE Cardinality(Lost) + 1
        BY <1>0, FS_AddElement, Zenon
      <4> HIDE DEF more
      <4> QED BY <1>0, <4>1
    <3>2. Cardinality(Lost') \in Nat /\ Cardinality(Lost') <= Cardinality(more)
      <4> HIDE DEF more
      <4>1. Lost' \subseteq more
        BY <2>2 DEF LostOne, more
      <4> QED BY <3>1, <4>1, FS_Subset, FS_CardinalityType
    <3>3. faults' = faults + 1
      BY <2>2 DEF LostOne
    <3> HIDE DEF more
    <3>4. Cardinality(Lost') <= faults'
      BY <1>0, <3>1, <3>2, <3>3
    <3> QED BY <3>4 DEF LostBound
  <2> QED BY <1>4, <2>1, <2>2, WorkerLost
<1> QED BY <1>2, <1>3, <1>4 DEF Next

LEMMA LostHolds == Spec => []LostBound
<1>1. Init => LostBound
  <2> SUFFICES ASSUME Init PROVE LostBound
    OBVIOUS
  <2>1. Lost = {}
    BY DEF Init, Lost, Stranded, Doomed
  <2>2. faults = 0
    BY DEF Init
  <2> QED BY <2>1, <2>2, FS_EmptySet DEF LostBound
<1>2. IInv /\ LostBound /\ [Next]_vars => LostBound'
  BY LostStep
<1> QED BY <1>1, <1>2, IInvHolds, PTL DEF Spec

\* No more rows are left at "running" with nobody on them than there were crashes,
\* shutdowns and lost statements, for any number of processes, runs and faults, but
\* those whose deadline passed between failRun's check and its update.
THEOREM StrandedIsBounded == Spec => []StrandedBound
<1>1. IInv /\ LostBound => StrandedBound
  <2> SUFFICES ASSUME IInv, LostBound PROVE StrandedBound
    OBVIOUS
  <2>1. Stranded \ late \in SUBSET Lost /\ Lost \in SUBSET Runs
    BY LostAreRuns DEF Lost
  <2>2. Cardinality(Stranded \ late) \in Nat /\ Cardinality(Lost) \in Nat
    BY <2>1, RunsAreFinite
  <2>3. Cardinality(Stranded \ late) <= Cardinality(Lost)
    BY <2>1, RunsAreFinite, FS_Subset
  <2>4. faults \in Nat
    BY DEF IInv, TypeOK
  <2> QED BY <2>2, <2>3, <2>4 DEF StrandedBound, LostBound
<1> QED BY <1>1, IInvHolds, LostHolds, PTL

-----------------------------------------------------------------------------
(* The order of submission: a run is taken only when all that could be seen *)
(* when its INSERT began have been.                                         *)

HasRun(w) == pc[w] \in Holding \cup {"claim"}

Taken == Submitted \ Claimable

\* A row that could be seen when another's INSERT began is stamped earlier.
InsertOrder ==
  /\ \A r \in Runs : startedAt[r] <= Cardinality(Stamped)
  /\ \A r \in Runs : \A q \in known[r] : q \in Submitted /\ startedAt[q] < startedAt[r]

\* Without a fault nobody was told to stop, what could be seen when a run that was taken
\* was submitted is taken, and for each run taken a worker has none of those.
Orderly ==
  /\ \A w \in Workers : ~cancelled[w] /\ pc[w] \notin {"stopped", "down"}
  /\ \A r \in Taken : known[r] \subseteq Taken
  /\ \A r \in Taken : \E w \in Workers : HasRun(w) => cur[w] \notin known[r]

OrderInv == InsertOrder /\ (faults = 0 => Orderly)

\* A step that takes no run.
TakesNothing ==
  /\ known' = known /\ Submitted' = Submitted /\ Claimable' = Claimable
  /\ \A w \in Workers : ~cancelled'[w] /\ pc'[w] \notin {"stopped", "down"}
  /\ \A w \in Workers : HasRun(w)' => HasRun(w) /\ cur'[w] = cur[w]

LEMMA WorkerTakesNothing ==
  ASSUME IInv, NEW w \in Workers, WorkerStep(w) \/ Disturbed(w), \A r \in Runs : ~ClaimLock(w, r),
         faults' = 0, \A v \in Workers : ~cancelled[v] /\ pc[v] \notin {"stopped", "down"}
  PROVE  TakesNothing
<1> USE DEF IInv, TypeOK, CurIsRun, RowMatches, Alone, Holding, Phases, Failing, rows, local, Goto, TakesNothing, HasRun, Submitted, Claimable, Locked
<1>1. CASE Tick(w)
  BY <1>1 DEF Tick
<1>2. CASE Stop(w)
  BY <1>2 DEF Stop
<1>3. CASE NoRows(w)
  BY <1>3 DEF NoRows
<1>4. CASE ClaimRefused(w)
  BY <1>4 DEF ClaimRefused
<1>5. CASE ClaimCommit(w)
  BY <1>5 DEF ClaimCommit
<1>6. CASE DelayDone(w)
  BY <1>6 DEF DelayDone
<1>7. CASE DelayCancelled(w)
  BY <1>7 DEF DelayCancelled, GiveUp
<1>8. CASE NoScope(w)
  BY <1>8 DEF NoScope
<1>9. CASE ScopeFits(w)
  BY <1>9 DEF ScopeFits
<1>10. CASE ScopeTooLarge(w)
  BY <1>10 DEF ScopeTooLarge, GiveUp
<1>11. CASE PingDone(w)
  BY <1>11 DEF PingDone
<1>12. CASE PingFailed(w)
  BY <1>12 DEF PingFailed, GiveUp
<1>13. CASE ArpFailed(w)
  BY <1>13 DEF ArpFailed, GiveUp
<1>14. CASE Enrich(w)
  BY <1>14 DEF Enrich, Phase
<1>15. CASE PortScan(w)
  BY <1>15 DEF PortScan, Phase
<1>16. CASE Finish(w)
  BY <1>16 DEF Finish, MarkSucceeded, CtxDone
<1>17. CASE FinishFailed(w)
  BY <1>17 DEF FinishFailed, GiveUp, Fault
<1>18. CASE Fail(w)
  BY <1>18 DEF Fail, FailOpen
<1>19. CASE Return(w)
  BY <1>19 DEF Return
<1>20. CASE Expire(w)
  BY <1>20 DEF Expire
<1>21. CASE ClaimError(w)
  BY <1>21 DEF ClaimError, Fault
<1>22. CASE ClaimAbort(w)
  BY <1>22 DEF ClaimAbort, Interrupted, Fault
<1>23. CASE ClaimReplyLost(w)
  BY <1>23 DEF ClaimReplyLost, Interrupted, Fault
<1>24. CASE FinishReplyLost(w)
  BY <1>24 DEF FinishReplyLost, MarkSucceeded, Fault, CtxDone
<1>25. CASE FailLost(w)
  BY <1>25 DEF FailLost, FailOpen, Fault
<1>26. CASE Shutdown(w)
  BY <1>26 DEF Shutdown, Fault
<1>27. CASE Exit(w)
  BY <1>27 DEF Exit
<1>28. CASE Crash(w)
  BY <1>28 DEF Crash, Fault
<1>29. CASE Start(w)
  BY <1>29 DEF Start
<1>30. CASE \E r \in Runs : ClaimLock(w, r)
  BY <1>30 DEF ClaimLock
<1>31. CASE \E found \in BOOLEAN : ArpDone(w, found)
  BY <1>31 DEF ArpDone
<1>32. CASE FailCheck(w)
  BY <1>32 DEF FailCheck
<1>33. CASE FailMissed(w)
  BY <1>33 DEF FailMissed, CtxDone
<1> QED
  BY <1>1, <1>2, <1>3, <1>4, <1>5, <1>6, <1>7, <1>8, <1>9, <1>10, <1>11, <1>12, <1>13, <1>14, <1>15, <1>16, <1>17, <1>18, <1>19, <1>20, <1>21, <1>22, <1>23, <1>24, <1>25, <1>26, <1>27, <1>28, <1>29, <1>30, <1>31, <1>32, <1>33
     DEF WorkerStep, Disturbed, Claiming, Executing, Ending

LEMMA QuietOrder ==
  ASSUME IInv, Orderly, TakesNothing
  PROVE  Orderly'
<1>1. Taken' = Taken /\ known' = known
  BY DEF TakesNothing, Taken
<1>2. ASSUME NEW r \in Taken
      PROVE  \E w \in Workers : HasRun(w)' => cur'[w] \notin known'[r]
  <2>1. PICK w \in Workers : HasRun(w) => cur[w] \notin known[r]
    BY DEF Orderly
  <2>2. HasRun(w)' => HasRun(w) /\ cur'[w] = cur[w]
    BY DEF TakesNothing
  <2> QED BY <1>1, <2>1, <2>2
<1> QED BY <1>1, <1>2 DEF Orderly, TakesNothing

LEMMA ClaimOrder ==
  ASSUME IInv, InsertOrder, Orderly, NEW w \in Workers, NEW r \in Runs, ClaimLock(w, r)
  PROVE  Orderly'
<1>1. /\ known' = known /\ status' = status /\ cancelled' = cancelled /\ r \in Claimable
      /\ pc[w] = "next" /\ pc' = [pc EXCEPT ![w] = "claim"] /\ cur' = [cur EXCEPT ![w] = r]
      /\ \A q \in Claimable : startedAt[r] <= startedAt[q]
  BY DEF ClaimLock, Goto, rows
<1>2. /\ pc \in [Workers -> Places] /\ cur \in [Workers -> Runs \cup {NoRun}]
      /\ startedAt \in [Runs -> Nat] /\ known \in [Runs -> SUBSET Runs]
  BY DEF IInv, TypeOK
<1>3. Submitted' = Submitted /\ Claimable \subseteq Submitted
  BY <1>1 DEF Submitted, Claimable
<1>4. Claimable' = Claimable \ {r}
  BY <1>1, <1>2 DEF Claimable, Locked
<1>5. Taken' = Taken \cup {r}
  BY <1>1, <1>3, <1>4 DEF Taken
<1>6. known[r] \subseteq Taken
  <2> SUFFICES ASSUME NEW q \in known[r] PROVE q \in Taken
    OBVIOUS
  <2>1. q \in Submitted /\ startedAt[q] < startedAt[r] /\ q \in Runs
    BY <1>2 DEF InsertOrder
  <2>2. q \notin Claimable
    BY <1>1, <1>2, <2>1
  <2> QED BY <2>1, <2>2 DEF Taken
<1>7. \A t \in Taken' : known'[t] \subseteq Taken'
  BY <1>1, <1>5, <1>6 DEF Orderly
<1>8. ASSUME NEW t \in Taken'
      PROVE  cur'[w] \notin known'[t]
  <2>1. cur'[w] = r
    BY <1>1, <1>2
  <2>2. r \notin Taken
    BY <1>1 DEF Taken
  <2>3. known[t] \subseteq Taken
    BY <1>5, <1>6 DEF Orderly
  <2> QED BY <1>1, <2>1, <2>2, <2>3
<1>9. \A v \in Workers : ~cancelled'[v] /\ pc'[v] \notin {"stopped", "down"}
  BY <1>1, <1>2 DEF Orderly
<1> QED BY <1>7, <1>8, <1>9 DEF Orderly

LEMMA InsertKeepsOrder ==
  ASSUME IInv, OrderInv, NEW r \in Runs, NEW req \in Requests, Insert(r, req)
  PROVE  OrderInv'
<1> DEFINE n == Cardinality(Stamped)
<1>1. /\ startedAt[r] = 0
      /\ startedAt' = [startedAt EXCEPT ![r] = n + 1] /\ known' = [known EXCEPT ![r] = Submitted]
      /\ status' = status /\ pc' = pc /\ cur' = cur /\ cancelled' = cancelled /\ faults' = faults
  BY DEF Insert
<1>2. /\ startedAt \in [Runs -> Nat] /\ known \in [Runs -> SUBSET Runs]
      /\ r \notin Submitted /\ Submitted' = Submitted /\ Submitted \subseteq Runs
  BY <1>1, InsertStep DEF IInv, TypeOK, Submitted
<1>3. Stamped' = Stamped \cup {r} /\ r \notin Stamped /\ Stamped \subseteq Runs
  <2>1. n \in Nat
    BY RunsAreFinite DEF Stamped
  <2>2. n + 1 # 0
    BY <2>1
  <2> HIDE DEF n
  <2>3. \A q \in Runs : startedAt'[q] # 0 <=> startedAt[q] # 0 \/ q = r
    BY <1>1, <1>2, <2>2
  <2> QED BY <1>1, <2>3 DEF Stamped
<1>4. n \in Nat /\ IsFiniteSet(Stamped)
  BY <1>3, RunsAreFinite
<1>5. Cardinality(Stamped') = n + 1
  BY <1>3, <1>4, FS_AddElement, Zenon
<1>6. \A q \in Runs : startedAt[q] <= n
  BY DEF OrderInv, InsertOrder
<1> HIDE DEF n
<1>7. /\ \A q \in Runs : q # r => startedAt'[q] = startedAt[q] /\ known'[q] = known[q]
      /\ startedAt'[r] = n + 1 /\ known'[r] = Submitted
  BY <1>1, <1>2
<1>8. InsertOrder'
  <2>1. \A q \in Runs : startedAt'[q] <= Cardinality(Stamped')
    BY <1>2, <1>4, <1>5, <1>6, <1>7
  <2>2. ASSUME NEW t \in Runs, NEW q \in known'[t]
        PROVE  q \in Submitted' /\ startedAt'[q] < startedAt'[t]
    <3>1. CASE t = r
      <4>1. q \in Submitted /\ q \in Runs /\ q # r
        BY <1>2, <1>7, <2>2, <3>1
      <4>2. startedAt'[q] \in Nat /\ startedAt'[q] <= n
        BY <1>2, <1>6, <1>7, <4>1
      <4> QED BY <1>2, <1>4, <1>7, <3>1, <4>1, <4>2
    <3>2. CASE t # r
      <4>1. q \in known[t]
        BY <1>7, <2>2, <3>2
      <4>2. q \in Submitted /\ startedAt[q] < startedAt[t]
        BY <4>1 DEF OrderInv, InsertOrder
      <4> QED BY <1>2, <1>7, <3>2, <4>2
    <3> QED BY <3>1, <3>2
  <2> QED BY <2>1, <2>2 DEF InsertOrder
<1>9. ASSUME faults' = 0 PROVE Orderly'
  <2>1. Orderly
    BY <1>1, <1>9 DEF OrderInv
  <2>2. Claimable' = Claimable
    BY <1>1 DEF Claimable, Locked
  <2>3. Taken' = Taken /\ Taken \subseteq Submitted
    BY <1>2, <2>2 DEF Taken
  <2>4. \A t \in Taken : t \in Runs /\ known'[t] = known[t]
    BY <1>2, <1>7, <2>3
  <2>5. \A w \in Workers : HasRun(w)' = HasRun(w) /\ cur'[w] = cur[w]
    BY <1>1 DEF HasRun
  <2> QED BY <1>1, <2>1, <2>3, <2>4, <2>5 DEF Orderly
<1> QED BY <1>8, <1>9 DEF OrderInv

LEMMA EnqueueKeepsOrder ==
  ASSUME IInv, OrderInv, NEW r \in Runs, Enqueue(r)
  PROVE  OrderInv'
<1>1. /\ status[r] = "absent" /\ status' = [status EXCEPT ![r] = "queued"]
      /\ startedAt' = startedAt /\ known' = known
      /\ pc' = pc /\ cur' = cur /\ cancelled' = cancelled /\ faults' = faults
  BY DEF Enqueue
<1>2. status \in [Runs -> Statuses] /\ \A w \in Workers : HasRun(w) => cur[w] \in Submitted
  BY DEF IInv, TypeOK, CurIsRun, RowMatches, HasRun, Submitted, Holding
<1>3. Submitted' = Submitted \cup {r} /\ r \notin Submitted
  BY EnqueueStep
<1>4. InsertOrder'
  <2>1. Stamped' = Stamped
    BY <1>1 DEF Stamped
  <2> QED BY <1>1, <1>3, <2>1 DEF OrderInv, InsertOrder
<1>5. ASSUME faults' = 0 PROVE Orderly'
  <2>1. Orderly
    BY <1>1, <1>5 DEF OrderInv
  <2>2. ~Locked(r) /\ \A q \in Runs : Locked(q)' <=> Locked(q)
    BY <1>1, <1>2, <1>3 DEF Locked, HasRun
  <2>3. Claimable' = Claimable \cup {r} /\ Claimable \subseteq Submitted
    BY <1>1, <1>2, <2>2 DEF Claimable, Submitted
  <2>4. Taken' = Taken
    BY <1>3, <2>3 DEF Taken
  <2>5. \A w \in Workers : HasRun(w)' = HasRun(w) /\ cur'[w] = cur[w]
    BY <1>1 DEF HasRun
  <2> QED BY <1>1, <2>1, <2>4, <2>5 DEF Orderly
<1> QED BY <1>4, <1>5 DEF OrderInv

LEMMA OrderStep ==
  ASSUME IInv, OrderInv, [Next]_vars
  PROVE  OrderInv'
<1>1. CASE UNCHANGED vars
  <2>1. /\ startedAt' = startedAt /\ known' = known /\ status' = status /\ cancelled' = cancelled
        /\ faults' = faults /\ pc' = pc /\ cur' = cur
    BY <1>1 DEF vars, rows
  <2>2. Submitted' = Submitted /\ Stamped' = Stamped /\ Claimable' = Claimable /\ Taken' = Taken
    BY <2>1 DEF Submitted, Stamped, Claimable, Locked, Taken
  <2> QED BY <2>1, <2>2 DEF OrderInv, InsertOrder, Orderly, HasRun
<1>2. ASSUME NEW r \in Runs, NEW req \in Requests, Insert(r, req) PROVE OrderInv'
  BY <1>2, InsertKeepsOrder
<1>3. ASSUME NEW r \in Runs, Enqueue(r) PROVE OrderInv'
  BY <1>3, EnqueueKeepsOrder
<1>4. ASSUME NEW w \in Workers, WorkerStep(w) \/ Disturbed(w) PROVE OrderInv'
  <2>1. faults \in Nat /\ faults' >= faults
    <3>1. faults \in Nat
      BY DEF IInv, TypeOK
    <3>2. LostKept(w) \/ LostOne(w)
      BY <1>4, WorkerLost
    <3> QED BY <3>1, <3>2 DEF LostKept, LostOne
  <2>2. startedAt' = startedAt /\ known' = known /\ Submitted' = Submitted
    BY <1>4, WorkerStamps
  <2>3. InsertOrder'
    BY <2>2 DEF OrderInv, InsertOrder, Stamped
  <2>4. ASSUME faults' = 0 PROVE Orderly'
    <3>1. Orderly
      BY <2>1, <2>4 DEF OrderInv
    <3>2. CASE \E r \in Runs : ClaimLock(w, r)
      BY <3>1, <3>2, ClaimOrder DEF OrderInv
    <3>3. CASE \A r \in Runs : ~ClaimLock(w, r)
      BY <1>4, <2>4, <3>1, <3>3, WorkerTakesNothing, QuietOrder DEF Orderly
    <3> QED BY <3>2, <3>3
  <2> QED BY <2>3, <2>4 DEF OrderInv
<1> QED BY <1>1, <1>2, <1>3, <1>4 DEF Next

\* With no fault every run that was taken and has not ended has a worker, unless its
\* deadline passed inside failRun.
LEMMA RestHasWorkers ==
  ASSUME IInv, LostBound, OrderInv, faults = 0
  PROVE  \A q \in Taken : ~Ended(q) /\ q \notin late =>
           /\ status[q] = "running" \/ Locked(q)
           /\ \E w \in Workers : HasRun(w) /\ cur[w] = q
<1>1. Lost = {}
  BY LostAreRuns, RunsAreFinite, FS_EmptySet DEF LostBound
<1>2. TAKE q \in Taken
<1>3. HAVE ~Ended(q) /\ q \notin late
<1>4. q \in Runs /\ (status[q] = "running" \/ Locked(q))
  <2>1. q \in Runs /\ status[q] # "absent"
    BY DEF Taken, Submitted
  <2>2. status[q] \in Statuses
    BY <2>1 DEF IInv, TypeOK
  <2>3. status[q] = "queued" => Locked(q)
    BY <2>1 DEF Taken, Claimable
  <2> QED BY <1>3, <2>1, <2>2, <2>3 DEF Statuses, Ended
<1>5. CASE status[q] = "running"
  BY <1>1, <1>3, <1>4, <1>5 DEF Lost, Stranded, Owns, HasRun
<1>6. CASE Locked(q)
  BY <1>4, <1>6 DEF Locked, HasRun
<1> QED BY <1>4, <1>5, <1>6

LEMMA OrderMeansTaken ==
  ASSUME IsFiniteSet(Workers), IInv, LostBound, OrderInv
  PROVE  EarlierAreTaken
<1> SUFFICES ASSUME NEW r \in Runs, faults = 0, Ended(r),
                    NEW rest, rest = {q \in known[r] : ~Ended(q) /\ q \notin late}
             PROVE  /\ Cardinality(rest) < Cardinality(Workers)
                    /\ \A q \in rest : status[q] = "running" \/ Locked(q)
  BY DEF EarlierAreTaken
<1>1. Orderly
  BY DEF OrderInv
<1>2. r \in Taken
  BY DEF Ended, Taken, Submitted, Claimable
<1>3. rest \subseteq Taken /\ rest \subseteq known[r]
  BY <1>1, <1>2 DEF Orderly
<1>4. \A q \in rest : ~Ended(q) /\ q \notin late
  OBVIOUS
<1>5. \A q \in rest : status[q] = "running" \/ Locked(q)
  BY <1>3, <1>4, RestHasWorkers
<1>6. PICK w \in Workers : HasRun(w) => cur[w] \notin known[r]
  BY <1>1, <1>2 DEF Orderly
<1>7. HasRun(w) => cur[w] \notin rest
  BY <1>3, <1>6
<1>8. \A q \in rest : \E v \in Workers : HasRun(v) /\ cur[v] = q
  BY <1>3, <1>4, RestHasWorkers
<1> DEFINE at == [q \in rest |-> CHOOSE v \in Workers : HasRun(v) /\ cur[v] = q]
<1>9. at \in Injection(rest, Workers \ {w})
  <2>1. \A q \in rest : at[q] \in Workers /\ HasRun(at[q]) /\ cur[at[q]] = q
    BY <1>8
  <2>2. \A q \in rest : at[q] # w
    BY <1>7, <2>1
  <2>3. at \in [rest -> Workers \ {w}]
    BY <2>1, <2>2
  <2>4. \A p, q \in rest : at[p] = at[q] => p = q
    BY <2>1
  <2> HIDE DEF at
  <2> QED BY <2>3, <2>4 DEF Injection, IsInjective
<1> HIDE DEF at
<1>10. /\ IsFiniteSet(Workers \ {w})
       /\ Cardinality(Workers \ {w}) = Cardinality(Workers) - 1
  BY FS_RemoveElement, Zenon
<1>11. Cardinality(rest) <= Cardinality(Workers \ {w}) /\ IsFiniteSet(rest)
  BY <1>9, <1>10, FS_Injection
<1>12. Cardinality(rest) \in Nat /\ Cardinality(Workers) \in Nat
  BY <1>11, FS_CardinalityType
<1> QED BY <1>5, <1>10, <1>11, <1>12

LEMMA OrderInit == Init => OrderInv
<1> SUFFICES ASSUME Init PROVE OrderInv
  OBVIOUS
<1>1. Submitted = {} /\ Claimable = {} /\ Taken = {} /\ Stamped = {}
  BY DEF Init, Submitted, Claimable, Taken, Stamped
<1>2. \A w \in Workers : ~cancelled[w] /\ pc[w] \notin {"stopped", "down"}
  BY DEF Init
<1>3. InsertOrder
  BY <1>1, FS_EmptySet DEF Init, InsertOrder
<1> QED BY <1>1, <1>2, <1>3 DEF OrderInv, Orderly

\* Runs are taken in the order of submission as far as it can be told: as long as there
\* is no fault, once a run has ended none of those that were in the table when its INSERT
\* began waits, and fewer of them than there are workers have not ended, for any finite
\* number of processes.
THEOREM EarlierRunsAreTaken ==
  ASSUME IsFiniteSet(Workers)
  PROVE  Spec => []EarlierAreTaken
<1>1. IInv /\ LostBound /\ OrderInv => EarlierAreTaken
  BY OrderMeansTaken
<1>2. IInv /\ OrderInv /\ [Next]_vars => OrderInv'
  BY OrderStep
<1> QED BY <1>1, <1>2, OrderInit, IInvHolds, LostHolds, PTL DEF Spec
=============================================================================
