------------------------------ MODULE ScanConfig ------------------------------
(***************************************************************************)
(* The scan settings of a discovery worker (struct Worker, worker.go) and  *)
(* the two functions that rewrite them for one run: applyScanPreset        *)
(* (presets.go) and applyScanTags (tags.go).  Each returns a closure that  *)
(* puts back the fields it saved; here the closure is an operator on the   *)
(* configuration that was saved and the current one.                       *)
(*                                                                         *)
(* A configuration has numeric limits (durations in milliseconds) and a    *)
(* set of enabled features.                                                *)
(***************************************************************************)
EXTENDS Integers

Features == {"names", "snmp", "lldp", "cdp", "ports"}

\* What a preset may lower or raise, and what only "deep" touches.
FastCaps == [maxRuntime |-> 15000, maxTargets |-> 256, pingTimeout |-> 400,
             pingWorkers |-> 16, enrichMaxTargets |-> 32, enrichWorkers |-> 4]

DeepFloors == [maxRuntime |-> 120000, maxTargets |-> 4096, pingTimeout |-> 1500,
               pingWorkers |-> 32, enrichMaxTargets |-> 256, enrichWorkers |-> 16,
               portScanWorkers |-> 8, portScanTimeout |-> 5000, portScanMaxTargets |-> 64]

LimitNames == DOMAIN DeepFloors

Presets == {"fast", "normal", "deep"}
ScanTags == {"names", "ports", "snmp", "topology"}

Configs == [limits : [LimitNames -> Nat], features : SUBSET Features]

\* minInt and minDuration: a value that is not positive means "not set".
MinPositive(a, b) ==
  IF a <= 0 THEN b ELSE IF b <= 0 THEN a ELSE IF a < b THEN a ELSE b

\* maxInt and maxDuration.
MaxPositive(a, b) ==
  IF a <= 0 THEN b ELSE IF b <= 0 THEN a ELSE IF a > b THEN a ELSE b

PresetFeatures == {"snmp", "lldp", "cdp", "ports"}

applyScanPreset(c, preset) ==
  CASE preset = "fast" ->
         [limits |-> [l \in LimitNames |->
            IF l \in DOMAIN FastCaps THEN MinPositive(c.limits[l], FastCaps[l])
                                     ELSE c.limits[l]],
          features |-> c.features \ PresetFeatures]
    [] preset = "deep" ->
         [limits |-> [l \in LimitNames |-> MaxPositive(c.limits[l], DeepFloors[l])],
          features |-> c.features \cup PresetFeatures]
    [] OTHER -> c

\* The closure of applyScanPreset saves every field but nameResolutionEnabled.
RestorePreset(saved, c) ==
  [limits |-> saved.limits,
   features |-> (saved.features \ {"names"}) \cup (c.features \cap {"names"})]

TagFeatures(tag) ==
  CASE tag = "ports"    -> {"ports"}
    [] tag = "snmp"     -> {"snmp"}
    [] tag = "topology" -> {"snmp", "lldp", "cdp"}
    [] tag = "names"    -> {"names"}

applyScanTags(c, tags) ==
  [c EXCEPT !.features = @ \cup UNION {TagFeatures(tag) : tag \in tags}]

\* With no tags applyScanTags saved nothing and its closure does nothing.
RestoreTags(saved, c, tags) ==
  IF tags = {} THEN c ELSE [c EXCEPT !.features = saved.features]

\* The settings a run is entitled to: those of the process, then its own
\* preset, then its own tags.
Effective(base, preset, tags) == applyScanTags(applyScanPreset(base, preset), tags)
=============================================================================
