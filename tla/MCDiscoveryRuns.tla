--------------------------- MODULE MCDiscoveryRuns ---------------------------
(* Small instances of DiscoveryRuns for TLC.                               *)
EXTENDS DiscoveryRuns, TLC

\* The defaults of New and main.go with topology and names partly on, so that
\* presets and tags both turn features on and off.
MCBaseConfig ==
  [limits |-> [maxRuntime |-> 30000, maxTargets |-> 1024, pingTimeout |-> 800,
               pingWorkers |-> 16, enrichMaxTargets |-> 64, enrichWorkers |-> 8,
               portScanWorkers |-> 4, portScanTimeout |-> 3000, portScanMaxTargets |-> 24],
   features |-> {"lldp"}]

\* A scope that only "fast" refuses; a run without scope that turns features
\* on by tag; a scope that only "deep" accepts.
MCRequests ==
  {[targets |-> 512, preset |-> "fast", tags |-> {"names", "topology"}],
   [targets |-> 0, preset |-> "normal", tags |-> {"ports"}],
   [targets |-> 2048, preset |-> "deep", tags |-> {}]}

\* Two requests, for the runs with more processes.
MCTwoRequests ==
  {[targets |-> 0, preset |-> "fast", tags |-> {"snmp"}],
   [targets |-> 512, preset |-> "deep", tags |-> {}]}

MCOneRequest == {[targets |-> 512, preset |-> "normal", tags |-> {"ports"}]}

Symmetry == Permutations(Workers) \cup Permutations(Runs)
=============================================================================
