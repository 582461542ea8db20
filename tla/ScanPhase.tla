----------------------------- MODULE ScanPhase -----------------------------
(* What runOnce relies on when it calls a phase of a run (the ping sweep,  *)
(* runEnrichment, runPortScan): the phase comes back, and it leaves out    *)
(* part of its work only if the run's deadline passed or the process was   *)
(* told to stop, which runOnce finds out by looking at the same context.   *)

VARIABLES ctx, outcome

TypeOK ==
  /\ ctx \in {"live", "done"}
  /\ outcome \in {"working", "complete", "curtailed"}

Init == ctx = "live" /\ outcome = "working"

\* The context is cancelled, in the middle of the phase or at its end.
Expire == ctx = "live" /\ ctx' = "done" /\ UNCHANGED outcome

Complete == outcome = "working" /\ outcome' = "complete" /\ UNCHANGED ctx

Curtail == ctx = "done" /\ outcome = "working" /\ outcome' = "curtailed" /\ UNCHANGED ctx

Next == Expire \/ Complete \/ Curtail

Spec == Init /\ [][Next]_<<ctx, outcome>>
=============================================================================
