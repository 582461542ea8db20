----------------------------- MODULE MCScanPool -----------------------------
(* A small instance of ScanPool for TLC.                                   *)
EXTENDS ScanPool, TLC

CONSTANTS d1, d2, d3

T(d, a) == [device |-> d, allowed |-> a]

\* d1 has three addresses, the first one outside the allowlist.
SomeTargets == <<T(d1, FALSE), T(d1, TRUE), T(d2, TRUE), T(d1, TRUE), T(d3, TRUE)>>
=============================================================================
