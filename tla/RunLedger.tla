------------------------------ MODULE RunLedger ------------------------------
(***************************************************************************)
(* What the discovery queue promises about the rows of discovery_runs,     *)
(* without saying how a worker gets there.  A run is submitted once,       *)
(* claimed at most once and by one worker, and from then on only the       *)
(* worker that holds it decides how it ended.  The one correction a holder *)
(* may make is to turn its own "succeeded" into "failed".                  *)
(*                                                                         *)
(* The ledger does not promise that a claimed run ends: a holder may drop  *)
(* it (Drop), and a claim whose answer never arrived has no holder at all  *)
(* (ClaimUnheld).                                                          *)
(***************************************************************************)
CONSTANTS Runs,      \* identifiers of discovery_runs rows
          Workers,   \* core-go processes, one discovery worker in each
          NoRun      \* a worker that holds nothing; not one of Runs

VARIABLES status,    \* status[r]: the status column, "absent" before INSERT
          held       \* held[w]: the run whose outcome w still decides

vars == <<status, held>>

Statuses == {"absent", "queued", "running", "succeeded", "failed"}

TypeOK ==
  /\ status \in [Runs -> Statuses]
  /\ held \in [Workers -> Runs \cup {NoRun}]

Init ==
  /\ status = [r \in Runs |-> "absent"]
  /\ held = [w \in Workers |-> NoRun]

Submit(r) ==
  /\ status[r] = "absent"
  /\ status' = [status EXCEPT ![r] = "queued"]
  /\ UNCHANGED held

Claim(w, r) ==
  /\ held[w] = NoRun
  /\ status[r] = "queued"
  /\ status' = [status EXCEPT ![r] = "running"]
  /\ held' = [held EXCEPT ![w] = r]

ClaimUnheld(r) ==
  /\ status[r] = "queued"
  /\ status' = [status EXCEPT ![r] = "running"]
  /\ UNCHANGED held

\* The holder records an outcome, and keeps or gives up the run.
Conclude(w, r, outcome) ==
  /\ held[w] = r
  /\ <<status[r], outcome>> \in
       {<<"running", "succeeded">>, <<"running", "failed">>, <<"succeeded", "failed">>}
  /\ status' = [status EXCEPT ![r] = outcome]
  /\ held' \in {held, [held EXCEPT ![w] = NoRun]}

Drop(w) ==
  /\ held' = [held EXCEPT ![w] = NoRun]
  /\ UNCHANGED status

Next ==
  \/ \E r \in Runs : Submit(r) \/ ClaimUnheld(r)
  \/ \E w \in Workers, r \in Runs : Claim(w, r)
  \/ \E w \in Workers, r \in Runs, outcome \in {"succeeded", "failed"} :
       Conclude(w, r, outcome)
  \/ \E w \in Workers : Drop(w)

Spec == Init /\ [][Next]_vars
=============================================================================
