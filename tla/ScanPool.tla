------------------------------ MODULE ScanPool ------------------------------
(***************************************************************************)
(* The goroutine pools of a discovery run.  Three phases share one shape: a*)
(* producer sends the targets over a channel to a fixed number of workers, *)
(* closes it and waits for them; both sides watch the run's context.       *)
(*                                                                         *)
(*   ping    pingSweep: a buffered channel; the workers drain it even      *)
(*           when the context is done (each ping then fails at once)       *)
(*   enrich  runEnrichment: an unbuffered channel; a target whose device   *)
(*           another goroutine has claimed (LoadOrStore) is passed over    *)
(*   scan    runPortScan: an unbuffered channel; one target per device is  *)
(*           chosen beforehand                                             *)
(*                                                                         *)
(* In the last two a worker that sees the context done drops its target    *)
(* and leaves.  What a phase does to a target is in other modules; here it *)
(* takes time and ends.                                                    *)
(***************************************************************************)
EXTENDS Naturals, Sequences, FiniteSets

CONSTANTS
  Workers,     \* goroutines of the pool
  Devices,
  Found,       \* targets of the ARP scrape: [device, allowed]
  Addresses,   \* number of addresses in the ping sweep's scope
  Capacity,    \* buffer of the ping sweep's channel
  Limits       \* values of the phase's max-targets setting, 0 for none

ASSUME ScanPoolAssumption ==
  /\ IsFiniteSet(Workers) /\ Workers # {}
  /\ Found \in Seq([device : Devices, allowed : BOOLEAN])
  /\ Addresses \in Nat /\ Capacity \in Nat \ {0}
  /\ Limits \subseteq Nat

VARIABLES
  phase,      \* which of the three
  limit,      \* its max-targets setting
  ctx,        \* the run's context: "live", or "done" for ever
  todo,       \* indices of the targets the producer has not sent
  producer,   \* "send", "join" (the channel is closed), "returned"
  buffer,     \* the ping sweep's channel
  state,      \* state[w]: "recv", "got" a target, "busy" with it, "gone"
  task,       \* task[w]: the target it got
  attempted,  \* snmpAttempted, nameAttempted: devices claimed
  started     \* history: targets worked on, in the order they were started

vars == <<phase, limit, ctx, todo, producer, buffer, state, task, attempted, started>>

Phases == {"ping", "enrich", "scan"}

-----------------------------------------------------------------------------
(* The targets of a phase.                                                 *)

Before(I, i) == {j \in I : j < i}

\* runEnrichment cuts the list, before it looks at devices.
EnrichJobs == {i \in DOMAIN Found : limit = 0 \/ i <= limit}

Allowed == {i \in DOMAIN Found : Found[i].allowed}

\* runPortScan takes the first allowed target of each device, up to the limit.
FirstAllowed ==
  {i \in Allowed : \A j \in Before(Allowed, i) : Found[j].device # Found[i].device}

ScanJobs ==
  {i \in FirstAllowed : limit = 0 \/ Cardinality(Before(FirstAllowed, i)) < limit}

Jobs ==
  CASE phase = "ping" -> 1 .. Addresses
    [] phase = "enrich" -> EnrichJobs
    [] phase = "scan" -> ScanJobs

\* What a target is about: an address of the scope, or a device.
Subject(i) == IF phase = "ping" THEN i ELSE Found[i].device

IsNext(i) == i \in todo /\ \A j \in todo : i <= j

-----------------------------------------------------------------------------
TypeOK ==
  /\ phase \in Phases /\ limit \in Limits
  /\ ctx \in {"live", "done"}
  /\ todo \subseteq Jobs
  /\ producer \in {"send", "join", "returned"}
  /\ buffer \in Seq(Jobs) /\ Len(buffer) <= Capacity
  /\ state \in [Workers -> {"recv", "got", "busy", "gone"}]
  /\ task \in [Workers -> Jobs \cup {0}]
  /\ \A w \in Workers : state[w] \in {"got", "busy"} => task[w] \in Jobs
  /\ attempted \subseteq Devices
  /\ started \in Seq(Jobs)

Init ==
  /\ phase \in Phases /\ limit \in Limits
  /\ ctx = "live"
  /\ todo = Jobs
  /\ producer = "send"
  /\ buffer = <<>>
  /\ state = [w \in Workers |-> "recv"]
  /\ task = [w \in Workers |-> 0]
  /\ attempted = {}
  /\ started = <<>>

setting == <<phase, limit>>

Become(w, s) == state' = [state EXCEPT ![w] = s]

\* The deadline passes or the process is told to stop.
Expire ==
  /\ ctx = "live" /\ ctx' = "done"
  /\ UNCHANGED <<setting, todo, producer, buffer, state, task, attempted, started>>

-----------------------------------------------------------------------------
(* The producer.  When both cases of its select are ready it takes either. *)

\* An unbuffered send meets a worker that is waiting.
HandOver(w) ==
  /\ producer = "send" /\ phase # "ping" /\ state[w] = "recv"
  /\ \E i \in todo :
       /\ IsNext(i)
       /\ todo' = todo \ {i}
       /\ task' = [task EXCEPT ![w] = i]
  /\ Become(w, "got")
  /\ UNCHANGED <<setting, ctx, producer, buffer, attempted, started>>

Put ==
  /\ producer = "send" /\ phase = "ping" /\ Len(buffer) < Capacity
  /\ \E i \in todo :
       /\ IsNext(i)
       /\ todo' = todo \ {i}
       /\ buffer' = Append(buffer, i)
  /\ UNCHANGED <<setting, ctx, producer, state, task, attempted, started>>

\* A producer that only sends.
NeverCancel == FALSE /\ UNCHANGED vars

\* ctx.Done: the targets not yet sent are given up.
Cancel ==
  /\ producer = "send" /\ todo # {} /\ ctx = "done"
  /\ producer' = "join"
  /\ UNCHANGED <<setting, ctx, todo, buffer, state, task, attempted, started>>

Close ==
  /\ producer = "send" /\ todo = {}
  /\ producer' = "join"
  /\ UNCHANGED <<setting, ctx, todo, buffer, state, task, attempted, started>>

\* wg.Wait, and the phase returns.
Return ==
  /\ producer = "join"
  /\ \A w \in Workers : state[w] = "gone"
  /\ producer' = "returned"
  /\ UNCHANGED <<setting, ctx, todo, buffer, state, task, attempted, started>>

Produce == (\E w \in Workers : HandOver(w)) \/ Put \/ Cancel \/ Close \/ Return

-----------------------------------------------------------------------------
(* A worker.                                                               *)

Take(w) ==
  /\ state[w] = "recv" /\ buffer # <<>>
  /\ buffer' = Tail(buffer)
  /\ task' = [task EXCEPT ![w] = Head(buffer)]
  /\ Become(w, "got")
  /\ UNCHANGED <<setting, ctx, todo, producer, attempted, started>>

\* A worker that takes the close of the channel for the end of the targets.
LeaveOnClose(w) ==
  /\ state[w] = "recv" /\ producer = "join"
  /\ Become(w, "gone")
  /\ UNCHANGED <<setting, ctx, todo, producer, buffer, task, attempted, started>>

\* The channel is closed and empty: range ends.
Leave(w) ==
  /\ state[w] = "recv" /\ producer = "join" /\ buffer = <<>>
  /\ Become(w, "gone")
  /\ UNCHANGED <<setting, ctx, todo, producer, buffer, task, attempted, started>>

\* ctx.Err() # nil after the receive: the worker returns and its target is lost.
Drop(w) ==
  /\ state[w] = "got" /\ phase # "ping" /\ ctx = "done"
  /\ Become(w, "gone")
  /\ UNCHANGED <<setting, ctx, todo, producer, buffer, task, attempted, started>>

\* LoadOrStore found the device claimed.
Skip(w) ==
  /\ state[w] = "got" /\ phase = "enrich"
  /\ Found[task[w]].device \in attempted
  /\ Become(w, "recv")
  /\ UNCHANGED <<setting, ctx, todo, producer, buffer, task, attempted, started>>

\* A worker that looks whether the device is claimed but does not claim it.
StartUnmarked(w) ==
  /\ state[w] = "got"
  /\ phase = "enrich" => Found[task[w]].device \notin attempted
  /\ UNCHANGED attempted
  /\ started' = Append(started, task[w])
  /\ Become(w, "busy")
  /\ UNCHANGED <<setting, ctx, todo, producer, buffer, task>>

\* The context may have been done since the worker looked at it, so a worker
\* may also start on a target after the deadline.
Start(w) ==
  /\ state[w] = "got"
  /\ IF phase = "enrich"
     THEN /\ Found[task[w]].device \notin attempted
          /\ attempted' = attempted \cup {Found[task[w]].device}
     ELSE UNCHANGED attempted
  /\ started' = Append(started, task[w])
  /\ Become(w, "busy")
  /\ UNCHANGED <<setting, ctx, todo, producer, buffer, task>>

\* Done with the target, with or without success: the next one.
Finish(w) ==
  /\ state[w] = "busy"
  /\ Become(w, "recv")
  /\ UNCHANGED <<setting, ctx, todo, producer, buffer, task, attempted, started>>

\* The loop over a device's neighbours looks at the context too, and returns.
Abort(w) ==
  /\ state[w] = "busy" /\ phase = "enrich" /\ ctx = "done"
  /\ Become(w, "gone")
  /\ UNCHANGED <<setting, ctx, todo, producer, buffer, task, attempted, started>>

Work(w) == Take(w) \/ Leave(w) \/ Drop(w) \/ Skip(w) \/ Start(w) \/ Finish(w) \/ Abort(w)

Done == producer = "returned" /\ UNCHANGED vars

Next == Expire \/ Produce \/ (\E w \in Workers : Work(w)) \/ Done

\* Every goroutine goes on as long as it can: pings, SNMP requests and scans
\* have timeouts of their own.
Fairness == WF_vars(Produce) /\ \A w \in Workers : WF_vars(Work(w))

Spec == Init /\ [][Next]_vars

FairSpec == Spec /\ Fairness

-----------------------------------------------------------------------------
(* Properties.                                                             *)

\* No address is pinged twice, and no device is enriched or scanned twice,
\* even when its targets reach two goroutines at the same moment.
OncePerSubject ==
  \A k, l \in DOMAIN started : k # l => Subject(started[k]) # Subject(started[l])

\* Every phase returns, whenever the context is done and whichever goroutines
\* have left by then; the producer never waits for a worker that is gone.
PhaseReturns == <>(producer = "returned")

\* What was sent has been worked on unless the context is done.
Served == \A i \in Jobs : \E k \in DOMAIN started : Subject(started[k]) = Subject(i)

Outcome ==
  IF producer # "returned" THEN "working" ELSE IF Served THEN "complete" ELSE "curtailed"

P == INSTANCE ScanPhase WITH outcome <- Outcome

\* The pools keep the promise runOnce relies on: part of the work is missing
\* only if the context is done.
PhaseSpec == P!Spec
=============================================================================
