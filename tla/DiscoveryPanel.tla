--------------------------- MODULE DiscoveryPanel ---------------------------
(***************************************************************************)
(* The discovery panel of the devices page: it polls the status, asks      *)
(* before it queues a run on top of another, and submits the trigger as a  *)
(* server action.                                                          *)
(*                                                                         *)
(* A status is abstracted to whether a run is queued or running.  core-go  *)
(* works one run after the other, so that is "some run has not ended".     *)
(*                                                                         *)
(* The polling library is modelled from how the panel uses it: a timer     *)
(* asks again while the tab is visible; refetchInterval is computed anew   *)
(* whenever the query changes or the panel renders, and false stops the    *)
(* timer; two retries, which wait for a visible tab.                       *)
(***************************************************************************)
EXTENDS Naturals

CONSTANTS
  MaxHides,        \* bound on how often the operator leaves the tab
  MaxQueued,       \* bound on runs queued in a behaviour, by this page or others
  MaxTriggers,     \* bound on the clicks on "Trigger discovery" and on confirmations
  MaxPollFailures  \* bound on failed polls

Retries == 2   \* providers.tsx

ASSUME PanelAssumption ==
  /\ MaxHides \in Nat /\ MaxQueued \in Nat /\ MaxTriggers \in Nat /\ MaxPollFailures \in Nat

VARIABLES
  active,        \* core-go: runs that have not ended
  queued,        \* core-go: runs queued so far
  shown,         \* liveStatus: the panel shows a run in progress
  tab,           \* "visible" or "hidden"
  hides,         \* times it was hidden
  timer,         \* the poll timer runs
  statusPoll,    \* "idle", "asked", "answered", "failed"
  statusAnswer,  \* what the answer on its way says, FALSE without one
  attempts,      \* failureCount of the fetch under way, 0 without one
  pollFailures,  \* failed polls so far
  dialog,        \* confirmOpen
  bypass,        \* bypassConfirmRef
  pending,       \* submissions the form has not sent: they run one by one
  trigger,       \* the one under way: "none", "sent", "accepted", "refused"
  confirms,      \* history: confirmations given in the dialog
  submits,       \* history: submissions that were not held back
  busySubmits    \* history: those made while the panel showed a run in progress

server == <<active, queued>>
polling == <<timer, statusPoll, statusAnswer, attempts, pollFailures>>
window == <<tab, hides>>
form == <<dialog, bypass, pending, trigger, confirms, submits, busySubmits>>
panelVars == <<server, shown, window, polling, form>>

Busy == active > 0

PanelTypeOK ==
  /\ active \in 0 .. MaxQueued /\ queued \in 0 .. MaxQueued /\ active <= queued
  /\ shown \in BOOLEAN
  /\ tab \in {"visible", "hidden"} /\ hides \in 0 .. MaxHides
  /\ timer \in BOOLEAN /\ statusPoll \in {"idle", "asked", "answered", "failed"}
  /\ statusAnswer \in BOOLEAN /\ attempts \in 0 .. Retries /\ pollFailures \in 0 .. MaxPollFailures
  /\ dialog \in BOOLEAN /\ bypass \in BOOLEAN
  /\ pending \in Nat /\ trigger \in {"none", "sent", "accepted", "refused"}
  /\ confirms \in Nat /\ submits \in Nat /\ busySubmits \in Nat

\* The page is rendered with the status of that moment.  The panel starts from
\* a status polled by an earlier visit when there is one: initialData is only
\* used for an empty cache.
PanelInit ==
  /\ active \in 0 .. MaxQueued /\ queued = active
  /\ shown \in BOOLEAN
  /\ tab = "visible" /\ hides = 0
  /\ timer = TRUE /\ statusPoll = "idle" /\ statusAnswer = FALSE /\ attempts = 0 /\ pollFailures = 0
  /\ dialog = FALSE /\ bypass = FALSE
  /\ pending = 0 /\ trigger = "none"
  /\ confirms = 0 /\ submits = 0 /\ busySubmits = 0

-----------------------------------------------------------------------------
(* core-go.                                                                *)

OtherTrigger ==
  /\ queued < MaxQueued
  /\ queued' = queued + 1 /\ active' = active + 1
  /\ UNCHANGED <<shown, window, polling, form>>

ActiveEnds ==
  /\ Busy
  /\ active' = active - 1
  /\ UNCHANGED <<queued, shown, window, polling, form>>

-----------------------------------------------------------------------------
(* Polling.                                                                *)

\* refetchInterval: false in a hidden tab, otherwise some seconds.
Interval == tab = "visible"

StatusTick ==
  /\ timer /\ tab = "visible" /\ statusPoll = "idle"
  /\ statusPoll' = "asked"
  /\ timer' = Interval
  /\ UNCHANGED <<server, shown, window, statusAnswer, attempts, pollFailures, form>>

\* GET /v1/discovery/status reads the database.
StatusAnswer ==
  /\ statusPoll = "asked"
  /\ statusPoll' = "answered" /\ statusAnswer' = Busy
  /\ UNCHANGED <<server, shown, window, timer, attempts, pollFailures, form>>

Deliver ==
  /\ statusPoll = "answered"
  /\ shown' = statusAnswer
  /\ statusPoll' = "idle" /\ statusAnswer' = FALSE /\ attempts' = 0
  /\ timer' = Interval
  /\ UNCHANGED <<server, window, pollFailures, form>>

\* A failed poll that is not tried again and switches polling off.
GiveUp ==
  /\ statusPoll \in {"asked", "answered"} /\ pollFailures < MaxPollFailures
  /\ pollFailures' = pollFailures + 1
  /\ statusPoll' = "idle" /\ statusAnswer' = FALSE /\ attempts' = 0
  /\ timer' = FALSE
  /\ UNCHANGED <<server, shown, window, form>>

\* The request or its answer is lost, or core-go answers with an error.
StatusFails ==
  /\ statusPoll \in {"asked", "answered"} /\ pollFailures < MaxPollFailures
  /\ pollFailures' = pollFailures + 1
  /\ IF attempts < Retries
     THEN statusPoll' = "failed" /\ attempts' = attempts + 1
     ELSE statusPoll' = "idle" /\ attempts' = 0
  /\ statusAnswer' = FALSE
  /\ timer' = Interval
  /\ UNCHANGED <<server, shown, window, form>>

Retry ==
  /\ statusPoll = "failed" /\ tab = "visible"
  /\ statusPoll' = "asked" /\ timer' = Interval
  /\ UNCHANGED <<server, shown, window, statusAnswer, attempts, pollFailures, form>>

\* refetchOnWindowFocus is off: coming back changes nothing but the tab.
Hide ==
  /\ tab = "visible" /\ hides < MaxHides
  /\ tab' = "hidden" /\ hides' = hides + 1
  /\ UNCHANGED <<server, shown, polling, form>>

Show ==
  /\ tab = "hidden"
  /\ tab' = "visible"
  /\ UNCHANGED <<server, shown, hides, polling, form>>

\* Any interaction that renders the panel, like picking a tag.
Render ==
  /\ tab = "visible" /\ ~timer
  /\ timer' = Interval
  /\ UNCHANGED <<server, shown, window, statusPoll, statusAnswer, attempts, pollFailures, form>>

-----------------------------------------------------------------------------
(* The form.  Every step of the operator renders the panel.                *)

PanelRendered ==
  /\ tab = "visible"
  /\ timer' = Interval
  /\ UNCHANGED <<server, shown, window, statusPoll, statusAnswer, attempts, pollFailures>>

PassOn ==
  /\ pending' = pending + 1
  /\ submits' = submits + 1
  /\ busySubmits' = busySubmits + (IF shown THEN 1 ELSE 0)

\* handleSubmit for a submission made with the flag b, one that forgets to take
\* the flag down when it has used it.
HandleSubmitKeeping(b) ==
  \/ (~shown \/ b) /\ PassOn /\ bypass' = b /\ dialog' = FALSE
  \/ shown /\ ~b /\ dialog' = TRUE /\ bypass' = b /\ UNCHANGED <<pending, submits, busySubmits>>

\* handleSubmit.  No confirmation is needed when the panel shows no run; then
\* the flag is not looked at, and stays as it is.
HandleSubmit(b) ==
  \/ ~shown /\ PassOn /\ bypass' = b /\ dialog' = FALSE
  \/ shown /\ b /\ PassOn /\ bypass' = FALSE /\ dialog' = FALSE
  \/ shown /\ ~b /\ dialog' = TRUE /\ bypass' = b /\ UNCHANGED <<pending, submits, busySubmits>>

Click ==
  /\ ~dialog /\ submits < MaxTriggers
  /\ HandleSubmit(bypass)
  /\ UNCHANGED <<trigger, confirms>>
  /\ PanelRendered

\* onConfirm: the dialog closes and the form submits itself.
Confirm ==
  /\ dialog /\ submits < MaxTriggers
  /\ confirms' = confirms + 1
  /\ HandleSubmit(TRUE)
  /\ UNCHANGED <<trigger>>
  /\ PanelRendered

Cancel ==
  /\ dialog /\ dialog' = FALSE
  /\ UNCHANGED <<bypass, pending, trigger, confirms, submits, busySubmits>>
  /\ PanelRendered

-----------------------------------------------------------------------------
(* triggerDiscovery.                                                       *)

\* A form that submits once more when its action has returned.
SendAgain ==
  /\ trigger = "none" /\ submits > 0
  /\ pending' = pending - 1 /\ trigger' = "sent"
  /\ UNCHANGED <<server, shown, window, polling, dialog, bypass, confirms, submits, busySubmits>>

\* The form's actions run one after the other.
Send ==
  /\ pending > 0 /\ trigger = "none"
  /\ pending' = pending - 1 /\ trigger' = "sent"
  /\ UNCHANGED <<server, shown, window, polling, dialog, bypass, confirms, submits, busySubmits>>

\* core-go has queued the run; the audit event that follows changes nothing here.
Accept ==
  /\ trigger = "sent" /\ queued < MaxQueued
  /\ queued' = queued + 1 /\ active' = active + 1
  /\ trigger' = "accepted"
  /\ UNCHANGED <<shown, window, polling, dialog, bypass, pending, confirms, submits, busySubmits>>

\* No session, a read-only one, too many requests or another error.
Refuse ==
  /\ trigger = "sent"
  /\ trigger' = "refused"
  /\ UNCHANGED <<server, shown, window, polling, dialog, bypass, pending, confirms, submits, busySubmits>>

\* The action's result.  revalidatePath renders the page again; the query keeps
\* the status it has.
Return ==
  /\ trigger \in {"accepted", "refused"}
  /\ trigger' = "none"
  /\ timer' = Interval
  /\ UNCHANGED <<server, shown, window, statusPoll, statusAnswer, attempts, pollFailures, dialog, bypass, pending, confirms, submits, busySubmits>>

-----------------------------------------------------------------------------
StatusPoll == StatusTick \/ StatusAnswer \/ Deliver \/ Retry
Trigger == Send \/ Accept \/ Refuse \/ Return
PanelOperator == Hide \/ Show \/ Render \/ Click \/ Confirm \/ Cancel

PanelNext == OtherTrigger \/ ActiveEnds \/ StatusPoll \/ StatusFails \/ Trigger \/ PanelOperator

\* Runs end, requests are answered, timers fire, actions return, and the
\* operator comes back to the tab; nobody has to touch the panel.
PanelFairness ==
  /\ WF_panelVars(ActiveEnds) /\ WF_panelVars(StatusPoll) /\ WF_panelVars(Trigger) /\ WF_panelVars(Show)

PanelSpec == PanelInit /\ [][PanelNext]_panelVars

PanelFairSpec == PanelSpec /\ PanelFairness

-----------------------------------------------------------------------------
(* Properties.                                                             *)

\* Every run queued on top of one the panel shows has a confirmation of its
\* own: one answer in the dialog never lets two submissions pass.
QuestionPerRun == busySubmits + (IF bypass THEN 1 ELSE 0) <= confirms

\* In a tab that is never hidden the panel ends up showing that nothing runs once
\* nothing does, whatever polls failed and whatever was triggered before.
StatusConverges == [](tab = "visible") /\ <>[](~Busy) => <>[](~shown)
=============================================================================
