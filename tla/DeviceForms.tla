----------------------------- MODULE DeviceForms -----------------------------
(***************************************************************************)
(* The three forms beside the selected device: its manual tags, its name   *)
(* suggestions and its metadata.  The page renders them without a key, so  *)
(* they live on when another device is selected and keep what they held.   *)
(*                                                                         *)
(* What a form holds is abstracted to the device it came from and, for     *)
(* tags, the version the server had; the tag picker, to the device whose   *)
(* tags were put in it or that was shown when the operator last changed    *)
(* them.  A cancelled load is gone: its code sets nothing.  Server actions *)
(* run one after the other, and React clears the uncontrolled fields of a  *)
(* form whose action has returned, whatever it returned.                   *)
(***************************************************************************)
EXTENDS Naturals

CONSTANTS
  OpenDevices,
  NoOwner,
  MaxVersion,      \* bound on the changes of a list of one device
  MaxFormSubmits,  \* bound on submissions
  MaxSelects       \* bound on selections

ASSUME FormsAssumption ==
  NoOwner \notin OpenDevices /\ MaxVersion \in Nat /\ MaxFormSubmits \in Nat /\ MaxSelects \in Nat

LoadedLists == {"tags", "names"}
Panels == LoadedLists \cup {"metadata"}

VARIABLES
  device,       \* deviceId, and device.id for the metadata editor
  selects,
  version,      \* core-go: changes so far of the tags of each device
  listRequest,  \* the load of each list that is not cancelled: [of, ver] or none
  listShown,    \* tags, candidates: [of, ver]; NoOwner before a load
  initialized,  \* hasInitializedRef of the tag picker
  draft,        \* the device manualTags was initialised from or last changed for
  meta,         \* the metadata fields: [of, how], how they got their text
  formAction,   \* the server action under way: [panel, to, from, pc]
  formSubmits,
  succeeded,    \* the lists whose form has the state.status "success"
  saved         \* history: the last tags saved: [of, ver], and whether a reload followed

deviceVars == <<device, selects>>
lists == <<listRequest, listShown>>
picker == <<initialized, draft>>
fields == <<picker, meta>>
acting == <<formAction, formSubmits, succeeded, saved>>
formsVars == <<deviceVars, version, lists, fields, acting>>

Nothing == [of |-> NoOwner, ver |-> 0]
Unread == MaxVersion + 1     \* the server has not answered a load yet
NoAction == [panel |-> "none", to |-> NoOwner, from |-> NoOwner, pc |-> "none"]

loading(l) == listRequest[l] # Nothing

FormsTypeOK ==
  /\ device \in OpenDevices /\ selects \in 0 .. MaxSelects
  /\ version \in [OpenDevices -> 0 .. MaxVersion]
  /\ \A l \in LoadedLists :
       /\ listRequest[l] = Nothing \/ listRequest[l] \in [of : OpenDevices, ver : 0 .. Unread]
       /\ listShown[l] = Nothing \/ listShown[l] \in [of : OpenDevices, ver : 0 .. MaxVersion]
  /\ initialized \in BOOLEAN /\ (listShown["tags"] # Nothing => initialized)
  /\ draft \in OpenDevices \cup {NoOwner} /\ (initialized => draft # NoOwner)
  /\ meta \in [of : OpenDevices, how : {"default", "own"}]
  /\ formAction.panel \in Panels \cup {"none"} /\ formAction.pc \in {"none", "sent", "done", "failed"}
  /\ succeeded \subseteq LoadedLists
  /\ formSubmits \in 0 .. MaxFormSubmits

\* The page has been rendered and the effects of the panels have run.  Fields
\* the server rendered follow their default; those the browser made from a
\* device that has metadata hold their text.
FormsInit ==
  /\ device \in OpenDevices /\ selects = 0
  /\ version = [d \in OpenDevices |-> 0]
  /\ listRequest = [l \in LoadedLists |-> [of |-> device, ver |-> Unread]]
  /\ listShown = [l \in LoadedLists |-> Nothing]
  /\ initialized = FALSE /\ draft = NoOwner
  /\ \E how \in {"default", "own"} : meta = [of |-> device, how |-> how]
  /\ formAction = NoAction /\ formSubmits = 0
  /\ succeeded = {}
  /\ saved = [of |-> NoOwner, ver |-> 0, reloaded |-> FALSE]

-----------------------------------------------------------------------------
(* core-go.                                                                *)

\* Discovery suggests tags; other operators edit them.
Changes(d) ==
  /\ version[d] < MaxVersion
  /\ version' = [version EXCEPT ![d] = @ + 1]
  /\ UNCHANGED <<deviceVars, lists, fields, acting>>

-----------------------------------------------------------------------------
(* Loading a list.                                                         *)

\* A load that does not cancel the one before: the first to answer is taken.
LoadBeside(l, d) ==
  IF loading(l) THEN listRequest ELSE [listRequest EXCEPT ![l] = [of |-> d, ver |-> Unread]]

\* The effect on deviceId and refreshKey, which cancels the load before.
Load(l, d) == [listRequest EXCEPT ![l] = [of |-> d, ver |-> Unread]]

Reload(l) ==
  /\ ~loading(l)
  /\ listRequest' = Load(l, device)
  /\ UNCHANGED <<deviceVars, version, listShown, fields, acting>>

Read(l) ==
  /\ loading(l) /\ listRequest[l].ver = Unread
  /\ listRequest' = [listRequest EXCEPT ![l].ver = IF l = "tags" THEN version[listRequest[l].of] ELSE 0]
  /\ UNCHANGED <<deviceVars, version, listShown, fields, acting>>

\* The first tags to arrive initialise manualTags, whatever the operator has chosen by
\* then, and none after them.
Initialise(l, of) ==
  IF l = "tags" /\ ~initialized
  THEN initialized' = TRUE /\ draft' = of
  ELSE UNCHANGED picker

ListArrives(l) ==
  /\ loading(l) /\ listRequest[l].ver # Unread
  /\ listShown' = [listShown EXCEPT ![l] = listRequest[l]]
  /\ listRequest' = [listRequest EXCEPT ![l] = Nothing]
  /\ Initialise(l, listRequest[l].of)
  /\ UNCHANGED <<deviceVars, version, meta, acting>>

LoadFails(l) ==
  /\ loading(l)
  /\ listShown' = [listShown EXCEPT ![l] = Nothing]
  /\ listRequest' = [listRequest EXCEPT ![l] = Nothing]
  /\ UNCHANGED <<deviceVars, version, fields, acting>>

-----------------------------------------------------------------------------
(* The operator.                                                           *)

Showing(d, how) == [of |-> d, how |-> how]

\* The new default shows in fields that follow it and nowhere else.
Defaulted(d) == IF meta.how = "default" THEN Showing(d, "default") ELSE meta

\* Another device; the lists keep what they show until the load is answered.
ShowDevice(d) ==
  /\ d # device /\ selects < MaxSelects
  /\ device' = d /\ selects' = selects + 1
  /\ listRequest' = [l \in LoadedLists |-> Load(l, d)[l]]
  /\ meta' = Defaulted(d)
  /\ UNCHANGED <<version, listShown, picker, acting>>

TypeMetadata ==
  /\ meta.how = "default"
  /\ meta' = [meta EXCEPT !.how = "own"]
  /\ UNCHANGED <<deviceVars, version, lists, picker, acting>>

\* The operator changes manualTags for the device shown, or clears them.
ToggleTag ==
  /\ draft' = device
  /\ UNCHANGED <<deviceVars, version, lists, initialized, meta, acting>>

\* There is a "Use" button for every name shown and no other.
CanSubmit(p) == p = "names" => listShown["names"] # Nothing

Submit(p) ==
  /\ formAction = NoAction /\ formSubmits < MaxFormSubmits /\ CanSubmit(p)
  /\ formAction' = [panel |-> p, to |-> device, from |-> IF p = "tags" THEN draft ELSE NoOwner, pc |-> "sent"]
  /\ formSubmits' = formSubmits + 1
  /\ UNCHANGED <<deviceVars, version, lists, fields, succeeded, saved>>

-----------------------------------------------------------------------------
(* The server actions.                                                     *)

Acted(pc) == formAction' = [formAction EXCEPT !.pc = pc]

updateDeviceTags ==
  /\ formAction.panel = "tags" /\ formAction.pc = "sent" /\ version[formAction.to] < MaxVersion
  /\ version' = [version EXCEPT ![formAction.to] = @ + 1]
  /\ saved' = [of |-> formAction.to, ver |-> version'[formAction.to], reloaded |-> FALSE]
  /\ Acted("done")
  /\ UNCHANGED <<deviceVars, lists, fields, formSubmits, succeeded>>

\* The name is a property of the device, and no part of the suggestions.
updateDeviceDisplayName ==
  /\ formAction.panel = "names" /\ formAction.pc = "sent"
  /\ Acted("done")
  /\ UNCHANGED <<deviceVars, version, lists, fields, formSubmits, succeeded, saved>>

\* All three fields are sent, and those that are not in the request are cleared.
updateDeviceMetadata ==
  /\ formAction.panel = "metadata" /\ formAction.pc = "sent"
  /\ Acted("done")
  /\ UNCHANGED <<deviceVars, version, lists, fields, formSubmits, succeeded, saved>>

\* No session, a read-only one, or an error of core-go.
Refused ==
  /\ formAction.pc = "sent"
  /\ Acted("failed")
  /\ UNCHANGED <<deviceVars, version, lists, fields, formSubmits, succeeded, saved>>

\* The panel's effect on state.status: it runs when that becomes "success".
Succeeds(p) == formAction.pc = "done" /\ p \notin succeeded

Returned ==
  /\ formAction.pc \in {"done", "failed"}
  /\ LET p == formAction.panel IN
     /\ succeeded' = IF formAction.pc = "done" THEN succeeded \cup ({p} \cap LoadedLists) ELSE succeeded \ {p}
     /\ IF p \in LoadedLists /\ Succeeds(p)
        THEN listRequest' = Load(p, device)
        ELSE UNCHANGED listRequest
     /\ saved' = [saved EXCEPT !.reloaded = @ \/ (p = "tags" /\ Succeeds(p))]
     /\ meta' = IF p = "metadata" THEN Showing(device, "default") ELSE meta
  /\ formAction' = NoAction
  /\ UNCHANGED <<deviceVars, version, listShown, picker, formSubmits>>

-----------------------------------------------------------------------------
Server == updateDeviceTags \/ updateDeviceDisplayName \/ updateDeviceMetadata \/ Refused
Answers == \E l \in LoadedLists : Read(l) \/ ListArrives(l) \/ LoadFails(l)
FormsOperator ==
  \/ TypeMetadata \/ ToggleTag
  \/ \E d \in OpenDevices : ShowDevice(d)
  \/ \E p \in Panels : Submit(p)
  \/ \E l \in LoadedLists : Reload(l)

FormsNext ==
  \/ \E d \in OpenDevices : Changes(d)
  \/ Answers \/ FormsOperator \/ Server \/ Returned

FormsSpec == FormsInit /\ [][FormsNext]_formsVars

-----------------------------------------------------------------------------
(* Properties.                                                             *)

\* What is under a device's name is that device's: a list that is not loading, or
\* there is none, as a load of the device before never arrives behind the new
\* one's; and a metadata form nobody typed in, rendered by the server or cleared
\* after an action.
ListsOfSelected ==
  /\ \A l \in LoadedLists : ~loading(l) => listShown[l].of \in {device, NoOwner}
  /\ meta.how = "default" => meta.of = device

\* The first tags saved after an error or a fresh page are shown: whichever load
\* was under way, the list beside "Manual tags updated." is not older.
SavedIsShown ==
  saved.reloaded /\ saved.of = device /\ ~loading("tags") /\ listShown["tags"] # Nothing
    => listShown["tags"].ver >= saved.ver

\* docs/issues.md: tags applied by the user win.  So the tags of a device are not
\* replaced by those that were loaded or chosen for another, with nothing changed in
\* the picker since this one is shown.
UserTagsWin ==
  formAction.panel = "tags" /\ formAction.pc = "done" => formAction.from \in {NoOwner, formAction.to}
=============================================================================
