------------------------------ MODULE Notices ------------------------------
(* Notification settings and the notices about finished jobs                 *)
(* (internal/notifications/service.go).  Requests load the stored settings,   *)
(* change a copy and store it whole, without a lock; a job that ends loads     *)
(* them once more and sends at most one event.                                *)
EXTENDS AlertChannels

CONSTANTS Requests, Bodies, Jobs, LegacySettings

VARIABLES raw,      \* the app settings: {} or the stored value, and the legacy value
          req,      \* settings requests
          ended,    \* jobs whose terminal hook has run
          notices   \* history: [job, event, ok, up, settings, bad]
vars == <<raw, req, ended, notices>>

NewRequest == [pc |-> "new", body |-> {}, base |-> {}, disturbed |-> FALSE]

Init ==
  /\ raw \in {[v2 |-> {}, legacy |-> l] : l \in {{}, {LegacySettings}}}
  /\ req = [r \in Requests |-> NewRequest]
  /\ ended = {} /\ notices = {}

(* The current key, else the webhook of the first version, else the defaults. *)
loadSettings ==
  IF raw.v2 # {} THEN CHOOSE s \in raw.v2 : TRUE
  ELSE IF raw.legacy # {} THEN [defaultSettings EXCEPT !.webhook = LegacySettings.webhook, !.events = LegacySettings.events]
  ELSE defaultSettings

(* The toggles are replaced; a channel only if the request mentions it.  The   *)
(* flat fields of the first version mention the webhook.                       *)
settingsFromUpdateRequest(base, body) ==
  [events |-> body.events,
   webhook |-> IF body.webhook # {} THEN CHOOSE w \in body.webhook : TRUE ELSE base.webhook,
   telegram |-> IF body.telegram # {} THEN CHOOSE t \in body.telegram : TRUE ELSE base.telegram]

handleUpdateNotificationSettings(r) ==
  /\ req[r].pc = "new"
  /\ \E b \in Bodies : req' = [req EXCEPT ![r] = [NewRequest EXCEPT !.pc = "loaded", !.body = {b}, !.base = {loadSettings}]]
  /\ UNCHANGED <<raw, ended, notices>>

Merged(r) == CHOOSE s \in {settingsFromUpdateRequest(b, c) : b \in req[r].base, c \in req[r].body} : TRUE
Done(r) == [q \in Requests |-> IF q = r THEN [NewRequest EXCEPT !.pc = "done"] ELSE [req[q] EXCEPT !.disturbed = @ \/ req[q].pc = "loaded"]]

UpdateSettings(r) ==
  /\ req[r].pc = "loaded"
  /\ IF validateSettings(Merged(r)) THEN raw' = [raw EXCEPT !.v2 = {Merged(r)}] /\ req' = Done(r)
     ELSE req' = [req EXCEPT ![r] = [NewRequest EXCEPT !.pc = "done"]] /\ UNCHANGED raw
  /\ UNCHANGED <<ended, notices>>

(* A test checks the merged settings, sends to one channel and stores nothing. *)
SendTest(r) ==
  /\ req[r].pc = "loaded"
  /\ req' = [req EXCEPT ![r] = [NewRequest EXCEPT !.pc = "done"]]
  /\ UNCHANGED <<raw, ended, notices>>

isMaintenanceAction(a) == a \in {"update_stacks", "prune", "backup_restore"}

(* Mutation: a successful update is announced without a look at its stacks. *)
SuccessFirst(j, s, bad) ==
  IF j.state = "succeeded" /\ isMaintenanceAction(j.action) /\ "maintenance_succeeded" \in s.events THEN "maintenance_succeeded"
  ELSE IF j.state = "succeeded" /\ j.action = "update_stacks" /\ "post_update_recovery_failed" \in s.events /\ bad THEN "post_update_recovery_failed"
  ELSE "none"

(* The event of a finished job, or "none".  bad: a target of the update is not  *)
(* running or not healthy now.                                                   *)
buildJobPayload(j, s, bad) ==
  IF (j.state = "failed" \/ (j.action = "backup_run" /\ j.state = "timed_out")) /\ "job_failed" \in s.events THEN "job_failed"
  ELSE IF j.state # "succeeded" THEN "none"
  ELSE IF j.action = "update_stacks" /\ "post_update_recovery_failed" \in s.events /\ bad THEN "post_update_recovery_failed"
  ELSE IF j.warned /\ "job_succeeded_with_warnings" \in s.events THEN "job_succeeded_with_warnings"
  ELSE IF isMaintenanceAction(j.action) /\ "maintenance_succeeded" \in s.events THEN "maintenance_succeeded"
  ELSE "none"

(* Whether a target is found not running or not healthy: only updates have targets. *)
inspectPostUpdateFailures(j) == {FALSE} \cup {j.action = "update_stacks"}

(* The terminal hook: settings, events and stacks are read, then sent. *)
DispatchJob(j) ==
  /\ j \notin ended /\ ended' = ended \cup {j}
  /\ \E bad \in inspectPostUpdateFailures(j), up \in SUBSET Channels :
       LET s == loadSettings
           event == buildJobPayload(j, s, bad)
       IN notices' = notices \cup {[job |-> j, event |-> event, ok |-> dispatchPayload(s, up), up |-> up, settings |-> s, bad |-> bad] :
                                     e \in {event} \ {"none"}}
  /\ UNCHANGED <<raw, req>>

Next ==
  \/ \E r \in Requests : handleUpdateNotificationSettings(r) \/ UpdateSettings(r) \/ SendTest(r)
  \/ \E j \in Jobs : DispatchJob(j)

Spec == Init /\ [][Next]_vars

(* docs/api/notifications.md, "attempts delivery to each enabled channel            *)
(* independently": a notice reaches every enabled channel that can be reached, also   *)
(* when another one fails.                                                           *)
ChannelsAreIndependent == \A n \in notices : \A c \in n.up \cap Targets(n.settings) : c \in n.ok

(* validateSettings after every merge: a channel that is stored as enabled can be    *)
(* used, whichever requests of either form came before.                              *)
EnabledIsUsable ==
  \A s \in raw.v2 : (s.webhook.enabled => "webhook" \in Targets(s)) /\ (s.telegram.enabled => "telegram" \in Targets(s))

(* buildJobPayload, the break after the inspection: an update whose stacks did not     *)
(* come back is not announced as a success while the recovery toggle is on.            *)
NoFalseSuccess ==
  \A n \in notices : n.bad /\ n.job.action = "update_stacks" /\ "post_update_recovery_failed" \in n.settings.events
    => n.event # "maintenance_succeeded"

(* settingsFromUpdateRequest: a request leaves a channel that it does not mention as    *)
(* it is in force, migrated from the first version or not, unless another request was   *)
(* saved between its load and its save.                                                *)
UnmentionedIsKept ==
  raw' # raw => \E r \in Requests : req[r].pc = "loaded" /\
    (req[r].disturbed \/ \A b \in req[r].body :
       /\ b.webhook = {} => loadSettings'.webhook = loadSettings.webhook
       /\ b.telegram = {} => loadSettings'.telegram = loadSettings.telegram)

(* A notice reaches every channel that is enabled and up, an enabled channel is usable, and no
   failed recovery is announced as a success. *)
NoticesAreSound == ChannelsAreIndependent /\ EnabledIsUsable /\ NoFalseSuccess
=============================================================================
