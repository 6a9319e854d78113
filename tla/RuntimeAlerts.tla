--------------------------- MODULE RuntimeAlerts ---------------------------
(* The two background polls over the managed stacks                         *)
(* (internal/notifications/service.go): pollRuntimeHealthAlerts compares a   *)
(* fingerprint of the degraded stacks, pollRuntimeLogAlerts counts error      *)
(* lines since the previous poll.  Both run in one goroutine, health first,    *)
(* and keep their state in the database.                                      *)
EXTENDS AlertChannels, Sequences

CONSTANTS Stacks,
          Threshold,  \* runtimeLogErrorThreshold
          Second,     \* clock ticks per second: --since is sent without fractions
          Cooldown,   \* alertCooldown, in ticks
          MaxTime,    \* bound on the clock
          MaxChanges, \* changes of health and log lines
          MaxFaults,  \* failed lists, saves and deliveries, and crashes
          MaxAlerts,  \* deliveries after which the health poll is no longer followed
          Polls,      \* the polls under study: "health", "logs"
          Unreadable, \* sets of stacks whose containers a poll may fail to read
          SettingsChoices

RuntimeAssumption ==
  /\ Threshold \in Nat \ {0} /\ Second \in Nat \ {0} /\ Cooldown \in Nat
  /\ MaxTime \in Nat /\ MaxChanges \in Nat /\ MaxFaults \in Nat /\ MaxAlerts \in Nat

VARIABLES sick,     \* stack -> number of unhealthy or restarting containers
          lines,    \* error lines: [stack, at, id]
          now, changes, faults, settings,
          hstate,   \* runtimeHealthState: fp, at (0: never)
          lstate,   \* runtimeLogState: checked (0: never), fp, at
          poll,     \* the poll under way: pc, seen, start
          read,     \* history: lines some poll has read
          looks,    \* history: degraded health polls since a stored healthy one, up to 2
          calm,     \* history: what each poll reported and stored, and did not clear since
          sent      \* history: alerts [kind, ch, fp, at, fresh, looks, calm]
vars == <<sick, lines, now, changes, faults, settings, hstate, lstate, poll, read, looks, calm, sent>>
world == <<sick, lines, now, changes, settings>>

Idle == [pc |-> "health", seen |-> {}, start |-> 0]
NoHealth == [fp |-> {}, at |-> 0]

Init ==
  /\ sick = [s \in Stacks |-> 0] /\ lines = {} /\ now = 1 /\ changes = 0 /\ faults = 0
  /\ settings \in SettingsChoices
  /\ hstate = NoHealth /\ lstate = [checked |-> 0, fp |-> {}, at |-> 0]
  /\ poll = Idle /\ read = {} /\ looks = 0 /\ calm = [k \in {"health", "logs"} |-> {}] /\ sent = <<>>

Fault == faults < MaxFaults /\ faults' = faults + 1
Mute(event) == event \notin settings.events \/ ~hasConfiguredNotificationChannel(settings)

(* t: the time of the poll; fresh: lines newer than the previous poll. *)
Deliveries(kind, fp, ok, fresh, t) ==
  LET alert(c) == [kind |-> kind, ch |-> c, fp |-> fp, at |-> t, fresh |-> fresh, looks |-> looks', calm |-> calm[kind] = fp]
      one(c) == IF c \in ok THEN <<alert(c)>> ELSE <<>>
  IN one("webhook") \o one("telegram")

(* What a stored state st of a poll means for the history. *)
Calm(kind, st, fp) ==
  calm' = [calm EXCEPT ![kind] = IF faults' = faults /\ st.fp = fp /\ (sent' # sent \/ @ = fp) THEN fp ELSE {}]

-----------------------------------------------------------------------------
(* Health.  The list of stacks fails as a whole, the look at one is skipped. *)
inspectRuntimeHealth(unreadable) == {s \in Stacks \ unreadable : sick[s] > 0}
runtimeHealthFingerprint(failures) == {<<s, sick[s]>> : s \in failures}

saveRuntimeHealthState(new) ==
  \/ hstate' = new /\ UNCHANGED faults
  \/ hstate' = hstate /\ Fault

(* Mutation: there is no cooldown. *)
NeverCooling(st, fp, t) == FALSE

Baseline == hstate = NoHealth
InCooldown(st, fp, t) == st.fp = fp /\ st.at # 0 /\ t - st.at < Cooldown

(* Nothing to report, or not now: the state follows what was seen. *)
HealthQuiet(fp) ==
  /\ IF fp = {} THEN IF Baseline THEN UNCHANGED <<hstate, faults>> ELSE saveRuntimeHealthState(NoHealth)
     ELSE /\ Baseline \/ Mute("runtime_health_degraded") \/ InCooldown(hstate, fp, now)
          /\ saveRuntimeHealthState([hstate EXCEPT !.fp = fp])
  /\ looks' = IF fp # {} THEN (IF looks = 0 THEN 1 ELSE 2) ELSE IF hstate' = NoHealth THEN 0 ELSE looks
  /\ UNCHANGED sent

HealthAlert(fp) ==
  /\ fp # {} /\ ~Baseline /\ ~Mute("runtime_health_degraded") /\ ~InCooldown(hstate, fp, now)
  /\ looks' = IF looks = 0 THEN 1 ELSE 2
  /\ \E ok \in {dispatchPayload(settings, up) : up \in SUBSET Channels} :
       /\ sent' = sent \o Deliveries("health", fp, ok, {}, now)
       /\ IF ok = Targets(settings) THEN saveRuntimeHealthState([fp |-> fp, at |-> now]) ELSE Fault /\ UNCHANGED hstate

pollRuntimeHealthAlerts ==
  /\ poll.pc = "health" /\ "health" \in Polls /\ Len(sent) < MaxAlerts
  /\ poll' = [poll EXCEPT !.pc = "logs"]
  /\ \/ Fault /\ UNCHANGED <<hstate, looks, calm, sent>>
     \/ \E unreadable \in Unreadable :
          LET fp == runtimeHealthFingerprint(inspectRuntimeHealth(unreadable))
          IN (HealthQuiet(fp) \/ HealthAlert(fp)) /\ Calm("health", hstate', fp)
  /\ UNCHANGED <<world, lstate, read>>

-----------------------------------------------------------------------------
(* Logs.  The clock is read before the containers are. *)
saveRuntimeLogState(new) ==
  /\ poll' = Idle
  /\ \/ lstate' = new /\ UNCHANGED faults
     \/ lstate' = lstate /\ Fault

StartLogs ==
  /\ poll.pc = "logs" /\ "logs" \in Polls
  /\ \/ /\ lstate.checked = 0
        /\ saveRuntimeLogState([lstate EXCEPT !.checked = now])
        /\ read' = read \cup lines
     \/ /\ lstate.checked # 0
        /\ poll' = [poll EXCEPT !.pc = "read", !.start = now]
        /\ UNCHANGED <<lstate, faults, read>>
  /\ UNCHANGED <<world, hstate, looks, calm, sent>>

(* docker logs --since, whole seconds, bounds included. *)
readLogs(s) == {l \in lines : l.stack = s /\ l.at >= (lstate.checked \div Second) * Second}

(* Containers that cannot be read are skipped. *)
inspectRuntimeLogFailures ==
  /\ poll.pc = "read"
  /\ \E unreadable \in Unreadable :
       LET got == UNION {readLogs(s) : s \in Stacks \ unreadable}
       IN /\ poll' = [poll EXCEPT !.pc = "decide", !.seen = got]
          /\ read' = read \cup got \cup {l \in lines : l.stack \in unreadable}
  /\ UNCHANGED <<world, faults, hstate, lstate, looks, calm, sent>>

Bursting(seen) == {s \in Stacks : Cardinality({l \in seen : l.stack = s}) >= Threshold}

WindowEnd == poll.start

pollRuntimeLogAlerts ==
  /\ poll.pc = "decide"
  /\ LET fp == Bursting(poll.seen)
         checked == [lstate EXCEPT !.checked = WindowEnd]
     IN /\ looks' = looks
        /\ \/ /\ fp = {} \/ Mute("runtime_log_error_burst")
              /\ saveRuntimeLogState([checked EXCEPT !.fp = fp])
              /\ UNCHANGED sent
           \/ /\ fp # {} /\ ~Mute("runtime_log_error_burst") /\ InCooldown(lstate, fp, poll.start)
              /\ saveRuntimeLogState(checked)
              /\ UNCHANGED sent
           \/ /\ fp # {} /\ ~Mute("runtime_log_error_burst") /\ ~InCooldown(lstate, fp, poll.start)
              /\ \E ok \in {dispatchPayload(settings, up) : up \in SUBSET Channels} :
                   /\ sent' = sent \o Deliveries("logs", fp, ok, {l \in poll.seen : l.at >= lstate.checked}, poll.start)
                   /\ IF ok = Targets(settings) THEN saveRuntimeLogState([checked EXCEPT !.fp = fp, !.at = poll.start])
                      ELSE Fault /\ poll' = Idle /\ UNCHANGED lstate
        /\ Calm("logs", lstate', fp)
  /\ UNCHANGED <<world, hstate, read>>

-----------------------------------------------------------------------------
(* A poll that is not under study is passed over. *)
Skip ==
  /\ poll.pc \in {"health", "logs"} \ Polls
  /\ poll' = IF poll.pc = "health" THEN [poll EXCEPT !.pc = "logs"] ELSE Idle
  /\ UNCHANGED <<world, faults, hstate, lstate, read, looks, calm, sent>>

Crash ==
  /\ poll # Idle /\ Fault /\ poll' = Idle
  /\ UNCHANGED <<world, hstate, lstate, read, looks, calm, sent>>

Change ==
  /\ changes < MaxChanges /\ changes' = changes + 1
  /\ \E s \in Stacks :
       \/ "health" \in Polls /\ (\E n \in 0..2 : n # sick[s] /\ sick' = [sick EXCEPT ![s] = n]) /\ UNCHANGED lines
       \/ "logs" \in Polls /\ lines' = lines \cup {[stack |-> s, at |-> now, id |-> changes]} /\ UNCHANGED sick
  /\ UNCHANGED <<now, faults, settings, hstate, lstate, poll, read, looks, calm, sent>>

UpdateSettings ==
  /\ \E s \in SettingsChoices \ {settings} : settings' = s
  /\ UNCHANGED <<sick, lines, now, changes, faults, hstate, lstate, poll, read, looks, calm, sent>>

Tick == now < MaxTime /\ now' = now + 1 /\ UNCHANGED <<sick, lines, changes, faults, settings, hstate, lstate, poll, read, looks, calm, sent>>

PollStep == pollRuntimeHealthAlerts \/ StartLogs \/ inspectRuntimeLogFailures \/ pollRuntimeLogAlerts \/ Skip

Next == PollStep \/ Crash \/ Change \/ UpdateSettings \/ Tick

Spec == Init /\ [][Next]_vars

(* pollRuntimeHealthAlerts, "state.Fingerprint == \"\"": a single degraded look  *)
(* is only remembered; an alert needs a second one, with no healthy look stored   *)
(* in between, across restarts, failed deliveries and other settings.             *)
AlertNeedsTwoLooks == \A n \in DOMAIN sent : sent[n].kind = "health" => sent[n].looks = 2

Repeat(m, n) == m < n /\ sent[m].kind = sent[n].kind /\ sent[m].ch = sent[n].ch /\ sent[m].fp = sent[n].fp /\ sent[n].at - sent[m].at < Cooldown

(* alertCooldown: an alert is repeated within the cooldown only if the stored     *)
(* state was cleared, overwritten or not saved after it.                          *)
RepeatsHaveACause == \A n \in DOMAIN sent : \A m \in 1..(n - 1) : Repeat(m, n) => ~sent[n].calm

(* pollRuntimeLogAlerts, "now := s.now()" before the logs are read: whatever the   *)
(* stored window covers was read by a poll, so no error line falls between two.     *)
NoLineSkipped == \A l \in lines : l.at < lstate.checked => l \in read

(* Alerts of the running stacks need two looks, are repeated within the cooldown only for a
   cause, and no log line falls between two polls. *)
RuntimeAlertsAreSound == AlertNeedsTwoLooks /\ RepeatsHaveACause /\ NoLineSkipped
=============================================================================
