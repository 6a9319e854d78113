--------------------------- MODULE ProtectionAlerts ---------------------------
(***************************************************************************)
(* The monitor of backup protection: overdue copies, transition alerts     *)
(* with a rotating cursor, and the external heartbeat.  A pass observes    *)
(* under the lock and delivers without it, while captures, evidence, the   *)
(* plans, the policy and the clock go on changing.  Copies are numbered in *)
(* the order of their keys; key 0 is the pause.                            *)
(***************************************************************************)
EXTENDS Integers, Sequences, FiniteSets, FiniteSetsExt, SequencesExt

CONSTANTS
  Copies,      \* 1..n
  Broken,      \* keys whose alerts the channel always refuses
  Period,      \* hours between occurrences
  Grace, Tolerance,
  PerPass,     \* alerts a pass attempts
  URLs, PauseReasons,   \* reasons are numbers
  Start0, MaxTicks, MaxBack, MaxEdits, MaxCrashes   \* bounds of the instance

VARIABLES
  now, copy, reasons, url,
  beat,       \* the URL LastHeartbeatAt belongs to
  notified,   \* delivered alerts: notified[k] is {} or {due}
  cursor, disk,
  pass, bound

vars == <<now, copy, reasons, url, beat, notified, cursor, disk, pass, bound>>
Keys == {0} \cup Copies
NoPass == [pc |-> "idle", changes |-> <<>>, done |-> 0, target |-> {}, healthy |-> FALSE, bad |-> {}]

Init ==
  /\ now = Start0 /\ reasons = {} /\ url \in {{u} : u \in URLs} /\ beat = {}
  /\ copy = [k \in Copies |-> [on |-> TRUE, captured |-> {Start0}, usable |-> TRUE, activated |-> {0}]]
  /\ notified = [k \in Keys |-> {}] /\ cursor = 0 /\ disk = [notified |-> notified, cursor |-> 0]
  /\ pass = NoPass /\ bound = [ticks |-> 0, back |-> 0, edits |-> 0, crashes |-> 0]
Use(b, max) == bound[b] < max /\ bound' = [bound EXCEPT ![b] = @ + 1]

NotFuture(times) == {t \in times : t <= now + Tolerance}
After(t) == ((t \div Period) + 1) * Period
(* The first occurrence after the capture that nothing satisfies, activation included. *)
firstOutstandingDue(k) ==
  LET from == NotFuture(copy[k].captured) \cup {t - 1 : t \in NotFuture(copy[k].activated)} IN
  IF from = {} THEN {((now - Grace - 1) \div Period) * Period}
  ELSE {d \in {After(Max(from))} : d <= now}
OverdueSince(k) == {d + Grace : d \in {e \in firstOutstandingDue(k) : e + Grace <= now}}
Overdue(k) == copy[k].on /\ OverdueSince(k) # {}
(* protectionLocked: the evidence of the checkpoint may be used. *)
EvidenceUsable(k) == copy[k].usable /\ copy[k].captured # {} /\ copy[k].captured \subseteq NotFuture(copy[k].captured)
Fresh(k) == NotFuture(copy[k].captured) # {} /\ ~Overdue(k)
Monitored == {k \in Copies : copy[k].on}
(* A delivered alert is resolved by a usable capture that is not before its deadline. *)
resolved(k) ==
  /\ Fresh(k) /\ EvidenceUsable(k)
  /\ \A d \in NotFuture(notified[k]) : \A c \in copy[k].captured : c >= d

(* Mutation: the heartbeat looks at the age of the copies alone. *)
HealthyByAge == reasons = {} /\ \A k \in Monitored : Fresh(k)
Healthy == reasons = {} /\ \A k \in Monitored : Fresh(k) /\ EvidenceUsable(k) /\ (NotFuture(notified[k]) # {} => resolved(k))

(* The pause is told by its reasons: another set of them is another alert. *)
alertSignature == IF reasons = {} THEN {} ELSE {MapThenSumSet(LAMBDA r : r, reasons)}
Alert(k, clear, due) == [key |-> k, clear |-> clear, due |-> due]
Raised == {Alert(k, FALSE, firstOutstandingDue(k)) : k \in {j \in Monitored : Overdue(j) /\ notified[j] = {}}}
          \cup {Alert(0, FALSE, r) : r \in {alertSignature} \ {{}, notified[0]}}
Cleared == {Alert(k, TRUE, {}) : k \in {j \in Monitored : ~Overdue(j) /\ notified[j] # {} /\ resolved(j)}}
           \cup {Alert(0, TRUE, r) : r \in {alertSignature} \cap ({{}} \ {notified[0]})}
ByKey(S) == SetToSortSeq(S, LAMBDA a, b : a.key < b.key)
(* The pause goes first, then the copies after the last attempted one. *)
Ordered(changes) ==
  LET part(P(_)) == ByKey({c \in changes : P(c.key)}) IN
  part(LAMBDA k : k = 0) \o part(LAMBDA k : k > cursor) \o part(LAMBDA k : 0 < k /\ k <= cursor)

(* observeProtection up to the unlock: alerts of copies nobody monitors are dropped. *)
observeProtection ==
  /\ pass.pc = "idle"
  /\ pass' = [NoPass EXCEPT !.pc = "beat", !.changes = Ordered(Raised \cup Cleared), !.target = url,
                !.healthy = Healthy /\ Monitored # {},
                !.bad = {k \in Monitored : ~copy[k].usable \/ \A c \in copy[k].captured : c + Period + Grace + Period <= now}]
  /\ notified' = [k \in Keys |-> IF k = 0 \/ k \in Monitored THEN notified[k] ELSE {}]
  /\ disk' = IF notified' = notified THEN disk ELSE [disk EXCEPT !.notified = notified']
  /\ UNCHANGED <<now, copy, reasons, url, beat, cursor, bound>>

(* deliverProtectionHeartbeat rechecks the policy, sends, and records for the same URL only. *)
SkipHeartbeat ==
  /\ pass.pc = "beat" /\ (~pass.healthy \/ pass.target = {} \/ reasons # {} \/ url # pass.target)
  /\ pass' = [pass EXCEPT !.pc = "deliver"]
  /\ UNCHANGED <<now, copy, reasons, url, beat, notified, cursor, disk, bound>>
sendProtectionHeartbeat ==
  /\ pass.pc = "beat" /\ pass.healthy /\ pass.target # {} /\ reasons = {} /\ url = pass.target
  /\ pass' = [pass EXCEPT !.pc = "sent"]
  /\ UNCHANGED <<now, copy, reasons, url, beat, notified, cursor, disk, bound>>
Recorded == url = pass.target
HeartbeatAnswer ==
  /\ pass.pc = "sent" /\ pass' = [pass EXCEPT !.pc = "deliver"]
  /\ \E ok \in BOOLEAN : beat' = IF ok /\ Recorded THEN pass.target ELSE beat
  /\ UNCHANGED <<now, copy, reasons, url, notified, cursor, disk, bound>>

(* One alert: the cursor moves on whatever the channel says, a delivered one is remembered;
   an error of the database is ignored. *)
Deliver(k) ==
  /\ pass.pc = "deliver" /\ pass.changes # <<>> /\ Head(pass.changes).key = k /\ pass.done < PerPass
  /\ pass' = [pass EXCEPT !.changes = Tail(@), !.done = @ + 1]
  /\ cursor' = IF k = 0 THEN cursor ELSE k
  /\ \E ok \in BOOLEAN :
       /\ ok => k \notin Broken
       /\ notified' = IF ok THEN [notified EXCEPT ![k] = Head(pass.changes).due] ELSE notified
  /\ \/ disk' = [notified |-> notified', cursor |-> cursor'] \/ disk' = disk
  /\ UNCHANGED <<now, copy, reasons, url, beat, bound>>
EndPass ==
  /\ pass.pc = "deliver" /\ (pass.changes = <<>> \/ pass.done >= PerPass)
  /\ pass' = NoPass /\ UNCHANGED <<now, copy, reasons, url, beat, notified, cursor, disk, bound>>
Monitor == observeProtection \/ SkipHeartbeat \/ sendProtectionHeartbeat \/ HeartbeatAnswer \/ (\E k \in Keys : Deliver(k)) \/ EndPass
-----------------------------------------------------------------------------
world == <<notified, cursor, disk, pass>>
(* A verified copy of a new capture; a checkpoint of the future gives way. *)
recordCheckpoint(k) ==
  /\ Use("edits", MaxEdits)
  /\ copy' = [copy EXCEPT ![k].captured = IF NotFuture(@) = {} THEN {now} ELSE {Max(@ \cup {now})}, ![k].usable = TRUE]
  /\ UNCHANGED <<now, reasons, url, beat, world>>
(* Inventory and checks withdraw the evidence of a checkpoint. *)
reconcileInventory(k) ==
  /\ Use("edits", MaxEdits) /\ copy' = [copy EXCEPT ![k].usable = ~@] /\ UNCHANGED <<now, reasons, url, beat, world>>
SavePlan(k) ==
  /\ Use("edits", MaxEdits)
  /\ \/ copy' = [copy EXCEPT ![k].on = ~@] \/ copy' = [copy EXCEPT ![k].activated = {now}]
  /\ UNCHANGED <<now, reasons, url, beat, world>>
SavePolicy ==
  /\ Use("edits", MaxEdits)
  /\ \/ reasons' \in (SUBSET PauseReasons) \ {reasons} /\ UNCHANGED <<url, beat>>
     \/ \E u \in {{}} \cup {{v} : v \in URLs} : url' = u /\ beat' = {} /\ UNCHANGED reasons
  /\ UNCHANGED <<now, copy, world>>
Tick == Use("ticks", MaxTicks) /\ now' = now + 1 /\ UNCHANGED <<copy, reasons, url, beat, world>>
ClockBack == Use("back", MaxBack) /\ now' = now - Period /\ UNCHANGED <<copy, reasons, url, beat, world>>
Restart ==
  /\ Use("crashes", MaxCrashes) /\ notified' = disk.notified /\ cursor' = disk.cursor /\ pass' = NoPass
  /\ UNCHANGED <<now, copy, reasons, url, beat, disk>>

Next ==
  \/ Monitor \/ \E k \in Copies : recordCheckpoint(k) \/ reconcileInventory(k) \/ SavePlan(k)
  \/ SavePolicy \/ Tick \/ ClockBack \/ Restart
Spec == Init /\ [][Next]_vars
-----------------------------------------------------------------------------
EvidenceDates(k) == (copy[k].captured \cup copy[k].activated) \subseteq NotFuture(copy[k].captured \cup copy[k].activated)
(* Later occurrences do not renew the grace: an overdue copy stays overdue until it is captured
   again or its assignment changes, as long as the clock is not corrected. *)
OverdueIsStable ==
  \A k \in Copies :
    Overdue(k) /\ EvidenceDates(k) /\ now' >= now /\ copy'[k].on /\ copy'[k].captured = copy[k].captured /\ copy'[k].activated = copy[k].activated => Overdue(k)'

(* A heartbeat is sent for an observation in which every scheduled copy was usable and none had
   missed two occurrences and the grace. *)
HeartbeatIsTruthful == pass.pc = "sent" => pass.bad = {} /\ pass.target # {}

(* The recorded heartbeat is one of the address that is configured. *)
HeartbeatIsOfURL == beat \subseteq url

(* A resolved alert had a copy captured at or after the deadline it was raised for. *)
ResolvedByCapture ==
  \A k \in Copies :
    (pass.pc = "deliver" /\ pass'.pc = "deliver" /\ notified[k] # {} /\ notified'[k] = {}) =>
      \A d \in NotFuture(notified[k]) : \E c \in copy[k].captured : c >= d

(* A heartbeat stands for protection that was observed, and the one recorded is of the address
   that is configured. *)
ProtectionIsTruthful == HeartbeatIsTruthful /\ HeartbeatIsOfURL
=============================================================================
