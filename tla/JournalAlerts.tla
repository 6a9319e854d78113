--------------------------- MODULE JournalAlerts ---------------------------
(* The poll that reports errors Stacklab wrote to its own journal           *)
(* (internal/notifications/service.go, pollStacklabServiceErrors) and the    *)
(* journal reader it uses (internal/hostinfo/service.go, StacklabLogs).      *)
(* A cursor is the index of a journal entry; -1 is the empty cursor.  The     *)
(* state of the poll is persisted, so it survives a crash at any point.       *)
EXTENDS AlertChannels, Sequences, Integers

CONSTANTS Kinds,       \* entries that may be logged: "access", "info" or the message of an error
          MaxLog,      \* entries in the journal
          PollLimit,   \* stacklabJournalPollLimit
          ScanFactor,  \* filteredJournalScanMultiplier
          MaxBatch,    \* stacklabJournalMaxBatchFetch
          Cooldown,    \* alertCooldown, in ticks
          MaxTime,     \* bound on the clock
          MaxFaults,   \* failed saves and deliveries, unavailable journals and crashes
          SettingsChoices \* settings the operator may store

JournalAssumption ==
  /\ MaxLog \in Nat /\ PollLimit \in Nat \ {0} /\ ScanFactor \in Nat \ {0} /\ MaxBatch \in Nat \ {0}
  /\ Cooldown \in Nat /\ MaxTime \in Nat /\ MaxFaults \in Nat

VARIABLES journal,    \* entries written so far
          state,      \* stacklabJournalState: cursor, fp, at (0: never)
          settings, now, faults,
          poll,       \* the poll under way
          inspected,  \* history: indexes of error entries a poll decided about
          pending,    \* history: inspected errors that still have to be delivered
          sent        \* history: deliveries [ch, fp, at, faults], in order
vars == <<journal, state, settings, now, faults, poll, inspected, pending, sent>>
env == <<journal, settings, now>>
history == <<inspected, pending, sent>>

Idle == [pc |-> "idle", cursor |-> -1, got |-> {}, n |-> 0]

Init ==
  /\ journal \in UNION {[1..n -> Kinds] : n \in 0..1}
  /\ state = [cursor |-> -1, fp |-> {}, at |-> 0]
  /\ settings \in SettingsChoices /\ now = 1 /\ faults = 0
  /\ poll = Idle /\ inspected = {} /\ pending = {} /\ sent = <<>>

IsError(i) == journal[i] \notin {"access", "info"}
rawJournalLimit(limit) == limit * ScanFactor

(* journalctl: the newest entries without a cursor, else the first after it. *)
journalctl(cursor, n) ==
  IF cursor = -1 THEN {i \in DOMAIN journal : i > Len(journal) - n} ELSE {i \in DOMAIN journal : i > cursor /\ i <= cursor + n}

filterLogEntries(raw) == {i \in raw : journal[i] # "access"}

(* The newest entries that pass the filter, as many as the limit. *)
StacklabLogs(cursor, limit) ==
  LET raw == journalctl(cursor, rawJournalLimit(limit))
      filtered == filterLogEntries(raw)
      items == {i \in filtered : Cardinality({j \in filtered : j >= i}) <= limit}
  IN [items |-> items, more |-> Cardinality(filtered) > limit \/ Cardinality(raw) >= rawJournalLimit(limit)]

Newest(items) == CHOOSE i \in items : \A j \in items : j <= i
Fault == faults < MaxFaults /\ faults' = faults + 1

(* saveStacklabJournalState, which may fail; the poll ends either way. *)
saveStacklabJournalState(new) ==
  /\ poll' = Idle
  /\ \/ state' = new /\ UNCHANGED faults
     \/ state' = state /\ Fault

(* The first poll stores the newest cursor and reports nothing. *)
Prime ==
  /\ poll.pc = "idle" /\ state.cursor = -1
  /\ LET latest == StacklabLogs(-1, 1).items IN latest # {} /\ saveStacklabJournalState([state EXCEPT !.cursor = Newest(latest)])
  /\ inspected' = inspected \cup {i \in DOMAIN journal : i <= state'.cursor}
  /\ UNCHANGED <<env, pending, sent>>

StartPoll ==
  /\ poll.pc = "idle" /\ state.cursor # -1
  /\ poll' = [Idle EXCEPT !.pc = "fetch", !.cursor = state.cursor]
  /\ UNCHANGED <<env, state, faults, history>>

(* One round of fetchNewStacklabLogEntries. *)
fetchNewStacklabLogEntries ==
  /\ poll.pc = "fetch"
  /\ \/ LET page == StacklabLogs(poll.cursor, PollLimit)
            more == page.items # {} /\ page.more /\ poll.n + 1 < MaxBatch
        IN /\ poll' = [poll EXCEPT !.pc = IF more THEN "fetch" ELSE "decide", !.n = IF more THEN @ + 1 ELSE 0,
                                   !.cursor = IF page.items = {} THEN @ ELSE Newest(page.items), !.got = @ \cup page.items]
           /\ UNCHANGED faults
     \/ Fault /\ poll' = Idle
  /\ UNCHANGED <<env, state, history>>

filterStacklabErrorEntries(got) == {i \in got : IsError(i)}

(* How often each message occurs. *)
stacklabErrorFingerprint(errs) ==
  {<<journal[i], Cardinality({j \in errs : journal[j] = journal[i]})>> : i \in errs}

(* Mutation: the same burst is reported again. *)
NeverCooling(fp) == FALSE

InCooldown(fp) == state.fp = fp /\ state.at # 0 /\ now - state.at < Cooldown

(* Mutation: the cursor is saved also when nothing could be delivered. *)
KeepCursor(errs, fp, ok) ==
  saveStacklabJournalState([cursor |-> poll.cursor, fp |-> fp, at |-> now])

(* The payload goes out; the state is saved only if every channel took it. *)
AfterDispatch(errs, fp, ok) ==
  IF ok = Targets(settings) THEN saveStacklabJournalState([cursor |-> poll.cursor, fp |-> fp, at |-> now])
  ELSE Fault /\ poll' = Idle /\ UNCHANGED state

Deliveries(fp, ok) ==
  LET one(c) == IF c \in ok THEN <<[ch |-> c, fp |-> fp, at |-> now, faults |-> faults]>> ELSE <<>>
  IN one("webhook") \o one("telegram")

pollStacklabServiceErrors ==
  /\ poll.pc = "decide"
  /\ LET errs == filterStacklabErrorEntries(poll.got)
         fp == stacklabErrorFingerprint(errs)
         quiet == errs = {} \/ "stacklab_service_error" \notin settings.events \/ ~hasConfiguredNotificationChannel(settings) \/ InCooldown(fp)
     IN /\ inspected' = inspected \cup errs
        /\ \/ /\ quiet
              /\ saveStacklabJournalState([state EXCEPT !.cursor = poll.cursor])
              /\ pending' = pending \ errs
              /\ UNCHANGED sent
           \/ /\ ~quiet
              /\ \E ok \in {dispatchPayload(settings, up) : up \in SUBSET Channels} :
                   /\ AfterDispatch(errs, fp, ok)
                   /\ pending' = IF ok = Targets(settings) THEN pending \ errs ELSE pending \cup errs
                   /\ sent' = sent \o Deliveries(fp, ok)
  /\ UNCHANGED env

Crash ==
  /\ poll # Idle /\ Fault /\ poll' = Idle
  /\ UNCHANGED <<env, state, history>>

WriteEntry ==
  /\ Len(journal) < MaxLog
  /\ \E k \in Kinds : journal' = Append(journal, k)
  /\ UNCHANGED <<state, settings, now, faults, poll, history>>

UpdateSettings ==
  /\ \E s \in SettingsChoices \ {settings} : settings' = s
  /\ UNCHANGED <<journal, state, now, faults, poll, history>>

Tick == now < MaxTime /\ now' = now + 1 /\ UNCHANGED <<journal, state, settings, faults, poll, history>>

PollStep == Prime \/ StartPoll \/ fetchNewStacklabLogEntries \/ pollStacklabServiceErrors

Next == PollStep \/ Crash \/ WriteEntry \/ UpdateSettings \/ Tick

Spec == Init /\ [][Next]_vars

(* pollStacklabServiceErrors, "return err" after a failed dispatch: an error   *)
(* that was found but not delivered to every channel stays ahead of the stored *)
(* cursor, across failures, crashes and later polls, so that it is tried again. *)
UndeliveredStayAhead == \A i \in pending : i > state.cursor

Repeat(m, n) == m < n /\ sent[m].ch = sent[n].ch /\ sent[m].fp = sent[n].fp /\ sent[n].at - sent[m].at < Cooldown

(* LastFingerprint and LastNotifiedAt: two successive deliveries of one burst  *)
(* on a channel within the cooldown happen only if something failed between.   *)
UndisturbedDedupe ==
  \A n \in DOMAIN sent : \A m \in 1..(n - 1) :
    Repeat(m, n) => sent[m].faults < faults \/ \E k \in (m + 1)..(n - 1) : sent[k].fp # sent[m].fp

(* An error that the stored cursor has not passed, and one that a poll has looked at. *)
Ahead(i) == i \in DOMAIN journal /\ IsError(i) /\ 0 < state.cursor /\ state.cursor < i

(* An error in the journal is neither passed over before every channel has it nor repeated
   within the cooldown for no reason. *)
JournalAlertsAreSound == UndeliveredStayAhead /\ UndisturbedDedupe
=============================================================================
