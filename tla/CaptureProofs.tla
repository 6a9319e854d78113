---------------------------- MODULE CaptureProofs ----------------------------
(***************************************************************************)
(* Proofs about captures and restores, for any set of containers and any   *)
(* number of failures and crashes.                                         *)
(***************************************************************************)
EXTENDS Capture, TLAPS

-----------------------------------------------------------------------------
(* The inductive invariant.  A journal is read in three places: on disk, in *)
(* the memory of an operation that stops writers, and in the memory of a    *)
(* resume, where it may be ahead of the disk.                               *)

StopSteps == {"stop", "issue", "wait", "work"}
ResumeSteps == {"resume", "fence", "start"}

(* A writer that needs no journal: it runs with no stop on its way, or it   *)
(* is gone.                                                                 *)
Settled(w) == status[w] = "missing" \/ (status[w] = "running" /\ w \notin stopping)

(* The journal names every writer that somebody relies on and that was      *)
(* stopped with a recorded intent, and the stops it calls complete are.     *)
Covers(journal) ==
    /\ \A w \in wanted \ unrecorded : Settled(w) \/ w \in Unfinished(journal)
    /\ \A w \in Writers : journal.phases[w] = "stopped" => w \notin stopping

DiskInv ==
    /\ disk = NoJournal => \A w \in wanted \ unrecorded : Settled(w)
    /\ disk # NoJournal => Covers(disk)
    /\ disk # NoJournal /\ disk.hold => \A w \in disk.writers : disk.phases[w] = "stopped"
    /\ disk # NoJournal /\ ~disk.hold => disk.writers \subseteq wanted
    /\ pc = "plan" => disk = NoJournal

(* While writers are stopped the journal on disk is the one in memory, and  *)
(* those already treated are down.                                          *)
StopInv ==
    /\ pc \in StopSteps \cup {"remove"} => disk = mem
    /\ pc \in StopSteps \cup {"plan"} => op \in Ops
    /\ pc \in StopSteps =>
         /\ op # "capture" => prepared
         /\ mem.writers \subseteq wanted
         /\ todo \subseteq mem.writers
         /\ \A w \in todo : mem.phases[w] # "stopped"
         /\ \A w \in mem.writers \ todo : mem.phases[w] = "stopped" /\ status[w] # "running"
    /\ pc \in {"stop", "issue", "wait"} => ~mem.hold
    /\ pc = "work" => todo = {} /\ mem.hold = (op # "capture")
    /\ pc \in {"issue", "wait"} => cur \in todo /\ mem.phases[cur] = "stop_requested"
    /\ pc = "wait" => cur \in stopping \/ status[cur] # "running"
    /\ pc = "remove" => mem.hold /\ mem.writers \cap wanted = {}

(* A resume has work left on every writer its journal still lists, unless   *)
(* it has failed, and starts only writers that were recorded or are known   *)
(* to be unrecorded.                                                        *)
ResumeInv ==
    /\ pc \in ResumeSteps =>
         /\ Covers(mem)
         /\ ~mem.hold
         /\ mem.writers \subseteq wanted
         /\ todo \subseteq Unfinished(mem)
         /\ ~failed => Unfinished(mem) \subseteq todo
         /\ \A w \in Unfinished(mem) \ unrecorded : disk # NoJournal /\ w \in Unfinished(disk)
         /\ \A w \in Unfinished(mem) :
               disk # NoJournal /\ disk.phases[w] = "stopped" => mem.phases[w] = "stopped"
         /\ op = "retry" => recoveryError
    /\ pc \in {"fence", "start"} => cur \in todo
    /\ pc = "start" => cur \notin stopping

HoldInv ==
    dirty => /\ pc \in {"work", "idle", "down"}
             /\ pc = "work" => op # "capture"

Inv == /\ TypeOK /\ DiskInv /\ StopInv /\ ResumeInv /\ HoldInv
       /\ JournalBlocksWork /\ PartialRestoreHeld /\ StoppedStayStopped

-----------------------------------------------------------------------------
(* Journals. *)

(* Saving a phase changes that phase of the journal and nothing else.       *)
LEMMA PhaseFacts ==
    ASSUME NEW journal \in Journal, NEW w \in Writers, NEW phase \in Phases
    PROVE  /\ WithPhase(journal, w, phase) \in Journal
           /\ WithPhase(journal, w, phase).writers = journal.writers
           /\ WithPhase(journal, w, phase).hold = journal.hold
           /\ WithPhase(journal, w, phase).phases = [journal.phases EXCEPT ![w] = phase]
           /\ Unfinished(WithPhase(journal, w, phase)) =
                IF phase \in {"stop_requested", "stopped"}
                THEN Unfinished(journal) \cup ({w} \cap journal.writers)
                ELSE Unfinished(journal) \ {w}
BY DEF WithPhase, Journal, Unfinished

(* The same for the hold.                                                   *)
LEMMA HoldFacts ==
    ASSUME NEW journal \in Journal, NEW b \in BOOLEAN
    PROVE  LET held == [journal EXCEPT !.hold = b]
           IN  /\ held \in Journal
               /\ held.writers = journal.writers
               /\ held.hold = b
               /\ held.phases = journal.phases
               /\ Unfinished(held) = Unfinished(journal)
BY DEF Journal, Unfinished

(* A new journal has stopped nothing.                                       *)
LEMMA NewFacts ==
    ASSUME NEW writers \in SUBSET Writers
    PROVE  /\ newStopJournal(writers) \in Journal
           /\ newStopJournal(writers).writers = writers
           /\ newStopJournal(writers).hold = FALSE
           /\ newStopJournal(writers).phases = [w \in Writers |-> "planned"]
           /\ Unfinished(newStopJournal(writers)) = {}
BY DEF newStopJournal, Journal, Phases, Unfinished

(* What a journal is made of.                                               *)
LEMMA JournalFacts ==
    ASSUME NEW journal \in Journal
    PROVE  /\ journal.writers \in SUBSET Writers
           /\ journal.phases \in [Writers -> Phases]
           /\ journal.hold \in BOOLEAN
           /\ Unfinished(journal) \subseteq journal.writers
           /\ journal # NoJournal
BY CaptureAssumption DEF Journal, Unfinished

-----------------------------------------------------------------------------
(* The invariant is inductive. *)

(* A failure is counted within its bound.                                   *)
LEMMA FaultType ==
    ASSUME failures \in 0..MaxFailures, Fault
    PROVE  failures' \in 0..MaxFailures
BY CaptureAssumption DEF Fault

(* The initial states satisfy it.                                           *)
LEMMA InvInit == Init => Inv
<1> SUFFICES ASSUME Init PROVE Inv
  OBVIOUS
<1>1. mem \in Journal /\ mem.hold = FALSE
  BY NewFacts, Zenon DEF Init
<1>2. TypeOK
  <2>1. failures \in 0..MaxFailures /\ crashes \in 0..MaxCrashes
    BY CaptureAssumption DEF Init
  <2>2. status \in [Writers -> {"running", "stopped", "missing"}]
    BY DEF Init
  <2> QED
    BY <1>1, <2>1, <2>2, Zenon DEF Init, TypeOK, Ops
<1>3. DiskInv
  BY DEF Init, DiskInv, Settled
<1> QED
  BY <1>2, <1>3 DEF Init, Inv, StopInv, ResumeInv, HoldInv, JournalBlocksWork, PartialRestoreHeld,
        StoppedStayStopped, StopSteps, ResumeSteps

(* The daemon ends a stop it was asked for.                                 *)
LEMMA DaemonStopsKeepsInv ==
    ASSUME Inv, NEW w \in Writers, DaemonStops(w)
    PROVE  Inv'
<1> USE DEF Inv, DaemonStops, run, data
<1>1. TypeOK'
  BY DEF TypeOK
<1>2. DiskInv'
  BY DEF DiskInv, Covers, Settled, Unfinished
<1>3. StopInv'
  BY JournalFacts DEF TypeOK, StopInv, StopSteps
<1>4. ResumeInv'
  BY DEF ResumeInv, ResumeSteps, Covers, Settled, Unfinished
<1>5. HoldInv' /\ JournalBlocksWork'
  BY DEF HoldInv, JournalBlocksWork
<1>6. PartialRestoreHeld' /\ StoppedStayStopped'
  BY DEF PartialRestoreHeld, StoppedStayStopped
<1> QED
  BY <1>1, <1>2, <1>3, <1>4, <1>5, <1>6

(* An operator removes a stopped container.                                 *)
LEMMA RemoveContainerKeepsInv ==
    ASSUME Inv, NEW w \in Writers, RemoveContainer(w)
    PROVE  Inv'
<1> USE DEF Inv, RemoveContainer, run, data
<1>1. TypeOK'
  BY DEF TypeOK
<1>2. DiskInv'
  BY DEF DiskInv, Covers, Settled, Unfinished
<1>3. StopInv'
  BY DEF StopInv, StopSteps
<1>4. ResumeInv'
  BY DEF ResumeInv, ResumeSteps, Covers, Settled, Unfinished
<1>5. HoldInv' /\ JournalBlocksWork'
  BY DEF HoldInv, JournalBlocksWork
<1>6. PartialRestoreHeld' /\ StoppedStayStopped'
  BY DEF PartialRestoreHeld, StoppedStayStopped
<1> QED
  BY <1>1, <1>2, <1>3, <1>4, <1>5, <1>6

(* A resume takes up a writer.                                              *)
LEMMA ResumeWriterKeepsInv ==
    ASSUME Inv, NEW w \in Writers, ResumeWriter(w)
    PROVE  Inv'
<1> USE DEF Inv, ResumeWriter, data
<1>1. TypeOK'
  BY DEF TypeOK
<1>2. DiskInv'
  BY JournalFacts DEF TypeOK, DiskInv, ResumeInv, ResumeSteps, Covers, Settled
<1>3. StopInv'
  BY DEF StopInv, StopSteps
<1>4. ResumeInv'
  BY DEF ResumeInv, ResumeSteps, Covers, Settled, Unfinished
<1>5. HoldInv' /\ JournalBlocksWork'
  BY DEF HoldInv, JournalBlocksWork
<1>6. PartialRestoreHeld' /\ StoppedStayStopped'
  BY DEF PartialRestoreHeld, StoppedStayStopped
<1> QED
  BY <1>1, <1>2, <1>3, <1>4, <1>5, <1>6

(* The stop that fences a writer has completed.                             *)
LEMMA FenceReturnsKeepsInv ==
    ASSUME Inv, FenceReturns
    PROVE  Inv'
<1> USE DEF Inv, FenceReturns, docker, run, data
<1>1. TypeOK'
  BY DEF TypeOK
<1>2. DiskInv'
  BY DEF DiskInv, Covers, Settled, Unfinished
<1>3. StopInv'
  BY DEF StopInv, StopSteps
<1>4. ResumeInv'
  BY DEF ResumeInv, ResumeSteps, Covers, Settled, Unfinished
<1>5. HoldInv' /\ JournalBlocksWork'
  BY DEF HoldInv, JournalBlocksWork
<1>6. PartialRestoreHeld' /\ StoppedStayStopped'
  BY DEF PartialRestoreHeld, StoppedStayStopped
<1> QED
  BY <1>1, <1>2, <1>3, <1>4, <1>5, <1>6

(* The fence of a writer fails.                                             *)
LEMMA FenceFailsKeepsInv ==
    ASSUME Inv, FenceFails
    PROVE  Inv'
<1> USE DEF Inv, FenceFails, NextWriter, docker, data
<1>1. TypeOK'
  BY FaultType DEF TypeOK
<1>2. DiskInv'
  BY DEF DiskInv, Covers, Settled, Unfinished
<1>3. StopInv'
  BY DEF StopInv, StopSteps
<1>4. ResumeInv'
  BY Zenon DEF ResumeInv, ResumeSteps, Covers, Settled, Unfinished
<1>5. HoldInv' /\ JournalBlocksWork'
  BY DEF HoldInv, JournalBlocksWork
<1>6. PartialRestoreHeld' /\ StoppedStayStopped'
  BY DEF PartialRestoreHeld, StoppedStayStopped
<1> QED
  BY <1>1, <1>2, <1>3, <1>4, <1>5, <1>6

(* A writer is started again.                                               *)
LEMMA StartWriterKeepsInv ==
    ASSUME Inv, StartWriter
    PROVE  Inv'
<1> DEFINE saved == WithPhase(mem, cur, "resumed")
<1>0. /\ cur \in Writers /\ cur \in todo /\ cur \in Unfinished(mem) /\ cur \notin stopping
      /\ saved \in Journal /\ saved.writers = mem.writers /\ ~saved.hold
      /\ saved.phases = [mem.phases EXCEPT ![cur] = "resumed"]
      /\ Unfinished(saved) = Unfinished(mem) \ {cur}
  BY PhaseFacts, JournalFacts, Zenon DEF Inv, TypeOK, ResumeInv, StartWriter, ResumeSteps, Phases
<1>1. /\ mem' = saved /\ disk' \in {disk, saved} /\ (~failed' => ~failed)
      /\ status' = [status EXCEPT ![cur] = "running"]
      /\ pc = "start" /\ pc' = "resume" /\ todo' = todo \ {cur} /\ cur' = NoWriter
      /\ unrecorded' = unrecorded \ {cur} /\ failed' \in BOOLEAN /\ failures' \in 0..MaxFailures
      /\ UNCHANGED <<stopping, op, recovering, again, dirty, prepared, wanted, recoveryError, crashes>>
  BY FaultType, Zenon DEF Inv, TypeOK, StartWriter, NextWriter, saveStopJournal, SaveFails
<1> HIDE DEF saved
<1> USE DEF Inv
<1>2. TypeOK'
  BY <1>0, <1>1 DEF TypeOK
<1>3. DiskInv'
  <2>1. CASE disk' = saved
    BY <1>0, <1>1, <2>1, JournalFacts DEF TypeOK, DiskInv, ResumeInv, Covers, Settled, ResumeSteps
  <2>2. CASE disk' = disk
    BY <1>0, <1>1, <2>2, JournalFacts DEF TypeOK, DiskInv, ResumeInv, Covers, Settled, ResumeSteps
  <2> QED
    BY <1>1, <2>1, <2>2
<1>4. StopInv'
  BY <1>1 DEF StopInv, StopSteps
<1>5. ResumeInv'
  <2>1. Covers(mem)'
    BY <1>0, <1>1, JournalFacts DEF TypeOK, ResumeInv, Covers, Settled, ResumeSteps
  <2>2. \A w \in Unfinished(saved) \ unrecorded' : disk' # NoJournal /\ w \in Unfinished(disk')
    BY <1>0, <1>1, JournalFacts DEF ResumeInv, ResumeSteps
  <2>3. \A w \in Unfinished(saved) :
          disk' # NoJournal /\ disk'.phases[w] = "stopped" => saved.phases[w] = "stopped"
    BY <1>0, <1>1, JournalFacts DEF TypeOK, ResumeInv, ResumeSteps
  <2>4. Unfinished(mem)' = Unfinished(saved) /\ Unfinished(disk)' = Unfinished(disk')
    BY <1>1 DEF Unfinished
  <2> QED
    BY <1>0, <1>1, <2>1, <2>2, <2>3, <2>4, Zenon DEF ResumeInv, ResumeSteps
<1>6. HoldInv' /\ JournalBlocksWork'
  BY <1>1 DEF HoldInv, JournalBlocksWork
<1>7. PartialRestoreHeld' /\ StoppedStayStopped'
  BY <1>0, <1>1, JournalFacts DEF TypeOK, ResumeInv, HoldInv, PartialRestoreHeld, StoppedStayStopped, ResumeSteps
<1> QED
  BY <1>2, <1>3, <1>4, <1>5, <1>6, <1>7

(* The start of a writer fails, or its answer is lost.                      *)
LEMMA StartFailsKeepsInv ==
    ASSUME Inv, StartFails
    PROVE  Inv'
<1> USE DEF Inv, StartFails, NextWriter, data
<1>1. TypeOK'
  BY FaultType DEF TypeOK
<1>2. DiskInv'
  BY DEF TypeOK, DiskInv, Covers, Settled, Unfinished
<1>3. StopInv'
  BY DEF StopInv, StopSteps
<1>4. ResumeInv'
  BY JournalFacts, Zenon DEF TypeOK, ResumeInv, ResumeSteps, Covers, Settled
<1>5. HoldInv' /\ JournalBlocksWork'
  BY DEF HoldInv, JournalBlocksWork
<1>6. PartialRestoreHeld' /\ StoppedStayStopped'
  BY JournalFacts DEF TypeOK, ResumeInv, ResumeSteps, HoldInv, PartialRestoreHeld, StoppedStayStopped
<1> QED
  BY <1>1, <1>2, <1>3, <1>4, <1>5, <1>6

(* A resume without failure removes the journal.                            *)
LEMMA RemoveJournalKeepsInv ==
    ASSUME Inv, removeJournal
    PROVE  Inv'
<1> USE DEF Inv, removeJournal, ResumeReturns, BeginResume, run, docker
<1>1. TypeOK'
  BY JournalFacts, FaultType, Zenon DEF TypeOK
<1>2. DiskInv'
  BY JournalFacts, Zenon DEF TypeOK, DiskInv, ResumeInv, ResumeSteps, Covers, Settled
<1>3. StopInv'
  BY Zenon DEF StopInv, StopSteps
<1>4. ResumeInv'
  BY Zenon DEF ResumeInv, ResumeSteps, Covers, Settled, Unfinished
<1>5. HoldInv' /\ JournalBlocksWork'
  BY Zenon DEF ResumeInv, ResumeSteps, HoldInv, JournalBlocksWork
<1>6. PartialRestoreHeld' /\ StoppedStayStopped'
  BY DEF HoldInv, PartialRestoreHeld, StoppedStayStopped
<1> QED
  BY <1>1, <1>2, <1>3, <1>4, <1>5, <1>6

(* A resume that has failed keeps the journal.                              *)
LEMMA RetainJournalKeepsInv ==
    ASSUME Inv, RetainJournal
    PROVE  Inv'
<1> USE DEF Inv, RetainJournal, ResumeReturns, BeginResume, run, docker
<1>1. TypeOK'
  BY JournalFacts, Zenon DEF TypeOK
<1>2. DiskInv'
  BY Zenon DEF DiskInv, Covers, Settled, Unfinished
<1>3. StopInv'
  BY Zenon DEF StopInv, StopSteps
<1>4. ResumeInv'
  BY Zenon DEF ResumeInv, ResumeSteps, Covers, Settled, Unfinished
<1>5. HoldInv' /\ JournalBlocksWork'
  BY Zenon DEF ResumeInv, ResumeSteps, HoldInv, JournalBlocksWork
<1>6. PartialRestoreHeld' /\ StoppedStayStopped'
  BY DEF HoldInv, PartialRestoreHeld, StoppedStayStopped
<1> QED
  BY <1>1, <1>2, <1>3, <1>4, <1>5, <1>6

(* An operation is admitted, or its Recover begins.                         *)
LEMMA BeginKeepsInv ==
    ASSUME Inv, NEW o \in Ops \cup {"retry"}, Begin(o)
    PROVE  Inv'
<1> USE DEF Inv, Begin, BeginResume, docker, data
<1>1. TypeOK'
  BY JournalFacts, Zenon DEF TypeOK
<1>2. DiskInv'
  BY DEF DiskInv, Covers, Settled, Unfinished
<1>3. StopInv'
  BY DEF StopInv, StopSteps
<1>4. ResumeInv'
  BY JournalFacts DEF TypeOK, DiskInv, StopInv, ResumeInv, JournalBlocksWork, Covers, Settled, Unfinished, StopSteps, ResumeSteps, Ops, Phases
<1>5. HoldInv' /\ JournalBlocksWork'
  BY JournalFacts DEF TypeOK, HoldInv, JournalBlocksWork, PartialRestoreHeld
<1>6. PartialRestoreHeld' /\ StoppedStayStopped'
  BY DEF PartialRestoreHeld, StoppedStayStopped
<1> QED
  BY <1>1, <1>2, <1>3, <1>4, <1>5, <1>6

(* The process starts and recovers.                                         *)
LEMMA RestartKeepsInv ==
    ASSUME Inv, Restart
    PROVE  Inv'
<1> USE DEF Inv, Restart, BeginResume, docker, data
<1>1. TypeOK'
  BY JournalFacts, Zenon DEF TypeOK
<1>2. DiskInv'
  BY DEF DiskInv, Covers, Settled, Unfinished
<1>3. StopInv'
  BY DEF StopInv, StopSteps
<1>4. ResumeInv'
  BY JournalFacts DEF TypeOK, DiskInv, ResumeInv, ResumeSteps, Covers, Settled, Unfinished
<1>5. HoldInv' /\ JournalBlocksWork'
  BY JournalFacts DEF TypeOK, HoldInv, JournalBlocksWork, PartialRestoreHeld
<1>6. PartialRestoreHeld' /\ StoppedStayStopped'
  BY DEF PartialRestoreHeld, StoppedStayStopped
<1> QED
  BY <1>1, <1>2, <1>3, <1>4, <1>5, <1>6

(* The journal of an operation is written.                                  *)
LEMMA PlanKeepsInv ==
    ASSUME Inv, NEW selected \in SUBSET Writers, Plan(selected)
    PROVE  Inv'
<1> DEFINE writers == uniqueRunningWriters(selected)
           saved == newStopJournal(writers)
<1>0. /\ writers \subseteq wanted /\ writers \subseteq Writers
      /\ saved \in Journal /\ saved.writers = writers /\ ~saved.hold
      /\ saved.phases = [w \in Writers |-> "planned"] /\ Unfinished(saved) = {}
  BY NewFacts DEF Inv, TypeOK, StoppedStayStopped, uniqueRunningWriters
<1>1. /\ pc = "plan" /\ disk = NoJournal /\ op \in Ops
      /\ \A w \in wanted \ unrecorded : Settled(w)
      /\ mem' = saved /\ recovering' = FALSE /\ failures' \in 0..MaxFailures
      /\ UNCHANGED <<status, stopping, op, cur, failed, again, dirty, wanted, unrecorded, crashes>>
      /\ \/ /\ disk' = saved /\ pc' = "stop" /\ todo' = writers
            /\ prepared' = (prepared \/ op # "capture") /\ UNCHANGED recoveryError
         \/ /\ disk' \in {NoJournal, saved} /\ pc' = "idle"
            /\ recoveryError' = (disk' # NoJournal) /\ UNCHANGED <<todo, prepared>>
  BY FaultType DEF Inv, TypeOK, DiskInv, StopInv, Plan, saveStopJournal, SaveFails, docker
<1> HIDE DEF writers, saved
<1> USE DEF Inv
<1>2. TypeOK'
  BY <1>0, <1>1, Zenon DEF TypeOK
<1>3. DiskInv'
  <2>1. \A w \in (wanted \ unrecorded)' : Settled(w)'
    BY <1>1 DEF Settled
  <2> QED
    BY <1>0, <1>1, <2>1, JournalFacts DEF TypeOK, DiskInv, Covers
<1>4. StopInv'
  BY <1>0, <1>1, Zenon DEF StopInv, StopSteps
<1>5. ResumeInv'
  BY <1>1 DEF ResumeInv, ResumeSteps
<1>6. HoldInv' /\ JournalBlocksWork'
  BY <1>1, Zenon DEF HoldInv, JournalBlocksWork
<1>7. PartialRestoreHeld' /\ StoppedStayStopped'
  BY <1>1 DEF HoldInv, PartialRestoreHeld, StoppedStayStopped
<1> QED
  BY <1>2, <1>3, <1>4, <1>5, <1>6, <1>7

(* An operation finds nothing to do.                                        *)
LEMMA PlanEndsKeepsInv ==
    ASSUME Inv, PlanEnds
    PROVE  Inv'
<1> USE DEF Inv, PlanEnds, docker, run, data
<1>1. TypeOK'
  BY DEF TypeOK
<1>2. DiskInv'
  BY DEF DiskInv, Covers, Settled, Unfinished
<1>3. StopInv'
  BY DEF StopInv, StopSteps
<1>4. ResumeInv'
  BY DEF ResumeInv, ResumeSteps
<1>5. HoldInv' /\ JournalBlocksWork'
  BY JournalFacts DEF TypeOK, DiskInv, HoldInv, JournalBlocksWork
<1>6. PartialRestoreHeld' /\ StoppedStayStopped'
  BY DEF PartialRestoreHeld, StoppedStayStopped
<1> QED
  BY <1>1, <1>2, <1>3, <1>4, <1>5, <1>6

(* The intent to stop a writer is saved.                                    *)
LEMMA RequestStopKeepsInv ==
    ASSUME Inv, NEW w \in Writers, RequestStop(w)
    PROVE  Inv'
<1> DEFINE saved == WithPhase(mem, w, "stop_requested")
<1>0. /\ pc = "stop" /\ w \in todo /\ w \in mem.writers /\ disk = mem /\ mem.phases[w] # "stopped"
      /\ mem \in Journal /\ ~mem.hold /\ mem.writers \subseteq wanted /\ Covers(mem)
      /\ saved \in Journal /\ saved.writers = mem.writers /\ ~saved.hold
      /\ saved.phases = [mem.phases EXCEPT ![w] = "stop_requested"]
      /\ Unfinished(saved) = Unfinished(mem) \cup {w}
  <2>1. /\ pc = "stop" /\ w \in todo /\ w \in mem.writers /\ disk = mem /\ mem.phases[w] # "stopped"
        /\ mem \in Journal /\ ~mem.hold /\ mem.writers \subseteq wanted /\ Covers(mem)
    BY JournalFacts DEF Inv, TypeOK, DiskInv, StopInv, RequestStop, StopSteps
  <2>2. {w} \cap mem.writers = {w} /\ "stop_requested" \in Phases
    BY <2>1, SMTT(30) DEF Phases
  <2> HIDE DEF saved
  <2>3. /\ saved \in Journal /\ saved.writers = mem.writers /\ saved.hold = mem.hold
        /\ saved.phases = [mem.phases EXCEPT ![w] = "stop_requested"]
        /\ Unfinished(saved) = Unfinished(mem) \cup ({w} \cap mem.writers)
    BY <2>1, <2>2, PhaseFacts, SMTT(30) DEF saved
  <2> QED
    BY <2>1, <2>2, <2>3, SMTT(30)
<1>1. /\ mem' = saved /\ failures' \in 0..MaxFailures
      /\ UNCHANGED <<status, stopping, op, recovering, again, dirty, prepared, wanted, recoveryError, crashes>>
      /\ \/ /\ disk' = saved /\ pc' = "issue" /\ cur' = w /\ UNCHANGED <<todo, failed, unrecorded>>
         \/ /\ disk' \in {mem, saved} /\ pc' = "resume" /\ todo' = Unfinished(saved)
            /\ failed' = FALSE /\ cur' = NoWriter
            /\ unrecorded' = IF disk' = saved THEN unrecorded ELSE unrecorded \cup {w}
  BY <1>0, FaultType, SMTT(30) DEF Inv, TypeOK, RequestStop, saveStopJournal, SaveFails, BeginResume, docker
<1>2. Unfinished(mem)' = Unfinished(saved) /\ Unfinished(disk)' = Unfinished(disk')
  BY <1>1, SMTT(30) DEF Unfinished
<1> HIDE DEF saved
<1> USE DEF Inv
<1>3. TypeOK'
  BY <1>0, <1>1, JournalFacts, ZenonT(30) DEF TypeOK
<1>4. Covers(mem)'
  BY <1>0, <1>1, <1>2, JournalFacts DEF TypeOK, Covers, Settled
<1>5. DiskInv'
  <2>1. CASE disk' = saved
    BY <1>0, <1>1, <1>2, <1>4, <2>1, JournalFacts DEF TypeOK, DiskInv, Covers, Settled
  <2>2. CASE disk' = mem
    BY <1>0, <1>1, <2>2, JournalFacts DEF TypeOK, DiskInv, Covers, Settled
  <2> QED
    BY <1>1, <2>1, <2>2
<1>6. StopInv'
  <2>1. CASE pc' = "issue"
    BY <1>0, <1>1, <2>1, JournalFacts DEF TypeOK, StopInv, StopSteps
  <2>2. CASE pc' = "resume"
    BY <2>2, SMTT(30) DEF StopInv, StopSteps
  <2> QED
    BY <1>1, <2>1, <2>2, SMTT(30)
<1>7. ResumeInv'
  BY <1>0, <1>1, <1>2, <1>4, JournalFacts, SMTT(30) DEF TypeOK, StopInv, ResumeInv, Covers, ResumeSteps, StopSteps, Ops
<1>8. HoldInv' /\ JournalBlocksWork' /\ PartialRestoreHeld' /\ StoppedStayStopped'
  BY <1>0, <1>1 DEF HoldInv, JournalBlocksWork, PartialRestoreHeld, StoppedStayStopped
<1> QED
  BY <1>3, <1>5, <1>6, <1>7, <1>8

(* The stop is sent to the daemon.                                          *)
LEMMA IssueStopKeepsInv ==
    ASSUME Inv, IssueStop
    PROVE  Inv'
<1> USE DEF Inv, IssueStop, run, data
<1>1. TypeOK'
  BY SMTT(30) DEF TypeOK, StopInv
<1>2. DiskInv'
  BY JournalFacts DEF TypeOK, DiskInv, StopInv, ResumeInv, Covers, Settled, Unfinished, StopSteps, ResumeSteps, Phases
<1>3. StopInv'
  BY DEF StopInv, StopSteps
<1>4. ResumeInv'
  BY DEF ResumeInv, ResumeSteps
<1>5. HoldInv' /\ JournalBlocksWork'
  BY DEF HoldInv, JournalBlocksWork
<1>6. PartialRestoreHeld' /\ StoppedStayStopped'
  BY DEF PartialRestoreHeld, StoppedStayStopped
<1> QED
  BY <1>1, <1>2, <1>3, <1>4, <1>5, <1>6

(* A writer is down, and that is saved.                                     *)
LEMMA StopReturnsKeepsInv ==
    ASSUME Inv, StopReturns
    PROVE  Inv'
<1> DEFINE saved == WithPhase(mem, cur, "stopped")
<1>0. /\ pc = "wait" /\ cur \in todo /\ cur \in mem.writers /\ disk = mem /\ mem.phases[cur] = "stop_requested"
      /\ cur \notin stopping /\ status[cur] # "running"
      /\ mem \in Journal /\ ~mem.hold /\ mem.writers \subseteq wanted /\ Covers(mem)
      /\ saved \in Journal /\ saved.writers = mem.writers /\ ~saved.hold
      /\ saved.phases = [mem.phases EXCEPT ![cur] = "stopped"]
      /\ Unfinished(saved) = Unfinished(mem)
  <2>1. /\ pc = "wait" /\ cur \in todo /\ cur \in mem.writers /\ disk = mem /\ mem.phases[cur] = "stop_requested"
        /\ cur \notin stopping /\ status[cur] # "running"
        /\ mem \in Journal /\ ~mem.hold /\ mem.writers \subseteq wanted /\ Covers(mem)
    BY JournalFacts DEF Inv, TypeOK, DiskInv, StopInv, StopReturns, StopSteps
  <2>2. cur \in Unfinished(mem) /\ cur \in Writers /\ "stopped" \in Phases
    BY <2>1, JournalFacts, SMTT(30) DEF Unfinished, Phases
  <2> HIDE DEF saved
  <2>3. /\ saved \in Journal /\ saved.writers = mem.writers /\ saved.hold = mem.hold
        /\ saved.phases = [mem.phases EXCEPT ![cur] = "stopped"]
        /\ Unfinished(saved) = Unfinished(mem) \cup ({cur} \cap mem.writers)
    BY <2>1, <2>2, PhaseFacts, SMTT(30) DEF saved
  <2> QED
    BY <2>1, <2>2, <2>3, SMTT(30)
<1>1. /\ mem' = saved /\ failures' \in 0..MaxFailures
      /\ UNCHANGED <<status, stopping, op, recovering, again, dirty, prepared, wanted, unrecorded, recoveryError, crashes>>
      /\ \/ /\ disk' = saved /\ pc' = "stop" /\ todo' = todo \ {cur} /\ cur' = NoWriter /\ UNCHANGED failed
         \/ /\ disk' \in {mem, saved} /\ pc' = "resume" /\ todo' = Unfinished(saved)
            /\ failed' = FALSE /\ cur' = NoWriter
  BY <1>0, FaultType DEF Inv, TypeOK, StopReturns, saveStopJournal, SaveFails, BeginResume, docker, data
<1>2. Unfinished(mem)' = Unfinished(saved) /\ Unfinished(disk)' = Unfinished(disk')
  BY <1>1, SMTT(30) DEF Unfinished
<1> HIDE DEF saved
<1> USE DEF Inv
<1>3. TypeOK'
  BY <1>0, <1>1, JournalFacts, ZenonT(30) DEF TypeOK
<1>4. Covers(mem)'
  BY <1>0, <1>1, <1>2, JournalFacts DEF TypeOK, Covers, Settled
<1>5. DiskInv'
  <2>1. CASE disk' = saved
    BY <1>0, <1>1, <1>2, <1>4, <2>1, JournalFacts, SMTT(30) DEF TypeOK, DiskInv, Covers, Settled
  <2>2. CASE disk' = mem
    BY <1>0, <1>1, <2>2, JournalFacts, SMTT(30) DEF TypeOK, DiskInv, Covers, Settled
  <2> QED
    BY <1>1, <2>1, <2>2, SMTT(30)
<1>6. StopInv'
  BY <1>0, <1>1, JournalFacts, SMTT(30) DEF TypeOK, StopInv, StopSteps
<1>7. ResumeInv'
  BY <1>0, <1>1, <1>2, <1>4, JournalFacts, SMTT(30) DEF TypeOK, StopInv, ResumeInv, Covers, ResumeSteps, StopSteps, Ops
<1>8. HoldInv' /\ JournalBlocksWork' /\ PartialRestoreHeld' /\ StoppedStayStopped'
  BY <1>0, <1>1 DEF HoldInv, JournalBlocksWork, PartialRestoreHeld, StoppedStayStopped
<1> QED
  BY <1>3, <1>5, <1>6, <1>7, <1>8

(* A stop fails.                                                            *)
LEMMA StopFailsKeepsInv ==
    ASSUME Inv, StopFails
    PROVE  Inv'
<1> USE DEF Inv, StopFails, BeginResume, docker, data
<1>1. TypeOK'
  BY JournalFacts, FaultType, Zenon DEF TypeOK
<1>2. DiskInv'
  BY DEF DiskInv, Covers, Settled, Unfinished
<1>3. StopInv'
  BY DEF StopInv, StopSteps
<1>4. ResumeInv'
  BY JournalFacts DEF TypeOK, DiskInv, StopInv, ResumeInv, JournalBlocksWork, Covers, Settled, Unfinished, StopSteps, ResumeSteps, Ops, Phases
<1>5. HoldInv' /\ JournalBlocksWork'
  BY DEF HoldInv, JournalBlocksWork
<1>6. PartialRestoreHeld' /\ StoppedStayStopped'
  BY DEF PartialRestoreHeld, StoppedStayStopped
<1> QED
  BY <1>1, <1>2, <1>3, <1>4, <1>5, <1>6, SMTT(30)

(* Every writer of a capture is down.                                       *)
LEMMA CaptureBeginsKeepsInv ==
    ASSUME Inv, CaptureBegins
    PROVE  Inv'
<1> USE DEF Inv, CaptureBegins, docker, run, data
<1>1. TypeOK'
  BY SMTT(30) DEF TypeOK
<1>2. DiskInv'
  BY SMTT(30) DEF DiskInv, Covers, Settled, Unfinished
<1>3. StopInv'
  BY JournalFacts, SMTT(30) DEF TypeOK, StopInv, StopSteps
<1>4. ResumeInv'
  BY DEF ResumeInv, ResumeSteps
<1>5. HoldInv' /\ JournalBlocksWork'
  BY DEF HoldInv, JournalBlocksWork
<1>6. PartialRestoreHeld' /\ StoppedStayStopped'
  BY DEF PartialRestoreHeld, StoppedStayStopped
<1> QED
  BY <1>1, <1>2, <1>3, <1>4, <1>5, <1>6

(* The capture is over.                                                     *)
LEMMA CaptureEndsKeepsInv ==
    ASSUME Inv, CaptureEnds
    PROVE  Inv'
<1> USE DEF Inv, CaptureEnds, BeginResume, docker, data
<1>1. TypeOK'
  BY JournalFacts, FaultType, Zenon DEF TypeOK
<1>2. DiskInv'
  BY DEF DiskInv, Covers, Settled, Unfinished
<1>3. StopInv'
  BY SMTT(30) DEF StopInv, StopSteps
<1>4. ResumeInv'
  BY JournalFacts DEF TypeOK, DiskInv, StopInv, ResumeInv, JournalBlocksWork, Covers, Settled, Unfinished, StopSteps, ResumeSteps, Ops, Phases
<1>5. HoldInv' /\ JournalBlocksWork'
  BY DEF HoldInv, JournalBlocksWork
<1>6. PartialRestoreHeld' /\ StoppedStayStopped'
  BY DEF PartialRestoreHeld, StoppedStayStopped
<1> QED
  BY <1>1, <1>2, <1>3, <1>4, <1>5, <1>6, SMTT(30)

(* The hold of a restore is saved before its first write.                   *)
LEMMA HoldStoppedKeepsInv ==
    ASSUME Inv, HoldStopped
    PROVE  Inv'
<1> DEFINE saved == [mem EXCEPT !.hold = TRUE]
<1>0. /\ pc = "stop" /\ todo = {} /\ op \in Ops \ {"capture"} /\ prepared /\ disk = mem
      /\ mem \in Journal /\ ~mem.hold /\ mem.writers \subseteq wanted /\ Covers(mem)
      /\ \A w \in mem.writers : mem.phases[w] = "stopped" /\ status[w] # "running"
      /\ saved \in Journal /\ saved.writers = mem.writers /\ saved.hold
      /\ saved.phases = mem.phases /\ Unfinished(saved) = Unfinished(mem)
  BY HoldFacts, JournalFacts, ZenonT(30) DEF Inv, TypeOK, DiskInv, StopInv, HoldStopped, StopSteps
<1>1. /\ failures' \in 0..MaxFailures
      /\ UNCHANGED <<status, stopping, op, recovering, again, prepared, wanted, unrecorded, recoveryError, crashes>>
      /\ \/ /\ disk' = saved /\ mem' = saved /\ pc' = "work" /\ dirty' = TRUE /\ UNCHANGED <<cur, todo, failed>>
         \/ /\ disk' \in {mem, saved} /\ mem' = mem /\ pc' = "resume" /\ todo' = Unfinished(mem)
            /\ failed' = FALSE /\ cur' = NoWriter /\ UNCHANGED dirty
  BY <1>0, FaultType DEF Inv, TypeOK, HoldStopped, saveStopJournal, SaveFails, BeginResume, docker
<1>2. Unfinished(mem)' = Unfinished(mem) /\ Unfinished(disk)' = Unfinished(mem)
  BY <1>0, <1>1, Zenon DEF Unfinished
<1> HIDE DEF saved
<1> USE DEF Inv
<1>3. TypeOK'
  BY <1>0, <1>1, JournalFacts, Zenon DEF TypeOK
<1>4. Covers(mem)' /\ Covers(disk)'
  BY <1>0, <1>1, <1>2, SMTT(30) DEF TypeOK, Covers, Settled
<1>5. DiskInv'
  BY <1>0, <1>1, <1>4, JournalFacts DEF TypeOK, DiskInv
<1>6. StopInv'
  BY <1>0, <1>1, ZenonT(30) DEF StopInv, StopSteps, Ops
<1>7. ResumeInv'
  BY <1>0, <1>1, <1>2, <1>4, JournalFacts, Zenon DEF ResumeInv, ResumeSteps, Ops
<1>8. HoldInv' /\ JournalBlocksWork' /\ StoppedStayStopped'
  <2>1. HoldInv'  BY <1>0, <1>1, Zenon DEF HoldInv
  <2>2. JournalBlocksWork'  BY <1>0, <1>1, JournalFacts, Zenon DEF JournalBlocksWork
  <2>3. StoppedStayStopped'  BY <1>0, <1>1, Zenon DEF StoppedStayStopped
  <2> QED  BY <2>1, <2>2, <2>3
<1>9. PartialRestoreHeld'
  BY <1>0, <1>1, JournalFacts, Zenon DEF HoldInv, PartialRestoreHeld
<1> QED
  BY <1>3, <1>5, <1>6, <1>7, <1>8, <1>9

(* The restored data are complete.                                          *)
LEMMA RestoreEndsKeepsInv ==
    ASSUME Inv, RestoreEnds
    PROVE  Inv'
<1> DEFINE saved == [mem EXCEPT !.hold = FALSE]
<1>0. /\ pc = "work" /\ todo = {} /\ op \in Ops \ {"capture"} /\ disk = mem
      /\ mem \in Journal /\ mem.hold /\ mem.writers \subseteq wanted /\ Covers(mem)
      /\ \A w \in mem.writers : mem.phases[w] = "stopped" /\ status[w] # "running"
      /\ saved \in Journal /\ saved.writers = mem.writers /\ ~saved.hold
      /\ saved.phases = mem.phases /\ Unfinished(saved) = Unfinished(mem)
  BY HoldFacts, JournalFacts, ZenonT(30) DEF Inv, TypeOK, DiskInv, StopInv, RestoreEnds, StopSteps
<1>1. /\ dirty' = FALSE
      /\ UNCHANGED <<status, stopping, disk, op, recovering, again, prepared, unrecorded, recoveryError, failures, crashes>>
      /\ \/ /\ mem' = saved /\ pc' = "resume" /\ todo' = Unfinished(saved)
            /\ failed' = FALSE /\ cur' = NoWriter /\ UNCHANGED wanted
         \/ /\ pc' = "remove" /\ wanted' = wanted \ mem.writers /\ UNCHANGED <<mem, cur, todo, failed>>
  BY DEF RestoreEnds, BeginResume, docker
<1>2. Unfinished(mem)' = Unfinished(mem) /\ Unfinished(disk)' = Unfinished(mem)
  BY <1>0, <1>1, Zenon DEF Unfinished
<1> HIDE DEF saved
<1> USE DEF Inv
<1>3. TypeOK'
  BY <1>0, <1>1, JournalFacts, ZenonT(30) DEF TypeOK
<1>4. Covers(mem)' /\ Covers(disk)'
  BY <1>0, <1>1, <1>2 DEF TypeOK, Covers, Settled
<1>5. DiskInv'
  BY <1>0, <1>1, <1>4, JournalFacts DEF TypeOK, DiskInv
<1>6. StopInv'
  BY <1>0, <1>1, SMTT(30) DEF StopInv, StopSteps, Ops
<1>7. ResumeInv'
  BY <1>0, <1>1, <1>2, <1>4, JournalFacts, SMTT(30) DEF ResumeInv, ResumeSteps, Ops
<1>8. HoldInv' /\ JournalBlocksWork' /\ PartialRestoreHeld' /\ StoppedStayStopped'
  BY <1>0, <1>1 DEF HoldInv, JournalBlocksWork, PartialRestoreHeld, StoppedStayStopped
<1> QED
  BY <1>3, <1>5, <1>6, <1>7, <1>8

(* A restore fails half way.                                                *)
LEMMA RestoreFailsKeepsInv ==
    ASSUME Inv, RestoreFails
    PROVE  Inv'
<1> USE DEF Inv, RestoreFails, docker, run, data
<1>1. TypeOK'
  BY FaultType, SMTT(30) DEF TypeOK
<1>2. DiskInv'
  BY SMTT(30) DEF DiskInv, Covers, Settled, Unfinished
<1>3. StopInv'
  BY SMTT(30) DEF StopInv, StopSteps
<1>4. ResumeInv'
  BY DEF ResumeInv, ResumeSteps
<1>5. HoldInv' /\ JournalBlocksWork'
  BY DEF HoldInv, JournalBlocksWork
<1>6. PartialRestoreHeld' /\ StoppedStayStopped'
  BY DEF PartialRestoreHeld, StoppedStayStopped
<1> QED
  BY <1>1, <1>2, <1>3, <1>4, <1>5, <1>6

(* The journal of a restore that leaves its services stopped is removed.    *)
LEMMA RemoveWithoutResumeKeepsInv ==
    ASSUME Inv, RemoveWithoutResume
    PROVE  Inv'
<1> USE DEF Inv, RemoveWithoutResume, docker, run
<1>1. TypeOK'
  BY FaultType, Zenon DEF TypeOK
<1>2. DiskInv'
  BY JournalFacts DEF TypeOK, DiskInv, StopInv, StopSteps, Covers, Settled
<1>3. StopInv'
  BY SMTT(30) DEF StopInv, StopSteps
<1>4. ResumeInv'
  BY DEF ResumeInv, ResumeSteps
<1>5. HoldInv' /\ JournalBlocksWork'
  BY DEF HoldInv, JournalBlocksWork
<1>6. PartialRestoreHeld' /\ StoppedStayStopped'
  BY DEF HoldInv, PartialRestoreHeld, StoppedStayStopped
<1> QED
  BY <1>1, <1>2, <1>3, <1>4, <1>5, <1>6

(* An operator acknowledges a held restore.                                 *)
LEMMA AcknowledgeHoldKeepsInv ==
    ASSUME Inv, AcknowledgeHold
    PROVE  Inv'
<1> USE DEF Inv, AcknowledgeHold, docker, run
<1>1. TypeOK'
  BY Zenon DEF TypeOK
<1>2. DiskInv'
  BY DEF TypeOK, DiskInv, Covers, Settled, Unfinished
<1>3. StopInv'
  BY DEF StopInv, StopSteps
<1>4. ResumeInv'
  BY DEF ResumeInv, ResumeSteps
<1>5. HoldInv' /\ JournalBlocksWork'
  BY DEF HoldInv, JournalBlocksWork
<1>6. PartialRestoreHeld' /\ StoppedStayStopped'
  BY DEF PartialRestoreHeld, StoppedStayStopped
<1> QED
  BY <1>1, <1>2, <1>3, <1>4, <1>5, <1>6

(* An operator acknowledges that the stopped containers are gone.           *)
LEMMA AcknowledgeMissingKeepsInv ==
    ASSUME Inv, AcknowledgeMissing
    PROVE  Inv'
<1> USE DEF Inv, AcknowledgeMissing, docker, run, data
<1>1. TypeOK'
  BY Zenon DEF TypeOK
<1>2. DiskInv'
  BY DEF DiskInv, Covers, Settled, Unfinished
<1>3. StopInv'
  BY DEF StopInv, StopSteps
<1>4. ResumeInv'
  BY DEF ResumeInv, ResumeSteps
<1>5. HoldInv' /\ JournalBlocksWork'
  BY DEF HoldInv, JournalBlocksWork
<1>6. PartialRestoreHeld' /\ StoppedStayStopped'
  BY DEF PartialRestoreHeld, StoppedStayStopped
<1> QED
  BY <1>1, <1>2, <1>3, <1>4, <1>5, <1>6

(* The process dies.                                                        *)
LEMMA CrashKeepsInv ==
    ASSUME Inv, Crash
    PROVE  Inv'
<1> USE DEF Inv, Crash, data
<1>1. TypeOK'
  <2>1. crashes' \in 0..MaxCrashes
    BY CaptureAssumption DEF TypeOK
  <2> QED
    BY <2>1, NewFacts, Zenon DEF TypeOK, ResumeInv
<1>2. DiskInv'
  BY NewFacts, SMTT(30) DEF TypeOK, DiskInv, Covers, Settled, Unfinished
<1>3. StopInv'
  BY NewFacts, SMTT(30) DEF StopInv, StopSteps
<1>4. ResumeInv'
  BY NewFacts DEF ResumeInv, ResumeSteps
<1>5. HoldInv' /\ JournalBlocksWork'
  BY NewFacts, SMTT(30) DEF HoldInv, JournalBlocksWork
<1>6. PartialRestoreHeld' /\ StoppedStayStopped'
  BY JournalFacts, NewFacts DEF TypeOK, ResumeInv, ResumeSteps, HoldInv, PartialRestoreHeld, StoppedStayStopped
<1> QED
  BY <1>1, <1>2, <1>3, <1>4, <1>5, <1>6, SMTT(30)

(* Every step of the program, the daemon, the operator and the process      *)
(* keeps the invariant.                                                     *)
LEMMA InvNext == Inv /\ [Next]_vars => Inv'
<1> SUFFICES ASSUME Inv, [Next]_vars PROVE Inv'
  BY SMTT(30)
<1>1. CASE UNCHANGED vars
  BY <1>1 DEF vars, docker, run, data, Inv, TypeOK, DiskInv, StopInv, ResumeInv, HoldInv, JournalBlocksWork,
        PartialRestoreHeld, StoppedStayStopped, Covers, Settled, Unfinished
<1>2. CASE \E w \in Writers : DaemonStops(w) \/ RemoveContainer(w)
  BY <1>2, DaemonStopsKeepsInv, RemoveContainerKeepsInv
<1>3. CASE \E o \in Ops \cup {"retry"} : Begin(o)
  BY <1>3, BeginKeepsInv
<1>4. CASE ResumeStep
  BY <1>4, ResumeWriterKeepsInv, FenceReturnsKeepsInv, FenceFailsKeepsInv, StartWriterKeepsInv,
     StartFailsKeepsInv, RemoveJournalKeepsInv, RetainJournalKeepsInv DEF ResumeStep
<1>5. CASE OperationStep
  BY <1>5, PlanKeepsInv, PlanEndsKeepsInv, RequestStopKeepsInv, IssueStopKeepsInv, StopReturnsKeepsInv,
     StopFailsKeepsInv, CaptureBeginsKeepsInv, CaptureEndsKeepsInv, HoldStoppedKeepsInv, RestoreEndsKeepsInv,
     RestoreFailsKeepsInv, RemoveWithoutResumeKeepsInv DEF OperationStep
<1>6. CASE AcknowledgeHold \/ AcknowledgeMissing
  BY <1>6, AcknowledgeHoldKeepsInv, AcknowledgeMissingKeepsInv
<1>7. CASE Restart \/ Crash
  BY <1>7, RestartKeepsInv, CrashKeepsInv
<1> QED
  BY <1>1, <1>2, <1>3, <1>4, <1>5, <1>6, <1>7 DEF Next

(* So the invariant always holds.                                           *)
LEMMA InvAlways == Spec => []Inv
BY InvInit, InvNext, PTL DEF Spec

-----------------------------------------------------------------------------
(* Theorems. *)

(* Every variable of captures and restores keeps its type.                  *)
THEOREM CaptureTypeCorrect == Spec => []TypeOK
<1>1. Inv => TypeOK
  BY DEF Inv
<1> QED
  BY InvAlways, <1>1, PTL

(* Prepare and ApplyRestore read and write data only while none of their    *)
(* writers runs, whatever earlier recoveries left in the daemon.            *)
THEOREM DataAreQuiet == Spec => []WorkIsQuiet
<1>1. Inv => WorkIsQuiet
  BY SMTT(30) DEF Inv, StopInv, StopSteps, WorkIsQuiet
<1> QED
  BY InvAlways, <1>1, PTL

(* No crash, late stop, failed start or resolution loses a service that was *)
(* stopped with a recorded intent: the journal on disk still names it.      *)
THEOREM WritersAreRemembered == Spec => []NoForgottenWriter
<1>1. Inv => NoForgottenWriter
  BY DEF Inv, DiskInv, Covers, Settled, NoForgottenWriter
<1> QED
  BY InvAlways, <1>1, PTL

(* A journal that an operation, a failed write or a restart left on disk    *)
(* closes the admission of captures and restores.                           *)
THEOREM JournalsBlock == Spec => []JournalBlocksWork
<1>1. Inv => JournalBlocksWork
  BY DEF Inv
<1> QED
  BY InvAlways, <1>1, PTL

(* An incomplete restore keeps its services down, its journal held and its  *)
(* rollback records until an operator acknowledges it.                      *)
THEOREM IncompleteIsHeld == Spec => []PartialRestoreHeld
<1>1. Inv => PartialRestoreHeld
  BY DEF Inv
<1> QED
  BY InvAlways, <1>1, PTL

(* resume and Recover never start a container that was stopped before the   *)
(* operation or that a restore was told to leave stopped.                   *)
THEOREM StoppedAreLeftAlone == Spec => []StoppedStayStopped
<1>1. Inv => StoppedStayStopped
  BY DEF Inv
<1> QED
  BY InvAlways, <1>1, PTL
=============================================================================
