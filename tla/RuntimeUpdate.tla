---------------------------- MODULE RuntimeUpdate ----------------------------
(***************************************************************************)
(* The updater of the patched Codex runtime on Linux (codex_update.rs and  *)
(* the files it includes): the metadata check, the preparation of a        *)
(* generation, and the journaled replacement of the installed pair, the    *)
(* code-mode helper and then the runtime.  A command holds                 *)
(* codex-update.lock and works on a copy of the state file; it may die,    *)
(* fail or lose power between two durable steps, and what it left is the   *)
(* next command's to recover.  Runtimes start and stop meanwhile.  Time is *)
(* not kept: a deadline may have passed or not.                            *)
(***************************************************************************)
EXTENDS Naturals, FiniteSets, UpdateCommand

\* Of UpdateCommand: the installed pair is dest, and the pair that was copied
\* beside it staged.
VARIABLES
  artifact,  \* the prepared generation that the state file names
  unsynced,  \* what was renamed since the directory was last synced
  running,   \* the owners whose runtime is up
  booting    \* does the daemon hold its start reservation?

pair == <<dest, staged, backup, unsynced>>
runtimes == <<running, booting>>
vars == <<state, artifact, journal, pair, runtimes, proc, txns, faults>>

Files == {"helper", "runtime"}
Owners == {"unit", "daemon"}
FileAt(i) == IF i = 1 THEN "helper" ELSE "runtime"

\* Phases of a journal: prepared, one per renamed file, directory synced,
\* read back, state saved, cleaned.
Renamed == Cardinality(Files)
Synced == Renamed + 1
Verified == Renamed + 2
Saved == Renamed + 3
Cleaned == Renamed + 4

Version == Versions \cup {1}
File == [txn: 0..MaxTxn, version: Version]
OldRelease == [txn |-> 0, version |-> 1]
Journal == [txn: 1..MaxTxn, version: Version, phase: 0..Cleaned, old: [Files -> Maybe(File)]]
ASSUME NoneAssumption == None \notin Journal \cup TxnOf(Version, MaxTxn)
Pcs == {"idle", "maintain", "check", "fetch", "requested", "clearing", "choose", "build", "staging",
        "built", "install", "observe", "stage", "acquire", "reobserve", "journal", "backup",
        "interruptible", "installing", "rename", "note", "sync", "noteSynced", "verify",
        "noteVerified", "mark", "noteSaved", "clean", "noteCleaned", "finalize", "unjournal",
        "recover", "restore", "sweep", "settle"}
Proc == [pc: Pcs, mem: StateOf(Version, MaxTxn), want: Maybe(Version), before: Statuses,
         prepare: BOOLEAN, recovering: BOOLEAN, guards: BOOLEAN, at: 1..Renamed]
Resting == [pc |-> "idle", mem |-> Initially, want |-> None, before |-> "Idle",
            prepare |-> FALSE, recovering |-> FALSE, guards |-> FALSE, at |-> 1]

\* Every field has its type.
TypeOK ==
  /\ state \in StateOf(Version, MaxTxn) /\ artifact \in {"none", "partial", "valid"}
  /\ journal \in Maybe(Journal)
  /\ dest \in [Files -> Maybe(File)] /\ staged \in [Files -> Maybe(File)]
  /\ backup \in [Files -> Maybe(File)]
  /\ unsynced \in [Files -> {"none", "published", "restored"}]
  /\ running \in SUBSET Owners /\ booting \in BOOLEAN
  /\ proc \in Proc /\ txns \in 0..MaxTxn /\ faults \in 0..MaxFaults

\* The pair of one release, or of an older one that had no helper.
Init ==
  /\ state = Initially /\ artifact = "none" /\ journal = None
  /\ dest \in {[helper |-> OldRelease, runtime |-> OldRelease],
               [helper |-> None, runtime |-> OldRelease]}
  /\ staged = [f \in Files |-> None] /\ backup = [f \in Files |-> None]
  /\ unsynced = [f \in Files |-> "none"]
  /\ running = {} /\ booting = FALSE
  /\ proc = Resting /\ txns = 0 /\ faults = 0

-----------------------------------------------------------------------------
(* Reading and writing. *)

End == proc' = Resting
SaveAndEnd(mem) == state' = mem /\ End

\* The version the installed runtime reports if there is a helper at all.
Probed == IF dest["runtime"] # None /\ dest["helper"] # None THEN dest["runtime"].version ELSE None

\* A probe may also fail.
Observed(v) ==
  \/ v = Probed /\ UNCHANGED faults
  \/ v = None /\ Probed # None /\ Fault

-----------------------------------------------------------------------------
(* Commands: check, check with preparation, prepare a version, install. *)

Start ==
  /\ proc.pc = "idle"
  /\ \/ \E prepare \in BOOLEAN :
          proc' = [Resting EXCEPT !.pc = IF prepare THEN "maintain" ELSE "check", !.prepare = prepare]
     \/ \E v \in Versions : proc' = [Resting EXCEPT !.pc = "maintain", !.want = v]
     \/ proc' = [Resting EXCEPT !.pc = "install"]
  /\ UNCHANGED <<state, artifact, journal, pair, runtimes, txns, faults>>

\* A preparation that went stale is finished or cleaned before anything else.
Maintain ==
  LET next == IF proc.want = None THEN "check" ELSE "requested"
      old == Load
      cleared == [ClearPrepared(old) EXCEPT !.status = "Failed", !.failedPrepare = old.prepared]
  IN  /\ proc.pc = "maintain"
      /\ \/ With(old, next) /\ UNCHANGED <<state, artifact>>
         \/ /\ old.status = "Preparing" /\ artifact = "valid"
            /\ Save([old EXCEPT !.status = "ReadyToInstall", !.failedPrepare = None], next)
            /\ UNCHANGED artifact
         \/ /\ old.status = "Preparing" /\ artifact # "valid"
            /\ Save(RecordFailure(cleared, "Preparation", old.prepared, None), next)
            /\ artifact' = "none"
      /\ UNCHANGED <<journal, pair, runtimes, txns, faults>>

BeginCheck ==
  /\ proc.pc = "check"
  /\ state' = [Load EXCEPT !.status = "Checking"]
  /\ proc' = [proc EXCEPT !.pc = "fetch", !.mem = state', !.before = Load.status]
  /\ UNCHANGED <<artifact, journal, pair, runtimes, txns, faults>>

FetchFails ==
  /\ proc.pc = "fetch" /\ Fault
  /\ SaveAndEnd(Unanswered(proc.mem))
  /\ UNCHANGED <<artifact, journal, pair, runtimes, txns>>

FetchAnswers ==
  /\ proc.pc = "fetch"
  /\ \E v \in Versions, waiting, capacity \in BOOLEAN, observed \in Maybe(Version) :
       LET valid == IF proc.prepare THEN artifact = "valid" ELSE proc.before = "ReadyToInstall"
           s == Answered(proc.mem, v, proc.before, observed, valid, waiting)
           prepares == proc.prepare /\ capacity /\ s.status = "Idle"
                       /\ ~(s.failedPrepare = v /\ waiting)
       IN  /\ IF proc.prepare THEN Observed(observed)
              ELSE observed = proc.mem.installed /\ UNCHANGED faults
           /\ IF prepares
              THEN state' = s /\ proc' = [Resting EXCEPT !.pc = "maintain", !.want = v]
              ELSE SaveAndEnd(Concluded(s))
  /\ UNCHANGED <<artifact, journal, pair, runtimes, txns>>

-----------------------------------------------------------------------------
(* Preparation of proc.want. *)

Requested ==
  /\ proc.pc = "requested"
  /\ \E observed \in Maybe(Version) :
       LET v == proc.want
           s == [proc.mem EXCEPT !.installed = observed]
       IN  /\ Observed(observed)
           /\ CASE observed = v ->
                     SaveAndEnd(IF MustPreserve(s, v, s.status) THEN Restore(s) ELSE MarkInstalled(s, v))
                [] observed # v /\ s.prepared = None -> With(s, "choose") /\ UNCHANGED state
                [] observed # v /\ s.prepared = v /\ artifact = "valid" ->
                     SaveAndEnd(IF s.failure # None \/ (s.failedInstall = v /\ s.status = "Failed")
                                THEN [Restore(s) EXCEPT !.status = "Failed"]
                                ELSE [s EXCEPT !.status = "ReadyToInstall"])
                [] OTHER -> With(s, "clearing") /\ UNCHANGED state
  /\ UNCHANGED <<artifact, journal, pair, runtimes, txns>>

\* The generation of another version, or an invalid one, is removed first.
ClearGeneration ==
  /\ proc.pc = "clearing"
  /\ IF artifact # "none" THEN artifact' = "none" /\ Goto("clearing") /\ UNCHANGED state
     ELSE Save(ClearPrepared(proc.mem), "choose") /\ UNCHANGED artifact
  /\ UNCHANGED <<journal, pair, runtimes, txns, faults>>

\* A retry deadline, an operation that looks alive or a full disk ends it here.
Choose ==
  /\ proc.pc = "choose"
  /\ \/ SaveAndEnd(proc.mem)
     \/ Save([proc.mem EXCEPT !.status = "Preparing", !.prepared = proc.want], "build")
  /\ UNCHANGED <<artifact, journal, pair, runtimes, txns, faults>>

Build ==
  /\ \/ proc.pc = "build" /\ artifact' = "partial" /\ Goto("staging")
     \/ proc.pc = "staging" /\ artifact' = "valid" /\ Goto("built")
  /\ UNCHANGED <<state, journal, pair, runtimes, txns, faults>>

BuildFails ==
  /\ proc.pc \in {"build", "staging"} /\ Fault
  /\ artifact' \in {"none", artifact}
  /\ LET s == [proc.mem EXCEPT !.status = "Failed", !.failedPrepare = proc.want,
                               !.prepared = IF artifact' = "none" THEN None ELSE @]
     IN  SaveAndEnd(Restore(RecordFailure(s, "Preparation", proc.want, None)))
  /\ UNCHANGED <<journal, pair, runtimes, txns>>

FinishBuild ==
  /\ proc.pc = "built"
  /\ \E observed \in Maybe(Version) :
       /\ Observed(observed)
       /\ SaveAndEnd(Restore(ClearPrepare(
            [proc.mem EXCEPT !.status = "ReadyToInstall", !.installed = observed], proc.want)))
  /\ UNCHANGED <<artifact, journal, pair, runtimes, txns>>
-----------------------------------------------------------------------------
(* Installation. *)

NewFile == [txn |-> journal.txn, version |-> journal.version]
TxnCommitted == journal # None /\ state.txn # None /\ state.txn.committed
                /\ state.txn.id = journal.txn /\ state.txn.version = journal.version
Finalized(s) ==
  IF s.failure # None THEN Restore([s EXCEPT !.txn = None])
  ELSE [s EXCEPT !.txn = None, !.status = "Installed"]

\* A prepared generation that is no longer valid is removed and remembered.
Invalid(s, removed) ==
  RecordFailure([s EXCEPT !.status = "Failed", !.failedPrepare = s.prepared,
                          !.prepared = IF removed THEN None ELSE @],
                "Preparation", s.prepared, None)

\* A transaction without its journal is finished if it committed and refused
\* otherwise, which never happens as the journal is written first and removed last.
Install ==
  LET s == Load
      ready == s.prepared # None /\ s.status \in {"ReadyToInstall", "Installing", "Failed"}
      durable == s.txn # None /\ s.txn.committed /\ s.installed = s.txn.version /\ Probed = s.txn.version
      go(mem, recovering) ==
        proc' = [proc EXCEPT !.pc = "observe", !.mem = mem, !.want = s.prepared, !.recovering = recovering]
  IN  /\ proc.pc = "install"
      /\ \/ /\ \/ ~ready
               \/ journal = None /\ s.txn # None /\ ~durable /\ artifact = "valid"
            /\ End /\ UNCHANGED <<state, artifact>>
         \/ /\ ready /\ artifact # "valid"
            /\ artifact' \in {"none", artifact}
            /\ SaveAndEnd(Invalid(s, artifact' = "none"))
         \/ /\ ready /\ artifact = "valid" /\ journal # None
            /\ go(s, TRUE) /\ UNCHANGED <<state, artifact>>
         \/ /\ ready /\ artifact = "valid" /\ journal = None /\ s.txn = None
            /\ go(s, FALSE) /\ UNCHANGED <<state, artifact>>
         \/ /\ ready /\ artifact = "valid" /\ journal = None /\ durable
            /\ state' = Restore([s EXCEPT !.txn = None])
            /\ go(state', FALSE) /\ UNCHANGED artifact
      /\ UNCHANGED <<journal, pair, runtimes, txns, faults>>

\* The activity cannot be proven: the generation stays ready, or the journal
\* stays to be recovered.
Blocked(s) ==
  IF proc.recovering THEN Interrupted(s)
  ELSE IF s.failure # None THEN Restore(s) ELSE [s EXCEPT !.status = "ReadyToInstall"]
Postpone ==
  /\ SaveAndEnd(Blocked(proc.mem))
  /\ staged' = IF proc.recovering THEN staged ELSE [f \in Files |-> None]
  /\ UNCHANGED <<artifact, journal, dest, backup, unsynced, runtimes, txns, faults>>

Observe ==
  /\ proc.pc = "observe"
  /\ \/ Postpone
     \/ /\ running = {} /\ ~booting
        /\ Goto(IF proc.recovering THEN "acquire" ELSE "stage")
        /\ UNCHANGED <<state, artifact, journal, pair, runtimes, txns, faults>>

Stage ==
  /\ proc.pc = "stage" /\ txns < MaxTxn
  /\ txns' = txns + 1 /\ Goto("acquire")
  /\ staged' = [f \in Files |-> [txn |-> txns', version |-> proc.want]]
  /\ UNCHANGED <<state, artifact, journal, dest, backup, unsynced, runtimes, faults>>

\* The lock of the unit, which it holds while it is up, and the reservation of
\* the daemon, which it holds while it starts.
Acquire ==
  /\ proc.pc = "acquire"
  /\ IF "unit" \in running \/ booting THEN Postpone
     ELSE /\ proc' = [proc EXCEPT !.pc = "reobserve", !.guards = TRUE]
          /\ UNCHANGED <<state, artifact, journal, pair, runtimes, txns, faults>>

ReobserveSkipped ==
  /\ proc.pc = "reobserve" /\ Goto(IF proc.recovering THEN "recover" ELSE "journal")
  /\ UNCHANGED <<state, artifact, journal, pair, runtimes, txns, faults>>
Reobserve ==
  /\ proc.pc = "reobserve"
  /\ \/ Postpone
     \/ /\ running = {}
        /\ Goto(IF proc.recovering THEN "recover" ELSE "journal")
        /\ UNCHANGED <<state, artifact, journal, pair, runtimes, txns, faults>>

WriteJournal ==
  /\ proc.pc = "journal"
  /\ journal' = [txn |-> txns, version |-> proc.want, phase |-> 0, old |-> dest]
  /\ Goto("backup")
  /\ UNCHANGED <<state, artifact, pair, runtimes, txns, faults>>

BackupRuntimeOnly ==
  /\ proc.pc = "backup" /\ backup' = [dest EXCEPT !["helper"] = None] /\ Goto("interruptible")
  /\ UNCHANGED <<state, artifact, journal, dest, staged, unsynced, runtimes, txns, faults>>
Backup ==
  /\ proc.pc = "backup" /\ backup' = dest /\ Goto("interruptible")
  /\ UNCHANGED <<state, artifact, journal, dest, staged, unsynced, runtimes, txns, faults>>

\* The steps that save the state, what each makes of the copy in memory, and
\* the step that follows.
Saves == {"interruptible", "installing", "mark", "finalize", "settle"}
Changed(s) ==
  CASE proc.pc = "interruptible" ->
         [s EXCEPT !.txn = [id |-> txns, version |-> proc.want, committed |-> FALSE]]
    [] proc.pc = "installing" -> [s EXCEPT !.status = "Installing"]
    [] proc.pc = "mark" -> MarkTransaction(s, proc.want, txns)
    [] proc.pc = "finalize" -> Finalized(s)
    [] proc.pc = "settle" ->
         LET t == [s EXCEPT !.txn = None, !.failedInstall = journal.version]
         IN  RecordFailure([t EXCEPT !.status = "Failed"], "Installation", journal.version, journal.txn)
    [] OTHER -> s
AfterSave == [interruptible |-> "installing", installing |-> "rename", mark |-> "noteSaved",
              finalize |-> "unjournal", settle |-> "unjournal"]

SaveStep ==
  /\ proc.pc \in Saves /\ Save(Changed(proc.mem), AfterSave[proc.pc])
  /\ UNCHANGED <<artifact, journal, pair, runtimes, txns, faults>>

MoreFilesOffByOne == proc.at <= Renamed
MoreFiles == proc.at < Renamed

\* The steps that record progress in the journal.
Notes == {"note", "noteSynced", "noteVerified", "noteSaved", "noteCleaned"}
NoteStep ==
  /\ proc.pc \in Notes
  /\ journal' = [journal EXCEPT !.phase =
       CASE proc.pc = "note" -> proc.at [] proc.pc = "noteSynced" -> Synced
         [] proc.pc = "noteVerified" -> Verified [] proc.pc = "noteSaved" -> Saved
         [] proc.pc = "noteCleaned" -> Cleaned]
  /\ CASE proc.pc = "note" /\ MoreFiles ->
            proc' = [proc EXCEPT !.pc = "rename", !.at = @ + 1]
       [] proc.pc = "note" /\ ~MoreFiles -> Goto("sync")
       [] proc.pc = "noteSynced" -> Goto("verify")
       [] proc.pc = "noteVerified" -> Goto("mark")
       [] proc.pc = "noteSaved" -> Goto("clean")
       [] proc.pc = "noteCleaned" -> Goto("finalize")
  /\ UNCHANGED <<state, artifact, pair, runtimes, txns, faults>>

Rename ==
  LET f == FileAt(proc.at)
  IN  /\ proc.pc = "rename" /\ Goto("note")
      /\ dest' = [dest EXCEPT ![f] = staged[f]] /\ staged' = [staged EXCEPT ![f] = None]
      /\ unsynced' = [unsynced EXCEPT ![f] = "published"]
      /\ UNCHANGED <<state, artifact, journal, backup, runtimes, txns, faults>>

SyncSkipped ==
  /\ proc.pc = "sync" /\ Goto("noteSynced")
  /\ UNCHANGED <<state, artifact, journal, pair, runtimes, txns, faults>>
Sync ==
  /\ proc.pc = "sync" /\ Goto("noteSynced") /\ unsynced' = [f \in Files |-> "none"]
  /\ UNCHANGED <<state, artifact, journal, dest, staged, backup, runtimes, txns, faults>>

Verify ==
  /\ proc.pc = "verify" /\ \A f \in Files : dest[f] = NewFile
  /\ Goto("noteVerified")
  /\ UNCHANGED <<state, artifact, journal, pair, runtimes, txns, faults>>

\* The staged files and the backups go, and the directory is synced.
Clean ==
  /\ proc.pc \in {"clean", "sweep"}
  /\ staged' = [f \in Files |-> None] /\ backup' = [f \in Files |-> None]
  /\ unsynced' = [f \in Files |-> "none"]
  /\ Goto(IF proc.pc = "clean" THEN "noteCleaned" ELSE "settle")
  /\ UNCHANGED <<state, artifact, journal, dest, runtimes, txns, faults>>

Unjournal ==
  /\ proc.pc = "unjournal" /\ journal' = None /\ End
  /\ UNCHANGED <<state, artifact, pair, runtimes, txns, faults>>

\* A step of an installation fails: the failure is saved, and what is on disk
\* stays if the journal knows of it.
StepFails ==
  LET s == [Changed(proc.mem) EXCEPT !.failedInstall = proc.want]
  IN  /\ ~proc.recovering /\ Fault
      /\ proc.pc \in {"stage", "journal", "backup", "rename", "sync", "verify", "clean", "unjournal"}
                     \cup Saves \cup Notes
      /\ SaveAndEnd(IF s.failure # None THEN Restore(s)
                    ELSE RecordFailure([s EXCEPT !.status = "Failed"], "Installation", proc.want,
                                       IF s.txn = None THEN None ELSE s.txn.id))
      /\ staged' = IF journal = None THEN [f \in Files |-> None] ELSE staged
      /\ UNCHANGED <<artifact, journal, dest, backup, unsynced, runtimes, txns>>

-----------------------------------------------------------------------------
(* Recovery of a journaled installation, under the same guards. *)

\* Trusts the phase of the journal over the files.
RecoverByPhase ==
  /\ proc.pc = "recover"
  /\ CASE TxnCommitted -> Goto("clean")
       [] ~TxnCommitted /\ journal.phase >= Saved -> End
       [] ~TxnCommitted /\ journal.phase = 0 -> Goto("sweep")
       [] OTHER -> proc' = [proc EXCEPT !.pc = "restore", !.at = 1]
  /\ UNCHANGED <<state, artifact, journal, pair, runtimes, txns, faults>>
Recover ==
  LET committed == TxnCommitted
      finalized == journal.phase = Cleaned /\ state.txn = None
      claims == journal.phase >= Saved \/ committed
  IN  /\ proc.pc = "recover"
      /\ IF claims
         THEN IF (committed \/ finalized) /\ state.installed = journal.version
                 /\ \A f \in Files : dest[f] = NewFile
              THEN Goto("clean") ELSE End
         ELSE proc' = [proc EXCEPT !.pc = "restore", !.at = 1]
      /\ UNCHANGED <<state, artifact, journal, pair, runtimes, txns, faults>>

\* The old file returns from its backup; a file that was not there goes.
RestoreFile ==
  LET f == FileAt(proc.at)
      old == journal.old[f]
      next == IF MoreFiles THEN [proc EXCEPT !.at = @ + 1] ELSE [proc EXCEPT !.pc = "sweep"]
  IN  /\ proc.pc = "restore"
      /\ IF dest[f] = old THEN proc' = next /\ UNCHANGED <<dest, backup, unsynced>>
         ELSE IF (old # None /\ backup[f] # old) \/ (old = None /\ dest[f] # NewFile)
         THEN End /\ UNCHANGED <<dest, backup, unsynced>>
         ELSE /\ dest' = [dest EXCEPT ![f] = old] /\ backup' = [backup EXCEPT ![f] = None]
              /\ unsynced' = [unsynced EXCEPT ![f] = "restored"] /\ proc' = next
      /\ UNCHANGED <<state, artifact, journal, staged, runtimes, txns, faults>>

\* A step of a recovery fails: the journal is left as it is.
RecoveryFails ==
  /\ proc.recovering /\ Fault /\ End
  /\ proc.pc \in {"recover", "restore", "sweep", "settle", "clean", "noteCleaned", "finalize", "unjournal"}
  /\ UNCHANGED <<state, artifact, journal, pair, runtimes, txns>>

-----------------------------------------------------------------------------
(* Runtimes, the daemon loop that starts updaters, and faults. *)

RuntimeChanges ==
  /\ \/ ~proc.guards /\ running' = running \cup {"unit"} /\ UNCHANGED booting
     \/ ~proc.guards /\ "daemon" \notin running /\ booting' = TRUE /\ UNCHANGED running
     \/ booting /\ booting' = FALSE /\ running' \in {running, running \cup {"daemon"}}
     \/ \E o \in running : running' = running \ {o} /\ UNCHANGED booting
  /\ UNCHANGED <<state, artifact, journal, pair, proc, txns, faults>>

\* Whether the daemon loop may decide to start an updater, once deadlines pass.
Due(s) == s.status # "ReadyToInstall" \/ (s.prepared # None /\ s.failedInstall = s.prepared)

\* The daemon loop cannot start an updater and says so without the lock.
SpawnFails ==
  /\ Fault /\ Due(Load) /\ Load.status \notin {"Preparing", "Installing"}
  /\ state' = RecordFailure([Load EXCEPT !.status = "Failed"], "Metadata", None, None)
  /\ UNCHANGED <<artifact, journal, pair, runtimes, proc, txns>>

Crash ==
  /\ proc.pc # "idle" /\ Fault /\ End
  /\ UNCHANGED <<state, artifact, journal, pair, runtimes, txns>>

\* Renames of a directory that was not synced may be undone.
PowerLoss ==
  /\ Fault /\ End /\ running' = {} /\ booting' = FALSE
  /\ \E lost \in SUBSET {f \in Files : unsynced[f] # "none"} :
       /\ dest' = [f \in Files |-> IF f \notin lost THEN dest[f]
                                   ELSE IF unsynced[f] = "published" THEN journal.old[f] ELSE NewFile]
       /\ staged' = [f \in Files |-> IF f \in lost /\ unsynced[f] = "published" THEN NewFile
                                     ELSE staged[f]]
       /\ backup' = [f \in Files |-> IF f \in lost /\ unsynced[f] = "restored" THEN journal.old[f]
                                     ELSE backup[f]]
  /\ unsynced' = [f \in Files |-> "none"]
  /\ UNCHANGED <<state, artifact, journal, txns>>

Next ==
  \/ Start \/ Maintain \/ BeginCheck \/ FetchFails \/ FetchAnswers
  \/ Requested \/ ClearGeneration \/ Choose \/ Build \/ BuildFails \/ FinishBuild
  \/ Install \/ Observe \/ Stage \/ Acquire \/ Reobserve \/ WriteJournal \/ Backup
  \/ SaveStep \/ NoteStep \/ Rename \/ Sync \/ Verify \/ Clean \/ Unjournal \/ StepFails
  \/ Recover \/ RestoreFile \/ RecoveryFails
  \/ RuntimeChanges \/ SpawnFails \/ Crash \/ PowerLoss

Spec == Init /\ [][Next]_vars

-----------------------------------------------------------------------------
(* Properties. *)

Committed == TxnCommitted \/ (journal # None /\ journal.phase = Cleaned)

\* Without a journal the installed pair is that of one release, whatever was
\* interrupted before (transaction.rs, journaled commit and recovery).
PairWhole ==
  journal = None =>
    \/ dest["helper"] = None /\ dest["runtime"] = OldRelease
    \/ dest["helper"] = dest["runtime"]

\* Until the state file commits a journaled installation, every old file is in
\* place or can be put back, a loss of power included (create_runtime_backup).
OldPairKept ==
  journal # None /\ ~Committed /\ journal.phase < Saved =>
    \A f \in Files : \/ dest[f] = journal.old[f]
                     \/ journal.old[f] # None /\ backup[f] = journal.old[f]
                     \/ journal.old[f] = None /\ dest[f] = NewFile

\* A committed installation is on the disk, and stays there if the power goes
\* (sync of the runtime directory before the state is marked).
CommittedOnDisk ==
  Committed => \A f \in Files : dest[f] = NewFile /\ unsynced[f] = "none"

\* What an installation may fall back on is never lost: the old files until the
\* commit, the new pair on the disk from then on.
ReleaseKept == OldPairKept /\ CommittedOnDisk

\* The installed pair never changes under a runtime that is up or starting
\* (install_staged_if_still_inactive and its guards).
RunningUnchanged == [][dest' # dest => running' = {} /\ ~booting']_vars

\* The pairs of one release; the first one had no helper.
Pairs == {[f \in Files |-> x] : x \in File} \cup {[helper |-> None, runtime |-> OldRelease]}

\* Whatever interrupts it, an installation starts from the pair of one release
\* and ends with that pair or the new one, and with the new one once the state
\* file has committed it (commit_journaled_with and its recovery).
PairInstall == INSTANCE AtomicInstall WITH
  Releases <- Pairs,
  installed <- IF journal = None THEN dest ELSE journal.old,
  incoming <- IF journal = None THEN {} ELSE {[f \in Files |-> NewFile]},
  committed <- Committed
PairInstalled == PairInstall!InstallSpec
=============================================================================
