------------------------------ MODULE MacRuntime ------------------------------
(***************************************************************************)
(* The activation of a prepared Codex runtime on macOS                     *)
(* (codex_update/macos_activation.rs), the retention of prepared           *)
(* generations (codex_update/retention.rs), and the sessions that run one  *)
(* through the managed launcher (patched_codex.rs).  The four launchers    *)
(* are published one after the other under a journal.  A command holds     *)
(* codex-update.lock; it may die or fail between two durable steps.  Each  *)
(* rename is synced before the next durable step, so that a loss of power  *)
(* is a crash before it.  What RuntimeUpdate has under the same name is    *)
(* called Mac... here.                                                     *)
(***************************************************************************)
EXTENDS Naturals, Sequences, FiniteSets, UpdateCommand
F == INSTANCE FiniteSetsExt

CONSTANTS
  Sessions,  \* Codex sessions of the user
  MaxKept,   \* generations that retention keeps, PREPARED_TREE_MAX_COUNT
  MaxGens    \* bound: generations prepared

ASSUME MacBounds == MaxKept \in Nat \ {0, 1} /\ MaxGens \in Nat \ {0}

\* Of UpdateCommand: the installed files are the launchers, and the journal is
\* macos-runtime-activation.json.
VARIABLES
  generation,  \* the generation that state.prepared stands for
  made,        \* the version of each generation ever prepared, oldest first
  gens,        \* the generations on disk
  session      \* what each session is at, and its generation

stateVars == <<state, generation>>
tree == <<made, gens>>
launchers == <<dest, staged, backup>>
macVars == <<stateVars, tree, launchers, journal, session, proc, txns, faults>>

\* The managed launcher, the control plane, the user and the Homebrew bridge,
\* in the order of their publication; a rollback takes them from the last.
Launchers == 1..4
Managed == 1

Gens == 1..MaxGens
MacFile == [txn: 0..MaxTxn, gen: Gens]
MacJournal == [txn: 1..MaxTxn, gen: Gens, version: Versions, previous: Maybe(Versions),
               clean: BOOLEAN, old: [Launchers -> Maybe(MacFile)]]
\* An absent journal is none.
ASSUME MacNone == None \notin MacJournal
Steps == {"begin", "stage", "build", "save", "install", "ready", "journal", "backup", "installing",
          "publish", "verify", "commit", "clean", "note", "finalize", "unjournal", "recover",
          "rollback", "rolledBack", "reset", "retain", "lease", "delete", "check", "fetch"}
MacProc == [pc: Steps \cup {"idle"}, rest: Seq(Steps), mem: StateOf(Versions, MaxTxn),
            want: Maybe(Versions), before: Statuses, prepare: BOOLEAN,
            mode: {"activating", "replaying", "undoing"}, at: Launchers, kept: SUBSET Gens,
            leased: SUBSET Gens]
MacResting == [pc |-> "idle", rest |-> <<>>, mem |-> Initially, want |-> None, before |-> "Idle",
               prepare |-> FALSE, mode |-> "activating", at |-> 1, kept |-> {}, leased |-> {}]

\* Every field has its type.
MacTypeOK ==
  /\ state \in StateOf(Versions, MaxTxn) /\ generation \in Maybe(Gens)
  /\ made \in Seq(Versions) /\ Len(made) <= MaxGens /\ gens \subseteq DOMAIN made
  /\ \A files \in {dest, staged, backup} : files \in [Launchers -> Maybe(MacFile)]
  /\ journal \in Maybe(MacJournal)
  /\ session \in [Sessions -> [pc: {"none", "control", "opened", "up"}, gen: Maybe(Gens)]]
  /\ proc \in MacProc /\ txns \in 0..MaxTxn /\ faults \in 0..MaxFaults

\* A clean machine, or one whose generation 1 an older updater installed, with
\* a session of it that took no lease.
Nothing == [l \in Launchers |-> None]
MacInit ==
  /\ state = Initially /\ generation = None
  /\ \E v \in Maybe(Versions) :
       /\ made = IF v = None THEN <<>> ELSE <<v>>
       /\ gens = DOMAIN made
       /\ dest = [l \in Launchers |-> IF v = None THEN None ELSE [txn |-> 0, gen |-> 1]]
       /\ session \in [Sessions -> {[pc |-> "none", gen |-> None]}
                                   \cup {[pc |-> "up", gen |-> g] : g \in gens}]
  /\ staged = Nothing /\ backup = Nothing /\ journal = None
  /\ proc = MacResting /\ txns = 0 /\ faults = 0

-----------------------------------------------------------------------------
(* Reading and writing. *)

MacEnd == proc' = MacResting
MacSaveAndEnd(mem) == state' = mem /\ MacEnd

\* The next part of the command, or its end.
Proceed ==
  proc' = IF proc.rest = <<>> THEN MacResting
          ELSE [proc EXCEPT !.pc = Head(proc.rest), !.rest = Tail(proc.rest), !.mode = "activating",
                            !.leased = {}, !.kept = {}]

Usable == generation # None /\ generation \in gens
MacProbed == IF dest[Managed] # None /\ dest[Managed].gen \in gens
             THEN made[dest[Managed].gen] ELSE None
\* A probe may also fail.
MacObserved(v) ==
  \/ v = MacProbed /\ UNCHANGED faults
  \/ v = None /\ MacProbed # None /\ Fault

Pending(s) == s.status = "Installing" \/ s.txn # None

-----------------------------------------------------------------------------
(* Commands: activate or stage an artifact, install the prepared one, check. *)

MacStart ==
  /\ proc.pc = "idle"
  /\ \/ \E v \in Versions : proc' = [MacResting EXCEPT !.pc = "begin", !.want = v]
     \/ \E v \in Versions : proc' = [MacResting EXCEPT !.pc = "stage", !.want = v]
     \/ proc' = [MacResting EXCEPT !.pc = "install"]
     \/ proc' = [MacResting EXCEPT !.pc = "check"]
     \/ proc' = [MacResting EXCEPT !.pc = "retain", !.mem = Load, !.rest = <<"check">>,
                                   !.prepare = TRUE]
  /\ UNCHANGED <<stateVars, tree, launchers, journal, session, txns, faults>>

\* An activation first settles one that was interrupted.
Activate ==
  /\ proc.pc = "begin"
  /\ IF journal # None \/ Pending(Load)
     THEN proc' = [proc EXCEPT !.pc = "install", !.rest = <<"stage", "install">>]
     ELSE proc' = [proc EXCEPT !.pc = "stage", !.rest = <<"install">>]
  /\ UNCHANGED <<stateVars, tree, launchers, journal, session, txns, faults>>

\* Staging is refused over a journal, an unresolved failure that is more than
\* an observation, or an operation that looks alive.
MacStage ==
  LET s == Load
      clear == IF ObservationOnly(s) THEN [s EXCEPT !.failure = None] ELSE s
  IN  /\ proc.pc = "stage"
      /\ CASE journal # None -> MacEnd /\ UNCHANGED state
           [] journal = None /\ Pending(s) -> MacSaveAndEnd(Interrupted(s))
           [] journal = None /\ ~Pending(s) ->
                /\ UNCHANGED state
                /\ \/ /\ clear.failure # None \/ clear.status = "Checking"
                      /\ MacEnd
                   \/ /\ clear.failure = None
                      /\ proc' = [proc EXCEPT !.pc = "retain", !.mem = clear,
                                              !.rest = <<"build">> \o proc.rest]
      /\ UNCHANGED <<generation, tree, launchers, journal, session, txns, faults>>

Make(v) ==
  Len(made) < MaxGens /\ made' = Append(made, v) /\ gens' = gens \cup {Len(made')}

\* The prepared generation is that of the artifact, or another one is made.
MacBuild ==
  /\ proc.pc = "build"
  /\ \/ /\ proc.mem.prepared = proc.want /\ Usable
        /\ \E observed \in Maybe(Versions) :
             /\ MacObserved(observed)
             /\ state' = [proc.mem EXCEPT !.status = "ReadyToInstall", !.installed = observed]
        /\ Proceed /\ UNCHANGED tree
     \/ Make(proc.want) /\ Goto("save") /\ UNCHANGED <<state, faults>>
  /\ UNCHANGED <<generation, launchers, journal, session, txns>>

SaveStaged ==
  /\ proc.pc = "save"
  /\ \E observed \in Maybe(Versions) :
       /\ MacObserved(observed)
       /\ Save([proc.mem EXCEPT !.status = "ReadyToInstall", !.installed = observed,
                                !.prepared = proc.want, !.failedPrepare = None,
                                !.failedInstall = None], "retain")
  /\ generation' = Len(made)
  /\ UNCHANGED <<tree, launchers, journal, session, txns>>

-----------------------------------------------------------------------------
(* Retention, over the whole inventory before the first deletion. *)

Newest == {g \in gens : Cardinality({h \in gens : h > g}) < 2}
Live == {session[s].gen : s \in {t \in Sessions : session[t].pc = "up"}}
Protected(s) ==
  Newest \cup (IF s.prepared # None THEN {generation} ELSE {})
         \cup (IF dest[Managed] # None THEN {dest[Managed].gen} ELSE {})
Inventory ==
  /\ proc.pc = "retain"
  /\ proc' = [proc EXCEPT !.pc = "lease", !.kept = (Protected(proc.mem) \cup Live) \cap gens]
  /\ UNCHANGED <<stateVars, tree, launchers, journal, session, txns, faults>>

\* An exclusive lease on every other generation; a shared one protects it.
Leasable == {g \in gens \ proc.kept : g \notin Live}
Lease ==
  /\ proc.pc = "lease"
  /\ proc' = [proc EXCEPT !.pc = "delete", !.leased = Leasable]
  /\ UNCHANGED <<stateVars, tree, launchers, journal, session, txns, faults>>

\* The oldest first, while it has expired or there are too many.
Delete ==
  LET doomed == proc.leased \cap gens
  IN  /\ proc.pc = "delete"
      /\ \/ /\ doomed # {} /\ gens' = gens \ {F!Min(doomed)} /\ UNCHANGED proc
         \/ /\ Cardinality(gens) <= MaxKept /\ Proceed /\ UNCHANGED gens
         \/ /\ Cardinality(gens) > MaxKept /\ doomed = {} /\ MacEnd /\ UNCHANGED gens
      /\ UNCHANGED <<stateVars, made, launchers, journal, session, txns, faults>>

-----------------------------------------------------------------------------
(* The installation of the prepared generation. *)

MacInstall ==
  /\ proc.pc = "install"
  /\ proc' = [proc EXCEPT !.pc = IF journal = None THEN "ready" ELSE "recover", !.mem = Load,
                          !.mode = "replaying"]
  /\ UNCHANGED <<stateVars, tree, launchers, journal, session, txns, faults>>

Installable(s) == s.status \in {"ReadyToInstall", "Failed"} /\ s.prepared # None /\ Usable

\* An interrupted activation without its journal is refused for good.
Ready ==
  LET s == Load
  IN  /\ proc.pc = "ready"
      /\ CASE Pending(s) -> MacSaveAndEnd(Interrupted(s))
           [] ~Pending(s) /\ s.status = "Installed" -> Proceed /\ UNCHANGED state
           [] ~Pending(s) /\ s.status # "Installed" ->
                /\ UNCHANGED state
                /\ IF Installable(s)
                   THEN proc' = [proc EXCEPT !.pc = "journal", !.mem = s, !.mode = "activating"]
                   ELSE MacEnd
      /\ UNCHANGED <<generation, tree, launchers, journal, session, txns, faults>>

\* The launchers are staged and the journal binds what they replace.
MacWriteJournal ==
  /\ proc.pc = "journal" /\ txns < MaxTxn
  /\ txns' = txns + 1
  /\ staged' = [l \in Launchers |-> [txn |-> txns', gen |-> generation]]
  /\ journal' = [txn |-> txns', gen |-> generation, version |-> made[generation],
                 previous |-> proc.mem.installed, clean |-> FALSE, old |-> dest]
  /\ proc' = [proc EXCEPT !.pc = "backup", !.at = 1]
  /\ UNCHANGED <<stateVars, tree, dest, backup, session, faults>>

Last == F!Max(Launchers)
NextLauncherOffByOne(pc) ==
  proc' = IF proc.at <= Last THEN [proc EXCEPT !.at = @ + 1] ELSE [proc EXCEPT !.pc = pc, !.at = 1]
NextLauncher(pc) ==
  proc' = IF proc.at < Last THEN [proc EXCEPT !.at = @ + 1] ELSE [proc EXCEPT !.pc = pc, !.at = 1]

MacBackup ==
  /\ proc.pc = "backup" /\ backup' = [backup EXCEPT ![proc.at] = dest[proc.at]]
  /\ NextLauncher("installing")
  /\ UNCHANGED <<stateVars, tree, dest, staged, journal, session, txns, faults>>

Publish ==
  /\ proc.pc = "publish"
  /\ dest' = [dest EXCEPT ![proc.at] = staged[proc.at]]
  /\ staged' = [staged EXCEPT ![proc.at] = None]
  /\ NextLauncher("verify")
  /\ UNCHANGED <<stateVars, tree, backup, journal, session, txns, faults>>

New == [txn |-> journal.txn, gen |-> journal.gen]
Complete == journal.gen \in gens /\ \A l \in Launchers : dest[l] = New
MacVerify ==
  /\ proc.pc = "verify" /\ Complete /\ Goto("commit")
  /\ UNCHANGED <<stateVars, tree, launchers, journal, session, txns, faults>>

\* A commit of its version is what resolves a failed installation.
Marked(s) ==
  LET t == MarkTransaction(s, journal.version, journal.txn)
  IN  IF t.failure # None /\ t.failure.kind = "Installation" /\ t.failure.version = journal.version
      THEN [t EXCEPT !.failure = None, !.failedInstall = None, !.status = "Installed"] ELSE t
Finished(s) ==
  IF proc.mode = "activating" THEN [s EXCEPT !.txn = None]
  ELSE IF s.failure # None THEN Restore([s EXCEPT !.txn = None])
  ELSE [s EXCEPT !.txn = None, !.status = "Installed"]
RolledBack(s) ==
  [s EXCEPT !.txn = IF @ # None /\ @.id = journal.txn THEN None ELSE @, !.status = "ReadyToInstall",
            !.installed = journal.previous]

\* The steps that save the state, and the steps that follow.
MacSaves == {"installing", "commit", "finalize", "rolledBack"}
MacChanged(s) ==
  CASE proc.pc = "installing" ->
         [s EXCEPT !.status = "Installing",
                   !.txn = [id |-> journal.txn, version |-> journal.version, committed |-> FALSE]]
    [] proc.pc = "commit" -> Marked(s)
    [] proc.pc = "finalize" -> Finished(s)
    [] proc.pc = "rolledBack" -> RolledBack(s)
    [] OTHER -> s
MacAfterSave == [installing |-> "publish", commit |-> "clean", finalize |-> "unjournal",
                 rolledBack |-> "unjournal"]
MacSaveStep ==
  /\ proc.pc \in MacSaves /\ Save(MacChanged(proc.mem), MacAfterSave[proc.pc])
  /\ UNCHANGED <<generation, tree, launchers, journal, session, txns, faults>>

MacClean ==
  /\ proc.pc = "clean" /\ staged' = Nothing /\ backup' = Nothing /\ Goto("note")
  /\ UNCHANGED <<stateVars, tree, dest, journal, session, txns, faults>>

Note ==
  /\ proc.pc = "note" /\ journal' = [journal EXCEPT !.clean = TRUE] /\ Goto("finalize")
  /\ UNCHANGED <<stateVars, tree, launchers, session, txns, faults>>

MacUnjournal ==
  /\ proc.pc = "unjournal" /\ journal' = None
  /\ CASE proc.mode = "activating" -> Goto("retain")
       [] proc.mode # "activating" /\ proc.mem.status # "ReadyToInstall" -> Proceed
       [] proc.mode = "replaying" /\ proc.mem.status = "ReadyToInstall" -> Goto("ready")
       [] proc.mode = "undoing" /\ proc.mem.status = "ReadyToInstall" -> Goto("reset")
  /\ UNCHANGED <<stateVars, tree, launchers, session, txns, faults>>

Reset ==
  /\ proc.pc = "reset" /\ MacSaveAndEnd([Load EXCEPT !.status = "ReadyToInstall"])
  /\ UNCHANGED <<generation, tree, launchers, journal, session, txns, faults>>

\* A step fails, before or after a save or a removal took effect, and what the
\* journal knows of is undone or finished at once.
MacStepFails ==
  LET next == IF journal' = None THEN "reset" ELSE "recover"
  IN  /\ proc.mode = "activating" /\ Fault
      /\ proc.pc \in {"journal", "backup", "installing", "publish", "verify", "commit", "clean",
                      "note", "finalize", "unjournal"}
      /\ state' \in {state, MacChanged(proc.mem)}
      /\ journal' \in {journal, IF proc.pc = "unjournal" THEN None ELSE journal}
      /\ proc' = [proc EXCEPT !.pc = next, !.mode = "undoing", !.mem = MacChanged(proc.mem)]
      /\ UNCHANGED <<generation, tree, launchers, session, txns>>

-----------------------------------------------------------------------------
(* Recovery, at the next installation or when one fails. *)

MacCommitted(s) ==
  /\ s.installed = journal.version
  /\ \/ /\ s.txn # None /\ s.txn.committed
        /\ s.txn.id = journal.txn /\ s.txn.version = journal.version
     \/ s.txn = None /\ journal.clean

RecoverSkipsLast ==
  /\ proc.pc = "recover" /\ journal.gen \in gens
  /\ IF MacCommitted(proc.mem)
     THEN Complete /\ Goto("clean")
     ELSE proc' = [proc EXCEPT !.pc = "rollback", !.at = Last - 1]
  /\ UNCHANGED <<stateVars, tree, launchers, journal, session, txns, faults>>
MacRecover ==
  /\ proc.pc = "recover" /\ journal.gen \in gens
  /\ IF MacCommitted(proc.mem)
     THEN Complete /\ Goto("clean")
     ELSE proc' = [proc EXCEPT !.pc = "rollback", !.at = Last]
  /\ UNCHANGED <<stateVars, tree, launchers, journal, session, txns, faults>>

Undoable(l) == \/ dest[l] = journal.old[l]
               \/ dest[l] = New /\ (journal.old[l] = None \/ backup[l] = journal.old[l])
Rollback ==
  LET l == proc.at
  IN  /\ proc.pc = "rollback" /\ Undoable(l)
      /\ dest' = [dest EXCEPT ![l] = journal.old[l]]
      /\ staged' = [staged EXCEPT ![l] = None] /\ backup' = [backup EXCEPT ![l] = None]
      /\ proc' = IF l > 1 THEN [proc EXCEPT !.at = @ - 1] ELSE [proc EXCEPT !.pc = "rolledBack"]
      /\ UNCHANGED <<stateVars, tree, journal, session, txns, faults>>

\* What stops a recovery without any fault.
Stuck ==
  \/ proc.pc = "recover" /\ (journal.gen \notin gens \/ (MacCommitted(proc.mem) /\ ~Complete))
  \/ proc.pc = "rollback" /\ ~Undoable(proc.at)
MacRecoveryFails ==
  LET s == [MacChanged(proc.mem) EXCEPT !.status = "Failed", !.failedInstall = journal.version]
  IN  /\ proc.mode # "activating" /\ journal # None
      /\ \/ Stuck /\ UNCHANGED faults
         \/ /\ proc.pc \in {"recover", "rollback", "rolledBack", "clean", "note", "finalize", "unjournal"}
            /\ Fault
      /\ IF proc.mode = "replaying" THEN MacEnd /\ UNCHANGED state
         ELSE MacSaveAndEnd(RecordFailure(s, "Installation", journal.version,
                                       IF s.txn = None THEN None ELSE s.txn.id))
      /\ UNCHANGED <<generation, tree, launchers, journal, session, txns>>

-----------------------------------------------------------------------------
(* The check of the registry; macOS prepares nothing itself. *)

MacBeginCheck ==
  /\ proc.pc = "check"
  /\ state' = [Load EXCEPT !.status = "Checking"]
  /\ proc' = [proc EXCEPT !.pc = "fetch", !.mem = state', !.before = Load.status]
  /\ UNCHANGED <<generation, tree, launchers, journal, session, txns, faults>>

MacFetchFails ==
  /\ proc.pc = "fetch" /\ Fault /\ MacSaveAndEnd(Unanswered(proc.mem))
  /\ UNCHANGED <<generation, tree, launchers, journal, session, txns>>

MacFetchAnswers ==
  /\ proc.pc = "fetch"
  /\ \E v \in Versions, waiting, capacity \in BOOLEAN, observed \in Maybe(Versions) :
       LET valid == IF proc.prepare THEN Usable ELSE proc.before = "ReadyToInstall"
           s == Answered(proc.mem, v, proc.before, observed, valid, waiting)
           prepares == proc.prepare /\ capacity /\ s.status = "Idle"
                       /\ ~(s.failedPrepare = v /\ waiting)
       IN  /\ IF proc.prepare THEN MacObserved(observed)
              ELSE observed = proc.mem.installed /\ UNCHANGED faults
           /\ MacSaveAndEnd(IF prepares THEN s ELSE Concluded(s))
  /\ UNCHANGED <<generation, tree, launchers, journal, session, txns>>

-----------------------------------------------------------------------------
(* Sessions, which take a shared lease across the exec, and crashes. *)

Set(s, pc, g) == session' = [session EXCEPT ![s] = [pc |-> pc, gen |-> g]]
\* The launcher runs the control plane of its generation, which opens the
\* runtime, waits for its lease, and looks whether it is still there.
RevalidatesNever(g) == TRUE
Revalidates(g) == g \in gens
RunManaged(s) ==
  /\ \/ /\ session[s].pc = "none" /\ dest[Managed] # None /\ dest[Managed].gen \in gens
        /\ Set(s, "control", dest[Managed].gen)
     \/ /\ session[s].pc = "control"
        /\ IF session[s].gen \in gens THEN Set(s, "opened", session[s].gen) ELSE Set(s, "none", None)
     \/ /\ session[s].pc = "opened" /\ session[s].gen \notin proc.leased
        /\ IF Revalidates(session[s].gen) THEN Set(s, "up", session[s].gen) ELSE Set(s, "none", None)
     \/ session[s].pc = "up" /\ Set(s, "none", None)
  /\ UNCHANGED <<stateVars, tree, launchers, journal, proc, txns, faults>>

MacCrash ==
  /\ proc.pc # "idle" /\ Fault /\ MacEnd
  /\ UNCHANGED <<stateVars, tree, launchers, journal, session, txns>>

MacNext ==
  \/ MacStart \/ Activate \/ MacStage \/ MacBuild \/ SaveStaged
  \/ Inventory \/ Lease \/ Delete
  \/ MacInstall \/ Ready \/ MacWriteJournal \/ MacBackup \/ Publish \/ MacVerify
  \/ MacSaveStep \/ MacClean \/ Note \/ MacUnjournal \/ Reset \/ MacStepFails
  \/ MacRecover \/ Rollback \/ MacRecoveryFails
  \/ MacBeginCheck \/ MacFetchFails \/ MacFetchAnswers
  \/ (\E s \in Sessions : RunManaged(s)) \/ MacCrash

MacSpec == MacInit /\ [][MacNext]_macVars

-----------------------------------------------------------------------------
(* Properties. *)

\* Without a journal the four launchers are those of one activation, whatever
\* was interrupted before (macos-runtime-artifact.md, failure contract).
LaunchersWhole == journal = None => \A l \in Launchers : dest[l] = dest[Managed]

\* No generation is deleted while a session runs it, also when the session
\* started while retention was under way (acquire_prepared_retention_leases).
SessionKept == \A s \in Sessions : session[s].pc = "up" => session[s].gen \in gens

\* The launchers of one activation, or none.
LauncherSets == {[l \in Launchers |-> file] : file \in Maybe(MacFile)}

\* An activation starts from the launchers of one activation, or from none, and
\* ends with those or with the new ones, whatever interrupts it.  A commit is
\* not final here: a check in between may take it back.
LauncherInstall == INSTANCE AtomicInstall WITH
  Releases <- LauncherSets,
  installed <- IF journal = None THEN dest ELSE journal.old,
  incoming <- IF journal = None THEN {} ELSE {[l \in Launchers |-> New]},
  committed <- FALSE
LaunchersInstalled == LauncherInstall!InstallSpec
=============================================================================
