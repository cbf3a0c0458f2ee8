# CodexSwitch: a TLA+ specification

CodexSwitch keeps a pool of provider accounts and switches the Codex runtimes of
a Mac and of a Linux host (the VPS) among them. What is hard about it is small in
code and large in interleavings: two credential files that cannot be written in
one step, a journal that must say what is true of them after any crash, other
programs that write the same files, runtimes that must acknowledge a change
before it counts, and a pool authority whose decisions several commands carry
out, on one host and over SSH. Around that core stand the redemption of banked
resets, the replication of credentials between the hosts, and the updaters of
what is being switched. These modules model all of it; TLC checks each on a small
instance, and TLAPS proves every safety property they state, the refinements
among them, for every instance.

## Inventory

| Component | State | Operations | Talks to |
|---|---|---|---|
| Activation (`activation.rs`, `auth.rs`) | `accounts.json`, `auth.json`, `accounts.activation.json` | activate, adopt a remote target, import, reconcile, recover, roll back, resolve a review, save telemetry | store lock, runtimes (SIGHUP and acknowledgement), Swift's witness file |
| Runtime reload (`reload.rs`) | none durable; acknowledgements of one reload | discover, signal, collect, revalidate | the Codex runtimes |
| Account store, secure files (`account_store.rs`, `secure_file.rs`) | file bytes, lock files | lock, load, commit by compare-and-swap, restore if owned | every writer of the files |
| Pool authority (`pool_authority.rs`) | `pool-authority.json`: epoch, target, phase, request, rotation history | bootstrap, begin a target, mark a phase, begin and complete an operation | the commands below |
| Pool commands (`main.rs`) | none; locals between durable commits | swap request, rotate-now, redeem, import | authority, activation, resets, the remote authority |
| Daemon (`daemon.rs`) | none durable | one cycle: barrier, align, reset, rotate or touch | the same |
| Remote authority client (`remote_authority.rs`) | transport journal on the Mac | begin or resume a rotation, hand off, acknowledge | the VPS over SSH |
| Banked resets (`rate_limit_resets.rs`) | attempt journal | attempt, reconcile, prune | the provider |
| Import receipts and generations (`credential_import_receipts.rs`, `credential_generations.rs`) | receipt journal | prepare, complete, replay, merge by generation | import |
| Credential client (`LinuxDevboxMonitor.swift`, `AppDelegate.swift`) | operation journal, hold, proof of convergence | read, plan, adopt, export, recover, supersede | the importer over SSH |
| Swift activation (`AccountActivation*.swift`, `AppDelegate.swift`) | `account-activation.json`, leases, the pending swap | prepare, commit, converge, confirm, observe, adopt, review | the same files, the same lease, the runtimes |
| Swift persistence (`AccountPersistenceCoordinator.swift`) | `accounts.json`, telemetry queue | save durably, queue, flush | the store lock |
| Desktop update (`DesktopUpdate*.swift`) | update journal, bundles | download, verify, stage, install, roll back | the desktop app |
| Runtime update (`codex_update/`) | update state, links | prepare, activate, retain | the runtimes |
| Quota policy (`quota.rs`, `readiness.rs`, `SwapEngine.swift`) | none | evaluate windows, choose a candidate | daemon, commands |

`PROJECT.json` lists every component with its status, and under `hazards` what
is hard to test in each, at its line.

What makes each correct, in one line:

* **Activation.** Whatever crashes or interferes, the journal never claims more
  than is so: `Confirmed` means the files agree and every live runtime holds the
  active token; files that disagree are behind a record that blocks the next
  activation; nothing foreign is overwritten by an undo.
* **Pool authority.** One target at a time, published before any host serves it;
  a late or repeated request never moves the pool again; an answer once given
  for an operation is given again.
* **Commands and daemon.** Killed anywhere, they leave a pool that the next one
  brings to the recorded target.
* **Remote client.** A rotation whose answer was lost is run once, and its
  outcome adopted once.
* **Resets.** A banked credit is spent at most once for one attempt, whatever
  answer is lost.
* **Credential replication.** A receipt stands for a committed store, an import
  whose answer was lost is not overtaken by another, no store goes back to a
  spent token, and the two hosts end up with the same chains.
* **Swift activation.** A half-written swap is always covered by its record; a
  confirmation is true when it is written; a superseded operation stops.
* **Runtime and desktop updates.** What is installed is always of one release,
  can be put back until it commits, and never changes under what runs it; an
  interrupted update is finished or undone; retention never deletes what is used.
* **Persistence.** An older snapshot never replaces a newer one; a save never
  undoes an activation.

## Modules

| Module | What it is |
|---|---|
| `Activation` | The Rust transaction on one host, with its recovery, rollback, reload and telemetry commit |
| `PoolAuthority` | The authority record and the three commands that drive it; the host as its activation journal presents it |
| `PoolTarget` | What the authority promises, as an abstract specification; `PoolAuthority` refines it |
| `PoolAuthorityProofs` | The inductive invariant of `PoolAuthority`, what follows from it, and the proof that `PoolAuthority` implements `PoolTarget` |
| `RemoteRotation` | A rotation asked for on the Mac and run on the VPS: the turn, the control command, the transport journal, the wire and the VPS history |
| `ResetJournal` | The reset-attempt journal, the flows that redeem a banked credit through it, and the provider |
| `CredentialSync` | The replication of credentials between the Mac and the VPS: rounds, imports, receipts, journal and hold |
| `SwiftActivation` | The Mac app's own activation: transaction, convergence, observations, adoption, launch recovery |
| `SwiftActivationProofs` | The inductive invariant of `SwiftActivation` and the five properties that follow from it |
| `ActivationProofs`, `RemoteRotationProofs`, `ResetJournalProofs`, `CredentialSyncProofs`, `RuntimeUpdateProofs`, `DesktopUpdateProofs` | The same for these modules: an inductive invariant and every safety property their run checks; `RuntimeUpdateProofs` has those of `MacRuntime` too |
| `UpdateState` | The state file both updaters work on, and what each outcome does to it |
| `UpdateCommand` | What a command of either runtime updater has: the lock, the copy of the state file, the journal, the files it replaces, the bounds |
| `AtomicInstall` | What an updater promises of an installation, as an abstract specification; `RuntimeUpdate`, `MacRuntime` and `DesktopUpdate` refine it |
| `RuntimeUpdate` | The Linux updater: check, preparation, journaled install of the runtime pair and its recovery |
| `MacRuntime` | The macOS updater: publication of the four launchers, its recovery, retention, sessions |
| `DesktopUpdate` | The updater of the ChatGPT desktop app |
| `MC...` | One model-checking instance for each of them |

`RemoteRotation` sees the VPS as what `PoolAuthority` shows of it (an operation
is absent, started or completed; the record has a target, an epoch and a phase),
`PoolAuthority` sees the host as the answers that `Activation` may give, and
`CredentialSync` and `SwiftActivation` see each other's transactions as one step.
These seams are assumptions in both directions. The refinements of the two
abstract specifications, `PoolTarget` by `PoolAuthority` and `AtomicInstall` by the
three updaters, are checked and proved.

### Activation

A generation in the code is the SHA-256 of a file's bytes. The model uses the
content itself: `store` is the active account, each account's token and one bit
of telemetry; `auth` is one account's token and a `stamp` that tells apart two
byte-generations with the same tokens, and is zero exactly when the transaction
wrote the file. `journal` is the activation record; the rollback image in it is
the two contents captured before any mutation.

`tx` is the process that holds the runtime-activation lease. Its program counter
stops at every point where the code has made one durable effect, so a crash
(`Interrupt`) is possible between any two of them. The chain
`recover -> durable -> prepare -> commitStore -> commitAuth -> owned -> verify ->
bind -> discover -> reload -> final` follows `activate_with_dependencies_mode`
and `finalize_pending_activation`; `adopt` is the entry of
`prepare_validated_remote_authority_adoption`; `rollback...` follows
`rollback_after_commit_failure` and its import twin; `preflight -> publish ->
commitTelemetry -> settleTelemetry` follows the provider-I/O guard and
`commit_accounts_from_confirmed_record_with`. An import ends file-only and its
convergence is the reconciliation that follows (`main.rs`,
`replace_import_accounts_with_unlocked_reload`); the model lets other operations
come between the two, which the code does not.

A commit may fail before or after its effect. For `auth.json` that is always so;
for the store the constant `LateErrors` names the kinds of activation for which
it is, because for an import it breaks a property (see Observations).

Who else writes: a runtime refreshes its token into `auth.json`, a login
replaces it, the Swift app saves observations or an inactive token under the
store lock, adopts a token it finds in `auth.json`, or runs a whole activation
of its own under the lease. Runtimes start and exit at any time. `disturbed`
remembers that an outsider wrote since the two files were last proved equal; a
split that an outsider made is not the transaction's.

### PoolAuthority and PoolTarget

`record` is `pool-authority.json`. The host is reduced to what the activation
journal promises about it: the active account, the account a recovery would
restore, and whether the journal is clear, confirmed, pending, prepared (before
or after the store was written) or blocked. `BarrierAnswers` and
`ActivationAnswers` are the pairs of new host and result that the activation
code may return; every answer the code can give is allowed, in every order.

`proc` is the command that holds the lease, with the locals it carries from one
durable commit to the next: the request it read, the result of an activation,
and the disposition of an operation, which goes stale. Swap requests
(`asked`) are formed by clients from the epoch they see and delivered at any
later time, any number of times. Time is only ever compared: whether a request
was recorded after an operation began. Each history entry carries that
comparison (`later`), so no clock is needed.

What a command does after reading quota is free: reset, rotate to any account,
touch the active one, or nothing. The policy that chooses is not in the model,
so the properties hold for any policy.

`PoolTarget` says the same without commands: `Adopt`, `Decide` (only from a
stable target), `Restate`, `Unsettle`, `Serve` (only the decided target or the
one before it, and only while converging), `Confirm` (only when the host serves
the target), and `Drift` by somebody else. `ServesDecisions` is the refinement,
under the mapping written at its `INSTANCE`.

### RemoteRotation

`turn` is the interrupted turn of a patched runtime (`source_turn_template.rs`):
it forms a receipt from itself and the kind of its failure, runs rotate-now up
to `MaxTries` times, verifies the account it was handed, loads it
(`TurnReloads`) and acknowledges. `proc` is that rotate-now on the Mac, or a
manual one, or a swap, under the Mac's runtime lease. `Control` is one of its
steps: `begin_or_resume_rotation_at` on `journal`, the SSH call, the status
query and its reconciliation over `Rounds` attempts, the adoption of the
committed target on the Mac, `mark_rotation_handed_off_at`.

A call is put on `wire`; `Server` takes it off at any later time, or never, and
an identical call already there is the same element: the VPS runs a repeated one
as a resumption. The caller may give up waiting before, while or after it runs.
`served` is a history variable, the operations prepared with their receipts.
`Foreign` is another client that moves the pool; `Crash` is the death of the VPS
command. `Abort` is the death of the control command on the Mac.

### ResetJournal

`proc` is a flow on the VPS that holds the lease: the daemon's, or a redeem
request's with an identifier its client chose and may use again. It observes,
prepares an attempt, authorises it against fresh evidence, marks it submitted
and sends the POST; `posts` are the consume requests in flight, which a crash or
a time-out leaves there. The provider honours each at most once for a request
identifier, at any later time; whether a spent credit disappears from the
inventory at once or later (`lagging`) is open. Credits are numbered by expiry
and lapse in that order (`now`). An account's quota is a number that grows with
each change of its evidence, usable when odd, so that "fresh evidence" is a
comparison. Journal, store and report change in the code's order; pruning and
its two limits are part of every journal update, and `rejected` remembers for
which account a request was last reported to its client as rejected: the report
looks at the attempts of that account only (`main.rs:2117`). A request that is
answered while its flow waits answers that flow; a late one answers nobody.

### CredentialSync

A generation of a refresh chain is a number; the newest is the only live one,
since every refresh spends its predecessor. `MacRenew` and `DaemonRefresh` are
refreshes and logins that store what they get; `RuntimeRefresh` is a runtime on
the VPS that writes `auth.json` alone. `round` is the Mac's convergence round:
read the VPS's generations and plan, re-check each account against the Mac's own
state at the moment it is adopted, export what the VPS lacks. `sync` is the task
that stages a bundle, records the operation in `journal`, runs the importer over
SSH and handles its answer or the loss of it; `recovery` reads the receipt of an
operation whose answer was lost, and supersedes one that is older than 24 hours
(`aged`) when everything it asks for is so. `imports` are the importers on the
VPS, each with the bundle it reads: the durable intent, the barrier, the merge by
generation, the commit, the receipt. A crash of the app keeps only what is on
disk and in its defaults (`journal`, `hold`, `synced`, `proof`).

### SwiftActivation

`op` is the operation that holds the lease, from `withPreparedActiveCredentialMutation`
and `commitConfiguredCredentials` through `beginSwapRuntimeConvergence` to
`markConfirmed`; each step is one await of `AppDelegate.swift`, so an
observation of `auth.json` can come between any two. `op.owned` stands for the
swap generation and the lease, which an observation invalidates by the same two
lines; a step that then asks `activationEffectPermit` stops. Three ways begin
one: a request (`automatic` or `operator`), a `recovery` of a file review, and
an adoption of a handoff. `RetryAutomatic` and `RetryManual` take a degraded
record through the reloads again.

`Observe` and its companions are the watcher: it reads `auth.json`, compares it
with what the app shows, and recovers, adopts, reviews or discards it. Logins and
logouts, whole activations by `codexswitch-cli` (`RustActivate`), runtimes that
start and stop, the expiry of evidence, a crash and the launch with its recovery
happen at any time. `shown` is the copy of the record in memory, which may lag
behind the one on disk.

A credential is its account, so an external login to the account already
selected is no event here; see Not modelled.

### AtomicInstall

An installation starts from a whole release, which stays `installed` until the
installation ends; `incoming` is the release that is to replace it. `Conclude`
ends it with one of the two, and with the new one after `Commit`. What each
updater maps to these is written at its `INSTANCE`: `installed` is what lies there
without a journal, and what the journal would restore with one; `incoming` is what
the journal is to install. That what the updater leaves on the disk is then a
whole release, and the right one, is what the refinement says of every crash,
failed step and recovery. On the Mac `committed` is `FALSE`, since a check in
between may take a commit back (Observations); in `DesktopUpdate` it needs the new
app in place and no rollback under way, since a commit that reports an error is
rolled back.

### UpdateState, UpdateCommand and RuntimeUpdate

`state` is `codex-cli-update.json`; `proc` is the command that holds
`codex-update.lock` with its copy of it, and only `SaveStep`, `NoteStep` and the
first save of a recovery write it back. `WriteJournal -> Backup -> Rename (helper,
then runtime) -> Sync -> Verify -> SaveStep (marked committed) -> Clean ->
Unjournal` is `transaction.rs`; `Recover` and `RestoreFile` are its replay. The
directory's unsynced renames are kept in `unsynced`: `PowerLoss` undoes any
subset of them, `Crash` none. `RuntimeChanges` starts and
stops the unit and the daemon's runtime; the start reservation (`booting`) is
what keeps an installation and a start apart.

### MacRuntime

`dest`, `staged` and `backup` are the managed launcher, the control plane, the
user's launcher and the Homebrew bridge. `WriteJournal -> Backup -> Publish (four
times) -> Verify -> SaveStep -> Clean -> Unjournal` is `macos_activation.rs`;
every rename is synced before the next durable step, so a loss of power is a
crash. `MacRecover` and `Rollback` decide from the journal and the state, as the
replay does; the count of published launchers and the intermediate phases, which
the code writes and never reads, are left out. Retention (`Inventory`, `Lease`,
`Delete`) and `RunManaged` share the generation leases. Steps of the same name in
`RuntimeUpdate` and `MacRuntime` are different code; here they carry the prefix
`Mac`, so that one module of proofs can speak of both.

### DesktopUpdate

A bundle is its version, whether all of it is there, and whether it is the new
copy of the open transaction, which is what its recorded identities tell. The
exchange of the installed app and the copy beside it is one step, as
`renamex_np` is; each journal phase, each file manifest and each removal of a
directory is another, and a removal may stop half way. `op` is the operation
that holds the permit; `CheckStep`, `InstallStep` and `RecoverStep` are its
steps. The journal phases `swapped` and `validating` are treated alike by the
code's recovery and are one here, and so are `committed` and `cleanupPending`.
`MaxDirs` bounds the generations that exist at once, in the guards of the two
steps that create one; which free identifier a new one gets makes no difference.

## Runs

| Run | Checks | Instance |
|---|---|---|
| `Activation` | `TypeOK`, `RuntimeCurrent`, `NoUnguardedSplit`, `PreparedOutcome`, `ForeignTokenSurvives`, `NoActivationOverUnresolved`, `Resolves` | 2 accounts, 1 runtime, 1 operation and any number of reconciliations and resolutions, 2 faults, 1 outside write, with fairness; 164,000 states |
| `PoolAuthority` | `TypeOK`, `HostFollows`, `RequestMovesOnce`, `ServesDecisions`, `HistoryKept` | 3 accounts, 1 swap request, 2 operations, one with a reset, a history of 1 entry, epochs to 3, 1 fault; 1.6 M states up to symmetry |
| `PoolLive` | `PoolSettles` | 2 accounts, 1 request, 2 faults, with fairness; 44,000 states |
| `RemoteRotation` | `TypeOK`, `NothingAbandoned`, `HandOffs` | 2 accounts, 2 turns of 2 tries, 2 operations, 2 rounds of adoption, epochs to 3, 1 failure of a turn, 1 outside event; 670,000 states up to symmetry |
| `ResetJournal` | `TypeOK`, `OneLivePost`, `ReportsTrue` | 1 account, 2 credits, 1 client request, 1 drawn one, limits of 1, 1 outside event; 2.1 M states |
| `ResetPanics` | `UpdateFindsItsAttempt` | the same; a violation, see Findings |
| `CredentialSync` | `TypeOK`, `ReceiptCommitted`, `OnlyHeldRuns`, `StoresForward`, `Converges` | 2 accounts, 3 imports, 2 refreshes, 1 by a runtime, 1 loss, 1 crash, with fairness; 690,000 states |
| `SwiftActivation` | `TypeOK`, `SplitGuarded`, `ConfirmedTrue`, `OperationSettles`, `SupersededStops` | 2 accounts, 2 runtimes, 2 outside writes, any number of crashes and observations; 740,000 states |
| `RuntimeUpdate` | `TypeOK`, `ReleaseKept`, `PairInstalled`, `RunningUnchanged` | 2 versions, 2 transactions, 2 faults; 2.2 M states |
| `MacRuntime` | `MacTypeOK`, `LaunchersInstalled`, `SessionKept` | 2 versions, 3 generations, 2 kept, 1 activation, 1 session, 2 faults; 1.8 M states |
| `DesktopUpdate` | `TypeOK`, `UpdateKept`, `AppInstalled`, `JournalCloses` | 2 releases, one of them bad, 2 faults, 1 start of the app, with fairness; 350,000 states |
| `DesktopStuck` | `CleanupRetried` | 1 release, 1 fault, with fairness; a violation, see Findings |

What the properties say, beyond their names:

* `RuntimeCurrent`: a current confirmed record means that every live runtime
  holds the active token. `NoUnguardedSplit`: files that disagree by the
  transaction's own doing are behind a record that blocks the next activation.
  `PreparedOutcome`: a prepared activation ends in one of the two contents it
  recorded. `ForeignTokenSurvives`: an undo never removes a token it did not
  write. `Resolves`: nothing stays prepared or pending for ever.
* `HostFollows`, `ServesDecisions`: the host serves only the decided target or
  the one before it. `RequestMovesOnce`: a swap request, however late or often it
  is delivered, moves the pool once. `HistoryKept`: the history stays valid and
  an outcome, once recorded, stays.
* `NothingAbandoned`: an operation the journal no longer holds is not left
  running on the VPS behind a newer one. `HandOffs`: what is handed to a caller
  is durably completed, and it is settled only by the turn that accepted it.
* `OneLivePost`: at most one request that could still spend a credit of an
  account is in flight, and while it is the journal suppresses every other.
  `ReportsTrue`: an attempt reconciled as usable names a credit that was really
  spent, not one that lapsed; a request reported as rejected spends nothing.
* `ReceiptCommitted`, `OnlyHeldRuns`, `StoresForward`, `Converges`: see the
  inventory. `Converges` is claimed of behaviours without a crash of the app and
  without a refresh by a VPS runtime; Observations say why.
* `SplitGuarded`: files that differ by the app's own writes are covered by a
  preparing record or a review. `ConfirmedTrue`: a confirmation is true of the
  files and of every runtime at the step that writes it. `OperationSettles`: an
  operation that still owns its lease frees the app on every path.
  `SupersededStops`: one that lost it writes nothing more but a review.
* `PairInstalled`: the Linux updater implements `AtomicInstall`; an installation
  ends with the pair it started from or with the new one, and with the new one once
  the state file has committed it. `ReleaseKept`: until then each old file can be
  put back, and from then on the new pair is on the disk, a loss of power included.
  `RunningUnchanged`: the pair never changes under a runtime. `LaunchersInstalled`
  and `SessionKept` say the like of the Mac.
* `AppInstalled`: the desktop updater implements `AtomicInstall`. `UpdateKept`: no app
  is lost or half installed (`AppKept`) and a manifest names what is there
  (`ManifestsKept`). `JournalCloses`: an interrupted installation is closed.

### Why the bounds suffice

Two accounts give the interesting shapes of a switch: to another account, and to
the same one again. Three are needed where a target, the one before it and a
third that neither names must be told apart, which is what `HostFollows` does.
One runtime is enough for the acknowledgement hazards of `Activation`, since each
concerns one runtime that has started, exited, reloaded early or late; the Swift
side reloads two kinds, so it has one of each. Two faults put a crash into the
recovery of a crash; where the fault bound is 1, the recovery itself is retried
by the next operation. A history limit of 1, and a limit of 1 finished and 1 open
attempt, put pruning at its edge with the second operation; the code's 16, 64 and
128 do the same later. Two turns and a manual rotation are one more than the
transport journal can hold. Two versions are an update over an installed one, and
a third generation is the first one that retention may delete. The bounds on
epochs, faults, outside writes and operations sit in guards (`MaxEpoch`,
`MaxFaults`, `MaxOutside`, `MaxOps`, `MaxTxn`, `MaxEvents` and their like) and
only cut behaviours short.

Deadlock is checked for `PoolAuthority`, `PoolLive`, `ResetJournal` and
`SwiftActivation`. It is off where the system rests once its bounded operations,
turns, imports or faults are used up.

In `Activation` the constant `SwiftDegrades` is `FALSE`: Swift's own activations
converge. With `TRUE` and two outside writes a switch by Swift from a to b and
back, whose reload failed both times, makes an old Rust record current again over
runtimes that never reloaded (`activation.rs:2065`): nothing on the Swift side
rewrites the Rust record.

### Fairness

`Activation!LiveSpec`: a transaction that runs keeps running (`WF` of `Step`),
since the process is scheduled and the reload has a timeout, and the daemon
reconciles with reload enabled again and again (`SF` of that `Begin`):
`daemon.rs` runs `pending_activation_tick` in every cycle, and the lease is only
held for bounded times. A step of recovery or reconciliation that fails is a
fault and bounded. The property does not say that a pending activation is
confirmed; a runtime that never acknowledges keeps it degraded, and the bounded
faults exclude that runtime.

`PoolAuthority!LiveSpec`: a command that holds the lease runs on; the daemon
gets the lease again and again; an operator resolves a manual review; and the
runtimes acknowledge the daemon's reload again and again, both in its barrier
and in its activation. The last two are assumptions about the world and the code
does not claim convergence without them.

`CredentialSync`: the app's tasks run on, its timer starts a round every five
minutes, an operation ages, and an importer that has the lease finishes (`WF`
each). `DesktopUpdate`: an operation runs on and the user quits the desktop app
some time (`WF`); a recovery begins again and again (`SF`), since every timer
tick, every quit of the desktop app and every start of CodexSwitch begins with
one. The other modules state safety and action properties only and need none.

## Findings

Two runs are expected to be violated; each shows where the code and what is
written about it part, and `PROJECT.json` quotes the lines.

1. **Reset journal** (`ResetPanics`). An update that makes an attempt terminal
   while the journal holds its limit of terminal attempts prunes the journal and
   then reads the attempt back by its old index, which is out of range.
2. **Desktop cleanup** (`DesktopStuck`). A committed installation whose replaced
   app was partly removed when the app died keeps its journal: the recovery
   requires the whole bundle that it had begun to remove, so the cleanup is not
   retried, although the runbook says it is.

### Observations

What the models reach besides. Each was a counterexample of TLC to a statement
that is not listed as a property, or a state that the code's own comments do not
expect.

*Pool and activation.*

* An import's store commit that reports an error after its rename is recorded as
  `RolledBack` "before mutation" over a replaced store (`activation.rs:1532`); the
  documentation (`runtime-and-host-ownership.md:1721`) says that a write failure
  restores what is still owned. `Import` is therefore not in `LateErrors`.
* The transition record of a saved observation is published with the current
  generation as its base, while the record's own generation may be older by
  telemetry drift. After a crash there reconciliation insists that the two are
  equal and refuses for ever (`activation.rs:3052`).
* A same-target swap request overwrites the request identifier by which an
  interrupted rotation would recognise its own move (`pool_authority.rs:246`);
  the retry moves the pool again.
* A retry reads its disposition before the alignment that completes the operation
  as superseded, and goes on to choose another account.
* The banked reset of rotate-now leaves the record stable while the host's
  activation is pending (`main.rs:3496`). A `ResetConfirmed` attempt is terminal
  in the journal before the store commit that uses it (`rate_limit_resets.rs:2048`).
* Each kind of failure of a turn has a receipt of its own, so one interrupted turn
  whose failure changes kind may run a second rotation (`remote_authority.rs:304`).

*Credentials.*

* Once a runtime on the VPS has refreshed `auth.json`, the store holds a dead
  chain and the barrier in front of an import refuses (`activation.rs:2113`), also
  the import that would repair it, which `runtime-and-host-ownership.md:362`
  expects to work.
* A crash while an import is pending, and one between the removal of the journal
  and the clearing of the hold in the defaults, hold the operation for ever
  (`AppDelegate.swift:3303`); the same document (line 273) says that a held
  operation must not block replication for ever.
* A staging directory that could not be removed holds it for an operator.
* The import's commit of `auth.json` compares with what it reads at commit time
  (`auth.rs:64`) and so overwrites a refresh made after its barrier.

*Swift activation.*

* An operation that an observation superseded, one of the app's own write of
  `auth.json` included, ends without clearing `pendingSwapTargetAccountId`. Every
  later mutation, retry or adoption is then refused with "Mac activation is
  already converging; retry after it completes" (`AppDelegate.swift:7420`) until
  the app is started anew. TLC reaches it in seven steps as a violation of
  `PendingHasOwner`, which the module states and no run lists.
* Superseded in the middle of its commit, it leaves the record preparing until
  the next launch; and a failed preparation that lost its lease reports that no
  changes were made over such a record.
* With a confirmed or degraded record an external login to another known account
  is deferred at every observation (`AppDelegate.swift:2417`, `860`), while
  `runtime-and-host-ownership.md:1089` says that it enters the same commit and
  convergence path. Only the review of a later policy check resolves it.
* `recoverFileCommitFailure` does not check the record's target, and
  `writeAuthFile` without a witness does not compare: a login that lands after
  the check of the source is overwritten.

*Updates.*

* After a crash between the renames of an installation and the commit of its
  state, a metadata check finds the prepared version gone and sets the status to
  idle; the preparation of that version then finds it on disk, no failure to
  preserve, and marks it installed (`codex_update.rs:1455`), which
  `linux-repository-deployment.md:491` forbids. The failure of a runtime's
  start is recorded by a load and a save without the lock (`codex_update.rs:1152`).
  An `Installation` failure on Linux can never be cleared, since each transaction
  has a new identifier (`codex_update.rs:1423`). A failed probe clears the
  installed version while a committed journal is open, and recovery gives up.
* On macOS a committed activation is rolled back when, after a crash, a check runs
  whose version probe fails (`macos_activation.rs:1248`), against
  `macos-runtime-artifact.md:379`. Retention after a crash in a publication may
  delete the generation that the rollback needs, and a late error of the removal
  of the journal reports "rolled back safely" over a committed install.
* Of the desktop updater: an abandoned copy that is partly removed is stuck like
  the finding; a commit that reports an error, a failed write of its rollback and
  a crash leave a committed journal over the old app (three faults); a crash
  inside a promotion leaves a pending manifest for a directory that the
  installation then deletes, and the same release, if wanted again, is recorded
  as definitively rejected; a manifest that names nothing makes retention keep
  everything.

## Proofs

`PoolAuthorityProofs` proves, for any sets of accounts, requests and operations,
any history limit and any bounds, from the assumptions named in `PoolAuthority`
(identifiers and accounts are disjoint from `None`, which is no record; the
bounds are naturals):

* `Invariance`: `Spec => []IInv`;
* `TypeCorrect`: `Spec => []TypeOK`;
* `HostFollowsDecision`: `Spec => []HostFollows`;
* `RequestsMoveOnce`: `Spec => RequestMovesOnce`;
* `HistoriesValid`, `AnswersRemembered`: `Spec => []HistoryValid` and
  `Spec => HistoryKept`;
* `ImplementsTarget`: `Spec => ServesDecisions`, the refinement of `PoolTarget`.

`TypeOK` and `HostFollows` are not inductive: a command acts on locals it read
several commits earlier. `IInv` adds what those locals still tell about the
record:

* `HostSettled`: a host that is not in the middle of a switch would be restored
  to the account it has, and no switch is under way before the record exists;
* `CommandKnows`: what each program counter implies of the command that runs
  there, of its identifier, and that the record exists;
* `RequestRecorded`: the recorded request, when a client sent it, asked for the
  recorded target, so that replaying it restates nothing new;
* `ActivationKnows`: a command in or before its activation stands on a settled
  journal, and activates either the recorded target of a pool that is not stable
  (`ForTarget`) or the account the host already has (`ForActive`); a success
  finds the host confirmed on that target;
* `EpochsSeen`: no client has seen an epoch later than the record's, and one
  whose request has moved the pool saw an earlier one. With an epoch that only
  grows, `begin_target_request` then refuses it, and that is `RequestMovesOnce`.

The proof that a step preserves `IInv` has one lemma for each group of actions;
a step that changes neither the record nor the host needs only its own local
facts. TLC checked `IInv` on the run's instance before it was proved.

The refinement needs nothing beyond `IInv`. Every step is one of five kinds: it
keeps the decision and the host's account and stutters; it switches the host,
and `HostFollows` before and after the step leaves it only decided accounts of
an unstable pool (`Serves`, which covers a crash in the middle of an activation
and the rollback after it); it records an unstable phase (`Unsettles`); it
records stable under a host on its target, by `ActivationKnows` (`Confirms`); or
it publishes a target from a stable one (`Decides`).

`HistoryKept` needs `HistoryInv`: `IInv` and a valid history. What every command
but one does to the history it finds `Follows` it: entry for entry the same
operation, an answered one unchanged, none started anew. A history that follows
a valid one is valid and keeps its answers, since no two entries are of one
operation. The command that enters an operation does so where none is started
and this one is unknown, so that all entries are answered ones and the oldest,
which makes room, is the first.

`SwiftActivationProofs` proves about `SwiftActivation`, for any set of accounts
and any number of writes from outside, from its two named assumptions (`None` is
no account, `MaxOutside` is a natural):

* `Invariance`: `Spec => []IInv`;
* `TypeCorrect`: `Spec => []TypeOK`;
* `SplitsGuarded`: `Spec => []SplitGuarded`;
* `ConfirmationsTrue`: `Spec => ConfirmedTrue`;
* `OperationsSettle`: `Spec => OperationSettles`;
* `SupersededStop`: `Spec => SupersededStops`.

None of these follows from the current state alone, since every step of an
operation acts on what it established several awaits earlier while logins,
observations and runtimes came in between. Here `IInv` is `SplitGuarded` and

* `Types`: `TypeOK` and the types of the locals of an operation and of an
  observation; an operation that holds the lease has an account and a generation;
* `Asleep`: an app that does not run holds no lease;
* `CommitKnows`: from the preparing record to the degraded one the journal names
  the operation's target and generation, the record it replaced was not itself a
  preparing one, the swap is pending for its target, and before the degraded
  record is written the store has the target and auth.json has it or was written
  by a login. Restoring the replaced record, or marking the commit, then leaves
  no half swap under a record that hides it;
* `TaskKnows`: the convergence task runs for the pending and configured account,
  and once it has evidence the store has that account too and the topology is not
  empty. With the bindings that `markConfirmed` reads under its lock that is
  `ConfirmedTrue`: the store and the configured account need no second reading
  because whatever else writes them needs the lease;
* `OthersKnow`: a retry and an adoption begin with nothing pending;
* `GenApart`: the record in memory has the generation of a preparing journal only
  if it is that record or a review, so an abandoned operation does not leave its
  own preparing record on show.

There is one lemma for each action or group of actions, and TLC checked `IInv` on
the run's instance (738,812 states) before it was proved. `SupersededStops`,
`ConfirmedTrue` and `OperationSettles` are action properties: each has a lemma for
one step from `IInv`.

`ActivationProofs` proves about `Activation`, for any accounts, runtimes and
bounds, from the assumptions named there (some account exists, `None` is no
record, the bounds are naturals):

* `TypeCorrect`: `Spec => []TypeOK`;
* `ConfirmationsTrue`: `SwiftDegrades = FALSE => (Spec => []RuntimeCurrent)`;
* `SplitsGuarded`: `"Import" \notin LateErrors => (Spec => []NoUnguardedSplit)`;
* `PreparedEnds`: `"Import" \notin LateErrors => (Spec => PreparedOutcome)`;
* `NothingOverwritten`: `Spec => NoActivationOverUnresolved`;
* `ForeignTokensSurvive`: `Spec => ForeignTokenSurvives`.

The two hypotheses are the run's own values of those constants; Observations
say what the code does without them. In the invariant:

* `Types` has the tokens and stamps that can have been written after the outside
  writes so far, so that the next outside write is fresh;
* `PreparedKnows`: a prepared record carries its owned store and its rollback
  image, and what it owns of `auth.json` is unstamped or repeats the credential
  that was there;
* `RecoverKnows`, `CommitKnows`: which file holds what at each step of a commit,
  its rollback and its recovery, and that `auth.json` is as captured or was
  written by somebody else since;
* `PriorKnows`: the record an adoption goes over names a credential that neither
  `auth.json` nor the rollback image holds, so restoring the image under that
  record does not confirm anything;
* `ReloadKnows`: an acknowledged runtime follows `auth.json` as long as the file
  is the one the reload was bound to; once it differs its stamp is later, and it
  stays so;
* `RuntimesFollow`: a confirmed record that names the credential in `auth.json`
  is true of the runtimes whatever the store says. `RuntimeCurrent` speaks of
  the store too, and is not inductive because a store can come back.

`RemoteRotationProofs` proves `TypeCorrect`, `NoneAbandoned` (`Spec =>
[]NothingAbandoned`) and `HandOffsTrue` (`Spec => HandOffs`) for any accounts,
operations, turns and bounds. The control command on the Mac acts on what it
read several messages earlier: `ControlKnows` says that its operation is still
the journal's and that what it adopts for one was completed, which the VPS never
takes back; `ServedJournaled` that a caller is only served by a journal. Lost,
repeated and late messages need no fact of their own, since the wire's contents
are not read but through the operation's phase.

`ResetJournalProofs` proves `TypeCorrect`, `PostsAlone` (`Spec => []OneLivePost`)
and `TellsTrue` (`Spec => []ReportsTrue`) for any accounts, requests, credits,
entry limits and bounds, from the assumptions named in `ResetJournal` (there is
an account, the limits are positive, `None` is none of the identifiers). What
makes it hard is that the provider may act on a request at any later time, while
the flow that sent it is gone and its attempt may have been pruned:

* `Within`: a saved journal respects its two limits, so that an update which
  settles no attempt drops none;
* `AttemptsTrue`: what has been sent or spent is journalled until it is forgotten
  (`Journalled`); a request that may still be acted on has an open attempt, for
  its account and credit, or the journal asks for a review (`LiveOpen`); an
  attempt reconciled as usable names a spent credit (`UsableSpent`), one
  reconciled as not applied is dead (`NotApplied`);
* `CreditsGranted`: nobody knows of a credit the provider has not granted;
* `FlowKnows`: what a flow read several requests earlier still tells. Of the
  credits it knew, those that its inventory misses and that have not expired were
  redeemed (`BankKnows`), also if more are redeemed since; before it sends, no
  request of the account is live, and after it, at most its own (`OnlyPosted`);
  a definite refusal is of a request that will not be acted on (`AnswerKnows`);
* `OneLive` and `RejectedSpentNothing`, which the run states too.

The steps of the provider and of time only take requests out of the live ones,
and redeem or grant credits, so each of these facts survives them; a flow's save
settles at most its own attempt. That a pruned sequence keeps the entries at the
kept positions, once each and in their order, is proved from the cardinality of
initial segments (`NthIs`, `KeepingIs`, `NewestBound`), without induction.

`CredentialSyncProofs` proves `TypeCorrect`, `ReceiptsHold` (`Spec =>
[]ReceiptCommitted`), `HeldRuns` (`Spec => []OnlyHeldRuns`) and `NoneGoesBack`
(`Spec => StoresForward`) for any accounts and bounds:

* `ChainsKnow`: no host holds a generation the provider has not issued;
* `JournalKnows`: an identifier is fresh once, and has no receipt before;
* `SyncKnows`, `RecoveryKnows`: at which steps the operation in the journal is
  not running, on the evidence of a receipt or a probe read one or more awaits
  earlier: the fact that carries `OnlyHeldRuns` over a release of the hold;
* `ImportKnows`: per import, what its receipt says against the store before and
  after the commit. Between the two the store may only have moved forward, which
  needs `StoresForward` of every other writer;
* `RoundKnows`: the plan of a round adopts newer generations only.

`RuntimeUpdateProofs` proves `TypeCorrect`, `PairsWhole` (`Spec => []PairWhole`),
`ReleasesKept` (`Spec => []ReleaseKept`), `NeverUnderRuntime` (`Spec =>
RunningUnchanged`) and `ImplementsInstall` (`Spec => PairInstalled`) for any set of
versions and any number of transactions and faults:

* `GuardsHold`: under the guards nothing starts, and after the second look
  nothing runs;
* `CopyKnows`: the process works on its own copy of the state file; the
  transaction in it is the file's;
* `PublishKnows`: which of the two files is renamed and which renames are durable
  at each program counter. With it a loss of power, which undoes any set of
  renames that were not synced, leaves a pair that the journal can put back;
* `UndoKnows`, `CleanKnows`: an undo runs only below the durable commit, and a
  journal is removed only over a durable whole pair;
* `CommittedOnDisk`: a committed transaction's pair is on the disk.

The refinement of `AtomicInstall` needs nothing beyond this invariant. The journal
is written where none is open and the disk holds one release (`Replace`). A step
under a journal that stays keeps what it names, so it is a commit or nothing,
provided that no commit is taken back (`SavesKeepCommit`): of the steps that save
another transaction those before the mark and those of an undo have no commit to
lose, the mark makes one, and the last runs under a journal that says so itself.
The journal is removed over the new pair, or by an undo over the old one
(`UnjournalConcludes`).

Its second part proves `MacTypeCorrect`, `MacLaunchersWhole` (`MacSpec =>
[]LaunchersWhole`), `MacSessionsKept` (`MacSpec => []SessionKept`) and
`MacImplementsInstall` (`MacSpec => LaunchersInstalled`) of `MacRuntime`. Both
modules extend `UpdateCommand`, so what is proved of the state file's operators
serves both. The assumptions are those named in `MacRuntime` and `UpdateCommand`:
there is room for one generation, `None` is no journal, the bounds are naturals.
They hold for any versions, sessions and bounds:

* `MacFlow`: a command keeps a list of the steps still to take; whatever suffix of
  it is left, a step finds what it needs (an artifact, a journal, or none);
* `MacWhole`: a journal binds launchers of one activation, and without one they
  are of one activation; `MacDisk` says per step which of the four are published
  and which put back. After a failed step nothing need be known of them: the
  rollback looks at each one before it touches it, and refuses what it cannot tell;
* `MacLeases`: a generation that a session runs is there and is not leased by
  retention. A session that starts between the inventory and the lease is seen by
  the lease, and one that starts between the lease and the deletion waits for it.

`MacImplementsInstall` follows as on Linux: without a journal no launcher changes
(`MacDestKept`), and the journal goes only over four launchers that are all new,
or all as the journal remembers them (`MacUnjournalConcludes`, from `MacDisk`).

`DesktopUpdateProofs` proves `TypeCorrect`, `AppsKept` (`Spec => []AppKept`),
`NamesKept` (`Spec => []ManifestsKept`), `UpdatesKept` (`Spec => []UpdateKept`) and
`ImplementsInstall` (`Spec => AppInstalled`) for any releases, any number of
generations and faults:

* `JournalKnows`: with an open journal the two bundles are as before the exchange
  (`Before`), exchanged (`After`), or exchanged and committed with the replaced
  app beside it or kept as the rollback generation (`Cleaning`);
* `PointersKnow`: a manifest names a generation of the right kind; a staged one
  that is not there was rejected;
* `DeletesKnow`: the generation an operation is about to delete is not one that
  a manifest came to name in the meantime;
* `InstallKnows`, `CommittedKnows`, `CheckKnows`, `OpKnows`: what each step of an
  operation still knows of the bundles, its release and where it goes on.

The refinement adds `Uncommitted` to it: where the commit is written the journal
is not committed already. An undo may fail to remove its journal and leave it to
the installation that follows, which replaces it; while that one copies and
prepares, nothing is `incoming`. With the new app in place a committed journal
keeps its phase at every step but the rollback of its own commit. The cleanup of a
committed installation removes the journal over the new app, every other removal
is over the app that the journal names as the old one (`RemovalKnows`).

TLC checked each of these invariants on its run's instance before it was proved
(`Activation` 164,266 states, `RemoteRotation` 669,844, `ResetJournal` 2,102,077,
`CredentialSync` 693,266, `RuntimeUpdate` 2,225,166, `DesktopUpdate` 347,222,
`MacRuntime` 1,838,004), those of `Activation`, `DesktopUpdate` and `MacRuntime`
on larger ones too (6.6 M, 2.4 M and 4.9 M).

No safety invariant, action property or refinement is left to TLC alone. Only
model-checked: liveness under fairness (`Resolves`, `PoolSettles`, `Converges`,
`JournalCloses`) with whatever speaks of `ENABLED`, which is outside the prover's
reach. That the recovery of an interrupted update
finishes is therefore shown by TLC alone; that each of its steps is safe is
proved. The two statements that the code violates (`UpdateFindsItsAttempt`,
`CleanupRetried`) have nothing to prove.

## Not modelled

* `Activation`: the upgrade of records that older versions wrote
  (`activation.rs` 2613-2654) and age limits measured on a wall clock, such as
  that of the Swift witness.
* `RemoteRotation`: the validation of configuration, SSH arguments and answers,
  the source checks of a turn, the version 1 journal, `allow_banked_reset`, and
  requests for the target that is already recorded.
* `ResetJournal`: the policy that chooses a candidate (any choice is allowed),
  malformed inventories, mismatched identities and the decoding of old journals,
  a journal that is oversized or foreign, retention by age, the reuse of a cached
  bank, and the length of a hold.
* `CredentialSync`: two different tokens of one expiry and issue time, the
  capacity of the ledger, throttles and back-off, the cryptography of a bundle.
  The import's commit of store and `auth.json` is one step, which `Activation`
  opens; so is the Mac's commit of its active account, which `SwiftActivation`
  opens.
* `SwiftActivation`: the token generations of one account (refresh,
  reauthentication and the recovery within an account), credentials that belong
  to no known account or cannot be read, the deadlines of an authority (any
  commit step may fail instead), the timing of retries, a start without a
  journal. A graceful quit is an invalidated lease and a crash.
* `RuntimeUpdate`, `MacRuntime`: manifests, signatures, source patching,
  provenance and cleanup of target directories, the retention of sources and
  logs and on Linux of generations, the byte limits of retention, time.
* `DesktopUpdate`: the patching of the installed app, the activation intent, the
  authentication of archives and the age of their seals, staging workspaces and
  quarantine directories, an appcast that goes backwards, a loss of power over
  manifests that were not synced.
* The app's save queue (`AccountPersistenceCoordinator.swift`) and the rename,
  sync and read-back sequence of one file (`secure_file.rs`): seen as atomic
  commits whose error leaves the effect open.
* The exact content of an error message, a status report or a receipt; process
  discovery, the authentication of an acknowledgement, SSH and HTTP; quota
  arithmetic; cryptography and secure drop; the patching of other programs; the
  user interface; the usage hub and operation scripts.

## Plan

Done: `Activation`; `PoolAuthority` with its refinement and proofs;
`RemoteRotation`; `ResetJournal`; `CredentialSync`; `SwiftActivation`;
`RuntimeUpdate` and `MacRuntime`; `DesktopUpdate`; `AtomicInstall` with its three
refinements. Left, most important first:

1. `PoolConvergence`: `PoolAuthority` with its abstract host replaced by
   `Activation` on one account pair, so that `BarrierAnswers` and
   `ActivationAnswers` become a refinement and not an assumption.
2. `SecureFile`: temporary file, rename, sync and read-back as a refinement of
   an atomic compare-and-swap whose error leaves the effect open.
3. `AccountPersistence`: revisions, the telemetry queue and its submissions.
4. Quota policy and candidate choice as operators against a reference definition.

Theorems worth proving next: what these modules add. Every safety property, action
property and refinement that a run checks is proved.
