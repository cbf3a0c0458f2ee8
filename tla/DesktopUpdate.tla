--------------------------- MODULE DesktopUpdate ---------------------------
(***************************************************************************)
(* The updater of the ChatGPT desktop app: a check downloads, assesses and *)
(* promotes a generation; an installation swaps it with the installed app  *)
(* under a journal, keeps the replaced app as a rollback generation and    *)
(* can be recovered after a crash at any step; retention removes what no   *)
(* manifest names.  One permit, and a lease between processes, admit one   *)
(* operation at a time; the desktop app is started and quit at any time.   *)
(* (DesktopBundleInstaller, DesktopUpdateStore, DesktopUpdateScheduler,    *)
(* CodexDesktopAppUpdater, DesktopUpdateCoordinator)                       *)
(*                                                                         *)
(* A bundle is its version, whether all of it is there, and whether it is  *)
(* the new copy of the open transaction, which is what its recorded        *)
(* identities tell.  The journal phases swapped and validating are treated *)
(* alike, and so are committed and cleanupPending.                         *)
(***************************************************************************)
EXTENDS Naturals, FiniteSets

CONSTANTS
    Versions,       \* build numbers of the releases
    Bad,            \* releases that fail the trust validation
    MaxDirs,        \* bound: directories in the update root; no operation makes more
    MaxFaults,      \* bound: crashes, errors, cancellations, failed verdicts
    MaxLaunches     \* bound: starts of the desktop app

ASSUME VersionsAssumption == Versions \subseteq Nat \ {0} /\ Bad \subseteq Versions
ASSUME BoundsAssumption == MaxDirs \in Nat \ {0} /\ MaxFaults \in Nat /\ MaxLaunches \in Nat

VARIABLES
    dest,       \* the installed app
    incoming,   \* the copy beside it, or after the swap the replaced app
    journal,    \* the install journal
    dirs,       \* the generations in the update root
    staged,     \* the manifest of the authoritative update
    pending,    \* the manifest of the downloaded, not yet assessed update
    rollback,   \* the manifest of the rollback generation
    rejected,   \* the releases rejected definitively
    op,         \* the operation that holds the permit
    running,    \* the desktop app runs
    latest,     \* the release the appcast names
    launches, faults

app == <<dest, incoming, journal>>
manifests == <<staged, pending, rollback>>
store == <<dirs, manifests, rejected>>
desktop == <<running, launches, latest>>
vars == <<app, store, op, desktop, faults>>

Ids == 1 .. MaxDirs
NoDir == [kind |-> "none", ver |-> 0, sound |-> FALSE]
NoPtr == [id |-> 0, ver |-> 0]
NoApp == [ver |-> 0, new |-> FALSE, whole |-> FALSE]
NoJournal == [phase |-> "none", new |-> NoApp, old |-> NoApp]

(* op: the generation it works on, the release or version, what follows a  *)
(* removal, the copy of the replaced app, whether it still recovers an     *)
(* earlier installation, and whether it knows the commit to be durable.    *)
Idle == [kind |-> "idle", pc |-> "idle", gen |-> 0, rel |-> 0, which |-> "none", next |-> "none",
         copy |-> 0, recovering |-> FALSE, committed |-> FALSE]

Pcs == {"idle", "reject", "move", "forget", "compare", "tidy", "delete", "download", "point",
        "assess", "promote", "promoted", "supersede", "recover", "copy", "prepare", "activate",
        "swap", "mark", "commit", "tail", "publish", "retire", "remove", "removing", "unjournal",
        "rollback", "swapBack", "retireStaged", "dispose"}
Tails == {"none", "abandon", "finish", "rollback", "cleanup"}
Builds == Versions \cup {0}
Bundles == [ver : Builds, new : BOOLEAN, whole : BOOLEAN]
Pointers == [id : 0 .. MaxDirs, ver : Builds]

TypeOK ==
    /\ dest \in Bundles /\ incoming \in Bundles
    /\ journal \in [phase : {"none", "prepared", "swapped", "rollback", "committed"},
                    new : Bundles, old : Bundles]
    /\ journal # NoJournal => journal.new.new /\ ~journal.old.new
    /\ dirs \in [Ids -> [kind : {"none", "staged", "previous"}, ver : Builds, sound : BOOLEAN]]
    /\ staged \in Pointers /\ pending \in Pointers /\ rollback \in Pointers
    /\ rejected \subseteq Versions
    /\ op.kind \in {"idle", "check", "install", "restore", "recover"} /\ op.pc \in Pcs
    /\ (op.kind = "idle") <=> (op.pc = "idle")
    /\ op.gen \in 0 .. MaxDirs /\ op.copy \in 0 .. MaxDirs /\ op.rel \in Builds
    /\ op.which \in {"none", "staged", "pending"} /\ op.next \in Pcs \cup Tails
    /\ op.committed => journal.phase = "committed"
    /\ running \in BOOLEAN /\ latest \in Versions
    /\ launches \in 0 .. MaxLaunches /\ faults \in 0 .. MaxFaults

Init ==
    /\ latest \in Versions /\ \A v \in Versions : latest <= v
    /\ dest \in {NoApp, [ver |-> latest, new |-> FALSE, whole |-> TRUE]}
    /\ incoming = NoApp /\ journal = NoJournal
    /\ dirs = [i \in Ids |-> NoDir]
    /\ staged = NoPtr /\ pending = NoPtr /\ rollback = NoPtr
    /\ rejected = {}
    /\ op = Idle
    /\ running = FALSE /\ launches = 0 /\ faults = 0

-----------------------------------------------------------------------------
(* Helpers.                                                                *)

At(p) == op.pc = p
Goto(p) == op' = [op EXCEPT !.pc = p]
Fault == faults < MaxFaults /\ faults' = faults + 1
Well == UNCHANGED faults

(* On with what follows a removal.                                         *)
Resume(o) == op' = IF op.next = "idle" THEN Idle ELSE [o EXCEPT !.pc = op.next, !.next = "none"]

(* The end of an operation.  A stock restore first removes its download.   *)
End == op' = Idle
Done == IF op.kind = "restore" THEN op' = [op EXCEPT !.pc = "dispose", !.committed = FALSE] ELSE End

Present(p) == p # NoPtr /\ dirs[p.id] # NoDir
Sound(p) == Present(p) /\ dirs[p.id].sound

(* Nothing is installed, or an older build.                                *)
Newer(v) == dest = NoApp \/ v > dest.ver

Old(p) == p # NoPtr /\ ~Newer(p.ver)

(* The name of a new generation: one that nothing has or names.            *)
Free == {i \in Ids \ {staged.id, pending.id, rollback.id, op.gen, op.copy} : dirs[i] = NoDir}
Fresh == CHOOSE i \in Free : TRUE

(* try? removeItem: a failure leaves to retention what a crash leaves too. *)
Delete(i) == dirs' = [j \in Ids |-> IF j = i THEN NoDir ELSE dirs[j]] /\ Well

-----------------------------------------------------------------------------
(* The permit: one operation at a time.                                    *)
Begin(kind, pc, rest) == op' = [rest EXCEPT !.kind = kind, !.pc = pc]

(* A check of the release the appcast names: an authoritative update that  *)
(* is still wanted is used again, on its seal or a new verdict, or revoked.*)
BeginCheck ==
    LET wanted == staged # NoPtr /\ Newer(staged.ver) /\ staged.ver >= latest
        check == [Idle EXCEPT !.rel = latest]
    IN  /\ op.kind = "idle"
        /\ \/ wanted /\ Present(staged) /\ End
           \/ wanted /\ ~Sound(staged)
              /\ Begin("check", "reject", [check EXCEPT !.which = "staged", !.next = "compare"])
           \/ ~wanted /\ Begin("check", "compare", check)
        /\ UNCHANGED <<app, store, desktop, faults>>

Named == IF op.which = "staged" THEN staged ELSE pending
Unname == \/ op.which = "staged" /\ staged' = NoPtr /\ UNCHANGED <<pending, rollback>>
          \/ op.which = "pending" /\ pending' = NoPtr /\ UNCHANGED <<staged, rollback>>

(* A definitive rejection: the ledger, the directory, the manifest.        *)
Reject ==
    /\ At("reject")
    /\ \/ rejected' = rejected \cup {Named.ver} /\ Goto("move") /\ Well
       \/ UNCHANGED rejected /\ End /\ Fault
    /\ UNCHANGED <<app, dirs, manifests, desktop>>

Quarantine ==
    /\ At("move")
    /\ IF Present(Named) /\ ~(op.which = "pending" /\ staged = pending)
       THEN dirs' = [dirs EXCEPT ![Named.id] = NoDir]
       ELSE UNCHANGED dirs
    /\ Goto("forget")
    /\ UNCHANGED <<app, manifests, rejected, desktop, faults>>

Forget ==
    /\ At("forget")
    /\ Unname /\ Resume([op EXCEPT !.which = "none"])
    /\ UNCHANGED <<app, dirs, rejected, desktop, faults>>

(* The manifest goes first, then its directory, unless the other manifest  *)
(* names the same generation.                                              *)
DiscardPending(next) ==
    /\ pending' = NoPtr /\ UNCHANGED <<staged, rollback>>
    /\ op' = [op EXCEPT !.pc = "delete", !.gen = IF staged = pending THEN 0 ELSE pending.id, !.next = next]
DiscardStaged(next) ==
    /\ staged' = NoPtr /\ UNCHANGED <<pending, rollback>>
    /\ op' = [op EXCEPT !.pc = "delete", !.gen = staged.id, !.next = next]

(* The installed build is current: what is no newer than it goes.          *)
Tidy ==
    /\ At("tidy")
    /\ \/ Old(staged) /\ DiscardStaged("tidy")
       \/ ~Old(staged) /\ Old(pending) /\ DiscardPending("idle")
       \/ ~Old(staged) /\ ~Old(pending) /\ End /\ UNCHANGED manifests
    /\ UNCHANGED <<app, dirs, rejected, desktop, faults>>

(* What the release means for the installed build and the pending update.  *)
Compare ==
    /\ At("compare")
    /\ \/ ~Newer(op.rel) /\ Goto("tidy") /\ UNCHANGED manifests
       \/ /\ Newer(op.rel) /\ op.rel \in rejected /\ UNCHANGED manifests
          /\ \/ pending.ver = op.rel /\ op' = [op EXCEPT !.pc = "move", !.which = "pending", !.next = "idle"]
             \/ pending.ver # op.rel /\ End
       \/ /\ Newer(op.rel) /\ op.rel \notin rejected
          /\ \/ pending.ver = op.rel /\ Goto("assess") /\ UNCHANGED manifests
             \/ pending.ver # op.rel /\ pending # NoPtr /\ DiscardPending("download")
             \/ pending = NoPtr /\ Goto("download") /\ UNCHANGED manifests
    /\ UNCHANGED <<app, dirs, rejected, desktop, faults>>

DeleteDir ==
    /\ At("delete") /\ Delete(op.gen)
    /\ Resume([op EXCEPT !.gen = 0])
    /\ UNCHANGED <<app, manifests, rejected, desktop>>

(* The download: the rename of the extracted generation is its last step,  *)
(* then the only manifest that names it.                                   *)
Downloaded(v) ==
    /\ Free # {}
    /\ dirs' = [dirs EXCEPT ![Fresh] = [kind |-> "staged", ver |-> v, sound |-> v \notin Bad]]
Download ==
    /\ At("download")
    /\ \/ Downloaded(op.rel) /\ op' = [op EXCEPT !.pc = "point", !.gen = Fresh] /\ Well
       \/ UNCHANGED dirs /\ End /\ Fault
    /\ UNCHANGED <<app, manifests, rejected, desktop>>

Point ==
    /\ At("point")
    /\ \/ pending' = [id |-> op.gen, ver |-> op.rel] /\ Goto("assess") /\ Well
       \/ UNCHANGED pending /\ op' = [op EXCEPT !.pc = "delete", !.next = "idle"] /\ Fault
    /\ UNCHANGED <<app, dirs, staged, rollback, rejected, desktop>>

Assess ==
    /\ At("assess")
    /\ \/ Sound(pending) /\ Goto("promote") /\ Well
       \/ ~Sound(pending) /\ op' = [op EXCEPT !.pc = "reject", !.which = "pending", !.next = "idle"] /\ Well
       \/ End /\ Fault
    /\ UNCHANGED <<app, store, desktop>>

(* Promotion: the authoritative manifest, the pending one, then the        *)
(* directory of the former update.                                         *)
Promote ==
    /\ At("promote")
    /\ \/ /\ staged' = pending /\ Well
          /\ op' = [op EXCEPT !.pc = "promoted", !.gen = IF staged.id = pending.id THEN 0 ELSE staged.id]
       \/ UNCHANGED staged /\ End /\ Fault
    /\ UNCHANGED <<app, dirs, pending, rollback, rejected, desktop>>
Promoted ==
    /\ At("promoted") /\ Goto("supersede")
    /\ \/ pending' = NoPtr /\ Well
       \/ UNCHANGED pending /\ Fault
    /\ UNCHANGED <<app, dirs, staged, rollback, rejected, desktop>>
Supersede ==
    /\ At("supersede") /\ End /\ Delete(op.gen)
    /\ UNCHANGED <<app, manifests, rejected, desktop>>

CheckStep == \/ Reject \/ Quarantine \/ Forget \/ Compare \/ Tidy \/ DeleteDir \/ Download
             \/ Point \/ Assess \/ Promote \/ Promoted \/ Supersede

-----------------------------------------------------------------------------
(* An installation: what is staged, whether it is wanted, a full verdict.  *)
BeginInstall ==
    /\ op.kind = "idle" /\ staged # NoPtr /\ UNCHANGED <<app, dirs, rejected, desktop>>
    /\ LET install == [Idle EXCEPT !.kind = "install", !.gen = staged.id, !.rel = staged.ver]
       IN  \/ ~Newer(staged.ver) /\ Well
              /\ staged' = NoPtr /\ UNCHANGED <<pending, rollback>>
              /\ op' = [install EXCEPT !.pc = "delete", !.next = "idle"]
           \/ /\ Newer(staged.ver) /\ ~running /\ UNCHANGED manifests /\ Well
              /\ op' = IF Sound(staged) THEN [install EXCEPT !.pc = "recover", !.recovering = TRUE]
                       ELSE [install EXCEPT !.pc = "reject", !.which = "staged", !.next = "idle"]

(* A restore of the stock app downloads the release for itself.            *)
BeginRestore ==
    /\ op.kind = "idle" /\ ~running
    /\ Downloaded(latest)
    /\ op' = [Idle EXCEPT !.kind = "restore", !.gen = Fresh, !.rel = latest, !.recovering = TRUE,
                          !.pc = IF latest \in Bad THEN "dispose" ELSE "recover"]
    /\ UNCHANGED <<app, manifests, rejected, desktop, faults>>

(* The copy beside the installed app, assessed like the installed app.     *)
Copy ==
    /\ At("copy")
    /\ \/ ~running /\ incoming' = [ver |-> op.rel, new |-> TRUE, whole |-> TRUE] /\ Goto("prepare") /\ Well
       \/ running /\ Done /\ UNCHANGED incoming /\ Well
       \/ Done /\ UNCHANGED incoming /\ Fault
    /\ UNCHANGED <<dest, journal, store, desktop>>

(* A write of the journal: it takes effect, also when it then reports an   *)
(* error, or it does not.                                                  *)
Write(j, ok, failed) ==
    \/ journal' = j /\ ok /\ Well
    \/ journal' \in {j, journal} /\ failed /\ Fault

Prepared == [phase |-> "prepared", new |-> incoming, old |-> dest]
Prepare ==
    /\ At("prepare")
    /\ \/ (running \/ ~dirs[op.gen].sound) /\ Done /\ UNCHANGED journal /\ Well
       \/ ~running /\ dirs[op.gen].sound /\ Write(Prepared, Goto("activate"), Done)
    /\ incoming' = IF journal' = Prepared THEN incoming ELSE NoApp
    /\ UNCHANGED <<dest, store, desktop>>

(* The two bundles, told apart by their identity.                          *)
Layout ==
    CASE dest = journal.old /\ incoming.new -> "prepared"
      [] dest = journal.new /\ incoming # NoApp /\ journal.old # NoApp -> "activated"
      [] dest = journal.new /\ incoming = NoApp /\ journal.old = NoApp -> "activated"
      [] dest = journal.new /\ incoming = NoApp /\ journal.old # NoApp -> "committedClean"
      [] dest = journal.old /\ incoming = NoApp -> "rolledBackClean"
      [] OTHER -> "inconsistent"

(* What follows the removal of the incoming bundle.                        *)
RemoveThen(tail) == op' = [op EXCEPT !.pc = "remove", !.next = tail]

Abandon == IF Layout = "prepared" /\ incoming = journal.new THEN RemoveThen("abandon") ELSE Done

Activate ==
    /\ At("activate")
    /\ \/ ~running /\ Goto("swap") /\ Well
       \/ running /\ Abandon /\ Well
       \/ Abandon /\ Fault
    /\ UNCHANGED <<app, store, desktop>>

Swapped == dest' = incoming /\ incoming' = dest
Swap ==
    /\ At("swap")
    /\ \/ Layout = "prepared" /\ Swapped /\ Goto("mark") /\ Well
       \/ UNCHANGED <<dest, incoming>> /\ Done /\ Fault
    /\ UNCHANGED <<journal, store, desktop>>

Phase(p) == [journal EXCEPT !.phase = p]
Mark ==
    /\ At("mark")
    /\ Write(Phase("swapped"), Goto("commit"), Goto("rollback"))
    /\ UNCHANGED <<dest, incoming, store, desktop>>

CommitAssumed ==
    /\ At("commit")
    /\ \/ journal' \in {journal, Phase("committed")} /\ Well
          /\ op' = [op EXCEPT !.pc = "tail", !.committed = TRUE]
       \/ UNCHANGED journal /\ Goto("rollback") /\ Fault
    /\ UNCHANGED <<dest, incoming, store, desktop>>

(* A second verdict and the commit, which is known to be durable only when *)
(* its write has succeeded.                                                *)
Commit ==
    /\ At("commit")
    /\ Write(Phase("committed"), op' = [op EXCEPT !.pc = "tail", !.committed = TRUE], Goto("rollback"))
    /\ UNCHANGED <<dest, incoming, store, desktop>>

-----------------------------------------------------------------------------
(* The cleanup of a committed installation.                                *)

(* An installation whose cleanup is put off is installed; a recovery whose *)
(* cleanup is put off is deferred.                                         *)
Installed == IF op.kind = "install" /\ ~op.recovering
             THEN op' = [op EXCEPT !.pc = "retireStaged", !.committed = FALSE]
             ELSE Done

Recovered == IF op.kind = "recover" THEN End
             ELSE op' = [op EXCEPT !.pc = "copy", !.recovering = FALSE, !.committed = FALSE,
                                   !.copy = 0, !.next = "none"]

(* The replaced app is kept as the rollback generation before it goes.     *)
KeptSome == Sound(rollback)
KeptAlready == Sound(rollback) /\ rollback.ver = journal.old.ver
Preserve ==
    /\ At("tail")
    /\ \/ running /\ Installed /\ UNCHANGED dirs /\ Well
       \/ /\ ~running /\ (journal.old = NoApp \/ (incoming = journal.old /\ KeptAlready))
          /\ RemoveThen("cleanup") /\ UNCHANGED dirs /\ Well
       \/ /\ ~running /\ journal.old # NoApp /\ incoming = journal.old /\ ~KeptAlready /\ Free # {}
          /\ dirs' = [dirs EXCEPT ![Fresh] = [kind |-> "previous", ver |-> journal.old.ver, sound |-> TRUE]]
          /\ op' = [op EXCEPT !.pc = "publish", !.copy = Fresh] /\ Well
       \/ ~running /\ journal.old # NoApp /\ incoming # journal.old /\ Installed /\ UNCHANGED dirs /\ Well
       \/ ~running /\ Installed /\ UNCHANGED dirs /\ Fault
    /\ UNCHANGED <<app, manifests, rejected, desktop>>

PublishAfterRetiring ==
    /\ At("publish")
    /\ dirs' = IF Present(rollback) THEN [dirs EXCEPT ![rollback.id] = NoDir] ELSE dirs
    /\ \/ rollback' = [id |-> op.copy, ver |-> journal.old.ver] /\ Well
          /\ op' = [op EXCEPT !.pc = "retire", !.copy = 0]
       \/ rollback' \in {rollback, [id |-> op.copy, ver |-> journal.old.ver]} /\ Installed /\ Fault
    /\ UNCHANGED <<app, staged, pending, rejected, desktop>>

(* Its manifest replaces that of the former one, which is then removed.    *)
Publish ==
    /\ At("publish")
    /\ \/ rollback' = [id |-> op.copy, ver |-> journal.old.ver] /\ Well
          /\ op' = [op EXCEPT !.pc = "retire", !.copy = rollback.id]
       \/ rollback' \in {rollback, [id |-> op.copy, ver |-> journal.old.ver]} /\ Installed /\ Fault
    /\ UNCHANGED <<app, dirs, staged, pending, rejected, desktop>>
Retire ==
    /\ At("retire") /\ Delete(op.copy)
    /\ op' = [op EXCEPT !.pc = "remove", !.next = "cleanup", !.copy = 0]
    /\ UNCHANGED <<app, manifests, rejected, desktop>>

-----------------------------------------------------------------------------
(* The removal of the incoming bundle, of an abandoned, a rolled back or a *)
(* committed installation, and then of the journal.                        *)
RemovalFailed == IF op.next = "cleanup" THEN Installed ELSE Done

Remove ==
    /\ At("remove")
    /\ \/ incoming = NoApp /\ Goto("unjournal") /\ UNCHANGED incoming /\ Well
       \/ incoming # NoApp /\ incoming' = [incoming EXCEPT !.whole = FALSE] /\ Goto("removing") /\ Well
       \/ incoming # NoApp /\ UNCHANGED incoming /\ RemovalFailed /\ Fault
    /\ UNCHANGED <<dest, journal, store, desktop>>
Removing ==
    /\ At("removing")
    /\ \/ incoming' = NoApp /\ Goto("unjournal") /\ Well
       \/ UNCHANGED incoming /\ RemovalFailed /\ Fault
    /\ UNCHANGED <<dest, journal, store, desktop>>

(* A cleanup that fails at the journal writes it again; a rollback does    *)
(* not look at the error.                                                  *)
Removed == CASE op.recovering -> Recovered
             [] op.next = "cleanup" -> Installed
             [] OTHER -> Done
Unjournal ==
    /\ At("unjournal")
    /\ \/ journal' = NoJournal /\ Removed /\ Well
       \/ op.next = "cleanup" /\ UNCHANGED journal /\ Installed /\ Fault
       \/ op.next = "rollback" /\ journal' \in {journal, NoJournal} /\ Removed /\ Fault
       \/ op.next \in {"abandon", "finish"} /\ journal' \in {journal, NoJournal} /\ Done /\ Fault
    /\ dest' = IF journal' = NoJournal THEN [dest EXCEPT !.new = FALSE] ELSE dest
    /\ UNCHANGED <<incoming, store, desktop>>

(* The rollback of an installation that has not committed.                 *)
Rollback ==
    /\ At("rollback")
    /\ IF Layout = "activated" /\ incoming = journal.old
       THEN \/ journal' = Phase("rollback") /\ Goto("swapBack") /\ Well
            \/ UNCHANGED journal /\ Goto("swapBack") /\ Fault
       ELSE Done /\ UNCHANGED journal /\ Well
    /\ UNCHANGED <<dest, incoming, store, desktop>>
SwapBack ==
    /\ At("swapBack")
    /\ \/ Swapped /\ RemoveThen("rollback") /\ Well
       \/ UNCHANGED <<dest, incoming>> /\ Done /\ Fault
    /\ UNCHANGED <<journal, store, desktop>>

(* The manifest of an installed update goes; a stock restore removes the   *)
(* generation it has downloaded.                                           *)
RetireStaged ==
    /\ At("retireStaged") /\ DiscardStaged("idle")
    /\ UNCHANGED <<app, dirs, rejected, desktop, faults>>
Dispose ==
    /\ At("dispose") /\ End /\ Delete(op.gen)
    /\ UNCHANGED <<app, manifests, rejected, desktop>>

InstallStep == \/ Copy \/ Prepare \/ Activate \/ Swap \/ Mark \/ Commit
               \/ Preserve \/ Publish \/ Retire \/ Remove \/ Removing \/ Unjournal
               \/ Rollback \/ SwapBack \/ RetireStaged \/ Dispose

-----------------------------------------------------------------------------
(* The recovery of an interrupted installation, which also comes first in  *)
(* an installation and a restore.  Each recovery but the     *)
(* validation waits until the desktop app has quit; a deferred one ends    *)
(* the operation.                                                          *)
Deferred == Done

BeginRecover ==
    /\ op.kind = "idle" /\ journal # NoJournal
    /\ op' = [Idle EXCEPT !.kind = "recover", !.pc = "recover", !.recovering = TRUE]
    /\ UNCHANGED <<app, store, desktop, faults>>

(* The bundles are exchanged and nothing is committed: a new verdict.      *)
RecoverActivated ==
    /\ Layout = "activated" /\ UNCHANGED journal
    /\ \/ ~running /\ Goto("commit") /\ Well
       \/ ~running /\ Goto("rollback") /\ Fault
       \/ running /\ Deferred /\ Well

RecoverCleanLater == Layout = "rolledBackClean" /\ Deferred
(* Undone already, but for the journal.                                    *)
RecoverClean == /\ Layout = "rolledBackClean"
                /\ IF running THEN Deferred ELSE op' = [op EXCEPT !.pc = "unjournal", !.next = "finish"]

RecoverPrepared ==
    /\ At("recover") /\ journal.phase = "prepared"
    /\ \/ RecoverActivated
       \/ Layout = "prepared" /\ (IF running THEN Deferred ELSE Abandon) /\ UNCHANGED journal /\ Well
       \/ RecoverClean /\ UNCHANGED journal /\ Well
    /\ UNCHANGED <<dest, incoming, store, desktop>>

FinishRollback == Layout = "prepared" /\ (IF running THEN Deferred ELSE RemoveThen("finish"))
RecoverSwapped ==
    /\ At("recover") /\ journal.phase = "swapped"
    /\ \/ RecoverActivated
       \/ (FinishRollback \/ RecoverClean) /\ UNCHANGED journal /\ Well
    /\ UNCHANGED <<dest, incoming, store, desktop>>
RecoverRollback ==
    /\ At("recover") /\ journal.phase = "rollback"
    /\ \/ Layout = "activated" /\ (IF running THEN Deferred ELSE Goto("rollback"))
       \/ FinishRollback
       \/ RecoverClean
    /\ UNCHANGED <<app, store, desktop, faults>>
RecoverAnew ==
    /\ At("recover") /\ journal.phase = "committed"
    /\ IF Layout = "activated" THEN RecoverActivated ELSE Deferred /\ UNCHANGED journal /\ Well
    /\ UNCHANGED <<dest, incoming, store, desktop>>
RecoverCommitted ==
    /\ At("recover") /\ journal.phase = "committed"
    /\ IF Layout \in {"activated", "committedClean"} /\ ~running
       THEN op' = [op EXCEPT !.pc = "tail", !.committed = TRUE]
       ELSE Deferred
    /\ UNCHANGED <<app, store, desktop, faults>>
RecoverNone == /\ At("recover") /\ journal = NoJournal /\ Recovered
               /\ UNCHANGED <<app, store, desktop, faults>>

RecoverStep == RecoverPrepared \/ RecoverSwapped \/ RecoverRollback \/ RecoverCommitted \/ RecoverNone

-----------------------------------------------------------------------------
(* The world around.                                                       *)

(* Retention removes the artifacts that are old, or too many, and that no  *)
(* manifest names; a manifest without its directory protects them all.     *)
Unprotected(i) ==
    \/ /\ dirs[i].kind = "staged" /\ i \notin {staged.id, pending.id}
       /\ staged = NoPtr \/ Present(staged)
       /\ pending = NoPtr \/ Present(pending)
    \/ dirs[i].kind = "previous" /\ i # rollback.id
Retain ==
    /\ op.kind = "idle" /\ \E i \in Ids : Unprotected(i)
    /\ dirs' = [i \in Ids |-> IF Unprotected(i) THEN NoDir ELSE dirs[i]]
    /\ UNCHANGED <<app, manifests, rejected, op, desktop, faults>>

Launch == /\ ~running /\ dest # NoApp /\ launches < MaxLaunches
          /\ running' = TRUE /\ launches' = launches + 1
          /\ UNCHANGED <<app, store, op, latest, faults>>
Quit == running /\ running' = FALSE /\ UNCHANGED <<app, store, op, launches, latest, faults>>

Release == \E v \in Versions :
    /\ v > latest /\ latest' = v
    /\ UNCHANGED <<app, store, op, running, launches, faults>>

(* A staged generation is altered on the disk.                             *)
Spoil == \E i \in Ids :
    /\ dirs[i].kind = "staged" /\ dirs[i].sound /\ Fault
    /\ dirs' = [dirs EXCEPT ![i].sound = FALSE]
    /\ UNCHANGED <<app, manifests, rejected, op, desktop>>

(* CodexSwitch dies.  A copy no journal names yet is never looked at again.*)
Crash ==
    /\ op.kind # "idle" /\ Fault /\ op' = Idle
    /\ incoming' = IF op.pc = "prepare" THEN NoApp ELSE incoming
    /\ UNCHANGED <<dest, journal, store, desktop>>

Next == \/ BeginCheck \/ BeginInstall \/ BeginRestore \/ BeginRecover
        \/ CheckStep \/ InstallStep \/ RecoverStep \/ Retain \/ Launch \/ Quit \/ Release \/ Spoil \/ Crash

(* Every timer tick, every quit of the desktop app and every start of      *)
(* CodexSwitch begins with a recovery, operations run on, and the user     *)
(* quits the desktop app some time.                                        *)
Spec == /\ Init /\ [][Next]_vars
        /\ WF_vars(CheckStep) /\ WF_vars(InstallStep) /\ WF_vars(RecoverStep)
        /\ SF_vars(BeginRecover) /\ WF_vars(Quit)

-----------------------------------------------------------------------------
(* Properties.                                                             *)

(* The installed app is always whole, and the one it replaces is not lost: *)
(* until the commit it is whole in one of the two places, and once the     *)
(* commit is durable the new app stays and the old one is there or kept as *)
(* the rollback generation (commitPreparedIncoming, cleanupCommitted).     *)
AppKept ==
    /\ dest # NoApp => dest.whole
    /\ journal.phase \in {"prepared", "swapped", "rollback"} => journal.old \in {dest, incoming, NoApp}
    /\ op.committed =>
          /\ dest = journal.new
          /\ \/ journal.old = NoApp \/ incoming = journal.old
             \/ Sound(rollback) /\ rollback.ver = journal.old.ver

(* The manifests of the authoritative update and of the rollback           *)
(* generation name one that is there, unless it was rejected and is being  *)
(* moved away (promotePendingUpdate, saveRollbackGeneration).              *)
ManifestsKept ==
    /\ staged # NoPtr => Present(staged) \/ staged.ver \in rejected
    /\ rollback # NoPtr => Present(rollback) /\ dirs[rollback.id].ver = rollback.ver

(* What an update or a return to the former app relies on.                 *)
UpdateKept == AppKept /\ ManifestsKept

(* What recovery never takes up again: a committed cleanup that had begun  *)
(* to remove the replaced app, an abandoned copy that is partly removed,   *)
(* and a commit that reported an error and was rolled back over it.        *)
Stuck ==
    \/ journal.phase = "committed" /\ ~(dest = journal.new /\ incoming = journal.old)
    \/ journal.phase = "prepared" /\ Layout = "prepared" /\ ~incoming.whole

(* Every installation that is interrupted is finished or undone, and its   *)
(* journal removed, unless it is stuck (recoverHoldingLease).              *)
JournalCloses == []<>(journal = NoJournal) \/ <>[]Stuck

(* What the runbook says: a cleanup that failed is retried until it is     *)
(* complete (codexswitch-hot-swap-verification.md).                        *)
CleanupRetried == []<>(journal.phase # "committed")

-----------------------------------------------------------------------------
(* What the updater promises.                                              *)

(* What may be installed.                                                  *)
WholeApps == {bundle \in Bundles : bundle = NoApp \/ bundle.whole}

(* An installation interrupted at any step ends with the very app it       *)
(* started from or with the new one, and with the new one once its commit  *)
(* is written and no rollback is under way (installHoldingLease,           *)
(* recoverHoldingLease).  An installation that finds the journal of one    *)
(* undone before it replaces that one.                                     *)
AppInstall == INSTANCE AtomicInstall WITH
  Releases <- WholeApps,
  installed <- IF journal = NoJournal THEN dest ELSE journal.old,
  incoming <- IF journal = NoJournal \/ op.pc \in {"copy", "prepare"} THEN {}
              ELSE {[journal.new EXCEPT !.new = FALSE]},
  committed <- /\ journal.phase = "committed" /\ dest = journal.new
               /\ op.pc \notin {"rollback", "swapBack"}
AppInstalled == AppInstall!InstallSpec
=============================================================================
