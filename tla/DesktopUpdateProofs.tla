------------------------ MODULE DesktopUpdateProofs ------------------------
(***************************************************************************)
(* The inductive invariant of DesktopUpdate and what follows from it: the  *)
(* installed app is always whole, the one it replaces is not lost, the     *)
(* manifests name generations that are there, and the updater implements   *)
(* AtomicInstall.                                                          *)
(***************************************************************************)
EXTENDS DesktopUpdate, TLAPS

Open == journal # NoJournal
Phases == {"prepared", "swapped", "rollback", "committed"}
Journals == [phase : {"none"} \cup Phases, new : Bundles, old : Bundles]
Dirs == [kind : {"none", "staged", "previous"}, ver : Builds, sound : BOOLEAN]
Ops == [kind : {"idle", "check", "install", "restore", "recover"}, pc : Pcs, gen : 0 .. MaxDirs,
        rel : Builds, which : {"none", "staged", "pending"}, next : Pcs \cup Tails,
        copy : 0 .. MaxDirs, recovering : BOOLEAN, committed : BOOLEAN]

Removals == {"remove", "removing", "unjournal"}
CheckPcs == {"compare", "download", "point", "assess", "promote"}
Rejecting == {"reject", "move", "forget"}
Deleting == {"point", "delete", "promoted", "supersede", "dispose"}
Quiet == {"idle", "tidy", "recover", "retireStaged"} \cup CheckPcs \cup Rejecting \cup Deleting
Installing == {"recover", "copy", "prepare", "activate", "swap", "mark", "commit", "tail",
               "rollback", "swapBack", "retireStaged", "dispose"} \cup Removals

Types ==
    /\ dest \in Bundles /\ incoming \in Bundles /\ journal \in Journals
    /\ dirs \in [Ids -> Dirs]
    /\ staged \in Pointers /\ pending \in Pointers /\ rollback \in Pointers
    /\ rejected \subseteq Versions
    /\ op \in Ops
    /\ running \in BOOLEAN /\ latest \in Versions
    /\ launches \in 0 .. MaxLaunches /\ faults \in 0 .. MaxFaults

(* The replaced app is kept as the rollback generation.                    *)
Kept == Sound(rollback) /\ rollback.ver = journal.old.ver

(* While a journal is open the installed app is the old or the new one of  *)
(* it.  Where the new one is installed, the old one lies beside it, or it  *)
(* is kept and the installation committed.                                 *)
Before == dest = journal.old /\ (incoming = NoApp \/ incoming.new)
After == dest = journal.new /\ incoming = journal.old
Cleaning == /\ journal.phase = "committed" /\ dest = journal.new
            /\ incoming = journal.old \/ journal.old = NoApp \/ Kept

JournalKnows ==
    /\ ~Open => ~dest.new /\ (dest # NoApp => dest.whole)
    /\ Open => /\ journal.phase \in Phases
               /\ journal.new.new /\ journal.new.whole
               /\ ~journal.old.new /\ (journal.old # NoApp => journal.old.whole)
               /\ Before \/ After \/ Cleaning

(* A manifest names a generation, an authoritative or pending one never    *)
(* that of a replaced app; the rollback generation is there.               *)
PointersKnow ==
    /\ \A p \in {staged, pending} :
          p # NoPtr => p.id \in Ids /\ p.ver \in Versions /\ dirs[p.id].kind # "previous"
    /\ staged.id = pending.id => staged = pending
    /\ rollback # NoPtr =>
          rollback.id \in Ids /\ dirs[rollback.id] = [kind |-> "previous", ver |-> rollback.ver, sound |-> TRUE]
    /\ staged # NoPtr => Present(staged) \/ staged.ver \in rejected

OpKnows ==
    /\ op.kind = "idle" \/ op.pc = "idle" => op = Idle
    /\ op.committed <=> \/ op.pc \in {"tail", "publish", "retire"}
                        \/ op.pc \in Removals /\ op.next = "cleanup"
    /\ op.pc \in Removals => op.next \in {"abandon", "finish", "rollback", "cleanup"}
    /\ op.pc = "delete" => op.next \in {"idle", "tidy", "download"}
    /\ op.pc \in Rejecting => op.next \in {"idle", "compare"}

(* A check: its release, and the manifest it rejects.                      *)
CheckKnows ==
    /\ op.kind = "check" \/ op.pc \in CheckPcs => op.rel \in Versions
    /\ op.next \in {"compare", "download"} => op.rel \in Versions
    /\ op.pc \in {"assess", "promote"} => pending # NoPtr
    /\ op.pc = "promote" => Present(pending)
    /\ op.pc \in Rejecting => op.which # "none" /\ Named # NoPtr
    /\ op.pc \in {"move", "forget"} => Named.ver \in rejected

(* What is deleted is no generation a manifest needs.                      *)
DeletesKnow ==
    /\ op.gen # 0 => dirs[op.gen].kind # "previous"
    /\ op.kind = "restore" \/ op.pc \in Deleting =>
          op.gen = 0 \/ op.gen # staged.id
    /\ op.pc = "point" => op.gen # 0 /\ op.gen # pending.id
    /\ op.pc = "publish" =>
          /\ op.copy # 0 /\ op.copy # rollback.id
          /\ dirs[op.copy] = [kind |-> "previous", ver |-> journal.old.ver, sound |-> TRUE]
    /\ op.pc = "retire" /\ op.copy # 0 => op.copy # rollback.id /\ dirs[op.copy].kind = "previous"

(* Where the two bundles are at each step of an installation.              *)
InstallKnows ==
    /\ op.pc \in {"copy", "prepare"} => ~dest.new
    /\ op.pc = "prepare" => incoming.new /\ incoming.whole
    /\ op.pc \in {"copy", "prepare"} /\ Open => dest = journal.old
    /\ op.pc \in {"activate", "swap"} =>
          journal.phase = "prepared" /\ dest = journal.old /\ incoming = journal.new
    /\ op.pc \in {"mark", "commit", "rollback", "swapBack"} => Open /\ After
    /\ op.pc \in Removals /\ op.next # "cleanup" => Open /\ Before
    /\ op.pc = "unjournal" => incoming = NoApp

CommittedKnows ==
    /\ op.committed => journal.phase = "committed" /\ dest = journal.new /\ Cleaning
    /\ op.pc = "publish" => incoming = journal.old
    /\ op.pc = "retire" \/ (op.pc \in Removals /\ op.next = "cleanup") => journal.old = NoApp \/ Kept

Knows == JournalKnows /\ PointersKnow /\ OpKnows /\ CheckKnows /\ DeletesKnow /\ InstallKnows /\ CommittedKnows
IInv == Types /\ Knows

-----------------------------------------------------------------------------
(* Bundles, pointers and operations.                                       *)

LEMMA Constants ==
  /\ NoApp \in Bundles /\ NoApp.new = FALSE /\ NoJournal \in Journals /\ NoJournal.phase = "none"
  /\ NoPtr \in Pointers /\ NoPtr.id = 0 /\ NoPtr.ver = 0
  /\ NoDir \in Dirs /\ NoDir.kind = "none" /\ NoDir.sound = FALSE
  /\ 0 \in 0 .. MaxDirs /\ Ids \subseteq 0 .. MaxDirs /\ 0 \notin Ids /\ 0 \notin Versions
  /\ Versions \subseteq Builds /\ 0 \in Builds
<1>1. /\ 0 \in 0 .. MaxDirs /\ Ids \subseteq 0 .. MaxDirs /\ 0 \notin Ids /\ 0 \notin Versions
      /\ Versions \subseteq Builds /\ 0 \in Builds
  BY VersionsAssumption, BoundsAssumption DEF Ids, Builds
<1>2. NoApp \in Bundles /\ NoApp.new = FALSE
  BY <1>1 DEF NoApp, Bundles
<1>3. NoJournal \in Journals /\ NoJournal.phase = "none"
  BY <1>2 DEF NoJournal, Journals
<1>4. NoPtr \in Pointers /\ NoPtr.id = 0 /\ NoPtr.ver = 0
  BY <1>1 DEF NoPtr, Pointers
<1>5. NoDir \in Dirs /\ NoDir.kind = "none" /\ NoDir.sound = FALSE
  BY <1>1 DEF NoDir, Dirs
<1>. QED BY <1>1, <1>2, <1>3, <1>4, <1>5

LEMMA IdleTyped ==
  /\ Idle \in Ops /\ Idle.kind = "idle" /\ Idle.pc = "idle" /\ Idle.gen = 0 /\ Idle.copy = 0
  /\ Idle.next = "none" /\ Idle.which = "none" /\ Idle.committed = FALSE /\ Idle.recovering = FALSE
BY Constants DEF Idle, Ops, Pcs, Tails

LEMMA BundleFields ==
  ASSUME NEW b \in Bundles
  PROVE  /\ b.ver \in Builds /\ b.new \in BOOLEAN /\ b.whole \in BOOLEAN
         /\ [b EXCEPT !.whole = FALSE] \in Bundles /\ [b EXCEPT !.whole = FALSE].new = b.new
         /\ [b EXCEPT !.new = FALSE] \in Bundles /\ [b EXCEPT !.new = FALSE].new = FALSE
         /\ [b EXCEPT !.new = FALSE].whole = b.whole
BY DEF Bundles

(* An app that is not there is not marked as the new one.                  *)
LEMMA NoneMarked == [NoApp EXCEPT !.new = FALSE] = NoApp
<1>1. \A b \in Bundles : \A x : b.new = x => [b EXCEPT !.new = x] = b
  BY DEF Bundles
<1>. QED BY <1>1, Constants

LEMMA Typed ==
  ASSUME Types
  PROVE  /\ journal.phase \in {"none"} \cup Phases /\ journal.new \in Bundles /\ journal.old \in Bundles
         /\ \A i \in Ids : /\ dirs[i] \in Dirs /\ dirs[i].kind \in {"none", "staged", "previous"}
                           /\ dirs[i].sound \in BOOLEAN
         /\ \A p \in {staged, pending, rollback} : p.id \in 0 .. MaxDirs /\ p.ver \in Builds
         /\ op.kind \in {"idle", "check", "install", "restore", "recover"} /\ op.pc \in Pcs
         /\ op.gen \in 0 .. MaxDirs /\ op.rel \in Builds /\ op.copy \in 0 .. MaxDirs
         /\ op.which \in {"none", "staged", "pending"} /\ op.next \in Pcs \cup Tails
         /\ op.recovering \in BOOLEAN /\ op.committed \in BOOLEAN
BY DEF Types, Journals, Dirs, Pointers, Ops

LEMMA FaultTyped ==
  ASSUME Types, Fault \/ Well
  PROVE  faults' \in 0 .. MaxFaults
BY BoundsAssumption DEF Types, Fault, Well

(* A new generation takes a name that nothing uses.                        *)
LEMMA FreshFree ==
  ASSUME Free # {}
  PROVE  /\ Fresh \in Ids /\ dirs[Fresh] = NoDir
         /\ Fresh \notin {staged.id, pending.id, rollback.id, op.gen, op.copy}
BY DEF Free, Fresh

LEMMA DeleteTyped ==
  ASSUME Types, NEW i, Delete(i)
  PROVE  /\ dirs' \in [Ids -> Dirs] /\ faults' \in 0 .. MaxFaults
         /\ \A j \in Ids : j # i => dirs'[j] = dirs[j]
         /\ \A j \in Ids : dirs'[j] = dirs[j] \/ dirs'[j] = NoDir
BY Constants, FaultTyped DEF Types, Delete, Well

-----------------------------------------------------------------------------
(* What a step leaves alone.                                               *)

(* A step of the store, which leaves the rollback generation.              *)
LEMMA QuietApp ==
  ASSUME IInv, UNCHANGED <<app, rollback>>, rollback # NoPtr => dirs'[rollback.id] = dirs[rollback.id],
         op'.pc \in Quiet, ~op'.committed
  PROVE  JournalKnows' /\ InstallKnows' /\ CommittedKnows'
<1>1. UNCHANGED <<dest, incoming, journal, rollback>>
  BY DEF app
<1>2. Kept => Kept'
  BY <1>1 DEF Kept, Sound, Present
<1>3. JournalKnows'
  BY <1>1, <1>2 DEF IInv, Knows, JournalKnows, Open, Before, After, Cleaning
<1>4. op'.pc \notin Removals \cup {"copy", "prepare", "activate", "swap", "mark", "commit", "rollback",
                                   "swapBack", "publish", "retire"}
  BY DEF Quiet, CheckPcs, Rejecting, Deleting, Removals
<1>5. InstallKnows'
  BY <1>4 DEF InstallKnows, Removals
<1>6. CommittedKnows'
  BY <1>4 DEF CommittedKnows
<1>. QED BY <1>3, <1>5, <1>6

(* A step of an installation, which leaves the store.                      *)
Same == op'.kind = op.kind /\ op'.gen = op.gen /\ op'.rel = op.rel
LEMMA QuietStore ==
  ASSUME IInv, UNCHANGED store,
         \/ op' = Idle
         \/ /\ Same /\ op'.pc \in Installing /\ op'.next \in {op.next} \cup Tails
            /\ op'.pc = "dispose" => op.kind = "restore"
  PROVE  PointersKnow' /\ CheckKnows' /\ DeletesKnow'
<1>1. UNCHANGED <<dirs, staged, pending, rollback, rejected>>
  BY DEF store, manifests
<1>2. PointersKnow'
  BY <1>1 DEF IInv, Knows, PointersKnow, Present
<1>3. op'.pc \notin CheckPcs \cup Rejecting \cup (Deleting \ {"dispose"}) \cup {"publish", "retire"}
  BY IdleTyped DEF Installing, CheckPcs, Rejecting, Deleting, Removals
<1>4. CheckKnows'
  <2>1. CASE op' = Idle
    BY <1>3, <2>1, IdleTyped DEF CheckKnows, CheckPcs, Rejecting
  <2>2. CASE op' # Idle
    BY <1>3, <2>2 DEF IInv, Knows, CheckKnows, CheckPcs, Rejecting, Same, Tails
  <2>. QED BY <2>1, <2>2
<1>5. DeletesKnow'
  <2>1. CASE op' = Idle
    BY <1>3, <2>1, IdleTyped DEF DeletesKnow, Deleting
  <2>2. CASE op' # Idle
    BY <1>1, <1>3, <2>2 DEF IInv, Knows, DeletesKnow, Deleting, Same
  <2>. QED BY <2>1, <2>2
<1>. QED BY <1>2, <1>4, <1>5

(* A step of the world that touches neither operation nor bundles.         *)
LEMMA Aside ==
  ASSUME IInv, UNCHANGED <<app, store, op>>
  PROVE  Knows'
<1>1. UNCHANGED <<dest, incoming, journal, dirs, staged, pending, rollback, rejected, op>>
  BY DEF app, store, manifests
<1>2. Kept' = Kept /\ Named' = Named
  BY <1>1 DEF Kept, Sound, Present, Named
<1>3. JournalKnows' /\ PointersKnow' /\ OpKnows' /\ CommittedKnows'
  BY <1>1, <1>2 DEF IInv, Knows, JournalKnows, PointersKnow, OpKnows, CommittedKnows, Open, Before, After,
     Cleaning, Present
<1>4. CheckKnows' /\ DeletesKnow' /\ InstallKnows'
  BY <1>1, <1>2 DEF IInv, Knows, CheckKnows, DeletesKnow, InstallKnows, Open, Before, After, Present
<1>. QED BY <1>3, <1>4 DEF Knows

-----------------------------------------------------------------------------
(* The start, and the world around.                                        *)

LEMMA InitIInv == Init => IInv
<1>. SUFFICES ASSUME Init PROVE IInv
  OBVIOUS
<1>1. /\ incoming = NoApp /\ journal = NoJournal /\ staged = NoPtr /\ pending = NoPtr /\ rollback = NoPtr
      /\ rejected = {} /\ op = Idle /\ running = FALSE /\ launches = 0 /\ faults = 0 /\ latest \in Versions
      /\ dirs = [i \in Ids |-> NoDir]
  BY DEF Init
<1>2. dest \in Bundles /\ ~dest.new /\ (dest # NoApp => dest.whole)
  <2>1. CASE dest = NoApp
    BY <2>1, Constants
  <2>2. CASE dest = [ver |-> latest, new |-> FALSE, whole |-> TRUE]
    BY <1>1, <2>2, Constants DEF Bundles
  <2>. QED BY <2>1, <2>2 DEF Init
<1>3. launches \in 0 .. MaxLaunches /\ faults \in 0 .. MaxFaults
  BY <1>1, BoundsAssumption
<1>4. Types
  <2>1. dirs \in [Ids -> Dirs]
    BY <1>1, Constants
  <2>. QED BY <1>1, <1>2, <1>3, <2>1, Constants, IdleTyped DEF Types
<1>5. JournalKnows /\ PointersKnow
  BY <1>1, <1>2 DEF JournalKnows, PointersKnow, Open
<1>6. OpKnows /\ CheckKnows /\ DeletesKnow /\ InstallKnows /\ CommittedKnows
  BY <1>1, IdleTyped DEF OpKnows, CheckKnows, DeletesKnow, InstallKnows, CommittedKnows,
     CheckPcs, Rejecting, Deleting, Removals
<1>. QED BY <1>4, <1>5, <1>6 DEF IInv, Knows

LEMMA IdleKnows ==
  ASSUME op' = Idle
  PROVE  OpKnows' /\ CheckKnows' /\ DeletesKnow' /\ InstallKnows' /\ CommittedKnows' /\ op' \in Ops
BY IdleTyped DEF OpKnows, CheckKnows, DeletesKnow, InstallKnows, CommittedKnows, CheckPcs, Rejecting,
   Deleting, Removals

LEMMA DesktopSteps ==
  ASSUME IInv, Launch \/ Quit \/ Release
  PROVE  IInv'
<1>1. UNCHANGED <<app, store, op>>
  BY DEF Launch, Quit, Release
<1>2. faults' = faults /\ running' \in BOOLEAN /\ latest' \in Versions /\ launches' \in 0 .. MaxLaunches
  <2>1. CASE Launch
    BY <2>1, BoundsAssumption DEF IInv, Types, Launch
  <2>2. CASE Quit
    BY <2>2 DEF IInv, Types, Quit
  <2>3. CASE Release
    BY <2>3 DEF IInv, Types, Release
  <2>. QED BY <2>1, <2>2, <2>3
<1>3. Types'
  BY <1>1, <1>2 DEF IInv, Types, app, store, manifests
<1>. QED BY <1>1, <1>3, Aside DEF IInv

LEMMA SpoilSteps == ASSUME IInv, Spoil PROVE IInv'
<1>1. PICK i \in Ids : /\ dirs[i].kind = "staged" /\ Fault
                       /\ dirs' = [dirs EXCEPT ![i].sound = FALSE]
                       /\ UNCHANGED <<app, manifests, rejected, op, desktop>>
  BY DEF Spoil
<1>2. /\ UNCHANGED <<dest, incoming, journal, staged, pending, rollback, rejected, op>>
      /\ UNCHANGED <<running, launches, latest>>
  BY <1>1 DEF app, manifests, desktop
<1>3. /\ dirs' \in [Ids -> Dirs] /\ dirs'[i].kind = "staged" /\ dirs'[i] # NoDir /\ dirs[i] # NoDir
      /\ \A j \in Ids \ {i} : dirs'[j] = dirs[j]
  <2>1. dirs[i] \in Dirs /\ dirs \in [Ids -> Dirs]
    BY Typed DEF IInv, Types
  <2>2. [dirs[i] EXCEPT !.sound = FALSE] \in Dirs /\ [dirs[i] EXCEPT !.sound = FALSE].kind = "staged"
    BY <1>1, <2>1 DEF Dirs
  <2>3. dirs'[i] = [dirs[i] EXCEPT !.sound = FALSE]
    BY <1>1, <2>1
  <2>4. dirs' \in [Ids -> Dirs] /\ \A j \in Ids \ {i} : dirs'[j] = dirs[j]
    BY <1>1, <2>1, <2>2
  <2>. QED BY <1>1, <2>2, <2>3, <2>4, Constants
<1>4. Types'
  BY <1>1, <1>2, <1>3, FaultTyped DEF IInv, Types
<1>5. /\ rollback # NoPtr => rollback.id \in Ids \ {i}
      /\ \A p \in {staged, pending} : p # NoPtr => p.id \in Ids
  BY <1>1 DEF IInv, Knows, PointersKnow
<1>6. (Kept => Kept') /\ (Present(staged) => Present(staged)') /\ (Present(pending) => Present(pending)')
  BY <1>2, <1>3, <1>5 DEF Kept, Sound, Present
<1>7. Named' = Named
  BY <1>2 DEF Named
<1>8. JournalKnows' /\ InstallKnows' /\ CommittedKnows'
  BY <1>2, <1>6 DEF IInv, Knows, JournalKnows, InstallKnows, CommittedKnows, Open, Before, After, Cleaning
<1>9. PointersKnow'
  BY <1>1, <1>2, <1>3, <1>5, <1>6 DEF IInv, Knows, PointersKnow
<1>10. OpKnows' /\ CheckKnows'
  BY <1>2, <1>6, <1>7 DEF IInv, Knows, OpKnows, CheckKnows
<1>11. DeletesKnow'
  <2>1. \A j \in Ids : dirs[j].kind = "previous" => dirs'[j] = dirs[j]
    BY <1>1, <1>3
  <2>2. \A j \in Ids : dirs[j].kind # "previous" => dirs'[j].kind # "previous"
    BY <1>1, <1>3
  <2>3. op.gen # 0 => op.gen \in Ids
    BY Typed DEF IInv, Ids
  <2>4. op.copy # 0 => op.copy \in Ids
    BY Typed DEF IInv, Ids
  <2>. QED BY <1>2, <2>1, <2>2, <2>3, <2>4 DEF IInv, Knows, DeletesKnow
<1>. QED BY <1>4, <1>8, <1>9, <1>10, <1>11 DEF IInv, Knows

LEMMA RetainSteps == ASSUME IInv, Retain PROVE IInv'
<1>1. /\ op = Idle /\ op' = Idle /\ UNCHANGED <<app, manifests, rejected, desktop, faults>>
      /\ dirs' = [i \in Ids |-> IF Unprotected(i) THEN NoDir ELSE dirs[i]]
  BY DEF Retain, IInv, Knows, OpKnows
<1>2. UNCHANGED <<dest, incoming, journal, staged, pending, rollback, running, launches, latest>>
  BY <1>1 DEF app, manifests, desktop
<1>3. dirs' \in [Ids -> Dirs]
  BY <1>1, Constants DEF IInv, Types
<1>4. Types'
  BY <1>1, <1>2, <1>3 DEF IInv, Types
<1>5. rollback # NoPtr => dirs'[rollback.id] = dirs[rollback.id]
  BY <1>1 DEF IInv, Knows, PointersKnow, Unprotected
<1>6. staged # NoPtr => dirs'[staged.id] = dirs[staged.id]
  BY <1>1 DEF IInv, Knows, PointersKnow, Unprotected
<1>7. pending # NoPtr => dirs'[pending.id].kind # "previous"
  BY <1>1, Constants DEF IInv, Knows, PointersKnow
<1>8. PointersKnow'
  BY <1>1, <1>2, <1>5, <1>6, <1>7 DEF IInv, Knows, PointersKnow, Present
<1>9. JournalKnows'
  BY <1>1, <1>5, QuietApp, IdleTyped DEF Quiet, manifests
<1>. QED BY <1>1, <1>4, <1>8, <1>9, IdleKnows DEF IInv, Knows

LEMMA CrashSteps == ASSUME IInv, Crash PROVE IInv'
<1>1. /\ op' = Idle /\ Fault /\ UNCHANGED <<dest, journal, store, desktop>>
      /\ incoming' = IF op.pc = "prepare" THEN NoApp ELSE incoming
  BY DEF Crash
<1>2. UNCHANGED <<dest, journal, dirs, staged, pending, rollback, rejected, running, launches, latest>>
  BY <1>1 DEF store, manifests, desktop
<1>3. incoming' \in Bundles
  BY <1>1, Constants DEF IInv, Types
<1>4. Types'
  BY <1>1, <1>2, <1>3, FaultTyped, IdleTyped DEF IInv, Types
<1>5. JournalKnows'
  <2>1. Kept' = Kept
    BY <1>2 DEF Kept, Sound, Present
  <2>2. CASE op.pc = "prepare"
    BY <1>1, <1>2, <2>1, <2>2 DEF IInv, Knows, JournalKnows, InstallKnows, Open, Before
  <2>3. CASE op.pc # "prepare"
    BY <1>1, <1>2, <2>1, <2>3 DEF IInv, Knows, JournalKnows, Open, Before, After, Cleaning
  <2>. QED BY <2>2, <2>3
<1>6. PointersKnow'
  BY <1>1, QuietStore
<1>. QED BY <1>1, <1>4, <1>5, <1>6, IdleKnows DEF IInv, Knows

-----------------------------------------------------------------------------
(* The check.                                                              *)

LEMMA StoreStep ==
  ASSUME IInv, UNCHANGED <<app, desktop, rollback>>,
         rollback # NoPtr => dirs'[rollback.id] = dirs[rollback.id],
         dirs' \in [Ids -> Dirs], staged' \in Pointers, pending' \in Pointers, rejected' \subseteq Versions,
         op' \in Ops, faults' \in 0 .. MaxFaults, op'.pc \in Quiet, ~op'.committed,
         PointersKnow', OpKnows', CheckKnows', DeletesKnow'
  PROVE  IInv'
<1>1. Types'
  BY DEF IInv, Types, app, desktop
<1>. QED BY <1>1, QuietApp DEF IInv, Knows

(* The operations a begin and a check write, field by field.               *)
LEMMA Edits ==
  ASSUME NEW o \in Ops, NEW p \in Pcs
  PROVE  /\ LET q == [o EXCEPT !.pc = p]
            IN  /\ q \in Ops /\ q.kind = o.kind /\ q.pc = p /\ q.gen = o.gen /\ q.rel = o.rel
                /\ q.which = o.which /\ q.next = o.next /\ q.copy = o.copy
                /\ q.recovering = o.recovering /\ q.committed = o.committed
         /\ \A n \in Pcs \cup Tails :
              LET q == [o EXCEPT !.pc = p, !.next = n]
              IN  /\ q \in Ops /\ q.kind = o.kind /\ q.pc = p /\ q.gen = o.gen /\ q.rel = o.rel
                  /\ q.which = o.which /\ q.next = n /\ q.copy = o.copy
                  /\ q.recovering = o.recovering /\ q.committed = o.committed
         /\ \A g \in 0 .. MaxDirs :
              LET q == [o EXCEPT !.pc = p, !.gen = g]
              IN  /\ q \in Ops /\ q.kind = o.kind /\ q.pc = p /\ q.gen = g /\ q.rel = o.rel
                  /\ q.which = o.which /\ q.next = o.next /\ q.copy = o.copy
                  /\ q.recovering = o.recovering /\ q.committed = o.committed
         /\ \A g \in 0 .. MaxDirs, n \in Pcs \cup Tails :
              LET q == [o EXCEPT !.pc = p, !.gen = g, !.next = n]
              IN  /\ q \in Ops /\ q.kind = o.kind /\ q.pc = p /\ q.gen = g /\ q.rel = o.rel
                  /\ q.which = o.which /\ q.next = n /\ q.copy = o.copy
                  /\ q.recovering = o.recovering /\ q.committed = o.committed
         /\ \A w \in {"none", "staged", "pending"}, n \in Pcs \cup Tails :
              LET q == [o EXCEPT !.pc = p, !.which = w, !.next = n]
              IN  /\ q \in Ops /\ q.kind = o.kind /\ q.pc = p /\ q.gen = o.gen /\ q.rel = o.rel
                  /\ q.which = w /\ q.next = n /\ q.copy = o.copy
                  /\ q.recovering = o.recovering /\ q.committed = o.committed
BY DEF Ops

(* The pointers of a store whose manifests stay and whose generations lose *)
(* the one an operation deletes.                                           *)
LEMMA Deleted ==
  ASSUME IInv, Delete(op.gen), op.gen = 0 \/ op.gen # staged.id, UNCHANGED <<manifests, rejected>>
  PROVE  /\ PointersKnow' /\ dirs' \in [Ids -> Dirs] /\ faults' \in 0 .. MaxFaults
         /\ rollback # NoPtr => dirs'[rollback.id] = dirs[rollback.id]
         /\ UNCHANGED <<staged, pending, rollback>>
<1>1. /\ dirs' \in [Ids -> Dirs] /\ faults' \in 0 .. MaxFaults
      /\ \A j \in Ids : j # op.gen => dirs'[j] = dirs[j]
      /\ \A j \in Ids : dirs'[j] = dirs[j] \/ dirs'[j] = NoDir
  BY DeleteTyped DEF IInv
<1>2. UNCHANGED <<staged, pending, rollback>>
  BY DEF manifests
<1>3. rollback # NoPtr => rollback.id \in Ids /\ rollback.id # op.gen
  <2>1. rollback # NoPtr => rollback.id \in Ids /\ dirs[rollback.id].kind = "previous" /\ rollback.id # 0
    BY Constants DEF IInv, Knows, PointersKnow
  <2>. QED BY <2>1 DEF IInv, Knows, DeletesKnow
<1>4. rollback # NoPtr => dirs'[rollback.id] = dirs[rollback.id]
  BY <1>1, <1>3
<1>5. staged # NoPtr => staged.id \in Ids /\ staged.id # op.gen
  BY Constants DEF IInv, Knows, PointersKnow
<1>6. \A p \in {staged, pending} : p # NoPtr => p.id \in Ids /\ p.ver \in Versions /\ dirs'[p.id].kind # "previous"
  BY <1>1, Constants DEF IInv, Knows, PointersKnow
<1>7. staged # NoPtr => (Present(staged) => Present(staged)')
  BY <1>1, <1>2, <1>5 DEF Present
<1>8. PointersKnow'
  BY <1>2, <1>3, <1>4, <1>6, <1>7 DEF IInv, Knows, PointersKnow
<1>. QED BY <1>1, <1>2, <1>4, <1>8

(* A new generation disturbs nothing.                                      *)
LEMMA Added ==
  ASSUME IInv, Free # {}, NEW d \in Dirs, d # NoDir, dirs' = [dirs EXCEPT ![Fresh] = d],
         UNCHANGED <<manifests, rejected>>
  PROVE  /\ PointersKnow' /\ dirs' \in [Ids -> Dirs] /\ dirs'[Fresh] = d
         /\ Fresh \in Ids /\ Fresh \notin {staged.id, pending.id, rollback.id, op.gen, op.copy}
         /\ \A j \in Ids \ {Fresh} : dirs'[j] = dirs[j]
         /\ rollback # NoPtr => dirs'[rollback.id] = dirs[rollback.id]
         /\ op.gen # 0 => dirs'[op.gen].kind # "previous"
<1>1. /\ Fresh \in Ids /\ dirs[Fresh] = NoDir
      /\ Fresh \notin {staged.id, pending.id, rollback.id, op.gen, op.copy}
  BY FreshFree
<1>2. dirs \in [Ids -> Dirs]
  BY DEF IInv, Types
<1>3. /\ dirs' \in [Ids -> Dirs] /\ dirs'[Fresh] = d
      /\ \A j \in Ids \ {Fresh} : dirs'[j] = dirs[j]
  BY <1>1, <1>2
<1>4. UNCHANGED <<staged, pending, rollback>>
  BY DEF manifests
<1>5. /\ rollback # NoPtr => dirs'[rollback.id] = dirs[rollback.id]
      /\ staged # NoPtr => dirs'[staged.id] = dirs[staged.id]
      /\ pending # NoPtr => dirs'[pending.id] = dirs[pending.id]
  BY <1>1, <1>3 DEF IInv, Knows, PointersKnow
<1>6. PointersKnow'
  BY <1>4, <1>5 DEF IInv, Knows, PointersKnow, Present
<1>7. op.gen # 0 => dirs'[op.gen].kind # "previous"
  <2>1. op.gen # 0 => op.gen \in Ids \ {Fresh}
    BY <1>1, Typed DEF IInv, Ids
  <2>. QED BY <1>3, <2>1 DEF IInv, Knows, DeletesKnow
<1>. QED BY <1>1, <1>3, <1>5, <1>6, <1>7

LEMMA BeginCheckSteps == ASSUME IInv, BeginCheck PROVE IInv'
<1>. DEFINE wanted == staged # NoPtr /\ Newer(staged.ver) /\ staged.ver >= latest
            check == [Idle EXCEPT !.rel = latest]
<1>1. UNCHANGED <<app, store, desktop, faults>>
  BY DEF BeginCheck
<1>2. UNCHANGED <<dirs, manifests, staged, pending, rollback, rejected>>
  BY <1>1 DEF store, manifests
<1>3. PointersKnow'
  BY <1>2 DEF IInv, Knows, PointersKnow, Present
<1>4. latest \in Versions /\ Types
  BY DEF IInv, Types
<1>5. CASE op' = Idle
  BY <1>1, <1>2, <1>3, <1>4, <1>5, IdleKnows, IdleTyped, StoreStep DEF Types, Quiet
<1>6. CASE op' = [[check EXCEPT !.which = "staged", !.next = "compare"] EXCEPT !.kind = "check", !.pc = "reject"]
           /\ staged # NoPtr
  <2>1. /\ op' \in Ops /\ op'.kind = "check" /\ op'.pc = "reject" /\ op'.rel = latest /\ op'.which = "staged"
        /\ op'.next = "compare" /\ op'.gen = 0 /\ op'.copy = 0 /\ ~op'.committed
    BY <1>4, <1>6, Constants, IdleTyped DEF Idle, Ops, Pcs, Tails
  <2>2. OpKnows' /\ CheckKnows' /\ DeletesKnow'
    BY <1>2, <1>4, <1>6, <2>1 DEF OpKnows, CheckKnows, DeletesKnow, Named, CheckPcs, Rejecting, Deleting, Removals
  <2>. QED BY <1>1, <1>2, <1>3, <1>4, <2>1, <2>2, StoreStep DEF Types, Quiet, Rejecting
<1>7. CASE op' = [check EXCEPT !.kind = "check", !.pc = "compare"]
  <2>1. /\ op' \in Ops /\ op'.kind = "check" /\ op'.pc = "compare" /\ op'.rel = latest
        /\ op'.next = "none" /\ op'.gen = 0 /\ op'.copy = 0 /\ ~op'.committed
    BY <1>4, <1>7, Constants, IdleTyped DEF Idle, Ops, Pcs, Tails
  <2>2. OpKnows' /\ CheckKnows' /\ DeletesKnow'
    BY <1>2, <1>4, <2>1 DEF OpKnows, CheckKnows, DeletesKnow, CheckPcs, Rejecting, Deleting, Removals
  <2>. QED BY <1>1, <1>2, <1>3, <1>4, <2>1, <2>2, StoreStep DEF Types, Quiet, CheckPcs
<1>. QED BY <1>5, <1>6, <1>7 DEF BeginCheck, Begin, End

LEMMA RejectSteps == ASSUME IInv, Reject PROVE IInv'
<1>1. /\ op.pc = "reject" /\ UNCHANGED <<app, dirs, manifests, desktop>> /\ op \in Ops
      /\ UNCHANGED <<staged, pending, rollback>>
  BY DEF Reject, At, IInv, Types, manifests
<1>2. op.which # "none" /\ Named # NoPtr /\ op.next \in {"idle", "compare"} /\ ~op.committed
  BY <1>1 DEF IInv, Knows, CheckKnows, OpKnows, Rejecting, Removals
<1>3. Named \in {staged, pending} /\ Named.ver \in Versions
  BY <1>2 DEF Named, IInv, Knows, PointersKnow
<1>4. rejected \subseteq rejected' /\ rejected' \subseteq Versions /\ faults' \in 0 .. MaxFaults
  BY <1>3, FaultTyped DEF Reject, IInv, Types
<1>5. PointersKnow'
  BY <1>1, <1>4 DEF IInv, Knows, PointersKnow, Present
<1>6. CASE Goto("move") /\ rejected' = rejected \cup {Named.ver}
  <2>1. /\ op' \in Ops /\ op'.kind = op.kind /\ op'.pc = "move" /\ op'.gen = op.gen /\ op'.rel = op.rel
        /\ op'.which = op.which /\ op'.next = op.next /\ op'.copy = op.copy /\ op'.committed = op.committed
    BY <1>1, <1>6 DEF Goto, Ops, Pcs
  <2>2. Named' = Named /\ Named'.ver \in rejected'
    BY <1>1, <1>6, <2>1 DEF Named
  <2>3. OpKnows'
    BY <1>1, <1>2, <2>1, IdleTyped DEF IInv, Knows, OpKnows, Removals, Rejecting
  <2>4. CheckKnows' /\ DeletesKnow'
    BY <1>1, <1>2, <2>1, <2>2 DEF IInv, Knows, CheckKnows, DeletesKnow, CheckPcs, Rejecting, Deleting
  <2>. QED BY <1>1, <1>2, <1>4, <1>5, <2>1, <2>3, <2>4, StoreStep DEF IInv, Types, Quiet, Rejecting
<1>7. CASE op' = Idle
  BY <1>1, <1>4, <1>5, <1>7, IdleKnows, IdleTyped, StoreStep DEF IInv, Types, Quiet
<1>. QED BY <1>6, <1>7 DEF Reject, End

LEMMA QuarantineSteps == ASSUME IInv, Quarantine PROVE IInv'
<1>1. /\ op.pc = "move" /\ UNCHANGED <<app, manifests, rejected, desktop, faults>> /\ op \in Ops /\ Types
      /\ UNCHANGED <<staged, pending, rollback>>
  BY DEF Quarantine, At, IInv, Types, manifests
<1>2. op.which # "none" /\ Named # NoPtr /\ op.next \in {"idle", "compare"} /\ ~op.committed /\ Named.ver \in rejected
  BY <1>1 DEF IInv, Knows, CheckKnows, OpKnows, Rejecting, Removals
<1>3. /\ op' \in Ops /\ op'.kind = op.kind /\ op'.pc = "forget" /\ op'.gen = op.gen /\ op'.rel = op.rel
      /\ op'.which = op.which /\ op'.next = op.next /\ op'.copy = op.copy /\ op'.committed = op.committed
  BY <1>1 DEF Quarantine, Goto, Ops, Pcs
<1>4. /\ dirs' \in [Ids -> Dirs]
      /\ \A j \in Ids : dirs'[j] = dirs[j] \/ (dirs'[j] = NoDir /\ j = Named.id)
      /\ op.which = "pending" /\ staged = pending => dirs' = dirs
  BY <1>1, Constants DEF Quarantine, Types
<1>5. Named \in {staged, pending} /\ Named.id \in Ids /\ dirs[Named.id].kind # "previous"
  BY <1>2 DEF Named, IInv, Knows, PointersKnow
<1>6. rollback # NoPtr => dirs'[rollback.id] = dirs[rollback.id]
  BY <1>4, <1>5 DEF IInv, Knows, PointersKnow
<1>7. Present(staged) => dirs'[staged.id] = dirs[staged.id] \/ staged.ver \in rejected
  <2>1. CASE op.which = "staged"
    BY <1>2, <2>1 DEF Named
  <2>2. CASE op.which # "staged"
    BY <1>2, <1>4, <2>2, Typed, <1>1 DEF Named, IInv, Knows, PointersKnow, Present
  <2>. QED BY <2>1, <2>2
<1>8. PointersKnow'
  BY <1>1, <1>4, <1>6, <1>7, Constants DEF IInv, Knows, PointersKnow, Present
<1>9. OpKnows'
  BY <1>1, <1>2, <1>3, IdleTyped DEF IInv, Knows, OpKnows, Removals, Rejecting
<1>10. Named' = Named
  BY <1>1, <1>3 DEF Named
<1>11. CheckKnows'
  BY <1>1, <1>2, <1>3, <1>10 DEF IInv, Knows, CheckKnows, CheckPcs, Rejecting
<1>12. DeletesKnow'
  <2>1. op.gen # 0 => op.gen \in Ids /\ dirs'[op.gen].kind # "previous"
    BY <1>1, <1>4, Typed, Constants DEF IInv, Knows, DeletesKnow, Ids
  <2>. QED BY <1>1, <1>3, <2>1 DEF IInv, Knows, DeletesKnow, Deleting
<1>. QED BY <1>1, <1>2, <1>3, <1>4, <1>6, <1>8, <1>9, <1>11, <1>12, StoreStep DEF Types, Quiet, Rejecting

LEMMA ForgetSteps == ASSUME IInv, Forget PROVE IInv'
<1>1. /\ op.pc = "forget" /\ UNCHANGED <<app, dirs, rollback, rejected, desktop, faults>> /\ op \in Ops /\ Types
      /\ staged' \in {staged, NoPtr} /\ pending' \in {pending, NoPtr}
  BY DEF Forget, At, IInv, Types, Unname
<1>2. op.next \in {"idle", "compare"} /\ ~op.committed
  BY <1>1 DEF IInv, Knows, OpKnows, Rejecting, Removals
<1>3. staged' \in Pointers /\ pending' \in Pointers
  BY <1>1, Constants DEF Types
<1>4. /\ staged # NoPtr => staged.id \in Ids
      /\ pending # NoPtr => pending.id \in Ids
  BY DEF IInv, Knows, PointersKnow
<1>5. staged'.id = pending'.id => staged' = pending'
  BY <1>1, <1>4, Constants DEF IInv, Knows, PointersKnow
<1>6. PointersKnow'
  BY <1>1, <1>5 DEF IInv, Knows, PointersKnow, Present
<1>7. CASE op.next = "idle"
  <2>1. op' = Idle
    BY <1>7 DEF Forget, Resume
  <2>. QED BY <1>1, <1>3, <1>6, <2>1, IdleKnows, IdleTyped, StoreStep DEF Types, Quiet
<1>8. CASE op.next = "compare"
  <2>1. op' = [[op EXCEPT !.which = "none"] EXCEPT !.pc = "compare", !.next = "none"]
    BY <1>8 DEF Forget, Resume
  <2>2. /\ op' \in Ops /\ op'.kind = op.kind /\ op'.pc = "compare" /\ op'.gen = op.gen /\ op'.rel = op.rel
        /\ op'.next = "none" /\ op'.copy = op.copy /\ op'.committed = op.committed
    BY <1>1, <2>1 DEF Ops, Pcs, Tails
  <2>3. op.rel \in Versions
    BY <1>8 DEF IInv, Knows, CheckKnows
  <2>4. OpKnows'
    BY <1>1, <1>2, <2>2, IdleTyped DEF IInv, Knows, OpKnows, Removals, Rejecting
  <2>5. op.kind = "restore" => op.gen = 0 \/ op.gen # staged'.id
    BY <1>1, Constants DEF IInv, Knows, DeletesKnow
  <2>6. CheckKnows' /\ DeletesKnow'
    BY <1>1, <2>2, <2>3, <2>5 DEF IInv, Knows, CheckKnows, DeletesKnow, CheckPcs, Rejecting, Deleting
  <2>. QED BY <1>1, <1>2, <1>3, <1>6, <2>2, <2>4, <2>6, StoreStep DEF Types, Quiet, CheckPcs
<1>. QED BY <1>2, <1>7, <1>8

(* A step of a check that leaves generations and rejections alone.         *)
LEMMA ManifestStep ==
  ASSUME IInv, UNCHANGED <<app, dirs, rollback, rejected, desktop>>,
         staged' \in {staged, NoPtr}, pending' \in {pending, NoPtr}, faults' \in 0 .. MaxFaults,
         op' \in Ops, op'.pc \in Quiet, ~op'.committed, OpKnows', CheckKnows', DeletesKnow'
  PROVE  IInv'
<1>1. staged' \in Pointers /\ pending' \in Pointers /\ rejected' \subseteq Versions /\ dirs' \in [Ids -> Dirs]
  BY Constants DEF IInv, Types
<1>2. /\ staged # NoPtr => staged.id \in Ids
      /\ pending # NoPtr => pending.id \in Ids
  BY DEF IInv, Knows, PointersKnow
<1>3. staged'.id = pending'.id => staged' = pending'
  BY <1>2, Constants DEF IInv, Knows, PointersKnow
<1>4. PointersKnow'
  BY <1>3 DEF IInv, Knows, PointersKnow, Present
<1>. QED BY <1>1, <1>4, StoreStep

LEMMA QuietEnds ==
  ASSUME IInv, UNCHANGED <<app, dirs, rollback, rejected, desktop>>,
         staged' \in {staged, NoPtr}, pending' \in {pending, NoPtr}, faults' \in 0 .. MaxFaults, op' = Idle
  PROVE  IInv'
BY IdleKnows, IdleTyped, ManifestStep DEF Quiet

(* A removal of a manifest, and what it then deletes.                      *)
LEMMA Discards ==
  ASSUME IInv, NEW n \in {"idle", "tidy", "download"}, DiscardStaged(n) \/ DiscardPending(n),
         n = "download" => op.rel \in Versions, op.kind # "idle", ~op.committed,
         UNCHANGED <<app, dirs, rejected, desktop, faults>>
  PROVE  IInv'
<1>1. /\ staged \in Pointers /\ pending \in Pointers /\ op \in Ops /\ faults' \in 0 .. MaxFaults
      /\ staged.id \in 0 .. MaxDirs /\ pending.id \in 0 .. MaxDirs /\ rollback' = rollback
      /\ staged' \in {staged, NoPtr} /\ pending' \in {pending, NoPtr} /\ "delete" \in Pcs /\ n \in Pcs
  BY Typed DEF IInv, Types, DiscardStaged, DiscardPending, Pcs
<1>2. PICK g \in 0 .. MaxDirs :
        /\ op' = [op EXCEPT !.pc = "delete", !.gen = g, !.next = n]
        /\ \/ staged' = NoPtr /\ g = staged.id
           \/ staged' = staged /\ g = IF staged = pending THEN 0 ELSE pending.id
  BY <1>1, Constants DEF DiscardStaged, DiscardPending
<1>3. /\ op' \in Ops /\ op'.kind = op.kind /\ op'.pc = "delete" /\ op'.gen = g /\ op'.rel = op.rel
      /\ op'.next = n /\ op'.committed = op.committed
  BY <1>1, <1>2 DEF Ops
<1>4. g # 0 => dirs[g].kind # "previous"
  BY <1>2, Constants DEF IInv, Knows, PointersKnow
<1>5. g = 0 \/ g # staged'.id
  BY <1>2, Constants DEF IInv, Knows, PointersKnow
<1>6. OpKnows'
  BY <1>3 DEF OpKnows, Removals, Rejecting
<1>7. CheckKnows' /\ DeletesKnow'
  BY <1>3, <1>4, <1>5 DEF IInv, Knows, CheckKnows, DeletesKnow, CheckPcs, Rejecting, Deleting
<1>. QED BY <1>1, <1>3, <1>6, <1>7, ManifestStep DEF Quiet, Deleting

(* A step of a check to its next one.                                      *)
LEMMA Goes ==
  ASSUME IInv, NEW p \in {"compare", "assess", "promote", "tidy", "download", "supersede"}, Goto(p),
         op.pc \in Quiet \ {"idle"}, UNCHANGED <<app, dirs, rollback, rejected, desktop, staged>>,
         pending' \in {pending, NoPtr}, faults' \in 0 .. MaxFaults,
         p \in CheckPcs => op.rel \in Versions, p \in {"assess", "promote"} => pending' # NoPtr,
         p = "promote" => Present(pending'), p = "supersede" => op.gen = 0 \/ op.gen # staged.id
  PROVE  IInv'
<1>1. op \in Ops /\ p \in Pcs /\ p \in Quiet
  BY DEF IInv, Types, Pcs, Quiet, CheckPcs, Deleting
<1>2. /\ op' \in Ops /\ op'.kind = op.kind /\ op'.pc = p /\ op'.gen = op.gen /\ op'.rel = op.rel
      /\ op'.next = op.next /\ op'.committed = op.committed
  BY <1>1 DEF Goto, Ops
<1>3. ~op.committed /\ op.kind # "idle"
  BY IdleTyped DEF IInv, Knows, OpKnows, Quiet, CheckPcs, Rejecting, Deleting, Removals
<1>4. OpKnows'
  BY <1>2, <1>3 DEF OpKnows, Removals, Rejecting
<1>5. Present(pending') => Present(pending)'
  BY DEF Present
<1>6. CheckKnows'
  BY <1>2, <1>5 DEF IInv, Knows, CheckKnows, CheckPcs, Rejecting
<1>7. DeletesKnow'
  BY <1>2 DEF IInv, Knows, DeletesKnow, Deleting
<1>. QED BY <1>1, <1>2, <1>3, <1>4, <1>6, <1>7, ManifestStep

LEMMA CompareSteps == ASSUME IInv, Compare PROVE IInv'
<1>1. /\ op.pc = "compare" /\ UNCHANGED <<app, dirs, rejected, desktop, faults>> /\ op \in Ops
      /\ faults' \in 0 .. MaxFaults
  BY DEF Compare, At, IInv, Types
<1>2. op.rel \in Versions /\ op.rel # 0 /\ ~op.committed /\ op.kind # "idle" /\ op.pc \in Quiet \ {"idle"}
  BY <1>1, IdleTyped, Constants DEF IInv, Knows, CheckKnows, OpKnows, CheckPcs, Removals, Quiet
<1>3. CASE DiscardPending("download")
  BY <1>1, <1>2, <1>3, Discards
<1>4. CASE UNCHANGED manifests /\ Goto("tidy")
  BY <1>1, <1>2, <1>4, Goes DEF manifests, CheckPcs
<1>5. CASE UNCHANGED manifests /\ Goto("download")
  BY <1>1, <1>2, <1>5, Goes DEF manifests, CheckPcs
<1>6. CASE UNCHANGED manifests /\ Goto("assess") /\ pending.ver = op.rel
  <2>1. pending # NoPtr
    BY <1>2, <1>6, Constants
  <2>. QED BY <1>1, <1>2, <1>6, <2>1, Goes DEF manifests, CheckPcs
<1>7. CASE UNCHANGED manifests /\ op' = Idle
  BY <1>1, <1>7, QuietEnds DEF manifests
<1>8. CASE /\ UNCHANGED manifests /\ pending.ver = op.rel /\ op.rel \in rejected
           /\ op' = [op EXCEPT !.pc = "move", !.which = "pending", !.next = "idle"]
  <2>1. pending # NoPtr /\ "idle" \in Pcs /\ "move" \in Pcs /\ UNCHANGED <<staged, pending, rollback>>
    BY <1>2, <1>8, Constants DEF Pcs, manifests
  <2>2. /\ op' \in Ops /\ op'.kind = op.kind /\ op'.pc = "move" /\ op'.gen = op.gen /\ op'.rel = op.rel
        /\ op'.which = "pending" /\ op'.next = "idle" /\ op'.committed = op.committed
    BY <1>1, <1>8, <2>1 DEF Ops
  <2>3. Named' = pending
    BY <2>1, <2>2 DEF Named
  <2>4. OpKnows' /\ CheckKnows'
    BY <1>1, <1>2, <1>8, <2>1, <2>2, <2>3 DEF OpKnows, CheckKnows, Removals, Rejecting, CheckPcs
  <2>5. DeletesKnow'
    BY <1>1, <2>1, <2>2 DEF IInv, Knows, DeletesKnow, Deleting
  <2>. QED BY <1>1, <1>2, <2>1, <2>2, <2>4, <2>5, ManifestStep DEF Quiet, Rejecting
<1>. QED BY <1>3, <1>4, <1>5, <1>6, <1>7, <1>8 DEF Compare, End

LEMMA TidySteps == ASSUME IInv, Tidy PROVE IInv'
<1>1. /\ op.pc = "tidy" /\ UNCHANGED <<app, dirs, rejected, desktop, faults>> /\ faults' \in 0 .. MaxFaults
  BY DEF Tidy, At, IInv, Types
<1>2. ~op.committed /\ op.kind # "idle"
  BY <1>1, IdleTyped DEF IInv, Knows, OpKnows, Removals
<1>3. CASE DiscardStaged("tidy") \/ DiscardPending("idle")
  BY <1>1, <1>2, <1>3, Discards
<1>4. CASE End /\ UNCHANGED manifests
  BY <1>1, <1>4, QuietEnds DEF End, manifests
<1>. QED BY <1>3, <1>4 DEF Tidy

LEMMA DeleteDirSteps == ASSUME IInv, DeleteDir PROVE IInv'
<1>1. /\ op.pc = "delete" /\ Delete(op.gen) /\ UNCHANGED <<app, manifests, rejected, desktop>>
      /\ op \in Ops /\ Types
  BY DEF DeleteDir, At, IInv, Types
<1>2. /\ op.next \in {"idle", "tidy", "download"} /\ ~op.committed /\ op.kind # "idle"
      /\ op.gen = 0 \/ op.gen # staged.id
  BY <1>1, IdleTyped DEF IInv, Knows, OpKnows, DeletesKnow, Deleting, Removals
<1>3. /\ PointersKnow' /\ dirs' \in [Ids -> Dirs] /\ faults' \in 0 .. MaxFaults
      /\ rollback # NoPtr => dirs'[rollback.id] = dirs[rollback.id]
      /\ UNCHANGED <<staged, pending, rollback>>
  BY <1>1, <1>2, Deleted
<1>4. op' \in Ops /\ op'.pc \in Quiet /\ ~op'.committed /\ OpKnows' /\ CheckKnows' /\ DeletesKnow'
  <2>1. CASE op.next = "idle"
    <3>1. op' = Idle
      BY <2>1 DEF DeleteDir, Resume
    <3>. QED BY <3>1, IdleKnows, IdleTyped DEF Quiet
  <2>2. CASE op.next \in {"tidy", "download"}
    <3>1. op' = [[op EXCEPT !.gen = 0] EXCEPT !.pc = op.next, !.next = "none"]
      BY <2>2, <1>1 DEF DeleteDir, Resume, Ops
    <3>2. /\ op' \in Ops /\ op'.kind = op.kind /\ op'.pc = op.next /\ op'.gen = 0 /\ op'.rel = op.rel
          /\ op'.next = "none" /\ op'.committed = op.committed
      BY <1>1, <2>2, <3>1, Constants DEF Ops, Pcs, Tails
    <3>3. op.kind = "check" \/ op.next = "download" => op.rel \in Versions
      BY DEF IInv, Knows, CheckKnows
    <3>4. OpKnows' /\ CheckKnows' /\ DeletesKnow'
      BY <1>2, <2>2, <3>2, <3>3 DEF OpKnows, CheckKnows, DeletesKnow, CheckPcs, Rejecting, Deleting, Removals
    <3>. QED BY <1>2, <2>2, <3>2, <3>4 DEF Quiet, CheckPcs
  <2>. QED BY <1>2, <2>1, <2>2
<1>. QED BY <1>1, <1>3, <1>4, StoreStep DEF Types

LEMMA DownloadSteps == ASSUME IInv, Download PROVE IInv'
<1>1. /\ op.pc = "download" /\ UNCHANGED <<app, manifests, rejected, desktop>> /\ op \in Ops /\ Types
      /\ UNCHANGED <<staged, pending, rollback>> /\ faults' \in 0 .. MaxFaults
  BY FaultTyped DEF Download, At, IInv, Types, manifests
<1>2. op.rel \in Versions /\ ~op.committed /\ op.kind # "idle"
  BY <1>1, IdleTyped DEF IInv, Knows, CheckKnows, OpKnows, CheckPcs, Removals
<1>3. CASE UNCHANGED dirs /\ op' = Idle
  BY <1>1, <1>3, QuietEnds
<1>4. CASE Downloaded(op.rel) /\ op' = [op EXCEPT !.pc = "point", !.gen = Fresh]
  <2>. DEFINE d == [kind |-> "staged", ver |-> op.rel, sound |-> op.rel \notin Bad]
  <2>1. d \in Dirs /\ d.kind = "staged"
    BY <1>2, Constants DEF Dirs
  <2>2. d # NoDir /\ Free # {} /\ dirs' = [dirs EXCEPT ![Fresh] = d]
    BY <1>4, <2>1, Constants DEF Downloaded
  <2>. HIDE DEF d
  <2>3. /\ PointersKnow' /\ dirs' \in [Ids -> Dirs] /\ dirs'[Fresh] = d
        /\ Fresh \in Ids /\ Fresh \notin {staged.id, pending.id, rollback.id, op.gen, op.copy}
        /\ rollback # NoPtr => dirs'[rollback.id] = dirs[rollback.id]
    BY <1>1, <2>1, <2>2, Added
  <2>4. Fresh \in 0 .. MaxDirs /\ Fresh # 0
    BY <2>3, Constants
  <2>5. /\ op' \in Ops /\ op'.kind = op.kind /\ op'.pc = "point" /\ op'.gen = Fresh /\ op'.rel = op.rel
        /\ op'.next = op.next /\ op'.committed = op.committed
    BY <1>1, <1>4, <2>4 DEF Ops, Pcs
  <2>6. OpKnows' /\ CheckKnows' /\ DeletesKnow'
    BY <1>1, <1>2, <2>1, <2>3, <2>4, <2>5
       DEF OpKnows, CheckKnows, DeletesKnow, CheckPcs, Rejecting, Deleting, Removals
  <2>. QED BY <1>1, <1>2, <2>3, <2>5, <2>6, StoreStep DEF Types, Quiet, CheckPcs
<1>. QED BY <1>3, <1>4 DEF Download, End

LEMMA PointSteps == ASSUME IInv, Point PROVE IInv'
<1>1. /\ op.pc = "point" /\ UNCHANGED <<app, dirs, staged, rollback, rejected, desktop>> /\ op \in Ops /\ Types
      /\ faults' \in 0 .. MaxFaults
  BY FaultTyped DEF Point, At, IInv, Types
<1>2. op.rel \in Versions /\ ~op.committed /\ op.kind # "idle"
  BY <1>1, IdleTyped DEF IInv, Knows, CheckKnows, OpKnows, CheckPcs, Removals
<1>3. op.gen # 0 /\ op.gen # staged.id /\ op.gen \in Ids /\ dirs[op.gen].kind # "previous"
  BY <1>1, Typed DEF IInv, Knows, DeletesKnow, Deleting, Ids
<1>4. CASE pending' = [id |-> op.gen, ver |-> op.rel] /\ Goto("assess")
  <2>1. /\ pending' \in Pointers /\ pending'.id = op.gen /\ pending'.ver = op.rel /\ pending' # NoPtr
        /\ rejected' \subseteq Versions /\ dirs' \in [Ids -> Dirs] /\ staged' \in Pointers
    <3>1. op.gen \in 0 .. MaxDirs /\ op.rel \in Builds
      BY <1>2, <1>3, Constants
    <3>2. pending' \in Pointers /\ pending'.id = op.gen /\ pending'.ver = op.rel
      BY <1>4, <3>1 DEF Pointers
    <3>3. pending' # NoPtr
      BY <1>3, <3>2, Constants
    <3>. QED BY <1>1, <3>2, <3>3 DEF Types
  <2>2. PointersKnow'
    BY <1>1, <1>2, <1>3, <2>1 DEF IInv, Knows, PointersKnow, Present
  <2>3. /\ op' \in Ops /\ op'.kind = op.kind /\ op'.pc = "assess" /\ op'.gen = op.gen /\ op'.rel = op.rel
        /\ op'.next = op.next /\ op'.committed = op.committed
    BY <1>1, <1>4 DEF Goto, Ops, Pcs
  <2>4. OpKnows' /\ CheckKnows' /\ DeletesKnow'
    BY <1>1, <1>2, <1>3, <2>1, <2>3
       DEF OpKnows, CheckKnows, DeletesKnow, CheckPcs, Rejecting, Deleting, Removals
  <2>. QED BY <1>1, <1>2, <2>1, <2>2, <2>3, <2>4, StoreStep DEF Quiet, CheckPcs
<1>5. CASE UNCHANGED pending /\ op' = [op EXCEPT !.pc = "delete", !.next = "idle"]
  <2>1. /\ op' \in Ops /\ op'.kind = op.kind /\ op'.pc = "delete" /\ op'.gen = op.gen /\ op'.rel = op.rel
        /\ op'.next = "idle" /\ op'.committed = op.committed
    BY <1>1, <1>5 DEF Ops, Pcs
  <2>2. OpKnows' /\ CheckKnows' /\ DeletesKnow'
    BY <1>1, <1>2, <1>3, <2>1
       DEF OpKnows, CheckKnows, DeletesKnow, CheckPcs, Rejecting, Deleting, Removals
  <2>. QED BY <1>1, <1>2, <1>5, <2>1, <2>2, ManifestStep DEF Quiet, Deleting
<1>. QED BY <1>4, <1>5 DEF Point

LEMMA AssessSteps == ASSUME IInv, Assess PROVE IInv'
<1>1. /\ op.pc = "assess" /\ UNCHANGED <<app, store, desktop>> /\ op \in Ops
      /\ UNCHANGED <<dirs, staged, pending, rollback, rejected>> /\ faults' \in 0 .. MaxFaults
  BY FaultTyped DEF Assess, At, IInv, Types, store, manifests
<1>2. op.rel \in Versions /\ ~op.committed /\ op.kind # "idle" /\ pending # NoPtr /\ op.pc \in Quiet \ {"idle"}
  BY <1>1, IdleTyped DEF IInv, Knows, CheckKnows, OpKnows, CheckPcs, Removals, Quiet
<1>3. CASE op' = Idle
  BY <1>1, <1>3, QuietEnds
<1>4. CASE Sound(pending) /\ Goto("promote")
  <2>1. Present(pending) /\ Present(pending')
    BY <1>1, <1>4 DEF Sound, Present
  <2>. QED BY <1>1, <1>2, <1>4, <2>1, Goes DEF CheckPcs
<1>5. CASE op' = [op EXCEPT !.pc = "reject", !.which = "pending", !.next = "idle"]
  <2>1. /\ op' \in Ops /\ op'.kind = op.kind /\ op'.pc = "reject" /\ op'.gen = op.gen /\ op'.rel = op.rel
        /\ op'.which = "pending" /\ op'.next = "idle" /\ op'.committed = op.committed
    BY <1>1, <1>5 DEF Ops, Pcs
  <2>2. Named' = pending
    BY <1>1, <2>1 DEF Named
  <2>3. OpKnows' /\ CheckKnows'
    BY <1>1, <1>2, <2>1, <2>2 DEF OpKnows, CheckKnows, Removals, Rejecting, CheckPcs
  <2>4. DeletesKnow'
    BY <1>1, <2>1 DEF IInv, Knows, DeletesKnow, Deleting
  <2>. QED BY <1>1, <1>2, <2>1, <2>3, <2>4, ManifestStep DEF Quiet, Rejecting
<1>. QED BY <1>3, <1>4, <1>5 DEF Assess, End

LEMMA PromoteSteps == ASSUME IInv, Promote PROVE IInv'
<1>1. /\ op.pc = "promote" /\ UNCHANGED <<app, dirs, pending, rollback, rejected, desktop>> /\ op \in Ops /\ Types
      /\ faults' \in 0 .. MaxFaults
  BY FaultTyped DEF Promote, At, IInv, Types
<1>2. ~op.committed /\ op.kind # "idle" /\ pending # NoPtr /\ Present(pending)
  BY <1>1, IdleTyped DEF IInv, Knows, CheckKnows, OpKnows, CheckPcs, Removals
<1>3. CASE UNCHANGED staged /\ op' = Idle
  BY <1>1, <1>3, QuietEnds
<1>4. CASE /\ staged' = pending
           /\ op' = [op EXCEPT !.pc = "promoted", !.gen = IF staged.id = pending.id THEN 0 ELSE staged.id]
  <2>. DEFINE g == IF staged.id = pending.id THEN 0 ELSE staged.id
  <2>1. g \in 0 .. MaxDirs /\ (g = 0 \/ g # pending.id) /\ (g # 0 => dirs[g].kind # "previous")
    BY <1>1, Typed, Constants DEF IInv, Knows, PointersKnow
  <2>2. op' = [op EXCEPT !.pc = "promoted", !.gen = g]
    BY <1>4
  <2>. HIDE DEF g
  <2>3. /\ op' \in Ops /\ op'.kind = op.kind /\ op'.pc = "promoted" /\ op'.gen = g /\ op'.rel = op.rel
        /\ op'.next = op.next /\ op'.committed = op.committed
    BY <1>1, <2>1, <2>2 DEF Ops, Pcs
  <2>4. PointersKnow'
    BY <1>1, <1>2, <1>4 DEF IInv, Knows, PointersKnow, Present
  <2>5. CheckKnows'
    BY <1>1, <2>3 DEF IInv, Knows, CheckKnows, CheckPcs, Rejecting
  <2>6. OpKnows' /\ DeletesKnow'
    BY <1>1, <1>2, <1>4, <2>1, <2>3 DEF OpKnows, DeletesKnow, Deleting, Removals, Rejecting
  <2>. QED BY <1>1, <1>2, <1>4, <2>3, <2>4, <2>5, <2>6, StoreStep DEF Types, Quiet, Deleting
<1>. QED BY <1>3, <1>4 DEF Promote, End

LEMMA PromotedSteps == ASSUME IInv, Promoted PROVE IInv'
<1>1. /\ op.pc = "promoted" /\ UNCHANGED <<app, dirs, staged, rollback, rejected, desktop>>
      /\ faults' \in 0 .. MaxFaults /\ pending' \in {pending, NoPtr} /\ Goto("supersede")
  BY FaultTyped DEF Promoted, At, IInv
<1>2. op.gen = 0 \/ op.gen # staged.id
  BY <1>1 DEF IInv, Knows, DeletesKnow, Deleting
<1>. QED BY <1>1, <1>2, Goes DEF Quiet, Deleting, CheckPcs

LEMMA DeletesEnd ==
  ASSUME IInv, Delete(op.gen), op.pc \in Deleting, op' = Idle, UNCHANGED <<app, manifests, rejected, desktop>>
  PROVE  IInv'
<1>1. op.gen = 0 \/ op.gen # staged.id
  BY DEF IInv, Knows, DeletesKnow
<1>2. /\ PointersKnow' /\ dirs' \in [Ids -> Dirs] /\ faults' \in 0 .. MaxFaults
      /\ rollback # NoPtr => dirs'[rollback.id] = dirs[rollback.id]
      /\ UNCHANGED <<staged, pending, rollback>>
  BY <1>1, Deleted
<1>. QED BY <1>2, IdleKnows, IdleTyped, StoreStep DEF IInv, Types, Quiet

LEMMA CheckSteps == ASSUME IInv, CheckStep PROVE IInv'
<1>1. CASE Supersede
  BY <1>1, DeletesEnd DEF Supersede, At, End, Deleting
<1>. QED BY <1>1, RejectSteps, QuarantineSteps, ForgetSteps, CompareSteps, TidySteps, DeleteDirSteps,
     DownloadSteps, PointSteps, AssessSteps, PromoteSteps, PromotedSteps DEF CheckStep

-----------------------------------------------------------------------------
(* The beginnings of an installation, a restore and a recovery.            *)

LEMMA BeginInstallSteps == ASSUME IInv, BeginInstall PROVE IInv'
<1>. DEFINE install == [Idle EXCEPT !.kind = "install", !.gen = staged.id, !.rel = staged.ver]
<1>1. /\ staged # NoPtr /\ UNCHANGED <<app, dirs, pending, rollback, rejected, desktop>>
      /\ faults' \in 0 .. MaxFaults
  BY FaultTyped DEF BeginInstall, IInv, manifests
<1>2. /\ staged.id \in 0 .. MaxDirs /\ staged.ver \in Builds /\ staged.ver \in Versions
      /\ dirs[staged.id].kind # "previous" /\ staged.id \in Ids
  BY <1>1, Typed DEF IInv, Knows, PointersKnow
<1>3. CASE staged' = NoPtr /\ op' = [install EXCEPT !.pc = "delete", !.next = "idle"]
  <2>1. /\ op' \in Ops /\ op'.kind = "install" /\ op'.pc = "delete" /\ op'.gen = staged.id
        /\ op'.next = "idle" /\ ~op'.committed
    BY <1>2, <1>3, Constants, IdleTyped DEF Idle, Ops, Pcs, Tails
  <2>2. OpKnows' /\ CheckKnows' /\ DeletesKnow'
    BY <1>1, <1>2, <1>3, <2>1, Constants
       DEF OpKnows, CheckKnows, DeletesKnow, CheckPcs, Rejecting, Deleting, Removals
  <2>. QED BY <1>1, <1>3, <2>1, <2>2, ManifestStep DEF Quiet, Deleting
<1>4. CASE staged' = staged /\ op' = [install EXCEPT !.pc = "recover", !.recovering = TRUE]
  <2>1. /\ op' \in Ops /\ op'.kind = "install" /\ op'.pc = "recover" /\ op'.gen = staged.id
        /\ op'.next = "none" /\ ~op'.committed
    BY <1>2, <1>4, Constants, IdleTyped DEF Idle, Ops, Pcs, Tails
  <2>2. OpKnows' /\ CheckKnows' /\ DeletesKnow'
    BY <1>1, <1>2, <1>4, <2>1, Constants
       DEF OpKnows, CheckKnows, DeletesKnow, CheckPcs, Rejecting, Deleting, Removals
  <2>. QED BY <1>1, <1>4, <2>1, <2>2, ManifestStep DEF Quiet
<1>5. CASE staged' = staged /\ op' = [install EXCEPT !.pc = "reject", !.which = "staged", !.next = "idle"]
  <2>1. /\ op' \in Ops /\ op'.kind = "install" /\ op'.pc = "reject" /\ op'.gen = staged.id
        /\ op'.which = "staged" /\ op'.next = "idle" /\ ~op'.committed
    BY <1>2, <1>5, Constants, IdleTyped DEF Idle, Ops, Pcs, Tails
  <2>2. Named' = staged
    BY <1>5, <2>1 DEF Named
  <2>3. OpKnows' /\ CheckKnows' /\ DeletesKnow'
    BY <1>1, <1>2, <1>5, <2>1, <2>2, Constants
       DEF OpKnows, CheckKnows, DeletesKnow, CheckPcs, Rejecting, Deleting, Removals
  <2>. QED BY <1>1, <1>5, <2>1, <2>3, ManifestStep DEF Quiet, Rejecting
<1>. QED BY <1>3, <1>4, <1>5 DEF BeginInstall, manifests

LEMMA BeginRestoreSteps == ASSUME IInv, BeginRestore PROVE IInv'
<1>. DEFINE d == [kind |-> "staged", ver |-> latest, sound |-> latest \notin Bad]
<1>1. /\ UNCHANGED <<app, manifests, rejected, desktop, faults>> /\ latest \in Versions /\ Types
      /\ UNCHANGED <<staged, pending, rollback>>
  BY DEF BeginRestore, IInv, Types, manifests
<1>2. d \in Dirs /\ d.kind = "staged"
  BY <1>1, Constants DEF Dirs
<1>3. d # NoDir /\ Free # {} /\ dirs' = [dirs EXCEPT ![Fresh] = d]
  BY <1>2, Constants DEF BeginRestore, Downloaded
<1>. HIDE DEF d
<1>4. /\ PointersKnow' /\ dirs' \in [Ids -> Dirs] /\ dirs'[Fresh] = d
      /\ Fresh \in Ids /\ Fresh \notin {staged.id, pending.id, rollback.id, op.gen, op.copy}
      /\ rollback # NoPtr => dirs'[rollback.id] = dirs[rollback.id]
  BY <1>1, <1>2, <1>3, Added
<1>5. PICK p \in {"dispose", "recover"} :
        op' = [Idle EXCEPT !.kind = "restore", !.gen = Fresh, !.rel = latest, !.recovering = TRUE, !.pc = p]
  BY DEF BeginRestore
<1>6. /\ op' \in Ops /\ op'.kind = "restore" /\ op'.pc = p /\ op'.gen = Fresh /\ op'.next = "none"
      /\ ~op'.committed
  BY <1>1, <1>4, <1>5, Constants, IdleTyped DEF Idle, Ops, Pcs, Tails
<1>7. OpKnows' /\ CheckKnows' /\ DeletesKnow'
  BY <1>1, <1>2, <1>4, <1>6, Constants
     DEF OpKnows, CheckKnows, DeletesKnow, CheckPcs, Rejecting, Deleting, Removals
<1>. QED BY <1>1, <1>4, <1>6, <1>7, StoreStep DEF Types, Quiet, Deleting

LEMMA BeginRecoverSteps == ASSUME IInv, BeginRecover PROVE IInv'
<1>1. /\ UNCHANGED <<app, store, desktop, faults>> /\ UNCHANGED <<dirs, staged, pending, rollback, rejected>>
      /\ op' = [Idle EXCEPT !.kind = "recover", !.pc = "recover", !.recovering = TRUE]
      /\ faults' \in 0 .. MaxFaults
  BY DEF BeginRecover, store, manifests, IInv, Types
<1>2. /\ op' \in Ops /\ op'.kind = "recover" /\ op'.pc = "recover" /\ op'.gen = 0 /\ op'.next = "none"
      /\ ~op'.committed
  BY <1>1, Constants, IdleTyped DEF Idle, Ops, Pcs, Tails
<1>3. OpKnows' /\ CheckKnows' /\ DeletesKnow'
  BY <1>2 DEF OpKnows, CheckKnows, DeletesKnow, CheckPcs, Rejecting, Deleting, Removals
<1>. QED BY <1>1, <1>2, <1>3, ManifestStep DEF Quiet

-----------------------------------------------------------------------------
(* The installation.                                                       *)

(* What is where, when the journal and the layout are known.               *)
LEMMA LayoutKnows ==
  ASSUME Types, JournalKnows, Open
  PROVE  /\ journal.new \in Bundles /\ journal.old \in Bundles /\ journal.old # journal.new
         /\ Layout = "prepared" => dest = journal.old /\ incoming.new
         /\ Layout = "rolledBackClean" => dest = journal.old /\ incoming = NoApp
         /\ Layout \in {"activated", "committedClean"} => dest = journal.new
<1>1. journal.new \in Bundles /\ journal.old \in Bundles /\ journal.old # journal.new
  BY Typed DEF JournalKnows
<1>2. ~NoApp.new
  BY Constants
<1>. QED BY <1>1, <1>2 DEF Layout

LEMMA PhaseTyped ==
  ASSUME Types, NEW p \in Phases
  PROVE  /\ Phase(p) \in Journals /\ Phase(p).phase = p /\ Phase(p) # NoJournal
         /\ Phase(p).new = journal.new /\ Phase(p).old = journal.old
<1>1. Phase(p) \in Journals /\ Phase(p).phase = p /\ Phase(p).new = journal.new /\ Phase(p).old = journal.old
  BY DEF Types, Journals, Phase
<1>. QED BY <1>1, Constants DEF Phases

(* A step of an installation that leaves the store.                        *)
LEMMA AppStep ==
  ASSUME IInv, UNCHANGED <<store, desktop>>, dest' \in Bundles, incoming' \in Bundles, journal' \in Journals,
         op' \in Ops, faults' \in 0 .. MaxFaults,
         \/ op' = Idle
         \/ /\ Same /\ op'.pc \in Installing /\ op'.next \in {op.next} \cup Tails
            /\ op'.pc = "dispose" => op.kind = "restore",
         JournalKnows', OpKnows', InstallKnows', CommittedKnows'
  PROVE  IInv'
<1>1. Types'
  BY DEF IInv, Types, store, manifests, desktop
<1>2. PointersKnow' /\ CheckKnows' /\ DeletesKnow'
  BY QuietStore
<1>. QED BY <1>1, <1>2 DEF IInv, Knows

LEMMA JournalStays ==
  ASSUME IInv, UNCHANGED <<app, store>>
  PROVE  JournalKnows' /\ Kept' = Kept /\ UNCHANGED <<dest, incoming, journal>>
BY DEF IInv, Knows, JournalKnows, Open, Before, After, Cleaning, Kept, Sound, Present, app, store, manifests

(* An operation ends, or a restore or an installation goes on to its end.  *)
LEMMA LeavesOp ==
  ASSUME IInv, op.kind # "idle", Done \/ Installed
  PROVE  /\ op' \in Ops /\ ~op'.committed /\ op'.pc \in {"idle", "dispose", "retireStaged"}
         /\ OpKnows' /\ InstallKnows' /\ CommittedKnows'
         /\ \/ op' = Idle
            \/ /\ Same /\ op'.pc \in Installing /\ op'.next = op.next
               /\ op'.pc = "dispose" => op.kind = "restore"
<1>1. op \in Ops
  BY DEF IInv, Types
<1>2. CASE op' = Idle
  BY <1>2, IdleTyped, IdleKnows
<1>3. CASE \E p \in {"dispose", "retireStaged"} : /\ op' = [op EXCEPT !.pc = p, !.committed = FALSE]
                                                  /\ p = "dispose" => op.kind = "restore"
  <2>1. PICK p \in {"dispose", "retireStaged"} : /\ op' = [op EXCEPT !.pc = p, !.committed = FALSE]
                                                 /\ p = "dispose" => op.kind = "restore"
    BY <1>3
  <2>2. op' \in Ops /\ Same /\ op'.pc = p /\ op'.next = op.next /\ ~op'.committed
    BY <1>1, <2>1 DEF Ops, Pcs, Same
  <2>3. OpKnows' /\ InstallKnows' /\ CommittedKnows'
    BY <2>2 DEF OpKnows, InstallKnows, CommittedKnows, Removals, Rejecting, Same
  <2>. QED BY <2>1, <2>2, <2>3 DEF Installing
<1>. QED BY <1>2, <1>3 DEF Done, Installed, End

LEMMA Leaves ==
  ASSUME IInv, op.kind # "idle", Done \/ Installed, UNCHANGED <<store, desktop>>,
         dest' \in Bundles, incoming' \in Bundles, journal' \in Journals, faults' \in 0 .. MaxFaults,
         JournalKnows'
  PROVE  IInv'
BY LeavesOp, AppStep

LEMMA LeavesAlone ==
  ASSUME IInv, op.kind # "idle", Done \/ Installed, UNCHANGED <<app, store, desktop>>,
         faults' \in 0 .. MaxFaults
  PROVE  IInv'
BY JournalStays, Leaves DEF IInv, Types

(* On to another step before the commit.                                   *)
LEMMA Proceeds ==
  ASSUME IInv, op.kind # "idle", ~op.committed,
         NEW p \in Installing \ (Removals \cup {"tail", "dispose"}), Goto(p), UNCHANGED <<store, desktop>>,
         dest' \in Bundles, incoming' \in Bundles, journal' \in Journals, faults' \in 0 .. MaxFaults,
         JournalKnows', op'.pc = p => InstallKnows'
  PROVE  IInv'
<1>1. op \in Ops /\ p \in Pcs
  BY DEF IInv, Types, Installing, Pcs
<1>2. op' \in Ops /\ Same /\ op'.pc = p /\ op'.next = op.next /\ op'.committed = op.committed
  BY <1>1 DEF Goto, Ops, Same
<1>3. OpKnows' /\ CommittedKnows'
  <2>1. p \notin {"idle", "tail", "publish", "retire", "delete"} \cup Removals \cup Rejecting
    BY DEF Installing, Removals, Rejecting
  <2>. QED BY <1>2, <2>1 DEF OpKnows, CommittedKnows, Same
<1>. QED BY <1>2, <1>3, AppStep

(* On to the removal of a bundle that has not been committed.              *)
LEMMA Removes ==
  ASSUME IInv, op.kind # "idle", ~op.committed, NEW n \in {"abandon", "finish", "rollback"},
         NEW p \in {"remove", "unjournal"}, op' = [op EXCEPT !.pc = p, !.next = n], UNCHANGED <<store, desktop>>,
         dest' \in Bundles, incoming' \in Bundles, journal' \in Journals, faults' \in 0 .. MaxFaults,
         JournalKnows', Open', Before', p = "unjournal" => incoming' = NoApp
  PROVE  IInv'
<1>1. op \in Ops /\ p \in Pcs /\ n \in Pcs \cup Tails
  BY DEF IInv, Types, Pcs, Tails
<1>2. op' \in Ops /\ Same /\ op'.pc = p /\ op'.next = n /\ op'.committed = op.committed
  BY <1>1 DEF Ops, Same
<1>3. OpKnows' /\ CommittedKnows' /\ InstallKnows'
  BY <1>2 DEF OpKnows, CommittedKnows, InstallKnows, Removals, Rejecting, Same
<1>4. op'.pc \in Installing /\ op'.next \in Tails /\ op'.pc # "dispose"
  BY <1>2 DEF Installing, Removals, Tails
<1>. QED BY <1>2, <1>3, <1>4, AppStep

LEMMA Busy ==
  ASSUME IInv, op.pc # "idle"
  PROVE  op.kind # "idle" /\ op \in Ops /\ Types /\ JournalKnows
BY IdleTyped DEF IInv, Knows, OpKnows, Types

(* An installation that is put off, undone or abandoned.                   *)
LEMMA Abandons ==
  ASSUME IInv, op.pc # "idle", ~op.committed, Abandon, Open, UNCHANGED <<app, store, desktop>>,
         faults' \in 0 .. MaxFaults
  PROVE  IInv'
<1>1. CASE Done
  BY <1>1, Busy, LeavesAlone
<1>2. CASE Layout = "prepared" /\ RemoveThen("abandon")
  <2>1. Before /\ dest \in Bundles /\ incoming \in Bundles /\ journal \in Journals
    BY <1>2, Busy, LayoutKnows DEF Before, Types
  <2>2. JournalKnows' /\ UNCHANGED <<dest, incoming, journal>>
    BY JournalStays
  <2>3. Open' /\ Before'
    BY <2>1, <2>2 DEF Open, Before
  <2>. QED BY <1>2, <2>1, <2>2, <2>3, Busy, Removes DEF RemoveThen
<1>. QED BY <1>1, <1>2 DEF Abandon

LEMMA CopySteps == ASSUME IInv, Copy PROVE IInv'
<1>1. /\ op.pc = "copy" /\ UNCHANGED <<dest, journal, store, desktop>> /\ faults' \in 0 .. MaxFaults
      /\ dest \in Bundles /\ journal \in Journals /\ incoming \in Bundles /\ op.rel \in Builds /\ op \in Ops
      /\ UNCHANGED <<dirs, rollback>>
  BY FaultTyped, Typed DEF Copy, At, IInv, Types, store, manifests
<1>2. op.kind # "idle" /\ ~op.committed /\ ~dest.new /\ (Open => dest = journal.old)
  BY <1>1, Busy DEF IInv, Knows, OpKnows, InstallKnows, Removals
<1>3. CASE Done /\ UNCHANGED incoming
  BY <1>1, <1>2, <1>3, LeavesAlone DEF app
<1>4. CASE incoming' = [ver |-> op.rel, new |-> TRUE, whole |-> TRUE] /\ Goto("prepare")
  <2>1. incoming' \in Bundles /\ incoming'.new /\ incoming'.whole
    BY <1>1, <1>4 DEF Bundles
  <2>2. JournalKnows'
    BY <1>1, <1>2, <2>1 DEF IInv, Knows, JournalKnows, Open, Before
  <2>3. op'.pc = "prepare" => InstallKnows'
    BY <1>1, <1>2, <2>1 DEF InstallKnows, Open, Removals
  <2>4. "prepare" \in Installing \ (Removals \cup {"tail", "dispose"})
    BY DEF Installing, Removals
  <2>. QED BY <1>1, <1>2, <1>4, <2>1, <2>2, <2>3, <2>4, Proceeds
<1>. QED BY <1>3, <1>4 DEF Copy

LEMMA PrepareSteps == ASSUME IInv, Prepare PROVE IInv'
<1>1. /\ op.pc = "prepare" /\ UNCHANGED <<dest, store, desktop>> /\ faults' \in 0 .. MaxFaults
      /\ incoming' = (IF journal' = Prepared THEN incoming ELSE NoApp)
      /\ journal' \in {journal, Prepared} /\ (Done \/ (journal' = Prepared /\ Goto("activate")))
  BY FaultTyped DEF Prepare, Write, At, IInv
<1>2. /\ dest \in Bundles /\ journal \in Journals /\ incoming \in Bundles /\ op \in Ops
  BY DEF IInv, Types
<1>3. /\ op.kind # "idle" /\ ~op.committed /\ ~dest.new /\ (Open => dest = journal.old)
      /\ incoming.new /\ incoming.whole
  BY <1>1, Busy DEF IInv, Knows, OpKnows, InstallKnows, Removals
<1>4. dest # NoApp => dest.whole
  BY <1>3 DEF IInv, Knows, JournalKnows
<1>5. /\ Prepared \in Journals /\ Prepared.phase = "prepared" /\ Prepared.new = incoming /\ Prepared.old = dest
      /\ Prepared # NoJournal
  <2>1. Prepared \in Journals /\ Prepared.phase = "prepared" /\ Prepared.new = incoming /\ Prepared.old = dest
    BY <1>2 DEF Prepared, Journals, Phases
  <2>. QED BY <2>1, Constants
<1>6. incoming' \in Bundles /\ journal' \in Journals
  BY <1>1, <1>2, <1>5, Constants
<1>7. JournalKnows'
  <2>1. CASE journal' = Prepared
    BY <1>1, <1>3, <1>4, <1>5, <2>1 DEF JournalKnows, Open, Before, Phases
  <2>2. CASE journal' # Prepared
    BY <1>1, <1>3, <2>2 DEF IInv, Knows, JournalKnows, Open, Before
  <2>. QED BY <2>1, <2>2
<1>8. CASE Done
  BY <1>1, <1>2, <1>3, <1>6, <1>7, <1>8, Leaves
<1>9. CASE journal' = Prepared /\ Goto("activate")
  <2>1. op'.pc = "activate" => InstallKnows'
    BY <1>1, <1>5, <1>9 DEF InstallKnows, Removals
  <2>2. "activate" \in Installing \ (Removals \cup {"tail", "dispose"})
    BY DEF Installing, Removals
  <2>. QED BY <1>1, <1>2, <1>3, <1>6, <1>7, <1>9, <2>1, <2>2, Proceeds
<1>. QED BY <1>1, <1>8, <1>9

LEMMA ActivateSteps == ASSUME IInv, Activate PROVE IInv'
<1>1. /\ op.pc = "activate" /\ UNCHANGED <<app, store, desktop>> /\ faults' \in 0 .. MaxFaults
      /\ dest \in Bundles /\ journal \in Journals /\ incoming \in Bundles
      /\ UNCHANGED <<dest, incoming, journal>>
  BY FaultTyped DEF Activate, At, IInv, Types, app
<1>2. /\ op.kind # "idle" /\ ~op.committed /\ Open
      /\ journal.phase = "prepared" /\ dest = journal.old /\ incoming = journal.new
  BY <1>1, Busy, Constants DEF IInv, Knows, OpKnows, InstallKnows, Removals, Open
<1>3. CASE Abandon
  BY <1>1, <1>2, <1>3, Abandons
<1>4. CASE Goto("swap")
  <2>1. op'.pc = "swap" => InstallKnows'
    BY <1>1, <1>2 DEF InstallKnows, Removals
  <2>2. "swap" \in Installing \ (Removals \cup {"tail", "dispose"})
    BY DEF Installing, Removals
  <2>. QED BY <1>1, <1>2, <1>4, <2>1, <2>2, JournalStays, Proceeds
<1>. QED BY <1>3, <1>4 DEF Activate

LEMMA SwapSteps == ASSUME IInv, Swap PROVE IInv'
<1>1. /\ op.pc = "swap" /\ UNCHANGED <<journal, store, desktop>> /\ faults' \in 0 .. MaxFaults
      /\ dest \in Bundles /\ journal \in Journals /\ incoming \in Bundles
  BY FaultTyped DEF Swap, At, IInv, Types
<1>2. /\ op.kind # "idle" /\ ~op.committed /\ Open
      /\ journal.phase = "prepared" /\ dest = journal.old /\ incoming = journal.new
  BY <1>1, Busy, Constants DEF IInv, Knows, OpKnows, InstallKnows, Removals, Open
<1>3. CASE UNCHANGED <<dest, incoming>> /\ Done
  BY <1>1, <1>2, <1>3, LeavesAlone DEF app
<1>4. CASE Swapped /\ Goto("mark")
  <2>1. dest' \in Bundles /\ incoming' \in Bundles /\ Open' /\ After'
    BY <1>1, <1>2, <1>4 DEF Swapped, Open, After
  <2>2. JournalKnows'
    BY <1>1, <2>1 DEF IInv, Knows, JournalKnows, Open
  <2>3. op'.pc = "mark" => InstallKnows'
    BY <2>1 DEF InstallKnows, Removals
  <2>4. "mark" \in Installing \ (Removals \cup {"tail", "dispose"})
    BY DEF Installing, Removals
  <2>. QED BY <1>1, <1>2, <1>4, <2>1, <2>2, <2>3, <2>4, Proceeds
<1>. QED BY <1>3, <1>4 DEF Swap

(* A write of the journal with both bundles exchanged.                     *)
LEMMA Exchanged ==
  ASSUME IInv, Open, After, UNCHANGED <<dest, incoming>>, NEW p \in Phases, journal' \in {journal, Phase(p)}
  PROVE  JournalKnows' /\ Open' /\ After' /\ dest' \in Bundles /\ incoming' \in Bundles /\ journal' \in Journals
<1>1. /\ Phase(p) \in Journals /\ Phase(p).phase = p /\ Phase(p) # NoJournal
      /\ Phase(p).new = journal.new /\ Phase(p).old = journal.old
  BY PhaseTyped DEF IInv
<1>2. Open' /\ After' /\ journal'.new = journal.new /\ journal'.old = journal.old /\ journal'.phase \in Phases
  BY <1>1 DEF Open, After, IInv, Knows, JournalKnows
<1>3. JournalKnows'
  BY <1>2 DEF IInv, Knows, JournalKnows
<1>. QED BY <1>1, <1>2, <1>3 DEF IInv, Types

LEMMA MarkSteps == ASSUME IInv, Mark PROVE IInv'
<1>1. /\ op.pc = "mark" /\ UNCHANGED <<dest, incoming, store, desktop>> /\ faults' \in 0 .. MaxFaults
      /\ journal' \in {journal, Phase("swapped")} /\ (Goto("commit") \/ Goto("rollback"))
  BY FaultTyped DEF Mark, Write, At, IInv
<1>2. op.kind # "idle" /\ ~op.committed /\ Open /\ After
  BY <1>1, Busy DEF IInv, Knows, OpKnows, InstallKnows, Removals
<1>3. JournalKnows' /\ Open' /\ After' /\ dest' \in Bundles /\ incoming' \in Bundles /\ journal' \in Journals
  BY <1>1, <1>2, Exchanged DEF Phases
<1>4. op'.pc \in {"commit", "rollback"} => InstallKnows'
  BY <1>3 DEF InstallKnows, Removals
<1>5. {"commit", "rollback"} \subseteq Installing \ (Removals \cup {"tail", "dispose"})
  BY DEF Installing, Removals
<1>. QED BY <1>1, <1>2, <1>3, <1>4, <1>5, Proceeds

LEMMA CommitSteps == ASSUME IInv, Commit PROVE IInv'
<1>1. /\ op.pc = "commit" /\ UNCHANGED <<dest, incoming, store, desktop>> /\ faults' \in 0 .. MaxFaults
      /\ journal' \in {journal, Phase("committed")} /\ op \in Ops
  BY FaultTyped DEF Commit, Write, At, IInv, Types
<1>2. op.kind # "idle" /\ ~op.committed /\ Open /\ After
  BY <1>1, Busy DEF IInv, Knows, OpKnows, InstallKnows, Removals
<1>3. JournalKnows' /\ Open' /\ After' /\ dest' \in Bundles /\ incoming' \in Bundles /\ journal' \in Journals
  BY <1>1, <1>2, Exchanged DEF Phases
<1>4. CASE Goto("rollback")
  <2>1. op'.pc = "rollback" => InstallKnows'
    BY <1>3 DEF InstallKnows, Removals
  <2>2. "rollback" \in Installing \ (Removals \cup {"tail", "dispose"})
    BY DEF Installing, Removals
  <2>. QED BY <1>1, <1>2, <1>3, <1>4, <2>1, <2>2, Proceeds
<1>5. CASE journal' = Phase("committed") /\ op' = [op EXCEPT !.pc = "tail", !.committed = TRUE]
  <2>1. op' \in Ops /\ Same /\ op'.pc = "tail" /\ op'.next = op.next /\ op'.committed
    BY <1>1, <1>5 DEF Ops, Pcs, Same
  <2>2. OpKnows' /\ InstallKnows'
    BY <1>2, <2>1 DEF OpKnows, InstallKnows, Removals, Rejecting, Same
  <2>3. journal'.phase = "committed"
    BY <1>5, PhaseTyped DEF IInv, Phases
  <2>4. CommittedKnows'
    BY <1>3, <2>1, <2>3 DEF CommittedKnows, Cleaning, After, Removals
  <2>. QED BY <1>1, <1>3, <2>1, <2>2, <2>4, AppStep DEF Installing
<1>. QED BY <1>4, <1>5 DEF Commit, Write

LEMMA RollbackSteps == ASSUME IInv, Rollback PROVE IInv'
<1>1. /\ op.pc = "rollback" /\ UNCHANGED <<dest, incoming, store, desktop>> /\ faults' \in 0 .. MaxFaults
      /\ journal' \in {journal, Phase("rollback")}
      /\ Goto("swapBack") \/ (Done /\ UNCHANGED journal)
  BY FaultTyped DEF Rollback, At, IInv
<1>2. op.kind # "idle" /\ ~op.committed /\ Open /\ After
  BY <1>1, Busy DEF IInv, Knows, OpKnows, InstallKnows, Removals
<1>3. JournalKnows' /\ Open' /\ After' /\ dest' \in Bundles /\ incoming' \in Bundles /\ journal' \in Journals
  BY <1>1, <1>2, Exchanged DEF Phases
<1>4. op'.pc = "swapBack" => InstallKnows'
  BY <1>3 DEF InstallKnows, Removals
<1>5. "swapBack" \in Installing \ (Removals \cup {"tail", "dispose"})
  BY DEF Installing, Removals
<1>. QED BY <1>1, <1>2, <1>3, <1>4, <1>5, Proceeds, Leaves

LEMMA SwapBackSteps == ASSUME IInv, SwapBack PROVE IInv'
<1>1. /\ op.pc = "swapBack" /\ UNCHANGED <<journal, store, desktop>> /\ faults' \in 0 .. MaxFaults
      /\ dest \in Bundles /\ journal \in Journals /\ incoming \in Bundles
  BY FaultTyped DEF SwapBack, At, IInv, Types
<1>2. op.kind # "idle" /\ ~op.committed /\ Open /\ After
  BY <1>1, Busy DEF IInv, Knows, OpKnows, InstallKnows, Removals
<1>3. CASE UNCHANGED <<dest, incoming>> /\ Done
  BY <1>1, <1>2, <1>3, LeavesAlone DEF app
<1>4. CASE Swapped /\ RemoveThen("rollback")
  <2>1. dest' \in Bundles /\ incoming' \in Bundles /\ Open' /\ Before'
    BY <1>1, <1>2, <1>4 DEF Swapped, Open, After, Before, IInv, Knows, JournalKnows
  <2>2. JournalKnows'
    BY <1>1, <2>1 DEF IInv, Knows, JournalKnows, Open
  <2>. QED BY <1>1, <1>2, <1>4, <2>1, <2>2, Removes DEF RemoveThen
<1>. QED BY <1>3, <1>4 DEF SwapBack

-----------------------------------------------------------------------------
(* The recovery.                                                           *)

LEMMA Recovering ==
  ASSUME IInv, op.pc = "recover"
  PROVE  op.kind # "idle" /\ ~op.committed /\ op \in Ops /\ Types /\ JournalKnows
BY Busy DEF IInv, Knows, OpKnows, Removals

LEMMA RecoverActivatedSteps ==
  ASSUME IInv, op.pc = "recover", RecoverActivated, journal.phase \in {"prepared", "swapped"},
         UNCHANGED <<dest, incoming, store, desktop>>
  PROVE  IInv'
<1>1. /\ UNCHANGED <<app, store, desktop>> /\ faults' \in 0 .. MaxFaults /\ Layout = "activated"
      /\ Done \/ Goto("commit") \/ Goto("rollback")
  BY FaultTyped DEF RecoverActivated, Deferred, IInv, app
<1>2. Open
  BY Constants DEF Open
<1>3. After
  <2>1. dest = journal.new /\ journal.old # journal.new
    BY <1>1, <1>2, LayoutKnows, Recovering
  <2>. QED BY <1>2, <2>1, Recovering DEF JournalKnows, Before, After, Cleaning
<1>4. JournalKnows' /\ UNCHANGED <<dest, incoming, journal>>
  BY <1>1, JournalStays
<1>5. op'.pc \in {"commit", "rollback"} => InstallKnows'
  BY <1>2, <1>3, <1>4 DEF InstallKnows, Open, After, Removals
<1>6. {"commit", "rollback"} \subseteq Installing \ (Removals \cup {"tail", "dispose"})
  BY DEF Installing, Removals
<1>7. dest \in Bundles /\ journal \in Journals /\ incoming \in Bundles
  BY DEF IInv, Types
<1>. QED BY <1>1, <1>4, <1>5, <1>6, <1>7, Recovering, LeavesAlone, Proceeds

(* The new copy is removed, or only the journal, with the old app in place.*)
LEMMA UndoneSteps ==
  ASSUME IInv, op.pc = "recover", journal.phase \in Phases, UNCHANGED <<app, store, desktop>>,
         faults' \in 0 .. MaxFaults,
         \/ Layout = "rolledBackClean" /\ op' = [op EXCEPT !.pc = "unjournal", !.next = "finish"]
         \/ Layout = "prepared" /\ op' = [op EXCEPT !.pc = "remove", !.next = "finish"]
  PROVE  IInv'
<1>1. Open
  BY Constants DEF Open, Phases
<1>2. Before /\ (Layout = "rolledBackClean" => incoming = NoApp)
  BY <1>1, LayoutKnows, Recovering DEF Before
<1>3. JournalKnows' /\ UNCHANGED <<dest, incoming, journal>>
  BY JournalStays
<1>4. Open' /\ Before' /\ (Layout = "rolledBackClean" => incoming' = NoApp)
  BY <1>1, <1>2, <1>3 DEF Open, Before
<1>5. dest' \in Bundles /\ journal' \in Journals /\ incoming' \in Bundles
  BY <1>3 DEF IInv, Types
<1>6. CASE Layout = "rolledBackClean" /\ op' = [op EXCEPT !.pc = "unjournal", !.next = "finish"]
  BY <1>3, <1>4, <1>5, <1>6, Recovering, Removes
<1>7. CASE Layout = "prepared" /\ op' = [op EXCEPT !.pc = "remove", !.next = "finish"]
  BY <1>3, <1>4, <1>5, <1>7, Recovering, Removes
<1>. QED BY <1>6, <1>7

LEMMA RecoverPreparedSteps == ASSUME IInv, RecoverPrepared \/ RecoverSwapped \/ RecoverRollback PROVE IInv'
<1>1. /\ op.pc = "recover" /\ journal.phase \in Phases /\ Open /\ op.kind # "idle" /\ ~op.committed
      /\ faults' \in 0 .. MaxFaults
  <2>1. op.pc = "recover" /\ journal.phase \in {"prepared", "swapped", "rollback"} /\ (Fault \/ Well)
    BY DEF RecoverPrepared, RecoverSwapped, RecoverRollback, RecoverActivated, At, Well
  <2>. QED BY <2>1, Recovering, FaultTyped, Constants DEF Open, Phases
<1>2. CASE /\ journal.phase \in {"prepared", "swapped"} /\ RecoverActivated
           /\ UNCHANGED <<dest, incoming, store, desktop>>
  BY <1>1, <1>2, RecoverActivatedSteps
<1>3. CASE UNCHANGED <<app, store, desktop>> /\ Done
  BY <1>1, <1>3, LeavesAlone
<1>4. CASE UNCHANGED <<app, store, desktop>> /\ Abandon
  BY <1>1, <1>4, Abandons
<1>5. CASE /\ UNCHANGED <<app, store, desktop>>
           /\ \/ Layout = "rolledBackClean" /\ op' = [op EXCEPT !.pc = "unjournal", !.next = "finish"]
              \/ Layout = "prepared" /\ op' = [op EXCEPT !.pc = "remove", !.next = "finish"]
  BY <1>1, <1>5, UndoneSteps
<1>6. CASE UNCHANGED <<app, store, desktop>> /\ Layout = "activated" /\ Goto("rollback") /\ RecoverRollback
  <2>1. journal.phase = "rollback"
    BY <1>6 DEF RecoverRollback
  <2>2. After
    <3>1. dest = journal.new /\ journal.old # journal.new
      BY <1>1, <1>6, LayoutKnows, Recovering
    <3>. QED BY <1>1, <2>1, <3>1, Recovering DEF JournalKnows, Before, After, Cleaning
  <2>3. JournalKnows' /\ UNCHANGED <<dest, incoming, journal>>
    BY <1>6, JournalStays
  <2>4. op'.pc = "rollback" => InstallKnows'
    BY <1>1, <2>2, <2>3 DEF InstallKnows, Open, After, Removals
  <2>5. "rollback" \in Installing \ (Removals \cup {"tail", "dispose"})
    BY DEF Installing, Removals
  <2>6. dest' \in Bundles /\ journal' \in Journals /\ incoming' \in Bundles
    BY <2>3 DEF IInv, Types
  <2>. QED BY <1>1, <1>6, <2>3, <2>4, <2>5, <2>6, Proceeds
<1>7. CASE RecoverPrepared
  BY <1>2, <1>3, <1>4, <1>5, <1>7 DEF RecoverPrepared, RecoverClean, Deferred, app
<1>8. CASE RecoverSwapped
  BY <1>2, <1>3, <1>5, <1>8 DEF RecoverSwapped, RecoverClean, FinishRollback, RemoveThen, Deferred, app
<1>9. CASE RecoverRollback
  BY <1>3, <1>5, <1>6, <1>9 DEF RecoverRollback, RecoverClean, FinishRollback, RemoveThen, Deferred
<1>. QED BY <1>7, <1>8, <1>9

LEMMA RecoverCommittedSteps == ASSUME IInv, RecoverCommitted PROVE IInv'
<1>1. /\ op.pc = "recover" /\ journal.phase = "committed" /\ UNCHANGED <<app, store, desktop>>
      /\ faults' \in 0 .. MaxFaults /\ Open
  BY Constants DEF RecoverCommitted, At, IInv, Types, Open
<1>2. CASE Done
  BY <1>1, <1>2, Recovering, LeavesAlone
<1>3. CASE Layout \in {"activated", "committedClean"} /\ op' = [op EXCEPT !.pc = "tail", !.committed = TRUE]
  <2>1. dest = journal.new /\ journal.old # journal.new
    BY <1>1, <1>3, LayoutKnows, Recovering
  <2>2. Cleaning
    BY <1>1, <2>1, Recovering DEF JournalKnows, Before, After, Cleaning
  <2>3. JournalKnows' /\ Kept' = Kept /\ UNCHANGED <<dest, incoming, journal>>
    BY <1>1, JournalStays
  <2>4. op' \in Ops /\ Same /\ op'.pc = "tail" /\ op'.next = op.next /\ op'.committed
    BY <1>3, <1>1, Recovering DEF Ops, Pcs, Same
  <2>5. OpKnows' /\ InstallKnows'
    BY <1>1, Recovering, <2>4 DEF OpKnows, InstallKnows, Removals, Rejecting, Same
  <2>6. CommittedKnows'
    BY <1>1, <2>1, <2>2, <2>3, <2>4 DEF CommittedKnows, Cleaning, Removals
  <2>7. dest' \in Bundles /\ journal' \in Journals /\ incoming' \in Bundles
    BY <2>3 DEF IInv, Types
  <2>. QED BY <1>1, <2>3, <2>4, <2>5, <2>6, <2>7, AppStep DEF Installing
<1>. QED BY <1>2, <1>3 DEF RecoverCommitted, Deferred

(* A recovery ends, or the installation it came before begins.             *)
LEMMA RecoveredOp ==
  ASSUME IInv, op.kind # "idle", Recovered
  PROVE  /\ op' \in Ops /\ ~op'.committed /\ op'.pc \in {"idle", "copy"} /\ OpKnows' /\ CommittedKnows'
         /\ op' = Idle \/ (Same /\ op'.next = "none")
<1>1. CASE op' = Idle
  BY <1>1, IdleTyped, IdleKnows
<1>2. CASE op' = [op EXCEPT !.pc = "copy", !.recovering = FALSE, !.committed = FALSE, !.copy = 0, !.next = "none"]
  <2>1. op \in Ops /\ 0 \in 0 .. MaxDirs
    BY Constants DEF IInv, Types
  <2>2. op' \in Ops /\ Same /\ op'.pc = "copy" /\ op'.next = "none" /\ ~op'.committed
    BY <1>2, <2>1 DEF Ops, Pcs, Tails, Same
  <2>3. OpKnows' /\ CommittedKnows'
    BY <2>2 DEF OpKnows, CommittedKnows, Removals, Rejecting, Same
  <2>. QED BY <2>2, <2>3
<1>. QED BY <1>1, <1>2 DEF Recovered, End

LEMMA Recovers ==
  ASSUME IInv, op.kind # "idle", Recovered, UNCHANGED <<store, desktop>>,
         dest' \in Bundles, incoming' \in Bundles, journal' \in Journals, faults' \in 0 .. MaxFaults,
         JournalKnows', ~dest'.new, Open' => dest' = journal'.old
  PROVE  IInv'
<1>1. /\ op' \in Ops /\ ~op'.committed /\ op'.pc \in {"idle", "copy"} /\ OpKnows' /\ CommittedKnows'
      /\ op' = Idle \/ (Same /\ op'.next = "none")
  BY RecoveredOp
<1>2. InstallKnows'
  BY <1>1 DEF InstallKnows, Removals, Open
<1>3. CASE op' = Idle
  BY <1>1, <1>2, <1>3, AppStep
<1>4. CASE op' # Idle
  <2>1. op'.pc = "copy"
    BY <1>1, <1>4 DEF OpKnows
  <2>2. op'.pc \in Installing /\ op'.next \in Tails /\ op'.pc # "dispose"
    BY <1>1, <1>4, <2>1 DEF Installing, Tails
  <2>. QED BY <1>1, <1>2, <1>4, <2>2, AppStep
<1>. QED BY <1>3, <1>4

LEMMA RecoverNoneSteps == ASSUME IInv, RecoverNone PROVE IInv'
<1>1. /\ op.pc = "recover" /\ journal = NoJournal /\ Recovered /\ UNCHANGED <<app, store, desktop, faults>>
  BY DEF RecoverNone, At
<1>2. JournalKnows' /\ UNCHANGED <<dest, incoming, journal>> /\ ~dest.new
  BY <1>1, JournalStays DEF IInv, Knows, JournalKnows, Open
<1>. QED BY <1>1, <1>2, Recovers, Recovering DEF IInv, Types, Open

-----------------------------------------------------------------------------
(* The cleanup of a committed installation.                                *)

LEMMA Committed ==
  ASSUME IInv, op.committed
  PROVE  /\ op.kind # "idle" /\ op \in Ops /\ Types /\ Open /\ journal.phase = "committed"
         /\ dest = journal.new /\ Cleaning
<1>1. op.pc # "idle"
  BY DEF IInv, Knows, OpKnows, Removals
<1>2. journal.phase = "committed"
  BY DEF IInv, Knows, CommittedKnows
<1>3. Open
  BY <1>2, Constants DEF Open
<1>. QED BY <1>1, <1>2, <1>3, Busy DEF IInv, Knows, CommittedKnows

(* A step of the cleanup that leaves the bundles where they are.           *)
LEMMA CleanupStep ==
  ASSUME IInv, op.committed, UNCHANGED <<app, staged, pending, rejected, desktop>>, dirs' \in [Ids -> Dirs],
         rollback' \in Pointers, op' \in Ops, faults' \in 0 .. MaxFaults,
         incoming = journal.old \/ (Kept => Kept'), PointersKnow', OpKnows', CheckKnows', DeletesKnow',
         InstallKnows', Cleaning' => CommittedKnows'
  PROVE  IInv'
<1>1. UNCHANGED <<dest, incoming, journal>>
  BY DEF app
<1>2. Cleaning'
  BY <1>1, Committed DEF Cleaning, After
<1>3. JournalKnows'
  BY <1>1, <1>2, Committed DEF IInv, Knows, JournalKnows, Open
<1>4. Types'
  BY <1>1 DEF IInv, Types, desktop
<1>. QED BY <1>2, <1>3, <1>4 DEF IInv, Knows

LEMMA PreserveSteps == ASSUME IInv, Preserve PROVE IInv'
<1>1. /\ op.pc = "tail" /\ UNCHANGED <<app, manifests, rejected, desktop>> /\ faults' \in 0 .. MaxFaults
      /\ UNCHANGED <<staged, pending, rollback>> /\ UNCHANGED <<dest, incoming, journal>>
  BY FaultTyped DEF Preserve, At, IInv, manifests, app
<1>2. op.committed
  BY <1>1 DEF IInv, Knows, OpKnows
<1>3. CASE Installed /\ UNCHANGED dirs
  BY <1>1, <1>2, <1>3, Committed, LeavesAlone DEF store
<1>4. CASE /\ journal.old = NoApp \/ KeptAlready
           /\ RemoveThen("cleanup") /\ UNCHANGED dirs
  <2>1. op' \in Ops /\ Same /\ op'.pc = "remove" /\ op'.next = "cleanup" /\ op'.committed
    BY <1>2, <1>4, Committed DEF RemoveThen, Ops, Pcs, Tails, Same
  <2>2. OpKnows' /\ InstallKnows'
    BY <2>1, <1>2, Committed DEF OpKnows, InstallKnows, Removals, Rejecting, Same
  <2>3. journal'.old = NoApp \/ Kept'
    BY <1>1, <1>4 DEF KeptAlready, Kept, Sound, Present
  <2>4. JournalKnows' /\ Kept' = Kept
    BY <1>1, <1>4, JournalStays DEF store
  <2>5. CommittedKnows'
    BY <1>1, <1>2, <2>1, <2>3, Committed DEF CommittedKnows, Cleaning, Removals
  <2>6. op'.pc \in Installing /\ op'.next \in Tails /\ op'.pc # "dispose"
    BY <2>1 DEF Installing, Removals, Tails
  <2>7. dest' \in Bundles /\ incoming' \in Bundles /\ journal' \in Journals
    BY <1>1 DEF IInv, Types
  <2>. QED BY <1>1, <1>4, <2>1, <2>2, <2>4, <2>5, <2>6, <2>7, AppStep DEF store
<1>5. CASE /\ journal.old # NoApp /\ incoming = journal.old /\ Free # {}
           /\ dirs' = [dirs EXCEPT ![Fresh] = [kind |-> "previous", ver |-> journal.old.ver, sound |-> TRUE]]
           /\ op' = [op EXCEPT !.pc = "publish", !.copy = Fresh]
  <2>. DEFINE d == [kind |-> "previous", ver |-> journal.old.ver, sound |-> TRUE]
  <2>1. d \in Dirs /\ d.kind = "previous"
    BY <1>2, Committed, Typed, BundleFields DEF Dirs
  <2>2. d # NoDir /\ dirs' = [dirs EXCEPT ![Fresh] = d]
    BY <1>5, <2>1, Constants
  <2>3. d' = d
    BY <1>1
  <2>. HIDE DEF d
  <2>4. /\ PointersKnow' /\ dirs' \in [Ids -> Dirs] /\ dirs'[Fresh] = d
        /\ Fresh \in Ids /\ Fresh \notin {staged.id, pending.id, rollback.id, op.gen, op.copy}
        /\ rollback # NoPtr => dirs'[rollback.id] = dirs[rollback.id]
        /\ op.gen # 0 => dirs'[op.gen].kind # "previous"
    BY <1>1, <1>5, <2>1, <2>2, Added
  <2>5. Fresh \in 0 .. MaxDirs /\ Fresh # 0
    BY <2>4, Constants
  <2>6. /\ op' \in Ops /\ Same /\ op'.pc = "publish" /\ op'.copy = Fresh /\ op'.next = op.next /\ op'.committed
    BY <1>2, <1>5, <2>5, Committed DEF Ops, Pcs, Same
  <2>7. OpKnows' /\ InstallKnows'
    BY <1>2, <2>6, Committed DEF OpKnows, InstallKnows, Removals, Rejecting, Same
  <2>8. CheckKnows'
    BY <2>6 DEF IInv, Knows, CheckKnows, CheckPcs, Rejecting, Same
  <2>9. DeletesKnow'
    <3>1. op.kind = "restore" => op.gen = 0 \/ op.gen # staged.id
      BY DEF IInv, Knows, DeletesKnow
    <3>2. dirs'[op'.copy] = [kind |-> "previous", ver |-> journal'.old.ver, sound |-> TRUE]
      BY <1>1, <2>4, <2>6 DEF d
    <3>. QED BY <1>1, <2>4, <2>5, <2>6, <3>1, <3>2 DEF DeletesKnow, Deleting, Same
  <2>10. Cleaning' => CommittedKnows'
    BY <1>1, <1>2, <1>5, <2>6, Committed DEF CommittedKnows, Removals
  <2>. QED BY <1>1, <1>2, <1>5, <2>4, <2>6, <2>7, <2>8, <2>9, <2>10, CleanupStep DEF IInv, Types
<1>. QED BY <1>3, <1>4, <1>5 DEF Preserve

LEMMA PublishSteps == ASSUME IInv, Publish PROVE IInv'
<1>1. /\ op.pc = "publish" /\ UNCHANGED <<app, dirs, staged, pending, rejected, desktop>>
      /\ faults' \in 0 .. MaxFaults /\ UNCHANGED <<dest, incoming, journal>>
  BY FaultTyped DEF Publish, At, IInv, app
<1>2. op.committed
  BY <1>1 DEF IInv, Knows, OpKnows
<1>3. /\ op.copy # 0 /\ op.copy \in Ids /\ op.copy # rollback.id /\ incoming = journal.old
      /\ dirs[op.copy] = [kind |-> "previous", ver |-> journal.old.ver, sound |-> TRUE]
      /\ journal.old.ver \in Builds /\ op.copy \in 0 .. MaxDirs
  <2>1. /\ op.copy # 0 /\ op.copy # rollback.id /\ incoming = journal.old
        /\ dirs[op.copy] = [kind |-> "previous", ver |-> journal.old.ver, sound |-> TRUE]
    BY <1>1 DEF IInv, Knows, DeletesKnow, CommittedKnows
  <2>2. op.copy \in 0 .. MaxDirs /\ journal.old \in Bundles
    BY <1>2, Typed, Committed
  <2>3. op.copy \in Ids
    BY <2>1, <2>2 DEF Ids
  <2>4. journal.old.ver \in Builds
    BY <2>2, BundleFields
  <2>. QED BY Zenon, <2>1, <2>2, <2>3, <2>4
<1>. DEFINE r == [id |-> op.copy, ver |-> journal.old.ver]
<1>4. r \in Pointers /\ r.id = op.copy /\ r.ver = journal.old.ver
  BY <1>3 DEF Pointers
<1>5. r # NoPtr
  BY <1>3, <1>4, Constants
<1>6. rollback' \in {rollback, r}
  BY DEF Publish
<1>. HIDE DEF r
<1>7. rollback' \in Pointers
  BY <1>4, <1>6 DEF IInv, Types
<1>8. PointersKnow'
  BY <1>1, <1>3, <1>4, <1>6 DEF IInv, Knows, PointersKnow, Present
<1>9. CASE Installed
  <2>1. /\ op' \in Ops /\ ~op'.committed /\ op'.pc \in {"idle", "dispose", "retireStaged"}
        /\ OpKnows' /\ InstallKnows' /\ CommittedKnows'
        /\ \/ op' = Idle
           \/ /\ Same /\ op'.pc \in Installing /\ op'.next = op.next
              /\ op'.pc = "dispose" => op.kind = "restore"
    BY <1>2, <1>9, Committed, LeavesOp
  <2>2. CheckKnows' /\ DeletesKnow'
    <3>1. CASE op' = Idle
      BY <3>1, IdleKnows
    <3>2. CASE op' # Idle
      BY <1>1, <2>1, <3>2 DEF IInv, Knows, CheckKnows, DeletesKnow, CheckPcs, Rejecting, Deleting, Same
    <3>. QED BY <3>1, <3>2
  <2>. QED BY <1>1, <1>2, <1>3, <1>7, <1>8, <2>1, <2>2, CleanupStep DEF IInv, Types
<1>10. CASE rollback' = r /\ op' = [op EXCEPT !.pc = "retire", !.copy = rollback.id]
  <2>1. rollback.id \in 0 .. MaxDirs
    BY <1>2, Committed, Typed
  <2>2. op' \in Ops /\ Same /\ op'.pc = "retire" /\ op'.copy = rollback.id /\ op'.next = op.next /\ op'.committed
    BY <1>2, <1>10, <2>1, Committed DEF Ops, Pcs, Same
  <2>3. OpKnows' /\ InstallKnows'
    BY <1>2, <2>2, Committed DEF OpKnows, InstallKnows, Removals, Rejecting, Same
  <2>4. CheckKnows'
    BY <2>2 DEF IInv, Knows, CheckKnows, CheckPcs, Rejecting, Same
  <2>5. rollback.id # 0 => rollback.id # op.copy /\ dirs[rollback.id].kind = "previous"
    BY <1>3, Constants DEF IInv, Knows, PointersKnow
  <2>6. DeletesKnow'
    BY <1>1, <1>4, <1>10, <2>2, <2>5 DEF IInv, Knows, DeletesKnow, Deleting, Same
  <2>7. Kept'
    <3>1. dirs[op.copy].sound /\ dirs[op.copy] # NoDir
      BY <1>3, Constants
    <3>. QED BY <1>1, <1>3, <1>4, <1>5, <1>10, <3>1 DEF Kept, Sound, Present
  <2>8. Cleaning' => CommittedKnows'
    BY <1>1, <1>2, <2>2, <2>7, Committed DEF CommittedKnows, Removals
  <2>. QED BY <1>1, <1>2, <1>3, <1>7, <1>8, <2>2, <2>3, <2>4, <2>6, <2>8, CleanupStep DEF IInv, Types
<1>. QED BY <1>9, <1>10 DEF Publish, r

LEMMA RetireSteps == ASSUME IInv, Retire PROVE IInv'
<1>1. /\ op.pc = "retire" /\ UNCHANGED <<app, manifests, rejected, desktop>> /\ Delete(op.copy)
      /\ UNCHANGED <<staged, pending, rollback>> /\ UNCHANGED <<dest, incoming, journal>>
      /\ op' = [op EXCEPT !.pc = "remove", !.next = "cleanup", !.copy = 0]
  BY DEF Retire, At, manifests, app
<1>2. op.committed
  BY <1>1 DEF IInv, Knows, OpKnows
<1>3. /\ dirs' \in [Ids -> Dirs] /\ faults' \in 0 .. MaxFaults
      /\ \A j \in Ids : j # op.copy => dirs'[j] = dirs[j]
      /\ \A j \in Ids : dirs'[j] = dirs[j] \/ dirs'[j] = NoDir
  BY <1>1, DeleteTyped DEF IInv
<1>4. op.copy # 0 => op.copy # rollback.id /\ dirs[op.copy].kind = "previous"
  BY <1>1 DEF IInv, Knows, DeletesKnow
<1>5. /\ rollback # NoPtr => rollback.id \in Ids /\ dirs'[rollback.id] = dirs[rollback.id]
      /\ staged # NoPtr => staged.id \in Ids /\ dirs'[staged.id] = dirs[staged.id]
  BY <1>3, <1>4, Constants DEF IInv, Knows, PointersKnow
<1>6. \A j \in Ids : dirs[j].kind # "previous" => dirs'[j].kind # "previous"
  BY <1>3, Constants
<1>7. PointersKnow'
  BY <1>1, <1>5, <1>6 DEF IInv, Knows, PointersKnow, Present
<1>8. op' \in Ops /\ Same /\ op'.pc = "remove" /\ op'.next = "cleanup" /\ op'.committed
  <2>1. op \in Ops /\ 0 \in 0 .. MaxDirs /\ op.committed
    BY <1>2, Committed, Constants
  <2>. QED BY <1>1, <2>1 DEF Ops, Pcs, Tails, Same
<1>9. OpKnows' /\ InstallKnows'
  BY <1>2, <1>8, Committed DEF OpKnows, InstallKnows, Removals, Rejecting, Same
<1>10. CheckKnows'
  BY <1>8 DEF IInv, Knows, CheckKnows, CheckPcs, Rejecting, Same
<1>11. DeletesKnow'
  <2>1. op.gen # 0 => op.gen \in Ids
    BY <1>2, Committed, Typed DEF Ids
  <2>. QED BY <1>1, <1>6, <1>8, <2>1 DEF IInv, Knows, DeletesKnow, Deleting, Same
<1>12. journal'.old = NoApp \/ Kept'
  <2>1. journal.old = NoApp \/ Kept
    BY <1>1 DEF IInv, Knows, CommittedKnows
  <2>2. Kept => Kept'
    BY <1>1, <1>5 DEF Kept, Sound, Present
  <2>. QED BY <1>1, <2>1, <2>2
<1>13. Cleaning' => CommittedKnows'
  BY <1>1, <1>2, <1>8, <1>12, Committed DEF CommittedKnows, Removals
<1>14. Kept => Kept'
  BY <1>1, <1>5 DEF Kept, Sound, Present
<1>. QED BY <1>1, <1>2, <1>3, <1>7, <1>8, <1>9, <1>10, <1>11, <1>13, <1>14, CleanupStep DEF IInv, Types

-----------------------------------------------------------------------------
(* The removal of a bundle, and of the journal.                            *)

(* Where the bundles are when one is removed.                              *)
LEMMA RemovalKnows ==
  ASSUME IInv, op.pc \in Removals
  PROVE  /\ op.kind # "idle" /\ op \in Ops /\ Types /\ Open
         /\ op.next = "cleanup" => op.committed /\ journal.phase = "committed" /\ dest = journal.new
                                   /\ (journal.old = NoApp \/ Kept)
         /\ op.next # "cleanup" => ~op.committed /\ Before
         /\ op.next \in {"abandon", "finish", "rollback", "cleanup"}
<1>1. op.kind # "idle" /\ op \in Ops /\ Types
  BY Busy DEF Removals
<1>2. op.next = "cleanup" => op.committed /\ (journal.old = NoApp \/ Kept)
  BY DEF IInv, Knows, OpKnows, CommittedKnows
<1>3. op.next # "cleanup" => ~op.committed /\ Before /\ Open
  BY DEF IInv, Knows, OpKnows, InstallKnows, Removals
<1>4. op.next \in {"abandon", "finish", "rollback", "cleanup"}
  BY DEF IInv, Knows, OpKnows
<1>. QED BY <1>1, <1>2, <1>3, <1>4, Committed

(* A removal of the incoming bundle, a part of it or all of it.            *)
LEMMA RemovesIncoming ==
  ASSUME IInv, op.pc \in {"remove", "removing"}, UNCHANGED <<dest, journal, store, desktop>>,
         incoming' \in Bundles, incoming' = NoApp \/ incoming'.new = incoming.new,
         incoming' # NoApp => incoming # NoApp, faults' \in 0 .. MaxFaults,
         NEW p \in Removals, Goto(p), p = "unjournal" => incoming' = NoApp
  PROVE  IInv'
<1>1. op.pc \in Removals
  BY DEF Removals
<1>2. op' \in Ops /\ Same /\ op'.pc = p /\ op'.next = op.next /\ op'.committed = op.committed
  BY <1>1, RemovalKnows DEF Goto, Ops, Pcs, Removals, Same
<1>3. dest \in Bundles /\ journal \in Journals /\ UNCHANGED <<dirs, rollback>>
  BY DEF IInv, Types, store, manifests
<1>4. Kept' = Kept /\ Open'
  BY <1>1, <1>3, RemovalKnows DEF Kept, Sound, Present, Open
<1>5. CASE op.next = "cleanup"
  <2>1. Cleaning'
    BY <1>1, <1>4, <1>5, RemovalKnows DEF Cleaning
  <2>2. JournalKnows'
    BY <1>1, <1>4, <2>1, RemovalKnows DEF IInv, Knows, JournalKnows, Open
  <2>3. OpKnows' /\ InstallKnows'
    BY <1>1, <1>2, <1>5, RemovalKnows DEF OpKnows, InstallKnows, Removals, Rejecting, Same
  <2>4. CommittedKnows'
    BY <1>1, <1>2, <1>4, <1>5, <2>1, RemovalKnows DEF CommittedKnows, Removals
  <2>. QED BY <1>2, <1>3, <2>2, <2>3, <2>4, AppStep DEF Installing, Removals
<1>6. CASE op.next # "cleanup"
  <2>1. Before'
    BY <1>1, <1>6, RemovalKnows DEF Before
  <2>2. JournalKnows'
    BY <1>1, <1>4, <2>1, RemovalKnows DEF IInv, Knows, JournalKnows, Open
  <2>3. OpKnows' /\ InstallKnows'
    BY <1>1, <1>2, <1>4, <1>6, <2>1, RemovalKnows DEF OpKnows, InstallKnows, Removals, Rejecting, Same
  <2>4. CommittedKnows'
    BY <1>1, <1>2, <1>6, RemovalKnows DEF CommittedKnows, Removals
  <2>. QED BY <1>2, <1>3, <2>2, <2>3, <2>4, AppStep DEF Installing, Removals
<1>. QED BY <1>5, <1>6

LEMMA RemoveSteps == ASSUME IInv, Remove \/ Removing PROVE IInv'
<1>1. /\ op.pc \in {"remove", "removing"} /\ UNCHANGED <<dest, journal, store, desktop>>
      /\ faults' \in 0 .. MaxFaults /\ incoming \in Bundles
  BY FaultTyped DEF Remove, Removing, At, IInv, Types
<1>2. op.kind # "idle"
  BY <1>1, RemovalKnows DEF Removals
<1>3. CASE UNCHANGED incoming /\ RemovalFailed
  BY <1>1, <1>2, <1>3, LeavesAlone DEF RemovalFailed, app
<1>4. CASE incoming' = NoApp /\ Goto("unjournal")
  BY <1>1, <1>4, RemovesIncoming, Constants DEF Removals
<1>5. CASE incoming # NoApp /\ incoming' = [incoming EXCEPT !.whole = FALSE] /\ Goto("removing")
  <2>1. incoming' \in Bundles /\ incoming'.new = incoming.new
    BY <1>1, <1>5, BundleFields
  <2>. QED BY <1>1, <1>5, <2>1, RemovesIncoming DEF Removals
<1>. QED BY <1>3, <1>4, <1>5 DEF Remove, Removing

LEMMA UnjournalSteps == ASSUME IInv, Unjournal PROVE IInv'
<1>1. /\ op.pc = "unjournal" /\ UNCHANGED <<incoming, store, desktop>>
      /\ faults' \in 0 .. MaxFaults /\ incoming \in Bundles /\ dest \in Bundles /\ journal \in Journals
      /\ journal' \in {journal, NoJournal}
      /\ dest' = (IF journal' = NoJournal THEN [dest EXCEPT !.new = FALSE] ELSE dest)
  BY FaultTyped DEF Unjournal, At, IInv, Types
<1>2. op.kind # "idle" /\ Open
  BY <1>1, RemovalKnows DEF Removals
<1>3. /\ Done \/ Installed \/ Recovered
      /\ journal' = journal => Done \/ Installed \/ op.next = "rollback"
  BY <1>2, Constants DEF Unjournal, Removed, Open
<1>4. dest # NoApp => dest.whole
  BY <1>1, <1>2, RemovalKnows DEF IInv, Knows, JournalKnows, Before, Removals
<1>5. CASE journal' = NoJournal
  <2>1. dest' \in Bundles /\ ~dest'.new /\ (dest' # NoApp => dest'.whole)
    BY <1>1, <1>4, <1>5, BundleFields, NoneMarked
  <2>2. JournalKnows' /\ ~Open' /\ journal' \in Journals
    BY <1>5, <2>1, Constants DEF JournalKnows, Open
  <2>. QED BY <1>1, <1>2, <1>3, <2>1, <2>2, Leaves, Recovers
<1>6. CASE journal' # NoJournal
  <2>1. journal' = journal /\ dest' = dest /\ UNCHANGED <<app, store, desktop>>
    BY <1>1, <1>6 DEF app
  <2>2. CASE Done \/ Installed
    BY <1>1, <1>2, <2>1, <2>2, LeavesAlone
  <2>3. CASE op.next = "rollback" /\ Recovered
    <3>1. dest = journal.old /\ ~dest.new
      BY <1>1, <1>2, <2>3, RemovalKnows DEF Before, Removals, IInv, Knows, JournalKnows
    <3>2. JournalKnows'
      BY <2>1, JournalStays
    <3>. QED BY <1>1, <1>2, <2>1, <2>3, <3>1, <3>2, Recovers
  <2>. QED BY <1>3, <2>1, <2>2, <2>3
<1>. QED BY <1>5, <1>6

LEMMA InstallSteps == ASSUME IInv, InstallStep PROVE IInv'
<1>1. CASE RetireStaged
  <2>1. op.kind # "idle" /\ ~op.committed
    BY <1>1, Busy DEF RetireStaged, At, IInv, Knows, OpKnows, Removals
  <2>. QED BY <1>1, <2>1, Discards DEF RetireStaged
<1>2. CASE Dispose
  BY <1>2, DeletesEnd DEF Dispose, At, End, Deleting
<1>. QED BY <1>1, <1>2, CopySteps, PrepareSteps, ActivateSteps, SwapSteps, MarkSteps, CommitSteps, PreserveSteps,
     PublishSteps, RetireSteps, RemoveSteps, UnjournalSteps, RollbackSteps, SwapBackSteps DEF InstallStep

-----------------------------------------------------------------------------
(* The theorems.                                                           *)

LEMMA StepPreserves == IInv /\ [Next]_vars => IInv'
<1>. SUFFICES ASSUME IInv, [Next]_vars PROVE IInv'
  OBVIOUS
<1>1. CASE UNCHANGED vars
  <2>1. UNCHANGED <<app, store, op, desktop, faults>>
    BY <1>1 DEF vars
  <2>2. Types'
    BY <2>1 DEF IInv, Types, app, store, manifests, desktop
  <2>. QED BY <2>1, <2>2, Aside DEF IInv
<1>2. CASE RecoverStep
  BY <1>2, RecoverPreparedSteps, RecoverCommittedSteps, RecoverNoneSteps DEF RecoverStep
<1>. QED BY <1>1, <1>2, BeginCheckSteps, BeginInstallSteps, BeginRestoreSteps, BeginRecoverSteps, CheckSteps,
     InstallSteps, RetainSteps, DesktopSteps, SpoilSteps, CrashSteps DEF Next

(* Every reachable state satisfies the invariant.                          *)
THEOREM Invariance == Spec => []IInv
BY InitIInv, StepPreserves, PTL DEF Spec

(* The bundles, the journal, the manifests and the operation keep their    *)
(* types, whatever an interrupted operation left behind.                   *)
THEOREM TypeCorrect == Spec => []TypeOK
<1>1. IInv => TypeOK
  <2>. SUFFICES ASSUME IInv PROVE TypeOK
    OBVIOUS
  <2>1. journal # NoJournal => journal.new.new /\ ~journal.old.new
    BY DEF IInv, Knows, JournalKnows, Open
  <2>2. op.kind = "idle" <=> op.pc = "idle"
    BY IdleTyped DEF IInv, Knows, OpKnows
  <2>3. op.committed => journal.phase = "committed"
    BY DEF IInv, Knows, CommittedKnows
  <2>. QED BY <2>1, <2>2, <2>3, Typed DEF IInv, Types, TypeOK, Journals, Phases, Dirs
<1>. QED BY <1>1, Invariance, PTL

(* The installed app is whole in every reachable state, the one it         *)
(* replaces is in one of the two places until the commit, and kept once    *)
(* the commit is known to be durable (commitPreparedIncoming,              *)
(* cleanupCommitted).                                                      *)
THEOREM AppsKept == Spec => []AppKept
<1>1. IInv => AppKept
  <2>. SUFFICES ASSUME IInv PROVE AppKept
    OBVIOUS
  <2>1. dest # NoApp => dest.whole
    BY DEF IInv, Knows, JournalKnows, Before, After, Cleaning
  <2>2. ASSUME journal.phase \in {"prepared", "swapped", "rollback"}
        PROVE  journal.old \in {dest, incoming, NoApp}
    <3>1. Open
      BY <2>2, Constants DEF Open
    <3>. QED BY <2>2, <3>1 DEF IInv, Knows, JournalKnows, Before, After, Cleaning
  <2>3. op.committed => Cleaning
    BY Committed
  <2>. QED BY <2>1, <2>2, <2>3 DEF AppKept, Cleaning, Kept
<1>. QED BY <1>1, Invariance, PTL

(* The manifests of the update and of the rollback generation name one     *)
(* that is there (promotePendingUpdate, saveRollbackGeneration).           *)
THEOREM NamesKept == Spec => []ManifestsKept
<1>1. IInv => ManifestsKept
  <2>. SUFFICES ASSUME IInv PROVE ManifestsKept
    OBVIOUS
  <2>1. rollback # NoPtr =>
          rollback.id \in Ids /\ dirs[rollback.id].kind = "previous" /\ dirs[rollback.id].ver = rollback.ver
    BY DEF IInv, Knows, PointersKnow
  <2>2. rollback # NoPtr => Present(rollback)
    BY <2>1, Constants DEF Present
  <2>3. staged # NoPtr => Present(staged) \/ staged.ver \in rejected
    BY DEF IInv, Knows, PointersKnow
  <2>. QED BY <2>1, <2>2, <2>3 DEF ManifestsKept
<1>. QED BY <1>1, Invariance, PTL

(* The installed app, the one it replaces, and the generations the         *)
(* manifests name are kept together (commitPreparedIncoming,               *)
(* promotePendingUpdate, saveRollbackGeneration).                          *)
THEOREM UpdatesKept == Spec => []UpdateKept
<1>1. AppKept /\ ManifestsKept => UpdateKept
  BY DEF UpdateKept
<1>. QED BY <1>1, AppsKept, NamesKept, PTL

-----------------------------------------------------------------------------
(* DesktopUpdate implements AtomicInstall: the journal is the installation *)
(* under way, which its phase commits.                                     *)

Undone == op.pc \in {"copy", "prepare"}
Undoing == op.pc \in {"rollback", "swapBack"}
Final == journal.phase = "committed" /\ dest = journal.new /\ ~Undoing
NewApp == [journal.new EXCEPT !.new = FALSE]
InstallMove == [AppInstall!InstallNext]_(AppInstall!installVars)

(* The steps that lead an operation where the journal is written.          *)
Watched == {"copy", "prepare", "mark", "commit", "rollback", "swapBack"}
Uncommitted == op.pc \in {"mark", "commit"} => journal.phase # "committed"

LEMMA PcIs ==
  ASSUME Types, NEW o \in Ops, op' = o
  PROVE  op'.pc = o.pc /\ o.pc \in Pcs
BY DEF Ops

LEMMA CheckSteers == ASSUME IInv, CheckStep PROVE op'.pc \notin Watched
<1>1. op \in Ops /\ op.gen \in 0 .. MaxDirs /\ 0 \in 0 .. MaxDirs /\ Idle.pc = "idle"
  BY Typed, IdleTyped, Constants DEF IInv, Types
<1>2. /\ {"move", "forget", "delete", "point", "assess", "promote", "promoted", "supersede", "reject",
          "tidy", "download"} \cap Watched = {}
      /\ "idle" \notin Watched
  BY DEF Watched
<1>3. CASE Reject \/ Quarantine \/ Assess \/ Promoted \/ Supersede \/ Promote
  BY <1>1, <1>2, <1>3 DEF Reject, Quarantine, Assess, Promoted, Supersede, Promote, Goto, End, Ops
<1>4. CASE Compare \/ Tidy
  BY <1>1, <1>2, <1>4 DEF Compare, Tidy, Goto, End, DiscardPending, DiscardStaged, Ops
<1>5. CASE Download \/ Point
  BY <1>1, <1>2, <1>5 DEF Download, Point, Goto, End, Ops
<1>6. CASE Forget
  <2>1. op.next \in {"idle", "compare"}
    BY <1>6 DEF Forget, At, IInv, Knows, OpKnows, Rejecting
  <2>. QED BY <1>1, <1>2, <1>6, <2>1 DEF Forget, Resume, Ops, Watched
<1>7. CASE DeleteDir
  <2>1. op.next \in {"idle", "tidy", "download"}
    BY <1>7 DEF DeleteDir, At, IInv, Knows, OpKnows
  <2>. QED BY <1>1, <1>2, <1>7, <2>1 DEF DeleteDir, Resume, Ops, Watched
<1>. QED BY <1>3, <1>4, <1>5, <1>6, <1>7 DEF CheckStep

LEMMA BeginSteers ==
  ASSUME IInv, BeginCheck \/ BeginInstall \/ BeginRestore \/ BeginRecover \/ Crash
  PROVE  op'.pc \notin Watched
<1>1. Idle \in Ops /\ Idle.pc = "idle"
  BY IdleTyped
<1>2. {"idle", "reject", "compare", "delete", "recover", "dispose"} \cap Watched = {}
  BY DEF Watched
<1>3. CASE BeginCheck
  BY <1>1, <1>2, <1>3 DEF BeginCheck, Begin, End, Idle
<1>4. CASE BeginInstall
  BY <1>1, <1>2, <1>4 DEF BeginInstall, Idle
<1>5. CASE BeginRestore
  BY <1>1, <1>2, <1>5 DEF BeginRestore, Idle
<1>6. CASE BeginRecover \/ Crash
  BY <1>1, <1>2, <1>6 DEF BeginRecover, Crash, Idle
<1>. QED BY <1>3, <1>4, <1>5, <1>6

LEMMA EndSteers ==
  ASSUME op \in Ops, Done \/ Installed \/ RemovalFailed
  PROVE  op'.pc \notin Watched
<1>1. Idle.pc = "idle" /\ {"idle", "dispose", "retireStaged"} \cap Watched = {}
  BY IdleTyped DEF Watched
<1>. QED BY <1>1 DEF Done, Installed, RemovalFailed, End, Ops

LEMMA RemoveSteers ==
  ASSUME op \in Ops, NEW tail \in Tails, RemoveThen(tail) \/ Abandon
  PROVE  op'.pc \notin Watched
<1>1. "remove" \notin Watched
  BY DEF Watched
<1>. QED BY <1>1, EndSteers DEF RemoveThen, Abandon, Ops

(* The steps that write no journal and exchange no bundles.                *)
LEMMA InstallSteers ==
  ASSUME IInv, \/ Activate \/ Preserve \/ Publish \/ Retire \/ Remove \/ Removing
               \/ RetireStaged \/ Dispose
  PROVE  op'.pc \notin Watched /\ UNCHANGED <<dest, journal>>
<1>1. op \in Ops
  BY DEF IInv, Types
<1>2. {"swap", "publish", "retire", "remove", "removing", "unjournal", "delete", "idle"} \cap Watched = {}
      /\ Idle.pc = "idle"
  BY IdleTyped DEF Watched
<1>3. UNCHANGED <<dest, journal>>
  BY DEF Activate, Preserve, Publish, Retire, Remove, Removing, RetireStaged, Dispose, app
<1>4. CASE Activate
  BY <1>1, <1>2, <1>3, <1>4, RemoveSteers DEF Activate, Goto, Ops, Tails
<1>5. CASE Preserve
  BY <1>1, <1>2, <1>3, <1>5, EndSteers, RemoveSteers DEF Preserve, Ops, Tails
<1>6. CASE Publish \/ Retire
  BY <1>1, <1>2, <1>3, <1>6, EndSteers DEF Publish, Retire, Ops
<1>7. CASE Remove \/ Removing
  BY <1>1, <1>2, <1>3, <1>7, EndSteers DEF Remove, Removing, Goto, Ops
<1>8. CASE RetireStaged \/ Dispose
  BY <1>1, <1>2, <1>3, <1>8 DEF RetireStaged, Dispose, DiscardStaged, End, Ops
<1>. QED BY <1>3, <1>4, <1>5, <1>6, <1>7, <1>8

-----------------------------------------------------------------------------
(* Where the abstract installation stands.                                 *)

LEMMA NewAppWhole ==
  ASSUME Types, JournalKnows, Open
  PROVE  NewApp \in WholeApps /\ ~NewApp.new /\ journal.old # journal.new
<1>1. journal.new \in Bundles /\ journal.new.whole /\ journal.new.new /\ ~journal.old.new
  BY Typed DEF JournalKnows
<1>. QED BY <1>1, BundleFields DEF NewApp, WholeApps

LEMMA FinalIs ==
  /\ Final \in BOOLEAN /\ Final' \in BOOLEAN
  /\ ~Open => Final = FALSE
  /\ ~Open' => Final' = FALSE
BY Constants DEF Final, Open

(* The app is neither committed nor being undone.                          *)
LEMMA UndoneIs ==
  ASSUME IInv, Undone
  PROVE  Final = FALSE /\ (Open => dest = journal.old)
<1>1. Open => dest = journal.old
  BY DEF IInv, Knows, InstallKnows, Undone
<1>2. Open => journal.old # journal.new
  BY NewAppWhole DEF IInv, Knows
<1>. QED BY <1>1, <1>2, FinalIs DEF Final

(* A step that leaves the three of them alone.                             *)
LEMMA Stutters ==
  ASSUME Open, Open', Final = Final', Undone <=> Undone', journal'.new = journal.new, journal'.old = journal.old
  PROVE  InstallMove
BY DEF InstallMove, AppInstall!installVars, Open, Final, Undone, Undoing, NewApp

LEMMA NoneOpen ==
  ASSUME ~Open, ~Open', dest' = dest
  PROVE  InstallMove
BY FinalIs DEF InstallMove, AppInstall!installVars, Open, Final, Undoing

(* An operation that ends or goes on elsewhere: what it undid is committed *)
(* or under way again.                                                     *)
LEMMA StepsAside ==
  ASSUME IInv, UNCHANGED <<dest, journal>>, op' = op \/ op'.pc \notin Watched
  PROVE  InstallMove
<1>0. Open' = Open
  BY DEF Open
<1>1. CASE ~Open
  BY <1>0, <1>1, NoneOpen
<1>2. CASE Open /\ op' = op
  BY <1>2, <1>0, Stutters DEF Final, Undone, Undoing
<1>3. CASE Open /\ op'.pc \notin Watched
  <2>1. ~Undone' /\ ~Undoing'
    BY <1>3 DEF Undone, Undoing, Watched
  <2>2. CASE Undone
    <3>1. Final = FALSE /\ Final' = FALSE
      BY <2>2, UndoneIs, FinalIs, <1>3, NewAppWhole DEF Final, IInv, Knows
    <3>2. NewApp \in WholeApps /\ NewApp' = NewApp
      BY <1>3, NewAppWhole DEF IInv, Knows, NewApp
    <3>3. AppInstall!Replace
      BY <1>3, <2>1, <2>2, <3>1, <3>2 DEF AppInstall!Replace, Open, Undone, NewApp, Final, Undoing
    <3>. QED BY <3>3 DEF InstallMove, AppInstall!InstallNext
  <2>3. CASE ~Undone /\ Final = Final'
    BY <1>0, <1>3, <2>1, <2>3, Stutters
  <2>4. CASE ~Undone /\ Final # Final'
    <3>1. Final = FALSE /\ Final' = TRUE
      BY <2>1, <2>4, FinalIs DEF Final
    <3>2. AppInstall!Commit
      BY <1>3, <2>1, <2>4, <3>1 DEF AppInstall!Commit, Open, Undone, Final, Undoing
    <3>. QED BY <3>2 DEF InstallMove, AppInstall!InstallNext
  <2>. QED BY <2>2, <2>3, <2>4
<1>. QED BY <1>1, <1>2, <1>3

-----------------------------------------------------------------------------
(* The steps that write or remove the journal, or exchange the bundles.    *)

LEMMA CopyInstalls == ASSUME IInv, Copy PROVE InstallMove /\ Uncommitted'
<1>1. op.pc = "copy" /\ UNCHANGED <<dest, journal>> /\ op \in Ops
  BY DEF Copy, At, IInv, Types
<1>2. CASE Done
  <2>1. op'.pc \notin Watched
    BY <1>1, <1>2, EndSteers
  <2>. QED BY <1>1, <2>1, StepsAside DEF Uncommitted, Watched
<1>3. CASE Goto("prepare")
  <2>1. op'.pc = "prepare"
    BY <1>1, <1>3 DEF Goto, Ops
  <2>2. Undone /\ Undone' /\ Open' = Open
    BY <1>1, <2>1 DEF Undone, Open
  <2>3. Open => Final = FALSE /\ Final' = FALSE
    BY <1>1, <2>2, UndoneIs, FinalIs, NewAppWhole DEF Final, IInv, Knows
  <2>4. InstallMove
    BY <1>1, <2>2, <2>3, Stutters, NoneOpen
  <2>. QED BY <2>1, <2>4 DEF Uncommitted
<1>. QED BY <1>2, <1>3 DEF Copy

LEMMA PrepareInstalls == ASSUME IInv, Prepare PROVE InstallMove /\ Uncommitted'
<1>1. /\ op.pc = "prepare" /\ dest' = dest /\ op \in Ops /\ journal' \in {journal, Prepared}
      /\ Done \/ (journal' = Prepared /\ Goto("activate"))
  BY DEF Prepare, Write, At, IInv, Types
<1>2. op'.pc \notin Watched
  <2>1. "activate" \notin Watched
    BY DEF Watched
  <2>. QED BY <1>1, <2>1, EndSteers DEF Goto, Ops
<1>3. Uncommitted' /\ ~Undone'
  BY <1>2 DEF Uncommitted, Watched, Undone
<1>4. CASE journal' = journal
  BY <1>1, <1>2, <1>3, <1>4, StepsAside
<1>5. CASE journal' = Prepared
  <2>1. /\ journal'.phase = "prepared" /\ journal'.new = incoming /\ journal'.old = dest
        /\ incoming \in Bundles /\ incoming.new /\ incoming.whole
    BY <1>1, <1>5 DEF Prepared, IInv, Types, Knows, InstallKnows
  <2>2. Open' /\ Final' = FALSE /\ NewApp' \in WholeApps
    BY <2>1, Constants, BundleFields DEF Open, Final, NewApp, WholeApps
  <2>3. Undone /\ Final = FALSE /\ (Open => dest = journal.old)
    BY <1>1, UndoneIs DEF Undone
  <2>4. AppInstall!Replace
    BY <1>1, <1>3, <2>1, <2>2, <2>3 DEF AppInstall!Replace, Open, Undone, Undoing, Final, NewApp
  <2>. QED BY <1>3, <2>4 DEF InstallMove, AppInstall!InstallNext
<1>. QED BY <1>1, <1>4, <1>5

LEMMA SwapInstalls == ASSUME IInv, Swap PROVE InstallMove /\ Uncommitted'
<1>1. op.pc = "swap" /\ journal' = journal /\ op \in Ops
  BY DEF Swap, At, IInv, Types
<1>2. journal.phase = "prepared" /\ Open /\ Open'
  BY <1>1, Constants DEF Open, IInv, Knows, InstallKnows
<1>3. ~Undone /\ ~Undone'
  <2>1. op'.pc = "mark" \/ op'.pc \notin Watched
    BY <1>1, EndSteers DEF Swap, Goto, Ops
  <2>. QED BY <1>1, <2>1 DEF Undone, Watched
<1>4. Final = FALSE /\ Final' = FALSE
  BY <1>1, <1>2 DEF Final
<1>. QED BY <1>1, <1>2, <1>3, <1>4, Stutters DEF Uncommitted

LEMMA MarkInstalls == ASSUME IInv, Uncommitted, Mark PROVE InstallMove /\ Uncommitted'
<1>1. /\ op.pc = "mark" /\ journal' \in {journal, Phase("swapped")} /\ op \in Ops
      /\ Goto("commit") \/ Goto("rollback")
  BY DEF Mark, Write, At, IInv, Types
<1>2. Open /\ journal.phase # "committed"
  BY <1>1 DEF IInv, Knows, InstallKnows, Uncommitted
<1>3. journal'.new = journal.new /\ journal'.old = journal.old /\ journal'.phase # "committed" /\ Open'
  BY <1>1, <1>2, PhaseTyped DEF IInv, Phases, Open
<1>4. ~Undone /\ ~Undone'
  BY <1>1 DEF Undone, Goto, Ops
<1>5. Final = FALSE /\ Final' = FALSE
  BY <1>2, <1>3 DEF Final
<1>. QED BY <1>2, <1>3, <1>4, <1>5, Stutters DEF Uncommitted

LEMMA CommitInstalls == ASSUME IInv, Uncommitted, Commit PROVE InstallMove /\ Uncommitted'
<1>1. /\ op.pc = "commit" /\ journal' \in {journal, Phase("committed")} /\ op \in Ops /\ dest' = dest
      /\ \/ journal' = Phase("committed") /\ op'.pc = "tail"
         \/ op'.pc = "rollback"
  BY DEF Commit, Write, At, IInv, Types, Goto, Ops
<1>2. Open /\ journal.phase # "committed" /\ dest = journal.new
  BY <1>1 DEF IInv, Knows, InstallKnows, Uncommitted, After
<1>3. journal'.new = journal.new /\ journal'.old = journal.old /\ Open'
  BY <1>1, <1>2, PhaseTyped DEF IInv, Phases, Open
<1>4. ~Undone /\ ~Undone' /\ Final = FALSE /\ Uncommitted'
  BY <1>1, <1>2 DEF Undone, Final, Uncommitted
<1>5. CASE op'.pc = "rollback"
  <2>1. Final' = FALSE
    BY <1>5 DEF Final, Undoing
  <2>. QED BY <1>2, <1>3, <1>4, <2>1, Stutters
<1>6. CASE journal' = Phase("committed") /\ op'.pc = "tail"
  <2>1. journal'.phase = "committed"
    BY <1>6, PhaseTyped DEF IInv, Phases
  <2>2. Final' = TRUE
    BY <1>1, <1>2, <1>3, <1>6, <2>1 DEF Final, Undoing
  <2>3. AppInstall!Commit
    BY <1>2, <1>3, <1>4, <2>2 DEF AppInstall!Commit, Open, Undone, Final, Undoing
  <2>. QED BY <1>4, <2>3 DEF InstallMove, AppInstall!InstallNext
<1>. QED BY <1>1, <1>5, <1>6

LEMMA RollbackInstalls == ASSUME IInv, Rollback \/ SwapBack PROVE InstallMove /\ Uncommitted'
<1>1. op \in Ops /\ op.pc \in {"rollback", "swapBack"}
  BY DEF Rollback, SwapBack, At, IInv, Types
<1>2. Open /\ After /\ journal.old # journal.new /\ ~Undone /\ Undoing /\ Final = FALSE
  <2>1. Open /\ After
    BY <1>1 DEF IInv, Knows, InstallKnows
  <2>. QED BY <1>1, <2>1, NewAppWhole DEF IInv, Knows, Undone, Undoing, Final
<1>3. CASE Done /\ UNCHANGED <<dest, journal>>
  <2>1. op'.pc \notin Watched
    BY <1>1, <1>3, EndSteers
  <2>. QED BY <1>3, <2>1, StepsAside DEF Uncommitted, Watched
<1>4. CASE Goto("swapBack") /\ journal' \in {journal, Phase("rollback")}
  <2>1. op'.pc = "swapBack"
    BY <1>1, <1>4 DEF Goto, Ops
  <2>2. journal'.new = journal.new /\ journal'.old = journal.old /\ Open'
    BY <1>2, <1>4, PhaseTyped DEF IInv, Phases, Open
  <2>3. ~Undone' /\ Final' = FALSE /\ Uncommitted'
    BY <2>1 DEF Undone, Final, Undoing, Uncommitted
  <2>. QED BY <1>2, <2>2, <2>3, Stutters
<1>5. CASE Swapped /\ RemoveThen("rollback") /\ journal' = journal
  <2>1. op'.pc = "remove"
    BY <1>1, <1>5 DEF RemoveThen, Ops
  <2>2. dest' = journal.old
    BY <1>2, <1>5 DEF Swapped, After
  <2>3. ~Undone' /\ Final' = FALSE /\ Uncommitted' /\ Open'
    BY <1>2, <1>5, <2>1, <2>2 DEF Undone, Final, Uncommitted, Open
  <2>. QED BY <1>2, <1>5, <2>3, Stutters
<1>. QED BY <1>3, <1>4, <1>5 DEF Rollback, SwapBack

(* The journal goes with the new app installed, or with the old one again. *)
LEMMA UnjournalInstalls == ASSUME IInv, Unjournal PROVE InstallMove /\ Uncommitted'
<1>1. /\ op.pc = "unjournal" /\ op \in Ops /\ journal' \in {journal, NoJournal}
      /\ dest' = (IF journal' = NoJournal THEN [dest EXCEPT !.new = FALSE] ELSE dest)
  BY DEF Unjournal, At, IInv, Types
<1>2. op.kind # "idle" /\ Open /\ op.pc \in Removals
  BY <1>1, RemovalKnows DEF Removals
<1>3. /\ Done \/ Installed \/ Recovered
      /\ journal' = journal => Done \/ Installed \/ op.next = "rollback"
  BY <1>2, Constants DEF Unjournal, Removed, Open
<1>4. op'.pc \notin Watched \/ (op'.pc = "copy" /\ Recovered)
  BY <1>1, <1>2, <1>3, EndSteers, RecoveredOp DEF Watched
<1>5. Uncommitted' /\ ~Undone
  BY <1>1, <1>4 DEF Uncommitted, Watched, Undone
<1>6. journal.old # journal.new /\ ~journal.old.new /\ journal.old \in Bundles /\ journal.new \in Bundles
  BY <1>2, NewAppWhole, Typed DEF IInv, Knows, JournalKnows
<1>7. CASE journal' = NoJournal
  <2>1. Final' = FALSE /\ dest' = [dest EXCEPT !.new = FALSE]
    BY <1>1, <1>7, FinalIs DEF Open
  <2>2. dest = journal.new \/ (dest = journal.old /\ Final = FALSE)
    BY <1>2, <1>6, RemovalKnows DEF Before, Final
  <2>3. dest' = NewApp \/ (dest' = journal.old /\ Final = FALSE)
    <3>1. [journal.old EXCEPT !.new = FALSE] = journal.old
      BY <1>6 DEF Bundles
    <3>. QED BY <2>1, <2>2, <3>1 DEF NewApp
  <2>4. AppInstall!Conclude
    BY <1>2, <1>5, <1>7, <2>1, <2>3 DEF AppInstall!Conclude, Open, Undone, Undoing, Final, NewApp
  <2>. QED BY <1>5, <2>4 DEF InstallMove, AppInstall!InstallNext
<1>8. CASE journal' = journal /\ journal # NoJournal /\ op'.pc \notin Watched
  BY <1>1, <1>5, <1>8, StepsAside
<1>9. CASE journal' = journal /\ journal # NoJournal /\ op'.pc = "copy"
  <2>1. op.next = "rollback"
    BY <1>1, <1>3, <1>9, EndSteers DEF Watched
  <2>2. dest = journal.old /\ dest' = dest
    BY <1>1, <1>2, <1>9, <2>1, RemovalKnows DEF Before
  <2>3. Undone' /\ Final = FALSE /\ Final' = FALSE
    BY <1>6, <1>9, <2>2 DEF Undone, Final
  <2>4. AppInstall!Conclude
    BY <1>5, <1>9, <2>3 DEF AppInstall!Conclude, Undone, Undoing, Final
  <2>. QED BY <1>5, <2>4 DEF InstallMove, AppInstall!InstallNext
<1>. QED BY <1>1, <1>2, <1>4, <1>7, <1>8, <1>9 DEF Open

-----------------------------------------------------------------------------
(* The recovery, and every step.                                           *)

LEMMA RecoverInstalls == ASSUME IInv, RecoverStep PROVE InstallMove /\ Uncommitted'
<1>1. op.pc = "recover" /\ UNCHANGED <<dest, journal>> /\ op \in Ops /\ Open' = Open /\ ~Undone
  BY DEF RecoverStep, RecoverPrepared, RecoverSwapped, RecoverRollback, RecoverCommitted, RecoverNone,
     RecoverActivated, At, IInv, Types, app, Open, Undone
<1>2. CASE RecoverNone
  <2>1. ~Open /\ op'.pc \in {"idle", "copy"}
    BY <1>1, <1>2, Recovering, RecoveredOp DEF RecoverNone, Open
  <2>. QED BY <1>1, <2>1, NoneOpen DEF Uncommitted
<1>3. CASE RecoverCommitted
  <2>1. op'.pc \notin Watched
    <3>1. "tail" \notin Watched
      BY DEF Watched
    <3>. QED BY <1>1, <1>3, <3>1, EndSteers DEF RecoverCommitted, Deferred, Ops
  <2>. QED BY <1>1, <2>1, StepsAside DEF Uncommitted, Watched
<1>4. CASE RecoverPrepared \/ RecoverSwapped \/ RecoverRollback
  <2>1. journal.phase \in {"prepared", "swapped", "rollback"} /\ Open
    BY <1>4, Constants DEF RecoverPrepared, RecoverSwapped, RecoverRollback, Open
  <2>2. Final = FALSE /\ Final' = FALSE /\ Uncommitted'
    BY <1>1, <2>1 DEF Final, Uncommitted
  <2>3. op'.pc \in {"commit", "rollback", "unjournal", "remove"} \/ op'.pc \notin Watched
    <3>1. CASE Done
      BY <1>1, <3>1, EndSteers
    <3>2. CASE Abandon
      BY <1>1, <3>2, RemoveSteers, "abandon" \in Tails DEF Tails
    <3>3. CASE Goto("commit") \/ Goto("rollback")
      BY <1>1, <3>3 DEF Goto, Ops
    <3>4. CASE \/ op' = [op EXCEPT !.pc = "unjournal", !.next = "finish"]
               \/ op' = [op EXCEPT !.pc = "remove", !.next = "finish"]
      BY <1>1, <3>4 DEF Ops
    <3>. QED BY <1>4, <3>1, <3>2, <3>3, <3>4 DEF RecoverPrepared, RecoverSwapped, RecoverRollback,
         RecoverActivated, RecoverClean, FinishRollback, RemoveThen, Deferred
  <2>4. ~Undone'
    BY <2>3 DEF Undone, Watched
  <2>. QED BY <1>1, <2>1, <2>2, <2>4, Stutters
<1>. QED BY <1>2, <1>3, <1>4 DEF RecoverStep

LEMMA StepInstalls == ASSUME IInv, Uncommitted, [Next]_vars PROVE InstallMove /\ Uncommitted'
<1>1. CASE \/ UNCHANGED vars
           \/ Retain \/ Launch \/ Quit \/ Release \/ Spoil
  <2>1. UNCHANGED <<dest, journal, op>>
    BY <1>1 DEF vars, Retain, Launch, Quit, Release, Spoil, app
  <2>. QED BY <2>1, StepsAside DEF Uncommitted
<1>2. CASE BeginCheck \/ BeginInstall \/ BeginRestore \/ BeginRecover \/ Crash
  <2>1. op'.pc \notin Watched
    BY <1>2, BeginSteers
  <2>2. UNCHANGED <<dest, journal>>
    BY <1>2 DEF BeginCheck, BeginInstall, BeginRestore, BeginRecover, Crash, app
  <2>. QED BY <2>1, <2>2, StepsAside DEF Uncommitted, Watched
<1>3. CASE CheckStep
  <2>1. op'.pc \notin Watched
    BY <1>3, CheckSteers
  <2>2. UNCHANGED <<dest, journal>>
    BY <1>3 DEF CheckStep, Reject, Quarantine, Forget, Compare, Tidy, DeleteDir, Download, Point, Assess,
       Promote, Promoted, Supersede, app
  <2>. QED BY <2>1, <2>2, StepsAside DEF Uncommitted, Watched
<1>4. CASE InstallStep
  <2>1. CASE Activate \/ Preserve \/ Publish \/ Retire \/ Remove \/ Removing \/ RetireStaged \/ Dispose
    BY <2>1, InstallSteers, StepsAside DEF Uncommitted, Watched
  <2>. QED BY <1>4, <2>1, CopyInstalls, PrepareInstalls, SwapInstalls, MarkInstalls, CommitInstalls,
       RollbackInstalls, UnjournalInstalls DEF InstallStep
<1>5. CASE RecoverStep
  BY <1>5, RecoverInstalls
<1>. QED BY <1>1, <1>2, <1>3, <1>4, <1>5 DEF Next

(* Whatever crashes, failed steps, cancellations and starts of the desktop *)
(* app interrupt it, an installation ends with the app it started from or  *)
(* with the new one, and with the new one once its commit is written       *)
(* (installHoldingLease, recoverHoldingLease).                             *)
THEOREM ImplementsInstall == Spec => AppInstalled
<1>1. Init => AppInstall!InstallInit /\ Uncommitted
  <2>. SUFFICES ASSUME Init PROVE AppInstall!InstallInit /\ Uncommitted
    OBVIOUS
  <2>1. journal = NoJournal /\ op = Idle /\ IInv
    BY InitIInv DEF Init
  <2>2. dest \in WholeApps /\ Final = FALSE /\ Uncommitted
    BY <2>1, IdleTyped, FinalIs DEF IInv, Types, Knows, JournalKnows, WholeApps, Open, Uncommitted
  <2>. QED BY <2>1, <2>2 DEF AppInstall!InstallInit, WholeApps, Final, Undoing
<1>2. IInv /\ Uncommitted /\ [Next]_vars
        => [AppInstall!InstallNext]_(AppInstall!installVars) /\ Uncommitted'
  BY StepInstalls DEF InstallMove
<1>. QED BY <1>1, <1>2, Invariance, PTL DEF Spec, AppInstalled, AppInstall!InstallSpec
=============================================================================
