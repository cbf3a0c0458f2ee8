------------------------- MODULE RuntimeUpdateProofs -------------------------
(***************************************************************************)
(* The inductive invariant of RuntimeUpdate and what follows from it: the  *)
(* installed pair is whole and durable once committed, can be put back     *)
(* until then, and never changes under a runtime.  Then that of MacRuntime:*)
(* the launchers are of one activation, and no running generation goes.    *)
(* Both implement AtomicInstall.                                           *)
(***************************************************************************)
EXTENDS RuntimeUpdate, MacRuntime, FiniteSetTheorems, WellFoundedInduction, TLAPS

(* The steps under the guards, and those that publish a journaled pair.    *)
Publishing == {"interruptible", "installing", "rename", "note", "sync", "noteSynced", "verify",
               "noteVerified", "mark", "noteSaved"}
Undoing == {"restore", "sweep", "settle"}
Guarded == {"reobserve", "journal", "backup", "clean", "noteCleaned", "finalize", "unjournal",
            "recover"} \cup Publishing \cup Undoing
Installs == {"observe", "stage", "acquire"} \cup Guarded
Fresh == {"observe", "stage", "acquire", "reobserve", "journal"}

WholePair(p) == (p["helper"] = None /\ p["runtime"] = OldRelease) \/ p["helper"] = p["runtime"]
Durable == \A f \in Files : unsynced[f] = "none"
Published == \A f \in Files : dest[f] = NewFile
BackedUp == \A f \in Files : backup[f] = journal.old[f]
InPlace == \A f \in Files : dest[f] = journal.old[f]
StagedNew == \A f \in Files : staged[f] = NewFile

(* Under the guards no runtime is up, and none can start.                  *)
GuardsHold ==
  /\ proc.guards => ~booting /\ "unit" \notin running
  /\ proc.pc \in Guarded => proc.guards
  /\ proc.pc \in Guarded \ {"reobserve"} => running = {}

(* The copy in memory has the transaction of the file, which only the      *)
(* holder of the lock changes.                                             *)
CopyKnows ==
  proc.pc \notin {"idle", "maintain", "check", "install"} => proc.mem.txn = state.txn

(* An installation begins without journal and transaction; a recovery      *)
(* begins from a journal.                                                  *)
BeginKnows ==
  /\ proc.pc \in Installs => proc.want \in Version
  /\ proc.pc \in {"stage", "journal", "backup"} \cup Publishing => ~proc.recovering
  /\ proc.pc \in Fresh =>
       IF proc.recovering THEN journal # None ELSE journal = None /\ state.txn = None
  /\ proc.pc \in {"acquire", "reobserve", "journal"} /\ ~proc.recovering =>
       txns # 0 /\ \A f \in Files : staged[f] = [txn |-> txns, version |-> proc.want]
  /\ proc.pc \in {"install", "observe", "stage", "acquire", "reobserve", "journal", "backup",
                  "interruptible", "installing"} => proc.at = 1

JournalKnows ==
  /\ journal = None => Durable /\ WholePair(dest)
  /\ journal # None => WholePair(journal.old)
  /\ proc.pc \in Guarded \ Fresh => journal # None

(* What a publication has done to the files and to the state file.         *)
PublishKnows ==
  /\ proc.pc \in {"backup"} \cup Publishing =>
       /\ journal.txn = txns /\ journal.version = proc.want /\ journal.phase < Saved
  /\ proc.pc \in {"backup", "interruptible"} => state.txn = None
  /\ proc.pc \in {"installing", "rename", "note", "sync", "noteSynced", "verify", "noteVerified", "mark"} =>
       state.txn = [id |-> txns, version |-> proc.want, committed |-> FALSE]
  /\ proc.pc = "noteSaved" => TxnCommitted
  /\ proc.pc \in {"backup", "interruptible", "installing"} => InPlace /\ StagedNew
  /\ proc.pc \in Publishing => BackedUp
  /\ proc.pc = "rename" =>
       \A i \in 1..Renamed : IF i < proc.at THEN dest[FileAt(i)] = NewFile
                             ELSE staged[FileAt(i)] = NewFile
  /\ proc.pc = "note" =>
       \A i \in 1..Renamed : IF i <= proc.at THEN dest[FileAt(i)] = NewFile
                             ELSE staged[FileAt(i)] = NewFile
  /\ proc.pc \in {"sync", "noteSynced", "verify", "noteVerified", "mark", "noteSaved"} => Published
  /\ proc.pc \in {"noteSynced", "verify", "noteVerified", "mark", "noteSaved"} => Durable

(* The journal is cleaned over a committed pair, and removed over that or  *)
(* over the old pair put back.                                             *)
CleanKnows ==
  /\ proc.pc \in {"clean", "noteCleaned"} => Committed
  /\ proc.pc = "finalize" => journal.phase = Cleaned
  /\ proc.pc = "unjournal" => Durable /\ (Published \/ InPlace)

UndoKnows ==
  /\ proc.pc \in Undoing => journal.phase < Saved /\ ~TxnCommitted
  /\ proc.pc = "restore" => \A i \in 1..Renamed : i < proc.at => dest[FileAt(i)] = journal.old[FileAt(i)]
  /\ proc.pc \in {"sweep", "settle"} => InPlace
  /\ proc.pc = "settle" => Durable

Knows == GuardsHold /\ CopyKnows /\ BeginKnows /\ JournalKnows /\ PublishKnows /\ CleanKnows /\ UndoKnows
IInv == TypeOK /\ Knows /\ OldPairKept /\ CommittedOnDisk

-----------------------------------------------------------------------------
(* What the operators of the state file return: a state, with its           *)
(* transaction as it was.                                                   *)

(* The directory has two files.                                            *)
LEMMA RenamedTwo == Renamed = 2
<1>1. IsFiniteSet({"runtime"}) /\ Cardinality({"runtime"}) = 1 /\ "helper" \notin {"runtime"}
  BY FS_Singleton
<1>2. Cardinality({"runtime"} \cup {"helper"}) = 2
  BY <1>1, FS_AddElement
<1>3. Files = {"runtime"} \cup {"helper"}
  BY DEF Files
<1>. QED BY <1>2, <1>3 DEF Renamed

LEMMA StateFields ==
  ASSUME NEW V, NEW n, NEW s \in StateOf(V, n)
  PROVE  /\ s.status \in Statuses /\ s.installed \in Maybe(V) /\ s.prepared \in Maybe(V)
         /\ s.failedPrepare \in Maybe(V) /\ s.failedInstall \in Maybe(V)
         /\ s.failure \in Maybe(FailureOf(V, n)) /\ s.txn \in Maybe(TxnOf(V, n))
         /\ s.failure # None => /\ s.failure.prepare \in Maybe(V) /\ s.failure.install \in Maybe(V)
                                /\ s.failure.version \in Maybe(V)
         /\ s.txn # None => /\ s.txn.id \in 1..n /\ s.txn.version \in V
BY DEF StateOf, Maybe, FailureOf, TxnOf

(* A change of one field of a state makes a state.                         *)
LEMMA StateEdits ==
  ASSUME NEW V, NEW n, NEW s \in StateOf(V, n)
  PROVE  /\ \A x \in Statuses : /\ [s EXCEPT !.status = x] \in StateOf(V, n)
                                /\ [s EXCEPT !.status = x].txn = s.txn
         /\ \A x \in Maybe(V) : /\ [s EXCEPT !.installed = x] \in StateOf(V, n)
                                /\ [s EXCEPT !.installed = x].txn = s.txn
         /\ \A x \in Maybe(V) : /\ [s EXCEPT !.prepared = x] \in StateOf(V, n)
                                /\ [s EXCEPT !.prepared = x].txn = s.txn
         /\ \A x \in Maybe(V) : /\ [s EXCEPT !.failedPrepare = x] \in StateOf(V, n)
                                /\ [s EXCEPT !.failedPrepare = x].txn = s.txn
         /\ \A x \in Maybe(V) : /\ [s EXCEPT !.failedInstall = x] \in StateOf(V, n)
                                /\ [s EXCEPT !.failedInstall = x].txn = s.txn
         /\ \A x \in Maybe(FailureOf(V, n)) : /\ [s EXCEPT !.failure = x] \in StateOf(V, n)
                                              /\ [s EXCEPT !.failure = x].txn = s.txn
         /\ \A x \in Maybe(TxnOf(V, n)) : /\ [s EXCEPT !.txn = x] \in StateOf(V, n)
                                          /\ [s EXCEPT !.txn = x].txn = x
BY DEF StateOf

LEMMA RestoreType ==
  ASSUME NEW V, NEW n, NEW s \in StateOf(V, n)
  PROVE  Restore(s) \in StateOf(V, n) /\ Restore(s).txn = s.txn
<1>1. CASE s.failure = None
  BY <1>1 DEF Restore
<1>2. CASE s.failure # None
  <2>1. s.failure.prepare \in Maybe(V) /\ s.failure.install \in Maybe(V)
    BY <1>2, StateFields
  <2>2. Restore(s) = [s EXCEPT !.status = "Failed", !.failedPrepare = s.failure.prepare,
                               !.failedInstall = s.failure.install]
    BY <1>2 DEF Restore
  <2>. QED BY <2>1, <2>2 DEF StateOf, Statuses
<1>. QED BY <1>1, <1>2

LEMMA NotedType ==
  ASSUME NEW V, NEW n, NEW s \in StateOf(V, n), NEW kind \in Kinds, NEW version \in Maybe(V),
         NEW txn \in Maybe(1..n)
  PROVE  Noted(s, kind, version, txn) \in StateOf(V, n) /\ Noted(s, kind, version, txn).txn = s.txn
<1>. DEFINE f == [kind |-> kind, version |-> version, txn |-> txn,
                  prepare |-> s.failedPrepare, install |-> s.failedInstall]
<1>1. f \in FailureOf(V, n)
  BY StateFields DEF FailureOf
<1>2. f \in Maybe(FailureOf(V, n))
  BY <1>1 DEF Maybe
<1>. QED BY <1>2, StateEdits DEF Noted

LEMMA RecordFailureType ==
  ASSUME NEW V, NEW n, NEW s \in StateOf(V, n), NEW kind \in Kinds, NEW version \in Maybe(V),
         NEW txn \in Maybe(1..n)
  PROVE  /\ RecordFailure(s, kind, version, txn) \in StateOf(V, n)
         /\ RecordFailure(s, kind, version, txn).txn = s.txn
BY RestoreType, NotedType DEF RecordFailure

LEMMA LoadedType ==
  ASSUME NEW V, NEW n, NEW s \in StateOf(V, n)
  PROVE  Loaded(s) \in StateOf(V, n) /\ Loaded(s).txn = s.txn
<1>1. KindOf(s) \in Kinds
  BY DEF KindOf, Kinds
<1>2. (IF s.failedInstall # None THEN s.failedInstall ELSE s.failedPrepare) \in Maybe(V)
  BY StateFields
<1>3. None \in Maybe(1..n)
  BY DEF Maybe
<1>. QED BY <1>1, <1>2, <1>3, NotedType DEF Loaded

LEMMA ClearPrepareType ==
  ASSUME NEW V, NEW n, NEW s \in StateOf(V, n), NEW v
  PROVE  ClearPrepare(s, v) \in StateOf(V, n) /\ ClearPrepare(s, v).txn = s.txn
<1>. DEFINE g == IF Resolves(s, v) THEN None ELSE s.failure
<1>1. g \in Maybe(FailureOf(V, n)) /\ None \in Maybe(V)
  BY StateFields DEF Maybe
<1>2. ClearPrepare(s, v) = [s EXCEPT !.failedPrepare = None, !.failure = g]
  BY DEF ClearPrepare, StateOf
<1>. HIDE DEF g
<1>. QED BY <1>1, <1>2 DEF StateOf

LEMMA ClearObsoleteType ==
  ASSUME NEW V, NEW n, NEW s \in StateOf(V, n), NEW v
  PROVE  ClearObsolete(s, v) \in StateOf(V, n) /\ ClearObsolete(s, v).txn = s.txn
<1>. DEFINE t == IF Older(s.failedPrepare, v) THEN ClearPrepare(s, s.failedPrepare) ELSE s
            x == IF Older(t.failedInstall, v) THEN None ELSE t.failedInstall
<1>1. t \in StateOf(V, n) /\ t.txn = s.txn
  BY ClearPrepareType
<1>2. ClearObsolete(s, v) = [t EXCEPT !.failedInstall = IF Older(@, v) THEN None ELSE @]
  BY DEF ClearObsolete
<1>. HIDE DEF t
<1>3. x \in Maybe(V)
  BY <1>1, StateFields DEF Maybe
<1>4. ClearObsolete(s, v) = [t EXCEPT !.failedInstall = x]
  BY <1>1, <1>2 DEF StateOf
<1>. HIDE DEF x
<1>. QED BY <1>1, <1>3, <1>4, StateEdits

LEMMA MarkInstalledType ==
  ASSUME NEW V, NEW n, NEW s \in StateOf(V, n), NEW v \in Maybe(V)
  PROVE  MarkInstalled(s, v) \in StateOf(V, n) /\ MarkInstalled(s, v).txn = s.txn
<1>1. CASE s.failure # None
  BY <1>1, RestoreType, StateEdits DEF MarkInstalled
<1>2. CASE s.failure = None
  <2>. DEFINE p == IF AtLeast(v, s.failedPrepare) THEN None ELSE s.failedPrepare
              i == IF AtLeast(v, s.failedInstall) THEN None ELSE s.failedInstall
  <2>1. p \in Maybe(V) /\ i \in Maybe(V) /\ None \in Maybe(V)
    BY StateFields DEF Maybe
  <2>2. MarkInstalled(s, v) = [status |-> "Installed", installed |-> v, prepared |-> None,
                               failedPrepare |-> p, failedInstall |-> i, failure |-> s.failure,
                               txn |-> s.txn]
    BY <1>2 DEF MarkInstalled, StateOf
  <2>. HIDE DEF p, i
  <2>. QED BY <2>1, <2>2, StateFields DEF StateOf, Statuses
<1>. QED BY <1>1, <1>2

(* A commit marks the transaction it is for, and no other.                  *)
LEMMA MarkTransactionType ==
  ASSUME NEW V, NEW n, NEW s \in StateOf(V, n), NEW v \in Maybe(V), NEW id
  PROVE  /\ MarkTransaction(s, v, id) \in StateOf(V, n)
         /\ MarkTransaction(s, v, id).txn =
              IF s.txn # None /\ s.txn.id = id /\ s.txn.version = v
              THEN [s.txn EXCEPT !.committed = TRUE] ELSE s.txn
<1>. DEFINE cleared == s.failure # None /\ s.failure.kind = "Installation" /\ s.failure.version = v
                       /\ s.failure.txn = id
            t == [s EXCEPT !.installed = v, !.prepared = None,
                           !.failedInstall = IF cleared THEN None ELSE @,
                           !.failure = IF cleared THEN None ELSE @,
                           !.txn = IF @ # None /\ @.id = id /\ @.version = v
                                   THEN [@ EXCEPT !.committed = TRUE] ELSE @]
            i == IF cleared THEN None ELSE s.failedInstall
            g == IF cleared THEN None ELSE s.failure
            x == IF s.txn # None /\ s.txn.id = id /\ s.txn.version = v
                 THEN [s.txn EXCEPT !.committed = TRUE] ELSE s.txn
<1>1. /\ i \in Maybe(V) /\ g \in Maybe(FailureOf(V, n)) /\ None \in Maybe(V)
  BY StateFields DEF Maybe
<1>2. x \in Maybe(TxnOf(V, n))
  <2>1. \A r \in TxnOf(V, n) : [r EXCEPT !.committed = TRUE] \in TxnOf(V, n)
    BY DEF TxnOf
  <2>2. s.txn = None \/ s.txn \in TxnOf(V, n)
    BY StateFields DEF Maybe
  <2>3. x \in {s.txn, [s.txn EXCEPT !.committed = TRUE]} /\ (s.txn = None => x = s.txn)
    BY Zenon
  <2>. HIDE DEF x
  <2>. QED BY <2>1, <2>2, <2>3 DEF Maybe
<1>3. t = [status |-> s.status, installed |-> v, prepared |-> None,
           failedPrepare |-> s.failedPrepare, failedInstall |-> i, failure |-> g, txn |-> x]
  <2>1. t = [s EXCEPT !.installed = v, !.prepared = None, !.failedInstall = i, !.failure = g, !.txn = x]
    BY Zenon
  <2>. HIDE DEF t, i, g, x
  <2>. QED BY <2>1 DEF StateOf
<1>4. MarkTransaction(s, v, id) = IF t.failure # None THEN Restore(t) ELSE [t EXCEPT !.status = "Installed"]
  BY DEF MarkTransaction
<1>. HIDE DEF t, i, g, x
<1>5. t \in StateOf(V, n) /\ t.txn = x
  BY <1>1, <1>2, <1>3, StateFields DEF StateOf
<1>6. MarkTransaction(s, v, id) \in StateOf(V, n) /\ MarkTransaction(s, v, id).txn = x
  <2>1. "Installed" \in Statuses
    BY DEF Statuses
  <2>2. /\ Restore(t) \in StateOf(V, n) /\ Restore(t).txn = x
        /\ [t EXCEPT !.status = "Installed"] \in StateOf(V, n)
        /\ [t EXCEPT !.status = "Installed"].txn = x
    BY <1>5, <2>1, RestoreType, StateEdits
  <2>. QED BY <1>4, <2>2
<1>. QED BY <1>6 DEF x

LEMMA InterruptedType ==
  ASSUME NEW V, NEW n, NEW s \in StateOf(V, n)
  PROVE  Interrupted(s) \in StateOf(V, n) /\ Interrupted(s).txn = s.txn
<1>1. CASE s.failure # None
  BY <1>1, RestoreType DEF Interrupted
<1>2. CASE s.failure = None
  <2>. DEFINE v == IF s.txn # None THEN s.txn.version ELSE s.prepared
              id == IF s.txn = None THEN None ELSE s.txn.id
              u == [s EXCEPT !.status = "Failed", !.failedInstall = v]
  <2>1. v \in Maybe(V) /\ id \in Maybe(1..n)
    BY StateFields DEF Maybe
  <2>2. Interrupted(s) = Noted(u, "Installation", v, id)
    BY <1>2 DEF Interrupted
  <2>. HIDE DEF v, id
  <2>3. u \in StateOf(V, n) /\ u.txn = s.txn
    BY <2>1 DEF StateOf, Statuses
  <2>. HIDE DEF u
  <2>. QED BY <2>1, <2>2, <2>3, NotedType, "Installation" \in Kinds DEF Kinds
<1>. QED BY <1>1, <1>2

LEMMA AnsweredType ==
  ASSUME NEW V, NEW n, NEW s \in StateOf(V, n), NEW v \in Maybe(V), NEW before \in Statuses,
         NEW observed \in Maybe(V), NEW valid, NEW waiting
  PROVE  /\ Answered(s, v, before, observed, valid, waiting) \in StateOf(V, n)
         /\ Answered(s, v, before, observed, valid, waiting).txn = s.txn
<1>. DEFINE seen == [s EXCEPT !.installed = observed]
            only == ObservationOnly(seen)
            clear == IF only THEN [seen EXCEPT !.failure = None] ELSE seen
            preserve == observed = v /\ ~only /\ MustPreserve(clear, v, before)
            t == IF preserve THEN clear ELSE ClearObsolete(clear, v)
            next == IF observed = v
                    THEN IF ~preserve THEN MarkInstalled(t, v)
                         ELSE IF t.failure # None THEN t ELSE [t EXCEPT !.status = before]
                    ELSE IF t.prepared = v /\ valid
                    THEN [t EXCEPT !.status = IF t.failedInstall = v /\ before = "Failed"
                                              THEN "Failed" ELSE "ReadyToInstall"]
                    ELSE [t EXCEPT !.status = IF t.failedPrepare = v /\ waiting THEN "Failed" ELSE "Idle"]
<1>1. Answered(s, v, before, observed, valid, waiting) = Restore(next)
  BY DEF Answered
<1>2. seen \in StateOf(V, n) /\ seen.txn = s.txn
  BY StateEdits
<1>. HIDE DEF seen
<1>3. clear \in StateOf(V, n) /\ clear.txn = s.txn
  BY <1>2, StateEdits, None \in Maybe(FailureOf(V, n)) DEF Maybe
<1>. HIDE DEF clear
<1>4. t \in StateOf(V, n) /\ t.txn = s.txn
  BY <1>3, ClearObsoleteType
<1>. HIDE DEF t
<1>5. next \in StateOf(V, n) /\ next.txn = s.txn
  <2>1. MarkInstalled(t, v) \in StateOf(V, n) /\ MarkInstalled(t, v).txn = s.txn
    BY <1>4, MarkInstalledType
  <2>2. \A x \in Statuses : [t EXCEPT !.status = x] \in StateOf(V, n) /\ [t EXCEPT !.status = x].txn = s.txn
    BY <1>4, StateEdits
  <2>3. {before, "Failed", "ReadyToInstall", "Idle"} \subseteq Statuses
    BY DEF Statuses
  <2>. QED BY <1>4, <2>1, <2>2, <2>3
<1>. HIDE DEF next
<1>. QED BY <1>1, <1>5, RestoreType

LEMMA ConcludedType ==
  ASSUME NEW V, NEW n, NEW s \in StateOf(V, n)
  PROVE  Concluded(s) \in StateOf(V, n) /\ Concluded(s).txn = s.txn
<1>1. "Metadata" \in Kinds /\ None \in Maybe(V) /\ None \in Maybe(1..n)
  BY DEF Kinds, Maybe
<1>. QED BY <1>1, RecordFailureType DEF Concluded

LEMMA UnansweredType ==
  ASSUME NEW V, NEW n, NEW s \in StateOf(V, n)
  PROVE  Unanswered(s) \in StateOf(V, n) /\ Unanswered(s).txn = s.txn
<1>1. [s EXCEPT !.status = "Failed"] \in StateOf(V, n) /\ [s EXCEPT !.status = "Failed"].txn = s.txn
  <2>1. "Failed" \in Statuses
    BY DEF Statuses
  <2>. QED BY <2>1, StateEdits
<1>2. "Metadata" \in Kinds /\ None \in Maybe(V) /\ None \in Maybe(1..n)
  BY DEF Kinds, Maybe
<1>. DEFINE u == [s EXCEPT !.status = "Failed"]
<1>3. Unanswered(s) = IF s.failure # None THEN Restore(s) ELSE RecordFailure(u, "Metadata", None, None)
  BY DEF Unanswered
<1>. HIDE DEF u
<1>4. u \in StateOf(V, n) /\ u.txn = s.txn
  BY <1>1 DEF u
<1>. QED BY <1>2, <1>3, <1>4, RestoreType, RecordFailureType

-----------------------------------------------------------------------------
(* Types.                                                                    *)

States == StateOf(Version, MaxTxn)
Artifacts == {"none", "partial", "valid"}

LEMMA Constants ==
  /\ MaxTxn \in Nat /\ MaxFaults \in Nat /\ Version \subseteq Nat /\ 1 \in Version
  /\ Versions \subseteq Version /\ None \notin Version
  /\ None \notin Journal /\ None \notin TxnOf(Version, MaxTxn)
  /\ OldRelease \in File /\ None \in Maybe(Version) /\ None \in Maybe(File)
  /\ Renamed = 2 /\ Synced = 3 /\ Verified = 4 /\ Saved = 5 /\ Cleaned = 6
<1>1. MaxTxn \in Nat /\ MaxFaults \in Nat
  BY BoundsAssumption
<1>2. Version \subseteq Nat /\ 1 \in Version /\ Versions \subseteq Version /\ None \notin Version
  <2>1. Version \subseteq Nat /\ None \notin Nat
    BY VersionsAssumption DEF Version
  <2>. QED BY <2>1 DEF Version
<1>3. None \notin Journal /\ None \notin TxnOf(Version, MaxTxn)
  BY NoneAssumption
<1>4. OldRelease \in File
  BY <1>1, <1>2 DEF OldRelease, File
<1>5. Renamed = 2 /\ Synced = 3 /\ Verified = 4 /\ Saved = 5 /\ Cleaned = 6
  BY RenamedTwo DEF Synced, Verified, Saved, Cleaned
<1>. QED BY <1>1, <1>2, <1>3, <1>4, <1>5 DEF Maybe

LEMMA RestingType ==
  /\ Resting \in Proc /\ Resting.pc = "idle" /\ Resting.guards = FALSE /\ Resting.recovering = FALSE
  /\ Resting.at = 1
<1>1. Initially \in StateOf(Version, MaxTxn)
  BY DEF Initially, StateOf, Statuses, Maybe
<1>2. 1 \in 1..Renamed
  BY Constants
<1>. QED BY <1>1, <1>2 DEF Resting, Proc, Pcs, Maybe, Statuses

(* A change of the counter, of the copy or of the file index of a command.  *)
LEMMA ProcEdits ==
  ASSUME NEW q \in Proc
  PROVE  /\ \A x \in Pcs : [q EXCEPT !.pc = x] \in Proc
         /\ \A x \in Pcs, m \in States : [q EXCEPT !.pc = x, !.mem = m] \in Proc
         /\ \A x \in Pcs, k \in 1..2 : [q EXCEPT !.pc = x, !.at = k] \in Proc
         /\ \A k \in 1..2 : [q EXCEPT !.at = k] \in Proc
BY Constants DEF Proc, States

LEMMA Typed ==
  ASSUME TypeOK
  PROVE  /\ state \in States /\ proc \in Proc /\ proc.mem \in States
         /\ proc.pc \in Pcs /\ proc.want \in Maybe(Version) /\ proc.before \in Statuses
         /\ proc.recovering \in BOOLEAN /\ proc.guards \in BOOLEAN /\ proc.at \in 1..2
         /\ Load \in States /\ Load.txn = state.txn
         /\ Load.status \in Statuses /\ Load.prepared \in Maybe(Version)
         /\ state.txn \in Maybe(TxnOf(Version, MaxTxn))
         /\ journal # None => /\ journal \in Journal /\ journal.txn \in 1..MaxTxn
                              /\ journal.version \in Version /\ journal.phase \in 0..6
                              /\ journal.old \in [Files -> Maybe(File)] /\ NewFile \in File
<1>1. state \in States /\ proc \in Proc
  BY DEF TypeOK, States
<1>2. Load \in States /\ Load.txn = state.txn
  BY <1>1, LoadedType DEF Load, States
<1>3. Load.status \in Statuses /\ Load.prepared \in Maybe(Version)
  BY <1>2, StateFields DEF States
<1>4. state.txn \in Maybe(TxnOf(Version, MaxTxn))
  BY <1>1, StateFields DEF States
<1>5. /\ proc.mem \in States /\ proc.pc \in Pcs /\ proc.want \in Maybe(Version)
      /\ proc.before \in Statuses /\ proc.recovering \in BOOLEAN /\ proc.guards \in BOOLEAN
      /\ proc.at \in 1..2
  BY <1>1, Constants DEF Proc, States
<1>6. journal # None => journal \in Journal
  BY DEF TypeOK, Maybe
<1>7. \A j \in Journal : /\ j.txn \in 1..MaxTxn /\ j.version \in Version /\ j.phase \in 0..6
                         /\ j.old \in [Files -> Maybe(File)]
                         /\ [txn |-> j.txn, version |-> j.version] \in File
  <2>. SUFFICES ASSUME NEW j \in Journal
                PROVE  /\ j.txn \in 1..MaxTxn /\ j.version \in Version /\ j.phase \in 0..6
                       /\ j.old \in [Files -> Maybe(File)]
                       /\ [txn |-> j.txn, version |-> j.version] \in File
    OBVIOUS
  <2>1. /\ j.txn \in 1..MaxTxn /\ j.version \in Version /\ j.phase \in 0..Cleaned
        /\ j.old \in [Files -> Maybe(File)]
    BY DEF Journal
  <2>2. j.txn \in 0..MaxTxn
    BY <2>1, Constants
  <2>. QED BY <2>1, <2>2, Constants DEF File
<1>. QED BY <1>1, <1>2, <1>3, <1>4, <1>5, <1>6, <1>7 DEF NewFile

LEMMA ObservedType ==
  ASSUME TypeOK, NEW v, Observed(v)
  PROVE  faults' \in 0..MaxFaults
BY Constants DEF TypeOK, Observed, Fault

LEMMA FaultType ==
  ASSUME TypeOK, Fault
  PROVE  faults' \in 0..MaxFaults
BY Constants DEF TypeOK, Fault

-----------------------------------------------------------------------------
(* Steps outside an installation.                                            *)

(* The state file keeps its transaction, and the disk stays as it is.        *)
LEMMA SameTxn ==
  ASSUME IInv, state'.txn = state.txn, UNCHANGED <<journal, dest, backup, unsynced>>
  PROVE  OldPairKept' /\ CommittedOnDisk' /\ (TxnCommitted' <=> TxnCommitted)
BY DEF IInv, OldPairKept, CommittedOnDisk, Committed, TxnCommitted, NewFile

(* A command that is not installing, or ends, keeps the invariant.           *)
LEMMA Leaves ==
  ASSUME IInv, TypeOK', UNCHANGED <<journal, dest, backup, unsynced, running, booting>>,
         proc'.pc \notin Installs, proc'.guards => proc.guards, OldPairKept', CommittedOnDisk',
         CopyKnows', proc'.pc = "install" => proc'.at = 1
  PROVE  IInv'
<1>1. GuardsHold'
  BY DEF IInv, Knows, GuardsHold, Installs
<1>2. BeginKnows'
  BY DEF BeginKnows, Installs, Guarded, Fresh, Publishing
<1>3. JournalKnows'
  BY DEF IInv, Knows, JournalKnows, Installs, Durable
<1>4. PublishKnows' /\ CleanKnows' /\ UndoKnows'
  BY DEF PublishKnows, CleanKnows, UndoKnows, Installs, Guarded, Publishing, Undoing
<1>. QED BY <1>1, <1>2, <1>3, <1>4 DEF IInv, Knows

LEMMA Prepares ==
  ASSUME IInv, state' \in States, state'.txn = state.txn, proc' \in Proc,
         UNCHANGED <<journal, pair, runtimes, txns>>, artifact' \in Artifacts,
         faults' \in 0..MaxFaults, proc'.pc \notin Installs, proc'.guards => proc.guards,
         proc'.pc \notin {"idle", "maintain", "check", "install"} => proc'.mem.txn = state'.txn,
         proc'.pc = "install" => proc'.at = 1
  PROVE  IInv' /\ state'.txn = state.txn
<1>1. TypeOK'
  BY DEF IInv, TypeOK, pair, runtimes, States, Artifacts
<1>2. OldPairKept' /\ CommittedOnDisk'
  BY SameTxn DEF pair
<1>. QED BY <1>1, <1>2, Leaves DEF pair, runtimes, CopyKnows

LEMMA Ends ==
  ASSUME IInv, state' \in States, state'.txn = state.txn, End,
         UNCHANGED <<journal, pair, runtimes, txns>>, artifact' \in Artifacts,
         faults' \in 0..MaxFaults
  PROVE  IInv' /\ state'.txn = state.txn
BY RestingType, Prepares DEF End, Installs, Guarded, Publishing, Undoing

(* The steps outside an installation, their counters, and their types.       *)
Others == {"idle", "maintain", "check", "fetch", "requested", "clearing", "choose", "build",
           "staging", "built", "install"}
LEMMA OthersApart == Others \cap Installs = {} /\ Others \subseteq Pcs
BY DEF Others, Installs, Guarded, Publishing, Undoing, Pcs

LEMMA Basic ==
  ASSUME IInv
  PROVE  /\ TypeOK /\ artifact \in Artifacts /\ faults \in 0..MaxFaults
         /\ proc.pc \notin {"idle", "maintain", "check", "install"} => proc.mem.txn = state.txn
BY DEF IInv, TypeOK, Artifacts, Knows, CopyKnows

LEMMA StartPreserves ==
  ASSUME IInv, Start
  PROVE  IInv' /\ state'.txn = state.txn
<1>1. /\ proc' \in Proc /\ proc'.pc \in {"maintain", "check", "install"} /\ ~proc'.guards
      /\ proc'.at = 1
  <2>1. \A x \in {"maintain", "check", "install"} : x \in Pcs
    BY DEF Pcs
  <2>2. \A x \in Pcs, b \in BOOLEAN :
          LET q == [Resting EXCEPT !.pc = x, !.prepare = b]
          IN  q \in Proc /\ q.pc = x /\ q.guards = FALSE /\ q.at = 1
    BY RestingType DEF Proc
  <2>3. \A x \in Pcs, v \in Version :
          LET q == [Resting EXCEPT !.pc = x, !.want = v]
          IN  q \in Proc /\ q.pc = x /\ q.guards = FALSE /\ q.at = 1
    BY RestingType DEF Proc, Maybe
  <2>4. \A x \in Pcs :
          LET q == [Resting EXCEPT !.pc = x]
          IN  q \in Proc /\ q.pc = x /\ q.guards = FALSE /\ q.at = 1
    BY RestingType DEF Proc
  <2>5. \/ \E b \in BOOLEAN : proc' = [Resting EXCEPT !.pc = IF b THEN "maintain" ELSE "check", !.prepare = b]
        \/ \E v \in Versions : proc' = [Resting EXCEPT !.pc = "maintain", !.want = v]
        \/ proc' = [Resting EXCEPT !.pc = "install"]
    BY DEF Start
  <2>6. CASE \E b \in BOOLEAN : proc' = [Resting EXCEPT !.pc = IF b THEN "maintain" ELSE "check", !.prepare = b]
    <3>1. PICK b \in BOOLEAN :
            proc' = [Resting EXCEPT !.pc = IF b THEN "maintain" ELSE "check", !.prepare = b]
      BY <2>6
    <3>. DEFINE x == IF b THEN "maintain" ELSE "check"
    <3>2. x \in {"maintain", "check"} /\ proc' = [Resting EXCEPT !.pc = x, !.prepare = b]
      BY <3>1
    <3>. QED BY <2>1, <2>2, <3>2
  <2>7. CASE \E v \in Versions : proc' = [Resting EXCEPT !.pc = "maintain", !.want = v]
    <3>1. PICK v \in Version : proc' = [Resting EXCEPT !.pc = "maintain", !.want = v]
      BY <2>7, Constants
    <3>2. "maintain" \in Pcs
      BY <2>1
    <3>. QED BY <2>3, <3>1, <3>2
  <2>8. CASE proc' = [Resting EXCEPT !.pc = "install"]
    BY <2>1, <2>4, <2>8
  <2>. QED BY <2>5, <2>6, <2>7, <2>8
<1>2. UNCHANGED <<state, artifact, journal, pair, runtimes, txns, faults>>
  BY DEF Start
<1>. QED BY <1>1, <1>2, Basic, Typed, OthersApart, Prepares DEF Others

LEMMA MaintainPreserves ==
  ASSUME IInv, Maintain
  PROVE  IInv' /\ state'.txn = state.txn
<1>. DEFINE next == IF proc.want = None THEN "check" ELSE "requested"
            old == Load
            ready == [old EXCEPT !.status = "ReadyToInstall", !.failedPrepare = None]
            cleared == [ClearPrepared(old) EXCEPT !.status = "Failed", !.failedPrepare = old.prepared]
            failed == RecordFailure(cleared, "Preparation", old.prepared, None)
<1>1. old \in States /\ old.txn = state.txn /\ old.prepared \in Maybe(Version)
  BY Basic, Typed
<1>2. \/ With(old, next) /\ UNCHANGED <<state, artifact>>
      \/ Save(ready, next) /\ UNCHANGED artifact
      \/ Save(failed, next) /\ artifact' = "none"
  BY DEF Maintain
<1>3. UNCHANGED <<journal, pair, runtimes, txns, faults>>
  BY DEF Maintain
<1>. HIDE DEF old
<1>4. ready \in States /\ ready.txn = state.txn
  BY <1>1, Constants DEF States, StateOf, Statuses
<1>5. cleared \in States /\ cleared.txn = state.txn
  BY <1>1, Constants DEF States, StateOf, Statuses, ClearPrepared
<1>. HIDE DEF ready, cleared
<1>6. failed \in States /\ failed.txn = state.txn
  <2>1. "Preparation" \in Kinds /\ None \in Maybe(1..MaxTxn)
    BY DEF Kinds, Maybe
  <2>. QED BY <1>1, <1>5, <2>1, RecordFailureType DEF States
<1>. HIDE DEF failed
<1>7. next \in Others /\ next # "install"
  BY DEF Others
<1>. HIDE DEF next
<1>8. \E m \in States : /\ m.txn = state.txn /\ With(m, next)
                        /\ \/ UNCHANGED state
                           \/ state' = m
  BY <1>1, <1>2, <1>4, <1>6 DEF Save
<1>9. PICK m \in States : /\ m.txn = state.txn /\ With(m, next)
                          /\ \/ UNCHANGED state
                             \/ state' = m
  BY <1>8
<1>10. proc' = [proc EXCEPT !.pc = next, !.mem = m]
  BY <1>9 DEF With
<1>11. proc' \in Proc /\ proc'.pc \in Others \ {"install"} /\ proc'.mem = m /\ proc'.guards = proc.guards
  BY <1>7, <1>10, Basic, Typed, OthersApart, ProcEdits DEF Proc
<1>. QED BY <1>2, <1>3, <1>9, <1>11, Basic, Typed, OthersApart, Prepares DEF Artifacts

LEMMA BeginCheckPreserves ==
  ASSUME IInv, BeginCheck
  PROVE  IInv' /\ state'.txn = state.txn
<1>1. state' \in States /\ state'.txn = state.txn
  <2>1. "Checking" \in Statuses
    BY DEF Statuses
  <2>. QED BY <2>1, Basic, Typed, StateEdits DEF BeginCheck, States
<1>2. Load.status \in Statuses
  BY Basic, Typed
<1>3. proc' = [proc EXCEPT !.pc = "fetch", !.mem = state', !.before = Load.status]
  BY DEF BeginCheck
<1>4. proc' \in Proc /\ proc'.pc = "fetch" /\ proc'.mem = state' /\ proc'.guards = proc.guards
  BY <1>1, <1>2, <1>3, Basic, Typed DEF Proc, Pcs, States
<1>. QED BY <1>1, <1>4, Basic, OthersApart, Prepares DEF BeginCheck, Others

(* The two ways a command leaves such a step with a copy m of the state.     *)
LEMMA EndsWith ==
  ASSUME IInv, NEW m \in States, m.txn = state.txn, SaveAndEnd(m),
         UNCHANGED <<journal, pair, runtimes, txns>>, artifact' \in Artifacts, faults' \in 0..MaxFaults
  PROVE  IInv' /\ state'.txn = state.txn
BY Ends DEF SaveAndEnd

LEMMA GoesOn ==
  ASSUME IInv, NEW m \in States, m.txn = state.txn, NEW x \in Others \ {"install"}, With(m, x),
         state' = m \/ UNCHANGED state,
         UNCHANGED <<journal, pair, runtimes, txns>>, artifact' \in Artifacts, faults' \in 0..MaxFaults
  PROVE  IInv' /\ state'.txn = state.txn
<1>1. proc' = [proc EXCEPT !.pc = x, !.mem = m]
  BY DEF With
<1>2. proc' \in Proc /\ proc'.pc = x /\ proc'.mem = m /\ proc'.guards = proc.guards
  BY <1>1, Basic, Typed, OthersApart, ProcEdits DEF Proc
<1>3. state' \in States /\ state'.txn = state.txn /\ proc'.mem.txn = state'.txn
  BY <1>2, Basic, Typed
<1>. QED BY <1>2, <1>3, OthersApart, Prepares

LEMMA FetchFailsPreserves ==
  ASSUME IInv, FetchFails
  PROVE  IInv' /\ state'.txn = state.txn
<1>1. Unanswered(proc.mem) \in States /\ Unanswered(proc.mem).txn = state.txn
  BY Basic, Typed, UnansweredType DEF FetchFails, States
<1>. QED BY <1>1, Basic, FaultType, EndsWith DEF FetchFails

LEMMA FetchAnswersPreserves ==
  ASSUME IInv, FetchAnswers
  PROVE  IInv' /\ state'.txn = state.txn
<1>1. PICK v \in Versions, waiting \in BOOLEAN, capacity \in BOOLEAN, observed \in Maybe(Version) :
       LET valid == IF proc.prepare THEN artifact = "valid" ELSE proc.before = "ReadyToInstall"
           s == Answered(proc.mem, v, proc.before, observed, valid, waiting)
           prepares == proc.prepare /\ capacity /\ s.status = "Idle"
                       /\ ~(s.failedPrepare = v /\ waiting)
       IN  /\ IF proc.prepare THEN Observed(observed)
              ELSE observed = proc.mem.installed /\ UNCHANGED faults
           /\ IF prepares
              THEN state' = s /\ proc' = [Resting EXCEPT !.pc = "maintain", !.want = v]
              ELSE SaveAndEnd(Concluded(s))
  BY DEF FetchAnswers
<1>. DEFINE valid == IF proc.prepare THEN artifact = "valid" ELSE proc.before = "ReadyToInstall"
            s == Answered(proc.mem, v, proc.before, observed, valid, waiting)
<1>2. v \in Version /\ v \in Maybe(Version)
  BY Constants DEF Maybe
<1>3. faults' \in 0..MaxFaults
  BY <1>1, Basic, ObservedType
<1>4. s \in States /\ s.txn = state.txn
  BY <1>2, Basic, Typed, AnsweredType DEF FetchAnswers, States
<1>5. \/ state' = s /\ proc' = [Resting EXCEPT !.pc = "maintain", !.want = v]
      \/ SaveAndEnd(Concluded(s))
  BY <1>1
<1>6. UNCHANGED <<artifact, journal, pair, runtimes, txns>>
  BY DEF FetchAnswers
<1>. HIDE DEF s
<1>7. CASE state' = s /\ proc' = [Resting EXCEPT !.pc = "maintain", !.want = v]
  <2>1. proc' \in Proc /\ proc'.pc = "maintain" /\ proc'.guards = FALSE
    BY <1>2, <1>7, RestingType DEF Proc, Maybe, Pcs
  <2>. QED BY <1>3, <1>4, <1>6, <1>7, <2>1, Basic, OthersApart, Prepares DEF Others
<1>8. CASE SaveAndEnd(Concluded(s))
  <2>1. Concluded(s) \in States /\ Concluded(s).txn = state.txn
    BY <1>4, ConcludedType DEF States
  <2>. QED BY <1>3, <1>6, <1>8, <2>1, Basic, EndsWith
<1>. QED BY <1>5, <1>7, <1>8

LEMMA RequestedPreserves ==
  ASSUME IInv, Requested
  PROVE  IInv' /\ state'.txn = state.txn
<1>. DEFINE v == proc.want
<1>1. PICK observed \in Maybe(Version) :
       LET s == [proc.mem EXCEPT !.installed = observed]
       IN  /\ Observed(observed)
           /\ CASE observed = v ->
                     SaveAndEnd(IF MustPreserve(s, v, s.status) THEN Restore(s) ELSE MarkInstalled(s, v))
                [] observed # v /\ s.prepared = None -> With(s, "choose") /\ UNCHANGED state
                [] observed # v /\ s.prepared = v /\ artifact = "valid" ->
                     SaveAndEnd(IF s.failure # None \/ (s.failedInstall = v /\ s.status = "Failed")
                                THEN [Restore(s) EXCEPT !.status = "Failed"]
                                ELSE [s EXCEPT !.status = "ReadyToInstall"])
                [] OTHER -> With(s, "clearing") /\ UNCHANGED state
  BY DEF Requested
<1>. DEFINE s == [proc.mem EXCEPT !.installed = observed]
            failed == [Restore(s) EXCEPT !.status = "Failed"]
            ready == [s EXCEPT !.status = "ReadyToInstall"]
<1>2. \/ SaveAndEnd(Restore(s)) \/ SaveAndEnd(MarkInstalled(s, v))
      \/ SaveAndEnd(failed) \/ SaveAndEnd(ready)
      \/ (With(s, "choose") /\ UNCHANGED state)
      \/ (With(s, "clearing") /\ UNCHANGED state)
  BY <1>1
<1>3. faults' \in 0..MaxFaults
  BY <1>1, Basic, ObservedType
<1>4. UNCHANGED <<artifact, journal, pair, runtimes, txns>>
  BY DEF Requested
<1>5. s \in States /\ s.txn = state.txn
  BY Basic, Typed, StateEdits DEF Requested, States
<1>6. v \in Maybe(Version) /\ "Failed" \in Statuses /\ "ReadyToInstall" \in Statuses
  BY Basic, Typed DEF Statuses
<1>. HIDE DEF s, v
<1>7. /\ Restore(s) \in States /\ Restore(s).txn = state.txn
      /\ MarkInstalled(s, v) \in States /\ MarkInstalled(s, v).txn = state.txn
      /\ ready \in States /\ ready.txn = state.txn
  BY <1>5, <1>6, RestoreType, MarkInstalledType, StateEdits DEF States
<1>8. failed \in States /\ failed.txn = state.txn
  BY <1>6, <1>7, StateEdits DEF States
<1>. HIDE DEF failed, ready
<1>9. (\E m \in States : m.txn = state.txn /\ SaveAndEnd(m))
      \/ \E x \in Others \ {"install"} : With(s, x) /\ UNCHANGED state
  BY <1>2, <1>7, <1>8 DEF Others
<1>. QED BY <1>3, <1>4, <1>5, <1>9, Basic, EndsWith, GoesOn

LEMMA ClearGenerationPreserves ==
  ASSUME IInv, ClearGeneration
  PROVE  IInv' /\ state'.txn = state.txn
<1>. DEFINE m == ClearPrepared(proc.mem)
<1>1. \/ (artifact' = "none" /\ Goto("clearing") /\ UNCHANGED state)
      \/ (Save(m, "choose") /\ UNCHANGED artifact)
  BY DEF ClearGeneration
<1>2. UNCHANGED <<journal, pair, runtimes, txns, faults>> /\ proc.pc = "clearing"
  BY DEF ClearGeneration
<1>3. CASE artifact' = "none" /\ Goto("clearing") /\ UNCHANGED state
  <2>1. proc' \in Proc /\ proc'.pc = "clearing" /\ proc'.mem = proc.mem /\ proc'.guards = proc.guards
    BY <1>3, Basic, Typed DEF Goto, Proc, Pcs
  <2>. QED BY <1>2, <1>3, <2>1, Basic, Typed, OthersApart, Prepares DEF Others, Artifacts
<1>4. CASE Save(m, "choose") /\ UNCHANGED artifact
  <2>1. m \in States /\ m.txn = state.txn
    BY <1>2, Basic, Typed, StateEdits, Constants DEF ClearPrepared, States
  <2>. QED BY <1>2, <1>4, <2>1, Basic, GoesOn DEF Save, Others
<1>. QED BY <1>1, <1>3, <1>4

LEMMA ChoosePreserves ==
  ASSUME IInv, Choose
  PROVE  IInv' /\ state'.txn = state.txn
<1>. DEFINE m == [proc.mem EXCEPT !.status = "Preparing", !.prepared = proc.want]
<1>1. /\ SaveAndEnd(proc.mem) \/ Save(m, "build")
      /\ UNCHANGED <<artifact, journal, pair, runtimes, txns, faults>> /\ proc.pc = "choose"
  BY DEF Choose
<1>2. m \in States /\ m.txn = state.txn
  BY <1>1, Basic, Typed DEF States, StateOf, Statuses
<1>. HIDE DEF m
<1>3. CASE SaveAndEnd(proc.mem)
  BY <1>1, <1>3, Basic, Typed, EndsWith
<1>4. CASE Save(m, "build")
  BY <1>1, <1>2, <1>4, Basic, GoesOn DEF Save, Others
<1>. QED BY <1>1, <1>3, <1>4

LEMMA BuildPreserves ==
  ASSUME IInv, Build
  PROVE  IInv' /\ state'.txn = state.txn
<1>1. /\ \/ proc.pc = "build" /\ artifact' = "partial" /\ Goto("staging")
         \/ proc.pc = "staging" /\ artifact' = "valid" /\ Goto("built")
      /\ UNCHANGED <<state, journal, pair, runtimes, txns, faults>>
  BY DEF Build
<1>2. /\ proc' \in Proc /\ proc'.pc \in {"staging", "built"} /\ proc'.mem = proc.mem
      /\ proc'.guards = proc.guards /\ artifact' \in Artifacts
  BY <1>1, Basic, Typed DEF Goto, Proc, Pcs, Artifacts
<1>. QED BY <1>1, <1>2, Basic, Typed, OthersApart, Prepares DEF Others

LEMMA BuildFailsPreserves ==
  ASSUME IInv, BuildFails
  PROVE  IInv' /\ state'.txn = state.txn
<1>. DEFINE p == IF artifact' = "none" THEN None ELSE proc.mem.prepared
            s == [proc.mem EXCEPT !.status = "Failed", !.failedPrepare = proc.want,
                                  !.prepared = IF artifact' = "none" THEN None ELSE @]
            m == Restore(RecordFailure(s, "Preparation", proc.want, None))
<1>1. /\ SaveAndEnd(m) /\ UNCHANGED <<journal, pair, runtimes, txns>> /\ Fault
      /\ proc.pc \in {"build", "staging"} /\ artifact' \in {"none", artifact}
  BY DEF BuildFails
<1>2. p \in Maybe(Version)
  BY Basic, Typed, StateFields, Constants DEF States
<1>3. s = [proc.mem EXCEPT !.status = "Failed", !.failedPrepare = proc.want, !.prepared = p]
  BY Zenon
<1>. HIDE DEF s, p
<1>4. s \in States /\ s.txn = state.txn
  BY <1>1, <1>2, <1>3, Basic, Typed DEF States, StateOf, Statuses
<1>5. "Preparation" \in Kinds /\ None \in Maybe(1..MaxTxn) /\ proc.want \in Maybe(Version)
  BY Basic, Typed DEF Kinds, Maybe
<1>6. m \in States /\ m.txn = state.txn
  BY <1>4, <1>5, RecordFailureType, RestoreType DEF States
<1>. HIDE DEF m
<1>. QED BY <1>1, <1>6, Basic, FaultType, EndsWith DEF Artifacts

LEMMA FinishBuildPreserves ==
  ASSUME IInv, FinishBuild
  PROVE  IInv' /\ state'.txn = state.txn
<1>1. PICK observed \in Maybe(Version) :
       /\ Observed(observed)
       /\ SaveAndEnd(Restore(ClearPrepare(
            [proc.mem EXCEPT !.status = "ReadyToInstall", !.installed = observed], proc.want)))
  BY DEF FinishBuild
<1>. DEFINE s == [proc.mem EXCEPT !.status = "ReadyToInstall", !.installed = observed]
            m == Restore(ClearPrepare(s, proc.want))
<1>2. s \in States /\ s.txn = state.txn
  BY Basic, Typed DEF FinishBuild, States, StateOf, Statuses
<1>3. SaveAndEnd(m)
  BY <1>1
<1>. HIDE DEF s
<1>4. m \in States /\ m.txn = state.txn
  BY <1>2, ClearPrepareType, RestoreType DEF States
<1>. HIDE DEF m
<1>5. faults' \in 0..MaxFaults
  BY <1>1, Basic, ObservedType
<1>6. UNCHANGED <<artifact, journal, pair, runtimes, txns>>
  BY DEF FinishBuild
<1>. QED BY <1>3, <1>4, <1>5, <1>6, Basic, EndsWith

-----------------------------------------------------------------------------
(* Steps beside the command, and the ends of one.                            *)

(* The state file changes without its transaction, and nothing else does.    *)
LEMMA SpawnFailsPreserves ==
  ASSUME IInv, SpawnFails
  PROVE  IInv' /\ state'.txn = state.txn
<1>. DEFINE s == [Load EXCEPT !.status = "Failed"]
            m == RecordFailure(s, "Metadata", None, None)
<1>1. state' = m /\ UNCHANGED <<artifact, journal, pair, runtimes, proc, txns>> /\ Fault
  BY DEF SpawnFails
<1>2. s \in States /\ s.txn = state.txn
  <2>1. "Failed" \in Statuses
    BY DEF Statuses
  <2>. QED BY <2>1, Basic, Typed, StateEdits DEF States
<1>. HIDE DEF s
<1>3. m \in States /\ m.txn = state.txn
  <2>1. "Metadata" \in Kinds /\ None \in Maybe(Version) /\ None \in Maybe(1..MaxTxn)
    BY DEF Kinds, Maybe
  <2>. QED BY <1>2, <2>1, RecordFailureType DEF States
<1>. HIDE DEF m
<1>4. TypeOK'
  BY <1>1, <1>3, Basic, FaultType DEF TypeOK, pair, runtimes, States
<1>5. OldPairKept' /\ CommittedOnDisk' /\ (TxnCommitted' <=> TxnCommitted)
  BY <1>1, <1>3, SameTxn DEF pair
<1>6. state'.txn = state.txn
  BY <1>1, <1>3
<1>7. GuardsHold' /\ CopyKnows' /\ BeginKnows' /\ JournalKnows'
  BY <1>1, <1>6 DEF IInv, Knows, GuardsHold, CopyKnows, BeginKnows, JournalKnows, pair, runtimes, Durable
<1>8. PublishKnows' /\ CleanKnows' /\ UndoKnows'
  BY <1>1, <1>5, <1>6 DEF IInv, Knows, PublishKnows, CleanKnows, UndoKnows, Committed, pair, Durable,
       Published, BackedUp, InPlace, StagedNew, NewFile
<1>. QED BY <1>4, <1>5, <1>6, <1>7, <1>8 DEF IInv, Knows

(* Runtimes come and go only where no guard is held.                         *)
LEMMA RuntimeChangesPreserves ==
  ASSUME IInv, RuntimeChanges
  PROVE  IInv'
<1>1. UNCHANGED <<state, artifact, journal, pair, proc, txns, faults>>
  BY DEF RuntimeChanges
<1>2. TypeOK'
  BY <1>1, Basic DEF RuntimeChanges, TypeOK, pair, Owners
<1>3. GuardsHold'
  BY <1>1 DEF RuntimeChanges, IInv, Knows, GuardsHold
<1>4. CopyKnows' /\ BeginKnows' /\ JournalKnows'
  BY <1>1 DEF IInv, Knows, CopyKnows, BeginKnows, JournalKnows, pair, Durable
<1>5. PublishKnows' /\ CleanKnows' /\ UndoKnows'
  BY <1>1 DEF IInv, Knows, PublishKnows, CleanKnows, UndoKnows, Committed, TxnCommitted, pair, Durable,
       Published, BackedUp, InPlace, StagedNew, NewFile
<1>6. OldPairKept' /\ CommittedOnDisk'
  BY <1>1, SameTxn DEF pair
<1>. QED BY <1>2, <1>3, <1>4, <1>5, <1>6 DEF IInv, Knows

LEMMA CrashPreserves ==
  ASSUME IInv, Crash
  PROVE  IInv' /\ state'.txn = state.txn
BY Basic, Typed, FaultType, Ends DEF Crash

LEMMA RecoveryFailsPreserves ==
  ASSUME IInv, RecoveryFails
  PROVE  IInv' /\ state'.txn = state.txn
BY Basic, Typed, FaultType, Ends DEF RecoveryFails

(* The activity cannot be proven.                                           *)
LEMMA PostponePreserves ==
  ASSUME IInv, proc.pc \in {"observe", "acquire", "reobserve"}, Postpone
  PROVE  IInv' /\ state'.txn = state.txn
<1>. DEFINE m == Blocked(proc.mem)
<1>1. m \in States /\ m.txn = state.txn
  <2>1. proc.mem \in States /\ proc.mem.txn = state.txn
    BY Basic, Typed
  <2>2. "ReadyToInstall" \in Statuses
    BY DEF Statuses
  <2>. QED BY <2>1, <2>2, InterruptedType, RestoreType, StateEdits DEF Blocked, States
<1>2. /\ SaveAndEnd(m) /\ staged' = IF proc.recovering THEN staged ELSE [f \in Files |-> None]
      /\ UNCHANGED <<artifact, journal, dest, backup, unsynced, runtimes, txns, faults>>
  BY DEF Postpone
<1>. HIDE DEF m
<1>3. proc' = Resting /\ state' = m
  BY <1>2 DEF SaveAndEnd, End
<1>4. staged' \in [Files -> Maybe(File)]
  BY <1>2, Basic, Constants DEF TypeOK
<1>5. TypeOK'
  BY <1>1, <1>2, <1>3, <1>4, Basic, RestingType DEF TypeOK, runtimes, States
<1>6. OldPairKept' /\ CommittedOnDisk'
  BY <1>1, <1>2, <1>3, SameTxn
<1>7. "idle" \notin Installs /\ CopyKnows'
  BY <1>3, RestingType, OthersApart DEF Others, CopyKnows
<1>. QED BY <1>1, <1>2, <1>3, <1>5, <1>6, <1>7, RestingType, Leaves DEF runtimes

(* A loss of power takes back renames that were not synced: each of them     *)
(* exchanges a new file with the old one that it replaced.                   *)
LEMMA PowerLossPreserves ==
  ASSUME IInv, PowerLoss
  PROVE  IInv'
<1>1. PICK lost \in SUBSET {f \in Files : unsynced[f] # "none"} :
       /\ dest' = [f \in Files |-> IF f \notin lost THEN dest[f]
                                   ELSE IF unsynced[f] = "published" THEN journal.old[f] ELSE NewFile]
       /\ staged' = [f \in Files |-> IF f \in lost /\ unsynced[f] = "published" THEN NewFile
                                     ELSE staged[f]]
       /\ backup' = [f \in Files |-> IF f \in lost /\ unsynced[f] = "restored" THEN journal.old[f]
                                     ELSE backup[f]]
  BY DEF PowerLoss
<1>2. /\ unsynced' = [f \in Files |-> "none"] /\ proc' = Resting /\ running' = {} /\ booting' = FALSE
      /\ UNCHANGED <<state, artifact, journal, txns>> /\ faults' \in 0..MaxFaults
  BY Basic, FaultType DEF PowerLoss, End
<1>3. lost # {} => journal # None
  BY DEF IInv, Knows, JournalKnows, Durable
<1>4. dest \in [Files -> Maybe(File)] /\ staged \in [Files -> Maybe(File)] /\ backup \in [Files -> Maybe(File)]
      /\ unsynced \in [Files -> {"none", "published", "restored"}]
  BY Basic DEF TypeOK
<1>5. lost # {} => \A f \in Files : journal.old[f] \in Maybe(File) /\ NewFile \in Maybe(File)
  BY <1>3, Basic, Typed DEF Maybe
<1>6. /\ dest' \in [Files -> Maybe(File)] /\ staged' \in [Files -> Maybe(File)]
      /\ backup' \in [Files -> Maybe(File)]
  BY <1>1, <1>4, <1>5
<1>7. TypeOK'
  BY <1>2, <1>6, Basic, RestingType DEF TypeOK
<1>8. Committed' <=> Committed
  BY <1>2 DEF Committed, TxnCommitted
<1>9. CommittedOnDisk'
  <2>1. ASSUME Committed PROVE lost = {} /\ \A f \in Files : dest[f] = NewFile
    BY <2>1, <1>1 DEF IInv, CommittedOnDisk
  <2>. QED BY <1>1, <1>2, <1>8, <2>1 DEF CommittedOnDisk, NewFile
<1>10. OldPairKept'
  <2>. SUFFICES ASSUME journal # None, ~Committed, journal.phase < Saved, NEW f \in Files
                PROVE  \/ dest'[f] = journal.old[f]
                       \/ journal.old[f] # None /\ backup'[f] = journal.old[f]
                       \/ journal.old[f] = None /\ dest'[f] = NewFile
    BY <1>2, <1>8 DEF OldPairKept, NewFile
  <2>1. \/ dest[f] = journal.old[f]
        \/ journal.old[f] # None /\ backup[f] = journal.old[f]
        \/ journal.old[f] = None /\ dest[f] = NewFile
    BY DEF IInv, OldPairKept
  <2>2. CASE f \notin lost
    BY <1>1, <2>1, <2>2
  <2>3. CASE f \in lost
    BY <1>1, <1>4, <2>3
  <2>. QED BY <2>2, <2>3
<1>11. GuardsHold' /\ CopyKnows' /\ BeginKnows'
  BY <1>2, RestingType, OthersApart
     DEF GuardsHold, CopyKnows, BeginKnows, Installs, Guarded, Fresh, Publishing, Undoing
<1>12. JournalKnows'
  <2>1. journal = None => dest' = dest
    BY <1>1, <1>3, <1>4
  <2>2. "idle" \notin Guarded
    BY DEF Guarded, Publishing, Undoing
  <2>. QED BY <1>2, <2>1, <2>2, RestingType DEF IInv, Knows, JournalKnows, Durable
<1>13. PublishKnows' /\ CleanKnows' /\ UndoKnows'
  BY <1>2, RestingType DEF PublishKnows, CleanKnows, UndoKnows, Publishing, Undoing
<1>. QED BY <1>7, <1>9, <1>10, <1>11, <1>12, <1>13 DEF IInv, Knows

-----------------------------------------------------------------------------
(* The beginning of an installation.                                         *)

LEMMA GotoFacts ==
  ASSUME TypeOK, NEW x \in Pcs, Goto(x)
  PROVE  /\ proc' \in Proc /\ proc'.pc = x /\ proc'.mem = proc.mem /\ proc'.want = proc.want
         /\ proc'.recovering = proc.recovering /\ proc'.guards = proc.guards /\ proc'.at = proc.at
BY Typed DEF Goto, Proc

(* A step that only moves the counter to a step outside a publication and an *)
(* undoing.                                                                  *)
LEMMA InstallPreserves ==
  ASSUME IInv, Install
  PROVE  IInv' /\ (journal # None => state'.txn = state.txn)
<1>. DEFINE s == Load
            ready == s.prepared # None /\ s.status \in {"ReadyToInstall", "Installing", "Failed"}
            go(mem, recovering) ==
              proc' = [proc EXCEPT !.pc = "observe", !.mem = mem, !.want = s.prepared, !.recovering = recovering]
            done == Restore([s EXCEPT !.txn = None])
<1>1. s \in States /\ s.txn = state.txn /\ s.prepared \in Maybe(Version) /\ s.status \in Statuses
  BY Basic, Typed
<1>2. /\ \/ End /\ UNCHANGED <<state, artifact>>
         \/ artifact' \in {"none", artifact} /\ SaveAndEnd(Invalid(s, artifact' = "none"))
         \/ ready /\ journal # None /\ go(s, TRUE) /\ UNCHANGED <<state, artifact>>
         \/ ready /\ journal = None /\ s.txn = None /\ go(s, FALSE) /\ UNCHANGED <<state, artifact>>
         \/ ready /\ journal = None /\ state' = done /\ go(done, FALSE) /\ UNCHANGED artifact
      /\ proc.pc = "install" /\ UNCHANGED <<journal, pair, runtimes, txns, faults>>
  BY DEF Install
<1>. HIDE DEF s
<1>3. done \in States /\ done.txn = None
  <2>1. [s EXCEPT !.txn = None] \in States /\ [s EXCEPT !.txn = None].txn = None
    BY <1>1, StateEdits DEF States, Maybe
  <2>. QED BY <2>1, RestoreType DEF States
<1>. HIDE DEF done
<1>4. CASE End /\ UNCHANGED <<state, artifact>>
  BY <1>2, <1>4, Basic, Typed, Ends
<1>5. CASE artifact' \in {"none", artifact} /\ SaveAndEnd(Invalid(s, artifact' = "none"))
  <2>. DEFINE p == IF artifact' = "none" THEN None ELSE s.prepared
              u == [s EXCEPT !.status = "Failed", !.failedPrepare = s.prepared, !.prepared = p]
              m == RecordFailure(u, "Preparation", s.prepared, None)
  <2>1. Invalid(s, artifact' = "none") = m
    BY DEF Invalid
  <2>2. p \in Maybe(Version)
    BY <1>1, Constants
  <2>. HIDE DEF p
  <2>3. u \in States /\ u.txn = state.txn
    BY <1>1, <2>2 DEF States, StateOf, Statuses
  <2>. HIDE DEF u
  <2>4. "Preparation" \in Kinds /\ None \in Maybe(1..MaxTxn)
    BY DEF Kinds, Maybe
  <2>5. m \in States /\ m.txn = state.txn
    BY <1>1, <2>3, <2>4, RecordFailureType DEF States
  <2>. HIDE DEF m
  <2>6. artifact' \in Artifacts /\ faults' \in 0..MaxFaults
    BY <1>2, <1>5, Basic DEF Artifacts
  <2>. QED BY <1>2, <1>5, <2>1, <2>5, <2>6, EndsWith
<1>6. CASE /\ ready /\ artifact' = artifact
           /\ \/ journal # None /\ go(s, TRUE) /\ state' = state
              \/ journal = None /\ s.txn = None /\ go(s, FALSE) /\ state' = state
              \/ journal = None /\ state' = done /\ go(done, FALSE)
  <2>1. s.prepared \in Version /\ "observe" \in Pcs
    BY <1>1, <1>6 DEF Maybe, Pcs
  <2>2. \A m \in States, b \in BOOLEAN :
          LET q == [proc EXCEPT !.pc = "observe", !.mem = m, !.want = s.prepared, !.recovering = b]
          IN  /\ q \in Proc /\ q.pc = "observe" /\ q.mem = m /\ q.want = s.prepared /\ q.recovering = b
              /\ q.guards = proc.guards /\ q.at = proc.at
    BY <1>1, <2>1, Basic, Typed DEF Proc, States
  <2>3. proc.at = 1
    BY <1>2 DEF IInv, Knows, BeginKnows
  <2>. HIDE DEF go
  <2>4. \E m \in States, b \in BOOLEAN :
          /\ go(m, b) /\ state' \in States /\ m.txn = state'.txn
          /\ IF b THEN journal # None ELSE journal = None /\ state'.txn = None
          /\ journal # None => state'.txn = state.txn
    BY <1>1, <1>3, <1>6, Basic, Typed
  <2>5. PICK m \in States, b \in BOOLEAN :
          /\ go(m, b) /\ state' \in States /\ m.txn = state'.txn
          /\ IF b THEN journal # None ELSE journal = None /\ state'.txn = None
          /\ journal # None => state'.txn = state.txn
    BY <2>4
  <2>6. /\ proc' \in Proc /\ proc'.pc = "observe" /\ proc'.want \in Version /\ proc'.guards = proc.guards
        /\ proc'.at = 1 /\ state' \in States /\ proc'.mem.txn = state'.txn
        /\ IF proc'.recovering THEN journal # None ELSE journal = None /\ state'.txn = None
    BY <2>1, <2>2, <2>3, <2>5 DEF go
  <2>7. UNCHANGED <<journal, dest, staged, backup, unsynced, running, booting, txns, faults>>
    BY <1>2 DEF pair, runtimes
  <2>8. TypeOK'
    BY <1>6, <2>6, <2>7, Basic DEF TypeOK, States
  <2>9. OldPairKept' /\ CommittedOnDisk'
    <3>1. CASE journal # None
      BY <2>5, <2>7, <3>1, SameTxn
    <3>2. CASE journal = None
      BY <2>7, <3>2 DEF OldPairKept, CommittedOnDisk, Committed, TxnCommitted
    <3>. QED BY <3>1, <3>2
  <2>10. GuardsHold' /\ CopyKnows' /\ BeginKnows' /\ JournalKnows'
    BY <2>6, <2>7 DEF IInv, Knows, GuardsHold, CopyKnows, BeginKnows, JournalKnows, Installs, Guarded,
       Fresh, Publishing, Undoing, Durable
  <2>11. PublishKnows' /\ CleanKnows' /\ UndoKnows'
    BY <2>6 DEF PublishKnows, CleanKnows, UndoKnows, Publishing, Undoing
  <2>. QED BY <2>5, <2>8, <2>9, <2>10, <2>11 DEF IInv, Knows
<1>. QED BY <1>2, <1>4, <1>5, <1>6

(* A move between the steps before the journal.                              *)
LEMMA FreshMoves ==
  ASSUME IInv, NEW x \in Pcs, Goto(x), x \in {"stage", "acquire", "recover", "journal"},
         proc.pc \in {"observe", "reobserve"},
         x \in {"stage", "journal"} <=> ~proc.recovering,
         x = "acquire" <=> proc.recovering /\ proc.pc = "observe",
         x \in {"recover", "journal"} => proc.pc = "reobserve" /\ running = {},
         x = "journal" <=> ~proc.recovering /\ proc.pc = "reobserve",
         UNCHANGED <<state, artifact, journal, pair, runtimes, txns, faults>>
  PROVE  IInv'
<1>1. /\ proc' \in Proc /\ proc'.pc = x /\ proc'.mem = proc.mem /\ proc'.want = proc.want
      /\ proc'.recovering = proc.recovering /\ proc'.guards = proc.guards /\ proc'.at = proc.at
  BY Basic, GotoFacts
<1>2. TypeOK'
  BY <1>1, Basic DEF TypeOK, pair, runtimes
<1>3. GuardsHold' /\ CopyKnows'
  BY <1>1 DEF IInv, Knows, GuardsHold, CopyKnows, runtimes, Guarded, Publishing, Undoing
<1>4. BeginKnows' /\ JournalKnows'
  BY <1>1 DEF IInv, Knows, BeginKnows, JournalKnows, Installs, Guarded, Fresh, Publishing, Undoing,
     Durable, pair
<1>5. PublishKnows' /\ CleanKnows' /\ UndoKnows'
  BY <1>1 DEF PublishKnows, CleanKnows, UndoKnows, Publishing, Undoing
<1>6. OldPairKept' /\ CommittedOnDisk'
  BY SameTxn DEF pair
<1>. QED BY <1>2, <1>3, <1>4, <1>5, <1>6 DEF IInv, Knows

LEMMA ObservePreserves ==
  ASSUME IInv, Observe
  PROVE  IInv'
<1>1. CASE Postpone
  BY <1>1, PostponePreserves DEF Observe
<1>2. CASE ~Postpone
  <2>. DEFINE x == IF proc.recovering THEN "acquire" ELSE "stage"
  <2>1. /\ proc.pc = "observe" /\ Goto(x)
        /\ UNCHANGED <<state, artifact, journal, pair, runtimes, txns, faults>>
    BY <1>2 DEF Observe
  <2>2. x \in Pcs /\ proc.recovering \in BOOLEAN
    BY Basic, Typed DEF Pcs
  <2>. QED BY <2>1, <2>2, FreshMoves
<1>. QED BY <1>1, <1>2

LEMMA ReobservePreserves ==
  ASSUME IInv, Reobserve
  PROVE  IInv'
<1>1. CASE Postpone
  BY <1>1, PostponePreserves DEF Reobserve
<1>2. CASE ~Postpone
  <2>. DEFINE x == IF proc.recovering THEN "recover" ELSE "journal"
  <2>1. /\ proc.pc = "reobserve" /\ Goto(x) /\ running = {}
        /\ UNCHANGED <<state, artifact, journal, pair, runtimes, txns, faults>>
    BY <1>2 DEF Reobserve
  <2>2. x \in Pcs /\ proc.recovering \in BOOLEAN
    BY Basic, Typed DEF Pcs
  <2>. QED BY <2>1, <2>2, FreshMoves
<1>. QED BY <1>1, <1>2

LEMMA StagePreserves ==
  ASSUME IInv, Stage
  PROVE  IInv'
<1>1. /\ proc.pc = "stage" /\ txns < MaxTxn /\ txns' = txns + 1 /\ Goto("acquire")
      /\ staged' = [f \in Files |-> [txn |-> txns', version |-> proc.want]]
      /\ UNCHANGED <<state, artifact, journal, dest, backup, unsynced, runtimes, faults>>
  BY DEF Stage
<1>2. /\ proc' \in Proc /\ proc'.pc = "acquire" /\ proc'.mem = proc.mem /\ proc'.want = proc.want
      /\ proc'.recovering = proc.recovering /\ proc'.guards = proc.guards /\ proc'.at = proc.at
  BY <1>1, Basic, GotoFacts, "acquire" \in Pcs DEF Pcs
<1>3. txns \in Nat /\ txns' \in 1..MaxTxn /\ proc.want \in Version
  BY <1>1, Basic, Constants DEF TypeOK, IInv, Knows, BeginKnows, Installs
<1>4. [txn |-> txns', version |-> proc.want] \in Maybe(File)
  BY <1>3, Constants DEF File, Maybe
<1>5. TypeOK'
  BY <1>1, <1>2, <1>3, <1>4, Basic DEF TypeOK, runtimes
<1>6. GuardsHold' /\ CopyKnows'
  BY <1>1, <1>2 DEF IInv, Knows, GuardsHold, CopyKnows, runtimes, Guarded, Publishing, Undoing
<1>7. BeginKnows' /\ JournalKnows'
  BY <1>1, <1>2, <1>3 DEF IInv, Knows, BeginKnows, JournalKnows, Installs, Guarded, Fresh, Publishing, Undoing,
     Durable
<1>8. PublishKnows' /\ CleanKnows' /\ UndoKnows'
  BY <1>2 DEF PublishKnows, CleanKnows, UndoKnows, Publishing, Undoing
<1>9. OldPairKept' /\ CommittedOnDisk'
  BY <1>1, SameTxn
<1>. QED BY <1>5, <1>6, <1>7, <1>8, <1>9 DEF IInv, Knows

LEMMA AcquirePreserves ==
  ASSUME IInv, Acquire
  PROVE  IInv'
<1>1. CASE "unit" \in running \/ booting
  BY <1>1, PostponePreserves DEF Acquire
<1>2. CASE ~("unit" \in running \/ booting)
  <2>1. /\ proc.pc = "acquire" /\ proc' = [proc EXCEPT !.pc = "reobserve", !.guards = TRUE]
        /\ UNCHANGED <<state, artifact, journal, pair, runtimes, txns, faults>>
    BY <1>2 DEF Acquire
  <2>2. /\ proc' \in Proc /\ proc'.pc = "reobserve" /\ proc'.mem = proc.mem /\ proc'.want = proc.want
        /\ proc'.recovering = proc.recovering /\ proc'.guards = TRUE /\ proc'.at = proc.at
    BY <2>1, Basic, Typed DEF Proc, Pcs
  <2>3. TypeOK'
    BY <2>1, <2>2, Basic DEF TypeOK, pair, runtimes
  <2>4. GuardsHold' /\ CopyKnows'
    BY <1>2, <2>1, <2>2 DEF IInv, Knows, GuardsHold, CopyKnows, runtimes, Guarded, Publishing, Undoing
  <2>5. BeginKnows' /\ JournalKnows'
    BY <2>1, <2>2 DEF IInv, Knows, BeginKnows, JournalKnows, Installs, Guarded, Fresh, Publishing, Undoing,
       Durable, pair
  <2>6. PublishKnows' /\ CleanKnows' /\ UndoKnows'
    BY <2>2 DEF PublishKnows, CleanKnows, UndoKnows, Publishing, Undoing
  <2>7. OldPairKept' /\ CommittedOnDisk'
    BY <2>1, SameTxn DEF pair
  <2>. QED BY <2>3, <2>4, <2>5, <2>6, <2>7 DEF IInv, Knows
<1>. QED BY <1>1, <1>2

-----------------------------------------------------------------------------
(* The publication.                                                          *)

LEMMA WriteJournalPreserves ==
  ASSUME IInv, WriteJournal
  PROVE  IInv'
<1>1. /\ proc.pc = "journal" /\ Goto("backup")
      /\ journal' = [txn |-> txns, version |-> proc.want, phase |-> 0, old |-> dest]
      /\ UNCHANGED <<state, artifact, pair, runtimes, txns, faults>>
  BY DEF WriteJournal
<1>2. /\ proc' \in Proc /\ proc'.pc = "backup" /\ proc'.mem = proc.mem /\ proc'.want = proc.want
      /\ proc'.recovering = proc.recovering /\ proc'.guards = proc.guards /\ proc'.at = proc.at
  BY <1>1, Basic, GotoFacts, "backup" \in Pcs DEF Pcs
<1>3. /\ ~proc.recovering /\ proc.at = 1 /\ journal = None /\ state.txn = None /\ proc.want \in Version
      /\ txns # 0 /\ \A f \in Files : staged[f] = [txn |-> txns, version |-> proc.want]
  BY <1>1 DEF IInv, Knows, BeginKnows, Fresh, Installs, Guarded
<1>4. txns \in 1..MaxTxn /\ dest \in [Files -> Maybe(File)]
  BY <1>3, Basic, Constants DEF TypeOK
<1>5. journal' \in Journal /\ journal' # None
  BY <1>1, <1>3, <1>4, Constants DEF Journal
<1>6. /\ journal'.txn = txns /\ journal'.version = proc.want /\ journal'.phase = 0 /\ journal'.old = dest
      /\ NewFile' = [txn |-> txns, version |-> proc.want]
  BY <1>1 DEF NewFile
<1>7. TypeOK'
  BY <1>1, <1>2, <1>5, Basic DEF TypeOK, pair, runtimes, Maybe
<1>8. GuardsHold' /\ CopyKnows'
  BY <1>1, <1>2 DEF IInv, Knows, GuardsHold, CopyKnows, runtimes, Guarded, Publishing, Undoing
<1>9. BeginKnows' /\ JournalKnows'
  BY <1>1, <1>2, <1>3, <1>5, <1>6 DEF IInv, Knows, BeginKnows, JournalKnows, Installs, Guarded, Fresh,
     Publishing, Undoing
<1>10. ~Committed'
  BY <1>1, <1>3, <1>6, Constants DEF Committed, TxnCommitted
<1>11. PublishKnows' /\ CleanKnows' /\ UndoKnows'
  BY <1>1, <1>2, <1>3, <1>6, Constants DEF PublishKnows, CleanKnows, UndoKnows, Publishing, Undoing, InPlace,
     StagedNew, pair
<1>12. OldPairKept' /\ CommittedOnDisk'
  BY <1>1, <1>6, <1>10 DEF OldPairKept, CommittedOnDisk, pair
<1>. QED BY <1>7, <1>8, <1>9, <1>11, <1>12 DEF IInv, Knows

LEMMA BackupPreserves ==
  ASSUME IInv, Backup
  PROVE  IInv'
<1>1. /\ proc.pc = "backup" /\ backup' = dest /\ Goto("interruptible")
      /\ UNCHANGED <<state, artifact, journal, dest, staged, unsynced, runtimes, txns, faults>>
  BY DEF Backup
<1>2. /\ proc' \in Proc /\ proc'.pc = "interruptible" /\ proc'.mem = proc.mem /\ proc'.want = proc.want
      /\ proc'.recovering = proc.recovering /\ proc'.guards = proc.guards /\ proc'.at = proc.at
  BY <1>1, Basic, GotoFacts, "interruptible" \in Pcs DEF Pcs
<1>3. InPlace /\ journal # None
  BY <1>1 DEF IInv, Knows, PublishKnows, JournalKnows, Guarded, Fresh
<1>4. TypeOK'
  BY <1>1, <1>2, Basic DEF TypeOK, runtimes
<1>5. GuardsHold' /\ CopyKnows'
  BY <1>1, <1>2 DEF IInv, Knows, GuardsHold, CopyKnows, runtimes, Guarded, Publishing, Undoing
<1>6. BeginKnows' /\ JournalKnows'
  BY <1>1, <1>2, <1>3 DEF IInv, Knows, BeginKnows, JournalKnows, Installs, Guarded, Fresh, Publishing, Undoing,
     Durable
<1>7. PublishKnows' /\ CleanKnows' /\ UndoKnows'
  BY <1>1, <1>2, <1>3 DEF IInv, Knows, PublishKnows, CleanKnows, UndoKnows, Publishing, Undoing, InPlace,
     BackedUp, StagedNew, NewFile
<1>8. OldPairKept'
  BY <1>1, <1>3 DEF OldPairKept, InPlace, Committed, TxnCommitted, NewFile
<1>9. CommittedOnDisk'
  BY <1>1 DEF IInv, CommittedOnDisk, Committed, TxnCommitted, NewFile
<1>. QED BY <1>4, <1>5, <1>6, <1>7, <1>8, <1>9 DEF IInv, Knows

(* What a step that saves the state makes of it.                             *)
LEMMA ChangedFacts ==
  ASSUME IInv
  PROVE  /\ Changed(proc.mem) \in States
         /\ proc.pc = "interruptible" =>
              Changed(proc.mem).txn = [id |-> txns, version |-> proc.want, committed |-> FALSE]
         /\ proc.pc = "mark" =>
              /\ Changed(proc.mem).txn # None /\ Changed(proc.mem).txn.committed
              /\ Changed(proc.mem).txn.id = txns /\ Changed(proc.mem).txn.version = proc.want
         /\ proc.pc \in {"finalize", "settle"} => Changed(proc.mem).txn = None
         /\ proc.pc \in Installs \ {"interruptible", "mark", "finalize", "settle"} =>
              Changed(proc.mem).txn = state.txn
<1>. DEFINE m == proc.mem
<1>1. m \in States /\ m.txn \in Maybe(TxnOf(Version, MaxTxn))
  BY Basic, Typed, StateFields DEF States
<1>2. proc.pc \in Installs => m.txn = state.txn /\ proc.want \in Version
  <2>1. proc.pc \in Installs => proc.pc \notin {"idle", "maintain", "check", "install"}
    BY DEF Installs, Guarded, Publishing, Undoing
  <2>. QED BY <2>1, Basic DEF IInv, Knows, BeginKnows
<1>. HIDE DEF m
<1>3. /\ "Failed" \in Statuses /\ "Installing" \in Statuses /\ "Installed" \in Statuses
      /\ "Installation" \in Kinds
  BY DEF Statuses, Kinds
<1>4. proc.pc \in Publishing => txns \in 1..MaxTxn /\ proc.want \in Version
  <2>1. proc.pc \in Publishing => proc.pc \in Installs /\ proc.pc \in Guarded \ Fresh
    BY DEF Publishing, Installs, Guarded, Fresh
  <2>2. proc.pc \in Publishing => journal # None /\ journal.txn = txns
    BY <2>1 DEF IInv, Knows, JournalKnows, PublishKnows
  <2>. QED BY <1>2, <2>1, <2>2, Basic, Typed
<1>5. CASE proc.pc = "interruptible"
  <2>. DEFINE x == [id |-> txns, version |-> proc.want, committed |-> FALSE]
  <2>1. x \in Maybe(TxnOf(Version, MaxTxn))
    BY <1>4, <1>5 DEF Publishing, TxnOf, Maybe
  <2>2. Changed(m) = [m EXCEPT !.txn = x]
    BY <1>5 DEF Changed
  <2>. HIDE DEF x
  <2>3. Changed(m) \in States /\ Changed(m).txn = x
    BY <1>1, <2>1, <2>2, StateEdits DEF States
  <2>. QED BY <1>5, <2>3 DEF x, m
<1>6. CASE proc.pc = "installing"
  <2>1. Changed(m) = [m EXCEPT !.status = "Installing"]
    BY <1>6 DEF Changed
  <2>2. Changed(m) \in States /\ Changed(m).txn = m.txn
    BY <1>1, <1>3, <2>1, StateEdits DEF States
  <2>. QED BY <1>2, <1>6, <2>2 DEF m
<1>7. CASE proc.pc = "mark"
  <2>1. Changed(m) = MarkTransaction(m, proc.want, txns)
    BY <1>7 DEF Changed
  <2>2. m.txn = [id |-> txns, version |-> proc.want, committed |-> FALSE] /\ proc.want \in Version
    BY <1>2, <1>7 DEF IInv, Knows, PublishKnows, Installs, Guarded, Publishing
  <2>3. m.txn # None
    <3>1. txns \in 1..MaxTxn
      BY <1>4, <1>7 DEF Publishing
    <3>2. m.txn \in TxnOf(Version, MaxTxn)
      BY <2>2, <3>1 DEF TxnOf
    <3>. QED BY <3>2, Constants
  <2>4. proc.want \in Maybe(Version)
    BY <2>2 DEF Maybe
  <2>5. /\ MarkTransaction(m, proc.want, txns) \in States
        /\ MarkTransaction(m, proc.want, txns).txn =
             IF m.txn # None /\ m.txn.id = txns /\ m.txn.version = proc.want
             THEN [m.txn EXCEPT !.committed = TRUE] ELSE m.txn
    BY <1>1, <2>4, MarkTransactionType DEF States
  <2>6. Changed(m).txn = [m.txn EXCEPT !.committed = TRUE]
    BY <2>1, <2>2, <2>3, <2>5
  <2>7. [m.txn EXCEPT !.committed = TRUE] \in TxnOf(Version, MaxTxn)
    BY <1>1, <2>3 DEF Maybe, TxnOf
  <2>8. LET x == [m.txn EXCEPT !.committed = TRUE]
        IN  x.id = txns /\ x.version = proc.want /\ x.committed
    BY <1>1, <2>2, <2>3 DEF Maybe, TxnOf
  <2>. QED BY <1>7, <2>1, <2>5, <2>6, <2>7, <2>8, Constants DEF m
<1>8. CASE proc.pc = "finalize"
  <2>. DEFINE u == [m EXCEPT !.txn = None]
  <2>1. u \in States /\ u.txn = None
    BY <1>1, StateEdits DEF States, Maybe
  <2>2. Changed(m) = IF m.failure # None THEN Restore(u) ELSE [m EXCEPT !.txn = None, !.status = "Installed"]
    BY <1>8 DEF Changed, Finalized
  <2>3. [m EXCEPT !.txn = None, !.status = "Installed"] = [u EXCEPT !.status = "Installed"]
    BY <1>1 DEF States, StateOf
  <2>. HIDE DEF u
  <2>4. Changed(m) \in States /\ Changed(m).txn = None
    BY <1>3, <2>1, <2>2, <2>3, StateEdits, RestoreType DEF States
  <2>. QED BY <1>8, <2>4 DEF m
<1>9. CASE proc.pc = "settle"
  <2>. DEFINE t == [m EXCEPT !.txn = None, !.failedInstall = journal.version]
              u == [t EXCEPT !.status = "Failed"]
  <2>1. journal.version \in Maybe(Version) /\ journal.txn \in Maybe(1..MaxTxn)
    BY <1>9, Basic, Typed DEF IInv, Knows, JournalKnows, Guarded, Undoing, Fresh, Maybe
  <2>2. t \in States /\ t.txn = None
    BY <1>1, <2>1 DEF States, StateOf, Maybe
  <2>3. Changed(m) = RecordFailure(u, "Installation", journal.version, journal.txn)
    BY <1>9 DEF Changed
  <2>. HIDE DEF t
  <2>4. u \in States /\ u.txn = None
    BY <1>3, <2>2, StateEdits DEF States
  <2>. HIDE DEF u
  <2>5. Changed(m) \in States /\ Changed(m).txn = None
    BY <1>3, <2>1, <2>3, <2>4, RecordFailureType DEF States
  <2>. QED BY <1>9, <2>5 DEF m
<1>10. CASE proc.pc \notin {"interruptible", "installing", "mark", "finalize", "settle"}
  <2>1. Changed(m) = m
    BY <1>10 DEF Changed
  <2>. QED BY <1>1, <1>2, <1>10, <2>1 DEF m
<1>. QED BY <1>5, <1>6, <1>7, <1>8, <1>9, <1>10

(* What is saved commits only what is on the disk, and gives up only what    *)
(* can be put back.                                                          *)
LEMMA SavedDisk ==
  ASSUME IInv, proc.pc \in Installs, state'.txn = Changed(proc.mem).txn,
         UNCHANGED <<journal, dest, backup, unsynced>>
  PROVE  OldPairKept' /\ CommittedOnDisk'
<1>1. CASE proc.pc = "interruptible"
  <2>1. journal.phase < Saved /\ BackedUp /\ journal # None
    BY <1>1 DEF IInv, Knows, PublishKnows, JournalKnows, Publishing, Guarded, Fresh
  <2>2. ~state'.txn.committed
    BY <1>1, ChangedFacts
  <2>3. ~Committed'
    BY <2>1, <2>2, Basic, Typed, Constants DEF Committed, TxnCommitted
  <2>4. InPlace
    BY <1>1 DEF IInv, Knows, PublishKnows
  <2>. QED BY <2>3, <2>4 DEF OldPairKept, CommittedOnDisk, InPlace
<1>2. CASE proc.pc = "mark"
  <2>1. Published /\ Durable /\ journal # None /\ journal.txn = txns /\ journal.version = proc.want
    BY <1>2 DEF IInv, Knows, PublishKnows, JournalKnows, Publishing, Guarded, Fresh
  <2>2. TxnCommitted'
    BY <1>2, <2>1, ChangedFacts DEF TxnCommitted
  <2>. QED BY <2>1, <2>2 DEF OldPairKept, CommittedOnDisk, Committed, Published, Durable, NewFile
<1>3. CASE proc.pc = "finalize"
  <2>1. journal # None /\ journal.phase = Cleaned
    BY <1>3 DEF IInv, Knows, CleanKnows, JournalKnows, Guarded, Fresh
  <2>2. Committed /\ Committed'
    BY <2>1 DEF Committed
  <2>. QED BY <2>2 DEF IInv, OldPairKept, CommittedOnDisk, NewFile
<1>4. CASE proc.pc = "settle"
  <2>1. InPlace /\ journal # None /\ journal.phase < Saved
    BY <1>4 DEF IInv, Knows, UndoKnows, JournalKnows, Undoing, Guarded, Fresh
  <2>2. state'.txn = None
    BY <1>4, ChangedFacts
  <2>3. ~Committed'
    BY <2>1, <2>2, Basic, Typed, Constants DEF Committed, TxnCommitted
  <2>. QED BY <2>1, <2>3 DEF OldPairKept, CommittedOnDisk, InPlace
<1>5. CASE proc.pc \notin {"interruptible", "mark", "finalize", "settle"}
  BY <1>5, ChangedFacts, SameTxn
<1>. QED BY <1>1, <1>2, <1>3, <1>4, <1>5

LEMMA FileAtFacts ==
  /\ \A i \in 1..2 : FileAt(i) \in Files
  /\ \A i, j \in 1..2 : FileAt(i) = FileAt(j) => i = j
  /\ \A f \in Files : \E i \in 1..2 : f = FileAt(i)
BY DEF FileAt, Files

LEMMA SaveStepPreserves ==
  ASSUME IInv, SaveStep
  PROVE  IInv'
<1>. DEFINE m == Changed(proc.mem)
            x == AfterSave[proc.pc]
<1>1. /\ proc.pc \in Saves /\ state' = m /\ proc' = [proc EXCEPT !.pc = x, !.mem = m]
      /\ UNCHANGED <<artifact, journal, pair, runtimes, txns, faults>>
  BY DEF SaveStep, Save, With
<1>2. m \in States
  BY ChangedFacts
<1>3. /\ proc.pc = "interruptible" => x = "installing"
      /\ proc.pc = "installing" => x = "rename"
      /\ proc.pc = "mark" => x = "noteSaved"
      /\ proc.pc \in {"finalize", "settle"} => x = "unjournal"
  BY DEF AfterSave
<1>4. x \in Pcs /\ proc.pc \in {"interruptible", "installing", "mark", "finalize", "settle"}
  BY <1>1, <1>3 DEF Saves, Pcs
<1>5. state'.txn = Changed(proc.mem).txn /\ proc.pc \in Installs
  BY <1>1, <1>4 DEF Installs, Guarded, Publishing, Undoing
<1>. HIDE DEF m, x
<1>6. /\ proc' \in Proc /\ proc'.pc = x /\ proc'.mem = m /\ proc'.want = proc.want
      /\ proc'.recovering = proc.recovering /\ proc'.guards = proc.guards /\ proc'.at = proc.at
  BY <1>1, <1>2, <1>4, Basic, Typed DEF Proc, States
<1>7. TypeOK'
  BY <1>1, <1>2, <1>6, Basic DEF TypeOK, pair, runtimes, States
<1>8. OldPairKept' /\ CommittedOnDisk'
  BY <1>1, <1>5, SavedDisk DEF pair
<1>9. GuardsHold' /\ CopyKnows'
  BY <1>1, <1>3, <1>4, <1>6 DEF IInv, Knows, GuardsHold, CopyKnows, runtimes, Guarded, Publishing, Undoing
<1>10. BeginKnows'
  BY <1>1, <1>3, <1>4, <1>6 DEF IInv, Knows, BeginKnows, Installs, Guarded, Fresh, Publishing, Undoing
<1>11. JournalKnows'
  BY <1>1, <1>3, <1>4, <1>6 DEF IInv, Knows, JournalKnows, Guarded, Fresh, Publishing, Undoing, Durable, pair
<1>12. PublishKnows'
  <2>1. CASE proc.pc = "interruptible"
    BY <1>1, <1>3, <1>5, <1>6, <2>1, ChangedFacts DEF IInv, Knows, PublishKnows, Publishing, pair, InPlace,
       StagedNew, BackedUp, NewFile
  <2>2. CASE proc.pc = "installing"
    <3>1. state'.txn = state.txn /\ proc.at = 1
      BY <1>5, <2>2, ChangedFacts DEF IInv, Knows, BeginKnows
    <3>2. StagedNew /\ BackedUp /\ proc'.pc = "rename"
      BY <1>3, <1>6, <2>2 DEF IInv, Knows, PublishKnows, Publishing
    <3>3. \A i \in 1..Renamed : staged'[FileAt(i)] = NewFile' /\ ~(i < proc'.at)
      BY <1>1, <1>6, <3>1, <3>2, FileAtFacts, Constants DEF StagedNew, pair, NewFile
    <3>. QED BY <1>1, <1>6, <2>2, <3>1, <3>2, <3>3 DEF IInv, Knows, PublishKnows, Publishing, pair,
             BackedUp
  <2>3. CASE proc.pc = "mark"
    <3>1. Published /\ Durable /\ BackedUp /\ journal.txn = txns /\ journal.version = proc.want
          /\ journal.phase < Saved /\ journal # None
      BY <2>3 DEF IInv, Knows, PublishKnows, JournalKnows, Publishing, Guarded, Fresh
    <3>2. TxnCommitted'
      BY <1>1, <1>5, <2>3, <3>1, ChangedFacts DEF TxnCommitted
    <3>. QED BY <1>1, <1>3, <1>6, <2>3, <3>1, <3>2 DEF PublishKnows, Publishing, pair, Published, Durable,
             BackedUp, NewFile
  <2>4. CASE proc.pc \in {"finalize", "settle"}
    BY <1>3, <1>6, <2>4 DEF PublishKnows, Publishing
  <2>. QED BY <1>4, <2>1, <2>2, <2>3, <2>4
<1>13. CleanKnows'
  <2>1. CASE proc.pc = "finalize"
    <3>1. Committed
      BY <2>1 DEF IInv, Knows, CleanKnows, JournalKnows, Guarded, Fresh, Committed
    <3>2. Published /\ Durable
      BY <3>1 DEF IInv, CommittedOnDisk, Published, Durable
    <3>. QED BY <1>1, <1>3, <1>6, <2>1, <3>2 DEF CleanKnows, Published, Durable, pair, NewFile
  <2>2. CASE proc.pc = "settle"
    BY <1>1, <1>3, <1>6, <2>2 DEF IInv, Knows, UndoKnows, CleanKnows, InPlace, Durable, pair
  <2>3. CASE proc.pc \in {"interruptible", "installing", "mark"}
    BY <1>3, <1>6, <2>3 DEF CleanKnows
  <2>. QED BY <1>4, <2>1, <2>2, <2>3
<1>14. UndoKnows'
  BY <1>3, <1>4, <1>6 DEF UndoKnows, Undoing
<1>. QED BY <1>7, <1>8, <1>9, <1>10, <1>11, <1>12, <1>13, <1>14 DEF IInv, Knows

(* A failed step saves its failure and ends.                                 *)
LEMMA StepFailsPreserves ==
  ASSUME IInv, StepFails
  PROVE  IInv'
<1>. DEFINE m == Changed(proc.mem)
            s == [m EXCEPT !.failedInstall = proc.want]
            u == [s EXCEPT !.status = "Failed"]
            id == IF s.txn = None THEN None ELSE s.txn.id
            r == IF s.failure # None THEN Restore(s)
                 ELSE RecordFailure(u, "Installation", proc.want, id)
<1>1. /\ proc.pc \in {"stage", "journal", "backup", "rename", "sync", "verify", "clean", "unjournal"}
                     \cup Saves \cup Notes
      /\ SaveAndEnd(r) /\ Fault
      /\ staged' = IF journal = None THEN [f \in Files |-> None] ELSE staged
      /\ UNCHANGED <<artifact, journal, dest, backup, unsynced, runtimes, txns>>
  BY DEF StepFails
<1>2. proc.pc \in Installs
  BY <1>1 DEF Installs, Guarded, Publishing, Undoing, Saves, Notes
<1>3. m \in States
  BY ChangedFacts
<1>. HIDE DEF m
<1>4. proc.want \in Maybe(Version) /\ "Failed" \in Statuses /\ "Installation" \in Kinds
  BY Basic, Typed DEF Statuses, Kinds
<1>5. s \in States /\ s.txn = m.txn
  BY <1>3, <1>4, StateEdits DEF States
<1>. HIDE DEF s
<1>6. u \in States /\ u.txn = m.txn /\ id \in Maybe(1..MaxTxn)
  BY <1>4, <1>5, StateEdits, StateFields DEF States, Maybe
<1>. HIDE DEF u, id
<1>7. r \in States /\ r.txn = m.txn
  BY <1>4, <1>5, <1>6, RestoreType, RecordFailureType DEF States
<1>. HIDE DEF r
<1>8. proc' = Resting /\ state' = r
  BY <1>1 DEF SaveAndEnd, End
<1>9. OldPairKept' /\ CommittedOnDisk'
  BY <1>1, <1>2, <1>7, <1>8, SavedDisk DEF m
<1>10. staged' \in [Files -> Maybe(File)]
  BY <1>1, Basic, Constants DEF TypeOK
<1>11. TypeOK'
  BY <1>1, <1>7, <1>8, <1>10, Basic, FaultType, RestingType DEF TypeOK, runtimes, States
<1>12. "idle" \notin Installs /\ CopyKnows'
  BY <1>8, RestingType, OthersApart DEF Others, CopyKnows
<1>. QED BY <1>1, <1>8, <1>9, <1>11, <1>12, RestingType, Leaves DEF runtimes

LEMMA NoteStepPreserves ==
  ASSUME IInv, NoteStep
  PROVE  IInv'
<1>. DEFINE k == CASE proc.pc = "note" -> proc.at [] proc.pc = "noteSynced" -> Synced
                   [] proc.pc = "noteVerified" -> Verified [] proc.pc = "noteSaved" -> Saved
                   [] proc.pc = "noteCleaned" -> Cleaned
<1>1. /\ proc.pc \in Notes /\ journal' = [journal EXCEPT !.phase = k]
      /\ UNCHANGED <<state, artifact, pair, runtimes, txns, faults>>
      /\ CASE proc.pc = "note" /\ MoreFiles ->
                proc' = [proc EXCEPT !.pc = "rename", !.at = @ + 1]
           [] proc.pc = "note" /\ ~MoreFiles -> Goto("sync")
           [] proc.pc = "noteSynced" -> Goto("verify")
           [] proc.pc = "noteVerified" -> Goto("mark")
           [] proc.pc = "noteSaved" -> Goto("clean")
           [] proc.pc = "noteCleaned" -> Goto("finalize")
  BY DEF NoteStep
<1>2. /\ proc.pc \in {"note", "noteSynced", "noteVerified", "noteSaved", "noteCleaned"}
      /\ proc.pc \in Installs /\ proc.pc \in Guarded \ Fresh /\ proc.at \in 1..2
  BY <1>1, Basic, Typed DEF Notes, Installs, Guarded, Fresh, Publishing, Undoing
<1>3. /\ proc.pc = "note" => k = proc.at
      /\ proc.pc = "noteSynced" => k = 3
      /\ proc.pc = "noteVerified" => k = 4
      /\ proc.pc = "noteSaved" => k = 5
      /\ proc.pc = "noteCleaned" => k = 6
  BY Constants
<1>4. journal # None /\ journal \in Journal /\ k \in 0..6
  BY <1>2, <1>3, Basic, Typed DEF IInv, Knows, JournalKnows
<1>. HIDE DEF k
<1>5. /\ journal' \in Journal /\ journal' # None /\ journal'.txn = journal.txn
      /\ journal'.version = journal.version /\ journal'.old = journal.old /\ journal'.phase = k
  BY <1>1, <1>4, Constants DEF Journal
<1>6. /\ proc' \in Proc /\ proc'.mem = proc.mem /\ proc'.want = proc.want
      /\ proc'.recovering = proc.recovering /\ proc'.guards = proc.guards
      /\ \/ proc.pc = "note" /\ proc.at = 1 /\ proc'.pc = "rename" /\ proc'.at = 2
         \/ proc.pc = "note" /\ proc.at = 2 /\ proc'.pc = "sync"
         \/ proc.pc = "noteSynced" /\ proc'.pc = "verify"
         \/ proc.pc = "noteVerified" /\ proc'.pc = "mark"
         \/ proc.pc = "noteSaved" /\ proc'.pc = "clean"
         \/ proc.pc = "noteCleaned" /\ proc'.pc = "finalize"
  <2>1. {"rename", "sync", "verify", "mark", "clean", "finalize"} \subseteq Pcs
    BY DEF Pcs
  <2>2. CASE proc.pc = "note" /\ MoreFiles
    <3>1. proc.at = 1 /\ proc' = [proc EXCEPT !.pc = "rename", !.at = @ + 1]
      BY <1>1, <1>2, <2>2, Constants DEF MoreFiles
    <3>2. proc' = [proc EXCEPT !.pc = "rename", !.at = 2]
      BY <3>1
    <3>3. proc \in Proc /\ "rename" \in Pcs /\ 2 \in 1..2
      BY <2>1, Basic, Typed
    <3>4. proc' \in Proc
      BY <3>2, <3>3, ProcEdits
    <3>5. /\ proc'.pc = "rename" /\ proc'.at = 2 /\ proc'.mem = proc.mem /\ proc'.want = proc.want
          /\ proc'.recovering = proc.recovering /\ proc'.guards = proc.guards
      BY <3>2, <3>3 DEF Proc
    <3>. QED BY <2>2, <3>1, <3>4, <3>5
  <2>3. CASE proc.pc = "note" /\ ~MoreFiles
    <3>1. proc.at = 2 /\ Goto("sync")
      BY <1>1, <1>2, <2>3, Constants DEF MoreFiles
    <3>. QED BY <2>1, <2>3, <3>1, Basic, GotoFacts
  <2>4. CASE proc.pc # "note"
    BY <1>1, <1>2, <2>1, <2>4, Basic, GotoFacts
  <2>. QED BY <2>2, <2>3, <2>4
<1>7. TypeOK'
  BY <1>1, <1>5, <1>6, Basic DEF TypeOK, pair, runtimes, Maybe
<1>8. GuardsHold' /\ CopyKnows' /\ BeginKnows'
  BY <1>1, <1>2, <1>6 DEF IInv, Knows, GuardsHold, CopyKnows, BeginKnows, runtimes, Installs, Guarded, Fresh,
     Publishing, Undoing
<1>9. JournalKnows'
  BY <1>4, <1>5 DEF IInv, Knows, JournalKnows
<1>10. NewFile' = NewFile /\ (TxnCommitted' <=> TxnCommitted)
  BY <1>1, <1>4, <1>5 DEF NewFile, TxnCommitted
<1>11. PublishKnows'
  <2>1. CASE proc.pc = "note"
    <3>1. /\ journal.txn = txns /\ journal.version = proc.want /\ BackedUp
          /\ state.txn = [id |-> txns, version |-> proc.want, committed |-> FALSE]
          /\ \A i \in 1..2 : IF i <= proc.at THEN dest[FileAt(i)] = NewFile
                             ELSE staged[FileAt(i)] = NewFile
      BY <2>1, Constants DEF IInv, Knows, PublishKnows, Publishing
    <3>2. proc.at = 2 => Published
      <4>1. proc.at = 2 => \A i \in 1..2 : dest[FileAt(i)] = NewFile
        BY <3>1
      <4>. QED BY <4>1, FileAtFacts DEF Published
    <3>3. \A i \in 1..2 : i < 2 <=> i <= 1
      OBVIOUS
    <3>. QED BY <1>1, <1>3, <1>5, <1>6, <1>10, <2>1, <3>1, <3>2, <3>3, Constants
             DEF PublishKnows, Publishing, BackedUp, Published, pair
  <2>2. CASE proc.pc \in {"noteSynced", "noteVerified"}
    BY <1>1, <1>3, <1>5, <1>6, <1>10, <2>2, Constants DEF IInv, Knows, PublishKnows, Publishing, BackedUp,
       Published, Durable, pair
  <2>3. CASE proc.pc \in {"noteSaved", "noteCleaned"}
    BY <1>6, <2>3 DEF PublishKnows, Publishing
  <2>. QED BY <1>2, <2>1, <2>2, <2>3
<1>12. CleanKnows'
  BY <1>2, <1>3, <1>5, <1>6, <1>10, Constants DEF IInv, Knows, CleanKnows, PublishKnows, Committed
<1>13. UndoKnows'
  BY <1>6 DEF UndoKnows, Undoing
<1>14. OldPairKept' /\ CommittedOnDisk'
  <2>1. CASE proc.pc = "noteCleaned"
    <3>1. Committed /\ Committed'
      BY <1>3, <1>5, <2>1, Constants DEF IInv, Knows, CleanKnows, Committed
    <3>. QED BY <1>1, <1>10, <3>1 DEF IInv, OldPairKept, CommittedOnDisk, pair
  <2>2. CASE proc.pc # "noteCleaned"
    <3>1. journal.phase < 5 /\ journal.phase \in 0..6 /\ journal'.phase # 6
      BY <1>2, <1>3, <1>4, <1>5, <2>2, Basic, Typed, Constants DEF IInv, Knows, PublishKnows, Publishing
    <3>2. Committed <=> TxnCommitted
      BY <3>1, Constants DEF Committed
    <3>3. Committed' <=> TxnCommitted'
      BY <3>1, Constants DEF Committed
    <3>. QED BY <1>1, <1>4, <1>5, <1>10, <3>1, <3>2, <3>3, Constants DEF IInv, OldPairKept, CommittedOnDisk, pair
  <2>. QED BY <2>1, <2>2
<1>. QED BY <1>7, <1>8, <1>9, <1>11, <1>12, <1>13, <1>14 DEF IInv, Knows

LEMMA RenamePreserves ==
  ASSUME IInv, Rename
  PROVE  IInv'
<1>. DEFINE f == FileAt(proc.at)
<1>1. /\ proc.pc = "rename" /\ Goto("note")
      /\ dest' = [dest EXCEPT ![f] = staged[f]] /\ staged' = [staged EXCEPT ![f] = None]
      /\ unsynced' = [unsynced EXCEPT ![f] = "published"]
      /\ UNCHANGED <<state, artifact, journal, backup, runtimes, txns, faults>>
  BY DEF Rename
<1>2. f \in Files /\ proc.at \in 1..2
  BY Basic, Typed, FileAtFacts
<1>3. /\ proc' \in Proc /\ proc'.pc = "note" /\ proc'.mem = proc.mem /\ proc'.want = proc.want
      /\ proc'.recovering = proc.recovering /\ proc'.guards = proc.guards /\ proc'.at = proc.at
  BY <1>1, Basic, GotoFacts, "note" \in Pcs DEF Pcs
<1>4. /\ dest \in [Files -> Maybe(File)] /\ staged \in [Files -> Maybe(File)]
      /\ unsynced \in [Files -> {"none", "published", "restored"}]
  BY Basic DEF TypeOK
<1>5. /\ journal # None /\ journal.txn = txns /\ journal.version = proc.want /\ journal.phase < Saved
      /\ BackedUp /\ state.txn = [id |-> txns, version |-> proc.want, committed |-> FALSE]
      /\ \A i \in 1..2 : IF i < proc.at THEN dest[FileAt(i)] = NewFile
                         ELSE staged[FileAt(i)] = NewFile
  BY <1>1, Constants DEF IInv, Knows, PublishKnows, JournalKnows, Publishing, Guarded, Fresh
<1>6. TypeOK'
  BY <1>1, <1>2, <1>3, <1>4, Basic, Constants DEF TypeOK, runtimes
<1>7. GuardsHold' /\ CopyKnows' /\ BeginKnows' /\ JournalKnows'
  BY <1>1, <1>3, <1>5 DEF IInv, Knows, GuardsHold, CopyKnows, BeginKnows, JournalKnows, runtimes, Installs,
     Guarded, Fresh, Publishing, Undoing
<1>8. ~Committed /\ ~Committed'
  BY <1>1, <1>5, Basic, Typed, Constants DEF Committed, TxnCommitted
<1>9. staged[f] = NewFile /\ dest'[f] = NewFile /\ NewFile' = NewFile
  BY <1>1, <1>2, <1>4, <1>5 DEF NewFile
<1>10. \A i \in 1..2 : IF i <= proc.at THEN dest'[FileAt(i)] = NewFile
                       ELSE staged'[FileAt(i)] = NewFile
  BY <1>1, <1>2, <1>4, <1>5, <1>9, FileAtFacts
<1>11. PublishKnows' /\ CleanKnows' /\ UndoKnows'
  BY <1>1, <1>3, <1>5, <1>9, <1>10, Constants DEF PublishKnows, CleanKnows, UndoKnows, Publishing, Undoing,
     BackedUp
<1>12. OldPairKept'
  <2>. SUFFICES ASSUME NEW g \in Files
                PROVE  \/ dest'[g] = journal.old[g]
                       \/ journal.old[g] # None /\ backup[g] = journal.old[g]
                       \/ journal.old[g] = None /\ dest'[g] = NewFile
    BY <1>1, <1>9 DEF OldPairKept
  <2>1. backup[g] = journal.old[g]
    BY <1>5 DEF BackedUp
  <2>2. \/ dest[g] = journal.old[g] \/ journal.old[g] # None \/ dest[g] = NewFile
    BY <1>5, <1>8 DEF IInv, OldPairKept
  <2>3. dest'[g] = IF g = f THEN NewFile ELSE dest[g]
    BY <1>1, <1>2, <1>4, <1>9
  <2>. QED BY <2>1, <2>2, <2>3
<1>13. CommittedOnDisk'
  BY <1>8 DEF CommittedOnDisk
<1>. QED BY <1>6, <1>7, <1>11, <1>12, <1>13 DEF IInv, Knows

LEMMA SyncPreserves ==
  ASSUME IInv, Sync
  PROVE  IInv'
<1>1. /\ proc.pc = "sync" /\ Goto("noteSynced") /\ unsynced' = [f \in Files |-> "none"]
      /\ UNCHANGED <<state, artifact, journal, dest, staged, backup, runtimes, txns, faults>>
  BY DEF Sync
<1>2. /\ proc' \in Proc /\ proc'.pc = "noteSynced" /\ proc'.mem = proc.mem /\ proc'.want = proc.want
      /\ proc'.recovering = proc.recovering /\ proc'.guards = proc.guards /\ proc'.at = proc.at
  BY <1>1, Basic, GotoFacts, "noteSynced" \in Pcs DEF Pcs
<1>3. TypeOK'
  BY <1>1, <1>2, Basic DEF TypeOK, runtimes
<1>4. GuardsHold' /\ CopyKnows' /\ BeginKnows' /\ JournalKnows'
  BY <1>1, <1>2 DEF IInv, Knows, GuardsHold, CopyKnows, BeginKnows, JournalKnows, runtimes, Installs,
     Guarded, Fresh, Publishing, Undoing, Durable
<1>5. PublishKnows' /\ CleanKnows' /\ UndoKnows'
  BY <1>1, <1>2 DEF IInv, Knows, PublishKnows, CleanKnows, UndoKnows, Publishing, Undoing,
     BackedUp, Published, Durable, NewFile
<1>6. OldPairKept' /\ CommittedOnDisk'
  BY <1>1 DEF IInv, OldPairKept, CommittedOnDisk, Committed, TxnCommitted, NewFile
<1>. QED BY <1>3, <1>4, <1>5, <1>6 DEF IInv, Knows

LEMMA VerifyPreserves ==
  ASSUME IInv, Verify
  PROVE  IInv'
<1>1. /\ proc.pc = "verify" /\ Goto("noteVerified")
      /\ UNCHANGED <<state, artifact, journal, pair, runtimes, txns, faults>>
  BY DEF Verify
<1>2. /\ proc' \in Proc /\ proc'.pc = "noteVerified" /\ proc'.mem = proc.mem /\ proc'.want = proc.want
      /\ proc'.recovering = proc.recovering /\ proc'.guards = proc.guards /\ proc'.at = proc.at
  BY <1>1, Basic, GotoFacts, "noteVerified" \in Pcs DEF Pcs
<1>3. TypeOK'
  BY <1>1, <1>2, Basic DEF TypeOK, runtimes, pair
<1>4. GuardsHold' /\ CopyKnows' /\ BeginKnows' /\ JournalKnows'
  BY <1>1, <1>2 DEF IInv, Knows, GuardsHold, CopyKnows, BeginKnows, JournalKnows, runtimes, Installs,
     Guarded, Fresh, Publishing, Undoing, Durable, pair
<1>5. PublishKnows' /\ CleanKnows' /\ UndoKnows'
  BY <1>1, <1>2 DEF IInv, Knows, PublishKnows, CleanKnows, UndoKnows, Publishing, Undoing,
     BackedUp, Published, Durable, NewFile, pair
<1>6. OldPairKept' /\ CommittedOnDisk'
  BY <1>1, SameTxn DEF pair
<1>. QED BY <1>3, <1>4, <1>5, <1>6 DEF IInv, Knows

-----------------------------------------------------------------------------
(* Cleaning up, and recovery.                                                *)

LEMMA CleanPreserves ==
  ASSUME IInv, Clean
  PROVE  IInv'
<1>. DEFINE x == IF proc.pc = "clean" THEN "noteCleaned" ELSE "settle"
<1>1. /\ proc.pc \in {"clean", "sweep"} /\ Goto(x)
      /\ staged' = [f \in Files |-> None] /\ backup' = [f \in Files |-> None]
      /\ unsynced' = [f \in Files |-> "none"]
      /\ UNCHANGED <<state, artifact, journal, dest, runtimes, txns, faults>>
  BY DEF Clean
<1>2. x \in Pcs /\ (proc.pc = "clean" => x = "noteCleaned") /\ (proc.pc = "sweep" => x = "settle")
  BY DEF Pcs
<1>. HIDE DEF x
<1>3. /\ proc' \in Proc /\ proc'.pc = x /\ proc'.mem = proc.mem /\ proc'.want = proc.want
      /\ proc'.recovering = proc.recovering /\ proc'.guards = proc.guards /\ proc'.at = proc.at
  BY <1>1, <1>2, Basic, GotoFacts
<1>4. TypeOK'
  BY <1>1, <1>3, Basic, Constants DEF TypeOK, runtimes
<1>5. GuardsHold' /\ CopyKnows' /\ BeginKnows' /\ JournalKnows'
  BY <1>1, <1>2, <1>3 DEF IInv, Knows, GuardsHold, CopyKnows, BeginKnows, JournalKnows, runtimes, Installs,
     Guarded, Fresh, Publishing, Undoing, Durable
<1>6. (Committed' <=> Committed) /\ (TxnCommitted' <=> TxnCommitted)
  BY <1>1 DEF Committed, TxnCommitted
<1>7. PublishKnows' /\ CleanKnows' /\ UndoKnows'
  BY <1>1, <1>2, <1>3, <1>6 DEF IInv, Knows, PublishKnows, CleanKnows, UndoKnows, Publishing, Undoing,
     InPlace, Durable
<1>8. OldPairKept'
  <2>1. CASE proc.pc = "clean"
    BY <1>6, <2>1 DEF IInv, Knows, CleanKnows, OldPairKept
  <2>2. CASE proc.pc = "sweep"
    BY <1>1, <2>2 DEF IInv, Knows, UndoKnows, InPlace, OldPairKept
  <2>. QED BY <1>1, <2>1, <2>2
<1>9. CommittedOnDisk'
  BY <1>1, <1>6 DEF IInv, CommittedOnDisk, NewFile
<1>. QED BY <1>4, <1>5, <1>7, <1>8, <1>9 DEF IInv, Knows

(* The journal goes over the new pair or over the old one, which is whole    *)
(* either way.                                                               *)
LEMMA UnjournalPreserves ==
  ASSUME IInv, Unjournal
  PROVE  IInv'
<1>1. /\ proc.pc = "unjournal" /\ journal' = None /\ proc' = Resting
      /\ UNCHANGED <<state, artifact, pair, runtimes, txns, faults>>
  BY DEF Unjournal, End
<1>2. Durable /\ (Published \/ InPlace) /\ journal # None /\ WholePair(journal.old)
  BY <1>1 DEF IInv, Knows, CleanKnows, JournalKnows, Guarded, Fresh
<1>3. WholePair(dest)
  <2>1. "helper" \in Files /\ "runtime" \in Files
    BY DEF Files
  <2>. QED BY <1>2, <2>1 DEF WholePair, Published, InPlace
<1>4. TypeOK'
  BY <1>1, Basic, RestingType DEF TypeOK, pair, runtimes, Maybe
<1>5. GuardsHold' /\ CopyKnows' /\ BeginKnows'
  BY <1>1, RestingType, OthersApart
     DEF GuardsHold, CopyKnows, BeginKnows, Installs, Guarded, Fresh, Publishing, Undoing
<1>6. JournalKnows'
  BY <1>1, <1>2, <1>3, RestingType DEF JournalKnows, Durable, pair, Guarded, Publishing, Undoing
<1>7. PublishKnows' /\ CleanKnows' /\ UndoKnows'
  BY <1>1, RestingType DEF PublishKnows, CleanKnows, UndoKnows, Publishing, Undoing
<1>8. OldPairKept' /\ CommittedOnDisk'
  BY <1>1 DEF OldPairKept, CommittedOnDisk, Committed, TxnCommitted
<1>. QED BY <1>4, <1>5, <1>6, <1>7, <1>8 DEF IInv, Knows

LEMMA RecoverPreserves ==
  ASSUME IInv, Recover
  PROVE  IInv'
<1>. DEFINE claims == journal.phase >= Saved \/ TxnCommitted
<1>1. /\ proc.pc = "recover" /\ UNCHANGED <<state, artifact, journal, pair, runtimes, txns, faults>>
      /\ IF claims
         THEN \/ /\ TxnCommitted \/ journal.phase = Cleaned
                 /\ Goto("clean")
              \/ End
         ELSE proc' = [proc EXCEPT !.pc = "restore", !.at = 1]
  BY DEF Recover
<1>2. journal # None /\ journal.phase \in 0..6
  BY <1>1, Basic, Typed DEF IInv, Knows, JournalKnows, Guarded, Fresh
<1>3. CASE End
  BY <1>1, <1>3, Basic, Typed, Ends
<1>4. CASE (TxnCommitted \/ journal.phase = Cleaned) /\ Goto("clean")
  <2>1. /\ proc' \in Proc /\ proc'.pc = "clean" /\ proc'.mem = proc.mem /\ proc'.want = proc.want
        /\ proc'.recovering = proc.recovering /\ proc'.guards = proc.guards /\ proc'.at = proc.at
    BY <1>4, Basic, GotoFacts, "clean" \in Pcs DEF Pcs
  <2>2. TypeOK'
    BY <1>1, <2>1, Basic DEF TypeOK, pair, runtimes
  <2>3. Committed'
    BY <1>1, <1>2, <1>4 DEF Committed, TxnCommitted
  <2>4. GuardsHold' /\ CopyKnows' /\ BeginKnows' /\ JournalKnows'
    BY <1>1, <2>1 DEF IInv, Knows, GuardsHold, CopyKnows, BeginKnows, JournalKnows, runtimes, Installs,
       Guarded, Fresh, Publishing, Undoing, Durable, pair
  <2>5. PublishKnows' /\ CleanKnows' /\ UndoKnows'
    BY <2>1, <2>3 DEF PublishKnows, CleanKnows, UndoKnows, Publishing, Undoing
  <2>6. OldPairKept' /\ CommittedOnDisk'
    BY <1>1, SameTxn DEF pair
  <2>. QED BY <2>2, <2>4, <2>5, <2>6 DEF IInv, Knows
<1>5. CASE ~claims /\ proc' = [proc EXCEPT !.pc = "restore", !.at = 1]
  <2>1. "restore" \in Pcs /\ 1 \in 1..2
    BY DEF Pcs
  <2>2. proc' \in Proc
    BY <1>5, <2>1, Basic, Typed, ProcEdits
  <2>3. /\ proc'.pc = "restore" /\ proc'.mem = proc.mem /\ proc'.want = proc.want
        /\ proc'.recovering = proc.recovering /\ proc'.guards = proc.guards /\ proc'.at = 1
    BY <1>5, Basic, Typed DEF Proc
  <2>4. TypeOK'
    BY <1>1, <2>2, Basic DEF TypeOK, pair, runtimes
  <2>5. journal'.phase < Saved /\ ~TxnCommitted'
    BY <1>1, <1>2, <1>5, Constants DEF TxnCommitted
  <2>6. GuardsHold' /\ CopyKnows' /\ BeginKnows' /\ JournalKnows'
    BY <1>1, <2>3 DEF IInv, Knows, GuardsHold, CopyKnows, BeginKnows, JournalKnows, runtimes, Installs,
       Guarded, Fresh, Publishing, Undoing, Durable, pair
  <2>7. PublishKnows' /\ CleanKnows' /\ UndoKnows'
    BY <2>3, <2>5, Constants DEF PublishKnows, CleanKnows, UndoKnows, Publishing, Undoing
  <2>8. OldPairKept' /\ CommittedOnDisk'
    BY <1>1, SameTxn DEF pair
  <2>. QED BY <2>4, <2>6, <2>7, <2>8 DEF IInv, Knows
<1>. QED BY <1>1, <1>3, <1>4, <1>5

LEMMA RestoreFilePreserves ==
  ASSUME IInv, RestoreFile
  PROVE  IInv'
<1>. DEFINE f == FileAt(proc.at)
            old == journal.old[f]
            next == IF MoreFiles THEN [proc EXCEPT !.at = @ + 1] ELSE [proc EXCEPT !.pc = "sweep"]
<1>1. /\ proc.pc = "restore" /\ UNCHANGED <<state, artifact, journal, staged, runtimes, txns, faults>>
      /\ \/ dest[f] = old /\ proc' = next /\ UNCHANGED <<dest, backup, unsynced>>
         \/ End /\ UNCHANGED <<dest, backup, unsynced>>
         \/ /\ dest' = [dest EXCEPT ![f] = old] /\ backup' = [backup EXCEPT ![f] = None]
            /\ unsynced' = [unsynced EXCEPT ![f] = "restored"] /\ proc' = next
  BY DEF RestoreFile
<1>2. CASE End /\ UNCHANGED <<dest, backup, unsynced>>
  BY <1>1, <1>2, Basic, Typed, Ends DEF pair
<1>3. ASSUME proc' = next,
             \/ dest[f] = old /\ UNCHANGED <<dest, backup, unsynced>>
             \/ /\ dest' = [dest EXCEPT ![f] = old] /\ backup' = [backup EXCEPT ![f] = None]
                /\ unsynced' = [unsynced EXCEPT ![f] = "restored"]
      PROVE  IInv'
  <2>1. f \in Files /\ proc.at \in 1..2
    BY Basic, Typed, FileAtFacts
  <2>2. /\ journal # None /\ journal.phase < Saved /\ ~TxnCommitted /\ journal.phase \in 0..6
        /\ journal.old \in [Files -> Maybe(File)]
        /\ \A i \in 1..2 : i < proc.at => dest[FileAt(i)] = journal.old[FileAt(i)]
    BY <1>1, Basic, Typed, Constants DEF IInv, Knows, UndoKnows, JournalKnows, Undoing, Guarded, Fresh
  <2>3. /\ dest \in [Files -> Maybe(File)] /\ backup \in [Files -> Maybe(File)]
        /\ unsynced \in [Files -> {"none", "published", "restored"}]
    BY Basic DEF TypeOK
  <2>4. /\ proc' \in Proc /\ proc'.mem = proc.mem /\ proc'.want = proc.want
        /\ proc'.recovering = proc.recovering /\ proc'.guards = proc.guards
        /\ \/ proc.at = 1 /\ proc'.pc = "restore" /\ proc'.at = 2
           \/ proc.at = 2 /\ proc'.pc = "sweep"
    <3>1. CASE proc.at = 1
      <4>1. proc' = [proc EXCEPT !.at = 2]
        BY <1>3, <3>1, Constants DEF MoreFiles
      <4>2. 2 \in 1..Renamed
        BY Constants
      <4>3. proc \in Proc
        BY Basic, Typed
      <4>4. proc' \in Proc
        BY <4>1, <4>2, <4>3 DEF Proc
      <4>. QED BY <1>1, <3>1, <4>1, <4>3, <4>4 DEF Proc
    <3>2. CASE proc.at = 2
      <4>1. proc' = [proc EXCEPT !.pc = "sweep"] /\ "sweep" \in Pcs
        BY <1>3, <3>2, Constants DEF MoreFiles, Pcs
      <4>2. proc' \in Proc
        BY <4>1, Basic, Typed, ProcEdits
      <4>. QED BY <1>1, <3>2, <4>1, <4>2, Basic, Typed DEF Proc
    <3>. QED BY <2>1, <3>1, <3>2
  <2>. HIDE DEF next
  <2>5. dest'[f] = old /\ \A g \in Files \ {f} : dest'[g] = dest[g] /\ backup'[g] = backup[g]
    BY <1>3, <2>1, <2>3
  <2>6. TypeOK'
    <3>1. /\ dest' \in [Files -> Maybe(File)] /\ backup' \in [Files -> Maybe(File)]
          /\ unsynced' \in [Files -> {"none", "published", "restored"}]
      BY <1>3, <2>1, <2>2, <2>3, Constants
    <3>. QED BY <1>1, <2>4, <3>1, Basic DEF TypeOK, runtimes
  <2>7. GuardsHold' /\ CopyKnows' /\ BeginKnows' /\ JournalKnows'
    BY <1>1, <2>2, <2>4 DEF IInv, Knows, GuardsHold, CopyKnows, BeginKnows, JournalKnows, runtimes, Installs,
       Guarded, Fresh, Publishing, Undoing
  <2>8. ~TxnCommitted' /\ ~Committed'
    BY <1>1, <2>2, Constants DEF Committed, TxnCommitted
  <2>9. \A i \in 1..2 : i <= proc.at => dest'[FileAt(i)] = journal.old[FileAt(i)]
    BY <2>1, <2>2, <2>5, FileAtFacts
  <2>10. proc.at = 2 => InPlace'
    <3>1. proc.at = 2 => \A i \in 1..2 : dest'[FileAt(i)] = journal.old[FileAt(i)]
      BY <2>9
    <3>. QED BY <1>1, <3>1, FileAtFacts DEF InPlace
  <2>11. \A i \in 1..2 : i < 2 <=> i <= 1
    OBVIOUS
  <2>12. PublishKnows' /\ CleanKnows' /\ UndoKnows'
    BY <1>1, <2>2, <2>4, <2>8, <2>9, <2>10, <2>11, Constants
       DEF PublishKnows, CleanKnows, UndoKnows, Publishing, Undoing
  <2>13. OldPairKept'
    <3>. SUFFICES ASSUME NEW g \in Files
                  PROVE  \/ dest'[g] = journal.old[g]
                         \/ journal.old[g] # None /\ backup'[g] = journal.old[g]
                         \/ journal.old[g] = None /\ dest'[g] = NewFile
      BY <1>1 DEF OldPairKept, NewFile
    <3>1. ~Committed
      BY <2>2, Constants DEF Committed
    <3>2. \/ dest[g] = journal.old[g]
          \/ journal.old[g] # None /\ backup[g] = journal.old[g]
          \/ journal.old[g] = None /\ dest[g] = NewFile
      BY <2>2, <3>1 DEF IInv, OldPairKept
    <3>. QED BY <2>5, <3>2
  <2>14. CommittedOnDisk'
    BY <2>8 DEF CommittedOnDisk
  <2>. QED BY <2>6, <2>7, <2>12, <2>13, <2>14 DEF IInv, Knows
<1>. QED BY <1>1, <1>2, <1>3

-----------------------------------------------------------------------------
(* The theorems.                                                             *)

LEMMA InitIInv == Init => IInv
<1>. SUFFICES ASSUME Init PROVE IInv
  OBVIOUS
<1>1. Initially \in StateOf(Version, MaxTxn)
  BY DEF Initially, StateOf, Statuses, Maybe
<1>2. /\ proc = Resting /\ journal = None /\ running = {} /\ booting = FALSE
      /\ unsynced = [f \in Files |-> "none"] /\ state = Initially
  BY DEF Init
<1>3. dest \in [Files -> Maybe(File)] /\ WholePair(dest)
  BY Constants DEF Init, Files, WholePair, Maybe
<1>4. TypeOK
  <2>1. /\ staged \in [Files -> Maybe(File)] /\ backup \in [Files -> Maybe(File)]
        /\ unsynced \in [Files -> {"none", "published", "restored"}]
    BY DEF Init, Maybe
  <2>2. artifact \in {"none", "partial", "valid"} /\ journal \in Maybe(Journal)
    BY DEF Init, Maybe
  <2>3. txns \in 0..MaxTxn /\ faults \in 0..MaxFaults
    BY Constants DEF Init
  <2>4. proc \in Proc
    BY <1>2, RestingType
  <2>. QED BY <1>1, <1>2, <1>3, <2>1, <2>2, <2>3, <2>4 DEF TypeOK
<1>5. GuardsHold /\ CopyKnows /\ BeginKnows
  BY <1>2, RestingType, OthersApart
     DEF GuardsHold, CopyKnows, BeginKnows, Installs, Guarded, Fresh, Publishing, Undoing
<1>6. JournalKnows
  BY <1>2, <1>3, RestingType DEF JournalKnows, Durable, Guarded, Publishing, Undoing
<1>7. PublishKnows /\ CleanKnows /\ UndoKnows
  BY <1>2, RestingType DEF PublishKnows, CleanKnows, UndoKnows, Publishing, Undoing
<1>8. OldPairKept /\ CommittedOnDisk
  BY <1>2 DEF OldPairKept, CommittedOnDisk, Committed, TxnCommitted
<1>. QED BY <1>4, <1>5, <1>6, <1>7, <1>8 DEF IInv, Knows

LEMMA StutterPreserves == IInv /\ UNCHANGED vars => IInv'
<1>. SUFFICES ASSUME IInv, UNCHANGED vars PROVE IInv'
  OBVIOUS
<1>1. UNCHANGED <<state, artifact, journal, dest, staged, backup, unsynced, running, booting, proc, txns, faults>>
  BY DEF vars, pair, runtimes
<1>2. TypeOK' /\ GuardsHold' /\ CopyKnows' /\ BeginKnows' /\ JournalKnows'
  BY <1>1 DEF IInv, Knows, TypeOK, GuardsHold, CopyKnows, BeginKnows, JournalKnows, Durable
<1>3. PublishKnows' /\ CleanKnows' /\ UndoKnows'
  BY <1>1 DEF IInv, Knows, PublishKnows, CleanKnows, UndoKnows, Committed, TxnCommitted, Durable,
     Published, BackedUp, InPlace, StagedNew, NewFile
<1>4. OldPairKept' /\ CommittedOnDisk'
  BY <1>1, SameTxn
<1>. QED BY <1>2, <1>3, <1>4 DEF IInv, Knows

LEMMA StepPreserves == IInv /\ [Next]_vars => IInv'
BY StutterPreserves, StartPreserves, MaintainPreserves, BeginCheckPreserves, FetchFailsPreserves,
   FetchAnswersPreserves, RequestedPreserves, ClearGenerationPreserves, ChoosePreserves,
   BuildPreserves, BuildFailsPreserves, FinishBuildPreserves, InstallPreserves, ObservePreserves,
   StagePreserves, AcquirePreserves, ReobservePreserves, WriteJournalPreserves, BackupPreserves,
   SaveStepPreserves, NoteStepPreserves, RenamePreserves, SyncPreserves, VerifyPreserves,
   CleanPreserves, UnjournalPreserves, StepFailsPreserves, RecoverPreserves, RestoreFilePreserves,
   RecoveryFailsPreserves, RuntimeChangesPreserves, SpawnFailsPreserves, CrashPreserves,
   PowerLossPreserves DEF Next

(* Every reachable state satisfies the invariant.                            *)
THEOREM Invariance == Spec => []IInv
BY InitIInv, StepPreserves, PTL DEF Spec

(* The state file, the disk and the command keep their types.                *)
THEOREM TypeCorrect == Spec => []TypeOK
<1>1. IInv => TypeOK
  BY DEF IInv
<1>. QED BY <1>1, Invariance, PTL

(* Without a journal the installed pair is of one release, whatever was      *)
(* interrupted before (transaction.rs).                                      *)
THEOREM PairsWhole == Spec => []PairWhole
<1>1. IInv => PairWhole
  BY DEF IInv, Knows, JournalKnows, PairWhole, WholePair
<1>. QED BY <1>1, Invariance, PTL

(* Until the commit every old file can be put back, and from the commit on   *)
(* the new pair is on the disk for good, after a crash or a loss of power at *)
(* any step (create_runtime_backup, commit_journaled_with).                  *)
THEOREM ReleasesKept == Spec => []ReleaseKept
<1>1. IInv => ReleaseKept
  BY DEF IInv, ReleaseKept
<1>. QED BY <1>1, Invariance, PTL

(* Only a rename, a restored file and a loss of power change the pair.       *)
LEMMA ChangesPair ==
  ASSUME Next, dest' # dest
  PROVE  Rename \/ RestoreFile \/ PowerLoss
BY DEF Next, Start, Maintain, BeginCheck, FetchFails, FetchAnswers, Requested, ClearGeneration, Choose,
   Build, BuildFails, FinishBuild, Install, Observe, Postpone, Stage, Acquire, Reobserve, WriteJournal,
   Backup, SaveStep, NoteStep, Sync, Verify, Clean, Unjournal, StepFails, Recover, RecoveryFails,
   RuntimeChanges, SpawnFails, Crash, pair

(* The pair never changes under a runtime (install_staged_if_still_inactive).*)
THEOREM NeverUnderRuntime == Spec => RunningUnchanged
<1>1. IInv /\ [Next]_vars => [dest' # dest => running' = {} /\ ~booting']_vars
  <2>. SUFFICES ASSUME IInv, Next, dest' # dest PROVE running' = {} /\ ~booting'
    BY DEF vars, pair
  <2>1. CASE Rename \/ RestoreFile
    <3>1. proc.pc \in Guarded \ {"reobserve"} /\ UNCHANGED runtimes
      BY <2>1 DEF Rename, RestoreFile, Guarded, Publishing, Undoing
    <3>. QED BY <3>1 DEF IInv, Knows, GuardsHold, runtimes
  <2>2. CASE PowerLoss
    BY <2>2 DEF PowerLoss
  <2>. QED BY <2>1, <2>2, ChangesPair
<1>. QED BY <1>1, Invariance, PTL DEF Spec, RunningUnchanged

-----------------------------------------------------------------------------
(* RuntimeUpdate implements AtomicInstall: the journal is the installation  *)
(* under way, and the state file commits it.                                *)

NewPair == [f \in Files |-> NewFile]
PairStep == [PairInstall!InstallNext]_(PairInstall!installVars)

LEMMA CommittedIs ==
  /\ Committed \in BOOLEAN /\ Committed' \in BOOLEAN
  /\ journal = None => Committed = FALSE
  /\ journal' = None => Committed' = FALSE
BY DEF Committed, TxnCommitted

(* A commit is never taken back while the journal is there: only the steps  *)
(* of an installation save another transaction, and an undo refuses a       *)
(* committed one.                                                           *)
LEMMA SavesKeepCommit ==
  ASSUME IInv, proc.pc \in Installs, state'.txn = Changed(proc.mem).txn, UNCHANGED journal, Committed
  PROVE  Committed'
<1>0. journal # None /\ journal.phase \in 0..6
  BY CommittedIs, Basic, Typed
<1>1. CASE proc.pc = "interruptible"
  <2>1. journal.phase < Saved /\ state.txn = None
    BY <1>1 DEF IInv, Knows, PublishKnows, Publishing
  <2>. QED BY <1>0, <2>1, Constants DEF Committed, TxnCommitted
<1>2. CASE proc.pc = "mark"
  <2>1. journal.txn = txns /\ journal.version = proc.want
    BY <1>2 DEF IInv, Knows, PublishKnows, Publishing
  <2>. QED BY <1>0, <1>2, <2>1, ChangedFacts DEF Committed, TxnCommitted
<1>3. CASE proc.pc = "finalize"
  BY <1>0, <1>3 DEF IInv, Knows, CleanKnows, Committed
<1>4. CASE proc.pc = "settle"
  <2>1. journal.phase < Saved /\ ~TxnCommitted
    BY <1>4 DEF IInv, Knows, UndoKnows, Undoing
  <2>. QED BY <1>0, <2>1, Constants DEF Committed
<1>5. CASE proc.pc \notin {"interruptible", "mark", "finalize", "settle"}
  <2>1. state'.txn = state.txn
    BY <1>5, ChangedFacts
  <2>. QED BY <2>1 DEF Committed, TxnCommitted
<1>. QED BY <1>1, <1>2, <1>3, <1>4, <1>5

LEMMA StepFailsSaves ==
  ASSUME IInv, StepFails
  PROVE  proc.pc \in Installs /\ state'.txn = Changed(proc.mem).txn /\ UNCHANGED <<journal, dest>>
<1>. DEFINE m == Changed(proc.mem)
            s == [m EXCEPT !.failedInstall = proc.want]
            u == [s EXCEPT !.status = "Failed"]
            id == IF s.txn = None THEN None ELSE s.txn.id
            r == IF s.failure # None THEN Restore(s)
                 ELSE RecordFailure(u, "Installation", proc.want, id)
<1>1. /\ proc.pc \in {"stage", "journal", "backup", "rename", "sync", "verify", "clean", "unjournal"}
                     \cup Saves \cup Notes
      /\ state' = r /\ UNCHANGED <<journal, dest>>
  BY DEF StepFails, SaveAndEnd
<1>2. proc.pc \in Installs
  BY <1>1 DEF Installs, Guarded, Publishing, Undoing, Saves, Notes
<1>3. m \in States
  BY ChangedFacts
<1>. HIDE DEF m
<1>4. proc.want \in Maybe(Version) /\ "Failed" \in Statuses /\ "Installation" \in Kinds
  BY Basic, Typed DEF Statuses, Kinds
<1>5. s \in States /\ s.txn = m.txn
  BY <1>3, <1>4, StateEdits DEF States
<1>. HIDE DEF s
<1>6. u \in States /\ u.txn = m.txn /\ id \in Maybe(1..MaxTxn)
  BY <1>4, <1>5, StateEdits, StateFields DEF States, Maybe
<1>. HIDE DEF u, id
<1>7. r \in States /\ r.txn = m.txn
  BY <1>4, <1>5, <1>6, RestoreType, RecordFailureType DEF States
<1>. QED BY <1>1, <1>2, <1>7 DEF m

(* What a step that records progress leaves of the journal.                 *)
LEMMA NoteKeepsJournal ==
  ASSUME IInv, NoteStep
  PROVE  /\ journal # None /\ journal' # None /\ journal'.old = journal.old /\ NewFile' = NewFile
         /\ Committed => Committed'
<1>. DEFINE k == CASE proc.pc = "note" -> proc.at [] proc.pc = "noteSynced" -> Synced
                   [] proc.pc = "noteVerified" -> Verified [] proc.pc = "noteSaved" -> Saved
                   [] proc.pc = "noteCleaned" -> Cleaned
<1>1. /\ proc.pc \in {"note", "noteSynced", "noteVerified", "noteSaved", "noteCleaned"}
      /\ journal' = [journal EXCEPT !.phase = k] /\ UNCHANGED state
  BY DEF NoteStep, Notes
<1>2. /\ proc.pc = "note" => k = proc.at
      /\ proc.pc = "noteSynced" => k = 3
      /\ proc.pc = "noteVerified" => k = 4
      /\ proc.pc = "noteSaved" => k = 5
      /\ proc.pc = "noteCleaned" => k = 6
  BY Constants
<1>3. journal # None /\ journal \in Journal /\ k \in 0..6
  BY <1>1, <1>2, Basic, Typed DEF IInv, Knows, JournalKnows, Guarded, Fresh, Publishing
<1>. HIDE DEF k
<1>4. /\ journal' \in Journal /\ journal' # None /\ journal'.txn = journal.txn
      /\ journal'.version = journal.version /\ journal'.old = journal.old /\ journal'.phase = k
  BY <1>1, <1>3, Constants DEF Journal
<1>5. TxnCommitted' <=> TxnCommitted
  BY <1>1, <1>3, <1>4 DEF TxnCommitted
<1>6. ASSUME Committed PROVE Committed'
  <2>1. CASE proc.pc \in {"note", "noteSynced", "noteVerified", "noteSaved"}
    <3>1. journal.phase < Saved
      BY <2>1 DEF IInv, Knows, PublishKnows, Publishing
    <3>2. TxnCommitted
      BY <1>3, <1>6, <3>1, Basic, Typed, Constants DEF Committed
    <3>. QED BY <1>5, <3>2 DEF Committed
  <2>2. CASE proc.pc = "noteCleaned"
    BY <1>2, <1>4, <2>2, Constants DEF Committed
  <2>. QED BY <1>1, <2>1, <2>2
<1>. QED BY <1>3, <1>4, <1>6 DEF NewFile

(* The steps that neither write nor remove nor note the journal keep it,    *)
(* and keep a commit.                                                       *)
LEMMA JournalKept ==
  ASSUME IInv, Next, ~WriteJournal, ~NoteStep, ~Unjournal
  PROVE  UNCHANGED journal /\ (Committed => Committed')
<1>1. UNCHANGED journal
  BY DEF Next, Start, Maintain, BeginCheck, FetchFails, FetchAnswers, Requested, ClearGeneration, Choose,
     Build, BuildFails, FinishBuild, Install, Observe, Postpone, Stage, Acquire, Reobserve,
     Backup, SaveStep, Rename, Sync, Verify, Clean, StepFails, Recover, RestoreFile, RecoveryFails,
     RuntimeChanges, SpawnFails, Crash, PowerLoss
<1>2. CASE state'.txn = state.txn
  BY <1>1, <1>2 DEF Committed, TxnCommitted
<1>3. CASE SaveStep \/ StepFails
  <2>1. proc.pc \in Installs /\ state'.txn = Changed(proc.mem).txn
    BY <1>3, StepFailsSaves DEF SaveStep, Save, Saves, Installs, Guarded, Publishing, Undoing
  <2>. QED BY <1>1, <2>1, SavesKeepCommit
<1>4. CASE Install
  BY <1>1, <1>4, <1>2, InstallPreserves, CommittedIs
<1>5. CASE ~(SaveStep \/ StepFails \/ Install)
  <2>1. CASE \/ Start \/ Maintain \/ BeginCheck \/ FetchFails \/ FetchAnswers
             \/ Requested \/ ClearGeneration \/ Choose \/ Build \/ BuildFails \/ FinishBuild
             \/ RecoveryFails \/ SpawnFails \/ Crash
    BY <1>2, <2>1, StartPreserves, MaintainPreserves, BeginCheckPreserves, FetchFailsPreserves,
       FetchAnswersPreserves, RequestedPreserves, ClearGenerationPreserves, ChoosePreserves,
       BuildPreserves, BuildFailsPreserves, FinishBuildPreserves, RecoveryFailsPreserves,
       SpawnFailsPreserves, CrashPreserves
  <2>2. CASE Observe \/ Acquire \/ Reobserve
    <3>1. CASE Postpone
      BY <1>2, <2>2, <3>1, PostponePreserves DEF Observe, Acquire, Reobserve
    <3>2. CASE ~Postpone
      BY <1>2, <2>2, <3>2 DEF Observe, Acquire, Reobserve
    <3>. QED BY <3>1, <3>2
  <2>3. CASE \/ Stage \/ Backup \/ Rename \/ Sync \/ Verify \/ Clean \/ Recover \/ RestoreFile
             \/ RuntimeChanges \/ PowerLoss
    BY <1>2, <2>3 DEF Stage, Backup, Rename, Sync, Verify, Clean, Recover, RestoreFile, RuntimeChanges,
       PowerLoss
  <2>. QED BY <1>5, <2>1, <2>2, <2>3 DEF Next
<1>. QED BY <1>1, <1>3, <1>4, <1>5

(* Without a journal nothing changes the pair: no rename is left to sync.   *)
LEMMA PairUnchanged ==
  ASSUME IInv, Next, journal = None
  PROVE  UNCHANGED dest
<1>1. ~Rename /\ ~RestoreFile
  BY DEF Rename, RestoreFile, IInv, Knows, JournalKnows, Guarded, Fresh, Publishing, Undoing
<1>2. CASE PowerLoss
  <2>1. \A f \in Files : unsynced[f] = "none"
    BY DEF IInv, Knows, JournalKnows, Durable
  <2>2. dest \in [Files -> Maybe(File)] /\ dest' = [f \in Files |-> dest[f]]
    BY <1>2, <2>1, Basic DEF PowerLoss, TypeOK
  <2>. QED BY <2>2
<1>. QED BY <1>1, <1>2, ChangesPair

(* A step under a journal that stays the same is a commit or nothing.       *)
LEMMA CommitsOrStays ==
  ASSUME journal # None, journal' # None, journal'.old = journal.old, NewFile' = NewFile,
         Committed => Committed'
  PROVE  PairStep
<1>1. CASE Committed <=> Committed'
  BY <1>1, CommittedIs DEF PairStep, PairInstall!installVars
<1>2. CASE ~Committed /\ Committed'
  <2>1. PairInstall!Commit
    BY <1>2, CommittedIs DEF PairInstall!Commit
  <2>. QED BY <2>1 DEF PairStep, PairInstall!InstallNext
<1>. QED BY <1>1, <1>2

LEMMA WriteJournalReplaces ==
  ASSUME IInv, IInv', WriteJournal
  PROVE  PairStep
<1>1. /\ proc.pc = "journal" /\ UNCHANGED <<state, dest>>
      /\ journal' = [txn |-> txns, version |-> proc.want, phase |-> 0, old |-> dest]
  BY DEF WriteJournal, pair
<1>2. journal = None /\ state.txn = None
  <2>1. ~proc.recovering
    BY <1>1 DEF IInv, Knows, BeginKnows
  <2>. QED BY <1>1, <2>1 DEF IInv, Knows, BeginKnows, Fresh
<1>3. Committed = FALSE /\ Committed' = FALSE
  <2>1. ~Committed'
    BY <1>1, <1>2, Constants DEF Committed, TxnCommitted
  <2>. QED BY <1>2, <2>1, CommittedIs
<1>4. proc'.pc = "backup"
  BY Basic, GotoFacts, "backup" \in Pcs DEF WriteJournal, Pcs
<1>5. journal' # None
  BY <1>4 DEF IInv, Knows, JournalKnows, Guarded, Fresh
<1>6. journal'.txn \in 1..MaxTxn /\ journal'.version \in Version /\ journal'.old = dest
  BY <1>1, <1>5 DEF IInv, TypeOK, Journal, Maybe
<1>7. NewFile' \in File
  BY <1>6, Constants DEF NewFile, File
<1>8. NewPair' \in Pairs
  BY <1>7 DEF NewPair, Pairs
<1>9. PairInstall!Replace
  BY <1>1, <1>2, <1>3, <1>5, <1>6, <1>8 DEF PairInstall!Replace, NewPair
<1>. QED BY <1>9 DEF PairStep, PairInstall!InstallNext

LEMMA UnjournalConcludes ==
  ASSUME IInv, Unjournal
  PROVE  PairStep
<1>1. /\ proc.pc = "unjournal" /\ journal' = None /\ UNCHANGED dest
  BY DEF Unjournal, pair
<1>2. journal # None /\ (Published \/ InPlace)
  BY <1>1 DEF IInv, Knows, CleanKnows, JournalKnows, Guarded, Fresh
<1>3. Committed => Published
  BY DEF IInv, CommittedOnDisk, Published
<1>4. dest = [f \in Files |-> dest[f]] /\ journal.old = [f \in Files |-> journal.old[f]]
  BY <1>2, Basic, Typed DEF TypeOK
<1>5. /\ Published => dest = NewPair
      /\ InPlace => dest = journal.old
  BY <1>4 DEF Published, InPlace, NewPair
<1>6. Committed' = FALSE
  BY <1>1, CommittedIs
<1>7. PairInstall!Conclude
  BY <1>1, <1>2, <1>3, <1>5, <1>6, CommittedIs DEF PairInstall!Conclude, NewPair
<1>. QED BY <1>7 DEF PairStep, PairInstall!InstallNext

LEMMA StepInstalls ==
  ASSUME IInv, IInv', [Next]_vars
  PROVE  PairStep
<1>1. CASE UNCHANGED vars
  BY <1>1 DEF PairStep, PairInstall!installVars, vars, pair, Committed, TxnCommitted, NewFile
<1>2. CASE WriteJournal
  BY <1>2, WriteJournalReplaces
<1>3. CASE Unjournal
  BY <1>3, UnjournalConcludes
<1>4. CASE NoteStep
  BY <1>4, NoteKeepsJournal, CommitsOrStays
<1>5. CASE Next /\ ~WriteJournal /\ ~NoteStep /\ ~Unjournal
  <2>1. UNCHANGED journal /\ (Committed => Committed')
    BY <1>5, JournalKept
  <2>2. CASE journal = None
    <3>1. UNCHANGED dest /\ Committed = FALSE /\ Committed' = FALSE
      BY <1>5, <2>1, <2>2, PairUnchanged, CommittedIs
    <3>. QED BY <2>1, <2>2, <3>1 DEF PairStep, PairInstall!installVars
  <2>3. CASE journal # None
    BY <2>1, <2>3, CommitsOrStays DEF NewFile
  <2>. QED BY <2>2, <2>3
<1>. QED BY <1>1, <1>2, <1>3, <1>4, <1>5

(* Whatever crashes, losses of power and failed steps interrupt it, an      *)
(* installation ends with the pair it started from or with the new one, and *)
(* with the new one once the state file has committed it                    *)
(* (commit_journaled_with and recover_runtime_install_transaction_at).      *)
THEOREM ImplementsInstall == Spec => PairInstalled
<1>1. Init => PairInstall!InstallInit
  <2>. SUFFICES ASSUME Init PROVE PairInstall!InstallInit
    OBVIOUS
  <2>1. journal = None /\ Committed = FALSE
    BY CommittedIs DEF Init
  <2>2. dest \in Pairs
    <3>1. [f \in Files |-> OldRelease] = [helper |-> OldRelease, runtime |-> OldRelease]
      BY DEF Files
    <3>. QED BY <3>1, Constants DEF Init, Pairs
  <2>. QED BY <2>1, <2>2, CommittedIs DEF PairInstall!InstallInit, Pairs
<1>2. IInv /\ IInv' /\ [Next]_vars => [PairInstall!InstallNext]_(PairInstall!installVars)
  BY StepInstalls DEF PairStep
<1>. QED BY <1>1, <1>2, Invariance, PTL DEF Spec, PairInstalled, PairInstall!InstallSpec

-----------------------------------------------------------------------------
(* The updater of the Mac, MacRuntime, works on the same kind of state     *)
(* file, and what was shown above of its operators serves for both.  From  *)
(* here on the variables of UpdateCommand are those of the Mac.            *)

MacPcs == Steps \cup {"idle"}
MacStates == StateOf(Versions, MaxTxn)
MacFiles == [1..4 -> Maybe(MacFile)]
MacSessions == [Sessions -> [pc: {"none", "control", "opened", "up"}, gen: Maybe(1..MaxGens)]]

MacTypes ==
  /\ state \in MacStates /\ generation \in Maybe(1..MaxGens)
  /\ made \in Seq(Versions) /\ Len(made) <= MaxGens /\ gens \subseteq 1..Len(made)
  /\ dest \in MacFiles /\ staged \in MacFiles /\ backup \in MacFiles
  /\ journal \in Maybe(MacJournal) /\ session \in MacSessions
  /\ proc \in MacProc /\ txns \in 0..MaxTxn /\ faults \in 0..MaxFaults

(* What a command still has to do, and what it has when it comes to it.    *)
MacPlans == IF proc.want = None THEN {"install", "check"} ELSE {"stage", "build", "install", "check"}
MacCommitting == {"commit", "clean", "note", "finalize"}
MacJournaled == {"backup", "installing", "publish", "verify", "recover", "rollback", "rolledBack",
                 "unjournal"} \cup MacCommitting
MacFlow ==
  /\ \A i \in DOMAIN proc.rest : proc.rest[i] \in MacPlans
  /\ proc.pc \in {"begin", "stage", "build", "save"} => proc.want # None
  /\ proc.pc = "save" => made # << >>
  /\ proc.pc \in {"ready", "journal"} => journal = None
  /\ proc.pc = "journal" => generation \in gens
  /\ proc.pc \in MacJournaled => journal # None

(* The launchers, and what the steps under a journal have done to them.    *)
MacWhole ==
  /\ journal # None => \A l \in 1..4 : journal.old[l] = journal.old[1]
  /\ journal = None => \A l \in 1..4 : dest[l] = dest[1]
MacOld(l) == dest[l] = journal.old[l]
MacDisk ==
  /\ proc.pc \in {"backup", "installing"} => \A l \in 1..4 : staged[l] = New
  /\ proc.pc = "installing" => proc.at = 1
  /\ proc.pc = "publish" =>
       \A l \in 1..4 : IF l < proc.at THEN dest[l] = New ELSE staged[l] = New
  /\ proc.pc \in MacCommitting => \A l \in 1..4 : dest[l] = New
  /\ proc.pc = "rollback" => \A l \in 1..4 : l > proc.at => MacOld(l)
  /\ proc.pc = "rolledBack" => \A l \in 1..4 : MacOld(l)
  /\ proc.pc = "unjournal" => (\A l \in 1..4 : dest[l] = New) \/ \A l \in 1..4 : MacOld(l)

(* Retention leases no generation that a session runs.                     *)
MacLeases ==
  \A s \in Sessions : session[s].pc = "up" =>
    session[s].gen \in gens /\ session[s].gen \notin proc.leased

MacIInv == MacTypes /\ MacFlow /\ MacWhole /\ MacDisk /\ MacLeases

LEMMA MacAssumptions == MaxGens \in Nat \ {0} /\ None \notin MacJournal
BY MacBounds, MacNone

LEMMA MacConstants ==
  /\ Launchers = 1..4 /\ Managed = 1 /\ Last = 4 /\ Gens = 1..MaxGens
  /\ MaxTxn \in Nat /\ MaxFaults \in Nat /\ None \notin Versions
<1>1. Launchers = 1..4 /\ Managed = 1 /\ Gens = 1..MaxGens
  BY DEF Launchers, Managed, Gens
<1>2. Last = 4
  BY <1>1 DEF Last, F!Max
<1>3. None \notin Versions
  BY VersionsAssumption
<1>. QED BY <1>1, <1>2, <1>3, BoundsAssumption

LEMMA MacTypesAre ==
  /\ MacFile = [txn: 0..MaxTxn, gen: 1..MaxGens]
  /\ MacJournal = [txn: 1..MaxTxn, gen: 1..MaxGens, version: Versions, previous: Maybe(Versions),
                    clean: BOOLEAN, old: MacFiles]
  /\ MacProc = [pc: MacPcs, rest: Seq(Steps), mem: MacStates, want: Maybe(Versions),
                 before: Statuses, prepare: BOOLEAN,
                 mode: {"activating", "replaying", "undoing"}, at: 1..4,
                 kept: SUBSET (1..MaxGens), leased: SUBSET (1..MaxGens)]
BY MacConstants DEF MacFile, MacJournal, MacProc, MacPcs, MacStates, MacFiles

LEMMA MacStepsAre ==
  /\ MacPcs = Steps \cup {"idle"}
  /\ MacPlans \subseteq Steps /\ MacJournaled \subseteq MacPcs /\ "idle" \in MacPcs
  /\ {"begin", "stage", "build", "save", "install", "ready", "journal", "retain", "lease", "delete",
      "check", "fetch", "reset"} \subseteq MacPcs
BY DEF MacPcs, MacPlans, MacJournaled, MacCommitting, Steps

(* What the operators of the state file return is a state.                 *)
LEMMA MacStateTypes ==
  ASSUME NEW s \in MacStates
  PROVE  /\ Restore(s) \in MacStates /\ Loaded(s) \in MacStates
         /\ Interrupted(s) \in MacStates /\ Concluded(s) \in MacStates
         /\ Unanswered(s) \in MacStates
         /\ \A v \in Versions : \A id : MarkTransaction(s, v, id) \in MacStates
         /\ \A v \in Versions, txn \in Maybe(1..MaxTxn) :
              RecordFailure(s, "Installation", v, txn) \in MacStates
         /\ \A v \in Versions, before \in Statuses, observed \in Maybe(Versions) : \A valid, waiting :
              Answered(s, v, before, observed, valid, waiting) \in MacStates
<1>. Versions \subseteq Maybe(Versions) /\ "Installation" \in Kinds
  BY DEF Maybe, Kinds
<1>1. /\ Restore(s) \in MacStates /\ Loaded(s) \in MacStates
      /\ Interrupted(s) \in MacStates /\ Concluded(s) \in MacStates
      /\ Unanswered(s) \in MacStates
  BY RestoreType, LoadedType, InterruptedType, ConcludedType, UnansweredType DEF MacStates
<1>2. \A v \in Versions : \A id : MarkTransaction(s, v, id) \in MacStates
  BY MarkTransactionType DEF MacStates
<1>3. \A v \in Versions, txn \in Maybe(1..MaxTxn) :
        RecordFailure(s, "Installation", v, txn) \in MacStates
  BY RecordFailureType DEF MacStates
<1>4. \A v \in Versions, before \in Statuses, observed \in Maybe(Versions) : \A valid, waiting :
        Answered(s, v, before, observed, valid, waiting) \in MacStates
  BY AnsweredType DEF MacStates
<1>. QED BY <1>1, <1>2, <1>3, <1>4

LEMMA MacRestingIs ==
  /\ MacResting \in MacProc /\ MacResting.pc = "idle" /\ MacResting.rest = << >>
  /\ MacResting.want = None /\ MacResting.leased = {}
<1>1. Initially \in MacStates
  BY DEF Initially, MacStates, StateOf, Statuses, Maybe
<1>2. "idle" \in MacPcs /\ << >> \in Seq(Steps) /\ None \in Maybe(Versions) /\ "Idle" \in Statuses
  BY MacStepsAre DEF Maybe, Statuses
<1>. QED BY <1>1, <1>2, MacTypesAre DEF MacResting

(* The fields of a command.                                                *)
LEMMA MacProcFields ==
  ASSUME NEW q \in MacProc
  PROVE  /\ q.pc \in MacPcs /\ q.rest \in Seq(Steps) /\ q.mem \in MacStates
         /\ q.want \in Maybe(Versions) /\ q.before \in Statuses /\ q.prepare \in BOOLEAN
         /\ q.mode \in {"activating", "replaying", "undoing"} /\ q.at \in 1..4
         /\ q.kept \in SUBSET (1..MaxGens) /\ q.leased \in SUBSET (1..MaxGens)
BY MacTypesAre

(* What an invariant state gives its readers.                              *)
LEMMA MacTyped ==
  ASSUME MacIInv
  PROVE  /\ state \in MacStates /\ proc \in MacProc /\ proc.mem \in MacStates
         /\ Load \in MacStates /\ Load.status \in Statuses
         /\ proc.mem.installed \in Maybe(Versions)
         /\ MacProbed \in Maybe(Versions)
         /\ gens \subseteq 1..MaxGens /\ 1..Len(made) \subseteq 1..MaxGens /\ Len(made) \in Nat
         /\ \A g \in gens : made[g] \in Versions
         /\ journal # None => /\ journal \in MacJournal /\ journal.txn \in 1..MaxTxn
                              /\ journal.gen \in 1..MaxGens /\ journal.version \in Versions
                              /\ journal.previous \in Maybe(Versions)
                              /\ journal.old \in MacFiles /\ New \in MacFile
<1>1. state \in MacStates /\ proc \in MacProc /\ gens \subseteq 1..Len(made) /\ made \in Seq(Versions)
      /\ Len(made) <= MaxGens /\ MaxGens \in Nat
  BY MacAssumptions DEF MacIInv, MacTypes
<1>2. proc.mem \in MacStates
  BY <1>1, MacProcFields
<1>3. Load \in MacStates
  BY <1>1, MacStateTypes DEF Load
<1>4. Load.status \in Statuses /\ proc.mem.installed \in Maybe(Versions)
  BY <1>2, <1>3, StateFields DEF MacStates
<1>5. Len(made) \in Nat /\ \A g \in 1..Len(made) : made[g] \in Versions
  BY <1>1
<1>6. 1..Len(made) \subseteq 1..MaxGens
  BY <1>1, <1>5
<1>7. MacProbed \in Maybe(Versions)
  BY <1>1, <1>5 DEF MacProbed, Maybe
<1>8. ASSUME journal # None
      PROVE  /\ journal \in MacJournal /\ journal.txn \in 1..MaxTxn
             /\ journal.gen \in 1..MaxGens /\ journal.version \in Versions
             /\ journal.previous \in Maybe(Versions)
             /\ journal.old \in MacFiles /\ New \in MacFile
  <2>1. journal \in MacJournal
    BY <1>8 DEF MacIInv, MacTypes, Maybe
  <2>2. /\ journal.txn \in 1..MaxTxn /\ journal.gen \in 1..MaxGens /\ journal.version \in Versions
        /\ journal.previous \in Maybe(Versions) /\ journal.old \in MacFiles
    BY <2>1, MacTypesAre
  <2>3. journal.txn \in 0..MaxTxn
    BY <2>2, MacConstants
  <2>. QED BY <2>1, <2>2, <2>3, MacTypesAre DEF New
<1>. QED BY <1>1, <1>2, <1>3, <1>4, <1>5, <1>6, <1>7, <1>8

-----------------------------------------------------------------------------
(* What a step keeps.                                                      *)

LEMMA MacKinds ==
  ASSUME NEW pc
  PROVE  pc \notin MacJournaled \/ pc = "recover" =>
           pc \notin {"backup", "installing", "publish", "rollback", "rolledBack", "unjournal"}
                       \cup MacCommitting
BY DEF MacJournaled, MacCommitting

(* Away from the launchers only the frame matters.                         *)
LEMMA MacAway ==
  ASSUME MacIInv, MacTypes', MacFlow', MacWhole', UNCHANGED session, gens \subseteq gens',
         proc'.leased \subseteq proc.leased, proc'.pc \notin MacJournaled \/ proc'.pc = "recover"
  PROVE  MacIInv'
<1>1. MacDisk'
  BY MacKinds DEF MacDisk
<1>2. MacLeases'
  BY DEF MacIInv, MacLeases
<1>. QED BY <1>1, <1>2 DEF MacIInv

(* A command ends.                                                         *)
LEMMA MacEnds ==
  ASSUME MacIInv, MacTypes', MacWhole', UNCHANGED session, gens \subseteq gens', MacEnd
  PROVE  MacIInv'
<1>1. proc' = MacResting
  BY DEF MacEnd
<1>2. MacFlow'
  BY <1>1, MacRestingIs DEF MacFlow, MacJournaled, MacCommitting
<1>. QED BY <1>1, <1>2, MacRestingIs, MacAway DEF MacJournaled, MacCommitting

(* A command goes on with its plan, or ends.                               *)
LEMMA MacProceedType ==
  ASSUME MacIInv, Proceed
  PROVE  /\ proc' \in MacProc /\ proc'.leased = {}
         /\ proc'.pc \in {"idle", "stage", "build", "install", "check"}
         /\ proc'.pc \in {"stage", "build"} => proc'.want # None
         /\ proc'.rest # << >> => proc.rest # << >> /\ proc'.rest = Tail(proc.rest)
         /\ proc'.rest # << >> => proc'.want = proc.want
<1>1. CASE proc.rest = << >>
  BY <1>1, MacRestingIs DEF Proceed
<1>2. CASE proc.rest # << >>
  <2>1. proc \in MacProc /\ proc.rest \in Seq(Steps) /\ 1 \in DOMAIN proc.rest
    BY <1>2, MacTyped, MacProcFields
  <2>2. Head(proc.rest) \in MacPlans /\ Head(proc.rest) \in MacPcs /\ Tail(proc.rest) \in Seq(Steps)
    BY <1>2, <2>1, MacStepsAre DEF MacIInv, MacFlow
  <2>3. proc' = [proc EXCEPT !.pc = Head(proc.rest), !.rest = Tail(proc.rest),
                             !.mode = "activating", !.leased = {}, !.kept = {}]
    BY <1>2 DEF Proceed
  <2>4. /\ proc' \in MacProc /\ proc'.pc = Head(proc.rest) /\ proc'.rest = Tail(proc.rest)
        /\ proc'.want = proc.want /\ proc'.leased = {}
    BY <2>1, <2>2, <2>3, MacTypesAre
  <2>. QED BY <1>2, <2>2, <2>4 DEF MacPlans
<1>. QED BY <1>1, <1>2

LEMMA MacProceeds ==
  ASSUME MacIInv, MacTypes', MacWhole', UNCHANGED session, gens \subseteq gens', Proceed
  PROVE  MacIInv'
<1>1. \A i \in DOMAIN proc'.rest : proc'.rest[i] \in MacPlans'
  <2>1. CASE proc'.rest = << >>
    BY <2>1
  <2>2. CASE proc'.rest # << >>
    <3>1. proc.rest # << >> /\ proc'.rest = Tail(proc.rest) /\ MacPlans' = MacPlans
      BY <2>2, MacProceedType DEF MacPlans
    <3>2. proc.rest \in Seq(Steps)
      BY MacTyped, MacProcFields
    <3>3. \A i \in DOMAIN Tail(proc.rest) : i + 1 \in DOMAIN proc.rest
                                            /\ Tail(proc.rest)[i] = proc.rest[i + 1]
      BY <3>1, <3>2
    <3>. QED BY <3>1, <3>3 DEF MacIInv, MacFlow
  <2>. QED BY <2>1, <2>2
<1>2. MacFlow'
  BY <1>1, MacProceedType DEF MacFlow, MacJournaled, MacCommitting
<1>. QED BY <1>2, MacProceedType, MacAway DEF MacJournaled, MacCommitting

(* Any other step of a command keeps its plan.                             *)
LEMMA MacPlanKept ==
  ASSUME MacIInv, proc'.rest = proc.rest, proc'.want = proc.want
  PROVE  \A i \in DOMAIN proc'.rest : proc'.rest[i] \in MacPlans'
BY DEF MacIInv, MacFlow, MacPlans

LEMMA MacWholeKept ==
  ASSUME MacIInv, UNCHANGED <<dest, journal>>
  PROVE  MacWhole'
BY DEF MacIInv, MacWhole

(* A command moves on, maybe with another copy or at another launcher.     *)
LEMMA MacMoves ==
  ASSUME MacIInv, NEW x \in MacPcs, proc' = [proc EXCEPT !.pc = x]
  PROVE  /\ proc' \in MacProc /\ proc'.pc = x /\ proc'.rest = proc.rest
         /\ proc'.want = proc.want /\ proc'.leased = proc.leased
BY MacTyped, MacTypesAre

LEMMA MacMovesWith ==
  ASSUME MacIInv, NEW x \in MacPcs, NEW m \in MacStates, proc' = [proc EXCEPT !.pc = x, !.mem = m]
  PROVE  /\ proc' \in MacProc /\ proc'.pc = x /\ proc'.rest = proc.rest
         /\ proc'.want = proc.want /\ proc'.leased = proc.leased
BY MacTyped, MacTypesAre

LEMMA MacMovesAt ==
  ASSUME MacIInv, NEW x \in MacPcs, NEW k \in 1..4, proc' = [proc EXCEPT !.pc = x, !.at = k]
  PROVE  /\ proc' \in MacProc /\ proc'.pc = x /\ proc'.rest = proc.rest /\ proc'.at = k
         /\ proc'.want = proc.want /\ proc'.leased = proc.leased
BY MacTyped, MacTypesAre

(* Types, when only some of the variables change.                          *)
LEMMA MacTypesKept ==
  ASSUME MacIInv, proc' \in MacProc, state' \in MacStates, faults' \in 0..MaxFaults,
         UNCHANGED <<generation, made, gens, dest, staged, backup, journal, session, txns>>
  PROVE  MacTypes'
BY DEF MacIInv, MacTypes, MacProc

LEMMA MacFaultType ==
  ASSUME MacIInv
  PROVE  /\ faults \in 0..MaxFaults
         /\ Fault => faults' \in 0..MaxFaults
         /\ \A v \in Maybe(Versions) : MacObserved(v) => faults' \in 0..MaxFaults
BY MacConstants DEF MacIInv, MacTypes, Fault, MacObserved

-----------------------------------------------------------------------------
(* The commands up to the installation.                                    *)

LEMMA MacStartPreserves == MacIInv /\ MacStart => MacIInv'
<1>. SUFFICES ASSUME MacIInv, MacStart PROVE MacIInv'
  OBVIOUS
<1>0. UNCHANGED <<state, generation, made, gens, dest, staged, backup, journal, session, txns, faults>>
  BY DEF MacStart, stateVars, tree, launchers
<1>1. /\ proc' \in MacProc /\ proc'.leased = {}
      /\ proc'.pc \in {"begin", "stage", "install", "check", "retain"}
      /\ proc'.pc \in {"begin", "stage"} => proc'.want # None
      /\ proc'.rest = << >> \/ (proc'.rest = <<"check">> /\ proc'.want = None)
  <2>. DEFINE r == MacResting
  <2>0. r \in MacProc /\ r.rest = << >> /\ r.want = None /\ r.leased = {}
    BY MacRestingIs
  <2>1. \/ \E v \in Versions, x \in {"begin", "stage"} : proc' = [r EXCEPT !.pc = x, !.want = v]
        \/ \E x \in {"install", "check"} : proc' = [r EXCEPT !.pc = x]
        \/ proc' = [r EXCEPT !.pc = "retain", !.mem = Load, !.rest = <<"check">>, !.prepare = TRUE]
    BY DEF MacStart
  <2>. HIDE DEF r
  <2>2. CASE \E v \in Versions, x \in {"begin", "stage"} : proc' = [r EXCEPT !.pc = x, !.want = v]
    <3>1. PICK v \in Versions, x \in {"begin", "stage"} : proc' = [r EXCEPT !.pc = x, !.want = v]
      BY <2>2
    <3>2. x \in MacPcs /\ v \in Maybe(Versions) /\ v # None
      BY MacStepsAre, MacConstants DEF Maybe
    <3>. QED BY <2>0, <3>1, <3>2, MacTypesAre
  <2>3. CASE \E x \in {"install", "check"} : proc' = [r EXCEPT !.pc = x]
    <3>1. PICK x \in {"install", "check"} : proc' = [r EXCEPT !.pc = x]
      BY <2>3
    <3>2. x \in MacPcs
      BY MacStepsAre
    <3>. QED BY <2>0, <3>1, <3>2, MacTypesAre
  <2>4. CASE proc' = [r EXCEPT !.pc = "retain", !.mem = Load, !.rest = <<"check">>, !.prepare = TRUE]
    <3>1. <<"check">> \in Seq(Steps) /\ Load \in MacStates /\ "retain" \in MacPcs
      BY MacTyped, MacStepsAre DEF Steps
    <3>. QED BY <2>0, <2>4, <3>1, MacTypesAre
  <2>. QED BY <2>1, <2>2, <2>3, <2>4
<1>2. MacTypes' /\ MacWhole'
  BY <1>0, <1>1, MacTyped, MacFaultType, MacTypesKept, MacWholeKept
<1>3. MacFlow'
  <2>1. \A i \in DOMAIN proc'.rest : proc'.rest[i] \in MacPlans'
    BY <1>1 DEF MacPlans
  <2>. QED BY <1>1, <2>1 DEF MacFlow, MacJournaled, MacCommitting
<1>. QED BY <1>0, <1>1, <1>2, <1>3, MacAway DEF MacJournaled, MacCommitting

LEMMA MacActivatePreserves == MacIInv /\ Activate => MacIInv'
<1>. SUFFICES ASSUME MacIInv, Activate PROVE MacIInv'
  OBVIOUS
<1>0. /\ proc.pc = "begin"
      /\ UNCHANGED <<state, generation, made, gens, dest, staged, backup, journal, session, txns, faults>>
  BY DEF Activate, stateVars, tree, launchers
<1>1. /\ proc' \in MacProc /\ proc'.leased = proc.leased /\ proc'.want = proc.want
      /\ proc'.pc \in {"install", "stage"} /\ proc'.rest \in {<<"stage", "install">>, <<"install">>}
  <2>1. PICK x \in {"install", "stage"}, r \in {<<"stage", "install">>, <<"install">>} :
          proc' = [proc EXCEPT !.pc = x, !.rest = r]
    BY DEF Activate
  <2>2. <<"stage", "install">> \in Seq(Steps) /\ <<"install">> \in Seq(Steps)
    BY DEF Steps
  <2>3. r \in Seq(Steps) /\ x \in MacPcs /\ proc \in MacProc
    BY <2>2, MacTyped, MacStepsAre
  <2>. QED BY <2>1, <2>3, MacTypesAre
<1>2. proc.want # None
  BY <1>0 DEF MacIInv, MacFlow
<1>3. MacTypes' /\ MacWhole'
  BY <1>0, <1>1, MacTyped, MacFaultType, MacTypesKept, MacWholeKept
<1>4. MacFlow'
  <2>1. MacPlans' = {"stage", "build", "install", "check"}
    BY <1>1, <1>2 DEF MacPlans
  <2>2. \A i \in DOMAIN proc'.rest : proc'.rest[i] \in MacPlans'
    BY <1>1, <2>1
  <2>. QED BY <1>1, <1>2, <2>2 DEF MacFlow, MacJournaled, MacCommitting
<1>. QED BY <1>0, <1>1, <1>3, <1>4, MacAway DEF MacJournaled, MacCommitting

(* A save that ends the command.                                           *)
LEMMA MacSavesAndEnds ==
  ASSUME MacIInv, state' \in MacStates, MacEnd, faults' \in 0..MaxFaults,
         UNCHANGED <<generation, made, gens, dest, staged, backup, journal, session, txns>>
  PROVE  MacIInv'
BY MacRestingIs, MacTypesKept, MacWholeKept, MacEnds DEF MacEnd

LEMMA MacStagePreserves == MacIInv /\ MacStage => MacIInv'
<1>. SUFFICES ASSUME MacIInv, MacStage PROVE MacIInv'
  OBVIOUS
<1>. DEFINE s == Load
            clear == IF ObservationOnly(s) THEN [s EXCEPT !.failure = None] ELSE s
<1>0. /\ proc.pc = "stage" /\ proc.want # None /\ faults' \in 0..MaxFaults
      /\ UNCHANGED <<generation, made, gens, dest, staged, backup, journal, session, txns>>
  BY MacFaultType DEF MacStage, tree, launchers, MacIInv, MacFlow
<1>1. \/ MacEnd /\ UNCHANGED state
      \/ MacEnd /\ state' = Interrupted(s)
      \/ /\ proc' = [proc EXCEPT !.pc = "retain", !.mem = clear, !.rest = <<"build">> \o proc.rest]
         /\ UNCHANGED state
  BY DEF MacStage, MacSaveAndEnd
<1>2. s \in MacStates /\ Interrupted(s) \in MacStates /\ state \in MacStates
  BY MacTyped, MacStateTypes
<1>3. clear \in MacStates
  BY <1>2, StateEdits DEF Maybe, MacStates
<1>. HIDE DEF s, clear
<1>4. CASE MacEnd /\ (UNCHANGED state \/ state' = Interrupted(s))
  BY <1>0, <1>2, <1>4, MacSavesAndEnds
<1>5. CASE /\ proc' = [proc EXCEPT !.pc = "retain", !.mem = clear, !.rest = <<"build">> \o proc.rest]
           /\ UNCHANGED state
  <2>1. proc \in MacProc /\ proc.rest \in Seq(Steps)
    BY MacTyped, MacProcFields
  <2>2. "build" \in Steps /\ "retain" \in MacPcs
    BY MacStepsAre DEF Steps
  <2>3. /\ <<"build">> \o proc.rest \in Seq(Steps)
        /\ \A i \in DOMAIN (<<"build">> \o proc.rest) :
             (<<"build">> \o proc.rest)[i] = "build"
             \/ (i - 1 \in DOMAIN proc.rest /\ (<<"build">> \o proc.rest)[i] = proc.rest[i - 1])
    BY <2>1, <2>2
  <2>4. /\ proc' \in MacProc /\ proc'.pc = "retain" /\ proc'.rest = <<"build">> \o proc.rest
        /\ proc'.want = proc.want /\ proc'.leased = proc.leased
    BY <1>3, <1>5, <2>1, <2>2, <2>3, MacTypesAre
  <2>5. \A i \in DOMAIN proc'.rest : proc'.rest[i] \in MacPlans'
    <3>1. MacPlans' = MacPlans /\ "build" \in MacPlans
      BY <1>0, <2>4 DEF MacPlans
    <3>. QED BY <2>3, <2>4, <3>1 DEF MacIInv, MacFlow
  <2>6. MacFlow'
    BY <2>4, <2>5 DEF MacFlow, MacJournaled, MacCommitting
  <2>7. MacTypes' /\ MacWhole'
    BY <1>0, <1>2, <1>5, <2>4, MacTypesKept, MacWholeKept
  <2>. QED BY <1>0, <2>4, <2>6, <2>7, MacAway DEF MacJournaled, MacCommitting
<1>. QED BY <1>1, <1>4, <1>5

LEMMA MacBuildPreserves == MacIInv /\ MacBuild => MacIInv'
<1>. SUFFICES ASSUME MacIInv, MacBuild PROVE MacIInv'
  OBVIOUS
<1>0. /\ proc.pc = "build" /\ proc.want # None
      /\ UNCHANGED <<generation, dest, staged, backup, journal, session, txns>>
  BY DEF MacBuild, launchers, MacIInv, MacFlow
<1>t. /\ state \in MacStates /\ proc \in MacProc /\ proc.mem \in MacStates /\ MaxGens \in Nat
      /\ faults \in 0..MaxFaults
  BY MacTyped, MacFaultType, MacAssumptions DEF MacIInv
<1>1. CASE /\ \E observed \in Maybe(Versions) :
                /\ MacObserved(observed)
                /\ state' = [proc.mem EXCEPT !.status = "ReadyToInstall", !.installed = observed]
           /\ Proceed /\ UNCHANGED <<made, gens>>
  <2>1. PICK observed \in Maybe(Versions) :
          /\ MacObserved(observed)
          /\ state' = [proc.mem EXCEPT !.status = "ReadyToInstall", !.installed = observed]
    BY <1>1
  <2>2. state' \in MacStates /\ faults' \in 0..MaxFaults
    <3>1. [proc.mem EXCEPT !.status = "ReadyToInstall"] \in MacStates
      BY <1>t, StateEdits DEF MacStates, Statuses
    <3>2. state' \in MacStates
      BY <2>1, <3>1, StateEdits DEF MacStates
    <3>. QED BY <2>1, <3>2, MacFaultType
  <2>3. MacTypes' /\ MacWhole'
    BY <1>0, <1>1, <2>2, MacProceedType, MacTypesKept, MacWholeKept
  <2>. QED BY <1>0, <1>1, <2>3, MacProceeds
<1>2. CASE Make(proc.want) /\ Goto("save") /\ UNCHANGED <<state, faults>>
  <2>1. /\ proc' = [proc EXCEPT !.pc = "save"] /\ Len(made) < MaxGens
        /\ made' = Append(made, proc.want) /\ gens' = gens \cup {Len(made')}
    BY <1>2 DEF Make, Goto
  <2>2. /\ proc' \in MacProc /\ proc'.pc = "save" /\ proc'.rest = proc.rest
        /\ proc'.want = proc.want /\ proc'.leased = proc.leased
    <3>1. proc' = [proc EXCEPT !.pc = "save"] /\ "save" \in MacPcs
      BY <2>1, MacStepsAre
    <3>. QED BY <1>t, <3>1, MacMoves
  <2>3. proc.want \in Versions
    BY <1>0, <1>t, MacProcFields DEF Maybe
  <2>4. /\ made' \in Seq(Versions) /\ Len(made') <= MaxGens /\ gens' \subseteq 1..Len(made')
        /\ made' # << >>
    BY <1>t, <2>1, <2>3 DEF MacIInv, MacTypes
  <2>5. MacTypes'
    BY <1>0, <1>2, <1>t, <2>2, <2>4 DEF MacIInv, MacTypes, MacProc
  <2>6. MacFlow'
    BY <1>0, <2>2, <2>4, MacPlanKept DEF MacFlow, MacJournaled, MacCommitting
  <2>7. MacWhole' /\ gens \subseteq gens'
    BY <1>0, <2>1, MacWholeKept
  <2>. QED BY <1>0, <2>2, <2>5, <2>6, <2>7, MacAway DEF MacJournaled, MacCommitting
<1>. QED BY <1>1, <1>2 DEF MacBuild, tree, Maybe

LEMMA MacSaveStagedPreserves == MacIInv /\ SaveStaged => MacIInv'
<1>. SUFFICES ASSUME MacIInv, SaveStaged PROVE MacIInv'
  OBVIOUS
<1>0. /\ proc.pc = "save" /\ proc.want # None /\ made # << >> /\ generation' = Len(made)
      /\ UNCHANGED <<made, gens, dest, staged, backup, journal, session, txns>>
  BY DEF SaveStaged, tree, launchers, MacIInv, MacFlow
<1>t. proc \in MacProc /\ proc.mem \in MacStates
  BY MacTyped
<1>1. PICK observed \in Maybe(Versions) :
        /\ MacObserved(observed)
        /\ Save([proc.mem EXCEPT !.status = "ReadyToInstall", !.installed = observed,
                                     !.prepared = proc.want, !.failedPrepare = None,
                                     !.failedInstall = None], "retain")
  BY DEF SaveStaged
<1>. DEFINE m == [proc.mem EXCEPT !.status = "ReadyToInstall", !.installed = observed,
                                  !.prepared = proc.want, !.failedPrepare = None,
                                  !.failedInstall = None]
<1>2. m \in MacStates
  <2>1. proc.want \in Maybe(Versions) /\ None \in Maybe(Versions) /\ "ReadyToInstall" \in Statuses
    BY <1>t, MacProcFields DEF Maybe, Statuses
  <2>. QED BY <1>t, <2>1 DEF MacStates, StateOf
<1>3. state' = m /\ proc' = [proc EXCEPT !.pc = "retain", !.mem = m]
  BY <1>1 DEF Save, With
<1>. HIDE DEF m
<1>4. /\ proc' \in MacProc /\ proc'.pc = "retain" /\ proc'.rest = proc.rest
      /\ proc'.want = proc.want /\ proc'.leased = proc.leased
  BY <1>t, <1>2, <1>3, MacStepsAre, MacTypesAre
<1>5. faults' \in 0..MaxFaults
  BY <1>1, MacFaultType
<1>6. generation' \in Maybe(1..MaxGens)
  BY <1>0, MacTyped DEF MacIInv, MacTypes, Maybe
<1>7. MacTypes'
  BY <1>0, <1>2, <1>3, <1>4, <1>5, <1>6 DEF MacIInv, MacTypes, MacProc
<1>8. MacFlow' /\ MacWhole'
  BY <1>0, <1>4, MacPlanKept, MacWholeKept DEF MacFlow, MacJournaled, MacCommitting
<1>. QED BY <1>0, <1>4, <1>7, <1>8, MacAway DEF MacJournaled, MacCommitting

-----------------------------------------------------------------------------
(* Retention.                                                              *)

LEMMA MacInventoryPreserves == MacIInv /\ Inventory => MacIInv'
<1>. SUFFICES ASSUME MacIInv, Inventory PROVE MacIInv'
  OBVIOUS
<1>0. UNCHANGED <<state, generation, made, gens, dest, staged, backup, journal, session, txns, faults>>
  BY DEF Inventory, stateVars, tree, launchers
<1>1. PICK k \in SUBSET gens : proc' = [proc EXCEPT !.pc = "lease", !.kept = k]
  BY DEF Inventory
<1>2. /\ proc' \in MacProc /\ proc'.pc = "lease" /\ proc'.rest = proc.rest
      /\ proc'.want = proc.want /\ proc'.leased = proc.leased
  <2>1. k \in SUBSET (1..MaxGens) /\ proc \in MacProc /\ "lease" \in MacPcs
    BY MacTyped, MacStepsAre
  <2>. QED BY <1>1, <2>1, MacTypesAre
<1>3. MacTypes' /\ MacWhole'
  BY <1>0, <1>2, MacTyped, MacFaultType, MacTypesKept, MacWholeKept
<1>4. MacFlow'
  BY <1>2, MacPlanKept DEF MacFlow, MacJournaled, MacCommitting
<1>. QED BY <1>0, <1>2, <1>3, <1>4, MacAway DEF MacJournaled, MacCommitting

(* No generation that a session runs is leased.                            *)
LEMMA MacLeasePreserves == MacIInv /\ Lease => MacIInv'
<1>. SUFFICES ASSUME MacIInv, Lease PROVE MacIInv'
  OBVIOUS
<1>0. /\ proc' = [proc EXCEPT !.pc = "delete", !.leased = Leasable]
      /\ UNCHANGED <<state, generation, made, gens, dest, staged, backup, journal, session, txns, faults>>
  BY DEF Lease, stateVars, tree, launchers
<1>1. Leasable \in SUBSET (1..MaxGens) /\ Leasable \cap Live = {}
  BY MacTyped DEF Leasable
<1>2. /\ proc' \in MacProc /\ proc'.pc = "delete" /\ proc'.rest = proc.rest
      /\ proc'.want = proc.want /\ proc'.leased = Leasable
  BY <1>0, <1>1, MacTyped, MacStepsAre, MacTypesAre
<1>3. MacTypes' /\ MacWhole'
  BY <1>0, <1>2, MacTyped, MacFaultType, MacTypesKept, MacWholeKept
<1>4. MacFlow'
  BY <1>2, MacPlanKept DEF MacFlow, MacJournaled, MacCommitting
<1>5. MacDisk'
  BY <1>2, MacKinds DEF MacDisk, MacJournaled, MacCommitting
<1>6. MacLeases'
  <2>1. \A s \in Sessions : session[s].pc = "up" => session[s].gen \in Live
    BY DEF Live
  <2>. QED BY <1>0, <1>1, <1>2, <2>1 DEF MacIInv, MacLeases
<1>. QED BY <1>3, <1>4, <1>5, <1>6 DEF MacIInv

LEMMA MacOldest ==
  ASSUME NEW S, S \subseteq Nat, S # {}
  PROVE  F!Min(S) \in S
<1>1. PICK x \in S : \A y \in S : <<y, x>> \notin OpToRel(<, Nat)
  BY WFMin, NatLessThanWellFounded, Zenon
<1>2. \A y \in S : ~(y < x)
  BY <1>1, Zenon DEF OpToRel
<1>3. \A y \in S : x <= y
  BY <1>2
<1>. QED BY <1>3 DEF F!Min

LEMMA MacDeletePreserves == MacIInv /\ Delete => MacIInv'
<1>. SUFFICES ASSUME MacIInv, Delete PROVE MacIInv'
  OBVIOUS
<1>. DEFINE doomed == proc.leased \cap gens
<1>0. /\ proc.pc = "delete"
      /\ UNCHANGED <<state, generation, made, dest, staged, backup, journal, session, txns, faults>>
  BY DEF Delete, stateVars, launchers
<1>t. state \in MacStates /\ proc \in MacProc /\ faults \in 0..MaxFaults
  BY MacTyped, MacFaultType
<1>1. \/ doomed # {} /\ gens' = gens \ {F!Min(doomed)} /\ UNCHANGED proc
      \/ Proceed /\ UNCHANGED gens
      \/ MacEnd /\ UNCHANGED gens
  BY DEF Delete
<1>2. CASE doomed # {} /\ gens' = gens \ {F!Min(doomed)} /\ UNCHANGED proc
  <2>1. F!Min(doomed) \in proc.leased
    <3>1. doomed \subseteq Nat
      BY MacTyped
    <3>. QED BY <1>2, <3>1, MacOldest
  <2>2. MacTypes' /\ MacWhole'
    BY <1>0, <1>2, MacWholeKept DEF MacIInv, MacTypes, MacProc
  <2>3. MacFlow' /\ MacDisk'
    BY <1>0, <1>2, MacKinds
    DEF MacIInv, MacFlow, MacDisk, MacPlans, MacJournaled, MacCommitting
  <2>4. MacLeases'
    BY <1>0, <1>2, <2>1 DEF MacIInv, MacLeases
  <2>. QED BY <2>2, <2>3, <2>4 DEF MacIInv
<1>3. CASE Proceed /\ UNCHANGED gens
  <2>1. MacTypes' /\ MacWhole'
    BY <1>0, <1>t, <1>3, MacProceedType, MacTypesKept, MacWholeKept
  <2>. QED BY <1>0, <1>3, <2>1, MacProceeds
<1>4. CASE MacEnd /\ UNCHANGED gens
  BY <1>0, <1>t, <1>4, MacSavesAndEnds
<1>. QED BY <1>1, <1>2, <1>3, <1>4

-----------------------------------------------------------------------------
(* The installation of the prepared generation.                            *)

(* A step to one under the journal.                                        *)
LEMMA MacUnderJournal ==
  ASSUME MacIInv, MacTypes', MacWhole', MacDisk', UNCHANGED <<session, gens>>,
         proc'.rest = proc.rest, proc'.want = proc.want, proc'.leased = proc.leased,
         proc'.pc \in MacJournaled, journal' # None
  PROVE  MacIInv'
<1>1. MacFlow'
  BY MacPlanKept DEF MacFlow, MacJournaled, MacCommitting
<1>2. MacLeases'
  BY DEF MacIInv, MacLeases
<1>. QED BY <1>1, <1>2 DEF MacIInv

LEMMA MacInstallPreserves == MacIInv /\ MacInstall => MacIInv'
<1>. SUFFICES ASSUME MacIInv, MacInstall PROVE MacIInv'
  OBVIOUS
<1>. DEFINE x == IF journal = None THEN "ready" ELSE "recover"
<1>0. /\ proc' = [proc EXCEPT !.pc = x, !.mem = Load, !.mode = "replaying"]
      /\ UNCHANGED <<state, generation, made, gens, dest, staged, backup, journal, session, txns, faults>>
  BY DEF MacInstall, stateVars, tree, launchers
<1>1. x \in MacPcs
  BY MacStepsAre DEF MacJournaled
<1>2. x \in {"ready", "recover"} /\ (x = "recover" => journal # None) /\ (x = "ready" => journal = None)
  OBVIOUS
<1>. HIDE DEF x
<1>3. /\ proc' \in MacProc /\ proc'.pc = x /\ proc'.rest = proc.rest
      /\ proc'.want = proc.want /\ proc'.leased = proc.leased
  BY <1>0, <1>1, MacTyped, MacTypesAre
<1>4. MacTypes' /\ MacWhole'
  BY <1>0, <1>3, MacTyped, MacFaultType, MacTypesKept, MacWholeKept
<1>5. MacFlow'
  BY <1>0, <1>2, <1>3, MacPlanKept DEF MacFlow, MacJournaled, MacCommitting
<1>. QED BY <1>0, <1>2, <1>3, <1>4, <1>5, MacAway DEF MacJournaled, MacCommitting

LEMMA MacReadyPreserves == MacIInv /\ Ready => MacIInv'
<1>. SUFFICES ASSUME MacIInv, Ready PROVE MacIInv'
  OBVIOUS
<1>. DEFINE s == Load
<1>0. /\ proc.pc = "ready" /\ journal = None
      /\ UNCHANGED <<generation, made, gens, dest, staged, backup, journal, session, txns, faults>>
  BY DEF Ready, tree, launchers, MacIInv, MacFlow
<1>1. \/ MacEnd /\ UNCHANGED state
      \/ MacEnd /\ state' = Interrupted(s)
      \/ Proceed /\ UNCHANGED state
      \/ /\ proc' = [proc EXCEPT !.pc = "journal", !.mem = s, !.mode = "activating"]
         /\ UNCHANGED state /\ generation \in gens
  BY DEF Ready, MacSaveAndEnd, Installable, Usable
<1>2. /\ s \in MacStates /\ Interrupted(s) \in MacStates /\ state \in MacStates
      /\ faults \in 0..MaxFaults
  BY MacTyped, MacStateTypes, MacFaultType
<1>. HIDE DEF s
<1>3. CASE MacEnd /\ (UNCHANGED state \/ state' = Interrupted(s))
  BY <1>0, <1>2, <1>3, MacSavesAndEnds
<1>4. CASE Proceed /\ UNCHANGED state
  <2>1. MacTypes' /\ MacWhole'
    BY <1>0, <1>2, <1>4, MacProceedType, MacTypesKept, MacWholeKept
  <2>. QED BY <1>0, <1>4, <2>1, MacProceeds
<1>5. CASE /\ proc' = [proc EXCEPT !.pc = "journal", !.mem = s, !.mode = "activating"]
           /\ UNCHANGED state /\ generation \in gens
  <2>1. /\ proc' \in MacProc /\ proc'.pc = "journal" /\ proc'.rest = proc.rest
        /\ proc'.want = proc.want /\ proc'.leased = proc.leased
    BY <1>2, <1>5, MacTyped, MacStepsAre, MacTypesAre
  <2>2. MacTypes' /\ MacWhole'
    BY <1>0, <1>2, <1>5, <2>1, MacTypesKept, MacWholeKept
  <2>3. MacFlow'
    BY <1>0, <1>5, <2>1, MacPlanKept DEF MacFlow, MacJournaled, MacCommitting
  <2>. QED BY <1>0, <2>1, <2>2, <2>3, MacAway DEF MacJournaled, MacCommitting
<1>. QED BY <1>1, <1>3, <1>4, <1>5

(* The journal binds launchers of one activation, all that there are.      *)
LEMMA MacWriteJournalPreserves == MacIInv /\ MacWriteJournal => MacIInv'
<1>. SUFFICES ASSUME MacIInv, MacWriteJournal PROVE MacIInv'
  OBVIOUS
<1>. DEFINE j == [txn |-> txns', gen |-> generation, version |-> made[generation],
                  previous |-> proc.mem.installed, clean |-> FALSE, old |-> dest]
            f == [txn |-> txns', gen |-> generation]
<1>0. /\ proc.pc = "journal" /\ journal = None /\ generation \in gens
      /\ txns < MaxTxn /\ txns' = txns + 1
      /\ staged' = [l \in 1..4 |-> f] /\ journal' = j
      /\ proc' = [proc EXCEPT !.pc = "backup", !.at = 1]
      /\ UNCHANGED <<state, generation, made, gens, dest, backup, session, faults>>
  BY MacConstants DEF MacWriteJournal, stateVars, tree, MacIInv, MacFlow
<1>1. txns' \in 1..MaxTxn /\ txns' \in 0..MaxTxn
  BY <1>0, MacConstants DEF MacIInv, MacTypes
<1>2. generation \in 1..MaxGens /\ made[generation] \in Versions
  BY <1>0, MacTyped
<1>3. j \in MacJournal /\ f \in MacFile /\ dest \in MacFiles /\ j.old = dest
  <2>1. dest \in MacFiles /\ proc.mem.installed \in Maybe(Versions)
    BY MacTyped DEF MacIInv, MacTypes
  <2>. QED BY <1>1, <1>2, <2>1, MacTypesAre
<1>4. New' = f
  BY <1>0 DEF New
<1>5. journal' # None /\ journal' \in Maybe(MacJournal)
  BY <1>0, <1>3, MacAssumptions DEF MacIInv, Maybe
<1>6. journal'.old = dest
  BY <1>0, <1>3
<1>. HIDE DEF j, f
<1>7. /\ proc' \in MacProc /\ proc'.pc = "backup" /\ proc'.rest = proc.rest
      /\ proc'.want = proc.want /\ proc'.leased = proc.leased
  <2>1. "backup" \in MacPcs /\ 1 \in 1..4
    BY MacStepsAre DEF MacJournaled
  <2>. QED BY <1>0, <2>1, MacMovesAt
<1>8. staged' \in MacFiles
  BY <1>0, <1>3 DEF MacFiles, Maybe
<1>9. MacTypes'
  BY <1>0, <1>1, <1>5, <1>7, <1>8 DEF MacIInv, MacTypes, MacProc, MacJournal
<1>10. MacWhole'
  BY <1>0, <1>5, <1>6 DEF MacIInv, MacWhole
<1>11. MacDisk'
  BY <1>0, <1>4, <1>7 DEF MacDisk, MacCommitting
<1>. QED BY <1>0, <1>5, <1>7, <1>9, <1>10, <1>11, MacUnderJournal DEF MacJournaled

(* A step that goes on with the next launcher, or is done with them.       *)
LEMMA MacNextLauncher ==
  ASSUME MacIInv, NEW x \in MacPcs, NextLauncher(x)
  PROVE  /\ proc' \in MacProc /\ proc'.rest = proc.rest /\ proc'.want = proc.want
         /\ proc'.leased = proc.leased
         /\ \/ proc'.pc = proc.pc /\ proc'.at = proc.at + 1
            \/ proc'.pc = x /\ proc'.at = 1 /\ proc.at = 4
<1>1. proc \in MacProc /\ proc.at \in 1..4
  BY MacTyped, MacProcFields
<1>2. CASE proc.at < 4
  <2>. DEFINE k == proc.at + 1
  <2>1. proc' = [proc EXCEPT !.at = k] /\ k \in 1..4
    BY <1>1, <1>2, MacConstants DEF NextLauncher
  <2>. HIDE DEF k
  <2>2. proc' \in MacProc /\ proc'.pc = proc.pc /\ proc'.rest = proc.rest
        /\ proc'.want = proc.want /\ proc'.leased = proc.leased /\ proc'.at = k
    BY <1>1, <2>1, MacTypesAre
  <2>. QED BY <2>2 DEF k
<1>3. CASE ~(proc.at < 4)
  <2>1. proc' = [proc EXCEPT !.pc = x, !.at = 1] /\ proc.at = 4 /\ 1 \in 1..4
    BY <1>1, <1>3, MacConstants DEF NextLauncher
  <2>. QED BY <2>1, MacMovesAt
<1>. QED BY <1>2, <1>3

LEMMA MacBackupPreserves == MacIInv /\ MacBackup => MacIInv'
<1>. SUFFICES ASSUME MacIInv, MacBackup PROVE MacIInv'
  OBVIOUS
<1>0. /\ proc.pc = "backup" /\ backup' = [backup EXCEPT ![proc.at] = dest[proc.at]]
      /\ NextLauncher("installing") /\ journal # None
      /\ UNCHANGED <<state, generation, made, gens, dest, staged, journal, session, txns, faults>>
  BY DEF MacBackup, stateVars, tree, MacIInv, MacFlow, MacJournaled
<1>1. proc \in MacProc /\ proc.at \in 1..4
  BY MacTyped, MacProcFields
<1>2. /\ proc' \in MacProc /\ proc'.rest = proc.rest /\ proc'.want = proc.want
      /\ proc'.leased = proc.leased
      /\ proc'.pc = "backup" \/ (proc'.pc = "installing" /\ proc'.at = 1)
  <2>1. "installing" \in MacPcs
    BY MacStepsAre DEF MacJournaled
  <2>. QED BY <1>0, <2>1, MacNextLauncher
<1>3. MacTypes' /\ MacWhole'
  <2>1. backup' \in MacFiles
    BY <1>0, <1>1 DEF MacIInv, MacTypes, MacFiles
  <2>. QED BY <1>0, <1>2, <2>1, MacWholeKept DEF MacIInv, MacTypes, MacProc
<1>4. MacDisk'
  BY <1>0, <1>2 DEF MacIInv, MacDisk, MacCommitting, New
<1>. QED BY <1>0, <1>2, <1>3, <1>4, MacUnderJournal DEF MacJournaled

LEMMA MacPublishPreserves == MacIInv /\ Publish => MacIInv'
<1>. SUFFICES ASSUME MacIInv, Publish PROVE MacIInv'
  OBVIOUS
<1>0. /\ proc.pc = "publish" /\ journal # None
      /\ dest' = [dest EXCEPT ![proc.at] = staged[proc.at]]
      /\ staged' = [staged EXCEPT ![proc.at] = None]
      /\ NextLauncher("verify")
      /\ UNCHANGED <<state, generation, made, gens, backup, journal, session, txns, faults>>
  BY DEF Publish, stateVars, tree, MacIInv, MacFlow, MacJournaled
<1>1. proc \in MacProc /\ proc.at \in 1..4
  BY MacTyped, MacProcFields
<1>2. /\ proc' \in MacProc /\ proc'.rest = proc.rest /\ proc'.want = proc.want
      /\ proc'.leased = proc.leased
      /\ (proc'.pc = "publish" /\ proc'.at = proc.at + 1) \/ proc'.pc = "verify"
  <2>1. "verify" \in MacPcs
    BY MacStepsAre DEF MacJournaled
  <2>. QED BY <1>0, <2>1, MacNextLauncher
<1>3. dest \in MacFiles /\ staged \in MacFiles
  BY DEF MacIInv, MacTypes
<1>4. MacTypes' /\ MacWhole'
  <2>1. dest' \in MacFiles /\ staged' \in MacFiles
    BY <1>0, <1>1, <1>3 DEF MacFiles, Maybe
  <2>2. MacTypes'
    BY <1>0, <1>2, <2>1 DEF MacIInv, MacTypes, MacProc
  <2>3. MacWhole'
    BY <1>0 DEF MacIInv, MacWhole
  <2>. QED BY <2>2, <2>3
<1>5. MacDisk'
  <2>1. \A l \in 1..4 : IF l < proc.at THEN dest[l] = New ELSE staged[l] = New
    BY <1>0 DEF MacIInv, MacDisk
  <2>2. New' = New
    BY <1>0 DEF New
  <2>3. \A l \in 1..4 : IF l < proc.at + 1 THEN dest'[l] = New ELSE staged'[l] = New
    BY <1>0, <1>1, <1>3, <2>1 DEF MacFiles
  <2>. QED BY <1>2, <2>2, <2>3 DEF MacDisk, MacCommitting
<1>. QED BY <1>0, <1>2, <1>4, <1>5, MacUnderJournal DEF MacJournaled

LEMMA MacVerifyPreserves == MacIInv /\ MacVerify => MacIInv'
<1>. SUFFICES ASSUME MacIInv, MacVerify PROVE MacIInv'
  OBVIOUS
<1>0. /\ proc.pc = "verify" /\ journal # None /\ proc' = [proc EXCEPT !.pc = "commit"]
      /\ \A l \in 1..4 : dest[l] = New
      /\ UNCHANGED <<state, generation, made, gens, dest, staged, backup, journal, session, txns, faults>>
  BY MacConstants
  DEF MacVerify, Goto, Complete, stateVars, tree, launchers,
      MacIInv, MacFlow, MacJournaled
<1>1. /\ proc' \in MacProc /\ proc'.pc = "commit" /\ proc'.rest = proc.rest
      /\ proc'.want = proc.want /\ proc'.leased = proc.leased
  <2>1. "commit" \in MacPcs
    BY MacStepsAre DEF MacJournaled, MacCommitting
  <2>. QED BY <1>0, <2>1, MacMoves
<1>2. MacTypes' /\ MacWhole'
  BY <1>0, <1>1, MacTyped, MacFaultType, MacTypesKept, MacWholeKept
<1>3. MacDisk'
  BY <1>0, <1>1 DEF MacDisk, MacCommitting, New
<1>. QED BY <1>0, <1>1, <1>2, <1>3, MacUnderJournal DEF MacJournaled, MacCommitting

(* What a step saves, or would have saved, is a state.                     *)
LEMMA MacChangedType ==
  ASSUME MacIInv
  PROVE  MacChanged(proc.mem) \in MacStates
<1>. DEFINE s == proc.mem
<1>1. s \in MacStates
  BY MacTyped
<1>2. /\ s.txn \in Maybe(TxnOf(Versions, MaxTxn)) /\ None \in Maybe(TxnOf(Versions, MaxTxn))
      /\ None \in Maybe(Versions) /\ None \in Maybe(FailureOf(Versions, MaxTxn))
      /\ {"Installing", "Installed", "ReadyToInstall"} \subseteq Statuses
  BY <1>1, StateFields DEF MacStates, Maybe, Statuses
<1>. HIDE DEF s
<1>3. CASE proc.pc \notin MacSaves
  BY <1>1, <1>3 DEF MacChanged, MacSaves, s
<1>4. CASE proc.pc \in MacSaves
  <2>1. journal # None
    BY <1>4 DEF MacSaves, MacIInv, MacFlow, MacJournaled, MacCommitting
  <2>2. journal.txn \in 1..MaxTxn /\ journal.version \in Versions /\ journal.previous \in Maybe(Versions)
    BY <2>1, MacTyped
  <2>3. CASE proc.pc = "installing"
    <3>. DEFINE t == [id |-> journal.txn, version |-> journal.version, committed |-> FALSE]
    <3>1. t \in Maybe(TxnOf(Versions, MaxTxn))
      BY <2>2 DEF TxnOf, Maybe
    <3>2. MacChanged(s) = [s EXCEPT !.status = "Installing", !.txn = t]
      BY <2>3 DEF MacChanged
    <3>. HIDE DEF t
    <3>. QED BY <1>1, <1>2, <3>1, <3>2 DEF MacStates, StateOf, s
  <2>4. CASE proc.pc = "commit"
    <3>. DEFINE t == MarkTransaction(s, journal.version, journal.txn)
    <3>1. t \in MacStates
      BY <1>1, <2>2, MacStateTypes
    <3>2. \/ MacChanged(s) = t
          \/ MacChanged(s) = [t EXCEPT !.failure = None, !.failedInstall = None, !.status = "Installed"]
      BY <2>4 DEF MacChanged, Marked
    <3>. HIDE DEF t
    <3>3. [t EXCEPT !.failure = None, !.failedInstall = None, !.status = "Installed"] \in MacStates
      BY <1>2, <3>1 DEF MacStates, StateOf
    <3>. QED BY <3>1, <3>2, <3>3 DEF s
  <2>5. CASE proc.pc = "finalize"
    <3>. DEFINE t == [s EXCEPT !.txn = None]
    <3>1. t \in MacStates /\ [s EXCEPT !.txn = None, !.status = "Installed"] \in MacStates
      BY <1>1, <1>2 DEF MacStates, StateOf
    <3>2. MacChanged(s) \in {t, Restore(t), [s EXCEPT !.txn = None, !.status = "Installed"]}
      BY <2>5 DEF MacChanged, Finished
    <3>. HIDE DEF t
    <3>3. Restore(t) \in MacStates
      BY <3>1, MacStateTypes
    <3>. QED BY <3>1, <3>2, <3>3 DEF s
  <2>6. CASE proc.pc = "rolledBack"
    <3>. DEFINE t == IF s.txn # None /\ s.txn.id = journal.txn THEN None ELSE s.txn
    <3>1. t \in Maybe(TxnOf(Versions, MaxTxn))
      BY <1>2
    <3>2. MacChanged(s) = [s EXCEPT !.txn = t, !.status = "ReadyToInstall", !.installed = journal.previous]
      BY <2>6 DEF MacChanged, RolledBack
    <3>. HIDE DEF t
    <3>. QED BY <1>1, <1>2, <2>2, <3>1, <3>2 DEF MacStates, StateOf, s
  <2>. QED BY <1>4, <2>3, <2>4, <2>5, <2>6 DEF MacSaves
<1>. QED BY <1>3, <1>4

LEMMA MacSaveStepPreserves == MacIInv /\ MacSaveStep => MacIInv'
<1>. SUFFICES ASSUME MacIInv, MacSaveStep PROVE MacIInv'
  OBVIOUS
<1>. DEFINE m == MacChanged(proc.mem)
            x == MacAfterSave[proc.pc]
<1>0. /\ proc.pc \in MacSaves /\ journal # None
      /\ state' = m /\ proc' = [proc EXCEPT !.pc = x, !.mem = m]
      /\ UNCHANGED <<generation, made, gens, dest, staged, backup, journal, session, txns, faults>>
  BY DEF MacSaveStep, Save, With, tree, launchers, MacSaves,
         MacIInv, MacFlow, MacJournaled, MacCommitting
<1>1. /\ proc.pc = "installing" => x = "publish"
      /\ proc.pc = "commit" => x = "clean"
      /\ proc.pc \in {"finalize", "rolledBack"} => x = "unjournal"
  BY DEF MacAfterSave
<1>2. x \in MacJournaled /\ x \in MacPcs /\ m \in MacStates /\ faults \in 0..MaxFaults
  BY <1>0, <1>1, MacStepsAre, MacChangedType, MacFaultType DEF MacSaves, MacJournaled, MacCommitting
<1>. HIDE DEF m, x
<1>3. /\ proc' \in MacProc /\ proc'.pc = x /\ proc'.rest = proc.rest
      /\ proc'.want = proc.want /\ proc'.leased = proc.leased
  BY <1>0, <1>2, MacMovesWith
<1>4. proc'.at = proc.at /\ proc.at \in 1..4
  BY <1>0, MacTyped, MacProcFields, MacTypesAre
<1>5. MacTypes' /\ MacWhole'
  BY <1>0, <1>2, <1>3, MacTypesKept, MacWholeKept
<1>6. MacDisk'
  <2>1. New' = New /\ \A l \in 1..4 : MacOld(l)' = MacOld(l)
    BY <1>0 DEF New, MacOld
  <2>2. CASE proc.pc = "installing"
    BY <1>0, <1>1, <1>3, <1>4, <2>1, <2>2 DEF MacIInv, MacDisk, MacCommitting
  <2>3. CASE proc.pc = "commit"
    BY <1>0, <1>1, <1>3, <2>1, <2>3 DEF MacIInv, MacDisk, MacCommitting
  <2>4. CASE proc.pc = "finalize"
    <3>1. \A l \in 1..4 : dest[l] = New
      BY <2>4 DEF MacIInv, MacDisk, MacCommitting
    <3>. QED BY <1>0, <1>1, <1>3, <2>1, <2>4, <3>1 DEF MacDisk, MacCommitting
  <2>5. CASE proc.pc = "rolledBack"
    <3>1. \A l \in 1..4 : MacOld(l)
      BY <2>5 DEF MacIInv, MacDisk
    <3>. QED BY <1>0, <1>1, <1>3, <2>1, <2>5, <3>1 DEF MacDisk, MacCommitting
  <2>. QED BY <1>0, <2>2, <2>3, <2>4, <2>5 DEF MacSaves
<1>. QED BY <1>0, <1>2, <1>3, <1>5, <1>6, MacUnderJournal

LEMMA MacCleanPreserves == MacIInv /\ MacClean => MacIInv'
<1>. SUFFICES ASSUME MacIInv, MacClean PROVE MacIInv'
  OBVIOUS
<1>0. /\ proc.pc = "clean" /\ journal # None /\ proc' = [proc EXCEPT !.pc = "note"]
      /\ staged' = Nothing /\ backup' = Nothing
      /\ UNCHANGED <<state, generation, made, gens, dest, journal, session, txns, faults>>
  BY DEF MacClean, Goto, stateVars, tree, MacIInv, MacFlow, MacJournaled, MacCommitting
<1>1. /\ proc' \in MacProc /\ proc'.pc = "note" /\ proc'.rest = proc.rest
      /\ proc'.want = proc.want /\ proc'.leased = proc.leased
  <2>1. "note" \in MacPcs
    BY MacStepsAre DEF MacJournaled, MacCommitting
  <2>. QED BY <1>0, <2>1, MacMoves
<1>2. MacTypes' /\ MacWhole'
  <2>1. Nothing \in MacFiles
    BY MacConstants DEF Nothing, MacFiles, Maybe
  <2>. QED BY <1>0, <1>1, <2>1, MacWholeKept DEF MacIInv, MacTypes, MacProc
<1>3. MacDisk'
  <2>1. \A l \in 1..4 : dest[l] = New
    BY <1>0 DEF MacIInv, MacDisk, MacCommitting
  <2>. QED BY <1>0, <1>1, <2>1 DEF MacDisk, MacCommitting, New
<1>. QED BY <1>0, <1>1, <1>2, <1>3, MacUnderJournal DEF MacJournaled, MacCommitting

LEMMA MacNotePreserves == MacIInv /\ Note => MacIInv'
<1>. SUFFICES ASSUME MacIInv, Note PROVE MacIInv'
  OBVIOUS
<1>0. /\ proc.pc = "note" /\ journal # None /\ proc' = [proc EXCEPT !.pc = "finalize"]
      /\ journal' = [journal EXCEPT !.clean = TRUE]
      /\ UNCHANGED <<state, generation, made, gens, dest, staged, backup, session, txns, faults>>
  BY DEF Note, Goto, stateVars, tree, launchers, MacIInv, MacFlow,
         MacJournaled, MacCommitting
<1>1. /\ proc' \in MacProc /\ proc'.pc = "finalize" /\ proc'.rest = proc.rest
      /\ proc'.want = proc.want /\ proc'.leased = proc.leased
  <2>1. "finalize" \in MacPcs
    BY MacStepsAre DEF MacJournaled, MacCommitting
  <2>. QED BY <1>0, <2>1, MacMoves
<1>2. /\ journal' \in MacJournal /\ journal'.old = journal.old /\ journal'.txn = journal.txn
      /\ journal'.gen = journal.gen
  <2>1. journal \in MacJournal
    BY <1>0, MacTyped
  <2>. QED BY <1>0, <2>1, MacTypesAre
<1>3. journal' # None /\ journal' \in Maybe(MacJournal)
  BY <1>2, MacAssumptions DEF MacIInv, Maybe
<1>4. MacTypes' /\ MacWhole'
  <2>1. MacTypes'
    BY <1>0, <1>1, <1>3 DEF MacIInv, MacTypes, MacProc, MacJournal
  <2>2. MacWhole'
    BY <1>0, <1>2, <1>3 DEF MacIInv, MacWhole
  <2>. QED BY <2>1, <2>2
<1>5. MacDisk'
  <2>1. (\A l \in 1..4 : dest[l] = New) /\ New' = New
    BY <1>0, <1>2 DEF MacIInv, MacDisk, MacCommitting, New
  <2>. QED BY <1>0, <1>1, <2>1 DEF MacDisk, MacCommitting
<1>. QED BY <1>0, <1>1, <1>3, <1>4, <1>5, MacUnderJournal DEF MacJournaled, MacCommitting

(* The journal goes when the launchers are those of one activation.        *)
(* The journal is removed over launchers of one activation.                *)
LEMMA MacEnded ==
  ASSUME MacIInv, proc.pc = "unjournal"
  PROVE  \A l \in 1..4 : dest[l] = dest[1]
<1>1. journal # None
  BY DEF MacIInv, MacFlow, MacJournaled
<1>2. CASE \A l \in 1..4 : dest[l] = New
  BY <1>2
<1>3. CASE \A l \in 1..4 : MacOld(l)
  BY <1>1, <1>3 DEF MacIInv, MacWhole, MacOld
<1>. QED BY <1>2, <1>3 DEF MacIInv, MacDisk

LEMMA MacUnjournalPreserves == MacIInv /\ MacUnjournal => MacIInv'
<1>. SUFFICES ASSUME MacIInv, MacUnjournal PROVE MacIInv'
  OBVIOUS
<1>0. /\ proc.pc = "unjournal" /\ journal' = None
      /\ UNCHANGED <<state, generation, made, gens, dest, staged, backup, session, txns, faults>>
  BY DEF MacUnjournal, stateVars, tree, launchers
<1>1. \/ \E x \in {"retain", "ready", "reset"} : proc' = [proc EXCEPT !.pc = x]
      \/ Proceed
  <2>1. proc.mode \in {"activating", "replaying", "undoing"}
    BY MacTyped, MacProcFields
  <2>. QED BY <2>1 DEF MacUnjournal, Goto
<1>2. MacWhole'
  BY <1>0, MacEnded DEF MacWhole
<1>3. proc' \in MacProc => MacTypes'
  BY <1>0 DEF MacIInv, MacTypes, Maybe, MacProc, MacJournal
<1>4. CASE \E x \in {"retain", "ready", "reset"} : proc' = [proc EXCEPT !.pc = x]
  <2>1. PICK x \in {"retain", "ready", "reset"} : proc' = [proc EXCEPT !.pc = x]
    BY <1>4
  <2>2. x \in MacPcs
    BY MacStepsAre
  <2>3. /\ proc' \in MacProc /\ proc'.pc = x /\ proc'.rest = proc.rest
        /\ proc'.want = proc.want /\ proc'.leased = proc.leased
    BY <2>1, <2>2, MacMoves
  <2>4. MacFlow'
    BY <1>0, <2>3, MacPlanKept DEF MacFlow, MacJournaled, MacCommitting
  <2>. QED BY <1>0, <1>2, <1>3, <2>3, <2>4, MacAway DEF MacJournaled, MacCommitting
<1>5. CASE Proceed
  BY <1>0, <1>2, <1>3, <1>5, MacProceedType, MacProceeds
<1>. QED BY <1>1, <1>4, <1>5

LEMMA MacResetPreserves == MacIInv /\ Reset => MacIInv'
<1>. SUFFICES ASSUME MacIInv, Reset PROVE MacIInv'
  OBVIOUS
<1>0. /\ MacEnd /\ state' = [Load EXCEPT !.status = "ReadyToInstall"]
      /\ UNCHANGED <<generation, made, gens, dest, staged, backup, journal, session, txns, faults>>
  BY DEF Reset, MacSaveAndEnd, tree, launchers
<1>1. state' \in MacStates /\ faults \in 0..MaxFaults
  <2>1. "ReadyToInstall" \in Statuses
    BY DEF Statuses
  <2>. QED BY <1>0, <2>1, MacTyped, StateEdits, MacFaultType DEF MacStates
<1>. QED BY <1>0, <1>1, MacSavesAndEnds

LEMMA MacStepFailsPreserves == MacIInv /\ MacStepFails => MacIInv'
<1>. SUFFICES ASSUME MacIInv, MacStepFails PROVE MacIInv'
  OBVIOUS
<1>. DEFINE x == IF journal' = None THEN "reset" ELSE "recover"
            m == MacChanged(proc.mem)
<1>0. /\ Fault /\ state' \in {state, m}
      /\ journal' = journal \/ (journal' = None /\ proc.pc = "unjournal")
      /\ proc' = [proc EXCEPT !.pc = x, !.mode = "undoing", !.mem = m]
      /\ UNCHANGED <<generation, made, gens, dest, staged, backup, session, txns>>
  BY DEF MacStepFails, tree, launchers
<1>1. m \in MacStates /\ state' \in MacStates /\ faults' \in 0..MaxFaults
  BY <1>0, MacChangedType, MacTyped, MacFaultType
<1>2. x \in MacPcs /\ x \in {"reset", "recover"} /\ (x = "recover" => journal' # None)
  BY MacStepsAre DEF MacJournaled
<1>. HIDE DEF x, m
<1>3. /\ proc' \in MacProc /\ proc'.pc = x /\ proc'.rest = proc.rest
      /\ proc'.want = proc.want /\ proc'.leased = proc.leased
  BY <1>0, <1>1, <1>2, MacTyped, MacTypesAre
<1>4. MacTypes'
  <2>1. journal' \in Maybe(MacJournal)
    BY <1>0 DEF MacIInv, MacTypes, Maybe
  <2>. QED BY <1>0, <1>1, <1>3, <2>1 DEF MacIInv, MacTypes, MacProc, MacJournal
<1>5. MacWhole'
  <2>1. CASE journal' = journal
    BY <1>0, <2>1 DEF MacIInv, MacWhole
  <2>2. CASE journal' = None /\ proc.pc = "unjournal"
    BY <1>0, <2>2, MacEnded DEF MacWhole
  <2>. QED BY <1>0, <2>1, <2>2
<1>6. MacFlow'
  BY <1>2, <1>3, MacPlanKept DEF MacFlow, MacJournaled, MacCommitting
<1>. QED BY <1>0, <1>2, <1>3, <1>4, <1>5, <1>6, MacAway DEF MacJournaled, MacCommitting

-----------------------------------------------------------------------------
(* Recovery.                                                               *)

LEMMA MacRecoverPreserves == MacIInv /\ MacRecover => MacIInv'
<1>. SUFFICES ASSUME MacIInv, MacRecover PROVE MacIInv'
  OBVIOUS
<1>0. /\ proc.pc = "recover" /\ journal # None
      /\ UNCHANGED <<state, generation, made, gens, dest, staged, backup, journal, session, txns, faults>>
  BY DEF MacRecover, stateVars, tree, launchers, MacIInv, MacFlow, MacJournaled
<1>1. \/ (\A l \in 1..4 : dest[l] = New) /\ proc' = [proc EXCEPT !.pc = "clean"]
      \/ proc' = [proc EXCEPT !.pc = "rollback", !.at = 4]
  BY MacConstants DEF MacRecover, Complete, Goto
<1>2. "clean" \in MacPcs /\ "rollback" \in MacPcs /\ 4 \in 1..4
  BY MacStepsAre DEF MacJournaled, MacCommitting
<1>3. CASE (\A l \in 1..4 : dest[l] = New) /\ proc' = [proc EXCEPT !.pc = "clean"]
  <2>1. /\ proc' \in MacProc /\ proc'.pc = "clean" /\ proc'.rest = proc.rest
        /\ proc'.want = proc.want /\ proc'.leased = proc.leased
    BY <1>2, <1>3, MacMoves
  <2>2. MacTypes' /\ MacWhole'
    BY <1>0, <2>1, MacTyped, MacFaultType, MacTypesKept, MacWholeKept
  <2>3. MacDisk'
    BY <1>0, <1>3, <2>1 DEF MacDisk, MacCommitting, New
  <2>. QED BY <1>0, <2>1, <2>2, <2>3, MacUnderJournal DEF MacJournaled, MacCommitting
<1>4. CASE proc' = [proc EXCEPT !.pc = "rollback", !.at = 4]
  <2>1. /\ proc' \in MacProc /\ proc'.pc = "rollback" /\ proc'.rest = proc.rest /\ proc'.at = 4
        /\ proc'.want = proc.want /\ proc'.leased = proc.leased
    BY <1>2, <1>4, MacMovesAt
  <2>2. MacTypes' /\ MacWhole'
    BY <1>0, <2>1, MacTyped, MacFaultType, MacTypesKept, MacWholeKept
  <2>3. MacDisk'
    BY <2>1 DEF MacDisk, MacCommitting
  <2>. QED BY <1>0, <2>1, <2>2, <2>3, MacUnderJournal DEF MacJournaled
<1>. QED BY <1>1, <1>3, <1>4

(* The launchers from the last one on are the old ones.                    *)
LEMMA MacRollbackPreserves == MacIInv /\ Rollback => MacIInv'
<1>. SUFFICES ASSUME MacIInv, Rollback PROVE MacIInv'
  OBVIOUS
<1>. DEFINE l == proc.at
<1>0. /\ proc.pc = "rollback" /\ journal # None
      /\ dest' = [dest EXCEPT ![l] = journal.old[l]]
      /\ staged' = [staged EXCEPT ![l] = None] /\ backup' = [backup EXCEPT ![l] = None]
      /\ proc' = IF l > 1 THEN [proc EXCEPT !.at = l - 1] ELSE [proc EXCEPT !.pc = "rolledBack"]
      /\ UNCHANGED <<state, generation, made, gens, journal, session, txns, faults>>
  BY DEF Rollback, stateVars, tree, MacIInv, MacFlow, MacJournaled
<1>1. /\ proc \in MacProc /\ l \in 1..4 /\ journal.old \in MacFiles
      /\ dest \in MacFiles /\ staged \in MacFiles /\ backup \in MacFiles
  BY <1>0, MacTyped, MacProcFields DEF MacIInv, MacTypes
<1>2. /\ proc' \in MacProc /\ proc'.rest = proc.rest
      /\ proc'.want = proc.want /\ proc'.leased = proc.leased
      /\ (proc'.pc = "rollback" /\ proc'.at = l - 1) \/ (proc'.pc = "rolledBack" /\ l = 1)
  <2>1. CASE l > 1
    <3>. DEFINE k == l - 1
    <3>1. proc' = [proc EXCEPT !.at = k] /\ k \in 1..4
      BY <1>0, <1>1, <2>1
    <3>. HIDE DEF k
    <3>2. proc' \in MacProc /\ proc'.pc = proc.pc /\ proc'.rest = proc.rest
          /\ proc'.want = proc.want /\ proc'.leased = proc.leased /\ proc'.at = k
      BY <1>1, <3>1, MacTypesAre
    <3>. QED BY <1>0, <3>2 DEF k
  <2>2. CASE ~(l > 1)
    <3>1. proc' = [proc EXCEPT !.pc = "rolledBack"] /\ "rolledBack" \in MacPcs /\ l = 1
      BY <1>0, <1>1, <2>2, MacStepsAre DEF MacJournaled
    <3>. QED BY <3>1, MacMoves
  <2>. QED BY <2>1, <2>2
<1>3. MacTypes' /\ MacWhole'
  <2>1. dest' \in MacFiles /\ staged' \in MacFiles /\ backup' \in MacFiles
    BY <1>0, <1>1 DEF MacFiles, Maybe
  <2>2. MacTypes'
    BY <1>0, <1>2, <2>1 DEF MacIInv, MacTypes, MacProc, MacJournal
  <2>3. MacWhole'
    BY <1>0 DEF MacIInv, MacWhole
  <2>. QED BY <2>2, <2>3
<1>4. MacDisk'
  <2>1. \A k \in 1..4 : k > l => dest[k] = journal.old[k]
    BY <1>0 DEF MacIInv, MacDisk, MacOld
  <2>2. \A k \in 1..4 : k >= l => dest'[k] = journal'.old[k]
    BY <1>0, <1>1, <2>1 DEF MacFiles
  <2>3. CASE proc'.pc = "rollback" /\ proc'.at = l - 1
    BY <1>1, <2>2, <2>3 DEF MacDisk, MacOld, MacCommitting
  <2>4. CASE proc'.pc = "rolledBack" /\ l = 1
    BY <2>2, <2>4 DEF MacDisk, MacOld, MacCommitting
  <2>. QED BY <1>2, <2>3, <2>4
<1>. QED BY <1>0, <1>2, <1>3, <1>4, MacUnderJournal DEF MacJournaled

LEMMA MacRecoveryFailsPreserves == MacIInv /\ MacRecoveryFails => MacIInv'
<1>. SUFFICES ASSUME MacIInv, MacRecoveryFails PROVE MacIInv'
  OBVIOUS
<1>. DEFINE m == MacChanged(proc.mem)
            s == [m EXCEPT !.status = "Failed", !.failedInstall = journal.version]
            id == IF s.txn = None THEN None ELSE s.txn.id
            r == RecordFailure(s, "Installation", journal.version, id)
<1>0. /\ journal # None /\ MacEnd
      /\ UNCHANGED faults \/ Fault
      /\ UNCHANGED state \/ state' = r
      /\ UNCHANGED <<generation, made, gens, dest, staged, backup, journal, session, txns>>
  BY DEF MacRecoveryFails, MacSaveAndEnd, tree, launchers
<1>1. m \in MacStates /\ journal.version \in Versions /\ journal.version \in Maybe(Versions)
  BY <1>0, MacChangedType, MacTyped DEF Maybe
<1>. HIDE DEF m
<1>2. s \in MacStates
  <2>1. "Failed" \in Statuses
    BY DEF Statuses
  <2>. QED BY <1>1, <2>1 DEF MacStates, StateOf
<1>. HIDE DEF s
<1>3. id \in Maybe(1..MaxTxn)
  BY <1>2, StateFields DEF MacStates, Maybe
<1>. HIDE DEF id
<1>4. r \in MacStates
  BY <1>1, <1>2, <1>3, MacStateTypes
<1>. HIDE DEF r
<1>5. state' \in MacStates /\ faults' \in 0..MaxFaults
  BY <1>0, <1>4, MacTyped, MacFaultType
<1>. QED BY <1>0, <1>5, MacSavesAndEnds

-----------------------------------------------------------------------------
(* The check of the registry, sessions, and crashes.                       *)

LEMMA MacBeginCheckPreserves == MacIInv /\ MacBeginCheck => MacIInv'
<1>. SUFFICES ASSUME MacIInv, MacBeginCheck PROVE MacIInv'
  OBVIOUS
<1>. DEFINE m == [Load EXCEPT !.status = "Checking"]
<1>0. /\ state' = m
      /\ proc' = [proc EXCEPT !.pc = "fetch", !.mem = m, !.before = Load.status]
      /\ UNCHANGED <<generation, made, gens, dest, staged, backup, journal, session, txns, faults>>
  BY DEF MacBeginCheck, tree, launchers
<1>1. m \in MacStates /\ Load.status \in Statuses /\ faults \in 0..MaxFaults
  <2>1. "Checking" \in Statuses
    BY DEF Statuses
  <2>. QED BY <2>1, MacTyped, StateEdits, MacFaultType DEF MacStates
<1>. HIDE DEF m
<1>2. /\ proc' \in MacProc /\ proc'.pc = "fetch" /\ proc'.rest = proc.rest
      /\ proc'.want = proc.want /\ proc'.leased = proc.leased
  BY <1>0, <1>1, MacTyped, MacStepsAre, MacTypesAre
<1>3. MacTypes' /\ MacWhole'
  BY <1>0, <1>1, <1>2, MacTypesKept, MacWholeKept
<1>4. MacFlow'
  BY <1>2, MacPlanKept DEF MacFlow, MacJournaled, MacCommitting
<1>. QED BY <1>0, <1>2, <1>3, <1>4, MacAway DEF MacJournaled, MacCommitting

LEMMA MacFetchFailsPreserves == MacIInv /\ MacFetchFails => MacIInv'
<1>. SUFFICES ASSUME MacIInv, MacFetchFails PROVE MacIInv'
  OBVIOUS
<1>0. /\ Fault /\ MacEnd /\ state' = Unanswered(proc.mem)
      /\ UNCHANGED <<generation, made, gens, dest, staged, backup, journal, session, txns>>
  BY DEF MacFetchFails, MacSaveAndEnd, tree, launchers
<1>. QED BY <1>0, MacTyped, MacStateTypes, MacFaultType, MacSavesAndEnds

LEMMA MacFetchAnswersPreserves == MacIInv /\ MacFetchAnswers => MacIInv'
<1>. SUFFICES ASSUME MacIInv, MacFetchAnswers PROVE MacIInv'
  OBVIOUS
<1>0. UNCHANGED <<generation, made, gens, dest, staged, backup, journal, session, txns>>
  BY DEF MacFetchAnswers, tree, launchers
<1>1. PICK v \in Versions, waiting \in BOOLEAN, observed \in Maybe(Versions) :
        LET valid == IF proc.prepare THEN Usable ELSE proc.before = "ReadyToInstall"
            s == Answered(proc.mem, v, proc.before, observed, valid, waiting)
        IN  /\ MacObserved(observed) \/ UNCHANGED faults
            /\ MacEnd /\ state' \in {s, Concluded(s)}
  BY DEF MacFetchAnswers, MacSaveAndEnd
<1>. DEFINE valid == IF proc.prepare THEN Usable ELSE proc.before = "ReadyToInstall"
            s == Answered(proc.mem, v, proc.before, observed, valid, waiting)
<1>2. s \in MacStates
  BY MacTyped, MacProcFields, MacStateTypes
<1>3. MacEnd /\ state' \in {s, Concluded(s)} /\ (MacObserved(observed) \/ UNCHANGED faults)
  BY <1>1
<1>. HIDE DEF s
<1>4. state' \in MacStates /\ faults' \in 0..MaxFaults
  BY <1>2, <1>3, MacStateTypes, MacFaultType
<1>. QED BY <1>0, <1>3, <1>4, MacSavesAndEnds

(* A session runs a generation that it found on disk under its own lease.  *)
LEMMA MacRunManagedPreserves ==
  ASSUME MacIInv, NEW s \in Sessions, RunManaged(s)
  PROVE  MacIInv'
<1>0. UNCHANGED <<state, generation, made, gens, dest, staged, backup, journal, proc, txns, faults>>
  BY DEF RunManaged, stateVars, tree, launchers
<1>1. session \in MacSessions
  BY DEF MacIInv, MacTypes
<1>2. \E x \in {"none", "control", "opened", "up"}, g \in Maybe(1..MaxGens) :
        /\ session' = [session EXCEPT ![s] = [pc |-> x, gen |-> g]]
        /\ x = "up" => g \in gens /\ g \notin proc.leased
  <2>1. None \in Maybe(1..MaxGens) /\ gens \subseteq Maybe(1..MaxGens)
        /\ session[s].gen \in Maybe(1..MaxGens)
    BY <1>1, MacTyped DEF Maybe, MacSessions
  <2>. QED BY <2>1 DEF RunManaged, Set, Revalidates
<1>3. PICK x \in {"none", "control", "opened", "up"}, g \in Maybe(1..MaxGens) :
        /\ session' = [session EXCEPT ![s] = [pc |-> x, gen |-> g]]
        /\ x = "up" => g \in gens /\ g \notin proc.leased
  BY <1>2
<1>4. session' \in MacSessions
  BY <1>1, <1>3 DEF MacSessions
<1>5. MacTypes' /\ MacWhole'
  BY <1>0, <1>4, MacWholeKept DEF MacIInv, MacTypes, MacProc, MacJournal
<1>6. MacFlow' /\ MacDisk'
  BY <1>0 DEF MacIInv, MacFlow, MacDisk, MacPlans, MacOld, New
<1>7. MacLeases'
  BY <1>0, <1>1, <1>3 DEF MacIInv, MacLeases, MacSessions
<1>. QED BY <1>5, <1>6, <1>7 DEF MacIInv

LEMMA MacCrashPreserves == MacIInv /\ MacCrash => MacIInv'
<1>. SUFFICES ASSUME MacIInv, MacCrash PROVE MacIInv'
  OBVIOUS
<1>0. /\ Fault /\ MacEnd
      /\ UNCHANGED <<state, generation, made, gens, dest, staged, backup, journal, session, txns>>
  BY DEF MacCrash, stateVars, tree, launchers
<1>. QED BY <1>0, MacTyped, MacFaultType, MacSavesAndEnds

LEMMA MacInitially == MacInit => MacIInv
<1>. SUFFICES ASSUME MacInit PROVE MacIInv
  OBVIOUS
<1>1. /\ state = Initially /\ generation = None /\ journal = None /\ proc = MacResting
      /\ staged = Nothing /\ backup = Nothing /\ txns = 0 /\ faults = 0
  BY DEF MacInit
<1>2. PICK v \in Maybe(Versions) :
        /\ made = IF v = None THEN << >> ELSE <<v>>
        /\ gens = DOMAIN made
        /\ dest = [l \in 1..4 |-> IF v = None THEN None ELSE [txn |-> 0, gen |-> 1]]
        /\ session \in [Sessions -> {[pc |-> "none", gen |-> None]}
                                    \cup {[pc |-> "up", gen |-> g] : g \in gens}]
  BY MacConstants DEF MacInit
<1>3. /\ made \in Seq(Versions) /\ gens \subseteq {1} /\ gens = 1..Len(made) /\ Len(made) <= MaxGens
      /\ 1 \in 1..MaxGens
  <2>1. MaxGens \in Nat \ {0}
    BY MacAssumptions
  <2>2. CASE v = None
    BY <1>2, <2>1, <2>2
  <2>3. CASE v # None
    <3>1. v \in Versions /\ made = <<v>>
      BY <1>2, <2>3 DEF Maybe
    <3>2. made \in Seq(Versions) /\ Len(made) = 1 /\ DOMAIN made = 1..1
      BY <3>1
    <3>3. gens = 1..1 /\ 1..1 = {1}
      BY <1>2, <3>2
    <3>. QED BY <2>1, <3>2, <3>3
  <2>. QED BY <2>2, <2>3
<1>4. state \in MacStates
  BY <1>1 DEF Initially, MacStates, StateOf, Statuses, Maybe
<1>5. session \in MacSessions /\ \A s \in Sessions : session[s].pc = "up" => session[s].gen \in gens
  BY <1>2, <1>3 DEF MacSessions, Maybe
<1>6. dest \in MacFiles /\ staged \in MacFiles /\ backup \in MacFiles
  <2>1. [txn |-> 0, gen |-> 1] \in MacFile
    BY <1>3, MacConstants, MacTypesAre
  <2>. QED BY <1>1, <1>2, <2>1, MacConstants DEF MacFiles, Maybe, Nothing
<1>7. MacTypes
  BY <1>1, <1>3, <1>4, <1>5, <1>6, MacRestingIs, MacConstants DEF MacTypes, Maybe
<1>8. MacFlow /\ MacDisk
  BY <1>1, MacRestingIs DEF MacFlow, MacDisk, MacJournaled, MacCommitting
<1>9. MacWhole
  BY <1>1, <1>2 DEF MacWhole
<1>10. MacLeases
  BY <1>1, <1>5, MacRestingIs DEF MacLeases
<1>. QED BY <1>7, <1>8, <1>9, <1>10 DEF MacIInv

LEMMA MacStutter == MacIInv /\ UNCHANGED macVars => MacIInv'
<1>. SUFFICES ASSUME MacIInv, UNCHANGED macVars PROVE MacIInv'
  OBVIOUS
<1>0. UNCHANGED <<state, generation, made, gens, dest, staged, backup, journal, session, proc, txns, faults>>
  BY DEF macVars, stateVars, tree, launchers
<1>1. MacTypes' /\ MacWhole'
  BY <1>0, MacWholeKept DEF MacIInv, MacTypes, MacProc, MacJournal
<1>2. MacFlow' /\ MacDisk'
  BY <1>0 DEF MacIInv, MacFlow, MacDisk, MacPlans, MacOld, New
<1>3. MacLeases'
  BY <1>0 DEF MacIInv, MacLeases
<1>. QED BY <1>1, <1>2, <1>3 DEF MacIInv

LEMMA MacStepKeeps == MacIInv /\ [MacNext]_macVars => MacIInv'
<1>. SUFFICES ASSUME MacIInv, [MacNext]_macVars PROVE MacIInv'
  OBVIOUS
<1>1. CASE MacStart \/ Activate \/ MacStage \/ MacBuild \/ SaveStaged
  BY <1>1, MacStartPreserves, MacActivatePreserves, MacStagePreserves, MacBuildPreserves,
     MacSaveStagedPreserves
<1>2. CASE Inventory \/ Lease \/ Delete
  BY <1>2, MacInventoryPreserves, MacLeasePreserves, MacDeletePreserves
<1>3. CASE \/ MacInstall \/ Ready \/ MacWriteJournal \/ MacBackup \/ Publish \/ MacVerify
           \/ MacSaveStep \/ MacClean \/ Note \/ MacUnjournal \/ Reset \/ MacStepFails
  BY <1>3, MacInstallPreserves, MacReadyPreserves, MacWriteJournalPreserves, MacBackupPreserves,
     MacPublishPreserves, MacVerifyPreserves, MacSaveStepPreserves, MacCleanPreserves,
     MacNotePreserves, MacUnjournalPreserves, MacResetPreserves, MacStepFailsPreserves
<1>4. CASE MacRecover \/ Rollback \/ MacRecoveryFails
  BY <1>4, MacRecoverPreserves, MacRollbackPreserves, MacRecoveryFailsPreserves
<1>5. CASE MacBeginCheck \/ MacFetchFails \/ MacFetchAnswers \/ MacCrash
  BY <1>5, MacBeginCheckPreserves, MacFetchFailsPreserves, MacFetchAnswersPreserves, MacCrashPreserves
<1>6. CASE \E s \in Sessions : RunManaged(s)
  BY <1>6, MacRunManagedPreserves
<1>7. CASE UNCHANGED macVars
  BY <1>7, MacStutter
<1>. QED BY <1>1, <1>2, <1>3, <1>4, <1>5, <1>6, <1>7 DEF MacNext

(* Every reachable state of the Mac satisfies its invariant.               *)
THEOREM MacInvariance == MacSpec => []MacIInv
BY MacInitially, MacStepKeeps, PTL DEF MacSpec

(* The updater's state, its journal, the launchers, the generations, the   *)
(* sessions and the command of the Mac keep their types.                   *)
THEOREM MacTypeCorrect == MacSpec => []MacTypeOK
<1>1. MacIInv => MacTypeOK
  <2>. SUFFICES ASSUME MacIInv PROVE MacTypeOK
    OBVIOUS
  <2>1. DOMAIN made = 1..Len(made)
    BY DEF MacIInv, MacTypes
  <2>. QED BY <2>1, MacConstants DEF MacIInv, MacTypes, MacTypeOK, MacStates, MacFiles, MacSessions
<1>. QED BY <1>1, MacInvariance, PTL

(* Without a journal the four launchers are those of one activation,       *)
(* however many commands were interrupted (execute_macos_activation and    *)
(* its recovery).                                                          *)
THEOREM MacLaunchersWhole == MacSpec => []LaunchersWhole
<1>1. MacIInv => LaunchersWhole
  BY MacConstants DEF MacIInv, MacWhole, LaunchersWhole
<1>. QED BY <1>1, MacInvariance, PTL

(* No generation that a session runs is deleted, however retention and     *)
(* the launch interleave (acquire_prepared_retention_leases).              *)
THEOREM MacSessionsKept == MacSpec => []SessionKept
<1>1. MacIInv => SessionKept
  BY DEF MacIInv, MacLeases, SessionKept
<1>. QED BY <1>1, MacInvariance, PTL

-----------------------------------------------------------------------------
(* MacRuntime implements AtomicInstall, with the four launchers for a       *)
(* release, of which none may be there yet.                                 *)

MacRelease(file) == [l \in Launchers |-> file]
LauncherStep == [LauncherInstall!InstallNext]_(LauncherInstall!installVars)

LEMMA MacJournalKept ==
  ASSUME MacNext
  PROVE  \/ UNCHANGED journal
         \/ MacWriteJournal
         \/ Note
         \/ proc.pc = "unjournal" /\ journal' = None /\ UNCHANGED dest
BY DEF MacNext, MacStart, Activate, MacStage, MacBuild, SaveStaged, Inventory, Lease, Delete, MacInstall,
   Ready, MacBackup, Publish, MacVerify, MacSaveStep, MacClean, MacUnjournal, Reset, MacStepFails,
   MacRecover, Rollback, MacRecoveryFails, MacBeginCheck, MacFetchFails, MacFetchAnswers, RunManaged,
   MacCrash, launchers

(* Without a journal no launcher is published or put back.                  *)
LEMMA MacDestKept ==
  ASSUME MacIInv, MacNext, journal = None
  PROVE  UNCHANGED dest
<1>1. proc.pc \notin {"publish", "rollback"}
  BY DEF MacIInv, MacFlow, MacJournaled
<1>. QED BY <1>1 DEF MacNext, MacStart, Activate, MacStage, MacBuild, SaveStaged, Inventory, Lease, Delete,
   MacInstall, Ready, MacWriteJournal, MacBackup, Publish, MacVerify, MacSaveStep, MacClean, Note,
   MacUnjournal, Reset, MacStepFails, MacRecover, Rollback, MacRecoveryFails, MacBeginCheck,
   MacFetchFails, MacFetchAnswers, RunManaged, MacCrash, launchers

LEMMA MacWriteJournalReplaces ==
  ASSUME MacIInv, MacIInv', MacWriteJournal
  PROVE  LauncherStep
<1>1. /\ proc.pc = "journal" /\ UNCHANGED dest /\ txns < MaxTxn /\ txns' = txns + 1
      /\ journal' = [txn |-> txns', gen |-> generation, version |-> made[generation],
                     previous |-> proc.mem.installed, clean |-> FALSE, old |-> dest]
      /\ proc' = [proc EXCEPT !.pc = "backup", !.at = 1]
  BY DEF MacWriteJournal
<1>2. journal = None
  BY <1>1 DEF MacIInv, MacFlow
<1>3. proc'.pc = "backup"
  BY <1>1 DEF MacIInv, MacTypes, MacProc
<1>4. journal' # None
  BY <1>3 DEF MacIInv, MacFlow, MacJournaled
<1>5. New' \in MacFile /\ journal'.old = dest
  <2>1. journal' \in MacJournal
    BY <1>4 DEF MacIInv, MacTypes, Maybe
  <2>2. journal'.txn \in 1..MaxTxn /\ journal'.gen \in 1..MaxGens
    BY <2>1, MacTypesAre
  <2>3. journal'.txn \in 0..MaxTxn
    BY <2>2, MacConstants
  <2>4. [txn |-> journal'.txn, gen |-> journal'.gen] \in MacFile
    BY <2>2, <2>3, MacTypesAre
  <2>. QED BY <1>1, <2>4 DEF New
<1>6. MacRelease(New') \in LauncherSets
  BY <1>5 DEF LauncherSets, MacRelease, Maybe
<1>7. LauncherInstall!Replace
  BY <1>1, <1>2, <1>4, <1>5, <1>6 DEF LauncherInstall!Replace, MacRelease
<1>. QED BY <1>7 DEF LauncherStep, LauncherInstall!InstallNext

(* The journal is removed over the new launchers or over the old ones.      *)
LEMMA MacUnjournalConcludes ==
  ASSUME MacIInv, proc.pc = "unjournal", journal' = None, UNCHANGED dest
  PROVE  LauncherStep
<1>1. journal # None
  BY DEF MacIInv, MacFlow, MacJournaled
<1>2. dest \in MacFiles /\ journal.old \in MacFiles
  BY <1>1, MacTypesAre DEF MacIInv, MacTypes, Maybe
<1>3. dest = [l \in 1..4 |-> dest[l]] /\ journal.old = [l \in 1..4 |-> journal.old[l]]
  BY <1>2 DEF MacFiles
<1>4. dest \in {MacRelease(New), journal.old}
  <2>1. CASE \A l \in 1..4 : dest[l] = New
    BY <1>3, <2>1, MacConstants DEF MacRelease
  <2>2. CASE \A l \in 1..4 : MacOld(l)
    BY <1>3, <2>2 DEF MacOld
  <2>. QED BY <2>1, <2>2 DEF MacIInv, MacDisk
<1>5. LauncherInstall!Conclude
  BY <1>1, <1>4 DEF LauncherInstall!Conclude, MacRelease
<1>. QED BY <1>5 DEF LauncherStep, LauncherInstall!InstallNext

LEMMA MacNoteStays ==
  ASSUME MacIInv, MacIInv', Note
  PROVE  LauncherStep
<1>1. proc.pc = "note" /\ journal' = [journal EXCEPT !.clean = TRUE] /\ proc' = [proc EXCEPT !.pc = "finalize"]
  BY DEF Note, Goto
<1>2. journal # None /\ journal \in MacJournal
  BY <1>1 DEF MacIInv, MacTypes, Maybe, MacFlow, MacJournaled, MacCommitting
<1>3. journal'.txn = journal.txn /\ journal'.gen = journal.gen /\ journal'.old = journal.old
  BY <1>1, <1>2, MacTypesAre
<1>4. proc'.pc = "finalize"
  BY <1>1 DEF MacIInv, MacTypes, MacProc
<1>5. journal' # None
  BY <1>4 DEF MacIInv, MacFlow, MacJournaled, MacCommitting
<1>. QED BY <1>2, <1>3, <1>5 DEF LauncherStep, LauncherInstall!installVars, New

LEMMA MacStepInstalls ==
  ASSUME MacIInv, MacIInv', [MacNext]_macVars
  PROVE  LauncherStep
<1>1. CASE UNCHANGED macVars
  BY <1>1 DEF LauncherStep, LauncherInstall!installVars, macVars, launchers, New
<1>2. CASE MacWriteJournal
  BY <1>2, MacWriteJournalReplaces
<1>3. CASE Note
  BY <1>3, MacNoteStays
<1>4. CASE proc.pc = "unjournal" /\ journal' = None /\ UNCHANGED dest
  BY <1>4, MacUnjournalConcludes
<1>5. CASE MacNext /\ UNCHANGED journal
  <2>1. CASE journal = None
    BY <1>5, <2>1, MacDestKept DEF LauncherStep, LauncherInstall!installVars
  <2>2. CASE journal # None
    BY <1>5, <2>2 DEF LauncherStep, LauncherInstall!installVars, New
  <2>. QED BY <2>1, <2>2
<1>. QED BY <1>1, <1>2, <1>3, <1>4, <1>5, MacJournalKept

(* Whatever crashes, failed steps and replays interrupt it, an activation   *)
(* ends with the launchers it started from or with the new ones             *)
(* (activate_macos_prepared_runtime_at and recover_macos_activation_at).    *)
THEOREM MacImplementsInstall == MacSpec => LaunchersInstalled
<1>1. MacInit => LauncherInstall!InstallInit
  <2>. SUFFICES ASSUME MacInit PROVE LauncherInstall!InstallInit
    OBVIOUS
  <2>. DEFINE first == [txn |-> 0, gen |-> 1]
  <2>1. first \in MacFile
    BY MacConstants, MacAssumptions, MacTypesAre
  <2>2. PICK v : dest = [l \in Launchers |-> IF v = None THEN None ELSE first]
    BY DEF MacInit
  <2>3. dest \in {MacRelease(None), MacRelease(first)}
    BY <2>2 DEF MacRelease
  <2>4. journal = None
    BY DEF MacInit
  <2>. QED BY <2>1, <2>3, <2>4 DEF LauncherInstall!InstallInit, LauncherSets, MacRelease, Maybe
<1>2. MacIInv /\ MacIInv' /\ [MacNext]_macVars
        => [LauncherInstall!InstallNext]_(LauncherInstall!installVars)
  BY MacStepInstalls DEF LauncherStep
<1>. QED BY <1>1, <1>2, MacInvariance, PTL DEF MacSpec, LaunchersInstalled, LauncherInstall!InstallSpec
=============================================================================
