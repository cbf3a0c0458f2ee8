----------------------------- MODULE UpdateState -----------------------------
(***************************************************************************)
(* The updater's state file, codex-cli-update.json (codex_update.rs and    *)
(* codex_update/state.rs), as a record, and what each outcome does to a    *)
(* copy of it.  Versions are numbers, and transactions too.                *)
(***************************************************************************)
EXTENDS Naturals

CONSTANT None  \* an absent field

Kinds == {"Metadata", "Preparation", "Installation", "Activation"}
Statuses == {"Idle", "Checking", "Preparing", "Installing", "ReadyToInstall", "Installed", "Failed"}

Maybe(S) == S \cup {None}
FailureOf(V, n) == [kind: Kinds, version: Maybe(V), txn: Maybe(1..n),
                    prepare: Maybe(V), install: Maybe(V)]
TxnOf(V, n) == [id: 1..n, version: V, committed: BOOLEAN]
StateOf(V, n) ==
  [status: Statuses, installed: Maybe(V), prepared: Maybe(V), failedPrepare: Maybe(V),
   failedInstall: Maybe(V), failure: Maybe(FailureOf(V, n)),
   txn: Maybe(TxnOf(V, n))]

Initially == [status |-> "Idle", installed |-> None, prepared |-> None, failedPrepare |-> None,
              failedInstall |-> None, failure |-> None, txn |-> None]

\* The view of an unresolved failure is put back over whatever was observed.
Restore(s) ==
  IF s.failure = None THEN s
  ELSE [s EXCEPT !.status = "Failed", !.failedPrepare = s.failure.prepare,
                 !.failedInstall = s.failure.install]

Noted(s, kind, version, txn) ==
  [s EXCEPT !.failure = [kind |-> kind, version |-> version, txn |-> txn,
                         prepare |-> s.failedPrepare, install |-> s.failedInstall]]

\* Only the failure of a preparation is replaced, by that of another one.
RecordFailure(s, kind, version, txn) ==
  IF s.failure # None /\ ~(s.failure.kind = "Preparation" /\ kind = "Preparation")
  THEN Restore(s) ELSE Noted(s, kind, version, txn)

KindOf(s) == IF s.failedInstall # None THEN "Installation"
             ELSE IF s.failedPrepare # None THEN "Preparation" ELSE "Activation"

\* A state file read back; a failed status without a failure becomes one.
Loaded(s) ==
  IF s.status = "Failed" /\ s.failure = None
  THEN Noted(s, KindOf(s), IF s.failedInstall # None THEN s.failedInstall ELSE s.failedPrepare, None)
  ELSE s

ClearPrepared(s) == [s EXCEPT !.prepared = None]

\* A failure of the registry alone blocks nothing once the registry answers.
ObservationOnly(s) ==
  /\ s.failure # None /\ s.failure.kind = "Metadata" /\ s.failure.version = None
  /\ s.failure.txn = None /\ s.failure.prepare = None /\ s.failure.install = None
  /\ s.failedPrepare = None /\ s.failedInstall = None /\ s.txn = None

Resolves(s, v) ==
  /\ s.failure # None /\ s.failure.kind = "Preparation" /\ s.failure.version = v
  /\ s.failure.prepare = v /\ s.failure.install = None
ClearPrepare(s, v) ==
  [s EXCEPT !.failedPrepare = None, !.failure = IF Resolves(s, v) THEN None ELSE @]

Older(failed, v) == failed # None /\ failed < v
ClearObsolete(s, v) ==
  LET t == IF Older(s.failedPrepare, v) THEN ClearPrepare(s, s.failedPrepare) ELSE s
  IN  [t EXCEPT !.failedInstall = IF Older(@, v) THEN None ELSE @]

\* Finding the version v on disk proves nothing about these.
MustPreserve(s, v, observed) ==
  \/ s.failure # None \/ observed = "Failed" \/ s.failedInstall = v
  \/ observed = "Installing" /\ s.prepared = v

AtLeast(v, failed) == failed # None /\ v >= failed
MarkInstalled(s, v) ==
  IF s.failure # None THEN [Restore(s) EXCEPT !.installed = v]
  ELSE [s EXCEPT !.status = "Installed", !.installed = v, !.prepared = None,
                 !.failedPrepare = IF AtLeast(v, @) THEN None ELSE @,
                 !.failedInstall = IF AtLeast(v, @) THEN None ELSE @]

MarkTransaction(s, v, id) ==
  LET cleared == s.failure # None /\ s.failure.kind = "Installation" /\ s.failure.version = v
                 /\ s.failure.txn = id
      t == [s EXCEPT !.installed = v, !.prepared = None,
                     !.failedInstall = IF cleared THEN None ELSE @,
                     !.failure = IF cleared THEN None ELSE @,
                     !.txn = IF @ # None /\ @.id = id /\ @.version = v
                             THEN [@ EXCEPT !.committed = TRUE] ELSE @]
  IN  IF t.failure # None THEN Restore(t) ELSE [t EXCEPT !.status = "Installed"]

\* An interrupted installation that cannot be recovered yet.
Interrupted(s) ==
  IF s.failure # None THEN Restore(s)
  ELSE LET v == IF s.txn # None THEN s.txn.version ELSE s.prepared
       IN  Noted([s EXCEPT !.status = "Failed", !.failedInstall = v], "Installation", v,
                 IF s.txn = None THEN None ELSE s.txn.id)
-----------------------------------------------------------------------------
(* A check of the registry.  Its status is Checking meanwhile, and before is  *)
(* the status it found.                                                      *)

\* The registry answers that v is the newest release; observed is what the
\* probe found installed, valid whether the prepared generation is usable, and
\* waiting whether the retry deadline of a failed preparation is ahead.
Answered(s, v, before, observed, valid, waiting) ==
  LET seen == [s EXCEPT !.installed = observed]
      only == ObservationOnly(seen)
      clear == IF only THEN [seen EXCEPT !.failure = None] ELSE seen
      preserve == observed = v /\ ~only /\ MustPreserve(clear, v, before)
      t == IF preserve THEN clear ELSE ClearObsolete(clear, v)
      next == IF observed = v
              THEN IF ~preserve THEN MarkInstalled(t, v)
                   ELSE IF t.failure # None THEN t ELSE [t EXCEPT !.status = before]
              ELSE IF t.prepared = v /\ valid
              THEN [t EXCEPT !.status = IF t.failedInstall = v /\ before = "Failed"
                                        THEN "Failed" ELSE "ReadyToInstall"]
              ELSE [t EXCEPT !.status = IF t.failedPrepare = v /\ waiting THEN "Failed" ELSE "Idle"]
  IN  Restore(next)

\* A check that ends as failed without a recorded failure records one.
Concluded(s) ==
  IF s.status = "Failed" /\ s.failure = None THEN RecordFailure(s, "Metadata", None, None) ELSE s

Unanswered(s) ==
  IF s.failure # None THEN Restore(s)
  ELSE RecordFailure([s EXCEPT !.status = "Failed"], "Metadata", None, None)
=============================================================================
