----------------------------- MODULE Activation -----------------------------
(***************************************************************************)
(* One host's credential activation (activation.rs): the transaction that  *)
(* moves accounts.json and auth.json to a target account under a durable   *)
(* journal, its rollback, the recovery of an interrupted one, and the      *)
(* runtime reload that turns files-agree into Confirmed.                   *)
(*                                                                         *)
(* A generation is the SHA-256 of a file's bytes, so the content itself    *)
(* stands for it.  tx is the process that holds the runtime-activation     *)
(* lease; everything else that writes the files is "outside": the Swift    *)
(* app (which respects the account-store lock), a Codex runtime refreshing *)
(* its token, a login by hand (which respect no lock).                     *)
(***************************************************************************)
EXTENDS Naturals, FiniteSets

CONSTANTS
  Accounts,      \* provider accounts of the pool
  Runtimes,      \* Codex processes that may be running on the host
  None,          \* the absent optional field
  MaxOutside,    \* bound: writes by others than the transaction
  MaxFaults,     \* bound: interruptions and failed commits
  MaxOps,        \* bound: operations begun, reconciliations and resolutions aside
  LateErrors,    \* activation kinds whose store commit may fail after its rename
  SwiftDegrades  \* may Swift switch the files without its runtimes following?

Kinds == {"Rotation", "Import"}

ASSUME AccountsAssumption == Accounts # {}
ASSUME BoundsAssumption == /\ MaxOutside \in Nat /\ MaxFaults \in Nat /\ MaxOps \in Nat
                           /\ LateErrors \subseteq Kinds /\ SwiftDegrades \in BOOLEAN

VARIABLES
  store,     \* accounts.json: who is active, each account's token, telemetry
  auth,      \* auth.json: one account's token; stamp tells byte generations apart
  journal,   \* accounts.activation.json
  loaded,    \* what each live runtime has read of auth.json, None if not running
  witness,   \* the account Swift's own journal confirms since our last record
  tx,        \* the operation in progress and its local variables
  outside,   \* how many outside writes so far; also the next fresh token
  faults,    \* how many interruptions and failed commits so far
  ops,       \* how many operations begun so far
  disturbed  \* history: an outside write since the files were last proved equal

vars == <<store, auth, journal, loaded, witness, tx, outside, faults, ops, disturbed>>
files == <<store, auth, journal>>
bounds == <<outside, faults, ops>>

Token == 0..MaxOutside
Telemetry == {0, 1}
Cred == [acct: Accounts, tok: Token]
Store == [active: Accounts, tok: [Accounts -> Token], obs: Telemetry]
Auth == [acct: Accounts, tok: Token, stamp: Token]
Image == [store: Store, auth: Auth]
States == {"Prepared", "Confirmed", "FileOnly", "CommittedDegraded",
           "RolledBack", "ManualReview"}
Journal == [state: States, kind: Kinds, target: Accounts, gen: Store,
            fp: Cred \cup {None}, base: Store \cup {None}, own: Store \cup {None},
            ownAuth: Auth \cup {None}, image: Image \cup {None}, mismatch: BOOLEAN]
ASSUME NoneAssumption == None \notin Cred \cup Store \cup Image \cup Journal

Fp(a) == [acct |-> a.acct, tok |-> a.tok]
CredOf(s, a) == [acct |-> a, tok |-> s.tok[a]]
ActiveFp(s) == CredOf(s, s.active)

(* auth_file_matches_account for the active account.                       *)
FilesAgree == Fp(auth) = ActiveFp(store)

(* A record without ownership or rollback evidence.                        *)
Clean(r) == r.base = None /\ r.own = None /\ r.ownAuth = None /\ r.image = None

Record(state, target, gen, fp) ==
  [state |-> state, kind |-> "Rotation", target |-> target, gen |-> gen, fp |-> fp,
   base |-> None, own |-> None, ownAuth |-> None, image |-> None, mismatch |-> FALSE]

(* activation_record_confirms_current: telemetry may drift, identity and   *)
(* tokens may not.                                                         *)
Confirms(r) == /\ r.state = "Confirmed" /\ Clean(r)
               /\ r.target = store.active /\ r.fp = ActiveFp(store)
ConfirmsCurrent == journal # None /\ Confirms(journal) /\ FilesAgree

Is(state) == journal # None /\ journal.state = state

Live == {r \in Runtimes : loaded[r] # None}

Idle == [pc |-> "idle", op |-> None, target |-> None, live |-> FALSE, new |-> None,
         image |-> None, ownStore |-> FALSE, ownAuth |-> None, prior |-> None,
         bind |-> None, pending |-> {}, acked |-> {}, ok |-> FALSE]
Unlocked == {"idle", "discover", "reload", "final", "publish"}  \* the store lock is free
StoreFree == tx.pc \in Unlocked

(* The fields only a pending activation carries are cleared with it.       *)
Settle(r) == [r EXCEPT !.base = None, !.own = None, !.ownAuth = None, !.image = None]

Ops == {"activate", "adopt", "reconcile", "import", "resolve", "telemetry"}
Pcs == {"idle", "adopt", "recover", "recoverAuth", "recoverEnd", "durable", "observe",
        "rebind", "prepare", "commitStore", "commitAuth", "owned", "verify", "bind", "discover",
        "reload", "final", "rollback", "rollbackAuth", "rollbackEnd", "preflight",
        "publish", "commitTelemetry", "settleTelemetry"}

(* Types; and a prepared record always carries what its recovery needs.    *)
TypeOK ==
  /\ store \in Store /\ auth \in Auth /\ journal \in Journal \cup {None}
  /\ Is("Prepared") => None \notin {journal.base, journal.own, journal.image}
  /\ loaded \in [Runtimes -> Cred \cup {None}]
  /\ witness \in Accounts \cup {None}
  /\ outside \in 0..MaxOutside /\ faults \in 0..MaxFaults /\ ops \in 0..MaxOps
  /\ disturbed \in BOOLEAN
  /\ tx \in [pc: Pcs, op: Ops \cup {None}, target: Accounts \cup {None}, live: BOOLEAN,
             new: Store \cup {None}, image: Image \cup {None}, ownStore: BOOLEAN,
             ownAuth: Auth \cup {None}, bind: Image \cup {None},
             prior: [record: Journal, witness: Accounts \cup {None}] \cup {None},
             pending: SUBSET Runtimes, acked: SUBSET Runtimes, ok: BOOLEAN]

(* A host at rest: files agree and the runtimes hold the active token; the *)
(* journal is absent (a fresh host) or confirms.                           *)
Init ==
  /\ store \in {s \in Store : s.tok = [a \in Accounts |-> 0] /\ s.obs = 0}
  /\ auth = [acct |-> store.active, tok |-> 0, stamp |-> 0]
  /\ loaded \in [Runtimes -> {None, ActiveFp(store)}]
  /\ journal \in {None, Record("Confirmed", store.active, store, ActiveFp(store))}
  /\ witness = None /\ tx = Idle /\ outside = 0 /\ faults = 0 /\ ops = 0
  /\ disturbed = FALSE

-----------------------------------------------------------------------------
(* Steps of the transaction.  Goto moves the program counter; End releases *)
(* the account-store lock and the lease; Fail is an error return, which    *)
(* leaves the files as they are.                                           *)

Goto(pc) == tx' = [tx EXCEPT !.pc = pc]
End == tx' = Idle
At(pc) == tx.pc = pc
Keep == UNCHANGED <<loaded, witness, bounds, disturbed>>

(* write_activation_record; a rewritten record is newer than any witness.  *)
Write(r) == journal' = r /\ witness' = None
KeepW == UNCHANGED <<loaded, bounds, disturbed>>

(* The files are proved equal: whatever others wrote before is accepted.   *)
Proved == disturbed' = FALSE

(* A caller takes the lease (try-lock: others fail with Busy) and the      *)
(* store lock, and loads its snapshot.                                     *)
Begin(op, target, live, new) ==
  /\ At("idle")
  /\ tx' = [Idle EXCEPT !.op = op, !.target = target, !.live = live, !.new = new,
              !.pc = CASE op = "adopt" -> "adopt"
                       [] op = "resolve" -> "bind"
                       [] op = "telemetry" -> "preflight"
                       [] OTHER -> "recover"]
  /\ IF op \in {"reconcile", "resolve"} THEN UNCHANGED ops ELSE ops < MaxOps /\ ops' = ops + 1
  /\ UNCHANGED <<files, loaded, witness, outside, faults, disturbed>>

(* Import replaces the account set: a new active account and new tokens.   *)
Replacement(a, b) == [store EXCEPT !.active = a, !.tok[b] = outside, !.obs = 0]

BeginSome ==
  \/ \E a \in Accounts, live \in BOOLEAN : Begin("activate", a, live, None)
  \/ \E a \in Accounts : Begin("adopt", a, TRUE, None)
  \/ \E live \in BOOLEAN : Begin("reconcile", None, live, None)
  \/ \E a \in Accounts, b \in Accounts : Begin("import", a, FALSE, Replacement(a, b))
  \/ Is("ManualReview") /\ Begin("resolve", None, TRUE, None)
  \/ Begin("telemetry", None, FALSE, None)

-----------------------------------------------------------------------------
(* recover_prepared_activation: an interrupted transaction is completed,   *)
(* undone, or left for manual review, by who owns which file now.          *)

StoreOwned == journal.own = store
AuthOwned(own) == own # None /\ own = auth
AuthPrevious(image) == image.auth = auth

NothingToRecover ==
  /\ At("recover") /\ ~Is("Prepared")
  /\ Goto("durable") /\ UNCHANGED files /\ Keep

RecoverCommitted ==
  /\ At("recover") /\ Is("Prepared")
  /\ StoreOwned /\ AuthOwned(journal.ownAuth) /\ journal.kind = "Rotation"
  /\ Write([journal EXCEPT !.state = "CommittedDegraded", !.gen = store])
  /\ Goto("durable") /\ UNCHANGED <<store, auth>> /\ KeepW

(* Mutant: the recovery puts the store back and forgets auth.json.         *)
RecoverRestoreStoreOnly ==
  /\ At("recover") /\ Is("Prepared")
  /\ StoreOwned /\ (AuthPrevious(journal.image) \/ AuthOwned(journal.ownAuth))
  /\ ~(AuthOwned(journal.ownAuth) /\ journal.kind = "Rotation")
  /\ store' = journal.image.store /\ Goto("recoverEnd")
  /\ UNCHANGED <<auth, journal>> /\ Keep

RecoverRestoreStore ==
  /\ At("recover") /\ Is("Prepared")
  /\ StoreOwned /\ (AuthPrevious(journal.image) \/ AuthOwned(journal.ownAuth))
  /\ ~(AuthOwned(journal.ownAuth) /\ journal.kind = "Rotation")
  /\ store' = journal.image.store
  /\ Goto(IF AuthOwned(journal.ownAuth) THEN "recoverAuth" ELSE "recoverEnd")
  /\ UNCHANGED <<auth, journal>> /\ Keep

(* Mutant: the restore trusts the ownership read before it.                *)
RestoreAuthUnchecked(owned, image, next) ==
  auth' = image.auth /\ Goto(next) /\ UNCHANGED <<store, journal>> /\ Keep

(* restore_auth_file_if_owned is a compare-and-swap against others.        *)
RestoreAuth(owned, image, next) ==
  /\ auth \in {owned, image.auth}
  /\ auth' = image.auth
  /\ Goto(next) /\ UNCHANGED <<store, journal>> /\ Keep

RecoverRestoreAuth ==
  At("recoverAuth") /\ RestoreAuth(journal.ownAuth, journal.image, "recoverEnd")

RecoverEnd ==
  /\ At("recoverEnd")
  /\ Write([journal EXCEPT !.state = "RolledBack", !.gen = store])
  /\ Goto("durable") /\ UNCHANGED <<store, auth>> /\ KeepW

(* Mutant: a store found unchanged proves that nothing was committed.      *)
RecoverOwnStoreUnread ==
  /\ At("recover") /\ Is("Prepared") /\ AuthPrevious(journal.image)
  /\ Write([journal EXCEPT !.state = "RolledBack", !.gen = store])
  /\ Goto("durable") /\ UNCHANGED <<store, auth>> /\ KeepW

RecoverUncommitted ==
  /\ At("recover") /\ Is("Prepared")
  /\ ~StoreOwned /\ store = journal.base /\ AuthPrevious(journal.image)
  /\ Write([journal EXCEPT !.state = "RolledBack", !.gen = store])
  /\ Goto("durable") /\ UNCHANGED <<store, auth>> /\ KeepW

(* Mutant: the ambiguity is reported and not recorded.                     *)
RecoverAmbiguousUnrecorded ==
  /\ At("recover") /\ Is("Prepared")
  /\ ~(StoreOwned /\ (AuthPrevious(journal.image) \/ AuthOwned(journal.ownAuth)))
  /\ ~(store = journal.base /\ AuthPrevious(journal.image))
  /\ End /\ UNCHANGED files /\ Keep

RecoverAmbiguous ==
  /\ At("recover") /\ Is("Prepared")
  /\ ~(StoreOwned /\ (AuthPrevious(journal.image) \/ AuthOwned(journal.ownAuth)))
  /\ ~(store = journal.base /\ AuthPrevious(journal.image))
  /\ Write([journal EXCEPT !.state = "ManualReview", !.gen = store])
  /\ End /\ UNCHANGED <<store, auth>> /\ KeepW

-----------------------------------------------------------------------------
(* reconcile_durable_activation_record_with: what a settled or pending     *)
(* record means for the operation that found it.                           *)

AfterBarrier == IF tx.op = "reconcile" THEN End ELSE Goto("prepare")

DurableClear ==
  /\ At("durable")
  /\ \/ journal = None
     \/ Is("RolledBack")
     \/ ConfirmsCurrent
  /\ AfterBarrier /\ UNCHANGED files /\ Keep

TransitionValid ==
  /\ Is("Confirmed") /\ journal.base # None /\ journal.own # None
  /\ journal.gen = journal.base /\ journal.base # journal.own
  /\ journal.ownAuth = None /\ journal.image = None
  /\ journal.target = store.active /\ journal.fp = ActiveFp(store) /\ FilesAgree
  /\ store \in {journal.base, journal.own}

(* reconcile_confirmed_generation_transition, also run by the preflight    *)
FinishTransition ==
  /\ At("durable") \/ At("preflight")
  /\ TransitionValid
  /\ journal' = Settle([journal EXCEPT !.gen = store])
  /\ UNCHANGED <<store, auth, tx>> /\ Keep

(* reconcile_legacy_token_refresh_manual_review                            *)
MismatchHealed == /\ Is("ManualReview")
                  /\ journal.kind = "Rotation" /\ journal.mismatch /\ FilesAgree
HealMismatch ==
  /\ At("durable") /\ MismatchHealed
  /\ Write([journal EXCEPT !.state = "CommittedDegraded", !.target = store.active,
              !.gen = store, !.fp = ActiveFp(store), !.mismatch = FALSE])
  /\ UNCHANGED <<store, auth, tx>> /\ KeepW

Stale == Is("Confirmed") /\ ~ConfirmsCurrent

(* The same target with refreshed tokens, or one Swift confirmed since.    *)
Repairable == /\ Stale /\ Clean(journal) /\ FilesAgree
              /\ store.active \in {journal.target, witness}
RepairConfirmed ==
  /\ At("durable") /\ Repairable
  /\ Write([journal EXCEPT !.state = "CommittedDegraded", !.target = store.active,
              !.gen = store, !.fp = ActiveFp(store),
              !.kind = IF store.active = journal.target THEN @ ELSE "Rotation"])
  /\ Goto("observe") /\ UNCHANGED <<store, auth>> /\ KeepW

DurableBlocked ==
  /\ At("durable")
  /\ \/ Is("ManualReview") /\ ~MismatchHealed
     \/ Stale /\ ~Repairable /\ ~TransitionValid
  /\ End /\ UNCHANGED files /\ Keep

Pending == Is("FileOnly") \/ Is("CommittedDegraded")

DurablePending ==
  /\ At("durable") /\ Pending
  /\ Goto("observe") /\ UNCHANGED files /\ Keep

(* resume_committed_degraded                                               *)
ResumeMatches == store.active = journal.target /\ FilesAgree

ResumeMismatch ==
  /\ At("observe") /\ ~ResumeMatches
  /\ Write([journal EXCEPT !.state = "ManualReview", !.gen = store, !.mismatch = TRUE])
  /\ End /\ UNCHANGED <<store, auth>> /\ KeepW

(* The caller's snapshot may carry fresh telemetry.                        *)
ResumeObserve ==
  /\ At("observe") /\ ResumeMatches
  /\ \E o \in Telemetry : store' = [store EXCEPT !.obs = o]
  /\ Goto("rebind") /\ UNCHANGED <<auth, journal>> /\ Keep

(* Mutant: with reload disabled a pending record is no barrier.            *)
ResumeRebindWaived ==
  /\ At("rebind")
  /\ Write([journal EXCEPT !.gen = store, !.fp = ActiveFp(store)])
  /\ IF tx.live THEN Goto("bind") ELSE AfterBarrier
  /\ UNCHANGED <<store, auth>> /\ KeepW

(* Mutant: the generation the resume itself wrote is not rebound.          *)
ResumeRebindStale ==
  /\ At("rebind")
  /\ Write([journal EXCEPT !.fp = ActiveFp(store)])
  /\ IF tx.live THEN Goto("bind") ELSE End
  /\ UNCHANGED <<store, auth>> /\ KeepW

ResumeRebind ==
  /\ At("rebind")
  /\ Write([journal EXCEPT !.gen = store, !.fp = ActiveFp(store)])
  /\ IF tx.live THEN Goto("bind") ELSE End
  /\ UNCHANGED <<store, auth>> /\ KeepW

-----------------------------------------------------------------------------
(* prepare_validated_remote_authority_adoption: the pool authority has     *)
(* chosen the target, which lets it past a barrier it can account for.     *)

AdoptableDegraded ==
  /\ Is("CommittedDegraded") /\ journal.kind = "Rotation" /\ Clean(journal)
  /\ store.active = tx.target /\ FilesAgree
  /\ journal.fp = CredOf(store, journal.target)
AdoptableStale == /\ Is("Confirmed") /\ ~Confirms(journal) /\ Clean(journal) /\ FilesAgree
                  /\ journal.target = tx.target

AdoptPlain ==
  /\ At("adopt")
  /\ \/ ~Is("Confirmed") /\ ~Is("CommittedDegraded")
     \/ Is("Confirmed") /\ Confirms(journal)
     \/ AdoptableStale /\ tx.target = store.active
  /\ Goto("recover") /\ UNCHANGED files /\ Keep

AdoptDegraded ==
  /\ At("adopt") /\ AdoptableDegraded
  /\ IF journal.target = tx.target
       THEN Write([journal EXCEPT !.gen = store])
       ELSE Write(Record("CommittedDegraded", tx.target, store, ActiveFp(store)))
  /\ Goto("recover") /\ UNCHANGED <<store, auth>> /\ KeepW

AdoptStale ==
  /\ At("adopt") /\ AdoptableStale
  /\ tx.target # store.active /\ journal.fp = CredOf(store, tx.target)
  /\ tx' = [tx EXCEPT !.pc = "prepare",
              !.prior = [record |-> journal, witness |-> witness]]
  /\ UNCHANGED files /\ Keep

AdoptRefused ==
  /\ At("adopt")
  /\ \/ Is("CommittedDegraded") /\ ~AdoptableDegraded
     \/ /\ Is("Confirmed") /\ ~Confirms(journal)
        /\ ~(AdoptableStale /\ (tx.target = store.active
                                  \/ journal.fp = CredOf(store, tx.target)))
  /\ End /\ UNCHANGED files /\ Keep

-----------------------------------------------------------------------------
(* The transaction proper.                                                 *)

Kind == IF tx.op = "import" THEN "Import" ELSE "Rotation"

(* The rollback image is captured and made durable before any mutation.    *)
Prepare ==
  /\ At("prepare")
  /\ LET image == [store |-> store, auth |-> auth]
         new   == IF tx.op = "import" THEN tx.new ELSE [store EXCEPT !.active = tx.target]
     IN /\ tx' = [tx EXCEPT !.pc = "commitStore", !.new = new, !.image = image]
        /\ Write([Record("Prepared", tx.target, store, CredOf(new, tx.target)) EXCEPT
                    !.kind = Kind, !.base = store, !.own = new, !.image = image])
  /\ UNCHANGED <<store, auth>> /\ KeepW

CommitStore ==
  /\ At("commitStore")
  /\ store' = tx.new
  /\ tx' = [tx EXCEPT !.pc = "commitAuth", !.ownStore = TRUE]
  /\ UNCHANGED <<auth, journal>> /\ Keep

Fault == faults < MaxFaults /\ faults' = faults + 1 /\ UNCHANGED <<outside, ops, loaded, disturbed>>

(* A rotation proves what happened before it decides; an import records    *)
(* RolledBack at once.                                                     *)
CommitStoreFails ==
  /\ At("commitStore") /\ Fault
  /\ store' \in {store} \cup (IF Kind \in LateErrors THEN {tx.new} ELSE {})
  /\ IF Kind = "Rotation"
       THEN Goto("rollback") /\ UNCHANGED <<journal, witness>>
       ELSE /\ Write([Record("RolledBack", tx.target, tx.image.store, None) EXCEPT
                        !.image = tx.image])
            /\ End
  /\ UNCHANGED auth

(* commit_auth_file writes nothing when the file already holds the tokens. *)
Written(c) == [acct |-> c.acct, tok |-> c.tok, stamp |-> 0]
AuthToCommit == LET c == CredOf(tx.new, tx.target)
                IN IF Fp(auth) = c THEN auth ELSE Written(c)

CommitAuth ==
  /\ At("commitAuth")
  /\ auth' = AuthToCommit
  /\ tx' = [tx EXCEPT !.pc = "owned", !.ownAuth = AuthToCommit]
  /\ UNCHANGED <<store, journal>> /\ Keep

(* The error may come before or after the file changed.                    *)
CommitAuthFails ==
  /\ At("commitAuth") /\ Fault
  /\ auth' \in {auth, AuthToCommit}
  /\ Goto("rollback") /\ UNCHANGED <<store, journal, witness>>

(* Mutant: the record that takes the auth ownership is built afresh.       *)
RecordOwnedAfresh ==
  /\ At("owned")
  /\ Write([Record("Prepared", tx.target, store, ActiveFp(store)) EXCEPT !.ownAuth = tx.ownAuth])
  /\ Goto("verify") /\ UNCHANGED <<store, auth>> /\ KeepW

RecordOwned ==
  /\ At("owned")
  /\ Write([journal EXCEPT !.ownAuth = tx.ownAuth])
  /\ Goto("verify") /\ UNCHANGED <<store, auth>> /\ KeepW

RecordOwnedFails ==
  /\ At("owned") /\ Fault
  /\ Goto("rollback") /\ UNCHANGED <<files, witness>>

(* verify_committed_activation, then the record of a file-only activation. *)
Verified == store = tx.new /\ Fp(auth) = CredOf(tx.new, tx.target)

Verify ==
  /\ At("verify") /\ Verified
  /\ Write(IF Kind = "Import"
             THEN [journal EXCEPT !.state = "FileOnly", !.gen = store]
             ELSE Record("FileOnly", tx.target, store, CredOf(store, tx.target)))
  /\ IF tx.live THEN Goto("bind") ELSE End
  /\ Proved /\ UNCHANGED <<store, auth, loaded, bounds>>

VerifyFails ==
  /\ At("verify") /\ ~Verified
  /\ Goto("rollback") /\ UNCHANGED files /\ Keep

-----------------------------------------------------------------------------
(* rollback_after_commit_failure and rollback_replacement_activation       *)

StoreMine == tx.ownStore /\ store = tx.new
(* Mutant: an auth commit that failed is taken to have changed nothing.    *)
OwnershipOfStore == StoreMine \/ store = tx.image.store

OwnershipProven ==
  LET previous == store = tx.image.store
      authKnown == AuthOwned(tx.ownAuth) \/ AuthPrevious(tx.image)
  IN CASE Kind = "Import" -> StoreMine /\ authKnown
       [] tx.ownStore     -> (StoreMine \/ previous) /\ authKnown
       [] OTHER           -> previous /\ AuthPrevious(tx.image)

RollbackStore ==
  /\ At("rollback") /\ OwnershipProven
  /\ store' = IF StoreMine THEN tx.image.store ELSE store
  /\ Goto(IF AuthOwned(tx.ownAuth) THEN "rollbackAuth" ELSE "rollbackEnd")
  /\ UNCHANGED <<auth, journal>> /\ Keep

RollbackUnproven ==
  /\ At("rollback") /\ ~OwnershipProven
  /\ Write([Record("ManualReview", tx.target, store,
                   IF Kind = "Import" THEN CredOf(tx.new, tx.target) ELSE None) EXCEPT
              !.image = tx.image, !.ownAuth = tx.ownAuth,
              !.own = IF tx.ownStore THEN tx.new ELSE None])
  /\ End /\ UNCHANGED <<store, auth>> /\ KeepW

RollbackAuth == At("rollbackAuth") /\ RestoreAuth(tx.ownAuth, tx.image, "rollbackEnd")

(* An adopted target's earlier record comes back with its old timestamp,   *)
(* and so does the witness that was newer than it.                         *)
RollbackEnd ==
  /\ At("rollbackEnd")
  /\ IF tx.prior # None
       THEN journal' = tx.prior.record /\ witness' = tx.prior.witness
       ELSE Write(Record("RolledBack", tx.target, store, None))
  /\ End /\ UNCHANGED <<store, auth>> /\ KeepW

(* The compare-and-swap of a restore found another writer's bytes.         *)
RestoreLost ==
  /\ \/ At("recoverAuth")  /\ auth \notin {journal.ownAuth, journal.image.auth}
     \/ At("rollbackAuth") /\ auth \notin {tx.ownAuth, tx.image.auth}
  /\ End /\ UNCHANGED files /\ Keep

-----------------------------------------------------------------------------
(* The runtime reload: bound to one store and auth generation, run with    *)
(* the store lock released, and compared again before it is recorded.      *)

PendingIdentity ==
  /\ journal # None
  /\ \/ tx.op # "resolve" /\ Pending /\ journal.fp = ActiveFp(store)
     \/ tx.op = "resolve" /\ journal.state = "ManualReview"
  /\ journal.gen = store /\ journal.target = store.active /\ FilesAgree

Bind ==
  /\ At("bind") /\ PendingIdentity
  /\ tx' = [tx EXCEPT !.pc = "discover", !.bind = [store |-> store, auth |-> auth]]
  /\ UNCHANGED files /\ Keep

BindRefused == At("bind") /\ ~PendingIdentity /\ End /\ UNCHANGED files /\ Keep

Discover ==
  /\ At("discover")
  /\ tx' = [tx EXCEPT !.pc = "reload", !.pending = Live]
  /\ UNCHANGED files /\ Keep

(* SIGHUP: the runtime reads auth.json again, and its acknowledgement names *)
(* the generation it read.                                                 *)
ReloadRuntime(r) ==
  /\ At("reload") /\ r \in tx.pending \cap Live
  /\ loaded' = [loaded EXCEPT ![r] = Fp(auth)]
  /\ tx' = [tx EXCEPT !.pending = @ \ {r},
              !.acked = IF auth = tx.bind.auth THEN @ \cup {r} ELSE @]
  /\ UNCHANGED <<files, witness, bounds, disturbed>>

(* Mutant: the acknowledgements received are not held against the          *)
(* runtimes discovered.                                                    *)
AcknowledgedBySome == tx.acked \subseteq Live /\ auth = tx.bind.auth

Acknowledged == tx.pending = {} /\ tx.acked = Live /\ auth = tx.bind.auth

ReloadDone ==
  /\ At("reload") /\ Acknowledged
  /\ tx' = [tx EXCEPT !.pc = "final", !.ok = TRUE]
  /\ UNCHANGED files /\ Keep

(* Every runtime answered and something does not fit, or one is gone.      *)
ReloadFails ==
  /\ At("reload")
  /\ \/ tx.pending = {} /\ ~Acknowledged
     \/ \E r \in tx.pending : r \notin Live
  /\ Goto("final") /\ UNCHANGED files /\ Keep

ReloadTimesOut == At("reload") /\ Fault /\ Goto("final") /\ UNCHANGED <<files, witness>>

Unchanged == PendingIdentity /\ tx.bind = [store |-> store, auth |-> auth]

FinalizeConfirmed ==
  /\ At("final") /\ tx.ok /\ Unchanged
  /\ Write(Settle([journal EXCEPT !.state = "Confirmed", !.gen = store,
              !.fp = ActiveFp(store), !.mismatch = FALSE]))
  /\ End /\ Proved /\ UNCHANGED <<store, auth, loaded, bounds>>

FinalizeDegraded ==
  /\ At("final") /\ ~tx.ok /\ tx.op # "resolve" /\ Unchanged
  /\ Write([journal EXCEPT !.state = "CommittedDegraded", !.gen = store, !.fp = ActiveFp(store)])
  /\ End /\ UNCHANGED <<store, auth>> /\ KeepW

FinalizeRefused ==
  /\ At("final") /\ (~Unchanged \/ (~tx.ok /\ tx.op = "resolve"))
  /\ End /\ UNCHANGED files /\ Keep

-----------------------------------------------------------------------------
(* preflight_provider_io_activation guards the store generation; provider  *)
(* I/O runs unlocked; commit_accounts_from_confirmed_record_with saves what *)
(* it observed through a base-to-own generation transition.                *)

Preflight ==
  /\ At("preflight") /\ ConfirmsCurrent
  /\ tx' = [tx EXCEPT !.pc = "publish", !.image = [store |-> store, auth |-> auth]]
  /\ UNCHANGED files /\ Keep

PreflightRefused ==
  /\ At("preflight") /\ ~ConfirmsCurrent /\ ~TransitionValid
  /\ End /\ UNCHANGED files /\ Keep

GuardHolds == ConfirmsCurrent /\ store = tx.image.store

Publish ==
  /\ At("publish") /\ GuardHolds
  /\ LET new == [store EXCEPT !.obs = 1 - @]
     IN /\ journal' = [journal EXCEPT !.base = store, !.own = new]
        /\ tx' = [tx EXCEPT !.pc = "commitTelemetry", !.new = new]
  /\ UNCHANGED <<store, auth>> /\ Keep

PublishRefused ==
  At("publish") /\ ~GuardHolds /\ End /\ UNCHANGED files /\ Keep

CommitTelemetry ==
  /\ At("commitTelemetry")
  /\ store' = tx.new /\ Goto("settleTelemetry")
  /\ UNCHANGED <<auth, journal>> /\ Keep

SettleTelemetry ==
  /\ At("settleTelemetry")
  /\ journal' = Settle([journal EXCEPT !.gen = tx.new])
  /\ End /\ UNCHANGED <<store, auth>> /\ Keep

-----------------------------------------------------------------------------
(* A crash, a kill, or any error the code returns without handling.        *)
Interrupt == ~At("idle") /\ Fault /\ End /\ UNCHANGED <<files, witness>>

(* Writers that are not the transaction.  A token they write is fresh.     *)
Outside ==
  /\ outside < MaxOutside /\ outside' = outside + 1 /\ disturbed' = TRUE
  /\ UNCHANGED <<journal, tx, faults, ops>>
Fresh(a) == [acct |-> a, tok |-> outside + 1]
Stamped(c) == [acct |-> c.acct, tok |-> c.tok, stamp |-> outside + 1]

RuntimeRefresh(r) ==
  /\ Outside /\ r \in Live
  /\ loaded' = [loaded EXCEPT ![r] = Fresh(loaded[r].acct)]
  /\ auth' = Stamped(loaded'[r]) /\ UNCHANGED <<store, witness>>

AuthTouch == Outside /\ auth' = Stamped(auth) /\ UNCHANGED <<store, loaded, witness>>

Login(a) == Outside /\ auth' = Stamped(Fresh(a)) /\ UNCHANGED <<store, loaded, witness>>

(* The Swift app saves its observations, or an inactive account's token.   *)
SwiftSaves ==
  /\ Outside /\ StoreFree
  /\ store' \in {[store EXCEPT !.obs = 1 - @]} \cup
                {[store EXCEPT !.tok[a] = outside + 1] : a \in Accounts \ {store.active}}
  /\ UNCHANGED <<auth, loaded, witness>>

(* Swift takes the active token it found in auth.json into the store.      *)
SwiftRebases ==
  /\ Outside /\ At("idle") /\ auth.acct = store.active
  /\ store' = [store EXCEPT !.tok[auth.acct] = auth.tok]
  /\ witness' = None /\ UNCHANGED <<auth, loaded>>

(* A whole activation by Swift, under the same cross-process lease.        *)
SwiftActivation(a, converged) ==
  /\ Outside /\ At("idle") /\ (converged \/ SwiftDegrades)
  /\ store' = [store EXCEPT !.active = a]
  /\ auth' = Stamped(CredOf(store, a))
  /\ IF converged
       THEN loaded' = [r \in Runtimes |-> IF r \in Live THEN CredOf(store, a) ELSE None]
              /\ witness' = IF Live # {} THEN a ELSE None
       ELSE witness' = None /\ UNCHANGED loaded

RuntimeStart(r) ==
  /\ Outside /\ r \notin Live /\ loaded' = [loaded EXCEPT ![r] = Fp(auth)]
  /\ UNCHANGED <<store, auth, witness>>

RuntimeExit(r) ==
  /\ Outside /\ r \in Live /\ loaded' = [loaded EXCEPT ![r] = None]
  /\ UNCHANGED <<store, auth, witness>>

-----------------------------------------------------------------------------
Recover == \/ NothingToRecover \/ RecoverCommitted \/ RecoverRestoreStore
           \/ RecoverRestoreAuth \/ RecoverEnd \/ RecoverUncommitted \/ RecoverAmbiguous
Durable == \/ DurableClear \/ FinishTransition \/ HealMismatch \/ RepairConfirmed
           \/ DurableBlocked \/ DurablePending \/ ResumeMismatch \/ ResumeObserve \/ ResumeRebind
Adopt == AdoptPlain \/ AdoptDegraded \/ AdoptStale \/ AdoptRefused
Commit == \/ Prepare \/ CommitStore \/ CommitStoreFails \/ CommitAuth \/ CommitAuthFails
          \/ RecordOwned \/ RecordOwnedFails \/ Verify \/ VerifyFails
Rollback == RollbackStore \/ RollbackUnproven \/ RollbackAuth \/ RollbackEnd \/ RestoreLost
Reload == \/ Bind \/ BindRefused \/ Discover \/ (\E r \in Runtimes : ReloadRuntime(r))
          \/ ReloadDone \/ ReloadFails \/ ReloadTimesOut
          \/ FinalizeConfirmed \/ FinalizeDegraded \/ FinalizeRefused
TelemetryCommit == Preflight \/ PreflightRefused \/ Publish \/ PublishRefused \/ CommitTelemetry \/ SettleTelemetry
Others == \/ \E r \in Runtimes : RuntimeRefresh(r) \/ RuntimeStart(r) \/ RuntimeExit(r)
          \/ AuthTouch \/ SwiftSaves \/ SwiftRebases
          \/ \E a \in Accounts : Login(a) \/ \E c \in BOOLEAN : SwiftActivation(a, c)

Step == Recover \/ Durable \/ Adopt \/ Commit \/ Rollback \/ Reload \/ TelemetryCommit
Next == BeginSome \/ Step \/ Interrupt \/ Others

Spec == Init /\ [][Next]_vars

(* The daemon reconciles on every cycle with reload enabled, and a running *)
(* transaction keeps running; a reload answers in the end.                 *)
LiveSpec == /\ Spec
            /\ WF_vars(Step)
            /\ SF_vars(Begin("reconcile", None, TRUE, None))

-----------------------------------------------------------------------------
(* Properties.                                                             *)

(* A Confirmed record that the code accepts as current is the truth about  *)
(* the processes: every live runtime holds the active account's token.     *)
RuntimeCurrent == ConfirmsCurrent => \A r \in Live : loaded[r] = ActiveFp(store)

(* Between operations, files that disagree are always behind a record that *)
(* stops the next activation, unless somebody else has written since.      *)
NoUnguardedSplit ==
  At("idle") /\ ~disturbed /\ ~FilesAgree => Is("Prepared") \/ Is("ManualReview")

(* How a prepared activation may end.  Committed: both files are its own.  *)
(* Abandoned: the store is back, and auth.json too unless an outsider's    *)
(* bytes (stamped) are in it.                                              *)
PreparedOutcome ==
  [][Is("Prepared") /\ journal' # journal =>
       /\ journal'.state \in {"FileOnly", "CommittedDegraded"} =>
            store' = journal.own /\ Fp(auth') = ActiveFp(store')
       /\ journal'.state \in {"RolledBack", "Confirmed"} =>
            /\ store' = journal.image.store
            /\ auth' = journal.image.auth \/ auth'.stamp # 0]_vars

(* Undoing an activation never destroys a token somebody else wrote to     *)
(* auth.json while it ran.                                                 *)
ForeignTokenSurvives ==
  [][(At("recoverAuth") \/ At("rollbackAuth")) /\ outside' = outside /\ Fp(auth') # Fp(auth)
       => auth.stamp = 0]_vars

(* A new activation is prepared only on a host that is settled: one that   *)
(* is prepared, pending, in review, or halfway through a saved             *)
(* observation is never overwritten, by whoever asks.                      *)
NoActivationOverUnresolved ==
  [][~Is("Prepared") /\ journal' # None /\ journal'.state = "Prepared" =>
       journal = None \/ Is("RolledBack") \/ (Is("Confirmed") /\ Clean(journal))]_vars

(* An interrupted activation does not stay prepared: it is recovered, or   *)
(* recorded for review.  A file-only or degraded one is confirmed in the   *)
(* end, or another state takes its place: with reload enabled none stays   *)
(* pending.  (reconcile_activation_barrier)                                *)
Resolves == (Is("Prepared") ~> ~Is("Prepared")) /\ (Pending ~> ~Pending)
=============================================================================
