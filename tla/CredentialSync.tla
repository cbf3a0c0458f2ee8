--------------------------- MODULE CredentialSync ---------------------------
(***************************************************************************)
(* The replication of account credentials between the Mac and the VPS.     *)
(* The two hosts hold copies of the same single-use refresh chains.  In    *)
(* one direction the Mac reads the generations of the VPS and adopts newer *)
(* ones (a convergence round); in the other it sends its whole pool        *)
(* through SSH to an importer, which merges it into the VPS store and      *)
(* leaves a receipt.  The Mac keeps a journal of its one outstanding       *)
(* import, and reconciles it by reading only.                              *)
(*                                                                         *)
(* A generation of a chain is a number: the later expiry is the larger.    *)
(* Two different tokens with the same expiry and issue time, on which the  *)
(* importer gives up, are left out.  A fingerprint of a credential set is  *)
(* the set itself.  The pool's active account is fixed; the Mac commits a  *)
(* token of it through its activation transaction, one step here.          *)
(***************************************************************************)
EXTENDS Integers, FiniteSets

CONSTANTS
    Accounts,
    Active,        \* the account both hosts serve
    MaxOps,        \* bound: imports the Mac begins
    MaxRefreshes,  \* bound: refreshes and logins
    MaxRuntime,    \* bound: those by a runtime of the VPS, into auth.json
    MaxLosses,     \* bound: lost answers, failed calls and killed importers
    MaxCrashes     \* bound: crashes of the Mac app

ASSUME ActiveAssumption == Active \in Accounts
ASSUME BoundsAssumption ==
    /\ MaxOps \in Nat \ {0}
    /\ {MaxRefreshes, MaxRuntime, MaxLosses, MaxCrashes} \subseteq Nat

VARIABLES
    mac,      \* the Mac's accounts: the generation of each chain
    store,    \* accounts.json of the VPS
    auth,     \* the generation of the active account in the VPS's auth.json
    minted,   \* the newest generation the provider issued
    journal,  \* linux-devbox-credential-sync.json on the Mac
    aged,     \* whether the journaled operation is 24 hours old
    hold,     \* the hold recorded in the Mac's defaults
    synced,   \* the last synchronised credential set in the Mac's defaults
    proof,    \* the convergence proof in the Mac's defaults
    sync,     \* the Mac's synchronisation task
    recovery, \* the Mac's receipt-recovery task
    round,    \* the Mac's convergence round
    stages,   \* the operations whose staging directory is on the VPS
    importer, \* the import command of each operation on the VPS
    ledger,   \* the receipt ledger of the VPS
    nextOp, refreshes, runtimes, losses, crashes

defaults == <<hold, synced, proof>>
chains == <<mac, store, auth, minted, refreshes, runtimes>>
imports == <<stages, importer, ledger>>
bounds == <<nextOp, losses, crashes>>
vars == <<mac, store, auth, minted, journal, aged, hold, synced, proof, sync, recovery, round,
          stages, importer, ledger, nextOp, refreshes, runtimes, losses, crashes>>

Ops == 1..MaxOps
MaxGeneration == 1 + MaxRefreshes
Generations == 1..MaxGeneration
Pools == [Accounts -> Generations]
None == "none"
NoPool == [a \in {} |-> 0]
NoOp == [id |-> 0]
NoProof == [incoming |-> NoPool, committed |-> NoPool]

Proofs == [incoming : Pools, committed : Pools]
Operations == [id : Ops, base : Pools, incoming : Pools, phase : {"pending", "unresolved"},
               receipt : Pools \cup {NoPool}]
Dispositions == {"success", "retryable", "rejected", "outcomeUnknown", "cleanupUnresolved"}
Imports == [pc : {"none", "waiting", "prepared", "committed", "ok", "failed"},
            base : Pools \cup {NoPool}, incoming : Pools \cup {NoPool}]
Receipts == [state : {"missing", "pending", "completed"}, receipt : Pools \cup {NoPool}]

(***************************************************************************)
(* The one invariant about types.  A sync task past its journal entry has  *)
(* one, and a recovery works on the operation the journal holds.           *)
(***************************************************************************)
TypeOK ==
    /\ {mac, store, minted} \subseteq Pools
    /\ auth \in Generations
    /\ journal \in Operations \cup {NoOp}
    /\ {aged, hold} \subseteq BOOLEAN
    /\ synced \in Pools \cup {NoPool}
    /\ proof \in Proofs \cup {NoProof}
    /\ sync \in [pc : {"idle", "capture", "deliver", "import", "await", "verify", "settle", "finish"},
                 snapshot : Pools \cup {NoPool}, disposition : Dispositions \cup {None},
                 receipt : Pools \cup {NoPool}]
    /\ recovery \in [pc : {"idle", "stage", "status", "probe", "retire", "clear"},
                     status : {"missing", "pending", "completed", None}]
    /\ round \in [pc : {"idle", "adopt"}, newest : Pools \cup {NoPool}, adoptions : SUBSET Accounts,
                  original : Pools \cup {NoPool}, push : BOOLEAN]
    /\ stages \subseteq Ops
    /\ importer \in [Ops -> Imports]
    /\ ledger \in [Ops -> Receipts]
    /\ nextOp \in 1..(MaxOps + 1)
    /\ refreshes \in 0..MaxRefreshes /\ runtimes \in 0..MaxRuntime
    /\ losses \in 0..MaxLosses /\ crashes \in 0..MaxCrashes
    /\ sync.pc \in {"deliver", "import", "await", "verify", "settle"} => journal # NoOp
    /\ recovery.pc \notin {"idle", "clear"} => journal # NoOp /\ sync.pc = "idle"

IdleSync == [pc |-> "idle", snapshot |-> NoPool, disposition |-> None, receipt |-> NoPool]
IdleRecovery == [pc |-> "idle", status |-> None]
IdleRound == [pc |-> "idle", newest |-> NoPool, adoptions |-> {}, original |-> NoPool, push |-> FALSE]
NoImport == [pc |-> "none", base |-> NoPool, incoming |-> NoPool]

Init ==
    /\ mac = [a \in Accounts |-> 1] /\ store = mac /\ minted = mac /\ auth = 1
    /\ journal = NoOp /\ aged = FALSE
    /\ hold = FALSE /\ synced = NoPool /\ proof = NoProof
    /\ sync = IdleSync /\ recovery = IdleRecovery /\ round = IdleRound
    /\ stages = {} /\ importer = [i \in Ops |-> NoImport]
    /\ ledger = [i \in Ops |-> [state |-> "missing", receipt |-> NoPool]]
    /\ nextOp = 1 /\ refreshes = 0 /\ runtimes = 0 /\ losses = 0 /\ crashes = 0

Lose == losses < MaxLosses /\ losses' = losses + 1
Lossless == UNCHANGED losses
Later(g, h) == IF g > h THEN g ELSE h

-----------------------------------------------------------------------------
(* Refreshes.  A refresh token works once: only a holder of the newest     *)
(* generation of a chain can refresh it.                                   *)

Mint(a) == minted' = [minted EXCEPT ![a] = @ + 1]

(* The runtime lease of the VPS is held by the importer that is past it.   *)
LeaseFree == \A i \in Ops : importer[i].pc \notin {"prepared", "committed"}

(* What every writer of the VPS requires before it starts: the confirmed   *)
(* activation is for the generation that is in the store and in auth.json. *)
BarrierHolds == auth = store[Active]

(* A poll that finds an expired token adopts first (a round) and refreshes *)
(* if that did not help; a login gets a new chain whatever the Mac held.   *)
MacRenew(a) ==
    /\ refreshes < MaxRefreshes
    /\ Mint(a) /\ mac' = [mac EXCEPT ![a] = minted'[a]] /\ refreshes' = refreshes + 1
    /\ UNCHANGED <<store, auth, runtimes, journal, aged, defaults, sync, recovery, round, imports, bounds>>

(* The daemon persists a refreshed token; that of the active account also  *)
(* through the activation to auth.json.                                    *)
DaemonRefresh(a) ==
    /\ LeaseFree /\ BarrierHolds /\ refreshes < MaxRefreshes /\ store[a] = minted[a]
    /\ Mint(a) /\ store' = [store EXCEPT ![a] = @ + 1] /\ refreshes' = refreshes + 1
    /\ auth' = store'[Active]
    /\ UNCHANGED <<mac, runtimes, journal, aged, defaults, sync, recovery, round, imports, bounds>>

(* A runtime of the VPS refreshes the token it runs with into auth.json    *)
(* and takes no lease.                                                     *)
RuntimeRefresh ==
    /\ runtimes < MaxRuntime /\ refreshes < MaxRefreshes /\ auth = minted[Active]
    /\ Mint(Active) /\ auth' = auth + 1
    /\ runtimes' = runtimes + 1 /\ refreshes' = refreshes + 1
    /\ UNCHANGED <<mac, store, journal, aged, defaults, sync, recovery, round, imports, bounds>>

-----------------------------------------------------------------------------
(* Scheduling.  Every request for a synchronisation takes the same path: a *)
(* journaled operation is reconciled first, a hold without one waits for   *)
(* an operator, and an unchanged pool is sent again only on fresh evidence *)
(* that the VPS diverged.                                                  *)

(* A request that starts whatever else is in flight.                       *)
ScheduledUnguarded(fresh, pool, held) ==
    IF journal # NoOp THEN recovery' = [IdleRecovery EXCEPT !.pc = "stage"] /\ UNCHANGED sync
    ELSE IF held \/ (~fresh /\ synced = pool) THEN UNCHANGED sync /\ recovery' = IdleRecovery
    ELSE sync' = [IdleSync EXCEPT !.pc = "capture", !.snapshot = pool] /\ recovery' = IdleRecovery

Scheduled(fresh, pool, held) ==
    IF sync.pc # "idle" \/ recovery.pc \notin {"idle", "clear"} THEN UNCHANGED <<sync, recovery>>
    ELSE IF journal # NoOp THEN /\ recovery' = [IdleRecovery EXCEPT !.pc = "stage"]
                                /\ UNCHANGED sync
    ELSE IF held \/ (~fresh /\ synced = pool)
         THEN UNCHANGED sync /\ recovery' = IdleRecovery
    ELSE sync' = [IdleSync EXCEPT !.pc = "capture", !.snapshot = pool] /\ recovery' = IdleRecovery

(* A timer or an event of the app asks for a synchronisation.              *)
Schedule ==
    /\ sync.pc = "idle" /\ recovery.pc = "idle"
    /\ Scheduled(FALSE, mac, hold)
    /\ UNCHANGED <<chains, journal, aged, defaults, round, imports, bounds>>

-----------------------------------------------------------------------------
(* The synchronisation task.                                               *)

SyncEnds(disposition, receipt) ==
    sync' = [sync EXCEPT !.pc = "finish", !.disposition = disposition, !.receipt = receipt]
SyncSettles(disposition) == sync' = [sync EXCEPT !.pc = "settle", !.disposition = disposition]
SyncGoes(pc) == sync' = [sync EXCEPT !.pc = pc]

(* The evidence the Mac captures: the VPS has exactly this pool, and its   *)
(* auth.json has the active token of it.                                   *)
Shows(pool) == store = pool /\ BarrierHolds

(* An earlier import of this pool left the VPS with what it shows now.     *)
Proven == proof.incoming = sync.snapshot /\ Shows(proof.committed)

(* Operations of the journal.                                              *)
Begun == journal' = [id |-> nextOp, base |-> store, incoming |-> sync.snapshot,
                     phase |-> "pending", receipt |-> NoPool]
Recorded(receipt) == journal' = [journal EXCEPT !.receipt = receipt]
Marked == journal' = [journal EXCEPT !.phase = "unresolved"]
Cleared == journal' = NoOp

(* Observe the VPS; stop if it has the pool, or a proof says that the      *)
(* importer's merge of this pool is what it has.  Otherwise the journal    *)
(* records the operation with the observed baseline.                       *)
Capture ==
    /\ sync.pc = "capture"
    /\ \/ Lose /\ SyncEnds("rejected", NoPool) /\ UNCHANGED <<journal, aged, nextOp>>
       \/ /\ \/ Shows(sync.snapshot) /\ SyncEnds("success", NoPool)
             \/ ~Shows(sync.snapshot) /\ Proven /\ SyncEnds("success", proof.committed)
          /\ Lossless /\ UNCHANGED <<journal, aged, nextOp>>
       \/ /\ ~Shows(sync.snapshot) /\ ~Proven /\ nextOp <= MaxOps
          /\ Begun /\ aged' = FALSE /\ nextOp' = nextOp + 1
          /\ SyncGoes("deliver") /\ Lossless
    /\ UNCHANGED <<chains, defaults, recovery, round, imports, crashes>>

(* Staging and copying.  A failure is final once the removal of the stage  *)
(* is proven; a stage or a removal of unknown outcome holds the operation. *)
Deliver ==
    /\ sync.pc = "deliver"
    /\ \/ stages' = stages \cup {journal.id} /\ SyncGoes("import") /\ Lossless
       \/ /\ Lose
          /\ \/ SyncSettles("retryable") /\ UNCHANGED stages
             \/ SyncSettles("rejected") /\ UNCHANGED stages
             \/ /\ SyncSettles("cleanupUnresolved")
                /\ stages' \in {stages, stages \cup {journal.id}}
    /\ UNCHANGED <<chains, journal, aged, defaults, recovery, round, importer, ledger, nextOp, crashes>>

(* The import command over SSH: it starts, it is proven not to have        *)
(* started and the stage is removed, or nothing is known of it.            *)
StartImport ==
    /\ sync.pc = "import"
    /\ LET started == importer' = [importer EXCEPT ![journal.id] =
                          [pc |-> "waiting", base |-> journal.base, incoming |-> journal.incoming]]
       IN  \/ started /\ SyncGoes("await") /\ Lossless /\ UNCHANGED stages
           \/ /\ Lose /\ UNCHANGED importer
              /\ \/ SyncSettles("retryable") /\ stages' = stages \ {journal.id}
                 \/ SyncSettles("cleanupUnresolved") /\ UNCHANGED stages
    /\ UNCHANGED <<chains, journal, aged, defaults, recovery, round, ledger, nextOp, crashes>>

Refusal(state) == IF state = "missing" THEN "rejected" ELSE "outcomeUnknown"

(* The answer.  An exit without a stage left is read as it is; a refusal   *)
(* is final only when the VPS has recorded no intent; a lost answer says   *)
(* nothing.                                                                *)
Await ==
    LET i == journal.id
        Exited(pcs) == /\ importer[i].pc \in pcs /\ Lossless
                       /\ importer' = [importer EXCEPT ![i] = NoImport]
    IN  /\ sync.pc = "await"
        /\ \/ Exited({"ok", "failed"}) /\ i \in stages /\ SyncSettles("cleanupUnresolved") /\ UNCHANGED journal
           \/ /\ Exited({"ok"}) /\ i \notin stages
              /\ Recorded(ledger[i].receipt)
              /\ SyncGoes("verify")
           \/ /\ Exited({"failed"}) /\ i \notin stages
              /\ SyncSettles(Refusal(ledger[i].state)) /\ UNCHANGED journal
           \/ Lose /\ SyncSettles("outcomeUnknown") /\ UNCHANGED <<journal, importer>>
        /\ UNCHANGED <<chains, aged, defaults, recovery, round, stages, ledger, nextOp, crashes>>

(* After a receipt the VPS is observed again and must show what the        *)
(* receipt names.                                                          *)
Verify ==
    /\ sync.pc = "verify"
    /\ \/ /\ Shows(journal.receipt)
          /\ sync' = [sync EXCEPT !.pc = "settle", !.disposition = "success", !.receipt = store]
          /\ Lossless
       \/ ~Shows(journal.receipt) /\ SyncSettles("outcomeUnknown") /\ Lossless
       \/ Lose /\ SyncSettles("outcomeUnknown")
    /\ UNCHANGED <<chains, journal, aged, defaults, recovery, round, imports, nextOp, crashes>>

(* A lost answer taken for a rejection.                                    *)
HoldsCleanupOnly(disposition) == disposition = "cleanupUnresolved"

Holds(disposition) == disposition \in {"outcomeUnknown", "cleanupUnresolved"}

(* The journal is resolved first: cleared, or marked unresolved.           *)
Settle ==
    /\ sync.pc = "settle"
    /\ IF Holds(sync.disposition) THEN Marked ELSE Cleared
    /\ SyncGoes("finish")
    /\ UNCHANGED <<chains, aged, defaults, recovery, round, imports, bounds>>

(* Then, on the main actor, the defaults.                                  *)
Finish ==
    /\ sync.pc = "finish"
    /\ hold' = Holds(sync.disposition)
    /\ IF sync.disposition = "success"
       THEN /\ synced' = sync.snapshot
            /\ proof' = IF sync.receipt = NoPool THEN NoProof
                        ELSE [incoming |-> sync.snapshot, committed |-> sync.receipt]
       ELSE UNCHANGED <<synced, proof>>
    /\ sync' = IdleSync
    /\ UNCHANGED <<chains, journal, aged, recovery, round, imports, bounds>>

-----------------------------------------------------------------------------
(* The importer on the VPS.                                                *)

(* A merge that takes what arrives.                                        *)
MergeIncoming(incoming, current) == incoming

Merge(incoming, current) == [a \in Accounts |-> Later(incoming[a], current[a])]

(* A failed commit that goes on to complete the receipt.                   *)
ExitsCompleting(i, pc) ==
    importer' = [importer EXCEPT ![i] = IF @.pc = "prepared" THEN [@ EXCEPT !.pc = "committed"]
                                        ELSE [NoImport EXCEPT !.pc = pc]]

Exits(i, pc) == importer' = [importer EXCEPT ![i] = [NoImport EXCEPT !.pc = pc]]
Running(i) == importer[i].pc \in {"waiting", "prepared", "committed"}

(* The shell that runs the importer removes the stage when it ends; the    *)
(* removal may fail.                                                       *)
StageRemoved(i) == \/ stages' = stages \ {i} /\ Lossless
                   \/ UNCHANGED stages /\ Lose

(* Under the runtime lease the importer refuses an operation it knows, a   *)
(* host whose activation is unresolved and a store that is not the one the *)
(* Mac observed.  Otherwise it merges and records its intent.              *)
ImportBegin(i) ==
    /\ importer[i].pc = "waiting" /\ LeaseFree
    /\ \/ /\ ~BarrierHolds \/ store # importer[i].base
          /\ Exits(i, "failed") /\ StageRemoved(i) /\ UNCHANGED ledger
       \/ /\ BarrierHolds /\ store = importer[i].base /\ ledger[i].state = "missing"
          /\ ledger' = [ledger EXCEPT ![i] =
                          [state |-> "pending", receipt |-> Merge(importer[i].incoming, store)]]
          /\ importer' = [importer EXCEPT ![i].pc = "prepared"]
          /\ Lossless /\ UNCHANGED stages
    /\ UNCHANGED <<mac, store, auth, minted, refreshes, runtimes, journal, aged, defaults,
                   sync, recovery, round, nextOp, crashes>>

(* The commit of store and auth.json, which reads the generation of        *)
(* auth.json that it replaces only now; or a commit that failed and was    *)
(* rolled back.                                                            *)
ImportCommit(i) ==
    /\ importer[i].pc = "prepared"
    /\ \/ /\ store' = ledger[i].receipt /\ auth' = store'[Active]
          /\ importer' = [importer EXCEPT ![i].pc = "committed"]
          /\ Lossless /\ UNCHANGED stages
       \/ /\ Lose /\ Exits(i, "failed") /\ stages' = stages \ {i}
          /\ UNCHANGED <<store, auth>>
    /\ UNCHANGED <<mac, minted, refreshes, runtimes, journal, aged, defaults, sync, recovery, round,
                   ledger, nextOp, crashes>>

(* The receipt is completed, the runtimes are reloaded and it is printed.  *)
ImportComplete(i) ==
    /\ importer[i].pc = "committed"
    /\ ledger' = [ledger EXCEPT ![i].state = "completed"]
    /\ Exits(i, "ok") /\ StageRemoved(i)
    /\ UNCHANGED <<chains, journal, aged, defaults, sync, recovery, round, nextOp, crashes>>

(* The importer is killed, or gives up on an expired bundle.               *)
ImportDies(i) ==
    /\ Running(i) /\ Lose /\ Exits(i, "failed")
    /\ stages' \in {stages, stages \ {i}}
    /\ UNCHANGED <<chains, journal, aged, defaults, sync, recovery, round, ledger, nextOp, crashes>>

-----------------------------------------------------------------------------
(* Recovery of a journaled operation.  It only reads the VPS, one SSH call *)
(* at a time: the stage, the receipt, the importer and the evidence.       *)

Unresolved == recovery' = IdleRecovery
RecoveryGoes(pc) == recovery' = [recovery EXCEPT !.pc = pc]

RecoverStage ==
    /\ recovery.pc = "stage"
    /\ \/ journal.id \notin stages /\ RecoveryGoes("status") /\ Lossless
       \/ journal.id \in stages /\ Unresolved /\ Lossless
       \/ Lose /\ Unresolved
    /\ UNCHANGED <<chains, journal, aged, defaults, sync, round, imports, nextOp, crashes>>

(* A completed receipt is recorded in the journal before it is retired.    *)
RecoverStatus ==
    LET found == ledger[journal.id]
    IN  /\ recovery.pc = "status"
        /\ \/ /\ found.state = "completed" /\ Lossless
              /\ IF journal.receipt \in {NoPool, found.receipt}
                 THEN /\ Recorded(found.receipt)
                      /\ recovery' = [pc |-> "retire", status |-> found.state]
                 ELSE Unresolved /\ UNCHANGED journal
           \/ /\ found.state # "completed" /\ Lossless /\ UNCHANGED journal
              /\ recovery' = [pc |-> "probe", status |-> found.state]
           \/ Lose /\ Unresolved /\ UNCHANGED journal
        /\ UNCHANGED <<chains, aged, defaults, sync, round, imports, nextOp, crashes>>

(* Only an operation with a recorded intent is given up.                   *)
SupersedablePending == /\ journal.phase = "unresolved" /\ journal.receipt = NoPool
                       /\ recovery.status = "pending"

(* An operation whose outcome will never be known.                         *)
Supersedable == /\ journal.phase = "unresolved" /\ journal.receipt = NoPool
                /\ recovery.status = "pending" \/ aged

RecoverProbe ==
    /\ recovery.pc = "probe"
    /\ \/ Supersedable /\ ~Running(journal.id) /\ RecoveryGoes("retire") /\ Lossless
       \/ ~(Supersedable /\ ~Running(journal.id)) /\ Unresolved /\ Lossless
       \/ Lose /\ Unresolved
    /\ UNCHANGED <<chains, journal, aged, defaults, sync, round, imports, nextOp, crashes>>

Retire ==
    /\ recovery.pc = "retire"
    /\ Cleared /\ RecoveryGoes("clear")
    /\ UNCHANGED <<chains, aged, defaults, sync, round, imports, bounds>>

(* Every cached claim is dropped and a new synchronisation is asked for.   *)
ClearClaims ==
    /\ recovery.pc = "clear"
    /\ synced' = NoPool /\ proof' = NoProof /\ hold' = FALSE
    /\ Scheduled(TRUE, mac, FALSE)
    /\ UNCHANGED <<chains, journal, aged, round, imports, bounds>>

-----------------------------------------------------------------------------
(* A convergence round.                                                    *)

(* A push is asked for when the Mac holds what the importer would take     *)
(* over the VPS's store entry.                                             *)
Pushed(needed) == IF needed /\ recovery.pc = "idle" THEN Scheduled(TRUE, mac, hold)
                  ELSE UNCHANGED <<sync, recovery>>

(* The report of the VPS: its store and, where a runtime refreshed, the    *)
(* newer generation of auth.json.                                          *)
Reported == [store EXCEPT ![Active] = Later(@, auth)]

(* The plan compares the report with the Mac's accounts.  One that the Mac *)
(* renewed while the report travelled only drops out of the plan, so       *)
(* reading and planning are one step.                                      *)
RoundPlan ==
    LET newest == Reported
        adoptions == {a \in Accounts : newest[a] > mac[a]}
        push == \E a \in Accounts : Later(mac[a], newest[a]) > store[a]
    IN  /\ round.pc = "idle"
        /\ IF adoptions = {} THEN UNCHANGED round /\ Pushed(push)
           ELSE /\ round' = [pc |-> "adopt", original |-> mac, newest |-> newest,
                             adoptions |-> adoptions, push |-> push]
                /\ UNCHANGED <<sync, recovery>>
        /\ UNCHANGED <<chains, journal, aged, defaults, imports, bounds>>

(* One adoption: it is committed against the copy the plan compared.       *)
Committed(a) == IF mac[a] = round.original[a]
                THEN mac' = [mac EXCEPT ![a] = round.newest[a]]
                ELSE UNCHANGED mac
Adopt(a) ==
    /\ round.pc = "adopt" /\ a \in round.adoptions
    /\ Committed(a)
    /\ round' = [round EXCEPT !.adoptions = @ \ {a}]
    /\ UNCHANGED <<store, auth, minted, refreshes, runtimes, journal, aged, defaults, sync, recovery, imports, bounds>>

RoundEnd ==
    /\ round.pc = "adopt" /\ round.adoptions = {}
    /\ round' = IdleRound
    /\ Pushed(round.push)
    /\ UNCHANGED <<chains, journal, aged, defaults, imports, bounds>>

-----------------------------------------------------------------------------
(* The Mac app dies and starts again; what the VPS does goes on.           *)
Crash ==
    /\ crashes < MaxCrashes /\ crashes' = crashes + 1
    /\ sync' = IdleSync /\ recovery' = IdleRecovery /\ round' = IdleRound
    /\ UNCHANGED <<chains, journal, aged, defaults, imports, nextOp, losses>>

(* A day passes, longer than any SSH call.  It matters to an operation     *)
(* marked unresolved only.                                                 *)
Age ==
    /\ journal # NoOp /\ ~aged /\ sync.pc = "idle" /\ journal.phase = "unresolved"
    /\ aged' = TRUE
    /\ UNCHANGED <<chains, journal, defaults, sync, recovery, round, imports, bounds>>

SyncStep == Capture \/ Deliver \/ StartImport \/ Await \/ Verify \/ Settle \/ Finish
RecoveryStep == RecoverStage \/ RecoverStatus \/ RecoverProbe \/ Retire \/ ClearClaims
RoundStep == RoundPlan \/ RoundEnd \/ \E a \in Accounts : Adopt(a)
ImportStep(i) == ImportBegin(i) \/ ImportCommit(i) \/ ImportComplete(i)

Next == \/ \E a \in Accounts : MacRenew(a) \/ DaemonRefresh(a)
        \/ RuntimeRefresh \/ Schedule \/ Crash \/ Age
        \/ SyncStep \/ RecoveryStep \/ RoundStep
        \/ \E i \in Ops : ImportStep(i) \/ ImportDies(i)

(* The app's tasks run on, its timer starts a round every five minutes and *)
(* an importer that has the lease finishes.                                *)
Fairness == /\ WF_vars(SyncStep) /\ WF_vars(RecoveryStep) /\ WF_vars(RoundStep) /\ WF_vars(Age)
            /\ \A i \in Ops : WF_vars(ImportStep(i))

Spec == Init /\ [][Next]_vars /\ Fairness

-----------------------------------------------------------------------------
(* Properties.                                                             *)

(* A completed receipt is a promise that what it names was written: the    *)
(* VPS store never holds an older generation than a completed receipt, and *)
(* the Mac's journal holds only receipts the VPS completed                 *)
(* (credential_import_receipts.rs complete, recordImportReceipt).          *)
ReceiptCommitted ==
    /\ \A i \in Ops, a \in Accounts :
          ledger[i].state = "completed" => store[a] >= ledger[i].receipt[a]
    /\ journal # NoOp /\ journal.receipt # NoPool =>
          ledger[journal.id] = [state |-> "completed", receipt |-> journal.receipt]

(* The Mac never lets go of an operation that can still change the VPS:    *)
(* an importer that runs is the one of the journaled operation, so a       *)
(* rejection, a recovery or a supersession is not overtaken by the import  *)
(* it gave up (completedCredentialImportFailure, supersedeUnrecoverable).  *)
OnlyHeldRuns == \A i \in Ops : Running(i) => journal # NoOp /\ journal.id = i

(* No host's store ever goes back to an older generation of a chain, with  *)
(* bundles and reports that were overtaken while they travelled            *)
(* (merge_token_generation, persistInactiveCredentialUpdate).              *)
StoresForward == [][\A a \in Accounts : mac'[a] >= mac[a] /\ store'[a] >= store[a]]_vars

InStep == mac = store
StageLeft == journal # NoOp /\ journal.id \in stages

(* Once nobody refreshes any more both hosts end up with the same          *)
(* generations, whatever calls and answers were lost, unless a staging     *)
(* directory could not be removed: that holds the operation for an         *)
(* operator.  It is claimed without a crash of the app and without a       *)
(* refresh by a runtime of the VPS (convergeLinuxDevboxTokens).            *)
Converges == [](crashes = 0 /\ runtimes = 0) => <>[]InStep \/ <>[]StageLeft

=============================================================================
