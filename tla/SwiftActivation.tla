--------------------------- MODULE SwiftActivation ---------------------------
(***************************************************************************)
(* The activation of an account by the Mac app.  A swap writes the journal *)
(* as preparing, the account store, auth.json and the journal as degraded, *)
(* reloads the running Codex processes and confirms; a lease, inside the   *)
(* app and between processes, admits one such operation at a time.  Every  *)
(* step is an await apart from the next one, so an observation of          *)
(* auth.json, a login, the runtimes and a crash come in between.           *)
(* (AccountActivationTransaction, AccountActivationCoordinator,            *)
(* AccountActivationConvergence, AppDelegate)                              *)
(*                                                                         *)
(* A credential is its account.  The activation generation is a number     *)
(* that no live record uses; the swap generation and the lease are         *)
(* invalidated by the same two lines, which op.owned stands for.           *)
(***************************************************************************)
EXTENDS Naturals

CONSTANTS
    Accounts,       \* the accounts of the store
    None,
    MaxOutside      \* bound: logins, logouts and activations by codexswitch-cli

ASSUME NoneAssumption == None \notin Accounts
ASSUME BoundsAssumption == MaxOutside \in Nat

VARIABLES
    store,      \* accounts.json: the selected account
    auth,       \* auth.json
    journal,    \* the activation journal
    fresh,      \* the evidence of the confirmed record has not expired
    up,         \* the app runs
    configured, \* AccountManager.configuredAccount
    shown,      \* AccountManager.activationState, the copy in memory
    pending,    \* pendingSwapTargetAccountId
    task,       \* swapConvergenceTask is set
    seen,       \* the observation of auth.json in flight
    op,         \* the operation that holds the lease
    loaded,     \* what each runtime has in memory, None when it does not run
    login,      \* auth.json was last written by a login or a logout
    outside     \* how many of them so far

durable == <<store, auth, journal, fresh>>
memory == <<up, configured, shown, pending, task>>
vars == <<durable, memory, seen, op, loaded, login, outside>>

Runtimes == {"desktop", "cli"}
Gens == 1 .. 3
Phases == {"preparing", "degraded", "confirmed", "review"}
Details == {"none", "changed", "conflict", "absent", "inconsistent", "fileCommit", "other"}
Record(phase, a, gen, detail) == [phase |-> phase, target |-> a, gen |-> gen, detail |-> detail]
Degraded(a, gen) == Record("degraded", a, gen, "none")
NewGen == CHOOSE g \in Gens : g \notin {journal.gen, shown.gen}

(* pc is the next step; saw is the auth.json of a recovery's witness,      *)
(* outcome and topology what the reloads and the evidence found.           *)
Idle == [pc |-> "idle", kind |-> "none", to |-> None, from |-> None, gen |-> 0, saw |-> None,
         before |-> Record("review", None, 0, "none"), outcome |-> "none", topology |-> {},
         owned |-> FALSE]
Unseen == [st |-> "none", auth |-> None]
Held == op.pc # "idle"
Files(a) == store = a /\ auth = a
Running == {r \in Runtimes : loaded[r] # None}

Matches(rec, phase) == rec.phase = phase /\ rec.target = op.to /\ rec.gen = op.gen

(* activationWorkIsCurrent, and with the journal an effect permit.         *)
WorkIsCurrentSuperseded(phase) == pending = op.to /\ Matches(shown, phase)
WorkIsCurrent(phase) == op.owned /\ pending = op.to /\ Matches(shown, phase)
Authorized(phase) == WorkIsCurrent(phase) /\ Matches(journal, phase)
Preparing == Authorized("preparing") /\ configured \in {op.from, op.to}

Goto(pc) == op' = [op EXCEPT !.pc = pc]

(* enterActivationManualReview: a journal that cannot be written leaves    *)
(* the review in memory only.                                              *)
Review(a, detail) ==
    LET rec == Record("review", a, journal.gen, detail) IN
    shown' = rec /\ journal' \in {rec, journal}

(* The same from a task that does not hold the lease: skipped while an     *)
(* operation does.                                                         *)
TryReview(a, detail) ==
    IF Held THEN UNCHANGED <<journal, shown>> ELSE Review(a, detail)

Release == op' = Idle /\ pending' = None /\ task' = FALSE
AbandonPending == IF op.owned /\ task THEN Release ELSE op' = Idle /\ UNCHANGED <<pending, task>>
Abandon == IF op.owned /\ pending = op.to THEN Release ELSE op' = Idle /\ UNCHANGED <<pending, task>>

(* externalAuthObservationContext: an observation of auth.json is dropped  *)
(* when the configured account, the swap or the activation generation      *)
(* changes under it.                                                       *)
KeepSeen ==
    LET changed == \/ configured' # configured \/ shown'.gen # shown.gen
                   \/ pending = None /\ pending' # None
    IN seen' = IF seen.st = "seen" /\ changed THEN Unseen ELSE seen

-----------------------------------------------------------------------------
(* withPreparedActiveCredentialMutation: the decision on the request and   *)
(* the preparing record.  An operator may leave a degraded record or an    *)
(* expired confirmation, the pool authority an external-auth conflict.     *)

Expired == journal.phase = "confirmed" /\ ~fresh

Permits(kind, to) ==
    \/ journal.phase = "confirmed" /\ fresh /\ kind # "recovery"
    \/ /\ kind = "operator" /\ journal.target # to
       /\ \/ Expired
          \/ journal.phase = "degraded"
          \/ journal.phase = "review" /\ journal.detail = "changed"
    \/ /\ kind = "recovery" /\ journal = shown
       /\ journal.phase = "review" /\ journal.detail = "conflict"
       /\ configured \in {None, store} /\ store # to /\ auth # None

Free == up /\ pending = None /\ ~task /\ ~Held

Begin(kind, to) ==
    LET from == IF kind = "recovery" THEN store ELSE configured IN
    /\ Free /\ from # None /\ to # from /\ Permits(kind, to)
    /\ journal' = Record("preparing", to, NewGen, "none")
    /\ configured' = from
    /\ op' = [Idle EXCEPT !.pc = "prepared", !.kind = kind, !.to = to, !.from = from,
                          !.gen = NewGen, !.saw = IF kind = "recovery" THEN auth ELSE None, !.owned = TRUE,
                          !.before = IF Expired THEN Degraded(journal.target, journal.gen)
                                     ELSE journal]
    /\ UNCHANGED <<store, auth, fresh, up, shown, pending, task, loaded, login, outside>> /\ KeepSeen

(* An operator's request for the configured account whose evidence has     *)
(* expired.                                                                *)
Demote ==
    /\ Free /\ Expired /\ configured = journal.target
    /\ journal' = Degraded(journal.target, journal.gen)
    /\ shown' = journal'
    /\ UNCHANGED <<store, auth, fresh, up, configured, pending, task, op, loaded, login, outside>> /\ KeepSeen

Prepare ==
    /\ op.pc = "prepared"
    /\ \/ /\ op.owned /\ configured = op.from
          /\ shown' = journal /\ pending' = op.to /\ Goto("check")
          /\ UNCHANGED <<journal, task>>
       \/ /\ ~op.owned
          /\ op' = Idle /\ UNCHANGED <<journal, shown, pending, task>>
       \/ /\ op.owned /\ Review(op.to, "other")
          /\ op' = Idle /\ UNCHANGED <<pending, task>>
    /\ UNCHANGED <<store, auth, fresh, up, configured, loaded, login, outside>> /\ KeepSeen

-----------------------------------------------------------------------------
(* failConfiguredCredentialMutation.  Before the first write the record    *)
(* that the preparation replaced is restored when the files still agree    *)
(* with it; a recovery also takes back its selection in the store.         *)

Restorable(s) ==
    /\ op.owned /\ configured = op.from /\ Matches(journal, "preparing")
    /\ IF op.kind = "recovery" THEN s = op.from /\ auth = op.saw
       ELSE op.pc = "check" /\ op.before.target # None /\ Files(op.before.target)

Restore ==
    IF op.kind = "recovery" \/ configured = op.before.target
    THEN journal' = op.before /\ shown' = op.before
    ELSE Review(op.before.target, "changed")

Stop(detail) ==
    IF op.owned /\ shown.gen = op.gen /\ shown.target = op.to THEN Review(op.to, detail)
    ELSE UNCHANGED <<journal, shown>>

Compensable == op.kind = "recovery" /\ op.pc = "auth" /\ op.owned /\ store = op.to

(* s is the store as the failed step leaves it.                            *)
Fail(detail, s) ==
    /\ Abandon
    /\ \/ Compensable /\ store' = op.from /\ Restore
       \/ ~Compensable /\ store' = s /\ Restorable(s) /\ Restore
       \/ store' = s /\ Stop(detail)

-----------------------------------------------------------------------------
(* commitConfiguredCredentials, one action for each effect; a failed write *)
(* may have taken place.                                                   *)

(* Fresh evidence reloads every runtime; none of it without a runtime.     *)
Evidence(a) ==
    /\ auth = a /\ Running # {}
    /\ loaded' = [r \in Runtimes |-> IF r \in Running THEN a ELSE None]

SourceMatches == IF op.kind = "recovery" THEN store = op.from /\ auth = op.saw ELSE Files(op.from)

CheckSource ==
    /\ op.pc = "check"
    /\ \/ /\ Preparing /\ configured = op.from /\ SourceMatches
          /\ IF op.kind = "automatic" THEN Evidence(op.from) ELSE UNCHANGED loaded
          /\ Goto("store") /\ UNCHANGED <<store, journal, shown, pending, task>>
       \/ Fail("fileCommit", store) /\ UNCHANGED loaded
    /\ UNCHANGED <<auth, fresh, up, configured, login, outside>> /\ KeepSeen

PersistStore ==
    /\ op.pc = "store"
    /\ \/ /\ Preparing /\ store = op.from /\ (op.kind = "recovery" => auth = op.saw)
          /\ store' = op.to /\ Goto("auth")
          /\ UNCHANGED <<journal, shown, pending, task>>
       \/ Fail("fileCommit", store)
       \/ Preparing /\ store = op.from /\ Fail("fileCommit", op.to)
    /\ UNCHANGED <<auth, fresh, up, configured, loaded, login, outside>> /\ KeepSeen

PersistAuth ==
    /\ op.pc = "auth"
    /\ LET allowed == Preparing /\ (op.kind = "recovery" => auth = op.saw) IN
       \/ /\ allowed /\ auth' = op.to /\ login' = FALSE
          /\ \/ Goto("verify") /\ UNCHANGED <<store, journal, shown, pending, task>>
             \/ Fail("fileCommit", store)
       \/ Fail("fileCommit", store) /\ UNCHANGED <<auth, login>>
    /\ UNCHANGED <<fresh, up, configured, loaded, outside>> /\ KeepSeen

(* The durable read-back and the publication of the target in memory.      *)
Publish ==
    /\ op.pc = "verify"
    /\ \/ /\ Preparing /\ Files(op.to)
          /\ configured' = op.to /\ Goto("mark")
          /\ UNCHANGED <<store, journal, shown, pending, task>>
       \/ Fail("fileCommit", store) /\ UNCHANGED configured
    /\ UNCHANGED <<auth, fresh, up, loaded, login, outside>> /\ KeepSeen

MarkCommittedDegraded ==
    /\ op.pc = "mark"
    /\ \/ /\ Preparing
          /\ journal' = Degraded(op.to, op.gen) /\ Goto("converge")
          /\ UNCHANGED <<store, shown, pending, task>>
       \/ Fail("fileCommit", store)
       \/ Preparing /\ Fail("other", store)
    /\ UNCHANGED <<auth, fresh, up, configured, loaded, login, outside>> /\ KeepSeen

(* The journal's answer is checked against what the await let in.          *)
BeginRuntimeConvergence ==
    /\ op.pc = "converge"
    /\ \/ /\ op.owned /\ pending = op.to /\ configured = op.to
          /\ shown' = journal /\ task' = TRUE /\ Goto("desktop")
          /\ UNCHANGED <<store, journal, pending>>
       \/ Fail("other", store)
    /\ UNCHANGED <<auth, fresh, up, configured, loaded, login, outside>> /\ KeepSeen

-----------------------------------------------------------------------------
(* The convergence task: the desktop runtime, the command line, and the    *)
(* confirmation.                                                           *)

(* A runtime acknowledges what it read from auth.json.                     *)
Reload(r) == auth # None /\ loaded' = [loaded EXCEPT ![r] = auth]

ReloadDesktop ==
    /\ op.pc = "desktop" /\ WorkIsCurrent("degraded")
    /\ \/ /\ loaded["desktop"] = None /\ UNCHANGED loaded
          /\ op' = [op EXCEPT !.pc = "cli"]
       \/ /\ loaded["desktop"] # None /\ Reload("desktop")
          /\ op' = [op EXCEPT !.pc = "cli", !.outcome = "current"]
       \/ /\ loaded["desktop"] # None /\ UNCHANGED loaded
          /\ op' = [op EXCEPT !.pc = "finish", !.outcome = "failed"]
    /\ UNCHANGED <<durable, memory, login, outside>> /\ KeepSeen

ReloadCLI ==
    /\ op.pc = "cli" /\ WorkIsCurrent("degraded")
    /\ \/ /\ loaded["cli"] = None /\ UNCHANGED loaded
          /\ op' = [op EXCEPT !.pc = "finish"]
       \/ /\ loaded["cli"] # None /\ Reload("cli")
          /\ op' = [op EXCEPT !.pc = "finish", !.outcome = "current"]
       \/ /\ loaded["cli"] # None /\ UNCHANGED loaded
          /\ op' = [op EXCEPT !.pc = "finish", !.outcome = "failed"]
    /\ UNCHANGED <<durable, memory, login, outside>> /\ KeepSeen

(* abandonSwapRuntimeConvergence                                           *)
AbandonConvergence ==
    /\ op.pc \in {"desktop", "cli", "finish", "done"} /\ ~WorkIsCurrent("degraded")
    /\ Abandon
    /\ UNCHANGED <<durable, up, configured, shown, loaded, login, outside>> /\ KeepSeen

(* What ends the task other than a confirmation; the review is written     *)
(* under the inherited lease whether or not it is still owned.             *)
EndDegraded == Release /\ UNCHANGED <<journal, shown>>
EndReview(detail) == Release /\ Review(op.to, detail)

Finish ==
    /\ op.pc = "finish" /\ WorkIsCurrent("degraded")
    /\ \/ /\ op.outcome # "current"
          /\ IF Authorized("degraded") THEN EndDegraded ELSE EndReview("other")
          /\ UNCHANGED loaded
       \/ op.outcome = "current" /\ ~Files(op.to) /\ EndReview("changed") /\ UNCHANGED loaded
       \/ /\ op.outcome = "current" /\ Files(op.to)
          /\ \/ EndDegraded /\ UNCHANGED loaded
             \/ Evidence(op.to) /\ Goto("confirm") /\ UNCHANGED <<journal, shown, pending, task>>
       \/ EndReview("other") /\ UNCHANGED loaded
    /\ UNCHANGED <<store, auth, fresh, up, configured, login, outside>> /\ KeepSeen

Confirm ==
    /\ op.pc = "confirm"
    /\ \/ ~Authorized("degraded") /\ (EndDegraded \/ EndReview("other")) /\ UNCHANGED loaded
       \/ ~Files(op.to) /\ EndReview("changed") /\ UNCHANGED loaded
       \/ Files(op.to) /\ EndDegraded /\ UNCHANGED loaded
       \/ /\ Authorized("degraded") /\ store = op.to /\ Evidence(op.to)
          /\ op' = [op EXCEPT !.pc = "persist", !.topology = Running]
          /\ UNCHANGED <<journal, shown, pending, task>>
    /\ UNCHANGED <<store, auth, fresh, up, configured, login, outside>> /\ KeepSeen

(* markConfirmed checks the bindings and the topology under the journal's  *)
(* lock; a binding holds for one auth.json.                                *)
BindingsUnread == Running = op.topology
BindingsCurrent == auth = op.to /\ Running = op.topology /\ \A r \in Running : loaded[r] = op.to

MarkConfirmed ==
    /\ op.pc = "persist"
    /\ \/ /\ op.owned /\ Matches(journal, "degraded") /\ BindingsCurrent
          /\ journal' = Record("confirmed", op.to, op.gen, "none") /\ fresh' = TRUE
          /\ Goto("done") /\ UNCHANGED <<shown, pending, task>>
       \/ EndReview("other") /\ UNCHANGED fresh
    /\ UNCHANGED <<store, auth, up, configured, loaded, login, outside>> /\ KeepSeen

PublishConfirmed ==
    /\ op.pc = "done" /\ WorkIsCurrent("degraded") /\ configured = op.to
    /\ Release /\ shown' = journal
    /\ UNCHANGED <<durable, up, configured, loaded, login, outside>> /\ KeepSeen

-----------------------------------------------------------------------------
(* startSameTargetRuntimeRetry.  The automatic retries keep the generation *)
(* of the degraded record; the others start a new one.                     *)

Retry(a) == [Idle EXCEPT !.pc = "retry", !.kind = "retry", !.to = a, !.from = a, !.owned = TRUE]

RetryAutomatic ==
    /\ Free /\ configured # None /\ shown.target = configured /\ shown.phase = "degraded"
    /\ op' = [Retry(configured) EXCEPT !.gen = shown.gen]
    /\ UNCHANGED <<durable, memory, loaded, login, outside>> /\ KeepSeen

(* resetForManualSameTargetRetry                                           *)
RetryManual ==
    /\ Free /\ configured # None /\ shown.target = configured /\ journal = shown
    /\ \/ shown.phase = "degraded"
       \/ shown.phase = "review" /\ shown.detail = "changed" /\ Files(configured)
    /\ op' = [Retry(configured) EXCEPT !.gen = NewGen]
    /\ journal' = Degraded(configured, NewGen) /\ shown' = journal'
    /\ UNCHANGED <<store, auth, fresh, up, configured, pending, task, loaded, login, outside>> /\ KeepSeen

ContinueRetry ==
    /\ op.pc = "retry"
    /\ \/ /\ op.owned /\ Files(op.to) /\ Matches(shown, "degraded") /\ configured = op.to
          /\ pending' = op.to /\ task' = TRUE /\ Goto("desktop")
          /\ UNCHANGED <<journal, shown>>
       \/ /\ op' = Idle /\ UNCHANGED <<pending, task>>
          /\ IF op.owned THEN Review(op.to, "inconsistent") ELSE UNCHANGED <<journal, shown>>
    /\ UNCHANGED <<store, auth, fresh, up, configured, loaded, login, outside>> /\ KeepSeen

-----------------------------------------------------------------------------
(* reconcileExternalAuthObservation.  Observe captures the context and     *)
(* reads auth.json; the others act on what it read.                        *)

Observe ==
    /\ up /\ seen = Unseen
    /\ seen' = [st |-> "seen", auth |-> auth]
    /\ UNCHANGED <<durable, memory, op, loaded, login, outside>>

Observed == up /\ seen.st = "seen"

ObserveAbsentUnconfigured ==
    /\ Observed /\ seen.auth = None /\ shown.detail # "absent"
    /\ TryReview(configured, "absent")
    /\ seen' = Unseen
    /\ UNCHANGED <<store, auth, fresh, up, configured, pending, task, op, loaded, login, outside>>
ObserveAbsent ==
    /\ Observed /\ seen.auth = None /\ configured # None /\ shown.detail # "absent"
    /\ TryReview(configured, "absent")
    /\ seen' = Unseen
    /\ UNCHANGED <<store, auth, fresh, up, configured, pending, task, op, loaded, login, outside>>

(* recoverVerifiedExternalAuth, recoverConvergedConfiguredFiles            *)
RecoverObserved ==
    /\ Observed /\ Free /\ configured # None /\ seen.auth = configured /\ Files(configured)
    /\ shown.phase = "review" /\ shown.target = configured /\ journal = shown
    /\ shown.detail \in {"absent", "inconsistent"}
    /\ op' = [Retry(configured) EXCEPT !.gen = NewGen]
    /\ journal' = Degraded(configured, NewGen) /\ shown' = journal'
    /\ seen' = Unseen
    /\ UNCHANGED <<store, auth, fresh, up, configured, pending, task, loaded, login, outside>>

(* adoptVerifiedExternalHandoffIfPresent, up to the journal.               *)
Adoptable ==
    /\ Free /\ shown.phase \in {"confirmed", "degraded"}
    /\ seen.auth # configured \/ shown.target # seen.auth

Adopt ==
    /\ Observed /\ seen.auth # None /\ Adoptable /\ Files(seen.auth) /\ journal = shown
    /\ op' = [Idle EXCEPT !.pc = "adopt", !.kind = "adopt", !.to = seen.auth, !.gen = NewGen,
                          !.owned = TRUE]
    /\ journal' = Degraded(seen.auth, NewGen)
    /\ seen' = Unseen
    /\ UNCHANGED <<store, auth, fresh, memory, loaded, login, outside>>

(* Its final revalidation; a transient error leaves the target for the     *)
(* next observation.                                                       *)
FinishAdopt ==
    /\ op.pc = "adopt" /\ op' = Idle
    /\ \/ Files(op.to) /\ configured' = op.to /\ shown' = journal /\ UNCHANGED journal
       \/ ~Files(op.to) /\ Review(op.to, "inconsistent") /\ UNCHANGED configured
       \/ shown' = journal /\ UNCHANGED <<journal, configured>>
    /\ UNCHANGED <<store, auth, fresh, up, pending, task, loaded, login, outside>> /\ KeepSeen

(* A login that contradicts the activation: the lease is invalidated, the  *)
(* convergence task cancelled and awaited, and a review recorded, unless   *)
(* the operation still holds the lease between processes.                  *)
Conflicts ==
    \/ shown.phase # "confirmed" /\ shown.target # seen.auth
    \/ pending # None /\ (pending # seen.auth \/ ~task)
ConflictTarget ==
    IF shown.phase # "confirmed" /\ shown.target # seen.auth THEN shown.target ELSE seen.auth

ObserveConflict ==
    /\ Observed /\ seen.auth \notin {None, configured}
    /\ ~Adoptable /\ Conflicts
    /\ op' = IF Held THEN [op EXCEPT !.owned = FALSE] ELSE op
    /\ IF task /\ Held
       THEN seen' = [st |-> "waiting", auth |-> ConflictTarget] /\ UNCHANGED <<journal, shown>>
       ELSE seen' = Unseen /\ TryReview(ConflictTarget, "conflict")
    /\ UNCHANGED <<store, auth, fresh, up, configured, pending, task, loaded, login, outside>>

ReviewConflict ==
    /\ seen.st = "waiting" /\ ~Held
    /\ seen' = Unseen
    /\ Review(seen.auth, "conflict") \/ UNCHANGED <<journal, shown>>
    /\ UNCHANGED <<store, auth, fresh, up, configured, pending, task, op, loaded, login, outside>>

(* Every other observation ends without a change: nothing to reconcile, an *)
(* adoption deferred, or an automatic request refused.                     *)
Discard ==
    /\ Observed
    /\ seen.auth \in {None, configured} \/ Adoptable \/ ~Conflicts
    /\ seen' = Unseen
    /\ UNCHANGED <<durable, memory, op, loaded, login, outside>>

-----------------------------------------------------------------------------
(* The confirmed record's evidence: it expires, and a permit for a policy  *)
(* refreshes it or finds that the files changed.                           *)

Expire ==
    /\ fresh /\ fresh' = FALSE
    /\ UNCHANGED <<store, auth, journal, memory, op, loaded, login, outside>> /\ KeepSeen

RequireFreshPermit ==
    /\ up /\ ~Held /\ shown.phase = "confirmed" /\ shown.target # None
    /\ \/ /\ configured # shown.target \/ ~Files(shown.target)
          /\ Review(shown.target, "changed") /\ UNCHANGED <<fresh, loaded>>
       \/ /\ configured = shown.target /\ Files(configured) /\ Evidence(configured)
          /\ IF journal = shown THEN fresh' = TRUE /\ UNCHANGED <<journal, shown>>
             ELSE Review(shown.target, "other") /\ UNCHANGED fresh
    /\ UNCHANGED <<store, auth, up, configured, pending, task, op, login, outside>> /\ KeepSeen

(* activationStateForRequest                                               *)
LoadJournal ==
    /\ up /\ shown # journal /\ shown' = journal
    /\ UNCHANGED <<durable, up, configured, pending, task, op, loaded, login, outside>> /\ KeepSeen

-----------------------------------------------------------------------------
(* A crash, and restoreAccountActivationState at the next launch.          *)

Crash ==
    /\ up /\ up' = FALSE
    /\ configured' = None /\ pending' = None /\ task' = FALSE
    /\ op' = Idle /\ seen' = Unseen /\ shown' = journal
    /\ UNCHANGED <<durable, loaded, login, outside>>

Handoff == journal.phase \in {"confirmed", "degraded"} /\ Files(store) /\ journal.target # store

RestoredUnread ==
    IF journal.phase = "preparing" THEN Degraded(journal.target, journal.gen) ELSE journal
Restored ==
    IF journal.phase = "review"
    THEN IF journal.detail = "fileCommit" /\ Files(store) THEN Degraded(store, NewGen) ELSE journal
    ELSE IF Handoff THEN journal
    ELSE IF ~Files(journal.target)
    THEN Record("review", journal.target, journal.gen, IF auth = None THEN "absent" ELSE "inconsistent")
    ELSE IF journal.phase = "preparing" THEN Degraded(journal.target, journal.gen) ELSE journal

Launch ==
    /\ ~up /\ up' = TRUE
    /\ journal' = Restored /\ shown' = Restored
    /\ configured' = IF Restored.phase = "review" /\ journal.phase = "review"
                        /\ store # journal.target THEN None ELSE store
    /\ UNCHANGED <<store, auth, fresh, pending, task, seen, op, loaded, login, outside>>

-----------------------------------------------------------------------------
(* Outside the app: codex login and logout, an activation by               *)
(* codexswitch-cli under the same lease, and the runtimes.                 *)

Login(a) ==
    /\ outside < MaxOutside /\ outside' = outside + 1
    /\ a # auth /\ auth' = a /\ login' = TRUE
    /\ UNCHANGED <<store, journal, fresh, memory, op, loaded, seen>>

RustActivate(a) ==
    /\ outside < MaxOutside /\ outside' = outside + 1
    /\ ~Held /\ auth # None /\ a # store /\ store' = a /\ auth' = a /\ login' = FALSE
    /\ \/ UNCHANGED loaded
       \/ loaded' = [r \in Runtimes |-> IF r \in Running THEN a ELSE None]
    /\ UNCHANGED <<journal, fresh, memory, op, seen>>

StartRuntime(r) ==
    /\ loaded[r] = None /\ auth # None /\ loaded' = [loaded EXCEPT ![r] = auth]
    /\ UNCHANGED <<durable, memory, op, login, outside, seen>>

StopRuntime(r) ==
    /\ loaded[r] # None /\ loaded' = [loaded EXCEPT ![r] = None]
    /\ UNCHANGED <<durable, memory, op, login, outside, seen>>

-----------------------------------------------------------------------------
Next ==
    \/ \E kind \in {"automatic", "operator", "recovery"}, to \in Accounts : Begin(kind, to)
    \/ Demote \/ Prepare \/ CheckSource \/ PersistStore \/ PersistAuth \/ Publish
    \/ MarkCommittedDegraded \/ BeginRuntimeConvergence
    \/ ReloadDesktop \/ ReloadCLI \/ AbandonConvergence \/ Finish \/ Confirm
    \/ MarkConfirmed \/ PublishConfirmed
    \/ RetryAutomatic \/ RetryManual \/ ContinueRetry
    \/ Observe \/ ObserveAbsent \/ RecoverObserved \/ Adopt \/ FinishAdopt
    \/ ObserveConflict \/ ReviewConflict \/ Discard
    \/ Expire \/ RequireFreshPermit \/ LoadJournal
    \/ Crash \/ Launch
    \/ \E a \in Accounts \union {None} : Login(a)
    \/ \E a \in Accounts : RustActivate(a)
    \/ \E r \in Runtimes : StartRuntime(r) \/ StopRuntime(r)

Init ==
    /\ \E a \in Accounts :
          /\ store = a /\ auth = a /\ configured = a
          /\ journal = Record("confirmed", a, 1, "none")
          /\ loaded \in [Runtimes -> {None, a}]
    /\ shown = journal /\ fresh = TRUE /\ up = TRUE
    /\ pending = None /\ task = FALSE /\ seen = Unseen /\ op = Idle
    /\ login = FALSE /\ outside = 0

Spec == Init /\ [][Next]_vars

-----------------------------------------------------------------------------
(* The states the program can be in.                                       *)
Records == [phase : Phases, target : Accounts, gen : Gens, detail : Details]
TypeOK ==
    /\ store \in Accounts /\ auth \in Accounts \union {None}
    /\ journal \in Records /\ shown \in Records
    /\ fresh \in BOOLEAN /\ up \in BOOLEAN /\ task \in BOOLEAN /\ login \in BOOLEAN
    /\ configured \in Accounts \union {None} /\ pending \in Accounts \union {None}
    /\ loaded \in [Runtimes -> Accounts \union {None}]
    /\ outside \in 0 .. MaxOutside

(* A record becomes confirmed only while the store, auth.json and the      *)
(* configured account are its target and every runtime that runs has       *)
(* loaded it, whatever ran between the reloads and the write; a failed     *)
(* preparation may put back the confirmation it replaced.                  *)
(* (AccountActivationCoordinator.markConfirmed)                            *)
ConfirmedTrue ==
    [][journal.phase # "confirmed" /\ journal'.phase = "confirmed"
       => \/ journal' = op.before
          \/ /\ Files(journal'.target) /\ configured = journal'.target
             /\ Running # {} /\ \A r \in Running : loaded[r] = journal'.target]_vars

(* A store and an auth.json that differ by the app's own writes are        *)
(* covered by a preparing record or a review, at every step of a commit,   *)
(* its undo, a crash or a superseding observation: neither a confirmation  *)
(* nor a degraded record ever stands over half a swap.                     *)
(* (commitConfiguredCredentials, restoreUncommittedPreparation)            *)
SplitGuarded == ~login /\ store # auth => journal.phase \in {"preparing", "review"}

(* An operation that still owns its lease frees the app when it ends, on   *)
(* every path: nothing pending, no task, and not its own preparing record  *)
(* on show, so the next request is not refused for it.                     *)
(* (failConfiguredCredentialMutation, finishSwapRuntimeConvergence)        *)
OperationSettles ==
    [][Held /\ op.owned /\ op'.pc = "idle" /\ up'
       => /\ pending' = None /\ ~task'
          /\ ~(shown'.phase = "preparing" /\ shown'.gen = op.gen)]_vars

(* An operation that an observation superseded writes nothing any more:    *)
(* not the store, not auth.json, and no record but a review.               *)
(* (activationEffectPermit, activationWorkIsCurrent)                       *)
SupersededStops ==
    [][Held /\ ~op.owned
       => /\ store' = store /\ (auth' # auth => login')
          /\ journal'.phase \in {journal.phase, "review"}]_vars

(* A pending swap target belongs to an operation: the refusal "Mac         *)
(* activation is already converging; retry after it completes" promises    *)
(* that there is something to complete.                                    *)
(* (AppDelegate.withPreparedActiveCredentialMutation)                      *)
PendingHasOwner == pending # None => Held
=============================================================================
