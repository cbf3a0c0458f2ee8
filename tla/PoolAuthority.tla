---------------------------- MODULE PoolAuthority ----------------------------
(***************************************************************************)
(* The VPS pool authority (pool_authority.rs) and the three commands that  *)
(* drive it: a swap request, a rotation and the daemon's tick.  The record *)
(* names the one account the pool should use; each command runs under the  *)
(* runtime-activation lease and moves the record and the host's files      *)
(* through separate durable commits, between which it may die.             *)
(*                                                                         *)
(* The host is what the activation journal promises (module Activation):   *)
(* the active account and how far its activation got.  A clock only orders *)
(* a request against the start of an operation, so each operation carries  *)
(* that comparison ("later") and no time is kept.                          *)
(***************************************************************************)
EXTENDS Naturals, FiniteSets, Sequences, SequencesExt

CONSTANTS
  Accounts,   \* provider accounts
  Requests,   \* identifiers of swap requests
  Ops,        \* identifiers of rotation operations
  ResetOps,   \* the operations sent with allow_banked_reset
  None,       \* an absent field, or an identifier no client holds
  Limit,      \* ROTATION_OPERATION_HISTORY_LIMIT
  MaxEpoch,   \* bound: epochs
  MaxFaults   \* bound: crashes, changes of the host by others, reviews they cause

Ids == Requests \cup Ops

ASSUME IdsAssumption ==
  Requests \cap Ops = {} /\ None \notin Ids /\ None \notin Accounts /\ ResetOps \subseteq Ops
ASSUME BoundsAssumption == Limit \in Nat \ {0} /\ MaxEpoch \in Nat /\ MaxFaults \in Nat

VARIABLES
  record,   \* pool-authority.json
  host,     \* the active account, the one a rollback restores, the activation's state
  asked,    \* what each swap request says; clients resend it unchanged
  proc,     \* the command that holds the lease and its local variables
  moved,    \* history: the identifiers that have begun an epoch
  drifted,  \* history: others switched the host since it last converged
  faults    \* how many crashes, foreign changes and reviews so far

vars == <<record, host, asked, proc, moved, drifted, faults>>

Phases == {"stable", "converging", "degraded"}
Entry == [id: Ops, phase: {"started", "completed"}, target: Accounts \cup {None},
          reset: BOOLEAN, later: BOOLEAN]
Record == [epoch: Nat \ {0}, phase: Phases, desired: Accounts, request: Ids \cup {None},
           previous: Accounts, ops: Seq(Entry)]
Host == [active: Accounts, from: Accounts,
         act: {"clear", "confirmed", "pending", "begun", "prepared", "blocked"}]
Asked == [target: Accounts, epoch: Nat]

ASSUME NoneAssumption ==
  /\ None \notin Record
  /\ None \notin [epoch: Nat, phase: Phases, desired: Accounts, previous: Accounts]

Results == {"none", "confirmed", "unconfirmed", "fileOnly", "error"}
Purposes == {"swap", "align", "rotation", "reset", "touch"}
Pcs == {"idle", "bootstrap", "operation", "barrier", "unconfirmed", "begin", "mark", "activate",
        "settle", "align", "recovered", "select", "resetBarrier", "complete"}
Proc == [pc: Pcs, cmd: {"swap", "rotate", "daemon"}, id: Ids \cup {None},
         target: Accounts \cup {None}, live: BOOLEAN, prior: BOOLEAN, recover: BOOLEAN,
         purpose: Purposes, result: Results]
Idle == [pc |-> "idle", cmd |-> "daemon", id |-> None, target |-> None, live |-> TRUE,
         prior |-> FALSE, recover |-> FALSE, purpose |-> "align", result |-> "none"]

(* Types: a record on disk names an account and an epoch of at least one.  *)
TypeOK ==
  /\ record \in Record \cup {None}
  /\ host \in Host
  /\ asked \in [Requests -> Asked \cup {None}]
  /\ proc \in Proc
  /\ moved \subseteq Ids /\ drifted \in BOOLEAN /\ faults \in Nat

Init ==
  /\ record = None
  /\ host \in {[active |-> a, from |-> a, act |-> s] : a \in Accounts, s \in {"clear", "confirmed"}}
  /\ asked = [r \in Requests |-> None]
  /\ proc = Idle /\ moved = {} /\ drifted = FALSE /\ faults = 0

At(pc) == proc.pc = pc
Go(pc) == proc' = [proc EXCEPT !.pc = pc]
End == proc' = Idle
Still == UNCHANGED <<asked, drifted, faults>>
Fault == faults < MaxFaults /\ faults' = faults + 1

Stable == record.phase = "stable"
OnTarget == host.active = record.desired

-----------------------------------------------------------------------------
(* The rotation-operation history.                                         *)

Has(h, o) == \E i \in DOMAIN h : h[i].id = o
Started(h) == {i \in DOMAIN h : h[i].phase = "started"}
Entered(o) == [id |-> o, phase |-> "started", target |-> None, reset |-> FALSE, later |-> FALSE]
Completed(e, a, used) ==
  [e EXCEPT !.phase = "completed", !.target = a, !.reset = used, !.later = FALSE]

(* Another request is recorded: it is later than every operation begun.    *)
Outlived(e) == IF e.phase = "started" THEN [e EXCEPT !.later = TRUE] ELSE e
Aged(h) == [i \in DOMAIN h |-> Outlived(h[i])]

(* reconcile_superseded_non_reset_rotation                                 *)
Superseded(r, e) ==
  /\ r.phase = "stable" /\ e.phase = "started" /\ e.id \notin ResetOps
  /\ e.id # r.request /\ e.later /\ r.previous # r.desired
Resolved(r, e) == IF Superseded(r, e) THEN Completed(e, r.desired, FALSE) ELSE e
Reconciled(r) == [r EXCEPT !.ops = [i \in DOMAIN r.ops |-> Resolved(r, r.ops[i])]]

(* The oldest completed entries make room, one more at most than is needed *)
(* to stay within the limit.                                               *)
Oldest(h) == CHOOSE i \in DOMAIN h : /\ h[i].phase = "completed"
                                     /\ \A j \in DOMAIN h : h[j].phase = "completed" => i <= j

(* Mutant: room is made only once the limit is passed.                     *)
PrunedLate(h) == IF Len(h) <= Limit THEN h ELSE RemoveAt(h, Oldest(h))

Pruned(h) == IF Len(h) < Limit THEN h ELSE RemoveAt(h, Oldest(h))

(* Mutant: an outcome already recorded is replaced.                        *)
EndedAgain(e, o, a, used) == IF e.id = o THEN Completed(e, a, used) ELSE e

(* complete_rotation_operation                                             *)
Ended(e, o, a, used) ==
  IF e.id = o /\ e.phase = "started" THEN Completed(e, a, used) ELSE e

Finished(h, o, a, used) == [i \in DOMAIN h |-> Ended(h[i], o, a, used)]

(* update_phase                                                            *)
Phased(p) == Reconciled([record EXCEPT !.phase = p])

-----------------------------------------------------------------------------
(* begin_target_request, by its cases.                                     *)

Replays(id) == id # None /\ id = record.request
Restates(t, id, e) == ~Replays(id) /\ e = record.epoch /\ Stable /\ t = record.desired

(* Mutant: a target that is still converging may be replaced.              *)
AdvancesUnstable(t, id, e) == ~Replays(id) /\ e = record.epoch /\ t # record.desired

Advances(t, id, e) == ~Replays(id) /\ e = record.epoch /\ Stable /\ t # record.desired

Recovers(t, id, e) == ~Replays(id) /\ e = record.epoch /\ ~Stable /\ t = record.desired

Restated(id) ==
  [record EXCEPT !.request = id, !.previous = record.desired, !.ops = Aged(record.ops)]

(* Mutant: the new target does not advance the epoch.                      *)
AdvancedSameEpoch(t, id) ==
  [record EXCEPT !.phase = "converging", !.desired = t, !.request = id,
                 !.previous = record.desired, !.ops = Aged(record.ops)]

Advanced(t, id) ==
  [record EXCEPT !.epoch = @ + 1, !.phase = "converging", !.desired = t, !.request = id,
                 !.previous = record.desired, !.ops = Aged(record.ops)]
Advance(t, id) == /\ record.epoch < MaxEpoch
                  /\ record' = Advanced(t, id) /\ moved' = moved \cup ({id} \ {None})

-----------------------------------------------------------------------------
(* What the host's activation may answer: [host, result] pairs.            *)

HostIs(a, s) == [active |-> a, from |-> a, act |-> s]
Answer(h, r) == [host |-> h, result |-> r]

(* reconcile_activation_barrier_unlocked_under_runtime_lease               *)
PendingAnswers(a) ==
  {Answer(HostIs(a, "confirmed"), "confirmed"), Answer(HostIs(a, "pending"), "unconfirmed"),
   Answer(HostIs(a, "pending"), "error"), Answer(HostIs(a, "blocked"), "error")}
BarrierAnswers(live) ==
  CASE host.act \in {"clear", "confirmed"} -> {Answer(host, "none")}
    [] host.act = "blocked" -> {Answer(host, "error")}
    [] host.act = "pending" ->
         {x \in PendingAnswers(host.active) : live \/ x.result # "confirmed"}
    [] host.act \in {"begun", "prepared"} ->
         {Answer(HostIs(host.from, "clear"), "none"), Answer(HostIs(host.active, "blocked"), "error")}
           \cup {x \in PendingAnswers(host.active) :
                   host.act = "prepared" /\ (live \/ x.result # "confirmed")}

(* activate_with_unlocked_reload_under_runtime_lease: an activation still  *)
(* pending is answered for, whichever its target.                          *)
ActivationAnswers(t, live) ==
  CASE host.act \notin {"clear", "confirmed"} -> BarrierAnswers(live)
    [] OTHER ->
         {Answer(host, "error"), Answer(HostIs(host.active, "clear"), "error")}
           \cup {Answer(HostIs(a, "blocked"), "error") : a \in {t, host.active}}
           \cup (IF live THEN PendingAnswers(t) ELSE {Answer(HostIs(t, "pending"), "fileOnly")})

(* The host takes the answer; only interference brings on a manual review. *)
Take(x) ==
  /\ host' = x.host
  /\ IF x.host.act = "blocked" /\ host.act # "blocked" THEN Fault ELSE UNCHANGED faults

(* A crash inside the activation leaves the host in any of these: begun    *)
(* before the store is written, prepared after.                            *)
Torn(t, live) ==
  {host} \cup {x.host : x \in ActivationAnswers(t, live)}
    \cup (IF host.act \in {"clear", "confirmed"}
          THEN {HostIs(host.active, "begun"),
                [active |-> t, from |-> host.active, act |-> "prepared"]}
          ELSE {})

-----------------------------------------------------------------------------
(* A command takes the lease.  Ask: a client forms a swap request from the *)
(* epoch it sees; the transport may deliver it late, again, or never.      *)

Ask(r, t) ==
  /\ asked[r] = None
  /\ asked' = [asked EXCEPT ![r] =
                 [target |-> t, epoch |-> IF record = None THEN 1 ELSE record.epoch]]
  /\ UNCHANGED <<record, host, proc, moved, drifted, faults>>

(* reject_stale_request_before_io                                          *)
StaleBeforeIo(r) ==
  IF record = None THEN asked[r].epoch # 1
                   ELSE r # record.request /\ asked[r].epoch # record.epoch

(* request_pool_target_with up to its barrier.                             *)
SwapArrives(r) ==
  /\ At("idle") /\ asked[r] # None /\ ~StaleBeforeIo(r)
  /\ proc' = [Idle EXCEPT !.pc = "barrier", !.cmd = "swap", !.id = r,
                          !.target = asked[r].target, !.purpose = "swap"]
  /\ UNCHANGED <<record, host, moved>> /\ Still

RotateArrives(o, live) ==
  /\ At("idle")
  /\ proc' = [Idle EXCEPT !.pc = "bootstrap", !.cmd = "rotate", !.id = o, !.live = live]
  /\ UNCHANGED <<record, host, moved>> /\ Still

DaemonTick ==
  /\ At("idle")
  /\ proc' = [Idle EXCEPT !.pc = "bootstrap", !.cmd = "daemon"]
  /\ UNCHANGED <<record, host, moved>> /\ Still

(* Mutant: the first record's epoch is zero.                               *)
BootstrappedAtZero == [epoch |-> 0, phase |-> "stable", desired |-> host.active, request |-> None,
                       previous |-> host.active, ops |-> <<>>]

Bootstrapped == [epoch |-> 1, phase |-> "stable", desired |-> host.active, request |-> None,
                 previous |-> host.active, ops |-> <<>>]
Bootstrap ==
  /\ At("bootstrap")
  /\ record' = IF record = None THEN Bootstrapped ELSE record
  /\ Go(CASE proc.cmd = "swap" -> "begin"
          [] proc.cmd # "swap" /\ proc.id = None -> "barrier"
          [] OTHER -> "operation")
  /\ UNCHANGED <<host, moved>> /\ Still

-----------------------------------------------------------------------------
(* begin_rotation_operation: what is superseded is completed first.        *)

Current == Reconciled(record)

OperationReplayed ==
  /\ At("operation")
  /\ \E i \in DOMAIN Current.ops : Current.ops[i].id = proc.id /\ Current.ops[i].phase = "completed"
  /\ record' = Current
  /\ End /\ UNCHANGED <<host, moved>> /\ Still

OperationRecovers ==
  /\ At("operation")
  /\ \E i \in Started(Current.ops) : Current.ops[i].id = proc.id
  /\ record' = Current
  /\ proc' = [proc EXCEPT !.pc = "barrier", !.recover = TRUE]
  /\ UNCHANGED <<host, moved>> /\ Still

OperationBlocked ==
  /\ At("operation")
  /\ ~Has(Current.ops, proc.id) /\ Started(Current.ops) # {}
  /\ record' = Current
  /\ End /\ UNCHANGED <<host, moved>> /\ Still

OperationStarts ==
  /\ At("operation")
  /\ ~Has(Current.ops, proc.id) /\ Started(Current.ops) = {}
  /\ record' = [Current EXCEPT !.ops = Append(Pruned(Current.ops), Entered(proc.id))]
  /\ Go("barrier") /\ UNCHANGED <<host, moved>> /\ Still

-----------------------------------------------------------------------------
(* The activation barrier every command passes first.                      *)

AfterBarrier == IF proc.cmd = "swap" THEN "bootstrap" ELSE "align"

Barrier(x) ==
  /\ At("barrier") /\ x \in BarrierAnswers(proc.live) /\ Take(x)
  /\ proc' = CASE x.result = "error" -> Idle
               [] x.result = "unconfirmed" -> [proc EXCEPT !.pc = "unconfirmed"]
               [] OTHER -> [proc EXCEPT !.pc = AfterBarrier, !.prior = (x.result = "confirmed")]
  /\ UNCHANGED <<record, moved, asked, drifted>>

MarkUnconfirmed ==
  /\ At("unconfirmed")
  /\ record' = IF record = None THEN None ELSE Phased("degraded")
  /\ End /\ UNCHANGED <<host, moved>> /\ Still

(* request_pool_target_with after the barrier.  A replay, or a target that *)
(* is stable already, ends here when the host is on it.                    *)
AfterBegin == IF Stable /\ OnTarget THEN End ELSE Go("mark")

SwapReplayed ==
  /\ At("begin") /\ Replays(proc.id)
  /\ AfterBegin /\ UNCHANGED <<record, host, moved>> /\ Still

SwapRestates ==
  /\ At("begin") /\ Restates(proc.target, proc.id, asked[proc.id].epoch)
  /\ record' = Restated(proc.id)
  /\ AfterBegin /\ UNCHANGED <<host, moved>> /\ Still

SwapAdvances ==
  /\ At("begin") /\ Advances(proc.target, proc.id, asked[proc.id].epoch)
  /\ Advance(proc.target, proc.id)
  /\ Go("mark") /\ UNCHANGED host /\ Still

SwapRecovers ==
  /\ At("begin") /\ Recovers(proc.target, proc.id, asked[proc.id].epoch)
  /\ Go("mark") /\ UNCHANGED <<record, host, moved>> /\ Still

(* A cross-target request while unstable, or a target found ineligible.    *)
SwapRefused ==
  /\ At("begin") /\ End /\ UNCHANGED <<record, host, moved>> /\ Still

-----------------------------------------------------------------------------
(* The rotation and the daemon first bring the host to the recorded target.*)

(* Mutant: the confirmed activation may be of another account.             *)
AlignConfirmedElsewhere ==
  /\ At("align") /\ proc.prior /\ ~Stable
  /\ record' = Phased("stable")
  /\ Go(IF proc.cmd = "rotate" THEN "recovered" ELSE "select")
  /\ UNCHANGED <<host, moved>> /\ Still

AlignConfirmed ==
  /\ At("align") /\ proc.prior /\ OnTarget /\ ~Stable
  /\ record' = Phased("stable")
  /\ Go(IF proc.cmd = "rotate" THEN "recovered" ELSE "select")
  /\ UNCHANGED <<host, moved>> /\ Still

(* The rotation restates a phase that needs no restating only when the two *)
(* disagree; both converge the recorded target otherwise.                  *)
AlignConverges ==
  /\ At("align") /\ ~(Stable /\ OnTarget) /\ ~(proc.prior /\ OnTarget)
  /\ proc' = [proc EXCEPT !.pc = "mark", !.purpose = "align", !.target = record.desired]
  /\ UNCHANGED <<record, host, moved>> /\ Still

Aligned ==
  /\ At("align") /\ Stable /\ OnTarget
  /\ Go(IF proc.cmd = "rotate" THEN "recovered" ELSE "select")
  /\ UNCHANGED <<record, host, moved>> /\ Still

MarkConverging ==
  /\ At("mark")
  /\ record' = Phased("converging")
  /\ Go("activate") /\ UNCHANGED <<host, moved>> /\ Still

Reloads == proc.live /\ proc.purpose # "reset"
Activate(x) ==
  /\ At("activate") /\ x \in ActivationAnswers(proc.target, Reloads) /\ Take(x)
  /\ proc' = [proc EXCEPT !.result = x.result,
                          !.pc = IF x.result = "fileOnly" /\ proc.purpose = "reset" /\ proc.live
                                 THEN "resetBarrier" ELSE "settle"]
  /\ UNCHANGED <<record, moved, asked, drifted>>

-----------------------------------------------------------------------------
(* The outcome of an activation is recorded.                               *)

(* Mutant: only a rotation's own activation counts.                        *)
SuccessOfRotation == proc.result = "confirmed" /\ proc.purpose = "rotation"

Success == proc.result = "confirmed"

AfterStable ==
  CASE proc.cmd = "rotate" /\ proc.purpose = "align" -> Go("recovered")
    [] proc.cmd = "rotate" /\ proc.purpose = "rotation" -> Go("complete")
    [] OTHER -> End

(* A rotation's own reset writes no phase; a confirmed daemon re-convergence *)
(* writes none either.                                                     *)
WritesPhase == ~(proc.cmd = "rotate" /\ proc.purpose = "reset")

SettleStable ==
  /\ At("settle") /\ Success /\ WritesPhase /\ proc.purpose # "touch"
  /\ record' = Phased("stable") /\ drifted' = (drifted /\ ~OnTarget)
  /\ AfterStable /\ UNCHANGED <<host, moved, asked, faults>>

(* A rotation may also find that the reload answered another receipt.      *)
SettleDegraded ==
  /\ At("settle") /\ WritesPhase
  /\ ~Success \/ (proc.cmd = "rotate" /\ proc.purpose = "rotation")
  /\ record' = Phased("degraded")
  /\ IF proc.result = "fileOnly" /\ proc.purpose = "rotation" THEN Go("complete") ELSE End
  /\ UNCHANGED <<host, moved>> /\ Still

SettleTouch ==
  /\ At("settle") /\ Success /\ proc.purpose = "touch"
  /\ End /\ UNCHANGED <<record, host, moved>> /\ Still

(* The rotation's banked reset: done, or warned about and passed over.     *)
SettleReset ==
  /\ At("settle") /\ ~WritesPhase
  /\ CASE proc.result \in {"confirmed", "fileOnly"} -> Go("complete")
       [] proc.result = "error" -> Go("select")
       [] OTHER -> End
  /\ UNCHANGED <<record, host, moved>> /\ Still

(* The reset's activation left files only; the reload runs unlocked.  An   *)
(* error of this barrier returns at once.                                  *)
ResetBarrier(x) ==
  /\ At("resetBarrier") /\ x \in BarrierAnswers(proc.live) /\ Take(x)
  /\ proc' = CASE x.result = "error" -> Idle
               [] OTHER -> [proc EXCEPT !.pc = "settle", !.result = x.result]
  /\ UNCHANGED <<record, moved, asked, drifted>>

-----------------------------------------------------------------------------
(* A retried operation whose target is already recorded and active ends.   *)

Resumable == /\ proc.recover /\ proc.id = record.request
             /\ OnTarget /\ record.phase \in {"stable", "degraded"}

CompleteRecovered ==
  /\ At("recovered") /\ Resumable
  /\ record' = [record EXCEPT !.ops = Finished(record.ops, proc.id, record.desired, FALSE)]
  /\ End /\ UNCHANGED <<host, moved>> /\ Still

NotRecovered ==
  /\ At("recovered") /\ ~Resumable
  /\ Go("select") /\ UNCHANGED <<record, host, moved>> /\ Still

(* Quota is read from the provider under a confirmed activation; what it   *)
(* says chooses among a reset, a rotation and neither.                     *)
Reset ==
  /\ At("select") /\ proc.cmd = "rotate" /\ host.act = "confirmed"
  /\ proc' = [proc EXCEPT !.pc = "activate", !.purpose = "reset", !.target = host.active]
  /\ UNCHANGED <<record, host, moved>> /\ Still

DaemonReset(t) ==
  /\ At("select") /\ proc.cmd = "daemon" /\ host.act = "confirmed"
  /\ IF t = record.desired THEN record' = Phased("converging") /\ UNCHANGED moved
     ELSE Advances(t, None, record.epoch) /\ Advance(t, None)
  /\ proc' = [proc EXCEPT !.pc = "activate", !.purpose = "reset", !.target = t]
  /\ UNCHANGED host /\ Still

Rotate(t) ==
  /\ At("select") /\ host.act = "confirmed" /\ t # host.active
  /\ Advances(t, proc.id, record.epoch) /\ Advance(t, proc.id)
  /\ proc' = [proc EXCEPT !.pc = "activate", !.purpose = "rotation", !.target = t]
  /\ UNCHANGED host /\ Still

DaemonTouch ==
  /\ At("select") /\ proc.cmd = "daemon" /\ host.act = "confirmed"
  /\ proc' = [proc EXCEPT !.pc = "activate", !.purpose = "touch", !.target = host.active]
  /\ UNCHANGED <<record, host, moved>> /\ Still

NothingSelected ==
  /\ At("select") /\ End /\ UNCHANGED <<record, host, moved>> /\ Still

(* complete_rotation_operation at the end of a rotation or of its reset; a *)
(* different outcome already recorded is an error and stays.               *)
Complete ==
  /\ At("complete")
  /\ record' = [record EXCEPT !.ops =
                  IF proc.purpose = "reset" THEN Finished(record.ops, proc.id, host.active, TRUE)
                                            ELSE Finished(record.ops, proc.id, proc.target, FALSE)]
  /\ End /\ UNCHANGED <<host, moved>> /\ Still

-----------------------------------------------------------------------------
Crash ==
  /\ ~At("idle") /\ Fault
  /\ host' \in IF At("activate") THEN Torn(proc.target, Reloads) ELSE {host}
  /\ End /\ UNCHANGED <<record, asked, moved, drifted>>

(* An import, a hand edit, a runtime that refreshes its token or exits:    *)
(* whoever writes the active account takes the lease.                      *)
Others(a, s) ==
  /\ At("idle") /\ Fault /\ host.act \notin {"begun", "prepared"}
  /\ host' = HostIs(a, s) /\ host' # host
  /\ drifted' = (drifted \/ a # host.active)
  /\ UNCHANGED <<record, asked, proc, moved>>

(* resolve_manual_review: the operator accepts the files as they are.      *)
Resolve ==
  /\ At("idle") /\ host.act = "blocked"
  /\ host' = HostIs(host.active, "pending")
  /\ UNCHANGED <<record, proc, moved>> /\ Still

-----------------------------------------------------------------------------
Swap == SwapReplayed \/ SwapRestates \/ SwapAdvances \/ SwapRecovers \/ SwapRefused
Operation == OperationReplayed \/ OperationRecovers \/ OperationBlocked \/ OperationStarts
Align == AlignConfirmed \/ AlignConverges \/ Aligned \/ MarkConverging
Settle == SettleStable \/ SettleDegraded \/ SettleTouch \/ SettleReset
Select == \/ CompleteRecovered \/ NotRecovered \/ Reset \/ DaemonTouch \/ NothingSelected
          \/ Complete \/ \E t \in Accounts : DaemonReset(t) \/ Rotate(t)
AnyBarrier == \E x \in BarrierAnswers(proc.live) : Barrier(x) \/ ResetBarrier(x)
AnyActivate == \E x \in ActivationAnswers(proc.target, Reloads) : Activate(x)
Step == \/ Bootstrap \/ Operation \/ AnyBarrier \/ MarkUnconfirmed \/ Swap \/ Align
        \/ AnyActivate \/ Settle \/ Select
Arrive == \/ \E r \in Requests : SwapArrives(r) \/ \E t \in Accounts : Ask(r, t)
          \/ \E o \in Ops \cup {None}, live \in BOOLEAN : RotateArrives(o, live)
          \/ DaemonTick
Environment == \/ Crash \/ Resolve
               \/ \E a \in Accounts, s \in {"clear", "confirmed", "pending"} : Others(a, s)
Next == Arrive \/ Step \/ Environment

Spec == Init /\ [][Next]_vars

(* A command that holds the lease runs on, an operator resolves a review,  *)
(* the daemon gets the lease now and then, and the runtimes acknowledge a  *)
(* reload of the daemon's again and again.                                 *)
Confirming(x) == proc.cmd = "daemon" /\ x.result = "confirmed"
LiveSpec ==
  /\ Spec /\ WF_vars(Step) /\ SF_vars(Resolve) /\ SF_vars(DaemonTick)
  /\ SF_vars(\E x \in BarrierAnswers(proc.live) : Confirming(x) /\ Barrier(x))
  /\ SF_vars(\E x \in ActivationAnswers(proc.target, Reloads) : Confirming(x) /\ Activate(x))

-----------------------------------------------------------------------------
(* The pool's target is published before the host presents it, and a host  *)
(* nobody else has switched serves it, or while it converges the one       *)
(* before, or after a crash will serve one of the two.                     *)
HostFollows ==
  record # None /\ ~drifted =>
    {host.active, host.from} \subseteq
      (IF Stable THEN {record.desired} ELSE {record.desired, record.previous})

(* The decision in force, as the record on disk states it.                 *)
Pool ==
  IF record = None THEN None
  ELSE [epoch |-> record.epoch, phase |-> record.phase,
        desired |-> record.desired, previous |-> record.previous]
Target == INSTANCE PoolTarget WITH pool <- Pool, serving <- host.active, adrift <- drifted

(* Whatever steps the commands take, the pool decides one target at a time *)
(* and the host serves nothing but decided targets: module PoolTarget.     *)
ServesDecisions == Target!TargetSpec

(* A journal that validate_record accepts: the commit refuses any other,   *)
(* and a journal it refuses would stop every command.                      *)
HistoryValid ==
  record # None =>
    /\ Len(record.ops) <= Limit
    /\ \A i, j \in DOMAIN record.ops : record.ops[i].id = record.ops[j].id => i = j
    /\ Cardinality(Started(record.ops)) <= 1

(* A swap request moves the pool at most once, however often and however   *)
(* late it is delivered.                                                   *)
Moves(id) == /\ record # None /\ record' # None
             /\ record'.desired # record.desired /\ record'.request = id
RequestMovesOnce == [][\A r \in Requests : Moves(r) => r \notin moved]_vars

(* What was answered for a rotation operation is answered for it again, as *)
(* long as the history remembers it, and the history stays valid.          *)
(* (begin_rotation_operation, complete_rotation_operation)                 *)
HistoryKept ==
  [][HistoryValid' /\ (record # None =>
       \A e \in {record.ops[i] : i \in DOMAIN record.ops} :
         e.phase = "completed" =>
           \A f \in {record'.ops[i] : i \in DOMAIN record'.ops} : f.id = e.id => f = e)]_vars

(* A pool left converging or degraded by whatever happened is stable again.*)
Unsettled == record # None /\ ~Stable
PoolSettles == Unsettled ~> ~Unsettled
=============================================================================
