--------------------------- MODULE RemoteRotation ----------------------------
(***************************************************************************)
(* A rotation asked for on the Mac and run on the VPS.  An interrupted     *)
(* turn of a patched runtime (source_turn_template.rs) runs rotate-now     *)
(* under a receipt of its own and retries it; rotate-now keeps one durable *)
(* operation in the transport journal (remote_authority.rs), sends it over *)
(* SSH, reads the authority's status, adopts the committed target on the   *)
(* Mac (main.rs) and hands the operation back; only the turn that loaded   *)
(* the new account acknowledges it.  Manual rotations and swaps share the  *)
(* journal, the Mac's runtime lease and the VPS.                           *)
(*                                                                         *)
(* The VPS is what module PoolAuthority shows of it: one command at a time *)
(* under its lease, an operation absent, started or completed.             *)
(***************************************************************************)
EXTENDS Naturals, FiniteSets

CONSTANTS
  Accounts,    \* provider accounts
  Ops,         \* operation identifiers, each used for one journal
  Turns,       \* interrupted turns, all of one runtime
  None,        \* an absent value
  MaxTries,    \* CODEXSWITCH_ROTATION_MAX_ATTEMPTS
  Rounds,      \* REMOTE_AUTHORITY_RECONCILIATION_ATTEMPTS, rounds of adoption
  MaxEpoch,    \* bound: epochs
  MaxFailures, \* bound: failures of one turn
  MaxEvents    \* bound: manual commands, others' switches and crashes of the VPS

Kinds == {"usage_limit", "token_expired"}
Receipts == Turns \X Kinds

ASSUME NamesAssumption == None \notin Accounts \cup Ops \cup Turns \cup Receipts
ASSUME CallersAssumption == {"direct", "swap"} \cap Turns = {}
ASSUME LimitsAssumption == {MaxTries, Rounds, MaxEpoch, MaxFailures} \subseteq Nat \ {0} /\ MaxEvents \in Nat

VARIABLES
  journal,   \* the Mac's rotation transport journal
  mac,       \* the account on the Mac's disk and the one its runtime has loaded
  proc,      \* the control command that holds the Mac's runtime lease
  turn,      \* what each interrupted turn is doing
  wire,      \* rotate-now commands sent and not yet run, identical ones as one
  pool,      \* the VPS authority record
  ops,       \* the VPS rotation-operation history
  server,    \* the rotate-now command running on the VPS
  served,    \* history: operations prepared, with the receipt of each request
  events     \* bounded events so far

macVars == <<journal, mac, proc, turn>>
vpsVars == <<pool, ops, server>>
vars == <<macVars, wire, vpsVars, served, events>>

Journal == [op: Ops, kind: Kinds, receipt: Receipts \cup {None},
            state: {"pending", "awaiting", "converged"}]
Seen == [epoch: Nat, account: Accounts]
Pcs == {"idle", "begin", "status", "conflict", "sent", "request",
        "activate", "reload", "observe", "handoff"}
Proc == [pc: Pcs, by: Turns \cup {"direct", "swap", None}, kind: Kinds, op: Ops \cup {None},
         seen: Seen \cup {None}, round: Nat]
Turn == [pc: {"run", "rotate", "accept", "ack", "ended"}, kind: Kinds, tries: Nat,
         used: SUBSET (Kinds \cup {"reload"}), on: Accounts, from: Accounts,
         op: Ops \cup {None}, target: Accounts \cup {None}]
Pool == [epoch: Nat \ {0}, desired: Accounts, phase: {"stable", "converging", "degraded"},
         request: Ops \cup {None}]
Command == [op: Ops, kind: Kinds]
Entry == [phase: {"absent", "started", "completed"}, kind: Kinds]
ASSUME NoneAssumption == None \notin Journal \cup Seen

Idle == [pc |-> "idle", by |-> None, kind |-> "usage_limit", op |-> None,
         seen |-> None, round |-> 0]

(* Types: the journal is one that validate_rotation_journal accepts; an    *)
(* operation awaiting its caller is bound to a receipt.                    *)
TypeOK ==
  /\ journal \in Journal \cup {None}
  /\ journal # None /\ journal.state = "awaiting" => journal.receipt # None
  /\ mac \in [disk: Accounts, loaded: Accounts]
  /\ proc \in Proc /\ turn \in [Turns -> Turn]
  /\ wire \subseteq Command /\ pool \in Pool /\ ops \in [Ops -> Entry]
  /\ server \in [op: Ops \cup {None}, pc: {"idle", "entered", "decided", "settled"}]
  /\ served \subseteq (Receipts \cup {None}) \X Ops /\ events \in Nat

Waiting(a) == [pc |-> "run", kind |-> "usage_limit", tries |-> 0, used |-> {}, on |-> a,
               from |-> a, op |-> None, target |-> None]
Resting == [op |-> None, pc |-> "idle"]

Init ==
  /\ journal = None /\ proc = Idle /\ wire = {} /\ server = Resting
  /\ \E a \in Accounts :
       /\ mac = [disk |-> a, loaded |-> a]
       /\ turn = [t \in Turns |-> Waiting(a)]
       /\ pool = [epoch |-> 1, desired |-> a, phase |-> "stable", request |-> None]
  /\ ops = [o \in Ops |-> [phase |-> "absent", kind |-> "usage_limit"]]
  /\ served = {} /\ events = 0

At(pc) == proc.pc = pc
Go(pc) == proc' = [proc EXCEPT !.pc = pc]
Event == events < MaxEvents /\ events' = events + 1

Receipt == IF proc.by \in Turns THEN <<proc.by, proc.kind>> ELSE None
Current == journal # None /\ journal.op = proc.op

-----------------------------------------------------------------------------
(* The turn.                                                               *)

Gone == [Waiting(CHOOSE a \in Accounts : TRUE) EXCEPT !.pc = "ended"]
(* codexswitch_retry_rotation_attempt                                      *)
Tried(r) == IF r.tries + 1 < MaxTries THEN [r EXCEPT !.tries = @ + 1] ELSE Gone

(* The runtime has reloaded, or the disk has moved on, since the request.  *)
ExternalReload(t) == mac.loaded # turn[t].on \/ mac.disk # mac.loaded

Spent(k) == IF k = "token_expired" THEN {k, "reload"} ELSE {k}
Rotating(t, k) ==
  turn' = [turn EXCEPT ![t] = [turn[t] EXCEPT !.pc = "rotate", !.kind = k, !.tries = 0,
                                              !.used = @ \cup Spent(k), !.from = mac.disk]]

(* An authentication failure is answered once with an account changed by   *)
(* others, before any rotation.                                            *)
TurnReloads(t) ==
  /\ turn[t].pc = "run" /\ "reload" \notin turn[t].used /\ ExternalReload(t)
  /\ LET a == IF mac.loaded # turn[t].on THEN mac.loaded ELSE mac.disk
     IN /\ mac' = [mac EXCEPT !.loaded = a]
        /\ turn' = [turn EXCEPT ![t].used = @ \cup {"reload"}, ![t].on = a]
  /\ UNCHANGED <<journal, proc, wire, vpsVars, served, events>>

(* A usage limit rotates only from the account the runtime is bound to.    *)
TurnFails(t, k) ==
  /\ turn[t].pc = "run"
  /\ k \in turn[t].used \/ Cardinality(turn[t].used \cap Kinds) < MaxFailures
  /\ IF k \in turn[t].used \/ (k = "usage_limit" /\ mac.disk # mac.loaded)
     THEN turn' = [turn EXCEPT ![t] = Gone]
     ELSE Rotating(t, k)
  /\ UNCHANGED <<journal, mac, proc, wire, vpsVars, served, events>>

(* The report names another account than the failed one, and the runtime's *)
(* own acknowledgement is for it.                                          *)
OwnHandoff(a) == mac.loaded = a
Verified(t, a) == a # turn[t].from /\ OwnHandoff(a)

(* The turn's AuthManager follows the disk to the handed-off account.      *)
TurnAccepts(t) ==
  /\ turn[t].pc = "accept"
  /\ IF mac.disk = turn[t].target
     THEN /\ mac' = [mac EXCEPT !.loaded = mac.disk]
          /\ turn' = [turn EXCEPT ![t].pc = "ack", ![t].tries = 0]
     ELSE turn' = [turn EXCEPT ![t] = Gone] /\ UNCHANGED mac
  /\ UNCHANGED <<journal, proc, wire, vpsVars, served, events>>

(* acknowledge_rotation_handoff_at                                         *)
Acknowledges(o, r) ==
  journal # None /\ journal.op = o /\ journal.receipt = r /\ journal.state # "pending"

Continues(t) ==
  turn' = [turn EXCEPT ![t] = [Waiting(mac.loaded) EXCEPT !.used = turn[t].used]]

(* The acknowledgement takes no lease; its answer may be lost.             *)
TurnAcks(t) ==
  /\ turn[t].pc = "ack"
  /\ \/ /\ Acknowledges(turn[t].op, <<t, turn[t].kind>>)
        /\ journal' = [journal EXCEPT !.state = "converged"]
        /\ Continues(t) \/ turn' = [turn EXCEPT ![t] = Tried(@)]
     \/ turn' = [turn EXCEPT ![t] = Tried(@)] /\ UNCHANGED journal
  /\ UNCHANGED <<mac, proc, wire, vpsVars, served, events>>

(* The turn is abandoned; its control command dies with it.                *)
TurnEnds(t) ==
  /\ turn[t].pc \in {"rotate", "accept", "ack"}
  /\ turn' = [turn EXCEPT ![t] = Gone]
  /\ proc' = IF proc.by = t THEN Idle ELSE proc
  /\ UNCHANGED <<journal, mac, wire, vpsVars, served, events>>

-----------------------------------------------------------------------------
(* The control command on the Mac, under the runtime lease.                *)

CallerFails == IF proc.by \in Turns THEN turn' = [turn EXCEPT ![proc.by] = Tried(@)]
                                    ELSE UNCHANGED turn
Fail == proc' = Idle /\ CallerFails

Run(b, k, pc) == proc' = [Idle EXCEPT !.pc = pc, !.by = b, !.kind = k]

(* A turn's attempt; the lease refuses it while another command runs.      *)
Attempt(t) ==
  /\ turn[t].pc = "rotate" /\ proc.by # t
  /\ IF At("idle") THEN Run(t, turn[t].kind, "begin") /\ UNCHANGED turn
                   ELSE turn' = [turn EXCEPT ![t] = Tried(@)] /\ UNCHANGED proc
  /\ UNCHANGED <<journal, mac, wire, vpsVars, served, events>>

(* rotate-now or swap run by hand.                                         *)
Manual ==
  /\ At("idle") /\ Event
  /\ (\E k \in Kinds : Run("direct", k, "begin")) \/ Run("swap", "usage_limit", "request")
  /\ UNCHANGED <<journal, mac, turn, wire, vpsVars, served>>

(* A timeout, a kill or an error between two steps.                        *)
Abort ==
  /\ ~At("idle") /\ Fail
  /\ UNCHANGED <<journal, mac, wire, vpsVars, served, events>>

(* begin_or_resume_rotation_at                                             *)
SameTerminalCaller == Receipt # None /\ journal.receipt = Receipt
Resumes == /\ journal # None /\ journal.kind = proc.kind
           /\ journal.state = "converged" => SameTerminalCaller
Claims == journal.state = "pending" /\ journal.receipt = None /\ Receipt # None
(* Mutant: an operation another request left unresolved is replaced.       *)
ConflictsNever == FALSE

Conflicts == ~Resumes /\ journal # None /\ journal.state # "converged"

Prepared(o) == [op |-> o, kind |-> proc.kind, receipt |-> Receipt, state |-> "pending"]

Serve(o) == served' = served \cup {<<Receipt, o>>}

Resume ==
  /\ At("begin") /\ Resumes
  /\ journal' = IF Claims THEN [journal EXCEPT !.receipt = Receipt] ELSE journal
  /\ proc' = [proc EXCEPT !.pc = "status", !.op = journal.op] /\ Serve(journal.op)
  /\ UNCHANGED <<mac, turn, wire, vpsVars, events>>

Conflict ==
  /\ At("begin") /\ Conflicts
  /\ proc' = [proc EXCEPT !.pc = "conflict", !.op = journal.op]
  /\ UNCHANGED <<journal, mac, turn, wire, vpsVars, served, events>>

(* A fresh identifier for a request nothing unresolved stands before.      *)
Begin(o) ==
  /\ At("begin") /\ ~Resumes /\ ~Conflicts
  /\ \A p \in served : p[2] # o
  /\ journal' = Prepared(o)
  /\ proc' = [proc EXCEPT !.pc = "status", !.op = o] /\ Serve(o)
  /\ UNCHANGED <<mac, turn, wire, vpsVars, events>>

-----------------------------------------------------------------------------
(* Status, submission and reconciliation.                                  *)

Committed == pool.phase # "converging"
Outcome == ops[proc.op] = [phase |-> "completed", kind |-> journal.kind]
Observed == [epoch |-> pool.epoch, account |-> pool.desired]
Adopt == proc' = [proc EXCEPT !.pc = "activate", !.seen = Observed]

(* rotate_with: an operation the VPS has completed is not sent again.      *)
Submit ==
  /\ At("status")
  /\ \/ Committed /\ Outcome /\ Adopt /\ UNCHANGED <<turn, wire>>
     \/ /\ Committed /\ ~Outcome /\ Go("sent") /\ UNCHANGED turn
        /\ wire' = wire \cup {[op |-> proc.op, kind |-> journal.kind]}
     \/ ~Committed /\ Fail /\ UNCHANGED wire
  /\ UNCHANGED <<journal, mac, vpsVars, served, events>>

(* Mutant: an answer that was lost is taken for a completed operation.     *)
ReconcileBlindly ==
  /\ At("sent")
  /\ IF Committed THEN Adopt /\ UNCHANGED turn ELSE Fail
  /\ UNCHANGED <<journal, mac, wire, vpsVars, served, events>>

(* After the answer, or after the error that may hide one, the Mac reads   *)
(* the status: only an outcome recorded there counts.                      *)
Reconcile ==
  /\ At("sent")
  /\ IF Committed /\ Outcome THEN Adopt /\ UNCHANGED turn ELSE Fail
  /\ UNCHANGED <<journal, mac, wire, vpsVars, served, events>>

(* reconcile_conflicting_rotation_with reads only.                         *)
ReconcileConflict ==
  /\ At("conflict")
  /\ IF Committed /\ Outcome THEN Adopt /\ UNCHANGED turn ELSE Fail
  /\ UNCHANGED <<journal, mac, wire, vpsVars, served, events>>

-----------------------------------------------------------------------------
(* The Mac adopts the committed target.                                    *)

Activate ==
  /\ At("activate") /\ Go("reload")
  /\ mac' = [mac EXCEPT !.disk = proc.seen.account]
  /\ UNCHANGED <<journal, turn, wire, vpsVars, served, events>>

Reload ==
  /\ At("reload") /\ Go("observe")
  /\ mac' = [mac EXCEPT !.loaded = mac.disk]
  /\ UNCHANGED <<journal, turn, wire, vpsVars, served, events>>

(* Converged on the account the authority names now; otherwise the newer   *)
(* target is adopted, a bounded number of times.                           *)
OnTarget == Committed /\ pool.epoch >= proc.seen.epoch /\ pool.desired = proc.seen.account
Newer == Committed /\ pool.epoch > proc.seen.epoch /\ pool.desired # proc.seen.account

Observe ==
  /\ At("observe")
  /\ \/ /\ OnTarget /\ UNCHANGED turn
        /\ IF proc.by = "swap" THEN proc' = Idle ELSE Go("handoff")
     \/ /\ Newer /\ proc.round + 1 < Rounds /\ UNCHANGED turn
        /\ proc' = [proc EXCEPT !.pc = "activate", !.seen = Observed, !.round = @ + 1]
     \/ ~OnTarget /\ (~Newer \/ proc.round + 1 = Rounds) /\ Fail
  /\ UNCHANGED <<journal, mac, wire, vpsVars, served, events>>

(* Mutant: the hand-off itself settles the operation.                      *)
ConvergedAtOnce == [journal EXCEPT !.receipt = Receipt, !.state = "converged"]

(* Mutant: the hand-off keeps the receipt of the request it answers.       *)
AwaitingUnbound == [journal EXCEPT !.state = IF @ = "converged" THEN "converged" ELSE "awaiting"]

(* mark_rotation_awaiting_caller_acceptance_at                             *)
Awaiting == [journal EXCEPT !.receipt = Receipt,
               !.state = IF @ = "converged" THEN "converged" ELSE "awaiting"]
AlreadyOthers == journal.state = "converged" /\ journal.receipt # Receipt
(* mark_direct_rotation_locally_converged_at                               *)
Converged == [journal EXCEPT !.state = "converged"]

Report == turn' = [turn EXCEPT ![proc.by] =
                     IF Verified(proc.by, proc.seen.account)
                     THEN [@ EXCEPT !.pc = "accept", !.op = proc.op, !.target = proc.seen.account]
                     ELSE Tried(@)]

(* The hand-off is recorded before the report leaves; the report, too, may *)
(* be lost.                                                                *)
HandOff ==
  /\ At("handoff") /\ Current /\ proc' = Idle
  /\ IF Receipt = None
     THEN journal.receipt = None /\ journal' = Converged /\ UNCHANGED turn
     ELSE ~AlreadyOthers /\ journal' = Awaiting /\ (Report \/ CallerFails)
  /\ UNCHANGED <<mac, wire, vpsVars, served, events>>

HandOffRefused ==
  /\ At("handoff") /\ Fail
  /\ ~Current \/ (IF Receipt = None THEN journal.receipt # None ELSE AlreadyOthers)
  /\ UNCHANGED <<journal, mac, wire, vpsVars, served, events>>

-----------------------------------------------------------------------------
(* The VPS.                                                                *)

Free == server = Resting
(* A newer stable target of others completes the operations begun before.  *)
Superseded(request) ==
  [o \in Ops |-> IF ops[o].phase = "started" /\ o # request
                 THEN [ops[o] EXCEPT !.phase = "completed"] ELSE ops[o]]

(* Another swap, or the VPS's own rotation, moves the pool.                *)
Moves(a, phase) ==
  /\ Free /\ pool.phase = "stable" /\ a # pool.desired /\ pool.epoch < MaxEpoch
  /\ pool' = [epoch |-> pool.epoch + 1, desired |-> a, phase |-> phase, request |-> None]
  /\ ops' = IF phase = "stable" THEN Superseded(None) ELSE ops
Foreign ==
  /\ Event /\ \E a \in Accounts, s \in {"stable", "degraded"} : Moves(a, s)
  /\ UNCHANGED <<macVars, wire, server, served>>

(* request_pool_target_via_remote_with: the answer is adopted or lost.     *)
SwapRequest ==
  /\ At("request") /\ \E a \in Accounts, s \in {"stable", "degraded"} : Moves(a, s)
  /\ \/ proc' = [proc EXCEPT !.pc = "activate",
                             !.seen = [epoch |-> pool'.epoch, account |-> pool'.desired]]
     \/ proc' = Idle
  /\ UNCHANGED <<journal, mac, turn, wire, server, served, events>>

(* The daemon, or the next command, brings the host to the target.         *)
Align ==
  /\ server.pc \in {"idle", "entered"} /\ pool.phase # "stable"
  /\ Free \/ pool.request # server.op
  /\ pool' = [pool EXCEPT !.phase = "stable"] /\ ops' = Superseded(pool.request)
  /\ UNCHANGED <<macVars, wire, server, served, events>>

(* A command runs once; one that meets another or a completed operation    *)
(* changes nothing.                                                        *)
Deliver(m) ==
  /\ m \in wire /\ wire' = wire \ {m}
  /\ IF Free /\ ops[m.op].phase # "completed"
          /\ \A o \in Ops \ {m.op} : ops[o].phase # "started"
     THEN /\ ops' = [ops EXCEPT ![m.op] = [phase |-> "started", kind |-> m.kind]]
          /\ server' = [op |-> m.op, pc |-> "entered"]
     ELSE UNCHANGED <<ops, server>>
  /\ UNCHANGED <<macVars, pool, served, events>>

(* The target is published under the operation, once.                      *)
Decide(a) ==
  /\ server.pc = "entered"
  /\ pool.phase = "stable" /\ pool.request # server.op /\ a # pool.desired
  /\ pool.epoch < MaxEpoch
  /\ pool' = [epoch |-> pool.epoch + 1, desired |-> a, phase |-> "converging",
              request |-> server.op]
  /\ server' = [server EXCEPT !.pc = "decided"]
  /\ UNCHANGED <<macVars, wire, ops, served, events>>

(* A retry finds the target it published, or keeps the active account.     *)
Recall ==
  /\ server.pc = "entered"
  /\ \/ pool.request = server.op /\ pool.phase # "stable"
        /\ server' = [server EXCEPT !.pc = "decided"]
     \/ pool.phase = "stable" /\ server' = [server EXCEPT !.pc = "settled"]
  /\ UNCHANGED <<macVars, wire, pool, ops, served, events>>

Settle ==
  /\ server.pc = "decided"
  /\ \/ pool' = [pool EXCEPT !.phase = "stable"] /\ server' = [server EXCEPT !.pc = "settled"]
     \/ pool' = [pool EXCEPT !.phase = "degraded"] /\ server' = Resting
  /\ UNCHANGED <<macVars, wire, ops, served, events>>

Complete ==
  /\ server.pc = "settled" /\ server' = Resting
  /\ ops' = [ops EXCEPT ![server.op].phase = "completed"]
  /\ UNCHANGED <<macVars, wire, pool, served, events>>

Crash ==
  /\ ~Free /\ Event /\ server' = Resting
  /\ UNCHANGED <<macVars, wire, pool, ops, served>>

-----------------------------------------------------------------------------
TurnStep(t) == TurnAccepts(t) \/ TurnAcks(t) \/ Attempt(t)
Control == Resume \/ Conflict \/ (\E o \in Ops : Begin(o)) \/ Submit \/ Reconcile
              \/ ReconcileConflict \/ Activate \/ Reload \/ Observe \/ HandOff \/ HandOffRefused
Server == (\E m \in wire : Deliver(m)) \/ (\E a \in Accounts : Decide(a))
            \/ Align \/ Recall \/ Settle \/ Complete

Next ==
  \/ \E t \in Turns : \/ TurnReloads(t) \/ TurnStep(t) \/ TurnEnds(t)
                       \/ \E k \in Kinds : TurnFails(t, k)
  \/ Manual \/ Abort \/ Control \/ SwapRequest
  \/ Server \/ Foreign \/ Crash

Spec == Init /\ [][Next]_vars

-----------------------------------------------------------------------------
(* An operation the journal no longer holds has been completed: no turn,   *)
(* manual command, lost answer or late delivery leaves one running on the  *)
(* VPS behind a newer one (begin_or_resume_rotation_at).                   *)
NothingAbandoned ==
  \A p \in served : journal.op # p[2] => ops[p[2]].phase = "completed"

(* An operation handed to its caller is one the VPS has durably completed, *)
(* however its answer came back.                                           *)
HandedOffCompleted ==
  journal # None /\ journal.state # "pending" => ops[journal.op].phase = "completed"

(* That holds at every step, and a receipt-bound operation is settled only *)
(* by the turn of that very receipt, which has verified it and loaded its  *)
(* account; the control command, another turn or a manual one never        *)
(* settles it.  (acknowledge_rotation_handoff_at)                          *)
HandOffs ==
  [][/\ HandedOffCompleted'
     /\ (journal' # None /\ journal' # journal /\ journal'.state = "converged")
        => \/ journal'.receipt = None
           \/ \E t \in Turns : /\ turn[t].pc = "ack" /\ turn[t].op = journal'.op
                               /\ journal'.receipt = <<t, turn[t].kind>>]_vars
=============================================================================
