----------------------------- MODULE PoolTarget -----------------------------
(***************************************************************************)
(* What the pool authority promises, whatever commands, crashes and late   *)
(* answers it is made of: a pool decides one target at a time, publishes a *)
(* decision before a host serves it, serves nothing but the decided target *)
(* or the one before it while it converges, and takes the next decision    *)
(* only from a target it has declared stable.                              *)
(***************************************************************************)
EXTENDS Naturals

CONSTANTS Accounts, None

VARIABLES
  pool,     \* None before the first command, then the decision in force
  serving,  \* the account the host's files select
  adrift    \* somebody else has switched the host since

targetVars == <<pool, serving, adrift>>

TargetInit == pool = None /\ serving \in Accounts /\ adrift = FALSE

(* bootstrap_from_active                                                   *)
Adopt ==
  /\ pool = None
  /\ pool' = [epoch |-> 1, phase |-> "stable", desired |-> serving, previous |-> serving]
  /\ UNCHANGED <<serving, adrift>>

(* begin_target_request from a stable target: a new epoch, or the same one.*)
Decide(t) ==
  /\ pool # None /\ pool.phase = "stable" /\ t # pool.desired
  /\ pool' = [epoch |-> pool.epoch + 1, phase |-> "converging",
              desired |-> t, previous |-> pool.desired]
  /\ UNCHANGED <<serving, adrift>>

Restate ==
  /\ pool # None /\ pool.phase = "stable"
  /\ pool' = [pool EXCEPT !.previous = pool.desired]
  /\ UNCHANGED <<serving, adrift>>

(* mark_converging, mark_degraded                                          *)
Unsettle(phase) ==
  /\ pool # None /\ phase # "stable"
  /\ pool' = [pool EXCEPT !.phase = phase]
  /\ UNCHANGED <<serving, adrift>>

(* The activation, or the recovery of one, switches the host.              *)
Serve(a) ==
  /\ pool # None
  /\ adrift \/ (pool.phase # "stable" /\ a \in {pool.desired, pool.previous})
  /\ serving' = a
  /\ UNCHANGED <<pool, adrift>>

(* mark_stable                                                             *)
Confirm ==
  /\ pool # None /\ serving = pool.desired
  /\ pool' = [pool EXCEPT !.phase = "stable"]
  /\ adrift' \in {adrift, FALSE} /\ UNCHANGED serving

Drift(a) == serving' = a /\ adrift' = TRUE /\ UNCHANGED pool

TargetNext ==
  \/ Adopt \/ Restate \/ Confirm
  \/ \E t \in Accounts : Decide(t) \/ Serve(t) \/ Drift(t)
  \/ \E phase \in {"converging", "degraded"} : Unsettle(phase)

TargetSpec == TargetInit /\ [][TargetNext]_targetVars
=============================================================================
