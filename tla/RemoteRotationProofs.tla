------------------------- MODULE RemoteRotationProofs -------------------------
(***************************************************************************)
(* Proofs about RemoteRotation: the types, that no operation is left       *)
(* running on the VPS behind a newer one, and that an operation is handed  *)
(* off only once the VPS has completed it and settled only by the turn of  *)
(* its receipt.                                                            *)
(***************************************************************************)
EXTENDS RemoteRotation, TLAPS

(* The command on the Mac works on the operation that the journal holds;   *)
(* what it adopts for one is an operation the VPS has completed.           *)
Adopting == {"activate", "reload", "observe", "handoff"}
ControlKnows ==
  /\ proc.op # None => journal # None /\ journal.op = proc.op
  /\ proc.pc \in {"status", "conflict", "sent"} => proc.op # None
  /\ proc.pc = "request" => proc.op = None
  /\ proc.pc \in Adopting =>
       proc.seen # None /\ (proc.op # None => ops[proc.op].phase = "completed")

ServerKnows == server.pc # "idle" => server.op # None
ServedJournaled == journal = None => served = {}

IInv ==
  /\ TypeOK /\ ControlKnows /\ ServerKnows /\ ServedJournaled
  /\ HandedOffCompleted /\ NothingAbandoned

-----------------------------------------------------------------------------
(* A turn that starts over, tries again or is over is a turn.              *)
LEMMA WaitingTyped == ASSUME NEW a \in Accounts PROVE Waiting(a) \in Turn
BY DEF Waiting, Turn, Kinds

LEMMA GoneTyped == ASSUME Accounts # {} PROVE Gone \in Turn
<1> DEFINE a == CHOOSE b \in Accounts : TRUE
<1>1. a \in Accounts
  OBVIOUS
<1> HIDE DEF a
<1>2. [Waiting(a) EXCEPT !.pc = "ended"] \in Turn
  BY <1>1, WaitingTyped DEF Turn
<1> QED BY <1>2 DEF Gone, a

LEMMA TriedTyped == ASSUME NEW r \in Turn PROVE Tried(r) \in Turn
<1>1. r.on \in Accounts /\ [r EXCEPT !.tries = @ + 1] \in Turn
  BY DEF Turn
<1> QED BY <1>1, GoneTyped DEF Tried

(* The command on the Mac is idle.                                         *)
LEMMA IdleTyped == Idle \in Proc /\ Idle.op = None /\ Idle.pc = "idle"
BY DEF Idle, Proc, Pcs, Kinds

(* A step that leaves the records of the operations alone, and lets the    *)
(* command go on or end, keeps what is known.                              *)
LEMMA Aside ==
  ASSUME IInv, TypeOK', UNCHANGED <<journal, ops, server, served>>, proc' \in {proc, Idle}
  PROVE  IInv'
<1>1. ControlKnows'
  BY IdleTyped DEF IInv, ControlKnows, Adopting
<1>2. ServerKnows' /\ ServedJournaled' /\ HandedOffCompleted' /\ NothingAbandoned'
  BY DEF IInv, ServerKnows, ServedJournaled, HandedOffCompleted, NothingAbandoned
<1> QED BY <1>1, <1>2 DEF IInv

-----------------------------------------------------------------------------
LEMMA InitInv == Init => IInv
<1> SUFFICES ASSUME Init PROVE IInv
  OBVIOUS
<1>1. PICK a \in Accounts :
        /\ mac = [disk |-> a, loaded |-> a]
        /\ turn = [t \in Turns |-> Waiting(a)]
        /\ pool = [epoch |-> 1, desired |-> a, phase |-> "stable", request |-> None]
  BY DEF Init
<1>2. TypeOK
  BY <1>1, WaitingTyped, IdleTyped DEF Init, TypeOK, Resting, Pool, Entry, Kinds
<1>3. ControlKnows /\ ServerKnows /\ ServedJournaled /\ HandedOffCompleted /\ NothingAbandoned
  BY IdleTyped DEF Init, ControlKnows, ServerKnows, ServedJournaled, HandedOffCompleted, NothingAbandoned,
                   Adopting, Resting
<1> QED BY <1>2, <1>3 DEF IInv

(* The steps of a turn that leave the journal alone.                       *)
LEMMA TurnSteps ==
  ASSUME IInv, NEW t \in Turns,
         TurnReloads(t) \/ TurnAccepts(t) \/ TurnEnds(t) \/ (\E k \in Kinds : TurnFails(t, k))
  PROVE  IInv'
<1>0. TypeOK /\ turn[t] \in Turn /\ turn \in [Turns -> Turn] /\ mac \in [disk : Accounts, loaded : Accounts]
  BY DEF IInv, TypeOK
<1>a. Gone \in Turn
  BY <1>0, GoneTyped
<1>1. CASE TurnReloads(t)
  <2> DEFINE a == IF mac.loaded # turn[t].on THEN mac.loaded ELSE mac.disk
  <2>1. a \in Accounts
    BY <1>0
  <2>2. /\ mac' = [mac EXCEPT !.loaded = a]
        /\ turn' = [turn EXCEPT ![t] = [[turn[t] EXCEPT !.used = turn[t].used \cup {"reload"}] EXCEPT !.on = a]]
        /\ UNCHANGED <<journal, proc, wire, vpsVars, served, events>>
    BY <1>1, <1>0 DEF TurnReloads
  <2> HIDE DEF a
  <2>3. [[turn[t] EXCEPT !.used = turn[t].used \cup {"reload"}] EXCEPT !.on = a] \in Turn
    BY <2>1, <1>0 DEF Turn
  <2>4. TypeOK'
    BY <2>1, <2>2, <2>3, <1>0 DEF TypeOK, vpsVars
  <2> QED BY <2>2, <2>4, Aside DEF vpsVars
<1>2. CASE TurnAccepts(t)
  <2>1. [[turn[t] EXCEPT !.pc = "ack"] EXCEPT !.tries = 0] \in Turn
    BY <1>0 DEF Turn
  <2>2. turn' \in [Turns -> Turn] /\ mac' \in [disk : Accounts, loaded : Accounts]
    BY <2>1, <1>2, <1>0, <1>a DEF TurnAccepts
  <2>3. UNCHANGED <<journal, proc, wire, vpsVars, served, events>>
    BY <1>2 DEF TurnAccepts
  <2>4. TypeOK'
    BY <2>2, <2>3, <1>0 DEF TypeOK, vpsVars
  <2> QED BY <2>3, <2>4, Aside DEF vpsVars
<1>3. CASE TurnEnds(t)
  <2>1. /\ turn' = [turn EXCEPT ![t] = Gone] /\ proc' \in {proc, Idle}
        /\ UNCHANGED <<journal, mac, wire, vpsVars, served, events>>
    BY <1>3 DEF TurnEnds
  <2>2. TypeOK'
    BY <2>1, <1>0, <1>a, IdleTyped DEF TypeOK, vpsVars
  <2> QED BY <2>1, <2>2, Aside DEF vpsVars
<1>4. ASSUME NEW k \in Kinds, TurnFails(t, k)
      PROVE  IInv'
  <2> DEFINE r == [turn[t] EXCEPT !.pc = "rotate", !.kind = k, !.tries = 0,
                                  !.used = turn[t].used \cup Spent(k), !.from = mac.disk]
  <2>1. r \in Turn
    BY <1>0 DEF Turn, Spent, Kinds
  <2>2. /\ turn' = [turn EXCEPT ![t] = Gone] \/ turn' = [turn EXCEPT ![t] = r]
        /\ UNCHANGED <<journal, mac, proc, wire, vpsVars, served, events>>
    <3>1. Rotating(t, k) => turn' = [turn EXCEPT ![t] = r]
      BY <1>0 DEF Rotating
    <3> HIDE DEF r
    <3> QED BY <3>1, <1>4 DEF TurnFails
  <2> HIDE DEF r
  <2>3. TypeOK'
    BY <2>1, <2>2, <1>0, <1>a DEF TypeOK, vpsVars
  <2> QED BY <2>2, <2>3, Aside DEF vpsVars
<1> QED BY <1>1, <1>2, <1>3, <1>4

(* The acknowledgement settles an operation that had been handed off.      *)
LEMMA AckSteps == ASSUME IInv, NEW t \in Turns, TurnAcks(t) PROVE IInv'
<1>0. TypeOK /\ turn[t] \in Turn /\ turn \in [Turns -> Turn] /\ mac \in [disk : Accounts, loaded : Accounts]
  BY DEF IInv, TypeOK
<1>1. /\ turn[t].pc = "ack"
      /\ UNCHANGED <<mac, proc, wire, vpsVars, served, events>>
      /\ \/ turn' = [turn EXCEPT ![t] = Tried(turn[t])]
         \/ turn' = [turn EXCEPT ![t] = [Waiting(mac.loaded) EXCEPT !.used = turn[t].used]]
  BY <1>0 DEF TurnAcks, Continues
<1>2. [Waiting(mac.loaded) EXCEPT !.used = turn[t].used] \in Turn
  BY <1>0, WaitingTyped DEF Turn
<1>3. turn' \in [Turns -> Turn]
  BY <1>0, <1>1, <1>2, TriedTyped
<1>4. CASE UNCHANGED journal
  <2>1. TypeOK'
    BY <1>0, <1>1, <1>3, <1>4 DEF TypeOK, vpsVars
  <2> QED BY <1>1, <1>4, <2>1, Aside DEF vpsVars
<1>5. CASE journal # None /\ journal.state # "pending" /\ journal' = [journal EXCEPT !.state = "converged"]
  <2>1. /\ journal' \in Journal /\ journal' # None /\ journal'.op = journal.op
        /\ journal'.state = "converged" /\ journal \in Journal
    BY <1>0, <1>5, NoneAssumption DEF TypeOK, Journal
  <2>2. TypeOK'
    BY <1>0, <1>1, <1>3, <2>1 DEF TypeOK, vpsVars
  <2>3. ControlKnows' /\ ServerKnows' /\ ServedJournaled'
    BY <1>1, <1>5, <2>1 DEF IInv, ControlKnows, ServerKnows, ServedJournaled, vpsVars
  <2>4. HandedOffCompleted' /\ NothingAbandoned'
    BY <1>1, <1>5, <2>1 DEF IInv, HandedOffCompleted, NothingAbandoned, vpsVars
  <2> QED BY <2>2, <2>3, <2>4 DEF IInv
<1> QED BY <1>4, <1>5 DEF TurnAcks, Acknowledges

(* A command begins without an operation.                                  *)
LEMMA RunFacts ==
  ASSUME NEW b \in Turns \cup {"direct", "swap"}, NEW k \in Kinds, NEW pc \in {"begin", "request"},
         Run(b, k, pc)
  PROVE  proc' \in Proc /\ proc'.pc = pc /\ proc'.op = None
<1>1. proc' = [pc |-> pc, by |-> b, kind |-> k, op |-> None, seen |-> None, round |-> 0]
  BY DEF Run, Idle
<1> QED BY <1>1 DEF Proc, Pcs

LEMMA BeginsCommand ==
  ASSUME IInv, TypeOK', UNCHANGED <<journal, ops, server, served>>, proc'.op = None,
         proc'.pc \in {"begin", "request"}
  PROVE  IInv'
<1>1. ControlKnows'
  BY DEF ControlKnows, Adopting
<1>2. ServerKnows' /\ ServedJournaled' /\ HandedOffCompleted' /\ NothingAbandoned'
  BY DEF IInv, ServerKnows, ServedJournaled, HandedOffCompleted, NothingAbandoned
<1> QED BY <1>1, <1>2 DEF IInv

(* A turn's attempt, and a command run by hand.                            *)
LEMMA CommandStarts == ASSUME IInv, Manual \/ (\E t \in Turns : Attempt(t)) PROVE IInv'
<1>0. TypeOK /\ turn \in [Turns -> Turn]
  BY DEF IInv, TypeOK
<1>1. CASE Manual
  <2>1. proc' \in Proc /\ proc'.op = None /\ proc'.pc \in {"begin", "request"}
    <3>1. "usage_limit" \in Kinds
      BY DEF Kinds
    <3> QED BY <1>1, <3>1, RunFacts DEF Manual
  <2>2. UNCHANGED <<journal, mac, turn, wire, vpsVars, served>> /\ events' = events + 1
    BY <1>1 DEF Manual, Event
  <2>3. TypeOK'
    BY <1>0, <2>1, <2>2 DEF TypeOK, vpsVars
  <2> QED BY <2>1, <2>2, <2>3, BeginsCommand DEF vpsVars
<1>2. ASSUME NEW t \in Turns, Attempt(t) PROVE IInv'
  <2>1. turn[t] \in Turn /\ turn[t].kind \in Kinds
    BY <1>0 DEF Turn
  <2>2. UNCHANGED <<journal, mac, wire, vpsVars, served, events>>
    BY <1>2 DEF Attempt
  <2>3. CASE Run(t, turn[t].kind, "begin") /\ UNCHANGED turn
    <3>1. proc' \in Proc /\ proc'.op = None /\ proc'.pc = "begin"
      BY <2>1, <2>3, RunFacts
    <3>2. TypeOK'
      BY <1>0, <2>2, <2>3, <3>1 DEF TypeOK, vpsVars
    <3> QED BY <2>2, <3>1, <3>2, BeginsCommand DEF vpsVars
  <2>4. CASE turn' = [turn EXCEPT ![t] = Tried(turn[t])] /\ UNCHANGED proc
    <3>1. turn' \in [Turns -> Turn]
      BY <1>0, <2>1, <2>4, TriedTyped
    <3>2. TypeOK'
      BY <1>0, <2>2, <2>4, <3>1 DEF TypeOK, vpsVars
    <3> QED BY <2>2, <2>4, <3>2, Aside DEF vpsVars
  <2> QED BY <1>2, <2>3, <2>4 DEF Attempt
<1> QED BY <1>1, <1>2

(* A command that fails, at any of its steps.                              *)
LEMMA FailSteps ==
  ASSUME IInv, Fail, UNCHANGED <<journal, mac, wire, vpsVars, served, events>>
  PROVE  IInv'
<1>0. TypeOK /\ turn \in [Turns -> Turn]
  BY DEF IInv, TypeOK
<1>1. turn' \in [Turns -> Turn] /\ proc' = Idle
  BY <1>0, TriedTyped DEF Fail, CallerFails
<1>2. TypeOK'
  BY <1>0, <1>1, IdleTyped DEF TypeOK, vpsVars
<1> QED BY <1>1, <1>2, Aside DEF vpsVars

-----------------------------------------------------------------------------
(* The receipt that a command runs under.                                  *)
LEMMA ReceiptTyped == ASSUME TypeOK PROVE Receipt \in Receipts \cup {None} /\ proc.kind \in Kinds
BY DEF Receipt, Receipts, TypeOK, Proc

(* An operation that is resumed, or one another request left unresolved.   *)
LEMMA ResumeSteps == ASSUME IInv, Resume \/ Conflict PROVE IInv'
<1>0. TypeOK /\ proc \in Proc /\ journal \in Journal /\ journal # None
  BY DEF IInv, TypeOK, Resume, Conflict, Resumes, Conflicts
<1>1. /\ journal' \in {journal, [journal EXCEPT !.receipt = Receipt]}
      /\ proc' \in {[proc EXCEPT !.pc = "status", !.op = journal.op],
                    [proc EXCEPT !.pc = "conflict", !.op = journal.op]}
      /\ served' \in {served, served \cup {<<Receipt, journal.op>>}}
      /\ UNCHANGED <<mac, turn, wire, vpsVars, events>>
      /\ journal.state = "pending" \/ journal' = journal
  BY DEF Resume, Conflict, Serve, Claims
<1>2. /\ journal' \in Journal /\ journal' # None /\ journal'.op = journal.op /\ journal'.state = journal.state
      /\ journal.state = "pending" \/ journal' = journal
  BY <1>0, <1>1, ReceiptTyped, NoneAssumption DEF Journal
<1>3. /\ proc' \in Proc /\ proc'.op = journal.op /\ proc'.op \in Ops /\ proc'.pc \in {"status", "conflict"}
  BY <1>0, <1>1 DEF Proc, Pcs, Journal
<1>4. served' \subseteq (Receipts \cup {None}) \X Ops
  BY <1>0, <1>1, ReceiptTyped DEF TypeOK, Journal
<1>5. TypeOK'
  BY <1>0, <1>1, <1>2, <1>3, <1>4 DEF TypeOK, vpsVars
<1>6. ControlKnows' /\ ServerKnows' /\ ServedJournaled' /\ HandedOffCompleted'
  BY <1>1, <1>2, <1>3, NamesAssumption
     DEF IInv, ControlKnows, Adopting, ServerKnows, ServedJournaled, HandedOffCompleted, vpsVars
<1>7. NothingAbandoned'
  BY <1>1, <1>2 DEF IInv, NothingAbandoned, vpsVars
<1> QED BY <1>5, <1>6, <1>7 DEF IInv

(* A fresh operation replaces one that was handed off: all that were ever  *)
(* served are completed.                                                   *)
LEMMA BeginSteps == ASSUME IInv, NEW o \in Ops, Begin(o) PROVE IInv'
<1>0. TypeOK /\ proc \in Proc
  BY DEF IInv, TypeOK
<1>1. /\ journal' = Prepared(o) /\ proc' = [proc EXCEPT !.pc = "status", !.op = o]
      /\ served' = served \cup {<<Receipt, o>>} /\ UNCHANGED <<mac, turn, wire, vpsVars, events>>
      /\ journal = None \/ journal.state = "converged"
  BY DEF Begin, Serve, Conflicts
<1>2. /\ journal' \in Journal /\ journal' # None /\ journal'.op = o /\ journal'.state = "pending"
  BY <1>0, <1>1, ReceiptTyped, NoneAssumption DEF Journal, Prepared
<1>3. proc' \in Proc /\ proc'.op = o /\ proc'.pc = "status"
  BY <1>0, <1>1 DEF Proc, Pcs
<1>4. served' \subseteq (Receipts \cup {None}) \X Ops
  BY <1>0, <1>1, ReceiptTyped DEF TypeOK
<1>5. TypeOK'
  BY <1>0, <1>1, <1>2, <1>3, <1>4 DEF TypeOK, vpsVars
<1>6. ControlKnows' /\ ServerKnows' /\ ServedJournaled' /\ HandedOffCompleted'
  BY <1>1, <1>2, <1>3, NamesAssumption DEF IInv, ControlKnows, Adopting, ServerKnows, ServedJournaled, HandedOffCompleted, vpsVars
<1>7. \A p \in served : ops[p[2]].phase = "completed"
  BY <1>1 DEF IInv, ServedJournaled, HandedOffCompleted, NothingAbandoned
<1>8. NothingAbandoned'
  BY <1>1, <1>2, <1>7 DEF NothingAbandoned, vpsVars
<1> QED BY <1>5, <1>6, <1>8 DEF IInv

(* The status that the Mac reads, before or after it sends the command:    *)
(* only a completed operation is adopted.                                  *)
LEMMA StatusSteps == ASSUME IInv, Submit \/ Reconcile \/ ReconcileConflict PROVE IInv'
<1>0. /\ TypeOK /\ proc \in Proc /\ pool \in Pool /\ journal \in Journal /\ journal # None
      /\ journal.op = proc.op /\ proc.op # None /\ proc.op \in Ops
  BY DEF IInv, TypeOK, ControlKnows, Submit, Reconcile, ReconcileConflict, At, Proc
<1>1. UNCHANGED <<journal, mac, vpsVars, served, events>>
  BY DEF Submit, Reconcile, ReconcileConflict
<1>2. CASE Fail /\ UNCHANGED wire
  BY <1>1, <1>2, FailSteps DEF vpsVars
<1>3. CASE Outcome /\ Adopt /\ UNCHANGED <<turn, wire>>
  <2>1. /\ proc' = [proc EXCEPT !.pc = "activate", !.seen = Observed]
        /\ ops[proc.op].phase = "completed"
    BY <1>3 DEF Outcome, Adopt
  <2>2. Observed \in Seen
    BY <1>0 DEF Observed, Seen, Pool
  <2>3. proc' \in Proc /\ proc'.op = proc.op /\ proc'.pc = "activate" /\ proc'.seen # None
    BY <1>0, <2>1, <2>2, NoneAssumption DEF Proc, Pcs
  <2>4. TypeOK'
    BY <1>0, <1>1, <1>3, <2>3 DEF TypeOK, vpsVars
  <2>5. ControlKnows'
    BY <1>0, <1>1, <2>1, <2>3 DEF ControlKnows, vpsVars
  <2>6. ServerKnows' /\ ServedJournaled' /\ HandedOffCompleted' /\ NothingAbandoned'
    BY <1>1 DEF IInv, ServerKnows, ServedJournaled, HandedOffCompleted, NothingAbandoned, vpsVars
  <2> QED BY <2>4, <2>5, <2>6 DEF IInv
<1>4. CASE Go("sent") /\ UNCHANGED turn /\ wire' = wire \cup {[op |-> proc.op, kind |-> journal.kind]}
  <2>1. proc' \in Proc /\ proc'.op = proc.op /\ proc'.pc = "sent"
    BY <1>0, <1>4 DEF Go, Proc, Pcs
  <2>2. wire' \subseteq Command
    BY <1>0, <1>4 DEF TypeOK, Journal, Command
  <2>3. TypeOK'
    BY <1>0, <1>1, <1>4, <2>1, <2>2 DEF TypeOK, vpsVars
  <2>4. ControlKnows'
    BY <1>0, <1>1, <2>1 DEF ControlKnows, Adopting, vpsVars
  <2>5. ServerKnows' /\ ServedJournaled' /\ HandedOffCompleted' /\ NothingAbandoned'
    BY <1>1 DEF IInv, ServerKnows, ServedJournaled, HandedOffCompleted, NothingAbandoned, vpsVars
  <2> QED BY <2>3, <2>4, <2>5 DEF IInv
<1> QED BY <1>2, <1>3, <1>4 DEF Submit, Reconcile, ReconcileConflict

(* The adoption on the Mac, round after round.                             *)
LEMMA AdoptionSteps == ASSUME IInv, Activate \/ Reload \/ Observe PROVE IInv'
<1>0. /\ TypeOK /\ proc \in Proc /\ pool \in Pool /\ mac \in [disk : Accounts, loaded : Accounts]
      /\ proc.seen # None /\ proc.seen \in Seen /\ (proc.op # None => ops[proc.op].phase = "completed")
      /\ UNCHANGED <<journal, wire, vpsVars, served, events>>
  BY DEF IInv, TypeOK, ControlKnows, Adopting, Activate, Reload, Observe, At, Proc
<1>1. CASE Observe /\ (proc' = Idle \/ Fail)
  <2>1. turn' \in [Turns -> Turn] /\ proc' = Idle /\ UNCHANGED mac
    BY <1>0, <1>1, TriedTyped DEF Observe, Fail, CallerFails, TypeOK
  <2>2. TypeOK'
    BY <1>0, <2>1, IdleTyped DEF TypeOK, vpsVars
  <2> QED BY <1>0, <2>1, <2>2, Aside DEF vpsVars
<1>2. ASSUME proc' \in Proc, proc'.op = proc.op, proc'.pc \in Adopting, proc'.seen \in Seen,
             mac' \in [disk : Accounts, loaded : Accounts], UNCHANGED turn
      PROVE  IInv'
  <2>1. TypeOK'
    BY <1>0, <1>2 DEF TypeOK, vpsVars
  <2>2. ControlKnows'
    BY <1>0, <1>2, NoneAssumption DEF IInv, ControlKnows, Adopting, vpsVars
  <2>3. ServerKnows' /\ ServedJournaled' /\ HandedOffCompleted' /\ NothingAbandoned'
    BY <1>0 DEF IInv, ServerKnows, ServedJournaled, HandedOffCompleted, NothingAbandoned, vpsVars
  <2> QED BY <2>1, <2>2, <2>3 DEF IInv
<1>3. CASE Activate \/ Reload
  <2>1. /\ proc' \in Proc /\ proc'.op = proc.op /\ proc'.pc \in Adopting /\ proc'.seen \in Seen
        /\ UNCHANGED turn
    BY <1>0, <1>3 DEF Activate, Reload, Go, Proc, Pcs, Adopting
  <2>2. mac' \in [disk : Accounts, loaded : Accounts]
    BY <1>0, <1>3 DEF Activate, Reload, Seen
  <2> QED BY <1>2, <2>1, <2>2
<1>4. CASE Observe /\ Go("handoff") /\ UNCHANGED turn
  <2>1. proc' \in Proc /\ proc'.op = proc.op /\ proc'.pc = "handoff" /\ proc'.seen \in Seen
    BY <1>0, <1>4 DEF Go, Proc, Pcs
  <2> QED BY <1>0, <1>2, <1>4, <2>1 DEF Observe, Adopting
<1>5. CASE Observe /\ UNCHANGED turn
             /\ proc' = [proc EXCEPT !.pc = "activate", !.seen = Observed, !.round = proc.round + 1]
  <2>1. Observed \in Seen
    BY <1>0 DEF Observed, Seen, Pool
  <2>2. /\ proc \in Proc /\ Observed \in Seen
        /\ proc' = [proc EXCEPT !.pc = "activate", !.seen = Observed, !.round = proc.round + 1]
    BY <1>0, <1>5, <2>1
  <2>3. proc' \in Proc
    <3>1. proc' = [pc |-> "activate", by |-> proc.by, kind |-> proc.kind, op |-> proc.op,
                   seen |-> Observed, round |-> proc.round + 1]
      BY ONLY <2>2 DEF Proc
    <3>2. /\ proc.by \in Turns \cup {"direct", "swap", None} /\ proc.kind \in Kinds
          /\ proc.op \in Ops \cup {None} /\ proc.round + 1 \in Nat
      BY ONLY <2>2 DEF Proc
    <3> QED BY ONLY <3>1, <3>2, <2>2 DEF Proc, Pcs
  <2>4. proc'.op = proc.op /\ proc'.pc = "activate" /\ proc'.seen = Observed
    BY ONLY <2>2 DEF Proc
  <2> QED BY <1>0, <1>2, <1>5, <2>1, <2>3, <2>4 DEF Observe, Adopting
<1>6. Observe => \/ proc' = Idle \/ Fail
                 \/ Go("handoff") /\ UNCHANGED turn
                 \/ /\ proc' = [proc EXCEPT !.pc = "activate", !.seen = Observed, !.round = proc.round + 1]
                    /\ UNCHANGED turn
  BY DEF Observe
<1> QED BY <1>1, <1>3, <1>4, <1>5, <1>6

(* The hand-off of an operation that the VPS has completed.                *)
LEMMA HandOffSteps == ASSUME IInv, HandOff PROVE IInv'
<1>0. /\ TypeOK /\ proc \in Proc /\ turn \in [Turns -> Turn] /\ journal \in Journal /\ journal # None
      /\ journal.op = proc.op /\ proc.op # None /\ proc.seen \in Seen
      /\ ops[journal.op].phase = "completed" /\ proc' = Idle
      /\ UNCHANGED <<mac, wire, vpsVars, served, events>>
  BY NamesAssumption DEF IInv, TypeOK, ControlKnows, Adopting, HandOff, At, Current, Proc, Journal
<1>1. journal' \in {Converged, Awaiting} /\ (Receipt = None => journal.receipt = None /\ journal' = Converged)
  BY DEF HandOff
<1>2. journal' \in Journal /\ journal'.op = journal.op
  BY <1>0, <1>1, ReceiptTyped DEF Journal, Converged, Awaiting
<1>3. journal'.state # "pending" /\ (journal'.state = "awaiting" => journal'.receipt # None)
  BY <1>0, <1>1 DEF Journal, Converged, Awaiting
<1>4. turn' \in [Turns -> Turn]
  <2>1. CASE turn' = turn \/ CallerFails
    BY <1>0, <2>1, TriedTyped DEF CallerFails
  <2>2. CASE Receipt # None /\ Report
    <3>1. proc.by \in Turns /\ turn[proc.by] \in Turn
      BY <1>0, <2>2 DEF Receipt
    <3>2. [turn[proc.by] EXCEPT !.pc = "accept", !.op = proc.op, !.target = proc.seen.account] \in Turn
      BY <1>0, <3>1 DEF Turn, Seen, Proc
    <3> QED BY <1>0, <2>2, <3>1, <3>2, TriedTyped DEF Report
  <2> QED BY <2>1, <2>2 DEF HandOff
<1>5. TypeOK'
  BY <1>0, <1>2, <1>3, <1>4, IdleTyped DEF TypeOK, vpsVars
<1>6. ControlKnows' /\ ServerKnows' /\ ServedJournaled' /\ HandedOffCompleted' /\ NothingAbandoned'
  BY <1>0, <1>2, <1>3, IdleTyped, NoneAssumption
     DEF IInv, ControlKnows, Adopting, ServerKnows, ServedJournaled, HandedOffCompleted, NothingAbandoned, vpsVars
<1> QED BY <1>5, <1>6 DEF IInv

-----------------------------------------------------------------------------
(* A step of the VPS completes operations, or starts one that is not       *)
(* completed: what is known of completed ones stays.                       *)
LEMMA ServerAside ==
  ASSUME IInv, TypeOK', UNCHANGED <<macVars, served>>, ServerKnows',
         \A o \in Ops : ops[o].phase = "completed" => ops'[o].phase = "completed"
  PROVE  IInv'
<1>1. ControlKnows'
  BY DEF IInv, TypeOK, ControlKnows, Adopting, macVars, Proc
<1>2. ServedJournaled'
  BY DEF IInv, ServedJournaled, macVars
<1>3. HandedOffCompleted' /\ NothingAbandoned'
  BY DEF IInv, TypeOK, HandedOffCompleted, NothingAbandoned, macVars, Journal
<1> QED BY <1>1, <1>2, <1>3 DEF IInv

LEMMA SupersededTyped ==
  ASSUME ops \in [Ops -> Entry], NEW request
  PROVE  /\ Superseded(request) \in [Ops -> Entry]
         /\ \A o \in Ops : ops[o].phase = "completed" => Superseded(request)[o].phase = "completed"
BY DEF Superseded, Entry

(* The pool moves to another account.                                      *)
LEMMA MovesTyped ==
  ASSUME TypeOK, NEW a \in Accounts, NEW s \in {"stable", "degraded"}, Moves(a, s)
  PROVE  /\ pool' \in Pool /\ ops' \in [Ops -> Entry]
         /\ pool' = [epoch |-> pool.epoch + 1, desired |-> a, phase |-> s, request |-> None]
         /\ \A o \in Ops : ops[o].phase = "completed" => ops'[o].phase = "completed"
<1>1. pool \in Pool /\ ops \in [Ops -> Entry]
  BY DEF TypeOK
<1>2. pool' = [epoch |-> pool.epoch + 1, desired |-> a, phase |-> s, request |-> None]
  BY DEF Moves
<1>3. pool' \in Pool
  BY <1>1, <1>2 DEF Pool
<1> QED BY <1>1, <1>2, <1>3, SupersededTyped DEF Moves

(* Another's swap, and one that the Mac asks for.                          *)
LEMMA SwapSteps == ASSUME IInv, Foreign \/ SwapRequest PROVE IInv'
<1>0. TypeOK /\ proc \in Proc
  BY DEF IInv, TypeOK
<1>1. PICK a \in Accounts, s \in {"stable", "degraded"} : Moves(a, s)
  BY DEF Foreign, SwapRequest
<1>2. /\ pool' \in Pool /\ ops' \in [Ops -> Entry]
      /\ pool' = [epoch |-> pool.epoch + 1, desired |-> a, phase |-> s, request |-> None]
      /\ \A o \in Ops : ops[o].phase = "completed" => ops'[o].phase = "completed"
  BY <1>0, <1>1, MovesTyped
<1>3. CASE Foreign
  <2>1. UNCHANGED <<macVars, wire, server, served>> /\ events' = events + 1
    BY <1>3 DEF Foreign, Event
  <2>2. TypeOK'
    BY <1>0, <1>2, <2>1 DEF TypeOK, macVars
  <2>3. ServerKnows'
    BY <2>1 DEF IInv, ServerKnows
  <2> QED BY <1>2, <2>1, <2>2, <2>3, ServerAside
<1>4. CASE SwapRequest
  <2>1. UNCHANGED <<journal, mac, turn, wire, server, served, events>> /\ At("request")
    BY <1>4 DEF SwapRequest
  <2> DEFINE n == [epoch |-> pool'.epoch, account |-> pool'.desired]
  <2>2. n \in Seen
    BY <1>2 DEF Seen, Pool
  <2>3. proc' \in {Idle, [proc EXCEPT !.pc = "activate", !.seen = n]}
    BY <1>4 DEF SwapRequest
  <2> HIDE DEF n
  <2>4. /\ proc' \in Proc
        /\ proc' = Idle \/ (proc'.op = proc.op /\ proc'.pc = "activate" /\ proc'.seen # None)
    BY <1>0, <2>2, <2>3, IdleTyped, NoneAssumption DEF Proc, Pcs
  <2>5. TypeOK'
    BY <1>0, <1>2, <2>1, <2>4 DEF TypeOK
  <2>6. proc.op = None
    BY <2>1 DEF IInv, ControlKnows, At
  <2>7. ControlKnows'
    BY <2>4, <2>6, IdleTyped DEF ControlKnows, Adopting
  <2>8. ServerKnows' /\ ServedJournaled'
    BY <2>1 DEF IInv, ServerKnows, ServedJournaled
  <2>9. HandedOffCompleted' /\ NothingAbandoned'
    BY <1>0, <1>2, <2>1 DEF IInv, TypeOK, HandedOffCompleted, NothingAbandoned, Journal
  <2> QED BY <2>5, <2>7, <2>8, <2>9 DEF IInv
<1> QED BY <1>3, <1>4

(* The steps of the VPS.                                                   *)
LEMMA ServerSteps == ASSUME IInv, Server \/ Crash PROVE IInv'
<1>0. /\ TypeOK /\ pool \in Pool /\ ops \in [Ops -> Entry] /\ ServerKnows
      /\ server \in [op : Ops \cup {None}, pc : {"idle", "entered", "decided", "settled"}]
      /\ UNCHANGED <<macVars, served>>
  BY DEF IInv, TypeOK, Server, Crash, Deliver, Decide, Align, Recall, Settle, Complete
<1>1. /\ wire' \subseteq wire /\ events' \in {events, events + 1}
  BY DEF Server, Crash, Deliver, Decide, Align, Recall, Settle, Complete, Event
<1>2. pool' \in Pool
  <2>1. CASE \E a \in Accounts : Decide(a)
    BY <1>0, <2>1 DEF Decide, Pool, ServerKnows
  <2>2. CASE Align \/ Settle
    BY <1>0, <2>2 DEF Align, Settle, Pool
  <2> QED BY <1>0, <2>1, <2>2 DEF Server, Crash, Deliver, Recall, Complete
<1>3. /\ server' \in [op : Ops \cup {None}, pc : {"idle", "entered", "decided", "settled"}]
      /\ server'.pc # "idle" => server'.op # None
  <2>1. CASE \E m \in wire : Deliver(m)
    <3>1. PICK m \in wire : Deliver(m)
      BY <2>1
    <3>2. m.op \in Ops
      BY <1>0 DEF TypeOK, Command
    <3> QED BY <1>0, <3>1, <3>2, NamesAssumption DEF Deliver, ServerKnows
  <2>2. CASE (\E a \in Accounts : Decide(a)) \/ Recall
    BY <1>0, <2>2 DEF Decide, Recall, ServerKnows
  <2>3. CASE Settle
    BY <1>0, <2>3 DEF Settle, ServerKnows, Resting
  <2>4. CASE Align \/ Complete \/ Crash
    BY <1>0, <2>4 DEF Align, Complete, Crash, Resting, ServerKnows
  <2> QED BY <2>1, <2>2, <2>3, <2>4 DEF Server
<1>4. /\ ops' \in [Ops -> Entry]
      /\ \A o \in Ops : ops[o].phase = "completed" => ops'[o].phase = "completed"
  <2>1. CASE \E m \in wire : Deliver(m)
    <3>1. PICK m \in wire : Deliver(m)
      BY <2>1
    <3>2. m.op \in Ops /\ m.kind \in Kinds
      BY <1>0 DEF TypeOK, Command
    <3>3. [phase |-> "started", kind |-> m.kind] \in Entry
      BY <3>2 DEF Entry
    <3>4. \/ ops[m.op].phase # "completed" /\ ops' = [ops EXCEPT ![m.op] = [phase |-> "started", kind |-> m.kind]]
          \/ UNCHANGED ops
      BY <3>1 DEF Deliver
    <3> QED BY <1>0, <3>2, <3>3, <3>4
  <2>2. CASE Align
    BY <1>0, <2>2, SupersededTyped DEF Align
  <2>3. CASE Complete
    <3>1. server.op \in Ops /\ ops' = [ops EXCEPT ![server.op].phase = "completed"]
      BY <1>0, <2>3 DEF Complete, ServerKnows
    <3> QED BY <1>0, <3>1 DEF Entry
  <2> QED BY <1>0, <2>1, <2>2, <2>3 DEF Server, Crash, Decide, Recall, Settle
<1>5. TypeOK'
  BY <1>0, <1>1, <1>2, <1>3, <1>4 DEF TypeOK, macVars
<1>6. ServerKnows'
  BY <1>3 DEF ServerKnows
<1> QED BY <1>0, <1>4, <1>5, <1>6, ServerAside

-----------------------------------------------------------------------------
(* Every step preserves the invariant.                                     *)
LEMMA NextInv == IInv /\ [Next]_vars => IInv'
<1> SUFFICES ASSUME IInv, [Next]_vars PROVE IInv'
  OBVIOUS
<1>1. CASE \E t \in Turns : \/ TurnReloads(t) \/ TurnStep(t) \/ TurnEnds(t)
                            \/ \E k \in Kinds : TurnFails(t, k)
  BY <1>1, TurnSteps, AckSteps, CommandStarts DEF TurnStep
<1>2. CASE Manual \/ Abort
  BY <1>2, CommandStarts, FailSteps DEF Abort
<1>3. CASE Control
  <2>1. CASE Resume \/ Conflict \/ \E o \in Ops : Begin(o)
    BY <2>1, ResumeSteps, BeginSteps
  <2>2. CASE Submit \/ Reconcile \/ ReconcileConflict \/ Activate \/ Reload \/ Observe
    BY <2>2, StatusSteps, AdoptionSteps
  <2>3. CASE HandOff \/ HandOffRefused
    BY <2>3, HandOffSteps, FailSteps DEF HandOffRefused
  <2> QED BY <1>3, <2>1, <2>2, <2>3 DEF Control
<1>4. CASE SwapRequest \/ Foreign
  BY <1>4, SwapSteps
<1>5. CASE Server \/ Crash
  BY <1>5, ServerSteps
<1>6. CASE UNCHANGED vars
  <2>1. TypeOK'
    BY <1>6 DEF IInv, TypeOK, vars, macVars, vpsVars
  <2> QED BY <1>6, <2>1, Aside DEF vars, macVars, vpsVars
<1> QED BY <1>1, <1>2, <1>3, <1>4, <1>5, <1>6 DEF Next

(* What is true of every reachable state.                                  *)
THEOREM Invariance == Spec => []IInv
<1> QED BY InitInv, NextInv, PTL DEF Spec

(* The records of the Mac and the VPS have the shape the code gives them   *)
(* (validate_rotation_journal and the types of remote_authority.rs).       *)
THEOREM TypeCorrect == Spec => []TypeOK
<1>1. IInv => TypeOK
  BY DEF IInv
<1> QED BY <1>1, Invariance, PTL

(* An operation that the journal no longer holds has been completed on the *)
(* VPS (begin_or_resume_rotation_at).                                      *)
THEOREM NoneAbandoned == Spec => []NothingAbandoned
<1>1. IInv => NothingAbandoned
  BY DEF IInv
<1> QED BY <1>1, Invariance, PTL

(* What the journal says of an operation handed off is true, and only the  *)
(* turn that runs under its receipt settles it                             *)
(* (acknowledge_rotation_handoff_at).                                      *)
THEOREM HandOffsTrue == Spec => HandOffs
<1> DEFINE Settled == (journal' # None /\ journal' # journal /\ journal'.state = "converged")
                        => \/ journal'.receipt = None
                           \/ \E t \in Turns : /\ turn[t].pc = "ack" /\ turn[t].op = journal'.op
                                               /\ journal'.receipt = <<t, turn[t].kind>>
<1>1. ASSUME IInv, Next PROVE Settled
  <2>0. TypeOK /\ (journal # None => journal \in Journal)
    BY <1>1 DEF IInv, TypeOK
  <2>1. CASE UNCHANGED journal
    BY <2>1
  <2>2. ASSUME NEW t \in Turns, TurnAcks(t) PROVE Settled
    BY <2>0, <2>2 DEF TurnAcks, Acknowledges, Journal
  <2>3. CASE Resume
    BY <2>0, <2>3 DEF Resume, Claims, Resumes, Journal
  <2>4. ASSUME NEW o \in Ops, Begin(o) PROVE Settled
    BY <2>4 DEF Begin, Prepared
  <2>5. CASE HandOff
    <3>1. journal \in Journal
      BY <2>0, <2>5 DEF HandOff, Current
    <3>2. CASE Receipt = None
      BY <2>5, <3>1, <3>2 DEF HandOff, Converged, Journal
    <3>3. CASE Receipt # None /\ journal.state = "converged"
      <4>1. journal.receipt = Receipt /\ journal' = Awaiting
        BY <2>5, <3>3 DEF HandOff, AlreadyOthers
      <4>2. journal' = journal
        BY <3>1, <3>3, <4>1 DEF Awaiting, Journal
      <4> QED BY <4>2
    <3>4. CASE Receipt # None /\ journal.state # "converged"
      <4>1. journal' = Awaiting
        BY <2>5, <3>4 DEF HandOff
      <4>2. journal'.state = "awaiting"
        BY <3>1, <3>4, <4>1 DEF Awaiting, Journal
      <4> QED BY <4>2
    <3> QED BY <3>2, <3>3, <3>4
  <2>6. CASE UNCHANGED macVars
    BY <2>6 DEF macVars
  <2>7. CASE \E t \in Turns : TurnReloads(t) \/ TurnAccepts(t) \/ Attempt(t) \/ TurnEnds(t)
                              \/ \E k \in Kinds : TurnFails(t, k)
    BY <2>1, <2>7 DEF TurnReloads, TurnAccepts, Attempt, TurnEnds, TurnFails
  <2>8. CASE Manual \/ Abort \/ SwapRequest
    BY <2>1, <2>8 DEF Manual, Abort, SwapRequest
  <2>9. CASE Conflict \/ Submit \/ Reconcile \/ ReconcileConflict \/ Activate \/ Reload \/ Observe \/ HandOffRefused
    BY <2>1, <2>9 DEF Conflict, Submit, Reconcile, ReconcileConflict, Activate, Reload, Observe, HandOffRefused
  <2>10. CASE Server \/ Foreign \/ Crash
    BY <2>6, <2>10 DEF Server, Foreign, Crash, Deliver, Decide, Align, Recall, Settle, Complete
  <2> QED BY <1>1, <2>2, <2>3, <2>4, <2>5, <2>7, <2>8, <2>9, <2>10 DEF Next, TurnStep, Control
<1>2. IInv => HandedOffCompleted
  BY DEF IInv
<1>3. IInv /\ [Next]_vars =>
        [(journal' # None /\ journal' # journal /\ journal'.state = "converged")
           => \/ journal'.receipt = None
              \/ \E t \in Turns : /\ turn[t].pc = "ack" /\ turn[t].op = journal'.op
                                  /\ journal'.receipt = <<t, turn[t].kind>>]_vars
  BY <1>1
<1> QED BY <1>2, <1>3, Invariance, PTL DEF Spec, HandOffs
=============================================================================
