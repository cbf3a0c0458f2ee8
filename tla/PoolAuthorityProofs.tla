------------------------ MODULE PoolAuthorityProofs ------------------------
(***************************************************************************)
(* Theorems about the pool authority, for every set of accounts, requests  *)
(* and operations and every history limit.  The inductive invariant IInv   *)
(* says what each program counter knows: whether the record exists, what   *)
(* command runs with which identifier, that an activation in progress is   *)
(* of the recorded target (or of the active account), and that no client   *)
(* has seen a later epoch than the record's.                               *)
(***************************************************************************)
EXTENDS PoolAuthority, SequenceTheorems, FiniteSetTheorems, TLAPS

(* A host nobody is rolling back has nothing to roll back to.              *)
HostSettled ==
  /\ host.act \notin {"begun", "prepared"} => host.from = host.active
  /\ record = None => host.act \notin {"begun", "prepared"}

CommandKnows ==
  /\ proc.pc \notin {"idle", "bootstrap", "barrier", "unconfirmed"} => record # None
  /\ proc.pc = "barrier" /\ proc.cmd # "swap" => record # None
  /\ proc.cmd = "swap" => /\ proc.id \in Requests /\ asked[proc.id] # None
                          /\ proc.target = asked[proc.id].target
  /\ proc.cmd = "rotate" => proc.id \in Ops \cup {None}
  /\ proc.cmd = "daemon" => proc.id = None
  /\ proc.cmd # "rotate" => proc.live = TRUE
  /\ proc.pc = "begin" => proc.cmd = "swap"
  /\ proc.pc = "operation" => proc.id \in Ops
  /\ proc.pc \in {"operation", "align", "recovered", "select", "complete"} =>
       proc.cmd # "swap"
  /\ proc.pc \in {"recovered", "complete"} => proc.cmd = "rotate"
  /\ proc.pc \in {"mark", "activate", "settle", "resetBarrier"} => proc.target \in Accounts
  /\ proc.pc = "complete" => proc.target \in Accounts

(* What a replay of the recorded request asks for is the recorded target.  *)
RequestRecorded ==
  record # None /\ record.request \in Requests =>
    asked[record.request] # None /\ asked[record.request].target = record.desired

(* Nobody asks from a later epoch, and who has moved the pool asked from   *)
(* an earlier one.                                                         *)
EpochsSeen ==
  \A r \in Requests :
    /\ asked[r] # None => asked[r].epoch <= IF record = None THEN 1 ELSE record.epoch
    /\ r \in moved => asked[r] # None /\ record # None /\ asked[r].epoch < record.epoch

ForTarget == proc.target = record.desired /\ ~Stable
ForActive == /\ proc.purpose = "touch" \/ (proc.purpose = "reset" /\ proc.cmd = "rotate")
             /\ proc.target = host.active /\ proc.target = host.from
ActivationKnows ==
  /\ proc.pc \in {"begin", "align", "recovered", "mark", "activate"} =>
       host.act \in {"clear", "confirmed"}
  /\ proc.pc = "bootstrap" /\ proc.cmd = "swap" => host.act \in {"clear", "confirmed"}
  /\ proc.pc = "mark" => proc.target = record.desired
  /\ proc.pc \in {"activate", "settle", "resetBarrier"} => ForTarget \/ ForActive
  /\ proc.pc = "settle" /\ Success =>
       host.active = proc.target /\ host.from = proc.target /\ host.act = "confirmed"
  /\ proc.pc = "settle" /\ proc.result = "fileOnly" => proc.live = FALSE \/ proc.purpose = "reset"
  /\ proc.pc = "resetBarrier" => host.act = "pending" /\ host.active = proc.target

IInv == /\ TypeOK /\ HostSettled /\ CommandKnows /\ RequestRecorded /\ EpochsSeen
        /\ ActivationKnows /\ HostFollows
-----------------------------------------------------------------------------
(* The operators on records and histories keep their types.                *)

LEMMA FunctionIsSeq ==
  ASSUME NEW S, NEW n \in Nat, NEW f \in [1..n -> S]
  PROVE  f \in Seq(S) /\ Len(f) = n
<1>1. f \in Seq(S)
  BY SeqDef
<1>. QED BY <1>1, LenProperties

LEMMA EntryTypes ==
  ASSUME NEW e \in Entry
  PROVE  /\ Outlived(e) \in Entry
         /\ \A a \in Accounts, used \in BOOLEAN : Completed(e, a, used) \in Entry
BY DEF Outlived, Completed, Entry

LEMMA AgedType ==
  ASSUME NEW h \in Seq(Entry)
  PROVE  Aged(h) \in Seq(Entry) /\ Len(Aged(h)) = Len(h)
<1>1. DOMAIN h = 1..Len(h) /\ Len(h) \in Nat /\ \A i \in 1..Len(h) : h[i] \in Entry
  BY LenProperties, ElementOfSeq
<1>2. Aged(h) \in [1..Len(h) -> Entry]
  BY <1>1, EntryTypes DEF Aged
<1>. QED BY <1>1, <1>2, FunctionIsSeq

LEMMA ReconciledType ==
  ASSUME NEW r \in Record
  PROVE  /\ Reconciled(r) \in Record
         /\ Reconciled(r).epoch = r.epoch /\ Reconciled(r).phase = r.phase
         /\ Reconciled(r).desired = r.desired /\ Reconciled(r).request = r.request
         /\ Reconciled(r).previous = r.previous /\ Len(Reconciled(r).ops) = Len(r.ops)
<1>. DEFINE h == [i \in DOMAIN r.ops |-> Resolved(r, r.ops[i])]
<1>1. r.ops \in Seq(Entry) /\ r.desired \in Accounts
  BY DEF Record
<1>2. /\ DOMAIN r.ops = 1..Len(r.ops) /\ Len(r.ops) \in Nat
      /\ \A i \in 1..Len(r.ops) : r.ops[i] \in Entry
  BY <1>1, LenProperties, ElementOfSeq
<1>3. h \in [1..Len(r.ops) -> Entry]
  BY <1>1, <1>2, EntryTypes DEF Resolved
<1>4. h \in Seq(Entry) /\ Len(h) = Len(r.ops)
  BY <1>2, <1>3, FunctionIsSeq
<1>. HIDE DEF h
<1>5. Reconciled(r) = [r EXCEPT !.ops = h]
  BY DEF Reconciled, h
<1>. QED BY <1>4, <1>5 DEF Record

LEMMA PhasedType ==
  ASSUME record \in Record, NEW p \in Phases
  PROVE  /\ Phased(p) \in Record /\ Phased(p).phase = p
         /\ Phased(p).epoch = record.epoch /\ Phased(p).desired = record.desired
         /\ Phased(p).request = record.request /\ Phased(p).previous = record.previous
<1>. DEFINE r == [record EXCEPT !.phase = p]
<1>1. /\ r \in Record /\ r.phase = p
      /\ r.epoch = record.epoch /\ r.desired = record.desired
      /\ r.request = record.request /\ r.previous = record.previous
  BY DEF Record
<1>. HIDE DEF r
<1>2. Phased(p) = Reconciled(r)
  BY DEF Phased, r
<1>. QED BY <1>1, <1>2, ReconciledType

LEMMA FinishedType ==
  ASSUME NEW h \in Seq(Entry), NEW o, NEW a \in Accounts, NEW used \in BOOLEAN
  PROVE  Finished(h, o, a, used) \in Seq(Entry)
<1>1. DOMAIN h = 1..Len(h) /\ Len(h) \in Nat /\ \A i \in 1..Len(h) : h[i] \in Entry
  BY LenProperties, ElementOfSeq
<1>2. Finished(h, o, a, used) \in [1..Len(h) -> Entry]
  BY <1>1, EntryTypes DEF Finished, Ended
<1>. QED BY <1>1, <1>2, FunctionIsSeq

(* With no operation started the oldest completed entry is the first.      *)
LEMMA PrunedIs ==
  ASSUME NEW h \in Seq(Entry), Started(h) = {}, Len(h) >= Limit
  PROVE  Pruned(h) = Tail(h) /\ Len(h) >= 1
<1>1. Limit >= 1 /\ Limit \in Nat
  BY BoundsAssumption
<1>2. DOMAIN h = 1..Len(h) /\ Len(h) \in Nat /\ \A i \in 1..Len(h) : h[i] \in Entry
  BY LenProperties, ElementOfSeq
<1>3. \A i \in 1..Len(h) : h[i].phase = "completed"
  BY <1>2 DEF Started, Entry
<1>4. 1 \in DOMAIN h
  BY <1>1, <1>2
<1>5. Oldest(h) = 1
  BY <1>2, <1>3, <1>4 DEF Oldest
<1>6. RemoveAt(h, 1) = Tail(h)
  BY <1>4 DEF RemoveAt
<1>7. ~(Len(h) < Limit)
  BY <1>1, <1>2
<1>. QED BY <1>1, <1>2, <1>5, <1>6, <1>7 DEF Pruned

LEMMA PrunedType ==
  ASSUME NEW h \in Seq(Entry), Started(h) = {}
  PROVE  Pruned(h) \in Seq(Entry)
<1>1. CASE Len(h) < Limit
  BY <1>1 DEF Pruned
<1>2. CASE ~(Len(h) < Limit)
  <2>1. Len(h) >= Limit
    BY <1>2, BoundsAssumption
  <2>. QED BY <2>1, PrunedIs
<1>. QED BY <1>1, <1>2

-----------------------------------------------------------------------------
(* What the host may answer.                                               *)

LEMMA BarrierAnswer ==
  ASSUME host \in Host, HostSettled, NEW live \in BOOLEAN, NEW x \in BarrierAnswers(live)
  PROVE  /\ x.host \in Host /\ x.result \in Results
         /\ {x.host.active, x.host.from} \subseteq {host.active, host.from}
         /\ x.host.act \notin {"begun", "prepared"} /\ x.host.from = x.host.active
         /\ x.result \in {"none", "confirmed"} => x.host.act \in {"clear", "confirmed"}
         /\ host.act = "pending" => x.host.active = host.active
         /\ x.result = "confirmed" => x.host.active = host.active /\ x.host.act = "confirmed"
         /\ x.result # "fileOnly"
BY DEF BarrierAnswers, PendingAnswers, Answer, HostIs, Host, Results, HostSettled

LEMMA ActivationAnswer ==
  ASSUME host \in Host, HostSettled, host.act \in {"clear", "confirmed"},
         NEW live \in BOOLEAN, NEW t \in Accounts, NEW x \in ActivationAnswers(t, live)
  PROVE  /\ x.host \in Host /\ x.result \in Results
         /\ x.host.active \in {t, host.active}
         /\ x.host.act \notin {"begun", "prepared"} /\ x.host.from = x.host.active
         /\ x.result = "confirmed" => x.host.active = t /\ x.host.act = "confirmed"
         /\ x.result = "fileOnly" => x.host.active = t /\ x.host.act = "pending" /\ live = FALSE
BY DEF ActivationAnswers, PendingAnswers, Answer, HostIs, Host, Results, HostSettled
-----------------------------------------------------------------------------
(* IInv is preserved, action by action.                                    *)

LEMMA RecordFields ==
  \A r \in Record : /\ r.epoch \in Nat \ {0} /\ r.phase \in Phases /\ r.desired \in Accounts
                     /\ r.request \in Ids \cup {None} /\ r.previous \in Accounts
                     /\ r.ops \in Seq(Entry)
BY DEF Record

(* A command that ends, or goes on with the same variables.                *)
LEMMA IdleFields ==
  /\ Idle \in Proc
  /\ Idle.pc = "idle" /\ Idle.cmd = "daemon" /\ Idle.id = None /\ Idle.purpose = "align"
  /\ Idle.live = TRUE
BY DEF Idle, Proc, Pcs, Purposes, Results

LEMMA GoesOn ==
  ASSUME proc \in Proc, NEW pc \in Pcs, Go(pc)
  PROVE  /\ proc' \in Proc /\ proc'.pc = pc
         /\ proc'.cmd = proc.cmd /\ proc'.id = proc.id /\ proc'.target = proc.target
         /\ proc'.purpose = proc.purpose /\ proc'.result = proc.result /\ proc'.live = proc.live
BY DEF Go, Proc

LEMMA InitIInv == Init => IInv
<1>. SUFFICES ASSUME Init PROVE IInv
  OBVIOUS
<1>1. TypeOK
  <2>1. host \in Host
    BY DEF Init, Host
  <2>2. asked \in [Requests -> Asked \cup {None}]
    BY DEF Init
  <2>. QED BY <2>1, <2>2, IdleFields DEF Init, TypeOK
<1>2. HostSettled /\ HostFollows /\ RequestRecorded
  BY DEF Init, HostSettled, HostFollows, RequestRecorded
<1>3. EpochsSeen
  BY DEF Init, EpochsSeen
<1>4. CommandKnows
  BY IdleFields DEF Init, CommandKnows
<1>5. ActivationKnows
  BY IdleFields DEF Init, ActivationKnows
<1>. QED BY <1>1, <1>2, <1>3, <1>4, <1>5 DEF IInv

LEMMA StutterIInv == IInv /\ UNCHANGED vars => IInv'
BY DEF vars, IInv, TypeOK, HostSettled, CommandKnows, RequestRecorded, EpochsSeen, ActivationKnows,
       ForTarget, ForActive, Success, HostFollows, Stable

LEMMA AskIInv ==
  ASSUME IInv, NEW r \in Requests, NEW t \in Accounts, Ask(r, t)
  PROVE  IInv'
<1>1. record # None => record \in Record /\ record.epoch \in Nat
  BY RecordFields DEF IInv, TypeOK
<1>2. TypeOK'
  BY <1>1 DEF IInv, TypeOK, Ask, Asked
<1>3. HostSettled' /\ CommandKnows'
  BY DEF IInv, TypeOK, Ask, HostSettled, CommandKnows
<1>4. RequestRecorded' /\ EpochsSeen'
  BY <1>1 DEF IInv, TypeOK, Ask, RequestRecorded, EpochsSeen
<1>5. ActivationKnows' /\ HostFollows'
  BY DEF IInv, Ask, ActivationKnows, ForTarget, ForActive, Success, HostFollows, Stable
<1>. QED BY <1>2, <1>3, <1>4, <1>5 DEF IInv

(* A command that arrives, or ends, while record and host stay as they are.*)
LEMMA AwaitedIInv ==
  ASSUME IInv, UNCHANGED <<record, host, asked, moved, drifted>>, faults' \in Nat,
         proc' \in Proc, proc'.pc \in {"idle", "bootstrap", "barrier"}, CommandKnows',
         proc'.pc = "bootstrap" => proc'.cmd # "swap"
  PROVE  IInv'
<1>1. TypeOK' /\ HostSettled' /\ RequestRecorded' /\ EpochsSeen' /\ HostFollows'
  BY DEF IInv, TypeOK, HostSettled, RequestRecorded, EpochsSeen, HostFollows, Stable
<1>2. ActivationKnows'
  BY DEF ActivationKnows
<1>. QED BY <1>1, <1>2 DEF IInv

LEMMA SwapArrivesIInv ==
  ASSUME IInv, NEW r \in Requests, SwapArrives(r)
  PROVE  IInv'
<1>1. asked[r] \in Asked /\ asked[r].target \in Accounts
  BY DEF IInv, TypeOK, SwapArrives, Asked
<1>2. /\ proc' \in Proc /\ proc'.pc = "barrier" /\ proc'.cmd = "swap" /\ proc'.id = r
      /\ proc'.target = asked[r].target /\ proc'.live = TRUE
  BY <1>1, IdleFields DEF SwapArrives, Proc, Pcs, Purposes, Ids
<1>3. UNCHANGED <<record, host, asked, moved, drifted, faults>> /\ asked[r] # None
  BY DEF SwapArrives, Still
<1>4. CommandKnows'
  BY <1>2, <1>3 DEF CommandKnows
<1>. QED BY <1>2, <1>3, <1>4, AwaitedIInv DEF IInv, TypeOK

LEMMA RotateArrivesIInv ==
  ASSUME IInv, NEW o \in Ops \cup {None}, NEW live \in BOOLEAN, RotateArrives(o, live)
  PROVE  IInv'
<1>1. proc' \in Proc /\ proc'.pc = "bootstrap" /\ proc'.cmd = "rotate" /\ proc'.id = o
  BY IdleFields DEF RotateArrives, Proc, Pcs, Ids
<1>2. UNCHANGED <<record, host, asked, moved, drifted, faults>>
  BY DEF RotateArrives, Still
<1>3. CommandKnows'
  BY <1>1, <1>2 DEF CommandKnows
<1>. QED BY <1>1, <1>2, <1>3, AwaitedIInv DEF IInv, TypeOK

LEMMA DaemonTickIInv ==
  ASSUME IInv, DaemonTick
  PROVE  IInv'
<1>1. proc' \in Proc /\ proc'.pc = "bootstrap" /\ proc'.cmd = "daemon" /\ proc'.id = None
      /\ proc'.live = TRUE
  BY IdleFields DEF DaemonTick, Proc, Pcs
<1>2. UNCHANGED <<record, host, asked, moved, drifted, faults>>
  BY DEF DaemonTick, Still
<1>3. CommandKnows'
  BY <1>1, <1>2 DEF CommandKnows
<1>. QED BY <1>1, <1>2, <1>3, AwaitedIInv DEF IInv, TypeOK

(* A command that ends early leaves everything else as it is.              *)
LEMMA EndIInv ==
  ASSUME IInv, End, UNCHANGED <<record, host, moved>>, Still
  PROVE  IInv'
<1>1. proc' \in Proc /\ proc'.pc = "idle" /\ proc'.cmd = "daemon" /\ proc'.id = None
      /\ proc'.live = TRUE
  BY IdleFields DEF End
<1>2. CommandKnows'
  BY <1>1 DEF CommandKnows
<1>. QED BY <1>1, <1>2, AwaitedIInv DEF IInv, TypeOK, Still

-----------------------------------------------------------------------------
(* Steps that keep the decision (epoch, target, request) keep what is      *)
(* known of it; a target is declared stable only under a host on it.       *)
LEMMA SameDecision ==
  ASSUME IInv, record # None, record' \in Record,
         record'.epoch = record.epoch, record'.desired = record.desired,
         record'.request = record.request, record'.previous = record.previous,
         UNCHANGED <<host, asked, moved>>,
         \/ host.active = record.desired /\ host.from = record.desired
         \/ drifted' = drifted /\ (record'.phase = "stable" => Stable)
  PROVE  RequestRecorded' /\ EpochsSeen' /\ HostFollows' /\ HostSettled'
<1>1. record' # None /\ record \in Record
  BY NoneAssumption DEF IInv, TypeOK
<1>2. RequestRecorded' /\ EpochsSeen' /\ HostSettled'
  BY <1>1 DEF IInv, RequestRecorded, EpochsSeen, HostSettled
<1>3. HostFollows'
  BY <1>1 DEF IInv, HostFollows, Stable
<1>. QED BY <1>2, <1>3

(* Under an unchanged host and record only the command is to be looked at. *)
LEMMA CommandMoves ==
  ASSUME IInv, UNCHANGED <<record, host, moved>>, Still, proc' \in Proc, CommandKnows',
         ActivationKnows'
  PROVE  IInv'
BY DEF IInv, TypeOK, HostSettled, RequestRecorded, EpochsSeen, HostFollows, Stable, Still

LEMMA BootstrapIInv ==
  ASSUME IInv, Bootstrap
  PROVE  IInv'
<1>1. /\ host.active \in Accounts /\ record \in Record \cup {None}
      /\ record # None => record \in Record
  BY DEF IInv, TypeOK, Host
<1>2. /\ record' \in Record /\ (record # None => record' = record)
      /\ record = None => /\ record'.epoch = 1 /\ record'.desired = host.active
                          /\ record'.request = None
  BY <1>1 DEF Bootstrap, Bootstrapped, Record, Phases
<1>3. UNCHANGED <<host, asked, moved, drifted, faults>> /\ record' # None
  BY <1>2, NoneAssumption DEF Bootstrap, Still
<1>4. HostSettled' /\ HostFollows'
  BY <1>2, <1>3 DEF IInv, HostSettled, HostFollows, Stable
<1>5. RequestRecorded' /\ EpochsSeen'
  BY <1>2, <1>3, IdsAssumption DEF IInv, RequestRecorded, EpochsSeen, Ids
<1>6. proc \in Proc /\ proc.pc = "bootstrap"
  BY DEF IInv, TypeOK, Bootstrap, At
<1>7. \E pc \in {"begin", "barrier", "operation"} :
        /\ Go(pc) /\ (pc = "begin" <=> proc.cmd = "swap")
        /\ pc = "operation" => proc.id # None
  BY DEF Bootstrap
<1>8. PICK pc \in {"begin", "barrier", "operation"} :
        /\ Go(pc) /\ (pc = "begin" <=> proc.cmd = "swap")
        /\ pc = "operation" => proc.id # None
  BY <1>7
<1>9. /\ proc' \in Proc /\ proc'.pc = pc /\ proc'.cmd = proc.cmd /\ proc'.id = proc.id
      /\ proc'.target = proc.target /\ proc'.live = proc.live
  BY <1>6, <1>8, GoesOn DEF Pcs
<1>10. TypeOK'
  BY <1>2, <1>3, <1>9 DEF IInv, TypeOK
<1>11. CommandKnows'
  BY <1>3, <1>6, <1>8, <1>9 DEF IInv, CommandKnows, Proc
<1>12. ActivationKnows'
  BY <1>3, <1>6, <1>8, <1>9 DEF IInv, ActivationKnows
<1>. QED BY <1>4, <1>5, <1>10, <1>11, <1>12 DEF IInv

-----------------------------------------------------------------------------
(* begin_rotation_operation                                                *)

(* It changes nothing of the record but the history, whatever it finds.    *)
LEMMA OperationRecord ==
  ASSUME IInv, Operation
  PROVE  /\ record # None /\ record \in Record /\ record' \in Record /\ record' # None
         /\ record'.epoch = record.epoch /\ record'.phase = record.phase
         /\ record'.desired = record.desired /\ record'.request = record.request
         /\ record'.previous = record.previous
<1>1. record # None /\ record \in Record
  BY DEF IInv, TypeOK, CommandKnows, Operation, At, OperationReplayed, OperationRecovers,
         OperationBlocked, OperationStarts
<1>2. /\ Current \in Record /\ Current.epoch = record.epoch /\ Current.phase = record.phase
      /\ Current.desired = record.desired /\ Current.request = record.request
      /\ Current.previous = record.previous
  BY <1>1, ReconciledType DEF Current
<1>3. CASE OperationStarts
  <2>1. Current.ops \in Seq(Entry) /\ Started(Current.ops) = {} /\ proc.id \in Ops
    BY <1>2, <1>3, RecordFields DEF IInv, CommandKnows, OperationStarts, At
  <2>2. Entered(proc.id) \in Entry
    BY <2>1 DEF Entered, Entry
  <2>3. Append(Pruned(Current.ops), Entered(proc.id)) \in Seq(Entry)
    BY <2>1, <2>2, PrunedType, AppendProperties
  <2>4. /\ record' \in Record /\ record'.epoch = Current.epoch /\ record'.phase = Current.phase
        /\ record'.desired = Current.desired /\ record'.request = Current.request
        /\ record'.previous = Current.previous
    BY <1>2, <1>3, <2>3 DEF OperationStarts, Record
  <2>. QED BY <1>1, <1>2, <2>4, NoneAssumption
<1>. QED BY <1>1, <1>2, <1>3, NoneAssumption
         DEF Operation, OperationReplayed, OperationRecovers, OperationBlocked

LEMMA OperationIInv ==
  ASSUME IInv, Operation
  PROVE  IInv'
<1>1. proc \in Proc /\ proc.pc = "operation" /\ UNCHANGED <<host, asked, moved, drifted, faults>>
  BY DEF IInv, TypeOK, Operation, At, OperationReplayed, OperationRecovers, OperationBlocked,
         OperationStarts, Still
<1>2. RequestRecorded' /\ EpochsSeen' /\ HostFollows' /\ HostSettled'
  BY <1>1, OperationRecord, SameDecision DEF Stable
<1>3. CASE End
  <2>1. proc' \in Proc /\ proc'.pc = "idle" /\ proc'.cmd = "daemon" /\ proc'.id = None
        /\ proc'.live = TRUE
    BY <1>3, IdleFields DEF End
  <2>2. TypeOK' /\ CommandKnows' /\ ActivationKnows'
    BY <1>1, <2>1, OperationRecord DEF IInv, TypeOK, CommandKnows, ActivationKnows
  <2>. QED BY <1>2, <2>2 DEF IInv
<1>4. CASE Go("barrier") \/ OperationRecovers
  <2>1. /\ proc' \in Proc /\ proc'.pc = "barrier" /\ proc'.cmd = proc.cmd
        /\ proc'.id = proc.id /\ proc'.target = proc.target /\ proc'.live = proc.live
    BY <1>1, <1>4 DEF OperationRecovers, Go, Proc, Pcs
  <2>2. TypeOK' /\ CommandKnows' /\ ActivationKnows'
    BY <1>1, <2>1, OperationRecord DEF IInv, TypeOK, CommandKnows, ActivationKnows
  <2>. QED BY <1>2, <2>2 DEF IInv
<1>. QED BY <1>3, <1>4 DEF Operation, OperationReplayed, OperationBlocked, OperationStarts

-----------------------------------------------------------------------------
(* The barrier                                                             *)

(* The answer moves the host no further than a rollback would.             *)
LEMMA BarrierHost ==
  ASSUME IInv, NEW x \in BarrierAnswers(proc.live), Take(x),
         UNCHANGED <<record, moved, asked, drifted>>, proc' \in Proc
  PROVE  TypeOK' /\ HostSettled' /\ RequestRecorded' /\ EpochsSeen' /\ HostFollows'
<1>1. /\ host' = x.host /\ host' \in Host
      /\ {host'.active, host'.from} \subseteq {host.active, host.from}
      /\ host'.act \notin {"begun", "prepared"} /\ host'.from = host'.active
  BY BarrierAnswer DEF IInv, TypeOK, Take, Proc
<1>2. faults' \in Nat
  BY DEF IInv, TypeOK, Take, Fault
<1>3. TypeOK' /\ HostSettled'
  BY <1>1, <1>2 DEF IInv, TypeOK, HostSettled
<1>4. RequestRecorded' /\ EpochsSeen'
  BY DEF IInv, RequestRecorded, EpochsSeen
<1>5. HostFollows'
  BY <1>1 DEF IInv, HostFollows, Stable
<1>. QED BY <1>3, <1>4, <1>5

LEMMA BarrierIInv ==
  ASSUME IInv, NEW x \in BarrierAnswers(proc.live), Barrier(x)
  PROVE  IInv'
<1>1. proc \in Proc /\ proc.pc = "barrier" /\ Take(x) /\ UNCHANGED <<record, moved, asked, drifted>>
  BY DEF IInv, TypeOK, Barrier, At
<1>2. /\ x.result \in {"none", "confirmed", "unconfirmed", "error"} /\ host' = x.host
      /\ x.result \in {"none", "confirmed"} => host'.act \in {"clear", "confirmed"}
  BY <1>1, BarrierAnswer DEF IInv, TypeOK, Take, Results, Proc
<1>3. CASE x.result = "error"
  <2>1. proc' = Idle
    BY <1>3 DEF Barrier
  <2>2. CommandKnows' /\ ActivationKnows'
    BY <2>1, IdleFields DEF CommandKnows, ActivationKnows
  <2>. QED BY <1>1, <2>1, <2>2, BarrierHost, IdleFields DEF IInv
<1>4. CASE x.result = "unconfirmed"
  <2>1. /\ proc' \in Proc /\ proc'.pc = "unconfirmed" /\ proc'.cmd = proc.cmd
        /\ proc'.id = proc.id /\ proc'.target = proc.target /\ proc'.live = proc.live
    BY <1>1, <1>4 DEF Barrier, Proc, Pcs
  <2>2. CommandKnows' /\ ActivationKnows'
    BY <1>1, <2>1 DEF IInv, CommandKnows, ActivationKnows
  <2>. QED BY <1>1, <2>1, <2>2, BarrierHost DEF IInv
<1>5. CASE x.result \in {"none", "confirmed"}
  <2>1. /\ proc' \in Proc /\ proc'.pc = AfterBarrier /\ proc'.cmd = proc.cmd
        /\ proc'.id = proc.id /\ proc'.target = proc.target /\ proc'.live = proc.live
    BY <1>1, <1>5 DEF Barrier, Proc, Pcs, AfterBarrier
  <2>2. CommandKnows'
    BY <1>1, <2>1 DEF IInv, CommandKnows, AfterBarrier
  <2>3. ActivationKnows'
    BY <1>1, <1>2, <1>5, <2>1 DEF ActivationKnows, AfterBarrier
  <2>. QED BY <1>1, <2>1, <2>2, <2>3, BarrierHost DEF IInv
<1>. QED BY <1>2, <1>3, <1>4, <1>5

LEMMA MarkUnconfirmedIInv ==
  ASSUME IInv, MarkUnconfirmed
  PROVE  IInv'
<1>1. UNCHANGED <<host, asked, moved, drifted, faults>> /\ proc' = Idle
  BY DEF MarkUnconfirmed, Still, End
<1>2. CASE record = None
  BY <1>1, <1>2, EndIInv DEF MarkUnconfirmed
<1>3. CASE record # None
  <2>1. /\ record' \in Record /\ record'.phase = "degraded" /\ record'.epoch = record.epoch
        /\ record'.desired = record.desired /\ record'.request = record.request
        /\ record'.previous = record.previous
    BY <1>3, PhasedType DEF IInv, TypeOK, MarkUnconfirmed, Phases
  <2>2. RequestRecorded' /\ EpochsSeen' /\ HostFollows' /\ HostSettled'
    BY <1>1, <1>3, <2>1, SameDecision
  <2>3. TypeOK' /\ CommandKnows' /\ ActivationKnows'
    BY <1>1, <2>1, IdleFields DEF IInv, TypeOK, CommandKnows, ActivationKnows
  <2>. QED BY <2>2, <2>3 DEF IInv
<1>. QED BY <1>2, <1>3

-----------------------------------------------------------------------------
(* begin_target_request                                                    *)

LEMMA AdvancedType ==
  ASSUME record \in Record, NEW t \in Accounts, NEW id \in Ids \cup {None}
  PROVE  /\ Advanced(t, id) \in Record /\ Advanced(t, id).epoch = record.epoch + 1
         /\ Advanced(t, id).phase = "converging" /\ Advanced(t, id).desired = t
         /\ Advanced(t, id).request = id /\ Advanced(t, id).previous = record.desired
<1>1. Aged(record.ops) \in Seq(Entry) /\ record.epoch + 1 \in Nat \ {0}
  BY RecordFields, AgedType
<1>. QED BY <1>1, RecordFields DEF Advanced, Record, Phases

LEMMA RestatedType ==
  ASSUME record \in Record, NEW id \in Ids \cup {None}
  PROVE  /\ Restated(id) \in Record /\ Restated(id).epoch = record.epoch
         /\ Restated(id).phase = record.phase /\ Restated(id).desired = record.desired
         /\ Restated(id).request = id /\ Restated(id).previous = record.desired
<1>1. Aged(record.ops) \in Seq(Entry)
  BY RecordFields, AgedType
<1>. QED BY <1>1, RecordFields DEF Restated, Record

(* A new decision is taken from a stable one, and only under an identifier *)
(* of a swap request that asks for it, or one no swap request has.         *)
LEMMA AdvanceDecision ==
  ASSUME IInv, record # None, Stable, NEW t \in Accounts, NEW id \in Ids \cup {None},
         Advance(t, id), UNCHANGED <<host, asked, drifted, faults>>,
         id \in Requests => asked[id] # None /\ asked[id].target = t,
         proc' \in Proc
  PROVE  /\ TypeOK' /\ RequestRecorded' /\ EpochsSeen' /\ HostFollows' /\ HostSettled'
         /\ record' # None /\ record'.desired = t /\ record'.phase = "converging"
<1>1. record \in Record /\ record.epoch \in Nat
  BY RecordFields DEF IInv, TypeOK
<1>2. /\ record' \in Record /\ record'.epoch = record.epoch + 1 /\ record'.phase = "converging"
      /\ record'.desired = t /\ record'.request = id /\ record'.previous = record.desired
      /\ moved' = moved \cup ({id} \ {None})
  BY <1>1, AdvancedType DEF Advance
<1>3. record' # None
  BY <1>2, NoneAssumption
<1>4. TypeOK' /\ HostSettled'
  BY <1>2, <1>3 DEF IInv, TypeOK, HostSettled
<1>5. RequestRecorded'
  BY <1>2 DEF RequestRecorded
<1>6. EpochsSeen'
  <2>. SUFFICES ASSUME NEW r \in Requests
       PROVE  /\ asked[r] # None => asked[r].epoch <= record.epoch + 1
              /\ r \in moved' => asked[r] # None /\ asked[r].epoch < record.epoch + 1
    BY <1>2, <1>3 DEF EpochsSeen
  <2>1. asked[r] # None => asked[r].epoch \in Nat /\ asked[r].epoch <= record.epoch
    BY DEF IInv, TypeOK, EpochsSeen, Asked
  <2>2. r \in moved' => asked[r] # None
    BY <1>2 DEF IInv, EpochsSeen
  <2>. QED BY <1>1, <2>1, <2>2
<1>7. HostFollows'
  BY <1>2 DEF IInv, HostFollows, Stable
<1>. QED BY <1>2, <1>3, <1>4, <1>5, <1>6, <1>7

(* The host is brought to the recorded target next, or is there already.   *)
LEMMA AfterBeginIInv ==
  ASSUME IInv, proc.pc = "begin", UNCHANGED <<host, asked, drifted, faults>>, record' # None,
         TypeOK', HostSettled', RequestRecorded', EpochsSeen', HostFollows',
         record'.desired = proc.target, End \/ Go("mark")
  PROVE  IInv'
<1>1. proc \in Proc /\ proc.cmd = "swap" /\ proc.id \in Requests /\ asked[proc.id] # None
      /\ proc.target = asked[proc.id].target
  BY DEF IInv, TypeOK, CommandKnows
<1>2. CASE End
  <2>1. proc' \in Proc /\ CommandKnows' /\ ActivationKnows'
    BY <1>2, IdleFields DEF End, CommandKnows, ActivationKnows
  <2>. QED BY <2>1 DEF IInv
<1>3. CASE Go("mark")
  <2>1. /\ proc' \in Proc /\ proc'.pc = "mark" /\ proc'.cmd = proc.cmd
        /\ proc'.id = proc.id /\ proc'.target = proc.target /\ proc'.live = proc.live
    BY <1>1, <1>3, GoesOn DEF Pcs
  <2>2. asked[proc.id] \in Asked /\ proc.target \in Accounts
    BY <1>1 DEF IInv, TypeOK, Asked
  <2>3. CommandKnows' /\ ActivationKnows'
    BY <1>1, <2>1, <2>2 DEF IInv, CommandKnows, ActivationKnows
  <2>. QED BY <2>1, <2>3 DEF IInv
<1>. QED BY <1>2, <1>3

LEMMA SwapIInv ==
  ASSUME IInv, Swap
  PROVE  IInv'
<1>1. /\ proc \in Proc /\ proc.pc = "begin" /\ proc.cmd = "swap" /\ proc.id \in Requests
      /\ asked[proc.id] \in Asked /\ asked[proc.id] # None
      /\ proc.target = asked[proc.id].target /\ proc.target \in Accounts
      /\ record # None /\ record \in Record
  BY DEF IInv, TypeOK, CommandKnows, Swap, At, SwapReplayed, SwapRestates, SwapAdvances,
         SwapRecovers, SwapRefused, Asked
<1>2. proc.id # None /\ proc.id \in Ids
  BY <1>1, IdsAssumption DEF Ids
<1>3. proc' \in Proc
  BY <1>1, IdleFields, GoesOn DEF Swap, SwapReplayed, SwapRestates, SwapAdvances, SwapRecovers,
         SwapRefused, AfterBegin, End, Pcs
<1>4. CASE SwapReplayed
  <2>1. UNCHANGED <<record, host, asked, moved, drifted, faults>> /\ (End \/ Go("mark"))
    BY <1>4 DEF SwapReplayed, Still, AfterBegin
  <2>2. record.desired = proc.target
    BY <1>1, <1>4 DEF IInv, RequestRecorded, SwapReplayed, Replays
  <2>3. TypeOK' /\ HostSettled' /\ RequestRecorded' /\ EpochsSeen' /\ HostFollows'
    BY <1>3, <2>1 DEF IInv, TypeOK, HostSettled, RequestRecorded, EpochsSeen, HostFollows, Stable
  <2>. QED BY <1>1, <2>1, <2>2, <2>3, AfterBeginIInv
<1>5. CASE SwapRestates
  <2>1. UNCHANGED <<host, asked, moved, drifted, faults>> /\ (End \/ Go("mark"))
    BY <1>5 DEF SwapRestates, Still, AfterBegin
  <2>2. /\ record' \in Record /\ record'.epoch = record.epoch /\ record'.phase = record.phase
        /\ record'.desired = record.desired /\ record'.request = proc.id
        /\ record.desired = proc.target /\ record.phase = "stable" /\ record' # None
    BY <1>1, <1>2, <1>5, RestatedType, NoneAssumption DEF SwapRestates, Restates, Stable
  <2>3. TypeOK' /\ HostSettled' /\ EpochsSeen'
    BY <1>1, <1>3, <2>1, <2>2 DEF IInv, TypeOK, HostSettled, EpochsSeen
  <2>4. RequestRecorded' /\ HostFollows'
    BY <1>1, <2>1, <2>2 DEF IInv, RequestRecorded, HostFollows, Stable
  <2>. QED BY <1>1, <2>1, <2>2, <2>3, <2>4, AfterBeginIInv
<1>6. CASE SwapAdvances
  <2>1. /\ UNCHANGED <<host, asked, drifted, faults>> /\ Go("mark") /\ Stable
        /\ Advance(proc.target, proc.id)
    BY <1>6 DEF SwapAdvances, Still, Advances
  <2>2. /\ TypeOK' /\ RequestRecorded' /\ EpochsSeen' /\ HostFollows' /\ HostSettled'
        /\ record' # None /\ record'.desired = proc.target
    BY <1>1, <1>2, <1>3, <2>1, AdvanceDecision
  <2>. QED BY <1>1, <2>1, <2>2, AfterBeginIInv
<1>7. CASE SwapRecovers
  <2>1. /\ UNCHANGED <<record, host, asked, moved, drifted, faults>> /\ Go("mark")
        /\ record.desired = proc.target
    BY <1>7 DEF SwapRecovers, Recovers, Still
  <2>2. TypeOK' /\ HostSettled' /\ RequestRecorded' /\ EpochsSeen' /\ HostFollows'
    BY <1>3, <2>1 DEF IInv, TypeOK, HostSettled, RequestRecorded, EpochsSeen, HostFollows, Stable
  <2>. QED BY <1>1, <2>1, <2>2, AfterBeginIInv
<1>8. CASE SwapRefused
  BY <1>8, EndIInv DEF SwapRefused
<1>. QED BY <1>4, <1>5, <1>6, <1>7, <1>8 DEF Swap

-----------------------------------------------------------------------------
(* The recorded target is converged                                        *)

(* A command that records a phase goes on to pc.                           *)
LEMMA PhaseRecorded ==
  ASSUME IInv, record # None, NEW p \in Phases, record' = Phased(p),
         NEW pc \in Pcs, Go(pc), UNCHANGED <<host, moved, asked, faults>>,
         \/ host.active = record.desired /\ host.from = record.desired /\ drifted' \in BOOLEAN
         \/ drifted' = drifted /\ (p = "stable" => Stable)
  PROVE  /\ TypeOK' /\ RequestRecorded' /\ EpochsSeen' /\ HostFollows' /\ HostSettled'
         /\ record' # None /\ record'.phase = p /\ record'.desired = record.desired
         /\ proc'.pc = pc /\ proc'.cmd = proc.cmd /\ proc'.id = proc.id
         /\ proc'.target = proc.target /\ proc'.purpose = proc.purpose
         /\ proc'.result = proc.result /\ proc'.live = proc.live
<1>1. /\ record' \in Record /\ record'.phase = p /\ record'.epoch = record.epoch
      /\ record'.desired = record.desired /\ record'.request = record.request
      /\ record'.previous = record.previous
  BY PhasedType DEF IInv, TypeOK
<1>2. RequestRecorded' /\ EpochsSeen' /\ HostFollows' /\ HostSettled'
  BY <1>1, SameDecision
<1>3. /\ proc' \in Proc /\ proc'.pc = pc /\ proc'.cmd = proc.cmd /\ proc'.id = proc.id
      /\ proc'.target = proc.target /\ proc'.purpose = proc.purpose
      /\ proc'.result = proc.result /\ proc'.live = proc.live
  BY GoesOn DEF IInv, TypeOK
<1>4. TypeOK' /\ record' # None
  BY <1>1, <1>3, NoneAssumption DEF IInv, TypeOK
<1>. QED BY <1>1, <1>2, <1>3, <1>4

LEMMA AlignIInv ==
  ASSUME IInv, Align
  PROVE  IInv'
<1>1. /\ proc \in Proc /\ proc.pc \in {"align", "mark"} /\ record # None /\ record \in Record
      /\ host.act \in {"clear", "confirmed"} /\ host.from = host.active
  BY DEF IInv, TypeOK, CommandKnows, ActivationKnows, HostSettled, Align, At, AlignConfirmed,
         AlignConverges, Aligned, MarkConverging
<1>2. CASE AlignConfirmed
  <2>1. PICK pc \in {"recovered", "select"} :
          Go(pc) /\ (pc = "recovered" <=> proc.cmd = "rotate")
    BY <1>2 DEF AlignConfirmed
  <2>2. /\ record' = Phased("stable") /\ UNCHANGED <<host, moved, asked, faults, drifted>>
        /\ host.active = record.desired /\ proc.pc = "align" /\ drifted' \in BOOLEAN
    BY <1>2 DEF AlignConfirmed, Still, OnTarget, At, IInv, TypeOK
  <2>3. /\ TypeOK' /\ RequestRecorded' /\ EpochsSeen' /\ HostFollows' /\ HostSettled'
        /\ record' # None /\ proc'.pc = pc /\ proc'.cmd = proc.cmd /\ proc'.id = proc.id
        /\ proc'.target = proc.target /\ proc'.live = proc.live
    BY <1>1, <2>1, <2>2, PhaseRecorded DEF Pcs, Phases
  <2>4. CommandKnows'
    BY <2>1, <2>2, <2>3 DEF IInv, CommandKnows
  <2>5. ActivationKnows'
    BY <1>1, <2>1, <2>2, <2>3 DEF ActivationKnows
  <2>. QED BY <2>3, <2>4, <2>5 DEF IInv
<1>3. CASE AlignConverges
  <2>1. /\ proc' \in Proc /\ proc'.pc = "mark" /\ proc'.cmd = proc.cmd /\ proc'.id = proc.id
        /\ proc'.target = record.desired /\ proc'.live = proc.live
    BY <1>1, <1>3, RecordFields DEF AlignConverges, Proc, Pcs, Purposes
  <2>2. UNCHANGED <<record, host, moved>> /\ Still /\ proc.pc = "align"
    BY <1>3 DEF AlignConverges, At
  <2>3. CommandKnows'
    BY <1>1, <2>1, <2>2, RecordFields DEF IInv, CommandKnows, Still
  <2>4. ActivationKnows'
    BY <1>1, <2>1, <2>2 DEF ActivationKnows
  <2>. QED BY <2>1, <2>2, <2>3, <2>4, CommandMoves
<1>4. CASE Aligned
  <2>1. PICK pc \in {"recovered", "select"} :
          Go(pc) /\ (pc = "recovered" <=> proc.cmd = "rotate")
    BY <1>4 DEF Aligned
  <2>2. /\ proc' \in Proc /\ proc'.pc = pc /\ proc'.cmd = proc.cmd /\ proc'.id = proc.id
        /\ proc'.target = proc.target /\ proc'.live = proc.live
    BY <1>1, <2>1, GoesOn DEF Pcs
  <2>3. UNCHANGED <<record, host, moved>> /\ Still /\ proc.pc = "align"
    BY <1>4 DEF Aligned, At
  <2>4. CommandKnows'
    BY <1>1, <2>1, <2>2, <2>3 DEF IInv, CommandKnows, Still
  <2>5. ActivationKnows'
    BY <1>1, <2>1, <2>2, <2>3 DEF ActivationKnows
  <2>. QED BY <2>2, <2>3, <2>4, <2>5, CommandMoves
<1>5. CASE MarkConverging
  <2>1. /\ record' = Phased("converging") /\ UNCHANGED <<host, moved, asked, faults, drifted>>
        /\ Go("activate") /\ proc.pc = "mark" /\ proc.target = record.desired
    BY <1>5 DEF MarkConverging, Still, At, IInv, ActivationKnows
  <2>2. /\ TypeOK' /\ RequestRecorded' /\ EpochsSeen' /\ HostFollows' /\ HostSettled'
        /\ record' # None /\ record'.phase = "converging" /\ record'.desired = record.desired
        /\ proc'.pc = "activate" /\ proc'.cmd = proc.cmd /\ proc'.id = proc.id
        /\ proc'.target = proc.target /\ proc'.live = proc.live
    BY <1>1, <2>1, PhaseRecorded DEF Pcs, Phases
  <2>3. CommandKnows'
    BY <2>1, <2>2 DEF IInv, CommandKnows
  <2>4. ActivationKnows'
    BY <1>1, <2>1, <2>2 DEF ActivationKnows, ForTarget, Stable
  <2>. QED BY <2>2, <2>3, <2>4 DEF IInv
<1>. QED BY <1>2, <1>3, <1>4, <1>5 DEF Align

-----------------------------------------------------------------------------
(* The activation                                                          *)

LEMMA ActivateIInv ==
  ASSUME IInv, NEW x \in ActivationAnswers(proc.target, Reloads), Activate(x)
  PROVE  IInv'
<1>1. /\ proc \in Proc /\ proc.pc = "activate" /\ record # None /\ host \in Host
      /\ host.act \in {"clear", "confirmed"} /\ host.from = host.active
      /\ proc.target \in Accounts /\ (ForTarget \/ ForActive) /\ Reloads \in BOOLEAN
  BY DEF IInv, TypeOK, CommandKnows, ActivationKnows, HostSettled, Activate, At, Reloads, Proc
<1>2. /\ x.host \in Host /\ x.result \in Results
      /\ x.host.active \in {proc.target, host.active}
      /\ x.host.act \notin {"begun", "prepared"} /\ x.host.from = x.host.active
      /\ x.result = "confirmed" => x.host.active = proc.target /\ x.host.act = "confirmed"
      /\ x.result = "fileOnly" =>
           x.host.active = proc.target /\ x.host.act = "pending" /\ Reloads = FALSE
  BY <1>1, ActivationAnswer DEF IInv
<1>3. /\ host' = x.host /\ UNCHANGED <<record, moved, asked, drifted>> /\ faults' \in Nat
  BY DEF Activate, Take, Fault, IInv, TypeOK
<1>4. PICK pc \in {"resetBarrier", "settle"} :
        /\ proc' = [proc EXCEPT !.result = x.result, !.pc = pc]
        /\ pc = "resetBarrier" <=> x.result = "fileOnly" /\ proc.purpose = "reset" /\ proc.live
  BY DEF Activate
<1>5. /\ proc' \in Proc /\ proc'.pc = pc /\ proc'.result = x.result
      /\ proc'.cmd = proc.cmd /\ proc'.id = proc.id /\ proc'.target = proc.target
      /\ proc'.purpose = proc.purpose /\ proc'.live = proc.live
  BY <1>1, <1>2, <1>4 DEF Proc, Pcs
<1>6. TypeOK' /\ HostSettled'
  BY <1>2, <1>3, <1>5 DEF IInv, TypeOK, HostSettled
<1>7. RequestRecorded' /\ EpochsSeen'
  BY <1>3 DEF IInv, RequestRecorded, EpochsSeen
<1>8. HostFollows'
  <2>1. host'.active \in {proc.target, host.active} /\ host'.from = host'.active
    BY <1>2, <1>3
  <2>2. CASE ForTarget
    <3>1. proc.target = record.desired /\ record.phase # "stable"
      BY <2>2 DEF ForTarget, Stable
    <3>2. ~drifted => host.active \in {record.desired, record.previous}
      BY <1>1, <3>1 DEF IInv, HostFollows, Stable
    <3>. QED BY <1>3, <2>1, <3>1, <3>2 DEF HostFollows, Stable
  <2>3. CASE ForActive
    BY <1>1, <1>3, <2>1, <2>3 DEF IInv, HostFollows, ForActive, Stable
  <2>. QED BY <1>1, <2>2, <2>3
<1>9. CommandKnows'
  BY <1>1, <1>3, <1>5 DEF IInv, CommandKnows
<1>10. ForTarget' \/ ForActive'
  BY <1>1, <1>2, <1>3, <1>5 DEF ForTarget, ForActive, Stable
<1>11. pc = "settle" /\ proc'.result = "fileOnly" => proc'.live = FALSE \/ proc'.purpose = "reset"
  BY <1>1, <1>2, <1>5 DEF Reloads, Proc
<1>12. ActivationKnows'
  BY <1>2, <1>3, <1>4, <1>5, <1>10, <1>11 DEF ActivationKnows, Success
<1>. QED BY <1>6, <1>7, <1>8, <1>9, <1>12 DEF IInv

LEMMA ResetBarrierIInv ==
  ASSUME IInv, NEW x \in BarrierAnswers(proc.live), ResetBarrier(x)
  PROVE  IInv'
<1>1. /\ proc \in Proc /\ proc.pc = "resetBarrier" /\ Take(x)
      /\ UNCHANGED <<record, moved, asked, drifted>>
      /\ host.act = "pending" /\ host.active = proc.target /\ host.from = host.active
      /\ record # None /\ proc.target \in Accounts /\ (ForTarget \/ ForActive)
  BY DEF IInv, TypeOK, HostSettled, CommandKnows, ActivationKnows, ResetBarrier, At
<1>2. /\ x.result \in Results /\ x.result # "fileOnly" /\ host' = x.host
      /\ host'.active = proc.target /\ host'.from = proc.target
      /\ x.result = "confirmed" => host'.act = "confirmed"
  BY <1>1, BarrierAnswer DEF IInv, TypeOK, Take, Proc
<1>3. CASE x.result = "error"
  <2>1. proc' = Idle
    BY <1>3 DEF ResetBarrier
  <2>2. CommandKnows' /\ ActivationKnows'
    BY <2>1, IdleFields DEF CommandKnows, ActivationKnows
  <2>. QED BY <1>1, <2>1, <2>2, BarrierHost, IdleFields DEF IInv
<1>4. CASE x.result # "error"
  <2>1. /\ proc' \in Proc /\ proc'.pc = "settle" /\ proc'.result = x.result
        /\ proc'.cmd = proc.cmd /\ proc'.id = proc.id /\ proc'.target = proc.target
        /\ proc'.purpose = proc.purpose /\ proc'.live = proc.live
    BY <1>1, <1>2, <1>4 DEF ResetBarrier, Proc, Pcs
  <2>2. CommandKnows'
    BY <1>1, <2>1 DEF IInv, CommandKnows
  <2>3. ForTarget' \/ ForActive'
    BY <1>1, <1>2, <2>1 DEF ForTarget, ForActive, Stable
  <2>4. ActivationKnows'
    BY <1>2, <2>1, <2>3 DEF ActivationKnows, Success
  <2>. QED BY <1>1, <2>1, <2>2, <2>4, BarrierHost DEF IInv
<1>. QED BY <1>3, <1>4

-----------------------------------------------------------------------------
(* The outcome                                                             *)

LEMMA SettleIInv ==
  ASSUME IInv, Settle
  PROVE  IInv'
<1>1. /\ proc \in Proc /\ proc.pc = "settle" /\ record # None /\ proc.target \in Accounts
      /\ ForTarget \/ ForActive
  BY DEF IInv, TypeOK, CommandKnows, ActivationKnows, Settle, At, SettleStable, SettleDegraded,
         SettleTouch, SettleReset
<1>2. CASE SettleStable
  <2>1. /\ Success /\ host.active = proc.target /\ host.from = proc.target
        /\ host.act = "confirmed" /\ proc.target = record.desired
    BY <1>1, <1>2 DEF SettleStable, WritesPhase, ForActive, ForTarget, IInv, ActivationKnows
  <2>2. /\ record' = Phased("stable") /\ UNCHANGED <<host, moved, asked, faults>>
        /\ drifted' \in BOOLEAN
    BY <1>2 DEF SettleStable
  <2>3. CASE End
    <3>1. /\ record' \in Record /\ record'.phase = "stable" /\ record'.epoch = record.epoch
          /\ record'.desired = record.desired /\ record'.request = record.request
          /\ record'.previous = record.previous
      BY <1>1, <2>2, PhasedType DEF IInv, TypeOK, Phases
    <3>2. RequestRecorded' /\ EpochsSeen' /\ HostFollows' /\ HostSettled'
      BY <1>1, <2>1, <2>2, <3>1, SameDecision
    <3>3. TypeOK' /\ CommandKnows' /\ ActivationKnows'
      BY <2>2, <2>3, <3>1, IdleFields DEF End, IInv, TypeOK, CommandKnows, ActivationKnows
    <3>. QED BY <3>2, <3>3 DEF IInv
  <2>4. CASE \E pc \in {"recovered", "complete"} : Go(pc) /\ proc.cmd = "rotate"
    <3>1. PICK pc \in {"recovered", "complete"} : Go(pc) /\ proc.cmd = "rotate"
      BY <2>4
    <3>2. /\ TypeOK' /\ RequestRecorded' /\ EpochsSeen' /\ HostFollows' /\ HostSettled'
          /\ record' # None /\ proc'.pc = pc /\ proc'.cmd = proc.cmd /\ proc'.id = proc.id
          /\ proc'.target = proc.target /\ proc'.live = proc.live
      BY <1>1, <2>1, <2>2, <3>1, PhaseRecorded DEF Pcs, Phases
    <3>3. CommandKnows'
      BY <1>1, <3>1, <3>2 DEF IInv, CommandKnows
    <3>4. ActivationKnows'
      BY <2>1, <2>2, <3>2 DEF ActivationKnows
    <3>. QED BY <3>2, <3>3, <3>4 DEF IInv
  <2>. QED BY <1>2, <2>3, <2>4 DEF SettleStable, AfterStable
<1>3. CASE SettleDegraded
  <2>1. record' = Phased("degraded") /\ UNCHANGED <<host, moved, asked, faults, drifted>>
    BY <1>3 DEF SettleDegraded, Still
  <2>2. CASE End
    <3>1. /\ record' \in Record /\ record'.phase = "degraded" /\ record'.epoch = record.epoch
          /\ record'.desired = record.desired /\ record'.request = record.request
          /\ record'.previous = record.previous
      BY <1>1, <2>1, PhasedType DEF IInv, TypeOK, Phases
    <3>2. RequestRecorded' /\ EpochsSeen' /\ HostFollows' /\ HostSettled'
      BY <1>1, <2>1, <3>1, SameDecision
    <3>3. TypeOK' /\ CommandKnows' /\ ActivationKnows'
      BY <2>1, <2>2, <3>1, IdleFields DEF End, IInv, TypeOK, CommandKnows, ActivationKnows
    <3>. QED BY <3>2, <3>3 DEF IInv
  <2>3. CASE proc.result = "fileOnly" /\ proc.purpose = "rotation" /\ Go("complete")
    <3>1. proc.cmd = "rotate"
      BY <1>1, <2>3 DEF IInv, CommandKnows, ActivationKnows
    <3>2. /\ TypeOK' /\ RequestRecorded' /\ EpochsSeen' /\ HostFollows' /\ HostSettled'
          /\ record' # None /\ proc'.pc = "complete" /\ proc'.cmd = proc.cmd
          /\ proc'.id = proc.id /\ proc'.target = proc.target /\ proc'.live = proc.live
      BY <1>1, <2>1, <2>3, PhaseRecorded DEF Pcs, Phases
    <3>3. CommandKnows' /\ ActivationKnows'
      BY <1>1, <3>1, <3>2 DEF IInv, CommandKnows, ActivationKnows
    <3>. QED BY <3>2, <3>3 DEF IInv
  <2>. QED BY <1>3, <2>2, <2>3 DEF SettleDegraded
<1>4. CASE SettleTouch
  BY <1>4, EndIInv DEF SettleTouch
<1>5. CASE SettleReset
  <2>1. UNCHANGED <<record, host, moved>> /\ Still /\ proc.cmd = "rotate"
    BY <1>5 DEF SettleReset, WritesPhase
  <2>2. CASE End
    BY <2>1, <2>2, EndIInv
  <2>3. CASE \E pc \in {"complete", "select"} : Go(pc)
    <3>1. PICK pc \in {"complete", "select"} : Go(pc)
      BY <2>3
    <3>2. /\ proc' \in Proc /\ proc'.pc = pc /\ proc'.cmd = proc.cmd /\ proc'.id = proc.id
          /\ proc'.target = proc.target /\ proc'.live = proc.live
      BY <1>1, <3>1, GoesOn DEF Pcs
    <3>3. CommandKnows' /\ ActivationKnows'
      BY <1>1, <2>1, <3>2 DEF IInv, CommandKnows, ActivationKnows
    <3>. QED BY <2>1, <3>2, <3>3, CommandMoves
  <2>. QED BY <1>5, <2>2, <2>3 DEF SettleReset
<1>. QED BY <1>2, <1>3, <1>4, <1>5 DEF Settle

-----------------------------------------------------------------------------
(* The operation's own steps                                               *)

(* An operation's outcome is recorded and the command ends.                *)
LEMMA OutcomeRecorded ==
  ASSUME IInv, record # None, NEW a \in Accounts, NEW used \in BOOLEAN,
         record' = [record EXCEPT !.ops = Finished(record.ops, proc.id, a, used)],
         End, UNCHANGED <<host, moved>>, Still
  PROVE  IInv'
<1>1. record \in Record /\ record.ops \in Seq(Entry)
  BY RecordFields DEF IInv, TypeOK
<1>2. Finished(record.ops, proc.id, a, used) \in Seq(Entry)
  BY <1>1, FinishedType
<1>3. /\ record' \in Record /\ record'.phase = record.phase /\ record'.epoch = record.epoch
      /\ record'.desired = record.desired /\ record'.request = record.request
      /\ record'.previous = record.previous
  BY <1>1, <1>2 DEF Record
<1>4. RequestRecorded' /\ EpochsSeen' /\ HostFollows' /\ HostSettled'
  BY <1>3, SameDecision DEF Still, Stable
<1>5. TypeOK' /\ CommandKnows' /\ ActivationKnows'
  BY <1>3, IdleFields DEF End, Still, IInv, TypeOK, CommandKnows, ActivationKnows
<1>. QED BY <1>4, <1>5 DEF IInv

(* An activation is begun: of the active account, or of the recorded one.  *)
LEMMA ActivationBegins ==
  ASSUME IInv, proc.pc = "select", host.act = "confirmed", NEW t \in Accounts,
         NEW p \in Purposes, UNCHANGED <<host, asked, drifted, faults>>,
         proc' = [proc EXCEPT !.pc = "activate", !.purpose = p, !.target = t],
         record' # None, proc' \in Proc => TypeOK',
         HostSettled', RequestRecorded', EpochsSeen', HostFollows',
         \/ record'.desired = t /\ record'.phase # "stable"
         \/ t = host.active /\ (p = "touch" \/ (p = "reset" /\ proc.cmd = "rotate"))
  PROVE  IInv'
<1>1. proc \in Proc /\ record # None /\ proc.cmd # "swap" /\ host.from = host.active
  BY DEF IInv, TypeOK, CommandKnows, HostSettled
<1>2. /\ proc' \in Proc /\ proc'.pc = "activate" /\ proc'.purpose = p /\ proc'.target = t
      /\ proc'.cmd = proc.cmd /\ proc'.id = proc.id /\ proc'.live = proc.live
  BY <1>1 DEF Proc, Pcs
<1>3. CommandKnows'
  BY <1>1, <1>2 DEF IInv, CommandKnows
<1>4. ForTarget' \/ ForActive'
  BY <1>1, <1>2 DEF ForTarget, ForActive, Stable
<1>5. ActivationKnows'
  BY <1>2, <1>4 DEF ActivationKnows
<1>. QED BY <1>2, <1>3, <1>5 DEF IInv

LEMMA ProcActivates ==
  ASSUME proc \in Proc, NEW t \in Accounts, NEW p \in Purposes
  PROVE  [proc EXCEPT !.pc = "activate", !.purpose = p, !.target = t] \in Proc
BY DEF Proc, Pcs

LEMMA SelectIInv ==
  ASSUME IInv, Select
  PROVE  IInv'
<1>1. /\ proc \in Proc /\ proc.pc \in {"recovered", "select", "complete"} /\ record # None
      /\ record \in Record /\ record.desired \in Accounts /\ host.active \in Accounts
      /\ proc.id \in Ids \cup {None} /\ proc.cmd # "swap"
  BY RecordFields DEF IInv, TypeOK, CommandKnows, Select, At, CompleteRecovered, NotRecovered,
         Reset, DaemonTouch, NothingSelected, Complete, DaemonReset, Rotate, Proc, Host
<1>2. CASE CompleteRecovered
  BY <1>1, <1>2, OutcomeRecorded DEF CompleteRecovered
<1>3. CASE NotRecovered
  <2>1. UNCHANGED <<record, host, moved>> /\ Still /\ Go("select")
    BY <1>3 DEF NotRecovered
  <2>2. /\ proc' \in Proc /\ proc'.pc = "select" /\ proc'.cmd = proc.cmd /\ proc'.id = proc.id
        /\ proc'.target = proc.target /\ proc'.live = proc.live
    BY <1>1, <2>1, GoesOn DEF Pcs
  <2>3. CommandKnows' /\ ActivationKnows'
    BY <1>1, <2>1, <2>2 DEF IInv, CommandKnows, ActivationKnows, Still
  <2>. QED BY <2>1, <2>2, <2>3, CommandMoves
<1>4. CASE NothingSelected
  BY <1>4, EndIInv DEF NothingSelected
<1>5. CASE Reset \/ DaemonTouch
  <2>1. PICK p \in {"reset", "touch"} :
          /\ proc' = [proc EXCEPT !.pc = "activate", !.purpose = p, !.target = host.active]
          /\ p = "reset" => proc.cmd = "rotate"
    BY <1>5 DEF Reset, DaemonTouch
  <2>2. /\ UNCHANGED <<record, host, moved, asked, drifted, faults>> /\ host.act = "confirmed"
        /\ proc.pc = "select"
    BY <1>5 DEF Reset, DaemonTouch, Still, At
  <2>3. /\ HostSettled' /\ RequestRecorded' /\ EpochsSeen' /\ HostFollows'
        /\ (proc' \in Proc => TypeOK')
    BY <2>2 DEF IInv, TypeOK, HostSettled, RequestRecorded, EpochsSeen, HostFollows, Stable
  <2>. QED BY <1>1, <2>1, <2>2, <2>3, ActivationBegins DEF Purposes
<1>6. CASE \E t \in Accounts : DaemonReset(t) \/ Rotate(t)
  <2>1. PICK t \in Accounts : DaemonReset(t) \/ Rotate(t)
    BY <1>6
  <2>2. /\ UNCHANGED <<host, asked, drifted, faults>> /\ host.act = "confirmed"
        /\ proc.pc = "select"
    BY <2>1 DEF DaemonReset, Rotate, Still, At
  <2>3. PICK p \in {"reset", "rotation"} :
          proc' = [proc EXCEPT !.pc = "activate", !.purpose = p, !.target = t]
    BY <2>1 DEF DaemonReset, Rotate
  <2>4. proc' \in Proc
    BY <1>1, <2>3, ProcActivates DEF Purposes
  <2>5. CASE record' = Phased("converging") /\ t = record.desired /\ UNCHANGED moved
    <3>1. /\ record' \in Record /\ record'.phase = "converging" /\ record'.epoch = record.epoch
          /\ record'.desired = record.desired /\ record'.request = record.request
          /\ record'.previous = record.previous
      BY <1>1, <2>5, PhasedType DEF Phases
    <3>2. RequestRecorded' /\ EpochsSeen' /\ HostFollows' /\ HostSettled'
      BY <1>1, <2>2, <2>5, <3>1, SameDecision
    <3>3. TypeOK' /\ record' # None
      BY <2>2, <2>4, <2>5, <3>1, NoneAssumption DEF IInv, TypeOK
    <3>. QED BY <2>2, <2>3, <2>5, <3>1, <3>2, <3>3, ActivationBegins DEF Purposes
  <2>6. CASE \E id \in {proc.id, None} : Stable /\ Advance(t, id)
    <3>1. PICK id \in {proc.id, None} : Stable /\ Advance(t, id)
      BY <2>6
    <3>2. id \in Ids \cup {None} /\ id \notin Requests
      BY <1>1, <3>1, IdsAssumption DEF IInv, CommandKnows, Proc, Ids
    <3>3. /\ TypeOK' /\ RequestRecorded' /\ EpochsSeen' /\ HostFollows' /\ HostSettled'
          /\ record' # None /\ record'.desired = t /\ record'.phase = "converging"
      BY <1>1, <2>2, <2>4, <3>1, <3>2, AdvanceDecision
    <3>. QED BY <2>2, <2>3, <3>3, ActivationBegins DEF Purposes
  <2>. QED BY <2>1, <2>5, <2>6 DEF DaemonReset, Rotate, Advances
<1>7. CASE Complete
  <2>1. /\ proc.target \in Accounts /\ End /\ UNCHANGED <<host, moved>> /\ Still
    BY <1>7 DEF Complete, At, IInv, CommandKnows
  <2>2. \E a \in Accounts, used \in BOOLEAN :
          record' = [record EXCEPT !.ops = Finished(record.ops, proc.id, a, used)]
    BY <1>1, <1>7, <2>1 DEF Complete
  <2>. QED BY <1>1, <2>1, <2>2, OutcomeRecorded
<1>. QED BY <1>2, <1>3, <1>4, <1>5, <1>6, <1>7 DEF Select

-----------------------------------------------------------------------------
(* The environment                                                         *)

LEMMA CrashIInv ==
  ASSUME IInv, Crash
  PROVE  IInv'
<1>1. /\ host \in Host /\ proc \in Proc /\ UNCHANGED <<record, asked, moved, drifted>>
      /\ proc' = Idle /\ faults' \in Nat
  BY DEF IInv, TypeOK, Crash, Fault, End
<1>2. CASE host' = host
  BY <1>1, <1>2, IdleFields DEF IInv, TypeOK, CommandKnows, ActivationKnows, HostSettled,
     RequestRecorded, EpochsSeen, HostFollows, Stable
<1>3. CASE At("activate") /\ host' \in Torn(proc.target, Reloads)
  <2>1. /\ record # None /\ host.act \in {"clear", "confirmed"} /\ host.from = host.active
        /\ proc.target \in Accounts /\ (ForTarget \/ ForActive) /\ Reloads \in BOOLEAN
        /\ host.active \in Accounts
    BY <1>1, <1>3 DEF IInv, CommandKnows, ActivationKnows, HostSettled, At, Reloads, Proc, Host
  <2>2. /\ host' \in Host /\ host'.active \in {proc.target, host.active}
        /\ host'.from \in {proc.target, host.active}
        /\ host'.act \notin {"begun", "prepared"} => host'.from = host'.active
    <3>1. CASE \E x \in ActivationAnswers(proc.target, Reloads) : host' = x.host
      <4>0. PICK t \in Accounts, live \in BOOLEAN :
              t = proc.target /\ \E x \in ActivationAnswers(t, live) : host' = x.host
        BY <2>1, <3>1
      <4>1. PICK x \in ActivationAnswers(t, live) : host' = x.host /\ t = proc.target
        BY <4>0
      <4>2. /\ x.host \in Host /\ x.result \in Results
            /\ x.host.active \in {t, host.active}
            /\ x.host.act \notin {"begun", "prepared"} /\ x.host.from = x.host.active
        <5>1. host \in Host /\ HostSettled
          BY <1>1 DEF IInv
        <5>2. host.act \in {"clear", "confirmed"}
          BY <2>1
        <5>. QED BY <5>1, <5>2, ActivationAnswer
      <4>3. host' \in Host /\ host'.active \in {proc.target, host.active}
        BY <4>1, <4>2
      <4>4. host'.from = host'.active
        BY <4>1, <4>2
      <4>. QED BY <4>3, <4>4
    <3>2. CASE host' \in {host, HostIs(host.active, "begun")}
      BY <1>1, <2>1, <3>2 DEF HostIs, Host
    <3>3. CASE host' = [active |-> proc.target, from |-> host.active, act |-> "prepared"]
      BY <2>1, <3>3 DEF Host
    <3>. QED BY <1>3, <2>1, <3>1, <3>2, <3>3 DEF Torn
  <2>3. TypeOK' /\ HostSettled' /\ CommandKnows' /\ ActivationKnows'
    BY <1>1, <2>1, <2>2, IdleFields DEF IInv, TypeOK, HostSettled, CommandKnows, ActivationKnows
  <2>4. RequestRecorded' /\ EpochsSeen'
    BY <1>1 DEF IInv, RequestRecorded, EpochsSeen
  <2>5. HostFollows'
    <3>1. CASE ForTarget
      <4>1. proc.target = record.desired /\ record.phase # "stable"
        BY <3>1 DEF ForTarget, Stable
      <4>2. ~drifted => host.active \in {record.desired, record.previous}
        BY <2>1, <4>1 DEF IInv, HostFollows, Stable
      <4>. QED BY <1>1, <2>2, <4>1, <4>2 DEF HostFollows, Stable
    <3>2. CASE ForActive
      <4>1. host'.active = host.active /\ host'.from = host.active
        BY <2>2, <3>2 DEF ForActive
      <4>. QED BY <1>1, <2>1, <4>1 DEF IInv, HostFollows, Stable
    <3>. QED BY <2>1, <3>1, <3>2
  <2>. QED BY <2>3, <2>4, <2>5 DEF IInv
<1>. QED BY <1>2, <1>3 DEF Crash

LEMMA OthersIInv ==
  ASSUME IInv, NEW a \in Accounts, NEW s \in {"clear", "confirmed", "pending"}, Others(a, s)
  PROVE  IInv'
<1>1. /\ proc.pc = "idle" /\ host' = HostIs(a, s) /\ faults' \in Nat
      /\ drifted' = (drifted \/ a # host.active) /\ host.from = host.active
      /\ UNCHANGED <<record, asked, proc, moved>>
  BY DEF Others, At, Fault, IInv, TypeOK, HostSettled
<1>2. host' \in Host /\ host'.active = a /\ host'.from = a /\ host'.act = s
  BY <1>1 DEF HostIs, Host
<1>3. TypeOK' /\ HostSettled'
  BY <1>1, <1>2 DEF IInv, TypeOK, HostSettled
<1>4. CommandKnows' /\ ActivationKnows' /\ RequestRecorded' /\ EpochsSeen'
  BY <1>1 DEF IInv, CommandKnows, ActivationKnows, RequestRecorded, EpochsSeen
<1>5. HostFollows'
  BY <1>1, <1>2 DEF IInv, HostFollows, Stable
<1>. QED BY <1>3, <1>4, <1>5 DEF IInv

LEMMA ResolveIInv ==
  ASSUME IInv, Resolve
  PROVE  IInv'
<1>1. /\ proc.pc = "idle" /\ host' = HostIs(host.active, "pending") /\ host.act = "blocked"
      /\ UNCHANGED <<record, asked, proc, moved, drifted, faults>> /\ host \in Host
  BY DEF Resolve, At, Still, IInv, TypeOK
<1>2. host' \in Host /\ host'.active = host.active /\ host'.from = host.active /\ host'.act = "pending"
  BY <1>1 DEF HostIs, Host
<1>3. TypeOK' /\ HostSettled'
  BY <1>1, <1>2 DEF IInv, TypeOK, HostSettled
<1>4. CommandKnows' /\ ActivationKnows' /\ RequestRecorded' /\ EpochsSeen'
  BY <1>1 DEF IInv, CommandKnows, ActivationKnows, RequestRecorded, EpochsSeen
<1>5. HostFollows'
  BY <1>1, <1>2 DEF IInv, HostFollows, HostSettled, Stable
<1>. QED BY <1>3, <1>4, <1>5 DEF IInv

-----------------------------------------------------------------------------
(* The theorems                                                            *)

LEMMA NextIInv == IInv /\ [Next]_vars => IInv'
<1>. SUFFICES ASSUME IInv, [Next]_vars PROVE IInv'
  OBVIOUS
<1>1. CASE UNCHANGED vars
  BY <1>1, StutterIInv
<1>2. CASE Arrive
  BY <1>2, AskIInv, SwapArrivesIInv, RotateArrivesIInv, DaemonTickIInv DEF Arrive
<1>3. CASE Step
  <2>1. CASE AnyBarrier
    BY <2>1, BarrierIInv, ResetBarrierIInv DEF AnyBarrier
  <2>2. CASE AnyActivate
    BY <2>2, ActivateIInv DEF AnyActivate
  <2>. QED BY <1>3, <2>1, <2>2, BootstrapIInv, OperationIInv, MarkUnconfirmedIInv, SwapIInv,
              AlignIInv, SettleIInv, SelectIInv DEF Step
<1>4. CASE Environment
  BY <1>4, CrashIInv, ResolveIInv, OthersIInv DEF Environment
<1>. QED BY <1>1, <1>2, <1>3, <1>4 DEF Next

(* Whatever the commands, their interleavings and their crashes, IInv      *)
(* holds of every state of the pool authority.                             *)
THEOREM Invariance == Spec => []IInv
<1>1. Init => IInv
  BY InitIInv
<1>2. IInv /\ [Next]_vars => IInv'
  BY NextIInv
<1>. QED BY <1>1, <1>2, PTL DEF Spec

(* Type correctness: the record on disk, the history in it, the host's     *)
(* files and the command's variables keep their types (pool_authority.rs   *)
(* writes an epoch of at least one and only the three phases).             *)
THEOREM TypeCorrect == Spec => []TypeOK
<1>1. IInv => TypeOK
  BY DEF IInv
<1>. QED BY <1>1, Invariance, PTL

(* A host nobody else has switched serves the decided account, or, until   *)
(* the decision is declared stable, the one before it (begin_target_request*)
(* commits before any activation begins).                                  *)
THEOREM HostFollowsDecision == Spec => []HostFollows
<1>1. IInv => HostFollows
  BY DEF IInv
<1>. QED BY <1>1, Invariance, PTL

(* Only begin_target_request decides, and under a swap request's           *)
(* identifier only for a request asked at the record's own epoch: one that *)
(* has moved the pool was asked at an earlier one.                         *)
LEMMA MovesStep ==
  ASSUME IInv, Next, NEW r \in Requests, Moves(r)
  PROVE  r \notin moved
<1>1. /\ record # None /\ record \in Record /\ record' # None
      /\ record'.desired # record.desired /\ record'.request = r
  BY DEF Moves, IInv, TypeOK
<1>2. CASE UNCHANGED record
  BY <1>1, <1>2
<1>3. ASSUME NEW p \in Phases, record' = Phased(p)
      PROVE  FALSE
  BY <1>1, <1>3, PhasedType
<1>4. ASSUME NEW h, record' = [record EXCEPT !.ops = h]
      PROVE  FALSE
  BY <1>1, <1>4 DEF Record
<1>5. ASSUME NEW t \in Accounts, NEW id \in Ids \cup {None}, Advance(t, id)
      PROVE  id = r
  BY <1>1, <1>5, AdvancedType DEF Advance
<1>6. CASE Arrive
  BY <1>2, <1>6 DEF Arrive, Ask, SwapArrives, RotateArrives, DaemonTick
<1>7. CASE Environment
  BY <1>2, <1>7 DEF Environment, Crash, Resolve, Others
<1>8. CASE Bootstrap
  BY <1>1, <1>2, <1>8 DEF Bootstrap
<1>9. CASE Operation
  BY <1>1, <1>9, OperationRecord
<1>10. CASE AnyBarrier \/ AnyActivate
  BY <1>2, <1>10 DEF AnyBarrier, AnyActivate, Barrier, ResetBarrier, Activate
<1>11. CASE MarkUnconfirmed
  BY <1>1, <1>3, <1>11 DEF MarkUnconfirmed, Phases
<1>12. CASE Swap
  <2>1. CASE SwapRestates
    <3>1. proc.id \in Ids \cup {None}
      BY <2>1 DEF IInv, TypeOK, Proc
    <3>. QED BY <1>1, <2>1, <3>1, RestatedType DEF SwapRestates
  <2>2. CASE SwapAdvances
    <3>1. proc.id \in Ids \cup {None} /\ proc.target \in Accounts
      BY <2>2 DEF IInv, TypeOK, CommandKnows, SwapAdvances, At, Proc, Asked
    <3>2. proc.id = r
      BY <1>5, <2>2, <3>1 DEF SwapAdvances
    <3>3. asked[r].epoch = record.epoch
      BY <2>2, <3>2 DEF SwapAdvances, Advances
    <3>. QED BY <1>1, <3>3, RecordFields DEF IInv, EpochsSeen
  <2>. QED BY <1>2, <1>12, <2>1, <2>2 DEF Swap, SwapReplayed, SwapRecovers, SwapRefused
<1>13. CASE Align
  BY <1>2, <1>3, <1>13
  DEF Align, AlignConfirmed, AlignConverges, Aligned, MarkConverging, Phases
<1>14. CASE Settle
  BY <1>2, <1>3, <1>14
  DEF Settle, SettleStable, SettleDegraded, SettleTouch, SettleReset, Phases
<1>15. CASE Select
  <2>1. CASE \E t \in Accounts : DaemonReset(t) \/ Rotate(t)
    <3>1. PICK t \in Accounts : DaemonReset(t) \/ Rotate(t)
      BY <2>1
    <3>2. /\ proc.id \in Ids \cup {None} /\ proc.id \notin Requests /\ None \notin Requests
      BY <3>1, IdsAssumption
      DEF DaemonReset, Rotate, At, IInv, TypeOK, CommandKnows, Proc, Ids
    <3>. QED BY <1>3, <1>5, <3>1, <3>2 DEF DaemonReset, Rotate, Phases
  <2>2. CASE CompleteRecovered \/ Complete
    BY <1>4, <2>2 DEF CompleteRecovered, Complete
  <2>. QED BY <1>2, <1>15, <2>1, <2>2
           DEF Select, NotRecovered, Reset, DaemonTouch, NothingSelected
<1>. QED BY <1>6, <1>7, <1>8, <1>9, <1>10, <1>11, <1>12, <1>13, <1>14, <1>15 DEF Next, Step

(* A swap request decides the pool's target at most once, however late and *)
(* however often the transport delivers it (begin_target_request's epoch   *)
(* check and its replay by request_id).                                    *)
THEOREM RequestsMoveOnce == Spec => RequestMovesOnce
<1>. DEFINE Once == \A r \in Requests : Moves(r) => r \notin moved
<1>1. IInv /\ [Next]_vars => [Once]_vars
  BY MovesStep
<1>2. Spec => [][Once]_vars
  <2>. HIDE DEF Once
  <2>. QED BY <1>1, Invariance, PTL DEF Spec
<1>. QED BY <1>2 DEF RequestMovesOnce

-----------------------------------------------------------------------------
(* The operation history.  Only a new operation adds an entry; every other *)
(* command answers some of those that are there and leaves what has been   *)
(* answered.                                                               *)

EntryAfter(e, f) == /\ f.id = e.id /\ (e.phase = "completed" => f = e)
                    /\ f.phase = "started" => e.phase = "started"
Follows(h, g) == Len(g) = Len(h) /\ \A i \in 1..Len(h) : EntryAfter(h[i], g[i])

OneOfEachId(h) == \A i, j \in 1..Len(h) : h[i].id = h[j].id => i = j
OneStarted(h) == \A i, j \in 1..Len(h) : h[i].phase = "started" /\ h[j].phase = "started" => i = j
Valid(h) == Len(h) <= Limit /\ OneOfEachId(h) /\ OneStarted(h)

AnswersKept(h, g) ==
  \A e \in {h[i] : i \in DOMAIN h} :
    e.phase = "completed" => \A f \in {g[i] : i \in DOMAIN g} : f.id = e.id => f = e

HistoryInv == IInv /\ (record # None => Valid(record.ops))

LEMMA Entries ==
  ASSUME NEW h \in Seq(Entry)
  PROVE  /\ DOMAIN h = 1..Len(h) /\ Len(h) \in Nat
         /\ \A i \in 1..Len(h) : /\ h[i] \in Entry /\ h[i].id \in Ops
                                 /\ h[i].phase \in {"started", "completed"}
<1>1. DOMAIN h = 1..Len(h) /\ Len(h) \in Nat /\ \A i \in 1..Len(h) : h[i] \in Entry
  BY LenProperties, ElementOfSeq
<1>. QED BY <1>1 DEF Entry

LEMMA ValidIsHistoryValid ==
  ASSUME NEW h \in Seq(Entry), Valid(h)
  PROVE  /\ \A i, j \in DOMAIN h : h[i].id = h[j].id => i = j
         /\ Cardinality(Started(h)) <= 1
<1>1. DOMAIN h = 1..Len(h)
  BY Entries
<1>2. \A i, j \in Started(h) : i = j
  BY <1>1 DEF Valid, OneStarted, Started
<1>3. Cardinality(Started(h)) <= 1
  <2>1. CASE Started(h) = {}
    BY <2>1, FS_EmptySet
  <2>2. CASE Started(h) # {}
    <3>1. PICK i \in Started(h) : TRUE
      BY <2>2
    <3>2. Started(h) = {i}
      BY <1>2, <3>1
    <3>3. Cardinality({i}) = 1
      BY FS_Singleton
    <3>. QED BY <3>2, <3>3
  <2>. QED BY <2>1, <2>2
<1>. QED BY <1>1, <1>3 DEF Valid, OneOfEachId

(* A history that follows a valid one is valid and answers the same.       *)
LEMMA FollowsValid ==
  ASSUME NEW h \in Seq(Entry), NEW g \in Seq(Entry), Valid(h), Follows(h, g)
  PROVE  Valid(g) /\ AnswersKept(h, g)
<1>1. /\ DOMAIN h = 1..Len(h) /\ DOMAIN g = 1..Len(h) /\ Len(g) = Len(h)
  BY Entries DEF Follows
<1>2. \A i \in 1..Len(h) : EntryAfter(h[i], g[i])
  BY DEF Follows
<1>3. Valid(g)
  BY <1>1, <1>2 DEF Valid, OneOfEachId, OneStarted, EntryAfter
<1>4. AnswersKept(h, g)
  BY <1>1, <1>2 DEF Valid, OneOfEachId, AnswersKept, EntryAfter
<1>. QED BY <1>3, <1>4

LEMMA FollowsItself ==
  ASSUME NEW h \in Seq(Entry)
  PROVE  Follows(h, h)
BY DEF Follows, EntryAfter

LEMMA AgedFollows ==
  ASSUME NEW h \in Seq(Entry)
  PROVE  Follows(h, Aged(h))
<1>1. DOMAIN h = 1..Len(h) /\ \A i \in 1..Len(h) : h[i] \in Entry
  BY Entries
<1>2. \A e \in Entry : EntryAfter(e, Outlived(e))
  BY DEF EntryAfter, Outlived, Entry
<1>3. \A i \in 1..Len(h) : Aged(h)[i] = Outlived(h[i])
  BY <1>1 DEF Aged
<1>. QED BY <1>1, <1>2, <1>3, AgedType DEF Follows

LEMMA ReconciledFollows ==
  ASSUME NEW r \in Record
  PROVE  Follows(r.ops, Reconciled(r).ops)
<1>1. /\ r.ops \in Seq(Entry) /\ DOMAIN r.ops = 1..Len(r.ops)
      /\ \A i \in 1..Len(r.ops) : r.ops[i] \in Entry
  BY Entries DEF Record
<1>2. \A e \in Entry : EntryAfter(e, Resolved(r, e))
  BY DEF EntryAfter, Resolved, Superseded, Completed, Entry
<1>3. \A i \in 1..Len(r.ops) : Reconciled(r).ops[i] = Resolved(r, r.ops[i])
  BY <1>1 DEF Reconciled, Record
<1>. QED BY <1>2, <1>1, <1>3, ReconciledType DEF Follows

LEMMA PhasedFollows ==
  ASSUME record \in Record, NEW p \in Phases
  PROVE  Follows(record.ops, Phased(p).ops)
<1>. DEFINE r == [record EXCEPT !.phase = p]
<1>1. r \in Record /\ r.ops = record.ops
  BY DEF Record
<1>. HIDE DEF r
<1>2. Phased(p) = Reconciled(r)
  BY DEF Phased, r
<1>. QED BY <1>1, <1>2, ReconciledFollows

LEMMA FinishedFollows ==
  ASSUME NEW h \in Seq(Entry), NEW o, NEW a \in Accounts, NEW used \in BOOLEAN
  PROVE  Follows(h, Finished(h, o, a, used))
<1>. DEFINE g == Finished(h, o, a, used)
<1>1. DOMAIN h = 1..Len(h) /\ Len(h) \in Nat /\ \A i \in 1..Len(h) : h[i] \in Entry
  BY Entries
<1>2. \A e \in Entry : EntryAfter(e, Ended(e, o, a, used))
  BY DEF EntryAfter, Ended, Completed, Entry
<1>3. \A i \in 1..Len(h) : g[i] = Ended(h[i], o, a, used)
  BY <1>1 DEF Finished
<1>4. g \in [1..Len(h) -> Entry]
  BY <1>1, EntryTypes DEF Finished, Ended
<1>5. Len(g) = Len(h)
  BY <1>1, <1>4, FunctionIsSeq
<1>. QED BY <1>1, <1>2, <1>3, <1>5 DEF Follows

(* begin_rotation_operation enters an operation in a history where none is *)
(* started and this one is unknown; the oldest makes room.                 *)
LEMMA EnteredValid ==
  ASSUME NEW h \in Seq(Entry), NEW o \in Ops, Valid(h), ~Has(h, o), Started(h) = {}
  PROVE  LET g == Append(Pruned(h), Entered(o))
         IN  g \in Seq(Entry) /\ Valid(g)
             /\ \A i \in DOMAIN g : g[i].id = o \/ \E j \in DOMAIN h : g[i] = h[j]
<1>. DEFINE p == Pruned(h)
            g == Append(p, Entered(o))
<1>1. /\ DOMAIN h = 1..Len(h) /\ Len(h) \in Nat
      /\ \A i \in 1..Len(h) : /\ h[i] \in Entry /\ h[i].id # o /\ h[i].phase = "completed"
  BY Entries DEF Has, Started
<1>2. /\ p \in Seq(Entry) /\ DOMAIN p = 1..Len(p) /\ Len(p) \in Nat /\ Len(p) < Limit
      /\ \E d \in {0, 1} : /\ Len(p) + d = Len(h)
                           /\ \A i \in 1..Len(p) : p[i] = h[i + d]
  <2>1. CASE Len(h) < Limit
    <3>1. p = h
      BY <2>1 DEF Pruned
    <3>. QED BY <1>1, <2>1, <3>1
  <2>2. CASE ~(Len(h) < Limit)
    <3>1. Len(h) >= Limit /\ Len(h) <= Limit
      BY <1>1, <2>2, BoundsAssumption DEF Valid
    <3>2. p = Tail(h) /\ Len(h) >= 1
      BY <3>1, PrunedIs
    <3>3. h # << >>
      BY <3>2
    <3>4. /\ p \in Seq(Entry) /\ Len(p) = Len(h) - 1
          /\ \A i \in 1..Len(p) : p[i] = h[i + 1]
      BY <3>2, <3>3, HeadTailProperties
    <3>. QED BY <1>1, <3>1, <3>2, <3>4, Entries, BoundsAssumption
  <2>. QED BY <2>1, <2>2
<1>3. PICK d \in {0, 1} : /\ Len(p) + d = Len(h)
                          /\ \A i \in 1..Len(p) : p[i] = h[i + d]
  BY <1>2
<1>. HIDE DEF p
<1>4. \A i \in 1..Len(p) : i + d \in 1..Len(h) /\ p[i] = h[i + d]
  BY <1>1, <1>2, <1>3
<1>5. Entered(o) \in Entry /\ Entered(o).id = o /\ Entered(o).phase = "started"
  BY DEF Entered, Entry
<1>6. /\ g \in Seq(Entry) /\ Len(g) = Len(p) + 1 /\ g[Len(p) + 1] = Entered(o)
      /\ \A i \in 1..Len(p) : g[i] = p[i]
  BY <1>2, <1>5, AppendProperties
<1>. HIDE DEF g
<1>7. DOMAIN g = 1..(Len(p) + 1)
  BY <1>6, Entries
<1>8. \A i \in 1..Len(p) + 1 : \/ i = Len(p) + 1 /\ g[i].id = o /\ g[i].phase = "started"
                               \/ /\ i \in 1..Len(p) /\ i + d \in 1..Len(h) /\ g[i] = h[i + d]
                                  /\ g[i].id # o /\ g[i].phase = "completed"
  BY <1>1, <1>2, <1>4, <1>5, <1>6
<1>9. OneStarted(g)
  BY <1>6, <1>8 DEF OneStarted
<1>10. OneOfEachId(g)
  <2>. SUFFICES ASSUME NEW i \in 1..Len(p) + 1, NEW j \in 1..Len(p) + 1, g[i].id = g[j].id
       PROVE  i = j
    BY <1>6 DEF OneOfEachId
  <2>1. CASE i = Len(p) + 1 \/ j = Len(p) + 1
    BY <1>2, <1>8, <2>1
  <2>2. CASE i \in 1..Len(p) /\ j \in 1..Len(p)
    <3>1. h[i + d].id = h[j + d].id /\ i + d \in 1..Len(h) /\ j + d \in 1..Len(h)
      BY <1>4, <1>6, <2>2
    <3>2. i + d = j + d
      BY <3>1 DEF Valid, OneOfEachId
    <3>. QED BY <3>2
  <2>. QED BY <1>2, <2>1, <2>2
<1>11. Valid(g)
  BY <1>2, <1>6, <1>9, <1>10, BoundsAssumption DEF Valid
<1>12. \A i \in DOMAIN g : g[i].id = o \/ \E j \in DOMAIN h : g[i] = h[j]
  BY <1>1, <1>7, <1>8
<1>. QED BY <1>6, <1>11, <1>12 DEF g, p

(* Every step follows the history it finds, or enters one operation in it. *)
HistoryGoesOn ==
  /\ record' # None /\ record' \in Record
  /\ Valid(record'.ops) /\ AnswersKept(record.ops, record'.ops)

LEMMA FollowsGoesOn ==
  ASSUME HistoryInv, record # None, record' \in Record, Follows(record.ops, record'.ops)
  PROVE  HistoryGoesOn
<1>1. record \in Record /\ record.ops \in Seq(Entry) /\ record'.ops \in Seq(Entry)
  BY RecordFields DEF HistoryInv, IInv, TypeOK, Record
<1>2. record' # None
  BY NoneAssumption
<1>. QED BY <1>1, <1>2, FollowsValid DEF HistoryGoesOn, HistoryInv

LEMMA OperationGoesOn ==
  ASSUME HistoryInv, Operation
  PROVE  HistoryGoesOn
<1>1. record # None /\ record \in Record /\ record' \in Record /\ record' # None
  BY OperationRecord DEF HistoryInv
<1>2. /\ record.ops \in Seq(Entry) /\ Current \in Record /\ Current.ops \in Seq(Entry)
      /\ Follows(record.ops, Current.ops)
  BY <1>1, ReconciledType, ReconciledFollows DEF Current, Record
<1>3. CASE record' = Current
  BY <1>1, <1>2, <1>3, FollowsGoesOn
<1>4. CASE OperationStarts
  <2>. DEFINE h == Current.ops
              g == Append(Pruned(h), Entered(proc.id))
  <2>1. Valid(h) /\ AnswersKept(record.ops, h)
    BY <1>1, <1>2, FollowsValid DEF HistoryInv
  <2>2. ~Has(h, proc.id) /\ Started(h) = {} /\ proc.id \in Ops
    BY <1>4 DEF OperationStarts, HistoryInv, IInv, CommandKnows, At
  <2>3. record'.ops = g
    BY <1>2, <1>4 DEF OperationStarts, Record
  <2>4. /\ g \in Seq(Entry) /\ Valid(g)
        /\ \A i \in DOMAIN g : g[i].id = proc.id \/ \E j \in DOMAIN h : g[i] = h[j]
    BY <1>2, <2>1, <2>2, EnteredValid
  <2>. HIDE DEF g
  <2>5. ASSUME NEW i \in DOMAIN record.ops, record.ops[i].phase = "completed"
        PROVE  \A k \in DOMAIN g : g[k].id = record.ops[i].id => g[k] = record.ops[i]
    <3>1. i \in DOMAIN h /\ h[i].id = record.ops[i].id
      BY <1>2, <2>5, Entries DEF Follows, EntryAfter
    <3>2. record.ops[i].id # proc.id
      BY <2>2, <3>1 DEF Has
    <3>3. \A j \in DOMAIN h : h[j].id = record.ops[i].id => h[j] = record.ops[i]
      BY <2>1, <2>5 DEF AnswersKept
    <3>. QED BY <2>4, <3>2, <3>3
  <2>6. AnswersKept(record.ops, g)
    BY <2>5 DEF AnswersKept
  <2>. QED BY <1>1, <2>3, <2>4, <2>6 DEF HistoryGoesOn
<1>. QED BY <1>3, <1>4 DEF Operation, OperationReplayed, OperationRecovers, OperationBlocked

LEMMA HistoryStep ==
  ASSUME HistoryInv, Next, record # None
  PROVE  HistoryGoesOn
<1>1. record \in Record /\ record.ops \in Seq(Entry)
  BY RecordFields DEF HistoryInv, IInv, TypeOK
<1>2. CASE UNCHANGED record
  BY <1>1, <1>2, FollowsItself, FollowsGoesOn
<1>3. ASSUME NEW p \in Phases, record' = Phased(p)
      PROVE  HistoryGoesOn
  BY <1>1, <1>3, PhasedType, PhasedFollows, FollowsGoesOn
<1>4. ASSUME NEW a \in Accounts, NEW used \in BOOLEAN,
             record' = [record EXCEPT !.ops = Finished(record.ops, proc.id, a, used)]
      PROVE  HistoryGoesOn
  <2>1. Finished(record.ops, proc.id, a, used) \in Seq(Entry)
    BY <1>1, FinishedType
  <2>2. record' \in Record /\ record'.ops = Finished(record.ops, proc.id, a, used)
    BY <1>1, <1>4, <2>1 DEF Record
  <2>. QED BY <1>1, <2>2, FinishedFollows, FollowsGoesOn
<1>5. ASSUME NEW t \in Accounts, NEW id \in Ids \cup {None}, Advance(t, id)
      PROVE  HistoryGoesOn
  <2>1. record' \in Record
    BY <1>1, <1>5, AdvancedType DEF Advance
  <2>2. record'.ops = Aged(record.ops)
    BY <1>1, <1>5 DEF Advance, Advanced, Record
  <2>. QED BY <1>1, <2>1, <2>2, AgedFollows, FollowsGoesOn
<1>6. CASE Arrive
  BY <1>2, <1>6 DEF Arrive, Ask, SwapArrives, RotateArrives, DaemonTick
<1>7. CASE Environment
  BY <1>2, <1>7 DEF Environment, Crash, Resolve, Others
<1>8. CASE Bootstrap
  BY <1>2, <1>8 DEF Bootstrap
<1>9. CASE Operation
  BY <1>9, OperationGoesOn
<1>10. CASE AnyBarrier \/ AnyActivate
  BY <1>2, <1>10 DEF AnyBarrier, AnyActivate, Barrier, ResetBarrier, Activate
<1>11. CASE MarkUnconfirmed
  BY <1>3, <1>11 DEF MarkUnconfirmed, Phases
<1>12. CASE Swap
  <2>1. CASE SwapRestates
    <3>1. proc.id \in Ids \cup {None}
      BY <2>1 DEF HistoryInv, IInv, TypeOK, Proc
    <3>2. record' \in Record
      BY <1>1, <2>1, <3>1, RestatedType DEF SwapRestates
    <3>3. record'.ops = Aged(record.ops)
      BY <1>1, <2>1 DEF SwapRestates, Restated, Record
    <3>. QED BY <1>1, <3>2, <3>3, AgedFollows, FollowsGoesOn
  <2>2. CASE SwapAdvances
    <3>1. proc.id \in Ids \cup {None} /\ proc.target \in Accounts
      BY <2>2 DEF HistoryInv, IInv, TypeOK, CommandKnows, SwapAdvances, At, Proc, Asked
    <3>. QED BY <1>5, <2>2, <3>1 DEF SwapAdvances
  <2>. QED BY <1>2, <1>12, <2>1, <2>2 DEF Swap, SwapReplayed, SwapRecovers, SwapRefused
<1>13. CASE Align
  BY <1>2, <1>3, <1>13
  DEF Align, AlignConfirmed, AlignConverges, Aligned, MarkConverging, Phases
<1>14. CASE Settle
  BY <1>2, <1>3, <1>14
  DEF Settle, SettleStable, SettleDegraded, SettleTouch, SettleReset, Phases
<1>15. CASE Select
  <2>1. CASE \E t \in Accounts : DaemonReset(t) \/ Rotate(t)
    <3>1. PICK t \in Accounts : DaemonReset(t) \/ Rotate(t)
      BY <2>1
    <3>2. proc.id \in Ids \cup {None}
      BY DEF HistoryInv, IInv, TypeOK, Proc
    <3>. QED BY <1>3, <1>5, <3>1, <3>2 DEF DaemonReset, Rotate, Phases
  <2>2. CASE CompleteRecovered
    <3>1. record.desired \in Accounts
      BY <1>1 DEF Record
    <3>. QED BY <1>4, <2>2, <3>1 DEF CompleteRecovered
  <2>3. CASE Complete
    <3>1. proc.target \in Accounts /\ host.active \in Accounts
      BY <2>3 DEF HistoryInv, IInv, TypeOK, CommandKnows, Complete, At, Host
    <3>2. CASE proc.purpose = "reset"
      BY <1>4, <2>3, <3>1, <3>2 DEF Complete
    <3>3. CASE proc.purpose # "reset"
      BY <1>4, <2>3, <3>1, <3>3 DEF Complete
    <3>. QED BY <3>2, <3>3
  <2>. QED BY <1>2, <1>15, <2>1, <2>2, <2>3
           DEF Select, NotRecovered, Reset, DaemonTouch, NothingSelected
<1>. QED BY <1>6, <1>7, <1>8, <1>9, <1>10, <1>11, <1>12, <1>13, <1>14, <1>15 DEF Next, Step

(* The first record has no history.                                        *)
LEMMA HistoryBegins ==
  ASSUME HistoryInv, Next, record = None, record' # None
  PROVE  record'.ops = << >>
<1>1. CASE UNCHANGED record
  BY <1>1
<1>2. CASE Bootstrap
  BY <1>2 DEF Bootstrap, Bootstrapped
<1>3. CASE Arrive \/ Environment
  BY <1>1, <1>3 DEF Arrive, Ask, SwapArrives, RotateArrives, DaemonTick,
                    Environment, Crash, Resolve, Others
<1>4. CASE AnyBarrier \/ AnyActivate \/ MarkUnconfirmed
  BY <1>1, <1>4
  DEF AnyBarrier, AnyActivate, Barrier, ResetBarrier, Activate, MarkUnconfirmed
<1>5. proc.pc \in {"idle", "bootstrap", "barrier", "unconfirmed"}
  BY DEF HistoryInv, IInv, CommandKnows
<1>6. ~Operation
  BY <1>5 DEF Operation, OperationReplayed, OperationRecovers, OperationBlocked,
              OperationStarts, At
<1>7. ~Swap /\ ~Align /\ ~Settle
  BY <1>5 DEF Swap, SwapReplayed, SwapRestates, SwapAdvances, SwapRecovers, SwapRefused,
              Align, AlignConfirmed, AlignConverges, Aligned, MarkConverging,
              Settle, SettleStable, SettleDegraded, SettleTouch, SettleReset, At
<1>8. ~Select
  BY <1>5 DEF Select, CompleteRecovered, NotRecovered, Reset, DaemonTouch, NothingSelected,
              Complete, DaemonReset, Rotate, At
<1>. QED BY <1>2, <1>3, <1>4, <1>6, <1>7, <1>8 DEF Next, Step

LEMMA EmptyValid == Valid(<< >>)
BY BoundsAssumption DEF Valid, OneOfEachId, OneStarted

LEMMA NextHistoryInv == HistoryInv /\ [Next]_vars => HistoryInv'
<1>. SUFFICES ASSUME HistoryInv, [Next]_vars PROVE HistoryInv'
  OBVIOUS
<1>1. IInv'
  BY NextIInv DEF HistoryInv
<1>2. CASE UNCHANGED vars
  BY <1>1, <1>2 DEF HistoryInv, vars
<1>3. CASE Next
  BY <1>1, <1>3, HistoryStep, HistoryBegins, EmptyValid DEF HistoryInv, HistoryGoesOn
<1>. QED BY <1>2, <1>3

LEMMA HistoryInvIsValid == HistoryInv => HistoryValid
<1>. SUFFICES ASSUME HistoryInv, record # None PROVE HistoryValid
  BY DEF HistoryValid
<1>1. record.ops \in Seq(Entry) /\ Valid(record.ops)
  BY RecordFields DEF HistoryInv, IInv, TypeOK
<1>. QED BY <1>1, ValidIsHistoryValid DEF HistoryValid, Valid

(* The journal of operations stays one that validate_record accepts: at    *)
(* most ROTATION_OPERATION_HISTORY_LIMIT entries, of different operations, *)
(* at most one of them unanswered.                                         *)
THEOREM HistoriesValid == Spec => []HistoryValid
<1>1. Init => HistoryInv
  BY InitIInv DEF HistoryInv, Init
<1>. QED BY <1>1, NextHistoryInv, HistoryInvIsValid, PTL DEF Spec

(* A rotation operation that was answered is answered the same as long as  *)
(* the history remembers it (complete_rotation_operation and               *)
(* begin_rotation_operation).                                              *)
THEOREM AnswersRemembered == Spec => HistoryKept
<1>. DEFINE Kept == record # None =>
                      \A e \in {record.ops[i] : i \in DOMAIN record.ops} :
                        e.phase = "completed" =>
                          \A f \in {record'.ops[i] : i \in DOMAIN record'.ops} : f.id = e.id => f = e
<1>1. Init => HistoryInv
  BY InitIInv DEF HistoryInv, Init
<1>2. HistoryInv /\ [Next]_vars => [Kept]_vars
  BY HistoryStep DEF HistoryGoesOn, AnswersKept
<1>3. Spec => [][Kept]_vars
  <2>. HIDE DEF Kept
  <2>. QED BY <1>1, <1>2, NextHistoryInv, PTL DEF Spec
<1>4. Spec => [][HistoryValid' /\ Kept]_vars
  <2>. HIDE DEF Kept
  <2>. QED BY <1>3, HistoriesValid, PTL
<1>. QED BY <1>4, PTL DEF HistoryKept

-----------------------------------------------------------------------------
(* The commands of the pool authority implement PoolTarget: every step of  *)
(* theirs, a crash in the middle of an activation included, is a step of   *)
(* the abstract pool or leaves it as it is.  IInv says what makes that so. *)

Abstract == [Target!TargetNext]_(Target!targetVars)

-----------------------------------------------------------------------------
(* The abstract pool, before and after a step.                             *)

LEMMA PoolIs ==
  ASSUME IInv, record # None
  PROVE  /\ Pool # None /\ record \in Record
         /\ Pool = [epoch |-> record.epoch, phase |-> record.phase,
                    desired |-> record.desired, previous |-> record.previous]
<1>1. record \in Record
  BY DEF IInv, TypeOK
<1>. QED BY <1>1, RecordFields, NoneAssumption DEF Pool

LEMMA PoolIsNext ==
  ASSUME record' \in Record
  PROVE  Pool' = [epoch |-> record'.epoch, phase |-> record'.phase,
                  desired |-> record'.desired, previous |-> record'.previous]
BY NoneAssumption DEF Pool

(* A step that keeps the decision, the host's account and its drift.       *)
LEMMA Stutters ==
  ASSUME IInv, UNCHANGED drifted, host'.active = host.active,
         \/ UNCHANGED record
         \/ /\ record # None /\ record' \in Record
            /\ record'.epoch = record.epoch /\ record'.phase = record.phase
            /\ record'.desired = record.desired /\ record'.previous = record.previous
  PROVE  Abstract
<1>1. Pool' = Pool
  <2>1. CASE UNCHANGED record
    BY <2>1 DEF Pool
  <2>2. CASE record # None /\ ~UNCHANGED record
    BY <2>2, PoolIs, PoolIsNext
  <2>. QED BY <2>1, <2>2
<1>. QED BY <1>1 DEF Abstract, Target!targetVars

(* The host's account changes under a decision: HostFollows, before and    *)
(* after, leaves it only the decided accounts while the pool converges.    *)
LEMMA Serves ==
  ASSUME IInv, IInv', UNCHANGED <<record, drifted>>,
         record = None => host'.active = host.active
  PROVE  Abstract
<1>1. CASE host'.active = host.active
  BY <1>1, Stutters
<1>2. CASE host'.active # host.active
  <2>1. record # None /\ Pool' = Pool
    BY <1>2 DEF Pool
  <2>2. /\ Pool # None /\ Pool.phase = record.phase
        /\ Pool.desired = record.desired /\ Pool.previous = record.previous
    BY <2>1, PoolIs
  <2>3. drifted \/ (~Stable /\ host'.active \in {record.desired, record.previous})
    BY <1>2, <2>1 DEF IInv, HostFollows, Stable
  <2>4. host'.active \in Accounts
    BY DEF IInv, TypeOK, Host
  <2>5. Target!Serve(host'.active)
    BY <2>1, <2>2, <2>3 DEF Target!Serve, Stable
  <2>. QED BY <2>4, <2>5 DEF Abstract, Target!TargetNext
<1>. QED BY <1>1, <1>2

(* A phase other than stable is recorded.                                  *)
LEMMA Unsettles ==
  ASSUME IInv, record # None, NEW p \in {"converging", "degraded"}, record' = Phased(p),
         UNCHANGED <<host, drifted>>
  PROVE  Abstract
<1>1. /\ record' \in Record /\ record'.phase = p /\ record'.epoch = record.epoch
      /\ record'.desired = record.desired /\ record'.previous = record.previous
  BY PoolIs, PhasedType DEF Phases
<1>2. Pool # None /\ Pool' = [Pool EXCEPT !.phase = p]
  BY <1>1, PoolIs, PoolIsNext
<1>3. Target!Unsettle(p)
  BY <1>2 DEF Target!Unsettle
<1>. QED BY <1>3 DEF Abstract, Target!TargetNext

(* Stable is recorded under a host on its target.                          *)
LEMMA Confirms ==
  ASSUME IInv, record # None, record' = Phased("stable"), OnTarget, UNCHANGED host,
         drifted' \in {drifted, FALSE}
  PROVE  Abstract
<1>1. /\ record' \in Record /\ record'.phase = "stable" /\ record'.epoch = record.epoch
      /\ record'.desired = record.desired /\ record'.previous = record.previous
  BY PoolIs, PhasedType DEF Phases
<1>2. /\ Pool # None /\ Pool' = [Pool EXCEPT !.phase = "stable"] /\ Pool.desired = host.active
  BY <1>1, PoolIs, PoolIsNext DEF OnTarget
<1>3. Target!Confirm
  BY <1>2 DEF Target!Confirm
<1>. QED BY <1>3 DEF Abstract, Target!TargetNext

(* Another target is published, by whichever command.                      *)
LEMMA Decides ==
  ASSUME IInv, record # None, Stable, NEW t \in Accounts, t # record.desired,
         NEW id \in Ids \cup {None}, Advance(t, id), UNCHANGED <<host, drifted>>
  PROVE  Abstract
<1>1. /\ record' \in Record /\ record'.phase = "converging" /\ record'.epoch = record.epoch + 1
      /\ record'.desired = t /\ record'.previous = record.desired
  BY PoolIs, AdvancedType DEF Advance
<1>2. /\ Pool # None /\ Pool.phase = "stable" /\ t # Pool.desired
      /\ Pool' = [epoch |-> Pool.epoch + 1, phase |-> "converging",
                  desired |-> t, previous |-> Pool.desired]
  BY <1>1, PoolIs, PoolIsNext DEF Stable
<1>3. Target!Decide(t)
  BY <1>2 DEF Target!Decide
<1>. QED BY <1>3 DEF Abstract, Target!TargetNext

-----------------------------------------------------------------------------
(* The steps of the commands, the ones that arrive and the environment's.  *)

LEMMA BootstrapRefines ==
  ASSUME IInv, Bootstrap
  PROVE  Abstract
<1>1. UNCHANGED <<host, drifted>> /\ host.active \in Accounts
  BY DEF Bootstrap, Still, IInv, TypeOK, Host
<1>2. CASE record # None
  BY <1>1, <1>2, Stutters DEF Bootstrap
<1>3. CASE record = None
  <2>1. /\ record' \in Record /\ record'.epoch = 1 /\ record'.phase = "stable"
        /\ record'.desired = host.active /\ record'.previous = host.active
    BY <1>1, <1>3 DEF Bootstrap, Bootstrapped, Record, Phases
  <2>2. /\ Pool = None
        /\ Pool' = [epoch |-> 1, phase |-> "stable",
                    desired |-> host.active, previous |-> host.active]
    BY <1>3, <2>1, PoolIsNext DEF Pool
  <2>3. Target!Adopt
    BY <1>1, <2>2 DEF Target!Adopt
  <2>. QED BY <2>3 DEF Abstract, Target!TargetNext
<1>. QED BY <1>2, <1>3

LEMMA SwapRefines ==
  ASSUME IInv, Swap
  PROVE  Abstract
<1>1. /\ record # None /\ record \in Record /\ UNCHANGED <<host, drifted>>
      /\ proc.id \in Ids \cup {None} /\ proc.cmd = "swap"
  BY DEF IInv, TypeOK, CommandKnows, Swap, At, SwapReplayed, SwapRestates, SwapAdvances,
         SwapRecovers, SwapRefused, Still, Proc
<1>2. proc.target \in Accounts
  BY <1>1 DEF IInv, TypeOK, CommandKnows, Asked
<1>3. CASE SwapRestates
  <2>1. /\ record.phase = "stable" /\ record' \in Record /\ record'.epoch = record.epoch
        /\ record'.phase = record.phase /\ record'.desired = record.desired
        /\ record'.previous = record.desired
    BY <1>1, <1>3, RestatedType DEF SwapRestates, Restates, Stable
  <2>2. /\ Pool # None /\ Pool.phase = "stable"
        /\ Pool' = [Pool EXCEPT !.previous = Pool.desired]
    BY <1>1, <2>1, PoolIs, PoolIsNext
  <2>3. Target!Restate
    BY <1>1, <2>2 DEF Target!Restate
  <2>. QED BY <2>3 DEF Abstract, Target!TargetNext
<1>4. CASE SwapAdvances
  BY <1>1, <1>2, <1>4, Decides DEF SwapAdvances, Advances
<1>5. CASE UNCHANGED record
  BY <1>1, <1>5, Stutters
<1>. QED BY <1>3, <1>4, <1>5 DEF Swap, SwapReplayed, SwapRecovers, SwapRefused

LEMMA AlignRefines ==
  ASSUME IInv, Align
  PROVE  Abstract
<1>1. record # None /\ UNCHANGED <<host, drifted>>
  BY DEF IInv, CommandKnows, Align, At, AlignConfirmed, AlignConverges, Aligned,
         MarkConverging, Still
<1>2. CASE AlignConfirmed
  BY <1>1, <1>2, Confirms DEF AlignConfirmed
<1>3. CASE MarkConverging
  BY <1>1, <1>3, Unsettles DEF MarkConverging
<1>4. CASE UNCHANGED record
  BY <1>1, <1>4, Stutters
<1>. QED BY <1>2, <1>3, <1>4 DEF Align, AlignConverges, Aligned

(* An activation that is confirmed is of the recorded target, unless it is *)
(* one that records no phase.                                              *)
LEMMA SettleRefines ==
  ASSUME IInv, Settle
  PROVE  Abstract
<1>1. /\ record # None /\ UNCHANGED host /\ proc.pc = "settle" /\ (ForTarget \/ ForActive)
  BY DEF IInv, CommandKnows, ActivationKnows, Settle, At, SettleStable, SettleDegraded,
         SettleTouch, SettleReset, Still
<1>2. CASE SettleStable
  <2>1. OnTarget
    BY <1>1, <1>2
    DEF SettleStable, WritesPhase, ForActive, ForTarget, IInv, ActivationKnows, OnTarget
  <2>2. record' = Phased("stable") /\ drifted' \in {drifted, FALSE}
    BY <1>2, <2>1 DEF SettleStable
  <2>. QED BY <1>1, <2>1, <2>2, Confirms
<1>3. CASE SettleDegraded
  BY <1>1, <1>3, Unsettles DEF SettleDegraded, Still
<1>4. CASE SettleTouch \/ SettleReset
  BY <1>1, <1>4, Stutters DEF SettleTouch, SettleReset, Still
<1>. QED BY <1>2, <1>3, <1>4 DEF Settle

LEMMA SelectRefines ==
  ASSUME IInv, Select
  PROVE  Abstract
<1>1. /\ record # None /\ record \in Record /\ record.ops \in Seq(Entry)
      /\ UNCHANGED <<host, drifted>> /\ proc.id \in Ids \cup {None}
      /\ host.active \in Accounts
  BY RecordFields
  DEF IInv, TypeOK, CommandKnows, Select, At, CompleteRecovered, NotRecovered, Reset,
      DaemonTouch, NothingSelected, Complete, DaemonReset, Rotate, Proc, Host, Still
<1>2. CASE CompleteRecovered \/ Complete
  <2>1. PICK a \in Accounts, used \in BOOLEAN :
          record' = [record EXCEPT !.ops = Finished(record.ops, proc.id, a, used)]
    BY <1>1, <1>2 DEF CompleteRecovered, Complete, At, IInv, CommandKnows, Record
  <2>2. Finished(record.ops, proc.id, a, used) \in Seq(Entry)
    BY <1>1, FinishedType
  <2>3. /\ record' \in Record /\ record'.epoch = record.epoch /\ record'.phase = record.phase
        /\ record'.desired = record.desired /\ record'.previous = record.previous
    BY <1>1, <2>1, <2>2 DEF Record
  <2>. QED BY <1>1, <2>3, Stutters
<1>3. CASE \E t \in Accounts : DaemonReset(t) \/ Rotate(t)
  <2>1. PICK t \in Accounts : DaemonReset(t) \/ Rotate(t)
    BY <1>3
  <2>2. CASE record' = Phased("converging")
    BY <1>1, <2>2, Unsettles
  <2>3. CASE \E id \in {proc.id, None} : Advances(t, id, record.epoch) /\ Advance(t, id)
    BY <1>1, <2>3, Decides DEF Advances
  <2>. QED BY <2>1, <2>2, <2>3 DEF DaemonReset, Rotate
<1>4. CASE UNCHANGED record
  BY <1>1, <1>4, Stutters
<1>. QED BY <1>2, <1>3, <1>4 DEF Select, NotRecovered, Reset, DaemonTouch, NothingSelected

(* Whoever else switches the host makes it adrift; a switch back to where  *)
(* it was, or of the activation's state alone, changes nothing here.       *)
LEMMA EnvironmentRefines ==
  ASSUME IInv, IInv', Environment
  PROVE  Abstract
<1>1. UNCHANGED record
  BY DEF Environment, Crash, Resolve, Others
<1>2. CASE Crash
  <2>1. record = None => host' = host
    BY <1>2 DEF Crash, At, IInv, CommandKnows
  <2>. QED BY <1>1, <1>2, <2>1, Serves DEF Crash
<1>3. CASE Resolve
  BY <1>1, <1>3, Stutters DEF Resolve, HostIs, Still
<1>4. CASE \E a \in Accounts, s \in {"clear", "confirmed", "pending"} : Others(a, s)
  <2>1. PICK a \in Accounts : host'.active = a /\ drifted' = (drifted \/ a # host.active)
    BY <1>4 DEF Others, HostIs
  <2>2. CASE a = host.active
    <3>1. drifted' = drifted
      BY <2>1, <2>2 DEF IInv, TypeOK
    <3>. QED BY <1>1, <2>1, <2>2, <3>1, Stutters
  <2>3. CASE a # host.active
    <3>1. drifted' = TRUE /\ Pool' = Pool
      BY <1>1, <2>1, <2>3 DEF Pool
    <3>2. Target!Drift(a)
      BY <2>1, <3>1 DEF Target!Drift
    <3>. QED BY <3>2 DEF Abstract, Target!TargetNext
  <2>. QED BY <2>2, <2>3
<1>. QED BY <1>2, <1>3, <1>4 DEF Environment

LEMMA StepRefines ==
  ASSUME IInv, IInv', [Next]_vars
  PROVE  Abstract
<1>1. CASE UNCHANGED vars
  BY <1>1, Stutters DEF vars
<1>2. CASE Arrive
  BY <1>2, Stutters DEF Arrive, Ask, SwapArrives, RotateArrives, DaemonTick, Still
<1>3. CASE Operation
  <2>1. UNCHANGED <<host, drifted>>
    BY <1>3 DEF Operation, OperationReplayed, OperationRecovers, OperationBlocked,
                OperationStarts, Still
  <2>. QED BY <1>3, <2>1, OperationRecord, Stutters
<1>4. CASE AnyBarrier
  <2>1. PICK x \in BarrierAnswers(proc.live) :
          Take(x) /\ UNCHANGED <<record, drifted>>
    BY <1>4 DEF AnyBarrier, Barrier, ResetBarrier
  <2>2. /\ host' = x.host /\ x.host.active \in {host.active, host.from}
        /\ record = None => host.from = host.active
    BY <2>1, BarrierAnswer DEF Take, IInv, TypeOK, HostSettled, Proc
  <2>. QED BY <2>1, <2>2, Serves
<1>5. CASE AnyActivate
  BY <1>5, Serves DEF AnyActivate, Activate, At, IInv, CommandKnows
<1>6. CASE MarkUnconfirmed
  BY <1>6, Unsettles, Stutters DEF MarkUnconfirmed, Still
<1>. QED BY <1>1, <1>2, <1>3, <1>4, <1>5, <1>6, BootstrapRefines, SwapRefines, AlignRefines,
            SettleRefines, SelectRefines, EnvironmentRefines DEF Next, Step

(* Whatever the commands, their interleavings and their crashes, the pool  *)
(* decides one target at a time, publishes it before the host serves it    *)
(* and decides again only when it is stable (begin_target_request,         *)
(* update_phase and the activations of request_pool_target_with, rotate_now*)
(* and the daemon).                                                        *)
THEOREM ImplementsTarget == Spec => ServesDecisions
<1>1. Init => Target!TargetInit
  <2>1. ASSUME Init PROVE Pool = None /\ host.active \in Accounts /\ drifted = FALSE
    BY <2>1 DEF Init, Pool
  <2>. QED BY <2>1 DEF Target!TargetInit
<1>2. IInv /\ IInv' /\ [Next]_vars => [Target!TargetNext]_(Target!targetVars)
  BY StepRefines DEF Abstract
<1>. QED BY <1>1, <1>2, Invariance, PTL DEF Spec, ServesDecisions, Target!TargetSpec
=============================================================================
