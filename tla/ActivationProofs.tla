--------------------------- MODULE ActivationProofs ---------------------------
(***************************************************************************)
(* The inductive invariant of Activation and the properties that follow    *)
(* from it, for any accounts, runtimes and bounds.                         *)
(***************************************************************************)
EXTENDS Activation, TLAPS

(* The types with the tokens and stamps that can have been written after n *)
(* outside writes: the next one is fresh.                                  *)
StoreAt(n) == [active: Accounts, tok: [Accounts -> 0..n], obs: Telemetry]
AuthAt(n) == [acct: Accounts, tok: 0..n, stamp: 0..n]
CredAt(n) == [acct: Accounts, tok: 0..n]
ImageAt(n) == [store: StoreAt(n), auth: AuthAt(n)]
JournalAt(n) ==
  [state: States, kind: Kinds, target: Accounts, gen: StoreAt(n),
   fp: CredAt(n) \cup {None}, base: StoreAt(n) \cup {None}, own: StoreAt(n) \cup {None},
   ownAuth: AuthAt(n) \cup {None}, image: ImageAt(n) \cup {None}, mismatch: BOOLEAN]
PriorAt(n) == [record: JournalAt(n), witness: Accounts \cup {None}]
TxAt(n) ==
  [pc: Pcs, op: Ops \cup {None}, target: Accounts \cup {None}, live: BOOLEAN,
   new: StoreAt(n) \cup {None}, image: ImageAt(n) \cup {None}, ownStore: BOOLEAN,
   ownAuth: AuthAt(n) \cup {None}, bind: ImageAt(n) \cup {None},
   prior: PriorAt(n) \cup {None},
   pending: SUBSET Runtimes, acked: SUBSET Runtimes, ok: BOOLEAN]

Types ==
  /\ store \in StoreAt(outside) /\ auth \in AuthAt(outside)
  /\ journal \in JournalAt(outside) \cup {None} /\ tx \in TxAt(outside)
  /\ loaded \in [Runtimes -> CredAt(outside) \cup {None}]
  /\ witness \in Accounts \cup {None}
  /\ outside \in 0..MaxOutside /\ faults \in 0..MaxFaults /\ ops \in 0..MaxOps
  /\ disturbed \in BOOLEAN

(* What the transaction wrote is unstamped, or only repeats the credential *)
(* that was there.                                                         *)
Owns(own, new, image) ==
  own # None => /\ Fp(own) = ActiveFp(new)
                /\ own.stamp = 0 \/ Fp(own) = Fp(image.auth)

(* auth.json has not been touched, or somebody else has written it since.  *)
Untouched(image) == auth = image.auth \/ (auth.stamp # 0 /\ disturbed)

(* A credential written by others is never the one about to be committed.  *)
Foreign(new, image) == Fp(auth) = Fp(image.auth) \/ Fp(auth) # ActiveFp(new)

(* A prepared record carries all that its recovery needs.                  *)
PreparedKnows ==
  Is("Prepared") =>
    /\ journal.own \in StoreAt(outside) /\ journal.image \in ImageAt(outside)
    /\ journal.base = journal.image.store /\ journal.own.active = journal.target
    /\ Owns(journal.ownAuth, journal.own, journal.image)

RecoverKnows ==
  /\ tx.pc \in {"recoverAuth", "recoverEnd"} => Is("Prepared") /\ store = journal.image.store
  /\ tx.pc = "recoverAuth" => journal.ownAuth # None
  /\ tx.pc = "recoverEnd" => Untouched(journal.image)

BarrierPcs == {"adopt", "recover", "recoverAuth", "recoverEnd", "durable", "observe", "rebind"}
CommitPcs == {"commitStore", "commitAuth", "owned", "verify"}
RollbackPcs == {"rollback", "rollbackAuth", "rollbackEnd"}
Activating == {"activate", "adopt", "import"}

(* What each program counter tells of the operation that runs there.       *)
CallerKnows ==
  /\ tx.pc # "idle" /\ tx.op \in Activating => tx.target \in Accounts
  /\ tx.pc # "idle" /\ tx.op = "import" => tx.new \in StoreAt(outside) /\ tx.new.active = tx.target
  /\ tx.pc \in BarrierPcs => tx.op \in Activating \cup {"reconcile"} /\ tx.prior = None
  /\ tx.pc \in BarrierPcs \cup {"prepare"} => tx.ownAuth = None
  /\ tx.pc = "adopt" => tx.op = "adopt"
  /\ tx.pc \in CommitPcs \cup RollbackPcs \cup {"prepare"} => tx.op \in Activating
  /\ tx.pc \in {"preflight", "publish", "commitTelemetry", "settleTelemetry"} => tx.op = "telemetry"
  /\ tx.pc \in {"observe", "rebind"} => Pending
  /\ tx.pc \notin {"reload", "final"} => tx.acked = {}
  /\ tx.pc # "final" => ~tx.ok

(* A new activation begins on a settled record.                            *)
Settled == journal = None \/ Is("RolledBack") \/ (Is("Confirmed") /\ Clean(journal))

(* The record that an adoption goes over confirms what neither auth.json   *)
(* nor the rollback image holds.                                           *)
PriorKnows ==
  tx.prior # None =>
    /\ tx.op = "adopt" /\ tx.prior.record.state = "Confirmed"
    /\ tx.pc = "prepare" =>
         tx.prior.record.fp = CredOf(store, tx.target) /\ tx.prior.record.fp # Fp(auth)
    /\ tx.pc \in CommitPcs \cup RollbackPcs =>
         tx.prior.record.fp = ActiveFp(tx.new) /\ tx.prior.record.fp # Fp(tx.image.auth)

CommitKnows ==
  /\ tx.pc = "prepare" => Settled
  /\ tx.pc \in CommitPcs \cup RollbackPcs =>
       /\ Is("Prepared") /\ journal.own = tx.new /\ journal.image = tx.image
       /\ tx.target = journal.target
       /\ Owns(tx.ownAuth, tx.new, tx.image)
  /\ tx.pc = "commitStore" => store = tx.image.store /\ Untouched(tx.image)
  /\ tx.pc \in {"commitStore", "commitAuth", "rollbackEnd"} => Foreign(tx.new, tx.image)
  /\ tx.pc \in {"commitAuth", "owned", "verify"} => store = tx.new
  /\ tx.pc = "rollbackAuth" => tx.ownAuth # None
  /\ tx.pc \in {"rollbackAuth", "rollbackEnd"} => store = tx.image.store
  /\ tx.pc = "rollbackEnd" => Untouched(tx.image)

(* Once auth.json differs from what the reload was bound to it stays so.   *)
Follow(rs) == \A r \in rs : loaded[r] = Fp(auth)
ReloadKnows ==
  tx.pc \in {"discover", "reload", "final"} =>
    /\ tx.bind \in ImageAt(outside)
    /\ auth = tx.bind.auth \/ tx.bind.auth.stamp < auth.stamp
    /\ tx.pc = "reload" /\ auth = tx.bind.auth => Follow(tx.acked \cap Live)
    /\ tx.pc = "final" /\ tx.ok /\ auth = tx.bind.auth => Follow(Live)

TelemetryKnows ==
  /\ tx.pc \in {"commitTelemetry", "settleTelemetry"} =>
       Is("Confirmed") /\ tx.new \in StoreAt(outside)
  /\ tx.pc = "commitTelemetry" => ActiveFp(tx.new) = ActiveFp(store)

(* Without disturbance the files agree, or a record says why not; and an   *)
(* activation was prepared on files that agree.                            *)
SplitGuarded ==
  "Import" \notin LateErrors /\ ~disturbed =>
    /\ FilesAgree \/ Is("Prepared") \/ Is("ManualReview")
    /\ Is("Prepared") => Fp(journal.image.auth) = ActiveFp(journal.image.store)

(* A confirmed record that names the credential in auth.json is the truth  *)
(* about the runtimes, whatever the store says.                            *)
RuntimesFollow ==
  ~SwiftDegrades /\ Is("Confirmed") /\ journal.fp = Fp(auth) => Follow(Live)

Knows == RecoverKnows /\ CallerKnows /\ PriorKnows /\ CommitKnows /\ ReloadKnows /\ TelemetryKnows
IInv == Types /\ PreparedKnows /\ Knows /\ SplitGuarded /\ RuntimesFollow

-----------------------------------------------------------------------------
(* Facts about the operators that every action uses.                       *)

(* What can have been written can still have been written later.           *)
LEMMA Later ==
  ASSUME NEW n \in Nat, NEW m \in Nat, n <= m
  PROVE  /\ StoreAt(n) \subseteq StoreAt(m) /\ AuthAt(n) \subseteq AuthAt(m)
         /\ CredAt(n) \subseteq CredAt(m) /\ ImageAt(n) \subseteq ImageAt(m)
         /\ JournalAt(n) \subseteq JournalAt(m) /\ PriorAt(n) \subseteq PriorAt(m)
         /\ TxAt(n) \subseteq TxAt(m)
<1>1. 0..n \subseteq 0..m
  OBVIOUS
<1>2. StoreAt(n) \subseteq StoreAt(m) /\ AuthAt(n) \subseteq AuthAt(m) /\ CredAt(n) \subseteq CredAt(m)
  BY <1>1 DEF StoreAt, AuthAt, CredAt
<1>3. ImageAt(n) \subseteq ImageAt(m)
  BY <1>2 DEF ImageAt
<1>4. JournalAt(n) \subseteq JournalAt(m)
  BY <1>2, <1>3 DEF JournalAt
<1>5. PriorAt(n) \subseteq PriorAt(m)
  BY <1>4 DEF PriorAt
<1>6. TxAt(n) \subseteq TxAt(m)
  BY <1>2, <1>3, <1>5 DEF TxAt
<1> QED BY <1>2, <1>3, <1>4, <1>5, <1>6

(* At the bound they are the types of the specification.                   *)
LEMMA AtBound ==
  /\ StoreAt(MaxOutside) = Store /\ AuthAt(MaxOutside) = Auth /\ CredAt(MaxOutside) = Cred
  /\ ImageAt(MaxOutside) = Image /\ JournalAt(MaxOutside) = Journal
BY DEF StoreAt, AuthAt, CredAt, ImageAt, JournalAt, Store, Auth, Cred, Image, Journal, Token

(* None is no credential, no store, no image and no record.                *)
LEMMA NoneApart ==
  ASSUME NEW n \in 0..MaxOutside
  PROVE  /\ None \notin CredAt(n) /\ None \notin StoreAt(n)
         /\ None \notin ImageAt(n) /\ None \notin JournalAt(n)
<1>1. n \in Nat /\ MaxOutside \in Nat /\ n <= MaxOutside
  BY BoundsAssumption
<1> QED BY <1>1, Later, AtBound, NoneAssumption

(* A settled record.                                                       *)
LEMMA RecordTyped ==
  ASSUME NEW n, NEW state \in States, NEW target \in Accounts, NEW gen \in StoreAt(n),
         NEW fp \in CredAt(n) \cup {None}
  PROVE  LET r == Record(state, target, gen, fp)
         IN  r \in JournalAt(n) /\ r.state = state /\ r.target = target /\ r.fp = fp /\ Clean(r)
BY DEF Record, JournalAt, Kinds, Clean

(* A record written with another outcome is typed at the same bound.     *)
LEMMA SettleTyped ==
  ASSUME NEW n, NEW r \in JournalAt(n)
  PROVE  /\ Settle(r) \in JournalAt(n) /\ Clean(Settle(r))
         /\ Settle(r).state = r.state /\ Settle(r).fp = r.fp
BY DEF Settle, JournalAt, Clean

(* A store has a typed credential for each account.                      *)
LEMMA CredTyped ==
  ASSUME NEW n, NEW s \in StoreAt(n), NEW a \in Accounts
  PROVE  CredOf(s, a) \in CredAt(n) /\ ActiveFp(s) \in CredAt(n)
BY DEF CredOf, ActiveFp, StoreAt, CredAt

(* The fingerprint of a typed credential is one.                         *)
LEMMA FpTyped ==
  ASSUME NEW n, NEW a \in AuthAt(n)
  PROVE  Fp(a) \in CredAt(n) /\ Fp(a).acct = a.acct /\ Fp(a).tok = a.tok
BY DEF Fp, AuthAt, CredAt

(* No operation is in progress.                                          *)
LEMMA IdleTyped == ASSUME NEW n PROVE Idle \in TxAt(n)
BY DEF Idle, TxAt, Pcs

(* A step of the program counter alone.                                    *)
LEMMA GotoFacts ==
  ASSUME NEW n, tx \in TxAt(n), NEW pc \in Pcs, Goto(pc)
  PROVE  /\ tx' \in TxAt(n) /\ tx'.pc = pc
         /\ tx'.op = tx.op /\ tx'.target = tx.target /\ tx'.live = tx.live /\ tx'.new = tx.new
         /\ tx'.image = tx.image /\ tx'.ownStore = tx.ownStore /\ tx'.ownAuth = tx.ownAuth
         /\ tx'.prior = tx.prior /\ tx'.bind = tx.bind /\ tx'.pending = tx.pending
         /\ tx'.acked = tx.acked /\ tx'.ok = tx.ok
BY DEF Goto, TxAt

(* Nothing is known of an operation that has ended.                        *)
LEMMA EndKnows ==
  ASSUME End
  PROVE  Knows' /\ tx'.pc = "idle" /\ tx' \in TxAt(outside')
<1>1. /\ tx' \in TxAt(outside') /\ tx'.pc = "idle" /\ tx'.acked = {} /\ tx'.ok = FALSE
      /\ tx'.op = None /\ tx'.prior = None
  BY IdleTyped DEF End, Idle
<1> QED BY <1>1 DEF Knows, RecoverKnows, CallerKnows, PriorKnows, CommitKnows, ReloadKnows,
              TelemetryKnows, BarrierPcs, CommitPcs, RollbackPcs, Activating

(* The actions act on naturals.                                            *)
LEMMA Counted ==
  ASSUME Types
  PROVE  /\ outside \in Nat /\ outside \in 0..MaxOutside
         /\ None \notin StoreAt(outside) /\ None \notin ImageAt(outside)
         /\ None \notin JournalAt(outside)
BY NoneApart DEF Types

(* A step that moves nothing but the transaction needs only what the       *)
(* transaction knows.                                                      *)
LEMMA Aside ==
  ASSUME IInv, UNCHANGED files, Keep, tx' \in TxAt(outside), Knows'
  PROVE  IInv'
<1> USE DEF Keep, files, bounds
<1>1. Types'
  BY DEF IInv, Types
<1>2. PreparedKnows' /\ SplitGuarded' /\ RuntimesFollow'
  BY DEF IInv, PreparedKnows, SplitGuarded, RuntimesFollow, Is, Owns, Follow, Live, FilesAgree
<1> QED BY <1>1, <1>2 DEF IInv

(* A step that ends the operation and changes nothing else.                *)
LEMMA Stops ==
  ASSUME IInv, UNCHANGED files, Keep, End
  PROVE  IInv'
<1>1. Knows' /\ tx' \in TxAt(outside)
  BY EndKnows DEF Keep, bounds
<1> QED BY <1>1, Aside

(* On its way through the barrier the operation knows its caller, and what *)
(* the recovery or the resumption has established.                         *)
LEMMA Passes ==
  ASSUME Types, Knows, tx.pc \in BarrierPcs, NEW pc \in BarrierPcs, Goto(pc), outside' = outside,
         pc \in {"recoverAuth", "recoverEnd"} => (Is("Prepared") /\ store = journal.image.store)',
         pc = "recoverAuth" => (journal.ownAuth # None)',
         pc = "recoverEnd" => Untouched(journal.image)',
         pc \in {"observe", "rebind"} => Pending', pc # "adopt"
  PROVE  Knows' /\ tx' \in TxAt(outside)
<1>1. /\ tx' \in TxAt(outside) /\ tx'.pc = pc /\ tx'.op = tx.op /\ tx'.target = tx.target
      /\ tx'.new = tx.new /\ tx'.prior = tx.prior /\ tx'.acked = tx.acked /\ tx'.ok = tx.ok
      /\ tx'.ownAuth = tx.ownAuth
  BY GotoFacts DEF Types, Pcs, BarrierPcs
<1>2. RecoverKnows' /\ CommitKnows' /\ ReloadKnows' /\ TelemetryKnows'
  BY <1>1 DEF RecoverKnows, CommitKnows, ReloadKnows, TelemetryKnows, BarrierPcs, CommitPcs, RollbackPcs
<1>3. CallerKnows'
  BY <1>1 DEF Knows, CallerKnows, BarrierPcs, CommitPcs, RollbackPcs, Activating
<1>4. PriorKnows'
  BY <1>1 DEF Knows, PriorKnows, BarrierPcs, CommitPcs, RollbackPcs
<1> QED BY <1>1, <1>2, <1>3, <1>4 DEF Knows

(* The reload of a committed activation begins without acknowledgements.   *)
LEMMA Converges ==
  ASSUME Types, Knows, tx.pc \notin {"reload", "final"}, Goto("bind"), outside' = outside,
         tx.pc # "idle"
  PROVE  Knows' /\ tx' \in TxAt(outside)
<1>1. /\ tx' \in TxAt(outside) /\ tx'.pc = "bind" /\ tx'.op = tx.op /\ tx'.target = tx.target
      /\ tx'.new = tx.new /\ tx'.prior = tx.prior /\ tx'.acked = tx.acked /\ tx'.ok = tx.ok
      /\ tx'.ownAuth = tx.ownAuth
  BY GotoFacts DEF Types, Pcs
<1>2. RecoverKnows' /\ CommitKnows' /\ ReloadKnows' /\ TelemetryKnows'
  BY <1>1 DEF RecoverKnows, CommitKnows, ReloadKnows, TelemetryKnows, CommitPcs, RollbackPcs
<1>3. CallerKnows' /\ PriorKnows'
  BY <1>1 DEF Knows, CallerKnows, PriorKnows, BarrierPcs, CommitPcs, RollbackPcs, Activating
<1> QED BY <1>1, <1>2, <1>3 DEF Knows

(* While the record is prepared the files may be changed in any way.       *)
LEMMA UnderPrepared ==
  ASSUME IInv, Is("Prepared"), UNCHANGED <<journal, loaded, witness, outside, ops, disturbed>>,
         store' \in StoreAt(outside), auth' \in AuthAt(outside), faults' \in 0..MaxFaults,
         tx' \in TxAt(outside), Knows'
  PROVE  IInv'
<1>1. Types'
  BY DEF IInv, Types
<1>2. PreparedKnows' /\ SplitGuarded' /\ RuntimesFollow'
  BY DEF IInv, PreparedKnows, SplitGuarded, RuntimesFollow, Is, Owns
<1> QED BY <1>1, <1>2 DEF IInv

(* A new record that is neither prepared nor confirmed, written over the   *)
(* files as they are.                                                      *)
LEMMA Writes ==
  ASSUME IInv, NEW r \in JournalAt(outside), Write(r), KeepW, UNCHANGED <<store, auth>>,
         r.state \notin {"Prepared", "Confirmed"},
         tx' \in TxAt(outside), Knows',
         "Import" \notin LateErrors /\ ~disturbed => FilesAgree \/ r.state = "ManualReview"
  PROVE  IInv'
<1>1. /\ journal' = r /\ witness' = None
      /\ UNCHANGED <<store, auth, loaded, outside, faults, ops, disturbed>>
  BY DEF Write, KeepW, bounds
<1>2. journal' # None
  BY <1>1, Counted DEF IInv
<1>3. Types'
  BY <1>1 DEF IInv, Types
<1>4. PreparedKnows' /\ RuntimesFollow'
  BY <1>1 DEF PreparedKnows, RuntimesFollow, Is
<1>5. SplitGuarded'
  BY <1>1, <1>2 DEF SplitGuarded, Is, FilesAgree
<1> QED BY <1>3, <1>4, <1>5 DEF IInv

-----------------------------------------------------------------------------
(* The initial states, and operations that begin.                          *)

(* The initial states satisfy the invariant.                             *)
LEMMA InitInv == Init => IInv
<1> SUFFICES ASSUME Init
             PROVE  IInv
  OBVIOUS
<1>1. /\ store \in StoreAt(0) /\ store \in Store /\ auth = [acct |-> store.active, tok |-> 0, stamp |-> 0]
      /\ ActiveFp(store) = [acct |-> store.active, tok |-> 0]
  BY BoundsAssumption DEF Init, StoreAt, Store, ActiveFp, CredOf
<1>2. auth \in AuthAt(0) /\ ActiveFp(store) \in CredAt(0) /\ FilesAgree
  BY <1>1 DEF AuthAt, CredAt, FilesAgree, Fp, StoreAt
<1>3. /\ Record("Confirmed", store.active, store, ActiveFp(store)) \in JournalAt(0)
      /\ Record("Confirmed", store.active, store, ActiveFp(store)).state = "Confirmed"
  BY <1>1, <1>2, RecordTyped DEF StoreAt, States
<1>4. /\ journal \in JournalAt(0) \cup {None} /\ (journal = None \/ journal.state = "Confirmed")
      /\ loaded \in [Runtimes -> CredAt(0) \cup {None}] /\ Follow(Live)
  BY <1>1, <1>2, <1>3 DEF Init, Follow, Live, FilesAgree
<1>5. Types
  <2>1. tx \in TxAt(0) /\ outside = 0
    BY IdleTyped DEF Init
  <2>2. witness \in Accounts \cup {None} /\ disturbed \in BOOLEAN
    BY DEF Init
  <2>3. outside \in 0..MaxOutside /\ faults \in 0..MaxFaults /\ ops \in 0..MaxOps
    BY BoundsAssumption DEF Init
  <2> QED BY <1>1, <1>2, <1>4, <2>1, <2>2, <2>3 DEF Types
<1>6. /\ tx.pc = "idle" /\ tx.acked = {} /\ tx.ok = FALSE /\ tx.prior = None
  BY DEF Init, Idle
<1>7. Knows
  BY <1>6 DEF Knows, RecoverKnows, CallerKnows, PriorKnows, CommitKnows, ReloadKnows,
              TelemetryKnows, BarrierPcs, CommitPcs, RollbackPcs, Activating
<1>8. PreparedKnows /\ SplitGuarded /\ RuntimesFollow
  BY <1>2, <1>4 DEF PreparedKnows, SplitGuarded, RuntimesFollow, Is
<1> QED BY <1>5, <1>7, <1>8 DEF IInv

(* The locals an operation starts with.                                    *)
LEMMA StartTyped ==
  ASSUME NEW n, NEW op \in Ops, NEW target \in Accounts \cup {None}, NEW live \in BOOLEAN,
         NEW new \in StoreAt(n) \cup {None}, NEW pc \in Pcs,
         tx' = [pc |-> pc, op |-> op, target |-> target, live |-> live, new |-> new,
                image |-> None, ownStore |-> FALSE, ownAuth |-> None, prior |-> None,
                bind |-> None, pending |-> {}, acked |-> {}, ok |-> FALSE]
  PROVE  /\ tx' \in TxAt(n) /\ tx'.pc = pc /\ tx'.op = op /\ tx'.target = target /\ tx'.new = new
         /\ tx'.acked = {} /\ tx'.ok = FALSE /\ tx'.prior = None /\ tx'.ownAuth = None
<1>1. tx' \in TxAt(n)
  BY DEF TxAt
<1> QED BY <1>1

(* An operation starts with a target if it activates one.                  *)
LEMMA Begins ==
  ASSUME IInv, NEW op \in Ops, NEW target \in Accounts \cup {None}, NEW live \in BOOLEAN,
         NEW new \in StoreAt(outside) \cup {None}, Begin(op, target, live, new),
         op \in Activating => target \in Accounts,
         op = "import" => new \in StoreAt(outside) /\ new.active = target
  PROVE  IInv'
<1> DEFINE start == CASE op = "adopt" -> "adopt"
                      [] op = "resolve" -> "bind"
                      [] op = "telemetry" -> "preflight"
                      [] OTHER -> "recover"
<1>1. /\ start \in {"adopt", "bind", "preflight", "recover"} /\ (start = "adopt" => op = "adopt")
      /\ start \in {"adopt", "recover"} => op \in Activating \cup {"reconcile"}
      /\ start = "preflight" => op = "telemetry"
  BY DEF Ops, Activating
<1>2. /\ tx' = [Idle EXCEPT !.op = op, !.target = target, !.live = live, !.new = new, !.pc = start]
      /\ UNCHANGED <<files, loaded, witness, outside, faults, disturbed>>
      /\ IF op \in {"reconcile", "resolve"} THEN UNCHANGED ops ELSE ops < MaxOps /\ ops' = ops + 1
  BY DEF Begin
<1> HIDE DEF start
<1>3. start \in Pcs
  BY <1>1 DEF Pcs
<1>4. /\ tx' \in TxAt(outside) /\ tx'.pc = start /\ tx'.op = op /\ tx'.target = target /\ tx'.new = new
      /\ tx'.acked = {} /\ tx'.ok = FALSE /\ tx'.prior = None /\ tx'.ownAuth = None
  <2>1. tx' = [pc |-> start, op |-> op, target |-> target, live |-> live, new |-> new,
               image |-> None, ownStore |-> FALSE, ownAuth |-> None, prior |-> None,
               bind |-> None, pending |-> {}, acked |-> {}, ok |-> FALSE]
    BY <1>2 DEF Idle
  <2> QED BY <1>3, <2>1, StartTyped
<1>5. ops' \in 0..MaxOps
  BY <1>2, BoundsAssumption DEF IInv, Types
<1>6. Types'
  BY <1>2, <1>4, <1>5 DEF IInv, Types, files
<1>7. outside' = outside
  BY <1>2
<1>8. Knows'
  <2>1. RecoverKnows' /\ CommitKnows' /\ ReloadKnows' /\ TelemetryKnows' /\ PriorKnows'
    BY <1>1, <1>4
       DEF RecoverKnows, CommitKnows, ReloadKnows, TelemetryKnows, PriorKnows, CommitPcs, RollbackPcs
  <2>2. CallerKnows'
    BY <1>1, <1>4, <1>7 DEF CallerKnows, BarrierPcs, CommitPcs, RollbackPcs
  <2> QED BY <2>1, <2>2 DEF Knows
<1>9. PreparedKnows' /\ SplitGuarded' /\ RuntimesFollow'
  BY <1>2 DEF IInv, PreparedKnows, SplitGuarded, RuntimesFollow, Is, Owns, Follow, Live, FilesAgree, files
<1> QED BY <1>6, <1>8, <1>9 DEF IInv

(* Every way an operation begins.                                          *)
LEMMA BeginSteps == ASSUME IInv, BeginSome PROVE IInv'
<1>1. ASSUME NEW a \in Accounts, NEW b \in Accounts
      PROVE  Replacement(a, b) \in StoreAt(outside) /\ Replacement(a, b).active = a
  <2>1. outside \in 0..outside /\ store \in StoreAt(outside)
    BY Counted DEF IInv, Types
  <2> QED BY <2>1 DEF Replacement, StoreAt, Telemetry
<1>2. "activate" \in Ops /\ "adopt" \in Ops /\ "reconcile" \in Ops /\ "import" \in Ops
      /\ "resolve" \in Ops /\ "telemetry" \in Ops
  BY DEF Ops
<1>3. CASE \E a \in Accounts, live \in BOOLEAN : Begin("activate", a, live, None)
  BY <1>2, <1>3, Begins
<1>4. CASE \E a \in Accounts : Begin("adopt", a, TRUE, None)
  BY <1>2, <1>4, Begins
<1>5. CASE \E live \in BOOLEAN : Begin("reconcile", None, live, None)
  BY <1>2, <1>5, Begins DEF Activating
<1>6. CASE \E a \in Accounts, b \in Accounts : Begin("import", a, FALSE, Replacement(a, b))
  BY <1>1, <1>2, <1>6, Begins
<1>7. CASE Is("ManualReview") /\ Begin("resolve", None, TRUE, None)
  BY <1>2, <1>7, Begins DEF Activating
<1>8. CASE Begin("telemetry", None, FALSE, None)
  BY <1>2, <1>8, Begins DEF Activating
<1> QED BY <1>3, <1>4, <1>5, <1>6, <1>7, <1>8 DEF BeginSome

-----------------------------------------------------------------------------
(* The recovery of an interrupted activation.                              *)

(* A prepared record is a record with typed parts.                         *)
LEMMA PreparedFacts ==
  ASSUME IInv, Is("Prepared")
  PROVE  /\ journal \in JournalAt(outside) /\ journal.state = "Prepared"
         /\ journal.own \in StoreAt(outside) /\ journal.image \in ImageAt(outside)
         /\ journal.image.store \in StoreAt(outside) /\ journal.image.auth \in AuthAt(outside)
         /\ journal.base = journal.image.store
         /\ store \in StoreAt(outside) /\ auth \in AuthAt(outside) /\ tx \in TxAt(outside)
         /\ faults \in 0..MaxFaults
         /\ "Import" \notin LateErrors /\ ~disturbed =>
              Fp(journal.image.auth) = ActiveFp(journal.image.store)
BY DEF IInv, Types, PreparedKnows, Is, ImageAt, SplitGuarded

(* The end of a recovery: completed, put back, or left for review.         *)
LEMMA RecoverEnds ==
  ASSUME IInv, Is("Prepared"), tx.pc \in BarrierPcs, NEW s \in {"CommittedDegraded", "RolledBack"},
         Write([journal EXCEPT !.state = s, !.gen = store]), Goto("durable"),
         UNCHANGED <<store, auth>>, KeepW,
         "Import" \notin LateErrors /\ ~disturbed => FilesAgree
  PROVE  IInv'
<1>1. /\ [journal EXCEPT !.state = s, !.gen = store] \in JournalAt(outside)
      /\ [journal EXCEPT !.state = s, !.gen = store].state = s
  <2>1. journal \in JournalAt(outside) /\ store \in StoreAt(outside) /\ s \in States
    BY PreparedFacts DEF States
  <2> QED BY <2>1 DEF JournalAt
<1>2. Knows' /\ tx' \in TxAt(outside)
  BY Passes DEF IInv, KeepW, bounds, BarrierPcs
<1> QED BY <1>1, <1>2, Writes

(* Every step of the recovery of a prepared record.                      *)
LEMMA RecoverSteps == ASSUME IInv, Recover PROVE IInv'
<1> USE DEF At, BarrierPcs
<1>1. CASE NothingToRecover
  <2>1. Knows' /\ tx' \in TxAt(outside)
    BY <1>1, Passes DEF NothingToRecover, IInv, Keep, bounds
  <2> QED BY <1>1, <2>1, Aside DEF NothingToRecover
<1>2. CASE RecoverCommitted
  <2>1. Fp(auth) = ActiveFp(store)
    BY <1>2 DEF RecoverCommitted, StoreOwned, AuthOwned, IInv, PreparedKnows, Owns
  <2> QED BY <1>2, <2>1, RecoverEnds DEF RecoverCommitted, FilesAgree
<1>3. CASE RecoverRestoreStore
  <2>1. /\ Is("Prepared") /\ store' = journal.image.store /\ UNCHANGED <<auth, journal, disturbed, outside>>
        /\ AuthPrevious(journal.image) \/ AuthOwned(journal.ownAuth)
    BY <1>3 DEF RecoverRestoreStore, Keep, bounds
  <2>2. Is("Prepared")'
    BY <2>1 DEF Is
  <2>3. CASE AuthOwned(journal.ownAuth)
    <3>1. Goto("recoverAuth") /\ (journal.ownAuth # None)'
      BY <1>3, <2>1, <2>3 DEF RecoverRestoreStore, AuthOwned
    <3>2. Knows' /\ tx' \in TxAt(outside)
      BY <1>3, <2>1, <2>2, <3>1, Passes DEF RecoverRestoreStore, IInv
    <3> QED BY <1>3, <2>1, <3>2, PreparedFacts, UnderPrepared DEF RecoverRestoreStore, Keep, bounds
  <2>4. CASE ~AuthOwned(journal.ownAuth)
    <3>1. Goto("recoverEnd") /\ Untouched(journal.image)'
      BY <1>3, <2>1, <2>4 DEF RecoverRestoreStore, AuthPrevious, Untouched
    <3>2. Knows' /\ tx' \in TxAt(outside)
      BY <1>3, <2>1, <2>2, <3>1, Passes DEF RecoverRestoreStore, IInv
    <3> QED BY <1>3, <2>1, <3>2, PreparedFacts, UnderPrepared DEF RecoverRestoreStore, Keep, bounds
  <2> QED BY <2>3, <2>4
<1>4. CASE RecoverRestoreAuth
  <2>1. /\ tx.pc = "recoverAuth" /\ Is("Prepared") /\ store = journal.image.store
        /\ auth' = journal.image.auth /\ Goto("recoverEnd")
        /\ UNCHANGED <<store, journal, loaded, witness, outside, faults, ops, disturbed>>
    BY <1>4 DEF RecoverRestoreAuth, RestoreAuth, IInv, Knows, RecoverKnows, Keep, bounds
  <2>2. Is("Prepared")' /\ Untouched(journal.image)' /\ (store = journal.image.store)'
    BY <2>1 DEF Is, Untouched
  <2>3. Knows' /\ tx' \in TxAt(outside)
    BY <2>1, <2>2, Passes DEF IInv
  <2> QED BY <2>1, <2>3, PreparedFacts, UnderPrepared
<1>5. CASE RecoverEnd
  <2>1. Is("Prepared") /\ store = journal.image.store /\ Untouched(journal.image)
    BY <1>5 DEF RecoverEnd, IInv, Knows, RecoverKnows
  <2>2. "Import" \notin LateErrors /\ ~disturbed => FilesAgree
    BY <2>1, PreparedFacts DEF Untouched, FilesAgree
  <2> QED BY <1>5, <2>1, <2>2, RecoverEnds DEF RecoverEnd
<1>6. CASE RecoverUncommitted
  <2>1. "Import" \notin LateErrors /\ ~disturbed => FilesAgree
    BY <1>6, PreparedFacts DEF RecoverUncommitted, AuthPrevious, FilesAgree
  <2> QED BY <1>6, <2>1, RecoverEnds DEF RecoverUncommitted
<1>7. CASE RecoverAmbiguous
  <2>1. /\ [journal EXCEPT !.state = "ManualReview", !.gen = store] \in JournalAt(outside)
        /\ [journal EXCEPT !.state = "ManualReview", !.gen = store].state = "ManualReview"
    <3>1. journal \in JournalAt(outside) /\ store \in StoreAt(outside) /\ "ManualReview" \in States
      BY <1>7, PreparedFacts DEF RecoverAmbiguous, States
    <3> QED BY <3>1 DEF JournalAt
  <2>2. Knows' /\ tx' \in TxAt(outside)
    BY <1>7, EndKnows DEF RecoverAmbiguous, KeepW, bounds
  <2> QED BY <1>7, <2>1, <2>2, Writes DEF RecoverAmbiguous
<1> QED BY <1>1, <1>2, <1>3, <1>4, <1>5, <1>6, <1>7 DEF Recover

-----------------------------------------------------------------------------
(* What a record that is not prepared means for the operation.             *)

(* An activation may begin on a settled record.                            *)
LEMMA Prepares ==
  ASSUME Types, Knows, tx.pc \in BarrierPcs, tx.op # "reconcile", Settled, Goto("prepare"),
         UNCHANGED <<journal, outside>>
  PROVE  Knows' /\ tx' \in TxAt(outside)
<1>1. /\ tx' \in TxAt(outside) /\ tx'.pc = "prepare" /\ tx'.op = tx.op /\ tx'.target = tx.target
      /\ tx'.new = tx.new /\ tx'.prior = tx.prior /\ tx'.acked = tx.acked /\ tx'.ok = tx.ok
      /\ tx'.ownAuth = tx.ownAuth
  BY GotoFacts DEF Types, Pcs
<1>2. RecoverKnows' /\ CommitKnows' /\ ReloadKnows' /\ TelemetryKnows'
  BY <1>1 DEF RecoverKnows, CommitKnows, ReloadKnows, TelemetryKnows, CommitPcs, RollbackPcs,
              Settled, Is, Clean
<1>3. CallerKnows' /\ PriorKnows'
  BY <1>1 DEF Knows, CallerKnows, PriorKnows, BarrierPcs, CommitPcs, RollbackPcs, Activating
<1> QED BY <1>1, <1>2, <1>3 DEF Knows

(* Telemetry is no part of what identifies the active account.             *)
LEMMA ObservedFacts ==
  ASSUME NEW n, NEW s \in StoreAt(n), NEW o \in Telemetry
  PROVE  [s EXCEPT !.obs = o] \in StoreAt(n) /\ ActiveFp([s EXCEPT !.obs = o]) = ActiveFp(s)
BY DEF StoreAt, ActiveFp, CredOf

(* A mismatch that has healed, and a record whose tokens were refreshed,   *)
(* are pending again.                                                      *)
LEMMA HealSteps == ASSUME IInv, HealMismatch PROVE IInv'
<1> DEFINE r == [journal EXCEPT !.state = "CommittedDegraded", !.target = store.active,
              !.gen = store, !.fp = ActiveFp(store), !.mismatch = FALSE]
<1>1. /\ tx.pc = "durable" /\ journal \in JournalAt(outside) /\ store \in StoreAt(outside)
      /\ FilesAgree /\ Write(r) /\ KeepW /\ UNCHANGED <<store, auth, tx>>
  BY DEF HealMismatch, MismatchHealed, Is, IInv, Types, At
<1>2. store.active \in Accounts /\ ActiveFp(store) \in CredAt(outside)
  BY <1>1, CredTyped DEF StoreAt
<1>3. r \in JournalAt(outside) /\ r.state = "CommittedDegraded"
  BY <1>1, <1>2 DEF JournalAt, States
<1> HIDE DEF r
<1>4. tx' \in TxAt(outside) /\ tx' = tx /\ outside' = outside
  BY <1>1 DEF IInv, Types, KeepW, bounds
<1>5. Knows'
  <2>1. RecoverKnows' /\ CommitKnows' /\ ReloadKnows' /\ TelemetryKnows'
    BY <1>1, <1>4 DEF RecoverKnows, CommitKnows, ReloadKnows, TelemetryKnows, CommitPcs, RollbackPcs
  <2>2. CallerKnows' /\ PriorKnows'
    BY <1>1, <1>4 DEF IInv, Knows, CallerKnows, PriorKnows, BarrierPcs, CommitPcs, RollbackPcs
  <2> QED BY <2>1, <2>2 DEF Knows
<1> QED BY <1>1, <1>3, <1>4, <1>5, Writes

(* A confirmed record whose base is behind is repaired.                  *)
LEMMA RepairSteps == ASSUME IInv, RepairConfirmed PROVE IInv'
<1> DEFINE r == [journal EXCEPT !.state = "CommittedDegraded", !.target = store.active,
              !.gen = store, !.fp = ActiveFp(store),
              !.kind = IF store.active = journal.target THEN @ ELSE "Rotation"]
<1>1. /\ tx.pc = "durable" /\ journal \in JournalAt(outside) /\ store \in StoreAt(outside)
      /\ FilesAgree /\ Write(r) /\ KeepW /\ UNCHANGED <<store, auth>> /\ Goto("observe")
  BY DEF RepairConfirmed, Repairable, Stale, Is, IInv, Types, At
<1>2. store.active \in Accounts /\ ActiveFp(store) \in CredAt(outside)
  BY <1>1, CredTyped DEF StoreAt
<1>3. r \in JournalAt(outside) /\ r.state = "CommittedDegraded"
  BY <1>1, <1>2 DEF JournalAt, States, Kinds
<1> HIDE DEF r
<1>4. journal' = r /\ r # None
  BY <1>1, <1>3, Counted DEF Write, IInv
<1>5. Pending' /\ outside' = outside
  BY <1>1, <1>3, <1>4 DEF Pending, Is, KeepW, bounds
<1>6. Knows' /\ tx' \in TxAt(outside)
  BY <1>1, <1>5, Passes DEF IInv, BarrierPcs
<1> QED BY <1>1, <1>3, <1>6, Writes

(* A generation transition that is finished leaves the confirmed record as *)
(* it was, but for its base.                                               *)
LEMMA FinishSteps == ASSUME IInv, FinishTransition PROVE IInv'
<1> DEFINE q == [journal EXCEPT !.gen = store]
<1>1. /\ tx.pc \in {"durable", "preflight"} /\ Is("Confirmed") /\ FilesAgree
      /\ journal \in JournalAt(outside) /\ store \in StoreAt(outside)
      /\ journal' = Settle(q)
      /\ UNCHANGED <<store, auth, tx, loaded, witness, outside, faults, ops, disturbed>>
  BY DEF FinishTransition, TransitionValid, Is, IInv, Types, At, Keep, bounds
<1>2. q \in JournalAt(outside) /\ q.state = "Confirmed" /\ q.fp = journal.fp
  BY <1>1 DEF JournalAt, Is
<1> HIDE DEF q
<1>3. /\ journal' \in JournalAt(outside) /\ journal'.state = "Confirmed" /\ journal'.fp = journal.fp
  BY <1>1, <1>2, SettleTyped
<1>4. Types'
  BY <1>1, <1>3 DEF IInv, Types
<1>5. PreparedKnows' /\ SplitGuarded' /\ RuntimesFollow'
  BY <1>1, <1>3 DEF IInv, PreparedKnows, SplitGuarded, RuntimesFollow, Is, FilesAgree, Follow, Live
<1>6. Knows'
  <2>1. RecoverKnows' /\ CommitKnows' /\ ReloadKnows' /\ TelemetryKnows'
    BY <1>1 DEF RecoverKnows, CommitKnows, ReloadKnows, TelemetryKnows, CommitPcs, RollbackPcs
  <2>2. CallerKnows' /\ PriorKnows'
    BY <1>1 DEF IInv, Knows, CallerKnows, PriorKnows, BarrierPcs, CommitPcs, RollbackPcs
  <2> QED BY <2>1, <2>2 DEF Knows
<1> QED BY <1>4, <1>5, <1>6 DEF IInv

(* A pending record is resumed on the caller's snapshot, or put in review. *)
LEMMA ResumeSteps == ASSUME IInv, ResumeMismatch \/ ResumeObserve \/ ResumeRebind PROVE IInv'
<1>1. CASE ResumeMismatch
  <2> DEFINE r == [journal EXCEPT !.state = "ManualReview", !.gen = store, !.mismatch = TRUE]
  <2>1. /\ tx.pc = "observe" /\ Pending /\ Write(r) /\ End /\ UNCHANGED <<store, auth>> /\ KeepW
    BY <1>1 DEF ResumeMismatch, At, IInv, Knows, CallerKnows
  <2>2. r \in JournalAt(outside) /\ r.state = "ManualReview"
    BY <2>1 DEF JournalAt, States, Pending, Is, IInv, Types
  <2> HIDE DEF r
  <2>3. Knows' /\ tx' \in TxAt(outside)
    BY <2>1, EndKnows DEF KeepW, bounds
  <2> QED BY <2>1, <2>2, <2>3, Writes
<1>2. CASE ResumeObserve
  <2>1. PICK o \in Telemetry : store' = [store EXCEPT !.obs = o]
    BY <1>2 DEF ResumeObserve
  <2>2. /\ tx.pc = "observe" /\ Pending /\ Goto("rebind")
        /\ UNCHANGED <<auth, journal, loaded, witness, outside, faults, ops, disturbed>>
    BY <1>2 DEF ResumeObserve, At, Keep, bounds, IInv, Knows, CallerKnows
  <2>3. store' \in StoreAt(outside) /\ ActiveFp(store') = ActiveFp(store)
    BY <2>1, ObservedFacts DEF IInv, Types
  <2>4. Knows' /\ tx' \in TxAt(outside)
    BY <2>2, Passes DEF IInv, BarrierPcs, Pending, Is
  <2>5. Types'
    BY <2>2, <2>3, <2>4 DEF IInv, Types
  <2>6. PreparedKnows' /\ SplitGuarded' /\ RuntimesFollow'
    BY <2>2, <2>3
       DEF IInv, PreparedKnows, SplitGuarded, RuntimesFollow, Is, Pending, FilesAgree, Follow, Live
  <2> QED BY <2>4, <2>5, <2>6 DEF IInv
<1>3. CASE ResumeRebind
  <2> DEFINE r == [journal EXCEPT !.gen = store, !.fp = ActiveFp(store)]
  <2>1. /\ tx.pc = "rebind" /\ Pending /\ Write(r) /\ UNCHANGED <<store, auth>> /\ KeepW
        /\ Goto("bind") \/ End
    BY <1>3 DEF ResumeRebind, At, IInv, Knows, CallerKnows
  <2>2. journal \in JournalAt(outside) /\ store \in StoreAt(outside) /\ ActiveFp(store) \in CredAt(outside)
    BY <2>1, CredTyped DEF Pending, Is, IInv, Types, StoreAt
  <2>3. r \in JournalAt(outside) /\ r.state = journal.state
    BY <2>2 DEF JournalAt
  <2> HIDE DEF r
  <2>4. Knows' /\ tx' \in TxAt(outside)
    BY <2>1, EndKnows, Converges DEF IInv, KeepW, bounds
  <2>5. "Import" \notin LateErrors /\ ~disturbed => FilesAgree
    BY <2>1 DEF IInv, SplitGuarded, Pending, Is
  <2> QED BY <2>1, <2>3, <2>4, <2>5, Writes DEF Pending, Is
<1> QED BY <1>1, <1>2, <1>3

(* Every step of the resumption of a durable record.                     *)
LEMMA DurableSteps == ASSUME IInv, Durable PROVE IInv'
<1> USE DEF At, BarrierPcs
<1>1. CASE DurableClear
  <2>1. /\ tx.pc = "durable" /\ UNCHANGED files /\ Keep
        /\ End \/ (tx.op # "reconcile" /\ Goto("prepare"))
    BY <1>1 DEF DurableClear, AfterBarrier
  <2>2. Settled
    BY <1>1 DEF DurableClear, Settled, ConfirmsCurrent, Confirms, Is
  <2>3. CASE End
    BY <2>1, <2>3, Stops
  <2>4. CASE tx.op # "reconcile" /\ Goto("prepare")
    <3>1. Knows' /\ tx' \in TxAt(outside)
      BY <2>1, <2>2, <2>4, Prepares DEF IInv, files, Keep, bounds
    <3> QED BY <2>1, <3>1, Aside
  <2> QED BY <2>1, <2>3, <2>4
<1>2. CASE DurableBlocked
  BY <1>2, Stops DEF DurableBlocked
<1>3. CASE DurablePending
  <2>1. Pending'
    BY <1>3 DEF DurablePending, Pending, Is, files
  <2>2. Knows' /\ tx' \in TxAt(outside)
    BY <1>3, <2>1, Passes DEF DurablePending, IInv, Keep, bounds
  <2> QED BY <1>3, <2>2, Aside DEF DurablePending
<1> QED BY <1>1, <1>2, <1>3, FinishSteps, HealSteps, RepairSteps, ResumeSteps DEF Durable

-----------------------------------------------------------------------------
(* The adoption of a target that the pool authority has chosen.            *)

(* An adoption of what auth.json holds, over a settled record or not.    *)
LEMMA AdoptSteps == ASSUME IInv, Adopt PROVE IInv'
<1> USE DEF At, BarrierPcs
<1>1. CASE AdoptPlain
  <2>1. Knows' /\ tx' \in TxAt(outside)
    BY <1>1, Passes DEF AdoptPlain, IInv, Keep, bounds
  <2> QED BY <1>1, <2>1, Aside DEF AdoptPlain
<1>2. CASE AdoptDegraded
  <2> DEFINE q == [journal EXCEPT !.gen = store]
             r == Record("CommittedDegraded", tx.target, store, ActiveFp(store))
  <2>1. /\ tx.pc = "adopt" /\ Is("CommittedDegraded") /\ store.active = tx.target /\ FilesAgree
        /\ Write(q) \/ Write(r)
        /\ UNCHANGED <<store, auth>> /\ KeepW /\ Goto("recover")
    BY <1>2 DEF AdoptDegraded, AdoptableDegraded
  <2>2. journal \in JournalAt(outside) /\ store \in StoreAt(outside) /\ tx.target \in Accounts
    BY <2>1 DEF IInv, Types, Is, StoreAt
  <2>3. q \in JournalAt(outside) /\ q.state = "CommittedDegraded"
    BY <2>1, <2>2 DEF JournalAt, Is
  <2>4. r \in JournalAt(outside) /\ r.state = "CommittedDegraded"
    BY <2>2, CredTyped, RecordTyped DEF States
  <2> HIDE DEF q, r
  <2>5. Knows' /\ tx' \in TxAt(outside)
    BY <2>1, Passes DEF IInv, KeepW, bounds
  <2> QED BY <2>1, <2>3, <2>4, <2>5, Writes
<1>3. CASE AdoptStale
  <2> DEFINE prior == [record |-> journal, witness |-> witness]
  <2>1. /\ tx.pc = "adopt" /\ Is("Confirmed") /\ Clean(journal) /\ FilesAgree
        /\ tx.target # store.active /\ journal.fp = CredOf(store, tx.target)
        /\ tx' = [tx EXCEPT !.pc = "prepare", !.prior = prior]
        /\ UNCHANGED files /\ Keep
    BY <1>3 DEF AdoptStale, AdoptableStale
  <2>2. journal \in JournalAt(outside) /\ tx \in TxAt(outside) /\ prior \in PriorAt(outside)
        /\ prior.record = journal
    BY <2>1 DEF IInv, Types, Is, PriorAt
  <2> HIDE DEF prior
  <2>3. /\ tx' \in TxAt(outside) /\ tx'.pc = "prepare" /\ tx'.prior = prior /\ tx'.op = tx.op
        /\ tx'.target = tx.target /\ tx'.new = tx.new /\ tx'.acked = tx.acked /\ tx'.ok = tx.ok
        /\ tx'.ownAuth = tx.ownAuth
    BY <2>1, <2>2 DEF TxAt, Pcs
  <2>4. RecoverKnows' /\ ReloadKnows' /\ TelemetryKnows'
    BY <2>3 DEF RecoverKnows, ReloadKnows, TelemetryKnows
  <2>5. CommitKnows'
    BY <2>1, <2>3 DEF CommitKnows, Settled, CommitPcs, RollbackPcs, Is, Clean, files
  <2>6. CallerKnows'
    BY <2>1, <2>3 DEF IInv, Knows, CallerKnows, CommitPcs, RollbackPcs, Activating, Keep, bounds
  <2>7. PriorKnows'
    <3>1. tx.op = "adopt"
      BY <2>1 DEF IInv, Knows, CallerKnows
    <3>2. CredOf(store, tx.target) # Fp(auth)
      BY <2>1 DEF FilesAgree, ActiveFp, CredOf
    <3>3. store' = store /\ auth' = auth
      BY <2>1 DEF files
    <3> QED BY <2>1, <2>2, <2>3, <3>1, <3>2, <3>3 DEF PriorKnows, CommitPcs, RollbackPcs, Is
  <2>8. Knows'
    BY <2>4, <2>5, <2>6, <2>7 DEF Knows
  <2> QED BY <2>1, <2>3, <2>8, Aside
<1>4. CASE AdoptRefused
  BY <1>4, Stops DEF AdoptRefused
<1> QED BY <1>1, <1>2, <1>3, <1>4 DEF Adopt

-----------------------------------------------------------------------------
(* The transaction proper.                                                 *)

(* What is known in the middle of an activation.                           *)
LEMMA CommitFacts ==
  ASSUME IInv, tx.pc \in CommitPcs \cup RollbackPcs
  PROVE  /\ Is("Prepared") /\ journal.own = tx.new /\ journal.image = tx.image
         /\ tx.new \in StoreAt(outside) /\ tx.image \in ImageAt(outside)
         /\ tx.image.store \in StoreAt(outside) /\ tx.image.auth \in AuthAt(outside)
         /\ tx.target \in Accounts /\ tx.new.active = tx.target
         /\ ActiveFp(tx.new) = CredOf(tx.new, tx.target) /\ ActiveFp(tx.new) \in CredAt(outside)
         /\ Owns(tx.ownAuth, tx.new, tx.image)
         /\ "Import" \notin LateErrors /\ ~disturbed =>
              Fp(tx.image.auth) = ActiveFp(tx.image.store)
<1>1. /\ Is("Prepared") /\ journal.own = tx.new /\ journal.image = tx.image /\ tx.target = journal.target
      /\ Owns(tx.ownAuth, tx.new, tx.image)
  BY DEF IInv, Knows, CommitKnows
<1>2. tx.new.active = tx.target /\ tx.new \in StoreAt(outside)
  BY <1>1 DEF IInv, PreparedKnows
<1>3. tx.target \in Accounts /\ ActiveFp(tx.new) = CredOf(tx.new, tx.target)
      /\ ActiveFp(tx.new) \in CredAt(outside)
  BY <1>2, CredTyped DEF StoreAt, ActiveFp
<1> QED BY <1>1, <1>2, <1>3, PreparedFacts

(* A step of the program counter in the middle of an activation.           *)
LEMMA Moves ==
  ASSUME IInv, tx.pc \in CommitPcs \cup RollbackPcs,
         NEW pc \in {"verify"} \cup RollbackPcs, Goto(pc), outside' = outside,
         Is("Prepared")',
         journal'.own = journal.own /\ journal'.image = journal.image /\ journal'.target = journal.target,
         pc = "verify" => store' = tx.new,
         pc \in {"rollbackAuth", "rollbackEnd"} => store' = tx.image.store,
         pc = "rollbackAuth" => tx.ownAuth # None,
         pc = "rollbackEnd" => auth' = tx.image.auth
  PROVE  Knows' /\ tx' \in TxAt(outside)
<1>1. /\ tx' \in TxAt(outside) /\ tx'.pc = pc /\ tx'.op = tx.op /\ tx'.target = tx.target
      /\ tx'.new = tx.new /\ tx'.prior = tx.prior /\ tx'.acked = tx.acked /\ tx'.ok = tx.ok
      /\ tx'.ownAuth = tx.ownAuth /\ tx'.image = tx.image
  BY GotoFacts DEF IInv, Types, Pcs, RollbackPcs
<1> USE DEF CommitPcs, RollbackPcs
<1>2. RecoverKnows' /\ ReloadKnows' /\ TelemetryKnows'
  BY <1>1 DEF RecoverKnows, ReloadKnows, TelemetryKnows
<1>3. CallerKnows'
  BY <1>1 DEF IInv, Knows, CallerKnows, BarrierPcs, Activating
<1>4. PriorKnows'
  BY <1>1 DEF IInv, Knows, PriorKnows
<1>5. CommitKnows'
  <2>1. /\ Is("Prepared")' /\ journal'.own = tx'.new /\ journal'.image = tx'.image
        /\ tx'.target = journal'.target /\ Owns(tx'.ownAuth, tx'.new, tx'.image)
    BY <1>1 DEF IInv, Knows, CommitKnows
  <2>2. pc = "rollbackEnd" => (Untouched(tx.image) /\ Foreign(tx.new, tx.image))'
    BY <1>1 DEF Untouched, Foreign
  <2> QED BY <1>1, <2>1, <2>2 DEF CommitKnows, Owns
<1> QED BY <1>1, <1>2, <1>3, <1>4, <1>5 DEF Knows

(* The target that is prepared, and its record.                            *)
LEMMA PrepareSteps == ASSUME IInv, Prepare PROVE IInv'
<1> DEFINE image == [store |-> store, auth |-> auth]
           new == IF tx.op = "import" THEN tx.new ELSE [store EXCEPT !.active = tx.target]
           first == Record("Prepared", tx.target, store, CredOf(new, tx.target))
           r == [first EXCEPT !.kind = Kind, !.base = store, !.own = new, !.image = image]
<1>1. /\ tx.pc = "prepare" /\ tx' = [tx EXCEPT !.pc = "commitStore", !.new = new, !.image = image]
      /\ journal' = r /\ witness' = None
      /\ UNCHANGED <<store, auth, loaded, outside, faults, ops, disturbed>>
  BY DEF Prepare, Write, KeepW, bounds, At
<1>2. /\ tx \in TxAt(outside) /\ store \in StoreAt(outside) /\ auth \in AuthAt(outside)
      /\ tx.target \in Accounts /\ tx.op \in Activating /\ tx.ownAuth = None
      /\ tx.op = "import" => tx.new \in StoreAt(outside) /\ tx.new.active = tx.target
      /\ Settled
  BY <1>1 DEF IInv, Types, Knows, CallerKnows, CommitKnows
<1>3. /\ new \in StoreAt(outside) /\ new.active = tx.target
      /\ tx.op = "adopt" => ActiveFp(new) = CredOf(store, tx.target)
  BY <1>2 DEF StoreAt, ActiveFp, CredOf
<1> HIDE DEF new
<1>4. image \in ImageAt(outside) /\ image.store = store /\ image.auth = auth
  BY <1>2 DEF ImageAt
<1> HIDE DEF image
<1>5. /\ first \in JournalAt(outside) /\ first.state = "Prepared" /\ first.target = tx.target
      /\ first.ownAuth = None
  <2>1. CredOf(new, tx.target) \in CredAt(outside) /\ "Prepared" \in States
    BY <1>2, <1>3, CredTyped DEF States
  <2> QED BY <1>2, <2>1, RecordTyped DEF Clean
<1> HIDE DEF first
<1>6. /\ r \in JournalAt(outside) /\ r.state = "Prepared" /\ r.target = tx.target /\ r.ownAuth = None
      /\ r.own = new /\ r.image = image /\ r.base = store
  BY <1>2, <1>3, <1>4, <1>5 DEF JournalAt, Kind, Kinds
<1> HIDE DEF r
<1>7. /\ tx' \in TxAt(outside) /\ tx'.pc = "commitStore" /\ tx'.new = new /\ tx'.image = image
      /\ tx'.op = tx.op /\ tx'.target = tx.target /\ tx'.ownAuth = None /\ tx'.prior = tx.prior
      /\ tx'.acked = tx.acked /\ tx'.ok = tx.ok
  <2>1. /\ tx' = [tx EXCEPT !.pc = "commitStore", !.new = new, !.image = image]
        /\ tx \in TxAt(outside) /\ new \in StoreAt(outside) /\ image \in ImageAt(outside)
    BY <1>1, <1>2, <1>3, <1>4
  <2>2. tx' \in TxAt(outside)
    BY <2>1 DEF TxAt, Pcs
  <2>3. /\ tx'.pc = "commitStore" /\ tx'.new = new /\ tx'.image = image
        /\ tx'.op = tx.op /\ tx'.target = tx.target /\ tx'.ownAuth = tx.ownAuth /\ tx'.prior = tx.prior
        /\ tx'.acked = tx.acked /\ tx'.ok = tx.ok
    BY <2>1 DEF TxAt
  <2> QED BY <1>2, <2>2, <2>3
<1>8. Is("Prepared")' /\ journal' = r
  BY <1>1, <1>6, Counted DEF IInv, Is
<1>9. Types'
  BY <1>1, <1>6, <1>7 DEF IInv, Types
<1>10. PreparedKnows'
  BY <1>1, <1>2, <1>3, <1>4, <1>6 DEF PreparedKnows, Owns
<1>11. SplitGuarded' /\ RuntimesFollow'
  <2>1. ("Import" \notin LateErrors /\ ~disturbed) => FilesAgree
    BY <1>2 DEF IInv, SplitGuarded, Settled, Is
  <2>2. ("Import" \notin LateErrors /\ ~disturbed) => Fp(image.auth) = ActiveFp(image.store)
    BY <1>4, <2>1 DEF FilesAgree
  <2> QED BY <1>1, <1>6, <1>8, <2>2 DEF SplitGuarded, RuntimesFollow, Is
<1>12. Knows'
  <2> USE <1>7 DEF CommitPcs, RollbackPcs
  <2>1. RecoverKnows' /\ ReloadKnows' /\ TelemetryKnows'
    BY DEF RecoverKnows, ReloadKnows, TelemetryKnows
  <2>2. CallerKnows'
    BY <1>1, <1>2, <1>3 DEF IInv, Knows, CallerKnows, BarrierPcs, Activating
  <2>3. CommitKnows'
    BY <1>1, <1>4, <1>6, <1>8 DEF CommitKnows, Owns, Untouched, Foreign
  <2>4. PriorKnows'
    BY <1>1, <1>3, <1>4 DEF IInv, Knows, PriorKnows
  <2> QED BY <2>1, <2>2, <2>3, <2>4 DEF Knows
<1> QED BY <1>9, <1>10, <1>11, <1>12 DEF IInv

(* The store's rename, and its failure before or after it.                 *)
LEMMA CommitStoreSteps == ASSUME IInv, CommitStore \/ CommitStoreFails PROVE IInv'
<1> USE DEF CommitPcs, RollbackPcs
<1>1. CASE CommitStore
  <2>1. /\ tx.pc = "commitStore" /\ store' = tx.new
        /\ tx' = [tx EXCEPT !.pc = "commitAuth", !.ownStore = TRUE]
        /\ UNCHANGED <<auth, journal, loaded, witness, outside, faults, ops, disturbed>>
    BY <1>1 DEF CommitStore, At, Keep, bounds
  <2>2. /\ tx' \in TxAt(outside) /\ tx'.pc = "commitAuth" /\ tx'.new = tx.new /\ tx'.image = tx.image
        /\ tx'.op = tx.op /\ tx'.target = tx.target /\ tx'.ownAuth = tx.ownAuth
        /\ tx'.prior = tx.prior /\ tx'.acked = tx.acked /\ tx'.ok = tx.ok
    BY <2>1 DEF IInv, Types, TxAt, Pcs
  <2>3. RecoverKnows' /\ ReloadKnows' /\ TelemetryKnows'
    BY <2>2 DEF RecoverKnows, ReloadKnows, TelemetryKnows
  <2>4. CallerKnows' /\ PriorKnows'
    BY <2>1, <2>2 DEF IInv, Knows, CallerKnows, PriorKnows, BarrierPcs, Activating
  <2>5. CommitKnows'
    BY <2>1, <2>2 DEF IInv, Knows, CommitKnows, Owns, Foreign, Is
  <2>6. Knows'
    BY <2>3, <2>4, <2>5 DEF Knows
  <2> QED BY <2>1, <2>2, <2>6, CommitFacts, PreparedFacts, UnderPrepared
<1>2. ASSUME CommitStoreFails, Kind = "Rotation" PROVE IInv'
  <2>1. /\ tx.pc = "commitStore" /\ store' \in {store, tx.new} /\ Goto("rollback")
        /\ faults < MaxFaults /\ faults' = faults + 1
        /\ UNCHANGED <<auth, journal, loaded, witness, outside, ops, disturbed>>
    BY <1>2 DEF CommitStoreFails, At, Fault
  <2>2. faults' \in 0..MaxFaults
    BY <2>1, BoundsAssumption DEF IInv, Types
  <2>3. Knows' /\ tx' \in TxAt(outside)
    BY <2>1, CommitFacts, Moves DEF Is
  <2> QED BY <2>1, <2>2, <2>3, CommitFacts, PreparedFacts, UnderPrepared
<1>3. ASSUME CommitStoreFails, Kind # "Rotation" PROVE IInv'
  <2> DEFINE plain == Record("RolledBack", tx.target, tx.image.store, None)
             r == [plain EXCEPT !.image = tx.image]
  <2>1. /\ tx.pc = "commitStore" /\ store' \in {store, tx.new}
        /\ "Import" \notin LateErrors => store' = store
        /\ journal' = r /\ witness' = None /\ End
        /\ faults < MaxFaults /\ faults' = faults + 1
        /\ UNCHANGED <<auth, loaded, outside, ops, disturbed>>
    BY <1>3 DEF CommitStoreFails, At, Fault, Write, Kind
  <2>2. plain \in JournalAt(outside) /\ plain.state = "RolledBack"
    BY <2>1, CommitFacts, RecordTyped DEF States
  <2> HIDE DEF plain
  <2>3. r \in JournalAt(outside) /\ r.state = "RolledBack"
    BY <2>1, <2>2, CommitFacts DEF JournalAt
  <2> HIDE DEF r
  <2>4. faults' \in 0..MaxFaults
    BY <2>1, BoundsAssumption DEF IInv, Types
  <2>5. Knows' /\ tx' \in TxAt(outside)
    BY <2>1, EndKnows
  <2>6. store' \in StoreAt(outside)
    BY <2>1, CommitFacts DEF IInv, Types
  <2>7. Types'
    BY <2>1, <2>3, <2>4, <2>5, <2>6 DEF IInv, Types
  <2>8. PreparedKnows' /\ RuntimesFollow'
    BY <2>1, <2>3 DEF PreparedKnows, RuntimesFollow, Is
  <2>9. SplitGuarded'
    <3>1. store = tx.image.store /\ Untouched(tx.image)
      BY <2>1 DEF IInv, Knows, CommitKnows
    <3>2. ("Import" \notin LateErrors /\ ~disturbed) => FilesAgree'
      BY <2>1, <3>1, CommitFacts DEF Untouched, FilesAgree
    <3> QED BY <2>1, <2>3, <3>2 DEF SplitGuarded, Is
  <2> QED BY <2>5, <2>7, <2>8, <2>9 DEF IInv
<1> QED BY <1>1, <1>2, <1>3

(* What the commit of auth.json leaves in it.                              *)
LEMMA AuthCommitted ==
  ASSUME IInv, tx.pc \in CommitPcs \cup RollbackPcs
  PROVE  /\ AuthToCommit \in AuthAt(outside) /\ Fp(AuthToCommit) = ActiveFp(tx.new)
         /\ AuthToCommit.stamp = 0 \/ AuthToCommit = auth
<1> DEFINE c == CredOf(tx.new, tx.target)
<1>1. c \in CredAt(outside) /\ c = ActiveFp(tx.new) /\ auth \in AuthAt(outside)
      /\ 0 \in 0..outside
  BY CommitFacts, Counted DEF IInv, Types
<1>2. AuthToCommit = IF Fp(auth) = c THEN auth ELSE Written(c)
  BY DEF AuthToCommit
<1> HIDE DEF c
<1>3. Written(c) \in AuthAt(outside) /\ Fp(Written(c)) = c /\ Written(c).stamp = 0
  BY <1>1 DEF Written, AuthAt, CredAt, Fp
<1> QED BY <1>1, <1>2, <1>3

(* The commit of auth.json, its failure before or after its effect, and    *)
(* the record that takes it over.                                          *)
LEMMA CommitAuthSteps == ASSUME IInv, CommitAuth \/ CommitAuthFails PROVE IInv'
<1> USE DEF CommitPcs, RollbackPcs
<1>1. CASE CommitAuth
  <2>1. /\ tx.pc = "commitAuth" /\ auth' = AuthToCommit
        /\ tx' = [tx EXCEPT !.pc = "owned", !.ownAuth = AuthToCommit]
        /\ UNCHANGED <<store, journal, loaded, witness, outside, faults, ops, disturbed>>
    BY <1>1 DEF CommitAuth, At, Keep, bounds
  <2>2. /\ AuthToCommit \in AuthAt(outside) /\ tx \in TxAt(outside)
    BY <2>1, AuthCommitted DEF IInv, Types
  <2>3. /\ tx' \in TxAt(outside) /\ tx'.pc = "owned" /\ tx'.new = tx.new /\ tx'.image = tx.image
        /\ tx'.op = tx.op /\ tx'.target = tx.target /\ tx'.ownAuth = AuthToCommit
        /\ tx'.prior = tx.prior /\ tx'.acked = tx.acked /\ tx'.ok = tx.ok
    BY <2>1, <2>2 DEF TxAt, Pcs
  <2>4. RecoverKnows' /\ ReloadKnows' /\ TelemetryKnows'
    BY <2>3 DEF RecoverKnows, ReloadKnows, TelemetryKnows
  <2>5. CallerKnows' /\ PriorKnows'
    BY <2>1, <2>3 DEF IInv, Knows, CallerKnows, PriorKnows, BarrierPcs, Activating
  <2>6. Owns(AuthToCommit, tx.new, tx.image)
    <3>1. Foreign(tx.new, tx.image)
      BY <2>1 DEF IInv, Knows, CommitKnows
    <3> QED BY <2>1, <3>1, AuthCommitted DEF Owns, Foreign
  <2>7. CommitKnows'
    BY <2>1, <2>3, <2>6 DEF IInv, Knows, CommitKnows, Owns, Is
  <2>8. Knows'
    BY <2>4, <2>5, <2>7 DEF Knows
  <2> QED BY <2>1, <2>2, <2>3, <2>8, CommitFacts, PreparedFacts, UnderPrepared
<1>2. CASE CommitAuthFails
  <2>1. /\ tx.pc = "commitAuth" /\ auth' \in {auth, AuthToCommit} /\ Goto("rollback")
        /\ faults < MaxFaults /\ faults' = faults + 1
        /\ UNCHANGED <<store, journal, loaded, witness, outside, ops, disturbed>>
    BY <1>2 DEF CommitAuthFails, At, Fault
  <2>2. faults' \in 0..MaxFaults
    BY <2>1, BoundsAssumption DEF IInv, Types
  <2>3. Knows' /\ tx' \in TxAt(outside)
    BY <2>1, CommitFacts, Moves DEF Is
  <2>4. auth' \in AuthAt(outside)
    BY <2>1, AuthCommitted DEF IInv, Types
  <2> QED BY <2>1, <2>2, <2>3, <2>4, CommitFacts, PreparedFacts, UnderPrepared
<1> QED BY <1>1, <1>2

(* The record takes over the auth.json that was committed, or fails to.  *)
LEMMA OwnedSteps == ASSUME IInv, RecordOwned \/ RecordOwnedFails PROVE IInv'
<1> USE DEF CommitPcs, RollbackPcs
<1>1. CASE RecordOwned
  <2> DEFINE r == [journal EXCEPT !.ownAuth = tx.ownAuth]
  <2>1. /\ tx.pc = "owned" /\ journal' = r /\ witness' = None /\ Goto("verify") /\ store = tx.new
        /\ UNCHANGED <<store, auth, loaded, outside, faults, ops, disturbed>>
    BY <1>1 DEF RecordOwned, At, Write, KeepW, bounds, IInv, Knows, CommitKnows
  <2>2. journal \in JournalAt(outside) /\ journal.state = "Prepared" /\ tx.ownAuth \in AuthAt(outside) \cup {None}
    BY <2>1, CommitFacts, PreparedFacts DEF TxAt
  <2>3. /\ r \in JournalAt(outside) /\ r.state = "Prepared" /\ r.own = journal.own /\ r.image = journal.image
        /\ r.base = journal.base /\ r.target = journal.target /\ r.ownAuth = tx.ownAuth
    BY <2>2 DEF JournalAt
  <2> HIDE DEF r
  <2>4. Is("Prepared")'
    BY <2>1, <2>3, Counted DEF IInv, Is
  <2>5. Knows' /\ tx' \in TxAt(outside)
    BY <2>1, <2>3, <2>4, Moves
  <2>6. Types'
    BY <2>1, <2>3, <2>5 DEF IInv, Types
  <2>7. PreparedKnows'
    BY <2>1, <2>3, <2>4, CommitFacts DEF IInv, PreparedKnows
  <2>8. SplitGuarded' /\ RuntimesFollow'
    BY <2>1, <2>3, <2>4, CommitFacts DEF SplitGuarded, RuntimesFollow, Is
  <2> QED BY <2>5, <2>6, <2>7, <2>8 DEF IInv
<1>2. CASE RecordOwnedFails
  <2>1. /\ tx.pc = "owned" /\ Goto("rollback") /\ faults < MaxFaults /\ faults' = faults + 1
        /\ UNCHANGED <<store, auth, journal, loaded, witness, outside, ops, disturbed>>
    BY <1>2 DEF RecordOwnedFails, At, Fault, files
  <2>2. faults' \in 0..MaxFaults
    BY <2>1, BoundsAssumption DEF IInv, Types
  <2>3. Knows' /\ tx' \in TxAt(outside)
    BY <2>1, CommitFacts, Moves DEF Is
  <2> QED BY <2>1, <2>2, <2>3, CommitFacts, PreparedFacts, UnderPrepared
<1> QED BY <1>1, <1>2

(* The files are verified and the activation is recorded as file-only, or  *)
(* it is rolled back.                                                      *)
LEMMA VerifySteps == ASSUME IInv, Verify \/ VerifyFails PROVE IInv'
<1> USE DEF CommitPcs, RollbackPcs
<1>1. CASE Verify
  <2> DEFINE imported == [journal EXCEPT !.state = "FileOnly", !.gen = store]
             rotated == Record("FileOnly", tx.target, store, CredOf(store, tx.target))
  <2>1. /\ tx.pc = "verify" /\ Verified /\ journal' \in {imported, rotated} /\ witness' = None
        /\ Goto("bind") \/ End
        /\ disturbed' = FALSE /\ UNCHANGED <<store, auth, loaded, outside, faults, ops>>
    BY <1>1 DEF Verify, At, Write, Proved, bounds
  <2>2. journal \in JournalAt(outside) /\ store \in StoreAt(outside) /\ tx.target \in Accounts
    BY <2>1, CommitFacts, PreparedFacts
  <2>3. imported \in JournalAt(outside) /\ imported.state = "FileOnly"
    BY <2>2 DEF JournalAt, States
  <2>4. rotated \in JournalAt(outside) /\ rotated.state = "FileOnly"
    BY <2>2, CredTyped, RecordTyped DEF States
  <2> HIDE DEF imported, rotated
  <2>5. journal' \in JournalAt(outside) /\ journal'.state = "FileOnly"
    BY <2>1, <2>3, <2>4
  <2>6. FilesAgree
    BY <2>1, CommitFacts DEF Verified, FilesAgree
  <2>7. Knows' /\ tx' \in TxAt(outside)
    BY <2>1, EndKnows, Converges DEF IInv
  <2>8. Types'
    BY <2>1, <2>5, <2>7 DEF IInv, Types
  <2>9. PreparedKnows' /\ SplitGuarded' /\ RuntimesFollow'
    BY <2>1, <2>5, <2>6 DEF PreparedKnows, SplitGuarded, RuntimesFollow, Is, FilesAgree
  <2> QED BY <2>7, <2>8, <2>9 DEF IInv
<1>2. CASE VerifyFails
  <2>1. tx.pc = "verify" /\ Goto("rollback") /\ UNCHANGED files /\ Keep
    BY <1>2 DEF VerifyFails, At
  <2>2. Knows' /\ tx' \in TxAt(outside)
    BY <2>1, CommitFacts, Moves DEF Is, files, Keep, bounds
  <2> QED BY <2>1, <2>2, Aside
<1> QED BY <1>1, <1>2

(* Every step of the commit.                                               *)
LEMMA CommitSteps == ASSUME IInv, Commit PROVE IInv'
BY PrepareSteps, CommitStoreSteps, CommitAuthSteps, OwnedSteps, VerifySteps DEF Commit

-----------------------------------------------------------------------------
(* The rollback.                                                           *)

(* A rollback whose ownership is proven finds the store it may put back.   *)
LEMMA OwnershipFacts ==
  ASSUME OwnershipProven
  PROVE  /\ StoreMine \/ store = tx.image.store
         /\ AuthOwned(tx.ownAuth) \/ auth = tx.image.auth
BY DEF OwnershipProven, AuthPrevious

(* What others own is put in review as it is.                              *)
LEMMA UnprovenSteps == ASSUME IInv, RollbackUnproven PROVE IInv'
<1> USE DEF CommitPcs, RollbackPcs
<1> DEFINE fp == IF Kind = "Import" THEN CredOf(tx.new, tx.target) ELSE None
           plain == Record("ManualReview", tx.target, store, fp)
           own == IF tx.ownStore THEN tx.new ELSE None
           r == [plain EXCEPT !.image = tx.image, !.ownAuth = tx.ownAuth, !.own = own]
<1>1. /\ tx.pc = "rollback" /\ Write(r) /\ End /\ UNCHANGED <<store, auth>> /\ KeepW
  BY DEF RollbackUnproven, At
<1>2. /\ fp \in CredAt(outside) \cup {None} /\ own \in StoreAt(outside) \cup {None}
      /\ store \in StoreAt(outside) /\ tx.ownAuth \in AuthAt(outside) \cup {None}
  BY <1>1, CommitFacts DEF IInv, Types, TxAt
<1> HIDE DEF fp, own
<1>3. plain \in JournalAt(outside) /\ plain.state = "ManualReview"
  BY <1>1, <1>2, CommitFacts, RecordTyped DEF States
<1> HIDE DEF plain
<1>4. r \in JournalAt(outside) /\ r.state = "ManualReview"
  <2>1. tx.image \in ImageAt(outside)
    BY <1>1, CommitFacts
  <2> QED BY <1>2, <1>3, <2>1 DEF JournalAt
<1> HIDE DEF r
<1>5. Knows' /\ tx' \in TxAt(outside)
  BY <1>1, EndKnows DEF KeepW, bounds
<1> QED BY <1>1, <1>4, <1>5, Writes

(* The record of a rollback: that of the adopted target comes back, which  *)
(* names no credential that auth.json has.                                 *)
LEMMA RollbackEndSteps == ASSUME IInv, RollbackEnd PROVE IInv'
<1> USE DEF CommitPcs, RollbackPcs
<1>0. /\ tx.pc = "rollbackEnd" /\ End /\ UNCHANGED <<store, auth, loaded, outside, faults, ops, disturbed>>
  BY DEF RollbackEnd, At, KeepW, bounds
<1>1. "Import" \notin LateErrors /\ ~disturbed => FilesAgree
  BY <1>0, CommitFacts DEF IInv, Knows, CommitKnows, Untouched, FilesAgree
<1>2. Knows' /\ tx' \in TxAt(outside)
  BY <1>0, EndKnows
<1>3. CASE tx.prior # None
  <2>1. journal' = tx.prior.record /\ witness' = tx.prior.witness
    BY <1>3 DEF RollbackEnd
  <2>2. /\ journal' \in JournalAt(outside) /\ witness' \in Accounts \cup {None}
        /\ journal'.state = "Confirmed" /\ journal'.fp # Fp(auth)
    <3>1. tx.prior \in PriorAt(outside)
      BY <1>3 DEF IInv, Types, TxAt
    <3>2. /\ tx.prior.record.state = "Confirmed" /\ tx.prior.record.fp = ActiveFp(tx.new)
          /\ tx.prior.record.fp # Fp(tx.image.auth)
      BY <1>0, <1>3 DEF IInv, Knows, PriorKnows
    <3>3. Foreign(tx.new, tx.image)
      BY <1>0 DEF IInv, Knows, CommitKnows
    <3> QED BY <2>1, <3>1, <3>2, <3>3 DEF PriorAt, Foreign
  <2>3. Types'
    BY <1>0, <1>2, <2>2 DEF IInv, Types
  <2>4. PreparedKnows' /\ SplitGuarded' /\ RuntimesFollow'
    BY <1>0, <1>1, <2>2 DEF PreparedKnows, SplitGuarded, RuntimesFollow, Is, FilesAgree
  <2> QED BY <1>2, <2>3, <2>4 DEF IInv
<1>4. CASE tx.prior = None
  <2> DEFINE r == Record("RolledBack", tx.target, store, None)
  <2>1. Write(r) /\ KeepW /\ UNCHANGED <<store, auth>>
    BY <1>0, <1>4 DEF RollbackEnd, KeepW, bounds
  <2>2. r \in JournalAt(outside) /\ r.state = "RolledBack"
    BY <1>0, CommitFacts, RecordTyped DEF IInv, Types, States
  <2> HIDE DEF r
  <2> QED BY <1>1, <1>2, <2>1, <2>2, Writes
<1> QED BY <1>3, <1>4

(* Every step of the rollback.                                           *)
LEMMA RollbackSteps == ASSUME IInv, Rollback PROVE IInv'
<1> USE DEF CommitPcs, RollbackPcs
<1>1. CASE RollbackStore
  <2>1. /\ tx.pc = "rollback" /\ OwnershipProven /\ store' = (IF StoreMine THEN tx.image.store ELSE store)
        /\ Goto(IF AuthOwned(tx.ownAuth) THEN "rollbackAuth" ELSE "rollbackEnd")
        /\ UNCHANGED <<auth, journal, loaded, witness, outside, faults, ops, disturbed>>
    BY <1>1 DEF RollbackStore, At, Keep, bounds
  <2>2. store' = tx.image.store /\ Is("Prepared")'
    BY <2>1, OwnershipFacts, CommitFacts DEF Is
  <2>3. Knows' /\ tx' \in TxAt(outside)
    <3>1. CASE AuthOwned(tx.ownAuth)
      BY <2>1, <2>2, <3>1, Moves DEF AuthOwned
    <3>2. CASE ~AuthOwned(tx.ownAuth)
      BY <2>1, <2>2, <3>2, OwnershipFacts, Moves
    <3> QED BY <3>1, <3>2
  <2> QED BY <2>1, <2>2, <2>3, CommitFacts, PreparedFacts, UnderPrepared
<1>2. CASE RollbackAuth
  <2>1. /\ tx.pc = "rollbackAuth" /\ auth' = tx.image.auth /\ Goto("rollbackEnd")
        /\ store = tx.image.store
        /\ UNCHANGED <<store, journal, loaded, witness, outside, faults, ops, disturbed>>
    BY <1>2 DEF RollbackAuth, RestoreAuth, At, Keep, bounds, IInv, Knows, CommitKnows
  <2>2. Knows' /\ tx' \in TxAt(outside)
    BY <2>1, CommitFacts, Moves DEF Is
  <2> QED BY <2>1, <2>2, CommitFacts, PreparedFacts, UnderPrepared
<1>3. CASE RestoreLost
  BY <1>3, Stops DEF RestoreLost
<1> QED BY <1>1, <1>2, <1>3, UnprovenSteps, RollbackEndSteps DEF Rollback

-----------------------------------------------------------------------------
(* The runtime reload.                                                     *)

(* The runtimes that acknowledged have read the auth.json of the binding.  *)
LEMMA BindSteps == ASSUME IInv, Bind \/ Discover PROVE IInv'
<1>1. CASE Bind
  <2> DEFINE image == [store |-> store, auth |-> auth]
  <2>1. /\ tx.pc = "bind" /\ tx' = [tx EXCEPT !.pc = "discover", !.bind = image]
        /\ UNCHANGED files /\ Keep
    BY <1>1 DEF Bind, At
  <2>2. image \in ImageAt(outside) /\ image.auth = auth /\ tx \in TxAt(outside)
    BY DEF IInv, Types, ImageAt
  <2> HIDE DEF image
  <2>3. /\ tx' \in TxAt(outside) /\ tx'.pc = "discover" /\ tx'.bind = image /\ tx'.op = tx.op
        /\ tx'.target = tx.target /\ tx'.new = tx.new /\ tx'.prior = tx.prior
        /\ tx'.acked = tx.acked /\ tx'.ok = tx.ok
    BY <2>1, <2>2 DEF TxAt, Pcs
  <2>4. RecoverKnows' /\ CommitKnows' /\ TelemetryKnows'
    BY <2>3 DEF RecoverKnows, CommitKnows, TelemetryKnows, CommitPcs, RollbackPcs
  <2>5. CallerKnows' /\ PriorKnows'
    BY <2>1, <2>3 DEF IInv, Knows, CallerKnows, PriorKnows, BarrierPcs, CommitPcs, RollbackPcs, Keep, bounds
  <2>6. ReloadKnows'
    BY <2>1, <2>2, <2>3 DEF ReloadKnows, Keep, bounds, files
  <2>7. Knows'
    BY <2>4, <2>5, <2>6 DEF Knows
  <2> QED BY <2>1, <2>3, <2>7, Aside
<1>2. CASE Discover
  <2>1. /\ tx.pc = "discover" /\ tx' = [tx EXCEPT !.pc = "reload", !.pending = Live]
        /\ UNCHANGED files /\ Keep
    BY <1>2 DEF Discover, At
  <2>2. Live \in SUBSET Runtimes /\ tx \in TxAt(outside)
    BY DEF IInv, Types, Live
  <2>3. /\ tx' \in TxAt(outside) /\ tx'.pc = "reload" /\ tx'.bind = tx.bind /\ tx'.op = tx.op
        /\ tx'.target = tx.target /\ tx'.new = tx.new /\ tx'.prior = tx.prior
        /\ tx'.acked = tx.acked /\ tx'.ok = tx.ok
    BY <2>1, <2>2 DEF TxAt, Pcs
  <2>4. RecoverKnows' /\ CommitKnows' /\ TelemetryKnows'
    BY <2>3 DEF RecoverKnows, CommitKnows, TelemetryKnows, CommitPcs, RollbackPcs
  <2>5. CallerKnows' /\ PriorKnows'
    BY <2>1, <2>3 DEF IInv, Knows, CallerKnows, PriorKnows, BarrierPcs, CommitPcs, RollbackPcs, Keep, bounds
  <2>6. tx.acked = {}
    BY <2>1 DEF IInv, Knows, CallerKnows
  <2>7. ReloadKnows'
    BY <2>1, <2>3, <2>6 DEF IInv, Knows, ReloadKnows, Follow, Keep, bounds, files
  <2>8. Knows'
    BY <2>4, <2>5, <2>7 DEF Knows
  <2> QED BY <2>1, <2>3, <2>8, Aside
<1> QED BY <1>1, <1>2

(* A runtime that is reloaded reads auth.json again.                       *)
LEMMA ReloadRuntimeSteps ==
  ASSUME IInv, NEW r \in Runtimes, ReloadRuntime(r)
  PROVE  IInv'
<1> DEFINE acked == IF auth = tx.bind.auth THEN tx.acked \cup {r} ELSE tx.acked
           pending == tx.pending \ {r}
<1>1. /\ tx.pc = "reload" /\ loaded' = [loaded EXCEPT ![r] = Fp(auth)]
      /\ tx' = [tx EXCEPT !.pending = pending, !.acked = acked]
      /\ UNCHANGED <<store, auth, journal, witness, outside, faults, ops, disturbed>>
  BY DEF ReloadRuntime, At, files, bounds
<1>2. acked \in SUBSET Runtimes /\ pending \in SUBSET Runtimes /\ tx \in TxAt(outside)
  BY DEF IInv, Types, TxAt
<1>3. auth = tx.bind.auth => acked = tx.acked \cup {r}
  OBVIOUS
<1> HIDE DEF acked, pending
<1>4. /\ tx' \in TxAt(outside) /\ tx'.pc = "reload" /\ tx'.acked = acked /\ tx'.bind = tx.bind
      /\ tx'.op = tx.op /\ tx'.target = tx.target /\ tx'.new = tx.new /\ tx'.prior = tx.prior
      /\ tx'.ok = tx.ok
  BY <1>1, <1>2 DEF TxAt
<1>5. /\ loaded' \in [Runtimes -> CredAt(outside) \cup {None}]
      /\ loaded'[r] = Fp(auth) /\ \A s \in Runtimes \ {r} : loaded'[s] = loaded[s]
  BY <1>1, FpTyped DEF IInv, Types
<1>6. Types'
  BY <1>1, <1>4, <1>5 DEF IInv, Types
<1>7. PreparedKnows' /\ SplitGuarded'
  BY <1>1 DEF IInv, PreparedKnows, SplitGuarded, Is, Owns, FilesAgree
<1>8. RuntimesFollow'
  BY <1>1, <1>5 DEF IInv, RuntimesFollow, Is, Follow, Live
<1>9. RecoverKnows' /\ CommitKnows' /\ TelemetryKnows'
  BY <1>4 DEF RecoverKnows, CommitKnows, TelemetryKnows, CommitPcs, RollbackPcs
<1>10. CallerKnows' /\ PriorKnows'
  BY <1>1, <1>4 DEF IInv, Knows, CallerKnows, PriorKnows, BarrierPcs, CommitPcs, RollbackPcs
<1>11. ReloadKnows'
  <2>1. /\ tx.bind \in ImageAt(outside) /\ (auth = tx.bind.auth \/ tx.bind.auth.stamp < auth.stamp)
        /\ auth = tx.bind.auth => Follow(tx.acked \cap Live)
    BY <1>1 DEF IInv, Knows, ReloadKnows
  <2>2. auth = tx.bind.auth => \A s \in acked : loaded'[s] # None => loaded'[s] = Fp(auth)
    BY <1>2, <1>3, <1>5, <2>1 DEF Follow, Live
  <2>3. auth = tx.bind.auth => Follow(tx.acked \cap Live)'
    BY <1>1, <1>4, <2>2 DEF Follow, Live
  <2> QED BY <1>1, <1>4, <2>1, <2>3 DEF ReloadKnows
<1> QED BY <1>6, <1>7, <1>8, <1>9, <1>10, <1>11 DEF IInv, Knows

(* The end of the reload, with every runtime's answer or without.          *)
LEMMA ReloadEnds == ASSUME IInv, ReloadDone \/ ReloadFails \/ ReloadTimesOut PROVE IInv'
<1>1. CASE ReloadDone
  <2>1. /\ tx.pc = "reload" /\ tx.acked = Live /\ auth = tx.bind.auth
        /\ tx' = [tx EXCEPT !.pc = "final", !.ok = TRUE]
        /\ UNCHANGED files /\ Keep
    BY <1>1 DEF ReloadDone, Acknowledged, At
  <2>2. tx \in TxAt(outside)
    BY DEF IInv, Types
  <2>3. /\ tx' \in TxAt(outside) /\ tx'.pc = "final" /\ tx'.bind = tx.bind /\ tx'.op = tx.op
        /\ tx'.target = tx.target /\ tx'.new = tx.new /\ tx'.prior = tx.prior
        /\ tx'.acked = tx.acked
    BY <2>1, <2>2 DEF TxAt, Pcs
  <2>4. RecoverKnows' /\ CommitKnows' /\ TelemetryKnows'
    BY <2>3 DEF RecoverKnows, CommitKnows, TelemetryKnows, CommitPcs, RollbackPcs
  <2>5. CallerKnows' /\ PriorKnows'
    BY <2>1, <2>3 DEF IInv, Knows, CallerKnows, PriorKnows, BarrierPcs, CommitPcs, RollbackPcs, Keep, bounds
  <2>6. Follow(Live) /\ tx.bind \in ImageAt(outside)
    BY <2>1 DEF IInv, Knows, ReloadKnows
  <2>7. ReloadKnows'
    BY <2>1, <2>3, <2>6 DEF ReloadKnows, Follow, Live, Keep, bounds, files
  <2>8. Knows'
    BY <2>4, <2>5, <2>7 DEF Knows
  <2> QED BY <2>1, <2>3, <2>8, Aside
<1>2. ASSUME tx.pc = "reload", Goto("final"), UNCHANGED <<store, auth, journal, loaded, outside>>
      PROVE  Knows' /\ tx' \in TxAt(outside)
  <2>1. /\ tx' \in TxAt(outside) /\ tx'.pc = "final" /\ tx'.bind = tx.bind /\ tx'.op = tx.op
        /\ tx'.target = tx.target /\ tx'.new = tx.new /\ tx'.prior = tx.prior
        /\ tx'.acked = tx.acked /\ tx'.ok = tx.ok
    BY <1>2, GotoFacts DEF IInv, Types, Pcs
  <2>2. RecoverKnows' /\ CommitKnows' /\ TelemetryKnows'
    BY <2>1 DEF RecoverKnows, CommitKnows, TelemetryKnows, CommitPcs, RollbackPcs
  <2>3. CallerKnows' /\ PriorKnows'
    BY <1>2, <2>1 DEF IInv, Knows, CallerKnows, PriorKnows, BarrierPcs, CommitPcs, RollbackPcs
  <2>4. ReloadKnows'
    BY <1>2, <2>1 DEF IInv, Knows, CallerKnows, ReloadKnows
  <2> QED BY <2>1, <2>2, <2>3, <2>4 DEF Knows
<1>3. CASE ReloadFails
  BY <1>2, <1>3, Aside DEF ReloadFails, At, files, Keep, bounds
<1>4. CASE ReloadTimesOut
  <2>1. /\ tx.pc = "reload" /\ Goto("final") /\ faults < MaxFaults /\ faults' = faults + 1
        /\ UNCHANGED <<store, auth, journal, loaded, witness, outside, ops, disturbed>>
    BY <1>4 DEF ReloadTimesOut, At, Fault, files
  <2>2. faults' \in 0..MaxFaults
    BY <2>1, BoundsAssumption DEF IInv, Types
  <2>3. Knows' /\ tx' \in TxAt(outside)
    BY <1>2, <2>1
  <2>4. Types'
    BY <2>1, <2>2, <2>3 DEF IInv, Types
  <2>5. PreparedKnows' /\ SplitGuarded' /\ RuntimesFollow'
    BY <2>1 DEF IInv, PreparedKnows, SplitGuarded, RuntimesFollow, Is, Owns, Follow, Live, FilesAgree
  <2> QED BY <2>3, <2>4, <2>5 DEF IInv
<1> QED BY <1>1, <1>3, <1>4

(* The record of the outcome, if the binding still stands.                 *)
LEMMA FinalizeSteps == ASSUME IInv, FinalizeConfirmed \/ FinalizeDegraded PROVE IInv'
<1>1. ASSUME Unchanged
      PROVE  /\ journal \in JournalAt(outside) /\ store \in StoreAt(outside) /\ FilesAgree
             /\ ActiveFp(store) \in CredAt(outside) /\ auth = tx.bind.auth
  BY <1>1, CredTyped DEF Unchanged, PendingIdentity, IInv, Types, StoreAt
<1>2. CASE FinalizeConfirmed
  <2> DEFINE q == [journal EXCEPT !.state = "Confirmed", !.gen = store, !.fp = ActiveFp(store),
                     !.mismatch = FALSE]
  <2>1. /\ tx.pc = "final" /\ tx.ok /\ Unchanged /\ journal' = Settle(q) /\ witness' = None /\ End
        /\ disturbed' = FALSE /\ UNCHANGED <<store, auth, loaded, outside, faults, ops>>
    BY <1>2 DEF FinalizeConfirmed, At, Write, Proved, bounds
  <2>2. q \in JournalAt(outside) /\ q.state = "Confirmed"
    BY <1>1, <2>1 DEF JournalAt, States
  <2> HIDE DEF q
  <2>3. journal' \in JournalAt(outside) /\ journal'.state = "Confirmed"
    BY <2>1, <2>2, SettleTyped
  <2>4. FilesAgree /\ Follow(Live)
    BY <1>1, <2>1 DEF IInv, Knows, ReloadKnows
  <2>5. Knows' /\ tx' \in TxAt(outside)
    BY <2>1, EndKnows
  <2>6. Types'
    BY <2>1, <2>3, <2>5 DEF IInv, Types
  <2>7. PreparedKnows' /\ SplitGuarded' /\ RuntimesFollow'
    BY <2>1, <2>3, <2>4
       DEF PreparedKnows, SplitGuarded, RuntimesFollow, Is, FilesAgree, Follow, Live
  <2> QED BY <2>5, <2>6, <2>7 DEF IInv
<1>3. CASE FinalizeDegraded
  <2> DEFINE q == [journal EXCEPT !.state = "CommittedDegraded", !.gen = store, !.fp = ActiveFp(store)]
  <2>1. Unchanged /\ Write(q) /\ End /\ UNCHANGED <<store, auth>> /\ KeepW
    BY <1>3 DEF FinalizeDegraded
  <2>2. q \in JournalAt(outside) /\ q.state = "CommittedDegraded"
    BY <1>1, <2>1 DEF JournalAt, States
  <2> HIDE DEF q
  <2>3. Knows' /\ tx' \in TxAt(outside)
    BY <2>1, EndKnows DEF KeepW, bounds
  <2> QED BY <1>1, <2>1, <2>2, <2>3, Writes
<1> QED BY <1>2, <1>3

(* Every step of the reload.                                               *)
LEMMA ReloadSteps == ASSUME IInv, Reload PROVE IInv'
<1>1. CASE BindRefused
  BY <1>1, Stops DEF BindRefused
<1>2. CASE FinalizeRefused
  BY <1>2, Stops DEF FinalizeRefused
<1> QED BY <1>1, <1>2, BindSteps, ReloadRuntimeSteps, ReloadEnds, FinalizeSteps DEF Reload

-----------------------------------------------------------------------------
(* The telemetry commit.                                                   *)

(* A new observation names the same active credential.                     *)
LEMMA TelemetrySteps == ASSUME IInv, TelemetryCommit PROVE IInv'
<1> USE DEF At, bounds
<1>1. CASE Preflight
  <2> DEFINE image == [store |-> store, auth |-> auth]
  <2>1. /\ tx.pc = "preflight" /\ tx' = [tx EXCEPT !.pc = "publish", !.image = image]
        /\ UNCHANGED files /\ Keep
    BY <1>1 DEF Preflight
  <2>2. image \in ImageAt(outside) /\ tx \in TxAt(outside)
    BY DEF IInv, Types, ImageAt
  <2> HIDE DEF image
  <2>3. /\ tx' \in TxAt(outside) /\ tx'.pc = "publish" /\ tx'.op = tx.op /\ tx'.target = tx.target
        /\ tx'.new = tx.new /\ tx'.prior = tx.prior /\ tx'.acked = tx.acked /\ tx'.ok = tx.ok
    BY <2>1, <2>2 DEF TxAt, Pcs
  <2>4. RecoverKnows' /\ CommitKnows' /\ ReloadKnows' /\ TelemetryKnows'
    BY <2>3 DEF RecoverKnows, CommitKnows, ReloadKnows, TelemetryKnows, CommitPcs, RollbackPcs
  <2>5. CallerKnows' /\ PriorKnows'
    BY <2>1, <2>3 DEF IInv, Knows, CallerKnows, PriorKnows, BarrierPcs, CommitPcs, RollbackPcs, Keep
  <2> QED BY <2>1, <2>3, <2>4, <2>5, Aside DEF Knows
<1>2. CASE PreflightRefused
  BY <1>2, Stops DEF PreflightRefused
<1>3. CASE Publish
  <2> DEFINE new == [store EXCEPT !.obs = 1 - @]
             r == [journal EXCEPT !.base = store, !.own = new]
  <2>1. /\ tx.pc = "publish" /\ Is("Confirmed") /\ journal' = r
        /\ tx' = [tx EXCEPT !.pc = "commitTelemetry", !.new = new]
        /\ UNCHANGED <<store, auth, loaded, witness, outside, faults, ops, disturbed>>
    BY <1>3 DEF Publish, GuardHolds, ConfirmsCurrent, Confirms, Is, Keep
  <2>2. store \in StoreAt(outside) /\ journal \in JournalAt(outside) /\ tx \in TxAt(outside)
    BY <2>1 DEF IInv, Types, Is
  <2>3. new \in StoreAt(outside) /\ ActiveFp(new) = ActiveFp(store)
    BY <2>2 DEF StoreAt, Telemetry, ActiveFp, CredOf
  <2> HIDE DEF new
  <2>4. r \in JournalAt(outside) /\ r.state = "Confirmed" /\ r.fp = journal.fp
    BY <2>1, <2>2, <2>3 DEF JournalAt, Is
  <2> HIDE DEF r
  <2>5. /\ tx' \in TxAt(outside) /\ tx'.pc = "commitTelemetry" /\ tx'.new = new /\ tx'.op = tx.op
        /\ tx'.target = tx.target /\ tx'.prior = tx.prior /\ tx'.acked = tx.acked /\ tx'.ok = tx.ok
    BY <2>1, <2>2, <2>3 DEF TxAt, Pcs
  <2>6. Is("Confirmed")'
    BY <2>1, <2>4, Counted DEF IInv, Is
  <2>7. Types'
    BY <2>1, <2>4, <2>5 DEF IInv, Types
  <2>8. PreparedKnows' /\ SplitGuarded' /\ RuntimesFollow'
    BY <2>1, <2>4
       DEF IInv, PreparedKnows, SplitGuarded, RuntimesFollow, Is, FilesAgree, Follow, Live
  <2>9. RecoverKnows' /\ CommitKnows' /\ ReloadKnows'
    BY <2>5 DEF RecoverKnows, CommitKnows, ReloadKnows, CommitPcs, RollbackPcs
  <2>10. CallerKnows' /\ PriorKnows'
    BY <2>1, <2>5 DEF IInv, Knows, CallerKnows, PriorKnows, BarrierPcs, CommitPcs, RollbackPcs
  <2>11. TelemetryKnows'
    BY <2>1, <2>3, <2>5, <2>6 DEF TelemetryKnows
  <2> QED BY <2>7, <2>8, <2>9, <2>10, <2>11 DEF IInv, Knows
<1>4. CASE PublishRefused
  BY <1>4, Stops DEF PublishRefused
<1>5. CASE CommitTelemetry
  <2>1. /\ tx.pc = "commitTelemetry" /\ store' = tx.new /\ Goto("settleTelemetry")
        /\ UNCHANGED <<auth, journal, loaded, witness, outside, faults, ops, disturbed>>
    BY <1>5 DEF CommitTelemetry, Keep
  <2>2. /\ Is("Confirmed") /\ tx.new \in StoreAt(outside) /\ ActiveFp(tx.new) = ActiveFp(store)
    BY <2>1 DEF IInv, Knows, TelemetryKnows
  <2>3. /\ tx' \in TxAt(outside) /\ tx'.pc = "settleTelemetry" /\ tx'.op = tx.op
        /\ tx'.target = tx.target /\ tx'.new = tx.new /\ tx'.prior = tx.prior
        /\ tx'.acked = tx.acked /\ tx'.ok = tx.ok
    BY <2>1, GotoFacts DEF IInv, Types, Pcs
  <2>4. Types'
    BY <2>1, <2>2, <2>3 DEF IInv, Types
  <2>5. PreparedKnows' /\ SplitGuarded' /\ RuntimesFollow'
    BY <2>1, <2>2
       DEF IInv, PreparedKnows, SplitGuarded, RuntimesFollow, Is, FilesAgree, Follow, Live
  <2>6. RecoverKnows' /\ CommitKnows' /\ ReloadKnows'
    BY <2>3 DEF RecoverKnows, CommitKnows, ReloadKnows, CommitPcs, RollbackPcs
  <2>7. CallerKnows' /\ PriorKnows'
    BY <2>1, <2>3 DEF IInv, Knows, CallerKnows, PriorKnows, BarrierPcs, CommitPcs, RollbackPcs
  <2>8. TelemetryKnows'
    BY <2>1, <2>2, <2>3 DEF TelemetryKnows, Is
  <2> QED BY <2>4, <2>5, <2>6, <2>7, <2>8 DEF IInv, Knows
<1>6. CASE SettleTelemetry
  <2> DEFINE q == [journal EXCEPT !.gen = tx.new]
  <2>1. /\ tx.pc = "settleTelemetry" /\ journal' = Settle(q) /\ End
        /\ UNCHANGED <<store, auth, loaded, witness, outside, faults, ops, disturbed>>
    BY <1>6 DEF SettleTelemetry, Keep
  <2>2. Is("Confirmed") /\ tx.new \in StoreAt(outside) /\ journal \in JournalAt(outside)
    BY <2>1 DEF IInv, Knows, TelemetryKnows, Types, Is
  <2>3. q \in JournalAt(outside) /\ q.state = "Confirmed" /\ q.fp = journal.fp
    BY <2>2 DEF JournalAt, Is
  <2> HIDE DEF q
  <2>4. journal' \in JournalAt(outside) /\ journal'.state = "Confirmed" /\ journal'.fp = journal.fp
    BY <2>1, <2>3, SettleTyped
  <2>5. Knows' /\ tx' \in TxAt(outside)
    BY <2>1, EndKnows
  <2>6. Types'
    BY <2>1, <2>4, <2>5 DEF IInv, Types
  <2>7. PreparedKnows' /\ SplitGuarded' /\ RuntimesFollow'
    BY <2>1, <2>2, <2>4
       DEF IInv, PreparedKnows, SplitGuarded, RuntimesFollow, Is, FilesAgree, Follow, Live
  <2> QED BY <2>5, <2>6, <2>7 DEF IInv
<1> QED BY <1>1, <1>2, <1>3, <1>4, <1>5, <1>6 DEF TelemetryCommit

-----------------------------------------------------------------------------
(* Crashes, and whoever else writes the files.                             *)

(* A crash forgets the operation and nothing else.                         *)
LEMMA InterruptSteps == ASSUME IInv, Interrupt PROVE IInv'
<1>1. /\ End /\ faults < MaxFaults /\ faults' = faults + 1
      /\ UNCHANGED <<store, auth, journal, loaded, witness, outside, ops, disturbed>>
  BY DEF Interrupt, Fault, files
<1>2. faults' \in 0..MaxFaults
  BY <1>1, BoundsAssumption DEF IInv, Types
<1>3. Knows' /\ tx' \in TxAt(outside)
  BY <1>1, EndKnows
<1>4. Types'
  BY <1>1, <1>2, <1>3 DEF IInv, Types
<1>5. PreparedKnows' /\ SplitGuarded' /\ RuntimesFollow'
  BY <1>1 DEF IInv, PreparedKnows, SplitGuarded, RuntimesFollow, Is, Owns, Follow, Live, FilesAgree
<1> QED BY <1>3, <1>4, <1>5 DEF IInv

(* A write from outside: the store only while no operation holds its lock, *)
(* auth.json with a stamp and, unless no operation runs or only the bytes  *)
(* change, with a fresh token.                                             *)
LEMMA OutsideWrites ==
  ASSUME IInv, Outside,
         store' \in StoreAt(outside + 1), auth' \in AuthAt(outside + 1),
         loaded' \in [Runtimes -> CredAt(outside + 1) \cup {None}],
         witness' \in Accounts \cup {None},
         store' = store \/ StoreFree,
         \/ auth' = auth
         \/ /\ auth'.stamp = outside + 1
            /\ At("idle") \/ Fp(auth') = Fp(auth) \/ auth'.tok = outside + 1,
         auth' = auth =>
           \A r \in Runtimes : loaded'[r] # None => loaded'[r] = loaded[r] \/ loaded'[r] = Fp(auth),
         RuntimesFollow'
  PROVE  IInv'
<1>1. /\ outside' = outside + 1 /\ disturbed' = TRUE /\ outside < MaxOutside
      /\ UNCHANGED <<journal, tx, faults, ops>>
  BY DEF Outside
<1>2. /\ outside \in Nat /\ outside' \in 0..MaxOutside
      /\ StoreAt(outside) \subseteq StoreAt(outside + 1) /\ ImageAt(outside) \subseteq ImageAt(outside + 1)
      /\ JournalAt(outside) \subseteq JournalAt(outside + 1) /\ TxAt(outside) \subseteq TxAt(outside + 1)
  BY <1>1, Counted, Later, BoundsAssumption DEF IInv
<1>3. Types'
  BY <1>1, <1>2 DEF IInv, Types
<1>4. PreparedKnows' /\ SplitGuarded'
  BY <1>1, <1>2 DEF IInv, PreparedKnows, SplitGuarded, Is, Owns
<1>5. ASSUME NEW c \in CredAt(outside), ~At("idle"), Fp(auth) # c
      PROVE  Fp(auth') # c
  BY <1>2, <1>5, FpTyped DEF CredAt, AuthAt
<1>6. RecoverKnows'
  <2>1. tx.pc = "recoverEnd" => Untouched(journal.image)'
    BY <1>1, <1>2 DEF IInv, Knows, RecoverKnows, Untouched, AuthAt
  <2>2. tx.pc \in {"recoverAuth", "recoverEnd"} => store' = store
    BY DEF StoreFree, Unlocked
  <2> QED BY <1>1, <2>1, <2>2 DEF IInv, Knows, RecoverKnows, Is
<1>7. CallerKnows' /\ TelemetryKnows'
  BY <1>1, <1>2 DEF IInv, Knows, CallerKnows, TelemetryKnows, Pending, Is, StoreFree, Unlocked
<1>8. PriorKnows'
  <2>1. ASSUME tx.pc = "prepare", tx.prior # None
        PROVE  store' = store /\ tx.prior.record.fp # Fp(auth')
    <3>1. CredOf(store, tx.target) \in CredAt(outside)
      BY <2>1, CredTyped DEF IInv, Types, Knows, CallerKnows, Activating
    <3> QED BY <1>5, <2>1, <3>1 DEF IInv, Knows, PriorKnows, StoreFree, Unlocked, At
  <2> QED BY <1>1, <2>1 DEF IInv, Knows, PriorKnows
<1>9. CommitKnows'
  <2> USE DEF CommitPcs, RollbackPcs
  <2>1. tx.pc \in CommitPcs \cup RollbackPcs => store' = store
    BY DEF StoreFree, Unlocked
  <2>2. tx.pc \in {"commitStore", "rollbackEnd"} => Untouched(tx.image)'
    BY <1>1, <1>2 DEF IInv, Knows, CommitKnows, Untouched
  <2>3. tx.pc \in {"commitStore", "commitAuth", "rollbackEnd"} => Foreign(tx.new, tx.image)'
    <3>1. SUFFICES ASSUME tx.pc \in {"commitStore", "commitAuth", "rollbackEnd"}
                   PROVE  Fp(auth') = Fp(tx.image.auth) \/ Fp(auth') # ActiveFp(tx.new)
      BY <1>1 DEF Foreign
    <3>2. ActiveFp(tx.new) \in CredAt(outside) /\ Foreign(tx.new, tx.image) /\ ~At("idle")
      BY <3>1, CommitFacts DEF IInv, Knows, CommitKnows, At
    <3>3. CASE Fp(auth) # ActiveFp(tx.new)
      BY <1>5, <3>2, <3>3
    <3>4. CASE Fp(auth) = Fp(tx.image.auth)
      <4>1. Fp(auth') = Fp(auth) \/ auth'.tok = outside + 1
        BY <3>2
      <4>2. auth'.tok = outside + 1 => Fp(auth') # ActiveFp(tx.new)
        BY <1>2, <3>2, FpTyped DEF CredAt
      <4> QED BY <3>4, <4>1, <4>2
    <3> QED BY <3>2, <3>3, <3>4 DEF Foreign
  <2> QED BY <1>1, <2>1, <2>2, <2>3 DEF IInv, Knows, CommitKnows, Settled, Is, Clean, Owns
<1>10. ReloadKnows'
  <2>1. SUFFICES ASSUME tx.pc \in {"discover", "reload", "final"}
                 PROVE  /\ tx.bind \in ImageAt(outside + 1)
                        /\ auth' = tx.bind.auth \/ tx.bind.auth.stamp < auth'.stamp
                        /\ tx.pc = "reload" /\ auth' = tx.bind.auth => Follow(tx.acked \cap Live)'
                        /\ tx.pc = "final" /\ tx.ok /\ auth' = tx.bind.auth => Follow(Live)'
    BY <1>1 DEF ReloadKnows
  <2>2. /\ tx.bind \in ImageAt(outside) /\ (auth = tx.bind.auth \/ tx.bind.auth.stamp < auth.stamp)
        /\ tx.bind.auth.stamp \in 0..outside /\ auth.stamp \in 0..outside
        /\ (tx.pc = "reload" /\ auth = tx.bind.auth) => Follow(tx.acked \cap Live)
        /\ (tx.pc = "final" /\ tx.ok /\ auth = tx.bind.auth) => Follow(Live)
    BY <2>1 DEF IInv, Types, Knows, ReloadKnows, ImageAt, AuthAt
  <2>3. auth' = tx.bind.auth => auth' = auth
    BY <1>2, <2>2
  <2>4. auth' = tx.bind.auth \/ tx.bind.auth.stamp < auth'.stamp
    BY <1>2, <2>2
  <2>5. ASSUME auth' = auth, NEW rs \in SUBSET Runtimes, Follow(rs \cap Live)
        PROVE  \A r \in rs : loaded'[r] # None => loaded'[r] = Fp(auth')
    BY <2>5 DEF Follow, Live
  <2>6. tx.acked \in SUBSET Runtimes /\ Live \subseteq Runtimes
    BY DEF IInv, Types, TxAt, Live
  <2>7. (tx.pc = "reload" /\ auth' = tx.bind.auth) => Follow(tx.acked \cap Live)'
    BY <1>1, <2>2, <2>3, <2>5, <2>6 DEF Follow, Live
  <2>8. (tx.pc = "final" /\ tx.ok /\ auth' = tx.bind.auth) => Follow(Live)'
    BY <1>1, <2>2, <2>3, <2>5, <2>6 DEF Follow, Live
  <2> QED BY <1>2, <2>2, <2>4, <2>7, <2>8
<1> QED BY <1>3, <1>4, <1>6, <1>7, <1>8, <1>9, <1>10 DEF IInv, Knows

(* A fresh token is one that no confirmed record names.                    *)
LEMMA FreshUnconfirmed ==
  ASSUME IInv, Outside, auth' \in AuthAt(outside + 1), auth'.tok = outside + 1
  PROVE  RuntimesFollow'
<1>1. journal' = journal /\ outside \in Nat /\ outside + 1 \in 0..MaxOutside
  BY Counted, BoundsAssumption DEF Outside, IInv
<1>2. ASSUME Is("Confirmed") PROVE journal.fp # Fp(auth')
  <2>1. journal.fp \in CredAt(outside) \cup {None}
    BY <1>2 DEF Is, IInv, Types, JournalAt
  <2>2. Fp(auth') \notin CredAt(outside)
    BY <1>1, FpTyped DEF CredAt
  <2>3. Fp(auth') # None
    BY <1>1, NoneApart, FpTyped
  <2> QED BY <2>1, <2>2, <2>3
<1> QED BY <1>1, <1>2 DEF RuntimesFollow, Is

(* What others write in auth.json is stamped.                              *)
LEMMA StampedTyped ==
  ASSUME outside \in Nat, NEW c, c.acct \in Accounts, c.tok \in 0..outside + 1
  PROVE  /\ Stamped(c) \in AuthAt(outside + 1) /\ Stamped(c).stamp = outside + 1
         /\ Fp(Stamped(c)) = [acct |-> c.acct, tok |-> c.tok]
         /\ Stamped(c).tok = c.tok
BY DEF Stamped, AuthAt, Fp

(* The types after a write that leaves a file as it was.                   *)
LEMMA GrowFacts ==
  ASSUME IInv
  PROVE  /\ outside \in Nat /\ outside + 1 \in 0..outside + 1
         /\ store \in StoreAt(outside + 1) /\ auth \in AuthAt(outside + 1)
         /\ loaded \in [Runtimes -> CredAt(outside + 1) \cup {None}]
         /\ store \in StoreAt(outside) /\ auth \in AuthAt(outside)
         /\ witness \in Accounts \cup {None}
<1>1. /\ outside \in Nat /\ StoreAt(outside) \subseteq StoreAt(outside + 1)
      /\ AuthAt(outside) \subseteq AuthAt(outside + 1) /\ CredAt(outside) \subseteq CredAt(outside + 1)
  BY Counted, Later DEF IInv
<1>2. /\ store \in StoreAt(outside) /\ auth \in AuthAt(outside) /\ witness \in Accounts \cup {None}
      /\ loaded \in [Runtimes -> CredAt(outside) \cup {None}]
  BY DEF IInv, Types
<1> QED BY <1>1, <1>2

(* A runtime that refreshes, starts or exits.                              *)
LEMMA RuntimeSteps ==
  ASSUME IInv, NEW r \in Runtimes, RuntimeRefresh(r) \/ RuntimeStart(r) \/ RuntimeExit(r)
  PROVE  IInv'
<1>1. CASE RuntimeRefresh(r)
  <2> DEFINE c == Fresh(loaded[r].acct)
  <2>1. /\ Outside /\ loaded' = [loaded EXCEPT ![r] = c] /\ auth' = Stamped(loaded'[r])
        /\ loaded[r] # None /\ UNCHANGED <<store, witness>>
    BY <1>1 DEF RuntimeRefresh, Live
  <2>2. c \in CredAt(outside + 1) /\ c.tok = outside + 1
    <3>1. loaded[r] \in CredAt(outside)
      BY <2>1 DEF IInv, Types
    <3> QED BY <3>1, GrowFacts DEF Fresh, CredAt
  <2> HIDE DEF c
  <2>3. loaded' \in [Runtimes -> CredAt(outside + 1) \cup {None}] /\ loaded'[r] = c
    BY <2>1, <2>2, GrowFacts
  <2>4. auth' \in AuthAt(outside + 1) /\ auth'.stamp = outside + 1 /\ auth'.tok = outside + 1
    BY <2>1, <2>2, <2>3, GrowFacts, StampedTyped DEF CredAt
  <2>5. auth' # auth
    BY <2>4, GrowFacts DEF AuthAt
  <2> QED BY <2>1, <2>3, <2>4, <2>5, GrowFacts, FreshUnconfirmed, OutsideWrites
<1>2. ASSUME NEW c \in {None, Fp(auth)}, Outside, loaded' = [loaded EXCEPT ![r] = c],
             UNCHANGED <<store, auth, witness>>
      PROVE  IInv'
  <2>1. c \in CredAt(outside + 1) \cup {None}
    BY <1>2, GrowFacts, FpTyped
  <2>2. /\ loaded' \in [Runtimes -> CredAt(outside + 1) \cup {None}]
        /\ loaded'[r] = c /\ \A s \in Runtimes \ {r} : loaded'[s] = loaded[s]
    BY <1>2, <2>1, GrowFacts
  <2>3. RuntimesFollow'
    BY <1>2, <2>2 DEF IInv, RuntimesFollow, Is, Follow, Live, Outside
  <2> QED BY <1>2, <2>2, <2>3, GrowFacts, OutsideWrites
<1>3. CASE RuntimeStart(r) \/ RuntimeExit(r)
  BY <1>2, <1>3 DEF RuntimeStart, RuntimeExit
<1> QED BY <1>1, <1>3

(* A touch of auth.json, and a login.                                      *)
LEMMA AuthSteps == ASSUME IInv, AuthTouch \/ \E a \in Accounts : Login(a) PROVE IInv'
<1>1. CASE AuthTouch
  <2>1. Outside /\ auth' = Stamped(auth) /\ UNCHANGED <<store, loaded, witness>>
    BY <1>1 DEF AuthTouch
  <2>2. auth' \in AuthAt(outside + 1) /\ auth'.stamp = outside + 1 /\ Fp(auth') = Fp(auth)
    BY <2>1, GrowFacts, StampedTyped DEF AuthAt, Fp
  <2>3. RuntimesFollow'
    BY <2>1, <2>2 DEF IInv, RuntimesFollow, Is, Follow, Live, Outside
  <2> QED BY <2>1, <2>2, <2>3, GrowFacts, OutsideWrites
<1>2. ASSUME NEW a \in Accounts, Login(a) PROVE IInv'
  <2>1. Outside /\ auth' = Stamped(Fresh(a)) /\ UNCHANGED <<store, loaded, witness>>
    BY <1>2 DEF Login
  <2>2. auth' \in AuthAt(outside + 1) /\ auth'.stamp = outside + 1 /\ auth'.tok = outside + 1
    BY <2>1, GrowFacts, StampedTyped DEF Fresh
  <2> QED BY <2>1, <2>2, GrowFacts, FreshUnconfirmed, OutsideWrites
<1> QED BY <1>1, <1>2

(* The Swift app saves to the store, or takes the token it finds.          *)
LEMMA SwiftStoreSteps == ASSUME IInv, SwiftSaves \/ SwiftRebases PROVE IInv'
<1>1. ASSUME Outside, StoreFree, store' \in StoreAt(outside + 1), UNCHANGED <<auth, loaded>>,
             witness' \in Accounts \cup {None}
      PROVE  IInv'
  <2>1. RuntimesFollow'
    BY <1>1 DEF IInv, RuntimesFollow, Is, Follow, Live, Outside
  <2> QED BY <1>1, <2>1, GrowFacts, OutsideWrites
<1>2. CASE SwiftSaves
  <2>1. \/ store' = [store EXCEPT !.obs = 1 - @]
        \/ \E a \in Accounts : store' = [store EXCEPT !.tok[a] = outside + 1]
    BY <1>2 DEF SwiftSaves
  <2>2. ASSUME store' = [store EXCEPT !.obs = 1 - @] PROVE store' \in StoreAt(outside + 1)
    BY <2>2, GrowFacts DEF StoreAt, Telemetry
  <2>3. ASSUME NEW a \in Accounts, store' = [store EXCEPT !.tok[a] = outside + 1]
        PROVE  store' \in StoreAt(outside + 1)
    BY <2>3, GrowFacts DEF StoreAt
  <2>4. store' \in StoreAt(outside + 1)
    BY <2>1, <2>2, <2>3
  <2> QED BY <1>1, <1>2, <2>4, GrowFacts DEF SwiftSaves
<1>3. CASE SwiftRebases
  <2>1. store' = [store EXCEPT !.tok[auth.acct] = auth.tok]
    BY <1>3 DEF SwiftRebases
  <2>2. auth.tok \in 0..outside + 1
    BY GrowFacts DEF AuthAt
  <2>3. store' \in StoreAt(outside + 1)
    BY <2>1, <2>2, GrowFacts DEF StoreAt
  <2> QED BY <1>1, <1>3, <2>3 DEF SwiftRebases, StoreFree, Unlocked, At
<1> QED BY <1>2, <1>3

(* A whole activation by Swift, under the lease.                           *)
LEMMA SwiftActivationSteps ==
  ASSUME IInv, NEW a \in Accounts, NEW c \in BOOLEAN, SwiftActivation(a, c)
  PROVE  IInv'
<1> DEFINE cred == CredOf(store, a)
<1>1. /\ Outside /\ At("idle") /\ (c \/ SwiftDegrades) /\ store' = [store EXCEPT !.active = a]
      /\ auth' = Stamped(cred)
      /\ \/ c /\ loaded' = [r \in Runtimes |-> IF r \in Live THEN cred ELSE None]
         \/ ~c /\ loaded' = loaded
      /\ witness' \in Accounts \cup {None}
  BY DEF SwiftActivation
<1>2. cred \in CredAt(outside) /\ cred \in CredAt(outside + 1)
  BY CredTyped, GrowFacts
<1> HIDE DEF cred
<1>3. store' \in StoreAt(outside + 1)
  BY <1>1, GrowFacts DEF StoreAt
<1>4. auth' \in AuthAt(outside + 1) /\ auth'.stamp = outside + 1 /\ Fp(auth') = cred
  BY <1>1, <1>2, GrowFacts, StampedTyped DEF CredAt
<1>5. loaded' \in [Runtimes -> CredAt(outside + 1) \cup {None}]
  BY <1>1, <1>2, GrowFacts
<1>6. auth' # auth
  BY <1>4, GrowFacts DEF AuthAt
<1>7. RuntimesFollow'
  BY <1>1, <1>4 DEF RuntimesFollow, Follow, Live
<1> QED BY <1>1, <1>3, <1>4, <1>5, <1>6, <1>7, OutsideWrites DEF StoreFree, Unlocked, At

(* Every step of the runtimes, the Swift app and the other writers.      *)
LEMMA OtherSteps == ASSUME IInv, Others PROVE IInv'
BY RuntimeSteps, AuthSteps, SwiftStoreSteps, SwiftActivationSteps DEF Others

-----------------------------------------------------------------------------
(* Every step preserves the invariant.                                     *)
LEMMA NextInv == IInv /\ [Next]_vars => IInv'
<1> SUFFICES ASSUME IInv, [Next]_vars
             PROVE  IInv'
  OBVIOUS
<1>1. CASE UNCHANGED vars
  BY <1>1
     DEF vars, IInv, Types, PreparedKnows, Knows, RecoverKnows, CallerKnows, PriorKnows, CommitKnows,
         ReloadKnows, TelemetryKnows, SplitGuarded, RuntimesFollow, Is, Owns, Untouched, Foreign,
         Settled, Clean, Pending, Follow, Live, FilesAgree
<1>2. CASE Step
  BY <1>2, RecoverSteps, DurableSteps, AdoptSteps, CommitSteps, RollbackSteps, ReloadSteps,
     TelemetrySteps DEF Step
<1> QED BY <1>1, <1>2, BeginSteps, InterruptSteps, OtherSteps DEF Next

(* What is true of every reachable state.                                  *)
THEOREM Invariance == Spec => []IInv
BY InitInv, NextInv, PTL DEF Spec

(* Every record, token and local variable has its type, and a prepared     *)
(* record always carries what its recovery needs (activation.rs, the       *)
(* journal and the operation's locals).                                    *)
THEOREM TypeCorrect == Spec => []TypeOK
<1>1. IInv => TypeOK
  <2> SUFFICES ASSUME IInv PROVE TypeOK
    OBVIOUS
  <2>1. outside \in Nat /\ MaxOutside \in Nat /\ outside <= MaxOutside
    BY Counted, BoundsAssumption DEF IInv
  <2>2. /\ StoreAt(outside) \subseteq Store /\ AuthAt(outside) \subseteq Auth
        /\ CredAt(outside) \subseteq Cred /\ ImageAt(outside) \subseteq Image
        /\ JournalAt(outside) \subseteq Journal
    BY <2>1, Later, AtBound
  <2>3. store \in Store /\ auth \in Auth /\ journal \in Journal \cup {None}
    BY <2>2 DEF IInv, Types
  <2>4. Is("Prepared") => None \notin {journal.base, journal.own, journal.image}
    BY PreparedFacts, Counted DEF IInv
  <2>5. loaded \in [Runtimes -> Cred \cup {None}]
    BY <2>2 DEF IInv, Types
  <2>6. PriorAt(outside) \subseteq [record: Journal, witness: Accounts \cup {None}]
    BY <2>2 DEF PriorAt
  <2>7. tx \in [pc: Pcs, op: Ops \cup {None}, target: Accounts \cup {None}, live: BOOLEAN,
             new: Store \cup {None}, image: Image \cup {None}, ownStore: BOOLEAN,
             ownAuth: Auth \cup {None}, bind: Image \cup {None},
             prior: [record: Journal, witness: Accounts \cup {None}] \cup {None},
             pending: SUBSET Runtimes, acked: SUBSET Runtimes, ok: BOOLEAN]
    BY <2>2, <2>6 DEF IInv, Types, TxAt
  <2> QED BY <2>3, <2>4, <2>5, <2>7 DEF IInv, Types, TypeOK
<1> QED BY <1>1, Invariance, PTL

(* As long as Swift's own activations converge, a record that the code     *)
(* accepts as current confirmation is the truth about every live runtime   *)
(* (activation_record_confirms_current, finalize_pending_activation).      *)
THEOREM ConfirmationsTrue == SwiftDegrades = FALSE => (Spec => []RuntimeCurrent)
<1>1. SwiftDegrades = FALSE /\ IInv => RuntimeCurrent
  BY DEF IInv, RuntimesFollow, RuntimeCurrent, ConfirmsCurrent, Confirms, FilesAgree, Is, Follow
<1>2. CASE SwiftDegrades = FALSE
  <2>1. IInv => RuntimeCurrent
    BY <1>1, <1>2
  <2>2. Spec => []RuntimeCurrent
    BY <2>1, Invariance, PTL
  <2> QED BY <2>2
<1> QED BY <1>2

(* If the commit of an import fails only before its rename, files that     *)
(* disagree between operations stand behind a record that stops the next   *)
(* activation, unless somebody else wrote them (recover_prepared_activation *)
(* and the rollbacks).                                                     *)
THEOREM SplitsGuarded == "Import" \notin LateErrors => (Spec => []NoUnguardedSplit)
<1>1. "Import" \notin LateErrors /\ IInv => NoUnguardedSplit
  BY DEF IInv, SplitGuarded, NoUnguardedSplit
<1>2. CASE "Import" \notin LateErrors
  <2>1. IInv => NoUnguardedSplit
    BY <1>1, <1>2
  <2>2. Spec => []NoUnguardedSplit
    BY <2>1, Invariance, PTL
  <2> QED BY <2>2
<1> QED BY <1>2

-----------------------------------------------------------------------------
(* How a step may change the journal, and auth.json.                       *)

Committed == store' = journal.own /\ Fp(auth') = ActiveFp(store')
PutBack == /\ store' = journal.image.store
           /\ auth' = journal.image.auth \/ auth'.stamp # 0

(* A prepared record stays prepared, goes to review, or ends as its files  *)
(* say; another one becomes prepared only if it was settled.               *)
JournalMoves ==
  \/ journal' = journal
  \/ ~Is("Prepared") /\ journal'.state # "Prepared"
  \/ ~Is("Prepared") /\ Settled
  \/ Is("Prepared") /\ journal'.state \in {"Prepared", "ManualReview"}
  \/ Is("Prepared") /\ journal'.state \in {"FileOnly", "CommittedDegraded"} /\ Committed
  \/ Is("Prepared") /\ journal'.state \in {"RolledBack", "Confirmed"} /\ ("Import" \notin LateErrors => PutBack)

(* The recovery's moves of the record.                                   *)
LEMMA RecoverMoves == ASSUME IInv, Recover PROVE JournalMoves
<1>1. CASE RecoverCommitted
  <2>1. /\ Is("Prepared") /\ journal' = [journal EXCEPT !.state = "CommittedDegraded", !.gen = store]
        /\ journal.own = store /\ journal.ownAuth # None /\ journal.ownAuth = auth
        /\ UNCHANGED <<store, auth>>
    BY <1>1 DEF RecoverCommitted, Write, StoreOwned, AuthOwned
  <2>2. journal'.state = "CommittedDegraded"
    BY <2>1, PreparedFacts DEF JournalAt
  <2>3. Committed
    BY <2>1 DEF IInv, PreparedKnows, Owns, Committed
  <2> QED BY <2>1, <2>2, <2>3 DEF JournalMoves
<1>2. CASE RecoverEnd
  <2>1. /\ Is("Prepared") /\ journal' = [journal EXCEPT !.state = "RolledBack", !.gen = store]
        /\ store = journal.image.store /\ Untouched(journal.image) /\ UNCHANGED <<store, auth>>
    BY <1>2 DEF RecoverEnd, Write, IInv, Knows, RecoverKnows, At
  <2>2. journal'.state = "RolledBack"
    BY <2>1, PreparedFacts DEF JournalAt
  <2>3. PutBack
    BY <2>1 DEF PutBack, Untouched
  <2> QED BY <2>1, <2>2, <2>3 DEF JournalMoves
<1>3. CASE RecoverUncommitted
  <2>1. /\ Is("Prepared") /\ journal' = [journal EXCEPT !.state = "RolledBack", !.gen = store]
        /\ store = journal.base /\ auth = journal.image.auth /\ UNCHANGED <<store, auth>>
    BY <1>3 DEF RecoverUncommitted, Write, AuthPrevious
  <2>2. journal'.state = "RolledBack"
    BY <2>1, PreparedFacts DEF JournalAt
  <2>3. PutBack
    BY <2>1, PreparedFacts DEF PutBack
  <2> QED BY <2>1, <2>2, <2>3 DEF JournalMoves
<1>4. CASE RecoverAmbiguous
  <2>1. /\ Is("Prepared") /\ journal' = [journal EXCEPT !.state = "ManualReview", !.gen = store]
    BY <1>4 DEF RecoverAmbiguous, Write
  <2>2. journal'.state = "ManualReview"
    BY <2>1, PreparedFacts DEF JournalAt
  <2> QED BY <2>1, <2>2 DEF JournalMoves
<1>5. CASE NothingToRecover \/ RecoverRestoreStore \/ RecoverRestoreAuth
  BY <1>5 DEF NothingToRecover, RecoverRestoreStore, RecoverRestoreAuth, RestoreAuth, files, JournalMoves
<1> QED BY <1>1, <1>2, <1>3, <1>4, <1>5 DEF Recover

(* A record that is not prepared, and is written with another state.       *)
LEMMA OtherMoves ==
  ASSUME IInv, Durable \/ Adopt \/ Reload \/ TelemetryCommit
  PROVE  journal' = journal \/ (~Is("Prepared") /\ journal'.state # "Prepared")
<1>0. journal # None => journal \in JournalAt(outside)
  BY DEF IInv, Types
<1>1. CASE HealMismatch
  BY <1>0, <1>1 DEF HealMismatch, MismatchHealed, Is, Write, JournalAt
<1>2. CASE RepairConfirmed
  BY <1>0, <1>2 DEF RepairConfirmed, Repairable, Stale, Is, Write, JournalAt
<1>3. CASE FinishTransition
  BY <1>0, <1>3 DEF FinishTransition, TransitionValid, Is, Settle, JournalAt
<1>4. CASE ResumeMismatch
  BY <1>0, <1>4 DEF ResumeMismatch, IInv, Knows, CallerKnows, Pending, Is, Write, At, JournalAt
<1>5. CASE ResumeRebind
  BY <1>0, <1>5 DEF ResumeRebind, IInv, Knows, CallerKnows, Pending, Is, Write, At, JournalAt
<1>6. CASE DurableClear \/ DurableBlocked \/ DurablePending \/ ResumeObserve
  BY <1>6 DEF DurableClear, DurableBlocked, DurablePending, ResumeObserve, files
<1>7. CASE Adopt
  <2>1. CASE AdoptDegraded
    BY <1>0, <2>1 DEF AdoptDegraded, AdoptableDegraded, Is, Write, Record, JournalAt
  <2> QED BY <1>7, <2>1 DEF Adopt, AdoptPlain, AdoptStale, AdoptRefused, files
<1>8. CASE Reload
  <2>1. Unchanged => ~Is("Prepared") /\ journal # None
    BY DEF Unchanged, PendingIdentity, Pending, Is
  <2>2. CASE FinalizeConfirmed
    BY <1>0, <2>1, <2>2 DEF FinalizeConfirmed, Write, Settle, JournalAt
  <2>3. CASE FinalizeDegraded
    BY <1>0, <2>1, <2>3 DEF FinalizeDegraded, Write, JournalAt
  <2> QED BY <1>8, <2>2, <2>3 DEF Reload, Bind, BindRefused, Discover, ReloadRuntime, ReloadDone,
             ReloadFails, ReloadTimesOut, FinalizeRefused, files
<1>9. CASE TelemetryCommit
  <2>1. CASE Publish
    BY <1>0, <2>1 DEF Publish, GuardHolds, ConfirmsCurrent, Confirms, Is, JournalAt
  <2>2. CASE SettleTelemetry
    BY <1>0, <2>2 DEF SettleTelemetry, IInv, Knows, TelemetryKnows, Is, At, Settle, JournalAt
  <2> QED BY <1>9, <2>1, <2>2 DEF TelemetryCommit, Preflight, PreflightRefused, PublishRefused,
             CommitTelemetry, files
<1> QED BY <1>1, <1>2, <1>3, <1>4, <1>5, <1>6, <1>7, <1>8, <1>9 DEF Durable

(* The commit and its rollback.                                            *)
LEMMA CommitMoves == ASSUME IInv, Commit \/ Rollback PROVE JournalMoves
<1> USE DEF At, CommitPcs, RollbackPcs
<1>1. CASE Prepare
  BY <1>1 DEF Prepare, IInv, Knows, CommitKnows, Settled, Is, JournalMoves
<1>2. CASE CommitStoreFails
  <2>1. CASE Kind = "Rotation"
    BY <1>2, <2>1 DEF CommitStoreFails, JournalMoves
  <2>2. CASE Kind # "Rotation"
    <3> DEFINE plain == Record("RolledBack", tx.target, tx.image.store, None)
    <3>1. /\ tx.pc = "commitStore" /\ journal' = [plain EXCEPT !.image = tx.image]
          /\ "Import" \notin LateErrors => store' = store
          /\ auth' = auth
      BY <1>2, <2>2 DEF CommitStoreFails, Write, Kind
    <3>2. plain \in JournalAt(outside) /\ plain.state = "RolledBack"
      BY <3>1, CommitFacts, RecordTyped DEF States
    <3> HIDE DEF plain
    <3>3. journal'.state = "RolledBack"
      BY <3>1, <3>2 DEF JournalAt
    <3>4. store = tx.image.store /\ Untouched(tx.image) /\ Is("Prepared") /\ journal.image = tx.image
      BY <3>1, CommitFacts DEF IInv, Knows, CommitKnows
    <3>5. "Import" \notin LateErrors => PutBack
      BY <3>1, <3>4 DEF PutBack, Untouched
    <3> QED BY <3>3, <3>4, <3>5 DEF JournalMoves
  <2> QED BY <2>1, <2>2
<1>3. CASE RecordOwned
  <2>1. Is("Prepared") /\ journal' = [journal EXCEPT !.ownAuth = tx.ownAuth]
    BY <1>3, CommitFacts DEF RecordOwned, Write
  <2>2. journal'.state = "Prepared"
    BY <2>1, PreparedFacts DEF JournalAt
  <2> QED BY <2>1, <2>2 DEF JournalMoves
<1>4. CASE Verify
  <2> DEFINE imported == [journal EXCEPT !.state = "FileOnly", !.gen = store]
             rotated == Record("FileOnly", tx.target, store, CredOf(store, tx.target))
  <2>1. /\ tx.pc = "verify" /\ Verified /\ journal' \in {imported, rotated}
        /\ UNCHANGED <<store, auth>>
    BY <1>4 DEF Verify, Write
  <2>2. Is("Prepared") /\ journal.own = tx.new
    BY <2>1, CommitFacts
  <2>3. imported.state = "FileOnly"
    BY <2>2, PreparedFacts DEF JournalAt
  <2>4. rotated.state = "FileOnly"
    BY DEF Record
  <2> HIDE DEF imported, rotated
  <2>5. Committed
    BY <2>1, <2>2, CommitFacts DEF Committed, Verified
  <2> QED BY <2>1, <2>2, <2>3, <2>4, <2>5 DEF JournalMoves
<1>5. CASE RollbackUnproven
  <2> DEFINE plain == Record("ManualReview", tx.target, store,
                        IF Kind = "Import" THEN CredOf(tx.new, tx.target) ELSE None)
             own == IF tx.ownStore THEN tx.new ELSE None
  <2>1. /\ tx.pc = "rollback"
        /\ journal' = [plain EXCEPT !.image = tx.image, !.ownAuth = tx.ownAuth, !.own = own]
    BY <1>5 DEF RollbackUnproven, Write
  <2> HIDE DEF own
  <2>2. journal'.state = "ManualReview"
    BY <2>1 DEF Record
  <2> QED BY <2>1, <2>2, CommitFacts DEF JournalMoves
<1>6. CASE RollbackEnd
  <2>1. /\ tx.pc = "rollbackEnd" /\ UNCHANGED <<store, auth>>
        /\ journal' \in {tx.prior.record, Record("RolledBack", tx.target, store, None)}
        /\ tx.prior = None => journal' = Record("RolledBack", tx.target, store, None)
    BY <1>6 DEF RollbackEnd, Write
  <2>2. journal'.state \in {"RolledBack", "Confirmed"}
    BY <2>1 DEF IInv, Knows, PriorKnows, Record
  <2>3. store = tx.image.store /\ Untouched(tx.image) /\ Is("Prepared") /\ journal.image = tx.image
    BY <2>1, CommitFacts DEF IInv, Knows, CommitKnows
  <2>4. PutBack
    BY <2>1, <2>3 DEF PutBack, Untouched
  <2> QED BY <2>2, <2>3, <2>4 DEF JournalMoves
<1>7. CASE CommitStore \/ CommitAuth \/ CommitAuthFails \/ RecordOwnedFails \/ VerifyFails
  BY <1>7 DEF CommitStore, CommitAuth, CommitAuthFails, RecordOwnedFails, VerifyFails, files, JournalMoves
<1>8. CASE RollbackStore \/ RollbackAuth \/ RestoreLost
  BY <1>8 DEF RollbackStore, RollbackAuth, RestoreAuth, RestoreLost, files, JournalMoves
<1> QED BY <1>1, <1>2, <1>3, <1>4, <1>5, <1>6, <1>7, <1>8 DEF Commit, Rollback

(* Every step moves the record as JournalMoves allows.                   *)
LEMMA JournalStep == ASSUME IInv, [Next]_vars PROVE JournalMoves
<1>1. CASE BeginSome
  BY <1>1 DEF BeginSome, Begin, files, JournalMoves
<1>2. CASE Interrupt
  BY <1>2 DEF Interrupt, files, JournalMoves
<1>3. CASE Others
  BY <1>3 DEF Others, RuntimeRefresh, RuntimeStart, RuntimeExit, AuthTouch, SwiftSaves, SwiftRebases,
              Login, SwiftActivation, Outside, JournalMoves
<1>4. CASE Step
  <2>1. CASE Durable \/ Adopt \/ Reload \/ TelemetryCommit
    BY <2>1, OtherMoves DEF JournalMoves
  <2> QED BY <1>4, <2>1, RecoverMoves, CommitMoves DEF Step
<1>5. CASE UNCHANGED vars
  BY <1>5 DEF vars, JournalMoves
<1> QED BY <1>1, <1>2, <1>3, <1>4, <1>5 DEF Next

(* How a prepared activation may end, if the commit of an import fails     *)
(* only before its rename: committed with both files its own, or abandoned *)
(* with both put back but for an outsider's bytes (recover_prepared_       *)
(* activation, verify_committed_activation, the rollbacks).                *)
THEOREM PreparedEnds == "Import" \notin LateErrors => (Spec => PreparedOutcome)
<1>1. ASSUME "Import" \notin LateErrors, IInv, [Next]_vars
      PROVE  Is("Prepared") /\ journal' # journal =>
               /\ journal'.state \in {"FileOnly", "CommittedDegraded"} =>
                    store' = journal.own /\ Fp(auth') = ActiveFp(store')
               /\ journal'.state \in {"RolledBack", "Confirmed"} =>
                    /\ store' = journal.image.store
                    /\ auth' = journal.image.auth \/ auth'.stamp # 0
  BY <1>1, JournalStep DEF JournalMoves, Committed, PutBack
<1>2. CASE "Import" \notin LateErrors
  <2>1. IInv /\ [Next]_vars =>
          [Is("Prepared") /\ journal' # journal =>
             /\ journal'.state \in {"FileOnly", "CommittedDegraded"} =>
                  store' = journal.own /\ Fp(auth') = ActiveFp(store')
             /\ journal'.state \in {"RolledBack", "Confirmed"} =>
                  /\ store' = journal.image.store
                  /\ auth' = journal.image.auth \/ auth'.stamp # 0]_vars
    BY <1>1, <1>2
  <2>2. Spec => PreparedOutcome
    BY <2>1, Invariance, PTL DEF Spec, PreparedOutcome
  <2> QED BY <2>2
<1> QED BY <1>2

(* A new activation is prepared only over a settled record, whoever asks   *)
(* (reconcile_durable_activation_record_with and the adoption's barrier).  *)
THEOREM NothingOverwritten == Spec => NoActivationOverUnresolved
<1>1. IInv /\ [Next]_vars =>
        [~Is("Prepared") /\ journal' # None /\ journal'.state = "Prepared" =>
           journal = None \/ Is("RolledBack") \/ (Is("Confirmed") /\ Clean(journal))]_vars
  BY JournalStep DEF JournalMoves, Settled, Is
<1> QED BY <1>1, Invariance, PTL DEF Spec, NoActivationOverUnresolved

-----------------------------------------------------------------------------
(* The restores of auth.json are the only steps of the transaction that    *)
(* write it at their program counters.                                     *)
LEMMA RestoresOnly ==
  ASSUME IInv, [Next]_vars, tx.pc \in {"recoverAuth", "rollbackAuth"}, outside' = outside,
         auth' # auth
  PROVE  RecoverRestoreAuth \/ RollbackAuth
<1> USE DEF At
<1>1. CASE Others
  BY <1>1, Counted
     DEF IInv, Others, RuntimeRefresh, RuntimeStart, RuntimeExit, AuthTouch, SwiftSaves, SwiftRebases,
         Login, SwiftActivation, Outside
<1>2. CASE BeginSome \/ Interrupt \/ UNCHANGED vars
  BY <1>2 DEF BeginSome, Begin, Interrupt, files, vars
<1>3. CASE Recover
  BY <1>3 DEF Recover, NothingToRecover, RecoverCommitted, RecoverRestoreStore, RecoverEnd,
              RecoverUncommitted, RecoverAmbiguous, files
<1>4. CASE Durable \/ Adopt
  BY <1>4 DEF Durable, DurableClear, FinishTransition, HealMismatch, RepairConfirmed, DurableBlocked,
              DurablePending, ResumeMismatch, ResumeObserve, ResumeRebind,
              Adopt, AdoptPlain, AdoptDegraded, AdoptStale, AdoptRefused, files
<1>5. CASE Commit
  BY <1>5 DEF Commit, Prepare, CommitStore, CommitStoreFails, CommitAuth, CommitAuthFails, RecordOwned,
              RecordOwnedFails, Verify, VerifyFails, files
<1>6. CASE Rollback
  BY <1>6 DEF Rollback, RollbackStore, RollbackUnproven, RollbackEnd, RestoreLost, files
<1>7. CASE Reload \/ TelemetryCommit
  BY <1>7 DEF Reload, Bind, BindRefused, Discover, ReloadRuntime, ReloadDone, ReloadFails, ReloadTimesOut,
              FinalizeConfirmed, FinalizeDegraded, FinalizeRefused, TelemetryCommit, Preflight,
              PreflightRefused, Publish, PublishRefused, CommitTelemetry, SettleTelemetry, files
<1> QED BY <1>1, <1>2, <1>3, <1>4, <1>5, <1>6, <1>7 DEF Next, Step

(* Undoing an activation never destroys a token that somebody else wrote   *)
(* to auth.json while it ran (restore_auth_file_if_owned).                 *)
THEOREM ForeignTokensSurvive == Spec => ForeignTokenSurvives
<1>1. ASSUME IInv, [Next]_vars, tx.pc \in {"recoverAuth", "rollbackAuth"}, outside' = outside,
             Fp(auth') # Fp(auth)
      PROVE  auth.stamp = 0
  <2>1. CASE RecoverRestoreAuth
    <3>1. auth \in {journal.ownAuth, journal.image.auth} /\ auth' = journal.image.auth
      BY <2>1 DEF RecoverRestoreAuth, RestoreAuth
    <3>2. tx.pc = "recoverAuth"
      BY <2>1 DEF RecoverRestoreAuth, At
    <3>3. Owns(journal.ownAuth, journal.own, journal.image) /\ journal.ownAuth # None
      BY <1>1, <3>2 DEF IInv, Knows, RecoverKnows, PreparedKnows
    <3> QED BY <1>1, <3>1, <3>3 DEF Owns
  <2>2. CASE RollbackAuth
    <3>1. auth \in {tx.ownAuth, tx.image.auth} /\ auth' = tx.image.auth
      BY <2>2 DEF RollbackAuth, RestoreAuth
    <3>2. tx.pc = "rollbackAuth"
      BY <2>2 DEF RollbackAuth, At
    <3>3. Owns(tx.ownAuth, tx.new, tx.image) /\ tx.ownAuth # None
      BY <1>1, <3>2 DEF IInv, Knows, CommitKnows, RollbackPcs
    <3> QED BY <1>1, <3>1, <3>3 DEF Owns
  <2>3. auth' # auth
    BY <1>1
  <2> QED BY <1>1, <2>1, <2>2, <2>3, RestoresOnly
<1>2. IInv /\ [Next]_vars =>
        [(At("recoverAuth") \/ At("rollbackAuth")) /\ outside' = outside /\ Fp(auth') # Fp(auth)
           => auth.stamp = 0]_vars
  BY <1>1 DEF At
<1> QED BY <1>2, Invariance, PTL DEF Spec, ForeignTokenSurvives
=============================================================================
