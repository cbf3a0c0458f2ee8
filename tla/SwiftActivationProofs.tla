------------------------ MODULE SwiftActivationProofs ------------------------
(***************************************************************************)
(* The inductive invariant of SwiftActivation and the properties that      *)
(* follow from it, for any set of accounts and any number of writes from   *)
(* outside.                                                                *)
(***************************************************************************)
EXTENDS SwiftActivation, TLAPS

CommitPcs == {"check", "store", "auth", "verify", "mark", "converge"}
TaskPcs == {"desktop", "cli", "finish", "confirm", "persist", "done"}
Pcs == {"idle", "prepared", "retry", "adopt"} \cup CommitPcs \cup TaskPcs
Kinds == {"none", "automatic", "operator", "recovery", "retry", "adopt"}
Maybe == Accounts \cup {None}

Replaced == [phase : Phases, target : Maybe, gen : 0 .. 3, detail : Details]
Operations ==
    [pc : Pcs, kind : Kinds, to : Maybe, from : Maybe, gen : 0 .. 3, saw : Maybe, before : Replaced,
     outcome : {"none", "current", "failed"}, topology : SUBSET Runtimes, owned : BOOLEAN]

(* Types: the state of the module's TypeOK, and the locals of an operation *)
(* and of an observation.                                                  *)
Types ==
    /\ TypeOK
    /\ op \in Operations
    /\ seen \in [st : {"none", "seen", "waiting"}, auth : Maybe]
    /\ seen.st = "waiting" => seen.auth \in Accounts
    /\ Held => op.to \in Accounts /\ op.gen \in Gens

(* An app that does not run holds no lease.                                *)
Asleep == ~up => ~Held

(* Before its commit an operation has written its preparing record, and    *)
(* knows the record that this one replaced.                                *)
CommitKnows ==
    op.pc \in CommitPcs \cup {"prepared"} =>
        /\ ~task /\ op.from \in Accounts /\ journal.target = op.to /\ journal.gen = op.gen
        /\ journal.phase = (IF op.pc = "converge" THEN "degraded" ELSE "preparing")
        /\ op.before \in Records /\ op.before.phase # "preparing"
        /\ op.kind = "recovery" => op.before.phase = "review"
        /\ op.pc = "prepared" => pending = None
        /\ op.pc # "prepared" => pending = op.to /\ shown.target = op.to /\ shown.gen = op.gen
        /\ op.pc = "mark" => store = op.to /\ (auth = op.to \/ login)

Own(rec) == rec.phase = "preparing" /\ rec.gen = op.gen

(* The convergence task stands on its target, and on no preparing record.  *)
TaskKnows ==
    op.pc \in TaskPcs =>
        /\ pending = op.to /\ configured = op.to /\ ~Own(journal) /\ ~Own(shown)
        /\ op.pc = "persist" => store = op.to /\ op.topology # {}

(* A retry and an adoption begin with nothing pending.                     *)
OthersKnow ==
    /\ op.pc \in {"retry", "adopt"} => pending = None /\ ~task /\ ~Own(journal) /\ ~Own(shown)
    /\ op.pc = "adopt" => journal.phase = "degraded"

(* The record in memory lags behind a preparing one only with a generation *)
(* of its own, or as the review that could not be written.                 *)
GenApart ==
    journal.phase = "preparing" /\ shown.gen = journal.gen => shown.phase \in {"preparing", "review"}

IInv == Types /\ Asleep /\ CommitKnows /\ TaskKnows /\ OthersKnow /\ GenApart /\ SplitGuarded

-----------------------------------------------------------------------------
(* Facts about the operators that every action uses.                       *)

(* There is always a generation that neither record uses.                  *)
LEMMA NewGenFacts == NewGen \in Gens /\ NewGen # journal.gen /\ NewGen # shown.gen
<1>1. \E g \in Gens : g \notin {journal.gen, shown.gen}
  <2>1. 1 \in Gens /\ 2 \in Gens /\ 3 \in Gens
    BY DEF Gens
  <2> QED BY <2>1
<1> QED BY <1>1 DEF NewGen

(* What a review leaves in memory and on disk.                             *)
LEMMA ReviewFacts ==
  ASSUME NEW a \in Accounts, NEW d \in Details, journal \in Records, Review(a, d)
  PROVE  /\ shown' \in Records /\ shown'.phase = "review" /\ shown'.gen = journal.gen
         /\ journal' \in Records /\ journal' \in {journal, shown'}
BY DEF Review, Record, Records, Phases

(* An operation that has ended knows nothing.                              *)
LEMMA IdleTyped == Idle \in Operations
BY DEF Idle, Operations, Replaced, Pcs, Kinds, Maybe, Record, Phases, Details

(* The locals of an operation that starts.                                 *)
LEMMA StartsTyped ==
  ASSUME NEW pc \in Pcs, NEW kind \in Kinds, NEW to \in Maybe, NEW from \in Maybe, NEW gen \in Gens,
         NEW saw \in Maybe, NEW before \in Replaced
  PROVE  [pc |-> pc, kind |-> kind, to |-> to, from |-> from, gen |-> gen, saw |-> saw,
          before |-> before, outcome |-> "none", topology |-> {}, owned |-> TRUE] \in Operations
<1>1. gen \in 0 .. 3
  BY DEF Gens
<1> QED BY <1>1 DEF Operations

(* An operation without a lease replaced no record.                        *)
LEMMA IdleReplaced == Idle.before \in Replaced
BY DEF Idle, Replaced, Maybe, Record, Phases, Details

(* A released lease satisfies every part about an operation.               *)
LEMMA IdleFacts ==
  ASSUME op' = Idle
  PROVE  /\ op'.pc = "idle" /\ op' \in Operations /\ ~Held'
         /\ Asleep' /\ CommitKnows' /\ TaskKnows' /\ OthersKnow'
<1>1. op'.pc = "idle" /\ ~Held'
  BY DEF Idle, Held
<1>2. op' \in Operations
  BY IdleTyped
<1> QED BY <1>1, <1>2 DEF Asleep, CommitKnows, TaskKnows, OthersKnow, CommitPcs, TaskPcs

(* The end of an operation frees the app if the operation owned it.        *)
LEMMA AbandonFacts ==
  ASSUME Types, Abandon
  PROVE  /\ op' = Idle /\ pending' \in Maybe /\ task' \in BOOLEAN
         /\ op.owned /\ pending = op.to => pending' = None /\ task' = FALSE
BY DEF Abandon, Release, Types, TypeOK, Maybe

(* An observation in flight is kept or dropped.                            *)
LEMMA KeepSeenFacts ==
  ASSUME Types, KeepSeen
  PROVE  /\ seen' \in [st : {"none", "seen", "waiting"}, auth : Maybe]
         /\ seen'.st = "waiting" => seen'.auth \in Accounts
BY DEF KeepSeen, Types, Unseen, Maybe

(* Fresh evidence leaves the runtimes with accounts.                       *)
LEMMA EvidenceFacts ==
  ASSUME NEW a \in Accounts, Evidence(a)
  PROVE  loaded' \in [Runtimes -> Accounts \union {None}] /\ auth = a /\ Running # {}
BY DEF Evidence

(* A step that touches no record, no credential and no operation.          *)
LEMMA Aside ==
  ASSUME IInv, UNCHANGED <<store, auth, journal, shown, up, configured, pending, task, op, login>>,
         fresh' \in BOOLEAN, outside' \in 0 .. MaxOutside,
         loaded' \in [Runtimes -> Accounts \union {None}],
         seen' \in [st : {"none", "seen", "waiting"}, auth : Maybe],
         seen'.st = "waiting" => seen'.auth \in Accounts
  PROVE  IInv'
<1>1. Types'
  BY DEF IInv, Types, TypeOK, Held
<1> QED BY <1>1 DEF IInv, Asleep, CommitKnows, TaskKnows, OthersKnow, GenApart, SplitGuarded, Held, Own

-----------------------------------------------------------------------------
(* The steps, one lemma for each group of actions.                         *)

(* Observations without an effect, evidence that expires, and runtimes     *)
(* that start and stop.                                                    *)
LEMMA AsideSteps ==
  ASSUME IInv,
         \/ Observe \/ Discard \/ Expire
         \/ \E r \in Runtimes : StartRuntime(r) \/ StopRuntime(r)
  PROVE  IInv'
<1> USE DEF durable, memory
<1>0. Types /\ TypeOK
  BY DEF IInv, Types
<1>1. CASE Observe
  BY <1>0, <1>1, Aside DEF Observe, TypeOK, Maybe
<1>2. CASE Discard
  BY <1>0, <1>2, Aside DEF Discard, TypeOK, Unseen, Maybe
<1>3. CASE Expire
  BY <1>0, <1>3, Aside, KeepSeenFacts DEF Expire, TypeOK
<1>4. CASE \E r \in Runtimes : StartRuntime(r) \/ StopRuntime(r)
  BY <1>0, <1>4, Aside DEF StartRuntime, StopRuntime, TypeOK, Types
<1> QED BY <1>1, <1>2, <1>3, <1>4

(* A login or logout anywhere; a whole activation by codexswitch-cli only  *)
(* while the lease is free.                                                *)
LEMMA OutsideSteps ==
  ASSUME IInv,
         \/ \E a \in Accounts \union {None} : Login(a)
         \/ \E a \in Accounts : RustActivate(a)
  PROVE  IInv'
<1>1. ASSUME NEW a \in Accounts \union {None}, Login(a)
      PROVE  IInv'
  <2> USE <1>1 DEF Login, memory
  <2>1. Types'
    BY BoundsAssumption DEF IInv, Types, TypeOK, Held
  <2> QED BY <2>1 DEF IInv, Asleep, CommitKnows, TaskKnows, OthersKnow, GenApart, SplitGuarded, Held, Own
<1>2. ASSUME NEW a \in Accounts, RustActivate(a)
      PROVE  IInv'
  <2>1. /\ op.pc = "idle" /\ store' = a /\ auth' = a /\ login' = FALSE
        /\ UNCHANGED <<journal, fresh, shown, up, configured, pending, task, op, seen>>
    BY <1>2 DEF RustActivate, memory, Held
  <2>2. /\ loaded' \in [Runtimes -> Accounts \union {None}]
        /\ outside' \in 0 .. MaxOutside
    BY <1>2, BoundsAssumption DEF RustActivate, IInv, Types, TypeOK
  <2>3. Types'
    BY <2>1, <2>2 DEF IInv, Types, TypeOK, Held
  <2>4. Asleep' /\ CommitKnows' /\ TaskKnows' /\ OthersKnow'
    BY <2>1 DEF Asleep, Held, CommitKnows, TaskKnows, OthersKnow, CommitPcs, TaskPcs
  <2>5. GenApart' /\ SplitGuarded'
    BY <2>1 DEF IInv, GenApart, SplitGuarded
  <2> QED BY <2>3, <2>4, <2>5 DEF IInv
<1> QED BY <1>1, <1>2

(* A crash keeps what is on disk; the launch reads it and makes a record   *)
(* that does not stand over half a swap.                                   *)
LEMMA LaunchFacts ==
  ASSUME Types, SplitGuarded
  PROVE  /\ Restored \in Records
         /\ Restored.phase = "confirmed" => journal.phase = "confirmed"
         /\ ~login /\ store # auth => Restored.phase \in {"preparing", "review"}
BY NewGenFacts
   DEF Restored, Handoff, Degraded, Record, Records, Files, SplitGuarded, Types, TypeOK, Phases, Details

(* A crash, and the recovery of the journal at the next launch.            *)
LEMMA CrashSteps ==
  ASSUME IInv, Crash \/ Launch
  PROVE  IInv'
<1>1. CASE Crash
  <2>1. Types'
    BY <1>1, IdleFacts DEF Crash, durable, IInv, Types, TypeOK, Unseen, Maybe
  <2>2. GenApart' /\ SplitGuarded'
    BY <1>1 DEF Crash, durable, IInv, GenApart, SplitGuarded
  <2> QED BY <1>1, <2>1, <2>2, IdleFacts DEF Crash, IInv
<1>2. CASE Launch
  <2>1. Restored \in Records /\ (~login /\ store # auth => Restored.phase \in {"preparing", "review"})
    BY LaunchFacts DEF IInv
  <2>2. Types'
    BY <1>2, <2>1 DEF Launch, IInv, Types, TypeOK, Held
  <2>3. GenApart' /\ SplitGuarded'
    BY <1>2, <2>1 DEF Launch, GenApart, SplitGuarded
  <2> QED BY <1>2, <2>2, <2>3
          DEF Launch, IInv, Asleep, Held, CommitKnows, TaskKnows, OthersKnow, CommitPcs, TaskPcs
<1> QED BY <1>1, <1>2

-----------------------------------------------------------------------------
(* Steps that end an operation, or are taken while there is none.          *)

(* With the lease free after the step, only the types, the lag of the copy *)
(* in memory and the cover of a split are left to show.                    *)
LEMMA Rests ==
  ASSUME IInv, TypeOK', op' = Idle \/ (~Held /\ op' = op), GenApart', SplitGuarded',
         \/ KeepSeen
         \/ /\ seen' \in [st : {"none", "seen", "waiting"}, auth : Maybe]
            /\ seen'.st = "waiting" => seen'.auth \in Accounts
  PROVE  IInv'
<1>1. op' \in Operations /\ ~Held' /\ Asleep' /\ CommitKnows' /\ TaskKnows' /\ OthersKnow'
  <2>1. CASE op' = Idle
    BY <2>1, IdleFacts
  <2>2. CASE ~Held /\ op' = op
    BY <2>2 DEF IInv, Types, Held, Asleep, CommitKnows, TaskKnows, OthersKnow, CommitPcs, TaskPcs
  <2> QED BY <2>1, <2>2
<1>2. /\ seen' \in [st : {"none", "seen", "waiting"}, auth : Maybe]
      /\ seen'.st = "waiting" => seen'.auth \in Accounts
  BY KeepSeenFacts DEF IInv
<1> QED BY <1>1, <1>2 DEF IInv, Types

(* A review never uncovers a split.                                        *)
LEMMA ReviewKeeps ==
  ASSUME IInv, NEW a \in Accounts, NEW d \in Details, Review(a, d),
         UNCHANGED <<store, auth, login>>
  PROVE  /\ journal' \in Records /\ shown' \in Records /\ shown'.phase = "review"
         /\ journal' = journal \/ journal'.phase = "review"
         /\ GenApart' /\ SplitGuarded'
<1>1. /\ journal' \in Records /\ shown' \in Records /\ shown'.phase = "review"
      /\ journal' \in {journal, shown'}
  BY ReviewFacts DEF IInv, Types, TypeOK
<1>2. GenApart' /\ SplitGuarded'
  BY <1>1 DEF IInv, GenApart, SplitGuarded
<1> QED BY <1>1, <1>2

(* The same for a task that yields to the operation with the lease.        *)
LEMMA TryReviewKeeps ==
  ASSUME IInv, NEW a \in Accounts, NEW d \in Details, TryReview(a, d),
         UNCHANGED <<store, auth, login>>
  PROVE  /\ journal' \in Records /\ shown' \in Records
         /\ GenApart' /\ SplitGuarded'
         /\ Held => UNCHANGED <<journal, shown>>
<1>1. CASE Held
  BY <1>1 DEF TryReview, IInv, Types, TypeOK, GenApart, SplitGuarded
<1>2. CASE ~Held
  BY <1>2, ReviewKeeps DEF TryReview
<1> QED BY <1>1, <1>2

(* The watcher's reviews, and a permit for a policy.                       *)
LEMMA ReviewSteps ==
  ASSUME IInv, ObserveAbsent \/ ReviewConflict \/ RequireFreshPermit
  PROVE  IInv'
<1>0. /\ Types /\ TypeOK /\ configured \in Accounts \union {None}
      /\ {"absent", "conflict", "changed", "other"} \subseteq Details
  BY DEF IInv, Types, TypeOK, Details
<1>1. CASE ObserveAbsent
  <2>1. /\ configured \in Accounts /\ TryReview(configured, "absent") /\ seen' = Unseen
        /\ UNCHANGED <<store, auth, fresh, up, configured, pending, task, op, loaded, login, outside>>
    BY <1>0, <1>1 DEF ObserveAbsent
  <2>2. /\ journal' \in Records /\ shown' \in Records /\ GenApart' /\ SplitGuarded'
        /\ Held => UNCHANGED <<journal, shown>>
    BY <1>0, <2>1, TryReviewKeeps
  <2>3. TypeOK' /\ seen' \in [st : {"none", "seen", "waiting"}, auth : Maybe] /\ seen'.st # "waiting"
    BY <1>0, <2>1, <2>2 DEF TypeOK, Unseen, Maybe
  <2>4. CASE ~Held
    BY <2>1, <2>2, <2>3, <2>4, Rests
  <2>5. CASE Held
    BY <1>0, <2>1, <2>2, <2>3, <2>5, Aside DEF TypeOK
  <2> QED BY <2>4, <2>5
<1>2. CASE ReviewConflict
  <2>1. /\ seen.st = "waiting" /\ ~Held /\ seen' = Unseen
        /\ Review(seen.auth, "conflict") \/ UNCHANGED <<journal, shown>>
        /\ UNCHANGED <<store, auth, fresh, up, configured, pending, task, op, loaded, login, outside>>
    BY <1>2 DEF ReviewConflict
  <2>2. seen.auth \in Accounts
    BY <1>0, <2>1 DEF Types
  <2>3. journal' \in Records /\ shown' \in Records /\ GenApart' /\ SplitGuarded'
    <3>1. CASE Review(seen.auth, "conflict")
      BY <1>0, <2>1, <2>2, <3>1, ReviewKeeps
    <3>2. CASE UNCHANGED <<journal, shown>>
      BY <1>0, <2>1, <3>2 DEF IInv, TypeOK, GenApart, SplitGuarded
    <3> QED BY <2>1, <3>1, <3>2
  <2>4. TypeOK' /\ seen' \in [st : {"none", "seen", "waiting"}, auth : Maybe] /\ seen'.st # "waiting"
    BY <1>0, <2>1, <2>3 DEF TypeOK, Unseen, Maybe
  <2> QED BY <2>1, <2>3, <2>4, Rests
<1>3. CASE RequireFreshPermit
  <2>1. /\ ~Held /\ shown.target \in Accounts /\ KeepSeen
        /\ UNCHANGED <<store, auth, up, configured, pending, task, op, login, outside>>
    BY <1>0, <1>3 DEF RequireFreshPermit, TypeOK, Records
  <2>2. /\ journal' \in Records /\ shown' \in Records /\ GenApart' /\ SplitGuarded'
        /\ fresh' \in BOOLEAN /\ loaded' \in [Runtimes -> Accounts \union {None}]
    <3>1. CASE \E d \in {"changed", "other"} : Review(shown.target, d)
      <4>1. fresh' \in BOOLEAN /\ loaded' \in [Runtimes -> Accounts \union {None}]
        <5>1. CASE Evidence(configured)
          BY <1>0, <1>3, <2>1, <5>1 DEF RequireFreshPermit, Evidence, TypeOK
        <5>2. CASE ~Evidence(configured)
          BY <1>0, <1>3, <5>2 DEF RequireFreshPermit, TypeOK
        <5> QED BY <5>1, <5>2
      <4> QED BY <1>0, <2>1, <3>1, <4>1, ReviewKeeps
    <3>2. CASE ~\E d \in {"changed", "other"} : Review(shown.target, d)
      <4>1. Evidence(configured) /\ configured = shown.target /\ fresh' = TRUE /\ UNCHANGED <<journal, shown>>
        BY <1>3, <3>2 DEF RequireFreshPermit
      <4> QED BY <1>0, <2>1, <4>1, EvidenceFacts DEF IInv, TypeOK, GenApart, SplitGuarded
    <3> QED BY <3>1, <3>2
  <2>3. TypeOK'
    BY <1>0, <2>1, <2>2 DEF TypeOK
  <2> QED BY <2>1, <2>2, <2>3, Rests
<1> QED BY <1>1, <1>2, <1>3

-----------------------------------------------------------------------------
(* Steps that begin an operation, and those that only change what is in    *)
(* memory.                                                                 *)

(* A swap takes the lease and writes its preparing record.                 *)
LEMMA BeginStep ==
  ASSUME IInv, NEW kind \in {"automatic", "operator", "recovery"}, NEW to \in Accounts, Begin(kind, to)
  PROVE  IInv'
<1> DEFINE from == IF kind = "recovery" THEN store ELSE configured
           before == IF Expired THEN Degraded(journal.target, journal.gen) ELSE journal
<1>0. Types /\ TypeOK /\ NewGen \in Gens /\ NewGen # journal.gen /\ NewGen # shown.gen
  BY NewGenFacts DEF IInv, Types
<1>1. /\ ~Held /\ up /\ pending = None /\ task = FALSE /\ from \in Accounts /\ KeepSeen
      /\ journal' = Record("preparing", to, NewGen, "none") /\ configured' = from
      /\ UNCHANGED <<store, auth, fresh, up, shown, pending, task, loaded, login, outside>>
  BY <1>0 DEF Begin, Free, TypeOK
<1>2. before \in Records /\ before.phase # "preparing" /\ (kind = "recovery" => before.phase = "review")
  BY <1>0 DEF Begin, Permits, Expired, Degraded, Record, Records, Phases, Details, TypeOK
<1>3. op' = [pc |-> "prepared", kind |-> kind, to |-> to, from |-> from, gen |-> NewGen,
             saw |-> IF kind = "recovery" THEN auth ELSE None, before |-> before, outcome |-> "none",
             topology |-> {}, owned |-> TRUE]
  BY DEF Begin, Idle
<1>4. /\ op'.pc = "prepared" /\ op'.kind = kind /\ op'.to = to /\ op'.from = from /\ op'.gen = NewGen
      /\ op'.before = before /\ op' \in Operations
  <2>1. "prepared" \in Pcs /\ kind \in Kinds /\ to \in Maybe /\ from \in Maybe
        /\ (IF kind = "recovery" THEN auth ELSE None) \in Maybe
    BY <1>0, <1>1 DEF Pcs, Kinds, Maybe, TypeOK
  <2>2. before \in Replaced
    BY <1>2 DEF Records, Replaced, Gens, Maybe
  <2>3. op' \in Operations
    BY <1>0, <1>3, <2>1, <2>2, StartsTyped
  <2> QED BY <1>3, <2>3
<1>5. journal' \in Records /\ journal'.phase = "preparing" /\ journal'.target = to /\ journal'.gen = NewGen
  BY <1>0, <1>1 DEF Record, Records, Phases, Details
<1>6. Types'
  BY <1>0, <1>1, <1>4, <1>5, KeepSeenFacts DEF Types, TypeOK
<1>7. Asleep' /\ CommitKnows' /\ TaskKnows' /\ OthersKnow'
  BY <1>1, <1>2, <1>4, <1>5 DEF Asleep, CommitKnows, TaskKnows, OthersKnow, CommitPcs, TaskPcs
<1>8. GenApart' /\ SplitGuarded'
  BY <1>0, <1>1, <1>5 DEF GenApart, SplitGuarded
<1> QED BY <1>6, <1>7, <1>8 DEF IInv

(* The demotion of an expired confirmation.                                *)
LEMMA DemoteStep ==
  ASSUME IInv, Demote
  PROVE  IInv'
<1>1. /\ ~Held /\ journal.phase = "confirmed" /\ journal' = Degraded(journal.target, journal.gen)
      /\ shown' = journal' /\ KeepSeen
      /\ UNCHANGED <<store, auth, fresh, up, configured, pending, task, op, loaded, login, outside>>
  BY DEF Demote, Free, Expired
<1>2. journal' \in Records /\ shown' = journal'
  BY <1>1 DEF IInv, Types, TypeOK, Degraded, Record, Records, Phases, Details
<1>3. TypeOK'
  BY <1>1, <1>2 DEF IInv, Types, TypeOK
<1>4. GenApart' /\ SplitGuarded'
  BY <1>1, <1>2 DEF IInv, GenApart, SplitGuarded
<1> QED BY <1>1, <1>3, <1>4, Rests

(* The copy in memory catches up with the disk.                            *)
LEMMA LoadStep ==
  ASSUME IInv, LoadJournal
  PROVE  IInv'
<1>1. /\ shown' = journal /\ KeepSeen
      /\ UNCHANGED <<store, auth, journal, fresh, up, configured, pending, task, op, loaded, login, outside>>
  BY DEF LoadJournal, durable
<1>2. Types'
  BY <1>1, KeepSeenFacts DEF IInv, Types, TypeOK, Held
<1> QED BY <1>1, <1>2 DEF IInv, Asleep, Held, CommitKnows, TaskKnows, OthersKnow, Own, GenApart, SplitGuarded

(* An observation that supersedes the operation that runs.                 *)
LEMMA ConflictStep ==
  ASSUME IInv, ObserveConflict
  PROVE  IInv'
<1>0. Types /\ TypeOK /\ "conflict" \in Details
  BY DEF IInv, Types, Details
<1>1. /\ UNCHANGED <<store, auth, fresh, up, configured, pending, task, loaded, login, outside>>
      /\ ConflictTarget \in Accounts
  BY <1>0 DEF ObserveConflict, ConflictTarget, Types, TypeOK, Maybe, Records
<1>2. CASE Held
  <2>1. op' = [op EXCEPT !.owned = FALSE] /\ UNCHANGED <<journal, shown>>
    BY <1>2 DEF ObserveConflict, TryReview
  <2>2. /\ op' \in Operations /\ op'.pc = op.pc /\ op'.kind = op.kind /\ op'.to = op.to /\ op'.gen = op.gen
        /\ op'.from = op.from /\ op'.before = op.before /\ op'.topology = op.topology
    BY <1>0, <2>1 DEF Types, Operations
  <2>3. seen' \in {Unseen, [st |-> "waiting", auth |-> ConflictTarget]}
    BY DEF ObserveConflict
  <2>4. Types'
    BY <1>0, <1>1, <2>1, <2>2, <2>3 DEF Types, TypeOK, Held, Unseen, Maybe
  <2> QED BY <1>1, <2>1, <2>2, <2>4
          DEF IInv, Asleep, Held, CommitKnows, TaskKnows, OthersKnow, Own, GenApart, SplitGuarded
<1>3. CASE ~Held
  <2>1. op' = op /\ seen' = Unseen /\ TryReview(ConflictTarget, "conflict")
    BY <1>3 DEF ObserveConflict
  <2>2. journal' \in Records /\ shown' \in Records /\ GenApart' /\ SplitGuarded'
    BY <1>0, <1>1, <2>1, TryReviewKeeps
  <2>3. TypeOK' /\ seen' \in [st : {"none", "seen", "waiting"}, auth : Maybe] /\ seen'.st # "waiting"
    BY <1>0, <1>1, <2>1, <2>2 DEF TypeOK, Unseen, Maybe
  <2> QED BY <1>3, <2>1, <2>2, <2>3, Rests
<1> QED BY <1>2, <1>3

(* The locals of a retry that starts.                                      *)
LEMMA RetryTyped ==
  ASSUME NEW a \in Accounts, NEW g \in Gens, op' = [Retry(a) EXCEPT !.gen = g]
  PROVE  op' \in Operations /\ op'.pc = "retry" /\ op'.to = a /\ op'.gen = g
<1> DEFINE started == [pc |-> "retry", kind |-> "retry", to |-> a, from |-> a, gen |-> g,
                       saw |-> None, before |-> Idle.before, outcome |-> "none",
                       topology |-> {}, owned |-> TRUE]
<1>1. started \in Operations
  <2>1. "retry" \in Pcs /\ "retry" \in Kinds /\ a \in Maybe /\ None \in Maybe /\ g \in Gens
    BY DEF Pcs, Kinds, Maybe
  <2> QED BY <2>1, IdleReplaced, StartsTyped
<1>2. started.pc = "retry" /\ started.to = a /\ started.gen = g
  OBVIOUS
<1>3. op' = started
  BY DEF Retry, Idle
<1> HIDE DEF started
<1> QED BY <1>1, <1>2, <1>3

(* A retry: the operation it starts, with the record it keeps or writes.   *)
LEMMA RetryStarts ==
  ASSUME IInv, NEW g \in Gens, configured \in Accounts,
         pending = None, task = FALSE, up,
         op' = [Retry(configured) EXCEPT !.gen = g],
         UNCHANGED <<store, auth, fresh, up, configured, pending, task, loaded, login, outside>>,
         journal' \in Records, shown' \in Records, GenApart', SplitGuarded',
         ~(journal'.phase = "preparing" /\ journal'.gen = g), shown'.phase # "preparing",
         \/ KeepSeen
         \/ seen' = Unseen
  PROVE  IInv'
<1>1. op' \in Operations /\ op'.pc = "retry" /\ op'.to = configured /\ op'.gen = g
  BY RetryTyped
<1>2. /\ seen' \in [st : {"none", "seen", "waiting"}, auth : Maybe]
      /\ seen'.st = "waiting" => seen'.auth \in Accounts
  BY KeepSeenFacts DEF IInv, Unseen, Maybe
<1>3. Types'
  BY <1>1, <1>2 DEF IInv, Types, TypeOK
<1>4. Asleep' /\ CommitKnows' /\ TaskKnows' /\ OthersKnow'
  BY <1>1 DEF Asleep, CommitKnows, TaskKnows, OthersKnow, CommitPcs, TaskPcs, Own
<1> QED BY <1>3, <1>4 DEF IInv

(* The retries of the configured account, before their task starts.        *)
LEMMA RetrySteps ==
  ASSUME IInv, RetryAutomatic \/ RetryManual \/ RecoverObserved
  PROVE  IInv'
<1>0. Types /\ TypeOK /\ NewGen \in Gens /\ configured \in Accounts \union {None}
  BY NewGenFacts DEF IInv, Types, TypeOK
<1>1. CASE RetryAutomatic
  <2>1. /\ configured \in Accounts /\ up /\ pending = None /\ task = FALSE /\ shown.phase = "degraded"
        /\ op' = [Retry(configured) EXCEPT !.gen = shown.gen] /\ KeepSeen
        /\ UNCHANGED <<store, auth, journal, shown, fresh, up, configured, pending, task, loaded, login, outside>>
    BY <1>0, <1>1 DEF RetryAutomatic, Free, durable, memory, TypeOK
  <2>2. /\ shown.gen \in Gens /\ journal' \in Records /\ shown' \in Records
        /\ GenApart' /\ SplitGuarded'
        /\ ~(journal'.phase = "preparing" /\ journal'.gen = shown.gen)
    BY <1>0, <2>1 DEF IInv, TypeOK, Records, GenApart, SplitGuarded
  <2> QED BY <2>1, <2>2, RetryStarts
<1>2. CASE RetryManual \/ RecoverObserved
  <2>1. /\ configured \in Accounts /\ up /\ pending = None /\ task = FALSE
        /\ op' = [Retry(configured) EXCEPT !.gen = NewGen]
        /\ KeepSeen \/ seen' = Unseen
        /\ journal' = Degraded(configured, NewGen) /\ shown' = journal'
        /\ UNCHANGED <<store, auth, fresh, up, configured, pending, task, loaded, login, outside>>
        /\ journal.phase = "degraded" \/ store = auth
    BY <1>0, <1>2 DEF RetryManual, RecoverObserved, Free, TypeOK, Files
  <2>2. journal' \in Records /\ journal'.phase = "degraded"
    BY <1>0, <2>1 DEF Degraded, Record, Records, Phases, Details
  <2>3. GenApart' /\ SplitGuarded'
    BY <2>1, <2>2 DEF IInv, GenApart, SplitGuarded
  <2> QED BY <1>0, <2>1, <2>2, <2>3, RetryStarts
<1> QED BY <1>1, <1>2

(* The retry goes on to the convergence task, or ends.                     *)
LEMMA ContinueRetryStep ==
  ASSUME IInv, ContinueRetry
  PROVE  IInv'
<1>0. Types /\ TypeOK /\ "inconsistent" \in Details /\ Held /\ op.pc = "retry"
  BY DEF IInv, Types, Details, Held, ContinueRetry
<1>1. /\ KeepSeen /\ UNCHANGED <<store, auth, fresh, up, configured, loaded, login, outside>>
  BY DEF ContinueRetry
<1>2. CASE /\ op.owned /\ Files(op.to) /\ Matches(shown, "degraded") /\ configured = op.to
           /\ pending' = op.to /\ task' = TRUE /\ Goto("desktop")
           /\ UNCHANGED <<journal, shown>>
  <2>1. op' \in Operations /\ op'.pc = "desktop" /\ op'.to = op.to /\ op'.gen = op.gen
    BY <1>0, <1>2 DEF Goto, Types, Operations, Pcs, TaskPcs
  <2>2. Types'
    BY <1>0, <1>1, <1>2, <2>1, KeepSeenFacts DEF Types, TypeOK
  <2>3. Asleep' /\ CommitKnows' /\ TaskKnows' /\ OthersKnow'
    BY <1>0, <1>1, <1>2, <2>1
       DEF IInv, Asleep, CommitKnows, TaskKnows, OthersKnow, CommitPcs, TaskPcs, Own
  <2>4. GenApart' /\ SplitGuarded'
    BY <1>1, <1>2 DEF IInv, GenApart, SplitGuarded
  <2> QED BY <2>2, <2>3, <2>4 DEF IInv
<1>3. CASE /\ op' = Idle /\ UNCHANGED <<pending, task>>
           /\ IF op.owned THEN Review(op.to, "inconsistent") ELSE UNCHANGED <<journal, shown>>
  <2>1. journal' \in Records /\ shown' \in Records /\ GenApart' /\ SplitGuarded'
    <3>1. CASE op.owned
      BY <1>0, <1>1, <1>3, <3>1, ReviewKeeps DEF Types
    <3>2. CASE ~op.owned
      BY <1>0, <1>1, <1>3, <3>2 DEF IInv, TypeOK, GenApart, SplitGuarded
    <3> QED BY <3>1, <3>2
  <2>2. TypeOK'
    BY <1>0, <1>1, <1>3, <2>1 DEF TypeOK
  <2> QED BY <1>1, <1>3, <2>1, <2>2, Rests
<1> QED BY <1>2, <1>3 DEF ContinueRetry

(* The adoption of a handoff: the files of another writer agree.           *)
LEMMA AdoptSteps ==
  ASSUME IInv, Adopt \/ FinishAdopt
  PROVE  IInv'
<1>0. Types /\ TypeOK /\ NewGen \in Gens /\ "inconsistent" \in Details
  BY NewGenFacts DEF IInv, Types, Details
<1>1. CASE Adopt
  <2>1. /\ up /\ pending = None /\ task = FALSE /\ seen.auth \in Accounts /\ seen' = Unseen
        /\ op' = [Idle EXCEPT !.pc = "adopt", !.kind = "adopt", !.to = seen.auth, !.gen = NewGen,
                              !.owned = TRUE]
        /\ journal' = Degraded(seen.auth, NewGen) /\ store = auth
        /\ UNCHANGED <<store, auth, fresh, up, configured, shown, pending, task, loaded, login, outside>>
        /\ shown.phase # "preparing"
    BY <1>0, <1>1 DEF Adopt, Adoptable, Free, Files, memory, Types, Maybe
  <2>7. op' = [pc |-> "adopt", kind |-> "adopt", to |-> seen.auth, from |-> None, gen |-> NewGen,
               saw |-> None, before |-> Idle.before, outcome |-> "none",
               topology |-> {}, owned |-> TRUE]
    BY <2>1 DEF Idle
  <2>2. op' \in Operations /\ op'.pc = "adopt" /\ op'.to = seen.auth /\ op'.gen = NewGen
    <3>1. "adopt" \in Pcs /\ "adopt" \in Kinds /\ seen.auth \in Maybe /\ None \in Maybe
      BY <2>1 DEF Pcs, Kinds, Maybe
    <3>2. op' \in Operations
      BY <1>0, <2>7, <3>1, IdleReplaced, StartsTyped
    <3> QED BY <2>7, <3>2
  <2>3. journal' \in Records /\ journal'.phase = "degraded"
    BY <1>0, <2>1 DEF Degraded, Record, Records, Phases, Details
  <2>4. Types'
    BY <1>0, <2>1, <2>2, <2>3 DEF Types, TypeOK, Unseen, Maybe
  <2>5. Asleep' /\ CommitKnows' /\ TaskKnows' /\ OthersKnow'
    BY <2>1, <2>2, <2>3 DEF Asleep, CommitKnows, TaskKnows, OthersKnow, CommitPcs, TaskPcs, Own
  <2>6. GenApart' /\ SplitGuarded'
    BY <2>1, <2>3 DEF GenApart, SplitGuarded
  <2> QED BY <2>4, <2>5, <2>6 DEF IInv
<1>2. CASE FinishAdopt
  <2>1. /\ op.pc = "adopt" /\ op' = Idle /\ KeepSeen /\ op.to \in Accounts
        /\ UNCHANGED <<store, auth, fresh, up, pending, task, loaded, login, outside>>
        /\ configured' \in {configured, op.to}
    BY <1>0, <1>2 DEF FinishAdopt, Held, Types
  <2>2. journal' \in Records /\ shown' \in Records /\ GenApart' /\ SplitGuarded'
    <3>1. CASE Review(op.to, "inconsistent")
      BY <1>0, <2>1, <3>1, ReviewKeeps
    <3>2. CASE shown' = journal /\ journal' = journal
      BY <1>0, <2>1, <3>2 DEF IInv, TypeOK, GenApart, SplitGuarded
    <3> QED BY <1>2, <3>1, <3>2 DEF FinishAdopt
  <2>3. TypeOK'
    BY <1>0, <2>1, <2>2 DEF TypeOK
  <2> QED BY <2>1, <2>2, <2>3, Rests
<1> QED BY <1>1, <1>2

-----------------------------------------------------------------------------
(* The commit.                                                             *)

(* An operation that goes on keeps its locals.                             *)
LEMMA GotoFacts ==
  ASSUME Types, NEW pc \in Pcs, Goto(pc)
  PROVE  /\ op' \in Operations /\ op'.pc = pc /\ op'.kind = op.kind /\ op'.to = op.to /\ op'.from = op.from
         /\ op'.gen = op.gen /\ op'.before = op.before /\ op'.outcome = op.outcome
         /\ op'.topology = op.topology /\ op'.owned = op.owned
BY DEF Goto, Types, Operations

(* A failed effect puts back the record that the preparation replaced,     *)
(* records a review, or leaves everything as it is; and frees the app that *)
(* it still owns.                                                          *)
LEMMA FailFacts ==
  ASSUME IInv, op.pc \in CommitPcs, NEW d \in {"fileCommit", "other"}, NEW s \in Accounts, Fail(d, s)
  PROVE  /\ op' = Idle /\ pending' \in Maybe /\ task' \in BOOLEAN
         /\ store' \in Accounts /\ journal' \in Records /\ shown' \in Records /\ GenApart'
         /\ \/ journal'.phase = "review"
            \/ journal' = op.before /\ Files(op.before.target) /\ store' = s /\ op.pc = "check"
            \/ journal' = journal /\ store' = s
         /\ op.owned => /\ pending' = None /\ task' = FALSE
                        /\ ~(shown'.phase = "preparing" /\ shown'.gen = op.gen)
         /\ ~op.owned => store' = s /\ UNCHANGED <<journal, shown>>
<1>0. /\ Types /\ TypeOK /\ CommitKnows /\ GenApart /\ d \in Details /\ "changed" \in Details
      /\ op.to \in Accounts /\ op.pc # "prepared" /\ op.owned \in BOOLEAN
  BY DEF IInv, Types, Details, Held, CommitPcs, Operations
<1>1. /\ ~task /\ op.from \in Accounts /\ pending = op.to /\ shown.target = op.to /\ shown.gen = op.gen
      /\ op.before \in Records /\ op.before.phase # "preparing" /\ op.before.target \in Accounts
      /\ op.kind = "recovery" => op.before.phase = "review"
  BY <1>0 DEF CommitKnows, Records
<1>2. /\ op' = Idle /\ pending' \in Maybe /\ task' \in BOOLEAN
      /\ op.owned => pending' = None /\ task' = FALSE
  BY <1>0, <1>1, AbandonFacts DEF Fail
<1>3. ASSUME Restore, op.owned
      PROVE  /\ journal' \in Records /\ shown' \in Records /\ GenApart' /\ shown'.phase # "preparing"
             /\ \/ journal' = op.before \/ journal'.phase = "review"
                \/ journal' = journal /\ op.kind # "recovery"
  <2>1. CASE journal' = op.before /\ shown' = op.before
    BY <1>1, <2>1 DEF GenApart
  <2>2. CASE op.kind # "recovery" /\ Review(op.before.target, "changed")
    <3>1. /\ shown' \in Records /\ shown'.phase = "review"
          /\ journal' \in Records /\ journal' \in {journal, shown'}
      BY <1>0, <1>1, <2>2, ReviewFacts DEF TypeOK
    <3> QED BY <2>2, <3>1 DEF GenApart
  <2> QED BY <1>3, <2>1, <2>2 DEF Restore
<1>4. CASE Compensable /\ store' = op.from /\ Restore
  BY <1>1, <1>2, <1>3, <1>4 DEF Compensable
<1>5. CASE ~Compensable /\ store' = s /\ Restorable(s) /\ Restore
  <2>1. op.owned /\ (op.kind # "recovery" => op.pc = "check" /\ Files(op.before.target))
    BY <1>5 DEF Restorable
  <2> QED BY <1>1, <1>2, <1>3, <1>5, <2>1
<1>6. CASE store' = s /\ Stop(d)
  <2>1. CASE op.owned
    <3>1. Review(op.to, d)
      BY <1>1, <1>6, <2>1 DEF Stop
    <3>2. /\ shown' \in Records /\ shown'.phase = "review"
          /\ journal' \in Records /\ journal' \in {journal, shown'}
      BY <1>0, <3>1, ReviewFacts DEF TypeOK
    <3> QED BY <1>2, <1>6, <2>1, <3>2 DEF GenApart
  <2>2. CASE ~op.owned
    BY <1>0, <1>2, <1>6, <2>2 DEF Stop, TypeOK, GenApart
  <2> QED BY <1>0, <2>1, <2>2
<1> QED BY <1>4, <1>5, <1>6 DEF Fail

(* What a failed effect has to show itself: that the files it leaves are   *)
(* still covered by the record of the operation.                           *)
LEMMA FailKeeps ==
  ASSUME IInv, op.pc \in CommitPcs, NEW d \in {"fileCommit", "other"}, NEW s \in Accounts, Fail(d, s),
         UNCHANGED <<fresh, up, outside>>, KeepSeen,
         auth' \in Maybe, login' \in BOOLEAN, configured' \in Maybe,
         loaded' \in [Runtimes -> Accounts \union {None}],
         ~login' /\ s # auth' => journal.phase \in {"preparing", "review"},
         op.pc = "check" => auth' = auth /\ s = store
  PROVE  IInv'
<1>1. /\ op' = Idle /\ pending' \in Maybe /\ task' \in BOOLEAN
      /\ store' \in Accounts /\ journal' \in Records /\ shown' \in Records /\ GenApart'
      /\ \/ journal'.phase = "review"
         \/ journal' = op.before /\ Files(op.before.target) /\ store' = s /\ op.pc = "check"
         \/ journal' = journal /\ store' = s
  BY FailFacts
<1>2. TypeOK'
  BY <1>1 DEF IInv, Types, TypeOK, Maybe
<1>3. SplitGuarded'
  BY <1>1 DEF SplitGuarded, Files
<1> QED BY <1>1, <1>2, <1>3, Rests

(* One step of the commit that goes on.                                    *)
LEMMA CommitGoes ==
  ASSUME IInv, op.pc \in CommitPcs \ {"converge"}, NEW pc \in CommitPcs, Goto(pc),
         UNCHANGED <<shown, pending, task, up, fresh, outside>>, KeepSeen,
         journal' \in Records, journal'.target = op.to, journal'.gen = op.gen,
         journal'.phase = (IF pc = "converge" THEN "degraded" ELSE "preparing"),
         pc = "mark" => store' = op.to /\ (auth' = op.to \/ login'),
         pc = "converge" => (~login' => store' = auth'),
         store' \in Accounts, auth' \in Maybe, login' \in BOOLEAN, configured' \in Maybe,
         loaded' \in [Runtimes -> Accounts \union {None}]
  PROVE  IInv'
<1>0. Types /\ TypeOK /\ CommitKnows /\ GenApart /\ op.pc \in CommitPcs /\ op.pc # "converge"
      /\ op.pc # "prepared" /\ pc # "prepared" /\ Held /\ pc \notin TaskPcs \cup {"idle", "retry", "adopt"} /\ pc \in Pcs
  BY DEF IInv, Types, CommitPcs, TaskPcs, Held, Pcs
<1>1. /\ op' \in Operations /\ op'.pc = pc /\ op'.kind = op.kind /\ op'.to = op.to /\ op'.from = op.from
      /\ op'.gen = op.gen /\ op'.before = op.before
  BY <1>0, GotoFacts
<1>2. Types'
  BY <1>0, <1>1, KeepSeenFacts DEF Types, TypeOK, Held, Maybe
<1>3. CommitKnows'
  BY <1>0, <1>1 DEF CommitKnows
<1>4. Asleep' /\ TaskKnows' /\ OthersKnow'
  BY <1>0, <1>1 DEF IInv, Asleep, Held, TaskKnows, OthersKnow
<1>5. GenApart' /\ SplitGuarded'
  BY <1>0, <1>1 DEF GenApart, SplitGuarded, CommitKnows
<1> QED BY <1>2, <1>3, <1>4, <1>5 DEF IInv

(* The preparing record is there when a commit step goes on.               *)
LEMMA PreparingFacts ==
  ASSUME IInv, Preparing
  PROVE  /\ op.owned /\ pending = op.to /\ configured \in {op.from, op.to}
         /\ journal.phase = "preparing" /\ journal.target = op.to /\ journal.gen = op.gen
         /\ journal \in Records
BY DEF Preparing, Authorized, WorkIsCurrent, Matches, IInv, Types, TypeOK

(* The effects of the commit, each followed or undone.                     *)
LEMMA CommitSteps ==
  ASSUME IInv, CheckSource \/ PersistStore \/ PersistAuth \/ Publish
  PROVE  IInv'
<1>0. /\ Types /\ TypeOK /\ CommitKnows /\ SplitGuarded /\ "fileCommit" \in {"fileCommit", "other"}
      /\ {"check", "store", "auth", "verify", "mark"} \subseteq CommitPcs \ {"converge"}
      /\ (op.pc \in CommitPcs => op.to \in Accounts)
      /\ store \in Accounts /\ auth \in Maybe /\ configured \in Maybe
      /\ login \in BOOLEAN /\ loaded \in [Runtimes -> Accounts \union {None}]
  BY DEF IInv, Types, TypeOK, CommitPcs, Held, Maybe
<1>1. CASE CheckSource
  <2>1. op.pc = "check" /\ KeepSeen /\ UNCHANGED <<auth, fresh, up, configured, login, outside>>
    BY <1>1 DEF CheckSource
  <2>2. CASE Fail("fileCommit", store) /\ UNCHANGED loaded
    BY <1>0, <2>1, <2>2, FailKeeps DEF CommitKnows
  <2>3. CASE /\ Preparing /\ configured = op.from /\ SourceMatches
             /\ IF op.kind = "automatic" THEN Evidence(op.from) ELSE UNCHANGED loaded
             /\ Goto("store") /\ UNCHANGED <<store, journal, shown, pending, task>>
    <3>1. loaded' \in [Runtimes -> Accounts \union {None}]
      BY <1>0, <2>1, <2>3, EvidenceFacts DEF CommitKnows
    <3> QED BY <1>0, <2>1, <2>3, <3>1, PreparingFacts, CommitGoes
  <2> QED BY <1>1, <2>2, <2>3 DEF CheckSource
<1>2. CASE PersistStore
  <2>1. /\ op.pc = "store" /\ KeepSeen
        /\ UNCHANGED <<auth, fresh, up, configured, loaded, login, outside>>
    BY <1>2 DEF PersistStore
  <2>2. CASE Fail("fileCommit", store)
    BY <1>0, <2>1, <2>2, FailKeeps DEF CommitKnows
  <2>3. CASE Preparing /\ store = op.from /\ Fail("fileCommit", op.to)
    BY <1>0, <2>1, <2>3, FailKeeps, PreparingFacts
  <2>4. CASE /\ Preparing /\ store' = op.to /\ Goto("auth")
             /\ UNCHANGED <<journal, shown, pending, task>>
    BY <1>0, <2>1, <2>4, PreparingFacts, CommitGoes
  <2> QED BY <1>2, <2>2, <2>3, <2>4 DEF PersistStore
<1>3. CASE PersistAuth
  <2>1. op.pc = "auth" /\ KeepSeen /\ UNCHANGED <<fresh, up, configured, loaded, outside>>
    BY <1>3 DEF PersistAuth
  <2>2. CASE Fail("fileCommit", store) /\ UNCHANGED <<auth, login>>
    BY <1>0, <2>1, <2>2, FailKeeps DEF CommitKnows
  <2>3. CASE Preparing /\ auth' = op.to /\ login' = FALSE /\ Fail("fileCommit", store)
    BY <1>0, <2>1, <2>3, FailKeeps, PreparingFacts DEF Maybe
  <2>4. CASE /\ Preparing /\ auth' = op.to /\ login' = FALSE
             /\ Goto("verify") /\ UNCHANGED <<store, journal, shown, pending, task>>
    BY <1>0, <2>1, <2>4, PreparingFacts, CommitGoes DEF Maybe
  <2> QED BY <1>3, <2>2, <2>3, <2>4 DEF PersistAuth
<1>4. CASE Publish
  <2>1. op.pc = "verify" /\ KeepSeen /\ UNCHANGED <<auth, fresh, up, loaded, login, outside>>
    BY <1>4 DEF Publish
  <2>2. CASE Fail("fileCommit", store) /\ UNCHANGED configured
    BY <1>0, <2>1, <2>2, FailKeeps DEF CommitKnows
  <2>3. CASE /\ Preparing /\ Files(op.to) /\ configured' = op.to /\ Goto("mark")
             /\ UNCHANGED <<store, journal, shown, pending, task>>
    BY <1>0, <2>1, <2>3, PreparingFacts, CommitGoes DEF Files, Maybe
  <2> QED BY <1>4, <2>2, <2>3 DEF Publish
<1> QED BY <1>1, <1>2, <1>3, <1>4

(* The record that the files are committed, and the convergence task.      *)
LEMMA MarkStep ==
  ASSUME IInv, MarkCommittedDegraded
  PROVE  IInv'
<1>0. /\ Types /\ TypeOK /\ CommitKnows /\ op.pc = "mark" /\ op.pc \in CommitPcs \ {"converge"}
      /\ "converge" \in CommitPcs /\ op.to \in Accounts /\ op.gen \in Gens /\ KeepSeen
      /\ UNCHANGED <<auth, fresh, up, configured, loaded, login, outside>>
  BY DEF IInv, Types, CommitPcs, Held, MarkCommittedDegraded
<1>1. /\ store \in Accounts /\ auth \in Maybe /\ configured \in Maybe /\ login \in BOOLEAN
      /\ loaded \in [Runtimes -> Accounts \union {None}]
      /\ journal.phase = "preparing" /\ store = op.to /\ (auth = op.to \/ login)
  BY <1>0 DEF TypeOK, CommitKnows, Maybe
<1>2. CASE \E d \in {"fileCommit", "other"} : Fail(d, store)
  BY <1>0, <1>1, <1>2, FailKeeps
<1>3. CASE Preparing /\ journal' = Degraded(op.to, op.gen) /\ Goto("converge") /\ UNCHANGED <<store, shown, pending, task>>
  <2>1. /\ journal' \in Records /\ journal'.phase = "degraded" /\ journal'.target = op.to
        /\ journal'.gen = op.gen
    BY <1>0, <1>3 DEF Degraded, Record, Records, Phases, Details
  <2> QED BY <1>0, <1>1, <1>3, <2>1, CommitGoes
<1> QED BY <1>2, <1>3 DEF MarkCommittedDegraded

(* The commit hands over to the convergence task.                          *)
LEMMA ConvergeStep ==
  ASSUME IInv, BeginRuntimeConvergence
  PROVE  IInv'
<1>0. /\ Types /\ TypeOK /\ CommitKnows /\ op.pc = "converge" /\ op.pc \in CommitPcs
      /\ "desktop" \in Pcs /\ op.to \in Accounts /\ KeepSeen
      /\ UNCHANGED <<auth, fresh, up, configured, loaded, login, outside>>
  BY DEF IInv, Types, CommitPcs, TaskPcs, Pcs, Held, BeginRuntimeConvergence
<1>1. /\ store \in Accounts /\ auth \in Maybe /\ configured \in Maybe /\ login \in BOOLEAN
      /\ loaded \in [Runtimes -> Accounts \union {None}]
      /\ journal.phase = "degraded" /\ (~login => store = auth)
  BY <1>0 DEF IInv, TypeOK, CommitKnows, Maybe, SplitGuarded
<1>2. CASE Fail("other", store)
  BY <1>0, <1>1, <1>2, FailKeeps
<1>3. CASE /\ op.owned /\ pending = op.to /\ configured = op.to
           /\ shown' = journal /\ task' = TRUE /\ Goto("desktop")
           /\ UNCHANGED <<store, journal, pending>>
  <2>1. op' \in Operations /\ op'.pc = "desktop" /\ op'.to = op.to /\ op'.gen = op.gen
    BY <1>0, <1>3, GotoFacts
  <2>2. Types'
    BY <1>0, <1>3, <2>1, KeepSeenFacts DEF Types, TypeOK, Held
  <2>3. Asleep' /\ CommitKnows' /\ TaskKnows' /\ OthersKnow'
    BY <1>0, <1>1, <1>3, <2>1
       DEF IInv, Asleep, Held, CommitKnows, TaskKnows, OthersKnow, CommitPcs, TaskPcs, Own
  <2>4. GenApart' /\ SplitGuarded'
    BY <1>0, <1>1, <1>3 DEF GenApart, SplitGuarded
  <2> QED BY <2>2, <2>3, <2>4 DEF IInv
<1> QED BY <1>2, <1>3 DEF BeginRuntimeConvergence

(* The publication of the preparing record in memory.                      *)
LEMMA PrepareStep ==
  ASSUME IInv, Prepare
  PROVE  IInv'
<1>0. /\ Types /\ TypeOK /\ CommitKnows /\ op.pc = "prepared" /\ "check" \in Pcs /\ "other" \in Details
      /\ op.to \in Accounts /\ KeepSeen
      /\ UNCHANGED <<store, auth, fresh, up, configured, loaded, login, outside>>
  BY DEF IInv, Types, CommitPcs, Pcs, Held, Prepare, Details
<1>1. CASE /\ op.owned /\ shown' = journal /\ pending' = op.to /\ Goto("check") /\ UNCHANGED <<journal, task>>
  <2>1. /\ op' \in Operations /\ op'.pc = "check" /\ op'.to = op.to /\ op'.gen = op.gen
        /\ op'.kind = op.kind /\ op'.from = op.from /\ op'.before = op.before
    BY <1>0, <1>1, GotoFacts
  <2>2. Types'
    BY <1>0, <1>1, <2>1, KeepSeenFacts DEF Types, TypeOK, Held
  <2>3. Asleep' /\ CommitKnows' /\ TaskKnows' /\ OthersKnow'
    BY <1>0, <1>1, <2>1
       DEF IInv, Asleep, Held, CommitKnows, TaskKnows, OthersKnow, CommitPcs, TaskPcs
  <2>4. GenApart' /\ SplitGuarded'
    BY <1>0, <1>1 DEF IInv, GenApart, SplitGuarded
  <2> QED BY <2>2, <2>3, <2>4 DEF IInv
<1>2. CASE /\ op' = Idle /\ UNCHANGED <<pending, task>>
           /\ Review(op.to, "other") \/ UNCHANGED <<journal, shown>>
  <2>1. journal' \in Records /\ shown' \in Records /\ GenApart' /\ SplitGuarded'
    <3>1. CASE Review(op.to, "other")
      BY <1>0, <3>1, ReviewKeeps
    <3>2. CASE UNCHANGED <<journal, shown>>
      BY <1>0, <3>2 DEF IInv, TypeOK, GenApart, SplitGuarded
    <3> QED BY <1>2, <3>1, <3>2
  <2>2. TypeOK'
    BY <1>0, <1>2, <2>1 DEF TypeOK
  <2> QED BY <1>0, <1>2, <2>1, <2>2, Rests
<1> QED BY <1>1, <1>2 DEF Prepare

-----------------------------------------------------------------------------
(* The convergence task.                                                   *)

(* One step of the convergence task that goes on.                          *)
LEMMA TaskGoes ==
  ASSUME IInv, op.pc \in TaskPcs, op' \in Operations, op'.pc \in TaskPcs, op'.to = op.to, op'.gen = op.gen,
         UNCHANGED <<store, auth, shown, configured, pending, task, up, outside, login>>, KeepSeen,
         journal' \in Records, journal' = journal \/ (journal'.phase = "confirmed" /\ store = auth),
         loaded' \in [Runtimes -> Accounts \union {None}], fresh' \in BOOLEAN,
         op'.pc = "persist" => store = op.to /\ op'.topology # {}
  PROVE  IInv'
<1>0. /\ Types /\ TypeOK /\ TaskKnows /\ GenApart /\ SplitGuarded /\ Held /\ Held'
      /\ op'.pc \notin CommitPcs \cup {"prepared", "retry", "adopt"}
  BY DEF IInv, Types, TaskPcs, CommitPcs, Held
<1>1. Types'
  BY <1>0, KeepSeenFacts DEF Types, TypeOK
<1>2. TaskKnows'
  BY <1>0 DEF TaskKnows, Own
<1>3. Asleep' /\ CommitKnows' /\ OthersKnow'
  BY <1>0 DEF IInv, Asleep, CommitKnows, OthersKnow
<1>4. GenApart' /\ SplitGuarded'
  BY <1>0 DEF GenApart, SplitGuarded
<1> QED BY <1>1, <1>2, <1>3, <1>4 DEF IInv

(* The convergence task ends and the lease is released.                    *)
LEMMA TaskEnds ==
  ASSUME IInv, op.pc \in TaskPcs, op' = Idle, pending' \in Maybe, task' \in BOOLEAN,
         UNCHANGED <<store, auth, configured, up, outside, login>>, KeepSeen,
         \/ UNCHANGED <<journal, shown>>
         \/ shown' = journal /\ journal' = journal
         \/ \E d \in Details : Review(op.to, d),
         loaded' \in [Runtimes -> Accounts \union {None}], fresh' \in BOOLEAN
  PROVE  IInv'
<1>0. Types /\ TypeOK /\ op.to \in Accounts
  BY DEF IInv, Types, TaskPcs, Held
<1>1. journal' \in Records /\ shown' \in Records /\ GenApart' /\ SplitGuarded'
  <2>1. CASE \E d \in Details : Review(op.to, d)
    BY <1>0, <2>1, ReviewKeeps
  <2>2. CASE journal' = journal /\ shown' \in {journal, shown}
    BY <1>0, <2>2 DEF IInv, TypeOK, GenApart, SplitGuarded
  <2> QED BY <2>1, <2>2
<1>2. TypeOK'
  BY <1>0, <1>1 DEF TypeOK, Maybe
<1> QED BY <1>1, <1>2, Rests

(* The reload of one runtime: it has what auth.json holds, or not.         *)
LEMMA ReloadSteps ==
  ASSUME IInv, ReloadDesktop \/ ReloadCLI
  PROVE  IInv'
<1>0. Types /\ TypeOK /\ op.pc \in TaskPcs /\ {"cli", "finish"} \subseteq TaskPcs
  BY DEF IInv, Types, TaskPcs, ReloadDesktop, ReloadCLI
<1>1. /\ KeepSeen /\ UNCHANGED <<durable, memory, login, outside>>
      /\ loaded' = loaded \/ \E r \in Runtimes : Reload(r)
      /\ \E pc \in {"cli", "finish"}, outcome \in {op.outcome, "current", "failed"} :
            op' = [op EXCEPT !.pc = pc, !.outcome = outcome]
  <2>1. CASE ReloadDesktop
    <3>1. "desktop" \in Runtimes
      BY DEF Runtimes
    <3>2. \/ op' = [op EXCEPT !.pc = "cli"]
          \/ op' = [op EXCEPT !.pc = "cli", !.outcome = "current"]
          \/ op' = [op EXCEPT !.pc = "finish", !.outcome = "failed"]
      BY <2>1 DEF ReloadDesktop
    <3>3. [op EXCEPT !.pc = "cli"] = [op EXCEPT !.pc = "cli", !.outcome = op.outcome]
      BY <1>0 DEF Types, Operations
    <3> QED BY <2>1, <3>1, <3>2, <3>3 DEF ReloadDesktop
  <2>2. CASE ReloadCLI
    <3>1. "cli" \in Runtimes
      BY DEF Runtimes
    <3>2. \/ op' = [op EXCEPT !.pc = "finish"]
          \/ op' = [op EXCEPT !.pc = "finish", !.outcome = "current"]
          \/ op' = [op EXCEPT !.pc = "finish", !.outcome = "failed"]
      BY <2>2 DEF ReloadCLI
    <3>3. [op EXCEPT !.pc = "finish"] = [op EXCEPT !.pc = "finish", !.outcome = op.outcome]
      BY <1>0 DEF Types, Operations
    <3> QED BY <2>2, <3>1, <3>2, <3>3 DEF ReloadCLI
  <2> QED BY <2>1, <2>2
<1>2. /\ op' \in Operations /\ op'.pc \in {"cli", "finish"} /\ op'.to = op.to /\ op'.gen = op.gen
  BY <1>0, <1>1 DEF Types, Operations, Pcs, TaskPcs
<1>3. loaded' \in [Runtimes -> Accounts \union {None}]
  BY <1>0, <1>1 DEF Reload, TypeOK
<1> QED BY <1>0, <1>1, <1>2, <1>3, TaskGoes DEF durable, memory, TypeOK

(* A task that lost its operation, or has confirmed it.                    *)
LEMMA TaskStops ==
  ASSUME IInv, AbandonConvergence \/ PublishConfirmed
  PROVE  IInv'
<1>0. Types /\ TypeOK /\ op.pc \in TaskPcs
  BY DEF IInv, Types, TaskPcs, AbandonConvergence, PublishConfirmed
<1>1. CASE AbandonConvergence
  <2>1. op' = Idle /\ pending' \in Maybe /\ task' \in BOOLEAN
    BY <1>0, <1>1, AbandonFacts DEF AbandonConvergence
  <2>2. KeepSeen /\ UNCHANGED <<store, auth, journal, fresh, up, configured, shown, loaded, login, outside>>
    BY <1>1 DEF AbandonConvergence, durable
  <2> QED BY <1>0, <2>1, <2>2, TaskEnds DEF TypeOK
<1>2. CASE PublishConfirmed
  <2>1. op' = Idle /\ pending' \in Maybe /\ task' \in BOOLEAN
    BY <1>2 DEF PublishConfirmed, Release, Maybe
  <2>2. KeepSeen /\ shown' = journal /\ UNCHANGED <<store, auth, journal, fresh, up, configured, loaded, login, outside>>
    BY <1>2 DEF PublishConfirmed, durable
  <2> QED BY <1>0, <2>1, <2>2, TaskEnds DEF TypeOK
<1> QED BY <1>1, <1>2

(* The evidence, its check and the confirmation.                           *)
LEMMA ConfirmSteps ==
  ASSUME IInv, Finish \/ Confirm \/ MarkConfirmed
  PROVE  IInv'
<1>0. /\ Types /\ TypeOK /\ TaskKnows /\ op.pc \in TaskPcs /\ op.to \in Accounts /\ op.gen \in Gens
      /\ {"changed", "other"} \subseteq Details /\ {"confirm", "persist", "done"} \subseteq TaskPcs \cap Pcs
  BY DEF IInv, Types, TaskPcs, Pcs, Held, Finish, Confirm, MarkConfirmed, Details
<1>1. /\ KeepSeen /\ UNCHANGED <<store, auth, up, configured, login, outside>>
      /\ fresh' = fresh \/ MarkConfirmed
  BY DEF Finish, Confirm, MarkConfirmed
<1>2. loaded' \in [Runtimes -> Accounts \union {None}]
  <2>1. CASE loaded' = loaded
    BY <1>0, <2>1 DEF TypeOK
  <2>2. CASE Evidence(op.to)
    BY <1>0, <2>2, EvidenceFacts
  <2> QED BY <2>1, <2>2 DEF Finish, Confirm, MarkConfirmed
<1>3. fresh' \in BOOLEAN
  BY <1>0, <1>1 DEF MarkConfirmed, TypeOK
<1>4. CASE EndDegraded \/ \E d \in {"changed", "other"} : EndReview(d)
  <2>1. op' = Idle /\ pending' \in Maybe /\ task' \in BOOLEAN
    BY <1>4 DEF EndDegraded, EndReview, Release, Maybe
  <2>2. UNCHANGED <<journal, shown>> \/ \E d \in Details : Review(op.to, d)
    BY <1>0, <1>4 DEF EndDegraded, EndReview
  <2> QED BY <1>0, <1>1, <1>2, <1>3, <2>1, <2>2, TaskEnds
<1>5. CASE Finish /\ Goto("confirm") /\ UNCHANGED <<journal, shown, pending, task>>
  <2>1. op' \in Operations /\ op'.pc = "confirm" /\ op'.to = op.to /\ op'.gen = op.gen
    BY <1>0, <1>5, GotoFacts
  <2> QED BY <1>0, <1>1, <1>2, <1>3, <1>5, <2>1, TaskGoes DEF TypeOK
<1>6. CASE /\ Confirm /\ Evidence(op.to) /\ store = op.to
           /\ op' = [op EXCEPT !.pc = "persist", !.topology = Running]
           /\ UNCHANGED <<journal, shown, pending, task>>
  <2>1. Running \in SUBSET Runtimes /\ Running # {}
    BY <1>0, <1>6, EvidenceFacts DEF Running
  <2>2. op' \in Operations /\ op'.pc = "persist" /\ op'.to = op.to /\ op'.gen = op.gen /\ op'.topology = Running
    BY <1>0, <1>6, <2>1 DEF Types, Operations
  <2> QED BY <1>0, <1>1, <1>2, <1>3, <1>6, <2>1, <2>2, TaskGoes DEF TypeOK
<1>7. CASE /\ MarkConfirmed /\ BindingsCurrent /\ journal' = Record("confirmed", op.to, op.gen, "none")
           /\ Goto("done") /\ UNCHANGED <<shown, pending, task>>
  <2>1. op' \in Operations /\ op'.pc = "done" /\ op'.to = op.to /\ op'.gen = op.gen
    BY <1>0, <1>7, GotoFacts
  <2>2. journal' \in Records /\ journal'.phase = "confirmed"
    BY <1>0, <1>7 DEF Record, Records, Phases, Details
  <2>3. store = auth
    BY <1>0, <1>7 DEF MarkConfirmed, BindingsCurrent, TaskKnows
  <2> QED BY <1>0, <1>1, <1>2, <1>3, <1>7, <2>1, <2>2, <2>3, TaskGoes
<1> QED BY <1>4, <1>5, <1>6, <1>7 DEF Finish, Confirm, MarkConfirmed

-----------------------------------------------------------------------------
(* The theorems.                                                           *)

(* The app starts on a confirmed account.                                  *)
LEMMA Initial == Init => IInv
<1> SUFFICES ASSUME Init PROVE IInv
  OBVIOUS
<1>1. PICK a \in Accounts : /\ store = a /\ auth = a /\ configured = a
                            /\ journal = Record("confirmed", a, 1, "none")
                            /\ loaded \in [Runtimes -> {None, a}]
  BY DEF Init
<1>2. /\ op = Idle /\ op.pc = "idle" /\ seen = Unseen /\ shown = journal
  BY DEF Init, Idle
<1>3. journal \in Records /\ journal.phase = "confirmed"
  BY <1>1 DEF Record, Records, Phases, Details, Gens
<1>4. TypeOK
  <2>1. loaded \in [Runtimes -> Accounts \union {None}]
    BY <1>1
  <2>2. outside \in 0 .. MaxOutside
    BY BoundsAssumption DEF Init
  <2> QED BY <1>1, <1>2, <1>3, <2>1, <2>2 DEF Init, TypeOK
<1>5. Types
  BY <1>2, <1>4, IdleTyped DEF Types, Held, Unseen, Maybe
<1> QED BY <1>1, <1>2, <1>3, <1>5
        DEF Init, IInv, Asleep, Held, CommitKnows, TaskKnows, OthersKnow, CommitPcs, TaskPcs,
            GenApart, SplitGuarded

(* Every step keeps the inductive invariant.                               *)
LEMMA Preserved == IInv /\ [Next]_vars => IInv'
<1>1. ASSUME IInv, Next
      PROVE  IInv'
  BY <1>1, BeginStep, DemoteStep, PrepareStep, CommitSteps, MarkStep, ConvergeStep, ReloadSteps, TaskStops,
     ConfirmSteps, RetrySteps, ContinueRetryStep, AsideSteps, ReviewSteps, AdoptSteps, ConflictStep,
     LoadStep, CrashSteps, OutsideSteps
     DEF Next
<1>2. ASSUME IInv, UNCHANGED vars
      PROVE  IInv'
  BY <1>2 DEF vars, durable, memory, IInv, Types, TypeOK, Asleep, Held, CommitKnows, TaskKnows, OthersKnow,
              Own, GenApart, SplitGuarded
<1> QED BY <1>1, <1>2

(* The inductive invariant.                                                *)
THEOREM Invariance == Spec => []IInv
BY Initial, Preserved, PTL DEF Spec

(* Every variable keeps its type.                                          *)
THEOREM TypeCorrect == Spec => []TypeOK
<1>1. IInv => TypeOK
  BY DEF IInv, Types
<1> QED BY <1>1, Invariance, PTL

(* Half a swap by the app is always covered by its preparing record or a   *)
(* review, whatever fails, supersedes or crashes (commitConfigured-        *)
(* Credentials, restoreUncommittedPreparation).                            *)
THEOREM SplitsGuarded == Spec => []SplitGuarded
<1>1. IInv => SplitGuarded
  BY DEF IInv
<1> QED BY <1>1, Invariance, PTL

(* What a step of a superseded operation may do.                           *)
LEMMA SupersededStep ==
  ASSUME IInv, Next, Held, ~op.owned
  PROVE  /\ store' = store /\ (auth' # auth => login')
         /\ journal'.phase \in {journal.phase, "review"}
<1> USE DEF durable, memory
<1>0. /\ Types /\ TypeOK /\ up /\ op.to \in Accounts /\ store \in Accounts
      /\ {"fileCommit", "other", "changed", "inconsistent"} \subseteq Details
  BY DEF IInv, Types, TypeOK, Asleep, Details
<1>1. ASSUME NEW a \in Accounts, NEW d \in Details, Review(a, d)
      PROVE  journal'.phase \in {journal.phase, "review"}
  BY <1>0, <1>1, ReviewFacts DEF TypeOK
<1>2. CASE \/ \E kind \in {"automatic", "operator", "recovery"}, to \in Accounts : Begin(kind, to)
           \/ Demote \/ RetryAutomatic \/ RetryManual \/ RecoverObserved \/ Adopt \/ ReviewConflict
           \/ RequireFreshPermit \/ Launch \/ \E a \in Accounts : RustActivate(a)
  BY <1>0, <1>2 DEF Begin, Demote, RetryAutomatic, RetryManual, RecoverObserved, Adopt, Adoptable, Free,
                    ReviewConflict, RequireFreshPermit, Launch, RustActivate
<1>3. CASE \/ Observe \/ Discard \/ Expire \/ LoadJournal \/ Crash
           \/ ReloadDesktop \/ ReloadCLI \/ AbandonConvergence \/ PublishConfirmed
           \/ \E r \in Runtimes : StartRuntime(r) \/ StopRuntime(r)
           \/ \E a \in Accounts \union {None} : Login(a)
  BY <1>3 DEF Observe, Discard, Expire, LoadJournal, Crash, ReloadDesktop, ReloadCLI, AbandonConvergence,
              PublishConfirmed, StartRuntime, StopRuntime, Login
<1>4. CASE ObserveAbsent \/ ObserveConflict
  BY <1>4 DEF ObserveAbsent, ObserveConflict, TryReview
<1>5. CASE Prepare \/ ContinueRetry
  BY <1>0, <1>5 DEF Prepare, ContinueRetry
<1>6. CASE FinishAdopt
  <2>1. UNCHANGED journal \/ Review(op.to, "inconsistent")
    BY <1>6 DEF FinishAdopt
  <2> QED BY <1>0, <1>1, <1>6, <2>1 DEF FinishAdopt
<1>7. CASE CheckSource \/ PersistStore \/ PersistAuth \/ Publish \/ MarkCommittedDegraded \/ BeginRuntimeConvergence
  <2>1. ~Preparing
    BY DEF Preparing, Authorized, WorkIsCurrent
  <2>2. op.pc \in CommitPcs /\ UNCHANGED auth /\ \E d \in {"fileCommit", "other"} : Fail(d, store)
    BY <1>7, <2>1 DEF CheckSource, PersistStore, PersistAuth, Publish, MarkCommittedDegraded,
                      BeginRuntimeConvergence, CommitPcs
  <2> QED BY <1>0, <2>2, FailFacts
<1>8. CASE Finish \/ Confirm \/ MarkConfirmed
  <2>1. ~Authorized("degraded") /\ ~WorkIsCurrent("degraded")
    BY DEF Authorized, WorkIsCurrent
  <2>2. /\ UNCHANGED <<store, auth>>
        /\ UNCHANGED journal \/ \E d \in {"changed", "other"} : Review(op.to, d)
    BY <1>8, <2>1 DEF Finish, Confirm, MarkConfirmed, EndDegraded, EndReview
  <2> QED BY <1>0, <1>1, <2>2
<1> QED BY <1>2, <1>3, <1>4, <1>5, <1>6, <1>7, <1>8 DEF Next

(* An operation that an observation superseded writes nothing any more but *)
(* a review (activationEffectPermit, activationWorkIsCurrent).             *)
THEOREM SupersededStop == Spec => SupersededStops
<1>1. IInv /\ [Next]_vars =>
        [Held /\ ~op.owned
           => /\ store' = store /\ (auth' # auth => login')
              /\ journal'.phase \in {journal.phase, "review"}]_vars
  BY SupersededStep
<1> QED BY <1>1, Invariance, PTL DEF Spec, SupersededStops

(* What a confirmation rests on.                                           *)
Confirmation ==
    journal.phase # "confirmed" /\ journal'.phase = "confirmed"
    => \/ journal' = op.before
       \/ /\ Files(journal'.target) /\ configured = journal'.target
          /\ Running # {} /\ \A r \in Running : loaded[r] = journal'.target

(* One step of ConfirmedTrue.                                              *)
LEMMA ConfirmationStep ==
  ASSUME IInv, Next
  PROVE  Confirmation
<1> USE DEF durable, memory
<1>0. /\ Types /\ TypeOK /\ TaskKnows /\ store \in Accounts /\ configured \in Accounts \union {None}
      /\ {"fileCommit", "other", "changed", "inconsistent", "absent", "conflict"} \subseteq Details
      /\ (Held => op.to \in Accounts) /\ shown.target \in Accounts
  BY DEF IInv, Types, TypeOK, Details, Records
<1>1. ASSUME NEW a \in Accounts, NEW d \in Details, Review(a, d)
      PROVE  Confirmation
  BY <1>0, <1>1, ReviewFacts DEF TypeOK, Confirmation
<1>2. CASE journal' = journal
  BY <1>2 DEF Confirmation
<1>3. CASE \/ \E kind \in {"automatic", "operator", "recovery"}, to \in Accounts : Begin(kind, to)
           \/ Demote \/ RetryManual \/ RecoverObserved \/ Adopt
  <2>1. ASSUME NEW kind \in {"automatic", "operator", "recovery"}, NEW to \in Accounts, Begin(kind, to)
        PROVE  Confirmation
    <3>1. journal' = Record("preparing", to, NewGen, "none")
      BY <2>1 DEF Begin
    <3> QED BY <3>1 DEF Record, Confirmation
  <2>2. CASE Demote \/ RetryManual \/ RecoverObserved \/ Adopt
    <3>1. \E a, gen : journal' = Degraded(a, gen)
      BY <2>2 DEF Demote, RetryManual, RecoverObserved, Adopt
    <3> QED BY <3>1 DEF Degraded, Record, Confirmation
  <2> QED BY <1>3, <2>1, <2>2
<1>4. CASE Launch
  BY <1>0, <1>4, LaunchFacts DEF Launch, Confirmation, IInv
<1>5. CASE RetryAutomatic \/ Observe \/ Discard \/ Expire \/ LoadJournal \/ Crash
           \/ ReloadDesktop \/ ReloadCLI \/ AbandonConvergence \/ PublishConfirmed
           \/ (\E r \in Runtimes : StartRuntime(r) \/ StopRuntime(r))
           \/ (\E a \in Accounts \union {None} : Login(a)) \/ (\E a \in Accounts : RustActivate(a))
  <2>1. journal' = journal
    BY <1>5 DEF RetryAutomatic, Observe, Discard, Expire, LoadJournal, Crash, ReloadDesktop, ReloadCLI,
                AbandonConvergence, PublishConfirmed, StartRuntime, StopRuntime, Login, RustActivate
  <2> QED BY <1>2, <2>1
<1>6. CASE ObserveAbsent \/ ReviewConflict \/ RequireFreshPermit \/ ObserveConflict
  <2>1. \/ journal' = journal
        \/ \E a \in Accounts, d \in Details : Review(a, d)
    <3>1. CASE ObserveAbsent
      BY <1>0, <3>1 DEF ObserveAbsent, TryReview
    <3>2. CASE ReviewConflict
      BY <1>0, <3>2 DEF ReviewConflict, Types
    <3>3. CASE RequireFreshPermit
      BY <1>0, <3>3 DEF RequireFreshPermit
    <3>4. CASE ObserveConflict
      <4>1. ConflictTarget \in Accounts
        BY <1>0, <3>4 DEF ObserveConflict, ConflictTarget, Types, Maybe
      <4> QED BY <1>0, <3>4, <4>1 DEF ObserveConflict, TryReview
    <3> QED BY <1>6, <3>1, <3>2, <3>3, <3>4
  <2> QED BY <1>1, <1>2, <2>1
<1>7. CASE Prepare \/ ContinueRetry \/ FinishAdopt
  <2>1. op.to \in Accounts
    BY <1>0, <1>7 DEF Prepare, ContinueRetry, FinishAdopt, Held
  <2>2. journal' = journal \/ \E d \in Details : Review(op.to, d)
    BY <1>0, <1>7 DEF Prepare, ContinueRetry, FinishAdopt
  <2> QED BY <1>1, <1>2, <2>1, <2>2
<1>8. CASE CheckSource \/ PersistStore \/ PersistAuth \/ Publish \/ MarkCommittedDegraded \/ BeginRuntimeConvergence
  <2>1. op.pc \in CommitPcs /\ op.to \in Accounts
    BY <1>0, <1>8 DEF CheckSource, PersistStore, PersistAuth, Publish, MarkCommittedDegraded,
                      BeginRuntimeConvergence, CommitPcs, Held
  <2>2. \/ journal' = journal \/ journal' = Degraded(op.to, op.gen)
        \/ \E d \in {"fileCommit", "other"}, s \in {store, op.to} : Fail(d, s)
    BY <1>8 DEF CheckSource, PersistStore, PersistAuth, Publish, MarkCommittedDegraded,
                BeginRuntimeConvergence
  <2>3. CASE \E d \in {"fileCommit", "other"}, s \in {store, op.to} : Fail(d, s)
    <3>1. journal'.phase = "review" \/ journal' = op.before \/ journal' = journal
      BY <1>0, <2>1, <2>3, FailFacts
    <3> QED BY <3>1 DEF Confirmation
  <2>4. CASE journal' = Degraded(op.to, op.gen)
    BY <2>4 DEF Degraded, Record, Confirmation
  <2> QED BY <1>2, <2>2, <2>3, <2>4
<1>9. CASE Finish \/ Confirm \/ MarkConfirmed
  <2>1. op.pc \in TaskPcs /\ op.to \in Accounts
    BY <1>0, <1>9 DEF Finish, Confirm, MarkConfirmed, TaskPcs, Held
  <2>2. \/ journal' = journal \/ \E d \in {"changed", "other"} : Review(op.to, d)
        \/ MarkConfirmed /\ BindingsCurrent /\ journal' = Record("confirmed", op.to, op.gen, "none")
    BY <1>9 DEF Finish, Confirm, MarkConfirmed, EndDegraded, EndReview
  <2>3. CASE MarkConfirmed /\ BindingsCurrent /\ journal' = Record("confirmed", op.to, op.gen, "none")
    <3>1. /\ op.pc = "persist" /\ auth = op.to /\ Running = op.topology
          /\ \A r \in Running : loaded[r] = op.to
      BY <2>3 DEF MarkConfirmed, BindingsCurrent
    <3>2. store = op.to /\ configured = op.to /\ op.topology # {}
      BY <1>0, <2>1, <3>1 DEF TaskKnows
    <3>3. journal'.target = op.to
      BY <2>3 DEF Record
    <3> QED BY <3>1, <3>2, <3>3 DEF Confirmation, Files
  <2> QED BY <1>0, <1>1, <1>2, <2>1, <2>2, <2>3
<1> QED BY <1>3, <1>4, <1>5, <1>6, <1>7, <1>8, <1>9 DEF Next

(* A confirmation is true of the files, of the configured account and of   *)
(* every runtime at the step that writes it                                *)
(* (AccountActivationCoordinator.markConfirmed).                           *)
THEOREM ConfirmationsTrue == Spec => ConfirmedTrue
<1>1. IInv /\ [Next]_vars => [Confirmation]_vars
  BY ConfirmationStep
<1>2. Spec => [][Confirmation]_vars
  BY <1>1, Invariance, PTL DEF Spec
<1> QED BY <1>2 DEF ConfirmedTrue, Confirmation

(* How an operation that still owns its lease ends.                        *)
Settles ==
    /\ pending' = None /\ ~task'
    /\ ~(shown'.phase = "preparing" /\ shown'.gen = op.gen)

(* One step of OperationSettles.                                           *)
LEMMA SettlesStep ==
  ASSUME IInv, Next, Held, op.owned, op'.pc = "idle", up'
  PROVE  Settles
<1> USE DEF durable, memory
<1>0. /\ Types /\ TypeOK /\ CommitKnows /\ TaskKnows /\ OthersKnow /\ up /\ op.to \in Accounts
      /\ store \in Accounts /\ op \in Operations /\ journal \in Records
      /\ {"fileCommit", "other", "changed", "inconsistent"} \subseteq Details
  BY DEF IInv, Types, TypeOK, Asleep, Details
<1>1. ASSUME NEW d \in Details, Review(op.to, d)
      PROVE  shown'.phase = "review"
  BY <1>0, <1>1, ReviewFacts
<1>2. CASE \/ \E kind \in {"automatic", "operator", "recovery"}, to \in Accounts : Begin(kind, to)
           \/ Demote \/ RetryAutomatic \/ RetryManual \/ RecoverObserved \/ Adopt \/ ReviewConflict
           \/ RequireFreshPermit \/ Launch \/ \E a \in Accounts : RustActivate(a)
  BY <1>0, <1>2 DEF Begin, Demote, RetryAutomatic, RetryManual, RecoverObserved, Adopt, Adoptable, Free,
                    ReviewConflict, RequireFreshPermit, Launch, RustActivate
<1>3. CASE \/ Observe \/ Discard \/ Expire \/ LoadJournal \/ ObserveAbsent \/ ObserveConflict
           \/ ReloadDesktop \/ ReloadCLI \/ Crash
           \/ (\E r \in Runtimes : StartRuntime(r) \/ StopRuntime(r))
           \/ (\E a \in Accounts \union {None} : Login(a))
  <2>1. \/ op'.pc = op.pc \/ op'.pc \in {"cli", "finish"} \/ ~up'
    BY <1>0, <1>3 DEF Observe, Discard, Expire, LoadJournal, ObserveAbsent, ObserveConflict, ReloadDesktop,
                      ReloadCLI, Crash, StartRuntime, StopRuntime, Login, Operations
  <2> QED BY <2>1 DEF Held
<1>4. CASE Prepare
  <2>1. ~Goto("check")
    BY <1>0 DEF Goto, Operations
  <2>2. op.pc = "prepared" /\ UNCHANGED <<pending, task>> /\ Review(op.to, "other")
    BY <1>4, <2>1 DEF Prepare
  <2> QED BY <1>0, <1>1, <2>2 DEF CommitKnows, Settles
<1>5. CASE ContinueRetry
  <2>1. op.pc = "retry" /\ UNCHANGED <<pending, task>> /\ Review(op.to, "inconsistent")
    BY <1>0, <1>5 DEF ContinueRetry, Goto, Operations
  <2> QED BY <1>0, <1>1, <2>1 DEF OthersKnow, Settles
<1>6. CASE FinishAdopt
  <2>1. /\ op.pc = "adopt" /\ UNCHANGED <<pending, task>>
        /\ shown' = journal \/ Review(op.to, "inconsistent")
    BY <1>6 DEF FinishAdopt
  <2> QED BY <1>0, <1>1, <2>1 DEF OthersKnow, Settles
<1>7. CASE CheckSource \/ PersistStore \/ PersistAuth \/ Publish \/ MarkCommittedDegraded \/ BeginRuntimeConvergence
  <2>1. op.pc \in CommitPcs
    BY <1>7 DEF CheckSource, PersistStore, PersistAuth, Publish, MarkCommittedDegraded,
                BeginRuntimeConvergence, CommitPcs
  <2>2. ASSUME NEW pc \in {"store", "auth", "verify", "mark", "converge", "desktop"}, Goto(pc)
        PROVE  FALSE
    BY <1>0, <2>2 DEF Goto, Operations
  <2>3. \E d \in {"fileCommit", "other"}, s \in {store, op.to} : Fail(d, s)
    BY <1>7, <2>2 DEF CheckSource, PersistStore, PersistAuth, Publish, MarkCommittedDegraded,
                      BeginRuntimeConvergence
  <2> QED BY <1>0, <2>1, <2>3, FailFacts DEF Settles
<1>8. CASE AbandonConvergence
  <2>1. op.pc \in TaskPcs /\ Abandon /\ shown' = shown
    BY <1>8 DEF AbandonConvergence, TaskPcs
  <2> QED BY <1>0, <2>1, AbandonFacts DEF TaskKnows, Own, Settles
<1>9. CASE PublishConfirmed
  <2>1. op.pc \in TaskPcs /\ Release /\ shown' = journal
    BY <1>9 DEF PublishConfirmed, TaskPcs
  <2> QED BY <1>0, <2>1 DEF TaskKnows, Own, Settles, Release
<1>10. CASE Finish \/ Confirm \/ MarkConfirmed
  <2>1. op.pc \in TaskPcs
    BY <1>10 DEF Finish, Confirm, MarkConfirmed, TaskPcs
  <2>2. ASSUME NEW pc \in {"confirm", "done"}, Goto(pc)
        PROVE  FALSE
    BY <1>0, <2>2 DEF Goto, Operations
  <2>3. op' # [op EXCEPT !.pc = "persist", !.topology = Running]
    <3>1. [op EXCEPT !.pc = "persist", !.topology = Running].pc = "persist"
      BY <1>0 DEF Operations
    <3> QED BY <3>1
  <2>4. /\ Release
        /\ shown' = shown \/ \E d \in {"changed", "other"} : Review(op.to, d)
    BY <1>10, <2>2, <2>3 DEF Finish, Confirm, MarkConfirmed, EndDegraded, EndReview
  <2> QED BY <1>0, <1>1, <2>1, <2>4 DEF TaskKnows, Own, Settles, Release
<1> QED BY <1>2, <1>3, <1>4, <1>5, <1>6, <1>7, <1>8, <1>9, <1>10 DEF Next

(* An operation that owns its lease frees the app on every path            *)
(* (failConfiguredCredentialMutation, finishSwapRuntimeConvergence).       *)
THEOREM OperationsSettle == Spec => OperationSettles
<1>1. IInv /\ [Next]_vars => [Held /\ op.owned /\ op'.pc = "idle" /\ up' => Settles]_vars
  BY SettlesStep
<1>2. Spec => [][Held /\ op.owned /\ op'.pc = "idle" /\ up' => Settles]_vars
  BY <1>1, Invariance, PTL DEF Spec
<1> QED BY <1>2 DEF OperationSettles, Settles
=============================================================================
