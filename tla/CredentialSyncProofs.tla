------------------------ MODULE CredentialSyncProofs -------------------------
(***************************************************************************)
(* Proofs about CredentialSync: the types, that a completed receipt was    *)
(* written, that an import runs only while the Mac holds its operation,    *)
(* and that no host goes back to an older generation.                      *)
(***************************************************************************)
EXTENDS CredentialSync, TLAPS

(* TypeOK by the parts of the system that it speaks of.                    *)
ChainTypes ==
    /\ mac \in Pools /\ store \in Pools /\ minted \in Pools /\ auth \in Generations
    /\ refreshes \in 0..MaxRefreshes /\ runtimes \in 0..MaxRuntime
JournalTypes == journal \in Operations \cup {NoOp} /\ aged \in BOOLEAN
DefaultTypes ==
    hold \in BOOLEAN /\ synced \in Pools \cup {NoPool} /\ proof \in Proofs \cup {NoProof}
Syncs == [pc : {"idle", "capture", "deliver", "import", "await", "verify", "settle", "finish"},
          snapshot : Pools \cup {NoPool}, disposition : Dispositions \cup {None},
          receipt : Pools \cup {NoPool}]
Recoveries == [pc : {"idle", "stage", "status", "probe", "retire", "clear"},
               status : {"missing", "pending", "completed", None}]
Rounds == [pc : {"idle", "adopt"}, newest : Pools \cup {NoPool}, adoptions : SUBSET Accounts,
           original : Pools \cup {NoPool}, push : BOOLEAN]
TaskTypes == sync \in Syncs /\ recovery \in Recoveries
ImportTypes == stages \subseteq Ops /\ importer \in [Ops -> Imports] /\ ledger \in [Ops -> Receipts]
BoundTypes == nextOp \in 1..(MaxOps + 1) /\ losses \in 0..MaxLosses /\ crashes \in 0..MaxCrashes

Below(pool) == \A a \in Accounts : pool[a] <= minted[a]
Past(old, new) == \A a \in Accounts : new[a] >= old[a]

(* The provider issued every generation that is anywhere.                  *)
ChainsKnow ==
    /\ Below(mac) /\ Below(store) /\ auth <= minted[Active]
    /\ \A a \in Accounts : minted[a] <= 1 + refreshes

(* An identifier is fresh once.                                            *)
JournalKnows ==
    /\ journal # NoOp => journal.id < nextOp /\ Below(journal.incoming)
    /\ \A i \in Ops : i >= nextOp => ledger[i].state = "missing"

(* Before its start, and once its answer is read as final, the operation   *)
(* of the synchronisation task is not running.                             *)
SyncKnows ==
    /\ sync.pc # "idle" => sync.snapshot \in Pools /\ Below(sync.snapshot)
    /\ sync.pc = "capture" => journal = NoOp
    /\ sync.pc \in {"deliver", "import"} => ledger[journal.id].state = "missing" /\ ~Running(journal.id)
    /\ sync.pc = "verify" => ~Running(journal.id)
    /\ sync.pc = "settle" => Holds(sync.disposition) \/ ~Running(journal.id)
    /\ sync.pc \in {"deliver", "import", "await", "verify", "settle"} => journal # NoOp

RecoveryKnows ==
    /\ recovery.pc \notin {"idle", "clear"} => journal # NoOp /\ sync.pc = "idle"
    /\ recovery.pc = "retire" => ~Running(journal.id)

(* The plan of a round adopts newer generations only.                      *)
RoundKnows ==
    /\ round \in Rounds
    /\ round.pc = "adopt" =>
         /\ round.newest \in Pools /\ round.original \in Pools /\ Below(round.newest)
         /\ \A a \in round.adoptions : round.newest[a] > round.original[a]

(* What the receipt of an import says at each of its steps.                *)
ImportKnows(i) ==
    /\ importer[i].pc = "waiting" =>
         /\ ledger[i].state = "missing"
         /\ importer[i].base \in Pools /\ importer[i].incoming \in Pools /\ Below(importer[i].incoming)
    /\ importer[i].pc = "prepared" =>
         /\ ledger[i].state = "pending" /\ ledger[i].receipt \in Pools
         /\ Past(store, ledger[i].receipt) /\ Below(ledger[i].receipt)
    /\ importer[i].pc = "committed" =>
         /\ ledger[i].state = "pending" /\ ledger[i].receipt \in Pools
         /\ Past(ledger[i].receipt, store)
    /\ importer[i].pc = "ok" => ledger[i].state = "completed"
    /\ ledger[i].state = "completed" => ledger[i].receipt \in Pools /\ Past(ledger[i].receipt, store)

ReceiptsTrue ==
    journal # NoOp /\ journal.receipt # NoPool =>
        ledger[journal.id] = [state |-> "completed", receipt |-> journal.receipt]

Types == ChainTypes /\ JournalTypes /\ DefaultTypes /\ TaskTypes /\ ImportTypes /\ BoundTypes
Knows == JournalKnows /\ SyncKnows /\ RecoveryKnows /\ ReceiptsTrue /\ OnlyHeldRuns

IInv ==
    /\ Types /\ ChainsKnow /\ Knows /\ RoundKnows
    /\ \A i \in Ops : ImportKnows(i)

-----------------------------------------------------------------------------
LEMMA TypesTypeOK == IInv => TypeOK
<1> SUFFICES ASSUME IInv PROVE TypeOK
  OBVIOUS
<1>1. {mac, store, minted} \subseteq Pools /\ auth \in Generations
      /\ refreshes \in 0..MaxRefreshes /\ runtimes \in 0..MaxRuntime
  BY DEF IInv, Types, ChainTypes
<1>2. journal \in Operations \cup {NoOp} /\ {aged, hold} \subseteq BOOLEAN
      /\ synced \in Pools \cup {NoPool} /\ proof \in Proofs \cup {NoProof}
  BY DEF IInv, Types, JournalTypes, DefaultTypes
<1>3. sync \in Syncs /\ recovery \in Recoveries /\ round \in Rounds
  BY DEF IInv, Types, TaskTypes, RoundKnows
<1>4. stages \subseteq Ops /\ importer \in [Ops -> Imports] /\ ledger \in [Ops -> Receipts]
      /\ nextOp \in 1..(MaxOps + 1) /\ losses \in 0..MaxLosses /\ crashes \in 0..MaxCrashes
  BY DEF IInv, Types, ImportTypes, BoundTypes
<1>5. /\ sync.pc \in {"deliver", "import", "await", "verify", "settle"} => journal # NoOp
      /\ recovery.pc \notin {"idle", "clear"} => journal # NoOp /\ sync.pc = "idle"
  BY DEF IInv, Knows, SyncKnows, RecoveryKnows
<1> QED BY <1>1, <1>2, <1>3, <1>4, <1>5 DEF TypeOK, Syncs, Recoveries, Rounds

LEMMA ReceiptsCommitted == IInv => ReceiptCommitted
BY DEF IInv, Types, ChainTypes, Knows, ReceiptsTrue, ImportKnows, Past, ReceiptCommitted

-----------------------------------------------------------------------------
(* Generations are natural numbers, and the later of two is one of them.   *)
LEMMA GenerationsNat ==
    /\ \A g \in Generations : g \in Nat /\ g >= 1 /\ g <= 1 + MaxRefreshes
    /\ 1 \in Generations /\ MaxRefreshes \in Nat
    /\ \A g \in Nat : g >= 1 /\ g <= 1 + MaxRefreshes => g \in Generations
BY BoundsAssumption DEF Generations, MaxGeneration

LEMMA LaterFacts ==
    ASSUME NEW g \in Generations, NEW h \in Generations
    PROVE  Later(g, h) \in {g, h} /\ Later(g, h) >= g /\ Later(g, h) >= h
BY GenerationsNat DEF Later

(* The importer's merge never goes back, and issues nothing.               *)
LEMMA MergeFacts ==
    ASSUME ChainTypes, NEW incoming \in Pools, NEW current \in Pools
    PROVE  /\ Merge(incoming, current) \in Pools /\ Past(current, Merge(incoming, current))
           /\ Below(incoming) /\ Below(current) => Below(Merge(incoming, current))
<1>1. \A a \in Accounts : /\ incoming[a] \in Generations /\ current[a] \in Generations
                          /\ Merge(incoming, current)[a] = Later(incoming[a], current[a])
    BY DEF Pools, Merge
<1>2. Merge(incoming, current) \in Pools
    BY <1>1, LaterFacts DEF Merge, Pools
<1> QED BY <1>1, <1>2, LaterFacts DEF Past, Below

(* Nor does the report of the VPS.                                         *)
LEMMA ReportedFacts ==
    ASSUME ChainTypes, ChainsKnow
    PROVE  Reported \in Pools /\ Below(Reported)
<1>1. /\ store \in Pools /\ auth \in Generations /\ store[Active] \in Generations
      /\ Reported = [store EXCEPT ![Active] = Later(store[Active], auth)]
    BY ActiveAssumption DEF ChainTypes, Pools, Reported
<1>2. Later(store[Active], auth) \in {store[Active], auth}
    BY <1>1, LaterFacts
<1> HIDE DEF Reported
<1>3. Reported \in Pools
    BY <1>1, <1>2 DEF Pools
<1> QED BY <1>1, <1>2, <1>3, ActiveAssumption DEF ChainsKnow, Below, Pools

(* The journaled operation has an identifier.                              *)
LEMMA OpFacts ==
    ASSUME JournalTypes, journal # NoOp
    PROVE  journal \in Operations /\ journal.id \in Ops /\ journal.incoming \in Pools /\ journal.base \in Pools
BY DEF JournalTypes, Operations

LEMMA OpNotNone == ASSUME NEW r \in Operations PROVE r # NoOp
<1>1. r.id \in Ops
    BY DEF Operations
<1>2. r.id # NoOp.id
    BY <1>1, BoundsAssumption DEF Ops, NoOp
<1> QED BY <1>2

LEMMA PoolsApart == NoPool \notin Pools
<1> SUFFICES ASSUME NoPool \in Pools PROVE FALSE
    OBVIOUS
<1>1. DOMAIN NoPool = Accounts
    BY DEF Pools
<1>2. DOMAIN NoPool = {}
    BY DEF NoPool
<1> QED BY <1>1, <1>2, ActiveAssumption

LEMMA InitInv == Init => IInv
<1> SUFFICES ASSUME Init PROVE IInv
    OBVIOUS
<1>1. ChainTypes /\ ChainsKnow
    BY GenerationsNat, BoundsAssumption, ActiveAssumption
       DEF Init, ChainTypes, ChainsKnow, Below, Pools
<1>2. JournalTypes /\ DefaultTypes /\ TaskTypes
    BY DEF Init, JournalTypes, DefaultTypes, TaskTypes, Syncs, Recoveries, IdleSync, IdleRecovery
<1>3. ImportTypes /\ BoundTypes
    BY BoundsAssumption DEF Init, ImportTypes, BoundTypes, Imports, Receipts, NoImport
<1>4. Knows
    BY DEF Init, Knows, JournalKnows, SyncKnows, RecoveryKnows, ReceiptsTrue, OnlyHeldRuns, Running, NoImport,
           IdleSync, IdleRecovery
<1>5. RoundKnows /\ \A i \in Ops : ImportKnows(i)
    BY DEF Init, RoundKnows, Rounds, IdleRound, ImportKnows, NoImport
<1> QED BY <1>1, <1>2, <1>3, <1>4, <1>5 DEF IInv, Types

-----------------------------------------------------------------------------
(* The parts of the invariant that a step of something else leaves alone.  *)
LEMMA JournalAside ==
    ASSUME IInv, UNCHANGED <<journal, aged, nextOp, ledger>>, \A a \in Accounts : minted'[a] >= minted[a],
           minted' \in Pools
    PROVE  JournalTypes' /\ JournalKnows' /\ ReceiptsTrue'
<1>1. JournalTypes' /\ ReceiptsTrue'
    BY DEF IInv, Types, Knows, JournalTypes, ReceiptsTrue
<1>2. journal # NoOp => journal.incoming \in Pools
    BY OpFacts DEF IInv, Types
<1>3. JournalKnows'
    BY <1>2, GenerationsNat DEF IInv, Types, ChainTypes, Knows, JournalKnows, Below, Pools
<1> QED BY <1>1, <1>3

LEMMA TasksAside ==
    ASSUME IInv, UNCHANGED <<sync, recovery, journal, importer, ledger>>,
           \A a \in Accounts : minted'[a] >= minted[a], minted' \in Pools
    PROVE  TaskTypes' /\ SyncKnows' /\ RecoveryKnows' /\ OnlyHeldRuns'
<1>1. TaskTypes' /\ RecoveryKnows' /\ OnlyHeldRuns'
    BY DEF IInv, Types, Knows, TaskTypes, RecoveryKnows, OnlyHeldRuns, Running
<1>2. sync.pc # "idle" => Below(sync.snapshot)'
    BY GenerationsNat DEF IInv, Types, ChainTypes, Knows, SyncKnows, Below, Pools
<1>3. SyncKnows'
    BY <1>2 DEF IInv, Knows, SyncKnows, Below, Running
<1> QED BY <1>1, <1>3

LEMMA RoundAside ==
    ASSUME IInv, UNCHANGED round, \A a \in Accounts : minted'[a] >= minted[a], minted' \in Pools
    PROVE  RoundKnows'
BY GenerationsNat DEF IInv, Types, ChainTypes, RoundKnows, Below, Pools

LEMMA ImportsAside ==
    ASSUME IInv, UNCHANGED <<importer, ledger, store, minted>>
    PROVE  \A i \in Ops : ImportKnows(i)'
BY DEF IInv, ImportKnows, Past, Below

LEMMA Unminted == ASSUME IInv, UNCHANGED minted
                  PROVE  minted' \in Pools /\ \A a \in Accounts : minted'[a] >= minted[a]
BY GenerationsNat DEF IInv, Types, ChainTypes, Pools

LEMMA ChainsAside ==
    ASSUME IInv, UNCHANGED <<chains>> PROVE ChainTypes' /\ ChainsKnow'
BY DEF IInv, Types, ChainTypes, ChainsKnow, Below, chains

LEMMA DefaultsAside == ASSUME IInv, UNCHANGED defaults PROVE DefaultTypes'
BY DEF IInv, Types, DefaultTypes, defaults

-----------------------------------------------------------------------------
(* A renewal: nothing goes back, and the store moves under a free lease.   *)
LEMMA Renews ==
    ASSUME IInv, ChainTypes', ChainsKnow', \A a \in Accounts : minted'[a] >= minted[a],
           Past(store, store'), LeaseFree \/ UNCHANGED store,
           UNCHANGED <<journal, aged, hold, synced, proof, sync, recovery, round, stages, importer, ledger,
                       nextOp, losses, crashes>>
    PROVE  IInv'
<1>0. minted' \in Pools
    BY DEF ChainTypes
<1>1. DefaultTypes' /\ ImportTypes' /\ BoundTypes'
    BY DEF IInv, Types, DefaultTypes, ImportTypes, BoundTypes
<1>2. JournalTypes' /\ JournalKnows' /\ ReceiptsTrue' /\ TaskTypes' /\ SyncKnows' /\ RecoveryKnows' /\ OnlyHeldRuns'
    BY <1>0, JournalAside, TasksAside
<1>3. RoundKnows'
    BY <1>0, RoundAside
<1>4. ASSUME NEW i \in Ops PROVE ImportKnows(i)'
    <2>1. ImportKnows(i) /\ minted \in Pools /\ store \in Pools /\ store' \in Pools
        BY DEF IInv, Types, ChainTypes
    <2>2. ASSUME NEW pool \in Pools, Below(pool) PROVE \A a \in Accounts : pool[a] <= minted'[a]
        BY <2>1, <2>2, <1>0, GenerationsNat DEF Below, Pools
    <2>3. ASSUME NEW pool \in Pools, Past(pool, store) PROVE Past(pool, store')
        BY <2>1, <2>3, GenerationsNat DEF Past, Pools
    <2>4. importer[i].pc = "prepared" => UNCHANGED store
        BY DEF LeaseFree
    <2>5. importer[i].pc = "waiting" => Below(importer[i].incoming)'
        BY <2>1, <2>2 DEF ImportKnows, Below
    <2>6. importer[i].pc = "prepared" => Below(ledger[i].receipt)' /\ Past(store, ledger[i].receipt)'
        BY <2>1, <2>2, <2>4 DEF ImportKnows, Below, Past
    <2>7. importer[i].pc = "committed" \/ ledger[i].state = "completed" => Past(ledger[i].receipt, store)'
        BY <2>1, <2>3 DEF ImportKnows, Past
    <2> QED BY <2>1, <2>5, <2>6, <2>7 DEF ImportKnows
<1> QED BY <1>1, <1>2, <1>3, <1>4 DEF IInv, Types, Knows

(* A refresh issues the next generation, of which there is one.            *)
LEMMA MintFacts ==
    ASSUME IInv, NEW a \in Accounts, Mint(a), refreshes < MaxRefreshes
    PROVE  /\ minted' \in Pools /\ minted'[a] = minted[a] + 1 /\ minted'[a] \in Generations
           /\ \A b \in Accounts : minted'[b] >= minted[b] /\ minted'[b] <= 2 + refreshes
           /\ refreshes + 1 \in 0..MaxRefreshes
<1>1. /\ minted \in Pools /\ refreshes \in 0..MaxRefreshes /\ MaxRefreshes \in Nat
      /\ \A b \in Accounts : minted[b] \in Nat /\ minted[b] >= 1 /\ minted[b] <= 1 + refreshes
    BY GenerationsNat DEF IInv, Types, ChainTypes, ChainsKnow, Pools
<1>2. /\ minted' = [minted EXCEPT ![a] = minted[a] + 1] /\ refreshes + 1 <= MaxRefreshes
    BY <1>1 DEF Mint
<1>3. minted[a] + 1 \in Generations
    BY <1>1, <1>2, GenerationsNat
<1> QED BY <1>1, <1>2, <1>3 DEF Pools

LEMMA RenewSteps ==
    ASSUME IInv, RuntimeRefresh \/ (\E a \in Accounts : MacRenew(a) \/ DaemonRefresh(a))
    PROVE  IInv'
<1>0. /\ ChainTypes /\ ChainsKnow /\ store \in Pools /\ mac \in Pools /\ minted \in Pools
      /\ \A b \in Accounts : minted[b] \in Nat /\ store[b] \in Nat /\ mac[b] \in Nat
    BY GenerationsNat DEF IInv, Types, ChainTypes, Pools
<1>1. ASSUME NEW a \in Accounts, MacRenew(a) PROVE IInv'
    <2>1. /\ Mint(a) /\ refreshes < MaxRefreshes /\ mac' = [mac EXCEPT ![a] = minted'[a]]
          /\ refreshes' = refreshes + 1 /\ UNCHANGED <<store, auth, runtimes>>
        BY <1>1 DEF MacRenew
    <2>2. UNCHANGED <<journal, aged, hold, synced, proof, sync, recovery, round, stages, importer, ledger,
                      nextOp, losses, crashes>>
        BY <1>1 DEF MacRenew, defaults, imports, bounds
    <2>3. /\ minted' \in Pools /\ minted'[a] \in Generations /\ refreshes' \in 0..MaxRefreshes
          /\ \A b \in Accounts : minted'[b] >= minted[b] /\ minted'[b] <= 2 + refreshes
        BY <2>1, MintFacts
    <2>4. mac' \in Pools /\ \A b \in Accounts : mac'[b] = IF b = a THEN minted'[b] ELSE mac[b]
        BY <1>0, <2>1, <2>3 DEF Pools
    <2>5. ChainTypes'
        BY <1>0, <2>1, <2>3, <2>4 DEF ChainTypes
    <2>6. \A b \in Accounts : minted'[b] \in Nat
        BY <2>3, GenerationsNat DEF Pools
    <2>7. ChainsKnow'
        <3>1. \A b \in Accounts : mac'[b] <= minted'[b] /\ store'[b] <= minted'[b]
            BY <1>0, <2>1, <2>3, <2>4, <2>6 DEF ChainsKnow, Below
        <3>2. auth' <= minted'[Active]
            BY <1>0, <2>1, <2>3, <2>6, GenerationsNat, ActiveAssumption DEF ChainsKnow, ChainTypes
        <3>3. \A b \in Accounts : minted'[b] <= 1 + refreshes'
            BY <1>0, <2>1, <2>3 DEF ChainTypes
        <3> QED BY <3>1, <3>2, <3>3 DEF ChainsKnow, Below
    <2>8. Past(store, store')
        BY <1>0, <2>1 DEF Past
    <2> QED BY <2>1, <2>2, <2>3, <2>5, <2>7, <2>8, Renews
<1>2. ASSUME NEW a \in Accounts, DaemonRefresh(a) PROVE IInv'
    <2>1. /\ Mint(a) /\ refreshes < MaxRefreshes /\ store' = [store EXCEPT ![a] = store[a] + 1]
          /\ refreshes' = refreshes + 1 /\ auth' = store'[Active] /\ LeaseFree /\ store[a] = minted[a]
          /\ UNCHANGED <<mac, runtimes>>
        BY <1>2 DEF DaemonRefresh
    <2>2. UNCHANGED <<journal, aged, hold, synced, proof, sync, recovery, round, stages, importer, ledger,
                      nextOp, losses, crashes>>
        BY <1>2 DEF DaemonRefresh, defaults, imports, bounds
    <2>3. /\ minted' \in Pools /\ minted'[a] = minted[a] + 1 /\ minted'[a] \in Generations
          /\ refreshes' \in 0..MaxRefreshes
          /\ \A b \in Accounts : minted'[b] >= minted[b] /\ minted'[b] <= 2 + refreshes
        BY <2>1, MintFacts
    <2>4. store' \in Pools /\ \A b \in Accounts : store'[b] = IF b = a THEN minted'[b] ELSE store[b]
        BY <1>0, <2>1, <2>3 DEF Pools
    <2>5. ChainTypes'
        BY <1>0, <2>1, <2>3, <2>4, ActiveAssumption DEF ChainTypes, Pools
    <2>6. \A b \in Accounts : minted'[b] \in Nat
        BY <2>3, GenerationsNat DEF Pools
    <2>7. ChainsKnow'
        <3>1. \A b \in Accounts : mac'[b] <= minted'[b] /\ store'[b] <= minted'[b]
            BY <1>0, <2>1, <2>3, <2>4, <2>6 DEF ChainsKnow, Below
        <3>2. auth' <= minted'[Active]
            BY <2>1, <3>1, ActiveAssumption
        <3>3. \A b \in Accounts : minted'[b] <= 1 + refreshes'
            BY <1>0, <2>1, <2>3 DEF ChainTypes
        <3> QED BY <3>1, <3>2, <3>3 DEF ChainsKnow, Below
    <2>8. Past(store, store')
        BY <1>0, <2>1, <2>3, <2>4 DEF Past
    <2> QED BY <2>1, <2>2, <2>3, <2>5, <2>7, <2>8, Renews
<1>3. CASE RuntimeRefresh
    <2>1. /\ Mint(Active) /\ refreshes < MaxRefreshes /\ auth = minted[Active] /\ auth' = auth + 1
          /\ refreshes' = refreshes + 1 /\ runtimes' = runtimes + 1 /\ runtimes < MaxRuntime
          /\ UNCHANGED <<mac, store>>
        BY <1>3 DEF RuntimeRefresh
    <2>2. UNCHANGED <<journal, aged, hold, synced, proof, sync, recovery, round, stages, importer, ledger,
                      nextOp, losses, crashes>>
        BY <1>3 DEF RuntimeRefresh, defaults, imports, bounds
    <2>3. /\ minted' \in Pools /\ minted'[Active] = minted[Active] + 1 /\ minted'[Active] \in Generations
          /\ refreshes' \in 0..MaxRefreshes
          /\ \A b \in Accounts : minted'[b] >= minted[b] /\ minted'[b] <= 2 + refreshes
        BY <2>1, MintFacts, ActiveAssumption
    <2>4. ChainTypes'
        BY <1>0, <2>1, <2>3, BoundsAssumption DEF ChainTypes
    <2>5. \A b \in Accounts : minted'[b] \in Nat
        BY <2>3, GenerationsNat DEF Pools
    <2>6. ChainsKnow'
        <3>1. \A b \in Accounts : mac'[b] <= minted'[b] /\ store'[b] <= minted'[b]
            BY <1>0, <2>1, <2>3, <2>5 DEF ChainsKnow, Below
        <3>2. \A b \in Accounts : minted'[b] <= 1 + refreshes'
            BY <1>0, <2>1, <2>3 DEF ChainTypes
        <3>3. auth' <= minted'[Active]
            BY <2>1, <2>3, <2>5, ActiveAssumption
        <3> QED BY <3>1, <3>2, <3>3 DEF ChainsKnow, Below
    <2>7. Past(store, store')
        BY <1>0, <2>1 DEF Past
    <2> QED BY <2>1, <2>2, <2>3, <2>4, <2>6, <2>7, Renews
<1> QED BY <1>1, <1>2, <1>3

-----------------------------------------------------------------------------
(* A request for a synchronisation, whatever it starts.                    *)
LEMMA ScheduledFacts ==
    ASSUME IInv, NEW fresh, NEW held, Scheduled(fresh, mac, held),
           UNCHANGED <<journal, importer, ledger, minted>>
    PROVE  TaskTypes' /\ SyncKnows' /\ RecoveryKnows' /\ OnlyHeldRuns'
<1>0. TaskTypes /\ mac \in Pools /\ Below(mac)
    BY DEF IInv, Types, ChainTypes, ChainsKnow
<1>1. OnlyHeldRuns'
    BY DEF IInv, Knows, OnlyHeldRuns, Running
<1>2. CASE UNCHANGED <<sync, recovery>>
    BY <1>2, TasksAside, Unminted
<1>3. CASE /\ sync.pc = "idle" /\ UNCHANGED sync
           /\ recovery' = IdleRecovery \/ (journal # NoOp /\ recovery' = [IdleRecovery EXCEPT !.pc = "stage"])
    <2>1. /\ recovery' \in Recoveries
          /\ recovery'.pc = "idle" \/ (journal # NoOp /\ recovery'.pc = "stage")
        BY <1>3 DEF IdleRecovery, Recoveries
    <2> QED BY <1>0, <1>1, <1>3, <2>1 DEF TaskTypes, SyncKnows, RecoveryKnows
<1>4. CASE /\ journal = NoOp /\ recovery' = IdleRecovery
           /\ sync' = [IdleSync EXCEPT !.pc = "capture", !.snapshot = mac]
    <2>1. sync' = [pc |-> "capture", snapshot |-> mac, disposition |-> None, receipt |-> NoPool]
        BY <1>4 DEF IdleSync
    <2>2. recovery' \in Recoveries /\ recovery'.pc = "idle"
        BY <1>4 DEF IdleRecovery, Recoveries
    <2>3. sync' \in Syncs
        BY <1>0, <2>1 DEF Syncs
    <2> QED BY <1>0, <1>1, <1>4, <2>1, <2>2, <2>3 DEF TaskTypes, SyncKnows, RecoveryKnows, Below
<1> QED BY <1>2, <1>3, <1>4 DEF Scheduled

(* A step of the Mac's tasks that touches no account and nothing of the    *)
(* VPS.                                                                    *)
LEMMA OfTasks ==
    ASSUME IInv, DefaultTypes', RoundKnows', TaskTypes', SyncKnows', RecoveryKnows', OnlyHeldRuns',
           UNCHANGED <<mac, store, auth, minted, refreshes, runtimes, journal, aged, stages, importer, ledger>>,
           UNCHANGED nextOp, BoundTypes'
    PROVE  IInv'
<1>1. ChainTypes' /\ ChainsKnow'
    BY ChainsAside DEF chains
<1>2. JournalTypes' /\ JournalKnows' /\ ReceiptsTrue'
    BY JournalAside, Unminted
<1>3. ImportTypes' /\ \A i \in Ops : ImportKnows(i)'
    BY ImportsAside DEF IInv, Types, ImportTypes
<1> QED BY <1>1, <1>2, <1>3 DEF IInv, Types, Knows

(* What asks for a synchronisation.                                        *)
LEMMA ScheduleSteps == ASSUME IInv, Schedule \/ ClearClaims PROVE IInv'
<1>1. UNCHANGED <<mac, store, auth, minted, refreshes, runtimes, journal, aged, round, stages, importer, ledger,
                  nextOp, losses, crashes>>
    BY DEF Schedule, ClearClaims, chains, imports, bounds
<1>2. Scheduled(FALSE, mac, hold) \/ Scheduled(TRUE, mac, FALSE)
    BY DEF Schedule, ClearClaims
<1>3. TaskTypes' /\ SyncKnows' /\ RecoveryKnows' /\ OnlyHeldRuns'
    BY <1>1, <1>2, ScheduledFacts
<1>4. DefaultTypes'
    BY DEF IInv, Types, DefaultTypes, Schedule, ClearClaims, defaults
<1>5. RoundKnows' /\ BoundTypes'
    BY <1>1, RoundAside, Unminted DEF IInv, Types, BoundTypes
<1> QED BY <1>1, <1>3, <1>4, <1>5, OfTasks

(* The plan of a round, and its end.                                       *)
LEMMA PushedFacts ==
    ASSUME IInv, NEW needed, Pushed(needed), UNCHANGED <<journal, importer, ledger, minted>>
    PROVE  TaskTypes' /\ SyncKnows' /\ RecoveryKnows' /\ OnlyHeldRuns'
BY ScheduledFacts, TasksAside, Unminted DEF Pushed

LEMMA RoundSteps == ASSUME IInv, RoundPlan \/ RoundEnd PROVE IInv'
<1>1. UNCHANGED <<mac, store, auth, minted, refreshes, runtimes, journal, aged, stages, importer, ledger,
                  nextOp, losses, crashes, hold, synced, proof>>
    BY DEF RoundPlan, RoundEnd, chains, defaults, imports, bounds
<1>2. (\E needed : Pushed(needed)) \/ UNCHANGED <<sync, recovery>>
    BY DEF RoundPlan, RoundEnd
<1>3. TaskTypes' /\ SyncKnows' /\ RecoveryKnows' /\ OnlyHeldRuns'
    BY <1>1, <1>2, PushedFacts, TasksAside, Unminted
<1>4. DefaultTypes' /\ BoundTypes'
    BY <1>1 DEF IInv, Types, DefaultTypes, BoundTypes
<1>5. RoundKnows'
    <2>1. CASE UNCHANGED round
        BY <1>1, <2>1, RoundAside, Unminted
    <2>2. CASE round' = IdleRound
        BY <2>2 DEF RoundKnows, Rounds, IdleRound
    <2>3. CASE /\ RoundPlan
               /\ round' = [pc |-> "adopt", original |-> mac, newest |-> Reported,
                            adoptions |-> {a \in Accounts : Reported[a] > mac[a]},
                            push |-> \E a \in Accounts : Later(mac[a], Reported[a]) > store[a]]
        <3> DEFINE push == \E a \in Accounts : Later(mac[a], Reported[a]) > store[a]
                   new == {a \in Accounts : Reported[a] > mac[a]}
        <3>1. Reported \in Pools /\ Below(Reported) /\ mac \in Pools
            BY ReportedFacts DEF IInv, Types, ChainTypes
        <3>2. push \in BOOLEAN /\ new \in SUBSET Accounts /\ \A a \in new : Reported[a] > mac[a]
            OBVIOUS
        <3>3. round' = [pc |-> "adopt", original |-> mac, newest |-> Reported, adoptions |-> new, push |-> push]
            BY <2>3
        <3> HIDE DEF new, push
        <3>4. round' \in Rounds
            BY <3>1, <3>2, <3>3 DEF Rounds
        <3> QED BY <1>1, <3>1, <3>2, <3>3, <3>4 DEF RoundKnows, Below
    <2> QED BY <2>1, <2>2, <2>3 DEF RoundPlan, RoundEnd
<1> QED BY <1>1, <1>3, <1>4, <1>5, OfTasks

(* One adoption takes a newer generation, or nothing.                      *)
LEMMA AdoptFacts ==
    ASSUME IInv, NEW a \in Accounts, Adopt(a)
    PROVE  mac' \in Pools /\ Past(mac, mac') /\ Below(mac')
<1>1. /\ mac \in Pools /\ Below(mac) /\ round.newest \in Pools /\ Below(round.newest) /\ minted \in Pools
      /\ a \in round.adoptions /\ round.newest[a] > round.original[a]
      /\ UNCHANGED mac \/ (mac[a] = round.original[a] /\ mac' = [mac EXCEPT ![a] = round.newest[a]])
    BY DEF IInv, Types, ChainTypes, ChainsKnow, RoundKnows, Adopt, Committed
<1>2. \A b \in Accounts : mac[b] \in Nat /\ round.newest[b] \in Generations /\ round.newest[b] \in Nat
    BY <1>1, GenerationsNat DEF Pools
<1>3. CASE UNCHANGED mac
    BY <1>1, <1>2, <1>3 DEF Past, Below
<1>4. CASE mac[a] = round.original[a] /\ mac' = [mac EXCEPT ![a] = round.newest[a]]
    <2>1. \A b \in Accounts : mac'[b] = IF b = a THEN round.newest[a] ELSE mac[b]
        BY <1>1, <1>4 DEF Pools
    <2>2. mac' \in Pools
        BY <1>1, <1>2, <1>4 DEF Pools
    <2>3. Past(mac, mac')
        BY <1>1, <1>2, <1>4, <2>1 DEF Past
    <2>4. Below(mac')
        BY <1>1, <2>1 DEF Below
    <2> QED BY <2>2, <2>3, <2>4
<1> QED BY <1>1, <1>3, <1>4

LEMMA AdoptSteps == ASSUME IInv, NEW a \in Accounts, Adopt(a) PROVE IInv'
<1>1. /\ UNCHANGED <<store, auth, minted, refreshes, runtimes, journal, aged, hold, synced, proof, sync, recovery,
                     stages, importer, ledger, nextOp, losses, crashes>>
      /\ round' = [round EXCEPT !.adoptions = round.adoptions \ {a}]
    BY DEF Adopt, defaults, imports, bounds
<1>2. ChainTypes' /\ ChainsKnow'
    BY <1>1, AdoptFacts DEF IInv, Types, ChainTypes, ChainsKnow, Below
<1>3. JournalTypes' /\ JournalKnows' /\ ReceiptsTrue' /\ TaskTypes' /\ SyncKnows' /\ RecoveryKnows' /\ OnlyHeldRuns'
    BY <1>1, JournalAside, TasksAside, Unminted
<1>4. DefaultTypes' /\ BoundTypes' /\ ImportTypes' /\ \A i \in Ops : ImportKnows(i)'
    BY <1>1, ImportsAside DEF IInv, Types, DefaultTypes, BoundTypes, ImportTypes
<1>5. RoundKnows'
    <2>1. round \in Rounds
        BY DEF IInv, RoundKnows
    <2>2. round' \in Rounds
        BY <1>1, <2>1 DEF Rounds
    <2> QED BY <1>1, <2>1, <2>2 DEF IInv, RoundKnows, Rounds, Below
<1> QED BY <1>2, <1>3, <1>4, <1>5 DEF IInv, Types, Knows

-----------------------------------------------------------------------------
(* Losses are counted.                                                     *)
LEMMA LossFacts == ASSUME BoundTypes, Lose \/ Lossless PROVE losses' \in 0..MaxLosses
BY BoundsAssumption DEF BoundTypes, Lose, Lossless

(* While the synchronisation task is busy, no recovery is.                 *)
LEMMA SyncMoves ==
    ASSUME IInv, sync.pc # "idle", sync' \in Syncs, SyncKnows', Lose \/ Lossless, stages' \subseteq Ops,
           UNCHANGED <<mac, store, auth, minted, refreshes, runtimes, journal, aged, hold, synced, proof,
                       recovery, round, importer, ledger, nextOp, crashes>>
    PROVE  IInv'
<1>1. ChainTypes' /\ ChainsKnow'
    BY ChainsAside DEF chains
<1>2. JournalTypes' /\ JournalKnows' /\ ReceiptsTrue' /\ RoundKnows'
    BY JournalAside, RoundAside, Unminted
<1>3. ImportTypes' /\ \A i \in Ops : ImportKnows(i)'
    BY ImportsAside DEF IInv, Types, ImportTypes
<1>4. DefaultTypes' /\ TaskTypes' /\ BoundTypes'
    BY LossFacts DEF IInv, Types, DefaultTypes, TaskTypes, BoundTypes
<1>5. RecoveryKnows' /\ OnlyHeldRuns'
    BY DEF IInv, Types, TaskTypes, Recoveries, Knows, RecoveryKnows, OnlyHeldRuns, Running
<1> QED BY <1>1, <1>2, <1>3, <1>4, <1>5 DEF IInv, Types, Knows

(* A new program counter, with a disposition or a receipt.                 *)
LEMMA SyncGoesFacts ==
    ASSUME sync \in Syncs, NEW pc \in {"import", "await", "verify", "finish"}, SyncGoes(pc)
    PROVE  sync' \in Syncs /\ sync'.pc = pc /\ sync'.snapshot = sync.snapshot
                           /\ sync'.disposition = sync.disposition
BY DEF SyncGoes, Syncs

LEMMA SyncSettlesFacts ==
    ASSUME sync \in Syncs, NEW d \in Dispositions, SyncSettles(d)
    PROVE  sync' \in Syncs /\ sync'.pc = "settle" /\ sync'.snapshot = sync.snapshot /\ sync'.disposition = d
BY DEF SyncSettles, Syncs

LEMMA SyncEndsFacts ==
    ASSUME sync \in Syncs, NEW d \in Dispositions, NEW r \in Pools \cup {NoPool}, SyncEnds(d, r)
    PROVE  sync' \in Syncs /\ sync'.pc = "finish" /\ sync'.snapshot = sync.snapshot
<1>1. sync' = [pc |-> "finish", snapshot |-> sync.snapshot, disposition |-> d, receipt |-> r]
    BY DEF SyncEnds, Syncs
<1>2. sync.snapshot \in Pools \cup {NoPool}
    BY DEF Syncs
<1> QED BY <1>1, <1>2 DEF Syncs

(* Nothing needs to be sent, or the journal records what will be.          *)
LEMMA CaptureSteps == ASSUME IInv, Capture PROVE IInv'
<1>0. /\ sync.pc = "capture" /\ journal = NoOp /\ sync \in Syncs /\ sync.snapshot \in Pools /\ Below(sync.snapshot)
      /\ UNCHANGED <<mac, store, auth, minted, refreshes, runtimes, hold, synced, proof,
                     recovery, round, stages, importer, ledger, crashes>>
      /\ Lose \/ Lossless
    BY DEF IInv, Types, TaskTypes, Knows, SyncKnows, Capture, chains, defaults, imports
<1>1. CASE /\ SyncEnds("rejected", NoPool) \/ SyncEnds("success", NoPool) \/ SyncEnds("success", proof.committed)
           /\ UNCHANGED <<journal, aged, nextOp>>
    <2>1. proof.committed \in Pools \cup {NoPool} /\ {"rejected", "success"} \subseteq Dispositions
        BY DEF IInv, Types, DefaultTypes, Proofs, NoProof, Dispositions
    <2>2. sync' \in Syncs /\ sync'.pc = "finish" /\ sync'.snapshot = sync.snapshot
        BY <1>0, <1>1, <2>1, SyncEndsFacts
    <2>3. SyncKnows'
        BY <1>0, <2>2 DEF SyncKnows, Below
    <2>4. stages' \subseteq Ops
        BY <1>0 DEF IInv, Types, ImportTypes
    <2> QED BY <1>0, <1>1, <2>2, <2>3, <2>4, SyncMoves
<1>2. CASE nextOp <= MaxOps /\ Begun /\ aged' = FALSE /\ nextOp' = nextOp + 1 /\ SyncGoes("deliver")
    <2>1. sync' \in Syncs /\ sync'.pc = "deliver" /\ sync'.snapshot = sync.snapshot
        BY <1>0, <1>2 DEF SyncGoes, Syncs
    <2>2. /\ journal' = [id |-> nextOp, base |-> store, incoming |-> sync.snapshot,
                         phase |-> "pending", receipt |-> NoPool]
          /\ nextOp \in Ops /\ nextOp \in Nat /\ nextOp + 1 \in 1..(MaxOps + 1)
        BY <1>2, BoundsAssumption DEF Begun, IInv, Types, BoundTypes, Ops
    <2>3. journal' \in Operations /\ journal' # NoOp
        <3>1. store \in Pools
            BY DEF IInv, Types, ChainTypes
        <3>2. journal' \in Operations
            BY <1>0, <2>2, <3>1 DEF Operations
        <3> QED BY <3>2, OpNotNone
    <2>4. ChainTypes' /\ ChainsKnow' /\ RoundKnows'
        BY <1>0, ChainsAside, RoundAside, Unminted DEF chains
    <2>5. JournalTypes' /\ DefaultTypes' /\ TaskTypes' /\ ImportTypes' /\ BoundTypes'
        BY <1>0, <1>2, <2>1, <2>2, <2>3, LossFacts
           DEF IInv, Types, JournalTypes, DefaultTypes, TaskTypes, ImportTypes, BoundTypes
    <2>6. JournalKnows'
        <3>1. \A i \in Ops : i \in Nat /\ (i >= nextOp => ledger[i].state = "missing")
            BY BoundsAssumption DEF IInv, Knows, JournalKnows, Ops
        <3> QED BY <1>0, <1>2, <2>2, <3>1 DEF JournalKnows, Below
    <2>7. \A i \in Ops : ~Running(i)
        BY <1>0 DEF IInv, Knows, OnlyHeldRuns
    <2>8. ledger[nextOp].state = "missing"
        BY <2>2 DEF IInv, Knows, JournalKnows
    <2>9. SyncKnows'
        BY <1>0, <2>1, <2>2, <2>3, <2>7, <2>8 DEF SyncKnows, Below, Running
    <2>10. RecoveryKnows' /\ ReceiptsTrue' /\ OnlyHeldRuns'
        BY <1>0, <2>2, <2>7 DEF IInv, Types, TaskTypes, Recoveries, Knows, RecoveryKnows, ReceiptsTrue,
                                OnlyHeldRuns, Running
    <2>11. \A i \in Ops : ImportKnows(i)'
        BY <1>0, ImportsAside
    <2> QED BY <2>4, <2>5, <2>6, <2>9, <2>10, <2>11 DEF IInv, Types, Knows
<1> QED BY <1>1, <1>2 DEF Capture

(* Staging: nothing of it runs.                                            *)
LEMMA DeliverSteps == ASSUME IInv, Deliver PROVE IInv'
<1>0. /\ sync.pc = "deliver" /\ journal # NoOp /\ sync \in Syncs /\ sync.snapshot \in Pools /\ Below(sync.snapshot)
      /\ ledger[journal.id].state = "missing" /\ ~Running(journal.id) /\ journal.id \in Ops /\ stages \subseteq Ops
      /\ UNCHANGED <<mac, store, auth, minted, refreshes, runtimes, journal, aged, hold, synced, proof,
                     recovery, round, importer, ledger, nextOp, crashes>>
      /\ Lose \/ Lossless
    BY OpFacts DEF IInv, Types, TaskTypes, ImportTypes, Knows, SyncKnows, Deliver, chains, defaults
<1>1. stages' \subseteq Ops
    BY <1>0 DEF Deliver
<1>2. SyncGoes("import") \/ \E d \in Dispositions : SyncSettles(d)
    BY DEF Deliver, Dispositions
<1>3. /\ sync' \in Syncs /\ sync'.snapshot = sync.snapshot /\ sync'.pc \in {"import", "settle"}
    BY <1>0, <1>2, SyncGoesFacts, SyncSettlesFacts
<1>4. SyncKnows'
    BY <1>0, <1>3 DEF SyncKnows, Below, Running
<1> QED BY <1>0, <1>1, <1>3, <1>4, SyncMoves

(* The import is running, or it is proven not to be.                       *)
LEMMA StartImportSteps == ASSUME IInv, StartImport PROVE IInv'
<1>0. /\ sync.pc = "import" /\ journal # NoOp /\ sync \in Syncs /\ sync.snapshot \in Pools /\ Below(sync.snapshot)
      /\ ledger[journal.id].state = "missing" /\ ~Running(journal.id)
      /\ journal \in Operations /\ journal.id \in Ops /\ journal.base \in Pools /\ journal.incoming \in Pools
      /\ Below(journal.incoming) /\ stages \subseteq Ops
      /\ UNCHANGED <<mac, store, auth, minted, refreshes, runtimes, journal, aged, hold, synced, proof,
                     recovery, round, ledger, nextOp, crashes>>
      /\ Lose \/ Lossless
    BY OpFacts DEF IInv, Types, TaskTypes, ImportTypes, Knows, JournalKnows, SyncKnows, StartImport, chains, defaults
<1>1. stages' \subseteq Ops
    BY <1>0 DEF StartImport
<1>2. CASE UNCHANGED importer /\ (SyncSettles("retryable") \/ SyncSettles("cleanupUnresolved"))
    <2>1. sync' \in Syncs /\ sync'.snapshot = sync.snapshot /\ sync'.pc = "settle"
        BY <1>0, <1>2, SyncSettlesFacts DEF Dispositions
    <2>2. SyncKnows'
        BY <1>0, <1>2, <2>1 DEF SyncKnows, Below, Running
    <2> QED BY <1>0, <1>1, <1>2, <2>1, <2>2, SyncMoves
<1>3. CASE /\ importer' = [importer EXCEPT ![journal.id] =
                            [pc |-> "waiting", base |-> journal.base, incoming |-> journal.incoming]]
           /\ SyncGoes("await")
    <2> DEFINE w == [pc |-> "waiting", base |-> journal.base, incoming |-> journal.incoming]
    <2>1. sync' \in Syncs /\ sync'.snapshot = sync.snapshot /\ sync'.pc = "await"
        BY <1>0, <1>3, SyncGoesFacts
    <2>2. w \in Imports
        BY <1>0 DEF Imports
    <2>3. importer \in [Ops -> Imports]
        BY DEF IInv, Types, ImportTypes
    <2>4. importer' \in [Ops -> Imports] /\ \A i \in Ops : importer'[i] = IF i = journal.id THEN w ELSE importer[i]
        BY <1>0, <1>3, <2>2, <2>3
    <2>5. ChainTypes' /\ ChainsKnow' /\ RoundKnows' /\ JournalTypes' /\ JournalKnows' /\ ReceiptsTrue'
        BY <1>0, ChainsAside, RoundAside, JournalAside, Unminted DEF chains
    <2>6. DefaultTypes' /\ TaskTypes' /\ ImportTypes' /\ BoundTypes'
        BY <1>0, <1>1, <2>1, <2>4, LossFacts DEF IInv, Types, DefaultTypes, TaskTypes, ImportTypes, BoundTypes
    <2>7. SyncKnows' /\ RecoveryKnows'
        BY <1>0, <2>1 DEF IInv, Types, TaskTypes, Recoveries, Knows, SyncKnows, RecoveryKnows, Below
    <2>8. OnlyHeldRuns'
        BY <1>0, <2>4 DEF IInv, Knows, OnlyHeldRuns, Running
    <2>9. ASSUME NEW i \in Ops PROVE ImportKnows(i)'
        <3>1. CASE i = journal.id
            BY <1>0, <2>4, <3>1 DEF ImportKnows, Below
        <3>2. CASE i # journal.id
            BY <1>0, <2>4, <3>2 DEF IInv, ImportKnows, Below, Past
        <3> QED BY <3>1, <3>2
    <2> QED BY <2>5, <2>6, <2>7, <2>8, <2>9 DEF IInv, Types, Knows
<1>4. \/ UNCHANGED importer /\ (SyncSettles("retryable") \/ SyncSettles("cleanupUnresolved"))
      \/ /\ importer' = [importer EXCEPT ![journal.id] =
                            [pc |-> "waiting", base |-> journal.base, incoming |-> journal.incoming]]
         /\ SyncGoes("await")
    BY DEF StartImport
<1> QED BY <1>2, <1>3, <1>4

(* A completed receipt that the journal records is the one of the ledger.  *)
LEMMA RecordedFacts ==
    ASSUME IInv, journal # NoOp, ledger[journal.id].state = "completed",
           Recorded(ledger[journal.id].receipt), UNCHANGED <<aged, nextOp, ledger, minted>>
    PROVE  /\ JournalTypes' /\ JournalKnows' /\ ReceiptsTrue' /\ journal' # NoOp /\ journal'.id = journal.id
<1>1. /\ journal \in Operations /\ journal.id \in Ops /\ ledger[journal.id] \in Receipts
      /\ aged \in BOOLEAN /\ JournalKnows
    BY OpFacts DEF IInv, Types, JournalTypes, ImportTypes, Knows
<1>2. journal' = [journal EXCEPT !.receipt = ledger[journal.id].receipt]
    BY DEF Recorded
<1>3. /\ journal' \in Operations /\ journal'.id = journal.id /\ journal'.incoming = journal.incoming
      /\ journal'.receipt = ledger[journal.id].receipt
    BY <1>1, <1>2 DEF Operations, Receipts
<1>4. journal' # NoOp
    BY <1>3, OpNotNone
<1>5. ledger[journal.id] = [state |-> "completed", receipt |-> ledger[journal.id].receipt]
    BY <1>1 DEF Receipts
<1> QED BY <1>1, <1>3, <1>4, <1>5 DEF JournalTypes, JournalKnows, ReceiptsTrue, Below

(* The exit of an importer that its answer reports.                        *)
LEMMA ExitFacts ==
    ASSUME IInv, NEW i \in Ops, importer[i].pc \in {"ok", "failed"},
           importer' = [importer EXCEPT ![i] = NoImport],
           UNCHANGED <<ledger, store, minted, stages>>
    PROVE  /\ ImportTypes' /\ \A j \in Ops : ImportKnows(j)'
           /\ ~Running(i)' /\ \A j \in Ops : Running(j)' => Running(j)
<1>1. importer \in [Ops -> Imports] /\ NoImport \in Imports /\ NoImport.pc = "none"
    BY DEF IInv, Types, ImportTypes, Imports, NoImport
<1>2. importer' \in [Ops -> Imports] /\ \A j \in Ops : importer'[j] = IF j = i THEN NoImport ELSE importer[j]
    BY <1>1
<1>3. ASSUME NEW j \in Ops PROVE ImportKnows(j)'
    <2>1. ImportKnows(j)
        BY DEF IInv
    <2>2. CASE j = i
        BY <1>1, <1>2, <2>1, <2>2 DEF ImportKnows, Past
    <2>3. CASE j # i
        BY <1>2, <2>1, <2>3 DEF ImportKnows, Past, Below
    <2> QED BY <2>2, <2>3
<1>4. ~Running(i)' /\ \A j \in Ops : Running(j)' => Running(j)
    BY <1>1, <1>2 DEF Running
<1> QED BY <1>2, <1>3, <1>4 DEF IInv, Types, ImportTypes

(* The answer is read: it is the exit of the import, or it was lost.       *)
LEMMA AwaitSteps == ASSUME IInv, Await PROVE IInv'
<1>0. /\ sync.pc = "await" /\ journal # NoOp /\ sync \in Syncs /\ sync.snapshot \in Pools /\ Below(sync.snapshot)
      /\ journal.id \in Ops /\ stages \subseteq Ops
      /\ UNCHANGED <<mac, store, auth, minted, refreshes, runtimes, aged, hold, synced, proof,
                     recovery, round, stages, ledger, nextOp, crashes>>
      /\ Lose \/ Lossless
    BY OpFacts DEF IInv, Types, TaskTypes, ImportTypes, Knows, SyncKnows, Await, chains, defaults
<1>1. CASE UNCHANGED <<journal, importer>> /\ SyncSettles("outcomeUnknown")
    <2>1. sync' \in Syncs /\ sync'.snapshot = sync.snapshot /\ sync'.pc = "settle"
          /\ sync'.disposition = "outcomeUnknown"
        BY <1>0, <1>1, SyncSettlesFacts DEF Dispositions
    <2>2. SyncKnows'
        BY <1>0, <1>1, <2>1 DEF SyncKnows, Below, Holds
    <2> QED BY <1>0, <1>1, <2>1, <2>2, SyncMoves
<1>2. CASE /\ importer[journal.id].pc \in {"ok", "failed"}
           /\ importer' = [importer EXCEPT ![journal.id] = NoImport]
           /\ \/ UNCHANGED journal /\ \E d \in Dispositions : SyncSettles(d)
              \/ importer[journal.id].pc = "ok" /\ Recorded(ledger[journal.id].receipt) /\ SyncGoes("verify")
    <2>1. /\ ImportTypes' /\ \A j \in Ops : ImportKnows(j)' /\ (Running(j)' => Running(j))
          /\ importer'[journal.id] = NoImport
        <3>1. ASSUME NEW i \in Ops, i = journal.id
              PROVE  ImportTypes' /\ \A j \in Ops : ImportKnows(j)' /\ (Running(j)' => Running(j))
            BY <1>0, <1>2, <3>1, ExitFacts
        <3>2. importer'[journal.id] = NoImport
            BY <1>0, <1>2 DEF IInv, Types, ImportTypes
        <3> QED BY <1>0, <3>1, <3>2
    <2>2. sync' \in Syncs /\ sync'.snapshot = sync.snapshot /\ sync'.pc \in {"settle", "verify"}
        BY <1>0, <1>2, SyncSettlesFacts, SyncGoesFacts
    <2>3. /\ JournalTypes' /\ JournalKnows' /\ ReceiptsTrue' /\ journal' # NoOp /\ journal'.id = journal.id
        <3>1. CASE UNCHANGED journal
            BY <1>0, <3>1, JournalAside, Unminted
        <3>2. CASE importer[journal.id].pc = "ok" /\ Recorded(ledger[journal.id].receipt)
            <4>1. ledger[journal.id].state = "completed"
                BY <1>0, <3>2 DEF IInv, ImportKnows
            <4> QED BY <1>0, <3>2, <4>1, RecordedFacts
        <3> QED BY <1>2, <3>1, <3>2
    <2>4. importer'[journal'.id].pc = "none"
        BY <2>1, <2>3 DEF NoImport
    <2>5. SyncKnows'
        BY <1>0, <2>1, <2>2, <2>3, <2>4 DEF SyncKnows, Below, Running
    <2>6. OnlyHeldRuns' /\ RecoveryKnows'
        BY <1>0, <2>1, <2>3 DEF IInv, Types, TaskTypes, Recoveries, Knows, OnlyHeldRuns, RecoveryKnows
    <2>7. ChainTypes' /\ ChainsKnow' /\ RoundKnows'
        BY <1>0, ChainsAside, RoundAside, Unminted DEF chains
    <2>8. DefaultTypes' /\ TaskTypes' /\ BoundTypes'
        BY <1>0, <2>2, LossFacts DEF IInv, Types, DefaultTypes, TaskTypes, BoundTypes
    <2> QED BY <2>1, <2>3, <2>5, <2>6, <2>7, <2>8 DEF IInv, Types, Knows
<1>3. \/ UNCHANGED <<journal, importer>> /\ SyncSettles("outcomeUnknown")
      \/ /\ importer[journal.id].pc \in {"ok", "failed"}
         /\ importer' = [importer EXCEPT ![journal.id] = NoImport]
         /\ \/ UNCHANGED journal /\ \E d \in Dispositions : SyncSettles(d)
            \/ importer[journal.id].pc = "ok" /\ Recorded(ledger[journal.id].receipt) /\ SyncGoes("verify")
    <2>1. "cleanupUnresolved" \in Dispositions /\ Refusal(ledger[journal.id].state) \in Dispositions
        BY DEF Dispositions, Refusal
    <2> QED BY <2>1 DEF Await
<1> QED BY <1>1, <1>2, <1>3

(* What the VPS shows after a receipt.                                     *)
LEMMA VerifySteps == ASSUME IInv, Verify PROVE IInv'
<1>0. /\ sync.pc = "verify" /\ journal # NoOp /\ sync \in Syncs /\ sync.snapshot \in Pools /\ Below(sync.snapshot)
      /\ ~Running(journal.id) /\ stages \subseteq Ops /\ store \in Pools
      /\ UNCHANGED <<mac, store, auth, minted, refreshes, runtimes, journal, aged, hold, synced, proof,
                     recovery, round, stages, importer, ledger, nextOp, crashes>>
      /\ Lose \/ Lossless
    BY DEF IInv, Types, ChainTypes, TaskTypes, ImportTypes, Knows, SyncKnows, Verify, chains, defaults, imports
<1>1. sync' \in Syncs /\ sync'.snapshot = sync.snapshot /\ sync'.pc = "settle"
    <2>1. CASE SyncSettles("outcomeUnknown")
        BY <1>0, <2>1, SyncSettlesFacts DEF Dispositions
    <2>2. CASE sync' = [sync EXCEPT !.pc = "settle", !.disposition = "success", !.receipt = store]
        <3>1. sync' = [pc |-> "settle", snapshot |-> sync.snapshot, disposition |-> "success", receipt |-> store]
            BY <1>0, <2>2 DEF Syncs
        <3> QED BY <1>0, <3>1 DEF Syncs, Dispositions
    <2> QED BY <2>1, <2>2 DEF Verify
<1>2. SyncKnows'
    BY <1>0, <1>1 DEF SyncKnows, Below, Running
<1> QED BY <1>0, <1>1, <1>2, SyncMoves

(* The journal is cleared of an operation that is not running.             *)
LEMMA ClearedFacts ==
    ASSUME IInv, Cleared, ~Running(journal.id), UNCHANGED <<aged, nextOp, importer, ledger>>
    PROVE  JournalTypes' /\ JournalKnows' /\ ReceiptsTrue' /\ OnlyHeldRuns'
<1>1. journal' = NoOp
    BY DEF Cleared
<1>2. \A i \in Ops : ~Running(i)'
    BY DEF IInv, Knows, OnlyHeldRuns, Running
<1> QED BY <1>1, <1>2 DEF IInv, Types, JournalTypes, Knows, JournalKnows, ReceiptsTrue, OnlyHeldRuns

LEMMA MarkedFacts ==
    ASSUME IInv, journal # NoOp, Marked, UNCHANGED <<aged, nextOp, importer, ledger, minted>>
    PROVE  JournalTypes' /\ JournalKnows' /\ ReceiptsTrue' /\ OnlyHeldRuns'
<1>1. journal \in Operations /\ journal' = [journal EXCEPT !.phase = "unresolved"]
    BY OpFacts DEF IInv, Types, Marked
<1>2. /\ journal' \in Operations /\ journal'.id = journal.id /\ journal'.incoming = journal.incoming
      /\ journal'.receipt = journal.receipt
    BY <1>1 DEF Operations
<1>3. journal' # NoOp
    BY <1>2, OpNotNone
<1> QED BY <1>2, <1>3 DEF IInv, Types, JournalTypes, Knows, JournalKnows, ReceiptsTrue, OnlyHeldRuns, Running, Below

(* The journal is resolved, and then the defaults.                         *)
LEMMA SettleSteps == ASSUME IInv, Settle \/ Finish PROVE IInv'
<1>0. /\ sync \in Syncs /\ recovery \in Recoveries /\ sync.pc # "idle"
      /\ sync.snapshot \in Pools /\ Below(sync.snapshot) /\ recovery.pc \in {"idle", "clear"}
      /\ UNCHANGED <<mac, store, auth, minted, refreshes, runtimes, aged,
                     recovery, round, stages, importer, ledger, nextOp, losses, crashes>>
    BY DEF IInv, Types, TaskTypes, Recoveries, Knows, SyncKnows, RecoveryKnows, Settle, Finish,
           chains, imports, bounds
<1>1. ChainTypes' /\ ChainsKnow' /\ RoundKnows' /\ ImportTypes' /\ BoundTypes' /\ \A i \in Ops : ImportKnows(i)'
    BY <1>0, ChainsAside, RoundAside, ImportsAside, Unminted DEF IInv, Types, ImportTypes, BoundTypes, chains
<1>2. CASE Settle
    <2>1. JournalTypes' /\ JournalKnows' /\ ReceiptsTrue' /\ OnlyHeldRuns'
        <3>1. journal # NoOp /\ (~Holds(sync.disposition) => ~Running(journal.id))
            BY <1>2 DEF Settle, IInv, Knows, SyncKnows
        <3> QED BY <1>0, <1>2, <3>1, ClearedFacts, MarkedFacts DEF Settle
    <2>2. sync' \in Syncs /\ sync'.pc = "finish" /\ sync'.snapshot = sync.snapshot
        BY <1>0, <1>2, SyncGoesFacts DEF Settle
    <2>3. DefaultTypes' /\ TaskTypes' /\ SyncKnows' /\ RecoveryKnows'
        BY <1>0, <1>2, <2>2
           DEF IInv, Types, DefaultTypes, TaskTypes, SyncKnows, RecoveryKnows, Settle, defaults, Below
    <2> QED BY <1>1, <2>1, <2>3 DEF IInv, Types, Knows
<1>3. CASE Finish
    <2>1. sync' = IdleSync /\ UNCHANGED journal
        BY <1>3 DEF Finish
    <2>2. TaskTypes' /\ SyncKnows' /\ RecoveryKnows' /\ OnlyHeldRuns'
        BY <1>0, <2>1
           DEF IInv, Knows, TaskTypes, Syncs, IdleSync, SyncKnows, RecoveryKnows, OnlyHeldRuns, Running
    <2>3. JournalTypes' /\ JournalKnows' /\ ReceiptsTrue'
        BY <1>0, <2>1, JournalAside, Unminted
    <2>4. DefaultTypes'
        <3>1. sync.receipt \in Pools \cup {NoPool}
            BY <1>0 DEF Syncs
        <3>2. sync.receipt # NoPool => [incoming |-> sync.snapshot, committed |-> sync.receipt] \in Proofs
            BY <1>0, <3>1 DEF Proofs
        <3>3. hold' \in BOOLEAN
            BY <1>3 DEF Finish, Holds
        <3> QED BY <1>0, <1>3, <3>2, <3>3 DEF Finish, IInv, Types, DefaultTypes
    <2> QED BY <1>1, <2>2, <2>3, <2>4 DEF IInv, Types, Knows
<1> QED BY <1>2, <1>3

-----------------------------------------------------------------------------
(* A recovery reads, and no synchronisation is in progress.                *)
LEMMA RecoveryMoves ==
    ASSUME IInv, recovery' \in Recoveries, RecoveryKnows', Lose \/ Lossless,
           UNCHANGED <<mac, store, auth, minted, refreshes, runtimes, journal, aged, hold, synced, proof,
                       sync, round, stages, importer, ledger, nextOp, crashes>>
    PROVE  IInv'
<1>1. BoundTypes' /\ DefaultTypes' /\ TaskTypes' /\ RoundKnows'
    BY LossFacts, RoundAside, Unminted DEF IInv, Types, BoundTypes, DefaultTypes, TaskTypes
<1>2. SyncKnows' /\ OnlyHeldRuns'
    BY DEF IInv, Knows, SyncKnows, OnlyHeldRuns, Running, Below
<1> QED BY <1>1, <1>2, OfTasks

(* The stage, the receipt, and the importer that may still run.            *)
LEMMA RecoverSteps == ASSUME IInv, RecoverStage \/ RecoverStatus \/ RecoverProbe PROVE IInv'
<1>0. /\ recovery \in Recoveries /\ sync.pc = "idle" /\ journal # NoOp /\ journal.id \in Ops
      /\ Lose \/ Lossless
      /\ UNCHANGED <<mac, store, auth, minted, refreshes, runtimes, aged, hold, synced, proof,
                     sync, round, stages, importer, ledger, nextOp, crashes>>
    BY OpFacts DEF IInv, Types, TaskTypes, Knows, RecoveryKnows, RecoverStage, RecoverStatus, RecoverProbe,
                   chains, defaults, imports
<1>1. CASE /\ UNCHANGED journal
           /\ \/ Unresolved \/ RecoveryGoes("status")
              \/ RecoveryGoes("retire") /\ ~Running(journal.id)
              \/ \E s \in {"missing", "pending"} : recovery' = [pc |-> "probe", status |-> s]
    <2>1. recovery' \in Recoveries /\ (recovery'.pc = "retire" => ~Running(journal.id))
        BY <1>0, <1>1 DEF Unresolved, RecoveryGoes, IdleRecovery, Recoveries
    <2>2. RecoveryKnows'
        BY <1>0, <1>1, <2>1 DEF RecoveryKnows, Running
    <2> QED BY <1>0, <1>1, <2>1, <2>2, RecoveryMoves
<1>2. CASE /\ ledger[journal.id].state = "completed" /\ Recorded(ledger[journal.id].receipt)
           /\ recovery' = [pc |-> "retire", status |-> ledger[journal.id].state]
    <2>1. JournalTypes' /\ JournalKnows' /\ ReceiptsTrue' /\ journal' # NoOp /\ journal'.id = journal.id
        BY <1>0, <1>2, RecordedFacts
    <2>2. ~Running(journal.id)
        BY <1>0, <1>2 DEF IInv, ImportKnows, Running
    <2>3. recovery' \in Recoveries
        BY <1>2 DEF Recoveries
    <2>4. TaskTypes' /\ SyncKnows' /\ RecoveryKnows' /\ OnlyHeldRuns'
        BY <1>0, <1>2, <2>1, <2>2, <2>3
           DEF IInv, Types, TaskTypes, Knows, SyncKnows, RecoveryKnows, OnlyHeldRuns, Running
    <2>5. ChainTypes' /\ ChainsKnow' /\ RoundKnows' /\ ImportTypes' /\ DefaultTypes' /\ BoundTypes'
          /\ \A i \in Ops : ImportKnows(i)'
        BY <1>0, ChainsAside, RoundAside, ImportsAside, Unminted, LossFacts
           DEF IInv, Types, ImportTypes, DefaultTypes, BoundTypes, chains
    <2> QED BY <2>1, <2>4, <2>5 DEF IInv, Types, Knows
<1>3. CASE RecoverStage
    <2>1. UNCHANGED journal /\ (Unresolved \/ RecoveryGoes("status"))
        BY <1>3 DEF RecoverStage
    <2> QED BY <1>1, <2>1
<1>4. CASE RecoverStatus
    <2>1. ledger[journal.id].state \in {"missing", "pending", "completed"}
        BY <1>0 DEF IInv, Types, ImportTypes, Receipts
    <2> QED BY <1>1, <1>2, <1>4, <2>1 DEF RecoverStatus
<1>5. CASE RecoverProbe
    <2>1. UNCHANGED journal /\ (Unresolved \/ (RecoveryGoes("retire") /\ ~Running(journal.id)))
        BY <1>5 DEF RecoverProbe
    <2> QED BY <1>1, <2>1
<1> QED BY <1>3, <1>4, <1>5

(* The operation is given up: it is not running and never will.            *)
LEMMA RetireSteps == ASSUME IInv, Retire PROVE IInv'
<1>0. /\ recovery \in Recoveries /\ sync.pc = "idle" /\ ~Running(journal.id) /\ Cleared
      /\ recovery' = [recovery EXCEPT !.pc = "clear"]
      /\ UNCHANGED <<mac, store, auth, minted, refreshes, runtimes, aged, hold, synced, proof,
                     sync, round, stages, importer, ledger, nextOp, losses, crashes>>
    BY DEF IInv, Types, TaskTypes, Knows, RecoveryKnows, Retire, RecoveryGoes, chains, defaults, imports, bounds
<1>1. JournalTypes' /\ JournalKnows' /\ ReceiptsTrue' /\ OnlyHeldRuns'
    BY <1>0, ClearedFacts
<1>2. TaskTypes' /\ SyncKnows' /\ RecoveryKnows'
    BY <1>0 DEF IInv, Types, TaskTypes, Recoveries, SyncKnows, RecoveryKnows
<1>3. ChainTypes' /\ ChainsKnow' /\ RoundKnows' /\ ImportTypes' /\ DefaultTypes' /\ BoundTypes'
      /\ \A i \in Ops : ImportKnows(i)'
    BY <1>0, ChainsAside, RoundAside, ImportsAside, Unminted
       DEF IInv, Types, ImportTypes, DefaultTypes, BoundTypes, chains
<1> QED BY <1>1, <1>2, <1>3 DEF IInv, Types, Knows

-----------------------------------------------------------------------------
(* A step of the running import: it is the journaled one, and stays it.    *)
LEMMA OfImporter ==
    ASSUME IInv, NEW i \in Ops, Running(i), ChainTypes', ChainsKnow', ImportTypes', losses' \in 0..MaxLosses,
           \A j \in Ops : ImportKnows(j)' /\ (Running(j)' => Running(j)),
           \A j \in Ops \ {i} : ledger'[j] = ledger[j],
           UNCHANGED <<minted, journal, aged, hold, synced, proof, sync, recovery, round, nextOp, crashes>>
    PROVE  IInv'
<1>1. /\ journal # NoOp /\ journal.id = i /\ ledger[i].state # "completed"
    BY DEF IInv, Knows, OnlyHeldRuns, ImportKnows, Running
<1>2. JournalTypes' /\ DefaultTypes' /\ TaskTypes' /\ BoundTypes' /\ RoundKnows'
    BY RoundAside, Unminted DEF IInv, Types, JournalTypes, DefaultTypes, TaskTypes, BoundTypes
<1>3. OnlyHeldRuns'
    BY DEF IInv, Knows, OnlyHeldRuns
<1>4. SyncKnows'
    <2>1. sync.pc \notin {"deliver", "import", "verify"} /\ (sync.pc = "settle" => Holds(sync.disposition))
        BY <1>1 DEF IInv, Knows, SyncKnows
    <2> QED BY <2>1 DEF IInv, Knows, SyncKnows, Below
<1>5. RecoveryKnows'
    BY <1>1 DEF IInv, Knows, RecoveryKnows
<1>6. ReceiptsTrue'
    <2>1. journal.receipt = NoPool
        BY <1>1 DEF IInv, Knows, ReceiptsTrue
    <2> QED BY <2>1 DEF ReceiptsTrue
<1>7. JournalKnows'
    <2>1. \A j \in Ops : j >= nextOp => j # i
        BY <1>1, BoundsAssumption DEF IInv, Types, BoundTypes, Knows, JournalKnows, Ops
    <2> QED BY <2>1 DEF IInv, Knows, JournalKnows, Below
<1> QED BY <1>2, <1>3, <1>4, <1>5, <1>6, <1>7 DEF IInv, Types, Knows

(* What is left of an import that has ended.                               *)
LEMMA ExitsFacts ==
    ASSUME NEW i, NEW pc, Exits(i, pc)
    PROVE  importer' = [importer EXCEPT ![i] = [pc |-> pc, base |-> NoPool, incoming |-> NoPool]]
<1>1. [NoImport EXCEPT !.pc = pc] = [pc |-> pc, base |-> NoPool, incoming |-> NoPool]
    BY DEF NoImport
<1> QED BY <1>1 DEF Exits

(* An import that is refused, fails, is killed or dies.                    *)
LEMMA ImportStops ==
    ASSUME IInv, NEW i \in Ops, Running(i), Exits(i, "failed"), stages' \subseteq Ops, Lose \/ Lossless,
           UNCHANGED <<mac, store, auth, minted, refreshes, runtimes, journal, aged, hold, synced, proof,
                       sync, recovery, round, ledger, nextOp, crashes>>
    PROVE  IInv'
<1>1. /\ importer \in [Ops -> Imports]
      /\ importer' = [importer EXCEPT ![i] = [pc |-> "failed", base |-> NoPool, incoming |-> NoPool]]
    BY ExitsFacts DEF IInv, Types, ImportTypes
<1>2. importer' \in [Ops -> Imports]
    BY <1>1 DEF Imports
<1>3. ChainTypes' /\ ChainsKnow' /\ ImportTypes' /\ losses' \in 0..MaxLosses
    BY <1>2, ChainsAside, LossFacts DEF IInv, Types, ImportTypes, chains
<1>4. ASSUME NEW j \in Ops PROVE ImportKnows(j)' /\ (Running(j)' => Running(j))
    <2>1. CASE j = i
        BY <1>1, <2>1 DEF IInv, ImportKnows, Running, Past
    <2>2. CASE j # i
        BY <1>1, <2>2 DEF IInv, ImportKnows, Running, Past, Below
    <2> QED BY <2>1, <2>2
<1> QED BY <1>3, <1>4, OfImporter

(* The store is the one the Mac observed: the intent is recorded.          *)
LEMMA ImportBeginSteps == ASSUME IInv, NEW i \in Ops, ImportBegin(i) PROVE IInv'
<1>0. /\ importer[i].pc = "waiting" /\ Running(i)
      /\ UNCHANGED <<mac, store, auth, minted, refreshes, runtimes, journal, aged, hold, synced, proof,
                     sync, recovery, round, nextOp, crashes>>
    BY DEF ImportBegin, Running, defaults
<1>1. CASE Exits(i, "failed") /\ StageRemoved(i) /\ UNCHANGED ledger
    <2>1. stages' \subseteq Ops /\ (Lose \/ Lossless)
        BY <1>1 DEF StageRemoved, IInv, Types, ImportTypes
    <2> QED BY <1>0, <1>1, <2>1, ImportStops
<1>2. CASE /\ ledger' = [ledger EXCEPT ![i] = [state |-> "pending", receipt |-> Merge(importer[i].incoming, store)]]
           /\ importer' = [importer EXCEPT ![i].pc = "prepared"] /\ Lossless /\ UNCHANGED stages
    <2> DEFINE receipt == Merge(importer[i].incoming, store)
    <2>1. /\ importer[i].incoming \in Pools /\ Below(importer[i].incoming) /\ store \in Pools /\ Below(store)
          /\ ChainTypes /\ importer \in [Ops -> Imports] /\ ledger \in [Ops -> Receipts]
        BY <1>0 DEF IInv, Types, ChainTypes, ChainsKnow, ImportTypes, ImportKnows
    <2>2. receipt \in Pools /\ Past(store, receipt) /\ Below(receipt)
        BY <2>1, MergeFacts
    <2> HIDE DEF receipt
    <2>3. /\ importer' \in [Ops -> Imports] /\ importer'[i].pc = "prepared"
          /\ \A j \in Ops \ {i} : importer'[j] = importer[j]
        BY <1>2, <2>1 DEF Imports
    <2>4. /\ ledger' = [ledger EXCEPT ![i] = [state |-> "pending", receipt |-> receipt]]
          /\ [state |-> "pending", receipt |-> receipt] \in Receipts
        BY <1>2, <2>2 DEF receipt, Receipts
    <2>5. /\ ledger' \in [Ops -> Receipts] /\ ledger'[i] = [state |-> "pending", receipt |-> receipt]
          /\ \A j \in Ops \ {i} : ledger'[j] = ledger[j]
        BY <2>1, <2>4
    <2>6. ChainTypes' /\ ChainsKnow' /\ ImportTypes' /\ losses' \in 0..MaxLosses
        BY <1>0, <1>2, <2>3, <2>5, ChainsAside, LossFacts DEF IInv, Types, ImportTypes, chains
    <2>7. ASSUME NEW j \in Ops PROVE ImportKnows(j)' /\ (Running(j)' => Running(j))
        <3>1. CASE j = i
            BY <1>0, <2>2, <2>3, <2>5, <3>1 DEF ImportKnows, Running, Past, Below
        <3>2. CASE j # i
            BY <1>0, <2>3, <2>5, <3>2 DEF IInv, ImportKnows, Running, Past, Below
        <3> QED BY <3>1, <3>2
    <2> QED BY <1>0, <2>5, <2>6, <2>7, OfImporter
<1> QED BY <1>1, <1>2 DEF ImportBegin

(* What is written is the merge that the receipt names; what the store had *)
(* was not newer.                                                          *)
LEMMA ImportCommitFacts ==
    ASSUME IInv, NEW i \in Ops, ImportCommit(i)
    PROVE  /\ store' \in Pools /\ Past(store, store') /\ Below(store')
           /\ UNCHANGED store \/ (store' = ledger[i].receipt /\ auth' = store'[Active]
                                    /\ importer' = [importer EXCEPT ![i].pc = "committed"] /\ UNCHANGED losses)
<1>1. /\ ledger[i].receipt \in Pools /\ Past(store, ledger[i].receipt) /\ Below(ledger[i].receipt)
      /\ store \in Pools /\ Below(store)
    BY DEF IInv, Types, ChainTypes, ChainsKnow, ImportKnows, ImportCommit
<1>2. CASE UNCHANGED store
    BY <1>1, <1>2, GenerationsNat DEF Past, Pools, Below
<1>3. CASE store' = ledger[i].receipt /\ auth' = store'[Active]
             /\ importer' = [importer EXCEPT ![i].pc = "committed"] /\ UNCHANGED losses
    BY <1>1, <1>3 DEF Past, Below
<1> QED BY <1>2, <1>3 DEF ImportCommit, Lossless

LEMMA ImportCommitSteps == ASSUME IInv, NEW i \in Ops, ImportCommit(i) PROVE IInv'
<1>0. /\ importer[i].pc = "prepared" /\ Running(i) /\ stages' \subseteq Ops
      /\ UNCHANGED <<mac, minted, refreshes, runtimes, journal, aged, hold, synced, proof,
                     sync, recovery, round, ledger, nextOp, crashes>>
    BY DEF ImportCommit, Running, defaults, IInv, Types, ImportTypes
<1>1. CASE Lose /\ Exits(i, "failed") /\ UNCHANGED <<store, auth>>
    BY <1>0, <1>1, ImportStops
<1>2. CASE /\ store' = ledger[i].receipt /\ auth' = store'[Active]
           /\ importer' = [importer EXCEPT ![i].pc = "committed"] /\ UNCHANGED losses
    <2>1. /\ store' \in Pools /\ Past(store, store') /\ Below(store') /\ store \in Pools
          /\ ImportTypes /\ ChainTypes /\ ChainsKnow /\ BoundTypes
        BY ImportCommitFacts DEF IInv, Types, ChainTypes
    <2>2. /\ importer' \in [Ops -> Imports] /\ importer'[i].pc = "committed"
          /\ \A j \in Ops \ {i} : importer'[j] = importer[j]
        BY <1>2, <2>1 DEF ImportTypes, Imports
    <2>3. ChainTypes' /\ ChainsKnow'
        BY <1>0, <1>2, <2>1, ActiveAssumption DEF ChainTypes, ChainsKnow, Below, Pools
    <2>4. ImportTypes' /\ losses' \in 0..MaxLosses
        BY <1>0, <1>2, <2>1, <2>2 DEF ImportTypes, BoundTypes
    <2>5. ASSUME NEW pool \in Pools, Past(pool, store) PROVE Past(pool, store')
        BY <2>1, <2>5, GenerationsNat DEF Past, Pools
    <2>6. Past(store', store')
        BY <2>1, GenerationsNat DEF Past, Pools
    <2>7. ASSUME NEW j \in Ops PROVE ImportKnows(j)' /\ (Running(j)' => Running(j))
        <3>1. CASE j = i
            <4>1. ledger[i].state = "pending" /\ ledger[i].receipt \in Pools
                BY <1>0 DEF IInv, ImportKnows
            <4>2. Past(ledger[i].receipt, store)'
                BY <1>0, <1>2, <2>6 DEF Past
            <4> QED BY <1>0, <2>2, <3>1, <4>1, <4>2 DEF ImportKnows, Running
        <3>2. CASE j # i
            <4>1. ~Running(j) /\ ImportKnows(j)
                BY <1>0, <3>2 DEF IInv, Knows, OnlyHeldRuns
            <4>2. ledger[j].state = "completed" => Past(ledger[j].receipt, store)'
                BY <1>0, <2>5, <4>1 DEF ImportKnows, Past
            <4> QED BY <1>0, <2>2, <3>2, <4>1, <4>2 DEF ImportKnows, Running
        <3> QED BY <3>1, <3>2
    <2> QED BY <1>0, <2>3, <2>4, <2>7, OfImporter
<1> QED BY <1>1, <1>2 DEF ImportCommit, Lossless

(* The receipt is completed once the store has it.                         *)
LEMMA ImportCompleteSteps == ASSUME IInv, NEW i \in Ops, ImportComplete(i) PROVE IInv'
<1>0. /\ importer[i].pc = "committed" /\ Running(i) /\ Exits(i, "ok")
      /\ ledger' = [ledger EXCEPT ![i].state = "completed"]
      /\ UNCHANGED <<mac, store, auth, minted, refreshes, runtimes, journal, aged, hold, synced, proof,
                     sync, recovery, round, nextOp, crashes>>
      /\ stages' \subseteq Ops /\ (Lose \/ Lossless) /\ importer \in [Ops -> Imports] /\ ledger \in [Ops -> Receipts]
    BY DEF ImportComplete, Running, StageRemoved, chains, defaults, IInv, Types, ImportTypes
<1>1. importer' = [importer EXCEPT ![i] = [pc |-> "ok", base |-> NoPool, incoming |-> NoPool]]
    BY <1>0, ExitsFacts
<1>2. /\ importer' \in [Ops -> Imports] /\ importer'[i].pc = "ok" /\ \A j \in Ops \ {i} : importer'[j] = importer[j]
    BY <1>0, <1>1 DEF Imports
<1>3. /\ ledger' \in [Ops -> Receipts] /\ ledger'[i].state = "completed" /\ ledger'[i].receipt = ledger[i].receipt
      /\ \A j \in Ops \ {i} : ledger'[j] = ledger[j]
    BY <1>0 DEF Receipts
<1>4. ChainTypes' /\ ChainsKnow' /\ ImportTypes' /\ losses' \in 0..MaxLosses
    BY <1>0, <1>2, <1>3, ChainsAside, LossFacts DEF IInv, Types, ImportTypes, chains
<1>5. ASSUME NEW j \in Ops PROVE ImportKnows(j)' /\ (Running(j)' => Running(j))
    <2>1. CASE j = i
        BY <1>0, <1>2, <1>3, <2>1 DEF IInv, ImportKnows, Running, Past
    <2>2. CASE j # i
        BY <1>0, <1>2, <1>3, <2>2 DEF IInv, ImportKnows, Running, Past, Below
    <2> QED BY <2>1, <2>2
<1> QED BY <1>0, <1>3, <1>4, <1>5, OfImporter

LEMMA ImportDiesSteps == ASSUME IInv, NEW i \in Ops, ImportDies(i) PROVE IInv'
<1>1. /\ Running(i) /\ Exits(i, "failed") /\ stages' \subseteq Ops /\ Lose
      /\ UNCHANGED <<mac, store, auth, minted, refreshes, runtimes, journal, aged, hold, synced, proof,
                     sync, recovery, round, ledger, nextOp, crashes>>
    BY DEF ImportDies, IInv, Types, ImportTypes, chains, defaults
<1> QED BY <1>1, ImportStops

-----------------------------------------------------------------------------
(* The Mac app dies: its tasks are gone, the journal is not.               *)
LEMMA CrashSteps == ASSUME IInv, Crash PROVE IInv'
<1>1. /\ sync' = IdleSync /\ recovery' = IdleRecovery /\ round' = IdleRound
      /\ crashes < MaxCrashes /\ crashes' = crashes + 1
      /\ UNCHANGED <<mac, store, auth, minted, refreshes, runtimes, journal, aged, hold, synced, proof,
                     stages, importer, ledger, nextOp, losses>>
    BY DEF Crash, chains, defaults, imports
<1>2. TaskTypes' /\ SyncKnows' /\ RecoveryKnows' /\ RoundKnows'
    BY <1>1 DEF TaskTypes, Syncs, Recoveries, IdleSync, IdleRecovery, SyncKnows, RecoveryKnows, RoundKnows, Rounds,
                IdleRound
<1>3. OnlyHeldRuns' /\ DefaultTypes'
    BY <1>1 DEF IInv, Types, DefaultTypes, Knows, OnlyHeldRuns, Running
<1>4. BoundTypes'
    BY <1>1, BoundsAssumption DEF IInv, Types, BoundTypes
<1> QED BY <1>1, <1>2, <1>3, <1>4, OfTasks

(* A day passes.                                                           *)
LEMMA AgeSteps == ASSUME IInv, Age PROVE IInv'
<1>1. /\ aged' = TRUE
      /\ UNCHANGED <<mac, store, auth, minted, refreshes, runtimes, journal, hold, synced, proof, sync, recovery,
                     round, stages, importer, ledger, nextOp, losses, crashes>>
    BY DEF Age, chains, defaults, imports, bounds
<1>2. ChainTypes' /\ ChainsKnow' /\ RoundKnows' /\ TaskTypes' /\ SyncKnows' /\ RecoveryKnows' /\ OnlyHeldRuns'
      /\ \A i \in Ops : ImportKnows(i)'
    BY <1>1, ChainsAside, RoundAside, TasksAside, ImportsAside, Unminted DEF chains
<1>3. JournalTypes' /\ JournalKnows' /\ ReceiptsTrue'
    BY <1>1 DEF IInv, Types, JournalTypes, Knows, JournalKnows, ReceiptsTrue, Below
<1>4. DefaultTypes' /\ ImportTypes' /\ BoundTypes'
    BY <1>1 DEF IInv, Types, DefaultTypes, ImportTypes, BoundTypes
<1> QED BY <1>2, <1>3, <1>4 DEF IInv, Types, Knows

LEMMA Stutters == ASSUME IInv, UNCHANGED vars PROVE IInv'
<1>1. UNCHANGED <<mac, store, auth, minted, refreshes, runtimes, journal, aged, hold, synced, proof, sync, recovery,
                  round, stages, importer, ledger, nextOp, losses, crashes>>
    BY DEF vars
<1>2. RoundKnows' /\ TaskTypes' /\ SyncKnows' /\ RecoveryKnows' /\ OnlyHeldRuns'
    BY <1>1, RoundAside, TasksAside, Unminted
<1>3. DefaultTypes' /\ BoundTypes'
    BY <1>1 DEF IInv, Types, DefaultTypes, BoundTypes
<1> QED BY <1>1, <1>2, <1>3, OfTasks

(* Every step preserves the invariant.                                     *)
LEMMA NextInv == IInv /\ [Next]_vars => IInv'
<1> SUFFICES ASSUME IInv, [Next]_vars PROVE IInv'
    OBVIOUS
<1>1. CASE RuntimeRefresh \/ \E a \in Accounts : MacRenew(a) \/ DaemonRefresh(a)
    BY <1>1, RenewSteps
<1>2. CASE Schedule \/ Crash \/ Age
    BY <1>2, ScheduleSteps, CrashSteps, AgeSteps
<1>3. CASE SyncStep
    BY <1>3, CaptureSteps, DeliverSteps, StartImportSteps, AwaitSteps, VerifySteps, SettleSteps DEF SyncStep
<1>4. CASE RecoveryStep
    BY <1>4, RecoverSteps, RetireSteps, ScheduleSteps DEF RecoveryStep
<1>5. CASE RoundStep
    BY <1>5, RoundSteps, AdoptSteps DEF RoundStep
<1>6. CASE \E i \in Ops : ImportStep(i) \/ ImportDies(i)
    BY <1>6, ImportBeginSteps, ImportCommitSteps, ImportCompleteSteps, ImportDiesSteps DEF ImportStep
<1>7. CASE UNCHANGED vars
    BY <1>7, Stutters
<1> QED BY <1>1, <1>2, <1>3, <1>4, <1>5, <1>6, <1>7 DEF Next

(* What is true of every reachable state.                                  *)
THEOREM Invariance == Spec => []IInv
<1> QED BY InitInv, NextInv, PTL DEF Spec

(* The journal, the tasks, the receipts and the bundles have the shape the *)
(* code gives them (LinuxDevboxCredentialSyncJournal,                      *)
(* credential_import_receipts.rs).                                         *)
THEOREM TypeCorrect == Spec => []TypeOK
<1> QED BY TypesTypeOK, Invariance, PTL

(* A completed receipt names generations that the VPS has written, and the *)
(* Mac's journal holds no other (complete, recordImportReceipt).           *)
THEOREM ReceiptsHold == Spec => []ReceiptCommitted
<1> QED BY ReceiptsCommitted, Invariance, PTL

(* An import that runs is the one that the Mac's journal holds             *)
(* (completedCredentialImportFailure, supersedeUnrecoverable).             *)
THEOREM HeldRuns == Spec => []OnlyHeldRuns
<1>1. IInv => OnlyHeldRuns
    BY DEF IInv, Knows
<1> QED BY <1>1, Invariance, PTL

(* Neither host goes back to an older generation of a chain                *)
(* (merge_token_generation, persistInactiveCredentialUpdate).              *)
THEOREM NoneGoesBack == Spec => StoresForward
<1>1. ASSUME IInv, [Next]_vars PROVE Past(mac, mac') /\ Past(store, store')
    <2>0. /\ mac \in Pools /\ store \in Pools
          /\ Past(mac, mac) /\ Past(store, store)
        BY <1>1, GenerationsNat DEF IInv, Types, ChainTypes, Past, Pools
    <2>1. CASE UNCHANGED <<mac, store>>
        BY <2>0, <2>1 DEF Past
    <2>2. ASSUME NEW a \in Accounts, MacRenew(a) PROVE Past(mac, mac') /\ Past(store, store')
        <3>1. Mint(a) /\ refreshes < MaxRefreshes /\ mac' = [mac EXCEPT ![a] = minted'[a]] /\ UNCHANGED store
            BY <2>2 DEF MacRenew
        <3>2. minted'[a] = minted[a] + 1 /\ mac[a] <= minted[a] /\ minted[a] \in Nat /\ \A b \in Accounts : mac[b] \in Nat
            BY <1>1, <3>1, MintFacts, GenerationsNat DEF IInv, Types, ChainTypes, ChainsKnow, Below, Pools
        <3>3. Past(mac, mac')
            BY <2>0, <3>1, <3>2 DEF Past, Pools
        <3> QED BY <2>0, <3>1, <3>3 DEF Past
    <2>3. ASSUME NEW a \in Accounts, DaemonRefresh(a) PROVE Past(mac, mac') /\ Past(store, store')
        <3>1. store' = [store EXCEPT ![a] = store[a] + 1] /\ UNCHANGED mac
            BY <2>3 DEF DaemonRefresh
        <3>2. \A b \in Accounts : store[b] \in Nat
            BY <2>0, GenerationsNat DEF Pools
        <3> QED BY <2>0, <3>1, <3>2 DEF Past, Pools
    <2>4. ASSUME NEW a \in Accounts, Adopt(a) PROVE Past(mac, mac') /\ Past(store, store')
        <3>1. Past(mac, mac') /\ UNCHANGED store
            BY <1>1, <2>4, AdoptFacts DEF Adopt
        <3> QED BY <2>0, <3>1 DEF Past
    <2>5. ASSUME NEW i \in Ops, ImportCommit(i) PROVE Past(mac, mac') /\ Past(store, store')
        <3>1. Past(store, store') /\ UNCHANGED mac
            BY <1>1, <2>5, ImportCommitFacts DEF ImportCommit
        <3> QED BY <2>0, <3>1 DEF Past
    <2>6. CASE RuntimeRefresh \/ Schedule \/ Crash \/ Age \/ UNCHANGED vars
        BY <2>1, <2>6 DEF RuntimeRefresh, Schedule, Crash, Age, vars, chains
    <2>7. CASE SyncStep \/ RecoveryStep \/ RoundPlan \/ RoundEnd
        BY <2>1, <2>7 DEF SyncStep, RecoveryStep, Capture, Deliver, StartImport, Await, Verify, Settle, Finish,
                          RecoverStage, RecoverStatus, RecoverProbe, Retire, ClearClaims, RoundPlan, RoundEnd, chains
    <2>8. CASE \E i \in Ops : ImportBegin(i) \/ ImportComplete(i) \/ ImportDies(i)
        BY <2>1, <2>8 DEF ImportBegin, ImportComplete, ImportDies, chains
    <2> QED BY <1>1, <2>2, <2>3, <2>4, <2>5, <2>6, <2>7, <2>8 DEF Next, RoundStep, ImportStep
<1>2. IInv /\ [Next]_vars => [\A a \in Accounts : mac'[a] >= mac[a] /\ store'[a] >= store[a]]_vars
    BY <1>1 DEF Past
<1> QED BY <1>2, Invariance, PTL DEF Spec, StoresForward
=============================================================================
