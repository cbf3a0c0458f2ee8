----------------------------- MODULE ResetJournal -----------------------------
(***************************************************************************)
(* Redeeming banked usage resets through the durable reset-attempt journal *)
(* (rate_limit_resets.rs), as the daemon and the redeem-reset and          *)
(* rotate-now commands run it on the VPS.  A flow observes an account,     *)
(* prepares an attempt in the journal, authorises it against fresh         *)
(* evidence, marks it submitted, sends the POST and reconciles the result. *)
(* The runtime-activation lease admits one flow at a time; a crash frees   *)
(* the lease and leaves the POST in flight.  The provider, its other       *)
(* clients and the clock move between any two steps.                       *)
(*                                                                         *)
(* Credits are numbered by expiry.  An account's quota is a number that    *)
(* grows with each change of its evidence and is usable when odd.          *)
(***************************************************************************)
EXTENDS Naturals, FiniteSets, Sequences

CONSTANTS
  Accounts,       \* paid provider accounts
  Operations,     \* request UUIDs that clients name, and may name again
  Generated,      \* request UUIDs that flows draw, each once
  MaxCredit,      \* the last credit to expire
  None,           \* an absent value
  TerminalCap,    \* RESET_TERMINAL_ENTRY_CAP
  UnresolvedCap,  \* RESET_UNRESOLVED_ENTRY_CAP
  MaxEvents       \* bound: quota changes, grants and redemptions by others

Credits == 1..MaxCredit
Requests == Operations \cup Generated
Codes == {"Reset", "AlreadyRedeemed", "NoCredit", "NothingToReset"}

ASSUME AccountsAssumption == Accounts # {}
ASSUME RequestsAssumption == Operations \cap Generated = {}
ASSUME NoneAssumption == None \notin Accounts \cup Requests \cup Credits /\ None \notin Codes
ASSUME CapsAssumption ==
  {TerminalCap, UnresolvedCap, MaxCredit} \subseteq Nat \ {0} /\ MaxEvents \in Nat

VARIABLES
  journal,    \* the reset-attempt journal: attempts by age, and manual review
  due,        \* requests past their reconciliation deadline
  deferred,   \* requests whose reconciliation backs off
  store,      \* the account store: the last committed inventory
  proc,       \* the flow that holds the runtime-activation lease
  credit,     \* provider: what became of each credit
  quota,      \* provider: each account's usage
  posts,      \* consume requests in flight
  now,        \* credits up to this one have expired
  spends,     \* history: <<request, account, credit>> redeemed for a request
  forgotten,  \* history: requests pruned from the journal
  rejected,   \* history: <<request, account>> last reported to a client as rejected
  events      \* bounded events so far

journalVars == <<journal, due, deferred, forgotten>>
providerVars == <<credit, quota, now, events>>
vars == <<journalVars, store, proc, providerVars, posts, spends, rejected>>

Terminal == {"ExpiredUnresolved", "TerminalNotApplied", "ReconciledUsable"}
States == {"Prepared", "Uncertain", "ConsumptionObserved", "ReconciliationOverdue"} \cup Terminal

Attempt == [req: Requests, acct: Accounts, credit: Credits \cup {None},
            origin: {"LocalRequest", "ExternalInventoryDecrease"}, state: States,
            pre: SUBSET Credits, quota: Nat, submitted: BOOLEAN]
Bank == [avail: SUBSET Credits, redeemed: SUBSET Credits, at: Nat, fresh: BOOLEAN]
Pcs == {"idle", "prepare", "authorize", "inventory", "mark", "post", "answer",
        "refetch", "reconcile", "commit", "failed", "panicked"}
Proc == [pc: Pcs, acct: Accounts, op: Requests \cup {None}, may: BOOLEAN, bank: Bank,
         known: Nat, attempt: Attempt \cup {None}, sent: BOOLEAN, answer: Codes \cup {None},
         flow: {"NoAttempt", "Suppressed", "TerminalNotApplied", "ReconciledUsable", None}]

Usable(q) == q % 2 = 1
(* Mutant: an overdue attempt no longer counts as unresolved.              *)
SuppressesUntilOverdue(x) == x.state \notin Terminal \cup {"ReconciliationOverdue"}
Suppresses(x) == x.state \notin Terminal

(* Types: a journal never holds one request twice.                         *)
TypeOK ==
  /\ journal \in [attempts: Seq(Attempt), review: BOOLEAN]
  /\ \A i, k \in DOMAIN journal.attempts :
       journal.attempts[i].req = journal.attempts[k].req => i = k
  /\ due \cup deferred \cup forgotten \subseteq Requests
  /\ rejected \subseteq Operations \X Accounts
  /\ store \in [Accounts -> SUBSET Credits]
  /\ proc \in Proc
  /\ credit \in [Accounts -> [Credits -> {"ungranted", "available", "lagging", "redeemed"}]]
  /\ quota \in [Accounts -> Nat] /\ now \in 0..MaxCredit /\ events \in 0..MaxEvents
  /\ posts \cup spends \subseteq Requests \X Accounts \X Credits

Dormant == [pc |-> "idle", acct |-> CHOOSE a \in Accounts : TRUE, op |-> None, may |-> FALSE,
            bank |-> [avail |-> {}, redeemed |-> {}, at |-> 0, fresh |-> FALSE], known |-> 0,
            attempt |-> None, sent |-> FALSE, answer |-> None, flow |-> None]

(* Every account starts blocked, with all its credits granted or all but   *)
(* the last, and its inventory known to the store.                         *)
Init ==
  /\ journal = [attempts |-> <<>>, review |-> FALSE]
  /\ due = {} /\ deferred = {} /\ forgotten = {} /\ rejected = {}
  /\ \E n \in {MaxCredit, MaxCredit - 1} :
       /\ credit = [a \in Accounts |-> [c \in Credits |-> IF c > n THEN "ungranted"
                                                          ELSE "available"]]
       /\ store = [a \in Accounts |-> 1..n]
  /\ quota = [a \in Accounts |-> 0] /\ now = 0 /\ events = 0
  /\ proc = Dormant /\ posts = {} /\ spends = {}

Lowest(S) == CHOOSE c \in S : \A d \in S : c <= d
Attempts == {journal.attempts[i] : i \in DOMAIN journal.attempts}
Names(j) == {j.attempts[i].req : i \in DOMAIN j.attempts}
Drawn == Names(journal) \cup forgotten \cup {s[1] : s \in spends \cup posts}

-----------------------------------------------------------------------------
(* The journal.                                                            *)

(* A flow forgets what it no longer needs: a failed one keeps what its     *)
(* report is about, a finished one the inventory it commits.               *)
Failing == [Dormant EXCEPT !.pc = "failed", !.acct = proc.acct, !.op = proc.op,
                           !.sent = proc.sent, !.flow = proc.flow]
Finish(flow) == [Failing EXCEPT !.pc = "commit", !.flow = flow, !.bank.avail = proc.bank.avail]

Newest(I, n) == {i \in I : Cardinality({k \in I : k > i}) < n}

(* The entries of s at the positions I, in their order.                    *)
Nth(I, n) == CHOOSE i \in I : Cardinality({k \in I : k <= i}) = n
Keeping(s, I) == [n \in 1..Cardinality(I) |-> s[Nth(I, n)]]

(* Every save first drops the oldest settled attempts and, with a sentinel *)
(* that calls for manual review, the oldest unresolved ones.               *)
Pruned(j) ==
  LET open == {i \in DOMAIN j.attempts : Suppresses(j.attempts[i])}
      kept == Newest(open, UnresolvedCap) \cup Newest(DOMAIN j.attempts \ open, TerminalCap)
  IN [attempts |-> Keeping(j.attempts, kept),
      review |-> j.review \/ Cardinality(open) > UnresolvedCap]

Save(j) ==
  /\ journal' = Pruned(j)
  /\ forgotten' = forgotten \cup (Names(j) \ Names(journal'))

Review == Save([journal EXCEPT !.review = TRUE])

(* update_exact_reset_attempt: the attempt must still be the one the flow  *)
(* last saw.  The updated attempt is read back at its index before pruning.*)
Update(x, p) ==
  IF journal.review
  THEN proc' = Failing /\ UNCHANGED <<journal, forgotten>>
  ELSE IF proc.attempt \notin Attempts
  THEN Review /\ proc' = Failing
  ELSE LET i == CHOOSE k \in DOMAIN journal.attempts : journal.attempts[k].req = x.req
       IN /\ Save([journal EXCEPT !.attempts[i] = x])
          /\ proc' = IF i \in DOMAIN journal'.attempts
                     THEN IF p.attempt = None THEN p ELSE [p EXCEPT !.attempt = journal'.attempts[i]]
                     ELSE [Dormant EXCEPT !.pc = "panicked"]

Cancelled == [proc.attempt EXCEPT !.state = "TerminalNotApplied"]
Cancel == Update(Cancelled, Failing) /\ UNCHANGED <<due, deferred>>

-----------------------------------------------------------------------------
(* The provider, as its answers are read.                                  *)

Listed(a) == {c \in Credits : c > now /\ credit[a][c] \in {"available", "lagging"}}
Gone(a) == {c \in Credits : credit[a][c] = "redeemed"}

(* An inventory lists available credits; it may list the redeemed ones.    *)
Inventories(a) ==
  {[avail |-> Listed(a), redeemed |-> r, at |-> now, fresh |-> TRUE] : r \in {{}, Gone(a)}}

(* external_inventory_decrease_evidence: expiry does not explain the loss. *)
Decreased(old, bank) ==
  /\ Cardinality(bank.avail) < Cardinality(old)
  /\ bank.avail # {c \in old : c > bank.at}
Lost(old, bank) ==
  LET lost == {c \in old : c > bank.at} \ bank.avail
  IN IF lost = {} THEN None ELSE Lowest(lost)

(* Mutant: a missing credit counts as consumed even when it has expired.   *)
ConsumedIfMissing(x, bank) ==
  /\ bank.fresh /\ x.credit # None
  /\ x.credit \in bank.redeemed \/ bank.avail = x.pre \ {x.credit}

(* inventory_is_consumed: the provider says so, or exactly the selected    *)
(* credit is missing and it has not expired.                               *)
Consumed(x, bank) ==
  /\ bank.fresh /\ x.credit # None
  /\ \/ x.credit \in bank.redeemed
     \/ /\ x.credit > bank.at /\ x.credit \in x.pre
        /\ bank.avail = x.pre \ {x.credit}

-----------------------------------------------------------------------------
(* A flow.                                                                 *)

At(pc) == proc.pc = pc
Quiet == UNCHANGED <<store, providerVars, posts, spends, rejected>>
Goto(pc) == proc' = [proc EXCEPT !.pc = pc] /\ UNCHANGED journalVars

(* redeem-reset and a rotation under an operation id observe quota and     *)
(* inventory first and ask for a reset when the account is blocked.        *)
StartRequest(a, r) ==
  /\ At("idle")
  /\ \E b \in Inventories(a) :
       proc' = [Dormant EXCEPT !.pc = "prepare", !.acct = a, !.op = r, !.bank = b,
                               !.known = quota[a], !.may = ~Usable(quota[a])]
  /\ rejected' = rejected \ {<<r, a>>}
  /\ UNCHANGED <<journalVars, store, providerVars, posts, spends>>

(* The daemon observes too; its policy decides whether a blocked account   *)
(* is worth a reset.                                                       *)
StartDaemon(a) ==
  /\ At("idle")
  /\ \E b \in Inventories(a), may \in BOOLEAN :
       /\ may => ~Usable(quota[a])
       /\ proc' = [Dormant EXCEPT !.pc = "prepare", !.acct = a, !.bank = b,
                                  !.known = quota[a], !.may = may]
  /\ UNCHANGED journalVars /\ Quiet

Fresh(x) == [req |-> x.req, acct |-> proc.acct, credit |-> x.credit, origin |-> x.origin,
             state |-> x.state, pre |-> x.pre, quota |-> proc.known, submitted |-> FALSE]

(* Mutant: a settled attempt does not answer for its request.              *)
ResumedUnsettled ==
  Newest({i \in DOMAIN journal.attempts :
            journal.attempts[i].acct = proc.acct /\ Suppresses(journal.attempts[i])}, 1)

(* The attempt this flow continues: the one its request names, else the    *)
(* last unresolved one of its account.                                     *)
Resumed ==
  LET named == {i \in DOMAIN journal.attempts : journal.attempts[i].req = proc.op}
      open == {i \in DOMAIN journal.attempts :
                 journal.attempts[i].acct = proc.acct /\ Suppresses(journal.attempts[i])}
  IN IF named # {} THEN named ELSE Newest(open, 1)

(* A new attempt is journalled before anything else happens; a save that   *)
(* compacts the journal leaves it to manual review.                        *)
Push(x, pc) ==
  /\ Save([journal EXCEPT !.attempts = Append(@, x)]) /\ UNCHANGED <<due, deferred>>
  /\ proc' = IF journal'.review THEN Finish("Suppressed")
             ELSE [proc EXCEPT !.pc = pc, !.attempt = x, !.may = FALSE, !.known = 0]

PrepareResumed ==
  /\ At("prepare") /\ ~journal.review
  /\ \E i \in Resumed :
       LET x == journal.attempts[i]
       IN proc' = IF x.acct # proc.acct THEN Failing
                  ELSE [proc EXCEPT !.pc = "reconcile", !.attempt = x, !.may = FALSE, !.known = 0]
  /\ UNCHANGED journalVars /\ Quiet

(* A decrease nobody's attempt explains is journalled as external.         *)
PrepareExternal ==
  /\ At("prepare") /\ ~journal.review /\ Resumed = {}
  /\ Decreased(store[proc.acct], proc.bank)
  /\ \E r \in Generated \ Drawn :
       LET old == store[proc.acct]
           lost == Lost(old, proc.bank)
       IN Push(Fresh([req |-> r, credit |-> lost, origin |-> "ExternalInventoryDecrease",
                      state |-> "ConsumptionObserved", pre |-> old]), "reconcile")
  /\ Quiet

Unexplained == Decreased(store[proc.acct], proc.bank)

PrepareSubmit ==
  /\ At("prepare") /\ ~journal.review /\ Resumed = {} /\ ~Unexplained
  /\ proc.may /\ proc.bank.avail # {}
  /\ \E r \in IF proc.op = None THEN Generated \ Drawn ELSE {proc.op} :
       Push(Fresh([req |-> r, credit |-> Lowest(proc.bank.avail), origin |-> "LocalRequest",
                   state |-> "Prepared", pre |-> proc.bank.avail]), "authorize")
  /\ Quiet

PrepareNothing ==
  /\ At("prepare")
  /\ \/ journal.review /\ proc' = Finish("Suppressed")
     \/ /\ ~journal.review /\ Resumed = {} /\ ~Unexplained
        /\ ~(proc.may /\ proc.bank.avail # {})
        /\ proc' = Finish("NoAttempt")
  /\ UNCHANGED journalVars /\ Quiet

(* Final authorisation, under the provider-I/O lease: a newer quota that   *)
(* is still blocked ...                                                    *)
Authorize ==
  /\ At("authorize")
  /\ \/ /\ ~Usable(quota[proc.acct])
        /\ Goto("inventory")
     \/ Cancel
  /\ Quiet

(* ... and an inventory that is exactly the prepared one.                  *)
Inventory ==
  /\ At("inventory")
  /\ \/ \E b \in Inventories(proc.acct) :
          /\ b.avail = proc.attempt.pre
          /\ proc' = [proc EXCEPT !.pc = "mark", !.bank = b]
          /\ UNCHANGED journalVars
     \/ Cancel
  /\ Quiet

Mark ==
  /\ At("mark")
  /\ Update([proc.attempt EXCEPT !.submitted = TRUE], [proc EXCEPT !.pc = "post"])
  /\ UNCHANGED <<due, deferred>> /\ Quiet

(* The POST goes out unless the evidence is too old or the transport       *)
(* refuses it before sending.                                              *)
Posted == <<proc.attempt.req, proc.acct, Lowest(proc.bank.avail)>>
Post ==
  /\ At("post") /\ ~journal.review /\ proc.attempt \in Attempts
  /\ posts' = posts \cup {Posted}
  /\ proc' = [proc EXCEPT !.pc = "answer", !.sent = TRUE]
  /\ UNCHANGED <<journalVars, store, providerVars, spends, rejected>>

PostRefused ==
  /\ At("post")
  /\ \/ Cancel
     \/ /\ Update(Cancelled, [Finish("TerminalNotApplied") EXCEPT !.sent = TRUE])
        /\ UNCHANGED <<due, deferred>>
  /\ Quiet

(* A definite refusal settles the attempt; any other answer, and none at   *)
(* all, leaves it uncertain.                                               *)
Outcome(code) == IF code \in {"NoCredit", "NothingToReset"} THEN "TerminalNotApplied"
                 ELSE "Uncertain"
RecordAnswer ==
  /\ At("answer")
  /\ \E code \in {proc.answer, None} :
       LET s == Outcome(code)
       IN Update([proc.attempt EXCEPT !.state = s],
                 IF s = "Uncertain" THEN [proc EXCEPT !.pc = "refetch"]
                 ELSE Finish("TerminalNotApplied"))
  /\ UNCHANGED <<due, deferred>> /\ Quiet

Refetch ==
  /\ At("refetch")
  /\ \E b \in Inventories(proc.acct) \cup {[proc.bank EXCEPT !.fresh = FALSE]} :
       proc' = [proc EXCEPT !.pc = "reconcile", !.bank = b]
  /\ UNCHANGED journalVars /\ Quiet

(* reconcile_attempt: attempts that need no provider.                      *)
Lapsed(x) == /\ x.origin = "ExternalInventoryDecrease"
             /\ x.credit # None /\ x.credit <= proc.bank.at
ReconcileSettled ==
  /\ At("reconcile")
  /\ LET x == proc.attempt
     IN \/ /\ x.state = "TerminalNotApplied"
           /\ proc' = Finish("TerminalNotApplied") /\ UNCHANGED journalVars
        \/ /\ x.state # "TerminalNotApplied" /\ Lapsed(x)
           /\ Update([x EXCEPT !.state = "ExpiredUnresolved"], Finish("TerminalNotApplied"))
           /\ UNCHANGED due /\ deferred' = deferred \ {x.req}
        \/ /\ x.state # "TerminalNotApplied" /\ ~Lapsed(x) /\ x.req \in deferred
           /\ proc' = Finish("Suppressed") /\ UNCHANGED journalVars
  /\ Quiet

(* Mutant: a usable quota alone confirms the reset.                        *)
ReconciledByQuota(x, usable) ==
  IF usable THEN "ReconciledUsable"
  ELSE IF x.req \in due THEN "ReconciliationOverdue" ELSE "Uncertain"

(* The state fresh inventory and quota evidence leaves an attempt in.      *)
Reconciled(x, usable) ==
  LET held == x.origin = "ExternalInventoryDecrease" /\ x.req \notin due
  IN IF Consumed(x, proc.bank)
     THEN IF usable /\ ~held THEN "ReconciledUsable" ELSE "ConsumptionObserved"
     ELSE IF x.req \in due THEN "ReconciliationOverdue" ELSE "Uncertain"

(* The quota is refreshed, answers with nothing newer, or fails.           *)
Reconcile ==
  /\ At("reconcile") /\ proc.attempt.state # "TerminalNotApplied"
  /\ ~Lapsed(proc.attempt) /\ proc.attempt.req \notin deferred
  /\ \E got \in {"newer", "older", "error"} :
       LET x == proc.attempt
           usable == got = "newer" /\ quota[x.acct] # x.quota /\ Usable(quota[x.acct])
           s == Reconciled(x, usable)
       IN /\ Update([x EXCEPT !.state = s],
                    Finish(IF s = "ReconciledUsable" THEN s ELSE "Suppressed"))
          /\ deferred' = IF got = "error" \/ ~proc.bank.fresh THEN deferred \cup {x.req}
                         ELSE deferred
  /\ UNCHANGED due /\ Quiet

(* The caller activates a recovered account and commits the observation.   *)
Commit ==
  /\ At("commit")
  /\ store' = [store EXCEPT ![proc.acct] = proc.bank.avail]
  /\ proc' = IF proc.op # None /\ proc.flow # "ReconciledUsable" THEN Failing ELSE Dormant
  /\ UNCHANGED <<journalVars, providerVars, posts, spends, rejected>>

(* The account store or the activation changed while no lock was held.     *)
Interrupted ==
  /\ proc.pc \notin {"idle", "failed", "panicked"}
  /\ proc' = Failing /\ UNCHANGED journalVars /\ Quiet

(* Mutant: only this run's submission is looked at.                        *)
RejectableIfUnsent == ~journal.review /\ proc.flow \notin {"Suppressed", "ReconciledUsable"} /\ ~proc.sent

(* RedeemResetFailureEnvelope: a failure is a rejection only when nothing  *)
(* about the account is unresolved and the request was refused or unsent.  *)
Rejectable ==
  /\ ~journal.review
  /\ \A x \in Attempts : x.acct = proc.acct => ~Suppresses(x)
  /\ proc.flow \notin {"Suppressed", "ReconciledUsable"}
  /\ \/ \E x \in Attempts : x.acct = proc.acct /\ x.req = proc.op /\ x.state = "TerminalNotApplied"
     \/ ~proc.sent /\ \A x \in Attempts : x.acct = proc.acct => x.req # proc.op

Report ==
  /\ At("failed")
  /\ rejected' = IF proc.op # None /\ Rejectable
                 THEN rejected \cup {<<proc.op, proc.acct>>} ELSE rejected
  /\ proc' = Dormant
  /\ UNCHANGED <<journalVars, store, providerVars, posts, spends>>

Crash == ~At("idle") /\ proc' = Dormant /\ UNCHANGED journalVars /\ Quiet

-----------------------------------------------------------------------------
(* The provider, its other clients and the clock.                          *)

Event == events < MaxEvents /\ events' = events + 1
Redeemable(a, c) == c > now /\ credit[a][c] = "available"

Deliver(p) ==
  LET r == p[1]
      a == p[2]
      c == p[3]
      known == \E s \in spends : s[1] = r
      reset == ~known /\ Redeemable(a, c) /\ ~Usable(quota[a])
      code == CASE known -> "AlreadyRedeemed"
                [] ~known /\ ~Redeemable(a, c) -> "NoCredit"
                [] ~known /\ Redeemable(a, c) /\ Usable(quota[a]) -> "NothingToReset"
                [] reset -> "Reset"
  IN /\ p \in posts /\ posts' = posts \ {p}
     /\ spends' = IF reset THEN spends \cup {p} ELSE spends
     /\ credit' = IF reset THEN [credit EXCEPT ![a][c] = "lagging"] ELSE credit
     /\ quota' = IF reset THEN [quota EXCEPT ![a] = @ + 1] ELSE quota
     /\ proc' = IF At("answer") /\ p = Posted THEN [proc EXCEPT !.answer = code] ELSE proc
     /\ UNCHANGED <<journalVars, store, now, events, rejected>>

Lose(p) == /\ p \in posts /\ posts' = posts \ {p}
           /\ UNCHANGED <<journalVars, store, proc, providerVars, spends, rejected>>

(* A redeemed credit leaves the inventory some time after it is spent.     *)
Settle(a, c) ==
  /\ credit[a][c] = "lagging" /\ credit' = [credit EXCEPT ![a][c] = "redeemed"]
  /\ UNCHANGED <<journalVars, store, proc, quota, now, events, posts, spends, rejected>>

(* Another client redeems a credit, one is granted, the quota changes.     *)
Others(a) ==
  /\ Event
  /\ \/ \E c \in Credits : /\ Redeemable(a, c) /\ ~Usable(quota[a])
                           /\ credit' = [credit EXCEPT ![a][c] = "lagging"]
                           /\ quota' = [quota EXCEPT ![a] = @ + 1]
     \/ \E c \in Credits : /\ credit[a][c] = "ungranted" /\ UNCHANGED quota
                           /\ credit' = [credit EXCEPT ![a][c] = "available"]
     \/ quota' = [quota EXCEPT ![a] = @ + 1] /\ UNCHANGED credit
  /\ UNCHANGED <<journalVars, store, proc, now, posts, spends, rejected>>

(* Deadlines and backoffs pass; credits expire.                            *)
TimePasses ==
  /\ due' \in {due, Names(journal)} /\ deferred' \in {deferred, {}}
  /\ now' \in {n \in now..now + 1 : n <= MaxCredit}
  /\ UNCHANGED <<journal, forgotten, store, proc, credit, quota, events, posts, spends, rejected>>

Step == \/ PrepareResumed \/ PrepareExternal \/ PrepareSubmit \/ PrepareNothing
        \/ Authorize \/ Inventory \/ Mark \/ Post \/ PostRefused \/ RecordAnswer
        \/ Refetch \/ ReconcileSettled \/ Reconcile \/ Commit \/ Report
Provider == \/ \E p \in posts : Deliver(p) \/ Lose(p)
            \/ \E a \in Accounts, c \in Credits : Settle(a, c)
            \/ \E a \in Accounts : Others(a)
Next == \/ \E a \in Accounts : StartDaemon(a) \/ \E r \in Operations : StartRequest(a, r)
        \/ Step \/ Interrupted \/ Crash \/ Provider \/ TimePasses

Spec == Init /\ [][Next]_vars

-----------------------------------------------------------------------------
(* A consume request in flight that the provider would still honour.       *)
Live(p) == /\ p \in posts /\ Redeemable(p[2], p[3])
           /\ \A s \in spends : s[1] # p[1]

(* At most one request that could still spend a credit of an account is    *)
(* ever in flight, through crashes, timeouts, retries and late deliveries, *)
(* and while it is the journal suppresses every other redemption of the    *)
(* account (AttemptJournal.suppresses).                                    *)
OneLivePost ==
  /\ \A p, q \in posts : Live(p) /\ Live(q) /\ p[2] = q[2] => p = q
  /\ \A p \in posts : Live(p) =>
       journal.review \/ \E x \in Attempts : x.acct = p[2] /\ Suppresses(x)

(* An attempt reconciled as usable names a credit that really was spent,   *)
(* never one that merely expired.                                          *)
UsableMeansSpent ==
  \A x \in Attempts : x.state = "ReconciledUsable" =>
    credit[x.acct][x.credit] \in {"lagging", "redeemed"}

(* A client told that its request for an account was rejected has spent    *)
(* nothing of that account by it and will not, unless the journal has      *)
(* forgotten an older run of the request.                                  *)
RejectedSpentNothing ==
  \A w \in rejected : w[1] \notin forgotten =>
    /\ \A s \in spends : <<s[1], s[2]>> # w
    /\ \A p \in posts : <<p[1], p[2]>> = w => ~Live(p)

(* What the journal and the command report agrees with the provider.       *)
ReportsTrue == UsableMeansSpent /\ RejectedSpentNothing

(* Every journal update reads back the attempt it updated.                 *)
UpdateFindsItsAttempt == ~At("panicked")
=============================================================================
