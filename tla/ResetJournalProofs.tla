-------------------------- MODULE ResetJournalProofs --------------------------
(***************************************************************************)
(* The inductive invariant of ResetJournal and what follows from it: at    *)
(* most one request that could spend a credit of an account is in flight,  *)
(* and what the journal and the command report is true of the provider.    *)
(***************************************************************************)
EXTENDS ResetJournal, FiniteSetTheorems, WellFoundedInduction, TLAPS

Journals == [attempts: Seq(Attempt), review: BOOLEAN]
Entries(j) == {j.attempts[i] : i \in DOMAIN j.attempts}
Unique(s) == \A i, k \in DOMAIN s : s[i].req = s[k].req => i = k
OpenAt(s) == {i \in DOMAIN s : Suppresses(s[i])}
SettledAt(s) == DOMAIN s \ OpenAt(s)

(* The flow before its request is sent, and while it has an attempt.       *)
Unsent == {"authorize", "inventory", "mark", "post"}
Attempting == Unsent \cup {"answer", "refetch", "reconcile"}

(* No save leaves more than the limits, so that an update which settles    *)
(* nothing drops nothing.                                                  *)
Within(j) ==
  /\ Cardinality(OpenAt(j.attempts)) <= UnresolvedCap
  /\ Cardinality(SettledAt(j.attempts)) <= TerminalCap

(* What the attempts E of a journal tell of the provider.  What a request  *)
(* has sent or spent is journalled until it is forgotten.                  *)
Journalled(E) ==
  \A p \in posts \cup spends :
    p[1] \in forgotten \/ \E x \in E : x.req = p[1] /\ x.acct = p[2]

(* Whoever knows of a credit knows of one that was granted.                *)
Granted(a, C) == \A c \in C : credit[a][c] # "ungranted"
PresGranted(E) == \A x \in E : Granted(x.acct, x.pre) /\ (x.credit # None => x.credit \in x.pre)

(* A live request belongs to an open attempt for its credit.               *)
LiveOpen(E) ==
  \A p \in posts : Live(p) =>
    \/ journal.review
    \/ \E x \in E : /\ x.req = p[1] /\ x.acct = p[2] /\ x.credit = p[3]
                     /\ Suppresses(x) /\ x.origin = "LocalRequest"

UsableSpent(E) ==
  \A x \in E : x.state = "ReconciledUsable" =>
    x.credit # None /\ credit[x.acct][x.credit] \in {"lagging", "redeemed"}

(* A request that was not applied never will be, unless it was forgotten.  *)
Dead(r) == (\A s \in spends : s[1] # r) /\ \A p \in posts : p[1] = r => ~Live(p)
NotApplied(E) ==
  \A x \in E : x.state = "TerminalNotApplied" /\ x.req \notin forgotten => Dead(x.req)

AttemptsTrue(E) ==
  Journalled(E) /\ PresGranted(E) /\ LiveOpen(E) /\ UsableSpent(E) /\ NotApplied(E)

CreditsGranted ==
  /\ \A a \in Accounts : Granted(a, store[a])
  /\ \A p \in posts : credit[p[2]][p[3]] # "ungranted"
  /\ Granted(proc.acct, proc.bank.avail)
OneLive == \A p, q \in posts : Live(p) /\ Live(q) /\ p[2] = q[2] => p = q

(* The inventory a flow goes by: of the credits known before, those that   *)
(* are missing and have not expired were redeemed.                         *)
Missing(C) == \A c \in C : c > proc.bank.at /\ c \notin proc.bank.avail =>
                           credit[proc.acct][c] = "redeemed"
BankKnows ==
  proc.pc \in Attempting \cup {"prepare"} =>
    /\ proc.bank.redeemed \subseteq Gone(proc.acct)
    /\ Missing(store[proc.acct])
    /\ \A x \in Attempts : x.acct = proc.acct => Missing(x.pre)

AttemptKnows ==
  /\ proc.pc \in Attempting => proc.attempt \in Attempt /\ proc.attempt.acct = proc.acct
  /\ proc.pc \in Unsent \cup {"answer"} =>
       proc.attempt.state = "Prepared" /\ proc.attempt.origin = "LocalRequest"
  /\ proc.pc \in Unsent \cup {"prepare"} => proc.answer = None
  /\ proc.pc \in Unsent =>
       /\ proc.attempt.req = proc.op \/ (proc.op = None /\ proc.attempt.req \in Generated)
       /\ proc.attempt.pre # {} /\ proc.attempt.credit = Lowest(proc.attempt.pre)
  /\ proc.pc \in {"mark", "post", "answer"} =>
       proc.bank.avail # {} /\ proc.attempt.credit = Lowest(proc.bank.avail)

(* While no attempt of the account is open no request for it is live; the  *)
(* one that this flow sends is then the only one.                          *)
OnlyPosted ==
  ~journal.review =>
    /\ proc.pc \in Unsent => \A p \in posts : p[2] = proc.acct => ~Live(p)
    /\ proc.pc = "answer" => \A p \in posts : p[2] = proc.acct /\ Live(p) => p = Posted

(* A definite refusal is that of the request itself.                       *)
Refusals == {"NoCredit", "NothingToReset"}
AnswerKnows ==
  /\ proc.pc \in Unsent /\ proc.attempt.req \notin forgotten =>
       \A p \in posts \cup spends : p[1] # proc.attempt.req
  /\ proc.pc = "answer" /\ proc.answer \in Refusals /\ ~journal.review =>
       \A p \in posts : p[2] = proc.acct => ~Live(p)
  /\ proc.pc = "answer" /\ proc.attempt.req \notin forgotten =>
       \A p \in posts : p[1] = proc.attempt.req => p = Posted
  /\ proc.pc = "answer" /\ proc.answer \in Refusals /\ proc.attempt.req \notin forgotten =>
       Dead(proc.attempt.req)

OpKnows ==
  /\ proc.op # None => <<proc.op, proc.acct>> \notin rejected
  /\ proc.op \in Operations \cup {None}

FlowKnows == BankKnows /\ AttemptKnows /\ OnlyPosted /\ AnswerKnows /\ OpKnows
IInv ==
  /\ TypeOK /\ Within(journal) /\ AttemptsTrue(Attempts) /\ CreditsGranted /\ OneLive
  /\ FlowKnows /\ RejectedSpentNothing

-----------------------------------------------------------------------------
(* Numbers, and the positions of a sequence.                               *)

LEMMA LeastNatural ==
  ASSUME NEW S, S \subseteq Nat, S # {}
  PROVE  \E x \in S : \A y \in S : x <= y
<1>1. PICK x \in S : \A y \in S : <<y, x>> \notin OpToRel(<, Nat)
  BY WFMin, NatLessThanWellFounded, Zenon
<1>2. \A y \in S : ~(y < x)
  BY <1>1, Zenon DEF OpToRel
<1>. QED BY <1>2

LEMMA LowestIn ==
  ASSUME NEW S, S \subseteq Nat, S # {}
  PROVE  Lowest(S) \in S
BY LeastNatural DEF Lowest

LEMMA Finite ==
  ASSUME NEW m \in Nat, NEW I \in SUBSET (1..m)
  PROVE  IsFiniteSet(I) /\ Cardinality(I) \in Nat /\ I \subseteq Nat
<1>1. IsFiniteSet(1..m)
  BY FS_Interval
<1>2. IsFiniteSet(I)
  BY <1>1, FS_Subset
<1>. QED BY <1>2, FS_CardinalityType

(* How many positions are at most i: a later position has more.            *)
LEMMA RankRises ==
  ASSUME NEW m \in Nat, NEW I \in SUBSET (1..m), NEW i \in I, NEW k \in I, i < k
  PROVE  Cardinality({h \in I : h <= i}) < Cardinality({h \in I : h <= k})
<1>. DEFINE A == {h \in I : h <= i}
            B == {h \in I : h <= k}
<1>1. A \in SUBSET B /\ k \in B /\ k \notin A
  <2>1. \A h \in I : h \in Nat
    BY Finite
  <2>2. \A h \in I : h <= i => h <= k
    BY <2>1
  <2>3. k <= k /\ ~(k <= i)
    BY <2>1
  <2>. QED BY <2>2, <2>3
<1>2. IsFiniteSet(B) /\ Cardinality(B) \in Nat /\ IsFiniteSet(A) /\ Cardinality(A) \in Nat
  BY Finite
<1>. HIDE DEF A, B
<1>3. Cardinality(A) <= Cardinality(B) /\ Cardinality(A) # Cardinality(B)
  BY <1>1, <1>2, FS_Subset
<1>4. Cardinality(A) < Cardinality(B)
  BY <1>2, <1>3
<1>. QED BY <1>4 DEF A, B

LEMMA RankBounds ==
  ASSUME NEW m \in Nat, NEW I \in SUBSET (1..m), NEW i \in I
  PROVE  Cardinality({h \in I : h <= i}) \in 1..Cardinality(I)
<1>. DEFINE A == {h \in I : h <= i}
<1>1. A \in SUBSET I /\ i \in A
  BY Finite
<1>2. IsFiniteSet(I) /\ Cardinality(I) \in Nat /\ IsFiniteSet(A) /\ Cardinality(A) \in Nat
  BY Finite
<1>. HIDE DEF A
<1>3. Cardinality(A) <= Cardinality(I) /\ Cardinality(A) # 0
  BY <1>1, <1>2, FS_Subset, FS_EmptySet
<1>4. Cardinality(A) \in 1..Cardinality(I)
  BY <1>2, <1>3
<1>. QED BY <1>4 DEF A

(* The n-th of the positions, for every n there is.                        *)
LEMMA NthIs ==
  ASSUME NEW m \in Nat, NEW I \in SUBSET (1..m), NEW n \in 1..Cardinality(I)
  PROVE  Nth(I, n) \in I /\ Cardinality({k \in I : k <= Nth(I, n)}) = n
<1>. DEFINE R == [i \in I |-> Cardinality({k \in I : k <= i})]
<1>1. R \in [I -> 1..Cardinality(I)]
  BY RankBounds
<1>2. \A i, k \in I : R[i] = R[k] => i = k
  <2>. SUFFICES ASSUME NEW i \in I, NEW k \in I, R[i] = R[k], i # k
                PROVE  FALSE
    OBVIOUS
  <2>1. i < k \/ k < i
    BY Finite
  <2>2. R[i] = Cardinality({h \in I : h <= i}) /\ R[k] = Cardinality({h \in I : h <= k})
    OBVIOUS
  <2>3. R[i] \in Nat
    BY Finite, <1>1
  <2>4. i < k => R[i] < R[k]
    BY <2>2, RankRises
  <2>5. k < i => R[k] < R[i]
    BY <2>2, RankRises
  <2>. QED BY <2>1, <2>3, <2>4, <2>5
<1>3. R \in Injection(I, 1..Cardinality(I))
  BY <1>1, <1>2 DEF Injection, IsInjective
<1>4. IsFiniteSet(1..Cardinality(I)) /\ Cardinality(1..Cardinality(I)) = Cardinality(I)
  <2>1. Cardinality(I) \in Nat
    BY Finite
  <2>. QED BY <2>1, FS_Interval
<1>5. R \in Surjection(I, 1..Cardinality(I))
  BY <1>3, <1>4, FS_Injection
<1>6. \E i \in I : Cardinality({k \in I : k <= i}) = n
  BY <1>5 DEF Surjection
<1>. QED BY <1>6 DEF Nth

(* Every position is one of them.                                          *)
LEMMA NthOf ==
  ASSUME NEW m \in Nat, NEW I \in SUBSET (1..m), NEW i \in I
  PROVE  \E n \in 1..Cardinality(I) : Nth(I, n) = i
<1>. DEFINE n == Cardinality({k \in I : k <= i})
            h == Nth(I, n)
<1>1. n \in 1..Cardinality(I)
  BY RankBounds
<1>2. h \in I /\ Cardinality({k \in I : k <= h}) = n
  BY <1>1, NthIs
<1>3. n \in Nat
  BY <1>1, Finite
<1>4. ~(h < i) /\ ~(i < h)
  <2>. HIDE DEF h
  <2>1. h < i => Cardinality({k \in I : k <= h}) < n
    BY <1>2, RankRises
  <2>2. i < h => n < Cardinality({k \in I : k <= h})
    BY <1>2, RankRises
  <2>. QED BY <1>2, <1>3, <2>1, <2>2
<1>5. h \in Nat /\ i \in Nat
  BY <1>2, Finite
<1>6. h = i
  BY <1>4, <1>5
<1>. QED BY <1>1, <1>6

LEMMA Positions ==
  ASSUME NEW S, NEW s \in Seq(S)
  PROVE  Len(s) \in Nat /\ DOMAIN s = 1..Len(s) /\ \A i \in DOMAIN s : s[i] \in S
OBVIOUS

(* What is kept of a sequence are the entries at the positions, once each. *)
LEMMA KeepingIs ==
  ASSUME NEW S, NEW s \in Seq(S), NEW I \in SUBSET DOMAIN s
  PROVE  /\ Keeping(s, I) \in Seq(S) /\ DOMAIN Keeping(s, I) = 1..Cardinality(I)
         /\ \A n \in DOMAIN Keeping(s, I) : Nth(I, n) \in I /\ Keeping(s, I)[n] = s[Nth(I, n)]
         /\ \A n, k \in DOMAIN Keeping(s, I) : Nth(I, n) = Nth(I, k) => n = k
<1>1. Len(s) \in Nat /\ I \in SUBSET (1..Len(s)) /\ \A i \in I : s[i] \in S
  BY Positions
<1>2. Cardinality(I) \in Nat
  BY <1>1, Finite
<1>3. \A n \in 1..Cardinality(I) : Nth(I, n) \in I /\ Cardinality({k \in I : k <= Nth(I, n)}) = n
  BY <1>1, NthIs
<1>. DEFINE t == [n \in 1..Cardinality(I) |-> s[Nth(I, n)]]
<1>5. t \in [1..Cardinality(I) -> S]
  BY <1>1, <1>3
<1>6. t \in Seq(S)
  BY <1>2, <1>5
<1>7. Keeping(s, I) = t
  BY DEF Keeping
<1>8. \A n \in 1..Cardinality(I) : t[n] = s[Nth(I, n)]
  OBVIOUS
<1>9. \A n, k \in 1..Cardinality(I) : Nth(I, n) = Nth(I, k) => n = k
  BY <1>3
<1>10. DOMAIN t = 1..Cardinality(I)
  OBVIOUS
<1>. HIDE DEF t
<1>. QED BY <1>3, <1>6, <1>7, <1>8, <1>9, <1>10

(* Keeping every position changes nothing.                                 *)
LEMMA KeepingAll ==
  ASSUME NEW S, NEW s \in Seq(S)
  PROVE  Keeping(s, DOMAIN s) = s
<1>1. Len(s) \in Nat /\ DOMAIN s = 1..Len(s)
  BY Positions
<1>2. Cardinality(DOMAIN s) = Len(s)
  BY <1>1, FS_Interval
<1>3. ASSUME NEW n \in 1..Len(s)
      PROVE  Nth(1..Len(s), n) = n
  <2>1. Nth(1..Len(s), n) \in 1..Len(s) /\ Cardinality({k \in 1..Len(s) : k <= Nth(1..Len(s), n)}) = n
    BY <1>1, <1>2, NthIs
  <2>2. PICK i \in 1..Len(s) : i = Nth(1..Len(s), n)
    BY <2>1
  <2>3. {k \in 1..Len(s) : k <= i} = 1..i
    BY <1>1
  <2>4. Cardinality(1..i) = i
    BY <1>1, FS_Interval
  <2>. QED BY <2>1, <2>2, <2>3, <2>4
<1>4. Keeping(s, DOMAIN s) = [n \in 1..Len(s) |-> s[n]]
  BY <1>1, <1>2, <1>3 DEF Keeping
<1>. QED BY <1>1, <1>4

(* The newest n positions are at most n, and all of them where there are   *)
(* no more.                                                                *)
LEMMA NewestBound ==
  ASSUME NEW m \in Nat, NEW I \in SUBSET (1..m), NEW n \in Nat
  PROVE  Newest(I, n) \in SUBSET I /\ Cardinality(Newest(I, n)) <= n
<1>1. IsFiniteSet(I) /\ I \subseteq Nat
  BY Finite
<1>. DEFINE A(i) == {k \in I : k > i}
            R == [i \in Newest(I, n) |-> Cardinality(A(i))]
<1>2. \A i \in I : A(i) \in SUBSET I /\ Cardinality(A(i)) \in Nat /\ IsFiniteSet(A(i))
  BY Finite
<1>3. R \in [Newest(I, n) -> 0..(n - 1)]
  <2>1. \A i \in Newest(I, n) : i \in I /\ Cardinality(A(i)) < n
    BY DEF Newest
  <2>2. \A i \in I : Cardinality(A(i)) \in Nat
    BY <1>2
  <2>. HIDE DEF A
  <2>3. ASSUME NEW i \in Newest(I, n)
        PROVE  Cardinality(A(i)) \in 0..(n - 1)
    <3>. DEFINE c == Cardinality(A(i))
    <3>1. c < n /\ c \in Nat
      BY <2>1, <2>2
    <3>. HIDE DEF c
    <3>2. c \in 0..(n - 1)
      BY <3>1
    <3>. QED BY <3>2 DEF c
  <2>. QED BY <2>3
<1>4. ASSUME NEW i \in I, NEW k \in I, i < k
      PROVE  Cardinality(A(k)) < Cardinality(A(i))
  <2>1. A(k) \in SUBSET A(i) /\ k \in A(i) /\ k \notin A(k)
    <3>1. \A h \in I : h \in Nat
      BY <1>1
    <3>2. \A h \in I : h > k => h > i
      BY <1>4, <3>1
    <3>3. k > i /\ ~(k > k)
      BY <1>4, <3>1
    <3>. QED BY <3>2, <3>3
  <2>. HIDE DEF A
  <2>2. Cardinality(A(k)) <= Cardinality(A(i)) /\ Cardinality(A(k)) # Cardinality(A(i))
    BY <1>2, <2>1, FS_Subset
  <2>. QED BY <1>2, <2>2
<1>5. \A i, k \in Newest(I, n) : R[i] = R[k] => i = k
  <2>. SUFFICES ASSUME NEW i \in Newest(I, n), NEW k \in Newest(I, n), R[i] = R[k], i # k
                PROVE  FALSE
    OBVIOUS
  <2>1. i \in I /\ k \in I
    BY DEF Newest
  <2>2. i < k \/ k < i
    BY <1>1, <2>1
  <2>3. Cardinality(A(i)) = Cardinality(A(k)) /\ Cardinality(A(i)) \in Nat
    BY <1>2, <2>1
  <2>. HIDE DEF A, R
  <2>. QED BY <1>4, <2>1, <2>2, <2>3
<1>. HIDE DEF R
<1>6. R \in Injection(Newest(I, n), 0..(n - 1))
  BY <1>3, <1>5 DEF Injection, IsInjective
<1>7. IsFiniteSet(0..(n - 1)) /\ Cardinality(0..(n - 1)) = n
  BY FS_Interval
<1>8. Cardinality(Newest(I, n)) <= n
  BY <1>6, <1>7, FS_Injection
<1>. QED BY <1>8 DEF Newest

LEMMA NewestAll ==
  ASSUME NEW m \in Nat, NEW I \in SUBSET (1..m), NEW n \in Nat, Cardinality(I) <= n
  PROVE  Newest(I, n) = I
<1>. SUFFICES ASSUME NEW i \in I
              PROVE  Cardinality({k \in I : k > i}) < n
  BY DEF Newest
<1>. DEFINE A == {k \in I : k > i}
<1>1. IsFiniteSet(I) /\ Cardinality(I) \in Nat /\ I \subseteq Nat
  BY Finite
<1>2. A \in SUBSET I /\ i \notin A
  BY <1>1
<1>3. Cardinality(A) \in Nat
  BY Finite
<1>. HIDE DEF A
<1>4. Cardinality(A) <= Cardinality(I) /\ Cardinality(A) # Cardinality(I)
  BY <1>1, <1>2, FS_Subset
<1>5. Cardinality(A) < n
  BY <1>1, <1>3, <1>4
<1>. QED BY <1>5 DEF A

-----------------------------------------------------------------------------
(* Saving the journal.                                                     *)

LEMMA JournalFields ==
  ASSUME NEW j \in Journals
  PROVE  /\ j.attempts \in Seq(Attempt) /\ j.review \in BOOLEAN
         /\ Len(j.attempts) \in Nat /\ DOMAIN j.attempts = 1..Len(j.attempts)
         /\ \A i \in DOMAIN j.attempts : j.attempts[i] \in Attempt
         /\ OpenAt(j.attempts) \in SUBSET (1..Len(j.attempts))
         /\ SettledAt(j.attempts) \in SUBSET (1..Len(j.attempts))
<1>1. j.attempts \in Seq(Attempt) /\ j.review \in BOOLEAN
  BY DEF Journals
<1>. QED BY <1>1, Positions DEF OpenAt, SettledAt

(* Pruning keeps what is open, up to its limit: beyond it the journal goes *)
(* to manual review.                                                       *)
LEMMA PrunedIs ==
  ASSUME NEW j \in Journals, Unique(j.attempts)
  PROVE  /\ Pruned(j) \in Journals /\ Unique(Pruned(j).attempts) /\ Within(Pruned(j))
         /\ Entries(Pruned(j)) \subseteq Entries(j)
         /\ j.review => Pruned(j).review
         /\ ~Pruned(j).review => \A x \in Entries(j) : Suppresses(x) => x \in Entries(Pruned(j))
<1>. DEFINE s == j.attempts
            N == Newest(OpenAt(s), UnresolvedCap)
            M == Newest(SettledAt(s), TerminalCap)
            I == N \cup M
            t == Keeping(s, I)
            review == j.review \/ Cardinality(OpenAt(s)) > UnresolvedCap
<1>1. /\ s \in Seq(Attempt) /\ Len(s) \in Nat /\ DOMAIN s = 1..Len(s)
      /\ OpenAt(s) \in SUBSET (1..Len(s)) /\ SettledAt(s) \in SUBSET (1..Len(s))
  BY JournalFields
<1>2. UnresolvedCap \in Nat /\ TerminalCap \in Nat
  BY CapsAssumption
<1>3. Pruned(j) = [attempts |-> t, review |-> review]
  BY DEF Pruned, OpenAt, SettledAt
<1>4. /\ N \in SUBSET OpenAt(s) /\ Cardinality(N) <= UnresolvedCap
      /\ M \in SUBSET SettledAt(s) /\ Cardinality(M) <= TerminalCap
  BY <1>1, <1>2, NewestBound
<1>5. I \in SUBSET DOMAIN s /\ I \cap OpenAt(s) = N /\ I \cap SettledAt(s) = M
  BY <1>1, <1>4 DEF SettledAt
<1>6. IsFiniteSet(N) /\ IsFiniteSet(M) /\ Cardinality(N) \in Nat /\ Cardinality(M) \in Nat
  BY <1>1, <1>4, Finite
<1>. HIDE DEF N, M, I
<1>7. /\ t \in Seq(Attempt)
      /\ \A n \in DOMAIN t : Nth(I, n) \in I /\ t[n] = s[Nth(I, n)]
      /\ \A n, k \in DOMAIN t : Nth(I, n) = Nth(I, k) => n = k
      /\ \A i \in I : \E n \in DOMAIN t : Nth(I, n) = i
  <2>1. I \in SUBSET DOMAIN s /\ s \in Seq(Attempt)
    BY <1>1, <1>5
  <2>2. t \in Seq(Attempt)
    BY <2>1, KeepingIs
  <2>3. \A n \in DOMAIN t : Nth(I, n) \in I /\ t[n] = s[Nth(I, n)]
    BY <2>1, KeepingIs
  <2>4. \A n, k \in DOMAIN t : Nth(I, n) = Nth(I, k) => n = k
    BY <2>1, KeepingIs
  <2>5. ASSUME NEW i \in I
        PROVE  \E n \in DOMAIN t : Nth(I, n) = i
    <3>1. DOMAIN t = 1..Cardinality(I)
      BY <2>1, KeepingIs
    <3>2. I \in SUBSET (1..Len(s))
      BY <1>1, <2>1
    <3>. QED BY <1>1, <2>5, <3>1, <3>2, NthOf
  <2>. QED BY <2>2, <2>3, <2>4, <2>5
<1>. HIDE DEF t
<1>8. Len(t) \in Nat /\ DOMAIN t = 1..Len(t)
  BY <1>7, Positions
<1>9. Unique(t)
  BY <1>5, <1>7 DEF Unique
<1>10. ASSUME NEW A, NEW B, IsFiniteSet(B), Cardinality(B) \in Nat, A \in SUBSET DOMAIN t,
              \A n \in A : Nth(I, n) \in B
       PROVE  Cardinality(A) <= Cardinality(B)
  <2>. DEFINE f == [n \in A |-> Nth(I, n)]
  <2>1. f \in [A -> B]
    BY <1>10
  <2>2. \A n, k \in A : f[n] = f[k] => n = k
    BY <1>7, <1>10
  <2>3. f \in Injection(A, B)
    BY <2>1, <2>2 DEF Injection, IsInjective
  <2>. QED BY <1>10, <2>3, FS_Injection
<1>11. Cardinality(OpenAt(t)) <= Cardinality(N)
  <2>1. OpenAt(t) \in SUBSET DOMAIN t
    BY DEF OpenAt
  <2>2. \A n \in OpenAt(t) : Nth(I, n) \in N
    BY <1>5, <1>7 DEF OpenAt
  <2>. QED BY <1>6, <1>10, <2>1, <2>2
<1>12. Cardinality(SettledAt(t)) <= Cardinality(M)
  <2>1. SettledAt(t) \in SUBSET DOMAIN t
    BY DEF SettledAt
  <2>2. \A n \in SettledAt(t) : Nth(I, n) \in M
    BY <1>5, <1>7 DEF OpenAt, SettledAt
  <2>. QED BY <1>6, <1>10, <2>1, <2>2
<1>13. Cardinality(OpenAt(t)) \in Nat /\ Cardinality(SettledAt(t)) \in Nat
  <2>1. OpenAt(t) \in SUBSET (1..Len(t)) /\ SettledAt(t) \in SUBSET (1..Len(t))
    BY <1>8 DEF OpenAt, SettledAt
  <2>. QED BY <1>8, <2>1, Finite
<1>14. Within([attempts |-> t, review |-> review])
  BY <1>2, <1>4, <1>6, <1>11, <1>12, <1>13 DEF Within
<1>15. \A n \in DOMAIN t : \E i \in DOMAIN s : t[n] = s[i]
  BY <1>5, <1>7
<1>16. ASSUME ~review, NEW i \in DOMAIN s, Suppresses(s[i])
       PROVE  \E n \in DOMAIN t : t[n] = s[i]
  <2>1. Cardinality(OpenAt(s)) \in Nat
    BY <1>1, Finite
  <2>2. Cardinality(OpenAt(s)) <= UnresolvedCap
    BY <1>2, <1>16, <2>1
  <2>3. N = OpenAt(s)
    BY <1>1, <1>2, <2>2, NewestAll DEF N
  <2>4. i \in I
    BY <1>16, <2>3 DEF OpenAt, I
  <2>. QED BY <1>7, <2>4
<1>17. j.review \in BOOLEAN
  BY JournalFields
<1>18. [attempts |-> t, review |-> review] \in Journals
  BY <1>7, <1>17 DEF Journals
<1>. HIDE DEF review
<1>19. /\ Pruned(j).attempts = t /\ Pruned(j).review = review
       /\ Pruned(j) \in Journals /\ Within(Pruned(j))
  BY <1>3, <1>14, <1>18
<1>20. Entries(Pruned(j)) \subseteq Entries(j)
  BY <1>15, <1>19 DEF Entries
<1>21. j.review => Pruned(j).review
  BY <1>19 DEF review
<1>22. ~Pruned(j).review => \A x \in Entries(j) : Suppresses(x) => x \in Entries(Pruned(j))
  BY <1>16, <1>19 DEF Entries
<1>. QED BY <1>9, <1>19, <1>20, <1>21, <1>22

(* A journal within its limits is kept as it is.                           *)
LEMMA NothingPruned ==
  ASSUME NEW j \in Journals, Within(j)
  PROVE  Pruned(j).attempts = j.attempts /\ Pruned(j).review = j.review
<1>. DEFINE s == j.attempts
<1>1. /\ s \in Seq(Attempt) /\ Len(s) \in Nat /\ DOMAIN s = 1..Len(s)
      /\ OpenAt(s) \in SUBSET (1..Len(s)) /\ SettledAt(s) \in SUBSET (1..Len(s))
      /\ j.review \in BOOLEAN
  BY JournalFields
<1>2. UnresolvedCap \in Nat /\ TerminalCap \in Nat
  BY CapsAssumption
<1>3. Newest(OpenAt(s), UnresolvedCap) = OpenAt(s) /\ Newest(SettledAt(s), TerminalCap) = SettledAt(s)
  BY <1>1, <1>2, NewestAll DEF Within
<1>4. OpenAt(s) \cup SettledAt(s) = DOMAIN s
  BY DEF OpenAt, SettledAt
<1>5. Keeping(s, DOMAIN s) = s
  BY <1>1, KeepingAll
<1>6. Cardinality(OpenAt(s)) \in Nat /\ ~(Cardinality(OpenAt(s)) > UnresolvedCap)
  <2>1. Cardinality(OpenAt(s)) \in Nat
    BY <1>1, Finite
  <2>. QED BY <1>2, <2>1 DEF Within
<1>7. Pruned(j) = [attempts |-> Keeping(s, OpenAt(s) \cup SettledAt(s)),
                   review |-> j.review \/ Cardinality(OpenAt(s)) > UnresolvedCap]
  BY <1>3 DEF Pruned, OpenAt, SettledAt
<1>8. Pruned(j).attempts = s
  BY <1>4, <1>5, <1>7
<1>9. Pruned(j).review = (j.review \/ Cardinality(OpenAt(s)) > UnresolvedCap)
  BY <1>7
<1>10. Pruned(j).review = j.review
  BY <1>1, <1>6, <1>9
<1>. QED BY <1>8, <1>10

(* What a save of a journal with the attempts E leaves.                    *)
Saved(E) ==
  /\ journal' \in Journals /\ Unique(journal'.attempts) /\ Within(journal')
  /\ Attempts' \subseteq E
  /\ forgotten \subseteq forgotten' /\ forgotten' \subseteq Requests
  /\ \A x \in E : x.req \in forgotten' \/ x \in Attempts'
  /\ journal.review => journal'.review
  /\ ~journal'.review => \A x \in E : Suppresses(x) => x \in Attempts'

LEMMA AttemptsAre ==
  /\ Attempts = Entries(journal) /\ Attempts' = Entries(journal')
  /\ TypeOK => /\ journal \in Journals /\ Unique(journal.attempts) /\ Attempts \subseteq Attempt
               /\ \A x, y \in Attempts : x.req = y.req => x = y
<1>1. Attempts = Entries(journal) /\ Attempts' = Entries(journal')
  BY DEF Attempts, Entries
<1>2. ASSUME TypeOK
      PROVE  /\ journal \in Journals /\ Unique(journal.attempts) /\ Attempts \subseteq Attempt
             /\ \A x, y \in Attempts : x.req = y.req => x = y
  <2>1. journal \in Journals /\ Unique(journal.attempts)
    BY <1>2 DEF TypeOK, Journals, Unique
  <2>2. \A i \in DOMAIN journal.attempts : journal.attempts[i] \in Attempt
    BY <2>1, JournalFields
  <2>. QED BY <2>1, <2>2 DEF Attempts, Unique
<1>. QED BY <1>1, <1>2

LEMMA SaveIs ==
  ASSUME TypeOK, NEW j \in Journals, Unique(j.attempts), journal.review => j.review, Save(j)
  PROVE  Saved(Entries(j))
<1>1. journal' = Pruned(j) /\ forgotten' = forgotten \cup (Names(j) \ Names(journal'))
  BY DEF Save
<1>2. /\ journal' \in Journals /\ Unique(journal'.attempts) /\ Within(journal')
      /\ Entries(journal') \subseteq Entries(j)
      /\ j.review => journal'.review
      /\ ~journal'.review => \A x \in Entries(j) : Suppresses(x) => x \in Entries(journal')
  BY <1>1, PrunedIs
<1>3. ASSUME NEW x \in Entries(j), x.req \notin forgotten'
      PROVE  x \in Entries(journal')
  <2>1. x.req \in Names(j)
    BY <1>3 DEF Names, Entries
  <2>2. x.req \in Names(journal')
    BY <1>1, <1>3, <2>1
  <2>3. PICK y \in Entries(journal') : y.req = x.req
    BY <2>2 DEF Names, Entries
  <2>4. y \in Entries(j)
    BY <1>2, <2>3
  <2>5. y = x
    BY <1>3, <2>3, <2>4 DEF Entries, Unique
  <2>. QED BY <2>3, <2>5
<1>4. forgotten' \subseteq Requests
  <2>1. \A i \in DOMAIN j.attempts : j.attempts[i].req \in Requests
    BY JournalFields DEF Attempt
  <2>. QED BY <1>1, <2>1 DEF Names, TypeOK
<1>. QED BY <1>1, <1>2, <1>3, <1>4, AttemptsAre DEF Saved

(* A journal that is only sent to review, or gets one attempt more, or     *)
(* another state of one.                                                   *)
LEMMA ReviewSaved ==
  ASSUME TypeOK, Review
  PROVE  Saved(Attempts)
<1>. DEFINE j == [journal EXCEPT !.review = TRUE]
<1>1. journal \in Journals /\ Unique(journal.attempts)
  BY AttemptsAre
<1>2. j.attempts = journal.attempts /\ j.review = TRUE /\ j \in Journals
  BY <1>1 DEF Journals
<1>3. Save(j)
  BY DEF Review
<1>. HIDE DEF j
<1>4. Entries(j) = Attempts
  BY <1>2 DEF Entries, Attempts
<1>5. Saved(Entries(j))
  BY <1>1, <1>2, <1>3, SaveIs
<1>. QED BY <1>4, <1>5

LEMMA AppendSaved ==
  ASSUME TypeOK, NEW x \in Attempt, \A y \in Attempts : y.req # x.req,
         Save([journal EXCEPT !.attempts = Append(@, x)])
  PROVE  Saved(Attempts \cup {x})
<1>. DEFINE j == [journal EXCEPT !.attempts = Append(@, x)]
            s == journal.attempts
<1>1. journal \in Journals /\ Unique(s) /\ s \in Seq(Attempt)
  BY AttemptsAre, JournalFields
<1>2. j.attempts = Append(s, x) /\ j.review = journal.review
  BY <1>1 DEF Journals
<1>3. Append(s, x) \in Seq(Attempt)
  BY <1>1
<1>4. j \in Journals
  BY <1>1, <1>3 DEF Journals
<1>5. Save(j)
  OBVIOUS
<1>. HIDE DEF j
<1>6. Len(s) \in Nat /\ DOMAIN s = 1..Len(s) /\ DOMAIN Append(s, x) = 1..(Len(s) + 1)
  BY <1>1
<1>7. \A i \in DOMAIN s : Append(s, x)[i] = s[i]
  BY <1>1, <1>6
<1>8. Append(s, x)[Len(s) + 1] = x
  BY <1>1, <1>6
<1>9. \A i \in DOMAIN Append(s, x) : i \in DOMAIN s \/ i = Len(s) + 1
  BY <1>6
<1>10. DOMAIN s \subseteq DOMAIN Append(s, x) /\ Len(s) + 1 \in DOMAIN Append(s, x)
  BY <1>6
<1>11. Entries(j) = Attempts \cup {x}
  BY <1>2, <1>7, <1>8, <1>9, <1>10 DEF Entries, Attempts
<1>12. \A i \in DOMAIN s : s[i].req # x.req
  BY DEF Attempts
<1>13. Unique(Append(s, x))
  BY <1>1, <1>7, <1>8, <1>9, <1>12 DEF Unique
<1>14. Saved(Entries(j))
  BY <1>2, <1>4, <1>5, <1>13, SaveIs
<1>. QED BY <1>11, <1>14

Replaced(x) == (Attempts \ {proc.attempt}) \cup {x}
PositionOf(x) == CHOOSE k \in DOMAIN journal.attempts : journal.attempts[k].req = x.req
WithAttempt(x) == [journal EXCEPT !.attempts[PositionOf(x)] = x]

(* The journal with another state of the attempt.                          *)
LEMMA ReplacedIs ==
  ASSUME TypeOK, NEW x \in Attempt, proc.attempt \in Attempts, x.req = proc.attempt.req
  PROVE  LET j == WithAttempt(x)
             i == PositionOf(x)
             s == journal.attempts
         IN  /\ j \in Journals /\ Unique(j.attempts) /\ j.review = journal.review
             /\ Entries(j) = Replaced(x)
             /\ i \in DOMAIN s /\ s[i] = proc.attempt
             /\ DOMAIN j.attempts = DOMAIN s /\ j.attempts[i] = x
             /\ \A k \in DOMAIN s : k # i => j.attempts[k] = s[k]
<1>. DEFINE j == WithAttempt(x)
            i == PositionOf(x)
            s == journal.attempts
            t == [s EXCEPT ![i] = x]
<1>1. journal \in Journals /\ Unique(s) /\ s \in Seq(Attempt)
  BY AttemptsAre, JournalFields
<1>2. PICK h \in DOMAIN s : s[h] = proc.attempt
  BY DEF Attempts
<1>3. i \in DOMAIN s /\ s[i].req = x.req
  BY <1>2 DEF PositionOf
<1>4. s[i] = proc.attempt
  BY <1>1, <1>2, <1>3 DEF Unique
<1>5. j.attempts = t /\ j.review = journal.review
  BY <1>1 DEF Journals, WithAttempt
<1>6. t \in Seq(Attempt) /\ DOMAIN t = DOMAIN s
  <2>. HIDE DEF i
  <2>1. Len(s) \in Nat /\ DOMAIN s = 1..Len(s) /\ \A k \in DOMAIN s : s[k] \in Attempt
    BY <1>1, Positions
  <2>2. DOMAIN t = DOMAIN s /\ \A k \in DOMAIN s : t[k] \in Attempt
    BY <2>1
  <2>3. t \in [1..Len(s) -> Attempt]
    BY <2>1, <2>2
  <2>. QED BY <2>1, <2>2, <2>3
<1>7. j = [attempts |-> t, review |-> journal.review]
  BY <1>1 DEF Journals, WithAttempt
<1>8. j \in Journals
  BY <1>1, <1>6, <1>7, JournalFields DEF Journals
<1>9. t[i] = x /\ \A k \in DOMAIN s : k # i => t[k] = s[k]
  BY <1>3
<1>. HIDE DEF t, i, j
<1>10. Unique(t)
  BY <1>1, <1>3, <1>6, <1>9 DEF Unique
<1>11. Entries(j) = Replaced(x)
  <2>1. ASSUME NEW k \in DOMAIN t
        PROVE  t[k] \in Replaced(x)
    <3>1. CASE k = i
      BY <3>1, <1>9 DEF Replaced
    <3>2. CASE k # i
      <4>1. t[k] = s[k] /\ s[k].req # s[i].req
        BY <1>1, <1>3, <1>6, <1>9, <3>2 DEF Unique
      <4>2. t[k] \in Attempts /\ t[k] # proc.attempt
        BY <1>4, <1>6, <4>1 DEF Attempts
      <4>. QED BY <4>2 DEF Replaced
    <3>. QED BY <3>1, <3>2
  <2>2. ASSUME NEW y \in Replaced(x)
        PROVE  \E k \in DOMAIN t : t[k] = y
    <3>1. CASE y = x
      BY <3>1, <1>3, <1>6, <1>9
    <3>2. CASE y # x
      <4>1. y \in Attempts /\ y # proc.attempt
        BY <3>2 DEF Replaced
      <4>2. PICK k \in DOMAIN s : s[k] = y
        BY <4>1 DEF Attempts
      <4>3. k # i
        BY <1>4, <4>1, <4>2
      <4>. QED BY <1>6, <1>9, <4>2, <4>3
    <3>. QED BY <3>1, <3>2
  <2>3. Entries(j) = {t[k] : k \in DOMAIN t}
    BY <1>5 DEF Entries
  <2>. QED BY <2>1, <2>2, <2>3
<1>. QED BY <1>3, <1>4, <1>5, <1>6, <1>8, <1>9, <1>10, <1>11 DEF i, j

(* An attempt that stays open, or settled, leaves the journal within its   *)
(* limits, and is read back.                                               *)
LEMMA ReplacedWithin ==
  ASSUME TypeOK, NEW x \in Attempt, proc.attempt \in Attempts, x.req = proc.attempt.req,
         Within(journal), Suppresses(x) <=> Suppresses(proc.attempt)
  PROVE  Within(WithAttempt(x))
<1>. DEFINE j == WithAttempt(x)
            i == PositionOf(x)
            s == journal.attempts
<1>1. /\ i \in DOMAIN s /\ s[i] = proc.attempt
      /\ DOMAIN j.attempts = DOMAIN s /\ j.attempts[i] = x
      /\ \A k \in DOMAIN s : k # i => j.attempts[k] = s[k]
  BY ReplacedIs
<1>. HIDE DEF i, j
<1>2. OpenAt(j.attempts) = OpenAt(s)
  BY <1>1 DEF OpenAt
<1>3. SettledAt(j.attempts) = SettledAt(s)
  BY <1>1, <1>2 DEF SettledAt
<1>. QED BY <1>2, <1>3 DEF Within, j

LEMMA UpdateIs ==
  ASSUME TypeOK, NEW x \in Attempt, NEW p, x.req = proc.attempt.req, Update(x, p)
  PROVE  \/ proc' = Failing /\ journal' = journal /\ forgotten' = forgotten
         \/ proc' = Failing /\ Saved(Attempts)
         \/ /\ ~journal.review /\ proc.attempt \in Attempts /\ Saved(Replaced(x))
            /\ \/ proc' = [Dormant EXCEPT !.pc = "panicked"]
               \/ p.attempt = None /\ proc' = p
               \/ \E y : /\ p.attempt # None /\ proc' = [p EXCEPT !.attempt = y]
                         /\ Within(journal) /\ (Suppresses(x) <=> Suppresses(proc.attempt))
                              => y = x /\ ~journal'.review
<1>1. CASE journal.review
  BY <1>1 DEF Update
<1>2. CASE ~journal.review /\ proc.attempt \notin Attempts
  <2>1. Review /\ proc' = Failing
    BY <1>2 DEF Update
  <2>. QED BY <2>1, ReviewSaved
<1>3. CASE ~journal.review /\ proc.attempt \in Attempts
  <2>. DEFINE i == PositionOf(x)
              j == WithAttempt(x)
  <2>1. /\ Save(j)
        /\ proc' = IF i \in DOMAIN journal'.attempts
                   THEN IF p.attempt = None THEN p ELSE [p EXCEPT !.attempt = journal'.attempts[i]]
                   ELSE [Dormant EXCEPT !.pc = "panicked"]
    BY <1>3 DEF Update, PositionOf, WithAttempt
  <2>2. /\ j \in Journals /\ Unique(j.attempts) /\ j.review = journal.review
        /\ Entries(j) = Replaced(x) /\ j.attempts[i] = x
    BY <1>3, ReplacedIs
  <2>3. ASSUME Within(journal), Suppresses(x) <=> Suppresses(proc.attempt)
        PROVE  journal'.attempts[i] = x /\ journal'.review = journal.review
    <3>1. Within(j)
      BY <1>3, <2>3, ReplacedWithin
    <3>2. journal' = Pruned(j)
      BY <2>1 DEF Save
    <3>. HIDE DEF i, j
    <3>. QED BY <2>2, <3>1, <3>2, NothingPruned
  <2>. HIDE DEF i, j
  <2>4. Saved(Entries(j))
    BY <2>1, <2>2, SaveIs
  <2>. QED BY <1>3, <2>1, <2>2, <2>3, <2>4
<1>. QED BY <1>1, <1>2, <1>3

-----------------------------------------------------------------------------
(* The flow: its fields, and how it ends.                                  *)

Flows == {"NoAttempt", "Suppressed", "TerminalNotApplied", "ReconciledUsable"}
Ends == {"idle", "failed", "panicked", "commit"}

LEMMA ProcFields ==
  ASSUME NEW q \in Proc
  PROVE  /\ q.pc \in Pcs /\ q.acct \in Accounts /\ q.op \in Requests \cup {None} /\ q.may \in BOOLEAN
         /\ q.bank \in Bank /\ q.known \in Nat /\ q.attempt \in Attempt \cup {None}
         /\ q.sent \in BOOLEAN /\ q.answer \in Codes \cup {None} /\ q.flow \in Flows \cup {None}
         /\ q.bank.avail \subseteq Credits /\ q.bank.redeemed \subseteq Credits /\ q.bank.at \in Nat
         /\ q.bank.fresh \in BOOLEAN
BY DEF Proc, Bank, Flows

LEMMA DormantIs ==
  /\ Dormant \in Proc /\ Dormant.pc = "idle" /\ Dormant.op = None /\ Dormant.attempt = None
  /\ Dormant.bank = [avail |-> {}, redeemed |-> {}, at |-> 0, fresh |-> FALSE]
  /\ Dormant.answer = None
<1>. DEFINE a == CHOOSE b \in Accounts : TRUE
<1>1. a \in Accounts
  BY AccountsAssumption
<1>. HIDE DEF a
<1>2. Dormant = [pc |-> "idle", acct |-> a, op |-> None, may |-> FALSE,
                 bank |-> [avail |-> {}, redeemed |-> {}, at |-> 0, fresh |-> FALSE], known |-> 0,
                 attempt |-> None, sent |-> FALSE, answer |-> None, flow |-> None]
  BY DEF Dormant, a
<1>3. "idle" \in Pcs
  BY DEF Pcs
<1>4. [avail |-> {}, redeemed |-> {}, at |-> 0, fresh |-> FALSE] \in Bank
  BY DEF Bank
<1>5. Dormant \in Proc
  BY <1>1, <1>2, <1>3, <1>4 DEF Proc
<1>. QED BY <1>2, <1>5

LEMMA FailingIs ==
  ASSUME proc \in Proc
  PROVE  /\ Failing \in Proc /\ Failing.pc = "failed" /\ Failing.op = proc.op
         /\ Failing.acct = proc.acct /\ Failing.attempt = None /\ Failing.bank.avail = {}
<1>1. /\ proc.acct \in Accounts /\ proc.op \in Requests \cup {None}
      /\ proc.sent \in BOOLEAN /\ proc.flow \in Flows \cup {None}
  BY ProcFields
<1>2. "failed" \in Pcs
  BY DEF Pcs
<1>. DEFINE d == Dormant
<1>3. d \in Proc /\ d.attempt = None /\ d.bank.avail = {}
  BY DormantIs
<1>. HIDE DEF d
<1>4. Failing = [d EXCEPT !.pc = "failed", !.acct = proc.acct, !.op = proc.op,
                          !.sent = proc.sent, !.flow = proc.flow]
  BY DEF Failing, d
<1>5. /\ Failing \in Proc /\ Failing.pc = "failed" /\ Failing.op = proc.op
      /\ Failing.acct = proc.acct /\ Failing.attempt = d.attempt /\ Failing.bank = d.bank
  BY <1>1, <1>2, <1>3, <1>4 DEF Proc, Flows
<1>. QED BY <1>3, <1>5

LEMMA FinishIs ==
  ASSUME proc \in Proc, NEW flow \in Flows
  PROVE  /\ Finish(flow) \in Proc /\ Finish(flow).pc = "commit" /\ Finish(flow).op = proc.op
         /\ Finish(flow).acct = proc.acct /\ Finish(flow).attempt = None
         /\ Finish(flow).bank.avail = proc.bank.avail
<1>1. proc.bank.avail \subseteq Credits
  BY ProcFields
<1>2. "commit" \in Pcs
  BY DEF Pcs
<1>3. /\ Failing \in Proc /\ Failing.op = proc.op
      /\ Failing.acct = proc.acct /\ Failing.attempt = None
  BY FailingIs
<1>. DEFINE f == Failing
            b == [f.bank EXCEPT !.avail = proc.bank.avail]
<1>4. b \in Bank /\ b.avail = proc.bank.avail
  BY <1>1, <1>3 DEF Proc, Bank
<1>. HIDE DEF f
<1>5. Finish(flow) = [f EXCEPT !.pc = "commit", !.flow = flow, !.bank = b]
  BY <1>3 DEF Finish, f, Proc
<1>. HIDE DEF b
<1>6. f \in Proc
  BY <1>3 DEF f
<1>7. /\ [f EXCEPT !.pc = "commit", !.flow = flow, !.bank = b] \in Proc
      /\ Finish(flow).pc = "commit" /\ Finish(flow).op = f.op /\ Finish(flow).acct = f.acct
      /\ Finish(flow).attempt = f.attempt /\ Finish(flow).bank = b
  BY <1>2, <1>4, <1>5, <1>6 DEF Proc, Flows
<1>. QED BY <1>3, <1>4, <1>5, <1>7 DEF f

(* A flow that is over knows no more than its account and request.         *)
Rested(q) ==
  /\ q \in Proc /\ q.pc \in Ends
  /\ q.op = None \/ (q.op = proc.op /\ q.acct = proc.acct)
  /\ q.bank.avail = {} \/ (q.bank.avail = proc.bank.avail /\ q.acct = proc.acct)

LEMMA EndsRested ==
  ASSUME proc \in Proc
  PROVE  /\ Rested(Failing) /\ Rested(Dormant) /\ Rested([Dormant EXCEPT !.pc = "panicked"])
         /\ \A flow \in Flows : Rested(Finish(flow))
         /\ Rested([Finish("TerminalNotApplied") EXCEPT !.sent = TRUE])
         /\ Failing.attempt = None /\ \A flow \in Flows : Finish(flow).attempt = None
         /\ [Finish("TerminalNotApplied") EXCEPT !.sent = TRUE].attempt = None
<1>1. Rested(Failing) /\ Failing.attempt = None
  BY FailingIs DEF Rested, Ends
<1>2. Rested(Dormant)
  BY DormantIs DEF Rested, Ends
<1>3. Rested([Dormant EXCEPT !.pc = "panicked"])
  <2>1. "panicked" \in Pcs
    BY DEF Pcs
  <2>. DEFINE q == [Dormant EXCEPT !.pc = "panicked"]
  <2>2. q \in Proc /\ q.pc = "panicked" /\ q.op = Dormant.op /\ q.bank = Dormant.bank
    BY <2>1, DormantIs DEF Proc
  <2>. HIDE DEF q
  <2>3. Rested(q)
    BY <2>2, DormantIs DEF Rested, Ends
  <2>. QED BY <2>3 DEF q
<1>4. \A flow \in Flows : Rested(Finish(flow)) /\ Finish(flow).attempt = None
  BY FinishIs DEF Rested, Ends
<1>5. /\ Rested([Finish("TerminalNotApplied") EXCEPT !.sent = TRUE])
      /\ [Finish("TerminalNotApplied") EXCEPT !.sent = TRUE].attempt = None
  <2>. DEFINE f == Finish("TerminalNotApplied")
              q == [f EXCEPT !.sent = TRUE]
  <2>1. "TerminalNotApplied" \in Flows
    BY DEF Flows
  <2>2. /\ f \in Proc /\ f.pc = "commit" /\ f.op = proc.op /\ f.acct = proc.acct /\ f.attempt = None
        /\ f.bank.avail = proc.bank.avail
    BY <2>1, FinishIs
  <2>. HIDE DEF f
  <2>3. /\ q \in Proc /\ q.pc = f.pc /\ q.op = f.op /\ q.acct = f.acct /\ q.bank = f.bank
        /\ q.attempt = f.attempt
    BY <2>2 DEF Proc
  <2>. HIDE DEF q
  <2>4. Rested(q) /\ q.attempt = None
    BY <2>2, <2>3 DEF Rested, Ends
  <2>. QED BY <2>4 DEF q, f
<1>. QED BY <1>1, <1>2, <1>3, <1>4, <1>5

-----------------------------------------------------------------------------
(* Steps of a flow leave the provider alone.                               *)
Still == UNCHANGED <<providerVars, posts, spends>>

LEMMA StillLive ==
  ASSUME Still
  PROVE  (\A p : Live(p)' <=> Live(p)) /\ \A r : Dead(r)' <=> Dead(r)
<1>1. \A p : Live(p)' <=> Live(p)
  BY DEF Still, providerVars, Live, Redeemable
<1>2. posts' = posts /\ spends' = spends
  BY DEF Still
<1>. QED BY <1>1, <1>2 DEF Dead

LEMMA UnchangedSaved ==
  ASSUME IInv, journal' = journal, forgotten' = forgotten
  PROVE  Saved(Attempts) /\ AttemptsTrue(Attempts)
<1>1. TypeOK /\ Within(journal) /\ AttemptsTrue(Attempts)
  BY DEF IInv
<1>2. journal \in Journals /\ Unique(journal.attempts) /\ Attempts' = Attempts
  BY <1>1, AttemptsAre DEF Attempts
<1>3. forgotten \subseteq Requests
  BY <1>1 DEF TypeOK
<1>. QED BY <1>1, <1>2, <1>3 DEF Saved

(* A save that loses only what it forgets, or sends to review, keeps what  *)
(* the attempts tell.                                                      *)
LEMMA SavedKept ==
  ASSUME IInv, NEW E, AttemptsTrue(E), Saved(E), Still
  PROVE  Within(journal)' /\ AttemptsTrue(Attempts)' /\ OneLive'
<1>1. credit' = credit /\ posts' = posts /\ spends' = spends /\ \A p : Live(p)' <=> Live(p)
  BY StillLive DEF Still, providerVars
<1>2. \A r : Dead(r)' <=> Dead(r)
  BY StillLive
<1>3. /\ Attempts' \subseteq E /\ forgotten \subseteq forgotten' /\ Within(journal')
      /\ \A x \in E : x.req \in forgotten' \/ x \in Attempts'
      /\ journal.review => journal'.review
      /\ ~journal'.review => \A x \in E : Suppresses(x) => x \in Attempts'
  BY DEF Saved
<1>4. Journalled(E) /\ PresGranted(E) /\ LiveOpen(E) /\ UsableSpent(E) /\ NotApplied(E)
  BY DEF AttemptsTrue
<1>5. Journalled(Attempts)'
  <2>. SUFFICES ASSUME NEW p \in posts \cup spends, p[1] \notin forgotten'
                PROVE  \E x \in Attempts' : x.req = p[1] /\ x.acct = p[2]
    BY <1>1 DEF Journalled
  <2>1. PICK x \in E : x.req = p[1] /\ x.acct = p[2]
    BY <1>3, <1>4 DEF Journalled
  <2>. QED BY <1>3, <2>1
<1>6. PresGranted(Attempts)'
  BY <1>1, <1>3, <1>4 DEF PresGranted, Granted
<1>7. LiveOpen(Attempts)'
  <2>. SUFFICES ASSUME NEW p \in posts, Live(p), ~journal'.review
                PROVE  \E x \in Attempts' : /\ x.req = p[1] /\ x.acct = p[2] /\ x.credit = p[3]
                                             /\ Suppresses(x) /\ x.origin = "LocalRequest"
    BY <1>1 DEF LiveOpen, Suppresses
  <2>1. PICK x \in E : /\ x.req = p[1] /\ x.acct = p[2] /\ x.credit = p[3]
                       /\ Suppresses(x) /\ x.origin = "LocalRequest"
    BY <1>3, <1>4 DEF LiveOpen
  <2>. QED BY <1>3, <2>1
<1>8. UsableSpent(Attempts)'
  BY <1>1, <1>3, <1>4 DEF UsableSpent
<1>9. NotApplied(Attempts)'
  BY <1>2, <1>3, <1>4 DEF NotApplied
<1>10. OneLive'
  BY <1>1 DEF OneLive, IInv
<1>. QED BY <1>3, <1>5, <1>6, <1>7, <1>8, <1>9, <1>10 DEF AttemptsTrue

(* What a flow that is over knows needs no more.                           *)
LEMMA RestedFlow ==
  ASSUME IInv, Rested(proc'), credit' = credit, rejected' \subseteq rejected
  PROVE  proc' \in Proc /\ Granted(proc.acct, proc.bank.avail)' /\ FlowKnows'
<1>1. /\ proc' \in Proc /\ proc'.pc \in Ends
      /\ proc'.op = None \/ (proc'.op = proc.op /\ proc'.acct = proc.acct)
      /\ proc'.bank.avail = {} \/ (proc'.bank.avail = proc.bank.avail /\ proc'.acct = proc.acct)
  BY DEF Rested
<1>2. Granted(proc.acct, proc.bank.avail) /\ OpKnows
  BY DEF IInv, CreditsGranted, FlowKnows
<1>3. Granted(proc.acct, proc.bank.avail)'
  BY <1>1, <1>2 DEF Granted
<1>4. OpKnows'
  BY <1>1, <1>2 DEF OpKnows
<1>5. proc'.pc \notin Attempting \cup {"prepare"}
  BY <1>1 DEF Ends, Attempting, Unsent
<1>6. BankKnows' /\ AttemptKnows' /\ OnlyPosted' /\ AnswerKnows'
  BY <1>5 DEF BankKnows, AttemptKnows, OnlyPosted, AnswerKnows, Attempting, Unsent
<1>. QED BY <1>1, <1>3, <1>4, <1>6 DEF FlowKnows

(* A store with inventories that were granted.                             *)
StoreTrue ==
  /\ store \in [Accounts -> SUBSET Credits] /\ \A a \in Accounts : Granted(a, store[a])

(* A step of a flow, by what it saves and what the flow then knows.        *)
LEMMA StepKept ==
  ASSUME IInv, NEW E, AttemptsTrue(E), Saved(E), Still,
         rejected' \subseteq Operations \X Accounts, RejectedSpentNothing',
         due' \subseteq Requests, deferred' \subseteq Requests, store' = store \/ StoreTrue',
         proc' \in Proc, Granted(proc.acct, proc.bank.avail)', FlowKnows'
  PROVE  IInv'
<1>1. Within(journal)' /\ AttemptsTrue(Attempts)' /\ OneLive'
  BY SavedKept
<1>2. journal' \in Journals /\ Unique(journal'.attempts) /\ forgotten' \subseteq Requests
  BY DEF Saved
<1>3. TypeOK /\ CreditsGranted
  BY DEF IInv
<1>4. /\ credit' = credit /\ quota' = quota /\ now' = now /\ events' = events
      /\ posts' = posts /\ spends' = spends
  BY DEF Still, providerVars
<1>5. StoreTrue'
  BY <1>3, <1>4 DEF StoreTrue, TypeOK, CreditsGranted, Granted
<1>6. TypeOK'
  <2>1. due' \cup deferred' \cup forgotten' \subseteq Requests
    BY <1>2
  <2>2. /\ store' \in [Accounts -> SUBSET Credits]
        /\ credit' \in [Accounts -> [Credits -> {"ungranted", "available", "lagging", "redeemed"}]]
        /\ quota' \in [Accounts -> Nat] /\ now' \in 0..MaxCredit /\ events' \in 0..MaxEvents
        /\ posts' \cup spends' \subseteq Requests \X Accounts \X Credits
    BY <1>3, <1>4, <1>5 DEF TypeOK, StoreTrue
  <2>3. /\ journal' \in [attempts: Seq(Attempt), review: BOOLEAN]
        /\ \A i, k \in DOMAIN journal'.attempts :
             journal'.attempts[i].req = journal'.attempts[k].req => i = k
    BY <1>2 DEF Journals, Unique
  <2>. QED BY <2>1, <2>2, <2>3 DEF TypeOK
<1>7. CreditsGranted'
  BY <1>3, <1>4, <1>5 DEF CreditsGranted, StoreTrue, Granted
<1>. QED BY <1>1, <1>6, <1>7 DEF IInv

LEMMA StepKeeps ==
  ASSUME IInv, NEW E, AttemptsTrue(E), Saved(E), Still, rejected' \subseteq rejected,
         due' \subseteq Requests, deferred' \subseteq Requests, store' = store \/ StoreTrue',
         proc' \in Proc, Granted(proc.acct, proc.bank.avail)', FlowKnows'
  PROVE  IInv'
<1>1. rejected' \subseteq Operations \X Accounts
  BY DEF IInv, TypeOK
<1>2. RejectedSpentNothing'
  <2>1. posts' = posts /\ spends' = spends /\ forgotten \subseteq forgotten'
    BY DEF Still, Saved
  <2>2. \A p : Live(p)' <=> Live(p)
    BY StillLive
  <2>. QED BY <2>1, <2>2 DEF RejectedSpentNothing, IInv
<1>. QED BY <1>1, <1>2, StepKept

LEMMA RestKeeps ==
  ASSUME IInv, NEW E, AttemptsTrue(E), Saved(E), Still, rejected' \subseteq rejected,
         due' \subseteq Requests, deferred' \subseteq Requests, store' = store \/ StoreTrue', Rested(proc')
  PROVE  IInv'
<1>1. credit' = credit
  BY DEF Still, providerVars
<1>2. proc' \in Proc /\ Granted(proc.acct, proc.bank.avail)' /\ FlowKnows'
  BY <1>1, RestedFlow
<1>. QED BY <1>2, StepKeeps

-----------------------------------------------------------------------------
(* The attempt of the flow in another state.                               *)
Restated(x) ==
  /\ x \in Attempt /\ x.req = proc.attempt.req /\ x.acct = proc.attempt.acct
  /\ x.credit = proc.attempt.credit /\ x.origin = proc.attempt.origin /\ x.pre = proc.attempt.pre

(* What must be true of the provider for the attempt to settle.            *)
Allowed(x) ==
  /\ ~Suppresses(x) => \A p \in posts : p[1] = x.req /\ p[2] = x.acct => ~Live(p)
  /\ x.state = "ReconciledUsable" =>
       x.credit # None /\ credit[x.acct][x.credit] \in {"lagging", "redeemed"}
  /\ x.state = "TerminalNotApplied" /\ x.req \notin forgotten => Dead(x.req)

LEMMA StateChanged ==
  ASSUME proc.attempt \in Attempt, NEW s \in States
  PROVE  Restated([proc.attempt EXCEPT !.state = s]) /\ [proc.attempt EXCEPT !.state = s].state = s
BY DEF Restated, Attempt

LEMMA ReplacedTrue ==
  ASSUME IInv, proc.attempt \in Attempts, ~journal.review, NEW x, Restated(x), Allowed(x)
  PROVE  AttemptsTrue(Replaced(x))
<1>. DEFINE y == proc.attempt
<1>1. /\ Journalled(Attempts) /\ PresGranted(Attempts) /\ LiveOpen(Attempts)
      /\ UsableSpent(Attempts) /\ NotApplied(Attempts)
  BY DEF IInv, AttemptsTrue
<1>2. /\ \A z \in Replaced(x) : z \in Attempts \/ z = x
      /\ \A z \in Attempts : z \in Replaced(x) \/ z = y
      /\ x \in Replaced(x) /\ y \in Attempts
  BY DEF Replaced
<1>3. x.req = y.req /\ x.acct = y.acct /\ x.credit = y.credit /\ x.origin = y.origin /\ x.pre = y.pre
  BY DEF Restated
<1>. HIDE DEF y
<1>4. Journalled(Replaced(x))
  BY <1>1, <1>2, <1>3 DEF Journalled
<1>5. PresGranted(Replaced(x))
  BY <1>1, <1>2, <1>3 DEF PresGranted
<1>6. LiveOpen(Replaced(x))
  <2>. SUFFICES ASSUME NEW p \in posts, Live(p)
                PROVE  \E z \in Replaced(x) : /\ z.req = p[1] /\ z.acct = p[2] /\ z.credit = p[3]
                                              /\ Suppresses(z) /\ z.origin = "LocalRequest"
    BY DEF LiveOpen
  <2>1. PICK z \in Attempts : /\ z.req = p[1] /\ z.acct = p[2] /\ z.credit = p[3]
                              /\ Suppresses(z) /\ z.origin = "LocalRequest"
    BY <1>1 DEF LiveOpen
  <2>2. CASE z \in Replaced(x)
    BY <2>1, <2>2
  <2>3. CASE z = y
    BY <1>2, <1>3, <2>1, <2>3 DEF Allowed
  <2>. QED BY <1>2, <2>2, <2>3
<1>7. UsableSpent(Replaced(x))
  BY <1>1, <1>2 DEF UsableSpent, Allowed
<1>8. NotApplied(Replaced(x))
  BY <1>1, <1>2 DEF NotApplied, Allowed
<1>. QED BY <1>4, <1>5, <1>6, <1>7, <1>8 DEF AttemptsTrue

(* A flow that updates its attempt and is over.                            *)
LEMMA UpdateRests ==
  ASSUME IInv, NEW x, NEW p, Update(x, p), Restated(x),
         proc.attempt \in Attempts /\ ~journal.review => Allowed(x),
         Rested(p), p.attempt = None, Still, rejected' = rejected,
         due' \subseteq Requests, deferred' \subseteq Requests, store' = store
  PROVE  IInv'
<1>1. TypeOK /\ proc \in Proc
  BY DEF IInv, TypeOK
<1>2. Rested(Failing) /\ Rested([Dormant EXCEPT !.pc = "panicked"])
  BY <1>1, EndsRested
<1>3. x \in Attempt /\ x.req = proc.attempt.req
  BY DEF Restated
<1>4. \/ proc' = Failing /\ journal' = journal /\ forgotten' = forgotten
      \/ proc' = Failing /\ Saved(Attempts)
      \/ /\ ~journal.review /\ proc.attempt \in Attempts /\ Saved(Replaced(x))
         /\ proc' = [Dormant EXCEPT !.pc = "panicked"] \/ proc' = p
  BY <1>1, <1>3, UpdateIs
<1>5. AttemptsTrue(Attempts)
  BY DEF IInv
<1>6. Rested(proc')
  BY <1>2, <1>4
<1>7. CASE journal' = journal /\ forgotten' = forgotten
  <2>1. Saved(Attempts)
    BY <1>7, UnchangedSaved
  <2>. QED BY <1>5, <1>6, <2>1, RestKeeps
<1>8. CASE Saved(Attempts)
  BY <1>5, <1>6, <1>8, RestKeeps
<1>9. CASE ~journal.review /\ proc.attempt \in Attempts /\ Saved(Replaced(x))
  <2>1. AttemptsTrue(Replaced(x))
    BY <1>9, ReplacedTrue
  <2>. QED BY <1>6, <1>9, <2>1, RestKeeps
<1>. QED BY <1>4, <1>7, <1>8, <1>9

(* A fresh inventory explains what is missing from an older one.           *)
LEMMA InventoryKnows ==
  ASSUME TypeOK, NEW a \in Accounts, NEW b \in Inventories(a)
  PROVE  /\ b \in Bank /\ b.redeemed \subseteq Gone(a) /\ Granted(a, b.avail)
         /\ b.at = now /\ b.avail = Listed(a)
         /\ \A C \in SUBSET Credits : Granted(a, C) =>
              \A c \in C : c > b.at /\ c \notin b.avail => credit[a][c] = "redeemed"
<1>1. now \in 0..MaxCredit /\ MaxCredit \in Nat
  BY CapsAssumption DEF TypeOK
<1>2. Listed(a) \subseteq Credits /\ Gone(a) \subseteq Credits
  BY DEF Listed, Gone
<1>3. PICK r \in {{}, Gone(a)} : b = [avail |-> Listed(a), redeemed |-> r, at |-> now, fresh |-> TRUE]
  BY DEF Inventories
<1>4. b.avail = Listed(a) /\ b.redeemed = r /\ b.at = now /\ b.fresh = TRUE
  BY <1>3
<1>5. b \in Bank
  BY <1>1, <1>2, <1>3 DEF Bank
<1>6. b.redeemed \subseteq Gone(a)
  BY <1>4
<1>7. Granted(a, b.avail)
  BY <1>4 DEF Listed, Granted
<1>8. \A c \in Credits : credit[a][c] \in {"ungranted", "available", "lagging", "redeemed"}
  BY DEF TypeOK
<1>9. ASSUME NEW C \in SUBSET Credits, Granted(a, C), NEW c \in C, c > b.at, c \notin b.avail
      PROVE  credit[a][c] = "redeemed"
  BY <1>4, <1>8, <1>9 DEF Listed, Granted
<1>. QED BY <1>4, <1>5, <1>6, <1>7, <1>9

LEMMA QuietIs ==
  ASSUME IInv, Quiet
  PROVE  Still /\ store' = store /\ rejected' = rejected /\ credit' = credit /\ now' = now
BY DEF Quiet, Still, providerVars

LEMMA JournalStays ==
  ASSUME IInv, UNCHANGED journalVars
  PROVE  /\ Saved(Attempts) /\ AttemptsTrue(Attempts) /\ Attempts' = Attempts
         /\ due' \subseteq Requests /\ deferred' \subseteq Requests
         /\ journal' = journal /\ forgotten' = forgotten
<1>1. journal' = journal /\ forgotten' = forgotten /\ due' = due /\ deferred' = deferred
  BY DEF journalVars
<1>2. due \subseteq Requests /\ deferred \subseteq Requests
  BY DEF IInv, TypeOK
<1>. QED BY <1>1, <1>2, UnchangedSaved DEF Attempts

(* The flow takes a fresh inventory, or goes on with the one it has.       *)
LEMMA BankRefreshed ==
  ASSUME IInv, proc' \in Proc, proc'.bank \in Inventories(proc'.acct),
         credit' = credit, now' = now, store' = store, Attempts' = Attempts
  PROVE  BankKnows' /\ Granted(proc.acct, proc.bank.avail)'
<1>. DEFINE a == proc'.acct
            b == proc'.bank
<1>1. TypeOK /\ CreditsGranted /\ PresGranted(Attempts)
  BY DEF IInv, AttemptsTrue
<1>2. a \in Accounts /\ b \in Inventories(a)
  BY ProcFields
<1>. HIDE DEF a, b
<1>3. /\ b.redeemed \subseteq Gone(a) /\ Granted(a, b.avail)
      /\ \A C \in SUBSET Credits : Granted(a, C) =>
           \A c \in C : c > b.at /\ c \notin b.avail => credit[a][c] = "redeemed"
  BY <1>1, <1>2, InventoryKnows
<1>4. store[a] \in SUBSET Credits /\ Granted(a, store[a])
  BY <1>1, <1>2 DEF TypeOK, CreditsGranted
<1>5. ASSUME NEW x \in Attempts, x.acct = a
      PROVE  x.pre \in SUBSET Credits /\ Granted(a, x.pre)
  <2>1. x \in Attempt
    BY <1>1, AttemptsAre
  <2>. QED BY <1>1, <1>5, <2>1 DEF Attempt, PresGranted
<1>6. \A c \in store[a] : c > b.at /\ c \notin b.avail => credit[a][c] = "redeemed"
  BY <1>3, <1>4
<1>7. \A x \in Attempts : x.acct = a =>
        \A c \in x.pre : c > b.at /\ c \notin b.avail => credit[a][c] = "redeemed"
  BY <1>3, <1>5
<1>9. b.redeemed \subseteq {c \in Credits : credit'[a][c] = "redeemed"}
  BY <1>3 DEF Gone
<1>10. Granted(proc.acct, proc.bank.avail)'
  BY <1>3 DEF Granted, a, b
<1>11. BankKnows'
  BY <1>6, <1>7, <1>9 DEF BankKnows, Missing, Gone, a, b
<1>. QED BY <1>10, <1>11

LEMMA BankKept ==
  ASSUME IInv, proc.pc \in Attempting \cup {"prepare"}, proc'.acct = proc.acct,
         proc'.bank.avail = proc.bank.avail, proc'.bank.redeemed = proc.bank.redeemed,
         proc'.bank.at = proc.bank.at, credit' = credit, store' = store,
         \A x \in Attempts' : x.acct = proc.acct => Missing(x.pre)
  PROVE  BankKnows' /\ Granted(proc.acct, proc.bank.avail)'
<1>1. /\ proc.bank.redeemed \subseteq Gone(proc.acct) /\ Missing(store[proc.acct])
      /\ Granted(proc.acct, proc.bank.avail)
  BY DEF IInv, FlowKnows, BankKnows, CreditsGranted
<1>. QED BY <1>1 DEF BankKnows, Missing, Gone, Granted

LEMMA StartsKeeps ==
  ASSUME IInv, NEW a \in Accounts, NEW b \in Inventories(a), NEW op \in Operations \cup {None},
         proc' \in Proc, proc'.pc = "prepare", proc'.acct = a, proc'.op = op, proc'.bank = b,
         proc'.answer = None, UNCHANGED journalVars, Still, store' = store,
         rejected' \subseteq rejected, op # None => <<op, a>> \notin rejected'
  PROVE  IInv'
<1>1. /\ Saved(Attempts) /\ AttemptsTrue(Attempts) /\ Attempts' = Attempts
      /\ due' \subseteq Requests /\ deferred' \subseteq Requests
  BY JournalStays
<1>2. credit' = credit /\ now' = now
  BY DEF Still, providerVars
<1>3. BankKnows' /\ Granted(proc.acct, proc.bank.avail)'
  BY <1>1, <1>2, BankRefreshed
<1>4. AttemptKnows' /\ OnlyPosted' /\ AnswerKnows' /\ OpKnows'
  BY DEF AttemptKnows, OnlyPosted, AnswerKnows, OpKnows, Attempting, Unsent
<1>5. FlowKnows'
  BY <1>3, <1>4 DEF FlowKnows
<1>. QED BY <1>1, <1>3, <1>5, StepKeeps

LEMMA StartRequestKeeps ==
  ASSUME IInv, NEW a \in Accounts, NEW r \in Operations, StartRequest(a, r)
  PROVE  IInv'
<1>. DEFINE d == Dormant
<1>1. TypeOK /\ quota[a] \in Nat
  BY DEF IInv, TypeOK
<1>2. d \in Proc /\ d.answer = None
  BY DormantIs
<1>3. PICK b \in Inventories(a) :
        proc' = [d EXCEPT !.pc = "prepare", !.acct = a, !.op = r, !.bank = b,
                          !.known = quota[a], !.may = ~Usable(quota[a])]
  BY DEF StartRequest
<1>4. b \in Bank /\ "prepare" \in Pcs /\ r \in Requests
  BY <1>1, InventoryKnows DEF Pcs, Requests
<1>. DEFINE m == ~Usable(quota[a])
<1>5. m \in BOOLEAN
  OBVIOUS
<1>. HIDE DEF d, m
<1>6. proc' = [d EXCEPT !.pc = "prepare", !.acct = a, !.op = r, !.bank = b,
                        !.known = quota[a], !.may = m]
  BY <1>3 DEF m
<1>7. /\ proc' \in Proc /\ proc'.pc = "prepare" /\ proc'.acct = a /\ proc'.op = r /\ proc'.bank = b
      /\ proc'.answer = d.answer
  BY <1>1, <1>2, <1>4, <1>5, <1>6 DEF Proc
<1>8. /\ UNCHANGED journalVars /\ store' = store /\ Still
      /\ rejected' = rejected \ {<<r, a>>}
  BY DEF StartRequest, Still
<1>9. rejected' \subseteq rejected /\ <<r, a>> \notin rejected'
  BY <1>8
<1>. QED BY <1>2, <1>7, <1>8, <1>9, StartsKeeps

LEMMA StartDaemonKeeps ==
  ASSUME IInv, NEW a \in Accounts, StartDaemon(a)
  PROVE  IInv'
<1>. DEFINE d == Dormant
<1>1. TypeOK /\ quota[a] \in Nat
  BY DEF IInv, TypeOK
<1>2. d \in Proc /\ d.answer = None /\ d.op = None
  BY DormantIs
<1>3. PICK b \in Inventories(a), may \in BOOLEAN :
        proc' = [d EXCEPT !.pc = "prepare", !.acct = a, !.bank = b,
                          !.known = quota[a], !.may = may]
  BY DEF StartDaemon
<1>4. b \in Bank /\ "prepare" \in Pcs
  BY <1>1, InventoryKnows DEF Pcs
<1>. HIDE DEF d
<1>5. /\ proc' \in Proc /\ proc'.pc = "prepare" /\ proc'.acct = a /\ proc'.op = d.op
      /\ proc'.bank = b /\ proc'.answer = d.answer
  BY <1>1, <1>2, <1>3, <1>4 DEF Proc
<1>6. UNCHANGED journalVars /\ store' = store /\ Still /\ rejected' = rejected
  BY QuietIs DEF StartDaemon
<1>. QED BY <1>2, <1>5, <1>6, StartsKeeps

LEMMA CancelledAllowed ==
  ASSUME IInv, proc.pc \in Unsent
  PROVE  /\ proc.attempt \in Attempt /\ Restated(Cancelled)
         /\ proc.attempt \in Attempts /\ ~journal.review => Allowed(Cancelled)
<1>1. proc.attempt \in Attempt /\ proc.attempt.acct = proc.acct
  BY DEF IInv, FlowKnows, AttemptKnows, Attempting
<1>2. "TerminalNotApplied" \in States
  BY DEF States, Terminal
<1>3. Restated(Cancelled) /\ Cancelled.state = "TerminalNotApplied"
  BY <1>1, <1>2, StateChanged DEF Cancelled
<1>4. ASSUME ~journal.review
      PROVE  Allowed(Cancelled)
  <2>1. \A p \in posts : p[2] = proc.acct => ~Live(p)
    BY <1>4 DEF IInv, FlowKnows, OnlyPosted
  <2>2. proc.attempt.req \notin forgotten => \A p \in posts \cup spends : p[1] # proc.attempt.req
    BY DEF IInv, FlowKnows, AnswerKnows
  <2>. QED BY <1>1, <1>3, <2>1, <2>2 DEF Allowed, Restated, Dead
<1>. QED BY <1>1, <1>3, <1>4

LEMMA CancelKeeps ==
  ASSUME IInv, proc.pc \in Unsent, Cancel, Quiet
  PROVE  IInv'
<1>1. proc \in Proc /\ due \subseteq Requests /\ deferred \subseteq Requests
  BY DEF IInv, TypeOK
<1>2. Rested(Failing) /\ Failing.attempt = None
  BY <1>1, EndsRested
<1>3. Update(Cancelled, Failing) /\ due' = due /\ deferred' = deferred
  BY DEF Cancel
<1>4. Restated(Cancelled) /\ (proc.attempt \in Attempts /\ ~journal.review => Allowed(Cancelled))
  BY CancelledAllowed
<1>5. Still /\ store' = store /\ rejected' = rejected
  BY QuietIs
<1>. QED BY <1>1, <1>2, <1>3, <1>4, <1>5, UpdateRests

-----------------------------------------------------------------------------
(* The actions of a flow that leave the journal as it is.                  *)

LEMMA EndsKeeps ==
  ASSUME IInv, UNCHANGED journalVars, Quiet, Rested(proc')
  PROVE  IInv'
<1>1. Still /\ store' = store /\ rejected' = rejected
  BY QuietIs
<1>. QED BY <1>1, JournalStays, RestKeeps

LEMMA InterruptedKeeps ==
  ASSUME IInv, Interrupted
  PROVE  IInv'
<1>1. proc \in Proc
  BY DEF IInv, TypeOK
<1>. QED BY <1>1, EndsRested, EndsKeeps DEF Interrupted

LEMMA CrashKeeps ==
  ASSUME IInv, Crash
  PROVE  IInv'
<1>1. proc \in Proc
  BY DEF IInv, TypeOK
<1>. QED BY <1>1, EndsRested, EndsKeeps DEF Crash

LEMMA PrepareNothingKeeps ==
  ASSUME IInv, PrepareNothing
  PROVE  IInv'
<1>1. proc \in Proc /\ "Suppressed" \in Flows /\ "NoAttempt" \in Flows
  BY DEF IInv, TypeOK, Flows
<1>2. proc' \in {Finish("Suppressed"), Finish("NoAttempt")} /\ UNCHANGED journalVars /\ Quiet
  BY DEF PrepareNothing
<1>. QED BY <1>1, <1>2, EndsRested, EndsKeeps

LEMMA CommitKeeps ==
  ASSUME IInv, Commit
  PROVE  IInv'
<1>1. TypeOK /\ CreditsGranted /\ proc \in Proc
  BY DEF IInv, TypeOK
<1>2. /\ store' = [store EXCEPT ![proc.acct] = proc.bank.avail]
      /\ proc' \in {Failing, Dormant} /\ UNCHANGED journalVars /\ Still /\ rejected' = rejected
  BY DEF Commit, Still
<1>3. Rested(proc')
  BY <1>1, <1>2, EndsRested
<1>4. StoreTrue'
  <2>1. proc.acct \in Accounts /\ proc.bank.avail \subseteq Credits
    BY <1>1, ProcFields
  <2>2. store' \in [Accounts -> SUBSET Credits]
    BY <1>1, <1>2, <2>1 DEF TypeOK
  <2>3. \A a \in Accounts : store'[a] = IF a = proc.acct THEN proc.bank.avail ELSE store[a]
    BY <1>1, <1>2 DEF TypeOK
  <2>4. credit' = credit
    BY <1>2 DEF Still, providerVars
  <2>. QED BY <1>1, <2>2, <2>3, <2>4 DEF StoreTrue, CreditsGranted, Granted
<1>. QED BY <1>2, <1>3, <1>4, JournalStays, RestKeeps

LEMMA ResumedIs ==
  ASSUME IInv, NEW i \in Resumed
  PROVE  i \in DOMAIN journal.attempts /\ journal.attempts[i] \in Attempts
BY DEF Resumed, Newest, Attempts

(* Nothing is resumed: the request is not in the journal, and no attempt   *)
(* of the account is open.                                                 *)
LEMMA NothingResumed ==
  ASSUME IInv, Resumed = {}
  PROVE  \A x \in Attempts : x.req # proc.op /\ (x.acct = proc.acct => ~Suppresses(x))
<1>. DEFINE s == journal.attempts
            named == {i \in DOMAIN s : s[i].req = proc.op}
            open == {i \in DOMAIN s : s[i].acct = proc.acct /\ Suppresses(s[i])}
<1>1. Resumed = IF named # {} THEN named ELSE Newest(open, 1)
  BY DEF Resumed
<1>2. Len(s) \in Nat /\ DOMAIN s = 1..Len(s)
  BY AttemptsAre, JournalFields DEF IInv
<1>3. open \in SUBSET (1..Len(s))
  BY <1>2
<1>4. named = {} /\ Newest(open, 1) = {}
  BY <1>1
<1>. HIDE DEF open
<1>5. open = {}
  <2>. SUFFICES ASSUME open # {}
                PROVE  FALSE
    OBVIOUS
  <2>1. IsFiniteSet(open) /\ Cardinality(open) \in Nat /\ open \subseteq Nat
    BY <1>2, <1>3, Finite
  <2>2. Cardinality(open) # 0
    BY <2>1, FS_EmptySet
  <2>3. Cardinality(open) \in 1..Cardinality(open)
    BY <2>1, <2>2
  <2>. DEFINE n == Nth(open, Cardinality(open))
  <2>4. n \in open /\ Cardinality({k \in open : k <= n}) = Cardinality(open)
    BY <1>2, <1>3, <2>3, NthIs
  <2>. HIDE DEF n
  <2>5. {k \in open : k <= n} = open
    BY <2>1, <2>4, FS_Subset
  <2>6. {k \in open : k > n} = {}
    <3>1. \A k \in open : k <= n
      BY <2>5
    <3>2. \A k \in open : k \in Nat /\ n \in Nat
      BY <2>1, <2>4
    <3>3. \A k \in open : ~(k > n)
      BY <3>1, <3>2
    <3>. QED BY <3>3
  <2>7. Cardinality({k \in open : k > n}) < 1
    BY <2>6, FS_EmptySet
  <2>. QED BY <1>4, <2>4, <2>7 DEF Newest
<1>. QED BY <1>4, <1>5 DEF Attempts, open

LEMMA PrepareResumedKeeps ==
  ASSUME IInv, PrepareResumed
  PROVE  IInv'
<1>1. TypeOK /\ proc \in Proc
  BY DEF IInv, TypeOK
<1>2. PICK i \in Resumed :
        proc' = IF journal.attempts[i].acct # proc.acct THEN Failing
                ELSE [proc EXCEPT !.pc = "reconcile", !.attempt = journal.attempts[i],
                                  !.may = FALSE, !.known = 0]
  BY DEF PrepareResumed
<1>. DEFINE x == journal.attempts[i]
<1>3. x \in Attempts /\ x \in Attempt
  BY <1>1, ResumedIs, AttemptsAre
<1>4. At("prepare") /\ UNCHANGED journalVars /\ Quiet
  BY DEF PrepareResumed
<1>5. CASE x.acct # proc.acct
  BY <1>1, <1>2, <1>4, <1>5, EndsRested, EndsKeeps
<1>6. CASE x.acct = proc.acct
  <2>. HIDE DEF x
  <2>1. proc' = [proc EXCEPT !.pc = "reconcile", !.attempt = x, !.may = FALSE, !.known = 0]
    BY <1>2, <1>6 DEF x
  <2>2. "reconcile" \in Pcs
    BY DEF Pcs
  <2>3. /\ proc' \in Proc /\ proc'.pc = "reconcile" /\ proc'.acct = proc.acct /\ proc'.op = proc.op
        /\ proc'.attempt = x /\ proc'.bank = proc.bank
    BY <1>1, <1>3, <2>1, <2>2 DEF Proc
  <2>4. Still /\ store' = store /\ rejected' = rejected /\ credit' = credit
    BY <1>4, QuietIs
  <2>5. /\ Saved(Attempts) /\ AttemptsTrue(Attempts) /\ Attempts' = Attempts
        /\ due' \subseteq Requests /\ deferred' \subseteq Requests
    BY <1>4, JournalStays
  <2>6. BankKnows' /\ Granted(proc.acct, proc.bank.avail)'
    <3>1. \A y \in Attempts' : y.acct = proc.acct => Missing(y.pre)
      BY <1>4, <2>5 DEF IInv, FlowKnows, BankKnows, At
    <3>. QED BY <1>4, <2>3, <2>4, <3>1, BankKept DEF At
  <2>7. AttemptKnows' /\ OnlyPosted' /\ AnswerKnows'
    BY <1>3, <1>6, <2>3 DEF AttemptKnows, OnlyPosted, AnswerKnows, Attempting, Unsent
  <2>8. OpKnows'
    BY <2>3, <2>4 DEF OpKnows, IInv, FlowKnows
  <2>9. FlowKnows'
    BY <2>6, <2>7, <2>8 DEF FlowKnows
  <2>. QED BY <2>3, <2>4, <2>5, <2>6, <2>9, StepKeeps
<1>. QED BY <1>5, <1>6

LEMMA MovesKeeps ==
  ASSUME IInv, UNCHANGED journalVars, Quiet, proc' \in Proc, proc'.acct = proc.acct, proc'.op = proc.op,
         BankKnows', Granted(proc.acct, proc.bank.avail)', AttemptKnows', OnlyPosted', AnswerKnows'
  PROVE  IInv'
<1>1. /\ Saved(Attempts) /\ AttemptsTrue(Attempts)
      /\ due' \subseteq Requests /\ deferred' \subseteq Requests
  BY JournalStays
<1>2. Still /\ store' = store /\ rejected' = rejected
  BY QuietIs
<1>3. FlowKnows'
  BY <1>2 DEF FlowKnows, OpKnows, IInv
<1>. QED BY <1>1, <1>2, <1>3, StepKeeps

(* A flow that goes on without having sent its request.                    *)
LEMMA UnsentKeeps ==
  ASSUME IInv, UNCHANGED journalVars, Quiet, proc.pc \in Unsent, proc'.pc \in Unsent,
         proc' \in Proc, proc'.acct = proc.acct, proc'.op = proc.op,
         proc'.attempt = proc.attempt, proc'.answer = proc.answer,
         BankKnows', Granted(proc.acct, proc.bank.avail)',
         proc'.pc \in {"mark", "post"} =>
           proc'.bank.avail # {} /\ proc.attempt.credit = Lowest(proc'.bank.avail)
  PROVE  IInv'
<1>1. AttemptKnows /\ OnlyPosted /\ AnswerKnows
  BY DEF IInv, FlowKnows
<1>2. /\ Still /\ (\A p : Live(p)' <=> Live(p)) /\ (\A r : Dead(r)' <=> Dead(r))
      /\ posts' = posts /\ spends' = spends /\ journal' = journal /\ forgotten' = forgotten
  BY QuietIs, StillLive, JournalStays DEF Still
<1>3. AttemptKnows'
  BY <1>1 DEF AttemptKnows, Unsent, Attempting
<1>4. OnlyPosted'
  BY <1>1, <1>2 DEF OnlyPosted, Unsent
<1>5. AnswerKnows'
  BY <1>1, <1>2 DEF AnswerKnows, Unsent
<1>. QED BY <1>3, <1>4, <1>5, MovesKeeps

LEMMA AuthorizeKeeps ==
  ASSUME IInv, Authorize
  PROVE  IInv'
<1>1. proc \in Proc /\ proc.pc = "authorize" /\ Quiet
  BY DEF IInv, TypeOK, Authorize, At
<1>2. CASE Cancel
  BY <1>1, <1>2, CancelKeeps DEF Unsent
<1>3. CASE Goto("inventory")
  <2>1. proc' = [proc EXCEPT !.pc = "inventory"] /\ UNCHANGED journalVars /\ "inventory" \in Pcs
    BY <1>3 DEF Goto, Pcs
  <2>2. /\ proc' \in Proc /\ proc'.pc = "inventory" /\ proc'.acct = proc.acct /\ proc'.op = proc.op
        /\ proc'.attempt = proc.attempt /\ proc'.answer = proc.answer /\ proc'.bank = proc.bank
    BY <1>1, <2>1 DEF Proc
  <2>3. proc.pc \in Unsent /\ proc'.pc \in Unsent /\ proc.pc \in Attempting \cup {"prepare"}
    BY <1>1, <2>2 DEF Unsent, Attempting
  <2>4. \A x \in Attempts' : x.acct = proc.acct => Missing(x.pre)
    BY <2>1, <2>3, JournalStays DEF IInv, FlowKnows, BankKnows
  <2>5. BankKnows' /\ Granted(proc.acct, proc.bank.avail)'
    BY <1>1, <2>2, <2>3, <2>4, QuietIs, BankKept
  <2>. QED BY <1>1, <2>1, <2>2, <2>3, <2>5, UnsentKeeps
<1>. QED BY <1>2, <1>3 DEF Authorize

LEMMA InventoryKeeps ==
  ASSUME IInv, Inventory
  PROVE  IInv'
<1>1. TypeOK /\ proc \in Proc /\ proc.pc = "inventory" /\ Quiet
  BY DEF IInv, TypeOK, Inventory, At
<1>2. CASE Cancel
  BY <1>1, <1>2, CancelKeeps DEF Unsent
<1>3. ASSUME NEW b \in Inventories(proc.acct), b.avail = proc.attempt.pre,
             proc' = [proc EXCEPT !.pc = "mark", !.bank = b], UNCHANGED journalVars
      PROVE  IInv'
  <2>1. b \in Bank /\ "mark" \in Pcs
    BY <1>1, <1>3, ProcFields, InventoryKnows DEF Pcs
  <2>2. /\ proc' \in Proc /\ proc'.pc = "mark" /\ proc'.acct = proc.acct /\ proc'.op = proc.op
        /\ proc'.attempt = proc.attempt /\ proc'.answer = proc.answer /\ proc'.bank = b
    BY <1>1, <1>3, <2>1 DEF Proc
  <2>3. proc.pc \in Unsent /\ proc'.pc \in Unsent
    BY <1>1, <2>2 DEF Unsent
  <2>4. BankKnows' /\ Granted(proc.acct, proc.bank.avail)'
    <3>1. proc'.bank \in Inventories(proc'.acct) /\ Attempts' = Attempts
      BY <1>3, <2>2, JournalStays
    <3>. QED BY <1>1, <2>2, <3>1, QuietIs, BankRefreshed
  <2>5. proc.attempt.pre # {} /\ proc.attempt.credit = Lowest(proc.attempt.pre)
    BY <2>3 DEF IInv, FlowKnows, AttemptKnows
  <2>6. proc'.bank.avail # {} /\ proc.attempt.credit = Lowest(proc'.bank.avail)
    BY <1>3, <2>2, <2>5
  <2>. QED BY <1>1, <1>3, <2>2, <2>3, <2>4, <2>6, UnsentKeeps
<1>. QED BY <1>2, <1>3 DEF Inventory

LEMMA RefetchKeeps ==
  ASSUME IInv, Refetch
  PROVE  IInv'
<1>1. TypeOK /\ proc \in Proc /\ proc.pc = "refetch" /\ Quiet /\ UNCHANGED journalVars
  BY DEF IInv, TypeOK, Refetch, At
<1>2. PICK b \in Inventories(proc.acct) \cup {[proc.bank EXCEPT !.fresh = FALSE]} :
        proc' = [proc EXCEPT !.pc = "reconcile", !.bank = b]
  BY DEF Refetch
<1>3. /\ b \in Bank /\ "reconcile" \in Pcs /\ proc.acct \in Accounts
      /\ b \notin Inventories(proc.acct) =>
           b.avail = proc.bank.avail /\ b.redeemed = proc.bank.redeemed /\ b.at = proc.bank.at
  <2>1. proc.acct \in Accounts /\ proc.bank \in Bank
    BY <1>1, ProcFields
  <2>2. b \in Inventories(proc.acct) => b \in Bank
    BY <1>1, <2>1, InventoryKnows
  <2>3. b = [proc.bank EXCEPT !.fresh = FALSE] =>
          /\ b \in Bank
          /\ b.avail = proc.bank.avail /\ b.redeemed = proc.bank.redeemed /\ b.at = proc.bank.at
    BY <2>1 DEF Bank
  <2>. QED BY <1>2, <2>1, <2>2, <2>3 DEF Pcs
<1>4. /\ proc' \in Proc /\ proc'.pc = "reconcile" /\ proc'.acct = proc.acct /\ proc'.op = proc.op
      /\ proc'.attempt = proc.attempt /\ proc'.answer = proc.answer /\ proc'.bank = b
  BY <1>1, <1>2, <1>3 DEF Proc
<1>5. BankKnows' /\ Granted(proc.acct, proc.bank.avail)'
  <2>1. Attempts' = Attempts /\ proc.pc \in Attempting \cup {"prepare"}
    BY <1>1, JournalStays DEF Attempting, Unsent
  <2>2. CASE b \in Inventories(proc.acct)
    BY <1>1, <1>4, <2>1, <2>2, QuietIs, BankRefreshed
  <2>3. CASE b \notin Inventories(proc.acct)
    <3>1. \A x \in Attempts' : x.acct = proc.acct => Missing(x.pre)
      BY <2>1 DEF IInv, FlowKnows, BankKnows
    <3>. QED BY <1>1, <1>3, <1>4, <2>1, <2>3, <3>1, QuietIs, BankKept
  <2>. QED BY <2>2, <2>3
<1>6. AttemptKnows' /\ OnlyPosted' /\ AnswerKnows'
  <2>1. proc.attempt \in Attempt /\ proc.attempt.acct = proc.acct
    BY <1>1 DEF IInv, FlowKnows, AttemptKnows, Attempting
  <2>. QED BY <1>4, <2>1 DEF AttemptKnows, OnlyPosted, AnswerKnows, Attempting, Unsent
<1>. QED BY <1>1, <1>4, <1>5, <1>6, MovesKeeps

-----------------------------------------------------------------------------
(* The actions of a flow that settle its attempt.                          *)

LEMMA PostRefusedKeeps ==
  ASSUME IInv, PostRefused
  PROVE  IInv'
<1>1. proc \in Proc /\ proc.pc \in Unsent /\ Quiet
  BY DEF IInv, TypeOK, PostRefused, At, Unsent
<1>. DEFINE p == [Finish("TerminalNotApplied") EXCEPT !.sent = TRUE]
<1>2. CASE Cancel
  BY <1>1, <1>2, CancelKeeps
<1>3. CASE Update(Cancelled, p) /\ UNCHANGED <<due, deferred>>
  <2>1. Rested(p) /\ p.attempt = None
    BY <1>1, EndsRested
  <2>2. Restated(Cancelled) /\ (proc.attempt \in Attempts /\ ~journal.review => Allowed(Cancelled))
    BY <1>1, CancelledAllowed
  <2>3. due' \subseteq Requests /\ deferred' \subseteq Requests
    BY <1>3 DEF IInv, TypeOK
  <2>. HIDE DEF p
  <2>4. Update(Cancelled, p)
    BY <1>3
  <2>. QED BY <1>1, <2>1, <2>2, <2>3, <2>4, QuietIs, UpdateRests
<1>. QED BY <1>2, <1>3 DEF PostRefused

(* A request of this attempt that is live is for its credit.               *)
LEMMA LiveIsAttempt ==
  ASSUME IInv, ~journal.review, proc.attempt \in Attempts,
         NEW p \in posts, Live(p), p[1] = proc.attempt.req
  PROVE  /\ p[2] = proc.attempt.acct /\ p[3] = proc.attempt.credit
         /\ proc.attempt.origin = "LocalRequest"
<1>1. PICK z \in Attempts : /\ z.req = p[1] /\ z.acct = p[2] /\ z.credit = p[3]
                            /\ z.origin = "LocalRequest"
  BY DEF IInv, AttemptsTrue, LiveOpen
<1>2. z = proc.attempt
  BY <1>1, AttemptsAre DEF IInv
<1>. QED BY <1>1, <1>2

(* What counts as consumed was redeemed.                                   *)
LEMMA ConsumedRedeemed ==
  ASSUME IInv, proc.pc = "reconcile", proc.attempt \in Attempts, Consumed(proc.attempt, proc.bank)
  PROVE  proc.attempt.credit # None /\ credit[proc.attempt.acct][proc.attempt.credit] = "redeemed"
<1>. DEFINE x == proc.attempt
            b == proc.bank
<1>1. proc.pc \in Attempting
  BY DEF Attempting
<1>2. x.acct = proc.acct
  BY <1>1 DEF IInv, FlowKnows, AttemptKnows
<1>3. b.redeemed \subseteq Gone(proc.acct) /\ Missing(x.pre)
  BY <1>1, <1>2 DEF IInv, FlowKnows, BankKnows
<1>4. x.credit # None
  BY DEF Consumed
<1>5. CASE x.credit \in b.redeemed
  BY <1>2, <1>3, <1>4, <1>5 DEF Gone
<1>6. CASE x.credit > b.at /\ x.credit \in x.pre /\ b.avail = x.pre \ {x.credit}
  BY <1>2, <1>3, <1>4, <1>6 DEF Missing
<1>. QED BY <1>5, <1>6 DEF Consumed

LEMMA ReconcileSettledKeeps ==
  ASSUME IInv, ReconcileSettled
  PROVE  IInv'
<1>1. proc \in Proc /\ proc.pc = "reconcile" /\ Quiet /\ proc.attempt \in Attempt
  BY DEF IInv, TypeOK, ReconcileSettled, At, FlowKnows, AttemptKnows, Attempting
<1>2. "TerminalNotApplied" \in Flows /\ "Suppressed" \in Flows
  BY DEF Flows
<1>3. CASE proc' \in {Finish("TerminalNotApplied"), Finish("Suppressed")} /\ UNCHANGED journalVars
  BY <1>1, <1>2, <1>3, EndsRested, EndsKeeps
<1>. DEFINE x == [proc.attempt EXCEPT !.state = "ExpiredUnresolved"]
            p == Finish("TerminalNotApplied")
<1>4. CASE /\ Lapsed(proc.attempt) /\ Update(x, p)
           /\ UNCHANGED due /\ deferred' = deferred \ {proc.attempt.req}
  <2>1. Rested(p) /\ p.attempt = None
    BY <1>1, <1>2, EndsRested
  <2>2. Restated(x) /\ x.state = "ExpiredUnresolved"
    BY <1>1, StateChanged DEF States, Terminal
  <2>3. ASSUME proc.attempt \in Attempts, ~journal.review
        PROVE  Allowed(x)
    <3>1. proc.attempt.origin # "LocalRequest"
      BY <1>4 DEF Lapsed
    <3>2. \A q \in posts : q[1] = proc.attempt.req => ~Live(q)
      BY <2>3, <3>1, LiveIsAttempt
    <3>. QED BY <2>2, <3>2 DEF Allowed, Restated
  <2>4. due' \subseteq Requests /\ deferred' \subseteq Requests
    BY <1>4 DEF IInv, TypeOK
  <2>. HIDE DEF x, p
  <2>5. Update(x, p)
    BY <1>4
  <2>. QED BY <1>1, <2>1, <2>2, <2>3, <2>4, <2>5, QuietIs, UpdateRests
<1>. QED BY <1>3, <1>4 DEF ReconcileSettled

LEMMA ReconcileKeeps ==
  ASSUME IInv, Reconcile
  PROVE  IInv'
<1>1. /\ TypeOK /\ proc \in Proc /\ proc.pc = "reconcile" /\ Quiet /\ proc.attempt \in Attempt
      /\ UNCHANGED due
  BY DEF IInv, TypeOK, Reconcile, At, FlowKnows, AttemptKnows, Attempting
<1>2. PICK usable \in BOOLEAN :
        LET s == Reconciled(proc.attempt, usable)
        IN  /\ Update([proc.attempt EXCEPT !.state = s],
                      Finish(IF s = "ReconciledUsable" THEN s ELSE "Suppressed"))
            /\ deferred' \subseteq deferred \cup {proc.attempt.req}
  BY DEF Reconcile
<1>. DEFINE s == Reconciled(proc.attempt, usable)
            x == [proc.attempt EXCEPT !.state = s]
            flow == IF s = "ReconciledUsable" THEN s ELSE "Suppressed"
            p == Finish(flow)
<1>3. /\ s \in {"ReconciledUsable", "ConsumptionObserved", "ReconciliationOverdue", "Uncertain"}
      /\ s = "ReconciledUsable" => Consumed(proc.attempt, proc.bank)
  BY DEF Reconciled
<1>. HIDE DEF s
<1>4. s \in States /\ flow \in Flows
  BY <1>3 DEF States, Terminal, Flows
<1>5. Rested(p) /\ p.attempt = None
  BY <1>1, <1>4, EndsRested
<1>6. Restated(x) /\ x.state = s
  BY <1>1, <1>4, StateChanged
<1>7. ASSUME proc.attempt \in Attempts, ~journal.review
      PROVE  Allowed(x)
  <2>1. CASE s # "ReconciledUsable"
    BY <1>3, <1>6, <2>1 DEF Allowed, Suppresses, Terminal
  <2>2. CASE s = "ReconciledUsable"
    <3>1. /\ proc.attempt.credit # None
          /\ credit[proc.attempt.acct][proc.attempt.credit] = "redeemed"
      BY <1>1, <1>3, <1>7, <2>2, ConsumedRedeemed
    <3>2. ASSUME NEW q \in posts, q[1] = proc.attempt.req, Live(q)
          PROVE  FALSE
      <4>1. q[2] = proc.attempt.acct /\ q[3] = proc.attempt.credit
        BY <1>7, <3>2, LiveIsAttempt
      <4>2. credit[q[2]][q[3]] = "available"
        BY <3>2 DEF Live, Redeemable
      <4>. QED BY <3>1, <4>1, <4>2
    <3>. QED BY <1>6, <2>2, <3>1, <3>2 DEF Allowed, Restated
  <2>. QED BY <2>1, <2>2
<1>8. due' \subseteq Requests /\ deferred' \subseteq Requests
  <2>1. proc.attempt.req \in Requests
    BY <1>1 DEF Attempt
  <2>. QED BY <1>1, <1>2, <2>1 DEF TypeOK
<1>. HIDE DEF x, flow, p
<1>9. Update(x, p)
  BY <1>2 DEF s, x, flow, p
<1>. QED BY <1>1, <1>5, <1>6, <1>7, <1>8, <1>9, QuietIs, UpdateRests

(* A request reported as rejected has spent nothing: the journal shows it  *)
(* was refused, or shows nothing of it.                                    *)
LEMMA ReportKeeps ==
  ASSUME IInv, Report
  PROVE  IInv'
<1>1. TypeOK /\ proc \in Proc /\ OpKnows /\ RejectedSpentNothing
  BY DEF IInv, TypeOK, FlowKnows
<1>2. /\ proc' = Dormant /\ UNCHANGED journalVars /\ store' = store /\ Still
      /\ rejected' = IF proc.op # None /\ Rejectable
                     THEN rejected \cup {<<proc.op, proc.acct>>} ELSE rejected
  BY DEF Report, Still
<1>3. proc.acct \in Accounts /\ (proc.op # None => proc.op \in Operations)
  BY <1>1, ProcFields DEF OpKnows
<1>4. ASSUME proc.op # None, Rejectable, proc.op \notin forgotten
      PROVE  /\ \A s \in spends : <<s[1], s[2]>> # <<proc.op, proc.acct>>
             /\ \A p \in posts : <<p[1], p[2]>> = <<proc.op, proc.acct>> => ~Live(p)
  <2>1. CASE \E x \in Attempts : x.req = proc.op /\ x.state = "TerminalNotApplied"
    <3>1. Dead(proc.op)
      BY <1>4, <2>1 DEF IInv, AttemptsTrue, NotApplied
    <3>. QED BY <3>1 DEF Dead
  <2>2. CASE \A x \in Attempts : x.acct = proc.acct => x.req # proc.op
    <3>1. \A p \in posts \cup spends :
            p[1] \in forgotten \/ \E x \in Attempts : x.req = p[1] /\ x.acct = p[2]
      BY DEF IInv, AttemptsTrue, Journalled
    <3>2. \A p \in posts \cup spends : ~(p[1] = proc.op /\ p[2] = proc.acct)
      BY <1>4, <2>2, <3>1
    <3>. QED BY <3>2
  <2>. QED BY <1>4, <2>1, <2>2 DEF Rejectable
<1>5. /\ Saved(Attempts) /\ AttemptsTrue(Attempts) /\ journal' = journal /\ forgotten' = forgotten
      /\ due' \subseteq Requests /\ deferred' \subseteq Requests
  BY <1>2, JournalStays
<1>6. RejectedSpentNothing'
  <2>1. (\A p : Live(p)' <=> Live(p)) /\ posts' = posts /\ spends' = spends
    BY <1>2, StillLive DEF Still
  <2>. SUFFICES ASSUME NEW w \in rejected', w[1] \notin forgotten
                PROVE  /\ \A s \in spends : <<s[1], s[2]>> # w
                       /\ \A p \in posts : <<p[1], p[2]>> = w => ~Live(p)
    BY <1>5, <2>1 DEF RejectedSpentNothing
  <2>2. CASE w \in rejected
    BY <1>1, <2>2 DEF RejectedSpentNothing
  <2>3. CASE w \notin rejected
    <3>1. w = <<proc.op, proc.acct>> /\ proc.op # None /\ Rejectable
      BY <1>2, <2>3
    <3>. QED BY <1>4, <3>1
  <2>. QED BY <2>2, <2>3
<1>7. rejected' \subseteq Operations \X Accounts
  BY <1>1, <1>2, <1>3 DEF TypeOK
<1>8. Within(journal)' /\ AttemptsTrue(Attempts)' /\ OneLive'
  BY <1>2, <1>5, SavedKept
<1>9. proc' \in Proc /\ Granted(proc.acct, proc.bank.avail)' /\ FlowKnows'
  <2>1. proc' \in Proc /\ proc'.pc = "idle" /\ proc'.op = None /\ proc'.bank.avail = {}
    BY <1>2, DormantIs
  <2>. QED BY <2>1 DEF FlowKnows, BankKnows, AttemptKnows, OnlyPosted, AnswerKnows, OpKnows,
                       Granted, Attempting, Unsent
<1>. QED BY <1>2, <1>5, <1>6, <1>7, <1>8, <1>9, StepKept

-----------------------------------------------------------------------------
(* The actions of a flow that journal an attempt, mark it and send it.     *)

(* A new attempt of a flow that resumes none: what it goes by is the       *)
(* inventory that the flow has.                                            *)
LEMMA PushKeeps ==
  ASSUME IInv, proc.pc = "prepare", ~journal.review, Resumed = {}, Quiet,
         NEW x \in Attempt, NEW pc \in {"authorize", "reconcile"}, Push(x, pc),
         x.acct = proc.acct, Missing(x.pre), Granted(x.acct, x.pre),
         x.credit # None => x.credit \in x.pre, x.state \in {"Prepared", "ConsumptionObserved"},
         \A y \in Attempts : y.req # x.req,
         x.req \notin forgotten => \A p \in posts \cup spends : p[1] # x.req,
         pc = "authorize" =>
           /\ x.state = "Prepared" /\ x.origin = "LocalRequest"
           /\ x.req = proc.op \/ (proc.op = None /\ x.req \in Generated)
           /\ x.pre # {} /\ x.credit = Lowest(x.pre)
  PROVE  IInv'
<1>. DEFINE E == Attempts \cup {x}
<1>1. TypeOK /\ proc \in Proc /\ AttemptsTrue(Attempts)
  BY DEF IInv, TypeOK
<1>2. /\ Still /\ store' = store /\ rejected' = rejected /\ credit' = credit
      /\ due' \subseteq Requests /\ deferred' \subseteq Requests
  BY QuietIs DEF Push, IInv, TypeOK
<1>3. Saved(E)
  BY <1>1, AppendSaved DEF Push
<1>4. AttemptsTrue(E)
  <2>1. /\ Journalled(Attempts) /\ PresGranted(Attempts) /\ LiveOpen(Attempts)
        /\ UsableSpent(Attempts) /\ NotApplied(Attempts)
    BY <1>1 DEF AttemptsTrue
  <2>2. Journalled(E)
    BY <2>1 DEF Journalled
  <2>3. PresGranted(E)
    BY <2>1 DEF PresGranted
  <2>4. LiveOpen(E)
    BY <2>1 DEF LiveOpen
  <2>5. UsableSpent(E) /\ NotApplied(E)
    BY <2>1 DEF UsableSpent, NotApplied
  <2>. QED BY <2>2, <2>3, <2>4, <2>5 DEF AttemptsTrue
<1>. HIDE DEF E
<1>5. CASE journal'.review
  <2>1. proc' = Finish("Suppressed") /\ "Suppressed" \in Flows
    BY <1>5 DEF Push, Flows
  <2>. QED BY <1>1, <1>2, <1>3, <1>4, <2>1, EndsRested, RestKeeps
<1>6. CASE ~journal'.review
  <2>1. proc' = [proc EXCEPT !.pc = pc, !.attempt = x, !.may = FALSE, !.known = 0]
    BY <1>6 DEF Push
  <2>2. pc \in Pcs
    BY DEF Pcs
  <2>3. /\ proc' \in Proc /\ proc'.pc = pc /\ proc'.acct = proc.acct /\ proc'.op = proc.op
        /\ proc'.attempt = x /\ proc'.bank = proc.bank /\ proc'.answer = proc.answer
    BY <1>1, <2>1, <2>2 DEF Proc
  <2>4. BankKnows' /\ Granted(proc.acct, proc.bank.avail)'
    <3>1. \A y \in Attempts : y.acct = proc.acct => Missing(y.pre)
      BY DEF IInv, FlowKnows, BankKnows
    <3>2. Attempts' \subseteq E
      BY <1>3 DEF Saved
    <3>3. \A y \in Attempts' : y.acct = proc.acct => Missing(y.pre)
      BY <3>1, <3>2 DEF E
    <3>. QED BY <1>2, <2>3, <3>3, BankKept
  <2>5. AttemptKnows'
    <3>1. proc.answer = None
      BY DEF IInv, FlowKnows, AttemptKnows
    <3>. QED BY <2>3, <3>1 DEF AttemptKnows, Attempting, Unsent
  <2>6. OnlyPosted'
    <3>1. ASSUME NEW p \in posts, p[2] = proc.acct, Live(p)
          PROVE  FALSE
      <4>1. \E y \in Attempts : y.acct = p[2] /\ Suppresses(y)
        BY <1>1, <3>1 DEF AttemptsTrue, LiveOpen
      <4>. QED BY <3>1, <4>1, NothingResumed
    <3>. QED BY <1>2, <2>3, <3>1, StillLive DEF OnlyPosted, Still
  <2>7. AnswerKnows'
    <3>1. posts' = posts /\ spends' = spends /\ forgotten \subseteq forgotten'
      BY <1>2, <1>3 DEF Still, Saved
    <3>. QED BY <2>3, <3>1 DEF AnswerKnows, Unsent
  <2>8. OpKnows'
    BY <1>2, <2>3 DEF OpKnows, IInv, FlowKnows
  <2>9. FlowKnows'
    BY <2>4, <2>5, <2>6, <2>7, <2>8 DEF FlowKnows
  <2>. QED BY <1>2, <1>3, <1>4, <2>3, <2>4, <2>9, StepKeeps
<1>. QED BY <1>5, <1>6

(* A request that nobody drew before.                                      *)
LEMMA DrawnKnows ==
  ASSUME IInv, NEW r \in Generated \ Drawn
  PROVE  r \in Requests /\ (\A y \in Attempts : y.req # r) /\ \A p \in posts \cup spends : p[1] # r
BY DEF Drawn, Names, Attempts, Requests

LEMMA PrepareExternalKeeps ==
  ASSUME IInv, PrepareExternal
  PROVE  IInv'
<1>. DEFINE old == store[proc.acct]
            lost == Lost(old, proc.bank)
<1>1. TypeOK /\ proc \in Proc /\ proc.pc = "prepare" /\ ~journal.review /\ Resumed = {} /\ Quiet
  BY DEF IInv, TypeOK, PrepareExternal, At
<1>2. PICK r \in Generated \ Drawn :
        Push(Fresh([req |-> r, credit |-> lost, origin |-> "ExternalInventoryDecrease",
                    state |-> "ConsumptionObserved", pre |-> old]), "reconcile")
  BY DEF PrepareExternal
<1>3. r \in Requests /\ (\A y \in Attempts : y.req # r) /\ \A p \in posts \cup spends : p[1] # r
  BY DrawnKnows
<1>4. proc.acct \in Accounts /\ proc.known \in Nat
  BY <1>1, ProcFields
<1>5. old \subseteq Credits /\ Granted(proc.acct, old) /\ Missing(old)
  BY <1>1, <1>4 DEF IInv, TypeOK, CreditsGranted, FlowKnows, BankKnows
<1>6. lost \in old \cup {None}
  <2>. DEFINE S == {c \in old : c > proc.bank.at} \ proc.bank.avail
  <2>1. lost = IF S = {} THEN None ELSE Lowest(S)
    BY DEF Lost
  <2>2. S \subseteq old /\ old \subseteq Nat
    BY <1>5 DEF Credits
  <2>. HIDE DEF S
  <2>3. S # {} => Lowest(S) \in S
    BY <2>2, LowestIn
  <2>. QED BY <2>1, <2>2, <2>3
<1>. HIDE DEF lost, old
<1>. DEFINE x == [req |-> r, acct |-> proc.acct, credit |-> lost,
                  origin |-> "ExternalInventoryDecrease", state |-> "ConsumptionObserved",
                  pre |-> old, quota |-> proc.known, submitted |-> FALSE]
<1>7. Push(x, "reconcile")
  BY <1>2 DEF Fresh
<1>8. x \in Attempt
  BY <1>3, <1>4, <1>5, <1>6 DEF Attempt, States
<1>9. /\ x.req = r /\ x.acct = proc.acct /\ x.credit = lost /\ x.pre = old
      /\ x.state = "ConsumptionObserved"
  OBVIOUS
<1>. HIDE DEF x
<1>. QED BY <1>1, <1>3, <1>5, <1>6, <1>7, <1>8, <1>9, PushKeeps

LEMMA PrepareSubmitKeeps ==
  ASSUME IInv, PrepareSubmit
  PROVE  IInv'
<1>. DEFINE pre == proc.bank.avail
<1>1. /\ TypeOK /\ proc \in Proc /\ proc.pc = "prepare" /\ ~journal.review /\ Resumed = {}
      /\ Quiet /\ pre # {}
  BY DEF IInv, TypeOK, PrepareSubmit, At
<1>2. PICK r \in IF proc.op = None THEN Generated \ Drawn ELSE {proc.op} :
        Push(Fresh([req |-> r, credit |-> Lowest(pre), origin |-> "LocalRequest",
                    state |-> "Prepared", pre |-> pre]), "authorize")
  BY DEF PrepareSubmit
<1>3. proc.acct \in Accounts /\ proc.known \in Nat /\ pre \subseteq Credits
  BY <1>1, ProcFields
<1>4. /\ r \in Requests /\ (\A y \in Attempts : y.req # r)
      /\ r \notin forgotten => \A p \in posts \cup spends : p[1] # r
      /\ r = proc.op \/ (proc.op = None /\ r \in Generated)
  <2>1. CASE proc.op = None
    BY <1>2, <2>1, DrawnKnows
  <2>2. CASE proc.op # None
    <3>1. r = proc.op /\ r \in Requests
      BY <1>1, <1>2, <2>2, ProcFields
    <3>2. \A y \in Attempts : y.req # r
      BY <1>1, <3>1, NothingResumed
    <3>3. r \notin forgotten => \A p \in posts \cup spends : p[1] # r
      BY <3>2 DEF IInv, AttemptsTrue, Journalled
    <3>. QED BY <3>1, <3>2, <3>3
  <2>. QED BY <2>1, <2>2
<1>5. Lowest(pre) \in pre
  BY <1>1, <1>3, LowestIn DEF Credits
<1>6. Granted(proc.acct, pre) /\ Missing(pre)
  BY DEF IInv, CreditsGranted, Missing
<1>. HIDE DEF pre
<1>. DEFINE x == [req |-> r, acct |-> proc.acct, credit |-> Lowest(pre),
                  origin |-> "LocalRequest", state |-> "Prepared",
                  pre |-> pre, quota |-> proc.known, submitted |-> FALSE]
<1>7. Push(x, "authorize")
  BY <1>2 DEF Fresh
<1>8. x \in Attempt
  BY <1>3, <1>4, <1>5 DEF Attempt, States
<1>9. /\ x.req = r /\ x.acct = proc.acct /\ x.credit = Lowest(pre) /\ x.pre = pre
      /\ x.state = "Prepared" /\ x.origin = "LocalRequest"
  OBVIOUS
<1>. HIDE DEF x
<1>. QED BY <1>1, <1>4, <1>5, <1>6, <1>7, <1>8, <1>9, PushKeeps

(* An update that keeps the attempt open: the flow goes on with it.        *)
LEMMA UpdateMoves ==
  ASSUME IInv, proc.pc \in Attempting, NEW x, NEW p, Update(x, p), Restated(x), Suppresses(x),
         Suppresses(proc.attempt), p \in Proc, p.acct = proc.acct, p.op = proc.op,
         p.bank = proc.bank, p.attempt = proc.attempt, Quiet, UNCHANGED <<due, deferred>>
  PROVE  \/ IInv'
         \/ /\ ~journal.review /\ AttemptsTrue(Replaced(x)) /\ Saved(Replaced(x))
            /\ proc' \in Proc /\ proc'.pc = p.pc /\ proc'.acct = p.acct /\ proc'.op = p.op
            /\ proc'.bank = p.bank /\ proc'.answer = p.answer /\ proc'.attempt \in {x, proc.attempt}
            /\ BankKnows' /\ Granted(proc.acct, proc.bank.avail)'
<1>1. TypeOK /\ proc \in Proc /\ Within(journal) /\ AttemptsTrue(Attempts)
  BY DEF IInv, TypeOK
<1>2. /\ Still /\ store' = store /\ rejected' = rejected /\ credit' = credit
      /\ due' \subseteq Requests /\ deferred' \subseteq Requests
  BY QuietIs DEF IInv, TypeOK
<1>3. Rested(Failing) /\ Rested([Dormant EXCEPT !.pc = "panicked"])
  BY <1>1, EndsRested
<1>4. x \in Attempt /\ x.req = proc.attempt.req
  BY DEF Restated
<1>5. \/ proc' = Failing /\ journal' = journal /\ forgotten' = forgotten
      \/ proc' = Failing /\ Saved(Attempts)
      \/ /\ ~journal.review /\ proc.attempt \in Attempts /\ Saved(Replaced(x))
         /\ \/ proc' = [Dormant EXCEPT !.pc = "panicked"]
            \/ proc' = p
            \/ proc' = [p EXCEPT !.attempt = x]
  BY <1>1, <1>4, UpdateIs
<1>6. CASE proc' = Failing /\ journal' = journal /\ forgotten' = forgotten
  BY <1>1, <1>2, <1>3, <1>6, UnchangedSaved, RestKeeps
<1>7. CASE proc' = Failing /\ Saved(Attempts)
  BY <1>1, <1>2, <1>3, <1>7, RestKeeps
<1>8. CASE ~journal.review /\ proc.attempt \in Attempts /\ Saved(Replaced(x))
  <2>1. Allowed(x)
    BY DEF Allowed, Suppresses, Terminal
  <2>2. AttemptsTrue(Replaced(x))
    BY <1>8, <2>1, ReplacedTrue
  <2>3. CASE proc' = [Dormant EXCEPT !.pc = "panicked"]
    BY <1>2, <1>3, <1>8, <2>2, <2>3, RestKeeps
  <2>4. CASE proc' = p \/ proc' = [p EXCEPT !.attempt = x]
    <3>1. /\ proc' \in Proc /\ proc'.pc = p.pc /\ proc'.acct = p.acct /\ proc'.op = p.op
          /\ proc'.bank = p.bank /\ proc'.answer = p.answer
          /\ proc'.attempt \in {x, proc.attempt}
      BY <1>4, <2>4 DEF Proc
    <3>2. \A y \in Attempts' : y.acct = proc.acct => Missing(y.pre)
      <4>1. \A y \in Attempts : y.acct = proc.acct => Missing(y.pre)
        BY DEF IInv, FlowKnows, BankKnows
      <4>2. Attempts' \subseteq Replaced(x)
        BY <1>8 DEF Saved
      <4>. QED BY <1>8, <4>1, <4>2 DEF Replaced, Restated
    <3>3. BankKnows' /\ Granted(proc.acct, proc.bank.avail)'
      BY <1>2, <3>1, <3>2, BankKept
    <3>. QED BY <1>8, <2>2, <3>1, <3>3
  <2>. QED BY <1>5, <1>8, <2>3, <2>4, <1>6, <1>7
<1>. QED BY <1>5, <1>6, <1>7, <1>8

LEMMA MarkKeeps ==
  ASSUME IInv, Mark
  PROVE  IInv'
<1>. DEFINE x == [proc.attempt EXCEPT !.submitted = TRUE]
            p == [proc EXCEPT !.pc = "post"]
<1>1. /\ TypeOK /\ proc \in Proc /\ proc.pc = "mark" /\ Quiet /\ Update(x, p)
      /\ UNCHANGED <<due, deferred>>
  BY DEF IInv, TypeOK, Mark, At
<1>2. proc.pc \in Unsent /\ proc.pc \in Attempting
  BY <1>1 DEF Unsent, Attempting
<1>3. AttemptKnows /\ OnlyPosted /\ AnswerKnows
  BY DEF IInv, FlowKnows
<1>4. /\ proc.attempt \in Attempt /\ proc.attempt.state = "Prepared" /\ proc.answer = None
      /\ proc.attempt.acct = proc.acct /\ proc.attempt.origin = "LocalRequest"
      /\ proc.attempt.req = proc.op \/ (proc.op = None /\ proc.attempt.req \in Generated)
      /\ proc.attempt.pre # {} /\ proc.attempt.credit = Lowest(proc.attempt.pre)
      /\ proc.bank.avail # {} /\ proc.attempt.credit = Lowest(proc.bank.avail)
  BY <1>1, <1>2, <1>3 DEF AttemptKnows
<1>5. Restated(x) /\ x.state = proc.attempt.state
  BY <1>4 DEF Restated, Attempt
<1>6. Suppresses(x) /\ Suppresses(proc.attempt)
  BY <1>4, <1>5 DEF Suppresses, Terminal
<1>7. "post" \in Pcs
  BY DEF Pcs
<1>8. /\ p \in Proc /\ p.pc = "post" /\ p.acct = proc.acct /\ p.op = proc.op
      /\ p.bank = proc.bank /\ p.attempt = proc.attempt /\ p.answer = proc.answer
  BY <1>1, <1>7 DEF Proc
<1>. HIDE DEF x, p
<1>9. \/ IInv'
      \/ /\ ~journal.review /\ AttemptsTrue(Replaced(x)) /\ Saved(Replaced(x))
         /\ proc' \in Proc /\ proc'.pc = p.pc /\ proc'.acct = p.acct /\ proc'.op = p.op
         /\ proc'.bank = p.bank /\ proc'.answer = p.answer /\ proc'.attempt \in {x, proc.attempt}
         /\ BankKnows' /\ Granted(proc.acct, proc.bank.avail)'
  BY <1>1, <1>2, <1>5, <1>6, <1>8, UpdateMoves
<1>10. ASSUME ~journal.review, AttemptsTrue(Replaced(x)), Saved(Replaced(x)),
              proc' \in Proc, proc'.pc = "post", proc'.acct = proc.acct, proc'.op = proc.op,
              proc'.bank = proc.bank, proc'.answer = None, proc'.attempt \in {x, proc.attempt},
              BankKnows', Granted(proc.acct, proc.bank.avail)'
       PROVE  IInv'
  <2>1. /\ Still /\ store' = store /\ rejected' = rejected
        /\ due' \subseteq Requests /\ deferred' \subseteq Requests
    BY <1>1, QuietIs DEF IInv, TypeOK
  <2>. DEFINE y == proc'.attempt
  <2>2. /\ y \in Attempt /\ y.state = "Prepared" /\ y.acct = proc.acct /\ y.origin = "LocalRequest"
        /\ y.req = proc.attempt.req /\ y.pre = proc.attempt.pre /\ y.credit = proc.attempt.credit
    BY <1>4, <1>5, <1>10 DEF Restated
  <2>3. posts' = posts /\ spends' = spends /\ forgotten \subseteq forgotten'
    BY <1>10, <2>1 DEF Still, Saved
  <2>4. AttemptKnows'
    BY <1>4, <1>10, <2>2 DEF AttemptKnows, Attempting, Unsent
  <2>5. OnlyPosted'
    BY <1>2, <1>3, <1>10, <2>1, <2>3, StillLive DEF OnlyPosted
  <2>6. AnswerKnows'
    BY <1>2, <1>3, <1>10, <2>2, <2>3 DEF AnswerKnows
  <2>7. OpKnows'
    BY <1>10, <2>1 DEF OpKnows, IInv, FlowKnows
  <2>8. FlowKnows'
    BY <1>10, <2>4, <2>5, <2>6, <2>7 DEF FlowKnows
  <2>. QED BY <1>10, <2>1, <2>8, StepKeeps
<1>. QED BY <1>4, <1>8, <1>9, <1>10

LEMMA RecordAnswerKeeps ==
  ASSUME IInv, RecordAnswer
  PROVE  IInv'
<1>1. /\ TypeOK /\ proc \in Proc /\ proc.pc = "answer" /\ Quiet /\ proc.attempt \in Attempt
      /\ proc.attempt.acct = proc.acct /\ proc.attempt.state = "Prepared"
      /\ UNCHANGED <<due, deferred>>
  BY DEF IInv, TypeOK, RecordAnswer, At, FlowKnows, AttemptKnows, Attempting
<1>2. PICK code \in {proc.answer, None} :
        Update([proc.attempt EXCEPT !.state = Outcome(code)],
               IF Outcome(code) = "Uncertain" THEN [proc EXCEPT !.pc = "refetch"]
               ELSE Finish("TerminalNotApplied"))
  BY DEF RecordAnswer
<1>. DEFINE s == Outcome(code)
            x == [proc.attempt EXCEPT !.state = s]
            p == [proc EXCEPT !.pc = "refetch"]
            f == Finish("TerminalNotApplied")
<1>3. /\ s \in {"TerminalNotApplied", "Uncertain"}
      /\ s = "TerminalNotApplied" => code \in Refusals
  BY DEF Outcome, Refusals
<1>. HIDE DEF s
<1>4. Restated(x) /\ x.state = s
  BY <1>1, <1>3, StateChanged DEF States, Terminal
<1>5. Update(x, IF s = "Uncertain" THEN p ELSE f)
  BY <1>2 DEF s
<1>6. /\ Still /\ store' = store /\ rejected' = rejected
      /\ due' \subseteq Requests /\ deferred' \subseteq Requests
  BY <1>1, QuietIs DEF IInv, TypeOK
<1>7. CASE s = "TerminalNotApplied"
  <2>1. Rested(f) /\ f.attempt = None
    BY <1>1, EndsRested DEF Flows
  <2>2. proc.answer \in Refusals
    BY <1>3, <1>7, NoneAssumption DEF Refusals, Codes
  <2>3. ASSUME ~journal.review
        PROVE  Allowed(x)
    <3>1. \A q \in posts : q[2] = proc.acct => ~Live(q)
      BY <1>1, <2>2, <2>3 DEF IInv, FlowKnows, AnswerKnows
    <3>2. proc.attempt.req \notin forgotten => Dead(proc.attempt.req)
      BY <1>1, <2>2 DEF IInv, FlowKnows, AnswerKnows
    <3>. QED BY <1>1, <1>4, <1>7, <3>1, <3>2 DEF Allowed, Restated
  <2>. HIDE DEF x, f
  <2>4. Update(x, f)
    BY <1>5, <1>7
  <2>. QED BY <1>4, <1>6, <2>1, <2>3, <2>4, UpdateRests
<1>8. CASE s = "Uncertain"
  <2>1. Suppresses(x) /\ Suppresses(proc.attempt)
    BY <1>1, <1>4, <1>8 DEF Suppresses, Terminal
  <2>2. "refetch" \in Pcs
    BY DEF Pcs
  <2>3. /\ p \in Proc /\ p.pc = "refetch" /\ p.acct = proc.acct /\ p.op = proc.op
        /\ p.bank = proc.bank /\ p.attempt = proc.attempt
    BY <1>1, <2>2 DEF Proc
  <2>. HIDE DEF x, p
  <2>4. Update(x, p) /\ proc.pc \in Attempting
    BY <1>1, <1>5, <1>8 DEF Attempting
  <2>5. \/ IInv'
        \/ /\ ~journal.review /\ AttemptsTrue(Replaced(x)) /\ Saved(Replaced(x))
           /\ proc' \in Proc /\ proc'.pc = p.pc /\ proc'.acct = p.acct /\ proc'.op = p.op
           /\ proc'.bank = p.bank /\ proc'.answer = p.answer /\ proc'.attempt \in {x, proc.attempt}
           /\ BankKnows' /\ Granted(proc.acct, proc.bank.avail)'
    BY <1>1, <1>4, <2>1, <2>3, <2>4, UpdateMoves
  <2>6. ASSUME AttemptsTrue(Replaced(x)), Saved(Replaced(x)),
               proc' \in Proc, proc'.pc = "refetch", proc'.acct = proc.acct, proc'.op = proc.op,
               proc'.attempt \in {x, proc.attempt}, BankKnows', Granted(proc.acct, proc.bank.avail)'
        PROVE  IInv'
    <3>1. proc'.attempt \in Attempt /\ proc'.attempt.acct = proc.acct
      BY <1>1, <1>4, <2>6 DEF Restated
    <3>2. AttemptKnows' /\ OnlyPosted' /\ AnswerKnows'
      BY <2>6, <3>1 DEF AttemptKnows, OnlyPosted, AnswerKnows, Unsent
    <3>3. OpKnows'
      BY <1>6, <2>6 DEF OpKnows, IInv, FlowKnows
    <3>4. FlowKnows'
      BY <2>6, <3>2, <3>3 DEF FlowKnows
    <3>. QED BY <1>6, <2>6, <3>4, StepKeeps
  <2>. QED BY <2>3, <2>5, <2>6
<1>. QED BY <1>3, <1>7, <1>8

(* The request that is sent is the only live one of its account, and its   *)
(* attempt is in the journal.                                              *)
LEMMA PostKeeps ==
  ASSUME IInv, Post
  PROVE  IInv'
<1>. DEFINE q == Posted
            r == proc.attempt.req
            a == proc.acct
            c == proc.attempt.credit
<1>1. /\ TypeOK /\ proc \in Proc /\ proc.pc = "post" /\ ~journal.review /\ proc.attempt \in Attempts
      /\ posts' = posts \cup {q} /\ proc' = [proc EXCEPT !.pc = "answer", !.sent = TRUE]
      /\ journal' = journal /\ due' = due /\ deferred' = deferred /\ forgotten' = forgotten
      /\ store' = store /\ rejected' = rejected /\ spends' = spends
      /\ credit' = credit /\ quota' = quota /\ now' = now /\ events' = events
  BY DEF IInv, TypeOK, Post, At, journalVars, providerVars
<1>2. proc.pc \in Unsent /\ proc.pc \in Attempting
  BY <1>1 DEF Unsent, Attempting
<1>3. /\ AttemptKnows /\ OnlyPosted /\ AnswerKnows /\ OpKnows /\ AttemptsTrue(Attempts)
      /\ CreditsGranted /\ OneLive /\ RejectedSpentNothing /\ Within(journal)
  BY DEF IInv, FlowKnows
<1>4. /\ proc.attempt \in Attempt /\ proc.attempt.state = "Prepared" /\ proc.answer = None
      /\ proc.attempt.acct = a /\ proc.attempt.origin = "LocalRequest"
      /\ r = proc.op \/ (proc.op = None /\ r \in Generated)
      /\ proc.bank.avail # {} /\ c = Lowest(proc.bank.avail)
  BY <1>1, <1>2, <1>3 DEF AttemptKnows
<1>5. proc.bank.avail \subseteq Credits /\ a \in Accounts /\ r \in Requests
  BY <1>1, <1>4, ProcFields DEF Attempt
<1>6. c \in proc.bank.avail /\ c \in Credits
  BY <1>4, <1>5, LowestIn DEF Credits
<1>7. q = <<r, a, c>> /\ q[1] = r /\ q[2] = a /\ q[3] = c
  BY <1>4 DEF Posted
<1>8. "answer" \in Pcs
  BY DEF Pcs
<1>9. /\ proc' \in Proc /\ proc'.pc = "answer" /\ proc'.acct = a /\ proc'.op = proc.op
      /\ proc'.attempt = proc.attempt /\ proc'.bank = proc.bank /\ proc'.answer = None
  BY <1>1, <1>4, <1>8 DEF Proc
<1>10. Posted' = q /\ Attempts' = Attempts
  BY <1>1, <1>9 DEF Posted, Attempts
<1>. HIDE DEF q
<1>11. /\ \A p \in posts : p[2] = a => ~Live(p)
       /\ \A p \in posts' : p \in posts \/ p = q
       /\ \A p \in posts : Live(p)' <=> Live(p)
  BY <1>1, <1>2, <1>3 DEF OnlyPosted, Live, Redeemable
<1>. HIDE DEF r, a, c
<1>12. TypeOK'
  <2>1. posts' \cup spends' \subseteq Requests \X Accounts \X Credits
    BY <1>1, <1>5, <1>6, <1>7 DEF TypeOK
  <2>. QED BY <1>1, <1>9, <2>1 DEF TypeOK
<1>13. AttemptsTrue(Attempts)'
  <2>1. /\ Journalled(Attempts) /\ PresGranted(Attempts) /\ LiveOpen(Attempts)
        /\ UsableSpent(Attempts) /\ NotApplied(Attempts)
    BY <1>3 DEF AttemptsTrue
  <2>2. Journalled(Attempts)'
    BY <1>1, <1>4, <1>7, <1>10, <2>1 DEF Journalled, r
  <2>3. PresGranted(Attempts)' /\ UsableSpent(Attempts)'
    BY <1>1, <1>10, <2>1 DEF PresGranted, Granted, UsableSpent
  <2>4. LiveOpen(Attempts)'
    <3>. SUFFICES ASSUME NEW p \in posts', Live(p)'
                  PROVE  \E x \in Attempts : /\ x.req = p[1] /\ x.acct = p[2] /\ x.credit = p[3]
                                              /\ Suppresses(x) /\ x.origin = "LocalRequest"
      BY <1>10 DEF LiveOpen, Suppresses
    <3>1. CASE p \in posts
      BY <1>1, <1>11, <2>1, <3>1 DEF LiveOpen
    <3>2. CASE p = q
      BY <1>1, <1>4, <1>7, <3>2 DEF Suppresses, Terminal, r, c
    <3>. QED BY <1>11, <3>1, <3>2
  <2>5. NotApplied(Attempts)'
    <3>. SUFFICES ASSUME NEW x \in Attempts, x.state = "TerminalNotApplied", x.req \notin forgotten
                  PROVE  Dead(x.req)'
      BY <1>1, <1>10 DEF NotApplied
    <3>1. Dead(x.req)
      BY <2>1 DEF NotApplied
    <3>2. x.req # r
      BY <1>1, <1>4, AttemptsAre DEF r
    <3>. QED BY <1>1, <1>7, <1>11, <3>1, <3>2 DEF Dead
  <2>. QED BY <2>2, <2>3, <2>4, <2>5 DEF AttemptsTrue
<1>14. OneLive'
  BY <1>3, <1>7, <1>11 DEF OneLive
<1>15. CreditsGranted'
  BY <1>1, <1>3, <1>6, <1>7, <1>9 DEF CreditsGranted, Granted, a
<1>16. FlowKnows'
  <2>1. \A x \in Attempts' : x.acct = proc.acct => Missing(x.pre)
    BY <1>2, <1>10 DEF IInv, FlowKnows, BankKnows
  <2>2. BankKnows'
    BY <1>1, <1>2, <1>9, <2>1, BankKept DEF a
  <2>3. AttemptKnows'
    BY <1>4, <1>9 DEF AttemptKnows, Attempting, Unsent, a, c
  <2>4. OnlyPosted'
    BY <1>9, <1>10, <1>11 DEF OnlyPosted, Unsent
  <2>5. AnswerKnows'
    <3>1. r \notin forgotten => \A p \in posts : p[1] # r
      BY <1>2, <1>3 DEF AnswerKnows, r
    <3>2. None \notin Refusals
      BY NoneAssumption DEF Refusals, Codes
    <3>. QED BY <1>1, <1>9, <1>10, <1>11, <3>1, <3>2 DEF AnswerKnows, Unsent, r
  <2>6. OpKnows'
    BY <1>1, <1>3, <1>9 DEF OpKnows, a
  <2>. QED BY <2>2, <2>3, <2>4, <2>5, <2>6 DEF FlowKnows
<1>17. RejectedSpentNothing'
  <2>1. <<r, a>> \notin rejected
    <3>1. rejected \subseteq Operations \X Accounts
      BY <1>1 DEF TypeOK
    <3>2. CASE r = proc.op
      <4>1. proc.op # None
        BY <1>5, <3>2, NoneAssumption
      <4>. QED BY <1>3, <3>2, <4>1 DEF OpKnows, a
    <3>3. CASE r \in Generated
      BY <3>1, <3>3, RequestsAssumption
    <3>. QED BY <1>4, <3>2, <3>3
  <2>2. ASSUME NEW w \in rejected, w[1] \notin forgotten
        PROVE  /\ \A s \in spends : <<s[1], s[2]>> # w
               /\ \A p \in posts' : <<p[1], p[2]>> = w => ~Live(p)'
    <3>1. /\ \A s \in spends : <<s[1], s[2]>> # w
          /\ \A p \in posts : <<p[1], p[2]>> = w => ~Live(p)
      BY <1>3, <2>2 DEF RejectedSpentNothing
    <3>. QED BY <1>7, <1>11, <2>1, <2>2, <3>1
  <2>. QED BY <1>1, <2>2 DEF RejectedSpentNothing
<1>18. Within(journal)'
  BY <1>1, <1>3 DEF Within, OpenAt, SettledAt, Suppresses
<1>. QED BY <1>12, <1>13, <1>14, <1>15, <1>16, <1>17, <1>18 DEF IInv

-----------------------------------------------------------------------------
(* The provider, its other clients and the clock only ever make a request  *)
(* in flight less live, and what was redeemed stays redeemed.              *)
Onward ==
  /\ \A a \in Accounts, c \in Credits :
       /\ credit[a][c] # "ungranted" => credit'[a][c] # "ungranted"
       /\ credit[a][c] = "redeemed" => credit'[a][c] = "redeemed"
       /\ credit[a][c] \in {"lagging", "redeemed"} => credit'[a][c] \in {"lagging", "redeemed"}
       /\ credit'[a][c] = "available" => credit[a][c] \in {"available", "ungranted"}
  /\ now <= now' /\ posts' \subseteq posts /\ spends \subseteq spends'
  /\ \A s \in spends' : s \in spends \/ (s \in posts /\ Live(s))
  /\ journal' = journal /\ forgotten' = forgotten /\ store' = store /\ rejected' = rejected
  /\ proc'.pc = proc.pc /\ proc'.acct = proc.acct /\ proc'.op = proc.op
  /\ proc'.bank = proc.bank /\ proc'.attempt = proc.attempt

LEMMA LessLive ==
  ASSUME IInv, TypeOK', Onward
  PROVE  /\ \A p \in posts' : p \in posts /\ (Live(p)' => Live(p))
         /\ \A r : Dead(r) => Dead(r)'
<1>1. TypeOK /\ \A p \in posts : credit[p[2]][p[3]] # "ungranted"
  BY DEF IInv, CreditsGranted
<1>2. /\ posts' \subseteq posts /\ spends \subseteq spends' /\ now <= now'
      /\ \A s \in spends' : s \in spends \/ (s \in posts /\ Live(s))
  BY DEF Onward
<1>3. ASSUME NEW p \in posts', Live(p)'
      PROVE  Live(p)
  <2>1. p \in posts /\ p \in Requests \X Accounts \X Credits
    BY <1>1, <1>2 DEF TypeOK
  <2>2. p[2] \in Accounts /\ p[3] \in Credits
    BY <2>1
  <2>3. /\ p[3] > now' /\ credit'[p[2]][p[3]] = "available"
        /\ \A s \in spends' : s[1] # p[1]
    BY <1>3 DEF Live, Redeemable
  <2>4. credit[p[2]][p[3]] = "available"
    BY <1>1, <2>1, <2>2, <2>3 DEF Onward
  <2>5. now \in 0..MaxCredit /\ now' \in 0..MaxCredit /\ MaxCredit \in Nat
    BY <1>1, CapsAssumption DEF TypeOK
  <2>6. p[3] > now
    BY <1>2, <2>2, <2>3, <2>5 DEF Credits
  <2>. QED BY <1>2, <2>1, <2>3, <2>4, <2>6 DEF Live, Redeemable
<1>4. \A r : Dead(r) => Dead(r)'
  BY <1>2, <1>3 DEF Dead
<1>. QED BY <1>2, <1>3, <1>4

LEMMA OnwardKeeps ==
  ASSUME IInv, TypeOK', Onward, AnswerKnows', proc.pc \in Unsent \cup {"prepare"} => proc'.answer = None
  PROVE  IInv'
<1>1. /\ TypeOK /\ AttemptsTrue(Attempts) /\ CreditsGranted /\ OneLive /\ RejectedSpentNothing
      /\ BankKnows /\ AttemptKnows /\ OnlyPosted /\ OpKnows /\ Within(journal) /\ proc \in Proc
  BY DEF IInv, FlowKnows, TypeOK
<1>2. /\ journal' = journal /\ forgotten' = forgotten /\ store' = store /\ rejected' = rejected
      /\ proc'.pc = proc.pc /\ proc'.acct = proc.acct /\ proc'.op = proc.op
      /\ proc'.bank = proc.bank /\ proc'.attempt = proc.attempt
      /\ posts' \subseteq posts
      /\ \A s \in spends' : s \in spends \/ (s \in posts /\ Live(s))
  BY DEF Onward
<1>3. /\ \A p \in posts' : p \in posts /\ (Live(p)' => Live(p))
      /\ \A r : Dead(r) => Dead(r)'
  BY LessLive
<1>4. Attempts' = Attempts /\ Posted' = Posted
  BY <1>2 DEF Attempts, Posted
<1>5. ASSUME NEW a \in Accounts, NEW C \in SUBSET Credits, Granted(a, C)
      PROVE  Granted(a, C)'
  BY <1>5 DEF Granted, Onward
<1>6. \A x \in Attempts : x.acct \in Accounts /\ x.pre \in SUBSET Credits
  BY <1>1, AttemptsAre DEF Attempt
<1>7. proc.acct \in Accounts /\ proc.bank.avail \in SUBSET Credits /\ proc.bank.redeemed \in SUBSET Credits
  BY <1>1, ProcFields
<1>8. AttemptsTrue(Attempts)'
  <2>1. /\ Journalled(Attempts) /\ PresGranted(Attempts) /\ LiveOpen(Attempts)
        /\ UsableSpent(Attempts) /\ NotApplied(Attempts)
    BY <1>1 DEF AttemptsTrue
  <2>2. Journalled(Attempts)'
    BY <1>2, <1>4, <2>1 DEF Journalled
  <2>3. PresGranted(Attempts)'
    BY <1>4, <1>5, <1>6, <2>1 DEF PresGranted
  <2>4. LiveOpen(Attempts)'
    BY <1>2, <1>3, <1>4, <2>1 DEF LiveOpen, Suppresses
  <2>5. UsableSpent(Attempts)'
    <3>1. \A x \in Attempts : x.credit \in Credits \cup {None}
      BY <1>1, AttemptsAre DEF Attempt
    <3>. QED BY <1>4, <1>6, <2>1, <3>1 DEF UsableSpent, Onward
  <2>6. NotApplied(Attempts)'
    BY <1>2, <1>3, <1>4, <2>1 DEF NotApplied
  <2>. QED BY <2>2, <2>3, <2>4, <2>5, <2>6 DEF AttemptsTrue
<1>9. CreditsGranted'
  <2>1. \A a \in Accounts : Granted(a, store[a])'
    BY <1>1, <1>2, <1>5 DEF CreditsGranted, TypeOK
  <2>2. ASSUME NEW p \in posts'
        PROVE  credit'[p[2]][p[3]] # "ungranted"
    <3>1. p \in posts /\ p[2] \in Accounts /\ p[3] \in Credits
      BY <1>1, <1>2 DEF TypeOK
    <3>. QED BY <1>1, <3>1 DEF CreditsGranted, Onward
  <2>3. Granted(proc.acct, proc.bank.avail)'
    BY <1>1, <1>2, <1>5, <1>7 DEF CreditsGranted
  <2>. QED BY <2>1, <2>2, <2>3 DEF CreditsGranted
<1>10. OneLive'
  BY <1>1, <1>3 DEF OneLive
<1>11. BankKnows'
  <2>1. ASSUME NEW C \in SUBSET Credits, Missing(C)
        PROVE  Missing(C)'
    BY <1>2, <1>7, <2>1 DEF Missing, Onward
  <2>2. proc.bank.redeemed \subseteq Gone(proc.acct) => proc.bank.redeemed \subseteq Gone(proc.acct)'
    BY <1>2, <1>7 DEF Gone, Onward
  <2>3. store[proc.acct] \in SUBSET Credits
    BY <1>1, <1>7 DEF TypeOK
  <2>. HIDE DEF Missing, Gone
  <2>. QED BY <1>1, <1>2, <1>4, <1>6, <2>1, <2>2, <2>3 DEF BankKnows
<1>12. AttemptKnows'
  BY <1>1, <1>2 DEF AttemptKnows
<1>13. OnlyPosted'
  BY <1>1, <1>2, <1>3, <1>4 DEF OnlyPosted
<1>14. OpKnows'
  BY <1>1, <1>2 DEF OpKnows
<1>15. RejectedSpentNothing'
  <2>1. ASSUME NEW w \in rejected, w[1] \notin forgotten
        PROVE  /\ \A s \in spends' : <<s[1], s[2]>> # w
               /\ \A p \in posts' : <<p[1], p[2]>> = w => ~Live(p)'
    BY <1>1, <1>2, <1>3, <2>1 DEF RejectedSpentNothing
  <2>. QED BY <1>2, <2>1 DEF RejectedSpentNothing
<1>16. Within(journal)'
  BY <1>1, <1>2 DEF Within, OpenAt, SettledAt, Suppresses
<1>17. FlowKnows'
  BY <1>11, <1>12, <1>13, <1>14 DEF FlowKnows
<1>. QED BY <1>8, <1>9, <1>10, <1>15, <1>16, <1>17 DEF IInv

LEMMA AnswerStays ==
  ASSUME IInv, TypeOK', Onward, proc'.answer = proc.answer
  PROVE  AnswerKnows'
<1>1. AnswerKnows
  BY DEF IInv, FlowKnows
<1>2. /\ journal' = journal /\ forgotten' = forgotten /\ proc'.pc = proc.pc /\ proc'.acct = proc.acct
      /\ proc'.bank = proc.bank /\ proc'.attempt = proc.attempt
      /\ \A s \in spends' : s \in spends \/ s \in posts
  BY DEF Onward
<1>3. /\ \A p \in posts' : p \in posts /\ (Live(p)' => Live(p))
      /\ \A r : Dead(r) => Dead(r)'
  BY LessLive
<1>4. Posted' = Posted
  BY <1>2 DEF Posted
<1>. QED BY <1>1, <1>2, <1>3, <1>4 DEF AnswerKnows

(* Steps that leave the flow alone.                                        *)
LEMMA WorldKeeps ==
  ASSUME IInv, TypeOK', Onward, proc' = proc
  PROVE  IInv'
<1>1. AnswerKnows' /\ (proc.pc \in Unsent \cup {"prepare"} => proc'.answer = None)
  BY AnswerStays DEF IInv, FlowKnows, AttemptKnows
<1>. QED BY <1>1, OnwardKeeps

Fates == {"ungranted", "available", "lagging", "redeemed"}

LEMMA CreditChanged ==
  ASSUME TypeOK, NEW a \in Accounts, NEW c \in Credits, NEW v \in Fates,
         credit' = [credit EXCEPT ![a][c] = v]
  PROVE  /\ credit' \in [Accounts -> [Credits -> Fates]]
         /\ \A b \in Accounts, d \in Credits :
              credit'[b][d] = IF b = a /\ d = c THEN v ELSE credit[b][d]
<1>1. credit \in [Accounts -> [Credits -> Fates]]
  BY DEF TypeOK, Fates
<1>. QED BY <1>1

LEMMA QuotaChanged ==
  ASSUME TypeOK, NEW a \in Accounts, quota' = [quota EXCEPT ![a] = @ + 1]
  PROVE  quota' \in [Accounts -> Nat]
BY DEF TypeOK

LEMMA NowIs ==
  ASSUME TypeOK
  PROVE  now \in Nat /\ now <= now /\ MaxCredit \in Nat /\ now <= MaxCredit
BY CapsAssumption DEF TypeOK

LEMMA DeliverKeeps ==
  ASSUME IInv, NEW p \in posts, Deliver(p)
  PROVE  IInv'
<1>. DEFINE a == p[2]
            c == p[3]
            known == \E s \in spends : s[1] = p[1]
            reset == ~known /\ Redeemable(a, c) /\ ~Usable(quota[a])
            code == CASE known -> "AlreadyRedeemed"
                      [] ~known /\ ~Redeemable(a, c) -> "NoCredit"
                      [] ~known /\ Redeemable(a, c) /\ Usable(quota[a]) -> "NothingToReset"
                      [] reset -> "Reset"
<1>1. TypeOK /\ proc \in Proc
  BY DEF IInv, TypeOK
<1>2. p \in Requests \X Accounts \X Credits /\ a \in Accounts /\ c \in Credits
  BY <1>1 DEF TypeOK
<1>3. /\ posts' = posts \ {p}
      /\ spends' = IF reset THEN spends \cup {p} ELSE spends
      /\ credit' = IF reset THEN [credit EXCEPT ![a][c] = "lagging"] ELSE credit
      /\ quota' = IF reset THEN [quota EXCEPT ![a] = @ + 1] ELSE quota
      /\ proc' = IF At("answer") /\ p = Posted THEN [proc EXCEPT !.answer = code] ELSE proc
      /\ journal' = journal /\ due' = due /\ deferred' = deferred /\ forgotten' = forgotten
      /\ store' = store /\ now' = now /\ events' = events /\ rejected' = rejected
  BY DEF Deliver, journalVars
<1>4. /\ code \in Codes
      /\ code \in Refusals => ~known /\ ~reset
      /\ reset => Live(p)
  BY DEF Codes, Refusals, Live
<1>5. reset => credit[a][c] = "available"
  BY DEF Redeemable
<1>. HIDE DEF code, known
<1>6. /\ proc' \in Proc /\ proc'.pc = proc.pc /\ proc'.acct = proc.acct /\ proc'.op = proc.op
      /\ proc'.bank = proc.bank /\ proc'.attempt = proc.attempt
      /\ proc'.answer = proc.answer \/ (proc.pc = "answer" /\ p = Posted /\ proc'.answer = code)
  BY <1>1, <1>3, <1>4 DEF Proc, At
<1>. HIDE DEF reset, a, c
<1>7. /\ credit' \in [Accounts -> [Credits -> Fates]]
      /\ \A b \in Accounts, d \in Credits :
           credit'[b][d] = IF reset /\ b = a /\ d = c THEN "lagging" ELSE credit[b][d]
  <2>1. CASE reset
    <3>1. credit' = [credit EXCEPT ![a][c] = "lagging"] /\ "lagging" \in Fates
      BY <1>3, <2>1 DEF Fates
    <3>2. /\ credit' \in [Accounts -> [Credits -> Fates]]
          /\ \A b \in Accounts, d \in Credits :
               credit'[b][d] = IF b = a /\ d = c THEN "lagging" ELSE credit[b][d]
      BY <1>1, <1>2, <3>1, CreditChanged
    <3>. QED BY <2>1, <3>2
  <2>2. CASE ~reset
    BY <1>1, <1>3, <2>2 DEF TypeOK, Fates
  <2>. QED BY <2>1, <2>2
<1>8. TypeOK'
  <2>1. quota' \in [Accounts -> Nat]
    <3>1. CASE reset
      BY <1>1, <1>2, <1>3, <3>1, QuotaChanged
    <3>2. CASE ~reset
      BY <1>1, <1>3, <3>2 DEF TypeOK
    <3>. QED BY <3>1, <3>2
  <2>2. posts' \cup spends' \subseteq Requests \X Accounts \X Credits
    BY <1>1, <1>2, <1>3 DEF TypeOK
  <2>3. credit' \in [Accounts -> [Credits -> {"ungranted", "available", "lagging", "redeemed"}]]
    BY <1>7 DEF Fates
  <2>. QED BY <1>1, <1>3, <1>6, <2>1, <2>2, <2>3 DEF TypeOK
<1>9. Onward
  <2>1. now <= now' /\ posts' \subseteq posts /\ spends \subseteq spends'
    BY <1>1, <1>3, NowIs
  <2>2. \A s \in spends' : s \in spends \/ (s \in posts /\ Live(s))
    BY <1>3, <1>4
  <2>3. \A b \in Accounts, d \in Credits :
          /\ credit[b][d] # "ungranted" => credit'[b][d] # "ungranted"
          /\ credit[b][d] = "redeemed" => credit'[b][d] = "redeemed"
          /\ credit[b][d] \in {"lagging", "redeemed"} => credit'[b][d] \in {"lagging", "redeemed"}
          /\ credit'[b][d] = "available" => credit[b][d] \in {"available", "ungranted"}
    BY <1>5, <1>7
  <2>. QED BY <1>3, <1>6, <2>1, <2>2, <2>3 DEF Onward
<1>10. AnswerKnows'
  <2>1. CASE proc'.answer = proc.answer
    BY <1>8, <1>9, <2>1, AnswerStays
  <2>2. CASE proc.pc = "answer" /\ p = Posted /\ proc'.answer = code
    <3>1. AnswerKnows /\ OnlyPosted
      BY DEF IInv, FlowKnows
    <3>2. /\ \A q \in posts' : q \in posts /\ q # p /\ (Live(q)' => Live(q))
          /\ Posted' = Posted /\ p[1] = proc.attempt.req
      BY <1>3, <1>6, <1>8, <1>9, <2>2, LessLive DEF Posted
    <3>3. ASSUME ~journal.review, NEW q \in posts', q[2] = proc.acct
          PROVE  ~Live(q)'
      BY <2>2, <3>1, <3>2, <3>3 DEF OnlyPosted
    <3>4. ASSUME proc.attempt.req \notin forgotten, NEW q \in posts'
          PROVE  q[1] # proc.attempt.req
      BY <2>2, <3>1, <3>2, <3>4 DEF AnswerKnows
    <3>5. ASSUME code \in Refusals, proc.attempt.req \notin forgotten
          PROVE  Dead(proc.attempt.req)'
      <4>1. spends' = spends /\ \A s \in spends : s[1] # proc.attempt.req
        BY <1>3, <1>4, <3>2, <3>5 DEF known
      <4>. QED BY <1>6, <3>4, <3>5, <4>1 DEF Dead
    <3>6. /\ proc'.pc = "answer" /\ proc'.acct = proc.acct /\ proc'.attempt = proc.attempt
          /\ proc'.answer = code /\ journal' = journal /\ forgotten' = forgotten
      BY <1>3, <1>6, <2>2
    <3>7. /\ ~journal'.review => \A q \in posts' : q[2] = proc'.acct => ~Live(q)'
          /\ proc'.attempt.req \notin forgotten' => \A q \in posts' : q[1] # proc'.attempt.req
          /\ proc'.answer \in Refusals /\ proc'.attempt.req \notin forgotten' =>
               Dead(proc.attempt.req)'
      BY <3>3, <3>4, <3>5, <3>6
    <3>8. proc'.pc \notin Unsent
      BY <3>6 DEF Unsent
    <3>. QED BY <3>7, <3>8 DEF AnswerKnows
  <2>. QED BY <1>6, <2>1, <2>2
<1>11. proc.pc \in Unsent \cup {"prepare"} => proc'.answer = None
  BY <1>6 DEF IInv, FlowKnows, AttemptKnows, Unsent
<1>. QED BY <1>8, <1>9, <1>10, <1>11, OnwardKeeps

LEMMA LoseKeeps ==
  ASSUME IInv, NEW p \in posts, Lose(p)
  PROVE  IInv'
<1>1. TypeOK
  BY DEF IInv
<1>2. /\ posts' = posts \ {p} /\ proc' = proc
      /\ journal' = journal /\ due' = due /\ deferred' = deferred /\ forgotten' = forgotten
      /\ store' = store /\ credit' = credit /\ quota' = quota /\ now' = now /\ events' = events
      /\ spends' = spends /\ rejected' = rejected
  BY DEF Lose, journalVars, providerVars
<1>3. TypeOK'
  BY <1>1, <1>2 DEF TypeOK
<1>4. Onward
  BY <1>1, <1>2, NowIs DEF Onward
<1>. QED BY <1>2, <1>3, <1>4, WorldKeeps

LEMMA SettleKeeps ==
  ASSUME IInv, NEW a \in Accounts, NEW c \in Credits, Settle(a, c)
  PROVE  IInv'
<1>1. TypeOK
  BY DEF IInv
<1>2. /\ credit[a][c] = "lagging" /\ credit' = [credit EXCEPT ![a][c] = "redeemed"] /\ proc' = proc
      /\ journal' = journal /\ due' = due /\ deferred' = deferred /\ forgotten' = forgotten
      /\ store' = store /\ quota' = quota /\ now' = now /\ events' = events
      /\ posts' = posts /\ spends' = spends /\ rejected' = rejected
  BY DEF Settle, journalVars
<1>3. /\ credit' \in [Accounts -> [Credits -> Fates]]
      /\ \A b \in Accounts, d \in Credits :
           credit'[b][d] = IF b = a /\ d = c THEN "redeemed" ELSE credit[b][d]
  <2>1. "redeemed" \in Fates
    BY DEF Fates
  <2>. QED BY <1>1, <1>2, <2>1, CreditChanged
<1>4. TypeOK'
  BY <1>1, <1>2, <1>3 DEF TypeOK, Fates
<1>5. Onward
  <2>1. \A b \in Accounts, d \in Credits :
          \/ credit'[b][d] = credit[b][d]
          \/ credit[b][d] = "lagging" /\ credit'[b][d] = "redeemed"
    BY <1>2, <1>3
  <2>2. now <= now' /\ posts' \subseteq posts
    BY <1>1, <1>2, NowIs
  <2>. QED BY <1>2, <2>1, <2>2 DEF Onward
<1>. QED BY <1>2, <1>4, <1>5, WorldKeeps

LEMMA OthersKeeps ==
  ASSUME IInv, NEW a \in Accounts, Others(a)
  PROVE  IInv'
<1>1. TypeOK
  BY DEF IInv
<1>2. /\ proc' = proc /\ journal' = journal /\ due' = due /\ deferred' = deferred
      /\ forgotten' = forgotten /\ store' = store /\ now' = now
      /\ events < MaxEvents /\ events' = events + 1
      /\ posts' = posts /\ spends' = spends /\ rejected' = rejected
  BY DEF Others, Event, journalVars
<1>3. events' \in 0..MaxEvents
  BY <1>1, <1>2, CapsAssumption DEF TypeOK
<1>4. quota' \in [Accounts -> Nat]
  <2>1. quota' = quota \/ quota' = [quota EXCEPT ![a] = @ + 1]
    BY DEF Others
  <2>. QED BY <1>1, <2>1, QuotaChanged DEF TypeOK
<1>5. \/ credit' = credit
      \/ \E c \in Credits : credit[a][c] = "available" /\ credit' = [credit EXCEPT ![a][c] = "lagging"]
      \/ \E c \in Credits : credit[a][c] = "ungranted" /\ credit' = [credit EXCEPT ![a][c] = "available"]
  BY DEF Others, Redeemable
<1>6. /\ credit' \in [Accounts -> [Credits -> Fates]]
      /\ \A b \in Accounts, d \in Credits :
           \/ credit'[b][d] = credit[b][d]
           \/ credit[b][d] = "available" /\ credit'[b][d] = "lagging"
           \/ credit[b][d] = "ungranted" /\ credit'[b][d] = "available"
  <2>1. CASE credit' = credit
    BY <1>1, <2>1 DEF TypeOK, Fates
  <2>2. ASSUME NEW c \in Credits, NEW v \in Fates, credit' = [credit EXCEPT ![a][c] = v],
               \/ credit[a][c] = "available" /\ v = "lagging"
               \/ credit[a][c] = "ungranted" /\ v = "available"
        PROVE  /\ credit' \in [Accounts -> [Credits -> Fates]]
               /\ \A b \in Accounts, d \in Credits :
                    \/ credit'[b][d] = credit[b][d]
                    \/ credit[b][d] = "available" /\ credit'[b][d] = "lagging"
                    \/ credit[b][d] = "ungranted" /\ credit'[b][d] = "available"
    <3>1. /\ credit' \in [Accounts -> [Credits -> Fates]]
          /\ \A b \in Accounts, d \in Credits :
               credit'[b][d] = IF b = a /\ d = c THEN v ELSE credit[b][d]
      BY <1>1, <2>2, CreditChanged
    <3>. QED BY <2>2, <3>1
  <2>3. "lagging" \in Fates /\ "available" \in Fates
    BY DEF Fates
  <2>. QED BY <1>5, <2>1, <2>2, <2>3
<1>7. TypeOK'
  BY <1>1, <1>2, <1>3, <1>4, <1>6 DEF TypeOK, Fates
<1>8. Onward
  BY <1>1, <1>2, <1>6, NowIs DEF Onward
<1>. QED BY <1>2, <1>7, <1>8, WorldKeeps

LEMMA TimePassesKeeps ==
  ASSUME IInv, TimePasses
  PROVE  IInv'
<1>1. TypeOK /\ journal \in Journals
  BY AttemptsAre DEF IInv
<1>2. /\ proc' = proc /\ journal' = journal /\ forgotten' = forgotten /\ store' = store
      /\ credit' = credit /\ quota' = quota /\ events' = events
      /\ posts' = posts /\ spends' = spends /\ rejected' = rejected
      /\ due' \in {due, Names(journal)} /\ deferred' \in {deferred, {}}
      /\ now' \in now..now + 1 /\ now' <= MaxCredit
  BY DEF TimePasses
<1>3. Names(journal) \subseteq Requests
  BY <1>1, JournalFields DEF Names, Attempt
<1>4. now' \in 0..MaxCredit /\ now <= now'
  BY <1>1, <1>2, NowIs
<1>5. TypeOK'
  BY <1>1, <1>2, <1>3, <1>4 DEF TypeOK
<1>6. Onward
  BY <1>2, <1>4 DEF Onward
<1>. QED BY <1>2, <1>5, <1>6, WorldKeeps

-----------------------------------------------------------------------------
(* The invariant, and what follows from it.                                *)

LEMMA Initially == Init => IInv
<1>. SUFFICES ASSUME Init
              PROVE  IInv
  OBVIOUS
<1>1. /\ journal = [attempts |-> <<>>, review |-> FALSE] /\ due = {} /\ deferred = {}
      /\ forgotten = {} /\ rejected = {} /\ quota = [a \in Accounts |-> 0] /\ now = 0 /\ events = 0
      /\ proc = Dormant /\ posts = {} /\ spends = {}
  BY DEF Init
<1>2. PICK n \in {MaxCredit, MaxCredit - 1} :
        /\ credit = [a \in Accounts |-> [c \in Credits |-> IF c > n THEN "ungranted"
                                                           ELSE "available"]]
        /\ store = [a \in Accounts |-> 1..n]
  BY DEF Init
<1>3. MaxCredit \in Nat \ {0} /\ MaxEvents \in Nat /\ n \in Nat /\ n <= MaxCredit
  BY CapsAssumption
<1>4. /\ Dormant \in Proc /\ proc.pc = "idle" /\ proc.op = None
      /\ proc.bank.avail = {}
  BY <1>1, DormantIs
<1>5. 1..n \subseteq Credits /\ \A c \in 1..n : ~(c > n)
  BY <1>3 DEF Credits
<1>6. journal.attempts = <<>> /\ Attempts = {}
  BY <1>1 DEF Attempts
<1>7. TypeOK
  <2>1. journal \in [attempts: Seq(Attempt), review: BOOLEAN]
    BY <1>1
  <2>2. \A i, k \in DOMAIN journal.attempts :
          journal.attempts[i].req = journal.attempts[k].req => i = k
    BY <1>6
  <2>3. store \in [Accounts -> SUBSET Credits]
    BY <1>2, <1>5
  <2>4. credit \in [Accounts -> [Credits -> {"ungranted", "available", "lagging", "redeemed"}]]
    BY <1>2
  <2>5. quota \in [Accounts -> Nat] /\ now \in 0..MaxCredit /\ events \in 0..MaxEvents
    BY <1>1, <1>3
  <2>. QED BY <1>1, <1>4, <2>1, <2>2, <2>3, <2>4, <2>5 DEF TypeOK
<1>8. Within(journal)
  <2>1. OpenAt(journal.attempts) = {} /\ SettledAt(journal.attempts) = {}
    BY <1>6 DEF OpenAt, SettledAt
  <2>2. Cardinality({}) = 0
    BY FS_EmptySet
  <2>3. 0 <= UnresolvedCap /\ 0 <= TerminalCap
    BY CapsAssumption
  <2>. QED BY <2>1, <2>2, <2>3 DEF Within
<1>9. AttemptsTrue(Attempts)
  BY <1>1, <1>6 DEF AttemptsTrue, Journalled, PresGranted, LiveOpen, UsableSpent, NotApplied
<1>10. CreditsGranted
  <2>1. \A a \in Accounts : Granted(a, store[a])
    BY <1>2, <1>5 DEF Granted
  <2>. QED BY <1>1, <1>4, <2>1 DEF CreditsGranted, Granted
<1>11. OneLive /\ RejectedSpentNothing
  BY <1>1 DEF OneLive, RejectedSpentNothing
<1>12. FlowKnows
  BY <1>4 DEF FlowKnows, BankKnows, AttemptKnows, OnlyPosted, AnswerKnows, OpKnows, Attempting, Unsent
<1>. QED BY <1>7, <1>8, <1>9, <1>10, <1>11, <1>12 DEF IInv

LEMMA Stuttering == IInv /\ UNCHANGED vars => IInv'
<1>. SUFFICES ASSUME IInv, UNCHANGED vars
              PROVE  IInv'
  OBVIOUS
<1>1. TypeOK
  BY DEF IInv
<1>2. /\ journal' = journal /\ due' = due /\ deferred' = deferred /\ forgotten' = forgotten
      /\ store' = store /\ proc' = proc /\ credit' = credit /\ quota' = quota /\ now' = now
      /\ events' = events /\ posts' = posts /\ spends' = spends /\ rejected' = rejected
  BY DEF vars, journalVars, providerVars
<1>3. TypeOK'
  BY <1>1, <1>2 DEF TypeOK
<1>4. Onward
  BY <1>1, <1>2, NowIs DEF Onward
<1>. QED BY <1>2, <1>3, <1>4, WorldKeeps

LEMMA Inductive == IInv /\ [Next]_vars => IInv'
<1>. SUFFICES ASSUME IInv, [Next]_vars
              PROVE  IInv'
  OBVIOUS
<1>1. CASE \E a \in Accounts : StartDaemon(a) \/ \E r \in Operations : StartRequest(a, r)
  BY <1>1, StartDaemonKeeps, StartRequestKeeps
<1>2. CASE PrepareResumed \/ PrepareExternal \/ PrepareSubmit \/ PrepareNothing
  BY <1>2, PrepareResumedKeeps, PrepareExternalKeeps, PrepareSubmitKeeps, PrepareNothingKeeps
<1>3. CASE Authorize \/ Inventory \/ Mark \/ Post \/ PostRefused \/ RecordAnswer
  BY <1>3, AuthorizeKeeps, InventoryKeeps, MarkKeeps, PostKeeps, PostRefusedKeeps, RecordAnswerKeeps
<1>4. CASE Refetch \/ ReconcileSettled \/ Reconcile \/ Commit \/ Report
  BY <1>4, RefetchKeeps, ReconcileSettledKeeps, ReconcileKeeps, CommitKeeps, ReportKeeps
<1>5. CASE Interrupted \/ Crash \/ TimePasses
  BY <1>5, InterruptedKeeps, CrashKeeps, TimePassesKeeps
<1>6. CASE Provider
  BY <1>6, DeliverKeeps, LoseKeeps, SettleKeeps, OthersKeeps DEF Provider
<1>7. CASE UNCHANGED vars
  BY <1>7, Stuttering
<1>. QED BY <1>1, <1>2, <1>3, <1>4, <1>5, <1>6, <1>7 DEF Next, Step

LEMMA Invariance == Spec => []IInv
BY Initially, Inductive, PTL DEF Spec

(* What the journal, the flow and the provider hold is what the types say, *)
(* and no request is in the journal twice, whatever the updates, saves and *)
(* prunings of rate_limit_resets.rs do.                                    *)
THEOREM TypeCorrect == Spec => []TypeOK
<1>1. IInv => TypeOK
  BY DEF IInv
<1>. QED BY Invariance, <1>1, PTL

(* At most one consume request that could still spend a credit of an       *)
(* account is in flight, through crashes, lost answers and late            *)
(* deliveries, and the journal suppresses every other redemption of the    *)
(* account while it is (AttemptJournal.suppresses).                        *)
THEOREM PostsAlone == Spec => []OneLivePost
<1>1. IInv => OneLivePost
  <2>. SUFFICES ASSUME IInv
                PROVE  OneLivePost
    OBVIOUS
  <2>1. OneLive /\ LiveOpen(Attempts)
    BY DEF IInv, AttemptsTrue
  <2>. QED BY <2>1 DEF OneLive, LiveOpen, OneLivePost
<1>. QED BY Invariance, <1>1, PTL

(* An attempt reconciled as usable spent its credit, and a request that    *)
(* was reported as rejected spent none and will not: reconcile_attempt and *)
(* RedeemResetFailureEnvelope say what is true of the provider.            *)
THEOREM TellsTrue == Spec => []ReportsTrue
<1>1. IInv => ReportsTrue
  <2>. SUFFICES ASSUME IInv
                PROVE  ReportsTrue
    OBVIOUS
  <2>1. UsableSpent(Attempts) /\ RejectedSpentNothing
    BY DEF IInv, AttemptsTrue
  <2>. QED BY <2>1 DEF UsableSpent, UsableMeansSpent, ReportsTrue
<1>. QED BY Invariance, <1>1, PTL
=============================================================================
