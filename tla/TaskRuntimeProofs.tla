------------------------- MODULE TaskRuntimeProofs -------------------------
(***************************************************************************)
(* Proofs about TaskRuntime, for any number of coordinators, operations    *)
(* and attempts: what happens to an operation, then what the ledger's rows *)
(* guarantee about calls, seconds and dollars, over all sessions and       *)
(* crashes.                                                                *)
(*                                                                         *)
(* What is proved about the operations rests on DistinctIds: the string an *)
(* operation id is hashed from tells the key and the attempt.  The code    *)
(* does not see to it, "1" + "11" being "11" + "1": it is for callers to   *)
(* name their keys so.                                                     *)
(***************************************************************************)
EXTENDS TaskRuntime, FiniteSetTheorems, WellFoundedInduction, TLAPS

DistinctIds ==
    \A k, l \in Keys, m, n \in 0..MaxSteps :
        OperationId(k, m) = OperationId(l, n) => k = l /\ m = n

\* A coordinator performs an operation; its row is in the ledger.
Active == {"admitted", "journaled", "calling", "landed", "answered"}
Flight == {"journaled", "calling", "landed", "answered"}

-----------------------------------------------------------------------------
(* Sums of sequences of any length.  The induction theorems of the library *)
(* are about an operator; here the induction is over a set of numbers,     *)
(* with the least number that is not in it as the counterexample.          *)

LEMMA LeastNumber ==
    ASSUME NEW S \in SUBSET Nat, S # {}
    PROVE  \E m \in S : \A k \in S : m <= k
<1> DEFINE R == OpToRel(<, Nat)
<1>1. \A x, y \in Nat : <<y, x>> \in R <=> y < x
  BY Zenon DEF OpToRel
<1>2. IsWellFoundedOn(R, Nat)
  BY Zenon, NatLessThanWellFounded
<1> HIDE DEF R
<1>3. PICK x \in S : \A y \in S : ~ (<<y, x>> \in R)
  BY <1>2, WFMin
<1>4. \A y \in S : ~ (y < x)
  BY <1>1, <1>3
<1>5. ASSUME NEW y \in S PROVE x <= y
  <2>1. x \in Nat /\ y \in Nat
    OBVIOUS
  <2> QED BY <1>4, <2>1
<1> QED BY <1>5

LEMMA SetInduction ==
    ASSUME NEW S, 0 \in S, \A n \in Nat : n \in S => n + 1 \in S
    PROVE  Nat \subseteq S
<1> SUFFICES ASSUME Nat \ S # {} PROVE FALSE
  OBVIOUS
<1>1. PICK m \in Nat \ S : \A k \in Nat \ S : m <= k
  BY LeastNumber
<1>2. m # 0 /\ m - 1 \in Nat /\ m - 1 \in S
  BY <1>1
<1> QED BY <1>1, <1>2

-----------------------------------------------------------------------------
(* The function of the sums of all prefixes exists, and is the only one.   *)

Prefix(f, d, n) == f = [i \in 0..n |-> IF i = 0 THEN 0 ELSE f[i - 1] + d[i]]

Numbers(d, n) == \A i \in 1..n : d[i] \in Nat

LEMMA PrefixExists ==
    ASSUME NEW n \in Nat, NEW d, Numbers(d, n)
    PROVE  \E f \in [0..n -> Nat] : Prefix(f, d, n)
<1> DEFINE S == {m \in Nat : m <= n => \E f \in [0..m -> Nat] : Prefix(f, d, m)}
<1>1. 0 \in S
  <2> DEFINE f == [i \in 0..0 |-> 0]
  <2>1. f \in [0..0 -> Nat] /\ Prefix(f, d, 0)
    BY DEF Prefix
  <2> QED BY <2>1
<1>2. ASSUME NEW m \in Nat, m \in S PROVE m + 1 \in S
  <2> SUFFICES ASSUME m + 1 <= n
               PROVE  \E g \in [0..(m + 1) -> Nat] : Prefix(g, d, m + 1)
    OBVIOUS
  <2>1. PICK f \in [0..m -> Nat] : Prefix(f, d, m)
    BY <1>2
  <2> DEFINE g == [i \in 0..(m + 1) |-> IF i = m + 1 THEN f[m] + d[m + 1] ELSE f[i]]
  <2>2. d[m + 1] \in Nat /\ f[m] \in Nat
    BY DEF Numbers
  <2>3. g \in [0..(m + 1) -> Nat]
    BY <2>2
  <2>4. ASSUME NEW i \in 0..(m + 1)
        PROVE  g[i] = IF i = 0 THEN 0 ELSE g[i - 1] + d[i]
    <3>1. CASE i = m + 1
      BY <3>1
    <3>2. CASE i \in 0..m
      <4>1. f[i] = IF i = 0 THEN 0 ELSE f[i - 1] + d[i]
        BY <2>1, <3>2 DEF Prefix
      <4>2. i # 0 => g[i - 1] = f[i - 1]
        BY <3>2
      <4> QED BY <3>2, <4>1, <4>2
    <3> QED BY <3>1, <3>2
  <2> HIDE DEF g
  <2>5. Prefix(g, d, m + 1)
    BY <2>3, <2>4 DEF Prefix
  <2> QED BY <2>3, <2>5
<1>3. n \in S
  <2> HIDE DEF S
  <2> QED BY <1>1, <1>2, SetInduction
<1> QED BY <1>3

\* Two of them agree as far as their summands do.
LEMMA PrefixAgree ==
    ASSUME NEW n \in Nat, NEW d, NEW f, Prefix(f, d, n),
           NEW m \in Nat, NEW e, NEW g, Prefix(g, e, m),
           NEW k \in Nat, k <= n, k <= m, \A i \in 1..k : d[i] = e[i]
    PROVE  f[k] = g[k]
<1> DEFINE S == {i \in Nat : i <= k => f[i] = g[i]}
<1>1. 0 \in S
  BY DEF Prefix
<1>2. ASSUME NEW i \in Nat, i \in S PROVE i + 1 \in S
  <2> SUFFICES ASSUME i + 1 <= k PROVE f[i + 1] = g[i + 1]
    OBVIOUS
  <2>1. f[i] = g[i] /\ d[i + 1] = e[i + 1]
    BY <1>2
  <2>2. f[i + 1] = f[(i + 1) - 1] + d[i + 1] /\ g[i + 1] = g[(i + 1) - 1] + e[i + 1]
    BY DEF Prefix
  <2> QED BY <2>1, <2>2
<1>3. k \in S
  <2> HIDE DEF S
  <2> QED BY <1>1, <1>2, SetInduction
<1> QED BY <1>3

LEMMA SumIsPrefix ==
    ASSUME NEW n \in Nat, NEW d, NEW f, Prefix(f, d, n)
    PROVE  SumTo(d, n) = f[n]
<1> DEFINE P(g) == g = [i \in 0..n |-> IF i = 0 THEN 0 ELSE g[i - 1] + d[i]]
<1> DEFINE h == CHOOSE g : P(g)
<1>1. P(f)
  BY DEF Prefix
<1>2. P(h)
  <2> HIDE DEF P
  <2> QED BY <1>1
<1>3. SumTo(d, n) = h[n]
  BY DEF SumTo
<1>4. Prefix(h, d, n)
  BY <1>2 DEF Prefix
<1> HIDE DEF h
<1> QED BY <1>3, <1>4, PrefixAgree

-----------------------------------------------------------------------------
(* The facts other modules use.                                            *)

LEMMA SumType ==
    ASSUME NEW n \in Nat, NEW d, Numbers(d, n)
    PROVE  SumTo(d, n) \in Nat
BY PrefixExists, SumIsPrefix

LEMMA SumZero ==
    ASSUME NEW d
    PROVE  SumTo(d, 0) = 0
<1>1. Numbers(d, 0)
  BY DEF Numbers
<1>2. PICK f \in [0..0 -> Nat] : Prefix(f, d, 0)
  BY <1>1, PrefixExists
<1>3. f[0] = 0
  BY <1>2 DEF Prefix
<1> QED BY <1>2, <1>3, SumIsPrefix

LEMMA SumSame ==
    ASSUME NEW n \in Nat, NEW d, NEW e, Numbers(d, n), Numbers(e, n),
           \A i \in 1..n : d[i] = e[i]
    PROVE  SumTo(d, n) = SumTo(e, n)
<1>1. PICK f \in [0..n -> Nat] : Prefix(f, d, n)
  BY PrefixExists
<1>2. PICK g \in [0..n -> Nat] : Prefix(g, e, n)
  BY PrefixExists
<1> QED BY <1>1, <1>2, PrefixAgree, SumIsPrefix

LEMMA SumNext ==
    ASSUME NEW n \in Nat, NEW d, Numbers(d, n + 1)
    PROVE  SumTo(d, n + 1) = SumTo(d, n) + d[n + 1]
<1>1. Numbers(d, n)
  BY DEF Numbers
<1>2. PICK f \in [0..(n + 1) -> Nat] : Prefix(f, d, n + 1)
  BY PrefixExists
<1>3. PICK g \in [0..n -> Nat] : Prefix(g, d, n)
  BY <1>1, PrefixExists
<1>4. f[n] = g[n]
  BY <1>2, <1>3, PrefixAgree
<1>5. f[n + 1] = f[(n + 1) - 1] + d[n + 1]
  BY <1>2 DEF Prefix
<1> QED BY <1>2, <1>3, <1>4, <1>5, SumIsPrefix

\* One summand is replaced.
LEMMA SumChange ==
    ASSUME NEW n \in Nat, NEW d, NEW e, Numbers(d, n), Numbers(e, n),
           NEW j \in 1..n, \A i \in (1..n) \ {j} : d[i] = e[i]
    PROVE  SumTo(e, n) = SumTo(d, n) - d[j] + e[j]
<1> DEFINE S == {m \in Nat : j <= m /\ m <= n =>
                    SumTo(e, m) = SumTo(d, m) - d[j] + e[j]}
<1>1. 0 \in S
  OBVIOUS
<1>2. ASSUME NEW m \in Nat, m \in S PROVE m + 1 \in S
  <2> SUFFICES ASSUME j <= m + 1, m + 1 <= n
               PROVE  SumTo(e, m + 1) = SumTo(d, m + 1) - d[j] + e[j]
    OBVIOUS
  <2>1. /\ Numbers(d, m + 1) /\ Numbers(e, m + 1)
        /\ Numbers(d, m) /\ Numbers(e, m)
        /\ d[j] \in Nat /\ e[j] \in Nat /\ d[m + 1] \in Nat /\ e[m + 1] \in Nat
    BY DEF Numbers
  <2>2. /\ SumTo(d, m + 1) = SumTo(d, m) + d[m + 1]
        /\ SumTo(e, m + 1) = SumTo(e, m) + e[m + 1]
        /\ SumTo(d, m) \in Nat /\ SumTo(e, m) \in Nat
    BY <2>1, SumNext, SumType
  <2>3. CASE j = m + 1
    <3>1. SumTo(d, m) = SumTo(e, m)
      BY <2>1, <2>3, SumSame
    <3> QED BY <2>1, <2>2, <2>3, <3>1
  <2>4. CASE j <= m
    <3>1. SumTo(e, m) = SumTo(d, m) - d[j] + e[j]
      BY <1>2, <2>4
    <3>2. d[m + 1] = e[m + 1]
      BY <2>4
    <3> QED BY <2>1, <2>2, <3>1, <3>2
  <2> QED BY <2>3, <2>4
<1>3. n \in S
  <2> HIDE DEF S
  <2> QED BY <1>1, <1>2, SetInduction
<1> QED BY <1>3

-----------------------------------------------------------------------------
(* Sums and sets of rows.                                                  *)

Charges == [i \in DOMAIN ops |-> Charged(ops[i])]

LEMMA LimitTypes ==
    /\ MaxSteps \in Nat /\ MaxCalls \in Nat /\ MaxCost \in Nat
    /\ ReserveCost \in Nat /\ Wall \in Nat /\ CallSeconds \in Nat
    /\ MaxUse \in Nat /\ MaxLive \in Nat
BY LimitsAssumption

LEMMA RowFields ==
    ASSUME NEW r \in RowType
    PROVE  /\ r.id \in Ids /\ r.key \in Keys /\ r.request \in Requests
           /\ r.status \in Statuses /\ r.reserved \in Nat /\ r.elapsed \in Nat
           /\ r.cost \in Nat /\ r.use \in Nat
BY DEF RowType

LEMMA Rows ==
    ASSUME TypeOK
    PROVE  /\ Len(ops) \in Nat /\ DOMAIN ops = 1..Len(ops)
           /\ \A i \in 1..Len(ops) : ops[i] \in RowType
BY DEF TypeOK

LEMMA ChargedType ==
    ASSUME NEW r \in RowType
    PROVE  Charged(r) \in Nat
BY DEF RowType, Charged, Larger

LEMMA ChargesType ==
    ASSUME TypeOK
    PROVE  /\ Len(ops) \in Nat /\ DOMAIN ops = 1..Len(ops)
           /\ Numbers(Charges, Len(ops))
           /\ Len(Charges) = Len(ops)
           /\ SumTo(Charges, Len(ops)) \in Nat
           /\ ChargedTotal = SumTo(Charges, Len(ops)) + overhead
           /\ ChargedTotal \in Nat
<1>1. ops \in Seq(RowType) /\ Len(ops) \in Nat /\ DOMAIN ops = 1..Len(ops)
      /\ overhead \in Nat
  BY DEF TypeOK
<1>2. \A i \in 1..Len(ops) : ops[i] \in RowType /\ Charges[i] = Charged(ops[i])
  BY <1>1 DEF Charges
<1>3. Numbers(Charges, Len(ops))
  BY <1>2, ChargedType DEF Numbers
<1>4. Len(Charges) = Len(ops)
  BY <1>1 DEF Charges
<1>5. SumTo(Charges, Len(ops)) \in Nat
  BY <1>1, <1>3, SumType
<1>6. ChargedTotal = SumTo(Charges, Len(ops)) + overhead
  BY <1>4 DEF ChargedTotal, SumOf, Charges
<1> QED BY <1>1, <1>3, <1>4, <1>5, <1>6

LEMMA RemainingType ==
    ASSUME TypeOK
    PROVE  /\ Remaining \in Nat
           /\ Remaining > 0 => ChargedTotal + Remaining <= Wall
BY ChargesType, LimitTypes DEF TypeOK, Remaining, Larger

LEMMA ObservedType ==
    ASSUME TypeOK
    PROVE  Observed \in Nat
<1> DEFINE d == [i \in DOMAIN ops |-> IF ops[i].id \in existing THEN 0 ELSE ops[i].elapsed]
<1>1. ops \in Seq(RowType) /\ Len(ops) \in Nat /\ DOMAIN ops = 1..Len(ops)
  BY DEF TypeOK
<1>2. \A i \in 1..Len(ops) : ops[i].elapsed \in Nat
  BY Rows, RowFields
<1>3. Numbers(d, Len(ops)) /\ Len(d) = Len(ops)
  BY <1>1, <1>2 DEF Numbers
<1>4. SumTo(d, Len(ops)) \in Nat
  BY <1>1, <1>3, SumType
<1>5. Observed = SumOf(d)
  BY DEF Observed
<1> HIDE DEF d
<1> QED BY <1>3, <1>4, <1>5 DEF SumOf

\* The attempts under a key are finitely many, and no more than there are rows.
LEMMA PriorFinite ==
    ASSUME TypeOK, NEW k
    PROVE  /\ IsFiniteSet(Prior(k)) /\ Cardinality(Prior(k)) \in Nat
           /\ Cardinality(Prior(k)) <= Len(ops)
           /\ Prior(k) \subseteq 1..Len(ops)
<1>1. Len(ops) \in Nat
  BY DEF TypeOK
<1>2. Prior(k) \subseteq 1..Len(ops)
  BY DEF Prior, AttemptsOf
<1>3. IsFiniteSet(1..Len(ops)) /\ Cardinality(1..Len(ops)) = Len(ops)
  <2>1. /\ IsFiniteSet(1..Len(ops))
        /\ Cardinality(1..Len(ops)) = IF 1 > Len(ops) THEN 0 ELSE Len(ops) - 1 + 1
    BY <1>1, FS_Interval
  <2> QED BY <1>1, <2>1
<1> QED BY <1>2, <1>3, FS_Subset, FS_CardinalityType

-----------------------------------------------------------------------------
(* Types, and the lock.                                                    *)

\* Whoever is past the lock holds it, and performs a row that has its type.
LockInv ==
    \A p \in Procs :
        /\ pc[p] # "out" => holder = p
        /\ pc[p] \in Active => cur[p] \in RowType

LEMMA OneCoordinator ==
    ASSUME LockInv, NEW p \in Procs, NEW q \in Procs, pc[p] # "out", pc[q] # "out"
    PROVE  p = q
BY DEF LockInv

LEMMA PutType ==
    ASSUME NEW rows \in Seq(RowType), NEW r \in RowType
    PROVE  Put(rows, r) \in Seq(RowType)
BY DEF Put

\* The row perform() makes, and what the function's end makes of it.
LEMMA AdmitRow ==
    ASSUME TypeOK, NEW p \in Procs, NEW k \in Keys, NEW q \in Requests, Admit(p, k, q)
    PROVE  /\ cur'[p] \in RowType
           /\ cur'[p].id = OperationId(k, Cardinality(Prior(k)))
           /\ cur'[p].key = k /\ cur'[p].status = "running"
           /\ cur'[p].reserved <= Remaining /\ cur'[p].elapsed = 0
           /\ cur' = [cur EXCEPT ![p] = cur'[p]]
<1>1. Cardinality(Prior(k)) \in 0..MaxSteps
  BY PriorFinite, LimitTypes DEF Admit, Allowed, TypeOK
<1>2. OperationId(k, Cardinality(Prior(k))) \in Ids
  BY <1>1 DEF Ids
<1>3. Smaller(CallSeconds, Remaining) \in Nat /\ Smaller(CallSeconds, Remaining) <= Remaining
  BY RemainingType, LimitTypes DEF Smaller
<1> DEFINE r == [id |-> OperationId(k, Cardinality(Prior(k))), key |-> k,
                 request |-> q, status |-> "running",
                 reserved |-> Smaller(CallSeconds, Remaining), elapsed |-> 0,
                 cost |-> IF KindOf[k] = "model" THEN ReserveCost ELSE 0,
                 use |-> 0]
<1>4. r \in RowType
  BY <1>2, <1>3, LimitTypes DEF RowType, Statuses
<1>5. cur' = [cur EXCEPT ![p] = r]
  BY DEF Admit
<1>6. cur'[p] = r
  BY <1>5 DEF TypeOK
<1>7. /\ r.id = OperationId(k, Cardinality(Prior(k))) /\ r.key = k
      /\ r.status = "running" /\ r.elapsed = 0
      /\ r.reserved = Smaller(CallSeconds, Remaining)
  OBVIOUS
<1> HIDE DEF r
<1> QED BY <1>3, <1>4, <1>5, <1>6, <1>7

LEMMA FinishRow ==
    ASSUME TypeOK, LockInv, NEW p \in Procs, NEW s \in Statuses,
           NEW e \in 0..CallSeconds, NEW u \in 0..MaxUse, Finish(p, s, e, u)
    PROVE  /\ cur'[p] \in RowType
           /\ cur'[p].id = cur[p].id /\ cur'[p].key = cur[p].key
           /\ cur'[p].reserved = cur[p].reserved
           /\ cur'[p].status = s /\ cur'[p].elapsed = e
           /\ cur' = [cur EXCEPT ![p] = cur'[p]]
<1> DEFINE r == [cur[p] EXCEPT !.status = s, !.elapsed = e, !.use = u]
<1>1. cur[p] \in RowType
  BY DEF Finish, LockInv, Active
<1>2. e \in Nat /\ u \in Nat
  BY LimitTypes
<1>3. /\ r \in RowType /\ r.id = cur[p].id /\ r.key = cur[p].key
      /\ r.reserved = cur[p].reserved /\ r.status = s /\ r.elapsed = e
  BY <1>1, <1>2 DEF RowType
<1>4. cur' = [cur EXCEPT ![p] = r]
  BY DEF Finish
<1>5. cur'[p] = r
  BY <1>4 DEF TypeOK
<1> QED BY <1>3, <1>4, <1>5

LEMMA TypeStep == TypeOK /\ LockInv /\ [Next]_vars => TypeOK'
<1> SUFFICES ASSUME TypeOK, LockInv, [Next]_vars PROVE TypeOK'
  OBVIOUS
<1> USE LimitTypes
<1>1. ASSUME NEW p \in Procs, Enter(p) PROVE TypeOK'
  BY <1>1 DEF TypeOK, Enter, journal, session, world
<1>2. ASSUME NEW p \in Procs, NEW i \in DOMAIN ops, Recover(p, i) PROVE TypeOK'
  <2>1. ops[i] \in RowType
    BY DEF TypeOK
  <2>2. [ops[i] EXCEPT !.status = "uncertain"] \in RowType
    BY <2>1 DEF RowType, Statuses
  <2>3. ops' \in Seq(RowType)
    BY <1>2, <2>1, <2>2 DEF Recover, TypeOK
  <2> QED BY <1>2, <2>3 DEF TypeOK, Recover, session, world
<1>3. ASSUME NEW p \in Procs, Start(p) PROVE TypeOK'
  <2>1. prior' \in Nat
    BY <1>3, ChargesType DEF Start
  <2>2. existing' \subseteq Ids
    <3>1. \A i \in DOMAIN ops : ops[i].id \in Ids
      BY Rows, RowFields
    <3> QED BY <1>3, <3>1 DEF Start
  <2> QED BY <1>3, <2>1, <2>2 DEF TypeOK, Start, journal, world
<1>4. ASSUME NEW p \in Procs, Tick(p) PROVE TypeOK'
  BY <1>4 DEF TypeOK, Tick, journal, world
<1>5. ASSUME Cancel PROVE TypeOK'
  BY <1>5 DEF TypeOK, Cancel, journal, session, world
<1>6. ASSUME NEW p \in Procs, NEW k \in Keys, NEW q \in Requests, Reconcile(p, k, q)
      PROVE  TypeOK'
  <2>1. PICK i \in Prior(k) :
           ops' = [ops EXCEPT ![i] = [ops[i] EXCEPT !.status = "done",
                                                    !.elapsed = Charged(ops[i])]]
    BY <1>6 DEF Reconcile
  <2>2. i \in DOMAIN ops /\ ops[i] \in RowType /\ Charged(ops[i]) \in Nat
    BY ChargedType DEF Prior, AttemptsOf, TypeOK
  <2>3. [ops[i] EXCEPT !.status = "done", !.elapsed = Charged(ops[i])] \in RowType
    BY <2>2 DEF RowType, Statuses
  <2>4. ops' \in Seq(RowType)
    BY <2>1, <2>2, <2>3 DEF TypeOK
  <2> QED BY <1>6, <2>4 DEF TypeOK, Reconcile, session, world
<1>7. ASSUME NEW p \in Procs, NEW k \in Keys, NEW q \in Requests, Admit(p, k, q)
      PROVE  TypeOK'
  <2>1. cur' \in [Procs -> RowType \cup {NoRow}]
    BY <1>7, AdmitRow DEF TypeOK
  <2> QED BY <1>7, <2>1 DEF TypeOK, Admit, journal, session, world
<1>8. ASSUME NEW p \in Procs, Journal(p) PROVE TypeOK'
  <2>1. ops' \in Seq(RowType)
    BY <1>8, PutType DEF Journal, TypeOK, LockInv, Active
  <2> QED BY <1>8, <2>1 DEF TypeOK, Journal, session, world
<1>9. ASSUME NEW p \in Procs, JournalFails(p) \/ RetainFails(p) \/ RecordFails(p)
      PROVE  TypeOK'
  BY <1>9 DEF TypeOK, JournalFails, RetainFails, RecordFails, journal, session, world
<1>10. ASSUME NEW p \in Procs, Call(p) PROVE TypeOK'
  <2>1. cur[p].key \in Keys
    BY <1>10 DEF Call, LockInv, Active, RowType
  <2>2. calls' \in [Keys -> Nat] /\ late' \in Nat
    BY <1>10, <2>1 DEF TypeOK, Call
  <2> QED BY <1>10, <2>2 DEF TypeOK, Call, journal, session
<1>11. ASSUME NEW p \in Procs, Land(p) PROVE TypeOK'
  <2>1. cur[p].key \in Keys
    BY <1>11 DEF Land, LockInv, Active, RowType
  <2>2. applied' \in [Keys -> Nat]
    BY <1>11, <2>1 DEF TypeOK, Land
  <2> QED BY <1>11, <2>2 DEF TypeOK, Land, journal, session
<1>12. ASSUME NEW p \in Procs, NEW s \in Statuses, NEW e \in 0..CallSeconds,
              NEW u \in 0..MaxUse, Finish(p, s, e, u)
       PROVE  TypeOK'
  <2>3. cur' \in [Procs -> RowType \cup {NoRow}]
    BY <1>12, FinishRow DEF TypeOK
  <2>4. live' \in Nat /\ spent' \in Nat
    <3>1. /\ e \in Nat /\ live \in Nat /\ spent \in Nat
          /\ live' = live + e /\ spent' = spent + e
      BY <1>12 DEF Finish, TypeOK
    <3> QED BY <3>1
  <2> QED BY <1>12, <2>3, <2>4 DEF TypeOK, Finish, journal
<1>13. ASSUME NEW p \in Procs, Record(p) PROVE TypeOK'
  <2>1. ops' \in Seq(RowType)
    BY <1>13, PutType DEF Record, TypeOK, LockInv, Active
  <2> QED BY <1>13, <2>1 DEF TypeOK, Record, session, world
<1>14. ASSUME NEW p \in Procs, Leave(p) PROVE TypeOK'
  <2>1. overhead' \in Nat
    BY <1>14, ObservedType DEF Leave, TypeOK, Larger
  <2> QED BY <1>14, <2>1 DEF TypeOK, Leave, session, world
<1>15. ASSUME NEW p \in Procs, LeaveFails(p) PROVE TypeOK'
  BY <1>15 DEF TypeOK, LeaveFails, journal, session, world
<1>16. ASSUME NEW p \in Procs, NEW e \in 0..CallSeconds, Crash(p, e) PROVE TypeOK'
  BY <1>16 DEF TypeOK, Crash, journal, session
<1>17. CASE UNCHANGED vars
  BY <1>17 DEF TypeOK, vars, session, world
<1> QED
  BY <1>1, <1>2, <1>3, <1>4, <1>5, <1>6, <1>7, <1>8, <1>9, <1>10, <1>11,
     <1>12, <1>13, <1>14, <1>15, <1>16, <1>17 DEF Next, Perform

LEMMA LockStep == TypeOK /\ LockInv /\ [Next]_vars => LockInv'
<1> SUFFICES ASSUME TypeOK, LockInv, [Next]_vars PROVE LockInv'
  OBVIOUS
<1> USE DEF Active
<1>0. pc \in [Procs -> {"out", "recover", "in", "admitted", "journaled",
                       "calling", "landed", "answered"}]
      /\ cur \in [Procs -> RowType \cup {NoRow}]
  BY DEF TypeOK
<1>1. ASSUME NEW p \in Procs, Enter(p) PROVE LockInv'
  BY <1>0, <1>1, ProcsAssumption DEF LockInv, Enter
<1>2. ASSUME NEW p \in Procs, NEW i \in DOMAIN ops, Recover(p, i) PROVE LockInv'
  BY <1>2 DEF LockInv, Recover
<1>3. ASSUME NEW p \in Procs, Start(p) PROVE LockInv'
  BY <1>0, <1>3 DEF LockInv, Start
<1>4. ASSUME NEW p \in Procs, Tick(p) PROVE LockInv'
  BY <1>4 DEF LockInv, Tick
<1>5. ASSUME Cancel PROVE LockInv'
  BY <1>5 DEF LockInv, Cancel
<1>6. ASSUME NEW p \in Procs, NEW k \in Keys, NEW q \in Requests, Reconcile(p, k, q)
      PROVE  LockInv'
  BY <1>6 DEF LockInv, Reconcile
<1>7. ASSUME NEW p \in Procs, NEW k \in Keys, NEW q \in Requests, Admit(p, k, q)
      PROVE  LockInv'
  BY <1>0, <1>7, AdmitRow DEF LockInv, Admit
<1>8. ASSUME NEW p \in Procs, Journal(p) PROVE LockInv'
  BY <1>0, <1>8 DEF LockInv, Journal
<1>9. ASSUME NEW p \in Procs, JournalFails(p) \/ RetainFails(p) \/ RecordFails(p) \/ Record(p)
      PROVE  LockInv'
  BY <1>0, <1>9 DEF LockInv, JournalFails, RetainFails, RecordFails, Record
<1>10. ASSUME NEW p \in Procs, Call(p) \/ Land(p) PROVE LockInv'
  BY <1>0, <1>10 DEF LockInv, Call, Land
<1>12. ASSUME NEW p \in Procs, NEW s \in Statuses, NEW e \in 0..CallSeconds,
              NEW u \in 0..MaxUse, Finish(p, s, e, u)
       PROVE  LockInv'
  BY <1>0, <1>12, FinishRow DEF LockInv, Finish
<1>14. ASSUME NEW p \in Procs, Leave(p) \/ LeaveFails(p) PROVE LockInv'
  BY <1>0, <1>14 DEF LockInv, Leave, LeaveFails
<1>16. ASSUME NEW p \in Procs, NEW e \in 0..CallSeconds, Crash(p, e) PROVE LockInv'
  BY <1>0, <1>16 DEF LockInv, Crash
<1>17. CASE UNCHANGED vars
  BY <1>17 DEF LockInv, vars
<1> QED
  BY <1>1, <1>2, <1>3, <1>4, <1>5, <1>6, <1>7, <1>8, <1>9, <1>10,
     <1>12, <1>14, <1>16, <1>17 DEF Next, Perform

LEMMA InitTypes == Init => TypeOK /\ LockInv
<1> SUFFICES ASSUME Init PROVE TypeOK /\ LockInv
  OBVIOUS
<1>1. TypeOK
  <2>1. ops \in Seq(RowType)
    BY DEF Init
  <2>2. /\ pc \in [Procs -> {"out", "recover", "in", "admitted", "journaled",
                             "calling", "landed", "answered"}]
        /\ cur \in [Procs -> RowType \cup {NoRow}]
        /\ applied \in [Keys -> Nat] /\ calls \in [Keys -> Nat]
    BY DEF Init
  <2> QED BY <2>1, <2>2 DEF Init, TypeOK
<1>2. LockInv
  BY DEF Init, LockInv, Active
<1> QED BY <1>1, <1>2

\* The state has its declared type, in every state of every instance: the sum
\* of the charges, the allowance left and the number of attempts are natural
\* numbers (task_runtime.totals and remaining).
THEOREM TypeCorrect == Spec => []TypeOK
<1>1. TypeOK /\ LockInv /\ [Next]_vars => (TypeOK /\ LockInv)'
  BY TypeStep, LockStep
<1> QED BY <1>1, InitTypes, PTL DEF Spec

-----------------------------------------------------------------------------
(* The ledger's rows.                                                      *)

\* No id is used twice, and the id of a row is that of its key and the number
\* of some attempt there has been.
RowsInv ==
    /\ Len(ops) <= MaxSteps
    /\ \A i, j \in 1..Len(ops) : ops[i].id = ops[j].id => i = j
    /\ \A i \in 1..Len(ops) : \E n \in 0..MaxSteps :
           /\ n < Cardinality(Prior(ops[i].key))
           /\ ops[i].id = OperationId(ops[i].key, n)

\* The operation being performed is the next attempt under its key; once it
\* is journaled, its row is the last one, and still says running.
CurInv ==
    \A p \in Procs :
        /\ pc[p] \in Active => ~Done(cur[p].key)
        /\ pc[p] \in Active => cur[p].elapsed <= cur[p].reserved
        /\ pc[p] \in Active \ {"answered"} =>
              cur[p].status = "running" /\ cur[p].elapsed = 0
        /\ pc[p] = "answered" => cur[p].status # "running"
        /\ pc[p] = "admitted" =>
              /\ Len(ops) < MaxSteps
              /\ cur[p].id = OperationId(cur[p].key, Cardinality(Prior(cur[p].key)))
        /\ pc[p] \in Flight =>
              /\ Len(ops) > 0
              /\ ops[Len(ops)].id = cur[p].id
              /\ ops[Len(ops)].key = cur[p].key
              /\ ops[Len(ops)].status = "running"
              /\ ops[Len(ops)].reserved = cur[p].reserved
              /\ ops[Len(ops)].elapsed = 0

Basis == TypeOK /\ LockInv /\ RowsInv /\ CurInv

\* Appending a row adds an attempt to its key.
LEMMA AppendedAttempts ==
    ASSUME NEW rows \in Seq(RowType), NEW r \in RowType
    PROVE  /\ Len(rows) \in Nat
           /\ Len(Append(rows, r)) = Len(rows) + 1
           /\ \A i \in 1..Len(rows) : Append(rows, r)[i] = rows[i]
           /\ Append(rows, r)[Len(rows) + 1] = r
           /\ \A k : AttemptsOf(Append(rows, r), k) =
                       IF k = r.key THEN AttemptsOf(rows, k) \cup {Len(rows) + 1}
                       ELSE AttemptsOf(rows, k)
           /\ Cardinality(AttemptsOf(rows, r.key)) \in Nat
           /\ Cardinality(AttemptsOf(Append(rows, r), r.key)) =
                 Cardinality(AttemptsOf(rows, r.key)) + 1
<1>1. /\ Len(rows) \in Nat /\ Len(Append(rows, r)) = Len(rows) + 1
      /\ \A i \in 1..Len(rows) : Append(rows, r)[i] = rows[i]
      /\ Append(rows, r)[Len(rows) + 1] = r
  OBVIOUS
<1>2. ASSUME NEW k
      PROVE  AttemptsOf(Append(rows, r), k) =
               IF k = r.key THEN AttemptsOf(rows, k) \cup {Len(rows) + 1}
               ELSE AttemptsOf(rows, k)
  BY <1>1 DEF AttemptsOf
<1> DEFINE S == AttemptsOf(rows, r.key)
<1>3. S \subseteq 1..Len(rows) /\ IsFiniteSet(S)
  <2>1. IsFiniteSet(1..Len(rows))
    BY <1>1, FS_Interval
  <2> QED BY <2>1, FS_Subset DEF AttemptsOf
<1>4. Len(rows) + 1 \notin S
  BY <1>1, <1>3
<1>5. Cardinality(S \cup {Len(rows) + 1}) = Cardinality(S) + 1 /\ Cardinality(S) \in Nat
  BY <1>3, <1>4, FS_AddElement, FS_CardinalityType
<1> QED BY <1>1, <1>2, <1>5

\* Put appends the row of a new attempt, and restates the row of this one.
LEMMA JournalAppends ==
    ASSUME DistinctIds, Basis, NEW p \in Procs, Journal(p)
    PROVE  cur[p] \in RowType /\ ops' = Append(ops, cur[p])
<1>1. /\ cur[p] \in RowType /\ cur[p].key \in Keys /\ pc[p] = "admitted"
      /\ Len(ops) \in Nat
  BY RowFields, Rows DEF Basis, Journal, LockInv, Active
<1> DEFINE n == Cardinality(Prior(cur[p].key))
<1>2. cur[p].id = OperationId(cur[p].key, n)
  BY <1>1 DEF Basis, CurInv
<1>3. n \in 0..MaxSteps
  BY <1>1, PriorFinite, LimitTypes DEF Basis, RowsInv
<1>4. ASSUME NEW i \in 1..Len(ops) PROVE ops[i].id # cur[p].id
  <2>1. ops[i].key \in Keys
    BY Rows, RowFields DEF Basis
  <2>2. PICK m \in 0..MaxSteps : /\ m < Cardinality(Prior(ops[i].key))
                                /\ ops[i].id = OperationId(ops[i].key, m)
    BY DEF Basis, RowsInv
  <2>3. SUFFICES ASSUME ops[i].id = cur[p].id PROVE FALSE
    OBVIOUS
  <2>4. ops[i].key = cur[p].key /\ m = n
    <3>1. OperationId(ops[i].key, m) = OperationId(cur[p].key, n)
      BY <1>2, <2>2, <2>3
    <3> HIDE DEF n
    <3> QED BY <1>1, <1>3, <2>1, <3>1 DEF DistinctIds
  <2>5. n < n /\ n \in Nat
    BY <1>3, <2>2, <2>4, LimitTypes
  <2> QED BY <2>5
<1>5. Put(ops, cur[p]) = Append(ops, cur[p])
  BY <1>4 DEF Put
<1> QED BY <1>1, <1>5 DEF Journal

LEMMA RecordRestates ==
    ASSUME Basis, NEW p \in Procs, Record(p)
    PROVE  /\ cur[p] \in RowType /\ Len(ops) \in 1..Len(ops)
           /\ cur[p].id = ops[Len(ops)].id /\ cur[p].key = ops[Len(ops)].key
           /\ ops' = [ops EXCEPT ![Len(ops)] = cur[p]]
<1>1. /\ cur[p] \in RowType /\ pc[p] = "answered" /\ Len(ops) \in 1..Len(ops)
      /\ cur[p].id = ops[Len(ops)].id /\ cur[p].key = ops[Len(ops)].key
      /\ DOMAIN ops = 1..Len(ops) /\ ops = [i \in 1..Len(ops) |-> ops[i]]
  BY Rows DEF Basis, Record, LockInv, CurInv, Active, Flight, TypeOK
<1>2. \A i \in 1..Len(ops) : ops[i].id = cur[p].id <=> i = Len(ops)
  BY <1>1 DEF Basis, RowsInv
<1>3. Put(ops, cur[p]) = [i \in 1..Len(ops) |-> IF ops[i].id = cur[p].id
                                               THEN cur[p] ELSE ops[i]]
  BY <1>1 DEF Put
<1>4. Put(ops, cur[p]) = [ops EXCEPT ![Len(ops)] = cur[p]]
  BY <1>1, <1>2, <1>3
<1> QED BY <1>1, <1>4 DEF Record

\* What a step can do to the rows: nothing, restate one whose outcome was not
\* known, or append the one that was admitted.
Restates(i, r) ==
    /\ r \in RowType
    /\ ops' = [ops EXCEPT ![i] = r]
    /\ r.id = ops[i].id /\ r.key = ops[i].key
    /\ ops[i].status \in {"running", "uncertain"}

\* Such a restatement outside an operation: what the attempt is charged, and
\* what it cost, stays.
Corrects(i, r) ==
    /\ Restates(i, r)
    /\ Charged(r) = Charged(ops[i])
    /\ r.cost = ops[i].cost /\ r.use = ops[i].use

LEMMA RowsSteps ==
    ASSUME Basis, [Next]_vars
    PROVE  \/ ops' = ops
           \/ \E i \in 1..Len(ops), r \in RowType : Corrects(i, r)
           \/ \E p \in Procs : Journal(p) \/ Record(p)
<1> DEFINE Goal == \/ ops' = ops
                  \/ \E i \in 1..Len(ops), r \in RowType : Corrects(i, r)
                  \/ \E p \in Procs : Journal(p) \/ Record(p)
<1>1. ASSUME NEW p \in Procs, NEW i \in DOMAIN ops, Recover(p, i) PROVE Goal
  <2> DEFINE r == [ops[i] EXCEPT !.status = "uncertain"]
  <2>1. ops[i] \in RowType /\ i \in 1..Len(ops)
    BY Rows DEF Basis
  <2>2. /\ r \in RowType /\ r.id = ops[i].id /\ r.key = ops[i].key
        /\ r.cost = ops[i].cost /\ r.use = ops[i].use /\ r.elapsed = ops[i].elapsed
        /\ r.reserved = ops[i].reserved /\ r.status = "uncertain"
    BY <2>1 DEF RowType, Statuses
  <2>3. Restates(i, r) /\ ops[i].status = "running"
    BY <1>1, <2>2 DEF Restates, Recover, Running
  <2>4. Charged(r) = Charged(ops[i])
    BY <2>2, <2>3 DEF Charged
  <2> HIDE DEF r
  <2> QED BY <2>1, <2>2, <2>3, <2>4 DEF Corrects
<1>2. ASSUME NEW p \in Procs, NEW k \in Keys, NEW q \in Requests, Reconcile(p, k, q)
      PROVE  Goal
  <2>1. PICK i \in Prior(k) :
           /\ IsLast(i, k)
           /\ ops' = [ops EXCEPT ![i] = [ops[i] EXCEPT !.status = "done",
                                                    !.elapsed = Charged(ops[i])]]
    BY <1>2 DEF Reconcile
  <2> DEFINE r == [ops[i] EXCEPT !.status = "done", !.elapsed = Charged(ops[i])]
  <2>2. ops[i] \in RowType /\ i \in 1..Len(ops) /\ Charged(ops[i]) \in Nat
    BY Rows, ChargedType DEF Basis, Prior, AttemptsOf
  <2>3. /\ r \in RowType /\ r.id = ops[i].id /\ r.key = ops[i].key
        /\ r.cost = ops[i].cost /\ r.use = ops[i].use
        /\ r.elapsed = Charged(ops[i]) /\ r.status = "done"
    BY <2>2 DEF RowType, Statuses
  <2>4. ops[i].status = "uncertain"
    <3>1. PICK j \in Prior(k) : IsLast(j, k) /\ ops[j].status = "uncertain"
      BY <1>2 DEF Reconcile, Uncertain
    <3>2. i \in Nat /\ j \in Nat /\ i <= j /\ j <= i
      BY <2>1, <3>1 DEF IsLast, Prior, AttemptsOf
    <3> QED BY <3>1, <3>2
  <2>5. Restates(i, r)
    BY <2>1, <2>3, <2>4 DEF Restates
  <2>6. Charged(r) = Charged(ops[i])
    BY <2>3 DEF Charged
  <2> HIDE DEF r
  <2> QED BY <2>2, <2>3, <2>5, <2>6 DEF Corrects
<1>4. ASSUME NEW p \in Procs, Enter(p) \/ Start(p) \/ Tick(p) \/ Leave(p) \/ LeaveFails(p)
      PROVE  Goal
  BY <1>4 DEF Enter, Start, Tick, Leave, LeaveFails, journal
<1>5. ASSUME NEW p \in Procs,
             \/ JournalFails(p) \/ RetainFails(p) \/ RecordFails(p) \/ Call(p) \/ Land(p)
             \/ \E k \in Keys, q \in Requests : Admit(p, k, q)
             \/ \E s \in Statuses, e \in 0..CallSeconds, u \in 0..MaxUse : Finish(p, s, e, u)
             \/ \E e \in 0..CallSeconds : Crash(p, e)
      PROVE  Goal
  BY <1>5 DEF JournalFails, RetainFails, RecordFails, Call, Land, Admit, Finish, Crash, journal
<1>6. CASE Cancel \/ UNCHANGED vars
  BY <1>6 DEF Cancel, vars, journal
<1> QED BY <1>1, <1>2, <1>4, <1>5, <1>6 DEF Next, Perform

LEMMA RowsStep ==
    ASSUME Basis, [Next]_vars
    PROVE  \/ ops' = ops
           \/ \E i \in 1..Len(ops), r \in RowType : Restates(i, r)
           \/ \E p \in Procs : Journal(p)
<1>1. ASSUME NEW p \in Procs, Record(p)
      PROVE  \E i \in 1..Len(ops), r \in RowType : Restates(i, r)
  <2>1. ops[Len(ops)].status = "running"
    BY <1>1 DEF Record, Basis, CurInv, Flight
  <2>2. Restates(Len(ops), cur[p])
    BY <1>1, <2>1, RecordRestates DEF Restates
  <2> QED BY <1>1, <2>2, RecordRestates
<1> QED BY <1>1, RowsSteps DEF Corrects

LEMMA RowsInvStep ==
    ASSUME DistinctIds, Basis, [Next]_vars
    PROVE  RowsInv'
<1>0. TypeOK /\ LockInv /\ RowsInv /\ CurInv /\ Len(ops) \in Nat /\ ops \in Seq(RowType)
  BY Rows DEF Basis, TypeOK
<1>1. CASE ops' = ops
  BY <1>0, <1>1 DEF RowsInv, Prior
<1>2. ASSUME NEW i \in 1..Len(ops), NEW r \in RowType, Restates(i, r) PROVE RowsInv'
  <2>1. /\ Len(ops') = Len(ops)
        /\ \A j \in 1..Len(ops) : ops'[j] = IF j = i THEN r ELSE ops[j]
        /\ \A k : AttemptsOf(ops', k) = AttemptsOf(ops, k)
    <3>1. ops' = [ops EXCEPT ![i] = r] /\ r.key = ops[i].key
      BY <1>2 DEF Restates
    <3>2. /\ Len(ops') = Len(ops)
          /\ \A j \in 1..Len(ops) : ops'[j] = IF j = i THEN r ELSE ops[j]
      BY <1>0, <3>1
    <3> QED BY <3>1, <3>2 DEF AttemptsOf
  <2>2. \A j \in 1..Len(ops) : ops'[j].id = ops[j].id /\ ops'[j].key = ops[j].key
    BY <1>2, <2>1 DEF Restates
  <2> QED BY <1>0, <2>1, <2>2 DEF RowsInv, Prior
<1>3. ASSUME NEW p \in Procs, Journal(p) PROVE RowsInv'
  <2>1. PICK r \in RowType : r = cur[p] /\ ops' = Append(ops, r)
    BY <1>3, JournalAppends
  <2> DEFINE c == Cardinality(AttemptsOf(ops, r.key))
  <2>2. /\ Len(ops') = Len(ops) + 1
        /\ \A i \in 1..Len(ops) : ops'[i] = ops[i]
        /\ ops'[Len(ops) + 1] = r
        /\ \A k : k # r.key => AttemptsOf(ops', k) = AttemptsOf(ops, k)
        /\ Cardinality(AttemptsOf(ops', r.key)) = c + 1
    BY <1>0, <2>1, AppendedAttempts
  <2>3. r.id = OperationId(r.key, c) /\ Len(ops) < MaxSteps
    BY <1>0, <1>3, <2>1 DEF Journal, CurInv, Prior
  <2>4. c \in 0..MaxSteps
    BY <1>0, PriorFinite, LimitTypes, <2>3 DEF Prior
  <2> HIDE DEF c
  <2>5. ASSUME NEW i \in 1..Len(ops')
        PROVE  \E n \in 0..MaxSteps : /\ n < Cardinality(AttemptsOf(ops', ops'[i].key))
                                      /\ ops'[i].id = OperationId(ops'[i].key, n)
    <3>1. CASE i = Len(ops) + 1
      BY <2>2, <2>3, <2>4, <3>1
    <3>2. CASE i \in 1..Len(ops)
      <4>1. PICK n \in 0..MaxSteps : /\ n < Cardinality(AttemptsOf(ops, ops[i].key))
                                    /\ ops[i].id = OperationId(ops[i].key, n)
        BY <1>0, <3>2 DEF RowsInv, Prior
      <4>2. CASE ops[i].key = r.key
        <5>1. n < c + 1
          BY <2>4, <4>1, <4>2 DEF c
        <5> QED BY <2>2, <3>2, <4>1, <4>2, <5>1
      <4>3. CASE ops[i].key # r.key
        BY <2>2, <3>2, <4>1, <4>3
      <4> QED BY <4>2, <4>3
    <3> QED BY <1>0, <2>2, <3>1, <3>2
  <2>6. ASSUME NEW i \in 1..Len(ops), ops[i].id = r.id PROVE FALSE
    <3>1. PICK n \in 0..MaxSteps : /\ n < Cardinality(AttemptsOf(ops, ops[i].key))
                                  /\ ops[i].id = OperationId(ops[i].key, n)
      BY <1>0 DEF RowsInv, Prior
    <3>2. ops[i].key \in Keys /\ r.key \in Keys
      BY <1>0, <2>1, Rows, RowFields
    <3>3. OperationId(ops[i].key, n) = OperationId(r.key, c)
      BY <2>3, <2>6, <3>1
    <3>4. ops[i].key = r.key /\ n = c
      BY <2>4, <3>2, <3>3 DEF DistinctIds
    <3>5. c < c
      BY <3>1, <3>4 DEF c
    <3> QED BY <2>4, <3>5, LimitTypes
  <2>7. \A i, j \in 1..Len(ops') : ops'[i].id = ops'[j].id => i = j
    BY <1>0, <2>2, <2>6 DEF RowsInv
  <2>8. Len(ops') <= MaxSteps
    BY <1>0, <2>2, <2>3, LimitTypes
  <2> QED BY <2>5, <2>7, <2>8 DEF RowsInv, Prior
<1> QED BY <1>1, <1>2, <1>3, RowsStep

\* A step to a place where no operation is performed.
LEMMA QuietStep ==
    ASSUME TypeOK, LockInv, NEW p \in Procs, pc[p] # "out",
           NEW s \in {"out", "recover", "in"}, pc' = [pc EXCEPT ![p] = s]
    PROVE  CurInv'
<1>1. ASSUME NEW q \in Procs PROVE pc'[q] \notin Active
  <2>1. pc \in [Procs -> {"out", "recover", "in", "admitted", "journaled",
                          "calling", "landed", "answered"}]
    BY DEF TypeOK
  <2>2. CASE q = p
    BY <2>1, <2>2 DEF Active
  <2>3. CASE q # p
    BY <2>1, <2>3, OneCoordinator DEF Active
  <2> QED BY <2>2, <2>3
<1> QED BY <1>1 DEF CurInv, Active, Flight

LEMMA CurInvStep ==
    ASSUME DistinctIds, Basis, [Next]_vars
    PROVE  CurInv'
<1>0. /\ TypeOK /\ LockInv /\ RowsInv /\ CurInv
      /\ Len(ops) \in Nat /\ ops \in Seq(RowType)
      /\ pc \in [Procs -> {"out", "recover", "in", "admitted", "journaled",
                           "calling", "landed", "answered"}]
  BY Rows DEF Basis, TypeOK
<1>1. ASSUME NEW p \in Procs, Enter(p) PROVE CurInv'
  <2>1. \A q \in Procs : pc[q] = "out"
    BY <1>0, <1>1, ProcsAssumption DEF Enter, LockInv
  <2>2. \A q \in Procs : pc'[q] \notin Active
    BY <1>0, <1>1, <2>1 DEF Enter, Active
  <2> QED BY <2>2 DEF CurInv, Active, Flight
<1>2. ASSUME NEW p \in Procs, Start(p) \/ Leave(p) \/ LeaveFails(p) \/ Record(p)
                 \/ JournalFails(p) \/ RetainFails(p) \/ RecordFails(p)
                 \/ \E e \in 0..CallSeconds : Crash(p, e)
      PROVE  CurInv'
  <2>1. pc[p] # "out" /\ \E s \in {"out", "recover", "in"} : pc' = [pc EXCEPT ![p] = s]
    BY <1>2 DEF Start, Leave, LeaveFails, Record, JournalFails, RetainFails,
               RecordFails, Crash
  <2> QED BY <1>0, <2>1, QuietStep
<1>3. ASSUME NEW p \in Procs, pc[p] \in {"recover", "in"}, pc' = pc PROVE CurInv'
  <2>1. pc' = [pc EXCEPT ![p] = pc[p]] /\ pc[p] # "out"
    BY <1>0, <1>3
  <2> QED BY <1>0, <1>3, <2>1, QuietStep
<1>4. ASSUME NEW p \in Procs,
             \/ Tick(p) \/ \E i \in DOMAIN ops : Recover(p, i)
             \/ \E k \in Keys, q \in Requests : Reconcile(p, k, q)
      PROVE  CurInv'
  BY <1>3, <1>4 DEF Tick, Recover, Reconcile
<1>5. CASE Cancel \/ UNCHANGED vars
  BY <1>0, <1>5 DEF CurInv, Cancel, vars, journal, Done, Prior
<1>6. ASSUME NEW p \in Procs, pc[p] # "out", NEW s, pc' = [pc EXCEPT ![p] = s],
             NEW q \in Procs, pc'[q] \in Active
      PROVE  q = p /\ pc'[q] = s
  BY <1>0, <1>6, OneCoordinator DEF Active
<1>7. ASSUME NEW p \in Procs, NEW k \in Keys, NEW q \in Requests, Admit(p, k, q)
      PROVE  CurInv'
  <2>1. /\ pc[p] # "out" /\ pc' = [pc EXCEPT ![p] = "admitted"]
        /\ ops' = ops /\ ~Done(k) /\ Len(ops) < MaxSteps
    BY <1>7 DEF Admit, journal, MayAttempt, Allowed
  <2>2. /\ cur'[p].key = k /\ cur'[p].status = "running"
        /\ cur'[p].elapsed = 0 /\ cur'[p].reserved \in Nat
        /\ cur'[p].id = OperationId(k, Cardinality(Prior(k)))
    BY <1>0, <1>7, AdmitRow, RowFields
  <2>3. ~Done(k)' /\ Prior(k)' = Prior(k)
    BY <2>1 DEF Done, Prior
  <2>4. ASSUME NEW o \in Procs, pc'[o] \in Active PROVE o = p /\ pc'[o] = "admitted"
    BY <1>6, <2>1, <2>4
  <2>5. /\ ~Done(cur[p].key)'
        /\ cur'[p].elapsed <= cur'[p].reserved
        /\ cur'[p].status = "running" /\ cur'[p].elapsed = 0
        /\ Len(ops') < MaxSteps
        /\ cur'[p].id = OperationId(cur'[p].key, Cardinality(Prior(cur[p].key)'))
    BY <2>1, <2>2, <2>3
  <2> QED BY <2>4, <2>5 DEF CurInv, Active, Flight
<1>8. ASSUME NEW p \in Procs, Journal(p) PROVE CurInv'
  <2>1. PICK r \in RowType : r = cur[p] /\ ops' = Append(ops, r)
    BY <1>8, JournalAppends
  <2>2. /\ pc[p] = "admitted" /\ pc' = [pc EXCEPT ![p] = "journaled"] /\ cur' = cur
    BY <1>8 DEF Journal
  <2>3. /\ Len(ops') = Len(ops) + 1 /\ ops'[Len(ops) + 1] = r
        /\ \A i \in 1..Len(ops) : ops'[i] = ops[i]
    BY <1>0, <2>1, AppendedAttempts
  <2>4. /\ ~Done(r.key) /\ r.status = "running" /\ r.elapsed = 0
        /\ r.elapsed <= r.reserved
    BY <1>0, <2>1, <2>2 DEF CurInv, Active
  <2>5. \A i \in 1..Len(ops') : ops'[i].key = r.key => ops'[i].status # "done"
    <3>1. \A i \in 1..Len(ops) : ops[i].key = r.key => ops[i].status # "done"
      BY <2>4 DEF Done, Prior, AttemptsOf
    <3> QED BY <1>0, <2>3, <2>4, <3>1
  <2>6. ~Done(cur[p].key)'
    BY <2>1, <2>2, <2>5 DEF Done, Prior, AttemptsOf
  <2>7. ASSUME NEW o \in Procs, pc'[o] \in Active PROVE o = p /\ pc'[o] = "journaled"
    BY <1>6, <2>2, <2>7
  <2>8. /\ cur'[p].elapsed <= cur'[p].reserved
        /\ cur'[p].status = "running" /\ cur'[p].elapsed = 0
        /\ Len(ops') > 0 /\ ops'[Len(ops')].id = cur'[p].id
        /\ ops'[Len(ops')].key = cur'[p].key
        /\ ops'[Len(ops')].status = "running"
        /\ ops'[Len(ops')].reserved = cur'[p].reserved
        /\ ops'[Len(ops')].elapsed = 0
    BY <1>0, <2>1, <2>2, <2>3, <2>4
  <2> QED BY <2>6, <2>7, <2>8 DEF CurInv, Active, Flight
<1>9. ASSUME NEW p \in Procs, Call(p) \/ Land(p) PROVE CurInv'
  <2>1. /\ pc[p] \in {"journaled", "calling"} /\ ops' = ops /\ cur' = cur
        /\ \E s \in {"calling", "landed"} : pc' = [pc EXCEPT ![p] = s]
    BY <1>9 DEF Call, Land, journal
  <2>2. ASSUME NEW o \in Procs, pc'[o] \in Active
        PROVE  o = p /\ pc'[o] \in {"calling", "landed"}
    BY <1>6, <2>1, <2>2
  <2>3. ~Done(cur[p].key)'
    BY <1>0, <2>1 DEF CurInv, Active, Done, Prior
  <2> QED BY <1>0, <2>1, <2>2, <2>3 DEF CurInv, Active, Flight
<1>10. ASSUME NEW p \in Procs, NEW s \in Statuses, NEW e \in 0..CallSeconds,
              NEW u \in 0..MaxUse, Finish(p, s, e, u)
       PROVE  CurInv'
  <2>1. /\ pc[p] \in {"calling", "landed"} /\ ops' = ops
        /\ pc' = [pc EXCEPT ![p] = "answered"] /\ e <= cur[p].reserved
        /\ s # "running"
    BY <1>10 DEF Finish, Outcomes, journal
  <2>2. /\ cur'[p].id = cur[p].id /\ cur'[p].key = cur[p].key
        /\ cur'[p].reserved = cur[p].reserved /\ cur'[p].elapsed = e
        /\ cur'[p].status = s
    BY <1>0, <1>10, FinishRow
  <2>3. ASSUME NEW o \in Procs, pc'[o] \in Active PROVE o = p /\ pc'[o] = "answered"
    BY <1>6, <2>1, <2>3
  <2>4. ~Done(cur[p].key)'
    BY <1>0, <2>1, <2>2 DEF CurInv, Active, Done, Prior
  <2> QED BY <1>0, <2>1, <2>2, <2>3, <2>4 DEF CurInv, Active, Flight
<1> QED
  BY <1>1, <1>2, <1>4, <1>5, <1>7, <1>8, <1>9, <1>10 DEF Next, Perform

LEMMA BasisInit == Init => Basis
<1> SUFFICES ASSUME Init PROVE Basis
  OBVIOUS
<1>1. ops = <<>> /\ Len(ops) = 0
  BY DEF Init
<1>2. RowsInv
  BY <1>1, LimitTypes DEF RowsInv
<1>3. \A p \in Procs : pc[p] = "out"
  BY DEF Init
<1>4. CurInv
  BY <1>3 DEF CurInv, Active, Flight
<1> QED BY <1>2, <1>4, InitTypes DEF Basis

LEMMA BasisStep == DistinctIds /\ Basis /\ [Next]_vars => (DistinctIds /\ Basis)'
BY TypeStep, LockStep, RowsInvStep, CurInvStep DEF Basis, DistinctIds

\* As long as ids tell operations apart, rows and coordinators agree.
THEOREM RowsAgree == DistinctIds /\ Spec => []Basis
BY BasisInit, BasisStep, PTL DEF Spec

-----------------------------------------------------------------------------
(* Completed operations replay.                                            *)

\* Only Call calls.
LEMMA CallsStep ==
    ASSUME [Next]_vars
    PROVE  calls' = calls \/ \E p \in Procs : Call(p)
<1>2. ASSUME NEW p \in Procs,
             \/ Enter(p) \/ Start(p) \/ Tick(p) \/ Leave(p) \/ LeaveFails(p)
             \/ Journal(p) \/ JournalFails(p) \/ RetainFails(p) \/ Land(p)
             \/ Record(p) \/ RecordFails(p)
      PROVE  calls' = calls
  BY <1>2 DEF Enter, Start, Tick, Leave, LeaveFails, Journal, JournalFails,
             RetainFails, Land, Record, RecordFails, world
<1>3. ASSUME NEW p \in Procs,
             \/ \E i \in DOMAIN ops : Recover(p, i)
             \/ \E l \in Keys, q \in Requests : Reconcile(p, l, q) \/ Admit(p, l, q)
             \/ \E s \in Statuses, e \in 0..CallSeconds, u \in 0..MaxUse : Finish(p, s, e, u)
             \/ \E e \in 0..CallSeconds : Crash(p, e)
      PROVE  calls' = calls
  BY <1>3 DEF Recover, Reconcile, Admit, Finish, Crash, world
<1>4. CASE Cancel \/ UNCHANGED vars
  BY <1>4 DEF Cancel, vars, world
<1> QED BY <1>2, <1>3, <1>4 DEF Next, Perform

LEMMA DoneStep ==
    ASSUME DistinctIds, Basis, [Next]_vars, NEW k \in Keys, Done(k)
    PROVE  Done(k)' /\ calls'[k] = calls[k]
<1>0. TypeOK /\ LockInv /\ CurInv /\ Len(ops) \in Nat /\ ops \in Seq(RowType)
  BY Rows DEF Basis, TypeOK
<1>1. PICK i \in 1..Len(ops) : ops[i].key = k /\ ops[i].status = "done"
  BY DEF Done, Prior, AttemptsOf
<1>2. i \in 1..Len(ops') /\ ops'[i] = ops[i]
  <2>1. ASSUME NEW j \in 1..Len(ops), NEW r \in RowType, Restates(j, r)
        PROVE  i \in 1..Len(ops') /\ ops'[i] = ops[i]
    BY <1>0, <1>1, <2>1 DEF Restates
  <2>2. ASSUME NEW p \in Procs, Journal(p)
        PROVE  i \in 1..Len(ops') /\ ops'[i] = ops[i]
    <3>1. PICK r \in RowType : ops' = Append(ops, r)
      BY <2>2, JournalAppends
    <3>2. Len(ops') = Len(ops) + 1 /\ \A j \in 1..Len(ops) : ops'[j] = ops[j]
      BY <1>0, <3>1, AppendedAttempts
    <3> QED BY <1>0, <3>2
  <2> QED BY <2>1, <2>2, RowsStep
<1>3. Done(k)'
  BY <1>1, <1>2 DEF Done, Prior, AttemptsOf
<1>4. calls'[k] = calls[k]
  <2>1. ASSUME NEW p \in Procs, Call(p) PROVE calls'[k] = calls[k]
    <3>1. cur[p].key # k
      BY <1>0, <2>1 DEF Call, CurInv, Active
    <3> QED BY <1>0, <2>1, <3>1 DEF Call, TypeOK
  <2> QED BY <2>1, CallsStep
<1> QED BY <1>3, <1>4

\* An operation recorded as done stays so, and is never called again, through
\* every crash and retry: "Completed operations replay by identity"
\* (task_runtime.py).
THEOREM DoneStays == DistinctIds /\ Spec => DoneReplays
<1>1. DistinctIds /\ Basis /\ [Next]_vars =>
          [\A k \in Keys : Done(k) => Done(k)' /\ calls'[k] = calls[k]]_vars
  BY DoneStep
<1> QED BY <1>1, BasisInit, BasisStep, PTL DEF Spec, DoneReplays

-----------------------------------------------------------------------------
(* Cancellation.                                                           *)

\* Nothing was called late before cancel(), and whoever is about to call is
\* the first to do so after it.
LateInv ==
    /\ late <= 1
    /\ ~cancelled => late = 0
    /\ \A p \in Procs : pc[p] \in {"admitted", "journaled"} => late = 0

LEMMA LateStep == TypeOK /\ LockInv /\ LateInv /\ [Next]_vars => LateInv'
<1> SUFFICES ASSUME TypeOK, LockInv, LateInv, [Next]_vars PROVE LateInv'
  OBVIOUS
<1>0. /\ pc \in [Procs -> {"out", "recover", "in", "admitted", "journaled",
                           "calling", "landed", "answered"}]
      /\ late \in Nat
  BY DEF TypeOK
<1>1. ASSUME NEW p \in Procs, Enter(p) \/ Start(p) \/ Leave(p) \/ LeaveFails(p)
                 \/ JournalFails(p) \/ RetainFails(p) \/ Record(p) \/ RecordFails(p)
                 \/ Land(p) \/ Journal(p)
      PROVE  LateInv'
  BY <1>0, <1>1 DEF LateInv, Enter, Start, Leave, LeaveFails, JournalFails,
     RetainFails, Record, RecordFails, Land, Journal, world
<1>2. ASSUME NEW p \in Procs,
             \/ \E e \in 0..CallSeconds : Crash(p, e)
             \/ \E s \in Statuses, e \in 0..CallSeconds, u \in 0..MaxUse : Finish(p, s, e, u)
      PROVE  LateInv'
  BY <1>0, <1>2 DEF LateInv, Finish, Crash
<1>3. ASSUME NEW p \in Procs,
             \/ Tick(p) \/ \E i \in DOMAIN ops : Recover(p, i)
             \/ \E k \in Keys, q \in Requests : Reconcile(p, k, q)
      PROVE  LateInv'
  BY <1>3 DEF LateInv, Tick, Recover, Reconcile, world
<1>4. ASSUME NEW p \in Procs, NEW k \in Keys, NEW q \in Requests, Admit(p, k, q)
      PROVE  LateInv'
  BY <1>0, <1>4 DEF LateInv, Admit, Allowed, world
<1>5. ASSUME NEW p \in Procs, Call(p) PROVE LateInv'
  <2>1. late = 0 /\ pc[p] = "journaled" /\ pc' = [pc EXCEPT ![p] = "calling"]
        /\ cancelled' = cancelled /\ late' = IF cancelled THEN late + 1 ELSE late
    BY <1>5 DEF LateInv, Call
  <2>2. \A q \in Procs : q # p => pc[q] = "out"
    BY <2>1, OneCoordinator
  <2>3. \A q \in Procs : pc'[q] \notin {"admitted", "journaled"}
    BY <1>0, <2>1, <2>2
  <2> QED BY <2>1, <2>3 DEF LateInv, TypeOK
<1>6. CASE Cancel \/ UNCHANGED vars
  BY <1>6 DEF LateInv, Cancel, vars, world
<1> QED BY <1>1, <1>2, <1>3, <1>4, <1>5, <1>6 DEF Next, Perform

\* However the coordinators and the canceller interleave, one call at most
\* begins after cancel(): the one admitted before it (perform reads the
\* cancel file before it admits, not again before it calls).
THEOREM CancelStopsCalls == Spec => []CancelHolds
<1>1. Init => LateInv
  BY DEF Init, LateInv
<1>2. LateInv => CancelHolds
  BY DEF LateInv, CancelHolds
<1> QED BY <1>1, <1>2, LateStep, InitTypes, TypeStep, LockStep, PTL DEF Spec

-----------------------------------------------------------------------------
(* The effect of a mutation lands once at most.                            *)
(*                                                                         *)
(* A hypothesis about I/O: a coordinator whose outcome row cannot be       *)
(* written, or whose result cannot be stored after the effect, dies        *)
(* instead of going on.  With either fault in Faults, MCTaskRuntime        *)
(* violates AppliedOnce.                                                   *)

NoLostRow == Faults \cap {"ledger", "publish"} = {}

\* The last row under a key has one of these statuses.
LastSays(k, S) ==
    \A i \in AttemptsOf(ops, k) :
        (\A j \in AttemptsOf(ops, k) : j <= i) => ops[i].status \in S

\* A coordinator is past recovery, and not in the middle of this operation.
Settled(p, k) == pc[p] = "in" \/ (pc[p] \in Active /\ cur[p].key # k)

\* Once the effect has landed, the last row under the key does not say that
\* the attempt failed; outside recovery it does not say running either.
\* Nobody who may still call the function does so for an effect that landed.
Effect(k) ==
    /\ applied[k] \in {0, 1}
    /\ applied[k] = 1 =>
          Prior(k) # {} /\ LastSays(k, {"running", "uncertain", "done"})
    /\ \A p \in Procs :
          /\ applied[k] = 1 /\ Settled(p, k) => LastSays(k, {"uncertain", "done"})
          /\ applied[k] = 1 /\ pc[p] \in {"admitted", "journaled", "calling"}
                => cur[p].key # k
          /\ applied[k] = 1 /\ pc[p] = "answered" /\ cur[p].key = k
                => cur[p].status # "failed"

-----------------------------------------------------------------------------
\* Rows of other keys come and go without moving the last row of this one.
LEMMA LastKept ==
    ASSUME DistinctIds, Basis, NEW k \in Keys, NEW S, LastSays(k, S), Prior(k) # {},
           \/ ops' = ops
           \/ \E i \in 1..Len(ops), r \in RowType :
                  Restates(i, r) /\ (r.status \in S \/ r.key # k)
           \/ \E p \in Procs : Journal(p) /\ cur[p].key # k
    PROVE  LastSays(k, S)' /\ Prior(k)' # {}
<1>0. Len(ops) \in Nat /\ ops \in Seq(RowType)
  BY Rows DEF Basis, TypeOK
<1>1. CASE ops' = ops
  BY <1>1 DEF LastSays, Prior
<1>2. ASSUME NEW i \in 1..Len(ops), NEW r \in RowType, Restates(i, r),
             r.status \in S \/ r.key # k
      PROVE  LastSays(k, S)' /\ Prior(k)' # {}
  <2>1. /\ Len(ops') = Len(ops) /\ r.key = ops[i].key
        /\ \A j \in 1..Len(ops) : ops'[j] = IF j = i THEN r ELSE ops[j]
    BY <1>0, <1>2 DEF Restates
  <2>2. AttemptsOf(ops', k) = AttemptsOf(ops, k)
    BY <2>1 DEF AttemptsOf
  <2>3. \A j \in AttemptsOf(ops, k) : ops'[j].status = ops[j].status \/ ops'[j].status \in S
    BY <1>2, <2>1 DEF AttemptsOf
  <2> QED BY <2>2, <2>3 DEF LastSays, Prior
<1>3. ASSUME NEW p \in Procs, Journal(p), cur[p].key # k
      PROVE  LastSays(k, S)' /\ Prior(k)' # {}
  <2>1. PICK r \in RowType : r = cur[p] /\ ops' = Append(ops, r)
    BY <1>3, JournalAppends
  <2>2. AttemptsOf(ops', k) = AttemptsOf(ops, k) /\ \A j \in 1..Len(ops) : ops'[j] = ops[j]
    BY <1>0, <1>3, <2>1, AppendedAttempts
  <2>3. \A j \in AttemptsOf(ops, k) : ops'[j] = ops[j]
    BY <2>2 DEF AttemptsOf
  <2> QED BY <2>2, <2>3 DEF LastSays, Prior
<1> QED BY <1>1, <1>2, <1>3

\* There is no more than one last row.
LEMMA LastIsOne ==
    ASSUME TypeOK, NEW k \in Keys, NEW S, NEW i \in AttemptsOf(ops, k),
           \A j \in AttemptsOf(ops, k) : j <= i, ops[i].status \in S
    PROVE  LastSays(k, S)
<1>1. \A j \in AttemptsOf(ops, k) : j \in Nat
  BY Rows DEF AttemptsOf
<1>2. \A j \in AttemptsOf(ops, k) : (\A l \in AttemptsOf(ops, k) : l <= j) => j = i
  BY <1>1
<1> QED BY <1>2 DEF LastSays

\* What is admitted has not landed.
LEMMA AdmittedNotLanded ==
    ASSUME TypeOK, NEW k \in Keys, KindOf[k] = "mutate", Effect(k),
           NEW p \in Procs, NEW q \in Requests, Admit(p, k, q)
    PROVE  applied[k] = 0
<1>1. SUFFICES ASSUME applied[k] = 1 PROVE FALSE
  BY DEF Effect
<1>2. LastSays(k, {"uncertain", "done"}) /\ Prior(k) # {}
  BY <1>1 DEF Effect, Settled, Admit
<1>3. ~Done(k) /\ ~Uncertain(k)
  BY <1>1 DEF Admit, MayAttempt, Reconciles
<1>4. IsFiniteSet(Prior(k)) /\ Prior(k) \subseteq Nat
  BY PriorFinite, Rows
<1>5. PICK i \in Prior(k) : \A j \in Prior(k) : j <= i
  <2>1. Len(ops) \in Nat /\ Prior(k) \subseteq 1..Len(ops)
    BY PriorFinite, Rows
  <2> DEFINE back == {Len(ops) - j : j \in Prior(k)}
  <2>2. back \subseteq Nat /\ back # {}
    BY <1>2, <2>1
  <2>3. PICK m \in back : \A l \in back : m <= l
    BY <2>2, LeastNumber
  <2>4. PICK i \in Prior(k) : m = Len(ops) - i
    BY <2>3
  <2>5. \A j \in Prior(k) : Len(ops) - i <= Len(ops) - j
    BY <2>3, <2>4
  <2> QED BY <2>1, <2>4, <2>5
<1>6. ops[i].status \in {"uncertain", "done"}
  BY <1>2, <1>5 DEF LastSays, Prior
<1> QED BY <1>3, <1>5, <1>6 DEF Done, Uncertain, IsLast

\* A step that leaves an unlanded effect unlanded has nothing to keep.
LEMMA EffectUnlanded ==
    ASSUME NEW k \in Keys, applied'[k] = 0
    PROVE  Effect(k)'
BY DEF Effect

LEMMA EffectStep ==
    ASSUME DistinctIds, NoLostRow, Basis, [Next]_vars,
           NEW k \in Keys, KindOf[k] = "mutate", Effect(k)
    PROVE  Effect(k)'
<1>0. /\ TypeOK /\ LockInv /\ CurInv /\ Len(ops) \in Nat /\ ops \in Seq(RowType)
      /\ pc \in [Procs -> {"out", "recover", "in", "admitted", "journaled",
                           "calling", "landed", "answered"}]
      /\ cur \in [Procs -> RowType \cup {NoRow}]
      /\ applied \in [Keys -> Nat] /\ applied[k] \in {0, 1}
  BY Rows DEF Basis, TypeOK, Effect
<1> USE DEF Active
<1>1. ASSUME NEW p \in Procs, pc[p] # "out", NEW s, pc' = [pc EXCEPT ![p] = s],
             NEW q \in Procs, pc'[q] # "out"
      PROVE  q = p /\ pc'[q] = s
  BY <1>0, <1>1, OneCoordinator
\* Steps that leave every coordinator outside the operations.
<1>2. ASSUME applied' = applied, \A q \in Procs : pc'[q] \in {"out", "recover"},
             \/ ops' = ops
             \/ \E i \in 1..Len(ops), r \in RowType :
                    Restates(i, r) /\ r.status \in {"running", "uncertain", "done"}
      PROVE  Effect(k)'
  <2>1. CASE applied[k] = 0
    BY <1>2, <2>1, EffectUnlanded
  <2>2. CASE applied[k] = 1
    <3>1. LastSays(k, {"running", "uncertain", "done"}) /\ Prior(k) # {}
      BY <2>2 DEF Effect
    <3>2. LastSays(k, {"running", "uncertain", "done"})' /\ Prior(k)' # {}
      BY <1>2, <3>1, LastKept
    <3> QED BY <1>0, <1>2, <3>2 DEF Effect, Settled
  <2> QED BY <1>0, <2>1, <2>2
<1>3. ASSUME NEW p \in Procs, Enter(p) PROVE Effect(k)'
  <2>1. \A q \in Procs : pc[q] = "out"
    BY <1>0, <1>3, ProcsAssumption DEF Enter, LockInv
  <2>2. \A q \in Procs : pc'[q] \in {"out", "recover"}
    BY <1>0, <1>3, <2>1 DEF Enter
  <2> QED BY <1>2, <1>3, <2>2 DEF Enter, journal, world
<1>4. ASSUME NEW p \in Procs, NEW i \in DOMAIN ops, Recover(p, i) PROVE Effect(k)'
  <2> DEFINE r == [ops[i] EXCEPT !.status = "uncertain"]
  <2>1. ops[i] \in RowType /\ i \in 1..Len(ops)
    BY <1>0, Rows
  <2>2. /\ r \in RowType /\ r.id = ops[i].id /\ r.key = ops[i].key
        /\ r.status = "uncertain"
    BY <2>1 DEF RowType, Statuses
  <2>3. Restates(i, r)
    BY <1>4, <2>2 DEF Restates, Recover, Running
  <2> HIDE DEF r
  <2>4. \A q \in Procs : pc'[q] \in {"out", "recover"}
    BY <1>0, <1>4, OneCoordinator DEF Recover
  <2>5. applied' = applied
    BY <1>4 DEF Recover, world
  <2> QED BY <1>2, <2>1, <2>2, <2>3, <2>4, <2>5
<1>5. ASSUME NEW p \in Procs,
             Leave(p) \/ LeaveFails(p) \/ \E e \in 0..CallSeconds : Crash(p, e)
      PROVE  Effect(k)'
  <2>1. /\ applied' = applied /\ ops' = ops /\ pc[p] # "out"
        /\ pc' = [pc EXCEPT ![p] = "out"]
    BY <1>5 DEF Leave, LeaveFails, Crash, journal, world
  <2>2. \A q \in Procs : pc'[q] \in {"out", "recover"}
    BY <1>1, <2>1
  <2> QED BY <1>2, <2>1, <2>2
\* Recovery is over when nothing is left running.
<1>6. ASSUME NEW p \in Procs, Start(p) PROVE Effect(k)'
  <2>1. /\ applied' = applied /\ ops' = ops /\ Running = {} /\ pc[p] # "out"
        /\ pc' = [pc EXCEPT ![p] = "in"]
    BY <1>6 DEF Start, journal, world
  <2>2. CASE applied[k] = 0
    BY <2>1, <2>2, EffectUnlanded
  <2>3. CASE applied[k] = 1
    <3>1. LastSays(k, {"running", "uncertain", "done"}) /\ Prior(k) # {}
      BY <2>3 DEF Effect
    <3>2. \A i \in AttemptsOf(ops, k) : ops[i].status # "running"
      BY <1>0, <2>1 DEF Running, AttemptsOf
    <3>3. LastSays(k, {"uncertain", "done"})
      BY <3>1, <3>2 DEF LastSays
    <3>4. /\ LastSays(k, {"running", "uncertain", "done"})' /\ Prior(k)' # {}
          /\ LastSays(k, {"uncertain", "done"})'
      BY <2>1, <3>1, <3>3, LastKept
    <3>5. \A q \in Procs : pc'[q] # "out" => pc'[q] = "in"
      BY <1>1, <2>1
    <3>6. \A q \in Procs : pc'[q] \in {"out", "in"}
      BY <3>5
    <3> QED BY <1>0, <2>1, <2>3, <3>4, <3>6 DEF Effect
  <2> QED BY <1>0, <2>2, <2>3
\* Steps of a coordinator that is, and stays, settled or out.
<1>7. ASSUME NEW p \in Procs, pc[p] # "out", Settled(p, k), NEW s,
             pc' = [pc EXCEPT ![p] = s], s \in Active \cup {"in"},
             s \in Active => cur'[p].key # k,
             applied'[k] = applied[k],
             \/ ops' = ops
             \/ \E i \in 1..Len(ops), r \in RowType :
                    Restates(i, r) /\ (r.status \in {"uncertain", "done"} \/ r.key # k)
             \/ \E q \in Procs : Journal(q) /\ cur[q].key # k
      PROVE  Effect(k)'
  <2>1. CASE applied[k] = 0
    BY <1>7, <2>1, EffectUnlanded
  <2>2. CASE applied[k] = 1
    <3>1. /\ LastSays(k, {"running", "uncertain", "done"}) /\ Prior(k) # {}
          /\ LastSays(k, {"uncertain", "done"})
      BY <1>7, <2>2 DEF Effect
    <3>2. LastSays(k, {"uncertain", "done"})' /\ Prior(k)' # {}
      BY <1>7, <3>1, LastKept
    <3>3. LastSays(k, {"running", "uncertain", "done"})'
      BY <3>2 DEF LastSays
    <3>4. \A q \in Procs : pc'[q] # "out" => pc'[q] = s /\ q = p
      BY <1>1, <1>7
    <3> QED BY <1>7, <2>2, <3>2, <3>3, <3>4 DEF Effect
  <2> QED BY <1>0, <2>1, <2>2
<1>8. ASSUME NEW p \in Procs, Tick(p) PROVE Effect(k)'
  <2>1. /\ pc[p] = "in" /\ pc' = [pc EXCEPT ![p] = "in"] /\ ops' = ops
        /\ applied' = applied
    BY <1>0, <1>8 DEF Tick, journal, world
  <2> QED BY <1>7, <2>1 DEF Settled
<1>9. CASE Cancel \/ UNCHANGED vars
  BY <1>9 DEF Effect, Settled, LastSays, Prior, Cancel, vars, journal, world
<1>10. ASSUME NEW p \in Procs, NEW l \in Keys, NEW q \in Requests, Reconcile(p, l, q)
       PROVE  Effect(k)'
  <2>1. /\ pc[p] = "in" /\ pc' = [pc EXCEPT ![p] = "in"] /\ applied' = applied
    BY <1>0, <1>10 DEF Reconcile, world
  <2>2. PICK i \in Prior(l) :
           ops' = [ops EXCEPT ![i] = [ops[i] EXCEPT !.status = "done",
                                                    !.elapsed = Charged(ops[i])]]
           /\ IsLast(i, l)
    BY <1>10 DEF Reconcile
  <2> DEFINE r == [ops[i] EXCEPT !.status = "done", !.elapsed = Charged(ops[i])]
  <2>3. ops[i] \in RowType /\ i \in 1..Len(ops) /\ Charged(ops[i]) \in Nat
    BY <1>0, Rows, ChargedType DEF Prior, AttemptsOf
  <2>4. r \in RowType /\ r.id = ops[i].id /\ r.key = ops[i].key /\ r.status = "done"
    BY <2>3 DEF RowType, Statuses
  <2>5. ops[i].status = "uncertain"
    <3>1. PICK j \in Prior(l) : IsLast(j, l) /\ ops[j].status = "uncertain"
      BY <1>10 DEF Reconcile, Uncertain
    <3>2. i \in Nat /\ j \in Nat /\ i <= j /\ j <= i
      BY <1>0, <2>2, <3>1 DEF IsLast, Prior, AttemptsOf
    <3> QED BY <3>1, <3>2
  <2>6. Restates(i, r)
    BY <2>2, <2>4, <2>5 DEF Restates
  <2> HIDE DEF r
  <2> QED BY <1>7, <2>1, <2>3, <2>4, <2>6 DEF Settled
<1>11. ASSUME NEW p \in Procs, NEW l \in Keys, NEW q \in Requests, Admit(p, l, q)
       PROVE  Effect(k)'
  <2>1. /\ pc[p] = "in" /\ pc' = [pc EXCEPT ![p] = "admitted"]
        /\ applied' = applied /\ ops' = ops
    BY <1>11 DEF Admit, journal, world
  <2>2. cur'[p].key = l
    BY <1>0, <1>11, AdmitRow
  <2>3. CASE l = k
    BY <1>0, <1>11, <2>1, <2>3, AdmittedNotLanded, EffectUnlanded
  <2>4. CASE l # k
    BY <1>7, <2>1, <2>2, <2>4 DEF Settled
  <2> QED BY <2>3, <2>4
<1>12. ASSUME NEW p \in Procs, Journal(p) \/ RetainFails(p) \/ Call(p) PROVE Effect(k)'
  <2>1. /\ pc[p] \in {"admitted", "journaled"} /\ applied' = applied
        /\ \/ pc' = [pc EXCEPT ![p] = "in"]
           \/ \E s \in {"journaled", "calling"} :
                  pc' = [pc EXCEPT ![p] = s] /\ cur' = cur
    BY <1>12 DEF Journal, RetainFails, Call, world
  <2>2. CASE cur[p].key = k
    <3>1. applied[k] = 0
      BY <1>0, <2>1, <2>2 DEF Effect
    <3> QED BY <2>1, <3>1, EffectUnlanded
  <2>3. CASE cur[p].key # k
    <3>1. Settled(p, k) /\ pc[p] # "out"
      BY <2>1, <2>3 DEF Settled
    <3>2. ops' = ops \/ \E q \in Procs : Journal(q) /\ cur[q].key # k
      BY <1>12, <2>3 DEF RetainFails, Call, journal
    <3> QED BY <1>7, <2>1, <2>3, <3>1, <3>2
  <2> QED BY <2>2, <2>3
<1>13. ASSUME NEW p \in Procs, Land(p) PROVE Effect(k)'
  <2>1. /\ pc[p] = "calling" /\ pc' = [pc EXCEPT ![p] = "landed"]
        /\ applied' = [applied EXCEPT ![cur[p].key] = @ + 1]
        /\ ops' = ops /\ cur' = cur /\ cur[p].key \in Keys
    BY <1>0, <1>13, RowFields DEF Land, journal, LockInv
  <2>2. CASE cur[p].key # k
    <3>1. applied'[k] = applied[k] /\ Settled(p, k)
      BY <1>0, <2>1, <2>2 DEF Settled
    <3> QED BY <1>7, <2>1, <2>2, <3>1
  <2>3. CASE cur[p].key = k
    <3>1. applied[k] = 0 /\ applied'[k] = 1
      BY <1>0, <2>1, <2>3 DEF Effect
    <3>2. /\ Len(ops) \in AttemptsOf(ops, k) /\ ops[Len(ops)].status = "running"
          /\ \A j \in AttemptsOf(ops, k) : j <= Len(ops)
      BY <1>0, <2>1, <2>3 DEF CurInv, Flight, AttemptsOf
    <3>3. LastSays(k, {"running", "uncertain", "done"}) /\ Prior(k) # {}
      BY <1>0, <3>2, LastIsOne DEF Prior
    <3>4. LastSays(k, {"running", "uncertain", "done"})' /\ Prior(k)' # {}
      BY <2>1, <3>3, LastKept
    <3>5. \A q \in Procs : pc'[q] # "out" => pc'[q] = "landed" /\ q = p
      BY <1>1, <2>1
    <3>6. \A q \in Procs : ~Settled(q, k)'
      BY <2>1, <2>3, <3>5 DEF Settled
    <3> QED BY <3>1, <3>4, <3>5, <3>6 DEF Effect
  <2> QED BY <2>2, <2>3
<1>14. ASSUME NEW p \in Procs, NEW s \in Statuses, NEW e \in 0..CallSeconds,
              NEW u \in 0..MaxUse, Finish(p, s, e, u)
       PROVE  Effect(k)'
  <2>1. /\ pc[p] \in {"calling", "landed"} /\ pc' = [pc EXCEPT ![p] = "answered"]
        /\ applied' = applied /\ ops' = ops
        /\ pc[p] = "landed" => s # "failed"
    BY <1>14 DEF Finish, Outcomes, NoLostRow, journal
  <2>2. cur'[p].key = cur[p].key /\ cur'[p].status = s
    BY <1>0, <1>14, FinishRow
  <2>3. CASE cur[p].key # k
    BY <1>7, <2>1, <2>2, <2>3 DEF Settled
  <2>4. CASE cur[p].key = k
    <3>1. CASE applied[k] = 0
      BY <2>1, <3>1, EffectUnlanded
    <3>2. CASE applied[k] = 1
      <4>1. s # "failed"
        BY <2>1, <2>4, <3>2 DEF Effect
      <4>2. LastSays(k, {"running", "uncertain", "done"})' /\ Prior(k)' # {}
        BY <2>1, <3>2, LastKept DEF Effect
      <4>3. \A q \in Procs : pc'[q] # "out" => pc'[q] = "answered" /\ q = p
        BY <1>1, <2>1
      <4>4. \A q \in Procs : ~Settled(q, k)'
        BY <2>2, <2>4, <4>3 DEF Settled
      <4> QED BY <2>1, <2>2, <3>2, <4>1, <4>2, <4>3, <4>4 DEF Effect
    <3> QED BY <1>0, <3>1, <3>2
  <2> QED BY <2>3, <2>4
<1>15. ASSUME NEW p \in Procs, Record(p) PROVE Effect(k)'
  <2>1. /\ pc[p] = "answered" /\ pc' = [pc EXCEPT ![p] = "in"] /\ applied' = applied
        /\ ops[Len(ops)].status = "running" /\ cur[p].status # "running"
    BY <1>0, <1>15 DEF Record, world, CurInv, Flight
  <2>2. PICK r \in RowType : r = cur[p] /\ Len(ops) \in 1..Len(ops) /\ Restates(Len(ops), r)
    BY <1>15, <2>1, RecordRestates DEF Restates
  <2>3. CASE cur[p].key # k
    BY <1>7, <2>1, <2>2, <2>3 DEF Settled
  <2>4. CASE cur[p].key = k
    <3>1. CASE applied[k] = 0
      BY <2>1, <3>1, EffectUnlanded
    <3>2. CASE applied[k] = 1
      <4>1. r.status \in {"uncertain", "done"}
        BY <2>1, <2>2, <2>4, <3>2, RowFields DEF Effect, Statuses
      <4>2. LastSays(k, {"running", "uncertain", "done"})' /\ Prior(k)' # {}
        BY <2>2, <3>2, <4>1, LastKept DEF Effect
      <4>3. LastSays(k, {"uncertain", "done"})'
        <5>1. /\ Len(ops') = Len(ops) /\ r.key = ops[Len(ops)].key
              /\ \A j \in 1..Len(ops) : ops'[j] = IF j = Len(ops) THEN r ELSE ops[j]
          BY <1>0, <2>2 DEF Restates
        <5>2. Len(ops) \in AttemptsOf(ops', k)
          BY <2>2, <2>4, <5>1 DEF AttemptsOf
        <5>3. \A i \in AttemptsOf(ops', k) :
                 (\A j \in AttemptsOf(ops', k) : j <= i) => ops'[i] = r
          BY <1>0, <2>2, <5>1, <5>2 DEF AttemptsOf
        <5> QED BY <4>1, <5>3 DEF LastSays
      <4>4. \A q \in Procs : pc'[q] # "out" => pc'[q] = "in" /\ q = p
        BY <1>1, <2>1
      <4> QED BY <2>1, <3>2, <4>2, <4>3, <4>4 DEF Effect
    <3> QED BY <1>0, <3>1, <3>2
  <2> QED BY <2>3, <2>4
<1>16. ASSUME NEW p \in Procs, JournalFails(p) \/ RecordFails(p) PROVE Effect(k)'
  BY <1>16 DEF JournalFails, RecordFails, NoLostRow
<1> QED
  BY <1>3, <1>4, <1>5, <1>6, <1>8, <1>9, <1>10, <1>11, <1>12, <1>13, <1>14,
     <1>15, <1>16 DEF Next, Perform

-----------------------------------------------------------------------------
EffectInv == \A k \in Keys : KindOf[k] = "mutate" => Effect(k)

\* The effect of a mutation lands once at most, whoever dies while performing
\* it and whoever retries it: "uncertain mutations require caller-supplied
\* reconciliation" (task_runtime.py), and it is enough that they do.
THEOREM EffectLandsOnce == DistinctIds /\ NoLostRow /\ Spec => []AppliedOnce
<1>1. Init => EffectInv
  BY DEF Init, EffectInv, Effect
<1>2. DistinctIds /\ NoLostRow /\ Basis /\ EffectInv /\ [Next]_vars => EffectInv'
  BY EffectStep DEF EffectInv
<1>3. NoLostRow => NoLostRow'
  BY DEF NoLostRow
<1>4. EffectInv => AppliedOnce
  BY DEF EffectInv, Effect, AppliedOnce
<1> QED BY <1>1, <1>2, <1>3, <1>4, BasisInit, BasisStep, PTL DEF Spec


-----------------------------------------------------------------------------
(* Sums over rows.                                                         *)

ChargesOf(rows) == [i \in 1..Len(rows) |-> Charged(rows[i])]
CostsOf(rows) == [i \in 1..Len(rows) |-> Admitted(rows[i])]

Charge == SumOf(ChargesOf(ops))

LEMMA SumAppended ==
    ASSUME NEW n \in Nat, NEW d, NEW e, Numbers(d, n), Numbers(e, n + 1),
           \A i \in 1..n : d[i] = e[i]
    PROVE  SumTo(e, n + 1) = SumTo(d, n) + e[n + 1]
<1>1. Numbers(e, n)
  BY DEF Numbers
<1> QED BY <1>1, SumNext, SumSame

LEMMA AdmittedType ==
    ASSUME NEW r \in RowType
    PROVE  Admitted(r) \in Nat
BY DEF RowType, Admitted, Larger

LEMMA SumsType ==
    ASSUME NEW rows \in Seq(RowType)
    PROVE  /\ Len(rows) \in Nat
           /\ Numbers(ChargesOf(rows), Len(rows)) /\ Len(ChargesOf(rows)) = Len(rows)
           /\ Numbers(CostsOf(rows), Len(rows)) /\ Len(CostsOf(rows)) = Len(rows)
           /\ SumOf(ChargesOf(rows)) = SumTo(ChargesOf(rows), Len(rows))
           /\ SumOf(CostsOf(rows)) = SumTo(CostsOf(rows), Len(rows))
           /\ SumOf(ChargesOf(rows)) \in Nat /\ SumOf(CostsOf(rows)) \in Nat
<1>1. Len(rows) \in Nat /\ \A i \in 1..Len(rows) : rows[i] \in RowType
  OBVIOUS
<1>2. Numbers(ChargesOf(rows), Len(rows)) /\ Numbers(CostsOf(rows), Len(rows))
  BY <1>1, ChargedType, AdmittedType DEF Numbers, ChargesOf, CostsOf
<1>3. Len(ChargesOf(rows)) = Len(rows) /\ Len(CostsOf(rows)) = Len(rows)
  BY <1>1 DEF ChargesOf, CostsOf
<1>4. /\ SumOf(ChargesOf(rows)) = SumTo(ChargesOf(rows), Len(rows))
      /\ SumOf(CostsOf(rows)) = SumTo(CostsOf(rows), Len(rows))
  BY <1>3 DEF SumOf
<1> QED BY <1>1, <1>2, <1>3, <1>4, SumType

LEMMA SumsAppended ==
    ASSUME NEW rows \in Seq(RowType), NEW r \in RowType
    PROVE  /\ SumOf(ChargesOf(Append(rows, r))) = SumOf(ChargesOf(rows)) + Charged(r)
           /\ SumOf(CostsOf(Append(rows, r))) = SumOf(CostsOf(rows)) + Admitted(r)
<1> DEFINE new == Append(rows, r)
<1>1. /\ new \in Seq(RowType) /\ Len(rows) \in Nat /\ Len(new) = Len(rows) + 1
      /\ \A i \in 1..Len(rows) : new[i] = rows[i]
      /\ new[Len(rows) + 1] = r
  BY AppendedAttempts
<1> HIDE DEF new
<1>2. /\ \A i \in 1..Len(rows) : ChargesOf(rows)[i] = ChargesOf(new)[i]
      /\ ChargesOf(new)[Len(rows) + 1] = Charged(r)
  BY <1>1 DEF ChargesOf
<1>3. /\ \A i \in 1..Len(rows) : CostsOf(rows)[i] = CostsOf(new)[i]
      /\ CostsOf(new)[Len(rows) + 1] = Admitted(r)
  BY <1>1 DEF CostsOf
<1>4. SumOf(ChargesOf(new)) = SumOf(ChargesOf(rows)) + Charged(r)
  <2>1. /\ Numbers(ChargesOf(rows), Len(rows)) /\ Numbers(ChargesOf(new), Len(rows) + 1)
        /\ SumOf(ChargesOf(rows)) = SumTo(ChargesOf(rows), Len(rows))
        /\ SumOf(ChargesOf(new)) = SumTo(ChargesOf(new), Len(rows) + 1)
    BY <1>1, SumsType
  <2>2. SumTo(ChargesOf(new), Len(rows) + 1) =
           SumTo(ChargesOf(rows), Len(rows)) + ChargesOf(new)[Len(rows) + 1]
    BY <1>1, <1>2, <2>1, SumAppended
  <2> QED BY <1>2, <2>1, <2>2
<1>5. SumOf(CostsOf(new)) = SumOf(CostsOf(rows)) + Admitted(r)
  <2>1. /\ Numbers(CostsOf(rows), Len(rows)) /\ Numbers(CostsOf(new), Len(rows) + 1)
        /\ SumOf(CostsOf(rows)) = SumTo(CostsOf(rows), Len(rows))
        /\ SumOf(CostsOf(new)) = SumTo(CostsOf(new), Len(rows) + 1)
    BY <1>1, SumsType
  <2>2. SumTo(CostsOf(new), Len(rows) + 1) =
           SumTo(CostsOf(rows), Len(rows)) + CostsOf(new)[Len(rows) + 1]
    BY <1>1, <1>3, <2>1, SumAppended
  <2> QED BY <1>3, <2>1, <2>2
<1> QED BY <1>4, <1>5 DEF new

LEMMA SumsRestated ==
    ASSUME NEW rows \in Seq(RowType), NEW r \in RowType, NEW i \in 1..Len(rows),
           NEW new, new = [rows EXCEPT ![i] = r]
    PROVE  /\ SumOf(ChargesOf(new)) = SumOf(ChargesOf(rows)) - Charged(rows[i]) + Charged(r)
           /\ SumOf(CostsOf(new)) = SumOf(CostsOf(rows)) - Admitted(rows[i]) + Admitted(r)
<1>1. /\ new \in Seq(RowType) /\ Len(rows) \in Nat /\ Len(new) = Len(rows)
      /\ \A j \in 1..Len(rows) : new[j] = IF j = i THEN r ELSE rows[j]
  OBVIOUS
<1>2. /\ \A j \in (1..Len(rows)) \ {i} : ChargesOf(rows)[j] = ChargesOf(new)[j]
      /\ ChargesOf(new)[i] = Charged(r) /\ ChargesOf(rows)[i] = Charged(rows[i])
  BY <1>1 DEF ChargesOf
<1>3. /\ \A j \in (1..Len(rows)) \ {i} : CostsOf(rows)[j] = CostsOf(new)[j]
      /\ CostsOf(new)[i] = Admitted(r) /\ CostsOf(rows)[i] = Admitted(rows[i])
  BY <1>1 DEF CostsOf
<1>4. SumOf(ChargesOf(new)) = SumOf(ChargesOf(rows)) - Charged(rows[i]) + Charged(r)
  <2>1. /\ Numbers(ChargesOf(rows), Len(rows)) /\ Numbers(ChargesOf(new), Len(rows))
        /\ SumOf(ChargesOf(rows)) = SumTo(ChargesOf(rows), Len(rows))
        /\ SumOf(ChargesOf(new)) = SumTo(ChargesOf(new), Len(rows))
    BY <1>1, SumsType
  <2>2. SumTo(ChargesOf(new), Len(rows)) =
           SumTo(ChargesOf(rows), Len(rows)) - ChargesOf(rows)[i] + ChargesOf(new)[i]
    <3>1. PICK d, e, n : d = ChargesOf(rows) /\ e = ChargesOf(new) /\ n = Len(rows)
      OBVIOUS
    <3>2. /\ n \in Nat /\ Numbers(d, n) /\ Numbers(e, n) /\ i \in 1..n
          /\ \A j \in (1..n) \ {i} : d[j] = e[j]
      BY <1>1, <1>2, <2>1, <3>1
    <3>3. SumTo(e, n) = SumTo(d, n) - d[i] + e[i]
      BY <3>2, SumChange
    <3> QED BY <3>1, <3>3
  <2> QED BY <1>2, <2>1, <2>2
<1>5. SumOf(CostsOf(new)) = SumOf(CostsOf(rows)) - Admitted(rows[i]) + Admitted(r)
  <2>1. /\ Numbers(CostsOf(rows), Len(rows)) /\ Numbers(CostsOf(new), Len(rows))
        /\ SumOf(CostsOf(rows)) = SumTo(CostsOf(rows), Len(rows))
        /\ SumOf(CostsOf(new)) = SumTo(CostsOf(new), Len(rows))
    BY <1>1, SumsType
  <2>2. SumTo(CostsOf(new), Len(rows)) =
           SumTo(CostsOf(rows), Len(rows)) - CostsOf(rows)[i] + CostsOf(new)[i]
    <3>1. PICK d, e, n : d = CostsOf(rows) /\ e = CostsOf(new) /\ n = Len(rows)
      OBVIOUS
    <3>2. /\ n \in Nat /\ Numbers(d, n) /\ Numbers(e, n) /\ i \in 1..n
          /\ \A j \in (1..n) \ {i} : d[j] = e[j]
      BY <1>1, <1>3, <2>1, <3>1
    <3>3. SumTo(e, n) = SumTo(d, n) - d[i] + e[i]
      BY <3>2, SumChange
    <3> QED BY <3>1, <3>3
  <2> QED BY <1>3, <2>1, <2>2
<1> QED BY <1>4, <1>5

\* The model's sums are these.
LEMMA ModelSums ==
    ASSUME TypeOK
    PROVE  /\ Charge \in Nat /\ ChargedTotal = Charge + overhead
           /\ AdmittedCost = SumOf(CostsOf(ops)) /\ AdmittedCost \in Nat
<1>1. ops \in Seq(RowType) /\ DOMAIN ops = 1..Len(ops)
  BY Rows DEF TypeOK
<1>2. /\ [i \in DOMAIN ops |-> Charged(ops[i])] = ChargesOf(ops)
      /\ [i \in DOMAIN ops |-> Admitted(ops[i])] = CostsOf(ops)
  BY <1>1 DEF ChargesOf, CostsOf
<1> QED BY <1>1, <1>2, SumsType DEF Charge, ChargedTotal, AdmittedCost

-----------------------------------------------------------------------------
(* Who gets where.                                                         *)

\* Beside Admit, Journal and Finish, a step leaves each operation it does not
\* end where it was; calling it is the one exception.
Begins == \/ \E p \in Procs, k \in Keys, q \in Requests : Admit(p, k, q)
          \/ \E p \in Procs : Journal(p)
          \/ \E p \in Procs, s \in Statuses, e \in 0..CallSeconds, u \in 0..MaxUse :
                 Finish(p, s, e, u)

Stays(q) ==
    /\ pc'[q] \in Active => cur'[q] = cur[q]
    /\ pc'[q] = "admitted" => pc[q] = "admitted"
    /\ pc'[q] \in Flight => pc[q] \in Flight
    /\ pc'[q] = "journaled" => pc[q] = "journaled"
    /\ pc'[q] = "answered" => pc[q] = "answered"

LEMMA StaysStep ==
    ASSUME TypeOK, [Next]_vars, ~Begins, NEW q \in Procs
    PROVE  Stays(q)
<1>0. /\ pc \in [Procs -> {"out", "recover", "in", "admitted", "journaled",
                           "calling", "landed", "answered"}]
      /\ cur \in [Procs -> RowType \cup {NoRow}]
  BY DEF TypeOK
<1> USE DEF Stays, Active, Flight
<1>1. ASSUME NEW p \in Procs, Enter(p) \/ Start(p) \/ Leave(p) \/ LeaveFails(p)
                 \/ Tick(p) \/ Call(p) \/ Land(p)
      PROVE  Stays(q)
  BY <1>0, <1>1 DEF Enter, Start, Leave, LeaveFails, Tick, Call, Land
<1>2. ASSUME NEW p \in Procs, JournalFails(p) \/ RetainFails(p) \/ Record(p) \/ RecordFails(p)
                 \/ \E e \in 0..CallSeconds : Crash(p, e)
      PROVE  Stays(q)
  BY <1>0, <1>2 DEF JournalFails, RetainFails, Record, RecordFails, Crash
<1>3. ASSUME NEW p \in Procs,
             \/ \E i \in DOMAIN ops : Recover(p, i)
             \/ \E k \in Keys, r \in Requests : Reconcile(p, k, r)
      PROVE  Stays(q)
  BY <1>3 DEF Recover, Reconcile
<1>4. CASE Cancel \/ UNCHANGED vars
  BY <1>4 DEF Cancel, vars
<1> QED BY <1>1, <1>2, <1>3, <1>4 DEF Next, Perform, Begins

\* The attempts under a key are counted up by Journal, and never down.
LEMMA CountStep ==
    ASSUME DistinctIds, Basis, [Next]_vars, NEW k
    PROVE  /\ Cardinality(Prior(k)) \in Nat /\ Cardinality(Prior(k)') \in Nat
           /\ Cardinality(Prior(k)) <= Cardinality(Prior(k)')
           /\ \/ Prior(k)' = Prior(k)
              \/ \E p \in Procs :
                    /\ Journal(p) /\ cur[p].key = k
                    /\ Cardinality(Prior(k)') = Cardinality(Prior(k)) + 1
           /\ \A p \in Procs : Journal(p) /\ cur[p].key = k =>
                 Cardinality(Prior(k)') = Cardinality(Prior(k)) + 1
<1>0. TypeOK /\ Len(ops) \in Nat /\ ops \in Seq(RowType) /\ Cardinality(Prior(k)) \in Nat
  BY Rows, PriorFinite DEF Basis, TypeOK
<1>1. ASSUME NEW p \in Procs, Journal(p)
      PROVE  /\ cur[p].key = k => Cardinality(Prior(k)') = Cardinality(Prior(k)) + 1
             /\ cur[p].key # k => Prior(k)' = Prior(k)
  <2>1. PICK r \in RowType : r = cur[p] /\ ops' = Append(ops, r)
    BY <1>1, JournalAppends
  <2>2. /\ k = r.key => Cardinality(AttemptsOf(ops', k)) = Cardinality(AttemptsOf(ops, k)) + 1
        /\ k # r.key => AttemptsOf(ops', k) = AttemptsOf(ops, k)
    BY <1>0, <2>1, AppendedAttempts
  <2> QED BY <2>1, <2>2 DEF Prior
<1>2. ASSUME NEW i \in 1..Len(ops), NEW r \in RowType, Restates(i, r)
      PROVE  Prior(k)' = Prior(k)
  <2>1. /\ Len(ops') = Len(ops)
        /\ \A j \in 1..Len(ops) : ops'[j].key = ops[j].key
    BY <1>0, <1>2 DEF Restates
  <2> QED BY <2>1 DEF Prior, AttemptsOf
<1>3. ops' = ops => Prior(k)' = Prior(k)
  BY DEF Prior
<1>4. \/ Prior(k)' = Prior(k)
      \/ \E p \in Procs :
            /\ Journal(p) /\ cur[p].key = k
            /\ Cardinality(Prior(k)') = Cardinality(Prior(k)) + 1
  BY <1>1, <1>2, <1>3, RowsStep
<1> QED BY <1>0, <1>1, <1>4

-----------------------------------------------------------------------------
(* The journal is ahead of the calls.                                      *)

AheadInv ==
    /\ JournalAhead
    /\ \A p \in Procs : pc[p] = "journaled" =>
          calls[cur[p].key] + 1 <= Cardinality(Prior(cur[p].key))

LEMMA AheadStep ==
    ASSUME DistinctIds, Basis, AheadInv, [Next]_vars
    PROVE  AheadInv'
<1>0. /\ TypeOK /\ LockInv /\ calls \in [Keys -> Nat]
      /\ pc \in [Procs -> {"out", "recover", "in", "admitted", "journaled",
                           "calling", "landed", "answered"}]
  BY DEF Basis, TypeOK
<1>1. JournalAhead'
  <2>1. SUFFICES ASSUME NEW k \in Keys PROVE calls'[k] <= Cardinality(Prior(k)')
    BY DEF JournalAhead
  <2>2. /\ Cardinality(Prior(k)) \in Nat /\ Cardinality(Prior(k)') \in Nat
        /\ Cardinality(Prior(k)) <= Cardinality(Prior(k)')
    BY CountStep
  <2>3. calls[k] <= Cardinality(Prior(k)) /\ calls[k] \in Nat
    BY <1>0 DEF AheadInv, JournalAhead
  <2>4. CASE calls' = calls
    BY <2>2, <2>3, <2>4
  <2>5. ASSUME NEW p \in Procs, Call(p) PROVE calls'[k] <= Cardinality(Prior(k)')
    <3>1. /\ calls' = [calls EXCEPT ![cur[p].key] = @ + 1]
          /\ calls[cur[p].key] + 1 <= Cardinality(Prior(cur[p].key))
      BY <2>5 DEF Call, AheadInv
    <3>2. CASE cur[p].key = k
      BY <1>0, <2>2, <2>3, <3>1, <3>2
    <3>3. CASE cur[p].key # k
      BY <1>0, <2>2, <2>3, <3>1, <3>3
    <3> QED BY <3>2, <3>3
  <2> QED BY <2>4, <2>5, CallsStep
<1>2. ASSUME NEW q \in Procs, pc'[q] = "journaled"
      PROVE  calls'[cur'[q].key] + 1 <= Cardinality(Prior(cur[q].key)')
             /\ cur'[q] = cur[q]
  <2>0. PICK k : k = cur[q].key
    OBVIOUS
  <2>1. ASSUME NEW p \in Procs, Journal(p)
        PROVE  /\ k \in Keys /\ cur'[q] = cur[q] /\ calls' = calls
               /\ Cardinality(Prior(k)') = Cardinality(Prior(k)) + 1
    <3>1. p = q
      BY <1>0, <1>2, <2>1, OneCoordinator DEF Journal
    <3>2. cur'[q] = cur[q] /\ calls' = calls
      BY <2>1 DEF Journal, world
    <3>3. k \in Keys
      BY <1>0, <2>0, <2>1, <3>1, RowFields DEF Journal, LockInv, Active
    <3> QED BY <2>0, <2>1, <3>1, <3>2, <3>3, CountStep
  <2>2. ASSUME ~ \E p \in Procs : Journal(p)
        PROVE  pc[q] = "journaled" /\ cur'[q] = cur[q] /\ calls' = calls
    <3>1. ~Begins
      <4>1. ASSUME NEW p \in Procs, NEW l \in Keys, NEW r \in Requests, Admit(p, l, r)
            PROVE  FALSE
        BY <1>0, <1>2, <4>1, OneCoordinator DEF Admit
      <4>2. ASSUME NEW p \in Procs, NEW s \in Statuses, NEW e \in 0..CallSeconds,
                   NEW u \in 0..MaxUse, Finish(p, s, e, u)
            PROVE  FALSE
        BY <1>0, <1>2, <4>2, OneCoordinator DEF Finish
      <4> QED BY <2>2, <4>1, <4>2 DEF Begins
    <3>2. pc[q] = "journaled" /\ cur'[q] = cur[q]
      BY <1>0, <1>2, <3>1, StaysStep DEF Stays, Active
    <3>3. ASSUME NEW p \in Procs, Call(p) PROVE FALSE
      BY <1>0, <1>2, <3>2, <3>3, OneCoordinator DEF Call
    <3> QED BY <3>2, <3>3, CallsStep
  <2>3. CASE \E p \in Procs : Journal(p)
    <3>1. /\ k \in Keys /\ cur'[q] = cur[q] /\ calls' = calls
          /\ Cardinality(Prior(k)') = Cardinality(Prior(k)) + 1
      BY <2>1, <2>3
    <3>2. calls[k] <= Cardinality(Prior(k)) /\ calls[k] \in Nat
      BY <1>0, <3>1 DEF AheadInv, JournalAhead
    <3>3. Cardinality(Prior(k)) \in Nat
      BY <1>0, PriorFinite
    <3>4. calls'[k] + 1 <= Cardinality(Prior(k)')
      BY <3>1, <3>2, <3>3
    <3> QED BY <2>0, <3>1, <3>4 DEF Prior
  <2>4. CASE ~ \E p \in Procs : Journal(p)
    <3>1. pc[q] = "journaled" /\ cur'[q] = cur[q] /\ calls' = calls
      BY <2>2, <2>4
    <3>2. calls[k] + 1 <= Cardinality(Prior(k)) /\ k \in Keys
      BY <1>0, <2>0, <3>1, RowFields DEF AheadInv, LockInv, Active
    <3>3. Prior(k)' = Prior(k)
      BY <2>4, CountStep
    <3> QED BY <2>0, <3>1, <3>2, <3>3 DEF Prior
  <2> QED BY <2>3, <2>4
<1> QED BY <1>1, <1>2 DEF AheadInv

\* Every call ever begun has a row of its own: the running row is durable
\* before the function is called, and recovery loses none
\* ("cannot dispatch if persistence fails", task_runtime.py).
THEOREM CallsAreJournaled == DistinctIds /\ Spec => []JournalAhead
<1>1. Init => AheadInv
  <2>1. ASSUME Init, NEW k \in Keys PROVE calls[k] <= Cardinality(Prior(k))
    <3>1. calls[k] = 0 /\ Cardinality(Prior(k)) \in Nat
      BY <2>1, InitTypes, PriorFinite DEF Init
    <3> QED BY <3>1
  <2> QED BY <2>1 DEF Init, AheadInv, JournalAhead
<1>2. AheadInv => JournalAhead
  BY DEF AheadInv
<1> QED BY <1>1, <1>2, AheadStep, BasisInit, BasisStep, PTL DEF Spec

-----------------------------------------------------------------------------
(* Retries are asked for.                                                  *)

\* Who does not retry has found no attempt under the key, and makes the first.
OnceInv ==
    \A p \in Procs \ Retriers :
        /\ pc[p] = "admitted" => Prior(cur[p].key) = {}
        /\ pc[p] = "journaled" => Cardinality(Prior(cur[p].key)) = 1

LEMMA OnceStep ==
    ASSUME DistinctIds, Basis, OnceInv, [Next]_vars
    PROVE  OnceInv'
<1> SUFFICES ASSUME NEW q \in Procs \ Retriers
             PROVE  /\ pc'[q] = "admitted" => Prior(cur[q].key)' = {}
                    /\ pc'[q] = "journaled" => Cardinality(Prior(cur[q].key)') = 1
  BY DEF OnceInv
<1>0. /\ TypeOK /\ LockInv
      /\ pc \in [Procs -> {"out", "recover", "in", "admitted", "journaled",
                           "calling", "landed", "answered"}]
  BY DEF Basis, TypeOK
<1>1. ASSUME NEW p \in Procs, NEW k \in Keys, NEW r \in Requests, Admit(p, k, r),
             pc'[q] # "out"
      PROVE  pc'[q] = "admitted" /\ Prior(cur[q].key)' = {}
  <2>1. p = q
    BY <1>0, <1>1, OneCoordinator DEF Admit
  <2>2. cur'[q].key = k /\ ops' = ops /\ pc'[q] = "admitted"
    BY <1>0, <1>1, <2>1, AdmitRow DEF Admit, journal
  <2>3. Prior(k) = {}
    BY <1>1, <2>1 DEF Admit, MayAttempt
  <2> QED BY <2>2, <2>3 DEF Prior
<1>2. ASSUME NEW p \in Procs, Journal(p), pc'[q] # "out"
      PROVE  pc'[q] = "journaled" /\ Cardinality(Prior(cur[q].key)') = 1
  <2>1. p = q
    BY <1>0, <1>2, OneCoordinator DEF Journal
  <2>2. pc[q] = "admitted" /\ pc'[q] = "journaled" /\ cur'[q] = cur[q]
    BY <1>0, <1>2, <2>1 DEF Journal
  <2>3. PICK k : k = cur[q].key
    OBVIOUS
  <2>4. Prior(k) = {} /\ Cardinality(Prior(k)) = 0
    BY <2>2, <2>3, FS_EmptySet DEF OnceInv
  <2>5. Cardinality(Prior(k)') = Cardinality(Prior(k)) + 1
    <3>1. Journal(p) /\ cur[p].key = k
      BY <1>2, <2>1, <2>3
    <3> QED BY <3>1, CountStep
  <2> QED BY <2>2, <2>3, <2>4, <2>5 DEF Prior
<1>3. ASSUME ~ \E p \in Procs, k \in Keys, r \in Requests : Admit(p, k, r),
             ~ \E p \in Procs : Journal(p),
             pc'[q] \in {"admitted", "journaled"}
      PROVE  /\ pc'[q] = pc[q]
             /\ Prior(cur[q].key)' = Prior(cur[q].key)
  <2>1. ASSUME NEW p \in Procs, NEW s \in Statuses, NEW e \in 0..CallSeconds,
               NEW u \in 0..MaxUse, Finish(p, s, e, u)
        PROVE  FALSE
    BY <1>0, <1>3, <2>1, OneCoordinator DEF Finish
  <2>2. ~Begins
    BY <1>3, <2>1 DEF Begins
  <2>3. pc[q] = pc'[q] /\ cur'[q] = cur[q]
    BY <1>0, <1>3, <2>2, StaysStep DEF Stays, Active
  <2>4. PICK k : k = cur[q].key
    OBVIOUS
  <2>5. Prior(k)' = Prior(k)
    BY <1>3, CountStep
  <2> QED BY <2>3, <2>4, <2>5 DEF Prior
<1>4. CASE \E p \in Procs, k \in Keys, r \in Requests : Admit(p, k, r)
  BY <1>1, <1>4
<1>5. CASE \E p \in Procs : Journal(p)
  BY <1>2, <1>5
<1>6. CASE /\ ~ \E p \in Procs, k \in Keys, r \in Requests : Admit(p, k, r)
           /\ ~ \E p \in Procs : Journal(p)
  BY <1>3, <1>6 DEF OnceInv
<1> QED BY <1>4, <1>5, <1>6

\* Without retry_failed no function is called again under a key, whatever
\* became of the first call and whoever made it.
THEOREM RetriesAreAsked == DistinctIds /\ Spec => NoUnaskedRetry
<1>1. Init => AheadInv /\ OnceInv
  <2>1. ASSUME Init, NEW k PROVE Prior(k) = {}
    <3>1. Len(ops) = 0
      BY <2>1 DEF Init
    <3> QED BY <3>1 DEF Prior, AttemptsOf
  <2>2. Cardinality({}) = 0
    BY FS_EmptySet
  <2>3. SUFFICES ASSUME Init PROVE AheadInv /\ OnceInv
    OBVIOUS
  <2>4. \A k : Cardinality(Prior(k)) = 0
    BY <2>1, <2>2, <2>3
  <2>5. (\A p \in Procs : pc[p] = "out") /\ \A k \in Keys : calls[k] = 0
    BY <2>3 DEF Init
  <2> QED BY <2>4, <2>5 DEF AheadInv, JournalAhead, OnceInv
<1>2. ASSUME Basis, AheadInv, OnceInv, NEW p \in Procs \ Retriers, pc[p] = "journaled"
      PROVE  calls[cur[p].key] = 0
  <2>1. PICK k \in Keys : k = cur[p].key
    BY <1>2, RowFields DEF Basis, LockInv, Active
  <2>2. calls[k] \in Nat
    BY <1>2 DEF Basis, TypeOK
  <2>3. calls[k] + 1 <= Cardinality(Prior(k)) /\ Cardinality(Prior(k)) = 1
    BY <1>2, <2>1 DEF AheadInv, OnceInv
  <2> QED BY <2>1, <2>2, <2>3
<1>3. Basis /\ AheadInv /\ OnceInv /\ [Next]_vars =>
         [\A p \in Procs \ Retriers :
             pc[p] = "journaled" /\ pc'[p] = "calling" => calls[cur[p].key] = 0]_vars
  BY <1>2
<1> QED
  BY <1>1, <1>3, AheadStep, OnceStep, BasisInit, BasisStep, PTL DEF Spec, NoUnaskedRetry

-----------------------------------------------------------------------------
(* Seconds.                                                                *)

\* The rows are charged no more than the allowance, and at least what was
\* spent; the operation in flight has its reservation charged already.
WallInv ==
    /\ Charge <= Wall
    /\ spent <= Charge
    /\ \A p \in Procs :
          /\ pc[p] = "admitted" => Charge + cur[p].reserved <= Wall
          /\ pc[p] \in Flight => spent + cur[p].reserved <= Charge + cur[p].elapsed

LEMMA SpentStep ==
    ASSUME [Next]_vars
    PROVE  \/ spent' = spent
           \/ \E p \in Procs, s \in Statuses, e \in 0..CallSeconds, u \in 0..MaxUse :
                  Finish(p, s, e, u)
           \/ \E p \in Procs, e \in 0..CallSeconds : Crash(p, e)
<1>1. ASSUME NEW p \in Procs,
             \/ Enter(p) \/ Start(p) \/ Tick(p) \/ Leave(p) \/ LeaveFails(p)
             \/ Journal(p) \/ JournalFails(p) \/ RetainFails(p) \/ Call(p) \/ Land(p)
             \/ Record(p) \/ RecordFails(p)
      PROVE  spent' = spent
  BY <1>1 DEF Enter, Start, Tick, Leave, LeaveFails, Journal, JournalFails,
     RetainFails, Call, Land, Record, RecordFails, world
<1>2. ASSUME NEW p \in Procs,
             \/ \E i \in DOMAIN ops : Recover(p, i)
             \/ \E l \in Keys, q \in Requests : Reconcile(p, l, q) \/ Admit(p, l, q)
      PROVE  spent' = spent
  BY <1>2 DEF Recover, Reconcile, Admit, world
<1>3. CASE Cancel \/ UNCHANGED vars
  BY <1>3 DEF Cancel, vars, world
<1> QED BY <1>1, <1>2, <1>3 DEF Next, Perform

LEMMA WallStep ==
    ASSUME DistinctIds, Basis, WallInv, [Next]_vars
    PROVE  WallInv'
<1>0. /\ TypeOK /\ LockInv /\ CurInv /\ ops \in Seq(RowType) /\ Len(ops) \in Nat
      /\ pc \in [Procs -> {"out", "recover", "in", "admitted", "journaled",
                           "calling", "landed", "answered"}]
      /\ spent \in Nat /\ Wall \in Nat /\ Charge \in Nat
      /\ Charge <= Wall /\ spent <= Charge
  BY Rows, ModelSums, LimitTypes DEF Basis, TypeOK, WallInv
<1>1. ASSUME NEW p \in Procs, pc[p] \in Active
      PROVE  /\ cur[p] \in RowType /\ cur[p].reserved \in Nat /\ cur[p].elapsed \in Nat
             /\ cur[p].elapsed <= cur[p].reserved
  BY <1>0, <1>1, RowFields DEF LockInv, CurInv
\* Only Journal and Record change what is charged.
<1>2. (ops' = ops \/ \E i \in 1..Len(ops), r \in RowType : Corrects(i, r)) => Charge' = Charge
  <2>1. ASSUME NEW i \in 1..Len(ops), NEW r \in RowType, Corrects(i, r)
        PROVE  Charge' = Charge
    <3>1. ops' = [ops EXCEPT ![i] = r] /\ Charged(r) = Charged(ops[i])
      BY <2>1 DEF Corrects, Restates
    <3>2. PICK new : new = ops'
      OBVIOUS
    <3>3. SumOf(ChargesOf(new)) = SumOf(ChargesOf(ops)) - Charged(ops[i]) + Charged(r)
      BY <1>0, <3>1, <3>2, SumsRestated
    <3>4. Charged(r) \in Nat
      BY ChargedType
    <3> QED BY <1>0, <3>1, <3>2, <3>3, <3>4 DEF Charge
  <2> QED BY <2>1 DEF Charge
<1>3. ASSUME NEW p \in Procs, Journal(p) PROVE WallInv'
  <2>1. PICK r \in RowType : r = cur[p] /\ ops' = Append(ops, r)
    BY <1>3, JournalAppends
  <2>2. /\ pc[p] = "admitted" /\ pc' = [pc EXCEPT ![p] = "journaled"]
        /\ cur' = cur /\ spent' = spent
    BY <1>3 DEF Journal, world
  <2>3. SumOf(ChargesOf(Append(ops, r))) = Charge + Charged(r)
    BY <1>0, SumsAppended DEF Charge
  <2>4. Charge' = SumOf(ChargesOf(Append(ops, r)))
    BY <2>1 DEF Charge
  <2>5. Charged(r) = r.reserved /\ r.elapsed = 0 /\ r.reserved \in Nat
    BY <1>0, <1>1, <2>1, <2>2 DEF CurInv, Active, Charged, Larger
  <2>6. Charge' = Charge + r.reserved
    BY <2>3, <2>4, <2>5
  <2>7. Charge + r.reserved <= Wall
    BY <2>1, <2>2 DEF WallInv
  <2>8. \A q \in Procs : pc'[q] # "out" => q = p /\ pc'[q] = "journaled"
    BY <1>0, <2>2, OneCoordinator
  <2> QED BY <1>0, <2>1, <2>2, <2>5, <2>6, <2>7, <2>8 DEF WallInv, Flight
<1>4. ASSUME NEW p \in Procs, Record(p) PROVE WallInv'
  <2>1. PICK r \in RowType : /\ r = cur[p] /\ Len(ops) \in 1..Len(ops)
                             /\ ops' = [ops EXCEPT ![Len(ops)] = r]
    BY <1>4, RecordRestates
  <2>2. /\ pc[p] = "answered" /\ pc' = [pc EXCEPT ![p] = "in"] /\ spent' = spent
    BY <1>4 DEF Record, world
  <2>3. PICK new : new = ops'
    OBVIOUS
  <2>4. Charge' = Charge - Charged(ops[Len(ops)]) + Charged(r)
    <3>1. SumOf(ChargesOf(new)) = SumOf(ChargesOf(ops)) - Charged(ops[Len(ops)]) + Charged(r)
      BY <1>0, <2>1, <2>3, SumsRestated
    <3> QED BY <2>3, <3>1 DEF Charge
  <2>5. Charged(ops[Len(ops)]) = r.reserved
    <3>1. /\ ops[Len(ops)].status = "running" /\ ops[Len(ops)].reserved = r.reserved
          /\ ops[Len(ops)].elapsed = 0 /\ r.reserved \in Nat
      BY <1>0, <1>1, <2>1, <2>2 DEF CurInv, Active, Flight
    <3> QED BY <3>1 DEF Charged, Larger
  <2>6. r.reserved \in Nat /\ r.elapsed \in Nat /\ r.elapsed <= r.reserved
    BY <1>1, <2>1, <2>2 DEF Active
  <2>7. r.elapsed <= Charged(r) /\ Charged(r) <= r.reserved /\ Charged(r) \in Nat
    BY <2>6, ChargedType DEF Charged, Larger
  <2>8. spent + r.reserved <= Charge + r.elapsed
    BY <2>1, <2>2 DEF WallInv, Flight
  <2>9. Charge' <= Wall /\ spent' <= Charge'
    BY <1>0, <2>2, <2>4, <2>5, <2>6, <2>7, <2>8
  <2>10. \A q \in Procs : pc'[q] # "out" => pc'[q] = "in"
    BY <1>0, <2>2, OneCoordinator
  <2>11. \A q \in Procs : pc'[q] # "admitted" /\ pc'[q] \notin Flight
    BY <2>10 DEF Flight
  <2> QED BY <2>9, <2>11 DEF WallInv
<1>5. ASSUME NEW p \in Procs, NEW k \in Keys, NEW q \in Requests, Admit(p, k, q)
      PROVE  WallInv'
  <2>1. /\ pc[p] = "in" /\ pc' = [pc EXCEPT ![p] = "admitted"] /\ ops' = ops
        /\ spent' = spent /\ Remaining > 0
    BY <1>5 DEF Admit, Allowed, journal, world
  <2>2. cur'[p].reserved <= Remaining /\ cur'[p].reserved \in Nat
    BY <1>0, <1>5, AdmitRow, RowFields
  <2>3. ChargedTotal + Remaining <= Wall /\ Remaining \in Nat
    BY <1>0, <2>1, RemainingType
  <2>4. Charge <= ChargedTotal
    BY <1>0, ModelSums DEF TypeOK
  <2>5. Charge + cur'[p].reserved <= Wall
    <3>1. ChargedTotal \in Nat
      BY <1>0, ChargesType
    <3> QED BY <1>0, <2>2, <2>3, <2>4, <3>1
  <2>6. \A o \in Procs : pc'[o] # "out" => o = p /\ pc'[o] = "admitted"
    BY <1>0, <2>1, OneCoordinator
  <2> QED BY <1>0, <1>2, <2>1, <2>5, <2>6 DEF WallInv, Flight
<1>6. ASSUME NEW p \in Procs, NEW s \in Statuses, NEW e \in 0..CallSeconds,
             NEW u \in 0..MaxUse, Finish(p, s, e, u)
      PROVE  WallInv'
  <2>1. /\ pc[p] \in {"calling", "landed"} /\ pc' = [pc EXCEPT ![p] = "answered"]
        /\ ops' = ops /\ spent' = spent + e /\ e <= cur[p].reserved
    BY <1>6 DEF Finish, journal
  <2>2. cur'[p].reserved = cur[p].reserved /\ cur'[p].elapsed = e
    BY <1>0, <1>6, FinishRow
  <2>3. /\ cur[p].elapsed = 0 /\ cur[p].reserved \in Nat /\ e \in Nat
        /\ spent + cur[p].reserved <= Charge + cur[p].elapsed
    BY <1>0, <1>1, <2>1, LimitTypes DEF CurInv, Active, Flight, WallInv
  <2>4. \A o \in Procs : pc'[o] # "out" => o = p /\ pc'[o] = "answered"
    BY <1>0, <2>1, OneCoordinator
  <2>5. spent' <= Charge /\ spent' + cur'[p].reserved <= Charge + cur'[p].elapsed
    BY <1>0, <2>1, <2>2, <2>3
  <2> QED BY <1>0, <1>2, <2>1, <2>4, <2>5 DEF WallInv, Flight
<1>7. ASSUME NEW p \in Procs, NEW e \in 0..CallSeconds, Crash(p, e) PROVE WallInv'
  <2>1. /\ pc[p] # "out" /\ pc' = [pc EXCEPT ![p] = "out"] /\ ops' = ops
        /\ spent' = spent + e
        /\ e <= IF pc[p] \in {"calling", "landed"} THEN cur[p].reserved ELSE 0
    BY <1>7 DEF Crash, journal
  <2>2. e \in Nat
    BY LimitTypes
  <2>3. spent' <= Charge
    <3>1. CASE pc[p] \in {"calling", "landed"}
      <4>1. /\ cur[p].elapsed = 0 /\ cur[p].reserved \in Nat /\ e <= cur[p].reserved
            /\ spent + cur[p].reserved <= Charge + cur[p].elapsed
        BY <1>0, <1>1, <2>1, <3>1 DEF CurInv, Active, Flight, WallInv
      <4> QED BY <1>0, <2>1, <2>2, <4>1
    <3>2. CASE pc[p] \notin {"calling", "landed"}
      BY <1>0, <2>1, <2>2, <3>2
    <3> QED BY <3>1, <3>2
  <2>4. \A o \in Procs : pc'[o] = "out"
    BY <1>0, <2>1, OneCoordinator
  <2> QED BY <1>0, <1>2, <2>1, <2>3, <2>4 DEF WallInv, Flight
<1>8. ASSUME ~Begins, ~ \E p \in Procs : Record(p),
             ~ \E p \in Procs, e \in 0..CallSeconds : Crash(p, e)
      PROVE  WallInv'
  <2>1. Charge' = Charge
    BY <1>2, <1>8, RowsSteps DEF Begins
  <2>2. spent' = spent
    BY <1>8, SpentStep DEF Begins
  <2>3. \A q \in Procs : Stays(q)
    BY <1>0, <1>8, StaysStep
  <2>4. ASSUME NEW q \in Procs
        PROVE  /\ pc'[q] = "admitted" => pc[q] = "admitted" /\ cur'[q] = cur[q]
               /\ pc'[q] \in Flight => pc[q] \in Flight /\ cur'[q] = cur[q]
    BY <2>3 DEF Stays, Active, Flight
  <2> QED BY <1>0, <2>1, <2>2, <2>4 DEF WallInv
<1> QED BY <1>3, <1>4, <1>5, <1>6, <1>7, <1>8 DEF Begins

\* Functions that keep to their timeouts spend no more seconds together than
\* the wall allowance, over all sessions: a coordinator that dies leaves its
\* whole reservation charged (accounting.charged_seconds), and the next one
\* admits against what is left.
THEOREM WallKept == DistinctIds /\ Spec => []WallHolds
<1>1. Init => WallInv
  <2>1. SUFFICES ASSUME Init PROVE WallInv
    OBVIOUS
  <2>2. /\ ops = <<>> /\ spent = 0 /\ ops \in Seq(RowType)
        /\ \A p \in Procs : pc[p] = "out"
    BY <2>1 DEF Init
  <2>3. Len(ops) = 0 /\ SumOf(ChargesOf(ops)) = SumTo(ChargesOf(ops), 0)
    BY <2>2, SumsType
  <2>4. Charge = 0
    BY <2>3, SumZero DEF Charge
  <2> QED BY <2>2, <2>4, LimitTypes DEF WallInv, Flight
<1>2. Basis /\ WallInv => WallHolds
  BY ModelSums, LimitTypes DEF Basis, WallInv, WallHolds, TypeOK
<1> QED BY <1>1, <1>2, WallStep, BasisInit, BasisStep, PTL DEF Spec

-----------------------------------------------------------------------------
(* Model calls and what they cost.                                         *)

IsModel(r) == KindOf[r.key] = "model"

\* What perform() puts in a row's cost, and the most that is reported.
Priced(r) ==
    /\ r.cost = IF IsModel(r) THEN ReserveCost ELSE 0
    /\ r.use <= IF IsModel(r) THEN MaxUse ELSE 0

ModelRows(rows) == {i \in 1..Len(rows) : IsModel(rows[i])}

CostInv ==
    /\ \A i \in 1..Len(ops) : Priced(ops[i])
    /\ Cardinality(ModelRows(ops)) <= MaxCalls
    /\ MaxUse <= ReserveCost => SumOf(CostsOf(ops)) <= MaxCost
    /\ \A p \in Procs :
          /\ pc[p] \in Active => Priced(cur[p])
          /\ pc[p] = "admitted" /\ IsModel(cur[p]) =>
                /\ Cardinality(ModelRows(ops)) < MaxCalls
                /\ MaxUse <= ReserveCost =>
                      SumOf(CostsOf(ops)) + ReserveCost <= MaxCost

LEMMA PricedAdmitted ==
    ASSUME NEW r \in RowType, Priced(r), MaxUse <= ReserveCost
    PROVE  Admitted(r) = IF IsModel(r) THEN ReserveCost ELSE 0
BY LimitTypes, RowFields DEF Priced, Admitted, Larger

LEMMA ModelRowsFinite ==
    ASSUME NEW rows \in Seq(RowType)
    PROVE  IsFiniteSet(ModelRows(rows)) /\ Cardinality(ModelRows(rows)) \in Nat
<1>1. IsFiniteSet(1..Len(rows))
  BY FS_Interval
<1>2. ModelRows(rows) \subseteq 1..Len(rows)
  BY DEF ModelRows
<1> QED BY <1>1, <1>2, FS_Subset, FS_CardinalityType

LEMMA ModelRowsAppended ==
    ASSUME NEW rows \in Seq(RowType), NEW r \in RowType
    PROVE  Cardinality(ModelRows(Append(rows, r))) =
               Cardinality(ModelRows(rows)) + IF IsModel(r) THEN 1 ELSE 0
<1> DEFINE new == Append(rows, r)
<1>1. /\ Len(rows) \in Nat /\ Len(new) = Len(rows) + 1 /\ new[Len(rows) + 1] = r
      /\ \A i \in 1..Len(rows) : new[i] = rows[i]
  BY AppendedAttempts
<1> HIDE DEF new
<1>2. ModelRows(new) = IF IsModel(r) THEN ModelRows(rows) \cup {Len(rows) + 1}
                       ELSE ModelRows(rows)
  BY <1>1 DEF ModelRows
<1>3. Len(rows) + 1 \notin ModelRows(rows)
  BY <1>1 DEF ModelRows
<1>4. IsFiniteSet(ModelRows(rows)) /\ Cardinality(ModelRows(rows)) \in Nat
  BY ModelRowsFinite
<1>5. Cardinality(ModelRows(rows) \cup {Len(rows) + 1}) = Cardinality(ModelRows(rows)) + 1
  BY <1>3, <1>4, FS_AddElement
<1> QED BY <1>2, <1>4, <1>5 DEF new

\* A restated row that keeps its price leaves calls and cost alone.
LEMMA CostRestated ==
    ASSUME Basis, NEW i \in 1..Len(ops), NEW r \in RowType,
           ops' = [ops EXCEPT ![i] = r], r.key = ops[i].key,
           Priced(r), \A j \in 1..Len(ops) : Priced(ops[j])
    PROVE  /\ \A j \in 1..Len(ops') : Priced(ops'[j])
           /\ ModelRows(ops') = ModelRows(ops)
           /\ MaxUse <= ReserveCost => SumOf(CostsOf(ops')) = SumOf(CostsOf(ops))
<1>0. ops \in Seq(RowType) /\ Len(ops) \in Nat /\ \A j \in 1..Len(ops) : ops[j] \in RowType
  BY Rows DEF Basis, TypeOK
<1>1. /\ Len(ops') = Len(ops)
      /\ \A j \in 1..Len(ops) : ops'[j] = IF j = i THEN r ELSE ops[j]
  BY <1>0
<1>2. \A j \in 1..Len(ops') : Priced(ops'[j])
  BY <1>1
<1>3. ModelRows(ops') = ModelRows(ops)
  BY <1>1 DEF ModelRows, IsModel
<1>4. ASSUME MaxUse <= ReserveCost PROVE SumOf(CostsOf(ops')) = SumOf(CostsOf(ops))
  <2>1. PICK new : new = ops'
    OBVIOUS
  <2>2. SumOf(CostsOf(new)) = SumOf(CostsOf(ops)) - Admitted(ops[i]) + Admitted(r)
    BY <1>0, <2>1, SumsRestated
  <2>3. Admitted(ops[i]) = Admitted(r)
    BY <1>0, <1>4, PricedAdmitted DEF IsModel
  <2>4. Admitted(r) \in Nat /\ SumOf(CostsOf(ops)) \in Nat
    BY <1>0, AdmittedType, SumsType
  <2> QED BY <2>1, <2>2, <2>3, <2>4
<1> QED BY <1>2, <1>3, <1>4

LEMMA CostStep ==
    ASSUME DistinctIds, Basis, CostInv, [Next]_vars
    PROVE  CostInv'
<1>0. /\ TypeOK /\ LockInv /\ ops \in Seq(RowType) /\ Len(ops) \in Nat
      /\ pc \in [Procs -> {"out", "recover", "in", "admitted", "journaled",
                           "calling", "landed", "answered"}]
      /\ \A j \in 1..Len(ops) : ops[j] \in RowType
      /\ Cardinality(ModelRows(ops)) \in Nat /\ SumOf(CostsOf(ops)) \in Nat
  BY Rows, ModelRowsFinite, SumsType DEF Basis, TypeOK
<1>1. ASSUME NEW p \in Procs, Journal(p) PROVE CostInv'
  <2>1. PICK r \in RowType : r = cur[p] /\ ops' = Append(ops, r)
    BY <1>1, JournalAppends
  <2>2. /\ pc[p] = "admitted" /\ pc' = [pc EXCEPT ![p] = "journaled"] /\ cur' = cur
    BY <1>1 DEF Journal
  <2>3. Priced(r)
    BY <2>1, <2>2 DEF CostInv, Active
  <2>4. IsModel(r) => /\ Cardinality(ModelRows(ops)) < MaxCalls
                      /\ MaxUse <= ReserveCost =>
                            SumOf(CostsOf(ops)) + ReserveCost <= MaxCost
    BY <2>1, <2>2 DEF CostInv
  <2>5. \A i \in 1..Len(ops') : Priced(ops'[i])
    <3>1. /\ Len(ops') = Len(ops) + 1 /\ ops'[Len(ops) + 1] = r
          /\ \A i \in 1..Len(ops) : ops'[i] = ops[i]
      BY <1>0, <2>1, AppendedAttempts
    <3> QED BY <1>0, <2>3, <3>1 DEF CostInv
  <2>6. Cardinality(ModelRows(ops')) <= MaxCalls
    <3>1. Cardinality(ModelRows(ops')) =
             Cardinality(ModelRows(ops)) + IF IsModel(r) THEN 1 ELSE 0
      BY <1>0, <2>1, ModelRowsAppended
    <3> QED BY <1>0, <2>4, <3>1, LimitTypes DEF CostInv
  <2>7. MaxUse <= ReserveCost => SumOf(CostsOf(ops')) <= MaxCost
    <3>1. SumOf(CostsOf(ops')) = SumOf(CostsOf(ops)) + Admitted(r)
      BY <1>0, <2>1, SumsAppended
    <3>2. MaxUse <= ReserveCost => Admitted(r) = IF IsModel(r) THEN ReserveCost ELSE 0
      BY <2>3, PricedAdmitted
    <3> QED BY <1>0, <2>4, <3>1, <3>2, LimitTypes DEF CostInv
  <2>8. \A q \in Procs : pc'[q] # "out" => q = p /\ pc'[q] = "journaled"
    BY <1>0, <2>2, OneCoordinator
  <2> QED BY <2>1, <2>2, <2>3, <2>5, <2>6, <2>7, <2>8 DEF CostInv, Active
<1>2. ASSUME NEW p \in Procs, Record(p) PROVE CostInv'
  <2>1. PICK r \in RowType : /\ r = cur[p] /\ Len(ops) \in 1..Len(ops)
                             /\ ops' = [ops EXCEPT ![Len(ops)] = r]
                             /\ r.key = ops[Len(ops)].key
    BY <1>2, RecordRestates
  <2>2. /\ pc[p] = "answered" /\ pc' = [pc EXCEPT ![p] = "in"]
    BY <1>2 DEF Record
  <2>3. Priced(r)
    BY <2>1, <2>2 DEF CostInv, Active
  <2>4. /\ \A j \in 1..Len(ops') : Priced(ops'[j])
        /\ ModelRows(ops') = ModelRows(ops)
        /\ MaxUse <= ReserveCost => SumOf(CostsOf(ops')) = SumOf(CostsOf(ops))
    BY <2>1, <2>3, CostRestated DEF CostInv
  <2>5. \A q \in Procs : pc'[q] # "out" => pc'[q] = "in"
    BY <1>0, <2>2, OneCoordinator
  <2>6. \A q \in Procs : pc'[q] \notin Active
    BY <2>5 DEF Active
  <2> QED BY <2>4, <2>6 DEF CostInv, Active
<1>3. ASSUME NEW p \in Procs, NEW k \in Keys, NEW q \in Requests, Admit(p, k, q)
      PROVE  CostInv'
  <2>1. /\ pc[p] = "in" /\ pc' = [pc EXCEPT ![p] = "admitted"] /\ ops' = ops
        /\ KindOf[k] = "model" =>
              /\ Cardinality(ModelCalls) < MaxCalls
              /\ AdmittedCost + ReserveCost <= MaxCost
    BY <1>3 DEF Admit, Allowed, journal
  <2>2. cur'[p].key = k
    BY <1>0, <1>3, AdmitRow
  <2>3. /\ cur'[p].cost = IF KindOf[k] = "model" THEN ReserveCost ELSE 0
        /\ cur'[p].use = 0
    BY <1>0, <1>3 DEF Admit, TypeOK
  <2>4. Priced(cur'[p])
    BY <2>2, <2>3, LimitTypes DEF Priced, IsModel
  <2>5. ModelCalls = ModelRows(ops) /\ AdmittedCost = SumOf(CostsOf(ops))
    BY <1>0, Rows, ModelSums DEF ModelCalls, ModelRows, IsModel
  <2>6. IsModel(cur'[p]) => /\ Cardinality(ModelRows(ops)) < MaxCalls
                            /\ SumOf(CostsOf(ops)) + ReserveCost <= MaxCost
    BY <2>1, <2>2, <2>5 DEF IsModel
  <2>7. \A o \in Procs : pc'[o] # "out" => o = p /\ pc'[o] = "admitted"
    BY <1>0, <2>1, OneCoordinator
  <2> QED BY <2>1, <2>4, <2>6, <2>7 DEF CostInv, Active
<1>4. ASSUME NEW p \in Procs, NEW s \in Statuses, NEW e \in 0..CallSeconds,
             NEW u \in 0..MaxUse, Finish(p, s, e, u)
      PROVE  CostInv'
  <2>1. /\ pc[p] \in {"calling", "landed"} /\ pc' = [pc EXCEPT ![p] = "answered"]
        /\ ops' = ops /\ (u > 0 => KindOf[cur[p].key] = "model")
    BY <1>4 DEF Finish, journal
  <2>2. cur'[p].key = cur[p].key /\ cur[p] \in RowType
    BY <1>0, <1>4, <2>1, FinishRow DEF LockInv, Active
  <2>3. cur'[p].cost = cur[p].cost /\ cur'[p].use = u
    BY <1>0, <1>4, <2>2 DEF Finish, TypeOK, RowType
  <2>4. Priced(cur[p])
    BY <2>1 DEF CostInv, Active
  <2>5. Priced(cur'[p])
    BY <2>1, <2>2, <2>3, <2>4, LimitTypes DEF Priced, IsModel
  <2>6. \A o \in Procs : pc'[o] # "out" => o = p /\ pc'[o] = "answered"
    BY <1>0, <2>1, OneCoordinator
  <2> QED BY <2>1, <2>5, <2>6 DEF CostInv, Active
<1>5. ASSUME ~Begins, ~ \E p \in Procs : Record(p) PROVE CostInv'
  <2>1. /\ \A j \in 1..Len(ops') : Priced(ops'[j])
        /\ ModelRows(ops') = ModelRows(ops)
        /\ MaxUse <= ReserveCost => SumOf(CostsOf(ops')) = SumOf(CostsOf(ops))
    <3>1. CASE ops' = ops
      BY <3>1 DEF CostInv
    <3>2. ASSUME NEW i \in 1..Len(ops), NEW r \in RowType, Corrects(i, r)
          PROVE  /\ \A j \in 1..Len(ops') : Priced(ops'[j])
                 /\ ModelRows(ops') = ModelRows(ops)
                 /\ MaxUse <= ReserveCost => SumOf(CostsOf(ops')) = SumOf(CostsOf(ops))
      <4>1. /\ ops' = [ops EXCEPT ![i] = r] /\ r.key = ops[i].key
            /\ r.cost = ops[i].cost /\ r.use = ops[i].use
        BY <3>2 DEF Corrects, Restates
      <4>2. Priced(r)
        BY <4>1 DEF CostInv, Priced, IsModel
      <4> QED BY <4>1, <4>2, CostRestated DEF CostInv
    <3> QED BY <1>5, <3>1, <3>2, RowsSteps DEF Begins
  <2>2. \A q \in Procs : Stays(q)
    BY <1>0, <1>5, StaysStep
  <2>3. ASSUME NEW q \in Procs
        PROVE  /\ pc'[q] = "admitted" => pc[q] = "admitted" /\ cur'[q] = cur[q]
               /\ pc'[q] \in Active => pc[q] \in Active /\ cur'[q] = cur[q]
    BY <2>2 DEF Stays, Active, Flight
  <2>4. ASSUME NEW q \in Procs
        PROVE  /\ pc'[q] \in Active => Priced(cur'[q])
               /\ pc'[q] = "admitted" /\ IsModel(cur'[q]) =>
                     /\ Cardinality(ModelRows(ops)) < MaxCalls
                     /\ MaxUse <= ReserveCost =>
                           SumOf(CostsOf(ops)) + ReserveCost <= MaxCost
    BY <2>3 DEF CostInv
  <2> QED BY <2>1, <2>4 DEF CostInv
<1> QED BY <1>1, <1>2, <1>3, <1>4, <1>5 DEF Begins

\* Model calls and their cost stay within their allowances over all sessions:
\* a call is counted and its reservation summed from its running row on, and
\* whatever becomes of it (task_runtime.totals).
THEOREM ModelBudgetKept == DistinctIds /\ Spec => []ModelBudgetHolds
<1>1. Init => CostInv
  <2>1. SUFFICES ASSUME Init PROVE CostInv
    OBVIOUS
  <2>2. /\ ops = <<>> /\ Len(ops) = 0 /\ ops \in Seq(RowType)
        /\ \A p \in Procs : pc[p] = "out"
    BY <2>1 DEF Init
  <2>3. SumOf(CostsOf(ops)) = 0
    BY <2>2, SumsType, SumZero
  <2>4. ModelRows(ops) = {}
    BY <2>2 DEF ModelRows
  <2>5. Cardinality(ModelRows(ops)) = 0
    BY <2>4, FS_EmptySet
  <2> QED BY <2>2, <2>3, <2>5, LimitTypes DEF CostInv, Active
<1>2. Basis /\ CostInv => ModelBudgetHolds
  <2>1. Basis => ModelCalls = ModelRows(ops) /\ AdmittedCost = SumOf(CostsOf(ops))
    BY Rows, ModelSums DEF Basis, ModelCalls, ModelRows, IsModel
  <2> QED BY <2>1 DEF CostInv, ModelBudgetHolds
<1> QED BY <1>1, <1>2, CostStep, BasisInit, BasisStep, PTL DEF Spec
=============================================================================
