------------------------- MODULE OrchestratorProofs -------------------------
(***************************************************************************)
(* What holds of a route of any size, with any limits and failures: the    *)
(* types, who edits beside whom, that finished work is not done again, and *)
(* (when the process does not die between a handback and its merge, and    *)
(* the ledger takes corrections) that work lands in the order of the plan; *)
(* last, that the budget is kept, and that nothing stays reserved.         *)
(***************************************************************************)
EXTENDS Orchestrator, FiniteSetTheorems, WellFoundedInduction, TLAPS

\* Where a worker may have handed back a success.
Late == {"capture", "finished", "correct"}

FilesApart(S) == \A m, n \in S : m # n => Targets[m] \cap Targets[n] = {}

\* Either one works at a time, or every writer has a worktree and its files.
Apart ==
    /\ workers = 1 => \A m, n \in Active : m = n
    /\ workers > 1 =>
         /\ InWave \cap Mutations \subseteq isolated
         /\ FilesApart(isolated)

\* The loop's state and the ledger: nodes beyond the plan were never touched,
\* a wave is made of pending nodes, and what waits to be run is not done.
Progress ==
    /\ \A n \in All : n > nodes => state[n] = "none"
    /\ run \in {"plan", "broke", "over"} => InWave = {}
    /\ \A n \in InWave : state[n] = "pending"
    /\ \A n \in All : /\ state[n] \in {"none", "pending"}
                      /\ w[n].pc \notin Late
                      => ~Done(n)

IInv == TypeOK /\ Apart /\ Progress

-----------------------------------------------------------------------------
(* Sums of sequences of any length, as in TaskRuntimeProofs, which cannot  *)
(* be extended here: it is about variables of its own.                     *)

LEMMA LeastNumber ==
    ASSUME NEW S \in SUBSET Nat, S # {}
    PROVE  \E m \in S : \A k \in S : m <= k
<1> DEFINE R == OpToRel(<, Nat)
<1>1. \A x, y \in Nat : <<y, x>> \in R <=> y < x
  BY Zenon DEF OpToRel
<1>2. IsWellFoundedOn(R, Nat)
  BY Zenon, NatLessThanWellFounded
<1> HIDE DEF R
<1>3. PICK x \in S : \A y \in S : ~ (<<y, x>> \in R)
  BY <1>2, WFMin
<1>4. \A y \in S : ~ (y < x)
  BY <1>1, <1>3
<1>5. ASSUME NEW y \in S PROVE x <= y
  <2>1. x \in Nat /\ y \in Nat
    OBVIOUS
  <2> QED BY <1>4, <2>1
<1> QED BY <1>5

LEMMA SetInduction ==
    ASSUME NEW S, 0 \in S, \A n \in Nat : n \in S => n + 1 \in S
    PROVE  Nat \subseteq S
<1> SUFFICES ASSUME Nat \ S # {} PROVE FALSE
  OBVIOUS
<1>1. PICK m \in Nat \ S : \A k \in Nat \ S : m <= k
  BY LeastNumber
<1>2. m # 0 /\ m - 1 \in Nat /\ m - 1 \in S
  BY <1>1
<1> QED BY <1>1, <1>2

-----------------------------------------------------------------------------
(* The function of the sums of all prefixes exists, and is the only one.   *)

Prefix(f, d, n) == f = [i \in 0..n |-> IF i = 0 THEN 0 ELSE f[i - 1] + d[i]]

Numbers(d, n) == \A i \in 1..n : d[i] \in Nat

LEMMA PrefixExists ==
    ASSUME NEW n \in Nat, NEW d, Numbers(d, n)
    PROVE  \E f \in [0..n -> Nat] : Prefix(f, d, n)
<1> DEFINE S == {m \in Nat : m <= n => \E f \in [0..m -> Nat] : Prefix(f, d, m)}
<1>1. 0 \in S
  <2> DEFINE f == [i \in 0..0 |-> 0]
  <2>1. f \in [0..0 -> Nat] /\ Prefix(f, d, 0)
    BY DEF Prefix
  <2> QED BY <2>1
<1>2. ASSUME NEW m \in Nat, m \in S PROVE m + 1 \in S
  <2> SUFFICES ASSUME m + 1 <= n
               PROVE  \E g \in [0..(m + 1) -> Nat] : Prefix(g, d, m + 1)
    OBVIOUS
  <2>1. PICK f \in [0..m -> Nat] : Prefix(f, d, m)
    BY <1>2
  <2> DEFINE g == [i \in 0..(m + 1) |-> IF i = m + 1 THEN f[m] + d[m + 1] ELSE f[i]]
  <2>2. d[m + 1] \in Nat /\ f[m] \in Nat
    BY DEF Numbers
  <2>3. g \in [0..(m + 1) -> Nat]
    BY <2>2
  <2>4. ASSUME NEW i \in 0..(m + 1)
        PROVE  g[i] = IF i = 0 THEN 0 ELSE g[i - 1] + d[i]
    <3>1. CASE i = m + 1
      BY <3>1
    <3>2. CASE i \in 0..m
      <4>1. f[i] = IF i = 0 THEN 0 ELSE f[i - 1] + d[i]
        BY <2>1, <3>2 DEF Prefix
      <4>2. i # 0 => g[i - 1] = f[i - 1]
        BY <3>2
      <4> QED BY <3>2, <4>1, <4>2
    <3> QED BY <3>1, <3>2
  <2> HIDE DEF g
  <2>5. Prefix(g, d, m + 1)
    BY <2>3, <2>4 DEF Prefix
  <2> QED BY <2>3, <2>5
<1>3. n \in S
  <2> HIDE DEF S
  <2> QED BY <1>1, <1>2, SetInduction
<1> QED BY <1>3

\* Two of them agree as far as their summands do.
LEMMA PrefixAgree ==
    ASSUME NEW n \in Nat, NEW d, NEW f, Prefix(f, d, n),
           NEW m \in Nat, NEW e, NEW g, Prefix(g, e, m),
           NEW k \in Nat, k <= n, k <= m, \A i \in 1..k : d[i] = e[i]
    PROVE  f[k] = g[k]
<1> DEFINE S == {i \in Nat : i <= k => f[i] = g[i]}
<1>1. 0 \in S
  BY DEF Prefix
<1>2. ASSUME NEW i \in Nat, i \in S PROVE i + 1 \in S
  <2> SUFFICES ASSUME i + 1 <= k PROVE f[i + 1] = g[i + 1]
    OBVIOUS
  <2>1. f[i] = g[i] /\ d[i + 1] = e[i + 1]
    BY <1>2
  <2>2. f[i + 1] = f[(i + 1) - 1] + d[i + 1] /\ g[i + 1] = g[(i + 1) - 1] + e[i + 1]
    BY DEF Prefix
  <2> QED BY <2>1, <2>2
<1>3. k \in S
  <2> HIDE DEF S
  <2> QED BY <1>1, <1>2, SetInduction
<1> QED BY <1>3

LEMMA SumIsPrefix ==
    ASSUME NEW n \in Nat, NEW d, NEW f, Prefix(f, d, n)
    PROVE  SumTo(d, n) = f[n]
<1> DEFINE P(g) == g = [i \in 0..n |-> IF i = 0 THEN 0 ELSE g[i - 1] + d[i]]
<1> DEFINE h == CHOOSE g : P(g)
<1>1. P(f)
  BY DEF Prefix
<1>2. P(h)
  <2> HIDE DEF P
  <2> QED BY <1>1
<1>3. SumTo(d, n) = h[n]
  BY DEF SumTo
<1>4. Prefix(h, d, n)
  BY <1>2 DEF Prefix
<1> HIDE DEF h
<1> QED BY <1>3, <1>4, PrefixAgree

-----------------------------------------------------------------------------
(* The facts other modules use.                                            *)

LEMMA SumType ==
    ASSUME NEW n \in Nat, NEW d, Numbers(d, n)
    PROVE  SumTo(d, n) \in Nat
BY PrefixExists, SumIsPrefix

LEMMA SumZero ==
    ASSUME NEW d
    PROVE  SumTo(d, 0) = 0
<1>1. Numbers(d, 0)
  BY DEF Numbers
<1>2. PICK f \in [0..0 -> Nat] : Prefix(f, d, 0)
  BY <1>1, PrefixExists
<1>3. f[0] = 0
  BY <1>2 DEF Prefix
<1> QED BY <1>2, <1>3, SumIsPrefix

LEMMA SumSame ==
    ASSUME NEW n \in Nat, NEW d, NEW e, Numbers(d, n), Numbers(e, n),
           \A i \in 1..n : d[i] = e[i]
    PROVE  SumTo(d, n) = SumTo(e, n)
<1>1. PICK f \in [0..n -> Nat] : Prefix(f, d, n)
  BY PrefixExists
<1>2. PICK g \in [0..n -> Nat] : Prefix(g, e, n)
  BY PrefixExists
<1> QED BY <1>1, <1>2, PrefixAgree, SumIsPrefix

LEMMA SumNext ==
    ASSUME NEW n \in Nat, NEW d, Numbers(d, n + 1)
    PROVE  SumTo(d, n + 1) = SumTo(d, n) + d[n + 1]
<1>1. Numbers(d, n)
  BY DEF Numbers
<1>2. PICK f \in [0..(n + 1) -> Nat] : Prefix(f, d, n + 1)
  BY PrefixExists
<1>3. PICK g \in [0..n -> Nat] : Prefix(g, d, n)
  BY <1>1, PrefixExists
<1>4. f[n] = g[n]
  BY <1>2, <1>3, PrefixAgree
<1>5. f[n + 1] = f[(n + 1) - 1] + d[n + 1]
  BY <1>2 DEF Prefix
<1> QED BY <1>2, <1>3, <1>4, <1>5, SumIsPrefix

\* One summand is replaced.
LEMMA SumChange ==
    ASSUME NEW n \in Nat, NEW d, NEW e, Numbers(d, n), Numbers(e, n),
           NEW j \in 1..n, \A i \in (1..n) \ {j} : d[i] = e[i]
    PROVE  SumTo(e, n) = SumTo(d, n) - d[j] + e[j]
<1> DEFINE S == {m \in Nat : j <= m /\ m <= n =>
                    SumTo(e, m) = SumTo(d, m) - d[j] + e[j]}
<1>1. 0 \in S
  OBVIOUS
<1>2. ASSUME NEW m \in Nat, m \in S PROVE m + 1 \in S
  <2> SUFFICES ASSUME j <= m + 1, m + 1 <= n
               PROVE  SumTo(e, m + 1) = SumTo(d, m + 1) - d[j] + e[j]
    OBVIOUS
  <2>1. /\ Numbers(d, m + 1) /\ Numbers(e, m + 1)
        /\ Numbers(d, m) /\ Numbers(e, m)
        /\ d[j] \in Nat /\ e[j] \in Nat /\ d[m + 1] \in Nat /\ e[m + 1] \in Nat
    BY DEF Numbers
  <2>2. /\ SumTo(d, m + 1) = SumTo(d, m) + d[m + 1]
        /\ SumTo(e, m + 1) = SumTo(e, m) + e[m + 1]
        /\ SumTo(d, m) \in Nat /\ SumTo(e, m) \in Nat
    BY <2>1, SumNext, SumType
  <2>3. CASE j = m + 1
    <3>1. SumTo(d, m) = SumTo(e, m)
      BY <2>1, <2>3, SumSame
    <3> QED BY <2>1, <2>2, <2>3, <3>1
  <2>4. CASE j <= m
    <3>1. SumTo(e, m) = SumTo(d, m) - d[j] + e[j]
      BY <1>2, <2>4
    <3>2. d[m + 1] = e[m + 1]
      BY <2>4
    <3> QED BY <2>1, <2>2, <3>1, <3>2
  <2> QED BY <2>3, <2>4
<1>3. n \in S
  <2> HIDE DEF S
  <2> QED BY <1>1, <1>2, SetInduction
<1> QED BY <1>3

-----------------------------------------------------------------------------
(* Facts about the constants and the operators.                            *)

LEMMA Estimates ==
    \A n \in All : Est[n] \in Nat /\ Ratio * Est[n] \in Nat
<1> SUFFICES ASSUME NEW n \in All PROVE Est[n] \in Nat /\ Ratio * Est[n] \in Nat
  OBVIOUS
<1>1. Est[n] \in Nat /\ Ratio \in Nat
  BY LimitsAssumption
<1>2. \A a, b \in Nat : a * b \in Nat
  OBVIOUS
<1> QED BY <1>1, <1>2

LEMMA CardinalityOfNodes ==
    ASSUME NEW S \in SUBSET All
    PROVE  /\ Cardinality(S) \in Nat
           /\ Cardinality(S) = 0 <=> S = {}
<1>1. IsFiniteSet(All)
  BY PlanAssumption, FS_Interval DEF All
<1>2. IsFiniteSet(S)
  BY <1>1, FS_Subset
<1> QED BY <1>2, FS_CardinalityType, FS_EmptySet

\* A wave takes ready nodes only, on one thread or with its writers apart.
LEMMA SelectFacts ==
    ASSUME NEW R \in SUBSET All, R # {}, NEW clean \in BOOLEAN,
           NEW final \in BOOLEAN, NEW s, s = Select(R, clean, final)
    PROVE  /\ s.take \subseteq R /\ s.by \in Nat \ {0}
           /\ s.alone \subseteq s.take
           /\ s.by > 1 =>
                /\ s.take \cap Mutations \subseteq s.alone
                /\ FilesApart(s.alone)
<1>1. MaxWorkers \in Nat /\ MaxWorkers # 0
  BY LimitsAssumption
<1>2. Cardinality(R) \in Nat /\ Cardinality(R) # 0
  BY CardinalityOfNodes
<1> DEFINE writers == R \cap Mutations
           readers == R \ Mutations
           cap == IF writers = {} /\ Cardinality(R) = 2 THEN 2 ELSE 4
<1>3. CASE writers # {} /\ ~Separate(writers, clean)
  <2>1. Select(R, clean, final) = SharedPolicy(R, clean, final)
    BY <1>3 DEF Select
  <2>2. CASE ~final /\ Cardinality(R) > 1 /\ MaxWorkers > 1 /\ readers # {}
    <3>1. Select(R, clean, final) =
            [take |-> readers, alone |-> {},
             by |-> Smaller(Smaller(MaxWorkers, 4), Cardinality(readers))]
      BY <2>1, <2>2 DEF SharedPolicy
    <3>2. Cardinality(readers) \in Nat /\ Cardinality(readers) # 0
      BY <2>2, CardinalityOfNodes
    <3>3. Smaller(Smaller(MaxWorkers, 4), Cardinality(readers)) \in Nat \ {0}
      BY <1>1, <3>2 DEF Smaller
    <3> QED BY <3>1, <3>3 DEF FilesApart
  <2>3. CASE ~(~final /\ Cardinality(R) > 1 /\ MaxWorkers > 1 /\ readers # {})
    <3>1. Select(R, clean, final) = [take |-> R, by |-> 1, alone |-> {}]
      BY <2>1, <2>3 DEF SharedPolicy
    <3> QED BY <3>1
  <2> QED BY <2>2, <2>3
<1>4. CASE ~(writers # {} /\ ~Separate(writers, clean))
  <2> DEFINE by == Larger(1, Smaller(Smaller(MaxWorkers, cap), Cardinality(R)))
  <2>1. Select(R, clean, final) = [take |-> R, alone |-> writers, by |-> by]
    BY <1>4 DEF Select
  <2>2. by \in Nat \ {0}
    BY <1>1, <1>2 DEF Larger, Smaller
  <2>3. FilesApart(writers)
    BY <1>4 DEF Separate, Overlap, FilesApart
  <2> HIDE DEF by
  <2> QED BY <2>1, <2>2, <2>3
<1> QED BY <1>3, <1>4

\* A row that is written, or lost, leaves a ledger of the same type.
LEMMA RecordType ==
    ASSUME TypeOK, NEW kind, NEW new \in [All -> RowsType], Record(kind, new)
    PROVE  led' \in [All -> RowsType] /\ drops' \in 0..MaxDrops
BY LimitsAssumption DEF Record, TypeOK

LEMMA ClaimType ==
    ASSUME TypeOK, NEW n \in All, NEW k \in Nat
    PROVE  WithClaim(n, k) \in [All -> RowsType]
<1>1. led \in [All -> RowsType]
  BY DEF TypeOK
<1> DEFINE a == Larger(led[n].attempts, k)
<1>2. a \in Nat
  BY <1>1 DEF RowsType, Larger
<1>3. WithClaim(n, k) = [led EXCEPT ![n].attempts = a, ![n].claimed = k]
  BY DEF WithClaim
<1> HIDE DEF a
<1> DEFINE new == [led[n] EXCEPT !.attempts = a, !.claimed = k]
<1>4. new \in RowsType
  BY <1>1, <1>2 DEF RowsType
<1>5. WithClaim(n, k) = [led EXCEPT ![n] = new]
  BY <1>1, <1>3
<1> HIDE DEF new
<1> QED BY <1>1, <1>4, <1>5

LEMMA HandbackType ==
    ASSUME TypeOK, NEW n \in All, NEW k \in Nat,
           NEW reason \in {"done", "failed"}, NEW cost \in Nat \cup {NoCost}
    PROVE  WithHandback(n, k, reason, cost) \in [All -> RowsType]
<1>1. led \in [All -> RowsType]
  BY DEF TypeOK
<1> DEFINE c == IF cost = NoCost THEN led[n].cost ELSE led[n].cost + cost
           p == led[n].priced /\ cost # NoCost
           f == [led EXCEPT ![n].handed = k, ![n].reason = reason]
           g == [f EXCEPT ![n].cost = c]
<1>2. c \in Nat
  BY <1>1 DEF RowsType
<1>3. p \in BOOLEAN
  OBVIOUS
<1>4. WithHandback(n, k, reason, cost) =
        [led EXCEPT ![n].handed = k, ![n].reason = reason, ![n].cost = c,
                    ![n].priced = p]
  BY <1>1 DEF WithHandback
<1> HIDE DEF c, p
<1>5. WithHandback(n, k, reason, cost) = [g EXCEPT ![n].priced = p]
  BY <1>4
<1>6. f \in [All -> RowsType]
  BY <1>1 DEF RowsType
<1> HIDE DEF f
<1>7. g \in [All -> RowsType]
  BY <1>2, <1>6 DEF RowsType
<1> HIDE DEF g
<1> QED BY <1>3, <1>5, <1>7 DEF RowsType

\* A worker whose fields change keeps its type.
LEMMA WorkerChanges ==
    ASSUME NEW f \in [All -> WorkerType], NEW n \in All, NEW p \in Pcs,
           NEW b \in BOOLEAN
    PROVE  /\ [f EXCEPT ![n].pc = p] \in [All -> WorkerType]
           /\ [f EXCEPT ![n].pc = p, ![n].ok = b] \in [All -> WorkerType]
           /\ [f EXCEPT ![n].pc = p, ![n].strong = b] \in [All -> WorkerType]
           /\ [f EXCEPT ![n].pc = p, ![n].patch = b] \in [All -> WorkerType]
<1>1. [f EXCEPT ![n].pc = p] \in [All -> WorkerType]
  BY DEF WorkerType
<1>2. [f EXCEPT ![n].pc = p, ![n].ok = b] \in [All -> WorkerType]
  BY DEF WorkerType
<1>3. [f EXCEPT ![n].pc = p, ![n].strong = b] \in [All -> WorkerType]
  BY DEF WorkerType
<1>4. [f EXCEPT ![n].pc = p, ![n].patch = b] \in [All -> WorkerType]
  BY DEF WorkerType
<1> QED BY <1>1, <1>2, <1>3, <1>4

LEMMA WorkerCounts ==
    ASSUME NEW f \in [All -> WorkerType], NEW n \in All, NEW p \in Pcs,
           NEW a \in Nat
    PROVE  [f EXCEPT ![n].pc = p, ![n].attempt = a] \in [All -> WorkerType]
BY DEF WorkerType

LEMMA WorkerReturns ==
    ASSUME NEW f \in [All -> WorkerType], NEW n \in All, NEW p \in Pcs,
           NEW k \in Kinds \cup {"done"}, NEW c \in Nat \cup {NoCost}
    PROVE  [f EXCEPT ![n].pc = p, ![n].kind = k, ![n].cost = c]
             \in [All -> WorkerType]
<1> DEFINE g == [f EXCEPT ![n].pc = p, ![n].kind = k]
<1>1. g \in [All -> WorkerType]
  BY DEF WorkerType
<1>2. [f EXCEPT ![n].pc = p, ![n].kind = k, ![n].cost = c]
        = [g EXCEPT ![n].cost = c]
  OBVIOUS
<1> HIDE DEF g
<1> QED BY <1>1, <1>2 DEF WorkerType

LEMMA PcNames == {"queued", "enter", "launch", "back", "decide", "retry",
                  "capture", "finished", "correct"} \subseteq Pcs
BY DEF Pcs

LEMMA WorkersTyped == TypeOK => w \in [All -> WorkerType]
BY DEF TypeOK

LEMMA IdleType == Idle \in WorkerType /\ Idle.pc = "out" /\ ~Idle.ok
BY DEF Idle, WorkerType, Pcs

-----------------------------------------------------------------------------
(* Types.                                                                  *)

LEMMA InitType == Init => TypeOK
<1> SUFFICES ASSUME Init PROVE TypeOK
  OBVIOUS
<1>1. led \in [All -> RowsType]
  BY DEF Init, NoRows, RowsType
<1>2. nodes \in All /\ workers \in Nat \ {0} /\ runs \in Nat
  BY PlanAssumption DEF Init
<1>3. /\ waves \in 0..MaxWaves /\ replans \in 0..MaxReplans
      /\ deaths \in 0..MaxDeaths /\ drops \in 0..MaxDrops /\ spentEst \in Nat
  BY LimitsAssumption DEF Init
<1>4. w \in [All -> WorkerType]
  BY IdleType DEF Init
<1> QED BY <1>1, <1>2, <1>3, <1>4 DEF Init, TypeOK, Running

LEMMA LoopType == TypeOK /\ Loop => TypeOK'
<1> SUFFICES ASSUME TypeOK, Loop PROVE TypeOK'
  OBVIOUS
<1>1. Marked \in [All -> {"none", "pending", "ok", "failed", "skipped"}]
  BY DEF Marked, TypeOK
<1>2. CASE StartWave
  <2>1. PICK clean \in BOOLEAN :
          LET s == Select(Ready, clean, waves + 1 >= MaxWaves)
          IN  /\ w' = [n \in All |->
                        IF n \in s.take THEN [Idle EXCEPT !.pc = "queued"] ELSE Idle]
              /\ workers' = s.by
              /\ isolated' = s.alone
    BY <1>2 DEF StartWave
  <2> DEFINE final == waves + 1 >= MaxWaves
             s == Select(Ready, clean, final)
  <2>2. Ready \in SUBSET All /\ Ready # {} /\ final \in BOOLEAN
    BY <1>2 DEF StartWave, Ready
  <2> HIDE DEF final
  <2>0. s = Select(Ready, clean, final)
    OBVIOUS
  <2> HIDE DEF s
  <2>3. s.take \subseteq Ready /\ s.by \in Nat \ {0} /\ s.alone \subseteq s.take
    BY <2>0, <2>2, SelectFacts
  <2>4. [Idle EXCEPT !.pc = "queued"] \in WorkerType
    BY DEF Idle, WorkerType, Pcs
  <2>5. w' \in [All -> WorkerType]
    BY <2>1, <2>4, IdleType DEF s, final
  <2>6. workers' \in Nat \ {0} /\ isolated' \subseteq All
    BY <2>1, <2>2, <2>3 DEF s, final
  <2>7. waves' \in 0..MaxWaves
    BY <1>2, LimitsAssumption DEF StartWave, TypeOK
  <2> QED BY <1>1, <1>2, <2>5, <2>6, <2>7 DEF StartWave, TypeOK, Running, bounds
<1>3. CASE Replan
  <2>1. PICK k \in (nodes + 1)..MaxNodes :
          /\ nodes' = k
          /\ state' = [n \in All |->
                         IF n \in (nodes + 1)..k THEN "pending" ELSE Marked[n]]
    BY <1>3 DEF Replan
  <2>2. k \in All
    BY PlanAssumption DEF TypeOK, All
  <2>3. state' \in [All -> {"none", "pending", "ok", "failed", "skipped"}]
    BY <1>1, <2>1
  <2>4. replans' \in 0..MaxReplans
    BY <1>3, LimitsAssumption DEF Replan, MayReplan, TypeOK
  <2> QED BY <1>3, <2>1, <2>2, <2>3, <2>4 DEF Replan, TypeOK, bounds
<1>4. CASE Stop
  BY <1>4 DEF Stop, TypeOK, bounds, Running
<1>5. CASE Merge
  BY <1>5 DEF Merge, TypeOK, bounds, loop, Running, Patched, InWave
<1>6. CASE Conflict
  <2>1. \A r \in WorkerType : [r EXCEPT !.pc = "correct", !.ok = FALSE] \in WorkerType
    BY DEF WorkerType, Pcs
  <2>2. w' \in [All -> WorkerType]
    BY <1>6, <2>1, WorkersTyped DEF Conflict
  <2> QED BY <1>6, <2>2 DEF Conflict, TypeOK, bounds, loop, Running
<1>7. CASE Settle
  <2>1. Numbers([n \in All |-> Estimated(n)], MaxNodes)
    BY Estimates DEF Numbers, All, Estimated
  <2>2. SumTo([n \in All |-> Estimated(n)], MaxNodes) \in Nat
    BY <2>1, SumType, PlanAssumption
  <2>3. spentEst' \in Nat
    BY <1>7, <2>2 DEF Settle, TypeOK
  <2>4. w' \in [All -> WorkerType]
    BY <1>7, IdleType DEF Settle
  <2>5. run' \in Running
    BY <1>7 DEF Settle, Running
  <2>6. state' \in [All -> {"none", "pending", "ok", "failed", "skipped"}]
    BY <1>7 DEF Settle, TypeOK
  <2>7. isolated' = {}
    BY <1>7 DEF Settle
  <2> QED BY <1>7, <2>3, <2>4, <2>5, <2>6, <2>7 DEF Settle, TypeOK, bounds
<1> QED BY <1>2, <1>3, <1>4, <1>5, <1>6, <1>7 DEF Loop

\* What the step of a worker leaves alone.
LEMMA WorkType ==
    ASSUME TypeOK, led' \in [All -> RowsType], drops' \in 0..MaxDrops,
           w' \in [All -> WorkerType], landed' \subseteq All,
           retriedInParallel' \in BOOLEAN, excess' \in Nat,
           UNCHANGED <<main, runs, deaths>>
    PROVE  TypeOK'
BY DEF TypeOK, main, loop

LEMMA IsolationFailsType ==
    ASSUME TypeOK, NEW n \in All, NEW pcs, IsolationFails(n, pcs)
    PROVE  TypeOK'
<1>1. Larger(w[n].attempt, 1) \in Nat
  BY DEF TypeOK, WorkerType, Larger
<1>2. WithHandback(n, Larger(w[n].attempt, 1), "failed", NoCost) \in [All -> RowsType]
  BY <1>1, HandbackType
<1>3. led' \in [All -> RowsType] /\ drops' \in 0..MaxDrops
  BY <1>2, RecordType DEF IsolationFails
<1>4. w' \in [All -> WorkerType]
  BY WorkersTyped, WorkerChanges, PcNames DEF IsolationFails
<1> QED BY <1>3, <1>4, WorkType DEF IsolationFails, TypeOK

LEMMA StepType ==
    ASSUME TypeOK, NEW n \in All, Step(n)
    PROVE  TypeOK'
<1>1. CASE Claim(n)
  <2>1. led[n].attempts + 1 \in Nat
    BY DEF TypeOK, RowsType
  <2>2. led' \in [All -> RowsType] /\ drops' \in 0..MaxDrops
    BY <1>1, <2>1, ClaimType, RecordType DEF Claim
  <2> DEFINE a == led[n].attempts + (IF n \in isolated THEN 0 ELSE 1)
             p == IF n \in isolated THEN "enter" ELSE "launch"
  <2>3. a \in Nat /\ p \in Pcs
    BY PcNames DEF TypeOK, RowsType
  <2>4. w' = [w EXCEPT ![n].pc = p, ![n].attempt = a]
    BY <1>1 DEF Claim
  <2> HIDE DEF a, p
  <2>5. w' \in [All -> WorkerType]
    BY <2>3, <2>4, WorkersTyped, WorkerCounts
  <2> QED BY <1>1, <2>2, <2>5, WorkType DEF Claim, TypeOK
<1>2. CASE Refuse(n)
  BY <1>2, WorkType DEF Refuse, TypeOK, WorkerType, Pcs, bounds, Goes
<1>3. CASE Enter(n)
  BY <1>3, WorkType DEF Enter, TypeOK, WorkerType, Pcs, bounds
<1>4. CASE Launch(n)
  <2>1. PICK kind \in Kinds \cup {"done"}, cost \in Costs(n) :
          /\ w' = [w EXCEPT ![n].pc = "back", ![n].kind = kind, ![n].cost = cost]
          /\ landed' = IF kind = "done" /\ n \notin isolated
                       THEN landed \cup {n} ELSE landed
    BY <1>4 DEF Launch
  <2>2. MaxPrice(n) \in Nat
    BY Estimates DEF MaxPrice
  <2>3. cost \in Nat \cup {NoCost}
    BY <2>2, ChoicesAssumption DEF Costs, Larger, NoCost
  <2>4. w' \in [All -> WorkerType]
    BY <2>1, <2>3, WorkersTyped, WorkerReturns, PcNames
  <2>5. landed' \subseteq All
    BY <2>1 DEF TypeOK
  <2> QED BY <1>4, <2>4, <2>5, WorkType DEF Launch, TypeOK, bounds
<1>5. CASE Handback(n)
  <2>1. /\ w[n].attempt \in Nat /\ Reason(n) \in {"done", "failed"}
        /\ w[n].cost \in Nat \cup {NoCost}
    BY DEF TypeOK, WorkerType, Reason
  <2>2. led' \in [All -> RowsType] /\ drops' \in 0..MaxDrops
    BY <1>5, <2>1, HandbackType, RecordType DEF Handback
  <2> DEFINE p == IF w[n].kind # "done" THEN "decide"
                  ELSE IF n \in isolated THEN "capture" ELSE "finished"
             b == w[n].kind = "done"
  <2>3. p \in Pcs /\ b \in BOOLEAN
    BY PcNames
  <2>4. w' = [w EXCEPT ![n].pc = p, ![n].ok = b]
    BY <1>5 DEF Handback
  <2> HIDE DEF p, b
  <2>5. w' \in [All -> WorkerType]
    BY <2>3, <2>4, WorkersTyped, WorkerChanges
  <2>6. excess' \in Nat
    <3>1. MaxPrice(n) \in Nat
      BY Estimates DEF MaxPrice
    <3>2. w[n].cost \in Int /\ excess \in Nat
      BY <2>1 DEF NoCost, TypeOK
    <3>3. \A x, y \in Int : Larger(0, x - y) \in Nat
      BY DEF Larger
    <3> QED BY <1>5, <3>1, <3>2, <3>3 DEF Handback
  <2> QED BY <1>5, <2>2, <2>5, <2>6, WorkType DEF Handback, TypeOK
<1>6. CASE Capture(n)
  <2>1. w' \in [All -> WorkerType]
    BY <1>6, WorkersTyped, WorkerChanges, PcNames DEF Capture
  <2> QED BY <1>6, <2>1, WorkType DEF Capture, TypeOK, bounds
<1>7. CASE Decide(n)
  <2> DEFINE b == w[n].strong \/ Chosen(n) = "escalate"
  <2>1. b \in BOOLEAN
    BY WorkersTyped DEF WorkerType
  <2>2. w' = [w EXCEPT ![n].pc = "retry", ![n].strong = b]
    BY <1>7 DEF Decide
  <2> HIDE DEF b
  <2>3. w' \in [All -> WorkerType]
    BY <2>1, <2>2, WorkersTyped, WorkerChanges, PcNames
  <2> QED BY <1>7, <2>3, WorkType DEF Decide, TypeOK, bounds
<1>8. CASE GiveUp(n)
  BY <1>8, WorkType DEF GiveUp, TypeOK, WorkerType, Pcs, bounds, Goes
<1>9. CASE Retry(n)
  <2>1. w[n].attempt + 1 \in Nat
    BY DEF TypeOK, WorkerType
  <2>2. led' \in [All -> RowsType] /\ drops' \in 0..MaxDrops
    BY <1>9, <2>1, ClaimType, RecordType DEF Retry
  <2>3. w' \in [All -> WorkerType]
    BY <1>9 DEF Retry, TypeOK, WorkerType, Pcs
  <2> QED BY <1>9, <2>2, <2>3, WorkType DEF Retry, TypeOK
<1>10. CASE IsolationFails(n, {"enter", "capture"})
  BY <1>10, IsolationFailsType
<1>11. CASE GoesOn(n) /\ IsolationFails(n, {"decide"})
  BY <1>11, IsolationFailsType
<1>12. CASE Correct(n)
  <2>1. Larger(w[n].attempt, 1) \in Nat
    BY DEF TypeOK, WorkerType, Larger
  <2>2. led' \in [All -> RowsType] /\ drops' \in 0..MaxDrops
    BY <1>12, <2>1, HandbackType, RecordType DEF Correct
  <2>3. w' \in [All -> WorkerType]
    BY <1>12 DEF Correct, TypeOK, WorkerType, Pcs, Goes
  <2> QED BY <1>12, <2>2, <2>3, WorkType DEF Correct, TypeOK
<1> QED BY <1>1, <1>2, <1>3, <1>4, <1>5, <1>6, <1>7, <1>8, <1>9, <1>10, <1>11,
           <1>12 DEF Step, Work

LEMMA NextType == TypeOK /\ [Next]_vars => TypeOK'
<1> SUFFICES ASSUME TypeOK, [Next]_vars PROVE TypeOK'
  OBVIOUS
<1>1. CASE Resume
  <2>1. w' \in [All -> WorkerType]
    BY <1>1, IdleType DEF Resume
  <2>2. state' \in [All -> {"none", "pending", "ok", "failed", "skipped"}]
    BY <1>1 DEF Resume, Restored
  <2>3. /\ waves' \in 0..MaxWaves /\ replans' \in 0..MaxReplans
        /\ spentEst' \in Nat /\ runs' \in Nat
    BY <1>1, LimitsAssumption DEF Resume, TypeOK
  <2>4. run' \in Running /\ isolated' \subseteq All
    BY <1>1 DEF Resume, Running
  <2> QED BY <1>1, <2>1, <2>2, <2>3, <2>4 DEF Resume, TypeOK
<1>2. CASE Die
  <2>1. deaths' \in 0..MaxDeaths
    BY <1>2, LimitsAssumption DEF Die, TypeOK
  <2> QED BY <1>2, <2>1 DEF Die, TypeOK, loop
<1>3. CASE UNCHANGED vars
  BY <1>3 DEF vars, TypeOK, loop, bounds
<1> QED BY <1>1, <1>2, <1>3, LoopType, StepType DEF Next

\* Ledger, loop, workers and counts keep their types.
THEOREM TypeCorrect == Spec => []TypeOK
BY InitType, NextType, PTL DEF Spec

-----------------------------------------------------------------------------
(* What a worker's step may do to the rows and to the wave.                *)

LEMMA ClaimShape ==
    ASSUME TypeOK, NEW n \in All, NEW k \in Nat
    PROVE  /\ \A m \in All \ {n} : WithClaim(n, k)[m] = led[m]
           /\ WithClaim(n, k)[n].reason = led[n].reason
BY DEF WithClaim, TypeOK, RowsType

LEMMA HandbackShape ==
    ASSUME TypeOK, NEW n \in All, NEW k, NEW reason, NEW cost
    PROVE  /\ \A m \in All \ {n} : WithHandback(n, k, reason, cost)[m] = led[m]
           /\ WithHandback(n, k, reason, cost)[n].reason = reason
           /\ WithHandback(n, k, reason, cost)[n].attempts = led[n].attempts
BY DEF WithHandback, TypeOK, RowsType

\* A step of node n concerns n alone.  It joins the active ones from the queue
\* when there is a thread, never comes back from a success, and claims only
\* before one.
StepShape(n) ==
    /\ UNCHANGED main /\ run \in {"wave", "settle"}
    /\ \A m \in All \ {n} : w'[m] = w[m] /\ led'[m] = led[m]
    /\ w[n].pc # "out" /\ w'[n].pc \notin {"out", "queued"}
    /\ w[n].pc = "queued" => w'[n].pc = "finished" \/ Cardinality(Active) < workers
    /\ w[n].pc \in {"finished", "correct"} => w'[n].pc = "finished"
    /\ w'[n].pc \notin Late =>
         w[n].pc \notin Late /\ (led'[n].reason = "done" => led[n].reason = "done")
    /\ led'[n].attempts # led[n].attempts => w[n].pc \in {"queued", "retry"}

LEMMA IsolationFailsShape ==
    ASSUME TypeOK, NEW n \in All, NEW pcs \in SUBSET {"enter", "capture", "decide"},
           IsolationFails(n, pcs)
    PROVE  StepShape(n)
<1>1. /\ w \in [All -> WorkerType] /\ run = "wave" /\ w[n].pc \in pcs
      /\ w' = [w EXCEPT ![n].pc = "finished", ![n].ok = FALSE]
      /\ UNCHANGED main
  BY DEF IsolationFails, TypeOK
<1>2. /\ \A m \in All \ {n} : led'[m] = led[m]
      /\ led'[n].attempts = led[n].attempts
  BY HandbackShape DEF IsolationFails, Record
<1>3. w'[n].pc = "finished" /\ \A m \in All \ {n} : w'[m] = w[m]
  BY <1>1 DEF WorkerType
<1> QED BY <1>1, <1>2, <1>3 DEF StepShape, Late

LEMMA StepShapes ==
    ASSUME TypeOK, NEW n \in All, Step(n)
    PROVE  StepShape(n)
<1>0. w \in [All -> WorkerType] /\ led \in [All -> RowsType]
  BY DEF TypeOK
<1>1. CASE Claim(n)
  <2>1. led[n].attempts + 1 \in Nat
    BY <1>0 DEF RowsType
  <2>2. /\ \A m \in All \ {n} : led'[m] = led[m]
        /\ led'[n].reason = led[n].reason
    <3>1. led' = led \/ led' = WithClaim(n, led[n].attempts + 1)
      BY <1>1 DEF Claim, Record
    <3> QED BY <2>1, <3>1, ClaimShape
  <2>3. /\ w'[n].pc \in {"enter", "launch"}
        /\ \A m \in All \ {n} : w'[m] = w[m]
    BY <1>0, <1>1 DEF Claim, WorkerType
  <2> QED BY <1>1, <2>2, <2>3 DEF Claim, StepShape, Late
<1>2. CASE Refuse(n)
  BY <1>0, <1>2 DEF Refuse, Goes, StepShape, Late, WorkerType
<1>3. CASE Enter(n)
  BY <1>0, <1>3 DEF Enter, StepShape, Late, WorkerType
<1>4. CASE Launch(n)
  <2>1. w'[n].pc = "back" /\ \A m \in All \ {n} : w'[m] = w[m]
    BY <1>0, <1>4 DEF Launch, WorkerType
  <2> QED BY <1>4, <2>1 DEF Launch, StepShape, Late
<1>5. CASE Handback(n)
  <2>1. /\ \A m \in All \ {n} : led'[m] = led[m]
        /\ led'[n].attempts = led[n].attempts
        /\ led'[n].reason \in {led[n].reason, Reason(n)}
    BY <1>5, HandbackShape DEF Handback, Record
  <2>2. /\ w[n].kind = "done" => w'[n].pc \in Late
        /\ w'[n].pc \in {"decide", "capture", "finished"}
        /\ \A m \in All \ {n} : w'[m] = w[m]
    BY <1>0, <1>5 DEF Handback, WorkerType, Late
  <2>3. w[n].kind # "done" => Reason(n) = "failed"
    BY DEF Reason
  <2>4. /\ w[n].pc = "back" /\ run = "wave" /\ UNCHANGED main
    BY <1>5 DEF Handback
  <2> QED BY <2>1, <2>2, <2>3, <2>4 DEF StepShape, Late
<1>6. CASE Capture(n)
  BY <1>0, <1>6 DEF Capture, StepShape, Late, WorkerType
<1>7. CASE Decide(n)
  <2>1. w'[n].pc = "retry" /\ \A m \in All \ {n} : w'[m] = w[m]
    BY <1>0, <1>7 DEF Decide, WorkerType
  <2> QED BY <1>7, <2>1 DEF Decide, StepShape, Late
<1>8. CASE GiveUp(n)
  BY <1>0, <1>8 DEF GiveUp, Goes, StepShape, Late, WorkerType
<1>9. CASE Retry(n)
  <2>1. w[n].attempt + 1 \in Nat
    BY <1>0 DEF WorkerType
  <2>2. /\ \A m \in All \ {n} : led'[m] = led[m]
        /\ led'[n].reason = led[n].reason
    <3> DEFINE k == w[n].attempt + 1
    <3>1. led' = led \/ led' = WithClaim(n, k)
      BY <1>9 DEF Retry, Record
    <3>2. k \in Nat
      BY <2>1
    <3> HIDE DEF k
    <3>3. /\ \A m \in All \ {n} : WithClaim(n, k)[m] = led[m]
          /\ WithClaim(n, k)[n].reason = led[n].reason
      BY <3>2, ClaimShape
    <3> QED BY <3>1, <3>3
  <2>3. w'[n].pc = "launch" /\ \A m \in All \ {n} : w'[m] = w[m]
    BY <1>0, <1>9 DEF Retry, WorkerType
  <2> QED BY <1>9, <2>2, <2>3 DEF Retry, StepShape, Late
<1>10. CASE IsolationFails(n, {"enter", "capture"})
  BY <1>10, IsolationFailsShape
<1>11. CASE GoesOn(n) /\ IsolationFails(n, {"decide"})
  BY <1>11, IsolationFailsShape
<1>12. CASE Correct(n)
  <2>1. /\ \A m \in All \ {n} : led'[m] = led[m]
        /\ led'[n].attempts = led[n].attempts
    <3> DEFINE k == Larger(w[n].attempt, 1)
    <3>1. led' = led \/ led' = WithHandback(n, k, "failed", 0)
      BY <1>12 DEF Correct, Record
    <3> HIDE DEF k
    <3>2. /\ \A m \in All \ {n} : WithHandback(n, k, "failed", 0)[m] = led[m]
          /\ WithHandback(n, k, "failed", 0)[n].attempts = led[n].attempts
      BY HandbackShape
    <3> QED BY <3>1, <3>2
  <2>2. w'[n].pc = "finished" /\ \A m \in All \ {n} : w'[m] = w[m]
    BY <1>0, <1>12 DEF Correct, Goes, WorkerType
  <2> QED BY <1>12, <2>1, <2>2 DEF Correct, StepShape, Late
<1> QED BY <1>1, <1>2, <1>3, <1>4, <1>5, <1>6, <1>7, <1>8, <1>9, <1>10, <1>11,
           <1>12 DEF Step, Work

-----------------------------------------------------------------------------
(* The invariant.                                                          *)

LEMMA InitInv == Init => IInv
<1> SUFFICES ASSUME Init PROVE IInv
  OBVIOUS
<1>1. TypeOK
  BY InitType
<1>2. \A n \in All : w[n].pc = "out" /\ led[n].reason = "none"
  BY DEF Init, Idle, NoRows
<1>3. InWave = {} /\ Active = {} /\ \A n \in All : ~Done(n)
  BY <1>2 DEF InWave, Active, Done
<1>4. workers = 1 /\ \A n \in All : n > nodes => state[n] = "none"
  BY PlanAssumption DEF Init, All
<1>5. Apart
  BY <1>3, <1>4 DEF Apart
<1>6. Progress
  BY <1>3, <1>4 DEF Progress
<1> QED BY <1>1, <1>5, <1>6 DEF IInv

LEMMA StepInv ==
    ASSUME IInv, NEW n \in All, Step(n)
    PROVE  Apart' /\ Progress'
<1>1. TypeOK /\ StepShape(n)
  BY StepShapes DEF IInv
<1>2. InWave' = InWave /\ UNCHANGED <<state, nodes, run, isolated, workers>>
  BY <1>1 DEF StepShape, InWave, main, loop
<1>3. Apart'
  <2>1. CASE w[n].pc = "queued" /\ w'[n].pc # "finished"
    <3>1. workers = 1 => Cardinality(Active) < 1
      BY <1>1, <2>1 DEF StepShape
    <3>2. Active \in SUBSET All
      BY DEF Active, InWave
    <3>3. workers = 1 => Active = {}
      BY <3>1, <3>2, CardinalityOfNodes
    <3>4. Active' \subseteq Active \cup {n}
      BY <1>1, <1>2 DEF StepShape, Active, InWave
    <3> QED BY <1>2, <3>3, <3>4 DEF Apart, IInv
  <2>2. CASE ~(w[n].pc = "queued" /\ w'[n].pc # "finished")
    <3>1. Active' \subseteq Active
      BY <1>1, <1>2, <2>2 DEF StepShape, Active, InWave
    <3> QED BY <1>2, <3>1 DEF Apart, IInv
  <2> QED BY <2>1, <2>2
<1>4. Progress'
  BY <1>1, <1>2 DEF StepShape, Progress, IInv, Done
<1> QED BY <1>3, <1>4

LEMMA LoopInv ==
    ASSUME IInv, Loop
    PROVE  Apart' /\ Progress'
<1>1. TypeOK /\ Apart /\ Progress
  BY DEF IInv
<1>2. w \in [All -> WorkerType]
  BY <1>1 DEF TypeOK
<1>3. CASE StartWave
  <2>1. PICK clean \in BOOLEAN :
          LET s == Select(Ready, clean, waves + 1 >= MaxWaves)
          IN  /\ w' = [n \in All |->
                        IF n \in s.take THEN [Idle EXCEPT !.pc = "queued"] ELSE Idle]
              /\ workers' = s.by
              /\ isolated' = s.alone
    BY <1>3 DEF StartWave
  <2> DEFINE final == waves + 1 >= MaxWaves
             s == Select(Ready, clean, final)
  <2>2. Ready \in SUBSET All /\ Ready # {} /\ final \in BOOLEAN
    BY <1>3 DEF StartWave, Ready
  <2> HIDE DEF final
  <2>0. s = Select(Ready, clean, final)
    OBVIOUS
  <2> HIDE DEF s
  <2>3. /\ s.take \subseteq Ready /\ s.by \in Nat \ {0}
        /\ s.alone \subseteq s.take
        /\ s.by > 1 =>
             /\ s.take \cap Mutations \subseteq s.alone
             /\ FilesApart(s.alone)
    BY <2>0, <2>2, SelectFacts
  <2>4. \A n \in All : w'[n].pc = IF n \in s.take THEN "queued" ELSE "out"
    BY <2>1 DEF s, final, Idle
  <2>5. InWave' = s.take /\ Active' = {}
    BY <2>2, <2>3, <2>4 DEF InWave, Active
  <2>6. Apart'
    BY <2>1, <2>3, <2>5 DEF Apart, s, final
  <2>7. /\ state' = Marked /\ run' = "wave" /\ UNCHANGED <<led, nodes>>
        /\ run = "plan"
    BY <1>3 DEF StartWave
  <2>8. \A n \in Ready : state'[n] = "pending"
    BY <2>7 DEF Marked, Ready, Blocked
  <2>9. \A n \in All : /\ state'[n] \in {"none", "pending"} => state'[n] = state[n]
                       /\ state[n] = "none" => state'[n] = "none"
    BY <2>7 DEF Marked, Blocked
  <2>10. \A n \in All : w[n].pc = "out"
    BY <1>1, <2>7 DEF Progress, InWave
  <2>11. \A n \in All : state'[n] \in {"none", "pending"} => ~Done(n)'
    BY <1>1, <2>7, <2>9, <2>10 DEF Progress, Late, Done
  <2>12. \A n \in InWave' : state'[n] = "pending"
    BY <2>3, <2>5, <2>8
  <2>13. \A n \in All : n > nodes' => state'[n] = "none"
    BY <1>1, <2>7, <2>9 DEF Progress
  <2>14. Progress'
    BY <2>7, <2>11, <2>12, <2>13 DEF Progress
  <2> QED BY <2>6, <2>14
<1>4. CASE Replan
  <2>1. PICK k \in (nodes + 1)..MaxNodes :
          /\ nodes' = k
          /\ state' = [n \in All |->
                         IF n \in (nodes + 1)..k THEN "pending" ELSE Marked[n]]
    BY <1>4 DEF Replan
  <2>2. run = "plan" /\ UNCHANGED <<led, run, w, isolated, workers>>
    BY <1>4 DEF Replan
  <2>3. \A n \in All : w[n].pc = "out"
    BY <1>1, <2>2 DEF Progress, InWave
  <2>4. nodes \in Nat
    BY <1>1, PlanAssumption DEF TypeOK, All
  <2>5. \A n \in All : n > k => state'[n] = "none"
    BY <1>1, <2>1, <2>4 DEF Progress, Marked, Blocked, All
  <2>6. \A n \in All : state'[n] \in {"none", "pending"} => state[n] \in {"none", "pending"}
    BY <1>1, <2>1, <2>4 DEF Progress, Marked, All
  <2>7. Progress'
    BY <1>1, <2>1, <2>2, <2>3, <2>5, <2>6 DEF Progress, InWave, Late, Done
  <2>8. Apart'
    BY <1>1, <2>2 DEF Apart, InWave, Active
  <2> QED BY <2>7, <2>8
<1>5. CASE Stop
  <2>1. run \in {"plan", "broke"} /\ run' = "over"
        /\ UNCHANGED <<led, nodes, w, isolated, workers>>
        /\ state' = [n \in All |-> IF state[n] = "pending" THEN "skipped" ELSE state[n]]
    BY <1>5 DEF Stop
  <2>2. Progress'
    BY <1>1, <2>1 DEF Progress, InWave, Late, Done
  <2>3. Apart'
    BY <1>1, <2>1 DEF Apart, InWave, Active
  <2> QED BY <2>2, <2>3
<1>6. CASE Merge
  BY <1>1, <1>6 DEF Merge, Progress, Apart, InWave, Active, loop, Late, Done
<1>7. CASE Conflict
  <2>1. /\ run' = "settle" /\ run = "wave" /\ AllFinished
        /\ UNCHANGED <<led, nodes, state, isolated, workers>>
        /\ \A n \in All : w'[n].pc = IF n \in Patched THEN "correct" ELSE w[n].pc
    BY <1>2, <1>7 DEF Conflict, loop, WorkerType
  <2>2. InWave' = InWave /\ Active' = {}
    BY <2>1 DEF InWave, Active, AllFinished, Patched
  <2>3. \A n \in All : w[n].pc \in Late <=> w'[n].pc \in Late
    BY <2>1 DEF Patched, InWave, AllFinished, Late
  <2>4. Progress'
    BY <1>1, <2>1, <2>2, <2>3 DEF Progress, Done
  <2>5. Apart'
    BY <1>1, <2>1, <2>2 DEF Apart
  <2> QED BY <2>4, <2>5
<1>8. CASE Settle
  <2>1. /\ w' = [n \in All |-> Idle] /\ isolated' = {}
        /\ UNCHANGED <<led, nodes, workers>> /\ run' \in {"broke", "plan"}
        /\ state' = [n \in All |-> IF n \notin InWave THEN state[n]
                                  ELSE IF w[n].ok THEN "ok" ELSE "failed"]
    BY <1>8 DEF Settle
  <2>2. InWave' = {} /\ Active' = {}
    BY <2>1, IdleType DEF InWave, Active
  <2>3. \A n \in All : n > nodes => n \notin InWave
    BY <1>1 DEF Progress
  <2>4. \A n \in All : n \notin InWave => w[n].pc = "out"
    BY DEF InWave
  <2>5. Progress'
    BY <1>1, <2>1, <2>2, <2>3, <2>4 DEF Progress, Late, Done
  <2>6. Apart'
    BY <2>1, <2>2 DEF Apart, FilesApart
  <2> QED BY <2>5, <2>6
<1> QED BY <1>3, <1>4, <1>5, <1>6, <1>7, <1>8 DEF Loop

LEMMA NextInv == IInv /\ [Next]_vars => IInv'
<1> SUFFICES ASSUME IInv, [Next]_vars PROVE IInv'
  OBVIOUS
<1>1. TypeOK'
  BY NextType DEF IInv
<1>2. CASE Resume
  <2>1. /\ w' = [n \in All |-> Idle] /\ isolated' = {} /\ run' = "plan"
        /\ UNCHANGED <<led, nodes, workers>>
        /\ state' = [n \in All |-> IF n =< nodes THEN Restored(n) ELSE "none"]
    BY <1>2 DEF Resume
  <2>2. InWave' = {} /\ Active' = {}
    BY <2>1, IdleType DEF InWave, Active
  <2>3. \A n \in All : n > nodes => ~Done(n)
    BY DEF IInv, Progress, InWave, Late
  <2>4. nodes \in Int
    BY PlanAssumption DEF IInv, TypeOK, All
  <2>5. \A n \in All : state'[n] \in {"none", "pending"} => ~Done(n)
    BY <2>1, <2>3, <2>4 DEF Restored, All
  <2>6. \A n \in All : n > nodes => state'[n] = "none"
    BY <2>1, <2>4 DEF All
  <2>7. Progress'
    BY <2>1, <2>2, <2>5, <2>6 DEF Progress, Done
  <2>8. Apart'
    BY <2>1, <2>2 DEF Apart, FilesApart
  <2> QED BY <1>1, <2>7, <2>8 DEF IInv
<1>3. CASE Die
  BY <1>1, <1>3 DEF Die, IInv, Progress, Apart, InWave, Active, loop, Done
<1>4. CASE UNCHANGED vars
  BY <1>1, <1>4 DEF vars, IInv, Progress, Apart, InWave, Active, loop, Done
<1> QED BY <1>1, <1>2, <1>3, <1>4, LoopInv, StepInv DEF Next, IInv

THEOREM InvariantHolds == Spec => []IInv
BY InitInv, NextInv, PTL DEF Spec

\* A writer of the shared workspace works alone, and writers that work beside
\* others declared other files, for every plan and every declaration.
THEOREM WritersKeepApart == Spec => []WritersApart
<1>1. IInv => WritersApart
  <2> SUFFICES ASSUME IInv, NEW m \in Active, NEW n \in Active, m # n
               PROVE  /\ m \in Mutations => m \in isolated
                      /\ {m, n} \subseteq Mutations => Targets[m] \cap Targets[n] = {}
    BY DEF WritersApart
  <2>1. workers > 1
    BY DEF IInv, Apart, TypeOK
  <2>2. m \in InWave /\ n \in InWave
    BY DEF Active
  <2> QED BY <2>1, <2>2 DEF IInv, Apart, FilesApart
<1> QED BY <1>1, InvariantHolds, PTL

\* A node whose last handback says done is not claimed again, whatever rows
\* are lost and however often the route is resumed.
THEOREM DoneWorkStays == Spec => NotRedone
<1>1. ASSUME IInv, [Next]_vars, NEW n \in All, led'[n].attempts > led[n].attempts
      PROVE  ~Done(n)
  <2>1. led \in [All -> RowsType] /\ led' # led
    BY <1>1 DEF IInv, TypeOK, RowsType
  <2>2. PICK m \in All : Step(m)
    BY <1>1, <2>1 DEF Next, Loop, StartWave, Replan, Stop, Merge, Conflict,
       Settle, Resume, Die, vars
  <2>3. StepShape(m)
    BY <1>1, <2>2, StepShapes DEF IInv
  <2>4. m = n /\ w[n].pc \in {"queued", "retry"}
    BY <1>1, <2>1, <2>3 DEF StepShape, RowsType
  <2>5. n \in InWave
    BY <2>4 DEF InWave
  <2> QED BY <1>1, <2>4, <2>5 DEF IInv, Progress, Late
<1>2. IInv /\ [Next]_vars =>
        [\A n \in All : led'[n].attempts > led[n].attempts => ~Done(n)]_vars
  BY <1>1
<1> QED BY <1>2, InvariantHolds, PTL DEF Spec, NotRedone

-----------------------------------------------------------------------------
(* Work lands in the order of the plan.  It rests on two things the code   *)
(* does not give: the process does not die between the handback of a node  *)
(* in a worktree and the merge, and the row that takes back a `done` is    *)
(* written (it goes through the same fail-open append as any other).       *)

Sound == ~DieUnmerged /\ "correction" \notin Droppable

\* A success whose patch is still to come, or a handback still to be undone.
Awaiting(n) ==
    \/ run = "wave" /\ w[n].pc = "capture"
    \/ run = "wave" /\ w[n].pc = "finished" /\ w[n].patch
    \/ run = "settle" /\ w[n].pc = "correct"

\* What the rows, the outcome and the worker of n say of the workspace.
Accounted(n) ==
    /\ w[n].pc = "back" /\ w[n].kind = "done" /\ n \notin isolated => n \in landed
    /\ Done(n) => n \in landed \/ Awaiting(n)
    /\ w[n].ok /\ run \in Running => n \in landed \/ (run = "wave" /\ Awaiting(n))

Landing ==
    /\ OkLanded
    /\ \A n \in InWave : \A d \in Deps[n] : state[d] = "ok"
    /\ \A n \in All : Accounted(n)

LEMMA InitLanding == Init => Landing
<1> SUFFICES ASSUME Init PROVE Landing
  OBVIOUS
<1>1. \A n \in All : w[n].pc = "out" /\ led[n].reason = "none" /\ w[n].ok = FALSE
  BY DEF Init, Idle, NoRows
<1>2. \A n \in All : state[n] # "ok"
  BY DEF Init
<1> QED BY <1>1, <1>2 DEF Landing, OkLanded, InWave, Accounted, Done

\* A worker that is not at a success accounts for what it had accounted for.
LEMMA EarlyAccounted ==
    ASSUME NEW n \in All, Accounted(n), run = "wave", w[n].pc \notin Late,
           landed \subseteq landed',
           w'[n].ok => w[n].ok, Done(n)' => Done(n),
           w'[n].pc = "back" /\ w'[n].kind = "done" /\ n \notin isolated' => n \in landed'
    PROVE  Accounted(n)'
BY DEF Accounted, Awaiting, Late, Running

LEMMA StepAccounted ==
    ASSUME TypeOK, Sound, NEW n \in All, Accounted(n), Step(n)
    PROVE  Accounted(n)'
<1>0. /\ w \in [All -> WorkerType] /\ led \in [All -> RowsType]
      /\ run' = run /\ isolated' = isolated
  BY StepShapes DEF TypeOK, StepShape, main
<1>1. CASE Claim(n)
  <2>1. led[n].attempts + 1 \in Nat
    BY <1>0 DEF RowsType
  <2>2. led' = led \/ led' = WithClaim(n, led[n].attempts + 1)
    BY <1>1 DEF Claim, Record
  <2>3. Done(n)' => Done(n)
    BY <2>1, <2>2, ClaimShape DEF Done
  <2>4. w'[n].pc \in {"enter", "launch"} /\ w'[n].ok = w[n].ok
    BY <1>0, <1>1 DEF Claim, WorkerType
  <2> QED BY <1>1, <2>3, <2>4, EarlyAccounted DEF Claim, Late
<1>2. CASE Refuse(n)
  <2>1. w'[n].pc = "finished" /\ w'[n].ok = w[n].ok
    BY <1>0, <1>2 DEF Refuse, Goes, WorkerType
  <2> QED BY <1>2, <2>1, EarlyAccounted DEF Refuse, Late, Done
<1>3. CASE Enter(n)
  <2>1. w'[n].pc = "launch" /\ w'[n].ok = w[n].ok
    BY <1>0, <1>3 DEF Enter, WorkerType
  <2> QED BY <1>3, <2>1, EarlyAccounted DEF Enter, Late, Done
<1>4. CASE Launch(n)
  <2>1. PICK kind \in Kinds \cup {"done"}, cost \in Costs(n) :
          /\ w' = [w EXCEPT ![n].pc = "back", ![n].kind = kind, ![n].cost = cost]
          /\ landed' = IF kind = "done" /\ n \notin isolated
                       THEN landed \cup {n} ELSE landed
    BY <1>4 DEF Launch
  <2>2. w'[n].ok = w[n].ok /\ w'[n].kind = kind
    BY <1>0, <2>1 DEF WorkerType
  <2> QED BY <1>0, <1>4, <2>1, <2>2, EarlyAccounted DEF Launch, Late, Done
<1>5. CASE Handback(n)
  <2>1. /\ w[n].pc = "back" /\ run = "wave" /\ UNCHANGED <<landed, run, isolated>>
        /\ w'[n].pc = IF w[n].kind # "done" THEN "decide"
                      ELSE IF n \in isolated THEN "capture" ELSE "finished"
    BY <1>0, <1>5 DEF Handback, WorkerType
  <2>2. w'[n].ok = (w[n].kind = "done")
    BY <1>0, <1>5 DEF Handback, WorkerType
  <2>3. led' = led \/ led' = WithHandback(n, w[n].attempt, Reason(n), w[n].cost)
    BY <1>5 DEF Handback, Record
  <2>4. led'[n].reason \in {led[n].reason, Reason(n)}
    BY <2>3, HandbackShape
  <2>5. CASE w[n].kind = "done"
    BY <2>1, <2>5 DEF Accounted, Awaiting
  <2>6. CASE w[n].kind # "done"
    <3>1. Done(n)' => Done(n)
      BY <2>4, <2>6 DEF Done, Reason
    <3> QED BY <2>1, <2>2, <2>6, <3>1, EarlyAccounted DEF Late
  <2> QED BY <2>5, <2>6
<1>6. CASE Capture(n)
  <2>1. /\ w'[n].pc = "finished" /\ w'[n].patch = TRUE /\ run = "wave"
    BY <1>0, <1>6 DEF Capture, WorkerType
  <2> QED BY <1>0, <2>1 DEF Accounted, Awaiting
<1>7. CASE Decide(n)
  <2>1. w'[n].pc = "retry" /\ w'[n].ok = w[n].ok
    BY <1>0, <1>7 DEF Decide, WorkerType
  <2> QED BY <1>7, <2>1, EarlyAccounted DEF Decide, Late, Done
<1>8. CASE GiveUp(n)
  <2>1. w'[n].pc = "finished" /\ w'[n].ok = w[n].ok
    BY <1>0, <1>8 DEF GiveUp, Goes, WorkerType
  <2> QED BY <1>8, <2>1, EarlyAccounted DEF GiveUp, Late, Done
<1>9. CASE Retry(n)
  <2> DEFINE k == w[n].attempt + 1
  <2>1. k \in Nat
    BY <1>0 DEF WorkerType
  <2>2. led' = led \/ led' = WithClaim(n, k)
    BY <1>9 DEF Retry, Record
  <2> HIDE DEF k
  <2>3. Done(n)' => Done(n)
    BY <2>1, <2>2, ClaimShape DEF Done
  <2>4. w'[n].pc = "launch" /\ w'[n].ok = w[n].ok
    BY <1>0, <1>9 DEF Retry, WorkerType
  <2> QED BY <1>9, <2>3, <2>4, EarlyAccounted DEF Retry, Late
<1>10. ASSUME NEW pcs, pcs \in {{"enter", "capture"}, {"decide"}}, IsolationFails(n, pcs)
       PROVE  Accounted(n)'
  <2> DEFINE k == Larger(w[n].attempt, 1)
             kind == IF w[n].pc = "capture" THEN "correction" ELSE "handback"
  <2>1. w'[n].pc = "finished" /\ ~w'[n].ok /\ run = "wave" /\ landed' = landed
        /\ w[n].pc \in {"enter", "capture", "decide"}
    BY <1>0, <1>10 DEF IsolationFails, WorkerType
  <2>2. Record(kind, WithHandback(n, k, "failed", NoCost))
    BY <1>10 DEF IsolationFails
  <2>3. WithHandback(n, k, "failed", NoCost)[n].reason = "failed"
    BY HandbackShape
  <2> HIDE DEF k
  <2>4. CASE w[n].pc = "capture"
    <3>1. ~Done(n)'
      BY <2>2, <2>3, <2>4 DEF Record, Sound, Done
    <3> QED BY <2>1, <3>1 DEF Accounted
  <2>5. CASE w[n].pc # "capture"
    <3>1. Done(n)' => Done(n)
      BY <2>2, <2>3 DEF Record, Done
    <3> QED BY <2>1, <2>5, <3>1, EarlyAccounted DEF Late
  <2> QED BY <2>4, <2>5
<1>11. CASE Correct(n)
  <2> DEFINE k == Larger(w[n].attempt, 1)
  <2>1. /\ w'[n].pc = "finished" /\ w'[n].ok = w[n].ok /\ run = "settle"
        /\ landed' = landed
    BY <1>0, <1>11 DEF Correct, Goes, WorkerType
  <2>2. Record("correction", WithHandback(n, k, "failed", 0))
    BY <1>11 DEF Correct
  <2>3. WithHandback(n, k, "failed", 0)[n].reason = "failed"
    BY HandbackShape
  <2> HIDE DEF k
  <2>4. ~Done(n)'
    BY <2>2, <2>3 DEF Record, Sound, Done
  <2> QED BY <1>0, <2>1, <2>4 DEF Accounted
<1> QED BY <1>1, <1>2, <1>3, <1>4, <1>5, <1>6, <1>7, <1>8, <1>9, <1>10, <1>11
        DEF Step, Work

LEMMA StepLanding ==
    ASSUME IInv, Sound, Landing, NEW n \in All, Step(n)
    PROVE  Landing'
<1>1. TypeOK /\ StepShape(n) /\ Accounted(n)'
  BY StepShapes, StepAccounted DEF IInv, Landing
<1>2. UNCHANGED <<state, run, isolated>> /\ InWave' = InWave
  BY <1>1 DEF StepShape, main, loop, InWave
<1>3. landed \subseteq landed'
  BY DEF Step, Work, Claim, Refuse, Enter, Launch, Handback, Capture, Decide,
         GiveUp, Retry, IsolationFails, Correct
<1>4. ASSUME NEW m \in All \ {n} PROVE Accounted(m)'
  BY <1>1, <1>2, <1>3 DEF Landing, StepShape, Accounted, Awaiting, Done
<1> QED BY <1>1, <1>2, <1>3, <1>4 DEF Landing, OkLanded

\* Outside a wave, and when all its threads are through, no patch is awaited
\* that the merge does not have.
LEMMA LoopLanding ==
    ASSUME IInv, Landing, Loop
    PROVE  Landing'
<1>0. w \in [All -> WorkerType]
  BY DEF IInv, TypeOK
<1>1. CASE StartWave
  <2>1. PICK clean \in BOOLEAN :
          LET s == Select(Ready, clean, waves + 1 >= MaxWaves)
          IN  /\ w' = [n \in All |->
                        IF n \in s.take THEN [Idle EXCEPT !.pc = "queued"] ELSE Idle]
              /\ workers' = s.by
              /\ isolated' = s.alone
    BY <1>1 DEF StartWave
  <2> DEFINE final == waves + 1 >= MaxWaves
             s == Select(Ready, clean, final)
  <2>2. Ready \in SUBSET All /\ Ready # {} /\ final \in BOOLEAN
    BY <1>1 DEF StartWave, Ready
  <2> HIDE DEF final
  <2>3. s = Select(Ready, clean, final)
    OBVIOUS
  <2> HIDE DEF s
  <2>4. s.take \subseteq Ready
    BY <2>2, <2>3, SelectFacts
  <2>5. \A n \in All : /\ w'[n].pc = IF n \in s.take THEN "queued" ELSE "out"
                       /\ ~w'[n].ok
    BY <2>1 DEF s, final, Idle
  <2>6. run = "plan" /\ run' = "wave" /\ UNCHANGED <<led, landed>> /\ state' = Marked
    BY <1>1 DEF StartWave
  <2>7. \A n \in All : state'[n] = "ok" <=> state[n] = "ok"
    BY <2>6 DEF Marked, Blocked
  <2>8. \A n \in InWave' : \A d \in Deps[n] : d \in All /\ state[d] = "ok"
    BY <2>4, <2>5, PlanAssumption DEF InWave, Ready
  <2>9. \A n \in All : Done(n) => n \in landed
    BY <2>6 DEF Landing, Accounted, Awaiting
  <2>10. \A n \in All : Accounted(n)'
    BY <2>5, <2>6, <2>9 DEF Accounted, Done
  <2> QED BY <2>6, <2>7, <2>8, <2>10 DEF Landing, OkLanded
<1>2. CASE Replan
  <2>1. /\ UNCHANGED <<led, w, run, isolated, landed>>
        /\ \E k \in (nodes + 1)..MaxNodes :
             state' = [n \in All |->
                         IF n \in (nodes + 1)..k THEN "pending" ELSE Marked[n]]
        /\ run = "plan"
    BY <1>2 DEF Replan
  <2>2. InWave' = InWave /\ InWave = {}
    BY <2>1 DEF InWave, IInv, Progress
  <2>3. \A n \in All : state'[n] = "ok" => state[n] = "ok"
    BY <2>1 DEF Marked
  <2>4. \A n \in All : Accounted(n)'
    BY <2>1 DEF Landing, Accounted, Awaiting, Done
  <2> QED BY <2>1, <2>2, <2>3, <2>4 DEF Landing, OkLanded
<1>3. CASE Stop
  <2>1. /\ UNCHANGED <<led, w, isolated, landed>>
        /\ run \in {"plan", "broke"} /\ run' = "over"
        /\ state' = [n \in All |-> IF state[n] = "pending" THEN "skipped" ELSE state[n]]
    BY <1>3 DEF Stop
  <2>2. InWave' = InWave /\ InWave = {}
    BY <2>1 DEF InWave, IInv, Progress
  <2>3. \A n \in All : Accounted(n)'
    BY <2>1 DEF Landing, Accounted, Awaiting, Done, Running
  <2> QED BY <2>1, <2>2, <2>3 DEF Landing, OkLanded
<1>4. CASE Merge
  <2>1. /\ run = "wave" /\ run' = "settle" /\ AllFinished
        /\ landed' = landed \cup Patched
        /\ UNCHANGED <<led, state, w, isolated>>
    BY <1>4 DEF Merge, loop
  <2>2. InWave' = InWave
    BY <2>1 DEF InWave
  <2>3. ASSUME NEW n \in All, Awaiting(n) PROVE n \in Patched
    BY <2>1, <2>3 DEF Awaiting, AllFinished, Patched, InWave
  <2>4. \A n \in All : Accounted(n)'
    BY <2>1, <2>3 DEF Landing, Accounted, Done, Running
  <2> QED BY <2>1, <2>2, <2>4 DEF Landing, OkLanded
<1>5. CASE Conflict
  <2>1. /\ run = "wave" /\ run' = "settle" /\ AllFinished
        /\ UNCHANGED <<led, state, isolated, landed>>
    BY <1>5 DEF Conflict, loop
  <2>2. \A n \in All \ Patched : w'[n] = w[n]
    BY <1>0, <1>5 DEF Conflict
  <2>3. \A n \in Patched : w'[n].pc = "correct" /\ ~w'[n].ok
    BY <1>0, <1>5 DEF Conflict, Patched, InWave, WorkerType
  <2>4. InWave' = InWave
    BY <2>2, <2>3 DEF InWave, Patched
  <2>5. ASSUME NEW n \in All, Awaiting(n) PROVE n \in Patched
    BY <2>1, <2>5 DEF Awaiting, AllFinished, Patched, InWave
  <2>6. ASSUME NEW n \in All \ Patched PROVE Accounted(n)'
    BY <2>1, <2>2, <2>5, <2>6 DEF Landing, Accounted, Done, Running
  <2>7. ASSUME NEW n \in Patched PROVE Accounted(n)'
    BY <2>1, <2>3, <2>7 DEF Accounted, Awaiting
  <2> QED BY <2>1, <2>4, <2>6, <2>7 DEF Landing, OkLanded
<1>6. CASE Settle
  <2>1. /\ run = "settle" /\ run' \in {"plan", "broke"} /\ AllFinished
        /\ UNCHANGED <<led, landed>> /\ w' = [n \in All |-> Idle]
        /\ state' = [n \in All |-> IF n \notin InWave THEN state[n]
                                  ELSE IF w[n].ok THEN "ok" ELSE "failed"]
    BY <1>6 DEF Settle
  <2>2. ASSUME NEW n \in All PROVE ~Awaiting(n)
    BY <2>1 DEF Awaiting, AllFinished, InWave
  <2>3. InWave' = {} /\ \A n \in All : w'[n].pc = "out" /\ ~w'[n].ok
    BY <2>1, IdleType DEF InWave
  <2>4. \A n \in All : Accounted(n)'
    BY <2>1, <2>2, <2>3 DEF Landing, Accounted, Done
  <2>5. OkLanded'
    BY <2>1 DEF Landing, OkLanded, Accounted, Running
  <2> QED BY <2>3, <2>4, <2>5 DEF Landing
<1> QED BY <1>1, <1>2, <1>3, <1>4, <1>5, <1>6 DEF Loop

LEMMA NextLanding ==
    ASSUME Sound
    PROVE  IInv /\ Landing /\ [Next]_vars => Landing'
<1> SUFFICES ASSUME IInv, Landing, [Next]_vars PROVE Landing'
  OBVIOUS
<1>1. CASE Resume
  <2>1. /\ run \in {"over", "dead"} /\ run' = "plan" /\ UNCHANGED <<led, landed>>
        /\ w' = [n \in All |-> Idle]
        /\ state' = [n \in All |-> IF n =< nodes THEN Restored(n) ELSE "none"]
    BY <1>1 DEF Resume
  <2>2. ASSUME NEW n \in All PROVE ~Awaiting(n)
    BY <2>1 DEF Awaiting
  <2>3. InWave' = {} /\ \A n \in All : w'[n].pc = "out" /\ ~w'[n].ok
    BY <2>1, IdleType DEF InWave
  <2>4. \A n \in All : Done(n) => n \in landed
    BY <2>2 DEF Landing, Accounted
  <2>5. \A n \in All : Accounted(n)'
    BY <2>1, <2>3, <2>4 DEF Accounted, Done
  <2>6. OkLanded'
    BY <2>1, <2>4 DEF OkLanded, Restored
  <2> QED BY <2>3, <2>5, <2>6 DEF Landing
<1>2. CASE Die
  <2>1. /\ ~Unmerged /\ run' = "dead" /\ UNCHANGED <<led, state, w, isolated, landed>>
    BY <1>2 DEF Die, Sound, loop
  <2>2. \A n \in All : Done(n) => n \in landed
    BY <2>1 DEF Unmerged
  <2>3. \A n \in All : Accounted(n)'
    BY <2>1, <2>2 DEF Landing, Accounted, Done, Running
  <2> QED BY <2>1, <2>3 DEF Landing, OkLanded, InWave
<1>3. CASE UNCHANGED vars
  BY <1>3 DEF vars, loop, Landing, OkLanded, InWave, Accounted, Awaiting, Done,
              Running
<1> QED BY <1>1, <1>2, <1>3, LoopLanding, StepLanding DEF Next

\* A node of which the run, or a later one, says ok has its work in the
\* workspace ("or resume would restore a node whose change never landed").
THEOREM OkHasLanded ==
    ASSUME Sound
    PROVE  Spec => []OkLanded
<1>1. IInv /\ Landing /\ [Next]_vars => Landing'
  BY NextLanding
<1>2. Landing => OkLanded
  BY DEF Landing
<1> QED BY <1>1, <1>2, InitLanding, InvariantHolds, PTL DEF Spec

-----------------------------------------------------------------------------
(* The refinement.                                                         *)

\* Work lands in two steps only, the return of a worker and a merge, and then
\* behind everything it depends on.
LEMMA LandsInOrder ==
    ASSUME IInv, Landing, Next
    PROVE  \E S \in SUBSET All : /\ \A n \in S : Deps[n] \subseteq landed
                                /\ landed' = landed \cup S
<1>1. \A n \in InWave : Deps[n] \subseteq landed
  BY PlanAssumption DEF Landing, OkLanded, InWave
<1>2. CASE landed' = landed
  <2>1. {} \in SUBSET All /\ landed' = landed \cup {}
    BY <1>2
  <2> QED BY <2>1
<1>3. CASE Merge
  <2>1. Patched \in SUBSET All /\ Patched \subseteq InWave
    BY DEF Patched, InWave
  <2> QED BY <1>1, <1>3, <2>1 DEF Merge
<1>4. ASSUME NEW n \in All, Launch(n)
      PROVE  \E S \in SUBSET All : /\ \A m \in S : Deps[m] \subseteq landed
                                  /\ landed' = landed \cup S
  <2>1. n \in InWave
    BY <1>4 DEF Launch, InWave
  <2>2. landed' = landed \cup {n} \/ landed' = landed
    BY <1>4 DEF Launch
  <2>3. CASE landed' = landed \cup {n}
    <3>1. {n} \in SUBSET All /\ \A m \in {n} : Deps[m] \subseteq landed
      BY <1>1, <2>1
    <3> QED BY <2>3, <3>1
  <2> QED BY <1>2, <2>2, <2>3
<1>5. ASSUME NEW n \in All, Step(n), ~Launch(n) PROVE landed' = landed
  BY <1>5 DEF Step, Work, Claim, Refuse, Enter, Handback, Capture, Decide,
     GiveUp, Retry, IsolationFails, Correct
<1>6. ASSUME Loop, ~Merge PROVE landed' = landed
  BY <1>6 DEF Loop, StartWave, Replan, Stop, Conflict, Settle
<1>7. Resume \/ Die => landed' = landed
  BY DEF Resume, Die
<1> QED BY <1>2, <1>3, <1>4, <1>5, <1>6, <1>7 DEF Next

\* Every step of a route is one of the abstract DAG, or none.
LEMMA StepOfDag ==
    ASSUME IInv, Landing, Landing', [Next]_vars
    PROVE  [Dag!DNext]_<<landed, {n \in All : state[n] = "ok"}>>
<1>1. CASE Next
  <2>1. PICK S \in SUBSET All : /\ \A n \in S : Deps[n] \subseteq landed
                               /\ landed' = landed \cup S
    BY <1>1, LandsInOrder
  <2>2. {n \in All : state'[n] = "ok"} \in SUBSET landed'
    BY DEF Landing, OkLanded
  <2>3. Dag!Land(S)
    BY <2>1, <2>2 DEF Dag!Land
  <2> QED BY <2>3 DEF Dag!DNext
<1>2. CASE UNCHANGED vars
  BY <1>2 DEF vars, loop
<1> QED BY <1>1, <1>2

\* The closed loop of ctx orchestrate implements the DAG it is given.
THEOREM RouteImplementsDag ==
    ASSUME Sound
    PROVE  Spec => RefinesDag
<1>1. Init => Dag!DInit
  BY DEF Init, Dag!DInit
<1>2. IInv /\ Landing /\ [Next]_vars => Landing'
  BY NextLanding
<1>3. IInv /\ Landing /\ Landing' /\ [Next]_vars =>
        [Dag!DNext]_<<landed, {n \in All : state[n] = "ok"}>>
  BY StepOfDag
<1> QED BY <1>1, <1>2, <1>3, InitLanding, InvariantHolds, PTL
        DEF Spec, RefinesDag, Dag!DSpec

-----------------------------------------------------------------------------
(* The budget of a route: what is spent and what open claims reserve stays *)
(* within it, as long as no row is lost, no wave of several workers        *)
(* retries, and a node has two attempts at most (the default of            *)
(* max_attempts): a retry of an escalated attempt is priced as one of the  *)
(* first model.                                                            *)

TwoAttempts == MaxAttempts =< 2

\* Where the budget is promised.
Live == Budget > 0 /\ drops = 0 /\ ~retriedInParallel

\* What the route may have come to: the budget, and the overruns.
Ceiling == Budget + excess

\* Rows and worker of n number the same attempt.
Counted(n) ==
    /\ led[n].handed =< led[n].attempts /\ led[n].claimed =< led[n].attempts
    /\ w[n].pc = "enter" =>
         led[n].claimed = w[n].attempt + 1 /\ led[n].handed =< w[n].attempt
    /\ w[n].pc \in {"launch", "back"} =>
         led[n].claimed = w[n].attempt /\ led[n].handed < w[n].attempt
    /\ w[n].pc \in {"decide", "retry", "capture", "correct"} \/ w[n].patch =>
         /\ led[n].claimed = w[n].attempt /\ led[n].handed = w[n].attempt
         /\ w[n].attempt >= 1
    /\ w[n].patch => w[n].pc \in {"finished", "correct"}

\* An attempt at the stronger model works alone, and there is money for it
\* beyond what its claim reserves.
Priced(n) ==
    /\ w[n].pc \in {"queued", "enter"} => ~w[n].strong
    /\ w[n].pc \in {"launch", "back", "decide"} /\ w[n].strong => w[n].attempt >= 2
    /\ w[n].pc \in {"launch", "back"} /\ w[n].strong => workers = 1
    /\ w[n].pc \in {"launch", "back"} /\ w[n].strong =>
         Spent + Reserved - Est[n] + MaxPrice(n) =< Ceiling
    /\ w[n].pc = "retry" /\ workers = 1 => Spent + Reserved + MaxPrice(n) =< Ceiling

Funded ==
    /\ Spent + Reserved =< Ceiling
    /\ \A n \in All : Counted(n) /\ Priced(n)

BudgetInv == Live => Funded

-----------------------------------------------------------------------------
(* Sums over the rows.                                                     *)

LEMMA TotalsType ==
    ASSUME TypeOK
    PROVE  /\ Spent \in Nat /\ Reserved \in Nat
           /\ \A n \in All : ReservedOf(n) \in {0, Est[n]} /\ led[n].cost \in Nat
<1>1. \A n \in All : led[n].cost \in Nat
  BY DEF TypeOK, RowsType
<1>2. \A n \in All : ReservedOf(n) \in {0, Est[n]} /\ ReservedOf(n) \in Nat
  BY Estimates DEF ReservedOf
<1>3. Numbers([n \in All |-> led[n].cost], MaxNodes)
  BY <1>1 DEF Numbers, All
<1>4. Numbers([n \in All |-> ReservedOf(n)], MaxNodes)
  BY <1>2 DEF Numbers, All
<1> QED BY <1>1, <1>2, <1>3, <1>4, SumType, PlanAssumption DEF Spent, Reserved

TotalsCount == Spent \in Nat /\ Reserved \in Nat

LEMMA TotalsAfter == TypeOK' => TotalsCount'
<1>1. TypeOK => TotalsCount
  BY TotalsType DEF TotalsCount
<1> QED BY <1>1, PTL

\* A step that changes the rows of one node changes the sums by its change.
LEMMA Totals ==
    ASSUME TypeOK, TypeOK', NEW n \in All, \A m \in All \ {n} : led'[m] = led[m]
    PROVE  /\ Spent' = Spent - led[n].cost + led'[n].cost
           /\ Reserved' = Reserved - ReservedOf(n) + ReservedOf(n)'
<1> DEFINE c == [m \in All |-> led[m].cost]
           d == [m \in All |-> led'[m].cost]
           r == [m \in All |-> ReservedOf(m)]
           s == [m \in All |-> ReservedOf(m)']
<1>1. \A m \in All : led[m].cost \in Nat /\ led'[m].cost \in Nat
  BY DEF TypeOK, RowsType
<1>2. \A m \in All : ReservedOf(m) \in Nat /\ ReservedOf(m)' \in Nat
  BY Estimates DEF ReservedOf
<1>3. Numbers(c, MaxNodes) /\ Numbers(d, MaxNodes)
  BY <1>1 DEF Numbers, All
<1>4. Numbers(r, MaxNodes) /\ Numbers(s, MaxNodes)
  BY <1>2 DEF Numbers, All
<1>5. \A m \in (1..MaxNodes) \ {n} : c[m] = d[m] /\ r[m] = s[m]
  BY DEF All, ReservedOf
<1>6. c[n] = led[n].cost /\ d[n] = led'[n].cost
      /\ r[n] = ReservedOf(n) /\ s[n] = ReservedOf(n)'
  OBVIOUS
<1>7. Spent = SumTo(c, MaxNodes) /\ Spent' = SumTo(d, MaxNodes)
      /\ Reserved = SumTo(r, MaxNodes) /\ Reserved' = SumTo(s, MaxNodes)
  BY DEF Spent, Reserved
<1>8. n \in 1..MaxNodes /\ MaxNodes \in Nat
  BY PlanAssumption DEF All
<1> HIDE DEF c, d, r, s
<1>9. SumTo(d, MaxNodes) = SumTo(c, MaxNodes) - c[n] + d[n]
  BY <1>3, <1>5, <1>8, SumChange
<1>10. SumTo(s, MaxNodes) = SumTo(r, MaxNodes) - r[n] + s[n]
  BY <1>4, <1>5, <1>8, SumChange
<1> QED BY <1>6, <1>7, <1>9, <1>10

LEMMA ClaimRow ==
    ASSUME TypeOK, NEW n \in All, NEW k \in Nat, led' = WithClaim(n, k)
    PROVE  /\ led'[n].claimed = k /\ led'[n].handed = led[n].handed
           /\ led'[n].cost = led[n].cost
           /\ led'[n].attempts = Larger(led[n].attempts, k)
           /\ \A m \in All \ {n} : led'[m] = led[m]
BY DEF WithClaim, TypeOK, RowsType

LEMMA HandbackRow ==
    ASSUME TypeOK, NEW n \in All, NEW k, NEW reason, NEW cost,
           led' = WithHandback(n, k, reason, cost)
    PROVE  /\ led'[n].claimed = led[n].claimed /\ led'[n].handed = k
           /\ led'[n].cost = IF cost = NoCost THEN led[n].cost ELSE led[n].cost + cost
           /\ led'[n].attempts = led[n].attempts
           /\ \A m \in All \ {n} : led'[m] = led[m]
BY DEF WithHandback, TypeOK, RowsType

\* What is left never counts less than was spent and is reserved.
LEMMA RemainingBound ==
    ASSUME TypeOK, Budget > 0, NEW more \in Nat, NEW price \in Nat, Covers(more, price)
    PROVE  Spent + Reserved + price =< Budget + more
<1>1. Spent \in Nat /\ Reserved \in Nat /\ spentEst \in Nat /\ Budget \in Nat
  BY TotalsType, LimitsAssumption DEF TypeOK
<1>2. Actual \in Nat /\ Actual >= Spent
  BY <1>1 DEF Actual, Larger
<1>3. price =< Remaining + more
  BY DEF Covers
<1> HIDE DEF Actual
<1> QED BY <1>1, <1>2, <1>3 DEF Remaining

LEMMA Prices ==
    ASSUME TypeOK, NEW n \in All
    PROVE  MaxPrice(n) \in Nat /\ Est[n] \in Nat /\ Est[n] =< Ratio * Est[n]
           /\ Est[n] =< MaxPrice(n) /\ Ratio * Est[n] \in Nat
<1>1. Est[n] \in Nat /\ Ratio * Est[n] \in Nat /\ Ratio \in Nat /\ Ratio >= 1
  BY Estimates, LimitsAssumption
<1>2. \A a \in Nat, b \in Nat \ {0} : a =< b * a
  OBVIOUS
<1>3. Est[n] =< Ratio * Est[n]
  BY <1>1, <1>2
<1> QED BY <1>1, <1>3 DEF MaxPrice

LEMMA SameRows ==
    led' = led => /\ Spent' = Spent /\ Reserved' = Reserved
                  /\ \A n \in All : ReservedOf(n)' = ReservedOf(n)
BY DEF Spent, Reserved, ReservedOf

LEMMA NoMore ==
    \A a, b, c, d \in Nat, x \in Int, limit, more \in Nat :
       a + b =< c + d /\ c + d + x =< limit /\ limit =< more => a + b + x =< more
OBVIOUS

LEMMA Ceilings ==
    ASSUME TypeOK
    PROVE  Ceiling \in Nat /\ Budget \in Nat /\ Budget =< Ceiling
BY LimitsAssumption DEF Ceiling, TypeOK

-----------------------------------------------------------------------------
(* A step of one worker.  The others keep what was said of them: who needs *)
(* money beyond the claims is alone.                                       *)

LEMMA Others ==
    ASSUME IInv, TypeOK', Funded, NEW n \in All, StepShape(n),
           Spent' + Reserved' =< Ceiling', Counted(n)', Priced(n)', excess =< excess',
           \/ n \in Active \/ Cardinality(Active) < workers
           \/ Spent' + Reserved' =< Spent + Reserved
    PROVE  Funded'
<1> SUFFICES ASSUME NEW m \in All \ {n} PROVE Counted(m)' /\ Priced(m)'
  BY DEF Funded
<1>1. w'[m] = w[m] /\ led'[m] = led[m] /\ workers' = workers
  BY DEF StepShape, main
<1>2. Counted(m)'
  BY <1>1 DEF Funded, Counted
<1>3. MaxPrice(m)' = MaxPrice(m)
  BY <1>1 DEF MaxPrice
<1>4. ASSUME workers = 1, w[m].pc \in {"launch", "back", "retry"}
      PROVE  Spent' + Reserved' =< Spent + Reserved
  <2>1. m \in Active /\ Active \in SUBSET All
    BY <1>4 DEF Active, InWave
  <2>2. n \notin Active
    BY <1>4, <2>1 DEF IInv, Apart
  <2>3. ~(Cardinality(Active) < workers)
    BY <1>4, <2>1, CardinalityOfNodes
  <2> QED BY <2>2, <2>3
<1>5. /\ Spent \in Nat /\ Reserved \in Nat /\ Spent' \in Nat /\ Reserved' \in Nat
      /\ MaxPrice(m) \in Nat /\ Est[m] \in Nat
      /\ Ceiling \in Nat /\ Ceiling' \in Nat /\ Ceiling =< Ceiling'
  <2>1. TypeOK
    BY DEF IInv
  <2>2. Spent \in Nat /\ Reserved \in Nat
    BY <2>1, TotalsType
  <2>3. Spent' \in Nat /\ Reserved' \in Nat
    BY TotalsAfter DEF TotalsCount
  <2>4. Ceiling \in Nat /\ Ceiling' \in Nat /\ Ceiling =< Ceiling'
    BY <2>1, LimitsAssumption DEF Ceiling, TypeOK
  <2> QED BY <2>1, <2>2, <2>3, <2>4, Prices
<1>6. Priced(m)
  BY DEF Funded
<1>7. w'[m].pc \in {"launch", "back"} /\ w'[m].strong =>
        Spent' + Reserved' - Est[m] + MaxPrice(m)' =< Ceiling'
  <2> SUFFICES ASSUME w[m].pc \in {"launch", "back"}, w[m].strong
               PROVE  Spent' + Reserved' - Est[m] + MaxPrice(m) =< Ceiling'
    BY <1>1, <1>3
  <2>1. workers = 1 /\ Spent + Reserved - Est[m] + MaxPrice(m) =< Ceiling
    BY <1>6 DEF Priced
  <2>2. Spent' + Reserved' =< Spent + Reserved
    BY <1>4, <2>1
  <2> DEFINE x == MaxPrice(m) - Est[m]
  <2>3. Spent + Reserved + x =< Ceiling /\ x \in Int
    BY <1>5, <2>1
  <2> HIDE DEF x
  <2>4. Spent' + Reserved' + x =< Ceiling'
    BY <1>5, <2>2, <2>3, NoMore
  <2> QED BY <1>5, <2>4 DEF x
<1>8. w'[m].pc = "retry" /\ workers' = 1 =>
        Spent' + Reserved' + MaxPrice(m)' =< Ceiling'
  <2> SUFFICES ASSUME w[m].pc = "retry", workers = 1
               PROVE  Spent' + Reserved' + MaxPrice(m) =< Ceiling'
    BY <1>1, <1>3
  <2>1. Spent + Reserved + MaxPrice(m) =< Ceiling
    BY <1>6 DEF Priced
  <2>2. Spent' + Reserved' =< Spent + Reserved
    BY <1>4
  <2> QED BY <1>5, <2>1, <2>2, NoMore
<1> HIDE DEF MaxPrice
<1>9. Priced(m)'
  BY <1>1, <1>3, <1>6, <1>7, <1>8 DEF Priced
<1> QED BY <1>2, <1>9

-----------------------------------------------------------------------------
(* What claims and handbacks make of the sums.                             *)

LEMMA ClaimTotals ==
    ASSUME TypeOK, TypeOK', NEW n \in All, NEW k \in Nat, led' = WithClaim(n, k),
           led[n].handed < k
    PROVE  Spent' = Spent /\ Reserved' = Reserved - ReservedOf(n) + Est[n]
<1>1. /\ led'[n].claimed = k /\ led'[n].handed = led[n].handed
      /\ led'[n].cost = led[n].cost /\ \A m \in All \ {n} : led'[m] = led[m]
  BY ClaimRow
<1>2. /\ Spent' = Spent - led[n].cost + led'[n].cost
      /\ Reserved' = Reserved - ReservedOf(n) + ReservedOf(n)'
  BY <1>1, Totals
<1>3. ReservedOf(n)' = Est[n]
  BY <1>1 DEF ReservedOf
<1>4. Spent \in Nat /\ led[n].cost \in Nat
  BY TotalsType
<1> QED BY <1>1, <1>2, <1>3, <1>4

LEMMA HandbackTotals ==
    ASSUME TypeOK, TypeOK', NEW n \in All, NEW k \in Nat, NEW reason,
           NEW cost \in Nat \cup {NoCost}, led' = WithHandback(n, k, reason, cost)
    PROVE  /\ Spent' = IF cost = NoCost THEN Spent ELSE Spent + cost
           /\ led[n].claimed =< k => Reserved' = Reserved - ReservedOf(n)
           /\ led[n].handed < led[n].claimed => Reserved' =< Reserved
<1>1. /\ led'[n].claimed = led[n].claimed /\ led'[n].handed = k
      /\ led'[n].cost = IF cost = NoCost THEN led[n].cost ELSE led[n].cost + cost
      /\ \A m \in All \ {n} : led'[m] = led[m]
  BY HandbackRow
<1>2. /\ Spent' = Spent - led[n].cost + led'[n].cost
      /\ Reserved' = Reserved - ReservedOf(n) + ReservedOf(n)'
  BY <1>1, Totals
<1>3. /\ Spent \in Nat /\ Reserved \in Nat /\ led[n].cost \in Nat /\ Est[n] \in Nat
      /\ led[n].claimed \in Nat
  BY TotalsType, Estimates DEF TypeOK, RowsType
<1>4. Spent' = IF cost = NoCost THEN Spent ELSE Spent + cost
  BY <1>1, <1>2, <1>3 DEF NoCost
<1>5. ASSUME led[n].claimed =< k PROVE Reserved' = Reserved - ReservedOf(n)
  <2>1. ReservedOf(n)' = 0 /\ ReservedOf(n) \in Nat
    BY <1>1, <1>3, <1>5 DEF ReservedOf
  <2> QED BY <1>2, <1>3, <2>1
<1>6. ASSUME led[n].handed < led[n].claimed PROVE Reserved' =< Reserved
  <2>1. ReservedOf(n) = Est[n] /\ ReservedOf(n)' \in {0, Est[n]}
    BY <1>1, <1>6 DEF ReservedOf
  <2> QED BY <1>2, <1>3, <2>1
<1> QED BY <1>4, <1>5, <1>6

\* While no row is lost, what is recorded is there.
LEMMA Recorded ==
    ASSUME TypeOK, NEW kind, NEW new, Record(kind, new), drops = 0, drops' = 0
    PROVE  led' = new
BY DEF Record

-----------------------------------------------------------------------------
(* What the steward picks is on the menu and has its price.                *)

LEMMA PickedFits ==
    ASSUME TypeOK, NEW n \in All, GoesOn(n)
    PROVE  w[n].attempt < MaxAttempts /\ Covers(0, PriceOf(n, Chosen(n)))
<1> DEFINE wish == Preferences(w[n].kind, w[n].attempt)
           fits == {i \in 1..Len(wish) : /\ wish[i] \in MenuOf(n)
                                         /\ Covers(0, PriceOf(n, wish[i]))}
<1>1. Len(wish) \in Nat
  <2>1. wish \in {<<"stop_blocked">>, <<"replan", "escalate">>,
                  <<"retry_same", "replan">>, <<"escalate", "replan">>,
                  <<"escalate", "replan", "stop_blocked">>,
                  <<"replan", "retry_same", "escalate">>,
                  <<"replan", "escalate", "stop_blocked">>}
    BY Zenon DEF Preferences
  <2>2. \A a, b, c : Len(<<a>>) = 1 /\ Len(<<a, b>>) = 2 /\ Len(<<a, b, c>>) = 3
    OBVIOUS
  <2> HIDE DEF wish
  <2> QED BY <2>1, <2>2
<1>2. Chosen(n) = IF Exhausted \/ fits = {} THEN "stop_budget" ELSE wish[Least(fits)]
  BY DEF Chosen
<1>3. fits # {} /\ Chosen(n) = wish[Least(fits)]
  BY <1>2 DEF GoesOn
<1> HIDE DEF wish
<1>4. fits \in SUBSET Nat
  BY <1>1
<1>5. \A i \in fits : wish[i] \in MenuOf(n) /\ Covers(0, PriceOf(n, wish[i]))
  OBVIOUS
<1> HIDE DEF fits
<1>6. \E i \in fits : \A j \in fits : i =< j
  BY <1>3, <1>4, LeastNumber
<1>7. Least(fits) \in fits
  BY <1>6 DEF Least
<1>8. Chosen(n) \in MenuOf(n) /\ Covers(0, PriceOf(n, Chosen(n)))
  BY <1>3, <1>5, <1>7
<1>9. w[n].attempt < MaxAttempts
  BY <1>8 DEF GoesOn, MenuOf
<1> QED BY <1>8, <1>9

-----------------------------------------------------------------------------
(* One step of a worker, action by action.                                 *)

LEMMA QuietPriced ==
    ASSUME NEW n, w'[n].pc \in {"finished", "capture", "correct", "out"}
    PROVE  Priced(n)'
BY DEF Priced

LEMMA Numbered ==
    ASSUME TypeOK, NEW n \in All
    PROVE  /\ led[n].attempts \in Nat /\ led[n].claimed \in Nat
           /\ led[n].handed \in Nat /\ led[n].cost \in Nat
           /\ w[n].attempt \in Nat /\ w[n].strong \in BOOLEAN
           /\ w[n].patch \in BOOLEAN /\ w[n].cost \in Nat \cup {NoCost}
           /\ w[n].pc \in Pcs
BY DEF TypeOK, RowsType, WorkerType

LEMMA ClaimFunded ==
    ASSUME IInv, TypeOK', Live, Live', Funded, NEW n \in All, Claim(n)
    PROVE  /\ Spent' + Reserved' =< Ceiling' /\ Counted(n)' /\ Priced(n)'
           /\ Cardinality(Active) < workers
<1> DEFINE k == led[n].attempts + 1
<1>1. TypeOK /\ Counted(n) /\ Priced(n)
  BY DEF IInv, Funded
<1>2. k \in Nat /\ led[n].handed < k
  BY <1>1, Numbered DEF Counted
<1>3. Record("claim", WithClaim(n, k)) /\ w[n].pc = "queued"
      /\ Cardinality(Active) < workers /\ Affordable(n)
  BY DEF Claim
<1>4. led' = WithClaim(n, k)
  BY <1>1, <1>3, Recorded DEF Live
<1> HIDE DEF k
<1>5. Spent' = Spent /\ Reserved' = Reserved - ReservedOf(n) + Est[n]
  BY <1>1, <1>2, <1>4, ClaimTotals
<1>6. ReservedOf(n) \in Nat /\ Est[n] \in Nat
  BY Estimates DEF ReservedOf
<1>7. Spent + Reserved + Est[n] =< Budget + ReservedOf(n)
  BY <1>1, <1>3, <1>6, RemainingBound DEF Affordable, Live
<1>8. Spent' + Reserved' =< Ceiling'
  <2>1. Spent \in Nat /\ Reserved \in Nat
    BY <1>1, TotalsType
  <2>2. Ceiling \in Nat /\ Budget \in Nat /\ Budget =< Ceiling
    BY <1>1, Ceilings
  <2>3. Ceiling' = Ceiling
    BY DEF Claim, Ceiling
  <2>4. Spent' + Reserved' =< Budget
    BY <1>5, <1>6, <1>7, <2>1, <2>2
  <2>5. Spent' \in Nat /\ Reserved' \in Nat
    BY TotalsAfter DEF TotalsCount
  <2>6. Spent' + Reserved' \in Int
    BY <2>5
  <2>7. \A x \in Int, low, high \in Nat : x =< low /\ low =< high => x =< high
    OBVIOUS
  <2>8. Spent' + Reserved' =< Ceiling
    BY <2>2, <2>4, <2>6, <2>7
  <2> QED BY <2>3, <2>8
<1>9. /\ led'[n].claimed = k /\ led'[n].handed = led[n].handed
      /\ led'[n].attempts = Larger(led[n].attempts, k)
  BY <1>1, <1>2, <1>4, ClaimRow
<1>10. /\ w'[n].pc = IF n \in isolated THEN "enter" ELSE "launch"
       /\ w'[n].attempt = led[n].attempts + (IF n \in isolated THEN 0 ELSE 1)
       /\ w'[n].strong = w[n].strong /\ w'[n].patch = w[n].patch
  BY <1>1 DEF Claim, TypeOK, WorkerType
<1>11. ~w[n].strong /\ ~w[n].patch
  BY <1>1, <1>3 DEF Counted, Priced
<1>12. Counted(n)'
  BY <1>1, <1>9, <1>10, <1>11, Numbered DEF Counted, Larger, k
<1>13. Priced(n)'
  BY <1>10, <1>11 DEF Priced
<1> QED BY <1>3, <1>8, <1>12, <1>13

LEMMA HandbackFunded ==
    ASSUME IInv, TypeOK', Live, Live', Funded, NEW n \in All, Handback(n)
    PROVE  /\ Spent' + Reserved' =< Ceiling' /\ Counted(n)' /\ Priced(n)'
           /\ n \in Active
<1> DEFINE k == w[n].attempt
           c == w[n].cost
<1>1. TypeOK /\ Counted(n) /\ Priced(n)
  BY DEF IInv, Funded
<1>2. /\ w[n].pc = "back" /\ Record("handback", WithHandback(n, k, Reason(n), c))
  BY DEF Handback
<1>3. led' = WithHandback(n, k, Reason(n), c)
  BY <1>1, <1>2, Recorded DEF Live
<1>4. /\ k \in Nat /\ c \in Nat \cup {NoCost}
      /\ led[n].claimed = k /\ led[n].handed < k
      /\ ~w[n].patch /\ led[n].claimed =< led[n].attempts /\ k >= 1
  BY <1>1, <1>2, Numbered DEF Counted, Priced
<1> HIDE DEF k, c
<1>5. /\ led'[n].claimed = led[n].claimed /\ led'[n].handed = k
      /\ led'[n].attempts = led[n].attempts
  BY <1>1, <1>3, <1>4, HandbackRow
<1>6. /\ Spent' = IF c = NoCost THEN Spent ELSE Spent + c
      /\ Reserved' = Reserved - ReservedOf(n)
  BY <1>1, <1>3, <1>4, HandbackTotals
<1>7. ReservedOf(n) = Est[n] /\ Est[n] \in Nat /\ MaxPrice(n) \in Nat
      /\ Spent \in Nat /\ Reserved \in Nat /\ Ceiling \in Nat
  BY <1>1, <1>4, TotalsType, Prices, Ceilings DEF ReservedOf
<1>8. Spent + Reserved - Est[n] + MaxPrice(n) =< Ceiling
  <2>1. CASE w[n].strong
    BY <1>1, <1>2, <2>1 DEF Priced
  <2>2. CASE ~w[n].strong
    <3>1. MaxPrice(n) = Est[n]
      BY <2>2 DEF MaxPrice
    <3>2. Spent + Reserved =< Ceiling
      BY DEF Funded
    <3> QED BY <1>7, <3>1, <3>2
  <2> QED BY <2>1, <2>2
<1>9. Spent' + Reserved' =< Ceiling'
  <2>1. Ceiling' = Ceiling + Larger(0, c - MaxPrice(n))
    <3>1. excess' = excess + Larger(0, c - MaxPrice(n))
      BY DEF Handback, c
    <3>2. excess \in Nat /\ c \in Int /\ Budget \in Nat
      BY <1>1, <1>4, Ceilings DEF TypeOK, NoCost
    <3> HIDE DEF MaxPrice
    <3>3. Larger(0, c - MaxPrice(n)) \in Nat
      BY <1>7, <3>2 DEF Larger
    <3> HIDE DEF Larger
    <3> QED BY <3>1, <3>2, <3>3 DEF Ceiling
  <2> HIDE DEF MaxPrice
  <2> QED BY <1>4, <1>6, <1>7, <1>8, <2>1 DEF NoCost, Larger
<1>10. /\ w'[n].pc \in {"decide", "capture", "finished"}
       /\ w'[n].attempt = k /\ w'[n].patch = w[n].patch /\ w'[n].strong = w[n].strong
  BY <1>1 DEF Handback, TypeOK, WorkerType, k
<1>11. Counted(n)'
  BY <1>4, <1>5, <1>10 DEF Counted
<1>12. w[n].strong => k >= 2
  BY <1>1, <1>2 DEF Priced, k
<1>13. Priced(n)'
  BY <1>10, <1>12 DEF Priced
<1>14. n \in Active
  BY <1>2 DEF Active, InWave
<1> QED BY <1>9, <1>11, <1>13, <1>14

LEMMA RetryFunded ==
    ASSUME IInv, TypeOK', Live, Live', Funded, NEW n \in All, Retry(n)
    PROVE  /\ Spent' + Reserved' =< Ceiling' /\ Counted(n)' /\ Priced(n)'
           /\ n \in Active
<1> DEFINE k == w[n].attempt + 1
<1>1. TypeOK /\ Counted(n) /\ Priced(n)
  BY DEF IInv, Funded
<1>2. w[n].pc = "retry" /\ Record("claim", WithClaim(n, k))
  BY DEF Retry
<1>3. led' = WithClaim(n, k)
  BY <1>1, <1>2, Recorded DEF Live
<1>4. /\ k \in Nat /\ k >= 2 /\ led[n].handed < k /\ led[n].claimed = led[n].handed
      /\ ~w[n].patch
  BY <1>1, <1>2, Numbered DEF Counted
<1>5. w[n].strong \in BOOLEAN /\ led[n].attempts \in Nat /\ led[n].handed \in Nat
  BY <1>1, Numbered
<1>6. workers = 1
  <2> DEFINE several == workers > 1
  <2>1. retriedInParallel' = (retriedInParallel \/ several)
    BY DEF Retry
  <2> HIDE DEF several
  <2>2. ~several
    BY <2>1, Zenon DEF Live
  <2> QED BY <1>1, <2>2 DEF several, TypeOK
<1>7. /\ w'[n].pc = "launch" /\ w'[n].attempt = k /\ w'[n].strong = w[n].strong
      /\ w'[n].patch = w[n].patch /\ workers' = workers
  BY <1>1 DEF Retry, TypeOK, WorkerType, main
<1> HIDE DEF k
<1>8. Spent' = Spent /\ Reserved' = Reserved - ReservedOf(n) + Est[n]
  BY <1>1, <1>3, <1>4, ClaimTotals
<1>9. /\ led'[n].claimed = k /\ led'[n].handed = led[n].handed
      /\ led'[n].attempts = Larger(led[n].attempts, k)
  BY <1>1, <1>3, <1>4, ClaimRow
<1>10. /\ ReservedOf(n) = 0 /\ Est[n] \in Nat /\ MaxPrice(n) \in Nat
       /\ Est[n] =< MaxPrice(n)
       /\ Spent \in Nat /\ Reserved \in Nat /\ Ceiling \in Nat /\ Ceiling' = Ceiling
  BY <1>1, <1>4, <1>5, TotalsType, Prices, Ceilings DEF ReservedOf, Retry, Ceiling
<1>11. Spent + Reserved + MaxPrice(n) =< Ceiling
  BY <1>1, <1>2, <1>6 DEF Priced
<1>12. /\ Spent' + Reserved' =< Ceiling'
       /\ Spent' + Reserved' - Est[n] + MaxPrice(n) =< Ceiling'
  BY <1>8, <1>10, <1>11
<1>13. Counted(n)'
  BY <1>4, <1>5, <1>7, <1>9 DEF Counted, Larger
<1>14. MaxPrice(n)' = MaxPrice(n)
  BY <1>7 DEF MaxPrice
<1>15. Priced(n)'
  BY <1>4, <1>6, <1>7, <1>12, <1>14 DEF Priced
<1>16. n \in Active
  BY <1>2 DEF Active, InWave
<1> QED BY <1>12, <1>13, <1>15, <1>16

LEMMA DecideFunded ==
    ASSUME IInv, TypeOK', TwoAttempts, Live, Funded, NEW n \in All, Decide(n)
    PROVE  /\ Spent' + Reserved' =< Ceiling' /\ Counted(n)' /\ Priced(n)'
           /\ n \in Active
<1>1. TypeOK /\ Counted(n) /\ Priced(n) /\ Spent + Reserved =< Ceiling
  BY DEF IInv, Funded
<1>2. w[n].pc = "decide" /\ GoesOn(n) /\ led' = led
  BY DEF Decide
<1>3. w[n].attempt < MaxAttempts /\ Covers(0, PriceOf(n, Chosen(n)))
  BY <1>1, <1>2, PickedFits
<1>4. ~w[n].strong
  BY <1>1, <1>2, <1>3, Numbered, LimitsAssumption DEF Priced, TwoAttempts
<1> DEFINE p == PriceOf(n, Chosen(n))
<1>5. w'[n].pc = "retry" /\ w'[n].attempt = w[n].attempt /\ w'[n].patch = w[n].patch
  BY <1>1 DEF Decide, TypeOK, WorkerType
<1>6. w'[n].strong = (w[n].strong \/ Chosen(n) = "escalate")
  BY <1>1 DEF Decide, TypeOK, WorkerType
<1>7. MaxPrice(n)' = p
  BY <1>2, <1>4, <1>6 DEF MaxPrice, PriceOf, GoesOn
<1>8. p \in Nat
  BY <1>2, Estimates DEF PriceOf, GoesOn
<1> HIDE DEF p
<1>9. Spent + Reserved + p =< Ceiling
  <2>1. Spent + Reserved + p =< Budget + 0
    BY <1>1, <1>3, <1>8, RemainingBound DEF Live, p
  <2>2. Spent \in Nat /\ Reserved \in Nat
    BY <1>1, TotalsType
  <2>3. Ceiling \in Nat /\ Budget \in Nat /\ Budget =< Ceiling
    BY <1>1, Ceilings
  <2> QED BY <1>8, <2>1, <2>2, <2>3
<1>10. Spent' = Spent /\ Reserved' = Reserved /\ Ceiling' = Ceiling
  BY <1>2, SameRows DEF Decide, bounds, Ceiling
<1>11. Counted(n)'
  BY <1>1, <1>2, <1>5, Numbered DEF Counted
<1>12. Priced(n)'
  BY <1>5, <1>7, <1>9, <1>10 DEF Priced
<1>13. n \in Active
  BY <1>2 DEF Active, InWave
<1> QED BY <1>1, <1>10, <1>11, <1>12, <1>13

\* A worktree fails: the claim is closed, or stays open as it was.
LEMMA IsolationFunded ==
    ASSUME IInv, TypeOK', Live, Live', Funded, NEW n \in All,
           NEW pcs \in SUBSET {"enter", "capture", "decide"}, IsolationFails(n, pcs)
    PROVE  /\ Spent' + Reserved' =< Ceiling' /\ Counted(n)' /\ Priced(n)'
           /\ n \in Active
<1> DEFINE k == Larger(w[n].attempt, 1)
           kind == IF w[n].pc = "capture" THEN "correction" ELSE "handback"
<1>1. TypeOK /\ Counted(n) /\ Priced(n) /\ Spent + Reserved =< Ceiling
  BY DEF IInv, Funded
<1>2. /\ w[n].pc \in {"enter", "capture", "decide"}
      /\ Record(kind, WithHandback(n, k, "failed", NoCost))
  BY DEF IsolationFails
<1>3. led' = WithHandback(n, k, "failed", NoCost)
  BY <1>1, <1>2, Recorded DEF Live
<1>4. /\ k \in Nat /\ ~w[n].patch /\ k =< led[n].attempts
      /\ led[n].claimed =< led[n].attempts
      /\ led[n].claimed =< k \/ led[n].handed < led[n].claimed
  BY <1>1, <1>2, Numbered DEF Counted, Larger
<1> HIDE DEF k, kind
<1>5. /\ led'[n].claimed = led[n].claimed /\ led'[n].handed = k
      /\ led'[n].attempts = led[n].attempts
  BY <1>1, <1>3, <1>4, HandbackRow
<1>6. Spent' = Spent /\ Reserved' =< Reserved
  <2> DEFINE c == NoCost
  <2>1. c \in Nat \cup {NoCost} /\ led' = WithHandback(n, k, "failed", c) /\ c = NoCost
    BY <1>3
  <2> HIDE DEF c
  <2>2. Spent' = Spent
    BY <1>1, <1>4, <2>1, HandbackTotals
  <2>3. CASE led[n].handed < led[n].claimed
    BY <1>1, <1>4, <2>1, <2>2, <2>3, HandbackTotals
  <2>4. CASE led[n].claimed =< k
    <3>1. Reserved' = Reserved - ReservedOf(n)
      BY <1>1, <1>4, <2>1, <2>4, HandbackTotals
    <3>2. Reserved \in Nat /\ ReservedOf(n) \in Nat
      BY <1>1, TotalsType, Estimates
    <3> QED BY <2>2, <3>1, <3>2
  <2> QED BY <1>4, <2>3, <2>4
<1>7. Spent' + Reserved' =< Ceiling'
  <2>1. Spent \in Nat /\ Reserved \in Nat /\ Reserved' \in Nat
    BY <1>1, TotalsType, TotalsAfter DEF TotalsCount
  <2>3. Ceiling \in Nat /\ Ceiling' = Ceiling
    BY <1>1, Ceilings DEF IsolationFails, Ceiling
  <2>2. \A a, b, c, limit \in Nat : b =< c /\ a + c =< limit => a + b =< limit
    OBVIOUS
  <2> QED BY <1>1, <1>6, <2>1, <2>2, <2>3
<1>8. w'[n].pc = "finished" /\ w'[n].patch = w[n].patch
  BY <1>1 DEF IsolationFails, TypeOK, WorkerType
<1>9. Counted(n)'
  <2>1. ~w'[n].patch
    BY <1>4, <1>8, Zenon
  <2> QED BY <1>4, <1>5, <1>8, <2>1 DEF Counted
<1>10. n \in Active
  BY <1>2 DEF Active, InWave
<1> QED BY <1>7, <1>8, <1>9, <1>10, QuietPriced

\* The patch of a wave does not apply: its claims were closed before.
LEMMA CorrectFunded ==
    ASSUME IInv, TypeOK', Live, Live', Funded, NEW n \in All, Correct(n)
    PROVE  /\ Spent' + Reserved' =< Ceiling' /\ Counted(n)' /\ Priced(n)'
           /\ Spent' + Reserved' =< Spent + Reserved
<1> DEFINE k == Larger(w[n].attempt, 1)
<1>1. TypeOK /\ Counted(n) /\ Priced(n) /\ Spent + Reserved =< Ceiling
  BY DEF IInv, Funded
<1>2. /\ w[n].pc = "correct"
      /\ Record("correction", WithHandback(n, k, "failed", 0))
  BY DEF Correct
<1>3. led' = WithHandback(n, k, "failed", 0)
  BY <1>1, <1>2, Recorded DEF Live
<1>4. /\ k \in Nat /\ k = w[n].attempt /\ led[n].claimed = k /\ led[n].handed = k
      /\ k >= 1 /\ led[n].claimed =< led[n].attempts
  BY <1>1, <1>2, Numbered DEF Counted, Larger
<1> HIDE DEF k
<1>5. w'[n].pc = "finished" /\ w'[n].attempt = k
  <2>1. w \in [All -> WorkerType] /\ w' = [w EXCEPT ![n].pc = "finished"]
    BY <1>1 DEF Correct, Goes, TypeOK
  <2>2. w'[n] = [w[n] EXCEPT !.pc = "finished"] /\ w[n] \in WorkerType
    BY <2>1
  <2>3. w'[n].pc = "finished" /\ w'[n].attempt = w[n].attempt
    BY <2>2 DEF WorkerType
  <2> QED BY <1>4, <2>3
<1>6. /\ led'[n].claimed = led[n].claimed /\ led'[n].handed = k
      /\ led'[n].attempts = led[n].attempts
  BY <1>1, <1>3, <1>4, HandbackRow
<1>7. /\ 0 \in Nat \cup {NoCost} /\ 0 # NoCost
  BY DEF NoCost
<1>8. Spent' = Spent + 0 /\ Reserved' = Reserved - ReservedOf(n)
  <2> DEFINE c == 0
  <2>1. c \in Nat \cup {NoCost} /\ c # NoCost /\ led' = WithHandback(n, k, "failed", c)
        /\ c = 0
    BY <1>3, <1>7
  <2> HIDE DEF c
  <2> QED BY <1>1, <1>4, <2>1, HandbackTotals
<1>9. /\ Spent \in Nat /\ Reserved \in Nat /\ ReservedOf(n) = 0
      /\ Ceiling \in Nat /\ Ceiling' = Ceiling
  BY <1>1, <1>4, TotalsType, Ceilings DEF ReservedOf, Correct, Ceiling
<1>10. Spent' = Spent /\ Reserved' = Reserved
  BY <1>8, <1>9
<1>11. Counted(n)'
  BY <1>4, <1>5, <1>6 DEF Counted
<1> QED BY <1>1, <1>5, <1>9, <1>10, <1>11, QuietPriced

LEMMA LaunchFunded ==
    ASSUME IInv, TypeOK', Funded, NEW n \in All, Launch(n)
    PROVE  Counted(n)' /\ Priced(n)'
<1>1. TypeOK /\ Counted(n) /\ Priced(n)
  BY DEF IInv, Funded
<1>2. PICK kind \in Kinds \cup {"done"}, cost \in Costs(n) :
        w' = [w EXCEPT ![n].pc = "back", ![n].kind = kind, ![n].cost = cost]
  BY DEF Launch
<1>3. w[n].pc = "launch" /\ led' = led /\ workers' = workers
  BY DEF Launch, main
<1>4. /\ w'[n].pc = "back" /\ w'[n].cost = cost /\ w'[n].attempt = w[n].attempt
      /\ w'[n].patch = w[n].patch /\ w'[n].strong = w[n].strong
  BY <1>1, <1>2 DEF TypeOK, WorkerType
<1>7. MaxPrice(n)' = MaxPrice(n)
  BY <1>4 DEF MaxPrice
<1>8. Spent' = Spent /\ Reserved' = Reserved /\ Ceiling' = Ceiling
  BY <1>3, SameRows DEF Launch, bounds, Ceiling
<1>9. Counted(n)'
  BY <1>1, <1>3, <1>4, Numbered DEF Counted
<1> HIDE DEF MaxPrice
<1>10. Priced(n)'
  BY <1>1, <1>3, <1>4, <1>7, <1>8 DEF Priced
<1> QED BY <1>9, <1>10

LEMMA EnterFunded ==
    ASSUME IInv, TypeOK', Funded, NEW n \in All, Enter(n)
    PROVE  Counted(n)' /\ Priced(n)'
<1>1. TypeOK /\ Counted(n) /\ Priced(n)
  BY DEF IInv, Funded
<1>2. w[n].pc = "enter" /\ led' = led
  BY DEF Enter
<1>3. /\ w'[n].pc = "launch" /\ w'[n].attempt = w[n].attempt + 1
      /\ w'[n].patch = w[n].patch /\ w'[n].strong = w[n].strong
  BY <1>1 DEF Enter, TypeOK, WorkerType
<1>4. ~w[n].strong /\ ~w[n].patch
  BY <1>1, <1>2 DEF Counted, Priced
<1>5. Counted(n)'
  BY <1>1, <1>2, <1>3, <1>4, Numbered DEF Counted
<1>6. Priced(n)'
  BY <1>3, <1>4 DEF Priced
<1> QED BY <1>5, <1>6

LEMMA EndFunded ==
    ASSUME IInv, Funded, NEW n \in All, Refuse(n) \/ GiveUp(n) \/ Capture(n)
    PROVE  Counted(n)' /\ Priced(n)'
<1>1. TypeOK /\ Counted(n)
  BY DEF IInv, Funded
<1>2. w[n].pc \in {"queued", "decide", "capture"} /\ led' = led
  BY DEF Refuse, GiveUp, Capture
<1>3. w'[n].pc = "finished" /\ w'[n].attempt = w[n].attempt
  BY <1>1 DEF Refuse, GiveUp, Capture, Goes, TypeOK, WorkerType
<1>4. w[n].pc # "capture" => w'[n].patch = w[n].patch
  BY <1>1 DEF Refuse, GiveUp, Capture, Goes, TypeOK, WorkerType
<1>5. w[n].pc # "capture" => ~w'[n].patch
  BY <1>1, <1>2, <1>4 DEF Counted
<1>6. Counted(n)'
  BY <1>1, <1>2, <1>3, <1>5, Numbered DEF Counted
<1> QED BY <1>3, <1>6, QuietPriced

LEMMA StepFunded ==
    ASSUME IInv, TypeOK', TwoAttempts, Live, Live', Funded, NEW n \in All, Step(n)
    PROVE  Funded'
<1>1. StepShape(n) /\ Spent + Reserved =< Ceiling
  BY StepShapes DEF IInv, Funded
<1>typed. TypeOK /\ Ceiling \in Nat
  BY Ceilings DEF IInv
<1>grows. excess =< excess'
  <2>1. excess \in Nat /\ excess' \in Nat
    BY <1>typed DEF TypeOK
  <2>2. CASE Handback(n)
    <3>1. MaxPrice(n) \in Nat /\ w[n].cost \in Nat \cup {NoCost}
      BY <1>typed, Prices, Numbered
    <3>2. w[n].cost \in Int
      BY <3>1 DEF NoCost
    <3> HIDE DEF MaxPrice
    <3>3. Larger(0, w[n].cost - MaxPrice(n)) \in Nat
      BY <3>1, <3>2 DEF Larger
    <3>4. excess' = excess + Larger(0, w[n].cost - MaxPrice(n))
      BY <2>2 DEF Handback
    <3> HIDE DEF Larger
    <3> QED BY <2>1, <3>3, <3>4
  <2>3. CASE ~Handback(n)
    <3>1. excess' = excess
      BY <2>3 DEF Step, Work, Claim, Refuse, Enter, Launch, Capture, Decide, GiveUp,
                  Retry, IsolationFails, Correct, bounds
    <3> QED BY <2>1, <3>1
  <2> QED BY <2>2, <2>3
<1>2. CASE Launch(n) \/ Enter(n) \/ Refuse(n) \/ GiveUp(n) \/ Capture(n)
  <2>1. led' = led
    BY <1>2 DEF Launch, Enter, Refuse, GiveUp, Capture
  <2>2. Spent' = Spent /\ Reserved' = Reserved
    BY <2>1, SameRows
  <2>3. Spent \in Nat /\ Reserved \in Nat
    BY TotalsType DEF IInv
  <2>4. Ceiling' = Ceiling
    BY <1>2 DEF Launch, Enter, Refuse, GiveUp, Capture, bounds, Ceiling
  <2>5. Spent' + Reserved' =< Ceiling' /\ Spent' + Reserved' =< Spent + Reserved
    BY <1>1, <1>typed, <2>2, <2>3, <2>4
  <2>6. Counted(n)' /\ Priced(n)'
    BY <1>2, LaunchFunded, EnterFunded, EndFunded
  <2> QED BY <1>1, <1>grows, <2>5, <2>6, Others
<1>3. CASE Claim(n)
  BY <1>1, <1>3, ClaimFunded, <1>grows, Others
<1>4. CASE Handback(n)
  BY <1>1, <1>4, HandbackFunded, <1>grows, Others
<1>5. CASE Decide(n)
  BY <1>1, <1>5, DecideFunded, <1>grows, Others
<1>6. CASE Retry(n)
  BY <1>1, <1>6, RetryFunded, <1>grows, Others
<1>7. CASE Correct(n)
  BY <1>1, <1>7, CorrectFunded, <1>grows, Others
<1>8. CASE IsolationFails(n, {"enter", "capture"}) \/ IsolationFails(n, {"decide"})
  <2>1. Spent' + Reserved' =< Ceiling' /\ Counted(n)' /\ Priced(n)' /\ n \in Active
    BY <1>8, IsolationFunded
  <2> QED BY <1>1, <2>1, <1>grows, Others
<1> QED BY <1>2, <1>3, <1>4, <1>5, <1>6, <1>7, <1>8 DEF Step, Work

-----------------------------------------------------------------------------
(* The budget.                                                             *)

\* Nothing for every node is nothing.
LEMMA NothingSums == SumTo([n \in All |-> 0], MaxNodes) = 0
<1> DEFINE zero == [n \in All |-> 0]
<1> DEFINE S == {m \in Nat : m =< MaxNodes => SumTo(zero, m) = 0}
<1>1. MaxNodes \in Nat /\ zero \in [1..MaxNodes -> {0}]
  BY PlanAssumption DEF All
<1> HIDE DEF zero
<1>2. 0 \in S
  BY SumZero
<1>3. ASSUME NEW m \in Nat, m \in S PROVE m + 1 \in S
  <2> SUFFICES ASSUME m + 1 =< MaxNodes PROVE SumTo(zero, m + 1) = 0
    OBVIOUS
  <2>1. Numbers(zero, m + 1) /\ zero[m + 1] = 0 /\ SumTo(zero, m) = 0
    BY <1>1, <1>3 DEF Numbers
  <2> QED BY <2>1, SumNext
<1>4. MaxNodes \in S
  <2> HIDE DEF S
  <2> QED BY <1>1, <1>2, <1>3, SetInduction
<1>5. SumTo(zero, MaxNodes) = 0
  BY <1>1, <1>4
<1> QED BY <1>5 DEF zero

LEMMA InitFunded == Init => Funded
<1> SUFFICES ASSUME Init PROVE Funded
  OBVIOUS
<1>1. \A n \in All : w[n] = Idle /\ led[n] = NoRows
  BY DEF Init
<1> DEFINE zero == [n \in All |-> 0]
<1>2. \A n \in All : led[n].cost = 0 /\ ReservedOf(n) = 0
  BY <1>1 DEF NoRows, ReservedOf
<1>3. Spent = SumTo(zero, MaxNodes) /\ Reserved = SumTo(zero, MaxNodes)
  BY <1>2 DEF Spent, Reserved
<1>4. SumTo(zero, MaxNodes) = 0
  BY NothingSums
<1>5. Spent + Reserved =< Ceiling
  BY <1>3, <1>4, LimitsAssumption DEF Ceiling, Init
<1>6. \A n \in All : Counted(n) /\ Priced(n)
  BY <1>1 DEF Counted, Priced, Idle, NoRows
<1> QED BY <1>5, <1>6 DEF Funded

\* Whoever leaves the rows alone, and no worker in the middle of an attempt.
LEMMA OtherFunded ==
    ASSUME IInv, TypeOK', Funded, Loop \/ Resume \/ Die \/ UNCHANGED vars
    PROVE  Funded'
<1>1. led' = led /\ TypeOK /\ w \in [All -> WorkerType]
  BY DEF Loop, StartWave, Replan, Stop, Merge, Conflict, Settle, Resume, Die, vars,
         IInv, TypeOK
<1>0. Ceiling' = Ceiling
  BY DEF Loop, StartWave, Replan, Stop, Merge, Conflict, Settle, Resume, Die, vars,
         bounds, Ceiling
<1>2. /\ Spent' = Spent /\ Reserved' = Reserved /\ Ceiling' = Ceiling
      /\ Spent' + Reserved' =< Ceiling'
  BY <1>0, <1>1, SameRows DEF Funded
<1>3. \A n \in All : Counted(n) /\ Priced(n)
  BY DEF Funded
<1>4. CASE w' = w /\ workers' = workers
  <2>1. \A n \in All : MaxPrice(n)' = MaxPrice(n)
    BY <1>4 DEF MaxPrice
  <2>2. \A n \in All : Counted(n)'
    BY <1>1, <1>3, <1>4 DEF Counted
  <2> HIDE DEF MaxPrice
  <2>3. \A n \in All : Priced(n)'
    BY <1>2, <1>3, <1>4, <2>1 DEF Priced
  <2> QED BY <1>2, <2>2, <2>3 DEF Funded
<1>5. CASE StartWave \/ Settle \/ Resume
  <2>1. \A n \in All : /\ w'[n].pc \in {"queued", "out"}
                       /\ ~w'[n].strong /\ ~w'[n].patch
    <3>1. \A n \in All : w'[n] \in {Idle, [Idle EXCEPT !.pc = "queued"]}
      BY <1>5 DEF StartWave, Settle, Resume
    <3> QED BY <3>1 DEF Idle
  <2>2. \A n \in All : Counted(n)'
    BY <1>1, <1>3, <2>1 DEF Counted
  <2>3. \A n \in All : Priced(n)'
    BY <2>1 DEF Priced
  <2> QED BY <1>2, <2>2, <2>3 DEF Funded
<1>6. CASE Conflict
  <2>1. /\ \A n \in All \ Patched : w'[n] = w[n]
        /\ workers' = workers
    BY <1>1, <1>6 DEF Conflict
  <2>2. \A n \in Patched : /\ w'[n].pc = "correct" /\ w'[n].attempt = w[n].attempt
                           /\ w[n].patch
    BY <1>1, <1>6 DEF Conflict, Patched, InWave, WorkerType
  <2>3. \A n \in All : n \in Patched \/ n \notin Patched
    OBVIOUS
  <2>4. ASSUME NEW n \in Patched PROVE Counted(n)' /\ Priced(n)'
    <3>1. n \in All /\ Counted(n)
      BY <1>3 DEF Patched, InWave
    <3> QED BY <1>1, <2>2, <3>1, QuietPriced DEF Counted
  <2>5. ASSUME NEW n \in All \ Patched PROVE Counted(n)' /\ Priced(n)'
    <3>1. MaxPrice(n)' = MaxPrice(n)
      BY <2>1 DEF MaxPrice
    <3>2. Counted(n)'
      BY <1>1, <1>3, <2>1 DEF Counted
    <3> HIDE DEF MaxPrice
    <3>3. Priced(n)'
      BY <1>2, <1>3, <2>1, <3>1 DEF Priced
    <3> QED BY <3>2, <3>3
  <2> QED BY <1>2, <2>4, <2>5 DEF Funded
<1>7. CASE Replan \/ Stop \/ Merge \/ Die \/ UNCHANGED vars
  BY <1>4, <1>7 DEF Replan, Stop, Merge, Die, vars
<1> QED BY <1>5, <1>6, <1>7 DEF Loop

LEMMA NextFunded ==
    ASSUME TwoAttempts
    PROVE  IInv /\ IInv' /\ BudgetInv /\ [Next]_vars => BudgetInv'
<1> SUFFICES ASSUME IInv, IInv', BudgetInv, [Next]_vars, Live' PROVE Funded'
  BY DEF BudgetInv
<1>1. TypeOK /\ TypeOK'
  BY DEF IInv
<1>2. drops =< drops'
  <2>1. drops \in Nat
    BY <1>1, LimitsAssumption DEF TypeOK
  <2>2. drops' = drops \/ drops' = drops + 1
    BY DEF Next, Loop, StartWave, Replan, Stop, Merge, Conflict, Settle, Resume,
           Die, Step, Work, Claim, Refuse, Enter, Launch, Handback, Capture,
           Decide, GiveUp, Retry, IsolationFails, Correct, Record, bounds, vars
  <2> QED BY <2>1, <2>2
<1>3. retriedInParallel => retriedInParallel'
  BY DEF Next, Loop, StartWave, Replan, Stop, Merge, Conflict, Settle, Resume,
         Die, Step, Work, Claim, Refuse, Enter, Launch, Handback, Capture,
         Decide, GiveUp, Retry, IsolationFails, Correct, bounds, vars
<1>4. Live
  BY <1>1, <1>2, <1>3, LimitsAssumption DEF Live, TypeOK
<1>5. Funded
  BY <1>4 DEF BudgetInv
<1>6. ASSUME NEW n \in All, Step(n) PROVE Funded'
  BY <1>1, <1>4, <1>5, <1>6, StepFunded
<1>7. CASE Loop \/ Resume \/ Die \/ UNCHANGED vars
  BY <1>1, <1>5, <1>7, OtherFunded
<1> QED BY <1>6, <1>7 DEF Next

\* No wave spends a dollar twice, and no retry more than there is, whatever
\* the plan, the prices and the failures.
THEOREM BudgetHolds ==
    ASSUME TwoAttempts
    PROVE  Spec => []BudgetKept
<1>1. Init => BudgetInv
  BY InitFunded DEF BudgetInv
<1>2. IInv /\ IInv' /\ BudgetInv /\ [Next]_vars => BudgetInv'
  BY NextFunded
<1>3. IInv /\ BudgetInv => BudgetKept
  <2> SUFFICES ASSUME IInv, BudgetInv, Budget # 0, ~(drops > 0), ~retriedInParallel
               PROVE  Spent + Reserved =< Budget + excess
    BY DEF BudgetKept
  <2>1. Budget > 0 /\ drops = 0
    BY LimitsAssumption DEF IInv, TypeOK
  <2> QED BY <2>1 DEF BudgetInv, Live, Funded, Ceiling
<1> QED BY <1>1, <1>2, <1>3, InvariantHolds, PTL DEF Spec

-----------------------------------------------------------------------------
(* Claims are closed: a first run, in which no row is lost, hands back     *)
(* every attempt it claims under the number it claimed it by.              *)

FirstRun == runs = 1 /\ drops = 0

Waits(n) == w[n].pc = "out" /\ state[n] \in {"none", "pending"}

\* What the rows of n say of claims, wherever its worker is.  The number of an
\* attempt whose worktree could not be made is that of the one before, or 1:
\* of the first, since nothing before it failed.
Closing(n) ==
    /\ Waits(n) \/ w[n].pc = "queued" =>
         led[n].attempts = 0 /\ led[n].claimed = 0 /\ led[n].handed = 0
    /\ w[n].pc = "enter" => led[n].claimed = 1 /\ w[n].attempt = 0
    /\ w[n].pc \in {"launch", "back"} => led[n].claimed = w[n].attempt
    /\ w[n].pc \in {"decide", "retry", "capture", "correct"} \/ w[n].patch =>
         led[n].claimed =< Larger(w[n].attempt, 1)
    /\ ~Waits(n) /\ w[n].pc \in {"out", "decide", "retry", "capture", "finished", "correct"}
         => led[n].claimed =< led[n].handed
    /\ w[n].patch => w[n].pc \in {"finished", "correct"}

ClosingInv == runs \in Nat \ {0} /\ (FirstRun => \A n \in All : Closing(n))

LEMMA InitClosing == Init => ClosingInv
BY DEF Init, Idle, NoRows, ClosingInv, FirstRun, Closing, Waits

\* Nothing of a worker has moved but, maybe, from waiting to being skipped.
LEMMA StillClosing ==
    ASSUME NEW m, Closing(m), w'[m] = w[m], led'[m] = led[m],
           state'[m] \in {"none", "pending"} => state[m] \in {"none", "pending"}
    PROVE  Closing(m)'
BY DEF Closing, Waits

\* What the step of a worker makes of its rows.
LEMMA WorkClosing ==
    ASSUME IInv, TypeOK', FirstRun, drops' = 0, NEW n \in All, Closing(n), Step(n)
    PROVE  Closing(n)'
<1>1. TypeOK /\ StepShape(n)
  BY StepShapes DEF IInv
<1>2. /\ led[n].attempts \in Nat /\ led[n].claimed \in Nat /\ led[n].handed \in Nat
      /\ w[n].attempt \in Nat /\ w[n].patch \in BOOLEAN
  BY <1>1, Numbered
<1>3. w \in [All -> WorkerType] /\ drops = 0
  BY <1>1 DEF TypeOK, FirstRun
<1>4. CASE Claim(n)
  <2> DEFINE k == led[n].attempts + 1
  <2>1. Record("claim", WithClaim(n, k)) /\ w[n].pc = "queued"
    BY <1>4 DEF Claim
  <2>2. led' = WithClaim(n, k)
    BY <1>1, <1>3, <2>1, Recorded
  <2>3. k = 1 /\ ~w[n].patch
    BY <1>2, <2>1 DEF Closing
  <2> HIDE DEF k
  <2>4. led'[n].claimed = 1
    BY <1>1, <2>2, <2>3, ClaimRow
  <2>5. /\ w'[n].pc = IF n \in isolated THEN "enter" ELSE "launch"
        /\ w'[n].attempt = led[n].attempts + (IF n \in isolated THEN 0 ELSE 1)
        /\ w'[n].patch = w[n].patch
    BY <1>3, <1>4 DEF Claim, WorkerType
  <2>6. led[n].attempts = 0
    BY <2>1 DEF Closing
  <2> QED BY <2>3, <2>4, <2>5, <2>6 DEF Closing, Waits
<1>5. CASE Retry(n)
  <2> DEFINE k == w[n].attempt + 1
  <2>1. Record("claim", WithClaim(n, k)) /\ w[n].pc = "retry"
    BY <1>5 DEF Retry
  <2>2. led' = WithClaim(n, k)
    BY <1>1, <1>3, <2>1, Recorded
  <2>3. k \in Nat /\ ~w[n].patch
    BY <1>2, <2>1 DEF Closing
  <2> HIDE DEF k
  <2>4. led'[n].claimed = k
    BY <1>1, <2>2, <2>3, ClaimRow
  <2>5. w'[n].pc = "launch" /\ w'[n].attempt = k /\ w'[n].patch = w[n].patch
    BY <1>3, <1>5 DEF Retry, WorkerType, k
  <2> QED BY <2>3, <2>4, <2>5 DEF Closing, Waits
<1>6. CASE Handback(n)
  <2>1. Record("handback", WithHandback(n, w[n].attempt, Reason(n), w[n].cost))
        /\ w[n].pc = "back"
    BY <1>6 DEF Handback
  <2>2. led' = WithHandback(n, w[n].attempt, Reason(n), w[n].cost)
    BY <1>1, <1>3, <2>1, Recorded
  <2>3. led'[n].claimed = led[n].claimed /\ led'[n].handed = w[n].attempt
    BY <1>1, <2>2, HandbackRow
  <2>4. /\ w'[n].pc \in {"decide", "capture", "finished"}
        /\ w'[n].attempt = w[n].attempt /\ w'[n].patch = w[n].patch
    BY <1>3, <1>6 DEF Handback, WorkerType
  <2>5. led[n].claimed = w[n].attempt /\ ~w[n].patch
    BY <1>2, <2>1 DEF Closing
  <2> QED BY <1>2, <2>3, <2>4, <2>5 DEF Closing, Waits, Larger
<1>7. ASSUME NEW pcs \in SUBSET {"enter", "capture", "decide"}, IsolationFails(n, pcs)
      PROVE  Closing(n)'
  <2> DEFINE k == Larger(w[n].attempt, 1)
             kind == IF w[n].pc = "capture" THEN "correction" ELSE "handback"
  <2>1. Record(kind, WithHandback(n, k, "failed", NoCost))
        /\ w[n].pc \in {"enter", "capture", "decide"}
    BY <1>7 DEF IsolationFails
  <2> HIDE DEF kind
  <2>2. led' = WithHandback(n, k, "failed", NoCost)
    BY <1>1, <1>3, <2>1, Recorded
  <2>3. led[n].claimed =< k /\ ~w[n].patch
    BY <1>2, <2>1 DEF Closing, Larger
  <2> HIDE DEF k
  <2>4. led'[n].claimed = led[n].claimed /\ led'[n].handed = k
    BY <1>1, <2>2, HandbackRow
  <2>5. w'[n].pc = "finished" /\ w'[n].patch = w[n].patch
    BY <1>3, <1>7 DEF IsolationFails, WorkerType
  <2> QED BY <2>3, <2>4, <2>5 DEF Closing, Waits
<1>8. CASE Correct(n)
  <2> DEFINE k == Larger(w[n].attempt, 1)
  <2>1. Record("correction", WithHandback(n, k, "failed", 0)) /\ w[n].pc = "correct"
    BY <1>8 DEF Correct
  <2>2. led' = WithHandback(n, k, "failed", 0)
    BY <1>1, <1>3, <2>1, Recorded
  <2>3. led[n].claimed =< k
    BY <2>1 DEF Closing
  <2>4. w'[n].pc = "finished" /\ w'[n].attempt = w[n].attempt /\ w'[n].patch = w[n].patch
    BY <1>3, <1>8 DEF Correct, Goes, WorkerType
  <2>5. w'[n].patch => led[n].claimed =< Larger(w'[n].attempt, 1)
    BY <2>3, <2>4
  <2> HIDE DEF k
  <2>6. led'[n].claimed = led[n].claimed /\ led'[n].handed = k
    BY <1>1, <2>2, HandbackRow
  <2> QED BY <2>3, <2>4, <2>5, <2>6 DEF Closing, Waits
<1>9. CASE Refuse(n)
  <2>1. /\ led' = led /\ w[n].pc = "queued" /\ w'[n].pc = "finished"
        /\ w'[n].patch = w[n].patch
    BY <1>3, <1>9 DEF Refuse, Goes, WorkerType
  <2> QED BY <1>2, <2>1 DEF Closing, Waits
<1>10. CASE Enter(n)
  <2>1. /\ led' = led /\ w[n].pc = "enter" /\ w'[n].pc = "launch"
        /\ w'[n].patch = w[n].patch /\ w'[n].attempt = w[n].attempt + 1
    BY <1>3, <1>10 DEF Enter, WorkerType
  <2> QED BY <1>2, <2>1 DEF Closing, Waits
<1>11. CASE Launch(n)
  <2>1. /\ led' = led /\ w[n].pc = "launch" /\ w'[n].pc = "back"
        /\ w'[n].patch = w[n].patch /\ w'[n].attempt = w[n].attempt
    BY <1>3, <1>11 DEF Launch, WorkerType
  <2> QED BY <2>1 DEF Closing, Waits
<1>12. CASE Capture(n) \/ Decide(n) \/ GiveUp(n)
  <2>1. /\ led' = led /\ w[n].pc \in {"capture", "decide"}
        /\ w'[n].pc \in {"finished", "retry"} /\ w'[n].attempt = w[n].attempt
        /\ w'[n].patch => w'[n].pc = "finished"
    <3>1. CASE Capture(n)
      BY <1>3, <3>1 DEF Capture, WorkerType
    <3>2. CASE Decide(n) \/ GiveUp(n)
      <4>1. w[n].pc = "decide" /\ ~w[n].patch
        BY <1>2, <3>2 DEF Decide, GiveUp, Closing
      <4> QED BY <1>3, <3>2, <4>1 DEF Decide, GiveUp, Goes, WorkerType
    <3> QED BY <1>12, <3>1, <3>2
  <2> QED BY <2>1 DEF Closing, Waits
<1> QED BY <1>4, <1>5, <1>6, <1>7, <1>8, <1>9, <1>10, <1>11, <1>12 DEF Step, Work

LEMMA LoopClosing ==
    ASSUME IInv, TypeOK', FirstRun, \A n \in All : Closing(n), Loop
    PROVE  \A n \in All : Closing(n)'
<1>1. TypeOK /\ Progress /\ led' = led /\ w \in [All -> WorkerType]
  BY DEF IInv, TypeOK, Loop, StartWave, Replan, Stop, Merge, Conflict, Settle
<1>2. \A n \in All : n \in InWave <=> w[n].pc # "out"
  BY DEF InWave
<1>3. CASE StartWave
  <2>1. /\ run = "plan" /\ state' = Marked
        /\ \A n \in All : w'[n] \in {Idle, [Idle EXCEPT !.pc = "queued"]}
    BY <1>3 DEF StartWave
  <2>2. PICK clean \in BOOLEAN :
          LET s == Select(Ready, clean, waves + 1 >= MaxWaves)
          IN  w' = [n \in All |->
                      IF n \in s.take THEN [Idle EXCEPT !.pc = "queued"] ELSE Idle]
    BY <1>3 DEF StartWave
  <2> DEFINE final == waves + 1 >= MaxWaves
             s == Select(Ready, clean, final)
  <2>3. Ready \in SUBSET All /\ Ready # {} /\ final \in BOOLEAN
    BY <1>3 DEF StartWave, Ready
  <2> HIDE DEF final
  <2>4. s = Select(Ready, clean, final)
    OBVIOUS
  <2> HIDE DEF s
  <2>5. s.take \subseteq Ready
    BY <2>3, <2>4, SelectFacts
  <2>6. \A n \in All : w'[n].pc = "queued" => n \in Ready
    BY <2>2, <2>5 DEF s, final, Idle
  <2>7. \A n \in All : w[n].pc = "out"
    BY <1>1, <1>2, <2>1 DEF Progress
  <2>8. \A n \in All : /\ w'[n].pc \in {"queued", "out"} /\ ~w'[n].patch
                       /\ state'[n] \in {"none", "pending"} =>
                            state[n] \in {"none", "pending"}
                       /\ w'[n].pc = "queued" => state[n] = "pending"
    BY <2>1, <2>6 DEF Idle, Marked, Ready
  <2> QED
    <3> SUFFICES ASSUME NEW n \in All PROVE Closing(n)'
      OBVIOUS
    <3>1. Waits(n) \/ led[n].claimed =< led[n].handed
      BY <2>7 DEF Closing
    <3>2. Waits(n) => led[n].attempts = 0 /\ led[n].claimed = 0 /\ led[n].handed = 0
      BY DEF Closing
    <3>3. Waits(n)' \/ w'[n].pc = "queued" => Waits(n)
      BY <2>7, <2>8 DEF Waits
    <3>4. led[n].claimed =< led[n].handed
      BY <3>1, <3>2
    <3> QED BY <1>1, <2>8, <3>2, <3>3, <3>4 DEF Closing
<1>4. CASE Replan \/ Stop
  <2>1. /\ w' = w /\ run \in {"plan", "broke"}
        /\ \A n \in All : state'[n] \in {"none", "pending"} =>
                           state[n] \in {"none", "pending"}
    <3>1. CASE Stop
      BY <3>1 DEF Stop
    <3>2. CASE Replan
      <4>1. PICK k \in (nodes + 1)..MaxNodes :
              state' = [n \in All |->
                          IF n \in (nodes + 1)..k THEN "pending" ELSE Marked[n]]
        BY <3>2 DEF Replan
      <4>2. nodes \in Nat /\ \A n \in All : n > nodes => state[n] = "none"
        BY <1>1, PlanAssumption DEF TypeOK, Progress, All
      <4>3. w' = w /\ run = "plan"
        BY <3>2 DEF Replan
      <4>4. \A n \in All : n \in (nodes + 1)..k => n > nodes
        BY <4>2
      <4> QED BY <4>1, <4>2, <4>3, <4>4 DEF Marked
    <3> QED BY <1>4, <3>1, <3>2
  <2> QED BY <1>1, <2>1, StillClosing
<1>5. CASE Merge
  BY <1>1, <1>5, StillClosing DEF Merge, loop
<1>6. CASE Conflict
  <2>1. ASSUME NEW n \in All \ Patched PROVE Closing(n)'
    BY <1>1, <1>6, <2>1, StillClosing DEF Conflict, loop
  <2>2. ASSUME NEW n \in Patched PROVE Closing(n)'
    <3>1. n \in All /\ Closing(n) /\ w[n].patch /\ w[n].pc = "finished"
      BY <1>6, <2>2 DEF Patched, InWave, Conflict, AllFinished
    <3>2. w'[n].pc = "correct" /\ w'[n].attempt = w[n].attempt
      BY <1>1, <1>6, <2>2, <3>1 DEF Conflict, WorkerType
    <3> QED BY <1>1, <3>1, <3>2 DEF Closing, Waits
  <2> QED BY <2>1, <2>2
<1>7. CASE Settle
  <2>1. \A n \in All : w'[n] = Idle /\ Idle.pc = "out" /\ ~Idle.patch
    BY <1>7 DEF Settle, Idle
  <2>2. ASSUME NEW n \in All PROVE Closing(n)'
    <3>1. CASE n \in InWave
      <4>1. w[n].pc = "finished" /\ state'[n] \in {"ok", "failed"}
        BY <1>7, <3>1 DEF Settle, AllFinished
      <4>2. led[n].claimed =< led[n].handed
        BY <4>1 DEF Closing, Waits
      <4> QED BY <1>1, <2>1, <4>1, <4>2 DEF Closing, Waits
    <3>2. CASE n \notin InWave
      <4>1. w[n].pc = "out" /\ state'[n] = state[n]
        BY <1>2, <1>7, <3>2 DEF Settle
      <4> QED BY <1>1, <2>1, <4>1 DEF Closing, Waits
    <3> QED BY <3>1, <3>2
  <2> QED BY <2>2
<1> QED BY <1>3, <1>4, <1>5, <1>6, <1>7 DEF Loop

LEMMA NextClosing == IInv /\ IInv' /\ ClosingInv /\ [Next]_vars => ClosingInv'
<1> SUFFICES ASSUME IInv, IInv', ClosingInv, [Next]_vars PROVE ClosingInv'
  OBVIOUS
<1>1. TypeOK /\ TypeOK' /\ runs \in Nat \ {0}
  BY DEF IInv, ClosingInv
<1>2. CASE Resume
  BY <1>1, <1>2 DEF Resume, ClosingInv, FirstRun
<1>3. ASSUME NEW n \in All, Step(n) PROVE ClosingInv'
  <2>1. runs' = runs
    BY <1>3 DEF Step, Work, Claim, Refuse, Enter, Launch, Handback, Capture, Decide,
       GiveUp, Retry, IsolationFails, Correct, bounds
  <2> SUFFICES ASSUME FirstRun' PROVE \A m \in All : Closing(m)'
    BY <1>1, <2>1 DEF ClosingInv
  <2>2. drops = drops' \/ drops' = drops + 1
    BY <1>3 DEF Step, Work, Claim, Refuse, Enter, Launch, Handback, Capture, Decide,
       GiveUp, Retry, IsolationFails, Correct, Record, bounds
  <2>3. FirstRun /\ drops' = 0
    BY <1>1, <2>1, <2>2, LimitsAssumption DEF FirstRun, TypeOK
  <2>4. \A m \in All : Closing(m)
    BY <2>3 DEF ClosingInv
  <2>5. StepShape(n)
    BY <1>1, <1>3, StepShapes
  <2>6. Closing(n)'
    BY <1>1, <1>3, <2>3, <2>4, WorkClosing
  <2>7. ASSUME NEW m \in All \ {n} PROVE Closing(m)'
    BY <2>4, <2>5, <2>7, StillClosing DEF StepShape, main, loop
  <2> QED BY <2>6, <2>7
<1>4. CASE Loop
  <2>1. UNCHANGED <<runs, drops>>
    BY <1>4 DEF Loop, StartWave, Replan, Stop, Merge, Conflict, Settle, bounds
  <2> QED BY <1>1, <1>4, <2>1, LoopClosing DEF ClosingInv, FirstRun
<1>5. CASE Die \/ UNCHANGED vars
  <2>1. UNCHANGED <<led, w, state, runs, drops>>
    BY <1>5 DEF Die, vars, loop, bounds
  <2> QED BY <1>1, <2>1, StillClosing DEF ClosingInv, FirstRun
<1> QED BY <1>2, <1>3, <1>4, <1>5 DEF Next

\* When a first run is over and every row was written, nothing is reserved any
\* more, for any plan, wherever attempts ended: in a worker, in a worktree that
\* could not be made or read, at the steward's, or in a patch that did not apply.
THEOREM NothingStaysReserved == Spec => []ClaimsClosed
<1>1. IInv /\ ClosingInv => ClaimsClosed
  <2> SUFFICES ASSUME IInv, ClosingInv, run = "over", runs = 1, drops = 0
               PROVE  Reserved = 0
    BY DEF ClaimsClosed
  <2>1. ASSUME NEW n \in All PROVE ReservedOf(n) = 0
    <3>1. w[n].pc = "out"
      BY DEF IInv, Progress, InWave
    <3>2. Closing(n)
      BY DEF ClosingInv, FirstRun
    <3>3. led[n].claimed \in Nat /\ led[n].handed \in Nat
      BY Numbered DEF IInv
    <3>4. led[n].claimed =< led[n].handed
      BY <3>1, <3>2, <3>3 DEF Closing
    <3> QED BY <3>3, <3>4 DEF ReservedOf
  <2>2. [n \in All |-> ReservedOf(n)] = [n \in All |-> 0]
    BY <2>1
  <2> QED BY <2>2, NothingSums DEF Reserved
<1> QED BY <1>1, InitClosing, NextClosing, InvariantHolds, PTL DEF Spec
=============================================================================
