---------------------------- MODULE RelayProofs ----------------------------
(***************************************************************************)
(* Proofs about Relay, for any number of hosts, sessions, publishers,      *)
(* readers and signals, any crews, and any interleaving of drains,         *)
(* publishers, commands and compactions, those that replace the file under *)
(* an appender included: the types and the numbers of the rows, how much   *)
(* an address may hold, that compaction changes nothing a drain could see, *)
(* that nothing is delivered again, and in which ways a signal is lost.    *)
(*                                                                         *)
(* The last three assume ShortLived: no row is to live longer than rows    *)
(* are kept.  The defaults are six hours and seven days.                   *)
(***************************************************************************)
EXTENDS Relay, FiniteSetTheorems, TLAPS

-----------------------------------------------------------------------------
(* The inductive invariant.                                                *)

WatchRows == [schema : {"watch"}, id : Watches, kind : Kinds, addr : Addresses,
              ends : Nat, ts : Nat]
SignalRows == [schema : {"signal"}, id : Nat, kind : Kinds, addr : Addresses,
               ends : Nat, ts : Nat]
ReceiptRows == [schema : {"delivery"}, id : Nat, kind : Kinds, addr : Addresses,
                ends : Nat, ts : Nat]
Rows == WatchRows \cup SignalRows \cup ReceiptRows
Aims == Addresses \X Kinds

Types ==
    /\ queue \in Seq(Rows) /\ now \in Nat /\ sent \in Nat
    /\ pub \in [Publishers -> [todo : SUBSET Aims, aim : Aims \cup {None},
                               began : Nat, ends : Nat]]
    /\ rd \in [Readers -> [stage : Stages \cup {None}, picks : Seq(SignalRows), done : Nat]]
    /\ posted \in SUBSET SignalRows /\ astray \in SUBSET Rows
    /\ shown \in SUBSET (Nat \X Addresses) /\ unseen \in SUBSET (Nat \X Addresses)

\* What is queued or in somebody's hands was posted, under a number of its own.
Numbered ==
    /\ Of(queue, "signal") \subseteq posted
    /\ \A s \in posted : s.id \in 1..sent
    /\ \A s, t \in posted : s.id = t.id => s = t
    /\ \A d \in Of(queue, "delivery") : d.id \in 1..sent
    /\ \A r \in Readers : \A i \in 1..Len(rd[r].picks) : rd[r].picks[i] \in posted
    /\ \A r \in Readers : rd[r].done <= Len(rd[r].picks)

\* Nothing is stamped later than now, and a receipt not before its signal.
Stamped ==
    /\ \A row \in ToSet(queue) : row.ts <= now
    /\ \A s \in posted : s.ts <= now
    /\ \A p \in Publishers : pub[p].began <= now
    /\ \A s \in Of(queue, "signal"), d \in Of(queue, "delivery") : d.id = s.id => s.ts <= d.ts
    /\ \A i, j \in 1..Len(queue) :
          /\ i < j /\ queue[i].schema = "watch" /\ queue[j].schema = "watch"
          /\ queue[i].id = queue[j].id
          => queue[i].ts <= queue[j].ts

Basis == Types /\ Numbered /\ Stamped

\* No row outlives the time for which rows are kept.
ShortLived == \A ttl \in Ttls : ttl <= Keep
Spans ==
    /\ \A p \in Publishers : pub[p].ends <= pub[p].began + Keep
    /\ \A s \in posted : s.ends <= s.ts + Keep
    /\ \A row \in Of(queue, "watch") : row.ends <= row.ts + Keep

\* An address holds what it is allowed to, with what is being appended.
Held(a) == {s \in Pending(queue, a, now) : s.addr = a /\ s.kind # "interrupt"}
Aimers(a) == {p \in Publishers : pub[p].aim # None /\ pub[p].aim[1] = a
                                 /\ pub[p].aim[2] # "interrupt"}
CapInv ==
    \A a \in Addresses :
        Cardinality(Held(a)) + Cardinality(Aimers(a)) <= MaxPending + Cardinality(Publishers) - 1

\* Every receipt is in the file as long as its signal may be drained, or was
\* appended to a file that was replaced; and whoever wrote it has the signal in
\* hand, has shown it or dropped it.
Receipted(q, lost, time, id, a) ==
    \A s \in Of(q, "signal") : s.id = id /\ s.ends > time =>
        \/ \E d \in Of(q, "delivery") : d.id = id /\ d.addr = a
        \/ \E d \in lost : d.schema = "delivery" /\ d.id = id /\ d.addr = a
Settling ==
    /\ \A r \in Readers : \A i \in 1..rd[r].done :
          Receipted(queue, astray, now, rd[r].picks[i].id, AddrOf[r])
    /\ \A x \in shown : x[1] \in 1..sent /\ Receipted(queue, astray, now, x[1], x[2])

Handed(id, x) ==
    \/ \E i \in 1..Len(rd[x].picks) : rd[x].picks[i].id = id
    \/ <<id, AddrOf[x]>> \in shown \cup unseen
Holding ==
    /\ \A s \in posted : s.ends > now => s \in Of(queue, "signal") \cup astray
    /\ \A d \in Of(queue, "delivery") : \E x \in Readers : d.addr = AddrOf[x] /\ Handed(d.id, x)

-----------------------------------------------------------------------------
(* A finite set in order.                                                  *)

Orders(R, S) ==
    /\ \A x \in S : <<x, x>> \notin R
    /\ \A x, y \in S : x # y => <<x, y>> \in R \/ <<y, x>> \in R
    /\ \A x, y, z \in S : <<x, y>> \in R /\ <<y, z>> \in R => <<x, z>> \in R

\* What a set of n elements in an order R is as a sequence.
Sorts(f, n, R, S) ==
    /\ f \in [1..n -> S]
    /\ \A k, l \in 1..n : k < l => <<f[k], f[l]>> \in R
    /\ \A x \in S : \E k \in 1..n : f[k] = x

LEMMA InOrderSorts ==
    ASSUME NEW S, IsFiniteSet(S), NEW R, Orders(R, S)
    PROVE  Cardinality(S) \in Nat /\ Sorts(InOrder(S, R), Cardinality(S), R, S)
<1> DEFINE n == Cardinality(S)
           Below(x) == {y \in S : <<y, x>> \in R}
           rank == [x \in S |-> Cardinality(Below(x)) + 1]
           f == InOrder(S, R)
<1>1. n \in Nat
  BY FS_CardinalityType
<1>2. \A x \in S : IsFiniteSet(Below(x)) /\ Cardinality(Below(x)) \in 0..(n - 1)
  <2> SUFFICES ASSUME NEW x \in S
               PROVE  IsFiniteSet(Below(x)) /\ Cardinality(Below(x)) \in 0..(n - 1)
    OBVIOUS
  <2>1. IsFiniteSet(S \ {x}) /\ Cardinality(S \ {x}) = n - 1
    BY FS_RemoveElement
  <2>2. Below(x) \in SUBSET (S \ {x})
    BY DEF Orders
  <2> HIDE DEF Below
  <2>3. IsFiniteSet(Below(x)) /\ Cardinality(Below(x)) <= n - 1
    BY <2>1, <2>2, FS_Subset
  <2>4. Cardinality(Below(x)) \in Nat
    BY <2>3, FS_CardinalityType
  <2> QED BY <1>1, <2>3, <2>4
<1>3. \A x, y \in S : <<x, y>> \in R => Cardinality(Below(x)) < Cardinality(Below(y))
  <2> SUFFICES ASSUME NEW x \in S, NEW y \in S, <<x, y>> \in R
               PROVE  Cardinality(Below(x)) < Cardinality(Below(y))
    OBVIOUS
  <2>1. Below(x) \in SUBSET Below(y) /\ x \in Below(y) /\ x \notin Below(x)
    BY DEF Orders
  <2>2. Below(x) # Below(y)
    BY <2>1
  <2> HIDE DEF Below
  <2>3. /\ IsFiniteSet(Below(y)) /\ Cardinality(Below(x)) \in Nat
        /\ Cardinality(Below(y)) \in Nat
    BY <1>1, <1>2
  <2>4. /\ Cardinality(Below(x)) <= Cardinality(Below(y))
        /\ Cardinality(Below(x)) # Cardinality(Below(y))
    BY <2>1, <2>2, <2>3, FS_Subset
  <2> QED BY <2>3, <2>4
<1> HIDE DEF n
<1>4. rank \in Injection(S, 1..n)
  <2>1. rank \in [S -> 1..n]
    <3> HIDE DEF Below
    <3> QED BY <1>1, <1>2
  <2>2. \A x, y \in S : x # y => rank[x] # rank[y]
    <3> HIDE DEF Below
    <3>1. \A x \in S : Cardinality(Below(x)) \in Nat
      BY <1>1, <1>2
    <3>2. \A x, y \in S : x # y =>
             \/ Cardinality(Below(x)) < Cardinality(Below(y))
             \/ Cardinality(Below(y)) < Cardinality(Below(x))
      BY <1>3 DEF Orders
    <3> QED BY <3>1, <3>2
  <2> HIDE DEF rank
  <2> QED BY <2>1, <2>2 DEF Injection, IsInjective
<1>5. \A k \in 1..n : \E x \in S : rank[x] = k
  <2>1. IsFiniteSet(1..n) /\ Cardinality(1..n) = n
    BY <1>1, FS_Interval
  <2> HIDE DEF rank
  <2>2. rank \in Surjection(S, 1..n)
    BY <1>4, <2>1, FS_Injection DEF n
  <2> QED BY <2>2 DEF Surjection
<1>6. \A k \in 1..n : f[k] \in S /\ rank[f[k]] = k
  <2> SUFFICES ASSUME NEW k \in 1..n
               PROVE  f[k] \in S /\ rank[f[k]] = k
    OBVIOUS
  <2>1. f[k] = CHOOSE x \in S : Cardinality(Below(x)) = k - 1
    BY DEF InOrder, n
  <2> HIDE DEF f
  <2>2. PICK x \in S : rank[x] = k
    BY <1>5
  <2>3. Cardinality(Below(x)) \in Nat
    BY <1>1, <1>2
  <2>4. Cardinality(Below(x)) = k - 1
    <3> HIDE DEF Below
    <3> QED BY <2>2, <2>3
  <2>5. f[k] \in S /\ Cardinality(Below(f[k])) = k - 1
    <3> HIDE DEF Below
    <3> QED BY <2>1, <2>4
  <2> HIDE DEF Below
  <2> QED BY <1>1, <2>5
<1>7. f \in [1..n -> S]
  BY <1>6 DEF InOrder, n
<1>8. \A k, l \in 1..n : k < l => <<f[k], f[l]>> \in R
  <2> SUFFICES ASSUME NEW k \in 1..n, NEW l \in 1..n, k < l
               PROVE  <<f[k], f[l]>> \in R
    OBVIOUS
  <2> HIDE DEF f
  <2>1. f[k] \in S /\ f[l] \in S /\ rank[f[k]] = k /\ rank[f[l]] = l
    BY <1>6
  <2>2. <<f[k], f[l]>> \in R \/ <<f[l], f[k]>> \in R
    <3> HIDE DEF rank
    <3>1. f[k] # f[l]
      BY <1>1, <2>1
    <3> QED BY <2>1, <3>1 DEF Orders
  <2>3. CASE <<f[l], f[k]>> \in R
    <3> HIDE DEF Below
    <3>1. Cardinality(Below(f[l])) < Cardinality(Below(f[k]))
      BY <1>3, <2>1, <2>3
    <3>2. Cardinality(Below(f[l])) \in Nat /\ Cardinality(Below(f[k])) \in Nat
      BY <1>1, <1>2, <2>1
    <3>3. Cardinality(Below(f[l])) + 1 = l /\ Cardinality(Below(f[k])) + 1 = k
      BY <2>1
    <3> QED BY <1>1, <3>1, <3>2, <3>3
  <2> QED BY <2>2, <2>3
<1>9. \A x \in S : \E k \in 1..n : f[k] = x
  <2> SUFFICES ASSUME NEW x \in S PROVE \E k \in 1..n : f[k] = x
    OBVIOUS
  <2> HIDE DEF f, rank
  <2>1. rank[x] \in 1..n
    BY <1>4 DEF Injection, IsInjective
  <2>2. f[rank[x]] \in S /\ rank[f[rank[x]]] = rank[x]
    BY <1>6, <2>1
  <2>3. f[rank[x]] = x
    BY <1>4, <2>2 DEF Injection, IsInjective
  <2> QED BY <2>1, <2>3
<1> QED BY <1>1, <1>7, <1>8, <1>9 DEF Sorts, n

-----------------------------------------------------------------------------
(* Appending a row, and leaving rows out.                                  *)

LEMMA Appended ==
    ASSUME NEW q \in Seq(Rows), NEW row \in Rows
    PROVE  /\ Append(q, row) \in Seq(Rows) /\ Len(Append(q, row)) = Len(q) + 1
           /\ \A i \in 1..Len(q) : Append(q, row)[i] = q[i]
           /\ Append(q, row)[Len(q) + 1] = row
           /\ ToSet(Append(q, row)) = ToSet(q) \cup {row}
<1>1. /\ Append(q, row) \in Seq(Rows) /\ Len(Append(q, row)) = Len(q) + 1
      /\ \A i \in 1..Len(q) : Append(q, row)[i] = q[i]
      /\ Append(q, row)[Len(q) + 1] = row /\ Len(q) \in Nat
  OBVIOUS
<1> DEFINE new == Append(q, row)
<1>2. DOMAIN new = 1..(Len(q) + 1) /\ DOMAIN q = 1..Len(q)
  OBVIOUS
<1> HIDE DEF new
<1>3. \A x : x \in ToSet(new) <=> x \in ToSet(q) \/ x = row
  BY <1>1, <1>2 DEF ToSet, new
<1> QED BY <1>1, <1>3 DEF new

\* What compaction leaves: the rows it does not drop, in the order they had.
LEMMA CompactedFacts ==
    ASSUME queue \in Seq(Rows)
    PROVE  /\ Compacted \in Seq(Rows)
           /\ ToSet(Compacted) = {row \in ToSet(queue) : ~Drops(row)}
           /\ \E f \in [1..Len(Compacted) -> 1..Len(queue)] :
                 /\ \A k \in 1..Len(Compacted) :
                       Compacted[k] = queue[f[k]] /\ ~Drops(queue[f[k]])
                 /\ \A k, l \in 1..Len(Compacted) : k < l => f[k] < f[l]
                 /\ \A i \in 1..Len(queue) : ~Drops(queue[i]) =>
                       \E k \in 1..Len(Compacted) : f[k] = i
<1> DEFINE kept == {i \in DOMAIN queue : ~Drops(queue[i])}
           R == {p \in kept \X kept : p[1] < p[2]}
           f == InOrder(kept, R)
           n == Cardinality(kept)
<1>1. DOMAIN queue = 1..Len(queue) /\ Len(queue) \in Nat
  OBVIOUS
<1>2. IsFiniteSet(kept) /\ kept \subseteq 1..Len(queue)
  <2>1. kept \in SUBSET (1..Len(queue))
    BY <1>1
  <2>2. IsFiniteSet(1..Len(queue))
    BY <1>1, FS_Interval
  <2> HIDE DEF kept
  <2> QED BY <2>1, <2>2, FS_Subset
<1>3. Compacted = [k \in 1..n |-> queue[f[k]]]
  BY DEF Compacted
<1>4. \A i \in 1..Len(queue) : i \in kept <=> ~Drops(queue[i])
  BY <1>1
<1> HIDE DEF kept
<1>5. Orders(R, kept)
  <2>1. \A i, j \in kept : <<i, j>> \in R <=> i < j
    OBVIOUS
  <2> HIDE DEF R
  <2>2. \A i \in kept : i \in Int
    BY <1>1, <1>2
  <2> QED BY <2>1, <2>2 DEF Orders
<1>6. \A i, j \in kept : <<i, j>> \in R => i < j
  OBVIOUS
<1> HIDE DEF R
<1>7. n \in Nat /\ Sorts(f, n, R, kept)
  BY <1>2, <1>5, InOrderSorts
<1> HIDE DEF f, n
<1>8. /\ f \in [1..n -> kept]
      /\ \A k, l \in 1..n : k < l => f[k] < f[l]
      /\ \A i \in kept : \E k \in 1..n : f[k] = i
  BY <1>6, <1>7 DEF Sorts
<1>9. \A k \in 1..n : f[k] \in 1..Len(queue) /\ queue[f[k]] \in Rows /\ ~Drops(queue[f[k]])
  <2>1. \A k \in 1..n : f[k] \in kept
    BY <1>8
  <2>2. \A i \in 1..Len(queue) : queue[i] \in Rows
    OBVIOUS
  <2> QED BY <1>2, <1>4, <2>1, <2>2
<1>10. Compacted \in Seq(Rows) /\ Len(Compacted) = n /\ DOMAIN Compacted = 1..n
  BY <1>3, <1>7, <1>9
<1>11. \A x : x \in ToSet(Compacted) <=> x \in ToSet(queue) /\ ~Drops(x)
  <2>1. ASSUME NEW x \in ToSet(Compacted) PROVE x \in ToSet(queue) /\ ~Drops(x)
    <3>1. PICK k \in 1..n : x = queue[f[k]]
      BY <1>3, <1>10 DEF ToSet
    <3> QED BY <1>1, <1>9, <3>1 DEF ToSet
  <2>2. ASSUME NEW x \in ToSet(queue), ~Drops(x) PROVE x \in ToSet(Compacted)
    <3>1. PICK i \in 1..Len(queue) : x = queue[i]
      BY <1>1 DEF ToSet
    <3>2. PICK k \in 1..n : f[k] = i
      BY <1>4, <1>8, <2>2, <3>1
    <3> QED BY <1>3, <1>10, <3>1, <3>2 DEF ToSet
  <2> QED BY <2>1, <2>2
<1>12. f \in [1..n -> 1..Len(queue)]
  BY <1>2, <1>8
<1>13. \A i \in 1..Len(queue) : ~Drops(queue[i]) => \E k \in 1..n : f[k] = i
  BY <1>4, <1>8
<1> QED BY <1>3, <1>8, <1>9, <1>10, <1>11, <1>12, <1>13

-----------------------------------------------------------------------------
(* What a step does to the queue.                                          *)

LEMMA ConstantFacts ==
    /\ \A t \in Ttls : t \in Nat
    /\ MaxPending \in Nat /\ Limit \in Nat /\ Room \in Nat /\ Keep \in Nat
    /\ \A r \in Readers : AddrOf[r] \in Addresses
    /\ \A w \in Watches : WatchOf[w].sub \in Addresses /\ WatchOf[w].action \in Kinds
    /\ Direct \subseteq Addresses /\ Stopped \subseteq Addresses
    /\ {"advise", "interrupt"} \subseteq Kinds
BY RelayAssumption DEF Addresses, Kinds

LEMMA QueueFinite ==
    ASSUME queue \in Seq(Rows)
    PROVE  IsFiniteSet(ToSet(queue))
<1> DEFINE g == [i \in 1..Len(queue) |-> queue[i]]
<1>1. Len(queue) \in Nat /\ DOMAIN queue = 1..Len(queue)
  OBVIOUS
<1>2. IsFiniteSet(1..Len(queue))
  BY <1>1, FS_Interval
<1>3. g \in Surjection(1..Len(queue), ToSet(queue))
  BY <1>1 DEF Surjection, ToSet
<1> QED BY <1>2, <1>3, FS_Surjection

\* Picks of a drain are pending, and no more than the limit.
LEMMA PicksFacts ==
    ASSUME Types, Numbered, NEW a, NEW stage
    PROVE  /\ Picks(a, stage) \in Seq(SignalRows) /\ Len(Picks(a, stage)) <= Limit
           /\ \A i \in 1..Len(Picks(a, stage)) : Picks(a, stage)[i] \in Pending(queue, a, now)
<1> DEFINE all == {s \in Pending(queue, a, now) : s.kind \in StageKinds(stage)}
           R == {p \in all \X all : Before(p[1], p[2])}
           f == InOrder(all, R)
           n == Cardinality(all)
           m == IF n < Limit THEN n ELSE Limit
<1>1. Picks(a, stage) = SubSeq(f, 1, m)
  BY DEF Picks
<1>2. all \subseteq Pending(queue, a, now) /\ all \subseteq Of(queue, "signal")
  BY DEF Pending
<1>3. Of(queue, "signal") \subseteq SignalRows
  BY DEF Types, Numbered
<1>4. IsFiniteSet(ToSet(queue))
  BY QueueFinite DEF Types
<1>5. IsFiniteSet(all)
  <2>1. all \in SUBSET ToSet(queue)
    BY <1>2 DEF Of
  <2> HIDE DEF all
  <2> QED BY <1>4, <2>1, FS_Subset
<1> HIDE DEF all
<1>6. Orders(R, all)
  <2>1. \A s, t \in all : <<s, t>> \in R <=> Before(s, t)
    OBVIOUS
  <2>2. \A s \in all : s.id \in Int
    BY <1>2, <1>3 DEF SignalRows
  <2>3. \A s, t \in all : s # t => s.id # t.id
    BY <1>2 DEF Numbered
  <2> HIDE DEF R
  <2>4. \A s, t \in all : s # t => Before(s, t) \/ Before(t, s)
    BY <2>2, <2>3 DEF Before
  <2>5. \A s, t, u \in all : Before(s, t) /\ Before(t, u) => Before(s, u)
    BY <2>2 DEF Before
  <2>6. \A s \in all : ~Before(s, s)
    BY <2>2 DEF Before
  <2> QED BY <2>1, <2>4, <2>5, <2>6 DEF Orders
<1> HIDE DEF R
<1>7. n \in Nat /\ Sorts(f, n, R, all)
  BY <1>5, <1>6, InOrderSorts
<1> HIDE DEF f, n
<1>8. f \in Seq(all) /\ Len(f) = n
  BY <1>7 DEF Sorts
<1>9. m \in 0..n /\ m <= Limit
  BY <1>7, ConstantFacts
<1> HIDE DEF m
<1>10. /\ SubSeq(f, 1, m) \in Seq(all) /\ Len(SubSeq(f, 1, m)) = m
  BY <1>7, <1>8, <1>9
<1>11. SubSeq(f, 1, m) \in Seq(SignalRows)
  BY <1>2, <1>3, <1>10
<1>12. \A i \in 1..m : SubSeq(f, 1, m)[i] \in all
  BY <1>10
<1> QED BY <1>1, <1>2, <1>9, <1>10, <1>11, <1>12

-----------------------------------------------------------------------------
(* The last row of a watch.                                                *)

OfWatch(row, w) == row.schema = "watch" /\ row.id = w

LEMMA Greatest ==
    ASSUME NEW I, NEW n \in Nat, I \subseteq 1..n, I # {}
    PROVE  Max(I) \in I /\ \A j \in I : j <= Max(I)
<1> DEFINE R == {p \in I \X I : p[1] < p[2]}
           f == InOrder(I, R)
           c == Cardinality(I)
<1>1. IsFiniteSet(I)
  <2>1. IsFiniteSet(1..n) /\ I \in SUBSET (1..n)
    BY FS_Interval
  <2> QED BY <2>1, FS_Subset
<1>2. \A i, j \in I : <<i, j>> \in R <=> i < j
  OBVIOUS
<1> HIDE DEF R
<1>3. Orders(R, I)
  BY <1>2 DEF Orders
<1>4. c \in Nat /\ Sorts(f, c, R, I)
  BY <1>1, <1>3, InOrderSorts
<1> HIDE DEF f, c
<1>5. c \in 1..c
  <2>1. PICK x \in I : TRUE
    OBVIOUS
  <2>2. PICK k \in 1..c : f[k] = x
    BY <1>4 DEF Sorts
  <2> QED BY <1>4, <2>2
<1>6. f[c] \in I /\ \A j \in I : j <= f[c]
  <2>1. f[c] \in I
    BY <1>4, <1>5 DEF Sorts
  <2>2. ASSUME NEW j \in I PROVE j <= f[c]
    <3>1. PICK k \in 1..c : f[k] = j
      BY <1>4 DEF Sorts
    <3>2. k < c => j < f[c]
      BY <1>2, <1>4, <1>5, <2>1, <3>1 DEF Sorts
    <3>3. k = c \/ k < c
      BY <1>4
    <3>4. f[c] \in Nat /\ j \in Nat
      <4>1. \A x \in I : x \in Nat
        OBVIOUS
      <4> QED BY <2>1, <4>1
    <3> QED BY <3>1, <3>2, <3>3, <3>4
  <2> QED BY <2>1, <2>2
<1>7. \E x \in I : \A j \in I : x >= j
  BY <1>6
<1> QED BY <1>7 DEF Max

LEMMA LastOfFacts ==
    ASSUME NEW q \in Seq(Rows), NEW w
    PROVE  /\ LastOf(q, w) \in 0..Len(q)
           /\ LastOf(q, w) = 0 => \A i \in 1..Len(q) : ~OfWatch(q[i], w)
           /\ LastOf(q, w) # 0 =>
                 /\ OfWatch(q[LastOf(q, w)], w)
                 /\ \A i \in 1..Len(q) : OfWatch(q[i], w) => i <= LastOf(q, w)
<1> DEFINE I == {i \in 1..Len(q) : OfWatch(q[i], w)}
<1>1. LastOf(q, w) = IF I # {} THEN Max(I) ELSE 0
  BY DEF LastOf, SelectLastInSeq, OfWatch
<1>2. \A i \in 1..Len(q) : i \in I <=> OfWatch(q[i], w)
  OBVIOUS
<1>3. Len(q) \in Nat /\ I \subseteq 1..Len(q)
  OBVIOUS
<1> HIDE DEF I
<1>4. CASE I = {}
  BY <1>1, <1>2, <1>3, <1>4
<1>5. CASE I # {}
  <2>1. Max(I) \in I /\ \A j \in I : j <= Max(I)
    BY <1>3, <1>5, Greatest
  <2>2. LastOf(q, w) = Max(I)
    BY <1>1, <1>5
  <2>3. LastOf(q, w) \in 1..Len(q)
    BY <1>3, <2>1, <2>2
  <2>4. OfWatch(q[LastOf(q, w)], w)
    BY <1>2, <2>1, <2>2, <2>3
  <2>5. \A i \in 1..Len(q) : OfWatch(q[i], w) => i <= LastOf(q, w)
    BY <1>2, <2>1, <2>2
  <2> QED BY <1>3, <2>3, <2>4, <2>5
<1> QED BY <1>4, <1>5

\* A watch is active when its last row is not over.
LEMMA ActiveFacts ==
    ASSUME NEW q \in Seq(Rows), NEW w \in Watches, NEW time
    PROVE  w \in ActiveWatches(q, time) <=>
              \E i \in 1..Len(q) :
                  /\ OfWatch(q[i], w) /\ q[i].ends > time
                  /\ \A j \in 1..Len(q) : j > i => ~OfWatch(q[j], w)
<1> DEFINE m == LastOf(q, w)
<1>1. /\ m \in 0..Len(q) /\ Len(q) \in Nat
      /\ m = 0 => \A i \in 1..Len(q) : ~OfWatch(q[i], w)
      /\ m # 0 => /\ OfWatch(q[m], w)
                  /\ \A i \in 1..Len(q) : OfWatch(q[i], w) => i <= m
  BY LastOfFacts
<1>2. w \in ActiveWatches(q, time) <=> m # 0 /\ q[m].ends > time
  BY DEF ActiveWatches
<1> HIDE DEF m
<1>3. ASSUME m # 0, q[m].ends > time
      PROVE  \E i \in 1..Len(q) :
                 /\ OfWatch(q[i], w) /\ q[i].ends > time
                 /\ \A j \in 1..Len(q) : j > i => ~OfWatch(q[j], w)
  BY <1>1, <1>3
<1>4. ASSUME NEW i \in 1..Len(q), OfWatch(q[i], w), q[i].ends > time,
             \A j \in 1..Len(q) : j > i => ~OfWatch(q[j], w)
      PROVE  m # 0 /\ q[m].ends > time
  <2>1. m # 0 /\ m \in 1..Len(q) /\ OfWatch(q[m], w) /\ i <= m
    BY <1>1, <1>4
  <2>2. m = i
    BY <1>1, <1>4, <2>1
  <2> QED BY <1>4, <2>1, <2>2
<1> QED BY <1>2, <1>3, <1>4

-----------------------------------------------------------------------------
(* Every step: what it does to the queue, and the types.                   *)

Adds(row) == queue' = Append(queue, row)
Written(row) ==
    \/ Adds(row) /\ astray' = astray
    \/ queue' = queue /\ astray' = astray \cup {row}

LEMMA OfWritten ==
    ASSUME queue \in Seq(Rows), NEW row \in Rows, Written(row), NEW schema
    PROVE  /\ queue' \in Seq(Rows) /\ Len(queue') >= Len(queue)
           /\ ToSet(queue') \subseteq ToSet(queue) \cup {row}
           /\ astray \subseteq astray' /\ astray' \subseteq astray \cup {row}
           /\ row.schema # schema => Of(queue, schema)' = Of(queue, schema)
           /\ row.schema = schema =>
                 /\ Of(queue, schema) \subseteq Of(queue, schema)'
                 /\ Of(queue, schema)' \subseteq Of(queue, schema) \cup {row}
                 /\ row \in Of(queue, schema)' \cup astray'
<1>1. CASE Adds(row) /\ astray' = astray
  <2>1. /\ queue' \in Seq(Rows) /\ Len(queue') = Len(queue) + 1
        /\ ToSet(queue') = ToSet(queue) \cup {row}
    BY <1>1, Appended DEF Adds
  <2>2. Len(queue) \in Nat
    OBVIOUS
  <2>3. Len(queue') >= Len(queue)
    BY <2>1, <2>2
  <2> QED BY <1>1, <2>1, <2>3 DEF Of
<1>2. CASE queue' = queue /\ astray' = astray \cup {row}
  <2>1. Len(queue) \in Nat
    OBVIOUS
  <2>2. queue' \in Seq(Rows) /\ Len(queue') >= Len(queue)
    BY <1>2, <2>1
  <2> QED BY <1>2, <2>2 DEF Of
<1> QED BY <1>1, <1>2 DEF Written

LEMMA OfCompacted ==
    ASSUME queue \in Seq(Rows), queue' = Compacted, NEW schema
    PROVE  Of(queue, schema)' = {row \in Of(queue, schema) : ~Drops(row)}
<1>1. ToSet(queue)' = {row \in ToSet(queue) : ~Drops(row)}
  BY CompactedFacts
<1> QED BY <1>1 DEF Of

LEMMA WatchRow ==
    ASSUME Types, NEW c \in Watchers, NEW w \in Watches, NEW ttl \in Ttls, Watch(c, w, ttl)
    PROVE  \E row \in WatchRows :
              /\ Written(row) /\ row.id = w /\ row.ts = now /\ row.ends = now + ttl
<1> DEFINE row == Row("watch", w, WatchOf[w].action, WatchOf[w].sub, now + ttl, now)
<1>1. row \in WatchRows /\ row.id = w /\ row.ts = now /\ row.ends = now + ttl
  BY ConstantFacts DEF Row, WatchRows, Types
<1>2. Append1(c, row)
  BY DEF Watch
<1> HIDE DEF row
<1> QED BY <1>1, <1>2 DEF Append1, Adds, Written

LEMMA UnwatchRow ==
    ASSUME Types, NEW c \in Watchers, NEW w \in Watches, Unwatch(c, w)
    PROVE  \E row \in WatchRows :
              /\ Written(row) /\ row.id = w /\ row.ends = 0
              /\ LastOf(queue, w) \in 1..Len(queue) /\ OfWatch(queue[LastOf(queue, w)], w)
              /\ row.ts = queue[LastOf(queue, w)].ts
<1> DEFINE last == queue[LastOf(queue, w)]
           row == [last EXCEPT !.ends = 0]
<1>1. LastOf(queue, w) \in 1..Len(queue) /\ OfWatch(last, w) /\ last \in Rows
  <2>1. /\ queue \in Seq(Rows) /\ Len(queue) \in Nat
        /\ LastOf(queue, w) \in 0..Len(queue) /\ LastOf(queue, w) # 0
        /\ OfWatch(last, w)
    BY LastOfFacts DEF Types, Unwatch
  <2> QED BY <2>1
<1>2. Append1(c, row)
  BY DEF Unwatch
<1> HIDE DEF last
<1>3. row \in WatchRows /\ row.id = w /\ row.ends = 0 /\ row.ts = last.ts
  BY <1>1 DEF Rows, WatchRows, SignalRows, ReceiptRows, OfWatch
<1> HIDE DEF row
<1> QED BY <1>1, <1>2, <1>3 DEF last, Append1, Adds, Written

LEMMA PostRow ==
    ASSUME Types, NEW p \in Publishers, Post(p)
    PROVE  \E s \in SignalRows :
              /\ s.id = sent + 1 /\ s.ts = now /\ s.ends = pub[p].ends
              /\ s.addr = pub[p].aim[1] /\ s.kind = pub[p].aim[2]
              /\ Written(s)
              /\ sent' = sent + 1 /\ posted' = posted \cup {s}
<1> DEFINE s == Signal(pub[p].aim, pub[p].ends)
<1>1. pub[p].aim \in Aims /\ pub[p].ends \in Nat
  BY DEF Types, Post
<1>2. /\ s \in SignalRows /\ s.id = sent + 1 /\ s.ts = now /\ s.ends = pub[p].ends
      /\ s.addr = pub[p].aim[1] /\ s.kind = pub[p].aim[2]
  BY <1>1 DEF Signal, Row, SignalRows, Types, Aims
<1>3. /\ Append1(p, s) /\ sent' = sent + 1 /\ posted' = posted \cup {s}
  BY DEF Post
<1> HIDE DEF s
<1> QED BY <1>2, <1>3 DEF Append1, Adds, Written

LEMMA InterruptRow ==
    ASSUME Types, NEW c \in Stoppers, NEW to \in Stopped, NEW ttl \in Ttls, Interrupt(c, to, ttl)
    PROVE  \E s \in SignalRows :
              /\ s.id = sent + 1 /\ s.ts = now /\ s.ends = now + ttl /\ s.kind = "interrupt"
              /\ Written(s) /\ sent' = sent + 1 /\ posted' = posted \cup {s}
<1> DEFINE s == Signal(<<to, "interrupt">>, now + ttl)
<1>1. s \in SignalRows /\ s.id = sent + 1 /\ s.ts = now /\ s.ends = now + ttl
      /\ s.kind = "interrupt"
  BY ConstantFacts DEF Signal, Row, SignalRows, Types
<1>2. Append1(c, s) /\ sent' = sent + 1 /\ posted' = posted \cup {s}
  BY DEF Interrupt
<1> HIDE DEF s
<1> QED BY <1>1, <1>2 DEF Append1, Adds, Written

LEMMA ReceiptRow ==
    ASSUME Types, Numbered, NEW r \in Readers, Receipt(r)
    PROVE  /\ rd[r].done + 1 \in 1..Len(rd[r].picks)
           /\ rd' = [rd EXCEPT ![r].done = @ + 1]
           /\ \E d \in ReceiptRows :
                 /\ d.id = rd[r].picks[rd[r].done + 1].id /\ d.addr = AddrOf[r] /\ d.ts = now
                 /\ Written(d)
<1> DEFINE s == rd[r].picks[rd[r].done + 1]
           d == Row("delivery", s.id, s.kind, AddrOf[r], 0, now)
<1>1. rd[r].picks \in Seq(SignalRows) /\ rd[r].done \in Nat /\ rd[r].done < Len(rd[r].picks)
  BY DEF Types, Receipt
<1>2. rd[r].done + 1 \in 1..Len(rd[r].picks) /\ s \in SignalRows
  BY <1>1
<1>3. Append1(r, d) /\ rd' = [rd EXCEPT ![r].done = @ + 1]
  BY DEF Receipt
<1> HIDE DEF s
<1>4. d \in ReceiptRows /\ d.id = s.id /\ d.addr = AddrOf[r] /\ d.ts = now
  BY <1>2, ConstantFacts DEF Row, ReceiptRows, SignalRows, Types
<1> HIDE DEF d
<1> QED BY <1>2, <1>3, <1>4 DEF Append1, Adds, Written, s

-----------------------------------------------------------------------------
(* The common invariant.                                                   *)

LEMMA InitBasis == Init => Basis
<1> SUFFICES ASSUME Init PROVE Basis
  OBVIOUS
<1>1. ToSet(queue) = {}
  BY DEF Init, ToSet
<1>2. Of(queue, "signal") = {} /\ Of(queue, "delivery") = {}
  BY <1>1 DEF Of
<1>3. Types
  BY DEF Init, Types, Idle, NoDrain
<1>4. Numbered
  BY <1>2 DEF Init, Numbered, NoDrain
<1>5. Stamped
  BY <1>1, <1>2 DEF Init, Stamped, Idle
<1> QED BY <1>3, <1>4, <1>5 DEF Basis

LEMMA OneMoreDone ==
    ASSUME NEW S, NEW P, NEW drain \in [stage : S, picks : P, done : Nat]
    PROVE  [drain EXCEPT !.done = @ + 1] \in [stage : S, picks : P, done : Nat]
OBVIOUS

LEMMA TypesStep ==
    ASSUME Types, Numbered, Next
    PROVE  Types'
<1> USE DEF Types
<1>1. ASSUME NEW row \in Rows, Written(row)
      PROVE  queue' \in Seq(Rows) /\ astray' \in SUBSET Rows
  <2>1. queue' \in Seq(Rows) /\ astray' \subseteq astray \cup {row}
    BY <1>1, OfWritten
  <2> QED BY <2>1
<1>2. WatchRows \subseteq Rows /\ SignalRows \subseteq Rows /\ ReceiptRows \subseteq Rows
  BY DEF Rows
<1>3. ASSUME NEW c \in Watchers, NEW w \in Watches,
             Unwatch(c, w) \/ \E ttl \in Ttls : Watch(c, w, ttl)
      PROVE  Types'
  <2>1. UNCHANGED <<now, sent, pub, rd, posted, shown, unseen>>
    BY <1>3 DEF Watch, Unwatch
  <2>2. \E row \in WatchRows : Written(row)
    BY <1>3, WatchRow, UnwatchRow
  <2> QED BY <1>1, <1>2, <2>1, <2>2
<1>4. ASSUME NEW p \in Publishers, Publish(p)
      PROVE  Types'
  <2>1. PICK targets, ttl : ttl \in Ttls /\ Begin(p, targets, ttl) /\ targets \subseteq Aims
    <3>1. PICK ttl \in Ttls :
             \/ \E event \in Events, exclude \in Hosts \cup {None} :
                    Begin(p, Targets(event, exclude), ttl)
             \/ \E to \in Direct : Begin(p, {<<to, "advise">>}, ttl)
      BY <1>4 DEF Publish
    <3>2. \A event, exclude : Targets(event, exclude) \subseteq Aims
      BY ConstantFacts DEF Targets, ActiveWatches, Aims
    <3>3. \A to \in Direct : {<<to, "advise">>} \subseteq Aims
      BY ConstantFacts DEF Aims
    <3>4. ASSUME NEW event \in Events, NEW exclude \in Hosts \cup {None},
                 Begin(p, Targets(event, exclude), ttl)
          PROVE  \E targets : Begin(p, targets, ttl) /\ targets \subseteq Aims
      BY <3>2, <3>4
    <3>5. ASSUME NEW to \in Direct, Begin(p, {<<to, "advise">>}, ttl)
          PROVE  \E targets : Begin(p, targets, ttl) /\ targets \subseteq Aims
      BY <3>3, <3>5
    <3>6. \E targets : Begin(p, targets, ttl) /\ targets \subseteq Aims
      BY <3>1, <3>4, <3>5
    <3> QED BY <3>6
  <2>2. /\ pub' = [pub EXCEPT ![p] = [todo |-> targets, aim |-> None, began |-> now,
                                      ends |-> now + ttl]]
        /\ UNCHANGED <<queue, now, sent, rd, posted, astray, shown, unseen>>
    BY <2>1 DEF Begin
  <2> QED BY <2>1, <2>2, ConstantFacts
<1>5. ASSUME NEW p \in Publishers, NEW t \in pub[p].todo, Check(p, t)
      PROVE  Types'
  <2> DEFINE job == [pub[p] EXCEPT !.todo = @ \ {t},
                        !.aim = IF Full(t[1], pub[p].began) THEN None ELSE t]
  <2>1. /\ pub' = [pub EXCEPT ![p] = Rest(job)]
        /\ UNCHANGED <<queue, now, sent, rd, posted, astray, shown, unseen>>
    BY <1>5 DEF Check
  <2>2. job \in [todo : SUBSET Aims, aim : Aims \cup {None}, began : Nat, ends : Nat]
    OBVIOUS
  <2> HIDE DEF job
  <2>3. Rest(job) \in [todo : SUBSET Aims, aim : Aims \cup {None}, began : Nat, ends : Nat]
    BY <2>2 DEF Rest, Idle
  <2> QED BY <2>1, <2>3
<1>6. ASSUME NEW p \in Publishers, Post(p)
      PROVE  Types'
  <2> DEFINE job == [pub[p] EXCEPT !.aim = None]
  <2>1. pub' = [pub EXCEPT ![p] = Rest(job)] /\ UNCHANGED <<now, rd, shown, unseen>>
    BY <1>6 DEF Post
  <2>2. job \in [todo : SUBSET Aims, aim : Aims \cup {None}, began : Nat, ends : Nat]
    OBVIOUS
  <2> HIDE DEF job
  <2>3. Rest(job) \in [todo : SUBSET Aims, aim : Aims \cup {None}, began : Nat, ends : Nat]
    BY <2>2 DEF Rest, Idle
  <2>4. PICK s \in SignalRows : /\ Written(s)
                                /\ sent' = sent + 1 /\ posted' = posted \cup {s}
    BY <1>6, PostRow
  <2>5. queue' \in Seq(Rows) /\ astray' \in SUBSET Rows
    BY <1>1, <1>2, <2>4
  <2> QED BY <2>1, <2>3, <2>4, <2>5
<1>7. ASSUME NEW c \in Stoppers, NEW to \in Stopped, NEW ttl \in Ttls, Interrupt(c, to, ttl)
      PROVE  Types'
  <2>1. PICK s \in SignalRows : Written(s) /\ sent' = sent + 1 /\ posted' = posted \cup {s}
    BY <1>7, InterruptRow
  <2>2. queue' \in Seq(Rows) /\ astray' \in SUBSET Rows
    BY <1>1, <1>2, <2>1
  <2>3. UNCHANGED <<now, pub, rd, shown, unseen>>
    BY <1>7 DEF Interrupt
  <2> QED BY <2>1, <2>2, <2>3
<1>8. ASSUME NEW r \in Readers, NEW stage \in Stages, Read(r, stage)
      PROVE  Types'
  <2>1. Picks(AddrOf[r], stage) \in Seq(SignalRows)
    BY PicksFacts
  <2>2. /\ rd' = [rd EXCEPT ![r] = [stage |-> stage, picks |-> Picks(AddrOf[r], stage),
                                    done |-> 0]]
        /\ UNCHANGED <<queue, now, sent, pub, posted, astray, shown, unseen>>
    BY <1>8 DEF Read
  <2> QED BY <2>1, <2>2
<1>9. ASSUME NEW r \in Readers, Receipt(r)
      PROVE  Types'
  <2>1. rd' = [rd EXCEPT ![r].done = @ + 1] /\ \E d \in ReceiptRows : Written(d)
    BY <1>9, ReceiptRow
  <2>2. queue' \in Seq(Rows) /\ astray' \in SUBSET Rows
    BY <1>1, <1>2, <2>1
  <2>3. UNCHANGED <<now, sent, pub, posted, shown, unseen>>
    BY <1>9 DEF Receipt
  <2> DEFINE drain == [rd[r] EXCEPT !.done = @ + 1]
  <2>4. drain \in [stage : Stages \cup {None}, picks : Seq(SignalRows), done : Nat]
    BY OneMoreDone
  <2>5. rd' = [rd EXCEPT ![r] = drain]
    BY <2>1
  <2> HIDE DEF drain
  <2>6. rd' \in [Readers -> [stage : Stages \cup {None}, picks : Seq(SignalRows), done : Nat]]
    BY <2>4, <2>5
  <2> QED BY <2>2, <2>3, <2>6
<1>10. ASSUME NEW r \in Readers, Return(r) \/ Swallow(r)
       PROVE  Types'
  <2> DEFINE taken == {<<rd[r].picks[i].id, AddrOf[r]>> : i \in 1..Len(rd[r].picks)}
  <2>1. /\ rd' = [rd EXCEPT ![r] = NoDrain] /\ UNCHANGED <<queue, now, sent, pub, posted, astray>>
        /\ shown' \subseteq shown \cup taken /\ unseen' \subseteq unseen \cup taken
    BY <1>10 DEF Return, Swallow, Taken
  <2>2. taken \subseteq Nat \X Addresses
    <3>1. rd[r].picks \in Seq(SignalRows)
      OBVIOUS
    <3>2. \A i \in 1..Len(rd[r].picks) : rd[r].picks[i] \in SignalRows
      BY <3>1
    <3>3. \A i \in 1..Len(rd[r].picks) : rd[r].picks[i].id \in Nat
      BY <3>2 DEF SignalRows
    <3> QED BY <3>3, ConstantFacts
  <2> HIDE DEF taken
  <2>3. shown' \in SUBSET (Nat \X Addresses) /\ unseen' \in SUBSET (Nat \X Addresses)
    BY <2>1, <2>2
  <2>4. NoDrain \in [stage : Stages \cup {None}, picks : Seq(SignalRows), done : Nat]
    BY DEF NoDrain
  <2> QED BY <2>1, <2>3, <2>4
<1>11. CASE Gc
  <2>1. queue' \in Seq(Rows)
    BY <1>11, CompactedFacts DEF Gc
  <2> QED BY <1>11, <2>1 DEF Gc
<1>12. CASE Tick
  BY <1>12 DEF Tick
<1> QED BY <1>3, <1>4, <1>5, <1>6, <1>7, <1>8, <1>9, <1>10, <1>11, <1>12
    DEF Next, Send, Drain

LEMMA NumberedStep ==
    ASSUME Types, Numbered, Next
    PROVE  Numbered'
<1> USE DEF Numbered
<1>1. WatchRows \subseteq Rows /\ SignalRows \subseteq Rows /\ ReceiptRows \subseteq Rows
  BY DEF Rows
<1>2. queue \in Seq(Rows) /\ sent \in Nat
  BY DEF Types
\* The rows of the queue come from the queue, or are new.
<1>3. ASSUME UNCHANGED <<sent, rd, posted>>,
             Of(queue, "signal")' \subseteq Of(queue, "signal"),
             Of(queue, "delivery")' \subseteq Of(queue, "delivery")
      PROVE  Numbered'
  BY <1>3
<1>4. ASSUME UNCHANGED queue, UNCHANGED <<sent, rd, posted>>
      PROVE  Numbered'
  BY <1>4 DEF Of
\* A signal is posted.
<1>5. ASSUME NEW s \in SignalRows, s.id = sent + 1, Written(s),
             sent' = sent + 1, posted' = posted \cup {s}, rd' = rd
      PROVE  Numbered'
  <2>1. /\ Of(queue, "signal")' \subseteq Of(queue, "signal") \cup {s}
        /\ Of(queue, "delivery")' = Of(queue, "delivery")
    BY <1>1, <1>2, <1>5, OfWritten DEF SignalRows
  <2> QED BY <1>2, <1>5, <2>1
<1>6. ASSUME NEW c \in Watchers, NEW w \in Watches,
             Unwatch(c, w) \/ \E ttl \in Ttls : Watch(c, w, ttl)
      PROVE  Numbered'
  <2>1. PICK row \in WatchRows : Written(row)
    BY <1>6, WatchRow, UnwatchRow
  <2>2. /\ Of(queue, "signal")' = Of(queue, "signal")
        /\ Of(queue, "delivery")' = Of(queue, "delivery")
    BY <1>1, <1>2, <2>1, OfWritten DEF WatchRows
  <2> QED BY <1>3, <1>6, <2>2 DEF Watch, Unwatch
<1>7. ASSUME NEW p \in Publishers, Publish(p) \/ \E t \in pub[p].todo : Check(p, t)
      PROVE  Numbered'
  BY <1>4, <1>7 DEF Publish, Begin, Check
<1>8. ASSUME NEW p \in Publishers, Post(p)
      PROVE  Numbered'
  BY <1>5, <1>8, PostRow DEF Post
<1>9. ASSUME NEW c \in Stoppers, NEW to \in Stopped, NEW ttl \in Ttls, Interrupt(c, to, ttl)
      PROVE  Numbered'
  BY <1>5, <1>9, InterruptRow DEF Interrupt
<1>10. ASSUME NEW r \in Readers, NEW stage \in Stages, Read(r, stage)
       PROVE  Numbered'
  <2> DEFINE picks == Picks(AddrOf[r], stage)
  <2>1. /\ picks \in Seq(SignalRows)
        /\ \A i \in 1..Len(picks) : picks[i] \in Of(queue, "signal")
    BY PicksFacts DEF Pending
  <2>2. /\ rd' = [rd EXCEPT ![r] = [stage |-> stage, picks |-> picks, done |-> 0]]
        /\ UNCHANGED <<queue, sent, posted>>
    BY <1>10 DEF Read
  <2> HIDE DEF picks
  <2>3. \A x \in Readers : \A i \in 1..Len(rd'[x].picks) : rd'[x].picks[i] \in posted
    BY <2>1, <2>2 DEF Types
  <2>4. \A x \in Readers : rd'[x].done <= Len(rd'[x].picks)
    BY <2>1, <2>2 DEF Types
  <2>5. /\ Of(queue, "signal")' = Of(queue, "signal")
        /\ Of(queue, "delivery")' = Of(queue, "delivery")
    BY <2>2 DEF Of
  <2> QED BY <2>2, <2>3, <2>4, <2>5
<1>11. ASSUME NEW r \in Readers, Receipt(r)
       PROVE  Numbered'
  <2>1. /\ rd[r].done + 1 \in 1..Len(rd[r].picks)
        /\ rd' = [rd EXCEPT ![r].done = @ + 1]
    BY <1>11, ReceiptRow
  <2>2. PICK d \in ReceiptRows : /\ d.id = rd[r].picks[rd[r].done + 1].id
                                 /\ Written(d)
    BY <1>11, ReceiptRow
  <2>3. /\ Of(queue, "signal")' = Of(queue, "signal")
        /\ Of(queue, "delivery")' \subseteq Of(queue, "delivery") \cup {d}
    BY <1>1, <1>2, <2>2, OfWritten DEF ReceiptRows
  <2>4. d.id \in 1..sent
    BY <2>1, <2>2
  <2>5. \A x \in Readers : /\ rd'[x].picks = rd[x].picks
                           /\ rd'[x].done <= Len(rd[x].picks)
    <3>1. \A x \in Readers : /\ rd'[x].picks = rd[x].picks
                             /\ rd'[x].done = IF x = r THEN rd[r].done + 1 ELSE rd[x].done
      BY <2>1 DEF Types
    <3> QED BY <2>1, <3>1
  <2>6. UNCHANGED <<sent, posted>>
    BY <1>11 DEF Receipt
  <2> QED BY <2>3, <2>4, <2>5, <2>6
<1>12. ASSUME NEW r \in Readers, Return(r) \/ Swallow(r)
       PROVE  Numbered'
  <2>1. rd' = [rd EXCEPT ![r] = NoDrain] /\ UNCHANGED <<queue, sent, posted>>
    BY <1>12 DEF Return, Swallow
  <2>2. \A x \in Readers : \/ rd'[x] = rd[x]
                           \/ Len(rd'[x].picks) = 0 /\ rd'[x].done = 0
    BY <2>1 DEF Types, NoDrain
  <2>3. /\ \A x \in Readers : \A i \in 1..Len(rd'[x].picks) : rd'[x].picks[i] \in posted
        /\ \A x \in Readers : rd'[x].done <= Len(rd'[x].picks)
    BY <2>2
  <2> QED BY <2>1, <2>3 DEF Of
<1>13. CASE Gc
  BY <1>2, <1>3, <1>13, OfCompacted DEF Gc
<1>14. CASE Tick
  BY <1>4, <1>14 DEF Tick
<1> QED BY <1>6, <1>7, <1>8, <1>9, <1>10, <1>11, <1>12, <1>13, <1>14
    DEF Next, Send, Drain

LEMMA StampedStep ==
    ASSUME Basis, Next
    PROVE  Stamped'
<1>1. WatchRows \subseteq Rows /\ SignalRows \subseteq Rows /\ ReceiptRows \subseteq Rows
  BY DEF Rows
<1>2. /\ Types /\ Numbered /\ Stamped
      /\ queue \in Seq(Rows) /\ Len(queue) \in Nat /\ now \in Nat /\ sent \in Nat
  BY DEF Basis, Types
<1> USE DEF Stamped
\* The watches, when a row is added.
<1>3. ASSUME NEW row \in Rows, Adds(row),
             \A i \in 1..Len(queue) :
                 queue[i].schema = "watch" /\ row.schema = "watch" /\ queue[i].id = row.id
                     => queue[i].ts <= row.ts
      PROVE  \A i, j \in 1..Len(queue') :
                 /\ i < j /\ queue'[i].schema = "watch" /\ queue'[j].schema = "watch"
                 /\ queue'[i].id = queue'[j].id
                 => queue'[i].ts <= queue'[j].ts
  <2>1. /\ Len(queue') = Len(queue) + 1 /\ queue'[Len(queue) + 1] = row
        /\ \A i \in 1..Len(queue) : queue'[i] = queue[i]
    BY <1>2, <1>3, Appended DEF Adds
  <2> SUFFICES ASSUME NEW i \in 1..Len(queue'), NEW j \in 1..Len(queue'), i < j,
                      queue'[i].schema = "watch", queue'[j].schema = "watch",
                      queue'[i].id = queue'[j].id
               PROVE  queue'[i].ts <= queue'[j].ts
    OBVIOUS
  <2>2. i \in 1..Len(queue) /\ (j \in 1..Len(queue) \/ j = Len(queue) + 1)
    BY <1>2, <2>1
  <2>3. CASE j \in 1..Len(queue)
    BY <1>2, <2>1, <2>2, <2>3
  <2>4. CASE j = Len(queue) + 1
    BY <1>3, <2>1, <2>2, <2>4
  <2> QED BY <2>2, <2>3, <2>4
<1>4. ASSUME NEW row \in Rows, Adds(row), row.schema # "watch"
      PROVE  \A i, j \in 1..Len(queue') :
                 /\ i < j /\ queue'[i].schema = "watch" /\ queue'[j].schema = "watch"
                 /\ queue'[i].id = queue'[j].id
                 => queue'[i].ts <= queue'[j].ts
  BY <1>3, <1>4
<1>5. ASSUME UNCHANGED <<queue, posted>>, now' >= now, now' \in Nat,
             \A p \in Publishers : pub'[p].began <= now'
      PROVE  Stamped'
  <2>1. \A row \in ToSet(queue) : row.ts \in Nat
    BY <1>2 DEF ToSet, Rows, WatchRows, SignalRows, ReceiptRows
  <2>2. \A s \in posted : s.ts \in Nat
    BY <1>2 DEF Types, SignalRows
  <2>3. \A row \in ToSet(queue) : row.ts <= now'
    BY <1>2, <1>5, <2>1
  <2>4. \A s \in posted : s.ts <= now'
    BY <1>2, <1>5, <2>2
  <2> QED BY <1>2, <1>5, <2>3, <2>4 DEF Of
\* A signal is posted: its number is new.
<1>6. ASSUME NEW s \in SignalRows, s.id = sent + 1, s.ts = now, Written(s),
             posted' = posted \cup {s}, now' = now,
             \A p \in Publishers : pub'[p].began <= now'
      PROVE  Stamped'
  <2>1. CASE queue' = queue
    BY <1>2, <1>6, <2>1 DEF Of
  <2>2. CASE Adds(s)
    <3>1. /\ Of(queue, "signal")' \subseteq Of(queue, "signal") \cup {s}
          /\ Of(queue, "delivery")' = Of(queue, "delivery")
          /\ ToSet(queue') \subseteq ToSet(queue) \cup {s}
      BY <1>1, <1>2, <1>6, OfWritten DEF SignalRows
    <3>2. \A d \in Of(queue, "delivery") : d.id # sent + 1
      BY <1>2 DEF Numbered
    <3>3. s.schema # "watch"
      BY DEF SignalRows
    <3> QED BY <1>1, <1>2, <1>4, <1>6, <2>2, <3>1, <3>2, <3>3
  <2> QED BY <1>6, <2>1, <2>2 DEF Written
<1>7. ASSUME NEW w \in Watches, NEW row \in WatchRows, Written(row), row.id = w, row.ts <= now,
             \A i \in 1..Len(queue) : OfWatch(queue[i], w) => queue[i].ts <= row.ts,
             UNCHANGED <<now, pub, posted>>
      PROVE  Stamped'
  <2>1. /\ Of(queue, "signal")' = Of(queue, "signal")
        /\ Of(queue, "delivery")' = Of(queue, "delivery")
        /\ ToSet(queue') \subseteq ToSet(queue) \cup {row}
    BY <1>1, <1>2, <1>7, OfWritten DEF WatchRows
  <2>2. CASE queue' = queue
    BY <1>2, <1>7, <2>2 DEF Of
  <2>3. \A i \in 1..Len(queue) :
            queue[i].schema = "watch" /\ row.schema = "watch" /\ queue[i].id = row.id
                => queue[i].ts <= row.ts
    BY <1>7 DEF OfWatch
  <2>4. CASE Adds(row)
    BY <1>1, <1>2, <1>3, <1>7, <2>1, <2>3, <2>4
  <2> QED BY <1>7, <2>2, <2>4 DEF Written
<1>8. ASSUME NEW c \in Watchers, NEW w \in Watches, NEW ttl \in Ttls, Watch(c, w, ttl)
      PROVE  Stamped'
  <2>1. PICK row \in WatchRows : Written(row) /\ row.id = w /\ row.ts = now
    BY <1>2, <1>8, WatchRow
  <2>2. \A i \in 1..Len(queue) : queue[i].ts <= now
    BY <1>2 DEF ToSet
  <2> QED BY <1>2, <1>7, <1>8, <2>1, <2>2 DEF Watch
<1>9. ASSUME NEW c \in Watchers, NEW w \in Watches, Unwatch(c, w)
      PROVE  Stamped'
  <2> DEFINE last == LastOf(queue, w)
  <2>1. PICK row \in WatchRows :
           /\ Written(row) /\ row.id = w /\ row.ts = queue[last].ts
           /\ last \in 1..Len(queue) /\ OfWatch(queue[last], w)
    BY <1>2, <1>9, UnwatchRow
  <2>2. \A i \in 1..Len(queue) : OfWatch(queue[i], w) => i <= last
    BY <1>2, <2>1, LastOfFacts
  <2> HIDE DEF last
  <2>3. row.ts <= now
    BY <1>2, <2>1 DEF ToSet
  <2>4. ASSUME NEW i \in 1..Len(queue), OfWatch(queue[i], w)
        PROVE  queue[i].ts <= row.ts
    <3>1. i = last \/ i < last
      BY <2>1, <2>2, <2>4
    <3>2. queue[last].ts \in Nat
      BY <2>1 DEF WatchRows
    <3>3. CASE i < last
      BY <1>2, <2>1, <2>4, <3>3 DEF OfWatch
    <3> QED BY <2>1, <3>1, <3>2, <3>3
  <2> QED BY <1>7, <1>9, <2>1, <2>3, <2>4 DEF Unwatch
<1>10. ASSUME NEW p \in Publishers, Publish(p) \/ \E t \in pub[p].todo : Check(p, t)
       PROVE  Stamped'
  <2>1. UNCHANGED <<queue, posted, now>>
    BY <1>10 DEF Publish, Begin, Check
  <2>2. \A x \in Publishers : pub'[x].began \in {pub[x].began, now, 0}
    <3>1. CASE Publish(p)
      <4>1. PICK targets, ttl : Begin(p, targets, ttl)
        BY <3>1 DEF Publish
      <4> DEFINE job == [todo |-> targets, aim |-> None, began |-> now, ends |-> now + ttl]
      <4>2. pub' = [pub EXCEPT ![p] = job] /\ job.began = now
        BY <4>1 DEF Begin
      <4> HIDE DEF job
      <4> QED BY <1>2, <4>2 DEF Types
    <3>2. ASSUME NEW t \in pub[p].todo, Check(p, t)
          PROVE  \A x \in Publishers : pub'[x].began \in {pub[x].began, now, 0}
      <4>1. pub[p] \in [todo : SUBSET Aims, aim : Aims \cup {None}, began : Nat, ends : Nat]
        BY <1>2 DEF Types
      <4> DEFINE job == [pub[p] EXCEPT !.todo = @ \ {t},
                            !.aim = IF Full(t[1], pub[p].began) THEN None ELSE t]
      <4>2. pub' = [pub EXCEPT ![p] = Rest(job)] /\ job.began = pub[p].began
        BY <3>2, <4>1 DEF Check
      <4> HIDE DEF job
      <4>3. Rest(job).began \in {pub[p].began, 0}
        BY <4>2 DEF Rest, Idle
      <4> QED BY <1>2, <4>2, <4>3 DEF Types
    <3> QED BY <1>10, <3>1, <3>2
  <2> QED BY <1>2, <1>5, <2>1, <2>2
<1>11. ASSUME NEW p \in Publishers, Post(p)
       PROVE  Stamped'
  <2>1. pub[p] \in [todo : SUBSET Aims, aim : Aims \cup {None}, began : Nat, ends : Nat]
    BY <1>2 DEF Types
  <2> DEFINE job == [pub[p] EXCEPT !.aim = None]
  <2>2. pub' = [pub EXCEPT ![p] = Rest(job)] /\ job.began = pub[p].began
    BY <1>11, <2>1 DEF Post
  <2> HIDE DEF job
  <2>3. Rest(job).began \in {pub[p].began, 0}
    BY <2>2 DEF Rest, Idle
  <2>4. \A x \in Publishers : pub'[x].began \in {pub[x].began, 0}
    BY <1>2, <2>2, <2>3 DEF Types
  <2>5. now' = now
    BY <1>11 DEF Post
  <2>6. \A x \in Publishers : pub'[x].began <= now'
    BY <1>2, <2>4, <2>5
  <2>7. PICK s \in SignalRows : /\ s.id = sent + 1 /\ s.ts = now /\ Written(s)
                                /\ posted' = posted \cup {s}
    BY <1>2, <1>11, PostRow
  <2> QED BY <1>6, <2>5, <2>6, <2>7
<1>12. ASSUME NEW c \in Stoppers, NEW to \in Stopped, NEW ttl \in Ttls, Interrupt(c, to, ttl)
       PROVE  Stamped'
  <2>1. PICK s \in SignalRows : /\ s.id = sent + 1 /\ s.ts = now /\ Written(s)
                                /\ posted' = posted \cup {s}
    BY <1>2, <1>12, InterruptRow
  <2>2. UNCHANGED <<now, pub>>
    BY <1>12 DEF Interrupt
  <2> QED BY <1>2, <1>6, <2>1, <2>2
<1>13. ASSUME NEW r \in Readers, Receipt(r)
       PROVE  Stamped'
  <2>1. PICK d \in ReceiptRows : d.ts = now /\ Written(d)
    BY <1>2, <1>13, ReceiptRow
  <2>2. UNCHANGED <<now, pub, posted>>
    BY <1>13 DEF Receipt
  <2>3. CASE queue' = queue
    BY <1>2, <1>5, <2>2, <2>3
  <2>4. CASE Adds(d)
    <3>1. /\ Of(queue, "signal")' = Of(queue, "signal")
          /\ Of(queue, "delivery")' \subseteq Of(queue, "delivery") \cup {d}
          /\ ToSet(queue') \subseteq ToSet(queue) \cup {d}
      BY <1>1, <1>2, <2>1, OfWritten DEF ReceiptRows
    <3>2. d.schema # "watch"
      BY DEF ReceiptRows
    <3>3. \A s \in Of(queue, "signal") : s.ts <= now
      BY <1>2 DEF Of
    <3> QED BY <1>1, <1>2, <1>4, <2>1, <2>2, <2>4, <3>1, <3>2, <3>3
  <2> QED BY <2>1, <2>3, <2>4 DEF Written
<1>14. CASE Gc
  <2>1. queue' = Compacted /\ UNCHANGED <<now, pub, posted>>
    BY <1>14 DEF Gc
  <2>2. /\ Of(queue, "signal")' \subseteq Of(queue, "signal")
        /\ Of(queue, "delivery")' \subseteq Of(queue, "delivery")
    BY <1>2, <2>1, OfCompacted
  <2>3. ToSet(queue') \subseteq ToSet(queue)
    BY <1>2, <2>1, CompactedFacts
  <2>4. PICK f \in [1..Len(queue') -> 1..Len(queue)] :
           /\ \A k \in 1..Len(queue') : queue'[k] = queue[f[k]]
           /\ \A k, l \in 1..Len(queue') : k < l => f[k] < f[l]
    BY <1>2, <2>1, CompactedFacts
  <2>5. \A k, l \in 1..Len(queue') :
            /\ k < l /\ queue'[k].schema = "watch" /\ queue'[l].schema = "watch"
            /\ queue'[k].id = queue'[l].id
            => queue'[k].ts <= queue'[l].ts
    <3> SUFFICES ASSUME NEW k \in 1..Len(queue'), NEW l \in 1..Len(queue'), k < l,
                        queue'[k].schema = "watch", queue'[l].schema = "watch",
                        queue'[k].id = queue'[l].id
                 PROVE  queue'[k].ts <= queue'[l].ts
      OBVIOUS
    <3>1. /\ f[k] \in 1..Len(queue) /\ f[l] \in 1..Len(queue) /\ f[k] < f[l]
          /\ queue'[k] = queue[f[k]] /\ queue'[l] = queue[f[l]]
      BY <2>4
    <3> QED BY <1>2, <3>1
  <2> QED BY <1>2, <2>1, <2>2, <2>3, <2>5
<1>15. ASSUME UNCHANGED <<queue, posted, now, pub>>
       PROVE  Stamped'
  BY <1>2, <1>5, <1>15
<1>16. ASSUME NEW r \in Readers, (\E stage \in Stages : Read(r, stage)) \/ Return(r) \/ Swallow(r)
       PROVE  Stamped'
  <2>1. UNCHANGED <<queue, posted, now, pub>>
    BY <1>16 DEF Read, Return, Swallow
  <2> QED BY <1>15, <2>1
<1>17. CASE Tick
  <2>1. /\ UNCHANGED <<queue, posted, pub>> /\ now' = now + 1
        /\ \A p \in Publishers : pub[p].began \in Nat
    BY <1>2, <1>17 DEF Tick, Types
  <2> QED BY <1>2, <1>5, <2>1
<1> QED BY <1>8, <1>9, <1>10, <1>11, <1>12, <1>13, <1>14, <1>16, <1>17 DEF Next, Send, Drain

LEMMA BasisStep == Basis /\ [Next]_vars => Basis'
<1>1. CASE UNCHANGED vars
  BY <1>1 DEF vars, Basis, Types, Numbered, Stamped, Of
<1>2. CASE Next
  BY <1>2, TypesStep, NumberedStep, StampedStep DEF Basis
<1> QED BY <1>1, <1>2

\* Rows, processes and histories of the relay keep their types, and the row of
\* a signal, its receipts and the drains that hold it their numbers.
THEOREM TypeCorrect == Spec => []Basis
BY InitBasis, BasisStep, PTL DEF Spec

-----------------------------------------------------------------------------
(* An address has its limit, and one more for each of those who publish.   *)

LEMMA CapFinite ==
    ASSUME Types, NEW a
    PROVE  /\ IsFiniteSet(Held(a)) /\ Cardinality(Held(a)) \in Nat
           /\ IsFiniteSet(Aimers(a)) /\ Cardinality(Aimers(a)) \in Nat
           /\ Cardinality(Aimers(a)) <= Cardinality(Publishers)
           /\ Cardinality(Publishers) \in Nat
<1>1. Held(a) \in SUBSET ToSet(queue)
  BY DEF Held, Pending, Of
<1>2. IsFiniteSet(ToSet(queue))
  BY QueueFinite DEF Types
<1>3. Aimers(a) \in SUBSET Publishers
  BY DEF Aimers
<1>4. IsFiniteSet(Publishers)
  BY RelayAssumption
<1> QED BY <1>1, <1>2, <1>3, <1>4, FS_Subset, FS_CardinalityType

\* What is pending stays so only for rows that are there, undelivered.
LEMMA PendingShrinks ==
    ASSUME Types, Numbered, now' \in Nat, now' >= now,
           Of(queue, "signal")' \subseteq Of(queue, "signal"),
           Of(queue, "delivery") \subseteq Of(queue, "delivery")',
           NEW a \in Addresses
    PROVE  Held(a)' \subseteq Held(a)
<1> SUFFICES ASSUME NEW s \in Held(a)' PROVE s \in Held(a)
  OBVIOUS
<1>1. s \in Of(queue, "signal") /\ s.ends > now' /\ s.addr = a /\ s.kind # "interrupt"
      /\ s.addr \in Reach(a) /\ ~Seen(queue', s, a)
  BY DEF Held, Pending
<1>2. s.ends > now
  <2>1. s.ends \in Nat /\ now \in Nat
    BY <1>1 DEF Numbered, Types, SignalRows
  <2> QED BY <1>1, <2>1
<1>3. ~Seen(queue, s, a)
  BY <1>1 DEF Seen
<1> QED BY <1>1, <1>2, <1>3 DEF Held, Pending

\* A receipt leaves the file with its signal, or after it.
LEMMA HeldCompacted ==
    ASSUME Basis, Gc, NEW a \in Addresses
    PROVE  Held(a)' \subseteq Held(a)
<1> SUFFICES ASSUME NEW s \in Held(a)' PROVE s \in Held(a)
  OBVIOUS
<1>1. Types /\ Numbered /\ Stamped /\ queue \in Seq(Rows)
  BY DEF Basis, Types
<1>2. /\ Of(queue, "signal")' = {row \in Of(queue, "signal") : ~Drops(row)}
      /\ Of(queue, "delivery")' = {row \in Of(queue, "delivery") : ~Drops(row)}
      /\ now' = now
  BY <1>1, OfCompacted DEF Gc
<1>3. /\ s \in Of(queue, "signal") /\ ~Drops(s) /\ s.ends > now /\ s.addr = a
      /\ s.kind # "interrupt" /\ s.addr \in Reach(a) /\ ~Seen(queue', s, a)
  BY <1>2 DEF Held, Pending
<1>4. ASSUME NEW d \in Of(queue, "delivery"), d.id = s.id, s.addr = Star => d.addr = a
      PROVE  FALSE
  <2>1. d \notin Of(queue, "delivery")'
    BY <1>3, <1>4 DEF Seen
  <2>2. Drops(d) /\ d.schema = "delivery" /\ s.schema = "signal"
    BY <1>2, <1>3, <1>4, <2>1 DEF Of
  <2>3. Old(d)
    BY <2>2 DEF Drops
  <2>4. s.ts <= d.ts /\ s.ts \in Nat /\ d.ts \in Nat /\ now \in Nat /\ Keep \in Nat
    <3>1. s.ts <= d.ts
      BY <1>1, <1>3, <1>4 DEF Stamped
    <3>2. d \in Rows /\ s \in SignalRows
      <4>1. \A row \in ToSet(queue) : row \in Rows
        BY <1>1 DEF ToSet
      <4> QED BY <1>1, <1>3, <1>4, <4>1 DEF Of, Numbered, Types
    <3> QED BY <1>1, <3>1, <3>2, ConstantFacts
            DEF Types, Rows, SignalRows, WatchRows, ReceiptRows
  <2>5. Old(s)
    BY <2>3, <2>4 DEF Old
  <2>6. Settled(s)
    BY <1>4 DEF Settled, SeenByAnybody
  <2> QED BY <1>3, <2>2, <2>5, <2>6 DEF Drops
<1>5. ~Seen(queue, s, a)
  BY <1>4 DEF Seen
<1> QED BY <1>3, <1>5 DEF Held, Pending

LEMMA InitCap == Init => CapInv
<1> SUFFICES ASSUME Init, NEW a \in Addresses
             PROVE  Cardinality(Held(a)) + Cardinality(Aimers(a))
                        <= MaxPending + Cardinality(Publishers) - 1
  BY DEF CapInv
<1>1. Types
  BY InitBasis DEF Basis
<1>2. Held(a) = {}
  BY DEF Init, Held, Pending, Of, ToSet
<1>3. Aimers(a) = {}
  BY DEF Init, Aimers, Idle
<1>4. MaxPending \in Nat \ {0} /\ Cardinality(Publishers) \in Nat
  BY <1>1, CapFinite, RelayAssumption
<1>5. Cardinality(Held(a)) = 0 /\ Cardinality(Aimers(a)) = 0
  BY <1>2, <1>3, FS_EmptySet
<1> QED BY <1>4, <1>5

LEMMA CapStep ==
    ASSUME Basis, Basis', CapInv, Next
    PROVE  CapInv'
<1>1. /\ Types /\ Numbered /\ queue \in Seq(Rows) /\ Types'
      /\ now \in Nat /\ sent \in Nat
  BY DEF Basis, Types
<1>2. WatchRows \subseteq Rows /\ SignalRows \subseteq Rows /\ ReceiptRows \subseteq Rows
  BY DEF Rows
<1> DEFINE Fits(a) == Cardinality(Held(a)) + Cardinality(Aimers(a))
                          <= MaxPending + Cardinality(Publishers) - 1
<1>3. MaxPending \in Nat \ {0} /\ Cardinality(Publishers) \in Nat /\ IsFiniteSet(Publishers)
  BY <1>1, CapFinite, RelayAssumption
<1>4. \A a \in Addresses : Fits(a)
  BY DEF CapInv
<1>5. ASSUME NEW a \in Addresses, Held(a)' \subseteq Held(a), Aimers(a)' \subseteq Aimers(a)
      PROVE  Fits(a)'
  <2>1. Cardinality(Held(a)') <= Cardinality(Held(a)) /\ Cardinality(Held(a)') \in Nat
    BY <1>1, <1>5, CapFinite, FS_Subset, FS_CardinalityType
  <2>2. /\ Cardinality(Aimers(a)') <= Cardinality(Aimers(a)) /\ Cardinality(Aimers(a)') \in Nat
    BY <1>1, <1>5, CapFinite, FS_Subset, FS_CardinalityType
  <2> QED BY <1>1, <1>3, <1>4, <2>1, <2>2, CapFinite
<1>6. ASSUME UNCHANGED pub, \A a \in Addresses : Held(a)' \subseteq Held(a)
      PROVE  CapInv'
  <2>1. \A a \in Addresses : Aimers(a)' \subseteq Aimers(a)
    BY <1>6 DEF Aimers
  <2> QED BY <1>5, <1>6, <2>1 DEF CapInv
<1>7. ASSUME UNCHANGED <<queue, now>>
      PROVE  \A a \in Addresses : Held(a)' \subseteq Held(a)
  BY <1>7 DEF Held
<1>8. ASSUME NEW c \in Watchers, NEW w \in Watches,
             Unwatch(c, w) \/ \E ttl \in Ttls : Watch(c, w, ttl)
      PROVE  CapInv'
  <2>1. PICK row \in WatchRows : Written(row)
    BY <1>1, <1>8, WatchRow, UnwatchRow
  <2>2. /\ Of(queue, "signal")' = Of(queue, "signal")
        /\ Of(queue, "delivery")' = Of(queue, "delivery")
    BY <1>1, <1>2, <2>1, OfWritten DEF WatchRows
  <2>3. now' = now /\ pub' = pub
    BY <1>8 DEF Watch, Unwatch
  <2>4. \A a \in Addresses : Held(a)' \subseteq Held(a)
    BY <1>1, <2>2, <2>3, PendingShrinks
  <2> QED BY <1>6, <2>3, <2>4
<1>9. ASSUME NEW p \in Publishers, Publish(p)
      PROVE  CapInv'
  <2>1. PICK targets, ttl : Begin(p, targets, ttl)
    BY <1>9 DEF Publish
  <2> DEFINE job == [todo |-> targets, aim |-> None, began |-> now, ends |-> now + ttl]
  <2>2. pub' = [pub EXCEPT ![p] = job] /\ job.aim = None /\ UNCHANGED <<queue, now>>
    BY <2>1 DEF Begin
  <2> HIDE DEF job
  <2>3. \A a \in Addresses : Aimers(a)' \subseteq Aimers(a)
    BY <1>1, <2>2 DEF Aimers, Types
  <2> QED BY <1>5, <1>7, <2>2, <2>3 DEF CapInv
\* There was room when p looked: what it saw pending then is what is held now.
<1>10. ASSUME NEW p \in Publishers, NEW t \in pub[p].todo, Check(p, t)
       PROVE  CapInv'
  <2>1. pub[p] \in [todo : SUBSET Aims, aim : Aims \cup {None}, began : Nat, ends : Nat]
    BY <1>1 DEF Types
  <2> DEFINE job == [pub[p] EXCEPT !.todo = @ \ {t},
                        !.aim = IF Full(t[1], pub[p].began) THEN None ELSE t]
  <2>2. /\ pub' = [pub EXCEPT ![p] = Rest(job)]
        /\ job.aim = (IF Full(t[1], pub[p].began) THEN None ELSE t)
        /\ UNCHANGED <<queue, now>>
    BY <1>10, <2>1 DEF Check
  <2> HIDE DEF job
  <2>3. Rest(job).aim = None \/ (~Full(t[1], pub[p].began) /\ Rest(job).aim = t)
    BY <2>2 DEF Rest, Idle
  <2>4. \A x \in Publishers : x # p => pub'[x] = pub[x]
    BY <1>1, <2>2 DEF Types
  <2>5. pub'[p].aim = Rest(job).aim
    BY <1>1, <2>2 DEF Types
  <2>6. SUFFICES ASSUME NEW a \in Addresses PROVE Fits(a)'
    BY DEF CapInv
  <2>7. Held(a)' = Held(a)
    BY <2>2 DEF Held
  <2>8. CASE p \in Aimers(a)'
    <3>1. ~Full(a, pub[p].began)
      BY <2>3, <2>5, <2>8 DEF Aimers
    <3>2. Held(a) \subseteq Pending(queue, a, pub[p].began)
      <4> SUFFICES ASSUME NEW s \in Held(a) PROVE s \in Pending(queue, a, pub[p].began)
        OBVIOUS
      <4>1. pub[p].began <= now
        BY DEF Basis, Stamped
      <4>2. s \in Of(queue, "signal") /\ s.ends > now
        BY DEF Held, Pending
      <4>3. s.ends \in Nat
        BY <1>1, <4>2 DEF Numbered, Types, SignalRows
      <4>4. s.ends > pub[p].began
        BY <1>1, <2>1, <4>1, <4>2, <4>3
      <4> QED BY <4>4 DEF Held, Pending
    <3>3. /\ IsFiniteSet(Pending(queue, a, pub[p].began))
          /\ Cardinality(Pending(queue, a, pub[p].began)) \in Nat
      <4>1. Pending(queue, a, pub[p].began) \in SUBSET ToSet(queue)
        BY DEF Pending, Of
      <4> QED BY <1>1, <4>1, QueueFinite, FS_Subset, FS_CardinalityType
    <3>4. Cardinality(Pending(queue, a, pub[p].began)) < MaxPending
      BY <1>3, <3>1, <3>3 DEF Full
    <3>5. Cardinality(Held(a)) <= Cardinality(Pending(queue, a, pub[p].began))
      BY <3>2, <3>3, FS_Subset
    <3>6. /\ Cardinality(Aimers(a)') \in Nat
          /\ Cardinality(Aimers(a)') <= Cardinality(Publishers)
      <4>1. Aimers(a)' \in SUBSET Publishers
        BY DEF Aimers
      <4> QED BY <1>3, <4>1, FS_Subset, FS_CardinalityType
    <3>7. Cardinality(Held(a)) \in Nat
      BY <1>1, CapFinite
    <3> QED BY <1>3, <2>7, <3>3, <3>4, <3>5, <3>6, <3>7
  <2>9. CASE p \notin Aimers(a)'
    <3>1. Aimers(a)' \subseteq Aimers(a)
      BY <2>4, <2>9 DEF Aimers
    <3> QED BY <1>5, <2>7, <3>1
  <2> QED BY <2>8, <2>9
\* A signal is held instead of being aimed.
<1>11. ASSUME NEW p \in Publishers, Post(p)
       PROVE  CapInv'
  <2>1. pub[p] \in [todo : SUBSET Aims, aim : Aims \cup {None}, began : Nat, ends : Nat]
    BY <1>1 DEF Types
  <2> DEFINE job == [pub[p] EXCEPT !.aim = None]
  <2>2. pub' = [pub EXCEPT ![p] = Rest(job)] /\ job.aim = None /\ now' = now
    BY <1>11, <2>1 DEF Post
  <2> HIDE DEF job
  <2>3. Rest(job).aim = None
    BY <2>2 DEF Rest, Idle
  <2>4. \A x \in Publishers : pub'[x] = IF x = p THEN Rest(job) ELSE pub[x]
    BY <1>1, <2>2 DEF Types
  <2>5. \A a \in Addresses : Aimers(a)' = Aimers(a) \ {p}
    BY <2>3, <2>4 DEF Aimers
  <2>6. PICK s \in SignalRows : /\ s.addr = pub[p].aim[1] /\ s.kind = pub[p].aim[2]
                                /\ Written(s)
    BY <1>1, <1>11, PostRow
  <2>7. /\ Of(queue, "signal")' \subseteq Of(queue, "signal") \cup {s}
        /\ Of(queue, "delivery")' = Of(queue, "delivery")
    BY <1>1, <1>2, <2>6, OfWritten DEF SignalRows
  <2>8. SUFFICES ASSUME NEW a \in Addresses PROVE Fits(a)'
    BY DEF CapInv
  <2>9. ASSUME NEW r \in Held(a)', r # s PROVE r \in Held(a)
    BY <2>2, <2>7, <2>9 DEF Held, Pending, Seen
  <2>10. CASE p \in Aimers(a)
    <3>1. Held(a)' \subseteq Held(a) \cup {s}
      BY <2>9
    <3>2. /\ IsFiniteSet(Held(a) \cup {s})
          /\ Cardinality(Held(a) \cup {s}) <= Cardinality(Held(a)) + 1
          /\ Cardinality(Held(a) \cup {s}) \in Nat
      <4>1. IsFiniteSet(Held(a)) /\ Cardinality(Held(a)) \in Nat
        BY <1>1, CapFinite
      <4>2. /\ IsFiniteSet(Held(a) \cup {s})
            /\ \/ Cardinality(Held(a) \cup {s}) = Cardinality(Held(a))
               \/ Cardinality(Held(a) \cup {s}) = Cardinality(Held(a)) + 1
        BY <4>1, FS_AddElement
      <4> QED BY <4>1, <4>2
    <3>3. Cardinality(Held(a)') <= Cardinality(Held(a)) + 1 /\ Cardinality(Held(a)') \in Nat
      <4>1. Cardinality(Held(a)') <= Cardinality(Held(a) \cup {s})
        BY <3>1, <3>2, FS_Subset
      <4>2. Cardinality(Held(a)') \in Nat
        BY <3>1, <3>2, FS_Subset, FS_CardinalityType
      <4> QED BY <1>1, <3>2, <4>1, <4>2, CapFinite
    <3>4. Cardinality(Aimers(a)') = Cardinality(Aimers(a)) - 1
      BY <1>1, <2>5, <2>10, CapFinite, FS_RemoveElement
    <3> QED BY <1>1, <1>3, <1>4, <3>3, <3>4, CapFinite
  <2>11. CASE p \notin Aimers(a)
    <3>1. s \notin Held(a)'
      <4>1. pub[p].aim # None
        BY <1>11 DEF Post
      <4> QED BY <2>6, <2>11, <4>1 DEF Held, Aimers
    <3>2. Held(a)' \subseteq Held(a)
      BY <2>9, <3>1
    <3> QED BY <1>5, <2>5, <3>2
  <2> QED BY <2>10, <2>11
<1>12. ASSUME NEW c \in Stoppers, NEW to \in Stopped, NEW ttl \in Ttls, Interrupt(c, to, ttl)
       PROVE  CapInv'
  <2>1. PICK s \in SignalRows : s.kind = "interrupt" /\ Written(s)
    BY <1>1, <1>12, InterruptRow
  <2>2. /\ Of(queue, "signal")' \subseteq Of(queue, "signal") \cup {s}
        /\ Of(queue, "delivery")' = Of(queue, "delivery")
    BY <1>1, <1>2, <2>1, OfWritten DEF SignalRows
  <2>3. now' = now /\ pub' = pub
    BY <1>12 DEF Interrupt
  <2>4. \A a \in Addresses : Held(a)' \subseteq Held(a)
    BY <2>1, <2>2, <2>3 DEF Held, Pending, Seen
  <2> QED BY <1>6, <2>3, <2>4
<1>13. ASSUME NEW r \in Readers, Receipt(r)
       PROVE  CapInv'
  <2>1. PICK d \in ReceiptRows : Written(d)
    BY <1>1, <1>13, ReceiptRow
  <2>2. now' = now /\ pub' = pub
    BY <1>13 DEF Receipt
  <2>3. /\ Of(queue, "signal")' = Of(queue, "signal")
        /\ Of(queue, "delivery") \subseteq Of(queue, "delivery")'
    BY <1>1, <1>2, <2>1, OfWritten DEF ReceiptRows
  <2>4. \A a \in Addresses : Held(a)' \subseteq Held(a)
    BY <1>1, <2>2, <2>3, PendingShrinks
  <2> QED BY <1>6, <2>2, <2>4
<1>14. ASSUME NEW r \in Readers, (\E stage \in Stages : Read(r, stage)) \/ Return(r) \/ Swallow(r)
       PROVE  CapInv'
  <2>1. UNCHANGED <<queue, now, pub>>
    BY <1>14 DEF Read, Return, Swallow
  <2> QED BY <1>6, <1>7, <2>1
<1>15. CASE Gc
  <2>1. pub' = pub
    BY <1>15 DEF Gc
  <2> QED BY <1>6, <1>15, <2>1, HeldCompacted
<1>16. CASE Tick
  <2>1. now' = now + 1 /\ queue' = queue /\ pub' = pub
    BY <1>16 DEF Tick
  <2>2. \A a \in Addresses : Held(a)' \subseteq Held(a)
    BY <1>1, <2>1, PendingShrinks DEF Of
  <2> QED BY <1>6, <2>1, <2>2
<1> QED BY <1>8, <1>9, <1>10, <1>11, <1>12, <1>13, <1>14, <1>15, <1>16 DEF Next, Send, Drain

\* publish() counts what is pending, and appends later: however its looks and
\* its rows interleave with those of others, with drains and with compactions,
\* an address holds its limit of advisories and one more for each of the others.
THEOREM CapKept == Spec => []AddressCap
<1>1. Init => Basis /\ CapInv
  BY InitBasis, InitCap
<1>2. Basis /\ CapInv /\ [Next]_vars => (Basis /\ CapInv)'
  <2> SUFFICES ASSUME Basis, CapInv, [Next]_vars PROVE (Basis /\ CapInv)'
    OBVIOUS
  <2>1. Basis'
    BY BasisStep
  <2>2. CASE UNCHANGED vars
    BY <2>1, <2>2 DEF vars, CapInv, Held, Aimers
  <2>3. CASE Next
    BY <2>1, <2>3, CapStep
  <2> QED BY <2>2, <2>3
<1>3. Basis /\ CapInv => AddressCap
  <2> SUFFICES ASSUME Basis, CapInv, NEW a \in Addresses
               PROVE  Cardinality(Held(a)) <= MaxPending + Cardinality(Publishers) - 1
    BY DEF AddressCap, Held
  <2>1. Types
    BY DEF Basis
  <2>2. MaxPending \in Nat
    BY RelayAssumption
  <2> QED BY <2>1, <2>2, CapFinite DEF CapInv
<1> QED BY <1>1, <1>2, <1>3, PTL DEF Spec

-----------------------------------------------------------------------------
(* What compaction leaves out.                                             *)

LEMMA InitSpans == Init => Spans
<1> SUFFICES ASSUME Init PROVE Spans
  OBVIOUS
<1>1. Of(queue, "watch") = {}
  BY DEF Init, Of, ToSet
<1> QED BY <1>1, ConstantFacts DEF Init, Spans, Idle

LEMMA SpansStep ==
    ASSUME ShortLived, Basis, Spans, Next
    PROVE  Spans'
<1> USE DEF Spans
<1>1. /\ Types /\ Numbered /\ queue \in Seq(Rows) /\ now \in Nat /\ sent \in Nat
      /\ Keep \in Nat
  BY ConstantFacts DEF Basis, Types
<1>2. WatchRows \subseteq Rows /\ SignalRows \subseteq Rows /\ ReceiptRows \subseteq Rows
  BY DEF Rows
<1>3. \A ttl \in Ttls : ttl \in Nat /\ ttl <= Keep
  BY ConstantFacts DEF ShortLived
<1>4. ASSUME UNCHANGED <<pub, posted>>, Of(queue, "watch")' \subseteq Of(queue, "watch")
      PROVE  Spans'
  BY <1>4
\* A signal is posted, for no longer than allowed.
<1>5. ASSUME NEW s \in SignalRows, s.ends <= s.ts + Keep, Written(s),
             posted' = posted \cup {s},
             \A p \in Publishers : pub'[p].ends <= pub'[p].began + Keep
      PROVE  Spans'
  <2>1. Of(queue, "watch")' = Of(queue, "watch")
    BY <1>1, <1>2, <1>5, OfWritten DEF SignalRows
  <2> QED BY <1>5, <2>1
<1>6. ASSUME NEW c \in Watchers, NEW w \in Watches,
             Unwatch(c, w) \/ \E ttl \in Ttls : Watch(c, w, ttl)
      PROVE  Spans'
  <2>1. PICK row \in WatchRows : Written(row) /\ row.ends <= row.ts + Keep
    <3>1. ASSUME NEW ttl \in Ttls, Watch(c, w, ttl)
          PROVE  \E row \in WatchRows : Written(row) /\ row.ends <= row.ts + Keep
      <4>1. PICK row \in WatchRows : Written(row) /\ row.ts = now /\ row.ends = now + ttl
        BY <1>1, <3>1, WatchRow
      <4> QED BY <1>1, <1>3, <4>1
    <3>2. ASSUME Unwatch(c, w)
          PROVE  \E row \in WatchRows : Written(row) /\ row.ends <= row.ts + Keep
      <4>1. PICK row \in WatchRows : Written(row) /\ row.ends = 0
        BY <1>1, <3>2, UnwatchRow
      <4>2. row.ts \in Nat
        BY DEF WatchRows
      <4> QED BY <1>1, <4>1, <4>2
    <3> QED BY <1>6, <3>1, <3>2
  <2>2. Of(queue, "watch")' \subseteq Of(queue, "watch") \cup {row}
    BY <1>1, <1>2, <2>1, OfWritten DEF WatchRows
  <2>3. UNCHANGED <<pub, posted>>
    BY <1>6 DEF Watch, Unwatch
  <2> QED BY <2>1, <2>2, <2>3
<1>7. ASSUME NEW p \in Publishers, Publish(p)
      PROVE  Spans'
  <2>1. PICK targets, ttl : ttl \in Ttls /\ Begin(p, targets, ttl)
    BY <1>7 DEF Publish
  <2> DEFINE job == [todo |-> targets, aim |-> None, began |-> now, ends |-> now + ttl]
  <2>2. /\ pub' = [pub EXCEPT ![p] = job] /\ job.began = now /\ job.ends = now + ttl
        /\ UNCHANGED <<queue, posted>>
    BY <2>1 DEF Begin
  <2> HIDE DEF job
  <2>3. \A x \in Publishers : pub'[x] = IF x = p THEN job ELSE pub[x]
    BY <1>1, <2>2 DEF Types
  <2>4. job.ends <= job.began + Keep
    BY <1>1, <1>3, <2>1, <2>2
  <2> QED BY <2>2, <2>3, <2>4 DEF Of
<1>8. ASSUME NEW p \in Publishers, NEW t \in pub[p].todo, Check(p, t)
      PROVE  Spans'
  <2>1. pub[p] \in [todo : SUBSET Aims, aim : Aims \cup {None}, began : Nat, ends : Nat]
    BY <1>1 DEF Types
  <2> DEFINE job == [pub[p] EXCEPT !.todo = @ \ {t},
                        !.aim = IF Full(t[1], pub[p].began) THEN None ELSE t]
  <2>2. /\ pub' = [pub EXCEPT ![p] = Rest(job)]
        /\ job.began = pub[p].began /\ job.ends = pub[p].ends
        /\ UNCHANGED <<queue, posted>>
    BY <1>8, <2>1 DEF Check
  <2> HIDE DEF job
  <2>3. Rest(job).ends <= Rest(job).began + Keep
    BY <1>1, <2>2 DEF Rest, Idle
  <2>4. \A x \in Publishers : pub'[x] = IF x = p THEN Rest(job) ELSE pub[x]
    BY <1>1, <2>2 DEF Types
  <2> QED BY <2>2, <2>3, <2>4 DEF Of
<1>9. ASSUME NEW p \in Publishers, Post(p)
      PROVE  Spans'
  <2>1. pub[p] \in [todo : SUBSET Aims, aim : Aims \cup {None}, began : Nat, ends : Nat]
    BY <1>1 DEF Types
  <2> DEFINE job == [pub[p] EXCEPT !.aim = None]
  <2>2. /\ pub' = [pub EXCEPT ![p] = Rest(job)]
        /\ job.began = pub[p].began /\ job.ends = pub[p].ends
    BY <1>9, <2>1 DEF Post
  <2> HIDE DEF job
  <2>3. Rest(job).ends <= Rest(job).began + Keep
    BY <1>1, <2>2 DEF Rest, Idle
  <2>4. \A x \in Publishers : pub'[x] = IF x = p THEN Rest(job) ELSE pub[x]
    BY <1>1, <2>2 DEF Types
  <2>5. PICK s \in SignalRows : /\ s.ts = now /\ s.ends = pub[p].ends
                                /\ Written(s) /\ posted' = posted \cup {s}
    BY <1>1, <1>9, PostRow
  <2>6. pub[p].began <= now /\ pub[p].ends <= pub[p].began + Keep
    BY DEF Basis, Stamped
  <2>7. s.ends <= s.ts + Keep
    BY <1>1, <2>1, <2>5, <2>6
  <2>8. \A x \in Publishers : pub'[x].ends <= pub'[x].began + Keep
    BY <2>3, <2>4
  <2> QED BY <1>5, <2>5, <2>7, <2>8
<1>10. ASSUME NEW c \in Stoppers, NEW to \in Stopped, NEW ttl \in Ttls, Interrupt(c, to, ttl)
       PROVE  Spans'
  <2>1. PICK s \in SignalRows : /\ s.ts = now /\ s.ends = now + ttl /\ Written(s)
                                /\ posted' = posted \cup {s}
    BY <1>1, <1>10, InterruptRow
  <2>2. s.ends <= s.ts + Keep /\ pub' = pub
    BY <1>1, <1>3, <1>10, <2>1 DEF Interrupt
  <2> QED BY <1>5, <2>1, <2>2
<1>11. ASSUME NEW r \in Readers, Receipt(r)
       PROVE  Spans'
  <2>1. PICK d \in ReceiptRows : Written(d)
    BY <1>1, <1>11, ReceiptRow
  <2>2. Of(queue, "watch")' = Of(queue, "watch")
    BY <1>1, <1>2, <2>1, OfWritten DEF ReceiptRows
  <2> QED BY <1>4, <1>11, <2>2 DEF Receipt
<1>12. ASSUME NEW r \in Readers,
              Return(r) \/ Swallow(r) \/ Tick \/ \E stage \in Stages : Read(r, stage)
       PROVE  Spans'
  <2>1. UNCHANGED <<queue, pub, posted>>
    BY <1>12 DEF Read, Return, Swallow, Tick
  <2> QED BY <1>4, <2>1 DEF Of
<1>13. CASE Tick
  <2>1. UNCHANGED <<queue, pub, posted>>
    BY <1>13 DEF Tick
  <2> QED BY <1>4, <2>1 DEF Of
<1>14. CASE Gc
  BY <1>1, <1>4, <1>14, OfCompacted DEF Gc
<1> QED BY <1>6, <1>7, <1>8, <1>9, <1>10, <1>11, <1>12, <1>13, <1>14
    DEF Next, Send, Drain

\* A signal that may still be drained is no older than rows are kept.
LEMMA LiveSignals ==
    ASSUME Basis, Spans, NEW s \in Of(queue, "signal"), s.ends > now
    PROVE  ~Old(s) /\ ~Drops(s)
<1>1. s \in posted /\ s \in SignalRows
  BY DEF Basis, Numbered, Types
<1>2. s.ends <= s.ts + Keep
  BY <1>1 DEF Spans
<1>3. s.ends \in Nat /\ s.ts \in Nat /\ now \in Nat /\ Keep \in Nat
  BY <1>1, ConstantFacts DEF SignalRows, Basis, Types
<1>4. ~Old(s)
  BY <1>2, <1>3 DEF Old
<1>5. s.schema = "signal"
  BY DEF Of
<1> QED BY <1>4, <1>5 DEF Drops

\* So the receipts of such a signal stay as well.
LEMMA LiveReceipts ==
    ASSUME Basis, Spans, NEW s \in Of(queue, "signal"), s.ends > now,
           NEW d \in Of(queue, "delivery"), d.id = s.id
    PROVE  ~Drops(d)
<1>1. s.ts <= d.ts
  BY DEF Basis, Stamped
<1>2. s \in SignalRows /\ d \in Rows
  <2>1. \A row \in ToSet(queue) : row \in Rows
    BY DEF Basis, Types, ToSet
  <2> QED BY <2>1 DEF Basis, Numbered, Types, Of
<1>3. s.ts \in Nat /\ d.ts \in Nat /\ now \in Nat /\ Keep \in Nat
  BY <1>2, ConstantFacts
     DEF Basis, Types, Rows, SignalRows, WatchRows, ReceiptRows
<1>4. ~Old(s)
  BY LiveSignals
<1>5. ~Old(d)
  BY <1>1, <1>3, <1>4 DEF Old
<1>6. d.schema = "delivery"
  BY DEF Of
<1> QED BY <1>5, <1>6 DEF Drops

LEMMA SamePending ==
    ASSUME Basis, Spans, Gc, NEW a
    PROVE  Pending(queue', a, now) = Pending(queue, a, now)
<1>1. /\ Of(queue', "signal") = {row \in Of(queue, "signal") : ~Drops(row)}
      /\ Of(queue', "delivery") = {row \in Of(queue, "delivery") : ~Drops(row)}
  <2>1. queue \in Seq(Rows) /\ queue' = Compacted
    BY DEF Basis, Types, Gc
  <2>2. ToSet(queue') = {row \in ToSet(queue) : ~Drops(row)}
    BY <2>1, CompactedFacts
  <2> QED BY <2>2 DEF Of
<1>2. ASSUME NEW s \in Of(queue, "signal"), s.ends > now
      PROVE  s \in Of(queue', "signal") /\ (Seen(queue', s, a) <=> Seen(queue, s, a))
  <2>1. s \in Of(queue', "signal")
    BY <1>1, <1>2, LiveSignals
  <2>2. \A d : d.id = s.id => (d \in Of(queue', "delivery") <=> d \in Of(queue, "delivery"))
    BY <1>1, <1>2, LiveReceipts
  <2> QED BY <2>1, <2>2 DEF Seen
<1>3. \A s : s \in Pending(queue', a, now) <=> s \in Pending(queue, a, now)
  BY <1>1, <1>2 DEF Pending
<1> QED BY <1>3

\* The last row of a watch leaves the file last.
LEMMA SameWatches ==
    ASSUME Basis, Spans, Gc
    PROVE  ActiveWatches(queue', now) = ActiveWatches(queue, now)
<1>1. /\ queue \in Seq(Rows) /\ queue' \in Seq(Rows) /\ queue' = Compacted
      /\ Len(queue) \in Nat /\ Len(queue') \in Nat
  BY CompactedFacts DEF Basis, Types, Gc
<1>2. PICK f \in [1..Len(queue') -> 1..Len(queue)] :
         /\ \A k \in 1..Len(queue') : queue'[k] = queue[f[k]] /\ ~Drops(queue[f[k]])
         /\ \A k, l \in 1..Len(queue') : k < l => f[k] < f[l]
         /\ \A i \in 1..Len(queue) : ~Drops(queue[i]) => \E k \in 1..Len(queue') : f[k] = i
  BY <1>1, CompactedFacts
<1> SUFFICES ASSUME NEW w \in Watches
             PROVE  w \in ActiveWatches(queue', now) <=> w \in ActiveWatches(queue, now)
  BY DEF ActiveWatches
<1> DEFINE Final(q, i) == /\ OfWatch(q[i], w) /\ q[i].ends > now
                          /\ \A j \in 1..Len(q) : j > i => ~OfWatch(q[j], w)
<1>3. /\ w \in ActiveWatches(queue, now) <=> \E i \in 1..Len(queue) : Final(queue, i)
      /\ w \in ActiveWatches(queue', now) <=> \E k \in 1..Len(queue') : Final(queue', k)
  BY <1>1, ActiveFacts
<1>4. \A i \in 1..Len(queue) : OfWatch(queue[i], w) =>
          /\ queue[i].ts \in Nat /\ queue[i].ends \in Nat
          /\ queue[i].ends <= queue[i].ts + Keep
          /\ queue[i].schema = "watch"
  <2>1. \A i \in 1..Len(queue) : queue[i] \in ToSet(queue) /\ queue[i] \in Rows
    BY <1>1 DEF ToSet
  <2> QED BY <2>1 DEF Spans, Of, OfWatch, Rows, WatchRows, SignalRows, ReceiptRows
<1>5. now \in Nat /\ Keep \in Nat
  BY ConstantFacts DEF Basis, Types
<1>6. ASSUME NEW i \in 1..Len(queue), Final(queue, i)
      PROVE  \E k \in 1..Len(queue') : Final(queue', k)
  <2>1. ~Drops(queue[i])
    <3>1. queue[i].schema = "watch" /\ ~(queue[i].ends <= now)
      BY <1>4, <1>5, <1>6
    <3> QED BY <3>1 DEF Drops
  <2>2. PICK k \in 1..Len(queue') : f[k] = i
    BY <1>2, <2>1
  <2>3. \A l \in 1..Len(queue') : l > k => f[l] \in 1..Len(queue) /\ f[l] > i /\ i \in Nat
    BY <1>2, <2>2
  <2> QED BY <1>2, <1>6, <2>2, <2>3
<1>7. ASSUME NEW k \in 1..Len(queue'), Final(queue', k)
      PROVE  \E i \in 1..Len(queue) : Final(queue, i)
  <2> DEFINE i == f[k]
  <2>1. i \in 1..Len(queue) /\ OfWatch(queue[i], w) /\ queue[i].ends > now
    BY <1>2, <1>7
  <2>2. ASSUME NEW j \in 1..Len(queue), j > i, OfWatch(queue[j], w)
        PROVE  FALSE
    <3>1. queue[i].ts <= queue[j].ts
      BY <1>4, <2>1, <2>2 DEF Basis, Stamped, OfWatch
    <3>2. ~Drops(queue[j])
      <4>1. /\ queue[i].ts \in Nat /\ queue[j].ts \in Nat /\ queue[i].ends \in Nat
            /\ queue[i].ends <= queue[i].ts + Keep /\ queue[i].ends > now
            /\ queue[j].schema = "watch"
        BY <1>4, <2>1, <2>2
      <4> HIDE DEF i
      <4>2. ~Old(queue[j])
        BY <1>5, <3>1, <4>1 DEF Old
      <4> QED BY <4>1, <4>2 DEF Drops
    <3>3. PICK l \in 1..Len(queue') : f[l] = j
      BY <1>2, <3>2
    <3>4. l > k
      <4>1. l = k \/ l < k \/ l > k
        OBVIOUS
      <4>2. l < k => f[l] < f[k]
        BY <1>2
      <4> QED BY <2>1, <2>2, <3>3, <4>1, <4>2
    <3>5. OfWatch(queue'[l], w)
      BY <1>2, <2>2, <3>3
    <3> QED BY <1>7, <3>4, <3>5
  <2> QED BY <2>1, <2>2
<1> QED BY <1>3, <1>6, <1>7

LEMMA OnlyCompactionShrinks ==
    ASSUME Basis, Next, Len(queue') < Len(queue)
    PROVE  Gc
<1>1. Types /\ Numbered /\ queue \in Seq(Rows) /\ Len(queue) \in Nat
  BY DEF Basis, Types
<1>2. WatchRows \subseteq Rows /\ SignalRows \subseteq Rows /\ ReceiptRows \subseteq Rows
  BY DEF Rows
<1>3. ASSUME NEW row \in Rows, Written(row) PROVE FALSE
  <2>1. queue' \in Seq(Rows) /\ Len(queue') >= Len(queue)
    BY <1>1, <1>3, OfWritten
  <2>2. Len(queue') \in Nat
    BY <2>1
  <2> QED BY <1>1, <2>1, <2>2
<1>4. ASSUME NEW c \in Watchers, NEW w \in Watches,
             Unwatch(c, w) \/ \E ttl \in Ttls : Watch(c, w, ttl)
      PROVE  FALSE
  <2>1. PICK row \in WatchRows : Written(row)
    BY <1>1, <1>4, WatchRow, UnwatchRow
  <2> QED BY <1>2, <1>3, <2>1
<1>5. ASSUME queue' = queue PROVE FALSE
  BY <1>1, <1>5
<1>6. ASSUME NEW p \in Publishers, Publish(p) \/ Send(p) PROVE FALSE
  <2>1. ASSUME Publish(p) \/ \E t \in pub[p].todo : Check(p, t) PROVE FALSE
    BY <1>5, <2>1 DEF Publish, Begin, Check
  <2>2. ASSUME Post(p) PROVE FALSE
    <3>1. PICK s \in SignalRows : Written(s)
      BY <1>1, <2>2, PostRow
    <3> QED BY <1>2, <1>3, <3>1
  <2> QED BY <1>6, <2>1, <2>2 DEF Send
<1>7. ASSUME NEW c \in Stoppers, NEW to \in Stopped, NEW ttl \in Ttls, Interrupt(c, to, ttl)
      PROVE  FALSE
  <2>1. PICK s \in SignalRows : Written(s)
    BY <1>1, <1>7, InterruptRow
  <2> QED BY <1>2, <1>3, <2>1
<1>8. ASSUME NEW r \in Readers, Drain(r) \/ Swallow(r) PROVE FALSE
  <2>1. ASSUME Receipt(r) PROVE FALSE
    <3>1. PICK d \in ReceiptRows : Written(d)
      BY <1>1, <2>1, ReceiptRow
    <3> QED BY <1>2, <1>3, <3>1
  <2>2. ASSUME Return(r) \/ Swallow(r) \/ \E stage \in Stages : Read(r, stage) PROVE FALSE
    BY <1>5, <2>2 DEF Return, Swallow, Read
  <2> QED BY <1>8, <2>1, <2>2 DEF Drain
<1>9. CASE Tick
  BY <1>5, <1>9 DEF Tick
<1> QED BY <1>4, <1>6, <1>7, <1>8, <1>9 DEF Next

LEMMA SpansKept ==
    /\ ShortLived /\ Init => Basis /\ Spans
    /\ ShortLived /\ Basis /\ Spans /\ [Next]_vars => (Basis /\ Spans)'
<1>1. Init => Basis /\ Spans
  BY InitBasis, InitSpans
<1>2. ASSUME ShortLived, Basis, Spans, [Next]_vars
      PROVE  (Basis /\ Spans)'
  <2>1. Basis'
    BY <1>2, BasisStep
  <2>2. CASE UNCHANGED vars
    BY <1>2, <2>1, <2>2 DEF vars, Spans, Of
  <2>3. CASE Next
    BY <1>2, <2>1, <2>3, SpansStep
  <2> QED BY <1>2, <2>1, <2>2, <2>3
<1> QED BY <1>1, <1>2

\* gc() leaves out rows nobody can notice the absence of, as long as no signal
\* and no watch was to live longer than rows are kept: what is pending, for
\* whomever, and which watches are active is as it was.
THEOREM CompactionIdle ==
    ASSUME ShortLived
    PROVE  Spec => CompactIdle
<1> DEFINE Quiet ==
        Len(queue') < Len(queue) =>
            /\ \A a \in Addresses : Pending(queue', a, now) = Pending(queue, a, now)
            /\ ActiveWatches(queue', now) = ActiveWatches(queue, now)
<1>1. Init => Basis /\ Spans
  BY SpansKept
<1>2. Basis /\ Spans /\ [Next]_vars => (Basis /\ Spans)'
  BY SpansKept
<1>3. Basis /\ Spans /\ [Next]_vars => [Quiet]_vars
  <2> SUFFICES ASSUME Basis, Spans, Next, Len(queue') < Len(queue)
               PROVE  Quiet
    OBVIOUS
  <2>1. Gc
    BY OnlyCompactionShrinks
  <2> QED BY <2>1, SamePending, SameWatches
<1>4. CompactIdle <=> [][Quiet]_vars
  BY DEF CompactIdle
<1> HIDE DEF Quiet
<1> QED BY <1>1, <1>2, <1>3, <1>4, PTL DEF Spec

-----------------------------------------------------------------------------
(* Drains.                                                                 *)

\* What a step does to the signals that may still be drained, and to their
\* receipts.
LEMMA QueueMoves ==
    ASSUME Basis, Spans, Next
    PROVE  /\ now' \in Nat /\ now' >= now /\ sent' \in Nat /\ sent' >= sent
           /\ \A s \in Of(queue, "signal")' : s \in Of(queue, "signal") \/ s.id = sent + 1
           /\ \A s \in Of(queue, "signal") : s.ends > now =>
                 /\ s \in Of(queue, "signal")'
                 /\ \A d \in Of(queue, "delivery") : d.id = s.id => d \in Of(queue, "delivery")'
           /\ astray \subseteq astray'
           /\ posted' \subseteq posted \cup Of(queue, "signal")' \cup astray'
           /\ \/ Of(queue, "delivery")' \subseteq Of(queue, "delivery")
              \/ \E r \in Readers : Receipt(r)
<1> DEFINE Goal ==
           /\ now' \in Nat /\ now' >= now /\ sent' \in Nat /\ sent' >= sent
           /\ \A s \in Of(queue, "signal")' : s \in Of(queue, "signal") \/ s.id = sent + 1
           /\ \A s \in Of(queue, "signal") : s.ends > now =>
                 /\ s \in Of(queue, "signal")'
                 /\ \A d \in Of(queue, "delivery") : d.id = s.id => d \in Of(queue, "delivery")'
           /\ astray \subseteq astray'
           /\ posted' \subseteq posted \cup Of(queue, "signal")' \cup astray'
           /\ \/ Of(queue, "delivery")' \subseteq Of(queue, "delivery")
              \/ \E r \in Readers : Receipt(r)
<1>1. Types /\ Numbered /\ queue \in Seq(Rows) /\ now \in Nat /\ sent \in Nat
  BY DEF Basis, Types
<1>2. WatchRows \subseteq Rows /\ SignalRows \subseteq Rows /\ ReceiptRows \subseteq Rows
  BY DEF Rows
<1>3. ASSUME UNCHANGED <<sent, posted>>, astray \subseteq astray', now' \in Nat, now' >= now,
             Of(queue, "signal")' = Of(queue, "signal"),
             Of(queue, "delivery")' = Of(queue, "delivery")
      PROVE  Goal
  BY <1>1, <1>3
<1>4. ASSUME NEW s \in SignalRows, s.id = sent + 1, Written(s), now' = now,
             sent' = sent + 1, posted' = posted \cup {s}
      PROVE  Goal
  <2>1. /\ Of(queue, "signal") \subseteq Of(queue, "signal")'
        /\ Of(queue, "signal")' \subseteq Of(queue, "signal") \cup {s}
        /\ s \in Of(queue, "signal")' \cup astray' /\ astray \subseteq astray'
        /\ Of(queue, "delivery")' = Of(queue, "delivery")
    BY <1>1, <1>2, <1>4, OfWritten DEF SignalRows
  <2> QED BY <1>1, <1>4, <2>1
<1>5. ASSUME NEW c \in Watchers, NEW w \in Watches,
             Unwatch(c, w) \/ \E ttl \in Ttls : Watch(c, w, ttl)
      PROVE  Goal
  <2>1. PICK row \in WatchRows : Written(row)
    BY <1>1, <1>5, WatchRow, UnwatchRow
  <2>2. /\ Of(queue, "signal")' = Of(queue, "signal")
        /\ Of(queue, "delivery")' = Of(queue, "delivery") /\ astray \subseteq astray'
    BY <1>1, <1>2, <2>1, OfWritten DEF WatchRows
  <2>3. UNCHANGED <<sent, posted, now>>
    BY <1>5 DEF Watch, Unwatch
  <2> QED BY <1>1, <1>3, <2>2, <2>3
<1>6. ASSUME UNCHANGED <<queue, astray, sent, posted>>, now' \in {now, now + 1}
      PROVE  Goal
  <2>1. now' \in Nat /\ now' >= now
    BY <1>1, <1>6
  <2> QED BY <1>3, <1>6, <2>1 DEF Of
<1>7. ASSUME NEW p \in Publishers, Publish(p) \/ \E t \in pub[p].todo : Check(p, t)
      PROVE  Goal
  <2>1. UNCHANGED <<queue, astray, sent, posted, now>>
    BY <1>7 DEF Publish, Begin, Check
  <2> QED BY <1>6, <2>1
<1>8. ASSUME NEW p \in Publishers, Post(p)
      PROVE  Goal
  <2>1. PICK s \in SignalRows : /\ s.id = sent + 1 /\ Written(s)
                                /\ sent' = sent + 1 /\ posted' = posted \cup {s}
    BY <1>1, <1>8, PostRow
  <2>2. now' = now
    BY <1>8 DEF Post
  <2> QED BY <1>4, <2>1, <2>2
<1>9. ASSUME NEW c \in Stoppers, NEW to \in Stopped, NEW ttl \in Ttls, Interrupt(c, to, ttl)
      PROVE  Goal
  <2>1. PICK s \in SignalRows : /\ s.id = sent + 1 /\ Written(s)
                                /\ sent' = sent + 1 /\ posted' = posted \cup {s}
    BY <1>1, <1>9, InterruptRow
  <2>2. now' = now
    BY <1>9 DEF Interrupt
  <2> QED BY <1>4, <2>1, <2>2
<1>10. ASSUME NEW r \in Readers, Receipt(r)
       PROVE  Goal
  <2>1. PICK d \in ReceiptRows : Written(d)
    BY <1>1, <1>10, ReceiptRow
  <2>2. /\ Of(queue, "signal")' = Of(queue, "signal")
        /\ Of(queue, "delivery") \subseteq Of(queue, "delivery")' /\ astray \subseteq astray'
    BY <1>1, <1>2, <2>1, OfWritten DEF ReceiptRows
  <2>3. UNCHANGED <<now, sent, posted>>
    BY <1>10 DEF Receipt
  <2> QED BY <1>1, <1>10, <2>2, <2>3
<1>11. ASSUME NEW r \in Readers, (\E stage \in Stages : Read(r, stage)) \/ Return(r) \/ Swallow(r)
       PROVE  Goal
  <2>1. UNCHANGED <<queue, astray, sent, posted, now>>
    BY <1>11 DEF Read, Return, Swallow
  <2> QED BY <1>6, <2>1
<1>12. CASE Gc
  <2>1. /\ Of(queue, "signal")' = {row \in Of(queue, "signal") : ~Drops(row)}
        /\ Of(queue, "delivery")' = {row \in Of(queue, "delivery") : ~Drops(row)}
    BY <1>1, <1>12, OfCompacted DEF Gc
  <2>2. UNCHANGED <<now, sent, posted, astray>>
    BY <1>12 DEF Gc
  <2> QED BY <1>1, <2>1, <2>2, LiveSignals, LiveReceipts
<1>13. CASE Tick
  <2>1. UNCHANGED <<queue, astray, sent, posted>> /\ now' = now + 1
    BY <1>13 DEF Tick
  <2> QED BY <1>6, <2>1
<1>14. Goal
  BY <1>5, <1>7, <1>8, <1>9, <1>10, <1>11, <1>12, <1>13 DEF Next, Send, Drain
<1> QED BY <1>14

LEMMA DrainMoves ==
    ASSUME Next
    PROVE  \/ UNCHANGED <<rd, shown, unseen>>
           \/ \E r \in Readers, stage \in Stages : Read(r, stage)
           \/ \E r \in Readers : Receipt(r) \/ Return(r) \/ Swallow(r)
<1>1. ASSUME NEW c \in Watchers, NEW w \in Watches,
             Unwatch(c, w) \/ \E ttl \in Ttls : Watch(c, w, ttl)
      PROVE  UNCHANGED <<rd, shown, unseen>>
  BY <1>1 DEF Watch, Unwatch
<1>2. ASSUME NEW p \in Publishers, Publish(p) \/ Send(p)
      PROVE  UNCHANGED <<rd, shown, unseen>>
  BY <1>2 DEF Publish, Begin, Send, Post, Check
<1>3. ASSUME NEW c \in Stoppers, NEW to \in Stopped, NEW ttl \in Ttls, Interrupt(c, to, ttl)
      PROVE  UNCHANGED <<rd, shown, unseen>>
  BY <1>3 DEF Interrupt
<1>4. ASSUME Gc
      PROVE  UNCHANGED <<rd, shown, unseen>>
  BY <1>4 DEF Gc
<1>5. CASE Tick
  BY <1>5 DEF Tick
<1> QED BY <1>1, <1>2, <1>3, <1>4, <1>5 DEF Next, Drain

\* What a drain that reads, writes a receipt, or ends does.
LEMMA ReadMoves ==
    ASSUME Types, Numbered, NEW r \in Readers, NEW stage, Read(r, stage)
    PROVE  /\ \A x \in Readers : x # r => rd'[x] = rd[x]
           /\ rd[r] = NoDrain /\ rd'[r].done = 0
           /\ rd'[r].picks \in Seq(SignalRows)
           /\ \A i \in 1..Len(rd'[r].picks) : rd'[r].picks[i] \in Pending(queue, AddrOf[r], now)
           /\ shown' = shown /\ unseen' = unseen /\ now' = now
<1> DEFINE picks == Picks(AddrOf[r], stage)
<1>1. /\ picks \in Seq(SignalRows)
      /\ \A i \in 1..Len(picks) : picks[i] \in Pending(queue, AddrOf[r], now)
  BY PicksFacts
<1>2. /\ rd' = [rd EXCEPT ![r] = [stage |-> stage, picks |-> picks, done |-> 0]]
      /\ rd[r] = NoDrain /\ shown' = shown /\ unseen' = unseen /\ now' = now
  BY DEF Read
<1> HIDE DEF picks
<1>3. rd'[r].picks = picks /\ rd'[r].done = 0 /\ \A x \in Readers : x # r => rd'[x] = rd[x]
  BY <1>2 DEF Types
<1> QED BY <1>1, <1>2, <1>3

LEMMA ReceiptMoves ==
    ASSUME Types, Numbered, NEW r \in Readers, Receipt(r)
    PROVE  /\ \A x \in Readers : rd'[x].picks = rd[x].picks
           /\ \A x \in Readers : x # r => rd'[x].done = rd[x].done
           /\ rd'[r].done = rd[r].done + 1 /\ rd'[r].done \in 1..Len(rd[r].picks)
           /\ shown' = shown /\ unseen' = unseen
<1>1. rd[r].done + 1 \in 1..Len(rd[r].picks) /\ rd' = [rd EXCEPT ![r].done = @ + 1]
  BY ReceiptRow
<1> QED BY <1>1 DEF Types, Receipt

LEMMA EndMoves ==
    ASSUME Types, Numbered, NEW r \in Readers, Return(r) \/ Swallow(r)
    PROVE  /\ \A x \in Readers : x # r => rd'[x] = rd[x]
           /\ Len(rd'[r].picks) = 0 /\ rd'[r].done = 0 /\ rd'[r].picks = <<>>
           /\ Len(rd[r].picks) = rd[r].done
<1>1. rd' = [rd EXCEPT ![r] = NoDrain] /\ Len(rd[r].picks) = rd[r].done
  BY DEF Return, Swallow
<1> QED BY <1>1 DEF Types, NoDrain

LEMMA SettlingStep ==
    ASSUME Basis, Spans, Settling, Next
    PROVE  Settling'
<1>1. /\ Types /\ Numbered /\ queue \in Seq(Rows) /\ now \in Nat /\ sent \in Nat
  BY DEF Basis, Types
<1>2. /\ now' \in Nat /\ now' >= now /\ sent' \in Nat /\ sent' >= sent
      /\ \A s \in Of(queue, "signal")' : s \in Of(queue, "signal") \/ s.id = sent + 1
      /\ \A s \in Of(queue, "signal") : s.ends > now =>
             \A d \in Of(queue, "delivery") : d.id = s.id => d \in Of(queue, "delivery")'
      /\ astray \subseteq astray'
  BY <1>1, QueueMoves
\* A receipt that settles a signal goes on doing so.
<1>3. ASSUME NEW id \in 1..sent, NEW a, Receipted(queue, astray, now, id, a)
      PROVE  Receipted(queue', astray', now', id, a)
  <2> SUFFICES ASSUME NEW s \in Of(queue, "signal")', s.id = id, s.ends > now'
               PROVE  \/ \E d \in Of(queue, "delivery")' : d.id = id /\ d.addr = a
                      \/ \E d \in astray' : d.schema = "delivery" /\ d.id = id /\ d.addr = a
    BY DEF Receipted
  <2>1. s \in Of(queue, "signal")
    BY <1>1, <1>2
  <2>2. s.ends \in Nat
    BY <1>1, <2>1 DEF Numbered, Types, SignalRows
  <2>3. s.ends > now
    BY <1>1, <1>2, <2>2
  <2>4. \/ \E d \in Of(queue, "delivery") : d.id = id /\ d.addr = a
        \/ \E d \in astray : d.schema = "delivery" /\ d.id = id /\ d.addr = a
    BY <1>3, <2>1, <2>3 DEF Receipted
  <2> QED BY <1>2, <2>1, <2>3, <2>4
<1>4. \A r \in Readers : \A i \in 1..rd[r].done :
          /\ i \in 1..Len(rd[r].picks)
          /\ rd[r].picks[i].id \in 1..sent
          /\ Receipted(queue', astray', now', rd[r].picks[i].id, AddrOf[r])
  <2> SUFFICES ASSUME NEW r \in Readers, NEW i \in 1..rd[r].done
               PROVE  /\ i \in 1..Len(rd[r].picks)
                      /\ rd[r].picks[i].id \in 1..sent
                      /\ Receipted(queue', astray', now', rd[r].picks[i].id, AddrOf[r])
    OBVIOUS
  <2>1. rd[r].done <= Len(rd[r].picks) /\ rd[r].done \in Nat /\ rd[r].picks \in Seq(SignalRows)
    BY <1>1 DEF Numbered, Types
  <2>2. i \in 1..Len(rd[r].picks)
    BY <2>1
  <2>3. rd[r].picks[i].id \in 1..sent
    BY <1>1, <2>2 DEF Numbered
  <2>4. Receipted(queue, astray, now, rd[r].picks[i].id, AddrOf[r])
    BY DEF Settling
  <2>5. Receipted(queue', astray', now', rd[r].picks[i].id, AddrOf[r])
    BY <1>3, <2>3, <2>4
  <2> QED BY <2>2, <2>3, <2>5
<1>5. \A x \in shown : x[1] \in 1..sent' /\ Receipted(queue', astray', now', x[1], x[2])
  BY <1>1, <1>2, <1>3 DEF Settling
<1>6. CASE UNCHANGED <<rd, shown, unseen>>
  BY <1>2, <1>4, <1>5, <1>6 DEF Settling
<1>7. ASSUME NEW r \in Readers, NEW stage \in Stages, Read(r, stage)
      PROVE  Settling'
  <2>1. /\ \A x \in Readers : x # r => rd'[x] = rd[x]
        /\ rd'[r].done = 0 /\ shown' = shown
    BY <1>1, <1>7, ReadMoves
  <2>2. ASSUME NEW x \in Readers, NEW i \in 1..rd'[x].done
        PROVE  Receipted(queue', astray', now', rd'[x].picks[i].id, AddrOf[x])
    BY <1>4, <2>1, <2>2
  <2> QED BY <1>2, <1>5, <2>1, <2>2 DEF Settling
<1>8. ASSUME NEW r \in Readers, Receipt(r)
      PROVE  Settling'
  <2>1. /\ \A x \in Readers : rd'[x].picks = rd[x].picks
        /\ \A x \in Readers : x # r => rd'[x].done = rd[x].done
        /\ rd'[r].done = rd[r].done + 1 /\ rd[r].done \in Nat
        /\ shown' = shown
    BY <1>1, <1>8, ReceiptMoves DEF Types
  <2>2. PICK d \in ReceiptRows : /\ d.id = rd[r].picks[rd[r].done + 1].id
                                 /\ d.addr = AddrOf[r] /\ Written(d)
    BY <1>1, <1>8, ReceiptRow
  <2>3. d.schema = "delivery" /\ d \in Of(queue, "delivery")' \cup astray'
    <3>1. d \in Rows /\ d.schema = "delivery"
      BY DEF Rows, ReceiptRows
    <3> QED BY <1>1, <2>2, <3>1, OfWritten
  <2>4. Receipted(queue', astray', now', d.id, d.addr)
    BY <2>3 DEF Receipted
  <2>5. ASSUME NEW x \in Readers, NEW i \in 1..rd'[x].done
        PROVE  Receipted(queue', astray', now', rd[x].picks[i].id, AddrOf[x])
    <3>1. i \in 1..rd[x].done \/ (x = r /\ i = rd[r].done + 1)
      BY <2>1
    <3>2. CASE x = r /\ i = rd[r].done + 1
      BY <2>2, <2>4, <3>2
    <3> QED BY <1>4, <3>1, <3>2
  <2> QED BY <1>2, <1>5, <2>1, <2>5 DEF Settling
<1>9. ASSUME NEW r \in Readers, Return(r) \/ Swallow(r)
      PROVE  Settling'
  <2>1. /\ \A x \in Readers : x # r => rd'[x] = rd[x]
        /\ rd'[r].done = 0 /\ Len(rd[r].picks) = rd[r].done
    BY <1>1, <1>9, EndMoves
  <2>2. \A x \in shown' : x \in shown \/ \E i \in 1..Len(rd[r].picks) :
                                            x = <<rd[r].picks[i].id, AddrOf[r]>>
    BY <1>9 DEF Return, Swallow, Taken
  <2>3. ASSUME NEW x \in shown'
        PROVE  x[1] \in 1..sent' /\ Receipted(queue', astray', now', x[1], x[2])
    <3>1. CASE x \in shown
      BY <1>5, <3>1
    <3>2. ASSUME NEW i \in 1..Len(rd[r].picks), x = <<rd[r].picks[i].id, AddrOf[r]>>
          PROVE  x[1] \in 1..sent' /\ Receipted(queue', astray', now', x[1], x[2])
      <4>1. /\ rd[r].picks[i].id \in 1..sent
            /\ Receipted(queue', astray', now', rd[r].picks[i].id, AddrOf[r])
        BY <1>4, <2>1
      <4>2. x[1] = rd[r].picks[i].id /\ x[2] = AddrOf[r]
        BY <3>2
      <4> QED BY <1>1, <1>2, <4>1, <4>2
    <3> QED BY <2>2, <3>1, <3>2
  <2> QED BY <1>2, <1>4, <2>1, <2>3 DEF Settling
<1> QED BY <1>6, <1>7, <1>8, <1>9, DrainMoves

\* Nothing shown is taken again.
LEMMA NothingTwice ==
    ASSUME Basis, Settling, Next, NEW r \in Readers, rd[r] = NoDrain,
           NEW i \in DOMAIN rd'[r].picks
    PROVE  ~ShownTo(rd'[r].picks[i], r)
<1>1. Types /\ Numbered
  BY DEF Basis
<1>2. DOMAIN rd[r].picks = {} /\ Len(rd[r].picks) = 0 /\ rd[r].done = 0
  BY DEF NoDrain
<1>3. rd'[r] # rd[r]
  BY <1>2
<1>4. ASSUME NEW x \in Readers, Receipt(x) \/ Return(x) \/ Swallow(x)
      PROVE  FALSE
  <2>1. CASE Receipt(x)
    BY <1>1, <1>2, <2>1, ReceiptMoves
  <2>2. CASE Return(x) \/ Swallow(x)
    <3>1. \A y \in Readers : y # x => rd'[y] = rd[y]
      BY <1>1, <2>2, EndMoves
    <3>2. x = r /\ DOMAIN rd'[x].picks = {}
      BY <1>1, <1>3, <2>2, <3>1, EndMoves
    <3> QED BY <3>2
  <2> QED BY <1>4, <2>1, <2>2
<1>5. PICK x \in Readers, stage \in Stages : Read(x, stage)
  BY <1>3, <1>4, DrainMoves
<1>6. x = r
  BY <1>1, <1>3, <1>5, ReadMoves
<1> DEFINE s == rd'[r].picks[i]
<1>7. s \in Pending(queue, AddrOf[r], now)
  <2>1. /\ rd'[r].picks \in Seq(SignalRows)
        /\ \A k \in 1..Len(rd'[r].picks) : rd'[r].picks[k] \in Pending(queue, AddrOf[r], now)
    BY <1>1, <1>5, <1>6, ReadMoves
  <2> QED BY <2>1
<1> HIDE DEF s
<1>8. s \in Of(queue, "signal") /\ s.ends > now /\ ~Seen(queue, s, AddrOf[r])
  BY <1>7 DEF Pending
<1>9. ASSUME NEW a \in Addresses, <<s.id, a>> \in shown, s.addr = Star => a = AddrOf[r],
             ~\E d \in astray : d.schema = "delivery" /\ d.id = s.id /\ d.addr = a
      PROVE  FALSE
  <2>1. Receipted(queue, astray, now, s.id, a)
    BY <1>9 DEF Settling
  <2>2. PICK d \in Of(queue, "delivery") : d.id = s.id /\ d.addr = a
    BY <1>8, <1>9, <2>1 DEF Receipted
  <2> QED BY <1>8, <1>9, <2>2 DEF Seen
<1>10. ~ShownTo(s, r)
  BY <1>9 DEF ShownTo
<1> QED BY <1>10 DEF s

LEMMA SettlingKept ==
    ASSUME ShortLived
    PROVE  /\ Init => Basis /\ Spans /\ Settling
           /\ Basis /\ Spans /\ Settling /\ [Next]_vars => (Basis /\ Spans /\ Settling)'
<1>1. Init => Settling
  BY DEF Init, Settling, NoDrain
<1>2. ASSUME Basis, Spans, Settling, [Next]_vars
      PROVE  Settling'
  <2>1. CASE UNCHANGED vars
    BY <1>2, <2>1 DEF vars, Settling
  <2>2. CASE Next
    BY <1>2, <2>2, SettlingStep
  <2> QED BY <1>2, <2>1, <2>2
<1> QED BY <1>1, <1>2, SpansKept

\* Two sessions may drain at once, and both may hold a signal; but as long as
\* nothing lives longer than rows are kept, no drain that begins takes what was
\* shown already, though the receipts that say so are compacted away; unless
\* the receipt was appended to the file that a compaction replaced.
THEOREM ShownOnce ==
    ASSUME ShortLived
    PROVE  Spec => NoRepeat
<1> DEFINE Fresh ==
        \A r \in Readers : rd[r] = NoDrain =>
            \A i \in DOMAIN rd'[r].picks : ~ShownTo(rd'[r].picks[i], r)
<1>1. Init => Basis /\ Spans /\ Settling
  BY SettlingKept
<1>2. Basis /\ Spans /\ Settling /\ [Next]_vars => (Basis /\ Spans /\ Settling)'
  BY SettlingKept
<1>3. Basis /\ Spans /\ Settling /\ [Next]_vars => [Fresh]_vars
  BY NothingTwice
<1>4. NoRepeat <=> [][Fresh]_vars
  BY DEF NoRepeat
<1> HIDE DEF Fresh
<1> QED BY <1>1, <1>2, <1>3, <1>4, PTL DEF Spec

-----------------------------------------------------------------------------
(* Nothing is lost.                                                        *)

LEMMA HoldingStep ==
    ASSUME Basis, Spans, Holding, Next
    PROVE  Holding'
<1>1. /\ Types /\ Numbered /\ queue \in Seq(Rows) /\ now \in Nat /\ sent \in Nat
  BY DEF Basis, Types
<1>2. /\ now' \in Nat /\ now' >= now
      /\ \A s \in Of(queue, "signal") : s.ends > now => s \in Of(queue, "signal")'
      /\ astray \subseteq astray'
      /\ posted' \subseteq posted \cup Of(queue, "signal")' \cup astray'
      /\ \/ Of(queue, "delivery")' \subseteq Of(queue, "delivery")
         \/ \E r \in Readers : Receipt(r)
  BY <1>1, QueueMoves
<1>3. \A s \in posted' : s.ends > now' => s \in Of(queue, "signal")' \cup astray'
  <2> SUFFICES ASSUME NEW s \in posted', s.ends > now', s \in posted
               PROVE  s \in Of(queue, "signal")' \cup astray'
    BY <1>2
  <2>1. s.ends \in Nat
    BY <1>1 DEF Types, SignalRows
  <2>2. s.ends > now
    BY <1>1, <1>2, <2>1
  <2> QED BY <1>2, <2>2 DEF Holding
\* Who has a signal in hand, or had it, goes on doing so.
<1>4. ASSUME \A x \in Readers : \A id : Handed(id, x) => Handed(id, x)',
             Of(queue, "delivery")' \subseteq Of(queue, "delivery")
      PROVE  Holding'
  BY <1>3, <1>4 DEF Holding
<1>5. CASE UNCHANGED <<rd, shown, unseen>>
  <2>1. ~\E r \in Readers : Receipt(r)
    BY <1>1, <1>5, ReceiptMoves DEF Types
  <2> QED BY <1>2, <1>4, <1>5, <2>1 DEF Handed, Holding
<1>6. ASSUME NEW r \in Readers, NEW stage \in Stages, Read(r, stage)
      PROVE  Holding'
  <2>1. /\ \A x \in Readers : x # r => rd'[x] = rd[x]
        /\ Len(rd[r].picks) = 0 /\ shown' = shown /\ unseen' = unseen
    BY <1>1, <1>6, ReadMoves DEF NoDrain
  <2>2. queue' = queue
    BY <1>6 DEF Read
  <2>3. \A x \in Readers : \A id : Handed(id, x) => Handed(id, x)'
    BY <2>1 DEF Handed
  <2> QED BY <1>4, <2>2, <2>3 DEF Of
<1>7. ASSUME NEW r \in Readers, Receipt(r)
      PROVE  Holding'
  <2>1. /\ \A x \in Readers : rd'[x].picks = rd[x].picks
        /\ rd[r].done + 1 \in 1..Len(rd[r].picks) /\ shown' = shown /\ unseen' = unseen
    BY <1>1, <1>7, ReceiptMoves
  <2>2. PICK d \in ReceiptRows : /\ d.id = rd[r].picks[rd[r].done + 1].id
                                 /\ d.addr = AddrOf[r] /\ Written(d)
    BY <1>1, <1>7, ReceiptRow
  <2>3. Of(queue, "delivery")' \subseteq Of(queue, "delivery") \cup {d}
    <3>1. d \in Rows /\ d.schema = "delivery"
      BY DEF Rows, ReceiptRows
    <3> QED BY <1>1, <2>2, <3>1, OfWritten
  <2>4. \A x \in Readers : \A id : Handed(id, x) => Handed(id, x)'
    BY <2>1 DEF Handed
  <2>5. Handed(d.id, r)'
    BY <2>1, <2>2 DEF Handed
  <2> QED BY <1>3, <2>1, <2>2, <2>3, <2>4, <2>5 DEF Holding
\* What a drain had in hand when it ended was shown, or not.
<1>8. ASSUME NEW r \in Readers, Return(r) \/ Swallow(r)
      PROVE  Holding'
  <2>1. /\ \A x \in Readers : x # r => rd'[x] = rd[x]
        /\ Len(rd'[r].picks) = 0
    BY <1>1, <1>8, EndMoves
  <2>2. /\ shown \cup unseen \subseteq shown' \cup unseen' /\ queue' = queue
        /\ \A i \in 1..Len(rd[r].picks) :
              <<rd[r].picks[i].id, AddrOf[r]>> \in shown' \cup unseen'
    <3>1. \A i \in 1..Len(rd[r].picks) : i \in Int
      OBVIOUS
    <3>2. Room \in Int
      BY ConstantFacts
    <3>3. CASE Return(r)
      <4>1. \A i \in 1..Len(rd[r].picks) : i =< Room \/ i > Room
        BY <3>1, <3>2
      <4> QED BY <3>3, <4>1 DEF Return, Taken
    <3>4. CASE Swallow(r)
      BY <3>4 DEF Swallow, Taken
    <3> QED BY <1>8, <3>3, <3>4
  <2>3. ASSUME NEW x \in Readers, NEW id, Handed(id, x)
        PROVE  Handed(id, x)'
    BY <2>1, <2>2, <2>3 DEF Handed
  <2> QED BY <1>4, <2>2, <2>3 DEF Of
<1> QED BY <1>5, <1>6, <1>7, <1>8, DrainMoves

LEMMA NothingLost ==
    ASSUME Basis, Holding
    PROVE  NoSignalLost
<1> SUFFICES ASSUME NEW s \in posted, NEW r \in Readers, s.addr \in Reach(AddrOf[r]),
                    s.ends > now, s \notin Pending(queue, AddrOf[r], now) \cup astray
             PROVE  Arriving(s, r)
  BY DEF NoSignalLost
<1>1. s \in Of(queue, "signal")
  BY DEF Holding
<1>2. Seen(queue, s, AddrOf[r])
  BY <1>1 DEF Pending
<1>3. PICK d \in Of(queue, "delivery") : d.id = s.id /\ (s.addr = Star => d.addr = AddrOf[r])
  BY <1>2 DEF Seen
<1>4. PICK x \in Readers : d.addr = AddrOf[x] /\ Handed(s.id, x)
  BY <1>3 DEF Holding
<1>5. ASSUME NEW i \in 1..Len(rd[x].picks), rd[x].picks[i].id = s.id
      PROVE  s \in ToSet(rd[x].picks)
  <2>1. rd[x].picks[i] \in posted /\ rd[x].picks \in Seq(SignalRows)
    BY DEF Basis, Numbered, Types
  <2>2. rd[x].picks[i] = s
    BY <1>5, <2>1 DEF Basis, Numbered
  <2> QED BY <2>1, <2>2 DEF ToSet
<1>6. s \in ToSet(rd[x].picks) \/ <<s.id, AddrOf[x]>> \in shown \cup unseen
  BY <1>4, <1>5 DEF Handed
<1> QED BY <1>3, <1>4, <1>6 DEF Arriving

\* "Two processes draining at once cannot lose a signal between them", nor
\* can a compaction that meets no append: as long as nothing lives longer than
\* rows are kept, until it expires a queued signal is waiting for each of its
\* readers, in the hands of one, or was drained.  The ways to lose it are three:
\* its append went to a file that a compaction replaced (astray), the text it
\* came in was cut before it, or a call of ctx itself drained it (unseen).
THEOREM SignalsKept ==
    ASSUME ShortLived
    PROVE  Spec => []NoSignalLost
<1>1. Init => Basis /\ Spans
  BY SpansKept
<1>2. Basis /\ Spans /\ [Next]_vars => (Basis /\ Spans)'
  BY SpansKept
<1>3. Init => Holding
  <2> SUFFICES ASSUME Init PROVE Holding
    OBVIOUS
  <2>1. Of(queue, "delivery") = {}
    BY DEF Init, Of, ToSet
  <2> QED BY <2>1 DEF Init, Holding, NoDrain
<1>4. Basis /\ Spans /\ Holding /\ [Next]_vars => Holding'
  <2> SUFFICES ASSUME Basis, Spans, Holding, [Next]_vars PROVE Holding'
    OBVIOUS
  <2>1. CASE UNCHANGED vars
    BY <2>1 DEF vars, Holding, Handed, Of
  <2>2. CASE Next
    BY <2>2, HoldingStep
  <2> QED BY <2>1, <2>2
<1>5. Basis /\ Holding => NoSignalLost
  BY NothingLost
<1> QED BY <1>1, <1>2, <1>3, <1>4, <1>5, PTL DEF Spec
=============================================================================
