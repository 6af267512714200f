----------------------------- MODULE FileProofs -----------------------------
(***************************************************************************)
(* Proofs about the two components that write files others write too:      *)
(* AppendLog, whose writers take a lock, and EditTransactions, whose       *)
(* applies compare before they rename.                                     *)
(*                                                                         *)
(* The first part is about AppendLog, for any number of writers and rows   *)
(* and any length of a row.  ReturnedReadable is not inductive: that a     *)
(* reader keeps seeing a row depends on what the writer in the critical    *)
(* section has written so far and on what it found at the end of the file. *)
(* IndInv says just that.                                                  *)
(*                                                                         *)
(* The second part is about EditTransactions, for any files, any number of *)
(* applies with any plans, and any number of editors' changes and deaths.  *)
(* It begins with what a plan makes of a content: the replacements from    *)
(* the bottom up are shown to be the content with each span replaced, by   *)
(* way of the sequences that are left from each line on.  Of the states,   *)
(* Locals says where each apply stands, Windows that between a compare and *)
(* its rename the file is what it was compared with, and Marks whose lines *)
(* may be where.                                                           *)
(***************************************************************************)
EXTENDS AppendLog, EditTransactions, FiniteSetTheorems, SequenceTheorems,
        WellFoundedInduction, TLAPS

\* Only the holder of the lock is in the critical section, and a writer that
\* is inside append() has a row to write.
LockInv ==
    \A p \in Procs :
        /\ pc[p] \in {"locked", "writing"} => lock = p
        /\ pc[p] # "idle" => row[p] \in Rows

\* Where the line of p's row begins once its first piece is written.
LineOf(p) == Len(file) - next[p] + 2

\* What p has written so far: nothing yet behind a torn tail, or the first
\* pieces of its row at the start of a line.
TailInv ==
    \A p \in Procs :
        /\ pc[p] = "writing" /\ next[p] = 0 => TornTail(file)
        /\ pc[p] = "writing" /\ next[p] >= 1 =>
              /\ LineOf(p) >= 1
              /\ LineOf(p) > 1 => file[LineOf(p) - 1] = NL
              /\ \A k \in 1..Pieces :
                    k < next[p] => file[LineOf(p) + k - 1] = <<row[p], k>>
              /\ next[p] = Pieces + 2 => file[Len(file)] = NL

IndInv == TypeOK /\ LockInv /\ TailInv /\ ReturnedReadable

-----------------------------------------------------------------------------
(* Lemmas about the file.                                                  *)

\* What append() writes is a symbol.
LEMMA SymbolType ==
    ASSUME NEW r \in Rows, NEW k \in Nat
    PROVE  Symbol(r, k) \in Symbols
BY DEF Symbol, Symbols

\* A line that parses still does when a newline is appended, and when the
\* symbol appended follows anything but the last piece of a row.
LEMMA LineStays ==
    ASSUME NEW f \in Seq(Symbols), NEW s \in Symbols,
           NEW p \in 1..Len(f), NEW r \in Rows, LineAt(f, p, r),
           \/ s = NL
           \/ f[Len(f)] # <<r, Pieces>>
    PROVE  LineAt(Append(f, s), p, r)
<1> DEFINE g == Append(f, s)
<1>1. /\ Len(g) = Len(f) + 1
      /\ \A i \in 1..Len(f) : g[i] = f[i]
      /\ g[Len(f) + 1] = s
  OBVIOUS
<1>2. Pieces \in Nat \ {0} /\ p \in Nat \ {0} /\ Len(f) \in Nat
  BY PiecesAssumption
<1>3. HasText(g, p, r)
  <2>1. p + Pieces - 1 <= Len(g)
    BY <1>1, <1>2 DEF LineAt, HasText
  <2>2. ASSUME NEW i \in 1..Pieces PROVE g[p + i - 1] = <<r, i>>
    <3>1. p + i - 1 \in 1..Len(f)
      BY <1>2 DEF LineAt, HasText
    <3>2. f[p + i - 1] = <<r, i>>
      BY DEF LineAt, HasText
    <3> QED BY <1>1, <3>1, <3>2
  <2> QED BY <2>1, <2>2 DEF HasText
<1>4. p > 1 => g[p - 1] = NL
  BY <1>1, <1>2 DEF LineAt
<1>5. ASSUME p + Pieces <= Len(g) PROVE g[p + Pieces] = NL
  <2>1. CASE p + Pieces <= Len(f)
    BY <1>1, <1>2, <2>1 DEF LineAt
  <2>2. CASE p + Pieces = Len(f) + 1
    <3>1. f[p + Pieces - 1] = <<r, Pieces>>
      <4>1. Pieces \in 1..Pieces
        BY <1>2
      <4> QED BY <4>1 DEF LineAt, HasText
    <3>2. p + Pieces - 1 = Len(f)
      BY <1>2, <2>2
    <3>3. s = NL
      BY <3>1, <3>2
    <3> QED BY <1>1, <2>2, <3>3
  <2> QED BY <1>1, <1>2, <1>5, <2>1, <2>2
<1> QED BY <1>3, <1>4, <1>5 DEF LineAt

-----------------------------------------------------------------------------
(* The invariant holds initially, and every step preserves it.             *)

LEMMA InitInv == Init => IndInv
<1> SUFFICES ASSUME Init PROVE IndInv
  OBVIOUS
<1> USE DEF Init
<1>1. TypeOK
  BY NoProcAssumption, NoRowAssumption, PiecesAssumption DEF TypeOK
<1>2. LockInv
  BY DEF LockInv
<1>3. TailInv
  BY DEF TailInv
<1>4. ReturnedReadable
  BY DEF ReturnedReadable
<1> QED BY <1>1, <1>2, <1>3, <1>4 DEF IndInv

LEMMA TypeStep == TypeOK /\ LockInv /\ [Next]_vars => TypeOK'
<1> SUFFICES ASSUME TypeOK, LockInv, [Next]_vars PROVE TypeOK'
  OBVIOUS
<1> USE DEF TypeOK
<1>1. ASSUME NEW p \in Procs, NEW r \in Rows, Open(p, r) PROVE TypeOK'
  BY <1>1 DEF Open
<1>2. ASSUME NEW p \in Procs, Lock(p) PROVE TypeOK'
  BY <1>2 DEF Lock
<1>3. ASSUME NEW p \in Procs, CheckTail(p) PROVE TypeOK'
  BY <1>3, PiecesAssumption DEF CheckTail
<1>4. ASSUME NEW p \in Procs, Write(p) PROVE TypeOK'
  <2>1. row[p] \in Rows /\ next[p] \in Nat
    BY <1>4 DEF Write, LockInv
  <2>2. file' \in Seq(Symbols)
    BY <1>4, <2>1, SymbolType DEF Write
  <2>3. next' \in [Procs -> 0..(Pieces + 2)]
    BY <1>4, PiecesAssumption DEF Write
  <2> QED BY <1>4, <2>2, <2>3 DEF Write
<1>5. ASSUME NEW p \in Procs, Close(p) PROVE TypeOK'
  BY <1>5 DEF Close, LockInv
<1>6. ASSUME NEW p \in Procs, Crash(p) PROVE TypeOK'
  BY <1>6 DEF Crash
<1>7. CASE UNCHANGED vars
  BY <1>7 DEF vars
<1> QED BY <1>1, <1>2, <1>3, <1>4, <1>5, <1>6, <1>7 DEF Next, Step

LEMMA LockStep == TypeOK /\ LockInv /\ [Next]_vars => LockInv'
<1> SUFFICES ASSUME TypeOK, LockInv, [Next]_vars PROVE LockInv'
  OBVIOUS
<1> USE DEF TypeOK, LockInv
<1>1. ASSUME NEW p \in Procs, NEW r \in Rows, Open(p, r) PROVE LockInv'
  BY <1>1 DEF Open
<1>2. ASSUME NEW p \in Procs, Lock(p) PROVE LockInv'
  BY <1>2, NoProcAssumption DEF Lock
<1>3. ASSUME NEW p \in Procs, CheckTail(p) PROVE LockInv'
  BY <1>3 DEF CheckTail
<1>4. ASSUME NEW p \in Procs, Write(p) PROVE LockInv'
  BY <1>4 DEF Write
<1>5. ASSUME NEW p \in Procs, Close(p) PROVE LockInv'
  BY <1>5 DEF Close
<1>6. ASSUME NEW p \in Procs, Crash(p) PROVE LockInv'
  BY <1>6, NoProcAssumption DEF Crash
<1>7. CASE UNCHANGED vars
  BY <1>7 DEF vars
<1> QED BY <1>1, <1>2, <1>3, <1>4, <1>5, <1>6, <1>7 DEF Next, Step

\* Two writers are never in the critical section together.
LEMMA OneWriter ==
    ASSUME LockInv, NEW p \in Procs, NEW q \in Procs, p # q,
           pc[p] \in {"locked", "writing"}
    PROVE  pc[q] \notin {"locked", "writing"}
BY DEF LockInv

LEMMA TailStep == TypeOK /\ LockInv /\ TailInv /\ [Next]_vars => TailInv'
<1> SUFFICES ASSUME TypeOK, LockInv, TailInv, [Next]_vars PROVE TailInv'
  OBVIOUS
<1>0. file \in Seq(Symbols) /\ pc \in [Procs -> {"idle", "opened", "locked", "writing"}]
      /\ row \in [Procs -> Rows \cup {NoRow}] /\ next \in [Procs -> 0..(Pieces + 2)]
      /\ Pieces \in Nat \ {0} /\ Len(file) \in Nat
  BY PiecesAssumption DEF TypeOK
<1>1. ASSUME NEW p \in Procs, NEW r \in Rows, Open(p, r) PROVE TailInv'
  BY <1>0, <1>1 DEF Open, TailInv, LineOf
<1>2. ASSUME NEW p \in Procs, Lock(p) PROVE TailInv'
  BY <1>0, <1>2 DEF Lock, TailInv, LineOf
<1>3. ASSUME NEW p \in Procs, CheckTail(p) PROVE TailInv'
  <2> SUFFICES ASSUME NEW q \in Procs, pc'[q] = "writing"
               PROVE  /\ next'[q] = 0 => TornTail(file)
                      /\ next'[q] >= 1 =>
                            /\ LineOf(q)' >= 1
                            /\ LineOf(q)' > 1 => file[LineOf(q)' - 1] = NL
                            /\ \A k \in 1..Pieces :
                                  k < next'[q] => file[LineOf(q)' + k - 1] = <<row[q], k>>
                            /\ next'[q] = Pieces + 2 => file[Len(file)] = NL
    BY <1>3 DEF CheckTail, TailInv
  <2>1. CASE q = p
    <3>1. CASE TornTail(file)
      BY <1>0, <1>3, <2>1, <3>1 DEF CheckTail
    <3>2. CASE ~TornTail(file)
      <4>1. next'[p] = 1 /\ LineOf(p)' = Len(file) + 1
        BY <1>0, <1>3, <3>2 DEF CheckTail, LineOf
      <4>2. Len(file) + 1 > 1 => file[Len(file)] = NL
        BY <1>0, <3>2 DEF TornTail
      <4> QED BY <1>0, <2>1, <4>1, <4>2
    <3> QED BY <3>1, <3>2
  <2>2. CASE q # p
    <3>1. pc[q] = "writing"
      BY <1>0, <1>3, <2>2 DEF CheckTail
    <3> QED BY <1>3, <2>2, <3>1, OneWriter DEF CheckTail
  <2> QED BY <2>1, <2>2
<1>4. ASSUME NEW p \in Procs, Write(p) PROVE TailInv'
  <2>1. /\ row[p] \in Rows /\ next[p] \in 0..(Pieces + 1)
        /\ next'[p] = next[p] + 1 /\ row' = row /\ pc' = pc
        /\ pc[p] = "writing"
    BY <1>0, <1>4 DEF Write, LockInv
  <2> DEFINE s == Symbol(row[p], next[p])
  <2>2. /\ Len(file') = Len(file) + 1
        /\ \A i \in 1..Len(file) : file'[i] = file[i]
        /\ file'[Len(file) + 1] = s
    BY <1>0, <1>4, <2>1, SymbolType DEF Write
  <2>3. LineOf(p)' = IF next[p] = 0 THEN Len(file) + 2 ELSE LineOf(p)
    BY <1>0, <2>1, <2>2 DEF LineOf
  <2> SUFFICES ASSUME NEW q \in Procs, pc[q] = "writing"
               PROVE  /\ next'[q] # 0
                      /\ LineOf(q)' >= 1
                      /\ LineOf(q)' > 1 => file'[LineOf(q)' - 1] = NL
                      /\ \A k \in 1..Pieces :
                            k < next'[q] => file'[LineOf(q)' + k - 1] = <<row[q], k>>
                      /\ next'[q] = Pieces + 2 => file'[Len(file')] = NL
    BY <2>1 DEF TailInv
  <2>4. q = p
    BY <2>1, OneWriter
  <2>5. CASE next[p] = 0
    <3>1. s = NL
      BY <1>0, <2>5 DEF Symbol
    <3> QED BY <1>0, <2>1, <2>2, <2>3, <2>4, <2>5, <3>1
  <2>6. CASE next[p] >= 1
    <3>1. /\ LineOf(p) >= 1 /\ LineOf(p) \in Int
          /\ LineOf(p) > 1 => file[LineOf(p) - 1] = NL
          /\ \A k \in 1..Pieces : k < next[p] => file[LineOf(p) + k - 1] = <<row[p], k>>
      BY <1>0, <2>1, <2>6 DEF TailInv, LineOf
    <3>2. LineOf(p) + next[p] - 1 = Len(file) + 1
      BY <1>0, <2>1 DEF LineOf
    <3>3. LineOf(p) > 1 => file'[LineOf(p) - 1] = NL
      <4>1. LineOf(p) > 1 => LineOf(p) - 1 \in 1..Len(file)
        BY <1>0, <2>1, <2>6, <3>1, <3>2
      <4> QED BY <2>2, <3>1, <4>1
    <3>4. ASSUME NEW k \in 1..Pieces, k < next[p] + 1
          PROVE  file'[LineOf(p) + k - 1] = <<row[p], k>>
      <4>1. CASE k < next[p]
        <5>1. LineOf(p) + k - 1 \in 1..Len(file)
          BY <1>0, <2>1, <3>1, <3>2, <4>1
        <5> QED BY <2>2, <3>1, <4>1, <5>1
      <4>2. CASE k = next[p]
        <5>1. s = <<row[p], k>>
          BY <4>2 DEF Symbol
        <5> QED BY <2>2, <3>2, <4>2, <5>1
      <4> QED BY <2>1, <3>4, <4>1, <4>2
    <3>5. next[p] + 1 = Pieces + 2 => s = NL
      BY <1>0, <2>1 DEF Symbol
    <3>6. LineOf(p)' = LineOf(p)
      BY <1>0, <2>1, <2>3, <2>6
    <3> QED BY <1>0, <2>1, <2>2, <2>4, <3>1, <3>3, <3>4, <3>5, <3>6
  <2> QED BY <2>1, <2>5, <2>6
<1>5. ASSUME NEW p \in Procs, Close(p) PROVE TailInv'
  BY <1>0, <1>5 DEF Close, TailInv, LineOf
<1>6. ASSUME NEW p \in Procs, Crash(p) PROVE TailInv'
  BY <1>0, <1>6 DEF Crash, TailInv, LineOf
<1>7. CASE UNCHANGED vars
  BY <1>7 DEF vars, TailInv, LineOf
<1> QED BY <1>1, <1>2, <1>3, <1>4, <1>5, <1>6, <1>7 DEF Next, Step

-----------------------------------------------------------------------------
(* Readers never lose a row.                                               *)

\* A write leaves every line that parses as it is.
LEMMA LinesGrow ==
    ASSUME TypeOK, LockInv, TailInv, NEW p \in Procs, Write(p),
           NEW r \in Rows, NEW q \in 1..Len(file), LineAt(file, q, r)
    PROVE  LineAt(file', q, r) /\ q \in 1..Len(file')
<1>0. /\ file \in Seq(Symbols) /\ Len(file) \in Nat /\ Pieces \in Nat \ {0}
      /\ next[p] \in 0..(Pieces + 1) /\ row[p] \in Rows /\ pc[p] = "writing"
  BY PiecesAssumption DEF TypeOK, LockInv, Write
<1> DEFINE s == Symbol(row[p], next[p])
<1>1. s \in Symbols /\ file' = Append(file, s)
  BY <1>0, SymbolType DEF Write
<1>2. s = NL \/ file[Len(file)] # <<r, Pieces>>
  <2>1. CASE next[p] = 0 \/ next[p] = Pieces + 1
    BY <1>0, <2>1 DEF Symbol
  <2>2. CASE next[p] = 1
    <3>1. LineOf(p) = Len(file) + 1
      BY <1>0, <2>2 DEF LineOf
    <3>2. file[Len(file)] = NL
      BY <1>0, <2>2, <3>1 DEF TailInv
    <3>3. Pieces \in 1..Pieces
      BY <1>0
    <3> QED BY <3>2, <3>3, NLAssumption
  <2>3. CASE next[p] \in 2..Pieces
    <3>1. next[p] - 1 \in 1..Pieces /\ next[p] - 1 < next[p]
      BY <1>0, <2>3
    <3>2. file[LineOf(p) + (next[p] - 1) - 1] = <<row[p], next[p] - 1>>
      BY <1>0, <2>3, <3>1 DEF TailInv
    <3>3. LineOf(p) + (next[p] - 1) - 1 = Len(file)
      BY <1>0 DEF LineOf
    <3>4. next[p] - 1 # Pieces
      BY <1>0, <2>3
    <3> QED BY <3>2, <3>3, <3>4
  <2> QED BY <1>0, <2>1, <2>2, <2>3
<1> QED BY <1>0, <1>1, <1>2, LineStays

LEMMA ReadableGrows ==
    ASSUME TypeOK, LockInv, TailInv, NEW p \in Procs, Write(p)
    PROVE  Readable(file) \subseteq Readable(file')
BY LinesGrow DEF Readable

\* A writer that is about to return has left its row for readers.
LEMMA WholeLine ==
    ASSUME TypeOK, LockInv, TailInv, NEW p \in Procs, Close(p)
    PROVE  row[p] \in Readable(file)
<1>0. /\ Len(file) \in Nat /\ Pieces \in Nat \ {0} /\ row[p] \in Rows
      /\ pc[p] = "writing" /\ next[p] = Pieces + 2
  BY PiecesAssumption DEF TypeOK, LockInv, Close
<1> DEFINE q == LineOf(p)
<1>1. /\ q >= 1 /\ q + Pieces = Len(file)
      /\ q > 1 => file[q - 1] = NL
      /\ \A k \in 1..Pieces : file[q + k - 1] = <<row[p], k>>
      /\ file[Len(file)] = NL
  <2>1. q + Pieces = Len(file)
    BY <1>0 DEF LineOf
  <2>2. next[p] >= 1 /\ \A k \in 1..Pieces : k < next[p]
    BY <1>0
  <2>3. q = LineOf(p)
    OBVIOUS
  <2> HIDE DEF q
  <2> QED BY <1>0, <2>1, <2>2, <2>3 DEF TailInv
<1>2. q \in 1..Len(file)
  BY <1>0, <1>1 DEF LineOf
<1>3. LineAt(file, q, row[p])
  BY <1>0, <1>1, <1>2 DEF LineAt, HasText
<1> QED BY <1>0, <1>2, <1>3 DEF Readable

LEMMA ReturnedStep == IndInv /\ [Next]_vars => ReturnedReadable'
<1> SUFFICES ASSUME IndInv, [Next]_vars PROVE ReturnedReadable'
  OBVIOUS
<1> USE DEF IndInv, ReturnedReadable
<1>1. ASSUME NEW p \in Procs, NEW r \in Rows, Open(p, r) PROVE ReturnedReadable'
  BY <1>1 DEF Open
<1>2. ASSUME NEW p \in Procs, Lock(p) PROVE ReturnedReadable'
  BY <1>2 DEF Lock
<1>3. ASSUME NEW p \in Procs, CheckTail(p) PROVE ReturnedReadable'
  BY <1>3 DEF CheckTail
<1>4. ASSUME NEW p \in Procs, Write(p) PROVE ReturnedReadable'
  <2>1. Readable(file) \subseteq Readable(file')
    BY <1>4, ReadableGrows
  <2> QED BY <1>4, <2>1 DEF Write
<1>5. ASSUME NEW p \in Procs, Close(p) PROVE ReturnedReadable'
  BY <1>5, WholeLine DEF Close
<1>6. ASSUME NEW p \in Procs, Crash(p) PROVE ReturnedReadable'
  BY <1>6 DEF Crash
<1>7. CASE UNCHANGED vars
  BY <1>7 DEF vars
<1> QED BY <1>1, <1>2, <1>3, <1>4, <1>5, <1>6, <1>7 DEF Next, Step

LEMMA IndStep == IndInv /\ [Next]_vars => IndInv'
BY TypeStep, LockStep, TailStep, ReturnedStep DEF IndInv

\* The invariant behind the theorems, in every reachable state.
THEOREM InvariantHolds == Spec => []IndInv
BY InitInv, IndStep, PTL DEF Spec

\* The state always has its declared type (taskledger.append's locals and the
\* file), for any writers, rows and row length.
THEOREM TypeCorrect == Spec => []TypeOK
<1>1. IndInv => TypeOK
  BY DEF IndInv
<1> QED BY <1>1, InvariantHolds, PTL

\* A row whose append returned is there for every reader from then on, for
\* any number of writers that die at any point of their own appends: the
\* tail check of taskledger.append under its lock is enough.
THEOREM ReturnedRowsStay == Spec => []ReturnedReadable
<1>1. IndInv => ReturnedReadable
  BY DEF IndInv
<1> QED BY <1>1, InvariantHolds, PTL

-----------------------------------------------------------------------------
(* Nobody reads a row twice, or a row nobody appended.                     *)

\* A row belongs to one append; the pieces of it in the file are the ones
\* that append has written, each at one place.
OwnerInv ==
    /\ \A p \in Procs : pc[p] # "idle" => row[p] \in started
    /\ \A p, q \in Procs :
           pc[p] # "idle" /\ pc[q] # "idle" /\ row[p] = row[q] => p = q

PiecesInv ==
    /\ \A i \in 1..Len(file), r \in Rows, k \in 1..Pieces :
           file[i] = <<r, k>> =>
              /\ r \in started
              /\ \A p \in Procs : pc[p] # "idle" /\ row[p] = r =>
                     pc[p] = "writing" /\ k < next[p]
    /\ \A i, j \in 1..Len(file), r \in Rows, k \in 1..Pieces :
           file[i] = <<r, k>> /\ file[j] = <<r, k>> => i = j

LEMMA OwnerStep == TypeOK /\ LockInv /\ OwnerInv /\ [Next]_vars => OwnerInv'
<1> SUFFICES ASSUME TypeOK, LockInv, OwnerInv, [Next]_vars PROVE OwnerInv'
  OBVIOUS
<1> USE DEF TypeOK, LockInv, OwnerInv
<1>1. ASSUME NEW p \in Procs, NEW r \in Rows, Open(p, r) PROVE OwnerInv'
  BY <1>1 DEF Open
<1>2. ASSUME NEW p \in Procs, Lock(p) PROVE OwnerInv'
  BY <1>2 DEF Lock
<1>3. ASSUME NEW p \in Procs, CheckTail(p) PROVE OwnerInv'
  BY <1>3 DEF CheckTail
<1>4. ASSUME NEW p \in Procs, Write(p) PROVE OwnerInv'
  BY <1>4 DEF Write
<1>5. ASSUME NEW p \in Procs, Close(p) PROVE OwnerInv'
  BY <1>5 DEF Close
<1>6. ASSUME NEW p \in Procs, Crash(p) PROVE OwnerInv'
  BY <1>6 DEF Crash
<1>7. CASE UNCHANGED vars
  BY <1>7 DEF vars
<1> QED BY <1>1, <1>2, <1>3, <1>4, <1>5, <1>6, <1>7 DEF Next, Step

\* A step that writes nothing keeps the pieces where they are, as long as a
\* writer that was writing goes on with its row or is out of it.
LEMMA PiecesKept ==
    ASSUME PiecesInv, UNCHANGED <<file, started>>,
           \A q \in Procs : pc'[q] # "idle" =>
               /\ pc[q] # "idle" /\ row'[q] = row[q]
               /\ pc[q] = "writing" => pc'[q] = "writing" /\ next'[q] = next[q]
    PROVE  PiecesInv'
<1>1. ASSUME NEW i \in 1..Len(file), NEW r \in Rows, NEW k \in 1..Pieces,
             file[i] = <<r, k>>
      PROVE  /\ r \in started
             /\ \A q \in Procs : pc'[q] # "idle" /\ row'[q] = r =>
                    pc'[q] = "writing" /\ k < next'[q]
  <2>1. /\ r \in started
        /\ \A q \in Procs : pc[q] # "idle" /\ row[q] = r =>
               pc[q] = "writing" /\ k < next[q]
    BY <1>1 DEF PiecesInv
  <2> QED BY <2>1
<1>2. \A i, j \in 1..Len(file), r \in Rows, k \in 1..Pieces :
          file[i] = <<r, k>> /\ file[j] = <<r, k>> => i = j
  BY DEF PiecesInv
<1> QED BY <1>1, <1>2 DEF PiecesInv

LEMMA PiecesStep ==
    TypeOK /\ LockInv /\ OwnerInv /\ PiecesInv /\ [Next]_vars => PiecesInv'
<1> SUFFICES ASSUME TypeOK, LockInv, OwnerInv, PiecesInv, [Next]_vars
             PROVE  PiecesInv'
  OBVIOUS
<1>0. /\ file \in Seq(Symbols) /\ Len(file) \in Nat /\ Pieces \in Nat \ {0}
      /\ pc \in [Procs -> {"idle", "opened", "locked", "writing"}]
      /\ row \in [Procs -> Rows \cup {NoRow}] /\ next \in [Procs -> 0..(Pieces + 2)]
  BY PiecesAssumption DEF TypeOK
<1>1. ASSUME NEW p \in Procs, NEW r \in Rows, Open(p, r) PROVE PiecesInv'
  BY <1>0, <1>1 DEF Open, PiecesInv
<1>2. ASSUME NEW p \in Procs, Lock(p) PROVE PiecesInv'
  BY <1>0, <1>2, PiecesKept DEF Lock
<1>3. ASSUME NEW p \in Procs, CheckTail(p) PROVE PiecesInv'
  BY <1>0, <1>3, PiecesKept DEF CheckTail
<1>4. ASSUME NEW p \in Procs, Write(p) PROVE PiecesInv'
  <2>1. /\ row[p] \in Rows /\ next[p] \in 0..(Pieces + 1)
        /\ next' = [next EXCEPT ![p] = next[p] + 1]
        /\ row' = row /\ pc' = pc /\ started' = started
        /\ pc[p] = "writing" /\ row[p] \in started
    BY <1>0, <1>4 DEF Write, LockInv, OwnerInv
  <2> DEFINE s == Symbol(row[p], next[p])
  <2>2. /\ Len(file') = Len(file) + 1
        /\ \A i \in 1..Len(file) : file'[i] = file[i]
        /\ file'[Len(file) + 1] = s
    BY <1>0, <1>4, <2>1, SymbolType DEF Write
  <2>3. ASSUME NEW r \in Rows, NEW k \in 1..Pieces, s = <<r, k>>
        PROVE  r = row[p] /\ k = next[p]
    BY <2>3, NLAssumption DEF Symbol
  <2>4. ASSUME NEW i \in 1..Len(file)', NEW r \in Rows, NEW k \in 1..Pieces,
               file'[i] = <<r, k>>
        PROVE  /\ r \in started
               /\ \A q \in Procs : pc[q] # "idle" /\ row[q] = r =>
                      pc[q] = "writing" /\ k < next'[q]
    <3>1. CASE i \in 1..Len(file)
      <4>1. /\ r \in started
            /\ \A q \in Procs : pc[q] # "idle" /\ row[q] = r =>
                   pc[q] = "writing" /\ k < next[q]
        BY <2>2, <2>4, <3>1 DEF PiecesInv
      <4>2. \A q \in Procs : next[q] <= next'[q] /\ next[q] \in Nat /\ next'[q] \in Nat
        BY <1>0, <2>1
      <4> QED BY <1>0, <4>1, <4>2
    <3>2. CASE i = Len(file) + 1
      <4>1. r = row[p] /\ k = next[p]
        BY <2>2, <2>3, <2>4, <3>2
      <4>2. \A q \in Procs : pc[q] # "idle" /\ row[q] = r => q = p
        BY <2>1, <4>1 DEF OwnerInv
      <4> QED BY <1>0, <2>1, <4>1, <4>2
    <3> QED BY <1>0, <2>2, <3>1, <3>2
  <2>5. ASSUME NEW i \in 1..Len(file)', NEW j \in 1..Len(file)',
               NEW r \in Rows, NEW k \in 1..Pieces,
               file'[i] = <<r, k>>, file'[j] = <<r, k>>
        PROVE  i = j
    <3>1. ASSUME NEW m \in 1..Len(file), file[m] = <<r, k>>, s = <<r, k>>
          PROVE  FALSE
      <4>1. k < next[p] /\ k = next[p]
        BY <2>1, <2>3, <3>1 DEF PiecesInv
      <4> QED BY <1>0, <4>1
    <3>2. CASE i \in 1..Len(file) /\ j \in 1..Len(file)
      BY <2>2, <2>5, <3>2 DEF PiecesInv
    <3>3. CASE i = Len(file) + 1 /\ j \in 1..Len(file)
      BY <2>2, <2>5, <3>1, <3>3
    <3>4. CASE j = Len(file) + 1 /\ i \in 1..Len(file)
      BY <2>2, <2>5, <3>1, <3>4
    <3> QED BY <1>0, <2>2, <3>2, <3>3, <3>4
  <2> QED BY <2>1, <2>4, <2>5 DEF PiecesInv
<1>5. ASSUME NEW p \in Procs, Close(p) PROVE PiecesInv'
  BY <1>0, <1>5, PiecesKept DEF Close
<1>6. ASSUME NEW p \in Procs, Crash(p) PROVE PiecesInv'
  BY <1>0, <1>6, PiecesKept DEF Crash
<1>7. CASE UNCHANGED vars
  BY <1>7 DEF vars, PiecesInv
<1> QED BY <1>1, <1>2, <1>3, <1>4, <1>5, <1>6, <1>7 DEF Next, Step

\* No reader sees a row twice, and every row it sees was appended: load()
\* never invents one out of torn lines.
THEOREM NoRowTwice == Spec => []NoPhantomRow
<1>1. Init => OwnerInv /\ PiecesInv
  BY DEF Init, OwnerInv, PiecesInv
<1>2. IndInv /\ OwnerInv /\ PiecesInv /\ [Next]_vars => (OwnerInv /\ PiecesInv)'
  BY OwnerStep, PiecesStep DEF IndInv
<1>3. TypeOK /\ PiecesInv => NoPhantomRow
  <2> SUFFICES ASSUME TypeOK, PiecesInv,
                      NEW r \in Rows, NEW p \in 1..Len(file), LineAt(file, p, r)
               PROVE  /\ r \in started
                      /\ \A q \in 1..Len(file) : LineAt(file, q, r) => p = q
    BY DEF NoPhantomRow, Readable
  <2>1. Pieces \in Nat \ {0} /\ 1 \in 1..Pieces /\ Len(file) \in Nat
    BY PiecesAssumption DEF TypeOK
  <2>2. \A q \in 1..Len(file) : LineAt(file, q, r) => file[q] = <<r, 1>>
    BY <2>1 DEF LineAt, HasText
  <2> QED BY <2>1, <2>2 DEF PiecesInv
<1> QED BY <1>1, <1>2, <1>3, InvariantHolds, PTL DEF Spec, IndInv
-----------------------------------------------------------------------------
(* What load() returns, as a list: the lines that parse, in the order of   *)
(* their starts.                                                           *)

\* How many of S come before x, and the k-th of S.
Rank(S, x) == Cardinality({q \in S : q < x})
Nth(S, k) == CHOOSE p \in S : Rank(S, p) = k - 1

\* The ranks of n numbers are 0 .. n - 1, each taken once.
LEMMA Ranks ==
    ASSUME NEW n \in Nat, NEW S \in SUBSET (1..n)
    PROVE  /\ IsFiniteSet(S) /\ Cardinality(S) \in Nat
           /\ \A x \in S : Rank(S, x) \in 0..(Cardinality(S) - 1)
           /\ \A x, y \in S : x < y => Rank(S, x) < Rank(S, y)
           /\ \A k \in 1..Cardinality(S) : \E x \in S : Rank(S, x) = k - 1
<1> DEFINE c == Cardinality(S)
           Below(x) == {q \in S : q < x}
           rank == [x \in S |-> Rank(S, x) + 1]
<1>1. IsFiniteSet(S) /\ c \in Nat
  <2>1. IsFiniteSet(1..n)
    BY FS_Interval
  <2> QED BY <2>1, FS_Subset, FS_CardinalityType
<1>2. \A x \in S : IsFiniteSet(Below(x)) /\ Cardinality(Below(x)) \in 0..(c - 1)
  <2> SUFFICES ASSUME NEW x \in S
               PROVE  IsFiniteSet(Below(x)) /\ Cardinality(Below(x)) \in 0..(c - 1)
    OBVIOUS
  <2>1. IsFiniteSet(S \ {x}) /\ Cardinality(S \ {x}) = c - 1
    BY <1>1, FS_RemoveElement
  <2>2. Below(x) \in SUBSET (S \ {x})
    OBVIOUS
  <2> HIDE DEF Below
  <2>3. IsFiniteSet(Below(x)) /\ Cardinality(Below(x)) <= c - 1
    BY <2>1, <2>2, FS_Subset
  <2>4. Cardinality(Below(x)) \in Nat
    BY <2>3, FS_CardinalityType
  <2> QED BY <1>1, <2>3, <2>4
<1>3. \A x, y \in S : x < y => Cardinality(Below(x)) < Cardinality(Below(y))
  <2> SUFFICES ASSUME NEW x \in S, NEW y \in S, x < y
               PROVE  Cardinality(Below(x)) < Cardinality(Below(y))
    OBVIOUS
  <2>0. \A q \in S : q \in Int
    OBVIOUS
  <2>1. Below(x) \in SUBSET Below(y) /\ x \in Below(y) /\ x \notin Below(x)
    <3>1. \A q \in S : q < x => q < y
      BY <2>0
    <3>2. ~(x < x)
      BY <2>0
    <3>3. Below(x) \subseteq Below(y)
      BY <3>1
    <3>4. x \in Below(y) /\ x \notin Below(x)
      BY <3>2
    <3> QED BY <3>3, <3>4
  <2>2. Below(x) # Below(y)
    BY <2>1
  <2> HIDE DEF Below
  <2>3. /\ IsFiniteSet(Below(y)) /\ Cardinality(Below(x)) \in Nat
        /\ Cardinality(Below(y)) \in Nat
    BY <1>1, <1>2
  <2>4. /\ Cardinality(Below(x)) <= Cardinality(Below(y))
        /\ Cardinality(Below(x)) # Cardinality(Below(y))
    BY <2>1, <2>2, <2>3, FS_Subset
  <2> QED BY <2>3, <2>4
<1>4. \A x \in S : Rank(S, x) = Cardinality(Below(x))
  BY DEF Rank
<1> HIDE DEF c, Below
<1>5. \A x \in S : Rank(S, x) \in 0..(c - 1)
  BY <1>2, <1>4
<1>6. \A x, y \in S : x < y => Rank(S, x) < Rank(S, y)
  BY <1>3, <1>4
<1>7. rank \in Injection(S, 1..c)
  <2>1. rank \in [S -> 1..c]
    BY <1>1, <1>5
  <2>2. \A x, y \in S : x # y => rank[x] # rank[y]
    <3>1. \A x \in S : Rank(S, x) \in Nat
      BY <1>1, <1>5
    <3>2. \A x, y \in S : x # y => Rank(S, x) < Rank(S, y) \/ Rank(S, y) < Rank(S, x)
      BY <1>6
    <3> QED BY <3>1, <3>2
  <2> HIDE DEF rank
  <2> QED BY <2>1, <2>2 DEF Injection, IsInjective
<1>8. \A k \in 1..c : \E x \in S : rank[x] = k
  <2>1. IsFiniteSet(1..c) /\ Cardinality(1..c) = c
    BY <1>1, FS_Interval
  <2> HIDE DEF rank
  <2>2. rank \in Surjection(S, 1..c)
    BY <1>7, <2>1, FS_Injection DEF c
  <2> QED BY <2>2 DEF Surjection
<1>9. \A k \in 1..c : \E x \in S : Rank(S, x) = k - 1
  <2> SUFFICES ASSUME NEW k \in 1..c PROVE \E x \in S : Rank(S, x) = k - 1
    OBVIOUS
  <2>1. PICK x \in S : rank[x] = k
    BY <1>8
  <2>2. Rank(S, x) + 1 = k /\ Rank(S, x) \in Int
    BY <1>1, <1>5, <2>1
  <2> QED BY <1>1, <2>2
<1> QED BY <1>1, <1>5, <1>6, <1>9 DEF c

\* The k-th is the one element with k - 1 before it.
LEMMA NthIs ==
    ASSUME NEW n \in Nat, NEW S \in SUBSET (1..n), NEW k \in 1..Cardinality(S)
    PROVE  /\ Nth(S, k) \in S
           /\ \A x \in S : Rank(S, x) = k - 1 => Nth(S, k) = x
<1>0. /\ \A x \in S : Rank(S, x) \in 0..(Cardinality(S) - 1)
      /\ \A x, y \in S : x < y => Rank(S, x) < Rank(S, y)
      /\ \A l \in 1..Cardinality(S) : \E x \in S : Rank(S, x) = l - 1
  BY Ranks, Zenon
<1>1. PICK y \in S : Rank(S, y) = k - 1
  BY <1>0
<1>2. Nth(S, k) \in S /\ Rank(S, Nth(S, k)) = k - 1
  BY <1>1 DEF Nth
<1>3. ASSUME NEW x \in S, Rank(S, x) = k - 1 PROVE Nth(S, k) = x
  <2> DEFINE z == Nth(S, k)
  <2>1. z \in S /\ Rank(S, z) = Rank(S, x)
    BY <1>2, <1>3
  <2> HIDE DEF z
  <2>2. Rank(S, x) \in Int
    BY <1>0
  <2>3. ~(z < x) /\ ~(x < z)
    BY <1>0, <2>1, <2>2
  <2>4. z \in Int /\ x \in Int
    BY <2>1
  <2>5. z = x
    BY <2>3, <2>4
  <2> QED BY <2>5 DEF z
<1> QED BY <1>2, <1>3

\* A number behind all others is the last, and moves none of them.
LEMMA NthAdded ==
    ASSUME NEW n \in Nat, NEW S \in SUBSET (1..n), NEW z \in Nat \ {0},
           \A q \in S : q < z
    PROVE  /\ Cardinality(S \cup {z}) = Cardinality(S) + 1
           /\ \A k \in 1..Cardinality(S) : Nth(S \cup {z}, k) = Nth(S, k)
           /\ Nth(S \cup {z}, Cardinality(S) + 1) = z
<1> DEFINE T == S \cup {z}
           c == Cardinality(S)
           m == n + z
<1>0. IsFiniteSet(S) /\ c \in Nat
  BY Ranks, Zenon
<1>1. IsFiniteSet(S) /\ c \in Nat /\ z \notin S /\ ~(z < z) /\ \A q \in S : q \in Int
  BY <1>0
<1>2. Cardinality(T) = c + 1
  BY <1>1, FS_AddElement
<1>3. T \in SUBSET (1..m) /\ m \in Nat
  OBVIOUS
<1>4. \A x \in S : Rank(T, x) = Rank(S, x)
  <2> SUFFICES ASSUME NEW x \in S PROVE Rank(T, x) = Rank(S, x)
    OBVIOUS
  <2>1. {q \in T : q < x} = {q \in S : q < x}
    BY <1>1
  <2> QED BY <2>1 DEF Rank
<1>5. Rank(T, z) = c
  <2>1. {q \in T : q < z} = S
    BY <1>1
  <2> QED BY <2>1 DEF Rank
<1>6. z \in T /\ S \subseteq T
  OBVIOUS
<1> HIDE DEF T, c, m
<1>7. Nth(T, c + 1) = z
  <2>1. c + 1 \in 1..Cardinality(T) /\ Rank(T, z) = (c + 1) - 1
    BY <1>1, <1>2, <1>5
  <2> QED BY <1>3, <1>6, <2>1, NthIs
<1>8. ASSUME NEW k \in 1..c PROVE Nth(T, k) = Nth(S, k)
  <2>1. PICK x \in S : Rank(S, x) = k - 1
    BY <1>8, Ranks DEF c
  <2>2. Nth(S, k) = x
    BY <1>8, <2>1, NthIs DEF c
  <2>3. k \in 1..Cardinality(T)
    BY <1>1, <1>2, <1>8
  <2>4. Nth(T, k) = x
    BY <1>3, <1>4, <1>6, <2>1, <2>3, NthIs
  <2> QED BY <2>2, <2>4
<1> QED BY <1>2, <1>7, <1>8 DEF T, c

\* load() returns the row of every line that parses, in order.
LEMMA LoadedIs ==
    ASSUME NEW f \in Seq(Symbols)
    PROVE  /\ LineStarts(f) \in SUBSET (1..Len(f))
           /\ Cardinality(LineStarts(f)) \in Nat
           /\ \A q \in LineStarts(f) : \E r \in Rows : LineAt(f, q, r) /\ f[q] = <<r, 1>>
           /\ Loaded(f) \in Seq(Rows)
           /\ Len(Loaded(f)) = Cardinality(LineStarts(f))
           /\ \A k \in 1..Cardinality(LineStarts(f)) :
                  /\ Nth(LineStarts(f), k) \in LineStarts(f)
                  /\ Loaded(f)[k] = f[Nth(LineStarts(f), k)][1]
<1> DEFINE S == LineStarts(f)
           c == Cardinality(S)
<1>1. S \in SUBSET (1..Len(f)) /\ Len(f) \in Nat
  BY DEF LineStarts
<1>2. ASSUME NEW q \in S PROVE \E r \in Rows : LineAt(f, q, r) /\ f[q] = <<r, 1>>
  <2>1. PICK r \in Rows : LineAt(f, q, r)
    BY DEF LineStarts
  <2>2. 1 \in 1..Pieces /\ q + 1 - 1 = q
    BY <1>1, PiecesAssumption
  <2>3. f[q] = <<r, 1>>
    BY <2>1, <2>2 DEF LineAt, HasText
  <2> QED BY <2>1, <2>3
<1>3. Loaded(f) = [k \in 1..c |-> f[Nth(S, k)][1]]
  BY DEF Loaded, Nth, Rank
<1> HIDE DEF S, c
<1>4. c \in Nat
  BY <1>1, Ranks DEF c
<1>5. \A k \in 1..c : Nth(S, k) \in S
  BY <1>1, NthIs DEF c
<1>6. \A k \in 1..c : f[Nth(S, k)][1] \in Rows
  BY <1>2, <1>5
<1>7. Loaded(f) \in Seq(Rows) /\ Len(Loaded(f)) = c
  BY <1>3, <1>4, <1>6
<1> QED BY <1>1, <1>2, <1>3, <1>4, <1>5, <1>7 DEF S, c

\* A write either completes the row of its writer, which no reader has seen,
\* on a line behind all others, or starts no line that parses.
LEMMA WriteLines ==
    ASSUME TypeOK, LockInv, TailInv, PiecesInv, NEW p \in Procs, Write(p)
    PROVE  \/ LineStarts(file') = LineStarts(file)
           \/ \E z \in 1..Len(file') :
                 /\ LineStarts(file') = LineStarts(file) \cup {z}
                 /\ \A q \in LineStarts(file) : q < z
                 /\ file'[z] = <<row[p], 1>>
                 /\ row[p] \in Rows
                 /\ \A q \in LineStarts(file) : file[q] # <<row[p], 1>>
<1>0. /\ file \in Seq(Symbols) /\ Len(file) \in Nat /\ Pieces \in Nat \ {0}
      /\ next[p] \in 0..(Pieces + 1) /\ row[p] \in Rows /\ pc[p] = "writing"
  BY PiecesAssumption DEF TypeOK, LockInv, Write
<1> DEFINE s == Symbol(row[p], next[p])
           z == LineOf(p)
<1>1. s \in Symbols /\ file' = Append(file, s)
  BY <1>0, SymbolType DEF Write
<1>2. /\ Len(file') = Len(file) + 1
      /\ \A i \in 1..Len(file) : file'[i] = file[i]
      /\ file'[Len(file) + 1] = s
  BY <1>0, <1>1
<1>3. \A q \in LineStarts(file) : q \in LineStarts(file') /\ q + Pieces - 1 <= Len(file)
  <2> SUFFICES ASSUME NEW q \in LineStarts(file)
               PROVE  q \in LineStarts(file') /\ q + Pieces - 1 <= Len(file)
    OBVIOUS
  <2>1. PICK r \in Rows : q \in 1..Len(file) /\ LineAt(file, q, r)
    BY DEF LineStarts
  <2>2. LineAt(file', q, r) /\ q \in 1..Len(file')
    BY <2>1, LinesGrow
  <2> QED BY <2>1, <2>2 DEF LineStarts, LineAt, HasText
<1>4. ASSUME NEW q \in LineStarts(file'), q \notin LineStarts(file)
      PROVE  next[p] = Pieces /\ q = z
  <2>1. PICK r \in Rows : q \in 1..Len(file') /\ LineAt(file', q, r)
    BY DEF LineStarts
  <2>2. CASE q + Pieces - 1 <= Len(file)
    <3>1. q \in 1..Len(file)
      BY <1>0, <2>1, <2>2
    <3>2. HasText(file, q, r)
      <4> SUFFICES ASSUME NEW i \in 1..Pieces PROVE file[q + i - 1] = <<r, i>>
        BY <2>2 DEF HasText
      <4>1. q + i - 1 \in 1..Len(file)
        BY <1>0, <2>2, <3>1
      <4> QED BY <1>2, <2>1, <4>1 DEF LineAt, HasText
    <3>3. q > 1 => file[q - 1] = NL
      <4>1. q > 1 => q - 1 \in 1..Len(file)
        BY <1>0, <3>1
      <4> QED BY <1>2, <2>1, <4>1 DEF LineAt
    <3>4. q + Pieces <= Len(file) => file[q + Pieces] = NL
      <4>1. q + Pieces <= Len(file) =>
               q + Pieces \in 1..Len(file) /\ q + Pieces <= Len(file')
        BY <1>0, <1>2, <3>1
      <4> QED BY <1>2, <2>1, <4>1 DEF LineAt
    <3> QED BY <1>4, <3>1, <3>2, <3>3, <3>4 DEF LineAt, LineStarts
  <2>3. CASE q + Pieces - 1 = Len(file) + 1
    <3>1. Pieces \in 1..Pieces
      BY <1>0
    <3>2. s = <<r, Pieces>>
      BY <1>2, <2>1, <2>3, <3>1 DEF LineAt, HasText
    <3>3. next[p] = Pieces
      BY <3>1, <3>2, NLAssumption DEF Symbol
    <3>4. q = z
      BY <1>0, <2>1, <2>3, <3>3 DEF LineOf
    <3> QED BY <3>3, <3>4
  <2>4. q + Pieces - 1 <= Len(file) + 1
    BY <1>2, <2>1 DEF LineAt, HasText
  <2> QED BY <1>0, <2>1, <2>2, <2>3, <2>4
<1>5. CASE next[p] # Pieces
  <2>1. LineStarts(file') = LineStarts(file)
    BY <1>3, <1>4, <1>5
  <2> QED BY <2>1
<1>6. CASE next[p] = Pieces
  <2>1. /\ z \in Int /\ z >= 1 /\ z + Pieces = Len(file) + 2
        /\ z > 1 => file[z - 1] = NL
        /\ \A k \in 1..Pieces : k < Pieces => file[z + k - 1] = <<row[p], k>>
    <3>1. z \in Int /\ z + Pieces = Len(file) + 2
      BY <1>0, <1>6 DEF LineOf
    <3>2. next[p] >= 1
      BY <1>0, <1>6
    <3>3. /\ LineOf(p) >= 1
          /\ LineOf(p) > 1 => file[LineOf(p) - 1] = NL
          /\ \A k \in 1..Pieces : k < next[p] => file[LineOf(p) + k - 1] = <<row[p], k>>
      BY <1>0, <3>2, Zenon DEF TailInv
    <3>4. /\ z >= 1
          /\ z > 1 => file[z - 1] = NL
          /\ \A k \in 1..Pieces : k < Pieces => file[z + k - 1] = <<row[p], k>>
      BY <1>6, <3>3, Zenon
    <3> QED BY <3>1, <3>4, Zenon
  <2> HIDE DEF z
  <2>2. z \in 1..Len(file') /\ z - 1 \in 0..Len(file)
    BY <1>0, <1>2, <2>1
  <2>3. s = <<row[p], Pieces>>
    BY <1>0, <1>6 DEF Symbol
  <2>4. \A k \in 1..Pieces : file'[z + k - 1] = <<row[p], k>>
    <3> SUFFICES ASSUME NEW k \in 1..Pieces PROVE file'[z + k - 1] = <<row[p], k>>
      OBVIOUS
    <3>1. CASE k < Pieces
      <4>1. z + k - 1 \in 1..Len(file)
        BY <1>0, <2>1, <3>1
      <4> QED BY <1>2, <2>1, <3>1, <4>1
    <3>2. CASE k = Pieces
      <4>1. z + k - 1 = Len(file) + 1
        BY ONLY <1>0, <2>1, <3>2, k \in 1..Pieces
      <4> QED BY <1>2, <2>3, <3>2, <4>1
    <3> QED BY <1>0, <3>1, <3>2
  <2>5. z > 1 => file'[z - 1] = NL
    BY <1>2, <2>1, <2>2
  <2>6. z + Pieces - 1 <= Len(file') /\ ~(z + Pieces <= Len(file'))
    BY <1>0, <1>2, <2>1
  <2>7. z \in LineStarts(file')
    BY <1>0, <2>2, <2>4, <2>5, <2>6 DEF LineStarts, LineAt, HasText
  <2>8. LineStarts(file') = LineStarts(file) \cup {z}
    BY <1>3, <1>4, <2>7
  <2>9. \A q \in LineStarts(file) : q < z
    <3> SUFFICES ASSUME NEW q \in LineStarts(file) PROVE q < z
      OBVIOUS
    <3>1. q \in Int /\ q + Pieces - 1 <= Len(file)
      BY <1>3 DEF LineStarts
    <3> QED BY <1>0, <2>1, <3>1
  <2>10. file'[z] = <<row[p], 1>>
    <3>1. 1 \in 1..Pieces /\ z + 1 - 1 = z
      BY <1>0, <2>1
    <3> QED BY <2>4, <3>1
  <2>11. \A q \in LineStarts(file) : file[q] # <<row[p], 1>>
    <3> SUFFICES ASSUME NEW q \in LineStarts(file), file[q] = <<row[p], 1>> PROVE FALSE
      OBVIOUS
    <3>1. PICK r \in Rows : LineAt(file, q, r) /\ file[q] = <<r, 1>>
      BY <1>0, LoadedIs
    <3>2. r = row[p]
      BY <3>1
    <3>3. q \in 1..Len(file) /\ Pieces \in 1..Pieces
      BY <1>0 DEF LineStarts
    <3>4. q + Pieces - 1 \in 1..Len(file) /\ file[q + Pieces - 1] = <<r, Pieces>>
      <4>1. HasText(file, q, r)
        BY <3>1 DEF LineAt
      <4>2. q + Pieces - 1 <= Len(file) /\ file[q + Pieces - 1] = <<r, Pieces>>
        BY <3>3, <4>1 DEF HasText
      <4> QED BY <1>0, <3>3, <4>2
    <3>5. Pieces < next[p]
      BY <1>0, <3>2, <3>3, <3>4 DEF PiecesInv
    <3> QED BY <1>0, <1>6, <3>5
  <2> QED BY <1>0, <2>2, <2>8, <2>9, <2>10, <2>11
<1> QED BY <1>5, <1>6

\* Every step of the writers appends one row at the end of what load()
\* returns, or changes nothing there.
LEMMA StepOfLog ==
    ASSUME TypeOK, TypeOK', LockInv, TailInv, PiecesInv, [Next]_vars
    PROVE  [Log!AAppend]_(Loaded(file))
<1>0. file \in Seq(Symbols) /\ file' \in Seq(Symbols)
  BY DEF TypeOK
<1>1. ASSUME NEW p \in Procs, Write(p) PROVE [Log!AAppend]_(Loaded(file))
  <2> DEFINE S == LineStarts(file)
             T == LineStarts(file')
             c == Cardinality(S)
  <2>0. /\ Len(file) \in Nat /\ S \in SUBSET (1..Len(file)) /\ c \in Nat
        /\ \A i \in 1..Len(file) : file'[i] = file[i]
    <3>1. row[p] \in Rows /\ next[p] \in Nat
      BY <1>1 DEF TypeOK, LockInv, Write
    <3>2. Symbol(row[p], next[p]) \in Symbols /\ file' = Append(file, Symbol(row[p], next[p]))
      BY <1>1, <3>1, SymbolType DEF Write
    <3>3. Len(file) \in Nat /\ \A i \in 1..Len(file) : file'[i] = file[i]
      BY <1>0, <3>2
    <3> QED BY <1>0, <3>3, LoadedIs
  <2>1. /\ Loaded(file) \in Seq(Rows) /\ Len(Loaded(file)) = c
        /\ \A k \in 1..c : Nth(S, k) \in S /\ Loaded(file)[k] = file[Nth(S, k)][1]
    BY <1>0, LoadedIs
  <2>2. /\ Loaded(file') \in Seq(Rows) /\ Len(Loaded(file')) = Cardinality(T)
        /\ \A k \in 1..Cardinality(T) : Loaded(file')[k] = file'[Nth(T, k)][1]
    BY <1>0, LoadedIs
  <2>3. \A k \in 1..c : file'[Nth(S, k)] = file[Nth(S, k)]
    <3> HIDE DEF S, c
    <3> QED BY <2>0, <2>1
  <2>4. CASE T = S
    <3> HIDE DEF S, T
    <3>1. Loaded(file') = Loaded(file)
      BY <2>0, <2>1, <2>2, <2>3, <2>4
    <3> QED BY <3>1
  <2>5. ASSUME NEW z \in 1..Len(file'), T = S \cup {z}, \A q \in S : q < z,
               file'[z] = <<row[p], 1>>, row[p] \in Rows,
               \A q \in S : file[q] # <<row[p], 1>>
        PROVE  Log!AAppend
    <3> DEFINE r == row[p]
    <3>1. /\ Cardinality(T) = c + 1 /\ Nth(T, c + 1) = z
          /\ \A k \in 1..c : Nth(T, k) = Nth(S, k)
      <4>1. z \in Nat \ {0}
        BY <1>0, <2>5
      <4> HIDE DEF S, T
      <4> QED BY <2>0, <2>5, <4>1, NthAdded DEF c
    <3>2. \A q \in S : \E x \in Rows : file[q] = <<x, 1>>
      BY <1>0, LoadedIs
    <3> HIDE DEF S, T, c
    <3>3. ASSUME NEW k \in 1..c PROVE Loaded(file)[k] # r /\ Loaded(file')[k] = Loaded(file)[k]
      <4>1. Nth(S, k) \in S /\ Loaded(file)[k] = file[Nth(S, k)][1]
        BY <2>1, <3>3
      <4>2. PICK x \in Rows : file[Nth(S, k)] = <<x, 1>>
        BY <3>2, <4>1
      <4>3. x # r
        BY <2>5, <4>1, <4>2
      <4>4. Loaded(file')[k] = file'[Nth(S, k)][1]
        BY <2>0, <2>2, <3>1, <3>3
      <4> QED BY <2>3, <3>3, <4>1, <4>2, <4>3, <4>4
    <3>4. Loaded(file')[c + 1] = r
      <4>1. c + 1 \in 1..Cardinality(T)
        BY <2>0, <3>1
      <4>2. Loaded(file')[c + 1] = file'[z][1]
        BY <2>2, <3>1, <4>1
      <4> QED BY <2>5, <4>2
    <3>5. r \notin Log!ToSet(Loaded(file))
      BY <2>0, <2>1, <3>3 DEF Log!ToSet
    <3>6. Loaded(file') = Append(Loaded(file), r)
      <4> DEFINE old == Loaded(file)
                 new == Loaded(file')
      <4>1. /\ old \in Seq(Rows) /\ new \in Seq(Rows) /\ r \in Rows
            /\ Len(old) = c /\ Len(new) = c + 1 /\ c \in Nat
            /\ \A k \in 1..c : new[k] = old[k]
            /\ new[c + 1] = r
        BY <2>0, <2>1, <2>2, <2>5, <3>1, <3>3, <3>4
      <4> HIDE DEF old, new, r
      <4>2. new = Append(old, r)
        BY <4>1
      <4> QED BY <4>2 DEF old, new
    <3> QED BY <2>5, <3>5, <3>6 DEF Log!AAppend
  <2>6. \/ T = S
        \/ \E z \in 1..Len(file') :
              /\ T = S \cup {z} /\ \A q \in S : q < z
              /\ file'[z] = <<row[p], 1>> /\ row[p] \in Rows
              /\ \A q \in S : file[q] # <<row[p], 1>>
    BY <1>1, WriteLines
  <2> HIDE DEF S, T, c
  <2> QED BY <2>4, <2>5, <2>6
<1>2. ASSUME file' = file PROVE [Log!AAppend]_(Loaded(file))
  BY <1>2
<1>3. Next => file' = file \/ \E p \in Procs : Write(p)
  BY DEF Next, Step, Open, Lock, CheckTail, Close, Crash
<1>4. UNCHANGED vars => file' = file
  BY DEF vars
<1> QED BY <1>1, <1>2, <1>3, <1>4

\* The journal implements the log the rest of the program sees: whatever the
\* interleaving of the writers' partial writes, and wherever one of them is
\* killed, load() returns what it returned before, or that and one new row.
THEOREM JournalImplementsLog == Spec => RefinesAtomicLog
<1>1. Init => Log!AInit
  <2> SUFFICES ASSUME Init PROVE Loaded(file) = <<>>
    BY DEF Log!AInit
  <2>1. file = <<>> /\ LineStarts(file) = {}
    BY DEF Init, LineStarts
  <2>2. Cardinality(LineStarts(file)) = 0
    BY <2>1, FS_EmptySet
  <2>3. file \in Seq(Symbols)
    BY <2>1
  <2>4. Loaded(file) \in Seq(Rows) /\ Len(Loaded(file)) = 0
    BY <2>2, <2>3, LoadedIs
  <2> QED BY <2>4
<1>2. Init => OwnerInv /\ PiecesInv
  BY DEF Init, OwnerInv, PiecesInv
<1>3. IndInv /\ OwnerInv /\ PiecesInv /\ [Next]_vars => (OwnerInv /\ PiecesInv)'
  BY OwnerStep, PiecesStep DEF IndInv
<1>4. IndInv /\ IndInv' /\ PiecesInv /\ [Next]_vars => [Log!AAppend]_(Loaded(file))
  BY StepOfLog DEF IndInv
<1> QED BY <1>1, <1>2, <1>3, <1>4, InvariantHolds, PTL
        DEF Spec, RefinesAtomicLog, Log!ASpec

-----------------------------------------------------------------------------
(* Induction over numbers, with a set in the place of the predicate, and   *)
(* the functions defined by recursion over them.                           *)

\* Every number is in a set that has 0 and, with a number, the one after it.
LEMMA SetInduction ==
    ASSUME NEW S, 0 \in S, \A n \in Nat : n \in S => n + 1 \in S
    PROVE  Nat \subseteq S
<1> DEFINE R == OpToRel(<, Nat)
<1>1. \A x, y \in Nat : <<y, x>> \in R <=> y < x
  BY Zenon DEF OpToRel
<1>2. IsWellFoundedOn(R, Nat)
  BY Zenon, NatLessThanWellFounded
<1> HIDE DEF R
<1> SUFFICES ASSUME Nat \ S # {} PROVE FALSE
  OBVIOUS
<1>3. PICK m \in Nat \ S : \A k \in Nat \ S : ~ (<<k, m>> \in R)
  BY <1>2, WFMin
<1>4. m # 0 /\ m - 1 \in Nat /\ m - 1 < m
  OBVIOUS
<1>5. m - 1 \in S
  BY <1>1, <1>3, <1>4
<1> QED BY <1>4, <1>5

\* A value for each number up to n, each from the one before.
Steps(step, n, X) == \A i \in 1..n : \A x \in X : step[i][x] \in X
Iterated(f, n, X, x0, step) ==
    /\ f \in [0..n -> X]
    /\ f[0] = x0 /\ \A i \in 1..n : f[i] = step[i][f[i - 1]]

\* There is a function that starts at x0 and takes each step in turn.
LEMMA Iterates ==
    ASSUME NEW n \in Nat, NEW X, NEW x0 \in X, NEW step, Steps(step, n, X)
    PROVE  \E f : Iterated(f, n, X, x0, step)
<1> USE DEF Steps
<1> DEFINE Upto(m, f) == f[0] = x0 /\ \A i \in 1..m : f[i] = step[i][f[i - 1]]
           S == {m \in Nat : m <= n => \E f \in [0..m -> X] : Upto(m, f)}
<1>1. 0 \in S
  <2> DEFINE f == [i \in 0..0 |-> x0]
  <2>1. f \in [0..0 -> X] /\ Upto(0, f)
    OBVIOUS
  <2> QED BY <2>1
<1>2. ASSUME NEW m \in Nat, m \in S PROVE m + 1 \in S
  <2> SUFFICES ASSUME m + 1 <= n
               PROVE  \E g \in [0..(m + 1) -> X] : Upto(m + 1, g)
    OBVIOUS
  <2>1. PICK f \in [0..m -> X] : Upto(m, f)
    BY <1>2
  <2> DEFINE y == step[m + 1][f[m]]
             g == [i \in 0..(m + 1) |-> IF i = m + 1 THEN y ELSE f[i]]
  <2>2. y \in X
    <3>1. f[m] \in X /\ m + 1 \in 1..n
      OBVIOUS
    <3> QED BY <3>1
  <2> HIDE DEF y
  <2>3. g \in [0..(m + 1) -> X] /\ g[0] = x0
    BY <2>1, <2>2
  <2>4. ASSUME NEW i \in 1..(m + 1) PROVE g[i] = step[i][g[i - 1]]
    <3>1. CASE i = m + 1
      <4>1. g[i] = y /\ g[i - 1] = f[m] /\ i - 1 = m
        BY <3>1
      <4> QED BY <3>1, <4>1 DEF y
    <3>2. CASE i \in 1..m
      <4>1. f[i] = step[i][f[i - 1]]
        BY <2>1, <3>2
      <4>2. g[i] = f[i] /\ g[i - 1] = f[i - 1]
        BY <3>2
      <4> QED BY <4>1, <4>2
    <3> QED BY <3>1, <3>2
  <2> HIDE DEF g
  <2> QED BY <2>3, <2>4
<1>3. n \in S
  <2> HIDE DEF S
  <2> QED BY <1>1, <1>2, SetInduction
<1> QED BY <1>3 DEF Iterated

-----------------------------------------------------------------------------
(* FlattenSeq: each suffix of what it puts together.                       *)

\* T[q] is what ss says from its q-th piece on.
Rests(T, ss, X) ==
    /\ T \in [1..(Len(ss) + 1) -> Seq(X)]
    /\ T[Len(ss) + 1] = <<>>
    /\ \A q \in 1..Len(ss) : T[q] = ss[q] \o T[q + 1]

\* The concatenations of what is left, from each piece on, exist.
LEMMA RestsExist ==
    ASSUME NEW X, NEW ss \in Seq(Seq(X))
    PROVE  \E T : Rests(T, ss, X)
<1> DEFINE L == Len(ss)
           step == [i \in 1..L |-> [x \in Seq(X) |-> ss[L + 1 - i] \o x]]
<1>1. L \in Nat /\ \A i \in 1..L : ss[i] \in Seq(X)
  OBVIOUS
<1>2. ASSUME NEW i \in 1..L, NEW x \in Seq(X)
      PROVE  step[i][x] = ss[L + 1 - i] \o x /\ step[i][x] \in Seq(X)
  <2>1. ss[L + 1 - i] \in Seq(X)
    <3>1. L + 1 - i \in 1..L
      BY <1>1
    <3> QED BY <1>1, <3>1
  <2>2. step[i][x] = ss[L + 1 - i] \o x
    OBVIOUS
  <2> QED BY <2>1, <2>2, ConcatProperties
<1> HIDE DEF step, L
<1>3. <<>> \in Seq(X)
  OBVIOUS
<1>4. PICK f : Iterated(f, L, Seq(X), <<>>, step)
  <2>1. Steps(step, L, Seq(X))
    BY <1>2 DEF Steps
  <2> QED BY <1>1, <1>3, <2>1, Iterates
<1> DEFINE T == [q \in 1..(L + 1) |-> f[L + 1 - q]]
<1>5. T \in [1..(L + 1) -> Seq(X)]
  BY <1>1, <1>4 DEF Iterated
<1>6. T[L + 1] = <<>>
  BY <1>1, <1>4 DEF Iterated
<1>7. ASSUME NEW q \in 1..L PROVE T[q] = ss[q] \o T[q + 1]
  <2> DEFINE i == L + 1 - q
  <2>1. i \in 1..L /\ L + 1 - i = q /\ i - 1 = L + 1 - (q + 1) /\ q + 1 \in 1..(L + 1)
        /\ q \in 1..(L + 1) /\ i - 1 \in 0..L
    BY <1>1
  <2>2. T[q] = f[i] /\ T[q + 1] = f[i - 1]
    BY <2>1
  <2> HIDE DEF i, T
  <2>3. f[i] = step[i][f[i - 1]] /\ f[i - 1] \in Seq(X)
    BY <1>4, <2>1 DEF Iterated
  <2>4. f[i] = ss[q] \o f[i - 1]
    BY <1>2, <2>1, <2>3
  <2> QED BY <2>2, <2>4
<1> HIDE DEF T
<1>8. Rests(T, ss, X)
  BY <1>5, <1>6, <1>7 DEF Rests, L
<1> QED BY <1>8

\* FlattenSeq is the concatenation from the first piece on.
LEMMA FlattenIs ==
    ASSUME NEW X, NEW ss \in Seq(Seq(X)), NEW T, Rests(T, ss, X)
    PROVE  FlattenSeq(ss) = T[1]
<1> DEFINE L == Len(ss)
           P(g) == g = [i \in 1..L |-> IF i = 1 THEN ss[i] ELSE g[i - 1] \o ss[i]]
           h == CHOOSE g : P(g)
           step == [i \in 1..L |-> [x \in Seq(X) |->
                       IF i = 1 THEN ss[1] ELSE x \o ss[i]]]
<1>1. L \in Nat /\ \A i \in 1..L : ss[i] \in Seq(X)
  OBVIOUS
<1>2. ASSUME NEW i \in 1..L, NEW x \in Seq(X)
      PROVE  /\ step[i][x] = IF i = 1 THEN ss[1] ELSE x \o ss[i]
             /\ step[i][x] \in Seq(X)
  <2>1. ss[i] \in Seq(X)
    BY <1>1
  <2>2. step[i][x] = IF i = 1 THEN ss[1] ELSE x \o ss[i]
    OBVIOUS
  <2> QED BY <2>1, <2>2, ConcatProperties
<1> HIDE DEF step
<1>3. CASE L = 0
  <2>1. FlattenSeq(ss) = ss /\ ss = <<>>
    BY <1>3 DEF FlattenSeq
  <2> QED BY <1>3, <2>1 DEF Rests
<1>4. CASE L # 0
  <2>1. FlattenSeq(ss) = h[L]
    BY <1>4 DEF FlattenSeq
  <2> HIDE DEF L
  <2>2. P(h)
    <3>1. <<>> \in Seq(X)
      OBVIOUS
    <3>2. PICK f : Iterated(f, L, Seq(X), <<>>, step)
      <4>1. Steps(step, L, Seq(X))
        BY <1>2 DEF Steps
      <4> QED BY <1>1, <3>1, <4>1, Iterates
    <3> DEFINE g == [i \in 1..L |-> f[i]]
    <3>3. ASSUME NEW i \in 1..L PROVE g[i] = IF i = 1 THEN ss[i] ELSE g[i - 1] \o ss[i]
      <4>1. f[i] = IF i = 1 THEN ss[i] ELSE f[i - 1] \o ss[i]
        <5>1. i - 1 \in 0..L
          BY <1>1
        <5>2. f[i - 1] \in Seq(X)
          BY <3>2, <5>1 DEF Iterated
        <5> QED BY <1>2, <3>2, <5>2 DEF Iterated
      <4>2. i # 1 => i - 1 \in 1..L
        BY <1>1
      <4> QED BY <4>1, <4>2
    <3>4. g = [i \in 1..L |-> g[i]]
      OBVIOUS
    <3> HIDE DEF g
    <3>5. P(g)
      BY <3>3, <3>4
    <3> HIDE DEF P
    <3> QED BY <3>5
  <2> HIDE DEF h
  <2>3. \A i \in 1..L : h[i] = IF i = 1 THEN ss[i] ELSE h[i - 1] \o ss[i]
    BY <2>2
  <2> HIDE DEF P
  <2> DEFINE G(m) == h[m] \in Seq(X) /\ h[m] \o T[m + 1] = T[1]
             S == {m \in Nat : m \in 1..L => G(m)}
  <2>4. ASSUME NEW i \in 1..L, i # 1 PROVE h[i] = h[i - 1] \o ss[i]
    BY <2>3, <2>4
  <2>5. /\ \A q \in 1..L : T[q] = ss[q] \o T[q + 1]
        /\ \A q \in 1..(L + 1) : T[q] \in Seq(X)
        /\ T[L + 1] = <<>>
    BY DEF Rests, L
  <2>6. ASSUME 1 \in 1..L PROVE G(1)
    <3>1. h[1] = ss[1] /\ ss[1] \in Seq(X) /\ T[1] = ss[1] \o T[1 + 1]
      BY <1>1, <2>3, <2>5, <2>6
    <3> QED BY <3>1
  <2>7. ASSUME NEW m \in Nat, m \in 1..L, m + 1 \in 1..L, G(m) PROVE G(m + 1)
    <3>1. m + 1 # 1 /\ m + 1 - 1 = m /\ m + 1 + 1 \in 1..(L + 1)
      BY <1>1, <2>7
    <3>2. h[m] \in Seq(X) /\ h[m] \o T[m + 1] = T[1]
      BY <2>7
    <3>3. h[m + 1] = h[m] \o ss[m + 1] /\ ss[m + 1] \in Seq(X)
      <4> DEFINE i == m + 1
      <4>1. i \in 1..L /\ i # 1 /\ i - 1 = m
        BY <2>7, <3>1
      <4> HIDE DEF i
      <4>2. h[i] = h[i - 1] \o ss[i]
        BY <2>4, <4>1
      <4>3. h[m + 1] = h[m] \o ss[m + 1]
        BY <4>1, <4>2 DEF i
      <4> QED BY <1>1, <2>7, <4>3
    <3>4. T[m + 1] = ss[m + 1] \o T[m + 1 + 1] /\ T[m + 1 + 1] \in Seq(X)
      BY <2>5, <2>7, <3>1
    <3>5. h[m + 1] \in Seq(X)
      BY <3>2, <3>3, ConcatProperties
    <3>6. h[m + 1] \o T[m + 1 + 1] = h[m] \o (ss[m + 1] \o T[m + 1 + 1])
      <4>1. (h[m] \o ss[m + 1]) \o T[m + 1 + 1] = h[m] \o (ss[m + 1] \o T[m + 1 + 1])
        <5> DEFINE u == h[m]
                   v == ss[m + 1]
                   w == T[m + 1 + 1]
        <5>1. u \in Seq(X) /\ v \in Seq(X) /\ w \in Seq(X)
          BY <3>2, <3>3, <3>4
        <5> HIDE DEF u, v, w
        <5>2. (u \o v) \o w = u \o (v \o w)
          BY <5>1, ConcatAssociative
        <5> QED BY <5>2 DEF u, v, w
      <4> QED BY <3>3, <4>1
    <3> QED BY <3>2, <3>4, <3>5, <3>6
  <2>8. G(L)
    <3> HIDE DEF G
    <3>1. 0 \in S
      OBVIOUS
    <3>2. ASSUME NEW m \in Nat, m \in S PROVE m + 1 \in S
      <4> SUFFICES ASSUME m + 1 \in 1..L PROVE G(m + 1)
        OBVIOUS
      <4>1. CASE m = 0
        <5>1. m + 1 = 1
          BY <4>1
        <5> QED BY <2>6, <5>1
      <4>2. CASE m # 0
        <5>1. m \in 1..L
          BY <1>1, <4>2
        <5> QED BY <2>7, <3>2, <5>1
      <4> QED BY <4>1, <4>2
    <3> HIDE DEF S
    <3>3. Nat \subseteq S
      BY <3>1, <3>2, SetInduction
    <3> QED BY <1>1, <1>4, <3>3 DEF S
  <2>9. h[L] \in Seq(X) /\ h[L] \o T[L + 1] = T[1]
    BY <2>8
  <2> HIDE DEF S
  <2>10. h[L] \o <<>> = h[L]
    BY <2>9, ConcatEmptySeq
  <2> QED BY <2>1, <2>5, <2>9, <2>10
<1> QED BY <1>3, <1>4

-----------------------------------------------------------------------------
\* The lines from u on and before v, and one sequence behind another: with names
\* of their own, because the provers expand those of the library.
Between(s, u, v) == SubSeq(s, u, v - 1)
Join(s, t) == s \o t

\* A sequence behind another.
LEMMA JoinType ==
    ASSUME NEW X, NEW s \in Seq(X), NEW t \in Seq(X)
    PROVE  Join(s, t) \in Seq(X)
BY ConcatProperties DEF Join

\* ... or none.
LEMMA JoinEmpty ==
    ASSUME NEW X, NEW s \in Seq(X)
    PROVE  Join(s, <<>>) = s /\ Join(<<>>, s) = s
BY ConcatEmptySeq DEF Join

\* It does not matter which two are joined first.
LEMMA JoinAssociative ==
    ASSUME NEW X, NEW s \in Seq(X), NEW t \in Seq(X), NEW w \in Seq(X)
    PROVE  Join(Join(s, t), w) = Join(s, Join(t, w))
BY ConcatAssociative DEF Join

\* A part of a sequence is one.
LEMMA BetweenType ==
    ASSUME NEW X, NEW s \in Seq(X), NEW u \in 1..(Len(s) + 1), NEW v \in 1..(Len(s) + 1)
    PROVE  Between(s, u, v) \in Seq(X)
<1>1. \A i \in u..(v - 1) : s[i] \in X
  OBVIOUS
<1>2. u \in Int /\ v - 1 \in Int
  OBVIOUS
<1> QED BY <1>1, <1>2, SubSeqProperties DEF Between

\* All of it is itself.
LEMMA BetweenAll ==
    ASSUME NEW X, NEW s \in Seq(X)
    PROVE  Between(s, 1, Len(s) + 1) = s
<1>1. Len(s) + 1 - 1 = Len(s)
  OBVIOUS
<1>2. SubSeq(s, 1, Len(s)) = s
  BY SubSeqFull
<1> QED BY <1>1, <1>2 DEF Between

\* From u on and before v, the pieces are the lines themselves, or nothing.
Plain(ss, lines, u, v) == \A p \in u..(v - 1) : ss[p] = <<lines[p]>>
Empty(ss, u, v) == \A p \in u..(v - 1) : ss[p] = <<>>

\* Joining is associative.
LEMMA JoinAssociates ==
    ASSUME NEW X, NEW r \in Seq(X), NEW m \in Seq(X), NEW w \in Seq(X)
    PROVE  Join(Join(r, m), w) = Join(r, Join(m, w))
<1>1. (r \o m) \o w = r \o (m \o w)
  BY ConcatAssociative
<1> QED BY ONLY <1>1 DEF Join

\* Pieces that are the lines themselves give the lines.
LEMMA Keeps ==
    ASSUME NEW X, NEW lines \in Seq(X), NEW ss \in Seq(Seq(X)), Len(ss) = Len(lines),
           NEW T, Rests(T, ss, X),
           NEW u \in 1..(Len(lines) + 1), NEW v \in u..(Len(lines) + 1),
           Plain(ss, lines, u, v)
    PROVE  T[u] = Join(Between(lines, u, v), T[v])
<1> DEFINE L == Len(lines)
           G(q) == T[q] = SubSeq(lines, q, v - 1) \o T[v]
           S == {j \in Nat : j <= v - u => G(v - j)}
<1>1. L \in Nat /\ u \in Nat \ {0} /\ v \in Nat /\ u <= v /\ v <= L + 1
  OBVIOUS
<1>2. /\ \A q \in 1..(L + 1) : T[q] \in Seq(X)
      /\ \A q \in 1..L : T[q] = ss[q] \o T[q + 1]
  BY DEF Rests
<1>3. \A i \in 1..L : lines[i] \in X
  OBVIOUS
<1> HIDE DEF L
<1>4. G(v)
  <2>1. SubSeq(lines, v, v - 1) = <<>>
    BY <1>1, SubSeqEmpty
  <2>2. T[v] \in Seq(X)
    BY <1>1, <1>2
  <2> QED BY <2>1, <2>2, ConcatEmptySeq
<1>5. ASSUME NEW q \in Nat, u <= q, q < v, G(q + 1) PROVE G(q)
  <2>1. q \in 1..L /\ q + 1 \in 1..(L + 1) /\ q \in u..(v - 1) /\ v - 1 \in q..L
        /\ v - 1 \in Int /\ q + 1 \in Int /\ v \in 1..(L + 1)
    BY <1>1, <1>5
  <2>2. T[q] = <<lines[q]>> \o T[q + 1]
    BY <1>2, <2>1 DEF Plain
  <2>3. SubSeq(lines, q, v - 1) = <<lines[q]>> \o SubSeq(lines, q + 1, v - 1)
    BY <2>1, SubSeqRecursiveFirst DEF L
  <2> DEFINE r == <<lines[q]>>
             m == SubSeq(lines, q + 1, v - 1)
             w == T[v]
  <2>4. r \in Seq(X) /\ m \in Seq(X) /\ w \in Seq(X)
    <3>1. \A i \in (q + 1)..(v - 1) : lines[i] \in X
      BY <1>1, <1>3, <2>1
    <3>2. m \in Seq(X)
      BY <2>1, <3>1, SubSeqProperties
    <3> QED BY <1>2, <1>3, <2>1, <3>2
  <2>5. T[q + 1] = m \o w
    <3>1. T[q + 1] = SubSeq(lines, q + 1, v - 1) \o T[v]
      BY <1>5, Zenon
    <3> QED BY <3>1, Zenon
  <2> HIDE DEF r, m, w
  <2>6. (r \o m) \o w = r \o (m \o w)
    <3>1. Join(Join(r, m), w) = Join(r, Join(m, w))
      BY <2>4, JoinAssociates
    <3> QED BY ONLY <3>1 DEF Join
  <2>7. T[q] = r \o T[q + 1]
    BY <2>2 DEF r
  <2>8. SubSeq(lines, q, v - 1) = r \o m
    BY <2>3 DEF r, m
  <2> QED BY <2>5, <2>6, <2>7, <2>8 DEF w
<1> HIDE DEF G
<1>6. 0 \in S
  <2>1. v - 0 = v
    BY <1>1
  <2> QED BY <1>4, <2>1
<1>7. ASSUME NEW j \in Nat, j \in S PROVE j + 1 \in S
  <2> SUFFICES ASSUME j + 1 <= v - u PROVE G(v - (j + 1))
    OBVIOUS
  <2> DEFINE q == v - (j + 1)
  <2>1. q \in Nat /\ u <= q /\ q < v /\ q + 1 = v - j /\ j <= v - u
    BY <1>1
  <2>2. G(v - j)
    BY <1>7, <2>1
  <2> HIDE DEF q
  <2>3. G(q)
    BY <1>5, <2>1, <2>2
  <2> QED BY <2>3 DEF q
<1>8. v - u \in S
  <2> HIDE DEF S
  <2>1. v - u \in Nat
    BY <1>1
  <2> QED BY <1>6, <1>7, <2>1, SetInduction
<1>9. G(u)
  <2>1. v - (v - u) = u /\ v - u <= v - u
    BY <1>1
  <2>2. G(v - (v - u))
    BY <1>8, <2>1
  <2> QED BY <2>1, <2>2
<1> QED BY <1>9 DEF G, Join, Between

\* Empty pieces give nothing.
LEMMA Skips ==
    ASSUME NEW X, NEW ss \in Seq(Seq(X)), NEW T, Rests(T, ss, X),
           NEW u \in 1..(Len(ss) + 1), NEW v \in u..(Len(ss) + 1),
           Empty(ss, u, v)
    PROVE  T[u] = T[v]
<1> DEFINE L == Len(ss)
           S == {j \in Nat : j <= v - u => T[v - j] = T[v]}
<1>1. L \in Nat /\ u \in Nat \ {0} /\ v \in Nat /\ u <= v /\ v <= L + 1
  OBVIOUS
<1>2. /\ \A q \in 1..(L + 1) : T[q] \in Seq(X)
      /\ \A q \in 1..L : T[q] = ss[q] \o T[q + 1]
  BY DEF Rests
<1> HIDE DEF L
<1>3. ASSUME NEW q \in Nat, u <= q, q < v PROVE T[q] = T[q + 1]
  <2>1. q \in 1..L /\ q + 1 \in 1..(L + 1) /\ q \in u..(v - 1)
    BY <1>1, <1>3
  <2>2. T[q] = <<>> \o T[q + 1] /\ T[q + 1] \in Seq(X)
    BY <1>2, <2>1 DEF Empty
  <2> QED BY <2>2, ConcatEmptySeq
<1>4. 0 \in S
  <2>1. v - 0 = v
    BY <1>1
  <2> QED BY <2>1
<1>5. ASSUME NEW j \in Nat, j \in S PROVE j + 1 \in S
  <2> SUFFICES ASSUME j + 1 <= v - u PROVE T[v - (j + 1)] = T[v]
    OBVIOUS
  <2> DEFINE q == v - (j + 1)
  <2>1. q \in Nat /\ u <= q /\ q < v /\ q + 1 = v - j /\ j <= v - u
    BY <1>1
  <2>2. T[v - j] = T[v]
    BY <1>5, <2>1
  <2> HIDE DEF q
  <2>3. T[q] = T[v]
    BY <1>3, <2>1, <2>2
  <2> QED BY <2>3 DEF q
<1>6. v - u \in S
  <2> HIDE DEF S
  <2>1. v - u \in Nat
    BY <1>1
  <2> QED BY <1>4, <1>5, <2>1, SetInduction
<1>7. v - (v - u) = u /\ v - u <= v - u
  BY <1>1
<1>8. T[v - (v - u)] = T[v]
  BY <1>6, <1>7
<1> QED BY <1>7, <1>8

\* Cutting a sequence that begins as another does.
LEMMA Cut ==
    ASSUME NEW X, NEW lines \in Seq(X), NEW t \in Seq(X),
           NEW m \in 0..Len(lines), NEW k \in 0..m,
           NEW s, s = Join(Between(lines, 1, m + 1), t)
    PROVE  /\ Between(s, 1, k + 1) = Between(lines, 1, k + 1)
           /\ Between(s, k + 1, Len(s) + 1) = Join(Between(lines, k + 1, m + 1), t)
<1> DEFINE a == SubSeq(lines, 1, m)
           b == SubSeq(lines, k + 1, m)
<1>1. s = a \o t
  <2>1. m + 1 - 1 = m
    OBVIOUS
  <2> QED BY <2>1 DEF Join, Between
<1>2. m \in Nat /\ k \in Nat /\ k <= m /\ m <= Len(lines) /\ Len(t) \in Nat
      /\ Len(lines) \in Nat /\ \A i \in 1..Len(lines) : lines[i] \in X
  OBVIOUS
<1>3. a \in Seq(X) /\ Len(a) = m /\ \A i \in 1..m : a[i] = lines[i]
  <2>1. \A i \in 1..m : lines[i] \in X
    BY <1>2
  <2>2. /\ a \in Seq(X)
        /\ Len(a) = IF 1 <= m THEN m - 1 + 1 ELSE 0
        /\ \A i \in 1..(m - 1 + 1) : a[i] = lines[1 + i - 1]
    BY <1>2, <2>1, SubSeqProperties
  <2> QED BY <1>2, <2>2
<1>4. b \in Seq(X) /\ Len(b) = m - k /\ \A i \in 1..(m - k) : b[i] = lines[k + i]
  <2>1. \A i \in (k + 1)..m : lines[i] \in X
    BY <1>2
  <2>2. /\ b \in Seq(X)
        /\ Len(b) = IF k + 1 <= m THEN m - (k + 1) + 1 ELSE 0
        /\ \A i \in 1..(m - (k + 1) + 1) : b[i] = lines[k + 1 + i - 1]
    BY <1>2, <2>1, SubSeqProperties
  <2> QED BY <1>2, <2>2
<1> HIDE DEF a, b
<1>5. /\ s \in Seq(X) /\ Len(s) = m + Len(t)
      /\ \A i \in 1..(m + Len(t)) : s[i] = IF i <= m THEN a[i] ELSE t[i - m]
  <2>1. /\ s \in Seq(X) /\ Len(s) = Len(a) + Len(t)
        /\ \A i \in 1..(Len(a) + Len(t)) : s[i] = IF i <= Len(a) THEN a[i] ELSE t[i - Len(a)]
    <3>1. /\ a \o t \in Seq(X) /\ Len(a \o t) = Len(a) + Len(t)
          /\ \A i \in 1..(Len(a) + Len(t)) :
                 (a \o t)[i] = IF i <= Len(a) THEN a[i] ELSE t[i - Len(a)]
      BY <1>3, ConcatProperties
    <3> QED BY ONLY <1>1, <3>1
  <2> QED BY <1>3, <2>1
<1>6. /\ b \o t \in Seq(X) /\ Len(b \o t) = m - k + Len(t)
      /\ \A i \in 1..(m - k + Len(t)) :
             (b \o t)[i] = IF i <= m - k THEN b[i] ELSE t[i - (m - k)]
  <2>1. /\ b \o t \in Seq(X) /\ Len(b \o t) = Len(b) + Len(t)
        /\ \A i \in 1..(Len(b) + Len(t)) :
               (b \o t)[i] = IF i <= Len(b) THEN b[i] ELSE t[i - Len(b)]
    BY <1>4, ConcatProperties
  <2> QED BY <1>4, <2>1
<1> DEFINE n == Len(t)
           c == SubSeq(s, 1, k)
           d == SubSeq(lines, 1, k)
           e == SubSeq(s, k + 1, m + n)
           g == b \o t
<1>7. c = d
  <2>1. \A i \in 1..k : s[i] \in X /\ s[i] = lines[i]
    <3> SUFFICES ASSUME NEW i \in 1..k PROVE s[i] \in X /\ s[i] = lines[i]
      OBVIOUS
    <3>1. i \in 1..m /\ i \in 1..Len(lines) /\ i \in 1..(m + Len(t)) /\ i <= m
      BY ONLY <1>2, i \in 1..k
    <3>2. a[i] = lines[i] /\ lines[i] \in X
      BY ONLY <1>2, <1>3, <3>1
    <3>3. s[i] = IF i <= m THEN a[i] ELSE t[i - m]
      BY ONLY <1>5, <3>1
    <3> QED BY ONLY <3>1, <3>2, <3>3
  <2>2. \A i \in 1..k : lines[i] \in X
    BY <1>2
  <2>3. /\ c \in Seq(X)
        /\ Len(c) = IF 1 <= k THEN k - 1 + 1 ELSE 0
        /\ \A i \in 1..(k - 1 + 1) : c[i] = s[1 + i - 1]
    BY <1>2, <2>1, SubSeqProperties
  <2>4. /\ d \in Seq(X)
        /\ Len(d) = IF 1 <= k THEN k - 1 + 1 ELSE 0
        /\ \A i \in 1..(k - 1 + 1) : d[i] = lines[1 + i - 1]
    BY <1>2, <2>2, SubSeqProperties
  <2> HIDE DEF c, d
  <2>5. k \in Nat
    BY <1>2
  <2>6. Len(c) = k /\ Len(d) = k /\ \A i \in 1..k : c[i] = s[i] /\ d[i] = lines[i]
    BY ONLY <2>3, <2>4, <2>5
  <2>7. Len(c) = Len(d) /\ \A i \in 1..Len(c) : c[i] = d[i]
    BY ONLY <2>1, <2>6
  <2> QED BY <2>3, <2>4, <2>7, SeqEqual
<1>8. e = g
  <2>1. \A i \in 1..(m + n) : s[i] \in X
    BY <1>5
  <2>2. \A i \in (k + 1)..(m + n) : s[i] \in X
    BY <1>2, <2>1
  <2>3. k + 1 \in Int /\ m + n \in Int
    BY <1>2
  <2>4. /\ e \in Seq(X)
        /\ Len(e) = IF k + 1 <= m + n THEN m + n - (k + 1) + 1 ELSE 0
        /\ \A i \in 1..(m + n - (k + 1) + 1) : e[i] = s[k + 1 + i - 1]
    BY <2>2, <2>3, SubSeqProperties
  <2>5. Len(e) = m - k + n /\ Len(g) = m - k + n /\ g \in Seq(X)
    BY <1>2, <1>6, <2>4
  <2>6. ASSUME NEW i \in 1..(m - k + n) PROVE e[i] = g[i]
    <3>1. e[i] = s[k + i]
      <4>1. i \in 1..(m + n - (k + 1) + 1) /\ k + 1 + i - 1 = k + i
        BY <1>2
      <4> HIDE DEF e
      <4> QED BY <2>4, <4>1
    <3>2. CASE i <= m - k
      <4>1. k + i \in 1..(m + n) /\ k + i <= m /\ k + i \in 1..m /\ i \in 1..(m - k)
        BY <1>2, <3>2
      <4>2. s[k + i] = a[k + i] /\ a[k + i] = lines[k + i]
        BY <1>3, <1>5, <4>1
      <4>3. g[i] = b[i] /\ b[i] = lines[k + i]
        BY <1>4, <1>6, <3>2, <4>1
      <4> QED BY <3>1, <4>2, <4>3
    <3>3. CASE ~(i <= m - k)
      <4>1. k + i \in 1..(m + n) /\ ~(k + i <= m) /\ k + i - m = i - (m - k)
        BY <1>2, <3>3
      <4>2. s[k + i] = t[k + i - m]
        BY <1>5, <4>1
      <4>3. g[i] = t[i - (m - k)]
        BY <1>6, <3>3
      <4> QED BY <3>1, <4>1, <4>2, <4>3
    <3> QED BY <3>2, <3>3
  <2> HIDE DEF e, g, n
  <2> QED BY <2>4, <2>5, <2>6, SeqEqual
<1>9. k + 1 - 1 = k /\ Len(s) + 1 - 1 = m + n /\ m + 1 - 1 = m
  BY <1>2, <1>5
<1> HIDE DEF c, d, e, g
<1>10. Between(s, 1, k + 1) = c /\ Between(lines, 1, k + 1) = d
  BY ONLY <1>9 DEF Between, c, d
<1>11. Between(s, k + 1, Len(s) + 1) = e
  BY ONLY <1>9 DEF Between, e
<1>12. Join(Between(lines, k + 1, m + 1), t) = g
  BY ONLY <1>9 DEF Join, Between, g, b
<1> QED BY ONLY <1>7, <1>8, <1>10, <1>11, <1>12

-----------------------------------------------------------------------------
(* Replacing spans from the bottom up.                                     *)

\* Spans s[1]..e[1], s[2]..e[2] and so on, in order and apart; a last one begins
\* behind the lines.
Apart(s, e, c, lines) ==
    /\ c \in Nat \ {0} /\ s \in [1..(c + 1) -> Nat] /\ e \in [1..c -> Nat]
    /\ s[c + 1] = Len(lines) + 1
    /\ \A k \in 1..c : 1 <= s[k] /\ s[k] <= e[k] /\ e[k] < s[k + 1] /\ s[k + 1] <= Len(lines) + 1

\* What is put in the places of the lines: r[k] for the k-th span.
InPlace(ss, r, s, e, c, lines) ==
    /\ \A k \in 1..c :
          /\ ss[s[k]] = r[k]
          /\ Empty(ss, s[k] + 1, e[k] + 1)
          /\ Plain(ss, lines, e[k] + 1, s[k + 1])
    /\ Plain(ss, lines, 1, s[1])

\* With the spans from the k-th on replaced.
FromSpan(T, s, lines, k) == Join(Between(lines, 1, s[k]), T[s[k]])

\* One more: w with its lines from u on and before v replaced by those of r.
Spliced(w, r, u, v) == Join(Join(Between(w, 1, u), r), Between(w, v, Len(w) + 1))

\* Splicing span after span, the last first, leaves the pieces from each span on
\* behind the lines before it.
LEMMA BottomUp ==
    ASSUME NEW X, NEW lines \in Seq(X), NEW ss \in Seq(Seq(X)), Len(ss) = Len(lines),
           NEW T, Rests(T, ss, X), NEW c, NEW s, NEW e, NEW r,
           Apart(s, e, c, lines), InPlace(ss, r, s, e, c, lines)
    PROVE  /\ \A k \in 1..(c + 1) : FromSpan(T, s, lines, k) \in Seq(X)
           /\ FromSpan(T, s, lines, c + 1) = lines
           /\ FromSpan(T, s, lines, 1) = T[1]
           /\ \A k \in 1..c : FromSpan(T, s, lines, k) =
                                  Spliced(FromSpan(T, s, lines, k + 1), r[k], s[k], e[k] + 1)
<1> DEFINE L == Len(lines)
           W(k) == FromSpan(T, s, lines, k)
<1>1. lines \in Seq(X) /\ ss \in Seq(Seq(X)) /\ Rests(T, ss, X) /\ Len(ss) = Len(lines)
  OBVIOUS
<1>2. L \in Nat /\ c \in Nat /\ c >= 1 /\ Len(ss) = L
  BY DEF Apart
<1>3. \A q \in 1..(L + 1) : T[q] \in Seq(X)
  BY DEF Rests
<1>4. \A k \in 1..(c + 1) : s[k] \in 1..(L + 1)
  BY <1>2 DEF Apart
<1>5. \A k \in 1..c : /\ e[k] \in s[k]..L /\ e[k] + 1 \in 1..s[k + 1]
                      /\ s[k] \in 1..L /\ k + 1 \in 1..(c + 1)
  <2> SUFFICES ASSUME NEW k \in 1..c
               PROVE  /\ e[k] \in s[k]..L /\ e[k] + 1 \in 1..s[k + 1]
                      /\ s[k] \in 1..L /\ k + 1 \in 1..(c + 1)
    OBVIOUS
  <2>1. k \in 1..(c + 1) /\ k + 1 \in 1..(c + 1)
    BY <1>2
  <2>2. s[k] \in Nat /\ s[k + 1] \in Nat /\ e[k] \in Nat
    BY <2>1 DEF Apart
  <2>3. 1 <= s[k] /\ s[k] <= e[k] /\ e[k] < s[k + 1] /\ s[k + 1] <= L + 1
    BY DEF Apart
  <2> QED BY <1>2, <2>1, <2>2, <2>3
<1>6. T[L + 1] = <<>>
  BY DEF Rests
<1>7. \A q \in 1..L : T[q] = Join(ss[q], T[q + 1]) /\ ss[q] \in Seq(X)
  <2>1. \A q \in 1..Len(ss) : T[q] = Join(ss[q], T[q + 1])
    BY DEF Rests, Join
  <2>2. \A q \in 1..Len(ss) : ss[q] \in Seq(X)
    OBVIOUS
  <2> QED BY <1>2, <2>1, <2>2
<1> HIDE DEF L
<1>8. ASSUME NEW k \in 1..(c + 1) PROVE W(k) \in Seq(X)
  <2> DEFINE y == s[k]
             Z == T[y]
  <2>1. y \in 1..(Len(lines) + 1) /\ 1 \in 1..(Len(lines) + 1) /\ Z \in Seq(X)
    BY <1>2, <1>3, <1>4 DEF L
  <2> HIDE DEF y, Z
  <2>2. Between(lines, 1, y) \in Seq(X)
    BY <2>1, BetweenType
  <2>3. Join(Between(lines, 1, y), Z) \in Seq(X)
    BY <2>1, <2>2, JoinType
  <2> QED BY <2>3 DEF FromSpan, y, Z
<1>9. W(c + 1) = lines
  <2>1. s[c + 1] = L + 1
    BY DEF Apart, L
  <2>2. Between(lines, 1, L + 1) = lines
    BY BetweenAll DEF L
  <2>3. Join(lines, <<>>) = lines
    BY JoinEmpty
  <2> QED BY <1>6, <2>1, <2>2, <2>3 DEF FromSpan
<1>10. W(1) = T[1]
  <2> DEFINE y == s[1]
  <2>1. y \in 1..(Len(lines) + 1) /\ 1 \in 1..(Len(lines) + 1)
    BY <1>2, <1>4 DEF L
  <2>2. Plain(ss, lines, 1, y)
    BY DEF InPlace
  <2> HIDE DEF y
  <2>3. T[1] = Join(Between(lines, 1, y), T[y])
    <3>1. \A v \in 1..(Len(lines) + 1) :
              Plain(ss, lines, 1, v) => T[1] = Join(Between(lines, 1, v), T[v])
      <4>1. 1 \in 1..(Len(lines) + 1)
        BY <1>2 DEF L
      <4> QED BY <1>1, <4>1, Keeps
    <3> QED BY <2>1, <2>2, <3>1
  <2> QED BY <2>3 DEF FromSpan, y
<1>11. ASSUME NEW k \in 1..c
       PROVE  W(k) = Spliced(W(k + 1), r[k], s[k], e[k] + 1)
  <2> DEFINE from == s[k]
             upto == e[k] + 1
             y == s[k + 1]
             A == Between(lines, 1, from)
             R == r[k]
             Z == T[y]
             B == T[upto]
             w == W(k + 1)
  <2>1. /\ from \in 1..L /\ upto \in 1..y /\ y \in 1..(L + 1)
        /\ from + 1 \in 1..(L + 1) /\ upto \in (from + 1)..(L + 1) /\ y \in upto..(L + 1)
        /\ upto \in 1..(L + 1) /\ from \in 1..y
    <3>1. /\ e[k] \in s[k]..L /\ e[k] + 1 \in 1..s[k + 1]
          /\ s[k] \in 1..L /\ k + 1 \in 1..(c + 1)
      BY <1>5
    <3>2. s[k + 1] \in 1..(L + 1)
      BY <1>4, <3>1
    <3>3. from \in 1..L /\ e[k] \in from..L /\ upto = e[k] + 1 /\ upto \in 1..y
          /\ y \in 1..(L + 1)
      BY <3>1, <3>2
    <3> HIDE DEF from, upto, y
    <3> QED BY <1>2, <3>3
  <2>2. ss[from] = R /\ Empty(ss, from + 1, upto) /\ Plain(ss, lines, upto, y)
    BY DEF InPlace
  <2>3. W(k) = Join(A, T[from]) /\ w = Join(Between(lines, 1, y), Z)
    BY DEF FromSpan
  <2>4. Z \in Seq(X) /\ B \in Seq(X)
    BY <1>3, <2>1
  <2> HIDE DEF from, upto, y, R, W, w, Z, B
  <2>5. T[upto] = Join(Between(lines, upto, y), T[y])
    <3>1. upto \in 1..(Len(lines) + 1) /\ y \in upto..(Len(lines) + 1)
      BY <2>1 DEF L
    <3> QED BY <2>2, <3>1, Keeps
  <2>6. T[from + 1] = T[upto]
    <3>1. from + 1 \in 1..(Len(ss) + 1) /\ upto \in (from + 1)..(Len(ss) + 1)
      BY <1>2, <2>1
    <3> QED BY <2>2, <3>1, Skips
  <2>7. T[from] = Join(R, B) /\ R \in Seq(X)
    <3>1. T[from] = Join(ss[from], T[from + 1]) /\ ss[from] \in Seq(X)
      BY <1>7, <2>1
    <3> QED BY <2>2, <2>6, <3>1 DEF B
  <2>8. A \in Seq(X)
    <3>1. 1 \in 1..(Len(lines) + 1) /\ from \in 1..(Len(lines) + 1)
      BY <1>2, <2>1 DEF L
    <3> QED BY <3>1, BetweenType
  <2>9. Between(w, 1, from) = A /\ Between(w, upto, Len(w) + 1) = B
    <3> DEFINE m == y - 1
               j == from - 1
               l == upto - 1
    <3>1. /\ m \in 0..Len(lines) /\ j \in 0..m /\ l \in 0..m
          /\ m + 1 = y /\ j + 1 = from /\ l + 1 = upto
      BY <1>2, <2>1 DEF L
    <3> HIDE DEF m, j, l
    <3>2. Between(w, 1, j + 1) = Between(lines, 1, j + 1)
      BY <2>3, <2>4, <3>1, Cut
    <3>3. Between(w, l + 1, Len(w) + 1) = Join(Between(lines, l + 1, m + 1), Z)
      BY <2>3, <2>4, <3>1, Cut
    <3> QED BY <2>5, <3>1, <3>2, <3>3 DEF B, Z
  <2> HIDE DEF A
  <2>10. Join(Join(A, R), B) = Join(A, Join(R, B))
    BY <2>4, <2>7, <2>8, JoinAssociative
  <2>11. W(k) = Spliced(w, R, from, upto)
    BY <2>3, <2>7, <2>9, <2>10 DEF Spliced
  <2> QED BY <2>11 DEF from, upto, R, w
<1> HIDE DEF W
<1>12. /\ \A k \in 1..(c + 1) : W(k) \in Seq(X)
       /\ W(c + 1) = lines /\ W(1) = T[1]
       /\ \A k \in 1..c : W(k) = Spliced(W(k + 1), r[k], s[k], e[k] + 1)
  BY <1>8, <1>9, <1>10, <1>11
<1> QED BY <1>12, Zenon DEF W

-----------------------------------------------------------------------------
(* Where the spans of a plan are.                                          *)

Starts(a, i) == Plan[a][i].start
Ends(a, i) == Plan[a][i].end
Bytes(a, i) == Want(Plan[a][i])

\* What a plan is, and what it saw.
LEMMA PlanFacts ==
    ASSUME NEW a \in Applies, NEW f \in Files
    PROVE  /\ IsFiniteSet(EditsOf(a, f))
           /\ Origin[f] \in Seq(Text)
           /\ \A i \in EditsOf(a, f) :
                 /\ i \in DOMAIN Plan[a] /\ Plan[a][i].file = f
                 /\ Starts(a, i) \in Nat /\ Ends(a, i) \in Nat
                 /\ 1 <= Starts(a, i) /\ Starts(a, i) <= Ends(a, i)
                 /\ Ends(a, i) <= Len(Origin[f])
                 /\ Plan[a][i].repl \in Seq(Text)
                 /\ Bytes(a, i) = SubSeq(Origin[f], Starts(a, i), Ends(a, i))
                 /\ Bytes(a, i) \in Seq(Text)
                 /\ Len(Bytes(a, i)) = Ends(a, i) - Starts(a, i) + 1
<1>1. Plan[a] \in Seq([file : Files, start : Nat, end : Nat, repl : Seq(Text)])
  BY EditAssumption
<1>2. DOMAIN Plan[a] = 1..Len(Plan[a]) /\ Len(Plan[a]) \in Nat
  BY <1>1
<1>3. IsFiniteSet(EditsOf(a, f))
  <2>1. IsFiniteSet(1..Len(Plan[a]))
    BY <1>2, FS_Interval
  <2>2. EditsOf(a, f) \subseteq 1..Len(Plan[a])
    BY <1>2 DEF EditsOf
  <2> QED BY <2>1, <2>2, FS_Subset
<1>4. Origin[f] \in Seq(Text)
  BY EditAssumption
<1>5. ASSUME NEW i \in EditsOf(a, f)
      PROVE  /\ i \in DOMAIN Plan[a] /\ Plan[a][i].file = f
             /\ Starts(a, i) \in Nat /\ Ends(a, i) \in Nat
             /\ 1 <= Starts(a, i) /\ Starts(a, i) <= Ends(a, i)
             /\ Ends(a, i) <= Len(Origin[f])
             /\ Plan[a][i].repl \in Seq(Text)
             /\ Bytes(a, i) = SubSeq(Origin[f], Starts(a, i), Ends(a, i))
             /\ Bytes(a, i) \in Seq(Text)
             /\ Len(Bytes(a, i)) = Ends(a, i) - Starts(a, i) + 1
  <2>1. i \in DOMAIN Plan[a] /\ Plan[a][i].file = f
    BY DEF EditsOf
  <2>2. Plan[a][i] \in [file : Files, start : Nat, end : Nat, repl : Seq(Text)]
    <3>1. i \in 1..Len(Plan[a])
      BY <1>2, <2>1
    <3> QED BY ONLY <1>1, <3>1, ElementOfSeq
  <2>3. Starts(a, i) \in Nat /\ Ends(a, i) \in Nat /\ Plan[a][i].repl \in Seq(Text)
    BY <2>2 DEF Starts, Ends
  <2>4. 1 <= Starts(a, i) /\ Starts(a, i) <= Ends(a, i) /\ Ends(a, i) <= Len(Origin[f])
    <3>1. /\ 1 <= Plan[a][i].start /\ Plan[a][i].start <= Plan[a][i].end
          /\ Plan[a][i].end <= Len(Origin[Plan[a][i].file])
      BY <2>1, EditAssumption
    <3> QED BY <2>1, <3>1 DEF Starts, Ends
  <2>5. Bytes(a, i) = SubSeq(Origin[f], Starts(a, i), Ends(a, i))
    BY <2>1 DEF Bytes, Want, Starts, Ends
  <2> DEFINE o == Origin[f]
             s == Starts(a, i)
             e == Ends(a, i)
  <2>6. \A q \in s..e : o[q] \in Text
    BY <1>4, <2>3, <2>4
  <2>7. s \in Int /\ e \in Int /\ s <= e
    BY <2>3, <2>4
  <2> HIDE DEF o, s, e
  <2>8. SubSeq(o, s, e) \in Seq(Text) /\ Len(SubSeq(o, s, e)) = e - s + 1
    <3>1. /\ SubSeq(o, s, e) \in Seq(Text)
          /\ Len(SubSeq(o, s, e)) = IF s <= e THEN e - s + 1 ELSE 0
      BY ONLY <2>6, <2>7, SubSeqProperties
    <3> QED BY ONLY <2>7, <3>1
  <2> QED BY <2>1, <2>3, <2>4, <2>5, <2>8 DEF o, s, e
<1> QED BY <1>3, <1>4, <1>5

\* A span is looked for where it stands now, and there is one place at most.
LEMMA PlaceFacts ==
    ASSUME NEW a \in Applies, NEW f \in Files, NEW i \in EditsOf(a, f),
           NEW lines \in Seq(Text)
    PROVE  /\ \A s \in Place(lines, Plan[a][i]) :
                 /\ s \in Occurrences(lines, Bytes(a, i))
                 /\ s \in Nat \ {0} /\ s + (Ends(a, i) - Starts(a, i)) <= Len(lines)
           /\ \A s, t \in Place(lines, Plan[a][i]) : s = t
           /\ Starts(a, i) \in Occurrences(lines, Bytes(a, i))
                  => Place(lines, Plan[a][i]) = {Starts(a, i)}
<1> DEFINE places == Occurrences(lines, Bytes(a, i))
           P == Place(lines, Plan[a][i])
           B == Bytes(a, i)
<1>1. P = (CASE Starts(a, i) \in places -> {Starts(a, i)}
             [] Starts(a, i) \notin places /\ Cardinality(places) = 1
                /\ Len(lines) - Len(B) + 1 <= MaxCandidates -> places
             [] OTHER -> {})
  BY DEF Place, Bytes, Starts
<1>2. /\ Starts(a, i) \in Nat /\ Ends(a, i) \in Nat /\ Len(lines) \in Nat
      /\ Len(B) = Ends(a, i) - Starts(a, i) + 1
  BY PlanFacts
<1>3. places \subseteq 1..(Len(lines) - Len(B) + 1)
  BY DEF Occurrences
<1> HIDE DEF places, P, B
<1>4. Cardinality(places) = 1 => \A s, t \in places : s = t
  <2>1. IsFiniteSet(places)
    <3>1. IsFiniteSet(1..(Len(lines) - Len(B) + 1))
      <4>1. Len(lines) - Len(B) + 1 \in Int /\ 1 \in Int
        BY <1>2
      <4> QED BY <4>1, FS_Interval
    <3> QED BY <1>3, <3>1, FS_Subset
  <2>2. ASSUME Cardinality(places) = 1 PROVE \A s, t \in places : s = t
    <3>1. \E x : places = {x}
      BY <2>1, <2>2, FS_Singleton
    <3> QED BY <3>1
  <2> QED BY <2>2
<1>5. \/ P = {Starts(a, i)} /\ Starts(a, i) \in places
      \/ P = places /\ Cardinality(places) = 1 /\ Starts(a, i) \notin places
      \/ P = {} /\ Starts(a, i) \notin places
  <2>1. CASE Starts(a, i) \in places
    BY <1>1, <2>1
  <2>2. CASE /\ Starts(a, i) \notin places /\ Cardinality(places) = 1
             /\ Len(lines) - Len(B) + 1 <= MaxCandidates
    BY <1>1, <2>2
  <2>3. CASE /\ Starts(a, i) \notin places
             /\ ~(Cardinality(places) = 1 /\ Len(lines) - Len(B) + 1 <= MaxCandidates)
    BY <1>1, <2>3
  <2> QED BY <2>1, <2>2, <2>3
<1>6. ASSUME NEW s \in P
      PROVE  /\ s \in places
             /\ s \in Nat \ {0} /\ s + (Ends(a, i) - Starts(a, i)) <= Len(lines)
  <2>1. s \in places
    BY <1>5
  <2>2. s \in 1..(Len(lines) - Len(B) + 1)
    BY <1>3, <2>1
  <2> QED BY <1>2, <2>1, <2>2
<1>7. \A s, t \in P : s = t
  BY <1>4, <1>5
<1>8. Starts(a, i) \in places => P = {Starts(a, i)}
  BY <1>5
<1> QED BY <1>6, <1>7, <1>8 DEF places, P

\* All spans are in the file, apart, n lines from where they were planned.
Spans(a, f, lines, n) ==
    /\ n \in Int
    /\ \A i \in EditsOf(a, f) :
          1 <= Starts(a, i) + n /\ Ends(a, i) + n <= Len(lines)
    /\ \A i, j \in EditsOf(a, f) :
          i = j \/ Starts(a, i) > Ends(a, j) \/ Starts(a, j) > Ends(a, i)

\* If a content resolves, all spans are in it, moved by one offset, with the bytes
\* they had.
LEMMA ResolvedSpans ==
    ASSUME NEW a \in Applies, NEW f \in Files, EditsOf(a, f) # {},
           NEW lines \in Seq(Text), Resolves(a, f, lines)
    PROVE  LET n == Shift(a, f, lines)
           IN  /\ Spans(a, f, lines, n)
               /\ n \in -Len(Origin[f])..Len(lines)
               /\ a \in ExactFiles => n = 0
               /\ \A i \in EditsOf(a, f) :
                     Starts(a, i) + n \in Occurrences(lines, Bytes(a, i))
<1> DEFINE n == Shift(a, f, lines)
           E == EditsOf(a, f)
           N == Shifts(a, f, lines)
           P(i) == Place(lines, Plan[a][i])
<1>1. \A i \in E : /\ Starts(a, i) \in Nat /\ Ends(a, i) \in Nat
                   /\ 1 <= Starts(a, i) /\ Starts(a, i) <= Ends(a, i)
                   /\ Ends(a, i) <= Len(Origin[f])
  BY PlanFacts
<1>2. Origin[f] \in Seq(Text) /\ Len(Origin[f]) \in Nat /\ Len(lines) \in Nat
  BY PlanFacts
<1>3. \A i \in E : \A s \in P(i) : s - Starts(a, i) \in N
  <2> SUFFICES ASSUME NEW i \in E, NEW s \in P(i) PROVE s - Starts(a, i) \in N
    OBVIOUS
  <2> DEFINE M == {r - Plan[a][i].start : r \in Place(lines, Plan[a][i])}
  <2>1. s - Starts(a, i) \in M
    BY DEF Starts
  <2>2. M \in {{r - Plan[a][j].start : r \in Place(lines, Plan[a][j])} : j \in EditsOf(a, f)}
    OBVIOUS
  <2> HIDE DEF M
  <2>3. M \subseteq N
    BY <2>2, Zenon DEF Shifts
  <2> QED BY <2>1, <2>3
<1>4. \A l, m \in N : l = m
  BY DEF Resolves
<1>5. \A i \in E : P(i) # {}
  BY DEF Resolves
<1>6. N # {} /\ n \in N
  <2>1. N # {}
    BY <1>3, <1>5
  <2> HIDE DEF N
  <2> QED BY <2>1 DEF Shift, N
<1> HIDE DEF n, N
<1>7. ASSUME NEW i \in E
      PROVE  /\ Starts(a, i) + n \in P(i) /\ n \in Int
             /\ Starts(a, i) + n \in Occurrences(lines, Bytes(a, i))
             /\ 1 <= Starts(a, i) + n /\ Ends(a, i) + n <= Len(lines)
  <2>1. PICK s \in P(i) : TRUE
    BY <1>5
  <2>2. s - Starts(a, i) = n
    BY <1>3, <1>4, <1>6
  <2>3. /\ s \in Occurrences(lines, Bytes(a, i))
        /\ s \in Nat \ {0} /\ s + (Ends(a, i) - Starts(a, i)) <= Len(lines)
    BY PlaceFacts
  <2>4. s = Starts(a, i) + n /\ n \in Int
    BY <1>1, <2>2, <2>3
  <2> QED BY <1>1, <1>2, <2>1, <2>3, <2>4
<1>8. n \in Int /\ n \in -Len(Origin[f])..Len(lines)
  <2>1. PICK i \in E : TRUE
    OBVIOUS
  <2> QED BY <1>1, <1>2, <1>7
<1>9. ASSUME a \in ExactFiles PROVE n = 0
  <2>1. PICK i \in E : TRUE
    OBVIOUS
  <2>2. lines = Origin[f]
    BY <1>9 DEF Resolves
  <2>3. Starts(a, i) \in Occurrences(lines, Bytes(a, i))
    <3> DEFINE s == Starts(a, i)
               e == Ends(a, i)
               B == Bytes(a, i)
    <3>1. B = SubSeq(lines, s, e) /\ Len(B) = e - s + 1
      BY <2>2, PlanFacts
    <3>2. s \in Nat /\ e \in Nat /\ 1 <= s /\ s <= e /\ e <= Len(lines)
      BY <1>1, <2>2
    <3> HIDE DEF s, e, B
    <3>3. s \in 1..(Len(lines) - Len(B) + 1) /\ s + Len(B) - 1 = e
      BY <1>2, <3>1, <3>2
    <3>4. SubSeq(lines, s, s + Len(B) - 1) = B
      BY <3>1, <3>3
    <3>5. s \in Occurrences(lines, B)
      BY <3>3, <3>4 DEF Occurrences
    <3> QED BY <3>5 DEF s, B
  <2>4. P(i) = {Starts(a, i)}
    BY <2>3, PlaceFacts
  <2>5. Starts(a, i) + n = Starts(a, i)
    BY <1>7, <2>4
  <2> QED BY <1>1, <1>8, <2>5
<1>10. Spans(a, f, lines, n)
  <2>1. \A i, j \in E : i = j \/ Starts(a, i) > Ends(a, j) \/ Starts(a, j) > Ends(a, i)
    BY DEF Resolves, Starts, Ends
  <2> QED BY <1>7, <1>8, <2>1 DEF Spans
<1> QED BY <1>7, <1>8, <1>9, <1>10 DEF n

-----------------------------------------------------------------------------
(* A finite set in order.                                                  *)

Orders(R, S) ==
    /\ \A x \in S : <<x, x>> \notin R
    /\ \A x, y \in S : x # y => <<x, y>> \in R \/ <<y, x>> \in R
    /\ \A x, y, z \in S : <<x, y>> \in R /\ <<y, z>> \in R => <<x, z>> \in R

\* What a set of n elements in an order R is as a sequence.
Sorts(f, n, R, S) ==
    /\ f \in [1..n -> S]
    /\ \A k, l \in 1..n : k < l => <<f[k], f[l]>> \in R
    /\ \A x \in S : \E k \in 1..n : f[k] = x

\* InOrder is the order, from any finite set and any order of it.
LEMMA InOrderSorts ==
    ASSUME NEW S, IsFiniteSet(S), NEW R, Orders(R, S)
    PROVE  Cardinality(S) \in Nat /\ Sorts(InOrder(S, R), Cardinality(S), R, S)
<1> DEFINE n == Cardinality(S)
           Below(x) == {y \in S : <<y, x>> \in R}
           rank == [x \in S |-> Cardinality(Below(x)) + 1]
           f == InOrder(S, R)
<1>1. n \in Nat
  BY FS_CardinalityType
<1>2. \A x \in S : IsFiniteSet(Below(x)) /\ Cardinality(Below(x)) \in 0..(n - 1)
  <2> SUFFICES ASSUME NEW x \in S
               PROVE  IsFiniteSet(Below(x)) /\ Cardinality(Below(x)) \in 0..(n - 1)
    OBVIOUS
  <2>1. IsFiniteSet(S \ {x}) /\ Cardinality(S \ {x}) = n - 1
    BY FS_RemoveElement
  <2>2. Below(x) \in SUBSET (S \ {x})
    BY DEF Orders
  <2> HIDE DEF Below
  <2>3. IsFiniteSet(Below(x)) /\ Cardinality(Below(x)) <= n - 1
    BY <2>1, <2>2, FS_Subset
  <2>4. Cardinality(Below(x)) \in Nat
    BY <2>3, FS_CardinalityType
  <2> QED BY <1>1, <2>3, <2>4
<1>3. \A x, y \in S : <<x, y>> \in R => Cardinality(Below(x)) < Cardinality(Below(y))
  <2> SUFFICES ASSUME NEW x \in S, NEW y \in S, <<x, y>> \in R
               PROVE  Cardinality(Below(x)) < Cardinality(Below(y))
    OBVIOUS
  <2>1. Below(x) \in SUBSET Below(y) /\ x \in Below(y) /\ x \notin Below(x)
    BY DEF Orders
  <2>2. Below(x) # Below(y)
    BY <2>1
  <2> HIDE DEF Below
  <2>3. /\ IsFiniteSet(Below(y)) /\ Cardinality(Below(x)) \in Nat
        /\ Cardinality(Below(y)) \in Nat
    BY <1>1, <1>2
  <2>4. /\ Cardinality(Below(x)) <= Cardinality(Below(y))
        /\ Cardinality(Below(x)) # Cardinality(Below(y))
    BY <2>1, <2>2, <2>3, FS_Subset
  <2> QED BY <2>3, <2>4
<1> HIDE DEF n
<1>4. rank \in Injection(S, 1..n)
  <2>1. rank \in [S -> 1..n]
    <3> HIDE DEF Below
    <3> QED BY <1>1, <1>2
  <2>2. \A x, y \in S : x # y => rank[x] # rank[y]
    <3> HIDE DEF Below
    <3>1. \A x \in S : Cardinality(Below(x)) \in Nat
      BY <1>1, <1>2
    <3>2. \A x, y \in S : x # y =>
             \/ Cardinality(Below(x)) < Cardinality(Below(y))
             \/ Cardinality(Below(y)) < Cardinality(Below(x))
      BY <1>3 DEF Orders
    <3> QED BY <3>1, <3>2
  <2> HIDE DEF rank
  <2> QED BY <2>1, <2>2 DEF Injection, IsInjective
<1>5. \A k \in 1..n : \E x \in S : rank[x] = k
  <2>1. IsFiniteSet(1..n) /\ Cardinality(1..n) = n
    BY <1>1, FS_Interval
  <2> HIDE DEF rank
  <2>2. rank \in Surjection(S, 1..n)
    BY <1>4, <2>1, FS_Injection DEF n
  <2> QED BY <2>2 DEF Surjection
<1>6. \A k \in 1..n : f[k] \in S /\ rank[f[k]] = k
  <2> SUFFICES ASSUME NEW k \in 1..n
               PROVE  f[k] \in S /\ rank[f[k]] = k
    OBVIOUS
  <2>1. f[k] = CHOOSE x \in S : Cardinality(Below(x)) = k - 1
    BY DEF InOrder, n
  <2> HIDE DEF f
  <2>2. PICK x \in S : rank[x] = k
    BY <1>5
  <2>3. Cardinality(Below(x)) \in Nat
    BY <1>1, <1>2
  <2>4. Cardinality(Below(x)) = k - 1
    <3> HIDE DEF Below
    <3> QED BY <2>2, <2>3
  <2>5. f[k] \in S /\ Cardinality(Below(f[k])) = k - 1
    <3> HIDE DEF Below
    <3> QED BY <2>1, <2>4
  <2> HIDE DEF Below
  <2> QED BY <1>1, <2>5
<1>7. f \in [1..n -> S]
  BY <1>6 DEF InOrder, n
<1>8. \A k, l \in 1..n : k < l => <<f[k], f[l]>> \in R
  <2> SUFFICES ASSUME NEW k \in 1..n, NEW l \in 1..n, k < l
               PROVE  <<f[k], f[l]>> \in R
    OBVIOUS
  <2> HIDE DEF f
  <2>1. f[k] \in S /\ f[l] \in S /\ rank[f[k]] = k /\ rank[f[l]] = l
    BY <1>6
  <2>2. <<f[k], f[l]>> \in R \/ <<f[l], f[k]>> \in R
    <3> HIDE DEF rank
    <3>1. f[k] # f[l]
      BY <1>1, <2>1
    <3> QED BY <2>1, <3>1 DEF Orders
  <2>3. CASE <<f[l], f[k]>> \in R
    <3> HIDE DEF Below
    <3>1. Cardinality(Below(f[l])) < Cardinality(Below(f[k]))
      BY <1>3, <2>1, <2>3
    <3>2. Cardinality(Below(f[l])) \in Nat /\ Cardinality(Below(f[k])) \in Nat
      BY <1>1, <1>2, <2>1
    <3>3. Cardinality(Below(f[l])) + 1 = l /\ Cardinality(Below(f[k])) + 1 = k
      BY <2>1
    <3> QED BY <1>1, <3>1, <3>2, <3>3
  <2> QED BY <2>2, <2>3
<1>9. \A x \in S : \E k \in 1..n : f[k] = x
  <2> SUFFICES ASSUME NEW x \in S PROVE \E k \in 1..n : f[k] = x
    OBVIOUS
  <2> HIDE DEF f, rank
  <2>1. rank[x] \in 1..n
    BY <1>4 DEF Injection, IsInjective
  <2>2. f[rank[x]] \in S /\ rank[f[rank[x]]] = rank[x]
    BY <1>6, <2>1
  <2>3. f[rank[x]] = x
    BY <1>4, <2>2 DEF Injection, IsInjective
  <2> QED BY <2>1, <2>3
<1> QED BY <1>1, <1>7, <1>8, <1>9 DEF Sorts, n

-----------------------------------------------------------------------------
(* What is staged is what is expected.                                     *)

\* The spans of a file in the order they are spliced.
LEMMA OrderedSpans ==
    ASSUME NEW a \in Applies, NEW f \in Files, NEW lines, NEW n, Spans(a, f, lines, n)
    PROVE  LET c == Cardinality(EditsOf(a, f))
               order == Ordered(a, f)
           IN  /\ c \in Nat /\ order \in [1..c -> EditsOf(a, f)]
               /\ \A k, l \in 1..c : k < l => Ends(a, order[k]) < Starts(a, order[l])
               /\ \A i \in EditsOf(a, f) : \E k \in 1..c : order[k] = i
<1> DEFINE E == EditsOf(a, f)
           c == Cardinality(E)
           order == Ordered(a, f)
           R == {p \in E \X E : Plan[a][p[1]].start < Plan[a][p[2]].start}
<1>1. IsFiniteSet(E) /\ \A i \in E : Starts(a, i) \in Nat /\ Ends(a, i) \in Nat
                                     /\ Starts(a, i) <= Ends(a, i)
  BY PlanFacts
<1>2. \A i, j \in E : <<i, j>> \in R <=> Starts(a, i) < Starts(a, j)
  BY DEF Starts
<1>3. \A i, j \in E : i = j \/ Starts(a, i) > Ends(a, j) \/ Starts(a, j) > Ends(a, i)
  BY DEF Spans
<1>4. order = InOrder(E, R)
  BY DEF Ordered
<1> HIDE DEF R, E
<1>5. Orders(R, E)
  <2>1. \A x \in E : <<x, x>> \notin R
    BY <1>1, <1>2
  <2>2. \A x, y \in E : x # y => <<x, y>> \in R \/ <<y, x>> \in R
    BY <1>1, <1>2, <1>3
  <2>3. \A x, y, z \in E : <<x, y>> \in R /\ <<y, z>> \in R => <<x, z>> \in R
    BY <1>1, <1>2
  <2> QED BY <2>1, <2>2, <2>3 DEF Orders
<1>6. c \in Nat /\ Sorts(order, c, R, E)
  BY <1>1, <1>4, <1>5, InOrderSorts
<1> HIDE DEF order, c
<1>7. order \in [1..c -> E] /\ \A i \in E : \E k \in 1..c : order[k] = i
  BY <1>6 DEF Sorts
<1>8. ASSUME NEW k \in 1..c, NEW l \in 1..c, k < l
      PROVE  Ends(a, order[k]) < Starts(a, order[l])
  <2>1. order[k] \in E /\ order[l] \in E
    BY <1>7
  <2>2. Starts(a, order[k]) < Starts(a, order[l])
    BY <1>2, <1>6, <1>8, <2>1 DEF Sorts
  <2> QED BY <1>1, <1>3, <2>1, <2>2
<1> QED BY <1>6, <1>7, <1>8 DEF order, c, E

\* What Expected puts in the place of the p-th line.
Piece(a, f, lines, n, p) ==
    LET start == {i \in EditsOf(a, f) : p = Plan[a][i].start + n}
        inside == {i \in EditsOf(a, f) :
                      Plan[a][i].start + n < p /\ p <= Plan[a][i].end + n}
    IN  IF start # {} THEN Plan[a][CHOOSE i \in start : TRUE].repl
        ELSE IF inside # {} THEN <<>> ELSE <<lines[p]>>

\* A line is the replacement, nothing, or itself.
LEMMA PieceIs ==
    ASSUME NEW a \in Applies, NEW f \in Files, NEW lines \in Seq(Text), NEW n,
           Spans(a, f, lines, n), NEW p \in 1..Len(lines)
    PROVE  /\ Piece(a, f, lines, n, p) \in Seq(Text)
           /\ \A i \in EditsOf(a, f) :
                 /\ p = Starts(a, i) + n => Piece(a, f, lines, n, p) = Plan[a][i].repl
                 /\ Starts(a, i) + n < p /\ p <= Ends(a, i) + n => Piece(a, f, lines, n, p) = <<>>
           /\ (\A i \in EditsOf(a, f) : p < Starts(a, i) + n \/ Ends(a, i) + n < p) =>
                  Piece(a, f, lines, n, p) = <<lines[p]>>
<1> DEFINE E == EditsOf(a, f)
           start == {i \in E : p = Starts(a, i) + n}
           inside == {i \in E : Starts(a, i) + n < p /\ p <= Ends(a, i) + n}
           R == Piece(a, f, lines, n, p)
<1>1. R = IF start # {} THEN Plan[a][CHOOSE i \in start : TRUE].repl
          ELSE IF inside # {} THEN <<>> ELSE <<lines[p]>>
  BY DEF Piece, Starts, Ends
<1>2. \A i \in E : /\ Starts(a, i) \in Nat /\ Ends(a, i) \in Nat
                   /\ Starts(a, i) <= Ends(a, i) /\ Plan[a][i].repl \in Seq(Text)
  BY PlanFacts
<1>3. /\ n \in Int
      /\ \A i, j \in E : i = j \/ Starts(a, i) > Ends(a, j) \/ Starts(a, j) > Ends(a, i)
  BY DEF Spans
<1>4. \A i \in E : i \in start <=> p = Starts(a, i) + n
  OBVIOUS
<1>5. \A i \in E : i \in inside <=> Starts(a, i) + n < p /\ p <= Ends(a, i) + n
  OBVIOUS
<1>6. start \subseteq E /\ inside \subseteq E /\ lines[p] \in Text
  OBVIOUS
<1> HIDE DEF start, inside, R, E
<1>7. \A i, j \in start : i = j
  <2> SUFFICES ASSUME NEW i \in start, NEW j \in start PROVE i = j
    OBVIOUS
  <2>1. i \in E /\ j \in E
    BY <1>6
  <2>2. p = Starts(a, i) + n /\ p = Starts(a, j) + n
    BY <1>4, <2>1
  <2> QED BY <1>2, <1>3, <2>1, <2>2
<1>8. ASSUME NEW i \in start PROVE R = Plan[a][i].repl
  <2>1. (CHOOSE j \in start : TRUE) = i
    BY <1>7
  <2> QED BY <1>1, <2>1
<1>9. ASSUME NEW i \in inside PROVE R = <<>>
  <2>1. ASSUME NEW j \in start PROVE FALSE
    <3>1. i \in E /\ j \in E
      BY <1>6
    <3>2. p = Starts(a, j) + n /\ Starts(a, i) + n < p /\ p <= Ends(a, i) + n
      BY <1>4, <1>5, <3>1
    <3> QED BY <1>2, <1>3, <3>1, <3>2
  <2> QED BY <1>1, <2>1
<1>10. ASSUME \A i \in E : p < Starts(a, i) + n \/ Ends(a, i) + n < p
       PROVE  R = <<lines[p]>>
  <2>1. ASSUME NEW i \in E PROVE i \notin start /\ i \notin inside
    <3>1. p < Starts(a, i) + n \/ Ends(a, i) + n < p
      BY <1>10
    <3> QED BY <1>2, <1>3, <1>4, <1>5, <3>1
  <2>2. start = {} /\ inside = {}
    BY <1>6, <2>1
  <2> QED BY <1>1, <2>2
<1>11. R \in Seq(Text)
  <2>1. CASE start # {}
    <3>1. PICK i \in start : TRUE
      BY <2>1
    <3>2. R = Plan[a][i].repl /\ i \in E
      BY <1>6, <1>8
    <3> QED BY <1>2, <3>2
  <2>2. CASE start = {} /\ inside # {}
    <3>1. R = <<>>
      BY <1>1, <2>2
    <3> QED BY <3>1
  <2>3. CASE start = {} /\ inside = {}
    <3>1. R = <<lines[p]>>
      BY <1>1, <2>3
    <3> QED BY <1>6, <3>1
  <2> QED BY <2>1, <2>2, <2>3
<1> QED BY <1>4, <1>5, <1>8, <1>9, <1>10, <1>11 DEF R, E

\* Splicing is replacing a span.
LEMMA SpliceIs ==
    ASSUME NEW a \in Applies, NEW f \in Files, NEW i \in EditsOf(a, f), NEW n \in Int,
           NEW w \in Seq(Text)
    PROVE  Splice(Plan[a][i], n, w) =
               Spliced(w, Plan[a][i].repl, Starts(a, i) + n, Ends(a, i) + n + 1)
<1>1. (Len(w) + 1) - 1 = Len(w)
  OBVIOUS
<1> DEFINE u == Starts(a, i) + n
           v == Ends(a, i) + n + 1
           r == Plan[a][i].repl
<1>2. Splice(Plan[a][i], n, w) = Join(Join(Between(w, 1, u), r), SubSeq(w, v, Len(w)))
  <2>1. /\ Plan[a][i].start + n - 1 = u - 1
        /\ Plan[a][i].end + n + 1 = v
    <3>1. Plan[a][i].start \in Nat /\ Plan[a][i].end \in Nat
      BY PlanFacts DEF Starts, Ends
    <3> QED BY <3>1 DEF Starts, Ends
  <2> HIDE DEF u, v
  <2> QED BY <2>1, Zenon DEF Splice, Join, Between
<1>3. Between(w, v, Len(w) + 1) = SubSeq(w, v, Len(w))
  <2> HIDE DEF v
  <2> QED BY <1>1, Zenon DEF Between
<1> HIDE DEF u, v, r
<1>4. Splice(Plan[a][i], n, w) = Spliced(w, r, u, v)
  BY <1>2, <1>3, Zenon DEF Spliced
<1> QED BY <1>4 DEF u, v, r

\* Two functions that agree at n + 1, and at a number when they do at the next.
LEMMA AgreeDown ==
    ASSUME NEW n \in Nat, NEW g, NEW h, g[n + 1] = h[n + 1],
           \A k \in 1..n : g[k + 1] = h[k + 1] => g[k] = h[k]
    PROVE  g[1] = h[1]
<1> DEFINE S == {j \in Nat : j <= n => g[n + 1 - j] = h[n + 1 - j]}
<1>1. 0 \in S
  <2>1. n + 1 - 0 = n + 1
    OBVIOUS
  <2> QED BY <2>1
<1>2. ASSUME NEW j \in Nat, j \in S PROVE j + 1 \in S
  <2> SUFFICES ASSUME j + 1 <= n PROVE g[n + 1 - (j + 1)] = h[n + 1 - (j + 1)]
    OBVIOUS
  <2> DEFINE k == n + 1 - (j + 1)
  <2>1. k \in 1..n /\ k + 1 = n + 1 - j /\ j <= n
    OBVIOUS
  <2>2. g[n + 1 - j] = h[n + 1 - j]
    BY <1>2, <2>1
  <2> HIDE DEF k
  <2>3. g[k] = h[k]
    BY <2>1, <2>2
  <2> QED BY <2>3 DEF k
<1>3. n \in S
  <2> HIDE DEF S
  <2> QED BY <1>1, <1>2, SetInduction
<1>4. n + 1 - n = 1
  OBVIOUS
<1>5. g[n + 1 - n] = h[n + 1 - n]
  BY <1>3
<1> QED BY <1>4, <1>5

\* What the loop of _prepare leaves is the content with its spans replaced.
LEMMA ReplacedIs ==
    ASSUME NEW a \in Applies, NEW f \in Files, EditsOf(a, f) # {},
           NEW lines \in Seq(Text), Spans(a, f, lines, Shift(a, f, lines))
    PROVE  /\ Replaced(a, f, lines) = Expected(a, f, lines, Shift(a, f, lines))
           /\ Replaced(a, f, lines) \in Seq(Text)
<1> DEFINE n == Shift(a, f, lines)
           E == EditsOf(a, f)
           c == Cardinality(E)
           order == Ordered(a, f)
           ss == [p \in DOMAIN lines |-> Piece(a, f, lines, n, p)]
           s == [k \in 1..(c + 1) |->
                    IF k > c THEN Len(lines) + 1 ELSE Starts(a, order[k]) + n]
           e == [k \in 1..c |-> Ends(a, order[k]) + n]
           r == [k \in 1..c |-> Plan[a][order[k]].repl]
<1>1. /\ c \in Nat /\ order \in [1..c -> E]
      /\ \A k, l \in 1..c : k < l => Ends(a, order[k]) < Starts(a, order[l])
      /\ \A i \in E : \E k \in 1..c : order[k] = i
  BY OrderedSpans
<1>2. /\ n \in Int
      /\ \A i \in E : 1 <= Starts(a, i) + n /\ Ends(a, i) + n <= Len(lines)
  BY DEF Spans
<1>3. \A i \in E : /\ Starts(a, i) \in Nat /\ Ends(a, i) \in Nat
                   /\ Starts(a, i) <= Ends(a, i) /\ Plan[a][i].repl \in Seq(Text)
  BY PlanFacts
<1>4. c # 0
  BY <1>1
<1>5. DOMAIN lines = 1..Len(lines) /\ Len(lines) \in Nat
  OBVIOUS
<1>6. Expected(a, f, lines, n) = FlattenSeq(ss)
  BY Zenon DEF Expected, Piece
<1>7. Replaced(a, f, lines) =
          LET from[k \in 1..(c + 1)] ==
                  IF k > c THEN lines ELSE Splice(Plan[a][order[k]], n, from[k + 1])
          IN  from[1]
  BY Zenon DEF Replaced
<1> HIDE DEF n, c, order, E
<1>8. /\ ss \in Seq(Seq(Text)) /\ Len(ss) = Len(lines)
      /\ \A p \in 1..Len(lines) : ss[p] = Piece(a, f, lines, n, p)
  <2>1. \A p \in 1..Len(lines) : Piece(a, f, lines, n, p) \in Seq(Text)
    BY PieceIs DEF n
  <2> QED BY <1>5, <2>1
<1> HIDE DEF ss
<1>9. \A k \in 1..c : /\ order[k] \in E /\ k + 1 \in 1..(c + 1) /\ k \in 1..(c + 1)
                      /\ s[k] = Starts(a, order[k]) + n
                      /\ e[k] = Ends(a, order[k]) + n /\ r[k] = Plan[a][order[k]].repl
                      /\ 1 <= s[k] /\ s[k] <= e[k] /\ e[k] <= Len(lines)
                      /\ s[k] \in Nat /\ e[k] \in Nat
  BY <1>1, <1>2, <1>3
<1>10. s[c + 1] = Len(lines) + 1 /\ c + 1 \in 1..(c + 1)
  BY <1>1
<1>11. \A k \in 1..c : e[k] < s[k + 1] /\ s[k + 1] <= Len(lines) + 1
  <2> SUFFICES ASSUME NEW k \in 1..c
               PROVE  e[k] < s[k + 1] /\ s[k + 1] <= Len(lines) + 1
    OBVIOUS
  <2>1. CASE k = c
    <3>1. s[k + 1] = Len(lines) + 1
      BY <1>10, <2>1
    <3>2. e[k] <= Len(lines) /\ e[k] \in Nat
      BY <1>9
    <3> HIDE DEF s, e
    <3> QED BY <1>5, <3>1, <3>2
  <2>2. CASE k # c
    <3>1. k + 1 \in 1..c /\ k < k + 1
      BY <1>1, <2>2
    <3>2. Ends(a, order[k]) < Starts(a, order[k + 1])
      BY <1>1, <3>1
    <3>3. order[k] \in E /\ order[k + 1] \in E
      BY <1>9, <3>1
    <3>4. /\ e[k] = Ends(a, order[k]) + n /\ s[k + 1] = Starts(a, order[k + 1]) + n
          /\ s[k + 1] <= e[k + 1] /\ e[k + 1] <= Len(lines)
          /\ s[k + 1] \in Nat /\ e[k + 1] \in Nat
      BY <1>9, <3>1
    <3>5. Ends(a, order[k]) \in Nat /\ Starts(a, order[k + 1]) \in Nat
      BY <1>3, <3>3
    <3> HIDE DEF s, e
    <3> QED BY <1>2, <1>5, <3>2, <3>4, <3>5
  <2> QED BY <2>1, <2>2
<1>12. Apart(s, e, c, lines)
  <2>1. s \in [1..(c + 1) -> Nat]
    <3> SUFFICES ASSUME NEW k \in 1..(c + 1) PROVE s[k] \in Nat
      OBVIOUS
    <3>1. CASE k = c + 1
      BY <1>5, <1>10, <3>1
    <3>2. CASE k # c + 1
      <4>1. k \in 1..c
        BY <1>1, <3>2
      <4> QED BY <1>9, <4>1
    <3> QED BY <3>1, <3>2
  <2>2. e \in [1..c -> Nat]
    BY <1>9
  <2> HIDE DEF s, e
  <2> QED BY <1>1, <1>4, <1>9, <1>10, <1>11, <2>1, <2>2 DEF Apart
<1> HIDE DEF s, e, r
\* The spans before the k-th end before it, those behind it begin behind it.
<1>13. ASSUME NEW k \in 1..c, NEW p \in (e[k] + 1)..(s[k + 1] - 1)
       PROVE  p \in 1..Len(lines) /\ ss[p] = <<lines[p]>>
  <2>1. s[k + 1] \in Nat /\ s[k] \in Nat /\ e[k] \in Nat /\ s[k + 1] <= Len(lines) + 1
        /\ 1 <= s[k] /\ s[k] <= e[k]
    BY <1>9, <1>11, <1>12 DEF Apart
  <2>2. p \in 1..Len(lines)
    BY <1>5, <2>1
  <2>3. ASSUME NEW i \in E PROVE p < Starts(a, i) + n \/ Ends(a, i) + n < p
    <3>1. PICK l \in 1..c : order[l] = i
      BY <1>1
    <3>2. s[l] = Starts(a, i) + n /\ e[l] = Ends(a, i) + n /\ e[l] \in Nat /\ s[l] \in Nat
      BY <1>9, <3>1
    <3>3. CASE l = k
      BY <2>1, <3>2, <3>3
    <3>4. CASE l < k
      <4>1. Ends(a, order[l]) < Starts(a, order[k])
        BY <1>1, <3>4
      <4>2. e[l] < s[k]
        BY <1>2, <1>3, <1>9, <3>1, <4>1
      <4> QED BY <2>1, <3>2, <4>2
    <3>5. CASE l > k
      <4>1. k + 1 \in 1..c
        BY <1>1, <3>5
      <4>2. s[k + 1] <= s[l]
        <5>1. CASE l = k + 1
          BY <3>2, <5>1
        <5>2. CASE l # k + 1
          <6>1. Ends(a, order[k + 1]) < Starts(a, order[l])
            BY <1>1, <3>5, <4>1, <5>2
          <6>2. e[k + 1] < s[l] /\ s[k + 1] <= e[k + 1] /\ e[k + 1] \in Nat
            BY <1>2, <1>3, <1>9, <3>1, <4>1, <6>1
          <6> QED BY <2>1, <3>2, <6>2
        <5> QED BY <5>1, <5>2
      <4> QED BY <2>1, <3>2, <4>2
    <3> QED BY <3>3, <3>4, <3>5
  <2>4. Piece(a, f, lines, n, p) = <<lines[p]>>
    BY <2>2, <2>3, PieceIs DEF n, E
  <2> QED BY <1>8, <2>2, <2>4
<1>14. ASSUME NEW p \in 1..(s[1] - 1) PROVE ss[p] = <<lines[p]>>
  <2>1. 1 \in 1..c
    BY <1>1, <1>4
  <2>2. s[1] \in Nat /\ s[1] <= Len(lines)
    BY <1>5, <1>9, <2>1
  <2>3. p \in 1..Len(lines)
    BY <1>5, <2>2
  <2>4. ASSUME NEW i \in E PROVE p < Starts(a, i) + n
    <3>1. PICK l \in 1..c : order[l] = i
      BY <1>1
    <3>2. s[l] = Starts(a, i) + n /\ s[l] \in Nat
      BY <1>9, <3>1
    <3>3. s[1] <= s[l]
      <4>1. CASE l = 1
        BY <3>2, <4>1
      <4>2. CASE l # 1
        <5>1. Ends(a, order[1]) < Starts(a, order[l])
          BY <1>1, <2>1, <4>2
        <5>2. s[1] <= e[1] /\ e[1] < s[l] /\ e[1] \in Nat
          BY <1>2, <1>3, <1>9, <2>1, <3>1, <5>1
        <5> QED BY <2>2, <3>2, <5>2
      <4> QED BY <4>1, <4>2
    <3> QED BY <2>2, <3>2, <3>3
  <2>5. Piece(a, f, lines, n, p) = <<lines[p]>>
    BY <2>3, <2>4, PieceIs DEF n, E
  <2> QED BY <1>8, <2>3, <2>5
<1>15. ASSUME NEW k \in 1..c
       PROVE  ss[s[k]] = r[k] /\ \A p \in (s[k] + 1)..e[k] : ss[p] = <<>>
  <2> DEFINE i == order[k]
             y == s[k]
  <2>1. /\ i \in E /\ y = Starts(a, i) + n /\ e[k] = Ends(a, i) + n
        /\ r[k] = Plan[a][i].repl
        /\ y \in 1..Len(lines) /\ e[k] \in Nat /\ y \in Nat /\ e[k] <= Len(lines)
    BY <1>5, <1>9
  <2> HIDE DEF i, y
  <2>2. Piece(a, f, lines, n, y) = Plan[a][i].repl
    BY <2>1, PieceIs DEF n, E
  <2>3. ASSUME NEW p \in (y + 1)..e[k] PROVE ss[p] = <<>>
    <3>1. p \in 1..Len(lines) /\ Starts(a, i) + n < p /\ p <= Ends(a, i) + n
      BY <1>5, <2>1
    <3>2. Piece(a, f, lines, n, p) = <<>>
      BY <2>1, <3>1, PieceIs DEF n, E
    <3> QED BY <1>8, <3>1, <3>2
  <2> QED BY <1>8, <2>1, <2>2, <2>3 DEF y
<1>16. InPlace(ss, r, s, e, c, lines)
  <2>1. \A k \in 1..c : e[k] \in Nat
    BY <1>9
  <2>2. ASSUME NEW k \in 1..c
        PROVE  /\ Empty(ss, s[k] + 1, e[k] + 1) /\ Plain(ss, lines, e[k] + 1, s[k + 1])
    <3>1. (e[k] + 1) - 1 = e[k]
      BY <2>1
    <3>2. \A p \in (s[k] + 1)..((e[k] + 1) - 1) : ss[p] = <<>>
      BY <1>15, <3>1
    <3>3. \A p \in (e[k] + 1)..(s[k + 1] - 1) : ss[p] = <<lines[p]>>
      BY <1>13
    <3>4. Empty(ss, s[k] + 1, e[k] + 1)
      BY ONLY <3>2 DEF Empty
    <3>5. Plain(ss, lines, e[k] + 1, s[k + 1])
      BY ONLY <3>3 DEF Plain
    <3> QED BY <3>4, <3>5
  <2>3. Plain(ss, lines, 1, s[1])
    BY <1>14 DEF Plain
  <2> QED BY <1>15, <2>2, <2>3 DEF InPlace
<1>17. PICK T : Rests(T, ss, Text)
  BY <1>8, RestsExist
<1>18. FlattenSeq(ss) = T[1]
  BY <1>8, <1>17, FlattenIs
<1> DEFINE W(k) == FromSpan(T, s, lines, k)
<1>19. /\ \A k \in 1..(c + 1) : W(k) \in Seq(Text)
       /\ W(c + 1) = lines /\ W(1) = T[1]
       /\ \A k \in 1..c : W(k) = Spliced(W(k + 1), r[k], s[k], e[k] + 1)
  BY <1>8, <1>12, <1>16, <1>17, BottomUp
<1> HIDE DEF W
<1>20. \A k \in 1..c : W(k) = Splice(Plan[a][order[k]], n, W(k + 1))
  <2> SUFFICES ASSUME NEW k \in 1..c
               PROVE  W(k) = Splice(Plan[a][order[k]], n, W(k + 1))
    OBVIOUS
  <2> DEFINE i == order[k]
             w == W(k + 1)
  <2>1. i \in EditsOf(a, f) /\ w \in Seq(Text)
    BY <1>9, <1>19 DEF E
  <2>2. s[k] = Starts(a, i) + n /\ e[k] = Ends(a, i) + n /\ r[k] = Plan[a][i].repl
    BY <1>9
  <2>3. W(k) = Spliced(w, r[k], s[k], e[k] + 1)
    BY <1>19
  <2> HIDE DEF i, w
  <2>4. Splice(Plan[a][i], n, w) =
            Spliced(w, Plan[a][i].repl, Starts(a, i) + n, Ends(a, i) + n + 1)
    BY <1>2, <2>1, SpliceIs
  <2>5. W(k) = Splice(Plan[a][i], n, w)
    BY <2>2, <2>3, <2>4
  <2> QED BY <2>5 DEF i, w
<1> DEFINE P(g) == g = [k \in 1..(c + 1) |->
                           IF k > c THEN lines ELSE Splice(Plan[a][order[k]], n, g[k + 1])]
           h == CHOOSE g : P(g)
           v == [k \in 1..(c + 1) |-> W(k)]
<1>21. Replaced(a, f, lines) = h[1]
  BY <1>7
<1>22. P(v)
  <2>1. ASSUME NEW k \in 1..(c + 1)
        PROVE  v[k] = IF k > c THEN lines ELSE Splice(Plan[a][order[k]], n, v[k + 1])
    <3>1. CASE k = c + 1
      BY <1>1, <1>19, <3>1
    <3>2. CASE k # c + 1
      <4>1. k \in 1..c /\ ~(k > c) /\ k + 1 \in 1..(c + 1)
        BY <1>1, <3>2
      <4>2. v[k] = W(k) /\ v[k + 1] = W(k + 1)
        BY <4>1
      <4> HIDE DEF v
      <4> QED BY <1>20, <4>1, <4>2
    <3> QED BY <3>1, <3>2
  <2>2. v = [k \in 1..(c + 1) |-> v[k]]
    OBVIOUS
  <2> HIDE DEF v
  <2> QED BY <2>1, <2>2
<1>23. P(h)
  <2> HIDE DEF P, v
  <2> QED BY <1>22
<1> HIDE DEF h
<1>24. h[1] = v[1]
  <2>1. h[c + 1] = v[c + 1]
    <3>1. h[c + 1] = lines /\ v[c + 1] = lines
      <4>1. c + 1 > c
        BY <1>1
      <4> QED BY <1>10, <1>19, <1>23, <4>1
    <3> QED BY <3>1
  <2>2. ASSUME NEW k \in 1..c, h[k + 1] = v[k + 1] PROVE h[k] = v[k]
    <3>1. ~(k > c) /\ k \in 1..(c + 1) /\ k + 1 \in 1..(c + 1)
      BY <1>1
    <3>2. h[k] = Splice(Plan[a][order[k]], n, h[k + 1])
      BY <1>23, <3>1
    <3>3. v[k] = W(k) /\ v[k + 1] = W(k + 1)
      BY <3>1
    <3> HIDE DEF v
    <3> QED BY <1>20, <2>2, <3>2, <3>3
  <2> HIDE DEF v
  <2> QED BY <1>1, <2>1, <2>2, AgreeDown
<1>25. v[1] = W(1) /\ W(1) \in Seq(Text)
  BY <1>1, <1>19
<1> HIDE DEF v
<1> QED BY <1>6, <1>18, <1>19, <1>21, <1>24, <1>25 DEF n

-----------------------------------------------------------------------------
(* Which lines there are after a replacement.                              *)

\* The members of a sequence.
LEMMA ToSetIs ==
    ASSUME NEW X, NEW s \in Seq(X)
    PROVE  /\ ToSet(s) \subseteq X
           /\ \A x : x \in ToSet(s) <=> \E i \in 1..Len(s) : s[i] = x
<1>1. DOMAIN s = 1..Len(s) /\ \A i \in 1..Len(s) : s[i] \in X
  OBVIOUS
<1> QED BY <1>1 DEF ToSet

\* ... and of two.
LEMMA ToSetJoin ==
    ASSUME NEW X, NEW s \in Seq(X), NEW t \in Seq(X)
    PROVE  ToSet(s \o t) = ToSet(s) \cup ToSet(t)
<1> DEFINE w == s \o t
<1>1. /\ w \in Seq(X) /\ Len(w) = Len(s) + Len(t)
      /\ \A i \in 1..(Len(s) + Len(t)) :
            w[i] = IF i <= Len(s) THEN s[i] ELSE t[i - Len(s)]
  BY ConcatProperties
<1>2. Len(s) \in Nat /\ Len(t) \in Nat
  OBVIOUS
<1> HIDE DEF w
<1>3. ASSUME NEW x \in ToSet(w) PROVE x \in ToSet(s) \cup ToSet(t)
  <2>1. PICK i \in 1..Len(w) : w[i] = x
    BY <1>1, ToSetIs
  <2>2. CASE i <= Len(s)
    <3>1. i \in 1..Len(s) /\ s[i] = x
      BY <1>1, <1>2, <2>1, <2>2
    <3> QED BY <3>1, ToSetIs
  <2>3. CASE ~(i <= Len(s))
    <3>1. i - Len(s) \in 1..Len(t) /\ t[i - Len(s)] = x
      BY <1>1, <1>2, <2>1, <2>3
    <3> QED BY <3>1, ToSetIs
  <2> QED BY <2>2, <2>3
<1>4. ASSUME NEW x \in ToSet(s) PROVE x \in ToSet(w)
  <2>1. PICK i \in 1..Len(s) : s[i] = x
    BY ToSetIs
  <2>2. i \in 1..Len(w) /\ w[i] = x
    BY <1>1, <1>2, <2>1
  <2> QED BY <1>1, <2>2, ToSetIs
<1>5. ASSUME NEW x \in ToSet(t) PROVE x \in ToSet(w)
  <2>1. PICK i \in 1..Len(t) : t[i] = x
    BY ToSetIs
  <2> DEFINE j == i + Len(s)
  <2>2. j \in 1..Len(w) /\ ~(j <= Len(s)) /\ j - Len(s) = i
    BY <1>1, <1>2
  <2> HIDE DEF j
  <2>3. w[j] = x
    BY <1>1, <2>1, <2>2
  <2> QED BY <1>1, <2>2, <2>3, ToSetIs
<1> QED BY <1>3, <1>4, <1>5 DEF w

\* FlattenSeq has what its pieces have.
LEMMA FlattenHas ==
    ASSUME NEW X, NEW ss \in Seq(Seq(X))
    PROVE  \A x : x \in ToSet(FlattenSeq(ss)) <=> \E p \in 1..Len(ss) : x \in ToSet(ss[p])
<1> DEFINE L == Len(ss)
<1>1. PICK T : Rests(T, ss, X)
  BY RestsExist
<1>2. L \in Nat /\ \A q \in 1..L : ss[q] \in Seq(X)
  OBVIOUS
<1>3. /\ \A q \in 1..L : T[q] = ss[q] \o T[q + 1]
      /\ \A q \in 1..(L + 1) : T[q] \in Seq(X)
      /\ T[L + 1] = <<>>
  BY <1>1 DEF Rests
<1>4. FlattenSeq(ss) = T[1]
  BY <1>1, FlattenIs
<1> HIDE DEF L
<1> DEFINE Has(q, x) == \E p \in q..L : x \in ToSet(ss[p])
           G(q) == \A x : x \in ToSet(T[q]) <=> Has(q, x)
           S == {j \in Nat : j <= L => G(L + 1 - j)}
<1>5. G(L + 1)
  <2>1. ToSet(T[L + 1]) = {}
    BY <1>3 DEF ToSet
  <2>2. (L + 1)..L = {}
    BY <1>2
  <2> QED BY <2>1, <2>2
<1>6. ASSUME NEW q \in 1..L, G(q + 1) PROVE G(q)
  <2>1. q + 1 \in 1..(L + 1) /\ q \in Nat
    BY <1>2
  <2>2. ToSet(T[q]) = ToSet(ss[q]) \cup ToSet(T[q + 1])
    <3> DEFINE s == ss[q]
               t == T[q + 1]
    <3>1. s \in Seq(X) /\ t \in Seq(X) /\ T[q] = s \o t
      BY <1>2, <1>3, <2>1
    <3> HIDE DEF s, t
    <3>2. ToSet(s \o t) = ToSet(s) \cup ToSet(t)
      BY <3>1, ToSetJoin
    <3> QED BY <3>1, <3>2 DEF s, t
  <2>3. ASSUME NEW x PROVE Has(q, x) <=> x \in ToSet(ss[q]) \/ Has(q + 1, x)
    <3>1. q..L = {q} \cup ((q + 1)..L)
      BY <1>2, <2>1
    <3> QED BY <3>1
  <2> HIDE DEF Has
  <2> QED BY <1>6, <2>2, <2>3
<1> HIDE DEF G
<1>7. 0 \in S
  <2>1. (L + 1) - 0 = L + 1
    BY <1>2
  <2> QED BY <1>5, <2>1
<1>8. ASSUME NEW j \in Nat, j \in S PROVE j + 1 \in S
  <2> SUFFICES ASSUME j + 1 <= L PROVE G(L + 1 - (j + 1))
    OBVIOUS
  <2> DEFINE q == L + 1 - (j + 1)
  <2>1. q \in 1..L /\ q + 1 = L + 1 - j /\ j <= L
    BY <1>2
  <2>2. G(L + 1 - j)
    BY <1>8, <2>1
  <2> HIDE DEF q
  <2>3. G(q)
    BY <1>6, <2>1, <2>2
  <2> QED BY <2>3 DEF q
<1>9. L \in S
  <2> HIDE DEF S
  <2> QED BY <1>2, <1>7, <1>8, SetInduction
<1>10. G(1)
  <2>1. L + 1 - L = 1
    BY <1>2
  <2>2. G(L + 1 - L)
    BY <1>9
  <2> QED BY <2>1, <2>2
<1> QED BY <1>4, <1>10 DEF G, L

\* What is staged has every line written, loses none that the plan did not see
\* in the file, and has no other line but those that were there.
LEMMA ReplacedFacts ==
    ASSUME NEW a \in Applies, NEW f \in Files, EditsOf(a, f) # {},
           NEW lines \in Seq(Text), Resolves(a, f, lines)
    PROVE  LET after == Replaced(a, f, lines)
           IN  /\ after \in Seq(Text)
               /\ Wrote(a, f) \subseteq ToSet(after)
               /\ ToSet(after) \subseteq ToSet(lines) \cup Wrote(a, f)
               /\ ToSet(lines) \subseteq ToSet(after) \cup ToSet(Origin[f])
<1> DEFINE n == Shift(a, f, lines)
           E == EditsOf(a, f)
           L == Len(lines)
           after == Replaced(a, f, lines)
           ss == [p \in DOMAIN lines |-> Piece(a, f, lines, n, p)]
<1>1. /\ Spans(a, f, lines, n)
      /\ \A i \in E : Starts(a, i) + n \in Occurrences(lines, Bytes(a, i))
  BY ResolvedSpans
<1>2. /\ n \in Int
      /\ \A i \in E : 1 <= Starts(a, i) + n /\ Ends(a, i) + n <= L
  BY <1>1 DEF Spans
<1>3. /\ Origin[f] \in Seq(Text)
      /\ \A i \in E : /\ Starts(a, i) \in Nat /\ Ends(a, i) \in Nat
                      /\ 1 <= Starts(a, i) /\ Starts(a, i) <= Ends(a, i)
                      /\ Ends(a, i) <= Len(Origin[f])
                      /\ Plan[a][i].repl \in Seq(Text)
                      /\ Bytes(a, i) = SubSeq(Origin[f], Starts(a, i), Ends(a, i))
                      /\ Bytes(a, i) \in Seq(Text)
                      /\ Len(Bytes(a, i)) = Ends(a, i) - Starts(a, i) + 1
  BY PlanFacts
<1>4. after = FlattenSeq(ss) /\ after \in Seq(Text)
  <2>1. /\ after = Expected(a, f, lines, n) /\ after \in Seq(Text)
    BY <1>1, ReplacedIs
  <2>2. Expected(a, f, lines, n) = FlattenSeq(ss)
    BY Zenon DEF Expected, Piece
  <2> QED BY <2>1, <2>2
<1>5. L \in Nat /\ DOMAIN lines = 1..L /\ \A p \in 1..L : lines[p] \in Text
  OBVIOUS
<1> HIDE DEF n, after
<1>6. \A p \in 1..L : /\ Piece(a, f, lines, n, p) \in Seq(Text)
                      /\ \A i \in E :
                            p = Starts(a, i) + n => Piece(a, f, lines, n, p) = Plan[a][i].repl
                      /\ (\A i \in E : p < Starts(a, i) + n \/ Ends(a, i) + n < p) =>
                            Piece(a, f, lines, n, p) = <<lines[p]>>
  BY <1>1, PieceIs
<1>7. ss \in Seq(Seq(Text)) /\ Len(ss) = L
      /\ \A p \in 1..L : ss[p] = Piece(a, f, lines, n, p)
  BY <1>5, <1>6
<1> HIDE DEF ss
<1>8. \A x : x \in ToSet(after) <=>
                \E p \in 1..L : x \in ToSet(Piece(a, f, lines, n, p))
  <2>1. \A x : x \in ToSet(after) <=> \E p \in 1..Len(ss) : x \in ToSet(ss[p])
    BY <1>4, <1>7, FlattenHas
  <2> QED BY <1>7, <2>1
<1>9. \A x : x \in Wrote(a, f) <=> \E i \in E : x \in ToSet(Plan[a][i].repl)
  BY DEF Wrote
<1>10. \A x : x \in ToSet(lines) <=> \E p \in 1..L : lines[p] = x
  BY ToSetIs
<1> HIDE DEF L, E
<1>11. ASSUME NEW x \in Wrote(a, f) PROVE x \in ToSet(after)
  <2>1. PICK i \in E : x \in ToSet(Plan[a][i].repl)
    BY <1>9
  <2> DEFINE p == Starts(a, i) + n
  <2>2. p \in 1..L
    BY <1>2, <1>3, <1>5
  <2> HIDE DEF p
  <2>3. Piece(a, f, lines, n, p) = Plan[a][i].repl
    BY <1>6, <2>2 DEF p
  <2> QED BY <1>8, <2>1, <2>2, <2>3
<1>12. ASSUME NEW x \in ToSet(after) PROVE x \in ToSet(lines) \cup Wrote(a, f)
  <2>1. PICK p \in 1..L : x \in ToSet(Piece(a, f, lines, n, p))
    BY <1>8
  <2>2. \/ \E i \in E : p = Starts(a, i) + n
        \/ \E i \in E : Starts(a, i) + n < p /\ p <= Ends(a, i) + n
        \/ \A i \in E : p < Starts(a, i) + n \/ Ends(a, i) + n < p
    <3>1. ASSUME NEW i \in E
          PROVE  \/ p = Starts(a, i) + n
                 \/ Starts(a, i) + n < p /\ p <= Ends(a, i) + n
                 \/ p < Starts(a, i) + n \/ Ends(a, i) + n < p
      <4>1. Starts(a, i) + n \in Int /\ Ends(a, i) + n \in Int /\ p \in Int
        BY <1>2, <1>3
      <4> QED BY <4>1
    <3> QED BY <3>1
  <2>3. CASE \E i \in E : p = Starts(a, i) + n
    BY <1>6, <1>9, <2>1, <2>3
  <2>4. CASE \E i \in E : Starts(a, i) + n < p /\ p <= Ends(a, i) + n
    <3>1. Piece(a, f, lines, n, p) = <<>>
      BY <1>1, <2>4, PieceIs DEF E, L
    <3>2. ToSet(<<>>) = {}
      BY DEF ToSet
    <3> QED BY <2>1, <3>1, <3>2
  <2>5. CASE \A i \in E : p < Starts(a, i) + n \/ Ends(a, i) + n < p
    <3>1. Piece(a, f, lines, n, p) = <<lines[p]>>
      BY <1>6, <2>5
    <3>2. ToSet(<<lines[p]>>) = {lines[p]}
      BY DEF ToSet
    <3> QED BY <1>10, <2>1, <3>1, <3>2
  <2> QED BY <2>2, <2>3, <2>4, <2>5
<1>13. ASSUME NEW x \in ToSet(lines), x \notin ToSet(Origin[f]) PROVE x \in ToSet(after)
  <2>1. PICK p \in 1..L : lines[p] = x
    BY <1>10
  <2>2. ASSUME NEW i \in E PROVE p < Starts(a, i) + n \/ Ends(a, i) + n < p
    <3> SUFFICES ASSUME Starts(a, i) + n <= p, p <= Ends(a, i) + n PROVE FALSE
      BY <1>2, <1>3, <1>5
    <3> DEFINE s == Starts(a, i)
               e == Ends(a, i)
               B == Bytes(a, i)
               t == s + n
               q == p - t + 1
               o == Origin[f]
    <3>1. /\ s \in Nat /\ e \in Nat /\ 1 <= s /\ s <= e /\ e <= Len(o) /\ o \in Seq(Text)
          /\ B = SubSeq(o, s, e) /\ B \in Seq(Text) /\ Len(B) = e - s + 1
          /\ t \in Int /\ t <= p /\ p <= e + n /\ p \in Int
      BY <1>2, <1>3, <1>5
    <3>2. SubSeq(lines, t, t + Len(B) - 1) = B
      BY <1>1 DEF Occurrences, E
    <3>3. 1 <= t /\ e + n <= L /\ t = s + n /\ n \in Int
      BY <1>2
    <3> HIDE DEF s, e, B, o, t
    <3>4. t + Len(B) - 1 = e + n /\ q \in 1..((e + n) - t + 1) /\ q \in 1..(e - s + 1)
          /\ t + q - 1 = p /\ s + q - 1 \in 1..Len(o)
      BY <3>1, <3>3
    <3> HIDE DEF q
    <3>5. e + n \in Int /\ t \in Int
      BY <1>2, <3>1
    <3> DEFINE m == e + n
    <3>6. B = SubSeq(lines, t, m) /\ q \in 1..(m - t + 1)
      BY <3>2, <3>4
    <3>7. \A r \in t..m : lines[r] \in Text
      <4>1. \A r \in t..m : r \in 1..L
        BY <1>5, <3>1, <3>3, <3>5
      <4> QED BY <1>5, <4>1
    <3> HIDE DEF m
    <3>8. SubSeq(lines, t, m)[q] = lines[t + q - 1]
      BY <3>5, <3>6, <3>7, SubSeqProperties DEF m
    <3>9. SubSeq(o, s, e)[q] = o[s + q - 1]
      <4>1. \A r \in s..e : o[r] \in Text
        BY <3>1
      <4>2. s \in Int /\ e \in Int
        BY <3>1
      <4> QED BY <3>4, <4>1, <4>2, SubSeqProperties
    <3>10. o[s + q - 1] = x
      BY <2>1, <3>1, <3>4, <3>6, <3>8, <3>9
    <3>11. x \in ToSet(o)
      BY <3>1, <3>4, <3>10, ToSetIs
    <3> QED BY <1>13, <3>11 DEF o
  <2>3. Piece(a, f, lines, n, p) = <<lines[p]>>
    BY <1>6, <2>2
  <2>4. ToSet(<<lines[p]>>) = {lines[p]}
    BY DEF ToSet
  <2> QED BY <1>8, <2>1, <2>3, <2>4
<1> QED BY <1>4, <1>11, <1>12, <1>13 DEF after

-----------------------------------------------------------------------------
(* The state of an apply.                                                  *)

\* The targets of an apply are the files its plan has edits for, and there are some.
LEMMA TargetsFacts ==
    ASSUME NEW a \in Applies
    PROVE  /\ Targets(a) \in Seq(Files) /\ Len(Targets(a)) \in Nat \ {0}
           /\ DOMAIN Targets(a) = 1..Len(Targets(a))
           /\ \A k \in 1..Len(Targets(a)) : EditsOf(a, Targets(a)[k]) # {}
           /\ \A f \in Files : EditsOf(a, f) # {} =>
                 \E k \in 1..Len(Targets(a)) : Targets(a)[k] = f
<1> DEFINE S == {i \in DOMAIN FileSeq : EditsOf(a, FileSeq[i]) # {}}
           R == {p \in S \X S : p[1] < p[2]}
           c == Cardinality(S)
           order == InOrder(S, R)
           T == [k \in 1..c |-> FileSeq[order[k]]]
<1>1. Targets(a) = T
  BY DEF Targets
<1>2. DOMAIN FileSeq = 1..Len(FileSeq) /\ Len(FileSeq) \in Nat
      /\ \A i \in 1..Len(FileSeq) : FileSeq[i] \in Files
  BY EditAssumption
<1>3. IsFiniteSet(S)
  <2>1. IsFiniteSet(1..Len(FileSeq))
    BY <1>2, FS_Interval
  <2>2. S \subseteq 1..Len(FileSeq)
    BY <1>2
  <2> HIDE DEF S
  <2> QED BY <2>1, <2>2, FS_Subset
<1>4. /\ \A i \in S : i \in Nat /\ FileSeq[i] \in Files /\ EditsOf(a, FileSeq[i]) # {}
      /\ \A f \in Files : EditsOf(a, f) # {} => \E i \in S : FileSeq[i] = f
  <2>1. \A f \in Files : \E i \in DOMAIN FileSeq : FileSeq[i] = f
    BY DEF Files, ToSet
  <2>2. ASSUME NEW i \in S
        PROVE  i \in Nat /\ FileSeq[i] \in Files /\ EditsOf(a, FileSeq[i]) # {}
    BY <1>2
  <2>3. ASSUME NEW f \in Files, EditsOf(a, f) # {}
        PROVE  \E i \in S : FileSeq[i] = f
    <3>1. PICK i \in DOMAIN FileSeq : FileSeq[i] = f
      BY <2>1
    <3>2. i \in S
      BY <2>3, <3>1
    <3> QED BY <3>1, <3>2
  <2> HIDE DEF S
  <2> QED BY <2>2, <2>3
<1>5. S # {}
  <2>1. Plan[a] \in Seq([file : Files, start : Nat, end : Nat, repl : Seq(Text)])
        /\ Plan[a] # <<>>
    BY EditAssumption
  <2>2. 1 \in DOMAIN Plan[a] /\ Plan[a][1].file \in Files
    <3>1. 1 \in 1..Len(Plan[a]) /\ DOMAIN Plan[a] = 1..Len(Plan[a])
      BY <2>1
    <3>2. Plan[a][1] \in [file : Files, start : Nat, end : Nat, repl : Seq(Text)]
      BY ONLY <2>1, <3>1, ElementOfSeq
    <3> QED BY <3>1, <3>2
  <2>3. EditsOf(a, Plan[a][1].file) # {}
    BY <2>2 DEF EditsOf
  <2> QED BY <1>4, <2>2, <2>3
<1>6. \A i, j \in S : <<i, j>> \in R <=> i < j
  OBVIOUS
<1> HIDE DEF S, R
<1>7. Orders(R, S)
  BY <1>4, <1>6 DEF Orders
<1>8. c \in Nat /\ Sorts(order, c, R, S)
  BY <1>3, <1>7, InOrderSorts
<1> HIDE DEF c, order
<1>9. order \in [1..c -> S] /\ \A i \in S : \E k \in 1..c : order[k] = i
  BY <1>8 DEF Sorts
<1>10. \A k \in 1..c : T[k] = FileSeq[order[k]] /\ T[k] \in Files /\ EditsOf(a, T[k]) # {}
  BY <1>4, <1>9
<1>11. T \in Seq(Files) /\ Len(T) = c /\ DOMAIN T = 1..c
  BY <1>8, <1>10
<1>12. c # 0
  BY <1>5, <1>9
<1>13. \A f \in Files : EditsOf(a, f) # {} => \E k \in 1..c : T[k] = f
  BY <1>4, <1>9, <1>10
<1> HIDE DEF T
<1> QED BY <1>1, <1>8, <1>10, <1>11, <1>12, <1>13

Phases == Over \cup {"prepare", "stage", "validate", "compare", "rename",
                     "compare back", "stage back", "rename back", "clean"}
Working == {"stage", "validate", "compare", "rename",
            "compare back", "stage back", "rename back"}
Items == [file : Files, before : Seq(Text), after : Seq(Text)]

\* What has been prepared for file f out of what was read there.
Prepared(a, f, item) ==
    /\ item.file = f
    /\ Resolves(a, f, item.before)
    /\ item.after = Replaced(a, f, item.before)

\* An apply in its phase, with its items, the number of the one at hand and the
\* files not restored.
Local(a, ph, items, n, un) ==
    /\ items \in Seq(Items) /\ Len(items) <= Len(Targets(a))
    /\ \A i \in 1..Len(items) : Prepared(a, Targets(a)[i], items[i])
    /\ n \in 0..Len(Targets(a))
    /\ ph = "prepare" => n >= 1 /\ Len(items) = n - 1 /\ un = {}
    /\ ph \in Working => n >= 1 /\ Len(items) = Len(Targets(a))
    /\ ph = "clean" => Len(items) = Len(Targets(a))
    /\ ph = "applied" => Len(items) = Len(Targets(a))
    /\ un \subseteq ToSet(Targets(a))

Locals ==
    /\ phase \in [Applies -> Phases] /\ prep \in [Applies -> Seq(Items)]
    /\ at \in [Applies -> Nat] /\ unrestored \in [Applies -> SUBSET Files]
    /\ \A a \in Applies : Local(a, phase[a], prep[a], at[a], unrestored[a])

Shared ==
    /\ disk \in [Files -> Seq(Text)]
    /\ temps \subseteq Applies \X Files \X {"new", "old"}
    /\ edits \in 0..MaxEdits /\ deaths \in 0..MaxDeaths /\ raced \in BOOLEAN

\* The item at hand.
LEMMA ItemFacts ==
    ASSUME Locals, NEW a \in Applies, phase[a] \in Working
    PROVE  /\ at[a] \in 1..Len(prep[a]) /\ Len(prep[a]) = Len(Targets(a))
           /\ Item(a) = prep[a][at[a]]
           /\ File(a) \in Files /\ File(a) = Targets(a)[at[a]] /\ File(a) \in ToSet(Targets(a))
           /\ Item(a).before \in Seq(Text) /\ Item(a).after \in Seq(Text)
           /\ Prepared(a, File(a), Item(a)) /\ EditsOf(a, File(a)) # {}
<1>1. Local(a, phase[a], prep[a], at[a], unrestored[a])
  BY DEF Locals
<1>2. /\ prep[a] \in Seq(Items) /\ at[a] \in 0..Len(Targets(a)) /\ at[a] >= 1
      /\ Len(prep[a]) = Len(Targets(a))
      /\ \A i \in 1..Len(prep[a]) : Prepared(a, Targets(a)[i], prep[a][i])
  BY <1>1 DEF Local
<1>3. at[a] \in 1..Len(prep[a])
  BY <1>2, TargetsFacts
<1>4. prep[a][at[a]] \in Items
  BY ONLY <1>2, <1>3, ElementOfSeq
<1>5. Item(a) = prep[a][at[a]] /\ File(a) = Item(a).file
  BY DEF Item, File
<1>6. /\ Item(a).before \in Seq(Text) /\ Item(a).after \in Seq(Text) /\ File(a) \in Files
  BY <1>4, <1>5 DEF Items
<1>7. Prepared(a, Targets(a)[at[a]], Item(a))
  BY <1>2, <1>3, <1>5
<1>8. File(a) = Targets(a)[at[a]]
  BY <1>5, <1>7 DEF Prepared
<1>9. EditsOf(a, File(a)) # {} /\ File(a) \in ToSet(Targets(a))
  BY <1>2, <1>3, <1>8, TargetsFacts DEF ToSet
<1> QED BY <1>2, <1>3, <1>5, <1>6, <1>7, <1>8, <1>9

-----------------------------------------------------------------------------
(* What each step makes of the apply it is of; the others stay.            *)

Same(b) ==
    /\ phase'[b] = phase[b] /\ prep'[b] = prep[b]
    /\ at'[b] = at[b] /\ unrestored'[b] = unrestored[b]

Moved(a, ph, items, n, un) ==
    /\ Locals'
    /\ phase'[a] = ph /\ prep'[a] = items /\ at'[a] = n /\ unrestored'[a] = un
    /\ \A b \in Applies \ {a} : Same(b)

\* If one apply is in order after a step that leaves the others, all are.
LEMMA OneMoves ==
    ASSUME Locals, NEW a \in Applies, NEW ph \in Phases, NEW items, NEW n, NEW un,
           Local(a, ph, items, n, un),
           phase' = [phase EXCEPT ![a] = ph], prep' = [prep EXCEPT ![a] = items],
           at' = [at EXCEPT ![a] = n], unrestored' = [unrestored EXCEPT ![a] = un]
    PROVE  Moved(a, ph, items, n, un)
<1>1. /\ phase \in [Applies -> Phases] /\ prep \in [Applies -> Seq(Items)]
      /\ at \in [Applies -> Nat] /\ unrestored \in [Applies -> SUBSET Files]
      /\ \A b \in Applies : Local(b, phase[b], prep[b], at[b], unrestored[b])
  BY DEF Locals
<1>2. items \in Seq(Items) /\ n \in Nat /\ un \in SUBSET Files
  <2>1. items \in Seq(Items) /\ n \in 0..Len(Targets(a)) /\ un \subseteq ToSet(Targets(a))
    BY DEF Local
  <2>2. Targets(a) \in Seq(Files) /\ Len(Targets(a)) \in Nat
    BY TargetsFacts
  <2>3. ToSet(Targets(a)) \subseteq Files
    BY <2>2, ToSetIs
  <2> QED BY <2>1, <2>2, <2>3
<1>3. /\ phase' \in [Applies -> Phases] /\ prep' \in [Applies -> Seq(Items)]
      /\ at' \in [Applies -> Nat] /\ unrestored' \in [Applies -> SUBSET Files]
  BY <1>1, <1>2
<1>4. phase'[a] = ph /\ prep'[a] = items /\ at'[a] = n /\ unrestored'[a] = un
  BY <1>1
<1>5. \A b \in Applies \ {a} : Same(b)
  BY <1>1 DEF Same
<1>6. \A b \in Applies : Local(b, phase'[b], prep'[b], at'[b], unrestored'[b])
  <2> SUFFICES ASSUME NEW b \in Applies
               PROVE  Local(b, phase'[b], prep'[b], at'[b], unrestored'[b])
    OBVIOUS
  <2>1. CASE b = a
    BY <1>4, <2>1
  <2>2. CASE b # a
    BY <1>1, <1>5, <2>2 DEF Same
  <2> QED BY <2>1, <2>2
<1>7. Locals'
  BY <1>3, <1>6 DEF Locals
<1> QED BY <1>4, <1>5, <1>7 DEF Moved

\* What is known of an apply, spelled out.
LEMMA OwnFacts ==
    ASSUME Locals, NEW a \in Applies
    PROVE  /\ phase[a] \in Phases
           /\ prep = [prep EXCEPT ![a] = prep[a]] /\ at = [at EXCEPT ![a] = at[a]]
           /\ unrestored = [unrestored EXCEPT ![a] = unrestored[a]]
           /\ prep[a] \in Seq(Items) /\ Len(prep[a]) \in Nat /\ at[a] \in Nat
           /\ Len(prep[a]) <= Len(Targets(a))
           /\ \A i \in 1..Len(prep[a]) : Prepared(a, Targets(a)[i], prep[a][i])
           /\ at[a] \in 0..Len(Targets(a)) /\ unrestored[a] \subseteq ToSet(Targets(a))
           /\ phase[a] = "prepare" =>
                 at[a] >= 1 /\ Len(prep[a]) = at[a] - 1 /\ unrestored[a] = {}
           /\ phase[a] \in Working => at[a] >= 1 /\ Len(prep[a]) = Len(Targets(a))
           /\ phase[a] \in {"clean", "applied"} => Len(prep[a]) = Len(Targets(a))
<1>1. Local(a, phase[a], prep[a], at[a], unrestored[a])
  BY DEF Locals
<1>2. /\ phase \in [Applies -> Phases] /\ prep \in [Applies -> Seq(Items)]
      /\ at \in [Applies -> Nat] /\ unrestored \in [Applies -> SUBSET Files]
  BY DEF Locals
<1>3. prep = [prep EXCEPT ![a] = prep[a]] /\ at = [at EXCEPT ![a] = at[a]]
      /\ unrestored = [unrestored EXCEPT ![a] = unrestored[a]]
  BY <1>2
<1>4. phase[a] \in Phases /\ prep[a] \in Seq(Items) /\ at[a] \in Nat /\ Len(prep[a]) \in Nat
  BY <1>2
<1> QED BY <1>1, <1>3, <1>4 DEF Local

\* To another phase that has everything prepared, or out of it.
LEMMA PhaseMoves ==
    ASSUME Locals, NEW a \in Applies,
           NEW ph \in Phases, ph # "prepare", NEW n \in 0..Len(Targets(a)),
           NEW un \in SUBSET ToSet(Targets(a)),
           ph \in Working => n >= 1,
           ph \in {"refused", "dead"} \/ Len(prep[a]) = Len(Targets(a)),
           phase' = [phase EXCEPT ![a] = ph], prep' = prep,
           at' = [at EXCEPT ![a] = n], unrestored' = [unrestored EXCEPT ![a] = un]
    PROVE  Moved(a, ph, prep[a], n, un)
<1>1. /\ prep[a] \in Seq(Items) /\ Len(prep[a]) <= Len(Targets(a))
      /\ \A i \in 1..Len(prep[a]) : Prepared(a, Targets(a)[i], prep[a][i])
      /\ prep' = [prep EXCEPT ![a] = prep[a]]
  BY OwnFacts
<1>2. Local(a, ph, prep[a], n, un)
  BY <1>1 DEF Local, Working
<1> QED BY <1>1, <1>2, OneMoves

\* Which phases there are, and in which there is an item at hand.
LEMMA PhaseNames ==
    /\ {"clean", "compare back", "stage", "validate", "compare", "rename", "stage back",
        "rename back", "applied", "refused", "dead", "prepare"} \subseteq Phases
    /\ {"compare back", "stage", "validate", "compare", "rename", "stage back",
        "rename back"} \subseteq Working
    /\ {"clean", "applied", "refused", "dead", "prepare"} \cap Working = {}
BY DEF Phases, Working, Over

\* Into the rollback, with n files to look at.
LEMMA UndoMoves ==
    ASSUME Locals, NEW a \in Applies, NEW n \in 0..Len(Targets(a)), phase[a] \in Working,
           NEW un \in SUBSET ToSet(Targets(a)), prep' = prep,
           Undo(a, n), unrestored' = [unrestored EXCEPT ![a] = un]
    PROVE  Moved(a, IF n = 0 THEN "clean" ELSE "compare back", prep[a], n, un)
<1> DEFINE ph == IF n = 0 THEN "clean" ELSE "compare back"
<1>1. Len(prep[a]) = Len(Targets(a)) /\ n \in Nat
  BY OwnFacts
<1>2. phase' = [phase EXCEPT ![a] = ph] /\ at' = [at EXCEPT ![a] = n]
  BY DEF Undo, Goto
<1>3. ph \in Phases /\ ph # "prepare" /\ (ph \in Working => n >= 1)
  <2>1. n = 0 \/ n >= 1
    BY <1>1
  <2>2. CASE n = 0
    BY <2>2, PhaseNames
  <2>3. CASE n # 0
    BY <2>1, <2>3, PhaseNames
  <2> QED BY <2>2, <2>3
<1> HIDE DEF ph
<1>4. Moved(a, ph, prep[a], n, un)
  BY <1>1, <1>2, <1>3, PhaseMoves
<1> QED BY <1>4 DEF ph

\* The next file, or the first of the next phase.
LEMMA OnwardMoves ==
    ASSUME Locals, NEW a \in Applies, phase[a] \in {"stage", "validate"},
           NEW then \in {"validate", "compare"}, Onward(a, then),
           prep' = prep, unrestored' = unrestored
    PROVE  IF at[a] = Len(Targets(a)) THEN Moved(a, then, prep[a], 1, unrestored[a])
           ELSE Moved(a, phase[a], prep[a], at[a] + 1, unrestored[a])
<1>1. /\ Len(prep[a]) = Len(Targets(a)) /\ at[a] \in 1..Len(Targets(a))
      /\ unrestored[a] \subseteq ToSet(Targets(a))
      /\ unrestored' = [unrestored EXCEPT ![a] = unrestored[a]]
  <2>1. phase[a] \in Working
    BY PhaseNames
  <2>2. Len(Targets(a)) \in Nat
    BY TargetsFacts
  <2> QED BY <2>1, <2>2, OwnFacts
<1>2. Len(Targets(a)) \in Nat \ {0}
  BY TargetsFacts
<1>3. CASE at[a] = Len(Targets(a))
  <2>1. phase' = [phase EXCEPT ![a] = then] /\ at' = [at EXCEPT ![a] = 1]
    BY <1>1, <1>3 DEF Onward, Goto, AtLast
  <2>2. then \in Phases /\ then # "prepare" /\ then \in Working
    BY PhaseNames
  <2>3. 1 \in 0..Len(Targets(a)) /\ 1 >= 1
    BY ONLY <1>2
  <2>4. Moved(a, then, prep[a], 1, unrestored[a])
    BY ONLY <1>1, <2>1, <2>2, <2>3, Locals, PhaseMoves, a \in Applies, prep' = prep
  <2> QED BY <1>3, <2>4
<1>4. CASE at[a] # Len(Targets(a))
  <2>1. phase' = [phase EXCEPT ![a] = phase[a]] /\ at' = [at EXCEPT ![a] = at[a] + 1]
    <3>1. at' = [at EXCEPT ![a] = @ + 1]
      BY <1>1, <1>4 DEF Onward, AtLast
    <3> QED BY <1>1, <1>4, <3>1 DEF Onward, Goto, AtLast
  <2>2. phase[a] \in Phases /\ phase[a] # "prepare" 
    BY PhaseNames
  <2>3. at[a] + 1 \in 0..Len(Targets(a))
    BY ONLY <1>1, <1>2, <1>4
  <2>4. at[a] + 1 >= 1
    BY <1>1
  <2> QED BY <1>1, <1>4, <2>1, <2>2, <2>4, <2>3, PhaseMoves
<1> QED BY <1>3, <1>4

\* The file before, with this one restored or not.
LEMMA BackwardMoves ==
    ASSUME Locals, NEW a \in Applies,
           phase[a] \in {"compare back", "stage back", "rename back"},
           NEW restored \in BOOLEAN, Backward(a, restored), prep' = prep
    PROVE  Moved(a, IF at[a] = 1 THEN "clean" ELSE "compare back", prep[a], at[a] - 1,
                 IF restored THEN unrestored[a] ELSE unrestored[a] \cup {File(a)})
<1>1. /\ Len(prep[a]) = Len(Targets(a)) /\ at[a] \in 1..Len(Targets(a))
      /\ unrestored[a] \subseteq ToSet(Targets(a)) /\ phase[a] \in Working
  <2>1. phase[a] \in Working
    BY PhaseNames
  <2>2. Len(Targets(a)) \in Nat
    BY TargetsFacts
  <2>3. /\ at[a] \in 0..Len(Targets(a)) /\ at[a] >= 1
        /\ Len(prep[a]) = Len(Targets(a)) /\ unrestored[a] \subseteq ToSet(Targets(a))
    BY <2>1, OwnFacts
  <2> QED BY ONLY <2>1, <2>2, <2>3
<1>2. File(a) \in ToSet(Targets(a))
  BY <1>1, ItemFacts
<1> DEFINE un == IF restored THEN unrestored[a] ELSE unrestored[a] \cup {File(a)}
<1>3. un \in SUBSET ToSet(Targets(a))
  BY <1>1, <1>2
<1>4. unrestored' = [unrestored EXCEPT ![a] = un] /\ Undo(a, at[a] - 1)
  BY DEF Backward
<1>5. at[a] - 1 \in 0..Len(Targets(a)) /\ (at[a] - 1 = 0 <=> at[a] = 1)
  BY ONLY <1>1, TargetsFacts
<1> HIDE DEF un
<1>6. Moved(a, IF at[a] - 1 = 0 THEN "clean" ELSE "compare back", prep[a], at[a] - 1, un)
  BY <1>1, <1>3, <1>4, <1>5, UndoMoves
<1> QED BY <1>5, <1>6 DEF un

-----------------------------------------------------------------------------
(* Action by action.                                                       *)

\* The file at hand is read: the content no longer fits the plan, or one more
\* item is prepared.
LEMMA PrepareMoves ==
    ASSUME Locals, disk \in [Files -> Seq(Text)], NEW a \in Applies, Prepare(a)
    PROVE  \/ Moved(a, "refused", prep[a], at[a], unrestored[a])
           \/ \E item \in Items, ph \in {"prepare", "stage"}, n \in Nat :
                 /\ item.before = disk[item.file] /\ Prepared(a, Targets(a)[at[a]], item)
                 /\ Moved(a, ph, Append(prep[a], item), n, {})
                 /\ ph = "stage" => n = 1
<1> DEFINE f == Targets(a)[at[a]]
           L == Len(Targets(a))
<1>1. phase[a] = "prepare"
  BY DEF Prepare
<1>2. /\ prep[a] \in Seq(Items) /\ Len(prep[a]) = at[a] - 1 /\ at[a] >= 1
      /\ at[a] \in 0..L /\ unrestored[a] = {}
      /\ unrestored = [unrestored EXCEPT ![a] = unrestored[a]]
      /\ prep = [prep EXCEPT ![a] = prep[a]] /\ at = [at EXCEPT ![a] = at[a]]
      /\ \A i \in 1..Len(prep[a]) : Prepared(a, Targets(a)[i], prep[a][i])
  BY <1>1, OwnFacts
<1>3. /\ L \in Nat \ {0} /\ Targets(a) \in Seq(Files)
      /\ \A k \in 1..L : EditsOf(a, Targets(a)[k]) # {}
  BY TargetsFacts
<1>4. at[a] \in 1..L
  BY <1>2, <1>3
<1>5. f \in Files /\ EditsOf(a, f) # {}
  BY ONLY <1>3, <1>4, ElementOfSeq
<1>6. disk[f] \in Seq(Text)
  BY <1>5
<1>7. unrestored' = unrestored
  BY DEF Prepare
<1> HIDE DEF f
<1>8. CASE ~Resolves(a, f, disk[f])
  <2>1. phase' = [phase EXCEPT ![a] = "refused"] /\ prep' = prep /\ at' = at
    BY <1>8 DEF Prepare, Goto, f
  <2>2. at[a] \in 0..L /\ unrestored[a] \in SUBSET ToSet(Targets(a))
    BY <1>2
  <2>3. "refused" \in Phases /\ "refused" \notin Working
    BY PhaseNames
  <2>4. at' = [at EXCEPT ![a] = at[a]] /\ unrestored' = [unrestored EXCEPT ![a] = unrestored[a]]
    BY <1>2, <1>7, <2>1
  <2> HIDE DEF L
  <2>5. Moved(a, "refused", prep[a], at[a], unrestored[a])
    BY <2>1, <2>2, <2>3, <2>4, PhaseMoves DEF L
  <2> QED BY <2>5
<1>9. CASE Resolves(a, f, disk[f])
  <2> DEFINE item == [file |-> f, before |-> disk[f], after |-> Replaced(a, f, disk[f])]
             items == Append(prep[a], item)
             ph == IF at[a] = L THEN "stage" ELSE "prepare"
             n == IF at[a] = L THEN 1 ELSE at[a] + 1
  <2>1. /\ prep' = [prep EXCEPT ![a] = items] /\ phase' = [phase EXCEPT ![a] = ph]
        /\ at' = [at EXCEPT ![a] = n]
    BY <1>9 DEF Prepare, Goto, f
  <2>2. Replaced(a, f, disk[f]) \in Seq(Text)
    BY <1>5, <1>6, <1>9, ReplacedFacts
  <2>3. item \in Items /\ item.file = f /\ item.before = disk[f]
    BY <1>5, <1>6, <2>2 DEF Items
  <2>4. Prepared(a, f, item)
    BY <1>9 DEF Prepared
  <2> HIDE DEF item
  <2>5. items \in Seq(Items) /\ Len(items) = at[a]
        /\ items[at[a]] = item /\ \A i \in 1..(at[a] - 1) : items[i] = prep[a][i]
    BY ONLY <1>2, <1>4, <2>3
  <2>6. \A i \in 1..Len(items) : Prepared(a, Targets(a)[i], items[i])
    <3> SUFFICES ASSUME NEW i \in 1..Len(items) PROVE Prepared(a, Targets(a)[i], items[i])
      OBVIOUS
    <3>1. CASE i = at[a]
      BY <2>4, <2>5, <3>1 DEF f
    <3>2. CASE i # at[a]
      <4>1. i \in 1..(at[a] - 1) /\ i \in 1..Len(prep[a])
        BY ONLY <1>2, <1>4, <2>5, <3>2, i \in 1..Len(items)
      <4> QED BY <1>2, <2>5, <4>1
    <3> QED BY <3>1, <3>2
  <2> HIDE DEF items
  <2>7. /\ ph \in {"prepare", "stage"} /\ n \in 1..L /\ n \in Nat /\ ph \in Phases
        /\ ph = "prepare" => n >= 1 /\ Len(items) = n - 1
        /\ ph \in Working => Len(items) = L
        /\ ph = "stage" => n = 1
    <3>1. CASE at[a] = L
      <4>1. ph = "stage" /\ n = 1 /\ 1 \in 1..L /\ Len(items) = L
        BY ONLY <1>3, <1>4, <2>5, <3>1
      <4> HIDE DEF ph, n
      <4> QED BY <4>1, PhaseNames
    <3>2. CASE at[a] # L
      <4>1. ph = "prepare" /\ n \in 1..L /\ n \in Nat /\ n >= 1 /\ Len(items) = n - 1
        BY ONLY <1>3, <1>4, <2>5, <3>2
      <4> HIDE DEF ph, n
      <4> QED BY <4>1, PhaseNames
    <3> QED BY <3>1, <3>2
  <2>8. ph # "clean" /\ ph # "applied"
    OBVIOUS
  <2>9. Len(items) <= L /\ n \in 0..L /\ n >= 1
    BY <1>3, <1>4, <2>5, <2>7
  <2> HIDE DEF ph, n
  <2>10. Local(a, ph, items, n, {})
    BY <2>5, <2>6, <2>7, <2>8, <2>9 DEF Local
  <2>11. unrestored' = [unrestored EXCEPT ![a] = {}]
    BY <1>2, <1>7
  <2>12. Moved(a, ph, items, n, {})
    BY <2>1, <2>7, <2>10, <2>11, OneMoves
  <2>13. Prepared(a, Targets(a)[at[a]], item) /\ item.before = disk[item.file]
    BY <2>3, <2>4 DEF f
  <2> QED BY <2>3, <2>7, <2>12, <2>13 DEF items
<1> QED BY <1>8, <1>9

\* Staging goes to the next file, and after the last to the validation.
LEMMA StageMoves ==
    ASSUME Locals, NEW a \in Applies, Stage(a)
    PROVE  IF at[a] = Len(Targets(a)) THEN Moved(a, "validate", prep[a], 1, unrestored[a])
           ELSE Moved(a, "stage", prep[a], at[a] + 1, unrestored[a])
<1>1. /\ phase[a] = "stage" /\ Onward(a, "validate") /\ prep' = prep /\ unrestored' = unrestored
  BY DEF Stage
<1> QED BY <1>1, OnwardMoves

\* An error before anything is renamed: what was staged goes.
LEMMA NothingDone ==
    ASSUME Locals, NEW a \in Applies, phase[a] \in Working, Undo(a, 0),
           prep' = prep, unrestored' = unrestored
    PROVE  Moved(a, "clean", prep[a], 0, unrestored[a])
<1>1. /\ 0 \in 0..Len(Targets(a)) /\ unrestored[a] \in SUBSET ToSet(Targets(a))
      /\ unrestored' = [unrestored EXCEPT ![a] = unrestored[a]]
  BY OwnFacts, TargetsFacts
<1> QED BY <1>1, UndoMoves

\* A validation fails, or goes to the next file, and after the last to the compare.
LEMMA ValidateMoves ==
    ASSUME Locals, NEW a \in Applies, Validate(a)
    PROVE  \/ Moved(a, "clean", prep[a], 0, unrestored[a])
           \/ at[a] = Len(Targets(a)) /\ Moved(a, "compare", prep[a], 1, unrestored[a])
           \/ at[a] # Len(Targets(a)) /\ Moved(a, "validate", prep[a], at[a] + 1, unrestored[a])
<1>1. phase[a] = "validate" /\ prep' = prep /\ unrestored' = unrestored
  BY DEF Validate
<1>2. phase[a] \in Working
  BY <1>1, PhaseNames
<1>3. CASE Undo(a, 0)
  BY <1>1, <1>2, <1>3, NothingDone
<1>4. CASE Onward(a, "compare")
  BY <1>1, <1>4, OnwardMoves
<1>5. Undo(a, 0) \/ Onward(a, "compare")
  BY DEF Validate
<1> QED BY <1>3, <1>4, <1>5

\* The phase and nothing else.
LEMMA OnlyPhaseMoves ==
    ASSUME Locals, NEW a \in Applies, phase[a] \in Phases \ {"prepare"},
           NEW ph \in Phases, ph # "prepare",
           ph \in Working => phase[a] \in Working,
           ph \in {"refused", "dead"} \/ phase[a] \in Working \cup {"clean"},
           Goto(a, ph), prep' = prep, at' = at, unrestored' = unrestored
    PROVE  Moved(a, ph, prep[a], at[a], unrestored[a])
<1>1. /\ at' = [at EXCEPT ![a] = at[a]] /\ at[a] \in 0..Len(Targets(a))
      /\ unrestored' = [unrestored EXCEPT ![a] = unrestored[a]]
      /\ unrestored[a] \in SUBSET ToSet(Targets(a))
  BY OwnFacts
<1>2. phase[a] \in Working \cup {"clean"} => Len(prep[a]) = Len(Targets(a))
  BY OwnFacts
<1>3. ph \in Working => at[a] >= 1
  BY OwnFacts
<1>4. phase' = [phase EXCEPT ![a] = ph]
  BY DEF Goto
<1> QED BY <1>1, <1>2, <1>3, <1>4, PhaseMoves

\* An error with the files before this one renamed.
LEMMA OneLess ==
    ASSUME Locals, NEW a \in Applies, phase[a] \in Working, Undo(a, at[a] - 1),
           prep' = prep, unrestored' = unrestored
    PROVE  Moved(a, IF at[a] = 1 THEN "clean" ELSE "compare back", prep[a], at[a] - 1,
                 unrestored[a])
<1>1. at[a] \in 1..Len(prep[a]) /\ Len(prep[a]) = Len(Targets(a))
  BY ItemFacts
<1>2. Len(Targets(a)) \in Nat
  BY TargetsFacts
<1>3. at[a] - 1 \in 0..Len(Targets(a)) /\ (at[a] - 1 = 0 <=> at[a] = 1)
  BY ONLY <1>1, <1>2
<1>4. /\ unrestored[a] \in SUBSET ToSet(Targets(a))
      /\ unrestored' = [unrestored EXCEPT ![a] = unrestored[a]]
  BY OwnFacts
<1>5. Moved(a, IF at[a] - 1 = 0 THEN "clean" ELSE "compare back", prep[a], at[a] - 1,
            unrestored[a])
  BY <1>3, <1>4, UndoMoves
<1> QED BY <1>3, <1>5

\* The file is as it was read, or the files before this one are restored.
LEMMA CompareMoves ==
    ASSUME Locals, NEW a \in Applies, Compare(a)
    PROVE  \/ /\ disk[File(a)] = Item(a).before
              /\ Moved(a, "rename", prep[a], at[a], unrestored[a])
           \/ Moved(a, IF at[a] = 1 THEN "clean" ELSE "compare back", prep[a], at[a] - 1,
                    unrestored[a])
<1>1. phase[a] = "compare" /\ prep' = prep /\ unrestored' = unrestored
  BY DEF Compare
<1>2. phase[a] \in Working /\ phase[a] \in Phases \ {"prepare"}
      /\ "rename" \in Phases /\ "rename" # "prepare"
  BY <1>1, PhaseNames
<1>3. CASE Undo(a, at[a] - 1)
  BY <1>1, <1>2, <1>3, OneLess
<1>4. CASE disk[File(a)] = Item(a).before /\ Goto(a, "rename") /\ at' = at
  BY <1>1, <1>2, <1>4, OnlyPhaseMoves
<1>5. \/ Undo(a, at[a] - 1)
      \/ disk[File(a)] = Item(a).before /\ Goto(a, "rename") /\ at' = at
  BY DEF Compare
<1> QED BY <1>3, <1>4, <1>5

\* The last rename makes it applied; another goes on to the next compare.
LEMMA RenameMoves ==
    ASSUME Locals, NEW a \in Applies, Rename(a)
    PROVE  \/ at[a] = Len(Targets(a)) /\ Moved(a, "applied", prep[a], at[a], unrestored[a])
           \/ /\ at[a] < Len(Targets(a))
              /\ Moved(a, "compare", prep[a], at[a] + 1, unrestored[a])
<1>1. phase[a] = "rename" /\ prep' = prep /\ unrestored' = unrestored
  BY DEF Rename
<1>2. phase[a] \in Working
  BY <1>1, PhaseNames
<1>3. at[a] \in 1..Len(prep[a]) /\ Len(prep[a]) = Len(Targets(a))
  BY <1>2, ItemFacts
<1>4. /\ unrestored[a] \in SUBSET ToSet(Targets(a))
      /\ unrestored' = [unrestored EXCEPT ![a] = unrestored[a]]
  BY <1>1, OwnFacts
<1>5. Len(Targets(a)) \in Nat
  BY TargetsFacts
<1>6. CASE at[a] = Len(Targets(a))
  <2>1. phase' = [phase EXCEPT ![a] = "applied"] /\ at' = [at EXCEPT ![a] = at[a]]
    BY <1>3, <1>6 DEF Rename, Goto, AtLast
  <2>2. "applied" \in Phases /\ "applied" # "prepare" /\ "applied" \notin Working
    BY PhaseNames
  <2>3. at[a] \in 0..Len(Targets(a))
    BY ONLY <1>3, <1>5
  <2> QED BY <1>1, <1>3, <1>4, <1>6, <2>1, <2>2, <2>3, PhaseMoves
<1>7. CASE at[a] # Len(Targets(a))
  <2>1. phase' = [phase EXCEPT ![a] = "compare"] /\ at' = [at EXCEPT ![a] = at[a] + 1]
    BY <1>3, <1>7 DEF Rename, Goto, AtLast
  <2>2. "compare" \in Phases /\ "compare" # "prepare"
    BY PhaseNames
  <2>3. at[a] + 1 \in 0..Len(Targets(a)) /\ at[a] + 1 >= 1 /\ at[a] < Len(Targets(a))
    BY ONLY <1>3, <1>5, <1>7
  <2> QED BY <1>1, <1>3, <1>4, <1>7, <2>1, <2>2, <2>3, PhaseMoves
<1> QED BY <1>6, <1>7

\* The file is as it was written, or it is told that it was not restored.
LEMMA CompareBackMoves ==
    ASSUME Locals, NEW a \in Applies, CompareBack(a)
    PROVE  \/ /\ disk[File(a)] = Item(a).after
              /\ Moved(a, "stage back", prep[a], at[a], unrestored[a])
           \/ Moved(a, IF at[a] = 1 THEN "clean" ELSE "compare back", prep[a], at[a] - 1,
                    unrestored[a] \cup {File(a)})
<1>1. phase[a] = "compare back" /\ prep' = prep
  BY DEF CompareBack
<1>2. phase[a] \in Working /\ phase[a] \in Phases \ {"prepare"}
      /\ "stage back" \in Phases /\ "stage back" # "prepare"
  BY <1>1, PhaseNames
<1>3. CASE Backward(a, FALSE)
  BY <1>1, <1>3, BackwardMoves
<1>4. CASE /\ disk[File(a)] = Item(a).after /\ Goto(a, "stage back")
           /\ at' = at /\ unrestored' = unrestored
  BY <1>1, <1>2, <1>4, OnlyPhaseMoves
<1>5. \/ Backward(a, FALSE)
      \/ /\ disk[File(a)] = Item(a).after /\ Goto(a, "stage back")
         /\ at' = at /\ unrestored' = unrestored
  BY DEF CompareBack
<1> QED BY <1>3, <1>4, <1>5

-----------------------------------------------------------------------------
\* The file to restore is staged.
LEMMA StageBackMoves ==
    ASSUME Locals, NEW a \in Applies, StageBack(a)
    PROVE  Moved(a, "rename back", prep[a], at[a], unrestored[a])
<1>1. /\ phase[a] = "stage back" /\ Goto(a, "rename back") /\ prep' = prep /\ at' = at
      /\ unrestored' = unrestored
  BY DEF StageBack
<1>2. phase[a] \in Working /\ phase[a] \in Phases \ {"prepare"}
      /\ "rename back" \in Phases /\ "rename back" # "prepare"
  BY <1>1, PhaseNames
<1> QED BY <1>1, <1>2, OnlyPhaseMoves

\* After the clean-up the apply is refused.
LEMMA CleanMoves ==
    ASSUME Locals, NEW a \in Applies, Clean(a)
    PROVE  Moved(a, "refused", prep[a], at[a], unrestored[a])
<1>1. /\ phase[a] = "clean" /\ Goto(a, "refused") /\ prep' = prep /\ at' = at
      /\ unrestored' = unrestored
  BY DEF Clean
<1>2. phase[a] \in Phases \ {"prepare"} /\ "refused" \in Phases /\ "refused" # "prepare"
      /\ "refused" \notin Working
  BY <1>1, PhaseNames
<1> QED BY <1>1, <1>2, OnlyPhaseMoves

\* A killed process leaves what it had prepared.
LEMMA DieMoves ==
    ASSUME Locals, NEW a \in Applies, Die(a)
    PROVE  Moved(a, "dead", prep[a], at[a], unrestored[a])
<1>1. /\ phase' = [phase EXCEPT ![a] = "dead"] /\ prep' = prep /\ at' = at
      /\ unrestored' = unrestored
  BY DEF Die, Goto
<1>2. "dead" \in Phases /\ "dead" # "prepare" /\ "dead" \notin Working
  BY PhaseNames
<1>3. /\ at' = [at EXCEPT ![a] = at[a]] /\ at[a] \in 0..Len(Targets(a))
      /\ unrestored' = [unrestored EXCEPT ![a] = unrestored[a]]
      /\ unrestored[a] \in SUBSET ToSet(Targets(a))
  BY <1>1, OwnFacts
<1> QED BY <1>1, <1>2, <1>3, PhaseMoves

-----------------------------------------------------------------------------
(* What an editor does to a file.                                          *)

\* What two sequences have.
LEMMA JoinHas ==
    ASSUME NEW X, NEW s \in Seq(X), NEW t \in Seq(X)
    PROVE  ToSet(Join(s, t)) = ToSet(s) \cup ToSet(t)
BY ToSetJoin DEF Join

\* What a part of a sequence has.
LEMMA BetweenHas ==
    ASSUME NEW X, NEW s \in Seq(X), NEW u \in 1..(Len(s) + 1), NEW v \in 1..(Len(s) + 1)
    PROVE  \A x : x \in ToSet(Between(s, u, v)) <=> \E j \in u..(v - 1) : s[j] = x
<1> DEFINE w == SubSeq(s, u, v - 1)
<1>1. \A i \in u..(v - 1) : s[i] \in X
  OBVIOUS
<1>2. u \in Int /\ v - 1 \in Int
  OBVIOUS
<1>3. /\ w \in Seq(X)
      /\ Len(w) = IF u <= v - 1 THEN (v - 1) - u + 1 ELSE 0
      /\ \A i \in 1..Len(w) : w[i] = s[u + i - 1]
  BY ONLY <1>1, <1>2, SubSeqProperties
<1> HIDE DEF w
<1>4. \A x : x \in ToSet(w) <=> \E i \in 1..Len(w) : w[i] = x
  BY <1>3, ToSetIs
<1>5. ASSUME NEW j \in u..(v - 1)
      PROVE  \E i \in 1..Len(w) : w[i] = s[j]
  <2>1. j - u + 1 \in 1..Len(w) /\ u + (j - u + 1) - 1 = j
    BY ONLY <1>2, <1>3, j \in u..(v - 1)
  <2> QED BY <1>3, <2>1
<1>6. ASSUME NEW i \in 1..Len(w)
      PROVE  \E j \in u..(v - 1) : w[i] = s[j]
  <2>1. u + i - 1 \in u..(v - 1)
    BY ONLY <1>2, <1>3, i \in 1..Len(w)
  <2> QED BY <1>3, <2>1
<1>7. \A x : x \in ToSet(w) <=> \E j \in u..(v - 1) : s[j] = x
  BY <1>4, <1>5, <1>6
<1> QED BY <1>7 DEF w, Between

\* An inserted line comes to those there were.
LEMMA Inserted ==
    ASSUME NEW X, NEW s \in Seq(X), NEW i \in 1..Len(s), NEW x \in X
    PROVE  InsertAt(s, i, x) \in Seq(X) /\ ToSet(InsertAt(s, i, x)) = ToSet(s) \cup {x}
<1> DEFINE u == Between(s, 1, i)
           v == Between(s, i, Len(s) + 1)
           one == <<x>>
<1>1. InsertAt(s, i, x) = Join(Join(u, one), v)
  <2>1. (Len(s) + 1) - 1 = Len(s)
    OBVIOUS
  <2> QED BY <2>1 DEF InsertAt, Between, Join
<1>2. 1 \in 1..(Len(s) + 1) /\ i \in 1..(Len(s) + 1) /\ Len(s) + 1 \in 1..(Len(s) + 1)
  OBVIOUS
<1>3. u \in Seq(X) /\ v \in Seq(X)
  BY <1>2, BetweenType
<1>4. one \in Seq(X) /\ ToSet(one) = {x}
  BY DEF ToSet
<1>5. \A y : y \in ToSet(u) <=> \E j \in 1..(i - 1) : s[j] = y
  BY <1>2, BetweenHas
<1>6. \A y : y \in ToSet(v) <=> \E j \in i..((Len(s) + 1) - 1) : s[j] = y
  BY <1>2, BetweenHas
<1> HIDE DEF u, v, one
<1>7. Join(u, one) \in Seq(X)
  BY <1>3, <1>4, JoinType
<1>8. ToSet(Join(u, one)) = ToSet(u) \cup {x}
  BY <1>3, <1>4, JoinHas
<1>9. ToSet(Join(Join(u, one), v)) = ToSet(u) \cup {x} \cup ToSet(v)
  BY <1>3, <1>7, <1>8, JoinHas
<1>10. \A y : y \in ToSet(s) <=> y \in ToSet(u) \/ y \in ToSet(v)
  <2>1. \A y : y \in ToSet(s) <=> \E j \in 1..Len(s) : s[j] = y
    BY ToSetIs
  <2>2. \A j : j \in 1..Len(s) <=> j \in 1..(i - 1) \/ j \in i..((Len(s) + 1) - 1)
    OBVIOUS
  <2> QED BY ONLY <1>5, <1>6, <2>1, <2>2
<1>11. Join(Join(u, one), v) \in Seq(X)
  BY <1>3, <1>7, JoinType
<1> QED BY <1>1, <1>9, <1>10, <1>11

\* A removed line is the only one that may be missing.
LEMMA Removed ==
    ASSUME NEW X, NEW s \in Seq(X), NEW i \in 1..Len(s)
    PROVE  /\ RemoveAt(s, i) \in Seq(X)
           /\ ToSet(RemoveAt(s, i)) \subseteq ToSet(s)
           /\ ToSet(s) \subseteq ToSet(RemoveAt(s, i)) \cup {s[i]}
<1> DEFINE u == Between(s, 1, i)
           v == Between(s, i + 1, Len(s) + 1)
<1>1. RemoveAt(s, i) = Join(u, v)
  <2>1. (Len(s) + 1) - 1 = Len(s)
    OBVIOUS
  <2> QED BY <2>1 DEF RemoveAt, Between, Join
<1>2. 1 \in 1..(Len(s) + 1) /\ i \in 1..(Len(s) + 1) /\ Len(s) + 1 \in 1..(Len(s) + 1)
      /\ i + 1 \in 1..(Len(s) + 1)
  OBVIOUS
<1>3. u \in Seq(X) /\ v \in Seq(X)
  BY <1>2, BetweenType
<1>4. \A y : y \in ToSet(u) <=> \E j \in 1..(i - 1) : s[j] = y
  BY <1>2, BetweenHas
<1>5. \A y : y \in ToSet(v) <=> \E j \in (i + 1)..((Len(s) + 1) - 1) : s[j] = y
  BY <1>2, BetweenHas
<1> HIDE DEF u, v
<1>6. ToSet(Join(u, v)) = ToSet(u) \cup ToSet(v) /\ Join(u, v) \in Seq(X)
  BY <1>3, JoinHas, JoinType
<1>7. \A y : y \in ToSet(s) <=> \E j \in 1..Len(s) : s[j] = y
  BY ToSetIs
<1>8. \A j : j \in 1..Len(s) <=>
           j \in 1..(i - 1) \/ j = i \/ j \in (i + 1)..((Len(s) + 1) - 1)
  OBVIOUS
<1>9. \A y \in ToSet(u) \cup ToSet(v) : y \in ToSet(s)
  BY ONLY <1>4, <1>5, <1>7, <1>8
<1>10. \A y \in ToSet(s) : y \in ToSet(u) \/ y \in ToSet(v) \/ y = s[i]
  BY ONLY <1>4, <1>5, <1>7, <1>8
<1> QED BY <1>1, <1>6, <1>9, <1>10

\* One file changes; a line there was is taken out, or a line comes in.
LEMMA EditIs ==
    ASSUME Shared, NEW f \in Files, NEW i \in DOMAIN disk[f], Edit(f, i)
    PROVE  /\ disk' \in [Files -> Seq(Text)] /\ disk' = [disk EXCEPT ![f] = disk'[f]]
           /\ ToSet(disk'[f]) \subseteq ToSet(disk[f]) \cup Copies \cup Notes
           /\ ToSet(disk[f]) \subseteq ToSet(disk'[f]) \cup ToSet(Origin[f])
<1> DEFINE Q == /\ disk' \in [Files -> Seq(Text)] /\ disk' = [disk EXCEPT ![f] = disk'[f]]
                /\ ToSet(disk'[f]) \subseteq ToSet(disk[f]) \cup Copies \cup Notes
                /\ ToSet(disk[f]) \subseteq ToSet(disk'[f]) \cup ToSet(Origin[f])
<1>1. disk \in [Files -> Seq(Text)] /\ disk[f] \in Seq(Text) /\ i \in 1..Len(disk[f])
  BY DEF Shared
<1>2. Copies \subseteq Text /\ Notes \subseteq Text
  BY EditAssumption
<1>3. ASSUME NEW x \in Copies \cup Notes, disk' = [disk EXCEPT ![f] = InsertAt(@, i, x)]
      PROVE  Q
  <2>1. x \in Text
    BY <1>2
  <2>2. disk'[f] = InsertAt(disk[f], i, x) /\ disk' = [disk EXCEPT ![f] = disk'[f]]
    BY <1>1, <1>3
  <2>3. disk'[f] \in Seq(Text) /\ ToSet(disk'[f]) = ToSet(disk[f]) \cup {x}
    BY <1>1, <2>1, <2>2, Inserted
  <2> QED BY <1>1, <2>2, <2>3
<1>4. ASSUME disk[f][i] \in ToSet(Origin[f]), disk' = [disk EXCEPT ![f] = RemoveAt(@, i)]
      PROVE  Q
  <2>1. disk'[f] = RemoveAt(disk[f], i) /\ disk' = [disk EXCEPT ![f] = disk'[f]]
    BY <1>1, <1>4
  <2>2. /\ disk'[f] \in Seq(Text) /\ ToSet(disk'[f]) \subseteq ToSet(disk[f])
        /\ ToSet(disk[f]) \subseteq ToSet(disk'[f]) \cup {disk[f][i]}
    BY <1>1, <2>1, Removed
  <2> QED BY <1>1, <1>4, <2>1, <2>2
<1>5. \/ \E x \in Copies \cup Notes : disk' = [disk EXCEPT ![f] = InsertAt(@, i, x)]
      \/ disk[f][i] \in ToSet(Origin[f]) /\ disk' = [disk EXCEPT ![f] = RemoveAt(@, i)]
  BY DEF Edit
<1> QED BY <1>3, <1>4, <1>5

-----------------------------------------------------------------------------
(* The files, the temporary ones among them.                               *)

\* Nothing is written to the disk.
Quiet == disk' = disk /\ raced' = raced /\ edits' = edits

\* The temporary files of the others stay as they are.
OwnTemps(a) == \A t \in temps' : t[1] # a => t \in temps

\* Only a rename and a restore write to a target.
LEMMA ApplyWrites ==
    ASSUME Locals, Shared, NEW a \in Applies, Apply(a)
    PROVE  /\ deaths' = deaths /\ edits' = edits
           /\ Quiet \/ Rename(a) \/ RenameBack(a)
           /\ disk' \in [Files -> Seq(Text)] /\ raced' \in BOOLEAN
<1>1. disk \in [Files -> Seq(Text)] /\ raced \in BOOLEAN
  BY DEF Shared
<1>2. CASE Rename(a)
  <2>1. Item(a).after \in Seq(Text)
    <3>1. phase[a] \in Working
      BY <1>2, PhaseNames DEF Rename
    <3> QED BY <3>1, ItemFacts
  <2>2. /\ disk' = [disk EXCEPT ![File(a)] = Item(a).after]
        /\ raced' = (raced \/ InWindow(File(a), {a})) /\ deaths' = deaths /\ edits' = edits
    BY <1>2 DEF Rename
  <2> QED BY <1>1, <1>2, <2>1, <2>2 DEF InWindow
<1>3. CASE RenameBack(a)
  <2>1. Item(a).before \in Seq(Text)
    <3>1. phase[a] \in Working
      BY <1>3, PhaseNames DEF RenameBack
    <3> QED BY <3>1, ItemFacts
  <2>2. /\ disk' = [disk EXCEPT ![File(a)] = Item(a).before]
        /\ raced' = (raced \/ InWindow(File(a), {a})) /\ deaths' = deaths /\ edits' = edits
    BY <1>3 DEF RenameBack
  <2> QED BY <1>1, <1>3, <2>1, <2>2 DEF InWindow
<1>4. CASE \/ Prepare(a) \/ Stage(a) \/ StageFails(a) \/ Validate(a)
           \/ Compare(a) \/ RenameFails(a)
           \/ CompareBack(a) \/ StageBack(a) \/ StageBackFails(a)
           \/ RenameBackFails(a) \/ Clean(a)
  <2>1. Quiet /\ deaths' = deaths
    BY <1>4 DEF Quiet, Prepare, Stage, StageFails, Validate, Compare, RenameFails,
                CompareBack, StageBack, StageBackFails, RenameBackFails, Clean
  <2> QED BY <1>1, <2>1 DEF Quiet
<1> QED BY <1>2, <1>3, <1>4 DEF Apply

\* An apply makes and removes temporary files of its own.
LEMMA ApplyTemps ==
    ASSUME Locals, Shared, NEW a \in Applies, Apply(a)
    PROVE  temps' \subseteq Applies \X Files \X {"new", "old"} /\ OwnTemps(a)
<1> DEFINE All == Applies \X Files \X {"new", "old"}
<1>1. temps \subseteq All
  BY DEF Shared
<1>2. CASE Stage(a)
  <2>1. phase[a] \in Working
    BY <1>2, PhaseNames DEF Stage
  <2>2. <<a, File(a), "new">> \in All
    BY <2>1, ItemFacts
  <2>3. temps' = temps \cup {<<a, File(a), "new">>}
    BY <1>2 DEF Stage
  <2> QED BY <1>1, <2>2, <2>3 DEF OwnTemps
<1>3. CASE StageBack(a)
  <2>1. phase[a] \in Working
    BY <1>3, PhaseNames DEF StageBack
  <2>2. <<a, File(a), "old">> \in All
    BY <2>1, ItemFacts
  <2>3. temps' = temps \cup {<<a, File(a), "old">>}
    BY <1>3 DEF StageBack
  <2> QED BY <1>1, <2>2, <2>3 DEF OwnTemps
<1>4. CASE \/ Prepare(a) \/ StageFails(a) \/ Validate(a)
           \/ Compare(a) \/ Rename(a) \/ RenameFails(a)
           \/ CompareBack(a) \/ StageBackFails(a)
           \/ RenameBack(a) \/ RenameBackFails(a) \/ Clean(a)
  <2>1. temps' \subseteq temps
    BY <1>4 DEF Prepare, StageFails, Validate, Compare, Rename, RenameFails,
                CompareBack, StageBackFails, RenameBack, RenameBackFails, Clean
  <2> QED BY <1>1, <2>1 DEF OwnTemps
<1> QED BY <1>2, <1>3, <1>4 DEF Apply

\* The files keep their type.
LEMMA SharedStep ==
    ASSUME Locals, Shared, EditNext
    PROVE  Shared'
<1>1. /\ disk \in [Files -> Seq(Text)] /\ temps \subseteq Applies \X Files \X {"new", "old"}
      /\ edits \in 0..MaxEdits /\ deaths \in 0..MaxDeaths /\ raced \in BOOLEAN
  BY DEF Shared
<1>2. MaxEdits \in Nat /\ MaxDeaths \in Nat
  BY EditAssumption
<1>3. ASSUME NEW a \in Applies, Apply(a)
      PROVE  Shared'
  <2>1. deaths' = deaths /\ edits' = edits /\ disk' \in [Files -> Seq(Text)] /\ raced' \in BOOLEAN
    BY <1>3, ApplyWrites
  <2>2. temps' \subseteq Applies \X Files \X {"new", "old"}
    BY <1>3, ApplyTemps
  <2> QED BY <1>1, <2>1, <2>2 DEF Shared
<1>4. ASSUME NEW a \in Applies, Die(a)
      PROVE  Shared'
  <2>1. /\ disk' = disk /\ temps' = temps /\ edits' = edits /\ raced' = raced
        /\ deaths < MaxDeaths /\ deaths' = deaths + 1
    BY <1>4 DEF Die
  <2>2. deaths' \in 0..MaxDeaths
    BY <1>1, <1>2, <2>1
  <2> QED BY <1>1, <2>1, <2>2 DEF Shared
<1>5. ASSUME NEW f \in Files, NEW i \in DOMAIN disk[f], Edit(f, i)
      PROVE  Shared'
  <2>1. disk' \in [Files -> Seq(Text)]
    BY <1>5, EditIs
  <2>2. /\ edits < MaxEdits /\ edits' = edits + 1 /\ temps' = temps /\ deaths' = deaths
        /\ raced' = (raced \/ InWindow(f, {}))
    BY <1>5 DEF Edit
  <2>3. edits' \in 0..MaxEdits
    BY <1>1, <1>2, <2>2
  <2>4. raced' \in BOOLEAN
    BY <1>1, <2>2 DEF InWindow
  <2> QED BY <1>1, <2>1, <2>2, <2>3, <2>4 DEF Shared
<1> QED BY <1>3, <1>4, <1>5 DEF EditNext

\* A step of one apply leaves the others where they are.
LEMMA OthersStay ==
    ASSUME Locals, Shared, NEW a \in Applies, Apply(a)
    PROVE  Locals' /\ \A b \in Applies \ {a} : Same(b)
<1>1. disk \in [Files -> Seq(Text)]
  BY DEF Shared
<1>2. CASE Prepare(a)
  BY <1>1, <1>2, PrepareMoves DEF Moved
<1>3. CASE Stage(a)
  BY <1>3, StageMoves DEF Moved
<1>4. CASE StageFails(a)
  <2>1. phase[a] \in Working /\ Undo(a, 0) /\ prep' = prep /\ unrestored' = unrestored
    BY <1>4, PhaseNames DEF StageFails
  <2> QED BY <2>1, NothingDone DEF Moved
<1>5. CASE Validate(a)
  BY <1>5, ValidateMoves DEF Moved
<1>6. CASE Compare(a)
  BY <1>6, CompareMoves DEF Moved
<1>7. CASE Rename(a)
  BY <1>7, RenameMoves DEF Moved
<1>8. CASE RenameFails(a)
  <2>1. phase[a] \in Working /\ Undo(a, at[a] - 1) /\ prep' = prep /\ unrestored' = unrestored
    BY <1>8, PhaseNames DEF RenameFails
  <2> QED BY <2>1, OneLess DEF Moved
<1>9. CASE CompareBack(a)
  BY <1>9, CompareBackMoves DEF Moved
<1>10. CASE StageBack(a)
  BY <1>10, StageBackMoves DEF Moved
<1>11. CASE StageBackFails(a)
  BY <1>11, BackwardMoves DEF StageBackFails, Moved
<1>12. CASE RenameBack(a)
  BY <1>12, BackwardMoves DEF RenameBack, Moved
<1>13. CASE RenameBackFails(a)
  BY <1>13, BackwardMoves DEF RenameBackFails, Moved
<1>14. CASE Clean(a)
  BY <1>14, CleanMoves DEF Moved
<1> QED BY <1>2, <1>3, <1>4, <1>5, <1>6, <1>7, <1>8, <1>9, <1>10, <1>11, <1>12,
           <1>13, <1>14 DEF Apply

\* Every apply stays in order.
LEMMA LocalsStep ==
    ASSUME Locals, Shared, EditNext
    PROVE  Locals'
<1>1. ASSUME NEW a \in Applies, Apply(a)
      PROVE  Locals'
  BY <1>1, OthersStay
<1>2. ASSUME NEW a \in Applies, Die(a)
      PROVE  Locals'
  BY <1>2, DieMoves DEF Moved
<1>3. ASSUME NEW f \in Files, NEW i \in DOMAIN disk[f], Edit(f, i)
      PROVE  Locals'
  BY <1>3 DEF Edit, locals, Locals
<1> QED BY <1>1, <1>2, <1>3 DEF EditNext

-----------------------------------------------------------------------------
\* At first nothing is prepared and every file is as the plans saw it.
LEMMA EditTypesInit ==
    ASSUME EditInit
    PROVE  Locals /\ Shared
<1>1. Shared
  <2>1. Origin \in [Files -> Seq(Text)] /\ MaxEdits \in Nat /\ MaxDeaths \in Nat
    BY EditAssumption
  <2>2. /\ disk = Origin /\ temps = {} /\ edits = 0 /\ deaths = 0 /\ raced = FALSE
    BY DEF EditInit
  <2>3. edits \in 0..MaxEdits /\ deaths \in 0..MaxDeaths
    BY ONLY <2>1, <2>2
  <2> QED BY <2>1, <2>2, <2>3 DEF Shared
<1>2. /\ phase \in [Applies -> Phases] /\ prep \in [Applies -> Seq(Items)]
      /\ at \in [Applies -> Nat] /\ unrestored \in [Applies -> SUBSET Files]
  <2>1. "prepare" \in Phases
    BY PhaseNames
  <2>2. <<>> \in Seq(Items)
    OBVIOUS
  <2> QED BY <2>1, <2>2 DEF EditInit
<1>3. \A a \in Applies : Local(a, phase[a], prep[a], at[a], unrestored[a])
  <2> SUFFICES ASSUME NEW a \in Applies
               PROVE  Local(a, phase[a], prep[a], at[a], unrestored[a])
    OBVIOUS
  <2>1. phase[a] = "prepare" /\ prep[a] = <<>> /\ at[a] = 1 /\ unrestored[a] = {}
    BY DEF EditInit
  <2>2. Len(Targets(a)) \in Nat \ {0}
    BY TargetsFacts
  <2>3. "prepare" \notin Working
    BY PhaseNames
  <2>4. prep[a] \in Seq(Items) /\ Len(prep[a]) = 0
    BY <2>1
  <2> QED BY <2>1, <2>2, <2>3, <2>4 DEF Local
<1> QED BY <1>1, <1>2, <1>3 DEF Locals

\* Each step keeps the applies in order and the files in their types.
LEMMA EditTypesStep ==
    ASSUME Locals, Shared, [EditNext]_editVars
    PROVE  Locals' /\ Shared'
<1>1. CASE EditNext
  BY <1>1, LocalsStep, SharedStep
<1>2. CASE UNCHANGED editVars
  BY <1>2 DEF editVars, locals, Locals, Shared
<1> QED BY <1>1, <1>2

\* So they are in every state.
LEMMA EditTypesHold ==
    EditSpec => [](Locals /\ Shared)
<1>1. EditInit => Locals /\ Shared
  BY EditTypesInit
<1>2. (Locals /\ Shared) /\ [EditNext]_editVars => (Locals /\ Shared)'
  BY EditTypesStep
<1> QED BY <1>1, <1>2, PTL DEF EditSpec

\* What an apply has prepared is for the first of its targets, in their order,
\* whatever it has come to.  The code: prepared is filled by the loop over
\* sorted(grouped) and only read after it.
THEOREM EditTypeCorrect == EditSpec => []EditTypeOK
<1>1. Locals /\ Shared => EditTypeOK
  <2> SUFFICES ASSUME Locals, Shared PROVE EditTypeOK
    OBVIOUS
  <2>1. /\ disk \in [Files -> Seq(Text)]
        /\ temps \subseteq Applies \X Files \X {"new", "old"}
        /\ edits \in 0..MaxEdits /\ deaths \in 0..MaxDeaths /\ raced \in BOOLEAN
    BY DEF Shared
  <2>2. phase \in [Applies -> Over \cup {"prepare", "stage", "validate", "compare", "rename",
                  "compare back", "stage back", "rename back", "clean"}]
    BY DEF Locals, Phases
  <2>3. ASSUME NEW a \in Applies
        PROVE  /\ at[a] \in 0..Len(Targets(a))
               /\ [i \in DOMAIN prep[a] |-> prep[a][i].file] = SubSeq(Targets(a), 1, Len(prep[a]))
               /\ unrestored[a] \subseteq ToSet(Targets(a))
    <3>1. /\ prep[a] \in Seq(Items) /\ Len(prep[a]) <= Len(Targets(a)) /\ Len(prep[a]) \in Nat
          /\ \A i \in 1..Len(prep[a]) : Prepared(a, Targets(a)[i], prep[a][i])
          /\ at[a] \in 0..Len(Targets(a)) /\ unrestored[a] \subseteq ToSet(Targets(a))
      BY OwnFacts
    <3>2. Targets(a) \in Seq(Files) /\ Len(Targets(a)) \in Nat
      BY TargetsFacts
    <3>3. DOMAIN prep[a] = 1..Len(prep[a])
      BY <3>1
    <3> DEFINE L == Len(prep[a])
               T == Targets(a)
               names == [i \in 1..L |-> prep[a][i].file]
    <3>4. names = [i \in 1..L |-> T[i]]
      BY <3>1 DEF Prepared
    <3>5. SubSeq(T, 1, L) = [i \in 1..L |-> T[i]]
      <4> HIDE DEF T, names, L
      <4>1. T \in Seq(Files) /\ L \in Nat /\ L <= Len(T) /\ Len(T) \in Nat
        BY <3>1, <3>2 DEF T, L
      <4> QED BY ONLY <4>1
    <3> QED BY <3>1, <3>3, <3>4, <3>5
  <2> QED BY <2>1, <2>2, <2>3 DEF EditTypeOK
<1> QED BY <1>1, EditTypesHold, PTL

\* What is staged is, for every file and whatever it has become meanwhile, the
\* content that was read with the planned spans replaced, all of them found at
\* one offset with the bytes they had, and every other line where it was.  The
\* code: _unique_digest_start, and the replacements from the bottom up.
THEOREM TargetsOnly == EditSpec => []OnlyTargets
<1>1. Locals => OnlyTargets
  <2> SUFFICES ASSUME Locals, NEW a \in Applies, NEW k \in DOMAIN prep[a]
               PROVE  LET f == prep[a][k].file
                          lines == prep[a][k].before
                      IN  \E n \in -Len(Origin[f])..Len(lines) :
                              /\ a \in ExactFiles => n = 0
                              /\ \A i \in EditsOf(a, f) :
                                    Plan[a][i].start + n
                                        \in Occurrences(lines, Want(Plan[a][i]))
                              /\ prep[a][k].after = Expected(a, f, lines, n)
    BY DEF OnlyTargets
  <2> DEFINE f == prep[a][k].file
             lines == prep[a][k].before
             n == Shift(a, f, lines)
  <2>1. /\ prep[a] \in Seq(Items) /\ Len(prep[a]) <= Len(Targets(a)) /\ Len(prep[a]) \in Nat
        /\ \A i \in 1..Len(prep[a]) : Prepared(a, Targets(a)[i], prep[a][i])
    BY OwnFacts
  <2>2. k \in 1..Len(prep[a])
    BY <2>1
  <2>3. prep[a][k] \in Items
    BY ONLY <2>1, <2>2, ElementOfSeq
  <2>4. f \in Files /\ lines \in Seq(Text)
    BY <2>3 DEF Items
  <2>5. /\ f = Targets(a)[k] /\ Resolves(a, f, lines)
        /\ prep[a][k].after = Replaced(a, f, lines)
    BY <2>1, <2>2 DEF Prepared
  <2>6. EditsOf(a, f) # {}
    <3>1. Len(Targets(a)) \in Nat /\ \A j \in 1..Len(Targets(a)) : EditsOf(a, Targets(a)[j]) # {}
      BY TargetsFacts
    <3>2. k \in 1..Len(Targets(a))
      BY ONLY <2>1, <2>2, <3>1
    <3> QED BY <2>5, <3>1, <3>2
  <2> HIDE DEF f, lines
  <2>7. /\ Spans(a, f, lines, n)
        /\ n \in -Len(Origin[f])..Len(lines)
        /\ a \in ExactFiles => n = 0
        /\ \A i \in EditsOf(a, f) :
              Starts(a, i) + n \in Occurrences(lines, Bytes(a, i))
    BY <2>4, <2>5, <2>6, ResolvedSpans
  <2>8. Replaced(a, f, lines) = Expected(a, f, lines, n)
    BY <2>4, <2>6, <2>7, ReplacedIs
  <2> HIDE DEF n
  <2>9. /\ a \in ExactFiles => n = 0
        /\ \A i \in EditsOf(a, f) :
              Plan[a][i].start + n \in Occurrences(lines, Want(Plan[a][i]))
        /\ prep[a][k].after = Expected(a, f, lines, n)
    BY <2>5, <2>7, <2>8 DEF Starts, Bytes
  <2>10. \E m \in -Len(Origin[f])..Len(lines) :
            /\ a \in ExactFiles => m = 0
            /\ \A i \in EditsOf(a, f) :
                  Plan[a][i].start + m \in Occurrences(lines, Want(Plan[a][i]))
            /\ prep[a][k].after = Expected(a, f, lines, m)
    BY <2>7, <2>9
  <2> QED BY <2>10 DEF f, lines
<1> QED BY <1>1, EditTypesHold, PTL

-----------------------------------------------------------------------------
(* The temporary files an apply has in each phase: those staged and not yet *)
(* renamed, and the one of the restore at hand.                            *)

Kept(a, ph, n, ts) ==
    \A t \in ts : t[1] = a =>
        /\ ph \notin {"prepare", "applied", "refused"}
        /\ t[2] \in ToSet(Targets(a))
        /\ ph \in {"compare", "rename"} => \E i \in n..Len(Targets(a)) : t[2] = Targets(a)[i]
        /\ t[3] = "old" => ph = "dead" \/ (ph = "rename back" /\ t[2] = Targets(a)[n])

\* What a temporary file is named by.
LEMMA TempNames ==
    ASSUME Shared, NEW t \in temps
    PROVE  /\ t[1] \in Applies /\ t[2] \in Files /\ t[3] \in {"new", "old"}
           /\ t = <<t[1], t[2], t[3]>>
BY DEF Shared

\* Fewer files, in a phase that allows as much.
LEMMA KeptLess ==
    ASSUME NEW a, NEW ph, NEW n, NEW ts, Kept(a, ph, n, ts), NEW us \in SUBSET ts,
           ph \notin {"dead", "rename back"},
           NEW to, NEW m, to \notin {"prepare", "applied", "refused", "compare", "rename"}
    PROVE  Kept(a, to, m, us)
BY DEF Kept

\* Who has no temporary file has none in any phase.
LEMMA NoneKept ==
    ASSUME NEW a, NEW ph, NEW n, NEW ts, Kept(a, ph, n, ts), ph = "prepare",
           NEW to, NEW m
    PROVE  Kept(a, to, m, ts)
BY DEF Kept

\* A step of an apply leaves it the temporary files of its next phase.
LEMMA KeptStep ==
    ASSUME Locals, Shared, NEW a \in Applies, Kept(a, phase[a], at[a], temps), Apply(a)
    PROVE  Kept(a, phase'[a], at'[a], temps')
<1> DEFINE L == Len(Targets(a))
           T(i) == Targets(a)[i]
<1>1. disk \in [Files -> Seq(Text)]
  BY DEF Shared
<1>2. L \in Nat \ {0} /\ (\A f : f \in ToSet(Targets(a)) <=> \E i \in 1..L : T(i) = f)
  BY TargetsFacts, ToSetIs
<1>3. phase[a] \in Working => /\ at[a] \in 1..L /\ File(a) = T(at[a])
                              /\ File(a) \in ToSet(Targets(a))
  BY ItemFacts
<1>4. CASE Prepare(a)
  <2>1. phase[a] = "prepare" /\ temps' = temps
    BY <1>4 DEF Prepare
  <2> QED BY <2>1, NoneKept
<1>5. CASE Stage(a)
  <2>1. phase[a] = "stage" /\ temps' = temps \cup {<<a, File(a), "new">>}
    BY <1>5 DEF Stage
  <2>2. phase'[a] \in {"stage", "validate"}
    BY <1>5, <2>1, StageMoves DEF Moved
  <2>3. File(a) \in ToSet(Targets(a))
    BY <1>3, <2>1, PhaseNames
  <2>4. ASSUME NEW t \in temps', t[1] = a
        PROVE  t[2] \in ToSet(Targets(a)) /\ t[3] # "old"
    <3> DEFINE one == <<a, File(a), "new">>
    <3>1. one[2] = File(a) /\ one[3] = "new"
      OBVIOUS
    <3> HIDE DEF one
    <3>2. CASE t \in temps
      BY <2>1, <2>4, <3>2 DEF Kept
    <3>3. CASE t = one
      BY <2>3, <3>1, <3>3
    <3> QED BY <2>1, <3>2, <3>3 DEF one
  <2> QED BY <2>2, <2>4 DEF Kept
<1>6. CASE StageFails(a)
  <2>1. phase[a] = "stage" /\ temps' = temps
    BY <1>6 DEF StageFails
  <2>2. phase'[a] = "clean"
    <3>1. phase[a] \in Working /\ Undo(a, 0) /\ prep' = prep /\ unrestored' = unrestored
      BY <1>6, PhaseNames DEF StageFails
    <3> QED BY <3>1, NothingDone DEF Moved
  <2> QED BY <2>1, <2>2, KeptLess
<1>7. CASE Validate(a)
  <2>1. phase[a] = "validate" /\ temps' = temps
    BY <1>7 DEF Validate
  <2>2. \/ phase'[a] \in {"clean", "validate"}
        \/ phase'[a] = "compare" /\ at'[a] = 1
    BY <1>7, <2>1, ValidateMoves DEF Moved
  <2>3. CASE phase'[a] \in {"clean", "validate"}
    BY <2>1, <2>3, KeptLess
  <2>4. CASE phase'[a] = "compare" /\ at'[a] = 1
    <3>1. \A t \in temps : t[1] = a => \E i \in 1..L : t[2] = T(i)
      BY <1>2 DEF Kept
    <3> QED BY <2>1, <2>4, <3>1 DEF Kept
  <2> QED BY <2>2, <2>3, <2>4
<1>8. CASE Compare(a)
  <2>1. phase[a] = "compare" /\ temps' = temps
    BY <1>8 DEF Compare
  <2>2. \/ phase'[a] = "rename" /\ at'[a] = at[a]
        \/ phase'[a] \in {"clean", "compare back"}
    BY <1>8, CompareMoves DEF Moved
  <2>3. CASE phase'[a] = "rename" /\ at'[a] = at[a]
    BY <2>1, <2>3 DEF Kept
  <2>4. CASE phase'[a] \in {"clean", "compare back"}
    BY <2>1, <2>4, KeptLess
  <2> QED BY <2>2, <2>3, <2>4
<1>9. CASE Rename(a)
  <2>1. phase[a] = "rename" /\ temps' = temps \ {<<a, File(a), "new">>}
    BY <1>9 DEF Rename
  <2>2. at[a] \in 1..L /\ File(a) = T(at[a])
    BY <1>3, <2>1, PhaseNames
  <2>3. ASSUME NEW t \in temps', t[1] = a
        PROVE  /\ t[2] \in ToSet(Targets(a)) /\ t[3] # "old"
               /\ \E i \in (at[a] + 1)..L : t[2] = T(i)
    <3>1. t \in temps /\ t # <<a, File(a), "new">>
      BY <2>1, <2>3
    <3>2. t[2] \in ToSet(Targets(a)) /\ t[3] # "old"
      BY <2>1, <2>3, <3>1 DEF Kept
    <3>3. PICK i \in at[a]..L : t[2] = T(i)
      BY <2>1, <2>3, <3>1 DEF Kept
    <3>4. t[3] = "new" /\ t = <<a, t[2], "new">>
      BY <2>3, <3>1, <3>2, TempNames
    <3>5. i # at[a]
      BY <2>2, <3>1, <3>3, <3>4
    <3>6. i \in (at[a] + 1)..L
      BY ONLY <1>2, <2>2, <3>5, i \in at[a]..L
    <3> QED BY <3>2, <3>3, <3>6
  <2>4. CASE at[a] = L
    <3>1. (at[a] + 1)..L = {}
      BY <1>2, <2>4
    <3> QED BY <2>3, <3>1 DEF Kept
  <2>5. CASE at[a] # L
    <3>1. phase'[a] = "compare" /\ at'[a] = at[a] + 1
      BY <1>9, <2>5, RenameMoves DEF Moved
    <3> QED BY <2>3, <3>1 DEF Kept
  <2> QED BY <2>4, <2>5
<1>10. CASE RenameFails(a)
  <2>1. phase[a] = "rename" /\ temps' = temps
    BY <1>10 DEF RenameFails
  <2>2. phase'[a] \in {"clean", "compare back"}
    <3>1. phase[a] \in Working /\ Undo(a, at[a] - 1) /\ prep' = prep /\ unrestored' = unrestored
      BY <1>10, PhaseNames DEF RenameFails
    <3> QED BY <3>1, OneLess DEF Moved
  <2> QED BY <2>1, <2>2, KeptLess
<1>11. CASE CompareBack(a)
  <2>1. phase[a] = "compare back" /\ temps' = temps
    BY <1>11 DEF CompareBack
  <2>2. phase'[a] \in {"clean", "compare back", "stage back"}
    BY <1>11, CompareBackMoves DEF Moved
  <2> QED BY <2>1, <2>2, KeptLess
<1>12. CASE StageBack(a)
  <2>1. phase[a] = "stage back" /\ temps' = temps \cup {<<a, File(a), "old">>}
    BY <1>12 DEF StageBack
  <2>2. phase'[a] = "rename back" /\ at'[a] = at[a]
    BY <1>12, StageBackMoves DEF Moved
  <2>3. File(a) \in ToSet(Targets(a)) /\ File(a) = T(at[a])
    BY <1>3, <2>1, PhaseNames
  <2>4. ASSUME NEW t \in temps', t[1] = a
        PROVE  t[2] \in ToSet(Targets(a)) /\ (t[3] = "old" => t[2] = T(at[a]))
    <3> DEFINE one == <<a, File(a), "old">>
    <3>1. one[2] = File(a)
      OBVIOUS
    <3> HIDE DEF one
    <3>2. CASE t \in temps
      BY <2>1, <2>4, <3>2 DEF Kept
    <3>3. CASE t = one
      BY <2>3, <3>1, <3>3
    <3> QED BY <2>1, <3>2, <3>3 DEF one
  <2> QED BY <2>2, <2>4 DEF Kept
<1>13. CASE StageBackFails(a)
  <2>1. phase[a] = "stage back" /\ temps' = temps
    BY <1>13 DEF StageBackFails
  <2>2. phase'[a] \in {"clean", "compare back"}
    BY <1>13, BackwardMoves DEF StageBackFails, Moved
  <2> QED BY <2>1, <2>2, KeptLess
<1>14. CASE RenameBack(a) \/ RenameBackFails(a)
  <2>1. phase[a] = "rename back" /\ temps' = temps \ {<<a, File(a), "old">>}
    BY <1>14 DEF RenameBack, RenameBackFails
  <2>2. phase'[a] \in {"clean", "compare back"}
    BY <1>14, BackwardMoves DEF RenameBack, RenameBackFails, Moved
  <2>3. File(a) = T(at[a])
    BY <1>3, <2>1, PhaseNames
  <2>4. ASSUME NEW t \in temps', t[1] = a
        PROVE  t[2] \in ToSet(Targets(a)) /\ t[3] # "old"
    <3>1. t \in temps /\ t # <<a, File(a), "old">>
      BY <2>1, <2>4
    <3>2. t[2] \in ToSet(Targets(a)) /\ (t[3] = "old" => t[2] = T(at[a]))
      BY <2>1, <2>4, <3>1 DEF Kept
    <3>3. t = <<a, t[2], t[3]>>
      BY <2>4, <3>1, TempNames
    <3> QED BY <2>3, <3>1, <3>2, <3>3
  <2> QED BY <2>2, <2>4 DEF Kept
<1>15. CASE Clean(a)
  <2>1. phase[a] = "clean" /\ temps' = {t \in temps : t[1] # a \/ t[3] # "new"}
    BY <1>15 DEF Clean
  <2>2. ASSUME NEW t \in temps', t[1] = a
        PROVE  FALSE
    <3>1. t \in temps /\ t[3] # "new"
      BY <2>1, <2>2
    <3>2. t[3] = "old"
      BY <3>1, TempNames
    <3> QED BY <2>1, <2>2, <3>1, <3>2 DEF Kept
  <2> QED BY <2>2 DEF Kept
<1> QED BY <1>4, <1>5, <1>6, <1>7, <1>8, <1>9, <1>10, <1>11, <1>12, <1>13, <1>14, <1>15
        DEF Apply

AllKept == \A a \in Applies : Kept(a, phase[a], at[a], temps)

\* Each step leaves every apply those of its phase.
LEMMA AllKeptStep ==
    ASSUME Locals, Shared, AllKept, EditNext
    PROVE  AllKept'
<1>1. ASSUME NEW a \in Applies, Apply(a)
      PROVE  AllKept'
  <2>1. Kept(a, phase'[a], at'[a], temps')
    BY <1>1, KeptStep DEF AllKept
  <2>2. \A b \in Applies \ {a} : phase'[b] = phase[b] /\ at'[b] = at[b]
    BY <1>1, OthersStay DEF Same
  <2>3. \A t \in temps' : t[1] # a => t \in temps
    BY <1>1, ApplyTemps DEF OwnTemps
  <2>4. ASSUME NEW b \in Applies \ {a}
        PROVE  Kept(b, phase'[b], at'[b], temps')
    <3>1. Kept(b, phase[b], at[b], temps) /\ b # a
      BY DEF AllKept
    <3> QED BY <2>2, <2>3, <3>1 DEF Kept
  <2> QED BY <2>1, <2>4 DEF AllKept
<1>2. ASSUME NEW a \in Applies, Die(a)
      PROVE  AllKept'
  <2>1. temps' = temps /\ phase'[a] = "dead"
        /\ \A b \in Applies \ {a} : phase'[b] = phase[b] /\ at'[b] = at[b]
    BY <1>2, DieMoves DEF Die, Moved, Same
  <2>2. Kept(a, phase'[a], at'[a], temps')
    BY <2>1 DEF AllKept, Kept
  <2> QED BY <2>1, <2>2 DEF AllKept
<1>3. ASSUME NEW f \in Files, NEW i \in DOMAIN disk[f], Edit(f, i)
      PROVE  AllKept'
  BY <1>3 DEF Edit, locals, AllKept
<1> QED BY <1>1, <1>2, <1>3 DEF EditNext

\* No temporary file outlives the apply that made it, unless the process was
\* killed: whichever write or rename fails, in the rollback too, and however
\* many targets there are.  The code: the finally of _replace_bytes and the
\* clean-up of whatever was staged and not renamed.
THEOREM NothingLeft == EditSpec => []NoLitter
<1>1. EditInit => AllKept
  BY DEF EditInit, AllKept, Kept
<1>2. Locals /\ Shared /\ AllKept /\ [EditNext]_editVars => AllKept'
  <2>1. ASSUME Locals, Shared, AllKept, UNCHANGED editVars
        PROVE  AllKept'
    BY <2>1 DEF editVars, locals, AllKept
  <2> QED BY <2>1, AllKeptStep
<1>3. Shared /\ AllKept => NoLitter
  <2> SUFFICES ASSUME Shared, AllKept, NEW t \in temps
               PROVE  phase[t[1]] \notin {"applied", "refused"}
    BY DEF NoLitter
  <2>1. t[1] \in Applies
    BY TempNames
  <2>2. Kept(t[1], phase[t[1]], at[t[1]], temps)
    BY <2>1 DEF AllKept
  <2> QED BY <2>2 DEF Kept
<1> QED BY <1>1, <1>2, <1>3, EditTypesHold, PTL DEF EditSpec

-----------------------------------------------------------------------------
(* Between a compare and its rename, nobody having written there.          *)

Windowed == {"rename", "stage back", "rename back"}

Window(ph, item, d) ==
    /\ ph = "rename" => d[item.file] = item.before
    /\ ph \in {"stage back", "rename back"} => d[item.file] = item.after

Windows == ~raced => \A a \in Applies : Window(phase[a], Item(a), disk)

\* A step of an apply into a window, or on in it, has just compared.
LEMMA OwnWindow ==
    ASSUME Locals, Shared, NEW a \in Applies, Apply(a), Window(phase[a], Item(a), disk)
    PROVE  Window(phase'[a], Item(a)', disk')
<1>1. disk \in [Files -> Seq(Text)]
  BY DEF Shared
<1>2. CASE \/ Prepare(a) \/ Stage(a) \/ StageFails(a) \/ Validate(a) \/ Rename(a)
           \/ RenameFails(a) \/ StageBackFails(a) \/ RenameBack(a) \/ RenameBackFails(a)
           \/ Clean(a)
  <2>1. CASE Prepare(a)
    <3>1. phase'[a] \in {"refused", "prepare", "stage"}
      BY <1>1, <2>1, PrepareMoves DEF Moved
    <3> QED BY <3>1 DEF Window
  <2>2. CASE Stage(a)
    <3>1. phase'[a] \in {"stage", "validate"}
      BY <2>2, StageMoves DEF Moved
    <3> QED BY <3>1 DEF Window
  <2>3. CASE StageFails(a)
    <3>1. phase[a] \in Working /\ Undo(a, 0) /\ prep' = prep /\ unrestored' = unrestored
      BY <2>3, PhaseNames DEF StageFails
    <3>2. phase'[a] = "clean"
      BY <3>1, NothingDone DEF Moved
    <3> QED BY <3>2 DEF Window
  <2>4. CASE Validate(a)
    <3>1. phase'[a] \in {"clean", "validate", "compare"}
      BY <2>4, ValidateMoves DEF Moved
    <3> QED BY <3>1 DEF Window
  <2>5. CASE Rename(a)
    <3>1. phase'[a] \in {"compare", "applied"}
      BY <2>5, RenameMoves DEF Moved
    <3> QED BY <3>1 DEF Window
  <2>6. CASE RenameFails(a)
    <3>1. phase[a] \in Working /\ Undo(a, at[a] - 1) /\ prep' = prep /\ unrestored' = unrestored
      BY <2>6, PhaseNames DEF RenameFails
    <3>2. phase'[a] \in {"clean", "compare back"}
      BY <3>1, OneLess DEF Moved
    <3> QED BY <3>2 DEF Window
  <2>7. CASE StageBackFails(a)
    <3>1. phase'[a] \in {"clean", "compare back"}
      BY <2>7, BackwardMoves DEF StageBackFails, Moved
    <3> QED BY <3>1 DEF Window
  <2>8. CASE RenameBack(a)
    <3>1. phase'[a] \in {"clean", "compare back"}
      BY <2>8, BackwardMoves DEF RenameBack, Moved
    <3> QED BY <3>1 DEF Window
  <2>9. CASE RenameBackFails(a)
    <3>1. phase'[a] \in {"clean", "compare back"}
      BY <2>9, BackwardMoves DEF RenameBackFails, Moved
    <3> QED BY <3>1 DEF Window
  <2>10. CASE Clean(a)
    <3>1. phase'[a] = "refused"
      BY <2>10, CleanMoves DEF Moved
    <3> QED BY <3>1 DEF Window
  <2> QED BY <1>2, <2>1, <2>2, <2>3, <2>4, <2>5, <2>6, <2>7, <2>8, <2>9, <2>10
<1>3. ASSUME prep'[a] = prep[a], at'[a] = at[a]
      PROVE  Item(a)' = Item(a)
  BY <1>3 DEF Item
<1>4. CASE Compare(a)
  <2>1. disk' = disk
    BY <1>4 DEF Compare
  <2>2. CASE /\ disk[File(a)] = Item(a).before
             /\ Moved(a, "rename", prep[a], at[a], unrestored[a])
    <3>1. phase'[a] = "rename" /\ Item(a)' = Item(a)
      BY <1>3, <2>2 DEF Moved
    <3> QED BY <2>1, <2>2, <3>1 DEF Window, File
  <2>3. CASE phase'[a] \in {"clean", "compare back"}
    BY <2>3 DEF Window
  <2> QED BY <1>4, <2>2, <2>3, CompareMoves DEF Moved
<1>5. CASE CompareBack(a)
  <2>1. disk' = disk
    BY <1>5 DEF CompareBack
  <2>2. CASE /\ disk[File(a)] = Item(a).after
             /\ Moved(a, "stage back", prep[a], at[a], unrestored[a])
    <3>1. phase'[a] = "stage back" /\ Item(a)' = Item(a)
      BY <1>3, <2>2 DEF Moved
    <3> QED BY <2>1, <2>2, <3>1 DEF Window, File
  <2>3. CASE phase'[a] \in {"clean", "compare back"}
    BY <2>3 DEF Window
  <2> QED BY <1>5, <2>2, <2>3, CompareBackMoves DEF Moved
<1>6. CASE StageBack(a)
  <2>1. disk' = disk /\ phase[a] = "stage back"
    BY <1>6 DEF StageBack
  <2>2. phase'[a] = "rename back" /\ Item(a)' = Item(a)
    BY <1>3, <1>6, StageBackMoves DEF Moved
  <2> QED BY <2>1, <2>2 DEF Window
<1> QED BY <1>2, <1>4, <1>5, <1>6 DEF Apply

\* Somebody's write: in one file, and, unless it is a race, into nobody's window.
Writes(f, mine) ==
    /\ disk' = [disk EXCEPT ![f] = disk'[f]]
    /\ raced' = (raced \/ InWindow(f, mine))

\* A write into nobody's window leaves the windows as they are.
LEMMA WriteKeepsWindows ==
    ASSUME Locals, Shared, NEW f \in Files, NEW mine, Writes(f, mine), ~raced',
           NEW b \in Applies \ mine, Same(b), Window(phase[b], Item(b), disk)
    PROVE  Window(phase'[b], Item(b)', disk') /\ ~raced
<1>1. ~raced /\ ~InWindow(f, mine)
  BY DEF Writes
<1>2. phase[b] \in Windowed => File(b) # f
  BY <1>1 DEF InWindow, Windowed
<1>3. phase'[b] = phase[b] /\ Item(b)' = Item(b)
  BY DEF Same, Item
<1>4. phase[b] \in Windowed => disk'[File(b)] = disk[File(b)]
  <2>1. disk \in [Files -> Seq(Text)]
    BY DEF Shared
  <2>2. phase[b] \in Windowed => File(b) \in Files
    BY ItemFacts DEF Windowed, Working
  <2> QED BY <1>2, <2>1, <2>2 DEF Writes
<1> QED BY <1>1, <1>3, <1>4 DEF Window, Windowed, File

\* The writes of an apply are into the file at hand.
LEMMA ApplyWrite ==
    ASSUME Locals, Shared, NEW a \in Applies, Rename(a) \/ RenameBack(a)
    PROVE  /\ Writes(File(a), {a}) /\ File(a) \in Files /\ phase[a] \in Working
           /\ Rename(a) => disk'[File(a)] = Item(a).after /\ phase[a] = "rename"
           /\ RenameBack(a) => disk'[File(a)] = Item(a).before /\ phase[a] = "rename back"
<1>1. disk \in [Files -> Seq(Text)]
  BY DEF Shared
<1>2. phase[a] \in Working
  BY PhaseNames DEF Rename, RenameBack
<1>3. File(a) \in Files
  BY <1>2, ItemFacts
<1>4. CASE Rename(a)
  <2>1. disk' = [disk EXCEPT ![File(a)] = Item(a).after] /\ phase[a] = "rename"
        /\ raced' = (raced \/ InWindow(File(a), {a}))
    BY <1>4 DEF Rename
  <2>2. phase[a] # "rename back"
    BY <2>1
  <2> QED BY <1>1, <1>2, <1>3, <2>1, <2>2 DEF Writes, RenameBack
<1>5. CASE RenameBack(a)
  <2>1. disk' = [disk EXCEPT ![File(a)] = Item(a).before] /\ phase[a] = "rename back"
        /\ raced' = (raced \/ InWindow(File(a), {a}))
    BY <1>5 DEF RenameBack
  <2>2. phase[a] # "rename"
    BY <2>1
  <2> QED BY <1>1, <1>2, <1>3, <2>1, <2>2 DEF Writes, Rename
<1> QED BY <1>4, <1>5

\* Unless there was a race, a file in a window is what it was compared with.
LEMMA WindowsStep ==
    ASSUME Locals, Shared, Windows, EditNext
    PROVE  Windows'
<1> SUFFICES ASSUME ~raced'
             PROVE  \A b \in Applies : Window(phase'[b], Item(b)', disk')
  BY DEF Windows
<1>1. ASSUME NEW a \in Applies, Apply(a)
      PROVE  \A b \in Applies : Window(phase'[b], Item(b)', disk')
  <2>1. \A b \in Applies \ {a} : Same(b)
    BY <1>1, OthersStay
  <2>2. ~raced
    <3>1. Quiet \/ Writes(File(a), {a})
      BY <1>1, ApplyWrites, ApplyWrite
    <3> QED BY <3>1 DEF Quiet, Writes
  <2>3. Window(phase'[a], Item(a)', disk')
    BY <1>1, <2>2, OwnWindow DEF Windows
  <2>4. ASSUME NEW b \in Applies \ {a}
        PROVE  Window(phase'[b], Item(b)', disk')
    <3>1. Window(phase[b], Item(b), disk) /\ Same(b)
      BY <2>1, <2>2 DEF Windows
    <3>2. CASE Quiet
      BY <3>1, <3>2 DEF Quiet, Same, Item
    <3>3. CASE Rename(a) \/ RenameBack(a)
      <4>1. Writes(File(a), {a}) /\ File(a) \in Files
        BY <3>3, ApplyWrite
      <4> QED BY <3>1, <4>1, WriteKeepsWindows
    <3> QED BY <1>1, <3>2, <3>3, ApplyWrites
  <2> QED BY <2>3, <2>4
<1>2. ASSUME NEW a \in Applies, Die(a)
      PROVE  \A b \in Applies : Window(phase'[b], Item(b)', disk')
  <2>1. disk' = disk /\ raced' = raced /\ phase'[a] = "dead"
        /\ \A b \in Applies \ {a} : Same(b)
    BY <1>2, DieMoves DEF Die, Moved
  <2>2. Window(phase'[a], Item(a)', disk')
    BY <2>1 DEF Window
  <2>3. \A b \in Applies \ {a} : Window(phase'[b], Item(b)', disk')
    BY <2>1 DEF Windows, Same, Item
  <2> QED BY <2>2, <2>3
<1>3. ASSUME NEW f \in Files, NEW i \in DOMAIN disk[f], Edit(f, i)
      PROVE  \A b \in Applies : Window(phase'[b], Item(b)', disk')
  <2>1. Writes(f, {}) /\ \A b \in Applies : Same(b)
    BY <1>3, EditIs DEF Edit, locals, Same, Writes
  <2>2. ~raced
    BY <2>1 DEF Writes
  <2> SUFFICES ASSUME NEW b \in Applies
               PROVE  Window(phase'[b], Item(b)', disk')
    OBVIOUS
  <2>3. Window(phase[b], Item(b), disk) /\ Same(b) /\ b \in Applies \ {}
    BY <2>1, <2>2 DEF Windows
  <2> QED BY <2>1, <2>3, WriteKeepsWindows
<1> QED BY <1>1, <1>2, <1>3 DEF EditNext

-----------------------------------------------------------------------------
\* What replacing does to the lines of the item at hand.
LEMMA ItemReplaced ==
    ASSUME Locals, NEW a \in Applies, phase[a] \in Working
    PROVE  LET before == ToSet(Item(a).before)
               after == ToSet(Item(a).after)
           IN  /\ Wrote(a, File(a)) \subseteq after
               /\ after \subseteq before \cup Wrote(a, File(a))
               /\ before \subseteq after \cup ToSet(Origin[File(a)])
<1> DEFINE f == File(a)
           lines == Item(a).before
<1>1. /\ f \in Files /\ lines \in Seq(Text) /\ EditsOf(a, f) # {}
      /\ Prepared(a, f, Item(a))
  BY ItemFacts
<1>2. Resolves(a, f, lines) /\ Item(a).after = Replaced(a, f, lines)
  BY <1>1 DEF Prepared
<1> HIDE DEF f, lines
<1>3. /\ Wrote(a, f) \subseteq ToSet(Replaced(a, f, lines))
      /\ ToSet(Replaced(a, f, lines)) \subseteq ToSet(lines) \cup Wrote(a, f)
      /\ ToSet(lines) \subseteq ToSet(Replaced(a, f, lines)) \cup ToSet(Origin[f])
  BY <1>1, <1>2, ReplacedFacts
<1> QED BY <1>2, <1>3 DEF f, lines

\* If nobody wrote in between, a rename changes the lines of a file by the lines
\* of the plan and by those of the file as the plan saw it, and nothing else; so
\* does taking it back.
LEMMA WrittenLines ==
    ASSUME Locals, Shared, Windows, NEW a \in Applies, Rename(a) \/ RenameBack(a), ~raced'
    PROVE  /\ ToSet(disk[File(a)]) \subseteq
                 ToSet(disk'[File(a)]) \cup Wrote(a, File(a)) \cup ToSet(Origin[File(a)])
           /\ ToSet(disk'[File(a)]) \subseteq
                 ToSet(disk[File(a)]) \cup Wrote(a, File(a)) \cup ToSet(Origin[File(a)])
<1>1. /\ Writes(File(a), {a}) /\ File(a) \in Files /\ phase[a] \in Working
      /\ Rename(a) => disk'[File(a)] = Item(a).after /\ phase[a] = "rename"
      /\ RenameBack(a) => disk'[File(a)] = Item(a).before /\ phase[a] = "rename back"
  BY ApplyWrite
<1>2. Window(phase[a], Item(a), disk)
  BY <1>1 DEF Writes, Windows
<1>3. /\ Rename(a) => disk[File(a)] = Item(a).before
      /\ RenameBack(a) => disk[File(a)] = Item(a).after
  BY <1>1, <1>2 DEF Window, File
<1>4. /\ ToSet(Item(a).after) \subseteq ToSet(Item(a).before) \cup Wrote(a, File(a))
      /\ ToSet(Item(a).before) \subseteq ToSet(Item(a).after) \cup ToSet(Origin[File(a)])
  BY <1>1, ItemReplaced
<1>5. CASE Rename(a)
  BY <1>1, <1>3, <1>4, <1>5
<1>6. CASE RenameBack(a)
  BY <1>1, <1>3, <1>4, <1>6
<1> QED BY <1>5, <1>6

\* So it is in every state.
LEMMA WindowsHold ==
    EditSpec => []Windows
<1>1. EditInit => Windows
  BY DEF EditInit, Windows, Window
<1>2. Locals /\ Shared /\ Windows /\ [EditNext]_editVars => Windows'
  <2>1. ASSUME Locals, Shared, Windows, UNCHANGED editVars
        PROVE  Windows'
    BY <2>1 DEF editVars, locals, Windows, Item
  <2> QED BY <2>1, WindowsStep
<1> QED BY <1>1, <1>2, EditTypesHold, PTL DEF EditSpec

\* What an editor added to any file is never taken away, whatever is applied or
\* rolled back, unless it came between a compare and its rename.  The code: the
\* compare before every rename and restore, over the whole content.
THEOREM EditorsNotesStay ==
    ASSUME NotesApart
    PROVE  EditSpec => NotesStay
<1>1. Locals /\ Shared /\ Windows /\ [EditNext]_editVars =>
        [~raced' => \A f \in Files : Notes \cap ToSet(disk[f]) \subseteq ToSet(disk'[f])]_editVars
  <2> SUFFICES ASSUME Locals, Shared, Windows, EditNext, ~raced', NEW f \in Files
               PROVE  Notes \cap ToSet(disk[f]) \subseteq ToSet(disk'[f])
    OBVIOUS
  <2>1. disk \in [Files -> Seq(Text)]
    BY DEF Shared
  <2>2. ASSUME NEW a \in Applies, Rename(a) \/ RenameBack(a)
        PROVE  Notes \cap ToSet(disk[f]) \subseteq ToSet(disk'[f])
    <3>1. Writes(File(a), {a}) /\ File(a) \in Files
      BY <2>2, ApplyWrite
    <3>2. CASE f = File(a)
      <4>1. Notes \cap ToSet(Origin[f]) = {} /\ Notes \cap Wrote(a, f) = {}
        BY DEF NotesApart
      <4>2. ToSet(disk[f]) \subseteq ToSet(disk'[f]) \cup Wrote(a, f) \cup ToSet(Origin[f])
        BY <2>2, <3>2, WrittenLines
      <4> QED BY <4>1, <4>2
    <3>3. CASE f # File(a)
      BY <2>1, <3>1, <3>3 DEF Writes
    <3> QED BY <3>2, <3>3
  <2>3. ASSUME NEW a \in Applies, Apply(a)
        PROVE  Notes \cap ToSet(disk[f]) \subseteq ToSet(disk'[f])
    BY <2>2, <2>3, ApplyWrites DEF Quiet
  <2>4. ASSUME NEW a \in Applies, Die(a)
        PROVE  Notes \cap ToSet(disk[f]) \subseteq ToSet(disk'[f])
    BY <2>4 DEF Die
  <2>5. ASSUME NEW g \in Files, NEW i \in DOMAIN disk[g], Edit(g, i)
        PROVE  Notes \cap ToSet(disk[f]) \subseteq ToSet(disk'[f])
    <3>1. disk' = [disk EXCEPT ![g] = disk'[g]]
          /\ ToSet(disk[g]) \subseteq ToSet(disk'[g]) \cup ToSet(Origin[g])
      BY <2>5, EditIs
    <3>2. Notes \cap ToSet(Origin[g]) = {}
      BY DEF NotesApart
    <3>3. CASE f = g
      BY <3>1, <3>2, <3>3
    <3>4. CASE f # g
      BY <2>1, <3>1, <3>4
    <3> QED BY <3>3, <3>4
  <2> QED BY <2>3, <2>4, <2>5 DEF EditNext
<1> QED BY <1>1, EditTypesHold, WindowsHold, PTL DEF EditSpec, NotesStay

-----------------------------------------------------------------------------
(* Whose lines are where.                                                  *)

\* The k-th file of a has been written, and is not to be restored.
Landed(ph, n, k) == ph = "applied" \/ (ph \in {"compare", "rename"} /\ k < n)

\* Lines of a may be in f: it was renamed, and not yet looked at again.
MayHave(a, ph, n, f) ==
    \/ ph \in {"applied", "dead"}
    \/ ph \in {"compare", "rename"} /\ \E k \in 1..(n - 1) : Targets(a)[k] = f
    \/ /\ ph \in {"compare back", "stage back", "rename back"}
       /\ \E k \in 1..n : Targets(a)[k] = f

Marks(a, ph, items, n, un, d) ==
    /\ \A k \in 1..Len(items) : Wrote(a, Targets(a)[k]) \cap ToSet(items[k].before) = {}
    /\ \A f \in Files : Wrote(a, f) \cap ToSet(d[f]) # {} => f \in un \/ MayHave(a, ph, n, f)
    /\ \A k \in 1..Len(Targets(a)) :
          Landed(ph, n, k) => Wrote(a, Targets(a)[k]) \subseteq ToSet(d[Targets(a)[k]])

MarksOf(a) == Marks(a, phase[a], prep[a], at[a], unrestored[a], disk)
AllMarks == ~raced => \A a \in Applies : MarksOf(a)

\* Nothing is written, and the apply goes on: what may be in a file may be in it
\* still or is told, and nothing more is claimed.
LEMMA MarksGoOn ==
    ASSUME NEW a \in Applies, NEW items, NEW ph, NEW n, NEW un, NEW d,
           Marks(a, ph, items, n, un, d), NEW to, NEW m, NEW told,
           un \subseteq told,
           \A f \in Files : MayHave(a, ph, n, f) => f \in told \/ MayHave(a, to, m, f),
           \A k \in 1..Len(Targets(a)) : Landed(to, m, k) => Landed(ph, n, k)
    PROVE  Marks(a, to, items, m, told, d)
<1>1. \A k \in 1..Len(items) : Wrote(a, Targets(a)[k]) \cap ToSet(items[k].before) = {}
  BY DEF Marks
<1>2. \A f \in Files : Wrote(a, f) \cap ToSet(d[f]) # {} => f \in told \/ MayHave(a, to, m, f)
  BY DEF Marks
<1>3. \A k \in 1..Len(Targets(a)) :
          Landed(to, m, k) => Wrote(a, Targets(a)[k]) \subseteq ToSet(d[Targets(a)[k]])
  BY DEF Marks
<1> QED BY <1>1, <1>2, <1>3 DEF Marks

\* No phase of these has renamed anything.
LEMMA NothingYet ==
    ASSUME NEW a \in Applies, NEW n, NEW ph \in {"prepare", "stage", "validate", "clean", "refused"}
    PROVE  /\ \A f : ~MayHave(a, ph, n, f)
           /\ \A k : ~Landed(ph, n, k)
BY DEF MayHave, Landed

\* The first file is at hand.
LEMMA FirstYet ==
    ASSUME NEW a \in Applies
    PROVE  /\ \A f : ~MayHave(a, "compare", 1, f)
           /\ \A k \in Nat \ {0} : ~Landed("compare", 1, k)
BY DEF MayHave, Landed

\* The lines of b in every file are those that were there.
KeepsMarks(b) ==
    \A f \in Files : Wrote(b, f) \cap ToSet(disk'[f]) = Wrote(b, f) \cap ToSet(disk[f])

\* Who does not move, and whose lines stay, keeps its marks.
LEMMA MarksStay ==
    ASSUME NEW b \in Applies, MarksOf(b), Same(b), KeepsMarks(b)
    PROVE  MarksOf(b)'
<1> DEFINE T(k) == Targets(b)[k]
<1>1. \A k \in 1..Len(prep[b]) : Wrote(b, T(k)) \cap ToSet(prep[b][k].before) = {}
  BY DEF MarksOf, Marks
<1>2. \A f \in Files : Wrote(b, f) \cap ToSet(disk'[f]) # {} =>
                           f \in unrestored[b] \/ MayHave(b, phase[b], at[b], f)
  BY DEF MarksOf, Marks, KeepsMarks
<1>3. \A k \in 1..Len(Targets(b)) : T(k) \in Files
  BY TargetsFacts, ElementOfSeq
<1>4. \A k \in 1..Len(Targets(b)) :
          Landed(phase[b], at[b], k) => Wrote(b, T(k)) \subseteq ToSet(disk'[T(k)])
  BY <1>3 DEF MarksOf, Marks, KeepsMarks
<1>5. Marks(b, phase[b], prep[b], at[b], unrestored[b], disk')
  BY <1>1, <1>2, <1>4 DEF Marks
<1> QED BY <1>5 DEF MarksOf, Same

\* A write of a is no loss and no gain to b; neither is an editor's.
LEMMA OthersMarks ==
    ASSUME MarksApart, Locals, Shared, Windows, ~raced',
           NEW a \in Applies, Rename(a) \/ RenameBack(a), NEW b \in Applies \ {a}
    PROVE  KeepsMarks(b)
<1> SUFFICES ASSUME NEW f \in Files
             PROVE  Wrote(b, f) \cap ToSet(disk'[f]) = Wrote(b, f) \cap ToSet(disk[f])
  BY DEF KeepsMarks
<1>1. disk \in [Files -> Seq(Text)]
  BY DEF Shared
<1>2. Writes(File(a), {a}) /\ File(a) \in Files
  BY ApplyWrite
<1>3. CASE f = File(a)
  <2>1. /\ ToSet(disk[f]) \subseteq ToSet(disk'[f]) \cup Wrote(a, f) \cup ToSet(Origin[f])
        /\ ToSet(disk'[f]) \subseteq ToSet(disk[f]) \cup Wrote(a, f) \cup ToSet(Origin[f])
    BY <1>3, WrittenLines
  <2>2. Wrote(b, f) \cap ToSet(Origin[f]) = {} /\ Wrote(b, f) \cap Wrote(a, f) = {}
    BY DEF MarksApart
  <2> QED BY <2>1, <2>2
<1>4. CASE f # File(a)
  BY <1>1, <1>2, <1>4 DEF Writes
<1> QED BY <1>3, <1>4

\* An editor's line is nobody's mark, and it takes out none.
LEMMA EditMarks ==
    ASSUME MarksApart, Shared, NEW g \in Files, NEW i \in DOMAIN disk[g], Edit(g, i),
           NEW b \in Applies
    PROVE  KeepsMarks(b)
<1> SUFFICES ASSUME NEW f \in Files
             PROVE  Wrote(b, f) \cap ToSet(disk'[f]) = Wrote(b, f) \cap ToSet(disk[f])
  BY DEF KeepsMarks
<1>1. disk \in [Files -> Seq(Text)]
  BY DEF Shared
<1>2. /\ disk' = [disk EXCEPT ![g] = disk'[g]]
      /\ ToSet(disk'[g]) \subseteq ToSet(disk[g]) \cup Copies \cup Notes
      /\ ToSet(disk[g]) \subseteq ToSet(disk'[g]) \cup ToSet(Origin[g])
  BY EditIs
<1>3. CASE f = g
  <2>1. Wrote(b, f) \cap (ToSet(Origin[f]) \cup Copies \cup Notes) = {}
    BY DEF MarksApart
  <2> QED BY <1>2, <1>3, <2>1
<1>4. CASE f # g
  BY <1>1, <1>2, <1>4
<1> QED BY <1>3, <1>4

\* The rename of the file at hand.
LEMMA RenameMarks ==
    ASSUME Locals, Shared, NEW a \in Applies, Rename(a), MarksOf(a)
    PROVE  MarksOf(a)'
<1> DEFINE L == Len(Targets(a))
           T(k) == Targets(a)[k]
           n == at[a]
           items == prep[a]
           un == unrestored[a]
<1>1. /\ Writes(File(a), {a}) /\ File(a) \in Files /\ phase[a] \in Working
      /\ disk'[File(a)] = Item(a).after /\ phase[a] = "rename"
  BY ApplyWrite
<1>2. disk \in [Files -> Seq(Text)]
  BY DEF Shared
<1>3. \A f \in Files : f # File(a) => disk'[f] = disk[f]
  BY <1>1, <1>2 DEF Writes
<1>4. Wrote(a, File(a)) \subseteq ToSet(disk'[File(a)])
  BY <1>1, ItemReplaced
<1>5. n \in 1..L /\ L \in Nat /\ File(a) = T(n)
  BY <1>1, ItemFacts, TargetsFacts
<1>6. \A k \in 1..L : T(k) \in Files
  BY TargetsFacts, ElementOfSeq
<1>7. Marks(a, "rename", items, n, un, disk)
  BY <1>1 DEF MarksOf
<1>8. \A k \in 1..Len(items) : Wrote(a, T(k)) \cap ToSet(items[k].before) = {}
  BY <1>7 DEF Marks
<1>9. \A k \in 1..L : k < n => Wrote(a, T(k)) \subseteq ToSet(disk[T(k)])
  BY <1>7 DEF Marks, Landed
<1>10. \A k \in 1..L : k < n + 1 => Wrote(a, T(k)) \subseteq ToSet(disk'[T(k)])
  <2> SUFFICES ASSUME NEW k \in 1..L, k < n + 1
               PROVE  Wrote(a, T(k)) \subseteq ToSet(disk'[T(k)])
    OBVIOUS
  <2>1. CASE T(k) = File(a)
    BY <1>4, <2>1
  <2>2. CASE T(k) # File(a)
    <3>1. k < n
      <4>1. k # n
        BY <1>5, <2>2
      <4> QED BY ONLY <1>5, <4>1, k \in 1..L, k < n + 1
    <3> QED BY <1>3, <1>6, <1>9, <2>2, <3>1
  <2> QED BY <2>1, <2>2
<1>11. CASE n = L /\ Moved(a, "applied", items, n, un)
  <2>1. \A k \in 1..L : k < n + 1
    BY ONLY <1>5, <1>11
  <2>2. \A f \in Files : MayHave(a, "applied", n, f)
    BY DEF MayHave
  <2>3. Marks(a, "applied", items, n, un, disk')
    BY <1>8, <1>10, <2>1, <2>2 DEF Marks
  <2> QED BY <1>11, <2>3 DEF MarksOf, Moved
<1>12. CASE Moved(a, "compare", items, n + 1, un)
  <2>1. \A k \in 1..L : Landed("compare", n + 1, k) => k < n + 1
    BY DEF Landed
  <2>2. ASSUME NEW f \in Files, Wrote(a, f) \cap ToSet(disk'[f]) # {}
        PROVE  f \in un \/ MayHave(a, "compare", n + 1, f)
    <3>1. \A k : k \in 1..((n + 1) - 1) <=> k \in 1..(n - 1) \/ k = n
      BY ONLY <1>5
    <3>2. CASE f = File(a)
      BY <1>5, <3>1, <3>2 DEF MayHave
    <3>3. CASE f # File(a)
      <4>1. f \in un \/ MayHave(a, "rename", n, f)
        BY <1>3, <1>7, <2>2, <3>3 DEF Marks
      <4>2. MayHave(a, "rename", n, f) => \E k \in 1..(n - 1) : T(k) = f
        BY DEF MayHave
      <4> QED BY <3>1, <4>1, <4>2 DEF MayHave
    <3> QED BY <3>2, <3>3
  <2>3. Marks(a, "compare", items, n + 1, un, disk')
    BY <1>8, <1>10, <2>1, <2>2 DEF Marks
  <2> QED BY <1>12, <2>3 DEF MarksOf, Moved
<1> QED BY <1>11, <1>12, RenameMoves

\* The restore of the file at hand.
LEMMA RenameBackMarks ==
    ASSUME Locals, Shared, NEW a \in Applies, RenameBack(a), MarksOf(a)
    PROVE  MarksOf(a)'
<1> DEFINE L == Len(Targets(a))
           T(k) == Targets(a)[k]
           n == at[a]
           items == prep[a]
           un == unrestored[a]
           ph == IF n = 1 THEN "clean" ELSE "compare back"
<1>1. /\ Writes(File(a), {a}) /\ File(a) \in Files /\ phase[a] \in Working
      /\ disk'[File(a)] = Item(a).before /\ phase[a] = "rename back"
  BY ApplyWrite
<1>2. disk \in [Files -> Seq(Text)]
  BY DEF Shared
<1>3. \A f \in Files : f # File(a) => disk'[f] = disk[f]
  BY <1>1, <1>2 DEF Writes
<1>4. n \in 1..L /\ L \in Nat /\ File(a) = T(n) /\ n \in 1..Len(items) /\ Item(a) = items[n]
  BY <1>1, ItemFacts, TargetsFacts
<1>5. Marks(a, "rename back", items, n, un, disk)
  BY <1>1 DEF MarksOf
<1>6. \A k \in 1..Len(items) : Wrote(a, T(k)) \cap ToSet(items[k].before) = {}
  BY <1>5 DEF Marks
<1>7. Wrote(a, File(a)) \cap ToSet(disk'[File(a)]) = {}
  BY <1>1, <1>4, <1>6
<1>8. Moved(a, ph, items, n - 1, un)
  BY BackwardMoves DEF RenameBack
<1>9. \A k : ~Landed(ph, n - 1, k)
  BY DEF Landed
<1>10. ASSUME NEW f \in Files, Wrote(a, f) \cap ToSet(disk'[f]) # {}
       PROVE  f \in un \/ MayHave(a, ph, n - 1, f)
  <2>1. f # File(a)
    BY <1>7, <1>10
  <2>2. f \in un \/ MayHave(a, "rename back", n, f)
    BY <1>3, <1>5, <1>10, <2>1 DEF Marks
  <2>3. ASSUME f \notin un
        PROVE  MayHave(a, ph, n - 1, f)
    <3>1. PICK k \in 1..n : T(k) = f
      BY <2>2, <2>3 DEF MayHave
    <3>2. k # n
      BY <1>4, <2>1, <3>1
    <3>3. k \in 1..(n - 1) /\ n # 1
      BY ONLY <1>4, <3>2, k \in 1..n
    <3> QED BY <3>1, <3>3 DEF MayHave
  <2> QED BY <2>3
<1> HIDE DEF ph
<1>11. Marks(a, ph, items, n - 1, un, disk')
  BY <1>6, <1>9, <1>10 DEF Marks
<1> QED BY <1>8, <1>11 DEF MarksOf, Moved

-----------------------------------------------------------------------------
\* A step that writes nothing, with what was prepared as it was.
LEMMA QuietMarks ==
    ASSUME Locals, NEW a \in Applies, Quiet, MarksOf(a), NEW to, NEW m, NEW told,
           Moved(a, to, prep[a], m, told), unrestored[a] \subseteq told,
           \A f \in Files : MayHave(a, phase[a], at[a], f) => f \in told \/ MayHave(a, to, m, f),
           \A k \in 1..Len(Targets(a)) : Landed(to, m, k) => Landed(phase[a], at[a], k)
    PROVE  MarksOf(a)'
<1>1. Marks(a, to, prep[a], m, told, disk)
  BY MarksGoOn DEF MarksOf
<1> QED BY <1>1 DEF MarksOf, Moved, Quiet

\* Nothing renamed so far, and nothing by this step.
LEMMA YetMarks ==
    ASSUME Locals, NEW a \in Applies, Quiet, MarksOf(a),
           phase[a] \in {"prepare", "stage", "validate", "clean", "refused"},
           NEW to \in {"prepare", "stage", "validate", "clean", "refused", "compare"}, NEW m,
           to = "compare" => m = 1,
           Moved(a, to, prep[a], m, unrestored[a])
    PROVE  MarksOf(a)'
<1>1. \A f \in Files : ~MayHave(a, phase[a], at[a], f)
  BY NothingYet
<1>2. \A k \in 1..Len(Targets(a)) : ~Landed(to, m, k)
  <2>1. CASE to = "compare"
    BY <2>1 DEF Landed
  <2>2. CASE to # "compare"
    BY <2>2 DEF Landed
  <2> QED BY <2>1, <2>2
<1> QED BY <1>1, <1>2, QuietMarks

\* Back to the file before, this one restored or told.
LEMMA BackMarks ==
    ASSUME Locals, NEW a \in Applies, Quiet, MarksOf(a), NEW told,
           \/ phase[a] \in {"compare", "rename"}
           \/ phase[a] \in {"compare back", "stage back", "rename back"} /\ File(a) \in told,
           Moved(a, IF at[a] = 1 THEN "clean" ELSE "compare back", prep[a], at[a] - 1, told),
           unrestored[a] \subseteq told
    PROVE  MarksOf(a)'
<1> DEFINE n == at[a]
           to == IF n = 1 THEN "clean" ELSE "compare back"
<1>1. phase[a] \in Working
  BY PhaseNames
<1>2. n \in 1..Len(Targets(a)) /\ Len(Targets(a)) \in Nat /\ File(a) = Targets(a)[n]
  BY <1>1, ItemFacts, TargetsFacts
<1>3. \A k : ~Landed(to, n - 1, k)
  BY DEF Landed
<1>4. ASSUME NEW f \in Files, MayHave(a, phase[a], n, f), f \notin told
      PROVE  MayHave(a, to, n - 1, f)
  <2>1. \E k \in 1..(n - 1) : Targets(a)[k] = f
    <3>1. CASE phase[a] \in {"compare", "rename"}
      BY <1>4, <3>1 DEF MayHave
    <3>2. CASE phase[a] \in {"compare back", "stage back", "rename back"} /\ File(a) \in told
      <4>1. PICK k \in 1..n : Targets(a)[k] = f
        BY <1>4, <3>2 DEF MayHave
      <4>2. k # n
        BY <1>2, <1>4, <3>2, <4>1
      <4>3. k \in 1..(n - 1)
        BY ONLY <1>2, <4>2, k \in 1..n
      <4> QED BY <4>1, <4>3
    <3> QED BY <3>1, <3>2
  <2>2. n # 1
    <3>1. PICK k \in 1..(n - 1) : Targets(a)[k] = f
      BY <2>1
    <3> QED BY ONLY <1>2, k \in 1..(n - 1)
  <2> QED BY <2>1, <2>2 DEF MayHave
<1> HIDE DEF to
<1>5. Moved(a, to, prep[a], n - 1, told)
  BY DEF to
<1> QED BY <1>3, <1>4, <1>5, QuietMarks

\* The phase goes on at the same file.
LEMMA OnMarks ==
    ASSUME Locals, NEW a \in Applies, Quiet, MarksOf(a), NEW to,
           \/ phase[a] = "compare" /\ to = "rename"
           \/ phase[a] = "compare back" /\ to = "stage back"
           \/ phase[a] = "stage back" /\ to = "rename back",
           Moved(a, to, prep[a], at[a], unrestored[a])
    PROVE  MarksOf(a)'
<1>1. \A f \in Files : MayHave(a, phase[a], at[a], f) => MayHave(a, to, at[a], f)
  BY DEF MayHave
<1>2. \A k \in 1..Len(Targets(a)) : Landed(to, at[a], k) => Landed(phase[a], at[a], k)
  BY DEF Landed
<1> QED BY <1>1, <1>2, QuietMarks

\* What is read has no line of one's own.
LEMMA PrepareMarks ==
    ASSUME Locals, Shared, NEW a \in Applies, Prepare(a), MarksOf(a)
    PROVE  MarksOf(a)'
<1>1. disk \in [Files -> Seq(Text)]
  BY DEF Shared
<1>2. phase[a] = "prepare" /\ Quiet
  BY DEF Prepare, Quiet
<1>3. unrestored[a] = {} /\ Len(prep[a]) = at[a] - 1 /\ prep[a] \in Seq(Items)
      /\ at[a] \in Nat /\ at[a] >= 1
  BY <1>2, OwnFacts
<1>4. \A f \in Files : ~MayHave(a, "prepare", at[a], f)
  BY DEF MayHave
<1>5. /\ \A k \in 1..Len(prep[a]) : Wrote(a, Targets(a)[k]) \cap ToSet(prep[a][k].before) = {}
      /\ \A f \in Files : Wrote(a, f) \cap ToSet(disk[f]) = {}
  BY <1>2, <1>3, <1>4 DEF MarksOf, Marks
<1>6. CASE Moved(a, "refused", prep[a], at[a], unrestored[a])
  BY <1>2, <1>6, YetMarks
<1>7. ASSUME NEW item \in Items, NEW ph \in {"prepare", "stage"}, NEW n \in Nat,
             item.before = disk[item.file], Prepared(a, Targets(a)[at[a]], item),
             Moved(a, ph, Append(prep[a], item), n, {})
      PROVE  MarksOf(a)'
  <2> DEFINE items == Append(prep[a], item)
  <2>1. item.file = Targets(a)[at[a]] /\ item.file \in Files
    BY <1>7 DEF Prepared, Items
  <2>2. Wrote(a, Targets(a)[at[a]]) \cap ToSet(item.before) = {}
    BY <1>5, <1>7, <2>1
  <2>3. /\ items \in Seq(Items) /\ Len(items) = at[a] /\ items[at[a]] = item
        /\ \A k \in 1..(at[a] - 1) : items[k] = prep[a][k]
    BY ONLY <1>3, <1>7, item \in Items
  <2> HIDE DEF items
  <2>4. \A k \in 1..Len(items) : Wrote(a, Targets(a)[k]) \cap ToSet(items[k].before) = {}
    <3> SUFFICES ASSUME NEW k \in 1..Len(items)
                 PROVE  Wrote(a, Targets(a)[k]) \cap ToSet(items[k].before) = {}
      OBVIOUS
    <3>1. CASE k = at[a]
      BY <2>2, <2>3, <3>1
    <3>2. CASE k # at[a]
      <4>1. k \in 1..(at[a] - 1) /\ k \in 1..Len(prep[a])
        BY ONLY <1>3, <2>3, <3>2, k \in 1..Len(items)
      <4> QED BY <1>5, <2>3, <4>1
    <3> QED BY <3>1, <3>2
  <2>5. \A k : ~Landed(ph, n, k)
    BY DEF Landed
  <2>6. Marks(a, ph, items, n, {}, disk)
    BY <1>5, <2>4, <2>5 DEF Marks
  <2> QED BY <1>2, <1>7, <2>6 DEF MarksOf, Moved, Quiet, items
<1> QED BY <1>1, <1>6, <1>7, PrepareMoves

\* A step of an apply keeps its marks.
LEMMA OwnMarks ==
    ASSUME Locals, Shared, NEW a \in Applies, Apply(a), MarksOf(a)
    PROVE  MarksOf(a)'
<1>1. CASE Prepare(a)
  BY <1>1, PrepareMarks
<1>2. CASE Stage(a)
  <2>1. phase[a] = "stage" /\ Quiet
    BY <1>2 DEF Stage, Quiet
  <2>2. \E to \in {"stage", "validate"}, m \in {1, at[a] + 1} :
            Moved(a, to, prep[a], m, unrestored[a])
    BY <1>2, StageMoves
  <2> QED BY <2>1, <2>2, YetMarks
<1>3. CASE StageFails(a)
  <2>1. phase[a] = "stage" /\ Quiet /\ Undo(a, 0) /\ prep' = prep /\ unrestored' = unrestored
    BY <1>3 DEF StageFails, Quiet
  <2>2. Moved(a, "clean", prep[a], 0, unrestored[a])
    BY <2>1, NothingDone, PhaseNames
  <2> QED BY <2>1, <2>2, YetMarks
<1>4. CASE Validate(a)
  <2>1. phase[a] = "validate" /\ Quiet
    BY <1>4 DEF Validate, Quiet
  <2>2. CASE Moved(a, "clean", prep[a], 0, unrestored[a])
    BY <2>1, <2>2, YetMarks
  <2>3. CASE Moved(a, "compare", prep[a], 1, unrestored[a])
    BY <2>1, <2>3, YetMarks
  <2>4. CASE Moved(a, "validate", prep[a], at[a] + 1, unrestored[a])
    BY <2>1, <2>4, YetMarks
  <2> QED BY <1>4, <2>2, <2>3, <2>4, ValidateMoves
<1>5. CASE Compare(a)
  <2>1. phase[a] = "compare" /\ Quiet
    BY <1>5 DEF Compare, Quiet
  <2>2. CASE Moved(a, "rename", prep[a], at[a], unrestored[a])
    BY <2>1, <2>2, OnMarks
  <2>3. CASE Moved(a, IF at[a] = 1 THEN "clean" ELSE "compare back", prep[a], at[a] - 1,
                   unrestored[a])
    BY <2>1, <2>3, BackMarks
  <2> QED BY <1>5, <2>2, <2>3, CompareMoves
<1>6. CASE Rename(a)
  BY <1>6, RenameMarks
<1>7. CASE RenameFails(a)
  <2>1. /\ phase[a] = "rename" /\ Quiet /\ Undo(a, at[a] - 1) /\ prep' = prep
        /\ unrestored' = unrestored
    BY <1>7 DEF RenameFails, Quiet
  <2>2. Moved(a, IF at[a] = 1 THEN "clean" ELSE "compare back", prep[a], at[a] - 1,
              unrestored[a])
    BY <2>1, OneLess, PhaseNames
  <2> QED BY <2>1, <2>2, BackMarks
<1>8. CASE CompareBack(a)
  <2>1. phase[a] = "compare back" /\ Quiet
    BY <1>8 DEF CompareBack, Quiet
  <2>2. CASE Moved(a, "stage back", prep[a], at[a], unrestored[a])
    BY <2>1, <2>2, OnMarks
  <2>3. CASE Moved(a, IF at[a] = 1 THEN "clean" ELSE "compare back", prep[a], at[a] - 1,
                   unrestored[a] \cup {File(a)})
    BY <2>1, <2>3, BackMarks
  <2> QED BY <1>8, <2>2, <2>3, CompareBackMoves
<1>9. CASE StageBack(a)
  <2>1. phase[a] = "stage back" /\ Quiet
    BY <1>9 DEF StageBack, Quiet
  <2>2. Moved(a, "rename back", prep[a], at[a], unrestored[a])
    BY <1>9, StageBackMoves
  <2> QED BY <2>1, <2>2, OnMarks
<1>10. CASE StageBackFails(a) \/ RenameBackFails(a)
  <2>1. phase[a] \in {"stage back", "rename back"} /\ Quiet /\ Backward(a, FALSE) /\ prep' = prep
    BY <1>10 DEF StageBackFails, RenameBackFails, Quiet
  <2>2. Moved(a, IF at[a] = 1 THEN "clean" ELSE "compare back", prep[a], at[a] - 1,
              unrestored[a] \cup {File(a)})
    BY <2>1, BackwardMoves
  <2> QED BY <2>1, <2>2, BackMarks
<1>11. CASE RenameBack(a)
  BY <1>11, RenameBackMarks
<1>12. CASE Clean(a)
  <2>1. phase[a] = "clean" /\ Quiet
    BY <1>12 DEF Clean, Quiet
  <2>2. Moved(a, "refused", prep[a], at[a], unrestored[a])
    BY <1>12, CleanMoves
  <2> QED BY <2>1, <2>2, YetMarks
<1> QED BY <1>1, <1>2, <1>3, <1>4, <1>5, <1>6, <1>7, <1>8, <1>9, <1>10, <1>11, <1>12
        DEF Apply

\* Unless there was a race, each step keeps all marks.
LEMMA AllMarksStep ==
    ASSUME MarksApart, Locals, Shared, Windows, AllMarks, EditNext
    PROVE  AllMarks'
<1> SUFFICES ASSUME ~raced'
             PROVE  \A b \in Applies : MarksOf(b)'
  BY DEF AllMarks
<1>1. ASSUME NEW a \in Applies, Apply(a)
      PROVE  \A b \in Applies : MarksOf(b)'
  <2>1. ~raced
    <3>1. Quiet \/ Writes(File(a), {a})
      BY <1>1, ApplyWrites, ApplyWrite
    <3> QED BY <3>1 DEF Quiet, Writes
  <2>2. MarksOf(a)'
    BY <1>1, <2>1, OwnMarks DEF AllMarks
  <2>3. ASSUME NEW b \in Applies \ {a}
        PROVE  MarksOf(b)'
    <3>1. MarksOf(b) /\ Same(b)
      BY <1>1, <2>1, OthersStay DEF AllMarks
    <3>2. KeepsMarks(b)
      <4>1. CASE Quiet
        BY <4>1 DEF Quiet, KeepsMarks
      <4>2. CASE Rename(a) \/ RenameBack(a)
        BY <4>2, OthersMarks
      <4> QED BY <1>1, <4>1, <4>2, ApplyWrites
    <3> QED BY <3>1, <3>2, MarksStay
  <2> QED BY <2>2, <2>3
<1>2. ASSUME NEW a \in Applies, Die(a)
      PROVE  \A b \in Applies : MarksOf(b)'
  <2>1. Quiet /\ Moved(a, "dead", prep[a], at[a], unrestored[a])
    BY <1>2, DieMoves DEF Die, Quiet
  <2>2. \A b \in Applies : MarksOf(b)
    BY <2>1 DEF Quiet, AllMarks
  <2>3. MarksOf(a)'
    <3>1. \A f \in Files : MayHave(a, "dead", at[a], f)
      BY DEF MayHave
    <3>2. \A k \in 1..Len(Targets(a)) : ~Landed("dead", at[a], k)
      BY DEF Landed
    <3> QED BY <2>1, <2>2, <3>1, <3>2, QuietMarks
  <2>4. \A b \in Applies \ {a} : Same(b) /\ KeepsMarks(b)
    BY <2>1 DEF Moved, Quiet, KeepsMarks
  <2> QED BY <2>2, <2>3, <2>4, MarksStay
<1>3. ASSUME NEW g \in Files, NEW i \in DOMAIN disk[g], Edit(g, i)
      PROVE  \A b \in Applies : MarksOf(b)'
  <2>1. \A b \in Applies : Same(b)
    BY <1>3 DEF Edit, locals, Same
  <2>2. ~raced
    BY <1>3 DEF Edit
  <2>3. \A b \in Applies : MarksOf(b) /\ KeepsMarks(b)
    BY <1>3, <2>2, EditMarks DEF AllMarks
  <2> QED BY <2>1, <2>3, MarksStay
<1> QED BY <1>1, <1>2, <1>3 DEF EditNext

\* So they are in every state.
LEMMA MarksHold ==
    ASSUME MarksApart
    PROVE  EditSpec => []AllMarks
<1>1. EditInit => AllMarks
  <2> SUFFICES ASSUME EditInit, NEW a \in Applies PROVE MarksOf(a)
    BY DEF AllMarks
  <2>1. phase[a] = "prepare" /\ prep[a] = <<>> /\ disk = Origin
    BY DEF EditInit
  <2>2. \A f \in Files : Wrote(a, f) \cap ToSet(Origin[f]) = {}
    BY DEF MarksApart
  <2>3. \A k : ~Landed("prepare", at[a], k)
    BY DEF Landed
  <2>4. 1..Len(prep[a]) = {}
    BY <2>1
  <2> QED BY <2>1, <2>2, <2>3, <2>4 DEF MarksOf, Marks
<1>2. Locals /\ Shared /\ Windows /\ AllMarks /\ [EditNext]_editVars => AllMarks'
  <2>1. ASSUME Locals, Shared, Windows, AllMarks, UNCHANGED editVars
        PROVE  AllMarks'
    BY <2>1 DEF editVars, locals, AllMarks, MarksOf
  <2> QED BY <2>1, AllMarksStep
<1> QED BY <1>1, <1>2, EditTypesHold, WindowsHold, PTL DEF EditSpec

\* An apply that was refused has left no line of its own in any file but those
\* it says it could not restore, however many files it had renamed and whatever
\* failed in the rollback.  The code: the handler of _apply and what it returns
\* in rollback_failed.
THEOREM RefusalsAreTold ==
    ASSUME MarksApart
    PROVE  EditSpec => []RefusalTold
<1>1. AllMarks => RefusalTold
  <2> SUFFICES ASSUME AllMarks, NEW a \in Applies, NEW f \in Files,
                      ~raced, phase[a] = "refused", f \notin unrestored[a]
               PROVE  Wrote(a, f) \cap ToSet(disk[f]) = {}
    BY DEF RefusalTold
  <2>1. MarksOf(a)
    BY DEF AllMarks
  <2>2. ~MayHave(a, phase[a], at[a], f)
    BY NothingYet
  <2> QED BY <2>1, <2>2 DEF MarksOf, Marks
<1> QED BY <1>1, MarksHold, PTL

\* An apply that says "applied" has its lines in every file of its plan, and no
\* later apply, rollback or editor takes them away.  The code: the compare
\* before every rename and restore, and _apply's loop over all that is prepared.
THEOREM AppliedIsThere ==
    ASSUME MarksApart
    PROVE  EditSpec => []AppliedStays
<1>1. AllMarks => AppliedStays
  <2> SUFFICES ASSUME AllMarks, NEW a \in Applies, NEW f \in Files, ~raced, phase[a] = "applied"
               PROVE  Wrote(a, f) \subseteq ToSet(disk[f])
    BY DEF AppliedStays
  <2>1. Marks(a, "applied", prep[a], at[a], unrestored[a], disk)
    BY DEF AllMarks, MarksOf
  <2>2. CASE EditsOf(a, f) = {}
    BY <2>2 DEF Wrote
  <2>3. CASE EditsOf(a, f) # {}
    <3>1. PICK k \in 1..Len(Targets(a)) : Targets(a)[k] = f
      BY <2>3, TargetsFacts
    <3> QED BY <2>1, <3>1 DEF Marks, Landed
  <2> QED BY <2>2, <2>3
<1> QED BY <1>1, MarksHold, PTL
=============================================================================
