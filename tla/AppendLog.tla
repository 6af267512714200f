------------------------------ MODULE AppendLog ------------------------------
(***************************************************************************)
(* The journal file under src/ctx/taskledger.py and src/ctx/relay.py.      *)
(*                                                                         *)
(* Several operating-system processes append rows to one file.  append()   *)
(* takes an exclusive flock, looks at the last byte, and writes the row in *)
(* as many os.write calls as the kernel needs; a process may be killed     *)
(* between any two of them, and the lock then goes away with it.  load()   *)
(* takes no lock: it parses whatever is in the file at that moment.        *)
(*                                                                         *)
(* A row is Pieces pieces of JSON text and then a newline.  A line parses  *)
(* when it is one row's pieces, all of them and in order: a proper prefix  *)
(* of a JSON object is not a JSON object, and neither is such a prefix     *)
(* with another row glued to it.                                           *)
(***************************************************************************)
EXTENDS Integers, Sequences, FiniteSets

CONSTANTS Procs,                \* writers
          Rows,                 \* rows they may append, each at most once
          Pieces,               \* pieces of one row's text
          NoProc,               \* "nobody holds the lock"
          NoRow,                \* "not appending"
          NL                    \* the newline symbol

ASSUME PiecesAssumption == Pieces \in Nat \ {0}
ASSUME NoProcAssumption == NoProc \notin Procs
ASSUME NoRowAssumption == NoRow \notin Rows
ASSUME NLAssumption == NL \notin Rows \X (1..Pieces)

VARIABLES file,                 \* the file's content, a sequence of symbols
          lock,                 \* holder of the flock
          pc,                   \* where each writer is in append()
          row,                  \* the row each writer is appending
          next,                 \* the next symbol of it to write
          started,              \* rows some writer has begun to append
          returned              \* rows whose append() returned to its caller

vars == <<file, lock, pc, row, next, started, returned>>

Symbols == (Rows \X (1..Pieces)) \cup {NL}

\* What append() may write for r: a newline to close somebody's torn line
\* (number 0), the row's own text, and the newline that ends it.
Symbol(r, k) == IF k \in 1..Pieces THEN <<r, k>> ELSE NL

\* Mutant: nobody looks at the last byte.
TornTailIgnored(f) == FALSE

\* os.read(fd, 1) != b"\n" on a non-empty file.
TornTail(f) == f # <<>> /\ f[Len(f)] # NL

-----------------------------------------------------------------------------
(* load(): the lines of the file that parse.                               *)

\* The pieces of r fill positions p .. p + Pieces - 1 of f.
HasText(f, p, r) ==
    /\ p + Pieces - 1 <= Len(f)
    /\ \A i \in 1..Pieces : f[p + i - 1] = <<r, i>>

\* ... and that is a whole line of f.
LineAt(f, p, r) ==
    /\ HasText(f, p, r)
    /\ p > 1 => f[p - 1] = NL
    /\ p + Pieces <= Len(f) => f[p + Pieces] = NL

\* The set of rows load() returns.
Readable(f) == {r \in Rows : \E p \in 1..Len(f) : LineAt(f, p, r)}

\* The same rows as the list load() returns: in the order of their lines.
LineStarts(f) == {p \in 1..Len(f) : \E r \in Rows : LineAt(f, p, r)}

Loaded(f) ==
    [k \in 1..Cardinality(LineStarts(f)) |->
        LET nth == CHOOSE p \in LineStarts(f) :
                       Cardinality({q \in LineStarts(f) : q < p}) = k - 1
        IN  f[nth][1]]

-----------------------------------------------------------------------------
Init ==
    /\ file = <<>>
    /\ lock = NoProc
    /\ pc = [p \in Procs |-> "idle"]
    /\ row = [p \in Procs |-> NoRow]
    /\ next = [p \in Procs |-> 0]
    /\ started = {}
    /\ returned = {}

\* append(row): validated, serialised, the file opened and not yet locked.
Open(p, r) ==
    /\ pc[p] = "idle"
    /\ r \notin started
    /\ pc' = [pc EXCEPT ![p] = "opened"]
    /\ row' = [row EXCEPT ![p] = r]
    /\ started' = started \cup {r}
    /\ UNCHANGED <<file, lock, next, returned>>

\* Mutant: the lock does not exclude anybody.
LockShared(p) ==
    /\ pc[p] = "opened"
    /\ lock' = p
    /\ pc' = [pc EXCEPT ![p] = "locked"]
    /\ UNCHANGED <<file, row, next, started, returned>>

\* fcntl.flock(fd, LOCK_EX).
Lock(p) ==
    /\ pc[p] = "opened"
    /\ lock = NoProc
    /\ lock' = p
    /\ pc' = [pc EXCEPT ![p] = "locked"]
    /\ UNCHANGED <<file, row, next, started, returned>>

\* The tail check, under the lock: is there a torn line to close first?
CheckTail(p) ==
    /\ pc[p] = "locked"
    /\ next' = [next EXCEPT ![p] = IF TornTail(file) THEN 0 ELSE 1]
    /\ pc' = [pc EXCEPT ![p] = "writing"]
    /\ UNCHANGED <<file, lock, row, started, returned>>

\* One symbol reaches the end of the file.  os.write may stop short after any
\* of them, so a longer write is several of these steps.
Write(p) ==
    /\ pc[p] = "writing"
    /\ next[p] <= Pieces + 1
    /\ file' = Append(file, Symbol(row[p], next[p]))
    /\ next' = [next EXCEPT ![p] = @ + 1]
    /\ UNCHANGED <<lock, pc, row, started, returned>>

\* Mutant: an append that got everything written is tried again.
CloseRetried(p) ==
    /\ pc[p] = "writing"
    /\ next[p] = Pieces + 2
    /\ lock' = NoProc
    /\ pc' = [pc EXCEPT ![p] = "opened"]
    /\ UNCHANGED <<file, row, next, started, returned>>

\* Everything written: closing the descriptor releases the lock.
Close(p) ==
    /\ pc[p] = "writing"
    /\ next[p] = Pieces + 2
    /\ lock' = NoProc
    /\ pc' = [pc EXCEPT ![p] = "idle"]
    /\ row' = [row EXCEPT ![p] = NoRow]
    /\ returned' = returned \cup {row[p]}
    /\ UNCHANGED <<file, next, started>>

\* Mutant: a lock file nobody removes when its owner dies.
CrashHoldingLock(p) ==
    /\ pc[p] # "idle"
    /\ pc' = [pc EXCEPT ![p] = "idle"]
    /\ row' = [row EXCEPT ![p] = NoRow]
    /\ UNCHANGED <<file, lock, next, started, returned>>

\* The process dies inside append(); the kernel drops its lock.
Crash(p) ==
    /\ pc[p] # "idle"
    /\ pc' = [pc EXCEPT ![p] = "idle"]
    /\ row' = [row EXCEPT ![p] = NoRow]
    /\ lock' = IF lock = p THEN NoProc ELSE lock
    /\ UNCHANGED <<file, next, started, returned>>

Step(p) == Lock(p) \/ CheckTail(p) \/ Write(p) \/ Close(p)

Next ==
    \E p \in Procs :
        \/ \E r \in Rows : Open(p, r)
        \/ Step(p)
        \/ Crash(p)

Spec == Init /\ [][Next]_vars

\* A writer inside append() is scheduled, and the kernel grants a lock that
\* stays free.  Nobody has to start an append, and nobody has to crash.
FairSpec == Spec /\ \A p \in Procs : WF_vars(Step(p))

-----------------------------------------------------------------------------
TypeOK ==
    /\ file \in Seq(Symbols)
    /\ lock \in Procs \cup {NoProc}
    /\ pc \in [Procs -> {"idle", "opened", "locked", "writing"}]
    /\ row \in [Procs -> Rows \cup {NoRow}]
    /\ next \in [Procs -> 0..(Pieces + 2)]
    /\ started \in SUBSET Rows
    /\ returned \in SUBSET Rows

\* A row whose append returned is there for every reader from then on,
\* whatever the other writers leave behind when they are killed: the torn
\* tail of taskledger.py:253-264 never costs anybody else a row.
ReturnedReadable == returned \subseteq Readable(file)

\* No reader ever sees a row twice, and every row it sees was appended.
NoPhantomRow ==
    /\ Readable(file) \subseteq started
    /\ \A r \in Rows, p, q \in 1..Len(file) :
           LineAt(file, p, r) /\ LineAt(file, q, r) => p = q

\* A call of append() ends, even behind a writer that died with the lock.
AppendEnds == \A p \in Procs : (pc[p] # "idle") ~> (pc[p] = "idle")

\* The file implements the log the rest of the program sees: each step is
\* one row appended at the end of it, or nothing.
Log == INSTANCE AtomicLog WITH log <- Loaded(file)

RefinesAtomicLog == Log!ASpec
=============================================================================
