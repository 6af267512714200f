---------------------------- MODULE ReflexProofs ----------------------------
(***************************************************************************)
(* The state file of a session, for any number of processes, signatures    *)
(* and deaths: it keeps its shape, loses nothing that was noted in it, and *)
(* what is scored and resolved is scored and resolved once.                *)
(*                                                                         *)
(* One hypothesis: the directory of the session is there, since the lock   *)
(* is taken in it.                                                         *)
(***************************************************************************)
EXTENDS Reflex, FiniteSetTheorems, TLAPS

-----------------------------------------------------------------------------
(* Types.  What an operation makes of a state file is a state file.        *)

GenType == 0..MaxGen
Pcs == {"idle", "wait", "read", "hash", "append"}

ResultType == [st : BlobType, won : SUBSET Nat, fresh : BOOLEAN]

LEMMA ResultTyped ==
    ASSUME NEW st \in BlobType, NEW won \in SUBSET Nat, NEW fresh \in BOOLEAN
    PROVE  Result(st, won, fresh) \in ResultType
BY DEF Result, ResultType

LEMMA EmptyTyped == Empty \in BlobType
<1>1. NoRecord \in RecType
  BY ReflexAssumption DEF NoRecord, RecType
<1>2. NoCircuit \in CircuitType
  BY ReflexAssumption DEF NoCircuit, CircuitType
<1>3. {} \in SUBSET Sigs /\ {} \in SUBSET WinType /\ 0 \in Nat
  OBVIOUS
<1> QED BY <1>1, <1>2, <1>3 DEF Empty, BlobType

LEMMA CircuitMoves ==
    ASSUME NEW c \in CircuitType, NEW g \in GenType
    PROVE  OnStarvation(c, g) \in CircuitType /\ OnPositive(c, g) \in CircuitType
<1>0. GenType \subseteq -1..MaxGen
  BY ReflexAssumption DEF GenType
<1> DEFINE in == InEpisode(c, g)
<1>1. in \in CircuitType
  BY <1>0 DEF InEpisode, CircuitType
<1>2. ASSUME NEW d \in CircuitType, NEW l \in {"normal", "dense", "bypass"}
      PROVE  MovedTo(d, l) \in CircuitType
  <2> DEFINE e == [d EXCEPT !.level = l]
             f == [e EXCEPT !.moved = TRUE]
  <2>1. e \in CircuitType
    BY DEF CircuitType
  <2>2. f \in CircuitType
    BY <2>1 DEF CircuitType
  <2>3. MovedTo(d, l) = [f EXCEPT !.positives = 0]
    BY DEF MovedTo
  <2> HIDE DEF f
  <2> QED BY <2>2, <2>3 DEF CircuitType
<1>3. [in EXCEPT !.positives = @ + 1] \in CircuitType
  BY <1>1 DEF CircuitType
<1> HIDE DEF in
<1>4. OnStarvation(c, g) \in CircuitType
  BY <1>1, <1>2 DEF OnStarvation, in
<1>5. OnPositive(c, g) \in CircuitType
  BY <1>2, <1>3 DEF OnPositive, in
<1> QED BY <1>4, <1>5

\* A field of a file, a record in it, or a circuit in it is replaced.
LEMMA Fields ==
    ASSUME NEW st \in BlobType
    PROVE  /\ \A O \in SUBSET WinType : [st EXCEPT !.open = O] \in BlobType
           /\ \A n \in Nat : [st EXCEPT !.commands = n] \in BlobType
           /\ \A n \in Nat : [st EXCEPT !.seq = n] \in BlobType
           /\ \A D \in SUBSET Sigs : [st EXCEPT !.densify = D] \in BlobType
           /\ \A r \in [Sigs -> RecType] : [st EXCEPT !.recs = r] \in BlobType
           /\ \A c \in [Sigs -> CircuitType] : [st EXCEPT !.circuits = c] \in BlobType
BY DEF BlobType

LEMMA Parts ==
    ASSUME NEW st \in BlobType
    PROVE  /\ st.open \subseteq WinType /\ st.commands \in Nat /\ st.seq \in Nat
           /\ st.densify \subseteq Sigs /\ st.recs \in [Sigs -> RecType]
           /\ st.circuits \in [Sigs -> CircuitType]
           /\ \A s \in Sigs : st.recs[s] \in RecType /\ st.circuits[s] \in CircuitType
BY DEF BlobType

LEMMA WindowIds ==
    ASSUME NEW O \in SUBSET WinType
    PROVE  Ids(O) \subseteq Nat \ {0}
BY DEF Ids, WinType

-----------------------------------------------------------------------------
(* What an operation does to the state it read: it closes what it writes   *)
(* outcomes for, opens what was never there, and takes nothing back.       *)

WellFormed(st) ==
    /\ \A x \in st.open : x.iid =< st.seq
    /\ \A x, y \in st.open : x.iid = y.iid => x = y
    /\ \A s \in Sigs : st.recs[s].armed => st.recs[s].known

Windows(st, r) ==
    /\ r.st.seq \in {st.seq, st.seq + 1}
    /\ r.won \subseteq Ids(st.open)
    /\ \A x \in r.st.open : \/ x \in st.open /\ x.iid \notin r.won
                            \/ x.iid = st.seq + 1 /\ r.st.seq = st.seq + 1

\* Records of signatures other than those of S do not become fresh.
Records(st, r, S) ==
    /\ st.densify \subseteq r.st.densify
    /\ \A s \in Sigs : st.recs[s].known => r.st.recs[s].known
    /\ \A s \in Sigs \ S : IsFresh(r.st.recs[s]) => IsFresh(st.recs[s])

Does(st, r, S) ==
    r \in ResultType /\ WellFormed(r.st) /\ Windows(st, r) /\ Records(st, r, S)

LEMMA NotedDoes ==
    ASSUME NEW st \in BlobType, WellFormed(st), NEW s \in Sigs
    PROVE  /\ Does(st, Result(Noted(st, s), {}, FALSE), {s})
           /\ Noted(st, s).recs[s].known /\ Noted(st, s).commands = st.commands
<1> DEFINE rec == [[[st.recs[s] EXCEPT !.known = TRUE] EXCEPT !.starved = FALSE]
                     EXCEPT !.armed = TRUE]
           new == Noted(st, s)
           r == Result(new, {}, FALSE)
<1>1. rec \in RecType /\ rec.known
  <2>1. st.recs[s] \in RecType
    BY Parts
  <2>2. [st.recs[s] EXCEPT !.known = TRUE] \in RecType
    BY <2>1 DEF RecType
  <2>3. [[st.recs[s] EXCEPT !.known = TRUE] EXCEPT !.starved = FALSE] \in RecType
    BY <2>2 DEF RecType
  <2> QED BY <2>2, <2>3 DEF RecType
<1>2. new = [st EXCEPT !.recs = [st.recs EXCEPT ![s] = rec]]
  BY DEF Noted, BlobType
<1> HIDE DEF rec, new
<1>3. [st.recs EXCEPT ![s] = rec] \in [Sigs -> RecType]
  BY <1>1, Parts
<1>4. new \in BlobType
  BY <1>2, <1>3, Fields
<1>5. /\ new.open = st.open /\ new.seq = st.seq /\ new.densify = st.densify
      /\ new.commands = st.commands
      /\ \A t \in Sigs : new.recs[t] = IF t = s THEN rec ELSE st.recs[t]
  BY <1>2, Parts DEF BlobType
<1>6. r.st = new /\ r.won = {} /\ r \in ResultType
  BY <1>4, ResultTyped DEF Result
<1> HIDE DEF r
<1>7. WellFormed(r.st)
  BY <1>1, <1>5, <1>6 DEF WellFormed
<1>8. Windows(st, r) /\ Records(st, r, {s})
  BY <1>1, <1>5, <1>6 DEF Windows, Records
<1> QED BY <1>1, <1>5, <1>6, <1>7, <1>8 DEF Does, r, new

LEMMA DisarmedDoes ==
    ASSUME NEW st \in BlobType, WellFormed(st)
    PROVE  /\ Does(st, Result(Disarmed(st), {}, FALSE), {})
           /\ Disarmed(st).commands = st.commands
<1> DEFINE recs == [s \in Sigs |-> [st.recs[s] EXCEPT !.armed = FALSE]]
           new == Disarmed(st)
           r == Result(new, {}, FALSE)
<1>1. \A s \in Sigs : [st.recs[s] EXCEPT !.armed = FALSE] \in RecType
  BY Parts DEF RecType
<1>2. recs \in [Sigs -> RecType]
  BY <1>1
<1>3. \A s \in Sigs : recs[s].known = st.recs[s].known /\ recs[s].armed = FALSE
  BY Parts DEF RecType
<1>4. new = [st EXCEPT !.recs = recs]
  BY DEF Disarmed
<1> HIDE DEF recs, new
<1>5. new \in BlobType
  BY <1>2, <1>4, Fields
<1>6. /\ new.open = st.open /\ new.seq = st.seq /\ new.densify = st.densify
      /\ new.commands = st.commands /\ new.recs = recs
  BY <1>4 DEF BlobType
<1>7. r.st = new /\ r.won = {} /\ r \in ResultType
  BY <1>5, ResultTyped DEF Result
<1> HIDE DEF r
<1>8. WellFormed(r.st) /\ Windows(st, r) /\ Records(st, r, {})
  BY <1>3, <1>6, <1>7 DEF WellFormed, Windows, Records, IsFresh
<1> QED BY <1>6, <1>7, <1>8 DEF Does, r, new

LEMMA EmittedDoes ==
    ASSUME NEW st \in BlobType, WellFormed(st), NEW s \in Sigs, NEW g \in GenType
    PROVE  /\ Does(st, Emitted(st, s, g), {})
           /\ Emitted(st, s, g).st.commands = st.commands
           /\ ~Emitted(st, s, g).fresh
<1> DEFINE gone == Stale(st, g) \cup {x \in st.open : x.iid = st.recs[s].iid}
           id == st.seq + 1
           win == [iid |-> id, gen |-> g, at |-> st.commands]
           rec == IF st.recs[s].known THEN st.recs[s]
                  ELSE [NoRecord EXCEPT !.known = TRUE, !.starved = TRUE]
           rec2 == [[rec EXCEPT !.iid = id] EXCEPT !.gen = g]
           open == (st.open \ gone) \cup {win}
           recs == [st.recs EXCEPT ![s] = rec2]
           new == [[[st EXCEPT !.seq = id] EXCEPT !.open = open] EXCEPT !.recs = recs]
           r == Emitted(st, s, g)
<1>1. /\ st.open \subseteq WinType /\ st.commands \in Nat /\ st.seq \in Nat
      /\ st.recs \in [Sigs -> RecType] /\ st.recs[s] \in RecType
  BY Parts
<1>2. rec \in RecType /\ rec.known /\ (IsFresh(rec) => IsFresh(st.recs[s]))
  <2>1. CASE st.recs[s].known
    BY <1>1, <2>1
  <2>2. CASE ~st.recs[s].known
    <3>1. rec = [known |-> TRUE, starved |-> TRUE, armed |-> FALSE, iid |-> 0, gen |-> 0]
      BY <2>2 DEF NoRecord
    <3> HIDE DEF rec
    <3>2. rec \in RecType
      BY <3>1, ReflexAssumption DEF RecType
    <3> QED BY <3>1, <3>2 DEF IsFresh
  <2> QED BY <2>1, <2>2
<1>3. id \in Nat \ {0} /\ win \in WinType /\ win.iid = id
  BY <1>1 DEF WinType, GenType
<1>4. gone \subseteq st.open
  BY DEF Stale
<1> HIDE DEF rec, gone, win
<1>5. /\ rec2 \in RecType /\ rec2.known
      /\ IsFresh(rec2) => IsFresh(st.recs[s])
  <2>1. [rec EXCEPT !.iid = id] \in RecType
    BY <1>2, <1>3 DEF RecType
  <2>2. rec2 \in RecType
    BY <2>1 DEF RecType, GenType
  <2>3. rec2.known = rec.known /\ rec2.armed = rec.armed /\ rec2.starved = rec.starved
    BY <1>2 DEF RecType
  <2> QED BY <1>2, <2>2, <2>3 DEF IsFresh
<1>6. r = Result(new, Ids(gone), FALSE)
  BY <1>1 DEF Emitted, BlobType, gone, win, rec
<1> HIDE DEF rec2
<1>7. open \in SUBSET WinType /\ recs \in [Sigs -> RecType]
  BY <1>1, <1>3, <1>5
<1> HIDE DEF open, recs
<1>8. new \in BlobType
  <2>1. [st EXCEPT !.seq = id] \in BlobType
    BY <1>3, Fields
  <2>2. [[st EXCEPT !.seq = id] EXCEPT !.open = open] \in BlobType
    BY <1>7, <2>1, Fields
  <2> QED BY <1>7, <2>2, Fields
<1>9. /\ new.open = open /\ new.seq = id /\ new.densify = st.densify
      /\ new.commands = st.commands /\ new.recs = recs
  BY DEF BlobType
<1> HIDE DEF new
<1>10. Ids(gone) \in SUBSET Nat
  BY <1>1, <1>4, WindowIds
<1> HIDE DEF r
<1>11. /\ r.st = new /\ r.won = Ids(gone) /\ r \in ResultType /\ r.fresh = FALSE
  <2> DEFINE won == Ids(gone)
  <2> HIDE DEF won
  <2>1. r = Result(new, won, FALSE) /\ won \in SUBSET Nat
    BY <1>6, <1>10 DEF won
  <2>2. r \in ResultType
    BY <1>8, <2>1, ResultTyped
  <2>3. r.st = new /\ r.won = won /\ r.fresh = FALSE
    BY <2>1 DEF Result
  <2> QED BY <2>2, <2>3 DEF won
<1>12. \A t \in Sigs : recs[t] = IF t = s THEN rec2 ELSE st.recs[t]
  BY <1>1 DEF recs
<1>13. WellFormed(new)
  <2>1. \A x \in st.open : x.iid \in Nat /\ x.iid =< st.seq /\ x.iid # id
    BY <1>1 DEF WellFormed, WinType
  <2>2. \A x \in open : x.iid =< id
    BY <1>1, <1>3, <2>1 DEF open
  <2>3. \A x, y \in open : x.iid = y.iid => x = y
    BY <1>3, <2>1 DEF open, WellFormed
  <2>4. \A t \in Sigs : recs[t].armed => recs[t].known
    BY <1>5, <1>12 DEF WellFormed
  <2> QED BY <1>9, <2>2, <2>3, <2>4 DEF WellFormed
<1>14. Windows(st, r)
  <2>1. Ids(gone) \subseteq Ids(st.open)
    BY <1>4 DEF Ids
  <2>2. \A x \in st.open \ gone : x.iid \notin Ids(gone)
    BY <1>4 DEF Ids, WellFormed
  <2>3. \A x \in open : x \in st.open \ gone \/ x.iid = id
    BY <1>3 DEF open
  <2> QED BY <1>9, <1>11, <2>1, <2>2, <2>3 DEF Windows
<1>15. Records(st, r, {})
  BY <1>5, <1>9, <1>11, <1>12 DEF Records
<1> QED BY <1>9, <1>11, <1>13, <1>14, <1>15 DEF Does, r

\* Closing the window of a signature's last intervention.
LEMMA ClosedFacts ==
    ASSUME NEW st \in BlobType, WellFormed(st), NEW s \in Sigs, HasWindow(st, s),
           NEW c \in [Sigs -> CircuitType], NEW fresh \in BOOLEAN,
           NEW r, r = Result([Closed(st, s) EXCEPT !.circuits = c],
                             {st.recs[s].iid}, fresh)
    PROVE  /\ Does(st, r, {}) /\ r.st.commands = st.commands /\ r.st.seq = st.seq
           /\ r.st.recs = st.recs /\ r.st.densify = st.densify /\ r.fresh = fresh
<1> DEFINE i == st.recs[s].iid
           open == {x \in st.open : x.iid # i}
           new == [[st EXCEPT !.open = open] EXCEPT !.circuits = c]
<1>1. open \in SUBSET WinType /\ i \in Nat
  BY Parts DEF RecType
<1>2. r = Result(new, {i}, fresh)
  BY DEF Closed, BlobType
<1>3. i \in Ids(st.open)
  BY DEF HasWindow
<1>4. \A x \in open : x \in st.open /\ x.iid # i
  OBVIOUS
<1> HIDE DEF i, open
<1>5. new \in BlobType
  <2>1. [st EXCEPT !.open = open] \in BlobType
    BY <1>1, Fields
  <2> QED BY <2>1, Fields
<1>6. /\ new.open = open /\ new.seq = st.seq /\ new.densify = st.densify
      /\ new.commands = st.commands /\ new.recs = st.recs
  BY DEF BlobType
<1> HIDE DEF new
<1>7. r.st = new /\ r.won = {i} /\ r \in ResultType /\ r.fresh = fresh
  BY <1>1, <1>2, <1>5, ResultTyped DEF Result
<1>8. WellFormed(new)
  BY <1>4, <1>6 DEF WellFormed
<1>9. Windows(st, r)
  BY <1>3, <1>4, <1>6, <1>7 DEF Windows
<1>10. Records(st, r, {})
  BY <1>6, <1>7 DEF Records
<1> QED BY <1>6, <1>7, <1>8, <1>9, <1>10 DEF Does

LEMMA NothingDone ==
    ASSUME NEW st \in BlobType, WellFormed(st), NEW fresh \in BOOLEAN
    PROVE  Does(st, Result(st, {}, fresh), {})
<1> DEFINE r == Result(st, {}, fresh)
<1>1. r.st = st /\ r.won = {} /\ r \in ResultType
  BY ResultTyped DEF Result
<1> HIDE DEF r
<1>2. Does(st, r, {})
  BY <1>1 DEF Does, Windows, Records
<1> QED BY <1>2 DEF r

LEMMA LandedDoes ==
    ASSUME NEW st \in BlobType, WellFormed(st), NEW s \in Sigs,
           NEW r, r = Landed(st, s)
    PROVE  Does(st, r, {}) /\ r.st.commands = st.commands /\ ~r.fresh
<1>1. CASE ~HasWindow(st, s)
  <2>1. r = Result(st, {}, FALSE)
    BY <1>1 DEF Landed
  <2>2. Does(st, r, {})
    BY <2>1, NothingDone
  <2> QED BY <2>1, <2>2 DEF Result
<1>2. CASE HasWindow(st, s)
  <2> DEFINE c == [st.circuits EXCEPT ![s] = OnPositive(@, st.recs[s].gen)]
  <2>1. c \in [Sigs -> CircuitType]
    BY Parts, CircuitMoves DEF RecType, GenType
  <2>2. r = Result([Closed(st, s) EXCEPT !.circuits = c], {st.recs[s].iid}, FALSE)
    BY <1>2 DEF Landed, Closed, BlobType
  <2> HIDE DEF c
  <2> DEFINE f == FALSE
  <2>3. f \in BOOLEAN /\ r = Result([Closed(st, s) EXCEPT !.circuits = c],
                                    {st.recs[s].iid}, f)
    BY <2>2
  <2> HIDE DEF f
  <2>4. Does(st, r, {}) /\ r.st.commands = st.commands /\ r.fresh = f
    BY <1>2, <2>1, <2>3, ClosedFacts
  <2> QED BY <2>4 DEF f
<1> QED BY <1>1, <1>2

\* A command that is no re-run closes a window, and changes no record.
LEMMA NarrowsDoes ==
    ASSUME NEW st \in BlobType, WellFormed(st), NEW s \in Sigs, NEW g \in GenType,
           NEW r, r = Narrows(st, s, g)
    PROVE  /\ Does(st, r, {}) /\ r.st.commands = st.commands
           /\ r.st.seq = st.seq /\ ~r.fresh
<1> DEFINE wider == {b \in Narrower[s] : st.recs[b].known}
           b == CHOOSE x \in wider : TRUE
<1>1. CASE wider = {} \/ ~HasWindow(st, b)
  <2>1. r = Result(st, {}, FALSE)
    BY <1>1 DEF Narrows
  <2>2. Does(st, r, {})
    BY <2>1, NothingDone
  <2> QED BY <2>1, <2>2 DEF Result
<1>2. CASE wider # {} /\ HasWindow(st, b)
  <2> DEFINE c == [st.circuits EXCEPT ![b] = OnPositive(@, g)]
  <2>1. b \in Sigs
    BY <1>2, ReflexAssumption
  <2>2. r = Result([Closed(st, b) EXCEPT !.circuits[b] = OnPositive(@, g)],
                   {st.recs[b].iid}, FALSE)
    BY <1>2 DEF Narrows
  <2>3. HasWindow(st, b)
    BY <1>2
  <2> HIDE DEF b
  <2>4. c \in [Sigs -> CircuitType]
    BY <2>1, Parts, CircuitMoves
  <2>5. r = Result([Closed(st, b) EXCEPT !.circuits = c], {st.recs[b].iid}, FALSE)
    BY <2>2 DEF Closed, BlobType
  <2> HIDE DEF c
  <2> DEFINE f == FALSE
  <2>6. f \in BOOLEAN /\ r = Result([Closed(st, b) EXCEPT !.circuits = c],
                                    {st.recs[b].iid}, f)
    BY <2>5
  <2> HIDE DEF f
  <2>7. /\ Does(st, r, {}) /\ r.st.commands = st.commands
        /\ r.st.seq = st.seq /\ r.fresh = f
    BY <2>1, <2>3, <2>4, <2>6, ClosedFacts
  <2> QED BY <2>7 DEF f
<1> QED BY <1>1, <1>2

Marked(st, s) ==
    IF st.recs[s].armed
    THEN [st EXCEPT !.recs[s].starved = TRUE, !.densify = @ \cup {s}]
    ELSE st

\* A re-run while armed latches dense rendering, and is fresh no more.
LEMMA MarkedDoes ==
    ASSUME NEW st \in BlobType, WellFormed(st), NEW s \in Sigs,
           NEW marked, marked = Marked(st, s)
    PROVE  /\ marked \in BlobType /\ WellFormed(marked)
           /\ marked.open = st.open /\ marked.seq = st.seq
           /\ marked.commands = st.commands /\ marked.circuits = st.circuits
           /\ st.densify \subseteq marked.densify
           /\ st.recs[s].armed => s \in marked.densify
           /\ ~IsFresh(marked.recs[s])
           /\ marked.recs[s].iid = st.recs[s].iid
           /\ \A t \in Sigs : /\ marked.recs[t].known = st.recs[t].known
                              /\ IsFresh(marked.recs[t]) => IsFresh(st.recs[t])
<1>1. CASE ~st.recs[s].armed
  BY <1>1 DEF IsFresh, Marked
<1>2. CASE st.recs[s].armed
  <2> DEFINE rec == [st.recs[s] EXCEPT !.starved = TRUE]
             recs == [st.recs EXCEPT ![s] = rec]
             dense == st.densify \cup {s}
             mid == [st EXCEPT !.recs = recs]
  <2>1. rec \in RecType /\ st.recs[s] \in RecType
    BY Parts DEF RecType
  <2>2. rec.known = st.recs[s].known /\ rec.iid = st.recs[s].iid /\ rec.starved = TRUE
        /\ rec.armed = st.recs[s].armed
    BY <2>1 DEF RecType
  <2>3. marked = [mid EXCEPT !.densify = dense]
    BY <1>2 DEF BlobType, Marked
  <2> HIDE DEF rec
  <2>4. recs \in [Sigs -> RecType] /\ dense \in SUBSET Sigs
    BY <2>1, Parts
  <2>5. mid \in BlobType
    BY <2>4, Fields
  <2>6. marked \in BlobType
    BY <2>3, <2>4, <2>5, Fields
  <2>7. \A t \in Sigs : recs[t] = IF t = s THEN rec ELSE st.recs[t]
    BY Parts
  <2> HIDE DEF recs, dense
  <2>8. /\ marked.open = st.open /\ marked.seq = st.seq
        /\ marked.commands = st.commands /\ marked.circuits = st.circuits
        /\ marked.densify = dense /\ marked.recs = recs
    BY <2>3 DEF BlobType
  <2> HIDE DEF mid
  <2>9. WellFormed(marked)
    BY <2>2, <2>7, <2>8 DEF WellFormed
  <2>10. ~IsFresh(marked.recs[s])
    BY <2>2, <2>7, <2>8 DEF IsFresh
  <2>11. \A t \in Sigs : /\ marked.recs[t].known = st.recs[t].known
                         /\ IsFresh(marked.recs[t]) => IsFresh(st.recs[t])
    BY <2>2, <2>7, <2>8, <2>10
  <2> QED BY <2>2, <2>6, <2>7, <2>8, <2>9, <2>10, <2>11 DEF dense
<1> QED BY <1>1, <1>2

LEMMA RerunDoes ==
    ASSUME NEW st \in BlobType, WellFormed(st), NEW s \in Sigs, NEW g \in GenType,
           NEW r, r = Rerun(st, s, g)
    PROVE  /\ Does(st, r, {}) /\ r.st.commands = st.commands
           /\ r.st.seq = st.seq
           /\ r.fresh = IsFresh(st.recs[s]) /\ ~IsFresh(r.st.recs[s])
           /\ st.recs[s].armed => s \in r.st.densify
<1> DEFINE rec == st.recs[s]
           marked == IF rec.armed
                     THEN [st EXCEPT !.recs[s].starved = TRUE, !.densify = @ \cup {s}]
                     ELSE st
           won == IF HasWindow(st, s) THEN {rec.iid} ELSE {}
           moved == IF Starves(rec, g) THEN OnStarvation(st.circuits[s], g)
                    ELSE OnPositive(st.circuits[s], g)
           fresh == IsFresh(rec)
           c == [marked.circuits EXCEPT ![s] = moved]
<1>1. r = IF won = {} THEN Result(marked, {}, fresh)
          ELSE Result([Closed(marked, s) EXCEPT !.circuits[s] = moved], won, fresh)
  BY DEF Rerun
<1>2. moved \in CircuitType
  BY Parts, CircuitMoves
<1>3. fresh \in BOOLEAN
  BY DEF IsFresh
<1>0. marked = Marked(st, s)
  BY DEF Marked
<1> HIDE DEF marked, moved, fresh
<1>4. /\ marked \in BlobType /\ WellFormed(marked)
      /\ marked.open = st.open /\ marked.seq = st.seq
      /\ marked.commands = st.commands /\ marked.circuits = st.circuits
      /\ st.densify \subseteq marked.densify
      /\ rec.armed => s \in marked.densify
      /\ ~IsFresh(marked.recs[s])
      /\ marked.recs[s].iid = rec.iid
      /\ \A t \in Sigs : /\ marked.recs[t].known = st.recs[t].known
                         /\ IsFresh(marked.recs[t]) => IsFresh(st.recs[t])
  BY <1>0, MarkedDoes
\* It is enough that the file with the mark is done so with.
<1>5. ASSUME Does(marked, r, {}), r.st.commands = marked.commands,
             r.st.seq = marked.seq, r.fresh = fresh, r.st.recs = marked.recs,
             r.st.densify = marked.densify
      PROVE  /\ Does(st, r, {}) /\ r.st.commands = st.commands /\ r.st.seq = st.seq
             /\ r.fresh = fresh /\ ~IsFresh(r.st.recs[s])
             /\ rec.armed => s \in r.st.densify
  <2>1. Windows(st, r)
    BY <1>4, <1>5 DEF Does, Windows
  <2>2. Records(st, r, {})
    BY <1>4, <1>5 DEF Records
  <2> QED BY <1>4, <1>5, <2>1, <2>2 DEF Does
<1>6. CASE ~HasWindow(st, s)
  <2>1. r = Result(marked, {}, fresh)
    BY <1>1, <1>6
  <2>2. Does(marked, r, {})
    BY <1>3, <1>4, <2>1, NothingDone
  <2>3. r.st = marked /\ r.fresh = fresh
    BY <2>1 DEF Result
  <2> QED BY <1>5, <2>2, <2>3 DEF fresh
<1>7. CASE HasWindow(st, s)
  <2>1. c \in [Sigs -> CircuitType]
    BY <1>2, <1>4, Parts
  <2>2. HasWindow(marked, s)
    BY <1>4, <1>7 DEF HasWindow
  <2>3. r = Result([Closed(marked, s) EXCEPT !.circuits = c], {marked.recs[s].iid}, fresh)
    <3>1. r = Result([Closed(marked, s) EXCEPT !.circuits[s] = moved], {rec.iid}, fresh)
      BY <1>1, <1>7
    <3>2. [Closed(marked, s) EXCEPT !.circuits[s] = moved]
            = [Closed(marked, s) EXCEPT !.circuits = c]
      BY <1>4 DEF Closed, BlobType
    <3> QED BY <1>4, <3>1, <3>2
  <2> HIDE DEF c
  <2>4. /\ Does(marked, r, {}) /\ r.st.commands = marked.commands
        /\ r.st.seq = marked.seq /\ r.st.recs = marked.recs
        /\ r.st.densify = marked.densify /\ r.fresh = fresh
    BY <1>3, <1>4, <2>1, <2>2, <2>3, ClosedFacts
  <2> QED BY <1>5, <2>4 DEF fresh
<1> QED BY <1>6, <1>7

LEMMA CheckedDoes ==
    ASSUME NEW st \in BlobType, WellFormed(st), NEW s \in Sigs, NEW g \in GenType,
           NEW r, r = Checked(st, s, g)
    PROVE  /\ Does(st, r, {}) /\ r.st.commands = st.commands + 1
           /\ r.fresh => IsFresh(st.recs[s])
           /\ ~IsFresh(r.st.recs[s])
           /\ st.recs[s].armed => s \in r.st.densify
<1> DEFINE now == [st EXCEPT !.commands = @ + 1]
           did == IF st.recs[s].known THEN Rerun(now, s, g) ELSE Narrows(now, s, g)
           bears == st.recs[s].known \/ \E b \in Narrower[s] : st.recs[b].known
           gone == Elapsed(did.st) \cup (IF bears THEN Stale(did.st, g) ELSE {})
           left == did.st.open \ gone
           new == [did.st EXCEPT !.open = left]
           won == did.won \cup Ids(gone)
<1>1. /\ now \in BlobType /\ now.commands = st.commands + 1 /\ now.open = st.open
      /\ now.seq = st.seq /\ now.recs = st.recs /\ now.densify = st.densify
  BY DEF BlobType
<1>2. WellFormed(now)
  BY <1>1 DEF WellFormed
<1>3. r = Result(new, won, did.fresh)
  BY DEF Checked
<1> HIDE DEF now, bears
<1>4. /\ Does(now, did, {}) /\ did.st.commands = now.commands /\ did.st.seq = now.seq
      /\ did.fresh => IsFresh(now.recs[s])
      /\ ~IsFresh(did.st.recs[s])
      /\ now.recs[s].armed => s \in did.st.densify
  <2>1. CASE st.recs[s].known
    <3>1. did = Rerun(now, s, g)
      BY <2>1
    <3> HIDE DEF did
    <3>2. /\ Does(now, did, {}) /\ did.st.commands = now.commands
          /\ did.st.seq = now.seq /\ did.fresh = IsFresh(now.recs[s])
          /\ ~IsFresh(did.st.recs[s])
          /\ now.recs[s].armed => s \in did.st.densify
      BY <1>1, <1>2, <3>1, RerunDoes
    <3> QED BY <3>2
  <2>2. CASE ~st.recs[s].known
    <3>1. did = Narrows(now, s, g)
      BY <2>2
    <3>2. ~now.recs[s].armed
      BY <1>1, <2>2 DEF WellFormed
    <3> HIDE DEF did
    <3>3. /\ Does(now, did, {}) /\ did.st.commands = now.commands
          /\ did.st.seq = now.seq /\ ~did.fresh
      BY <1>1, <1>2, <3>1, NarrowsDoes
    <3>4. ~IsFresh(did.st.recs[s])
      BY <3>2, <3>3 DEF Does, Records, IsFresh
    <3> QED BY <3>2, <3>3, <3>4
  <2> QED BY <2>1, <2>2
<1> HIDE DEF did
<1>5. /\ did.st \in BlobType /\ did.won \in SUBSET Nat /\ did.fresh \in BOOLEAN
      /\ WellFormed(did.st) /\ did.st.open \in SUBSET WinType
  BY <1>4, Parts DEF Does, ResultType
<1>6. gone \subseteq did.st.open
  BY DEF Elapsed, Stale
<1> HIDE DEF gone
<1>7. left \in SUBSET WinType /\ Ids(gone) \in SUBSET Nat
      /\ Ids(gone) \subseteq Ids(did.st.open)
  BY <1>5, <1>6, WindowIds DEF Ids
<1>8. \A x \in left : x \in did.st.open /\ x.iid \notin Ids(gone)
  BY <1>5, <1>6 DEF WellFormed, Ids
<1> HIDE DEF left
<1>9. new \in BlobType
  BY <1>5, <1>7, Fields
<1>10. /\ new.open = left /\ new.seq = did.st.seq /\ new.densify = did.st.densify
       /\ new.commands = did.st.commands /\ new.recs = did.st.recs
  BY <1>5 DEF BlobType
<1>11. won \in SUBSET Nat
  BY <1>5, <1>7
<1>12. /\ did.won \subseteq Ids(st.open)
       /\ \A x \in did.st.open : x \in st.open /\ x.iid \notin did.won
  <2>1. Windows(now, did)
    BY <1>4 DEF Does
  <2>2. st.seq \in Nat
    BY Parts
  <2> QED BY <1>1, <1>4, <2>1, <2>2 DEF Windows
<1>13. \A x \in left : x \in st.open /\ x.iid \notin won
  BY <1>8, <1>12
<1>14. won \subseteq Ids(st.open)
  BY <1>7, <1>12 DEF Ids
<1> HIDE DEF new, won
<1>15. r.st = new /\ r.won = won /\ r.fresh = did.fresh
  BY <1>3 DEF Result
<1>16. r \in ResultType
  BY <1>3, <1>5, <1>9, <1>11, ResultTyped
<1>17. WellFormed(new)
  BY <1>5, <1>8, <1>10 DEF WellFormed
<1>18. Windows(st, r)
  BY <1>1, <1>4, <1>10, <1>13, <1>14, <1>15 DEF Windows
<1>19. Records(st, r, {})
  BY <1>1, <1>4, <1>10, <1>15 DEF Does, Records
<1> QED BY <1>1, <1>4, <1>10, <1>15, <1>16, <1>17, <1>18, <1>19 DEF Does

-----------------------------------------------------------------------------
(* Type correctness.                                                       *)

Typed == TypeOK /\ WellFormed(blob) /\ \A p \in Procs : WellFormed(mem[p])

LEMMA EmptyFormed == WellFormed(Empty)
<1>1. Empty.open = {} /\ \A s \in Sigs : Empty.recs[s].armed = FALSE
  BY DEF Empty, NoRecord
<1> HIDE DEF Empty
<1> QED BY <1>1 DEF WellFormed

LEMMA NoJobTyped ==
    /\ NoJob \in [op : Operations \cup {"none"}, sig : Sigs, gen : GenType]
    /\ NoLines \in [won : SUBSET Nat, fresh : BOOLEAN]
<1>1. (CHOOSE s \in Sigs : TRUE) \in Sigs
  BY ReflexAssumption
<1>2. 0 \in GenType
  BY ReflexAssumption DEF GenType
<1> QED BY <1>1, <1>2 DEF NoJob, NoLines

LEMMA GensTyped ==
    ASSUME Typed
    PROVE  Gens \subseteq GenType
BY ReflexAssumption DEF Typed, TypeOK, Gens, GenType

\* The operations that write, as one: the state read is of a file, what is
\* written is of a file, and what goes to the ledgers is of its windows.
Writes(p, r, next) ==
    /\ Write(p, r, next)
    /\ r \in ResultType /\ WellFormed(r.st) /\ Windows(mem[p], r)
    /\ next \in {"hash", "append"}
    /\ next = "hash" => r.won = {} /\ r.fresh = FALSE
    /\ UNCHANGED <<job, gen, ops, deaths, outcomes>>

\* Those that neither score nor count nor arm.
Quiet(p, r) ==
    /\ Writes(p, r, "append")
    /\ Records(mem[p], r, {})
    /\ r.st.commands = mem[p].commands /\ ~r.fresh
    /\ UNCHANGED history

LEMMA Reading ==
    ASSUME Typed, NEW p \in Procs
    PROVE  /\ mem[p] \in BlobType /\ WellFormed(mem[p])
           /\ job[p].sig \in Sigs /\ job[p].gen \in GenType
BY DEF Typed, TypeOK, GenType

LEMMA NoteWrites ==
    ASSUME Typed, NEW p \in Procs, Note(p)
    PROVE  \E r : /\ Writes(p, r, "hash") /\ Records(mem[p], r, {job[p].sig})
                  /\ r.st.recs[job[p].sig].known
                  /\ r.st.commands = mem[p].commands
<1> DEFINE s == job[p].sig
           r == Result(Noted(mem[p], s), {}, FALSE)
<1>1. /\ Does(mem[p], r, {s}) /\ Noted(mem[p], s).recs[s].known
      /\ Noted(mem[p], s).commands = mem[p].commands
  BY Reading, NotedDoes
<1>2. r.st = Noted(mem[p], s) /\ r.won = {} /\ r.fresh = FALSE
  BY DEF Result
<1>3. Write(p, r, "hash") /\ UNCHANGED <<job, gen, ops, deaths, outcomes>>
  BY DEF Note
<1> HIDE DEF r
<1>4. Writes(p, r, "hash") /\ Records(mem[p], r, {s})
  BY <1>1, <1>2, <1>3 DEF Writes, Does
<1>5. r.st.recs[s].known /\ r.st.commands = mem[p].commands
  BY <1>1, <1>2
<1> QED BY <1>4, <1>5

LEMMA EmitQuiet ==
    ASSUME Typed, NEW p \in Procs, Emit(p)
    PROVE  \E r : Quiet(p, r)
<1>1. PICK g \in IF job[p].gen = 0 THEN Gens ELSE {job[p].gen} :
             Write(p, Emitted(mem[p], job[p].sig, g), "append")
  BY DEF Emit
<1>2. g \in GenType
  BY <1>1, GensTyped, Reading
<1> DEFINE r == Emitted(mem[p], job[p].sig, g)
<1>3. /\ Does(mem[p], r, {}) /\ r.st.commands = mem[p].commands /\ ~r.fresh
  BY <1>2, Reading, EmittedDoes
<1>4. UNCHANGED <<job, gen, ops, deaths, outcomes>> /\ UNCHANGED history
  BY DEF Emit, history
<1>5. Write(p, r, "append")
  BY <1>1
<1> HIDE DEF r
<1> QED BY <1>3, <1>4, <1>5 DEF Quiet, Writes, Does

LEMMA EditQuiet ==
    ASSUME Typed, NEW p \in Procs, Edit(p)
    PROVE  \E r : Quiet(p, r)
<1> DEFINE r == Result(Disarmed(mem[p]), {}, FALSE)
<1>1. Does(mem[p], r, {}) /\ Disarmed(mem[p]).commands = mem[p].commands
  BY Reading, DisarmedDoes
<1>2. r.st = Disarmed(mem[p]) /\ ~r.fresh
  BY DEF Result
<1>3. UNCHANGED <<job, gen, ops, deaths, outcomes>> /\ UNCHANGED history
  BY DEF Edit, history
<1>4. Write(p, r, "append")
  BY DEF Edit
<1> HIDE DEF r
<1> QED BY <1>1, <1>2, <1>3, <1>4 DEF Quiet, Writes, Does

LEMMA LandQuiet ==
    ASSUME Typed, NEW p \in Procs, Land(p)
    PROVE  \E r : Quiet(p, r)
<1> DEFINE r == Landed(mem[p], job[p].sig)
<1>1. Does(mem[p], r, {}) /\ r.st.commands = mem[p].commands /\ ~r.fresh
  BY Reading, LandedDoes
<1>2. UNCHANGED <<job, gen, ops, deaths, outcomes>> /\ UNCHANGED history
  BY DEF Land, history
<1>3. Write(p, r, "append")
  BY DEF Land
<1> HIDE DEF r
<1> QED BY <1>1, <1>2, <1>3 DEF Quiet, Writes, Does

LEMMA CheckWrites ==
    ASSUME Typed, NEW p \in Procs, Check(p)
    PROVE  \E r : /\ Writes(p, r, "append") /\ Records(mem[p], r, {})
                  /\ r.st.commands = mem[p].commands + 1
                  /\ r.fresh => IsFresh(mem[p].recs[job[p].sig])
                  /\ ~IsFresh(r.st.recs[job[p].sig])
                  /\ mem[p].recs[job[p].sig].armed => job[p].sig \in r.st.densify
<1> DEFINE s == job[p].sig
<1>1. PICK g \in Gens : Write(p, Checked(mem[p], s, g), "append")
  BY DEF Check
<1>2. g \in GenType
  BY GensTyped
<1> DEFINE r == Checked(mem[p], s, g)
<1>3. /\ Does(mem[p], r, {}) /\ r.st.commands = mem[p].commands + 1
      /\ r.fresh => IsFresh(mem[p].recs[s])
      /\ ~IsFresh(r.st.recs[s])
      /\ mem[p].recs[s].armed => s \in r.st.densify
  <2>1. mem[p] \in BlobType /\ WellFormed(mem[p]) /\ s \in Sigs
    BY Reading
  <2>2. r = Checked(mem[p], s, g)
    OBVIOUS
  <2> HIDE DEF r, s
  <2> QED BY <1>2, <2>1, <2>2, CheckedDoes
<1>4. UNCHANGED <<job, gen, ops, deaths, outcomes>>
  BY DEF Check
<1>5. Write(p, r, "append")
  BY <1>1
<1> HIDE DEF r
<1>6. Writes(p, r, "append") /\ Records(mem[p], r, {})
  BY <1>3, <1>4, <1>5 DEF Writes, Does
<1> QED BY <1>3, <1>6

LEMMA TypedInit == Init => Typed
<1> SUFFICES ASSUME Init PROVE Typed
  OBVIOUS
<1> USE DEF Init
<1>1. blob \in BlobType /\ mem \in [Procs -> BlobType]
  BY EmptyTyped
<1>2. WellFormed(blob) /\ \A p \in Procs : WellFormed(mem[p])
  BY EmptyFormed
<1>3. /\ job \in [Procs -> [op : Operations \cup {"none"}, sig : Sigs, gen : 0..MaxGen]]
      /\ lines \in [Procs -> [won : SUBSET Nat, fresh : BOOLEAN]]
  BY NoJobTyped DEF GenType
<1>4. gen \in 1..MaxGen /\ ops \in 0..MaxOps /\ deaths \in 0..MaxDeaths /\ dir \in BOOLEAN
  BY ReflexAssumption
<1>5. pc \in [Procs -> Pcs] /\ holder = NoProc
  BY DEF Pcs
<1> QED BY <1>1, <1>2, <1>3, <1>4, <1>5 DEF Typed, TypeOK, Pcs

LEMMA WritesTyped ==
    ASSUME Typed, NEW p \in Procs, NEW r, NEW next, Writes(p, r, next)
    PROVE  Typed'
<1> USE DEF Typed, TypeOK, Writes, Write, ResultType
<1>1. blob' \in BlobType /\ WellFormed(blob)' /\ dir' \in BOOLEAN
  BY DEF WellFormed
<1>2. mem' \in [Procs -> BlobType] /\ \A q \in Procs : WellFormed(mem[q])'
  <2>1. \A q \in Procs : mem'[q] = IF q = p THEN Empty ELSE mem[q]
    OBVIOUS
  <2>2. \A q \in Procs : WellFormed(mem'[q])
    BY <2>1, EmptyFormed
  <2> QED BY <2>2, EmptyTyped DEF WellFormed
<1>3. lines' \in [Procs -> [won : SUBSET Nat, fresh : BOOLEAN]]
  OBVIOUS
<1>4. pc' \in [Procs -> {"idle", "wait", "read", "hash", "append"}]
  OBVIOUS
<1>5. holder' \in {q \in Procs : pc'[q] = "read"} \cup {NoProc}
  BY DEF Released
<1> QED BY <1>1, <1>2, <1>3, <1>4, <1>5

\* What Leave, Append and Die have in common: they end an operation.
Ends(p) ==
    /\ job' = [job EXCEPT ![p] = NoJob] /\ pc' = [pc EXCEPT ![p] = "idle"]
    /\ mem' = [mem EXCEPT ![p] = Empty] \/ mem' = mem
    /\ lines' = [lines EXCEPT ![p] = NoLines] \/ lines' = lines
    /\ \/ holder' = Released(p)
       \/ holder' = holder /\ pc[p] # "read"
    /\ deaths' \in 0..MaxDeaths
    /\ UNCHANGED <<blob, dir, gen, ops>>

LEMMA EndsTyped ==
    ASSUME Typed, NEW p \in Procs, Ends(p)
    PROVE  Typed'
<1> USE DEF Ends, Typed, TypeOK
<1>1. mem' \in [Procs -> BlobType] /\ \A q \in Procs : WellFormed(mem[q])'
  <2>1. \A q \in Procs : mem'[q] = Empty \/ mem'[q] = mem[q]
    OBVIOUS
  <2>2. \A q \in Procs : WellFormed(mem'[q])
    BY <2>1, EmptyFormed
  <2> QED BY <2>2, EmptyTyped DEF WellFormed
<1>2. pc' \in [Procs -> {"idle", "wait", "read", "hash", "append"}]
      /\ holder' \in {q \in Procs : pc'[q] = "read"} \cup {NoProc}
  BY DEF Released
<1>3. job' \in [Procs -> [op : Operations \cup {"none"}, sig : Sigs, gen : 0..MaxGen]]
      /\ lines' \in [Procs -> [won : SUBSET Nat, fresh : BOOLEAN]]
  BY NoJobTyped DEF GenType
<1>4. WellFormed(blob)'
  BY DEF WellFormed
<1> QED BY <1>1, <1>2, <1>3, <1>4

LEMMA OperationEnds ==
    ASSUME Typed, NEW p \in Procs, Leave(p) \/ Append(p) \/ Die(p)
    PROVE  Ends(p)
<1>1. CASE Leave(p)
  BY <1>1 DEF Leave, Ends, Typed, TypeOK
<1>2. CASE Append(p)
  <2>1. pc[p] # "read" /\ deaths' \in 0..MaxDeaths
    BY <1>2 DEF Append, Typed, TypeOK
  <2> QED BY <1>2, <2>1 DEF Append, Ends
<1>3. CASE Die(p)
  <2>1. deaths' \in 0..MaxDeaths
    BY <1>3, ReflexAssumption DEF Die, Typed, TypeOK
  <2> QED BY <1>3, <2>1 DEF Die, Ends
<1> QED BY <1>1, <1>2, <1>3

LEMMA TypedStep == Typed /\ [Next]_vars => Typed'
<1> SUFFICES ASSUME Typed, [Next]_vars PROVE Typed'
  OBVIOUS
<1>1. CASE UNCHANGED vars
  BY <1>1 DEF vars, control, Typed, TypeOK, WellFormed
<1>2. CASE Change
  BY <1>2, ReflexAssumption DEF Change, control, Typed, TypeOK, WellFormed
<1>3. ASSUME NEW p \in Procs, Begin(p) PROVE Typed'
  <2>1. ops' \in 0..MaxOps
    BY <1>3, ReflexAssumption DEF Begin, Typed, TypeOK
  <2>2. job' \in [Procs -> [op : Operations \cup {"none"}, sig : Sigs, gen : 0..MaxGen]]
    BY <1>3, ReflexAssumption DEF Begin, Typed, TypeOK
  <2>3. pc' \in [Procs -> {"idle", "wait", "read", "hash", "append"}]
        /\ holder' \in {q \in Procs : pc'[q] = "read"} \cup {NoProc}
    BY <1>3 DEF Begin, Typed, TypeOK
  <2> QED BY <1>3, <2>1, <2>2, <2>3 DEF Begin, Typed, TypeOK, WellFormed
<1>4. ASSUME NEW p \in Procs, Enter(p) PROVE Typed'
  <2> USE <1>4 DEF Enter, Typed, TypeOK
  <2>1. mem' \in [Procs -> BlobType] /\ \A q \in Procs : WellFormed(mem[q])'
    <3>1. \A q \in Procs : mem'[q] = IF q = p THEN blob ELSE mem[q]
      OBVIOUS
    <3> QED BY <3>1 DEF WellFormed
  <2>2. pc' \in [Procs -> {"idle", "wait", "read", "hash", "append"}]
        /\ holder' \in {q \in Procs : pc'[q] = "read"} \cup {NoProc}
    OBVIOUS
  <2>3. WellFormed(blob)'
    BY DEF WellFormed
  <2> QED BY <2>1, <2>2, <2>3
<1>5. ASSUME NEW p \in Procs, Leave(p) \/ Append(p) \/ Die(p) PROVE Typed'
  BY <1>5, OperationEnds, EndsTyped
<1>6. ASSUME NEW p \in Procs, Hash(p) PROVE Typed'
  <2>1. PICK g \in Gens : job' = [job EXCEPT ![p].op = "emit", ![p].gen = g]
    BY <1>6 DEF Hash
  <2>2. g \in GenType
    BY GensTyped
  <2>3. job' \in [Procs -> [op : Operations \cup {"none"}, sig : Sigs, gen : 0..MaxGen]]
    BY <2>1, <2>2 DEF Typed, TypeOK, GenType, Operations
  <2>4. pc' \in [Procs -> {"idle", "wait", "read", "hash", "append"}]
        /\ holder' \in {q \in Procs : pc'[q] = "read"} \cup {NoProc}
    BY <1>6 DEF Hash, Typed, TypeOK
  <2> QED BY <1>6, <2>3, <2>4 DEF Hash, Typed, TypeOK, WellFormed
<1>7. ASSUME NEW p \in Procs, Note(p) PROVE Typed'
  BY <1>7, NoteWrites, WritesTyped
<1>8. ASSUME NEW p \in Procs, Emit(p) \/ Edit(p) \/ Land(p) PROVE Typed'
  <2>1. PICK r : Quiet(p, r)
    BY <1>8, EmitQuiet, EditQuiet, LandQuiet
  <2> QED BY <2>1, WritesTyped DEF Quiet
<1>9. ASSUME NEW p \in Procs, Check(p) PROVE Typed'
  BY <1>9, CheckWrites, WritesTyped
<1> QED BY <1>1, <1>2, <1>3, <1>4, <1>5, <1>6, <1>7, <1>8, <1>9 DEF Next

\* Whatever processes read, write, lose and die of, the file a session is kept
\* in is well formed, and its lock is held by one who is in its section, or by
\* nobody: a process killed does not leave it taken.
THEOREM TypeCorrect == Spec => []TypeOK
<1>1. Init => Typed
  BY TypedInit
<1>2. Typed /\ [Next]_vars => Typed'
  BY TypedStep
<1>3. Typed => TypeOK
  BY DEF Typed
<1> QED BY <1>1, <1>2, <1>3, PTL DEF Spec

-----------------------------------------------------------------------------
(* Nothing is lost.  Where the directory of the session is there, who is   *)
(* in its section has the lock and has read the file as it is.             *)

Exclusive == dir /\ \A p \in Procs : pc[p] = "read" => holder = p /\ mem[p] = blob

Kept == cycles \in [Sigs -> Nat] /\ NothingLost

\* The steps that write no file.
Elsewhere(p) == Begin(p) \/ Enter(p) \/ Hash(p) \/ Leave(p) \/ Append(p) \/ Die(p)

LEMMA FileStays ==
    ASSUME NEW p \in Procs, Elsewhere(p)
    PROVE  /\ blob' = blob /\ cycles' = cycles
           /\ counted' = counted /\ latched' = latched
BY DEF Elsewhere, Begin, Enter, Hash, Leave, Append, Die, history

LEMMA WriterReads ==
    ASSUME Typed, Exclusive, NEW p \in Procs, NEW r, NEW next, Writes(p, r, next)
    PROVE  /\ mem[p] = blob /\ blob' = r.st /\ Windows(blob, r) /\ pc[p] = "read"
BY DEF Exclusive, Writes, Write

LEMMA WritesExclusive ==
    ASSUME Typed, Exclusive, NEW p \in Procs, NEW r, NEW next, Writes(p, r, next)
    PROVE  Exclusive'
<1>1. pc[p] = "read" /\ holder = p
  BY DEF Exclusive, Writes, Write
<1>2. \A q \in Procs : pc'[q] # "read"
  BY <1>1 DEF Exclusive, Writes, Write, Typed, TypeOK
<1>3. dir'
  BY DEF Writes, Write
<1> QED BY <1>2, <1>3 DEF Exclusive

LEMMA ExclusiveStep == Typed /\ Exclusive /\ [Next]_vars => Exclusive'
<1> SUFFICES ASSUME Typed, Exclusive, [Next]_vars PROVE Exclusive'
  OBVIOUS
<1>1. CASE UNCHANGED vars
  BY <1>1 DEF vars, control, Exclusive
<1>2. CASE Change
  BY <1>2 DEF Change, control, Exclusive
<1>3. ASSUME NEW p \in Procs, Begin(p) \/ Hash(p) PROVE Exclusive'
  BY <1>3 DEF Begin, Hash, Exclusive, Typed, TypeOK
<1>4. ASSUME NEW p \in Procs, Enter(p) PROVE Exclusive'
  <2>1. \A q \in Procs : pc[q] # "read"
    BY <1>4, ReflexAssumption DEF Enter, Exclusive
  <2> QED BY <1>4, <2>1 DEF Enter, Exclusive, Typed, TypeOK
<1>5. ASSUME NEW p \in Procs, Leave(p) \/ Append(p) \/ Die(p) PROVE Exclusive'
  <2>1. Ends(p)
    BY <1>5, OperationEnds
  <2>2. \A q \in Procs : pc'[q] = "read" => q # p /\ pc[q] = "read"
    BY <2>1 DEF Ends, Typed, TypeOK
  <2>3. \A q \in Procs : q # p => mem'[q] = mem[q]
    BY <2>1 DEF Ends, Typed, TypeOK
  <2> QED BY <2>1, <2>2, <2>3 DEF Ends, Released, Exclusive
<1>6. ASSUME NEW p \in Procs, Note(p) PROVE Exclusive'
  BY <1>6, NoteWrites, WritesExclusive
<1>7. ASSUME NEW p \in Procs, Emit(p) \/ Edit(p) \/ Land(p) PROVE Exclusive'
  <2>1. PICK r : Quiet(p, r)
    BY <1>7, EmitQuiet, EditQuiet, LandQuiet
  <2> QED BY <2>1, WritesExclusive DEF Quiet
<1>8. ASSUME NEW p \in Procs, Check(p) PROVE Exclusive'
  BY <1>8, CheckWrites, WritesExclusive
<1> QED BY <1>1, <1>2, <1>3, <1>4, <1>5, <1>6, <1>7, <1>8 DEF Next

LEMMA KeptStep == Typed /\ Exclusive /\ Kept /\ [Next]_vars => Kept'
<1> SUFFICES ASSUME Typed, Exclusive, Kept, [Next]_vars PROVE Kept'
  OBVIOUS
<1>1. ASSUME blob' = blob, cycles' = cycles, counted' = counted, latched' = latched
      PROVE  Kept'
  BY <1>1 DEF Kept, NothingLost
<1>2. CASE UNCHANGED vars
  BY <1>1, <1>2 DEF vars, history
<1>3. CASE Change
  BY <1>1, <1>3 DEF Change, history
<1>4. ASSUME NEW p \in Procs, Elsewhere(p) PROVE Kept'
  BY <1>1, <1>4, FileStays
<1>5. ASSUME NEW p \in Procs, Note(p) PROVE Kept'
  <2> DEFINE s == job[p].sig
  <2>1. PICK r : /\ Writes(p, r, "hash") /\ Records(mem[p], r, {s})
                 /\ r.st.recs[s].known /\ r.st.commands = mem[p].commands
    BY <1>5, NoteWrites
  <2>2. mem[p] = blob /\ blob' = r.st /\ s \in Sigs
    BY <2>1, WriterReads, Reading
  <2>3. /\ cycles' = [cycles EXCEPT ![s] = @ + 1]
        /\ counted' = counted /\ latched' = latched
    BY <1>5 DEF Note
  <2> HIDE DEF s
  <2>4. cycles' \in [Sigs -> Nat]
        /\ \A t \in Sigs : cycles'[t] > 0 => t = s \/ cycles[t] > 0
    BY <2>2, <2>3 DEF Kept
  <2> QED BY <2>1, <2>2, <2>3, <2>4 DEF Kept, NothingLost, Records
<1>6. ASSUME NEW p \in Procs, Emit(p) \/ Edit(p) \/ Land(p) PROVE Kept'
  <2>1. PICK r : Quiet(p, r)
    BY <1>6, EmitQuiet, EditQuiet, LandQuiet
  <2>2. mem[p] = blob /\ blob' = r.st
    BY <2>1, WriterReads DEF Quiet
  <2> QED BY <2>1, <2>2 DEF Quiet, history, Kept, NothingLost, Records
<1>7. ASSUME NEW p \in Procs, Check(p) PROVE Kept'
  <2> DEFINE s == job[p].sig
  <2>1. PICK r : /\ Writes(p, r, "append") /\ Records(mem[p], r, {})
                 /\ r.st.commands = mem[p].commands + 1
                 /\ mem[p].recs[s].armed => s \in r.st.densify
    BY <1>7, CheckWrites
  <2>2. mem[p] = blob /\ blob' = r.st
    BY <2>1, WriterReads
  <2>3. /\ cycles' = cycles /\ counted' = counted + 1
        /\ latched' = latched \cup (IF mem[p].recs[s].armed THEN {s} ELSE {})
    BY <1>7 DEF Check
  <2> HIDE DEF s
  <2> QED BY <2>1, <2>2, <2>3 DEF Kept, NothingLost, Records
<1> QED BY <1>2, <1>3, <1>4, <1>5, <1>6, <1>7 DEF Next, Elsewhere

LEMMA KeptInit ==
    ASSUME ~Fresh
    PROVE  Init => Exclusive /\ Kept
<1> SUFFICES ASSUME Init PROVE Exclusive /\ Kept
  OBVIOUS
<1>1. Empty.commands = 0
  BY DEF Empty
<1>2. Exclusive
  BY DEF Init, Exclusive
<1>3. Kept
  BY <1>1 DEF Init, Kept, NothingLost
<1> QED BY <1>2, <1>3

\* In a session whose directory is there, no process writes over what another
\* recorded: every command is counted, every intervention known, and dense
\* rendering once latched stays latched, whoever dies where.
THEOREM SessionKeeps ==
    ASSUME ~Fresh
    PROVE  Spec => []NothingLost
<1>1. Init => Typed /\ Exclusive /\ Kept
  BY TypedInit, KeptInit
<1>2. Typed /\ Exclusive /\ Kept /\ [Next]_vars => (Typed /\ Exclusive /\ Kept)'
  BY TypedStep, ExclusiveStep, KeptStep
<1>3. Kept => NothingLost
  BY DEF Kept
<1> QED BY <1>1, <1>2, <1>3, PTL DEF Spec

-----------------------------------------------------------------------------
(* What is resolved is resolved once.  A window is open in the file, or    *)
(* its line is with one process, or its line is in the ledger.             *)

NoLine == \A p \in Procs : pc[p] # "append" => lines[p] = NoLines

Resolved ==
    /\ outcomes \in [1..MaxOps -> 0..1]
    /\ \A i \in 1..MaxOps : outcomes[i] = 1 =>
         /\ i =< blob.seq /\ i \notin Ids(blob.open)
         /\ \A p \in Procs : i \notin lines[p].won
    /\ \A p \in Procs : \A i \in lines[p].won :
         /\ i =< blob.seq /\ i \notin Ids(blob.open)
         /\ \A q \in Procs : i \in lines[q].won => q = p

LEMMA NoLineStep == Typed /\ NoLine /\ [Next]_vars => NoLine'
<1> SUFFICES ASSUME Typed, NoLine, [Next]_vars PROVE NoLine'
  OBVIOUS
<1>1. CASE UNCHANGED vars
  BY <1>1 DEF vars, control, NoLine
<1>2. CASE Change
  BY <1>2 DEF Change, control, NoLine
<1>3. ASSUME NEW p \in Procs, Begin(p) \/ Enter(p) \/ Hash(p) PROVE NoLine'
  BY <1>3 DEF Begin, Enter, Hash, NoLine, Typed, TypeOK
<1>4. ASSUME NEW p \in Procs, Leave(p) PROVE NoLine'
  BY <1>4 DEF Leave, NoLine, Typed, TypeOK
<1>5. ASSUME NEW p \in Procs, Append(p) \/ Die(p) PROVE NoLine'
  BY <1>5 DEF Append, Die, NoLine, Typed, TypeOK
<1>6. ASSUME NEW p \in Procs, NEW r, NEW next, Writes(p, r, next) PROVE NoLine'
  <2>1. next = "hash" => lines'[p] = NoLines
    BY <1>6 DEF Writes, Write, NoLines, Typed, TypeOK
  <2> QED BY <1>6, <2>1 DEF Writes, Write, NoLine, Typed, TypeOK
<1>7. ASSUME NEW p \in Procs, Note(p) \/ Emit(p) \/ Edit(p) \/ Check(p) \/ Land(p)
      PROVE  NoLine'
  BY <1>6, <1>7, NoteWrites, EmitQuiet, EditQuiet, LandQuiet, CheckWrites DEF Quiet
<1> QED BY <1>1, <1>2, <1>3, <1>4, <1>5, <1>7 DEF Next

\* A writer takes windows from the file to itself.
LEMMA WritesResolved ==
    ASSUME Typed, Exclusive, NoLine, Resolved,
           NEW p \in Procs, NEW r, NEW next, Writes(p, r, next)
    PROVE  Resolved'
<1>1. /\ blob' = r.st /\ Windows(blob, r) /\ pc[p] = "read" /\ outcomes' = outcomes
      /\ WellFormed(blob)
  BY WriterReads DEF Writes, Typed
<1>2. \A q \in Procs : lines'[q].won = IF q = p THEN r.won ELSE lines[q].won
  BY DEF Writes, Write, Typed, TypeOK
<1>3. lines[p].won = {}
  BY <1>1 DEF NoLine, NoLines
<1>4. blob.seq \in Nat /\ r.st.seq \in Nat /\ blob.seq =< r.st.seq
  BY <1>1, Parts DEF Windows, Typed, TypeOK
<1>5. r.won \subseteq Ids(blob.open) /\ \A i \in r.won : i =< blob.seq /\ i \in Nat
  <2>1. blob.open \in SUBSET WinType
    BY Parts DEF Typed, TypeOK
  <2> QED BY <1>1, <2>1 DEF Windows, Ids, WellFormed, WinType
<1>6. \A i \in Nat : i =< blob.seq /\ i \in Ids(r.st.open)
                       => i \in Ids(blob.open) /\ i \notin r.won
  BY <1>1, <1>4 DEF Windows, Ids
<1>7. \A q \in Procs : lines[q].won \subseteq Nat
  BY DEF Typed, TypeOK
<1>8. \A i \in 1..MaxOps : outcomes'[i] = 1 =>
         /\ i =< r.st.seq /\ i \notin Ids(r.st.open)
         /\ \A q \in Procs : i \notin lines'[q].won
  BY <1>1, <1>2, <1>4, <1>5, <1>6 DEF Resolved
<1>9. ASSUME NEW q \in Procs, NEW i \in lines'[q].won
      PROVE  /\ i =< r.st.seq /\ i \notin Ids(r.st.open)
             /\ \A t \in Procs : i \in lines'[t].won => t = q
  <2>1. i =< blob.seq /\ i \in Nat
    BY <1>2, <1>5, <1>7, <1>9 DEF Resolved
  <2>2. CASE q = p
    BY <1>2, <1>4, <1>5, <1>6, <2>1, <2>2 DEF Resolved
  <2>3. CASE q # p
    BY <1>2, <1>4, <1>5, <1>6, <2>1, <2>3 DEF Resolved
  <2> QED BY <2>2, <2>3
<1>10. outcomes' \in [1..MaxOps -> 0..1]
  BY <1>1 DEF Resolved
<1> QED BY <1>1, <1>8, <1>9, <1>10 DEF Resolved

LEMMA ResolvedStep ==
    Typed /\ Exclusive /\ NoLine /\ Resolved /\ [Next]_vars => Resolved'
<1> SUFFICES ASSUME Typed, Exclusive, NoLine, Resolved, [Next]_vars PROVE Resolved'
  OBVIOUS
<1>1. ASSUME blob' = blob, outcomes' = outcomes,
             \A q \in Procs : lines'[q].won \subseteq lines[q].won
      PROVE  Resolved'
  BY <1>1 DEF Resolved
<1>2. CASE UNCHANGED vars
  BY <1>1, <1>2 DEF vars, control, history
<1>3. CASE Change
  BY <1>1, <1>3 DEF Change, control, history
<1>4. ASSUME NEW p \in Procs, Begin(p) \/ Enter(p) \/ Hash(p) \/ Leave(p) PROVE Resolved'
  BY <1>1, <1>4 DEF Begin, Enter, Hash, Leave, history
<1>5. ASSUME NEW p \in Procs, Die(p) PROVE Resolved'
  <2>1. \A q \in Procs : lines'[q].won \subseteq lines[q].won
    BY <1>5 DEF Die, NoLines, Typed, TypeOK
  <2> QED BY <1>1, <1>5, <2>1 DEF Die, history
<1>6. ASSUME NEW p \in Procs, Append(p) PROVE Resolved'
  <2>1. /\ blob' = blob
        /\ outcomes' = [i \in 1..MaxOps |->
                          outcomes[i] + (IF i \in lines[p].won THEN 1 ELSE 0)]
    BY <1>6 DEF Append
  <2>2. \A q \in Procs : lines'[q].won = IF q = p THEN {} ELSE lines[q].won
    BY <1>6 DEF Append, NoLines, Typed, TypeOK
  <2>3. \A i \in 1..MaxOps : i \in lines[p].won => outcomes[i] = 0
    BY DEF Resolved
  <2>4. outcomes' \in [1..MaxOps -> 0..1]
        /\ \A i \in 1..MaxOps : outcomes'[i] = 1 => outcomes[i] = 1 \/ i \in lines[p].won
    BY <2>1, <2>3 DEF Resolved
  <2> HIDE <1>6
  <2>5. \A i \in 1..MaxOps : outcomes'[i] = 1 =>
         /\ i =< blob.seq /\ i \notin Ids(blob.open)
         /\ \A q \in Procs : i \notin lines'[q].won
    BY <2>2, <2>4 DEF Resolved
  <2> QED BY <2>1, <2>2, <2>4, <2>5 DEF Resolved
<1>7. ASSUME NEW p \in Procs, Note(p) \/ Emit(p) \/ Edit(p) \/ Check(p) \/ Land(p)
      PROVE  Resolved'
  BY <1>7, WritesResolved, NoteWrites, EmitQuiet, EditQuiet, LandQuiet, CheckWrites
     DEF Quiet
<1> QED BY <1>2, <1>3, <1>4, <1>5, <1>6, <1>7 DEF Next

-----------------------------------------------------------------------------
(* What is starved is scored once a cycle.  Of the interventions recorded  *)
(* for a signature, those scored, those some process is about to score and *)
(* the one that may still be scored are no more than there were.           *)

Scoring(s) == {p \in Procs : lines[p].fresh /\ job[p].sig = s}
MayScore(s) == IF IsFresh(blob.recs[s]) THEN 1 ELSE 0

Scored ==
    /\ {cycles, starved} \subseteq [Sigs -> Nat]
    /\ \A s \in Sigs : starved[s] + Cardinality(Scoring(s)) + MayScore(s) =< cycles[s]

LEMMA ScoringFinite ==
    ASSUME IsFiniteSet(Procs), NEW s
    PROVE  IsFiniteSet(Scoring(s)) /\ Cardinality(Scoring(s)) \in Nat
<1>1. Scoring(s) \in SUBSET Procs
  BY DEF Scoring
<1>2. IsFiniteSet(Scoring(s))
  BY <1>1, FS_Subset
<1> QED BY <1>2, FS_CardinalityType

\* Nobody but p begins or ends to score.
LEMMA OnlyOneScores ==
    ASSUME IsFiniteSet(Procs), NEW p \in Procs, NEW s,
           \A q \in Procs \ {p} : lines'[q].fresh = lines[q].fresh /\ job'[q] = job[q]
    PROVE  /\ IsFiniteSet(Scoring(s)') /\ Cardinality(Scoring(s))' \in Nat
           /\ p \notin Scoring(s)' =>
                Cardinality(Scoring(s))' = Cardinality(Scoring(s))
                                             - (IF p \in Scoring(s) THEN 1 ELSE 0)
           /\ p \in Scoring(s)' => Cardinality(Scoring(s))' =< Cardinality(Scoring(s)) + 1
<1>1. \A q \in Procs \ {p} : q \in Scoring(s)' <=> q \in Scoring(s)
  BY DEF Scoring
<1>2. Scoring(s) \subseteq Procs /\ Scoring(s)' \subseteq Procs
  BY DEF Scoring
<1>3. IsFiniteSet(Scoring(s)) /\ Cardinality(Scoring(s)) \in Nat
  BY ScoringFinite
<1> DEFINE A == Scoring(s)
           B == Scoring(s)'
<1> HIDE DEF A, B
<1>4. A \subseteq Procs /\ B \subseteq Procs /\ IsFiniteSet(A) /\ Cardinality(A) \in Nat
      /\ \A q \in Procs \ {p} : q \in B <=> q \in A
  BY <1>1, <1>2, <1>3 DEF A, B
<1>5. CASE p \notin B
  <2>1. B = A \ {p}
    BY <1>4, <1>5
  <2>2. IsFiniteSet(B) /\ Cardinality(B) = IF p \in A THEN Cardinality(A) - 1
                                           ELSE Cardinality(A)
    BY <1>4, <2>1, FS_RemoveElement
  <2>3. Cardinality(B) \in Nat
    BY <2>2, FS_CardinalityType
  <2> QED BY <1>4, <1>5, <2>2, <2>3 DEF A, B
<1>6. CASE p \in B
  <2>1. B = A \cup {p}
    BY <1>4, <1>6
  <2>2. IsFiniteSet(B) /\ Cardinality(B) = IF p \in A THEN Cardinality(A)
                                           ELSE Cardinality(A) + 1
    BY <1>4, <2>1, FS_AddElement
  <2>3. Cardinality(B) \in Nat
    BY <2>2, FS_CardinalityType
  <2> QED BY <1>4, <1>6, <2>2, <2>3 DEF A, B
<1> QED BY <1>5, <1>6

LEMMA ScoredStep ==
    ASSUME IsFiniteSet(Procs)
    PROVE  Typed /\ Exclusive /\ NoLine /\ Scored /\ [Next]_vars => Scored'
<1> SUFFICES ASSUME Typed, Exclusive, NoLine, Scored, [Next]_vars PROVE Scored'
  OBVIOUS
<1>1. \A s \in Sigs : /\ Cardinality(Scoring(s)) \in Nat /\ MayScore(s) \in {0, 1}
                      /\ starved[s] \in Nat /\ cycles[s] \in Nat
                      /\ starved[s] + Cardinality(Scoring(s)) + MayScore(s) =< cycles[s]
  BY ScoringFinite DEF MayScore, Scored
<1>2. \A q \in Procs : pc[q] # "append" => \A s : q \notin Scoring(s)
  BY DEF NoLine, NoLines, Scoring
\* Steps after which nobody scores who did not.
<1>3. ASSUME NEW p \in Procs, blob' = blob, cycles' = cycles, starved' = starved,
             \A q \in Procs \ {p} : lines'[q].fresh = lines[q].fresh /\ job'[q] = job[q],
             \A s : p \notin Scoring(s)'
      PROVE  Scored'
  <2>1. \A s \in Sigs : /\ Cardinality(Scoring(s))' \in Nat
                        /\ Cardinality(Scoring(s))' =< Cardinality(Scoring(s))
    BY <1>1, <1>3, OnlyOneScores
  <2>2. \A s \in Sigs : MayScore(s)' = MayScore(s)
    BY <1>3 DEF MayScore
  <2> QED BY <1>1, <1>3, <2>1, <2>2 DEF Scored
<1>4. CASE UNCHANGED vars
  BY <1>4 DEF vars, control, history, Scored, Scoring, MayScore
<1>5. CASE Change
  BY <1>5 DEF Change, control, history, Scored, Scoring, MayScore
<1>6. ASSUME NEW p \in Procs, Begin(p) \/ Enter(p) \/ Hash(p) \/ Leave(p) \/ Die(p)
      PROVE  Scored'
  <2>1. blob' = blob /\ cycles' = cycles /\ starved' = starved
    BY <1>6 DEF Begin, Enter, Hash, Leave, Die, history
  <2>2. \A q \in Procs \ {p} : lines'[q].fresh = lines[q].fresh /\ job'[q] = job[q]
    BY <1>6 DEF Begin, Enter, Hash, Leave, Die, Typed, TypeOK
  <2>3. lines'[p] = NoLines
    <3>1. CASE Die(p)
      BY <3>1 DEF Die, Typed, TypeOK
    <3>2. CASE ~Die(p)
      BY <1>6, <3>2 DEF Begin, Enter, Hash, Leave, NoLine
    <3> QED BY <3>1, <3>2
  <2>4. \A s : p \notin Scoring(s)'
    BY <2>3 DEF Scoring, NoLines
  <2> QED BY <1>3, <2>1, <2>2, <2>4
<1>7. ASSUME NEW p \in Procs, Append(p) PROVE Scored'
  <2> DEFINE t == job[p].sig
  <2>1. blob' = blob /\ cycles' = cycles /\ t \in Sigs
    BY <1>7, Reading DEF Append
  <2>2. starved' = [starved EXCEPT ![t] = @ + (IF lines[p].fresh THEN 1 ELSE 0)]
    BY <1>7 DEF Append
  <2>3. \A q \in Procs \ {p} : lines'[q].fresh = lines[q].fresh /\ job'[q] = job[q]
    BY <1>7 DEF Append, Typed, TypeOK
  <2>4. \A s : p \notin Scoring(s)'
    BY <1>7 DEF Append, Scoring, NoLines, Typed, TypeOK
  <2>5. \A s \in Sigs : p \in Scoring(s) <=> lines[p].fresh /\ s = t
    BY DEF Scoring
  <2> HIDE DEF t
  <2>6. \A s \in Sigs : /\ Cardinality(Scoring(s))' \in Nat
                        /\ Cardinality(Scoring(s))' = Cardinality(Scoring(s))
                             - (IF lines[p].fresh /\ s = t THEN 1 ELSE 0)
    BY <2>3, <2>4, <2>5, OnlyOneScores
  <2>7. \A s \in Sigs : starved'[s] = starved[s]
                             + (IF lines[p].fresh /\ s = t THEN 1 ELSE 0)
    BY <1>1, <2>1, <2>2 DEF Scored
  <2>8. starved' \in [Sigs -> Nat]
    BY <2>1, <2>2 DEF Scored
  <2>9. \A s \in Sigs : MayScore(s)' = MayScore(s)
    BY <2>1 DEF MayScore
  <2>10. \A s \in Sigs : starved'[s] + Cardinality(Scoring(s))' + MayScore(s)' =< cycles[s]
    BY <1>1, <2>6, <2>7, <2>9
  <2> QED BY <2>1, <2>8, <2>10 DEF Scored
\* A writer that scores, scores a fresh signature and leaves it no more so.
<1>8. ASSUME NEW p \in Procs, NEW r, NEW next, Writes(p, r, next),
             Records(blob, r, {}), starved' = starved, cycles' = cycles,
             r.fresh => IsFresh(blob.recs[job[p].sig]) /\ ~IsFresh(r.st.recs[job[p].sig])
      PROVE  Scored'
  <2> DEFINE t == job[p].sig
  <2>1. blob' = r.st /\ pc[p] = "read" /\ job' = job
    BY <1>8, WriterReads DEF Writes
  <2>2. \A q \in Procs : lines'[q].fresh = IF q = p THEN r.fresh ELSE lines[q].fresh
    BY <1>8 DEF Writes, Write, Typed, TypeOK
  <2>3. \A s \in Sigs : p \notin Scoring(s) /\ (p \in Scoring(s)' <=> r.fresh /\ s = t)
    BY <1>2, <2>1, <2>2 DEF Scoring
  <2>4. \A s \in Sigs : MayScore(s)' =< MayScore(s) /\ MayScore(s)' \in {0, 1}
    BY <1>8, <2>1 DEF MayScore, Records
  <2>5. \A s \in Sigs : r.fresh /\ s = t => MayScore(s) = 1 /\ MayScore(s)' = 0
    BY <1>8, <2>1 DEF MayScore
  <2>6. \A q \in Procs \ {p} : lines'[q].fresh = lines[q].fresh /\ job'[q] = job[q]
    BY <2>1, <2>2
  <2> HIDE DEF t
  <2>7. ASSUME NEW s \in Sigs
        PROVE  starved[s] + Cardinality(Scoring(s))' + MayScore(s)' =< cycles[s]
    <3>1. CASE r.fresh /\ s = t
      <4>1. /\ Cardinality(Scoring(s))' \in Nat
            /\ Cardinality(Scoring(s))' =< Cardinality(Scoring(s)) + 1
        BY <2>3, <2>6, <3>1, OnlyOneScores
      <4> QED BY <1>1, <2>5, <3>1, <4>1
    <3>2. CASE ~(r.fresh /\ s = t)
      <4>1. p \notin Scoring(s) /\ p \notin Scoring(s)'
        BY <2>3, <3>2
      <4>2. /\ Cardinality(Scoring(s))' \in Nat
            /\ Cardinality(Scoring(s))' = Cardinality(Scoring(s)) - 0
        BY <2>6, <4>1, OnlyOneScores
      <4> QED BY <1>1, <2>4, <4>2
    <3> QED BY <3>1, <3>2
  <2> QED BY <1>8, <2>7 DEF Scored
<1>9. ASSUME NEW p \in Procs, Note(p) PROVE Scored'
  <2> DEFINE t == job[p].sig
  <2>1. PICK r : Writes(p, r, "hash") /\ Records(mem[p], r, {t})
    BY <1>9, NoteWrites
  <2>2. mem[p] = blob /\ blob' = r.st /\ t \in Sigs /\ pc[p] = "read" /\ job' = job
    BY <2>1, WriterReads, Reading DEF Writes
  <2>3. cycles' = [cycles EXCEPT ![t] = @ + 1] /\ starved' = starved
    BY <1>9 DEF Note
  <2> HIDE DEF t
  <2>4. cycles' \in [Sigs -> Nat]
        /\ \A s \in Sigs : cycles'[s] = IF s = t THEN cycles[s] + 1 ELSE cycles[s]
    <3>1. cycles \in [Sigs -> Nat]
      BY DEF Scored
    <3> QED BY <2>2, <2>3, <3>1
  <2>5. \A q \in Procs : lines'[q].fresh = IF q = p THEN FALSE ELSE lines[q].fresh
    BY <2>1 DEF Writes, Write, Typed, TypeOK
  <2>6. \A s \in Sigs : Scoring(s)' = Scoring(s)
    BY <1>2, <2>2, <2>5 DEF Scoring
  <2>7. \A s \in Sigs : MayScore(s)' \in {0, 1} /\ (s # t => MayScore(s)' =< MayScore(s))
    BY <2>1, <2>2 DEF MayScore, Records
  <2>8. \A s \in Sigs : starved[s] + Cardinality(Scoring(s))' + MayScore(s)' =< cycles'[s]
    BY <1>1, <2>4, <2>6, <2>7
  <2> QED BY <2>3, <2>4, <2>8 DEF Scored
<1>10. ASSUME NEW p \in Procs, Emit(p) \/ Edit(p) \/ Land(p) PROVE Scored'
  <2>1. PICK r : Quiet(p, r)
    BY <1>10, EmitQuiet, EditQuiet, LandQuiet
  <2>2. mem[p] = blob
    BY <2>1, WriterReads DEF Quiet
  <2> QED BY <1>8, <2>1, <2>2 DEF Quiet, history
<1>11. ASSUME NEW p \in Procs, Check(p) PROVE Scored'
  <2>1. PICK r : /\ Writes(p, r, "append") /\ Records(mem[p], r, {})
                 /\ r.fresh => IsFresh(mem[p].recs[job[p].sig])
                 /\ ~IsFresh(r.st.recs[job[p].sig])
    BY <1>11, CheckWrites
  <2>2. mem[p] = blob
    BY <2>1, WriterReads
  <2>3. cycles' = cycles /\ starved' = starved
    BY <1>11 DEF Check
  <2> QED BY <1>8, <2>1, <2>2, <2>3
<1> QED BY <1>4, <1>5, <1>6, <1>7, <1>9, <1>10, <1>11 DEF Next

LEMMA OnceInit == Init => NoLine /\ Resolved /\ Scored
<1> SUFFICES ASSUME Init PROVE NoLine /\ Resolved /\ Scored
  OBVIOUS
<1>1. NoLine
  BY DEF Init, NoLine
<1>2. Resolved
  BY DEF Init, Resolved, NoLines
<1>3. \A s \in Sigs : Scoring(s) = {} /\ MayScore(s) = 0
  <2>1. \A s \in Sigs : blob.recs[s].armed = FALSE
    BY DEF Init, Empty, NoRecord
  <2> QED BY <2>1 DEF Init, Scoring, MayScore, IsFresh, NoLines
<1>4. Scored
  <2>1. cycles = [s \in Sigs |-> 0] /\ starved = [s \in Sigs |-> 0]
    BY DEF Init
  <2>2. \A s \in Sigs : starved[s] + Cardinality(Scoring(s)) + MayScore(s) =< cycles[s]
    BY <1>3, <2>1, FS_EmptySet
  <2> QED BY <2>1, <2>2 DEF Scored
<1> QED BY <1>1, <1>2, <1>4

\* However the hook and ctx run see the same command, and whichever of landing,
\* re-run, narrowing, emission and expiry comes first: an intervention makes one
\* starvation line at most, and a hypothesis window one outcome.
THEOREM OneScore ==
    ASSUME ~Fresh, IsFiniteSet(Procs)
    PROVE  Spec => []ScoredOnce
<1> DEFINE Inv == Typed /\ Exclusive /\ NoLine /\ Resolved /\ Scored
<1>1. Init => Inv
  BY TypedInit, KeptInit, OnceInit
<1>2. Inv /\ [Next]_vars => Inv'
  BY TypedStep, ExclusiveStep, NoLineStep, ResolvedStep, ScoredStep
<1>3. Inv => ScoredOnce
  <2> SUFFICES ASSUME Inv PROVE ScoredOnce
    OBVIOUS
  <2>1. \A s \in Sigs : starved[s] =< cycles[s]
    <3> TAKE s \in Sigs
    <3>1. Cardinality(Scoring(s)) \in Nat /\ MayScore(s) \in {0, 1}
      BY ScoringFinite DEF MayScore
    <3> QED BY <3>1 DEF Scored
  <2>2. \A i \in DOMAIN outcomes : outcomes[i] =< 1
    BY DEF Resolved
  <2> QED BY <2>1, <2>2 DEF ScoredOnce
<1> QED BY <1>1, <1>2, <1>3, PTL DEF Spec
=============================================================================
