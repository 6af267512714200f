---------------------------- MODULE StoreProofs ----------------------------
(***************************************************************************)
(* Proofs about Store, for any number of objects, writers and days.        *)
(*                                                                         *)
(* Both theorems need OneCollector: of two collectors with different       *)
(* horizons, the one may take the manifest by which the other knew a blob  *)
(* to be live, or the row by which the other would know it to be recent.   *)
(* RecentComplete needs RefsFirst too: a writer stores what a manifest     *)
(* refers to before the manifest.  Writers may store the same blobs.       *)
(***************************************************************************)
EXTENDS Store, TLAPS

Days == Horizons \cup {RetentionDays}

OneCollector == \A g, h \in Collectors : g = h

\* A writer stores what a manifest refers to, and then the manifest.
Places(w) == 1..Len(Job[w])
RefsFirst ==
    \A w \in Writers : \A i \in Places(w) : Job[w][i] \in Manifests =>
        \A o \in Refs[Job[w][i]] : \E j \in 1..(i - 1) : o = Job[w][j]

-----------------------------------------------------------------------------
(* Type correctness.                                                       *)

RunType == [override : BOOLEAN, cutoff : Int, leased : SUBSET Objects,
            live : SUBSET Objects, candidates : SUBSET Objects,
            recent : SUBSET Objects, dead : SUBSET Objects]

Shape ==
    /\ at \in [Writers -> Nat] /\ since \in [Writers -> Int]
    /\ reused \in [Writers -> SUBSET Objects]
    /\ run \in [Collectors -> RunType]
    /\ promise \in [Collectors -> SUBSET Objects]

Typed == TypeOK /\ Shape

LEMMA JobTyped ==
    ASSUME NEW w \in Writers
    PROVE  /\ Len(Job[w]) \in Nat /\ Len(Job[w]) > 0
           /\ \A i \in Places(w) : Job[w][i] \in Objects
<1>1. Job[w] \in Seq(Objects) /\ Job[w] # <<>>
  BY StoreAssumption
<1>2. Len(Job[w]) \in Nat /\ Len(Job[w]) # 0
  BY <1>1
<1> QED BY <1>1, <1>2 DEF Places

LEMMA ObjTyped ==
    ASSUME Typed, NEW w \in Writers
    PROVE  at[w] \in Places(w) /\ Obj(w) \in Objects
BY JobTyped DEF Typed, TypeOK, Obj, Places

LEMMA NoRunTyped == NoRun \in RunType
BY DEF NoRun, RunType

\* What the locals of a collection are.
LEMMA RunFacts ==
    ASSUME Shape
    PROVE  \A g \in Collectors :
          /\ run[g].leased \cup run[g].live \cup run[g].candidates \cup
             run[g].recent \cup run[g].dead \subseteq Objects
          /\ run[g].override \in BOOLEAN /\ run[g].cutoff \in Int
          /\ promise[g] \subseteq Objects
BY DEF Shape, RunType

LEMMA TypedInit == Init => Typed
<1> SUFFICES ASSUME Init PROVE Typed
  OBVIOUS
<1>1. Shape
  BY NoRunTyped DEF Init, Shape, NoRow
<1>2. \A w \in Writers : /\ at[w] \in 1..Len(Job[w]) /\ since[w] \in {NoRow} \cup 0..now
                          /\ reused[w] \subseteq Objects
  BY JobTyped DEF Init
<1>3. \A g \in Collectors :
          /\ run[g].leased \cup run[g].live \cup run[g].candidates \cup
             run[g].recent \cup run[g].dead \subseteq Objects
          /\ run[g].override \in BOOLEAN /\ run[g].cutoff \in Int
          /\ promise[g] \subseteq Objects
  BY <1>1, RunFacts
<1> QED BY <1>1, <1>2, <1>3, StoreAssumption DEF Init, Typed, TypeOK

\* The steps of a collector that leave the catalog alone.
Watches(g) ==
    /\ run' \in [Collectors -> RunType] /\ promise' \in [Collectors -> SUBSET Objects]
    /\ gpc' \in [Collectors -> {"idle", "recent", "candidates", "again", "sweep"}]
    /\ files' \subseteq files /\ deaths' \in 0..MaxDeaths
    /\ UNCHANGED <<catalog, now, writers>>

LEMMA WatchesTyped ==
    ASSUME Typed, NEW g \in Collectors, Watches(g)
    PROVE  Typed'
<1>1. Shape'
  BY DEF Typed, Shape, Watches, writers
<1>2. \A h \in Collectors :
          /\ run'[h].leased \cup run'[h].live \cup run'[h].candidates \cup
             run'[h].recent \cup run'[h].dead \subseteq Objects
          /\ run'[h].override \in BOOLEAN /\ run'[h].cutoff \in Int
          /\ promise'[h] \subseteq Objects
  BY <1>1 DEF Shape, RunType
<1> QED BY <1>1, <1>2 DEF Typed, TypeOK, Watches, catalog, writers

\* One field of one collection is set.
LEMMA RunSet ==
    ASSUME Shape, NEW g \in Collectors, NEW S \in SUBSET Objects
    PROVE  /\ [run EXCEPT ![g].live = S] \in [Collectors -> RunType]
           /\ [run EXCEPT ![g].candidates = S] \in [Collectors -> RunType]
           /\ [run EXCEPT ![g].recent = S] \in [Collectors -> RunType]
           /\ [run EXCEPT ![g].dead = S] \in [Collectors -> RunType]
<1>1. run[g] \in RunType
  BY DEF Shape
<1>2. /\ [run[g] EXCEPT !.live = S] \in RunType
      /\ [run[g] EXCEPT !.candidates = S] \in RunType
      /\ [run[g] EXCEPT !.recent = S] \in RunType
      /\ [run[g] EXCEPT !.dead = S] \in RunType
  BY <1>1 DEF RunType
<1> QED BY <1>2 DEF Shape

LEMMA ClosureTyped ==
    ASSUME NEW S
    PROVE  Closure(S) \subseteq Objects
BY DEF Closure

LEMMA CollectWatches ==
    ASSUME Typed, NEW g \in Collectors,
           \/ \E override \in BOOLEAN, days \in Days : Begin(g, override, days)
           \/ Mark(g) \/ Candidates(g) \/ RecentNow(g)
           \/ \E o \in Objects : Sweep(g, o)
           \/ GiveUp(g)
    PROVE  Watches(g)
<1> USE DEF Watches, Typed
<1>1. ASSUME NEW override \in BOOLEAN, NEW days \in Days, Begin(g, override, days)
      PROVE  Watches(g)
  <2> DEFINE a == [NoRun EXCEPT !.override = override]
             b == [a EXCEPT !.cutoff = now - days]
             c == [b EXCEPT !.leased = Leased(override)]
  <2>1. now - days \in Int
    BY StoreAssumption DEF TypeOK, Days
  <2>2. Leased(override) \subseteq Objects
    BY DEF Leased, TypeOK
  <2>3. a \in RunType
    BY NoRunTyped DEF RunType
  <2> HIDE DEF a
  <2>4. b \in RunType
    BY <2>1, <2>3 DEF RunType
  <2> HIDE DEF b
  <2>5. c \in RunType
    BY <2>2, <2>4 DEF RunType
  <2> HIDE DEF c
  <2>8. run' = [run EXCEPT ![g] = c]
    BY <1>1 DEF Begin, a, b, c
  <2>9. run' \in [Collectors -> RunType]
    BY <2>5, <2>8 DEF Shape
  <2>6. files \cap Protected(override, now - days) \subseteq Objects
    BY DEF TypeOK
  <2>7. promise' \in [Collectors -> SUBSET Objects]
    BY <1>1, <2>6 DEF Begin, Shape
  <2> QED BY <1>1, <2>9, <2>7 DEF Begin, TypeOK
<1>2. CASE Mark(g)
  <2>1. run' \in [Collectors -> RunType]
    BY <1>2, RunSet, ClosureTyped DEF Mark
  <2> QED BY <1>2, <2>1 DEF Mark, TypeOK, Shape
<1>3. CASE Candidates(g)
  <2>1. run' \in [Collectors -> RunType]
    BY <1>3, RunSet DEF Candidates, Rows
  <2> QED BY <1>3, <2>1 DEF Candidates, TypeOK, Shape
<1>4. CASE RecentNow(g)
  <2>1. Recent(run[g].cutoff) \in SUBSET Objects
    BY DEF Recent
  <2>2. run' \in [Collectors -> RunType]
    BY <1>4, <2>1, RunSet DEF RecentNow
  <2> QED BY <1>4, <2>2 DEF RecentNow, TypeOK, Shape
<1>5. ASSUME NEW o \in Objects, Sweep(g, o) PROVE Watches(g)
  <2>1. run[g].dead \cup {o} \in SUBSET Objects
    BY RunFacts
  <2>2. run' \in [Collectors -> RunType]
    <3> DEFINE c == [run[g] EXCEPT !.dead = @ \cup {o}]
    <3>1. c \in RunType
      BY <2>1 DEF Shape, RunType
    <3>2. run' = [run EXCEPT ![g] = c]
      BY <1>5 DEF Sweep
    <3> HIDE DEF c
    <3> QED BY <3>1, <3>2 DEF Shape
  <2> QED BY <1>5, <2>2 DEF Sweep, TypeOK, Shape
<1>6. CASE GiveUp(g)
  BY <1>6, NoRunTyped, StoreAssumption DEF GiveUp, TypeOK, Shape
<1> QED BY <1>1, <1>2, <1>3, <1>4, <1>5, <1>6

LEMMA TypedStep == Typed /\ [Next]_vars => Typed'
<1> SUFFICES ASSUME Typed, [Next]_vars PROVE Typed'
  OBVIOUS
<1> USE DEF Typed
<1>0. ASSUME UNCHANGED collector,
             files' \subseteq Objects, pinned' \subseteq Objects,
             edges' \subseteq Blobs \X Objects, deaths' \in 0..MaxDeaths,
             now' \in 0..MaxNow,
             created' \in [Objects -> {NoRow} \cup 0..now'],
             expiry' \in [Objects -> {NoRow} \cup 0..(now' + RetentionDays)],
             wpc' \in [Writers -> {"check", "write", "register", "lease", "done", "dead"}],
             at' \in [Writers -> Nat], since' \in [Writers -> Int],
             reused' \in [Writers -> SUBSET Objects],
             \A w \in Writers : at'[w] \in 1..Len(Job[w])
                                /\ since'[w] \in {NoRow} \cup 0..now'
      PROVE  Typed'
  BY <1>0 DEF collector, TypeOK, Shape
<1>1. CASE UNCHANGED vars
  BY <1>0, <1>1 DEF vars, catalog, writers, collector, TypeOK, Shape
<1>2. CASE Tick
  <2>1. now \in Nat /\ now' = now + 1 /\ now' \in 0..MaxNow
    BY <1>2, StoreAssumption DEF Tick, TypeOK
  <2>2. created' \in [Objects -> {NoRow} \cup 0..now']
        /\ expiry' \in [Objects -> {NoRow} \cup 0..(now' + RetentionDays)]
    BY <1>2, <2>1, StoreAssumption DEF Tick, TypeOK, catalog
  <2>3. \A w \in Writers : at'[w] \in 1..Len(Job[w])
                           /\ since'[w] \in {NoRow} \cup 0..now'
    BY <1>2, <2>1 DEF Tick, TypeOK, writers
  <2> QED BY <1>0, <1>2, <2>1, <2>2, <2>3 DEF Tick, TypeOK, Shape, catalog, writers
<1>3. ASSUME NEW w \in Writers, Check(w) \/ Write(w) \/ Die(w) PROVE Typed'
  <2>1. files' \subseteq Objects /\ deaths' \in 0..MaxDeaths
    BY <1>3, ObjTyped, StoreAssumption DEF Check, Write, Die, TypeOK
  <2>2. wpc' \in [Writers -> {"check", "write", "register", "lease", "done", "dead"}]
    BY <1>3 DEF Check, Write, Die, TypeOK
  <2>3. since' \in [Writers -> Int]
        /\ \A v \in Writers : since'[v] \in {NoRow} \cup 0..now
    <3>1. now \in Nat /\ now \in 0..now
      BY StoreAssumption DEF TypeOK
    <3>2. \A v \in Writers : since'[v] \in {since[v], now}
      BY <1>3 DEF Check, Write, Die, Shape
    <3>3. since' \in [Writers -> Int]
      BY <1>3, <3>1 DEF Check, Write, Die, Shape
    <3> QED BY <3>1, <3>2, <3>3 DEF TypeOK
  <2>4. reused' \in [Writers -> SUBSET Objects]
    <3>1. Obj(w) \in Objects
      BY ObjTyped
    <3>2. \A v \in Writers : reused'[v] \in {reused[v], reused[v] \cup {Obj(w)}}
      BY <1>3 DEF Check, Write, Die, Shape
    <3>3. reused' = [v \in Writers |-> reused'[v]]
      BY <1>3 DEF Check, Write, Die, Shape
    <3> QED BY <3>1, <3>2, <3>3 DEF Shape
  <2> QED BY <1>0, <1>3, <2>1, <2>2, <2>3, <2>4
         DEF Check, Write, Die, TypeOK, Shape, catalog
<1>4. ASSUME NEW w \in Writers, Register(w) PROVE Typed'
  <2>1. created' \in [Objects -> {NoRow} \cup 0..now]
    BY <1>4, ObjTyped, StoreAssumption DEF Register, Row, TypeOK
  <2>2. wpc' \in [Writers -> {"check", "write", "register", "lease", "done", "dead"}]
    BY <1>4 DEF Register, TypeOK
  <2>3. at' \in [Writers -> Nat] /\ \A v \in Writers : at'[v] \in 1..Len(Job[v])
    <3>1. at'= at \/ at' = [at EXCEPT ![w] = IF @ = Len(Job[w]) THEN @ ELSE @ + 1]
      BY <1>4 DEF Register
    <3>2. \A v \in Writers : /\ at[v] \in Nat /\ at[v] \in 1..Len(Job[v])
                             /\ Len(Job[v]) \in Nat
      BY JobTyped DEF TypeOK, Shape
    <3>3. at' \in [Writers -> Nat]
      BY <3>1, <3>2 DEF Shape
    <3>4. \A v \in Writers : at'[v] = at[v] \/ (at[v] # Len(Job[v]) /\ at'[v] = at[v] + 1)
      BY <3>1, <3>2 DEF Shape
    <3> QED BY <3>2, <3>3, <3>4
  <2> QED BY <1>0, <1>4, <2>1, <2>2, <2>3 DEF Register, TypeOK, Shape
<1>5. ASSUME NEW w \in Writers, Lease(w) PROVE Typed'
  <2>1. expiry' \in [Objects -> {NoRow} \cup 0..(now + RetentionDays)]
    BY <1>5, ObjTyped, StoreAssumption DEF Lease, TypeOK
  <2>2. wpc' \in [Writers -> {"check", "write", "register", "lease", "done", "dead"}]
    BY <1>5 DEF Lease, TypeOK
  <2>3. at' \in [Writers -> Nat] /\ \A v \in Writers : at'[v] \in 1..Len(Job[v])
    BY <1>5, JobTyped DEF Lease, TypeOK, Shape
  <2> QED BY <1>0, <1>5, <2>1, <2>2, <2>3 DEF Lease, TypeOK, Shape
<1>6. ASSUME NEW o \in Objects, Pin(o) PROVE Typed'
  BY <1>0, <1>6 DEF Pin, TypeOK, Shape, writers
<1>7. ASSUME NEW s \in Blobs, NEW t \in Objects, Link(s, t) PROVE Typed'
  BY <1>0, <1>7 DEF Link, TypeOK, Shape, writers
<1>8. ASSUME NEW g \in Collectors, Collect(g) \/ GiveUp(g), ~Delete(g) PROVE Typed'
  BY <1>8, CollectWatches, WatchesTyped DEF Collect, Days
<1>9. ASSUME NEW g \in Collectors, Delete(g) PROVE Typed'
  <2>1. run' \in [Collectors -> RunType] /\ promise' \in [Collectors -> SUBSET Objects]
    BY <1>9, NoRunTyped DEF Delete, Shape
  <2>2. Shape'
    BY <1>9, <2>1 DEF Delete, Shape, writers
  <2>3. /\ created' \in [Objects -> {NoRow} \cup 0..now]
        /\ expiry' \in [Objects -> {NoRow} \cup 0..(now + RetentionDays)]
        /\ pinned' \subseteq Objects /\ edges' \subseteq Blobs \X Objects
    BY <1>9 DEF Delete, TypeOK
  <2>4. \A h \in Collectors :
          /\ run'[h].leased \cup run'[h].live \cup run'[h].candidates \cup
             run'[h].recent \cup run'[h].dead \subseteq Objects
          /\ run'[h].override \in BOOLEAN /\ run'[h].cutoff \in Int
          /\ promise'[h] \subseteq Objects
    BY <2>1 DEF RunType
  <2> QED BY <1>9, <2>2, <2>3, <2>4 DEF Delete, TypeOK, writers
<1> QED BY <1>1, <1>2, <1>3, <1>4, <1>5, <1>6, <1>7, <1>8, <1>9 DEF Next, Put

\* Files, catalog, writers and collectors keep their types whoever dies; a row
\* is never younger than the clock.
THEOREM TypeCorrect == Spec => []TypeOK
<1>1. Typed => TypeOK
  BY DEF Typed
<1> QED BY <1>1, TypedInit, TypedStep, PTL DEF Spec

-----------------------------------------------------------------------------
(* What a collection was to keep, it keeps.  Until it marks, leases, rows, *)
(* files and references only become more, since nobody else takes any.     *)

\* o is reached from the roots of a collection, by now.
Reached(g, o) ==
    \A T \in SUBSET Objects :
        /\ run[g].leased \cup Recent(run[g].cutoff) \subseteq T
        /\ \A t \in T : References(t) \subseteq T
        => o \in T

Marked(g) ==
    /\ gpc[g] = "recent" => \A o \in promise[g] : Reached(g, o)
    /\ gpc[g] \in {"candidates", "again", "sweep"} => promise[g] \subseteq run[g].live
    /\ gpc[g] # "sweep" => run[g].dead = {}
    /\ run[g].dead \cap run[g].live = {}

AllMarked == \A g \in Collectors : Marked(g)

LEMMA MarkedInit == Init => AllMarked
BY DEF Init, AllMarked, Marked, NoRun

\* More roots and more references reach what was reached.
LEMMA ReachedStays ==
    ASSUME Typed, NEW g \in Collectors, run'[g] = run[g],
           files \subseteq files', edges \subseteq edges',
           \A o \in Objects : created[o] # NoRow => created'[o] = created[o]
    PROVE  \A o \in Objects : Reached(g, o) => Reached(g, o)'
<1>1. Recent(run[g].cutoff) \subseteq Recent(run[g].cutoff)'
  BY DEF Recent
<1>2. \A t \in Objects : References(t) \subseteq References(t)'
  BY DEF References
<1>3. ASSUME NEW o \in Objects, Reached(g, o), NEW T \in SUBSET Objects,
             (run[g].leased \cup Recent(run[g].cutoff))' \subseteq T,
             \A t \in T : References(t)' \subseteq T
      PROVE  o \in T
  <2>1. run[g].leased \cup Recent(run[g].cutoff) \subseteq T
    BY <1>1, <1>3
  <2>2. \A t \in T : References(t) \subseteq T
    BY <1>2, <1>3
  <2> QED BY <1>3, <2>1, <2>2 DEF Reached
<1> QED BY <1>3 DEF Reached

LEMMA MarkedStep ==
    ASSUME OneCollector
    PROVE  Typed /\ AllMarked /\ [Next]_vars => AllMarked'
<1> SUFFICES ASSUME Typed, AllMarked, [Next]_vars PROVE AllMarked'
  OBVIOUS
<1>1. ASSUME UNCHANGED collector, files \subseteq files', edges \subseteq edges',
             \A o \in Objects : created[o] # NoRow => created'[o] = created[o]
      PROVE  AllMarked'
  <2> SUFFICES ASSUME NEW g \in Collectors PROVE Marked(g)'
    BY DEF AllMarked
  <2>1. run'[g] = run[g] /\ gpc' = gpc /\ promise' = promise
    BY <1>1 DEF collector
  <2>2. gpc[g] = "recent" => \A o \in promise[g] : Reached(g, o)'
    BY <1>1, <2>1, ReachedStays, RunFacts DEF AllMarked, Marked, Typed
  <2> QED BY <2>1, <2>2 DEF AllMarked, Marked
<1>2. CASE UNCHANGED vars
  BY <1>1, <1>2 DEF vars, catalog, collector
<1>3. CASE Tick
  BY <1>1, <1>3 DEF Tick, catalog
<1>4. ASSUME NEW w \in Writers, Put(w) \/ Die(w) PROVE AllMarked'
  <2>1. CASE Register(w)
    <3>1. \A o \in Objects : created[o] # NoRow => created'[o] = created[o]
      BY <2>1 DEF Register, Row, Typed, TypeOK
    <3> QED BY <1>1, <2>1, <3>1 DEF Register
  <2>2. CASE Check(w) \/ Write(w) \/ Lease(w) \/ Die(w)
    BY <1>1, <2>2 DEF Check, Write, Lease, Die, catalog
  <2> QED BY <1>4, <2>1, <2>2 DEF Put
<1>5. ASSUME NEW o \in Objects, Pin(o) PROVE AllMarked'
  BY <1>1, <1>5 DEF Pin
<1>6. ASSUME NEW s \in Blobs, NEW t \in Objects, Link(s, t) PROVE AllMarked'
  BY <1>1, <1>6 DEF Link
<1>7. ASSUME NEW g \in Collectors, Collect(g) \/ GiveUp(g) PROVE AllMarked'
  <2> SUFFICES Marked(g)'
    BY DEF AllMarked, OneCollector
  <2> USE DEF Typed
  <2>0. run[g] \in RunType /\ Marked(g)
    BY DEF Shape, AllMarked
  <2>1. ASSUME NEW override \in BOOLEAN, NEW days \in Days, Begin(g, override, days)
        PROVE  Marked(g)'
    <3>1. /\ run'[g].leased = Leased(override) /\ run'[g].cutoff = now - days
          /\ run'[g].dead = {} /\ gpc'[g] = "recent"
          /\ promise'[g] = files \cap Protected(override, now - days)
      BY <2>1 DEF Begin, NoRun, Shape, TypeOK
    <3>2. UNCHANGED <<files, created, edges>>
      BY <2>1 DEF Begin, catalog
    <3>3. Leased(override) \cup Recent(now - days)
            = pinned \cup {o \in Objects : ~override /\ expiry[o] > now}
                     \cup {o \in Objects : created[o] # NoRow /\ created[o] >= now - days}
      BY DEF Leased, Recent
    <3>4. Recent(run[g].cutoff)' = Recent(now - days)
      BY <3>1, <3>2 DEF Recent
    <3>5. \A t : References(t)' = References(t)
      BY <3>2 DEF References
    <3>6. \A o \in promise'[g] : Reached(g, o)'
      BY <3>1, <3>3, <3>4, <3>5 DEF Reached, Protected, Closure
    <3> QED BY <3>1, <3>6 DEF Marked
  <2>2. CASE Mark(g)
    <3>1. /\ run'[g].live = Closure(run[g].leased \cup Recent(run[g].cutoff))
          /\ run'[g].dead = run[g].dead /\ promise' = promise /\ gpc'[g] = "candidates"
          /\ gpc[g] = "recent"
      BY <2>2 DEF Mark, Shape, RunType, TypeOK
    <3>2. promise[g] \subseteq Objects
      BY RunFacts
    <3>3. promise[g] \subseteq Closure(run[g].leased \cup Recent(run[g].cutoff))
      BY <2>0, <3>1, <3>2 DEF Marked, Reached, Closure
    <3> QED BY <2>0, <3>1, <3>3 DEF Marked
  <2>3. CASE Candidates(g) \/ RecentNow(g)
    <3>1. /\ run'[g].live = run[g].live /\ run'[g].dead = run[g].dead
          /\ promise' = promise
      BY <2>3 DEF Candidates, RecentNow, Shape, RunType
    <3>2. /\ gpc[g] \in {"candidates", "again"} /\ gpc'[g] \in {"again", "sweep"}
      BY <2>3 DEF Candidates, RecentNow, TypeOK
    <3> QED BY <2>0, <3>1, <3>2 DEF Marked
  <2>4. ASSUME NEW o \in Objects, Sweep(g, o) PROVE Marked(g)'
    <3>1. /\ run'[g].live = run[g].live /\ run'[g].dead = run[g].dead \cup {o}
          /\ promise' = promise /\ gpc' = gpc /\ gpc[g] = "sweep"
          /\ o \notin run[g].live
      BY <2>4 DEF Sweep, Doomed, Shape, RunType
    <3> QED BY <2>0, <3>1 DEF Marked
  <2>5. CASE Delete(g) \/ GiveUp(g)
    <3>1. run'[g] = NoRun /\ gpc'[g] = "idle" /\ promise'[g] = {}
      BY <2>5 DEF Delete, GiveUp, Shape, TypeOK
    <3> QED BY <3>1 DEF Marked, NoRun
  <2> QED BY <1>7, <2>1, <2>2, <2>3, <2>4, <2>5 DEF Collect, Days
<1> QED BY <1>2, <1>3, <1>4, <1>5, <1>6, <1>7 DEF Next

\* With one collector at a time, a collection does not take what was pinned,
\* leased or recent when it began, nor what that refers to, whatever is stored,
\* linked and pinned meanwhile and whoever dies.
THEOREM LiveSurvive ==
    ASSUME OneCollector
    PROVE  Spec => []MarkedSurvive
<1>1. Init => Typed /\ AllMarked
  BY TypedInit, MarkedInit
<1>2. Typed /\ AllMarked /\ [Next]_vars => (Typed /\ AllMarked)'
  BY TypedStep, MarkedStep
<1>3. AllMarked => MarkedSurvive
  BY DEF AllMarked, Marked, MarkedSurvive, Typed, TypeOK
<1> QED BY <1>1, <1>2, <1>3, PTL DEF Spec

-----------------------------------------------------------------------------
(* A manifest that is within every horizon is complete.  What a writer     *)
(* has registered is as young as the writer, and so within the horizon of  *)
(* any collection, for as long as the writer is at work; from then on it   *)
(* is the manifest's row that keeps what the manifest refers to.           *)

Active(w) == wpc[w] \notin {"done", "dead"}

\* What a writer has registered.
Had(w) ==
    {Job[w][i] : i \in 1..(IF wpc[w] = "lease" THEN at[w] ELSE at[w] - 1)}

\* Its time is short.
InTime ==
    \A w \in Writers : Active(w) =>
        /\ since[w] # NoRow => \A d \in Days : now - since[w] =< d
        /\ since[w] = NoRow => wpc[w] = "check" /\ at[w] = 1

Young(w, o) == created[o] # NoRow /\ created[o] >= since[w]

\* What it found young, or not at all, is there and has a row as young as it.
Kept(w) ==
    /\ \A o \in Had(w) \ reused[w] : o \in files /\ Young(w, o)
    /\ wpc[w] \in {"write", "register"} /\ Obj(w) \notin reused[w] =>
          created[Obj(w)] = NoRow \/ Young(w, Obj(w))
    /\ wpc[w] = "register" /\ Obj(w) \notin reused[w] => Obj(w) \in files

\* No collection has a cutoff that is younger than every horizon.
Horizoned ==
    \A g \in Collectors : gpc[g] # "idle" => \E d \in Days : run[g].cutoff =< now - d

\* The rows a collection has read are there until it deletes them.
Aware ==
    \A g \in Collectors :
        /\ gpc[g] \in {"again", "sweep"} => \A o \in run[g].candidates : created[o] # NoRow
        /\ gpc[g] = "sweep" =>
              \A o \in run[g].candidates : created[o] >= run[g].cutoff => o \in run[g].recent

\* Where a collection is, o is not in its way.
Passes(g, o) ==
    /\ gpc[g] \in {"candidates", "again"} =>
          o \in run[g].live \/ created[o] >= run[g].cutoff
    /\ gpc[g] = "sweep" => o \notin Doomed(g)

Whole(m) ==
    WithinHorizon(m) /\ StoredAnew(m, m) =>
        \A o \in {m} \cup Refs[m] : StoredAnew(m, o) =>
            o \in files /\ \A g \in Collectors : Passes(g, o)

Stored ==
    /\ InTime /\ Horizoned /\ Aware
    /\ \A w \in Writers : Active(w) => Kept(w)
    /\ \A m \in Manifests : Whole(m)

SInv == Typed /\ Stored

\* The numbers that are compared.
LEMMA Numbers ==
    ASSUME Typed
    PROVE  /\ now \in Nat /\ NoRow = -1 /\ \A d \in Days : d \in Nat
           /\ \A o \in Objects : created[o] \in Int /\ created[o] >= NoRow /\ created[o] =< now
           /\ \A w \in Writers : /\ since[w] \in Int /\ since[w] >= NoRow /\ since[w] =< now
                                 /\ reused[w] \subseteq Objects
           /\ \A g \in Collectors : run[g].cutoff \in Int
BY StoreAssumption, RunFacts DEF Typed, TypeOK, Days, NoRow

LEMMA HadTyped ==
    ASSUME Typed, NEW w \in Writers
    PROVE  /\ Had(w) \subseteq Objects
           /\ at[w] = 1 /\ wpc[w] # "lease" => Had(w) = {}
<1>1. at[w] \in Places(w) /\ Len(Job[w]) \in Nat
  BY ObjTyped, JobTyped
<1>2. \A i \in 1..at[w] : i \in Places(w)
  BY <1>1 DEF Places
<1>3. \A i \in 1..(at[w] - 1) : i \in Places(w)
  BY <1>1 DEF Places
<1>4. at[w] = 1 /\ wpc[w] # "lease" => Had(w) = {}
  BY DEF Had
<1>5. Had(w) \subseteq Objects
  BY <1>2, <1>3, JobTyped DEF Had
<1> QED BY <1>4, <1>5

\* A writer at work began within the horizon of any collection.
LEMMA AfterCutoff ==
    ASSUME SInv, NEW g \in Collectors, gpc[g] # "idle", NEW w \in Writers,
           Active(w), since[w] # NoRow
    PROVE  since[w] >= run[g].cutoff
<1>1. PICK d \in Days : run[g].cutoff =< now - d
  BY DEF SInv, Stored, Horizoned
<1>2. now - since[w] =< d
  BY DEF SInv, Stored, InTime
<1> QED BY <1>1, <1>2, Numbers DEF SInv

\* What is young, or has no row, is not in the way of a collection.
LEMMA YoungPasses ==
    ASSUME SInv, NEW g \in Collectors, NEW o \in Objects, gpc[g] = "sweep",
           created[o] = NoRow \/ created[o] >= run[g].cutoff
    PROVE  o \notin Doomed(g)
BY DEF SInv, Stored, Aware, Doomed

LEMMA WriterPasses ==
    ASSUME SInv, NEW w \in Writers, Active(w), since[w] # NoRow,
           NEW o \in Objects, Young(w, o), NEW g \in Collectors
    PROVE  Passes(g, o)
<1>1. gpc[g] # "idle" => created[o] >= run[g].cutoff
  <2>1. gpc[g] # "idle" => since[w] >= run[g].cutoff
    BY AfterCutoff
  <2> QED BY <2>1, Numbers DEF SInv, Young
<1>2. gpc[g] = "sweep" => o \notin Doomed(g)
  BY <1>1, YoungPasses
<1> QED BY <1>1, <1>2 DEF Passes

\* A writer's own, as a collection sees it.
LEMMA KeptSafe ==
    ASSUME SInv, NEW w \in Writers, Active(w), NEW g \in Collectors, gpc[g] = "sweep"
    PROVE  /\ \A o \in Had(w) \ reused[w] : o \notin Doomed(g)
           /\ wpc[w] \in {"write", "register"} /\ Obj(w) \notin reused[w] =>
                 Obj(w) \notin Doomed(g)
<1>1. Kept(w)
  BY DEF SInv, Stored
<1>2. ASSUME NEW o \in Had(w) \ reused[w] PROVE o \notin Doomed(g)
  <2>1. o \in Objects /\ since[w] # NoRow
    BY <1>2, HadTyped DEF SInv, Stored, InTime
  <2>2. Passes(g, o)
    BY <1>1, <1>2, <2>1, WriterPasses DEF Kept
  <2> QED BY <2>2 DEF Passes
<1>3. ASSUME wpc[w] \in {"write", "register"}, Obj(w) \notin reused[w]
      PROVE  Obj(w) \notin Doomed(g)
  <2>1. PICK o : o = Obj(w)
    OBVIOUS
  <2>2. o \in Objects /\ since[w] # NoRow
    BY <1>3, <2>1, ObjTyped DEF SInv, Stored, InTime
  <2>3. created[o] = NoRow \/ Young(w, o)
    BY <1>1, <1>3, <2>1 DEF Kept
  <2>4. created[o] = NoRow \/ Passes(g, o)
    BY <2>2, <2>3, WriterPasses
  <2> QED BY <2>1, <2>2, <2>4, YoungPasses DEF Passes
<1> QED BY <1>2, <1>3

LEMMA StoredInit == Init => Stored
<1> SUFFICES ASSUME Init PROVE Stored
  OBVIOUS
<1>1. InTime /\ Horizoned /\ Aware
  BY DEF Init, InTime, Horizoned, Aware
<1>2. \A w \in Writers : Kept(w)
  BY DEF Init, Kept, Had
<1>3. \A m \in Manifests : ~WithinHorizon(m)
  BY DEF Init, WithinHorizon, Objects
<1> QED BY <1>1, <1>2, <1>3 DEF Stored, Whole

-----------------------------------------------------------------------------
(* What a step must leave as it is.                                        *)

\* Time does not bring a row back within the horizon.
LEMMA HorizonShrinks ==
    ASSUME Typed, now' \in {now, now + 1}, NEW m \in Objects,
           created'[m] \in {created[m], NoRow}
    PROVE  WithinHorizon(m)' => WithinHorizon(m)
<1>1. ASSUME NEW d \in Days, created'[m] # NoRow, created'[m] >= now' - d
      PROVE  created[m] # NoRow /\ created[m] >= now - d
  BY <1>1, Numbers
<1> QED BY <1>1 DEF WithinHorizon, Days

\* A row that is there is as it was, and a new one is of today: then young is
\* young, and where collections are where they were, they are passed.
LEMMA RowsGrow ==
    ASSUME SInv, UNCHANGED <<now, collector>>,
           \A o \in Objects : created'[o] = created[o] \/ (created[o] = NoRow /\ created'[o] = now)
    PROVE  /\ \A w \in Writers, o \in Objects : since'[w] = since[w] /\ Young(w, o) => Young(w, o)'
           /\ \A g \in Collectors, o \in Objects : Passes(g, o) => Passes(g, o)'
           /\ Aware' /\ Horizoned'
<1>1. \A g \in Collectors : gpc[g] # "idle" => now >= run[g].cutoff
  <2> SUFFICES ASSUME NEW g \in Collectors, gpc[g] # "idle" PROVE now >= run[g].cutoff
    OBVIOUS
  <2>1. PICK d \in Days : run[g].cutoff =< now - d
    BY DEF SInv, Stored, Horizoned
  <2> QED BY <2>1, Numbers DEF SInv
<1>2. \A w \in Writers, o \in Objects : since'[w] = since[w] /\ Young(w, o) => Young(w, o)'
  BY DEF Young
<1>3. ASSUME NEW g \in Collectors, NEW o \in Objects, Passes(g, o) PROVE Passes(g, o)'
  <2>1. gpc[g] # "idle" /\ created[o] >= run[g].cutoff => created'[o] >= run[g].cutoff
    BY <1>1
  <2>2. Doomed(g)' = Doomed(g) /\ gpc' = gpc /\ run' = run
    BY DEF Doomed, collector
  <2> QED BY <1>3, <2>1, <2>2 DEF Passes
<1>4. Aware'
  <2> SUFFICES ASSUME NEW g \in Collectors
               PROVE  /\ gpc[g] \in {"again", "sweep"} =>
                             \A o \in run[g].candidates : created'[o] # NoRow
                      /\ gpc[g] = "sweep" => \A o \in run[g].candidates :
                             created'[o] >= run[g].cutoff => o \in run[g].recent
    BY DEF Aware, collector
  <2>1. run[g].candidates \subseteq Objects
    BY RunFacts DEF SInv, Typed
  <2>2. gpc[g] \in {"again", "sweep"} =>
           \A o \in run[g].candidates : created[o] # NoRow /\ created'[o] = created[o]
    BY <2>1 DEF SInv, Stored, Aware
  <2> QED BY <2>2 DEF SInv, Stored, Aware
<1>5. Horizoned'
  BY DEF SInv, Stored, Horizoned, collector
<1> QED BY <1>2, <1>3, <1>4, <1>5

\* A manifest whose row is as it was, or gone, while files only become more.
LEMMA WholeStays ==
    ASSUME SInv, NEW m \in Manifests, now' \in {now, now + 1}, files \subseteq files',
           created'[m] \in {created[m], NoRow}, \A w \in Writers : reused[w] \subseteq reused'[w],
           \A g \in Collectors, o \in Objects : Passes(g, o) => Passes(g, o)'
    PROVE  Whole(m)'
<1>1. m \in Objects /\ Refs[m] \subseteq Objects
  BY StoreAssumption DEF Objects
<1>2. WithinHorizon(m)' => WithinHorizon(m)
  BY <1>1, HorizonShrinks DEF SInv
<1>3. \A o : StoredAnew(m, o)' => StoredAnew(m, o)
  BY DEF StoredAnew
<1>4. Whole(m)
  BY DEF SInv, Stored
<1> QED BY <1>1, <1>2, <1>3, <1>4 DEF Whole

\* It is enough to look at the writer whose step it is.
LEMMA WriterStored ==
    ASSUME SInv, NEW w \in Writers, UNCHANGED <<created, now, collector>>,
           \A v \in Writers \ {w} : /\ wpc'[v] = wpc[v] /\ at'[v] = at[v]
                                    /\ since'[v] = since[v] /\ reused'[v] = reused[v],
           files \subseteq files', reused[w] \subseteq reused'[w],
           Active(w)' => Kept(w)',
           Active(w)' => /\ since'[w] # NoRow => \A d \in Days : now - since'[w] =< d
                         /\ since'[w] = NoRow => wpc'[w] = "check" /\ at'[w] = 1
    PROVE  Stored'
<1>1. /\ \A g \in Collectors, o \in Objects : Passes(g, o) => Passes(g, o)'
      /\ Aware' /\ Horizoned'
  BY RowsGrow
<1>2. \A v \in Writers : reused[v] \subseteq reused'[v]
  <2> TAKE v \in Writers
  <2> QED OBVIOUS
<1>3. \A m \in Manifests : Whole(m)'
  BY <1>1, <1>2, WholeStays
<1>4. ASSUME NEW v \in Writers, Active(v)', v # w PROVE Kept(v)'
  <2>1. wpc'[v] = wpc[v] /\ at'[v] = at[v] /\ since'[v] = since[v] /\ reused'[v] = reused[v]
    BY <1>4
  <2>2. Kept(v)
    BY <1>4, <2>1 DEF Active, SInv, Stored
  <2>3. Had(v)' = Had(v) /\ Obj(v)' = Obj(v) /\ \A o : Young(v, o)' = Young(v, o)
    BY <2>1 DEF Had, Obj, Young
  <2> QED BY <2>1, <2>2, <2>3 DEF Kept
<1>5. InTime'
  <2> SUFFICES ASSUME NEW v \in Writers, Active(v)'
               PROVE  /\ since'[v] # NoRow => \A d \in Days : now' - since'[v] =< d
                      /\ since'[v] = NoRow => wpc'[v] = "check" /\ at'[v] = 1
    BY DEF InTime
  <2>1. CASE v = w
    BY <2>1
  <2>2. CASE v # w
    BY <2>2 DEF SInv, Stored, InTime, Active
  <2> QED BY <2>1, <2>2
<1> QED BY <1>1, <1>3, <1>4, <1>5 DEF Stored

LEMMA CheckStored ==
    ASSUME SInv, NEW w \in Writers, Check(w)
    PROVE  Stored'
<1> USE DEF SInv
<1>1. PICK o : o = Obj(w)
  OBVIOUS
<1>2. /\ wpc[w] = "check" /\ at' = at /\ UNCHANGED <<files, created, now, collector>>
      /\ wpc'[w] = "register" => o \in files
      /\ wpc'[w] \in {"register", "write"}
      /\ since'[w] = (IF since[w] = NoRow THEN now ELSE since[w])
      /\ reused'[w] = IF created[o] # NoRow /\ created[o] < since'[w]
                      THEN reused[w] \cup {o} ELSE reused[w]
      /\ \A v \in Writers \ {w} : wpc'[v] = wpc[v] /\ since'[v] = since[v]
                                  /\ reused'[v] = reused[v]
  BY <1>1 DEF Check, Typed, TypeOK, Shape, catalog
<1>3. o \in Objects /\ Obj(w)' = o
  BY <1>1, <1>2, ObjTyped DEF Obj
<1>4. Active(w) /\ Kept(w)
  BY <1>2 DEF Active, Stored
<1>5. since'[w] # NoRow /\ since'[w] \in Int /\ \A d \in Days : now - since'[w] =< d
  BY <1>2, <1>4, Numbers DEF Stored, InTime
<1>6. Had(w)' = Had(w) /\ \A t \in Had(w) : since'[w] = since[w]
  <2>1. Had(w)' = Had(w)
    BY <1>2 DEF Had
  <2>2. since[w] = NoRow => Had(w) = {}
    BY <1>2, <1>4, HadTyped DEF Stored, InTime
  <2> QED BY <1>2, <2>1, <2>2
<1>7. Kept(w)'
  <2>1. \A t \in Had(w)' \ reused'[w] : t \in files' /\ Young(w, t)'
    BY <1>2, <1>4, <1>6 DEF Kept, Young
  <2>2. o \notin reused'[w] => created'[o] = NoRow \/ Young(w, o)'
    BY <1>2, <1>3, <1>5, Numbers DEF Young
  <2>3. wpc'[w] = "register" => Obj(w)' \in files'
    BY <1>2, <1>3
  <2> QED BY <1>3, <2>1, <2>2, <2>3 DEF Kept
<1>8. reused[w] \subseteq reused'[w]
  BY <1>2
<1> QED BY <1>2, <1>5, <1>7, <1>8, WriterStored

LEMMA WriteStored ==
    ASSUME SInv, NEW w \in Writers, Write(w)
    PROVE  Stored'
<1> USE DEF SInv
<1>1. /\ wpc[w] = "write" /\ wpc'[w] = "register" /\ UNCHANGED <<at, since, reused>>
      /\ UNCHANGED <<created, now, collector>> /\ files' = files \cup {Obj(w)}
      /\ \A v \in Writers \ {w} : wpc'[v] = wpc[v]
  BY DEF Write, Typed, TypeOK, catalog
<1>2. Active(w) /\ Kept(w)
  BY <1>1 DEF Active, Stored
<1>3. Had(w)' = Had(w) /\ Obj(w)' = Obj(w) /\ \A o : Young(w, o)' = Young(w, o)
  BY <1>1 DEF Had, Obj, Young
<1>4. Kept(w)'
  BY <1>1, <1>2, <1>3 DEF Kept
<1>5. since'[w] # NoRow /\ \A d \in Days : now - since'[w] =< d
  BY <1>1, <1>2 DEF Stored, InTime
<1> QED BY <1>1, <1>4, <1>5, WriterStored

LEMMA LeaseStored ==
    ASSUME SInv, NEW w \in Writers, Lease(w)
    PROVE  Stored'
<1> USE DEF SInv
<1>1. /\ wpc[w] = "lease" /\ UNCHANGED <<files, created, now, since, reused, collector>>
      /\ \/ wpc'[w] = "done"
         \/ wpc'[w] = "check" /\ at'[w] = at[w] + 1
      /\ \A v \in Writers \ {w} : wpc'[v] = wpc[v] /\ at'[v] = at[v]
  BY DEF Lease, Typed, TypeOK, Shape
<1>2. Active(w) /\ Kept(w) /\ at[w] \in Nat
  BY <1>1 DEF Active, Stored, Typed, Shape
<1>3. Active(w)' => Kept(w)'
  <2> SUFFICES ASSUME wpc'[w] = "check", at'[w] = at[w] + 1 PROVE Kept(w)'
    BY <1>1 DEF Active
  <2>1. Had(w)' = Had(w)
    BY <1>1, <1>2 DEF Had
  <2>2. \A o : Young(w, o)' = Young(w, o)
    BY <1>1 DEF Young
  <2> QED BY <1>1, <1>2, <2>1, <2>2 DEF Kept
<1>4. since'[w] # NoRow /\ \A d \in Days : now - since'[w] =< d
  BY <1>1, <1>2 DEF Stored, InTime
<1> QED BY <1>1, <1>3, <1>4, WriterStored

LEMMA DieStored ==
    ASSUME SInv, NEW w \in Writers, Die(w)
    PROVE  Stored'
<1>1. /\ wpc'[w] = "dead" /\ UNCHANGED <<files, created, now, at, since, reused, collector>>
      /\ \A v \in Writers \ {w} : wpc'[v] = wpc[v]
  BY DEF Die, SInv, Typed, TypeOK, catalog
<1>2. ~Active(w)'
  BY <1>1 DEF Active
<1> QED BY <1>1, <1>2, WriterStored

\* The one step of a writer that makes a row.
LEMMA RegisterStored ==
    ASSUME SInv, RefsFirst, NEW w \in Writers, Register(w)
    PROVE  Stored'
<1> USE DEF SInv
<1>1. PICK o, i : o = Obj(w) /\ i = at[w]
  OBVIOUS
<1>2. /\ i \in Places(w) /\ i \in Nat /\ o = Job[w][i] /\ o \in Objects
  BY <1>1, ObjTyped, JobTyped DEF Obj, Places
<1>3. /\ wpc[w] = "register" /\ UNCHANGED <<files, now, since, reused, collector>>
      /\ created' = Row(o)
      /\ \A v \in Writers \ {w} : wpc'[v] = wpc[v] /\ at'[v] = at[v]
      /\ \/ wpc'[w] = "lease" /\ at'[w] = i
         \/ wpc'[w] = "check" /\ at'[w] = i + 1
         \/ wpc'[w] = "done"
  BY <1>1 DEF Register, Typed, TypeOK, Shape
<1>4. /\ \A t \in Objects : created'[t] = created[t] \/ (created[t] = NoRow /\ created'[t] = now)
      /\ \A t \in Objects : t # o => created'[t] = created[t]
      /\ created'[o] = IF created[o] = NoRow THEN now ELSE created[o]
  BY <1>2, <1>3 DEF Row, Typed, TypeOK
<1>5. Active(w) /\ Kept(w) /\ since[w] # NoRow /\ \A d \in Days : now - since[w] =< d
  BY <1>3 DEF Active, Stored, InTime
<1>6. /\ \A v \in Writers, t \in Objects : Young(v, t) => Young(v, t)'
      /\ \A g \in Collectors, t \in Objects : Passes(g, t) => Passes(g, t)'
      /\ Aware' /\ Horizoned'
  BY <1>3, <1>4, RowsGrow
<1>7. o \notin reused[w] => o \in files /\ Young(w, o)'
  <2> SUFFICES ASSUME o \notin reused[w] PROVE o \in files /\ Young(w, o)'
    OBVIOUS
  <2>1. o \in files /\ (created[o] = NoRow \/ Young(w, o))
    BY <1>1, <1>3, <1>5 DEF Kept
  <2>2. CASE created[o] = NoRow
    BY <1>3, <1>4, <2>1, <2>2, Numbers DEF Young
  <2>3. CASE Young(w, o)
    BY <1>2, <1>6, <2>1, <2>3
  <2> QED BY <2>1, <2>2, <2>3
<1>8. ASSUME NEW t \in Objects, Young(w, t)', t \in files, NEW g \in Collectors
      PROVE  Passes(g, t)'
  <2>1. CASE created[t] = NoRow
    <3>1. gpc[g] # "idle" => created'[t] >= run[g].cutoff
      <4>1. gpc[g] # "idle" => since[w] >= run[g].cutoff
        BY <1>5, AfterCutoff
      <4>2. created'[t] = now
        BY <1>4, <1>8, <2>1 DEF Young
      <4> QED BY <4>1, <4>2, Numbers
    <3>2. gpc[g] = "sweep" => t \notin Doomed(g)
      BY <2>1, YoungPasses
    <3> QED BY <1>3, <3>1, <3>2 DEF Passes, Doomed, collector
  <2>2. CASE created[t] # NoRow
    <3>1. Young(w, t)
      BY <1>3, <1>4, <1>8, <2>2 DEF Young
    <3> QED BY <1>5, <1>6, <3>1, WriterPasses
  <2> QED BY <2>1, <2>2
<1>9. \A j \in 1..(i - 1) : Job[w][j] \in Had(w)
  BY <1>1, <1>3 DEF Had
<1>10. ASSUME NEW m \in Manifests PROVE Whole(m)'
  <2>1. CASE created'[m] = created[m]
    BY <1>3, <1>6, <2>1, WholeStays
  <2>2. CASE created'[m] # created[m]
    <3>1. m = o
      BY <1>4, <2>2 DEF Objects
    <3>2. ASSUME StoredAnew(m, m)', NEW t \in {m} \cup Refs[m], StoredAnew(m, t)'
          PROVE  t \in files' /\ \A g \in Collectors : Passes(g, t)'
      <4>1. t \notin reused[w]
        BY <1>2, <1>3, <3>1, <3>2 DEF StoredAnew, Places
      <4>2. CASE t = o
        BY <1>2, <1>3, <1>7, <1>8, <4>1, <4>2
      <4>3. CASE t # o
        <5>1. t \in Had(w) /\ t \in Objects
          <6>1. PICK j \in 1..(i - 1) : t = Job[w][j]
            BY <1>2, <3>1, <3>2, <4>3 DEF RefsFirst
          <6> QED BY <1>9, <6>1, HadTyped
        <5>2. t \in files /\ Young(w, t)
          BY <1>5, <4>1, <5>1 DEF Kept
        <5> QED BY <1>3, <1>6, <1>8, <5>1, <5>2
      <4> QED BY <4>2, <4>3
    <3> QED BY <3>2 DEF Whole
  <2> QED BY <2>1, <2>2
<1>11. ASSUME NEW v \in Writers, Active(v)' PROVE Kept(v)'
  <2>1. CASE v # w
    <3>1. wpc'[v] = wpc[v] /\ at'[v] = at[v] /\ Obj(v) \in Objects
      BY <1>3, <2>1, ObjTyped
    <3>2. Kept(v)
      BY <1>11, <3>1 DEF Active, Stored
    <3>3. Had(v)' = Had(v) /\ Obj(v)' = Obj(v) /\ Had(v) \subseteq Objects
      BY <3>1, HadTyped DEF Had, Obj
    <3>4. \A t \in Objects : Young(v, t) => Young(v, t)'
      BY <1>6
    <3>5. \A t \in Objects : created[t] = NoRow /\ Active(v) /\ since[v] # NoRow
                               => created'[t] = NoRow \/ Young(v, t)'
      BY <1>3, <1>4, Numbers DEF Young
    <3>6. wpc[v] \in {"write", "register"} => Active(v) /\ since[v] # NoRow
      BY DEF Active, Stored, InTime
    <3>7. \A t \in Had(v)' \ reused'[v] : t \in files' /\ Young(v, t)'
      BY <1>3, <3>2, <3>3, <3>4 DEF Kept
    <3>8. wpc'[v] \in {"write", "register"} /\ Obj(v)' \notin reused'[v] =>
             created'[Obj(v)'] = NoRow \/ Young(v, Obj(v))'
      <4>1. PICK t : t = Obj(v)
        OBVIOUS
      <4>2. /\ t \in Objects /\ Obj(v)' = t
            /\ wpc[v] \in {"write", "register"} /\ t \notin reused[v] =>
                  created[t] = NoRow \/ Young(v, t)
        BY <3>1, <3>2, <3>3, <4>1 DEF Kept
      <4>3. wpc[v] \in {"write", "register"} /\ t \notin reused[v] =>
               created'[t] = NoRow \/ Young(v, t)'
        BY <3>4, <3>5, <3>6, <4>2
      <4> QED BY <1>3, <3>1, <4>2, <4>3 DEF Young
    <3>9. wpc'[v] = "register" /\ Obj(v)' \notin reused'[v] => Obj(v)' \in files'
      BY <1>3, <3>1, <3>2, <3>3 DEF Kept
    <3> QED BY <3>7, <3>8, <3>9 DEF Kept
  <2>2. CASE v = w
    <3>1. \A t \in Had(w)' : t = o \/ t \in Had(w)
      <4>1. \A t \in Had(w)' : \E j \in 1..i : t = Job[w][j]
        BY <1>2, <1>3, <1>11, <2>2 DEF Had, Active
      <4>2. \A j \in 1..i : j = i \/ j \in 1..(i - 1)
        BY <1>2
      <4> QED BY <1>2, <1>9, <4>1, <4>2
    <3>2. \A t \in Had(w) \ reused[w] : t \in files /\ Young(w, t)'
      BY <1>5, <1>6, HadTyped DEF Kept
    <3>3. \A t \in Had(w)' \ reused'[w] : t \in files' /\ Young(w, t)'
      BY <1>3, <1>7, <3>1, <3>2
    <3>4. wpc'[w] \notin {"write", "register"}
      BY <1>3
    <3> QED BY <2>2, <3>3, <3>4 DEF Kept
  <2> QED BY <2>1, <2>2
<1>12. InTime'
  <2> SUFFICES ASSUME NEW v \in Writers, Active(v)'
               PROVE  /\ since'[v] # NoRow => \A d \in Days : now' - since'[v] =< d
                      /\ since'[v] = NoRow => wpc'[v] = "check" /\ at'[v] = 1
    BY DEF InTime
  <2>1. CASE v = w
    BY <1>3, <1>5, <2>1
  <2>2. CASE v # w
    BY <1>3, <2>2 DEF Stored, InTime, Active
  <2> QED BY <2>1, <2>2
<1> QED BY <1>6, <1>10, <1>11, <1>12 DEF Stored

-----------------------------------------------------------------------------
(* Steps of users, of the clock and of collectors: no writer moves.        *)

LEMMA ClosureFacts ==
    ASSUME NEW S \in SUBSET Objects
    PROVE  /\ S \subseteq Closure(S)
           /\ \A m \in Closure(S) : References(m) \subseteq Closure(S)
<1>1. S \subseteq Closure(S)
  BY DEF Closure
<1>2. ASSUME NEW m \in Closure(S), NEW t \in References(m)
      PROVE  t \in Closure(S)
  <2>1. t \in Objects
    BY StoreAssumption DEF References
  <2>2. ASSUME NEW T \in SUBSET Objects, S \subseteq T,
               \A u \in T : References(u) \subseteq T
        PROVE  t \in T
    <3>1. m \in T
      BY <2>2 DEF Closure
    <3> QED BY <2>2, <3>1
  <2> QED BY <2>1, <2>2 DEF Closure
<1> QED BY <1>1, <1>2

\* Where the rows of a writer are as they were, or were none, and its files are
\* still there, it has what it had.
LEMMA KeptStays ==
    ASSUME SInv, UNCHANGED writers, NEW w \in Writers, Active(w),
           \A o \in Had(w) \ reused[w] : o \in files' /\ created'[o] = created[o],
           wpc[w] \in {"write", "register"} /\ Obj(w) \notin reused[w] =>
               /\ created'[Obj(w)] \in {created[Obj(w)], NoRow}
               /\ Obj(w) \in files => Obj(w) \in files'
    PROVE  Kept(w)'
<1>1. Kept(w)
  BY DEF SInv, Stored
<1>2. /\ Had(w)' = Had(w) /\ Obj(w)' = Obj(w)
      /\ wpc' = wpc /\ since' = since /\ reused' = reused
  BY DEF Had, Obj, writers
<1> QED BY <1>1, <1>2 DEF Kept, Young

\* Users and the clock.
LEMMA UsersStored ==
    ASSUME SInv, UNCHANGED <<files, created, writers, collector>>,
           now' \in {now, now + 1}, InTime'
    PROVE  Stored'
<1> USE DEF SInv, Stored
<1>1. Horizoned'
  <2>1. ASSUME NEW g \in Collectors, gpc'[g] # "idle"
        PROVE  \E d \in Days : run'[g].cutoff =< now' - d
    <3>1. PICK d \in Days : run[g].cutoff =< now - d
      BY <2>1 DEF Horizoned, collector
    <3>2. run[g].cutoff =< now' - d
      BY <3>1, Numbers
    <3> QED BY <3>2 DEF collector
  <2> QED BY <2>1 DEF Horizoned
<1>2. Aware' /\ \A g \in Collectors, o \in Objects : Passes(g, o) => Passes(g, o)'
  BY DEF Aware, Passes, Doomed, collector
<1>3. \A m \in Manifests : Whole(m)'
  BY <1>2, WholeStays DEF writers
<1>4. \A w \in Writers : Active(w)' => Kept(w)'
  <2> SUFFICES ASSUME NEW w \in Writers, Active(w)' PROVE Kept(w)'
    OBVIOUS
  <2>1. Active(w) /\ Kept(w)
    BY DEF Active, writers
  <2> QED BY <2>1, KeptStays DEF Kept
<1> QED BY <1>1, <1>2, <1>3, <1>4

\* It is enough to look at the one collector.
LEMMA CollectorStored ==
    ASSUME SInv, OneCollector, NEW g \in Collectors, UNCHANGED <<now, writers>>,
           gpc'[g] # "idle" => \E d \in Days : run'[g].cutoff =< now - d,
           gpc'[g] \in {"again", "sweep"} =>
               \A o \in run'[g].candidates : created'[o] # NoRow,
           gpc'[g] = "sweep" => \A o \in run'[g].candidates :
               created'[o] >= run'[g].cutoff => o \in run'[g].recent,
           \A w \in Writers : Active(w) => Kept(w)',
           \A m \in Manifests : Whole(m)'
    PROVE  Stored'
<1>1. \A h \in Collectors : h = g
  BY DEF OneCollector
<1>2. Horizoned' /\ Aware'
  BY <1>1 DEF Horizoned, Aware
<1>3. InTime' /\ \A w \in Writers : Active(w)' => Kept(w)'
  BY DEF SInv, Stored, InTime, Active, writers
<1> QED BY <1>2, <1>3 DEF Stored

\* A step of a collection that reads.
LEMMA ReaderStored ==
    ASSUME SInv, OneCollector, NEW g \in Collectors, UNCHANGED <<files, created, now, writers>>,
           gpc'[g] # "idle" => \E d \in Days : run'[g].cutoff =< now - d,
           gpc'[g] \in {"again", "sweep"} =>
               \A o \in run'[g].candidates : created'[o] # NoRow,
           gpc'[g] = "sweep" => \A o \in run'[g].candidates :
               created'[o] >= run'[g].cutoff => o \in run'[g].recent,
           \A o \in Objects : Passes(g, o) => Passes(g, o)'
    PROVE  Stored'
<1>1. \A h \in Collectors : h = g
  BY DEF OneCollector
<1>2. \A h \in Collectors, o \in Objects : Passes(h, o) => Passes(h, o)'
  <2> TAKE h \in Collectors
  <2> QED BY <1>1
<1>3. \A m \in Manifests : Whole(m)'
  BY <1>2, WholeStays DEF writers
<1>4. \A w \in Writers : Active(w) => Kept(w)'
  <2> SUFFICES ASSUME NEW w \in Writers, Active(w) PROVE Kept(w)'
    OBVIOUS
  <2>1. Kept(w)
    BY DEF SInv, Stored
  <2> QED BY <2>1, KeptStays DEF Kept
<1> QED BY <1>3, <1>4, CollectorStored

LEMMA BeginStored ==
    ASSUME SInv, OneCollector, NEW g \in Collectors,
           NEW override \in BOOLEAN, NEW days \in Days, Begin(g, override, days)
    PROVE  Stored'
<1>1. /\ gpc'[g] = "recent" /\ run'[g].cutoff = now - days
      /\ UNCHANGED <<files, created, now, writers>>
  BY DEF Begin, NoRun, SInv, Typed, TypeOK, Shape, catalog
<1>2. run'[g].cutoff =< now - days
  BY <1>1, Numbers DEF SInv
<1>3. \A o : Passes(g, o)'
  BY <1>1 DEF Passes
<1> QED BY <1>1, <1>2, <1>3, ReaderStored

LEMMA GiveUpStored ==
    ASSUME SInv, OneCollector, NEW g \in Collectors, GiveUp(g)
    PROVE  Stored'
<1>1. gpc'[g] = "idle" /\ UNCHANGED <<files, created, now, writers>>
  BY DEF GiveUp, SInv, Typed, TypeOK, catalog
<1>2. \A o : Passes(g, o)'
  BY <1>1 DEF Passes
<1> QED BY <1>1, <1>2, ReaderStored

\* A manifest within the horizon is recent, and what it refers to is marked.
LEMMA MarkStored ==
    ASSUME SInv, OneCollector, NEW g \in Collectors, Mark(g)
    PROVE  Stored'
<1> USE DEF SInv, Stored
<1>1. PICK roots : roots = run[g].leased \cup Recent(run[g].cutoff)
  OBVIOUS
<1>2. /\ gpc[g] = "recent" /\ gpc'[g] = "candidates"
      /\ run'[g].live = Closure(roots) /\ run'[g].cutoff = run[g].cutoff
      /\ UNCHANGED <<files, created, now, writers>>
  BY <1>1 DEF Mark, Typed, TypeOK, Shape, RunType, catalog
<1>3. roots \in SUBSET Objects
  BY <1>1, RunFacts DEF Recent, Typed
<1>4. PICK d \in Days : run[g].cutoff =< now - d
  BY <1>2 DEF Horizoned
<1>5. ASSUME NEW m \in Manifests, WithinHorizon(m), m \in files
      PROVE  \A o \in {m} \cup Refs[m] : o \in Closure(roots)
  <2>1. m \in Objects /\ created[m] # NoRow /\ created[m] >= now - d
    BY <1>5 DEF WithinHorizon, Days, Objects
  <2>2. created[m] >= run[g].cutoff
    BY <1>4, <2>1, Numbers
  <2>3. m \in Closure(roots)
    BY <1>1, <1>3, <2>1, <2>2, ClosureFacts DEF Recent
  <2>4. Refs[m] \subseteq References(m)
    BY <1>5 DEF References
  <2> QED BY <1>3, <2>3, <2>4, ClosureFacts
<1>6. ASSUME NEW m \in Manifests PROVE Whole(m)'
  <2> SUFFICES ASSUME WithinHorizon(m)', StoredAnew(m, m)',
                      NEW o \in {m} \cup Refs[m], StoredAnew(m, o)'
               PROVE  o \in files' /\ \A h \in Collectors : Passes(h, o)'
    BY DEF Whole
  <2>1. WithinHorizon(m) /\ \A t : StoredAnew(m, t)' = StoredAnew(m, t)
    BY <1>2 DEF WithinHorizon, StoredAnew, writers
  <2>2. m \in files /\ o \in files
    BY <2>1 DEF Whole
  <2>3. o \in Closure(roots)
    BY <1>5, <2>1, <2>2
  <2>4. Passes(g, o)'
    BY <1>2, <2>3 DEF Passes
  <2> QED BY <1>2, <2>2, <2>4 DEF OneCollector
<1>7. \A w \in Writers : Active(w) => Kept(w)'
  <2> SUFFICES ASSUME NEW w \in Writers, Active(w) PROVE Kept(w)'
    OBVIOUS
  <2>1. Kept(w)
    OBVIOUS
  <2> QED BY <1>2, <2>1, KeptStays DEF Kept
<1> QED BY <1>2, <1>4, <1>6, <1>7, CollectorStored

LEMMA CandidatesStored ==
    ASSUME SInv, OneCollector, NEW g \in Collectors, Candidates(g)
    PROVE  Stored'
<1>1. /\ gpc[g] = "candidates" /\ gpc'[g] = "again"
      /\ run'[g].live = run[g].live /\ run'[g].cutoff = run[g].cutoff
      /\ run'[g].candidates = Rows
      /\ UNCHANGED <<files, created, now, writers>>
  BY DEF Candidates, SInv, Typed, TypeOK, Shape, RunType, catalog
<1>2. \E d \in Days : run'[g].cutoff =< now - d
  BY <1>1 DEF SInv, Stored, Horizoned
<1>3. \A o \in run'[g].candidates : created'[o] # NoRow
  BY <1>1 DEF Rows
<1>4. \A o \in Objects : Passes(g, o) => Passes(g, o)'
  BY <1>1 DEF Passes
<1> QED BY <1>1, <1>2, <1>3, <1>4, ReaderStored

LEMMA RecentStored ==
    ASSUME SInv, OneCollector, NEW g \in Collectors, RecentNow(g)
    PROVE  Stored'
<1>1. /\ gpc[g] = "again" /\ gpc'[g] = "sweep"
      /\ run'[g].live = run[g].live /\ run'[g].cutoff = run[g].cutoff
      /\ run'[g].candidates = run[g].candidates
      /\ run'[g].recent = Recent(run[g].cutoff)
      /\ UNCHANGED <<files, created, now, writers>>
  BY DEF RecentNow, SInv, Typed, TypeOK, Shape, RunType, catalog
<1>2. \E d \in Days : run'[g].cutoff =< now - d
  BY <1>1 DEF SInv, Stored, Horizoned
<1>3. \A o \in run[g].candidates : o \in Objects /\ created[o] # NoRow
  BY <1>1, RunFacts DEF SInv, Stored, Aware, Typed
<1>4. \A o \in run'[g].candidates : created'[o] >= run'[g].cutoff => o \in run'[g].recent
  BY <1>1, <1>3 DEF Recent
<1>5. ASSUME NEW o \in Objects, Passes(g, o) PROVE Passes(g, o)'
  <2>1. o \in run[g].live \/ created[o] >= run[g].cutoff
    BY <1>1, <1>5 DEF Passes
  <2>2. o \notin Doomed(g)'
    BY <1>1, <1>4, <2>1 DEF Doomed
  <2> QED BY <1>1, <2>2 DEF Passes
<1> QED BY <1>1, <1>2, <1>3, <1>4, <1>5, ReaderStored

LEMMA SweepStored ==
    ASSUME SInv, OneCollector, NEW g \in Collectors, NEW x \in Objects, Sweep(g, x)
    PROVE  Stored'
<1> USE DEF SInv, Stored
<1>1. /\ gpc[g] = "sweep" /\ gpc'[g] = "sweep" /\ x \in Doomed(g) /\ files' = files \ {x}
      /\ run'[g].live = run[g].live /\ run'[g].cutoff = run[g].cutoff
      /\ run'[g].candidates = run[g].candidates /\ run'[g].recent = run[g].recent
      /\ UNCHANGED <<created, now, writers>>
  BY DEF Sweep, Typed, TypeOK, Shape, RunType, catalog
<1>2. \E d \in Days : run'[g].cutoff =< now - d
  BY <1>1 DEF Horizoned
<1>3. /\ \A o \in run[g].candidates : created[o] # NoRow
      /\ \A o \in run[g].candidates : created[o] >= run[g].cutoff => o \in run[g].recent
  BY <1>1 DEF Aware
<1>4. ASSUME NEW m \in Manifests PROVE Whole(m)'
  <2> SUFFICES ASSUME WithinHorizon(m)', StoredAnew(m, m)',
                      NEW o \in {m} \cup Refs[m], StoredAnew(m, o)'
               PROVE  o \in files' /\ \A h \in Collectors : Passes(h, o)'
    BY DEF Whole
  <2>1. WithinHorizon(m) /\ \A t : StoredAnew(m, t)' = StoredAnew(m, t)
    BY <1>1 DEF WithinHorizon, StoredAnew, writers
  <2>2. o \in files /\ Passes(g, o)
    BY <2>1 DEF Whole
  <2>3. o \notin Doomed(g)
    BY <1>1, <2>2 DEF Passes
  <2>4. Passes(g, o)'
    BY <1>1, <2>3 DEF Passes, Doomed
  <2> QED BY <1>1, <2>2, <2>3, <2>4 DEF OneCollector
<1>5. ASSUME NEW w \in Writers, Active(w) PROVE Kept(w)'
  <2>1. Kept(w)
    BY <1>5
  <2>2. /\ \A o \in Had(w) \ reused[w] : o # x
        /\ wpc[w] \in {"write", "register"} /\ Obj(w) \notin reused[w] => Obj(w) # x
    BY <1>1, <1>5, KeptSafe
  <2> QED BY <1>1, <1>5, <2>1, <2>2, KeptStays DEF Kept
<1> QED BY <1>1, <1>2, <1>3, <1>4, <1>5, CollectorStored

\* Rows go, but none that a writer has or a manifest needs.
LEMMA DeleteStored ==
    ASSUME SInv, OneCollector, NEW g \in Collectors, Delete(g)
    PROVE  Stored'
<1> USE DEF SInv, Stored
<1>1. /\ gpc[g] = "sweep" /\ gpc'[g] = "idle" /\ UNCHANGED <<files, now, writers>>
      /\ \A o \in Objects : created'[o] = IF o \in Doomed(g) THEN NoRow ELSE created[o]
  BY DEF Delete, Typed, TypeOK, Shape
<1>2. \A o : Passes(g, o)'
  BY <1>1 DEF Passes
<1>3. \A h \in Collectors, o \in Objects : Passes(h, o) => Passes(h, o)'
  BY <1>2 DEF OneCollector
<1>4. \A m \in Manifests : Whole(m)'
  <2> TAKE m \in Manifests
  <2>1. created'[m] \in {created[m], NoRow}
    BY <1>1 DEF Objects
  <2> QED BY <1>1, <1>3, <2>1, WholeStays DEF writers
<1>5. ASSUME NEW w \in Writers, Active(w) PROVE Kept(w)'
  <2>1. Kept(w) /\ Had(w) \subseteq Objects /\ Obj(w) \in Objects
    BY <1>5, HadTyped, ObjTyped
  <2>2. \A o \in Had(w) \ reused[w] : o \notin Doomed(g)
    BY <1>1, <1>5, KeptSafe
  <2>3. \A o \in Had(w) \ reused[w] : o \in files' /\ created'[o] = created[o]
    BY <1>1, <2>1, <2>2 DEF Kept
  <2>4. created'[Obj(w)] \in {created[Obj(w)], NoRow}
    BY <1>1, <2>1
  <2> QED BY <1>1, <1>5, <2>3, <2>4, KeptStays
<1> QED BY <1>1, <1>4, <1>5, CollectorStored

-----------------------------------------------------------------------------
LEMMA StoredStep == OneCollector /\ RefsFirst /\ SInv /\ [Next]_vars => Stored'
<1> SUFFICES ASSUME OneCollector, RefsFirst, SInv, [Next]_vars PROVE Stored'
  OBVIOUS
<1>1. ASSUME NEW w \in Writers, Put(w) \/ Die(w) PROVE Stored'
  BY <1>1, CheckStored, WriteStored, RegisterStored, LeaseStored, DieStored DEF Put
<1>2. ASSUME UNCHANGED <<files, created, now, writers, collector>>
      PROVE  Stored'
  <2>1. InTime'
    BY <1>2 DEF SInv, Stored, InTime, Active, writers
  <2> QED BY <1>2, <2>1, UsersStored
<1>3. ASSUME NEW o \in Objects, Pin(o) PROVE Stored'
  BY <1>2, <1>3 DEF Pin
<1>4. ASSUME NEW s \in Blobs, NEW t \in Objects, Link(s, t) PROVE Stored'
  BY <1>2, <1>4 DEF Link
<1>5. ASSUME NEW g \in Collectors, Collect(g) PROVE Stored'
  <2>1. ASSUME NEW override \in BOOLEAN, NEW days \in Days, Begin(g, override, days)
        PROVE  Stored'
    BY <2>1, BeginStored
  <2>2. ASSUME NEW o \in Objects, Sweep(g, o) PROVE Stored'
    BY <2>2, SweepStored
  <2> QED BY <1>5, <2>1, <2>2, MarkStored, CandidatesStored, RecentStored,
             DeleteStored DEF Collect, Days
<1>6. ASSUME NEW g \in Collectors, GiveUp(g) PROVE Stored'
  BY <1>6, GiveUpStored
<1>7. CASE Tick
  <2>1. UNCHANGED <<files, created, writers, collector>> /\ now' = now + 1
    BY <1>7 DEF Tick, catalog
  <2>2. \A w \in Writers, d \in Days :
           Active(w) /\ since[w] # NoRow => now + 1 - since[w] =< d
    BY <1>7, Numbers DEF Tick, Days, Active, SInv
  <2>3. InTime'
    <3> SUFFICES ASSUME NEW w \in Writers, Active(w)'
                 PROVE  /\ since'[w] # NoRow => \A d \in Days : now' - since'[w] =< d
                        /\ since'[w] = NoRow => wpc'[w] = "check" /\ at'[w] = 1
      BY DEF InTime
    <3>1. Active(w) /\ wpc' = wpc /\ at' = at /\ since' = since
      BY <2>1 DEF Active, writers
    <3>2. since[w] = NoRow => wpc[w] = "check" /\ at[w] = 1
      BY <3>1 DEF SInv, Stored, InTime
    <3>3. since[w] # NoRow => \A d \in Days : now + 1 - since[w] =< d
      BY <2>2, <3>1
    <3>4. since'[w] # NoRow => \A d \in Days : now' - since'[w] =< d
      <4>1. now' = now + 1 /\ since'[w] = since[w]
        BY <2>1, <3>1
      <4>2. now \in Int /\ since[w] \in Int /\ \A d \in Days : d \in Int
        BY Numbers DEF SInv
      <4> QED BY ONLY <3>3, <4>1, <4>2
    <3> QED BY <3>1, <3>2, <3>4
  <2> QED BY <2>1, <2>3, UsersStored
<1>8. CASE UNCHANGED vars
  BY <1>2, <1>8 DEF vars, catalog
<1> QED BY <1>1, <1>3, <1>4, <1>5, <1>6, <1>7, <1>8 DEF Next

\* A manifest that is registered is there, with every blob its writers stored
\* for it and did not find there with a row from before (put_blob, put_manifest
\* and gc of store.py), for as long as it is within every horizon: for any
\* number of objects and writers, the same blobs stored by several of them
\* included, with one collector at a time and what a manifest refers to stored
\* before it.
THEOREM ManifestComplete ==
    ASSUME OneCollector, RefsFirst
    PROVE  Spec => []RecentComplete
<1>1. Init => SInv
  BY TypedInit, StoredInit DEF SInv
<1>2. SInv /\ [Next]_vars => SInv'
  BY TypedStep, StoredStep DEF SInv
<1>3. SInv => RecentComplete
  BY DEF SInv, Stored, RecentComplete, Whole
<1> QED BY <1>1, <1>2, <1>3, PTL DEF Spec
=============================================================================
