------------------------------- MODULE Store -------------------------------
(***************************************************************************)
(* The artifact store of src/ctx/store.py: blobs and manifests named by    *)
(* the hash of their bytes, a catalog of them, pins and retention leases,  *)
(* declared dependencies, and a mark-and-sweep collector.                  *)
(*                                                                         *)
(* Every statement that touches the file system or commits to the catalog  *)
(* is a step of its own: other processes work on the same store.  Content  *)
(* addressing makes what a manifest refers to a function of its name.      *)
(***************************************************************************)
EXTENDS Integers, Sequences, FiniteSets

CONSTANTS Blobs, Manifests,     \* ids
          Refs,                 \* ids in the document of each manifest
          MayLink,              \* dependencies a caller may declare
          Writers, Job,         \* what each writer stores: blobs, manifest
          Collectors,
          RetentionDays,        \* the workspace's policy
          Horizons,             \* what "ctx gc --retention-days" may say
          Pinnable,             \* what a user may pin
          MaxNow,               \* bound on the clock
          MaxDeaths             \* bound on processes that die

Objects == Blobs \cup Manifests
NoRow == -1

ASSUME StoreAssumption ==
    /\ Blobs \cap Manifests = {}
    /\ Refs \in [Manifests -> SUBSET Objects]
    /\ MayLink \subseteq Blobs \X Objects
    /\ Job \in [Writers -> Seq(Objects) \ {<<>>}]
    /\ Pinnable \subseteq Objects
    /\ RetentionDays \in Nat /\ Horizons \subseteq Nat
    /\ MaxNow \in Nat /\ MaxDeaths \in Nat

VARIABLES files,                \* objects whose file is there
          created,              \* catalog: created_at of each row, or NoRow
          expiry,               \* leases: end of each retention lease, or NoRow
          pinned,               \* leases: those without an end
          edges,                \* artifact_edges
          now,                  \* the clock, in days
          wpc, at, since,       \* writers: where, at which object, since when
          reused,               \* history: what a writer found with an older row
          gpc,                  \* collectors: where
          run,                  \* ... and the locals of gc()
          promise,              \* history: what was live when gc() began
          deaths                \* history: processes that died

catalog == <<created, expiry, pinned, edges>>
writers == <<wpc, at, since, reused>>
collector == <<gpc, run, promise>>
vars == <<files, catalog, now, writers, collector, deaths>>

\* What a collector has read when it has read nothing.
NoRun == [override |-> FALSE, cutoff |-> 0, leased |-> {}, live |-> {},
          candidates |-> {}, recent |-> {}, dead |-> {}]

Init ==
    /\ files = {} /\ created = [o \in Objects |-> NoRow]
    /\ expiry = [o \in Objects |-> NoRow]
    /\ pinned = {} /\ edges = {} /\ now = 0
    /\ wpc = [w \in Writers |-> "check"]
    /\ at = [w \in Writers |-> 1]
    /\ since = [w \in Writers |-> NoRow]
    /\ reused = [w \in Writers |-> {}]
    /\ gpc = [g \in Collectors |-> "idle"]
    /\ run = [g \in Collectors |-> NoRun]
    /\ promise = [g \in Collectors |-> {}]
    /\ deaths = 0

-----------------------------------------------------------------------------
(* Writers: put_blob for each blob, then put_manifest.                     *)

Obj(w) == Job[w][at[w]]

\* The row of an object that has one keeps its created_at.
Row(o) == [created EXCEPT ![o] = IF @ = NoRow THEN now ELSE @]

\* put_blob: is the file there?  A manifest is written without asking.
Check(w) ==
    /\ wpc[w] = "check"
    /\ wpc' = [wpc EXCEPT ![w] = IF Obj(w) \in Blobs /\ Obj(w) \in files
                                 THEN "register" ELSE "write"]
    /\ since' = [since EXCEPT ![w] = IF @ = NoRow THEN now ELSE @]
    /\ reused' = [reused EXCEPT ![w] =
                     IF created[Obj(w)] # NoRow /\ created[Obj(w)] < since'[w]
                     THEN @ \cup {Obj(w)} ELSE @]
    /\ UNCHANGED <<files, catalog, now, at, collector, deaths>>

\* _atomic_write: the file appears whole.
Write(w) ==
    /\ wpc[w] = "write"
    /\ files' = files \cup {Obj(w)}
    /\ wpc' = [wpc EXCEPT ![w] = "register"]
    /\ UNCHANGED <<catalog, now, at, since, reused, collector, deaths>>

\* _register: INSERT OR IGNORE.
Register(w) ==
    /\ wpc[w] = "register"
    /\ created' = Row(Obj(w))
    /\ IF Obj(w) \in Manifests
       THEN wpc' = [wpc EXCEPT ![w] = "lease"] /\ at' = at
       ELSE /\ wpc' = [wpc EXCEPT ![w] = IF at[w] = Len(Job[w]) THEN "done" ELSE "check"]
            /\ at' = [at EXCEPT ![w] = IF @ = Len(Job[w]) THEN @ ELSE @ + 1]
    /\ UNCHANGED <<files, expiry, pinned, edges, now, since, reused, collector, deaths>>

\* put_manifest's retention lease: INSERT OR REPLACE.
Lease(w) ==
    /\ wpc[w] = "lease"
    /\ expiry' = [expiry EXCEPT ![Obj(w)] = now + RetentionDays]
    /\ wpc' = [wpc EXCEPT ![w] = IF at[w] = Len(Job[w]) THEN "done" ELSE "check"]
    /\ at' = [at EXCEPT ![w] = IF @ = Len(Job[w]) THEN @ ELSE @ + 1]
    /\ UNCHANGED <<files, created, pinned, edges, now, since, reused, collector, deaths>>

\* pin(): a full id is not looked up, so what has no row can be pinned too.
Pin(o) ==
    /\ o \in Pinnable \ pinned
    /\ pinned' = pinned \cup {o}
    /\ UNCHANGED <<files, created, expiry, edges, now, writers, collector, deaths>>

\* link_artifacts(): edges are added, never removed; a full id is not looked up.
Link(s, t) ==
    /\ <<s, t>> \in MayLink \ edges
    /\ edges' = edges \cup {<<s, t>>}
    /\ UNCHANGED <<files, created, expiry, pinned, now, writers, collector, deaths>>

\* A writer dies; nobody finishes what it began.
Die(w) ==
    /\ wpc[w] \notin {"done", "dead"}
    /\ deaths < MaxDeaths
    /\ wpc' = [wpc EXCEPT ![w] = "dead"]
    /\ deaths' = deaths + 1
    /\ UNCHANGED <<files, catalog, now, at, since, reused, collector>>

-----------------------------------------------------------------------------
(* gc(retention_days, override_retention)                                  *)

\* What an object refers to, as the catalog and the file system have it.
References(o) ==
    {t \in Objects : <<o, t>> \in edges} \cup
    (IF o \in Manifests \cap files THEN Refs[o] ELSE {})

\* The least set that holds S and whatever its members refer to.
Closure(S) ==
    {o \in Objects :
        \A T \in SUBSET Objects :
            S \subseteq T /\ (\A t \in T : References(t) \subseteq T) => o \in T}

\* Mutant: leases that have run out still protect.
LeasedForever(override) ==
    pinned \cup (IF override THEN {} ELSE {o \in Objects : expiry[o] # NoRow})

\* The pins, and unless the user named a horizon the leases that last.
Leased(override) ==
    pinned \cup (IF override THEN {} ELSE {o \in Objects : expiry[o] > now})

Recent(cutoff) == {o \in Objects : created[o] # NoRow /\ created[o] >= cutoff}

Rows == {o \in Objects : created[o] # NoRow}

\* What a collection that begins now is to keep: what is pinned, leased or
\* recent, and all it refers to.
Protected(override, cutoff) ==
    Closure(pinned \cup {o \in Objects : ~override /\ expiry[o] > now}
                   \cup {o \in Objects : created[o] # NoRow /\ created[o] >= cutoff})

\* The cutoff is fixed; the leases are read.
Begin(g, override, days) ==
    /\ gpc[g] = "idle"
    /\ days \in IF override THEN Horizons ELSE {RetentionDays}
    /\ run' = [run EXCEPT ![g] = [NoRun EXCEPT !.override = override,
                                               !.cutoff = now - days,
                                               !.leased = Leased(override)]]
    /\ promise' = [promise EXCEPT ![g] = files \cap Protected(override, now - days)]
    /\ gpc' = [gpc EXCEPT ![g] = "recent"]
    /\ UNCHANGED <<files, catalog, now, writers, deaths>>

\* Mutant: nothing is live by being referred to.
MarkRoots(g) ==
    /\ gpc[g] = "recent"
    /\ run' = [run EXCEPT ![g].live = @ \cup run[g].leased \cup Recent(run[g].cutoff)]
    /\ gpc' = [gpc EXCEPT ![g] = "candidates"]
    /\ UNCHANGED <<files, catalog, now, writers, promise, deaths>>

\* The recent rows are read, and the references followed.
Mark(g) ==
    /\ gpc[g] = "recent"
    /\ run' = [run EXCEPT ![g].live = Closure(run[g].leased \cup Recent(run[g].cutoff))]
    /\ gpc' = [gpc EXCEPT ![g] = "candidates"]
    /\ UNCHANGED <<files, catalog, now, writers, promise, deaths>>

\* All rows are read ...
Candidates(g) ==
    /\ gpc[g] = "candidates"
    /\ run' = [run EXCEPT ![g].candidates = Rows]
    /\ gpc' = [gpc EXCEPT ![g] = "again"]
    /\ UNCHANGED <<files, catalog, now, writers, promise, deaths>>

\* Mutant: only what was recent to begin with.
RecentAtMark(g) ==
    /\ gpc[g] = "again"
    /\ run' = [run EXCEPT ![g].recent = run[g].live]
    /\ gpc' = [gpc EXCEPT ![g] = "sweep"]
    /\ UNCHANGED <<files, catalog, now, writers, promise, deaths>>

\* ... and the recent ones once more, for those written since.
RecentNow(g) ==
    /\ gpc[g] = "again"
    /\ run' = [run EXCEPT ![g].recent = Recent(run[g].cutoff)]
    /\ gpc' = [gpc EXCEPT ![g] = "sweep"]
    /\ UNCHANGED <<files, catalog, now, writers, promise, deaths>>

Doomed(g) == run[g].candidates \ (run[g].live \cup run[g].recent)

\* The file of one dead object is unlinked.
Sweep(g, o) ==
    /\ gpc[g] = "sweep"
    /\ o \in Doomed(g) \ run[g].dead
    /\ files' = files \ {o}
    /\ run' = [run EXCEPT ![g].dead = @ \cup {o}]
    /\ UNCHANGED <<catalog, now, writers, gpc, promise, deaths>>

\* Their rows, leases and edges go in one transaction.
Delete(g) ==
    /\ gpc[g] = "sweep"
    /\ run[g].dead = Doomed(g)
    /\ created' = [o \in Objects |-> IF o \in run[g].dead THEN NoRow ELSE created[o]]
    /\ expiry' = [o \in Objects |-> IF o \in run[g].dead THEN NoRow ELSE expiry[o]]
    /\ pinned' = pinned \ run[g].dead
    /\ edges' = {e \in edges : e[1] \notin run[g].dead}
    /\ gpc' = [gpc EXCEPT ![g] = "idle"]
    /\ run' = [run EXCEPT ![g] = NoRun]
    /\ promise' = [promise EXCEPT ![g] = {}]
    /\ UNCHANGED <<files, now, writers, deaths>>

\* A collector dies: what it unlinked stays in the catalog.
GiveUp(g) ==
    /\ gpc[g] # "idle"
    /\ deaths < MaxDeaths
    /\ deaths' = deaths + 1
    /\ gpc' = [gpc EXCEPT ![g] = "idle"]
    /\ run' = [run EXCEPT ![g] = NoRun]
    /\ promise' = [promise EXCEPT ![g] = {}]
    /\ UNCHANGED <<files, catalog, now, writers>>

-----------------------------------------------------------------------------
\* A day goes by.  A writer takes no longer than the shortest horizon anyone
\* collects with: its first blob is still recent when its manifest is there.
Tick ==
    /\ now < MaxNow
    /\ \A w \in Writers, d \in Horizons \cup {RetentionDays} :
          wpc[w] \notin {"done", "dead"} /\ since[w] # NoRow => now + 1 - since[w] <= d
    /\ now' = now + 1
    /\ UNCHANGED <<files, catalog, writers, collector, deaths>>

Put(w) == Check(w) \/ Write(w) \/ Register(w) \/ Lease(w)
Collect(g) ==
    \/ \E override \in BOOLEAN, days \in Horizons \cup {RetentionDays} :
           Begin(g, override, days)
    \/ Mark(g) \/ Candidates(g) \/ RecentNow(g) \/ Delete(g)
    \/ \E o \in Objects : Sweep(g, o)

Next ==
    \/ \E w \in Writers : Put(w) \/ Die(w)
    \/ \E o \in Objects : Pin(o)
    \/ \E s \in Blobs, t \in Objects : Link(s, t)
    \/ \E g \in Collectors : Collect(g) \/ GiveUp(g)
    \/ Tick

Spec == Init /\ [][Next]_vars

\* Somebody collects again and again.
FairSpec == Spec /\ \A g \in Collectors : WF_vars(Collect(g))

-----------------------------------------------------------------------------
TypeOK ==
    /\ files \subseteq Objects /\ pinned \subseteq Objects
    /\ edges \subseteq Blobs \X Objects
    /\ now \in 0..MaxNow /\ deaths \in 0..MaxDeaths
    /\ created \in [Objects -> {NoRow} \cup 0..now]
    /\ expiry \in [Objects -> {NoRow} \cup 0..(now + RetentionDays)]
    /\ wpc \in [Writers -> {"check", "write", "register", "lease", "done", "dead"}]
    /\ gpc \in [Collectors -> {"idle", "recent", "candidates", "again", "sweep"}]
    /\ \A w \in Writers : /\ at[w] \in 1..Len(Job[w]) /\ since[w] \in {NoRow} \cup 0..now
                          /\ reused[w] \subseteq Objects
    /\ \A g \in Collectors :
          /\ run[g].leased \cup run[g].live \cup run[g].candidates \cup
             run[g].recent \cup run[g].dead \subseteq Objects
          /\ run[g].override \in BOOLEAN /\ run[g].cutoff \in Int
          /\ promise[g] \subseteq Objects

\* What was live when a collection began, by lease, by recency or because
\* something live refers to it, is not taken by it.
MarkedSurvive == \A g \in Collectors : promise[g] \cap run[g].dead = {}

\* A manifest that is registered is there, with what its writers stored for it,
\* for as long as it is within every horizon: "Blobs referenced by any live
\* manifest survive" (store.py:612), the collector's races with the writers
\* included.  Not what was in the store already when its writer came to it, with
\* a row from before: put_blob leaves that row as it is, and the collector may
\* have doomed it.
WithinHorizon(o) ==
    \A d \in Horizons \cup {RetentionDays} : created[o] # NoRow /\ created[o] >= now - d
StoredAnew(m, o) ==
    \A w \in Writers : (\E i \in 1..Len(Job[w]) : Job[w][i] = m) => o \notin reused[w]
RecentComplete ==
    \A m \in Manifests : WithinHorizon(m) /\ StoredAnew(m, m) =>
        \A o \in {m} \cup Refs[m] : StoredAnew(m, o) => o \in files

\* The row of what nothing protects is gone in the end, rows of objects that a
\* collector unlinked and died over included.  It is the catalog that gc()
\* reads: a file without a row, of a writer that died before it registered
\* (store.py:409-410), is no candidate of any collection.
GarbageGoes == <>[](Rows \subseteq Protected(FALSE, now - RetentionDays))
=============================================================================
