------------------------------- MODULE Reflex -------------------------------
(***************************************************************************)
(* The reflex state of a session, src/ctx/reflex.py: hook processes and    *)
(* ctx run read, change and rewrite one state file under its lock.         *)
(*                                                                         *)
(* A digest with omissions is an intervention for its command's signature. *)
(* It arms the signature and opens a hypothesis window; a re-run while     *)
(* armed is starvation, scored once a cycle, and latches dense rendering;  *)
(* an edit disarms.  The first command or landing that bears on a window   *)
(* resolves it, or it expires.  Outcomes move a circuit per signature.     *)
(*                                                                         *)
(* Signatures are model values; a generation of the source is a number, 0  *)
(* one that could not be computed.  An intervention's id is its sequence   *)
(* number.  The state file is replaced by rename; ledger lines are         *)
(* appended after the lock is released and may be lost with a process.     *)
(***************************************************************************)
EXTENDS Integers, FiniteSets

CONSTANTS Procs, NoProc,        \* hook processes; "nobody has the lock"
          Sigs,                 \* command signatures
          Narrower,             \* Narrower[s]: the signatures s narrows
          Window,               \* HYPOTHESIS_WINDOW_COMMANDS
          ToDense, ToNormal,    \* positives that bring a circuit down
          Hashable,             \* a generation can always be computed
          Fresh,                \* the session has no ledger directory yet
          MaxOps, MaxGen, MaxDeaths     \* bounds of the model

ASSUME ReflexAssumption ==
    /\ NoProc \notin Procs /\ Sigs # {}
    /\ Narrower \in [Sigs -> SUBSET Sigs]
    /\ {Window, ToDense, ToNormal, MaxGen} \subseteq Nat \ {0}
    /\ {MaxOps, MaxDeaths} \subseteq Nat
    /\ {Hashable, Fresh} \subseteq BOOLEAN

VARIABLES blob,                 \* the state file
          dir,                  \* the ledger directory exists
          holder,               \* who holds the lock of the state file
          pc, job,              \* where each process is, and what it does
          mem,                  \* the state it read
          lines,                \* what it has to append
          gen,                  \* world: generation of the source
          ops, deaths,          \* bounded counts
          cycles, starved,      \* history: interventions recorded, and
                                \* starvation lines, of each signature
          outcomes,             \* history: outcome lines of each window
          counted, latched      \* history: commands counted; densified

control == <<holder, pc, job, mem, lines>>
history == <<cycles, starved, outcomes, counted, latched>>
vars == <<blob, dir, control, gen, ops, deaths, history>>

-----------------------------------------------------------------------------
(* The state file.                                                         *)

NoRecord == [known |-> FALSE, starved |-> FALSE, armed |-> FALSE,
             iid |-> 0, gen |-> 0]
NoCircuit == [level |-> "normal", episode |-> -1, positives |-> 0,
              moved |-> FALSE]
Empty == [recs |-> [s \in Sigs |-> NoRecord], densify |-> {}, seq |-> 0,
          commands |-> 0, open |-> {}, circuits |-> [s \in Sigs |-> NoCircuit]]

Ids(wins) == {x.iid : x \in wins}
Gens == IF Hashable THEN {gen} ELSE {gen, 0}

\* A generation change begins an episode; the positives stay.
InEpisode(c, g) ==
    IF c.episode = g THEN c ELSE [c EXCEPT !.episode = g, !.moved = FALSE]
MovedTo(c, level) == [c EXCEPT !.level = level, !.moved = TRUE, !.positives = 0]

OnStarvation(circuit, g) ==
    LET c == InEpisode(circuit, g)
    IN  IF c.moved \/ c.level = "bypass" THEN c
        ELSE MovedTo(c, IF c.level = "normal" THEN "dense" ELSE "bypass")

OnPositive(circuit, g) ==
    LET in == InEpisode(circuit, g)
        c == [in EXCEPT !.positives = @ + 1]
    IN  IF c.moved THEN c
        ELSE IF c.level = "bypass" /\ c.positives >= ToDense
             THEN MovedTo(c, "dense")
        ELSE IF c.level = "dense" /\ c.positives >= ToNormal
             THEN MovedTo(c, "normal")
        ELSE c

\* _expire_windows: too many commands, or another generation in hand.
Elapsed(st) == {x \in st.open : st.commands - x.at >= Window}
Stale(st, g) == {x \in st.open : g # 0 /\ x.gen # 0 /\ x.gen # g}

\* Mutant: the outcome is written and the window stays.
ClosedNot(st, s) == st

\* _resolve_window: the signature's window, if it is still open.
HasWindow(st, s) == st.recs[s].iid \in Ids(st.open)
Closed(st, s) ==
    [st EXCEPT !.open = {x \in @ : x.iid # st.recs[s].iid}]

-----------------------------------------------------------------------------
(* What each operation makes of the state it read: the new state, the      *)
(* windows it writes outcomes for, and whether starvation is scored.       *)

Result(st, won, fresh) == [st |-> st, won |-> won, fresh |-> fresh]

\* note_intervention, first section.
Noted(st, s) ==
    [st EXCEPT !.recs[s].known = TRUE, !.recs[s].starved = FALSE,
               !.recs[s].armed = TRUE]

\* emit_intervention: windows of other generations and the signature's own
\* give way to the new one.
Emitted(st, s, g) ==
    LET gone == Stale(st, g) \cup {x \in st.open : x.iid = st.recs[s].iid}
        id == st.seq + 1
        new == [iid |-> id, gen |-> g, at |-> st.commands]
        rec == IF st.recs[s].known THEN st.recs[s]
               ELSE [NoRecord EXCEPT !.known = TRUE, !.starved = TRUE]
    IN  Result([st EXCEPT !.seq = id, !.open = (@ \ gone) \cup {new},
                          !.recs[s] = [rec EXCEPT !.iid = id, !.gen = g]],
               Ids(gone), FALSE)

\* note_edit.
Disarmed(st) == [st EXCEPT !.recs = [s \in Sigs |-> [st.recs[s] EXCEPT !.armed = FALSE]]]

\* A re-run is starvation if the source is the same, or, when that cannot be
\* said, if no edit came between.
Starves(rec, g) ==
    IF g = 0 \/ rec.gen = 0 THEN rec.armed ELSE g = rec.gen

IsFresh(rec) == rec.armed /\ ~rec.starved

\* check_command for a signature with an intervention.
Rerun(st, s, g) ==
    LET rec == st.recs[s]
        marked == IF rec.armed
                  THEN [st EXCEPT !.recs[s].starved = TRUE, !.densify = @ \cup {s}]
                  ELSE st
        won == IF HasWindow(st, s) THEN {rec.iid} ELSE {}
        moved == IF Starves(rec, g) THEN OnStarvation(st.circuits[s], g)
                 ELSE OnPositive(st.circuits[s], g)
    IN  IF won = {} THEN Result(marked, {}, IsFresh(rec))
        ELSE Result([Closed(marked, s) EXCEPT !.circuits[s] = moved], won, IsFresh(rec))

\* check_command for one without: it may narrow one that has.
Narrows(st, s, g) ==
    LET wider == {b \in Narrower[s] : st.recs[b].known}
    IN  IF wider = {} THEN Result(st, {}, FALSE)
        ELSE LET b == CHOOSE x \in wider : TRUE
             IN  IF ~HasWindow(st, b) THEN Result(st, {}, FALSE)
                 ELSE Result([Closed(st, b) EXCEPT
                                !.circuits[b] = OnPositive(@, g)],
                             {st.recs[b].iid}, FALSE)

\* The generation is computed only if the command bears on a record.
Checked(st, s, g) ==
    LET now == [st EXCEPT !.commands = @ + 1]
        bears == st.recs[s].known \/ \E b \in Narrower[s] : st.recs[b].known
        did == IF st.recs[s].known THEN Rerun(now, s, g) ELSE Narrows(now, s, g)
        gone == Elapsed(did.st) \cup (IF bears THEN Stale(did.st, g) ELSE {})
    IN  Result([did.st EXCEPT !.open = @ \ gone], did.won \cup Ids(gone), did.fresh)

\* note_landing: the digest of an intervention was looked up.
Landed(st, s) ==
    IF ~HasWindow(st, s) THEN Result(st, {}, FALSE)
    ELSE Result([Closed(st, s) EXCEPT
                   !.circuits[s] = OnPositive(@, st.recs[s].gen)],
                {st.recs[s].iid}, FALSE)

-----------------------------------------------------------------------------
(* Processes.                                                              *)

Operations == {"note", "emit", "edit", "check", "land"}
NoJob == [op |-> "none", sig |-> CHOOSE s \in Sigs : TRUE, gen |-> 0]
NoLines == [won |-> {}, fresh |-> FALSE]

Init ==
    /\ blob = Empty /\ dir = ~Fresh /\ holder = NoProc
    /\ pc = [p \in Procs |-> "idle"] /\ job = [p \in Procs |-> NoJob]
    /\ mem = [p \in Procs |-> Empty] /\ lines = [p \in Procs |-> NoLines]
    /\ gen = 1 /\ ops = 0 /\ deaths = 0
    /\ cycles = [s \in Sigs |-> 0] /\ starved = [s \in Sigs |-> 0]
    /\ outcomes = [i \in 1..MaxOps |-> 0]
    /\ counted = 0 /\ latched = {}

\* A hook or ctx run begins an operation.
Begin(p) ==
    /\ pc[p] = "idle" /\ ops < MaxOps
    /\ ops' = ops + 1
    /\ \E op \in Operations \ {"emit"}, s \in Sigs :
         job' = [job EXCEPT ![p] = [op |-> op, sig |-> s, gen |-> 0]]
    /\ pc' = [pc EXCEPT ![p] = "wait"]
    /\ UNCHANGED <<blob, dir, holder, mem, lines, gen, deaths, history>>

\* Mutant: the file is read before its lock is taken.
EnterUnlocked(p) ==
    /\ pc[p] = "wait"
    /\ mem' = [mem EXCEPT ![p] = blob]
    /\ pc' = [pc EXCEPT ![p] = "read"]
    /\ UNCHANGED <<blob, dir, holder, job, lines, gen, ops, deaths, history>>

\* _exclusive and read_state: without a directory there is nothing to lock.
Enter(p) ==
    /\ pc[p] = "wait"
    /\ dir => holder = NoProc
    /\ holder' = IF dir THEN p ELSE holder
    /\ mem' = [mem EXCEPT ![p] = blob]
    /\ pc' = [pc EXCEPT ![p] = "read"]
    /\ UNCHANGED <<blob, dir, job, lines, gen, ops, deaths, history>>

Released(p) == IF holder = p THEN NoProc ELSE holder

\* The state is written by temporary file and rename, and the lock released.
Write(p, r, next) ==
    /\ pc[p] = "read"
    /\ blob' = r.st /\ dir' = TRUE
    /\ holder' = Released(p)
    /\ lines' = [lines EXCEPT ![p] = [won |-> r.won, fresh |-> r.fresh]]
    /\ mem' = [mem EXCEPT ![p] = Empty]
    /\ pc' = [pc EXCEPT ![p] = next]

\* There is nothing to score: nothing is written.
Leave(p) ==
    /\ pc[p] = "read"
    /\ CASE job[p].op = "check" -> /\ mem[p].open = {}
                                   /\ \A s \in Sigs : ~mem[p].recs[s].known
         [] job[p].op = "edit" -> \A s \in Sigs : ~mem[p].recs[s].armed
         [] job[p].op = "land" -> ~mem[p].recs[job[p].sig].known
         [] OTHER -> FALSE
    /\ holder' = Released(p)
    /\ mem' = [mem EXCEPT ![p] = Empty]
    /\ pc' = [pc EXCEPT ![p] = "idle"]
    /\ job' = [job EXCEPT ![p] = NoJob]
    /\ UNCHANGED <<blob, dir, lines, gen, ops, deaths, history>>

\* The intervention is recorded and armed; its event follows.
Note(p) ==
    /\ job[p].op = "note"
    /\ Write(p, Result(Noted(mem[p], job[p].sig), {}, FALSE), "hash")
    /\ cycles' = [cycles EXCEPT ![job[p].sig] = @ + 1]
    /\ UNCHANGED <<job, gen, ops, deaths, starved, outcomes, counted, latched>>

\* The generation is computed while nothing is locked.
Hash(p) ==
    /\ pc[p] = "hash"
    /\ \E g \in Gens : job' = [job EXCEPT ![p].op = "emit", ![p].gen = g]
    /\ pc' = [pc EXCEPT ![p] = "wait"]
    /\ UNCHANGED <<blob, dir, holder, mem, lines, gen, ops, deaths, history>>

Emit(p) ==
    /\ job[p].op = "emit"
    /\ \E g \in IF job[p].gen = 0 THEN Gens ELSE {job[p].gen} :
         Write(p, Emitted(mem[p], job[p].sig, g), "append")
    /\ UNCHANGED <<job, gen, ops, deaths, history>>

Edit(p) ==
    /\ job[p].op = "edit" /\ \E s \in Sigs : mem[p].recs[s].armed
    /\ Write(p, Result(Disarmed(mem[p]), {}, FALSE), "append")
    /\ UNCHANGED <<job, gen, ops, deaths, history>>

Check(p) ==
    LET s == job[p].sig
    IN  /\ job[p].op = "check"
        /\ mem[p].open # {} \/ \E b \in Sigs : mem[p].recs[b].known
        /\ \E g \in Gens : Write(p, Checked(mem[p], s, g), "append")
        /\ counted' = counted + 1
        /\ latched' = latched \cup (IF mem[p].recs[s].armed THEN {s} ELSE {})
        /\ UNCHANGED <<job, gen, ops, deaths, cycles, starved, outcomes>>

Land(p) ==
    /\ job[p].op = "land" /\ mem[p].recs[job[p].sig].known
    /\ Write(p, Landed(mem[p], job[p].sig), "append")
    /\ UNCHANGED <<job, gen, ops, deaths, history>>

\* The lines go to the ledgers.
Append(p) ==
    /\ pc[p] = "append"
    /\ outcomes' = [i \in 1..MaxOps |->
                      outcomes[i] + (IF i \in lines[p].won THEN 1 ELSE 0)]
    /\ starved' = [starved EXCEPT ![job[p].sig] =
                     @ + (IF lines[p].fresh THEN 1 ELSE 0)]
    /\ lines' = [lines EXCEPT ![p] = NoLines]
    /\ pc' = [pc EXCEPT ![p] = "idle"]
    /\ job' = [job EXCEPT ![p] = NoJob]
    /\ UNCHANGED <<blob, dir, holder, mem, gen, ops, deaths, cycles, counted,
                   latched>>

\* A process is killed: its lock is released and its lines are lost.
Die(p) ==
    /\ pc[p] # "idle" /\ deaths < MaxDeaths
    /\ deaths' = deaths + 1
    /\ holder' = Released(p)
    /\ pc' = [pc EXCEPT ![p] = "idle"] /\ job' = [job EXCEPT ![p] = NoJob]
    /\ mem' = [mem EXCEPT ![p] = Empty] /\ lines' = [lines EXCEPT ![p] = NoLines]
    /\ UNCHANGED <<blob, dir, gen, ops, history>>

\* The source changes, with or without an Edit the hooks see.
Change ==
    /\ gen < MaxGen
    /\ gen' = gen + 1
    /\ UNCHANGED <<blob, dir, control, ops, deaths, history>>

Next ==
    \/ Change
    \/ \E p \in Procs :
         \/ Begin(p) \/ Enter(p) \/ Leave(p) \/ Note(p) \/ Hash(p) \/ Emit(p)
         \/ Edit(p) \/ Check(p) \/ Land(p) \/ Append(p) \/ Die(p)

Spec == Init /\ [][Next]_vars

-----------------------------------------------------------------------------
(* Properties.                                                             *)

RecType == [known : BOOLEAN, starved : BOOLEAN, armed : BOOLEAN,
            iid : Nat, gen : 0..MaxGen]
CircuitType == [level : {"normal", "dense", "bypass"}, episode : -1..MaxGen,
                positives : Nat, moved : BOOLEAN]
WinType == [iid : Nat \ {0}, gen : 0..MaxGen, at : Nat]
BlobType == [recs : [Sigs -> RecType], densify : SUBSET Sigs, seq : Nat,
             commands : Nat, open : SUBSET WinType,
             circuits : [Sigs -> CircuitType]]

\* The file is well formed, and the lock is held by who is in its section.
TypeOK ==
    /\ blob \in BlobType /\ dir \in BOOLEAN
    /\ pc \in [Procs -> {"idle", "wait", "read", "hash", "append"}]
    /\ job \in [Procs -> [op : Operations \cup {"none"}, sig : Sigs, gen : 0..MaxGen]]
    /\ mem \in [Procs -> BlobType]
    /\ lines \in [Procs -> [won : SUBSET Nat, fresh : BOOLEAN]]
    /\ holder \in {p \in Procs : pc[p] = "read"} \cup {NoProc}
    /\ gen \in 1..MaxGen /\ ops \in 0..MaxOps /\ deaths \in 0..MaxDeaths

\* The hook and ctx run see the same re-run and count it once: a signature is
\* scored starved no oftener than it was intervened for, and a hypothesis
\* window gets one outcome, whichever of landing, re-run, narrowing, a new
\* emission and expiry come at once.
ScoredOnce ==
    /\ \A s \in Sigs : starved[s] =< cycles[s]
    /\ \A i \in DOMAIN outcomes : outcomes[i] =< 1

\* No process writes over what another recorded: commands and cycles are all
\* in the file, and dense rendering once latched stays latched.
NothingLost ==
    /\ blob.commands = counted
    /\ latched \subseteq blob.densify
    /\ \A s \in Sigs : cycles[s] > 0 => blob.recs[s].known
=============================================================================
