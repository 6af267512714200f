-------------------------------- MODULE Jobs --------------------------------
(***************************************************************************)
(* One background job of src/ctx/jobs.py, and every process that touches   *)
(* its directory: the launcher that starts a detached supervisor, the      *)
(* supervisor, the command it runs, and the "ctx job" processes that wait  *)
(* for it, kill it, take it over when it is an orphan, and finalize it.    *)
(*                                                                         *)
(* Nothing is locked.  meta.json has one writer at a time by protocol      *)
(* only, and every file is written by a rename, so each read and each      *)
(* write is a step.                                                        *)
(***************************************************************************)
EXTENDS Integers, FiniteSets

CONSTANTS Clients,              \* "ctx job" processes
          Killers,              \* those of them called with --kill
          None,
          MaxEdits,             \* changes of the worktree the model makes
          MaxDeaths             \* supervisors and launchers that die

Fates == {"exit", "SIGKILL"}

ASSUME JobsAssumption ==
    /\ None \notin Fates
    /\ Killers \subseteq Clients
    /\ MaxEdits \in Nat /\ MaxDeaths \in Nat

VARIABLES meta,                 \* meta.json
          pidFile,              \* launcher.pid is there
          marker,               \* kill is there
          digest, final,        \* digest, finalized.json: whose manifest
          launcher, sup,        \* where these two are
          late,                 \* the supervisor's timed_out
          child, fate,          \* the command, and how it really ended
          pc, seen, man,        \* clients: where, the meta.json read, manifest
          tree,                 \* version of the worktree
          deaths,               \* history: supervisors and launchers that died
          outside               \* history: somebody else killed the command

files == <<meta, pidFile, marker, digest, final>>
starters == <<launcher, sup, late>>
clients == <<pc, seen, man>>
vars == <<files, starters, child, fate, clients, tree, deaths, outside>>

Meta(state, end, over, orphaned) ==
    [state |-> state, end |-> end, timedOut |-> over, orphaned |-> orphaned]
Launching == Meta("launching", None, FALSE, FALSE)

Init ==
    /\ meta = Launching
    /\ pidFile = FALSE /\ marker = FALSE /\ digest = None /\ final = None
    /\ launcher = "forking" /\ sup = "none" /\ late = FALSE
    /\ child = "none" /\ fate = None
    /\ pc = [c \in Clients |-> "idle"]
    /\ seen = [c \in Clients |-> Launching]
    /\ man = [c \in Clients |-> None]
    /\ tree = 0 /\ deaths = 0 /\ outside = FALSE

-----------------------------------------------------------------------------
(* start_job, after meta.json says "launching".                            *)

Fork ==
    /\ launcher = "forking"
    /\ launcher' = "recording" /\ sup' = "started"
    /\ UNCHANGED <<files, late, child, fate, clients, tree, deaths, outside>>

RecordPid ==
    /\ launcher = "recording"
    /\ pidFile' = TRUE /\ launcher' = "recorded"
    /\ UNCHANGED <<meta, marker, digest, final, sup, late, child, fate, clients, tree,
                   deaths, outside>>

\* The launcher goes; a dead supervisor of its is reaped.
LauncherExits ==
    /\ launcher = "recorded"
    /\ launcher' = "gone"
    /\ UNCHANGED <<files, sup, late, child, fate, clients, tree, deaths, outside>>

LauncherCrashes ==
    /\ deaths < MaxDeaths
    /\ launcher \in {"forking", "recording"}
    /\ launcher' = "gone" /\ deaths' = deaths + 1
    /\ UNCHANGED <<files, sup, late, child, fate, clients, tree, outside>>

-----------------------------------------------------------------------------
(* supervise_main                                                          *)

SupAlive == sup \in {"started", "spawned", "waiting", "reaped"}

Spawn ==
    /\ sup = "started"
    /\ sup' = "spawned" /\ child' = "alive"
    /\ UNCHANGED <<files, launcher, late, fate, clients, tree, deaths, outside>>

\* Popen raises: there is no such command.
SpawnFails ==
    /\ sup = "started"
    /\ meta' = Meta("failed", None, FALSE, FALSE) /\ sup' = "gone"
    /\ UNCHANGED <<pidFile, marker, digest, final, launcher, late, child, fate,
                   clients, tree, deaths, outside>>

Run ==
    /\ sup = "spawned"
    /\ meta' = Meta("running", None, FALSE, FALSE) /\ sup' = "waiting"
    /\ UNCHANGED <<pidFile, marker, digest, final, launcher, late, child, fate,
                   clients, tree, deaths, outside>>

\* The command ends by itself; its pid lasts until somebody waits for it.
ChildExits ==
    /\ child = "alive"
    /\ child' = "ended" /\ fate' = "exit"
    /\ UNCHANGED <<files, starters, clients, tree, deaths, outside>>

\* wait_or_kill: the command has ended, or its time is over and it is killed.
Reap ==
    /\ sup = "waiting"
    /\ \/ child = "ended" /\ late' = FALSE /\ fate' = fate
       \/ child = "ended" /\ late' = TRUE /\ fate' = fate
       \/ child = "alive" /\ late' = TRUE /\ fate' = "SIGKILL"
    /\ child' = "reaped" /\ sup' = "reaped"
    /\ UNCHANGED <<files, launcher, clients, tree, deaths, outside>>

Report ==
    /\ sup = "reaped"
    /\ meta' = Meta("done", fate, late, FALSE) /\ sup' = "gone"
    /\ UNCHANGED <<pidFile, marker, digest, final, launcher, late, child, fate,
                   clients, tree, deaths, outside>>

SupervisorDies ==
    /\ SupAlive /\ deaths < MaxDeaths
    /\ sup' = "gone" /\ deaths' = deaths + 1
    /\ UNCHANGED <<files, launcher, late, child, fate, clients, tree, outside>>

\* Somebody else kills the command: the user, the kernel out of memory.
OutsiderKills ==
    /\ child = "alive"
    /\ child' = "ended" /\ fate' = "SIGKILL" /\ outside' = TRUE
    /\ UNCHANGED <<files, starters, clients, tree, deaths>>

-----------------------------------------------------------------------------
(* _pid_alive: a process nobody waited for yet still has its pid.          *)

SupPidAlive == SupAlive \/ (sup = "gone" /\ launcher # "gone")
ChildPidAlive == child = "alive" \/ (child = "ended" /\ SupAlive)

Goto(c, place) == pc' = [pc EXCEPT ![c] = place]
ClientUnchanged == UNCHANGED <<starters, child, fate, tree, deaths, outside>>

\* wait_for_done, or the end of kill_job: one round of the loop.
Look(c) ==
    /\ pc[c] = "look"
    /\ seen' = [seen EXCEPT ![c] = meta]
    /\ Goto(c, IF final # None \/ meta.state = "done" THEN "finalize"
               ELSE IF meta.state = "failed" THEN "over"
               ELSE "orphan")
    /\ UNCHANGED <<files, man>> /\ ClientUnchanged

\* Mutant: whoever is still launching is left alone.
OrphanedOnceRunning(c) ==
    seen[c].state = "running" /\ ~SupPidAlive /\ ~ChildPidAlive

\* _adopt_if_orphaned: are they dead?
Orphaned(c) ==
    \/ seen[c].state = "launching" /\ pidFile /\ ~SupPidAlive
    \/ seen[c].state = "running" /\ ~SupPidAlive /\ ~ChildPidAlive

Probe(c) ==
    /\ pc[c] = "orphan"
    /\ Goto(c, IF Orphaned(c) THEN "reread" ELSE "look")
    /\ UNCHANGED <<files, seen, man>> /\ ClientUnchanged

\* Mutant: what was read before the probe will do.
NotReread(c) ==
    /\ pc[c] = "reread"
    /\ Goto(c, "adopt")
    /\ UNCHANGED <<files, seen, man>> /\ ClientUnchanged

\* ... and meta.json still says so, the supervisor being dead.
Reread(c) ==
    /\ pc[c] = "reread"
    /\ Goto(c, IF meta.state = seen[c].state THEN "adopt" ELSE "look")
    /\ UNCHANGED <<files, seen, man>> /\ ClientUnchanged

Adopt(c) ==
    /\ pc[c] = "adopt"
    /\ meta' = IF seen[c].state = "launching" THEN Meta("failed", None, FALSE, TRUE)
               ELSE Meta("done", "SIGKILL", TRUE, TRUE)
    /\ Goto(c, "look")
    /\ UNCHANGED <<pidFile, marker, digest, final, seen, man>> /\ ClientUnchanged

-----------------------------------------------------------------------------
(* kill_job                                                                *)

Begin(c) ==
    /\ pc[c] = "idle"
    /\ Goto(c, IF c \notin Killers THEN "look"
               ELSE IF final # None THEN "finalize" ELSE "mark")
    /\ UNCHANGED <<files, seen, man>> /\ ClientUnchanged

\* Mutant: nobody is told of the intent.
NoMark(c) ==
    /\ pc[c] = "mark"
    /\ Goto(c, "seek")
    /\ UNCHANGED <<files, seen, man>> /\ ClientUnchanged

\* The marker, before the signal.
Mark(c) ==
    /\ pc[c] = "mark"
    /\ marker' = TRUE /\ Goto(c, "seek")
    /\ UNCHANGED <<meta, pidFile, digest, final, seen, man>> /\ ClientUnchanged

\* Waiting for the pid to appear.
Seek(c) ==
    /\ pc[c] = "seek" /\ meta.state # "launching"
    /\ seen' = [seen EXCEPT ![c] = meta]
    /\ Goto(c, IF meta.state = "running" THEN "signal" ELSE "finalize")
    /\ UNCHANGED <<files, man>> /\ ClientUnchanged

\* killpg, if there is anybody left.
Strike(c) ==
    /\ pc[c] = "signal"
    /\ child' = IF child = "alive" THEN "ended" ELSE child
    /\ fate' = IF child = "alive" THEN "SIGKILL" ELSE fate
    /\ Goto(c, "look")
    /\ UNCHANGED <<files, starters, seen, man, tree, deaths, outside>>

\* A deadline passes while the state has not settled.
GiveUp(c) ==
    /\ pc[c] \in {"look", "seek"} /\ meta.state \in {"launching", "running"}
    /\ Goto(c, "over")
    /\ UNCHANGED <<files, seen, man>> /\ ClientUnchanged

-----------------------------------------------------------------------------
(* finalize_job                                                            *)

\* Finalized already, or failed, or done and to be finalized here.
Finalize(c) ==
    /\ pc[c] = "finalize"
    /\ seen' = [seen EXCEPT ![c] = meta]
    /\ Goto(c, IF final = None /\ meta.state = "done" THEN "capture" ELSE "over")
    /\ UNCHANGED <<files, man>> /\ ClientUnchanged

\* Mutant: a marker is enough for a timeout.
CaptureAnyKill(c) ==
    /\ pc[c] = "capture"
    /\ man' = [man EXCEPT ![c] = [end |-> seen[c].end, tree |-> tree,
                                  timedOut |-> seen[c].timedOut \/ marker]]
    /\ Goto(c, "digest")
    /\ UNCHANGED <<files, seen>> /\ ClientUnchanged

\* The manifest: how the command ended, whether that was our kill, and the
\* state of the worktree now.
Capture(c) ==
    /\ pc[c] = "capture"
    /\ man' = [man EXCEPT ![c] =
                 [end |-> seen[c].end, tree |-> tree,
                  timedOut |-> seen[c].timedOut \/ (marker /\ seen[c].end = "SIGKILL")]]
    /\ Goto(c, "digest")
    /\ UNCHANGED <<files, seen>> /\ ClientUnchanged

WriteDigest(c) ==
    /\ pc[c] = "digest"
    /\ digest' = man[c] /\ Goto(c, "final")
    /\ UNCHANGED <<meta, pidFile, marker, final, seen, man>> /\ ClientUnchanged

WriteFinal(c) ==
    /\ pc[c] = "final"
    /\ final' = man[c] /\ Goto(c, "over")
    /\ UNCHANGED <<meta, pidFile, marker, digest, seen, man>> /\ ClientUnchanged

\* Somebody works on in the repository.
Edit ==
    /\ tree < MaxEdits
    /\ tree' = tree + 1
    /\ UNCHANGED <<files, starters, child, fate, clients, deaths, outside>>

-----------------------------------------------------------------------------
Launch == Fork \/ RecordPid \/ LauncherExits
Supervise == Spawn \/ SpawnFails \/ Run \/ Reap \/ Report
Wait(c) ==
    \/ Look(c) \/ Probe(c) \/ Reread(c) \/ Adopt(c)
    \/ Mark(c) \/ Seek(c) \/ Strike(c)
    \/ Finalize(c) \/ Capture(c) \/ WriteDigest(c) \/ WriteFinal(c)

Next ==
    \/ Launch \/ LauncherCrashes \/ Supervise \/ SupervisorDies
    \/ ChildExits \/ OutsiderKills \/ Edit
    \/ \E c \in Clients : Begin(c) \/ Wait(c) \/ GiveUp(c)

Spec == Init /\ [][Next]_vars

\* Every process that is alive is scheduled, and the command ends one day.
FairSpec ==
    /\ Spec
    /\ WF_vars(Launch) /\ WF_vars(Supervise) /\ WF_vars(ChildExits)
    /\ \A c \in Clients : WF_vars(Wait(c))

-----------------------------------------------------------------------------
Manifests == [end : Fates, tree : 0..MaxEdits, timedOut : BOOLEAN]

Metas == [state : {"launching", "running", "done", "failed"},
          end : Fates \cup {None}, timedOut : BOOLEAN, orphaned : BOOLEAN]
Places == {"idle", "look", "orphan", "reread", "adopt", "mark", "seek", "signal",
           "finalize", "capture", "digest", "final", "over"}

TypeOK ==
    /\ meta \in Metas /\ seen \in [Clients -> Metas]
    /\ pidFile \in BOOLEAN /\ marker \in BOOLEAN /\ late \in BOOLEAN
    /\ digest \in Manifests \cup {None} /\ final \in Manifests \cup {None}
    /\ launcher \in {"forking", "recording", "recorded", "gone"}
    /\ sup \in {"none", "started", "spawned", "waiting", "reaped", "gone"}
    /\ child \in {"none", "alive", "ended", "reaped"}
    /\ fate \in Fates \cup {None} /\ (fate = None <=> child \in {"none", "alive"})
    /\ man \in [Clients -> Manifests \cup {None}]
    /\ tree \in 0..MaxEdits /\ deaths \in 0..MaxDeaths /\ outside \in BOOLEAN
    /\ pc \in [Clients -> Places]

\* What the job's state says once it is over never changes: nobody who takes
\* an orphan over writes on top of what its supervisor wrote last ("a
\* supervisor writing 'done' concurrently wins", jobs.py:143).
LastWordStays ==
    [][meta.state \in {"done", "failed"} => meta' = meta]_vars

\* "Two concurrent finalizers converge on byte-identical results"
\* (jobs.py:34-36): the digest a job has belongs to the manifest it has, as long
\* as the worktree, which is in it, stays as it is, and only jobs are killed by
\* those who say so first.
FinalizersConverge == final # None /\ tree = 0 /\ ~outside => digest = final

\* Under a supervisor that lives a run is told the way it ended: a timeout when
\* its time was over or when it was killed, and "kill racing a clean exit honors
\* the real exit status rather than fabricating a timeout" (jobs.py:406-409).
FateTold ==
    final # None /\ deaths = 0 /\ ~outside =>
        /\ final.end = fate
        /\ final.timedOut <=> late \/ fate = "SIGKILL"

\* Whoever waits for a job is answered, its supervisor dead or alive: "without
\* this, ctx job <id> --wait polled forever" (jobs.py:145-146); unless its
\* launcher died before it had recorded the pid to look at.
WaitEnds ==
    \A c \in Clients :
        pc[c] = "look" ~> pc[c] = "over" \/ (launcher = "gone" /\ ~pidFile)
=============================================================================
