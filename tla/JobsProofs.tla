----------------------------- MODULE JobsProofs -----------------------------
(***************************************************************************)
(* What holds of a background job however many processes come to it,       *)
(* whoever dies and whenever: nobody takes back the last word on how it    *)
(* ended, finalizers agree, and the result is the truth.  There is no lock *)
(* that this could rest on, only the order in which everybody looks at     *)
(* meta.json, at the markers and at the pids.                              *)
(***************************************************************************)
EXTENDS Jobs, TLAPS

\* While it lives the supervisor alone decides what meta.json says.
SupervisorInv ==
    /\ sup = "none" \/ launcher # "forking"
    /\ pidFile => sup # "none"
    /\ launcher \in {"recording", "recorded"} => sup # "none"
    /\ sup \in {"none", "started"} => child = "none"
    /\ sup \in {"none", "started", "spawned"} => meta.state = "launching"
    /\ sup \in {"waiting", "reaped"} => meta.state = "running"
    /\ sup = "reaped" => fate \in Fates

\* Who has read "running" came when there was a supervisor; a job that is done
\* ended somehow, and so it is in what a finalizer makes of it.
ClientInv ==
    /\ meta.state = "done" => meta.end \in Fates
    /\ \A c \in Clients :
          /\ seen[c].state = "running" => sup # "none"
          /\ pc[c] = "capture" => seen[c].end \in Fates
          /\ pc[c] \in {"digest", "final"} => man[c] \in Manifests

\* What an adopter writes, after having read m.
Adopted(m) == IF m.state = "launching" THEN Meta("failed", None, FALSE, TRUE)
              ELSE Meta("done", "SIGKILL", TRUE, TRUE)

\* An adopter has seen the supervisor dead, and after that nothing but an
\* adoption like its own happened to what it has read.
AdopterInv ==
    \A c \in Clients :
        /\ pc[c] \in {"orphan", "reread", "adopt"} =>
              seen[c].state \in {"launching", "running"}
        /\ pc[c] \in {"reread", "adopt"} => sup = "gone"
        /\ pc[c] = "adopt" => meta.state = seen[c].state \/ meta = Adopted(seen[c])

Inv == TypeOK /\ SupervisorInv /\ ClientInv /\ AdopterInv

LEMMA InitInv == Init => Inv
  <1> SUFFICES ASSUME Init PROVE Inv
    OBVIOUS
  <1>1. TypeOK
    <2>1. Launching \in Metas
      BY DEF Launching, Meta, Metas
    <2>2. meta \in Metas /\ seen \in [Clients -> Metas]
      BY <2>1 DEF Init
    <2>3. pc \in [Clients -> Places] /\ man \in [Clients -> Manifests \cup {None}]
      BY DEF Init, Places
    <2>4. tree \in 0..MaxEdits /\ deaths \in 0..MaxDeaths
      BY JobsAssumption DEF Init
    <2>5. outside \in BOOLEAN
      BY DEF Init
    <2> QED BY <2>2, <2>3, <2>4, <2>5 DEF Init, TypeOK
  <1>2. SupervisorInv
    BY DEF Init, SupervisorInv, Launching, Meta
  <1>3. ClientInv /\ AdopterInv
    BY DEF Init, ClientInv, AdopterInv, Launching, Meta
  <1> QED BY <1>1, <1>2, <1>3 DEF Inv

LEMMA NextInv == Inv /\ [Next]_vars => Inv'
  <1> SUFFICES ASSUME Inv, [Next]_vars PROVE Inv'
    OBVIOUS
  <1> USE JobsAssumption DEF Inv, TypeOK, Metas, Places, Fates, Manifests
  <1>1. CASE Fork
    BY <1>1 DEF Fork, files, clients, SupervisorInv, ClientInv, AdopterInv
  <1>2. CASE RecordPid
    BY <1>2 DEF RecordPid, clients, SupervisorInv, ClientInv, AdopterInv
  <1>3. CASE LauncherExits
    BY <1>3 DEF LauncherExits, files, clients, SupervisorInv, ClientInv, AdopterInv
  <1>4. CASE LauncherCrashes
    BY <1>4 DEF LauncherCrashes, files, clients, SupervisorInv, ClientInv, AdopterInv
  <1>5. CASE Spawn
    BY <1>5 DEF Spawn, files, clients, SupervisorInv, ClientInv, AdopterInv
  <1>6. CASE SpawnFails
    BY <1>6 DEF SpawnFails, Meta, clients, SupervisorInv, ClientInv, AdopterInv
  <1>7. CASE Run
    BY <1>7 DEF Run, Meta, clients, SupervisorInv, ClientInv, AdopterInv
  <1>8. CASE Reap
    <2>1. fate' \in Fates /\ late' \in BOOLEAN
      BY <1>8 DEF Reap
    <2>2. child' = "reaped" /\ sup' = "reaped"
      BY <1>8 DEF Reap
    <2>3. UNCHANGED <<meta, pidFile, marker, digest, final, launcher, pc, seen, man,
                      tree, deaths, outside>>
      BY <1>8 DEF Reap, files, clients
    <2>4. meta.state = "running"
      BY <1>8 DEF Reap, SupervisorInv
    <2>5. TypeOK'
      BY <2>1, <2>2, <2>3
    <2>6. SupervisorInv'
      BY <1>8, <2>1, <2>2, <2>3, <2>4 DEF Reap, SupervisorInv
    <2>7. ClientInv' /\ AdopterInv'
      BY <1>8, <2>2, <2>3 DEF Reap, ClientInv, AdopterInv, Adopted
    <2> QED BY <2>5, <2>6, <2>7
  <1>9. CASE Report
    BY <1>9 DEF Report, Meta, clients, SupervisorInv, ClientInv, AdopterInv
  <1>10. CASE SupervisorDies
    BY <1>10 DEF SupervisorDies, SupAlive, files, clients, SupervisorInv, ClientInv,
       AdopterInv
  <1>11. CASE ChildExits
    BY <1>11 DEF ChildExits, files, starters, clients, SupervisorInv, ClientInv,
       AdopterInv
  <1>12. CASE OutsiderKills
    BY <1>12 DEF OutsiderKills, files, starters, clients, SupervisorInv, ClientInv,
       AdopterInv
  <1>13. CASE Edit
    BY <1>13 DEF Edit, files, starters, clients, SupervisorInv, ClientInv, AdopterInv
  <1>14. ASSUME NEW c \in Clients, Begin(c) \/ Wait(c) \/ GiveUp(c) PROVE Inv'
    <2> USE <1>14 DEF ClientUnchanged, Goto, starters, files
    <2>1. CASE Begin(c)
      BY <2>1 DEF Begin, SupervisorInv, ClientInv, AdopterInv
    <2>2. CASE Look(c)
      BY <2>2 DEF Look, SupervisorInv, ClientInv, AdopterInv
    <2>3. CASE Probe(c)
      BY <2>3 DEF Probe, Orphaned, SupPidAlive, SupAlive, SupervisorInv, ClientInv,
         AdopterInv
    <2>4. CASE Reread(c)
      BY <2>4 DEF Reread, SupervisorInv, ClientInv, AdopterInv
    <2>5. CASE Adopt(c)
      <3>1. TypeOK' /\ SupervisorInv' /\ ClientInv'
        BY <2>5 DEF Adopt, Meta, SupervisorInv, ClientInv, AdopterInv
      <3>2. AdopterInv'
        BY <2>5 DEF Adopt, Adopted, Meta, AdopterInv
      <3> QED BY <3>1, <3>2
    <2>6. CASE Mark(c)
      BY <2>6 DEF Mark, SupervisorInv, ClientInv, AdopterInv
    <2>7. CASE Seek(c)
      BY <2>7 DEF Seek, SupervisorInv, ClientInv, AdopterInv
    <2>8. CASE Strike(c)
      BY <2>8 DEF Strike, SupervisorInv, ClientInv, AdopterInv
    <2>9. CASE Finalize(c)
      BY <2>9 DEF Finalize, SupervisorInv, ClientInv, AdopterInv
    <2>10. CASE Capture(c)
      BY <2>10 DEF Capture, SupervisorInv, ClientInv, AdopterInv
    <2>11. CASE WriteDigest(c)
      BY <2>11 DEF WriteDigest, SupervisorInv, ClientInv, AdopterInv
    <2>12. CASE WriteFinal(c)
      BY <2>12 DEF WriteFinal, SupervisorInv, ClientInv, AdopterInv
    <2>13. CASE GiveUp(c)
      BY <2>13 DEF GiveUp, SupervisorInv, ClientInv, AdopterInv
    <2> QED
      BY <2>1, <2>2, <2>3, <2>4, <2>5, <2>6, <2>7, <2>8, <2>9, <2>10, <2>11, <2>12,
         <2>13 DEF Wait
  <1>15. CASE UNCHANGED vars
    BY <1>15 DEF vars, files, starters, clients, SupervisorInv, ClientInv, AdopterInv
  <1> QED
    BY <1>1, <1>2, <1>3, <1>4, <1>5, <1>6, <1>7, <1>8, <1>9, <1>10, <1>11, <1>12,
       <1>13, <1>14, <1>15 DEF Next, Launch, Supervise

\* All of it is so in every state the job reaches.
THEOREM InvariantHolds == Spec => []Inv
  BY InitInv, NextInv, PTL DEF Spec

\* The variables of the job hold what they are said to hold.
THEOREM TypeCorrect == Spec => []TypeOK
  BY InvariantHolds, PTL DEF Inv

\* A job that is over is told as it was told first: an adopter only ever
\* writes on what a dead supervisor left undecided, or what another adopter
\* wrote already ("gated on a re-read", jobs.py:143).
LEMMA LastWordStep ==
    Inv /\ [Next]_vars => (meta.state \in {"done", "failed"} => meta' = meta)
  <1> SUFFICES ASSUME Inv, [Next]_vars, meta.state \in {"done", "failed"}
               PROVE  meta' = meta
    OBVIOUS
  <1>1. sup \in {"waiting", "reaped"} => meta.state = "running"
    BY DEF Inv, SupervisorInv
  <1>2. sup \in {"none", "started", "spawned"} => meta.state = "launching"
    BY DEF Inv, SupervisorInv
  <1>3. CASE Supervise
    BY <1>1, <1>2, <1>3 DEF Supervise, Spawn, SpawnFails, Run, Reap, Report, files
  <1>4. ASSUME NEW c \in Clients, Adopt(c) PROVE meta' = meta
    <2>1. /\ seen[c].state \in {"launching", "running"}
          /\ meta = Adopted(seen[c])
      BY <1>4 DEF Inv, AdopterInv, Adopt
    <2> QED BY <1>4, <2>1 DEF Adopt, Adopted
  <1>5. ASSUME NEW c \in Clients, Begin(c) \/ Wait(c) \/ GiveUp(c) PROVE meta' = meta
    BY <1>4, <1>5 DEF Begin, Wait, GiveUp, Look, Probe, Reread, Mark, Seek, Strike,
       Finalize, Capture, WriteDigest, WriteFinal, files
  <1>6. CASE Launch \/ LauncherCrashes \/ SupervisorDies \/ ChildExits \/ OutsiderKills
             \/ Edit \/ UNCHANGED vars
    BY <1>6 DEF Launch, Fork, RecordPid, LauncherExits, LauncherCrashes, SupervisorDies,
       ChildExits, OutsiderKills, Edit, files, vars
  <1> QED BY <1>3, <1>5, <1>6 DEF Next

THEOREM LastWord == Spec => LastWordStays
  <1>1. Inv /\ [Next]_vars => [meta.state \in {"done", "failed"} => meta' = meta]_vars
    BY LastWordStep
  <1> QED BY <1>1, InvariantHolds, PTL DEF Spec, LastWordStays

-----------------------------------------------------------------------------
(* What the manifest of the job says.                                      *)

\* A job killed by one of those who say so first has the marker there when it
\* ends: it is written before the signal and never taken away.
KillInv ==
    /\ sup \in {"none", "started", "spawned", "waiting"} => ~late
    /\ \A c \in Clients : pc[c] \in {"seek", "signal"} => marker
    /\ fate = "SIGKILL" /\ ~outside => marker \/ late

\* The supervisor that reports a run to be done has waited for the command, so
\* what it reports stays true; an adopter can only say that it was killed.
ReportInv ==
    /\ sup = "reaped" => child = "reaped"
    /\ meta.state = "done" =>
          \/ meta.orphaned /\ meta.end = "SIGKILL" /\ meta.timedOut
          \/ /\ sup = "gone" /\ child = "reaped"
             /\ ~meta.orphaned /\ meta.end = fate /\ meta.timedOut = late

\* While nobody died there are no orphans.
LivingInv ==
    deaths = 0 =>
        /\ sup = "gone" => meta.state \in {"done", "failed"}
        /\ ~meta.orphaned
        /\ \A c \in Clients : pc[c] # "adopt"

\* What a manifest says of the end of the run follows from meta.json alone,
\* whenever it was captured and whether or not the marker came later.
AsReported(m) ==
    /\ m \in Manifests
    /\ m.end = meta.end
    /\ m.tree <= tree
    /\ ~outside => (m.timedOut <=> meta.timedOut \/ meta.end = "SIGKILL")

\* A finalizer works on the last word on the job.
FinalizerInv ==
    /\ \A c \in Clients :
          /\ pc[c] \in {"capture", "digest", "final"} =>
                meta.state = "done" /\ seen[c] = meta
          /\ pc[c] \in {"digest", "final"} => AsReported(man[c])
          /\ pc[c] = "final" => AsReported(digest)
    /\ digest # None => meta.state = "done" /\ AsReported(digest)
    /\ final # None => meta.state = "done" /\ AsReported(digest) /\ AsReported(final)

ToldInv == KillInv /\ ReportInv /\ LivingInv /\ FinalizerInv

LEMMA InitTold == Init => ToldInv
  BY JobsAssumption DEF Init, Launching, Meta, ToldInv, KillInv, ReportInv, LivingInv,
     FinalizerInv, Fates

\* The steps of a client, and what none of them touches.
Client(c) == Begin(c) \/ Wait(c) \/ GiveUp(c)

LEMMA ClientFrame ==
    ASSUME Inv, NEW c \in Clients, Client(c)
    PROVE  /\ UNCHANGED <<sup, late, tree, deaths, outside>>
           /\ marker' = marker \/ marker' = TRUE
           /\ \A d \in Clients \ {c} :
                 pc'[d] = pc[d] /\ seen'[d] = seen[d] /\ man'[d] = man[d]
  BY DEF Inv, TypeOK, Client, Begin, Wait, GiveUp, Look, Probe, Reread, Adopt, Mark, Seek,
     Strike, Finalize, Capture, WriteDigest, WriteFinal, Goto, ClientUnchanged, files,
     starters

LEMMA KillStep == Inv /\ KillInv /\ [Next]_vars => KillInv'
  <1> SUFFICES ASSUME Inv, KillInv, [Next]_vars PROVE KillInv'
    OBVIOUS
  <1> USE DEF KillInv, Inv, TypeOK
  <1>1. CASE Launch \/ LauncherCrashes \/ SupervisorDies \/ Edit \/ UNCHANGED vars
    BY <1>1 DEF Launch, Fork, RecordPid, LauncherExits, LauncherCrashes, SupervisorDies,
       Edit, SupervisorInv, files, starters, clients, vars
  <1>2. CASE Supervise
    <2>1. CASE Reap
      <3>1. /\ fate = "SIGKILL" /\ ~outside => marker
            /\ UNCHANGED <<marker, pc, outside>> /\ sup' = "reaped"
        BY <2>1 DEF Reap, files, clients
      <3>2. late' \/ fate' = fate
        BY <2>1 DEF Reap
      <3> QED BY <3>1, <3>2
    <2>2. CASE Spawn
      BY <2>2 DEF Spawn, files, clients
    <2>3. CASE SpawnFails \/ Run \/ Report
      <3>1. UNCHANGED <<marker, late, fate, pc, outside>>
        BY <2>3 DEF SpawnFails, Run, Report, clients
      <3>2. sup' \in {"waiting", "gone"} /\ (sup' = "waiting" => sup = "spawned")
        BY <2>3 DEF SpawnFails, Run, Report
      <3> QED BY <3>1, <3>2
    <2> QED BY <1>2, <2>1, <2>2, <2>3 DEF Supervise
  <1>3. CASE ChildExits \/ OutsiderKills
    BY <1>3 DEF ChildExits, OutsiderKills, files, starters, clients
  <1>4. ASSUME NEW c \in Clients, Client(c) PROVE KillInv'
    <2>1. /\ UNCHANGED <<sup, late, outside>>
          /\ marker => marker'
          /\ \A d \in Clients \ {c} : pc'[d] = pc[d]
      BY <1>4, ClientFrame
    <2>2. pc'[c] \in {"seek", "signal"} => marker'
      BY <1>4 DEF Client, Begin, Wait, GiveUp, Look, Probe, Reread, Adopt, Mark, Seek,
         Strike, Finalize, Capture, WriteDigest, WriteFinal, Goto, files
    <2>3. fate' = "SIGKILL" /\ ~outside' => marker' \/ late'
      <3>1. CASE Strike(c)
        BY <2>1, <3>1 DEF Strike
      <3>2. CASE ~Strike(c)
        <4>1. fate' = fate
          BY <1>4, <3>2 DEF Client, Begin, Wait, GiveUp, Look, Probe, Reread, Adopt, Mark,
             Seek, Finalize, Capture, WriteDigest, WriteFinal, ClientUnchanged
        <4> QED BY <2>1, <4>1
      <3> QED BY <3>1, <3>2
    <2> QED BY <2>1, <2>2, <2>3
  <1> QED BY <1>1, <1>2, <1>3, <1>4 DEF Next, Client

LEMMA ReportStep == Inv /\ ReportInv /\ [Next]_vars => ReportInv'
  <1> SUFFICES ASSUME Inv, ReportInv, [Next]_vars PROVE ReportInv'
    OBVIOUS
  <1> USE DEF ReportInv, Inv
  <1>1. CASE Launch \/ LauncherCrashes \/ SupervisorDies \/ Edit \/ UNCHANGED vars
    BY <1>1 DEF Launch, Fork, RecordPid, LauncherExits, LauncherCrashes, SupervisorDies,
       SupAlive, Edit, SupervisorInv, files, starters, clients, vars
  <1>2. CASE Supervise
    BY <1>2 DEF Supervise, Spawn, SpawnFails, Run, Reap, Report, Meta, SupervisorInv,
       files, clients
  <1>3. CASE ChildExits \/ OutsiderKills
    BY <1>3 DEF ChildExits, OutsiderKills, files, starters, clients
  <1>4. ASSUME NEW c \in Clients, Client(c) PROVE ReportInv'
    <2>1. CASE Adopt(c)
      BY <2>1 DEF Adopt, Meta, ClientUnchanged, starters
    <2>2. CASE ~Adopt(c)
      BY <1>4, <2>2 DEF Client, Begin, Wait, GiveUp, Look, Probe, Reread, Mark, Seek,
         Strike, Finalize, Capture, WriteDigest, WriteFinal, Goto, ClientUnchanged, files,
         starters
    <2> QED BY <2>1, <2>2
  <1> QED BY <1>1, <1>2, <1>3, <1>4 DEF Next, Client

LEMMA LivingStep == Inv /\ LivingInv /\ [Next]_vars => LivingInv'
  <1> SUFFICES ASSUME Inv, LivingInv, [Next]_vars, deaths' = 0 PROVE LivingInv'
    BY DEF LivingInv
  <1> USE DEF LivingInv, Inv, TypeOK
  <1>1. CASE Launch \/ Edit \/ UNCHANGED vars
    BY <1>1 DEF Launch, Fork, RecordPid, LauncherExits, Edit, files, starters, clients, vars
  <1>2. CASE LauncherCrashes \/ SupervisorDies
    BY <1>2 DEF LauncherCrashes, SupervisorDies
  <1>3. CASE Supervise
    BY <1>3 DEF Supervise, Spawn, SpawnFails, Run, Reap, Report, Meta, files, clients
  <1>4. CASE ChildExits \/ OutsiderKills
    BY <1>4 DEF ChildExits, OutsiderKills, files, starters, clients
  <1>5. ASSUME NEW c \in Clients, Client(c) PROVE LivingInv'
    <2>1. /\ UNCHANGED <<sup, deaths>>
          /\ \A d \in Clients \ {c} : pc'[d] = pc[d]
      BY <1>5, ClientFrame
    <2>2. meta' = meta
      BY <1>5, <2>1 DEF Client, Begin, Wait, GiveUp, Look, Probe, Reread, Adopt, Mark, Seek,
         Strike, Finalize, Capture, WriteDigest, WriteFinal, files
    <2>3. pc'[c] # "adopt"
      <3>1. CASE Reread(c)
        BY <2>1, <3>1 DEF Reread, Goto, AdopterInv
      <3>2. CASE ~Reread(c)
        BY <1>5, <2>1, <3>2 DEF Client, Begin, Wait, GiveUp, Look, Probe, Adopt, Mark,
           Seek, Strike, Finalize, Capture, WriteDigest, WriteFinal, Goto
      <3> QED BY <3>1, <3>2
    <2> QED BY <2>1, <2>2, <2>3
  <1> QED BY <1>1, <1>2, <1>3, <1>4, <1>5 DEF Next, Client

\* What the manifests are compared with moves in one direction only.
LEMMA Drift ==
    ASSUME Inv, [Next]_vars
    PROVE  tree \in Int /\ tree' \in Int /\ tree <= tree' /\ (outside => outside')
  <1>1. tree \in Int
    BY JobsAssumption DEF Inv, TypeOK
  <1>2. CASE Edit
    BY <1>1, <1>2 DEF Edit
  <1>3. CASE OutsiderKills
    BY <1>1, <1>3 DEF OutsiderKills
  <1>4. CASE Launch \/ LauncherCrashes \/ SupervisorDies \/ ChildExits \/ UNCHANGED vars
    BY <1>1, <1>4 DEF Launch, Fork, RecordPid, LauncherExits, LauncherCrashes,
       SupervisorDies, ChildExits, vars
  <1>5. CASE Supervise
    <2>1. UNCHANGED <<tree, outside>>
      BY <1>5 DEF Supervise, Spawn, SpawnFails, Run, Reap, Report
    <2> QED BY <1>1, <2>1
  <1>6. ASSUME NEW c \in Clients, Client(c) PROVE UNCHANGED <<tree, outside>>
    BY <1>6, ClientFrame
  <1> QED BY <1>1, <1>2, <1>3, <1>4, <1>5, <1>6 DEF Next, Client

\* So what was as reported stays so.
LEMMA StaysReported ==
    ASSUME Inv, Inv', [Next]_vars, meta.state = "done", NEW m, AsReported(m),
           NEW n, n = m
    PROVE  /\ meta' = meta
           /\ n \in Manifests /\ n.end = meta.end /\ n.tree <= tree'
           /\ ~outside' => (n.timedOut <=> meta.timedOut \/ meta.end = "SIGKILL")
  <1>1. meta' = meta
    BY LastWordStep
  <1>2. tree \in Int /\ tree' \in Int /\ tree <= tree' /\ (outside => outside')
    BY Drift
  <1>3. m.tree \in Int /\ m.tree <= tree
    BY JobsAssumption DEF AsReported, Manifests
  <1>4. n.tree <= tree'
    BY <1>2, <1>3
  <1> QED BY <1>1, <1>2, <1>4 DEF AsReported

\* A manifest captured now says what every other one does: a kill that meta.json
\* does not call a timeout has its marker there already.
LEMMA CaptureReports ==
    ASSUME Inv, ToldInv, NEW c \in Clients, Capture(c)
    PROVE  AsReported(man'[c]) /\ UNCHANGED <<meta, tree, outside>>
  <1> DEFINE m == [end |-> seen[c].end, tree |-> tree,
                   timedOut |-> seen[c].timedOut \/ (marker /\ seen[c].end = "SIGKILL")]
  <1>1. man'[c] = m /\ UNCHANGED <<meta, tree, outside>>
    BY DEF Capture, ClientUnchanged, files, Inv, TypeOK
  <1>2. seen[c] = meta /\ meta.state = "done" /\ meta \in Metas /\ meta.end \in Fates
    BY DEF Capture, ToldInv, FinalizerInv, Inv, ClientInv, TypeOK
  <1>3. m \in Manifests
    BY <1>2 DEF Manifests, Metas, Inv, TypeOK
  <1>4. ~outside /\ meta.end = "SIGKILL" => marker \/ meta.timedOut
    BY <1>2 DEF ToldInv, KillInv, ReportInv
  <1>5. m.end = meta.end /\ m.tree = tree
    BY <1>2
  <1>6. m.timedOut = (meta.timedOut \/ (marker /\ meta.end = "SIGKILL"))
    BY <1>2
  <1>7. ~outside => (m.timedOut <=> meta.timedOut \/ meta.end = "SIGKILL")
    BY <1>2, <1>4, <1>6 DEF Metas
  <1>8. tree <= tree
    BY Drift, JobsAssumption DEF Inv, TypeOK
  <1> HIDE DEF m
  <1> QED BY <1>1, <1>3, <1>5, <1>7, <1>8 DEF AsReported

LEMMA FinalizerStep == Inv /\ Inv' /\ ToldInv /\ [Next]_vars => FinalizerInv'
  <1> SUFFICES ASSUME Inv, Inv', ToldInv, [Next]_vars PROVE FinalizerInv'
    OBVIOUS
  <1>0. FinalizerInv
    BY DEF ToldInv
  <1>1. ASSUME meta.state = "done" PROVE meta' = meta
    BY <1>1, LastWordStep
  <1>2. ASSUME meta.state = "done", AsReported(digest), digest' = digest
        PROVE  AsReported(digest)'
    BY <1>2, StaysReported DEF AsReported
  <1>3. ASSUME UNCHANGED <<digest, final>>
        PROVE  /\ digest' # None => meta'.state = "done" /\ AsReported(digest)'
               /\ final' # None => /\ meta'.state = "done"
                                  /\ AsReported(digest)' /\ AsReported(final)'
    BY <1>0, <1>1, <1>3, StaysReported DEF FinalizerInv, AsReported
  \* A client that stays where it is.
  <1>4. ASSUME NEW d \in Clients, pc'[d] = pc[d], seen'[d] = seen[d], man'[d] = man[d]
        PROVE  /\ pc'[d] \in {"capture", "digest", "final"} =>
                     meta'.state = "done" /\ seen'[d] = meta'
               /\ pc'[d] \in {"digest", "final"} => AsReported(man[d])'
               /\ pc'[d] = "final" /\ digest' = digest => AsReported(digest)'
    <2>1. pc[d] \in {"digest", "final"} => AsReported(man[d])'
      BY <1>0, <1>4, StaysReported DEF FinalizerInv, AsReported
    <2> QED BY <1>0, <1>1, <1>2, <1>4, <2>1 DEF FinalizerInv
  <1>5. ASSUME UNCHANGED <<digest, final, clients>> PROVE FinalizerInv'
    <2>1. UNCHANGED <<digest, final, pc, seen, man>>
      BY <1>5 DEF clients
    <2> QED BY <1>3, <1>4, <2>1 DEF FinalizerInv
  <1>6. CASE Launch \/ LauncherCrashes \/ Supervise \/ SupervisorDies \/ ChildExits
             \/ OutsiderKills \/ Edit \/ UNCHANGED vars
    BY <1>5, <1>6 DEF Launch, Fork, RecordPid, LauncherExits, LauncherCrashes, Supervise,
       Spawn, SpawnFails, Run, Reap, Report, SupervisorDies, ChildExits, OutsiderKills,
       Edit, vars, files, clients
  <1>7. ASSUME NEW c \in Clients, Client(c) PROVE FinalizerInv'
    <2>0. UNCHANGED <<tree, outside>>
      BY <1>7, ClientFrame
    <2>1. ASSUME NEW d \in Clients, d # c
          PROVE  /\ pc'[d] \in {"capture", "digest", "final"} =>
                       meta'.state = "done" /\ seen'[d] = meta'
                 /\ pc'[d] \in {"digest", "final"} => AsReported(man[d])'
                 /\ pc'[d] = "final" /\ digest' = digest => AsReported(digest)'
      <3>1. pc'[d] = pc[d] /\ seen'[d] = seen[d] /\ man'[d] = man[d]
        BY <1>7, <2>1, ClientFrame
      <3> QED BY <1>4, <3>1
    <2>2. pc[c] \in {"digest", "final"} =>
             meta.state = "done" /\ seen[c] = meta /\ meta' = meta /\ AsReported(man[c])
      BY <1>0, <1>1 DEF FinalizerInv
    \* What is left to show: where c is now, and the two files.
    <2>3. SUFFICES
             /\ pc'[c] \in {"capture", "digest", "final"} =>
                   meta'.state = "done" /\ seen'[c] = meta'
             /\ pc'[c] \in {"digest", "final"} => AsReported(man[c])'
             /\ pc'[c] = "final" => AsReported(digest)'
             /\ digest' # None => meta'.state = "done" /\ AsReported(digest)'
             /\ final' # None => /\ meta'.state = "done"
                                /\ AsReported(digest)' /\ AsReported(final)'
             /\ digest' # digest => AsReported(digest)'
      BY <2>1 DEF FinalizerInv
    <2>4. CASE Finalize(c)
      <3>1. /\ UNCHANGED <<digest, final, meta>>
            /\ pc'[c] = "capture" => meta.state = "done"
            /\ pc'[c] \notin {"digest", "final"} /\ seen'[c] = meta
        BY <2>4 DEF Finalize, Goto, files, Inv, TypeOK
      <3> QED BY <1>3, <3>1
    <2>5. CASE Capture(c)
      <3>1. /\ UNCHANGED <<digest, final, meta, seen>> /\ pc'[c] = "digest"
            /\ meta.state = "done" /\ seen[c] = meta
        BY <1>0, <2>5 DEF Capture, Goto, files, Inv, TypeOK, FinalizerInv
      <3>2. AsReported(man[c])'
        BY <2>5, CaptureReports DEF AsReported
      <3> QED BY <1>3, <3>1, <3>2
    <2>6. CASE WriteDigest(c)
      <3>1. /\ UNCHANGED <<final, meta, seen, man>> /\ pc'[c] = "final" /\ digest' = man[c]
            /\ pc[c] = "digest"
        BY <2>6 DEF WriteDigest, Goto, Inv, TypeOK
      <3>2. AsReported(man[c])' /\ AsReported(digest)'
        BY <2>0, <2>2, <3>1 DEF AsReported
      <3>3. final' # None => AsReported(final)'
        BY <1>0, <2>0, <3>1 DEF AsReported, FinalizerInv
      <3> QED BY <2>2, <3>1, <3>2, <3>3
    <2>7. CASE WriteFinal(c)
      <3>1. /\ UNCHANGED <<digest, meta, seen, man>> /\ pc'[c] = "over" /\ final' = man[c]
            /\ pc[c] = "final"
        BY <2>7 DEF WriteFinal, Goto, Inv, TypeOK
      <3>2. AsReported(final)'
        BY <2>0, <2>2, <3>1 DEF AsReported
      <3>3. AsReported(digest)'
        BY <1>0, <2>0, <3>1 DEF AsReported, FinalizerInv
      <3> QED BY <2>2, <3>1, <3>2, <3>3
    <2>8. CASE ~Finalize(c) /\ ~Capture(c) /\ ~WriteDigest(c) /\ ~WriteFinal(c)
      <3>1. UNCHANGED <<digest, final>> /\ pc'[c] \notin {"capture", "digest", "final"}
        BY <1>7, <2>8 DEF Client, Begin, Wait, GiveUp, Look, Probe, Reread, Adopt, Mark,
           Seek, Strike, Goto, files, Inv, TypeOK
      <3> QED BY <1>3, <3>1
    <2> QED BY <2>4, <2>5, <2>6, <2>7, <2>8
  <1> QED BY <1>6, <1>7 DEF Next, Client

LEMMA ToldHolds == Spec => []ToldInv
  <1>1. Inv /\ Inv' /\ ToldInv /\ [Next]_vars => ToldInv'
    <2> SUFFICES ASSUME Inv, Inv', ToldInv, [Next]_vars PROVE ToldInv'
      OBVIOUS
    <2>1. KillInv' /\ ReportInv' /\ LivingInv'
      BY KillStep, ReportStep, LivingStep DEF ToldInv
    <2>2. FinalizerInv'
      BY FinalizerStep
    <2> QED BY <2>1, <2>2 DEF ToldInv
  <1> QED BY <1>1, InitTold, InvariantHolds, PTL DEF Spec

\* However many finalizers there are, and whenever each of them looked at the
\* marker: the digest of the job is that of its manifest.
THEOREM FinalizersAgree == Spec => []FinalizersConverge
  <1>1. Inv /\ ToldInv => FinalizersConverge
    <2> SUFFICES ASSUME Inv, ToldInv, final # None, tree = 0, ~outside
                 PROVE  digest = final
      BY DEF FinalizersConverge
    <2>1. AsReported(digest) /\ AsReported(final)
      BY DEF ToldInv, FinalizerInv
    <2>2. digest.end = final.end /\ digest.timedOut = final.timedOut
      BY <2>1 DEF AsReported, Manifests
    <2>3. digest.tree = 0 /\ final.tree = 0
      BY <2>1, JobsAssumption DEF AsReported, Manifests
    <2> QED BY <2>1, <2>2, <2>3 DEF AsReported, Manifests
  <1> QED BY <1>1, InvariantHolds, ToldHolds, PTL

\* Nobody having died, the manifest says how the command really ended, and
\* calls it a timeout when its time was over or it was killed, and only then.
THEOREM TrueFate == Spec => []FateTold
  <1>1. Inv /\ ToldInv => FateTold
    <2> SUFFICES ASSUME Inv, ToldInv, final # None, deaths = 0, ~outside
                 PROVE  final.end = fate /\ (final.timedOut <=> late \/ fate = "SIGKILL")
      BY DEF FateTold
    <2>1. AsReported(final) /\ meta.state = "done"
      BY DEF ToldInv, FinalizerInv
    <2>2. ~meta.orphaned
      BY DEF ToldInv, LivingInv
    <2>3. meta.end = fate /\ meta.timedOut = late
      BY <2>1, <2>2 DEF ToldInv, ReportInv
    <2> QED BY <2>1, <2>3 DEF AsReported
  <1> QED BY <1>1, InvariantHolds, ToldHolds, PTL
=============================================================================
