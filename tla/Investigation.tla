---------------------------- MODULE Investigation ----------------------------
(***************************************************************************)
(* The investigation controller of src/ctx/controllers/investigation.py:   *)
(* baseline checks, rounds of decisions by a model, repairs in a worktree  *)
(* of the task's own, their verification, and the handoff of the patch.    *)
(*                                                                         *)
(* One coordinator at a time runs a task (TaskRuntime's lock).  Its state  *)
(* is a dictionary in memory, saved to a checkpoint; its operations are    *)
(* rows of the journal.  The coordinator may be killed, when memory is     *)
(* lost, or interrupted, when an exception handler saves the dictionary as *)
(* it is.  Somebody else may write in the worktree at any time.            *)
(*                                                                         *)
(* Files stand for editable ones, each with one span; a fingerprint is the *)
(* worktree it is taken of; witnesses, probes, allowances and cancellation *)
(* are left out, and reading stands for every operation that is no map.    *)
(***************************************************************************)
EXTENDS Integers, Sequences, FiniteSets

CONSTANTS Files, Note,          \* the targets; a path git does not track
          Contents, Base,       \* of files; what the pinned commit has
          Edits,                \* what the model may propose: [some files -> Contents]
          Foreign,              \* <<path, content>> somebody else may write
          Checks,               \* how many checks, all of them behavioral
          MaxRounds, MaxRepairs,
          None,
          MaxMishaps, MaxTouches    \* bounds of the model

ASSUME TaskAssumption ==
    /\ Note \notin Files /\ Base \in Contents
    /\ Edits \subseteq UNION {[S -> Contents] : S \in (SUBSET Files) \ {{}}}
    /\ Foreign \subseteq (Files \cup {Note}) \X Contents
    /\ Checks \in Nat \ {0}
    /\ {MaxRounds, MaxRepairs, MaxMishaps, MaxTouches} \subseteq Nat

VARIABLES
    tree,               \* the worktree
    ckpt, mem,          \* the state: as saved, as the coordinator has it
    ops,                \* the last attempt under each key of the journal
    pc, call, retry,    \* where the coordinator is; its operation; retry_failed
    written, n,         \* locals: files apply renamed, checks verify_edit ran
    patched,            \* the patch in the original checkout
    mishaps, touches,   \* bounded counts
    cut, meddled        \* history: see Interrupt and Touch

local == <<call, retry, written, n>>
history == <<mishaps, touches, cut, meddled>>
vars == <<tree, ckpt, mem, ops, pc, local, patched, history>>

Paths == Files \cup {Note}
Tracked(t) == [f \in Files |-> t[f]]
Changed(t) == {f \in Files : t[f] # Base}

\* Those of a round are named by its number and its request: every round, and
\* what follows a repair, begins without (NewKeys).
Keys ==
    {<<"discover", 0, 0>>, <<"decide", 0, 0>>, <<"act", 0, 0>>, <<"handoff", 0, 0>>} \cup
    {<<"baseline", i, 0>> : i \in 1..Checks} \cup
    {<<"apply", i, 0>> : i \in 1..MaxRepairs} \cup
    {<<"verify", i, j>> : i \in 1..MaxRepairs, j \in 1..Checks}

NoFingerprint == <<>>      \* of a worktree nobody has looked at
NoAttempt == [status |-> "none", result |-> None, on |-> None]

\* prepare().
Prepared ==
    [status |-> "prepared", stop |-> None, phase |-> "baseline", round |-> 0,
     repairs |-> <<>>, views |-> {}, analyzed |-> None,
     baseline |-> [ran |-> 0, failed |-> FALSE],
     fingerprint |-> NoFingerprint, request |-> FALSE, decision |-> None, patch |-> None,
     completion |-> None]

Init ==
    /\ tree = [f \in Paths |-> Base]
    /\ ckpt = Prepared /\ mem = Prepared
    /\ ops = [k \in Keys |-> NoAttempt]
    /\ pc = "out" /\ call = None /\ retry = FALSE /\ written = {} /\ n = 0
    /\ patched = None
    /\ mishaps = 0 /\ touches = 0 /\ cut = FALSE /\ meddled = FALSE

-----------------------------------------------------------------------------
(* Saving and stopping.                                                    *)

\* _save: a completed outcome is kept beside what a later pause makes of it.
Kept(s) ==
    IF s.phase = "complete" /\ s.status \notin {"paused", "interrupted"}
    THEN [s EXCEPT !.completion = [status |-> s.status, stop |-> s.stop]]
    ELSE s

Save(s) == ckpt' = Kept(s) /\ mem' = Kept(s)

Leave ==
    /\ pc' = "out" /\ call' = None /\ retry' = FALSE
    /\ written' = {} /\ n' = 0

Return(s) == Save(s) /\ Leave

Stopped(status, why) == [mem EXCEPT !.status = status, !.stop = why]
Pause(why) == Return(Stopped("paused", why))

\* An exception nobody expects: the handler saves the dictionary as it is.
Raise == Return(Stopped("interrupted", "interrupted"))

Goto(label) == pc' = label /\ UNCHANGED local

\* _assert_current.
Current == tree = mem.fingerprint

-----------------------------------------------------------------------------
(* Operations under TaskRuntime.perform.                                   *)

\* active(): what was left running is uncertain from now on.
Recovered ==
    [k \in Keys |-> IF ops[k].status = "running"
                    THEN [ops[k] EXCEPT !.status = "uncertain"] ELSE ops[k]]

Start(again) ==
    /\ pc = "out"
    /\ pc' = "open" /\ retry' = again
    /\ mem' = ckpt /\ ops' = Recovered
    /\ UNCHANGED <<tree, ckpt, call, written, n, patched, history>>

Dispatch(k) ==
    /\ ops' = [ops EXCEPT ![k] = [NoAttempt EXCEPT !.status = "running"]]
    /\ pc' = "calling" /\ call' = k
    /\ UNCHANGED <<ckpt, mem, retry, written, n>>

\* A result that is there is replayed; another attempt must be asked for.
Perform(k) ==
    \/ /\ ops[k].status = "done"
       /\ pc' = "returned" /\ call' = k
       /\ UNCHANGED <<ckpt, mem, ops, retry, written, n>>
    \/ ops[k].status = "none" /\ Dispatch(k)
    \/ /\ ops[k].status \in {"failed", "uncertain"}
       /\ IF retry THEN Dispatch(k)
          ELSE Pause("retry_requires_explicit_request") /\ UNCHANGED ops

\* Mutant: only the result is looked at, when it is there.
FreshLater(k) == Perform(k)

\* _capture: no command is run in a worktree that somebody changed.
Fresh(k) ==
    IF Current THEN Perform(k)
    ELSE Pause("worktree_changed") /\ UNCHANGED ops

\* The outcome's row; `on` is the worktree a verifying check saw.
Outcome(status, result) ==
    /\ ops' = [ops EXCEPT ![call] = [status |-> status, result |-> result,
                    on |-> IF call[1] = "verify" THEN tree ELSE None]]
    /\ pc' = "returned"
    /\ UNCHANGED <<tree, ckpt, mem, local, patched>>

Decisions ==
    {[do |-> x] : x \in {"read", "map", "stop"}} \cup
    {[do |-> "repair", edit |-> e, seen |-> v] : e \in Edits, v \in mem.views}

ResultsOf(k) ==
    CASE k[1] \in {"baseline", "verify"} -> {"pass", "fail"}
      [] k[1] = "decide" -> Decisions
      [] OTHER -> {"ok"}

\* The operation ends, or its driver reports that it could not do it.
End ==
    /\ pc = "calling" /\ call[1] # "apply"
    /\ \/ /\ \E x \in ResultsOf(call) : Outcome("done", x)
          /\ UNCHANGED history
       \/ /\ mishaps < MaxMishaps /\ call[1] # "discover"
          /\ Outcome("failed", "bad")
          /\ mishaps' = mishaps + 1 /\ UNCHANGED <<touches, cut, meddled>>

-----------------------------------------------------------------------------
(* run(): up to the loop.                                                  *)

FirstFingerprint ==
    /\ pc = "open" /\ mem.fingerprint = NoFingerprint
    /\ Save([mem EXCEPT !.fingerprint = tree])
    /\ UNCHANGED <<tree, ops, pc, local, patched, history>>

\* Mutant: a repair under way must find the worktree as it was saved.
OpenNeedsCurrent(phase) == TRUE

\* "A prepared edit may have committed before its checkpoint."
OpenNeeds(phase) == phase # "repair"

Open ==
    /\ pc = "open" /\ mem.fingerprint # NoFingerprint
    /\ UNCHANGED <<tree, ops, patched, history>>
    /\ \/ /\ OpenNeeds(mem.phase) /\ ~Current
          /\ Pause("worktree_changed")
       \/ /\ mem.phase = "complete" /\ Current
          /\ LET c == IF mem.completion # None THEN mem.completion
                      ELSE [status |-> mem.status, stop |-> mem.stop]
             IN  Return(Stopped(c.status, c.stop))
       \/ /\ mem.phase # "complete" /\ (OpenNeeds(mem.phase) => Current)
          /\ mem' = Stopped("running", None)
          /\ Goto("loop") /\ UNCHANGED ckpt

At(phase) == pc = "loop" /\ mem.phase = phase

Baseline ==
    /\ At("baseline")
    /\ UNCHANGED <<tree, patched, history>>
    /\ \/ /\ mem.baseline.ran < Checks
          /\ Fresh(<<"baseline", mem.baseline.ran + 1, 0>>)
       \/ /\ mem.baseline.ran = Checks /\ ~mem.baseline.failed
          /\ Return([mem EXCEPT !.status = "not_reproduced", !.phase = "complete"])
          /\ UNCHANGED ops
       \/ /\ mem.baseline.ran = Checks /\ mem.baseline.failed
          /\ Perform(<<"discover", 0, 0>>)

Came(name) == pc = "returned" /\ call[1] = name
Failed == ops[call].status = "failed"

\* Once the baseline holds a result, nobody reads its row again.
BaselineCame ==
    /\ Came("baseline")
    /\ UNCHANGED <<tree, patched, history>>
    /\ CASE ~Current -> Pause("worktree_changed") /\ UNCHANGED ops
         [] Current /\ Failed -> Pause("baseline_check_invalid") /\ UNCHANGED ops
         [] OTHER ->
              /\ Save([mem EXCEPT !.baseline.ran = @ + 1,
                          !.baseline.failed = @ \/ ops[call].result = "fail"])
              /\ ops' = [ops EXCEPT ![call] = NoAttempt] /\ Goto("loop")

Discovered ==
    /\ Came("discover")
    /\ Save([mem EXCEPT !.phase = "investigate"]) /\ Goto("loop")
    /\ UNCHANGED <<tree, ops, patched, history>>

-----------------------------------------------------------------------------
(* A round: ask, decide, act.                                              *)

Cleared(s) == [s EXCEPT !.request = FALSE, !.decision = None]
NewKeys == ops' = [ops EXCEPT ![<<"decide", 0, 0>>] = NoAttempt,
                             ![<<"act", 0, 0>>] = NoAttempt]
EndRound(s) ==
    /\ Save(Cleared([s EXCEPT !.round = @ + 1])) /\ NewKeys /\ Goto("loop")

InRound == At("investigate") /\ mem.round < MaxRounds /\ Current

CannotGoOn ==
    /\ At("investigate")
    /\ \/ mem.round >= MaxRounds /\ Pause("round_budget")
       \/ mem.round < MaxRounds /\ ~Current /\ Pause("worktree_changed")
    /\ UNCHANGED <<tree, ops, patched, history>>

Ask ==
    /\ InRound /\ mem.decision = None
    /\ UNCHANGED <<tree, patched, history>>
    /\ IF mem.request
       THEN Perform(<<"decide", 0, 0>>)
       ELSE Save([mem EXCEPT !.request = TRUE]) /\ Goto("asked") /\ UNCHANGED ops

AskNow ==
    /\ pc = "asked" /\ Perform(<<"decide", 0, 0>>)
    /\ UNCHANGED <<tree, patched, history>>

Decided ==
    /\ Came("decide")
    /\ UNCHANGED <<tree, ops, patched, history>>
    /\ CASE ~Current -> Pause("worktree_changed")
         [] Current /\ Failed -> Pause("decision_failed")
         [] OTHER -> Save([mem EXCEPT !.decision = ops[call].result]) /\ Goto("decided")

\* What is to be done, once it is decided.
ToDo(what) ==
    /\ pc = "decided" \/ (InRound /\ mem.decision # None)
    /\ mem.decision.do = what

Operate ==
    /\ ToDo("read") \/ ToDo("map")
    /\ Perform(<<"act", 0, 0>>)
    /\ UNCHANGED <<tree, patched, history>>

\* _record, and the end of the round.  An operation that fails is an
\* observation; an incomplete map stops the task.
Operated ==
    /\ Came("act")
    /\ UNCHANGED <<tree, patched, history>>
    /\ LET map == mem.decision.do = "map"
       IN  \/ ~map /\ Failed /\ EndRound(mem)
           \/ (map \/ ~Failed) /\ ~Current /\ Pause("worktree_changed") /\ UNCHANGED ops
           \/ /\ map /\ Failed /\ Current
              /\ Pause("semantic_analysis_incomplete") /\ UNCHANGED ops
           \/ /\ ~Failed /\ Current
              /\ EndRound(IF map THEN [mem EXCEPT !.analyzed = mem.fingerprint]
                          ELSE [mem EXCEPT !.views = @ \cup {mem.fingerprint}])

Stop ==
    /\ ToDo("stop")
    /\ Return(Cleared([mem EXCEPT !.status = "inconclusive", !.phase = "complete",
                                  !.stop = "reason", !.round = @ + 1]))
    /\ UNCHANGED <<tree, ops, patched, history>>

\* The span as the model read it is still in the file.
Fits(d) == \A f \in DOMAIN d.edit : tree[f] = d.seen[f]

\* _prepare_repair: the plan and its preview name the bytes before and after.
\* What the contract refuses ends the round; what the edit transaction refuses
\* is no ValueError, and ends the run.
PrepareRepair ==
    /\ ToDo("repair")
    /\ UNCHANGED <<tree, patched, history>>
    /\ LET e == mem.decision.edit
       IN  CASE Len(mem.repairs) >= MaxRepairs -> Pause("repair_budget") /\ UNCHANGED ops
             [] Len(mem.repairs) < MaxRepairs /\ mem.analyzed # mem.fingerprint ->
                  EndRound(mem)
             [] OTHER ->
                  /\ UNCHANGED ops
                  /\ IF ~Fits(mem.decision) THEN Raise
                     ELSE /\ Save([mem EXCEPT !.phase = "repair",
                                     !.repairs = Append(@, [edit |-> e, receipt |-> FALSE,
                                         before |-> [f \in DOMAIN e |-> tree[f]]])])
                          /\ Goto("prepared")

RoundOver ==
    /\ pc = "prepared" /\ EndRound(mem)
    /\ UNCHANGED <<tree, patched, history>>

-----------------------------------------------------------------------------
(* _repair().                                                              *)

Index == Len(mem.repairs)
Repair == mem.repairs[Index]

Holds(bytes) == \A f \in DOMAIN bytes : tree[f] = bytes[f]

\* Mutant: a mutation nobody saw the end of is left to a person.
ReconcileNever(k) == Pause("uncertain_mutation") /\ UNCHANGED ops

\* reconcile: the bytes say whether the edit landed.
Reconcile(k) ==
    CASE Holds(Repair.edit) ->
           /\ ops' = [ops EXCEPT ![k].status = "done"]
           /\ pc' = "returned" /\ call' = k
           /\ UNCHANGED <<ckpt, mem, retry, written, n>>
      [] ~Holds(Repair.edit) /\ Holds(Repair.before) -> Perform(k)
      [] OTHER -> Pause("partially_applied_edit_requires_review") /\ UNCHANGED ops

Apply ==
    /\ At("repair") /\ ~Repair.receipt
    /\ LET k == <<"apply", Index, 0>>
       IN  IF ops[k].status = "uncertain" THEN Reconcile(k) ELSE Perform(k)
    /\ UNCHANGED <<tree, patched, history>>

\* apply_edit_plan: all files as planned, or none is written.
Refused == \E f \in DOMAIN Repair.edit \ written : tree[f] # Repair.before[f]

ApplyFile ==
    /\ pc = "calling" /\ call[1] = "apply" /\ ~Refused
    /\ \E f \in DOMAIN Repair.edit \ written :
          /\ tree' = [tree EXCEPT ![f] = Repair.edit[f]]
          /\ written' = written \cup {f}
    /\ UNCHANGED <<ckpt, mem, ops, pc, call, retry, n, patched, history>>

\* Written files that nobody changed since are put back.
ApplyRefused ==
    /\ pc = "calling" /\ call[1] = "apply" /\ Refused
    /\ tree' = [f \in Paths |-> IF f \in written /\ tree[f] = Repair.edit[f]
                                THEN Repair.before[f] ELSE tree[f]]
    /\ ops' = [ops EXCEPT ![call].status = "failed"]
    /\ Raise
    /\ UNCHANGED <<patched, history>>

ApplyEnd ==
    /\ pc = "calling" /\ call[1] = "apply" /\ written = DOMAIN Repair.edit
    /\ Outcome("done", "ok") /\ UNCHANGED history

\* candidate["receipt"] is set; the fingerprint is yet to be taken.
Applied ==
    /\ Came("apply")
    /\ mem' = [mem EXCEPT !.repairs[Index].receipt = TRUE]
    /\ pc' = "receipted" /\ written' = {}
    /\ UNCHANGED <<tree, ckpt, ops, call, retry, n, patched, history>>

Refresh(s) == [s EXCEPT !.fingerprint = tree]

Receipted ==
    /\ pc = "receipted"
    /\ Save(Refresh(mem)) /\ Goto("loop")
    /\ UNCHANGED <<tree, ops, patched, history>>

Modified == UNION {DOMAIN mem.repairs[i].edit : i \in 1..Index}
Stale == \E f \in Modified : tree[f] # mem.fingerprint[f]
NoOp(r) == r.before = r.edit

Reinvestigate ==
    /\ Save(Cleared([mem EXCEPT !.status = "running", !.phase = "investigate"]))
    /\ NewKeys
    /\ pc' = "loop" /\ n' = 0 /\ UNCHANGED <<call, retry, written>>

\* verify_edit: the next check, unless the bytes are others by now.
Verify ==
    /\ At("repair") /\ Repair.receipt
    /\ UNCHANGED <<tree, patched, history>>
    /\ CASE n = 0 /\ Current /\ (NoOp(Repair) \/ ~Holds(Repair.edit)) ->
              Raise /\ UNCHANGED ops
         [] n > 0 /\ Stale -> Reinvestigate
         [] OTHER -> Fresh(<<"verify", Index, n + 1>>)

Verified ==
    /\ Came("verify")
    /\ IF Current THEN Goto("look") /\ UNCHANGED <<ckpt, mem>>
       ELSE Pause("worktree_changed")
    /\ UNCHANGED <<tree, ops, patched, history>>

Look ==
    /\ pc = "look"
    /\ UNCHANGED <<tree, patched, history>>
    /\ IF Stale \/ ops[call].result # "pass" THEN Reinvestigate
       ELSE /\ n' = n + 1 /\ UNCHANGED ops
            /\ pc' = IF n + 1 = Checks THEN "validate" ELSE "loop"
            /\ UNCHANGED <<ckpt, mem, call, retry, written>>

\* validate_verification: the bytes once more.
Validate ==
    /\ pc = "validate"
    /\ IF Stale THEN Raise ELSE Goto("capture") /\ UNCHANGED <<ckpt, mem>>
    /\ UNCHANGED <<tree, ops, patched, history>>

Capture ==
    /\ pc = "capture"
    /\ UNCHANGED <<tree, ops, patched, history>>
    /\ CASE Changed(tree) = {} -> Pause("no_patch")
         [] Changed(tree) # {} /\ Changed(tree) # Modified -> Pause("unreceipted_changes")
         [] OTHER -> Return(Cleared([mem EXCEPT !.status = "verified",
                               !.phase = "complete", !.patch = Tracked(tree)]))

-----------------------------------------------------------------------------
(* apply(): the handoff.                                                   *)

HandOff ==
    /\ pc = "out" /\ patched = None
    /\ ckpt.status = "verified" /\ tree = ckpt.fingerprint
    /\ ops[<<"handoff", 0, 0>>].status = "none"
    /\ ops' = [Recovered EXCEPT ![<<"handoff", 0, 0>>].status = "running"]
    /\ pc' = "handing"
    /\ UNCHANGED <<tree, ckpt, mem, local, patched, history>>

GitApply ==
    /\ pc = "handing"
    /\ patched' = ckpt.patch /\ pc' = "handed"
    /\ UNCHANGED <<tree, ckpt, mem, ops, local, history>>

HandedOff ==
    /\ pc = "handed"
    /\ ops' = [ops EXCEPT ![<<"handoff", 0, 0>>].status = "done"]
    /\ Leave
    /\ UNCHANGED <<tree, ckpt, mem, patched, history>>

-----------------------------------------------------------------------------
(* What goes wrong.                                                        *)

Mishap ==
    /\ pc # "out" /\ mishaps < MaxMishaps
    /\ mishaps' = mishaps + 1

Kill ==
    /\ Mishap /\ mem' = ckpt /\ Leave
    /\ UNCHANGED <<tree, ckpt, ops, patched, touches, cut, meddled>>

\* Ctrl-C, or an error of git or of the disk: the handler saves.  What was
\* interrupted is uncertain.  `cut`: the receipt is saved without the
\* fingerprint that belongs to it.
Interrupt ==
    /\ Mishap /\ pc \notin {"handing", "handed"}
    /\ Raise
    /\ ops' = IF pc = "calling" THEN [ops EXCEPT ![call].status = "uncertain"] ELSE ops
    /\ cut' = (cut \/ pc = "receipted")
    /\ UNCHANGED <<tree, patched, touches, meddled>>

\* Somebody writes in the worktree.  `meddled`: while a check ran, or before the
\* capture of the patch, in a file no later look is at.
Overlooked(f) ==
    \/ pc = "calling" /\ call[1] = "verify"
    \/ pc \in {"look", "validate"} /\ f \in Files \ Modified
    \/ pc = "capture"

Touch ==
    /\ touches < MaxTouches
    /\ \E w \in Foreign :
          /\ tree[w[1]] # w[2]
          /\ tree' = [tree EXCEPT ![w[1]] = w[2]]
          /\ meddled' = (meddled \/ Overlooked(w[1]))
    /\ touches' = touches + 1
    /\ UNCHANGED <<ckpt, mem, ops, pc, local, patched, mishaps, cut>>

Step ==
    \/ FirstFingerprint \/ Open \/ End
    \/ Baseline \/ BaselineCame \/ Discovered
    \/ CannotGoOn \/ Ask \/ AskNow \/ Decided \/ Operate \/ Operated \/ Stop
    \/ PrepareRepair \/ RoundOver
    \/ Apply \/ ApplyFile \/ ApplyRefused \/ ApplyEnd \/ Applied \/ Receipted
    \/ Verify \/ Verified \/ Look \/ Validate \/ Capture
    \/ GitApply \/ HandedOff

Next ==
    \/ \E again \in BOOLEAN : Start(again)
    \/ Step \/ HandOff
    \/ Kill \/ Interrupt \/ Touch

\* A coordinator that began goes on; somebody asks for a retry now and then.
Spec == Init /\ [][Next]_vars /\ WF_vars(Step) /\ SF_vars(Start(TRUE))

-----------------------------------------------------------------------------
\* Every check of the last repair passed, on exactly this worktree.
Tested(t) ==
    \A j \in 1..Checks :
        ops[<<"verify", Len(ckpt.repairs), j>>] =
            [status |-> "done", result |-> "pass", on |-> t]

\* "Receipts prove which check ran against which files" (edit_verification.py:4)
\* through every resume and replay: the patch of a verified task, and what the
\* original checkout gets, is the change of a worktree that passed every check,
\* unless somebody wrote in it while a check ran or the patch was taken.
PatchTested ==
    /\ ckpt.patch # None /\ ~meddled =>
          ckpt.patch = Tracked(ckpt.fingerprint) /\ Tested(ckpt.fingerprint)
    /\ patched \in {None, ckpt.patch}

RepairedFiles == UNION {DOMAIN ckpt.repairs[i].edit : i \in 1..Len(ckpt.repairs)}
LastNoOp == ckpt.repairs # <<>> /\ NoOp(ckpt.repairs[Len(ckpt.repairs)])
MisfitDecided ==
    /\ ckpt.decision # None /\ ckpt.decision.do = "repair"
    /\ \E f \in DOMAIN ckpt.decision.edit :
          ckpt.fingerprint[f] # ckpt.decision.seen[f]

\* A task waits for a person only for a reason.  When nobody else wrote in the
\* worktree, "worktree_changed" follows only an interruption between a receipt
\* and its fingerprint; a half-applied edit only a crash; unreceipted changes
\* only a repair that puts a file back; and a run ends in an exception by
\* itself only over a repair without effect or one that no longer fits.
NoFalseAlarm ==
    touches = 0 =>
      /\ ckpt.stop = "worktree_changed" => cut
      /\ ckpt.stop = "partially_applied_edit_requires_review" => mishaps > 0
      /\ ckpt.stop \in {"unreceipted_changes", "no_patch"} =>
            \E f \in RepairedFiles : ckpt.fingerprint[f] = Base
      /\ ckpt.stop = "interrupted" /\ mishaps = 0 => LastNoOp \/ MisfitDecided

\* What a person has to look at, or no more rounds.
Final == {"round_budget", "repair_budget", "no_patch", "unreceipted_changes",
          "worktree_changed", "partially_applied_edit_requires_review", "interrupted"}

\* Python's None is no reason to stop, and no decision.
ASSUME NoneAssumption ==
    /\ None \notin Final
    /\ None \notin [do : {"repair"}, edit : Edits, seen : [Paths -> Contents]]

\* Resumed with --retry-failed again and again, a task is completed, has used
\* up its rounds or repairs, or stops for a person, whatever was cut off when.
TaskEnds == []<>(pc = "out" /\ (ckpt.phase = "complete" \/ ckpt.stop \in Final))
=============================================================================
