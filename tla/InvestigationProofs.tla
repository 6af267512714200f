------------------------ MODULE InvestigationProofs ------------------------
(***************************************************************************)
(* Proofs about Investigation, for any files, edits and numbers of checks, *)
(* rounds and repairs, however often the coordinator is cut off and        *)
(* whatever somebody else writes: what a task hands over passed its        *)
(* checks.  And when nobody else writes: a task waits for a person only    *)
(* for a reason.                                                           *)
(***************************************************************************)
EXTENDS Investigation, TLAPS

Fields == {"status", "stop", "phase", "round", "repairs", "views", "analyzed",
           "baseline", "fingerprint", "request", "decision", "patch", "completion"}

IsSeq(s) == \E S : s \in Seq(S)
RowShape(r) == r = [status |-> r.status, result |-> r.result, on |-> r.on]

Done == Len(ckpt.repairs)
Received == Done > 0 /\ ckpt.repairs[Done].receipt
Row(i, j) == ops[<<"verify", i, j>>]
Passed(t) == [status |-> "done", result |-> "pass", on |-> t]
Outside == {"out", "open", "handing", "handed"}
InCall == pc \in {"calling", "returned"}

-----------------------------------------------------------------------------
(* The inductive invariant.                                                *)

Shape ==
    /\ DOMAIN tree = Paths
    /\ DOMAIN mem = Fields /\ DOMAIN ckpt = Fields
    /\ IsSeq(mem.repairs) /\ IsSeq(ckpt.repairs)
    /\ DOMAIN ops = Keys /\ \A k \in Keys : RowShape(ops[k])
    /\ n \in 0..Checks /\ Done <= MaxRepairs

\* What the coordinator has in memory and what is saved differ in nothing that
\* matters, but for the receipt just taken.
Synced ==
    /\ mem.phase = ckpt.phase /\ mem.fingerprint = ckpt.fingerprint
    /\ mem.patch = ckpt.patch /\ Len(mem.repairs) = Done
    /\ pc # "receipted" => mem.repairs = ckpt.repairs
    /\ ckpt.patch # None => ckpt.phase = "complete" /\ ckpt.fingerprint # NoFingerprint
    /\ pc \notin Outside => ckpt.phase # "complete" /\ ckpt.fingerprint # NoFingerprint
    /\ ckpt.fingerprint = NoFingerprint => Done = 0
    /\ ckpt.phase = "repair" => Done > 0

\* No check of a repair runs before its receipt and its fingerprint are saved,
\* and one that is recorded saw just what the fingerprint is of.
Rows ==
    \A j \in 1..Checks :
        /\ \A i \in 1..MaxRepairs :
              /\ i > Done => Row(i, j).status = "none"
              /\ Row(i, j).status = "failed" => Row(i, j).result = "bad"
        /\ Done > 0 /\ (pc = "receipted" \/ ~Received) => Row(Done, j).status = "none"
        /\ Done > 0 /\ ~meddled /\ Row(Done, j).status = "done" =>
              Row(Done, j).on = ckpt.fingerprint

\* Where the coordinator is, and what it calls there.
Calls ==
    /\ pc = "look" => call[1] = "verify"
    /\ (InCall \/ pc = "look") /\ call[1] = "verify" =>
          /\ call = <<"verify", Done, n + 1>> /\ n < Checks
          /\ ckpt.phase = "repair" /\ Received
    /\ pc = "calling" /\ call[1] = "verify" => ops[call].status = "running"
    /\ pc = "loop" => n < Checks
    /\ pc \in {"returned", "look"} /\ call[1] = "verify" =>
          ops[call].status \in {"done", "failed"}
    /\ InCall /\ call[1] = "apply" => Done > 0 /\ ~Received
    /\ pc = "receipted" => Done > 0
    /\ n > 0 =>
          /\ ckpt.phase = "repair" /\ Received
          /\ \/ pc \in {"loop", "look", "validate", "capture"}
             \/ InCall /\ call[1] = "verify"
    /\ pc \in {"validate", "capture"} => n = Checks

Tests ==
    /\ ~meddled =>
          /\ \A j \in 1..n : Row(Done, j) = Passed(ckpt.fingerprint)
          /\ pc = "calling" /\ call[1] = "verify" => tree = ckpt.fingerprint
          /\ pc \in {"look", "validate"} =>
                \A f \in Files \ Modified : tree[f] = ckpt.fingerprint[f]
          /\ pc = "capture" => \A f \in Files : tree[f] = ckpt.fingerprint[f]
          /\ ckpt.patch # None =>
                /\ ckpt.patch = Tracked(ckpt.fingerprint)
                /\ Done > 0 /\ \A j \in 1..Checks : Row(Done, j) = Passed(ckpt.fingerprint)
    /\ patched \in {None, ckpt.patch}

IInv == Shape /\ Synced /\ Rows /\ Calls /\ Tests

-----------------------------------------------------------------------------
(* Sequences, keys, saving.                                                *)

\* Appending and setting a receipt leave the rest of the repairs alone.
LEMMA Appended ==
    ASSUME NEW s, IsSeq(s), NEW e
    PROVE  /\ IsSeq(Append(s, e)) /\ Len(Append(s, e)) = Len(s) + 1
           /\ Append(s, e)[Len(s) + 1] = e /\ Len(s) \in Nat
<1>1. PICK S : s \in Seq(S)
  BY DEF IsSeq
<1>2. s \in Seq(S \cup {e}) /\ e \in S \cup {e}
  BY <1>1
<1>3. Append(s, e) \in Seq(S \cup {e})
  BY <1>2
<1> QED BY <1>2, <1>3 DEF IsSeq

LEMMA Replaced ==
    ASSUME NEW s, IsSeq(s), NEW i \in 1..Len(s), NEW e
    PROVE  IsSeq([s EXCEPT ![i] = e]) /\ Len([s EXCEPT ![i] = e]) = Len(s)
<1>1. PICK S : s \in Seq(S)
  BY DEF IsSeq
<1>2. s \in Seq(S \cup {e}) /\ e \in S \cup {e}
  BY <1>1
<1>3. [s EXCEPT ![i] = e] \in Seq(S \cup {e})
  BY <1>2
<1> QED BY <1>2, <1>3 DEF IsSeq

LEMMA Lengths == ASSUME NEW s, IsSeq(s) PROVE Len(s) \in Nat
BY DEF IsSeq

LEMMA Numbers ==
    ASSUME Shape
    PROVE  /\ Done \in Nat /\ Done <= MaxRepairs /\ n \in Nat /\ n <= Checks
           /\ Checks \in Nat \ {0} /\ MaxRepairs \in Nat
<1>1. Done \in Nat
  BY Lengths DEF Shape, Done
<1> QED BY <1>1, TaskAssumption DEF Shape

\* The keys of verifying checks are keys, and no others are.
LEMMA VerifyKeys ==
    /\ \A i \in 1..MaxRepairs, j \in 1..Checks : <<"verify", i, j>> \in Keys
    /\ \A k \in Keys : k[1] = "verify" =>
          \E i \in 1..MaxRepairs, j \in 1..Checks : k = <<"verify", i, j>>
    /\ \A i \in 1..Checks : <<"baseline", i, 0>> \in Keys
    /\ \A i \in 1..MaxRepairs : <<"apply", i, 0>> \in Keys
    /\ <<"discover", 0, 0>> \in Keys /\ <<"decide", 0, 0>> \in Keys
    /\ <<"act", 0, 0>> \in Keys /\ <<"handoff", 0, 0>> \in Keys
BY DEF Keys

\* What the properties are about is saved as it is.
SameTask(s, u) ==
    /\ DOMAIN s = Fields
    /\ s.phase = u.phase /\ s.repairs = u.repairs
    /\ s.fingerprint = u.fingerprint /\ s.patch = u.patch

LEMMA Saved ==
    ASSUME NEW s, DOMAIN s = Fields, Save(s)
    PROVE  mem' = ckpt' /\ SameTask(ckpt', s)
<1>1. SameTask(Kept(s), s)
  BY DEF Kept, SameTask, Fields
<1> QED BY <1>1 DEF Save

\* The run ends, and what is saved is what was in memory.
Quits == pc' = "out" /\ n' = 0 /\ mem' = ckpt' /\ SameTask(ckpt', mem)

LEMMA PauseQuits ==
    ASSUME Shape, NEW why, Pause(why)
    PROVE  Quits
<1>1. SameTask(Stopped("paused", why), mem)
  BY DEF Stopped, SameTask, Shape, Fields
<1> QED BY <1>1, Saved DEF Pause, Return, Leave, Quits, SameTask

LEMMA RaiseQuits ==
    ASSUME Shape, Raise
    PROVE  Quits
<1>1. SameTask(Stopped("interrupted", "interrupted"), mem)
  BY DEF Stopped, SameTask, Shape, Fields
<1> QED BY <1>1, Saved DEF Raise, Return, Leave, Quits, SameTask

-----------------------------------------------------------------------------
(* Steps that leave the tests alone.                                       *)

OpsTyped == DOMAIN ops = Keys /\ \A k \in Keys : RowShape(ops[k])

\* The rows of verifying checks stay; what was running may become uncertain.
VerifyKept ==
    \A i \in 1..MaxRepairs, j \in 1..Checks :
        \/ Row(i, j)' = Row(i, j)
        \/ Row(i, j).status = "running" /\ Row(i, j)'.status = "uncertain"

\* What such a step leaves as it is.
Quiet ==
    /\ Done' = Done
    /\ pc' = "receipted" \/ ~Received' => pc = "receipted" \/ ~Received
    /\ ckpt'.fingerprint = ckpt.fingerprint /\ ckpt'.patch = ckpt.patch
    /\ VerifyKept
    /\ n' \in {0, n} /\ patched' = patched /\ meddled' = meddled
    /\ pc' \notin {"look", "validate", "capture"}
    /\ ~(pc' = "calling" /\ call'[1] = "verify")

LEMMA QuietStep ==
    ASSUME IInv, Quiet
    PROVE  Rows' /\ Tests'
<1> USE DEF IInv
<1>0. Done \in Nat /\ n \in Nat /\ Done <= MaxRepairs /\ Checks \in Nat /\ MaxRepairs \in Nat
  BY Numbers
<1>1. \A i \in 1..MaxRepairs, j \in 1..Checks :
          /\ Row(i, j)'.status \in {"none", "failed", "done"} => Row(i, j)' = Row(i, j)
          /\ Row(i, j).status \in {"none", "failed", "done"} => Row(i, j)' = Row(i, j)
  BY DEF Quiet, VerifyKept, Row
<1>2. ASSUME NEW j \in 1..Checks
      PROVE  /\ \A i \in 1..MaxRepairs :
                /\ i > Done' => Row(i, j)'.status = "none"
                /\ Row(i, j)'.status = "failed" => Row(i, j)'.result = "bad"
             /\ Done' > 0 /\ (pc' = "receipted" \/ ~Received') => Row(Done, j)'.status = "none"
             /\ Done' > 0 /\ ~meddled' /\ Row(Done, j)'.status = "done" =>
                   Row(Done, j)'.on = ckpt'.fingerprint
  <2>1. Done > 0 => Done \in 1..MaxRepairs
    BY <1>0
  <2>2. \A i \in 1..MaxRepairs :
           /\ i > Done' => Row(i, j)'.status = "none"
           /\ Row(i, j)'.status = "failed" => Row(i, j)'.result = "bad"
    BY <1>1 DEF Rows, Quiet
  <2>3. Done > 0 /\ (pc' = "receipted" \/ ~Received') => Row(Done, j)'.status = "none"
    BY <1>1, <2>1 DEF Rows, Quiet, Row
  <2>4. Done > 0 /\ ~meddled' /\ Row(Done, j)'.status = "done" =>
             Row(Done, j)'.on = ckpt'.fingerprint
    BY <1>1, <2>1 DEF Rows, Quiet, Row
  <2> QED BY <2>2, <2>3, <2>4 DEF Quiet
<1>3. Rows'
  BY <1>2 DEF Rows
<1>4. ASSUME NEW t, NEW j \in 1..Checks, Done > 0, Row(Done, j) = Passed(t)
      PROVE  Row(Done, j)' = Passed(t)
  BY <1>0, <1>1, <1>4 DEF Passed, Quiet, Row
<1>5. Tests'
  BY <1>0, <1>4 DEF Tests, Quiet, Calls, Shape, Received
<1> QED BY <1>3, <1>5

World == tree' = tree /\ patched' = patched /\ meddled' = meddled

\* A run may end anywhere: neither what memory adds to the checkpoint nor what
\* was running matters.
LEMMA QuitStep ==
    ASSUME IInv, Quits, OpsTyped', DOMAIN tree' = Paths, VerifyKept,
           patched' = patched, meddled' = meddled
    PROVE  IInv'
<1> USE DEF IInv
<1>1. Done' = Done /\ Done \in Nat /\ IsSeq(ckpt'.repairs)
  BY Numbers DEF Shape, Synced, Quits, SameTask, Done
<1>2. Quiet
  BY <1>1 DEF Quiet, Quits, SameTask, Synced, Received, Done
<1>3. Shape'
  BY <1>1, Numbers DEF Shape, Quits, SameTask, OpsTyped
<1>4. Synced'
  BY <1>1 DEF Synced, Quits, SameTask, Done, Outside
<1>5. Calls'
  BY DEF Calls, Quits, InCall
<1> QED BY <1>2, <1>3, <1>4, <1>5, QuietStep

\* A step of the coordinator between two tests.
Onward ==
    /\ pc \notin {"receipted", "handing", "handed"}
    /\ pc' \notin Outside \cup {"receipted", "look", "validate", "capture"}
    /\ SameTask(mem', ckpt') /\ SameTask(ckpt', ckpt')
    /\ ckpt'.repairs = ckpt.repairs /\ ckpt'.fingerprint = ckpt.fingerprint
    /\ ckpt'.patch = ckpt.patch
    /\ ckpt'.phase # "complete" /\ ckpt.phase # "complete" /\ ckpt.fingerprint # NoFingerprint
    /\ ckpt'.phase = "repair" => ckpt.phase = "repair"

LEMMA OnwardStep ==
    ASSUME IInv, Onward, OpsTyped', VerifyKept, World, n' \in {0, n}, Calls',
           ~(pc' = "calling" /\ call'[1] = "verify")
    PROVE  IInv'
<1> USE DEF IInv
<1>1. Done' = Done /\ Done \in Nat /\ Received' = Received
  BY Numbers DEF Shape, Onward, Done, Received
<1>2. Quiet
  BY <1>1 DEF Quiet, Onward, World, Outside
<1>3. Shape'
  BY <1>1, Numbers DEF Shape, Onward, SameTask, OpsTyped, World
<1>4. Synced'
  BY <1>1 DEF Synced, Onward, SameTask, Done
<1> QED BY <1>2, <1>3, <1>4, QuietStep

\* What becomes of an operation that is asked for.
Performs(k) ==
    \/ Quits /\ ops' = ops
    \/ /\ ckpt' = ckpt /\ mem' = mem /\ n' = n /\ call' = k
       /\ OpsTyped' /\ \A l \in Keys \ {k} : ops'[l] = ops[l]
       /\ \/ pc' = "returned" /\ ops[k].status = "done" /\ ops' = ops
          \/ /\ pc' = "calling" /\ ops[k].status # "done"
             /\ k \in Keys => ops'[k].status = "running"

LEMMA Performed ==
    ASSUME Shape, NEW k, Perform(k)
    PROVE  Performs(k)
<1>1. ASSUME Dispatch(k), ops[k].status # "done" PROVE Performs(k)
  <2>1. /\ OpsTyped' /\ \A l \in Keys \ {k} : ops'[l] = ops[l]
        /\ k \in Keys => ops'[k].status = "running"
    BY <1>1 DEF Dispatch, NoAttempt, Shape, OpsTyped, RowShape
  <2> QED BY <1>1, <2>1 DEF Dispatch, Performs
<1>2. ASSUME Pause("retry_requires_explicit_request"), ops' = ops PROVE Performs(k)
  BY <1>2, PauseQuits DEF Performs
<1>3. CASE ops[k].status = "done" /\ pc' = "returned" /\ call' = k /\
           UNCHANGED <<ckpt, mem, ops, retry, written, n>>
  BY <1>3 DEF Performs, Shape, OpsTyped
<1> QED BY <1>1, <1>2, <1>3 DEF Perform

\* Any operation but a verifying check.
LEMMA PerformStep ==
    ASSUME IInv, NEW k, k[1] # "verify", Perform(k), World, n = 0,
           pc \notin Outside \cup {"receipted"},
           k[1] = "apply" => Done > 0 /\ ~Received
    PROVE  IInv'
<1> USE DEF IInv
<1>1. Performs(k)
  BY Performed
<1>2. CASE Quits /\ ops' = ops
  <2>1. VerifyKept /\ OpsTyped' /\ DOMAIN tree' = Paths
    BY <1>2 DEF VerifyKept, Row, Shape, OpsTyped, World
  <2> QED BY <1>2, <2>1, QuitStep DEF World
<1>3. CASE /\ ckpt' = ckpt /\ mem' = mem /\ n' = n /\ call' = k
           /\ OpsTyped' /\ \A l \in Keys \ {k} : ops'[l] = ops[l]
           /\ pc' \in {"returned", "calling"}
  <2>1. VerifyKept
    <3> SUFFICES ASSUME NEW i \in 1..MaxRepairs, NEW j \in 1..Checks
                 PROVE  Row(i, j)' = Row(i, j)
      BY DEF VerifyKept
    <3>1. <<"verify", i, j>> \in Keys /\ <<"verify", i, j>> # k
      BY VerifyKeys
    <3> QED BY <1>3, <3>1 DEF Row
  <2>2. Onward
    BY <1>3 DEF Onward, Synced, Shape, SameTask, Outside
  <2>3. Calls'
    BY <1>3, Numbers DEF Calls, InCall, Received, Done
  <2> QED BY <1>3, <2>1, <2>2, <2>3, OnwardStep
<1> QED BY <1>1, <1>2, <1>3 DEF Performs

LEMMA SameOps ==
    ASSUME Shape, ops' = ops, World
    PROVE  OpsTyped' /\ VerifyKept /\ DOMAIN tree' = Paths
BY DEF Shape, OpsTyped, VerifyKept, Row, World

LEMMA PauseStep ==
    ASSUME IInv, NEW why, Pause(why), ops' = ops, World
    PROVE  IInv'
BY PauseQuits, SameOps, QuitStep DEF IInv, World

LEMMA RaiseStep ==
    ASSUME IInv, Raise, ops' = ops, World
    PROVE  IInv'
BY RaiseQuits, SameOps, QuitStep DEF IInv, World

\* Bookkeeping that is saved, and on with the loop.
LEMMA SaveStep ==
    ASSUME IInv, NEW s, DOMAIN s = Fields, Save(s),
           s.repairs = mem.repairs, s.fingerprint = mem.fingerprint,
           s.patch = mem.patch, s.phase # "complete",
           s.phase = "repair" => mem.phase = "repair",
           pc \notin Outside \cup {"receipted"}, pc' \in {"loop", "asked", "decided"},
           n' = 0, OpsTyped', VerifyKept, World
    PROVE  IInv'
<1>1. mem' = ckpt' /\ SameTask(ckpt', s)
  BY Saved
<1>2. Onward
  BY <1>1 DEF Onward, SameTask, IInv, Synced, Shape, Outside
<1>3. Calls'
  BY <1>1, TaskAssumption DEF Calls, InCall
<1> QED BY <1>2, <1>3, OnwardStep

LEMMA RoundKeys ==
    ASSUME Shape, NewKeys
    PROVE  OpsTyped' /\ VerifyKept
<1>1. OpsTyped'
  BY DEF NewKeys, Shape, OpsTyped, NoAttempt, RowShape
<1>2. VerifyKept
  <2> SUFFICES ASSUME NEW i \in 1..MaxRepairs, NEW j \in 1..Checks
               PROVE  Row(i, j)' = Row(i, j)
    BY DEF VerifyKept
  <2>1. <<"verify", i, j>> \in Keys /\ <<"verify", i, j>> # <<"decide", 0, 0>>
        /\ <<"verify", i, j>> # <<"act", 0, 0>>
    BY VerifyKeys
  <2> QED BY <2>1 DEF Row, NewKeys, Shape
<1> QED BY <1>1, <1>2

\* The end of a round.
LEMMA RoundStep ==
    ASSUME IInv, NEW s, DOMAIN s = Fields, EndRound(s),
           s.repairs = mem.repairs, s.fingerprint = mem.fingerprint,
           s.patch = mem.patch, s.phase = mem.phase,
           pc \notin Outside \cup {"receipted"}, n = 0, World
    PROVE  IInv'
<1> DEFINE r == [s EXCEPT !.round = @ + 1]
<1>1. DOMAIN r = Fields /\ r.repairs = s.repairs /\ r.fingerprint = s.fingerprint
      /\ r.patch = s.patch /\ r.phase = s.phase
  BY DEF Fields
<1>2. /\ DOMAIN Cleared(r) = Fields /\ Cleared(r).repairs = r.repairs
      /\ Cleared(r).fingerprint = r.fingerprint
      /\ Cleared(r).patch = r.patch /\ Cleared(r).phase = r.phase
  <2> HIDE DEF r
  <2> QED BY <1>1 DEF Cleared, Fields
<1>3. Save(Cleared(r)) /\ pc' = "loop" /\ n' = 0
  BY DEF EndRound, Goto, local
<1>4. mem.phase # "complete"
  BY DEF IInv, Synced
<1>5. OpsTyped' /\ VerifyKept
  BY RoundKeys DEF EndRound, IInv
<1> HIDE DEF r
<1> QED BY <1>1, <1>2, <1>3, <1>4, <1>5, SaveStep

-----------------------------------------------------------------------------
(* run(), step by step.                                                    *)

LEMMA StartStep ==
    ASSUME IInv, NEW again, Start(again)
    PROVE  IInv'
<1> USE DEF IInv
<1>1. OpsTyped' /\ VerifyKept
  <2>1. OpsTyped'
    BY DEF Start, Recovered, Shape, OpsTyped, RowShape
  <2>2. ASSUME NEW k \in Keys
        PROVE  ops'[k] = ops[k] \/ (ops[k].status = "running" /\ ops'[k].status = "uncertain")
    BY DEF Start, Recovered, Shape, RowShape
  <2> QED BY <2>1, <2>2, VerifyKeys DEF VerifyKept, Row
<1>2. n = 0 /\ n' = n /\ pc' = "open" /\ mem' = ckpt /\ ckpt' = ckpt /\ World
  BY Numbers DEF Start, Calls, InCall, World, history
<1>3. Quiet
  BY <1>1, <1>2 DEF Quiet, World, Received, Done, Start
<1>4. Shape'
  BY <1>1, <1>2 DEF Shape, OpsTyped, World, Done
<1>5. Synced' /\ Calls'
  BY <1>2 DEF Synced, Calls, InCall, Outside, Done, Start
<1> QED BY <1>3, <1>4, <1>5, QuietStep

LEMMA FirstFingerprintStep ==
    ASSUME IInv, FirstFingerprint
    PROVE  IInv'
<1> USE DEF IInv
<1> DEFINE s == [mem EXCEPT !.fingerprint = tree]
<1>1. /\ DOMAIN s = Fields /\ s.phase = mem.phase /\ s.repairs = mem.repairs
      /\ s.patch = mem.patch
  BY DEF Shape, Fields
<1>2. Save(s) /\ pc = "open" /\ pc' = pc /\ n' = n /\ World /\ ops' = ops
  BY DEF FirstFingerprint, World, local, history
<1> HIDE DEF s
<1>3. /\ mem' = ckpt' /\ DOMAIN ckpt' = Fields /\ ckpt'.phase = mem.phase
      /\ ckpt'.repairs = mem.repairs /\ ckpt'.patch = mem.patch
  BY <1>1, <1>2, Saved DEF SameTask
<1>4. n = 0 /\ Done = 0 /\ ckpt.patch = None
  BY <1>2, Numbers DEF Calls, InCall, Synced, FirstFingerprint
<1>5. Done' = 0 /\ ckpt'.patch = None /\ ckpt'.repairs = ckpt.repairs
  BY <1>2, <1>3, <1>4 DEF Synced, Done
<1>6. Shape'
  BY <1>2, <1>3, <1>5, Numbers DEF Shape, World
<1>7. Synced' /\ Calls'
  BY <1>2, <1>3, <1>4, <1>5 DEF Synced, Calls, InCall, Outside
<1>8. Rows'
  BY <1>2, <1>4, <1>5 DEF Rows, Row
<1>9. Tests'
  BY <1>2, <1>4, <1>5, Numbers DEF Tests, World
<1> QED BY <1>6, <1>7, <1>8, <1>9

LEMMA OpenStep ==
    ASSUME IInv, Open
    PROVE  IInv'
<1> USE DEF IInv
<1>1. ops' = ops /\ World /\ pc = "open" /\ mem.fingerprint # NoFingerprint
  BY DEF Open, World, history
<1>2. n = 0
  BY <1>1, Numbers DEF Calls, InCall
<1>3. CASE Pause("worktree_changed")
  BY <1>1, <1>3, PauseStep
<1>4. ASSUME NEW c, Return(Stopped(c.status, c.stop))
      PROVE  IInv'
  <2>1. SameTask(Stopped(c.status, c.stop), mem)
    BY DEF Stopped, SameTask, Shape, Fields
  <2>2. Quits
    BY <1>4, <2>1, Saved DEF Return, Leave, Quits, SameTask
  <2> QED BY <1>1, <2>2, SameOps, QuitStep DEF World
<1>5. CASE /\ mem.phase # "complete" /\ mem' = Stopped("running", None)
           /\ Goto("loop") /\ UNCHANGED ckpt
  <2>1. SameTask(Stopped("running", None), mem)
    BY DEF Stopped, SameTask, Shape, Fields
  <2>2. Onward
    BY <1>1, <1>5, <2>1 DEF Onward, Goto, Outside, SameTask, Synced, Shape
  <2>3. Calls' /\ n' = 0 /\ pc' = "loop"
    BY <1>2, <1>5, TaskAssumption DEF Goto, local, Calls, InCall
  <2> QED BY <1>1, <2>2, <2>3, SameOps, OnwardStep
<1> QED BY <1>3, <1>4, <1>5 DEF Open

\* A task that ends without a patch.
LEMMA CompleteStep ==
    ASSUME IInv, NEW s, Return(s), ops' = ops, World,
           DOMAIN s = Fields, s.phase = "complete", s.repairs = mem.repairs,
           s.fingerprint = mem.fingerprint, s.patch = mem.patch,
           pc \notin Outside \cup {"receipted"}
    PROVE  IInv'
<1> USE DEF IInv
<1>1. pc' = "out" /\ n' = 0 /\ mem' = ckpt' /\ SameTask(ckpt', s)
  BY Saved DEF Return, Leave
<1>2. OpsTyped' /\ VerifyKept
  BY SameOps
<1>3. ckpt'.repairs = ckpt.repairs /\ Done' = Done /\ Received' = Received
  BY <1>1 DEF SameTask, Synced, Done, Received
<1>4. Quiet
  BY <1>1, <1>2, <1>3 DEF Quiet, SameTask, Synced, World
<1>5. Shape'
  BY <1>1, <1>2, <1>3, Numbers DEF Shape, SameTask, OpsTyped, World
<1>6. Synced' /\ Calls'
  BY <1>1, <1>3 DEF Synced, SameTask, Calls, InCall, Outside, Done
<1> QED BY <1>4, <1>5, <1>6, QuietStep

\* Anything but a check of a repair is called, and comes back, with no check
\* counted.
LEMMA NoneCounted ==
    ASSUME IInv,
           \/ pc \in {"asked", "decided", "prepared", "receipted", "open"}
           \/ pc = "loop" /\ mem.phase # "repair"
           \/ InCall /\ call[1] # "verify"
    PROVE  n = 0
BY Numbers DEF IInv, Calls, Synced, InCall

LEMMA BaselineStep ==
    ASSUME IInv, Baseline
    PROVE  IInv'
<1>1. World /\ pc = "loop" /\ mem.phase = "baseline" /\ n = 0
  BY NoneCounted DEF Baseline, At, World, history
<1>2. ASSUME NEW k, k[1] \in {"baseline", "discover"}, Perform(k)
      PROVE  IInv'
  BY <1>1, <1>2, PerformStep DEF Outside
<1>3. CASE Fresh(<<"baseline", mem.baseline.ran + 1, 0>>)
  BY <1>1, <1>2, <1>3, PauseStep DEF Fresh
<1>4. CASE Perform(<<"discover", 0, 0>>)
  BY <1>2, <1>4
<1>5. CASE /\ Return([mem EXCEPT !.status = "not_reproduced", !.phase = "complete"])
           /\ ops' = ops
  <2> DEFINE s == [mem EXCEPT !.status = "not_reproduced", !.phase = "complete"]
  <2>1. /\ DOMAIN s = Fields /\ s.phase = "complete" /\ s.repairs = mem.repairs
        /\ s.fingerprint = mem.fingerprint /\ s.patch = mem.patch
    BY DEF Fields, IInv, Shape
  <2> HIDE DEF s
  <2>2. Return(s) /\ ops' = ops
    BY <1>5 DEF s
  <2> QED BY <1>1, <2>1, <2>2, CompleteStep DEF Outside
<1> QED BY <1>3, <1>4, <1>5 DEF Baseline

LEMMA BaselineCameStep ==
    ASSUME IInv, BaselineCame
    PROVE  IInv'
<1>1. World /\ pc = "returned" /\ call[1] = "baseline" /\ n = 0 /\ mem.phase # "complete"
  BY NoneCounted DEF BaselineCame, Came, World, history, InCall, IInv, Synced, Outside
<1>2. ASSUME NEW why, Pause(why), ops' = ops PROVE IInv'
  BY <1>1, <1>2, PauseStep
<1>3. ASSUME NEW x,
             Save([mem EXCEPT !.baseline.ran = @ + 1, !.baseline.failed = x]),
             ops' = [ops EXCEPT ![call] = NoAttempt], Goto("loop")
      PROVE  IInv'
  <2> DEFINE s == [mem EXCEPT !.baseline.ran = @ + 1, !.baseline.failed = x]
  <2>1. /\ DOMAIN s = Fields /\ s.phase = mem.phase /\ s.repairs = mem.repairs
        /\ s.fingerprint = mem.fingerprint /\ s.patch = mem.patch
    BY DEF Fields, IInv, Shape
  <2> HIDE DEF s
  <2>2. OpsTyped'
    BY <1>3 DEF NoAttempt, IInv, Shape, OpsTyped, RowShape
  <2>3. VerifyKept
    <3> SUFFICES ASSUME NEW i \in 1..MaxRepairs, NEW j \in 1..Checks
                 PROVE  Row(i, j)' = Row(i, j)
      BY DEF VerifyKept
    <3>1. <<"verify", i, j>> \in Keys /\ <<"verify", i, j>> # call
      BY <1>1, VerifyKeys
    <3> QED BY <1>3, <3>1 DEF Row, IInv, Shape
  <2>4. Save(s) /\ pc' = "loop" /\ n' = n
    BY <1>3 DEF s, Goto, local
  <2> QED BY <1>1, <2>1, <2>2, <2>3, <2>4, SaveStep DEF Outside
<1> QED BY <1>2, <1>3 DEF BaselineCame

LEMMA DiscoveredStep ==
    ASSUME IInv, Discovered
    PROVE  IInv'
<1>1. World /\ pc = "returned" /\ call[1] = "discover" /\ n = 0 /\ ops' = ops
  BY NoneCounted DEF Discovered, Came, World, history, InCall
<1> DEFINE s == [mem EXCEPT !.phase = "investigate"]
<1>2. /\ DOMAIN s = Fields /\ s.phase = "investigate" /\ s.repairs = mem.repairs
      /\ s.fingerprint = mem.fingerprint /\ s.patch = mem.patch
  BY DEF Fields, IInv, Shape
<1>3. Save(s) /\ pc' = "loop" /\ n' = n
  BY DEF Discovered, Goto, local
<1> HIDE DEF s
<1> QED BY <1>1, <1>2, <1>3, SameOps, SaveStep DEF Outside, IInv

LEMMA CannotGoOnStep ==
    ASSUME IInv, CannotGoOn
    PROVE  IInv'
BY PauseStep DEF CannotGoOn, World, history

\* A round asks, and calls what was decided.
LEMMA AskStep ==
    ASSUME IInv, Ask \/ AskNow \/ Operate
    PROVE  IInv'
<1>1. /\ World /\ pc \in {"loop", "asked", "decided"} /\ n = 0
      /\ mem.phase # "complete"
  BY NoneCounted
  DEF Ask, AskNow, Operate, ToDo, InRound, At, World, history, IInv, Synced, Outside
<1>2. ASSUME NEW k, k[1] \in {"decide", "act"}, Perform(k)
      PROVE  IInv'
  BY <1>1, <1>2, PerformStep DEF Outside
<1>3. CASE Save([mem EXCEPT !.request = TRUE]) /\ Goto("asked") /\ ops' = ops
  <2> DEFINE s == [mem EXCEPT !.request = TRUE]
  <2>1. /\ DOMAIN s = Fields /\ s.phase = mem.phase /\ s.repairs = mem.repairs
        /\ s.fingerprint = mem.fingerprint /\ s.patch = mem.patch
    BY DEF Fields, IInv, Shape
  <2>2. Save(s) /\ pc' = "asked" /\ n' = n
    BY <1>3 DEF Goto, local
  <2> HIDE DEF s
  <2> QED BY <1>1, <1>3, <2>1, <2>2, SameOps, SaveStep DEF Outside, IInv
<1> QED BY <1>2, <1>3 DEF Ask, AskNow, Operate

LEMMA DecidedStep ==
    ASSUME IInv, Decided
    PROVE  IInv'
<1>1. World /\ pc = "returned" /\ call[1] = "decide" /\ n = 0 /\ ops' = ops
      /\ mem.phase # "complete"
  BY NoneCounted DEF Decided, Came, World, history, InCall, IInv, Synced, Outside
<1>2. ASSUME NEW why, Pause(why) PROVE IInv'
  BY <1>1, <1>2, PauseStep
<1>3. ASSUME NEW x, Save([mem EXCEPT !.decision = x]), Goto("decided")
      PROVE  IInv'
  <2> DEFINE s == [mem EXCEPT !.decision = x]
  <2>1. /\ DOMAIN s = Fields /\ s.phase = mem.phase /\ s.repairs = mem.repairs
        /\ s.fingerprint = mem.fingerprint /\ s.patch = mem.patch
    BY DEF Fields, IInv, Shape
  <2>2. Save(s) /\ pc' = "decided" /\ n' = n
    BY <1>3 DEF Goto, local
  <2> HIDE DEF s
  <2> QED BY <1>1, <2>1, <2>2, SameOps, SaveStep DEF Outside, IInv
<1> QED BY <1>2, <1>3 DEF Decided

LEMMA OperatedStep ==
    ASSUME IInv, Operated
    PROVE  IInv'
<1>1. World /\ pc = "returned" /\ call[1] = "act" /\ n = 0
  BY NoneCounted DEF Operated, Came, World, history, InCall
<1>2. ASSUME NEW why, Pause(why), ops' = ops PROVE IInv'
  BY <1>1, <1>2, PauseStep
<1>3. ASSUME NEW x, EndRound([mem EXCEPT !.analyzed = x])
      PROVE  IInv'
  <2> DEFINE s == [mem EXCEPT !.analyzed = x]
  <2>1. /\ DOMAIN s = Fields /\ s.phase = mem.phase /\ s.repairs = mem.repairs
        /\ s.fingerprint = mem.fingerprint /\ s.patch = mem.patch
    BY DEF Fields, IInv, Shape
  <2>2. EndRound(s)
    BY <1>3
  <2> HIDE DEF s
  <2> QED BY <1>1, <2>1, <2>2, RoundStep DEF Outside
<1>4. ASSUME NEW x, EndRound([mem EXCEPT !.views = x])
      PROVE  IInv'
  <2> DEFINE s == [mem EXCEPT !.views = x]
  <2>1. /\ DOMAIN s = Fields /\ s.phase = mem.phase /\ s.repairs = mem.repairs
        /\ s.fingerprint = mem.fingerprint /\ s.patch = mem.patch
    BY DEF Fields, IInv, Shape
  <2>2. EndRound(s)
    BY <1>4
  <2> HIDE DEF s
  <2> QED BY <1>1, <2>1, <2>2, RoundStep DEF Outside
<1>5. CASE EndRound(mem)
  BY <1>1, <1>5, RoundStep DEF Outside, IInv, Shape
<1> QED BY <1>2, <1>3, <1>4, <1>5 DEF Operated

LEMMA StopStep ==
    ASSUME IInv, Stop
    PROVE  IInv'
<1>1. World /\ ops' = ops /\ pc \in {"loop", "decided"}
  BY DEF Stop, ToDo, InRound, At, World, history
<1> DEFINE r == [mem EXCEPT !.status = "inconclusive", !.phase = "complete",
                            !.stop = "reason", !.round = @ + 1]
           s == [r EXCEPT !.request = FALSE, !.decision = None]
<1>2. /\ DOMAIN r = Fields /\ r.phase = "complete" /\ r.repairs = mem.repairs
      /\ r.fingerprint = mem.fingerprint /\ r.patch = mem.patch
  BY DEF Fields, IInv, Shape
<1>3. Return(s)
  BY DEF Stop, Cleared
<1> HIDE DEF r
<1>4. /\ DOMAIN s = Fields /\ s.phase = "complete" /\ s.repairs = mem.repairs
      /\ s.fingerprint = mem.fingerprint /\ s.patch = mem.patch
  BY <1>2 DEF Fields
<1> HIDE DEF s
<1> QED BY <1>1, <1>3, <1>4, CompleteStep DEF Outside

-----------------------------------------------------------------------------
(* A repair, up to its fingerprint.                                        *)

LEMMA PrepareRepairStep ==
    ASSUME IInv, PrepareRepair
    PROVE  IInv'
<1> USE DEF IInv
<1>1. World /\ pc \in {"loop", "decided"} /\ n = 0
  BY NoneCounted DEF PrepareRepair, ToDo, InRound, At, World, history
<1>2. ASSUME NEW why, Pause(why), ops' = ops PROVE IInv'
  BY <1>1, <1>2, PauseStep
<1>3. CASE EndRound(mem)
  BY <1>1, <1>3, RoundStep DEF Outside, Shape
<1>4. CASE Raise /\ ops' = ops
  BY <1>1, <1>4, RaiseStep
<1>5. ASSUME NEW e, e.receipt = FALSE, Len(mem.repairs) < MaxRepairs, ops' = ops,
             Save([mem EXCEPT !.phase = "repair", !.repairs = Append(@, e)]),
             Goto("prepared")
      PROVE  IInv'
  <2> DEFINE s == [mem EXCEPT !.phase = "repair", !.repairs = Append(@, e)]
  <2>1. /\ DOMAIN s = Fields /\ s.phase = "repair" /\ s.repairs = Append(ckpt.repairs, e)
        /\ s.fingerprint = mem.fingerprint /\ s.patch = mem.patch
    BY <1>1 DEF Fields, Shape, Synced
  <2>2. Save(s) /\ pc' = "prepared" /\ n' = n
    BY <1>5 DEF Goto, local
  <2> HIDE DEF s
  <2>3. mem' = ckpt' /\ SameTask(ckpt', s)
    BY <2>1, <2>2, Saved
  <2>4. /\ IsSeq(ckpt'.repairs) /\ Done' = Done + 1 /\ ~Received'
        /\ Done \in Nat /\ Done < MaxRepairs
    BY <1>5, <2>1, <2>3, Appended DEF Shape, Synced, SameTask, Done, Received
  <2>5. ckpt.patch = None /\ ckpt.fingerprint # NoFingerprint
    BY <1>1 DEF Synced, Outside
  <2>6. Shape'
    BY <1>1, <1>5, <2>2, <2>3, <2>4, TaskAssumption DEF Shape, SameTask, World
  <2>7. Synced' /\ Calls'
    BY <1>1, <2>1, <2>2, <2>3, <2>4, <2>5
    DEF Synced, Calls, InCall, SameTask, Outside, Done
  <2>8. Rows'
    <3> SUFFICES ASSUME NEW j \in 1..Checks
                 PROVE  /\ \A i \in 1..MaxRepairs :
                              /\ i > Done' => Row(i, j)'.status = "none"
                              /\ Row(i, j)'.status = "failed" => Row(i, j)'.result = "bad"
                        /\ Row(Done, j)'.status = "none"
      BY DEF Rows
    <3>1. \A i \in 1..MaxRepairs : Row(i, j)' = Row(i, j)
      BY <1>5 DEF Row
    <3>2. Done' \in 1..MaxRepairs /\ Row(Done, j)' = Row(Done + 1, j)
      BY <1>5, <2>4, TaskAssumption DEF Row
    <3> QED BY <2>4, <3>1, <3>2 DEF Rows
  <2>9. Tests'
    BY <1>1, <2>1, <2>2, <2>3, <2>5 DEF Tests, World, SameTask, Synced
  <2> QED BY <2>6, <2>7, <2>8, <2>9
<1> DEFINE e == mem.decision.edit
           r == [edit |-> e, receipt |-> FALSE, before |-> [f \in DOMAIN e |-> tree[f]]]
<1>6. \/ Pause("repair_budget") /\ ops' = ops
      \/ EndRound(mem)
      \/ Raise /\ ops' = ops
      \/ /\ Len(mem.repairs) < MaxRepairs /\ ops' = ops
         /\ Save([mem EXCEPT !.phase = "repair", !.repairs = Append(@, r)])
         /\ Goto("prepared")
  <2>1. Len(mem.repairs) \in Nat /\ MaxRepairs \in Nat
    BY Lengths, Numbers DEF Shape
  <2> QED BY <2>1 DEF PrepareRepair
<1>7. r.receipt = FALSE
  OBVIOUS
<1> HIDE DEF r
<1> QED BY <1>2, <1>3, <1>4, <1>5, <1>6, <1>7

LEMMA RoundOverStep ==
    ASSUME IInv, RoundOver
    PROVE  IInv'
BY NoneCounted, RoundStep DEF RoundOver, World, history, Outside, IInv, Shape

\* _repair() works on the last of the repairs that are saved.
LEMMA LastRepair ==
    ASSUME IInv, At("repair")
    PROVE  /\ Index = Done /\ Done \in 1..MaxRepairs
           /\ Repair.receipt <=> Received
           /\ pc \notin Outside \cup {"receipted"}
BY Numbers DEF IInv, At, Synced, Index, Repair, Done, Received, Outside

LEMMA ApplyStep ==
    ASSUME IInv, Apply
    PROVE  IInv'
<1> DEFINE k == <<"apply", Index, 0>>
<1>1. /\ World /\ ~Received /\ Done > 0 /\ n = 0 /\ At("repair")
      /\ pc \notin Outside \cup {"receipted"} /\ pc = "loop"
  BY LastRepair, Numbers DEF Apply, World, history, IInv, Calls, At
<1>2. CASE Perform(k)
  BY <1>1, <1>2, PerformStep
<1>3. ASSUME NEW why, Pause(why), ops' = ops PROVE IInv'
  BY <1>1, <1>3, PauseStep
<1>4. CASE /\ ops' = [ops EXCEPT ![k].status = "done"]
           /\ pc' = "returned" /\ call' = k
           /\ UNCHANGED <<ckpt, mem, retry, written, n>>
  <2>1. OpsTyped'
    BY <1>4 DEF IInv, Shape, OpsTyped, RowShape
  <2>2. VerifyKept
    <3> SUFFICES ASSUME NEW i \in 1..MaxRepairs, NEW j \in 1..Checks
                 PROVE  Row(i, j)' = Row(i, j)
      BY DEF VerifyKept
    <3>1. <<"verify", i, j>> \in Keys /\ <<"verify", i, j>> # k
      BY VerifyKeys
    <3> QED BY <1>4, <3>1 DEF Row, IInv, Shape
  <2>3. Onward
    BY <1>1, <1>4 DEF Onward, IInv, Synced, Shape, SameTask, Outside
  <2>4. Calls'
    BY <1>1, <1>4 DEF Calls, InCall, Received, Done
  <2> QED BY <1>1, <1>4, <2>1, <2>2, <2>3, <2>4, OnwardStep
<1> QED BY <1>2, <1>3, <1>4 DEF Apply, Reconcile

LEMMA ApplyFileStep ==
    ASSUME IInv, ApplyFile
    PROVE  IInv'
<1> USE DEF IInv
<1>1. /\ pc = "calling" /\ call[1] = "apply" /\ DOMAIN tree' = DOMAIN tree
      /\ UNCHANGED <<ckpt, mem, ops, pc, call, n, patched, meddled>>
  BY DEF ApplyFile, history
<1>2. ckpt.patch = None
  BY <1>1 DEF Synced, Outside
<1>3. Shape' /\ Synced' /\ Rows'
  BY <1>1 DEF Shape, Synced, Rows, Row, Done, Received
<1>4. Calls'
  BY <1>1 DEF Calls, InCall, Done, Received
<1>5. Tests'
  BY <1>1, <1>2 DEF Tests, Row, Done
<1> QED BY <1>3, <1>4, <1>5

LEMMA ApplyRefusedStep ==
    ASSUME IInv, ApplyRefused
    PROVE  IInv'
<1>1. OpsTyped'
  BY DEF ApplyRefused, IInv, Shape, OpsTyped, RowShape
<1>2. VerifyKept
  <2> SUFFICES ASSUME NEW i \in 1..MaxRepairs, NEW j \in 1..Checks
               PROVE  Row(i, j)' = Row(i, j)
    BY DEF VerifyKept
  <2>1. <<"verify", i, j>> \in Keys /\ <<"verify", i, j>> # call
    BY VerifyKeys DEF ApplyRefused
  <2> QED BY <2>1 DEF Row, ApplyRefused, IInv, Shape
<1>3. Quits
  BY RaiseQuits DEF ApplyRefused, IInv
<1> QED BY <1>1, <1>2, <1>3, QuitStep DEF ApplyRefused, history

\* The end of an operation that checks no repair.
LEMMA OutcomeStep ==
    ASSUME IInv, NEW status, NEW result, Outcome(status, result),
           pc = "calling", call[1] # "verify", meddled' = meddled
    PROVE  IInv'
<1>1. World /\ n = 0 /\ pc' = "returned" /\ n' = n /\ ckpt' = ckpt /\ mem' = mem /\ call' = call
  BY NoneCounted DEF Outcome, World, local, InCall
<1>2. OpsTyped'
  BY DEF Outcome, IInv, Shape, OpsTyped, RowShape
<1>3. VerifyKept
  <2> SUFFICES ASSUME NEW i \in 1..MaxRepairs, NEW j \in 1..Checks
               PROVE  Row(i, j)' = Row(i, j)
    BY DEF VerifyKept
  <2>1. <<"verify", i, j>> \in Keys /\ <<"verify", i, j>> # call
    BY VerifyKeys
  <2> QED BY <2>1 DEF Row, Outcome, IInv, Shape
<1>4. Onward
  BY <1>1 DEF Onward, IInv, Synced, Shape, SameTask, Outside
<1>5. Calls'
  BY <1>1 DEF IInv, Calls, InCall, Received, Done
<1> QED BY <1>1, <1>2, <1>3, <1>4, <1>5, OnwardStep

LEMMA ApplyEndStep ==
    ASSUME IInv, ApplyEnd
    PROVE  IInv'
BY OutcomeStep DEF ApplyEnd, history

\* The receipt is in memory, and no check has run.
LEMMA AppliedStep ==
    ASSUME IInv, Applied
    PROVE  IInv'
<1> USE DEF IInv
<1> DEFINE e == [mem.repairs[Index] EXCEPT !.receipt = TRUE]
<1>1. /\ pc = "returned" /\ call[1] = "apply" /\ n = 0 /\ pc' = "receipted"
      /\ UNCHANGED <<tree, ckpt, ops, call, n, patched, meddled>>
      /\ mem.repairs = ckpt.repairs
  BY NoneCounted DEF Applied, Came, InCall, history, Synced
<1>2. Done > 0 /\ ~Received /\ Done \in Nat /\ Index = Done
  BY <1>1, Numbers DEF Calls, InCall, Index, Done
<1>3. /\ mem' = [mem EXCEPT !.repairs = [mem.repairs EXCEPT ![Index] = e]]
  BY DEF Applied
<1> HIDE DEF e
<1>4. /\ DOMAIN mem' = Fields /\ mem'.repairs = [mem.repairs EXCEPT ![Index] = e]
      /\ mem'.phase = mem.phase /\ mem'.fingerprint = mem.fingerprint
      /\ mem'.patch = mem.patch
  BY <1>3 DEF Shape, Fields
<1>5. IsSeq(mem'.repairs) /\ Len(mem'.repairs) = Done
  <2>1. Len(mem.repairs) = Done /\ Index \in 1..Len(mem.repairs) /\ IsSeq(mem.repairs)
    BY <1>2 DEF Synced, Shape
  <2> DEFINE rs == mem.repairs  i == Index
  <2> HIDE DEF rs, i
  <2>2. i \in 1..Len(rs) /\ IsSeq(rs)
    BY <2>1 DEF rs, i
  <2>3. IsSeq([rs EXCEPT ![i] = e]) /\ Len([rs EXCEPT ![i] = e]) = Len(rs)
    BY <2>2, Replaced
  <2>4. mem'.repairs = [rs EXCEPT ![i] = e] /\ Len(rs) = Done
    BY <1>4, <2>1 DEF rs, i
  <2> QED BY <2>3, <2>4
<1>6. Shape'
  BY <1>1, <1>4, <1>5 DEF Shape, Done
<1>7. Synced' /\ Calls'
  BY <1>1, <1>2, <1>4, <1>5 DEF Synced, Calls, InCall, Outside, Done
<1>8. Rows'
  BY <1>1, <1>2 DEF Rows, Row, Done, Received
<1>9. Tests'
  BY <1>1 DEF Tests, Row, Done
<1> QED BY <1>6, <1>7, <1>8, <1>9

\* A fingerprint is taken of a worktree no check has seen.
LEMMA ReceiptedStep ==
    ASSUME IInv, Receipted
    PROVE  IInv'
<1> USE DEF IInv
<1> DEFINE s == [mem EXCEPT !.fingerprint = tree]
<1>1. /\ DOMAIN s = Fields /\ s.phase = mem.phase /\ s.repairs = mem.repairs
      /\ s.fingerprint = tree /\ s.patch = mem.patch
  BY DEF Shape, Fields
<1>2. Save(s) /\ pc = "receipted" /\ pc' = "loop" /\ n' = n /\ World /\ ops' = ops
  BY DEF Receipted, Refresh, Goto, local, World, history
<1> HIDE DEF s
<1>3. mem' = ckpt' /\ SameTask(ckpt', s)
  BY <1>1, <1>2, Saved
<1>4. n = 0 /\ Done > 0 /\ ckpt.patch = None /\ ckpt.phase # "complete" /\ Done \in Nat
  BY <1>2, NoneCounted, Numbers DEF Calls, Synced, Outside
<1>5. tree # NoFingerprint
  BY DEF Shape, Paths, NoFingerprint
<1>6. Done' = Done /\ IsSeq(ckpt'.repairs)
  BY <1>1, <1>3 DEF Shape, Synced, SameTask, Done
<1>7. Shape'
  BY <1>1, <1>2, <1>3, <1>6, Numbers DEF Shape, SameTask, World
<1>8. Synced' /\ Calls'
  BY <1>1, <1>2, <1>3, <1>4, <1>5, <1>6, TaskAssumption
  DEF Synced, SameTask, Calls, InCall, Outside, Done
<1>9. Rows'
  BY <1>2, <1>4, <1>6, Numbers DEF Rows, Row
<1>10. Tests'
  BY <1>1, <1>2, <1>3, <1>4, <1>6 DEF Tests, SameTask, World, Synced
<1> QED BY <1>7, <1>8, <1>9, <1>10

-----------------------------------------------------------------------------
(* The checks of a repair.                                                 *)

LEMMA ReinvestigateStep ==
    ASSUME IInv, Reinvestigate, World, pc \notin Outside \cup {"receipted"}
    PROVE  IInv'
<1> DEFINE r == [mem EXCEPT !.status = "running", !.phase = "investigate"]
           s == [r EXCEPT !.request = FALSE, !.decision = None]
<1>1. /\ DOMAIN r = Fields /\ r.phase = "investigate" /\ r.repairs = mem.repairs
      /\ r.fingerprint = mem.fingerprint /\ r.patch = mem.patch
  BY DEF Fields, IInv, Shape
<1>2. Save(s) /\ pc' = "loop" /\ n' = 0
  BY DEF Reinvestigate, Cleared
<1> HIDE DEF r
<1>3. /\ DOMAIN s = Fields /\ s.phase = "investigate" /\ s.repairs = mem.repairs
      /\ s.fingerprint = mem.fingerprint /\ s.patch = mem.patch
  BY <1>1 DEF Fields
<1>4. OpsTyped' /\ VerifyKept
  BY RoundKeys DEF Reinvestigate, IInv
<1> HIDE DEF s
<1> QED BY <1>2, <1>3, <1>4, SaveStep

\* A check is called in the worktree the fingerprint is of, or comes back from
\* an earlier run of the coordinator.
LEMMA VerifyStep ==
    ASSUME IInv, Verify
    PROVE  IInv'
<1> USE DEF IInv
<1> DEFINE k == <<"verify", Done, n + 1>>
<1>1. /\ World /\ pc = "loop" /\ Index = Done /\ Done \in 1..MaxRepairs /\ Received
      /\ ckpt.phase = "repair" /\ n \in Nat /\ n < Checks
      /\ k \in Keys /\ ckpt.patch = None /\ mem.fingerprint = ckpt.fingerprint
  <2>1. At("repair") /\ World /\ Index = Done /\ Done \in 1..MaxRepairs /\ Received
    BY LastRepair DEF Verify, World, history
  <2>2. pc = "loop" /\ ckpt.phase = "repair" /\ n \in Nat /\ n < Checks
    BY <2>1, Numbers DEF At, Synced, Calls
  <2> QED BY <2>1, <2>2, VerifyKeys, TaskAssumption DEF Synced, Outside
<1>2. ASSUME NEW why, Pause(why), ops' = ops PROVE IInv'
  BY <1>1, <1>2, PauseStep
<1>3. CASE Raise /\ ops' = ops
  BY <1>1, <1>3, RaiseStep
<1>4. CASE Reinvestigate
  BY <1>1, <1>4, ReinvestigateStep DEF Outside
<1>5. CASE Current /\ Perform(k)
  <2> HIDE DEF k
  <2>1. Performs(k)
    BY <1>5, Performed
  <2>2. CASE Quits /\ ops' = ops
    BY <1>1, <2>2, SameOps, QuitStep DEF World
  <2>3. CASE /\ ckpt' = ckpt /\ mem' = mem /\ n' = n /\ call' = k
             /\ OpsTyped' /\ \A l \in Keys \ {k} : ops'[l] = ops[l]
             /\ \/ pc' = "returned" /\ ops[k].status = "done" /\ ops' = ops
                \/ /\ pc' = "calling" /\ ops[k].status # "done"
                   /\ k \in Keys => ops'[k].status = "running"
    <3>1. Done' = Done /\ Received' = Received
      BY <2>3 DEF Done, Received
    <3>2. Shape' /\ Synced'
      BY <1>1, <2>3, <3>1 DEF Shape, Synced, OpsTyped, World, Outside
    <3>3. \A i \in 1..MaxRepairs, j \in 1..Checks :
              \/ Row(i, j)' = Row(i, j)
              \/ i = Done /\ j = n + 1 /\ Row(i, j)'.status = "running"
      BY <1>1, <2>3, VerifyKeys DEF Row, k
    <3>4. Rows'
      BY <1>1, <2>3, <3>1, <3>3 DEF Rows, World
    <3>5. Calls'
      BY <1>1, <2>3, <3>1 DEF Calls, InCall, k
    <3>6. \A j \in 1..n : Row(Done, j)' = Row(Done, j)
      BY <1>1, <2>3, <3>1, <3>3, TaskAssumption DEF Row
    <3>7. Tests'
      BY <1>1, <1>5, <2>3, <3>1, <3>6 DEF Tests, World, Current
    <3> QED BY <3>2, <3>4, <3>5, <3>7
  <2> QED BY <2>1, <2>2, <2>3 DEF Performs
<1>6. CASE Fresh(k)
  BY <1>2, <1>5, <1>6 DEF Fresh
<1> QED BY <1>1, <1>3, <1>4, <1>6 DEF Verify

\* What the check saw is the fingerprint's worktree, unless somebody wrote.
LEMMA EndStep ==
    ASSUME IInv, End
    PROVE  IInv'
<1> USE DEF IInv
<1>1. /\ pc = "calling" /\ call[1] # "apply" /\ meddled' = meddled
      /\ \E x : Outcome("done", x) \/ (x = "bad" /\ Outcome("failed", x))
  BY DEF End, history
<1>2. CASE call[1] # "verify"
  BY <1>1, <1>2, OutcomeStep
<1>3. CASE call[1] = "verify"
  <2>1. PICK x, status :
           /\ status \in {"done", "failed"} /\ (status = "failed" => x = "bad")
           /\ Outcome(status, x)
    BY <1>1
  <2>2. /\ call = <<"verify", Done, n + 1>> /\ n < Checks /\ Received
        /\ ckpt.phase = "repair" /\ n \in Nat /\ Done \in 1..MaxRepairs
    BY <1>1, <1>3, Numbers DEF Calls, InCall, Received
  <2>3. call \in Keys
    BY <2>2, VerifyKeys, TaskAssumption
  <2>4. /\ pc' = "returned" /\ World /\ ckpt' = ckpt /\ mem' = mem /\ n' = n
        /\ call' = call /\ Done' = Done /\ Received' = Received
        /\ ops' = [ops EXCEPT ![call] = [status |-> status, result |-> x, on |-> tree]]
    BY <1>1, <1>3, <2>1 DEF Outcome, local, World, Done, Received
  <2>5. \A i \in 1..MaxRepairs, j \in 1..Checks :
           IF i = Done /\ j = n + 1
           THEN Row(i, j)' = [status |-> status, result |-> x, on |-> tree]
           ELSE Row(i, j)' = Row(i, j)
    BY <2>2, <2>3, <2>4, VerifyKeys DEF Row, Shape
  <2>6. Shape' /\ Synced'
    BY <1>1, <2>4 DEF Shape, Synced, RowShape, World, Outside
  <2>7. Rows'
    <3> SUFFICES ASSUME NEW j \in 1..Checks
                 PROVE  /\ \A i \in 1..MaxRepairs :
                              /\ i > Done => Row(i, j)'.status = "none"
                              /\ Row(i, j)'.status = "failed" => Row(i, j)'.result = "bad"
                        /\ ~meddled /\ Row(Done, j)'.status = "done" =>
                              Row(Done, j)'.on = ckpt.fingerprint
      BY <2>2, <2>4 DEF Rows, World
    <3>1. \A i \in 1..MaxRepairs :
              /\ i > Done => Row(i, j)'.status = "none"
              /\ Row(i, j)'.status = "failed" => Row(i, j)'.result = "bad"
      BY <2>1, <2>2, <2>5 DEF Rows
    <3>2. ~meddled => tree = ckpt.fingerprint
      BY <1>1, <1>3 DEF Tests
    <3>3. ~meddled /\ Row(Done, j)'.status = "done" => Row(Done, j)'.on = ckpt.fingerprint
      <4>1. Row(Done, j)' = IF j = n + 1 THEN [status |-> status, result |-> x, on |-> tree]
                            ELSE Row(Done, j)
        BY <2>2, <2>4, <2>5 DEF Row
      <4>2. ~meddled /\ Row(Done, j).status = "done" => Row(Done, j).on = ckpt.fingerprint
        BY <2>2 DEF Rows
      <4> QED BY <3>2, <4>1, <4>2
    <3> QED BY <3>1, <3>3
  <2>8. ops'[call].status = status
    BY <2>3, <2>4 DEF Shape
  <2>9. Calls'
    BY <2>1, <2>2, <2>4, <2>8 DEF Calls, InCall
  <2>10. \A j \in 1..n : Row(Done, j)' = Row(Done, j)
    BY <2>2, <2>4, <2>5 DEF Row
  <2>11. ckpt.patch = None
    BY <1>1 DEF Synced, Outside
  <2>12. Tests'
    BY <2>2, <2>4, <2>10, <2>11 DEF Tests, World
  <2> QED BY <2>6, <2>7, <2>9, <2>12
<1> QED BY <1>2, <1>3

\* From a check that came back to the next, a step changes its place only.
Moves ==
    /\ UNCHANGED <<tree, ckpt, mem, ops, call, patched, meddled>>
    /\ pc \notin Outside \cup {"receipted"}
    /\ pc' \in {"look", "loop", "validate", "capture"} /\ n' \in 0..Checks

LEMMA MovesStep ==
    ASSUME IInv, Moves
    PROVE  /\ Shape' /\ Synced' /\ Rows' /\ Done' = Done /\ Received' = Received
           /\ Modified' = Modified /\ ckpt.patch = None
           /\ \A j \in 1..Checks : Row(Done, j)' = Row(Done, j)
BY DEF Moves, IInv, Shape, Synced, Rows, Row, Done, Received, Modified, Index, Outside

LEMMA VerifiedStep ==
    ASSUME IInv, Verified
    PROVE  IInv'
<1> USE DEF IInv
<1>1. /\ World /\ ops' = ops /\ pc = "returned" /\ call[1] = "verify"
  BY DEF Verified, Came, World, history
<1>2. CASE Pause("worktree_changed")
  BY <1>1, <1>2, PauseStep
<1>3. CASE Current /\ Goto("look") /\ UNCHANGED <<ckpt, mem>>
  <2>1. /\ Moves /\ pc' = "look" /\ n' = n /\ call' = call /\ ckpt' = ckpt /\ tree' = tree
        /\ meddled' = meddled /\ patched' = patched /\ ops' = ops
    BY <1>1, <1>3 DEF Moves, Goto, local, World, Outside, Shape
  <2>2. Calls'
    BY <1>1, <2>1, MovesStep DEF Calls, InCall
  <2>3. n \in Nat /\ n <= Checks /\ Checks \in Nat
    BY Numbers
  <2>4. tree = ckpt.fingerprint
    BY <1>3 DEF Current, Synced
  <2>5. Tests'
    BY <2>1, <2>3, <2>4, MovesStep DEF Tests
  <2> QED BY <2>1, <2>2, <2>5, MovesStep
<1> QED BY <1>2, <1>3 DEF Verified

LEMMA LookStep ==
    ASSUME IInv, Look
    PROVE  IInv'
<1> USE DEF IInv
<1>1. /\ World /\ pc = "look"
  BY DEF Look, World, history
<1>2. CASE Reinvestigate
  BY <1>1, <1>2, ReinvestigateStep DEF Outside
<1>3. CASE /\ ~Stale /\ ops[call].result = "pass" /\ n' = n + 1 /\ ops' = ops
           /\ pc' = IF n + 1 = Checks THEN "validate" ELSE "loop"
           /\ UNCHANGED <<ckpt, mem, call, retry, written>>
  <2>1. /\ call = <<"verify", Done, n + 1>> /\ n < Checks /\ ckpt.phase = "repair"
        /\ Received /\ ops[call].status \in {"done", "failed"}
        /\ n \in Nat /\ Checks \in Nat /\ Done \in 1..MaxRepairs
    BY <1>1, Numbers DEF Calls, Received
  <2>2. Moves /\ pc' \in {"validate", "loop"}
    BY <1>1, <1>3, <2>1 DEF Moves, World, Outside
  <2>3. Calls'
    <3>1. /\ ckpt'.phase = "repair" /\ Received' /\ n' \in Nat
          /\ \/ pc' = "validate" /\ n' = Checks
             \/ pc' = "loop" /\ n' < Checks
      BY <1>3, <2>1, <2>2, MovesStep DEF Moves
    <3> QED BY <3>1 DEF Calls, InCall
  <2>4. ~meddled => Row(Done, n + 1) = Passed(ckpt.fingerprint)
    <3>1. n + 1 \in 1..Checks /\ call \in Keys /\ Row(Done, n + 1) = ops[call]
      BY <2>1, VerifyKeys DEF Row
    <3>2. RowShape(ops[call]) /\ ops[call].status = "done"
      BY <1>3, <2>1, <3>1 DEF Shape, Rows
    <3>3. ~meddled => ops[call].on = ckpt.fingerprint
      BY <2>1, <3>1, <3>2 DEF Rows
    <3> QED BY <1>3, <3>1, <3>2, <3>3 DEF RowShape, Passed
  <2>5. ~meddled => \A j \in 1..n' : Row(Done, j)' = Passed(ckpt.fingerprint)
    <3>1. ~meddled => \A j \in 1..(n + 1) : Row(Done, j) = Passed(ckpt.fingerprint)
      BY <2>1, <2>4 DEF Tests
    <3>2. \A j \in 1..(n + 1) : Row(Done, j)' = Row(Done, j)
      BY <2>1, <2>2, MovesStep
    <3> QED BY <1>3, <3>1, <3>2
  <2>6. Tests'
    BY <1>1, <2>2, <2>5, MovesStep DEF Tests, Moves, Passed
  <2> QED BY <2>2, <2>3, <2>6, MovesStep
<1> QED BY <1>2, <1>3 DEF Look

LEMMA ValidateStep ==
    ASSUME IInv, Validate
    PROVE  IInv'
<1> USE DEF IInv
<1>1. /\ World /\ pc = "validate" /\ ops' = ops
  BY DEF Validate, World, history
<1>2. CASE Raise
  BY <1>1, <1>2, RaiseStep
<1>3. CASE ~Stale /\ Goto("capture") /\ UNCHANGED <<ckpt, mem>>
  <2>1. Moves /\ pc' = "capture" /\ n' = n /\ n = Checks /\ Checks \in Nat \ {0}
    BY <1>1, <1>3, Numbers DEF Moves, Goto, local, World, Outside, Shape, Calls
  <2>2. Calls'
    BY <1>1, <2>1, MovesStep DEF Calls, InCall, Moves
  <2>3. ~meddled => \A f \in Files : tree[f] = ckpt.fingerprint[f]
    BY <1>1, <1>3 DEF Tests, Stale, Synced
  <2>4. Tests'
    BY <2>1, <2>3, MovesStep DEF Tests, Moves, Passed
  <2> QED BY <2>1, <2>2, <2>4, MovesStep
<1> QED BY <1>2, <1>3 DEF Validate

\* All checks passed, and what the patch is taken of is what they saw.
LEMMA CaptureStep ==
    ASSUME IInv, Capture
    PROVE  IInv'
<1> USE DEF IInv
<1>1. World /\ pc = "capture" /\ ops' = ops
  BY DEF Capture, World, history
<1>2. ASSUME NEW why, Pause(why) PROVE IInv'
  BY <1>1, <1>2, PauseStep
<1> DEFINE r == [mem EXCEPT !.status = "verified", !.phase = "complete",
                            !.patch = Tracked(tree)]
           s == [r EXCEPT !.request = FALSE, !.decision = None]
<1>3. CASE Return(s)
  <2>1. /\ DOMAIN r = Fields /\ r.phase = "complete" /\ r.repairs = mem.repairs
        /\ r.fingerprint = mem.fingerprint /\ r.patch = Tracked(tree)
    BY DEF Fields, Shape
  <2> HIDE DEF r
  <2>2. /\ DOMAIN s = Fields /\ s.phase = "complete" /\ s.repairs = mem.repairs
        /\ s.fingerprint = mem.fingerprint /\ s.patch = Tracked(tree)
    BY <2>1 DEF Fields
  <2> HIDE DEF s
  <2>3. pc' = "out" /\ n' = 0 /\ mem' = ckpt' /\ SameTask(ckpt', s)
    BY <1>3, <2>2, Saved DEF Return, Leave
  <2>4. /\ ckpt'.repairs = ckpt.repairs /\ Done' = Done /\ Received' = Received
        /\ ckpt'.fingerprint = ckpt.fingerprint /\ ckpt'.patch = Tracked(tree)
        /\ ckpt'.phase = "complete" /\ DOMAIN ckpt' = Fields
    BY <1>1, <2>2, <2>3 DEF SameTask, Synced, Done, Received
  <2>5. /\ n = Checks /\ n > 0 /\ Received /\ Done > 0 /\ ckpt.patch = None
        /\ ckpt.fingerprint # NoFingerprint
    BY <1>1, Numbers DEF Calls, Received, Synced, Outside
  <2>6. Shape'
    BY <1>1, <2>3, <2>4, Numbers DEF Shape, World
  <2>7. Synced' /\ Calls'
    BY <2>3, <2>4, <2>5 DEF Synced, Calls, InCall, Outside, Done
  <2>8. \A i \in 1..MaxRepairs, j \in 1..Checks : Row(i, j)' = Row(i, j)
    BY <1>1 DEF Row
  <2>9. \A j \in 1..Checks : Row(Done, j)' = Row(Done, j)
    BY <1>1, <2>4 DEF Row
  <2>10. Rows'
    BY <1>1, <2>3, <2>4, <2>5, <2>8, <2>9 DEF Rows, World
  <2>11. ~meddled => Tracked(tree) = Tracked(ckpt.fingerprint)
    BY <1>1 DEF Tests, Tracked
  <2>12. Tests'
    BY <1>1, <2>3, <2>4, <2>5, <2>9, <2>11 DEF Tests, World, Passed, Tracked
  <2> QED BY <2>6, <2>7, <2>10, <2>12
<1>4. Cleared(r) = s
  BY DEF Cleared
<1> QED BY <1>2, <1>3, <1>4 DEF Capture

-----------------------------------------------------------------------------
(* The handoff, and what goes wrong.                                       *)

LEMMA HandOffStep ==
    ASSUME IInv, HandOff \/ HandedOff
    PROVE  IInv'
<1> USE DEF IInv
<1> DEFINE k == <<"handoff", 0, 0>>
<1>1. /\ World /\ ckpt' = ckpt /\ mem' = mem /\ n = 0 /\ n' = 0
      /\ pc \in {"out", "handed"} /\ pc' \in {"handing", "out"}
      /\ \/ ops' = [Recovered EXCEPT ![k].status = "running"]
         \/ ops' = [ops EXCEPT ![k].status = "done"]
  <2>1. n = 0
    BY Numbers DEF HandOff, HandedOff, Calls, InCall
  <2>2. CASE HandOff
    BY <2>1, <2>2 DEF HandOff, local, history, World
  <2>3. CASE HandedOff
    BY <2>1, <2>3 DEF HandedOff, Leave, history, World
  <2> QED BY <2>2, <2>3
<1>2. OpsTyped' /\ VerifyKept
  <2>0. DOMAIN Recovered = Keys /\ \A l \in Keys : RowShape(Recovered[l])
    BY DEF Recovered, Shape, RowShape
  <2>1. OpsTyped'
    <3>1. CASE ops' = [Recovered EXCEPT ![k].status = "running"]
      BY <2>0, <3>1 DEF OpsTyped, RowShape
    <3>2. CASE ops' = [ops EXCEPT ![k].status = "done"]
      BY <3>2 DEF Shape, OpsTyped, RowShape
    <3> QED BY <1>1, <3>1, <3>2
  <2>2. ASSUME NEW l \in Keys, l # k
        PROVE  ops'[l] = ops[l] \/ (ops[l].status = "running" /\ ops'[l].status = "uncertain")
    BY <1>1, <2>2 DEF Recovered, Shape, RowShape
  <2> QED BY <2>1, <2>2, VerifyKeys DEF VerifyKept, Row
<1>3. Quiet
  BY <1>1, <1>2 DEF Quiet, World, Received, Done
<1>4. Shape' /\ Synced' /\ Calls'
  BY <1>1, <1>2, Numbers DEF Shape, OpsTyped, World, Done, Synced, Calls, InCall, Outside
<1> QED BY <1>3, <1>4, QuietStep

LEMMA GitApplyStep ==
    ASSUME IInv, GitApply
    PROVE  IInv'
<1> USE DEF IInv
<1>1. /\ pc = "handing" /\ pc' = "handed" /\ patched' = ckpt.patch
      /\ UNCHANGED <<tree, ckpt, mem, ops, call, n, meddled>>
  BY DEF GitApply, local, history
<1>2. Shape' /\ Synced' /\ Rows'
  BY <1>1 DEF Shape, Synced, Rows, Row, Done, Received, Outside
<1>3. Calls' /\ Tests'
  BY <1>1 DEF Calls, Tests, InCall, Row, Done, Received
<1> QED BY <1>2, <1>3

\* Memory is lost: what is saved is what the properties are about.
LEMMA KillStep ==
    ASSUME IInv, Kill
    PROVE  IInv'
<1> USE DEF IInv
<1>1. /\ World /\ ops' = ops /\ ckpt' = ckpt /\ mem' = ckpt /\ pc' = "out" /\ n' = 0
  BY DEF Kill, Mishap, Leave, World
<1>2. OpsTyped' /\ VerifyKept
  BY <1>1, SameOps
<1>3. Quiet
  BY <1>1, <1>2 DEF Quiet, World, Received, Done
<1>4. Shape' /\ Synced' /\ Calls'
  BY <1>1, <1>2, Numbers DEF Shape, OpsTyped, World, Done, Synced, Calls, InCall, Outside
<1> QED BY <1>3, <1>4, QuietStep

LEMMA InterruptStep ==
    ASSUME IInv, Interrupt
    PROVE  IInv'
<1> USE DEF IInv
<1>1. OpsTyped'
  BY DEF Interrupt, Shape, OpsTyped, RowShape
<1>2. VerifyKept
  <2> SUFFICES ASSUME NEW i \in 1..MaxRepairs, NEW j \in 1..Checks
               PROVE  \/ Row(i, j)' = Row(i, j)
                      \/ Row(i, j).status = "running" /\ Row(i, j)'.status = "uncertain"
    BY DEF VerifyKept
  <2> DEFINE k == <<"verify", i, j>>
  <2>1. k \in Keys /\ k[1] = "verify"
    BY VerifyKeys
  <2>2. CASE pc = "calling" /\ call = k
    <3>1. ops[k].status = "running" /\ RowShape(ops[k])
      BY <2>1, <2>2 DEF Calls, Shape
    <3>2. ops' = [ops EXCEPT ![k].status = "uncertain"]
      BY <2>2 DEF Interrupt
    <3>3. ops'[k].status = "uncertain"
      BY <2>1, <3>1, <3>2 DEF Shape, RowShape
    <3> QED BY <3>1, <3>3 DEF Row
  <2>3. CASE pc # "calling" \/ call # k
    BY <2>1, <2>3 DEF Interrupt, Row, Shape
  <2> QED BY <2>2, <2>3
<1>3. Quits /\ tree' = tree /\ patched' = patched /\ meddled' = meddled
  BY RaiseQuits DEF Interrupt
<1> QED BY <1>1, <1>2, <1>3, QuitStep DEF Shape

\* Somebody writes; where that could matter to a check it is no secret.
LEMMA TouchStep ==
    ASSUME IInv, Touch
    PROVE  IInv'
<1> USE DEF IInv
<1>1. PICK w \in Foreign : /\ tree' = [tree EXCEPT ![w[1]] = w[2]]
                           /\ meddled' = (meddled \/ Overlooked(w[1]))
  BY DEF Touch
<1>2. /\ DOMAIN tree' = DOMAIN tree /\ \A f \in Paths : f # w[1] => tree'[f] = tree[f]
      /\ UNCHANGED <<ckpt, mem, ops, pc, call, n, patched>>
  BY <1>1 DEF Touch, local, Shape
<1>3. Shape' /\ Synced'
  BY <1>2 DEF Shape, Synced, Done
<1>4. ~meddled' => ~meddled /\ ~Overlooked(w[1])
  BY <1>1
<1>5. Rows' /\ Calls'
  BY <1>2, <1>4 DEF Rows, Row, Done, Received, Calls, InCall
<1>6. Modified' = Modified /\ Done' = Done /\ \A j \in 1..Checks : Row(Done, j)' = Row(Done, j)
  BY <1>2 DEF Modified, Index, Done, Row
<1>7. Tests'
  <2>1. patched' \in {None, ckpt'.patch}
    BY <1>2 DEF Tests
  <2>2. ASSUME ~meddled'
        PROVE  /\ \A j \in 1..n' : Row(Done, j)' = Passed(ckpt'.fingerprint)
               /\ ckpt'.patch # None =>
                    /\ ckpt'.patch = Tracked(ckpt'.fingerprint)
                    /\ Done' > 0
                    /\ \A j \in 1..Checks : Row(Done, j)' = Passed(ckpt'.fingerprint)
    <3>1. /\ \A j \in 1..n : Row(Done, j) = Passed(ckpt.fingerprint)
          /\ ckpt.patch # None =>
                /\ ckpt.patch = Tracked(ckpt.fingerprint)
                /\ Done > 0 /\ \A j \in 1..Checks : Row(Done, j) = Passed(ckpt.fingerprint)
      BY <1>4, <2>2 DEF Tests
    <3>2. \A j : Row(Done, j)' = Row(Done, j)
      BY <1>2 DEF Row, Done
    <3> QED BY <1>2, <1>6, <3>1, <3>2 DEF Tracked
  <2>3. ASSUME ~meddled'
        PROVE  /\ ~(pc = "calling" /\ call[1] = "verify") /\ pc # "capture"
               /\ pc \in {"look", "validate"} =>
                     \A f \in Files \ Modified : tree'[f] = ckpt.fingerprint[f]
    BY <1>2, <1>4, <2>3 DEF Tests, Overlooked, Paths
  <2> QED BY <1>2, <1>6, <2>1, <2>2, <2>3 DEF Tests, Passed, Tracked
<1> QED BY <1>3, <1>5, <1>7

-----------------------------------------------------------------------------
(* The theorem.                                                            *)

LEMMA InitStep == Init => IInv
<1> SUFFICES ASSUME Init PROVE IInv
  OBVIOUS
<1>1. DOMAIN Prepared = Fields
  BY DEF Prepared, Fields
<1>2. /\ mem = Prepared /\ ckpt = Prepared /\ ckpt.repairs = <<>> /\ Done = 0
      /\ ckpt.patch = None /\ ckpt.phase = "baseline"
      /\ ckpt.fingerprint = NoFingerprint
  BY DEF Init, Prepared, Done
<1>3. IsSeq(<<>>)
  <2>1. <<>> \in Seq({})
    OBVIOUS
  <2> QED BY <2>1 DEF IsSeq
<1>4. Shape
  BY <1>1, <1>2, <1>3, TaskAssumption DEF Init, Shape, RowShape, NoAttempt
<1>5. Synced
  BY <1>2 DEF Synced, Init, Outside
<1>6. Rows
  BY <1>2, VerifyKeys DEF Rows, Row, Init, NoAttempt
<1>7. Calls
  BY DEF Calls, Init, InCall
<1>8. Tests
  BY <1>2 DEF Tests, Init
<1> QED BY <1>4, <1>5, <1>6, <1>7, <1>8 DEF IInv

LEMMA NextStep == IInv /\ [Next]_vars => IInv'
<1> SUFFICES ASSUME IInv, [Next]_vars PROVE IInv'
  OBVIOUS
<1>1. ASSUME Step PROVE IInv'
  BY <1>1, FirstFingerprintStep, OpenStep, EndStep, BaselineStep, BaselineCameStep,
     DiscoveredStep, CannotGoOnStep, AskStep, DecidedStep, OperatedStep, StopStep,
     PrepareRepairStep, RoundOverStep, ApplyStep, ApplyFileStep, ApplyRefusedStep,
     ApplyEndStep, AppliedStep, ReceiptedStep, VerifyStep, VerifiedStep, LookStep,
     ValidateStep, CaptureStep, GitApplyStep, HandOffStep DEF Step
<1>2. ASSUME NEW again \in BOOLEAN, Start(again) PROVE IInv'
  BY <1>2, StartStep
<1>3. CASE HandOff \/ Kill \/ Interrupt \/ Touch
  BY <1>3, HandOffStep, KillStep, InterruptStep, TouchStep
<1>4. CASE UNCHANGED vars
  BY <1>4
  DEF vars, local, history, IInv, Shape, Synced, Rows, Row, Calls, Tests, Done, Received,
      InCall, Outside, Modified, Index
<1> QED BY <1>1, <1>2, <1>3, <1>4 DEF Next

\* The patch of a verified task is the change of a worktree that every check of
\* the last repair passed on, whatever was cut off, resumed and replayed, unless
\* somebody wrote there while a check ran or where no later look would see it.
THEOREM PatchIsTested == Spec => []PatchTested
<1>1. IInv => PatchTested
  BY DEF IInv, Tests, PatchTested, Tested, Row, Passed, Done
<1> QED BY InitStep, NextStep, <1>1, PTL DEF Spec

-----------------------------------------------------------------------------
(* While nobody else writes in the worktree, a task is not stopped for     *)
(* nothing.                                                                *)

Last == ckpt.repairs[Done]
Unreceived == ckpt.phase = "repair" /\ ~Received
ApplyRow(i) == ops[<<"apply", i, 0>>]

\* Where the coordinator is, and in which phase it may be there.
Places ==
    /\ pc \in Outside => mem = ckpt
    /\ pc \notin Outside => mem.stop = None
    /\ pc \in {"asked", "decided"} => ckpt.phase # "repair"
    /\ InCall =>
          /\ call \in Keys
          /\ \/ call[1] = "verify"
             \/ call = <<"apply", Done, 0>> /\ Unreceived
             \/ call[1] \in {"baseline", "discover", "decide", "act"} /\ ckpt.phase # "repair"
    /\ pc = "returned" => ops[call].status \in {"done", "failed"}
    /\ pc = "receipted" =>
          Unreceived /\ mem.repairs = [ckpt.repairs EXCEPT ![Done].receipt = TRUE]

\* What was decided can be repaired; what was completed can be shown again.
Proposed(d) == d.do = "repair" => d # None /\ d.edit \in Edits
Plain == {None, "reason"}

Whole(s) ==
    /\ s.views \subseteq [Paths -> Contents] /\ s.baseline \in [ran : Nat, failed : BOOLEAN]
    /\ s.decision # None => Proposed(s.decision)
    /\ s.completion # None => s.completion.stop \in Plain
    /\ s.phase = "complete" /\ s.status \notin {"paused", "interrupted"} => s.stop \in Plain

Dicts ==
    /\ Whole(mem) /\ Whole(ckpt)
    /\ pc = "decided" => Proposed(mem.decision)

Answers ==
    \A k \in Keys : k[1] = "decide" /\ ops[k].status = "done" => Proposed(ops[k].result)

Plans ==
    \A i \in 1..Done :
        /\ DOMAIN ckpt.repairs[i] = {"edit", "receipt", "before"}
        /\ ckpt.repairs[i].edit \in Edits
        /\ DOMAIN ckpt.repairs[i].before = DOMAIN ckpt.repairs[i].edit

\* The worktree is the fingerprint's, but between an edit and its receipt and
\* when the two were cut apart; what is changed in it was repaired.
Trees ==
    /\ tree \in [Paths -> Contents] /\ cut \in BOOLEAN
    /\ ~cut /\ ckpt.fingerprint # NoFingerprint /\ ~Unreceived => tree = ckpt.fingerprint
    /\ \A f \in Files : tree[f] # Base => f \in RepairedFiles
    /\ mishaps = 0 => ~cut

\* The row of an edit says what is in the files, if it is not uncertain; that
\* takes a mishap.
Landing ==
    /\ \A i \in 1..MaxRepairs :
          /\ i > Done => ApplyRow(i).status = "none"
          /\ ApplyRow(i).status # "failed"
          /\ mishaps = 0 /\ ApplyRow(i).status \in {"running", "uncertain"} =>
                pc = "calling" /\ call = <<"apply", i, 0>> /\ ApplyRow(i).status = "running"
    /\ Done > 0 =>
          /\ ApplyRow(Done).status = "none" => Holds(Last.before)
          /\ ApplyRow(Done).status = "done" => Holds(Last.edit)
          /\ Received \/ pc = "receipted" => ApplyRow(Done).status = "done"
    /\ pc = "calling" /\ call[1] = "apply" =>
          /\ ApplyRow(Done).status = "running"
          /\ \A f \in DOMAIN Last.edit :
               tree[f] = IF f \in written THEN Last.edit[f] ELSE Last.before[f]
    /\ written # {} => InCall /\ call[1] = "apply"

\* NoFalseAlarm, for whoever stops with the dictionary s.
Misfit(s) ==
    /\ s.decision # None /\ s.decision.do = "repair"
    /\ \E f \in DOMAIN s.decision.edit : s.fingerprint[f] # s.decision.seen[f]

Justified(why, s) ==
    /\ why = "worktree_changed" => cut
    /\ why = "partially_applied_edit_requires_review" => mishaps > 0
    /\ why \in {"unreceipted_changes", "no_patch"} =>
          \E f \in RepairedFiles : s.fingerprint[f] = Base
    /\ why = "interrupted" /\ mishaps = 0 => LastNoOp \/ Misfit(s)

Reasons ==
    /\ ckpt.fingerprint = NoFingerprint =>
          ckpt.stop = None \/ (ckpt.stop = "interrupted" /\ mishaps > 0)
    /\ Justified(ckpt.stop, ckpt)

Alone == ~meddled /\ Places /\ Dicts /\ Answers /\ Plans /\ Trees /\ Landing /\ Reasons
Undisturbed == mishaps \in Nat /\ touches \in Nat /\ (touches = 0 => Alone)

-----------------------------------------------------------------------------
(* Steps that leave the worktree and the repairs alone.                    *)

ApplyKept ==
    \A i \in 1..MaxRepairs :
        \/ ApplyRow(i)'.status = ApplyRow(i).status
        \/ ApplyRow(i).status = "running" /\ ApplyRow(i)'.status = "uncertain"
AnswersKept ==
    \A k \in Keys : k[1] = "decide" =>
        ops'[k] = ops[k] \/ ops'[k].status \in {"none", "running", "uncertain"}

Aside ==
    /\ tree' = tree /\ ckpt'.repairs = ckpt.repairs
    /\ ckpt'.fingerprint \in {ckpt.fingerprint, tree}
    /\ Unreceived => Unreceived'
    /\ ApplyKept
    /\ pc' # "receipted" /\ ~(pc' = "calling" /\ call'[1] = "apply")
    /\ written' = {} \/ (written' = written /\ ~(InCall /\ call[1] = "apply"))
    /\ cut' = cut /\ mishaps' \in {mishaps, mishaps + 1}
    /\ pc = "calling" /\ call[1] = "apply" => mishaps' = mishaps + 1

LEMMA AsideStep ==
    ASSUME IInv, Alone, mishaps \in Nat, Aside
    PROVE  Plans' /\ Trees' /\ Landing'
<1> USE DEF Alone
<1>1. Done' = Done /\ Received' = Received /\ Last' = Last /\ RepairedFiles' = RepairedFiles
  BY DEF Aside, Done, Received, Last, RepairedFiles
<1>2. Plans'
  BY <1>1 DEF Plans, Aside
<1>3. mishaps' = 0 => mishaps = 0 /\ mishaps' = mishaps
  BY DEF Aside
<1>4. Trees'
  BY <1>1, <1>3 DEF Trees, Aside
<1>5. Done \in Nat /\ Done <= MaxRepairs /\ MaxRepairs \in Nat
  BY Numbers DEF IInv
<1>6. ASSUME NEW i \in 1..MaxRepairs
      PROVE  /\ i > Done' => ApplyRow(i)'.status = "none"
             /\ ApplyRow(i)'.status # "failed"
             /\ mishaps' = 0 => ApplyRow(i)'.status \notin {"running", "uncertain"}
  BY <1>1, <1>3 DEF Landing, Aside, ApplyKept
<1>7. ASSUME Done > 0
      PROVE  /\ ApplyRow(Done)'.status = "none" => ApplyRow(Done).status = "none"
             /\ ApplyRow(Done)'.status = "done" => ApplyRow(Done).status = "done"
             /\ Received => ApplyRow(Done)'.status = "done"
  <2>1. Done \in 1..MaxRepairs /\ ApplyRow(Done)' = ops'[<<"apply", Done, 0>>]
    BY <1>1, <1>5, <1>7 DEF ApplyRow
  <2> QED BY <1>7, <2>1 DEF Landing, Aside, ApplyKept, ApplyRow
<1>8. /\ Holds(Last.before) => Holds(Last.before)'
      /\ Holds(Last.edit) => Holds(Last.edit)'
  BY <1>1 DEF Holds, Aside
<1>9. Done' > 0 =>
          /\ ApplyRow(Done)'.status = "none" => Holds(Last.before)'
          /\ ApplyRow(Done)'.status = "done" => Holds(Last.edit)'
          /\ Received' \/ pc' = "receipted" => ApplyRow(Done)'.status = "done"
  BY <1>1, <1>7, <1>8 DEF Landing, Aside
<1>10. written' = {}
  BY DEF Landing, Aside
<1>11. Landing'
  BY <1>6, <1>9, <1>10 DEF Landing, Aside
<1> QED BY <1>2, <1>4, <1>11

LEMMA AnswersStep ==
    ASSUME Alone, AnswersKept
    PROVE  Answers'
BY DEF Alone, Answers, AnswersKept

-----------------------------------------------------------------------------
(* Saving and stopping.                                                    *)

SameWords(s, u) ==
    /\ s.stop = u.stop /\ s.status = u.status
    /\ s.views = u.views /\ s.decision = u.decision /\ s.baseline = u.baseline

LEMMA SavedWhole ==
    ASSUME NEW s, DOMAIN s = Fields, Save(s), Whole(s)
    PROVE  mem' = ckpt' /\ SameTask(ckpt', s) /\ SameWords(ckpt', s) /\ Whole(ckpt')
<1>1. mem' = ckpt' /\ SameTask(ckpt', s)
  BY Saved
<1>2. SameWords(ckpt', s)
  BY DEF Save, Kept, SameWords, Fields
<1>3. CASE s.phase = "complete" /\ s.status \notin {"paused", "interrupted"}
  <2>1. ckpt'.completion.stop = s.stop
    BY <1>3 DEF Save, Kept, Fields
  <2> QED BY <1>1, <1>2, <1>3, <2>1 DEF Whole, SameWords, SameTask
<1>4. CASE ~(s.phase = "complete" /\ s.status \notin {"paused", "interrupted"})
  <2>1. ckpt' = s
    BY <1>4 DEF Save, Kept
  <2> QED BY <1>1, <1>2, <2>1
<1> QED BY <1>1, <1>2, <1>3, <1>4

\* There is a reason for what the dictionary s says as the run ends.
Excused(s) ==
    /\ s.stop = "worktree_changed" => cut
    /\ s.stop = "partially_applied_edit_requires_review" => mishaps > 0
    /\ s.stop \in {"unreceipted_changes", "no_patch"} =>
          \E f \in RepairedFiles : ckpt.fingerprint[f] = Base
    /\ s.stop = "interrupted" /\ mishaps' = 0 => LastNoOp \/ Misfit(s)
    /\ ckpt.fingerprint = NoFingerprint =>
          s.stop = None \/ (s.stop = "interrupted" /\ mishaps' > 0)

\* A run ends with s as its dictionary.
LEMMA ReturnAlone ==
    ASSUME IInv, Alone, mishaps \in Nat, NEW s, Return(s), DOMAIN s = Fields, Whole(s),
           s.repairs = ckpt.repairs, s.fingerprint = ckpt.fingerprint,
           Unreceived => s.phase = "repair",
           tree' = tree, meddled' = meddled, ApplyKept, AnswersKept,
           cut' = cut, mishaps' \in {mishaps, mishaps + 1},
           pc = "calling" /\ call[1] = "apply" => mishaps' = mishaps + 1,
           Excused(s)
    PROVE  Alone'
<1>1. /\ mem' = ckpt' /\ SameTask(ckpt', s) /\ SameWords(ckpt', s) /\ Whole(ckpt')
      /\ pc' = "out" /\ written' = {}
  BY SavedWhole DEF Return, Leave
<1>2. Aside
  BY <1>1 DEF Aside, Unreceived, Received, Done, SameTask
<1>3. Plans' /\ Trees' /\ Landing' /\ Answers'
  BY <1>2, AsideStep, AnswersStep
<1>4. Places' /\ Dicts'
  BY <1>1 DEF Places, Dicts, Outside, InCall
<1>5. /\ ckpt'.stop = s.stop /\ ckpt'.fingerprint = ckpt.fingerprint
      /\ ckpt'.decision = s.decision /\ ckpt'.repairs = ckpt.repairs
  BY <1>1 DEF SameTask, SameWords
<1>6. RepairedFiles' = RepairedFiles /\ LastNoOp' = LastNoOp
  BY <1>5 DEF RepairedFiles, LastNoOp, NoOp
<1>7. Misfit(ckpt)' <=> Misfit(s)
  BY <1>5 DEF Misfit
<1>8. Reasons'
  BY <1>5, <1>6, <1>7 DEF Reasons, Justified, Excused
<1> QED BY <1>3, <1>4, <1>8 DEF Alone

\* A pause or an exception, in the middle of a run or at its start.
LEMMA StoppedAlone ==
    ASSUME IInv, Alone, mishaps \in Nat,
           NEW status \in {"paused", "interrupted"}, NEW why,
           Return(Stopped(status, why)),
           mem.repairs = ckpt.repairs, tree' = tree, meddled' = meddled,
           ApplyKept, AnswersKept, cut' = cut, mishaps' \in {mishaps, mishaps + 1},
           pc = "calling" /\ call[1] = "apply" => mishaps' = mishaps + 1,
           why = "worktree_changed" => cut,
           why = "partially_applied_edit_requires_review" => mishaps > 0,
           why \in {"unreceipted_changes", "no_patch"} =>
              \E f \in RepairedFiles : ckpt.fingerprint[f] = Base,
           why = "interrupted" /\ mishaps' = 0 => LastNoOp \/ Misfit(mem),
           ckpt.fingerprint = NoFingerprint => why = "interrupted" /\ mishaps' > 0
    PROVE  Alone'
<1> DEFINE s == [mem EXCEPT !.status = status, !.stop = why]
<1>1. /\ DOMAIN s = Fields /\ s.status = status /\ s.stop = why /\ s.phase = mem.phase
      /\ s.repairs = mem.repairs /\ s.fingerprint = mem.fingerprint
      /\ s.baseline = mem.baseline /\ s.views = mem.views /\ s.decision = mem.decision
      /\ s.completion = mem.completion
  BY DEF IInv, Shape, Fields
<1>2. Return(s)
  BY DEF Stopped
<1> HIDE DEF s
<1>3. Whole(s)
  BY <1>1 DEF Alone, Dicts, Whole
<1>4. /\ s.repairs = ckpt.repairs /\ s.fingerprint = ckpt.fingerprint
      /\ Unreceived => s.phase = "repair"
  BY <1>1 DEF IInv, Synced, Unreceived
<1>5. Misfit(s) <=> Misfit(mem)
  BY <1>1 DEF Misfit
<1>6. Excused(s)
  BY <1>1, <1>5 DEF Excused
<1> QED BY <1>1, <1>2, <1>3, <1>4, <1>6, ReturnAlone

\* Nothing but the coordinator's place, memory and rows moves.
Still == UNCHANGED <<tree, meddled, cut, mishaps>>

LEMMA StillStep == ASSUME UNCHANGED <<tree, history>> PROVE Still
BY DEF Still, history

NotApplying == ~(InCall /\ call[1] = "apply")

\* s is saved, and the run goes on.
LEMMA SaveAlone ==
    ASSUME IInv, Alone, mishaps \in Nat, NEW s, DOMAIN s = Fields, Save(s), Whole(s),
           s.repairs = ckpt.repairs, s.fingerprint = ckpt.fingerprint, s.stop = None,
           Unreceived => s.phase = "repair", Still, ApplyKept, AnswersKept,
           NotApplying, pc \notin Outside, written' = written,
           pc' \in {"loop", "asked", "decided"}, pc' # "loop" => s.phase # "repair",
           pc' = "decided" => Proposed(s.decision)
    PROVE  Alone'
<1>1. mem' = ckpt' /\ SameTask(ckpt', s) /\ SameWords(ckpt', s) /\ Whole(ckpt')
  BY SavedWhole
<1>2. Aside
  BY <1>1 DEF Aside, Unreceived, Received, Done, SameTask, Still, NotApplying, InCall
<1>3. Plans' /\ Trees' /\ Landing' /\ Answers'
  BY <1>2, AsideStep, AnswersStep
<1>4. Places' /\ Dicts'
  BY <1>1 DEF Places, Dicts, Outside, InCall, SameTask, SameWords
<1>5. ckpt'.stop = None /\ ckpt'.fingerprint # NoFingerprint
  BY <1>1 DEF SameTask, SameWords, IInv, Synced
<1>6. Reasons'
  BY <1>5, NoneAssumption DEF Reasons, Justified, Final
<1> QED BY <1>3, <1>4, <1>6 DEF Alone, Still

\* The run is over, with an outcome.
LEMMA CompleteAlone ==
    ASSUME IInv, Alone, mishaps \in Nat, NEW s, DOMAIN s = Fields, Return(s), Whole(s),
           s.repairs = ckpt.repairs, s.fingerprint = ckpt.fingerprint, s.stop \in Plain,
           ~Unreceived, Still, ops' = ops, pc \notin Outside, NotApplying
    PROVE  Alone'
<1>1. ApplyKept /\ AnswersKept
  BY DEF ApplyKept, AnswersKept, ApplyRow
<1>2. Excused(s)
  BY NoneAssumption DEF Excused, Plain, Final, IInv, Synced
<1> QED BY <1>1, <1>2, ReturnAlone DEF Still, NotApplying, InCall

\* A pause, or an exception, where nothing is called.
LEMMA PauseAlone ==
    ASSUME IInv, Alone, mishaps \in Nat, NEW why, Pause(why),
           Still, ops' = ops, NotApplying, pc \notin {"receipted", "out", "handing", "handed"},
           ckpt.fingerprint # NoFingerprint,
           why # "interrupted", why = "worktree_changed" => cut,
           why = "partially_applied_edit_requires_review" => mishaps > 0,
           why \in {"unreceipted_changes", "no_patch"} =>
              \E f \in RepairedFiles : ckpt.fingerprint[f] = Base
    PROVE  Alone'
<1>1. ApplyKept /\ AnswersKept
  BY DEF ApplyKept, AnswersKept, ApplyRow
<1>2. mem.repairs = ckpt.repairs
  BY DEF IInv, Synced
<1>3. Return(Stopped("paused", why))
  BY DEF Pause
<1> QED BY <1>1, <1>2, <1>3, StoppedAlone DEF Still, NotApplying, InCall

LEMMA RaiseAlone ==
    ASSUME IInv, Alone, mishaps \in Nat, Raise,
           Still, ops' = ops, NotApplying, pc \notin Outside \cup {"receipted"},
           mishaps = 0 => LastNoOp \/ Misfit(mem)
    PROVE  Alone'
<1>1. ApplyKept /\ AnswersKept
  BY DEF ApplyKept, AnswersKept, ApplyRow
<1>2. mem.repairs = ckpt.repairs /\ ckpt.fingerprint # NoFingerprint
  BY DEF IInv, Synced
<1>3. Return(Stopped("interrupted", "interrupted"))
  BY DEF Raise
<1> QED BY <1>1, <1>2, <1>3, StoppedAlone DEF Still, NotApplying, InCall

\* An operation that is no edit is asked for.
LEMMA PerformAlone ==
    ASSUME IInv, Alone, mishaps \in Nat, NEW k \in Keys, Perform(k), Still,
           pc \in {"loop", "asked", "decided"},
           \/ k[1] = "verify"
           \/ k[1] \in {"baseline", "discover", "decide", "act"} /\ ckpt.phase # "repair"
    PROVE  Alone'
<1>1. NotApplying /\ pc \notin Outside \cup {"receipted"} /\ ckpt.fingerprint # NoFingerprint
  BY DEF NotApplying, InCall, Outside, IInv, Synced
<1>2. CASE Pause("retry_requires_explicit_request") /\ ops' = ops
  BY <1>1, <1>2, PauseAlone DEF Outside
<1>3. CASE /\ UNCHANGED <<ckpt, mem, written>> /\ call' = k
           /\ \A l \in Keys \ {k} : ops'[l] = ops[l]
           /\ \/ pc' = "returned" /\ ops' = ops /\ ops[k].status = "done"
              \/ pc' = "calling" /\ ops'[k].status = "running"
  <2>1. ApplyKept
    <3> SUFFICES ASSUME NEW i \in 1..MaxRepairs PROVE ApplyRow(i)'.status = ApplyRow(i).status
      BY DEF ApplyKept
    <3>1. <<"apply", i, 0>> \in Keys \ {k}
      BY VerifyKeys
    <3> QED BY <1>3, <3>1 DEF ApplyRow
  <2>2. AnswersKept
    BY <1>3 DEF AnswersKept
  <2>3. Aside
    BY <1>1, <1>3, <2>1 DEF Aside, Unreceived, Received, Done, Still, NotApplying, InCall
  <2>4. Plans' /\ Trees' /\ Landing' /\ Answers'
    BY <2>2, <2>3, AsideStep, AnswersStep
  <2>5. Places'
    BY <1>1, <1>3 DEF Alone, Places, Outside, InCall
  <2>6. Dicts' /\ Reasons'
    BY <1>3 DEF Alone, Dicts, Reasons, Justified, Misfit, RepairedFiles, LastNoOp, NoOp, Still
  <2> QED BY <2>4, <2>5, <2>6 DEF Alone, Still
<1>4. ASSUME Dispatch(k)
      PROVE  /\ UNCHANGED <<ckpt, mem, written>> /\ call' = k /\ pc' = "calling"
             /\ \A l \in Keys \ {k} : ops'[l] = ops[l]
             /\ ops'[k].status = "running"
  BY <1>4 DEF Dispatch, IInv, Shape, NoAttempt
<1> QED BY <1>2, <1>3, <1>4 DEF Perform

LEMMA ReasonsStay ==
    ASSUME Alone, mishaps \in Nat, ckpt' = ckpt, cut' = cut, mishaps' \in {mishaps, mishaps + 1}
    PROVE  Reasons'
<1>1. RepairedFiles' = RepairedFiles /\ LastNoOp' = LastNoOp /\ (Misfit(ckpt)' <=> Misfit(ckpt))
  BY DEF RepairedFiles, LastNoOp, NoOp, Misfit
<1>2. mishaps > 0 => mishaps' > 0
  OBVIOUS
<1>3. mishaps' = 0 => mishaps = 0
  OBVIOUS
<1> QED BY <1>1, <1>2, <1>3 DEF Alone, Reasons, Justified

LEMMA RecoveredKeeps ==
    ASSUME Shape
    PROVE  /\ DOMAIN Recovered = Keys
           /\ \A k \in Keys : /\ RowShape(Recovered[k])
                              /\ \/ Recovered[k] = ops[k]
                                 \/ ops[k].status = "running" /\ Recovered[k].status = "uncertain"
BY DEF Recovered, Shape, RowShape

-----------------------------------------------------------------------------
(* Each step, when nobody else writes.                                     *)

LEMMA StartAlone ==
    ASSUME IInv, Alone, mishaps \in Nat, NEW again, Start(again)
    PROVE  Alone'
<1>1. /\ pc = "out" /\ pc' = "open" /\ mem' = ckpt /\ ckpt' = ckpt /\ ops' = Recovered
      /\ Still /\ UNCHANGED <<call, written>>
  BY StillStep DEF Start
<1>2. ApplyKept /\ AnswersKept
  BY <1>1, RecoveredKeeps, VerifyKeys DEF ApplyKept, AnswersKept, ApplyRow, IInv
<1>3. Aside
  BY <1>1, <1>2 DEF Aside, Unreceived, Received, Done, Still, InCall
<1>4. Plans' /\ Trees' /\ Landing' /\ Answers' /\ Reasons'
  BY <1>1, <1>2, <1>3, AsideStep, AnswersStep, ReasonsStay DEF Still
<1>5. Places' /\ Dicts'
  BY <1>1 DEF Alone, Places, Dicts, InCall, Outside
<1> QED BY <1>1, <1>4, <1>5 DEF Alone, Still

LEMMA FirstFingerprintAlone ==
    ASSUME IInv, Alone, mishaps \in Nat, FirstFingerprint
    PROVE  Alone'
<1> DEFINE s == [mem EXCEPT !.fingerprint = tree]
<1>1. /\ DOMAIN s = Fields /\ s.phase = mem.phase /\ s.repairs = mem.repairs
      /\ s.fingerprint = tree /\ s.stop = mem.stop /\ s.status = mem.status
      /\ s.baseline = mem.baseline /\ s.views = mem.views /\ s.decision = mem.decision
      /\ s.completion = mem.completion
  BY DEF IInv, Shape, Fields
<1>2. /\ Save(s) /\ pc = "open" /\ pc' = pc /\ Still /\ ops' = ops
      /\ UNCHANGED <<call, written>>
  BY StillStep DEF FirstFingerprint, local
<1>3. mem = ckpt /\ ckpt.fingerprint = NoFingerprint
  BY <1>2 DEF Alone, Places, Outside, FirstFingerprint
<1> HIDE DEF s
<1>4. Whole(s)
  BY <1>1 DEF Alone, Dicts, Whole
<1>5. mem' = ckpt' /\ SameTask(ckpt', s) /\ SameWords(ckpt', s) /\ Whole(ckpt')
  BY <1>1, <1>2, <1>4, SavedWhole
<1>6. ApplyKept /\ AnswersKept
  BY <1>2 DEF ApplyKept, AnswersKept, ApplyRow
<1>7. Aside
  BY <1>1, <1>2, <1>3, <1>5, <1>6
  DEF Aside, SameTask, Unreceived, Received, Done, Still, InCall
<1>8. Plans' /\ Trees' /\ Landing' /\ Answers'
  BY <1>6, <1>7, AsideStep, AnswersStep
<1>9. Places' /\ Dicts'
  BY <1>2, <1>5 DEF Places, Dicts, InCall, Outside
<1>10. ckpt'.stop = None \/ (ckpt'.stop = "interrupted" /\ mishaps' > 0)
  BY <1>1, <1>2, <1>3, <1>5 DEF SameWords, Alone, Reasons, Still
<1>11. Reasons'
  BY <1>2, <1>10, NoneAssumption DEF Reasons, Justified, Final, Still
<1> QED BY <1>2, <1>8, <1>9, <1>11 DEF Alone, Still

LEMMA OpenAlone ==
    ASSUME IInv, Alone, mishaps \in Nat, Open
    PROVE  Alone'
<1>1. /\ pc = "open" /\ mem = ckpt /\ ckpt.fingerprint # NoFingerprint /\ Still /\ ops' = ops
  BY StillStep DEF Open, Alone, Places, Outside
<1>2. ApplyKept /\ AnswersKept /\ NotApplying
  BY <1>1 DEF ApplyKept, AnswersKept, ApplyRow, NotApplying, InCall
<1>3. CASE OpenNeeds(mem.phase) /\ ~Current /\ Pause("worktree_changed")
  <2>1. cut
    BY <1>1, <1>3 DEF OpenNeeds, Current, Alone, Trees, Unreceived
  <2> QED BY <1>1, <1>2, <1>3, <2>1, PauseAlone
<1>4. ASSUME NEW c, mem.phase = "complete", Return(Stopped(c.status, c.stop)),
             \/ mem.completion # None /\ c = mem.completion
             \/ c.status = mem.status /\ c.stop = mem.stop
      PROVE  Alone'
  <2> DEFINE s == [mem EXCEPT !.status = c.status, !.stop = c.stop]
  <2>1. /\ DOMAIN s = Fields /\ s.status = c.status /\ s.stop = c.stop /\ s.phase = mem.phase
        /\ s.repairs = mem.repairs /\ s.fingerprint = mem.fingerprint
        /\ s.baseline = mem.baseline /\ s.views = mem.views /\ s.decision = mem.decision
        /\ s.completion = mem.completion
    BY DEF IInv, Shape, Fields
  <2>2. Return(s)
    BY <1>4 DEF Stopped
  <2> HIDE DEF s
  <2>3. Whole(s)
    BY <1>4, <2>1 DEF Alone, Dicts, Whole
  <2>4. Excused(s)
    <3>1. CASE c.stop \in Plain
      BY <2>1, <3>1, <1>1, NoneAssumption DEF Excused, Plain, Final
    <3>2. CASE c.stop = ckpt.stop
      <4>1. Misfit(s) <=> Misfit(ckpt)
        BY <1>1, <2>1 DEF Misfit
      <4>2. s.stop = ckpt.stop /\ mishaps' = mishaps
        BY <1>1, <2>1, <3>2 DEF Still
      <4> QED BY <1>1, <4>1, <4>2 DEF Excused, Alone, Reasons, Justified
    <3> QED BY <1>1, <1>4, <3>1, <3>2 DEF Alone, Dicts, Whole
  <2>5. ~Unreceived
    BY <1>1, <1>4 DEF Unreceived
  <2> QED BY <1>1, <1>2, <2>1, <2>2, <2>3, <2>4, <2>5, ReturnAlone DEF Still, InCall
<1>5. CASE mem' = Stopped("running", None) /\ Goto("loop") /\ UNCHANGED ckpt
  <2>1. /\ mem'.stop = None /\ mem'.baseline = mem.baseline /\ mem'.views = mem.views
        /\ mem'.decision = mem.decision
        /\ mem'.completion = mem.completion /\ mem'.phase = mem.phase
        /\ mem'.status = "running"
    BY <1>5 DEF Stopped, IInv, Shape, Fields
  <2>2. pc' = "loop" /\ UNCHANGED <<call, written, ckpt>>
    BY <1>5 DEF Goto, local
  <2>3. Aside
    BY <1>1, <1>2, <2>2 DEF Aside, Unreceived, Received, Done, Still, NotApplying, InCall
  <2>4. Plans' /\ Trees' /\ Landing' /\ Answers' /\ Reasons'
    BY <1>1, <1>2, <2>2, <2>3, AsideStep, AnswersStep, ReasonsStay DEF Still
  <2>5. mem.phase # "complete"
    BY <1>5 DEF Open, Pause, Return, Save, Leave, Goto
  <2>6. Places' /\ Dicts'
    BY <2>1, <2>2, <2>5 DEF Alone, Places, Dicts, Whole, InCall, Outside
  <2> QED BY <1>1, <2>4, <2>6 DEF Alone, Still
<1>6. CASE /\ mem.phase = "complete" /\ Current
           /\ LET c == IF mem.completion # None THEN mem.completion
                       ELSE [status |-> mem.status, stop |-> mem.stop]
              IN  Return(Stopped(c.status, c.stop))
  BY <1>4, <1>6
<1> QED BY <1>3, <1>5, <1>6 DEF Open

\* What a model answers can be acted upon.
LEMMA DecisionsProposed ==
    ASSUME Alone, NEW x \in Decisions
    PROVE  Proposed(x)
<1>1. CASE \E y \in {"read", "map", "stop"} : x = [do |-> y]
  BY <1>1 DEF Proposed
<1>2. CASE \E e \in Edits, v \in mem.views : x = [do |-> "repair", edit |-> e, seen |-> v]
  <2>1. PICK e \in Edits, v \in mem.views : x = [do |-> "repair", edit |-> e, seen |-> v]
    BY <1>2
  <2>2. v \in [Paths -> Contents]
    BY DEF Alone, Dicts, Whole
  <2>3. x \in [do : {"repair"}, edit : Edits, seen : [Paths -> Contents]]
    BY <2>1, <2>2
  <2> QED BY <2>1, <2>3, NoneAssumption DEF Proposed
<1> QED BY <1>1, <1>2 DEF Decisions

LEMMA EndAlone ==
    ASSUME IInv, Alone, mishaps \in Nat, End
    PROVE  Alone'
<1>1. PICK x, status :
         /\ status \in {"done", "failed"} /\ Outcome(status, x)
         /\ status = "done" => x \in ResultsOf(call)
  <2>1. CASE \E x \in ResultsOf(call) : Outcome("done", x)
    BY <2>1
  <2>2. CASE Outcome("failed", "bad")
    BY <2>2
  <2> QED BY <2>1, <2>2 DEF End
<1>2. /\ pc = "calling" /\ pc' = "returned" /\ call[1] # "apply" /\ call \in Keys
      /\ UNCHANGED <<tree, ckpt, mem, call, written, meddled, cut>>
      /\ mishaps' \in {mishaps, mishaps + 1}
      /\ \A k \in Keys \ {call} : ops'[k] = ops[k]
      /\ ops'[call].status = status /\ ops'[call].result = x
      /\ status \in {"done", "failed"}
  <2>1. pc = "calling" /\ pc' = "returned" /\ call[1] # "apply" /\ call \in Keys
        /\ UNCHANGED <<tree, ckpt, mem, call, written, meddled, cut>>
        /\ mishaps' \in {mishaps, mishaps + 1}
    BY <1>1 DEF End, Outcome, local, history, Alone, Places, InCall
  <2> QED BY <1>1, <2>1 DEF Outcome, IInv, Shape
<1>3. ApplyKept
  <2> SUFFICES ASSUME NEW i \in 1..MaxRepairs PROVE ApplyRow(i)'.status = ApplyRow(i).status
    BY DEF ApplyKept
  <2>1. <<"apply", i, 0>> \in Keys \ {call}
    BY <1>2, VerifyKeys
  <2> QED BY <1>2, <2>1 DEF ApplyRow
<1>4. Answers'
  <2>1. CASE call[1] = "decide" /\ status = "done"
    <3>1. x \in Decisions
      BY <1>1, <2>1 DEF ResultsOf
    <3>2. Proposed(x)
      BY <3>1, DecisionsProposed
    <3> QED BY <1>2, <3>2 DEF Alone, Answers
  <2>2. CASE ~(call[1] = "decide" /\ status = "done")
    BY <1>2, <2>2 DEF Alone, Answers
  <2> QED BY <2>1, <2>2
<1>5. Aside
  BY <1>2, <1>3 DEF Aside, Unreceived, Received, Done, InCall
<1>6. Plans' /\ Trees' /\ Landing' /\ Reasons'
  BY <1>2, <1>5, AsideStep, ReasonsStay
<1>7. Places' /\ Dicts'
  BY <1>2 DEF Alone, Places, Dicts, InCall, Outside, Unreceived, Received, Done
<1> QED BY <1>2, <1>4, <1>6, <1>7 DEF Alone

\* In a run, with nothing in hand.
LEMMA Running ==
    ASSUME IInv, Alone, pc \notin Outside \cup {"receipted"},
           pc \notin {"calling", "returned"} \/ call[1] # "apply"
    PROVE  /\ NotApplying
           /\ ckpt.fingerprint # NoFingerprint /\ ckpt.phase # "complete"
           /\ mem.repairs = ckpt.repairs /\ mem.fingerprint = ckpt.fingerprint
           /\ mem.phase = ckpt.phase /\ mem.stop = None
BY DEF NotApplying, InCall, IInv, Synced, Alone, Places

\* The worktree has changed: then the fingerprint was cut from it.
LEMMA Torn ==
    ASSUME IInv, Alone, ~Current, ckpt.fingerprint # NoFingerprint, ~Unreceived
    PROVE  cut
BY DEF Current, Alone, Trees, IInv, Synced

LEMMA BaselineAlone ==
    ASSUME IInv, Alone, mishaps \in Nat, Baseline
    PROVE  Alone'
<1>1. /\ Still /\ pc = "loop" /\ mem.phase = "baseline" /\ mem.phase = ckpt.phase
      /\ ~Unreceived /\ ckpt.phase # "repair" /\ pc \notin Outside \cup {"receipted"}
  BY StillStep DEF Baseline, At, IInv, Synced, Unreceived, Outside
<1>2. CASE mem.baseline.ran < Checks /\ Fresh(<<"baseline", mem.baseline.ran + 1, 0>>)
  <2> DEFINE k == <<"baseline", mem.baseline.ran + 1, 0>>
  <2>1. CASE ~Current /\ Pause("worktree_changed") /\ ops' = ops
    BY <1>1, <2>1, Running, Torn, PauseAlone DEF Outside
  <2>2. CASE Perform(k)
    <3>1. mem.baseline.ran \in Nat /\ Checks \in Nat
      BY TaskAssumption DEF Alone, Dicts, Whole
    <3>2. mem.baseline.ran + 1 \in 1..Checks
      BY <1>2, <3>1
    <3>3. k \in Keys
      BY <3>2, VerifyKeys
    <3> QED BY <1>1, <2>2, <3>3, PerformAlone
  <2> QED BY <1>2, <2>1, <2>2 DEF Fresh
<1>3. CASE Perform(<<"discover", 0, 0>>)
  BY <1>1, <1>3, VerifyKeys, PerformAlone
<1>4. CASE Return([mem EXCEPT !.status = "not_reproduced", !.phase = "complete"]) /\ ops' = ops
  <2> DEFINE s == [mem EXCEPT !.status = "not_reproduced", !.phase = "complete"]
  <2>1. /\ DOMAIN s = Fields /\ s.phase = "complete" /\ s.repairs = mem.repairs
        /\ s.fingerprint = mem.fingerprint /\ s.stop = mem.stop
        /\ s.baseline = mem.baseline /\ s.views = mem.views /\ s.decision = mem.decision
        /\ s.completion = mem.completion
    BY DEF Fields, IInv, Shape
  <2> HIDE DEF s
  <2>2. Return(s) /\ ops' = ops
    BY <1>4 DEF s
  <2>3. s.stop \in Plain /\ Whole(s)
    BY <1>1, <2>1, Running DEF Plain, Alone, Dicts, Whole
  <2> QED BY <1>1, <2>1, <2>2, <2>3, Running, CompleteAlone
<1> QED BY <1>2, <1>3, <1>4 DEF Baseline

\* A pause over a worktree that changed, outside of an edit.
LEMMA ChangedAlone ==
    ASSUME IInv, Alone, mishaps \in Nat, ~Current, Pause("worktree_changed"), ops' = ops,
           Still, pc \notin Outside \cup {"receipted"},
           pc \notin {"calling", "returned"} \/ call[1] # "apply", ~Unreceived
    PROVE  Alone'
BY Running, Torn, PauseAlone DEF Outside

LEMMA OtherAlone ==
    ASSUME IInv, Alone, mishaps \in Nat, NEW why, Pause(why), ops' = ops,
           Still, pc \notin Outside \cup {"receipted"},
           pc \notin {"calling", "returned"} \/ call[1] # "apply",
           why \notin {"interrupted", "worktree_changed", "unreceipted_changes", "no_patch",
                       "partially_applied_edit_requires_review"}
    PROVE  Alone'
BY Running, PauseAlone DEF Outside

LEMMA BaselineCameAlone ==
    ASSUME IInv, Alone, mishaps \in Nat, BaselineCame
    PROVE  Alone'
<1>1. /\ Still /\ pc = "returned" /\ call[1] = "baseline" /\ call \in Keys
      /\ ~Unreceived /\ pc \notin Outside \cup {"receipted"} /\ UNCHANGED <<tree, patched>>
  BY StillStep DEF BaselineCame, Came, Alone, Places, InCall, Unreceived, Outside
<1>2. CASE ~Current /\ Pause("worktree_changed") /\ ops' = ops
  BY <1>1, <1>2, ChangedAlone
<1>3. CASE Pause("baseline_check_invalid") /\ ops' = ops
  BY <1>1, <1>3, OtherAlone
<1>4. CASE /\ Save([mem EXCEPT !.baseline.ran = @ + 1,
                               !.baseline.failed = @ \/ ops[call].result = "fail"])
           /\ ops' = [ops EXCEPT ![call] = NoAttempt] /\ Goto("loop")
  <2> DEFINE b == ops[call].result = "fail"
             r == [mem EXCEPT !.baseline = [@ EXCEPT !.ran = @ + 1]]
             s == [mem EXCEPT !.baseline.ran = @ + 1, !.baseline.failed = @ \/ b]
  <2>1. mem.baseline \in [ran : Nat, failed : BOOLEAN] /\ DOMAIN mem = Fields
    BY DEF Alone, Dicts, Whole, IInv, Shape
  <2>2. /\ DOMAIN s = Fields /\ s.phase = mem.phase /\ s.repairs = mem.repairs
        /\ s.fingerprint = mem.fingerprint /\ s.stop = mem.stop /\ s.status = mem.status
        /\ s.views = mem.views /\ s.decision = mem.decision /\ s.completion = mem.completion
    <3> HIDE DEF b
    <3> QED BY <2>1 DEF Fields
  <2>3. s.baseline = [ran |-> mem.baseline.ran + 1, failed |-> (mem.baseline.failed \/ b)]
    <3> HIDE DEF b
    <3> QED BY <2>1 DEF Fields
  <2>4. b \in BOOLEAN
    OBVIOUS
  <2>5. Save(s) /\ pc' = "loop" /\ written' = written
    BY <1>4 DEF Goto, local
  <2> HIDE DEF b, s
  <2>6. s.baseline \in [ran : Nat, failed : BOOLEAN]
    BY <2>1, <2>3, <2>4
  <2>7. Whole(s)
    BY <2>2, <2>6 DEF Alone, Dicts, Whole
  <2>8. ApplyKept /\ AnswersKept
    <3>1. \A k \in Keys : k # call => ops'[k] = ops[k]
      BY <1>4 DEF IInv, Shape
    <3>2. ASSUME NEW i \in 1..MaxRepairs PROVE <<"apply", i, 0>> \in Keys \ {call}
      <4>1. <<"apply", i, 0>> \in Keys /\ <<"apply", i, 0>>[1] = "apply"
        BY VerifyKeys
      <4> QED BY <1>1, <4>1
    <3> QED BY <1>1, <3>1, <3>2 DEF ApplyKept, AnswersKept, ApplyRow
  <2> QED BY <1>1, <2>2, <2>5, <2>7, <2>8, Running, SaveAlone
<1> QED BY <1>2, <1>3, <1>4 DEF BaselineCame

LEMMA DiscoveredAlone ==
    ASSUME IInv, Alone, mishaps \in Nat, Discovered
    PROVE  Alone'
<1>1. /\ Still /\ pc = "returned" /\ call[1] = "discover" /\ ops' = ops
      /\ ~Unreceived /\ pc \notin Outside \cup {"receipted"} /\ pc' = "loop"
      /\ written' = written
  BY StillStep DEF Discovered, Came, Alone, Places, InCall, Unreceived, Outside, Goto, local
<1> DEFINE s == [mem EXCEPT !.phase = "investigate"]
<1>2. /\ DOMAIN s = Fields /\ s.phase = "investigate" /\ s.repairs = mem.repairs
      /\ s.fingerprint = mem.fingerprint /\ s.stop = mem.stop
      /\ s.baseline = mem.baseline /\ s.views = mem.views /\ s.decision = mem.decision
      /\ s.completion = mem.completion
  BY DEF Fields, IInv, Shape
<1>3. Save(s)
  BY DEF Discovered
<1> HIDE DEF s
<1>4. Whole(s)
  BY <1>2 DEF Alone, Dicts, Whole
<1>5. ApplyKept /\ AnswersKept
  BY <1>1 DEF ApplyKept, AnswersKept, ApplyRow
<1> QED BY <1>1, <1>2, <1>3, <1>4, <1>5, Running, SaveAlone

\* Where a round is.
LEMMA Rounds ==
    ASSUME IInv, Alone,
           \/ At("investigate") \/ InRound \/ pc \in {"asked", "decided"}
           \/ Came("decide") \/ Came("act")
    PROVE  /\ pc \notin Outside \cup {"receipted"} /\ ~Unreceived /\ ckpt.phase # "repair"
           /\ pc \notin {"calling", "returned"} \/ call[1] # "apply"
BY DEF At, InRound, Came, Outside, Unreceived, IInv, Synced, Alone, Places, InCall

LEMMA CannotGoOnAlone ==
    ASSUME IInv, Alone, mishaps \in Nat, CannotGoOn
    PROVE  Alone'
<1>1. Still /\ ops' = ops /\ At("investigate")
  BY StillStep DEF CannotGoOn
<1>2. CASE Pause("round_budget")
  BY <1>1, <1>2, Rounds, OtherAlone
<1>3. CASE ~Current /\ Pause("worktree_changed")
  BY <1>1, <1>3, Rounds, ChangedAlone
<1> QED BY <1>2, <1>3 DEF CannotGoOn

LEMMA AskAlone ==
    ASSUME IInv, Alone, mishaps \in Nat, Ask \/ AskNow \/ Operate
    PROVE  Alone'
<1>1. /\ Still /\ pc \in {"loop", "asked", "decided"} /\ ~Unreceived /\ ckpt.phase # "repair"
      /\ pc \notin Outside \cup {"receipted"}
  <2>1. InRound \/ pc \in {"asked", "decided"}
    BY DEF Ask, AskNow, Operate, ToDo
  <2>2. UNCHANGED <<tree, history>>
    BY DEF Ask, AskNow, Operate
  <2> QED BY <2>1, <2>2, Rounds, StillStep DEF InRound, At
<1>2. CASE Perform(<<"decide", 0, 0>>) \/ Perform(<<"act", 0, 0>>)
  BY <1>1, <1>2, VerifyKeys, PerformAlone
<1>3. CASE Save([mem EXCEPT !.request = TRUE]) /\ Goto("asked") /\ ops' = ops
  <2> DEFINE s == [mem EXCEPT !.request = TRUE]
  <2>1. /\ DOMAIN s = Fields /\ s.phase = mem.phase /\ s.repairs = mem.repairs
        /\ s.fingerprint = mem.fingerprint /\ s.stop = mem.stop /\ s.status = mem.status
        /\ s.baseline = mem.baseline /\ s.views = mem.views /\ s.decision = mem.decision
        /\ s.completion = mem.completion
    BY DEF Fields, IInv, Shape
  <2>2. Save(s) /\ pc' = "asked" /\ written' = written
    BY <1>3 DEF Goto, local
  <2> HIDE DEF s
  <2>3. Whole(s)
    BY <2>1 DEF Alone, Dicts, Whole
  <2>4. ApplyKept /\ AnswersKept
    BY <1>3 DEF ApplyKept, AnswersKept, ApplyRow
  <2> QED BY <1>1, <2>1, <2>2, <2>3, <2>4, Running, SaveAlone
<1> QED BY <1>2, <1>3 DEF Ask, AskNow, Operate

LEMMA DecidedAlone ==
    ASSUME IInv, Alone, mishaps \in Nat, Decided
    PROVE  Alone'
<1>1. /\ Still /\ ops' = ops /\ Came("decide") /\ pc = "returned" /\ call[1] = "decide"
      /\ call \in Keys /\ ops[call].status \in {"done", "failed"}
  BY StillStep DEF Decided, Came, Alone, Places, InCall
<1>2. CASE ~Current /\ Pause("worktree_changed")
  BY <1>1, <1>2, Rounds, ChangedAlone
<1>3. CASE Pause("decision_failed")
  BY <1>1, <1>3, Rounds, OtherAlone
<1>4. CASE ~Failed /\ Save([mem EXCEPT !.decision = ops[call].result]) /\ Goto("decided")
  <2> DEFINE s == [mem EXCEPT !.decision = ops[call].result]
  <2>1. /\ DOMAIN s = Fields /\ s.phase = mem.phase /\ s.repairs = mem.repairs
        /\ s.fingerprint = mem.fingerprint /\ s.stop = mem.stop /\ s.status = mem.status
        /\ s.baseline = mem.baseline /\ s.views = mem.views
        /\ s.decision = ops[call].result /\ s.completion = mem.completion
    BY DEF Fields, IInv, Shape
  <2>2. Save(s) /\ pc' = "decided" /\ written' = written
    BY <1>4 DEF Goto, local
  <2> HIDE DEF s
  <2>3. Proposed(s.decision)
    BY <1>1, <1>4, <2>1 DEF Failed, Alone, Answers
  <2>4. Whole(s)
    BY <2>1, <2>3 DEF Alone, Dicts, Whole
  <2>5. ApplyKept /\ AnswersKept
    BY <1>1 DEF ApplyKept, AnswersKept, ApplyRow
  <2> QED BY <1>1, <2>1, <2>2, <2>3, <2>4, <2>5, Rounds, Running, SaveAlone
<1> QED BY <1>2, <1>3, <1>4 DEF Decided

\* The next round begins without rows of its own.
LEMMA RoundKeep ==
    ASSUME IInv, NewKeys
    PROVE  ApplyKept /\ AnswersKept
<1>1. \A k \in Keys : \/ ops'[k] = ops[k]
                      \/ k[1] \in {"decide", "act"} /\ ops'[k].status = "none"
  BY DEF NewKeys, NoAttempt, IInv, Shape
<1>2. \A i \in 1..MaxRepairs : <<"apply", i, 0>> \in Keys
  BY VerifyKeys
<1> QED BY <1>1, <1>2 DEF ApplyKept, AnswersKept, ApplyRow

\* The end of a round.
LEMMA EndRoundAlone ==
    ASSUME IInv, Alone, mishaps \in Nat, NEW s, DOMAIN s = Fields, Whole(s), EndRound(s),
           s.repairs = ckpt.repairs, s.fingerprint = ckpt.fingerprint, s.stop = None,
           s.phase = ckpt.phase, Still,
           pc \notin Outside \cup {"receipted"},
           pc \notin {"calling", "returned"} \/ call[1] # "apply"
    PROVE  Alone'
<1> DEFINE r == [s EXCEPT !.round = @ + 1]
           t == [r EXCEPT !.request = FALSE, !.decision = None]
<1>1. /\ DOMAIN r = Fields /\ r.phase = s.phase /\ r.repairs = s.repairs
      /\ r.fingerprint = s.fingerprint /\ r.stop = s.stop /\ r.status = s.status
      /\ r.baseline = s.baseline /\ r.views = s.views /\ r.completion = s.completion
  BY DEF Fields
<1>2. Save(t) /\ pc' = "loop" /\ written' = written /\ NewKeys
  BY DEF EndRound, Cleared, Goto, local
<1> HIDE DEF r
<1>3. /\ DOMAIN t = Fields /\ t.phase = s.phase /\ t.repairs = s.repairs
      /\ t.fingerprint = s.fingerprint /\ t.stop = s.stop /\ t.status = s.status
      /\ t.baseline = s.baseline /\ t.views = s.views /\ t.completion = s.completion
      /\ t.decision = None
  BY <1>1 DEF Fields
<1> HIDE DEF t
<1>4. Whole(t)
  BY <1>3 DEF Whole
<1>5. ApplyKept /\ AnswersKept
  BY <1>2, RoundKeep
<1>6. Unreceived => t.phase = "repair"
  BY <1>3 DEF Unreceived
<1> QED BY <1>2, <1>3, <1>4, <1>5, <1>6, Running, SaveAlone

LEMMA OperatedAlone ==
    ASSUME IInv, Alone, mishaps \in Nat, Operated
    PROVE  Alone'
<1>1. Still /\ Came("act")
  BY StillStep DEF Operated
<1>2. Whole(mem) /\ DOMAIN mem = Fields
  BY DEF Alone, Dicts, IInv, Shape
<1>3. CASE EndRound(mem)
  BY <1>1, <1>2, <1>3, Rounds, Running, EndRoundAlone
<1>4. CASE ~Current /\ Pause("worktree_changed") /\ ops' = ops
  BY <1>1, <1>4, Rounds, ChangedAlone
<1>5. CASE Pause("semantic_analysis_incomplete") /\ ops' = ops
  BY <1>1, <1>5, Rounds, OtherAlone
<1>6. CASE EndRound([mem EXCEPT !.analyzed = mem.fingerprint])
  <2> DEFINE s == [mem EXCEPT !.analyzed = mem.fingerprint]
  <2>1. /\ DOMAIN s = Fields /\ s.phase = mem.phase /\ s.repairs = mem.repairs
        /\ s.fingerprint = mem.fingerprint /\ s.stop = mem.stop /\ s.status = mem.status
        /\ s.baseline = mem.baseline /\ s.views = mem.views /\ s.decision = mem.decision
        /\ s.completion = mem.completion
    BY <1>2 DEF Fields
  <2>2. EndRound(s)
    BY <1>6
  <2> HIDE DEF s
  <2>3. Whole(s)
    BY <1>2, <2>1 DEF Whole
  <2> QED BY <1>1, <2>1, <2>2, <2>3, Rounds, Running, EndRoundAlone
<1>7. CASE Current /\ EndRound([mem EXCEPT !.views = @ \cup {mem.fingerprint}])
  <2> DEFINE s == [mem EXCEPT !.views = @ \cup {mem.fingerprint}]
  <2>1. /\ DOMAIN s = Fields /\ s.phase = mem.phase /\ s.repairs = mem.repairs
        /\ s.fingerprint = mem.fingerprint /\ s.stop = mem.stop /\ s.status = mem.status
        /\ s.baseline = mem.baseline /\ s.views = mem.views \cup {mem.fingerprint}
        /\ s.decision = mem.decision /\ s.completion = mem.completion
    BY <1>2 DEF Fields
  <2>2. EndRound(s)
    BY <1>7
  <2> HIDE DEF s
  <2>3. mem.fingerprint \in [Paths -> Contents]
    BY <1>7 DEF Current, Alone, Trees
  <2>4. Whole(s)
    BY <1>2, <2>1, <2>3 DEF Whole
  <2> QED BY <1>1, <2>1, <2>2, <2>4, Rounds, Running, EndRoundAlone
<1> QED BY <1>3, <1>4, <1>5, <1>6, <1>7 DEF Operated

LEMMA StopAlone ==
    ASSUME IInv, Alone, mishaps \in Nat, Stop
    PROVE  Alone'
<1>1. /\ Still /\ ops' = ops /\ (InRound \/ pc \in {"asked", "decided"})
  BY StillStep DEF Stop, ToDo
<1> DEFINE r == [mem EXCEPT !.status = "inconclusive", !.phase = "complete",
                            !.stop = "reason", !.round = @ + 1]
           t == [r EXCEPT !.request = FALSE, !.decision = None]
<1>2. DOMAIN mem = Fields /\ Whole(mem)
  BY DEF IInv, Shape, Alone, Dicts
<1>3. /\ DOMAIN r = Fields /\ r.phase = "complete" /\ r.repairs = mem.repairs
      /\ r.fingerprint = mem.fingerprint /\ r.stop = "reason"
      /\ r.baseline = mem.baseline /\ r.views = mem.views /\ r.completion = mem.completion
  BY <1>2 DEF Fields
<1>4. Return(t)
  BY DEF Stop, Cleared
<1> HIDE DEF r
<1>5. /\ DOMAIN t = Fields /\ t.phase = "complete" /\ t.repairs = mem.repairs
      /\ t.fingerprint = mem.fingerprint /\ t.stop = "reason" /\ t.decision = None
      /\ t.baseline = mem.baseline /\ t.views = mem.views /\ t.completion = mem.completion
  BY <1>3 DEF Fields
<1> HIDE DEF t
<1>6. Whole(t) /\ t.stop \in Plain
  BY <1>2, <1>5 DEF Whole, Plain
<1> QED BY <1>1, <1>4, <1>5, <1>6, Rounds, Running, CompleteAlone

LEMMA RoundOverAlone ==
    ASSUME IInv, Alone, mishaps \in Nat, RoundOver
    PROVE  Alone'
<1>1. Still /\ EndRound(mem) /\ pc = "prepared"
  BY StillStep DEF RoundOver
<1>2. Whole(mem) /\ DOMAIN mem = Fields /\ pc \notin Outside \cup {"receipted"}
  BY <1>1 DEF Alone, Dicts, IInv, Shape, Outside
<1> QED BY <1>1, <1>2, Running, EndRoundAlone

\* The edit of a new repair is not in the files yet.
LEMMA PreparedAlone ==
    ASSUME IInv, Alone, mishaps \in Nat, Still, ops' = ops, NEW r,
           DOMAIN r = {"edit", "receipt", "before"}, r.edit \in Edits, r.receipt = FALSE,
           DOMAIN r.before = DOMAIN r.edit, \A f \in DOMAIN r.before : tree[f] = r.before[f],
           Save([mem EXCEPT !.phase = "repair", !.repairs = Append(@, r)]), Goto("prepared"),
           Len(mem.repairs) < MaxRepairs, pc \in {"loop", "decided"}
    PROVE  Alone'
<1> DEFINE s == [mem EXCEPT !.phase = "repair", !.repairs = Append(@, r)]
<1>1. /\ pc \notin Outside \cup {"receipted"} /\ NotApplying
      /\ ckpt.fingerprint # NoFingerprint /\ mem.repairs = ckpt.repairs
      /\ mem.fingerprint = ckpt.fingerprint /\ mem.stop = None
  BY Running DEF Outside
<1>2. /\ DOMAIN s = Fields /\ s.phase = "repair" /\ s.repairs = Append(mem.repairs, r)
      /\ s.fingerprint = mem.fingerprint /\ s.stop = mem.stop
      /\ s.baseline = mem.baseline /\ s.views = mem.views /\ s.decision = mem.decision
      /\ s.completion = mem.completion
  BY DEF Fields, IInv, Shape
<1>3. Save(s) /\ pc' = "prepared" /\ written' = written
  BY DEF Goto, local
<1> HIDE DEF s
<1>4. Whole(s)
  BY <1>2 DEF Alone, Dicts, Whole
<1>5. mem' = ckpt' /\ SameTask(ckpt', s) /\ SameWords(ckpt', s) /\ Whole(ckpt')
  BY <1>2, <1>3, <1>4, SavedWhole
<1>6. /\ Done \in Nat /\ MaxRepairs \in Nat /\ Done < MaxRepairs
      /\ ckpt'.repairs = Append(ckpt.repairs, r) /\ Done' = Done + 1 /\ Last' = r
      /\ \A i \in 1..Done : ckpt'.repairs[i] = ckpt.repairs[i]
  <2>1. ckpt'.repairs = Append(ckpt.repairs, r)
    BY <1>1, <1>2, <1>5 DEF SameTask
  <2>2. PICK S : ckpt.repairs \in Seq(S)
    BY DEF IInv, Shape, IsSeq
  <2>3. ckpt.repairs \in Seq(S \cup {r}) /\ r \in S \cup {r}
    BY <2>2
  <2> QED BY <1>1, <2>1, <2>3, Numbers DEF Done, Last, IInv
<1>7. ~Received' /\ ckpt'.phase = "repair"
  BY <1>2, <1>5, <1>6 DEF Received, Last, SameTask
<1>8. Plans'
  <2> SUFFICES ASSUME NEW i \in 1..(Done + 1)
               PROVE  /\ DOMAIN ckpt'.repairs[i] = {"edit", "receipt", "before"}
                      /\ ckpt'.repairs[i].edit \in Edits
                      /\ DOMAIN ckpt'.repairs[i].before = DOMAIN ckpt'.repairs[i].edit
    BY <1>6 DEF Plans
  <2>1. CASE i \in 1..Done
    BY <1>6, <2>1 DEF Alone, Plans
  <2>2. CASE i = Done + 1
    BY <1>6, <2>2 DEF Last
  <2>3. i \in 1..Done \/ i = Done + 1
    BY <1>6
  <2> QED BY <2>1, <2>2, <2>3
<1>9. Trees'
  <2>1. \A f \in RepairedFiles : f \in RepairedFiles'
    BY <1>6 DEF RepairedFiles, Done
  <2> QED BY <1>7, <2>1 DEF Alone, Trees, Unreceived, Still
<1>10. Landing'
  <2>1. \A i \in 1..MaxRepairs : ApplyRow(i)' = ApplyRow(i)
    BY DEF ApplyRow
  <2>2. ApplyRow(Done)' = ApplyRow(Done + 1) /\ Done + 1 \in 1..MaxRepairs
    BY <1>6 DEF ApplyRow
  <2>3. ApplyRow(Done)'.status = "none"
    BY <1>6, <2>2 DEF Alone, Landing
  <2>4. Holds(Last.before)'
    BY <1>6 DEF Holds, Still
  <2>5. written' = {}
    BY <1>1, <1>3 DEF Alone, Landing, NotApplying
  <2>6. ASSUME NEW i \in 1..MaxRepairs
        PROVE  /\ i > Done' => ApplyRow(i)'.status = "none"
               /\ ApplyRow(i)'.status # "failed"
               /\ mishaps' = 0 => ApplyRow(i)'.status \notin {"running", "uncertain"}
    <3>1. /\ i > Done => ApplyRow(i).status = "none"
          /\ ApplyRow(i).status # "failed"
          /\ mishaps = 0 => ApplyRow(i).status \notin {"running", "uncertain"}
      BY DEF Alone, Landing
    <3>2. i > Done + 1 => i > Done
      BY <1>6
    <3> QED BY <1>6, <2>1, <3>1, <3>2 DEF Still
  <2> QED BY <1>3, <1>7, <2>3, <2>4, <2>5, <2>6 DEF Landing
<1>11. Places' /\ Dicts'
  BY <1>1, <1>2, <1>3, <1>5 DEF Places, Dicts, Outside, InCall, SameWords
<1>12. Reasons'
  BY <1>1, <1>2, <1>5, NoneAssumption
  DEF Reasons, Justified, Final, SameTask, SameWords
<1> QED BY <1>8, <1>9, <1>10, <1>11, <1>12, AnswersStep DEF Alone, Still, AnswersKept

LEMMA PrepareRepairAlone ==
    ASSUME IInv, Alone, mishaps \in Nat, PrepareRepair
    PROVE  Alone'
<1>1. /\ UNCHANGED <<tree, history>> /\ (InRound \/ pc = "decided")
      /\ mem.decision.do = "repair" /\ Proposed(mem.decision)
  BY DEF PrepareRepair, ToDo, Alone, Dicts, Whole
<1>2. /\ Still /\ pc \in {"loop", "decided"} /\ ~Unreceived /\ ckpt.phase # "repair"
      /\ pc \notin Outside \cup {"receipted"}
  BY <1>1, StillStep, Rounds DEF InRound, At
<1>3. mem.decision # None /\ mem.decision.edit \in Edits /\ mem.decision.do = "repair"
  BY <1>1 DEF Proposed
<1>4. CASE Pause("repair_budget") /\ ops' = ops
  BY <1>2, <1>4, OtherAlone
<1>5. CASE EndRound(mem)
  <2>1. Whole(mem) /\ DOMAIN mem = Fields
    BY DEF Alone, Dicts, IInv, Shape
  <2> QED BY <1>2, <1>5, <2>1, Running, EndRoundAlone
<1>6. CASE ~Fits(mem.decision) /\ Raise /\ ops' = ops
  <2>1. ASSUME mishaps = 0 PROVE Misfit(mem)
    <3>1. tree = mem.fingerprint
      BY <1>2, <2>1, Running DEF Alone, Trees
    <3> QED BY <1>3, <1>6, <3>1 DEF Fits, Misfit
  <2> QED BY <1>2, <1>6, <2>1, Running, RaiseAlone
<1> DEFINE e == mem.decision.edit
           r == [edit |-> e, receipt |-> FALSE, before |-> [f \in DOMAIN e |-> tree[f]]]
<1>7. CASE /\ Len(mem.repairs) < MaxRepairs /\ ops' = ops
           /\ Save([mem EXCEPT !.phase = "repair", !.repairs = Append(@, r)])
           /\ Goto("prepared")
  <2>1. /\ DOMAIN r = {"edit", "receipt", "before"} /\ r.edit \in Edits /\ r.receipt = FALSE
        /\ DOMAIN r.before = DOMAIN r.edit /\ \A f \in DOMAIN r.before : tree[f] = r.before[f]
    BY <1>3
  <2> HIDE DEF r
  <2> QED BY <1>2, <1>7, <2>1, PreparedAlone
<1>8. Len(mem.repairs) \in Nat /\ MaxRepairs \in Nat
  BY Lengths, Numbers DEF IInv, Shape
<1> QED BY <1>4, <1>5, <1>6, <1>7, <1>8 DEF PrepareRepair

-----------------------------------------------------------------------------
(* An edit, when nobody else writes.                                       *)

\* The rows of other edits are out of the way.
LEMMA ApplyKeys ==
    ASSUME IInv, Done > 0
    PROVE  /\ Done \in 1..MaxRepairs /\ <<"apply", Done, 0>> \in Keys
           /\ \A i \in 1..MaxRepairs : <<"apply", i, 0>> \in Keys
           /\ ApplyRow(Done) = ops[<<"apply", Done, 0>>]
           /\ \A k \in Keys : k[1] = "decide" => k # <<"apply", Done, 0>>
<1>1. Done \in 1..MaxRepairs
  BY Numbers DEF IInv
<1>2. <<"apply", Done, 0>>[1] = "apply"
  OBVIOUS
<1> QED BY <1>1, <1>2, VerifyKeys DEF ApplyRow

\* The edit is begun, or it is known to be done.
LEMMA ApplyAlone ==
    ASSUME IInv, Alone, mishaps \in Nat, Apply
    PROVE  Alone'
<1> DEFINE k == <<"apply", Done, 0>>
<1>1. /\ Still /\ pc = "loop" /\ ~Received /\ Done > 0 /\ Unreceived /\ Index = Done
      /\ Repair = Last /\ pc \notin Outside \cup {"receipted"} /\ written = {}
  <2>1. At("repair") /\ UNCHANGED <<tree, history>> /\ ~Repair.receipt
    BY DEF Apply
  <2>2. Index = Done /\ Done \in 1..MaxRepairs /\ ~Received /\ pc \notin Outside \cup {"receipted"}
    BY <2>1, LastRepair
  <2> QED BY <2>1, <2>2, StillStep, Numbers
          DEF At, IInv, Synced, Unreceived, Repair, Last, Alone, Landing, InCall
<1>2. k \in Keys
  BY <1>1, ApplyKeys
<1> HIDE DEF k
<1>3. ASSUME NEW why, Pause(why), ops' = ops,
             why = "partially_applied_edit_requires_review" => mishaps > 0,
             why \in {"partially_applied_edit_requires_review",
                      "retry_requires_explicit_request"}
      PROVE  Alone'
  BY <1>1, <1>3, Running, PauseAlone DEF Outside
<1>4. ASSUME UNCHANGED <<ckpt, mem, written>>, call' = k,
             DOMAIN ops' = Keys, \A l \in Keys \ {k} : ops'[l] = ops[l],
             \/ /\ pc' = "returned" /\ ops'[k].status = "done"
                /\ Holds(Last.edit)
             \/ /\ pc' = "calling" /\ ops'[k].status = "running"
                /\ Holds(Last.before)
      PROVE  Alone'
  <2>1. Done' = Done /\ Received' = Received /\ Last' = Last /\ RepairedFiles' = RepairedFiles
    BY <1>4 DEF Done, Received, Last, RepairedFiles
  <2>2. Plans' /\ Trees'
    BY <1>1, <1>4, <2>1 DEF Alone, Plans, Trees, Unreceived, Still
  <2>3. AnswersKept
    BY <1>1, <1>4, ApplyKeys DEF AnswersKept, k
  <2>4. Answers' /\ Reasons'
    BY <1>1, <1>4, <2>3, AnswersStep, ReasonsStay DEF Still
  <2>5. Places' /\ Dicts'
    <3>1. k[1] = "apply"
      BY DEF k
    <3> QED BY <1>1, <1>2, <1>4, <2>1, <3>1
            DEF Alone, Places, Dicts, Outside, InCall, Unreceived, k
  <2>6. Landing'
    <3>1. ASSUME NEW i \in 1..MaxRepairs, i # Done
          PROVE  ApplyRow(i)' = ApplyRow(i)
      <4>1. <<"apply", i, 0>> # k /\ <<"apply", i, 0>> \in Keys
        BY <1>1, <3>1, ApplyKeys DEF k
      <4> QED BY <1>4, <4>1 DEF ApplyRow
    <3>2. ApplyRow(Done)' = ops'[k] /\ Done \in 1..MaxRepairs
      BY <1>1, <2>1, ApplyKeys DEF ApplyRow, k
    <3>3. ASSUME NEW i \in 1..MaxRepairs
          PROVE  /\ i > Done' => ApplyRow(i)'.status = "none"
                 /\ ApplyRow(i)'.status # "failed"
                 /\ mishaps' = 0 /\ ApplyRow(i)'.status \in {"running", "uncertain"} =>
                      /\ pc' = "calling" /\ call' = <<"apply", i, 0>>
                      /\ ApplyRow(i)'.status = "running"
      <4>1. CASE i = Done
        <5>1. ApplyRow(i)' = ops'[k] /\ k = <<"apply", i, 0>>
          BY <3>2, <4>1 DEF ApplyRow, k
        <5> QED BY <1>4, <2>1, <3>2, <4>1, <5>1
      <4>2. CASE i # Done
        BY <1>1, <2>1, <3>1, <4>2 DEF Alone, Landing, Still
      <4> QED BY <4>1, <4>2
    <3>4. /\ Holds(Last.before) => Holds(Last.before)'
          /\ Holds(Last.edit) => Holds(Last.edit)'
      BY <1>1, <2>1 DEF Holds, Still
    <3>5. /\ ApplyRow(Done)'.status = "none" => Holds(Last.before)'
          /\ ApplyRow(Done)'.status = "done" => Holds(Last.edit)'
          /\ Received' \/ pc' = "receipted" => ApplyRow(Done)'.status = "done"
      BY <1>1, <1>4, <2>1, <3>2, <3>4
    <3>6. pc' = "calling" =>
            /\ ApplyRow(Done)'.status = "running"
            /\ \A f \in DOMAIN Last'.edit :
                 tree'[f] = IF f \in written' THEN Last'.edit[f] ELSE Last'.before[f]
      <4>1. Done > 0 => DOMAIN Last.edit = DOMAIN Last.before
        BY <1>1, ApplyKeys, Numbers DEF Alone, Plans, Last, IInv
      <4> QED BY <1>1, <1>4, <2>1, <3>2, <4>1 DEF Holds, Still
    <3>7. written' = {}
      BY <1>1, <1>4
    <3> QED BY <3>3, <3>5, <3>6, <3>7 DEF Landing
  <2> QED BY <1>1, <2>2, <2>4, <2>5, <2>6 DEF Alone, Still
<1>5. ASSUME Perform(k), ops[k].status \in {"none", "uncertain"} => Holds(Last.before)
      PROVE  Alone'
  <2>1. ops[k] = ApplyRow(Done) /\ RowShape(ops[k]) /\ DOMAIN ops = Keys
    BY <1>2 DEF ApplyRow, k, IInv, Shape
  <2>2. ops[k].status = "done" => Holds(Last.edit)
    BY <1>1, <2>1 DEF Alone, Landing
  <2>3. CASE Pause("retry_requires_explicit_request") /\ ops' = ops
    BY <1>3, <2>3
  <2>4. CASE ops[k].status = "done" /\ pc' = "returned" /\ call' = k /\
             UNCHANGED <<ckpt, mem, ops, retry, written, n>>
    BY <1>4, <2>1, <2>2, <2>4
  <2>5. CASE ops[k].status \in {"none", "failed", "uncertain"} /\ Dispatch(k)
    <3>1. ops[k].status # "failed"
      BY <1>1, <2>1, ApplyKeys DEF Alone, Landing
    <3>2. /\ DOMAIN ops' = Keys /\ \A l \in Keys \ {k} : ops'[l] = ops[l]
          /\ ops'[k].status = "running" /\ pc' = "calling" /\ call' = k
          /\ UNCHANGED <<ckpt, mem, written>>
      BY <1>2, <2>1, <2>5 DEF Dispatch, NoAttempt
    <3> QED BY <1>4, <1>5, <2>5, <3>1, <3>2
  <2> QED BY <1>5, <2>3, <2>4, <2>5 DEF Perform
<1>6. CASE ops[k].status = "uncertain" /\ Reconcile(k)
  <2>1. CASE Holds(Last.edit)
    <3>1. /\ ops' = [ops EXCEPT ![k].status = "done"]
          /\ pc' = "returned" /\ call' = k
          /\ UNCHANGED <<ckpt, mem, retry, written, n>>
      BY <1>1, <1>6, <2>1 DEF Reconcile
    <3>2. /\ DOMAIN ops' = Keys /\ \A l \in Keys \ {k} : ops'[l] = ops[l]
          /\ ops'[k].status = "done"
      BY <1>2, <3>1 DEF IInv, Shape, RowShape
    <3> QED BY <1>4, <2>1, <3>1, <3>2
  <2>2. CASE ~Holds(Last.edit) /\ Holds(Last.before)
    BY <1>1, <1>5, <1>6, <2>2 DEF Reconcile
  <2>3. CASE ~Holds(Last.edit) /\ ~Holds(Last.before)
    <3>1. mishaps > 0
      <4>1. ApplyRow(Done).status = "uncertain" /\ Done \in 1..MaxRepairs
        BY <1>1, <1>6, ApplyKeys DEF k
      <4> QED BY <1>1, <4>1 DEF Alone, Landing
    <3> QED BY <1>1, <1>3, <1>6, <2>3, <3>1 DEF Reconcile
  <2> QED BY <2>1, <2>2, <2>3
<1>7. CASE ops[k].status # "uncertain" /\ Perform(k)
  <2>1. ops[k].status = "none" => Holds(Last.before)
    BY <1>1, ApplyKeys DEF Alone, Landing, k
  <2> QED BY <1>5, <1>7, <2>1
<1> QED BY <1>1, <1>6, <1>7 DEF Apply, k

LEMMA EditFacts ==
    ASSUME NEW e \in Edits
    PROVE  DOMAIN e \subseteq Files /\ DOMAIN e # {} /\ \A f \in DOMAIN e : e[f] \in Contents
<1>1. PICK S \in (SUBSET Files) \ {{}} : e \in [S -> Contents]
  BY TaskAssumption
<1> QED BY <1>1

\* While apply_edit_plan runs nothing but it changes the files.
LEMMA Editing ==
    ASSUME IInv, Alone, pc = "calling" \/ pc = "returned", call[1] = "apply"
    PROVE  /\ call = <<"apply", Done, 0>> /\ call \in Keys /\ Unreceived /\ ~Received
           /\ Done \in 1..MaxRepairs /\ Index = Done /\ Repair = Last
           /\ Last.edit \in Edits /\ DOMAIN Last.before = DOMAIN Last.edit
           /\ DOMAIN Last = {"edit", "receipt", "before"}
           /\ mem.repairs = ckpt.repairs /\ ApplyRow(Done) = ops[call]
           /\ pc \notin Outside \cup {"receipted"} /\ ckpt.fingerprint # NoFingerprint
<1>1. /\ call = <<"apply", Done, 0>> /\ call \in Keys /\ Unreceived
      /\ pc \notin Outside \cup {"receipted"}
  BY DEF Alone, Places, InCall, Outside
<1>2. Done > 0 /\ Done \in 1..MaxRepairs
  BY <1>1, Numbers DEF IInv, Calls, InCall
<1>3. mem.repairs = ckpt.repairs /\ ckpt.fingerprint # NoFingerprint
  BY <1>1 DEF IInv, Synced
<1> QED BY <1>1, <1>2, <1>3 DEF Index, Done, Repair, Last, Alone, Plans, ApplyRow, Unreceived

LEMMA ApplyFileAlone ==
    ASSUME IInv, Alone, mishaps \in Nat, ApplyFile
    PROVE  Alone'
<1>1. /\ pc = "calling" /\ call[1] = "apply"
      /\ UNCHANGED <<ckpt, mem, ops, pc, call, meddled, cut, mishaps>>
  BY DEF ApplyFile, history
<1>2. PICK f \in DOMAIN Last.edit \ written :
         /\ tree' = [tree EXCEPT ![f] = Last.edit[f]]
         /\ written' = written \cup {f}
  BY <1>1, Editing DEF ApplyFile
<1>3. /\ Done' = Done /\ Received' = Received /\ Last' = Last
      /\ RepairedFiles' = RepairedFiles /\ Unreceived' = Unreceived
  BY <1>1 DEF Done, Received, Last, RepairedFiles, Unreceived
<1>4. /\ Unreceived /\ ~Received /\ Last.edit \in Edits /\ Done \in 1..MaxRepairs
      /\ DOMAIN Last.edit \subseteq Files /\ Last.edit[f] \in Contents
  BY <1>1, <1>2, Editing, EditFacts
<1>5. tree \in [Paths -> Contents] /\ f \in Paths
  BY <1>4 DEF Alone, Trees, Paths
<1>6. f \in RepairedFiles
  BY <1>2, <1>4 DEF RepairedFiles, Last, Done
<1>7. Trees'
  BY <1>1, <1>2, <1>3, <1>4, <1>5, <1>6 DEF Alone, Trees
<1>8. Landing'
  <2>1. ApplyRow(Done).status = "running"
    BY <1>1 DEF Alone, Landing
  <2>2. \A i \in 1..MaxRepairs : ApplyRow(i)' = ApplyRow(i)
    BY <1>1 DEF ApplyRow
  <2>3. ApplyRow(Done)' = ApplyRow(Done)
    BY <1>1, <1>3 DEF ApplyRow
  <2>4. ASSUME NEW g \in DOMAIN Last.edit
        PROVE  tree'[g] = IF g \in written' THEN Last.edit[g] ELSE Last.before[g]
    <3>1. tree[g] = IF g \in written THEN Last.edit[g] ELSE Last.before[g]
      BY <1>1 DEF Alone, Landing
    <3>2. g \in Paths
      BY <1>4 DEF Paths
    <3> QED BY <1>2, <1>5, <3>1, <3>2
  <2>5. ASSUME NEW i \in 1..MaxRepairs
        PROVE  /\ i > Done' => ApplyRow(i)'.status = "none"
               /\ ApplyRow(i)'.status # "failed"
               /\ mishaps' = 0 /\ ApplyRow(i)'.status \in {"running", "uncertain"} =>
                    pc' = "calling" /\ call' = <<"apply", i, 0>> /\ ApplyRow(i)'.status = "running"
    BY <1>1, <1>3, <2>2 DEF Alone, Landing
  <2> QED BY <1>1, <1>3, <1>4, <2>1, <2>3, <2>4, <2>5 DEF Landing, InCall
<1>9. Places' /\ Dicts' /\ Answers' /\ Plans'
  BY <1>1, <1>3 DEF Alone, Places, Dicts, Answers, Plans, Outside, InCall
<1> QED BY <1>1, <1>7, <1>8, <1>9, ReasonsStay DEF Alone

LEMMA NeverRefused ==
    ASSUME IInv, Alone
    PROVE  ~ApplyRefused
<1> SUFFICES ASSUME pc = "calling", call[1] = "apply" PROVE ~Refused
  BY DEF ApplyRefused
<1> QED BY Editing DEF Refused, Alone, Landing

\* All files are written.
LEMMA ApplyEndAlone ==
    ASSUME IInv, Alone, mishaps \in Nat, ApplyEnd
    PROVE  Alone'
<1>1. /\ pc = "calling" /\ call[1] = "apply" /\ pc' = "returned" /\ Still
      /\ written = DOMAIN Last.edit /\ Outcome("done", "ok")
      /\ UNCHANGED <<ckpt, mem, call, written>>
  BY Editing, StillStep DEF ApplyEnd, Outcome, local
<1>2. /\ call = <<"apply", Done, 0>> /\ call \in Keys /\ Unreceived /\ ~Received
      /\ Done \in 1..MaxRepairs
  BY <1>1, Editing
<1>3. /\ \A k \in Keys \ {call} : ops'[k] = ops[k]
      /\ ops'[call].status = "done"
  BY <1>1, <1>2 DEF Outcome, IInv, Shape
<1>4. /\ Done' = Done /\ Received' = Received /\ Last' = Last
      /\ RepairedFiles' = RepairedFiles /\ Unreceived' = Unreceived
  BY <1>1 DEF Done, Received, Last, RepairedFiles, Unreceived
<1>5. Trees' /\ Plans'
  BY <1>1, <1>4 DEF Alone, Trees, Plans, Still
<1>6. AnswersKept
  BY <1>1, <1>3 DEF AnswersKept
<1>7. Landing'
  <2>1. ApplyRow(Done)'.status = "done"
    BY <1>2, <1>3, <1>4 DEF ApplyRow
  <2>2. Holds(Last.edit)'
    BY <1>1, <1>4 DEF Alone, Landing, Holds, Still
  <2>3. ASSUME NEW i \in 1..MaxRepairs
        PROVE  /\ i > Done' => ApplyRow(i)'.status = "none"
               /\ ApplyRow(i)'.status # "failed"
               /\ mishaps' = 0 => ApplyRow(i)'.status \notin {"running", "uncertain"}
    <3>1. CASE i = Done
      <4>1. ApplyRow(i)' = ops'[call]
        BY <1>2, <3>1 DEF ApplyRow
      <4> QED BY <1>2, <1>3, <1>4, <3>1, <4>1
    <3>2. CASE i # Done
      <4>1. <<"apply", i, 0>> \in Keys \ {call}
        BY <1>2, <3>2, VerifyKeys
      <4>2. ApplyRow(i)' = ApplyRow(i)
        BY <1>3, <4>1 DEF ApplyRow
      <4>3. call # <<"apply", i, 0>>
        BY <4>1
      <4> QED BY <1>1, <1>4, <4>2, <4>3 DEF Alone, Landing, Still
    <3> QED BY <3>1, <3>2
  <2> QED BY <1>1, <1>2, <1>4, <2>1, <2>2, <2>3 DEF Landing, InCall
<1>8. Places' /\ Dicts'
  BY <1>1, <1>2, <1>3, <1>4 DEF Alone, Places, Dicts, Outside, InCall
<1> QED BY <1>1, <1>5, <1>6, <1>7, <1>8, AnswersStep, ReasonsStay DEF Alone, Still

\* A receipt changes nothing else about its repair.
LEMMA ReceiptFacts ==
    ASSUME IInv, Alone, Unreceived,
           ckpt'.repairs = [ckpt.repairs EXCEPT ![Done].receipt = TRUE]
    PROVE  /\ Done' = Done /\ Done \in 1..MaxRepairs /\ Received'
           /\ Last'.edit = Last.edit /\ Last'.before = Last.before
           /\ RepairedFiles' = RepairedFiles /\ Plans'
<1>1. Done \in 1..MaxRepairs /\ IsSeq(ckpt.repairs)
  BY Numbers DEF IInv, Shape, Synced, Unreceived
<1> DEFINE e == [ckpt.repairs[Done] EXCEPT !.receipt = TRUE]
<1>2. /\ DOMAIN e = {"edit", "receipt", "before"} /\ e.receipt = TRUE
      /\ e.edit = Last.edit /\ e.before = Last.before
  <2>1. DOMAIN ckpt.repairs[Done] = {"edit", "receipt", "before"}
    BY <1>1 DEF Alone, Plans
  <2> QED BY <2>1 DEF Last
<1>3. ckpt'.repairs = [ckpt.repairs EXCEPT ![Done] = e]
  OBVIOUS
<1> HIDE DEF e
<1>4. /\ Done' = Done /\ ckpt'.repairs[Done] = e
      /\ \A i \in 1..Done : i # Done => ckpt'.repairs[i] = ckpt.repairs[i]
  <2>1. PICK S : ckpt.repairs \in Seq(S)
    BY <1>1 DEF IsSeq
  <2>2. ckpt.repairs \in Seq(S \cup {e}) /\ e \in S \cup {e} /\ Done \in 1..Len(ckpt.repairs)
    BY <1>1, <2>1 DEF Done
  <2>3. ckpt'.repairs \in Seq(S \cup {e}) /\ Len(ckpt'.repairs) = Len(ckpt.repairs)
    BY <1>3, <2>2
  <2> QED BY <1>3, <2>2, <2>3 DEF Done
<1>5. Last' = e
  BY <1>4 DEF Last
<1>6. Plans'
  <2> SUFFICES ASSUME NEW i \in 1..Done
               PROVE  /\ DOMAIN ckpt'.repairs[i] = {"edit", "receipt", "before"}
                      /\ ckpt'.repairs[i].edit \in Edits
                      /\ DOMAIN ckpt'.repairs[i].before = DOMAIN ckpt'.repairs[i].edit
    BY <1>4 DEF Plans
  <2> QED BY <1>2, <1>4 DEF Alone, Plans, Last
<1>7. \A i \in 1..Done : ckpt'.repairs[i].edit = ckpt.repairs[i].edit
  BY <1>2, <1>4 DEF Last
<1>8. RepairedFiles' = RepairedFiles
  BY <1>4, <1>7 DEF RepairedFiles, Done
<1> QED BY <1>1, <1>2, <1>4, <1>5, <1>6, <1>8 DEF Received, Last

LEMMA AppliedAlone ==
    ASSUME IInv, Alone, mishaps \in Nat, Applied
    PROVE  Alone'
<1>1. /\ pc = "returned" /\ call[1] = "apply" /\ pc' = "receipted" /\ written' = {}
      /\ UNCHANGED <<tree, ckpt, ops, call, meddled, cut, mishaps>>
  BY DEF Applied, Came, history
<1>2. /\ call = <<"apply", Done, 0>> /\ call \in Keys /\ Unreceived /\ ~Received
      /\ Done \in 1..MaxRepairs /\ Index = Done /\ mem.repairs = ckpt.repairs
      /\ ApplyRow(Done) = ops[call] /\ mem.stop = None
  BY <1>1, Editing DEF Alone, Places
<1>3. ApplyRow(Done).status = "done"
  BY <1>1, <1>2 DEF Alone, Places, Landing
<1>4. /\ mem'.repairs = [ckpt.repairs EXCEPT ![Done].receipt = TRUE]
      /\ mem'.stop = mem.stop /\ mem'.status = mem.status /\ mem'.phase = mem.phase
      /\ mem'.baseline = mem.baseline /\ mem'.views = mem.views
      /\ mem'.decision = mem.decision /\ mem'.completion = mem.completion
  <2> DEFINE rs == [mem.repairs EXCEPT ![Index].receipt = TRUE]
  <2>1. mem' = [mem EXCEPT !.repairs = rs]
    BY DEF Applied
  <2>2. rs = [ckpt.repairs EXCEPT ![Done].receipt = TRUE]
    BY <1>2
  <2> HIDE DEF rs
  <2> QED BY <2>1, <2>2 DEF IInv, Shape, Fields
<1>5. /\ Done' = Done /\ Received' = Received /\ Last' = Last
      /\ RepairedFiles' = RepairedFiles /\ Unreceived' = Unreceived
      /\ \A i \in 1..MaxRepairs : ApplyRow(i)' = ApplyRow(i)
  BY <1>1 DEF Done, Received, Last, RepairedFiles, Unreceived, ApplyRow
<1>6. Trees' /\ Plans' /\ Answers'
  BY <1>1, <1>5 DEF Alone, Trees, Plans, Answers
<1>7. Landing'
  <2>1. ApplyRow(Done)' = ApplyRow(Done) /\ Holds(Last.edit)
    BY <1>2, <1>3, <1>5 DEF Alone, Landing
  <2>2. Holds(Last.edit)'
    BY <1>1, <1>5, <2>1 DEF Holds
  <2>3. ASSUME NEW i \in 1..MaxRepairs
        PROVE  /\ i > Done' => ApplyRow(i)'.status = "none"
               /\ ApplyRow(i)'.status # "failed"
               /\ mishaps' = 0 => ApplyRow(i)'.status \notin {"running", "uncertain"}
    BY <1>1, <1>5 DEF Alone, Landing
  <2> QED BY <1>1, <1>3, <2>1, <2>2, <2>3 DEF Landing
<1>8. Places' /\ Dicts'
  <2>1. Places'
    BY <1>1, <1>2, <1>4, <1>5 DEF Places, Outside, InCall
  <2>2. Dicts'
    BY <1>1, <1>4 DEF Alone, Dicts, Whole
  <2> QED BY <2>1, <2>2
<1> QED BY <1>1, <1>6, <1>7, <1>8, ReasonsStay DEF Alone

\* At the receipt, s is saved.
LEMMA ReceiptSaved ==
    ASSUME IInv, Alone, mishaps \in Nat, pc = "receipted", NEW s, DOMAIN s = Fields, Save(s),
           Whole(s), s.repairs = mem.repairs, s.phase = mem.phase, s.stop \in {None, "interrupted"},
           s.stop = "interrupted" => mishaps' > 0, s.fingerprint \in {ckpt.fingerprint, tree},
           tree' = tree, ops' = ops, meddled' = meddled, written' = {},
           pc' \in {"loop", "out"}, pc' = "loop" => s.stop = None,
           mishaps' \in {mishaps, mishaps + 1}, mishaps' = 0 => cut' = cut,
           cut' \in BOOLEAN, ~cut' => s.fingerprint = tree
    PROVE  Alone'
<1>1. mem' = ckpt' /\ SameTask(ckpt', s) /\ SameWords(ckpt', s) /\ Whole(ckpt')
  BY SavedWhole
<1>2. /\ Unreceived /\ mem.repairs = [ckpt.repairs EXCEPT ![Done].receipt = TRUE]
      /\ ckpt.fingerprint # NoFingerprint
  BY DEF Alone, Places, IInv, Synced, Outside
<1>3. ckpt'.repairs = [ckpt.repairs EXCEPT ![Done].receipt = TRUE]
  BY <1>1, <1>2 DEF SameTask
<1>4. /\ Done' = Done /\ Done \in 1..MaxRepairs /\ Received'
      /\ Last'.edit = Last.edit /\ Last'.before = Last.before
      /\ RepairedFiles' = RepairedFiles /\ Plans'
  BY <1>2, <1>3, ReceiptFacts
<1>5. Trees'
  <2>1. ckpt'.fingerprint = s.fingerprint
    BY <1>1 DEF SameTask
  <2> QED BY <1>4, <2>1 DEF Alone, Trees
<1>6. Landing'
  <2>1. ApplyRow(Done).status = "done" /\ Holds(Last.edit)
    BY <1>4 DEF Alone, Landing
  <2>2. \A i \in 1..MaxRepairs : ApplyRow(i)' = ApplyRow(i)
    BY DEF ApplyRow
  <2>3. ApplyRow(Done)' = ApplyRow(Done)
    BY <1>4 DEF ApplyRow
  <2>4. Holds(Last.edit)'
    BY <1>4, <2>1 DEF Holds
  <2>5. ASSUME NEW i \in 1..MaxRepairs
        PROVE  /\ i > Done' => ApplyRow(i)'.status = "none"
               /\ ApplyRow(i)'.status # "failed"
               /\ mishaps' = 0 => ApplyRow(i)'.status \notin {"running", "uncertain"}
    BY <1>4, <2>2 DEF Alone, Landing
  <2> QED BY <2>1, <2>3, <2>4, <2>5 DEF Landing
<1>7. Places' /\ Dicts'
  BY <1>1 DEF Places, Dicts, Outside, InCall, SameWords
<1>8. AnswersKept
  BY DEF AnswersKept
<1>9. Reasons'
  <2>1. /\ ckpt'.stop \in {None, "interrupted"}
        /\ ckpt'.stop = "interrupted" => mishaps' > 0
    BY <1>1 DEF SameWords
  <2>2. ckpt'.stop = None \/ (ckpt'.stop = "interrupted" /\ mishaps' > 0)
    BY <2>1
  <2> QED BY <2>2, NoneAssumption DEF Reasons, Justified, Final
<1> QED BY <1>4, <1>5, <1>6, <1>7, <1>8, <1>9, AnswersStep DEF Alone

LEMMA ReceiptedAlone ==
    ASSUME IInv, Alone, mishaps \in Nat, Receipted
    PROVE  Alone'
<1> DEFINE s == [mem EXCEPT !.fingerprint = tree]
<1>1. /\ DOMAIN s = Fields /\ s.phase = mem.phase /\ s.repairs = mem.repairs
      /\ s.fingerprint = tree /\ s.stop = mem.stop /\ s.status = mem.status
      /\ s.baseline = mem.baseline /\ s.views = mem.views /\ s.decision = mem.decision
      /\ s.completion = mem.completion
  BY DEF IInv, Shape, Fields
<1>2. /\ Save(s) /\ pc = "receipted" /\ pc' = "loop" /\ Still /\ ops' = ops
      /\ written' = written
  BY StillStep DEF Receipted, Refresh, Goto, local
<1> HIDE DEF s
<1>3. Whole(s)
  BY <1>1 DEF Alone, Dicts, Whole
<1>4. mem.stop = None /\ written = {}
  BY <1>2 DEF Alone, Places, Landing, Outside, InCall
<1>5. None # "interrupted"
  BY NoneAssumption DEF Final
<1>6. cut' = cut /\ cut' \in BOOLEAN
  BY <1>2 DEF Still, Alone, Trees
<1> QED BY <1>1, <1>2, <1>3, <1>4, <1>5, <1>6, ReceiptSaved DEF Still

-----------------------------------------------------------------------------
(* The checks of a repair, when nobody else writes.                        *)

\* A step that changes its place only.
LEMMA MovesAlone ==
    ASSUME IInv, Alone, mishaps \in Nat, Still, UNCHANGED <<ckpt, mem, ops, written>>,
           pc \notin Outside \cup {"receipted"},
           pc \notin {"calling", "returned"} \/ call[1] # "apply",
           pc' \in {"look", "loop", "validate", "capture"}
    PROVE  Alone'
<1>1. ApplyKept /\ AnswersKept
  BY DEF ApplyKept, AnswersKept, ApplyRow
<1>2. Aside
  BY <1>1, Running DEF Aside, Unreceived, Received, Done, Still, NotApplying, InCall
<1>3. Places' /\ Dicts'
  BY DEF Alone, Places, Dicts, Outside, InCall
<1> QED BY <1>1, <1>2, <1>3, AsideStep, AnswersStep, ReasonsStay DEF Alone, Still

LEMMA ReinvestigateAlone ==
    ASSUME IInv, Alone, mishaps \in Nat, Still, Reinvestigate, Received,
           pc \in {"loop", "look"}
    PROVE  Alone'
<1> DEFINE r == [mem EXCEPT !.status = "running", !.phase = "investigate"]
           t == [r EXCEPT !.request = FALSE, !.decision = None]
<1>1. DOMAIN mem = Fields /\ Whole(mem) /\ pc \notin Outside \cup {"receipted"}
  BY DEF IInv, Shape, Alone, Dicts, Outside
<1>2. /\ DOMAIN r = Fields /\ r.phase = "investigate" /\ r.repairs = mem.repairs
      /\ r.fingerprint = mem.fingerprint /\ r.stop = mem.stop
      /\ r.baseline = mem.baseline /\ r.views = mem.views /\ r.completion = mem.completion
  BY <1>1 DEF Fields
<1>3. Save(t) /\ pc' = "loop" /\ written' = written /\ NewKeys
  BY DEF Reinvestigate, Cleared
<1> HIDE DEF r
<1>4. /\ DOMAIN t = Fields /\ t.phase = "investigate" /\ t.repairs = mem.repairs
      /\ t.fingerprint = mem.fingerprint /\ t.stop = mem.stop /\ t.decision = None
      /\ t.baseline = mem.baseline /\ t.views = mem.views /\ t.completion = mem.completion
  BY <1>2 DEF Fields
<1> HIDE DEF t
<1>5. Whole(t)
  BY <1>1, <1>4 DEF Whole
<1>6. ApplyKept /\ AnswersKept
  BY <1>3, RoundKeep
<1>7. ~Unreceived
  BY DEF Unreceived
<1> QED BY <1>1, <1>3, <1>4, <1>5, <1>6, <1>7, Running, SaveAlone

\* The edit of a received repair is in the files.
LEMMA ReceivedHolds ==
    ASSUME IInv, Alone, Received
    PROVE  Holds(Last.edit) /\ Done \in 1..MaxRepairs /\ ~Unreceived
BY Numbers DEF Alone, Landing, Received, Unreceived, IInv

LEMMA VerifyAlone ==
    ASSUME IInv, Alone, mishaps \in Nat, Verify
    PROVE  Alone'
<1>1. At("repair") /\ UNCHANGED <<tree, history>> /\ Repair.receipt
  BY DEF Verify
<1>2. /\ Still /\ pc = "loop" /\ Index = Done /\ Done \in 1..MaxRepairs /\ Received
      /\ pc \notin Outside \cup {"receipted"}
  BY <1>1, LastRepair, StillStep DEF At
<1>3. Holds(Last.edit) /\ ~Unreceived /\ mem.repairs = ckpt.repairs /\ Repair = Last
  BY <1>2, ReceivedHolds, Running DEF Repair, Last
<1>4. CASE n = 0 /\ (NoOp(Repair) \/ ~Holds(Repair.edit)) /\ Raise /\ ops' = ops
  <2>1. ckpt.repairs # <<>>
    BY <1>2 DEF Done
  <2>2. LastNoOp
    BY <1>3, <1>4, <2>1 DEF LastNoOp, Last, Done
  <2> QED BY <1>2, <1>4, <2>2, Running, RaiseAlone
<1>5. CASE Reinvestigate
  BY <1>2, <1>5, ReinvestigateAlone
<1> DEFINE k == <<"verify", Index, n + 1>>
<1>6. CASE Fresh(k)
  <2>1. CASE ~Current /\ Pause("worktree_changed") /\ ops' = ops
    BY <1>2, <1>3, <2>1, ChangedAlone
  <2>2. CASE Perform(k)
    <3>1. n + 1 \in 1..Checks
      BY <1>2, Numbers DEF IInv, Calls
    <3>2. k \in Keys
      BY <1>2, <3>1, VerifyKeys
    <3> QED BY <1>2, <2>2, <3>2, PerformAlone
  <2> QED BY <1>6, <2>1, <2>2 DEF Fresh
<1> QED BY <1>4, <1>5, <1>6 DEF Verify

LEMMA VerifiedAlone ==
    ASSUME IInv, Alone, mishaps \in Nat, Verified
    PROVE  Alone'
<1>1. /\ Still /\ ops' = ops /\ pc = "returned" /\ call[1] = "verify"
      /\ pc \notin Outside \cup {"receipted"}
  BY StillStep DEF Verified, Came, Outside
<1>2. ~Unreceived
  BY <1>1 DEF IInv, Calls, InCall, Unreceived
<1>3. CASE ~Current /\ Pause("worktree_changed")
  BY <1>1, <1>2, <1>3, ChangedAlone
<1>4. CASE Goto("look") /\ UNCHANGED <<ckpt, mem>>
  BY <1>1, <1>4, MovesAlone DEF Goto, local
<1> QED BY <1>3, <1>4 DEF Verified

LEMMA LookAlone ==
    ASSUME IInv, Alone, mishaps \in Nat, Look
    PROVE  Alone'
<1>1. Still /\ pc = "look" /\ pc \notin Outside \cup {"receipted"} /\ Received
  BY StillStep DEF Look, Outside, IInv, Calls
<1>2. CASE Reinvestigate
  BY <1>1, <1>2, ReinvestigateAlone
<1>3. CASE /\ ops' = ops /\ pc' = IF n + 1 = Checks THEN "validate" ELSE "loop"
           /\ UNCHANGED <<ckpt, mem, call, retry, written>>
  BY <1>1, <1>3, MovesAlone
<1> QED BY <1>2, <1>3 DEF Look

LEMMA ValidateAlone ==
    ASSUME IInv, Alone, mishaps \in Nat, Validate
    PROVE  Alone'
<1>1. /\ Still /\ ops' = ops /\ pc = "validate"
      /\ pc \notin Outside \cup {"receipted"} /\ Received
  BY StillStep, Numbers DEF Validate, Outside, IInv, Calls
<1>2. CASE Stale /\ Raise
  <2>1. ASSUME mishaps = 0 PROVE FALSE
    <3>1. tree = mem.fingerprint
      BY <1>1, <2>1, ReceivedHolds, Running DEF Alone, Trees
    <3> QED BY <1>2, <3>1 DEF Stale
  <2> QED BY <1>1, <1>2, <2>1, Running, RaiseAlone
<1>3. CASE Goto("capture") /\ UNCHANGED <<ckpt, mem>>
  BY <1>1, <1>3, MovesAlone DEF Goto, local
<1> QED BY <1>2, <1>3 DEF Validate

\* What is changed was repaired, and what was repaired but is not changed has
\* the bytes of the pinned commit.
LEMMA CaptureAlone ==
    ASSUME IInv, Alone, mishaps \in Nat, Capture
    PROVE  Alone'
<1>1. /\ Still /\ ops' = ops /\ pc = "capture" /\ pc \notin Outside \cup {"receipted"}
      /\ Received /\ n = Checks
  BY StillStep, Numbers DEF Capture, Outside, IInv, Calls
<1>2. /\ Done \in 1..MaxRepairs /\ ~Unreceived /\ NotApplying
      /\ ckpt.fingerprint # NoFingerprint /\ mem.repairs = ckpt.repairs
      /\ mem.fingerprint = ckpt.fingerprint /\ mem.stop = None
  BY <1>1, ReceivedHolds, Running
<1>3. /\ Modified = RepairedFiles
      /\ \A f \in Files : tree[f] = ckpt.fingerprint[f]
  BY <1>1, <1>2 DEF Modified, RepairedFiles, Index, Done, Alone, IInv, Tests
<1>4. RepairedFiles \subseteq Files
  <2> SUFFICES ASSUME NEW i \in 1..Done PROVE DOMAIN ckpt.repairs[i].edit \subseteq Files
    BY DEF RepairedFiles, Done
  <2> QED BY EditFacts DEF Alone, Plans
<1>5. RepairedFiles # {}
  <2>1. Last.edit \in Edits /\ DOMAIN Last.edit \subseteq RepairedFiles
    BY <1>2 DEF Alone, Plans, Last, RepairedFiles, Done
  <2> QED BY <2>1, EditFacts
<1>6. Changed(tree) \subseteq RepairedFiles
  BY DEF Alone, Trees, Changed
<1>7. ASSUME Changed(tree) # RepairedFiles
      PROVE  \E f \in RepairedFiles : ckpt.fingerprint[f] = Base
  <2>1. PICK f \in RepairedFiles : f \notin Changed(tree)
    BY <1>6, <1>7
  <2> QED BY <1>3, <1>4, <2>1 DEF Changed
<1>8. CASE Changed(tree) = {} /\ Pause("no_patch")
  BY <1>1, <1>2, <1>5, <1>7, <1>8, PauseAlone DEF Outside
<1>9. CASE Changed(tree) # Modified /\ Pause("unreceipted_changes")
  BY <1>1, <1>2, <1>3, <1>7, <1>9, PauseAlone DEF Outside
<1> DEFINE r == [mem EXCEPT !.status = "verified", !.phase = "complete",
                            !.patch = Tracked(tree)]
           t == [r EXCEPT !.request = FALSE, !.decision = None]
<1>10. CASE Return(t)
  <2>1. DOMAIN mem = Fields /\ Whole(mem)
    BY DEF IInv, Shape, Alone, Dicts
  <2>2. /\ DOMAIN r = Fields /\ r.phase = "complete" /\ r.repairs = mem.repairs
        /\ r.fingerprint = mem.fingerprint /\ r.stop = mem.stop
        /\ r.baseline = mem.baseline /\ r.views = mem.views /\ r.completion = mem.completion
    BY <2>1 DEF Fields
  <2> HIDE DEF r
  <2>3. /\ DOMAIN t = Fields /\ t.phase = "complete" /\ t.repairs = mem.repairs
        /\ t.fingerprint = mem.fingerprint /\ t.stop = mem.stop /\ t.decision = None
        /\ t.baseline = mem.baseline /\ t.views = mem.views /\ t.completion = mem.completion
    BY <2>2 DEF Fields
  <2> HIDE DEF t
  <2>4. Whole(t) /\ t.stop \in Plain
    BY <1>2, <2>1, <2>3 DEF Whole, Plain
  <2> QED BY <1>1, <1>2, <1>10, <2>3, <2>4, CompleteAlone
<1>11. Cleared(r) = t
  BY DEF Cleared
<1> QED BY <1>8, <1>9, <1>10, <1>11 DEF Capture

-----------------------------------------------------------------------------
(* The handoff, and what goes wrong.                                       *)

LEMMA HandingAlone ==
    ASSUME IInv, Alone, mishaps \in Nat, HandOff \/ GitApply \/ HandedOff
    PROVE  Alone'
<1> DEFINE k == <<"handoff", 0, 0>>
<1>1. /\ Still /\ UNCHANGED <<ckpt, mem>> /\ pc \in Outside /\ pc' \in Outside
      /\ written' \in {{}, written}
      /\ ops' \in {[Recovered EXCEPT ![k].status = "running"], ops,
                   [ops EXCEPT ![k].status = "done"]}
  <2>1. CASE HandOff
    BY <2>1, StillStep DEF HandOff, local, Outside
  <2>2. CASE GitApply
    BY <2>2, StillStep DEF GitApply, local, Outside
  <2>3. CASE HandedOff
    BY <2>3, StillStep DEF HandedOff, Leave, Outside
  <2> QED BY <2>1, <2>2, <2>3
<1>2. \A l \in Keys \ {k} :
         \/ ops'[l] = ops[l]
         \/ ops[l].status = "running" /\ ops'[l].status = "uncertain"
  <2>1. CASE ops' = [Recovered EXCEPT ![k].status = "running"]
    BY <2>1, RecoveredKeeps DEF IInv
  <2>2. CASE ops' \in {ops, [ops EXCEPT ![k].status = "done"]}
    BY <2>2 DEF IInv, Shape
  <2> QED BY <1>1, <2>1, <2>2
<1>3. /\ \A i \in 1..MaxRepairs : <<"apply", i, 0>> \in Keys \ {k}
      /\ \A l \in Keys : l[1] = "decide" => l # k
  BY VerifyKeys
<1> HIDE DEF k
<1>4. ApplyKept /\ AnswersKept
  BY <1>2, <1>3 DEF ApplyKept, AnswersKept, ApplyRow
<1>5. Aside
  BY <1>1, <1>4 DEF Aside, Unreceived, Received, Done, Still, Outside, InCall
<1>6. Places' /\ Dicts'
  BY <1>1 DEF Alone, Places, Dicts, Outside, InCall
<1> QED BY <1>1, <1>4, <1>5, <1>6, AsideStep, AnswersStep, ReasonsStay DEF Alone, Still

LEMMA KillAlone ==
    ASSUME IInv, Alone, mishaps \in Nat, Kill
    PROVE  Alone'
<1>1. /\ mishaps' = mishaps + 1 /\ mem' = ckpt /\ pc' = "out" /\ written' = {}
      /\ UNCHANGED <<tree, ckpt, ops, cut, meddled>>
  BY DEF Kill, Mishap, Leave
<1>2. ApplyKept /\ AnswersKept
  BY <1>1 DEF ApplyKept, AnswersKept, ApplyRow
<1>3. Aside
  BY <1>1, <1>2 DEF Aside, Unreceived, Received, Done
<1>4. Places' /\ Dicts'
  BY <1>1 DEF Alone, Places, Dicts, Outside, InCall
<1> QED BY <1>1, <1>2, <1>3, <1>4, AsideStep, AnswersStep, ReasonsStay DEF Alone

LEMMA InterruptAlone ==
    ASSUME IInv, Alone, mishaps \in Nat, Interrupt
    PROVE  Alone'
<1>1. /\ mishaps' = mishaps + 1 /\ mishaps' > 0 /\ tree' = tree /\ meddled' = meddled
      /\ cut' = (cut \/ pc = "receipted")
      /\ Return(Stopped("interrupted", "interrupted"))
  BY DEF Interrupt, Mishap, Raise
<1>2. CASE pc # "receipted"
  <2>1. mem.repairs = ckpt.repairs
    BY <1>2 DEF IInv, Synced
  <2>2. cut' = cut
    <3>1. cut \in BOOLEAN /\ cut' \in BOOLEAN /\ (cut' <=> cut)
      BY <1>1, <1>2 DEF Alone, Trees
    <3> QED BY <3>1
  <2>3. ApplyKept
    <3>1. CASE pc # "calling"
      BY <3>1 DEF Interrupt, ApplyKept, ApplyRow
    <3>2. CASE pc = "calling"
      <4>1. ops' = [ops EXCEPT ![call].status = "uncertain"]
        BY <3>2 DEF Interrupt
      <4> SUFFICES ASSUME NEW i \in 1..MaxRepairs
                   PROVE  \/ ApplyRow(i)'.status = ApplyRow(i).status
                          \/ ApplyRow(i).status = "running" /\ ApplyRow(i)'.status = "uncertain"
        BY DEF ApplyKept
      <4>2. <<"apply", i, 0>> \in Keys
        BY VerifyKeys
      <4>3. CASE call = <<"apply", i, 0>>
        <5>1. call[1] = "apply"
          BY <4>3
        <5>2. ApplyRow(i).status = "running" /\ RowShape(ops[call])
          <6>1. i = Done /\ ApplyRow(Done) = ops[call]
            BY <3>2, <4>3, <5>1, Editing
          <6>2. ApplyRow(Done).status = "running"
            BY <3>2, <5>1 DEF Alone, Landing
          <6> QED BY <4>2, <4>3, <6>1, <6>2 DEF IInv, Shape
        <5> QED BY <4>1, <4>2, <4>3, <5>2 DEF ApplyRow, IInv, Shape, RowShape
      <4>4. CASE call # <<"apply", i, 0>>
        BY <4>1, <4>2, <4>4 DEF ApplyRow, IInv, Shape
      <4> QED BY <4>3, <4>4
    <3> QED BY <3>1, <3>2
  <2>4. AnswersKept
    <3>1. CASE pc # "calling"
      BY <3>1 DEF Interrupt, AnswersKept
    <3>2. CASE pc = "calling"
      <4>1. ops' = [ops EXCEPT ![call].status = "uncertain"]
        BY <3>2 DEF Interrupt
      <4>2. call \in Keys /\ RowShape(ops[call]) /\ DOMAIN ops = Keys
        BY <3>2 DEF Alone, Places, InCall, IInv, Shape
      <4>3. ops'[call].status = "uncertain"
        BY <4>1, <4>2 DEF RowShape
      <4>4. \A k \in Keys : k # call => ops'[k] = ops[k]
        BY <4>1, <4>2
      <4> QED BY <4>3, <4>4 DEF AnswersKept
    <3> QED BY <3>1, <3>2
  <2> QED BY <1>1, <2>1, <2>2, <2>3, <2>4, StoppedAlone
<1>3. CASE pc = "receipted"
  <2> DEFINE s == [mem EXCEPT !.status = "interrupted", !.stop = "interrupted"]
  <2>1. /\ DOMAIN s = Fields /\ s.status = "interrupted" /\ s.stop = "interrupted"
        /\ s.phase = mem.phase /\ s.repairs = mem.repairs /\ s.fingerprint = mem.fingerprint
        /\ s.baseline = mem.baseline /\ s.views = mem.views /\ s.decision = mem.decision
        /\ s.completion = mem.completion
    BY DEF IInv, Shape, Fields
  <2>2. Return(s)
    BY <1>1 DEF Stopped
  <2> HIDE DEF s
  <2>3. Whole(s) /\ mem.fingerprint = ckpt.fingerprint
    BY <2>1 DEF Alone, Dicts, Whole, IInv, Synced
  <2>4. Save(s) /\ pc' = "out" /\ written' = {} /\ ops' = ops
    BY <1>3, <2>2 DEF Return, Leave, Interrupt
  <2>5. /\ cut' /\ cut' \in BOOLEAN /\ mishaps' # 0 /\ mishaps' \in {mishaps, mishaps + 1}
        /\ s.fingerprint \in {ckpt.fingerprint, tree} /\ s.stop \in {None, "interrupted"}
    <3>1. cut' /\ cut' \in BOOLEAN
      BY <1>1, <1>3
    <3> QED BY <1>1, <2>1, <2>3, <3>1
  <2> QED BY <1>1, <1>3, <2>1, <2>3, <2>4, <2>5, ReceiptSaved
<1> QED BY <1>2, <1>3

-----------------------------------------------------------------------------

LEMMA InitUndisturbed == Init => Undisturbed
<1> SUFFICES ASSUME Init PROVE Undisturbed
  OBVIOUS
<1>1. /\ mem = Prepared /\ ckpt = Prepared /\ ckpt.repairs = <<>> /\ Done = 0
      /\ ckpt.phase = "baseline" /\ ckpt.fingerprint = NoFingerprint /\ ckpt.stop = None
      /\ ckpt.completion = None /\ ckpt.decision = None /\ ckpt.views = {}
      /\ ckpt.baseline = [ran |-> 0, failed |-> FALSE]
  BY DEF Init, Prepared, Done
<1>2. /\ tree = [f \in Paths |-> Base] /\ ops = [k \in Keys |-> NoAttempt] /\ pc = "out"
      /\ written = {} /\ mishaps = 0 /\ touches = 0 /\ cut = FALSE /\ meddled = FALSE
  BY DEF Init
<1>3. Places /\ Dicts /\ Plans
  BY <1>1, <1>2 DEF Places, Dicts, Whole, Plans, Outside, InCall
<1>4. Answers
  BY <1>2 DEF Answers, NoAttempt
<1>5. Trees
  BY <1>1, <1>2, TaskAssumption DEF Trees, Paths
<1>6. Landing
  <2>1. \A i \in 1..MaxRepairs : ApplyRow(i).status = "none"
    BY <1>2, VerifyKeys DEF ApplyRow, NoAttempt
  <2> QED BY <1>1, <1>2, <2>1 DEF Landing
<1>7. Reasons
  BY <1>1, NoneAssumption DEF Reasons, Justified, Final
<1> QED BY <1>2, <1>3, <1>4, <1>5, <1>6, <1>7 DEF Undisturbed, Alone

LEMMA NextUndisturbed == IInv /\ Undisturbed /\ [Next]_vars => Undisturbed'
<1> SUFFICES ASSUME IInv, Undisturbed, [Next]_vars PROVE Undisturbed'
  OBVIOUS
<1>1. CASE Touch
  <2>1. touches' = touches + 1 /\ mishaps' = mishaps
    BY <1>1 DEF Touch
  <2> QED BY <2>1 DEF Undisturbed
<1>2. CASE UNCHANGED vars
  <2>1. UNCHANGED <<mishaps, touches, cut, meddled, tree, ckpt, mem, ops, pc, call, written>>
    BY <1>2 DEF vars, local, history
  <2>2. ApplyKept /\ AnswersKept
    BY <2>1 DEF ApplyKept, AnswersKept, ApplyRow
  <2>3. Alone => Alone'
    BY <2>1 DEF Alone, Places, Dicts, Answers, Plans, Trees, Landing, Reasons, Justified,
       Misfit, LastNoOp, NoOp, RepairedFiles, Unreceived, Received, Done, Last, ApplyRow,
       Holds, Outside, InCall
  <2> QED BY <2>1, <2>3 DEF Undisturbed
<1>3. ASSUME ~Touch, Next
      PROVE  Undisturbed'
  <2>1. touches' = touches /\ mishaps' \in {mishaps, mishaps + 1}
    BY <1>3 DEF Next, Start, HandOff, Kill, Interrupt, Mishap, Step, history, FirstFingerprint,
       Open, End, Baseline, BaselineCame, Discovered, CannotGoOn, Ask, AskNow, Decided, Operate,
       Operated, Stop, PrepareRepair, RoundOver, Apply, ApplyFile, ApplyRefused, ApplyEnd,
       Applied, Receipted, Verify, Verified, Look, Validate, Capture, GitApply, HandedOff
  <2>2. ASSUME touches = 0 PROVE Alone'
    <3>0. Alone /\ mishaps \in Nat
      BY <2>2 DEF Undisturbed
    <3>1. CASE Step
      BY <3>0, <3>1, FirstFingerprintAlone, OpenAlone, EndAlone, BaselineAlone,
         BaselineCameAlone, DiscoveredAlone, CannotGoOnAlone, AskAlone, DecidedAlone,
         OperatedAlone, StopAlone, PrepareRepairAlone, RoundOverAlone, ApplyAlone,
         ApplyFileAlone, NeverRefused, ApplyEndAlone, AppliedAlone, ReceiptedAlone,
         VerifyAlone, VerifiedAlone, LookAlone, ValidateAlone, CaptureAlone, HandingAlone
      DEF Step
    <3>2. ASSUME NEW again \in BOOLEAN, Start(again) PROVE Alone'
      BY <3>0, <3>2, StartAlone
    <3>3. CASE HandOff \/ Kill \/ Interrupt
      BY <3>0, <3>3, HandingAlone, KillAlone, InterruptAlone
    <3> QED BY <1>3, <3>1, <3>2, <3>3 DEF Next
  <2> QED BY <2>1, <2>2 DEF Undisturbed
<1> QED BY <1>1, <1>2, <1>3

\* While nobody else writes in its worktree, a task waits for a person only for
\* a reason, whatever fails and however often it is cut off and resumed: a
\* changed worktree means a receipt was cut from its fingerprint, a half-applied
\* edit means a crash, unreceipted changes mean that a repair put a file back,
\* and no run ends in an exception but over a repair that has no effect or no
\* longer fits.
THEOREM StopsForAReason == Spec => []NoFalseAlarm
<1>1. Undisturbed => NoFalseAlarm
  BY DEF Undisturbed, Alone, Reasons, Justified, Misfit, NoFalseAlarm, MisfitDecided
<1> QED BY InitStep, NextStep, InitUndisturbed, NextUndisturbed, <1>1, PTL DEF Spec

=============================================================================
