---------------------------- MODULE TaskRuntime ----------------------------
(***************************************************************************)
(* The durable execution context of src/ctx/task_runtime.py.               *)
(*                                                                         *)
(* A task's operations live in its ledger.  A coordinator process takes    *)
(* the task's execution lock (active), turns attempts that were left       *)
(* running into uncertain ones, and then performs operations: it admits    *)
(* one against the task's allowances, makes a running row durable, calls   *)
(* the operation's function, and makes the outcome durable.  It may die    *)
(* anywhere in between; another coordinator then takes over.  Anybody may  *)
(* cancel the task at any time.                                            *)
(*                                                                         *)
(* Appending a ledger row is one step here: AppendLog shows why it may be. *)
(* Tokens are admitted exactly as cost is, against a second allowance; the *)
(* model keeps the one.                                                    *)
(***************************************************************************)
EXTENDS Integers, Sequences, FiniteSets, Sums

CONSTANTS Procs,                \* coordinator processes
          NoProc,               \* "the execution lock is free"
          Retriers,             \* those created with retry_failed=True
          Keys,                 \* operation keys: sequences of characters
          KindOf,               \* "observe", "execute", "mutate", "model"
          Requests,             \* what a caller may ask under a key
          Base,                 \* digits of str(n); ten in the code
          MaxSteps, MaxCalls, MaxCost, ReserveCost, Wall, CallSeconds,
          MaxUse,               \* most a model call reports to have cost
          MaxLive,              \* bound on the clock between operations
          Faults                \* which I/O may fail: see below

\* "retain": the root is not renewed after the running row is durable.
\* "publish": the result of a returned call cannot be stored.
\* "ledger": the row of an outcome, or of the session's time, is not written.
FaultKinds == {"retain", "publish", "ledger"}

ASSUME ProcsAssumption == NoProc \notin Procs /\ Retriers \subseteq Procs
ASSUME KeysAssumption ==
    /\ Keys \subseteq Seq(Nat)
    /\ KindOf \in [Keys -> {"observe", "execute", "mutate", "model"}]
ASSUME LimitsAssumption ==
    /\ {MaxSteps, MaxCalls, MaxCost, ReserveCost, Wall, CallSeconds,
        MaxUse, MaxLive} \subseteq Nat
    /\ Base \in Nat /\ Base > 1
    /\ CallSeconds > 0
ASSUME FaultsAssumption == Faults \subseteq FaultKinds

VARIABLES ops,                  \* task_state(ledger).operations, in order
          overhead,             \* the execution.time checkpoint
          cancelled,            \* the .cancel file exists
          holder,               \* who holds the .execution.lock
          pc,                   \* where each coordinator is
          cur,                  \* the row of the operation it performs
          prior, live, existing,\* the session's _prior, clock, existing
          applied,              \* world: times each key's effect landed
          calls,                \* history: calls of each key's function
          spent,                \* history: seconds spent in functions
          late                  \* history: calls begun after cancel()

journal == <<ops, overhead>>
session == <<prior, live, existing>>
world == <<applied, calls, spent, late>>
vars == <<ops, overhead, cancelled, holder, pc, cur, session, world>>

Larger(a, b) == IF a > b THEN a ELSE b
Smaller(a, b) == IF a < b THEN a ELSE b

-----------------------------------------------------------------------------
(* Rows.                                                                   *)

Statuses == {"running", "uncertain", "failed", "done"}

\* str(n), digit by digit.
Decimal[n \in Nat] ==
    IF n < Base THEN <<n>> ELSE Append(Decimal[n \div Base], n % Base)

\* Mutant: the number of the attempt is left out.
OperationIdOfKey(k, n) == k

\* sha256(operation_key + str(len(prior))): the hash is taken to be
\* injective, the string it is taken of need not be.
OperationId(k, n) == k \o Decimal[n]

Ids == {OperationId(k, n) : k \in Keys, n \in 0..MaxSteps}

RowType == [id : Ids, key : Keys, request : Requests, status : Statuses,
            reserved : Nat, elapsed : Nat, cost : Nat, use : Nat]

\* One more operation row in the ledger: the fold keeps the last row of an
\* id, at the place of the first.
Put(rows, r) ==
    IF \E i \in 1..Len(rows) : rows[i].id = r.id
    THEN [i \in 1..Len(rows) |-> IF rows[i].id = r.id THEN r ELSE rows[i]]
    ELSE Append(rows, r)

\* The attempts under a key, and the last of them.
AttemptsOf(rows, k) == {i \in 1..Len(rows) : rows[i].key = k}
Prior(k) == AttemptsOf(ops, k)
IsLast(i, k) == i \in Prior(k) /\ \A j \in Prior(k) : j <= i

Done(k) == \E i \in Prior(k) : ops[i].status = "done"

\* Mutant: an unseen outcome is charged what was observed of it.
ChargedObserved(r) == r.elapsed

\* charged_seconds: an outcome nobody saw keeps its whole reservation.
Charged(r) ==
    IF r.status \in {"running", "uncertain"}
    THEN Larger(r.reserved, r.elapsed)
    ELSE r.elapsed

ChargedTotal == SumOf([i \in DOMAIN ops |-> Charged(ops[i])]) + overhead

ModelCalls == {i \in DOMAIN ops : KindOf[ops[i].key] = "model"}

\* max(reserved, reported or 0); only model calls have any of either.
Admitted(r) == Larger(r.cost, r.use)
AdmittedCost == SumOf([i \in DOMAIN ops |-> Admitted(ops[i])])

\* remaining(): what is left of the wall allowance, never below zero.
Remaining == Larger(0, Wall - Larger(ChargedTotal, prior + live))

-----------------------------------------------------------------------------
NoRow == [id |-> <<>>, status |-> "none"]

Init ==
    /\ ops = <<>> /\ overhead = 0 /\ cancelled = FALSE
    /\ holder = NoProc
    /\ pc = [p \in Procs |-> "out"]
    /\ cur = [p \in Procs |-> NoRow]
    /\ prior = 0 /\ live = 0 /\ existing = {}
    /\ applied = [k \in Keys |-> 0]
    /\ calls = [k \in Keys |-> 0]
    /\ spent = 0 /\ late = 0

\* active(): the lock is there to be had without waiting; otherwise the
\* caller gets ExecutionPaused and nothing happens.
Enter(p) ==
    /\ pc[p] = "out"
    /\ holder = NoProc
    /\ holder' = p
    /\ pc' = [pc EXCEPT ![p] = "recover"]
    /\ UNCHANGED <<journal, cancelled, cur, session, world>>

Running == {i \in DOMAIN ops : ops[i].status = "running"}

\* Mutant: an interrupted attempt counts as a failed one.
RecoverAsFailed(p, i) ==
    /\ pc[p] = "recover"
    /\ i \in Running
    /\ ops' = [ops EXCEPT ![i] = [@ EXCEPT !.status = "failed"]]
    /\ UNCHANGED <<overhead, cancelled, holder, pc, cur, session, world>>

\* An attempt left running by whoever held the lock before is uncertain.
Recover(p, i) ==
    /\ pc[p] = "recover"
    /\ i \in Running
    /\ ops' = [ops EXCEPT ![i] = [@ EXCEPT !.status = "uncertain"]]
    /\ UNCHANGED <<overhead, cancelled, holder, pc, cur, session, world>>

\* The session's clock starts when all of them are.
Start(p) ==
    /\ pc[p] = "recover"
    /\ Running = {}
    /\ prior' = ChargedTotal
    /\ live' = 0
    /\ existing' = {ops[i].id : i \in DOMAIN ops}
    /\ pc' = [pc EXCEPT ![p] = "in"]
    /\ UNCHANGED <<journal, cancelled, holder, cur, world>>

\* Time goes by between operations.
Tick(p) ==
    /\ pc[p] = "in"
    /\ overhead + live < MaxLive
    /\ live' = live + 1
    /\ UNCHANGED <<journal, cancelled, holder, pc, cur, prior, existing, world>>

\* cancel(), by anybody.
Cancel ==
    /\ ~cancelled
    /\ cancelled' = TRUE
    /\ UNCHANGED <<journal, holder, pc, cur, session, world>>

-----------------------------------------------------------------------------
(* perform(key, op, request, fn, reconcile=...)                            *)

\* A mutation nobody knows the outcome of, which is the last attempt.
Uncertain(k) ==
    /\ KindOf[k] = "mutate"
    /\ \E i \in Prior(k) : IsLast(i, k) /\ ops[i].status = "uncertain"

\* The caller's reconcile() looks at the world: it recovers a result when the
\* effect landed, and returns None when it did not.
Reconciles(k) == applied[k] > 0

SameRequest(k, q) == \A i \in Prior(k) : ops[i].request = q

\* The effect of the last attempt did land: record it as done.
Reconcile(p, k, q) ==
    /\ pc[p] = "in"
    /\ SameRequest(k, q) /\ ~Done(k)
    /\ Uncertain(k) /\ Reconciles(k)
    /\ \E i \in Prior(k) :
          /\ IsLast(i, k)
          /\ ops' = [ops EXCEPT ![i] = [@ EXCEPT !.status = "done",
                                                !.elapsed = Charged(ops[i])]]
    /\ UNCHANGED <<overhead, cancelled, holder, pc, cur, session, world>>

\* Mutant: a result that is there already is not looked for.
MayAttemptAgain(p, k) ==
    /\ Uncertain(k) => ~Reconciles(k)
    /\ Prior(k) # {} => p \in Retriers

\* Mutant: only a failed attempt needs the explicit request.
MayAttemptUnasked(p, k) ==
    /\ ~Done(k)
    /\ Uncertain(k) => ~Reconciles(k)
    /\ (\E i \in Prior(k) : ops[i].status = "failed") => p \in Retriers

\* May another attempt follow the ones there are?
MayAttempt(p, k) ==
    /\ ~Done(k)
    /\ Uncertain(k) => ~Reconciles(k)
    /\ Prior(k) # {} => p \in Retriers

\* Mutant: the cancel file is not looked at.
AllowedDespiteCancel(k) ==
    /\ Remaining > 0
    /\ Len(ops) < MaxSteps
    /\ KindOf[k] = "model" =>
          /\ Cardinality(ModelCalls) < MaxCalls
          /\ AdmittedCost + ReserveCost <= MaxCost

\* Mutant: the new call's own reservation is left out of the sum.
AllowedUnreserved(k) ==
    /\ ~cancelled
    /\ Remaining > 0
    /\ Len(ops) < MaxSteps
    /\ KindOf[k] = "model" =>
          /\ Cardinality(ModelCalls) < MaxCalls
          /\ AdmittedCost <= MaxCost

\* Nobody cancelled the task, and there is allowance left for one more.
Allowed(k) ==
    /\ ~cancelled
    /\ Remaining > 0
    /\ Len(ops) < MaxSteps
    /\ KindOf[k] = "model" =>
          /\ Cardinality(ModelCalls) < MaxCalls
          /\ AdmittedCost + ReserveCost <= MaxCost

\* All checks passed; the request is published.
Admit(p, k, q) ==
    /\ pc[p] = "in"
    /\ SameRequest(k, q)
    /\ MayAttempt(p, k)
    /\ Allowed(k)
    /\ cur' = [cur EXCEPT ![p] =
                 [id |-> OperationId(k, Cardinality(Prior(k))), key |-> k,
                  request |-> q, status |-> "running",
                  reserved |-> Smaller(CallSeconds, Remaining), elapsed |-> 0,
                  cost |-> IF KindOf[k] = "model" THEN ReserveCost ELSE 0,
                  use |-> 0]]
    /\ pc' = [pc EXCEPT ![p] = "admitted"]
    /\ UNCHANGED <<journal, cancelled, holder, session, world>>

\* The running row is durable: "cannot dispatch if persistence fails".
Journal(p) ==
    /\ pc[p] = "admitted"
    /\ ops' = Put(ops, cur[p])
    /\ pc' = [pc EXCEPT ![p] = "journaled"]
    /\ UNCHANGED <<overhead, cancelled, holder, cur, session, world>>

\* The row could not be written: perform raises, nothing was dispatched.
JournalFails(p) ==
    /\ pc[p] = "admitted"
    /\ "ledger" \in Faults
    /\ pc' = [pc EXCEPT ![p] = "in"]
    /\ cur' = [cur EXCEPT ![p] = NoRow]
    /\ UNCHANGED <<journal, cancelled, holder, session, world>>

\* retain() raises before the function is called: the row stays as it is.
RetainFails(p) ==
    /\ pc[p] = "journaled"
    /\ "retain" \in Faults
    /\ pc' = [pc EXCEPT ![p] = "in"]
    /\ cur' = [cur EXCEPT ![p] = NoRow]
    /\ UNCHANGED <<journal, cancelled, holder, session, world>>

\* fn(timeout) begins.
Call(p) ==
    /\ pc[p] = "journaled"
    /\ pc' = [pc EXCEPT ![p] = "calling"]
    /\ calls' = [calls EXCEPT ![cur[p].key] = @ + 1]
    /\ late' = IF cancelled THEN late + 1 ELSE late
    /\ UNCHANGED <<journal, cancelled, holder, cur, session, applied, spent>>

\* What the function is for has happened in the world.
Land(p) ==
    /\ pc[p] = "calling"
    /\ pc' = [pc EXCEPT ![p] = "landed"]
    /\ applied' = [applied EXCEPT ![cur[p].key] = @ + 1]
    /\ UNCHANGED <<journal, cancelled, holder, cur, session, calls, spent, late>>

\* The function is over, e seconds later and u dollars on, which count even if
\* its answer was a failure or could not be published.  One that succeeds has
\* had its effect; one that fails has had none; one that was interrupted (a
\* BaseException) may have had it or not.
Outcomes(p) ==
    IF pc[p] = "landed"
    THEN {"done", "uncertain"} \cup
         (IF "publish" \in Faults THEN {"failed"} ELSE {})
    ELSE {"failed", "uncertain"}

Finish(p, status, e, u) ==
    /\ pc[p] \in {"calling", "landed"}
    /\ status \in Outcomes(p)
    /\ e <= cur[p].reserved
    /\ u > 0 => KindOf[cur[p].key] = "model"
    /\ cur' = [cur EXCEPT
                 ![p] = [@ EXCEPT !.status = status, !.elapsed = e, !.use = u]]
    /\ pc' = [pc EXCEPT ![p] = "answered"]
    /\ live' = live + e
    /\ spent' = spent + e
    /\ UNCHANGED <<journal, cancelled, holder, prior, existing,
                   applied, calls, late>>

\* The finally clause: the outcome is durable.
Record(p) ==
    /\ pc[p] = "answered"
    /\ ops' = Put(ops, cur[p])
    /\ pc' = [pc EXCEPT ![p] = "in"]
    /\ cur' = [cur EXCEPT ![p] = NoRow]
    /\ UNCHANGED <<overhead, cancelled, holder, session, world>>

\* ... unless that append raises.
RecordFails(p) ==
    /\ pc[p] = "answered"
    /\ "ledger" \in Faults
    /\ pc' = [pc EXCEPT ![p] = "in"]
    /\ cur' = [cur EXCEPT ![p] = NoRow]
    /\ UNCHANGED <<journal, cancelled, holder, session, world>>

-----------------------------------------------------------------------------
\* Time the session spent beside its own operations.
Observed == SumOf([i \in DOMAIN ops |->
                      IF ops[i].id \in existing THEN 0 ELSE ops[i].elapsed])

\* Leaving active(): the time checkpoint, then the lock.
Leave(p) ==
    /\ pc[p] = "in"
    /\ overhead' = overhead + Larger(0, live - Observed)
    /\ holder' = NoProc
    /\ pc' = [pc EXCEPT ![p] = "out"]
    /\ UNCHANGED <<ops, cancelled, cur, session, world>>

LeaveFails(p) ==
    /\ pc[p] = "in"
    /\ "ledger" \in Faults
    /\ holder' = NoProc
    /\ pc' = [pc EXCEPT ![p] = "out"]
    /\ UNCHANGED <<journal, cancelled, cur, session, world>>

\* The coordinator dies, e seconds into whatever it was doing; the kernel
\* releases its lock.
Crash(p, e) ==
    /\ pc[p] # "out"
    /\ e <= IF pc[p] \in {"calling", "landed"} THEN cur[p].reserved ELSE 0
    /\ spent' = spent + e
    /\ holder' = NoProc
    /\ pc' = [pc EXCEPT ![p] = "out"]
    /\ cur' = [cur EXCEPT ![p] = NoRow]
    /\ UNCHANGED <<journal, cancelled, session, applied, calls, late>>

Perform(p) ==
    \/ \E k \in Keys, q \in Requests : Reconcile(p, k, q) \/ Admit(p, k, q)
    \/ Journal(p) \/ JournalFails(p) \/ RetainFails(p)
    \/ Call(p) \/ Land(p)
    \/ \E s \in Statuses, e \in 0..CallSeconds, u \in 0..MaxUse :
           Finish(p, s, e, u)
    \/ Record(p) \/ RecordFails(p)

Next ==
    \/ Cancel
    \/ \E p \in Procs :
          \/ Enter(p) \/ Start(p) \/ Tick(p) \/ Leave(p) \/ LeaveFails(p)
          \/ \E i \in DOMAIN ops : Recover(p, i)
          \/ Perform(p)
          \/ \E e \in 0..CallSeconds : Crash(p, e)

Spec == Init /\ [][Next]_vars

-----------------------------------------------------------------------------
TypeOK ==
    /\ ops \in Seq(RowType)
    /\ overhead \in Nat /\ prior \in Nat /\ live \in Nat
    /\ spent \in Nat /\ late \in Nat
    /\ cancelled \in BOOLEAN
    /\ holder \in Procs \cup {NoProc}
    /\ pc \in [Procs -> {"out", "recover", "in", "admitted", "journaled",
                         "calling", "landed", "answered"}]
    /\ cur \in [Procs -> RowType \cup {NoRow}]
    /\ existing \subseteq Ids
    /\ applied \in [Keys -> Nat]
    /\ calls \in [Keys -> Nat]

\* The effect of a mutation lands once at most, however often coordinators
\* die in the middle of it and others retry: "uncertain mutations require
\* caller-supplied reconciliation" (task_runtime.py:104-105).
AppliedOnce == \A k \in Keys : KindOf[k] = "mutate" => applied[k] <= 1

\* A completed operation replays: it is never called again, and no later row
\* takes its result away ("Completed operations replay by identity",
\* task_runtime.py:104).
DoneReplays ==
    [][\A k \in Keys : Done(k) => Done(k)' /\ calls'[k] = calls[k]]_vars

\* Every call ever begun has a row of its own in the ledger, so that the
\* allowances count it whatever happened to it.
JournalAhead == \A k \in Keys : calls[k] <= Cardinality(Prior(k))

\* A coordinator without retry_failed only ever makes the first call of a key,
\* whatever became of the attempts before and whoever made them.
NoUnaskedRetry ==
    [][\A p \in Procs \ Retriers :
           pc[p] = "journaled" /\ pc'[p] = "calling" => calls[cur[p].key] = 0]_vars

\* The seconds spent in functions stay within the wall allowance, whoever
\* died in how many of them, when each keeps to its timeout.
WallHolds == spent <= Wall

\* Calls and cost stay within their allowances, over all sessions, when no
\* call costs more than was reserved for it.
ModelBudgetHolds ==
    /\ Cardinality(ModelCalls) <= MaxCalls
    /\ MaxUse <= ReserveCost => AdmittedCost <= MaxCost

\* At most the one operation in flight is called after cancel().
CancelHolds == late <= 1
=============================================================================
