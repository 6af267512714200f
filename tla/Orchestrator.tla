---------------------------- MODULE Orchestrator ----------------------------
(***************************************************************************)
(* The closed loop of src/ctx/orchestrator.py (run_route), with the wave,  *)
(* isolation and recovery policies it asks and the ledger fold it reads.   *)
(*                                                                         *)
(* A route is a DAG of nodes.  Each wave takes the ready ones and runs     *)
(* them in a thread pool: claim under the ledger lock, launch a worker,    *)
(* record its handback, and let the steward decide whether to retry.       *)
(* Mutations with disjoint declared targets may run in worktrees of their  *)
(* own; their patches are merged together when the wave is over.  The      *)
(* process may die; a later run restores what the ledger says is done.     *)
(*                                                                         *)
(* Nodes are numbered in the order of the plan.  A ledger is kept as what  *)
(* task_state() folds it into; steward rows, inbox, checkpoints' text and  *)
(* prewalk (off by default) are left out.  One process works on a task.    *)
(***************************************************************************)
EXTENDS Integers, Sequences, FiniteSets, Sums

CONSTANTS
    Planned, MaxNodes,          \* nodes of the opening plan; cfg.max_nodes
    Deps,                       \* Deps[n]: what n waits for
    Mutations, Targets,         \* nodes that edit; the paths they declare
    IsolatedWorktrees,          \* cfg.isolated_worktrees
    MaxWorkers, MaxWaves, MaxAttempts, MaxReplans,
    Coordinates,                \* there is a coordinator to re-plan
    Budget, Est,                \* cfg.budget_usd, 0 for none; est_cost_usd
    Ratio, ReplanPrice,         \* price of the stronger model; of a re-plan
    Stronger,                   \* a stronger model is installed
    Kinds,                      \* why attempts of workers fail
    Deviations,                 \* what an attempt may cost more than its price, or less
    Unpriced,                   \* a host may not say what an attempt cost
    Droppable,                  \* rows whose append may fail
    DieUnmerged,                \* death may hit between handback and merge
    MaxDrops, MaxDeaths, MaxRuns    \* bounds of the model

All == 1..MaxNodes
FailureKinds == {"denied", "contract", "transient", "capability", "stalled",
                 "timeout"}
RowKinds == {"claim", "handback", "correction"}

ASSUME PlanAssumption ==
    /\ MaxNodes \in Nat /\ Planned \in All
    /\ Deps \in [All -> SUBSET All]
    /\ Mutations \subseteq All
    /\ Targets \in [All -> SUBSET STRING]
ASSUME LimitsAssumption ==
    /\ {MaxWorkers, MaxAttempts} \subseteq Nat \ {0}
    /\ {MaxWaves, MaxReplans, Budget, ReplanPrice, MaxDrops, MaxDeaths,
        MaxRuns} \subseteq Nat
    /\ Est \in [All -> Nat] /\ Ratio \in Nat \ {0}
ASSUME ChoicesAssumption ==
    /\ {IsolatedWorktrees, Coordinates, Stronger, Unpriced, DieUnmerged}
         \subseteq BOOLEAN
    /\ Deviations \subseteq Int /\ Kinds \subseteq FailureKinds /\ Droppable \subseteq RowKinds

VARIABLES
    led,                        \* task_state(ledger).nodes
    nodes,                      \* the task rows of the ledger list 1..nodes
    run,                        \* where the main thread is
    state,                      \* state[n] of the run
    waves, replans, spentEst,   \* waves_run, replans_left, spent_est
    w, isolated, workers,       \* the wave: its workers, isolated_node_ids
    landed,                     \* world: nodes whose work is in the workspace
    runs, deaths, drops,        \* bounded counts
    retriedInParallel,          \* history: a wave of several workers retried
    excess                      \* history: what attempts cost beyond their price

loop == <<state, waves, replans, spentEst>>
bounds == <<runs, deaths, drops, retriedInParallel, excess>>
vars == <<led, nodes, run, loop, w, isolated, workers, landed, bounds>>

Larger(a, b) == IF a > b THEN a ELSE b
Smaller(a, b) == IF a < b THEN a ELSE b
Least(S) == CHOOSE x \in S : \A y \in S : x =< y

-----------------------------------------------------------------------------
(* The ledger and the budget.                                              *)

NoRows == [attempts |-> 0, claimed |-> 0, handed |-> 0, reason |-> "none",
           cost |-> 0, priced |-> TRUE]

Done(n) == led[n].reason = "done"

WithClaim(n, k) ==
    [led EXCEPT ![n].attempts = Larger(@, k), ![n].claimed = k]

\* No cost is a missing observation, not a free attempt.
NoCost == -1
WithHandback(n, k, reason, cost) ==
    [led EXCEPT ![n].handed = k, ![n].reason = reason,
                ![n].cost = IF cost = NoCost THEN @ ELSE @ + cost,
                ![n].priced = @ /\ cost # NoCost]

\* Every append is fail-open: an error drops the row and the run goes on.
Record(kind, new) ==
    \/ led' = new /\ drops' = drops
    \/ /\ kind \in Droppable /\ drops < MaxDrops
       /\ led' = led /\ drops' = drops + 1

\* Mutant: only what was handed back counts.
ReservedNothing(n) == 0

\* open_claim: claimed, and not handed back yet.
ReservedOf(n) == IF led[n].claimed > led[n].handed THEN Est[n] ELSE 0
Reserved == SumTo([n \in All |-> ReservedOf(n)], MaxNodes)
Spent == SumTo([n \in All |-> led[n].cost], MaxNodes)

Actual == IF \A n \in All : led[n].priced THEN Spent ELSE Larger(Spent, spentEst)
Remaining == Budget - Actual - Reserved
Exhausted == Budget > 0 /\ Remaining =< 0
Covers(more, price) == Budget = 0 \/ price =< Remaining + more

-----------------------------------------------------------------------------
(* A run: a new task, or the ledger of an old one replayed.                *)

Idle == [pc |-> "out", attempt |-> 0, strong |-> FALSE, kind |-> "none",
         cost |-> 0, patch |-> FALSE, ok |-> FALSE]

InWave == {n \in All : w[n].pc # "out"}
Active == {n \in InWave : w[n].pc \notin {"queued", "finished", "correct"}}

Init ==
    /\ led = [n \in All |-> NoRows]
    /\ nodes = Planned
    /\ run = "plan"
    /\ state = [n \in All |-> IF n =< Planned THEN "pending" ELSE "none"]
    /\ waves = 0 /\ replans = MaxReplans /\ spentEst = 0
    /\ w = [n \in All |-> Idle] /\ isolated = {} /\ workers = 1
    /\ landed = {}
    /\ runs = 1 /\ deaths = 0 /\ drops = 0 /\ retriedInParallel = FALSE
    /\ excess = 0

\* Mutant: every node of the ledger is to be run.
RestoredNone(n) == "pending"

Restored(n) == IF Done(n) THEN "ok" ELSE "pending"

\* ctx orchestrate --resume: the route of the task rows.
Resume ==
    /\ run \in {"over", "dead"} /\ runs < MaxRuns
    /\ runs' = runs + 1
    /\ run' = "plan"
    /\ state' = [n \in All |-> IF n =< nodes THEN Restored(n) ELSE "none"]
    /\ waves' = 0 /\ replans' = MaxReplans /\ spentEst' = 0
    /\ w' = [n \in All |-> Idle] /\ isolated' = {}
    /\ UNCHANGED <<led, nodes, workers, landed, deaths, drops,
                   retriedInParallel, excess>>

-----------------------------------------------------------------------------
(* Planning a wave.                                                        *)

\* Nodes whose dependency failed.  The code's pass goes through the plan
\* once; what it misses behind a later node it marks in the next one.
Blocked == {n \in All : /\ state[n] = "pending"
                        /\ \E d \in Deps[n] : state[d] \in {"failed", "skipped"}}
Marked == [n \in All |-> IF n \in Blocked THEN "skipped" ELSE state[n]]

Ready == {n \in All : /\ state[n] = "pending"
                      /\ \A d \in Deps[n] : state[d] = "ok"}

\* choose_mutation_isolation, as _select_wave asks it.
Overlap(M) == \E m, n \in M : m # n /\ Targets[m] \cap Targets[n] # {}
Separate(M, clean) ==
    /\ Cardinality(M) > 1 /\ IsolatedWorktrees /\ clean
    /\ \A m \in M : Targets[m] # {}
    /\ ~Overlap(M)

\* Mutant: writers that do not overlap need no worktree.
SharedPolicyUnisolated(R, clean, final) ==
    [take |-> R, by |-> Smaller(MaxWorkers, Cardinality(R)), alone |-> {}]

\* Writers in the shared workspace: behind the readers, or one by one.
SharedPolicy(R, clean, final) ==
    LET readers == R \ Mutations
    IN  IF ~final /\ Cardinality(R) > 1 /\ MaxWorkers > 1 /\ readers # {}
        THEN [take |-> readers, alone |-> {},
              by |-> Smaller(Smaller(MaxWorkers, 4), Cardinality(readers))]
        ELSE [take |-> R, by |-> 1, alone |-> {}]

\* choose_wave and _select_wave: who runs, on how many threads, who of them
\* in a worktree.
Select(R, clean, final) ==
    LET writers == R \cap Mutations
        cap == IF writers = {} /\ Cardinality(R) = 2 THEN 2 ELSE 4
    IN  IF writers # {} /\ ~Separate(writers, clean)
        THEN SharedPolicy(R, clean, final)
        ELSE [take |-> R, alone |-> writers,
              by |-> Larger(1, Smaller(Smaller(MaxWorkers, cap), Cardinality(R)))]

\* clean_git_root: anybody may commit, or leave the workspace dirty.
StartWave ==
    /\ run = "plan" /\ waves < MaxWaves /\ Ready # {}
    /\ \E clean \in BOOLEAN :
         LET s == Select(Ready, clean, waves + 1 >= MaxWaves)
         IN  /\ w' = [n \in All |->
                        IF n \in s.take THEN [Idle EXCEPT !.pc = "queued"] ELSE Idle]
             /\ workers' = s.by
             /\ isolated' = s.alone
    /\ state' = Marked
    /\ waves' = waves + 1
    /\ run' = "wave"
    /\ UNCHANGED <<led, nodes, replans, spentEst, landed, bounds>>

MayReplan == Coordinates /\ replans > 0 /\ \E n \in All : state[n] = "failed"

\* The coordinator adds nodes, up to the bound, and their task row is written.
Replan ==
    /\ run = "plan" /\ waves < MaxWaves /\ Ready = {} /\ MayReplan
    /\ nodes < MaxNodes
    /\ replans' = replans - 1
    /\ \E k \in (nodes + 1)..MaxNodes :
         /\ nodes' = k
         /\ state' = [n \in All |->
                        IF n \in (nodes + 1)..k THEN "pending" ELSE Marked[n]]
    /\ UNCHANGED <<led, run, waves, spentEst, w, isolated, workers, landed,
                   bounds>>

\* No money or wave is left, or nothing can run and no re-plan helps (a coordinator asked
\* in vain included): nodes that never ran are recorded as skipped.
Stop ==
    /\ \/ run = "broke"
       \/ run = "plan" /\ (waves >= MaxWaves \/ Ready = {})
    /\ run' = "over"
    /\ state' = [n \in All |-> IF state[n] = "pending" THEN "skipped" ELSE state[n]]
    /\ UNCHANGED <<led, nodes, waves, replans, spentEst, w, isolated,
                   workers, landed, bounds>>

-----------------------------------------------------------------------------
(* run_one: a thread of the pool works on a node.                          *)

main == <<nodes, run, loop, isolated, workers>>
Goes(n, to) == w' = [w EXCEPT ![n].pc = to]

\* A claim left open by a run that died is superseded by this one.
Affordable(n) == Covers(ReservedOf(n), Est[n])

\* _claim_or_refuse: the check and the claim are one step under the lock.
Claim(n) ==
    /\ run = "wave" /\ w[n].pc = "queued"
    /\ Cardinality(Active) < workers
    /\ n = Least({m \in InWave : w[m].pc = "queued"})
    /\ Affordable(n)
    /\ Record("claim", WithClaim(n, led[n].attempts + 1))
    /\ w' = [w EXCEPT
               ![n].pc = IF n \in isolated THEN "enter" ELSE "launch",
               ![n].attempt = led[n].attempts + (IF n \in isolated THEN 0 ELSE 1)]
    /\ UNCHANGED <<main, landed, runs, deaths, retriedInParallel, excess>>

\* Mutant: what is refused waits for room.
RefuseForNow(n) ==
    /\ run = "wave" /\ w[n].pc = "queued" /\ ~Affordable(n)
    /\ UNCHANGED vars

Refuse(n) ==
    /\ run = "wave" /\ w[n].pc = "queued"
    /\ Cardinality(Active) < workers
    /\ n = Least({m \in InWave : w[m].pc = "queued"})
    /\ ~Affordable(n)
    /\ Goes(n, "finished")
    /\ UNCHANGED <<led, main, landed, bounds>>

\* The worktree is there; the loop's attempt += 1.
Enter(n) ==
    /\ run = "wave" /\ w[n].pc = "enter"
    /\ w' = [w EXCEPT ![n].pc = "launch", ![n].attempt = @ + 1]
    /\ UNCHANGED <<led, main, landed, bounds>>

\* Mutant: the ledger is not told.
IsolationFailsUntold(n, pcs) ==
    /\ run = "wave" /\ n \in isolated /\ w[n].pc \in pcs
    /\ w' = [w EXCEPT ![n].pc = "finished", ![n].ok = FALSE]
    /\ UNCHANGED <<led, main, landed, bounds>>

\* WorktreeIsolationError, from entering, resetting or capturing: one more
\* handback.  On entering, attempt is still that of the run before.
IsolationFails(n, pcs) ==
    /\ run = "wave" /\ n \in isolated /\ w[n].pc \in pcs
    /\ Record(IF w[n].pc = "capture" THEN "correction" ELSE "handback",
              WithHandback(n, Larger(w[n].attempt, 1), "failed", NoCost))
    /\ w' = [w EXCEPT ![n].pc = "finished", ![n].ok = FALSE]
    /\ UNCHANGED <<main, landed, runs, deaths, retriedInParallel, excess>>

\* The worker returns.  In the shared workspace its work is then there; in a
\* worktree it waits for the merge.  The host says what the attempt cost,
\* which may be more than anybody estimated.
MaxPrice(n) == IF w[n].strong THEN Ratio * Est[n] ELSE Est[n]
Costs(n) == {Larger(0, MaxPrice(n) + d) : d \in Deviations}
            \cup (IF Unpriced THEN {NoCost} ELSE {})
Launch(n) ==
    /\ run = "wave" /\ w[n].pc = "launch"
    /\ \E kind \in Kinds \cup {"done"}, cost \in Costs(n) :
         /\ w' = [w EXCEPT ![n].pc = "back", ![n].kind = kind, ![n].cost = cost]
         /\ landed' = IF kind = "done" /\ n \notin isolated
                      THEN landed \cup {n} ELSE landed
    /\ UNCHANGED <<led, main, bounds>>

Reason(n) == IF w[n].kind = "done" THEN "done" ELSE "failed"

Handback(n) ==
    /\ run = "wave" /\ w[n].pc = "back"
    /\ Record("handback", WithHandback(n, w[n].attempt, Reason(n), w[n].cost))
    /\ w' = [w EXCEPT
               ![n].pc = IF w[n].kind # "done" THEN "decide"
                         ELSE IF n \in isolated THEN "capture" ELSE "finished",
               ![n].ok = w[n].kind = "done"]
    /\ excess' = excess + Larger(0, w[n].cost - MaxPrice(n))
    /\ UNCHANGED <<main, landed, runs, deaths, retriedInParallel>>

Capture(n) ==
    /\ run = "wave" /\ w[n].pc = "capture"
    /\ w' = [w EXCEPT ![n].pc = "finished", ![n].patch = TRUE]
    /\ UNCHANGED <<led, main, landed, bounds>>

-----------------------------------------------------------------------------
(* The steward: decide() offers what exists, choose_recovery() picks.      *)

MenuOf(n) ==
    {"stop_blocked", "stop_budget"}
    \cup (IF w[n].attempt < MaxAttempts THEN {"retry_same"} ELSE {})
    \cup (IF w[n].attempt < MaxAttempts /\ Stronger /\ ~w[n].strong
          THEN {"escalate"} ELSE {})
    \cup (IF Coordinates /\ replans > 0 THEN {"replan"} ELSE {})

PriceOf(n, action) ==
    CASE action = "retry_same" -> Est[n]
      [] action = "escalate" -> Ratio * Est[n]
      [] action = "replan" -> Smaller(Est[n], ReplanPrice)
      [] OTHER -> 0

Preferences(kind, attempt) ==
    CASE kind = "denied" -> <<"stop_blocked">>
      [] kind = "contract" -> <<"replan", "escalate">>
      [] kind = "transient" /\ attempt < 2 -> <<"retry_same", "replan">>
      [] kind = "capability" -> <<"escalate", "replan">>
      [] kind = "stalled" -> <<"escalate", "replan", "stop_blocked">>
      [] kind = "timeout" -> <<"replan", "retry_same", "escalate">>
      [] OTHER -> <<"replan", "escalate", "stop_blocked">>

Chosen(n) ==
    LET wish == Preferences(w[n].kind, w[n].attempt)
        fits == {i \in 1..Len(wish) : /\ wish[i] \in MenuOf(n)
                                      /\ Covers(0, PriceOf(n, wish[i]))}
    IN  IF Exhausted \/ fits = {} THEN "stop_budget" ELSE wish[Least(fits)]

GoesOn(n) == Chosen(n) \in {"retry_same", "escalate"}

\* The steward reads the ledger; the claim of a retry is a later step, and
\* nobody looks at the budget again.
Decide(n) ==
    /\ run = "wave" /\ w[n].pc = "decide" /\ GoesOn(n)
    /\ w' = [w EXCEPT ![n].pc = "retry",
                      ![n].strong = @ \/ Chosen(n) = "escalate"]
    /\ UNCHANGED <<led, main, landed, bounds>>

GiveUp(n) ==
    /\ run = "wave" /\ w[n].pc = "decide" /\ ~GoesOn(n)
    /\ Goes(n, "finished")
    /\ UNCHANGED <<led, main, landed, bounds>>

\* A retry claims at the first estimate, also when it is an escalation.
Retry(n) ==
    /\ run = "wave" /\ w[n].pc = "retry"
    /\ Record("claim", WithClaim(n, w[n].attempt + 1))
    /\ w' = [w EXCEPT ![n].pc = "launch", ![n].attempt = @ + 1]
    /\ retriedInParallel' = (retriedInParallel \/ workers > 1)
    /\ UNCHANGED <<main, landed, runs, deaths, excess>>

Work(n) ==
    \/ Claim(n) \/ Refuse(n) \/ Enter(n) \/ Launch(n) \/ Handback(n)
    \/ Capture(n) \/ Decide(n) \/ GiveUp(n) \/ Retry(n)
    \/ IsolationFails(n, {"enter", "capture"})
    \/ GoesOn(n) /\ IsolationFails(n, {"decide"})

-----------------------------------------------------------------------------
(* The end of a wave.                                                      *)

Patched == {n \in InWave : w[n].patch}
AllFinished == \A n \in InWave : w[n].pc = "finished"

\* Every patch applies, and they are applied as one.
Merge ==
    /\ run = "wave" /\ AllFinished
    /\ run' = "settle"
    /\ landed' = landed \cup Patched
    /\ UNCHANGED <<led, nodes, loop, w, isolated, workers, bounds>>

\* One does not: none lands, and every node of a patch has failed.
Conflict ==
    /\ run = "wave" /\ AllFinished /\ Patched # {}
    /\ run' = "settle"
    /\ w' = [n \in All |-> IF n \in Patched
                          THEN [w[n] EXCEPT !.pc = "correct", !.ok = FALSE] ELSE w[n]]
    /\ UNCHANGED <<led, nodes, loop, isolated, workers, landed, bounds>>

\* Mutant: only the outcome of this run is corrected.
CorrectOutcomeOnly(n) ==
    /\ run = "settle" /\ w[n].pc = "correct"
    /\ Goes(n, "finished")
    /\ UNCHANGED <<led, main, landed, bounds>>

\* The node handed back `done`; the ledger is told otherwise.
Correct(n) ==
    /\ run = "settle" /\ w[n].pc = "correct"
    /\ n = Least({m \in InWave : w[m].pc = "correct"})
    /\ Record("correction", WithHandback(n, Larger(w[n].attempt, 1), "failed", 0))
    /\ Goes(n, "finished")
    /\ UNCHANGED <<main, landed, runs, deaths, retriedInParallel, excess>>

\* _actual_cost: an estimate for every node of the wave, and for its
\* escalation.
Estimated(n) ==
    IF n \notin InWave THEN 0
    ELSE IF w[n].strong THEN Est[n] + Ratio * Est[n] ELSE Est[n]

\* State and estimate are updated, and the loop goes on if anything is left.
Settle ==
    /\ run = "settle" /\ AllFinished
    /\ UNCHANGED <<led, nodes, waves, replans, workers, landed, bounds>>
    /\ state' = [n \in All |-> IF n \notin InWave THEN state[n]
                              ELSE IF w[n].ok THEN "ok" ELSE "failed"]
    /\ spentEst' = spentEst + SumTo([n \in All |-> Estimated(n)], MaxNodes)
    /\ run' = IF Exhausted' THEN "broke" ELSE "plan"
    /\ w' = [n \in All |-> Idle] /\ isolated' = {}

\* Work is on the ledger as done that the workspace does not have yet.
Unmerged == \E n \in All \ landed : Done(n)

Running == {"plan", "wave", "settle", "broke"}

\* The process dies, and its worktrees are lost with it.
Die ==
    /\ run \in Running /\ deaths < MaxDeaths
    /\ Unmerged => DieUnmerged
    /\ deaths' = deaths + 1
    /\ run' = "dead"
    /\ UNCHANGED <<led, nodes, loop, w, isolated, workers, landed, runs, drops,
                   retriedInParallel, excess>>

-----------------------------------------------------------------------------
Loop == StartWave \/ Replan \/ Stop \/ Merge \/ Conflict \/ Settle
Step(n) == Work(n) \/ Correct(n)
Next == Loop \/ (\E n \in All : Step(n)) \/ Resume \/ Die

Spec == Init /\ [][Next]_vars

\* Threads and the main loop go on; launches have timeouts.
FairSpec == Spec /\ WF_vars(Loop) /\ \A n \in All : WF_vars(Step(n))

-----------------------------------------------------------------------------
(* Properties.                                                             *)

Pcs == {"out", "queued", "enter", "launch", "back", "decide", "retry",
        "capture", "finished", "correct"}
RowsType == [attempts : Nat, claimed : Nat, handed : Nat,
             reason : {"none", "done", "failed"}, cost : Nat, priced : BOOLEAN]
WorkerType == [pc : Pcs, attempt : Nat, strong : BOOLEAN,
               kind : Kinds \cup {"none", "done"}, cost : Nat \cup {NoCost},
               patch : BOOLEAN, ok : BOOLEAN]

\* Ledger, loop, workers and counts keep their types.
TypeOK ==
    /\ led \in [All -> RowsType] /\ nodes \in All
    /\ run \in Running \cup {"over", "dead"}
    /\ state \in [All -> {"none", "pending", "ok", "failed", "skipped"}]
    /\ waves \in 0..MaxWaves /\ replans \in 0..MaxReplans /\ spentEst \in Nat
    /\ w \in [All -> WorkerType] /\ isolated \subseteq All
    /\ workers \in Nat \ {0} /\ landed \subseteq All
    /\ runs \in Nat /\ deaths \in 0..MaxDeaths /\ drops \in 0..MaxDrops
    /\ retriedInParallel \in BOOLEAN /\ excess \in Nat

\* A node the run calls ok, restored ones included, has its work in the
\* workspace ("or resume would restore a node whose change never landed").
OkLanded == \A n \in All : state[n] = "ok" => n \in landed

\* Work lands behind what it depends on, stays, and is not reported before:
\* through waves, merges that fail, deaths, lost rows and replays.
Dag == INSTANCE TaskDag WITH Node <- All, Needs <- Deps, landed <- landed,
                             told <- {n \in All : state[n] = "ok"}
RefinesDag == Dag!DSpec

\* A wave does not spend a dollar twice: what the ledger says is spent and
\* what open claims reserve goes beyond the budget by no more than what
\* attempts cost beyond their own price (the host reports a cost when the
\* money is gone), while no claim is lost and no wave of several workers
\* retries (a retry claims unchecked).
BudgetKept ==
    \/ Budget = 0 \/ drops > 0 \/ retriedInParallel
    \/ Spent + Reserved =< Budget + excess

\* Every claim is handed back by the time a run is over, whichever way the
\* attempt went: else its estimate stays reserved.  It speaks of a first run
\* (a later one hands back an attempt whose worktree cannot be made under the
\* number of the attempt before), and of rows that are not lost.
ClaimsClosed ==
    run = "over" /\ runs = 1 /\ drops = 0 => Reserved = 0

\* A writer of the shared workspace works alone, and writers that work
\* beside others declared other files.
WritersApart ==
    \A m, n \in Active : m # n =>
        /\ m \in Mutations => m \in isolated
        /\ {m, n} \subseteq Mutations => Targets[m] \cap Targets[n] = {}

\* A node whose last handback says done is not launched again by any run.
NotRedone ==
    [][\A n \in All : led'[n].attempts > led[n].attempts => ~Done(n)]_vars

\* A run that is not killed comes to its end, where every node of the plan
\* has an outcome.
Told == \A n \in 1..nodes : state[n] \in {"ok", "failed", "skipped"}
RunEnds == run \in Running ~> (run = "dead" \/ (run = "over" /\ Told))
=============================================================================
