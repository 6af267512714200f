# A specification of ctx

This directory holds TLA+ models of the parts of ctx (`src/ctx`, Python) that
keep durable state and share it between processes, the TLC instances that check
them, and TLAPS proofs about eight of them. Every definition is translated from
the source; `PROJECT.json` maps each one to the lines it stands for and lists
the runs, the mutants that show each property can fail, the findings, the
hazards and the theorems.

## 1. The system

ctx stands between a coding agent (Claude Code, Codex, Antigravity, an ACP
client) and a repository. Commands run under it leave their output in a
content-addressed store and return a digest; reads become addresses into files
and stored objects; edits are planned against what was read and applied by
compare-and-swap; hooks of the agent's host call ctx around each tool call. It
has no server. **Every `ctx` command, every hook call and every supervisor is a
process of its own**, several agents work on one repository at once, and all
coordination goes through files: appended journals under `flock`, files replaced
by a rename, an SQLite catalog, pids. What is hard about the program is there:
processes that interleave without knowing of each other, die between two writes,
and leave what they did to be understood by the next.

The code is organised in planes (`docs/ARCHITECTURE.md`). The inventory:

| Component | State | Operations | Interacts with | Hard behaviour | What makes it correct |
|---|---|---|---|---|---|
| **Append-only journals** `taskledger.py` (append, load), `relay.py` | a JSONL file, its lock | append under `flock`, load without it | the ledger, the relay | kill in the middle of a row, short writes, readers without a lock | a returned append is readable for good; readers see an atomic log |
| **Durable execution** `task_runtime.py`, `accounting.py`, the fold in `taskledger.py` | operation rows, checkpoints, the cancel file, the execution lock | `active`, `perform`, `cancel`, `checkpoint` | journal, store, semantic maps, investigation | crash between effect and record, takeover, budgets over sessions | an effect lands once; done replays; allowances hold; cancel stops calls |
| **Artifact store** `store.py` | blob and manifest files, catalog, leases, edges | put, pin, link, gc | everything | mark and sweep against writers, crash of a collector | a recent manifest is complete; garbage goes |
| **Cross-harness relay** `relay.py`, drains in `hook.py`, `acp.py` | watches, signals, receipts in one journal | watch, unwatch, publish, interrupt, drain, gc | jobs, orchestrator, hooks of all hosts | concurrent drains and publishers, compaction by rename | nothing lost, nothing delivered again, bounds kept |
| **Background jobs** `jobs.py`, `_proc.py` | `meta.json`, markers, `digest`, `finalized.json`, processes | start, supervise, wait, kill, adopt, finalize | store, relay | no locks at all; death of launcher, supervisor, command | waits end; one result; the result says what happened |
| **Transactional edits** `edit_transactions.py` | source files, staged files | plan, preview, apply with rollback | editors, other applies, journal of durable execution | several files without a transaction, editors that follow no protocol | refused leaves nothing, applied is applied, nobody's change is lost |
| **Orchestrator, collaboration ledger** `orchestrator.py`, `worktree_isolation.py`, `wave_policy.py`, `mutation_policy.py`, `taskledger.py` | task ledger, node states, worktrees | waves, claims, launches, handbacks, patch merge, re-plan, resume | steward, journal, relay | a pool of threads against one balance, rows that are lost, merges that fail, death and resume | work lands behind its dependencies and is not reported before; budgets hold; writers keep apart; done work is not redone; the loop ends |
| **Steward, recovery policy** `steward.py`, `recovery_policy.py` | folds of the ledger | menu of a failed attempt, and the choice from it | orchestrator | what is offered was priced before others claimed | a retry fits the balance; every node ends with an outcome |
| Semantic maps `semantic/engine.py` | attempts in a journal | reserve, call a model, record | durable execution, store | as durable execution, concurrently | reservations are kept |
| **Investigation** `controllers/investigation.py`, `edit_verification.py`, `worktree_isolation.py` | a checkpoint, a retained worktree, its fingerprint | baseline, decide, read and map, repair, verify, capture, hand off | durable execution, edits | a mutation cut off anywhere, resumes, somebody else in the worktree | what is handed over passed every check; a task stops for a person only for a reason, and ends |
| **Session state and latches** `reflex.py`, its callers in `hook.py` and `ctx run`; `engagement.py`, `rescue.py` | JSON files per session | note, emit, edit, check, land: read-modify-write under a lock | hooks | concurrent hooks of one session, killed hooks | nothing noted is lost; a re-run is scored once, a hypothesis resolved once |
| Hook guard `hook.py`, `guard_policy.py` | none of its own | allow, rewrite, deny | relay, session state | parsing of shells | classification |
| Evidence plans `plan_ir.py`, `plan_exec.py`, `plan_ops.py` | none | run a bounded DAG | retrieval, durable execution | sequential | bounds |
| Anchors, bounds `anchors.py`, `bounds.py`, `ladders.py` | none | pure functions | edits, retrieval | boundaries | against a reference |
| Derivation, retrieval, digests | caches | pure transformation | store | stale caches | (data) |
| Language servers, proxy, gateway, installer, telemetry, CLI, native hook, evaluations | various | I/O | outside programs | protocols of others | (see section 8) |

How they interact: jobs announce through the relay; hooks drain the relay and
charge session state; durable execution, semantic maps and the orchestrator
write to journals of the same shape and keep their evidence in the store, whose
collector runs beside all of them; edits are mutations that durable execution
journals and reconciles.

## 2. Modules

| Module | Models | Extends |
|---|---|---|
| `AtomicLog` | what a journal promises: a sequence of rows that grows by one | |
| `AppendLog` | `append()` and `load()` on a file | instance of `AtomicLog` as refinement |
| `Sums` | the sum of a sequence of numbers, from the front | |
| `Sorting` | `sorted()` over a finite set | |
| `TaskRuntime` | the durable execution context | `Sums` |
| `Store` | store, catalog, leases, collector | |
| `Relay` | the relay with all its processes | `Sorting` |
| `Jobs` | one job and all processes around it | |
| `EditTransactions` | applying edit plans | `Sorting` |
| `TaskDag` | what a route promises: work lands behind what it depends on, and is not reported before | |
| `Orchestrator` | the closed loop, with steward and ledger fold | `Sums`; instance of `TaskDag` as refinement |
| `Reflex` | the reflex state of a session | |
| `Investigation` | one task of the investigation controller | |
| `MC...` | instances of the above for TLC (`AppendLog` and `Jobs` are run as they are) | the module they instantiate |
| `...Proofs` | theorems and proofs | the module they are about (`FileProofs`: `AppendLog` and `EditTransactions`) |

`AppendLog` justifies what the others assume: appending a row to a journal is
one step in `TaskRuntime` and `Relay`, because `RefinesAtomicLog` shows that
what readers see changes as the log of `AtomicLog` does, and `ReturnedReadable`
that no row is lost once append returned. `Relay` breaks that atomicity again at
the one place where the code does: a compaction may replace the file under a
process that has opened it.

Definitions in a module that a comment calls a *mutant* are not part of the
model: each is a plausible bug, named in `PROJECT.json`, which put in the place
of the definition next to it makes TLC find a property violated.

### AppendLog

The file is a sequence of symbols: a row is `Pieces` pieces and a newline, and a
line parses when it is all the pieces of one row. `Open`, `Lock`, `CheckTail`,
`Write`, `Close` are the steps of `append()`; one `Write` adds one symbol, since
`os.write` may stop anywhere. `Crash` may come between any two of them and frees
the lock, as the kernel does. `Readable` and `Loaded` are what `load()` returns
for a content. Each row is appended once: the journals' rows carry ids.

### TaskRuntime

The ledger is its fold: `ops` is `task_state().operations`, in order, one row
per operation id. `Enter`, `Recover`, `Start`, `Leave` are `active()`; `Admit`
is `perform()` up to the published request, with every early return as a
conjunct of `MayAttempt` and `Allowed`; `Journal`, `Call`, `Land`, `Finish`,
`Record` are the durable running row, the call, the moment its effect is in the
world, its return, and the durable outcome. `Reconcile` is the caller's
`reconcile()`, which looks at the world. `Faults` says which I/O may fail, and
then the corresponding `...Fails` actions exist. Operation ids are modelled as
the string they are the hash of, key and number run together.
`applied`, `calls`, `spent` and `late` are history variables.

Tokens are admitted as cost is; the model has one of the two. Checkpoints other
than the session's time, and the views of `ExecutionScope`, add no behaviour.

### Store

An object is a file, a row, or both. `Check`, `Write`, `Register`, `Lease` are
`put_blob` and `put_manifest`; `Begin`, `Mark`, `Candidates`, `RecentNow`,
`Sweep`, `Delete` are `gc()`, one step per query, unlink and transaction. Days
are the unit of the clock. `promise` remembers what was live when a collection
began, and `reused` what a writer found in the store with a row from before it
came. `Tick` lets a writer take no longer than the shortest horizon. `Pin` and
`Link` ask for no row: an id given in full is not looked up (`store.py:556`).

### Relay

`queue` is the sequence of rows in `relay.jsonl`. A publisher fixes its targets
(`Begin`), and for each looks whether there is room (`Check`) and appends
(`Post`). `Watch`, `Unwatch` and `Interrupt` are commands. A reader reads the
queue (`Read`), writes a receipt per signal (`Receipt`) and returns the text
(`Return`), in which `Room` signals fit; or the call was one of ctx itself, and
nothing is shown (`Swallow`). `Gc` puts a new file in the place of the old one:
`stale` holds whoever may have opened the old one before, any appender of
the five kinds, and `Append1` puts the row of one of them into either. `astray`
remembers rows that went to a file that is gone, and `unseen` what was drained
and not shown. `Crews` are sets of processes of which one is at work in a
behaviour, so that one run has several small instances. Section 4 says what
`astray` and `unseen` stand for.

### Jobs

The launcher (`Fork`, `RecordPid`), the supervisor (`Spawn` ... `Report`), the
command (`ChildExits`, killed by `Strike` or `OutsiderKills`), and clients that
wait, adopt, kill and finalize, one action per file or pid they look at.
`SupPidAlive` is what `os.kill(pid, 0)` says: a dead supervisor keeps its pid
until its launcher exits. `outside` remembers that the command was killed by
somebody who left no marker.

### EditTransactions

A file is a sequence of lines, a digest is the lines it is of, and a plan is a
constant, sealed when the files had the contents `Origin`. `Prepare` is
`_prepare` for one file: `Place` is `_unique_digest_start`, `Shifts` the offsets
at which the planned spans are found, `Resolves` the rules on them and on
overlaps, `Replaced` the splice from the bottom up. `Stage`,
`Validate`, `Compare`, `Rename` are the phases of `_apply_edit_plan`, one step
per file; `CompareBack`, `StageBack`, `RenameBack`, `Clean` its handler. `Edit`
is an editor that changes a line, at any time. `raced` remembers that a write
came between a compare and its rename, which the code names unavoidable
(`edit_transactions.py:453`). `Text` is what a line may say. `EditInit`,
`EditNext`, `EditSpec` and `EditTypeOK` have their prefix because `FileProofs`
extends this module and `AppendLog`.

### TaskDag, Orchestrator

`TaskDag` has two variables, the nodes whose work is in the workspace and those
reported as ok, and one action. `Orchestrator` is `run_route` and its threads.
The main thread: `StartWave` (with `Select`, the wave and isolation policies),
`Replan`, `Stop`, `Merge` and `Conflict` (the patches of a wave go in as one, or
none does), `Settle`, `Resume` (`ctx orchestrate --resume`), `Die`. A thread of
the pool works on a node: `Claim` or `Refuse` under the ledger lock, `Enter` a
worktree, `Launch`, `Handback`, `Capture` the patch, `Decide` or `GiveUp` after
a failure, `Retry`; `IsolationFails` is `WorktreeIsolationError` at each place
it can come from; `Correct` takes back a `done` whose patch did not apply.
`MenuOf`, `PriceOf`, `Preferences`, `Chosen` are `decide()` and
`choose_recovery()`.

`led[n]` is what `task_state()` folds of a node's rows: attempts, the attempts
of the last claim and the last handback, its reason, the sum of known costs,
and whether all of them are known. `Record` is the fail-open append: a row of a kind in `Droppable` may
be lost. `landed` is the world, and `Unmerged` says that the ledger is ahead of
it. Kinds of failure are any of `Kinds`, since a worker's output may be
anything. What an attempt costs is what the host reports when it is over
(`orchestrator.py:1913`): its price plus one of `Deviations`, which may be above
zero, or unknown. `excess` remembers what attempts cost beyond their price.

### Reflex

`blob` is the state file: a record and a circuit per signature, the latch of
dense rendering, the open hypothesis windows, two counters. `Begin`, `Enter`,
then one action per operation (`Note`, `Emit`, `Edit`, `Check`, `Land`, or
`Leave` when there is nothing to do), then `Append` are a process: it waits for
the lock, reads, writes by rename, and appends its ledger lines after the lock
is released. An intervention is two sections, `Note` and `Emit`, between which
the generation of the source is computed (`Hash`) with nothing locked. The
operators `Noted` ... `Landed` are what each makes of the state it read.

### Investigation

A coordinator is `pc`, its dictionary `mem`, the checkpoint `ckpt`; `ops` holds
the last attempt under each key of the journal. `Perform` is what
`TaskRuntime.perform` makes of a key: replay what is done, dispatch what is new,
and ask before a second attempt; that one coordinator at a time is active, and
that `done` stays done, is `TaskRuntime`'s. `Open` to `Discovered` are `run()`
up to its loop, `Ask` to `PrepareRepair` a round, `Apply` to `Capture` are
`_repair()` with `verify_edit` and `validate_verification`, and `HandOff` to
`HandedOff` are `apply()`. A fingerprint is the worktree itself, an edit the
content it gives to files, and `Fits` says that the span read is still there.
`ApplyFile` renames one file at a time; `ApplyRefused` undoes them.

`Kill` loses the dictionary, `Interrupt` is the handler that saves it as it is,
`End` may report a failure of the operation, and `Touch` is somebody else who
writes in the worktree. Two history variables remember two moments: `cut`, that
an interruption saved a receipt without its fingerprint, and `meddled`, that
somebody wrote while a check ran, or before the capture of the patch where no
later look would see it.

## 3. Runs

Each finishes within about three and a half minutes with two workers. `D` marks runs in which
deadlock is not checked because the system may stop: all rows appended, all
applies over, a route over with no resume left, the bounds on signals,
operations or the clock reached.

| Run | Instance | Shows | States |
|---|---|---|---|
| `journal` D | 3 writers, 3 rows of 2 pieces | returned rows stay readable whoever dies; nothing is read twice; readers see `AtomicLog`; appends end | 27 k |
| `task_operations` | 2 coordinators that retry, a mutation and a model call, 3 attempts | one effect, done replays, cancel stops | 253 k |
| `task_budgets` | one model key, 2 coordinators of which one retries, every I/O fault, 3 seconds | wall, call and cost allowances; a row before each call; no call that nobody asked for | 360 k |
| `store_collect` | a writer of a blob and a manifest, a writer of the same blob, 1 collector, a link, a pin, 2 days, 1 death | live objects survive, recent manifests complete, rows of garbage go | 698 k |
| `relay` D | 3 crews: 2 sessions of one host that drain what a publisher sends; 2 publishers and an interrupter at an address with room for one; a publisher with watches that come and go. A drain takes 2 signals and its text has room for 1; files are replaced under whoever has them open; 2 days | nothing lost but in three named ways, nothing again, the cap plus one per further publisher, compaction changes nothing that matters, signals arrive or expire | 477 k |
| `relay_compacts` D | the same | **violated** `AppendsKept` | |
| `job` D | 2 waiters, 1 killer, 1 death of launcher or supervisor, an outsider, an edit | one result, and a true one; the last word stays; waits end | 320 k |
| `edit` D | 2 applies on the same 2 files, an editor, write and rename faults, a death | only targets change, refusals are true, applied stays, no litter, no change is lost | 129 k |
| `orchestrator` D | 2 writers and a follow-up node a re-plan may add, 2 threads, 2 waves, 2 attempts, budget 2, attempts that cost what they were priced at, or one more, or nobody says, one lost claim or handback, one death, one resume | the budget is kept but for overruns, claims are closed, writers are apart; the route implements `TaskDag`; done work is not redone; the run ends | 482 k |
| `orchestrator_unmerged` D | the same, nothing lost, death also between handback and merge | **violated** `OkLanded` | |
| `session` D | 2 hook processes (symmetric), 2 signatures of which one narrows the other, 5 operations, 2 generations, one death | nothing noted is lost; starvation is scored once a cycle, a hypothesis once | 2.3 M |
| `investigation` | 2 files, 2 checks, 2 repairs of which one puts a file back, 6 rounds, one kill, interruption or failed operation, 2 writes by somebody else | what is handed over was checked; no false alarm; the task ends | 1.27 M |

The type invariants of `AppendLog`, `TaskRuntime`, `Store`, `Relay`, `Jobs`,
`EditTransactions`, `Orchestrator` and `Reflex` are proved (section 5).

Each passing property has a mutant in `PROJECT.json` that the same run refutes.

### Why the bounds are enough

The hazards need few actors and few objects, and the instances have at least
what the shortest scenario needs.

- Journal: to lose a row by a torn tail takes a writer that dies and one that
  follows; with three, two may die before the row that must survive. Two pieces
  tell a torn row from a whole one, and one torn row glued to another from both.
- Durable execution: an effect twice takes one death, one takeover and one
  retry, hence two coordinators and three attempts. Coordinators exclude each
  other by the lock, so more of them add orders of taking over that two already
  have. What the bounds cannot show is proved (section 5).
- Store: a blob is endangered by one collector between its two queries and one
  writer, or by the second of two writers that finds it there; that
  `RecentComplete` holds for any number of writers is proved. Two days let an
  object leave the one-day horizon, be collected, and come again.
- Relay: two sessions of one host are what shares an address; three would share
  it the same way. Three signals, any of them interrupts, exceed the two of a drain and
  the one of a text, so that what waits behind interrupts takes several drains. The clock reaches the points where something expires
  and where it is old. What the crews keep apart (two sessions that drain while
  commands watch and retire) is covered by the proofs, which are for any crew.
- Jobs: any two of the clients' operations race, and a third may finalize. With
  one death, either process of the pair that runs the command is lost; the other
  ends in its own way after it.
- Edits: a partial commit needs two files; a wrong splice needs two edits of one
  file, of which the upper changes the number of lines. One change by an editor
  falls before, into, or behind every step of both applies.
- Orchestrator: every race over the balance is one of two siblings with a
  budget for one more attempt, priced or at twice the price. Two writers of
  different files go to worktrees when the workspace is clean, and one by one when
  it is not, so both policies and both ways to merge occur; the third node lies behind the
  first, so that something is launched on the strength of what a merge, a
  death or a lost row left. Failures of kind `capability` reach escalation,
  re-plan and giving up. One lost row and one death suffice for each condition
  of section 4; `BudgetInv`, the strengthening of `BudgetKept`, was also checked
  with a second kind of failure and other budgets before it was proved.
- Session: a lost update takes two processes, a second score takes two re-runs
  and an edit or an intervention in between, and a window has five ways to end:
  five operations put any two of these against each other.

- Investigation: two checks tell the last result from an earlier one, two
  repairs a first from a later one, of one file and of two, so that an apply can
  stop half way and a later repair can undo an earlier one. Two writes are enough
  to change a file and put it back, which is what a look before and a look after
  do not see. One mishap falls at each step of it; the resumes are not bounded.
  Six rounds are what two repairs need: each wants a read and a map before it.

### Fairness

- `AppendLog!FairSpec`: weak fairness of each writer's steps. A process inside
  append is scheduled; `flock` is granted when it stays free. Opening and
  crashing are nobody's duty.
- `Store!FairSpec`: collecting goes on. `ctx gc` is run by users and by quota
  enforcement; garbage that goes in the end presupposes that somebody collects.
- `Relay!FairSpec`: each reader's drains. A harness that works calls its hooks
  around every tool call. Publishers and compaction need not run.
- `Orchestrator!FairSpec`: the main loop, and each node's thread. The pool is of
  OS threads, and every launch has a timeout after which it is killed. Deaths
  and resumes are not fair.
- `Jobs!FairSpec`: launcher, supervisor and clients are scheduled while they are
  alive, and the command ends one day. Deaths, kills and edits are not fair.

- `Investigation!Spec`: a coordinator that began goes on (every operation has a
  timeout), and somebody resumes with `--retry-failed` now and then: without
  that a failed operation waits for ever, by intent. Mishaps are not fair.

## 4. What was found

Two runs are expected to be violated.

**`orchestrator_unmerged`**. A node in a worktree hands back `done`
when its worker returns; its patch is merged when the wave is over. If the
process dies in between, the worktree goes with it, and `--resume` restores the
node as ok and launches what depends on it. The code corrects the ledger after
a merge that fails, "or resume would restore a node whose change never landed"
(`orchestrator.py:2114`), and calls what a resume re-runs "the safe direction"
(:1656); a death before the merge leaves the same ledger without the correction.

**`relay_compacts`**. `gc()` of the relay promises "Rewrite-in-place under the
same lock, so a concurrent append cannot be lost" (`relay.py:750`). It writes
another file and renames it over the old one (:805). Whoever opened the old one
and waits for its lock (:291) then has the lock of a file without a name:
append returns, and the signal is nowhere. `AppendsKept` is that promise; the
shortest trace is a watch that ran out, a compaction, and an interrupt whose
`append` had opened the file before.

The other properties hold under conditions that the code itself does not
guarantee. Each was met as a counterexample before it became one; changing the
instance as said shows it again.

| Property | Holds unless | To see it |
|---|---|---|
| `AppliedOnce` | an outcome row is lost in a session that goes on (`task_runtime.py:312`), or an effect's result cannot be stored and the attempt becomes "failed", which a retry repeats without reconciliation (:301) | `Faults = {"ledger"}` or `{"publish"}` in `MCTaskRuntime.cfg` |
| `DoneReplays` | two attempts share an id: it is hashed from key and number without a separator (:287) | keys `<<1>>` and `<<1, 1>>`, twelve attempts |
| `RecentComplete` | a writer finds a blob there with a row from before: the row keeps its age, and the collector takes the blob from under the new manifest (`store.py:408`). The property says so in its text | drop `StoredAnew` |
| `GarbageGoes` | (speaks of rows of the catalog) a writer dies between its file and its row (`store.py:409-410`): `gc` takes its candidates from the catalog, so that the file stays for ever | `files` in the place of `Rows` |
| `MarkedSurvive` | (speaks of what was pinned when the collection began) a pin that comes after the leases were read does not protect (`store.py:654`) | |
| `MarkedSurvive` | two collect with different horizons: the one takes the manifest that is too old for it before the other reads it, and the other no longer knows that the manifest's blob is live (`gc` has no lock, `store.py:611`) | two collectors, two days of retention, `Spec` |
| `NoSignalLost` | a drain takes more than its text has room for (`relay.py:588`), an interrupt is drained at a call of ctx that must not be stopped (`hook.py:3414`), or its append went to a replaced file (`relay.py:805`). The property names the three and excludes any other way | drop `unseen`, or `astray` |
| `NoRepeat` | the receipt went to a replaced file: the docstring grants "at worst one is delivered twice" (`relay.py:524`) | drop `astray` |
| `CompactIdle` | a watch outlives the days rows are kept: the row that retires it leaves the file before the row that made it (`relay.py:793`) | a time to live above `Keep` |
| `FinalizersConverge` | the worktree changes between two finalizers, whose manifests carry its state, or an outsider killed the command and a marker appears between them (`jobs.py:432`) | drop `tree = 0`, `~outside` |
| `FateTold` | an outsider kills the command, which is a timeout or not by the marker of somebody else, or the supervisor died and its command was adopted | drop `~outside`, `deaths = 0` |
| `WaitEnds` | the launcher dies before it wrote `launcher.pid`: nobody can tell that the job will never run | drop the last disjunct |
| `NotesStay`, `AppliedStays`, `RefusalTold` | a write falls between a compare and its rename; in the rollback that window has a write and a sync of a temporary file in it (`edit_transactions.py:470`) | drop `~raced` |
| `BudgetKept` | two siblings retry in one wave: the steward looks at the balance when it decides, and the claim of a retry is appended without another look (`orchestrator.py:1838`), though the lock of the first claims is there so that a wave "can't spend the same dollar twice" (:1697) | drop `retriedInParallel` |
| `BudgetKept` | an attempt costs more than its price. The host says what it cost when the money is gone (`orchestrator.py:1913`, `taskledger.py:518`), and "each attempt is priced far above its estimate" in a test (`tests/test_task_ledger_orchestration.py:152`). The property counts it: beyond the budget by no more than that (`excess`) | drop `excess` |
| `BudgetKept` | a claim or handback is not written; or a node has more than two attempts: a retry of an escalated attempt is priced at the first model's estimate | drop `drops > 0`; `MaxAttempts = 3`, `Budget = 4`, no coordinator, and `Kinds` with `"timeout"` |
| `ClaimsClosed` | a resumed run cannot make the worktree of a node it had claimed: the handback carries the number of the attempt before, and the estimate stays reserved (`orchestrator.py:2020`) | drop `runs = 1` |
| `RefinesDag` | the row that takes back a `done` is not written, or the process dies between handback and merge | `"correction"` in `Droppable`, or `DieUnmerged = TRUE` |
| `NothingLost` | the first two hooks of a session race: without its directory there is nothing to lock in (`reflex.py:614`) | `Fresh = TRUE` |

The last two properties say in their own text what the controller does not
promise:

- `PatchTested` excludes `meddled`. A check that runs while somebody changes a
  file and puts it back is recorded as done before the second look at the
  worktree, and a later resume replays it; and what somebody writes between
  `validate_verification` and `capture` is in the patch
  (`investigation.py:242-243`). Drop `~meddled` to see the first.
- `NoFalseAlarm` lists what leaves a task where no resume gets it out, although
  nobody touched its worktree. Each was also seen by running the controller.
  (a) An interruption at the fingerprint that follows a receipt
  (`investigation.py:222-223`; a failing `git` is enough) saves the one without
  the other: every resume pauses with `worktree_changed`, although "only the edit
  transaction's byte reconciliation may resolve that gap" (:277). (b) A
  repair that the edit transaction or the path rules refuse, for instance with
  the snapshot of a file that an earlier repair changed, raises an
  `EditTransactionError` or `WorkspaceError`. Neither is a `ValueError`, so the
  clause at :354, by which "invalid actions become bounded observations; the
  host can correct them", does not catch it; the decision stays pending and
  every resume raises again. (c) A repair without effect is applied, and
  then refused as proof (`edit_verification.py:72`) at every resume. (d) A
  repair that puts a file back leaves it with a receipt and out of the patch:
  `unreceipted_changes` at every resume (:246).

Hazards of the list that no property would catch are these: that interfering
write while a check runs, a repair that puts a file back, a repair that no longer
fits (which `TaskEnds` counts as waiting for a person), a blob with an older row,
an effect whose result cannot be stored, and a copy of a span at its planned
place. Each has a note there that says why.

Facts that no property is about: a copy of a span at its planned place is
taken without a look for others (`edit_transactions.py:129`), and the relay's
cap is kept per address, so that a session may have it once for itself, once
for its host and once for everybody. And two limits of what the orchestrator's
budget means: the lock of the claims is one of the process
(`orchestrator.py:1715`), so that a second `ctx orchestrate` of the same task
claims against the same balance unseen (the model has one process); and what an
unpriced host was estimated to have cost is forgotten by a resume, which starts
from what the ledger has prices for.

## 5. What is proved

TLAPS checks these for every value of the constants.

**`FileProofs`, on the journal** (`TypeCorrect`, `ReturnedRowsStay`, `NoRowTwice`,
`JournalImplementsLog`).
`ReturnedReadable` is not inductive: it needs to know what a writer in the
middle of a row has left behind it. The invariant is `TypeOK` with `LockInv`
(who is past the lock holds it) and `TailInv` (the first `next[p] - 1` pieces of
`p`'s row stand at the end of the file, at the start of a line, or, with
`next[p] = 0`, the file ends in a torn line). Lemmas on lines show that a line
that parses still does when a newline or a symbol behind one is appended. For
`NoPhantomRow`, `OwnerInv` says that a row has at most one writer, which began
it, and `PiecesInv` that every piece stands at most once in the file.
`JournalImplementsLog` is the refinement of `AtomicLog`. `WriteLines`: a symbol
either completes the line of its writer's row, which starts behind every line
that parses and was on none of them, or changes no line start. `Ranks`, `NthIs`
and `NthAdded` turn that into one row appended at the end of what `load()`
returns: the k-th of a set of positions exists and is unique, and a position
behind all others moves none of them.

**`FileProofs`, on edits** (`EditTypeCorrect`, `TargetsOnly`, `NothingLeft`,
`EditorsNotesStay`, `RefusalsAreTold`, `AppliedIsThere`), for any files, plans of
any length, applies, editors' changes and deaths.
- `TargetsOnly` is about `Replaced`, a recursive function from the last span to
  the first. `Rests` is what is left, from each line on, of the pieces put in the
  places of the lines; with the spans from the k-th on replaced, the content is
  the lines before that span and the rest from its first line on (`BottomUp`).
  The two are equal from the bottom up, hence at the first span, where this is
  all the pieces together. Used are that the spans are in order
  (`InOrderSorts`), apart, and found at one offset.
- What the others share is the invariant `Locals` with `Shared`: how many targets an
  apply has prepared in its phase, that each item is for its target in their
  order and was made by `Replaced`, and that only targets are told as not
  restored.
- `NothingLeft` adds `Kept`: the temporary files of an apply are those of the
  targets it has yet to rename, and the one of the restore at hand. It needs no
  hypothesis on what fails.
- `EditorsNotesStay` adds `Windows`: unless a write came in between, a file in its
  window is what it was compared with, so that a rename puts back the lines
  it replaces. It assumes `NotesApart`: no plan and no original file has the lines
  an editor adds. A plan that does may delete such a line of its own span, which
  is no loss of a change.
- `RefusalsAreTold` and `AppliedIsThere` add `AllMarks`: a plan's lines are in no
  content it read, are in a file only if it has renamed it and not looked at it
  again (`MayHave`) or tells of it, and all of them are in each file it has
  renamed and is not to restore (`Landed`). They assume `MarksApart`: a line tells
  who wrote it. If two plans write the same line into a file, one that was refused
  finds "its" line there although the other put it in. TLC evaluates both
  hypotheses on the instance.

**`TaskRuntimeProofs`**. `TypeCorrect` and `CancelStopsCalls` need no hypothesis. The others assume `DistinctIds`: no
two attempts have the same id. Without it `DoneReplays` is false (section 4); it
holds, for example, for keys of one length, or keys that end in anything but a
digit. The common invariant is `Basis`: `LockInv` (who is inside holds the lock,
hence one at most), `RowsInv` (one row per id, ids numbered by the attempts under their key) and `CurInv` (the operation at
hand is the next attempt of a key that is not done, and once journaled its row
is the last of the ledger and says "running").
- `DoneStays` follows from `Basis` for each step.
- `EffectLandsOnce` also assumes `NoLostRow`: neither storing a result nor
  writing an outcome fails in a session that goes on (section 4 shows why).
  `EffectInv` ties the effect to the last row of its key: landed means that the
  last attempt is done, or uncertain, or running and past its effect.
- `CallsAreJournaled` counts the rows of a key against the calls of its
  function. `RetriesAreAsked` follows: a coordinator that does not retry starts
  only a key without rows, and its own row is the only one when it calls.
- `WallKept` and `ModelBudgetKept` carry sums of charges: what was spent is at
  most what the rows charge, a charge never grows beyond its reservation, and a
  reservation fits at admission. Lemmas on sums of any length say that a sum
  changes at one place by the difference and grows by what is appended; the
  orchestrator's proofs rest on the same ones.

**`StoreProofs`** (`TypeCorrect`, `LiveSurvive`, `ManifestComplete`).
Both assume `OneCollector` (section 4). Until a collection marks,
files, rows and references only become more, so that what was reached from its
roots when it began (`Reached`) still is; what is live is then never among the
dead. `RecentComplete` also assumes `RefsFirst`: a writer puts what its manifest
refers to before the manifest, as the code's callers do. Several writers may put
the same objects, and put them again. The invariant `Stored` follows what a
writer must not lose (`Kept`: what it has put so far and did not find with an
older row, which is `Young`) and what belongs to a registered manifest (`Whole`)
through each collection (`Passes`: live, or younger than the cutoff, or no
candidate, by how far the collection is). It rests on three facts: a writer is
shorter than every horizon (`InTime`), no cutoff is younger than every horizon
(`Horizoned`), and what a collection has read as a row stays one until it deletes
it (`Aware`). That blobs are put before their manifest, and that `gc` reads the
recent rows again after the candidates, are both used.

**`RelayProofs`** (`TypeCorrect`, `CapKept`, `CompactionIdle`, `ShownOnce`,
`SignalsKept`). `Basis` is the types with `Numbered` (a signal has one number
wherever it is, and nobody holds what was not posted) and `Stamped` (a receipt is
no older than its signal, a later row of a watch than an earlier one). Which rows
a compaction leaves, and in which order, is a lemma about `Compacted`.
- `CapKept` needs nothing more: `CapInv` counts the publishers past their look at
  the queue with the signals held. What such a publisher saw when it began is at
  least what is still held, and a compaction frees none: a receipt leaves the
  file with its signal or after it.
- The others assume `ShortLived`: no time to live above the days rows are kept
  (section 4 shows `CompactIdle` without it). Then what may still be drained is
  never old (`Spans`), neither are its receipts, and the row that retires a
  watch leaves last.
- `ShownOnce`: `Settling` says that of each signal shown, or passed by the hand
  that writes receipts, the receipt is in the file for as long as the signal may
  be drained, or was appended to a file that was replaced.
- `SignalsKept`: `Holding` says that a posted signal is in the file until it
  expires, or went to a replaced one, and that whoever has left a receipt has
  the signal in hand, has shown it or has dropped it. Neither excludes
  anything the code does: any compaction, any call of ctx, any room in a text.

**`JobsProofs`** (`TypeCorrect`, `LastWord`, `FinalizersAgree`, `TrueFate`).
`LastWordStays` needs the fact
that an adopter about to write has seen a state that can no longer change: its
supervisor is gone, and another adopter would write the same. The invariant is
`TypeOK` with what the files say of launcher and supervisor (`SupervisorInv`),
of a client's place (`ClientInv`) and of an adopter (`AdopterInv`). It was an
invariant of TLC runs before it was proved. The other two rest on it. `KillInv`:
the marker of a kill is there before the kill is, and as long as nobody else
kills, a command that died of SIGKILL was late or had its marker. `ReportInv`:
what the supervisor writes last is what it waited for. `LivingInv`: nobody finds
an orphan while launcher and supervisor live. From these, whatever a finalizer
reads of a finished job follows from `meta.json` alone (`AsReported`,
`FinalizerInv`): the marker can change no more what it says. So two manifests of
one worktree are one, and the one that was told is the true one (`ToldInv`).

**`OrchestratorProofs`** (`TypeCorrect`, `WritersKeepApart`, `DoneWorkStays`,
`RouteImplementsDag`, `BudgetHolds`, `NothingStaysReserved`). The invariant of the first three `IInv` is `TypeOK` with `Apart` (one
thread, or all writers of the wave in worktrees with files of their own) and
`Progress` (nodes beyond the plan are untouched, a wave is made of pending
nodes, a node that waits to be run is not done on the ledger). `StepShape` says
once what any step of a worker may change, which most cases rest on.
`RouteImplementsDag` is the refinement of `TaskDag`. It assumes `Sound`: no
death between handback and merge, and corrections that are written; section 4
says why the code does not give either. `Landing` adds that whatever is done on the ledger, or ok for
its worker, is in the workspace or awaits the merge or the correction.

Its last part (`BudgetHolds`) assumes `TwoAttempts`, which the
default of `max_attempts` is, and nothing of what attempts cost. `BudgetKept` alone is not inductive: a retry at the
stronger model may cost more than its claim reserves. The invariant `BudgetInv` says, while nothing was lost and no
wave retried in parallel, that rows and worker number the same attempt
(`Counted`), and that an attempt at the stronger model works alone, with the
money it needs beyond its reservation still there (`Priced`). It counts against
`Ceiling`, the budget and what attempts have cost beyond their price so far.

`NothingStaysReserved` follows attempts instead of money. `ClosingInv` says, for
a first run that lost no row, that the attempt of the last claim is either handed
back under its number or still in the hands of the worker who has that number;
a run is over only when all workers are out, and then nothing is reserved.

**`ReflexProofs`** (`TypeCorrect`, `SessionKeeps`, `OneScore`). One lemma for
each operation says what it makes of a well-formed file (`Does`): it closes the
windows it writes outcomes for, opens none that was there before, and takes back
neither a latch nor a known record. `SessionKeeps` and `OneScore` assume
`~Fresh`, that the directory of the session exists (section 4); then `Exclusive`
holds: who is in its section has the lock, and what it read is the file as it
is. For the outcomes, `Resolved` says that a window is open in the file, or in
the lines of one process, or written, and in no two of them. For starvation,
`Scored` counts: lines written, lines in hand, and the re-run that may still be
scored are together no more than the interventions. `OneScore` takes the
processes to be finitely many, for the counting.

**`InvestigationProofs`** (`PatchIsTested`, `StopsForAReason`). The first shows
`PatchTested` for any files,
edits, checks, rounds and repairs, however often the coordinator is cut off.
`PatchTested` speaks of a task that is over; the invariant `IInv` follows it there. `Synced`: what is in memory and
what is saved differ in nothing that matters, but for the receipt just taken, so
that a kill, an interruption and a resume lose nothing. `Rows`: no check of a
repair has a row before its receipt and its fingerprint, and a check recorded as
done saw the worktree that the saved fingerprint is of. `Calls`: where the
coordinator is, and that checks are counted only behind a receipt. `Tests`: the
checks counted so far passed, replayed or not, and the worktree is still theirs
at each place where the code does not look again. Each is needed: without the
second, a row of an earlier fingerprint would be replayed after a resume.

The second shows `NoFalseAlarm`: a task waits for a person only for one of the
reasons section 4 lists. `Undisturbed` is its invariant as long as nobody else
wrote. `Trees`: the worktree is what the fingerprint was taken of, except between
an edit and its receipt, or when the two were cut apart. `Landing`: the row of an
edit says what is in its files (none: what was before; done: all of the edit;
running: as far as it got), and is uncertain only after a mishap, which is why
`Reconcile` finds one or the other and never asks without a crash. `Plans`,
`Answers`, `Dicts` and `Places` say what may be in the checkpoint, in the journal,
in memory, and where the coordinator may be then; `Reasons` is `NoFalseAlarm` for
a stop that is saved. That edits are undone when one is refused is not used:
`NeverRefused` shows that nothing is refused while nobody else writes.

Assumptions: those of the modules (constants are of their types, `Pieces` and
`CallSeconds` are positive, sentinels differ from real values), which TLC
evaluates in each run, and the hypotheses named above, which stand in the theorems.

**Only model-checked**: all liveness (`AppendEnds`, `GarbageGoes`, `SignalsArrive`,
`WaitEnds`, `RunEnds`, `TaskEnds`): the prover does not reason about fairness.
Every invariant and action property of a run is stated by a theorem, some under
the hypotheses named above.

## 6. Abstractions to know of

- A hash is injective; what is hashed need not be.
- `flock`, `rename` and one SQLite transaction are atomic, and a lock ends with
  its process. Power loss is not modelled: a write that returned is there.
- A function given to `perform()` that raises has had no effect, one that
  returns has had it, one that was interrupted may have had it. A function that
  raises after its effect, or reports `succeeded=False` after it, is outside;
  a child process that goes on after its coordinator died too.
- A function keeps to its timeout. The seconds of `WallHolds` are those in
  functions; what a session spends beside them is charged when it ends.
- Signal ids and pids are distinct.
- In `Relay`, text is whether it fits, and readers do not die between receipts
  and output: the code is at-most-once there by choice. A second `gc()` that waits
  for the lock of a file the first one replaced is left out: it then
  reads and replaces the new file with the lock of the old one, and may lose what
  is appended to it in between.
- In `Jobs`, the worktree is a version number, and spools are left out.
- In `Orchestrator`, money is counted in units and nodes are numbered in the
  order of the plan. A worker that returns `done` in the shared workspace has its
  work there. The plan's dependencies are fixed, those of nodes a re-plan may add
  included. The text of prompts, the inbox, checkpoints, steward rows and prewalk
  (off by default) are left out. Marking what is blocked takes one pass of the
  model where the code may take one more wave.
- In `Reflex`, a generation is a number and a signature a value; of the signatures a
  command narrows, any fixed one is taken; windows and circuits have small limits
  in the instance.
- In `Investigation`, all checks are behavioral, reading stands for every operation
  that is no map, and a rule of the contract that refuses an action stands for
  all of them. Witnesses, probes, allowances, cancellation, citations and what the
  model is shown are left out; the results of a model and of a check are any.
- In `EditTransactions`, editors change a line in one step. Diagnostics and
  receipts come after the commit and cannot undo it.

## 7. Plan

Done in this order: journal, durable execution with its proofs, store, relay,
jobs, edits, orchestrator with its proofs, session state with its proofs,
investigation. What would come next:

1. **Semantic maps** (`SemanticMap`): the journal of attempts, shown to refine
   the reservation part of `TaskRuntime` where it does.
2. **A second process on one task**: the orchestrator's claims by two processes,
   with the ledger's lock but without the in-process one.
3. **Composition**: `Investigation` over an instance of `TaskRuntime` and of
   `EditTransactions`, where `Land` is the commit and `Reconcile` compares bytes;
   `Perform` and `ApplyFile` stand for them so far.
4. **Pure algorithms**: anchors (verify, relocate, refuse), bounds and ladders,
   as operators against reference definitions.

## 8. What is not modelled, and why

- Guard decisions, parsing, digests, retrieval, indices, repository maps,
  skeletons: transformations of text and data, sequential, without a protocol.
- The proxy, the gateway, the MCP server and language servers: plumbing between
  a host and programs that are not part of the repository.
- Installer, hosts, wrapping: edits of other programs' configuration files.
- Telemetry and scorecards: aggregation for reports; nothing depends on them.
- The native hook, the command line: ways to call what is modelled.
- Evaluations, benchmarks, the site: not part of the program.
- Semantic maps: a sequential policy over what `TaskRuntime` models, one process;
  see the plan.
- Collaboration sessions: they register themselves and show the ledger.
- Evidence plans, anchors, bounds: functions without a state of their own.
- Within modelled components: short-id resolution, spans and index sidecars of
  the store; the watcher of a turn in `acp.py`; the announcement of a job;
  making a plan from a request; making a route, prewalk handoffs, prompts and
  inbox of the orchestrator; `engagement.json`, the dryness fold of queries and
  rescue in the session state. Hazards without a property are listed with a note.
