# Durable agent runtime: TLA+ specifications

These modules specify the durable part of `durable-agent-runtime-lab`: the
event ledger, the state projection, the workflow engine, the DAG scheduler, the
run that drives them, the recovery that rebuilds the projection, the workspace
with its executors and git checkpoints, the model provider, and the experiment
that compares the durable runtime with a baseline. Every definition
is written from the Python source under `src/src/durable_agent_runtime/` (paths below are relative to it);
`PROJECT.json` maps each one to the lines it stands for.

## 1. The system

A *goal* is run by `DurableRuntime.run_goal` as a *workflow* of *tasks*. Every
change of status is first an event in an append-only, hash-chained JSONL file
(the ledger, one per workflow, said to be the authority) and then a row in
SQLite (the projection, which the code reads). The runtime is synchronous
Python, but it is not alone: `dar approve` and `dar reject` are processes of
their own that open the same data directory, and any process may be killed
anywhere. That is the whole point of the program.

| component | source | state | operations | who calls it |
|---|---|---|---|---|
| Status life cycles | `domain/enums.py`, `domain/state_machine.py` | none | `can_transition` over two tables | the engine |
| Event ledger | `persistence/event_store.py`, `domain/event.py` | the file; a cached sequence counter per process | `append`, `read_all`, `get_latest_sequence`, `verify_chain` | the engine, recovery |
| State projection | `persistence/state_store.py`, `database.py` | rows of workflows, tasks, idempotency keys | upserts and lookups, one session each | engine, scheduler, boundary, recovery |
| Engine | `orchestration/engine.py` | none of its own | create, transition, register, request approval, approve, reject, record calls | the runtime, the CLI |
| DAG scheduler | `orchestration/scheduler.py` | the plan it was given | `promote_pending`, `requeue_retry_wait`, `get_ready`, `detect_circular_deps` | the runtime |
| Verification boundary | `boundary/service.py` | none of its own | `verify` (schema, paths, idempotency, budget) | the runtime |
| Durable runtime | `experiments/durable.py` | local variables of `run_goal` | `run_goal`, `_execute_task` | the experiment runner |
| Recovery manager | `recovery/replay.py` | none | `reconstruct_state`, `get_incomplete_tasks`, `verify_integrity` | tests (the CLI commands are stubs) |
| Git checkpoints | `recovery/manager.py`, `domain/checkpoint.py` | a git repository | `create_checkpoint`, `stage_and_commit`, `rollback_to_checkpoint` | tests; no runtime |
| Fault injection | `experiments/fault_injection.py` | occurrence counters, faults triggered | `get_fault`, `get_fault_for_tool` | both runtimes |
| Experiment runner | `experiments/runner.py` | the reports | `run_comparison`, `save_report` | the CLI |
| Baseline | `experiments/baseline.py` | local variables of `run_goal` | `run_goal`, success criteria | the runner |
| Model providers | `models/` | a network connection | `generate_structured` | both runtimes |
| Tool execution | `execution/` | subprocesses, containers; the cached docker probe | `execute` | both runtimes (processes only) |
| Command line | `cli.py` | copies of fixtures, reports, manifests | `experiment run`, `approve`, `reject`, status, several stubs | a person |
| Domain models | `domain/` | data | validation | everyone |

`compiler`, `memory`, `observability`, `planning` and `verification` are empty
packages.

### What is hard, and what makes each part correct

* **Ledger.** `append` reads the file twice (for the sequence number, unless it
  is cached, and for the hash of the last line), writes a line and only then
  updates its cache. Between those steps the process may die, the write may be
  cut short, and another process may append. It is correct if an event whose
  `append` has returned can be read for ever, if old lines never change, if
  numbers rise, and if a loss or a change is visible to `verify_chain`.
* **Engine.** Each method is check, append, upsert, in three sessions: an
  overlap makes the check stale, a crash makes the row stale. It is correct if
  a row never claims what the ledger does not record, if it trails the ledger
  by no more than the one event under way, and if a pause is answered once, by
  an answer to the question that was asked.
* **Scheduler and run.** Statuses change while the plan is scanned; tasks fail,
  are rejected, are retried until the loop's bound; a task behind a failed one
  must leave PENDING through READY. It is correct if no tool is called before
  the dependencies of its task are committed, if the loop leaves nothing it
  could have done, ends, and reports the truth.
* **Crash and rerun.** The tool call, its idempotency record and its commit are
  three steps. It is correct if no call is repeated after it has succeeded,
  none goes unannounced, and commit implies record.
* **Recovery.** `reconstruct_state` reads the ledger once and then writes row by
  row: it may die half-way, be run again over what it left, or run beside an
  engine that is still appending. It is correct if an undisturbed replay gives
  what the ledger says, whatever rows it starts from, and if no replay invents a
  status.
* **Comparison.** The two arms run one after the other with one fault injector,
  whose counters go on counting. It is correct if a fault comes at the
  occurrence it was configured for, if both arms meet the same faults, if what
  ends an arm or the comparison is in its report or its input, and if a success
  has been earned.
* **Experiment run.** Copies of fixtures are kept at places that other runs, dead
  or alive, and other task files use too, and one exception handler stands
  around everything done for a repeat. It is correct if both arms work in the
  copy made for them and if the manifest tells the whole of what happened.
* **Workspace.** Git's exit codes are ignored, the process may die between `add`
  and `commit`, and a time-out kills only the direct child: its descendants go on
  writing, and so does the container of a `docker run`. It is correct if a rollback gives the checkpointed files back and a commit
  holds what it was asked to.
* **Model provider.** The text of an answer may be wrapped in prose or fences, begin
  with another value than an object, or be cut short with or without a word. It is correct if what is accepted is the
  object the model meant, never a part of it.

`PROJECT.json` lists each hazard at its line with the properties aimed at it.

## 2. The modules

```
AppendOnlyLog                abstract: a log that only grows
   ^ refined by
EventStore                   append(), step by step, several processes, torn writes
   ^                         EventStoreProofs
StateMachine                 the two transition tables
   ^ EXTENDS
Orchestrator                 engine methods over ledger and projection
   ^ EXTENDS                 OrchestratorProofs
DurableRuntime               run_goal + scheduler + boundary, crash, rerun
   |  EXTENDED by MCDurableRuntime (the plans to check); proofs in DurableRuntimeProofs
   v refines
DagExecution                 abstract: commits in dependency order, a true verdict

Recovery                     reconstruct_state beside the engine; EXTENDS Orchestrator
   ^ EXTENDS                 RecoveryProofs (which also EXTENDS OrchestratorProofs)

CycleDetection               detect_circular_deps, the depth-first search
   ^                         AlgorithmProofs (also of ModelProvider)

ResumedRun                   a run, the loss of the database, a replay, a second run:
                             EXTENDS DurableRuntime, INSTANCEs Recovery
   ^ EXTENDED by MCResumedRun (the plans to check) and by DurableRuntimeProofs,
     which also EXTENDS OrchestratorProofs

Comparison                   run_comparison: baseline, durable arm, one injector
   ^ EXTENDED by MCComparison (the fault configurations to check) and ComparisonProofs

ExperimentRun                `dar experiment run`, several commands, one data directory
   ^ EXTENDED by MCExperimentRun (the configurations to check) and ExperimentRunProofs

Workspace   <-- WorkspaceProofs   both executors and the checkpoint manager on one repository

ModelProvider                one call of the OpenAI provider and the parsing of its text
   ^                         AlgorithmProofs
```

**StateMachine.** `WORKFLOW_TRANSITIONS` and `TASK_TRANSITIONS` row by row, and
`can_transition` for each.

**EventStore.** `lines` is the file cut at its newlines and `terminated` says
whether it ends in one, because a line written behind an unterminated one is
glued to it and neither parses. `sequences` is `self._sequences`, one per
process. `append` is `BeginAppend` (number), `ReadTail` (link), `WriteLine`,
`Return`. `TornWrite` is a write that raises or dies half-way with nothing, a
part, or all but the newline on disk; `Crash` is a death between steps. An `fsync` that
raises after the whole line is on disk would leave the counter one behind if the store
were used again; nothing in the repository goes on with a store whose `append` has raised,
so that case is a `Crash` here. Hashes
do not collide: the hash of an event is the list of payloads it commits to.
Appends of two processes may overlap in any way, which is what two
operating-system processes can do. What a promise rests on is part of its
statement: the history variables `overlapped` (two appends have been under way at
once), `shared` (two processes have had a counter at once) and `tears` record
what has happened so far, and no action but their own update reads the first
two.

**Orchestrator.** `call[c]` is the method client `c` is inside, and how far:
*validated* (the row was read, the transition allowed), *logged* (the event is
in the ledger), then `Project` writes the row and the call is over.
`register_tasks` writes one row per task and no event (*registering*);
`record_model_call` and `record_tool_call` write back the status they read
(*counting*). An append is atomic here: its steps are those of `EventStore`, and
the refinement of `AppendOnlyLog` is what allows it to be one, as long as no
write is torn. `overlapped` and `cut` are history variables; no
action reads them. The runtime client may call any method in any order, so the
module promises what the engine itself guarantees, not what one caller makes
of it. `Operators` are the CLI commands, which only approve and reject.
Proposal ids are left out: the code writes them to a payload and never compares
them, although the implementation plan has "Transition PAUSED → RUNNING (if
paused for this proposal)", so any answer ends any pause.

**DurableRuntime.** `pc` is the place in `run_goal`; every status change goes
through the three-step methods of `Orchestrator` (`SetTask`, `SetWorkflow`), and
the run waits until the method is over. `todo` is what the loop under way has
still to visit: `promote_pending` follows the plan's order, while
`requeue_retry_wait` and `get_ready` follow the order of the database, which is
any order. What the model answers (proposal or exception), whether the checks of
the boundary other than idempotency pass, and whether the tool succeeds are
choices. `Die` is a kill or an exception that leaves `run_goal`, such as an
injected fault; `RunAgain` runs the same plan on the same data directory as a
new workflow, which is the only restart the code offers. A dependency on a task that is not in
the plan is not modelled here, though `plan.py` accepts it (`CycleDetection` has it). Task rows are keyed by
task id alone and keep the `workflow_id` of the first run: `owner`.
`effects` counts the successful tool calls of a task and no action reads it.

**Recovery.** `replay` is where `reconstruct_state` is: how many events it has read
and how many it has applied. `ReplayEvent` is one round of its loop, which upserts
the task's row; the workflow's row comes last, in `FinishReplay`. It may begin
over the rows a crash has left or, with `Lose`, over an empty database. `Next` of
`Orchestrator` goes on beside it. An event of a task whose status is also the name of a
workflow status (`failed`, `cancelled`) changes the workflow's status, as in the code.
`fresh` is the workflow of an undisturbed replay that has just ended; no action
reads it.

**CycleDetection.** The recursion of `dfs` is its list `path`; each node keeps
the neighbours it has still to look at. A dependency may be outside the plan
(`Outside`) and is then filtered, as `dep_map` does. `DurableRuntime` uses only
the answer, `HasCycle`; that the search gives exactly that answer is
`FindsCycles`.

**Comparison.** `run_comparison` runs `Baseline` and then `Durable`. `faults` is the
configuration: a list, as `_validate` accepts it, in which two faults may name one occurrence
and a trigger may name an event, a tool, both or neither, with an occurrence or without.
`FirstMatch` is the search for the first fault that `Matches`, `Ask` is `get_fault` and
`get_fault_for_tool`: it counts and records, and `FaultNow` is what it returns. `criteria`
says whether the goal declares success criteria and `met` what evaluating them in the
workspace comes to: they hold, they do not, or `read_text` raises an exception other than
OSError, as for a file that is not UTF-8 (`Unreadable`). Every tool call may change that.
The durable arm is its loop for the default plan of one task with the
five places where it asks for a fault; its stores are those of
`DurableRuntime`, and an error of theirs is left to that module. Fault types without an
effect of their own are one (`FaultTypes`). A `SystemExit` ends an arm; any other exception
that leaves `run_goal` ends everything (`raised`), because `run_comparison` does not catch
it.

**ResumedRun.** `GoOn`, `Killed` and `Restart` are the steps of `DurableRuntime`, `Rebuild`
those of `Recovery` (an instance over the same rows and ledgers), and
`LoseDatabase` takes every row and every idempotency key. The runtimes never call the
recovery manager, so a person decides when: only while no `run_goal` is alive. The
order is otherwise free: a run may begin over the rows a crash left, over none, or
over rows that one, two or half a replay has written. The database is lost once at most. `lost`,
`missing` and `restarted` are history variables. `WorkflowRecovered` is stated here, because
what violates it is what a run leaves when it dies.

**ExperimentRun.** `run[r]` is what a command knows and where it is in
`_cmd_experiment_run`; `repo` is the copy at each place, with whose it is, whether it
is whole and who has used it. Each step can fail as the code can, and an exception
inside the `try` ends the repeat (`Report`), outside it the command (`Gone`): a task file
that cannot be loaded takes the entries of all earlier files with it. `CloseOutput` is a
reader that goes away: from then on every `echo` raises, which matters
because the echo stands between the entry and the count. What the arms do is left
to `Comparison` and `DurableRuntime`. A task file's id stands for its name as well.

**Workspace.** `file`, `index` and `commits` are the working tree, git's index and the trees
of its commits; each content written is a new number. `stage_and_commit` is three steps
(`GitAdd`, `GitCommit`, `ReturnHead`), any of which may fail without notice, and `Die` may
come between. `Executors` are the two of them with what a command of each can write
(`Writable`): a container only what is under `output/`, a process any path. What a call has
started may outlive it (`LeaveBehind`, `Die`): `subprocess.run` kills its direct child at a
time-out, neither that child's descendants nor a container, and when the Python process
dies its children live on. Such an orphan goes on writing at any time, between the steps of
the manager's methods and after a rollback. Commands leave `.git` alone. `restored`, `staged`, `interrupted` and
`leftBehind` are history variables. A timed-out git command leaves the method by an
exception, which is `Die` here; a lock file it may leave makes later commands fail,
which any command may.

**ModelProvider.** A text is a sequence of tokens: braces, square brackets, the mark around a
string, scalars, words of prose, fences. White space, commas and the names of members are left
out. `Values` is the grammar of JSON over the tokens, with objects and arrays in one another
(`Items`) and strings that hold anything, braces too; `RawDecode` is the library's decoder.
`meant` is what the model means to say and `reply.text` the part that arrives, which may
end inside a string, an object or an array. A finish reason is `stop`, one of those the provider refuses,
another one that it passes on (`tool_calls`), or null. `Candidates`, `RawDecodeFirstJsonObject` and
`ParseJsonLikeContent` are the code's three candidates and two ways to read each, and
`FirstObject` is the one-line promise they are checked against. Its behaviour is
`CallSpec`. The class defines its parsing methods twice; the second definitions, which Python
uses, are the ones modelled.

## 3. The runs

| run | question | result |
|---|---|---|
| `ledger` | two processes append, alone or at once, crash, and two writes tear | holds: `ChainVerifies`, `SequencesDense`, `AckedDurable`, `LossBounded`, `ImplementsLog`, `TypeOK` |
| `ledger_torn` | is a loss detected? | **violated**: `LossIsDetected` |
| `engine_shared` | runtime and approver overlap and die inside methods | holds: `ProjectionBacked`, `ProjectionLag`, `LedgerContinuous`, `AnswersFollowPause`, `TypeOK` |
| `recovery` | replays from any rows, interrupted, beside an engine | holds: `TasksRecovered`, `TasksBacked`, `WorkflowRecoveredUnlessTaskEnded`, `WorkLeftIsFound` |
| `recovery_status` | a run dies after a task has failed, and is replayed: does the workflow get its status? | **violated**: `WorkflowRecovered` |
| `runtime_dag` | every 3-task plan with two or more dependencies, no crash | holds: `QuiescentVerdict`, `ImplementsDag`, `RunAdvances`, `Terminates` |
| `runtime_recovery` | death anywhere, the database lost or not, rebuilt or not, then the goal is run again | holds: `RebuiltRunsOnce`, `CommitKeptRecorded`, `IntentLogged`, `DependencyOrder`, `VerdictSound`, `RequestsAllowed`, `RunTypeOK` |
| `cycles` | the search over every 3-task plan, in every order | holds: `FindsCycles`, `CyclesGenuine`, `Ends` |
| `comparison` | both arms under lists of up to two faults, duplicates included | holds: `FaultsOnTime`, `LossHasCause`, `SuccessIsEarned`, `Ends` |
| `experiment` | two runs on one data directory, failing and dying anywhere | holds: `ComparisonIsolated`, `EveryRepeatAccounted`, `SummaryMatchesEntries` |
| `provider` | every text of up to five tokens, cut anywhere | holds: `ParsesExactly`, `ResponseIsMeant` |
| `workspace` | executors and checkpoint manager, failing and dying anywhere | holds: `RollbackRestores`, `CommitHoldsWork` |

No run checks for deadlock: every one of these programs may stop (a run ends, a
bound is reached, a workflow is terminal).

### What the violations show

* `ledger_torn`. A line cut short has no newline. The next `append` cannot parse
  it, numbers its event 0 with no previous hash, and is glued to the fragment:
  an event that `append` has returned is unreadable, and `verify_chain` skips the
  line and reports a valid chain. ADR 003 and `test_detect_missing_event` say
  that a missing event is detected.
* `recovery_status`. `reconstruct_state` asks of every `to_status` whether it names a
  workflow status, never whose status it is. `failed` and `cancelled` name both. In the
  trace the only task at work fails, the process dies before its workflow is told, and the
  replay makes the workflow, which its ledger has RUNNING, FAILED, which is terminal.
  ADR 001: "State is always reconstructable from events."
  `WorkflowRecoveredUnlessTaskEnded` says when it is.

### What the conditions in the properties say of the code

A property that holds only under a condition says where the code stops keeping its
promise:

* `LedgerContinuous` has each pause answered once as long as no two methods overlap and
  none is cut. The check of PAUSED and the append are separate steps, so an approval
  and a rejection that overlap are both recorded for one pause, although
  `test_human_approval.py` has "Rejecting a non-PAUSED workflow must raise ValueError."
* `ProjectionLag` says of a task's row only that *some* workflow's last event about the
  task accounts for it. The engine takes the workflow and the task of a call as they
  come, and a task's row is keyed by the task alone: two workflows that move one task
  share the row and not the ledger, so the other one's last event may be any number of
  statuses behind. No one-workflow instance shows this; the induction step failed on it, and
  TLC then found the execution with two workflows.
* `FaultsOnTime` speaks of the first fault of the list that names an occurrence. `_validate`
  accepts more than `get_fault` can find: a second fault of the same occurrence never comes,
  one whose trigger has no occurrence never does, and one that names an event and a tool comes
  at both. It counts occurrences over both arms together, because the injector keeps its
  counters when the durable arm begins, and says what follows: no fault comes twice at one
  event or tool. So what the baseline has met spares the durable runtime, although that
  runtime comes to the same occurrence of its own, and a comparison sets a run with the fault
  against one without it; `docs/implementation-plan.md:374` has "Faults are applied to both
  runtimes during comparison".
* `LossHasCause` has two causes for a comparison that ends without a report: a model timeout,
  and success criteria that cannot be evaluated. `read_text` raises UnicodeDecodeError for a
  file that is not UTF-8; `except OSError` does not catch it, nor does `run_comparison`, and
  the baseline's run is lost with no fault at all.
* `AnswersFollowPause` has a pause before each answer and not an answer for each pause: it does
  not tell the second answer to one pause from the first. `LedgerContinuous` does, where no
  methods overlap; where they do, nothing here claims that a pause is answered once.
* `RebuiltRunsOnce` excepts a run that begins over a lost database before it is rebuilt:
  the idempotency keys are in no ledger, and such a run repeats calls that succeeded. In
  every other case the work is protected by the rows: `register_tasks` sets COMMITTED tasks back
  to PENDING when a plan is run again (`state_machine.py` calls COMMITTED terminal), but
  the rows keep the `workflow_id` of the first run, so the second promotes the tasks, never
  dispatches them, and fails. A replay restores that ownership with the rows. A mutant
  that hands the rows over to the second run breaks the property as soon as the first
  process has died between tool call and idempotency record.
* `RequestsAllowed` says that the engine refuses no request of `run_goal`, so an exception
  which ends a run half-way comes from elsewhere: an injected fault, a full disk. It holds over rows that earlier runs and replays have left only because each run
  has a workflow id of its own and `register_tasks` sets every row back: what protects the
  run from the rows' past is what takes them out of their life cycle.
* `ComparisonIsolated` excepts runs that were under way at the same time. The place of a
  copy is the task id and the repeat, so two commands remove and use one another's
  "isolated run workspace", and nothing notices. Runs that follow one another, after a
  death too, and files that share a task id do not: `rmtree` comes first, every time.
* `SummaryMatchesEntries` excepts entries of the last file once the output is closed: the
  line is printed between the entry and the count. For an earlier file this cannot
  happen, because the next `echo` stands outside the `try` and ends the command.
* `EveryRepeatAccounted` counts errors that were only printed. The manifest itself leaves a
  failed repeat out of its entries and its totals; only `repeats` times the tasks shows it.
* `RollbackRestores` claims nothing of `output/` once a container has outlived its call, and
  nothing of any path once a process has. `test_docker_executor.py` has "A command that sleeps
  longer than the timeout should be killed"; what is killed is the docker client, and of a
  command of the process executor its first process. It claims nothing of a checkpoint that was
  made of a tree with changes: `create_checkpoint` records HEAD and never asks `is_clean`.
* `CommitHoldsWork` holds until a git command fails or the process dies inside the
  method; from then on `stage_and_commit` may return an older commit as the new one, or
  take along what was staged before, up to the next rollback.
* `ParsesExactly` has a text refused that begins with another JSON value, or with prose that
  contains a brace, although the docstring speaks of "tolerating code fences and surrounding
  prose". The second and third candidates never change the answer. It also has
  an array with prose before it answered with its first object: the text is read from its first
  brace on, and that brace may be inside an array. The same array alone is refused, with "OpenAI
  structured response must be a JSON object".
* `ResponseIsMeant` excepts what begins with an array or a string. Cut off without a word, such
  a text is no value any more, is read from its first brace on, and an object inside it is
  taken for the answer, though the whole of it would have been refused.

### Bounds, and why they are enough

* `MaxEvents` (3 or 4) appends are begun. The hash of an event depends on the
  line before it and the counter on the last line, so three lines exhibit every
  relation between a line, its predecessor and its successor; `ledger` has four,
  so that two processes each append before and after a torn write.
* `MaxTears` (1 or 2) torn writes; two show that losses add up and that a torn
  line may follow a torn line.
* `MaxLedger` bounds the events of a workflow. In the engine runs 6 is a path to
  RUNNING, a pause and an answer; 7 leaves room for a second answer. In
  `recovery` 5 is enough for a task to be promoted, claimed and failed between
  two events of the workflow. In the runtime runs, `recovery_status` among them, it is 100
  and never reached.
* Engine runs: one workflow, one task. Methods on different workflows touch
  different rows and different files; those on the workflow's row and on the
  task's row are already different methods on one ledger.
* `IterationsPerTask` is 10 in the code and 1 here: the bound is then
  `Cardinality(Tasks)`, so a run both ends before it and runs into
  it with tasks waiting for a retry. `QuiescentVerdict` says what holds when the
  bound is not reached, the other properties hold either way.
* Plans: every loop-free three-task plan with at least two edges, which includes
  chains, forks, joins, triangles and cycles, forward and backward in plan
  order; every two-task plan with a dependency, either way or circular, when
  there are crashes, replays and two runs. A task that depends on itself is covered by `cycles`.
* Two workflows: a run and its rerun. A third run meets the same rows as the
  second, which already finds them owned by another workflow.

* Recovery runs: one client, workflow and task. A replay touches the rows of one
  workflow; the engine beside it is one client at work, and each row it writes
  is written against the replay's at every point. Five events reach neither
  REJECTED nor COMMITTED; a replay tells statuses apart only where the two
  enums share a name, and `ReplayRecoversTasks` is proved for ledgers of any length.
* `MaxOccurrence`, `BaselineIterations` and `DurableIterations` are 2: a fault can
  come at the first occurrence, at a later one, in the second arm only, or
  never, and each loop can end before its bound and at it. Two faults can meet in
  one arm, fall one in each, or name one occurrence. Every single fault is a configuration, and
  every pair of faults that name what both runtimes ask about.
* Experiment runs: two commands, each with one of two configurations: two files with one
  task id, or one file repeated twice. So a place is used by two files of a run, by
  two runs that overlap, and by a run after a dead one; a third run finds no more
  than the second. The two commands are symmetric.
* `MaxTokens` is 5: prose before an object in an object or in an array, a string that holds a
  brace inside an object, an array of an object and a scalar, and every place to cut
  them fit. The theorems are about texts of any length.
* Workspace: one path under `output/` and one beside it; three contents, three commits, so
  that a rollback can go back past a commit and work can go on from there; one
  checkpoint; one call outlived at a time, of either executor, since two orphans write no more
  than one can that writes twice. Each executor's can follow the other's.

### Fairness

`run_goal` is sequential code with no wait except for calls that return or
raise, so `FairRunSpec` assumes `WF(Step)`: while the run can take a step, it
takes one. `Die` and `RunAgain` are not part of it, since a run that is killed has no
verdict; they are in `ResumedSpec`, without fairness. Of a choice (model, tool, boundary)
nothing is assumed but that there is an answer: `Terminates` holds even if every tool
call fails for ever. `CycleDetection` and `Comparison` assume `WF(Next)` for the same
reason; there the choices of the model and the tool are part of `Next`, and `Ends`
holds for all of them. The ledger, the engine, the replay, the workspace and the provider
have no liveness property: they are called, they do not run. `ExperimentRun` has none
because its loop is bounded by its configuration.

## 4. The proofs

`tlapm` checks every leaf of the eight proof modules. The theorems are for all values of
the constants, under the assumptions named in the modules and no others:

| assumption | module | why the code justifies it |
|---|---|---|
| `BoundsAssumption`, `MaxLedgerAssumption`, `IterationsAssumption` | several | the bounds are numbers; no theorem depends on which |
| `NoneAssumption` | several | `None` is no id, no fault, no copy; in `ModelProvider` it is no JSON value, and no outcome of a call |
| `MaxTokensAssumption` | `ModelProvider` | the length of a text is a number, and allows an empty object |
| `OperatorsAssumption` | `Orchestrator` | the CLI commands are clients of the engine |
| `RuntimeAssumption` | `DurableRuntime` | one process runs the goal; nobody answers, since no run asks for approval |
| `TasksAssumption`, `WorkflowsAssumption` | `DurableRuntime` | a plan is a finite list, numbered in its order; runs follow one another; a plan has a task |
| `GraphsAssumption` | `DurableRuntime` | a plan's dependencies are tasks of the plan: any graph, cyclic ones too |
| `OutsideAssumption` | `CycleDetection` | a dependency that is not in the plan is no task of it |
| `ConfigsAssumption` | `Comparison`, `ExperimentRun` | what a configuration file holds: of faults, any list that `_validate` accepts |
| `ToolsAssumption` | `Comparison` | no tool has the name of an event |
| `OutputAssumption` | `Workspace` | what a container can write are paths of the workspace |

What a promise depends on (appends in turn, no torn write, a database that is there) is
in the property, as a condition on what has happened so far.

**EventStoreProofs**

* `TypeCorrect`: `Spec => []TypeOK`. Inductive as it stands; the two
  conjuncts that carry it are "a process inside `append` has a counter and a
  well-formed draft" and "an unterminated file is not empty".
* `IdsUnique`: an id names at most one event, in the file or in a draft not yet
  written, and is below `nextId` (`IdInv`). Needed wherever an acknowledged id is
  traced to *its* line.
* `NothingLost`: `Spec => []AckedDurable`. Not inductive: `Return` acknowledges the
  event of a draft, so its invariant adds that, until a write is torn, a draft in
  its *written* step is readable, the file is terminated, and no line is garbage.
* `ChainAlwaysVerifies`: `Spec => []ChainVerifies`. Its invariant adds that until
  two appends overlap at most one process is inside `append`, and that a *linked*
  draft names the hash of the line that is last *now*.
* `NumbersDense`: `Spec => []SequencesDense`. Its invariant adds that until two
  processes have had a counter at once there is at most one counter, and that
  it agrees with the number of lines, one less while a written line is not
  yet counted.
* `LossIsBounded`: `Spec => []LossBounded`. An event is lost when a later write is glued
  to its line, a step after the tear. `LossInv` therefore counts the debt: events
  missing, and one more while the file is unterminated, are at most `tears`; and an
  unterminated last line that can be read is an event no process will acknowledge.
* `LedgerImplementsLog`: `Spec => ImplementsLog`: the settled lines refine
  `AppendOnlyLog`, step by step, under any overlap, tear and crash.

**OrchestratorProofs**

* `EngineTypeCorrect`: `Spec => []TypeOK`.
* `NeverAheadOfLedger`: `Spec => []ProjectionBacked`. Not inductive alone, since
  `Project` and `RecordNext` write what the call remembers: `LoggedInv` says that
  the event of a *logged* call is in the ledger, whoever appended since, and
  `CountedInv` that the status a *counting* call has read is recorded there.
* `AnswersNeedPause`: `Spec => []AnswersFollowPause`. The pause is checked on the row and
  the answer logged a step later, so `AnswerInv` says of a *validated* answer that the
  pause is in the ledger already: it follows from `NeverAheadOfLedger` when the row is read, and
  survives whatever others do to the row since, because events are never taken back.
* `RowsLagOneEvent`: `Spec => []ProjectionLag`, and `EventsFormAChain`:
  `Spec => []LedgerContinuous`, from one invariant. `SoloInv`: until calls overlap, one client
  is in a method, what it read still stands, and the event it has logged is still the last.
  `RowLagInv` is the lag of both kinds of row; `SettledInv`: without a cut, the row of a
  workflow that nobody is about to project is where its last event leads.

**RecoveryProofs**

* `RecoveryTypeCorrect`: `RecoverySpec => []RecoveryTypeOK`, from the step lemmas of
  the engine and one case per step of the replay.
* `ReplayRecoversTasks`: `RecoverySpec => []TasksRecovered`. Its invariant
  says of a replay that nothing has disturbed that each task has the status of
  its last event among those applied so far, so that at the end these are
  all events of the ledger. It holds from any rows and any earlier attempt
  because a task that has an event gets its row overwritten.
* `WorkIsFoundAgain`: `RecoverySpec => []WorkLeftIsFound`, from the theorem before it and the
  two tables: the statuses `get_incomplete_tasks` calls terminal are those with no transition.
* `ReplayRecoversWorkflow`: `RecoverySpec => []WorkflowRecoveredUnlessTaskEnded`. Its invariant
  is the condition of the property read for the events applied so far (`StatusKept`).
* `ReplayedRowsAreBacked`: `RecoverySpec => []TasksBacked`, with `LoggedInv` of the engine,
  for replays that die, run twice, or run beside an engine that is still appending.

**DurableRuntimeProofs**

The theorems about `ResumedSpec` are about any number of runs over one plan, with
deaths, losses of the database and replays anywhere. They rest on one invariant,
`ResumedInv`, whose core is `RowsInv`: the engine's call belongs to the run and its event, once
logged, is in this workflow's ledger (`CallInv`); the task at work has the status its place
says, counting a status that is validated or logged but not yet projected (`Placed`, with
`Status`); what is being worked on has all its dependencies committed in the ledger of
*this* run (`PromotedInv`). The rows alone do not say the latter: the scheduler looks
rows up by task, and rows of an earlier run may be COMMITTED. What saves it is that
`register_tasks` has set them back to PENDING, so a COMMITTED row is this run's (`CommitSeen`).

* `RunsKeepTypes` (`RunTypeOK`), which includes the bound of the loop.
* `CallsFollowDependencies` (`DependencyOrder`), from `PromotedInv`.
* `VerdictsAreSound` (`VerdictSound`). `VerdictInv`: a workflow that is or is about to be
  COMPLETED has all its commits in its ledger; `WorkInv`: a commit on its way, from the tool
  call on, has that call behind it. A replay does not make a workflow COMPLETED by way of a
  task's event, because no task status has that name.
* `CallsAreAnnounced` (`IntentLogged`): successful calls of a task, and one more while it is
  about to be made, are at most the announcements in all ledgers (`IntentInv`).
* `CommitsHaveKeys` (`CommitKeptRecorded`), from `WorkInv` and `KeyInv`.
* `WorkIsDoneOnce` (`RebuiltRunsOnce`). A task whose call has succeeded is *spent* for the run
  that is alive: its row belongs to another run, or it is committed, or on its way from call
  to commit (`OnceInv`). `MissingInv` carries that over a loss: a ledger that is not
  missing mentions only tasks that have a row, and a row keeps its owner.
* `RequestsAreAllowed` (`RequestsAllowed`). `PathInv`: the status the workflow has, or will
  have when the method under way returns, is the one its place in `run_goal` expects, and
  the workflow of a new run is in no ledger. For tasks the same is `Placed`.
* `RowsStayBacked`: `ResumedSpec => []Manager!TasksBacked`, the promise of the recovery manager
  for all that happens around it: after any loss and any replay, whole or in part, no task's
  row holds a status that no event of the task records.
* `LoopEndsQuietly`: `FairRunSpec => []QuiescentVerdict`. A whole iteration is under the claim,
  so its invariant (`QuietInv`) is about the middle of one: as long as nothing was promoted,
  the tasks already visited cannot be, and as long as nothing was requeued, all that wait
  are still to visit.
* `RunImplementsDag`: `FairRunSpec => ImplementsDag`, the refinement: the append of a commit is
  `DagExecution`'s commit, the upsert of the outcome its report, every other step a stutter.
* `RunsAdvance`: `FairRunSpec => RunAdvances`, and `RunsDescend`: the order in which its steps
  descend is well-founded, a lexicographic product of the order of the natural numbers. The
  variant (`Remaining`) is the part of `run_goal`, the iterations left, the pass, the tasks
  the pass has to visit, the stage of the task at work, and the steps of the engine's method.
  So no run takes infinitely many steps, whatever fails and is retried.
* `RunsEndWithVerdict`: when a run has returned, the row of its workflow has the verdict,
  *completed* if and only if the ledger has a commit of every task. `OutcomeInv` says of a
  verdict on its way which it is, and that nothing is committed after it was decided.
* `RunDrivesEngine`: `FairRunSpec => Spec`: a run is a behaviour of the engine, so the
  engine's theorems, which are about clients that call anything at any time, are about
  runs too; `RunKeepsStoresTogether` draws the conclusion with the conditions discharged (one
  process, no overlap, no cut). `RunsDriveEngine` says the same of every step of
  `ResumedSpec` but the loss and the replay, which do not go through the engine.

**AlgorithmProofs**, of `CycleDetection` and `ModelProvider`

* `CyclesAreGenuine` and `SearchIsComplete` for every plan, from `CycleInv`: the gray tasks are
  those on the path, once each, and each depends on the next (`PathInv`), so the path from a gray
  task on is a ring; and as long as no cycle is found, the black tasks depend on black ones
  only and no set of them holds a cycle, while on the path the dependencies already passed
  are black or next (`ExploredInv`). When a task turns black no black task depends on
  it, so whatever breaks a set of black tasks without it breaks the set with it too.
* `SearchAdvances`: `Spec => [][Shrinks]_vars`: every step of the search takes a dependency
  from those still to be looked at or a task from those still to be left, and gives none back.
* `RepliesParseExactly` (`ParsesExactly`) and `ResponsesAreMeant` (`ResponseIsMeant`), for
  texts of any length and nesting. `Items` is a recursive function over the length of a
  text; that it is the function its definition describes is a lemma, from the least length at
  which one would be missing. Every value of the grammar is balanced: the depth of its braces and
  brackets, counted outside its strings, returns to zero at its end, and not before. The library's induction takes an operator as its parameter, so the argument
  takes an unbalanced value of least length instead, which well-foundedness of the natural
  numbers provides, and contradicts it. Hence no value begins another, what the decoder finds at a place
  is the only value there, and a text cut inside the object that was meant holds none at its
  first brace, unless it begins with an array or a string; and the code's second and third candidates contain the first brace of the
  text, so they add nothing. `CallInv` carries these facts about one text to the outcome of the call.

**ComparisonProofs**

* `ComparisonTypeCorrect`: `Spec => []TypeOK`.
* `FaultsComeOnTime`: `Spec => []FaultsOnTime`. `TimesInv`: a configured occurrence that has been
  counted is at exactly one place of the list of faults triggered, with the first fault of the
  configuration that names it, and every other is at none. It
  makes no difference between the arms, as the injector makes none; that a fault comes at most
  once at an event or tool follows.
* `LossesHaveCauses`: `Spec => []LossHasCause`, with `OverInv`: an arm has no outcome before
  it is over, so that no fault can follow the kill that ended it. What ends a comparison without a
  report is a fact about its last step, which nothing follows.
* `SuccessesAreEarned`: `Spec => SuccessIsEarned`, an action property.
* `ComparisonDescends`: every step descends in a lexicographic order of numbers, and that order
  is well-founded: no comparison goes on for ever.

**ExperimentRunProofs**

* `RepeatsAreAccounted`: `Spec => []EveryRepeatAccounted`. The invariant says of a command that is
  under way that the repeats with an entry or a reported failure are exactly those behind it, in
  the order of the two loops, and the one whose entry is noted and whose line is still to be
  printed. A failure between the two only adds the repeat to the errors as well.
* `ComparisonsAreIsolated`: `Spec => []ComparisonIsolated`. `AloneInv`: a command beside which no other has
  been under way is alone while it is; `Own`: from the end of the copy to the end of the second
  arm the copy is whole, its own and unused by others.
* `SummariesMatch`: `Spec => []SummaryMatchesEntries`. `TallyInv`: what is counted of a task
  are its first entries, in their order, and as long as the output is there all of those that
  have had their turn; and the summary of a manifest is what had been counted when it was
  written. One step of a command adds at most one entry, so the ranks of the others stay.

**WorkspaceProofs**

* `RollbackAlwaysRestores`: `Spec => []RollbackRestores`. Not inductive: a rollback
  gives back what its commit holds, so the invariant (`RollbackInv`) adds that a
  checkpoint of a clean tree names a commit that holds the files as they were
  (`CheckpointsHeld`), and that a rollback is the last thing done only while no method
  is under way and of an executor that still writes a call has been left behind
  (`OnlyOrphans`), so what it can write is not claimed.
  It needs nothing of the index: `reset --hard` overwrites what failed commands left there.
* `CommitsHoldWork`: `Spec => []CommitHoldsWork`. Its invariant (`CommitInv`) says what the
  index holds before each command of the method as long as none has failed: the last
  commit, then what the commit is meant to hold. It is what one failure breaks for
  every later commit until a rollback.

## 5. Only model-checked, and not modelled

Model-checked only:

* the three liveness properties, `Terminates` of a run and `Ends` of the search and of a
  comparison: the prover handles neither fairness nor ENABLED. The part of each argument that is no temporal
  logic is proved: every step descends (`RunsDescend`, `SearchAdvances`,
  `ComparisonDescends`), and what a run that has returned has recorded is
  `RunsEndWithVerdict`. What TLC adds is that a run which is not at its end can always take a step;
* the two violations, which are counterexamples.

All other properties of the runs that hold, 33 invariants, two action properties and two
refinements, are theorems. What they say of recursive functions is proved by a least
counterexample in place of an induction, and no module here declares a RECURSIVE operator.

Not modelled: the mock provider (a table), the router (a lookup nothing calls), prompts,
the tool registry, what a tool does beyond success or failure and a change of the
workspace, the other commands of the CLI (reading, printing and stubs), JSON schemas and
path rules of proposals (a choice), wall-clock time. SQLite sessions are atomic and durable
(SQLite's promise). The numbers in a workflow row (tokens, calls, `last_event_sequence`) are left
out: no method of the runtime reads them, and nothing in it calls `record_model_call`.
Proposal ids are left out, as said above. An empty plan is not
modelled (`TasksAssumption`): it skips the loop and is COMPLETED at once. Only
`_map_http_error`, time-outs and network errors become provider exceptions; an answer without `choices`, or a connection that breaks
in the middle, raises something else (`unmapped`), which the runtimes catch all the same.

## 6. Plan

In order of importance; done so far: 1 to 11.

1. `EventStore`, `AppendOnlyLog` and their proofs.
2. `StateMachine`, `Orchestrator` and their proofs.
3. `DurableRuntime`, `DagExecution`: the run, its crash and its rerun.
4. `CycleDetection`.
5. `Recovery`: `reconstruct_state` beside the engine, and its proofs.
6. `Comparison`: the fault injector, the baseline and the experiment runner.
7. `ResumedRun`: the loss of the database and a recovery between two runs.
8. `Workspace`: executors and git checkpoints, and its proofs.
9. `ExperimentRun`: the command that runs experiments.
10. `ModelProvider`: the parsing of a model's answer.
11. Proofs of all invariants, action properties and refinements above, and of the variant
    behind each liveness property.

Left: the numbers in the workflow rows, if the code comes to depend on them; proposal ids,
if it comes to compare them; the CLI's `resume`, `replay` and `cancel`, which are stubs.
