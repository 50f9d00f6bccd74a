---------------------------- MODULE DurableRuntime ----------------------------
(***************************************************************************)
(* run_goal (experiments/durable.py) with a multi-task plan, the scheduler *)
(* (orchestration/scheduler.py) and the verification boundary              *)
(* (boundary/service.py), driving the engine of module Orchestrator.       *)
(*                                                                         *)
(* One process runs the goal.  It may die at any step, or leave run_goal   *)
(* by an exception, which for the stores is the same; the goal can then be *)
(* run again with the same plan on the same data directory, as a new       *)
(* workflow.  pc is the next thing run_goal does; while the engine is      *)
(* inside a method (call) the run waits for it.                            *)
(***************************************************************************)
EXTENDS Orchestrator, FiniteSets

CONSTANTS
    Runtime,           \* the process that runs goals
    Graphs,            \* the dependency graphs a plan may have
    IterationsPerTask  \* the loop's safety bound: 10 in the code

ASSUME RuntimeAssumption == Clients = {Runtime} /\ Operators = {}
ASSUME TasksAssumption == Tasks \subseteq Nat /\ Tasks # {} /\ IsFiniteSet(Tasks)
ASSUME WorkflowsAssumption ==
    Workflows \subseteq Nat /\ Workflows # {} /\ IsFiniteSet(Workflows)
ASSUME GraphsAssumption == Graphs \subseteq [Tasks -> SUBSET Tasks]
ASSUME IterationsAssumption == IterationsPerTask \in Nat

VARIABLES
    deps,         \* the plan: task.dependencies
    idempotency,  \* the tasks whose idempotency key is committed
    pc,           \* where run_goal is
    wf,           \* its wf_id
    iteration,
    promoted,     \* tasks the last promote_pending made READY
    retried,      \* tasks the last requeue_retry_wait made READY
    todo,         \* tasks the loop that is running has still to visit
    current,      \* the task _execute_task is working on
    succeeded,    \* result.success of its tool call
    effects       \* history: how often the tool call of a task succeeded

runVars == <<pc, wf, iteration, promoted, retried, todo, current, succeeded>>
storeVars == <<idempotency, effects>>
allVars == <<vars, deps, runVars, storeVars>>

----------------------------------------------------------------------------

\* Rows of the workflow that is running: get_tasks_by_workflow.
Owned(status) == {t \in Tasks : owner[t] = wf /\ task[t] = status}

\* A dependency that has been started counts as satisfied.
DepsStarted(t) == \A d \in deps[t] : task[d] \notin {NoRow, "pending", "ready"}

\* _are_deps_satisfied and _has_failed_dep look rows up by task alone.
DepsSatisfied(t) == \A d \in deps[t] : task[d] = "committed"
HasFailedDep(t) == \E d \in deps[t] : task[d] = "failed"

\* detect_circular_deps finds something: some tasks each depend on another of them.
HasCycle ==
    \E S \in SUBSET Tasks : S # {} /\ \A t \in S : deps[t] \cap S # {}

MaxIterations == Cardinality(Tasks) * IterationsPerTask

\* The task promote_pending visits next: the plan lists them by number.
FirstOf(S) == CHOOSE t \in S : \A u \in S : t <= u

Ready == call[Runtime] = Idle

\* The run goes on at another place, with its local variables as they are.
Goto(place) ==
    /\ pc' = place
    /\ UNCHANGED <<wf, iteration, promoted, retried, todo, current, succeeded>>

SetTask(t, target) == TransitionTask(Runtime, t, wf, target)
SetWorkflow(target) == TransitionWorkflow(Runtime, wf, target)

----------------------------------------------------------------------------
(* Setting the workflow up.                                                *)

StartRun ==
    /\ pc = "create"
    /\ CreateWorkflow(Runtime, wf)
    /\ Goto("compile")
    /\ UNCHANGED <<deps, storeVars>>

Compile ==
    /\ pc = "compile"
    /\ SetWorkflow("compiled")
    /\ Goto("register")
    /\ UNCHANGED <<deps, storeVars>>

Register ==
    /\ pc = "register"
    /\ RegisterTasks(Runtime, wf, Tasks)
    /\ Goto("plan")
    /\ UNCHANGED <<deps, storeVars>>

Plan ==
    /\ pc = "plan"
    /\ SetWorkflow("planned")
    /\ Goto("run")
    /\ UNCHANGED <<deps, storeVars>>

Run ==
    /\ pc = "run"
    /\ SetWorkflow("running")
    /\ Goto("detect")
    /\ UNCHANGED <<deps, storeVars>>

\* A circular plan fails the workflow before any task runs.
DetectCycles ==
    /\ pc = "detect"
    /\ Ready
    /\ \/ /\ HasCycle
          /\ SetWorkflow("failed")
          /\ Goto("done")
       \/ /\ ~HasCycle
          /\ Goto("iterate")
          /\ UNCHANGED vars
    /\ UNCHANGED <<deps, storeVars>>

----------------------------------------------------------------------------
(* The scheduling loop.                                                    *)

\* The bound is off by one.
IterateOnceMore ==
    /\ pc = "iterate"
    /\ Ready
    /\ \/ /\ iteration <= MaxIterations
          /\ iteration' = iteration + 1
          /\ promoted' = 0
          /\ retried' = 0
          /\ todo' = Tasks
          /\ pc' = "promote"
          /\ UNCHANGED <<wf, current, succeeded>>
       \/ /\ iteration > MaxIterations
          /\ Goto("verdict")
    /\ UNCHANGED <<vars, deps, storeVars>>

\* An iteration that follows a retry is not counted.
IterateRetriesFree ==
    /\ pc = "iterate"
    /\ Ready
    /\ \/ /\ iteration < MaxIterations
          /\ iteration' = IF retried > 0 THEN iteration ELSE iteration + 1
          /\ promoted' = 0
          /\ retried' = 0
          /\ todo' = Tasks
          /\ pc' = "promote"
          /\ UNCHANGED <<wf, current, succeeded>>
       \/ /\ iteration >= MaxIterations
          /\ Goto("verdict")
    /\ UNCHANGED <<vars, deps, storeVars>>

Iterate ==
    /\ pc = "iterate"
    /\ Ready
    /\ \/ /\ iteration < MaxIterations
          /\ iteration' = iteration + 1
          /\ promoted' = 0
          /\ retried' = 0
          /\ todo' = Tasks
          /\ pc' = "promote"
          /\ UNCHANGED <<wf, current, succeeded>>
       \/ /\ iteration >= MaxIterations
          /\ Goto("verdict")
    /\ UNCHANGED <<vars, deps, storeVars>>

\* promote_pending: the next task of the plan.
Promote ==
    /\ pc = "promote"
    /\ Ready
    /\ todo # {}
    /\ LET t == FirstOf(todo)
           waiting == task[t] = "pending"
       IN  /\ todo' = todo \ {t}
           /\ \/ /\ waiting /\ DepsSatisfied(t)
                 /\ SetTask(t, "ready")
                 /\ promoted' = promoted + 1
                 /\ UNCHANGED <<pc, current>>
              \/ /\ waiting /\ ~DepsSatisfied(t) /\ HasFailedDep(t)
                 /\ SetTask(t, "ready")
                 /\ current' = t
                 /\ pc' = "block"
                 /\ UNCHANGED promoted
              \/ /\ ~waiting \/ ~(DepsSatisfied(t) \/ HasFailedDep(t))
                 /\ UNCHANGED <<vars, promoted, pc, current>>
    /\ UNCHANGED <<wf, iteration, retried, succeeded, deps, storeVars>>

\* The task is failed with its dependency, which READY does not allow.
BlockByFailing ==
    /\ pc = "block"
    /\ SetTask(current, "failed")
    /\ Goto("promote")
    /\ UNCHANGED <<deps, storeVars>>

\* A task with a failed dependency goes on from READY to BLOCKED.
Block ==
    /\ pc = "block"
    /\ SetTask(current, "blocked")
    /\ Goto("promote")
    /\ UNCHANGED <<deps, storeVars>>

\* The loop moves on to the rows with a status: requeue_retry_wait, get_ready.
Visit(from, place, status) ==
    /\ pc = from
    /\ Ready
    /\ todo = {}
    /\ todo' = Owned(status)
    /\ pc' = place
    /\ UNCHANGED <<vars, wf, iteration, promoted, retried, current, succeeded,
                   deps, storeVars>>

BeginRequeue == Visit("promote", "requeue", "retry_wait")

Requeue ==
    /\ pc = "requeue"
    /\ \E t \in todo :
          /\ SetTask(t, "ready")
          /\ todo' = todo \ {t}
    /\ retried' = retried + 1
    /\ UNCHANGED <<pc, wf, iteration, promoted, current, succeeded, deps, storeVars>>

\* The loop ends as soon as an iteration promotes nothing.
SelectPromoted ==
    /\ pc = "requeue"
    /\ Ready
    /\ todo = {}
    /\ todo' = Owned("ready")
    /\ pc' = IF promoted = 0 THEN "verdict" ELSE "dispatch"
    /\ UNCHANGED <<vars, wf, iteration, promoted, retried, current, succeeded,
                   deps, storeVars>>

\* Nothing is ready and nothing was promoted or requeued: the loop ends.
SelectReady ==
    /\ pc = "requeue"
    /\ Ready
    /\ todo = {}
    /\ todo' = Owned("ready")
    /\ pc' = IF todo' = {} /\ promoted = 0 /\ retried = 0 THEN "verdict" ELSE "dispatch"
    /\ UNCHANGED <<vars, wf, iteration, promoted, retried, current, succeeded,
                   deps, storeVars>>

EndIteration ==
    /\ pc = "dispatch"
    /\ Ready
    /\ todo = {}
    /\ Goto("iterate")
    /\ UNCHANGED <<vars, deps, storeVars>>

----------------------------------------------------------------------------
(* _execute_task.                                                          *)

Claim ==
    /\ pc = "dispatch"
    /\ \E t \in todo :
          /\ SetTask(t, "claimed")
          /\ current' = t
          /\ todo' = todo \ {t}
    /\ pc' = "propose"
    /\ UNCHANGED <<wf, iteration, promoted, retried, succeeded, deps, storeVars>>

Propose ==
    /\ pc = "propose"
    /\ SetTask(current, "proposing")
    /\ Goto("ask")
    /\ UNCHANGED <<deps, storeVars>>

\* _propose_action: the model answers with what becomes a proposal, or something on
\* the way raises.
ProposeAction == {"proposal", "exception"}

\* An exception fails the task.
AskModel ==
    /\ pc = "ask"
    /\ \E answer \in ProposeAction :
          \/ /\ answer = "proposal"
             /\ SetTask(current, "verifying")
             /\ Goto("verify")
          \/ /\ answer = "exception"
             /\ SetTask(current, "failed")
             /\ Goto("dispatch")
    /\ UNCHANGED <<deps, storeVars>>

\* is_duplicate, and record_idempotency as committed.  Every attempt of a task has
\* the key of its first.
Duplicate(t) == t \in idempotency
Record(t) == idempotency' = idempotency \cup {t}

\* BoundaryService.verify: the schema and path checks depend on the proposal alone.
MayPass(t) == ~Duplicate(t)

\* The EXECUTING transition is forgotten.
VerifySilently ==
    /\ pc = "verify"
    /\ Ready
    /\ MayPass(current)
    /\ Goto("execute")
    /\ UNCHANGED <<vars, deps, storeVars>>

\* A proposal that may pass can still fail the checks on its arguments.
Verify ==
    /\ pc = "verify"
    /\ \/ /\ MayPass(current)
          /\ SetTask(current, "executing")
          /\ Goto("execute")
       \/ /\ SetTask(current, "rejected")
          /\ Goto("dispatch")
    /\ UNCHANGED <<deps, storeVars>>

\* The tool call succeeds or it does not.
Execute ==
    /\ pc = "execute"
    /\ Ready
    /\ \E ok \in BOOLEAN :
          /\ succeeded' = ok
          /\ effects' = IF ok THEN [effects EXCEPT ![current] = @ + 1] ELSE effects
    /\ pc' = "post"
    /\ UNCHANGED <<vars, wf, iteration, promoted, retried, todo, current, deps, idempotency>>

\* The commit comes before the idempotency record.
PostVerifyCommit ==
    /\ pc = "post"
    /\ SetTask(current, "post_verifying")
    /\ Goto(IF succeeded THEN "commit" ELSE "retry")
    /\ UNCHANGED <<deps, storeVars>>

PostVerify ==
    /\ pc = "post"
    /\ SetTask(current, "post_verifying")
    /\ Goto(IF succeeded THEN "record" ELSE "retry")
    /\ UNCHANGED <<deps, storeVars>>

\* The idempotency key is recorded before the task is committed.
RecordIdempotency ==
    /\ pc = "record"
    /\ Ready
    /\ Record(current)
    /\ Goto("commit")
    /\ UNCHANGED <<vars, deps, effects>>

CommitTask ==
    /\ pc = "commit"
    /\ SetTask(current, "committed")
    /\ Goto("dispatch")
    /\ UNCHANGED <<deps, storeVars>>

RetryLater ==
    /\ pc = "retry"
    /\ SetTask(current, "retry_wait")
    /\ Goto("dispatch")
    /\ UNCHANGED <<deps, storeVars>>

----------------------------------------------------------------------------

\* No failed task is taken for success.
DecideOptimist ==
    /\ pc = "verdict"
    /\ Ready
    /\ SetWorkflow(IF Owned("failed") = {} THEN "completed" ELSE "failed")
    /\ Goto("done")
    /\ UNCHANGED <<deps, storeVars>>

\* The verdict counts the rows of this workflow.
Decide ==
    /\ pc = "verdict"
    /\ Ready
    /\ SetWorkflow(IF Owned("committed") = Tasks THEN "completed" ELSE "failed")
    /\ Goto("done")
    /\ UNCHANGED <<deps, storeVars>>

\* The engine method that is under way goes on.
EngineStep ==
    /\ Continue(Runtime)
    /\ UNCHANGED <<deps, runVars, storeVars>>

Setup == StartRun \/ Compile \/ Register \/ Plan \/ Run \/ DetectCycles
Schedule == Iterate \/ Promote \/ Block \/ BeginRequeue \/ Requeue \/ SelectReady
            \/ EndIteration
Work == Claim \/ Propose \/ AskModel \/ Verify \/ Execute \/ PostVerify
        \/ RecordIdempotency \/ CommitTask \/ RetryLater

\* One step of run_goal.
Step == EngineStep \/ Setup \/ Schedule \/ Work \/ Decide

\* The process dies, inside an engine method or between two.
Die ==
    /\ pc \notin {"create", "down"}
    /\ pc = "done" => ~Ready
    /\ IF Ready THEN UNCHANGED vars ELSE Crash(Runtime)
    /\ Goto("down")
    /\ UNCHANGED <<deps, storeVars>>

\* The goal is run again with the same plan: a new workflow, new local variables.
RunAgain ==
    /\ pc \in {"done", "down"}
    /\ Ready
    /\ wf + 1 \in Workflows
    /\ wf' = wf + 1
    /\ pc' = "create"
    /\ iteration' = 0
    /\ promoted' = 0
    /\ retried' = 0
    /\ todo' = {}
    /\ current' = FirstOf(Tasks)
    /\ succeeded' = FALSE
    /\ UNCHANGED <<vars, deps, storeVars>>

RunInit ==
    /\ Init
    /\ deps \in Graphs
    /\ idempotency = {}
    /\ pc = "create"
    /\ wf = FirstOf(Workflows)
    /\ iteration = 0
    /\ promoted = 0
    /\ retried = 0
    /\ todo = {}
    /\ current = FirstOf(Tasks)
    /\ succeeded = FALSE
    /\ effects = [t \in Tasks |-> 0]

\* One run that nothing interrupts: run_goal is sequential code, and while it can take a
\* step it takes one.  Module ResumedRun has the runs that die.
FairRunSpec == RunInit /\ [][Step]_allVars /\ WF_allVars(Step)

----------------------------------------------------------------------------
(* Properties.                                                             *)

\* Every variable keeps its type, and the loop stays within its bound.
RunTypeOK ==
    /\ TypeOK
    /\ deps \in Graphs
    /\ idempotency \subseteq Tasks
    /\ pc \in {"create", "compile", "register", "plan", "run", "detect", "iterate",
              "promote", "block", "requeue", "dispatch", "propose", "ask", "verify",
              "execute", "post", "record", "commit", "retry", "verdict", "done", "down"}
    /\ wf \in Workflows
    /\ iteration \in 0..MaxIterations
    /\ promoted \in Nat /\ retried \in Nat
    /\ todo \subseteq Tasks /\ current \in Tasks
    /\ succeeded \in BOOLEAN
    /\ effects \in [Tasks -> Nat]

\* The ledger of workflow w records, before event n, that t reached a status.
Recorded(w, t, status, n) ==
    \E i \in 1..(n - 1) : ledger[w][i].task = t /\ ledger[w][i].to = status
EverRecorded(w, t, status) == Recorded(w, t, status, Len(ledger[w]) + 1)

\* No tool call is announced before the tasks it depends on are committed: the
\* ledger of the same workflow says so, whatever failed, was retried or crashed.
DependencyOrder ==
    \A w \in Workflows : \A n \in 1..Len(ledger[w]) :
        ledger[w][n].to = "executing" =>
            \A d \in deps[ledger[w][n].task] : Recorded(w, d, "committed", n)

\* A workflow is COMPLETED only if the tool call of each task of its plan succeeded and
\* its commit is in the ledger; a plan with a cycle never completes.
VerdictSound ==
    \A w \in Workflows : workflow[w] = "completed" =>
        /\ \A t \in Tasks : EverRecorded(w, t, "committed") /\ effects[t] > 0
        /\ ~HasCycle

\* If the loop ends before its bound, nothing it could have done was left: no task
\* of the workflow is between two statuses, waits for a retry, could be
\* promoted, or should have been blocked.
QuiescentVerdict ==
    pc = "verdict" /\ iteration < MaxIterations =>
        \A t \in Tasks : owner[t] = wf =>
            /\ task[t] \in {"pending", "committed", "rejected", "failed", "blocked"}
            /\ task[t] = "pending" => ~DepsSatisfied(t) /\ ~HasFailedDep(t)

\* The tool call of a task succeeds at most once, even if the process dies right
\* after it and the goal is run again.
SucceedsAtMostOnce == \A t \in Tasks : effects[t] <= 1

\* Each successful tool call was announced in the ledger before it was made.
IntentLogged ==
    \A t \in Tasks :
        effects[t] <= Cardinality({x \in Workflows \X (1..MaxLedger) :
                          /\ x[2] <= Len(ledger[x[1]])
                          /\ ledger[x[1]][x[2]].task = t
                          /\ ledger[x[1]][x[2]].to = "executing"})

\* A committed task has its idempotency key recorded and its tool call made: a
\* crash can leave the key without the commit, never the commit without the key.
CommitRecorded ==
    \A t \in Tasks :
        /\ (\E w \in Workflows : EverRecorded(w, t, "committed")) => t \in idempotency
        /\ t \in idempotency => effects[t] > 0

\* What run_goal asks the engine for, by its place: for the task at work and for the
\* workflow.
TaskRequests ==
    {<<"block", "blocked">>, <<"propose", "proposing">>, <<"ask", "verifying">>,
     <<"ask", "failed">>, <<"verify", "executing">>, <<"verify", "rejected">>,
     <<"post", "post_verifying">>, <<"commit", "committed">>, <<"retry", "retry_wait">>}
WorkflowRequests ==
    {<<"compile", "compiled">>, <<"plan", "planned">>, <<"run", "running">>,
     <<"detect", "failed">>, <<"verdict", "completed">>, <<"verdict", "failed">>}

\* The engine raises on no call of run_goal: at each of its places the transition it is
\* about to ask for is one the life cycles allow, of a workflow the ledger knows, however
\* earlier runs of the plan ended and whatever they left in the rows.
RequestsAllowed == Ready =>
    /\ pc = "create" => ~Known(wf)
    /\ pc \notin {"create", "done", "down"} => Known(wf)
    /\ \A r \in WorkflowRequests : pc = r[1] => CanTransitionWorkflow(WorkflowCurrent(wf), r[2])
    /\ \A r \in TaskRequests : pc = r[1] => CanTransitionTask(TaskCurrent(current), r[2])
    /\ \A t \in todo :
          /\ pc = "requeue" => CanTransitionTask(TaskCurrent(t), "ready")
          /\ pc = "dispatch" => CanTransitionTask(TaskCurrent(t), "claimed")

\* What is left of a run, most significant first: the part of run_goal it is in, the
\* iterations, the part of the iteration, the tasks its loop has to visit, what is to do
\* for the task at work, and the engine's method.
Part ==
    CASE pc = "create"   -> 8
      [] pc = "compile"  -> 7
      [] pc = "register" -> 6
      [] pc = "plan"     -> 5
      [] pc = "run"      -> 4
      [] pc = "detect"   -> 3
      [] pc = "verdict"  -> 1
      [] pc \in {"done", "down"} -> 0
      [] OTHER           -> 2
Pass ==
    CASE pc \in {"promote", "block"} -> 3
      [] pc = "requeue" -> 2
      [] pc = "iterate" -> 0
      [] OTHER          -> 1
Stage ==
    CASE pc = "propose" -> 7
      [] pc = "ask"     -> 6
      [] pc = "verify"  -> 5
      [] pc = "execute" -> 4
      [] pc = "post"    -> 3
      [] pc = "record"  -> 2
      [] pc \in {"commit", "retry", "block"} -> 1
      [] OTHER          -> 0
Pending ==
    CASE call[Runtime].step = "validated"   -> 2
      [] call[Runtime].step = "logged"      -> 1
      [] call[Runtime].step = "registering" -> Cardinality(call[Runtime].left)
      [] OTHER -> 0
Remaining ==
    <<Part, MaxIterations - iteration, Pass, Cardinality(todo), Stage, Pending>>

\* a comes before b in the lexicographic order.
Below(a, b) == \E i \in 1..6 : a[i] < b[i] /\ \A j \in 1..(i - 1) : a[j] = b[j]

\* Every step brings run_goal nearer to its end, whatever fails and is retried: no retry,
\* promotion or empty pass is for free, so a run takes a bounded number of steps.
RunAdvances == [][Below(Remaining', Remaining)]_allVars

\* run_goal always comes to an end, with a verdict recorded.
Terminates == <>(pc = "done" /\ workflow[wf] \in {"completed", "failed"})

\* The first workflow, seen from outside.
Dag == INSTANCE DagExecution WITH
           done    <- {t \in Tasks : EverRecorded(FirstOf(Workflows), t, "committed")},
           verdict <- IF workflow[FirstOf(Workflows)] \in {"completed", "failed"}
                        THEN workflow[FirstOf(Workflows)] ELSE "open"

\* However tasks fail and are retried, the run commits tasks in the order of their
\* dependencies and reports what it did.
ImplementsDag == Dag!Spec
==============================================================================
