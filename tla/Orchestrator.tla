----------------------------- MODULE Orchestrator -----------------------------
(***************************************************************************)
(* The workflow engine (orchestration/engine.py) over its two stores: the  *)
(* event ledger, which is the truth, and the SQLite projection, which the  *)
(* engine reads.  A method that changes a status is three steps: read the  *)
(* row and validate the transition, append the event, upsert the row.      *)
(* Several processes have an engine on one data directory: the runtime,    *)
(* and one for every `dar approve` or `dar reject`.  A process may die     *)
(* between any two steps.  An append is one step here; its own steps are   *)
(* those of module EventStore.                                             *)
(***************************************************************************)
EXTENDS Naturals, Sequences, StateMachine

CONSTANTS
    Clients,    \* the processes that hold an OrchestratorEngine
    Operators,  \* those that only approve and reject: the CLI commands
    Workflows,  \* workflow ids
    Tasks,      \* task ids
    None,       \* no task, no owner
    MaxLedger   \* bound: events of one workflow

ASSUME NoneAssumption == None \notin Workflows \cup Tasks
ASSUME OperatorsAssumption == Operators \subseteq Clients
ASSUME MaxLedgerAssumption == MaxLedger \in Nat

VARIABLES
    ledger,      \* the events of each workflow
    workflow,    \* workflow_state: the status of each row
    task,        \* task_state: the status of each row
    owner,       \* task_state: the workflow_id of each row
    call,        \* the engine method each client is in
    overlapped,  \* history: two calls have been under way at once
    cut          \* history: a client died between an append and its upsert

vars == <<ledger, workflow, task, owner, call, overlapped, cut>>

----------------------------------------------------------------------------

NoRow == "none"

\* What the payload of an event says.  Events without a task are the workflow's
\* own; an answer belongs to an approval event.
Answers == {"none", "requested", "approved", "rejected"}
Event == [task : {None}, from : WorkflowStatus, to : WorkflowStatus, answer : Answers]
         \cup [task : Tasks, from : TaskStatus, to : TaskStatus, answer : {"none"}]

Idle == [step |-> "idle"]
Call == {Idle}
        \cup [step : {"validated", "logged"}, w : Workflows, event : Event]
        \cup [step : {"registering"}, w : Workflows, left : SUBSET Tasks]
        \cup [step : {"counting"}, w : Workflows, status : WorkflowStatus]

\* A workflow without a row counts as CREATED, a task without one as PENDING.
WorkflowCurrent(w) == IF workflow[w] = NoRow THEN "created" ELSE workflow[w]
TaskCurrent(t) == IF task[t] = NoRow THEN "pending" ELSE task[t]

WorkflowEvent(from, to, answer) ==
    [task |-> None, from |-> from, to |-> to, answer |-> answer]
TaskEvent(t, from, to) ==
    [task |-> t, from |-> from, to |-> to, answer |-> "none"]

\* The row goes to the workflow that writes it.
UpsertTaskTaken(t, w, status) ==
    /\ task' = [task EXCEPT ![t] = status]
    /\ owner' = [owner EXCEPT ![t] = w]
    /\ UNCHANGED workflow

\* The row without its owner.
UpsertTaskUnowned(t, w, status) ==
    /\ task' = [task EXCEPT ![t] = status]
    /\ UNCHANGED <<workflow, owner>>

\* upsert_workflow and upsert_task.  A row that exists keeps its workflow_id.
UpsertWorkflow(w, status) ==
    /\ workflow' = [workflow EXCEPT ![w] = status]
    /\ UNCHANGED <<task, owner>>
UpsertTask(t, w, status) ==
    /\ task' = [task EXCEPT ![t] = status]
    /\ owner' = [owner EXCEPT ![t] = IF task[t] = NoRow THEN w ELSE @]
    /\ UNCHANGED workflow

----------------------------------------------------------------------------

Init ==
    /\ ledger = [w \in Workflows |-> <<>>]
    /\ workflow = [w \in Workflows |-> NoRow]
    /\ task = [t \in Tasks |-> NoRow]
    /\ owner = [t \in Tasks |-> None]
    /\ call = [c \in Clients |-> Idle]
    /\ overlapped = FALSE
    /\ cut = FALSE

Enter(c, step) ==
    /\ call[c] = Idle
    /\ call' = [call EXCEPT ![c] = step]
    /\ overlapped' = (overlapped \/ \E d \in Clients \ {c} : call[d] # Idle)
    /\ UNCHANGED <<ledger, workflow, task, owner, cut>>

\* The transition is valid for the row that was read: its event is next.
Validated(c, w, event) ==
    /\ Len(ledger[w]) < MaxLedger
    /\ Enter(c, [step |-> "validated", w |-> w, event |-> event])

Known(w) == ledger[w] # <<>>

\* create_workflow: uuid4 gives an id nobody has used.
CreateWorkflow(c, w) ==
    /\ ~Known(w)
    /\ \A d \in Clients : call[d] # Idle => call[d].w # w
    /\ Validated(c, w, WorkflowEvent("created", "created", "none"))

TransitionWorkflow(c, w, target) ==
    /\ Known(w)
    /\ CanTransitionWorkflow(WorkflowCurrent(w), target)
    /\ Validated(c, w, WorkflowEvent(WorkflowCurrent(w), target, "none"))

TransitionTask(c, t, w, target) ==
    /\ Known(w)
    /\ CanTransitionTask(TaskCurrent(t), target)
    /\ Validated(c, w, TaskEvent(t, TaskCurrent(t), target))

RequestApproval(c, w) ==
    /\ Known(w)
    /\ WorkflowCurrent(w) = "running"
    /\ Validated(c, w, WorkflowEvent("running", "paused", "requested"))

\* The guard of request_approval copied into approve and reject.
AnswerUnpaused(c, w, answer) ==
    /\ Known(w)
    /\ WorkflowCurrent(w) = "running"
    /\ Validated(c, w, WorkflowEvent("paused", "running", answer))

Answer(c, w, answer) ==
    /\ Known(w)
    /\ WorkflowCurrent(w) = "paused"
    /\ Validated(c, w, WorkflowEvent("paused", "running", answer))

Approve(c, w) == Answer(c, w, "approved")
Reject(c, w) == Answer(c, w, "rejected")

\* _append_event.
AppendEvent(c) ==
    /\ call[c].step = "validated"
    /\ ledger' = [ledger EXCEPT ![call[c].w] = Append(@, call[c].event)]
    /\ call' = [call EXCEPT ![c].step = "logged"]
    /\ UNCHANGED <<workflow, task, owner, overlapped, cut>>

\* The method returns without its upsert.
ProjectNothing(c) ==
    /\ call[c].step = "logged"
    /\ call' = [call EXCEPT ![c] = Idle]
    /\ UNCHANGED <<ledger, workflow, task, owner, overlapped, cut>>

\* The upsert the method ends with.
Project(c) ==
    /\ call[c].step = "logged"
    /\ LET e == call[c].event
       IN  \/ e.task = None /\ UpsertWorkflow(call[c].w, e.to)
           \/ e.task # None /\ UpsertTask(e.task, call[c].w, e.to)
    /\ call' = [call EXCEPT ![c] = Idle]
    /\ UNCHANGED <<ledger, overlapped, cut>>

\* register_tasks writes one row per task of the plan, and no event.
RegisterTasks(c, w, plan) ==
    /\ Known(w)
    /\ plan # {}
    /\ Enter(c, [step |-> "registering", w |-> w, left |-> plan])

Registered(c, rest) ==
    IF rest = {} THEN Idle
                 ELSE [step |-> "registering", w |-> call[c].w, left |-> rest]

RegisterNext(c) ==
    /\ call[c].step = "registering"
    /\ \E t \in call[c].left :
          /\ UpsertTask(t, call[c].w, "pending")
          /\ call' = [call EXCEPT ![c] = Registered(c, call[c].left \ {t})]
    /\ UNCHANGED <<ledger, overlapped, cut>>

\* record_model_call and record_tool_call raise a counter of the row and write it back,
\* with the status they read.
RecordCall(c, w) ==
    /\ workflow[w] # NoRow
    /\ Enter(c, [step |-> "counting", w |-> w, status |-> workflow[w]])

RecordNext(c) ==
    /\ call[c].step = "counting"
    /\ UpsertWorkflow(call[c].w, call[c].status)
    /\ call' = [call EXCEPT ![c] = Idle]
    /\ UNCHANGED <<ledger, overlapped, cut>>

\* The process dies inside a method; the next one it starts as is idle.
Crash(c) ==
    /\ call[c] # Idle
    /\ cut' = (cut \/ call[c].step = "logged")
    /\ call' = [call EXCEPT ![c] = Idle]
    /\ UNCHANGED <<ledger, workflow, task, owner, overlapped>>

\* The method writes the row before it appends the event.
ContinueRowFirst(c) ==
    \/ /\ call[c].step = "validated"
       /\ LET e == call[c].event
          IN  \/ e.task = None /\ UpsertWorkflow(call[c].w, e.to)
              \/ e.task # None /\ UpsertTask(e.task, call[c].w, e.to)
       /\ call' = [call EXCEPT ![c].step = "logged"]
       /\ UNCHANGED <<ledger, overlapped, cut>>
    \/ /\ call[c].step = "logged"
       /\ ledger' = [ledger EXCEPT ![call[c].w] = Append(@, call[c].event)]
       /\ call' = [call EXCEPT ![c] = Idle]
       /\ UNCHANGED <<workflow, task, owner, overlapped, cut>>
    \/ RegisterNext(c)
    \/ RecordNext(c)

\* The method goes on: the event first, then the row.
Continue(c) == AppendEvent(c) \/ Project(c) \/ RegisterNext(c) \/ RecordNext(c)

\* `dar approve` and `dar reject`: an engine of their own and one method of it.
Command(c) == \E w \in Workflows : Approve(c, w) \/ Reject(c, w)

Next ==
    \E c \in Clients :
        \/ Continue(c)
        \/ Crash(c)
        \/ Command(c)
        \/ /\ c \notin Operators
           /\ \E w \in Workflows :
                 \/ CreateWorkflow(c, w)
                 \/ \E target \in WorkflowStatus : TransitionWorkflow(c, w, target)
                 \/ \E t \in Tasks, target \in TaskStatus : TransitionTask(c, t, w, target)
                 \/ RequestApproval(c, w)
                 \/ \E plan \in SUBSET Tasks : RegisterTasks(c, w, plan)
                 \/ RecordCall(c, w)

Spec == Init /\ [][Next]_vars

----------------------------------------------------------------------------
(* Properties.                                                             *)

\* Every variable keeps its type; a row of a task has an owner.
TypeOK ==
    /\ ledger \in [Workflows -> Seq(Event)]
    /\ workflow \in [Workflows -> WorkflowStatus \cup {NoRow}]
    /\ task \in [Tasks -> TaskStatus \cup {NoRow}]
    /\ owner \in [Tasks -> Workflows \cup {None}]
    /\ call \in [Clients -> Call]
    /\ overlapped \in BOOLEAN
    /\ cut \in BOOLEAN
    /\ \A t \in Tasks : task[t] = NoRow <=> owner[t] = None

\* Event number i of workflow w is about x: a task, or None for the workflow.
About(w, x, i) == i \in 1..Len(ledger[w]) /\ ledger[w][i].task = x

\* The projection never runs ahead of the ledger: the status of a row is one that
\* some event has recorded, whatever clients overlap or die.  (A task that was
\* only registered is PENDING and has no event.)
ProjectionBacked ==
    /\ \A w \in Workflows : workflow[w] # NoRow =>
          \E i \in 1..Len(ledger[w]) :
             ledger[w][i].task = None /\ ledger[w][i].to = workflow[w]
    /\ \A t \in Tasks : task[t] \notin {NoRow, "pending"} =>
          \E w \in Workflows : \E i \in 1..Len(ledger[w]) :
             ledger[w][i].task = t /\ ledger[w][i].to = task[t]

\* The last event about x, if there is one, satisfies P.
LastAbout(w, x, P(_)) ==
    \A i \in 1..Len(ledger[w]) :
        About(w, x, i) /\ (\A j \in 1..Len(ledger[w]) : About(w, x, j) => j <= i)
            => P(ledger[w][i])

\* Some event of workflow w is about x.
Mentioned(w, x) == \E i \in 1..Len(ledger[w]) : About(w, x, i)

\* As long as calls do not overlap, a crash leaves a row at most one event behind
\* the ledger: the row of a workflow holds the status its last event leads to, or
\* the one that event started from.  The row of a task that is not PENDING does
\* so for the last event some workflow has about it: a task that two workflows
\* move has no one ledger with all its events.
ProjectionLag == ~overlapped =>
    /\ \A w \in Workflows :
          LastAbout(w, None, LAMBDA e : WorkflowCurrent(w) \in {e.from, e.to})
    /\ \A t \in Tasks : TaskCurrent(t) # "pending" =>
          \E w \in Workflows :
             /\ Mentioned(w, t)
             /\ LastAbout(w, t, LAMBDA e : TaskCurrent(t) \in {e.from, e.to})

\* As long as calls do not overlap and no client dies between an append and its
\* upsert, each event of the workflow starts where the one before it ended, so
\* each pause is answered once.
LedgerContinuous == ~overlapped /\ ~cut =>
    \A w \in Workflows : \A i, j \in 1..Len(ledger[w]) :
        /\ i < j /\ About(w, None, i) /\ About(w, None, j)
        /\ \A k \in (i + 1)..(j - 1) : ~About(w, None, k)
        => ledger[w][j].from = ledger[w][i].to

\* No approval and no rejection is recorded for a workflow that was not paused
\* before, whatever clients overlap or die.
AnswersFollowPause ==
    \A w \in Workflows : \A i \in 1..Len(ledger[w]) :
        ledger[w][i].answer \in {"approved", "rejected"} =>
            \E j \in 1..(i - 1) : ledger[w][j].task = None /\ ledger[w][j].to = "paused"
==============================================================================
