------------------------- MODULE DurableRuntimeProofs -------------------------
(***************************************************************************)
(* Theorems about run_goal, for every plan, every bound of the loop and    *)
(* every outcome of the model, the boundary and the tool calls, and about  *)
(* runs that die at any step, lose their database and are rebuilt and run  *)
(* again (module ResumedRun).  What Step keeps is stated lemma by lemma:   *)
(* the runs of the second part keep it too, for as long as they live.      *)
(***************************************************************************)
EXTENDS ResumedRun, OrchestratorProofs, FiniteSetTheorems, WellFoundedInduction

----------------------------------------------------------------------------
(* The scheduler's order.                                                  *)

\* The least of some numbers is one of them.
LEMMA FirstOfIsIn ==
    ASSUME NEW S, S \subseteq Nat, S # {}
    PROVE  FirstOf(S) \in S
  <1> DEFINE R == {ss \in Nat \X Nat : ss[1] < ss[2]}
  <1>1. PICK x \in S : \A y \in S : ~(<<y, x>> \in R)
    <2>1. IsWellFoundedOn(R, Nat)
      BY NatLessThanWellFounded DEF OpToRel
    <2> HIDE DEF R
    <2>2. QED
      BY <2>1, WFMin
  <1>2. ASSUME NEW y \in S
        PROVE  x <= y
    <2>1. <<y, x>> \notin R /\ <<y, x>> \in Nat \X Nat
      BY <1>1
    <2>2. QED
      BY <2>1
  <1>3. QED
    BY <1>2 DEF FirstOf

LEMMA MaxIterationsIsNat == MaxIterations \in Nat
  BY TasksAssumption, IterationsAssumption, FS_CardinalityType DEF MaxIterations

----------------------------------------------------------------------------
(* The engine method that is under way.                                    *)

\* A method that has an event to log or to project.
Writes == call[Runtime].step \in {"validated", "logged"}

\* The status a task has, or will have when the method that is under way returns.
Status(t) ==
    IF Writes /\ call[Runtime].event.task = t THEN call[Runtime].event.to ELSE task[t]

\* Where a run is after its registration and before its verdict.
Running == {"run", "detect", "iterate", "promote", "block", "requeue", "dispatch",
            "propose", "ask", "verify", "execute", "post", "record", "commit", "retry",
            "verdict"}

\* The method under way writes for the workflow that runs, and an event it has
\* logged is in that ledger.  Rows are registered, and task events written, only in
\* their places.
CallInv ==
    /\ call[Runtime].step # "counting"
    /\ call[Runtime] # Idle => call[Runtime].w = wf
    /\ call[Runtime].step = "registering" => pc = "plan"
    /\ pc = "plan" => ~Writes
    /\ pc \in {"create", "down"} => call[Runtime] = Idle
    /\ call[Runtime].step = "logged" => InLedger(wf, call[Runtime].event)
    /\ Writes /\ call[Runtime].event.task # None => pc \in Running
    /\ Writes /\ pc = "execute" => call[Runtime].event.task = current

LEMMA RuntimeIsClient == Runtime \in Clients
  BY RuntimeAssumption

LEMMA IdleShape == Idle.step = "idle" /\ Idle \in Call
  BY DEF Idle, Call

\* Between two methods a task has the status of its row.
LEMMA ReadyStatus ==
    ASSUME Ready
    PROVE  \A u \in Tasks : Status(u) = task[u]
  BY IdleShape DEF Ready, Status, Writes

LEMMA ReadyNoEngine ==
    ASSUME Ready
    PROVE  ~EngineStep
  BY IdleShape DEF Ready, EngineStep, Continue, AppendEvent, Project, RegisterNext, RecordNext

\* A method for a task begins: its event is validated against the row.
LEMMA TaskCallBegins ==
    ASSUME RunTypeOK, NEW t \in Tasks, NEW target \in TaskStatus, SetTask(t, target)
    PROVE  /\ Ready /\ Writes'
           /\ call'[Runtime] = [step |-> "validated", w |-> wf,
                                event |-> TaskEvent(t, TaskCurrent(t), target)]
           /\ call'[Runtime].event.task = t /\ call'[Runtime].event.to = target
           /\ call'[Runtime].w = wf /\ call'[Runtime].step = "validated"
           /\ UNCHANGED <<ledger, workflow, task, owner>>
           /\ target \in TASK_TRANSITIONS[TaskCurrent(t)]
           /\ Len(ledger[wf]) < MaxLedger
           /\ \A u \in Tasks : Status(u)' = IF u = t THEN target ELSE Status(u)
           /\ TypeOK'
  <1> DEFINE e == TaskEvent(t, TaskCurrent(t), target)
             x == [step |-> "validated", w |-> wf, event |-> e]
  <1>1. /\ call[Runtime] = Idle /\ call' = [call EXCEPT ![Runtime] = x]
        /\ UNCHANGED <<ledger, workflow, task, owner>>
        /\ target \in TASK_TRANSITIONS[TaskCurrent(t)]
        /\ Len(ledger[wf]) < MaxLedger
        /\ Validated(Runtime, wf, e)
    BY DEF SetTask, TransitionTask, Validated, Enter, CanTransitionTask
  <1>2. call'[Runtime] = x
    BY <1>1, RuntimeIsClient DEF RunTypeOK, TypeOK
  <1>3. e.task = t /\ e.to = target
    BY DEF TaskEvent
  <1>4. e \in Event
    BY CurrentTyped, TaskEventTyped DEF RunTypeOK
  <1>5. TypeOK'
    BY <1>1, <1>4, ValidatedTyped, RuntimeIsClient DEF RunTypeOK
  <1> HIDE DEF e
  <1>6. /\ Writes' /\ call'[Runtime].event = e
        /\ call'[Runtime].w = wf /\ call'[Runtime].step = "validated"
    BY <1>2 DEF Writes
  <1>7. Ready
    BY <1>1 DEF Ready
  <1>8. ASSUME NEW u \in Tasks
        PROVE  Status(u)' = IF u = t THEN target ELSE Status(u)
    BY <1>1, <1>3, <1>6, <1>7, ReadyStatus DEF Status
  <1>9. QED
    BY <1>1, <1>2, <1>3, <1>5, <1>6, <1>7, <1>8 DEF e

\* A method for the workflow begins.
LEMMA WorkflowCallBegins ==
    ASSUME RunTypeOK, NEW from \in WorkflowStatus, NEW to \in WorkflowStatus,
           Validated(Runtime, wf, WorkflowEvent(from, to, "none"))
    PROVE  /\ Ready /\ Writes'
           /\ call'[Runtime].event.task = None /\ call'[Runtime].event.to = to
           /\ call'[Runtime].w = wf /\ call'[Runtime].step = "validated"
           /\ UNCHANGED <<ledger, workflow, task, owner>>
           /\ Len(ledger[wf]) < MaxLedger
           /\ \A u \in Tasks : Status(u)' = Status(u)
           /\ TypeOK'
  <1> DEFINE e == WorkflowEvent(from, to, "none")
             x == [step |-> "validated", w |-> wf, event |-> e]
  <1>1. /\ call[Runtime] = Idle /\ call' = [call EXCEPT ![Runtime] = x]
        /\ UNCHANGED <<ledger, workflow, task, owner>>
        /\ Len(ledger[wf]) < MaxLedger
    BY DEF Validated, Enter
  <1>2. call'[Runtime] = x
    BY <1>1, RuntimeIsClient DEF RunTypeOK, TypeOK
  <1>3. e.task = None /\ e.to = to
    BY DEF WorkflowEvent
  <1>4. e \in Event
    BY WorkflowEventTyped DEF Answers
  <1>5. TypeOK'
    BY <1>4, ValidatedTyped, RuntimeIsClient DEF RunTypeOK
  <1> HIDE DEF e
  <1>6. /\ Writes' /\ call'[Runtime].event = e
        /\ call'[Runtime].w = wf /\ call'[Runtime].step = "validated"
    BY <1>2 DEF Writes
  <1>7. Ready
    BY <1>1 DEF Ready
  <1>8. ASSUME NEW u \in Tasks
        PROVE  Status(u)' = Status(u)
    <2>1. u # None
      BY NoneIsNoTask
    <2>2. QED
      BY <1>1, <1>3, <1>6, <1>7, <2>1, ReadyStatus DEF Status
  <1>9. QED
    BY <1>1, <1>3, <1>5, <1>6, <1>7, <1>8

\* create_workflow and transition_workflow are such methods.
LEMMA CreateCallBegins ==
    ASSUME CreateWorkflow(Runtime, wf)
    PROVE  Validated(Runtime, wf, WorkflowEvent("created", "created", "none"))
  BY DEF CreateWorkflow

LEMMA SetWorkflowBegins ==
    ASSUME RunTypeOK, NEW target, SetWorkflow(target)
    PROVE  /\ Validated(Runtime, wf, WorkflowEvent(WorkflowCurrent(wf), target, "none"))
           /\ WorkflowCurrent(wf) \in WorkflowStatus
  BY CurrentTyped DEF SetWorkflow, TransitionWorkflow, RunTypeOK

\* The method goes on with its event, with the row the event asks for, or with the
\* next row of a registration.
LEMMA EngineCases ==
    ASSUME RunTypeOK, CallInv, EngineStep
    PROVE  /\ AppendEvent(Runtime) \/ Project(Runtime) \/ RegisterNext(Runtime)
           /\ UNCHANGED <<deps, idempotency, effects, pc, wf, iteration, promoted, retried,
                          todo, current, succeeded>>
           /\ TypeOK'
  <1>1. Continue(Runtime) /\ ~RecordNext(Runtime)
    BY DEF EngineStep, CallInv, RecordNext
  <1>2. TypeOK'
    BY <1>1, RuntimeIsClient, AppendEventTyped, ProjectTyped, RegisterNextTyped
       DEF Continue, RunTypeOK
  <1>3. QED
    BY <1>1, <1>2 DEF Continue, EngineStep, runVars, storeVars

LEMMA AppendStep ==
    ASSUME RunTypeOK, CallInv, AppendEvent(Runtime)
    PROVE  /\ Writes /\ Writes' /\ call[Runtime].step = "validated"
           /\ call'[Runtime].step = "logged" /\ call'[Runtime].w = wf
           /\ call'[Runtime].event = call[Runtime].event /\ call[Runtime].event \in Event
           /\ ledger' = [ledger EXCEPT ![wf] = Append(ledger[wf], call[Runtime].event)]
           /\ UNCHANGED <<workflow, task, owner>>
           /\ \A u \in Tasks : Status(u)' = Status(u)
  <1> DEFINE c == call[Runtime]
  <1>1. c \in Writing /\ c.event \in Event /\ c.step = "validated"
    BY CallShape, RuntimeIsClient DEF AppendEvent, RunTypeOK, TypeOK
  <1>2. c.w = wf
    BY <1>1, IdleShape DEF CallInv
  <1>3. call'[Runtime] = [c EXCEPT !.step = "logged"]
    BY RuntimeIsClient DEF AppendEvent, RunTypeOK, TypeOK
  <1>4. /\ call'[Runtime].step = "logged" /\ call'[Runtime].w = c.w
        /\ call'[Runtime].event = c.event
    BY <1>1, <1>3 DEF Writing
  <1>5. UNCHANGED <<workflow, task, owner>> /\ Writes /\ Writes'
    BY <1>1, <1>4 DEF AppendEvent, Writes
  <1>6. ledger' = [ledger EXCEPT ![wf] = Append(ledger[wf], c.event)]
    BY <1>2 DEF AppendEvent
  <1>7. ASSUME NEW u \in Tasks
        PROVE  Status(u)' = Status(u)
    BY <1>4, <1>5 DEF Status
  <1>8. QED
    BY <1>1, <1>2, <1>4, <1>5, <1>6, <1>7

LEMMA ProjectStep ==
    ASSUME RunTypeOK, CallInv, Project(Runtime)
    PROVE  /\ Writes /\ call[Runtime].step = "logged" /\ call[Runtime].event \in Event
           /\ call'[Runtime] = Idle /\ ~Writes' /\ Ready'
           /\ UNCHANGED ledger
           /\ call[Runtime].event.task = None =>
                /\ workflow' = [workflow EXCEPT ![wf] = call[Runtime].event.to]
                /\ UNCHANGED <<task, owner>>
           /\ call[Runtime].event.task # None =>
                /\ call[Runtime].event.task \in Tasks
                /\ task' = [task EXCEPT ![call[Runtime].event.task] = call[Runtime].event.to]
                /\ UNCHANGED workflow
                /\ owner' = [owner EXCEPT ![call[Runtime].event.task] =
                       IF task[call[Runtime].event.task] = NoRow THEN wf ELSE @]
           /\ \A u \in Tasks : Status(u)' = Status(u)
  <1> DEFINE c == call[Runtime]
             e == call[Runtime].event
  <1>1. c \in Writing /\ e \in Event /\ c.step = "logged" /\ Writes
    BY CallShape, RuntimeIsClient DEF Project, RunTypeOK, TypeOK, Writes
  <1>2. c.w = wf
    BY <1>1, IdleShape DEF CallInv
  <1>3. call'[Runtime] = Idle /\ UNCHANGED ledger
    BY RuntimeIsClient DEF Project, RunTypeOK, TypeOK
  <1>4. ~Writes' /\ Ready'
    BY <1>3, IdleShape DEF Writes, Ready
  <1>5. CASE e.task = None
    <2>1. workflow' = [workflow EXCEPT ![wf] = e.to] /\ UNCHANGED <<task, owner>>
      BY <1>2, <1>5 DEF Project, UpsertWorkflow
    <2>2. ASSUME NEW u \in Tasks
          PROVE  Status(u)' = Status(u)
      BY <1>4, <1>5, <2>1, NoneIsNoTask DEF Status
    <2>3. QED
      BY <1>1, <1>3, <1>4, <1>5, <2>1, <2>2
  <1>6. CASE e.task # None
    <2>1. /\ task' = [task EXCEPT ![e.task] = e.to] /\ UNCHANGED workflow
          /\ owner' = [owner EXCEPT ![e.task] = IF task[e.task] = NoRow THEN wf ELSE @]
      BY <1>2, <1>6 DEF Project, UpsertTask
    <2>2. e.task \in Tasks
      BY <1>1, <1>6, EventShape
    <2> HIDE DEF e
    <2>3. ASSUME NEW u \in Tasks
          PROVE  task'[u] = IF e.task = u THEN e.to ELSE task[u]
      BY <2>1, <2>2 DEF RunTypeOK, TypeOK
    <2>4. ASSUME NEW u \in Tasks
          PROVE  Status(u)' = Status(u)
      BY <1>1, <1>4, <2>3 DEF Status, e
    <2>5. QED
      BY <1>1, <1>3, <1>4, <1>6, <2>1, <2>2, <2>4 DEF e
  <1>7. QED
    BY <1>5, <1>6

LEMMA RegisterStep ==
    ASSUME RunTypeOK, CallInv, RegisterNext(Runtime)
    PROVE  /\ pc = "plan" /\ ~Writes /\ ~Writes' /\ call[Runtime].left \subseteq Tasks
           /\ UNCHANGED <<ledger, workflow>>
           /\ \E t \in call[Runtime].left :
                 /\ task' = [task EXCEPT ![t] = "pending"]
                 /\ owner' = [owner EXCEPT ![t] = IF task[t] = NoRow THEN wf ELSE @]
                 /\ call'[Runtime] = IF call[Runtime].left \ {t} = {} THEN Idle
                        ELSE [step |-> "registering", w |-> wf,
                              left |-> call[Runtime].left \ {t}]
  <1>1. /\ call[Runtime].step = "registering" /\ call[Runtime].left \subseteq Tasks
        /\ pc = "plan" /\ call[Runtime].w = wf
    BY CallShape, RuntimeIsClient, IdleShape
       DEF RegisterNext, RunTypeOK, TypeOK, CallInv
  <1>2. PICK t \in call[Runtime].left :
           /\ UpsertTask(t, wf, "pending")
           /\ call' = [call EXCEPT ![Runtime] = Registered(Runtime, call[Runtime].left \ {t})]
    BY <1>1 DEF RegisterNext
  <1>3. call'[Runtime] = IF call[Runtime].left \ {t} = {} THEN Idle
                         ELSE [step |-> "registering", w |-> wf,
                               left |-> call[Runtime].left \ {t}]
    BY <1>1, <1>2, RuntimeIsClient DEF Registered, RunTypeOK, TypeOK
  <1>4. ~Writes /\ ~Writes'
    BY <1>1, <1>3, IdleShape DEF Writes
  <1>5. UNCHANGED ledger
    BY DEF RegisterNext
  <1>6. QED
    BY <1>1, <1>2, <1>3, <1>4, <1>5 DEF UpsertTask

----------------------------------------------------------------------------
(* The kinds of steps.                                                     *)

\* From where to where a run goes when it changes the status of its workflow.
WorkflowMoves == {<<"create", "compile">>, <<"compile", "register">>, <<"plan", "run">>,
                  <<"run", "detect">>, <<"detect", "done">>, <<"verdict", "done">>}

LEMMA FirstOfTodo ==
    ASSUME RunTypeOK, todo # {}
    PROVE  FirstOf(todo) \in todo /\ FirstOf(todo) \in Tasks
  BY FirstOfIsIn, TasksAssumption DEF RunTypeOK

\* A step of run_goal is the engine's, registers the plan, changes nothing the
\* engine has, or begins a method for a task or for the workflow.
LEMMA StepKinds ==
    ASSUME RunTypeOK, Step
    PROVE  /\ UNCHANGED <<wf, deps>>
           /\ \/ EngineStep
              \/ Register
              \/ Ready /\ UNCHANGED vars /\ pc \in Running /\ pc' \in Running
              \/ /\ pc \in Running /\ pc' \in Running
                 /\ \E t \in Tasks : \E target \in TaskStatus : SetTask(t, target)
              \/ /\ <<pc, pc'>> \in WorkflowMoves
                 /\ \E from, to \in WorkflowStatus :
                       Validated(Runtime, wf, WorkflowEvent(from, to, "none"))
  <1> USE DEF Goto, runVars, storeVars
  <1>1. CASE EngineStep
    BY <1>1 DEF EngineStep
  <1>2. CASE Register
    BY <1>2 DEF Register
  <1>3. CASE StartRun
    BY <1>3, CreateCallBegins DEF StartRun, WorkflowMoves, WorkflowStatus
  <1>4. CASE Compile \/ Plan \/ Run
    <2>1. PICK target \in {"compiled", "planned", "running"} : SetWorkflow(target)
      BY <1>4 DEF Compile, Plan, Run
    <2>2. <<pc, pc'>> \in WorkflowMoves /\ UNCHANGED <<wf, deps>>
      BY <1>4 DEF Compile, Plan, Run, WorkflowMoves
    <2>3. QED
      BY <2>1, <2>2, SetWorkflowBegins DEF WorkflowStatus
  <1>5. CASE DetectCycles
    <2>1. CASE SetWorkflow("failed") /\ pc' = "done"
      BY <1>5, <2>1, SetWorkflowBegins DEF DetectCycles, WorkflowMoves, WorkflowStatus
    <2>2. CASE UNCHANGED vars /\ pc' = "iterate"
      BY <1>5, <2>2 DEF DetectCycles, Running
    <2>3. QED
      BY <1>5, <2>1, <2>2 DEF DetectCycles
  <1>6. CASE Decide
    <2>1. PICK target \in {"completed", "failed"} : SetWorkflow(target)
      BY <1>6 DEF Decide
    <2>2. <<pc, pc'>> \in WorkflowMoves /\ UNCHANGED <<wf, deps>>
      BY <1>6 DEF Decide, WorkflowMoves
    <2>3. QED
      BY <2>1, <2>2, SetWorkflowBegins DEF WorkflowStatus
  <1>7. CASE Iterate \/ BeginRequeue \/ SelectReady \/ EndIteration \/ Execute
             \/ RecordIdempotency
    BY <1>7 DEF Iterate, BeginRequeue, Visit, SelectReady, EndIteration, Execute,
                RecordIdempotency, Running
  <1>8. CASE Promote
    <2>1. FirstOf(todo) \in Tasks
      BY <1>8, FirstOfTodo DEF Promote
    <2>2. UNCHANGED <<wf, deps>> /\ Ready /\ pc = "promote"
      BY <1>8 DEF Promote
    <2>3. \/ SetTask(FirstOf(todo), "ready") /\ pc' \in {"promote", "block"}
          \/ UNCHANGED vars /\ pc' = "promote"
      BY <1>8 DEF Promote
    <2>4. QED
      BY <2>1, <2>2, <2>3 DEF TaskStatus, Running
  <1>9. CASE Requeue \/ Claim
    <2>1. PICK t \in Tasks : SetTask(t, "ready") \/ SetTask(t, "claimed")
      BY <1>9 DEF Requeue, Claim, RunTypeOK
    <2>2. UNCHANGED <<wf, deps>> /\ pc \in Running /\ pc' \in Running
      BY <1>9 DEF Requeue, Claim, Running
    <2>3. QED
      BY <2>1, <2>2 DEF TaskStatus
  <1>10. CASE Block \/ Propose \/ AskModel \/ Verify \/ PostVerify \/ CommitTask
              \/ RetryLater
    <2>1. PICK target \in TaskStatus : SetTask(current, target)
      BY <1>10 DEF Block, Propose, AskModel, Verify, PostVerify, CommitTask, RetryLater,
                   TaskStatus
    <2>2. UNCHANGED <<wf, deps>> /\ pc \in Running /\ pc' \in Running
      BY <1>10 DEF Block, Propose, AskModel, Verify, PostVerify, CommitTask, RetryLater,
                   Running
    <2>3. QED
      BY <2>1, <2>2 DEF RunTypeOK
  <1>11. QED
    BY <1>1, <1>2, <1>3, <1>4, <1>5, <1>6, <1>7, <1>8, <1>9, <1>10
       DEF Step, Setup, Schedule, Work

\* register_tasks begins with every task of the plan.
LEMMA RegisterBegins ==
    ASSUME RunTypeOK, Register
    PROVE  /\ Ready /\ call'[Runtime] = [step |-> "registering", w |-> wf, left |-> Tasks]
           /\ UNCHANGED <<ledger, workflow, task, owner>>
           /\ pc = "register" /\ pc' = "plan" /\ ~Writes /\ ~Writes'
           /\ call'[Runtime].step = "registering"
           /\ TypeOK'
  <1> DEFINE x == [step |-> "registering", w |-> wf, left |-> Tasks]
  <1>1. /\ Enter(Runtime, x) /\ call[Runtime] = Idle
        /\ call' = [call EXCEPT ![Runtime] = x]
        /\ UNCHANGED <<ledger, workflow, task, owner>>
        /\ pc = "register" /\ pc' = "plan"
    BY DEF Register, RegisterTasks, Enter, Goto
  <1>2. x \in Call /\ x.step = "registering"
    BY DEF Call, RunTypeOK
  <1>3. TypeOK'
    BY <1>1, <1>2, EnterTyped, RuntimeIsClient DEF RunTypeOK
  <1>4. call'[Runtime] = x
    BY <1>1, RuntimeIsClient DEF RunTypeOK, TypeOK
  <1>5. QED
    BY <1>1, <1>2, <1>3, <1>4, IdleShape DEF Ready, Writes

LEMMA StepTypesEngine ==
    ASSUME RunTypeOK, CallInv, Step
    PROVE  TypeOK'
  <1>1. CASE EngineStep
    BY <1>1, EngineCases
  <1>2. CASE Register
    BY <1>2, RegisterBegins
  <1>3. CASE UNCHANGED vars
    BY <1>3 DEF vars, TypeOK, RunTypeOK
  <1>4. ASSUME NEW t \in Tasks, NEW target \in TaskStatus, SetTask(t, target)
        PROVE  TypeOK'
    BY <1>4, TaskCallBegins
  <1>5. ASSUME NEW from \in WorkflowStatus, NEW to \in WorkflowStatus,
               Validated(Runtime, wf, WorkflowEvent(from, to, "none"))
        PROVE  TypeOK'
    BY <1>5, WorkflowCallBegins
  <1>6. QED
    BY <1>1, <1>2, <1>3, <1>4, <1>5, StepKinds

\* Every step of run_goal keeps the types, and the loop within its bound.
LEMMA StepTypes ==
    ASSUME RunTypeOK, CallInv, Step
    PROVE  RunTypeOK'
  <1> USE DEF Goto, runVars, storeVars
  <1>1. TypeOK' /\ UNCHANGED <<wf, deps>>
    BY StepTypesEngine, StepKinds
  <1>2. CASE EngineStep
    BY <1>1, <1>2, EngineCases DEF RunTypeOK
  <1>3. CASE Setup
    BY <1>1, <1>3 DEF RunTypeOK, Setup, StartRun, Compile, Register, Plan, Run, DetectCycles
  <1>4. CASE Iterate
    <2>1. iteration' \in 0..MaxIterations
      BY <1>4, MaxIterationsIsNat DEF Iterate, RunTypeOK
    <2>2. QED
      BY <1>1, <1>4, <2>1 DEF Iterate, RunTypeOK
  <1>5. CASE Promote
    BY <1>1, <1>5, FirstOfTodo DEF Promote, RunTypeOK
  <1>6. CASE Block \/ BeginRequeue \/ Requeue \/ SelectReady \/ EndIteration
    BY <1>1, <1>6 DEF Block, BeginRequeue, Visit, Requeue, SelectReady, EndIteration, Owned,
                      RunTypeOK
  <1>7. CASE Claim \/ Propose \/ AskModel \/ Verify \/ PostVerify \/ CommitTask
             \/ RetryLater \/ Decide
    BY <1>1, <1>7 DEF Claim, Propose, AskModel, Verify, PostVerify, CommitTask, RetryLater,
                      Decide, RunTypeOK
  <1>8. CASE Execute
    <2>1. effects' \in [Tasks -> Nat] /\ succeeded' \in BOOLEAN
      BY <1>8 DEF Execute, RunTypeOK
    <2>2. QED
      BY <1>1, <1>8, <2>1 DEF Execute, RunTypeOK
  <1>9. CASE RecordIdempotency
    BY <1>1, <1>9 DEF RecordIdempotency, Record, RunTypeOK
  <1>10. QED
    BY <1>2, <1>3, <1>4, <1>5, <1>6, <1>7, <1>8, <1>9 DEF Step, Schedule, Work

----------------------------------------------------------------------------
(* The ledger.                                                             *)

\* Only the engine's append changes a ledger.
LEMMA LedgerStep ==
    ASSUME RunTypeOK, CallInv, Step
    PROVE  UNCHANGED ledger \/ (EngineStep /\ AppendEvent(Runtime))
  <1>1. CASE EngineStep
    BY <1>1, EngineCases, ProjectStep, RegisterStep
  <1>2. CASE Register
    BY <1>2, RegisterBegins
  <1>3. CASE UNCHANGED vars
    BY <1>3 DEF vars
  <1>4. ASSUME NEW t \in Tasks, NEW target \in TaskStatus, SetTask(t, target)
        PROVE  UNCHANGED ledger
    BY <1>4, TaskCallBegins
  <1>5. ASSUME NEW from \in WorkflowStatus, NEW to \in WorkflowStatus,
               Validated(Runtime, wf, WorkflowEvent(from, to, "none"))
        PROVE  UNCHANGED ledger
    BY <1>5, WorkflowCallBegins
  <1>6. QED
    BY <1>1, <1>2, <1>3, <1>4, <1>5, StepKinds

\* What an append does to the ledger of the workflow that runs.
LEMMA AppendToLedger ==
    ASSUME RunTypeOK, CallInv, AppendEvent(Runtime)
    PROVE  /\ \A w \in Workflows :
                 /\ Len(ledger[w]) \in Nat /\ Len(ledger[w]) <= Len(ledger'[w])
                 /\ \A i \in 1..Len(ledger[w]) : ledger'[w][i] = ledger[w][i]
                 /\ w # wf => ledger'[w] = ledger[w]
           /\ Len(ledger'[wf]) = Len(ledger[wf]) + 1
           /\ ledger'[wf][Len(ledger[wf]) + 1] = call[Runtime].event
  <1> DEFINE e == call[Runtime].event
  <1>1. ledger' = [ledger EXCEPT ![wf] = Append(ledger[wf], e)] /\ e \in Event
    BY AppendStep
  <1>2. ledger \in [Workflows -> Seq(Event)] /\ wf \in Workflows
    BY DEF RunTypeOK, TypeOK
  <1> HIDE DEF e
  <1>3. /\ ledger'[wf] = Append(ledger[wf], e)
        /\ \A w \in Workflows : w # wf => ledger'[w] = ledger[w]
    BY <1>1, <1>2
  <1>4. /\ Len(ledger'[wf]) = Len(ledger[wf]) + 1
        /\ ledger'[wf][Len(ledger[wf]) + 1] = e
        /\ \A i \in 1..Len(ledger[wf]) : ledger'[wf][i] = ledger[wf][i]
    BY <1>1, <1>2, <1>3
  <1>5. \A w \in Workflows : Len(ledger[w]) \in Nat
    BY <1>2
  <1>6. QED
    BY <1>2, <1>3, <1>4, <1>5 DEF e

\* What is recorded stays recorded.
LEMMA StaysRecorded ==
    ASSUME RunTypeOK, CallInv, Step, NEW w \in Workflows, NEW t, NEW s, EverRecorded(w, t, s)
    PROVE  EverRecorded(w, t, s)'
  <1>1. CASE UNCHANGED ledger
    BY <1>1 DEF EverRecorded, Recorded
  <1>2. CASE AppendEvent(Runtime)
    <2>1. Len(ledger[w]) \in Nat /\ Len(ledger'[w]) \in Nat
      BY <1>2, AppendToLedger, StepTypesEngine DEF TypeOK
    <2>2. PICK i \in 1..Len(ledger[w]) : ledger[w][i].task = t /\ ledger[w][i].to = s
      BY <2>1 DEF EverRecorded, Recorded
    <2>3. i \in 1..Len(ledger'[w]) /\ ledger'[w][i] = ledger[w][i]
      BY <1>2, <2>1, AppendToLedger
    <2>4. QED
      BY <2>1, <2>2, <2>3 DEF EverRecorded, Recorded
  <1>3. QED
    BY <1>1, <1>2, LedgerStep

\* An event of the ledger is recorded.
LEMMA InLedgerIsRecorded ==
    ASSUME RunTypeOK, NEW w \in Workflows, NEW e, InLedger(w, e)
    PROVE  EverRecorded(w, e.task, e.to)
  <1>1. Len(ledger[w]) \in Nat
    BY DEF RunTypeOK, TypeOK
  <1>2. QED
    BY <1>1 DEF InLedger, EverRecorded, Recorded

LEMMA StepCall ==
    ASSUME RunTypeOK, CallInv, Step
    PROVE  CallInv'
  <1>1. CASE EngineStep
    <2>1. UNCHANGED <<pc, wf, current>>
      BY <1>1, EngineCases
    <2>2. CASE AppendEvent(Runtime)
      <3>1. InLedger(wf, call[Runtime].event)'
        <4>1. wf' = wf /\ wf \in Workflows /\ call'[Runtime].event = call[Runtime].event
          BY <2>1, <2>2, AppendStep DEF RunTypeOK
        <4>2. Len(ledger[wf]) + 1 \in 1..Len(ledger'[wf])
          BY <2>2, <4>1, AppendToLedger
        <4>3. QED
          BY <2>2, <4>1, <4>2, AppendToLedger DEF InLedger
      <3>2. QED
        BY <2>1, <2>2, <3>1, AppendStep, IdleShape DEF CallInv
    <2>3. CASE Project(Runtime)
      BY <2>1, <2>3, ProjectStep, IdleShape DEF CallInv
    <2>4. CASE RegisterNext(Runtime)
      <3>1. PICK t \in call[Runtime].left :
               call'[Runtime] = IF call[Runtime].left \ {t} = {} THEN Idle
                   ELSE [step |-> "registering", w |-> wf, left |-> call[Runtime].left \ {t}]
        BY <2>4, RegisterStep
      <3>2. QED
        BY <2>1, <2>4, <3>1, RegisterStep, IdleShape DEF CallInv
    <2>5. QED
      BY <1>1, <2>2, <2>3, <2>4, EngineCases
  <1>2. CASE Register
    BY <1>2, RegisterBegins, StepKinds DEF CallInv, Running
  <1>3. CASE Ready /\ UNCHANGED vars /\ pc' \in Running
    BY <1>3, StepKinds, IdleShape DEF Ready, vars, CallInv, Running, Writes
  <1>4. CASE \E t \in Tasks : \E target \in TaskStatus :
                SetTask(t, target) /\ pc \in Running /\ pc' \in Running
    <2>1. PICK t \in Tasks, target \in TaskStatus : SetTask(t, target)
      BY <1>4
    <2>2. pc' = "execute" => t = current'
      <3>1. SUFFICES ASSUME pc' = "execute"
                     PROVE  t = current'
        OBVIOUS
      <3>2. ~EngineStep
        BY <2>1, TaskCallBegins, ReadyNoEngine
      <3>3. SetTask(current, "executing") /\ current' = current
        BY <3>1, <3>2
           DEF Step, Setup, StartRun, Compile, Register, Plan, Run, DetectCycles, Schedule,
               Iterate, Promote, Block, BeginRequeue, Visit, Requeue, SelectReady,
               EndIteration, Work, Claim, Propose, AskModel, Verify, Execute, PostVerify,
               RecordIdempotency, CommitTask, RetryLater, Decide, Goto
      <3>4. QED
        BY <2>1, <3>3, TaskCallBegins DEF TaskStatus, RunTypeOK
    <2>3. QED
      BY <1>4, <2>1, <2>2, TaskCallBegins, StepKinds DEF CallInv, Running
  <1>5. CASE \E from, to \in WorkflowStatus :
                /\ Validated(Runtime, wf, WorkflowEvent(from, to, "none"))
                /\ <<pc, pc'>> \in WorkflowMoves
    BY <1>5, WorkflowCallBegins, StepKinds DEF CallInv, WorkflowMoves
  <1>6. QED
    BY <1>1, <1>2, <1>3, <1>4, <1>5, StepKinds

----------------------------------------------------------------------------
(* The rows of the run.                                                    *)

\* Where the loop over the ready tasks is under way.
Dispatching == {"dispatch", "propose", "ask", "verify", "execute", "post", "record",
                "commit", "retry"}

\* The task at work has the status its place says, and the tasks a loop has still to
\* visit have the status it selected them for.
Placed ==
    /\ pc = "block" => Status(current) = "ready"
    /\ pc = "propose" => Status(current) = "claimed"
    /\ pc = "ask" => Status(current) = "proposing"
    /\ pc = "verify" => Status(current) = "verifying"
    /\ pc \in {"execute", "post"} => Status(current) = "executing"
    /\ pc \in {"record", "commit", "retry"} => Status(current) = "post_verifying"
    /\ pc = "requeue" => \A t \in todo : Status(t) = "retry_wait"
    /\ pc \in Dispatching => \A t \in todo : Status(t) = "ready"

\* A registration leaves every task of the plan pending.
PlanInv == pc = "plan" =>
    /\ Ready => \A t \in Tasks : task[t] = "pending"
    /\ ~Ready => \A t \in Tasks : t \in call[Runtime].left \/ task[t] = "pending"

\* A task that is committed was committed by this run.
CommitSeen == pc \in Running =>
    \A t \in Tasks : task[t] = "committed" => EverRecorded(wf, t, "committed")

\* The statuses in which a task is being worked on.
Going == {"claimed", "proposing", "verifying", "executing", "post_verifying", "retry_wait"}

\* A task is worked on only when what it depends on is committed in this run.
Eligible(t) == \A d \in deps[t] : EverRecorded(wf, d, "committed")
PromotedInv == pc \in Running =>
    \A t \in Tasks :
        \/ Status(t) \in Going
        \/ Status(t) = "ready" /\ ~(pc = "block" /\ t = current)
        => Eligible(t)

RowsInv == RunTypeOK /\ CallInv /\ PlanInv /\ CommitSeen /\ Placed /\ PromotedInv

LEMMA StepPlan ==
    ASSUME RowsInv, Step
    PROVE  PlanInv'
  <1> USE DEF RowsInv
  <1>1. SUFFICES ASSUME pc' = "plan"
                 PROVE  /\ Ready' => \A t \in Tasks : task'[t] = "pending"
                        /\ ~Ready' => \A t \in Tasks :
                                         t \in call'[Runtime].left \/ task'[t] = "pending"
    BY DEF PlanInv
  <1>2. CASE Register
    BY <1>2, RegisterBegins, IdleShape DEF Ready
  <1>3. CASE EngineStep
    <2>1. pc = "plan" /\ RegisterNext(Runtime)
      BY <1>1, <1>3, EngineCases, AppendStep, ProjectStep DEF CallInv
    <2>2. PICK t \in call[Runtime].left :
             /\ task' = [task EXCEPT ![t] = "pending"]
             /\ call'[Runtime] = IF call[Runtime].left \ {t} = {} THEN Idle
                    ELSE [step |-> "registering", w |-> wf, left |-> call[Runtime].left \ {t}]
      BY <2>1, RegisterStep
    <2>3. ~Ready
      BY <1>3, ReadyNoEngine
    <2>4. \A u \in Tasks : u \in call[Runtime].left \ {t} \/ task'[u] = "pending"
      BY <2>1, <2>2, <2>3 DEF PlanInv, RunTypeOK, TypeOK
    <2>5. QED
      BY <2>2, <2>4, IdleShape DEF Ready
  <1>4. QED
    BY <1>1, <1>2, <1>3, StepKinds DEF WorkflowMoves, Running

\* Before its registration is over a run has no task; then all are pending.
LEMMA BeginsToRun ==
    ASSUME RowsInv, Step, pc \notin Running, pc' \in Running
    PROVE  /\ pc = "plan" /\ pc' = "run" /\ Ready
           /\ \A t \in Tasks : Status(t)' = "pending" /\ task'[t] = "pending"
  <1> USE DEF RowsInv
  <1>1. Plan
    BY StepKinds, EngineCases
       DEF Step, Setup, StartRun, Compile, Register, Run, DetectCycles, Schedule, Iterate,
           Promote, Block, BeginRequeue, Visit, Requeue, SelectReady, EndIteration, Work,
           Claim, Propose, AskModel, Verify, Execute, PostVerify, RecordIdempotency,
           CommitTask, RetryLater, Decide, Goto, Running
  <1>2. /\ SetWorkflow("planned") /\ pc = "plan" /\ pc' = "run"
    BY <1>1 DEF Plan, Goto
  <1>3. /\ Ready /\ task' = task /\ \A t \in Tasks : Status(t)' = Status(t)
    BY <1>2, SetWorkflowBegins, WorkflowCallBegins DEF WorkflowStatus
  <1>4. \A t \in Tasks : task[t] = "pending"
    BY <1>2, <1>3 DEF PlanInv
  <1>5. QED
    BY <1>2, <1>3, <1>4, ReadyStatus

LEMMA StepCommitSeen ==
    ASSUME RowsInv, Step
    PROVE  CommitSeen'
  <1> USE DEF RowsInv
  <1>1. SUFFICES ASSUME pc' \in Running, NEW t \in Tasks, task'[t] = "committed"
                 PROVE  EverRecorded(wf, t, "committed")'
    BY DEF CommitSeen
  <1>2. UNCHANGED wf /\ wf \in Workflows
    BY StepKinds DEF RunTypeOK
  <1>3. CASE EverRecorded(wf, t, "committed")
    BY <1>2, <1>3, StaysRecorded
  <1>4. CASE pc \notin Running
    BY <1>1, <1>4, BeginsToRun
  <1>5. CASE pc \in Running /\ EngineStep
    <2>1. CASE UNCHANGED task
      BY <1>1, <1>3, <1>5, <2>1 DEF CommitSeen
    <2>2. CASE Project(Runtime) /\ call[Runtime].event.task # None
      <3>1. /\ task' = [task EXCEPT ![call[Runtime].event.task] = call[Runtime].event.to]
            /\ InLedger(wf, call[Runtime].event)
        BY <2>2, ProjectStep DEF CallInv
      <3>2. CASE t = call[Runtime].event.task
        <4>1. EverRecorded(wf, call[Runtime].event.task, call[Runtime].event.to)
          BY <1>2, <3>1, InLedgerIsRecorded
        <4>2. call[Runtime].event.to = "committed"
          BY <1>1, <3>1, <3>2 DEF RunTypeOK, TypeOK
        <4>3. QED
          BY <1>3, <3>2, <4>1, <4>2
      <3>3. CASE t # call[Runtime].event.task
        BY <1>1, <1>3, <1>5, <3>1, <3>3 DEF CommitSeen, RunTypeOK, TypeOK
      <3>4. QED
        BY <3>2, <3>3
    <2>3. QED
      BY <1>5, <2>1, <2>2, EngineCases, AppendStep, ProjectStep, RegisterStep DEF Running
  <1>6. CASE pc \in Running /\ ~EngineStep
    <2>1. UNCHANGED task
      BY <1>6, StepKinds, RegisterBegins, TaskCallBegins, WorkflowCallBegins DEF vars
    <2>2. QED
      BY <1>1, <1>3, <1>6, <2>1 DEF CommitSeen
  <1>7. QED
    BY <1>4, <1>5, <1>6

\* What a step of the engine leaves alone once the run has its tasks.
LEMMA EngineKeepsStatus ==
    ASSUME RunTypeOK, CallInv, EngineStep, pc \in Running
    PROVE  \A t \in Tasks : Status(t)' = Status(t)
  BY EngineCases, AppendStep, ProjectStep, RegisterStep DEF Running

\* What the statuses are after a method for a task has begun, said for one action.
LEMMA StatusMoves ==
    ASSUME RunTypeOK, NEW t \in Tasks, NEW target \in TaskStatus, SetTask(t, target)
    PROVE  /\ Status(t)' = target
           /\ \A u \in Tasks : u # t => Status(u)' = Status(u)
  BY TaskCallBegins

LEMMA QuietKeepsStatus ==
    ASSUME UNCHANGED vars
    PROVE  \A t \in Tasks : Status(t)' = Status(t)
  BY DEF vars, Status, Writes

LEMMA StepPlaced ==
    ASSUME RowsInv, Step
    PROVE  Placed'
  <1> USE DEF RowsInv, Goto, runVars, Dispatching
  <1>1. CASE EngineStep
    <2>1. UNCHANGED <<pc, todo, current>> /\ todo \subseteq Tasks /\ current \in Tasks
      BY <1>1, EngineCases DEF RunTypeOK
    <2>2. CASE pc \in Running
      BY <1>1, <2>1, <2>2, EngineKeepsStatus DEF Placed
    <2>3. CASE pc \notin Running
      BY <2>1, <2>3 DEF Placed, Running
    <2>4. QED
      BY <2>2, <2>3
  <1>2. CASE Setup \/ Iterate \/ Decide
    BY <1>2 DEF Setup, StartRun, Compile, Register, Plan, Run, DetectCycles, Iterate, Decide,
                Placed
  <1>3. CASE Promote
    <2>1. CASE pc' = "promote"
      BY <2>1 DEF Placed
    <2>2. CASE pc' # "promote"
      <3>1. /\ SetTask(FirstOf(todo), "ready") /\ current' = FirstOf(todo) /\ pc' = "block"
            /\ FirstOf(todo) \in Tasks
        BY <1>3, <2>2, FirstOfTodo DEF Promote
      <3>2. QED
        BY <3>1, StatusMoves DEF Placed, TaskStatus
    <2>3. QED
      BY <2>1, <2>2
  <1>4. CASE Block
    BY <1>4 DEF Block, Placed
  <1>5. CASE BeginRequeue \/ SelectReady
    <2>1. /\ Ready /\ UNCHANGED vars
          /\ \/ pc' = "requeue" /\ todo' = Owned("retry_wait")
             \/ pc' = "dispatch" /\ todo' = Owned("ready")
             \/ pc' = "verdict"
      BY <1>5 DEF BeginRequeue, Visit, SelectReady
    <2>2. \A t \in Tasks : Status(t)' = task[t]
      BY <2>1, ReadyStatus, QuietKeepsStatus
    <2>3. QED
      BY <2>1, <2>2 DEF Placed, Owned
  <1>6. CASE Requeue
    <2>1. PICK t \in todo : SetTask(t, "ready") /\ todo' = todo \ {t}
      BY <1>6 DEF Requeue
    <2>2. pc = "requeue" /\ pc' = "requeue" /\ todo \subseteq Tasks
      BY <1>6 DEF Requeue, RunTypeOK
    <2>3. QED
      BY <2>1, <2>2, StatusMoves DEF Placed, TaskStatus
  <1>7. CASE EndIteration
    BY <1>7 DEF EndIteration, Placed
  <1>8. CASE Claim
    <2>1. PICK t \in todo : SetTask(t, "claimed") /\ current' = t /\ todo' = todo \ {t}
      BY <1>8 DEF Claim
    <2>2. pc = "dispatch" /\ pc' = "propose" /\ todo \subseteq Tasks
      BY <1>8 DEF Claim, RunTypeOK
    <2>3. QED
      BY <2>1, <2>2, StatusMoves DEF Placed, TaskStatus
  <1>9. CASE Propose \/ AskModel \/ Verify \/ PostVerify \/ CommitTask \/ RetryLater
    <2>1. /\ pc \in Dispatching \ {"dispatch"} /\ UNCHANGED <<todo, current>>
          /\ todo \subseteq Tasks /\ current \in Tasks
      BY <1>9 DEF Propose, AskModel, Verify, PostVerify, CommitTask, RetryLater, RunTypeOK
    <2>2. current \notin todo
      BY <2>1 DEF Placed
    <2>3. PICK target \in TaskStatus :
             /\ SetTask(current, target)
             /\ \/ pc' = "ask" /\ target = "proposing"
                \/ pc' = "verify" /\ target = "verifying"
                \/ pc' = "execute" /\ target = "executing"
                \/ pc' \in {"record", "retry"} /\ target = "post_verifying"
                \/ pc' = "dispatch"
      BY <1>9 DEF Propose, AskModel, Verify, PostVerify, CommitTask, RetryLater, TaskStatus
    <2>4. /\ Status(current)' = target
          /\ \A t \in todo : Status(t)' = "ready"
      BY <2>1, <2>2, <2>3, StatusMoves DEF Placed
    <2>5. QED
      BY <2>1, <2>3, <2>4 DEF Placed
  <1>10. CASE Execute \/ RecordIdempotency
    <2>1. /\ UNCHANGED <<vars, todo, current>> /\ todo \subseteq Tasks /\ current \in Tasks
          /\ \/ pc = "execute" /\ pc' = "post"
             \/ pc = "record" /\ pc' = "commit"
      BY <1>10 DEF Execute, RecordIdempotency, RunTypeOK
    <2>2. QED
      BY <2>1, QuietKeepsStatus DEF Placed
  <1>11. QED
    BY <1>1, <1>2, <1>3, <1>4, <1>5, <1>6, <1>7, <1>8, <1>9, <1>10 DEF Step, Schedule, Work

LEMMA VerdictKeepsStatus ==
    ASSUME RunTypeOK, pc \in Running, Setup \/ Decide
    PROVE  /\ \A t \in Tasks : Status(t)' = Status(t)
           /\ pc \in {"run", "detect", "verdict"} /\ pc' \in {"detect", "iterate", "done"}
           /\ UNCHANGED <<ledger, task, owner, deps, wf, storeVars, todo, current>>
  <1>1. /\ Run \/ DetectCycles \/ Decide
        /\ UNCHANGED <<deps, wf, storeVars, todo, current>>
        /\ pc \in {"run", "detect", "verdict"} /\ pc' \in {"detect", "iterate", "done"}
    BY DEF Setup, StartRun, Compile, Register, Plan, Run, DetectCycles, Decide, Running, Goto
  <1>2. \/ UNCHANGED vars
        \/ \E target \in WorkflowStatus : SetWorkflow(target)
    BY <1>1 DEF Run, DetectCycles, Decide, WorkflowStatus
  <1>3. CASE UNCHANGED vars
    BY <1>1, <1>3, QuietKeepsStatus DEF vars
  <1>4. CASE \E target \in WorkflowStatus : SetWorkflow(target)
    BY <1>1, <1>4, SetWorkflowBegins, WorkflowCallBegins
  <1>5. QED
    BY <1>2, <1>3, <1>4

\* Eligible tasks stay eligible.
LEMMA StaysEligible ==
    ASSUME RowsInv, Step, NEW t \in Tasks, Eligible(t)
    PROVE  Eligible(t)'
  <1>1. UNCHANGED <<wf, deps>> /\ wf \in Workflows
    BY StepKinds DEF RowsInv, RunTypeOK
  <1>2. QED
    BY <1>1, StaysRecorded DEF Eligible, RowsInv

LEMMA DepsAreTasks ==
    ASSUME RunTypeOK, NEW t \in Tasks
    PROVE  deps[t] \subseteq Tasks
  BY GraphsAssumption DEF RunTypeOK

LEMMA StepPromoted ==
    ASSUME RowsInv, Step
    PROVE  PromotedInv'
  <1> USE DEF RowsInv, Goto, runVars
  <1>1. SUFFICES ASSUME pc' \in Running, NEW t \in Tasks,
                        \/ Status(t)' \in Going
                        \/ Status(t)' = "ready" /\ ~(pc' = "block" /\ t = current')
                 PROVE  Eligible(t)
    BY StaysEligible DEF PromotedInv
  <1>2. CASE pc \notin Running
    BY <1>1, <1>2, BeginsToRun DEF Going
  <1>3. CASE pc \in Running /\ EngineStep
    <2>1. Status(t)' = Status(t) /\ UNCHANGED <<pc, current>>
      BY <1>3, EngineKeepsStatus, EngineCases
    <2>2. QED
      BY <1>1, <1>3, <2>1 DEF PromotedInv
  <1>4. CASE Promote
    <2>1. pc = "promote" /\ pc \in Running
      BY <1>4 DEF Promote, Running
    <2>2. \/ UNCHANGED vars
          \/ /\ SetTask(FirstOf(todo), "ready") /\ FirstOf(todo) \in Tasks
             /\ DepsSatisfied(FirstOf(todo)) \/ (pc' = "block" /\ current' = FirstOf(todo))
      BY <1>4, FirstOfTodo DEF Promote
    <2>3. CASE UNCHANGED vars
      BY <1>1, <2>1, <2>3, QuietKeepsStatus DEF PromotedInv
    <2>4. CASE ~UNCHANGED vars /\ t = FirstOf(todo)
      <3>1. DepsSatisfied(t)
        BY <1>1, <2>2, <2>4, StatusMoves DEF TaskStatus, Going
      <3>2. QED
        BY <2>1, <3>1, DepsAreTasks DEF DepsSatisfied, CommitSeen, Eligible
    <2>5. CASE ~UNCHANGED vars /\ t # FirstOf(todo)
      BY <1>1, <2>1, <2>2, <2>5, StatusMoves DEF TaskStatus, PromotedInv
    <2>6. QED
      BY <2>3, <2>4, <2>5
  <1>5. CASE Block
    <2>1. SetTask(current, "blocked") /\ pc = "block" /\ current \in Tasks
      BY <1>5 DEF Block, RunTypeOK
    <2>2. t # current
      BY <1>1, <2>1, StatusMoves DEF TaskStatus, Going
    <2>3. QED
      BY <1>1, <2>1, <2>2, StatusMoves DEF TaskStatus, PromotedInv, Running
  <1>6. CASE Requeue \/ Claim
    <2>1. PICK u \in todo : SetTask(u, "ready") \/ SetTask(u, "claimed")
      BY <1>6 DEF Requeue, Claim
    <2>2. /\ pc \in {"requeue", "dispatch"} /\ todo \subseteq Tasks
          /\ Status(u) \in {"retry_wait", "ready"}
      BY <1>6, <2>1 DEF Requeue, Claim, RunTypeOK, Placed, Dispatching
    <2>3. Status(t) \in Going \/ Status(t) = "ready"
      BY <1>1, <2>1, <2>2, StatusMoves DEF TaskStatus, Going
    <2>4. QED
      BY <2>2, <2>3 DEF PromotedInv, Running
  <1>7. CASE Propose \/ AskModel \/ Verify \/ PostVerify \/ CommitTask \/ RetryLater
    <2>1. PICK target \in TaskStatus : SetTask(current, target)
      BY <1>7 DEF Propose, AskModel, Verify, PostVerify, CommitTask, RetryLater, TaskStatus
    <2>2. /\ pc \in Dispatching \ {"dispatch"} /\ current \in Tasks
          /\ Status(current) \in Going
      BY <1>7 DEF Propose, AskModel, Verify, PostVerify, CommitTask, RetryLater, RunTypeOK,
                  Placed, Going, Dispatching
    <2>3. Status(t) \in Going \/ Status(t) = "ready"
      BY <1>1, <2>1, <2>2, StatusMoves DEF TaskStatus, Going
    <2>4. QED
      BY <2>2, <2>3 DEF PromotedInv, Running, Dispatching
  <1>8. CASE pc \in Running /\ (Setup \/ Decide)
    <2>1. Status(t)' = Status(t) /\ pc # "block"
      BY <1>8, VerdictKeepsStatus
    <2>2. QED
      BY <1>1, <1>8, <2>1 DEF PromotedInv
  <1>9. CASE Iterate \/ BeginRequeue \/ SelectReady \/ EndIteration \/ Execute
             \/ RecordIdempotency
    <2>1. UNCHANGED vars /\ pc # "block" /\ pc \in Running
      BY <1>9 DEF Iterate, BeginRequeue, Visit, SelectReady, EndIteration, Execute,
                  RecordIdempotency, Running
    <2>2. QED
      BY <1>1, <2>1, QuietKeepsStatus DEF PromotedInv
  <1>10. QED
    BY <1>2, <1>3, <1>4, <1>5, <1>6, <1>7, <1>8, <1>9 DEF Step, Schedule, Work

\* What a step of run_goal keeps of the rows.
LEMMA StepRows ==
    ASSUME RowsInv, Step
    PROVE  RowsInv'
  <1>1. RunTypeOK' /\ CallInv'
    BY StepTypes, StepCall DEF RowsInv
  <1>2. QED
    BY <1>1, StepPlan, StepCommitSeen, StepPlaced, StepPromoted DEF RowsInv

LEMMA RowsAtFirst == RunInit => RowsInv
  <1> SUFFICES ASSUME RunInit
               PROVE  RowsInv
    OBVIOUS
  <1>2. wf \in Workflows /\ current \in Tasks
    BY FirstOfIsIn, TasksAssumption, WorkflowsAssumption DEF RunInit
  <1>3. TypeOK
    BY InitTyped DEF RunInit
  <1>4. iteration \in 0..MaxIterations /\ effects \in [Tasks -> Nat]
    BY MaxIterationsIsNat DEF RunInit
  <1>5. RunTypeOK
    BY <1>2, <1>3, <1>4 DEF RunInit, RunTypeOK
  <1>6. call[Runtime] = Idle /\ ~Writes /\ pc = "create"
    BY RuntimeIsClient, IdleShape DEF RunInit, Init, Writes
  <1>7. CallInv
    BY <1>6, IdleShape DEF CallInv, Writes
  <1>8. PlanInv /\ CommitSeen /\ Placed /\ PromotedInv
    BY <1>6 DEF PlanInv, CommitSeen, Placed, PromotedInv, Running, Dispatching
  <1>9. QED
    BY <1>5, <1>7, <1>8 DEF RowsInv

----------------------------------------------------------------------------
(* Announced in order.                                                     *)

\* A tool call is announced only for a task that is eligible.
LEMMA StepDependencyOrder ==
    ASSUME RowsInv, DependencyOrder, Step
    PROVE  DependencyOrder'
  <1>1. SUFFICES ASSUME NEW w \in Workflows, NEW n \in 1..Len(ledger'[w]),
                        ledger'[w][n].to = "executing",
                        NEW d \in deps'[ledger'[w][n].task]
                 PROVE  Recorded(w, d, "committed", n)'
    BY DEF DependencyOrder
  <1>2. RunTypeOK /\ CallInv /\ deps' = deps /\ wf \in Workflows
    BY StepKinds DEF RowsInv, RunTypeOK
  <1>3. CASE UNCHANGED ledger
    BY <1>1, <1>2, <1>3 DEF DependencyOrder, Recorded
  <1>4. CASE AppendEvent(Runtime) /\ n \in 1..Len(ledger[w])
    <2>1. /\ Len(ledger[w]) \in Nat
          /\ \A i \in 1..Len(ledger[w]) : ledger'[w][i] = ledger[w][i]
      BY <1>2, <1>4, AppendToLedger
    <2>2. Recorded(w, d, "committed", n)
      BY <1>1, <1>2, <1>4, <2>1 DEF DependencyOrder
    <2>3. QED
      BY <1>4, <2>1, <2>2 DEF Recorded
  <1>5. CASE AppendEvent(Runtime) /\ n \notin 1..Len(ledger[w])
    <2>1. Len(ledger[w]) \in Nat /\ w = wf /\ n = Len(ledger[wf]) + 1
      BY <1>1, <1>2, <1>5, AppendToLedger
    <2> DEFINE e == call[Runtime].event
    <2>2. /\ e \in Event /\ e.to = "executing" /\ d \in deps[e.task] /\ Writes
          /\ \A i \in 1..Len(ledger[wf]) : ledger'[wf][i] = ledger[wf][i]
      BY <1>1, <1>2, <1>5, <2>1, AppendToLedger, AppendStep
    <2>3. e.task \in Tasks /\ e.task # None
      BY <2>2, EventShape DEF WorkflowStatus
    <2>4. pc \in Running /\ Status(e.task) = "executing"
      BY <1>2, <2>2, <2>3 DEF CallInv, Status
    <2>5. EverRecorded(wf, d, "committed")
      BY <2>2, <2>3, <2>4 DEF RowsInv, PromotedInv, Going, Eligible
    <2>6. QED
      BY <2>1, <2>2, <2>5 DEF EverRecorded, Recorded
  <1>6. QED
    BY <1>2, <1>3, <1>4, <1>5, LedgerStep

----------------------------------------------------------------------------
(* Work, keys and commits.                                                 *)

\* What is new in a ledger is the event that was to be logged.
LEMMA NewlyRecorded ==
    ASSUME RunTypeOK, CallInv, Step, NEW w \in Workflows, NEW t, NEW s, EverRecorded(w, t, s)'
    PROVE  \/ EverRecorded(w, t, s)
           \/ /\ w = wf /\ EngineStep /\ Writes /\ call[Runtime].step = "validated"
              /\ call[Runtime].event.task = t /\ call[Runtime].event.to = s
  <1>1. CASE UNCHANGED ledger
    BY <1>1 DEF EverRecorded, Recorded
  <1>2. CASE EngineStep /\ AppendEvent(Runtime)
    <2>1. Len(ledger[w]) \in Nat /\ Len(ledger'[w]) \in Nat
      BY <1>2, AppendToLedger, StepTypesEngine DEF TypeOK
    <2>2. PICK i \in 1..Len(ledger'[w]) : ledger'[w][i].task = t /\ ledger'[w][i].to = s
      BY <2>1 DEF EverRecorded, Recorded
    <2>3. CASE i \in 1..Len(ledger[w])
      BY <1>2, <2>1, <2>2, <2>3, AppendToLedger DEF EverRecorded, Recorded
    <2>4. CASE i \notin 1..Len(ledger[w])
      BY <1>2, <2>1, <2>2, <2>4, AppendToLedger, AppendStep
    <2>5. QED
      BY <2>3, <2>4
  <1>3. QED
    BY <1>1, <1>2, LedgerStep

\* A method that commits a task is begun by CommitTask, one that completes the workflow by
\* Decide, when all its tasks are committed.
LEMMA CommitBegins ==
    ASSUME RunTypeOK, Step, ~EngineStep, Writes', call'[Runtime].event.to = "committed"
    PROVE  CommitTask /\ call'[Runtime].event.task = current
  <1> USE DEF Goto
  <1>1. CASE Register
    BY <1>1, RegisterBegins
  <1>2. CASE UNCHANGED vars /\ Ready
    BY <1>2, IdleShape DEF vars, Ready, Writes
  <1>3. ASSUME NEW target \in WorkflowStatus, SetWorkflow(target)
        PROVE  FALSE
    BY <1>3, SetWorkflowBegins, WorkflowCallBegins DEF WorkflowStatus
  <1>4. ASSUME NEW t \in Tasks, NEW target \in TaskStatus \ {"committed"}, SetTask(t, target)
        PROVE  FALSE
    BY <1>4, TaskCallBegins
  <1>5. CASE StartRun
    BY <1>5, CreateCallBegins, WorkflowCallBegins DEF StartRun, WorkflowStatus
  <1>6. CASE Compile \/ Plan \/ Run \/ DetectCycles \/ Decide
    BY <1>2, <1>3, <1>6 DEF Compile, Plan, Run, DetectCycles, Decide, WorkflowStatus
  <1>7. CASE Iterate \/ BeginRequeue \/ SelectReady \/ EndIteration \/ Execute
             \/ RecordIdempotency
    BY <1>2, <1>7 DEF Iterate, BeginRequeue, Visit, SelectReady, EndIteration, Execute,
                      RecordIdempotency
  <1>8. CASE Promote \/ Requeue \/ Claim
    BY <1>2, <1>4, <1>8, FirstOfTodo DEF Promote, Requeue, Claim, TaskStatus, RunTypeOK
  <1>9. CASE Block \/ Propose \/ AskModel \/ Verify \/ PostVerify \/ RetryLater
    BY <1>4, <1>9 DEF Block, Propose, AskModel, Verify, PostVerify, RetryLater, TaskStatus,
                      RunTypeOK
  <1>10. CASE CommitTask
    BY <1>10, TaskCallBegins DEF CommitTask, TaskStatus, RunTypeOK
  <1>11. QED
    BY <1>1, <1>5, <1>6, <1>7, <1>8, <1>9, <1>10 DEF Step, Setup, Schedule, Work

LEMMA CompletionBegins ==
    ASSUME RunTypeOK, Step, ~EngineStep, Writes', call'[Runtime].event.to = "completed"
    PROVE  Decide /\ pc = "verdict" /\ Owned("committed") = Tasks /\ UNCHANGED ledger
  <1> USE DEF Goto
  <1>1. CASE Register
    BY <1>1, RegisterBegins
  <1>2. CASE UNCHANGED vars /\ Ready
    BY <1>2, IdleShape DEF vars, Ready, Writes
  <1>3. ASSUME NEW target \in WorkflowStatus \ {"completed"}, SetWorkflow(target)
        PROVE  FALSE
    BY <1>3, SetWorkflowBegins, WorkflowCallBegins
  <1>4. ASSUME NEW t \in Tasks, NEW target \in TaskStatus, SetTask(t, target)
        PROVE  FALSE
    BY <1>4, TaskCallBegins DEF TaskStatus
  <1>5. CASE StartRun
    BY <1>5, CreateCallBegins, WorkflowCallBegins DEF StartRun, WorkflowStatus
  <1>6. CASE Compile \/ Plan \/ Run \/ DetectCycles
    BY <1>2, <1>3, <1>6 DEF Compile, Plan, Run, DetectCycles, WorkflowStatus
  <1>7. CASE Iterate \/ BeginRequeue \/ SelectReady \/ EndIteration \/ Execute
             \/ RecordIdempotency
    BY <1>2, <1>7 DEF Iterate, BeginRequeue, Visit, SelectReady, EndIteration, Execute,
                      RecordIdempotency
  <1>8. CASE Promote \/ Requeue \/ Claim
    BY <1>2, <1>4, <1>8, FirstOfTodo DEF Promote, Requeue, Claim, TaskStatus, RunTypeOK
  <1>9. CASE Block \/ Propose \/ AskModel \/ Verify \/ PostVerify \/ RetryLater \/ CommitTask
    BY <1>4, <1>9 DEF Block, Propose, AskModel, Verify, PostVerify, RetryLater, CommitTask,
                      TaskStatus, RunTypeOK
  <1>10. CASE Decide
    <2>1. Owned("committed") = Tasks
      BY <1>3, <1>10 DEF Decide, WorkflowStatus
    <2>2. UNCHANGED ledger
      BY <1>10, <2>1, SetWorkflowBegins, WorkflowCallBegins DEF Decide, WorkflowStatus
    <2>3. QED
      BY <1>10, <2>1, <2>2 DEF Decide
  <1>11. QED
    BY <1>1, <1>5, <1>6, <1>7, <1>8, <1>9, <1>10 DEF Step, Setup, Schedule, Work

\* The commit of a task is being written.
Committing(t) == Writes /\ call[Runtime].event.task = t /\ call[Runtime].event.to = "committed"

LEMMA EngineKeepsEvent ==
    ASSUME RunTypeOK, CallInv, EngineStep, Writes'
    PROVE  Writes /\ call'[Runtime].event = call[Runtime].event
  BY EngineCases, AppendStep, ProjectStep, RegisterStep

\* A commit passes through three stages, in this order.
LEMMA CommitStages ==
    ASSUME RunTypeOK, CallInv, Step, NEW t \in Tasks
    PROVE  /\ \A w \in Workflows : EverRecorded(w, t, "committed")' =>
                                       EverRecorded(w, t, "committed") \/ Committing(t)
           /\ Committing(t)' => Committing(t) \/ (CommitTask /\ t = current)
           /\ CommitTask => pc = "commit" /\ UNCHANGED <<storeVars, current>>
  <1>1. ASSUME NEW w \in Workflows, EverRecorded(w, t, "committed")'
        PROVE  EverRecorded(w, t, "committed") \/ Committing(t)
    BY <1>1, NewlyRecorded DEF Committing
  <1>2. ASSUME Committing(t)'
        PROVE  Committing(t) \/ (CommitTask /\ t = current)
    <2>1. CASE EngineStep
      BY <1>2, <2>1, EngineKeepsEvent DEF Committing
    <2>2. CASE ~EngineStep
      BY <1>2, <2>2, CommitBegins DEF Committing
    <2>3. QED
      BY <2>1, <2>2
  <1>3. QED
    BY <1>1, <1>2 DEF CommitTask, Goto

\* Tool calls are never unmade and keys never taken back.
LEMMA StoresGrow ==
    ASSUME RunTypeOK, Step
    PROVE  /\ idempotency \subseteq idempotency'
           /\ \A t \in Tasks : effects[t] \in Nat /\ effects'[t] \in Nat /\ effects[t] <= effects'[t]
           /\ Execute \/ UNCHANGED effects
           /\ RecordIdempotency \/ UNCHANGED idempotency
  <1> USE DEF storeVars
  <1>1. CASE Execute
    BY <1>1 DEF Execute, RunTypeOK
  <1>2. CASE RecordIdempotency
    BY <1>2 DEF RecordIdempotency, Record, RunTypeOK
  <1>3. CASE ~Execute /\ ~RecordIdempotency
    <2>1. UNCHANGED <<idempotency, effects>>
      BY <1>3 DEF Step, EngineStep, Setup, StartRun, Compile, Register, Plan, Run,
                  DetectCycles, Schedule, Iterate, Promote, Block, BeginRequeue, Visit,
                  Requeue, SelectReady, EndIteration, Work, Claim, Propose, AskModel, Verify,
                  PostVerify, CommitTask, RetryLater, Decide
    <2>2. QED
      BY <2>1 DEF RunTypeOK
  <1>4. QED
    BY <1>1, <1>2, <1>3

\* How a run comes to the places between a tool call and its commit.
LEMMA ReachesCommit ==
    ASSUME RunTypeOK, Step
    PROVE  /\ pc' = "commit" => \/ RecordIdempotency
                                \/ pc = "commit" /\ current' = current
           /\ pc' = "record" => \/ PostVerify /\ pc = "post" /\ succeeded /\ current' = current
                                \/ pc = "record" /\ current' = current
           /\ pc' = "post" => \/ Execute
                              \/ pc = "post" /\ UNCHANGED <<current, succeeded>>
  <1> USE DEF Goto, runVars
  <1>1. CASE EngineStep
    BY <1>1 DEF EngineStep
  <1>2. CASE Setup \/ Decide
    BY <1>2 DEF Setup, StartRun, Compile, Register, Plan, Run, DetectCycles, Decide
  <1>3. CASE Schedule
    BY <1>3 DEF Schedule, Iterate, Promote, Block, BeginRequeue, Visit, Requeue, SelectReady,
                EndIteration
  <1>4. CASE Work
    BY <1>4 DEF Work, Claim, Propose, AskModel, Verify, Execute, PostVerify, CommitTask,
                RetryLater, RecordIdempotency
  <1>5. QED
    BY <1>1, <1>2, <1>3, <1>4 DEF Step

\* A commit, from the tool call on, has the tool call behind it; and a key has one.
WorkInv ==
    /\ \A t \in Tasks : \A w \in Workflows :
          EverRecorded(w, t, "committed") => effects[t] > 0
    /\ \A t \in Tasks : Committing(t) => effects[t] > 0
    /\ pc \in {"record", "commit"} \/ (pc = "post" /\ succeeded) => effects[current] > 0
    /\ \A t \in idempotency : effects[t] > 0

\* A commit has its key recorded first.
KeyInv ==
    /\ \A t \in Tasks : \A w \in Workflows :
          EverRecorded(w, t, "committed") => t \in idempotency
    /\ \A t \in Tasks : Committing(t) => t \in idempotency
    /\ pc = "commit" => current \in idempotency

LEMMA StepWork ==
    ASSUME RunTypeOK, CallInv, WorkInv, Step
    PROVE  WorkInv'
  <1>1. \A t \in Tasks : effects[t] > 0 => effects'[t] > 0
    BY StoresGrow
  <1>2. current \in Tasks
    BY DEF RunTypeOK
  <1>3. ASSUME NEW t \in Tasks, NEW w \in Workflows, EverRecorded(w, t, "committed")'
        PROVE  effects'[t] > 0
    BY <1>1, <1>3, CommitStages DEF WorkInv
  <1>4. ASSUME NEW t \in Tasks, Committing(t)'
        PROVE  effects'[t] > 0
    BY <1>1, <1>4, CommitStages DEF WorkInv
  <1>5. CASE Execute
    <2>1. \E ok \in BOOLEAN : succeeded' = ok /\ (ok => effects'[current] = effects[current] + 1)
      BY <1>2, <1>5 DEF Execute, RunTypeOK
    <2>2. pc' = "post" /\ current' = current /\ idempotency' = idempotency
          /\ effects[current] \in Nat /\ idempotency \subseteq Tasks
      BY <1>2, <1>5 DEF Execute, RunTypeOK
    <2>3. succeeded' => effects'[current'] > 0
      BY <2>1, <2>2
    <2>4. \A t \in idempotency' : effects'[t] > 0
      BY <1>1, <2>2 DEF WorkInv
    <2>5. QED
      BY <1>3, <1>4, <2>2, <2>3, <2>4 DEF WorkInv
  <1>6. CASE ~Execute
    <2>1. UNCHANGED effects
      BY <1>6, StoresGrow
    <2>2. pc' \in {"record", "commit"} \/ (pc' = "post" /\ succeeded') => effects'[current'] > 0
      <3>1. RecordIdempotency => pc = "record" /\ current' = current
        BY DEF RecordIdempotency, Goto
      <3>2. QED
        BY <1>6, <2>1, <3>1, ReachesCommit DEF WorkInv
    <2>3. \A t \in idempotency' : effects'[t] > 0
      <3>1. CASE RecordIdempotency
        BY <2>1, <3>1 DEF RecordIdempotency, Record, WorkInv
      <3>2. CASE UNCHANGED idempotency
        BY <2>1, <3>2 DEF WorkInv
      <3>3. QED
        BY <3>1, <3>2, StoresGrow
    <2>4. QED
      BY <1>3, <1>4, <2>2, <2>3 DEF WorkInv
  <1>7. QED
    BY <1>5, <1>6

LEMMA StepKey ==
    ASSUME RunTypeOK, CallInv, KeyInv, Step
    PROVE  KeyInv'
  <1>1. idempotency \subseteq idempotency'
    BY StoresGrow
  <1>2. RecordIdempotency => current' \in idempotency'
    BY DEF RecordIdempotency, Record, Goto
  <1>3. ASSUME NEW t \in Tasks, NEW w \in Workflows, EverRecorded(w, t, "committed")'
        PROVE  t \in idempotency'
    BY <1>1, <1>3, CommitStages DEF KeyInv
  <1>4. ASSUME NEW t \in Tasks, Committing(t)'
        PROVE  t \in idempotency'
    BY <1>1, <1>4, CommitStages DEF KeyInv
  <1>5. pc' = "commit" => current' \in idempotency'
    BY <1>1, <1>2, ReachesCommit DEF KeyInv
  <1>6. QED
    BY <1>3, <1>4, <1>5 DEF KeyInv

----------------------------------------------------------------------------
(* Verdicts.                                                               *)

\* Completed: the ledger says so of the workflow itself.
Completed(w) == EverRecorded(w, None, "completed")

\* Every task of the plan is committed in this ledger, and the plan has no cycle.
AllCommitted(w) == (\A t \in Tasks : EverRecorded(w, t, "committed")) /\ ~HasCycle

Completing == Writes /\ call[Runtime].event.to = "completed"

VerdictInv ==
    /\ pc \in Running \ {"run", "detect"} => ~HasCycle
    /\ Completing => AllCommitted(wf)
    /\ \A w \in Workflows : Completed(w) => AllCommitted(w)
    /\ \A w \in Workflows : workflow[w] = "completed" => Completed(w)

\* A verdict is sound because only Decide completes a workflow.
LEMMA VerdictIsSound ==
    ASSUME WorkInv, VerdictInv
    PROVE  VerdictSound
  BY DEF WorkInv, VerdictInv, VerdictSound, AllCommitted

LEMMA StepVerdict ==
    ASSUME RowsInv, VerdictInv, Step
    PROVE  VerdictInv'
  <1> USE DEF RowsInv
  <1>1. /\ UNCHANGED <<wf, deps>> /\ wf \in Workflows
        /\ HasCycle' = HasCycle
    BY StepKinds DEF RunTypeOK, HasCycle
  <1>2. ASSUME NEW w \in Workflows, AllCommitted(w)
        PROVE  AllCommitted(w)'
    BY <1>1, <1>2, StaysRecorded DEF AllCommitted
  <1>3. ASSUME pc' \in Running \ {"run", "detect"}
        PROVE  ~HasCycle
    <2>1. CASE pc \notin Running
      BY <1>3, <2>1, BeginsToRun
    <2>2. CASE pc \in {"run", "detect"}
      <3>1. EngineStep \/ Run \/ (DetectCycles /\ pc' = "iterate")
        BY <1>3, <2>2
           DEF Step, Setup, StartRun, Compile, Register, Plan, DetectCycles, Schedule,
               Iterate, Promote, Block, BeginRequeue, Visit, Requeue, SelectReady,
               EndIteration, Work, Claim, Propose, AskModel, Verify, Execute, PostVerify,
               RecordIdempotency, CommitTask, RetryLater, Decide, Goto, Running
      <3>2. DetectCycles /\ pc' = "iterate"
        BY <1>3, <2>2, <3>1, EngineCases DEF Run, Goto
      <3>3. QED
        BY <3>2 DEF DetectCycles, Goto
    <2>3. QED
      BY <2>1, <2>2 DEF VerdictInv
  <1>4. ASSUME Completing'
        PROVE  AllCommitted(wf)'
    <2>1. CASE EngineStep
      BY <1>1, <1>2, <1>4, <2>1, EngineKeepsEvent DEF VerdictInv, Completing
    <2>2. CASE ~EngineStep
      <3>1. pc = "verdict" /\ Owned("committed") = Tasks
        BY <1>4, <2>2, CompletionBegins DEF Completing
      <3>2. ~HasCycle /\ \A t \in Tasks : EverRecorded(wf, t, "committed")
        BY <3>1 DEF VerdictInv, CommitSeen, Owned, Running
      <3>3. QED
        BY <1>1, <1>2, <3>2 DEF AllCommitted
    <2>3. QED
      BY <2>1, <2>2
  <1>5. ASSUME NEW w \in Workflows, Completed(w)'
        PROVE  AllCommitted(w)'
    <2>1. Completed(w) \/ (w = wf /\ Completing)
      BY <1>5, NewlyRecorded DEF Completed, Completing
    <2>2. QED
      BY <1>2, <2>1 DEF VerdictInv
  <1>6. ASSUME NEW w \in Workflows, workflow'[w] = "completed"
        PROVE  Completed(w)'
    <2>1. CASE Completed(w)
      BY <2>1, StaysRecorded DEF Completed
    <2>2. CASE workflow'[w] = workflow[w]
      BY <1>6, <2>1, <2>2 DEF VerdictInv
    <2>3. CASE workflow'[w] # workflow[w]
      <3>1. EngineStep
        BY <2>3, StepKinds, RegisterBegins, TaskCallBegins, WorkflowCallBegins DEF vars
      <3>2. Project(Runtime)
        BY <2>3, <3>1, EngineCases, AppendStep, RegisterStep
      <3>3. /\ call[Runtime].event.task = None /\ InLedger(wf, call[Runtime].event)
            /\ workflow' = [workflow EXCEPT ![wf] = call[Runtime].event.to]
        BY <2>3, <3>2, ProjectStep DEF CallInv
      <3>4. w = wf /\ call[Runtime].event.to = "completed"
        BY <1>1, <1>6, <2>3, <3>3 DEF RunTypeOK, TypeOK
      <3>5. Completed(w)
        BY <1>1, <3>3, <3>4, InLedgerIsRecorded DEF Completed
      <3>6. QED
        BY <2>1, <3>5
    <2>4. QED
      BY <2>2, <2>3
  <1>7. QED
    BY <1>1, <1>3, <1>4, <1>5, <1>6 DEF VerdictInv

----------------------------------------------------------------------------
(* Tool calls and their announcements.                                     *)

\* The announcements of the tool call of t, in all ledgers.
Announced(t) ==
    {x \in Workflows \X (1..MaxLedger) :
        /\ x[2] <= Len(ledger[x[1]])
        /\ ledger[x[1]][x[2]].task = t
        /\ ledger[x[1]][x[2]].to = "executing"}

\* One more call of t is announced and not made yet.
Due(t) == IF pc = "execute" /\ t = current /\ call[Runtime].step # "validated" THEN 1 ELSE 0

IntentInv ==
    /\ call[Runtime].step = "validated" => Len(ledger[wf]) < MaxLedger
    /\ \A t \in Tasks : effects[t] + Due(t) <= Cardinality(Announced(t))

LEMMA PlacesFinite ==
    ASSUME NEW S, S \subseteq Workflows \X (1..MaxLedger)
    PROVE  IsFiniteSet(S) /\ Cardinality(S) \in Nat
  <1>1. IsFiniteSet(1..MaxLedger)
    BY MaxLedgerAssumption, FS_Interval
  <1>2. IsFiniteSet(Workflows \X (1..MaxLedger))
    BY <1>1, WorkflowsAssumption, FS_Product
  <1>3. QED
    BY <1>2, FS_Subset, FS_CardinalityType

LEMMA AnnouncedFinite ==
    ASSUME NEW t
    PROVE  /\ IsFiniteSet(Announced(t)) /\ Cardinality(Announced(t)) \in Nat
           /\ IsFiniteSet(Announced(t)') /\ Cardinality(Announced(t)') \in Nat
  <1>1. /\ Announced(t) \subseteq Workflows \X (1..MaxLedger)
        /\ Announced(t)' \subseteq Workflows \X (1..MaxLedger)
    BY DEF Announced
  <1>2. QED
    BY <1>1, PlacesFinite

\* Announcements are kept, and the one that is appended is a new one.
LEMMA AnnouncedGrows ==
    ASSUME RunTypeOK, CallInv, AppendEvent(Runtime), Step,
           Len(ledger[wf]) < MaxLedger, NEW t \in Tasks
    PROVE  /\ Cardinality(Announced(t)) <= Cardinality(Announced(t)')
           /\ call[Runtime].event.task = t /\ call[Runtime].event.to = "executing" =>
                 Cardinality(Announced(t)) + 1 <= Cardinality(Announced(t)')
  <1> DEFINE x == <<wf, Len(ledger[wf]) + 1>>
  <1>1. /\ wf \in Workflows /\ Len(ledger[wf]) \in Nat
        /\ \A w \in Workflows : Len(ledger[w]) \in Nat /\ Len(ledger'[w]) \in Nat
    BY StepTypesEngine DEF RunTypeOK, TypeOK
  <1>2. Announced(t) \subseteq Announced(t)'
    BY <1>1, AppendToLedger DEF Announced
  <1>3. x \notin Announced(t) /\ x \in Workflows \X (1..MaxLedger)
    BY <1>1, MaxLedgerAssumption DEF Announced
  <1>4. IsFiniteSet(Announced(t)) /\ Cardinality(Announced(t)) \in Nat
    BY AnnouncedFinite
  <1>5. IsFiniteSet(Announced(t)') /\ Cardinality(Announced(t)') \in Nat
    BY AnnouncedFinite
  <1>6. Cardinality(Announced(t)) <= Cardinality(Announced(t)')
    BY <1>2, <1>5, FS_Subset
  <1>7. ASSUME call[Runtime].event.task = t, call[Runtime].event.to = "executing"
        PROVE  Cardinality(Announced(t)) + 1 <= Cardinality(Announced(t)')
    <2>1. x \in Announced(t)'
      BY <1>1, <1>3, <1>7, AppendToLedger DEF Announced
    <2>2. Announced(t) \cup {x} \subseteq Announced(t)'
      BY <1>2, <2>1
    <2>3. Cardinality(Announced(t) \cup {x}) = Cardinality(Announced(t)) + 1
      BY <1>3, <1>4, FS_AddElement
    <2>4. Cardinality(Announced(t) \cup {x}) <= Cardinality(Announced(t)')
      BY <1>5, <2>2, FS_Subset
    <2>5. QED
      BY <2>3, <2>4
  <1>8. QED
    BY <1>6, <1>7

\* A tool call is made in "execute", which a run reaches by a Verify.
LEMMA ReachesExecute ==
    ASSUME RunTypeOK, Step, pc' = "execute"
    PROVE  /\ current' = current
           /\ \/ pc # "execute" /\ SetTask(current, "executing")
              \/ pc = "execute" /\ EngineStep
  <1> USE DEF Goto, runVars
  <1>1. CASE EngineStep
    <2>1. ~Ready
      BY <1>1, ReadyNoEngine
    <2>2. QED
      BY <1>1 DEF EngineStep
  <1>2. CASE Setup \/ Schedule \/ Decide
    BY <1>2 DEF Setup, StartRun, Compile, Register, Plan, Run, DetectCycles, Decide, Schedule,
                Iterate, Promote, Block, BeginRequeue, Visit, Requeue, SelectReady,
                EndIteration
  <1>3. CASE Work
    BY <1>3 DEF Work, Claim, Propose, AskModel, Verify, Execute, PostVerify, CommitTask,
                RetryLater, RecordIdempotency
  <1>4. QED
    BY <1>1, <1>2, <1>3 DEF Step

\* While a method has not logged its event there is room for it.
LEMMA StepRoom ==
    ASSUME RunTypeOK, CallInv, Step, call[Runtime].step = "validated" => Len(ledger[wf]) < MaxLedger
    PROVE  call'[Runtime].step = "validated" => Len(ledger'[wf']) < MaxLedger
  <1> SUFFICES ASSUME call'[Runtime].step = "validated"
               PROVE  Len(ledger'[wf']) < MaxLedger
    OBVIOUS
  <1>1. UNCHANGED wf /\ Writes'
    BY StepKinds DEF Writes
  <1>2. ~EngineStep
    BY <1>1, EngineCases, AppendStep, ProjectStep, RegisterStep
  <1>3. UNCHANGED ledger
    BY <1>2, LedgerStep
  <1>4. Len(ledger[wf]) < MaxLedger
    BY <1>1, <1>2, StepKinds, RegisterBegins, TaskCallBegins, WorkflowCallBegins DEF vars
  <1>5. QED
    BY <1>1, <1>3, <1>4

LEMMA StepIntent ==
    ASSUME RowsInv, IntentInv, Step
    PROVE  IntentInv'
  <1> USE DEF RowsInv
  <1>1. call'[Runtime].step = "validated" => Len(ledger'[wf']) < MaxLedger
    BY StepRoom DEF IntentInv
  <1>2. ASSUME NEW t \in Tasks
        PROVE  (effects[t] + Due(t) <= Cardinality(Announced(t)))'
    <2>1. /\ effects[t] + Due(t) <= Cardinality(Announced(t))
          /\ Cardinality(Announced(t)) \in Nat /\ Cardinality(Announced(t)') \in Nat
      BY AnnouncedFinite DEF IntentInv
    <2>2. effects[t] \in Nat /\ effects'[t] \in Nat /\ (Execute \/ UNCHANGED effects)
      BY StoresGrow
    <2>3. Due(t) \in {0, 1} /\ Due(t)' \in {0, 1}
      BY DEF Due
    <2>4. CASE AppendEvent(Runtime) /\ EngineStep
      <3>1. /\ Len(ledger[wf]) < MaxLedger /\ UNCHANGED <<pc, current, effects>>
            /\ call[Runtime].step = "validated" /\ Writes
        BY <2>4, AppendStep, EngineCases DEF IntentInv
      <3>2. Due(t) = 0
        BY <3>1 DEF Due
      <3>3. CASE Due(t)' = 0
        BY <2>1, <2>2, <2>4, <3>1, <3>2, <3>3, AnnouncedGrows
      <3>4. CASE Due(t)' = 1
        <4>1. pc = "execute" /\ t = current
          BY <3>1, <3>4 DEF Due
        <4>2. call[Runtime].event.task = t /\ call[Runtime].event.to = "executing"
          BY <3>1, <4>1 DEF CallInv, Placed, Status
        <4>3. Cardinality(Announced(t)) + 1 <= Cardinality(Announced(t)')
          BY <2>4, <3>1, <4>2, AnnouncedGrows
        <4>4. QED
          BY <2>1, <2>2, <3>1, <3>2, <3>4, <4>3
      <3>5. QED
        BY <2>3, <3>3, <3>4
    <2>5. CASE UNCHANGED ledger
      <3>1. Announced(t)' = Announced(t)
        BY <2>5 DEF Announced
      <3>2. CASE Execute
        <4>1. /\ pc = "execute" /\ pc' = "post" /\ Ready /\ current \in Tasks
              /\ \/ effects' = [effects EXCEPT ![current] = @ + 1]
                 \/ effects' = effects
          BY <3>2 DEF Execute, RunTypeOK
        <4>2. Due(t)' = 0 /\ (t = current => Due(t) = 1)
          BY <4>1, IdleShape DEF Due, Ready
        <4>3. effects'[t] <= effects[t] + Due(t)
          BY <2>2, <2>3, <4>1, <4>2 DEF RunTypeOK
        <4>4. QED
          BY <2>1, <2>2, <2>3, <3>1, <4>2, <4>3
      <3>3. CASE ~Execute
        <4>1. Due(t)' = 1 => Due(t) = 1
          <5> SUFFICES ASSUME Due(t)' = 1
                       PROVE  Due(t) = 1
            OBVIOUS
          <5>1. pc' = "execute" /\ t = current' /\ call'[Runtime].step # "validated"
            BY DEF Due
          <5>2. pc = "execute" /\ EngineStep /\ current' = current
            BY <5>1, ReachesExecute, TaskCallBegins DEF RunTypeOK, TaskStatus
          <5>3. ~AppendEvent(Runtime)
            BY <2>5, AppendToLedger DEF RunTypeOK
          <5>4. call[Runtime].step # "validated"
            BY <5>2, <5>3, EngineCases, ProjectStep DEF RegisterNext
          <5>5. QED
            BY <5>1, <5>2, <5>4 DEF Due
        <4>2. QED
          BY <2>1, <2>2, <2>3, <3>1, <3>3, <4>1
      <3>4. QED
        BY <3>2, <3>3
    <2>6. QED
      BY <2>4, <2>5, LedgerStep
  <1>3. QED
    BY <1>1, <1>2 DEF IntentInv

LEMMA IntentIsLogged ==
    ASSUME RunTypeOK, IntentInv
    PROVE  IntentLogged
  <1>1. ASSUME NEW t \in Tasks
        PROVE  effects[t] <= Cardinality(Announced(t))
    <2>1. effects[t] \in Nat /\ Due(t) \in {0, 1} /\ Cardinality(Announced(t)) \in Nat
      BY AnnouncedFinite DEF RunTypeOK, Due
    <2>2. QED
      BY <2>1 DEF IntentInv
  <1>2. QED
    BY <1>1 DEF IntentLogged, Announced

----------------------------------------------------------------------------
(* Rows and their owners.                                                  *)

\* No run_goal is between its start and its verdict.
Over == {"done", "down"}

\* A row that exists stays, with its owner; a new one belongs to the run.
LEMMA OwnerStep ==
    ASSUME RunTypeOK, CallInv, Step, NEW t \in Tasks
    PROVE  /\ task[t] # NoRow => task'[t] # NoRow /\ owner'[t] = owner[t]
           /\ owner'[t] \in {owner[t], wf}
  <1>1. CASE EngineStep
    <2>1. CASE AppendEvent(Runtime)
      BY <2>1, AppendStep
    <2>2. CASE Project(Runtime)
      <3> DEFINE e == call[Runtime].event
      <3>1. e.task = None => UNCHANGED <<task, owner>>
        BY <2>2, ProjectStep
      <3>2. e.task # None =>
              /\ e.task \in Tasks /\ e.to # NoRow
              /\ task' = [task EXCEPT ![e.task] = e.to]
              /\ owner' = [owner EXCEPT ![e.task] = IF task[e.task] = NoRow THEN wf ELSE @]
        BY <2>2, ProjectStep, EventShape DEF NoRow, TaskStatus
      <3> HIDE DEF e
      <3>3. QED
        BY <3>1, <3>2 DEF RunTypeOK, TypeOK
    <2>3. CASE RegisterNext(Runtime)
      <3>1. PICK u \in call[Runtime].left :
               /\ task' = [task EXCEPT ![u] = "pending"]
               /\ owner' = [owner EXCEPT ![u] = IF task[u] = NoRow THEN wf ELSE @]
        BY <2>3, RegisterStep
      <3>2. QED
        BY <3>1 DEF RunTypeOK, TypeOK, NoRow
    <2>4. QED
      BY <1>1, <2>1, <2>2, <2>3, EngineCases
  <1>2. CASE ~EngineStep
    BY <1>2, StepKinds, RegisterBegins, TaskCallBegins, WorkflowCallBegins DEF vars
  <1>3. QED
    BY <1>1, <1>2

\* A ledger or a row belongs to a run that has begun.
SpanInv ==
    /\ \A w \in Workflows : Known(w) => w <= wf
    /\ \A t \in Tasks : task[t] # NoRow => owner[t] <= wf

\* A run has rows for its whole plan; the tasks it works on are its own.
OwnedInv ==
    /\ pc \in Running => \A t \in Tasks : task[t] # NoRow
    /\ pc \in Dispatching => \A t \in todo : owner[t] = wf
    /\ pc \in Dispatching \ {"dispatch"} => owner[current] = wf

LEMMA StepSpan ==
    ASSUME RunTypeOK, CallInv, SpanInv, Step
    PROVE  SpanInv'
  <1>1. UNCHANGED wf /\ wf \in Nat /\ wf \in Workflows
    BY StepKinds, WorkflowsAssumption DEF RunTypeOK
  <1>2. ASSUME NEW w \in Workflows, Known(w)'
        PROVE  w <= wf
    <2>1. CASE UNCHANGED ledger
      BY <1>2, <2>1 DEF Known, SpanInv
    <2>2. CASE AppendEvent(Runtime) /\ w # wf
      BY <1>2, <2>2, AppendToLedger DEF Known, SpanInv
    <2>3. QED
      BY <1>1, <2>1, <2>2, LedgerStep
  <1>3. ASSUME NEW t \in Tasks, task'[t] # NoRow
        PROVE  owner'[t] <= wf
    <2>1. CASE task[t] # NoRow
      BY <2>1, OwnerStep DEF SpanInv
    <2>2. CASE task[t] = NoRow
      <3>1. owner[t] = None /\ owner'[t] # None
        BY <1>3, <2>2, StepTypesEngine DEF RunTypeOK, TypeOK
      <3>2. QED
        BY <1>1, <3>1, OwnerStep
    <2>3. QED
      BY <2>1, <2>2
  <1>4. QED
    BY <1>1, <1>2, <1>3 DEF SpanInv

LEMMA StepOwned ==
    ASSUME RowsInv, OwnedInv, Step
    PROVE  OwnedInv'
  <1> USE DEF RowsInv
  <1>1. UNCHANGED wf /\ wf \in Workflows
    BY StepKinds DEF RunTypeOK
  <1>2. ASSUME pc' \in Running, NEW t \in Tasks
        PROVE  task'[t] # NoRow
    BY <1>2, BeginsToRun, OwnerStep DEF OwnedInv, NoRow
  <1>3. ASSUME NEW t \in Tasks, owner[t] = wf
        PROVE  owner'[t] = wf
    <2>1. task[t] # NoRow
      BY <1>1, <1>3, NoneAssumption DEF RunTypeOK, TypeOK
    <2>2. QED
      BY <1>3, <2>1, OwnerStep
  <1>4. /\ pc' \in Dispatching => \A t \in todo' : owner[t] = wf
        /\ pc' \in Dispatching \ {"dispatch"} => owner[current'] = wf
    <2> USE DEF Dispatching, Goto, runVars
    <2>1. CASE EngineStep
      BY <2>1, EngineCases DEF OwnedInv
    <2>2. CASE Setup \/ Decide
      BY <2>2 DEF Setup, StartRun, Compile, Register, Plan, Run, DetectCycles, Decide
    <2>3. CASE SelectReady
      BY <2>3 DEF SelectReady, Owned
    <2>4. CASE Iterate \/ Promote \/ Block \/ BeginRequeue \/ Requeue \/ EndIteration
      BY <2>4 DEF Iterate, Promote, Block, BeginRequeue, Visit, Requeue, EndIteration
    <2>5. CASE Claim
      BY <2>5 DEF Claim, OwnedInv
    <2>6. CASE Propose \/ AskModel \/ Verify \/ Execute \/ PostVerify \/ RecordIdempotency
               \/ CommitTask \/ RetryLater
      BY <2>6 DEF Propose, AskModel, Verify, Execute, PostVerify, RecordIdempotency,
                  CommitTask, RetryLater, OwnedInv
    <2>7. QED
      BY <2>1, <2>2, <2>3, <2>4, <2>5, <2>6 DEF Step, Schedule, Work
  <1>5. todo' \subseteq Tasks /\ current' \in Tasks
    BY StepTypes DEF RunTypeOK
  <1>6. QED
    BY <1>1, <1>2, <1>3, <1>4, <1>5 DEF OwnedInv

----------------------------------------------------------------------------
(* At most once.                                                           *)

\* The ledger of w has an event of t.
Mentions(w, t) == \E i \in 1..Len(ledger[w]) : ledger[w][i].task = t

\* A tool call was announced, so some ledger mentions its task.
LEMMA WorkIsMentioned ==
    ASSUME RunTypeOK, IntentInv, NEW t \in Tasks, effects[t] > 0
    PROVE  \E w \in Workflows : Mentions(w, t)
  <1>1. /\ effects[t] \in Nat /\ Due(t) \in Nat /\ Cardinality(Announced(t)) \in Nat
        /\ effects[t] + Due(t) <= Cardinality(Announced(t))
    BY AnnouncedFinite DEF RunTypeOK, Due, IntentInv
  <1>2. Announced(t) # {}
    <2>1. Cardinality(Announced(t)) # 0
      BY <1>1
    <2>2. QED
      BY <2>1, FS_EmptySet
  <1>3. PICK x \in Announced(t) : TRUE
    BY <1>2
  <1>4. /\ x[1] \in Workflows /\ x[2] \in 1..MaxLedger /\ x[2] <= Len(ledger[x[1]])
        /\ ledger[x[1]][x[2]].task = t
    BY <1>3 DEF Announced
  <1>5. Len(ledger[x[1]]) \in Nat /\ x[2] \in 1..Len(ledger[x[1]])
    BY <1>4, MaxLedgerAssumption DEF RunTypeOK, TypeOK
  <1>6. QED
    BY <1>4, <1>5 DEF Mentions

\* A ledger mentions only tasks that have a row.
LEMMA StepMentions ==
    ASSUME RowsInv, OwnedInv, Step, NEW w \in Workflows,
           \A t \in Tasks : Mentions(w, t) => task[t] # NoRow
    PROVE  \A t \in Tasks : Mentions(w, t)' => task'[t] # NoRow
  <1> USE DEF RowsInv
  <1>1. SUFFICES ASSUME NEW t \in Tasks, Mentions(w, t)'
                 PROVE  task[t] # NoRow
    BY OwnerStep
  <1>2. CASE UNCHANGED ledger
    BY <1>1, <1>2 DEF Mentions
  <1>3. CASE AppendEvent(Runtime)
    <2>1. PICK i \in 1..Len(ledger'[w]) : ledger'[w][i].task = t
      BY <1>1 DEF Mentions
    <2>2. CASE i \in 1..Len(ledger[w])
      BY <1>3, <2>1, <2>2, AppendToLedger DEF Mentions
    <2>3. CASE i \notin 1..Len(ledger[w])
      <3>1. Len(ledger[w]) \in Nat /\ Len(ledger'[w]) \in Nat
        BY StepTypesEngine DEF RunTypeOK, TypeOK
      <3>2. Writes /\ call[Runtime].event.task = t
        BY <1>3, <2>1, <2>3, <3>1, AppendToLedger, AppendStep
      <3>3. pc \in Running
        BY <3>2, NoneIsNoTask DEF CallInv
      <3>4. QED
        BY <3>3 DEF OwnedInv
    <2>4. QED
      BY <2>2, <2>3
  <1>4. QED
    BY <1>2, <1>3, LedgerStep

\* A task whose tool call has succeeded is out of reach of the run: it belongs to another
\* one, it is committed, or it is on its way from its call to its commit.
Spent(t) ==
    \/ owner[t] # wf
    \/ /\ pc \in Running
       /\ \/ Status(t) = "committed"
          \/ t = current /\ succeeded /\ pc \in {"post", "record", "commit"}

OnceInv ==
    \A t \in Tasks : effects[t] <= 1 /\ (effects[t] > 0 /\ pc \notin Over => Spent(t))

\* Nothing follows "committed".
LEMMA CommittedIsFinal ==
    ASSUME RunTypeOK, NEW t \in Tasks, NEW target \in TaskStatus, SetTask(t, target)
    PROVE  Status(t) # "committed"
  <1>1. Ready /\ target \in TASK_TRANSITIONS[TaskCurrent(t)]
    BY TaskCallBegins
  <1>2. TASK_TRANSITIONS["committed"] = {}
    BY DEF TASK_TRANSITIONS, TaskStatus
  <1>3. task[t] # "committed"
    BY <1>1, <1>2 DEF TaskCurrent, NoRow
  <1>4. QED
    BY <1>1, <1>3, ReadyStatus

LEMMA StepSpent ==
    ASSUME RowsInv, OwnedInv, Step, NEW t \in Tasks, task[t] # NoRow, Spent(t),
           pc \notin Over, pc' \notin Over
    PROVE  Spent(t)'
  <1> USE DEF RowsInv
  <1>1. UNCHANGED wf /\ owner'[t] = owner[t]
    BY StepKinds, OwnerStep
  <1>2. CASE owner[t] # wf
    BY <1>1, <1>2 DEF Spent
  <1>3. CASE pc \in Running /\ Status(t) = "committed"
    <2>1. CASE EngineStep
      BY <1>3, <2>1, EngineKeepsStatus, EngineCases DEF Spent
    <2>2. CASE UNCHANGED vars /\ pc' \in Running
      BY <1>3, <2>2, QuietKeepsStatus DEF Spent
    <2>3. CASE pc' \in Running /\ \E u \in Tasks : \E target \in TaskStatus : SetTask(u, target)
      <3>1. PICK u \in Tasks, target \in TaskStatus : SetTask(u, target)
        BY <2>3
      <3>2. u # t
        BY <1>3, <3>1, CommittedIsFinal
      <3>3. QED
        BY <1>3, <2>3, <3>1, <3>2, StatusMoves DEF Spent
    <2>4. CASE /\ <<pc, pc'>> \in WorkflowMoves
               /\ \E from, to \in WorkflowStatus :
                     Validated(Runtime, wf, WorkflowEvent(from, to, "none"))
      <3>1. Status(t)' = Status(t)
        BY <2>4, WorkflowCallBegins
      <3>2. pc' \in Running
        BY <1>3, <2>4 DEF WorkflowMoves, Running, Over
      <3>3. QED
        BY <1>3, <3>1, <3>2 DEF Spent
    <2>5. QED
      BY <1>3, <2>1, <2>2, <2>3, <2>4, StepKinds DEF Register, Running
  <1>4. CASE t = current /\ succeeded /\ pc \in {"post", "record", "commit"}
    <2>1. EngineStep \/ PostVerify \/ RecordIdempotency \/ CommitTask
      BY <1>4 DEF Step, Setup, StartRun, Compile, Register, Plan, Run, DetectCycles, Schedule,
                  Iterate, Promote, Block, BeginRequeue, Visit, Requeue, SelectReady,
                  EndIteration, Work, Claim, Propose, AskModel, Verify, Execute, RetryLater,
                  Decide
    <2>2. CASE EngineStep
      BY <1>4, <2>2, EngineCases DEF Spent, Running
    <2>3. CASE PostVerify \/ RecordIdempotency
      BY <1>4, <2>3 DEF PostVerify, RecordIdempotency, Goto, Spent, Running
    <2>4. CASE CommitTask
      BY <1>4, <2>4, StatusMoves DEF CommitTask, Goto, Spent, Running, TaskStatus
    <2>5. QED
      BY <2>1, <2>2, <2>3, <2>4
  <1>5. QED
    BY <1>2, <1>3, <1>4 DEF Spent

\* The tool call of a task is made again only for a task that is not spent.
LEMMA StepOnce ==
    ASSUME RowsInv, OwnedInv, OnceInv, Step,
           pc \notin Over => \A t \in Tasks : effects[t] > 0 => task[t] # NoRow
    PROVE  OnceInv'
  <1> USE DEF RowsInv
  <1>1. SUFFICES ASSUME NEW t \in Tasks
                 PROVE  effects'[t] <= 1 /\ (effects'[t] > 0 /\ pc' \notin Over => Spent(t)')
    BY DEF OnceInv
  <1>2. CASE pc \in Over
    <2>1. EngineStep
      BY <1>2
         DEF Over, Step, Setup, StartRun, Compile, Register, Plan, Run, DetectCycles, Schedule,
             Iterate, Promote, Block, BeginRequeue, Visit, Requeue, SelectReady, EndIteration,
             Work, Claim, Propose, AskModel, Verify, Execute, PostVerify, RecordIdempotency,
             CommitTask, RetryLater, Decide
    <2>2. QED
      BY <1>2, <2>1, EngineCases DEF OnceInv
  <1>3. CASE pc \notin Over /\ Execute /\ t = current
    <2>1. /\ pc = "execute" /\ pc' = "post" /\ t = current' /\ UNCHANGED vars
          /\ \/ succeeded' /\ effects' = [effects EXCEPT ![current] = @ + 1]
             \/ effects' = effects
      BY <1>3 DEF Execute
    <2>2. owner[t] = wf /\ Status(t) = "executing"
      BY <1>3, <2>1 DEF OwnedInv, Dispatching, Placed
    <2>3. effects[t] \in Nat /\ effects[t] = 0
      BY <1>3, <2>1, <2>2 DEF OnceInv, Spent, RunTypeOK
    <2>4. QED
      BY <2>1, <2>3 DEF Spent, Running, RunTypeOK
  <1>4. CASE pc \notin Over /\ ~(Execute /\ t = current)
    <2>1. effects'[t] = effects[t]
      BY <1>4, StoresGrow DEF Execute, RunTypeOK
    <2>2. QED
      BY <1>4, <2>1, StepSpent DEF OnceInv
  <1>5. QED
    BY <1>2, <1>3, <1>4

----------------------------------------------------------------------------
(* A quiet end.                                                            *)

\* Where a task can rest between two visits of the loop, and where _execute_task has it.
Resting == {"pending", "ready", "retry_wait", "committed", "rejected", "failed", "blocked"}
AtWork == Dispatching \ {"dispatch"}

\* Only the task at work is between two statuses.
RestInv == pc \in Running =>
    \A t \in Tasks : Status(t) \in Resting \/ (t = current /\ pc \in AtWork)

\* Of what t depends on, something is not committed and nothing has failed.
Unmet(t) == /\ \E d \in deps[t] : Status(d) # "committed"
            /\ \A d \in deps[t] : Status(d) # "failed"

\* In an iteration that has promoted nothing yet, promote_pending has found nothing to do
\* about the tasks it has visited.
PassInv == pc \in {"promote", "block", "requeue"} /\ promoted = 0 =>
    \A t \in Tasks :
        Status(t) = "pending" /\ (pc \in {"promote", "block"} => t \notin todo) => Unmet(t)

\* In one that has requeued nothing yet, the tasks that wait for a retry are still to visit.
RetryInv == pc = "requeue" /\ retried = 0 =>
    \A t \in Tasks : owner[t] = wf /\ Status(t) = "retry_wait" => t \in todo

QuietInv == RestInv /\ PassInv /\ RetryInv /\ (pc = "verdict" => Ready) /\ QuiescentVerdict

LEMMA StepRest ==
    ASSUME RowsInv, RestInv, Step
    PROVE  RestInv'
  <1> USE DEF RowsInv
  <1>1. SUFFICES ASSUME pc' \in Running, NEW t \in Tasks
                 PROVE  Status(t)' \in Resting \/ (t = current' /\ pc' \in AtWork)
    BY DEF RestInv
  <1> USE DEF Goto, runVars
  <1>2. CASE pc \notin Running
    BY <1>1, <1>2, BeginsToRun DEF Resting
  <1>3. CASE pc \in Running /\ EngineStep
    BY <1>3, EngineKeepsStatus, EngineCases DEF RestInv
  <1>4. CASE pc \in Running /\ (Setup \/ Decide)
    BY <1>4, VerdictKeepsStatus DEF RestInv, AtWork, Dispatching
  <1>5. CASE Iterate \/ BeginRequeue \/ SelectReady \/ EndIteration \/ Execute
             \/ RecordIdempotency
    <2>1. /\ UNCHANGED vars /\ pc \in Running
          /\ pc \in AtWork => pc' \in AtWork /\ current' = current
      BY <1>5 DEF Iterate, BeginRequeue, Visit, SelectReady, EndIteration, Execute,
                  RecordIdempotency, Running, AtWork, Dispatching
    <2>2. QED
      BY <2>1, QuietKeepsStatus DEF RestInv
  <1>6. CASE Promote
    <2>1. /\ pc = "promote"
          /\ \/ UNCHANGED vars
             \/ SetTask(FirstOf(todo), "ready") /\ FirstOf(todo) \in Tasks
      BY <1>6, FirstOfTodo DEF Promote
    <2>2. Status(t) \in Resting
      BY <2>1 DEF RestInv, Running, AtWork, Dispatching
    <2>3. QED
      BY <2>1, <2>2, QuietKeepsStatus, StatusMoves DEF TaskStatus, Resting
  <1>7. CASE Requeue \/ Claim
    <2>1. PICK u \in Tasks : \/ SetTask(u, "ready")
                             \/ SetTask(u, "claimed") /\ current' = u /\ pc' = "propose"
      BY <1>7 DEF Requeue, Claim, RunTypeOK
    <2>2. Status(t) \in Resting
      BY <1>7 DEF Requeue, Claim, RestInv, Running, AtWork, Dispatching
    <2>3. QED
      BY <2>1, <2>2, StatusMoves DEF TaskStatus, Resting, AtWork, Dispatching
  <1>8. CASE Block \/ Propose \/ AskModel \/ Verify \/ PostVerify \/ CommitTask \/ RetryLater
    <2>1. PICK target \in TaskStatus :
             /\ SetTask(current, target) /\ current' = current /\ pc \in Running
             /\ target \in Resting \/ pc' \in AtWork
      BY <1>8 DEF Block, Propose, AskModel, Verify, PostVerify, CommitTask, RetryLater,
                  TaskStatus, Resting, AtWork, Dispatching, Running
    <2>2. QED
      BY <2>1, StatusMoves DEF RestInv, RunTypeOK
  <1>9. QED
    BY <1>2, <1>3, <1>4, <1>5, <1>6, <1>7, <1>8 DEF Step, Schedule, Work

\* What a task depends on is met or not as before if none of it changes to or from a status
\* that ends it.
LEMMA StaysUnmet ==
    ASSUME RunTypeOK, UNCHANGED deps, NEW t \in Tasks, Unmet(t),
           \A u \in Tasks : \A s \in {"committed", "failed"} : Status(u)' = s <=> Status(u) = s
    PROVE  Unmet(t)'
  BY DepsAreTasks DEF Unmet

LEMMA StepPass ==
    ASSUME RowsInv, PassInv, Step
    PROVE  PassInv'
  <1> USE DEF RowsInv, Goto, runVars
  <1>1. SUFFICES ASSUME pc' \in {"promote", "block", "requeue"}, promoted' = 0,
                        NEW t \in Tasks, Status(t)' = "pending",
                        pc' \in {"promote", "block"} => t \notin todo'
                 PROVE  Unmet(t)'
    BY DEF PassInv
  <1>2. UNCHANGED deps
    BY StepKinds
  <1>3. CASE EngineStep
    <2>1. pc \in Running /\ UNCHANGED <<pc, todo, promoted>>
      BY <1>1, <1>3, EngineCases DEF Running
    <2>2. \A u \in Tasks : Status(u)' = Status(u)
      BY <1>3, <2>1, EngineKeepsStatus
    <2>3. Unmet(t)
      BY <1>1, <2>1, <2>2 DEF PassInv
    <2>4. QED
      BY <1>2, <2>2, <2>3, StaysUnmet
  <1>4. CASE Iterate
    BY <1>1, <1>4 DEF Iterate
  <1>5. CASE BeginRequeue
    <2>1. UNCHANGED <<vars, promoted>> /\ pc = "promote" /\ todo = {}
      BY <1>5 DEF BeginRequeue, Visit
    <2>2. \A u \in Tasks : Status(u)' = Status(u)
      BY <2>1, QuietKeepsStatus
    <2>3. QED
      BY <1>1, <1>2, <2>1, <2>2, StaysUnmet DEF PassInv
  <1>6. CASE Promote
    <2>0. PICK v \in Tasks : v = FirstOf(todo) /\ v \in todo
      BY <1>6, FirstOfTodo DEF Promote
    <2>1. /\ Ready /\ pc = "promote" /\ promoted \in Nat
          /\ todo' = todo \ {v} /\ todo \subseteq Tasks
      BY <1>6, <2>0 DEF Promote, RunTypeOK
    <2>2. \/ /\ task[v] = "pending" /\ SetTask(v, "ready") /\ promoted' \in {promoted, promoted + 1}
             /\ promoted' = promoted => pc' = "block"
          \/ /\ UNCHANGED <<vars, promoted>>
             /\ task[v] # "pending" \/ (~DepsSatisfied(v) /\ ~HasFailedDep(v))
      BY <1>6, <2>0, <2>1 DEF Promote
    <2>3. promoted = 0
      BY <1>1, <2>1, <2>2
    <2>4. CASE UNCHANGED vars
      <3>1. \A u \in Tasks : Status(u)' = Status(u) /\ Status(u) = task[u]
        BY <2>1, <2>4, QuietKeepsStatus, ReadyStatus
      <3>2. ASSUME t = v
            PROVE  Unmet(t)
        <4>1. ~SetTask(v, "ready")
          BY <2>1, <3>1, TaskCallBegins, <1>1, <3>2 DEF TaskStatus
        <4>2. ~DepsSatisfied(v) /\ ~HasFailedDep(v)
          BY <1>1, <2>2, <3>1, <3>2, <4>1
        <4>3. QED
          BY <2>1, <3>1, <3>2, <4>2, DepsAreTasks DEF Unmet, DepsSatisfied, HasFailedDep
      <3>3. ASSUME t # v
            PROVE  Unmet(t)
        BY <1>1, <2>1, <2>3, <3>1, <3>3, <1>6 DEF PassInv, Promote
      <3>4. QED
        BY <1>2, <3>1, <3>2, <3>3, StaysUnmet
    <2>5. CASE task[v] = "pending" /\ SetTask(v, "ready") /\ pc' = "block"
      <3>1. /\ Status(v)' = "ready" /\ Status(v) = "pending"
            /\ \A u \in Tasks : u # v => Status(u)' = Status(u)
        BY <2>1, <2>5, StatusMoves, ReadyStatus DEF TaskStatus
      <3>2. t # v
        BY <1>1, <3>1
      <3>3. Unmet(t)
        BY <1>1, <2>1, <2>3, <2>5, <3>1, <3>2 DEF PassInv
      <3>4. \A u \in Tasks : \A s \in {"committed", "failed"} : Status(u)' = s <=> Status(u) = s
        BY <3>1
      <3>5. QED
        BY <1>2, <3>3, <3>4, StaysUnmet
    <2>6. QED
      BY <1>1, <2>1, <2>2, <2>3, <2>4, <2>5
  <1>7. CASE Block
    <2>1. /\ pc = "block" /\ pc' = "promote" /\ SetTask(current, "blocked") /\ current \in Tasks
          /\ UNCHANGED <<todo, current, promoted>> /\ Status(current) = "ready"
      BY <1>7 DEF Block, RunTypeOK, Placed
    <2>2. /\ Status(current)' = "blocked"
          /\ \A u \in Tasks : u # current => Status(u)' = Status(u)
      BY <2>1, StatusMoves DEF TaskStatus
    <2>3. Unmet(t)
      BY <1>1, <2>1, <2>2 DEF PassInv
    <2>4. \A u \in Tasks : \A s \in {"committed", "failed"} : Status(u)' = s <=> Status(u) = s
      BY <2>1, <2>2
    <2>5. QED
      BY <1>2, <2>3, <2>4, StaysUnmet
  <1>8. CASE Requeue
    <2>1. PICK v \in todo : SetTask(v, "ready")
      BY <1>8 DEF Requeue
    <2>2. /\ pc = "requeue" /\ promoted' = promoted /\ v \in Tasks /\ Status(v) = "retry_wait"
      BY <1>8, <2>1 DEF Requeue, RunTypeOK, Placed
    <2>3. Status(v)' = "ready" /\ \A u \in Tasks : u # v => Status(u)' = Status(u)
      BY <2>1, <2>2, StatusMoves DEF TaskStatus
    <2>4. Unmet(t)
      BY <1>1, <2>2, <2>3 DEF PassInv
    <2>5. \A u \in Tasks : \A s \in {"committed", "failed"} : Status(u)' = s <=> Status(u) = s
      BY <2>2, <2>3
    <2>6. QED
      BY <1>2, <2>4, <2>5, StaysUnmet
  <1>9. CASE SelectReady \/ EndIteration \/ Setup \/ Work \/ Decide
    BY <1>1, <1>9
       DEF SelectReady, EndIteration, Setup, StartRun, Compile, Register, Plan, Run,
           DetectCycles, Work, Claim, Propose, AskModel, Verify, Execute, PostVerify,
           RecordIdempotency, CommitTask, RetryLater, Decide
  <1>10. QED
    BY <1>3, <1>4, <1>5, <1>6, <1>7, <1>8, <1>9 DEF Step, Schedule

LEMMA StepRetry ==
    ASSUME RowsInv, OwnedInv, RetryInv, Step
    PROVE  RetryInv'
  <1> USE DEF RowsInv, Goto, runVars
  <1>1. SUFFICES ASSUME pc' = "requeue", retried' = 0, NEW t \in Tasks,
                        owner'[t] = wf', Status(t)' = "retry_wait"
                 PROVE  t \in todo'
    BY DEF RetryInv
  <1>2. CASE EngineStep
    <2>1. pc = "requeue" /\ pc \in Running /\ UNCHANGED <<wf, todo, retried>>
      BY <1>1, <1>2, EngineCases DEF Running
    <2>2. Status(t)' = Status(t) /\ owner'[t] = owner[t]
      BY <1>2, <2>1, EngineKeepsStatus, OwnerStep DEF OwnedInv
    <2>3. QED
      BY <1>1, <2>1, <2>2 DEF RetryInv
  <1>3. CASE BeginRequeue
    <2>1. UNCHANGED <<vars, wf>> /\ Ready /\ todo' = Owned("retry_wait")
      BY <1>3 DEF BeginRequeue, Visit
    <2>2. Status(t)' = task[t] /\ owner' = owner
      BY <2>1, QuietKeepsStatus, ReadyStatus DEF vars
    <2>3. QED
      BY <1>1, <2>1, <2>2 DEF Owned
  <1>4. CASE Requeue
    BY <1>1, <1>4 DEF Requeue, RunTypeOK
  <1>5. CASE Iterate \/ Promote \/ Block \/ SelectReady \/ EndIteration \/ Setup \/ Work \/ Decide
    BY <1>1, <1>5
       DEF Iterate, Promote, Block, SelectReady, EndIteration, Setup, StartRun, Compile,
           Register, Plan, Run, DetectCycles, Work, Claim, Propose, AskModel, Verify, Execute,
           PostVerify, RecordIdempotency, CommitTask, RetryLater, Decide
  <1>6. QED
    BY <1>2, <1>3, <1>4, <1>5 DEF Step, Schedule

\* The loop goes to its verdict from the bound, or from an iteration that found nothing.
LEMMA StepQuiet ==
    ASSUME RowsInv, OwnedInv, QuietInv, Step
    PROVE  QuietInv'
  <1> USE DEF RowsInv, Goto, runVars
  <1>1. RestInv' /\ PassInv' /\ RetryInv'
    BY StepRest, StepPass, StepRetry DEF QuietInv
  <1>2. SUFFICES ASSUME pc' = "verdict"
                 PROVE  Ready' /\ QuiescentVerdict'
    BY <1>1 DEF QuietInv, QuiescentVerdict
  <1>3. CASE EngineStep
    BY <1>2, <1>3, ReadyNoEngine, EngineCases DEF QuietInv
  <1>4. CASE Iterate
    BY <1>2, <1>4, MaxIterationsIsNat DEF Iterate, Ready, vars, QuiescentVerdict, RunTypeOK,
                                          MaxIterations
  <1>5. CASE SelectReady
    <2>1. /\ Ready /\ UNCHANGED <<vars, wf, deps>> /\ pc = "requeue" /\ todo = {}
          /\ Owned("ready") = {} /\ promoted = 0 /\ retried = 0
      BY <1>2, <1>5 DEF SelectReady
    <2>2. Ready'
      BY <2>1 DEF Ready, vars
    <2>3. ASSUME NEW t \in Tasks, owner[t] = wf
          PROVE  /\ task[t] \in {"pending", "committed", "rejected", "failed", "blocked"}
                 /\ task[t] = "pending" => ~DepsSatisfied(t) /\ ~HasFailedDep(t)
      <3>1. \A u \in Tasks : Status(u) = task[u]
        BY <2>1, ReadyStatus
      <3>2. task[t] \in Resting
        BY <2>1, <3>1 DEF QuietInv, RestInv, Running, AtWork, Dispatching
      <3>3. task[t] # "ready" /\ task[t] # "retry_wait"
        BY <2>1, <2>3, <3>1 DEF QuietInv, RetryInv, Owned
      <3>4. task[t] = "pending" => Unmet(t)
        BY <2>1, <3>1 DEF QuietInv, PassInv
      <3>5. Unmet(t) => ~DepsSatisfied(t) /\ ~HasFailedDep(t)
        BY <3>1, DepsAreTasks DEF Unmet, DepsSatisfied, HasFailedDep
      <3>6. QED
        BY <3>2, <3>3, <3>4, <3>5 DEF Resting
    <2>4. QED
      BY <2>1, <2>2, <2>3 DEF QuiescentVerdict, vars, DepsSatisfied, HasFailedDep
  <1>6. CASE Setup \/ Promote \/ Block \/ BeginRequeue \/ Requeue \/ EndIteration \/ Work \/ Decide
    BY <1>2, <1>6
       DEF Setup, StartRun, Compile, Register, Plan, Run, DetectCycles, Promote, Block,
           BeginRequeue, Visit, Requeue, EndIteration, Work, Claim, Propose, AskModel, Verify,
           Execute, PostVerify, RecordIdempotency, CommitTask, RetryLater, Decide
  <1>7. QED
    BY <1>3, <1>4, <1>5, <1>6 DEF Step, Schedule

----------------------------------------------------------------------------
(* One run, seen as the execution of a plan.                               *)

\* Where a run has not started its loop.
Early == {"create", "compile", "register", "plan", "run", "detect"}

Done == {t \in Tasks : EverRecorded(wf, t, "committed")}

\* The workflow gets its last status.
Outcome == {"completed", "failed"}
Ending == Writes /\ call[Runtime].event.task = None /\ call[Runtime].event.to \in Outcome

\* The first run owns what it registers, and commits in its loop.
FirstInv ==
    /\ wf = FirstOf(Workflows)
    /\ \A t \in Tasks : owner[t] \in {None, wf}
    /\ pc \in Early => \A t \in Tasks : ~EverRecorded(wf, t, "committed") /\ ~Committing(t)

\* A commit is recorded once, after the commits it depends on.
DoneInv ==
    /\ pc \in Running =>
          \A t \in Tasks : EverRecorded(wf, t, "committed") =>
              /\ Status(t) = "committed"
              /\ call[Runtime].step = "validated" => call[Runtime].event.task # t
    /\ \A t \in Tasks : Committing(t) => Eligible(t)

\* The outcome is written last, and says whether every task is done.
OutcomeInv ==
    /\ Ending => pc = "done"
    /\ workflow[wf] \in Outcome => pc = "done" /\ Ready
    /\ pc = "done" /\ ~Ready => Ending
    /\ Ending => (call[Runtime].event.to = "completed" <=> Done = Tasks)

\* A run goes forward through its first places.
LEMMA StaysEarly ==
    ASSUME RunTypeOK, Step, pc' \in Early
    PROVE  pc \in Early /\ ~CommitTask
  BY DEF Early, Step, EngineStep, runVars, Setup, StartRun, Compile, Register, Plan, Run,
         DetectCycles, Schedule, Iterate, Promote, Block, BeginRequeue, Visit, Requeue,
         SelectReady, EndIteration, Work, Claim, Propose, AskModel, Verify, Execute,
         PostVerify, RecordIdempotency, CommitTask, RetryLater, Decide, Goto

LEMMA StepFirst ==
    ASSUME RunTypeOK, CallInv, FirstInv, Step
    PROVE  FirstInv'
  <1>1. UNCHANGED wf /\ wf \in Workflows
    BY StepKinds DEF RunTypeOK
  <1>2. \A t \in Tasks : owner'[t] \in {None, wf}
    BY OwnerStep DEF FirstInv
  <1>3. ASSUME pc' \in Early, NEW t \in Tasks
        PROVE  ~EverRecorded(wf, t, "committed")' /\ ~Committing(t)'
    <2>1. ~EverRecorded(wf, t, "committed") /\ ~Committing(t) /\ ~CommitTask
      BY <1>3, StaysEarly DEF FirstInv
    <2>2. /\ EverRecorded(wf, t, "committed")' =>
                 EverRecorded(wf, t, "committed") \/ Committing(t)
          /\ Committing(t)' => Committing(t) \/ CommitTask
      BY <1>1, CommitStages
    <2>3. QED
      BY <2>1, <2>2
  <1>4. QED
    BY <1>1, <1>2, <1>3 DEF FirstInv

LEMMA StepDone ==
    ASSUME RowsInv, FirstInv, DoneInv, Step
    PROVE  DoneInv'
  <1> USE DEF RowsInv
  <1>1. UNCHANGED <<wf, deps>> /\ wf \in Workflows
    BY StepKinds DEF RunTypeOK
  <1>2. ASSUME NEW t \in Tasks, Committing(t)'
        PROVE  Eligible(t)
    <2>1. CASE Committing(t)
      BY <2>1 DEF DoneInv
    <2>2. CASE CommitTask /\ t = current
      BY <2>2 DEF CommitTask, Placed, PromotedInv, Going, Running
    <2>3. QED
      BY <1>2, <2>1, <2>2, CommitStages
  <1>3. ASSUME pc' \in Running, NEW t \in Tasks, EverRecorded(wf, t, "committed")'
        PROVE  /\ Status(t)' = "committed"
               /\ call'[Runtime].step = "validated" => call'[Runtime].event.task # t
    <2>1. CASE pc \notin Running
      <3>1. pc \in Early /\ ~EngineStep
        BY <1>3, <2>1, BeginsToRun, ReadyNoEngine DEF Early
      <3>2. ~EverRecorded(wf, t, "committed") /\ ~Committing(t)
        BY <3>1 DEF FirstInv
      <3>3. QED
        BY <1>1, <1>3, <3>2, CommitStages
    <2>2. CASE pc \in Running /\ EngineStep
      <3>1. Status(t)' = Status(t) /\ call'[Runtime].step # "validated"
        <4>1. call'[Runtime].step # "validated"
          BY <2>2, EngineCases, AppendStep, ProjectStep, RegisterStep, IdleShape DEF Running
        <4>2. QED
          BY <2>2, <4>1, EngineKeepsStatus
      <3>2. CASE EverRecorded(wf, t, "committed")
        BY <2>2, <3>1, <3>2 DEF DoneInv
      <3>3. CASE ~EverRecorded(wf, t, "committed")
        <4>1. Committing(t)
          BY <1>1, <1>3, <3>3, CommitStages
        <4>2. QED
          BY <3>1, <4>1 DEF Committing, Status
      <3>4. QED
        BY <3>2, <3>3
    <2>3. CASE pc \in Running /\ ~EngineStep
      <3>1. EverRecorded(wf, t, "committed")
        BY <1>1, <1>3, <2>3, NewlyRecorded
      <3>2. Status(t) = "committed"
        BY <2>3, <3>1 DEF DoneInv
      <3>3. CASE UNCHANGED vars /\ Ready
        BY <3>2, <3>3, QuietKeepsStatus, IdleShape DEF Ready, vars
      <3>4. ASSUME NEW u \in Tasks, NEW target \in TaskStatus, SetTask(u, target)
            PROVE  Status(t)' = "committed" /\ call'[Runtime].event.task # t
        <4>1. u # t
          BY <3>2, <3>4, CommittedIsFinal
        <4>2. QED
          BY <3>2, <3>4, <4>1, TaskCallBegins
      <3>5. ASSUME NEW from \in WorkflowStatus, NEW to \in WorkflowStatus,
                   Validated(Runtime, wf, WorkflowEvent(from, to, "none"))
            PROVE  Status(t)' = "committed" /\ call'[Runtime].event.task # t
        BY <3>2, <3>5, WorkflowCallBegins, NoneIsNoTask
      <3>6. ~Register
        BY <2>3 DEF Register, Running
      <3>7. QED
        BY <2>3, <3>3, <3>4, <3>5, <3>6, StepKinds
    <2>4. QED
      BY <2>1, <2>2, <2>3
  <1>4. \A t \in Tasks : Eligible(t) => Eligible(t)'
    BY StaysEligible
  <1>5. QED
    BY <1>1, <1>2, <1>3, <1>4 DEF DoneInv

\* A method that ends the workflow is begun by Decide, or by DetectCycles over a cycle.
LEMMA EndBegins ==
    ASSUME RunTypeOK, Step, ~EngineStep, pc' = "done"
    PROVE  /\ Ready /\ Writes' /\ UNCHANGED <<ledger, workflow, task, owner, wf>>
           /\ call'[Runtime].event.task = None
           /\ \/ pc = "detect" /\ call'[Runtime].event.to = "failed"
              \/ pc = "verdict" /\ call'[Runtime].event.to =
                    IF Owned("committed") = Tasks THEN "completed" ELSE "failed"
  <1> DEFINE target == IF pc = "detect" \/ Owned("committed") # Tasks
                       THEN "failed" ELSE "completed"
  <1>1. SetWorkflow(target) /\ pc \in {"detect", "verdict"} /\ UNCHANGED wf
    BY DEF Step, Setup, StartRun, Compile, Register, Plan, Run,
           DetectCycles, Schedule, Iterate, Promote, Block, BeginRequeue, Visit, Requeue,
           SelectReady, EndIteration, Work, Claim, Propose, AskModel, Verify, Execute,
           PostVerify, RecordIdempotency, CommitTask, RetryLater, Decide, Goto
  <1>2. target \in WorkflowStatus
    BY DEF WorkflowStatus
  <1> HIDE DEF target
  <1>3. /\ Ready /\ Writes' /\ UNCHANGED <<ledger, workflow, task, owner>>
        /\ call'[Runtime].event.task = None /\ call'[Runtime].event.to = target
    BY <1>1, <1>2, SetWorkflowBegins, WorkflowCallBegins
  <1>4. QED
    BY <1>1, <1>3 DEF target

\* No other method writes an outcome.
LEMMA OnlyEndBegins ==
    ASSUME RunTypeOK, Step, ~EngineStep, Ending'
    PROVE  pc' = "done"
  <1> USE DEF Goto
  <1>1. call'[Runtime].event.to \in Outcome /\ Writes' /\ call'[Runtime].event.task = None
    BY DEF Ending
  <1>2. ~(UNCHANGED vars /\ Ready) /\ ~Register
    BY <1>1, IdleShape, RegisterBegins DEF Ready, vars, Writes
  <1>3. ASSUME NEW t \in Tasks, NEW target \in TaskStatus
        PROVE  ~SetTask(t, target)
    BY <1>1, <1>3, TaskCallBegins, NoneIsNoTask
  <1>4. ASSUME NEW target \in WorkflowStatus \ Outcome
        PROVE  ~SetWorkflow(target)
    BY <1>1, <1>4, SetWorkflowBegins, WorkflowCallBegins
  <1>5. ~StartRun
    BY <1>1, CreateCallBegins, WorkflowCallBegins DEF StartRun, WorkflowStatus, Outcome
  <1>6. ~Compile /\ ~Plan /\ ~Run
    BY <1>4 DEF Compile, Plan, Run, WorkflowStatus, Outcome
  <1>7. DetectCycles \/ Decide
    BY <1>2, <1>3, <1>5, <1>6, StepKinds DEF Step, Setup, Schedule, Work, WorkflowMoves,
       Iterate, Promote, Block, BeginRequeue, Visit, Requeue, SelectReady, EndIteration,
       Claim, Propose, AskModel, Verify, Execute, PostVerify, RecordIdempotency, CommitTask,
       RetryLater
  <1>8. QED
    BY <1>2, <1>7 DEF DetectCycles, Decide

LEMMA DoneKept ==
    ASSUME RunTypeOK, CallInv, Step, \A t \in Tasks : ~(AppendEvent(Runtime) /\ Committing(t))
    PROVE  Done' = Done
  <1>1. UNCHANGED wf /\ wf \in Workflows
    BY StepKinds DEF RunTypeOK
  <1>2. ASSUME NEW t \in Tasks
        PROVE  EverRecorded(wf, t, "committed")' <=> EverRecorded(wf, t, "committed")
    <2>1. CASE UNCHANGED ledger
      BY <1>1, <2>1 DEF EverRecorded, Recorded
    <2>2. CASE AppendEvent(Runtime)
      BY <1>1, <2>2, NewlyRecorded, StaysRecorded DEF Committing
    <2>3. QED
      BY <2>1, <2>2, LedgerStep
  <1>3. QED
    BY <1>2 DEF Done

LEMMA StepOutcome ==
    ASSUME RowsInv, OwnedInv, VerdictInv, FirstInv, DoneInv, OutcomeInv, Step
    PROVE  OutcomeInv'
  <1> USE DEF RowsInv
  <1>1. UNCHANGED wf /\ wf \in Workflows
    BY StepKinds DEF RunTypeOK
  <1>2. CASE EngineStep
    <2>1. pc' = pc /\ ~Ready
      BY <1>2, EngineCases, ReadyNoEngine
    <2>2. CASE AppendEvent(Runtime)
      <3>1. /\ Writes /\ Writes' /\ call'[Runtime].event = call[Runtime].event
            /\ UNCHANGED workflow /\ ~Ready'
        BY <2>2, AppendStep, IdleShape DEF Ready
      <3>2. Ending' = Ending
        BY <3>1 DEF Ending
      <3>3. Ending => Done' = Done
        <4>1. ASSUME Ending, NEW t \in Tasks
              PROVE  ~Committing(t)
          BY <4>1, NoneIsNoTask DEF Ending, Committing
        <4>2. QED
          BY <1>2, <4>1, DoneKept
      <3>4. QED
        BY <1>1, <2>1, <3>1, <3>2, <3>3 DEF OutcomeInv
    <2>3. CASE Project(Runtime)
      <3>1. /\ Writes /\ ~Writes' /\ Ready'
            /\ workflow'[wf] = IF call[Runtime].event.task = None
                               THEN call[Runtime].event.to ELSE workflow[wf]
        BY <2>3, ProjectStep DEF RunTypeOK, TypeOK
      <3>2. ~Ending'
        BY <3>1 DEF Ending
      <3>3. workflow'[wf] \in Outcome => pc = "done"
        BY <3>1 DEF OutcomeInv, Ending
      <3>4. QED
        BY <1>1, <2>1, <3>1, <3>2, <3>3 DEF OutcomeInv
    <2>4. CASE RegisterNext(Runtime)
      <3>1. pc = "plan" /\ ~Writes' /\ UNCHANGED workflow
        BY <2>4, RegisterStep
      <3>2. QED
        BY <1>1, <2>1, <3>1 DEF OutcomeInv, Ending
    <2>5. QED
      BY <1>2, <2>2, <2>3, <2>4, EngineCases
  <1>3. CASE ~EngineStep /\ pc' = "done"
    <2> DEFINE to == call'[Runtime].event.to
    <2>1. /\ Ready /\ Writes' /\ UNCHANGED <<ledger, workflow, task, owner>>
          /\ call'[Runtime].event.task = None
          /\ \/ pc = "detect" /\ to = "failed"
             \/ pc = "verdict" /\ to = IF Owned("committed") = Tasks THEN "completed" ELSE "failed"
      BY <1>3, EndBegins
    <2>2. Done' = Done
      BY <1>1, <2>1 DEF Done, EverRecorded, Recorded
    <2>3. Ending' /\ ~Ready'
      BY <2>1, IdleShape DEF Ending, Ready, Writes, Outcome
    <2>4. workflow'[wf] \notin Outcome
      BY <2>1 DEF OutcomeInv
    <2>5. to = "completed" <=> Done = Tasks
      <3>1. CASE pc = "detect"
        BY <2>1, <3>1, TasksAssumption DEF Done, FirstInv, Early
      <3>2. CASE pc = "verdict" /\ Owned("committed") = Tasks
        BY <2>1, <3>2 DEF Owned, Done, CommitSeen, Running
      <3>3. CASE pc = "verdict" /\ Owned("committed") # Tasks
        <4>1. PICK t \in Tasks : owner[t] # wf \/ task[t] # "committed"
          BY <3>3 DEF Owned
        <4>2. owner[t] = wf
          BY <3>3 DEF OwnedInv, FirstInv, RunTypeOK, TypeOK, Running
        <4>3. Status(t) # "committed"
          BY <2>1, <4>1, <4>2, ReadyStatus
        <4>4. t \notin Done
          BY <3>3, <4>3 DEF Done, DoneInv, Running
        <4>5. QED
          BY <2>1, <3>3, <4>4
      <3>4. QED
        BY <2>1, <3>1, <3>2, <3>3
    <2>6. QED
      BY <1>1, <1>3, <2>2, <2>3, <2>4, <2>5 DEF OutcomeInv
  <1>4. CASE ~EngineStep /\ pc' # "done"
    <2>1. ~Ending'
      BY <1>4, OnlyEndBegins
    <2>2. UNCHANGED workflow /\ Ready
      BY <1>4, StepKinds, RegisterBegins, TaskCallBegins, WorkflowCallBegins DEF vars
    <2>3. pc # "done"
      BY <1>4 DEF Step, Setup, StartRun, Compile, Register, Plan, Run, DetectCycles, Schedule,
           Iterate, Promote, Block, BeginRequeue, Visit, Requeue, SelectReady, EndIteration,
           Work, Claim, Propose, AskModel, Verify, Execute, PostVerify, RecordIdempotency,
           CommitTask, RetryLater, Decide
    <2>4. QED
      BY <1>1, <1>4, <2>1, <2>2, <2>3 DEF OutcomeInv
  <1>5. QED
    BY <1>2, <1>3, <1>4

----------------------------------------------------------------------------
(* Theorems about one run.                                                 *)

RunInv == RowsInv /\ OwnedInv /\ QuietInv /\ VerdictInv /\ FirstInv /\ DoneInv /\ OutcomeInv

LEMMA RunAtFirst == RunInit => RunInv
  <1> SUFFICES ASSUME RunInit
               PROVE  RunInv
    OBVIOUS
  <1>1. RowsInv
    BY RowsAtFirst
  <1>2. /\ call[Runtime] = Idle /\ ~Writes /\ pc = "create" /\ wf = FirstOf(Workflows)
        /\ ledger = [w \in Workflows |-> <<>>] /\ workflow = [w \in Workflows |-> NoRow]
        /\ owner = [t \in Tasks |-> None]
    BY RuntimeIsClient, IdleShape DEF RunInit, Init, Writes
  <1>3. wf \in Workflows
    BY <1>1 DEF RowsInv, RunTypeOK
  <1>4. \A w \in Workflows : \A t, s : ~EverRecorded(w, t, s)
    BY <1>2 DEF EverRecorded, Recorded
  <1>5. \A w \in Workflows : workflow[w] \notin {"completed", "failed"}
    BY <1>2 DEF NoRow
  <1>6. OwnedInv
    BY <1>2 DEF OwnedInv, Running, Dispatching
  <1>7. QuietInv
    BY <1>2 DEF QuietInv, RestInv, PassInv, RetryInv, QuiescentVerdict, Running
  <1>8. VerdictInv
    BY <1>2, <1>4, <1>5 DEF VerdictInv, Completed, Completing, Running
  <1>9. FirstInv
    BY <1>2, <1>3, <1>4 DEF FirstInv, Committing
  <1>10. DoneInv
    BY <1>2 DEF DoneInv, Committing, Running
  <1>11. OutcomeInv
    BY <1>2, <1>3, <1>5 DEF OutcomeInv, Ending, Outcome
  <1>12. QED
    BY <1>1, <1>6, <1>7, <1>8, <1>9, <1>10, <1>11 DEF RunInv

\* A step that changes nothing keeps everything.
LEMMA StutterKeepsRun ==
    ASSUME RunInv, UNCHANGED allVars
    PROVE  RunInv'
  <1>1. UNCHANGED <<vars, deps, pc, wf, iteration, promoted, retried, todo, current,
                    succeeded, idempotency, effects>>
    BY DEF allVars, runVars, storeVars
  <1>2. UNCHANGED <<ledger, workflow, task, owner, call, overlapped, cut>>
    BY <1>1 DEF vars
  <1>3. /\ \A t \in Tasks : Status(t)' = Status(t) /\ Committing(t)' = Committing(t)
        /\ \A w, t, s : EverRecorded(w, t, s)' = EverRecorded(w, t, s)
        /\ Writes' = Writes /\ Ready' = Ready /\ HasCycle' = HasCycle /\ Done' = Done
    BY <1>1, <1>2 DEF Status, Committing, EverRecorded, Recorded, Writes, Ready, HasCycle, Done
  <1>4. RowsInv'
    BY <1>1, <1>2, <1>3
       DEF RunInv, RowsInv, RunTypeOK, TypeOK, CallInv, InLedger, PlanInv, CommitSeen, Placed,
           PromotedInv, Eligible
  <1>5. OwnedInv' /\ FirstInv'
    BY <1>1, <1>2, <1>3 DEF RunInv, OwnedInv, FirstInv
  <1>6. QuietInv'
    <2>1. RestInv' /\ RetryInv' /\ (pc = "verdict" => Ready)'
      BY <1>1, <1>2, <1>3 DEF RunInv, QuietInv, RestInv, RetryInv
    <2>2. \A t \in Tasks : Unmet(t) => Unmet(t)'
      BY <1>1, <1>3, DepsAreTasks DEF RunInv, RowsInv, Unmet
    <2>3. PassInv'
      BY <1>1, <1>3, <2>2 DEF RunInv, QuietInv, PassInv
    <2>4. QuiescentVerdict'
      BY <1>1, <1>2
         DEF RunInv, QuietInv, QuiescentVerdict, DepsSatisfied, HasFailedDep, MaxIterations
    <2>5. QED
      BY <2>1, <2>3, <2>4 DEF QuietInv
  <1>7. VerdictInv' /\ DoneInv' /\ OutcomeInv'
    BY <1>1, <1>2, <1>3
       DEF RunInv, VerdictInv, Completed, Completing, AllCommitted, DoneInv, Eligible,
           OutcomeInv, Ending
  <1>8. QED
    BY <1>4, <1>5, <1>6, <1>7 DEF RunInv

LEMMA StepRun ==
    ASSUME RunInv, Step
    PROVE  RunInv'
  BY StepRows, StepOwned, StepQuiet, StepVerdict, StepFirst, StepDone, StepOutcome
     DEF RunInv, RowsInv

LEMMA RunInvHolds == FairRunSpec => []RunInv
  <1>1. RunInv /\ [Step]_allVars => RunInv'
    BY StepRun, StutterKeepsRun
  <1>2. QED
    BY <1>1, RunAtFirst, PTL DEF FairRunSpec

\* When the loop of a run that nothing interrupts ends before its bound, it has left
\* nothing it could have done: for every plan, whatever fails.
THEOREM LoopEndsQuietly == FairRunSpec => []QuiescentVerdict
  <1>1. RunInv => QuiescentVerdict
    BY DEF RunInv, QuietInv
  <1>2. QED
    BY <1>1, RunInvHolds, PTL

\* Once the last method has returned, the row of the workflow has an outcome.
ReportInv == pc = "done" /\ Ready =>
    /\ workflow[wf] \in Outcome
    /\ workflow[wf] = "completed" <=> Done = Tasks

LEMMA StepReport ==
    ASSUME RunInv, ReportInv, Step
    PROVE  ReportInv'
  <1>1. RunTypeOK /\ CallInv /\ OutcomeInv /\ UNCHANGED wf /\ wf \in Workflows
    BY StepKinds DEF RunInv, RowsInv, RunTypeOK
  <1>2. SUFFICES ASSUME pc' = "done", Ready'
                 PROVE  /\ workflow'[wf] \in Outcome
                        /\ workflow'[wf] = "completed" <=> Done' = Tasks
    BY <1>1 DEF ReportInv
  <1>3. EngineStep
    BY <1>1, <1>2, EndBegins, IdleShape DEF Ready, Writes
  <1>4. pc = "done" /\ Ending
    BY <1>1, <1>2, <1>3, EngineCases, ReadyNoEngine DEF OutcomeInv
  <1>5. Project(Runtime)
    BY <1>1, <1>2, <1>3, <1>4, EngineCases, AppendStep, RegisterStep, IdleShape
       DEF Ready, Ending
  <1>6. /\ workflow'[wf] = call[Runtime].event.to /\ UNCHANGED ledger
        /\ call[Runtime].event.to \in Outcome
    BY <1>1, <1>4, <1>5, ProjectStep DEF Ending, RunTypeOK, TypeOK
  <1>7. Done' = Done
    BY <1>1, <1>6 DEF Done, EverRecorded, Recorded
  <1>8. QED
    BY <1>1, <1>4, <1>6, <1>7 DEF OutcomeInv

\* A run that has returned has recorded its verdict: completed if and only if every task of
\* the plan is committed, failed otherwise.
THEOREM RunsEndWithVerdict ==
    FairRunSpec => [](pc = "done" /\ Ready =>
                         /\ workflow[wf] \in {"completed", "failed"}
                         /\ workflow[wf] = "completed" <=>
                              \A t \in Tasks : EverRecorded(wf, t, "committed"))
  <1>1. RunInit => ReportInv
    BY DEF RunInit, ReportInv
  <1>2. RunInv /\ ReportInv /\ [Step]_allVars => ReportInv'
    <2>1. ASSUME ReportInv, UNCHANGED allVars
          PROVE  ReportInv'
      BY <2>1 DEF allVars, vars, runVars, ReportInv, Ready, Done, EverRecorded, Recorded
    <2>2. QED
      BY <2>1, StepReport
  <1>3. FairRunSpec => []ReportInv
    BY <1>1, <1>2, RunInvHolds, PTL DEF FairRunSpec
  <1>4. ReportInv => (pc = "done" /\ Ready =>
                         /\ workflow[wf] \in {"completed", "failed"}
                         /\ workflow[wf] = "completed" <=>
                              \A t \in Tasks : EverRecorded(wf, t, "committed"))
    BY DEF ReportInv, Outcome, Done
  <1>5. QED
    BY <1>3, <1>4, PTL

\* The engine's append of a commit is the commit of the plan's execution, its upsert of the
\* outcome is the report, and nothing else is seen from outside.
LEMMA StepMaps ==
    ASSUME RunInv, Step
    PROVE  Dag!Next \/ UNCHANGED Dag!vars
  <1> USE DEF RunInv, RowsInv
  <1> DEFINE verdict == IF workflow[FirstOf(Workflows)] \in {"completed", "failed"}
                        THEN workflow[FirstOf(Workflows)] ELSE "open"
             done == {t \in Tasks : EverRecorded(FirstOf(Workflows), t, "committed")}
  <1>1. UNCHANGED <<wf, deps>> /\ wf = FirstOf(Workflows) /\ wf \in Workflows
    BY StepKinds DEF FirstInv, RunTypeOK
  <1>2. done = Done /\ done' = Done'
    BY <1>1 DEF Done
  <1>3. CASE ~EngineStep
    <2>1. UNCHANGED <<ledger, workflow>>
      BY <1>3, StepKinds, RegisterBegins, TaskCallBegins, WorkflowCallBegins DEF vars
    <2>2. verdict' = verdict /\ done' = done
      BY <2>1 DEF EverRecorded, Recorded
    <2>3. QED
      BY <1>1, <2>2 DEF Dag!vars
  <1>4. CASE EngineStep
    <2>1. ~Ready
      BY <1>4, ReadyNoEngine
    <2>2. verdict = "open"
      BY <1>1, <2>1 DEF OutcomeInv, Outcome
    <2>3. CASE AppendEvent(Runtime)
      <3>1. /\ UNCHANGED workflow /\ Writes /\ call[Runtime].step = "validated"
        BY <2>3, AppendStep
      <3>2. verdict' = verdict
        BY <3>1
      <3>3. CASE \E t \in Tasks : Committing(t)
        <4>1. PICK t \in Tasks : Committing(t)
          BY <3>3
        <4>2. call[Runtime].event.task = t /\ call[Runtime].event.to = "committed" /\ pc \in Running
          BY <4>1, NoneIsNoTask DEF Committing, CallInv
        <4>3. t \notin Done
          BY <3>1, <4>2 DEF Done, DoneInv
        <4>4. deps[t] \subseteq Done
          BY <4>1, DepsAreTasks DEF DoneInv, Eligible, Done
        <4>5. EverRecorded(wf, t, "committed")'
          <5>1. Len(ledger[wf]) \in Nat /\ Len(ledger'[wf]) = Len(ledger[wf]) + 1
            BY <1>1, <2>3, AppendToLedger
          <5>2. ledger'[wf][Len(ledger[wf]) + 1] = call[Runtime].event
            BY <2>3, AppendToLedger
          <5>3. Len(ledger[wf]) + 1 \in 1..Len(ledger'[wf])
            BY <5>1
          <5>4. QED
            BY <1>1, <4>2, <5>1, <5>2, <5>3 DEF EverRecorded, Recorded
        <4>6. ASSUME NEW u \in Tasks
              PROVE  EverRecorded(wf, u, "committed")' <=>
                        (EverRecorded(wf, u, "committed") \/ u = t)
          BY <1>1, <4>2, <4>5, NewlyRecorded, StaysRecorded
        <4>7. Done' = Done \cup {t}
          BY <1>1, <4>6 DEF Done
        <4>8. Dag!Commit(t)
          BY <1>1, <1>2, <2>2, <3>2, <4>3, <4>4, <4>7 DEF Dag!Commit
        <4>9. QED
          BY <4>8 DEF Dag!Next
      <3>4. CASE \A t \in Tasks : ~Committing(t)
        BY <1>1, <1>2, <3>2, <3>4, DoneKept DEF Dag!vars
      <3>5. QED
        BY <3>3, <3>4
    <2>4. CASE Project(Runtime)
      <3>1. /\ UNCHANGED ledger /\ Writes
            /\ workflow'[wf] = IF call[Runtime].event.task = None
                               THEN call[Runtime].event.to ELSE workflow[wf]
        BY <1>1, <2>4, ProjectStep DEF RunTypeOK, TypeOK
      <3>2. done' = done
        BY <3>1 DEF EverRecorded, Recorded
      <3>3. CASE Ending
        <4>1. verdict' = call[Runtime].event.to
          BY <1>1, <3>1, <3>3 DEF Ending, Outcome
        <4>2. verdict' = IF done = Tasks THEN "completed" ELSE "failed"
          BY <1>2, <3>3, <4>1 DEF OutcomeInv, Ending, Outcome
        <4>3. QED
          BY <1>1, <2>2, <3>2, <4>2 DEF Dag!Next, Dag!Report
      <3>4. CASE ~Ending
        <4>1. verdict' = verdict
          BY <1>1, <2>1, <2>2, <3>1, <3>4 DEF Ending, Outcome, OutcomeInv
        <4>2. QED
          BY <1>1, <3>2, <4>1 DEF Dag!vars
      <3>5. QED
        BY <3>3, <3>4
    <2>5. CASE RegisterNext(Runtime)
      <3>1. UNCHANGED <<ledger, workflow>>
        BY <2>5, RegisterStep
      <3>2. verdict' = verdict /\ done' = done
        BY <3>1 DEF EverRecorded, Recorded
      <3>3. QED
        BY <1>1, <3>2 DEF Dag!vars
    <2>6. QED
      BY <1>4, <2>3, <2>4, <2>5, EngineCases
  <1>5. QED
    BY <1>3, <1>4

\* However tasks fail, are retried or are blocked, a run commits tasks one at a time, each
\* after everything it depends on, and reports completed exactly if it committed them all.
THEOREM RunImplementsDag == FairRunSpec => ImplementsDag
  <1>1. RunInit => Dag!Init
    <2> SUFFICES ASSUME RunInit
                 PROVE  Dag!Init
      OBVIOUS
    <2>1. deps \in [Tasks -> SUBSET Tasks]
      BY GraphsAssumption DEF RunInit
    <2>2. /\ ledger = [w \in Workflows |-> <<>>] /\ workflow = [w \in Workflows |-> NoRow]
          /\ FirstOf(Workflows) \in Workflows
      BY FirstOfIsIn, WorkflowsAssumption DEF RunInit, Init
    <2>3. QED
      BY <2>1, <2>2 DEF Dag!Init, EverRecorded, Recorded, NoRow
  <1>2. RunInv /\ [Step]_allVars => [Dag!Next]_(Dag!vars)
    <2> SUFFICES ASSUME RunInv, [Step]_allVars
                 PROVE  Dag!Next \/ UNCHANGED Dag!vars
      OBVIOUS
    <2>1. CASE Step
      BY <2>1, StepMaps
    <2>2. CASE UNCHANGED allVars
      <3>1. UNCHANGED <<ledger, workflow, deps>>
        BY <2>2 DEF allVars, vars
      <3>2. QED
        BY <3>1 DEF Dag!vars, EverRecorded, Recorded
    <2>3. QED
      BY <2>1, <2>2
  <1>3. QED
    BY <1>1, <1>2, RunInvHolds, PTL DEF FairRunSpec, ImplementsDag, Dag!Spec

----------------------------------------------------------------------------
(* What run_goal asks for.                                                 *)

\* The status the workflow of the run has, or will have when the method that is under way
\* returns.
Heading == IF Writes /\ call[Runtime].event.task = None THEN call[Runtime].event.to
                                                        ELSE WorkflowCurrent(wf)

\* The status run_goal expects at each of its places.
Underway == Running \cup {"compile", "register", "plan"}
Expected == CASE pc = "compile" -> "created"
              [] pc \in {"register", "plan"} -> "compiled"
              [] pc = "run" -> "planned"
              [] OTHER -> "running"

\* A new run has a new ledger; from then on its workflow is known and on its way.
PathInv ==
    /\ pc = "create" => ~Known(wf)
    /\ pc = "compile" => Known(wf) \/ ~Ready
    /\ pc \in Underway \ {"compile"} => Known(wf)
    /\ pc \in Underway => Heading = Expected

LEMMA EngineKeepsPath ==
    ASSUME RunTypeOK, CallInv, PathInv, EngineStep
    PROVE  PathInv'
  <1>1. UNCHANGED <<pc, wf>> /\ wf \in Workflows /\ ~Ready
    BY EngineCases, ReadyNoEngine DEF RunTypeOK
  <1>2. CASE AppendEvent(Runtime)
    <2>1. /\ Writes /\ Writes' /\ call'[Runtime].event = call[Runtime].event
          /\ UNCHANGED workflow /\ pc # "create"
      BY <1>1, <1>2, AppendStep DEF CallInv, Ready
    <2>2. Known(wf)'
      BY <1>1, <1>2, AppendToLedger DEF Known
    <2>3. Heading' = Heading
      BY <1>1, <2>1 DEF Heading, WorkflowCurrent
    <2>4. QED
      BY <1>1, <2>1, <2>2, <2>3 DEF PathInv, Expected, Underway, Running
  <1>3. CASE Project(Runtime)
    <2> DEFINE e == call[Runtime].event
    <2>1. /\ Writes /\ ~Writes' /\ call[Runtime].step = "logged" /\ e \in Event
          /\ UNCHANGED ledger /\ pc # "create"
          /\ e.task = None => workflow' = [workflow EXCEPT ![wf] = e.to]
          /\ e.task # None => UNCHANGED workflow
      BY <1>1, <1>3, ProjectStep DEF CallInv, Ready
    <2>2. Known(wf)'
      BY <2>1, <1>1 DEF CallInv, InLedger, Known
    <2>3. Heading' = Heading
      <3>1. CASE e.task = None
        <4>1. e.to \in WorkflowStatus
          BY <2>1, <3>1, EventShape, NoneIsNoTask
        <4>2. workflow'[wf] = e.to /\ e.to # NoRow
          BY <1>1, <2>1, <3>1, <4>1 DEF RunTypeOK, TypeOK, WorkflowStatus, NoRow
        <4>3. QED
          BY <1>1, <2>1, <3>1, <4>2 DEF Heading, WorkflowCurrent
      <3>2. CASE e.task # None
        BY <1>1, <2>1, <3>2 DEF Heading, WorkflowCurrent
      <3>3. QED
        BY <3>1, <3>2
    <2>4. QED
      BY <1>1, <2>1, <2>2, <2>3 DEF PathInv, Expected, Underway, Running
  <1>4. CASE RegisterNext(Runtime)
    <2>1. pc = "plan" /\ ~Writes /\ ~Writes' /\ UNCHANGED <<ledger, workflow>>
      BY <1>4, RegisterStep
    <2>2. QED
      BY <1>1, <2>1 DEF PathInv, Expected, Underway, Running, Heading, WorkflowCurrent, Known
  <1>5. QED
    BY <1>2, <1>3, <1>4, EngineCases

LEMMA StepPath ==
    ASSUME RunTypeOK, CallInv, PathInv, Step
    PROVE  PathInv'
  <1> USE DEF Goto
  <1>1. CASE EngineStep
    BY <1>1, EngineKeepsPath
  <1>2. CASE ~EngineStep
    <2>1. /\ Ready /\ ~Writes /\ UNCHANGED <<wf, ledger, workflow>>
          /\ Heading = WorkflowCurrent(wf) /\ Known(wf)' = Known(wf)
      <3>1. Ready /\ UNCHANGED <<wf, ledger, workflow>>
        BY <1>2, StepKinds, RegisterBegins, TaskCallBegins, WorkflowCallBegins DEF vars
      <3>2. QED
        BY <3>1, IdleShape DEF Ready, Writes, Heading, Known
    <2>2. ASSUME NEW target \in WorkflowStatus, SetWorkflow(target)
          PROVE  Known(wf) /\ Heading' = target
      BY <2>2, SetWorkflowBegins, WorkflowCallBegins
         DEF SetWorkflow, TransitionWorkflow, Heading
    <2>3. CASE StartRun
      <3>1. pc' = "compile" /\ Heading' = "created" /\ ~Ready'
        BY <2>3, CreateCallBegins, WorkflowCallBegins, IdleShape
           DEF StartRun, WorkflowStatus, Heading, Ready
      <3>2. QED
        BY <3>1 DEF PathInv, Expected, Underway, Running
    <2>4. CASE Compile \/ Plan \/ Run
      <3>1. /\ Known(wf)
            /\ \/ pc' = "register" /\ Heading' = "compiled"
               \/ pc' = "run" /\ Heading' = "planned"
               \/ pc' = "detect" /\ Heading' = "running"
        BY <2>2, <2>4 DEF Compile, Plan, Run, WorkflowStatus
      <3>2. QED
        BY <2>1, <3>1 DEF PathInv, Expected, Underway, Running
    <2>5. CASE Register
      <3>1. pc = "register" /\ pc' = "plan" /\ ~Writes'
        BY <2>5, RegisterBegins
      <3>2. QED
        BY <2>1, <3>1 DEF PathInv, Expected, Underway, Running, Heading, WorkflowCurrent
    <2>6. CASE pc' = "done"
      BY <2>6 DEF PathInv, Underway, Running
    <2>7. CASE /\ pc \in Running \ {"run"} /\ pc' \in Running \ {"run"}
               /\ \/ UNCHANGED vars
                  \/ \E t \in Tasks : \E target \in TaskStatus : SetTask(t, target)
      <3>1. Heading' = WorkflowCurrent(wf)
        <4>1. CASE UNCHANGED vars
          BY <2>1, <4>1 DEF vars, Heading, WorkflowCurrent, Writes
        <4>2. ASSUME NEW t \in Tasks, NEW target \in TaskStatus, SetTask(t, target)
              PROVE  Heading' = WorkflowCurrent(wf)
          BY <2>1, <4>2, TaskCallBegins, NoneIsNoTask DEF Heading, WorkflowCurrent
        <4>3. QED
          BY <2>7, <4>1, <4>2
      <3>2. QED
        BY <2>1, <2>7, <3>1 DEF PathInv, Expected, Underway, Running
    <2>8. ~(StartRun \/ Compile \/ Plan \/ Run \/ Register) /\ pc' # "done"
            => /\ pc \in Running \ {"run"} /\ pc' \in Running \ {"run"}
      BY <1>2 DEF Step, Setup, DetectCycles, Schedule, Iterate, Promote, Block, BeginRequeue,
         Visit, Requeue, SelectReady, EndIteration, Work, Claim, Propose, AskModel, Verify,
         Execute, PostVerify, RecordIdempotency, CommitTask, RetryLater, Decide, Running
    <2>9. <<pc, pc'>> \in WorkflowMoves /\ pc \in Running \ {"run"} => pc' = "done"
      BY DEF WorkflowMoves, Running
    <2>10. QED
      BY <1>2, <2>3, <2>4, <2>5, <2>6, <2>7, <2>8, <2>9, StepKinds
  <1>3. QED
    BY <1>1, <1>2

\* Where the workflow and the task at work have the statuses their place says, run_goal asks
\* only for what may follow them.
LEMMA PathIsAllowed ==
    ASSUME RowsInv, PathInv
    PROVE  RequestsAllowed
  <1> SUFFICES ASSUME Ready
               PROVE  /\ pc = "create" => ~Known(wf)
                      /\ pc \notin {"create", "done", "down"} => Known(wf)
                      /\ \A r \in WorkflowRequests : pc = r[1] =>
                            r[2] \in WORKFLOW_TRANSITIONS[WorkflowCurrent(wf)]
                      /\ \A r \in TaskRequests : pc = r[1] =>
                            r[2] \in TASK_TRANSITIONS[TaskCurrent(current)]
                      /\ \A t \in todo :
                            /\ pc = "requeue" => "ready" \in TASK_TRANSITIONS[TaskCurrent(t)]
                            /\ pc = "dispatch" =>
                                 "claimed" \in TASK_TRANSITIONS[TaskCurrent(t)]
    BY DEF RequestsAllowed, CanTransitionWorkflow, CanTransitionTask
  <1>1. ~Writes /\ Heading = WorkflowCurrent(wf) /\ current \in Tasks /\ todo \subseteq Tasks
    BY IdleShape DEF Ready, Writes, Heading, RowsInv, RunTypeOK
  <1>2. pc \notin {"create", "done", "down"} <=> pc \in Underway
    BY DEF RowsInv, RunTypeOK, Underway, Running
  <1>3. ASSUME NEW r \in WorkflowRequests, pc = r[1]
        PROVE  r[2] \in WORKFLOW_TRANSITIONS[WorkflowCurrent(wf)]
    <2>1. pc \in Underway /\ WorkflowCurrent(wf) = Expected
      BY <1>1, <1>3 DEF WorkflowRequests, Underway, Running, PathInv
    <2>2. r[2] \in WORKFLOW_TRANSITIONS[Expected]
      BY <1>3 DEF WorkflowRequests, Expected, WORKFLOW_TRANSITIONS, WorkflowStatus
    <2>3. QED
      BY <2>1, <2>2
  <1>4. ASSUME NEW t \in Tasks
        PROVE  Status(t) = task[t] /\ (task[t] # NoRow => TaskCurrent(t) = task[t])
    BY ReadyStatus DEF TaskCurrent
  <1>5. ASSUME NEW r \in TaskRequests, pc = r[1]
        PROVE  r[2] \in TASK_TRANSITIONS[TaskCurrent(current)]
    <2>1. /\ TaskCurrent(current) = task[current]
          /\ pc = "block" => task[current] = "ready"
          /\ pc = "propose" => task[current] = "claimed"
          /\ pc = "ask" => task[current] = "proposing"
          /\ pc = "verify" => task[current] = "verifying"
          /\ pc = "post" => task[current] = "executing"
          /\ pc \in {"commit", "retry"} => task[current] = "post_verifying"
      BY <1>1, <1>4, <1>5 DEF RowsInv, Placed, NoRow, TaskRequests
    <2>2. QED
      BY <1>5, <2>1 DEF TaskRequests, TASK_TRANSITIONS, TaskStatus
  <1>6. ASSUME NEW t \in todo
        PROVE  /\ pc = "requeue" => "ready" \in TASK_TRANSITIONS[TaskCurrent(t)]
               /\ pc = "dispatch" => "claimed" \in TASK_TRANSITIONS[TaskCurrent(t)]
    <2>1. /\ pc = "requeue" => TaskCurrent(t) = "retry_wait"
          /\ pc = "dispatch" => TaskCurrent(t) = "ready"
      BY <1>1, <1>4 DEF RowsInv, Placed, Dispatching, NoRow
    <2>2. QED
      BY <2>1 DEF TASK_TRANSITIONS, TaskStatus
  <1>7. QED
    BY <1>2, <1>3, <1>5, <1>6 DEF PathInv

----------------------------------------------------------------------------
(* Runs that die and are run again: the inductive invariant.              *)

\* A ledger whose workflow is not missing mentions only tasks that have a row; a run that
\* began over a whole database has nothing missing.
MissingInv ==
    /\ \A w \in Workflows \ missing : \A t \in Tasks : Mentions(w, t) => task[t] # NoRow
    /\ ~restarted /\ pc \notin Over => missing = {}

\* What a replay has done while no run lives: it has read the whole ledger, the tasks of
\* the events it has applied have rows, and it holds a status some event has recorded.
Replaying == replay # Manager!Off
ReplayInv == Replaying =>
    /\ pc \in Over /\ Ready
    /\ replay \in [step : {"on"}, w : Workflows, upto : Nat, at : Nat,
                   status : WorkflowStatus, clean : BOOLEAN]
    /\ Known(replay.w) /\ replay.upto = Len(ledger[replay.w]) /\ replay.at <= replay.upto
    /\ replay.status = "completed" => Completed(replay.w)
    /\ \A i \in 1..replay.at : \A t \in Tasks :
          ledger[replay.w][i].task = t => task[t] # NoRow

ResumedInv ==
    /\ RowsInv /\ OwnedInv /\ SpanInv /\ PathInv
    /\ DependencyOrder /\ WorkInv /\ VerdictInv /\ IntentInv
    /\ ~lost => KeyInv
    /\ ~restarted => OnceInv
    /\ MissingInv /\ ReplayInv

----------------------------------------------------------------------------
(* Steps in which no run lives.                                            *)

\* Between two runs the ledgers, the plan and the work that was done stay as they are, and
\* what is said of a run that lives is said of none.
LEMMA AsideKeeps ==
    ASSUME RowsInv, DependencyOrder, WorkInv, IntentInv, VerdictInv, RunTypeOK',
           UNCHANGED <<ledger, deps, effects>>, idempotency' \subseteq idempotency,
           call'[Runtime] = Idle, pc' \in Over \cup {"create"},
           \A w \in Workflows : workflow'[w] = "completed" => Completed(w)
    PROVE  /\ RowsInv' /\ OwnedInv' /\ DependencyOrder' /\ WorkInv' /\ VerdictInv' /\ IntentInv'
           /\ KeyInv /\ UNCHANGED idempotency => KeyInv'
  <1>1. /\ ~Writes' /\ Ready' /\ call'[Runtime].step = "idle"
        /\ \A t : ~Committing(t)'
    BY IdleShape DEF Writes, Ready, Committing
  <1>2. pc' \notin Running /\ pc' \notin Dispatching /\ pc' # "plan"
    BY DEF Over, Running, Dispatching
  <1>3. \A w, t, s : EverRecorded(w, t, s)' = EverRecorded(w, t, s)
    BY DEF EverRecorded, Recorded
  <1>4. RowsInv'
    <2>1. CallInv'
      BY <1>1, <1>2 DEF CallInv, Ready
    <2>2. Placed'
      BY <1>2 DEF Placed, Over, Dispatching
    <2>3. QED
      BY <1>2, <2>1, <2>2 DEF RowsInv, PlanInv, CommitSeen, PromotedInv
  <1>5. OwnedInv'
    BY <1>2 DEF OwnedInv
  <1>6. DependencyOrder'
    BY DEF DependencyOrder, Recorded
  <1>7. WorkInv'
    BY <1>1, <1>3 DEF WorkInv, Over
  <1>8. VerdictInv'
    <2>1. HasCycle' = HasCycle
      BY DEF HasCycle
    <2>2. QED
      BY <1>1, <1>2, <1>3, <2>1 DEF VerdictInv, Completing, Completed, AllCommitted
  <1>9. IntentInv'
    <2>1. ASSUME NEW t \in Tasks
          PROVE  (effects[t] + Due(t) <= Cardinality(Announced(t)))'
      <3>1. Announced(t)' = Announced(t) /\ Due(t)' = 0 /\ Due(t) \in Nat
        BY DEF Announced, Due, Over
      <3>2. effects[t] \in Nat /\ Cardinality(Announced(t)) \in Nat
        BY AnnouncedFinite DEF RowsInv, RunTypeOK
      <3>3. QED
        BY <3>1, <3>2 DEF IntentInv
    <2>2. QED
      BY <1>1, <2>1 DEF IntentInv
  <1>10. KeyInv /\ UNCHANGED idempotency => KeyInv'
    BY <1>1, <1>3 DEF KeyInv, Over
  <1>11. QED
    BY <1>4, <1>5, <1>6, <1>7, <1>8, <1>9, <1>10

LEMMA GoOnKeeps ==
    ASSUME ResumedInv, GoOn
    PROVE  ResumedInv'
  <1> USE DEF ResumedInv
  <1>1. /\ Step /\ RunTypeOK /\ CallInv /\ UNCHANGED wf
        /\ replay = Manager!Off /\ UNCHANGED <<replay, lost, missing, restarted>>
    BY StepKinds DEF GoOn, Alive, lossVars, RowsInv
  <1>2. RowsInv' /\ OwnedInv' /\ SpanInv' /\ PathInv'
    BY <1>1, StepRows, StepOwned, StepSpan, StepPath
  <1>3. DependencyOrder' /\ WorkInv' /\ VerdictInv' /\ IntentInv'
    BY <1>1, StepDependencyOrder, StepWork, StepVerdict, StepIntent
  <1>4. ~lost' => KeyInv'
    BY <1>1, StepKey
  <1>5. ~restarted' => OnceInv'
    <2> SUFFICES ASSUME ~restarted
                 PROVE  OnceInv'
      BY <1>1
    <2>1. ASSUME pc \notin Over, NEW t \in Tasks, effects[t] > 0
          PROVE  task[t] # NoRow
      <3>1. PICK w \in Workflows : Mentions(w, t)
        BY <1>1, <2>1, WorkIsMentioned
      <3>2. QED
        BY <2>1, <3>1 DEF MissingInv
    <2>2. QED
      BY <1>1, <2>1, StepOnce
  <1>6. MissingInv'
    <2>1. ASSUME NEW w \in Workflows \ missing
          PROVE  \A t \in Tasks : Mentions(w, t)' => task'[t] # NoRow
      BY <1>1, StepMentions DEF MissingInv
    <2>2. pc' \notin Over => pc \notin Over
      BY <1>1 DEF Over, Step, EngineStep, runVars, Setup, StartRun, Compile, Register, Plan,
             Run, DetectCycles, Schedule, Iterate, Promote, Block, BeginRequeue, Visit,
             Requeue, SelectReady, EndIteration, Work, Claim, Propose, AskModel, Verify,
             Execute, PostVerify, RecordIdempotency, CommitTask, RetryLater, Decide
    <2>3. QED
      BY <1>1, <2>1, <2>2 DEF MissingInv
  <1>7. ReplayInv'
    BY <1>1 DEF ReplayInv, Replaying, Manager!Off
  <1>8. QED
    BY <1>2, <1>3, <1>4, <1>5, <1>6, <1>7

\* The process dies: what it was about to write is gone.
LEMMA KilledKeeps ==
    ASSUME ResumedInv, Killed
    PROVE  ResumedInv'
  <1> USE DEF ResumedInv
  <1>1. /\ Die /\ replay = Manager!Off /\ UNCHANGED <<replay, lost, missing, restarted>>
    BY DEF Killed, Alive, lossVars
  <1>2. /\ pc' = "down" /\ UNCHANGED <<deps, idempotency, effects, wf, iteration, promoted,
                                       retried, todo, current, succeeded>>
        /\ UNCHANGED <<ledger, workflow, task, owner>>
    BY <1>1 DEF Die, Goto, storeVars, vars, Crash
  <1>3. call'[Runtime] = Idle /\ TypeOK'
    <2>1. CASE Ready
      BY <1>1, <2>1 DEF Die, vars, Ready, RowsInv, RunTypeOK, TypeOK
    <2>2. CASE ~Ready
      <3>1. Crash(Runtime)
        BY <1>1, <2>2 DEF Die
      <3>2. QED
        BY <3>1, CrashTyped, RuntimeIsClient DEF Crash, RowsInv, RunTypeOK, TypeOK
    <2>3. QED
      BY <2>1, <2>2
  <1>4. RunTypeOK'
    BY <1>2, <1>3 DEF RowsInv, RunTypeOK, MaxIterations
  <1>5. /\ RowsInv' /\ OwnedInv' /\ DependencyOrder' /\ WorkInv' /\ VerdictInv' /\ IntentInv'
        /\ KeyInv => KeyInv'
    BY <1>2, <1>3, <1>4, AsideKeeps DEF Over, VerdictInv
  <1>6. SpanInv' /\ PathInv'
    BY <1>2 DEF SpanInv, Known, PathInv, Underway, Running
  <1>7. OnceInv => OnceInv'
    BY <1>2 DEF OnceInv, Over
  <1>8. MissingInv'
    BY <1>1, <1>2 DEF MissingInv, Mentions, Over
  <1>9. ReplayInv'
    BY <1>1 DEF ReplayInv, Replaying, Manager!Off
  <1>10. QED
    BY <1>1, <1>5, <1>6, <1>7, <1>8, <1>9

\* The goal is run again: every row there is belongs to an earlier run.
LEMMA RestartKeeps ==
    ASSUME ResumedInv, Restart
    PROVE  ResumedInv'
  <1> USE DEF ResumedInv
  <1>1. /\ RunAgain /\ replay = Manager!Off /\ UNCHANGED <<replay, lost, missing>>
        /\ restarted' = (restarted \/ missing # {})
    BY DEF Restart
  <1>2. /\ pc' = "create" /\ wf' = wf + 1 /\ wf' \in Workflows /\ Ready
        /\ UNCHANGED <<ledger, workflow, task, owner, call, deps, idempotency, effects>>
    BY <1>1 DEF RunAgain, vars, storeVars
  <1>3. wf \in Nat
    BY WorkflowsAssumption DEF RowsInv, RunTypeOK
  <1>4. RunTypeOK'
    <2>1. FirstOf(Tasks) \in Tasks
      BY FirstOfIsIn, TasksAssumption
    <2>2. TypeOK'
      BY <1>1 DEF RunAgain, vars, TypeOK, RowsInv, RunTypeOK
    <2>3. 0 \in 0..MaxIterations
      BY MaxIterationsIsNat
    <2>4. QED
      BY <1>1, <1>2, <2>1, <2>2, <2>3 DEF RunAgain, RowsInv, RunTypeOK, MaxIterations
  <1>5. /\ RowsInv' /\ OwnedInv' /\ DependencyOrder' /\ WorkInv' /\ VerdictInv' /\ IntentInv'
        /\ KeyInv => KeyInv'
    BY <1>2, <1>4, AsideKeeps DEF Ready, VerdictInv
  <1>6. SpanInv' /\ PathInv'
    <2>1. ASSUME NEW w \in Workflows, Known(w)'
          PROVE  w <= wf'
      BY <1>2, <1>3, <2>1, WorkflowsAssumption DEF SpanInv, Known
    <2>2. ASSUME NEW t \in Tasks, task'[t] # NoRow
          PROVE  owner'[t] <= wf'
      <3>1. task[t] # NoRow /\ owner[t] <= wf /\ owner' = owner
        BY <1>2, <2>2 DEF SpanInv
      <3>2. owner[t] \in Workflows
        BY <3>1 DEF RowsInv, RunTypeOK, TypeOK
      <3>3. owner[t] \in Nat /\ wf' = wf + 1
        BY <1>2, <3>2, WorkflowsAssumption
      <3>4. QED
        BY <1>3, <3>1, <3>3
    <2>3. ~Known(wf)'
      BY <1>2, <1>3 DEF SpanInv, Known
    <2>4. QED
      BY <1>2, <2>1, <2>2, <2>3 DEF SpanInv, PathInv, Underway, Running
  <1>7. OnceInv => OnceInv'
    <2>1. ASSUME NEW t \in Tasks
          PROVE  owner'[t] # wf'
      BY <1>2, <1>3, NoneAssumption DEF SpanInv, RowsInv, RunTypeOK, TypeOK
    <2>2. QED
      BY <1>2, <2>1 DEF OnceInv, Spent
  <1>8. MissingInv'
    BY <1>1, <1>2 DEF MissingInv, Mentions
  <1>9. ReplayInv'
    BY <1>1 DEF ReplayInv, Replaying, Manager!Off
  <1>10. QED
    BY <1>1, <1>2, <1>5, <1>6, <1>7, <1>8, <1>9

LEMMA LoseKeeps ==
    ASSUME ResumedInv, LoseDatabase
    PROVE  ResumedInv'
  <1> USE DEF ResumedInv
  <1>1. /\ Stopped /\ lost' /\ missing' = {w \in Workflows : Known(w)}
        /\ workflow' = [w \in Workflows |-> NoRow] /\ task' = [t \in Tasks |-> NoRow]
        /\ owner' = [t \in Tasks |-> None] /\ idempotency' = {}
        /\ UNCHANGED <<ledger, call, overlapped, cut, deps, effects, replay, restarted>>
        /\ UNCHANGED <<pc, wf, iteration, promoted, retried, todo, current, succeeded>>
        /\ replay = Manager!Off
    BY DEF LoseDatabase, runVars
  <1>2. pc \in Over /\ Ready /\ call'[Runtime] = Idle
    BY <1>1 DEF Stopped, Over, Ready
  <1>3. RunTypeOK'
    BY <1>1 DEF RowsInv, RunTypeOK, TypeOK, MaxIterations
  <1>4. \A w \in Workflows : workflow'[w] # "completed"
    BY <1>1 DEF NoRow
  <1>5. /\ RowsInv' /\ OwnedInv' /\ DependencyOrder' /\ WorkInv' /\ VerdictInv' /\ IntentInv'
    BY <1>1, <1>2, <1>3, <1>4, AsideKeeps
  <1>6. SpanInv' /\ PathInv'
    BY <1>1, <1>2 DEF SpanInv, Known, PathInv, Underway, Running, Over
  <1>7. OnceInv => OnceInv'
    BY <1>1, <1>2 DEF OnceInv
  <1>8. MissingInv'
    BY <1>1, <1>2 DEF MissingInv, Mentions, Known
  <1>9. ReplayInv'
    BY <1>1 DEF ReplayInv, Replaying, Manager!Off
  <1>10. QED
    BY <1>1, <1>5, <1>6, <1>7, <1>8, <1>9

----------------------------------------------------------------------------
(* Rebuilding.                                                             *)

\* No step of reconstruct_state touches the program, the plan, the keys or the ledgers.
LEMMA RebuildFrame ==
    ASSUME ResumedInv, Rebuild
    PROVE  /\ UNCHANGED <<ledger, call, overlapped, cut, deps, idempotency, effects, pc, wf,
                          iteration, promoted, retried, todo, current, succeeded, lost,
                          restarted>>
           /\ pc \in Over /\ Ready /\ call'[Runtime] = Idle
  BY DEF Rebuild, Stopped, Over, Ready, runVars, storeVars, vars, Manager!BeginReplay,
         Manager!ReplayEvent, Manager!FinishReplay, Manager!CrashReplay, Manager!vars,
         UpsertWorkflow

\* Rows a replay has written are like rows a run has left.
LEMMA RebuiltRows ==
    ASSUME ResumedInv, Rebuild, RowsTyped',
           \A w \in Workflows : workflow'[w] = "completed" => Completed(w),
           \A t \in Tasks : task[t] # NoRow => task'[t] # NoRow,
           \A t \in Tasks : task'[t] # NoRow => owner'[t] <= wf
    PROVE  /\ RowsInv' /\ OwnedInv' /\ SpanInv' /\ PathInv'
           /\ DependencyOrder' /\ WorkInv' /\ VerdictInv' /\ IntentInv'
           /\ ~lost' => KeyInv'
           /\ ~restarted' => OnceInv'
           /\ \A w \in Workflows \ missing : \A t \in Tasks : Mentions(w, t)' => task'[t] # NoRow
           /\ ~restarted' /\ pc' \notin Over => missing' = {}
  <1> USE DEF ResumedInv
  <1>1. /\ UNCHANGED <<ledger, call, overlapped, cut, deps, idempotency, effects, pc, wf,
                       iteration, promoted, retried, todo, current, succeeded, lost, restarted>>
        /\ pc \in Over /\ Ready /\ call'[Runtime] = Idle
    BY RebuildFrame
  <1>2. RunTypeOK'
    BY <1>1 DEF RowsInv, RunTypeOK, TypeOK, RowsTyped, MaxIterations
  <1>3. /\ RowsInv' /\ OwnedInv' /\ DependencyOrder' /\ WorkInv' /\ VerdictInv' /\ IntentInv'
        /\ KeyInv => KeyInv'
    BY <1>1, <1>2, AsideKeeps
  <1>4. SpanInv' /\ PathInv'
    BY <1>1 DEF SpanInv, Known, PathInv, Underway, Running, Over
  <1>5. OnceInv => OnceInv'
    BY <1>1 DEF OnceInv
  <1>6. ASSUME NEW w \in Workflows \ missing, NEW t \in Tasks, Mentions(w, t)'
        PROVE  task'[t] # NoRow
    BY <1>1, <1>6 DEF MissingInv, Mentions
  <1>7. QED
    BY <1>1, <1>3, <1>4, <1>5, <1>6

LEMMA BeginReplayKeeps ==
    ASSUME ResumedInv, Rebuild, UNCHANGED <<workflow, task, owner, missing>>,
           NEW w \in Workflows, Manager!BeginReplay(w)
    PROVE  ResumedInv'
  <1> USE DEF ResumedInv
  <1>1. /\ replay' = [step |-> "on", w |-> w, upto |-> Len(ledger[w]), at |-> 0,
                     status |-> "created", clean |-> \A c \in Clients : call[c] = Idle]
        /\ Known(w) /\ UNCHANGED ledger
    BY DEF Manager!BeginReplay, Manager!Known, Known, Manager!Idle, Idle
  <1>2. UNCHANGED <<pc, call>> /\ pc \in Over /\ Ready
    BY RebuildFrame
  <1>3. RowsTyped' /\ UNCHANGED task /\ UNCHANGED owner
    BY DEF RowsInv, RunTypeOK, TypeOK, RowsTyped
  <1>4. Len(ledger[w]) \in Nat
    BY DEF RowsInv, RunTypeOK, TypeOK
  <1>5. ReplayInv'
    <2>1. replay' \in [step : {"on"}, w : Workflows, upto : Nat, at : Nat,
                       status : WorkflowStatus, clean : BOOLEAN]
      BY <1>1, <1>4 DEF WorkflowStatus
    <2>2. /\ replay'.w = w /\ replay'.upto = Len(ledger[w]) /\ replay'.at = 0
          /\ replay'.status = "created"
      BY <1>1
    <2>3. Known(w)' /\ Ready' /\ pc' \in Over
      BY <1>1, <1>2 DEF Known, Ready
    <2>4. QED
      BY <1>1, <1>4, <2>1, <2>2, <2>3 DEF ReplayInv
  <1>6. QED
    BY <1>3, <1>5, RebuiltRows DEF VerdictInv, SpanInv, MissingInv

\* One event: the row of its task is there afterwards, and the run that wrote the event has
\* begun.
LEMMA ReplayEventKeeps ==
    ASSUME ResumedInv, Rebuild, UNCHANGED missing, Manager!ReplayEvent
    PROVE  ResumedInv'
  <1> USE DEF ResumedInv
  <1>0. PICK u \in Workflows : u = replay.w
    BY DEF Manager!ReplayEvent, ReplayInv, Replaying
  <1> DEFINE n == replay.at
             e == ledger[u][n + 1]
  <1>1. /\ replay # Manager!Off /\ n < replay.upto /\ UNCHANGED ledger
        /\ replay' = [replay EXCEPT !.at = @ + 1, !.status = Manager!StatusAfter(@, e)]
        /\ \/ e.task # None /\ Manager!UpsertTask(e.task, u, e.to)
           \/ e.task = None /\ UNCHANGED <<workflow, task, owner>>
    BY <1>0 DEF Manager!ReplayEvent
  <1>2. /\ replay \in [step : {"on"}, w : Workflows, upto : Nat, at : Nat,
                       status : WorkflowStatus, clean : BOOLEAN]
        /\ Known(u) /\ replay.upto = Len(ledger[u]) /\ TypeOK /\ pc \in Over /\ Ready
        /\ replay.status = "completed" => Completed(u)
        /\ \A i \in 1..n : \A t \in Tasks : ledger[u][i].task = t => task[t] # NoRow
    BY <1>0, <1>1 DEF ReplayInv, Replaying, RowsInv, RunTypeOK
  <1>3. u \in Workflows /\ n \in Nat /\ n + 1 \in 1..Len(ledger[u]) /\ e \in Event
    <2>1. u \in Workflows /\ n \in Nat /\ replay.upto \in Nat
      BY <1>2
    <2>2. n + 1 \in 1..Len(ledger[u]) /\ ledger[u] \in Seq(Event)
      BY <1>1, <1>2, <2>1 DEF TypeOK
    <2>3. QED
      BY <2>1, <2>2
  <1>4. u <= wf
    BY <1>2, <1>3 DEF SpanInv
  <1>5. /\ RowsTyped' /\ UNCHANGED workflow
        /\ \A t \in Tasks : task[t] # NoRow \/ e.task = t => task'[t] # NoRow
        /\ \A t \in Tasks : owner'[t] = owner[t] \/ owner'[t] = u
        /\ \A t \in Tasks : task[t] # NoRow => owner'[t] = owner[t]
    <2>1. CASE e.task = None
      BY <1>1, <1>2, <2>1, NoneIsNoTask DEF RowsTyped, TypeOK
    <2>2. CASE e.task # None
      <3>1. e.task \in Tasks /\ e.to \in TaskStatus /\ UpsertTask(e.task, u, e.to)
        BY <1>1, <1>3, <2>2, EventShape DEF Manager!UpsertTask, UpsertTask, Manager!NoRow, NoRow
      <3> HIDE DEF e
      <3>2. RowsTyped'
        BY <1>2, <1>3, <3>1, UpsertTaskTyped
      <3>3. e.to # NoRow
        BY <3>1 DEF TaskStatus, NoRow
      <3>4. QED
        BY <1>2, <3>1, <3>2, <3>3 DEF UpsertTask, TypeOK
    <2>3. QED
      BY <2>1, <2>2
  <1>6. ASSUME NEW t \in Tasks, task'[t] # NoRow
        PROVE  owner'[t] <= wf
    <2>1. CASE task[t] # NoRow
      BY <1>5, <2>1 DEF SpanInv
    <2>2. CASE task[t] = NoRow
      <3>1. owner[t] = None /\ owner'[t] # None
        BY <1>2, <1>5, <1>6, <2>2 DEF TypeOK, RowsTyped
      <3>2. QED
        BY <1>4, <1>5, <3>1
    <2>3. QED
      BY <2>1, <2>2
  <1>7. /\ replay' \in [step : {"on"}, w : Workflows, upto : Nat, at : Nat,
                        status : WorkflowStatus, clean : BOOLEAN]
        /\ replay'.w = u /\ replay'.at = n + 1 /\ replay'.upto = replay.upto
        /\ replay'.status = Manager!StatusAfter(replay.status, e)
    <2>1. Manager!StatusAfter(replay.status, e) \in WorkflowStatus
      BY <1>2 DEF Manager!StatusAfter, Manager!WorkflowStatus, WorkflowStatus
    <2>2. PICK s \in WorkflowStatus : s = Manager!StatusAfter(replay.status, e)
      BY <2>1
    <2>3. replay' = [replay EXCEPT !.at = n + 1, !.status = s]
      BY <1>1, <2>2
    <2>4. n + 1 \in Nat /\ replay.w = u
      BY <1>0, <1>3
    <2> HIDE DEF e
    <2>5. QED
      BY <1>2, <2>2, <2>3, <2>4
  <1>8. replay'.status = "completed" => Completed(u)
    <2>1. CASE e.to \in WorkflowStatus
      <3>1. SUFFICES ASSUME e.to = "completed"
                     PROVE  Completed(u)
        BY <1>7, <2>1 DEF Manager!StatusAfter, Manager!WorkflowStatus, WorkflowStatus
      <3>2. e.task = None
        BY <1>3, <3>1, EventShape DEF TaskStatus
      <3>3. InLedger(u, e)
        BY <1>3 DEF InLedger
      <3>4. QED
        BY <1>3, <3>1, <3>2, <3>3, InLedgerIsRecorded DEF Completed, RowsInv
    <2>2. CASE e.to \notin WorkflowStatus
      BY <1>2, <1>7, <2>2 DEF Manager!StatusAfter, Manager!WorkflowStatus, WorkflowStatus
    <2>3. QED
      BY <2>1, <2>2
  <1>9. UNCHANGED <<pc, call, ledger>>
    BY RebuildFrame
  <1>10. ReplayInv'
    <2>1. ASSUME NEW i \in 1..(n + 1), NEW t \in Tasks, ledger[u][i].task = t
          PROVE  task'[t] # NoRow
      <3>1. CASE i \in 1..n
        BY <1>2, <1>5, <2>1, <3>1
      <3>2. CASE i = n + 1
        BY <1>5, <2>1, <3>2
      <3>3. QED
        BY <1>3, <3>1, <3>2
    <2>2. Known(u)' /\ Ready' /\ pc' \in Over /\ Completed(u)' = Completed(u)
      BY <1>2, <1>9 DEF Known, Ready, Completed, EverRecorded, Recorded
    <2>3. n + 1 <= replay.upto
      BY <1>1, <1>2, <1>3
    <2> HIDE DEF n, e
    <2>4. QED
      BY <1>2, <1>7, <1>8, <1>9, <2>1, <2>2, <2>3 DEF ReplayInv
  <1> HIDE DEF n, e
  <1>11. QED
    BY <1>5, <1>6, <1>10, RebuiltRows DEF VerdictInv, MissingInv

\* The workflow that was rebuilt is missing no longer.
LEMMA FinishReplayKeeps ==
    ASSUME ResumedInv, Rebuild, Manager!FinishReplay, missing' = missing \ {replay.w}
    PROVE  ResumedInv'
  <1> USE DEF ResumedInv
  <1> DEFINE u == replay.w
  <1>1. /\ replay # Manager!Off /\ replay.at = replay.upto /\ replay' = Manager!Off
        /\ workflow' = [workflow EXCEPT ![u] = replay.status] /\ UNCHANGED <<task, owner, ledger>>
    BY DEF Manager!FinishReplay, Manager!UpsertWorkflow
  <1>2. /\ replay \in [step : {"on"}, w : Workflows, upto : Nat, at : Nat,
                       status : WorkflowStatus, clean : BOOLEAN]
        /\ replay.upto = Len(ledger[u]) /\ TypeOK
        /\ replay.status = "completed" => Completed(u)
        /\ \A i \in 1..replay.at : \A t \in Tasks : ledger[u][i].task = t => task[t] # NoRow
    BY <1>1 DEF ReplayInv, Replaying, RowsInv, RunTypeOK
  <1>3. u \in Workflows /\ replay.status \in WorkflowStatus
    BY <1>2
  <1> HIDE DEF u
  <1>4. RowsTyped'
    BY <1>1, <1>2, <1>3 DEF RowsTyped, TypeOK
  <1>5. \A w \in Workflows : workflow'[w] = "completed" => Completed(w)
    BY <1>1, <1>2, <1>3 DEF VerdictInv, TypeOK
  <1>6. \A t \in Tasks : Mentions(u, t) => task[t] # NoRow
    BY <1>1, <1>2 DEF Mentions
  <1>7. ReplayInv'
    BY <1>1 DEF ReplayInv, Replaying, Manager!Off
  <1>8. MissingInv'
    <2>1. ASSUME NEW w \in Workflows \ missing', NEW t \in Tasks, Mentions(w, t)'
          PROVE  task'[t] # NoRow
      <3>1. Mentions(w, t) /\ task' = task
        BY <1>1, <2>1 DEF Mentions
      <3>2. w = u \/ w \notin missing
        BY <2>1 DEF u
      <3>3. QED
        BY <1>6, <2>1, <3>1, <3>2 DEF MissingInv
    <2>2. pc' \in Over
      BY RebuildFrame
    <2>3. QED
      BY <2>1, <2>2 DEF MissingInv
  <1>9. QED
    BY <1>1, <1>4, <1>5, <1>7, <1>8, RebuiltRows DEF SpanInv

LEMMA RebuildKeeps ==
    ASSUME ResumedInv, Rebuild
    PROVE  ResumedInv'
  <1>1. CASE UNCHANGED <<workflow, task, owner, missing>>
             /\ \E w \in Workflows : Manager!BeginReplay(w)
    BY <1>1, BeginReplayKeeps
  <1>2. CASE Manager!ReplayEvent /\ UNCHANGED missing
    BY <1>2, ReplayEventKeeps
  <1>3. CASE Manager!FinishReplay /\ missing' = missing \ {replay.w}
    BY <1>3, FinishReplayKeeps
  <1>4. CASE Manager!CrashReplay /\ UNCHANGED missing
    <2>1. replay' = Manager!Off /\ UNCHANGED <<workflow, task, owner, missing>>
      BY <1>4 DEF Manager!CrashReplay, Manager!vars
    <2>2. RowsTyped'
      BY <2>1 DEF ResumedInv, RowsInv, RunTypeOK, TypeOK, RowsTyped
    <2>3. ReplayInv'
      BY <2>1 DEF ReplayInv, Replaying, Manager!Off
    <2>4. QED
      BY <2>1, <2>2, <2>3, RebuiltRows DEF ResumedInv, VerdictInv, SpanInv, MissingInv
  <1>5. QED
    BY <1>1, <1>2, <1>3, <1>4 DEF Rebuild

----------------------------------------------------------------------------
(* Theorems about runs that die and are run again.                         *)

LEMMA ResumedAtFirst == ResumedInit => ResumedInv
  <1> SUFFICES ASSUME ResumedInit
               PROVE  ResumedInv
    OBVIOUS
  <1>1. RunInv
    BY RunAtFirst DEF ResumedInit
  <1>2. /\ ledger = [w \in Workflows |-> <<>>] /\ task = [t \in Tasks |-> NoRow]
        /\ pc = "create" /\ call[Runtime] = Idle /\ idempotency = {} /\ missing = {}
        /\ effects = [t \in Tasks |-> 0] /\ replay = Manager!Off
    BY RuntimeIsClient DEF ResumedInit, RunInit, Init
  <1>3. /\ \A w \in Workflows : \A t, s : ~EverRecorded(w, t, s)
        /\ \A w \in Workflows : \A t : ~Mentions(w, t) /\ ~Known(w)
        /\ ~Writes
    BY <1>2, IdleShape DEF EverRecorded, Recorded, Mentions, Known, Writes
  <1>4. SpanInv /\ PathInv
    BY <1>1, <1>2, <1>3
       DEF SpanInv, PathInv, Underway, Running, RunInv, RowsInv, RunTypeOK
  <1>5. DependencyOrder
    BY <1>2 DEF DependencyOrder
  <1>6. WorkInv /\ KeyInv
    BY <1>2, <1>3 DEF WorkInv, KeyInv, Committing
  <1>7. IntentInv
    <2>1. \A t \in Tasks : effects[t] = 0 /\ Due(t) = 0
      BY <1>2 DEF Due
    <2>2. QED
      BY <1>2, <2>1, AnnouncedFinite, IdleShape DEF IntentInv
  <1>8. OnceInv
    BY <1>2 DEF OnceInv
  <1>9. MissingInv /\ ReplayInv
    BY <1>2, <1>3 DEF MissingInv, ReplayInv, Replaying
  <1>10. QED
    BY <1>1, <1>4, <1>5, <1>6, <1>7, <1>8, <1>9 DEF ResumedInv, RunInv

LEMMA StutterKeepsResumed ==
    ASSUME ResumedInv, UNCHANGED resumedVars
    PROVE  ResumedInv'
  <1>1. UNCHANGED <<ledger, workflow, task, owner, call, overlapped, cut, deps, pc, wf,
                    iteration, promoted, retried, todo, current, succeeded, idempotency,
                    effects, replay, fresh, lost, missing, restarted>>
    BY DEF resumedVars, allVars, vars, runVars, storeVars, lossVars
  <1>2. /\ \A t : Status(t)' = Status(t) /\ Committing(t)' = Committing(t)
        /\ \A w, t, s : EverRecorded(w, t, s)' = EverRecorded(w, t, s)
        /\ \A t : Due(t)' = Due(t) /\ Announced(t)' = Announced(t)
        /\ Writes' = Writes /\ Ready' = Ready /\ HasCycle' = HasCycle
    BY <1>1 DEF Status, Committing, EverRecorded, Recorded, Writes, Ready, HasCycle, Due,
                Announced
  <1>3. RowsInv'
    BY <1>1, <1>2
       DEF ResumedInv, RowsInv, RunTypeOK, TypeOK, CallInv, InLedger, PlanInv, CommitSeen,
           Placed, PromotedInv, Eligible, MaxIterations
  <1>4. OwnedInv' /\ SpanInv' /\ PathInv'
    BY <1>1, <1>2 DEF ResumedInv, OwnedInv, SpanInv, Known, PathInv, Heading, Expected,
                      WorkflowCurrent
  <1>5. DependencyOrder'
    BY <1>1 DEF ResumedInv, DependencyOrder, Recorded
  <1>6. WorkInv' /\ (~lost' => KeyInv')
    BY <1>1, <1>2 DEF ResumedInv, WorkInv, KeyInv
  <1>7. VerdictInv'
    BY <1>1, <1>2 DEF ResumedInv, VerdictInv, Completed, Completing, AllCommitted
  <1>8. IntentInv'
    BY <1>1, <1>2 DEF ResumedInv, IntentInv
  <1>9. ~restarted' => OnceInv'
    BY <1>1, <1>2 DEF ResumedInv, OnceInv, Spent
  <1>10. MissingInv'
    BY <1>1 DEF ResumedInv, MissingInv, Mentions
  <1>11. ReplayInv'
    BY <1>1, <1>2 DEF ResumedInv, ReplayInv, Replaying, Known, Completed
  <1>12. QED
    BY <1>3, <1>4, <1>5, <1>6, <1>7, <1>8, <1>9, <1>10, <1>11 DEF ResumedInv

LEMMA ResumedInvHolds == ResumedSpec => []ResumedInv
  <1>1. ResumedInv /\ [ResumedNext]_resumedVars => ResumedInv'
    BY GoOnKeeps, KilledKeeps, RestartKeeps, LoseKeeps, RebuildKeeps, StutterKeepsResumed
       DEF ResumedNext
  <1>2. QED
    BY <1>1, ResumedAtFirst, PTL DEF ResumedSpec

\* Every variable of the run and its stores keeps its type, the loop its bound, whatever
\* dies, is lost or is rebuilt.
THEOREM RunsKeepTypes == ResumedSpec => []RunTypeOK
  <1>1. ResumedInv => RunTypeOK
    BY DEF ResumedInv, RowsInv
  <1>2. QED
    BY <1>1, ResumedInvHolds, PTL

\* In every ledger of every run, a tool call is announced only after the commits of all the
\* tasks it depends on.
THEOREM CallsFollowDependencies == ResumedSpec => []DependencyOrder
  <1>1. ResumedInv => DependencyOrder
    BY DEF ResumedInv
  <1>2. QED
    BY <1>1, ResumedInvHolds, PTL

\* A workflow is completed, by its run or by a replay, only over a plan without cycles all
\* of whose tool calls succeeded and were committed by that workflow.
THEOREM VerdictsAreSound == ResumedSpec => []VerdictSound
  <1>1. ResumedInv => VerdictSound
    BY VerdictIsSound DEF ResumedInv
  <1>2. QED
    BY <1>1, ResumedInvHolds, PTL

\* No tool call succeeds that the ledgers have not announced, wherever the process dies.
THEOREM CallsAreAnnounced == ResumedSpec => []IntentLogged
  <1>1. ResumedInv => IntentLogged
    BY IntentIsLogged DEF ResumedInv, RowsInv
  <1>2. QED
    BY <1>1, ResumedInvHolds, PTL

\* As long as the database is there, no ledger has a commit without the key of its task,
\* and no task has a key without a tool call.
THEOREM CommitsHaveKeys == ResumedSpec => []CommitKeptRecorded
  <1>1. ResumedInv => CommitKeptRecorded
    BY DEF ResumedInv, CommitKeptRecorded, CommitRecorded, KeyInv, WorkInv
  <1>2. QED
    BY <1>1, ResumedInvHolds, PTL

\* Over any number of runs, crashes and replays the tool call of a task succeeds at most
\* once, if no run begins over a lost database before it is rebuilt.
THEOREM WorkIsDoneOnce == ResumedSpec => []RebuiltRunsOnce
  <1>1. ResumedInv => RebuiltRunsOnce
    BY DEF ResumedInv, OnceInv, RebuiltRunsOnce, SucceedsAtMostOnce
  <1>2. QED
    BY <1>1, ResumedInvHolds, PTL

\* The engine raises on no call of run_goal, in no run of a plan: every transition it asks
\* for is one the life cycles allow in the status it finds.
THEOREM RequestsAreAllowed == ResumedSpec => []RequestsAllowed
  <1>1. ResumedInv => RequestsAllowed
    BY PathIsAllowed DEF ResumedInv
  <1>2. QED
    BY <1>1, ResumedInvHolds, PTL

----------------------------------------------------------------------------
(* The rows of runs that die and are run again.                            *)

\* A status the ledgers record for a task, in whichever run.
Backed(t, s) == \E w \in Workflows : EverRecorded(w, t, s)

LEMMA BackedIsRecorded ==
    ASSUME RunTypeOK, NEW t \in Tasks, NEW s
    PROVE  Backed(t, s) <=> \E w \in Workflows : \E i \in 1..Len(ledger[w]) :
                                ledger[w][i].task = t /\ ledger[w][i].to = s
  <1>1. \A w \in Workflows : Len(ledger[w]) \in Nat
    BY DEF RunTypeOK, TypeOK
  <1>2. QED
    BY <1>1 DEF Backed, EverRecorded, Recorded

\* A row is blank, newly registered, or holds a status the ledgers record.
Accounted == \A t \in Tasks : task[t] \notin {NoRow, "pending"} => Backed(t, task[t])

\* A step of a run writes a row only from an event it has logged, or registers it.
LEMMA StepWritesBacked ==
    ASSUME RunTypeOK, CallInv, Step, NEW t \in Tasks
    PROVE  task'[t] = task[t] \/ task'[t] = "pending" \/ Backed(t, task'[t])
  <1>1. CASE EngineStep
    <2>1. CASE AppendEvent(Runtime)
      BY <2>1, AppendStep
    <2>2. CASE Project(Runtime)
      <3> DEFINE e == call[Runtime].event
      <3>1. /\ call[Runtime].step = "logged" /\ e \in Event
            /\ e.task = None => UNCHANGED task
            /\ e.task # None => task' = [task EXCEPT ![e.task] = e.to]
        BY <2>2, ProjectStep
      <3>2. wf \in Workflows /\ InLedger(wf, e)
        BY <3>1 DEF CallInv, RunTypeOK
      <3> HIDE DEF e
      <3>3. Backed(e.task, e.to)
        BY <3>2, InLedgerIsRecorded DEF Backed
      <3>4. task'[t] = task[t] \/ (e.task = t /\ task'[t] = e.to)
        BY <3>1 DEF RunTypeOK, TypeOK
      <3>5. QED
        BY <3>3, <3>4
    <2>3. CASE RegisterNext(Runtime)
      <3>1. PICK u \in call[Runtime].left : task' = [task EXCEPT ![u] = "pending"]
        BY <2>3, RegisterStep
      <3>2. QED
        BY <3>1 DEF RunTypeOK, TypeOK
    <2>4. QED
      BY <1>1, <2>1, <2>2, <2>3, EngineCases
  <1>2. CASE Register
    BY <1>2 DEF Register, RegisterTasks, Enter
  <1>3. ASSUME NEW u \in Tasks, NEW target \in TaskStatus, SetTask(u, target)
        PROVE  UNCHANGED task
    BY <1>3, TaskCallBegins
  <1>4. ASSUME NEW from \in WorkflowStatus, NEW to \in WorkflowStatus,
               Validated(Runtime, wf, WorkflowEvent(from, to, "none"))
        PROVE  UNCHANGED task
    BY <1>4, WorkflowCallBegins
  <1>5. QED
    BY <1>1, <1>2, <1>3, <1>4, StepKinds DEF vars

\* A replay writes a row only from an event of the ledger.
LEMMA RebuildWritesBacked ==
    ASSUME ResumedInv, Rebuild, NEW t \in Tasks
    PROVE  task'[t] = task[t] \/ Backed(t, task'[t])
  <1>1. CASE Manager!ReplayEvent
    <2>1. PICK u \in Workflows : u = replay.w
      BY <1>1 DEF ResumedInv, ReplayInv, Replaying, Manager!ReplayEvent
    <2> DEFINE n == replay.at
               e == ledger[u][n + 1]
    <2>2. /\ n < replay.upto /\ replay.upto = Len(ledger[u]) /\ n \in Nat
          /\ RunTypeOK /\ Len(ledger[u]) \in Nat
      BY <1>1, <2>1
         DEF ResumedInv, RowsInv, ReplayInv, Replaying, Manager!ReplayEvent, RunTypeOK, TypeOK
    <2>3. \/ e.task # None /\ task' = [task EXCEPT ![e.task] = e.to]
          \/ UNCHANGED task
      BY <1>1, <2>1 DEF Manager!ReplayEvent, Manager!UpsertTask
    <2>4. InLedger(u, e)
      <3>1. n + 1 \in 1..Len(ledger[u])
        BY <2>2
      <3> HIDE DEF n
      <3>2. QED
        BY <3>1 DEF InLedger
    <2> HIDE DEF e
    <2>5. Backed(e.task, e.to)
      BY <2>1, <2>2, <2>4, InLedgerIsRecorded DEF Backed
    <2>6. task'[t] = task[t] \/ (e.task = t /\ task'[t] = e.to)
      BY <2>2, <2>3 DEF RunTypeOK, TypeOK
    <2>7. QED
      BY <2>5, <2>6
  <1>2. CASE ~Manager!ReplayEvent
    BY <1>2 DEF Rebuild, Manager!FinishReplay, Manager!UpsertWorkflow, Manager!CrashReplay,
                Manager!vars
  <1>3. QED
    BY <1>1, <1>2

\* Events are never taken back.
LEMMA StaysBacked ==
    ASSUME ResumedInv, [ResumedNext]_resumedVars, NEW t \in Tasks, NEW s, Backed(t, s)
    PROVE  Backed(t, s)'
  <1>1. PICK w \in Workflows : EverRecorded(w, t, s)
    BY DEF Backed
  <1>2. CASE Step
    <2>1. EverRecorded(w, t, s)'
      BY <1>1, <1>2, StaysRecorded DEF ResumedInv, RowsInv
    <2>2. QED
      BY <2>1 DEF Backed
  <1>3. CASE UNCHANGED ledger
    <2>1. EverRecorded(w, t, s)'
      BY <1>1, <1>3 DEF EverRecorded, Recorded
    <2>2. QED
      BY <2>1 DEF Backed
  <1>4. Step \/ UNCHANGED ledger
    BY RebuildFrame
       DEF ResumedNext, GoOn, Killed, Die, Crash, Restart, RunAgain, LoseDatabase,
           resumedVars, allVars, vars
  <1>5. QED
    BY <1>2, <1>3, <1>4

\* In all runs of a plan, and after any loss and any replay, whole or in part, no task's row
\* holds a status that no event of the task has recorded.
THEOREM RowsStayBacked == ResumedSpec => []Manager!TasksBacked
  <1>1. ResumedInit => Accounted
    BY DEF ResumedInit, RunInit, Init, Accounted
  <1>2. ResumedInv /\ Accounted /\ [ResumedNext]_resumedVars => Accounted'
    <2> SUFFICES ASSUME ResumedInv, Accounted, [ResumedNext]_resumedVars,
                        NEW t \in Tasks, NEW s, s = task'[t], s \notin {NoRow, "pending"}
                 PROVE  Backed(t, s)'
      BY DEF Accounted, NoRow
    <2>1. s = task[t] \/ Backed(t, s)
      <3>1. CASE GoOn
        BY <3>1, StepWritesBacked DEF GoOn, ResumedInv, RowsInv
      <3>2. CASE LoseDatabase
        BY <3>2 DEF LoseDatabase
      <3>3. CASE Rebuild
        BY <3>3, RebuildWritesBacked
      <3>4. CASE Killed \/ Restart \/ UNCHANGED resumedVars
        BY <3>4 DEF Killed, Die, Crash, Restart, RunAgain, resumedVars, allVars, vars
      <3>5. QED
        BY <3>1, <3>2, <3>3, <3>4 DEF ResumedNext
    <2>2. Backed(t, s)
      BY <2>1 DEF Accounted
    <2>3. QED
      BY <2>2, StaysBacked
  <1>3. ResumedInv /\ Accounted => Manager!TasksBacked
    <2> SUFFICES ASSUME ResumedInv, Accounted
                 PROVE  Manager!TasksBacked
      OBVIOUS
    <2>1. RunTypeOK
      BY DEF ResumedInv, RowsInv
    <2>2. QED
      BY <2>1, BackedIsRecorded DEF Accounted, Manager!TasksBacked, Manager!NoRow, NoRow
  <1>4. QED
    BY <1>1, <1>2, <1>3, ResumedInvHolds, PTL DEF ResumedSpec

-----------------------------------------------------------------------------
(* The run uses the engine as the engine expects to be used.               *)

LEMMA TaskMethod ==
    ASSUME RunTypeOK, NEW t \in Tasks, NEW target \in TaskStatus, SetTask(t, target)
    PROVE  Next
  BY RuntimeAssumption DEF Next, SetTask, RunTypeOK

LEMMA WorkflowMethod ==
    ASSUME RunTypeOK, NEW target \in WorkflowStatus, SetWorkflow(target)
    PROVE  Next
  BY RuntimeAssumption DEF Next, SetWorkflow, RunTypeOK

\* What run_goal does to the stores it does through a method of the engine.
LEMMA StepDrivesEngine ==
    ASSUME RunTypeOK, Step
    PROVE  [Next]_vars
  <1> USE DEF Goto
  <1>1. Runtime \in Clients /\ Runtime \notin Operators /\ wf \in Workflows
    BY RuntimeAssumption DEF RunTypeOK
  <1>2. CASE EngineStep
    BY <1>1, <1>2 DEF EngineStep, Next
  <1>3. CASE StartRun
    BY <1>1, <1>3 DEF StartRun, Next
  <1>4. CASE Register
    <2>1. RegisterTasks(Runtime, wf, Tasks) /\ Tasks \in SUBSET Tasks
      BY <1>4 DEF Register
    <2>2. QED
      BY <1>1, <2>1 DEF Next
  <1>5. CASE Compile \/ Plan \/ Run
    <2>1. \E target \in {"compiled", "planned", "running"} : SetWorkflow(target)
      BY <1>5 DEF Compile, Plan, Run
    <2>2. QED
      BY <2>1, WorkflowMethod DEF WorkflowStatus
  <1>6. CASE DetectCycles \/ Decide
    <2>1. \/ UNCHANGED vars
          \/ \E target \in {"completed", "failed"} : SetWorkflow(target)
      BY <1>6 DEF DetectCycles, Decide
    <2>2. QED
      BY <2>1, WorkflowMethod DEF WorkflowStatus
  <1>7. CASE Iterate \/ BeginRequeue \/ SelectReady \/ EndIteration \/ Execute
             \/ RecordIdempotency
    BY <1>7 DEF Iterate, BeginRequeue, Visit, SelectReady, EndIteration, Execute,
                RecordIdempotency
  <1>8. CASE Promote
    <2>1. FirstOf(todo) \in Tasks
      BY <1>8, FirstOfTodo DEF Promote
    <2>2. SetTask(FirstOf(todo), "ready") \/ UNCHANGED vars
      BY <1>8 DEF Promote
    <2>3. QED
      BY <2>1, <2>2, TaskMethod DEF TaskStatus
  <1>9. CASE Requeue \/ Claim
    <2>1. \E t \in Tasks : SetTask(t, "ready") \/ SetTask(t, "claimed")
      BY <1>9 DEF Requeue, Claim, RunTypeOK
    <2>2. QED
      BY <2>1, TaskMethod DEF TaskStatus
  <1>10. CASE Block \/ Propose \/ AskModel \/ Verify \/ PostVerify \/ CommitTask
              \/ RetryLater
    <2>1. \E target \in TaskStatus : SetTask(current, target)
      BY <1>10 DEF Block, Propose, AskModel, Verify, PostVerify, CommitTask, RetryLater,
                   TaskStatus
    <2>2. QED
      BY <2>1, TaskMethod DEF RunTypeOK
  <1>11. QED
    BY <1>2, <1>3, <1>4, <1>5, <1>6, <1>7, <1>8, <1>9, <1>10
       DEF Step, Setup, Schedule, Work

\* A run of a goal is a behaviour of the engine: what Orchestrator promises of any clients
\* that call its methods in any order, it promises of run_goal.
THEOREM RunDrivesEngine == FairRunSpec => Spec
  <1>1. RunInit => Init
    BY DEF RunInit
  <1>2. RunTypeOK /\ [Step]_allVars => [Next]_vars
    BY StepDrivesEngine DEF allVars
  <1>3. FairRunSpec => []RunTypeOK
    BY RunInvHolds, PTL DEF RunInv, RowsInv
  <1>4. QED
    BY <1>1, <1>2, <1>3, PTL DEF FairRunSpec, Spec

\* Also where processes die, the database is lost and rows are rebuilt, everything but the
\* loss and the replay is the engine's: a death and a new run change its stores by no other
\* step than one it takes itself.
THEOREM RunsDriveEngine ==
    ResumedSpec => [][LoseDatabase \/ Rebuild \/ [Next]_vars]_resumedVars
  <1>1. ASSUME RunTypeOK, ResumedNext
        PROVE  LoseDatabase \/ Rebuild \/ [Next]_vars
    <2>1. CASE GoOn
      BY <1>1, <2>1, StepDrivesEngine DEF GoOn
    <2>2. CASE Killed
      BY <2>2, RuntimeAssumption DEF Killed, Die, Next
    <2>3. CASE Restart
      BY <2>3 DEF Restart, RunAgain
    <2>4. QED
      BY <1>1, <2>1, <2>2, <2>3 DEF ResumedNext
  <1>2. RunTypeOK /\ [ResumedNext]_resumedVars
            => [LoseDatabase \/ Rebuild \/ [Next]_vars]_resumedVars
    BY <1>1
  <1>3. QED
    BY <1>2, RunsKeepTypes, PTL DEF ResumedSpec

\* One process has no calls that overlap, and as long as it lives it ends what it begins.
LEMMA StepAlone ==
    ASSUME RunTypeOK, Step, ~overlapped
    PROVE  ~overlapped' /\ cut' = cut
  <1>1. ASSUME NEW x, Enter(Runtime, x)
        PROVE  ~overlapped' /\ cut' = cut
    <2>1. Clients \ {Runtime} = {}
      BY RuntimeAssumption
    <2>2. QED
      BY <1>1, <2>1 DEF Enter
  <1>2. ASSUME NEW event, Validated(Runtime, wf, event)
        PROVE  ~overlapped' /\ cut' = cut
    BY <1>1, <1>2 DEF Validated
  <1>3. CASE EngineStep
    BY <1>3 DEF EngineStep, Continue, AppendEvent, Project, RegisterNext, RecordNext
  <1>4. CASE Register
    BY <1>1, <1>4 DEF Register, RegisterTasks
  <1>5. CASE UNCHANGED vars
    BY <1>5 DEF vars
  <1>6. CASE \E t \in Tasks : \E target \in TaskStatus : SetTask(t, target)
    BY <1>2, <1>6 DEF SetTask, TransitionTask
  <1>7. QED
    BY <1>2, <1>3, <1>4, <1>5, <1>6, StepKinds

\* While nothing interrupts a run, no row is ahead of its ledger or more than one event
\* behind it, and the events of its workflow form one chain.  The conditions under which
\* the engine promises this are met: there is one process, and it does not die.
THEOREM RunKeepsStoresTogether ==
    FairRunSpec => [](/\ ~overlapped /\ ~cut
                      /\ ProjectionBacked /\ ProjectionLag /\ LedgerContinuous)
  <1> DEFINE Undivided == ~overlapped /\ ~cut
  <1>1. RunInit => Undivided
    BY DEF RunInit, Init
  <1>2. RunTypeOK /\ Undivided /\ [Step]_allVars => Undivided'
    BY StepAlone DEF allVars, vars
  <1>3. FairRunSpec => []RunTypeOK
    BY RunInvHolds, PTL DEF RunInv, RowsInv
  <1>4. FairRunSpec => []Undivided
    <2> HIDE DEF Undivided
    <2>1. QED
      BY <1>1, <1>2, <1>3, PTL DEF FairRunSpec
  <1>5. QED
    BY <1>4, RunDrivesEngine, NeverAheadOfLedger, RowsLagOneEvent, EventsFormAChain, PTL

-----------------------------------------------------------------------------
(* The run comes to an end.                                                *)

\* The components of what remains, one by one.
Advances ==
    \/ Part' < Part
    \/ /\ Part' = Part
       /\ MaxIterations - iteration' < MaxIterations - iteration
    \/ /\ Part' = Part /\ iteration' = iteration
       /\ Pass' < Pass
    \/ /\ Part' = Part /\ iteration' = iteration /\ Pass' = Pass
       /\ Cardinality(todo') < Cardinality(todo)
    \/ /\ Part' = Part /\ iteration' = iteration /\ Pass' = Pass
       /\ todo' = todo
       /\ Stage' < Stage
    \/ /\ Part' = Part /\ iteration' = iteration /\ Pass' = Pass
       /\ todo' = todo /\ Stage' = Stage
       /\ Pending' < Pending

LEMMA AdvancesIsBelow == Advances => Below(Remaining', Remaining)
  <1> DEFINE a == Remaining'
             b == Remaining
  <1>1. MaxIterations' = MaxIterations
    BY DEF MaxIterations
  <1>2. /\ a[1] = Part' /\ a[2] = MaxIterations - iteration' /\ a[3] = Pass'
        /\ a[4] = Cardinality(todo)' /\ a[5] = Stage' /\ a[6] = Pending'
    BY <1>1 DEF Remaining
  <1>3. /\ b[1] = Part /\ b[2] = MaxIterations - iteration /\ b[3] = Pass
        /\ b[4] = Cardinality(todo) /\ b[5] = Stage /\ b[6] = Pending
    BY DEF Remaining
  <1>4. Advances =>
          \/ a[1] < b[1]
          \/ a[2] < b[2] /\ a[1] = b[1]
          \/ a[3] < b[3] /\ a[1] = b[1] /\ a[2] = b[2]
          \/ a[4] < b[4] /\ a[1] = b[1] /\ a[2] = b[2] /\ a[3] = b[3]
          \/ a[5] < b[5] /\ a[1] = b[1] /\ a[2] = b[2] /\ a[3] = b[3] /\ a[4] = b[4]
          \/ /\ a[6] < b[6] /\ a[1] = b[1] /\ a[2] = b[2] /\ a[3] = b[3] /\ a[4] = b[4]
             /\ a[5] = b[5]
    BY <1>2, <1>3 DEF Advances
  <1> HIDE DEF a, b
  <1>5. /\ \A j \in 1..(1 - 1) : FALSE
        /\ \A j \in 1..(2 - 1) : j = 1
        /\ \A j \in 1..(3 - 1) : j \in {1, 2}
        /\ \A j \in 1..(4 - 1) : j \in {1, 2, 3}
        /\ \A j \in 1..(5 - 1) : j \in {1, 2, 3, 4}
        /\ \A j \in 1..(6 - 1) : j \in {1, 2, 3, 4, 5}
    OBVIOUS
  <1>6. /\ 1 \in 1..6 /\ 2 \in 1..6 /\ 3 \in 1..6 /\ 4 \in 1..6 /\ 5 \in 1..6 /\ 6 \in 1..6
    OBVIOUS
  <1>7. Advances => Below(a, b)
    BY <1>4, <1>5, <1>6 DEF Below
  <1>8. QED
    BY <1>7 DEF a, b

\* A loop that has visited a task has one task less to visit.
LEMMA VisitedOne ==
    ASSUME NEW S \in SUBSET Tasks, NEW t \in S
    PROVE  Cardinality(S) \in Nat /\ Cardinality(S \ {t}) < Cardinality(S)
  <1>1. IsFiniteSet(S)
    BY TasksAssumption, FS_Subset
  <1>2. Cardinality(S) \in Nat /\ Cardinality(S \ {t}) = Cardinality(S) - 1
    BY <1>1, FS_CardinalityType, FS_RemoveElement
  <1>3. QED
    BY <1>2

\* The engine's method under way has less to do.
LEMMA EngineAdvances ==
    ASSUME RunTypeOK, CallInv, EngineStep
    PROVE  Advances
  <1>1. UNCHANGED <<pc, iteration, todo>>
    BY EngineCases
  <1>2. Part' = Part /\ Pass' = Pass /\ Stage' = Stage
    BY <1>1 DEF Part, Pass, Stage
  <1>3. CASE AppendEvent(Runtime)
    <2>1. call[Runtime].step = "validated" /\ call'[Runtime].step = "logged"
      BY <1>3, AppendStep
    <2>2. Pending' < Pending
      BY <2>1 DEF Pending
    <2>3. QED
      BY <1>1, <1>2, <2>2 DEF Advances
  <1>4. CASE Project(Runtime)
    <2>1. call[Runtime].step = "logged" /\ call'[Runtime].step = "idle"
      BY <1>4, ProjectStep, IdleShape
    <2>2. Pending' < Pending
      BY <2>1 DEF Pending
    <2>3. QED
      BY <1>1, <1>2, <2>2 DEF Advances
  <1>5. CASE RegisterNext(Runtime)
    <2> DEFINE left == call[Runtime].left
    <2>1. call[Runtime].step = "registering" /\ left \in SUBSET Tasks
      BY <1>5, RegisterStep DEF RegisterNext
    <2>2. PICK t \in left :
             call'[Runtime] = IF left \ {t} = {} THEN Idle
                              ELSE [step |-> "registering", w |-> wf, left |-> left \ {t}]
      BY <1>5, RegisterStep
    <2>3. Pending = Cardinality(left)
      BY <2>1 DEF Pending
    <2>4. Pending' = Cardinality(left \ {t})
      <3>1. CASE left \ {t} = {}
        <4>1. call'[Runtime].step = "idle"
          BY <2>2, <3>1, IdleShape
        <4>2. Pending' = 0
          BY <4>1 DEF Pending
        <4>3. QED
          BY <3>1, <4>2, FS_EmptySet
      <3>2. CASE left \ {t} # {}
        <4>1. call'[Runtime].step = "registering" /\ call'[Runtime].left = left \ {t}
          BY <2>2, <3>2
        <4>2. QED
          BY <4>1 DEF Pending
      <3>3. QED
        BY <3>1, <3>2
    <2>5. Pending' < Pending
      BY <2>1, <2>3, <2>4, VisitedOne
    <2>6. QED
      BY <1>1, <1>2, <2>5 DEF Advances
  <1>6. QED
    BY <1>3, <1>4, <1>5, EngineCases

\* A step between two methods begins a later part of the run or of the iteration, a new
\* iteration below the bound, or is done with a task.
LEMMA StepAdvances ==
    ASSUME RunTypeOK, CallInv, Step
    PROVE  Advances
  <1> USE DEF Goto, runVars
  <1>1. CASE EngineStep
    BY <1>1, EngineAdvances
  <1>2. CASE StartRun \/ Compile \/ Register \/ Plan \/ Run \/ DetectCycles \/ Decide
    <2>1. Part' < Part
      BY <1>2 DEF StartRun, Compile, Register, Plan, Run, DetectCycles, Decide, Part
    <2>2. QED
      BY <2>1 DEF Advances
  <1>3. CASE Iterate
    <2>1. CASE pc' = "promote"
      <3>1. /\ iteration \in Nat /\ iteration' = iteration + 1
            /\ Part' = Part
        BY <1>3, <2>1 DEF Iterate, Part, RunTypeOK
      <3>2. QED
        BY <3>1, MaxIterationsIsNat DEF Advances
    <2>2. CASE pc' = "verdict"
      <3>1. Part' < Part
        BY <1>3, <2>2 DEF Iterate, Part
      <3>2. QED
        BY <3>1 DEF Advances
    <2>3. QED
      BY <1>3, <2>1, <2>2 DEF Iterate
  <1>4. CASE Promote
    <2>1. /\ FirstOf(todo) \in todo /\ todo \in SUBSET Tasks
          /\ todo' = todo \ {FirstOf(todo)} /\ iteration' = iteration
          /\ pc = "promote" /\ pc' \in {"promote", "block"}
      BY <1>4, FirstOfTodo DEF Promote, RunTypeOK
    <2>2. Part' = Part /\ Pass' = Pass
      BY <2>1 DEF Part, Pass
    <2>3. Cardinality(todo') < Cardinality(todo)
      BY <2>1, VisitedOne
    <2>4. QED
      BY <2>1, <2>2, <2>3 DEF Advances
  <1>5. CASE Requeue \/ Claim
    <2>1. PICK t \in todo : todo' = todo \ {t}
      BY <1>5 DEF Requeue, Claim
    <2>2. /\ todo \in SUBSET Tasks /\ iteration' = iteration
          /\ Part' = Part /\ Pass' = Pass
      BY <1>5 DEF Requeue, Claim, Part, Pass, RunTypeOK
    <2>3. Cardinality(todo') < Cardinality(todo)
      BY <2>1, <2>2, VisitedOne
    <2>4. QED
      BY <2>2, <2>3 DEF Advances
  <1>6. CASE BeginRequeue \/ EndIteration
    <2>1. Part' = Part /\ iteration' = iteration /\ Pass' < Pass
      BY <1>6 DEF BeginRequeue, Visit, EndIteration, Part, Pass
    <2>2. QED
      BY <2>1 DEF Advances
  <1>7. CASE SelectReady
    <2>1. pc = "requeue" /\ pc' \in {"verdict", "dispatch"} /\ iteration' = iteration
      BY <1>7 DEF SelectReady
    <2>2. \/ Part' < Part
          \/ Part' = Part /\ Pass' < Pass
      BY <2>1 DEF Part, Pass
    <2>3. QED
      BY <2>1, <2>2 DEF Advances
  <1>8. CASE Block
    <2>1. /\ Part' = Part /\ iteration' = iteration /\ Pass' = Pass /\ todo' = todo
          /\ Stage' < Stage
      BY <1>8 DEF Block, Part, Pass, Stage
    <2>2. QED
      BY <2>1 DEF Advances
  <1>9. CASE Propose \/ AskModel \/ Verify \/ Execute \/ PostVerify \/ RecordIdempotency
             \/ CommitTask \/ RetryLater
    <2>1. iteration' = iteration /\ todo' = todo
      BY <1>9 DEF Propose, AskModel, Verify, Execute, PostVerify, RecordIdempotency,
                  CommitTask, RetryLater
    <2>2. /\ pc \in {"propose", "ask", "verify", "execute", "post", "record", "commit", "retry"}
          /\ pc' \in Dispatching
      BY <1>9 DEF Propose, AskModel, Verify, Execute, PostVerify, RecordIdempotency,
                  CommitTask, RetryLater, Dispatching
    <2>3. Part' = Part /\ Pass' = Pass
      BY <2>2 DEF Part, Pass, Dispatching
    <2>4. Stage' < Stage
      BY <1>9 DEF Propose, AskModel, Verify, Execute, PostVerify, RecordIdempotency,
                  CommitTask, RetryLater, Stage
    <2>5. QED
      BY <2>1, <2>3, <2>4 DEF Advances
  <1>10. QED
    BY <1>1, <1>2, <1>3, <1>4, <1>5, <1>6, <1>7, <1>8, <1>9 DEF Step, Setup, Schedule, Work

\* Whatever fails and is retried, every step leaves less of the run to do.
THEOREM RunsAdvance == FairRunSpec => RunAdvances
  <1>1. RunInv /\ [Step]_allVars => [Below(Remaining', Remaining)]_allVars
    BY StepAdvances, AdvancesIsBelow DEF RunInv, RowsInv
  <1>2. QED
    BY <1>1, RunInvHolds, PTL DEF FairRunSpec, RunAdvances

\* What remains is six natural numbers, and they descend lexicographically.
Numbers == [1..6 -> Nat]
Less == {p \in Nat \X Nat : p[1] < p[2]}
Descent == LexProductOrdering(Less, Nat, 6)

LEMMA DescentIsWellFounded == IsWellFoundedOn(Descent, Numbers)
  <1>1. Less = OpToRel(<, Nat)
    BY Zenon DEF Less, OpToRel
  <1>2. IsWellFoundedOn(Less, Nat)
    BY <1>1, NatLessThanWellFounded, Zenon
  <1>3. QED
    BY <1>2, WFLexProductOrdering DEF Descent, Numbers

LEMMA RemainingIsNumbers ==
    ASSUME RunTypeOK
    PROVE  Remaining \in Numbers
  <1>1. Part \in Nat /\ Pass \in Nat /\ Stage \in Nat
    BY DEF Part, Pass, Stage
  <1>2. MaxIterations - iteration \in Nat
    BY MaxIterationsIsNat DEF RunTypeOK
  <1>3. ASSUME NEW S \in SUBSET Tasks
        PROVE  Cardinality(S) \in Nat
    <2>1. IsFiniteSet(S)
      BY TasksAssumption, FS_Subset
    <2>2. QED
      BY <2>1, FS_CardinalityType
  <1>4. Cardinality(todo) \in Nat
    BY <1>3 DEF RunTypeOK
  <1>5. Pending \in Nat
    <2>1. call[Runtime].step = "registering" => call[Runtime].left \in SUBSET Tasks
      BY CallShape, RuntimeIsClient DEF RunTypeOK, TypeOK
    <2>2. QED
      BY <1>3, <2>1 DEF Pending
  <1>6. QED
    BY <1>1, <1>2, <1>4, <1>5 DEF Remaining, Numbers

LEMMA BelowDescends ==
    ASSUME NEW a \in Numbers, NEW b \in Numbers, Below(a, b)
    PROVE  <<a, b>> \in Descent
  <1>1. PICK i \in 1..6 : a[i] < b[i] /\ \A j \in 1..(i - 1) : a[j] = b[j]
    BY DEF Below
  <1>2. <<a[i], b[i]>> \in Less
    BY <1>1 DEF Less, Numbers
  <1>3. QED
    BY <1>1, <1>2 DEF Descent, LexProductOrdering, Numbers

\* A step that leaves less to do.
Descending == <<Remaining', Remaining>> \in Descent

\* No run goes on for ever: its steps descend in a well-founded order, so there is no
\* infinite sequence of them.  With a run that is not at its end always able to go on, which
\* the provers cannot state, this is its termination.
THEOREM RunsDescend ==
    /\ IsWellFoundedOn(Descent, Numbers)
    /\ FairRunSpec => [][Descending]_allVars
  <1> DEFINE Counted == Remaining \in Numbers
  <1>1. RunInv => Counted
    BY RemainingIsNumbers DEF RunInv, RowsInv
  <1>2. RunInv /\ Counted /\ Counted' /\ [Step]_allVars => [Descending]_allVars
    BY StepAdvances, AdvancesIsBelow, BelowDescends DEF RunInv, RowsInv, Descending
  <1>3. FairRunSpec => [][Descending]_allVars
    <2> HIDE DEF Counted
    <2>1. QED
      BY <1>1, <1>2, RunInvHolds, PTL DEF FairRunSpec
  <1>4. QED
    BY <1>3, DescentIsWellFounded
====
