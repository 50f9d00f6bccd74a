-------------------------- MODULE OrchestratorProofs --------------------------
(***************************************************************************)
(* Theorems about the engine, for every set of clients, workflows and      *)
(* tasks, every interleaving of their calls and every crash.               *)
(***************************************************************************)
EXTENDS Orchestrator, TLAPS

----------------------------------------------------------------------------
(* Calls and events.                                                       *)

\* A method between its validation and its return: it has an event.
Writing == [step : {"validated", "logged"}, w : Workflows, event : Event]
Registering == [step : {"registering"}, w : Workflows, left : SUBSET Tasks]
Counting == [step : {"counting"}, w : Workflows, status : WorkflowStatus]

LEMMA CallShape ==
    ASSUME NEW x \in Call
    PROVE  /\ x.step \in {"validated", "logged"} =>
                x \in Writing /\ x.w \in Workflows /\ x.event \in Event
           /\ x.step = "registering" =>
                x \in Registering /\ x.w \in Workflows /\ x.left \in SUBSET Tasks
           /\ x.step = "counting" => x.w \in Workflows /\ x.status \in WorkflowStatus
           /\ x.step = "idle" => x = Idle
  <1>1. CASE x = Idle
    <2>1. x.step = "idle"
      BY <1>1 DEF Idle
    <2>2. QED
      BY <1>1, <2>1
  <1>2. CASE x \in Writing
    BY <1>2 DEF Writing
  <1>3. CASE x \in Registering
    BY <1>3 DEF Registering
  <1>4. CASE x \in Counting
    BY <1>4 DEF Counting
  <1>5. QED
    BY <1>1, <1>2, <1>3, <1>4 DEF Call, Writing, Registering, Counting

LEMMA WritingIsCall ==
    ASSUME NEW s \in {"validated", "logged"}, NEW w \in Workflows, NEW e \in Event
    PROVE  [step |-> s, w |-> w, event |-> e] \in Call
  BY DEF Call

\* None is not a task.
LEMMA NoneIsNoTask == \A t \in Tasks : t # None
  BY NoneAssumption

\* The statuses of an event belong to the life cycle of its subject.
LEMMA EventShape ==
    ASSUME NEW e \in Event
    PROVE  /\ e.task = None => e.from \in WorkflowStatus /\ e.to \in WorkflowStatus
           /\ e.task # None => /\ e.task \in Tasks
                              /\ e.from \in TaskStatus /\ e.to \in TaskStatus
  <1>1. CASE e \in [task : {None}, from : WorkflowStatus, to : WorkflowStatus,
                    answer : Answers]
    BY <1>1
  <1>2. CASE e \in [task : Tasks, from : TaskStatus, to : TaskStatus, answer : {"none"}]
    BY <1>2, NoneIsNoTask
  <1>3. QED
    BY <1>1, <1>2 DEF Event

LEMMA CurrentTyped ==
    ASSUME TypeOK
    PROVE  /\ \A w \in Workflows : WorkflowCurrent(w) \in WorkflowStatus
           /\ \A t \in Tasks : TaskCurrent(t) \in TaskStatus
  BY DEF TypeOK, WorkflowCurrent, TaskCurrent, NoRow, WorkflowStatus, TaskStatus

LEMMA WorkflowEventTyped ==
    ASSUME NEW from \in WorkflowStatus, NEW to \in WorkflowStatus,
           NEW a \in Answers
    PROVE  WorkflowEvent(from, to, a) \in Event
  BY DEF WorkflowEvent, Event

LEMMA TaskEventTyped ==
    ASSUME NEW t \in Tasks, NEW from \in TaskStatus, NEW to \in TaskStatus
    PROVE  TaskEvent(t, from, to) \in Event
  BY DEF TaskEvent, Event

\* A method that begins leaves everything but its own call alone.
LEMMA EnterTyped ==
    ASSUME TypeOK, NEW c \in Clients, NEW x \in Call,
           Enter(c, x)
    PROVE  TypeOK'
  <1>1. call' \in [Clients -> Call]
    BY DEF TypeOK, Enter
  <1>2. overlapped' \in BOOLEAN
    BY DEF Enter, TypeOK
  <1>3. UNCHANGED <<ledger, workflow, task, owner, cut>>
    BY DEF Enter
  <1>4. QED
    BY <1>1, <1>2, <1>3 DEF TypeOK

LEMMA ValidatedTyped ==
    ASSUME TypeOK, NEW c \in Clients, NEW w \in Workflows, NEW e \in Event,
           Validated(c, w, e)
    PROVE  TypeOK'
  <1> DEFINE x == [step |-> "validated", w |-> w, event |-> e]
  <1>1. x \in Call
    BY WritingIsCall
  <1>2. Enter(c, x)
    BY DEF Validated
  <1> HIDE DEF x
  <1>3. QED
    BY <1>1, <1>2, EnterTyped

\* The upsert of a row keeps the types of the tables.
RowsTyped ==
    /\ workflow \in [Workflows -> WorkflowStatus \cup {NoRow}]
    /\ task \in [Tasks -> TaskStatus \cup {NoRow}]
    /\ owner \in [Tasks -> Workflows \cup {None}]
    /\ \A t \in Tasks : task[t] = NoRow <=> owner[t] = None

LEMMA UpsertTaskTyped ==
    ASSUME TypeOK, NEW t \in Tasks, NEW w \in Workflows, NEW s \in TaskStatus,
           UpsertTask(t, w, s)
    PROVE  RowsTyped'
  <1>1. s # NoRow /\ w # None
    BY NoneAssumption DEF TaskStatus, NoRow
  <1>2. QED
    BY <1>1 DEF TypeOK, UpsertTask, RowsTyped

LEMMA UpsertWorkflowTyped ==
    ASSUME TypeOK, NEW w \in Workflows, NEW s \in WorkflowStatus,
           UpsertWorkflow(w, s)
    PROVE  RowsTyped'
  BY DEF TypeOK, UpsertWorkflow, RowsTyped

----------------------------------------------------------------------------
(* The steps of a method.                                                  *)

LEMMA AppendEventTyped ==
    ASSUME TypeOK, NEW c \in Clients, AppendEvent(c)
    PROVE  TypeOK'
  <1>1. call[c] \in Writing /\ call[c].w \in Workflows /\ call[c].event \in Event
    BY CallShape DEF AppendEvent, TypeOK
  <1>2. ledger' \in [Workflows -> Seq(Event)]
    BY <1>1 DEF AppendEvent, TypeOK
  <1> DEFINE x == [call[c] EXCEPT !.step = "logged"]
  <1>3. x \in Call
    BY <1>1 DEF Writing, Call
  <1>4. call' = [call EXCEPT ![c] = x]
    BY DEF AppendEvent
  <1> HIDE DEF x
  <1>5. call' \in [Clients -> Call]
    BY <1>3, <1>4 DEF TypeOK
  <1>6. UNCHANGED <<workflow, task, owner, overlapped, cut>>
    BY DEF AppendEvent
  <1>7. QED
    BY <1>2, <1>5, <1>6 DEF TypeOK

LEMMA ProjectTyped ==
    ASSUME TypeOK, NEW c \in Clients, Project(c)
    PROVE  TypeOK'
  <1> DEFINE e == call[c].event
             w == call[c].w
  <1>1. w \in Workflows /\ e \in Event
    BY CallShape DEF Project, TypeOK
  <1>2. RowsTyped'
    <2>1. CASE e.task = None /\ UpsertWorkflow(w, e.to)
      BY <1>1, <2>1, UpsertWorkflowTyped, EventShape
    <2>2. CASE e.task # None /\ UpsertTask(e.task, w, e.to)
      <3>1. e.task \in Tasks /\ e.to \in TaskStatus
        BY <1>1, <2>2, EventShape
      <3>2. QED
        BY <1>1, <2>2, <3>1, UpsertTaskTyped
    <2>3. QED
      BY <2>1, <2>2 DEF Project
  <1>3. call' \in [Clients -> Call]
    <2>1. Idle \in Call /\ Idle.step = "idle"
      BY DEF Call, Idle
    <2>2. QED
      BY <2>1 DEF TypeOK, Project
  <1>4. UNCHANGED <<ledger, overlapped, cut>>
    BY DEF Project
  <1>5. QED
    BY <1>2, <1>3, <1>4 DEF TypeOK, RowsTyped

LEMMA RegisterNextTyped ==
    ASSUME TypeOK, NEW c \in Clients, RegisterNext(c)
    PROVE  TypeOK'
  <1>1. call[c].w \in Workflows /\ call[c].left \in SUBSET Tasks
    BY CallShape DEF RegisterNext, TypeOK
  <1>2. PICK t \in call[c].left :
           /\ UpsertTask(t, call[c].w, "pending")
           /\ call' = [call EXCEPT ![c] = Registered(c, call[c].left \ {t})]
    BY DEF RegisterNext
  <1>3. RowsTyped'
    BY <1>1, <1>2, UpsertTaskTyped DEF TaskStatus
  <1> DEFINE x == Registered(c, call[c].left \ {t})
  <1>4. x \in Call
    BY <1>1 DEF Registered, Call, Idle
  <1>5. call' = [call EXCEPT ![c] = x]
    BY <1>2
  <1> HIDE DEF x
  <1>6. call' \in [Clients -> Call]
    BY <1>4, <1>5 DEF TypeOK
  <1>7. UNCHANGED <<ledger, overlapped, cut>>
    BY DEF RegisterNext
  <1>8. QED
    BY <1>3, <1>6, <1>7 DEF TypeOK, RowsTyped

LEMMA RecordNextTyped ==
    ASSUME TypeOK, NEW c \in Clients, RecordNext(c)
    PROVE  TypeOK'
  <1>1. call[c].w \in Workflows /\ call[c].status \in WorkflowStatus
    BY CallShape DEF RecordNext, TypeOK
  <1>2. RowsTyped'
    BY <1>1, UpsertWorkflowTyped DEF RecordNext
  <1>3. call' \in [Clients -> Call]
    BY DEF TypeOK, RecordNext, Call
  <1>4. UNCHANGED <<ledger, overlapped, cut>>
    BY DEF RecordNext
  <1>5. QED
    BY <1>2, <1>3, <1>4 DEF TypeOK, RowsTyped

LEMMA CrashTyped ==
    ASSUME TypeOK, NEW c \in Clients, Crash(c)
    PROVE  TypeOK'
  <1>1. call' \in [Clients -> Call]
    <2>1. Idle \in Call /\ Idle.step = "idle"
      BY DEF Call, Idle
    <2>2. QED
      BY <2>1 DEF TypeOK, Crash
  <1>2. UNCHANGED <<ledger, workflow, task, owner, overlapped>> /\ cut' \in BOOLEAN
    BY DEF Crash, TypeOK
  <1>3. QED
    BY <1>1, <1>2 DEF TypeOK

----------------------------------------------------------------------------

LEMMA InitTyped == Init => TypeOK
  <1> SUFFICES ASSUME Init
               PROVE  TypeOK
    OBVIOUS
  <1>1. Idle \in Call /\ Idle.step = "idle"
    BY DEF Call, Idle
  <1>2. call \in [Clients -> Call]
    BY <1>1 DEF Init
  <1>3. ledger \in [Workflows -> Seq(Event)]
    BY DEF Init
  <1>4. QED
    BY <1>2, <1>3 DEF Init, TypeOK

\* Every step of the engine keeps the type invariant.
LEMMA StepTyped == TypeOK /\ [Next]_vars => TypeOK'
  <1> SUFFICES ASSUME TypeOK, [Next]_vars
               PROVE  TypeOK'
    OBVIOUS
  <1> USE CurrentTyped
  <1>1. ASSUME NEW c \in Clients, Continue(c)
        PROVE  TypeOK'
    BY <1>1, AppendEventTyped, ProjectTyped, RegisterNextTyped, RecordNextTyped
    DEF Continue
  <1>2. ASSUME NEW c \in Clients, Crash(c)
        PROVE  TypeOK'
    BY <1>2, CrashTyped
  <1>3. ASSUME NEW c \in Clients, NEW w \in Workflows,
               Approve(c, w) \/ Reject(c, w)
        PROVE  TypeOK'
    <2>1. PICK a \in Answers : Validated(c, w, WorkflowEvent("paused", "running", a))
      BY <1>3 DEF Approve, Reject, Answer, Answers
    <2>2. QED
      BY <2>1, WorkflowEventTyped, ValidatedTyped DEF WorkflowStatus
  <1>4. ASSUME NEW c \in Clients, NEW w \in Workflows, CreateWorkflow(c, w)
        PROVE  TypeOK'
    BY <1>4, WorkflowEventTyped, ValidatedTyped DEF CreateWorkflow, WorkflowStatus, Answers
  <1>5. ASSUME NEW c \in Clients, NEW w \in Workflows, NEW target \in WorkflowStatus,
               TransitionWorkflow(c, w, target)
        PROVE  TypeOK'
    BY <1>5, WorkflowEventTyped, ValidatedTyped DEF TransitionWorkflow, Answers
  <1>6. ASSUME NEW c \in Clients, NEW w \in Workflows, NEW t \in Tasks,
               NEW target \in TaskStatus, TransitionTask(c, t, w, target)
        PROVE  TypeOK'
    BY <1>6, TaskEventTyped, ValidatedTyped DEF TransitionTask
  <1>7. ASSUME NEW c \in Clients, NEW w \in Workflows,
               RequestApproval(c, w)
        PROVE  TypeOK'
    BY <1>7, WorkflowEventTyped, ValidatedTyped
    DEF RequestApproval, WorkflowStatus, Answers
  <1>8. ASSUME NEW c \in Clients, NEW w \in Workflows, NEW plan \in SUBSET Tasks,
               RegisterTasks(c, w, plan)
        PROVE  TypeOK'
    <2> DEFINE x == [step |-> "registering", w |-> w, left |-> plan]
    <2>1. x \in Call /\ x.step = "registering"
      BY DEF Call
    <2>2. Enter(c, x)
      BY <1>8 DEF RegisterTasks
    <2> HIDE DEF x
    <2>3. QED
      BY <2>1, <2>2, EnterTyped
  <1>9. ASSUME NEW c \in Clients, NEW w \in Workflows, RecordCall(c, w)
        PROVE  TypeOK'
    <2> DEFINE x == [step |-> "counting", w |-> w, status |-> workflow[w]]
    <2>1. workflow[w] \in WorkflowStatus
      BY <1>9 DEF RecordCall, TypeOK
    <2>2. x \in Call
      BY <2>1 DEF Call
    <2>3. Enter(c, x)
      BY <1>9 DEF RecordCall
    <2> HIDE DEF x
    <2>4. QED
      BY <2>2, <2>3, EnterTyped
  <1>10. CASE UNCHANGED vars
    BY <1>10 DEF vars, TypeOK
  <1>11. QED
    BY <1>1, <1>2, <1>3, <1>4, <1>5, <1>6, <1>7, <1>8, <1>9, <1>10 DEF Next, Command

\* The type invariant of the engine.
THEOREM EngineTypeCorrect == Spec => []TypeOK
  BY InitTyped, StepTyped, PTL DEF Spec

----------------------------------------------------------------------------
(* The ledger is written ahead of the projection.                          *)

InLedger(w, e) == \E i \in 1..Len(ledger[w]) : ledger[w][i] = e

\* What makes ProjectionBacked inductive: a method that has still to upsert its
\* row has its event in the ledger, wherever the other clients are.
LoggedInv ==
    \A c \in Clients : call[c].step = "logged" => InLedger(call[c].w, call[c].event)

\* Some event of the workflow itself has led to this status.
StatusRecorded(w, s) ==
    \E i \in 1..Len(ledger[w]) : ledger[w][i].task = None /\ ledger[w][i].to = s

\* And a method that will write back the status it read has read a recorded one.
CountedInv ==
    \A c \in Clients :
        call[c].step = "counting" => StatusRecorded(call[c].w, call[c].status)

BackedInv == ProjectionBacked /\ LoggedInv /\ CountedInv

\* Steps that touch neither the ledger nor the rows, and log nothing.
LEMMA QuietBacked ==
    ASSUME BackedInv, UNCHANGED <<ledger, workflow, task>>,
           \A c \in Clients :
               call'[c].step \in {"logged", "counting"} => call'[c] = call[c]
    PROVE  BackedInv'
  <1>1. ProjectionBacked'
    BY DEF BackedInv, ProjectionBacked
  <1>2. LoggedInv'
    BY DEF BackedInv, LoggedInv, InLedger
  <1>3. CountedInv'
    BY DEF BackedInv, CountedInv, StatusRecorded
  <1>4. QED
    BY <1>1, <1>2, <1>3 DEF BackedInv

LEMMA EnterBacked ==
    ASSUME TypeOK, BackedInv, NEW c \in Clients, NEW x,
           x.step \notin {"logged", "counting"}, Enter(c, x)
    PROVE  BackedInv'
  <1>1. UNCHANGED <<ledger, workflow, task>>
    BY DEF Enter
  <1>2. \A d \in Clients :
          call'[d].step \in {"logged", "counting"} => call'[d] = call[d]
    BY DEF Enter, TypeOK
  <1>3. QED
    BY <1>1, <1>2, QuietBacked

LEMMA ValidatedBacked ==
    ASSUME TypeOK, BackedInv, NEW c \in Clients, NEW w, NEW e, Validated(c, w, e)
    PROVE  BackedInv'
  <1> DEFINE x == [step |-> "validated", w |-> w, event |-> e]
  <1>1. x.step \notin {"logged", "counting"} /\ Enter(c, x)
    BY DEF Validated
  <1> HIDE DEF x
  <1>2. QED
    BY <1>1, EnterBacked

\* An append keeps every event that is in the ledger and adds its own.
LEMMA AppendKeeps ==
    ASSUME TypeOK, NEW c \in Clients, AppendEvent(c)
    PROVE  /\ \A w \in Workflows : \A i \in 1..Len(ledger[w]) :
                i \in 1..Len(ledger'[w]) /\ ledger'[w][i] = ledger[w][i]
           /\ InLedger(call[c].w, call[c].event)'
  <1> DEFINE u == call[c].w
             e == call[c].event
  <1>1. u \in Workflows /\ e \in Event
    BY CallShape DEF AppendEvent, TypeOK
  <1>2. ledger' = [ledger EXCEPT ![u] = Append(@, e)] /\ ledger \in [Workflows -> Seq(Event)]
    BY DEF AppendEvent, TypeOK
  <1>3. /\ ledger'[u] = Append(ledger[u], e)
        /\ \A w \in Workflows : w # u => ledger'[w] = ledger[w]
    BY <1>1, <1>2
  <1> HIDE DEF u, e
  <1>4. \A w \in Workflows : \A i \in 1..Len(ledger[w]) :
           i \in 1..Len(ledger'[w]) /\ ledger'[w][i] = ledger[w][i]
    BY <1>1, <1>2, <1>3
  <1>5. ledger'[u][Len(ledger[u]) + 1] = e /\ Len(ledger[u]) + 1 \in 1..Len(ledger'[u])
    BY <1>1, <1>2, <1>3
  <1>6. u' = u /\ e' = e
    <2>1. call[c] \in Writing
      BY CallShape DEF AppendEvent, TypeOK
    <2>2. call'[c] = [call[c] EXCEPT !.step = "logged"]
      BY DEF AppendEvent, TypeOK
    <2>3. QED
      BY <2>1, <2>2 DEF Writing, u, e
  <1>7. \E i \in 1..Len(ledger'[u']) : ledger'[u'][i] = e'
    BY <1>5, <1>6
  <1>8. QED
    BY <1>4, <1>7 DEF InLedger, u, e

LEMMA AppendEventBacked ==
    ASSUME TypeOK, BackedInv, NEW c \in Clients, AppendEvent(c)
    PROVE  BackedInv'
  <1>1. /\ \A w \in Workflows : \A i \in 1..Len(ledger[w]) :
              i \in 1..Len(ledger'[w]) /\ ledger'[w][i] = ledger[w][i]
        /\ InLedger(call[c].w, call[c].event)'
    BY AppendKeeps
  <1>2. UNCHANGED <<workflow, task>>
    BY DEF AppendEvent
  <1>3. ProjectionBacked'
    <2>1. \A w \in Workflows : workflow'[w] # NoRow =>
             \E i \in 1..Len(ledger'[w]) :
                ledger'[w][i].task = None /\ ledger'[w][i].to = workflow'[w]
      BY <1>1, <1>2 DEF BackedInv, ProjectionBacked
    <2>2. \A t \in Tasks : task'[t] \notin {NoRow, "pending"} =>
             \E w \in Workflows : \E i \in 1..Len(ledger'[w]) :
                ledger'[w][i].task = t /\ ledger'[w][i].to = task'[t]
      BY <1>1, <1>2 DEF BackedInv, ProjectionBacked
    <2>3. QED
      BY <2>1, <2>2 DEF ProjectionBacked
  <1>4. ASSUME NEW d \in Clients, call'[d].step = "logged"
        PROVE  InLedger(call[d].w, call[d].event)'
    <2>1. CASE d = c
      BY <1>1, <2>1
    <2>2. CASE d # c
      <3>1. call'[d] = call[d]
        BY <2>2 DEF AppendEvent, TypeOK
      <3>2. InLedger(call[d].w, call[d].event) /\ call[d].w \in Workflows
        BY <1>4, <3>1, CallShape DEF BackedInv, LoggedInv, TypeOK
      <3>3. QED
        BY <1>1, <3>1, <3>2 DEF InLedger
    <2>3. QED
      BY <2>1, <2>2
  <1>5. ASSUME NEW d \in Clients, call'[d].step = "counting"
        PROVE  StatusRecorded(call[d].w, call[d].status)'
    <2>1. call'[d] = call[d]
      BY <1>5 DEF AppendEvent, TypeOK
    <2>2. StatusRecorded(call[d].w, call[d].status) /\ call[d].w \in Workflows
      BY <1>5, <2>1, CallShape DEF BackedInv, CountedInv, TypeOK
    <2>3. QED
      BY <1>1, <2>1, <2>2 DEF StatusRecorded
  <1>6. QED
    BY <1>3, <1>4, <1>5 DEF BackedInv, LoggedInv, CountedInv

LEMMA ProjectBacked ==
    ASSUME TypeOK, BackedInv, NEW c \in Clients, Project(c)
    PROVE  BackedInv'
  <1> DEFINE u == call[c].w
             e == call[c].event
  <1>1. u \in Workflows /\ e \in Event /\ InLedger(u, e)
    BY CallShape DEF Project, TypeOK, BackedInv, LoggedInv
  <1>2. PICK n \in 1..Len(ledger[u]) : ledger[u][n] = e
    BY <1>1 DEF InLedger
  <1>3. /\ UNCHANGED ledger
        /\ \/ e.task = None /\ UpsertWorkflow(u, e.to)
           \/ e.task # None /\ UpsertTask(e.task, u, e.to)
        /\ \A d \in Clients :
          call'[d].step \in {"logged", "counting"} => call'[d] = call[d]
    BY DEF Project, TypeOK, Idle
  <1> HIDE DEF u, e
  <1>4. ProjectionBacked'
    <2> DEFINE WorkflowsBacked ==
                  \A w \in Workflows : workflow[w] # NoRow =>
                     \E i \in 1..Len(ledger[w]) :
                        ledger[w][i].task = None /\ ledger[w][i].to = workflow[w]
               TasksBacked ==
                  \A t \in Tasks : task[t] \notin {NoRow, "pending"} =>
                     \E w \in Workflows : \E i \in 1..Len(ledger[w]) :
                        ledger[w][i].task = t /\ ledger[w][i].to = task[t]
    <2>0. WorkflowsBacked /\ TasksBacked
      BY DEF BackedInv, ProjectionBacked
    <2>1. CASE e.task = None /\ UpsertWorkflow(u, e.to)
      <3>1. UNCHANGED task /\ workflow' = [workflow EXCEPT ![u] = e.to]
        BY <2>1 DEF UpsertWorkflow
      <3>2. WorkflowsBacked'
        BY <1>1, <1>2, <1>3, <2>0, <2>1, <3>1 DEF TypeOK
      <3>3. TasksBacked'
        BY <1>3, <2>0, <3>1
      <3>4. QED
        BY <3>2, <3>3 DEF ProjectionBacked
    <2>2. CASE e.task # None /\ UpsertTask(e.task, u, e.to)
      <3>1. UNCHANGED workflow /\ task' = [task EXCEPT ![e.task] = e.to]
        BY <2>2 DEF UpsertTask
      <3>2. WorkflowsBacked'
        BY <1>3, <2>0, <3>1
      <3>3. TasksBacked'
        <4>1. e.task \in Tasks /\ e.to \in TaskStatus
          BY <1>1, <2>2, EventShape
        <4>2. task'[e.task] = e.to /\ \A t \in Tasks : t # e.task => task'[t] = task[t]
          BY <3>1, <4>1 DEF TypeOK
        <4>3. \E w \in Workflows : \E i \in 1..Len(ledger[w]) :
                 ledger[w][i].task = e.task /\ ledger[w][i].to = e.to
          BY <1>1, <1>2
        <4>4. ASSUME NEW t \in Tasks, task'[t] \notin {NoRow, "pending"}
              PROVE  \E w \in Workflows : \E i \in 1..Len(ledger[w]) :
                        ledger[w][i].task = t /\ ledger[w][i].to = task'[t]
          BY <2>0, <4>2, <4>3, <4>4
        <4>5. QED
          BY <1>3, <4>4
      <3>4. QED
        BY <3>2, <3>3 DEF ProjectionBacked
    <2>3. QED
      BY <1>3, <2>1, <2>2
  <1>5. LoggedInv'
    BY <1>3 DEF BackedInv, LoggedInv, InLedger
  <1>6. CountedInv'
    BY <1>3 DEF BackedInv, CountedInv, StatusRecorded
  <1>7. QED
    BY <1>4, <1>5, <1>6 DEF BackedInv

LEMMA RegisterNextBacked ==
    ASSUME TypeOK, BackedInv, NEW c \in Clients, RegisterNext(c)
    PROVE  BackedInv'
  <1>1. PICK t \in call[c].left :
           /\ UpsertTask(t, call[c].w, "pending")
           /\ call' = [call EXCEPT ![c] = Registered(c, call[c].left \ {t})]
    BY DEF RegisterNext
  <1>2. UNCHANGED <<ledger, workflow>>
    BY <1>1 DEF RegisterNext, UpsertTask
  <1>3. \A v \in Tasks : task'[v] \notin {NoRow, "pending"} => task'[v] = task[v]
    BY <1>1 DEF UpsertTask, TypeOK
  <1>4. ProjectionBacked'
    BY <1>2, <1>3 DEF BackedInv, ProjectionBacked
  <1>5. \A d \in Clients :
          call'[d].step \in {"logged", "counting"} => call'[d] = call[d]
    BY <1>1 DEF Registered, Idle, TypeOK
  <1>6. LoggedInv'
    BY <1>2, <1>5 DEF BackedInv, LoggedInv, InLedger
  <1>7. CountedInv'
    BY <1>2, <1>5 DEF BackedInv, CountedInv, StatusRecorded
  <1>8. QED
    BY <1>4, <1>6, <1>7 DEF BackedInv

\* The status a counter is written back with was read from a row the ledger backs.
LEMMA RecordCallBacked ==
    ASSUME TypeOK, BackedInv, NEW c \in Clients, NEW w \in Workflows, RecordCall(c, w)
    PROVE  BackedInv'
  <1> DEFINE x == [step |-> "counting", w |-> w, status |-> workflow[w]]
  <1>1. /\ UNCHANGED <<ledger, workflow, task>>
        /\ call' = [call EXCEPT ![c] = x]
    BY DEF RecordCall, Enter
  <1>2. StatusRecorded(w, workflow[w])
    BY DEF RecordCall, BackedInv, ProjectionBacked, StatusRecorded
  <1>3. ProjectionBacked'
    BY <1>1 DEF BackedInv, ProjectionBacked
  <1>4. LoggedInv'
    <2>1. \A d \in Clients : call'[d].step = "logged" => call'[d] = call[d]
      BY <1>1 DEF TypeOK
    <2>2. QED
      BY <1>1, <2>1 DEF BackedInv, LoggedInv, InLedger
  <1>5. CountedInv'
    <2>1. ASSUME NEW d \in Clients, d # c, call'[d].step = "counting"
          PROVE  StatusRecorded(call[d].w, call[d].status)'
      BY <1>1, <2>1 DEF BackedInv, CountedInv, StatusRecorded, TypeOK
    <2>2. call'[c].w = w /\ call'[c].status = workflow[w]
      BY <1>1 DEF TypeOK
    <2>3. StatusRecorded(call[c].w, call[c].status)'
      BY <1>1, <1>2, <2>2 DEF StatusRecorded
    <2>4. QED
      BY <2>1, <2>3 DEF CountedInv
  <1>6. QED
    BY <1>3, <1>4, <1>5 DEF BackedInv

LEMMA RecordNextBacked ==
    ASSUME TypeOK, BackedInv, NEW c \in Clients, RecordNext(c)
    PROVE  BackedInv'
  <1> DEFINE u == call[c].w
             s == call[c].status
  <1>1. /\ workflow' = [workflow EXCEPT ![u] = s]
        /\ UNCHANGED <<ledger, task>>
    BY DEF RecordNext, UpsertWorkflow
  <1>2. StatusRecorded(u, s) /\ u \in Workflows
    BY CallShape DEF RecordNext, BackedInv, CountedInv, TypeOK
  <1>3. \A d \in Clients :
          call'[d].step \in {"logged", "counting"} => call'[d] = call[d]
    BY DEF RecordNext, TypeOK, Idle
  <1> HIDE DEF u, s
  <1>4. ASSUME NEW w \in Workflows, workflow'[w] # NoRow
        PROVE  StatusRecorded(w, workflow'[w])
    BY <1>1, <1>2, <1>4 DEF BackedInv, ProjectionBacked, StatusRecorded, TypeOK
  <1>5. ProjectionBacked'
    BY <1>1, <1>4 DEF BackedInv, ProjectionBacked, StatusRecorded
  <1>6. LoggedInv'
    BY <1>1, <1>3 DEF BackedInv, LoggedInv, InLedger
  <1>7. CountedInv'
    BY <1>1, <1>3 DEF BackedInv, CountedInv, StatusRecorded
  <1>8. QED
    BY <1>5, <1>6, <1>7 DEF BackedInv

LEMMA BackedAtFirst == Init => BackedInv
  BY DEF Init, BackedInv, ProjectionBacked, LoggedInv, CountedInv, Idle

LEMMA StepBacked == TypeOK /\ BackedInv /\ [Next]_vars => BackedInv'
  <1> SUFFICES ASSUME TypeOK, BackedInv, [Next]_vars
               PROVE  BackedInv'
    OBVIOUS
  <1>1. ASSUME NEW c \in Clients, Continue(c)
        PROVE  BackedInv'
    BY <1>1, AppendEventBacked, ProjectBacked, RegisterNextBacked, RecordNextBacked
    DEF Continue
  <1>2. ASSUME NEW c \in Clients, Crash(c)
        PROVE  BackedInv'
    <2>1. UNCHANGED <<ledger, workflow, task>>
      BY <1>2 DEF Crash
    <2>2. \A d \in Clients :
        call'[d].step \in {"logged", "counting"} => call'[d] = call[d]
      BY <1>2 DEF Crash, Idle, TypeOK
    <2>3. QED
      BY <2>1, <2>2, QuietBacked
  <1>3. ASSUME NEW c \in Clients, NEW w \in Workflows,
               Approve(c, w) \/ Reject(c, w) \/ RequestApproval(c, w)
        PROVE  BackedInv'
    BY <1>3, ValidatedBacked DEF Approve, Reject, Answer, RequestApproval
  <1>4. ASSUME NEW c \in Clients, NEW w \in Workflows, CreateWorkflow(c, w)
        PROVE  BackedInv'
    BY <1>4, ValidatedBacked DEF CreateWorkflow
  <1>5. ASSUME NEW c \in Clients, NEW w \in Workflows, NEW target,
               TransitionWorkflow(c, w, target)
        PROVE  BackedInv'
    BY <1>5, ValidatedBacked DEF TransitionWorkflow
  <1>6. ASSUME NEW c \in Clients, NEW w \in Workflows, NEW t \in Tasks, NEW target,
               TransitionTask(c, t, w, target)
        PROVE  BackedInv'
    BY <1>6, ValidatedBacked DEF TransitionTask
  <1>7. ASSUME NEW c \in Clients, NEW w \in Workflows, NEW plan \in SUBSET Tasks,
               RegisterTasks(c, w, plan)
        PROVE  BackedInv'
    <2> DEFINE x == [step |-> "registering", w |-> w, left |-> plan]
    <2>1. x.step \notin {"logged", "counting"} /\ Enter(c, x)
      BY <1>7 DEF RegisterTasks
    <2> HIDE DEF x
    <2>2. QED
      BY <2>1, EnterBacked
  <1>8. ASSUME NEW c \in Clients, NEW w \in Workflows, RecordCall(c, w)
        PROVE  BackedInv'
    BY <1>8, RecordCallBacked
  <1>9. CASE UNCHANGED vars
    BY <1>9, QuietBacked DEF vars
  <1>10. QED
    BY <1>1, <1>2, <1>3, <1>4, <1>5, <1>6, <1>7, <1>8, <1>9 DEF Next, Command

LEMMA BackedInvHolds == Spec => []BackedInv
  BY BackedAtFirst, StepBacked, EngineTypeCorrect, PTL DEF Spec

\* No row ever holds a status that the ledger does not record, however many
\* clients call the engine at once and wherever they die.
THEOREM NeverAheadOfLedger == Spec => []ProjectionBacked
  <1>1. BackedInv => ProjectionBacked
    BY DEF BackedInv
  <1>2. QED
    BY <1>1, BackedInvHolds, PTL

----------------------------------------------------------------------------
(* What the steps of the engine are, whichever method they belong to.      *)

\* The event a method has validated starts from the row it read; an answer was
\* validated on a row that was paused.
StartsAtRow(w, e) ==
    /\ e.task = None => e.from = WorkflowCurrent(w)
    /\ e.task # None => e.from = TaskCurrent(e.task)

AnswersPause(w, e) ==
    e.answer \in {"approved", "rejected"} => StatusRecorded(w, "paused")

Begins(c, w, e) == Validated(c, w, e) /\ StartsAtRow(w, e) /\ AnswersPause(w, e)

\* A row that reads "paused" has a pause in its ledger.
LEMMA PausedIsRecorded ==
    ASSUME BackedInv, NEW w \in Workflows, WorkflowCurrent(w) = "paused"
    PROVE  StatusRecorded(w, "paused")
  <1>1. workflow[w] = "paused" /\ workflow[w] # NoRow
    BY DEF WorkflowCurrent, NoRow
  <1>2. QED
    BY <1>1 DEF BackedInv, ProjectionBacked, StatusRecorded

LEMMA EngineSteps ==
    ASSUME TypeOK, BackedInv, [Next]_vars
    PROVE  \/ \E c \in Clients : AppendEvent(c) \/ Project(c) \/ RegisterNext(c)
                                 \/ RecordNext(c) \/ Crash(c)
           \/ \E c \in Clients, w \in Workflows, e \in Event : Begins(c, w, e)
           \/ \E c \in Clients, w \in Workflows, plan \in SUBSET Tasks : RegisterTasks(c, w, plan)
           \/ \E c \in Clients, w \in Workflows : RecordCall(c, w)
           \/ UNCHANGED vars
  <1> DEFINE Begun == \E c \in Clients, w \in Workflows, e \in Event : Begins(c, w, e)
  <1> USE CurrentTyped
  <1>1. ASSUME NEW c \in Clients, NEW w \in Workflows,
               NEW from \in WorkflowStatus, NEW to \in WorkflowStatus, NEW a \in Answers,
               Validated(c, w, WorkflowEvent(from, to, a)),
               from = WorkflowCurrent(w),
               a \in {"approved", "rejected"} => from = "paused"
        PROVE  Begun
    <2>1. PICK e \in Event : e = WorkflowEvent(from, to, a)
      BY WorkflowEventTyped
    <2>2. e.task = None /\ e.from = from /\ e.answer = a
      BY <2>1 DEF WorkflowEvent
    <2>3. Validated(c, w, e)
      BY <1>1, <2>1
    <2>4. Begins(c, w, e)
      BY <1>1, <2>2, <2>3, PausedIsRecorded DEF Begins, StartsAtRow, AnswersPause
    <2>5. QED
      BY <2>4
  <1>2. ASSUME NEW c \in Clients, NEW w \in Workflows,
               Approve(c, w) \/ Reject(c, w)
        PROVE  Begun
    BY <1>1, <1>2 DEF Approve, Reject, Answer, Answers, WorkflowStatus
  <1>3. ASSUME NEW c \in Clients, NEW w \in Workflows, CreateWorkflow(c, w)
        PROVE  Begun
    <2>1. WorkflowCurrent(w) = "created"
      <3>1. workflow[w] = NoRow
        <4>1. ledger[w] = <<>>
          BY <1>3 DEF CreateWorkflow, Known
        <4>2. QED
          BY <4>1 DEF BackedInv, ProjectionBacked
      <3>2. QED
        BY <3>1 DEF WorkflowCurrent
    <2>2. Validated(c, w, WorkflowEvent("created", "created", "none"))
      BY <1>3 DEF CreateWorkflow
    <2>3. "created" \in WorkflowStatus /\ "none" \in Answers
      BY DEF WorkflowStatus, Answers
    <2>4. QED
      BY <1>1, <2>1, <2>2, <2>3
  <1>4. ASSUME NEW c \in Clients, NEW w \in Workflows, NEW target \in WorkflowStatus,
               TransitionWorkflow(c, w, target)
        PROVE  Begun
    BY <1>1, <1>4 DEF TransitionWorkflow, Answers
  <1>5. ASSUME NEW c \in Clients, NEW w \in Workflows, NEW t \in Tasks,
               NEW target \in TaskStatus, TransitionTask(c, t, w, target)
        PROVE  Begun
    <2>1. PICK e \in Event : e = TaskEvent(t, TaskCurrent(t), target)
      BY TaskEventTyped
    <2>2. e.task = t /\ e.from = TaskCurrent(t) /\ e.answer = "none" /\ t # None
      BY <2>1, NoneIsNoTask DEF TaskEvent
    <2>3. Validated(c, w, e)
      BY <1>5, <2>1 DEF TransitionTask
    <2>4. Begins(c, w, e)
      BY <2>2, <2>3 DEF Begins, StartsAtRow, AnswersPause
    <2>5. QED
      BY <2>4
  <1>6. ASSUME NEW c \in Clients, NEW w \in Workflows, RequestApproval(c, w)
        PROVE  Begun
    BY <1>1, <1>6 DEF RequestApproval, Answers, WorkflowStatus
  <1>7. QED
    BY <1>2, <1>3, <1>4, <1>5, <1>6 DEF Next, Command, Continue

----------------------------------------------------------------------------
(* An answer follows a pause.                                              *)

\* A method that is about to log an answer saw the workflow paused, and the pause
\* stays in the ledger whatever the row says by now.
AnswerInv ==
    \A c \in Clients :
        call[c].step = "validated" => AnswersPause(call[c].w, call[c].event)

\* Steps that leave the ledger and validate nothing.
LEMMA QuietAnswer ==
    ASSUME AnswerInv /\ AnswersFollowPause, UNCHANGED ledger,
           \A c \in Clients : call'[c].step = "validated" => call'[c] = call[c]
    PROVE  (AnswerInv /\ AnswersFollowPause)'
  <1>1. AnswerInv'
    BY DEF AnswerInv, AnswersPause, StatusRecorded
  <1>2. AnswersFollowPause'
    BY DEF AnswersFollowPause
  <1>3. QED
    BY <1>1, <1>2

LEMMA EnterAnswer ==
    ASSUME TypeOK, AnswerInv /\ AnswersFollowPause, NEW c \in Clients, NEW x,
           x.step # "validated", Enter(c, x)
    PROVE  (AnswerInv /\ AnswersFollowPause)'
  <1>1. UNCHANGED ledger /\ \A d \in Clients : call'[d].step = "validated" => call'[d] = call[d]
    BY DEF Enter, TypeOK
  <1>2. QED
    BY <1>1, QuietAnswer

LEMMA BeginsAnswer ==
    ASSUME TypeOK, AnswerInv /\ AnswersFollowPause, NEW c \in Clients,
           NEW w \in Workflows, NEW e \in Event, Begins(c, w, e)
    PROVE  (AnswerInv /\ AnswersFollowPause)'
  <1> DEFINE x == [step |-> "validated", w |-> w, event |-> e]
  <1>1. UNCHANGED ledger /\ call' = [call EXCEPT ![c] = x]
    BY DEF Begins, Validated, Enter
  <1>2. AnswersPause(w, e) /\ x.w = w /\ x.event = e
    BY DEF Begins
  <1> HIDE DEF x
  <1>3. AnswerInv'
    <2> SUFFICES ASSUME NEW d \in Clients, call'[d].step = "validated"
                 PROVE  AnswersPause(call[d].w, call[d].event)'
      BY DEF AnswerInv
    <2>1. CASE d = c
      <3>1. call'[d].w = w /\ call'[d].event = e
        BY <1>1, <1>2, <2>1 DEF TypeOK
      <3>2. QED
        BY <1>1, <1>2, <3>1 DEF AnswersPause, StatusRecorded
    <2>2. CASE d # c
      <3>1. call'[d] = call[d]
        BY <1>1, <2>2 DEF TypeOK
      <3>2. QED
        BY <1>1, <3>1 DEF AnswerInv, AnswersPause, StatusRecorded
    <2>3. QED
      BY <2>1, <2>2
  <1>4. AnswersFollowPause'
    BY <1>1 DEF AnswersFollowPause
  <1>5. QED
    BY <1>3, <1>4

\* An append adds one event at the end of one ledger.
LEMMA AppendShape ==
    ASSUME TypeOK, NEW c \in Clients, AppendEvent(c)
    PROVE  /\ call[c].w \in Workflows /\ call[c].event \in Event
           /\ \A w \in Workflows : w # call[c].w => ledger'[w] = ledger[w]
           /\ Len(ledger[call[c].w]) \in Nat
           /\ Len(ledger'[call[c].w]) = Len(ledger[call[c].w]) + 1
           /\ \A i \in 1..Len(ledger[call[c].w]) :
                 ledger'[call[c].w][i] = ledger[call[c].w][i]
           /\ ledger'[call[c].w][Len(ledger[call[c].w]) + 1] = call[c].event
           /\ call'[c] = [call[c] EXCEPT !.step = "logged"]
           /\ call'[c].step = "logged" /\ call'[c].w = call[c].w
           /\ call'[c].event = call[c].event
           /\ \A d \in Clients \ {c} : call'[d] = call[d]
  <1> DEFINE u == call[c].w
             e == call[c].event
  <1>1. call[c] \in Writing /\ u \in Workflows /\ e \in Event
    BY CallShape DEF AppendEvent, TypeOK
  <1>2. ledger' = [ledger EXCEPT ![u] = Append(@, e)] /\ ledger \in [Workflows -> Seq(Event)]
    BY DEF AppendEvent, TypeOK
  <1>3. /\ call'[c] = [call[c] EXCEPT !.step = "logged"]
        /\ \A d \in Clients \ {c} : call'[d] = call[d]
    BY DEF AppendEvent, TypeOK
  <1>4. call'[c].step = "logged" /\ call'[c].w = u /\ call'[c].event = e
    BY <1>1, <1>3 DEF Writing
  <1> HIDE DEF u, e
  <1>5. /\ ledger'[u] = Append(ledger[u], e) /\ ledger[u] \in Seq(Event)
        /\ \A w \in Workflows : w # u => ledger'[w] = ledger[w]
    BY <1>1, <1>2
  <1>6. /\ Len(ledger[u]) \in Nat /\ Len(ledger'[u]) = Len(ledger[u]) + 1
        /\ \A i \in 1..Len(ledger[u]) : ledger'[u][i] = ledger[u][i]
        /\ ledger'[u][Len(ledger[u]) + 1] = e
    BY <1>1, <1>5
  <1>7. QED
    BY <1>1, <1>3, <1>4, <1>5, <1>6 DEF u, e

LEMMA AppendEventAnswer ==
    ASSUME TypeOK, AnswerInv /\ AnswersFollowPause, NEW c \in Clients, AppendEvent(c)
    PROVE  (AnswerInv /\ AnswersFollowPause)'
  <1> DEFINE u == call[c].w
             n == Len(ledger[u])
  <1>1. /\ u \in Workflows /\ n \in Nat /\ Len(ledger'[u]) = n + 1
        /\ \A w \in Workflows : w # u => ledger'[w] = ledger[w]
        /\ \A i \in 1..n : ledger'[u][i] = ledger[u][i]
        /\ ledger'[u][n + 1] = call[c].event
        /\ call'[c].step = "logged"
        /\ \A d \in Clients \ {c} : call'[d] = call[d]
    BY AppendShape
  <1>2. AnswersPause(u, call[c].event)
    BY DEF AppendEvent, AnswerInv
  <1> HIDE DEF n
  <1>3. AnswerInv'
    <2>1. ASSUME NEW d \in Clients, call'[d].step = "validated"
          PROVE  AnswersPause(call[d].w, call[d].event)'
      <3>1. call'[d] = call[d]
        BY <1>1, <2>1
      <3>2. AnswersPause(call[d].w, call[d].event) /\ call[d].w \in Workflows
        BY <2>1, <3>1, CallShape DEF AnswerInv, TypeOK
      <3>3. \A w \in Workflows : \A i \in 1..Len(ledger[w]) :
               i \in 1..Len(ledger'[w]) /\ ledger'[w][i] = ledger[w][i]
        BY AppendKeeps
      <3>4. QED
        BY <3>1, <3>2, <3>3 DEF AnswersPause, StatusRecorded
    <2>2. QED
      BY <2>1 DEF AnswerInv
  <1> HIDE DEF u
  <1>4. ASSUME NEW w \in Workflows, NEW i \in 1..Len(ledger'[w]),
               ledger'[w][i].answer \in {"approved", "rejected"}
        PROVE  \E j \in 1..(i - 1) : ledger'[w][j].task = None /\ ledger'[w][j].to = "paused"
    <2>1. CASE w # u
      BY <1>1, <1>4, <2>1 DEF AnswersFollowPause
    <2>2. CASE w = u /\ i = n + 1
      <3>1. PICK j \in 1..n : ledger[u][j].task = None /\ ledger[u][j].to = "paused"
        BY <1>1, <1>2, <1>4, <2>2 DEF AnswersPause, StatusRecorded, n
      <3>2. QED
        BY <1>1, <2>2, <3>1
    <2>3. CASE w = u /\ i \in 1..n
      <3>1. \E j \in 1..(i - 1) : ledger[u][j].task = None /\ ledger[u][j].to = "paused"
        BY <1>1, <1>4, <2>3 DEF AnswersFollowPause, n
      <3>2. QED
        BY <1>1, <2>3, <3>1
    <2>4. QED
      BY <1>1, <2>1, <2>2, <2>3
  <1>5. QED
    BY <1>3, <1>4 DEF AnswersFollowPause

\* What has become of the row a method goes on with.
LEMMA GoingOnAnswer ==
    ASSUME TypeOK, AnswerInv /\ AnswersFollowPause, NEW c \in Clients,
           Project(c) \/ RegisterNext(c) \/ RecordNext(c) \/ Crash(c)
    PROVE  (AnswerInv /\ AnswersFollowPause)'
  <1>1. \E x : call' = [call EXCEPT ![c] = x] /\ x.step # "validated"
    BY DEF Project, RegisterNext, RecordNext, Crash, Registered, Idle
  <1>2. \A d \in Clients : call'[d].step = "validated" => call'[d] = call[d]
    BY <1>1 DEF TypeOK
  <1>3. UNCHANGED ledger
    BY DEF Project, RegisterNext, RecordNext, Crash
  <1>4. QED
    BY <1>2, <1>3, QuietAnswer

\* No approval and no rejection is recorded for a workflow that was not paused before,
\* although the pause is checked on the row and the answer is logged a step later,
\* whatever the other clients have done in between.
THEOREM AnswersNeedPause == Spec => []AnswersFollowPause
  <1> DEFINE Inv == AnswerInv /\ AnswersFollowPause
  <1>1. Init => Inv
    BY DEF Init, AnswerInv, AnswersFollowPause, Idle
  <1>2. TypeOK /\ BackedInv /\ Inv /\ [Next]_vars => Inv'
    <2> SUFFICES ASSUME TypeOK, BackedInv, Inv, [Next]_vars
                 PROVE  Inv'
      OBVIOUS
    <2>1. ASSUME NEW c \in Clients, NEW w \in Workflows, NEW plan \in SUBSET Tasks,
                 RegisterTasks(c, w, plan)
          PROVE  Inv'
      <3> DEFINE x == [step |-> "registering", w |-> w, left |-> plan]
      <3>1. x.step # "validated" /\ Enter(c, x)
        BY <2>1 DEF RegisterTasks
      <3> HIDE DEF x
      <3>2. QED
        BY <3>1, EnterAnswer
    <2>2. ASSUME NEW c \in Clients, NEW w \in Workflows, RecordCall(c, w)
          PROVE  Inv'
      <3> DEFINE x == [step |-> "counting", w |-> w, status |-> workflow[w]]
      <3>1. x.step # "validated" /\ Enter(c, x)
        BY <2>2 DEF RecordCall
      <3> HIDE DEF x
      <3>2. QED
        BY <3>1, EnterAnswer
    <2>3. CASE UNCHANGED vars
      BY <2>3, QuietAnswer DEF vars
    <2>4. QED
      BY <2>1, <2>2, <2>3, EngineSteps, BeginsAnswer, AppendEventAnswer, GoingOnAnswer
  <1>3. QED
    BY <1>1, <1>2, EngineTypeCorrect, BackedInvHolds, PTL DEF Spec

----------------------------------------------------------------------------
(* Calls that do not overlap: how far a row is behind its ledger.          *)

LastEvent(w) == ledger[w][Len(ledger[w])]

\* Event number i is the last about x.
IsLast(w, x, i) ==
    About(w, x, i) /\ \A j \in 1..Len(ledger[w]) : About(w, x, j) => j <= i

\* One client at a time is in a method; what it read of the rows still stands, and
\* the event it has logged is still the last.
SoloInv == ~overlapped =>
    /\ \A c, d \in Clients : call[c] # Idle /\ call[d] # Idle => c = d
    /\ \A c \in Clients :
          /\ call[c].step = "validated" => StartsAtRow(call[c].w, call[c].event)
          /\ call[c].step = "logged" => /\ Len(ledger[call[c].w]) > 0
                                        /\ LastEvent(call[c].w) = call[c].event
          /\ call[c].step = "counting" => call[c].status = workflow[call[c].w]

\* A row holds one of the two statuses of the last event.
WorkflowLag(w) ==
    \A i \in 1..Len(ledger[w]) : IsLast(w, None, i) =>
        WorkflowCurrent(w) \in {ledger[w][i].from, ledger[w][i].to}

TaskLag(t) == TaskCurrent(t) # "pending" =>
    \E w \in Workflows : \E i \in 1..Len(ledger[w]) :
        IsLast(w, t, i) /\ TaskCurrent(t) \in {ledger[w][i].from, ledger[w][i].to}

RowLagInv == ~overlapped =>
    (\A w \in Workflows : WorkflowLag(w)) /\ (\A t \in Tasks : TaskLag(t))

\* No client has an event of w's own in the ledger and its row still to write.
Settled(w) ==
    \A c \in Clients :
        ~(call[c].step = "logged" /\ call[c].w = w /\ call[c].event.task = None)

\* Without crashes either, a workflow that no method is about to project has the row its
\* last event leads to.
UpToDate(w) ==
    \A i \in 1..Len(ledger[w]) : IsLast(w, None, i) => WorkflowCurrent(w) = ledger[w][i].to

SettledInv == ~overlapped /\ ~cut => \A w \in Workflows : Settled(w) => UpToDate(w)

LagInv == SoloInv /\ RowLagInv /\ SettledInv /\ LedgerContinuous

LEMMA LagInvMeans ==
    ASSUME TypeOK, LagInv
    PROVE  ProjectionLag
  <1>1. ASSUME ~overlapped, NEW w \in Workflows
        PROVE  \A i \in 1..Len(ledger[w]) :
                  About(w, None, i) /\ (\A j \in 1..Len(ledger[w]) : About(w, None, j) => j <= i)
                      => WorkflowCurrent(w) \in {ledger[w][i].from, ledger[w][i].to}
    BY <1>1 DEF LagInv, RowLagInv, WorkflowLag, IsLast
  <1>2. ASSUME ~overlapped, NEW t \in Tasks, TaskCurrent(t) # "pending"
        PROVE  \E w \in Workflows :
                  /\ Mentioned(w, t)
                  /\ \A i \in 1..Len(ledger[w]) :
                        About(w, t, i) /\ (\A j \in 1..Len(ledger[w]) : About(w, t, j) => j <= i)
                            => TaskCurrent(t) \in {ledger[w][i].from, ledger[w][i].to}
    <2>0. PICK w \in Workflows : \E i \in 1..Len(ledger[w]) :
             IsLast(w, t, i) /\ TaskCurrent(t) \in {ledger[w][i].from, ledger[w][i].to}
      BY <1>2 DEF LagInv, RowLagInv, TaskLag
    <2>1. PICK i \in 1..Len(ledger[w]) :
             IsLast(w, t, i) /\ TaskCurrent(t) \in {ledger[w][i].from, ledger[w][i].to}
      BY <2>0
    <2>2. Len(ledger[w]) \in Nat
      BY DEF TypeOK
    <2>3. \A j \in 1..Len(ledger[w]) : IsLast(w, t, j) => j = i
      BY <2>1, <2>2 DEF IsLast
    <2>4. Mentioned(w, t)
      BY <2>1 DEF Mentioned, IsLast
    <2>5. QED
      BY <2>1, <2>3, <2>4 DEF IsLast
  <1>3. QED
    BY <1>1, <1>2 DEF ProjectionLag, LastAbout

\* Steps that leave the ledgers and the rows as they are.
LEMMA QuietLag ==
    ASSUME LagInv, SoloInv', UNCHANGED <<ledger, workflow, task>>,
           overlapped => overlapped', cut => cut',
           ~overlapped' /\ ~cut' => \A w \in Workflows : Settled(w)
    PROVE  LagInv'
  <1>1. RowLagInv'
    BY DEF LagInv, RowLagInv, WorkflowLag, TaskLag, IsLast, About, WorkflowCurrent, TaskCurrent
  <1>2. SettledInv'
    <2> SUFFICES ASSUME ~overlapped', ~cut', NEW w \in Workflows
                 PROVE  UpToDate(w)'
      BY DEF SettledInv
    <2>1. UpToDate(w)
      BY DEF LagInv, SettledInv
    <2>2. QED
      BY <2>1 DEF UpToDate, IsLast, About, WorkflowCurrent
  <1>3. LedgerContinuous'
    BY DEF LagInv, LedgerContinuous, About
  <1>4. QED
    BY <1>1, <1>2, <1>3 DEF LagInv

\* A client that is in a method is the only one.
LEMMA Alone ==
    ASSUME SoloInv, ~overlapped, NEW c \in Clients, call[c].step # "idle"
    PROVE  \A d \in Clients \ {c} : call[d] = Idle
  BY DEF SoloInv, Idle

LEMMA AloneSettles ==
    ASSUME SoloInv, ~overlapped, NEW c \in Clients, call[c].step \notin {"idle", "logged"}
    PROVE  \A w \in Workflows : Settled(w)
  BY Alone DEF Settled, Idle

\* The call of one client has changed and the other clients have none.
LEMMA SoloAgain ==
    ASSUME TypeOK, NEW c \in Clients, NEW x, call' = [call EXCEPT ![c] = x],
           ~overlapped' => \A d \in Clients \ {c} : call[d] = Idle,
           x.step \notin {"validated", "logged", "counting"}
    PROVE  SoloInv'
  <1> SUFFICES ASSUME ~overlapped'
               PROVE  /\ \A d, f \in Clients : call'[d] # Idle /\ call'[f] # Idle => d = f
                      /\ \A d \in Clients :
                            call'[d].step \notin {"validated", "logged", "counting"}
    BY DEF SoloInv
  <1>1. call'[c] = x /\ \A d \in Clients \ {c} : call'[d] = Idle
    BY DEF TypeOK
  <1>2. QED
    BY <1>1 DEF Idle

\* The same with names for the ledger, its length and the event as they were.
LEMMA AppendNamed ==
    ASSUME TypeOK, NEW c \in Clients, AppendEvent(c)
    PROVE  \E u \in Workflows, n \in Nat, e \in Event :
              /\ u = call[c].w /\ n = Len(ledger[u]) /\ e = call[c].event
              /\ u = call'[c].w /\ e = call'[c].event
              /\ Len(ledger'[u]) = n + 1
              /\ \A w \in Workflows : w # u => ledger'[w] = ledger[w]
              /\ \A i \in 1..n : ledger'[u][i] = ledger[u][i]
              /\ ledger'[u][n + 1] = e
  <1>1. /\ call[c].w \in Workflows /\ call[c].event \in Event
        /\ Len(ledger[call[c].w]) \in Nat
    BY AppendShape
  <1> USE <1>1
  <1>2. WITNESS call[c].w \in Workflows, Len(ledger[call[c].w]) \in Nat,
                call[c].event \in Event
  <1>3. QED
    BY AppendShape

\* An append leaves which event of another subject is the last.
LEMMA AppendLast ==
    ASSUME TypeOK, NEW c \in Clients, AppendEvent(c)
    PROVE  \A w \in Workflows, x \in Tasks \cup {None} :
              IF w = call[c].w /\ x = call[c].event.task
              THEN \A i \in 1..Len(ledger'[w]) :
                      IsLast(w, x, i)' <=> i = Len(ledger'[w])
              ELSE \A i \in 1..Len(ledger'[w]) :
                      IsLast(w, x, i)' <=> i \in 1..Len(ledger[w]) /\ IsLast(w, x, i)
  <1>1. PICK u \in Workflows, n \in Nat, e \in Event :
           /\ u = call[c].w /\ n = Len(ledger[u]) /\ e = call[c].event
           /\ u = call'[c].w /\ e = call'[c].event
           /\ Len(ledger'[u]) = n + 1
           /\ \A w \in Workflows : w # u => ledger'[w] = ledger[w]
           /\ \A i \in 1..n : ledger'[u][i] = ledger[u][i]
           /\ ledger'[u][n + 1] = e
    BY AppendNamed
  <1>2. \A w \in Workflows : Len(ledger[w]) \in Nat
    BY DEF TypeOK
  <1>3. Len(ledger[u]) = n
    BY <1>1
  <1> SUFFICES ASSUME NEW w \in Workflows, NEW x \in Tasks \cup {None}
               PROVE  IF w = u /\ x = e.task
                      THEN \A i \in 1..Len(ledger'[w]) :
                              IsLast(w, x, i)' <=> i = Len(ledger'[w])
                      ELSE \A i \in 1..Len(ledger'[w]) :
                              IsLast(w, x, i)' <=> i \in 1..Len(ledger[w]) /\ IsLast(w, x, i)
    BY <1>1
  <1>4. CASE w # u
    <2>1. ledger'[w] = ledger[w]
      BY <1>1, <1>4
    <2>2. \A i \in 1..Len(ledger'[w]) : IsLast(w, x, i)' <=> IsLast(w, x, i)
      BY <2>1 DEF IsLast, About
    <2>3. QED
      BY <1>4, <2>1, <2>2
  <1>5. CASE w = u
    <2>1. ASSUME NEW i \in 1..n
          PROVE  About(u, x, i)' <=> About(u, x, i)
      <3>1. i \in 1..Len(ledger[u]) /\ i \in 1..Len(ledger'[u])
        BY <1>1, <1>3
      <3>2. ledger'[u][i] = ledger[u][i]
        BY <1>1
      <3>3. QED
        BY <3>1, <3>2 DEF About
    <2>2. About(u, x, n + 1)' <=> e.task = x
      <3>1. n + 1 \in 1..(n + 1)
        OBVIOUS
      <3>2. n + 1 \in 1..Len(ledger'[u])
        BY <1>1, <3>1, Zenon
      <3>3. QED
        BY <1>1, <3>2 DEF About
    <2>3. CASE e.task = x
      <3>1. Len(ledger'[u]) = n + 1 /\ About(u, x, n + 1)'
        BY <1>1, <2>2, <2>3
      <3>2. ASSUME NEW i \in 1..(n + 1)
            PROVE  IsLast(u, x, i)' <=> i = n + 1
        BY <3>1 DEF IsLast
      <3>3. QED
        BY <1>5, <2>3, <3>1, <3>2
    <2>4. CASE e.task # x
      <3>1. \A i \in 1..(n + 1) : IsLast(u, x, i)' <=> i \in 1..n /\ IsLast(u, x, i)
        <4>1. Len(ledger'[u]) = n + 1 /\ ~About(u, x, n + 1)'
          BY <1>1, <2>2, <2>4
        <4>2. ASSUME NEW i \in 1..(n + 1)
              PROVE  IsLast(u, x, i)' <=> i \in 1..n /\ IsLast(u, x, i)
          <5>1. CASE i = n + 1
            BY <4>1, <5>1 DEF IsLast
          <5>2. CASE i \in 1..n
            BY <1>3, <2>1, <4>1, <5>2 DEF IsLast
          <5>3. QED
            BY <5>1, <5>2
        <4>3. QED
          BY <4>2
      <3>2. QED
        BY <1>1, <1>3, <1>5, <2>4, <3>1
    <2>5. QED
      BY <2>3, <2>4
  <1>6. QED
    BY <1>4, <1>5

LEMMA AppendEventRowLag ==
    ASSUME TypeOK, LagInv, NEW c \in Clients, AppendEvent(c)
    PROVE  RowLagInv'
  <1>0. SUFFICES ASSUME ~overlapped
                 PROVE  (\A w \in Workflows : WorkflowLag(w)') /\ (\A t \in Tasks : TaskLag(t)')
    BY DEF RowLagInv, AppendEvent
  <1>1. PICK u \in Workflows, n \in Nat, e \in Event :
           /\ u = call[c].w /\ n = Len(ledger[u]) /\ e = call[c].event
           /\ u = call'[c].w /\ e = call'[c].event
           /\ Len(ledger'[u]) = n + 1
           /\ \A w \in Workflows : w # u => ledger'[w] = ledger[w]
           /\ \A i \in 1..n : ledger'[u][i] = ledger[u][i]
           /\ ledger'[u][n + 1] = e
    BY AppendNamed
  <1>2. UNCHANGED <<workflow, task>> /\ StartsAtRow(u, e)
    BY <1>0, <1>1 DEF AppendEvent, LagInv, SoloInv
  <1>3. \A w \in Workflows : WorkflowCurrent(w)' = WorkflowCurrent(w)
    BY <1>2 DEF WorkflowCurrent
  <1>4. \A t \in Tasks : TaskCurrent(t)' = TaskCurrent(t)
    BY <1>2 DEF TaskCurrent
  <1>5. \A w \in Workflows, x \in Tasks \cup {None} :
              IF w = u /\ x = e.task
              THEN \A i \in 1..Len(ledger'[w]) :
                      IsLast(w, x, i)' <=> i = Len(ledger'[w])
              ELSE \A i \in 1..Len(ledger'[w]) :
                      IsLast(w, x, i)' <=> i \in 1..Len(ledger[w]) /\ IsLast(w, x, i)
    <2>1. u = call[c].w /\ e.task = call[c].event.task
      BY <1>1
    <2>2. QED
      BY <2>1, AppendLast
  <1>6. \A w \in Workflows : \A i \in 1..Len(ledger[w]) :
           i \in 1..Len(ledger'[w]) /\ ledger'[w][i] = ledger[w][i]
    BY AppendKeeps
  <1>8. ASSUME NEW w \in Workflows
        PROVE  WorkflowLag(w)'
    <2> SUFFICES ASSUME NEW i \in 1..Len(ledger'[w]), IsLast(w, None, i)'
                 PROVE  WorkflowCurrent(w) \in {ledger'[w][i].from, ledger'[w][i].to}
      BY <1>3 DEF WorkflowLag
    <2>1. CASE w = u /\ e.task = None
      <3>1. i = n + 1
        BY <1>1, <1>5, <2>1
      <3>2. QED
        BY <1>1, <1>2, <2>1, <3>1 DEF StartsAtRow
    <2>2. CASE ~(w = u /\ e.task = None)
      <3>1. i \in 1..Len(ledger[w]) /\ IsLast(w, None, i)
        BY <1>5, <2>2
      <3>2. WorkflowCurrent(w) \in {ledger[w][i].from, ledger[w][i].to}
        BY <1>0, <3>1 DEF LagInv, RowLagInv, WorkflowLag
      <3>3. QED
        BY <1>6, <3>1, <3>2
    <2>3. QED
      BY <2>1, <2>2
  <1>9. ASSUME NEW t \in Tasks, TaskCurrent(t) # "pending"
        PROVE  \E w \in Workflows : \E i \in 1..Len(ledger'[w]) :
                  IsLast(w, t, i)' /\ TaskCurrent(t) \in {ledger'[w][i].from, ledger'[w][i].to}
    <2>1. CASE t = e.task
      <3>0. n + 1 \in 1..(n + 1)
        OBVIOUS
      <3>1. n + 1 \in 1..Len(ledger'[u]) /\ n + 1 = Len(ledger'[u])
        BY <1>1, <3>0, Zenon
      <3>2. IsLast(u, t, n + 1)'
        BY <1>5, <2>1, <3>1
      <3>3. TaskCurrent(t) = e.from
        BY <1>2, <2>1, NoneIsNoTask DEF StartsAtRow
      <3>4. QED
        BY <1>1, <3>1, <3>2, <3>3
    <2>2. CASE t # e.task
      <3>1. PICK w \in Workflows : \E i \in 1..Len(ledger[w]) :
               IsLast(w, t, i) /\ TaskCurrent(t) \in {ledger[w][i].from, ledger[w][i].to}
        BY <1>0, <1>9 DEF LagInv, RowLagInv, TaskLag
      <3>2. PICK i \in 1..Len(ledger[w]) :
               IsLast(w, t, i) /\ TaskCurrent(t) \in {ledger[w][i].from, ledger[w][i].to}
        BY <3>1
      <3>3. i \in 1..Len(ledger'[w]) /\ ledger'[w][i] = ledger[w][i]
        BY <1>6
      <3>4. IsLast(w, t, i)'
        BY <1>5, <2>2, <3>2, <3>3
      <3>5. QED
        BY <3>2, <3>3, <3>4
    <2>3. QED
      BY <2>1, <2>2
  <1>10. \A t \in Tasks : TaskLag(t)'
    BY <1>4, <1>9 DEF TaskLag
  <1>11. QED
    BY <1>8, <1>10

LEMMA AppendEventSolo ==
    ASSUME TypeOK, LagInv, NEW c \in Clients, AppendEvent(c)
    PROVE  SoloInv'
  <1>1. PICK u \in Workflows, n \in Nat, e \in Event :
           /\ u = call[c].w /\ n = Len(ledger[u]) /\ e = call[c].event
           /\ u = call'[c].w /\ e = call'[c].event
           /\ Len(ledger'[u]) = n + 1
           /\ \A w \in Workflows : w # u => ledger'[w] = ledger[w]
           /\ \A i \in 1..n : ledger'[u][i] = ledger[u][i]
           /\ ledger'[u][n + 1] = e
    BY AppendNamed
  <1>2. SUFFICES ASSUME ~overlapped
                 PROVE  SoloInv'
    BY DEF SoloInv, AppendEvent
  <1>3. call'[c].step = "logged" /\ \A d \in Clients \ {c} : call'[d] = Idle
    <2>1. call[c].step # "idle" /\ SoloInv
      BY DEF AppendEvent, LagInv
    <2>2. \A d \in Clients \ {c} : call[d] = Idle
      BY <1>2, <2>1, Alone
    <2>3. QED
      BY <2>2, AppendShape
  <1>4. n + 1 > 0
    OBVIOUS
  <1>5. Len(ledger'[u]) > 0 /\ ledger'[u][Len(ledger'[u])] = e
    BY <1>1, <1>4, Zenon
  <1>6. Len(ledger'[call'[c].w]) > 0 /\ LastEvent(call[c].w)' = call'[c].event
    BY <1>1, <1>5, Zenon DEF LastEvent
  <1>7. \A d \in Clients \ {c} : call'[d].step = "idle"
    BY <1>3 DEF Idle
  <1>8. QED
    BY <1>3, <1>6, <1>7 DEF SoloInv

LEMMA AppendEventSettled ==
    ASSUME TypeOK, LagInv, NEW c \in Clients, AppendEvent(c)
    PROVE  SettledInv'
  <1>1. PICK u \in Workflows, n \in Nat, e \in Event :
           /\ u = call[c].w /\ n = Len(ledger[u]) /\ e = call[c].event
           /\ u = call'[c].w /\ e = call'[c].event
           /\ Len(ledger'[u]) = n + 1
           /\ \A w \in Workflows : w # u => ledger'[w] = ledger[w]
           /\ \A i \in 1..n : ledger'[u][i] = ledger[u][i]
           /\ ledger'[u][n + 1] = e
    BY AppendNamed
  <1>2. SUFFICES ASSUME ~overlapped, ~cut, NEW w \in Workflows, Settled(w)'
                 PROVE  UpToDate(w)'
    BY DEF SettledInv, AppendEvent
  <1>3. ~(w = u /\ e.task = None)
    <2>1. call'[c].step = "logged"
      BY AppendShape
    <2>2. QED
      BY <1>1, <1>2, <2>1 DEF Settled
  <1>4. UpToDate(w)
    <2>1. Settled(w)
      BY <1>2, AloneSettles DEF LagInv, AppendEvent
    <2>2. QED
      BY <1>2, <2>1 DEF LagInv, SettledInv
  <1>5. WorkflowCurrent(w)' = WorkflowCurrent(w)
    BY DEF WorkflowCurrent, AppendEvent
  <1>6. \A i \in 1..Len(ledger'[w]) :
           IsLast(w, None, i)' => i \in 1..Len(ledger[w]) /\ IsLast(w, None, i)
    BY <1>1, <1>3, AppendLast
  <1>7. \A i \in 1..Len(ledger[w]) : ledger'[w][i] = ledger[w][i]
    BY AppendKeeps
  <1>8. QED
    BY <1>4, <1>5, <1>6, <1>7 DEF UpToDate

LEMMA AppendEventContinuous ==
    ASSUME TypeOK, LagInv, NEW c \in Clients, AppendEvent(c)
    PROVE  LedgerContinuous'
  <1>1. PICK u \in Workflows, n \in Nat, e \in Event :
           /\ u = call[c].w /\ n = Len(ledger[u]) /\ e = call[c].event
           /\ u = call'[c].w /\ e = call'[c].event
           /\ Len(ledger'[u]) = n + 1
           /\ \A w \in Workflows : w # u => ledger'[w] = ledger[w]
           /\ \A i \in 1..n : ledger'[u][i] = ledger[u][i]
           /\ ledger'[u][n + 1] = e
    BY AppendNamed
  <1>2. SUFFICES ASSUME ~overlapped, ~cut, NEW w \in Workflows,
                        NEW i \in 1..Len(ledger'[w]), NEW j \in 1..Len(ledger'[w]),
                        i < j, ledger'[w][i].task = None, ledger'[w][j].task = None,
                        \A k \in (i + 1)..(j - 1) : ~About(w, None, k)'
                 PROVE  ledger'[w][j].from = ledger'[w][i].to
    <2>1. overlapped' = overlapped /\ cut' = cut
      BY DEF AppendEvent
    <2>2. QED
      BY <2>1 DEF LedgerContinuous, About
  <1>3. CASE w # u
    <2>1. ledger'[w] = ledger[w]
      BY <1>1, <1>3
    <2>2. QED
      BY <1>2, <2>1 DEF LagInv, LedgerContinuous, About
  <1>4. CASE w = u /\ j \in 1..n
    <2>1. i \in 1..n
      BY <1>2, <1>4
    <2>2. \A k \in (i + 1)..(j - 1) : k \in 1..n /\ k \in 1..(n + 1)
      BY <1>4, <2>1
    <2>3. \A k \in (i + 1)..(j - 1) : ~About(w, None, k)
      BY <1>1, <1>2, <1>4, <2>2 DEF About
    <2>4. About(w, None, i) /\ About(w, None, j)
      BY <1>1, <1>2, <1>4, <2>1 DEF About
    <2>5. i \in 1..Len(ledger[w]) /\ j \in 1..Len(ledger[w])
      BY <1>1, <1>4, <2>1
    <2>6. ledger[w][j].from = ledger[w][i].to
      BY <1>2, <2>3, <2>4, <2>5 DEF LagInv, LedgerContinuous
    <2>7. QED
      BY <1>1, <1>4, <2>1, <2>6
  <1>5. CASE w = u /\ j = n + 1
    <2>1. i \in 1..n
      BY <1>2, <1>5
    <2>2. \A k \in 1..n : k > i => k \in (i + 1)..(j - 1) /\ k \in 1..(n + 1)
      BY <1>5, <2>1
    <2>3. \A k \in 1..n : k > i => ~About(w, None, k)
      BY <1>1, <1>2, <1>5, <2>2 DEF About
    <2>4. IsLast(w, None, i)
      <3>1. About(w, None, i)
        BY <1>1, <1>2, <1>5, <2>1 DEF About
      <3>2. \A k \in 1..n : About(w, None, k) => k <= i
        BY <2>1, <2>3
      <3>3. QED
        BY <1>1, <1>5, <3>1, <3>2 DEF IsLast
    <2>5. WorkflowCurrent(w) = ledger[w][i].to
      <3>1. Settled(w)
        BY <1>2, AloneSettles DEF LagInv, AppendEvent
      <3>2. i \in 1..Len(ledger[w])
        BY <1>1, <1>5, <2>1
      <3>3. QED
        BY <1>2, <2>4, <3>1, <3>2 DEF LagInv, SettledInv, UpToDate
    <2>6. e.from = WorkflowCurrent(w)
      <3>1. e.task = None
        BY <1>1, <1>2, <1>5
      <3>2. StartsAtRow(u, e)
        BY <1>1, <1>2 DEF AppendEvent, LagInv, SoloInv
      <3>3. QED
        BY <1>5, <3>1, <3>2 DEF StartsAtRow
    <2>7. QED
      BY <1>1, <1>5, <2>1, <2>5, <2>6
  <1>6. w = u => j \in 1..(n + 1)
    BY <1>1, <1>2
  <1>7. j \in 1..(n + 1) => j \in 1..n \/ j = n + 1
    OBVIOUS
  <1>8. QED
    BY <1>3, <1>4, <1>5, <1>6, <1>7

LEMMA AppendEventLag ==
    ASSUME TypeOK, LagInv, NEW c \in Clients, AppendEvent(c)
    PROVE  LagInv'
  BY AppendEventSolo, AppendEventRowLag, AppendEventSettled, AppendEventContinuous DEF LagInv

\* The event a method has logged is the last of its ledger, hence the last about its
\* subject.
LEMMA LoggedIsLast ==
    ASSUME TypeOK, SoloInv, ~overlapped, NEW c \in Clients, call[c].step = "logged"
    PROVE  /\ call[c].w \in Workflows /\ call[c].event \in Event
           /\ \E n \in 1..Len(ledger[call[c].w]) :
                 /\ ledger[call[c].w][n] = call[c].event
                 /\ IsLast(call[c].w, call[c].event.task, n)
                 /\ \A i \in 1..Len(ledger[call[c].w]) :
                       IsLast(call[c].w, call[c].event.task, i) => i = n
  <1>1. PICK u \in Workflows, e \in Event : u = call[c].w /\ e = call[c].event
    BY CallShape DEF TypeOK
  <1>2. PICK n \in Nat : n = Len(ledger[u])
    BY DEF TypeOK
  <1>3. n > 0 /\ ledger[u][n] = e
    BY <1>1, <1>2 DEF SoloInv, LastEvent
  <1>4. n \in 1..n
    BY <1>3
  <1>5. About(u, e.task, n)
    BY <1>2, <1>3, <1>4 DEF About
  <1>6. IsLast(u, e.task, n)
    BY <1>2, <1>5 DEF IsLast
  <1>7. \A i \in 1..n : IsLast(u, e.task, i) => i = n
    BY <1>2, <1>4, <1>5 DEF IsLast
  <1>8. QED
    BY <1>1, <1>2, <1>3, <1>4, <1>6, <1>7

LEMMA ProjectLag ==
    ASSUME TypeOK, LagInv, NEW c \in Clients, Project(c)
    PROVE  LagInv'
  <1>0. call[c].step = "logged" /\ call' = [call EXCEPT ![c] = Idle]
        /\ UNCHANGED <<ledger, overlapped, cut>> /\ SoloInv
    BY DEF Project, LagInv
  <1>1. SoloInv'
    <2>1. ~overlapped' => \A d \in Clients \ {c} : call[d] = Idle
      BY <1>0, Alone
    <2>2. Idle.step \notin {"validated", "logged", "counting"}
      BY DEF Idle
    <2>3. QED
      BY <1>0, <2>1, <2>2, SoloAgain
  <1>2. LedgerContinuous'
    BY <1>0 DEF LagInv, LedgerContinuous, About
  <1>3. \A w \in Workflows, x \in Tasks \cup {None} : \A i \in 1..Len(ledger[w]) :
           IsLast(w, x, i)' <=> IsLast(w, x, i)
    BY <1>0 DEF IsLast, About
  <1>4. SUFFICES ASSUME ~overlapped
                 PROVE  RowLagInv' /\ SettledInv'
    BY <1>0, <1>1, <1>2 DEF LagInv, RowLagInv, SettledInv
  <1>5. PICK u \in Workflows, e \in Event : u = call[c].w /\ e = call[c].event
    BY <1>0, CallShape DEF TypeOK
  <1>6. PICK n \in 1..Len(ledger[u]) :
           /\ ledger[u][n] = e /\ IsLast(u, e.task, n)
           /\ \A i \in 1..Len(ledger[u]) : IsLast(u, e.task, i) => i = n
    BY <1>0, <1>4, <1>5, LoggedIsLast
  <1>7. CASE e.task = None /\ UpsertWorkflow(u, e.to)
    <2>1. /\ workflow' = [workflow EXCEPT ![u] = e.to] /\ UNCHANGED task
          /\ e.to \in WorkflowStatus
      BY <1>7, EventShape DEF UpsertWorkflow
    <2>2. WorkflowCurrent(u)' = e.to
      BY <2>1 DEF WorkflowCurrent, TypeOK, WorkflowStatus, NoRow
    <2>3. \A w \in Workflows \ {u} : WorkflowCurrent(w)' = WorkflowCurrent(w)
      BY <2>1 DEF WorkflowCurrent, TypeOK
    <2>4. UpToDate(u)'
      BY <1>0, <1>3, <1>6, <1>7, <2>2 DEF UpToDate
    <2>5. \A w \in Workflows : WorkflowLag(w)'
      BY <1>0, <1>3, <1>4, <2>3, <2>4 DEF LagInv, RowLagInv, WorkflowLag, UpToDate
    <2>6. \A t \in Tasks : TaskLag(t)'
      BY <1>0, <1>3, <1>4, <2>1 DEF LagInv, RowLagInv, TaskLag, TaskCurrent
    <2>7. SettledInv'
      <3> SUFFICES ASSUME ~cut, NEW w \in Workflows \ {u}
                   PROVE  UpToDate(w)'
        BY <1>0, <2>4 DEF SettledInv
      <3>1. Settled(w)
        <4>1. \A d \in Clients \ {c} : call[d] = Idle
          BY <1>0, <1>4, Alone
        <4>2. QED
          BY <1>5, <4>1 DEF Settled, Idle
      <3>2. UpToDate(w)
        BY <1>4, <3>1 DEF LagInv, SettledInv
      <3>3. QED
        BY <1>0, <1>3, <2>3, <3>2 DEF UpToDate
    <2>8. QED
      BY <2>5, <2>6, <2>7 DEF RowLagInv
  <1>8. CASE e.task # None /\ UpsertTask(e.task, u, e.to)
    <2>1. task' = [task EXCEPT ![e.task] = e.to] /\ UNCHANGED workflow
          /\ e.task \in Tasks /\ e.to \in TaskStatus
      BY <1>8, EventShape DEF UpsertTask
    <2>2. TaskCurrent(e.task)' = e.to
      BY <2>1 DEF TaskCurrent, TypeOK, TaskStatus, NoRow
    <2>3. \A t \in Tasks \ {e.task} : TaskCurrent(t)' = TaskCurrent(t)
      BY <2>1 DEF TaskCurrent, TypeOK
    <2>4. \A w \in Workflows : WorkflowLag(w)'
      BY <1>0, <1>3, <1>4, <2>1 DEF LagInv, RowLagInv, WorkflowLag, WorkflowCurrent
    <2>5. \A t \in Tasks : TaskLag(t)'
      <3>1. TaskLag(e.task)'
        BY <1>0, <1>3, <1>6, <2>1, <2>2 DEF TaskLag
      <3>2. ASSUME NEW t \in Tasks \ {e.task}
            PROVE  TaskLag(t)'
        BY <1>0, <1>3, <1>4, <2>3 DEF LagInv, RowLagInv, TaskLag
      <3>3. QED
        BY <3>1, <3>2
    <2>6. SettledInv'
      <3> SUFFICES ASSUME ~cut, NEW w \in Workflows
                   PROVE  UpToDate(w)'
        BY <1>0 DEF SettledInv
      <3>1. Settled(w)
        <4>1. \A d \in Clients \ {c} : call[d] = Idle
          BY <1>0, <1>4, Alone
        <4>2. QED
          BY <1>5, <1>8, <4>1 DEF Settled, Idle
      <3>2. UpToDate(w)
        BY <1>4, <3>1 DEF LagInv, SettledInv
      <3>3. QED
        BY <1>0, <1>3, <2>1, <3>2 DEF UpToDate, WorkflowCurrent
    <2>7. QED
      BY <2>4, <2>5, <2>6 DEF RowLagInv
  <1>9. QED
    BY <1>5, <1>7, <1>8 DEF Project

LEMMA RegisterNextLag ==
    ASSUME TypeOK, LagInv, NEW c \in Clients, RegisterNext(c)
    PROVE  LagInv'
  <1>0. call[c].step = "registering" /\ UNCHANGED <<ledger, overlapped, cut>> /\ SoloInv
    BY DEF RegisterNext, LagInv
  <1>1. PICK t \in Tasks : /\ UpsertTask(t, call[c].w, "pending")
                           /\ call' = [call EXCEPT ![c] = Registered(c, call[c].left \ {t})]
    BY <1>0, CallShape DEF RegisterNext, TypeOK
  <1>2. UNCHANGED workflow /\ task' = [task EXCEPT ![t] = "pending"]
    BY <1>1 DEF UpsertTask
  <1>3. SoloInv'
    <2>1. ~overlapped' => \A d \in Clients \ {c} : call[d] = Idle
      BY <1>0, Alone
    <2> DEFINE x == Registered(c, call[c].left \ {t})
    <2>2. x.step \notin {"validated", "logged", "counting"}
      BY DEF Registered, Idle
    <2>3. call' = [call EXCEPT ![c] = x]
      BY <1>1
    <2> HIDE DEF x
    <2>4. QED
      BY <2>1, <2>2, <2>3, SoloAgain
  <1>4. TaskCurrent(t)' = "pending" /\ \A v \in Tasks \ {t} : TaskCurrent(v)' = TaskCurrent(v)
    BY <1>2 DEF TaskCurrent, TypeOK, NoRow
  <1>5. RowLagInv'
    <2> SUFFICES ASSUME ~overlapped
                 PROVE  (\A w \in Workflows : WorkflowLag(w)') /\ (\A v \in Tasks : TaskLag(v)')
      BY <1>0 DEF RowLagInv
    <2>1. \A w \in Workflows : WorkflowLag(w)'
      BY <1>0, <1>2 DEF LagInv, RowLagInv, WorkflowLag, IsLast, About, WorkflowCurrent
    <2>2. \A v \in Tasks : TaskLag(v)'
      BY <1>0, <1>4 DEF LagInv, RowLagInv, TaskLag, IsLast, About
    <2>3. QED
      BY <2>1, <2>2
  <1>6. SettledInv'
    <2> SUFFICES ASSUME ~overlapped, ~cut, NEW w \in Workflows
                 PROVE  UpToDate(w)'
      BY <1>0 DEF SettledInv
    <2>1. UpToDate(w)
      BY <1>0, AloneSettles DEF LagInv, SettledInv
    <2>2. QED
      BY <1>0, <1>2, <2>1 DEF UpToDate, IsLast, About, WorkflowCurrent
  <1>7. LedgerContinuous'
    BY <1>0 DEF LagInv, LedgerContinuous, About
  <1>8. QED
    BY <1>3, <1>5, <1>6, <1>7 DEF LagInv

LEMMA RecordNextLag ==
    ASSUME TypeOK, LagInv, NEW c \in Clients, RecordNext(c), ~overlapped
    PROVE  LagInv'
  <1>1. /\ call[c].step = "counting" /\ call' = [call EXCEPT ![c] = Idle]
        /\ workflow' = [workflow EXCEPT ![call[c].w] = call[c].status]
        /\ UNCHANGED <<ledger, task, overlapped, cut>> /\ SoloInv
    BY DEF RecordNext, UpsertWorkflow, LagInv
  <1>2. UNCHANGED workflow
    <2>1. call[c].status = workflow[call[c].w]
      BY <1>1 DEF SoloInv
    <2>2. QED
      BY <1>1, <2>1 DEF TypeOK
  <1>3. SoloInv'
    <2>1. ~overlapped' => \A d \in Clients \ {c} : call[d] = Idle
      BY <1>1, Alone
    <2>2. Idle.step \notin {"validated", "logged", "counting"}
      BY DEF Idle
    <2>3. QED
      BY <1>1, <2>1, <2>2, SoloAgain
  <1>4. \A w \in Workflows : Settled(w)
    BY <1>1, AloneSettles
  <1>5. QED
    BY <1>1, <1>2, <1>3, <1>4, QuietLag

LEMMA CrashLag ==
    ASSUME TypeOK, LagInv, NEW c \in Clients, Crash(c)
    PROVE  LagInv'
  <1>1. /\ call' = [call EXCEPT ![c] = Idle] /\ cut' = (cut \/ call[c].step = "logged")
        /\ UNCHANGED <<ledger, workflow, task, owner, overlapped>>
        /\ call[c] # Idle /\ SoloInv
    BY DEF Crash, LagInv
  <1>2. call[c].step # "idle"
    BY <1>1, CallShape DEF TypeOK
  <1>3. SoloInv'
    <2>1. ~overlapped' => \A d \in Clients \ {c} : call[d] = Idle
      BY <1>1, <1>2, Alone
    <2>2. Idle.step \notin {"validated", "logged", "counting"}
      BY DEF Idle
    <2>3. QED
      BY <1>1, <2>1, <2>2, SoloAgain
  <1>4. ~overlapped' /\ ~cut' => \A w \in Workflows : Settled(w)
    BY <1>1, <1>2, AloneSettles
  <1>5. QED
    BY <1>1, <1>3, <1>4, QuietLag

\* A method that begins: alone, or overlapped is set.
LEMMA EnterLag ==
    ASSUME TypeOK, LagInv, NEW c \in Clients, NEW x, Enter(c, x),
           x.step = "validated" => StartsAtRow(x.w, x.event)',
           x.step # "logged",
           x.step = "counting" => x.status = workflow[x.w]
    PROVE  LagInv'
  <1>1. /\ call' = [call EXCEPT ![c] = x] /\ call[c] = Idle
        /\ overlapped' = (overlapped \/ \E d \in Clients \ {c} : call[d] # Idle)
        /\ UNCHANGED <<ledger, workflow, task, owner, cut>>
    BY DEF Enter
  <1>2. call'[c] = x /\ \A d \in Clients \ {c} : call'[d] = call[d]
    BY <1>1 DEF TypeOK
  <1>3. ASSUME ~overlapped'
        PROVE  \A d \in Clients : call[d] = Idle
    BY <1>1, <1>3
  <1>4. SoloInv'
    <2> SUFFICES ASSUME ~overlapped'
                 PROVE  /\ \A d, f \in Clients : call'[d] # Idle /\ call'[f] # Idle => d = f
                        /\ \A d \in Clients :
                              /\ call'[d].step = "validated" =>
                                    StartsAtRow(call[d].w, call[d].event)'
                              /\ call'[d].step # "logged"
                              /\ call'[d].step = "counting" => 
                                    call'[d].status = workflow'[call'[d].w]
      BY DEF SoloInv
    <2>1. \A d \in Clients \ {c} : call'[d] = Idle /\ call'[d].step = "idle"
      BY <1>2, <1>3 DEF Idle
    <2>2. call'[c].step = "validated" => StartsAtRow(call[c].w, call[c].event)'
      BY <1>2 DEF StartsAtRow, WorkflowCurrent, TaskCurrent
    <2>3. QED
      BY <1>1, <1>2, <2>1, <2>2
  <1>5. ~overlapped' => \A w \in Workflows : Settled(w)
    BY <1>3 DEF Settled, Idle
  <1>6. QED
    BY <1>1, <1>4, <1>5, QuietLag

LEMMA BeginsLag ==
    ASSUME TypeOK, LagInv, NEW c \in Clients, NEW w \in Workflows, NEW e \in Event,
           Begins(c, w, e)
    PROVE  LagInv'
  <1> DEFINE x == [step |-> "validated", w |-> w, event |-> e]
  <1>1. Enter(c, x) /\ StartsAtRow(w, e)
    BY DEF Begins, Validated
  <1>2. StartsAtRow(w, e)'
    BY <1>1 DEF Enter, StartsAtRow, WorkflowCurrent, TaskCurrent
  <1>3. x.step = "validated" /\ x.w = w /\ x.event = e
    OBVIOUS
  <1>4. x.step = "validated" => StartsAtRow(x.w, x.event)'
    BY <1>2
  <1> HIDE DEF x
  <1>5. QED
    BY <1>1, <1>3, <1>4, EnterLag

LEMMA LagAtFirst == Init => LagInv
  BY DEF Init, LagInv, SoloInv, RowLagInv, WorkflowLag, TaskLag, IsLast, About, SettledInv,
         UpToDate, LedgerContinuous, Idle, TaskCurrent, NoRow

LEMMA StepLag ==
    TypeOK /\ BackedInv /\ LagInv /\ [Next]_vars => LagInv'
  <1> SUFFICES ASSUME TypeOK, BackedInv, LagInv, [Next]_vars
               PROVE  LagInv'
    OBVIOUS
  <1>1. ASSUME NEW c \in Clients, NEW w \in Workflows, NEW plan \in SUBSET Tasks,
               RegisterTasks(c, w, plan)
        PROVE  LagInv'
    <2> DEFINE x == [step |-> "registering", w |-> w, left |-> plan]
    <2>1. x.step = "registering" /\ Enter(c, x)
      BY <1>1 DEF RegisterTasks
    <2> HIDE DEF x
    <2>2. QED
      BY <2>1, EnterLag
  <1>2. ASSUME NEW c \in Clients, NEW w \in Workflows, RecordCall(c, w)
        PROVE  LagInv'
    <2> DEFINE x == [step |-> "counting", w |-> w, status |-> workflow[w]]
    <2>1. x.step = "counting" /\ x.status = workflow[x.w] /\ Enter(c, x)
      BY <1>2 DEF RecordCall
    <2> HIDE DEF x
    <2>2. QED
      BY <2>1, EnterLag
  <1>3. CASE UNCHANGED vars
    BY <1>3 DEF vars, LagInv, SoloInv, RowLagInv, WorkflowLag, TaskLag, IsLast, About, SettledInv,
         UpToDate, LedgerContinuous, TaskCurrent, WorkflowCurrent, StartsAtRow, LastEvent, Settled
  <1>4. ASSUME NEW c \in Clients, RecordNext(c), overlapped
        PROVE  LagInv'
    <2>1. overlapped'
      BY <1>4 DEF RecordNext
    <2>2. QED
      BY <2>1 DEF LagInv, SoloInv, RowLagInv, SettledInv, LedgerContinuous
  <1>5. QED
    BY <1>1, <1>2, <1>3, <1>4, EngineSteps, BeginsLag, AppendEventLag, ProjectLag,
       RegisterNextLag, RecordNextLag, CrashLag

LEMMA LagInvHolds == Spec => []LagInv
  BY LagAtFirst, StepLag, EngineTypeCorrect, BackedInvHolds, PTL DEF Spec

\* As long as calls do not overlap, a crash leaves the row of a workflow or of a task at
\* most one event behind the ledger, whatever number of workflows move the task.
THEOREM RowsLagOneEvent == Spec => []ProjectionLag
  BY LagInvHolds, LagInvMeans, EngineTypeCorrect, PTL

\* Without crashes between an append and its upsert either, the workflow's events form one
\* chain: each starts where the one before it ended, so a pause is answered once.
THEOREM EventsFormAChain == Spec => []LedgerContinuous
  <1>1. LagInv => LedgerContinuous
    BY DEF LagInv
  <1>2. QED
    BY <1>1, LagInvHolds, PTL
==============================================================================
