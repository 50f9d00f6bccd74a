---------------------------- MODULE RecoveryProofs ----------------------------
(***************************************************************************)
(* Theorems about recovery, for every set of clients, workflows and tasks: *)
(* wherever the engine and earlier replays have died and whichever rows    *)
(* were lost, an undisturbed replay brings the tasks up to the ledger.     *)
(***************************************************************************)
EXTENDS Recovery, OrchestratorProofs

\* The variables of the replay, apart from those of the engine.
ReplayTyped ==
    /\ replay \in Replay
    /\ replay # Off => /\ replay.at <= replay.upto
                       /\ replay.upto <= Len(ledger[replay.w])
    /\ fresh \in Workflows \cup {None}

LEMMA ReplayShape ==
    ASSUME replay \in Replay, replay # Off
    PROVE  /\ replay \in [step : {"on"}, w : Workflows, upto : Nat, at : Nat,
                          status : WorkflowStatus, clean : BOOLEAN]
           /\ replay.w \in Workflows /\ replay.at \in Nat /\ replay.upto \in Nat
           /\ replay.status \in WorkflowStatus /\ replay.clean \in BOOLEAN
  BY DEF Replay

\* The event a replay applies next.
LEMMA NextEvent ==
    ASSUME RecoveryTypeOK, replay # Off, replay.at < replay.upto
    PROVE  /\ replay.at + 1 \in 1..Len(ledger[replay.w])
           /\ ledger[replay.w][replay.at + 1] \in Event
  <1>1. replay.w \in Workflows /\ replay.at \in Nat /\ replay.upto \in Nat
    BY ReplayShape DEF RecoveryTypeOK
  <1>2. ledger[replay.w] \in Seq(Event) /\ replay.upto <= Len(ledger[replay.w])
    BY <1>1 DEF RecoveryTypeOK, TypeOK
  <1>3. QED
    BY <1>1, <1>2

\* No step of the engine takes an event out of a ledger.
LEMMA LedgerGrows ==
    ASSUME TypeOK, [Next]_vars
    PROVE  \A w \in Workflows : Len(ledger[w]) <= Len(ledger'[w])
  <1>1. ASSUME NEW c \in Clients, AppendEvent(c)
        PROVE  \A w \in Workflows : Len(ledger[w]) <= Len(ledger'[w])
    <2>1. ledger' \in [Workflows -> Seq(Event)] /\ ledger \in [Workflows -> Seq(Event)]
      BY <1>1, AppendEventTyped DEF TypeOK
    <2>2. \A w \in Workflows : \A i \in 1..Len(ledger[w]) : i \in 1..Len(ledger'[w])
      BY <1>1, AppendKeeps
    <2>3. TAKE w \in Workflows
    <2>4. Len(ledger[w]) \in Nat /\ Len(ledger'[w]) \in Nat
      BY <2>1
    <2>5. QED
      BY <2>2, <2>4
  <1>2. CASE UNCHANGED ledger
    <2>1. \A w \in Workflows : Len(ledger[w]) \in Nat
      BY DEF TypeOK
    <2>2. QED
      BY <1>2, <2>1
  <1>3. QED
    BY <1>1, <1>2 DEF Next, vars, Command, Continue, Project, RegisterNext, Crash, Approve, Reject,
       Answer, CreateWorkflow, TransitionWorkflow, TransitionTask, RequestApproval,
       RegisterTasks, RecordCall, RecordNext, Validated, Enter

----------------------------------------------------------------------------
(* Type correctness.                                                       *)

LEMMA RowsKeepType ==
    ASSUME TypeOK, RowsTyped', UNCHANGED <<ledger, call, overlapped, cut>>
    PROVE  TypeOK'
  BY DEF TypeOK, RowsTyped

LEMMA BeginReplayTyped ==
    ASSUME RecoveryTypeOK, NEW w \in Workflows, BeginReplay(w)
    PROVE  RecoveryTypeOK'
  <1>1. TypeOK /\ Len(ledger[w]) \in Nat
    BY DEF RecoveryTypeOK, TypeOK
  <1>2. RowsTyped'
    BY <1>1 DEF BeginReplay, Lose, RowsTyped, TypeOK
  <1>3. TypeOK'
    BY <1>1, <1>2, RowsKeepType DEF BeginReplay
  <1>4. ReplayTyped'
    BY <1>1 DEF BeginReplay, ReplayTyped, Replay, WorkflowStatus
  <1>5. QED
    BY <1>3, <1>4 DEF RecoveryTypeOK, ReplayTyped

LEMMA StatusAfterTyped ==
    ASSUME NEW s \in WorkflowStatus, NEW e
    PROVE  StatusAfter(s, e) \in WorkflowStatus
  BY DEF StatusAfter

LEMMA ReplayEventTyped ==
    ASSUME RecoveryTypeOK, ReplayEvent
    PROVE  RecoveryTypeOK'
  <1> DEFINE e == ledger[replay.w][replay.at + 1]
  <1>1. TypeOK /\ e \in Event
    BY NextEvent DEF RecoveryTypeOK, ReplayEvent
  <1>2. /\ replay \in [step : {"on"}, w : Workflows, upto : Nat, at : Nat,
                       status : WorkflowStatus, clean : BOOLEAN]
        /\ replay.w \in Workflows /\ replay.at \in Nat /\ replay.upto \in Nat
        /\ replay.status \in WorkflowStatus
    BY ReplayShape DEF RecoveryTypeOK, ReplayEvent
  <1>3. RowsTyped'
    <2>1. CASE e.task # None /\ UpsertTask(e.task, replay.w, e.to)
      BY <1>1, <1>2, <2>1, EventShape, UpsertTaskTyped
    <2>2. CASE UNCHANGED <<workflow, task, owner>>
      BY <1>1, <2>2 DEF RowsTyped, TypeOK
    <2>3. QED
      BY <2>1, <2>2 DEF ReplayEvent
  <1>4. TypeOK'
    BY <1>1, <1>3, RowsKeepType DEF ReplayEvent
  <1>5. replay' = [replay EXCEPT !.at = @ + 1, !.status = StatusAfter(@, e)]
    BY DEF ReplayEvent
  <1>6. StatusAfter(replay.status, e) \in WorkflowStatus
    BY <1>2, StatusAfterTyped
  <1> HIDE DEF e
  <1>7. ReplayTyped'
    <2> DEFINE s == StatusAfter(replay.status, e)
               n == replay.at + 1
    <2>1. replay' = [replay EXCEPT !.at = n, !.status = s]
      BY <1>5
    <2>2. s \in WorkflowStatus /\ n \in Nat
      BY <1>2, <1>6
    <2> HIDE DEF s, n
    <2>3. /\ replay' \in [step : {"on"}, w : Workflows, upto : Nat, at : Nat,
                          status : WorkflowStatus, clean : BOOLEAN]
          /\ replay'.at = n /\ replay'.upto = replay.upto /\ replay'.w = replay.w
      BY <1>2, <2>1, <2>2
    <2>4. replay' \in Replay
      BY <2>3 DEF Replay
    <2>5. replay.at < replay.upto /\ replay.upto <= Len(ledger[replay.w])
      BY DEF RecoveryTypeOK, ReplayEvent
    <2>6. UNCHANGED ledger /\ fresh' = None
      BY DEF ReplayEvent
    <2>7. QED
      BY <1>2, <2>5, <2>6, <2>3, <2>4 DEF ReplayTyped, n
  <1>8. QED
    BY <1>4, <1>7 DEF RecoveryTypeOK, ReplayTyped

LEMMA FinishReplayTyped ==
    ASSUME RecoveryTypeOK, FinishReplay
    PROVE  RecoveryTypeOK'
  <1>1. TypeOK /\ replay.w \in Workflows /\ replay.status \in WorkflowStatus
    BY ReplayShape DEF RecoveryTypeOK, FinishReplay
  <1>2. TypeOK'
    BY <1>1, UpsertWorkflowTyped, RowsKeepType DEF FinishReplay
  <1>3. replay' = Off /\ fresh' \in {replay.w, None}
    BY DEF FinishReplay
  <1>4. replay' \in Replay /\ replay' = Off /\ fresh' \in Workflows \cup {None}
    BY <1>1, <1>3 DEF Replay
  <1>5. QED
    BY <1>2, <1>4 DEF RecoveryTypeOK

LEMMA EngineStepTyped ==
    ASSUME RecoveryTypeOK, EngineStep
    PROVE  RecoveryTypeOK'
  <1>1. TypeOK /\ TypeOK'
    BY StepTyped DEF RecoveryTypeOK, EngineStep
  <1>2. ReplayTyped'
    <2>1. CASE replay = Off
      BY <2>1 DEF EngineStep, ReplayTyped, Replay
    <2>2. CASE replay # Off
      <3>1. /\ replay \in [step : {"on"}, w : Workflows, upto : Nat, at : Nat,
                           status : WorkflowStatus, clean : BOOLEAN]
            /\ replay.w \in Workflows /\ replay.at \in Nat /\ replay.upto \in Nat
        BY <2>2, ReplayShape DEF RecoveryTypeOK
      <3>2. replay' = [replay EXCEPT !.clean = FALSE] /\ fresh' = None
        BY <2>2 DEF EngineStep
      <3>3. Len(ledger[replay.w]) <= Len(ledger'[replay.w])
        BY <1>1, <3>1, LedgerGrows DEF EngineStep
      <3>4. Len(ledger[replay.w]) \in Nat /\ Len(ledger'[replay.w]) \in Nat
        BY <1>1, <3>1 DEF TypeOK
      <3>5. replay.at <= replay.upto /\ replay.upto <= Len(ledger[replay.w])
        BY <2>2 DEF RecoveryTypeOK
      <3>6. /\ replay' \in Replay
            /\ replay'.at = replay.at /\ replay'.upto = replay.upto /\ replay'.w = replay.w
        BY <3>1, <3>2 DEF Replay
      <3>7. QED
        BY <3>1, <3>2, <3>3, <3>4, <3>5, <3>6 DEF ReplayTyped
    <2>3. QED
      BY <2>1, <2>2
  <1>3. QED
    BY <1>1, <1>2 DEF RecoveryTypeOK, ReplayTyped

\* The type invariant of recovery.
THEOREM RecoveryTypeCorrect == RecoverySpec => []RecoveryTypeOK
  <1>1. RecoveryInit => RecoveryTypeOK
    BY InitTyped DEF RecoveryInit, RecoveryTypeOK, Replay
  <1>2. RecoveryTypeOK /\ [RecoveryNext]_allVars => RecoveryTypeOK'
    <2> SUFFICES ASSUME RecoveryTypeOK, [RecoveryNext]_allVars
                 PROVE  RecoveryTypeOK'
      OBVIOUS
    <2>1. CASE CrashReplay
      <3>1. UNCHANGED vars /\ replay' = Off /\ fresh' = None
        BY <2>1 DEF CrashReplay
      <3>2. TypeOK'
        BY <3>1, StepTyped DEF RecoveryTypeOK
      <3>3. QED
        BY <3>1, <3>2 DEF RecoveryTypeOK, Replay
    <2>2. CASE UNCHANGED allVars
      BY <2>2 DEF allVars, vars, recoveryVars, RecoveryTypeOK, TypeOK
    <2>3. QED
      BY <2>1, <2>2, BeginReplayTyped, ReplayEventTyped, FinishReplayTyped, EngineStepTyped
      DEF RecoveryNext
  <1>3. QED
    BY <1>1, <1>2, PTL DEF RecoverySpec

----------------------------------------------------------------------------
(* The tasks come back.                                                    *)

\* Each task with an event among the first n of w has the status of the last of
\* them.
Applied(w, n) ==
    \A t \in Tasks : \A i \in 1..n :
        About(w, t, i) /\ (\A j \in 1..n : About(w, t, j) => j <= i)
            => task[t] = ledger[w][i].to

\* What the loop of an undisturbed replay keeps: it has all the events there are, and
\* the rows are those of the events it has applied, whatever they were before.
ReplayInv ==
    replay # Off /\ replay.clean =>
        /\ replay.upto = Len(ledger[replay.w])
        /\ Applied(replay.w, replay.at)

LEMMA RecoveredIsApplied ==
    TasksRecovered <=> (fresh # None => Applied(fresh, Len(ledger[fresh])))
  BY DEF TasksRecovered, LastAbout, Applied

LEMMA BeginReplayInv ==
    ASSUME RecoveryTypeOK, NEW w \in Workflows, BeginReplay(w)
    PROVE  ReplayInv' /\ TasksRecovered'
  <1>1. /\ replay' = [step |-> "on", w |-> w, upto |-> Len(ledger[w]), at |-> 0,
                     status |-> "created", clean |-> \A c \in Clients : call[c] = Idle]
        /\ UNCHANGED ledger /\ fresh' = None
    BY DEF BeginReplay
  <1>2. replay'.w = w /\ replay'.upto = Len(ledger[w]) /\ replay'.at = 0
    BY <1>1
  <1>3. Applied(w, 0)'
    BY DEF Applied
  <1>4. ReplayInv'
    BY <1>1, <1>2, <1>3 DEF ReplayInv, Applied
  <1>5. QED
    BY <1>1, <1>4 DEF TasksRecovered

LEMMA ReplayEventInv ==
    ASSUME RecoveryTypeOK, ReplayInv, ReplayEvent
    PROVE  ReplayInv' /\ TasksRecovered'
  <1> DEFINE w == replay.w
             n == replay.at
             e == ledger[w][n + 1]
  <1>1. /\ replay \in [step : {"on"}, w : Workflows, upto : Nat, at : Nat,
                       status : WorkflowStatus, clean : BOOLEAN]
        /\ w \in Workflows /\ n \in Nat
    BY ReplayShape DEF RecoveryTypeOK, ReplayEvent
  <1>2. e \in Event /\ n + 1 \in 1..Len(ledger[w]) /\ TypeOK
    BY NextEvent DEF RecoveryTypeOK, ReplayEvent
  <1>3. /\ replay' = [replay EXCEPT !.at = n + 1, !.status = StatusAfter(@, e)]
        /\ UNCHANGED ledger /\ fresh' = None
        /\ \/ e.task # None /\ UpsertTask(e.task, w, e.to)
           \/ e.task = None /\ UNCHANGED <<workflow, task, owner>>
    BY DEF ReplayEvent
  <1>4. /\ replay'.w = w /\ replay'.upto = replay.upto /\ replay'.at = n + 1
        /\ replay'.clean = replay.clean
    BY <1>1, <1>3
  <1>5. \A t \in Tasks : /\ e.task = t => task'[t] = e.to
                         /\ e.task # t => task'[t] = task[t]
    BY <1>2, <1>3, NoneIsNoTask DEF UpsertTask, TypeOK
  <1>6. ASSUME Applied(w, n)
        PROVE  /\ \A t \in Tasks : \A i \in 1..(n + 1) :
                     About(w, t, i) /\ (\A j \in 1..(n + 1) : About(w, t, j) => j <= i)
                         => task'[t] = ledger[w][i].to
    <2> SUFFICES ASSUME NEW t \in Tasks, NEW i \in 1..(n + 1), About(w, t, i),
                        \A j \in 1..(n + 1) : About(w, t, j) => j <= i
                 PROVE  task'[t] = ledger[w][i].to
      OBVIOUS
    <2>1. CASE e.task = t
      <3>1. About(w, t, n + 1)
        BY <1>2, <2>1 DEF About
      <3>2. i = n + 1
        BY <1>1, <3>1
      <3>3. QED
        BY <1>5, <2>1, <3>2
    <2>2. CASE e.task # t
      <3>1. i \in 1..n
        BY <1>1, <2>2 DEF About
      <3>2. \A j \in 1..n : About(w, t, j) => j <= i
        BY <1>1
      <3>3. task[t] = ledger[w][i].to
        BY <1>6, <3>1, <3>2 DEF Applied
      <3>4. QED
        BY <1>5, <2>2, <3>3
    <2>3. QED
      BY <2>1, <2>2
  <1> HIDE DEF w, n, e
  <1>7. ReplayInv'
    <2> SUFFICES ASSUME replay.clean
                 PROVE  /\ replay.upto = Len(ledger[w])
                        /\ \A t \in Tasks : \A i \in 1..(n + 1) :
                              About(w, t, i) /\ (\A j \in 1..(n + 1) : About(w, t, j) => j <= i)
                                  => task'[t] = ledger[w][i].to
      BY <1>3, <1>4 DEF ReplayInv, Applied, About
    <2>1. replay.upto = Len(ledger[w]) /\ Applied(w, n)
      BY DEF ReplayInv, ReplayEvent, w, n
    <2>2. QED
      BY <1>6, <2>1
  <1>8. QED
    BY <1>3, <1>7 DEF TasksRecovered

LEMMA FinishReplayInv ==
    ASSUME RecoveryTypeOK, ReplayInv, FinishReplay
    PROVE  ReplayInv' /\ TasksRecovered'
  <1>1. replay' = Off /\ UNCHANGED <<ledger, task>>
    BY DEF FinishReplay, UpsertWorkflow
  <1>2. ReplayInv'
    BY <1>1 DEF ReplayInv
  <1>3. ASSUME fresh' # None
        PROVE  Applied(fresh, Len(ledger[fresh]))'
    <2>1. replay.clean /\ fresh' = replay.w
      BY <1>3 DEF FinishReplay
    <2>2. Applied(replay.w, Len(ledger[replay.w]))
      BY <2>1 DEF ReplayInv, FinishReplay
    <2>3. QED
      BY <1>1, <2>1, <2>2 DEF Applied, About
  <1>4. TasksRecovered'
    BY <1>3 DEF TasksRecovered, LastAbout, Applied
  <1>5. QED
    BY <1>2, <1>4

\* An undisturbed replay leaves every task of the workflow with the status of its last
\* event, over whatever rows it was started.
THEOREM ReplayRecoversTasks == RecoverySpec => []TasksRecovered
  <1>1. RecoveryInit => ReplayInv /\ TasksRecovered
    BY DEF RecoveryInit, ReplayInv, TasksRecovered
  <1>2. RecoveryTypeOK /\ ReplayInv /\ TasksRecovered /\ [RecoveryNext]_allVars
            => ReplayInv' /\ TasksRecovered'
    <2> SUFFICES ASSUME RecoveryTypeOK, ReplayInv, TasksRecovered,
                        [RecoveryNext]_allVars
                 PROVE  ReplayInv' /\ TasksRecovered'
      OBVIOUS
    <2>1. CASE CrashReplay
      BY <2>1 DEF CrashReplay, ReplayInv, TasksRecovered
    <2>2. CASE EngineStep
      <3>1. fresh' = None /\ (replay' # Off => ~replay'.clean)
        <4>1. CASE replay = Off
          BY <2>2, <4>1 DEF EngineStep
        <4>2. CASE replay # Off
          BY <2>2, <4>2, ReplayShape DEF EngineStep, RecoveryTypeOK
        <4>3. QED
          BY <2>2, <4>1, <4>2 DEF EngineStep
      <3>2. QED
        BY <3>1 DEF ReplayInv, TasksRecovered
    <2>3. CASE UNCHANGED allVars
      BY <2>3 DEF allVars, vars, recoveryVars, ReplayInv, TasksRecovered, LastAbout, Applied, About
    <2>4. QED
      BY <2>1, <2>2, <2>3, BeginReplayInv, ReplayEventInv, FinishReplayInv DEF RecoveryNext
  <1>3. QED
    BY <1>1, <1>2, RecoveryTypeCorrect, PTL DEF RecoverySpec

----------------------------------------------------------------------------
(* What a replay finds and what it leaves.                                 *)

\* After an undisturbed replay the tasks that get_incomplete_tasks returns are those whose
\* last event leaves them a transition.
THEOREM WorkIsFoundAgain == RecoverySpec => []WorkLeftIsFound
  <1>1. RecoveryTypeOK /\ TasksRecovered => WorkLeftIsFound
    <2> SUFFICES ASSUME TypeOK, TasksRecovered, fresh # None, fresh \in Workflows,
                        NEW t \in Tasks, owner[t] = fresh,
                        NEW i \in 1..Len(ledger[fresh]), About(fresh, t, i),
                        \A j \in 1..Len(ledger[fresh]) : About(fresh, t, j) => j <= i
                 PROVE  t \in IncompleteTasks(fresh)
                           <=> TASK_TRANSITIONS[ledger[fresh][i].to] # {}
      BY DEF WorkLeftIsFound, LastAbout, RecoveryTypeOK
    <2>1. task[t] = ledger[fresh][i].to
      BY DEF TasksRecovered, LastAbout
    <2>2. ledger[fresh][i] \in Event /\ ledger[fresh][i].task = t
      BY DEF TypeOK, About
    <2>3. PICK s \in TaskStatus : s = ledger[fresh][i].to
      BY <2>2, EventShape, NoneIsNoTask
    <2>4. TASK_TRANSITIONS[s] = {} <=> s \in {"committed", "failed", "cancelled"}
      BY DEF TASK_TRANSITIONS, TaskStatus
    <2>5. QED
      BY <2>1, <2>3, <2>4 DEF IncompleteTasks
  <1>2. QED
    BY <1>1, RecoveryTypeCorrect, ReplayRecoversTasks, PTL

\* Whose status a replay keeps: that of the last event of the workflow among the first n,
\* unless a task has ended after it.
StatusKept(w, n, s) ==
    \A i \in 1..n :
        /\ About(w, None, i)
        /\ \A j \in (i + 1)..n :
              ~About(w, None, j) /\ ledger[w][j].to \notin {"failed", "cancelled"}
        => s = ledger[w][i].to

ReplayStatusInv ==
    replay # Off /\ replay.clean =>
        /\ replay.upto = Len(ledger[replay.w])
        /\ StatusKept(replay.w, replay.at, replay.status)

LEMMA StatusOfTask ==
    ASSUME NEW s \in TaskStatus, s \notin {"failed", "cancelled"}
    PROVE  s \notin WorkflowStatus
  BY DEF TaskStatus, WorkflowStatus

\* One more event.
LEMMA StatusKeptNext ==
    ASSUME TypeOK, NEW w \in Workflows, NEW n \in Nat, n + 1 \in 1..Len(ledger[w]),
           NEW s, StatusKept(w, n, s)
    PROVE  StatusKept(w, n + 1, StatusAfter(s, ledger[w][n + 1]))
  <1> DEFINE e == ledger[w][n + 1]
  <1>1. e \in Event
    BY DEF TypeOK
  <1> SUFFICES ASSUME NEW i \in 1..(n + 1), About(w, None, i),
                      \A j \in (i + 1)..(n + 1) :
                         ~About(w, None, j) /\ ledger[w][j].to \notin {"failed", "cancelled"}
               PROVE  StatusAfter(s, e) = ledger[w][i].to
    BY DEF StatusKept
  <1>2. CASE i = n + 1
    <2>1. e.to \in WorkflowStatus
      BY <1>1, <1>2, EventShape DEF About
    <2>2. QED
      BY <1>2, <2>1 DEF StatusAfter
  <1>3. CASE i # n + 1
    <2>1. i \in 1..n /\ n + 1 \in (i + 1)..(n + 1)
      BY <1>3
    <2>2. e.task # None /\ e.to \notin {"failed", "cancelled"}
      BY <2>1 DEF About
    <2>3. e.to \notin WorkflowStatus
      BY <1>1, <2>2, EventShape, StatusOfTask
    <2>4. \A j \in (i + 1)..n : j \in (i + 1)..(n + 1)
      OBVIOUS
    <2>5. s = ledger[w][i].to
      BY <2>1, <2>4 DEF StatusKept
    <2>6. QED
      BY <2>3, <2>5 DEF StatusAfter
  <1>4. QED
    BY <1>2, <1>3

LEMMA ReplayEventStatus ==
    ASSUME RecoveryTypeOK, ReplayStatusInv, ReplayEvent
    PROVE  ReplayStatusInv'
  <1>1. PICK w \in Workflows, n \in Nat : w = replay.w /\ n = replay.at
    BY ReplayShape DEF RecoveryTypeOK, ReplayEvent
  <1>2. PICK e \in Event : e = ledger[w][n + 1]
    BY <1>1, NextEvent DEF ReplayEvent
  <1>3. n + 1 \in 1..Len(ledger[w]) /\ TypeOK
    BY <1>1, NextEvent DEF ReplayEvent, RecoveryTypeOK
  <1>4. /\ replay \in [step : {"on"}, w : Workflows, upto : Nat, at : Nat,
                       status : WorkflowStatus, clean : BOOLEAN]
        /\ replay' = [replay EXCEPT !.at = n + 1, !.status = StatusAfter(@, e)]
        /\ UNCHANGED ledger
    BY <1>1, <1>2, ReplayShape DEF RecoveryTypeOK, ReplayEvent
  <1>5. PICK s : s = StatusAfter(replay.status, e)
    OBVIOUS
  <1>6. /\ replay'.w = w /\ replay'.upto = replay.upto /\ replay'.at = n + 1
        /\ replay'.clean = replay.clean /\ replay'.status = s
    BY <1>1, <1>4, <1>5
  <1>7. replay.clean => StatusKept(w, n + 1, s)
    BY <1>1, <1>2, <1>3, <1>5, StatusKeptNext DEF ReplayStatusInv, ReplayEvent
  <1>8. replay.clean => replay.upto = Len(ledger[w])
    BY <1>1 DEF ReplayStatusInv, ReplayEvent
  <1>9. QED
    BY <1>4, <1>6, <1>7, <1>8 DEF ReplayStatusInv, StatusKept, About

\* An undisturbed replay gives the workflow the status of its own last event, unless a
\* task has failed or been cancelled since: those two names are statuses of both.
THEOREM ReplayRecoversWorkflow == RecoverySpec => []WorkflowRecoveredUnlessTaskEnded
  <1> DEFINE Inv == ReplayStatusInv /\ WorkflowRecoveredUnlessTaskEnded
  <1>1. RecoveryInit => Inv
    BY DEF RecoveryInit, ReplayStatusInv, WorkflowRecoveredUnlessTaskEnded
  <1>2. RecoveryTypeOK /\ Inv /\ [RecoveryNext]_allVars => Inv'
    <2> SUFFICES ASSUME RecoveryTypeOK, Inv, [RecoveryNext]_allVars
                 PROVE  Inv'
      OBVIOUS
    <2>1. ASSUME NEW w \in Workflows, BeginReplay(w)
          PROVE  Inv'
      <3>1. /\ replay' = [step |-> "on", w |-> w, upto |-> Len(ledger[w]), at |-> 0,
                          status |-> "created", clean |-> \A c \in Clients : call[c] = Idle]
            /\ UNCHANGED ledger /\ fresh' = None
        BY <2>1 DEF BeginReplay
      <3>2. replay'.w = w /\ replay'.upto = Len(ledger[w]) /\ replay'.at = 0
        BY <3>1
      <3>3. ReplayStatusInv'
        BY <3>1, <3>2 DEF ReplayStatusInv, StatusKept
      <3>4. QED
        BY <3>1, <3>3 DEF WorkflowRecoveredUnlessTaskEnded
    <2>2. CASE ReplayEvent
      BY <2>2, ReplayEventStatus DEF ReplayEvent, WorkflowRecoveredUnlessTaskEnded
    <2>3. CASE FinishReplay
      <3>1. PICK w \in Workflows : w = replay.w
        BY <2>3, ReplayShape DEF RecoveryTypeOK, FinishReplay
      <3>2. /\ replay' = Off /\ UNCHANGED ledger
            /\ workflow' = [workflow EXCEPT ![w] = replay.status]
            /\ fresh' = IF replay.clean THEN w ELSE None
        BY <2>3, <3>1 DEF FinishReplay, UpsertWorkflow
      <3>3. workflow'[w] = replay.status
        BY <3>2 DEF RecoveryTypeOK, TypeOK
      <3>4. replay.clean => StatusKept(w, Len(ledger[w]), replay.status)
        BY <2>3, <3>1 DEF FinishReplay, ReplayStatusInv
      <3>5. WorkflowRecoveredUnlessTaskEnded'
        BY <3>2, <3>3, <3>4 DEF WorkflowRecoveredUnlessTaskEnded, StatusKept, About
      <3>6. QED
        BY <3>2, <3>5 DEF ReplayStatusInv
    <2>4. CASE CrashReplay
      BY <2>4 DEF CrashReplay, ReplayStatusInv, WorkflowRecoveredUnlessTaskEnded
    <2>5. CASE EngineStep
      <3>1. fresh' = None /\ (replay' # Off => ~replay'.clean)
        <4>1. CASE replay = Off
          BY <2>5, <4>1 DEF EngineStep
        <4>2. CASE replay # Off
          BY <2>5, <4>2, ReplayShape DEF EngineStep, RecoveryTypeOK
        <4>3. QED
          BY <4>1, <4>2
      <3>2. QED
        BY <3>1 DEF ReplayStatusInv, WorkflowRecoveredUnlessTaskEnded
    <2>6. CASE UNCHANGED allVars
      BY <2>6 DEF allVars, vars, recoveryVars, ReplayStatusInv, StatusKept, About,
                  WorkflowRecoveredUnlessTaskEnded
    <2>7. QED
      BY <2>1, <2>2, <2>3, <2>4, <2>5, <2>6 DEF RecoveryNext
  <1>3. QED
    BY <1>1, <1>2, RecoveryTypeCorrect, PTL DEF RecoverySpec

----------------------------------------------------------------------------
(* Rows beside a replay are backed by the ledger.                          *)

\* Not so the row of a workflow, which a replay may give the status of a task: only what
\* the engine keeps of its tasks is left of BackedInv.
TasksBackedInv == TasksBacked /\ LoggedInv

LEMMA QuietTasksBacked ==
    ASSUME TasksBackedInv, UNCHANGED <<ledger, task>>,
           \A c \in Clients : call'[c].step = "logged" => call'[c] = call[c]
    PROVE  TasksBackedInv'
  <1>1. TasksBacked'
    BY DEF TasksBackedInv, TasksBacked
  <1>2. LoggedInv'
    BY DEF TasksBackedInv, LoggedInv, InLedger
  <1>3. QED
    BY <1>1, <1>2 DEF TasksBackedInv

LEMMA EnterTasksBacked ==
    ASSUME TypeOK, TasksBackedInv, NEW c \in Clients, NEW x, x.step # "logged", Enter(c, x)
    PROVE  TasksBackedInv'
  <1>1. UNCHANGED <<ledger, task>>
    BY DEF Enter
  <1>2. \A d \in Clients : call'[d].step = "logged" => call'[d] = call[d]
    BY DEF Enter, TypeOK
  <1>3. QED
    BY <1>1, <1>2, QuietTasksBacked

LEMMA ValidatedTasksBacked ==
    ASSUME TypeOK, TasksBackedInv, NEW c \in Clients, NEW w, NEW e, Validated(c, w, e)
    PROVE  TasksBackedInv'
  <1> DEFINE x == [step |-> "validated", w |-> w, event |-> e]
  <1>1. x.step # "logged" /\ Enter(c, x)
    BY DEF Validated
  <1> HIDE DEF x
  <1>2. QED
    BY <1>1, EnterTasksBacked

LEMMA AppendEventTasksBacked ==
    ASSUME TypeOK, TasksBackedInv, NEW c \in Clients, AppendEvent(c)
    PROVE  TasksBackedInv'
  <1>1. /\ \A w \in Workflows : \A i \in 1..Len(ledger[w]) :
              i \in 1..Len(ledger'[w]) /\ ledger'[w][i] = ledger[w][i]
        /\ InLedger(call[c].w, call[c].event)'
    BY AppendKeeps
  <1>2. UNCHANGED task /\ \A d \in Clients \ {c} : call'[d] = call[d]
    BY DEF AppendEvent, TypeOK
  <1>3. \A t \in Tasks : task'[t] \notin {NoRow, "pending"} =>
             \E w \in Workflows : \E i \in 1..Len(ledger'[w]) :
                ledger'[w][i].task = t /\ ledger'[w][i].to = task'[t]
    BY <1>1, <1>2 DEF TasksBackedInv, TasksBacked
  <1>4. ASSUME NEW d \in Clients \ {c}, call'[d].step = "logged"
        PROVE  InLedger(call[d].w, call[d].event)'
    <2>1. InLedger(call[d].w, call[d].event) /\ call[d].w \in Workflows
      BY <1>2, <1>4, CallShape DEF TasksBackedInv, LoggedInv, TypeOK
    <2>2. QED
      BY <1>1, <1>2, <2>1 DEF InLedger
  <1>5. QED
    BY <1>1, <1>3, <1>4 DEF TasksBackedInv, TasksBacked, LoggedInv

\* A row that is written with a status its ledger has.
LEMMA UpsertTaskBacked ==
    ASSUME TypeOK, TasksBacked, UNCHANGED ledger,
           NEW u \in Workflows, NEW w, NEW n \in 1..Len(ledger[u]),
           UpsertTask(ledger[u][n].task, w, ledger[u][n].to),
           ledger[u][n].task \in Tasks
    PROVE  TasksBacked'
  <1> DEFINE e == ledger[u][n]
  <1>1. task' = [task EXCEPT ![e.task] = e.to]
    BY DEF UpsertTask
  <1>2. \A t \in Tasks \ {e.task} : task'[t] = task[t]
    BY <1>1 DEF TypeOK
  <1>3. task'[e.task] = e.to
    BY <1>1 DEF TypeOK
  <1>4. QED
    BY <1>2, <1>3 DEF TasksBacked

LEMMA ProjectTasksBacked ==
    ASSUME TypeOK, TasksBackedInv, NEW c \in Clients, Project(c)
    PROVE  TasksBackedInv'
  <1>1. PICK u \in Workflows, e \in Event :
           u = call[c].w /\ e = call[c].event /\ InLedger(u, e)
    BY CallShape DEF Project, TypeOK, TasksBackedInv, LoggedInv
  <1>2. PICK n \in 1..Len(ledger[u]) : ledger[u][n] = e
    BY <1>1 DEF InLedger
  <1>3. UNCHANGED ledger /\ \A d \in Clients : call'[d].step = "logged" => call'[d] = call[d]
    BY DEF Project, TypeOK, Idle
  <1>4. CASE e.task = None /\ UpsertWorkflow(u, e.to)
    BY <1>3, <1>4, QuietTasksBacked DEF UpsertWorkflow
  <1>5. CASE e.task # None /\ UpsertTask(e.task, u, e.to)
    <2>1. TasksBacked'
      BY <1>1, <1>2, <1>3, <1>5, EventShape, UpsertTaskBacked DEF TasksBackedInv
    <2>2. LoggedInv'
      BY <1>3 DEF TasksBackedInv, LoggedInv, InLedger
    <2>3. QED
      BY <2>1, <2>2 DEF TasksBackedInv
  <1>6. QED
    BY <1>1, <1>4, <1>5 DEF Project

LEMMA RegisterNextTasksBacked ==
    ASSUME TypeOK, TasksBackedInv, NEW c \in Clients, RegisterNext(c)
    PROVE  TasksBackedInv'
  <1>1. PICK t \in call[c].left :
           /\ UpsertTask(t, call[c].w, "pending")
           /\ call' = [call EXCEPT ![c] = Registered(c, call[c].left \ {t})]
    BY DEF RegisterNext
  <1>2. UNCHANGED ledger /\ \A v \in Tasks : task'[v] \notin {NoRow, "pending"} => task'[v] = task[v]
    BY <1>1 DEF UpsertTask, TypeOK, RegisterNext
  <1>3. TasksBacked'
    BY <1>2 DEF TasksBackedInv, TasksBacked
  <1>4. \A d \in Clients : call'[d].step = "logged" => call'[d] = call[d]
    BY <1>1 DEF Registered, Idle, TypeOK
  <1>5. LoggedInv'
    BY <1>2, <1>4 DEF TasksBackedInv, LoggedInv, InLedger
  <1>6. QED
    BY <1>3, <1>5 DEF TasksBackedInv

LEMMA EngineTasksBacked ==
    ASSUME TypeOK, TasksBackedInv, Next
    PROVE  TasksBackedInv'
  <1>1. ASSUME NEW c \in Clients, RecordNext(c) \/ Crash(c)
        PROVE  TasksBackedInv'
    <2>1. UNCHANGED <<ledger, task>>
      BY <1>1 DEF RecordNext, Crash, UpsertWorkflow
    <2>2. \A d \in Clients : call'[d].step = "logged" => call'[d] = call[d]
      BY <1>1 DEF RecordNext, Crash, Idle, TypeOK
    <2>3. QED
      BY <2>1, <2>2, QuietTasksBacked
  <1>2. ASSUME NEW c \in Clients, NEW w \in Workflows,
               Approve(c, w) \/ Reject(c, w) \/ RequestApproval(c, w) \/ CreateWorkflow(c, w)
        PROVE  TasksBackedInv'
    BY <1>2, ValidatedTasksBacked DEF Approve, Reject, Answer, RequestApproval, CreateWorkflow
  <1>3. ASSUME NEW c \in Clients, NEW w \in Workflows, NEW target,
               TransitionWorkflow(c, w, target)
        PROVE  TasksBackedInv'
    BY <1>3, ValidatedTasksBacked DEF TransitionWorkflow
  <1>4. ASSUME NEW c \in Clients, NEW w \in Workflows, NEW t \in Tasks, NEW target,
               TransitionTask(c, t, w, target)
        PROVE  TasksBackedInv'
    BY <1>4, ValidatedTasksBacked DEF TransitionTask
  <1>5. ASSUME NEW c \in Clients, NEW w \in Workflows, NEW plan \in SUBSET Tasks,
               RegisterTasks(c, w, plan)
        PROVE  TasksBackedInv'
    <2> DEFINE x == [step |-> "registering", w |-> w, left |-> plan]
    <2>1. x.step # "logged" /\ Enter(c, x)
      BY <1>5 DEF RegisterTasks
    <2> HIDE DEF x
    <2>2. QED
      BY <2>1, EnterTasksBacked
  <1>6. ASSUME NEW c \in Clients, NEW w \in Workflows, RecordCall(c, w)
        PROVE  TasksBackedInv'
    <2> DEFINE x == [step |-> "counting", w |-> w, status |-> workflow[w]]
    <2>1. x.step # "logged" /\ Enter(c, x)
      BY <1>6 DEF RecordCall
    <2> HIDE DEF x
    <2>2. QED
      BY <2>1, EnterTasksBacked
  <1>7. QED
    BY <1>1, <1>2, <1>3, <1>4, <1>5, <1>6, AppendEventTasksBacked, ProjectTasksBacked,
       RegisterNextTasksBacked DEF Next, Command, Continue

\* Whatever a replay writes, finished or not, beside the engine or not, the row of a task
\* never holds a status that no event of the task has recorded.
THEOREM ReplayedRowsAreBacked == RecoverySpec => []TasksBacked
  <1>1. RecoveryInit => TasksBackedInv
    BY DEF RecoveryInit, Init, TasksBackedInv, TasksBacked, LoggedInv, Idle
  <1>2. RecoveryTypeOK /\ TasksBackedInv /\ [RecoveryNext]_allVars => TasksBackedInv'
    <2> SUFFICES ASSUME RecoveryTypeOK, TasksBackedInv, [RecoveryNext]_allVars
                 PROVE  TasksBackedInv'
      OBVIOUS
    <2>0. TypeOK
      BY DEF RecoveryTypeOK
    <2>1. ASSUME NEW w \in Workflows, BeginReplay(w)
          PROVE  TasksBackedInv'
      <3>1. UNCHANGED <<ledger, call>> /\ (UNCHANGED task \/ task' = [t \in Tasks |-> NoRow])
        BY <2>1 DEF BeginReplay, Lose
      <3>2. CASE UNCHANGED task
        BY <3>1, <3>2, QuietTasksBacked
      <3>3. CASE task' = [t \in Tasks |-> NoRow]
        <4>1. TasksBacked'
          BY <3>3 DEF TasksBacked
        <4>2. LoggedInv'
          BY <3>1 DEF TasksBackedInv, LoggedInv, InLedger
        <4>3. QED
          BY <4>1, <4>2 DEF TasksBackedInv
      <3>4. QED
        BY <3>1, <3>2, <3>3
    <2>2. CASE ReplayEvent
      <3>1. PICK u \in Workflows, n \in Nat : u = replay.w /\ n = replay.at + 1
        BY <2>2, ReplayShape DEF RecoveryTypeOK, ReplayEvent
      <3>2. n \in 1..Len(ledger[u]) /\ ledger[u][n] \in Event
        BY <2>2, <3>1, NextEvent DEF ReplayEvent
      <3>3. /\ UNCHANGED <<ledger, call>>
            /\ \/ /\ ledger[u][n].task # None
                  /\ UpsertTask(ledger[u][n].task, u, ledger[u][n].to)
               \/ UNCHANGED task
        BY <2>2, <3>1 DEF ReplayEvent
      <3>4. CASE UNCHANGED task
        BY <3>3, <3>4, QuietTasksBacked
      <3>5. CASE /\ ledger[u][n].task # None
                 /\ UpsertTask(ledger[u][n].task, u, ledger[u][n].to)
        <4>1. TasksBacked'
          BY <2>0, <3>2, <3>3, <3>5, EventShape, UpsertTaskBacked DEF TasksBackedInv
        <4>2. LoggedInv'
          BY <3>3 DEF TasksBackedInv, LoggedInv, InLedger
        <4>3. QED
          BY <4>1, <4>2 DEF TasksBackedInv
      <3>6. QED
        BY <3>3, <3>4, <3>5
    <2>3. CASE FinishReplay
      BY <2>3, QuietTasksBacked DEF FinishReplay, UpsertWorkflow
    <2>4. CASE CrashReplay
      BY <2>4, QuietTasksBacked DEF CrashReplay, vars
    <2>5. CASE EngineStep
      BY <2>0, <2>5, EngineTasksBacked DEF EngineStep
    <2>6. CASE UNCHANGED allVars
      BY <2>6, QuietTasksBacked DEF allVars, vars
    <2>7. QED
      BY <2>1, <2>2, <2>3, <2>4, <2>5, <2>6 DEF RecoveryNext
  <1>3. TasksBackedInv => TasksBacked
    BY DEF TasksBackedInv
  <1>4. QED
    BY <1>1, <1>2, <1>3, RecoveryTypeCorrect, PTL DEF RecoverySpec
===============================================================================
