------------------------------- MODULE Recovery -------------------------------
(***************************************************************************)
(* The recovery manager (recovery/replay.py) beside the engine.            *)
(* reconstruct_state reads the events of a workflow once and then writes   *)
(* rows event by event, in sessions of their own: the engine may run       *)
(* meanwhile and the replay may die between any two rows.  It is started   *)
(* over the rows a crash has left or over an empty database.               *)
(***************************************************************************)
EXTENDS Orchestrator

VARIABLES
    replay,   \* where reconstruct_state is
    fresh     \* history: the workflow whose undisturbed replay has just ended

recoveryVars == <<replay, fresh>>
allVars == <<vars, recoveryVars>>

Off == [step |-> "off"]

\* It has read the first `upto` events of w (they never change) and applied `at`
\* of them.  clean: no call of the engine was under way and none has been since.
Replay == {Off}
          \cup [step : {"on"}, w : Workflows, upto : Nat, at : Nat,
                status : WorkflowStatus, clean : BOOLEAN]

RecoveryInit ==
    /\ Init
    /\ replay = Off
    /\ fresh = None

\* The database is there, or it was lost with all its rows while nobody had it open.
Lose ==
    \/ UNCHANGED <<workflow, task, owner>>
    \/ /\ \A c \in Clients : call[c] = Idle
       /\ workflow' = [w \in Workflows |-> NoRow]
       /\ task' = [t \in Tasks |-> NoRow]
       /\ owner' = [t \in Tasks |-> None]

\* read_all.  Without an event there is nothing to do.
BeginReplay(w) ==
    /\ replay = Off
    /\ Known(w)
    /\ Lose
    /\ replay' = [step |-> "on", w |-> w, upto |-> Len(ledger[w]), at |-> 0,
                  status |-> "created", clean |-> \A c \in Clients : call[c] = Idle]
    /\ fresh' = None
    /\ UNCHANGED <<ledger, call, overlapped, cut>>

\* The status an event comes from, instead of the one it leads to.
StatusBefore(status, e) == IF e.from \in WorkflowStatus THEN e.from ELSE status

\* WorkflowStatus(to_status) raises for a status that is no workflow status, and
\* the status so far stands.  Nobody asks whose status it is.
StatusAfter(status, e) == IF e.to \in WorkflowStatus THEN e.to ELSE status

\* The loop keeps the first status of a task instead of the last.
ReplayEventOnce ==
    /\ replay # Off
    /\ replay.at < replay.upto
    /\ LET e == ledger[replay.w][replay.at + 1]
       IN  /\ replay' = [replay EXCEPT !.at = @ + 1, !.status = StatusAfter(@, e)]
           /\ IF e.task # None /\ task[e.task] = NoRow
              THEN UpsertTask(e.task, replay.w, e.to)
              ELSE UNCHANGED <<workflow, task, owner>>
    /\ fresh' = None
    /\ UNCHANGED <<ledger, call, overlapped, cut>>

\* The task gets the status of the workflow.
ReplayEventMixed ==
    /\ replay # Off
    /\ replay.at < replay.upto
    /\ LET e == ledger[replay.w][replay.at + 1]
       IN  /\ replay' = [replay EXCEPT !.at = @ + 1, !.status = StatusAfter(@, e)]
           /\ \/ /\ e.task # None
                 /\ UpsertTask(e.task, replay.w, replay.status)
              \/ /\ e.task = None
                 /\ UNCHANGED <<workflow, task, owner>>
    /\ fresh' = None
    /\ UNCHANGED <<ledger, call, overlapped, cut>>

\* One event: what it says of the workflow is kept, a task's row is written.
ReplayEvent ==
    /\ replay # Off
    /\ replay.at < replay.upto
    /\ LET e == ledger[replay.w][replay.at + 1]
       IN  /\ replay' = [replay EXCEPT !.at = @ + 1, !.status = StatusAfter(@, e)]
           /\ \/ /\ e.task # None
                 /\ UpsertTask(e.task, replay.w, e.to)
              \/ /\ e.task = None
                 /\ UNCHANGED <<workflow, task, owner>>
    /\ fresh' = None
    /\ UNCHANGED <<ledger, call, overlapped, cut>>

\* The workflow's row comes last.
FinishReplay ==
    /\ replay # Off
    /\ replay.at = replay.upto
    /\ UpsertWorkflow(replay.w, replay.status)
    /\ replay' = Off
    /\ fresh' = IF replay.clean THEN replay.w ELSE None
    /\ UNCHANGED <<ledger, call, overlapped, cut>>

\* The rows written so far stay.
CrashReplay ==
    /\ replay # Off
    /\ replay' = Off
    /\ fresh' = None
    /\ UNCHANGED vars

\* The engine goes on, whatever the replay is doing.
EngineStep ==
    /\ Next
    /\ replay' = IF replay = Off THEN Off ELSE [replay EXCEPT !.clean = FALSE]
    /\ fresh' = None

RecoveryNext ==
    \/ \E w \in Workflows : BeginReplay(w)
    \/ ReplayEvent
    \/ FinishReplay
    \/ CrashReplay
    \/ EngineStep

RecoverySpec == RecoveryInit /\ [][RecoveryNext]_allVars

\* get_incomplete_tasks with FAILED missing among the terminal statuses.
IncompleteOrFailed(w) ==
    {t \in Tasks : owner[t] = w /\ task[t] \notin {"committed", "cancelled"}}

\* get_incomplete_tasks.
IncompleteTasks(w) ==
    {t \in Tasks : owner[t] = w /\ task[t] \notin {"committed", "failed", "cancelled"}}

----------------------------------------------------------------------------
(* Properties.                                                             *)

\* Every variable keeps its type.
RecoveryTypeOK ==
    /\ TypeOK
    /\ replay \in Replay
    /\ replay # Off => /\ replay.at <= replay.upto
                     /\ replay.upto <= Len(ledger[replay.w])
    /\ fresh \in Workflows \cup {None}

\* An undisturbed replay, over any rows and after any number of interrupted ones,
\* gives each task with an event the status its last event leads to, also
\* when the engine had died between that event and the row.
TasksRecovered == fresh # None =>
    \A t \in Tasks : LastAbout(fresh, t, LAMBDA e : task[t] = e.to)

\* A row a replay writes, finished or not, beside a running engine or not, holds
\* a status that some event of the task has recorded.
TasksBacked ==
    \A t \in Tasks : task[t] \notin {NoRow, "pending"} =>
        \E w \in Workflows : \E i \in 1..Len(ledger[w]) :
            ledger[w][i].task = t /\ ledger[w][i].to = task[t]

\* Unless a task has failed or been cancelled since the workflow last changed, an
\* undisturbed replay gives the workflow the status of its last event.
WorkflowRecoveredUnlessTaskEnded == fresh # None =>
    \A i \in 1..Len(ledger[fresh]) :
        /\ About(fresh, None, i)
        /\ \A j \in (i + 1)..Len(ledger[fresh]) :
              /\ ~About(fresh, None, j)
              /\ ledger[fresh][j].to \notin {"failed", "cancelled"}
        => workflow[fresh] = ledger[fresh][i].to

\* After a replay get_incomplete_tasks finds, of the tasks with an event, those
\* whose last event leaves them a way to go on, and no others.
WorkLeftIsFound == fresh # None =>
    \A t \in Tasks : owner[t] = fresh =>
        LastAbout(fresh, t, LAMBDA e :
            t \in IncompleteTasks(fresh) <=> TASK_TRANSITIONS[e.to] # {})
===============================================================================
