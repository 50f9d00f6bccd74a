------------------------------ MODULE ResumedRun ------------------------------
(***************************************************************************)
(* A run of a goal, the loss of its database, the recovery manager and a   *)
(* second run, on one data directory.  Step, Die and RunAgain of module    *)
(* DurableRuntime are the program that runs goals, the steps of module     *)
(* Recovery are reconstruct_state.  The database is lost and rows are      *)
(* rebuilt only while no run_goal is alive; the ledgers are never lost.    *)
(***************************************************************************)
EXTENDS DurableRuntime

VARIABLES
    replay,     \* where reconstruct_state is
    fresh,      \* history of module Recovery
    lost,       \* history: the database was lost
    missing,    \* history: the workflows lost with it and not rebuilt since
    restarted   \* history: a run began while some were missing

Manager == INSTANCE Recovery

lossVars == <<lost, missing, restarted>>
resumedVars == <<allVars, replay, fresh, lossVars>>

----------------------------------------------------------------------------

\* No process is inside run_goal.  Bound: a run is still to follow.
Stopped == pc \in {"done", "down"} /\ Ready /\ wf + 1 \in Workflows

ResumedInit ==
    /\ RunInit
    /\ replay = Manager!Off
    /\ fresh = None
    /\ lost = FALSE
    /\ missing = {}
    /\ restarted = FALSE

\* Nothing is being rebuilt while run_goal is alive.
Alive ==
    /\ replay = Manager!Off
    /\ fresh' = None
    /\ UNCHANGED <<replay, lossVars>>

GoOn == Step /\ Alive
Killed == Die /\ Alive

\* Whatever the database holds, run_goal does not ask.
Restart ==
    /\ RunAgain
    /\ replay = Manager!Off
    /\ restarted' = (restarted \/ missing # {})
    /\ fresh' = None
    /\ UNCHANGED <<replay, lost, missing>>

\* The SQLite file goes with all its rows, the idempotency keys among them: get_engine
\* creates an empty one.
LoseDatabase ==
    /\ Stopped
    /\ ~lost
    /\ replay = Manager!Off
    /\ workflow' = [w \in Workflows |-> NoRow]
    /\ task' = [t \in Tasks |-> NoRow]
    /\ owner' = [t \in Tasks |-> None]
    /\ idempotency' = {}
    /\ lost' = TRUE
    /\ missing' = {w \in Workflows : Known(w)}
    /\ fresh' = None
    /\ UNCHANGED <<ledger, call, overlapped, cut, deps, runVars, effects, replay, restarted>>

\* reconstruct_state, over the rows as they are, also a second time and after one that
\* died half-way.
Rebuild ==
    /\ Stopped
    /\ \/ /\ UNCHANGED <<workflow, task, owner, missing>>
          /\ \E w \in Workflows : Manager!BeginReplay(w)
       \/ Manager!ReplayEvent /\ UNCHANGED missing
       \/ Manager!FinishReplay /\ missing' = missing \ {replay.w}
       \/ Manager!CrashReplay /\ UNCHANGED missing
    /\ UNCHANGED <<deps, runVars, storeVars, lost, restarted>>

ResumedNext == GoOn \/ Killed \/ Restart \/ LoseDatabase \/ Rebuild

ResumedSpec == ResumedInit /\ [][ResumedNext]_resumedVars

----------------------------------------------------------------------------
(* Properties.                                                             *)

\* The tool call of a task succeeds at most once over all runs of a plan, although the
\* process may die right after it and the keys may be lost with the database: the rows
\* a replay writes belong to the workflow it replays, and a new run leaves them alone.
\* Only a run that begins over a lost database, before it is rebuilt, does work twice.
RebuiltRunsOnce == ~restarted => SucceedsAtMostOnce

\* A committed task has its idempotency key recorded and its tool call made, also after
\* replays, as long as the database is there: the keys are in no ledger.
CommitKeptRecorded == ~lost => CommitRecorded

\* The status an undisturbed replay gives the workflow of a run is the one its own last
\* event leads to, wherever the run died: "State is always reconstructable from events"
\* (docs/adr/001-sqlite-jsonl-local-state.md:23).
WorkflowRecovered == fresh # None =>
    LastAbout(fresh, None, LAMBDA e : workflow[fresh] = e.to)
===============================================================================
