----------------------------- MODULE MCResumedRun -----------------------------
(***************************************************************************)
(* Plans for model checking ResumedRun.                                    *)
(***************************************************************************)
EXTENDS ResumedRun, TLC

\* Every plan of two tasks, one or each of which depends on the other.
DependentTasks ==
    {g \in [Tasks -> SUBSET Tasks] :
        /\ \A t \in Tasks : t \notin g[t]
        /\ \E t \in Tasks : g[t] # {}}
===============================================================================
