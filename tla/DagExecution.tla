---------------------------- MODULE DagExecution ----------------------------
(***************************************************************************)
(* What a durable run promises the owner of a plan: tasks are done one at  *)
(* a time, each after everything it depends on, and the run is reported    *)
(* completed if all of them are done and failed otherwise.                 *)
(***************************************************************************)
CONSTANT Tasks

VARIABLES
    deps,    \* the plan: the tasks each task depends on
    done,    \* the tasks whose action is committed
    verdict  \* "open", then the outcome the run reports

vars == <<deps, done, verdict>>

Init ==
    /\ deps \in [Tasks -> SUBSET Tasks]
    /\ done = {}
    /\ verdict = "open"

Commit(t) ==
    /\ verdict = "open"
    /\ t \notin done
    /\ deps[t] \subseteq done
    /\ done' = done \cup {t}
    /\ UNCHANGED <<deps, verdict>>

Report ==
    /\ verdict = "open"
    /\ verdict' = IF done = Tasks THEN "completed" ELSE "failed"
    /\ UNCHANGED <<deps, done>>

Next == Report \/ \E t \in Tasks : Commit(t)

Spec == Init /\ [][Next]_vars
=============================================================================
