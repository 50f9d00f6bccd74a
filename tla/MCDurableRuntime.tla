--------------------------- MODULE MCDurableRuntime ---------------------------
(***************************************************************************)
(* Plans for model checking DurableRuntime.  A plan lists its tasks by     *)
(* number, so a dependency may point forward as well as backward.          *)
(***************************************************************************)
EXTENDS DurableRuntime, TLC

Loopless == {g \in [Tasks -> SUBSET Tasks] : \A t \in Tasks : t \notin g[t]}
Edges(g) == {e \in Tasks \X Tasks : e[2] \in g[e[1]]}

\* Every plan of three tasks with two or more dependencies, and no task that
\* depends on itself: chains, forks, joins, triangles and every cycle.
ThreeTaskGraphs == {g \in Loopless : Cardinality(Edges(g)) >= 2}
===============================================================================
