---------------------------- MODULE CycleDetection ----------------------------
(***************************************************************************)
(* detect_circular_deps (orchestration/scheduler.py): a depth-first search *)
(* with three colours.  The recursion of dfs is its list of nodes, path;   *)
(* each node keeps the neighbours its loop has still to look at.  Sets of  *)
(* ids and lists of dependencies come in any order.                        *)
(***************************************************************************)
EXTENDS Naturals, Sequences

CONSTANTS
    Tasks,    \* the tasks of the plan
    Outside   \* a task id that is not in the plan

ASSUME OutsideAssumption == Outside \notin Tasks

VARIABLES
    deps,    \* task.dependencies
    color,
    path,
    left,    \* neighbours each node has still to look at
    roots,   \* nodes the outer loop has still to look at
    cycles   \* the cycles found, each a list of tasks

vars == <<deps, color, path, left, roots, cycles>>

\* The dependencies that are tasks of the plan.
DepMap(t) == deps[t] \cap Tasks

Top == path[Len(path)]

\* Some tasks of the plan each depend on another of them.
HasCycle ==
    \E S \in SUBSET Tasks : S # {} /\ \A t \in S : deps[t] \cap S # {}

Init ==
    /\ deps \in [Tasks -> SUBSET (Tasks \cup {Outside})]
    /\ color = [t \in Tasks |-> "white"]
    /\ path = <<>>
    /\ left = [t \in Tasks |-> {}]
    /\ roots = Tasks
    /\ cycles = {}

\* The node is black as soon as it is entered.
EnterNodeBlack(t) ==
    /\ color' = [color EXCEPT ![t] = "black"]
    /\ path' = Append(path, t)

\* dfs(node, path) begins.
EnterNode(t) ==
    /\ color' = [color EXCEPT ![t] = "gray"]
    /\ path' = Append(path, t)

\* The outer loop takes the next task.
NextRoot(t) ==
    /\ path = <<>>
    /\ t \in roots
    /\ roots' = roots \ {t}
    /\ \/ /\ color[t] = "white"
          /\ EnterNode(t)
          /\ left' = [left EXCEPT ![t] = DepMap(t)]
       \/ /\ color[t] # "white"
          /\ UNCHANGED <<color, path, left>>
    /\ UNCHANGED <<deps, cycles>>

\* The whole path, not the part that starts at the neighbour.
WholePath(t) == path

\* path[path.index(t):]
PathFrom(t) ==
    LET i == CHOOSE j \in 1..Len(path) : path[j] = t
    IN  SubSeq(path, i, Len(path))

\* The loop of the node on top of the path looks at its neighbour t.
LookAt(t) ==
    /\ path # <<>>
    /\ t \in left[Top]
    /\ \/ /\ color[t] = "gray"
          /\ cycles' = cycles \cup {PathFrom(t)}
          /\ left' = [left EXCEPT ![Top] = @ \ {t}]
          /\ UNCHANGED <<color, path>>
       \/ /\ color[t] = "black"
          /\ left' = [left EXCEPT ![Top] = @ \ {t}]
          /\ UNCHANGED <<color, path, cycles>>
       \/ /\ color[t] = "white"
          /\ EnterNode(t)
          /\ left' = [left EXCEPT ![Top] = @ \ {t}, ![t] = DepMap(t)]
          /\ UNCHANGED cycles
    /\ UNCHANGED <<deps, roots>>

\* dfs ends without path.pop().
LeaveOnPath ==
    /\ path # <<>>
    /\ left[Top] = {}
    /\ color' = [color EXCEPT ![Top] = "black"]
    /\ UNCHANGED <<deps, path, left, roots, cycles>>

\* dfs ends: path.pop(), and the node is black.
Leave ==
    /\ path # <<>>
    /\ left[Top] = {}
    /\ path' = SubSeq(path, 1, Len(path) - 1)
    /\ color' = [color EXCEPT ![Top] = "black"]
    /\ UNCHANGED <<deps, left, roots, cycles>>

Next == Leave \/ \E t \in Tasks : NextRoot(t) \/ LookAt(t)

Spec == Init /\ [][Next]_vars /\ WF_vars(Next)

----------------------------------------------------------------------------
(* Properties.                                                             *)

Finished == path = <<>> /\ roots = {}

\* Every list returned is a cycle of the plan: each task depends on the next one,
\* the last on the first, and no task occurs twice.
CyclesGenuine ==
    \A c \in cycles :
        /\ \A i \in 1..Len(c) : c[(i % Len(c)) + 1] \in deps[c[i]]
        /\ \A i, j \in 1..Len(c) : i # j => c[i] # c[j]

\* When the search ends it has found a cycle if and only if the plan has one,
\* whatever the order in which it looked at tasks and dependencies.
FindsCycles == Finished => (cycles # {} <=> HasCycle)

\* The gray tasks are the ones on the path, in the order of their dependencies,
\* and no black task leads to a white one: what the search has left is done.
SearchInv ==
    /\ \A t \in Tasks : color[t] = "gray" <=> \E i \in 1..Len(path) : path[i] = t
    /\ \A i \in 1..(Len(path) - 1) : path[i + 1] \in deps[path[i]]
    /\ \A t \in Tasks : color[t] = "black" =>
          \A d \in deps[t] \cap Tasks : color[d] # "white"

\* The search of every plan ends.
Ends == <>Finished
==============================================================================
