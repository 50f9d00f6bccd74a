-------------------------- MODULE AlgorithmProofs --------------------------
(***************************************************************************)
(* Theorems about the two algorithms that stand by themselves: the search  *)
(* for circular dependencies, for every set of tasks, every dependency     *)
(* graph and every order in which tasks and dependencies are looked at;    *)
(* and the reading of an object from the text of a model's reply, for      *)
(* texts of every length.                                                  *)
(***************************************************************************)
EXTENDS CycleDetection, ModelProvider, WellFoundedInduction, TLAPS

----------------------------------------------------------------------------
(* The path of the search.                                                 *)

SearchTyped ==
    /\ deps \in [Tasks -> SUBSET (Tasks \cup {Outside})]
    /\ color \in [Tasks -> {"white", "gray", "black"}]
    /\ path \in Seq(Tasks)
    /\ left \in [Tasks -> SUBSET Tasks]

\* The gray tasks are those on the path, once each, and each depends on the next.
PathInv ==
    /\ \A t \in Tasks : color[t] = "gray" <=> \E i \in 1..Len(path) : path[i] = t
    /\ \A i \in 1..Len(path) : i < Len(path) => path[i + 1] \in deps[path[i]]
    /\ \A i, j \in 1..Len(path) : path[i] = path[j] => i = j
    /\ \A t \in Tasks : left[t] \subseteq deps[t]

\* Every task that the outer loop has passed has been visited.
RootsInv == \A t \in Tasks : color[t] = "white" => t \in roots

\* The position after i on a list of m that is closed to a ring.
LEMMA RingNext ==
    ASSUME NEW m \in Nat, NEW i \in 1..m
    PROVE  /\ i < m => (i % m) + 1 = i + 1
           /\ i = m => (i % m) + 1 = 1
  OBVIOUS

\* A list of tasks in which each depends on the next, the last on the first.
Ring(c) ==
    /\ c \in Seq(Tasks)
    /\ Len(c) > 0
    /\ \A i \in 1..Len(c) : c[(i % Len(c)) + 1] \in deps[c[i]]
    /\ \A i, j \in 1..Len(c) : i # j => c[i] # c[j]

FoundInv == \A c \in cycles : Ring(c)

\* The end of the path from a gray task on, which the task on top depends on.
LEMMA PathFromIsRing ==
    ASSUME SearchTyped, PathInv, NEW t \in Tasks, color[t] = "gray",
           path # <<>>, t \in deps[Top]
    PROVE  Ring(PathFrom(t))
  <1>1. PICK n \in Nat : n = Len(path) /\ n > 0
    BY DEF SearchTyped
  <1>2. \E j \in 1..n : path[j] = t
    BY <1>1 DEF PathInv
  <1>3. PICK i \in 1..n : i = (CHOOSE j \in 1..Len(path) : path[j] = t) /\ path[i] = t
    BY <1>1, <1>2
  <1>4. PICK c : c = SubSeq(path, i, n)
    OBVIOUS
  <1>5. PathFrom(t) = c
    BY <1>1, <1>3, <1>4 DEF PathFrom
  <1>6. PICK m \in Nat : m = n - i + 1 /\ m > 0
    OBVIOUS
  <1>7. c \in Seq(Tasks) /\ Len(c) = m /\ \A k \in 1..m : c[k] = path[i + k - 1]
    BY <1>1, <1>4, <1>6 DEF SearchTyped
  <1>8. \A k \in 1..m : i + k - 1 \in 1..n /\ i + (k + 1) - 1 = (i + k - 1) + 1
    BY <1>6
  <1>9. ASSUME NEW k \in 1..m
        PROVE  c[(k % m) + 1] \in deps[c[k]]
    <2>1. CASE k < m
      <3>1. (k % m) + 1 = k + 1 /\ k + 1 \in 1..m /\ i + k - 1 < n
        BY <1>6, <2>1, RingNext
      <3>2. path[(i + k - 1) + 1] \in deps[path[i + k - 1]]
        BY <1>1, <1>8, <3>1 DEF PathInv
      <3>3. c[k + 1] = path[(i + k - 1) + 1]
        <4>1. PICK j \in 1..m : j = k + 1
          BY <3>1
        <4>2. c[j] = path[i + j - 1]
          BY <1>7
        <4>3. i + j - 1 = (i + k - 1) + 1
          BY <4>1
        <4>4. QED
          BY <4>1, <4>2, <4>3
      <3>4. QED
        BY <1>7, <3>1, <3>2, <3>3
    <2>2. CASE k = m
      <3>1. (k % m) + 1 = 1 /\ 1 \in 1..m /\ i + 1 - 1 = i /\ i + m - 1 = n
        BY <1>6, <2>2, RingNext
      <3>2. c[1] = t /\ c[m] = path[n]
        <4>1. c[1] = path[i + 1 - 1] /\ c[m] = path[i + m - 1]
          BY <1>6, <1>7, <3>1
        <4>2. QED
          BY <1>3, <3>1, <4>1
      <3>3. QED
        BY <1>1, <2>2, <3>1, <3>2 DEF Top
    <2>3. QED
      BY <2>1, <2>2
  <1>10. ASSUME NEW k \in 1..m, NEW l \in 1..m, k # l
         PROVE  c[k] # c[l]
    <2>1. i + k - 1 # i + l - 1
      BY <1>10
    <2>2. i + k - 1 \in 1..n /\ i + l - 1 \in 1..n
      BY <1>8
    <2>3. path[i + k - 1] # path[i + l - 1]
      BY <1>1, <2>1, <2>2 DEF PathInv
    <2>4. QED
      BY <1>7, <2>3
  <1>11. QED
    BY <1>5, <1>6, <1>7, <1>9, <1>10 DEF Ring

\* dfs begins: the node is put on the path.
LEMMA EnterNodePath ==
    ASSUME SearchTyped, PathInv, RootsInv, UNCHANGED deps,
           NEW t \in Tasks, color[t] = "white", EnterNode(t),
           Len(path) > 0 => t \in deps[Top],
           left' \in [Tasks -> SUBSET Tasks], \A u \in Tasks : left'[u] \subseteq deps[u]
    PROVE  /\ SearchTyped' /\ PathInv'
           /\ Len(path') = Len(path) + 1 /\ path'[Len(path) + 1] = t
           /\ \A i \in 1..Len(path) : path'[i] = path[i]
  <1>1. PICK n \in Nat : n = Len(path)
    BY DEF SearchTyped
  <1>2. /\ path' \in Seq(Tasks) /\ Len(path') = n + 1 /\ path'[n + 1] = t
        /\ \A i \in 1..n : path'[i] = path[i]
    BY <1>1 DEF EnterNode, SearchTyped
  <1>3. color' = [color EXCEPT ![t] = "gray"]
    BY DEF EnterNode
  <1>4. SearchTyped'
    BY <1>2, <1>3 DEF SearchTyped
  <1>5. \A i \in 1..n : path[i] # t /\ path[i] \in Tasks
    BY <1>1 DEF PathInv, SearchTyped
  <1>6. \A u \in Tasks : color'[u] = "gray" <=> \E i \in 1..(n + 1) : path'[i] = u
    <2>1. CASE n = 0
      BY <1>1, <1>2, <1>3, <2>1 DEF PathInv, SearchTyped
    <2>2. ASSUME NEW u \in Tasks
          PROVE  color'[u] = "gray" <=> \E i \in 1..(n + 1) : path'[i] = u
      <3>1. n + 1 \in 1..(n + 1) /\ \A i \in 1..n : i \in 1..(n + 1)
        OBVIOUS
      <3>2. \A i \in 1..(n + 1) : i = n + 1 \/ i \in 1..n
        OBVIOUS
      <3>3. color[u] = "gray" <=> \E i \in 1..n : path[i] = u
        BY <1>1 DEF PathInv
      <3>4. color'[u] = "gray" <=> u = t \/ color[u] = "gray"
        BY <1>3 DEF SearchTyped
      <3>5. QED
        BY <1>2, <3>1, <3>2, <3>3, <3>4
    <2>3. QED
      BY <2>2
  <1>7. ASSUME NEW i \in 1..(n + 1), i < n + 1
        PROVE  path'[i + 1] \in deps[path'[i]]
    <2>1. CASE i < n
      BY <1>1, <1>2, <2>1 DEF PathInv
    <2>2. CASE i = n
      BY <1>1, <1>2, <1>7, <2>2 DEF Top
    <2>3. QED
      BY <1>7, <2>1, <2>2
  <1>8. \A i, j \in 1..(n + 1) : path'[i] = path'[j] => i = j
    <2>1. \A i \in 1..(n + 1) : i = n + 1 \/ i \in 1..n
      OBVIOUS
    <2>2. QED
      BY <1>1, <1>2, <1>5, <2>1 DEF PathInv
  <1>9. PathInv'
    BY <1>2, <1>6, <1>7, <1>8 DEF PathInv
  <1>10. QED
    BY <1>1, <1>2, <1>4, <1>9

\* dfs ends: the node on top is taken off.
LEMMA LeavePath ==
    ASSUME SearchTyped, PathInv, Leave
    PROVE  /\ SearchTyped' /\ PathInv'
           /\ Len(path) \in Nat /\ Len(path) > 0 /\ Len(path') = Len(path) - 1
           /\ \A i \in 1..Len(path') : path'[i] = path[i]
           /\ Top \in Tasks /\ color[Top] = "gray" /\ color' = [color EXCEPT ![Top] = "black"]
  <1>1. PICK n \in Nat : n = Len(path) /\ n > 0
    BY DEF SearchTyped, Leave
  <1>2. /\ path' \in Seq(Tasks) /\ Len(path') = n - 1
        /\ \A i \in 1..(n - 1) : path'[i] = path[i]
    BY <1>1 DEF Leave, SearchTyped
  <1>3. PICK t \in Tasks : t = Top /\ t = path[n]
    BY <1>1 DEF Top, SearchTyped
  <1>4. color' = [color EXCEPT ![t] = "black"] /\ UNCHANGED <<deps, left>>
    BY <1>3 DEF Leave
  <1>5. SearchTyped'
    BY <1>2, <1>4 DEF SearchTyped
  <1>6. color[t] = "gray"
    BY <1>1, <1>3 DEF PathInv
  <1>7. ASSUME NEW u \in Tasks
        PROVE  color'[u] = "gray" <=> \E i \in 1..(n - 1) : path'[i] = u
    <2>1. \A i \in 1..n : i = n \/ i \in 1..(n - 1)
      OBVIOUS
    <2>2. \A i \in 1..(n - 1) : i \in 1..n /\ i # n
      OBVIOUS
    <2>3. \A i \in 1..(n - 1) : path[i] # t
      BY <1>1, <1>3, <2>2 DEF PathInv
    <2>4. color[u] = "gray" <=> \E i \in 1..n : path[i] = u
      BY <1>1 DEF PathInv
    <2>5. color'[u] = "gray" <=> u # t /\ color[u] = "gray"
      BY <1>4 DEF SearchTyped
    <2>6. QED
      BY <1>2, <1>3, <2>1, <2>2, <2>3, <2>4, <2>5
  <1>8. \A i \in 1..(n - 1) : i < n - 1 => path'[i + 1] \in deps[path'[i]]
    BY <1>1, <1>2 DEF PathInv
  <1>9. \A i, j \in 1..(n - 1) : path'[i] = path'[j] => i = j
    BY <1>1, <1>2 DEF PathInv
  <1>10. PathInv'
    BY <1>2, <1>4, <1>7, <1>8, <1>9 DEF PathInv
  <1>11. QED
    BY <1>1, <1>2, <1>3, <1>4, <1>5, <1>6, <1>10

----------------------------------------------------------------------------
(* What the search has found, and what it has ruled out.                   *)

\* As long as no cycle is found, the black tasks depend on black ones only and no set of
\* them holds a cycle; of a task on the path the dependencies that its loop has passed
\* are black, or next on the path.
Acyclic(S) == S # {} => \E t \in S : deps[t] \cap S = {}

ExploredInv == cycles = {} =>
    /\ \A t \in Tasks : color[t] = "black" => \A d \in DepMap(t) : color[d] = "black"
    /\ \A i \in 1..Len(path) : \A d \in DepMap(path[i]) :
          \/ d \in left[path[i]]
          \/ color[d] = "black"
          \/ i < Len(path) /\ d = path[i + 1]
    /\ \A S \in SUBSET Tasks : (\A t \in S : color[t] = "black") => Acyclic(S)

CycleInv == SearchTyped /\ PathInv /\ RootsInv /\ FoundInv /\ ExploredInv

LEMMA NextRootKeeps ==
    ASSUME CycleInv, NEW t \in Tasks, NextRoot(t)
    PROVE  CycleInv'
  <1>1. path = <<>> /\ roots' = roots \ {t} /\ UNCHANGED <<deps, cycles>>
    BY DEF NextRoot
  <1>2. SearchTyped /\ PathInv /\ RootsInv /\ FoundInv /\ ExploredInv
    BY DEF CycleInv
  <1>3. FoundInv'
    BY <1>1, <1>2 DEF FoundInv, Ring
  <1>4. CASE /\ color[t] = "white" /\ EnterNode(t)
             /\ left' = [left EXCEPT ![t] = DepMap(t)]
    <2>1. /\ left' \in [Tasks -> SUBSET Tasks] /\ \A u \in Tasks : left'[u] \subseteq deps[u]
          /\ left'[t] = DepMap(t)
      BY <1>2, <1>4 DEF SearchTyped, PathInv, DepMap
    <2>2. /\ SearchTyped' /\ PathInv'
          /\ Len(path') = 1 /\ path'[1] = t
      BY <1>1, <1>2, <1>4, <2>1, EnterNodePath
    <2>3. color' = [color EXCEPT ![t] = "gray"]
      BY <1>4 DEF EnterNode
    <2>4. RootsInv'
      BY <1>1, <1>2, <2>3 DEF RootsInv, SearchTyped
    <2>5. \A u \in Tasks : color'[u] = "black" <=> color[u] = "black"
      BY <1>2, <1>4, <2>3 DEF SearchTyped
    <2>6. ExploredInv'
      BY <1>1, <1>2, <2>1, <2>2, <2>5 DEF ExploredInv, DepMap, Acyclic
    <2>7. QED
      BY <1>3, <2>2, <2>4, <2>6 DEF CycleInv
  <1>5. CASE color[t] # "white" /\ UNCHANGED <<color, path, left>>
    <2>1. SearchTyped' /\ PathInv'
      BY <1>1, <1>2, <1>5 DEF SearchTyped, PathInv
    <2>2. RootsInv'
      BY <1>1, <1>2, <1>5 DEF RootsInv
    <2>3. ExploredInv'
      BY <1>1, <1>2, <1>5 DEF ExploredInv, DepMap, Acyclic
    <2>4. QED
      BY <1>3, <2>1, <2>2, <2>3 DEF CycleInv
  <1>6. QED
    BY <1>4, <1>5 DEF NextRoot

LEMMA LookAtKeeps ==
    ASSUME CycleInv, NEW t \in Tasks, LookAt(t)
    PROVE  CycleInv'
  <1>1. path # <<>> /\ t \in left[Top] /\ UNCHANGED <<deps, roots>>
    BY DEF LookAt
  <1>2. SearchTyped /\ PathInv /\ RootsInv /\ FoundInv /\ ExploredInv
    BY DEF CycleInv
  <1>3. PICK n \in Nat : n = Len(path) /\ n > 0
    BY <1>1, <1>2 DEF SearchTyped
  <1>4. PICK p \in Tasks : p = Top /\ p = path[n] /\ color[p] = "gray"
    BY <1>2, <1>3 DEF Top, SearchTyped, PathInv
  <1>5. t \in deps[p]
    BY <1>1, <1>2, <1>4 DEF PathInv
  <1>6. CASE /\ color[t] = "gray" /\ cycles' = cycles \cup {PathFrom(t)}
             /\ left' = [left EXCEPT ![Top] = @ \ {t}] /\ UNCHANGED <<color, path>>
    <2>1. Ring(PathFrom(t))
      BY <1>1, <1>2, <1>4, <1>5, <1>6, PathFromIsRing
    <2>2. FoundInv'
      BY <1>1, <1>2, <1>6, <2>1 DEF FoundInv, Ring
    <2>3. ExploredInv'
      BY <1>6 DEF ExploredInv
    <2>4. SearchTyped' /\ PathInv'
      <3>1. /\ left' \in [Tasks -> SUBSET Tasks]
            /\ \A q \in Tasks : left'[q] \subseteq left[q]
        BY <1>2, <1>4, <1>6 DEF SearchTyped
      <3>2. UNCHANGED <<deps, color, path>>
        BY <1>1, <1>6
      <3>3. SearchTyped'
        BY <1>2, <3>1, <3>2 DEF SearchTyped
      <3>4. PathInv'
        BY <1>2, <3>1, <3>2 DEF PathInv
      <3>5. QED
        BY <3>3, <3>4
    <2>5. RootsInv'
      BY <1>1, <1>2, <1>6 DEF RootsInv
    <2>6. QED
      BY <2>2, <2>3, <2>4, <2>5 DEF CycleInv
  <1>7. CASE /\ color[t] = "black" /\ left' = [left EXCEPT ![Top] = @ \ {t}]
             /\ UNCHANGED <<color, path, cycles>>
    <2>1. FoundInv'
      BY <1>1, <1>2, <1>7 DEF FoundInv, Ring
    <2>2. \A u \in Tasks : \A d \in left[u] : d # t => d \in left'[u]
      BY <1>2, <1>4, <1>7 DEF SearchTyped
    <2>3. \A i \in 1..Len(path) : path[i] \in Tasks
      BY <1>2 DEF SearchTyped
    <2>4. ExploredInv'
      BY <1>1, <1>2, <1>7, <2>2, <2>3 DEF ExploredInv, DepMap, Acyclic
    <2>5. SearchTyped' /\ PathInv'
      BY <1>1, <1>2, <1>4, <1>7 DEF SearchTyped, PathInv
    <2>6. RootsInv'
      BY <1>1, <1>2, <1>7 DEF RootsInv
    <2>7. QED
      BY <2>1, <2>4, <2>5, <2>6 DEF CycleInv
  <1>8. CASE /\ color[t] = "white" /\ EnterNode(t)
             /\ left' = [left EXCEPT ![Top] = @ \ {t}, ![t] = DepMap(t)]
             /\ UNCHANGED cycles
    <2>0. t # p
      BY <1>4, <1>8
    <2>1. /\ left' \in [Tasks -> SUBSET Tasks] /\ \A u \in Tasks : left'[u] \subseteq deps[u]
          /\ left'[t] = DepMap(t) /\ left'[p] = left[p] \ {t}
          /\ \A u \in Tasks : u # t /\ u # p => left'[u] = left[u]
      BY <1>2, <1>4, <1>8, <2>0 DEF SearchTyped, PathInv, DepMap
    <2>2. /\ SearchTyped' /\ PathInv'
          /\ Len(path') = n + 1 /\ path'[n + 1] = t /\ \A i \in 1..n : path'[i] = path[i]
      BY <1>1, <1>2, <1>3, <1>4, <1>5, <1>8, <2>1, EnterNodePath
    <2>3. color' = [color EXCEPT ![t] = "gray"]
      BY <1>8 DEF EnterNode
    <2>4. RootsInv'
      BY <1>1, <1>2, <2>3 DEF RootsInv, SearchTyped
    <2>5. \A u \in Tasks : color'[u] = "black" <=> color[u] = "black"
      BY <1>2, <1>8, <2>3 DEF SearchTyped
    <2>6. FoundInv'
      BY <1>1, <1>2, <1>8 DEF FoundInv, Ring
    <2>7. ASSUME cycles = {}, NEW i \in 1..(n + 1), NEW d \in Tasks, d \in deps[path'[i]]
          PROVE  \/ d \in left'[path'[i]]
                 \/ color'[d] = "black"
                 \/ i < n + 1 /\ d = path'[i + 1]
      <3>1. CASE i = n + 1
        BY <2>1, <2>2, <2>7, <3>1 DEF DepMap
      <3>2. CASE i = n
        <4>1. path'[i] = p /\ i \in 1..n
          BY <1>3, <1>4, <2>2, <3>2
        <4>2. d \in left[p] \/ color[d] = "black"
          BY <1>2, <1>3, <1>4, <2>7, <3>2, <4>1 DEF ExploredInv, DepMap
        <4>3. QED
          BY <2>1, <2>2, <2>5, <3>2, <4>1, <4>2
      <3>3. CASE i < n
        <4>1. i \in 1..n /\ n \in 1..n /\ i + 1 \in 1..n
          BY <3>3
        <4>2. path'[i] = path[i] /\ path'[i + 1] = path[i + 1] /\ path[i] \in Tasks
          BY <1>2, <1>3, <2>2, <4>1 DEF SearchTyped
        <4>3. path[i] # p /\ path[i] # t
          BY <1>2, <1>3, <1>4, <1>8, <3>3, <4>1 DEF PathInv
        <4>4. d \in left[path[i]] \/ color[d] = "black" \/ d = path[i + 1]
          BY <1>2, <1>3, <2>7, <4>1, <4>2 DEF ExploredInv, DepMap
        <4>5. QED
          BY <2>1, <2>5, <3>3, <4>2, <4>3, <4>4
      <3>4. QED
        BY <3>1, <3>2, <3>3
    <2>8. ExploredInv'
      <3> SUFFICES ASSUME cycles = {}
                   PROVE  ExploredInv'
        BY <1>8 DEF ExploredInv
      <3>1. \A u \in Tasks : color'[u] = "black" => \A d \in DepMap(u)' : color'[d] = "black"
        BY <1>1, <1>2, <2>5 DEF ExploredInv, DepMap
      <3>2. \A i \in 1..Len(path') : \A d \in DepMap(path[i])' :
               \/ d \in left'[path'[i]]
               \/ color'[d] = "black"
               \/ i < Len(path') /\ d = path'[i + 1]
        BY <1>1, <2>2, <2>7 DEF DepMap
      <3>3. \A S \in SUBSET Tasks : (\A u \in S : color'[u] = "black") => Acyclic(S)'
        BY <1>1, <1>2, <2>5 DEF ExploredInv, Acyclic
      <3>4. QED
        BY <3>1, <3>2, <3>3 DEF ExploredInv
    <2>9. QED
      BY <2>2, <2>4, <2>6, <2>8 DEF CycleInv
  <1>9. QED
    BY <1>6, <1>7, <1>8 DEF LookAt

LEMMA LeaveKeeps ==
    ASSUME CycleInv, Leave
    PROVE  CycleInv'
  <1>1. UNCHANGED <<deps, left, roots, cycles>> /\ left[Top] = {}
    BY DEF Leave
  <1>2. SearchTyped /\ PathInv /\ RootsInv /\ FoundInv /\ ExploredInv
    BY DEF CycleInv
  <1>3. PICK n \in Nat : n = Len(path) /\ n > 0
    BY <1>2, LeavePath
  <1>4. PICK p \in Tasks : p = Top /\ p = path[n]
    BY <1>2, <1>3, LeavePath DEF Top
  <1>5. /\ SearchTyped' /\ PathInv' /\ Len(path') = n - 1
        /\ \A i \in 1..(n - 1) : path'[i] = path[i]
        /\ color[p] = "gray" /\ color' = [color EXCEPT ![p] = "black"]
    BY <1>2, <1>3, <1>4, LeavePath
  <1>6. \A u \in Tasks : color'[u] = "black" <=> u = p \/ color[u] = "black"
    BY <1>2, <1>5 DEF SearchTyped
  <1>7. RootsInv'
    BY <1>1, <1>2, <1>5 DEF RootsInv, SearchTyped
  <1>8. FoundInv'
    BY <1>1, <1>2 DEF FoundInv, Ring
  <1>9. ExploredInv'
    <2> SUFFICES ASSUME cycles = {}
                 PROVE  ExploredInv'
      BY <1>1 DEF ExploredInv
    <2>1. \A d \in deps[p] \cap Tasks : color[d] = "black"
      BY <1>1, <1>2, <1>3, <1>4 DEF ExploredInv, DepMap
    <2>2. \A t \in Tasks : color'[t] = "black" => \A d \in deps[t] \cap Tasks : color'[d] = "black"
      BY <1>2, <1>6, <2>1 DEF ExploredInv, DepMap
    <2>3. ASSUME NEW i \in 1..(n - 1), NEW d \in Tasks, d \in deps[path[i]]
          PROVE  \/ d \in left[path[i]]
                 \/ color'[d] = "black"
                 \/ i < n - 1 /\ d = path[i + 1]
      <3>1. i \in 1..n /\ i < n
        OBVIOUS
      <3>2. d \in left[path[i]] \/ color[d] = "black" \/ d = path[i + 1]
        BY <1>2, <1>3, <2>3, <3>1 DEF ExploredInv, DepMap
      <3>3. i = n - 1 => path[i + 1] = p
        BY <1>4
      <3>4. QED
        BY <1>6, <3>1, <3>2, <3>3
    <2>4. \A i \in 1..(n - 1) : i < n - 1 => path'[i + 1] = path[i + 1]
      BY <1>5
    <2>5. ASSUME NEW S \in SUBSET Tasks, \A t \in S : color'[t] = "black", S # {}
          PROVE  \E t \in S : deps[t] \cap S = {}
      <3>1. p \notin deps[p]
        BY <1>5, <2>1
      <3>2. \A t \in S \ {p} : color[t] = "black" /\ p \notin deps[t]
        BY <1>2, <1>5, <1>6, <2>5 DEF ExploredInv, DepMap
      <3>3. CASE S = {p}
        BY <3>1, <3>3
      <3>4. CASE S # {p}
        <4>1. S \ {p} # {} /\ S \ {p} \in SUBSET Tasks
          BY <2>5, <3>4
        <4>2. PICK t \in S \ {p} : deps[t] \cap (S \ {p}) = {}
          BY <1>2, <3>2, <4>1 DEF ExploredInv, Acyclic
        <4>3. deps[t] \cap S = {}
          BY <3>2, <4>2
        <4>4. QED
          BY <4>3
      <3>5. QED
        BY <3>3, <3>4
    <2>6. QED
      BY <1>1, <1>5, <2>2, <2>3, <2>4, <2>5 DEF ExploredInv, DepMap, Acyclic
  <1>10. QED
    BY <1>5, <1>7, <1>8, <1>9 DEF CycleInv

LEMMA CycleInvHolds == Spec => []CycleInv
  <1>1. Init => CycleInv
    <2> SUFFICES ASSUME Init
                 PROVE  CycleInv
      OBVIOUS
    <2>1. SearchTyped /\ Len(path) = 0
      BY DEF Init, SearchTyped
    <2>2. PathInv /\ RootsInv /\ FoundInv
      BY <2>1 DEF Init, PathInv, RootsInv, FoundInv
    <2>3. ExploredInv
      BY <2>1 DEF Init, ExploredInv, Acyclic
    <2>4. QED
      BY <2>1, <2>2, <2>3 DEF CycleInv
  <1>2. CycleInv /\ [Next]_vars => CycleInv'
    <2> SUFFICES ASSUME CycleInv, [Next]_vars
                 PROVE  CycleInv'
      OBVIOUS
    <2>1. CASE UNCHANGED vars
      BY <2>1 DEF vars, CycleInv, SearchTyped, PathInv, RootsInv, FoundInv, Ring, ExploredInv,
                  DepMap, Acyclic
    <2>2. QED
      BY <2>1, LeaveKeeps, NextRootKeeps, LookAtKeeps DEF Next
  <1>3. QED
    BY <1>1, <1>2, PTL DEF Spec

\* Every list the search returns is a cycle of the plan: each task depends on the next
\* one, the last on the first, and no task occurs twice.
THEOREM CyclesAreGenuine == Spec => []CyclesGenuine
  <1>1. CycleInv => CyclesGenuine
    BY DEF CycleInv, FoundInv, Ring, CyclesGenuine
  <1>2. QED
    BY <1>1, CycleInvHolds, PTL

\* A search that has ended has found a cycle if and only if the plan has one, though it
\* looks at every dependency only once.
THEOREM SearchIsComplete == Spec => []FindsCycles
  <1>1. CycleInv => FindsCycles
    <2> SUFFICES ASSUME CycleInv, Finished
                 PROVE  cycles # {} <=> HasCycle
      BY DEF FindsCycles
    <2>1. \A t \in Tasks : color[t] = "black"
      <3>1. \A t \in Tasks : color[t] # "gray"
        <4>1. Len(path) = 0
          BY DEF Finished
        <4>2. \A t \in Tasks : color[t] = "gray" => \E i \in 1..Len(path) : path[i] = t
          BY DEF CycleInv, PathInv
        <4>3. ~\E i \in 1..Len(path) : TRUE
          BY <4>1
        <4>4. QED
          BY <4>2, <4>3, Zenon
      <3>2. \A t \in Tasks : color[t] # "white"
        BY DEF CycleInv, RootsInv, Finished
      <3>3. QED
        BY <3>1, <3>2 DEF CycleInv, SearchTyped
    <2>2. ASSUME cycles = {}, NEW S \in SUBSET Tasks, S # {}
          PROVE  \E t \in S : deps[t] \cap S = {}
      BY <2>1, <2>2 DEF CycleInv, ExploredInv, Acyclic
    <2>3. ASSUME NEW c \in cycles
          PROVE  HasCycle
      <3>1. PICK m \in Nat : m = Len(c) /\ m > 0 /\ c \in Seq(Tasks) /\ \A i \in 1..m : c[(i % m) + 1] \in deps[c[i]]
        BY DEF CycleInv, FoundInv, Ring
      <3>2. PICK S \in SUBSET Tasks : S = {c[i] : i \in 1..m}
        <4>1. \A i \in 1..m : c[i] \in Tasks
          BY <3>1
        <4>2. {c[i] : i \in 1..m} \in SUBSET Tasks
          BY <4>1
        <4>3. QED
          BY <4>2
      <3>3. S # {}
        <4>1. 1 \in 1..m
          BY <3>1
        <4>2. c[1] \in S
          BY <3>2, <4>1
        <4>3. QED
          BY <4>2
      <3>4. ASSUME NEW i \in 1..m
            PROVE  deps[c[i]] \cap S # {}
        <4>1. (i % m) + 1 \in 1..m
          BY RingNext
        <4>2. QED
          BY <3>1, <3>2, <4>1
      <3>5. \A t \in S : deps[t] \cap S # {}
        BY <3>2, <3>4
      <3>6. QED
        BY <3>3, <3>5 DEF HasCycle
    <2>4. QED
      BY <2>2, <2>3 DEF HasCycle
  <1>2. QED
    BY <1>1, CycleInvHolds, PTL


----------------------------------------------------------------------------
(* The search comes to an end.                                             *)

\* The dependencies of t that are still to be looked at, and the tasks dfs has not left.
ToLookAt(t) == IF color[t] = "white" THEN DepMap(t) ELSE left[t]
ToLeave == {t \in Tasks : color[t] # "black"}

\* What is left of the search becomes less: a task of the outer loop, a dependency or a task
\* on the path is done with, and nothing comes back.
Shrinks ==
    /\ roots' \subseteq roots /\ ToLeave' \subseteq ToLeave
    /\ \A t \in Tasks : ToLookAt(t)' \subseteq ToLookAt(t)
    /\ \/ roots' # roots
       \/ ToLeave' # ToLeave
       \/ \E t \in Tasks : ToLookAt(t)' # ToLookAt(t)

LEMMA StepShrinks ==
    ASSUME CycleInv, Next
    PROVE  Shrinks
  <1> USE DEF CycleInv, SearchTyped
  <1>1. UNCHANGED deps /\ \A t \in Tasks : DepMap(t)' = DepMap(t)
    BY DEF Next, NextRoot, LookAt, Leave, DepMap
  <1>2. path # <<>> => Top \in Tasks /\ color[Top] = "gray"
    <2> SUFFICES ASSUME path # <<>>
                 PROVE  Top \in Tasks /\ color[Top] = "gray"
      OBVIOUS
    <2>1. Len(path) \in 1..Len(path) /\ Top \in Tasks
      BY DEF Top
    <2>2. QED
      BY <2>1 DEF Top, PathInv
  <1>3. ASSUME NEW t \in Tasks, NextRoot(t)
        PROVE  Shrinks
    <2>1. roots' \subseteq roots /\ roots' # roots
      BY <1>3 DEF NextRoot
    <2>2. CASE color[t] = "white"
      <3>1. /\ color' = [color EXCEPT ![t] = "gray"] /\ left' = [left EXCEPT ![t] = DepMap(t)]
        BY <1>3, <2>2 DEF NextRoot, EnterNode
      <3>2. ToLeave' = ToLeave
        BY <2>2, <3>1 DEF ToLeave
      <3>3. \A u \in Tasks : ToLookAt(u)' = ToLookAt(u)
        BY <1>1, <2>2, <3>1 DEF ToLookAt
      <3>4. QED
        BY <2>1, <3>2, <3>3 DEF Shrinks
    <2>3. CASE color[t] # "white"
      <3>1. UNCHANGED <<color, left>>
        BY <1>3, <2>3 DEF NextRoot
      <3>2. ToLeave' = ToLeave /\ \A u \in Tasks : ToLookAt(u)' = ToLookAt(u)
        BY <1>1, <3>1 DEF ToLeave, ToLookAt
      <3>3. QED
        BY <2>1, <3>2 DEF Shrinks
    <2>4. QED
      BY <2>2, <2>3
  <1>4. ASSUME NEW t \in Tasks, LookAt(t)
        PROVE  Shrinks
    <2>1. /\ Top \in Tasks /\ color[Top] = "gray" /\ t \in left[Top] /\ UNCHANGED roots
      BY <1>2, <1>4 DEF LookAt
    <2>2. CASE color[t] # "white"
      <3>1. UNCHANGED color /\ left' = [left EXCEPT ![Top] = left[Top] \ {t}]
        BY <1>4, <2>2 DEF LookAt
      <3>2. ToLeave' = ToLeave
        BY <3>1 DEF ToLeave
      <3>3. \A u \in Tasks : ToLookAt(u)' = IF u = Top THEN left[Top] \ {t} ELSE ToLookAt(u)
        BY <1>1, <2>1, <3>1 DEF ToLookAt
      <3>4. ToLookAt(Top) = left[Top]
        BY <2>1 DEF ToLookAt
      <3>5. QED
        BY <2>1, <3>2, <3>3, <3>4 DEF Shrinks
    <2>3. CASE color[t] = "white"
      <3>1. /\ color' = [color EXCEPT ![t] = "gray"] /\ t # Top
            /\ left' = [left EXCEPT ![Top] = left[Top] \ {t}, ![t] = DepMap(t)]
        BY <1>4, <2>1, <2>3 DEF LookAt, EnterNode
      <3>2. ToLeave' = ToLeave
        BY <2>3, <3>1 DEF ToLeave
      <3>3. \A u \in Tasks : ToLookAt(u)' = IF u = Top THEN left[Top] \ {t} ELSE ToLookAt(u)
        BY <1>1, <2>1, <2>3, <3>1 DEF ToLookAt
      <3>4. ToLookAt(Top) = left[Top]
        BY <2>1 DEF ToLookAt
      <3>5. QED
        BY <2>1, <3>2, <3>3, <3>4 DEF Shrinks
    <2>4. QED
      BY <2>2, <2>3
  <1>5. CASE Leave
    <2>1. /\ Top \in Tasks /\ color[Top] = "gray" /\ UNCHANGED <<roots, left>>
          /\ color' = [color EXCEPT ![Top] = "black"]
      BY <1>2, <1>5 DEF Leave
    <2>2. ToLeave' = ToLeave \ {Top} /\ Top \in ToLeave
      BY <2>1 DEF ToLeave
    <2>3. \A u \in Tasks : ToLookAt(u)' = ToLookAt(u)
      BY <1>1, <2>1 DEF ToLookAt
    <2>4. QED
      BY <2>1, <2>2, <2>3 DEF Shrinks
  <1>6. QED
    BY <1>3, <1>4, <1>5 DEF Next

\* Every step of the search leaves less to do, so a search of finitely many tasks ends: no
\* cycle keeps it going.
THEOREM SearchAdvances == Spec => [][Shrinks]_vars
  <1>1. CycleInv /\ [Next]_vars => [Shrinks]_vars
    BY StepShrinks
  <1>2. QED
    BY <1>1, CycleInvHolds, PTL DEF Spec

----------------------------------------------------------------------------
(* The values of JSON.                                                     *)

\* Some numbers have a least one.
LEMMA LeastIsThere ==
    ASSUME NEW S, S \subseteq Nat, S # {}
    PROVE  \E x \in S : \A y \in S : x <= y
  <1> DEFINE R == {ss \in Nat \X Nat : ss[1] < ss[2]}
  <1>1. PICK x \in S : \A y \in S : ~(<<y, x>> \in R)
    <2>1. IsWellFoundedOn(R, Nat)
      BY NatLessThanWellFounded DEF OpToRel
    <2> HIDE DEF R
    <2>2. QED
      BY <2>1, WFMin
  <1>2. ASSUME NEW y \in S
        PROVE  x <= y
    <2>1. <<y, x>> \notin R /\ <<y, x>> \in Nat \X Nat
      BY <1>1
    <2>2. QED
      BY <2>1
  <1>3. QED
    BY <1>2

\* Some numbers up to n have a greatest one.
LEMMA GreatestIsThere ==
    ASSUME NEW n \in Nat, NEW S, S \subseteq 1..n, S # {}
    PROVE  \E x \in S : \A y \in S : x >= y
  <1> DEFINE T == {n - y : y \in S}
  <1>1. T \subseteq Nat /\ T # {}
    OBVIOUS
  <1>2. PICK t \in T : \A y \in T : t <= y
    BY <1>1, LeastIsThere
  <1>3. PICK x \in S : t = n - x
    BY <1>2
  <1>4. ASSUME NEW y \in S
        PROVE  x >= y
    <2>1. t <= n - y
      BY <1>2
    <2>2. QED
      BY <1>3, <2>1
  <1>5. QED
    BY <1>4

\* The items whose first value has k tokens, and all items of n tokens, given the shorter
\* ones.
Joined(V, M) == {v \o m : v \in V, m \in M}
Sized(f, k) ==
    IF k = 1 THEN {<<"scalar">>} ELSE Quoted(k) \cup Braced(f[k - 2]) \cup Bracketed(f[k - 2])
Part(f, n, k) == Joined(Sized(f, k), f[n - k])
Grown(f, n) == IF n = 0 THEN {<<>>} ELSE UNION {Part(f, n, k) : k \in 1..n}

LEMMA GrownAgrees ==
    ASSUME NEW f, NEW g, NEW n \in Nat, \A i \in 0..(n - 1) : f[i] = g[i]
    PROVE  Grown(f, n) = Grown(g, n)
  <1>1. ASSUME NEW k \in 1..n
        PROVE  Part(f, n, k) = Part(g, n, k)
    <2>1. n - k \in 0..(n - 1) /\ (k # 1 => k - 2 \in 0..(n - 1))
      OBVIOUS
    <2>2. f[n - k] = g[n - k] /\ (k # 1 => f[k - 2] = g[k - 2])
      BY <2>1
    <2>3. Sized(f, k) = Sized(g, k)
      BY <2>2, Zenon DEF Sized
    <2>4. QED
      BY <2>2, <2>3 DEF Part
  <1>2. {Part(f, n, k) : k \in 1..n} = {Part(g, n, k) : k \in 1..n}
    BY <1>1, Zenon
  <1>3. QED
    BY <1>2 DEF Grown

\* The items up to n tokens are defined.
Defines(f, n) == f = [i \in 0..n |-> Grown(f, i)]

LEMMA ItemsAreDefined == Defines(Items, MaxTokens)
  <1> DEFINE S == {n \in 0..MaxTokens : ~\E f : Defines(f, n)}
  <1>1. S = {}
    <2>1. SUFFICES ASSUME S # {}
                   PROVE  FALSE
      OBVIOUS
    <2>2. S \subseteq Nat
      BY MaxTokensAssumption
    <2>3. PICK n \in S : \A i \in S : n <= i
      BY <2>1, <2>2, LeastIsThere
    <2>4. n \in Nat /\ n <= MaxTokens
      BY <2>2, MaxTokensAssumption
    <2>5. CASE n = 0
      <3>1. PICK f : f = [i \in 0..0 |-> {<<>>}]
        OBVIOUS
      <3>2. \A i \in 0..0 : Grown(f, i) = {<<>>}
        BY DEF Grown
      <3>3. Defines(f, n)
        BY <2>5, <3>1, <3>2 DEF Defines
      <3>4. QED
        BY <3>3
    <2>6. CASE n # 0
      <3>1. n - 1 \in 0..MaxTokens /\ n - 1 \notin S
        BY <2>3, <2>4, <2>6, MaxTokensAssumption
      <3>2. PICK f : Defines(f, n - 1)
        BY <3>1
      <3>3. PICK g : g = [i \in 0..n |-> IF i = n THEN Grown(f, n) ELSE f[i]]
        OBVIOUS
      <3>4. ASSUME NEW i \in 0..n
            PROVE  g[i] = Grown(g, i)
        <4>1. \A j \in 0..(i - 1) : g[j] = f[j]
          BY <2>4, <3>3
        <4>2. Grown(g, i) = Grown(f, i)
          BY <2>4, <4>1, GrownAgrees
        <4>3. CASE i = n
          BY <2>4, <3>3, <4>2, <4>3
        <4>4. CASE i # n
          <5>1. i \in 0..(n - 1) /\ g[i] = f[i]
            BY <2>4, <3>3, <4>4
          <5>2. QED
            BY <3>2, <4>2, <5>1 DEF Defines
        <4>5. QED
          BY <4>3, <4>4
      <3>5. Defines(g, n)
        BY <3>3, <3>4 DEF Defines
      <3>6. QED
        BY <3>5
    <2>7. QED
      BY <2>5, <2>6
  <1>2. MaxTokens \in 0..MaxTokens
    BY MaxTokensAssumption
  <1>3. \E f : Defines(f, MaxTokens)
    BY <1>1, <1>2
  <1>4. Items = CHOOSE f : Defines(f, MaxTokens)
    BY DEF Items, Defines, Grown, Part, Joined, Sized
  <1>5. QED
    BY <1>3, <1>4, Zenon

LEMMA ItemsAre ==
    ASSUME NEW n \in 0..MaxTokens
    PROVE  Items[n] = Grown(Items, n)
  BY ItemsAreDefined, Zenon DEF Defines

----------------------------------------------------------------------------
(* Braces, brackets and quotes match.                                      *)

\* What a token adds to the depth of a text, and whether what follows it is in a string
\* (1) or not (0), given whether the token itself is: in a string only its end counts.
Weight(q, token) ==
    CASE token = "quote" /\ q = 1 -> -1
      [] token = "quote" /\ q # 1 -> 1
      [] token \in {"open", "sopen"} /\ q # 1 -> 1
      [] token \in {"close", "sclose"} /\ q # 1 -> -1
      [] OTHER -> 0
Flip(q, token) == IF token = "quote" THEN 1 - q ELSE q

\* How deep a text is after each of its tokens, and whether it is in a string there.
Depths(x, d, q) ==
    /\ d \in [0..Len(x) -> Int] /\ d[0] = 0
    /\ q \in [0..Len(x) -> 0..1] /\ q[0] = 0
    /\ \A i \in 1..Len(x) : /\ d[i] = d[i - 1] + Weight(q[i - 1], x[i])
                           /\ q[i] = Flip(q[i - 1], x[i])

Balanced(x) ==
    \E d, q : /\ Depths(x, d, q) /\ d[Len(x)] = 0 /\ q[Len(x)] = 0
              /\ \A i \in 0..Len(x) : d[i] >= 0

\* A text that is balanced at its end and nowhere before.
Closed(x) ==
    /\ x \in Seq(Tokens) /\ Len(x) > 1 /\ x[1] \in {"open", "sopen", "quote"}
    /\ \E d, q : /\ Depths(x, d, q) /\ d[Len(x)] = 0 /\ q[Len(x)] = 0
                 /\ \A i \in 1..(Len(x) - 1) : d[i] > 0

LEMMA EmptyBalanced == <<>> \in Seq(Tokens) /\ Balanced(<<>>)
  <1>1. PICK d : d = [i \in 0..0 |-> 0]
    OBVIOUS
  <1>2. Len(<<>>) = 0
    OBVIOUS
  <1>3. Depths(<<>>, d, d)
    BY <1>1, <1>2 DEF Depths
  <1>4. QED
    BY <1>1, <1>2, <1>3 DEF Balanced

LEMMA ScalarBalanced == <<"scalar">> \in Seq(Tokens) /\ Balanced(<<"scalar">>)
  <1>1. PICK d : d = [i \in 0..1 |-> 0]
    OBVIOUS
  <1>2. PICK x : x = <<"scalar">>
    OBVIOUS
  <1>3. /\ x \in Seq(Tokens) /\ Len(x) = 1 /\ x[1] = "scalar"
        /\ Weight(0, "scalar") = 0 /\ Flip(0, "scalar") = 0
    BY <1>2 DEF Tokens, Weight, Flip
  <1>4. Depths(x, d, d)
    BY <1>1, <1>3 DEF Depths
  <1>5. Balanced(x)
    BY <1>1, <1>3, <1>4 DEF Balanced
  <1>6. QED
    BY <1>2, <1>3, <1>5

LEMMA ConcatParts ==
    ASSUME NEW a \in Seq(Tokens), NEW b \in Seq(Tokens)
    PROVE  /\ a \o b \in Seq(Tokens) /\ Len(a \o b) = Len(a) + Len(b)
           /\ \A i \in 1..Len(a) : (a \o b)[i] = a[i]
           /\ \A i \in (Len(a) + 1)..(Len(a) + Len(b)) : (a \o b)[i] = b[i - Len(a)]
  OBVIOUS

LEMMA ConcatBalanced ==
    ASSUME NEW a \in Seq(Tokens), NEW b \in Seq(Tokens), Balanced(a), Balanced(b)
    PROVE  a \o b \in Seq(Tokens) /\ Balanced(a \o b)
  <1>1. PICK m \in Nat, n \in Nat : m = Len(a) /\ n = Len(b)
    OBVIOUS
  <1>2. PICK x : x = a \o b
    OBVIOUS
  <1>3. /\ x \in Seq(Tokens) /\ Len(x) = m + n
        /\ \A i \in 1..m : x[i] = a[i]
        /\ \A i \in (m + 1)..(m + n) : x[i] = b[i - m]
    BY <1>1, <1>2, ConcatParts
  <1>4. PICK d, q : /\ d \in [0..m -> Int] /\ d[0] = 0 /\ d[m] = 0
                    /\ q \in [0..m -> 0..1] /\ q[0] = 0 /\ q[m] = 0
                    /\ \A i \in 1..m : /\ d[i] = d[i - 1] + Weight(q[i - 1], a[i])
                                      /\ q[i] = Flip(q[i - 1], a[i])
                    /\ \A i \in 0..m : d[i] >= 0
    BY <1>1 DEF Balanced, Depths
  <1>5. PICK e, r : /\ e \in [0..n -> Int] /\ e[0] = 0 /\ e[n] = 0
                    /\ r \in [0..n -> 0..1] /\ r[0] = 0 /\ r[n] = 0
                    /\ \A i \in 1..n : /\ e[i] = e[i - 1] + Weight(r[i - 1], b[i])
                                      /\ r[i] = Flip(r[i - 1], b[i])
                    /\ \A i \in 0..n : e[i] >= 0
    BY <1>1 DEF Balanced, Depths
  <1>6. PICK f, g : /\ f = [i \in 0..(m + n) |-> IF i <= m THEN d[i] ELSE e[i - m]]
                    /\ g = [i \in 0..(m + n) |-> IF i <= m THEN q[i] ELSE r[i - m]]
    OBVIOUS
  <1>7. \A i \in 0..(m + n) : /\ f[i] = IF i <= m THEN d[i] ELSE e[i - m]
                             /\ g[i] = IF i <= m THEN q[i] ELSE r[i - m]
    BY <1>6
  <1>8. /\ f \in [0..(m + n) -> Int] /\ \A i \in 0..(m + n) : f[i] >= 0
        /\ g \in [0..(m + n) -> 0..1]
    <2>1. ASSUME NEW i \in 0..(m + n)
          PROVE  f[i] \in Int /\ f[i] >= 0 /\ g[i] \in 0..1
      <3>1. CASE i <= m
        BY <1>4, <1>7, <3>1
      <3>2. CASE i > m
        <4>1. i - m \in 0..n
          BY <3>2
        <4>2. QED
          BY <1>5, <1>7, <3>2, <4>1
      <3>3. QED
        BY <3>1, <3>2
    <2>2. QED
      BY <1>6, <2>1
  <1>9. ASSUME NEW i \in 1..(m + n)
        PROVE  f[i] = f[i - 1] + Weight(g[i - 1], x[i]) /\ g[i] = Flip(g[i - 1], x[i])
    <2>1. CASE i <= m
      <3>1. /\ i \in 1..m /\ f[i] = d[i] /\ f[i - 1] = d[i - 1] /\ x[i] = a[i]
            /\ g[i] = q[i] /\ g[i - 1] = q[i - 1]
        BY <1>3, <1>7, <2>1
      <3>2. QED
        BY <1>4, <3>1
    <2>2. CASE i > m
      <3>1. i - m \in 1..n /\ i \in (m + 1)..(m + n) /\ (i - m) - 1 = (i - 1) - m
        BY <2>2
      <3>2. f[i] = e[i - m] /\ g[i] = r[i - m] /\ x[i] = b[i - m]
        BY <1>3, <1>7, <2>2, <3>1
      <3>3. f[i - 1] = e[(i - m) - 1] /\ g[i - 1] = r[(i - m) - 1]
        <4>1. CASE i - 1 = m
          <5>1. (i - m) - 1 = 0 /\ i - 1 \in 0..(m + n) /\ i - 1 <= m
            BY <3>1, <4>1
          <5>2. f[i - 1] = d[m] /\ g[i - 1] = q[m]
            BY <1>7, <4>1, <5>1
          <5>3. QED
            BY <1>4, <1>5, <5>1, <5>2
        <4>2. CASE i - 1 # m
          <5>1. i - 1 \in 0..(m + n) /\ ~(i - 1 <= m)
            BY <2>2, <4>2
          <5>2. QED
            BY <1>7, <3>1, <5>1
        <4>3. QED
          BY <4>1, <4>2
      <3>4. QED
        BY <1>5, <3>1, <3>2, <3>3
    <2>3. QED
      BY <2>1, <2>2
  <1>10. f[0] = 0 /\ f[m + n] = 0 /\ g[0] = 0 /\ g[m + n] = 0
    <2>1. CASE n = 0
      BY <1>4, <1>7, <2>1
    <2>2. CASE n # 0
      <3>1. ~(m + n <= m) /\ (m + n) - m = n /\ m + n \in 0..(m + n)
        BY <2>2
      <3>2. QED
        BY <1>4, <1>5, <1>7, <3>1
    <2>3. QED
      BY <2>1, <2>2
  <1>11. Depths(x, f, g)
    BY <1>3, <1>8, <1>9, <1>10 DEF Depths
  <1>12. Balanced(x)
    BY <1>3, <1>8, <1>10, <1>11 DEF Balanced
  <1>13. QED
    BY <1>2, <1>3, <1>12

\* A token on each side of a text.
LEMMA Around ==
    ASSUME NEW l \in Tokens, NEW r \in Tokens, NEW m \in Seq(Tokens)
    PROVE  /\ <<l>> \o m \o <<r>> \in Seq(Tokens)
           /\ Len(<<l>> \o m \o <<r>>) = Len(m) + 2
           /\ (<<l>> \o m \o <<r>>)[1] = l /\ (<<l>> \o m \o <<r>>)[Len(m) + 2] = r
           /\ \A i \in 2..(Len(m) + 1) : (<<l>> \o m \o <<r>>)[i] = m[i - 1]
  <1>1. PICK n \in Nat : n = Len(m)
    OBVIOUS
  <1>2. PICK y : y = <<l>> \o m
    OBVIOUS
  <1>3. /\ <<l>> \in Seq(Tokens) /\ Len(<<l>>) = 1 /\ <<l>>[1] = l
        /\ <<r>> \in Seq(Tokens) /\ Len(<<r>>) = 1 /\ <<r>>[1] = r
    OBVIOUS
  <1>4. /\ y \in Seq(Tokens) /\ Len(y) = n + 1 /\ y[1] = l
        /\ \A i \in 2..(n + 1) : y[i] = m[i - 1]
    BY <1>1, <1>2, <1>3, ConcatParts
  <1>5. /\ y \o <<r>> \in Seq(Tokens) /\ Len(y \o <<r>>) = n + 2
        /\ \A i \in 1..(n + 1) : (y \o <<r>>)[i] = y[i]
        /\ (y \o <<r>>)[n + 2] = r
    BY <1>3, <1>4, ConcatParts
  <1>6. QED
    BY <1>1, <1>2, <1>4, <1>5

\* Braces or brackets around a balanced text.
LEMMA BracedClosed ==
    ASSUME NEW l \in {"open", "sopen"}, NEW r \in {"close", "sclose"},
           NEW m \in Seq(Tokens), Balanced(m)
    PROVE  Closed(<<l>> \o m \o <<r>>)
  <1>1. PICK n \in Nat : n = Len(m)
    OBVIOUS
  <1>2. PICK x : x = <<l>> \o m \o <<r>>
    OBVIOUS
  <1>3. /\ x \in Seq(Tokens) /\ Len(x) = n + 2
        /\ x[1] = l /\ x[n + 2] = r
        /\ \A i \in 2..(n + 1) : x[i] = m[i - 1]
    <2>1. l \in Tokens /\ r \in Tokens
      BY DEF Tokens
    <2>2. QED
      BY <1>1, <1>2, <2>1, Around
  <1>4. PICK d, q : /\ d \in [0..n -> Int] /\ d[0] = 0 /\ d[n] = 0
                    /\ q \in [0..n -> 0..1] /\ q[0] = 0 /\ q[n] = 0
                    /\ \A i \in 1..n : /\ d[i] = d[i - 1] + Weight(q[i - 1], m[i])
                                      /\ q[i] = Flip(q[i - 1], m[i])
                    /\ \A i \in 0..n : d[i] >= 0
    BY <1>1 DEF Balanced, Depths
  <1>5. PICK f, g :
           /\ f = [i \in 0..(n + 2) |-> IF i = 0 \/ i = n + 2 THEN 0 ELSE d[i - 1] + 1]
           /\ g = [i \in 0..(n + 2) |-> IF i = 0 \/ i = n + 2 THEN 0 ELSE q[i - 1]]
    OBVIOUS
  <1>6. /\ f[0] = 0 /\ f[n + 2] = 0 /\ g[0] = 0 /\ g[n + 2] = 0
        /\ \A i \in 1..(n + 1) : f[i] = d[i - 1] + 1 /\ g[i] = q[i - 1]
    BY <1>5
  <1>7. \A i \in 1..(n + 1) : d[i - 1] \in Int /\ d[i - 1] >= 0 /\ q[i - 1] \in 0..1
    BY <1>4
  <1>8. /\ f \in [0..(n + 2) -> Int] /\ \A i \in 1..(n + 1) : f[i] > 0
        /\ g \in [0..(n + 2) -> 0..1]
    BY <1>5, <1>6, <1>7
  <1>9. Weight(0, l) = 1 /\ Weight(0, r) = -1 /\ Flip(0, l) = 0 /\ Flip(0, r) = 0
    BY DEF Weight, Flip
  <1>10. ASSUME NEW i \in 1..(n + 2)
         PROVE  f[i] = f[i - 1] + Weight(g[i - 1], x[i]) /\ g[i] = Flip(g[i - 1], x[i])
    <2>1. CASE i = 1
      BY <1>3, <1>4, <1>6, <1>9, <2>1
    <2>2. CASE i = n + 2
      <3>1. f[n + 1] = d[n] + 1 /\ g[n + 1] = q[n]
        BY <1>6
      <3>2. QED
        BY <1>3, <1>4, <1>6, <1>9, <2>2, <3>1
    <2>3. CASE i # 1 /\ i # n + 2
      <3>1. i \in 2..(n + 1) /\ i - 1 \in 1..n /\ i - 1 \in 1..(n + 1) /\ i \in 1..(n + 1)
        BY <2>3
      <3>2. PICK j \in 1..n : j = i - 1
        BY <3>1
      <3>3. /\ f[i] = d[j] + 1 /\ f[i - 1] = d[j - 1] + 1 /\ x[i] = m[j]
            /\ g[i] = q[j] /\ g[i - 1] = q[j - 1]
        BY <1>3, <1>6, <3>1, <3>2
      <3>4. /\ d[j] = d[j - 1] + Weight(q[j - 1], m[j]) /\ d[j - 1] \in Int
            /\ q[j] = Flip(q[j - 1], m[j])
        BY <1>4
      <3>5. Weight(q[j - 1], m[j]) \in Int
        BY DEF Weight
      <3>6. QED
        BY <3>3, <3>4, <3>5
    <2>4. QED
      BY <2>1, <2>2, <2>3
  <1>11. Depths(x, f, g)
    BY <1>3, <1>6, <1>8, <1>10 DEF Depths
  <1>12. Closed(x)
    BY <1>3, <1>6, <1>8, <1>11 DEF Closed
  <1>13. QED
    BY <1>2, <1>12

\* A string of n tokens.
LEMMA QuotedClosed ==
    ASSUME NEW n \in Nat, n > 1, NEW x \in Quoted(n)
    PROVE  Closed(x) /\ x[1] = "quote"
  <1>1. PICK s \in [1..(n - 2) -> Tokens \ {"quote", "fence"}] :
           x = <<"quote">> \o s \o <<"quote">>
    BY DEF Quoted
  <1>2. s \in Seq(Tokens) /\ Len(s) = n - 2 /\ \A i \in 1..(n - 2) : s[i] # "quote"
    <2>1. n - 2 \in Nat
      OBVIOUS
    <2>2. QED
      BY <1>1, <2>1
  <1>3. /\ x \in Seq(Tokens) /\ Len(x) = n /\ x[1] = "quote" /\ x[n] = "quote"
        /\ \A i \in 2..(n - 1) : x[i] # "quote"
    <2>1. "quote" \in Tokens
      BY DEF Tokens
    <2>2. /\ x \in Seq(Tokens) /\ Len(x) = n /\ x[1] = "quote" /\ x[n] = "quote"
          /\ \A i \in 2..(n - 1) : x[i] = s[i - 1]
      BY <1>1, <1>2, <2>1, Around
    <2>3. \A i \in 2..(n - 1) : i - 1 \in 1..(n - 2)
      OBVIOUS
    <2>4. QED
      BY <1>2, <2>2, <2>3
  <1>4. PICK d : d = [i \in 0..n |-> IF i = 0 \/ i = n THEN 0 ELSE 1]
    OBVIOUS
  <1>5. /\ Weight(0, "quote") = 1 /\ Weight(1, "quote") = -1
        /\ Flip(0, "quote") = 1 /\ Flip(1, "quote") = 0
        /\ \A t : t # "quote" => Weight(1, t) = 0 /\ Flip(1, t) = 1
    BY DEF Weight, Flip
  <1>6. ASSUME NEW i \in 1..n
        PROVE  d[i] = d[i - 1] + Weight(d[i - 1], x[i]) /\ d[i] = Flip(d[i - 1], x[i])
    <2>1. CASE i = 1
      BY <1>3, <1>4, <1>5, <2>1
    <2>2. CASE i = n
      <3>1. d[n - 1] = 1 /\ d[n] = 0
        BY <1>4
      <3>2. QED
        BY <1>3, <1>5, <2>2, <3>1
    <2>3. CASE i # 1 /\ i # n
      <3>1. d[i] = 1 /\ d[i - 1] = 1 /\ i \in 2..(n - 1)
        BY <1>4, <2>3
      <3>2. Weight(1, x[i]) = 0 /\ Flip(1, x[i]) = 1
        BY <1>3, <1>5, <3>1
      <3>3. QED
        BY <3>1, <3>2
    <2>4. QED
      BY <2>1, <2>2, <2>3
  <1>7. /\ d \in [0..n -> Int] /\ d \in [0..n -> 0..1] /\ d[0] = 0 /\ d[n] = 0
        /\ \A i \in 1..(n - 1) : d[i] > 0
    BY <1>4
  <1>8. Depths(x, d, d)
    BY <1>3, <1>6, <1>7 DEF Depths
  <1>9. QED
    BY <1>3, <1>7, <1>8 DEF Closed

LEMMA ClosedBalanced ==
    ASSUME NEW x, Closed(x)
    PROVE  x \in Seq(Tokens) /\ Balanced(x)
  <1>1. PICK n \in Nat : n = Len(x)
    BY DEF Closed
  <1>2. PICK d, q : /\ Depths(x, d, q) /\ d[n] = 0 /\ q[n] = 0
                    /\ \A i \in 1..(n - 1) : d[i] > 0
    BY <1>1 DEF Closed
  <1>3. \A i \in 0..n : d[i] >= 0
    BY <1>1, <1>2 DEF Depths
  <1>4. QED
    BY <1>1, <1>2, <1>3 DEF Closed, Balanced

\* The end of such a text is the only place in it where it is balanced.
LEMMA ClosedOnce ==
    ASSUME NEW x, NEW y, Closed(x), Closed(y), Len(y) <= Len(x),
           \A i \in 1..Len(y) : y[i] = x[i]
    PROVE  Len(y) = Len(x)
  <1>1. PICK m \in Nat, n \in Nat : m = Len(x) /\ n = Len(y) /\ n > 1 /\ n <= m
    BY DEF Closed
  <1>2. PICK d, q : /\ d \in [0..m -> Int] /\ d[0] = 0 /\ q[0] = 0
                    /\ \A i \in 1..m : /\ d[i] = d[i - 1] + Weight(q[i - 1], x[i])
                                      /\ q[i] = Flip(q[i - 1], x[i])
                    /\ \A i \in 1..(m - 1) : d[i] > 0
    <2>1. \E d, q : /\ Depths(x, d, q) /\ d[m] = 0 /\ q[m] = 0
                    /\ \A i \in 1..(m - 1) : d[i] > 0
      BY <1>1 DEF Closed
    <2>2. QED
      BY <1>1, <2>1 DEF Depths
  <1>3. PICK e, r : Depths(y, e, r) /\ e[n] = 0
    BY <1>1 DEF Closed
  <1>4. /\ e \in [0..n -> Int] /\ e[0] = 0 /\ r[0] = 0
        /\ \A i \in 1..n : /\ e[i] = e[i - 1] + Weight(r[i - 1], y[i])
                          /\ r[i] = Flip(r[i - 1], y[i])
    BY <1>1, <1>3 DEF Depths
  <1> DEFINE S == {i \in 0..n : d[i] # e[i] \/ q[i] # r[i]}
  <1>5. S = {}
    <2>1. SUFFICES ASSUME S # {}
                   PROVE  FALSE
      OBVIOUS
    <2>2. S \subseteq Nat
      OBVIOUS
    <2>3. PICK k \in S : \A i \in S : k <= i
      BY <2>1, <2>2, LeastIsThere
    <2>4. k \in 1..n /\ (d[k] # e[k] \/ q[k] # r[k])
      BY <1>2, <1>4, <2>3
    <2>5. k - 1 \in 0..n /\ k - 1 \notin S
      BY <2>3, <2>4
    <2>6. d[k - 1] = e[k - 1] /\ q[k - 1] = r[k - 1] /\ x[k] = y[k]
      BY <1>1, <2>4, <2>5
    <2>7. /\ d[k] = d[k - 1] + Weight(q[k - 1], x[k]) /\ q[k] = Flip(q[k - 1], x[k])
          /\ e[k] = e[k - 1] + Weight(r[k - 1], y[k]) /\ r[k] = Flip(r[k - 1], y[k])
      BY <1>1, <1>2, <1>4, <2>4
    <2>8. QED
      BY <2>4, <2>6, <2>7
  <1>6. d[n] = 0
    BY <1>1, <1>3, <1>5
  <1>7. QED
    BY <1>1, <1>2, <1>6

LEMMA ItemsBalanced ==
    \A n \in 0..MaxTokens : \A m \in Items[n] : m \in Seq(Tokens) /\ Balanced(m)
  <1> DEFINE S == {n \in 0..MaxTokens :
                      ~\A m \in Items[n] : m \in Seq(Tokens) /\ Balanced(m)}
  <1>1. SUFFICES ASSUME S # {}
                 PROVE  FALSE
    OBVIOUS
  <1>2. S \subseteq Nat
    BY MaxTokensAssumption
  <1>3. PICK n \in S : \A i \in S : n <= i
    BY <1>1, <1>2, LeastIsThere
  <1>4. ASSUME NEW i \in Nat, i < n, NEW m \in Items[i]
        PROVE  m \in Seq(Tokens) /\ Balanced(m)
    BY <1>2, <1>3, <1>4, MaxTokensAssumption
  <1>5. PICK m \in Items[n] : ~(m \in Seq(Tokens) /\ Balanced(m))
    OBVIOUS
  <1>6. m \in Grown(Items, n) /\ n \in Nat
    BY <1>2, <1>5, ItemsAre
  <1>7. CASE n = 0
    <2>1. m = <<>>
      BY <1>6, <1>7 DEF Grown
    <2>2. QED
      BY <1>5, <2>1, EmptyBalanced
  <1>8. CASE n # 0
    <2>1. PICK k \in 1..n : m \in Part(Items, n, k)
      BY <1>6, <1>8 DEF Grown
    <2>2. PICK v \in Sized(Items, k), w \in Items[n - k] : m = v \o w
      BY <2>1 DEF Part, Joined
    <2>3. w \in Seq(Tokens) /\ Balanced(w)
      BY <1>4, <1>6, <2>1, <2>2
    <2>4. v \in Seq(Tokens) /\ Balanced(v)
      <3>1. CASE k = 1
        BY <2>2, <3>1, ScalarBalanced DEF Sized
      <3>2. CASE k # 1 /\ v \in Quoted(k)
        BY <3>2, QuotedClosed, ClosedBalanced
      <3>3. CASE k # 1 /\ v \in Braced(Items[k - 2]) \cup Bracketed(Items[k - 2])
        <4>1. PICK inner \in Items[k - 2], l \in {"open", "sopen"}, r \in {"close", "sclose"} :
                 v = <<l>> \o inner \o <<r>>
          BY <3>3 DEF Braced, Bracketed
        <4>2. inner \in Seq(Tokens) /\ Balanced(inner)
          BY <1>4, <1>6, <2>1, <3>3, <4>1
        <4>3. QED
          BY <4>1, <4>2, BracedClosed, ClosedBalanced
      <3>4. QED
        BY <2>2, <3>1, <3>2, <3>3 DEF Sized
    <2>5. QED
      BY <1>5, <2>2, <2>3, <2>4, ConcatBalanced
  <1>9. QED
    BY <1>7, <1>8

\* An object or an array is balanced at its end and nowhere before.
LEMMA WrappedAreClosed ==
    ASSUME NEW x
    PROVE  /\ x \in Objects => Closed(x) /\ x[1] = "open"
           /\ x \in Arrays => Closed(x) /\ x[1] = "sopen"
  <1>1. ASSUME NEW n \in 0..(MaxTokens - 2), NEW m \in Items[n]
        PROVE  m \in Seq(Tokens) /\ Balanced(m)
    <2>1. n \in 0..MaxTokens
      BY MaxTokensAssumption
    <2>2. QED
      BY <2>1, ItemsBalanced
  <1>2. "open" \in Tokens /\ "sopen" \in Tokens /\ "close" \in Tokens /\ "sclose" \in Tokens
    BY DEF Tokens
  <1>3. ASSUME x \in Objects
        PROVE  Closed(x) /\ x[1] = "open"
    <2>1. PICK n \in 0..(MaxTokens - 2) : x \in Braced(Items[n])
      BY <1>3 DEF Objects
    <2>2. PICK m \in Items[n] : x = <<"open">> \o m \o <<"close">>
      BY <2>1 DEF Braced
    <2>3. QED
      BY <1>1, <1>2, <2>2, BracedClosed, Around
  <1>4. ASSUME x \in Arrays
        PROVE  Closed(x) /\ x[1] = "sopen"
    <2>1. PICK n \in 0..(MaxTokens - 2) : x \in Bracketed(Items[n])
      BY <1>4 DEF Arrays
    <2>2. PICK m \in Items[n] : x = <<"sopen">> \o m \o <<"sclose">>
      BY <2>1 DEF Bracketed
    <2>3. QED
      BY <1>1, <1>2, <2>2, BracedClosed, Around
  <1>5. QED
    BY <1>3, <1>4

----------------------------------------------------------------------------
(* Reading a text.                                                         *)

LEMMA MinIs ==
    ASSUME NEW n \in Nat, NEW S, S \subseteq 1..n, S # {}
    PROVE  Min(S) \in S /\ \A y \in S : Min(S) <= y
  <1>1. S \subseteq Nat
    OBVIOUS
  <1>2. \E x \in S : \A y \in S : x <= y
    BY <1>1, LeastIsThere
  <1>3. QED
    BY <1>2 DEF Min

LEMMA MaxIs ==
    ASSUME NEW n \in Nat, NEW S, S \subseteq 1..n, S # {}
    PROVE  Max(S) \in S /\ \A y \in S : Max(S) >= y
  <1>1. \E x \in S : \A y \in S : x >= y
    BY GreatestIsThere
  <1>2. QED
    BY <1>1 DEF Max

LEMMA PartOfText ==
    ASSUME NEW x \in Seq(Tokens), NEW a \in 1..Len(x), NEW b \in a..Len(x)
    PROVE  /\ SubSeq(x, a, b) \in Seq(Tokens) /\ Len(SubSeq(x, a, b)) = b - a + 1
           /\ \A i \in 1..(b - a + 1) : SubSeq(x, a, b)[i] = x[a + i - 1]
  OBVIOUS

\* A part of a part.
LEMMA PartOfPart ==
    ASSUME NEW x \in Seq(Tokens), NEW a \in 1..Len(x), NEW b \in a..Len(x),
           NEW c \in 1..(b - a + 1), NEW d \in c..(b - a + 1)
    PROVE  SubSeq(SubSeq(x, a, b), c, d) = SubSeq(x, a + c - 1, a + d - 1)
  <1>1. PICK y : y = SubSeq(x, a, b)
    OBVIOUS
  <1>2. /\ y \in Seq(Tokens) /\ Len(y) = b - a + 1
        /\ \A i \in 1..(b - a + 1) : y[i] = x[a + i - 1]
    BY <1>1, PartOfText
  <1>3. c \in 1..Len(y) /\ d \in c..Len(y)
    BY <1>2
  <1>4. PICK u : u = SubSeq(y, c, d)
    OBVIOUS
  <1>5. /\ u \in Seq(Tokens) /\ Len(u) = d - c + 1
        /\ \A i \in 1..(d - c + 1) : u[i] = y[c + i - 1]
    BY <1>2, <1>3, <1>4, PartOfText
  <1>6. a + c - 1 \in 1..Len(x) /\ a + d - 1 \in (a + c - 1)..Len(x)
    OBVIOUS
  <1>7. PICK v : v = SubSeq(x, a + c - 1, a + d - 1)
    OBVIOUS
  <1>8. /\ v \in Seq(Tokens) /\ Len(v) = (a + d - 1) - (a + c - 1) + 1
        /\ \A i \in 1..((a + d - 1) - (a + c - 1) + 1) : v[i] = x[(a + c - 1) + i - 1]
    BY <1>6, <1>7, PartOfText
  <1>9. ASSUME NEW i \in 1..(d - c + 1)
        PROVE  u[i] = v[i]
    <2>1. c + i - 1 \in 1..(b - a + 1) /\ a + (c + i - 1) - 1 = (a + c - 1) + i - 1
      OBVIOUS
    <2>2. u[i] = x[a + (c + i - 1) - 1]
      BY <1>2, <1>5, <2>1
    <2>3. v[i] = x[(a + c - 1) + i - 1]
      <3>1. PICK n : n = (a + d - 1) - (a + c - 1) + 1
        OBVIOUS
      <3>2. n = d - c + 1
        BY <3>1
      <3>3. \A j \in 1..n : v[j] = x[(a + c - 1) + j - 1]
        BY <1>8, <3>1, Zenon
      <3>4. i \in 1..n
        BY <3>2
      <3>5. QED
        BY <3>3, <3>4, Zenon
    <2>4. x[a + (c + i - 1) - 1] = x[(a + c - 1) + i - 1]
      <3>1. PICK k : k = a + (c + i - 1) - 1
        OBVIOUS
      <3>2. k = (a + c - 1) + i - 1
        BY <2>1, <3>1
      <3>3. QED
        BY <3>1, <3>2, Zenon
    <2>5. QED
      BY <2>2, <2>3, <2>4, Zenon
  <1>10. u = v
    BY <1>5, <1>8, <1>9
  <1>11. QED
    BY <1>1, <1>4, <1>7, <1>10

\* A value is a text; it is an object if and only if it begins with a brace.
LEMMA ValuesAre ==
    ASSUME NEW v \in Values
    PROVE  /\ v \in Seq(Tokens) /\ Len(v) > 0 /\ v # None
           /\ \/ v[1] = "scalar" /\ Len(v) = 1 /\ v \notin Objects
              \/ Closed(v) /\ v[1] \in {"sopen", "quote"} /\ v \notin Objects
              \/ Closed(v) /\ v[1] = "open" /\ v \in Objects
  <1>1. v # None
    BY NoneAssumption
  <1>2. v[1] # "open" => v \notin Objects
    BY WrappedAreClosed
  <1>3. CASE v = <<"scalar">>
    <2>1. v \in Seq(Tokens) /\ Len(v) = 1 /\ v[1] = "scalar"
      BY <1>3 DEF Tokens
    <2>2. QED
      BY <1>1, <1>2, <2>1
  <1>4. CASE v \in Strings
    <2>1. PICK n \in 2..MaxTokens : v \in Quoted(n)
      BY <1>4 DEF Strings
    <2>2. n \in Nat /\ n > 1
      BY MaxTokensAssumption
    <2>3. Closed(v) /\ v[1] = "quote"
      BY <2>1, <2>2, QuotedClosed
    <2>4. QED
      BY <1>1, <1>2, <2>3 DEF Closed
  <1>5. CASE v \in Arrays
    <2>1. Closed(v) /\ v[1] = "sopen"
      BY <1>5, WrappedAreClosed
    <2>2. QED
      BY <1>1, <1>2, <2>1 DEF Closed
  <1>6. CASE v \in Objects
    <2>1. Closed(v) /\ v[1] = "open"
      BY <1>6, WrappedAreClosed
    <2>2. QED
      BY <1>1, <1>6, <2>1 DEF Closed
  <1>7. QED
    BY <1>3, <1>4, <1>5, <1>6 DEF Values

\* No value begins another one.
LEMMA OneValue ==
    ASSUME NEW x \in Seq(Tokens), NEW a \in 1..Len(x), NEW b \in a..Len(x), NEW c \in a..Len(x),
           SubSeq(x, a, b) \in Values, SubSeq(x, a, c) \in Values
    PROVE  b = c
  <1>1. PICK u \in Values, v \in Values : u = SubSeq(x, a, b) /\ v = SubSeq(x, a, c)
    OBVIOUS
  <1>2. /\ Len(u) = b - a + 1 /\ \A i \in 1..(b - a + 1) : u[i] = x[a + i - 1]
        /\ Len(v) = c - a + 1 /\ \A i \in 1..(c - a + 1) : v[i] = x[a + i - 1]
    BY <1>1, PartOfText
  <1>3. u[1] = v[1]
    BY <1>2
  <1>4. \/ Len(u) = 1 /\ Len(v) = 1
        \/ Closed(u) /\ Closed(v)
    <2>1. \A w \in Values : w[1] = "scalar" => Len(w) = 1
      BY ValuesAre
    <2>2. \A w \in Values : w[1] # "scalar" => Closed(w)
      BY ValuesAre
    <2>3. QED
      BY <1>3, <2>1, <2>2
  <1>5. CASE Closed(u) /\ Closed(v)
    <2>1. CASE b <= c
      <3>1. Len(u) <= Len(v) /\ 1..Len(u) = 1..(b - a + 1)
        BY <1>2, <2>1
      <3>2. \A i \in 1..(b - a + 1) : i \in 1..(c - a + 1)
        BY <2>1
      <3>3. \A i \in 1..Len(u) : u[i] = v[i]
        BY <1>2, <3>1, <3>2
      <3>4. Len(u) = Len(v)
        BY <1>5, <3>1, <3>3, ClosedOnce
      <3>5. QED
        BY <1>2, <3>4
    <2>2. CASE c <= b
      <3>1. Len(v) <= Len(u) /\ 1..Len(v) = 1..(c - a + 1)
        BY <1>2, <2>2
      <3>2. \A i \in 1..(c - a + 1) : i \in 1..(b - a + 1)
        BY <2>2
      <3>3. \A i \in 1..Len(v) : v[i] = u[i]
        BY <1>2, <3>1, <3>2
      <3>4. Len(v) = Len(u)
        BY <1>5, <3>1, <3>3, ClosedOnce
      <3>5. QED
        BY <1>2, <3>4
    <2>3. QED
      BY <2>1, <2>2
  <1>6. QED
    BY <1>2, <1>4, <1>5

\* What raw_decode finds in the part of a text from a to b.
LEMMA RawDecodeIs ==
    ASSUME NEW x \in Seq(Tokens), NEW a \in 1..Len(x), NEW b \in a..Len(x)
    PROVE  /\ \A c \in a..b : SubSeq(x, a, c) \in Values =>
                 RawDecode(SubSeq(x, a, b)) = SubSeq(x, a, c)
           /\ (\A c \in a..b : SubSeq(x, a, c) \notin Values) =>
                 RawDecode(SubSeq(x, a, b)) = None
  <1>1. PICK y : y = SubSeq(x, a, b)
    OBVIOUS
  <1>2. y \in Seq(Tokens) /\ Len(y) = b - a + 1
    BY <1>1, PartOfText
  <1>3. \A n \in 1..(b - a + 1) : Prefix(y, n) = SubSeq(x, a, a + n - 1)
    BY <1>1, PartOfPart DEF Prefix
  <1>4. PICK ends : ends = {n \in 1..Len(y) : Prefix(y, n) \in Values}
    OBVIOUS
  <1>5. RawDecode(y) = IF ends = {} THEN None ELSE Prefix(y, CHOOSE n \in ends : TRUE)
    BY <1>4 DEF RawDecode
  <1>6. ASSUME NEW c \in a..b, SubSeq(x, a, c) \in Values
        PROVE  RawDecode(y) = SubSeq(x, a, c)
    <2>1. PICK k \in 1..(b - a + 1) : k = c - a + 1 /\ a + k - 1 = c
      OBVIOUS
    <2>2. Prefix(y, k) = SubSeq(x, a, c)
      BY <1>3, <2>1
    <2>3. k \in ends
      BY <1>2, <1>4, <1>6, <2>1, <2>2
    <2>4. ASSUME NEW n \in ends
          PROVE  n = k
      <3>1. n \in 1..(b - a + 1) /\ SubSeq(x, a, a + n - 1) \in Values
        BY <1>2, <1>3, <1>4
      <3>2. a + n - 1 \in a..Len(x) /\ c \in a..Len(x)
        BY <3>1
      <3>3. a + n - 1 = c
        BY <1>6, <3>1, <3>2, OneValue
      <3>4. QED
        BY <2>1, <3>1, <3>3
    <2>5. (CHOOSE n \in ends : TRUE) = k
      BY <2>3, <2>4
    <2>6. QED
      BY <1>5, <2>2, <2>3, <2>5
  <1>7. ASSUME \A c \in a..b : SubSeq(x, a, c) \notin Values
        PROVE  RawDecode(y) = None
    <2>1. ASSUME NEW n \in 1..Len(y)
          PROVE  Prefix(y, n) \notin Values
      <3>1. n \in 1..(b - a + 1) /\ a + n - 1 \in a..b
        BY <1>2
      <3>2. QED
        BY <1>3, <1>7, <3>1
    <2>2. ends = {}
      BY <1>4, <2>1
    <2>3. QED
      BY <1>5, <2>2
  <1>8. QED
    BY <1>1, <1>6, <1>7

\* What raw_decode finds at the beginning of a text, it finds in all of it.
LEMMA RawDecodeOfText ==
    ASSUME NEW x \in Seq(Tokens)
    PROVE  /\ \A c \in 1..Len(x) : SubSeq(x, 1, c) \in Values => RawDecode(x) = SubSeq(x, 1, c)
           /\ RawDecode(x) # None =>
                 /\ RawDecode(x) \in Values /\ x # <<>>
                 /\ \E c \in 1..Len(x) : RawDecode(x) = SubSeq(x, 1, c)
           /\ RawDecode(x) # None => RawDecode(x)[1] = x[1]
           /\ x \in Values => RawDecode(x) = x
  <1>1. PICK n \in Nat : n = Len(x)
    OBVIOUS
  <1>2. CASE n = 0
    <2>1. x = <<>> /\ RawDecode(x) = None
      <3>1. x = <<>> /\ 1..Len(x) = {}
        <4>1. Len(x) = 0
          BY <1>1, <1>2
        <4>2. 1..Len(x) = {}
          BY <4>1
        <4>3. x = <<>>
          BY <4>1
        <4>4. QED
          BY <4>2, <4>3
      <3>2. {k \in 1..Len(x) : Prefix(x, k) \in Values} = {}
        BY <3>1
      <3>3. QED
        BY <3>1, <3>2 DEF RawDecode
    <2>2. x \notin Values
      <3>1. ~(Len(x) > 0)
        BY <1>1, <1>2
      <3>2. QED
        BY <3>1, ValuesAre
    <2>3. QED
      BY <1>1, <1>2, <2>1, <2>2
  <1>3. CASE n > 0
    <2>1. 1 \in 1..Len(x) /\ n \in 1..Len(x) /\ x = SubSeq(x, 1, n) /\ x # <<>>
      BY <1>1, <1>3
    <2>2. \A c \in 1..n : SubSeq(x, 1, c) \in Values => RawDecode(x) = SubSeq(x, 1, c)
      <3>1. n \in 1..n
        BY <1>1, <1>3
      <3>2. \A c \in 1..n : SubSeq(x, 1, c) \in Values =>
               RawDecode(SubSeq(x, 1, n)) = SubSeq(x, 1, c)
        BY <1>1, <2>1, <3>1, RawDecodeIs
      <3>3. QED
        BY <2>1, <3>2
    <2>3. RawDecode(x) # None => \E c \in 1..n : SubSeq(x, 1, c) \in Values
      <3>1. (\A c \in 1..n : SubSeq(x, 1, c) \notin Values) => RawDecode(SubSeq(x, 1, n)) = None
        BY <1>1, <2>1, RawDecodeIs
      <3>2. QED
        BY <2>1, <3>1
    <2>4. ASSUME RawDecode(x) # None
          PROVE  /\ RawDecode(x) \in Values /\ RawDecode(x)[1] = x[1]
                 /\ \E c \in 1..n : RawDecode(x) = SubSeq(x, 1, c)
      <3>1. PICK c \in 1..n : SubSeq(x, 1, c) \in Values
        BY <2>3, <2>4
      <3>2. RawDecode(x) = SubSeq(x, 1, c)
        BY <2>2, <3>1
      <3>3. SubSeq(x, 1, c)[1] = x[1]
        BY <1>1, <2>1, PartOfText
      <3>4. QED
        BY <3>1, <3>2, <3>3
    <2>5. x \in Values => RawDecode(x) = x
      BY <1>1, <2>1, <2>2
    <2>6. QED
      BY <1>1, <2>1, <2>2, <2>4, <2>5
  <1>4. QED
    BY <1>1, <1>2, <1>3

\* A text that does not begin with another value than an object.
Plain(x) == RawDecode(x) = None \/ RawDecode(x) \in Objects

LEMMA PlainIs ==
    ASSUME NEW x \in Seq(Tokens)
    PROVE  RawDecode(x) \notin Values \ Objects <=> Plain(x)
  <1>1. None \notin Values /\ \A v \in Objects : v \in Values
    BY NoneAssumption DEF Values
  <1>2. RawDecode(x) # None => RawDecode(x) \in Values
    BY RawDecodeOfText
  <1>3. QED
    BY <1>1, <1>2 DEF Plain

\* The object from the first brace i on, if there is one up to b.
LEMMA FirstObjectIs ==
    ASSUME NEW x \in Seq(Tokens), NEW i \in 1..Len(x), Plain(x),
           x[i] = "open", \A q \in Positions("open", x) : i <= q
    PROVE  /\ FromFirstBrace(x) = SubSeq(x, i, Len(x))
           /\ FirstObject(x) = RawDecode(SubSeq(x, i, Len(x)))
           /\ \A j \in i..Len(x) : SubSeq(x, i, j) \in Values =>
                 FirstObject(x) = SubSeq(x, i, j) /\ SubSeq(x, i, j) \in Objects
           /\ (\A j \in i..Len(x) : SubSeq(x, i, j) \notin Values) => FirstObject(x) = None
  <1>1. i \in Positions("open", x) /\ Positions("open", x) \subseteq 1..Len(x)
    BY DEF Positions
  <1>2. Len(x) \in Nat
    OBVIOUS
  <1>3. Min(Positions("open", x)) = i
    <2>1. PICK m : m = Min(Positions("open", x))
      OBVIOUS
    <2>2. m \in 1..Len(x) /\ m <= i /\ i <= m
      BY <1>1, <1>2, <2>1, MinIs
    <2>3. QED
      BY <2>1, <2>2
  <1>4. FromFirstBrace(x) = SubSeq(x, i, Len(x))
    BY <1>3 DEF FromFirstBrace, From
  <1>5. FirstObject(x) = RawDecode(SubSeq(x, i, Len(x)))
    BY <1>1, <1>4, PlainIs DEF FirstObject
  <1>6. ASSUME NEW j \in i..Len(x), SubSeq(x, i, j) \in Values
        PROVE  SubSeq(x, i, j) \in Objects
    <2>1. SubSeq(x, i, j)[1] = "open"
      BY PartOfText
    <2>2. QED
      BY <1>6, <2>1, ValuesAre
  <1>7. Len(x) \in i..Len(x)
    OBVIOUS
  <1>8. QED
    BY <1>4, <1>5, <1>6, <1>7, RawDecodeIs

\* A text has a first brace, or none.
LEMMA FirstBrace ==
    ASSUME NEW x \in Seq(Tokens), Positions("open", x) # {}
    PROVE  \E i \in 1..Len(x) : x[i] = "open" /\ \A q \in Positions("open", x) : i <= q
  <1>1. Positions("open", x) \subseteq 1..Len(x) /\ Len(x) \in Nat
    BY DEF Positions
  <1>2. PICK i \in Positions("open", x) : \A q \in Positions("open", x) : i <= q
    BY <1>1, MinIs
  <1>3. QED
    BY <1>1, <1>2 DEF Positions

Decoded(c) == IF c \in Values THEN c ELSE RawDecodeFirstJsonObject(c)

\* What the two ways to read a candidate find in it.
LEMMA DecodedIs ==
    ASSUME NEW x \in Seq(Tokens)
    PROVE  Decoded(x) = IF Plain(x) THEN FirstObject(x) ELSE RawDecode(x)
  <1>1. Decoded(x) = RawDecodeFirstJsonObject(x)
    <2>1. CASE x \in Values
      <3>1. RawDecode(x) = x /\ x # None
        BY <2>1, RawDecodeOfText, ValuesAre
      <3>2. QED
        BY <2>1, <3>1 DEF Decoded, RawDecodeFirstJsonObject
    <2>2. CASE x \notin Values
      BY <2>2 DEF Decoded
    <2>3. QED
      BY <2>1, <2>2
  <1>2. CASE RawDecode(x) = None
    <2>1. Plain(x)
      BY <1>2 DEF Plain
    <2>2. FirstObject(x) = IF Positions("open", x) = {} THEN None ELSE RawDecode(FromFirstBrace(x))
      BY <2>1, PlainIs DEF FirstObject
    <2>3. RawDecodeFirstJsonObject(x) =
             IF Positions("open", x) = {} THEN None ELSE RawDecode(FromFirstBrace(x))
      BY <1>2 DEF RawDecodeFirstJsonObject
    <2>4. QED
      BY <1>1, <2>1, <2>2, <2>3
  <1>3. CASE RawDecode(x) # None
    <2>1. RawDecodeFirstJsonObject(x) = RawDecode(x)
      BY <1>3 DEF RawDecodeFirstJsonObject
    <2>2. CASE RawDecode(x) \in Objects
      <3>1. x[1] = "open" /\ x # <<>>
        BY <1>3, <2>2, RawDecodeOfText, WrappedAreClosed
      <3>2. /\ 1 \in 1..Len(x) /\ \A q \in Positions("open", x) : 1 <= q
            /\ x = SubSeq(x, 1, Len(x))
        BY <3>1 DEF Positions
      <3>3. Plain(x)
        BY <2>2 DEF Plain
      <3>4. FirstObject(x) = RawDecode(SubSeq(x, 1, Len(x)))
        BY <3>1, <3>2, <3>3, FirstObjectIs
      <3>5. QED
        BY <1>1, <2>1, <3>2, <3>3, <3>4
    <2>3. CASE RawDecode(x) \notin Objects
      BY <1>1, <1>3, <2>1, <2>3 DEF Plain
    <2>4. QED
      BY <2>2, <2>3
  <1>4. QED
    BY <1>2, <1>3

LEMMA FirstObjectIsObject ==
    ASSUME NEW x \in Seq(Tokens), FirstObject(x) # None
    PROVE  FirstObject(x) \in Objects /\ Plain(x) /\ Positions("open", x) # {}
  <1>1. Positions("open", x) # {} /\ Plain(x)
    BY PlainIs DEF FirstObject
  <1>2. PICK i \in 1..Len(x) : x[i] = "open" /\ \A q \in Positions("open", x) : i <= q
    BY <1>1, FirstBrace
  <1>3. QED
    BY <1>1, <1>2, FirstObjectIs

\* A part of a text that its first brace is in has no other object than the text.
LEMMA PartHasSameObject ==
    ASSUME NEW x \in Seq(Tokens), NEW a \in 1..Len(x), NEW b \in a..Len(x),
           \A q \in Positions("open", x) : a <= q, Plain(x),
           FirstObject(SubSeq(x, a, b)) # None
    PROVE  FirstObject(x) = FirstObject(SubSeq(x, a, b))
  <1>1. PICK y : y = SubSeq(x, a, b)
    OBVIOUS
  <1>2. /\ y \in Seq(Tokens) /\ Len(y) = b - a + 1
        /\ \A i \in 1..(b - a + 1) : y[i] = x[a + i - 1]
    BY <1>1, PartOfText
  <1>3. FirstObject(y) # None /\ Plain(y)
    BY <1>1, <1>2, FirstObjectIsObject
  <1>4. Positions("open", y) # {}
    BY <1>2, <1>3, FirstObjectIsObject
  <1>5. PICK p \in 1..Len(y) : y[p] = "open" /\ \A q \in Positions("open", y) : p <= q
    BY <1>2, <1>4, FirstBrace
  <1>6. PICK i \in a..b : i = a + p - 1 /\ i \in 1..Len(x)
    BY <1>2
  <1>7. x[i] = "open"
    BY <1>2, <1>5, <1>6
  <1>8. ASSUME NEW q \in Positions("open", x)
        PROVE  i <= q
    <2>1. q \in 1..Len(x) /\ x[q] = "open" /\ a <= q
      BY DEF Positions
    <2>2. CASE q <= b
      <3>1. PICK k \in 1..(b - a + 1) : k = q - a + 1 /\ a + k - 1 = q
        BY <2>1, <2>2
      <3>2. y[k] = "open"
        BY <1>2, <2>1, <3>1
      <3>3. k \in Positions("open", y)
        BY <1>2, <3>2 DEF Positions
      <3>4. p <= k
        BY <1>5, <3>3
      <3>5. QED
        BY <1>2, <1>6, <2>1, <3>1, <3>4
    <2>3. CASE q > b
      BY <1>6, <2>1, <2>3
    <2>4. QED
      BY <2>1, <2>2, <2>3
  <1>9. ASSUME NEW j \in p..Len(y)
        PROVE  /\ SubSeq(y, p, j) = SubSeq(x, i, a + j - 1)
               /\ a + j - 1 \in i..Len(x)
    <2>1. p \in 1..(b - a + 1) /\ j \in p..(b - a + 1)
      BY <1>2
    <2>2. QED
      BY <1>1, <1>6, <2>1, PartOfPart
  <1>10. PICK j \in p..Len(y) : SubSeq(y, p, j) \in Values
    BY <1>2, <1>3, <1>5, FirstObjectIs
  <1>11. FirstObject(y) = SubSeq(y, p, j)
    BY <1>2, <1>3, <1>5, <1>10, FirstObjectIs
  <1>12. FirstObject(x) = SubSeq(x, i, a + j - 1)
    BY <1>6, <1>7, <1>8, <1>9, <1>10, FirstObjectIs
  <1>13. QED
    BY <1>1, <1>9, <1>11, <1>12

\* The candidates are the text and parts of it that its first brace is in.
IsPart(x, y) ==
    \E a \in 1..Len(x) : \E b \in a..Len(x) :
        y = SubSeq(x, a, b) /\ \A q \in Positions("open", x) : a <= q

LEMMA InOrder ==
    ASSUME NEW x, NEW y, NEW z
    PROVE  /\ <<x>> \o <<y>> \o <<z>> = <<x, y, z>>
           /\ <<x>> \o <<y>> \o <<>> = <<x, y>>
           /\ <<x>> \o <<>> \o <<z>> = <<x, z>>
           /\ <<x>> \o <<>> \o <<>> = <<x>>
  <1>1. PICK S : x \in S /\ y \in S /\ z \in S
    <2>1. x \in {x, y, z} /\ y \in {x, y, z} /\ z \in {x, y, z}
      OBVIOUS
    <2>2. QED
      BY <2>1
  <1>2. /\ <<x>> \o <<y>> \o <<z>> = Append(Append(<<x>>, y), z)
        /\ <<x, y, z>> = Append(Append(<<x>>, y), z)
    BY <1>1
  <1>3. /\ <<x>> \o <<y>> \o <<>> = Append(<<x>>, y)
        /\ <<x, y>> = Append(<<x>>, y)
    BY <1>1
  <1>4. /\ <<x>> \o <<>> \o <<z>> = Append(<<x>>, z)
        /\ <<x, z>> = Append(<<x>>, z)
    BY <1>1
  <1>5. <<x>> \o <<>> \o <<>> = <<x>>
    BY <1>1
  <1>6. QED
    BY <1>2, <1>3, <1>4, <1>5

LEMMA TwoThings ==
    ASSUME NEW x, NEW y
    PROVE  DOMAIN <<x, y>> = 1..2 /\ <<x, y>>[1] = x /\ <<x, y>>[2] = y
  OBVIOUS

LEMMA ThreeThings ==
    ASSUME NEW x, NEW y, NEW z
    PROVE  /\ DOMAIN <<x, y, z>> = 1..3
           /\ <<x, y, z>>[1] = x /\ <<x, y, z>>[2] = y /\ <<x, y, z>>[3] = z
  OBVIOUS

LEMMA CandidatesAre ==
    ASSUME NEW x \in Seq(Tokens)
    PROVE  \E n \in Nat :
              /\ n > 0 /\ DOMAIN Candidates(x) = 1..n
              /\ Candidates(x)[1] = x
              /\ \A i \in 2..n : IsPart(x, Candidates(x)[i])
  <1>1. PICK first, last : /\ first = Min(Positions("open", x))
                           /\ last = Max(Positions("close", x))
    OBVIOUS
  <1>2. PICK fenced \in BOOLEAN :
           fenced <=> Len(x) >= 3 /\ Head(x) = "fence" /\ Last(x) = "fence"
    OBVIOUS
  <1>3. PICK braced \in BOOLEAN :
           braced <=> /\ Positions("open", x) # {}
                      /\ Positions("close", x) # {}
                      /\ first < last
    OBVIOUS
  <1>4. PICK u, v : /\ u = IF fenced THEN <<Tail(Front(x))>> ELSE <<>>
                    /\ v = IF braced THEN <<SubSeq(x, first, last)>> ELSE <<>>
    OBVIOUS
  <1>5. Candidates(x) = <<x>> \o u \o v
    BY <1>1, <1>2, <1>3, <1>4 DEF Candidates
  <1>6. fenced => IsPart(x, Tail(Front(x)))
    <2>1. SUFFICES ASSUME fenced
                   PROVE  IsPart(x, Tail(Front(x)))
      OBVIOUS
    <2>2. PICK n \in Nat : n = Len(x) /\ n >= 3 /\ x[1] = "fence"
      BY <1>2, <2>1
    <2>3. PICK y : y = SubSeq(x, 1, n - 1)
      OBVIOUS
    <2>4. y \in Seq(Tokens) /\ Len(y) = n - 1
      BY <2>2, <2>3, PartOfText
    <2>5. Tail(Front(x)) = SubSeq(y, 2, n - 1)
      BY <2>2, <2>3, <2>4 DEF Front
    <2>6. SubSeq(y, 2, n - 1) = SubSeq(x, 2, n - 1)
      <3>1. 1 \in 1..Len(x) /\ n - 1 \in 1..Len(x) /\ 2 \in 1..((n - 1) - 1 + 1)
            /\ n - 1 \in 2..((n - 1) - 1 + 1)
        BY <2>2
      <3>2. SubSeq(SubSeq(x, 1, n - 1), 2, n - 1) = SubSeq(x, 1 + 2 - 1, 1 + (n - 1) - 1)
        BY <3>1, PartOfPart
      <3>3. 1 + 2 - 1 = 2 /\ 1 + (n - 1) - 1 = n - 1
        OBVIOUS
      <3>4. QED
        BY <2>3, <3>2, <3>3
    <2>7. 2 \in 1..Len(x) /\ n - 1 \in 2..Len(x)
      BY <2>2
    <2>8. \A q \in Positions("open", x) : 2 <= q
      BY <2>2 DEF Positions
    <2>9. QED
      BY <2>5, <2>6, <2>7, <2>8 DEF IsPart
  <1>7. braced => IsPart(x, SubSeq(x, first, last))
    <2>1. SUFFICES ASSUME braced
                   PROVE  IsPart(x, SubSeq(x, first, last))
      OBVIOUS
    <2>2. /\ Positions("open", x) \subseteq 1..Len(x) /\ Positions("close", x) \subseteq 1..Len(x)
          /\ Len(x) \in Nat
      BY DEF Positions
    <2>3. first \in Positions("open", x) /\ \A q \in Positions("open", x) : first <= q
      BY <1>1, <1>3, <2>1, <2>2, MinIs
    <2>4. last \in Positions("close", x)
      BY <1>1, <1>3, <2>1, <2>2, MaxIs
    <2>5. first \in 1..Len(x) /\ last \in first..Len(x)
      BY <1>3, <2>1, <2>2, <2>3, <2>4
    <2>6. QED
      BY <2>3, <2>5 DEF IsPart
  <1>8. CASE fenced /\ braced
    <2>1. Candidates(x) = <<x, Tail(Front(x)), SubSeq(x, first, last)>>
      BY <1>4, <1>5, <1>8, InOrder
    <2>2. DOMAIN Candidates(x) = 1..3 /\ Candidates(x)[1] = x
      BY <2>1, ThreeThings
    <2>3. \A i \in 2..3 : IsPart(x, Candidates(x)[i])
      <3>1. Candidates(x)[2] = Tail(Front(x)) /\ Candidates(x)[3] = SubSeq(x, first, last)
        <4>1. PICK t : t = <<x, Tail(Front(x)), SubSeq(x, first, last)>>
          OBVIOUS
        <4>2. t[2] = Tail(Front(x)) /\ t[3] = SubSeq(x, first, last)
          BY <4>1, ThreeThings
        <4>3. QED
          BY <2>1, <4>1, <4>2
      <3>2. \A i \in 2..3 : i = 2 \/ i = 3
        OBVIOUS
      <3>3. QED
        BY <1>6, <1>7, <1>8, <3>1, <3>2, Zenon
    <2>4. QED
      BY <2>2, <2>3
  <1>9. CASE fenced /\ ~braced
    <2>1. Candidates(x) = <<x, Tail(Front(x))>>
      BY <1>4, <1>5, <1>9, InOrder
    <2>2. /\ DOMAIN Candidates(x) = 1..2 /\ Candidates(x)[1] = x
          /\ Candidates(x)[2] = Tail(Front(x))
      BY <2>1, TwoThings
    <2>3. \A i \in 2..2 : i = 2
      OBVIOUS
    <2>4. \A i \in 2..2 : IsPart(x, Candidates(x)[i])
      BY <1>6, <1>9, <2>2, <2>3, Zenon
    <2>5. QED
      BY <2>2, <2>4
  <1>10. CASE ~fenced /\ braced
    <2>1. Candidates(x) = <<x, SubSeq(x, first, last)>>
      BY <1>4, <1>5, <1>10, InOrder
    <2>2. /\ DOMAIN Candidates(x) = 1..2 /\ Candidates(x)[1] = x
          /\ Candidates(x)[2] = SubSeq(x, first, last)
      <3>1. PICK t : t = <<x, SubSeq(x, first, last)>>
        OBVIOUS
      <3>2. DOMAIN t = 1..2 /\ t[1] = x /\ t[2] = SubSeq(x, first, last)
        BY <3>1, TwoThings
      <3>3. QED
        BY <2>1, <3>1, <3>2
    <2>3. \A i \in 2..2 : i = 2
      OBVIOUS
    <2>4. \A i \in 2..2 : IsPart(x, Candidates(x)[i])
      BY <1>7, <1>10, <2>2, <2>3, Zenon
    <2>5. QED
      BY <2>2, <2>4
  <1>11. CASE ~fenced /\ ~braced
    <2>1. Candidates(x) = <<x>>
      BY <1>4, <1>5, <1>11, InOrder
    <2>2. DOMAIN Candidates(x) = 1..1 /\ Candidates(x)[1] = x
      BY <2>1
    <2>3. QED
      BY <2>2
  <1>12. QED
    BY <1>8, <1>9, <1>10, <1>11

\* The three candidates and the two ways to read each give an object if and only if the
\* text has a first one, and that object.
LEMMA ParseIs ==
    ASSUME NEW x \in Seq(Tokens)
    PROVE  /\ ParseJsonLikeContent(x) \in Objects => ParseJsonLikeContent(x) = FirstObject(x)
           /\ ParseJsonLikeContent(x) \notin Objects => FirstObject(x) = None
  <1>1. PICK n \in Nat : /\ n > 0 /\ DOMAIN Candidates(x) = 1..n
                         /\ Candidates(x)[1] = x
                         /\ \A i \in 2..n : IsPart(x, Candidates(x)[i])
    BY CandidatesAre
  <1>2. PICK good : good = {i \in 1..n : Decoded(Candidates(x)[i]) # None}
    OBVIOUS
  <1>3. ParseJsonLikeContent(x) = IF good = {} THEN None
                                  ELSE Decoded(Candidates(x)[Min(good)])
    BY <1>1, <1>2, Zenon DEF ParseJsonLikeContent, Decoded
  <1>4. None \notin Objects
    BY NoneAssumption DEF Values
  <1>5. 1 \in good => Min(good) = 1
    <2>1. SUFFICES ASSUME 1 \in good
                   PROVE  Min(good) = 1
      OBVIOUS
    <2>2. good \subseteq 1..n
      BY <1>2
    <2>3. Min(good) \in 1..n /\ Min(good) <= 1
      BY <2>1, <2>2, MinIs
    <2>4. QED
      BY <2>3
  <1>6. CASE ~Plain(x)
    <2>1. Decoded(x) = RawDecode(x) /\ RawDecode(x) # None /\ RawDecode(x) \notin Objects
      BY <1>6, DecodedIs DEF Plain
    <2>2. ParseJsonLikeContent(x) = RawDecode(x)
      <3>1. 1 \in good
        BY <1>1, <1>2, <2>1
      <3>2. QED
        BY <1>1, <1>3, <1>5, <2>1, <3>1
    <2>3. FirstObject(x) = None
      BY <1>6, PlainIs DEF FirstObject
    <2>4. QED
      BY <2>1, <2>2, <2>3
  <1>7. CASE Plain(x) /\ FirstObject(x) # None
    <2>1. Decoded(x) = FirstObject(x)
      BY <1>7, DecodedIs
    <2>2. ParseJsonLikeContent(x) = FirstObject(x)
      BY <1>1, <1>2, <1>3, <1>5, <1>7, <2>1
    <2>3. QED
      BY <1>7, <2>2, FirstObjectIsObject
  <1>8. CASE Plain(x) /\ FirstObject(x) = None
    <2>1. ASSUME NEW i \in good
          PROVE  Decoded(Candidates(x)[i]) \notin Objects
      <3>1. CASE i = 1
        BY <1>1, <1>4, <1>8, <3>1, DecodedIs
      <3>2. CASE i # 1
        <4>1. i \in 2..n
          BY <1>2, <3>2
        <4>2. PICK a \in 1..Len(x) : \E b \in a..Len(x) :
                 /\ Candidates(x)[i] = SubSeq(x, a, b)
                 /\ \A q \in Positions("open", x) : a <= q
          BY <1>1, <4>1 DEF IsPart
        <4>3. PICK b \in a..Len(x) : Candidates(x)[i] = SubSeq(x, a, b)
          BY <4>2
        <4>4. SubSeq(x, a, b) \in Seq(Tokens)
          BY PartOfText
        <4>5. FirstObject(SubSeq(x, a, b)) = None
          BY <1>8, <4>2, <4>4, PartHasSameObject
        <4>6. Decoded(SubSeq(x, a, b)) \notin Objects
          BY <1>4, <4>4, <4>5, DecodedIs DEF Plain
        <4>7. QED
          BY <4>3, <4>6
      <3>3. QED
        BY <3>1, <3>2
    <2>2. good # {} => Min(good) \in good
      BY <1>2, MinIs
    <2>3. QED
      BY <1>3, <1>4, <1>8, <2>1, <2>2
  <1>9. QED
    BY <1>6, <1>7, <1>8

\* What a text that was cut has of an object is all there, unless the text begins with an
\* array or a string.
LEMMA CutKeepsObject ==
    ASSUME NEW x \in Seq(Tokens), NEW cut \in 0..Len(x), FirstObject(Prefix(x, cut)) # None,
           Head(x) \notin {"sopen", "quote"}
    PROVE  FirstObject(x) = FirstObject(Prefix(x, cut))
  <1>1. PICK y : y = Prefix(x, cut) /\ y = SubSeq(x, 1, cut)
    BY DEF Prefix
  <1>2. cut # 0
    <2>1. SUFFICES ASSUME cut = 0
                   PROVE  FALSE
      OBVIOUS
    <2>2. Len(y) = 0
      BY <1>1, <2>1
    <2>3. Positions("open", y) = {}
      BY <2>2 DEF Positions
    <2>4. FirstObject(y) = None
      BY <2>3 DEF FirstObject
    <2>5. QED
      BY <1>1, <2>4
  <1>3. 1 \in 1..Len(x) /\ cut \in 1..Len(x) /\ Len(x) > 0
    BY <1>2
  <1>4. /\ y \in Seq(Tokens) /\ Len(y) = cut
        /\ \A i \in 1..cut : y[i] = x[i]
    BY <1>1, <1>3, PartOfText
  <1>5. y[1] = x[1] /\ x[1] \notin {"sopen", "quote"} /\ Plain(y)
    <2>1. Plain(y)
      BY <1>1, <1>4, FirstObjectIsObject
    <2>2. 1 \in 1..cut /\ Head(x) = x[1]
      BY <1>3
    <2>3. y[1] = x[1]
      BY <1>4, <2>2
    <2>4. QED
      BY <2>1, <2>2, <2>3
  <1>6. Plain(x)
    <2>1. SUFFICES ASSUME ~Plain(x)
                   PROVE  FALSE
      OBVIOUS
    <2>2. PICK v \in Values : v = RawDecode(x) /\ v \notin Objects /\ v[1] = x[1]
      BY <2>1, RawDecodeOfText DEF Plain
    <2>3. v[1] = "scalar"
      BY <1>5, <2>2, ValuesAre
    <2>4. PICK u : u = SubSeq(y, 1, 1)
      OBVIOUS
    <2>5. 1 \in 1..Len(y) /\ u \in Seq(Tokens) /\ Len(u) = 1 /\ u[1] = "scalar"
      BY <1>3, <1>4, <1>5, <2>2, <2>3, <2>4, PartOfText
    <2>6. u = <<"scalar">>
      BY <2>5
    <2>7. u \in Values
      BY <2>6 DEF Values
    <2>8. RawDecode(y) = u
      BY <1>4, <2>4, <2>5, <2>7, RawDecodeOfText
    <2>9. u \notin Objects /\ u # None
      BY <2>5, <2>7, ValuesAre
    <2>10. QED
      BY <1>5, <2>8, <2>9 DEF Plain
  <1>7. \A q \in Positions("open", x) : 1 <= q
    BY DEF Positions
  <1>8. QED
    BY <1>1, <1>3, <1>6, <1>7, PartHasSameObject

----------------------------------------------------------------------------
(* The call.                                                               *)

Finishes == {"stop", "length", "content_filter", "other", "null"}
Replies == [refusal : BOOLEAN, finish : Finishes,
            content : {"text", "object", "missing"}, text : Seq(Tokens)]

\* The reply is what the model means to say, or the beginning of it.
Received ==
    /\ meant \in Seq(Tokens) /\ reply \in Replies
    /\ \E cut \in 0..Len(meant) : reply.text = Prefix(meant, cut)

\* What was found is the object of the text.
Accepted ==
    /\ ~Rejected
    /\ reply.content = "text" => parsed \in Objects /\ parsed = FirstObject(reply.text)

Failures == {"authentication", "rate limit", "transient", "provider", "unmapped"}

CallInv ==
    \/ pc \in {"idle", "sent"} /\ meant \in Seq(Tokens) /\ reply = None /\ parsed = None
       /\ outcome = None
    \/ pc = "received" /\ Received /\ parsed = None /\ outcome = None
    \/ pc = "validate" /\ Received /\ Accepted /\ outcome = None
    \/ /\ pc = "done" /\ reply = None
       /\ outcome \in Failures
    \/ /\ pc = "done" /\ Received /\ outcome = "structured output"
       /\ \/ Accepted
          \/ Rejected \/ reply.content # "text" \/ FirstObject(reply.text) = None
    \/ pc = "done" /\ Received /\ outcome \in {"response", "unmapped"} /\ Accepted

LEMMA CallInvHolds == CallSpec => []CallInv
  <1>1. CallInit => CallInv
    BY DEF CallInit, CallInv
  <1>2. CallInv /\ [CallNext]_callVars => CallInv'
    <2> SUFFICES ASSUME CallInv, [CallNext]_callVars
                 PROVE  CallInv'
      OBVIOUS
    <2>1. CASE UNCHANGED callVars
      BY <2>1 DEF callVars, CallInv, Received, Accepted, Rejected
    <2>2. CASE SendRequest
      <3>1. meant' \in Seq(Tokens)
        BY <2>2, MaxTokensAssumption DEF SendRequest, Texts, SeqOf
      <3>2. QED
        BY <2>2, <3>1 DEF SendRequest, CallInv
    <2>3. CASE RequestFails
      <3>1. \A s \in {400, 401, 409, 429, 500} : MapHttpError(s) \in Failures
        BY DEF MapHttpError, Failures
      <3>2. pc' = "done" /\ outcome' \in Failures
        <4>1. /\ pc' = "done"
              /\ \/ \E s \in {400, 401, 409, 429, 500} : outcome' = MapHttpError(s)
                 \/ outcome' = "unmapped"
          BY <2>3 DEF RequestFails
        <4>2. "unmapped" \in Failures
          BY DEF Failures
        <4>3. QED
          BY <3>1, <4>1, <4>2
      <3>3. reply' = None
        BY <2>3 DEF RequestFails, CallInv
      <3>4. QED
        BY <3>2, <3>3 DEF CallInv
    <2>4. CASE ReplyArrives
      <3>1. meant \in Seq(Tokens) /\ parsed = None /\ outcome = None /\ pc = "sent"
        BY <2>4 DEF ReplyArrives, CallInv
      <3>2. PICK cut \in 0..Len(meant), refusal \in BOOLEAN,
                 finish \in Finishes,
                 content \in {"text", "object", "missing"} :
               reply' = Reply(refusal, finish, content, Prefix(meant, cut))
        <4>1. Prefix(meant, Len(meant)) = meant /\ Len(meant) \in 0..Len(meant)
          BY <3>1 DEF Prefix
        <4>2. QED
          BY <2>4, <4>1 DEF ReplyArrives, Finishes
      <3>3. Prefix(meant, cut) \in Seq(Tokens)
        BY <3>1 DEF Prefix
      <3>4. reply' \in Replies /\ reply'.text = Prefix(meant, cut)
        BY <3>2, <3>3 DEF Reply, Replies
      <3>5. Received'
        BY <2>4, <3>1, <3>4 DEF Received, ReplyArrives
      <3>6. QED
        BY <2>4, <3>1, <3>5 DEF ReplyArrives, CallInv
    <2>5. CASE ParseMessageContent
      <3>1. Received /\ parsed = None /\ outcome = None /\ pc = "received"
        BY <2>5 DEF ParseMessageContent, CallInv
      <3>2. Received' /\ reply' = reply
        BY <2>5, <3>1 DEF ParseMessageContent, Received
      <3>3. PICK found : found = ParseJsonLikeContent(reply.text)
        OBVIOUS
      <3>4. /\ found \in Objects => found = FirstObject(reply.text)
            /\ found \notin Objects => FirstObject(reply.text) = None
        BY <3>1, <3>3, ParseIs DEF Received, Replies
      <3>5. CASE pc' = "validate"
        <4>1. Accepted' /\ outcome' = None
          BY <2>5, <3>1, <3>2, <3>3, <3>4, <3>5 DEF ParseMessageContent, Accepted, Rejected
        <4>2. QED
          BY <3>2, <3>5, <4>1 DEF CallInv
      <3>6. CASE pc' = "done"
        <4>1. /\ outcome' = "structured output"
              /\ Rejected \/ reply.content # "text" \/ FirstObject(reply.text) = None
          BY <2>5, <3>1, <3>3, <3>4, <3>6 DEF ParseMessageContent
        <4>2. (Rejected \/ reply.content # "text" \/ FirstObject(reply.text) = None)'
          BY <3>2, <4>1 DEF Rejected
        <4>3. QED
          BY <3>2, <3>6, <4>1, <4>2 DEF CallInv
      <3>7. QED
        BY <2>5, <3>5, <3>6 DEF ParseMessageContent
    <2>6. CASE Validate
      <3>1. Received /\ Accepted
        BY <2>6 DEF Validate, CallInv
      <3>2. Received' /\ Accepted'
        BY <2>6, <3>1 DEF Validate, Received, Accepted, Rejected
      <3>3. QED
        BY <2>6, <3>2 DEF Validate, CallInv
    <2>7. QED
      BY <2>1, <2>2, <2>3, <2>4, <2>5, <2>6 DEF CallNext
  <1>3. QED
    BY <1>1, <1>2, PTL DEF CallSpec

\* What is parsed of the text of a reply is the object at its first brace; a text is
\* refused only if it has none there.
THEOREM RepliesParseExactly == CallSpec => []ParsesExactly
  <1>1. CallInv => ParsesExactly
    <2> SUFFICES ASSUME CallInv
                 PROVE  ParsesExactly
      OBVIOUS
    <2>1. pc = "validate" /\ reply.content = "text" => parsed = FirstObject(reply.text)
      BY DEF CallInv, Accepted
    <2>2. ASSUME pc = "done", reply # None, outcome = "structured output", parsed = None
          PROVE  Rejected \/ reply.content # "text" \/ FirstObject(reply.text) = None
      <3>1. None \notin Objects
        BY NoneAssumption DEF Values
      <3>2. QED
        BY <2>2, <3>1 DEF CallInv, Accepted, Failures
    <2>3. QED
      BY <2>1, <2>2 DEF ParsesExactly
  <1>2. QED
    BY <1>1, CallInvHolds, PTL

\* A response comes only from a reply that was neither refused, filtered nor declared cut
\* short, and is the object of what the model meant, however much of its text arrived,
\* unless that text begins with an array or a string.
THEOREM ResponsesAreMeant == CallSpec => []ResponseIsMeant
  <1>1. CallInv => ResponseIsMeant
    <2> SUFFICES ASSUME CallInv, outcome = "response"
                 PROVE  /\ ~reply.refusal
                        /\ reply.finish \notin {"length", "content_filter"}
                        /\ reply.content = "text" =>
                               \/ parsed = FirstObject(meant)
                               \/ Head(meant) \in {"sopen", "quote"}
      BY DEF ResponseIsMeant
    <2>1. Received /\ Accepted
      BY NoneAssumption DEF CallInv, Failures
    <2>2. ~reply.refusal /\ reply.finish \notin {"length", "content_filter"}
      BY <2>1 DEF Accepted, Rejected
    <2>3. ASSUME reply.content = "text", Head(meant) \notin {"sopen", "quote"}
          PROVE  parsed = FirstObject(meant)
      <3>1. PICK cut \in 0..Len(meant) : reply.text = Prefix(meant, cut)
        BY <2>1 DEF Received
      <3>2. parsed = FirstObject(reply.text) /\ FirstObject(reply.text) # None
        BY <2>1, <2>3, NoneAssumption DEF Accepted, Values
      <3>3. QED
        BY <2>1, <2>3, <3>1, <3>2, CutKeepsObject DEF Received
    <2>4. QED
      BY <2>2, <2>3
  <1>2. QED
    BY <1>1, CallInvHolds, PTL
==============================================================================
