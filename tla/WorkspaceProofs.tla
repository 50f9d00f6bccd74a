--------------------------- MODULE WorkspaceProofs ---------------------------
(***************************************************************************)
(* Proofs about module Workspace: a rollback restores, and a commit holds  *)
(* the work it was asked to hold, for every set of paths and every number  *)
(* of writes, commits, checkpoints and orphans.                            *)
(***************************************************************************)
EXTENDS Workspace, TLAPS

Files == [Paths -> Nat]
CheckpointType == [commit : Nat \cup {None}, seen : Files, clean : BOOLEAN]

\* What git and the file system hold has its type.  pc, asked, available and the history
\* of orphans need no more than the last conjuncts say.
WorkspaceTypeOK ==
    /\ file \in Files
    /\ writes \in Nat
    /\ index \in Files
    /\ commits \in Seq(Files)
    /\ head \in 1..Len(commits)
    /\ asked \subseteq Paths
    /\ orphans \in [Executors -> Nat]
    /\ checkpoints \in Seq(CheckpointType)
    /\ restored \in (1..Len(checkpoints)) \cup {None}
    /\ interrupted \in BOOLEAN
    /\ leftBehind \subseteq Executors

\* A checkpoint of a clean tree names a commit that holds all its files.
CheckpointsHeld ==
    \A i \in 1..Len(checkpoints) :
        LET c == checkpoints[i]
        IN  c.commit # None => /\ c.commit \in 1..Len(commits)
                               /\ c.clean => commits[c.commit] = c.seen

\* A rollback counts as the last thing done only outside every method, and what goes on
\* without a call has been left behind.
OnlyOrphans ==
    /\ pc # "idle" => restored = None
    /\ \A e \in Executors : orphans[e] > 0 => e \in leftBehind

RollbackInv == WorkspaceTypeOK /\ CheckpointsHeld /\ OnlyOrphans /\ RollbackRestores

\* As long as nothing has gone wrong the index is the last commit, plus what the
\* commit under way is meant to hold.
CommitInv ==
    ~interrupted =>
        /\ pc \in {"idle", "process", "container", "add"} => index = commits[head]
        /\ pc = "commit" => index = staged
        /\ pc = "return" => index = commits[head] /\ commits[head] = staged

----------------------------------------------------------------------------
(* The rollback.                                                           *)

\* What a command or a container does to the files.
LEMMA ChangeKeeps ==
    ASSUME WorkspaceTypeOK, NEW p \in Paths, Change(p)
    PROVE  /\ file' \in Files /\ writes' \in Nat
           /\ \A q \in Paths \ {p} : file'[q] = file[q]
  <1>1. CASE writes' = writes + 1 /\ file' = [file EXCEPT ![p] = writes + 1]
    BY <1>1 DEF WorkspaceTypeOK, Files
  <1>2. CASE file' = [file EXCEPT ![p] = Absent] /\ UNCHANGED writes
    BY <1>2 DEF WorkspaceTypeOK, Files, Absent
  <1>3. QED
    BY <1>1, <1>2 DEF Change

\* A step that leaves the checkpoints, the commits and HEAD alone, and after which no
\* rollback is the last thing done, keeps the invariant if it keeps the types.
LEMMA ForgetsRollback ==
    ASSUME RollbackInv, restored' = None, WorkspaceTypeOK',
           UNCHANGED <<commits, checkpoints>>,
           \A e \in Executors : orphans'[e] > 0 => e \in leftBehind'
    PROVE  RollbackInv'
  BY DEF RollbackInv, CheckpointsHeld, OnlyOrphans, RollbackRestores

LEMMA InitRollbackInv == Init => RollbackInv
  <1>1. SUFFICES ASSUME Init
                 PROVE  RollbackInv
    OBVIOUS
  <1>2. file \in Files
    BY <1>1 DEF Init, Files
  <1>3. WorkspaceTypeOK
    <2>1. commits \in Seq(Files) /\ Len(commits) = 1
      BY <1>1, <1>2 DEF Init
    <2>2. checkpoints \in Seq(CheckpointType)
      BY <1>1 DEF Init
    <2>3. /\ writes \in Nat /\ head \in 1..Len(commits) /\ orphans \in [Executors -> Nat]
          /\ restored \in (1..Len(checkpoints)) \cup {None}
      BY <1>1, <2>1 DEF Init
    <2>4. /\ index \in Files /\ asked \subseteq Paths
          /\ interrupted \in BOOLEAN /\ leftBehind \subseteq Executors
      BY <1>1, <1>2, Zenon DEF Init
    <2>5. QED
      BY <1>2, <2>1, <2>2, <2>3, <2>4, Zenon DEF WorkspaceTypeOK
  <1>4. QED
    BY <1>1, <1>3 DEF Init, RollbackInv, CheckpointsHeld, OnlyOrphans, RollbackRestores

\* A call that is outlived.
LEMMA OutlivedKeeps ==
    ASSUME RollbackInv, pc \in Executors, Outlived
    PROVE  /\ orphans' \in [Executors -> Nat] /\ leftBehind' \subseteq Executors
           /\ \A e \in Executors : orphans'[e] > 0 => e \in leftBehind'
           /\ restored = None
  <1>1. orphans \in [Executors -> Nat] /\ leftBehind \subseteq Executors
    BY DEF RollbackInv, WorkspaceTypeOK
  <1>2. orphans' = [orphans EXCEPT ![pc] = @ + 1] /\ leftBehind' = leftBehind \cup {pc}
    BY DEF Outlived
  <1>3. orphans' \in [Executors -> Nat] /\ leftBehind' \subseteq Executors
    BY <1>1, <1>2
  <1>4. ASSUME NEW e \in Executors, orphans'[e] > 0
        PROVE  e \in leftBehind'
    BY <1>1, <1>2, <1>4 DEF RollbackInv, OnlyOrphans
  <1>5. restored = None
    BY DEF Executors, RollbackInv, OnlyOrphans
  <1>6. QED
    BY <1>3, <1>4, <1>5

LEMMA ExecutorsKeepRollback ==
    ASSUME RollbackInv,
           StartProcess \/ CheckDockerAvailable \/ StartContainer \/ CommandWrites
           \/ CommandEnds \/ LeaveBehind \/ OrphanEnds
    PROVE  RollbackInv'
  <1> USE DEF gitVars, histories
  <1>1. CASE StartProcess \/ StartContainer
    <2>1. PICK e : Start(e)
      BY <1>1 DEF StartProcess, StartContainer
    <2>2. WorkspaceTypeOK'
      BY <2>1 DEF Start, RollbackInv, WorkspaceTypeOK
    <2>3. QED
      BY <2>1, <2>2, ForgetsRollback DEF Start, RollbackInv, OnlyOrphans
  <1>2. CASE CheckDockerAvailable
    <2>1. WorkspaceTypeOK'
      BY <1>2 DEF CheckDockerAvailable, RollbackInv, WorkspaceTypeOK
    <2>2. QED
      BY <1>2, <2>1, ForgetsRollback DEF CheckDockerAvailable, RollbackInv, OnlyOrphans
  <1>3. CASE CommandWrites
    <2>1. PICK e \in Executors : \E r \in Writable(e) : (pc = e \/ orphans[e] > 0) /\ Change(r)
      BY <1>3 DEF CommandWrites
    <2>2. PICK p \in Writable(e) : Change(p)
      BY <2>1
    <2>3. p \in Paths
      BY <2>2, OutputAssumption DEF Writable
    <2>4. WorkspaceTypeOK'
      BY <1>3, <2>2, <2>3, ChangeKeeps DEF CommandWrites, RollbackInv, WorkspaceTypeOK
    <2>5. CheckpointsHeld' /\ OnlyOrphans'
      BY <1>3 DEF CommandWrites, RollbackInv, CheckpointsHeld, OnlyOrphans
    <2>6. restored # None => e \in leftBehind
      BY <2>1 DEF RollbackInv, OnlyOrphans, Executors
    <2>7. \A q \in Paths \ Writable(e) : file'[q] = file[q]
      BY <2>2, <2>3, ChangeKeeps DEF RollbackInv
    <2>8. restored # None =>
             \A q \in Paths \ UNION {Writable(f) : f \in leftBehind} : file'[q] = file[q]
      BY <2>6, <2>7
    <2>9. UNCHANGED <<restored, checkpoints, index, leftBehind>>
      BY <1>3 DEF CommandWrites
    <2>10. RollbackRestores'
      BY <2>8, <2>9 DEF RollbackInv, RollbackRestores, Tracked, Writable
    <2>11. QED
      BY <2>4, <2>5, <2>10 DEF RollbackInv
  <1>4. CASE CommandEnds
    <2>1. restored' = None
      BY <1>4 DEF CommandEnds, RollbackInv, OnlyOrphans, Executors
    <2>2. WorkspaceTypeOK'
      BY <1>4 DEF CommandEnds, RollbackInv, WorkspaceTypeOK
    <2>3. QED
      BY <1>4, <2>1, <2>2, ForgetsRollback DEF CommandEnds, RollbackInv, OnlyOrphans
  <1>5. CASE LeaveBehind
    <2>1. /\ orphans' \in [Executors -> Nat] /\ leftBehind' \subseteq Executors
          /\ \A e \in Executors : orphans'[e] > 0 => e \in leftBehind'
          /\ restored = None
      BY <1>5, OutlivedKeeps DEF LeaveBehind
    <2>2. UNCHANGED <<file, writes, index, commits, head, asked, checkpoints, restored,
                      interrupted>>
      BY <1>5 DEF LeaveBehind
    <2>3. WorkspaceTypeOK'
      BY <2>1, <2>2 DEF RollbackInv, WorkspaceTypeOK
    <2>4. QED
      BY <2>1, <2>2, <2>3, ForgetsRollback
  <1>6. CASE OrphanEnds
    <2>1. PICK e \in Executors : orphans[e] > 0 /\ orphans' = [orphans EXCEPT ![e] = @ - 1]
      BY <1>6 DEF OrphanEnds
    <2>2. orphans \in [Executors -> Nat]
      BY DEF RollbackInv, WorkspaceTypeOK
    <2>3. orphans' \in [Executors -> Nat] /\ \A f \in Executors : orphans'[f] > 0 => orphans[f] > 0
      BY <2>1, <2>2
    <2>4. WorkspaceTypeOK'
      BY <1>6, <2>3 DEF OrphanEnds, RollbackInv, WorkspaceTypeOK
    <2>5. CheckpointsHeld' /\ OnlyOrphans'
      BY <1>6, <2>3 DEF OrphanEnds, RollbackInv, CheckpointsHeld, OnlyOrphans
    <2>6. RollbackRestores'
      BY <1>6 DEF OrphanEnds, RollbackInv, RollbackRestores, Tracked, Writable
    <2>7. QED
      BY <2>4, <2>5, <2>6 DEF RollbackInv
  <1>7. QED
    BY <1>1, <1>2, <1>3, <1>4, <1>5, <1>6

\* One more commit, or one more checkpoint, and what was held is held.
LEMMA AppendHolds ==
    ASSUME NEW S, NEW s \in Seq(S), NEW e \in S
    PROVE  /\ Append(s, e) \in Seq(S) /\ Len(Append(s, e)) = Len(s) + 1
           /\ \A i \in 1..Len(s) : Append(s, e)[i] = s[i]
           /\ Append(s, e)[Len(s) + 1] = e
  OBVIOUS

LEMMA ResetHardRestores ==
    ASSUME WorkspaceTypeOK, NEW tree \in Files, ResetHard(tree)
    PROVE  /\ index' \in Files /\ file' \in Files
           /\ \A p \in Paths : file'[p] = tree[p] \/ (tree[p] = Absent /\ ~Tracked(p)')
  <1>1. index' = tree
    BY DEF ResetHard
  <1>2. file' = [p \in Paths |-> IF tree[p] # Absent \/ Tracked(p) THEN tree[p] ELSE file[p]]
    BY DEF ResetHard
  <1>3. file \in Files
    BY DEF WorkspaceTypeOK
  <1>4. file' \in Files
    BY <1>2, <1>3 DEF Files
  <1>5. ASSUME NEW p \in Paths
        PROVE  file'[p] = tree[p] \/ (tree[p] = Absent /\ ~Tracked(p)')
    BY <1>1, <1>2 DEF Tracked
  <1>6. QED
    BY <1>1, <1>4, <1>5

LEMMA ManagerKeepsRollback ==
    ASSUME RollbackInv,
           CreateCheckpoint \/ BeginStageAndCommit \/ GitAdd \/ GitCommit \/ ReturnHead
           \/ RollbackToCheckpoint \/ Die
    PROVE  RollbackInv'
  <1> USE DEF gitVars, histories
  <1>1. CASE CreateCheckpoint
    <2>1. PICK c \in {head, None} : checkpoints' = Append(checkpoints, Checkpoint(c))
      BY <1>1 DEF CreateCheckpoint
    <2>2. Checkpoint(c) \in CheckpointType
      BY <2>1 DEF Checkpoint, CheckpointType, IsClean, RollbackInv, WorkspaceTypeOK
    <2>3. /\ checkpoints' \in Seq(CheckpointType) /\ Len(checkpoints') = Len(checkpoints) + 1
          /\ \A i \in 1..Len(checkpoints) : checkpoints'[i] = checkpoints[i]
          /\ checkpoints'[Len(checkpoints) + 1] = Checkpoint(c)
      BY <2>1, <2>2, AppendHolds DEF RollbackInv, WorkspaceTypeOK
    <2>4. WorkspaceTypeOK'
      BY <1>1, <2>3 DEF CreateCheckpoint, RollbackInv, WorkspaceTypeOK
    <2>5. CheckpointsHeld'
      <3>1. SUFFICES ASSUME NEW i \in 1..Len(checkpoints'),
                            checkpoints'[i].commit # None
                     PROVE  /\ checkpoints'[i].commit \in 1..Len(commits')
                            /\ checkpoints'[i].clean =>
                                  commits'[checkpoints'[i].commit] = checkpoints'[i].seen
        BY DEF CheckpointsHeld
      <3>2. commits' = commits
        BY <1>1 DEF CreateCheckpoint
      <3>3. CASE i \in 1..Len(checkpoints)
        BY <2>3, <3>1, <3>2, <3>3 DEF RollbackInv, CheckpointsHeld
      <3>4. CASE i = Len(checkpoints) + 1
        <4>1. checkpoints'[i] = Checkpoint(c)
          BY <2>3, <3>4
        <4>2. c = head /\ checkpoints'[i].commit = head /\ checkpoints'[i].seen = file
          BY <2>1, <3>1, <4>1 DEF Checkpoint
        <4>3. checkpoints'[i].clean => commits[head] = file
          <5>1. checkpoints'[i].clean = IsClean
            BY <4>1 DEF Checkpoint
          <5>2. IsClean => commits[head] = file
            BY DEF IsClean
          <5>3. QED
            BY <5>1, <5>2
        <4>4. QED
          BY <3>2, <4>2, <4>3 DEF RollbackInv, WorkspaceTypeOK
      <3>5. QED
        BY <2>3, <3>3, <3>4 DEF RollbackInv, WorkspaceTypeOK
    <2>6. OnlyOrphans' /\ RollbackRestores'
      BY <1>1 DEF CreateCheckpoint, RollbackInv, OnlyOrphans, RollbackRestores
    <2>7. QED
      BY <2>4, <2>5, <2>6 DEF RollbackInv
  <1>2. CASE BeginStageAndCommit
    <2>1. WorkspaceTypeOK'
      BY <1>2 DEF BeginStageAndCommit, RollbackInv, WorkspaceTypeOK
    <2>2. QED
      BY <1>2, <2>1, ForgetsRollback DEF BeginStageAndCommit, RollbackInv, OnlyOrphans
  <1>3. CASE GitAdd
    <2>1. restored' = None
      BY <1>3 DEF GitAdd, RollbackInv, OnlyOrphans
    <2>2. index' \in Files
      BY <1>3 DEF GitAdd, GitFails, RollbackInv, WorkspaceTypeOK, Files
    <2>3. WorkspaceTypeOK'
      BY <1>3, <2>2 DEF GitAdd, GitFails, RollbackInv, WorkspaceTypeOK
    <2>4. QED
      BY <1>3, <2>1, <2>3, ForgetsRollback DEF GitAdd, GitFails, RollbackInv, OnlyOrphans
  <1>4. CASE GitCommit
    <2>1. restored' = None /\ UNCHANGED checkpoints
      BY <1>4 DEF GitCommit, RollbackInv, OnlyOrphans
    <2>2. CASE commits' = Append(commits, index) /\ head' = Len(commits) + 1
               /\ UNCHANGED <<index, interrupted>>
      <3>1. /\ commits' \in Seq(Files) /\ Len(commits') = Len(commits) + 1
            /\ \A i \in 1..Len(commits) : commits'[i] = commits[i]
        BY <2>2, AppendHolds DEF RollbackInv, WorkspaceTypeOK
      <3>2. WorkspaceTypeOK'
        BY <1>4, <2>2, <3>1 DEF GitCommit, RollbackInv, WorkspaceTypeOK
      <3>3. CheckpointsHeld'
        <4>1. SUFFICES ASSUME NEW i \in 1..Len(checkpoints),
                              checkpoints[i].commit # None
                       PROVE  /\ checkpoints[i].commit \in 1..Len(commits')
                              /\ checkpoints[i].clean =>
                                    commits'[checkpoints[i].commit] = checkpoints[i].seen
          BY <2>1 DEF CheckpointsHeld
        <4>2. /\ checkpoints[i].commit \in 1..Len(commits)
              /\ checkpoints[i].clean =>
                    commits[checkpoints[i].commit] = checkpoints[i].seen
          BY <4>1 DEF RollbackInv, CheckpointsHeld
        <4>3. Len(commits) \in Nat
          BY DEF RollbackInv, WorkspaceTypeOK
        <4>4. QED
          BY <3>1, <4>2, <4>3
      <3>4. OnlyOrphans' /\ RollbackRestores'
        BY <1>4, <2>1 DEF GitCommit, RollbackInv, OnlyOrphans, RollbackRestores
      <3>5. QED
        BY <3>2, <3>3, <3>4 DEF RollbackInv
    <2>3. CASE UNCHANGED gitVars /\ interrupted' \in BOOLEAN
      <3>1. WorkspaceTypeOK'
        BY <1>4, <2>3 DEF GitCommit, RollbackInv, WorkspaceTypeOK
      <3>2. QED
        BY <1>4, <2>1, <2>3, <3>1, ForgetsRollback DEF GitCommit, RollbackInv, OnlyOrphans
    <2>4. QED
      BY <1>4, <2>2, <2>3 DEF GitCommit, GitFails, RollbackInv, WorkspaceTypeOK
  <1>5. CASE ReturnHead
    <2>1. restored' = None
      BY <1>5 DEF ReturnHead, RollbackInv, OnlyOrphans
    <2>2. WorkspaceTypeOK'
      BY <1>5 DEF ReturnHead, RollbackInv, WorkspaceTypeOK
    <2>3. QED
      BY <1>5, <2>1, <2>2, ForgetsRollback DEF ReturnHead, RollbackInv, OnlyOrphans
  <1>6. CASE RollbackToCheckpoint
    <2>1. PICK i \in 1..Len(checkpoints) :
             \/ /\ checkpoints[i].commit # None
                /\ ResetHard(commits[checkpoints[i].commit])
                /\ head' = checkpoints[i].commit
                /\ restored' = i
                /\ interrupted' = FALSE
             \/ /\ restored' = None
                /\ UNCHANGED <<file, index, head, interrupted>>
      BY <1>6 DEF RollbackToCheckpoint
    <2>2. CASE restored' = None /\ UNCHANGED <<file, index, head, interrupted>>
      <3>1. WorkspaceTypeOK'
        BY <1>6, <2>2 DEF RollbackToCheckpoint, RollbackInv, WorkspaceTypeOK
      <3>2. QED
        BY <1>6, <2>2, <3>1, ForgetsRollback DEF RollbackToCheckpoint, RollbackInv, OnlyOrphans
    <2>3. CASE /\ checkpoints[i].commit # None
               /\ ResetHard(commits[checkpoints[i].commit])
               /\ head' = checkpoints[i].commit
               /\ restored' = i
               /\ interrupted' = FALSE
      <3> DEFINE tree == commits[checkpoints[i].commit]
      <3>1. /\ checkpoints[i].commit \in 1..Len(commits)
            /\ checkpoints[i].clean => tree = checkpoints[i].seen
        BY <2>3 DEF RollbackInv, CheckpointsHeld
      <3>2. tree \in Files
        BY <3>1 DEF RollbackInv, WorkspaceTypeOK
      <3>3. /\ index' \in Files /\ file' \in Files
            /\ \A p \in Paths : file'[p] = tree[p] \/ (tree[p] = Absent /\ ~Tracked(p)')
        BY <2>3, <3>2, ResetHardRestores DEF RollbackInv
      <3>4. WorkspaceTypeOK'
        BY <1>6, <2>3, <3>1, <3>3 DEF RollbackToCheckpoint, RollbackInv, WorkspaceTypeOK
      <3>5. CheckpointsHeld' /\ OnlyOrphans'
        BY <1>6 DEF RollbackToCheckpoint, RollbackInv, CheckpointsHeld, OnlyOrphans
      <3>6. RollbackRestores'
        BY <1>6, <2>3, <3>1, <3>3 DEF RollbackToCheckpoint, RollbackRestores
      <3>7. QED
        BY <3>4, <3>5, <3>6 DEF RollbackInv
    <2>4. QED
      BY <2>1, <2>2, <2>3
  <1>7. CASE Die
    <2>1. restored' = None
      BY <1>7 DEF Die, RollbackInv, OnlyOrphans
    <2>2. /\ orphans' \in [Executors -> Nat] /\ leftBehind' \subseteq Executors
          /\ \A e \in Executors : orphans'[e] > 0 => e \in leftBehind'
      <3>1. CASE pc \in Executors /\ Outlived
        BY <3>1, OutlivedKeeps
      <3>2. CASE UNCHANGED <<orphans, leftBehind>>
        BY <3>2 DEF RollbackInv, WorkspaceTypeOK, OnlyOrphans
      <3>3. QED
        BY <1>7, <3>1, <3>2 DEF Die
    <2>3. interrupted' \in BOOLEAN /\ asked' \subseteq Paths
      BY <1>7 DEF Die, RollbackInv, WorkspaceTypeOK
    <2>4. UNCHANGED <<file, writes, index, commits, head, checkpoints, restored>>
      BY <1>7 DEF Die
    <2>5. WorkspaceTypeOK'
      BY <2>2, <2>3, <2>4 DEF RollbackInv, WorkspaceTypeOK
    <2>6. QED
      BY <2>1, <2>2, <2>4, <2>5, ForgetsRollback
  <1>8. QED
    BY <1>1, <1>2, <1>3, <1>4, <1>5, <1>6, <1>7

\* A rollback to a checkpoint of a clean tree gives every file back, beside files git does
\* not know and where something that has outlived its call can write, whatever was
\* staged, committed, failed or cut short since the checkpoint was made.
THEOREM RollbackAlwaysRestores == Spec => []RollbackRestores
  <1>1. RollbackInv /\ [Next]_vars => RollbackInv'
    <2>1. SUFFICES ASSUME RollbackInv, [Next]_vars
                   PROVE  RollbackInv'
      OBVIOUS
    <2>2. CASE Next
      BY <2>1, <2>2, ExecutorsKeepRollback, ManagerKeepsRollback DEF Next
    <2>3. CASE UNCHANGED vars
      BY <2>1, <2>3 DEF vars, gitVars, histories, RollbackInv, WorkspaceTypeOK,
                        CheckpointsHeld, OnlyOrphans, RollbackRestores, Tracked, Writable
    <2>4. QED
      BY <2>1, <2>2, <2>3
  <1>2. RollbackInv => RollbackRestores
    BY DEF RollbackInv
  <1>3. QED
    BY InitRollbackInv, <1>1, <1>2, PTL DEF Spec

----------------------------------------------------------------------------
(* The commit.                                                             *)

\* The commit that stage_and_commit returns holds what it was asked for and else what
\* its parent holds, as long as no git command has failed and the process has not
\* died inside the method since the last rollback.
THEOREM CommitsHoldWork == Spec => []CommitHoldsWork
  <1> DEFINE Inv == RollbackInv /\ CommitInv
  <1>1. Init => Inv
    <2>1. Init => CommitInv
      BY DEF Init, CommitInv
    <2>2. QED
      BY <2>1, InitRollbackInv
  <1>2. Inv /\ [Next]_vars => Inv'
    <2>1. SUFFICES ASSUME Inv, [Next]_vars
                   PROVE  CommitInv'
      <3>1. RollbackInv /\ [Next]_vars => RollbackInv'
        BY ExecutorsKeepRollback, ManagerKeepsRollback
           DEF Next, vars, gitVars, histories, RollbackInv, WorkspaceTypeOK,
               CheckpointsHeld, OnlyOrphans, RollbackRestores, Tracked, Writable
      <3>2. QED
        BY <3>1
    <2> USE DEF gitVars, histories, CommitInv
    <2>2. CASE StartProcess \/ CheckDockerAvailable \/ StartContainer \/ CommandWrites
               \/ CommandEnds \/ LeaveBehind \/ OrphanEnds \/ CreateCheckpoint
               \/ BeginStageAndCommit \/ ReturnHead
      BY <2>1, <2>2 DEF StartProcess, Start, CheckDockerAvailable, StartContainer,
                        CommandWrites, CommandEnds, LeaveBehind, OrphanEnds, Executors,
                        CreateCheckpoint, BeginStageAndCommit, ReturnHead
    <2>3. CASE GitAdd
      <3>1. CASE GitFails("commit")
        BY <2>1, <3>1 DEF GitFails
      <3>2. CASE /\ index' = [p \in Paths |-> IF p \in asked THEN file[p] ELSE index[p]]
                 /\ staged' = [p \in Paths |-> IF p \in asked THEN file[p]
                                                             ELSE commits[head][p]]
                 /\ pc' = "commit"
                 /\ UNCHANGED <<commits, head, interrupted>>
        <4>1. ~interrupted => index = commits[head]
          BY <2>1, <2>3 DEF GitAdd
        <4>2. QED
          BY <3>2, <4>1
      <3>3. QED
        BY <2>3, <3>1, <3>2 DEF GitAdd
    <2>4. CASE GitCommit
      <3>1. CASE GitFails("return")
        BY <2>1, <3>1 DEF GitFails
      <3>2. CASE /\ commits' = Append(commits, index)
                 /\ head' = Len(commits) + 1
                 /\ pc' = "return"
                 /\ UNCHANGED <<index, staged, interrupted>>
        <4>1. commits'[head'] = index
          BY <2>1, <3>2, AppendHolds DEF RollbackInv, WorkspaceTypeOK
        <4>2. QED
          BY <2>1, <2>4, <3>2, <4>1 DEF GitCommit
      <3>3. CASE /\ index = commits[head]
                 /\ pc' = "return"
                 /\ UNCHANGED <<gitVars, staged, interrupted>>
        BY <2>1, <2>4, <3>3 DEF GitCommit
      <3>4. QED
        BY <2>4, <3>1, <3>2, <3>3 DEF GitCommit
    <2>5. CASE RollbackToCheckpoint
      BY <2>1, <2>5 DEF RollbackToCheckpoint, ResetHard
    <2>6. CASE Die
      BY <2>1, <2>6 DEF Die, Executors
    <2>7. CASE UNCHANGED vars
      BY <2>1, <2>7 DEF vars
    <2>8. QED
      BY <2>1, <2>2, <2>3, <2>4, <2>5, <2>6, <2>7 DEF Next
  <1>3. Inv => CommitHoldsWork
    BY DEF CommitInv, CommitHoldsWork
  <1>4. QED
    BY <1>1, <1>2, <1>3, PTL DEF Spec
==============================================================================
