------------------------------ MODULE Workspace ------------------------------
(***************************************************************************)
(* The workspace of a task: the executors that change its files            *)
(* (execution/process_executor.py, execution/docker_executor.py) and the   *)
(* GitCheckpointManager that records and resets them (recovery/manager.py).*)
(* One process uses them, in any order; it may die inside a method.  What  *)
(* a command starts may outlive its call: the time-out of subprocess.run   *)
(* kills the child alone, not a descendant of it, nor the container of     *)
(* `docker run`.  Commands leave .git alone.  Git is as the manager uses   *)
(* it: any command of it may fail without an effect, and _git does not     *)
(* look at the exit code.                                                  *)
(***************************************************************************)
EXTENDS Naturals, Sequences, FiniteSets

CONSTANTS
    Paths,          \* the files of the workspace
    Output,         \* those under output/, the only ones a container can write
    None,
    MaxWrites,      \* bound: file contents that are written
    MaxCommits,     \* bound: commits
    MaxCheckpoints, \* bound: checkpoints
    MaxOrphans      \* bound: calls outlived by what they started, at one time

ASSUME OutputAssumption == Output \subseteq Paths
ASSUME NoneAssumption == None \notin Nat
ASSUME BoundsAssumption ==
    MaxWrites \in Nat /\ MaxCommits \in Nat \ {0} /\ MaxCheckpoints \in Nat
    /\ MaxOrphans \in Nat

VARIABLES
    file,         \* what each path holds
    writes,       \* contents written so far; each is another one
    index,        \* git: what is staged
    commits,      \* git: the tree of each commit
    head,         \* git: HEAD
    pc,           \* the method the process is in, and how far
    asked,        \* the paths of the stage_and_commit under way
    available,    \* DockerExecutor._docker_available
    orphans,      \* calls of each executor that have left something running
    checkpoints,  \* the checkpoints recorded
    restored,     \* history: the checkpoint whose rollback was the last thing done
    staged,       \* history: what the commit under way is meant to hold
    interrupted,  \* history: since the index was last reset a command failed or the process died
    leftBehind    \* history: the executors a call of which has left something running

gitVars == <<index, commits, head>>
histories == <<restored, staged, interrupted, leftBehind>>
vars == <<file, writes, gitVars, pc, asked, available, orphans, checkpoints, histories>>

----------------------------------------------------------------------------

\* ProcessExecutor and DockerExecutor, and what a command of each can write: the workspace
\* is mounted read-only in a container, beside output/.
Executors == {"process", "container"}
Writable(executor) == IF executor = "process" THEN Paths ELSE Output

Absent == 0
NotProbed == "unknown"

\* Git knows a path that is staged; an untracked one it leaves alone.
Tracked(p) == index[p] # Absent

\* git status --porcelain prints nothing.
IsClean == index = commits[head] /\ file = index

Init ==
    /\ file \in {t \in [Paths -> 0..1] : \A p \in Output : t[p] = Absent}
    /\ writes = 1
    /\ index = file
    /\ commits = <<file>>
    /\ head = 1
    /\ pc = "idle"
    /\ asked = {}
    /\ available = NotProbed
    /\ orphans = [e \in Executors |-> 0]
    /\ checkpoints = <<>>
    /\ restored = None
    /\ staged = None
    /\ interrupted = FALSE
    /\ leftBehind = {}

\* A path is written, with something new, or removed.
Change(p) ==
    \/ /\ writes < MaxWrites
       /\ writes' = writes + 1
       /\ file' = [file EXCEPT ![p] = writes + 1]
    \/ /\ file[p] # Absent
       /\ file' = [file EXCEPT ![p] = Absent]
       /\ UNCHANGED writes

----------------------------------------------------------------------------
(* The executors.                                                          *)

\* _check_docker_available asks `docker info` once and remembers the answer, also that
\* of an attempt that failed or took too long.
CheckDockerAvailable ==
    /\ pc = "idle"
    /\ available = NotProbed
    /\ available' \in {"yes", "no"}
    /\ restored' = None
    /\ UNCHANGED <<file, writes, gitVars, pc, asked, orphans, checkpoints, staged,
                   interrupted, leftBehind>>

\* Bound: no more calls than can be outlived.
Start(executor) ==
    /\ pc = "idle"
    /\ orphans["process"] + orphans["container"] < MaxOrphans
    /\ pc' = executor
    /\ restored' = None
    /\ UNCHANGED <<file, writes, gitVars, asked, available, orphans, checkpoints, staged,
                   interrupted, leftBehind>>

StartProcess == Start("process")

\* Refused, when docker is not available: nothing happens.
StartContainer == available = "yes" /\ Start("container")

\* A command, waited for or not.
CommandWrites ==
    /\ \E e \in Executors :
          /\ pc = e \/ orphans[e] > 0
          /\ \E p \in Writable(e) : Change(p)
    /\ UNCHANGED <<gitVars, pc, asked, available, orphans, checkpoints, histories>>

\* The command ends, or is killed, and the call with it.
CommandEnds ==
    /\ pc \in Executors
    /\ pc' = "idle"
    /\ UNCHANGED <<file, writes, gitVars, asked, available, orphans, checkpoints, histories>>

Outlived ==
    /\ orphans' = [orphans EXCEPT ![pc] = @ + 1]
    /\ leftBehind' = leftBehind \cup {pc}

\* TimeoutExpired: the call has failed, and what the killed child has started goes on.  A
\* process in the background outlives a call that has succeeded as well.
LeaveBehind ==
    /\ pc \in Executors
    /\ pc' = "idle"
    /\ Outlived
    /\ UNCHANGED <<file, writes, gitVars, asked, available, checkpoints, restored, staged,
                   interrupted>>

OrphanEnds ==
    /\ \E e \in Executors : orphans[e] > 0 /\ orphans' = [orphans EXCEPT ![e] = @ - 1]
    /\ UNCHANGED <<file, writes, gitVars, pc, asked, available, checkpoints, histories>>

----------------------------------------------------------------------------
(* GitCheckpointManager.                                                   *)

\* A command that fails changes nothing, and the method goes on.
GitFails(next) ==
    /\ pc' = next
    /\ interrupted' = TRUE
    /\ UNCHANGED <<gitVars, staged>>

\* seen and clean are history: the files at that time, and whether all were committed.
Checkpoint(commit) == [commit |-> commit, seen |-> file, clean |-> IsClean]

\* The checkpoint records whatever commit is the last one, and not the working tree.
CreateCheckpoint ==
    /\ pc = "idle"
    /\ Len(checkpoints) < MaxCheckpoints
    /\ \E commit \in {head, None} :
          checkpoints' = Append(checkpoints, Checkpoint(commit))
    /\ restored' = None
    /\ UNCHANGED <<file, writes, gitVars, pc, asked, available, orphans, staged,
                   interrupted, leftBehind>>

\* stage_and_commit, of some paths or of all.
BeginStageAndCommit ==
    /\ pc = "idle"
    /\ Len(commits) < MaxCommits
    /\ asked' \in SUBSET Paths \ {{}}
    /\ pc' = "add"
    /\ restored' = None
    /\ UNCHANGED <<file, writes, gitVars, available, orphans, checkpoints, staged,
                   interrupted, leftBehind>>

\* git add refuses all of its paths if it does not know one of them.
GitAdd ==
    /\ pc = "add"
    /\ \/ /\ asked = Paths \/ \A p \in asked : file[p] # Absent \/ Tracked(p)
          /\ index' = [p \in Paths |-> IF p \in asked THEN file[p] ELSE index[p]]
          /\ staged' = [p \in Paths |-> IF p \in asked THEN file[p] ELSE commits[head][p]]
          /\ pc' = "commit"
          /\ UNCHANGED <<commits, head, interrupted>>
       \/ GitFails("commit")
    /\ UNCHANGED <<file, writes, asked, available, orphans, checkpoints, restored, leftBehind>>

\* Mutant: git commit -a takes along every change of a file git knows.
GitCommitAll ==
    /\ pc = "commit"
    /\ LET tree == [p \in Paths |-> IF Tracked(p) THEN file[p] ELSE Absent]
       IN  \/ /\ tree # commits[head]
              /\ commits' = Append(commits, tree)
              /\ index' = tree
              /\ head' = Len(commits) + 1
              /\ pc' = "return"
              /\ UNCHANGED <<staged, interrupted>>
           \/ GitFails("return")
    /\ UNCHANGED <<file, writes, asked, available, orphans, checkpoints, restored, leftBehind>>

\* git commit takes what is staged; if that is nothing new it fails, and so may a hook.
GitCommit ==
    /\ pc = "commit"
    /\ \/ /\ index # commits[head]
          /\ commits' = Append(commits, index)
          /\ head' = Len(commits) + 1
          /\ pc' = "return"
          /\ UNCHANGED <<index, staged, interrupted>>
       \/ /\ index = commits[head]
          /\ pc' = "return"
          /\ UNCHANGED <<gitVars, staged, interrupted>>
       \/ /\ index # commits[head]
          /\ GitFails("return")
    /\ UNCHANGED <<file, writes, asked, available, orphans, checkpoints, restored, leftBehind>>

\* What is returned is HEAD, whatever the two commands did.
ReturnHead ==
    /\ pc = "return"
    /\ pc' = "idle"
    /\ asked' = {}
    /\ staged' = None
    /\ UNCHANGED <<file, writes, gitVars, available, orphans, checkpoints, restored,
                   interrupted, leftBehind>>

\* Mutant: without --hard, git reset leaves the files.
ResetMixed(tree) ==
    /\ index' = tree
    /\ UNCHANGED file

\* git reset --hard: the index and the tracked files become those of the commit.
ResetHard(tree) ==
    /\ index' = tree
    /\ file' = [p \in Paths |-> IF tree[p] # Absent \/ Tracked(p) THEN tree[p] ELSE file[p]]

\* rollback_to_checkpoint.  Of no commit, or when git fails, it changes nothing and returns
\* all the same.
RollbackToCheckpoint ==
    /\ pc = "idle"
    /\ \E i \in 1..Len(checkpoints) :
          LET commit == checkpoints[i].commit
          IN  \/ /\ commit # None
                 /\ ResetHard(commits[commit])
                 /\ head' = commit
                 /\ restored' = i
                 /\ interrupted' = FALSE
              \/ /\ restored' = None
                 /\ UNCHANGED <<file, index, head, interrupted>>
    /\ UNCHANGED <<writes, commits, pc, asked, available, orphans, checkpoints, staged,
                   leftBehind>>

\* The process dies, or a git command takes longer than _git waits and the method is left:
\* a command that runs goes on, what is staged stays staged.
Die ==
    /\ pc # "idle"
    /\ pc' = "idle"
    /\ asked' = {}
    /\ staged' = None
    /\ available' \in {available, NotProbed}
    /\ \/ pc \in Executors /\ Outlived /\ UNCHANGED interrupted
       \/ pc \notin Executors /\ interrupted' = TRUE /\ UNCHANGED <<orphans, leftBehind>>
    /\ UNCHANGED <<file, writes, gitVars, checkpoints, restored>>

Next ==
    \/ StartProcess \/ CheckDockerAvailable \/ StartContainer
    \/ CommandWrites \/ CommandEnds \/ LeaveBehind \/ OrphanEnds
    \/ CreateCheckpoint \/ BeginStageAndCommit \/ GitAdd \/ GitCommit \/ ReturnHead
    \/ RollbackToCheckpoint \/ Die

Spec == Init /\ [][Next]_vars

----------------------------------------------------------------------------
(* Properties.                                                             *)

\* A rollback to a checkpoint that was made of a clean tree gives back every file as it
\* was then, and leaves beside them only files git does not know, whatever was
\* staged, committed, failed or cut short since: under output/ only if no container has
\* outlived its call, and anywhere only if no process of the other executor has.
RollbackRestores ==
    restored # None /\ checkpoints[restored].clean =>
        \A p \in Paths \ UNION {Writable(e) : e \in leftBehind} :
            \/ file[p] = checkpoints[restored].seen[p]
            \/ checkpoints[restored].seen[p] = Absent /\ ~Tracked(p)

\* The commit stage_and_commit returns holds the paths it was asked for as they were when
\* it staged them, and else what its parent holds, unless since the last rollback a git
\* command has failed or the process has died inside the method: then it may return an
\* older commit, or take along what was staged before.
CommitHoldsWork ==
    pc = "return" /\ ~interrupted => commits[head] = staged
==============================================================================
