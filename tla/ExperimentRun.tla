---------------------------- MODULE ExperimentRun ----------------------------
(***************************************************************************)
(* `dar experiment run` (_cmd_experiment_run of cli.py): for every task    *)
(* file and every repeat a copy of the task's fixture is made, the two     *)
(* arms work in it, a report is saved and an entry noted; at the end the   *)
(* run's manifest is written.  The commands share one data directory, one  *)
(* after the other or at the same time, and each may die anywhere.  The    *)
(* place of a copy is given by the task id and the number of the repeat,   *)
(* so that other runs, and task files that give the same id, use it too.   *)
(* What the arms do is the business of DurableRuntime and Comparison; here *)
(* it matters in whose copy they do it.                                    *)
(***************************************************************************)
EXTENDS Naturals, FiniteSets, Sequences

CONSTANTS
    Runs,      \* the commands
    Tasks,     \* the task ids and names the task files give
    Configs,   \* the configurations: the task of each file, and how often it is repeated
    Torn,      \* a manifest that is not all written
    None

ASSUME ConfigsAssumption == Configs \subseteq [tasks : Seq(Tasks), repeats : Nat]

\* The repeats of the commands, and the copies they make.
Marks == Runs \X Nat \X Nat
Copies == [by : Marks, whole : BOOLEAN, used : SUBSET Marks]

ASSUME NoneAssumption == None \notin Copies

VARIABLES
    run,        \* what each command knows, and where it is
    repo,       \* the copy at each place
    reports,    \* the reports of the data directory
    manifests,  \* the manifest of each run
    overlapped  \* history: the runs beside which another one has been under way

vars == <<run, repo, reports, manifests, overlapped>>

----------------------------------------------------------------------------

Places == UNION {Tasks \X (1..c.repeats) : c \in Configs}

TaskOf(s) == s.config.tasks[s.file]
LastFile(s) == Len(s.config.tasks)

Over == {"off", "ended", "aborted", "dead"}
UnderWay(r) == run[r].pc \notin Over

\* A repeat of a run, the owner of the copy it makes.
Mark(r) == <<r, run[r].file, run[r].rep>>
Place(r) == <<TaskOf(run[r]), run[r].rep>>

Fresh == [pc |-> "off", config |-> None, file |-> 1, rep |-> 1, open |-> TRUE, clean |-> TRUE,
          won |-> FALSE, entries |-> <<>>, counted |-> [t \in Tasks |-> <<>>], errors |-> {}]

Init ==
    /\ run = [r \in Runs |-> Fresh]
    /\ repo = [p \in Places |-> None]
    /\ reports = {}
    /\ manifests = [r \in Runs |-> None]
    /\ overlapped = {}

At(r, label) == run[r].pc = label
Goto(r, label) == run' = [run EXCEPT ![r].pc = label]

\* The command is over, and what it had in memory is gone.
Gone(r, label) == run' = [run EXCEPT ![r] = [Fresh EXCEPT !.pc = label]]

\* The first repeat of the file, or the next file if it has none.
FirstRepeat(s) ==
    IF s.config.repeats = 0
    THEN [s EXCEPT !.file = @ + 1]
    ELSE [s EXCEPT !.rep = 1, !.pc = "prepare"]

\* The next repeat of the file, or the next file.
NextRepeat(s) ==
    LET next == [s EXCEPT !.clean = TRUE, !.won = FALSE]
    IN  IF s.rep < s.config.repeats
        THEN [next EXCEPT !.rep = @ + 1, !.pc = "prepare"]
        ELSE [next EXCEPT !.file = @ + 1, !.pc = "load"]

\* except Exception: the message is printed and nothing else is kept of the repeat.
Report(s) == NextRepeat([s EXCEPT !.errors = @ \cup {<<s.file, s.rep>>}])
Fails(r) == run' = [run EXCEPT ![r] = Report(@)]

----------------------------------------------------------------------------

\* The configuration is read and the provider built.
Start(r) ==
    /\ At(r, "off")
    /\ \E config \in Configs :
          run' = [run EXCEPT ![r].pc = "load", ![r].config = config]
    /\ overlapped' = overlapped \cup
           (IF \E s \in Runs : UnderWay(s) THEN {r} \cup {s \in Runs : UnderWay(s)} ELSE {})
    /\ UNCHANGED <<repo, reports, manifests>>

\* There is no such configuration or provider, or no API key: nothing is begun.
Refuse(r) ==
    /\ At(r, "off")
    /\ Gone(r, "aborted")
    /\ UNCHANGED <<repo, reports, manifests, overlapped>>

\* The task file is announced and loaded, outside the try: what fails here ends the
\* command, and the entries of the files before it are lost.
LoadTask(r) ==
    /\ At(r, "load")
    /\ \/ /\ run[r].file <= LastFile(run[r])
          /\ run[r].open
          /\ run' = [run EXCEPT ![r] = FirstRepeat(@)]
       \/ /\ run[r].file <= LastFile(run[r])
          /\ Gone(r, "aborted")
       \/ /\ run[r].file > LastFile(run[r])
          /\ Goto(r, "manifest")
    /\ UNCHANGED <<repo, reports, manifests, overlapped>>

\* Mutant: a copy that is there is used again.
KeepWorkspace(r) ==
    /\ At(r, "prepare")
    /\ Goto(r, IF repo[Place(r)] = None THEN "copy" ELSE "baseline")
    /\ UNCHANGED <<repo, reports, manifests, overlapped>>

\* _prepare_task_workspace: a copy that is there is removed, which may fail half way.
RemoveWorkspace(r) ==
    /\ At(r, "prepare")
    /\ \/ /\ Goto(r, "copy")
          /\ repo' = [repo EXCEPT ![Place(r)] = None]
       \/ /\ Fails(r)
          /\ \/ UNCHANGED repo
             \/ /\ repo[Place(r)] # None
                /\ repo' = [repo EXCEPT ![Place(r)].whole = FALSE]
    /\ UNCHANGED <<reports, manifests, overlapped>>

\* copytree begins; it refuses a directory that is there again.
BeginCopy(r) ==
    /\ At(r, "copy")
    /\ \/ /\ repo[Place(r)] = None
          /\ repo' = [repo EXCEPT ![Place(r)] =
                          [by |-> Mark(r), whole |-> FALSE, used |-> {}]]
          /\ Goto(r, "copying")
       \/ /\ repo[Place(r)] # None
          /\ Fails(r)
          /\ UNCHANGED repo
    /\ UNCHANGED <<reports, manifests, overlapped>>

\* It ends, or fails and leaves what it has copied.  If another run has removed the copy
\* meanwhile it may not notice.
EndCopy(r) ==
    /\ At(r, "copying")
    /\ \/ /\ Goto(r, "baseline")
          /\ repo' = IF repo[Place(r)] # None /\ repo[Place(r)].by = Mark(r)
                     THEN [repo EXCEPT ![Place(r)].whole = TRUE] ELSE repo
       \/ /\ Fails(r)
          /\ UNCHANGED repo
    /\ UNCHANGED <<reports, manifests, overlapped>>

\* The copy is the one made for this repeat, whole, and only its own arms have used it.
IsOwn(r) ==
    LET copy == repo[Place(r)]
    IN  /\ copy # None
        /\ copy.by = Mark(r) /\ copy.whole /\ copy.used \subseteq {Mark(r)}

\* An arm works in what it finds; an exception it does not catch ends the repeat.  Whether
\* it succeeds is kept for the durable arm; for the other one it is counted alike.
RunArm(r, arm, next) ==
    /\ At(r, arm)
    /\ repo' = IF repo[Place(r)] = None THEN repo
               ELSE [repo EXCEPT ![Place(r)].used = @ \cup {Mark(r)}]
    /\ \/ \E won \in IF arm = "durable" THEN BOOLEAN ELSE {FALSE} :
             run' = [run EXCEPT ![r].pc = next, ![r].clean = @ /\ IsOwn(r),
                                ![r].won = won]
       \/ Fails(r)
    /\ UNCHANGED <<reports, manifests, overlapped>>

RunComparison(r) == RunArm(r, "baseline", "durable") \/ RunArm(r, "durable", "save")

\* Mutant: the entry is noted before the report is saved.
SaveAfterEntry(r) ==
    /\ At(r, "save")
    /\ LET noted == [run[r] EXCEPT !.pc = "print",
                         !.entries = Append(@, [file |-> run[r].file, rep |-> run[r].rep,
                                                won |-> run[r].won, clean |-> run[r].clean])]
       IN  \/ /\ run' = [run EXCEPT ![r] = noted]
              /\ reports' = reports \cup {Mark(r)}
           \/ /\ run' = [run EXCEPT ![r] = Report(noted)]
              /\ UNCHANGED reports
    /\ UNCHANGED <<repo, manifests, overlapped>>

\* save_report, and the entry is noted.  A report that cannot be written has no entry.
SaveReport(r) ==
    /\ At(r, "save")
    /\ \/ /\ run' = [run EXCEPT ![r].pc = "print",
                         ![r].entries = Append(@, [file |-> run[r].file, rep |-> run[r].rep,
                                                   won |-> run[r].won, clean |-> run[r].clean])]
          /\ reports' = reports \cup {Mark(r)}
       \/ /\ Fails(r)
          /\ UNCHANGED reports
    /\ UNCHANGED <<repo, manifests, overlapped>>

\* The repeat is counted for its task.
Counted(s) == [s EXCEPT !.counted[TaskOf(s)] = Append(@, s.won)]

\* Mutant: a repeat counts only if it was won.
CountRepeatIfWon(r) ==
    /\ At(r, "print")
    /\ run' = [run EXCEPT ![r] =
                  NextRepeat(IF run[r].open /\ run[r].won THEN Counted(@) ELSE @)]
    /\ UNCHANGED <<repo, reports, manifests, overlapped>>

\* The line is printed and the repeat counted; if the line cannot be printed the repeat
\* is reported as failed, and is not counted.
CountRepeat(r) ==
    /\ At(r, "print")
    /\ run' = [run EXCEPT ![r] =
                  IF run[r].open THEN NextRepeat(Counted(@)) ELSE Report(@)]
    /\ UNCHANGED <<repo, reports, manifests, overlapped>>

\* _save_run_manifest, not in one step.
BeginManifest(r) ==
    /\ At(r, "manifest")
    /\ Goto(r, "writing")
    /\ manifests' = [manifests EXCEPT ![r] = Torn]
    /\ UNCHANGED <<repo, reports, overlapped>>

EndManifest(r) ==
    /\ At(r, "writing")
    /\ Goto(r, "ended")
    /\ manifests' = [manifests EXCEPT ![r] =
                        [entries |-> run[r].entries, task_summary |-> run[r].counted,
                         reports_saved |-> Len(run[r].entries)]]
    /\ UNCHANGED <<repo, reports, overlapped>>

\* Who reads the output goes away; from then on nothing can be printed.
CloseOutput(r) ==
    /\ UnderWay(r) /\ run[r].open
    /\ run' = [run EXCEPT ![r].open = FALSE]
    /\ UNCHANGED <<repo, reports, manifests, overlapped>>

Die(r) ==
    /\ UnderWay(r)
    /\ Gone(r, "dead")
    /\ UNCHANGED <<repo, reports, manifests, overlapped>>

Step(r) ==
    \/ LoadTask(r) \/ RemoveWorkspace(r) \/ BeginCopy(r) \/ EndCopy(r) \/ RunComparison(r)
    \/ SaveReport(r) \/ CountRepeat(r) \/ BeginManifest(r) \/ EndManifest(r)

Next == \E r \in Runs : Start(r) \/ Refuse(r) \/ Step(r) \/ CloseOutput(r) \/ Die(r)

Spec == Init /\ [][Next]_vars

----------------------------------------------------------------------------
(* Properties.                                                             *)

\* The "isolated run workspace" of _prepare_task_workspace: both arms of every
\* comparison that is noted worked in the whole copy made for it, which nothing else
\* had used, whatever runs before it left there, dead or alive, and though files share a
\* task id; unless another run was under way at the same time.
ComparisonIsolated ==
    \A r \in Runs \ overlapped : \A i \in DOMAIN run[r].entries : run[r].entries[i].clean

\* A manifest leaves nothing out unsaid: every repeat of every file has an entry, or its
\* failure was reported; no repeat has two entries, and the report of every entry is there.
EveryRepeatAccounted ==
    \A r \in Runs : manifests[r] \notin {None, Torn} =>
        LET entries == manifests[r].entries
            done == {<<entries[i].file, entries[i].rep>> : i \in DOMAIN entries}
        IN  /\ done \cup run[r].errors = (1..LastFile(run[r])) \X (1..run[r].config.repeats)
            /\ Cardinality(done) = Len(entries)
            /\ \A d \in done : <<r, d[1], d[2]>> \in reports
            /\ manifests[r].reports_saved = Len(entries)

\* The summary of a manifest counts what its entries say, with the same successes in the
\* same order; what it leaves out can only be entries of the last file, after the output
\* was closed.
SummaryMatchesEntries ==
    \A r \in Runs : manifests[r] \notin {None, Torn} =>
        \A t \in Tasks :
            LET entries == manifests[r].entries
                counted == manifests[r].task_summary[t]
                OfTask == {i \in DOMAIN entries : run[r].config.tasks[entries[i].file] = t}
                Rank(i) == Cardinality({j \in OfTask : j <= i})
            IN  /\ Len(counted) <= Cardinality(OfTask)
                /\ \A i \in OfTask :
                      Rank(i) <= Len(counted) => counted[Rank(i)] = entries[i].won
                /\ \A i \in OfTask :
                      run[r].open \/ entries[i].file < LastFile(run[r])
                          => Rank(i) <= Len(counted)
==============================================================================
