------------------------- MODULE ExperimentRunProofs -------------------------
(***************************************************************************)
(* Theorems about the runs of experiments, for every number of commands,   *)
(* every configuration and every way in which commands overlap, fail and   *)
(* die.                                                                    *)
(***************************************************************************)
EXTENDS ExperimentRun, FiniteSetTheorems, TLAPS

LEMMA PlaceIsThere ==
    ASSUME NEW c \in Configs, NEW t \in Tasks, NEW n \in 1..c.repeats
    PROVE  <<t, n>> \in Places
  BY DEF Places

----------------------------------------------------------------------------
(* What a command knows.                                                   *)

\* The places of the loop over the repeats of a file.
InRepeat == {"prepare", "copy", "copying", "baseline", "durable", "save", "print"}
AfterFiles == {"manifest", "writing", "ended"}
Labels == {"off", "load"} \cup InRepeat \cup AfterFiles \cup {"aborted", "dead"}

Entries == [file : Nat, rep : Nat, won : BOOLEAN, clean : BOOLEAN]
EntryLists == Seq(Entries)
Counts == [Tasks -> Seq(BOOLEAN)]
ErrorSets == SUBSET (Nat \X Nat)

Knowledge ==
    [pc : Labels, config : Configs \cup {None}, file : Nat, rep : Nat, open : BOOLEAN,
     clean : BOOLEAN, won : BOOLEAN, entries : EntryLists, counted : Counts,
     errors : ErrorSets]

\* A command that has begun has a configuration; in the loop it is at one of its repeats.
Shaped(s) ==
    /\ s.pc = "off" => s = Fresh
    /\ s.pc \notin {"off", "aborted", "dead"} =>
          s.config \in Configs /\ s.file > 0 /\ s.file <= LastFile(s) + 1
    /\ s.pc \in InRepeat => s.file <= LastFile(s) /\ s.rep \in 1..s.config.repeats
    /\ s.pc \in AfterFiles => s.file = LastFile(s) + 1
    /\ s.pc \in {"load", "prepare", "copy", "copying", "baseline"} => s.clean

RunsOK ==
    /\ run \in [Runs -> Knowledge]
    /\ \A r \in Runs : Shaped(run[r])

LEMMA ConfigType ==
    ASSUME NEW s \in Knowledge, s.config \in Configs
    PROVE  /\ LastFile(s) \in Nat /\ s.config.repeats \in Nat
           /\ \A f \in 1..LastFile(s) : s.config.tasks[f] \in Tasks
  BY ConfigsAssumption DEF LastFile

LEMMA FreshType == Fresh \in Knowledge
  BY DEF Fresh, Knowledge, Labels, EntryLists, Counts, ErrorSets

----------------------------------------------------------------------------
(* How a step changes it.                                                  *)

\* The fields that tell which repeats are behind, and what was kept of them.
Same(s, u) ==
    /\ u.config = s.config /\ u.file = s.file /\ u.entries = s.entries /\ u.errors = s.errors
    /\ u.counted = s.counted

Begins(s, u) ==
    /\ s.pc = "off" /\ u.pc = "load" /\ u.config \in Configs
    /\ u.file = 1 /\ u.entries = <<>> /\ u.errors = {} /\ u.clean
    /\ u.counted = [t \in Tasks |-> <<>>]

Vanishes(s, u) ==
    /\ s.pc # "ended" /\ u.pc \in {"aborted", "dead"}
    /\ u.entries = <<>> /\ u.errors = {}

\* A file that is not repeated at all.
Skips(s, u) ==
    /\ s.pc = "load" /\ u.pc = "load" /\ s.file <= LastFile(s) /\ s.config.repeats = 0
    /\ u.config = s.config /\ u.file = s.file + 1
    /\ u.entries = s.entries /\ u.errors = s.errors /\ u.clean = s.clean
    /\ s.open /\ u.counted = s.counted

Opens(s, u) ==
    /\ s.pc = "load" /\ u.pc = "prepare" /\ s.file <= LastFile(s) /\ s.config.repeats # 0
    /\ Same(s, u) /\ u.rep = 1 /\ u.clean = s.clean
    /\ s.open

Closes(s, u) ==
    /\ \/ s.pc = "load" /\ u.pc = "manifest" /\ s.file > LastFile(s)
       \/ s.pc = "manifest" /\ u.pc = "writing"
       \/ s.pc = "writing" /\ u.pc = "ended"
    /\ Same(s, u) /\ u.open = s.open

Works(s, u) ==
    /\ \/ s.pc = "prepare" /\ u.pc = "copy" /\ u.clean = s.clean
       \/ s.pc = "copy" /\ u.pc = "copying" /\ u.clean = s.clean
       \/ s.pc = "copying" /\ u.pc = "baseline" /\ u.clean = s.clean
       \/ s.pc = "baseline" /\ u.pc = "durable"
       \/ s.pc = "durable" /\ u.pc = "save"
    /\ Same(s, u) /\ u.rep = s.rep /\ u.open = s.open

Notes(s, u) ==
    /\ s.pc = "save" /\ u.pc = "print"
    /\ u.config = s.config /\ u.file = s.file /\ u.rep = s.rep /\ u.errors = s.errors
    /\ u.clean = s.clean /\ u.open = s.open /\ u.won = s.won /\ u.counted = s.counted
    /\ u.entries = Append(s.entries, [file |-> s.file, rep |-> s.rep, won |-> s.won,
                                      clean |-> s.clean])

\* The next repeat of the file or the next file.
Ahead(s, u) ==
    /\ \/ s.rep < s.config.repeats /\ u.pc = "prepare" /\ u.file = s.file /\ u.rep = s.rep + 1
       \/ s.rep = s.config.repeats /\ u.pc = "load" /\ u.file = s.file + 1
    /\ u.clean /\ u.open = s.open
    /\ u.config = s.config /\ u.entries = s.entries

\* Whether the repeat will be counted.
IsCounted(s) == s.pc = "print" /\ s.open

\* The repeat is counted, or there is an error.
Passes(s, u) ==
    /\ s.pc \in InRepeat
    /\ Ahead(s, u)
    /\ \/ /\ IsCounted(s) /\ u.errors = s.errors
          /\ u.counted = [s.counted EXCEPT ![TaskOf(s)] = Append(@, s.won)]
       \/ /\ ~IsCounted(s) /\ u.errors = s.errors \cup {<<s.file, s.rep>>}
          /\ u.counted = s.counted

\* Nothing but whether there is still an output.
Stays(s, u) ==
    /\ s.pc \notin Over /\ u.pc = s.pc /\ Same(s, u) /\ u.rep = s.rep /\ u.clean = s.clean
    /\ u.won = s.won /\ ~u.open

Moves(s, u) ==
    \/ Begins(s, u) \/ Vanishes(s, u) \/ Skips(s, u) \/ Opens(s, u) \/ Closes(s, u)
    \/ Works(s, u) \/ Notes(s, u) \/ Passes(s, u) \/ Stays(s, u)

LEMMA NextRepeatAhead ==
    ASSUME NEW s \in Knowledge, s.rep \in 1..s.config.repeats, s.config.repeats \in Nat
    PROVE  /\ NextRepeat(s) \in Knowledge /\ Ahead(s, NextRepeat(s))
           /\ NextRepeat(s).errors = s.errors /\ NextRepeat(s).counted = s.counted
  <1>1. /\ "prepare" \in Labels /\ "load" \in Labels
        /\ s.file + 1 \in Nat /\ s.rep + 1 \in Nat
    BY DEF Labels, InRepeat, Knowledge
  <1>2. CASE s.rep < s.config.repeats
    <2>1. NextRepeat(s) = [s EXCEPT !.clean = TRUE, !.won = FALSE,
                                    !.rep = s.rep + 1, !.pc = "prepare"]
      BY <1>2 DEF NextRepeat, Knowledge
    <2>2. NextRepeat(s) \in Knowledge
      BY <1>1, <2>1 DEF Knowledge
    <2>3. QED
      BY <1>2, <2>1, <2>2 DEF Knowledge, Ahead
  <1>3. CASE s.rep = s.config.repeats
    <2>1. NextRepeat(s) = [s EXCEPT !.clean = TRUE, !.won = FALSE,
                                    !.file = s.file + 1, !.pc = "load"]
      BY <1>3 DEF NextRepeat, Knowledge
    <2>2. NextRepeat(s) \in Knowledge
      BY <1>1, <2>1 DEF Knowledge
    <2>3. QED
      BY <1>3, <2>1, <2>2 DEF Knowledge, Ahead
  <1>4. QED
    BY <1>2, <1>3

LEMMA RepeatShape ==
    ASSUME NEW s \in Knowledge, Shaped(s), s.pc \in InRepeat
    PROVE  /\ s.rep \in 1..s.config.repeats /\ s.config.repeats \in Nat
           /\ TaskOf(s) \in Tasks
  <1>1. s.config \in Configs /\ s.file \in 1..LastFile(s)
    BY ConfigType DEF Shaped, InRepeat, Knowledge
  <1>2. QED
    BY <1>1, ConfigType DEF Shaped, TaskOf

LEMMA ReportPasses ==
    ASSUME NEW s \in Knowledge, Shaped(s), s.pc \in InRepeat, ~IsCounted(s)
    PROVE  Report(s) \in Knowledge /\ Passes(s, Report(s))
  <1>1. s.file \in Nat /\ s.rep \in Nat /\ s.errors \in SUBSET (Nat \X Nat)
    BY DEF Knowledge, ErrorSets
  <1>2. PICK e : e = s.errors \cup {<<s.file, s.rep>>}
    OBVIOUS
  <1>3. e \in ErrorSets
    BY <1>1, <1>2 DEF ErrorSets
  <1>4. PICK v : v = [s EXCEPT !.errors = e]
    OBVIOUS
  <1>5. v \in Knowledge /\ Report(s) = NextRepeat(v)
    BY <1>2, <1>3, <1>4 DEF Knowledge, Report
  <1>6. /\ v.rep = s.rep /\ v.config = s.config /\ v.file = s.file /\ v.entries = s.entries
        /\ v.errors = e /\ v.open = s.open /\ v.counted = s.counted
    BY <1>4 DEF Knowledge
  <1>7. /\ Report(s) \in Knowledge /\ Ahead(v, Report(s)) /\ Report(s).errors = e
        /\ Report(s).counted = s.counted
    BY <1>5, <1>6, RepeatShape, NextRepeatAhead
  <1>8. QED
    BY <1>2, <1>6, <1>7 DEF Ahead, Passes

LEMMA CountPasses ==
    ASSUME NEW s \in Knowledge, Shaped(s), IsCounted(s),
           NEW u, u = NextRepeat(Counted(s))
    PROVE  u \in Knowledge /\ Passes(s, u)
  <1>1. TaskOf(s) \in Tasks /\ s.rep \in 1..s.config.repeats /\ s.config.repeats \in Nat
    BY RepeatShape DEF InRepeat, IsCounted
  <1>2. s.counted \in [Tasks -> Seq(BOOLEAN)] /\ s.won \in BOOLEAN
    BY DEF Knowledge, Counts
  <1>3. PICK c : c = [s.counted EXCEPT ![TaskOf(s)] = Append(@, s.won)]
    OBVIOUS
  <1>4. c \in Counts
    BY <1>1, <1>2, <1>3 DEF Counts
  <1>5. PICK v : v = [s EXCEPT !.counted = c]
    OBVIOUS
  <1>6. v \in Knowledge /\ u = NextRepeat(v)
    BY <1>3, <1>4, <1>5 DEF Knowledge, Counted
  <1>7. /\ v.rep = s.rep /\ v.config = s.config /\ v.file = s.file /\ v.entries = s.entries
        /\ v.errors = s.errors /\ v.open = s.open /\ v.counted = c
    BY <1>5 DEF Knowledge
  <1>8. u \in Knowledge /\ Ahead(v, u) /\ u.errors = s.errors /\ u.counted = c
    BY <1>1, <1>6, <1>7, NextRepeatAhead
  <1>9. QED
    BY <1>3, <1>7, <1>8 DEF Ahead, Passes, InRepeat, IsCounted

LEMMA MoveShapes ==
    ASSUME NEW s \in Knowledge, NEW u \in Knowledge, Shaped(s), Moves(s, u)
    PROVE  Shaped(u)
  <1>1. CASE Begins(s, u)
    <2>1. LastFile(u) \in Nat
      BY <1>1, ConfigType DEF Begins
    <2>2. QED
      BY <1>1, <2>1 DEF Begins, Shaped, InRepeat, AfterFiles
  <1>2. CASE Vanishes(s, u)
    BY <1>2 DEF Vanishes, Shaped, InRepeat, AfterFiles
  <1>3. ASSUME ~Begins(s, u), ~Vanishes(s, u)
        PROVE  Shaped(u)
    <2>1. /\ s.pc \notin {"off", "aborted", "dead"} /\ u.pc \notin {"off", "aborted", "dead"}
          /\ u.config = s.config
      BY <1>3 DEF Moves, Skips, Opens, Closes, Works, Notes, Passes, Ahead, Stays, Same, InRepeat, Over
    <2>2. PICK last \in Nat : LastFile(s) = last /\ LastFile(u) = last
      BY <2>1, ConfigType DEF Shaped, LastFile
    <2>3. s.config \in Configs /\ s.config.repeats \in Nat /\ s.file \in Nat /\ u.file \in Nat
      BY <2>1, ConfigType DEF Shaped, Knowledge
    <2>4. CASE Skips(s, u) \/ Opens(s, u) \/ Closes(s, u)
      BY <2>1, <2>2, <2>3, <2>4 DEF Skips, Opens, Closes, Same, Shaped, InRepeat, AfterFiles
    <2>5. CASE Works(s, u) \/ Notes(s, u) \/ Stays(s, u)
      BY <2>1, <2>2, <2>3, <2>5 DEF Works, Notes, Stays, Same, Shaped, InRepeat, AfterFiles
    <2>6. CASE Passes(s, u)
      BY <2>1, <2>2, <2>3, <2>6 DEF Passes, Ahead, Shaped, InRepeat, AfterFiles
    <2>7. QED
      BY <1>3, <2>4, <2>5, <2>6 DEF Moves
  <1>4. QED
    BY <1>1, <1>2, <1>3

\* The command r takes a step, and what it then knows is u.
Takes(r, u) == u \in Knowledge /\ Moves(run[r], u) /\ run' = [run EXCEPT ![r] = u]

LEMMA GotoTakes ==
    ASSUME RunsOK, NEW r \in Runs, NEW label \in Labels, Goto(r, label),
           Moves(run[r], [run[r] EXCEPT !.pc = label])
    PROVE  \E u : Takes(r, u)
  <1>1. [run[r] EXCEPT !.pc = label] \in Knowledge
    BY DEF RunsOK, Knowledge
  <1>2. run' = [run EXCEPT ![r] = [run[r] EXCEPT !.pc = label]]
    BY DEF Goto, RunsOK
  <1>3. QED
    BY <1>1, <1>2 DEF Takes

LEMMA GoneTakes ==
    ASSUME RunsOK, NEW r \in Runs, NEW label \in {"aborted", "dead"}, Gone(r, label),
           run[r].pc # "ended"
    PROVE  \E u : Takes(r, u)
  <1>1. PICK u : u = [Fresh EXCEPT !.pc = label]
    OBVIOUS
  <1>2. u \in Knowledge /\ Vanishes(run[r], u)
    BY <1>1, FreshType DEF Fresh, Knowledge, Labels, Vanishes
  <1>3. QED
    BY <1>1, <1>2 DEF Gone, Takes, Moves

LEMMA FailsTakes ==
    ASSUME RunsOK, NEW r \in Runs, Fails(r), run[r].pc \in InRepeat, ~IsCounted(run[r])
    PROVE  \E u : Takes(r, u) /\ Passes(run[r], u)
  <1>1. Report(run[r]) \in Knowledge /\ Passes(run[r], Report(run[r]))
    BY ReportPasses DEF RunsOK
  <1>2. QED
    BY <1>1 DEF Fails, Takes, Moves

Acts(r) == Start(r) \/ Refuse(r) \/ Step(r) \/ CloseOutput(r) \/ Die(r)

LEMMA EachTakes ==
    ASSUME RunsOK, NEW r \in Runs, Acts(r)
    PROVE  \E u : Takes(r, u)
  <1>1. run[r] \in Knowledge /\ Shaped(run[r])
    BY DEF RunsOK
  <1>2. CASE Start(r)
    <2>1. PICK c \in Configs : run' = [run EXCEPT ![r].pc = "load", ![r].config = c]
      BY <1>2 DEF Start
    <2>2. PICK u : u = [run[r] EXCEPT !.pc = "load", !.config = c]
      OBVIOUS
    <2>3. u \in Knowledge
      BY <1>1, <2>2 DEF Knowledge, Labels
    <2>4. Begins(run[r], u)
      BY <1>1, <1>2, <2>2 DEF Start, At, Begins, Shaped, Fresh
    <2>5. run' = [run EXCEPT ![r] = u]
      BY <2>1, <2>2 DEF RunsOK
    <2>6. QED
      BY <2>3, <2>4, <2>5 DEF Takes, Moves
  <1>3. CASE Refuse(r)
    BY <1>3, GoneTakes DEF Refuse, At
  <1>4. CASE CloseOutput(r)
    <2>1. PICK u : u = [run[r] EXCEPT !.open = FALSE]
      OBVIOUS
    <2>2. u \in Knowledge /\ Stays(run[r], u)
      BY <1>1, <1>4, <2>1 DEF CloseOutput, UnderWay, Knowledge, Stays, Same
    <2>3. run' = [run EXCEPT ![r] = u]
      BY <1>4, <2>1 DEF CloseOutput, RunsOK
    <2>4. QED
      BY <2>2, <2>3 DEF Takes, Moves
  <1>5. CASE Die(r)
    BY <1>5, GoneTakes DEF Die, UnderWay, Over
  <1>6. CASE LoadTask(r)
    <2>1. PICK last \in Nat : last = LastFile(run[r])
      BY <1>1, <1>6, ConfigType DEF LoadTask, At, Shaped
    <2>2. run[r].file \in Nat /\ run[r].config.repeats \in Nat
      BY <1>1, <1>6, ConfigType DEF LoadTask, At, Shaped, Knowledge
    <2>3. CASE /\ run[r].file <= last /\ run[r].open
               /\ run' = [run EXCEPT ![r] = FirstRepeat(@)]
      <3>1. PICK u : u = FirstRepeat(run[r])
        OBVIOUS
      <3>2. run' = [run EXCEPT ![r] = u]
        BY <2>3, <3>1 DEF RunsOK
      <3>3. CASE run[r].config.repeats = 0
        <4>1. u = [run[r] EXCEPT !.file = run[r].file + 1]
          BY <3>1, <3>3 DEF FirstRepeat
        <4>2. u \in Knowledge /\ Skips(run[r], u)
          BY <1>1, <1>6, <2>1, <2>2, <2>3, <3>3, <4>1 DEF LoadTask, At, Knowledge, Skips
        <4>3. QED
          BY <3>2, <4>2 DEF Takes, Moves
      <3>4. CASE run[r].config.repeats # 0
        <4>1. u = [run[r] EXCEPT !.rep = 1, !.pc = "prepare"]
          BY <3>1, <3>4 DEF FirstRepeat
        <4>2. "prepare" \in Labels
          BY DEF Labels, InRepeat
        <4>3. u \in Knowledge
          BY <1>1, <4>1, <4>2 DEF Knowledge
        <4>4. Opens(run[r], u)
          BY <1>1, <1>6, <2>1, <2>3, <3>4, <4>1 DEF LoadTask, At, Knowledge, Opens, Same
        <4>5. QED
          BY <3>2, <4>3, <4>4 DEF Takes, Moves
      <3>5. QED
        BY <3>3, <3>4
    <2>4. CASE run[r].file > last /\ Goto(r, "manifest")
      <3>1. "manifest" \in Labels
        BY DEF Labels, AfterFiles
      <3>2. Closes(run[r], [run[r] EXCEPT !.pc = "manifest"])
        BY <1>1, <1>6, <2>1, <2>4 DEF LoadTask, At, Knowledge, Closes, Same
      <3>3. QED
        BY <2>4, <3>1, <3>2, GotoTakes DEF Moves
    <2>5. CASE Gone(r, "aborted")
      BY <1>6, <2>5, GoneTakes DEF LoadTask, At
    <2>6. QED
      BY <1>6, <2>1, <2>3, <2>4, <2>5 DEF LoadTask
  <1>7. ASSUME NEW from \in {"prepare", "copy", "copying"}, At(r, from),
               NEW to \in {"copy", "copying", "baseline"},
               Goto(r, to) /\ <<from, to>> \in {<<"prepare", "copy">>, <<"copy", "copying">>,
                                                <<"copying", "baseline">>}
        PROVE  \E u : Takes(r, u)
    <2>1. to \in Labels
      BY DEF Labels, InRepeat
    <2>2. Works(run[r], [run[r] EXCEPT !.pc = to])
      BY <1>1, <1>7 DEF At, Knowledge, Works, Same
    <2>3. QED
      BY <1>7, <2>1, <2>2, GotoTakes DEF Moves
  <1>8. CASE RemoveWorkspace(r)
    BY <1>7, <1>8, FailsTakes DEF RemoveWorkspace, At, InRepeat, IsCounted
  <1>9. CASE BeginCopy(r)
    BY <1>7, <1>9, FailsTakes DEF BeginCopy, At, InRepeat, IsCounted
  <1>10. CASE EndCopy(r)
    BY <1>7, <1>10, FailsTakes DEF EndCopy, At, InRepeat, IsCounted
  <1>11. CASE RunComparison(r)
    <2>1. PICK from \in {"baseline", "durable"}, to \in {"durable", "save"} :
             /\ RunArm(r, from, to)
             /\ \/ from = "baseline" /\ to = "durable"
                \/ from = "durable" /\ to = "save"
      BY <1>11 DEF RunComparison
    <2>2. CASE Fails(r)
      BY <2>1, <2>2, FailsTakes DEF RunArm, At, InRepeat, IsCounted
    <2>3. ASSUME NEW won \in BOOLEAN,
                 run' = [run EXCEPT ![r].pc = to, ![r].clean = @ /\ IsOwn(r), ![r].won = won]
          PROVE  \E u : Takes(r, u)
      <3>1. PICK clean \in BOOLEAN : clean = (run[r].clean /\ IsOwn(r))
        OBVIOUS
      <3>2. PICK u : u = [run[r] EXCEPT !.pc = to, !.clean = clean, !.won = won]
        OBVIOUS
      <3>3. to \in Labels
        BY DEF Labels, InRepeat
      <3>4. u \in Knowledge
        BY <1>1, <3>2, <3>3 DEF Knowledge
      <3>5. Works(run[r], u)
        BY <1>1, <2>1, <3>2 DEF RunArm, At, Knowledge, Works, Same
      <3>6. run' = [run EXCEPT ![r] = u]
        BY <2>3, <3>1, <3>2 DEF RunsOK, Knowledge
      <3>7. QED
        BY <3>4, <3>5, <3>6 DEF Takes, Moves
    <2>4. QED
      BY <2>1, <2>2, <2>3 DEF RunArm
  <1>12. CASE SaveReport(r)
    <2>1. CASE Fails(r)
      BY <1>12, <2>1, FailsTakes DEF SaveReport, At, InRepeat, IsCounted
    <2>2. CASE ~Fails(r)
      <3>1. PICK e \in Entries : e = [file |-> run[r].file, rep |-> run[r].rep,
                                      won |-> run[r].won, clean |-> run[r].clean]
        BY <1>1 DEF Knowledge, Entries
      <3>2. PICK list \in EntryLists : list = Append(run[r].entries, e)
        <4>1. run[r].entries \in Seq(Entries)
          BY <1>1 DEF Knowledge, EntryLists
        <4>2. Append(run[r].entries, e) \in EntryLists
          BY <4>1 DEF EntryLists
        <4>3. QED
          BY <4>2
      <3>3. PICK u : u = [run[r] EXCEPT !.pc = "print", !.entries = list]
        OBVIOUS
      <3>4. "print" \in Labels
        BY DEF Labels, InRepeat
      <3>5. u \in Knowledge
        BY <1>1, <3>2, <3>3, <3>4 DEF Knowledge
      <3>6. Notes(run[r], u)
        BY <1>1, <1>12, <3>1, <3>2, <3>3 DEF SaveReport, At, Knowledge, Notes
      <3>7. run' = [run EXCEPT ![r] = u]
        BY <1>12, <2>2, <3>1, <3>2, <3>3 DEF SaveReport, RunsOK, Knowledge
      <3>8. QED
        BY <3>5, <3>6, <3>7 DEF Takes, Moves
    <2>3. QED
      BY <2>1, <2>2
  <1>13. CASE CountRepeat(r)
    <2>1. CASE ~run[r].open
      <3>1. Fails(r)
        BY <1>13, <2>1 DEF CountRepeat, Fails, RunsOK, Knowledge
      <3>2. QED
        BY <1>13, <2>1, <3>1, FailsTakes DEF CountRepeat, At, InRepeat, IsCounted
    <2>2. CASE run[r].open
      <3>1. PICK u : u = NextRepeat(Counted(run[r]))
        OBVIOUS
      <3>2. run' = [run EXCEPT ![r] = u]
        BY <1>13, <2>2, <3>1 DEF CountRepeat, RunsOK, Knowledge
      <3>3. u \in Knowledge /\ Passes(run[r], u)
        BY <1>1, <1>13, <2>2, <3>1, CountPasses DEF CountRepeat, At, IsCounted
      <3>4. QED
        BY <3>2, <3>3 DEF Takes, Moves
    <2>3. QED
      BY <2>1, <2>2
  <1>14. CASE BeginManifest(r)
    <2>1. "writing" \in Labels
      BY DEF Labels, AfterFiles
    <2>2. Closes(run[r], [run[r] EXCEPT !.pc = "writing"])
      BY <1>1, <1>14 DEF BeginManifest, At, Knowledge, Closes, Same
    <2>3. QED
      BY <1>14, <2>1, <2>2, GotoTakes DEF BeginManifest, Moves
  <1>15. CASE EndManifest(r)
    <2>1. "ended" \in Labels
      BY DEF Labels, AfterFiles
    <2>2. Closes(run[r], [run[r] EXCEPT !.pc = "ended"])
      BY <1>1, <1>15 DEF EndManifest, At, Knowledge, Closes, Same
    <2>3. QED
      BY <1>15, <2>1, <2>2, GotoTakes DEF EndManifest, Moves
  <1>16. QED
    BY <1>2, <1>3, <1>4, <1>5, <1>6, <1>8, <1>9, <1>10, <1>11, <1>12, <1>13, <1>14, <1>15
       DEF Acts, Step

LEMMA RunsAreOK == Spec => []RunsOK
  <1>1. Init => RunsOK
    BY FreshType DEF Init, RunsOK, Shaped, Fresh, InRepeat, AfterFiles
  <1>2. RunsOK /\ [Next]_vars => RunsOK'
    <2> SUFFICES ASSUME RunsOK, [Next]_vars
                 PROVE  RunsOK'
      OBVIOUS
    <2>1. CASE UNCHANGED vars
      BY <2>1 DEF vars, RunsOK
    <2>2. ASSUME NEW r \in Runs, Acts(r)
          PROVE  RunsOK'
      <3>1. PICK u : Takes(r, u)
        BY <2>2, EachTakes
      <3>2. Shaped(u) /\ u \in Knowledge
        BY <3>1, MoveShapes DEF Takes, RunsOK
      <3>3. QED
        BY <3>1, <3>2 DEF Takes, RunsOK
    <2>3. QED
      BY <2>1, <2>2 DEF Next, Acts
  <1>3. QED
    BY <1>1, <1>2, PTL DEF Spec

----------------------------------------------------------------------------
(* Every repeat is accounted for.                                          *)

PairOf(e) == <<e.file, e.rep>>
Pairs(entries) == {PairOf(entries[i]) : i \in 1..Len(entries)}

\* The repeats of which something is known.
Kept(s) == Pairs(s.entries) \cup s.errors

\* A repeat that the command has behind it.
Behind(s, f, k) ==
    \/ f < s.file
    \/ /\ f = s.file /\ s.pc \in InRepeat
       /\ k < s.rep \/ (s.pc = "print" /\ k = s.rep)

Distinct(entries) ==
    \A i, j \in 1..Len(entries) : i # j => PairOf(entries[i]) # PairOf(entries[j])

\* What is known is known of the repeats that are behind, and there is one entry of each.
Accounted(s) ==
    /\ Distinct(s.entries)
    /\ s.pc \notin {"off", "aborted", "dead"} =>
          /\ Kept(s) \subseteq (1..LastFile(s)) \X (1..s.config.repeats)
          /\ \A f \in 1..LastFile(s), k \in 1..s.config.repeats :
                <<f, k>> \in Kept(s) <=> Behind(s, f, k)

LEMMA MoveAccounts ==
    ASSUME NEW s \in Knowledge, NEW u \in Knowledge, Shaped(s), Moves(s, u), Accounted(s)
    PROVE  Accounted(u)
  <1>1. CASE Begins(s, u)
    <2>1. Distinct(u.entries) /\ Kept(u) = {} /\ u.file = 1 /\ u.pc \notin InRepeat
      BY <1>1 DEF Begins, Distinct, Kept, Pairs, InRepeat
    <2>2. QED
      BY <2>1 DEF Accounted, Behind
  <1>2. CASE Vanishes(s, u)
    BY <1>2 DEF Vanishes, Accounted, Distinct
  <1>3. ASSUME ~Begins(s, u), ~Vanishes(s, u)
        PROVE  Accounted(u)
    <2>1. /\ s.pc \notin {"off", "aborted", "dead"} /\ u.pc \notin {"off", "aborted", "dead"}
          /\ u.config = s.config
      BY <1>3 DEF Moves, Skips, Opens, Closes, Works, Notes, Passes, Ahead, Stays, Same,
                  InRepeat, Over
    <2>2. PICK last \in Nat, most \in Nat :
             /\ LastFile(s) = last /\ LastFile(u) = last
             /\ s.config.repeats = most /\ u.config.repeats = most
      BY <2>1, ConfigType DEF Shaped, LastFile
    <2>3. s.file \in Nat /\ u.file \in Nat /\ s.rep \in Nat /\ u.rep \in Nat
      BY DEF Knowledge
    <2>4. /\ Distinct(s.entries)
          /\ Kept(s) \subseteq (1..last) \X (1..most)
          /\ \A f \in 1..last, k \in 1..most : <<f, k>> \in Kept(s) <=> Behind(s, f, k)
      BY <2>1, <2>2 DEF Accounted
    <2>5. SUFFICES /\ Distinct(u.entries)
                   /\ Kept(u) \subseteq (1..last) \X (1..most)
                   /\ \A f \in 1..last, k \in 1..most : <<f, k>> \in Kept(u) <=> Behind(u, f, k)
      BY <2>2 DEF Accounted
    <2>6. CASE Skips(s, u)
      BY <2>2, <2>4, <2>6 DEF Skips, Kept
    <2>7. CASE Opens(s, u) \/ Closes(s, u) \/ Works(s, u) \/ Stays(s, u)
      <3>1. u.entries = s.entries /\ Kept(u) = Kept(s)
        BY <2>7 DEF Opens, Closes, Works, Stays, Same, Kept
      <3>2. ASSUME NEW f \in 1..last, NEW k \in 1..most
            PROVE  Behind(u, f, k) <=> Behind(s, f, k)
        BY <2>3, <2>7 DEF Opens, Closes, Works, Stays, Same, Behind, InRepeat
      <3>3. QED
        BY <2>4, <3>1, <3>2
    <2>8. CASE Notes(s, u)
      <3>1. s.file \in 1..last /\ s.rep \in 1..most /\ u.rep = s.rep /\ u.file = s.file
        BY <2>2, <2>3, <2>8 DEF Notes, Shaped, InRepeat
      <3>2. ~Behind(s, s.file, s.rep)
        BY <2>3, <2>8 DEF Notes, Behind
      <3>3. <<s.file, s.rep>> \notin Pairs(s.entries)
        BY <2>4, <3>1, <3>2 DEF Kept
      <3>4. PICK e \in Entries : /\ u.entries = Append(s.entries, e)
                                 /\ PairOf(e) = <<s.file, s.rep>>
        BY <2>8 DEF Notes, Entries, PairOf, Knowledge
      <3>5. PICK n \in Nat : n = Len(s.entries)
        BY DEF Knowledge, EntryLists
      <3>6. /\ Len(u.entries) = n + 1 /\ u.entries[n + 1] = e
            /\ \A i \in 1..n : u.entries[i] = s.entries[i]
        BY <3>4, <3>5 DEF Knowledge, EntryLists
      <3>7. Pairs(u.entries) = Pairs(s.entries) \cup {<<s.file, s.rep>>}
        <4>1. PICK l : l = u.entries
          OBVIOUS
        <4>2. /\ Pairs(l) = {PairOf(l[i]) : i \in 1..(n + 1)}
              /\ Pairs(s.entries) = {PairOf(s.entries[i]) : i \in 1..n}
          BY <3>5, <3>6, <4>1 DEF Pairs
        <4>3. /\ PairOf(l[n + 1]) = <<s.file, s.rep>>
              /\ \A i \in 1..n : PairOf(l[i]) = PairOf(s.entries[i])
          BY <3>4, <3>6, <4>1
        <4>4. \A i \in 1..(n + 1) : i = n + 1 \/ i \in 1..n
          OBVIOUS
        <4>5. n + 1 \in 1..(n + 1) /\ \A i \in 1..n : i \in 1..(n + 1)
          OBVIOUS
        <4>6. QED
          BY <4>1, <4>2, <4>3, <4>4, <4>5
      <3>8. Distinct(u.entries)
        <4>1. \A i \in 1..n : u.entries[i] = s.entries[i]
                             /\ PairOf(s.entries[i]) # PairOf(e)
          BY <3>3, <3>4, <3>5, <3>6 DEF Pairs
        <4>2. \A i, j \in 1..n : i # j => PairOf(s.entries[i]) # PairOf(s.entries[j])
          BY <2>4, <3>5 DEF Distinct
        <4>3. ASSUME NEW i \in 1..(n + 1), NEW j \in 1..(n + 1), i # j
              PROVE  PairOf(u.entries[i]) # PairOf(u.entries[j])
          <5>1. (i \in 1..n \/ i = n + 1) /\ (j \in 1..n \/ j = n + 1)
            OBVIOUS
          <5>2. QED
            BY <3>6, <4>1, <4>2, <4>3, <5>1
        <4>4. QED
          BY <3>6, <4>3 DEF Distinct
      <3>9. Kept(u) = Kept(s) \cup {<<s.file, s.rep>>}
        BY <2>8, <3>7 DEF Notes, Kept
      <3>10. ASSUME NEW f \in 1..last, NEW k \in 1..most
             PROVE  Behind(u, f, k) <=> Behind(s, f, k) \/ <<f, k>> = <<s.file, s.rep>>
        BY <2>3, <2>8, <3>1 DEF Notes, Behind, InRepeat
      <3>11. QED
        BY <2>4, <3>1, <3>8, <3>9, <3>10
    <2>9. CASE Passes(s, u)
      <3>1. s.file \in 1..last /\ s.rep \in 1..most /\ u.entries = s.entries
        BY <2>2, <2>3, <2>9 DEF Passes, Ahead, Shaped, InRepeat
      <3>2. Kept(u) = Kept(s) \cup {<<s.file, s.rep>>}
        <4>1. CASE u.errors = s.errors \cup {<<s.file, s.rep>>}
          BY <3>1, <4>1 DEF Kept
        <4>2. CASE s.pc = "print" /\ u.errors = s.errors
          <5>1. Behind(s, s.file, s.rep)
            BY <4>2 DEF Behind, InRepeat
          <5>2. <<s.file, s.rep>> \in Kept(s)
            BY <2>4, <3>1, <5>1
          <5>3. QED
            BY <3>1, <4>2, <5>2 DEF Kept
        <4>3. QED
          BY <2>9, <4>1, <4>2 DEF Passes, IsCounted
      <3>3. ASSUME NEW f \in 1..last, NEW k \in 1..most
            PROVE  Behind(u, f, k) <=> Behind(s, f, k) \/ <<f, k>> = <<s.file, s.rep>>
        <4>1. s.pc \in InRepeat /\ Ahead(s, u) /\ "prepare" \in InRepeat /\ "load" \notin InRepeat
          BY <2>9 DEF Passes, InRepeat
        <4>2. Behind(s, f, k) <=> \/ f < s.file
                                  \/ f = s.file /\ (k < s.rep \/ (s.pc = "print" /\ k = s.rep))
          BY <4>1 DEF Behind
        <4>3. CASE u.pc = "prepare" /\ u.file = s.file /\ u.rep = s.rep + 1
          <5>1. Behind(u, f, k) <=> f < s.file \/ (f = s.file /\ k < s.rep + 1)
            BY <4>1, <4>3 DEF Behind
          <5>2. QED
            BY <2>3, <4>2, <5>1
        <4>4. CASE u.pc = "load" /\ u.file = s.file + 1 /\ s.rep = most
          <5>1. Behind(u, f, k) <=> f < s.file + 1
            BY <4>1, <4>4 DEF Behind
          <5>2. QED
            BY <2>3, <4>2, <4>4, <5>1
        <4>5. QED
          BY <2>2, <4>1, <4>3, <4>4 DEF Ahead
      <3>4. QED
        BY <2>4, <3>1, <3>2, <3>3
    <2>10. QED
      BY <1>3, <2>6, <2>7, <2>8, <2>9 DEF Moves
  <1>4. QED
    BY <1>1, <1>2, <1>3

\* The report of every entry is there.
SavedInv ==
    \A r \in Runs : \A i \in 1..Len(run[r].entries) :
        <<r, run[r].entries[i].file, run[r].entries[i].rep>> \in reports

\* A manifest that is whole is that of a command that has ended, and says what it knows.
ManifestInv ==
    /\ manifests \in [Runs -> {manifests[r] : r \in Runs}]
    /\ \A r \in Runs :
          \/ manifests[r] \in {None, Torn}
          \/ /\ run[r].pc = "ended"
             /\ manifests[r].entries = run[r].entries
             /\ manifests[r].reports_saved = Len(run[r].entries)

AccountInv == (\A r \in Runs : Accounted(run[r])) /\ SavedInv /\ ManifestInv

LEMMA ReportsGrow ==
    ASSUME NEW r \in Runs, Acts(r)
    PROVE  reports \subseteq reports'
  BY DEF Acts, Step, Start, Refuse, CloseOutput, Die, LoadTask, RemoveWorkspace, BeginCopy,
         EndCopy, RunComparison, RunArm, SaveReport, CountRepeat, BeginManifest, EndManifest

LEMMA NotingSaves ==
    ASSUME RunsOK, NEW r \in Runs, Acts(r), run[r].pc = "save", run'[r].pc = "print"
    PROVE  <<r, run[r].file, run[r].rep>> \in reports'
  <1>1. run[r] \in Knowledge /\ Shaped(run[r])
    BY DEF RunsOK
  <1>2. CASE SaveReport(r)
    <2>1. CASE Fails(r)
      <3>1. PICK u : Takes(r, u) /\ Passes(run[r], u)
        BY <1>2, <2>1, FailsTakes DEF SaveReport, At, InRepeat, IsCounted
      <3>2. run'[r] = u
        BY <3>1 DEF Takes, RunsOK
      <3>3. QED
        BY <3>1, <3>2 DEF Passes, Ahead
    <2>2. CASE ~Fails(r)
      BY <1>2, <2>2 DEF SaveReport, Mark
    <2>3. QED
      BY <2>1, <2>2
  <1>3. CASE CloseOutput(r) \/ Die(r)
    BY <1>1, <1>3 DEF CloseOutput, Die, Gone, RunsOK, Knowledge, Fresh
  <1>4. QED
    BY <1>2, <1>3 DEF Acts, Step, Start, Refuse, LoadTask, RemoveWorkspace, BeginCopy, EndCopy,
           RunComparison, RunArm, CountRepeat, BeginManifest, EndManifest, At

LEMMA StepSaves ==
    ASSUME RunsOK, SavedInv, NEW r \in Runs, Acts(r)
    PROVE  SavedInv'
  <1>1. PICK u \in Knowledge : Moves(run[r], u) /\ run' = [run EXCEPT ![r] = u]
    BY EachTakes DEF Takes
  <1>2. run'[r] = u /\ \A q \in Runs : q # r => run'[q] = run[q]
    BY <1>1 DEF RunsOK
  <1>3. ASSUME NEW i \in 1..Len(u.entries)
        PROVE  <<r, u.entries[i].file, u.entries[i].rep>> \in reports'
    <2>1. CASE u.entries = run[r].entries
      BY <1>3, <2>1, ReportsGrow DEF SavedInv
    <2>2. CASE u.entries = <<>>
      BY <1>3, <2>2
    <2>3. CASE Notes(run[r], u)
      <3>1. PICK e : e = [file |-> run[r].file, rep |-> run[r].rep, won |-> run[r].won,
                          clean |-> run[r].clean]
        OBVIOUS
      <3>2. PICK n \in Nat : n = Len(run[r].entries)
        BY DEF RunsOK, Knowledge, EntryLists
      <3>3. e \in Entries /\ run[r].entries \in Seq(Entries)
        BY <3>1 DEF RunsOK, Knowledge, Entries, EntryLists
      <3>4. u.entries = Append(run[r].entries, e)
        BY <2>3, <3>1 DEF Notes
      <3>5. /\ Len(u.entries) = n + 1 /\ u.entries[n + 1] = e
            /\ \A j \in 1..n : u.entries[j] = run[r].entries[j]
        BY <3>2, <3>3, <3>4
      <3>6. <<r, e.file, e.rep>> \in reports'
        BY <1>2, <2>3, <3>1, NotingSaves DEF Notes
      <3>7. CASE i = n + 1
        BY <3>5, <3>6, <3>7
      <3>8. CASE i # n + 1
        <4>1. i \in 1..n
          BY <1>3, <3>5, <3>8
        <4>2. QED
          BY <3>2, <3>5, <4>1, ReportsGrow DEF SavedInv
      <3>9. QED
        BY <3>7, <3>8
    <2>4. QED
      BY <1>1, <2>1, <2>2, <2>3 DEF Moves, Begins, Vanishes, Skips, Opens, Closes, Works, Passes,
                                    Ahead, Stays, Same
  <1>4. QED
    BY <1>2, <1>3, ReportsGrow DEF SavedInv

LEMMA StepManifests ==
    ASSUME RunsOK, ManifestInv, NEW r \in Runs, Acts(r)
    PROVE  ManifestInv'
  <1>1. PICK u \in Knowledge : Moves(run[r], u) /\ run' = [run EXCEPT ![r] = u]
    BY EachTakes DEF Takes
  <1>2. run'[r] = u /\ \A q \in Runs : q # r => run'[q] = run[q]
    BY <1>1 DEF RunsOK
  <1>3. run[r].pc # "ended"
    BY <1>1 DEF Moves, Begins, Vanishes, Skips, Opens, Closes, Works, Notes, Passes, Stays,
                InRepeat, Over
  <1>4. manifests[r] \in {None, Torn}
    BY <1>3 DEF ManifestInv
  <1>5. CASE BeginManifest(r)
    BY <1>2, <1>5 DEF BeginManifest, ManifestInv
  <1>6. CASE EndManifest(r)
    <2>1. u.pc = "ended" /\ u.entries = run[r].entries
      BY <1>2, <1>6 DEF EndManifest, Goto, RunsOK, Knowledge
    <2>2. QED
      BY <1>2, <1>6, <2>1 DEF EndManifest, ManifestInv
  <1>7. CASE UNCHANGED manifests
    BY <1>2, <1>4, <1>7 DEF ManifestInv
  <1>8. QED
    BY <1>5, <1>6, <1>7
       DEF Acts, Step, Start, Refuse, CloseOutput, Die, LoadTask, RemoveWorkspace, BeginCopy,
           EndCopy, RunComparison, RunArm, SaveReport, CountRepeat

\* What was proved of one command's knowledge, and of the files, holds of all.
LEMMA AccountInvHolds == Spec => []AccountInv
  <1>1. Init => AccountInv
    BY DEF Init, AccountInv, Accounted, Distinct, Fresh, SavedInv, ManifestInv
  <1>2. RunsOK /\ AccountInv /\ [Next]_vars => AccountInv'
    <2> SUFFICES ASSUME RunsOK, AccountInv, [Next]_vars
                 PROVE  AccountInv'
      OBVIOUS
    <2>1. CASE UNCHANGED vars
      BY <2>1 DEF vars, AccountInv, SavedInv, ManifestInv
    <2>2. ASSUME NEW r \in Runs, Acts(r)
          PROVE  AccountInv'
      <3>1. PICK u : Takes(r, u)
        BY <2>2, EachTakes
      <3>2. Accounted(u)
        BY <3>1, MoveAccounts DEF Takes, RunsOK, AccountInv
      <3>3. \A q \in Runs : Accounted(run'[q])
        BY <3>1, <3>2 DEF Takes, RunsOK, AccountInv
      <3>4. QED
        BY <2>2, <3>3, StepSaves, StepManifests DEF AccountInv
    <2>3. QED
      BY <2>1, <2>2 DEF Next, Acts
  <1>3. QED
    BY <1>1, <1>2, RunsAreOK, PTL DEF Spec

\* Different positions hold different entries.
LEMMA PairsCount ==
    ASSUME NEW entries \in EntryLists, Distinct(entries)
    PROVE  Cardinality(Pairs(entries)) = Len(entries)
  <1>1. PICK n \in Nat : n = Len(entries)
    BY DEF EntryLists
  <1>2. PICK f : f = [i \in 1..n |-> PairOf(entries[i])]
    OBVIOUS
  <1>3. f \in [1..n -> Pairs(entries)]
    BY <1>1, <1>2 DEF Pairs
  <1>4. \A i, j \in 1..n : f[i] = f[j] => i = j
    BY <1>1, <1>2 DEF Distinct
  <1>5. \A p \in Pairs(entries) : \E i \in 1..n : f[i] = p
    BY <1>1, <1>2 DEF Pairs
  <1>6. ExistsBijection(1..n, Pairs(entries))
    BY <1>3, <1>4, <1>5, Zenon DEF ExistsBijection, Bijection, Injection, Surjection,
                                   IsInjective
  <1>7. Cardinality(1..n) = n /\ IsFiniteSet(1..n)
    BY FS_Interval
  <1>8. QED
    BY <1>1, <1>6, <1>7, FS_Bijection, Zenon

\* A manifest leaves nothing out unsaid: every repeat of every file has an entry, or its
\* failure was reported; no repeat has two entries, and the report of every entry is there.
THEOREM RepeatsAreAccounted == Spec => []EveryRepeatAccounted
  <1>1. RunsOK /\ AccountInv => EveryRepeatAccounted
    <2> SUFFICES ASSUME RunsOK, AccountInv, NEW r \in Runs, manifests[r] \notin {None, Torn},
                        NEW entries, entries = manifests[r].entries,
                        NEW done, done = {<<entries[i].file, entries[i].rep>> : i \in DOMAIN entries}
                 PROVE  /\ done \cup run[r].errors
                               = (1..LastFile(run[r])) \X (1..run[r].config.repeats)
                        /\ Cardinality(done) = Len(entries)
                        /\ \A d \in done : <<r, d[1], d[2]>> \in reports
                        /\ manifests[r].reports_saved = Len(entries)
      BY Zenon DEF EveryRepeatAccounted
    <2>1. /\ run[r].pc = "ended" /\ manifests[r].entries = run[r].entries
          /\ manifests[r].reports_saved = Len(run[r].entries)
      BY DEF AccountInv, ManifestInv
    <2>2. run[r] \in Knowledge /\ Shaped(run[r]) /\ Accounted(run[r])
      BY DEF RunsOK, AccountInv
    <2>3. run[r].config \in Configs /\ run[r].file = LastFile(run[r]) + 1
      BY <2>1, <2>2 DEF Shaped, AfterFiles
    <2>4. PICK last \in Nat, most \in Nat :
             last = LastFile(run[r]) /\ most = run[r].config.repeats
      BY <2>2, <2>3, ConfigType
    <2>5. Kept(run[r]) = (1..last) \X (1..most)
      <3>1. /\ Kept(run[r]) \subseteq (1..last) \X (1..most)
            /\ \A f \in 1..last, k \in 1..most : <<f, k>> \in Kept(run[r]) <=> Behind(run[r], f, k)
        BY <2>1, <2>2, <2>4 DEF Accounted
      <3>2. \A f \in 1..last, k \in 1..most : Behind(run[r], f, k)
        BY <2>3, <2>4 DEF Behind
      <3>3. QED
        BY <3>1, <3>2
    <2>6. Cardinality(Pairs(run[r].entries)) = Len(run[r].entries)
      BY <2>2, PairsCount DEF Accounted, Knowledge
    <2>7. \A d \in Pairs(run[r].entries) : <<r, d[1], d[2]>> \in reports
      BY DEF AccountInv, SavedInv, Pairs, PairOf
    <2>8. done = Pairs(run[r].entries)
      <3>1. DOMAIN run[r].entries = 1..Len(run[r].entries)
        BY <2>2 DEF Knowledge, EntryLists
      <3>2. QED
        BY <2>1, <3>1 DEF Pairs, PairOf
    <2>9. QED
      BY <2>1, <2>4, <2>5, <2>6, <2>7, <2>8 DEF Kept
  <1>2. QED
    BY <1>1, RunsAreOK, AccountInvHolds, PTL

----------------------------------------------------------------------------
(* The summary counts what the entries say.                                *)

\* The entries of a task among the first n, and how many they are.
Seen(s, t, n) == {i \in 1..n : s.config.tasks[s.entries[i].file] = t}
Told(s, t, n) == Cardinality(Seen(s, t, n))

\* The entries that had their turn to be counted.
Due(s) == IF s.pc = "print" THEN Len(s.entries) - 1 ELSE Len(s.entries)

\* The files before this one have been counted, whether or not there is an output.
Bound(s) == IF s.pc \in InRepeat THEN s.file ELSE s.file - 1

\* The entry that is to be counted is the one that was noted last.
Noted(s) ==
    s.pc = "print" =>
        /\ Len(s.entries) > 0
        /\ s.entries[Len(s.entries)].file = s.file
        /\ s.entries[Len(s.entries)].won = s.won

\* What is counted of a task are its first entries; with an output all that had their turn.
TalliedOf(s, t) ==
    /\ Len(s.counted[t]) <= Told(s, t, Due(s))
    /\ s.open => Len(s.counted[t]) = Told(s, t, Due(s))
    /\ \A i \in Seen(s, t, Due(s)) :
          /\ Told(s, t, i) <= Len(s.counted[t]) =>
                s.counted[t][Told(s, t, i)] = s.entries[i].won
          /\ s.entries[i].file < Bound(s) => Told(s, t, i) <= Len(s.counted[t])

Tallied(s) ==
    s.pc \notin {"off", "aborted", "dead"} => Noted(s) /\ \A t \in Tasks : TalliedOf(s, t)

LEMMA ToldCounts ==
    ASSUME NEW s, NEW t, NEW n \in Nat
    PROVE  /\ IsFiniteSet(Seen(s, t, n)) /\ Told(s, t, n) \in Nat
           /\ \A i \in 1..n : Told(s, t, i) \in Nat /\ Told(s, t, i) <= Told(s, t, n)
           /\ Told(s, t, n + 1) = IF n + 1 \in Seen(s, t, n + 1) THEN Told(s, t, n) + 1
                                  ELSE Told(s, t, n)
  <1>1. ASSUME NEW m \in Nat
        PROVE  IsFiniteSet(Seen(s, t, m)) /\ Told(s, t, m) \in Nat
    <2>1. IsFiniteSet(1..m) /\ Seen(s, t, m) \subseteq 1..m
      BY FS_Interval DEF Seen
    <2>2. IsFiniteSet(Seen(s, t, m))
      BY <2>1, FS_Subset
    <2>3. QED
      BY <2>2, FS_CardinalityType DEF Told
  <1>2. ASSUME NEW i \in 1..n
        PROVE  Told(s, t, i) \in Nat /\ Told(s, t, i) <= Told(s, t, n)
    <2>1. Seen(s, t, i) \subseteq Seen(s, t, n)
      BY DEF Seen
    <2>2. QED
      BY <1>1, <2>1, FS_Subset DEF Told
  <1>3. CASE n + 1 \in Seen(s, t, n + 1)
    <2>1. Seen(s, t, n + 1) = Seen(s, t, n) \cup {n + 1} /\ n + 1 \notin Seen(s, t, n)
      BY <1>3 DEF Seen
    <2>2. QED
      BY <1>1, <1>2, <1>3, <2>1, FS_AddElement DEF Told
  <1>4. CASE n + 1 \notin Seen(s, t, n + 1)
    <2>1. Seen(s, t, n + 1) = Seen(s, t, n)
      BY <1>4 DEF Seen
    <2>2. QED
      BY <1>1, <1>2, <1>4, <2>1 DEF Told
  <1>5. QED
    BY <1>1, <1>2, <1>3, <1>4

\* The same, with the number of the entries that are due named.
LEMMA TallyIs ==
    ASSUME NEW s, NEW t, NEW n, Due(s) = n,
           Len(s.counted[t]) <= Told(s, t, n),
           s.open => Len(s.counted[t]) = Told(s, t, n),
           \A i \in Seen(s, t, n) :
              /\ Told(s, t, i) <= Len(s.counted[t]) =>
                    s.counted[t][Told(s, t, i)] = s.entries[i].won
              /\ s.entries[i].file < Bound(s) => Told(s, t, i) <= Len(s.counted[t])
    PROVE  TalliedOf(s, t)
  BY Zenon DEF TalliedOf

\* Of the same entries the same is told.
LEMMA SameIsTold ==
    ASSUME NEW s, NEW u, NEW t, NEW n \in Nat, u.config = s.config,
           \A i \in 1..n : u.entries[i].file = s.entries[i].file
    PROVE  /\ Seen(u, t, n) = Seen(s, t, n) /\ Told(u, t, n) = Told(s, t, n)
           /\ \A i \in 1..n : Told(u, t, i) = Told(s, t, i)
  <1>1. \A i \in 0..n : Seen(u, t, i) = Seen(s, t, i)
    BY DEF Seen
  <1>2. QED
    BY <1>1 DEF Told

LEMMA DueType ==
    ASSUME NEW s \in Knowledge, Noted(s)
    PROVE  Len(s.entries) \in Nat /\ Due(s) \in Nat /\ s.file \in Nat
  BY DEF Knowledge, EntryLists, Due, Noted

\* The last of the entries is the one to be counted.
LEMMA DueIsLast ==
    ASSUME NEW s \in Knowledge, Noted(s), s.pc = "print"
    PROVE  \E n \in Nat : n = Due(s) /\ n + 1 = Len(s.entries)
  <1>1. PICK l \in Nat : l = Len(s.entries) /\ l > 0
    BY DueType DEF Noted
  <1>2. l - 1 \in Nat /\ Due(s) = l - 1
    BY <1>1 DEF Due
  <1>3. QED
    BY <1>1, <1>2

LEMMA TallyStays ==
    ASSUME NEW s \in Knowledge, NEW u \in Knowledge, NEW t \in Tasks, Noted(s), TalliedOf(s, t),
           u.config = s.config, u.counted = s.counted, Due(u) = Due(s), u.open => s.open,
           \A i \in 1..Due(s) : u.entries[i] = s.entries[i],
           Bound(u) <= Bound(s) \/ s.open
    PROVE  TalliedOf(u, t)
  <1>1. PICK n \in Nat : n = Due(s)
    BY DueType
  <1>2. /\ Seen(u, t, n) = Seen(s, t, n) /\ Told(u, t, n) = Told(s, t, n)
        /\ \A i \in 1..n : Told(u, t, i) = Told(s, t, i)
    BY <1>1, SameIsTold
  <1>3. /\ Told(s, t, n) \in Nat
        /\ \A i \in 1..n : Told(s, t, i) \in Nat /\ Told(s, t, i) <= Told(s, t, n)
    BY ToldCounts
  <1>4. PICK m \in Nat : m = Len(s.counted[t])
    BY DEF Knowledge, Counts
  <1>5. Seen(s, t, n) \subseteq 1..n
    BY DEF Seen
  <1>6. Bound(u) \in Int /\ Bound(s) \in Int
    BY DEF Bound, Knowledge
  <1>7. ASSUME NEW i \in Seen(s, t, n)
        PROVE  /\ Told(s, t, i) <= m => s.counted[t][Told(s, t, i)] = u.entries[i].won
               /\ u.entries[i].file < Bound(u) => Told(s, t, i) <= m
    <2>1. i \in 1..n /\ u.entries[i] = s.entries[i]
      BY <1>1, <1>5
    <2>2. CASE s.open
      <3>1. m = Told(s, t, n)
        BY <1>1, <1>4, <2>2 DEF TalliedOf
      <3>2. QED
        BY <1>1, <1>3, <1>4, <2>1, <3>1 DEF TalliedOf
    <2>3. CASE Bound(u) <= Bound(s)
      <3>1. n <= Len(s.entries) /\ Len(s.entries) \in Nat
        BY <1>1, DueType DEF Due
      <3>2. s.entries[i] \in Entries
        BY <2>1, <3>1 DEF Knowledge, EntryLists
      <3>3. s.entries[i].file \in Nat
        BY <3>2 DEF Entries
      <3>4. QED
        BY <1>1, <1>4, <1>6, <2>1, <2>3, <3>3 DEF TalliedOf
    <2>4. QED
      BY <2>2, <2>3
  <1>8. QED
    BY <1>1, <1>2, <1>4, <1>5, <1>7 DEF TalliedOf

\* The entry that is due next is not counted; nothing is any more.
LEMMA TallySkips ==
    ASSUME NEW s \in Knowledge, NEW u \in Knowledge, NEW t \in Tasks, Noted(s), TalliedOf(s, t),
           u.config = s.config, u.counted = s.counted, ~u.open, u.entries = s.entries,
           s.pc = "print", Due(u) = Len(s.entries), Bound(u) = s.file
    PROVE  TalliedOf(u, t)
  <1>1. PICK n \in Nat : n = Due(s) /\ Due(u) = n + 1 /\ n + 1 = Len(s.entries)
    BY DueIsLast
  <1>2. /\ Seen(u, t, n + 1) = Seen(s, t, n + 1) /\ Told(u, t, n + 1) = Told(s, t, n + 1)
        /\ \A i \in 1..(n + 1) : Told(u, t, i) = Told(s, t, i)
    <2>1. \A i : Seen(u, t, i) = Seen(s, t, i)
      BY DEF Seen
    <2>2. \A i : Told(u, t, i) = Told(s, t, i)
      BY <2>1 DEF Told
    <2>3. QED
      BY <2>1, <2>2
  <1>3. PICK a \in Nat, m \in Nat : a = Told(s, t, n) /\ m = Len(s.counted[t])
    BY ToldCounts DEF Knowledge, Counts
  <1>4. Told(s, t, n + 1) = IF n + 1 \in Seen(s, t, n + 1) THEN a + 1 ELSE a
    BY <1>3, ToldCounts
  <1>5. m <= a
    BY <1>1, <1>3 DEF TalliedOf
  <1>6. s.entries[n + 1].file = s.file /\ Bound(s) = s.file /\ s.file \in Nat
    <2>1. n + 1 = Len(s.entries)
      BY <1>1
    <2>2. QED
      BY <2>1 DEF Noted, Bound, InRepeat, Knowledge
  <1>7. ASSUME NEW i \in Seen(s, t, n + 1)
        PROVE  /\ Told(s, t, i) <= m => s.counted[t][Told(s, t, i)] = s.entries[i].won
               /\ s.entries[i].file < s.file => Told(s, t, i) <= m
    <2>1. CASE i = n + 1
      BY <1>3, <1>4, <1>5, <1>6, <2>1
    <2>2. CASE i # n + 1
      <3>1. i \in Seen(s, t, n)
        BY <2>2 DEF Seen
      <3>2. QED
        BY <1>1, <1>3, <1>6, <3>1 DEF TalliedOf
    <2>3. QED
      BY <2>1, <2>2
  <1>8. Seen(s, t, n + 1) \subseteq 1..(n + 1)
    BY DEF Seen
  <1>9. QED
    <2>1. /\ Due(u) = n + 1 /\ Len(u.counted[t]) = m /\ m <= Told(u, t, n + 1)
          /\ u.open => Len(u.counted[t]) = Told(u, t, n + 1)
      BY <1>1, <1>2, <1>3, <1>4, <1>5
    <2>2. Len(u.counted[t]) <= Told(u, t, n + 1)
      BY <2>1
    <2>3. ASSUME NEW i \in Seen(u, t, n + 1)
          PROVE  /\ Told(u, t, i) <= Len(u.counted[t]) =>
                       u.counted[t][Told(u, t, i)] = u.entries[i].won
                 /\ u.entries[i].file < Bound(u) => Told(u, t, i) <= Len(u.counted[t])
      <3>1. i \in Seen(s, t, n + 1) /\ Told(u, t, i) = Told(s, t, i)
        BY <1>2, <1>8
      <3>2. QED
        BY <1>7, <2>1, <3>1
    <2>4. QED
      BY <2>1, <2>2, <2>3, TallyIs, Zenon

\* The entry that is due next is counted.
LEMMA TallyCounts ==
    ASSUME NEW s \in Knowledge, NEW u \in Knowledge, NEW t \in Tasks, Noted(s), TalliedOf(s, t),
           u.config = s.config, u.entries = s.entries, Due(u) = Len(s.entries),
           IsCounted(s), TaskOf(s) \in Tasks,
           u.counted = [s.counted EXCEPT ![TaskOf(s)] = Append(@, s.won)]
    PROVE  TalliedOf(u, t)
  <1>1. PICK n \in Nat : n = Due(s) /\ Due(u) = n + 1 /\ n + 1 = Len(s.entries)
    BY DueIsLast DEF IsCounted
  <1>2. /\ Seen(u, t, n + 1) = Seen(s, t, n + 1) /\ Told(u, t, n + 1) = Told(s, t, n + 1)
        /\ \A i \in 1..(n + 1) : Told(u, t, i) = Told(s, t, i)
    <2>1. \A i : Seen(u, t, i) = Seen(s, t, i)
      BY DEF Seen
    <2>2. \A i : Told(u, t, i) = Told(s, t, i)
      BY <2>1 DEF Told
    <2>3. QED
      BY <2>1, <2>2
  <1>3. PICK a \in Nat : a = Told(s, t, n) /\ a = Len(s.counted[t])
    BY <1>1, ToldCounts DEF TalliedOf, IsCounted
  <1>4. Told(s, t, n + 1) = IF n + 1 \in Seen(s, t, n + 1) THEN a + 1 ELSE a
    BY <1>3, ToldCounts
  <1>5. n + 1 \in Seen(s, t, n + 1) <=> TaskOf(s) = t
    <2>1. n + 1 = Len(s.entries) /\ s.pc = "print"
      BY <1>1 DEF IsCounted
    <2>2. s.entries[n + 1].file = s.file
      BY <2>1 DEF Noted
    <2>3. n + 1 \in Seen(s, t, n + 1) <=> s.config.tasks[s.entries[n + 1].file] = t
      BY DEF Seen
    <2>4. QED
      BY <2>2, <2>3 DEF TaskOf
  <1>6. s.counted \in [Tasks -> Seq(BOOLEAN)] /\ s.won \in BOOLEAN
    BY DEF Knowledge, Counts
  <1>7. \A i \in Seen(s, t, n) : i \in 1..n /\ Told(s, t, i) \in Nat /\ Told(s, t, i) <= a
                                /\ Told(s, t, i) > 0
    <2> SUFFICES ASSUME NEW i \in Seen(s, t, n)
                 PROVE  i \in 1..n /\ Told(s, t, i) \in Nat /\ Told(s, t, i) <= a
                        /\ Told(s, t, i) > 0
      OBVIOUS
    <2>1. i \in 1..n /\ i \in Seen(s, t, i)
      BY DEF Seen
    <2>2. Told(s, t, i) \in Nat /\ Told(s, t, i) <= a /\ IsFiniteSet(Seen(s, t, i))
      <3>1. i \in Nat
        BY <2>1
      <3>2. QED
        <4>1. IsFiniteSet(Seen(s, t, i)) /\ Told(s, t, i) \in Nat
          BY <3>1, ToldCounts
        <4>2. Told(s, t, i) <= Told(s, t, n)
          BY <2>1, ToldCounts
        <4>3. QED
          BY <1>3, <4>1, <4>2
    <2>3. Told(s, t, i) # 0
      BY <2>1, <2>2, FS_EmptySet DEF Told
    <2>4. QED
      BY <2>1, <2>2, <2>3
  <1>8. \A i \in Seen(s, t, n) : s.counted[t][Told(s, t, i)] = s.entries[i].won
    BY <1>1, <1>3, <1>7 DEF TalliedOf
  <1>9. CASE TaskOf(s) = t
    <2>1. u.counted[t] = Append(s.counted[t], s.won)
      BY <1>6, <1>9
    <2>2. /\ Len(u.counted[t]) = a + 1 /\ u.counted[t][a + 1] = s.won
          /\ \A k \in 1..a : u.counted[t][k] = s.counted[t][k]
      BY <1>3, <1>6, <2>1
    <2>3. Told(s, t, n + 1) = a + 1 /\ s.entries[n + 1].won = s.won
      BY <1>1, <1>4, <1>5, <1>9 DEF Noted, IsCounted
    <2>4. ASSUME NEW i \in Seen(s, t, n + 1)
          PROVE  u.counted[t][Told(s, t, i)] = s.entries[i].won /\ Told(s, t, i) <= a + 1
      <3>1. CASE i = n + 1
        BY <2>2, <2>3, <3>1
      <3>2. CASE i # n + 1
        <4>1. i \in Seen(s, t, n)
          BY <3>2 DEF Seen
        <4>2. QED
          BY <1>7, <1>8, <2>2, <4>1
      <3>3. QED
        BY <3>1, <3>2
    <2>5. Seen(s, t, n + 1) \subseteq 1..(n + 1)
      BY DEF Seen
    <2>6. QED
      <3>1. Due(u) = n + 1 /\ Len(u.counted[t]) = Told(u, t, n + 1)
        BY <1>1, <1>2, <2>2, <2>3
      <3>2. ASSUME NEW i \in Seen(u, t, n + 1)
            PROVE  /\ u.counted[t][Told(u, t, i)] = u.entries[i].won
                   /\ Told(u, t, i) <= Len(u.counted[t])
        <4>1. i \in Seen(s, t, n + 1) /\ Told(u, t, i) = Told(s, t, i)
          BY <1>2, <2>5
        <4>2. QED
          BY <2>2, <2>4, <4>1
      <3>3. Len(u.counted[t]) <= Told(u, t, n + 1)
        BY <2>2, <3>1
      <3>4. QED
        BY <3>1, <3>2, <3>3, TallyIs, Zenon
  <1>10. CASE TaskOf(s) # t
    <2>1. u.counted[t] = s.counted[t]
      BY <1>6, <1>10
    <2>2. Told(s, t, n + 1) = a /\ Seen(s, t, n + 1) = Seen(s, t, n)
      <3>1. n + 1 \notin Seen(s, t, n + 1)
        BY <1>5, <1>10
      <3>2. \A i \in Seen(s, t, n + 1) : i \in 1..(n + 1) /\ i # n + 1
        BY <3>1 DEF Seen
      <3>3. Seen(s, t, n + 1) = Seen(s, t, n)
        BY <3>2 DEF Seen
      <3>4. QED
        BY <1>4, <3>1, <3>3
    <2>3. QED
      <3>1. Due(u) = n + 1 /\ Len(u.counted[t]) = Told(u, t, n + 1)
        BY <1>1, <1>2, <1>3, <2>1, <2>2
      <3>2. ASSUME NEW i \in Seen(u, t, n + 1)
            PROVE  /\ u.counted[t][Told(u, t, i)] = u.entries[i].won
                   /\ Told(u, t, i) <= Len(u.counted[t])
        <4>1. i \in Seen(s, t, n) /\ i \in 1..(n + 1) /\ Told(u, t, i) = Told(s, t, i)
          BY <1>2, <1>7, <2>2
        <4>2. QED
          BY <1>3, <1>7, <1>8, <2>1, <4>1
      <3>3. Len(u.counted[t]) <= Told(u, t, n + 1)
        BY <1>3, <2>1, <3>1
      <3>4. QED
        BY <3>1, <3>2, <3>3, TallyIs, Zenon
  <1>11. QED
    BY <1>9, <1>10

LEMMA MoveTallies ==
    ASSUME NEW s \in Knowledge, NEW u \in Knowledge, Shaped(s), Moves(s, u), Tallied(s)
    PROVE  Tallied(u)
  <1>1. CASE Begins(s, u)
    <2>1. u.entries = <<>> /\ u.pc = "load" /\ u.counted = [t \in Tasks |-> <<>>]
      BY <1>1 DEF Begins
    <2>2. Due(u) = 0 /\ Noted(u)
      BY <2>1 DEF Due, Noted
    <2>3. ASSUME NEW t \in Tasks
          PROVE  TalliedOf(u, t)
      <3>1. Seen(u, t, 0) = {}
        BY DEF Seen
      <3>2. Told(u, t, 0) = 0
        BY <3>1, FS_EmptySet DEF Told
      <3>3. Len(u.counted[t]) = 0
        BY <2>1
      <3>4. QED
        BY <2>2, <3>1, <3>2, <3>3, TallyIs
    <2>4. QED
      BY <2>2, <2>3 DEF Tallied
  <1>2. CASE Vanishes(s, u)
    BY <1>2 DEF Vanishes, Tallied
  <1>3. ASSUME ~Begins(s, u), ~Vanishes(s, u)
        PROVE  Tallied(u)
    <2>1. s.pc \notin {"off", "aborted", "dead"} /\ u.config = s.config
      BY <1>3 DEF Moves, Skips, Opens, Closes, Works, Notes, Passes, Ahead, Stays, Same,
                  InRepeat, Over
    <2>2. Noted(s) /\ \A t \in Tasks : TalliedOf(s, t)
      BY <2>1 DEF Tallied
    <2>3. s.file \in Nat /\ u.file \in Nat /\ Len(s.entries) \in Nat /\ Due(s) \in Nat
      BY <2>2, DueType DEF Knowledge
    <2>4. CASE \/ Skips(s, u) \/ Opens(s, u) \/ Closes(s, u) \/ Works(s, u) \/ Stays(s, u)
               \/ Passes(s, u) /\ s.pc # "print"
      <3>1. u.entries = s.entries /\ u.counted = s.counted /\ (u.open => s.open)
        BY <2>4 DEF Skips, Opens, Closes, Works, Stays, Passes, Ahead, Same, IsCounted
      <3>2. Due(u) = Due(s)
        BY <2>4, <3>1 DEF Skips, Opens, Closes, Works, Stays, Passes, Ahead, Due
      <3>3. Bound(u) <= Bound(s) \/ s.open
        BY <2>3, <2>4
           DEF Skips, Opens, Closes, Works, Stays, Passes, Ahead, Same, Bound, InRepeat
      <3>4. Noted(u)
        BY <2>2, <2>4, <3>1 DEF Skips, Opens, Closes, Works, Stays, Passes, Ahead, Same, Noted
      <3>5. QED
        BY <2>1, <2>2, <3>1, <3>2, <3>3, <3>4, TallyStays DEF Tallied
    <2>5. CASE Notes(s, u)
      <3>1. PICK e \in Entries : /\ u.entries = Append(s.entries, e)
                                 /\ e.file = s.file /\ e.won = s.won
        BY <2>5 DEF Notes, Entries, Knowledge
      <3>2. PICK n \in Nat : n = Len(s.entries) /\ n = Due(s)
        BY <2>3, <2>5 DEF Notes, Due
      <3>3. /\ Len(u.entries) = n + 1 /\ u.entries[n + 1] = e
            /\ \A i \in 1..n : u.entries[i] = s.entries[i]
        <4>1. s.entries \in Seq(Entries) /\ Len(s.entries) = n
          BY <3>2 DEF Knowledge, EntryLists
        <4>2. QED
          BY <3>1, <4>1
      <3>4. u.file = s.file /\ u.won = s.won /\ u.open = s.open /\ u.counted = s.counted
        BY <2>5 DEF Notes
      <3>5. Due(u) = n /\ Noted(u)
        BY <2>5, <3>1, <3>3, <3>4 DEF Notes, Due, Noted
      <3>6. Bound(u) = Bound(s) /\ Bound(s) \in Nat
        BY <2>3, <2>5, <3>4 DEF Notes, Bound, InRepeat
      <3>7. QED
        BY <2>1, <2>2, <3>2, <3>3, <3>4, <3>5, <3>6, TallyStays DEF Tallied
    <2>6. CASE Passes(s, u) /\ s.pc = "print"
      <3>1. u.entries = s.entries /\ u.pc # "print" /\ u.open = s.open
        BY <2>6 DEF Passes, Ahead
      <3>2. Due(u) = Len(s.entries) /\ Noted(u)
        BY <3>1 DEF Due, Noted
      <3>3. CASE s.open
        <4>1. u.counted = [s.counted EXCEPT ![TaskOf(s)] = Append(@, s.won)] /\ IsCounted(s)
          BY <2>6, <3>3 DEF Passes, IsCounted
        <4>2. TaskOf(s) \in Tasks
          BY <2>6, RepeatShape DEF Passes
        <4>3. QED
          BY <2>1, <2>2, <3>1, <3>2, <4>1, <4>2, TallyCounts DEF Tallied
      <3>4. CASE ~s.open
        <4>1. u.counted = s.counted
          BY <2>6, <3>4 DEF Passes, IsCounted
        <4>2. Bound(u) = s.file
          BY <2>3, <2>6 DEF Passes, Ahead, Bound, InRepeat
        <4>3. QED
          BY <2>1, <2>2, <2>6, <3>1, <3>2, <3>4, <4>1, <4>2, TallySkips DEF Tallied
      <3>5. QED
        BY <3>3, <3>4
    <2>7. QED
      BY <1>3, <2>4, <2>5, <2>6 DEF Moves
  <1>4. QED
    BY <1>1, <1>2, <1>3

\* The summary of a manifest is what the command had counted.
TallyInv ==
    \A r \in Runs :
        /\ Tallied(run[r])
        /\ manifests[r] \in {None, Torn} \/ manifests[r].task_summary = run[r].counted

LEMMA TallyInvHolds == Spec => []TallyInv
  <1>1. Init => TallyInv
    BY DEF Init, TallyInv, Tallied, Fresh
  <1>2. RunsOK /\ AccountInv /\ TallyInv /\ [Next]_vars => TallyInv'
    <2> SUFFICES ASSUME RunsOK, AccountInv, TallyInv, [Next]_vars
                 PROVE  TallyInv'
      OBVIOUS
    <2>1. CASE UNCHANGED vars
      BY <2>1 DEF vars, TallyInv
    <2>2. ASSUME NEW r \in Runs, Acts(r)
          PROVE  TallyInv'
      <3>1. PICK u \in Knowledge : Moves(run[r], u) /\ run' = [run EXCEPT ![r] = u]
        BY <2>2, EachTakes DEF Takes
      <3>2. run'[r] = u /\ \A q \in Runs : q # r => run'[q] = run[q]
        BY <3>1 DEF RunsOK
      <3>3. Tallied(u)
        BY <3>1, MoveTallies DEF RunsOK, TallyInv
      <3>4. manifests[r] \in {None, Torn}
        <4>1. run[r].pc # "ended"
          BY <3>1 DEF Moves, Begins, Vanishes, Skips, Opens, Closes, Works, Notes, Passes, Stays,
                      InRepeat, Over
        <4>2. QED
          BY <4>1 DEF AccountInv, ManifestInv
      <3>5. manifests'[r] \in {None, Torn} \/ manifests'[r].task_summary = u.counted
        <4>1. CASE BeginManifest(r)
          BY <4>1 DEF BeginManifest, AccountInv, ManifestInv
        <4>2. CASE EndManifest(r)
          <5>1. u.counted = run[r].counted
            BY <3>2, <4>2 DEF EndManifest, Goto, RunsOK, Knowledge
          <5>2. QED
            BY <4>2, <5>1 DEF EndManifest, AccountInv, ManifestInv
        <4>3. CASE UNCHANGED manifests
          BY <3>4, <4>3
        <4>4. QED
          BY <2>2, <4>1, <4>2, <4>3
             DEF Acts, Step, Start, Refuse, CloseOutput, Die, LoadTask, RemoveWorkspace,
                 BeginCopy, EndCopy, RunComparison, RunArm, SaveReport, CountRepeat
      <3>6. \A q \in Runs : q # r => manifests'[q] = manifests[q]
        BY <2>2 DEF Acts, Step, Start, Refuse, CloseOutput, Die, LoadTask, RemoveWorkspace,
               BeginCopy, EndCopy, RunComparison, RunArm, SaveReport, CountRepeat,
               BeginManifest, EndManifest, AccountInv, ManifestInv
      <3>7. QED
        BY <3>2, <3>3, <3>5, <3>6 DEF TallyInv
    <2>3. QED
      BY <2>1, <2>2 DEF Next, Acts
  <1>3. QED
    BY <1>1, <1>2, RunsAreOK, AccountInvHolds, PTL DEF Spec

\* What a summary says of a task, for given entries and counts.
Matches(entries, counted, tasks, open, last, t) ==
    LET OfTask == {i \in DOMAIN entries : tasks[entries[i].file] = t}
        Rank(i) == Cardinality({j \in OfTask : j <= i})
    IN  /\ Len(counted) <= Cardinality(OfTask)
        /\ \A i \in OfTask : Rank(i) <= Len(counted) => counted[Rank(i)] = entries[i].won
        /\ \A i \in OfTask : open \/ entries[i].file < last => Rank(i) <= Len(counted)

\* The summary of a manifest counts, of every task, the first of its entries, with their
\* successes in their order; it leaves none out while there is an output, and none of a file
\* before the last even if the output was closed.
THEOREM SummariesMatch == Spec => []SummaryMatchesEntries
  <1>1. RunsOK /\ AccountInv /\ TallyInv => SummaryMatchesEntries
    <2> SUFFICES ASSUME RunsOK, AccountInv, TallyInv,
                        NEW r \in Runs, manifests[r] \notin {None, Torn}, NEW t \in Tasks
                 PROVE  Matches(manifests[r].entries, manifests[r].task_summary[t],
                                run[r].config.tasks, run[r].open, LastFile(run[r]), t)
      BY Zenon DEF SummaryMatchesEntries, Matches
    <2>0. PICK s : /\ s = run[r]
                   /\ manifests[r].entries = s.entries
                   /\ manifests[r].task_summary = s.counted
      BY DEF AccountInv, ManifestInv, TallyInv
    <2>1. s \in Knowledge /\ Shaped(s) /\ s.pc = "ended" /\ Noted(s) /\ TalliedOf(s, t)
      BY <2>0 DEF RunsOK, AccountInv, ManifestInv, TallyInv, Tallied
    <2>2. PICK n \in Nat : n = Len(s.entries) /\ n = Due(s)
      BY <2>1, DueType DEF Due
    <2>3. DOMAIN s.entries = 1..n
      <3>1. s.entries \in Seq(Entries) /\ Len(s.entries) = n
        BY <2>1, <2>2 DEF Knowledge, EntryLists
      <3>2. QED
        BY <3>1
    <2> DEFINE Of == {i \in DOMAIN s.entries : s.config.tasks[s.entries[i].file] = t}
               Nth(i) == Cardinality({j \in Of : j <= i})
    <2>4. Of = Seen(s, t, n)
      BY <2>3 DEF Seen
    <2>5. ASSUME NEW i \in Of
          PROVE  Nth(i) = Told(s, t, i) /\ i \in 1..n
      <3>1. {j \in Of : j <= i} = Seen(s, t, i)
        BY <2>3 DEF Seen
      <3>2. QED
        BY <2>3, <3>1 DEF Told
    <2>6. PICK m \in Nat, a \in Nat : m = Len(s.counted[t]) /\ a = Told(s, t, n)
      BY <2>1, ToldCounts DEF Knowledge, Counts
    <2>7. m <= a /\ (s.open => m = a)
      BY <2>1, <2>2, <2>6 DEF TalliedOf
    <2>8. ASSUME NEW i \in Of
          PROVE  /\ Nth(i) <= m => s.counted[t][Nth(i)] = s.entries[i].won
                 /\ s.entries[i].file < Bound(s) => Nth(i) <= m
      <3>1. Nth(i) = Told(s, t, i) /\ i \in Seen(s, t, n)
        BY <2>4, <2>5
      <3>2. QED
        BY <2>1, <2>2, <2>6, <3>1 DEF TalliedOf
    <2>9. Bound(s) = LastFile(s)
      <3>1. LastFile(s) \in Nat
        BY <2>1, ConfigType DEF Shaped
      <3>2. QED
        BY <2>1, <3>1 DEF Bound, Shaped, InRepeat, AfterFiles
    <2>10. ASSUME NEW i \in Of
           PROVE  Nth(i) <= a
      <3>1. Told(s, t, i) <= Told(s, t, n)
        BY <2>5, ToldCounts
      <3>2. QED
        BY <2>5, <2>6, <3>1
    <2>11. Cardinality(Of) = a
      BY <2>4, <2>6 DEF Told
    <2>12. Matches(s.entries, s.counted[t], s.config.tasks, s.open, LastFile(s), t)
      <3>1. /\ Len(s.counted[t]) <= Cardinality(Of)
            /\ \A i \in Of : Nth(i) <= Len(s.counted[t]) => s.counted[t][Nth(i)] = s.entries[i].won
            /\ \A i \in Of : s.open \/ s.entries[i].file < LastFile(s) => Nth(i) <= Len(s.counted[t])
        <4> HIDE DEF Of, Nth
        <4>1. QED
          BY <2>6, <2>7, <2>8, <2>9, <2>10, <2>11
      <3>2. QED
        BY <3>1, Zenon DEF Matches
    <2>13. QED
      BY <2>0, <2>12
  <1>2. QED
    BY <1>1, RunsAreOK, AccountInvHolds, TallyInvHolds, PTL

----------------------------------------------------------------------------
(* Comparisons are isolated.                                               *)

\* A command beside which no other has been under way is under way alone.
AloneInv ==
    \A r \in Runs \ overlapped :
        UnderWay(r) => \A q \in Runs : q # r => ~UnderWay(q)

ReposOK == repo \in [Places -> Copies \cup {None}]

\* The command works in a copy of its own, and always has.
Own(r) ==
    /\ run[r].pc \in {"durable", "save", "print"} => run[r].clean
    /\ \A i \in 1..Len(run[r].entries) : run[r].entries[i].clean
    /\ run[r].pc = "copy" => repo[Place(r)] = None
    /\ run[r].pc = "copying" => /\ repo[Place(r)] # None
                                /\ repo[Place(r)].by = Mark(r)
                                /\ repo[Place(r)].used = {}
    /\ run[r].pc \in {"baseline", "durable"} => IsOwn(r)

IsolationInv == AloneInv /\ ReposOK /\ \A r \in Runs \ overlapped : Own(r)

LEMMA PlaceAndMark ==
    ASSUME RunsOK, NEW r \in Runs, run[r].pc \in InRepeat
    PROVE  Place(r) \in Places /\ Mark(r) \in Marks
  <1>1. run[r] \in Knowledge /\ Shaped(run[r])
    BY DEF RunsOK
  <1>2. TaskOf(run[r]) \in Tasks /\ run[r].rep \in 1..run[r].config.repeats
    BY <1>1, RepeatShape
  <1>3. run[r].config \in Configs
    BY <1>1 DEF Shaped, InRepeat
  <1>4. QED
    BY <1>1, <1>2, <1>3, PlaceIsThere DEF Place, Mark, Marks, Knowledge

LEMMA StepRepos ==
    ASSUME RunsOK, ReposOK, NEW r \in Runs, Acts(r)
    PROVE  ReposOK'
  <1>1. CASE UNCHANGED repo
    BY <1>1 DEF ReposOK
  <1>2. ASSUME run[r].pc \in InRepeat, NEW c \in Copies \cup {None},
               repo' = [repo EXCEPT ![Place(r)] = c]
        PROVE  ReposOK'
    BY <1>2, PlaceAndMark DEF ReposOK
  <1>3. ASSUME run[r].pc \in InRepeat, repo[Place(r)] # None
        PROVE  /\ repo[Place(r)] \in Copies
               /\ \A b \in BOOLEAN : [repo[Place(r)] EXCEPT !.whole = b] \in Copies
               /\ [repo[Place(r)] EXCEPT !.used = @ \cup {Mark(r)}] \in Copies
    BY <1>3, PlaceAndMark DEF ReposOK, Copies
  <1>4. CASE RemoveWorkspace(r)
    BY <1>1, <1>2, <1>3, <1>4 DEF RemoveWorkspace, At, InRepeat, ReposOK
  <1>5. CASE BeginCopy(r)
    <2>1. [by |-> Mark(r), whole |-> FALSE, used |-> {}] \in Copies
      BY <1>5, PlaceAndMark DEF BeginCopy, At, InRepeat, Copies
    <2>2. QED
      BY <1>1, <1>2, <1>5, <2>1 DEF BeginCopy, At, InRepeat
  <1>6. CASE EndCopy(r)
    BY <1>1, <1>2, <1>3, <1>6 DEF EndCopy, At, InRepeat, ReposOK
  <1>7. CASE RunComparison(r)
    BY <1>1, <1>2, <1>3, <1>7 DEF RunComparison, RunArm, At, InRepeat, ReposOK
  <1>8. QED
    BY <1>1, <1>4, <1>5, <1>6, <1>7
       DEF Acts, Step, Start, Refuse, CloseOutput, Die, LoadTask, SaveReport, CountRepeat,
           BeginManifest, EndManifest

LEMMA StartAlone ==
    ASSUME RunsOK, AloneInv, NEW r \in Runs, Acts(r)
    PROVE  AloneInv' /\ overlapped \subseteq overlapped'
  <1>1. PICK u \in Knowledge : Moves(run[r], u) /\ run' = [run EXCEPT ![r] = u]
    BY EachTakes DEF Takes
  <1>2. run'[r] = u /\ \A q \in Runs : q # r => run'[q] = run[q]
    BY <1>1 DEF RunsOK
  <1>3. CASE Start(r)
    BY <1>2, <1>3 DEF Start, AloneInv, UnderWay
  <1>4. CASE ~Start(r)
    <2>1. overlapped' = overlapped
      BY <1>4 DEF Acts, Step, Refuse, CloseOutput, Die, LoadTask, RemoveWorkspace, BeginCopy,
             EndCopy, RunComparison, RunArm, SaveReport, CountRepeat, BeginManifest, EndManifest
    <2>2. run[r].pc \in Over => u.pc \in Over
      <3>1. CASE Refuse(r)
        BY <1>2, <3>1 DEF Refuse, Gone, Fresh, Over, RunsOK
      <3>2. CASE Step(r) \/ CloseOutput(r) \/ Die(r)
        BY <3>2 DEF Step, CloseOutput, Die, LoadTask, RemoveWorkspace, BeginCopy,
             EndCopy, RunComparison, RunArm, SaveReport, CountRepeat, BeginManifest,
             EndManifest, At, UnderWay, Over
      <3>3. QED
        BY <1>4, <3>1, <3>2 DEF Acts
    <2>3. \A q \in Runs : UnderWay(q)' => UnderWay(q)
      BY <1>2, <2>2 DEF UnderWay
    <2>4. QED
      BY <2>1, <2>3 DEF AloneInv
  <1>5. QED
    BY <1>3, <1>4

\* While no other command is under way nothing that another one does is noticed.
LEMMA OthersLeaveAlone ==
    ASSUME RunsOK, AloneInv, NEW r \in Runs, Own(r), NEW q \in Runs, q # r, Acts(q),
           r \notin overlapped'
    PROVE  Own(r)'
  <1>1. run'[r] = run[r] /\ overlapped \subseteq overlapped'
    BY EachTakes, StartAlone DEF Takes, RunsOK
  <1>2. CASE UnderWay(r)
    <2>1. ~UnderWay(q)
      BY <1>1, <1>2 DEF AloneInv
    <2>2. ~Start(q)
      BY <1>2 DEF Start
    <2>3. Refuse(q)
      BY <2>1, <2>2 DEF Acts, Step, CloseOutput, Die, LoadTask, RemoveWorkspace, BeginCopy,
             EndCopy, RunComparison, RunArm, SaveReport, CountRepeat, BeginManifest,
             EndManifest, At, UnderWay, Over
    <2>4. QED
      BY <1>1, <2>3 DEF Refuse, Own, IsOwn, Place, Mark
  <1>3. CASE ~UnderWay(r)
    BY <1>1, <1>3 DEF UnderWay, Over, Own
  <1>4. QED
    BY <1>2, <1>3

\* The places at which it matters whose copy there is, or was.
Busy == {"copy", "copying", "baseline", "durable", "save", "print"}

LEMMA EntriesStayClean ==
    ASSUME RunsOK, NEW r \in Runs, Own(r), NEW u \in Knowledge, Moves(run[r], u),
           NEW i \in 1..Len(u.entries)
    PROVE  u.entries[i].clean
  <1>1. CASE u.entries = run[r].entries \/ u.entries = <<>>
    BY <1>1 DEF Own
  <1>2. CASE Notes(run[r], u)
    <2>1. PICK e : e = [file |-> run[r].file, rep |-> run[r].rep, won |-> run[r].won,
                        clean |-> run[r].clean]
      OBVIOUS
    <2>2. e \in Entries /\ run[r].entries \in Seq(Entries)
      BY <2>1 DEF RunsOK, Knowledge, Entries, EntryLists
    <2>3. e.clean /\ u.entries = Append(run[r].entries, e)
      BY <1>2, <2>1 DEF Notes, Own
    <2>4. QED
      BY <2>2, <2>3 DEF Own
  <1>3. QED
    BY <1>1, <1>2 DEF Moves, Begins, Vanishes, Skips, Opens, Closes, Works, Passes, Ahead,
                      Stays, Same

\* Whatever the command itself does, it works in a copy of its own.
LEMMA OwnStep ==
    ASSUME RunsOK, ReposOK, NEW r \in Runs, Own(r), Acts(r)
    PROVE  Own(r)'
  <1>1. PICK u \in Knowledge : Moves(run[r], u) /\ run' = [run EXCEPT ![r] = u]
    BY EachTakes DEF Takes
  <1>2. run'[r] = u /\ run[r] \in Knowledge /\ Shaped(run[r])
    BY <1>1 DEF RunsOK
  <1>3. \A i \in 1..Len(u.entries) : u.entries[i].clean
    BY <1>1, EntriesStayClean
  <1>4. CASE u.pc \notin Busy
    BY <1>2, <1>3, <1>4 DEF Own, Busy
  <1>5. ASSUME u.pc \in Busy
        PROVE  Own(r)'
    <2>1. ~Fails(r) \/ run[r].pc \notin InRepeat \/ run[r].pc = "print"
      <3>1. SUFFICES ASSUME Fails(r), run[r].pc \in InRepeat, ~IsCounted(run[r])
                     PROVE  FALSE
        BY DEF IsCounted
      <3>2. PICK v : Takes(r, v) /\ Passes(run[r], v)
        BY <3>1, FailsTakes
      <3>3. u = v
        BY <1>2, <3>2 DEF Takes, RunsOK
      <3>4. QED
        BY <1>5, <3>2, <3>3 DEF Passes, Ahead, Busy
    <2>2. u.file = run[r].file /\ u.rep = run[r].rep /\ u.config = run[r].config
      BY <1>1, <1>5 DEF Moves, Begins, Vanishes, Skips, Opens, Closes, Works, Notes, Passes,
                        Ahead, Stays, Same, Busy
    <2>3. PICK p : p = Place(r) /\ p = Place(r)'
      BY <1>2, <2>2 DEF Place, TaskOf
    <2>4. PICK m : m = Mark(r) /\ m = Mark(r)'
      BY <1>2, <2>2 DEF Mark
    <2>5. run[r].pc \in InRepeat => p \in Places /\ m \in Marks
      BY <2>3, <2>4, PlaceAndMark
    <2>6. CASE RemoveWorkspace(r)
      <3>1. repo'[p] = None /\ u.pc = "copy"
        BY <1>2, <2>1, <2>3, <2>5, <2>6
           DEF RemoveWorkspace, At, InRepeat, ReposOK, Goto, RunsOK, Knowledge
      <3>2. QED
        BY <1>2, <1>3, <2>3, <3>1 DEF Own
    <2>7. CASE BeginCopy(r)
      <3>1. repo'[p] = [by |-> m, whole |-> FALSE, used |-> {}] /\ u.pc = "copying"
        <4>1. run[r].pc \in InRepeat /\ ~Fails(r)
          BY <2>1, <2>7 DEF BeginCopy, At, InRepeat
        <4>2. /\ repo' = [repo EXCEPT ![p] = [by |-> m, whole |-> FALSE, used |-> {}]]
              /\ Goto(r, "copying")
          BY <2>3, <2>4, <2>7, <4>1 DEF BeginCopy
        <4>3. u.pc = "copying"
          BY <1>2, <4>2 DEF Goto, RunsOK, Knowledge
        <4>4. QED
          BY <2>5, <4>1, <4>2, <4>3 DEF ReposOK
      <3>2. repo'[p] \in Copies
        BY <2>5, <2>7, <3>1 DEF BeginCopy, At, InRepeat, Copies
      <3>3. repo'[p] # None /\ repo'[p].by = m /\ repo'[p].used = {}
        <4>1. repo'[p] # None
          BY <3>2, NoneAssumption, Zenon
        <4>2. repo'[p].by = m /\ repo'[p].used = {}
          BY <3>1
        <4>3. QED
          BY <4>1, <4>2
      <3>4. QED
        BY <1>2, <1>3, <2>3, <2>4, <3>1, <3>3 DEF Own
    <2>8. CASE EndCopy(r)
      <3>1. /\ repo[p] # None /\ repo[p].by = m /\ repo[p].used = {}
            /\ repo[p] \in Copies /\ p \in Places
        BY <2>3, <2>4, <2>5, <2>8 DEF EndCopy, At, InRepeat, Own, ReposOK
      <3>2. repo'[p] = [repo[p] EXCEPT !.whole = TRUE] /\ u.pc = "baseline"
        <4>1. Goto(r, "baseline") /\ repo' = [repo EXCEPT ![p].whole = TRUE]
          BY <2>1, <2>3, <2>4, <2>8, <3>1 DEF EndCopy, At, InRepeat
        <4>2. u.pc = "baseline"
          BY <1>2, <4>1 DEF Goto, RunsOK, Knowledge
        <4>3. QED
          BY <3>1, <4>1, <4>2 DEF ReposOK
      <3>3. /\ repo'[p] \in Copies /\ repo'[p].by = m /\ repo'[p].whole
            /\ repo'[p].used = {}
        BY <3>1, <3>2 DEF Copies
      <3>4. IsOwn(r)'
        BY <2>3, <2>4, <3>3, NoneAssumption DEF IsOwn
      <3>5. QED
        BY <1>2, <1>3, <3>2, <3>4 DEF Own
    <2>9. CASE RunComparison(r)
      <3>1. PICK from \in {"baseline", "durable"}, to \in {"durable", "save"} : RunArm(r, from, to)
        BY <2>9 DEF RunComparison
      <3>2. IsOwn(r) /\ run[r].clean /\ run[r].pc \in InRepeat
        BY <1>2, <3>1 DEF RunArm, At, Own, Shaped, InRepeat
      <3>3. /\ repo[p] # None /\ repo[p].by = m /\ repo[p].whole /\ repo[p].used \subseteq {m}
            /\ repo[p] \in Copies /\ p \in Places
        BY <2>3, <2>4, <2>5, <3>2 DEF IsOwn, ReposOK
      <3>4. repo'[p] = [repo[p] EXCEPT !.used = @ \cup {m}]
        BY <2>3, <2>4, <3>1, <3>3 DEF RunArm, ReposOK
      <3>5. /\ repo'[p] \in Copies /\ repo'[p].by = m /\ repo'[p].whole
            /\ repo'[p].used \subseteq {m}
        BY <2>5, <3>2, <3>3, <3>4 DEF Copies
      <3>6. IsOwn(r)'
        BY <2>3, <2>4, <3>5, NoneAssumption DEF IsOwn
      <3>7. PICK won \in BOOLEAN :
               run' = [run EXCEPT ![r].pc = to, ![r].clean = @ /\ IsOwn(r), ![r].won = won]
        BY <2>1, <3>1, <3>2 DEF RunArm, At
      <3>8. u.pc = to /\ u.clean
        BY <1>2, <3>2, <3>7 DEF RunsOK, Knowledge
      <3>9. QED
        BY <1>2, <1>3, <3>6, <3>8 DEF Own
    <2>10. CASE SaveReport(r)
      <3>1. u.pc = "print" /\ u.clean = run[r].clean
        BY <1>2, <2>1, <2>10 DEF SaveReport, At, InRepeat, RunsOK, Knowledge
      <3>2. QED
        BY <1>2, <1>3, <2>10, <3>1 DEF Own, SaveReport, At
    <2>11. CASE CloseOutput(r)
      <3>1. u.pc = run[r].pc /\ u.clean = run[r].clean /\ repo' = repo
        BY <1>2, <2>11 DEF CloseOutput, RunsOK, Knowledge
      <3>2. QED
        BY <1>2, <1>3, <2>3, <2>4, <3>1 DEF Own, IsOwn
    <2>12. CASE CountRepeat(r)
      <3>1. u = IF run[r].open THEN NextRepeat(Counted(run[r])) ELSE Report(run[r])
        BY <1>2, <2>12 DEF CountRepeat, RunsOK
      <3>2. Passes(run[r], u)
        BY <1>2, <2>12, <3>1, CountPasses, ReportPasses DEF CountRepeat, At, InRepeat, IsCounted
      <3>3. QED
        BY <1>5, <3>2 DEF Passes, Ahead, Busy
    <2>13. CASE Start(r) \/ LoadTask(r)
      <3>1. run[r].pc \in {"off", "load"} /\ u.pc \notin {"off"}
        BY <1>1, <2>13 DEF Start, LoadTask, At, Moves, Begins, Vanishes, Skips, Opens, Closes,
                           Works, Notes, Passes, Ahead, Stays, Over
      <3>2. QED
        BY <1>1, <1>5, <3>1 DEF Moves, Begins, Vanishes, Skips, Opens, Closes, Works, Notes,
                                Passes, Stays, InRepeat, Over, Busy
    <2>14. CASE Refuse(r) \/ Die(r)
      BY <1>2, <1>5, <2>14 DEF Refuse, Die, Gone, Fresh, RunsOK, Busy
    <2>15. CASE BeginManifest(r) \/ EndManifest(r)
      BY <1>2, <1>5, <2>15 DEF BeginManifest, EndManifest, Goto, RunsOK, Knowledge, Busy
    <2>16. QED
      BY <2>6, <2>7, <2>8, <2>9, <2>10, <2>11, <2>12, <2>13, <2>14, <2>15 DEF Acts, Step
  <1>6. QED
    BY <1>4, <1>5

LEMMA IsolationInvHolds == Spec => []IsolationInv
  <1>1. Init => IsolationInv
    BY DEF Init, IsolationInv, AloneInv, ReposOK, Own, Fresh, UnderWay, Over
  <1>2. RunsOK /\ IsolationInv /\ [Next]_vars => IsolationInv'
    <2> SUFFICES ASSUME RunsOK, IsolationInv, [Next]_vars
                 PROVE  IsolationInv'
      OBVIOUS
    <2>1. CASE UNCHANGED vars
      BY <2>1, Zenon DEF vars, IsolationInv, AloneInv, UnderWay, ReposOK, Own, IsOwn, Place, Mark
    <2>2. ASSUME NEW q \in Runs, Acts(q)
          PROVE  IsolationInv'
      <3>1. AloneInv' /\ ReposOK' /\ overlapped \subseteq overlapped'
        BY <2>2, StartAlone, StepRepos DEF IsolationInv
      <3>2. ASSUME NEW r \in Runs \ overlapped'
            PROVE  Own(r)'
        <4>1. Own(r)
          BY <3>1 DEF IsolationInv
        <4>2. CASE q = r
          BY <2>2, <4>1, <4>2, OwnStep DEF IsolationInv
        <4>3. CASE q # r
          BY <2>2, <4>1, <4>3, OthersLeaveAlone DEF IsolationInv
        <4>4. QED
          BY <4>2, <4>3
      <3>3. QED
        BY <3>1, <3>2 DEF IsolationInv
    <2>3. QED
      BY <2>1, <2>2 DEF Next, Acts
  <1>3. QED
    BY <1>1, <1>2, RunsAreOK, PTL DEF Spec

\* Both arms of every comparison that is noted worked in the whole copy made for it, which
\* nothing else had used, unless another run was under way at the same time.
THEOREM ComparisonsAreIsolated == Spec => []ComparisonIsolated
  <1>1. RunsOK /\ IsolationInv => ComparisonIsolated
    <2> SUFFICES ASSUME RunsOK, IsolationInv, NEW r \in Runs \ overlapped,
                        NEW i \in DOMAIN run[r].entries
                 PROVE  run[r].entries[i].clean
      BY DEF ComparisonIsolated
    <2>1. i \in 1..Len(run[r].entries)
      BY DEF RunsOK, Knowledge, EntryLists
    <2>2. QED
      BY <2>1 DEF IsolationInv, Own
  <1>2. QED
    BY <1>1, RunsAreOK, IsolationInvHolds, PTL
==============================================================================
