--------------------------- MODULE MCExperimentRun ---------------------------
(***************************************************************************)
(* Runs of two configurations: two task files that give the same task id,  *)
(* and one file repeated twice.                                            *)
(***************************************************************************)
EXTENDS ExperimentRun, TLC

CONSTANT task

OneTaskTwice == {[tasks |-> <<task, task>>, repeats |-> 1],
                 [tasks |-> <<task>>, repeats |-> 2]}

RunSymmetry == Permutations(Runs)
==============================================================================
