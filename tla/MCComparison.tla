----------------------------- MODULE MCComparison -----------------------------
(***************************************************************************)
(* Fault configurations for model checking Comparison: every list of one   *)
(* fault at one of the first MaxOccurrence occurrences, and every list of  *)
(* two that name what both runtimes ask about, a proposal, a call of a     *)
(* tool, or both in one trigger; the same occurrence twice among them.     *)
(***************************************************************************)
EXTENDS Comparison

CONSTANT MaxOccurrence  \* bound: the highest occurrence a trigger names

SingleFaults ==
    [type : FaultTypes, event : Events \cup {None}, tool : Tools \cup {None},
     occurrence : 1..MaxOccurrence \cup {None}]

SharedFaults ==
    {f \in SingleFaults : /\ f.event \in {"action_proposed", None}
                          /\ f.event # None \/ f.tool # None
                          /\ f.occurrence # None}

UpToTwoFaults ==
    {<<>>} \cup {<<f>> : f \in SingleFaults} \cup {<<f, g>> : f, g \in SharedFaults}
===============================================================================
