------------------------------ MODULE Comparison ------------------------------
(***************************************************************************)
(* run_comparison (experiments/runner.py): the baseline loop               *)
(* (experiments/baseline.py) and then the durable run of the same goal, a  *)
(* plan of one task (experiments/durable.py), in one workspace, with one   *)
(* FaultInjector (experiments/fault_injection.py) between them.  Of the    *)
(* durable run only its loop and the places where it asks for a fault are  *)
(* here; its stores are those of module DurableRuntime.                    *)
(***************************************************************************)
EXTENDS Naturals, Sequences, FiniteSets

CONSTANTS
    FaultConfigs,       \* the fault configurations an experiment may have
    Tools,              \* the names of the tools the model may call
    BaselineIterations, \* 5 in the code
    DurableIterations,  \* 10 in the code, for a plan of one task
    None                \* no fault, no result

Arms == {"baseline", "durable"}

\* The events at which a runtime asks for a fault; it also asks at each call of a tool.
Events == {"workflow_created", "goal_compiled", "action_proposed",
           "action_execution_started", "action_execution_succeeded"}
Probes == Events \cup Tools

\* "tool_timeout" shortens the tool's time, so its call may fail as any call may; it
\* stands for the other eight types too, which are triggered and have no effect.
FaultTypes == {"process_kill", "model_timeout", "malformed_model_response", "tool_timeout"}

\* What _validate accepts.  A trigger may name an event, a tool, both or, as long as it is
\* not empty, neither (None, also for a name nothing asks about), and may have no
\* occurrence.
Faults == [type : FaultTypes, event : Events \cup {None}, tool : Tools \cup {None},
           occurrence : Nat \cup {None}]

ASSUME ConfigsAssumption == FaultConfigs \subseteq Seq(Faults)
ASSUME ToolsAssumption == Tools \cap Events = {}
ASSUME IterationsAssumption ==
    /\ BaselineIterations \in Nat \ {0}
    /\ DurableIterations \in Nat \ {0}
ASSUME NoneAssumption ==
    None \notin Faults \cup Probes \cup FaultTypes \cup Nat \cup {"success", "failure", "killed"}

VARIABLES
    faults,     \* FaultInjector._faults, the configuration
    counters,   \* FaultInjector._counters
    triggered,  \* FaultInjector._triggered, with the arm and occurrence of each (history)
    criteria,   \* the goal declares success criteria
    met,        \* what evaluating them in the workspace comes to
    arm,        \* the runtime that is running
    pc,         \* where it is
    iteration,
    ok,         \* result.success of the last tool call
    terminal,   \* the model calls it the last one
    result      \* the outcome of each arm

injector == <<counters, triggered>>
vars == <<faults, injector, criteria, met, arm, pc, iteration, ok, terminal, result>>

----------------------------------------------------------------------------
(* The fault injector.                                                     *)

\* A fault's trigger names this occurrence.
Matches(fault, probe, n) ==
    /\ probe = IF probe \in Tools THEN fault.tool ELSE fault.event
    /\ fault.occurrence = n

\* _match_event_fault and _match_tool_fault: the first fault of the list that does.
FirstMatch(probe, n) ==
    LET found == {i \in 1..Len(faults) : Matches(faults[i], probe, n)}
    IN  IF found = {} THEN None ELSE faults[CHOOSE i \in found : \A j \in found : i <= j]

\* The counter is looked at before it counts this occurrence.
FaultLate(probe) == FirstMatch(probe, counters[probe])

\* The fault for the occurrence that is asked about now,
FaultDue(probe) == FirstMatch(probe, counters[probe] + 1)

\* what get_fault and get_fault_for_tool return of it,
FaultNow(probe) == IF FaultDue(probe) = None THEN None ELSE FaultDue(probe).type

\* and what they record.
Ask(probe) ==
    /\ counters' = [counters EXCEPT ![probe] = @ + 1]
    /\ triggered' =
           IF FaultDue(probe) = None THEN triggered
           ELSE Append(triggered, [arm |-> arm, probe |-> probe,
                                   at |-> counters[probe] + 1, fault |-> FaultDue(probe)])

----------------------------------------------------------------------------

\* _evaluate_success_criteria: all criteria hold, one does not, or it raises: only an
\* OSError is caught around read_text, and a file need not be text.
Verdicts == {"yes", "no", "raises"}

Init ==
    /\ faults \in FaultConfigs
    /\ counters = [p \in Probes |-> 0]
    /\ triggered = <<>>
    /\ criteria \in BOOLEAN
    /\ met \in Verdicts
    /\ arm = "baseline"
    /\ pc = "begin"
    /\ iteration = 0
    /\ ok = FALSE
    /\ terminal = FALSE
    /\ result = [a \in Arms |-> None]

At(a, place) == arm = a /\ pc = place

Goto(place) == pc' = place /\ UNCHANGED <<arm, iteration, result>>

\* run_goal returns, or ends in a SystemExit that run_comparison catches.
EndArm(outcome) ==
    /\ result' = [result EXCEPT ![arm] = outcome]
    /\ iteration' = 0
    /\ \/ arm = "baseline" /\ arm' = "durable" /\ pc' = "begin"
       \/ arm = "durable" /\ arm' = arm /\ pc' = "report"

\* Any other exception leaves run_goal and run_comparison: there is no report.
Raise == Goto("raised")

\* The next round of a loop that still has one.
NextRound(place) ==
    /\ iteration' = iteration + 1
    /\ pc' = place
    /\ UNCHANGED <<arm, result>>

\* A call that fails is made again until it succeeds.
RunToolUntilDone ==
    /\ pc = "run"
    /\ ok' \in BOOLEAN
    /\ met' \in Verdicts
    /\ Goto(IF ok' THEN "judge" ELSE "run")
    /\ UNCHANGED <<faults, injector, criteria, terminal>>

\* The tool runs, for as long as its context allows.  It may fail, and whatever it
\* does may change what the criteria say of the workspace.
RunTool ==
    /\ pc = "run"
    /\ ok' \in BOOLEAN
    /\ met' \in Verdicts
    /\ Goto("judge")
    /\ UNCHANGED <<faults, injector, criteria, terminal>>

----------------------------------------------------------------------------
(* BaselineRuntime.run_goal.                                               *)

\* The declared criteria are evaluated, and all of them hold,
Achieved == criteria /\ met = "yes"

\* or evaluating them raises.
Unreadable == criteria /\ met = "raises"

\* Criteria that hold from the start end the run before its first iteration.
BaselineBegin ==
    /\ At("baseline", "begin")
    /\ \/ Unreadable /\ Raise
       \/ Achieved /\ EndArm("success")
       \/ ~Unreadable /\ ~Achieved /\ Goto("propose")
    /\ UNCHANGED <<faults, injector, criteria, met, ok, terminal>>

BaselineGivesUp ==
    /\ At("baseline", "propose")
    /\ iteration = BaselineIterations
    /\ EndArm("failure")
    /\ UNCHANGED <<faults, injector, criteria, met, ok, terminal>>

\* A malformed response costs the iteration.
BaselinePropose ==
    /\ At("baseline", "propose")
    /\ iteration < BaselineIterations
    /\ Ask("action_proposed")
    /\ LET fault == FaultNow("action_proposed")
       IN  \/ fault = "model_timeout" /\ Raise
           \/ fault = "malformed_model_response" /\ NextRound("propose")
           \/ fault \notin {"model_timeout", "malformed_model_response"} /\ NextRound("ask")
    /\ UNCHANGED <<faults, criteria, met, ok, terminal>>

\* _propose_action: a proposal, the last one or not, or an exception.
BaselineAnswers == {"proposal", "last proposal", "exception"}

\* An exception costs the iteration.
BaselineModel ==
    /\ At("baseline", "ask")
    /\ \E answer \in BaselineAnswers :
          IF answer = "exception"
          THEN Goto("propose") /\ UNCHANGED terminal
          ELSE Goto("tool") /\ terminal' = (answer = "last proposal")
    /\ UNCHANGED <<faults, injector, criteria, met, ok>>

\* Any fault ends the run.
BaselineToolFragile ==
    /\ At("baseline", "tool")
    /\ \E tool \in Tools :
          /\ Ask(tool)
          /\ IF FaultNow(tool) # None THEN EndArm("killed") ELSE Goto("run")
    /\ UNCHANGED <<faults, criteria, met, ok, terminal>>

BaselineTool ==
    /\ At("baseline", "tool")
    /\ \E tool \in Tools :
          /\ Ask(tool)
          /\ IF FaultNow(tool) = "process_kill" THEN EndArm("killed") ELSE Goto("run")
    /\ UNCHANGED <<faults, criteria, met, ok, terminal>>

\* The tool's word is taken for the criteria.
BaselineJudgeTrusting ==
    /\ At("baseline", "judge")
    /\ IF ok THEN EndArm("success") ELSE Goto("propose")
    /\ UNCHANGED <<faults, injector, criteria, met, ok, terminal>>

\* Declared criteria decide; without any, the model's word and a tool that succeeded.
BaselineJudge ==
    /\ At("baseline", "judge")
    /\ LET done == Achieved \/ (~criteria /\ ok /\ terminal)
       IN  \/ Unreadable /\ Raise
           \/ done /\ EndArm("success")
           \/ ~Unreadable /\ ~done /\ Goto("propose")
    /\ UNCHANGED <<faults, injector, criteria, met, ok, terminal>>

Baseline ==
    \/ BaselineBegin
    \/ BaselineGivesUp
    \/ BaselinePropose
    \/ BaselineModel
    \/ BaselineTool
    \/ BaselineJudge

----------------------------------------------------------------------------
(* DurableRuntime.run_goal.                                                *)

\* _check_event_fault at a place, then on.
CheckEventFault(probe, Onward) ==
    /\ Ask(probe)
    /\ \/ FaultNow(probe) = "process_kill" /\ EndArm("killed")
       \/ FaultNow(probe) = "model_timeout" /\ Raise
       \/ FaultNow(probe) \notin {"process_kill", "model_timeout"} /\ Onward
    /\ UNCHANGED <<faults, criteria, met, ok, terminal>>

DurableBegin ==
    /\ At("durable", "begin")
    /\ CheckEventFault("workflow_created", Goto("compiled"))

DurableCompiled ==
    /\ At("durable", "compiled")
    /\ CheckEventFault("goal_compiled", Goto("propose"))

DurableGivesUp ==
    /\ At("durable", "propose")
    /\ iteration = DurableIterations
    /\ EndArm("failure")
    /\ UNCHANGED <<faults, injector, criteria, met, ok, terminal>>

DurablePropose ==
    /\ At("durable", "propose")
    /\ iteration < DurableIterations
    /\ CheckEventFault("action_proposed", NextRound("ask"))

\* The model fails or the boundary rejects its proposal, and the only task of the plan
\* is FAILED or REJECTED; or the action is approved.
DurableModel ==
    /\ At("durable", "ask")
    /\ EndArm("failure") \/ Goto("start")
    /\ UNCHANGED <<faults, injector, criteria, met, ok, terminal>>

DurableStart ==
    /\ At("durable", "start")
    /\ CheckEventFault("action_execution_started", Goto("tool"))

DurableTool ==
    /\ At("durable", "tool")
    /\ \E tool \in Tools :
          /\ Ask(tool)
          /\ IF FaultNow(tool) = "process_kill" THEN EndArm("killed") ELSE Goto("run")
    /\ UNCHANGED <<faults, criteria, met, ok, terminal>>

\* A tool call that succeeded commits the task; after another the task is retried.
DurableJudge ==
    /\ At("durable", "judge")
    /\ CheckEventFault("action_execution_succeeded",
                       IF ok THEN EndArm("success") ELSE Goto("propose"))

Durable ==
    \/ DurableBegin
    \/ DurableCompiled
    \/ DurableGivesUp
    \/ DurablePropose
    \/ DurableModel
    \/ DurableStart
    \/ DurableTool
    \/ DurableJudge

Next == Baseline \/ Durable \/ RunTool

\* Both loops are sequential code: while one has a step to take it takes one.
Spec == Init /\ [][Next]_vars /\ WF_vars(Next)

----------------------------------------------------------------------------
(* Properties.                                                             *)

\* Every variable keeps its type, and neither loop exceeds its bound.
TypeOK ==
    /\ faults \in Seq(Faults)
    /\ counters \in [Probes -> Nat]
    /\ triggered \in Seq([arm : Arms, probe : Probes, at : Nat \ {0}, fault : Faults])
    /\ criteria \in BOOLEAN /\ met \in Verdicts
    /\ ok \in BOOLEAN /\ terminal \in BOOLEAN
    /\ arm \in Arms
    /\ pc \in {"begin", "compiled", "propose", "ask", "start", "tool", "run", "judge",
               "report", "raised"}
    /\ iteration \in 0..(IF arm = "baseline" THEN BaselineIterations ELSE DurableIterations)
    /\ result \in [Arms -> {None, "success", "failure", "killed"}]

\* The occurrences of both arms together are counted, and each is answered once: what it
\* triggers is the first fault of the configuration that names it, if there is one, and
\* nothing else is triggered.  So a fault comes at most once at each event or tool, and
\* what the baseline has met there spares the durable arm, although
\* docs/implementation-plan.md:374 says "Faults are applied to both runtimes".
FaultsOnTime ==
    /\ \A i \in 1..Len(triggered) :
          LET t == triggered[i]
          IN  /\ t.at <= counters[t.probe]
              /\ \E k \in 1..Len(faults) :
                    /\ t.fault = faults[k] /\ Matches(faults[k], t.probe, t.at)
                    /\ \A j \in 1..(k - 1) : ~Matches(faults[j], t.probe, t.at)
    /\ \A p \in Probes : \A n \in 1..counters[p] :
          (\E k \in 1..Len(faults) : Matches(faults[k], p, n)) =>
             \E i \in 1..Len(triggered) :
                \A j \in 1..Len(triggered) :
                   triggered[j].probe = p /\ triggered[j].at = n <=> j = i
    /\ \A i, j \in 1..Len(triggered) :
          /\ triggered[i].probe = triggered[j].probe
          /\ triggered[i].fault = triggered[j].fault
          => i = j

\* An arm counts as killed only by a fault: the last one triggered in that arm is a kill.
\* The comparison is lost without a report only by a model timeout, the last fault
\* triggered, or by declared criteria that the baseline cannot evaluate.
LossHasCause ==
    /\ \A a \in Arms : result[a] = "killed" =>
          \E i \in 1..Len(triggered) :
             /\ triggered[i].arm = a /\ triggered[i].fault.type = "process_kill"
             /\ \A j \in (i + 1)..Len(triggered) : triggered[j].arm # a
    /\ pc = "raised" => \/ arm = "baseline" /\ criteria /\ met = "raises"
                        \/ /\ triggered # <<>>
                           /\ triggered[Len(triggered)].fault.type = "model_timeout"
                           /\ triggered[Len(triggered)].arm = arm

\* No arm reports a success it has not earned: the baseline's means that the criteria hold
\* in the workspace at that moment, or that the last tool call succeeded if there are
\* none; the durable arm's that its last tool call succeeded.
SuccessIsEarned ==
    [][\A a \in Arms : result[a] = None /\ result'[a] = "success" =>
           CASE a = "baseline" /\ criteria -> met' = "yes"
             [] OTHER -> ok' /\ iteration > 0]_vars

\* A comparison ends, with a report or without, whatever the model and the tools do.
Ends == <>(pc \in {"report", "raised"})
===============================================================================
