--------------------------- MODULE ComparisonProofs ---------------------------
(***************************************************************************)
(* Theorems about the comparison of the two runtimes, for every set of     *)
(* lists of faults, every set of tools and every bound of the two loops.   *)
(***************************************************************************)
EXTENDS Comparison, WellFoundedInduction, TLAPS

Outcomes == {"success", "failure", "killed"}

Final == {"report", "raised"}

----------------------------------------------------------------------------
(* The kinds of steps.                                                     *)

\* The two runtimes go on, or one of them ends.
GoesOn == UNCHANGED <<arm, result>> /\ pc' \notin Final

\* The baseline cannot evaluate the declared criteria.
CannotJudge ==
    /\ arm = "baseline" /\ Unreadable
    /\ UNCHANGED <<arm, result, criteria, met>> /\ pc' = "raised"

LEMMA StepKinds ==
    ASSUME Next
    PROVE  /\ UNCHANGED faults
           /\ pc \notin Final
           /\ \/ /\ UNCHANGED injector
                 /\ \/ GoesOn \/ EndArm("success") \/ EndArm("failure")
                    \/ CannotJudge
              \/ \E p \in Probes :
                    /\ Ask(p)
                    /\ \/ GoesOn \/ EndArm("success")
                       \/ /\ FaultNow(p) = "model_timeout"
                          /\ UNCHANGED <<arm, result>> /\ pc' = "raised"
                       \/ FaultNow(p) = "process_kill" /\ EndArm("killed")
  <1> USE DEF GoesOn, CannotJudge, Goto, NextRound, At, Final, Probes, Events
  <1>1. CASE RunTool
    BY <1>1 DEF RunTool
  <1>2. CASE Baseline
    <2>1. CASE BaselineBegin
      BY <2>1 DEF BaselineBegin, Raise
    <2>2. CASE BaselineGivesUp
      BY <2>2 DEF BaselineGivesUp
    <2>3. CASE BaselinePropose
      BY <2>3 DEF BaselinePropose, Raise
    <2>4. CASE BaselineModel
      BY <2>4 DEF BaselineModel
    <2>5. CASE BaselineTool
      BY <2>5 DEF BaselineTool
    <2>6. CASE BaselineJudge
      BY <2>6 DEF BaselineJudge, Raise
    <2>7. QED
      BY <1>2, <2>1, <2>2, <2>3, <2>4, <2>5, <2>6 DEF Baseline
  <1>3. CASE Durable
    <2>1. CASE DurableBegin
      BY <2>1 DEF DurableBegin, CheckEventFault, Raise
    <2>2. CASE DurableCompiled
      BY <2>2 DEF DurableCompiled, CheckEventFault, Raise
    <2>3. CASE DurableGivesUp
      BY <2>3 DEF DurableGivesUp
    <2>4. CASE DurablePropose
      BY <2>4 DEF DurablePropose, CheckEventFault, Raise
    <2>5. CASE DurableModel
      BY <2>5 DEF DurableModel
    <2>6. CASE DurableStart
      BY <2>6 DEF DurableStart, CheckEventFault, Raise
    <2>7. CASE DurableTool
      BY <2>7 DEF DurableTool
    <2>8. CASE DurableJudge
      BY <2>8 DEF DurableJudge, CheckEventFault, Raise
    <2>9. QED
      BY <1>3, <2>1, <2>2, <2>3, <2>4, <2>5, <2>6, <2>7, <2>8 DEF Durable
  <1>4. QED
    BY <1>1, <1>2, <1>3 DEF Next

----------------------------------------------------------------------------
(* Types.                                                                  *)

\* The first fault that names an occurrence, if one does.
LEMMA FirstMatchIsFirst ==
    ASSUME TypeOK, NEW p \in Probes, NEW n \in Nat
    PROVE  \/ /\ FirstMatch(p, n) = None
              /\ \A k \in 1..Len(faults) : ~Matches(faults[k], p, n)
           \/ \E k \in 1..Len(faults) :
                 /\ FirstMatch(p, n) = faults[k] /\ faults[k] \in Faults
                 /\ Matches(faults[k], p, n)
                 /\ \A j \in 1..(k - 1) : ~Matches(faults[j], p, n)
  <1> DEFINE found == {i \in 1..Len(faults) : Matches(faults[i], p, n)}
             first == CHOOSE i \in found : \A j \in found : i <= j
  <1>1. FirstMatch(p, n) = IF found = {} THEN None ELSE faults[first]
    BY DEF FirstMatch
  <1>2. found \subseteq 1..Len(faults) /\ Len(faults) \in Nat
    BY DEF TypeOK
  <1>3. \A i \in 1..Len(faults) : faults[i] \in Faults
    BY DEF TypeOK
  <1>4. CASE found = {}
    BY <1>1, <1>4
  <1>5. CASE found # {}
    <2>1. found \subseteq Nat
      BY <1>2
    <2>2. \E i \in found : \A j \in found : i <= j
      <3>1. IsWellFoundedOn(OpToRel(<, Nat), Nat)
        BY NatLessThanWellFounded, Zenon
      <3>2. \A i, j \in Nat : i < j => <<i, j>> \in OpToRel(<, Nat)
        BY DEF OpToRel
      <3> HIDE DEF found
      <3>3. PICK i \in found : \A j \in found : ~(<<j, i>> \in OpToRel(<, Nat))
        BY <1>5, <2>1, <3>1, WFMin, Zenon
      <3>4. \A j \in found : ~(j < i)
        BY <2>1, <3>2, <3>3, Zenon
      <3>5. \A a, b \in Nat : ~(b < a) => a <= b
        OBVIOUS
      <3>6. \A j \in found : i <= j
        BY <2>1, <3>4, <3>5, Zenon
      <3>7. QED
        BY <3>6, Zenon
    <2>3. first \in found /\ \A j \in found : first <= j
      <3> HIDE DEF found
      <3>1. QED
        BY <2>2
    <2>4. first \in 1..Len(faults) /\ Matches(faults[first], p, n)
      BY <2>3
    <2>5. \A j \in 1..(first - 1) : ~Matches(faults[j], p, n)
      <3> SUFFICES ASSUME NEW j \in 1..(first - 1), Matches(faults[j], p, n)
                   PROVE  FALSE
        OBVIOUS
      <3>1. j \in 1..Len(faults) /\ ~(first <= j)
        <4> HIDE DEF first, found
        <4>1. QED
          BY <1>2, <2>4
      <3>2. j \in found
        BY <3>1
      <3> HIDE DEF first, found
      <3>3. QED
        BY <2>3, <3>1, <3>2
    <2> HIDE DEF first
    <2>6. QED
      BY <1>1, <1>3, <1>5, <2>4, <2>5
  <1>6. QED
    BY <1>4, <1>5

LEMMA FaultNowType ==
    ASSUME TypeOK, NEW p \in Probes
    PROVE  /\ counters[p] + 1 \in Nat \ {0}
           /\ FaultDue(p) \in Faults \cup {None}
           /\ FaultNow(p) \in FaultTypes \cup {None}
           /\ FaultNow(p) = None <=> FaultDue(p) = None
           /\ FaultDue(p) # None => FaultNow(p) = FaultDue(p).type
  <1>1. counters[p] + 1 \in Nat \ {0}
    BY DEF TypeOK
  <1>2. FaultDue(p) \in Faults \cup {None}
    BY <1>1, FirstMatchIsFirst DEF FaultDue
  <1>3. FaultDue(p) # None => FaultDue(p).type \in FaultTypes
    BY <1>2 DEF Faults
  <1>4. None \notin FaultTypes
    BY NoneAssumption
  <1>5. QED
    BY <1>1, <1>2, <1>3, <1>4 DEF FaultNow

\* What the list of triggered faults is made of.
Entries == [arm : Arms, probe : Probes, at : Nat \ {0}, fault : Faults]

LEMMA AskType ==
    ASSUME TypeOK, NEW p \in Probes, Ask(p)
    PROVE  counters' \in [Probes -> Nat] /\ triggered' \in Seq(Entries)
  <1>1. counters' \in [Probes -> Nat]
    BY DEF Ask, TypeOK
  <1>2. CASE FaultDue(p) = None
    BY <1>1, <1>2 DEF Ask, TypeOK, Entries
  <1>3. CASE FaultDue(p) # None
    <2>1. FaultDue(p) \in Faults /\ counters[p] + 1 \in Nat \ {0} /\ arm \in Arms
      BY <1>3, FaultNowType DEF TypeOK
    <2>2. [arm |-> arm, probe |-> p, at |-> counters[p] + 1, fault |-> FaultDue(p)] \in Entries
      BY <2>1 DEF Entries
    <2>3. triggered \in Seq(Entries)
      BY DEF TypeOK, Entries
    <2>4. triggered' = Append(triggered, [arm |-> arm, probe |-> p, at |-> counters[p] + 1,
                                          fault |-> FaultDue(p)])
      BY <1>3 DEF Ask
    <2>5. QED
      BY <1>1, <2>2, <2>3, <2>4
  <1>4. QED
    BY <1>2, <1>3

\* Where the loops are and how far.
PlaceOK ==
    /\ arm \in Arms
    /\ pc \in {"begin", "compiled", "propose", "ask", "start", "tool", "run", "judge",
               "report", "raised"}
    /\ iteration \in 0..(IF arm = "baseline" THEN BaselineIterations ELSE DurableIterations)
    /\ result \in [Arms -> {None} \cup Outcomes]

LEMMA EndArmPlace ==
    ASSUME PlaceOK, NEW o \in Outcomes, EndArm(o)
    PROVE  PlaceOK'
  BY IterationsAssumption DEF PlaceOK, EndArm, Arms

LEMMA GotoPlace ==
    ASSUME PlaceOK, NEW place \in {"begin", "compiled", "propose", "ask", "start", "tool",
                                   "run", "judge", "report", "raised"}, Goto(place)
    PROVE  PlaceOK'
  BY DEF PlaceOK, Goto

LEMMA NextRoundPlace ==
    ASSUME PlaceOK, NEW place \in {"propose", "ask"}, NextRound(place),
           iteration < (IF arm = "baseline" THEN BaselineIterations ELSE DurableIterations)
    PROVE  PlaceOK'
  BY IterationsAssumption DEF PlaceOK, NextRound, Arms

LEMMA StepPlace ==
    ASSUME PlaceOK, Next
    PROVE  PlaceOK'
  <1> USE DEF Outcomes
  <1>1. CASE RunTool
    BY <1>1, GotoPlace DEF RunTool
  <1>2. CASE Baseline
    <2>1. CASE BaselineBegin
      BY <2>1, EndArmPlace, GotoPlace DEF BaselineBegin, Raise
    <2>2. CASE BaselineGivesUp
      BY <2>2, EndArmPlace DEF BaselineGivesUp
    <2>3. CASE BaselinePropose
      BY <2>3, GotoPlace, NextRoundPlace DEF BaselinePropose, Raise, At
    <2>4. CASE BaselineModel
      BY <2>4, GotoPlace DEF BaselineModel
    <2>5. CASE BaselineTool
      BY <2>5, EndArmPlace, GotoPlace DEF BaselineTool
    <2>6. CASE BaselineJudge
      BY <2>6, EndArmPlace, GotoPlace DEF BaselineJudge, Raise
    <2>7. QED
      BY <1>2, <2>1, <2>2, <2>3, <2>4, <2>5, <2>6 DEF Baseline
  <1>3. CASE Durable
    <2>1. CASE DurableBegin
      BY <2>1, EndArmPlace, GotoPlace DEF DurableBegin, CheckEventFault, Raise
    <2>2. CASE DurableCompiled
      BY <2>2, EndArmPlace, GotoPlace DEF DurableCompiled, CheckEventFault, Raise
    <2>3. CASE DurableGivesUp
      BY <2>3, EndArmPlace DEF DurableGivesUp
    <2>4. CASE DurablePropose
      BY <2>4, EndArmPlace, GotoPlace, NextRoundPlace
         DEF DurablePropose, CheckEventFault, Raise, At
    <2>5. CASE DurableModel
      BY <2>5, EndArmPlace, GotoPlace DEF DurableModel
    <2>6. CASE DurableStart
      BY <2>6, EndArmPlace, GotoPlace DEF DurableStart, CheckEventFault, Raise
    <2>7. CASE DurableTool
      BY <2>7, EndArmPlace, GotoPlace DEF DurableTool
    <2>8. CASE DurableJudge
      BY <2>8, EndArmPlace, GotoPlace DEF DurableJudge, CheckEventFault, Raise
    <2>9. QED
      BY <1>3, <2>1, <2>2, <2>3, <2>4, <2>5, <2>6, <2>7, <2>8 DEF Durable
  <1>4. QED
    BY <1>1, <1>2, <1>3 DEF Next

LEMMA StepFlags ==
    ASSUME TypeOK, Next
    PROVE  /\ criteria' \in BOOLEAN /\ met' \in Verdicts
           /\ ok' \in BOOLEAN /\ terminal' \in BOOLEAN
  <1>1. CASE RunTool
    BY <1>1 DEF RunTool, TypeOK
  <1>2. CASE Baseline
    BY <1>2 DEF Baseline, BaselineBegin, BaselineGivesUp, BaselinePropose, BaselineModel,
                BaselineTool, BaselineJudge, TypeOK
  <1>3. CASE Durable
    BY <1>3 DEF Durable, DurableBegin, DurableCompiled, DurableGivesUp, DurablePropose,
                DurableModel, DurableStart, DurableTool, DurableJudge, CheckEventFault, TypeOK
  <1>4. QED
    BY <1>1, <1>2, <1>3 DEF Next

\* Every variable of the comparison keeps its type, and neither loop goes on after its
\* last iteration.
THEOREM ComparisonTypeCorrect == Spec => []TypeOK
  <1>1. Init => TypeOK
    <2> SUFFICES ASSUME Init
                 PROVE  TypeOK
      OBVIOUS
    <2>1. faults \in Seq(Faults)
      BY ConfigsAssumption DEF Init
    <2>2. 0 \in 0..(IF arm = "baseline" THEN BaselineIterations ELSE DurableIterations)
      BY IterationsAssumption DEF Init
    <2>3. counters \in [Probes -> Nat]
      BY DEF Init
    <2>4. /\ result \in [Arms -> {None} \cup Outcomes]
          /\ triggered \in Seq([arm : Arms, probe : Probes, at : Nat \ {0}, fault : Faults])
      BY DEF Init
    <2>5. QED
      BY <2>1, <2>2, <2>3, <2>4 DEF Init, TypeOK, Arms, Outcomes
  <1>2. TypeOK /\ [Next]_vars => TypeOK'
    <2> SUFFICES ASSUME TypeOK, [Next]_vars
                 PROVE  TypeOK'
      OBVIOUS
    <2>1. CASE UNCHANGED vars
      BY <2>1 DEF vars, injector, TypeOK
    <2>2. CASE Next
      <3>1. PlaceOK'
        BY <2>2, StepPlace DEF TypeOK, PlaceOK, Outcomes
      <3>2. faults' \in Seq(Faults)
        BY <2>2, StepKinds DEF TypeOK
      <3>3. counters' \in [Probes -> Nat] /\ triggered' \in Seq(Entries)
        BY <2>2, StepKinds, AskType DEF TypeOK, Entries, injector
      <3>4. QED
        BY <2>2, <3>1, <3>2, <3>3, StepFlags DEF TypeOK, PlaceOK, Outcomes, Entries
    <2>3. QED
      BY <2>1, <2>2
  <1>3. QED
    BY <1>1, <1>2, PTL DEF Spec

----------------------------------------------------------------------------
(* Faults are triggered on time.                                           *)

\* What an entry of the list says of the configuration,
IsFirst(t, fs) ==
    \E k \in 1..Len(fs) :
        /\ t.fault = fs[k] /\ Matches(fs[k], t.probe, t.at)
        /\ \A j \in 1..(k - 1) : ~Matches(fs[j], t.probe, t.at)

\* which names an occurrence,
Named(p, n, fs) == \E k \in 1..Len(fs) : Matches(fs[k], p, n)

\* and of which this is the only entry.
OnlyEntry(p, n, i, ts) == \A j \in 1..Len(ts) : ts[j].probe = p /\ ts[j].at = n <=> j = i

OnTime(fs, cs, ts) ==
    /\ \A i \in 1..Len(ts) : ts[i].at <= cs[ts[i].probe] /\ IsFirst(ts[i], fs)
    /\ \A p \in Probes : \A n \in 1..cs[p] :
          Named(p, n, fs) => \E i \in 1..Len(ts) : OnlyEntry(p, n, i, ts)

TimesInv == OnTime(faults, counters, triggered)

\* Two entries for one fault at one event or tool are for the occurrence it names, and so
\* they are the same entry.
LEMMA TimesGive ==
    ASSUME TypeOK, TimesInv
    PROVE  FaultsOnTime
  <1>1. \A i \in 1..Len(triggered) : triggered[i] \in Entries
    <2>1. triggered \in Seq(Entries)
      BY DEF TypeOK, Entries
    <2>2. QED
      BY <2>1
  <1>2. ASSUME NEW i \in 1..Len(triggered), NEW j \in 1..Len(triggered),
               triggered[i].probe = triggered[j].probe, triggered[i].fault = triggered[j].fault
        PROVE  i = j
    <2>1. IsFirst(triggered[i], faults) /\ IsFirst(triggered[j], faults)
      BY DEF TimesInv, OnTime
    <2>2. /\ triggered[i].at = triggered[i].fault.occurrence
          /\ triggered[j].at = triggered[j].fault.occurrence
      BY <2>1 DEF IsFirst, Matches
    <2>3. triggered[i].at = triggered[j].at
      BY <1>2, <2>2
    <2>4. PICK p \in Probes, n \in Nat \ {0} : triggered[i].probe = p /\ triggered[i].at = n
      BY <1>1 DEF Entries
    <2>5. n \in 1..counters[p]
      <3>1. counters[p] \in Nat
        BY DEF TypeOK
      <3>2. triggered[i].at <= counters[triggered[i].probe]
        BY DEF TimesInv, OnTime
      <3>3. n <= counters[p]
        BY <2>4, <3>2
      <3>4. QED
        BY <3>1, <3>3
    <2>6. Named(p, n, faults)
      <3>1. \E k \in 1..Len(faults) : Matches(faults[k], triggered[i].probe, triggered[i].at)
        BY <2>1 DEF IsFirst
      <3>2. QED
        BY <2>4, <3>1 DEF Named
    <2>7. PICK k \in 1..Len(triggered) : OnlyEntry(p, n, k, triggered)
      BY <2>5, <2>6 DEF TimesInv, OnTime
    <2>8. i = k /\ j = k
      BY <1>2, <2>3, <2>4, <2>7 DEF OnlyEntry
    <2>9. QED
      BY <2>8
  <1>3. QED
    BY <1>2, Zenon DEF TimesInv, FaultsOnTime, OnTime, IsFirst, Named, OnlyEntry

LEMMA AskOnTime ==
    ASSUME TypeOK, TimesInv, NEW q \in Probes, Ask(q), UNCHANGED faults
    PROVE  TimesInv'
  <1>1. PICK k \in Nat \ {0} : k = counters[q] + 1
    BY FaultNowType
  <1>2. PICK m \in Nat : m = Len(triggered)
    BY DEF TypeOK
  <1>3. /\ counters'[q] = k
        /\ \A p \in Probes : p # q => counters'[p] = counters[p]
        /\ \A p \in Probes : counters[p] \in Nat
    BY <1>1 DEF Ask, TypeOK
  <1>4. \A p \in Probes : \A n \in 1..counters'[p] : n \in 1..counters[p] \/ (p = q /\ n = k)
    BY <1>1, <1>3
  <1>5. /\ \A i \in 1..m : /\ triggered[i].at <= counters[triggered[i].probe]
                          /\ IsFirst(triggered[i], faults)
                          /\ triggered[i].probe \in Probes /\ triggered[i].at \in Nat
        /\ \A p \in Probes : \A n \in 1..counters[p] :
              Named(p, n, faults) => \E i \in 1..m : OnlyEntry(p, n, i, triggered)
    <2>1. \A i \in 1..m : triggered[i].probe \in Probes /\ triggered[i].at \in Nat
      <3>1. triggered \in Seq(Entries)
        BY DEF TypeOK, Entries
      <3>2. \A i \in 1..m : triggered[i] \in Entries
        BY <1>2, <3>1
      <3>3. QED
        BY <3>2 DEF Entries
    <2>2. QED
      BY <1>2, <2>1 DEF TimesInv, OnTime
  <1>6. \A i \in 1..m : /\ triggered[i].at <= counters'[triggered[i].probe]
                       /\ ~(triggered[i].probe = q /\ triggered[i].at = k)
    BY <1>1, <1>3, <1>5
  <1>7. \/ FaultDue(q) = None /\ ~Named(q, k, faults)
        \/ /\ FaultDue(q) # None
           /\ \A t : t.probe = q /\ t.at = k /\ t.fault = FaultDue(q) => IsFirst(t, faults)
    <2>1. \/ /\ FaultDue(q) = None
             /\ \A j \in 1..Len(faults) : ~Matches(faults[j], q, k)
          \/ \E i \in 1..Len(faults) :
                /\ FaultDue(q) = faults[i] /\ faults[i] \in Faults
                /\ Matches(faults[i], q, k)
                /\ \A j \in 1..(i - 1) : ~Matches(faults[j], q, k)
      BY <1>1, FirstMatchIsFirst DEF FaultDue
    <2>2. CASE FaultDue(q) = None /\ \A j \in 1..Len(faults) : ~Matches(faults[j], q, k)
      BY <2>2 DEF Named
    <2>3. CASE \E i \in 1..Len(faults) :
                  /\ FaultDue(q) = faults[i] /\ faults[i] \in Faults
                  /\ Matches(faults[i], q, k)
                  /\ \A j \in 1..(i - 1) : ~Matches(faults[j], q, k)
      <3>1. FaultDue(q) # None
        BY <2>3, NoneAssumption
      <3>2. ASSUME NEW t, t.probe = q, t.at = k, t.fault = FaultDue(q)
            PROVE  IsFirst(t, faults)
        BY <2>3, <3>2 DEF IsFirst
      <3>3. QED
        BY <3>1, <3>2
    <2>4. QED
      BY <2>1, <2>2, <2>3
  <1>8. CASE FaultDue(q) = None
    <2>1. triggered' = triggered
      BY <1>8 DEF Ask
    <2>2. \A p \in Probes : \A n \in 1..counters'[p] :
             Named(p, n, faults) => \E i \in 1..m : OnlyEntry(p, n, i, triggered)
      BY <1>4, <1>5, <1>7, <1>8
    <2>3. OnTime(faults, counters', triggered)
      BY <1>2, <1>5, <1>6, <2>2 DEF OnTime
    <2>4. QED
      BY <2>1, <2>3 DEF TimesInv
  <1>9. CASE FaultDue(q) # None
    <2>1. PICK e : e = [arm |-> arm, probe |-> q, at |-> k, fault |-> FaultDue(q)]
      OBVIOUS
    <2>2. triggered' = Append(triggered, e) /\ e.probe = q /\ e.at = k /\ IsFirst(e, faults)
      BY <1>1, <1>7, <1>9, <2>1 DEF Ask
    <2>3. /\ Len(triggered') = m + 1 /\ triggered'[m + 1] = e
          /\ \A i \in 1..m : triggered'[i] = triggered[i]
      BY <1>2, <2>2 DEF TypeOK
    <2>4. \A i \in 1..(m + 1) : i \in 1..m \/ i = m + 1
      OBVIOUS
    <2>5. \A i \in 1..(m + 1) :
             triggered'[i].at <= counters'[triggered'[i].probe] /\ IsFirst(triggered'[i], faults)
      BY <1>1, <1>3, <1>5, <1>6, <2>2, <2>3, <2>4
    <2>6. ASSUME NEW p \in Probes, NEW n \in 1..counters'[p], Named(p, n, faults)
          PROVE  \E i \in 1..(m + 1) : OnlyEntry(p, n, i, triggered')
      <3>1. CASE p = q /\ n = k
        <4>1. OnlyEntry(p, n, m + 1, triggered')
          BY <1>6, <2>2, <2>3, <2>4, <3>1 DEF OnlyEntry
        <4>2. QED
          BY <4>1
      <3>2. CASE ~(p = q /\ n = k)
        <4>1. PICK i \in 1..m : OnlyEntry(p, n, i, triggered)
          BY <1>4, <1>5, <2>6, <3>2
        <4>2. OnlyEntry(p, n, i, triggered')
          BY <1>2, <2>2, <2>3, <2>4, <3>2, <4>1 DEF OnlyEntry
        <4>3. QED
          BY <2>4, <4>2
      <3>3. QED
        BY <3>1, <3>2
    <2>7. OnTime(faults, counters', triggered')
      BY <2>3, <2>5, <2>6 DEF OnTime
    <2>8. QED
      BY <2>7 DEF TimesInv
  <1>10. QED
    BY <1>8, <1>9

\* Every occurrence that is asked about, in whichever arm, triggers the first fault of the
\* configuration that names it, once, and nothing else is triggered; so no fault comes twice
\* at one event or tool, be it once in each arm.
THEOREM FaultsComeOnTime == Spec => []FaultsOnTime
  <1>1. Init => TimesInv
    <2> SUFFICES ASSUME Init
                 PROVE  TimesInv
      OBVIOUS
    <2>1. Len(triggered) = 0 /\ \A p \in Probes : 1..counters[p] = {}
      BY DEF Init
    <2>2. QED
      BY <2>1 DEF TimesInv, OnTime
  <1>2. TypeOK /\ TimesInv /\ [Next]_vars => TimesInv'
    <2> SUFFICES ASSUME TypeOK, TimesInv, [Next]_vars
                 PROVE  TimesInv'
      OBVIOUS
    <2>1. CASE UNCHANGED <<faults, injector>>
      BY <2>1 DEF injector, TimesInv
    <2>2. CASE Next
      BY <2>1, <2>2, StepKinds, AskOnTime
    <2>3. QED
      BY <2>1, <2>2 DEF vars
  <1>3. TypeOK /\ TimesInv => FaultsOnTime
    BY TimesGive
  <1>4. QED
    BY <1>1, <1>2, <1>3, ComparisonTypeCorrect, PTL DEF Spec

----------------------------------------------------------------------------
(* What is lost is lost to a fault.                                        *)

\* An arm has no outcome before it is over.
OverInv ==
    /\ arm = "baseline" => \A a \in Arms : result[a] = None
    /\ arm = "durable" /\ pc # "report" => result["durable"] = None

\* The faults of an arm end with a kill.
KilledBy(a) ==
    \E i \in 1..Len(triggered) :
        /\ triggered[i].arm = a /\ triggered[i].fault.type = "process_kill"
        /\ \A j \in (i + 1)..Len(triggered) : triggered[j].arm # a

KilledInv == \A a \in Arms : result[a] = "killed" => KilledBy(a)

\* What stopped the comparison.
RaisedInv ==
    pc = "raised" => \/ arm = "baseline" /\ criteria /\ met = "raises"
                     \/ /\ triggered # <<>>
                        /\ triggered[Len(triggered)].fault.type = "model_timeout"
                        /\ triggered[Len(triggered)].arm = arm

LossInv == OverInv /\ KilledInv /\ RaisedInv

\* A fault that is triggered goes to the end of the list.
LEMMA AskAppends ==
    ASSUME TypeOK, NEW p \in Probes, Ask(p)
    PROVE  \/ FaultNow(p) = None /\ UNCHANGED triggered
           \/ \E m \in Nat :
                 /\ m = Len(triggered) /\ Len(triggered') = m + 1
                 /\ \A i \in 1..m : triggered'[i] = triggered[i]
                 /\ triggered'[m + 1].arm = arm
                 /\ triggered'[m + 1].fault.type = FaultNow(p)
                 /\ FaultNow(p) # None
  <1>1. CASE FaultNow(p) = None
    BY <1>1, FaultNowType DEF Ask
  <1>2. CASE FaultNow(p) # None
    <2>1. PICK e : e = [arm |-> arm, probe |-> p, at |-> counters[p] + 1,
                        fault |-> FaultDue(p)]
      OBVIOUS
    <2>2. triggered' = Append(triggered, e) /\ e.arm = arm /\ e.fault.type = FaultNow(p)
      BY <1>2, <2>1, FaultNowType DEF Ask
    <2>3. triggered \in Seq(Entries)
      BY DEF TypeOK, Entries
    <2>4. PICK m \in Nat : m = Len(triggered)
      BY <2>3
    <2>5. /\ Len(triggered') = m + 1 /\ triggered'[m + 1] = e
          /\ \A i \in 1..m : triggered'[i] = triggered[i]
      BY <2>2, <2>3, <2>4
    <2>6. QED
      BY <1>2, <2>2, <2>4, <2>5
  <1>3. QED
    BY <1>1, <1>2

LEMMA EndArmOver ==
    ASSUME TypeOK, OverInv, NEW o \in Outcomes, EndArm(o)
    PROVE  /\ OverInv' /\ pc' # "raised"
           /\ result'[arm] = o
           /\ \A a \in Arms : a # arm => result'[a] = result[a]
  BY DEF OverInv, EndArm, TypeOK, Arms

\* An arm that is over is killed no more and no less by what the other one meets.
LEMMA AskKilled ==
    ASSUME TypeOK, NEW p \in Probes, Ask(p), NEW a \in Arms, a # arm, KilledBy(a)
    PROVE  KilledBy(a)'
  <1>1. CASE UNCHANGED triggered
    BY <1>1 DEF KilledBy
  <1>2. CASE ~UNCHANGED triggered
    <2>1. PICK m \in Nat :
             /\ m = Len(triggered) /\ Len(triggered') = m + 1
             /\ \A i \in 1..m : triggered'[i] = triggered[i]
             /\ triggered'[m + 1].arm = arm
      BY <1>2, AskAppends
    <2>2. PICK i \in 1..m :
             /\ triggered[i].arm = a /\ triggered[i].fault.type = "process_kill"
             /\ \A j \in (i + 1)..m : triggered[j].arm # a
      BY <2>1 DEF KilledBy
    <2>3. i \in 1..(m + 1) /\ \A j \in (i + 1)..(m + 1) : j = m + 1 \/ (j \in (i + 1)..m /\ j \in 1..m)
      OBVIOUS
    <2>4. QED
      BY <2>1, <2>2, <2>3 DEF KilledBy
  <1>3. QED
    BY <1>1, <1>2

LEMMA KillKills ==
    ASSUME TypeOK, NEW p \in Probes, Ask(p), FaultNow(p) = "process_kill"
    PROVE  \E a \in Arms : a = arm /\ KilledBy(a)'
  <1>1. PICK m \in Nat :
           /\ Len(triggered') = m + 1
           /\ triggered'[m + 1].arm = arm
           /\ triggered'[m + 1].fault.type = "process_kill"
    BY AskAppends, NoneAssumption DEF FaultTypes
  <1>2. PICK a \in Arms : a = arm
    BY DEF TypeOK
  <1>3. m + 1 \in 1..(m + 1) /\ ((m + 1) + 1)..(m + 1) = {}
    OBVIOUS
  <1>4. KilledBy(a)'
    BY <1>1, <1>2, <1>3 DEF KilledBy
  <1>5. QED
    BY <1>2, <1>4

LEMMA StepLoss ==
    ASSUME TypeOK, LossInv, Next
    PROVE  LossInv'
  <1>1. arm \in Arms /\ pc \notin Final /\ OverInv /\ KilledInv /\ RaisedInv
    BY StepKinds DEF TypeOK, LossInv
  <1>2. \A a \in Arms : result[a] = "killed" => a # arm /\ KilledBy(a)'
    <2> SUFFICES ASSUME NEW a \in Arms, result[a] = "killed"
                 PROVE  a # arm /\ KilledBy(a)'
      OBVIOUS
    <2>1. a # arm /\ KilledBy(a)
      BY <1>1, NoneAssumption DEF OverInv, KilledInv, Final, Arms
    <2>2. CASE UNCHANGED injector
      BY <2>1, <2>2 DEF injector, KilledBy
    <2>3. CASE \E p \in Probes : Ask(p)
      BY <2>1, <2>3, AskKilled
    <2>4. QED
      BY <2>1, <2>2, <2>3, StepKinds
  <1>3. CASE GoesOn
    BY <1>1, <1>2, <1>3 DEF GoesOn, Final, OverInv, KilledInv, RaisedInv, LossInv
  <1>4. ASSUME NEW o \in {"success", "failure"}, EndArm(o)
        PROVE  LossInv'
    <2>1. OverInv' /\ RaisedInv'
      BY <1>1, <1>4, EndArmOver DEF RaisedInv, Outcomes
    <2>2. \A a \in Arms : result'[a] = "killed" => result[a] = "killed"
      BY <1>1, <1>4, EndArmOver DEF Outcomes
    <2>3. QED
      BY <1>2, <2>1, <2>2 DEF KilledInv, LossInv
  <1>5. ASSUME NEW p \in Probes, Ask(p), FaultNow(p) = "model_timeout",
               UNCHANGED <<arm, result>>, pc' = "raised"
        PROVE  LossInv'
    <2>1. PICK m \in Nat :
             /\ Len(triggered') = m + 1
             /\ triggered'[m + 1].arm = arm
             /\ triggered'[m + 1].fault.type = "model_timeout"
      BY <1>5, AskAppends, NoneAssumption DEF FaultTypes
    <2>2. triggered' # <<>>
      BY <2>1
    <2>3. OverInv' /\ RaisedInv'
      BY <1>1, <1>5, <2>1, <2>2 DEF OverInv, RaisedInv, Final
    <2>4. QED
      BY <1>2, <1>5, <2>3 DEF KilledInv, LossInv
  <1>6. ASSUME NEW p \in Probes, Ask(p), FaultNow(p) = "process_kill", EndArm("killed")
        PROVE  LossInv'
    <2>1. OverInv' /\ RaisedInv'
      BY <1>1, <1>6, EndArmOver DEF RaisedInv, Outcomes
    <2>2. \A a \in Arms : a # arm => result'[a] = result[a]
      BY <1>1, <1>6, EndArmOver DEF Outcomes
    <2>3. PICK b \in Arms : b = arm /\ KilledBy(b)'
      BY <1>6, KillKills
    <2>4. QED
      BY <1>2, <2>1, <2>2, <2>3 DEF KilledInv, LossInv
  <1>7. CASE CannotJudge /\ UNCHANGED injector
    <2>1. OverInv' /\ RaisedInv'
      BY <1>1, <1>7 DEF CannotJudge, Unreadable, OverInv, RaisedInv, Final
    <2>2. QED
      BY <1>2, <1>7, <2>1 DEF CannotJudge, KilledInv, LossInv
  <1>8. QED
    BY <1>3, <1>4, <1>5, <1>6, <1>7, StepKinds

\* An arm counts as killed only by a kill, the last fault triggered in it; the comparison
\* is lost only by a model timeout, the last fault triggered, or by declared criteria that
\* the baseline cannot evaluate.
THEOREM LossesHaveCauses == Spec => []LossHasCause
  <1>1. Init => LossInv
    BY NoneAssumption DEF Init, LossInv, OverInv, KilledInv, RaisedInv, Arms
  <1>2. TypeOK /\ LossInv /\ [Next]_vars => LossInv'
    <2> SUFFICES ASSUME TypeOK, LossInv, [Next]_vars
                 PROVE  LossInv'
      OBVIOUS
    <2>1. CASE UNCHANGED vars
      BY <2>1 DEF vars, injector, LossInv, OverInv, KilledInv, KilledBy, RaisedInv
    <2>2. QED
      BY <2>1, StepLoss
  <1>3. LossInv => LossHasCause
    BY DEF LossInv, KilledInv, KilledBy, RaisedInv, LossHasCause
  <1>4. QED
    BY <1>1, <1>2, <1>3, ComparisonTypeCorrect, PTL DEF Spec

----------------------------------------------------------------------------
(* What is called a success.                                               *)

\* A loop that asks the model, calls a tool or judges is in one of its iterations.
BegunInv == pc \in {"ask", "start", "tool", "run", "judge"} => iteration > 0

LEMMA StepBegun ==
    ASSUME TypeOK, BegunInv, Next
    PROVE  BegunInv'
  <1> USE DEF Goto, NextRound, EndArm, At, Raise
  <1>0. iteration \in Nat /\ BaselineIterations \in Nat /\ DurableIterations \in Nat
    BY IterationsAssumption DEF TypeOK
  <1>1. CASE RunTool
    BY <1>1 DEF RunTool, BegunInv
  <1>2. CASE Baseline
    <2>1. CASE BaselinePropose
      BY <1>0, <2>1 DEF BaselinePropose, BegunInv
    <2>2. CASE BaselineModel
      BY <2>2 DEF BaselineModel, BegunInv
    <2>3. CASE BaselineTool
      BY <2>3 DEF BaselineTool, BegunInv
    <2>4. CASE BaselineBegin \/ BaselineGivesUp \/ BaselineJudge
      BY <2>4 DEF BaselineBegin, BaselineGivesUp, BaselineJudge, BegunInv
    <2>5. QED
      BY <1>2, <2>1, <2>2, <2>3, <2>4 DEF Baseline
  <1>3. CASE Durable
    BY <1>0, <1>3 DEF Durable, DurableBegin, DurableCompiled, DurableGivesUp, DurablePropose,
                      DurableModel, DurableStart, DurableTool, DurableJudge,
                      CheckEventFault, BegunInv
  <1>4. QED
    BY <1>1, <1>2, <1>3 DEF Next

Earned ==
    \A a \in Arms : result[a] = None /\ result'[a] = "success" =>
        CASE a = "baseline" /\ criteria -> met' = "yes"
          [] OTHER -> ok' /\ iteration > 0

LEMMA EndArmUnearned ==
    ASSUME TypeOK, NEW o \in Outcomes, EndArm(o), o # "success"
    PROVE  Earned
  BY NoneAssumption DEF Earned, EndArm, TypeOK, Outcomes

LEMMA SameResultUnearned ==
    ASSUME UNCHANGED result
    PROVE  Earned
  BY NoneAssumption DEF Earned

LEMMA EndArmEarned ==
    ASSUME TypeOK, EndArm("success"),
           IF arm = "baseline" /\ criteria THEN met' = "yes" ELSE ok' /\ iteration > 0
    PROVE  Earned
  BY NoneAssumption DEF Earned, EndArm, TypeOK, Arms

LEMMA StepEarned ==
    ASSUME TypeOK, BegunInv, Next
    PROVE  Earned
  <1> USE DEF Goto, NextRound, At, Raise, Outcomes
  <1>1. CASE RunTool
    BY <1>1, SameResultUnearned DEF RunTool
  <1>2. CASE Baseline
    <2>1. CASE BaselineBegin
      BY <2>1, EndArmEarned, SameResultUnearned DEF BaselineBegin, Achieved
    <2>2. CASE BaselineGivesUp
      BY <2>2, EndArmUnearned DEF BaselineGivesUp
    <2>3. CASE BaselinePropose
      BY <2>3, SameResultUnearned DEF BaselinePropose
    <2>4. CASE BaselineModel
      BY <2>4, SameResultUnearned DEF BaselineModel
    <2>5. CASE BaselineTool
      BY <2>5, EndArmUnearned, SameResultUnearned DEF BaselineTool
    <2>6. CASE BaselineJudge
      BY <2>6, EndArmEarned, SameResultUnearned DEF BaselineJudge, Achieved, BegunInv
    <2>7. QED
      BY <1>2, <2>1, <2>2, <2>3, <2>4, <2>5, <2>6 DEF Baseline
  <1>3. CASE Durable
    <2>1. CASE DurableBegin
      BY <2>1, EndArmUnearned, SameResultUnearned DEF DurableBegin, CheckEventFault
    <2>2. CASE DurableCompiled
      BY <2>2, EndArmUnearned, SameResultUnearned DEF DurableCompiled, CheckEventFault
    <2>3. CASE DurableGivesUp
      BY <2>3, EndArmUnearned DEF DurableGivesUp
    <2>4. CASE DurablePropose
      BY <2>4, EndArmUnearned, SameResultUnearned DEF DurablePropose, CheckEventFault
    <2>5. CASE DurableModel
      BY <2>5, EndArmUnearned, SameResultUnearned DEF DurableModel
    <2>6. CASE DurableStart
      BY <2>6, EndArmUnearned, SameResultUnearned DEF DurableStart, CheckEventFault
    <2>7. CASE DurableTool
      BY <2>7, EndArmUnearned, SameResultUnearned DEF DurableTool
    <2>8. CASE DurableJudge
      BY <2>8, EndArmUnearned, EndArmEarned, SameResultUnearned
         DEF DurableJudge, CheckEventFault, BegunInv
    <2>9. QED
      BY <1>3, <2>1, <2>2, <2>3, <2>4, <2>5, <2>6, <2>7, <2>8 DEF Durable
  <1>4. QED
    BY <1>1, <1>2, <1>3 DEF Next

\* No arm reports a success it has not earned: the baseline's means that the declared
\* criteria hold at that moment, or that the last tool call succeeded if there are none;
\* the durable arm's that its last tool call succeeded, in an iteration of its loop.
THEOREM SuccessesAreEarned == Spec => SuccessIsEarned
  <1>1. Init => BegunInv
    BY DEF Init, BegunInv
  <1>2. TypeOK /\ BegunInv /\ [Next]_vars => BegunInv'
    BY StepBegun DEF vars, BegunInv
  <1>3. TypeOK /\ BegunInv /\ [Next]_vars => [Earned]_vars
    BY StepEarned
  <1>4. QED
    BY <1>1, <1>2, <1>3, ComparisonTypeCorrect, PTL DEF Spec, SuccessIsEarned, Earned

----------------------------------------------------------------------------
(* The comparison comes to an end.                                         *)

\* What is left of a comparison: the arms, the iterations of the arm that runs, and the
\* places of the iteration that are to come.
ArmsLeft == IF pc \in Final THEN 0 ELSE IF arm = "baseline" THEN 2 ELSE 1
Bound == IF arm = "baseline" THEN BaselineIterations ELSE DurableIterations
PlacesLeft ==
    CASE pc = "begin"    -> 8
      [] pc = "compiled" -> 7
      [] pc = "ask"      -> 6
      [] pc = "start"    -> 5
      [] pc = "tool"     -> 4
      [] pc = "run"      -> 3
      [] pc = "judge"    -> 2
      [] pc = "propose"  -> 1
      [] OTHER           -> 0
Remaining == <<ArmsLeft, Bound - iteration, PlacesLeft>>

Numbers == [1..3 -> Nat]
Less == {p \in Nat \X Nat : p[1] < p[2]}
Descent == LexProductOrdering(Less, Nat, 3)

LEMMA DescentIsWellFounded == IsWellFoundedOn(Descent, Numbers)
  <1>1. Less = OpToRel(<, Nat)
    BY Zenon DEF Less, OpToRel
  <1>2. IsWellFoundedOn(Less, Nat)
    BY <1>1, NatLessThanWellFounded, Zenon
  <1>3. QED
    BY <1>2, WFLexProductOrdering DEF Descent, Numbers

\* An arm ends, an iteration is spent, or the arm gets on in its iteration.
Advances ==
    \/ ArmsLeft' < ArmsLeft
    \/ ArmsLeft' = ArmsLeft /\ arm' = arm /\ iteration' = iteration + 1
    \/ /\ ArmsLeft' = ArmsLeft /\ arm' = arm /\ iteration' = iteration
       /\ PlacesLeft' < PlacesLeft

LEMMA RemainingIsNumbers == PlaceOK => Remaining \in Numbers
  <1> SUFFICES ASSUME PlaceOK
               PROVE  Remaining \in Numbers
    OBVIOUS
  <1>1. ArmsLeft \in Nat /\ PlacesLeft \in Nat
    BY DEF ArmsLeft, PlacesLeft
  <1>2. Bound - iteration \in Nat
    BY IterationsAssumption DEF PlaceOK, Bound
  <1>3. QED
    BY <1>1, <1>2 DEF Remaining, Numbers

LEMMA EndArmAdvances ==
    ASSUME PlaceOK, pc \notin Final, NEW o, EndArm(o)
    PROVE  Advances
  <1>1. ArmsLeft' < ArmsLeft
    BY DEF EndArm, ArmsLeft, Final
  <1>2. QED
    BY <1>1 DEF Advances

LEMMA GotoAdvances ==
    ASSUME pc \notin Final, NEW place, Goto(place), place \notin Final => PlacesLeft' < PlacesLeft
    PROVE  Advances
  <1>1. CASE place \in Final
    <2>1. ArmsLeft' < ArmsLeft
      BY <1>1 DEF Goto, ArmsLeft
    <2>2. QED
      BY <2>1 DEF Advances
  <1>2. CASE place \notin Final
    <2>1. ArmsLeft' = ArmsLeft /\ arm' = arm /\ iteration' = iteration
      BY <1>2 DEF Goto, ArmsLeft
    <2>2. QED
      BY <1>2, <2>1 DEF Advances
  <1>3. QED
    BY <1>1, <1>2

LEMMA NextRoundAdvances ==
    ASSUME pc \notin Final, NEW place, place \notin Final, NextRound(place)
    PROVE  Advances
  BY DEF NextRound, Advances, ArmsLeft

LEMMA StepAdvances ==
    ASSUME PlaceOK, Next
    PROVE  Advances
  <1> USE DEF At, Final, PlacesLeft
  <1>1. CASE RunTool
    <2>1. pc = "run" /\ Goto("judge") /\ pc' = "judge"
      BY <1>1 DEF RunTool, Goto
    <2>2. QED
      BY <2>1, GotoAdvances
  <1>2. CASE Baseline
    <2>1. \/ \E o \in Outcomes : EndArm(o)
          \/ Goto("raised")
          \/ pc = "propose" /\ \E place \in {"propose", "ask"} : NextRound(place)
          \/ pc = "begin" /\ Goto("propose")
          \/ pc = "ask" /\ (Goto("propose") \/ Goto("tool"))
          \/ pc = "tool" /\ Goto("run")
          \/ pc = "judge" /\ Goto("propose")
      BY <1>2 DEF Baseline, BaselineBegin, BaselineGivesUp, BaselinePropose, BaselineModel,
                  BaselineTool, BaselineJudge, Raise, Outcomes
    <2>2. pc \notin Final
      BY StepKinds
    <2>3. ASSUME NEW place, Goto(place)
          PROVE  pc' = place
      BY <2>3 DEF Goto
    <2>4. QED
      BY <2>1, <2>2, <2>3, EndArmAdvances, GotoAdvances, NextRoundAdvances
  <1>3. CASE Durable
    <2>1. \/ \E o \in Outcomes : EndArm(o)
          \/ Goto("raised")
          \/ pc = "propose" /\ NextRound("ask")
          \/ pc = "begin" /\ Goto("compiled")
          \/ pc = "compiled" /\ Goto("propose")
          \/ pc = "ask" /\ Goto("start")
          \/ pc = "start" /\ Goto("tool")
          \/ pc = "tool" /\ Goto("run")
          \/ pc = "judge" /\ Goto("propose")
      BY <1>3 DEF Durable, DurableBegin, DurableCompiled, DurableGivesUp, DurablePropose,
                  DurableModel, DurableStart, DurableTool, DurableJudge, CheckEventFault,
                  Raise, Outcomes
    <2>2. pc \notin Final
      BY StepKinds
    <2>3. ASSUME NEW place, Goto(place)
          PROVE  pc' = place
      BY <2>3 DEF Goto
    <2>4. QED
      BY <2>1, <2>2, <2>3, EndArmAdvances, GotoAdvances, NextRoundAdvances
  <1>4. QED
    BY <1>1, <1>2, <1>3 DEF Next

LEMMA AdvancesDescends ==
    ASSUME PlaceOK, Remaining \in Numbers, Remaining' \in Numbers, Advances
    PROVE  <<Remaining', Remaining>> \in Descent
  <1> DEFINE a == Remaining'
             b == Remaining
  <1>1. /\ a[1] = ArmsLeft' /\ a[2] = Bound' - iteration' /\ a[3] = PlacesLeft'
        /\ b[1] = ArmsLeft /\ b[2] = Bound - iteration /\ b[3] = PlacesLeft
    BY DEF Remaining
  <1>2. arm' = arm => Bound' = Bound
    BY DEF Bound
  <1>3. Bound \in Nat /\ iteration \in Nat
    BY IterationsAssumption DEF Bound, PlaceOK
  <1>4. \/ a[1] < b[1]
        \/ a[2] < b[2] /\ a[1] = b[1]
        \/ a[3] < b[3] /\ a[1] = b[1] /\ a[2] = b[2]
    BY <1>1, <1>2, <1>3 DEF Advances
  <1>5. a \in Numbers /\ b \in Numbers
    OBVIOUS
  <1> HIDE DEF a, b
  <1>6. /\ \A j \in 1..(1 - 1) : FALSE
        /\ \A j \in 1..(2 - 1) : j = 1
        /\ \A j \in 1..(3 - 1) : j \in {1, 2}
    OBVIOUS
  <1>7. PICK i \in 1..3 : a[i] < b[i] /\ \A j \in 1..(i - 1) : a[j] = b[j]
    BY <1>4, <1>6
  <1>8. <<a[i], b[i]>> \in Less
    BY <1>5, <1>7 DEF Less, Numbers
  <1>9. <<a, b>> \in Descent
    BY <1>5, <1>7, <1>8 DEF Descent, LexProductOrdering, Numbers
  <1>10. QED
    BY <1>9 DEF a, b

\* A step that leaves less to do.
Descending == <<Remaining', Remaining>> \in Descent

\* No comparison goes on for ever, whatever faults are injected and whatever the model and
\* the tools do: its steps descend in a well-founded order.
THEOREM ComparisonDescends ==
    /\ IsWellFoundedOn(Descent, Numbers)
    /\ Spec => [][Descending]_vars
  <1> DEFINE Counted == Remaining \in Numbers
  <1>1. IsWellFoundedOn(Descent, Numbers)
    BY DescentIsWellFounded
  <1>2. TypeOK => PlaceOK
    BY DEF TypeOK, PlaceOK, Outcomes
  <1>3. TypeOK => Counted
    BY <1>2, RemainingIsNumbers
  <1>4. TypeOK /\ Counted /\ Counted' /\ [Next]_vars => [Descending]_vars
    BY <1>2, StepAdvances, AdvancesDescends DEF Descending
  <1>5. Spec => [][Descending]_vars
    <2> HIDE DEF Counted
    <2>1. QED
      BY <1>3, <1>4, ComparisonTypeCorrect, PTL DEF Spec
  <1>6. QED
    BY <1>1, <1>5
===============================================================================
