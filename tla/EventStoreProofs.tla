--------------------------- MODULE EventStoreProofs ---------------------------
(***************************************************************************)
(* Theorems about the event ledger, for every set of writers and payloads, *)
(* every interleaving of their appends and every number of torn writes.    *)
(***************************************************************************)
EXTENDS EventStore, FiniteSetTheorems, TLAPS

----------------------------------------------------------------------------
(* What the file operations return.                                        *)

LEMMA EmptyListTyped ==
    ASSUME NEW S
    PROVE  <<>> \in Seq(S)
  OBVIOUS

LEMMA HashTyped ==
    ASSUME NEW h \in Seq(Payloads), NEW p \in Payloads
    PROVE  EventHash(h, p) \in Seq(Payloads)
  BY DEF EventHash

LEMMA EventIsJson ==
    ASSUME NEW e \in Line
    PROVE  /\ e.json \in BOOLEAN
           /\ e.json => e \in Event
           /\ e.json => e.id \in Nat /\ e.seq \in Nat /\ e.hash \in Seq(Payloads)
  <1>1. CASE e \in Event
    BY <1>1 DEF Event
  <1>2. CASE e = Garbage
    <2>1. e.json = FALSE
      BY <1>2 DEF Garbage
    <2>2. QED
      BY <2>1
  <1>3. QED
    BY <1>1, <1>2 DEF Line

LEMMA EventFields ==
    ASSUME NEW e \in Event
    PROVE  /\ e.json = TRUE
           /\ e.id \in Nat
           /\ e.seq \in Nat
           /\ e.payload \in Payloads
           /\ e.prev \in Seq(Payloads)
           /\ e.hash \in Seq(Payloads)
           /\ e \in Line
  BY DEF Line, Event

\* The tail read before an append is well formed, whatever the last line is.
LEMMA TailTyped ==
    ASSUME NEW ls \in Seq(Line)
    PROVE  /\ TailSequence(ls) \in Nat \cup {-1}
           /\ TailHash(ls) \in Seq(Payloads)
  <1>1. CASE Len(ls) > 0
    <2>1. ls[Len(ls)] \in Line
      BY <1>1
    <2>2. QED
      BY <1>1, <2>1, EventIsJson, EmptyListTyped DEF TailSequence, TailHash, NoHash
  <1>2. CASE ~(Len(ls) > 0)
    BY <1>2, EmptyListTyped DEF TailSequence, TailHash, NoHash
  <1>3. QED
    BY <1>1, <1>2

LEMMA GluedTyped ==
    ASSUME lines \in Seq(Line), ~terminated => Len(lines) > 0, terminated \in BOOLEAN,
           NEW e \in Line
    PROVE  /\ Glued(lines, e) \in Seq(Line)
           /\ Len(Glued(lines, e)) > 0
  <1>1. CASE terminated
    BY <1>1 DEF Glued
  <1>2. CASE ~terminated
    <2>1. Garbage \in Line
      BY DEF Line
    <2>2. QED
      BY <1>2, <2>1 DEF Glued
  <1>3. QED
    BY <1>1, <1>2

LEMMA AbandonTyped ==
    ASSUME TypeOK, NEW w \in Writers, NEW s \in Nat \cup {-1, NotCached}, Abandon(w, s)
    PROVE  /\ pc' \in [Writers -> {"idle", "numbered", "linked", "written"}]
           /\ draft' \in [Writers -> Line]
           /\ sequences' \in [Writers -> Nat \cup {-1, NotCached}]
           /\ \A v \in Writers :
                pc'[v] # "idle" => sequences'[v] # NotCached /\ draft'[v] \in Event
  BY DEF TypeOK, Abandon, Line

LEMMA HistoryTyped ==
    ASSUME HistoryOK, [Next]_vars
    PROVE  HistoryOK'
  <1>1. ASSUME NEW w \in Writers, NEW p \in Payloads, BeginAppend(w, p)
        PROVE  HistoryOK'
    <2>1. overlapped' \in BOOLEAN
      BY <1>1 DEF BeginAppend, HistoryOK
    <2>2. shared' \in BOOLEAN
      BY <1>1 DEF BeginAppend, HistoryOK
    <2>3. QED
      BY <2>1, <2>2 DEF HistoryOK
  <1>2. CASE UNCHANGED history
    BY <1>2 DEF HistoryOK, history
  <1>3. QED
    BY <1>1, <1>2 DEF Next, vars, ReadTail, WriteLine, Return, TornWrite, Crash

----------------------------------------------------------------------------

\* The type invariant of the ledger: TypeOK holds in every reachable state.
THEOREM TypeCorrect == Spec => []TypeOK
  <1>1. Init => TypeOK
    <2>1. Init => HistoryOK
      BY DEF Init, HistoryOK
    <2>2. QED
      BY <2>1, BoundsAssumption DEF Init, TypeOK, Line, NotCached
  <1>2. TypeOK /\ [Next]_vars => TypeOK'
    <2> SUFFICES ASSUME TypeOK, [Next]_vars
                 PROVE  TypeOK'
      OBVIOUS
    <2>0. HistoryOK'
      BY HistoryTyped DEF TypeOK
    <2>1. ASSUME NEW w \in Writers, NEW p \in Payloads, BeginAppend(w, p)
          PROVE  TypeOK'
      <3>1. TailSequence(lines) \in Nat \cup {-1}
        BY TailTyped DEF TypeOK
      <3>2. /\ LatestSequence(w) \in Nat \cup {-1}
            /\ LatestSequence(w) # NotCached
        BY <3>1 DEF LatestSequence, NotCached, TypeOK
      <3>3. LatestSequence(w) + 1 \in Nat
        BY <3>2
      <3> DEFINE d == [json    |-> TRUE,
                       id      |-> nextId,
                       seq     |-> LatestSequence(w) + 1,
                       payload |-> p,
                       prev    |-> NoHash,
                       hash    |-> NoHash]
      <3>4. d \in Event
        BY <3>3, EmptyListTyped DEF Event, NoHash, TypeOK
      <3>5. draft' = [draft EXCEPT ![w] = d]
        BY <2>1 DEF BeginAppend
      <3> HIDE DEF d
      <3>6. /\ draft' \in [Writers -> Line]
            /\ sequences' \in [Writers -> Nat \cup {-1, NotCached}]
            /\ pc' \in [Writers -> {"idle", "numbered", "linked", "written"}]
        <4>1. draft' \in [Writers -> Line]
          BY <3>4, <3>5, EventFields DEF TypeOK
        <4>2. sequences' \in [Writers -> Nat \cup {-1, NotCached}]
          BY <2>1, <3>2 DEF BeginAppend, TypeOK
        <4>3. pc' \in [Writers -> {"idle", "numbered", "linked", "written"}]
          BY <2>1 DEF BeginAppend, TypeOK
        <4>4. QED
          BY <4>1, <4>2, <4>3
      <3>7. \A v \in Writers :
               pc'[v] # "idle" => sequences'[v] # NotCached /\ draft'[v] \in Event
        BY <2>1, <3>2, <3>4, <3>5 DEF BeginAppend, TypeOK
      <3>8. nextId' \in 0..MaxEvents
        BY <2>1, BoundsAssumption DEF BeginAppend, TypeOK
      <3>9. QED
        BY <2>0, <2>1, <3>6, <3>7, <3>8 DEF BeginAppend, TypeOK
    <2>2. ASSUME NEW w \in Writers, ReadTail(w)
          PROVE  TypeOK'
      <3>1. draft[w] \in Event
        BY <2>2 DEF ReadTail, TypeOK
      <3> DEFINE h == TailHash(lines)
                 g == EventHash(h, draft[w].payload)
      <3>2. h \in Seq(Payloads) /\ g \in Seq(Payloads)
        BY <3>1, TailTyped, EventFields, HashTyped DEF TypeOK
      <3>3. draft' = [draft EXCEPT ![w] = [[draft[w] EXCEPT !.prev = h] EXCEPT !.hash = g]]
        BY <2>2 DEF ReadTail, TypeOK
      <3> HIDE DEF h, g
      <3>4. [[draft[w] EXCEPT !.prev = h] EXCEPT !.hash = g] \in Event
        BY <3>1, <3>2 DEF Event
      <3>5. /\ draft' \in [Writers -> Line]
            /\ \A v \in Writers :
                 pc'[v] # "idle" => sequences'[v] # NotCached /\ draft'[v] \in Event
        <4>1. UNCHANGED sequences
          BY <2>2 DEF ReadTail
        <4>2. draft \in [Writers -> Line] /\ Event \subseteq Line
          BY EventFields DEF TypeOK
        <4>3. \A v \in Writers : v # w => draft'[v] = draft[v] /\ pc'[v] = pc[v]
          BY <2>2, <3>3, <4>2 DEF ReadTail, TypeOK
        <4>4. draft'[w] \in Event /\ pc[w] # "idle"
          BY <2>2, <3>3, <3>4, <4>2 DEF ReadTail
        <4>5. QED
          BY <3>3, <3>4, <4>1, <4>2, <4>3, <4>4 DEF TypeOK
      <3>6. QED
        BY <2>0, <2>2, <3>5 DEF ReadTail, TypeOK
    <2>3. ASSUME NEW w \in Writers, WriteLine(w)
          PROVE  TypeOK'
      <3>1. draft[w] \in Line
        BY <2>3 DEF TypeOK
      <3>2. lines' \in Seq(Line) /\ terminated' = TRUE
        BY <2>3, <3>1, GluedTyped DEF WriteLine, AppendLine, TypeOK
      <3>3. QED
        BY <2>0, <2>3, <3>2 DEF WriteLine, TypeOK
    <2>4. ASSUME NEW w \in Writers, Return(w)
          PROVE  TypeOK'
      <3>1. draft[w].seq \in Nat /\ draft[w].id \in Nat
        BY <2>4, EventFields DEF Return, TypeOK
      <3>2. QED
        BY <2>0, <2>4, <3>1 DEF Return, TypeOK, Line
    <2>5. ASSUME NEW w \in Writers, TornWrite(w)
          PROVE  TypeOK'
      <3>1. /\ draft[w] \in Line
            /\ Garbage \in Line
        BY DEF TypeOK, Line
      <3>0. /\ Glued(lines, Garbage) \in Seq(Line) /\ Len(Glued(lines, Garbage)) > 0
            /\ Glued(lines, draft[w]) \in Seq(Line) /\ Len(Glued(lines, draft[w])) > 0
        BY <3>1, GluedTyped DEF TypeOK
      <3>2. /\ lines' \in Seq(Line)
            /\ terminated' \in BOOLEAN
            /\ ~terminated' => Len(lines') > 0
        <4>1. CASE UNCHANGED <<lines, terminated>>
          BY <4>1 DEF TypeOK
        <4>2. CASE lines' = Glued(lines, Garbage) /\ terminated' = FALSE
          BY <4>2, <3>0
        <4>3. CASE lines' = Glued(lines, draft[w]) /\ terminated' = FALSE
          BY <4>3, <3>0
        <4>4. QED
          BY <2>5, <4>1, <4>2, <4>3 DEF TornWrite, TearLine
      <3>3. tears' \in 0..MaxTears
        BY <2>5, BoundsAssumption DEF TornWrite, TypeOK
      <3>4. sequences[w] \in Nat \cup {-1, NotCached}
        BY DEF TypeOK
      <3>5. QED
        BY <2>0, <2>5, <3>2, <3>3, <3>4, AbandonTyped DEF TornWrite, TypeOK
    <2>6. ASSUME NEW w \in Writers, Crash(w)
          PROVE  TypeOK'
      BY <2>0, <2>6, AbandonTyped DEF Crash, TypeOK
    <2>7. CASE UNCHANGED vars
      BY <2>0, <2>7 DEF vars, TypeOK
    <2>8. QED
      BY <2>1, <2>2, <2>3, <2>4, <2>5, <2>6, <2>7 DEF Next
  <1>3. QED
    BY <1>1, <1>2, PTL DEF Spec

----------------------------------------------------------------------------
(* Event ids are never reused.                                             *)

IdInv ==
    /\ \A i \in acked : i < nextId
    /\ \A w \in Writers :
          pc[w] # "idle" => draft[w].id < nextId /\ draft[w].id \notin acked
    /\ \A v, w \in Writers :
          v # w /\ pc[v] # "idle" /\ pc[w] # "idle" => draft[v].id # draft[w].id

LEMMA IdsUnique == Spec => []IdInv
  <1>1. Init => IdInv
    BY DEF Init, IdInv
  <1>2. TypeOK /\ IdInv /\ [Next]_vars => IdInv'
    <2> SUFFICES ASSUME TypeOK, IdInv, [Next]_vars
                 PROVE  IdInv'
      OBVIOUS
    <2> USE DEF IdInv
    <2>0. \A v \in Writers : pc[v] # "idle" => draft[v].id \in Nat
      BY EventFields DEF TypeOK
    <2>1. ASSUME NEW w \in Writers, NEW p \in Payloads, BeginAppend(w, p)
          PROVE  IdInv'
      <3>1. draft'[w].id = nextId /\ pc'[w] = "numbered"
        BY <2>1 DEF BeginAppend, TypeOK
      <3>2. \A v \in Writers : v # w => draft'[v] = draft[v] /\ pc'[v] = pc[v]
        BY <2>1 DEF BeginAppend, TypeOK
      <3>3. nextId' = nextId + 1 /\ acked' = acked /\ nextId \in Nat /\ acked \subseteq Nat
        BY <2>1 DEF BeginAppend, TypeOK
      <3>4. \A v \in Writers : v # w /\ pc[v] # "idle" => draft[v].id # nextId
        BY <2>0, <3>3
      <3>5. \A i \in acked' : i < nextId'
        <4> SUFFICES ASSUME NEW i \in acked
                     PROVE  i < nextId + 1
          BY <3>3
        <4>1. i \in Nat /\ i < nextId
          BY <3>3
        <4>2. QED
          BY <3>3, <4>1
      <3>6. \A v \in Writers :
              pc'[v] # "idle" => draft'[v].id < nextId' /\ draft'[v].id \notin acked'
        <4> SUFFICES ASSUME NEW v \in Writers, pc'[v] # "idle"
                     PROVE  draft'[v].id < nextId' /\ draft'[v].id \notin acked'
          OBVIOUS
        <4>1. CASE v = w
          BY <3>1, <3>3, <4>1
        <4>2. CASE v # w
          BY <2>0, <3>2, <3>3, <4>2
        <4>3. QED
          BY <4>1, <4>2
      <3>7. QED
        BY <3>1, <3>2, <3>4, <3>5, <3>6
    <2>2. ASSUME NEW w \in Writers, ReadTail(w)
          PROVE  IdInv'
      <3>1. draft[w] \in Event
        BY <2>2 DEF ReadTail, TypeOK
      <3>2. draft'[w].id = draft[w].id
        BY <2>2, <3>1 DEF ReadTail, TypeOK, Event
      <3>3. \A v \in Writers : v # w => draft'[v] = draft[v] /\ pc'[v] = pc[v]
        BY <2>2 DEF ReadTail, TypeOK
      <3>4. pc[w] # "idle" /\ UNCHANGED <<nextId, acked>>
        BY <2>2 DEF ReadTail
      <3>5. QED
        BY <3>2, <3>3, <3>4
    <2>3. ASSUME NEW w \in Writers, WriteLine(w)
          PROVE  IdInv'
      BY <2>3 DEF WriteLine, TypeOK
    <2>4. ASSUME NEW w \in Writers, Return(w)
          PROVE  IdInv'
      <3>1. /\ acked' = acked \cup {draft[w].id}
            /\ pc[w] # "idle" /\ pc'[w] = "idle"
            /\ UNCHANGED nextId
        BY <2>4 DEF Return, TypeOK
      <3>2. \A v \in Writers : v # w => draft'[v] = draft[v] /\ pc'[v] = pc[v]
        BY <2>4 DEF Return, TypeOK
      <3>3. QED
        BY <3>1, <3>2
    <2>5. ASSUME NEW w \in Writers, NEW s, Abandon(w, s), UNCHANGED <<nextId, acked>>
          PROVE  IdInv'
      <3>1. pc'[w] = "idle"
        BY <2>5 DEF Abandon, TypeOK
      <3>2. \A v \in Writers : v # w => draft'[v] = draft[v] /\ pc'[v] = pc[v]
        BY <2>5 DEF Abandon, TypeOK
      <3>3. QED
        BY <2>5, <3>1, <3>2
    <2>6. CASE UNCHANGED vars
      BY <2>6 DEF vars
    <2>7. QED
      BY <2>1, <2>2, <2>3, <2>4, <2>5, <2>6 DEF Next, TornWrite, Crash
  <1>3. QED
    BY <1>1, <1>2, TypeCorrect, PTL DEF Spec

----------------------------------------------------------------------------
(* Until a write is torn the ledger loses nothing, even if appends overlap. *)

\* No step takes a torn write or an overlap back.
LEMMA TearsGrow ==
    ASSUME TypeOK, [Next]_vars
    PROVE  /\ tears' = 0 => tears = 0
           /\ ~overlapped' => ~overlapped
           /\ ~shared' => ~shared
  <1>1. ASSUME NEW w \in Writers, NEW p \in Payloads, BeginAppend(w, p)
        PROVE  tears' = tears /\ (~overlapped' => ~overlapped) /\ (~shared' => ~shared)
    BY <1>1 DEF BeginAppend
  <1>2. ASSUME NEW w \in Writers, TornWrite(w)
        PROVE  tears' # 0 /\ UNCHANGED history
    BY <1>2 DEF TornWrite, TypeOK
  <1>3. CASE UNCHANGED <<tears, history>>
    BY <1>3 DEF history
  <1>4. \/ UNCHANGED <<tears, history>>
        \/ \E w \in Writers : TornWrite(w) \/ \E p \in Payloads : BeginAppend(w, p)
    BY DEF Next, vars, ReadTail, WriteLine, Return, Crash
  <1>5. QED
    BY <1>1, <1>2, <1>3, <1>4 DEF history

LEMMA AppendReadable ==
    ASSUME NEW ls \in Seq(Line), NEW e \in Event
    PROVE  ReadableIds(Append(ls, e)) = ReadableIds(ls) \cup {e.id}
  <1> DEFINE new == Append(ls, e)
  <1>1. /\ Len(new) = Len(ls) + 1
        /\ new[Len(ls) + 1] = e
        /\ \A i \in 1..Len(ls) : new[i] = ls[i]
    BY EventFields
  <1>2. e.json
    BY EventFields
  <1> HIDE DEF new
  <1>3. Readable(new) = Readable(ls) \cup {Len(ls) + 1}
    BY <1>1, <1>2 DEF Readable
  <1>4. \A i \in Readable(ls) : new[i] = ls[i]
    BY <1>1 DEF Readable
  <1>5. ReadableIds(new) = ReadableIds(ls) \cup {e.id}
    BY <1>1, <1>3, <1>4 DEF ReadableIds
  <1>6. QED
    BY <1>5 DEF new

DurableInv == tears = 0 =>
    /\ terminated
    /\ AllReadable
    /\ \A w \in Writers : pc[w] = "written" => draft[w].id \in ReadableIds(lines)

\* Until a write is torn, whoever is told that its event was appended finds it
\* with read_all, however the appends of the processes overlap and crash.
THEOREM NothingLost == Spec => []AckedDurable
  <1>1. Init => DurableInv
    BY DEF Init, DurableInv, AllReadable
  <1>2. TypeOK /\ DurableInv /\ [Next]_vars => DurableInv'
    <2> SUFFICES ASSUME TypeOK, DurableInv, [Next]_vars, tears' = 0
                 PROVE  /\ terminated'
                        /\ AllReadable'
                        /\ \A v \in Writers :
                             pc'[v] = "written" => draft'[v].id \in ReadableIds(lines')
      BY DEF DurableInv
    <2>0. /\ terminated
          /\ AllReadable
          /\ \A v \in Writers : pc[v] = "written" => draft[v].id \in ReadableIds(lines)
      BY TearsGrow DEF DurableInv
    <2> USE DEF AllReadable
    <2>1. ASSUME NEW w \in Writers, pc'[w] # "written", UNCHANGED <<lines, terminated, acked>>,
                 \A v \in Writers : v # w => draft'[v] = draft[v] /\ pc'[v] = pc[v]
          PROVE  /\ terminated'
                 /\ AllReadable'
                 /\ \A v \in Writers :
                      pc'[v] = "written" => draft'[v].id \in ReadableIds(lines')
      BY <2>0, <2>1
    <2>2. ASSUME NEW w \in Writers, NEW p \in Payloads, BeginAppend(w, p)
          PROVE  /\ pc'[w] # "written" /\ UNCHANGED <<lines, terminated, acked>>
                 /\ \A v \in Writers : v # w => draft'[v] = draft[v] /\ pc'[v] = pc[v]
      BY <2>2 DEF BeginAppend, TypeOK
    <2>3. ASSUME NEW w \in Writers, ReadTail(w)
          PROVE  /\ pc'[w] # "written" /\ UNCHANGED <<lines, terminated, acked>>
                 /\ \A v \in Writers : v # w => draft'[v] = draft[v] /\ pc'[v] = pc[v]
      BY <2>3 DEF ReadTail, TypeOK
    <2>4. ASSUME NEW w \in Writers, Crash(w)
          PROVE  /\ pc'[w] # "written" /\ UNCHANGED <<lines, terminated, acked>>
                 /\ \A v \in Writers : v # w => draft'[v] = draft[v] /\ pc'[v] = pc[v]
      BY <2>4 DEF Crash, Abandon, TypeOK
    <2>5. ASSUME NEW w \in Writers, WriteLine(w)
          PROVE  /\ terminated'
                 /\ AllReadable'
                 /\ \A v \in Writers :
                      pc'[v] = "written" => draft'[v].id \in ReadableIds(lines')
      <3>1. draft[w] \in Event
        BY <2>5 DEF WriteLine, TypeOK
      <3>2. lines' = Append(lines, draft[w]) /\ terminated'
        BY <2>0, <2>5 DEF WriteLine, AppendLine, Glued
      <3>3. ReadableIds(lines') = ReadableIds(lines) \cup {draft[w].id}
        BY <3>1, <3>2, AppendReadable DEF TypeOK
      <3>4. UNCHANGED <<acked, draft>> /\ \A v \in Writers : v # w => pc'[v] = pc[v]
        BY <2>5 DEF WriteLine, TypeOK
      <3>5. QED
        BY <2>0, <3>2, <3>3, <3>4
    <2>6. ASSUME NEW w \in Writers, Return(w)
          PROVE  /\ terminated'
                 /\ AllReadable'
                 /\ \A v \in Writers :
                      pc'[v] = "written" => draft'[v].id \in ReadableIds(lines')
      <3>1. /\ acked' = acked \cup {draft[w].id}
            /\ pc[w] = "written" /\ pc'[w] = "idle"
            /\ UNCHANGED <<lines, terminated>>
        BY <2>6 DEF Return, TypeOK
      <3>2. \A v \in Writers : v # w => draft'[v] = draft[v] /\ pc'[v] = pc[v]
        BY <2>6 DEF Return, TypeOK
      <3>3. QED
        BY <2>0, <3>1, <3>2
    <2>7. ~\E w \in Writers : TornWrite(w)
      BY DEF TornWrite, TypeOK
    <2>8. CASE UNCHANGED vars
      BY <2>0, <2>8 DEF vars
    <2>9. QED
      BY <2>1, <2>2, <2>3, <2>4, <2>5, <2>6, <2>7, <2>8 DEF Next
  <1>3. DurableInv => AckedDurable
    BY DEF DurableInv, AckedDurable
  <1>4. QED
    BY <1>1, <1>2, <1>3, TypeCorrect, PTL DEF Spec

----------------------------------------------------------------------------
(* Appends that take turns build one chain.                                *)

\* Line i is linked to the line before it.
Linked(ls, i) ==
    /\ ls[i].json
    /\ ls[i].prev = IF i = 1 THEN NoHash ELSE ls[i - 1].hash
    /\ ls[i].hash = EventHash(ls[i].prev, ls[i].payload)

ChainInv == ~overlapped /\ tears = 0 =>
    /\ terminated
    /\ \A i \in 1..Len(lines) : Linked(lines, i)
    /\ \A v, w \in Writers : pc[v] # "idle" /\ pc[w] # "idle" => v = w
    /\ \A w \in Writers : pc[w] = "linked" =>
          /\ draft[w].prev = TailHash(lines)
          /\ draft[w].hash = EventHash(draft[w].prev, draft[w].payload)

LEMMA ChainGrows ==
    ASSUME NEW ls \in Seq(Line), \A i \in 1..Len(ls) : Linked(ls, i),
           NEW e \in Event,
           e.prev = TailHash(ls), e.hash = EventHash(e.prev, e.payload)
    PROVE  \A i \in 1..Len(Append(ls, e)) : Linked(Append(ls, e), i)
  <1> DEFINE new == Append(ls, e)
  <1>1. /\ Len(new) = Len(ls) + 1
        /\ new[Len(ls) + 1] = e
        /\ \A i \in 1..Len(ls) : new[i] = ls[i]
        /\ Len(ls) \in Nat
    BY EventFields
  <1>2. e.json
    BY EventFields
  <1> HIDE DEF new
  <1>3. \A i \in 1..Len(ls) : Linked(new, i)
    BY <1>1 DEF Linked
  <1>4. Linked(new, Len(ls) + 1)
    <2>1. CASE Len(ls) = 0
      BY <1>1, <1>2, <2>1 DEF Linked, TailHash
    <2>2. CASE Len(ls) > 0
      <3>1. ls[Len(ls)].json
        BY <2>2 DEF Linked
      <3>2. e.prev = ls[Len(ls)].hash
        BY <2>2, <3>1 DEF TailHash
      <3>3. QED
        BY <1>1, <1>2, <2>2, <3>2 DEF Linked
    <2>3. QED
      BY <1>1, <2>1, <2>2
  <1>5. \A i \in 1..Len(new) : Linked(new, i)
    BY <1>1, <1>3, <1>4
  <1>6. QED
    BY <1>5 DEF new

LEMMA LinkedVerifies ==
    ASSUME NEW ls \in Seq(Line), \A i \in 1..Len(ls) : Linked(ls, i)
    PROVE  VerifyChain(ls)
  <1>1. Readable(ls) = 1..Len(ls)
    BY DEF Readable, Linked
  <1>2. ASSUME NEW i \in 1..Len(ls)
        PROVE  LinksBack(ls, i)
    <2>1. Before(ls, i) = 1..(i - 1)
      BY <1>1 DEF Before
    <2>2. CASE i = 1
      BY <2>1, <2>2 DEF LinksBack, Linked
    <2>3. CASE i # 1
      <3>1. /\ i - 1 \in Before(ls, i)
            /\ \A k \in Before(ls, i) : k <= i - 1
            /\ ls[i].prev = ls[i - 1].hash
        BY <2>1, <2>3 DEF Linked
      <3>2. QED
        BY <3>1 DEF LinksBack
    <2>4. QED
      BY <2>2, <2>3
  <1>3. QED
    BY <1>1, <1>2 DEF VerifyChain, Linked

\* If appends take turns and no write is torn, verify_chain accepts the ledger,
\* however many processes append and whatever steps they crash between.
THEOREM ChainAlwaysVerifies == Spec => []ChainVerifies
  <1>1. Init => ChainInv
    BY DEF Init, ChainInv
  <1>2. TypeOK /\ ChainInv /\ [Next]_vars => ChainInv'
    <2> SUFFICES ASSUME TypeOK, ChainInv, [Next]_vars, ~overlapped', tears' = 0
                 PROVE  ChainInv'
      BY DEF ChainInv
    <2>0. ~overlapped /\ tears = 0
      BY TearsGrow
    <2>1. ASSUME NEW w \in Writers, NEW p \in Payloads, BeginAppend(w, p)
          PROVE  ChainInv'
      <3>1. pc'[w] = "numbered" /\ UNCHANGED <<lines, terminated>>
        BY <2>1 DEF BeginAppend, TypeOK
      <3>2. \A v \in Writers : v # w => pc'[v] = "idle"
        BY <2>1 DEF BeginAppend, TypeOK
      <3>3. QED
        BY <2>0, <3>1, <3>2 DEF ChainInv, Linked
    <2>2. ASSUME NEW w \in Writers, ReadTail(w)
          PROVE  ChainInv'
      <3>1. draft[w] \in Event /\ UNCHANGED <<lines, terminated>>
        BY <2>2 DEF ReadTail, TypeOK
      <3>2. /\ draft'[w].prev = TailHash(lines)
            /\ draft'[w].hash = EventHash(TailHash(lines), draft[w].payload)
            /\ draft'[w].payload = draft[w].payload
        BY <2>2, <3>1 DEF ReadTail, TypeOK, Event
      <3>3. pc[w] = "numbered" /\ pc'[w] = "linked"
        BY <2>2 DEF ReadTail, TypeOK
      <3>4. \A v \in Writers : v # w => draft'[v] = draft[v] /\ pc'[v] = pc[v]
        BY <2>2 DEF ReadTail, TypeOK
      <3>5. TailHash(lines)' = TailHash(lines)
        BY <3>1
      <3>6. \A v \in Writers : pc'[v] = "linked" =>
               /\ draft'[v].prev = TailHash(lines')
               /\ draft'[v].hash = EventHash(draft'[v].prev, draft'[v].payload)
        BY <2>0, <3>2, <3>3, <3>4, <3>5 DEF ChainInv
      <3>7. \A u, v \in Writers : pc'[u] # "idle" /\ pc'[v] # "idle" => u = v
        BY <2>0, <3>3, <3>4 DEF ChainInv
      <3>8. QED
        BY <2>0, <3>1, <3>6, <3>7 DEF ChainInv, Linked
    <2>3. ASSUME NEW w \in Writers, WriteLine(w)
          PROVE  ChainInv'
      <3>1. draft[w] \in Event /\ pc[w] = "linked" /\ pc'[w] = "written"
        BY <2>3 DEF WriteLine, TypeOK
      <3>2. lines' = Append(lines, draft[w]) /\ terminated'
        BY <2>0, <2>3 DEF WriteLine, AppendLine, Glued, ChainInv
      <3>3. \A i \in 1..Len(lines') : Linked(lines', i)
        BY <2>0, <3>1, <3>2, ChainGrows DEF ChainInv, TypeOK
      <3>4. \A v \in Writers : v # w => draft'[v] = draft[v] /\ pc'[v] = "idle"
        BY <2>0, <2>3, <3>1 DEF WriteLine, ChainInv, TypeOK
      <3>5. QED
        BY <3>1, <3>2, <3>3, <3>4 DEF ChainInv
    <2>4. ASSUME NEW w \in Writers, Return(w)
          PROVE  ChainInv'
      <3>1. pc'[w] = "idle" /\ UNCHANGED <<lines, terminated>>
        BY <2>4 DEF Return, TypeOK
      <3>2. \A v \in Writers : v # w => draft'[v] = draft[v] /\ pc'[v] = pc[v]
        BY <2>4 DEF Return, TypeOK
      <3>3. QED
        BY <2>0, <3>1, <3>2 DEF ChainInv, Linked
    <2>5. ASSUME NEW w \in Writers, TornWrite(w)
          PROVE  FALSE
      BY <2>5 DEF TornWrite, TypeOK
    <2>6. ASSUME NEW w \in Writers, Crash(w)
          PROVE  ChainInv'
      <3>1. pc'[w] = "idle" /\ UNCHANGED <<lines, terminated>>
        BY <2>6 DEF Crash, Abandon, TypeOK
      <3>2. \A v \in Writers : v # w => draft'[v] = draft[v] /\ pc'[v] = pc[v]
        BY <2>6 DEF Crash, Abandon, TypeOK
      <3>3. QED
        BY <2>0, <3>1, <3>2 DEF ChainInv, Linked
    <2>7. CASE UNCHANGED vars
      BY <2>0, <2>7 DEF vars, ChainInv, Linked
    <2>8. QED
      BY <2>1, <2>2, <2>3, <2>4, <2>5, <2>6, <2>7 DEF Next
  <1>3. TypeOK /\ ChainInv => ChainVerifies
    BY LinkedVerifies DEF TypeOK, ChainInv, ChainVerifies
  <1>4. QED
    BY <1>1, <1>2, <1>3, TypeCorrect, PTL DEF Spec

----------------------------------------------------------------------------
(* Processes that follow one another number their events without a gap.    *)

DenseLines(ls) == \A i \in 1..Len(ls) : ls[i].json /\ ls[i].seq = i - 1

\* The counter of the one process that has one agrees with the file.
DenseInv == ~shared /\ tears = 0 =>
    /\ terminated
    /\ DenseLines(lines)
    /\ \A v, w \in Writers :
          sequences[v] # NotCached /\ sequences[w] # NotCached => v = w
    /\ \A w \in Writers : sequences[w] # NotCached =>
          sequences[w] = IF pc[w] = "written" THEN Len(lines) - 2 ELSE Len(lines) - 1
    /\ \A w \in Writers : pc[w] # "idle" => draft[w].seq = sequences[w] + 1

LEMMA DenseTail ==
    ASSUME NEW ls \in Seq(Line), DenseLines(ls)
    PROVE  TailSequence(ls) = Len(ls) - 1
  BY DEF DenseLines, TailSequence

LEMMA DenseGrows ==
    ASSUME NEW ls \in Seq(Line), DenseLines(ls), NEW e \in Event, e.seq = Len(ls)
    PROVE  DenseLines(Append(ls, e))
  <1>1. e.json
    BY EventFields
  <1>2. /\ Len(Append(ls, e)) = Len(ls) + 1
        /\ Append(ls, e)[Len(ls) + 1] = e
        /\ \A i \in 1..Len(ls) : Append(ls, e)[i] = ls[i]
    BY EventFields
  <1>3. QED
    BY <1>1, <1>2 DEF DenseLines

\* As long as a process is gone before the next one appends, and no write is torn,
\* the sequence numbers on disk are 0, 1, 2, ..., whatever steps they die between.
THEOREM NumbersDense == Spec => []SequencesDense
  <1>1. Init => DenseInv
    BY DEF Init, DenseInv, DenseLines
  <1>2. TypeOK /\ DenseInv /\ [Next]_vars => DenseInv'
    <2> SUFFICES ASSUME TypeOK, DenseInv, [Next]_vars, ~shared', tears' = 0
                 PROVE  DenseInv'
      BY DEF DenseInv
    <2>0. ~shared /\ tears = 0
      BY TearsGrow
    <2>1. ASSUME NEW w \in Writers, NEW p \in Payloads, BeginAppend(w, p)
          PROVE  DenseInv'
      <3>1. /\ pc[w] = "idle" /\ pc'[w] = "numbered" /\ UNCHANGED <<lines, terminated>>
            /\ sequences'[w] = LatestSequence(w)
            /\ draft'[w].seq = LatestSequence(w) + 1
        BY <2>1 DEF BeginAppend, TypeOK
      <3>2. \A v \in Writers : v # w => sequences[v] = NotCached
        BY <2>1 DEF BeginAppend
      <3>3. \A v \in Writers : v # w =>
              sequences'[v] = NotCached /\ pc'[v] = "idle"
        BY <2>1, <3>2 DEF BeginAppend, TypeOK
      <3>4. LatestSequence(w) = Len(lines) - 1
        BY <2>0, <3>1, DenseTail DEF DenseInv, LatestSequence, TypeOK
      <3>5. QED
        BY <2>0, <3>1, <3>3, <3>4 DEF DenseInv
    <2>2. ASSUME NEW w \in Writers, ReadTail(w)
          PROVE  DenseInv'
      <3>1. draft[w] \in Event /\ pc[w] = "numbered" /\ pc'[w] = "linked"
        BY <2>2 DEF ReadTail, TypeOK
      <3>2. draft'[w].seq = draft[w].seq
        BY <2>2, <3>1 DEF ReadTail, TypeOK, Event
      <3>3. /\ UNCHANGED <<lines, terminated, sequences>>
            /\ \A v \in Writers : v # w => draft'[v] = draft[v] /\ pc'[v] = pc[v]
        BY <2>2 DEF ReadTail, TypeOK
      <3>4. QED
        BY <2>0, <3>1, <3>2, <3>3 DEF DenseInv
    <2>3. ASSUME NEW w \in Writers, WriteLine(w)
          PROVE  DenseInv'
      <3>1. /\ draft[w] \in Event /\ pc[w] = "linked" /\ pc'[w] = "written"
            /\ sequences[w] # NotCached
        BY <2>3 DEF WriteLine, TypeOK
      <3>2. lines' = Append(lines, draft[w]) /\ terminated'
        BY <2>0, <2>3 DEF WriteLine, AppendLine, Glued, DenseInv
      <3>3. sequences[w] = Len(lines) - 1 /\ draft[w].seq = Len(lines)
        BY <2>0, <3>1 DEF DenseInv, TypeOK
      <3>4. DenseLines(lines') /\ Len(lines') = Len(lines) + 1
        BY <2>0, <3>1, <3>2, <3>3, DenseGrows, EventFields DEF DenseInv, TypeOK
      <3>5. /\ UNCHANGED <<sequences, draft>>
            /\ \A v \in Writers : v # w => sequences[v] = NotCached /\ pc'[v] = pc[v]
        BY <2>0, <2>3, <3>1 DEF WriteLine, DenseInv, TypeOK
      <3>6. QED
        BY <2>0, <3>1, <3>2, <3>3, <3>4, <3>5 DEF DenseInv, TypeOK
    <2>4. ASSUME NEW w \in Writers, Return(w)
          PROVE  DenseInv'
      <3>1. /\ pc[w] = "written" /\ pc'[w] = "idle" /\ sequences[w] # NotCached
            /\ sequences'[w] = draft[w].seq /\ UNCHANGED <<lines, terminated>>
        BY <2>4 DEF Return, TypeOK
      <3>2. draft[w].seq = Len(lines) - 1
        BY <2>0, <3>1 DEF DenseInv, TypeOK
      <3>3. \A v \in Writers : v # w =>
              sequences'[v] = NotCached /\ draft'[v] = draft[v] /\ pc'[v] = pc[v]
        BY <2>0, <2>4, <3>1 DEF Return, DenseInv, TypeOK
      <3>4. QED
        BY <2>0, <3>1, <3>2, <3>3 DEF DenseInv, TypeOK
    <2>5. ASSUME NEW w \in Writers, TornWrite(w)
          PROVE  FALSE
      BY <2>5 DEF TornWrite, TypeOK
    <2>6. ASSUME NEW w \in Writers, Crash(w)
          PROVE  DenseInv'
      <3>1. /\ pc'[w] = "idle" /\ sequences'[w] = NotCached
            /\ UNCHANGED <<lines, terminated>>
        BY <2>6 DEF Crash, Abandon, TypeOK
      <3>2. \A v \in Writers : v # w =>
              sequences'[v] = sequences[v] /\ draft'[v] = draft[v] /\ pc'[v] = pc[v]
        BY <2>6 DEF Crash, Abandon, TypeOK
      <3>3. QED
        BY <2>0, <3>1, <3>2 DEF DenseInv
    <2>7. CASE UNCHANGED vars
      BY <2>0, <2>7 DEF vars, DenseInv
    <2>8. QED
      BY <2>1, <2>2, <2>3, <2>4, <2>5, <2>6, <2>7 DEF Next
  <1>3. DenseInv => SequencesDense
    BY DEF DenseInv, DenseLines, SequencesDense
  <1>4. QED
    BY <1>1, <1>2, <1>3, TypeCorrect, PTL DEF Spec

----------------------------------------------------------------------------
(* Refinement: the settled lines are an append-only log.                   *)

SettledLen == IF terminated THEN Len(lines) ELSE Len(lines) - 1
IdOf(line) == IF line.json THEN line.id ELSE Unreadable

SettledShape ==
    /\ SettledLen \in Nat
    /\ SettledLines = 1..SettledLen
    /\ SettledLen <= Len(lines)
    /\ Len(SettledIds) = SettledLen
    /\ \A i \in SettledLines : SettledIds[i] = IdOf(lines[i])

LEMMA SettledFacts == TypeOK => SettledShape
  <1> SUFFICES ASSUME TypeOK
               PROVE  SettledShape
    OBVIOUS
  <1>1. /\ SettledLen \in Nat
        /\ SettledLines = 1..SettledLen
        /\ SettledLen <= Len(lines)
    BY DEF TypeOK, SettledLen, SettledLines
  <1>2. SettledIds = [i \in 1..SettledLen |-> IdOf(lines[i])]
    BY <1>1 DEF SettledIds, IdOf
  <1>3. QED
    BY <1>1, <1>2 DEF SettledShape

\* A step that leaves the settled lines as they are, and acknowledges nothing.
LEMMA SettledStutter ==
    ASSUME TypeOK, TypeOK', SettledLen' = SettledLen, acked' = acked,
           \A i \in 1..SettledLen : lines'[i] = lines[i]
    PROVE  UNCHANGED <<SettledIds, SettledAcked>>
  <1>1. SettledLines = 1..SettledLen /\ SettledLines' = 1..SettledLen
    BY SettledFacts DEF TypeOK, SettledShape, SettledLines, SettledLen
  <1>2. SettledIds' = SettledIds
    BY <1>1 DEF SettledIds
  <1>3. SettledAcked' = SettledAcked
    BY <1>1 DEF SettledAcked
  <1>4. QED
    BY <1>2, <1>3

\* The settled lines of the ledger implement the append-only log, for every
\* interleaving, every number of torn writes and every crash.
THEOREM LedgerImplementsLog == Spec => ImplementsLog
  <1>1. Init => Log!Init
    <2> SUFFICES ASSUME Init
                 PROVE  SettledIds = <<>> /\ SettledAcked = {}
      BY DEF Log!Init
    <2>1. SettledLines = {}
      BY DEF Init, SettledLines
    <2>2. QED
      BY <2>1 DEF Init, SettledIds, SettledAcked
  <1>0. TypeOK' => SettledShape'
    BY SettledFacts, PTL
  <1>2. TypeOK /\ TypeOK' /\ IdInv /\ [Next]_vars => [Log!Next]_(Log!vars)
    <2> SUFFICES ASSUME TypeOK, TypeOK', IdInv, [Next]_vars
                 PROVE  \/ UNCHANGED <<SettledIds, SettledAcked>>
                        \/ Log!Grow
                        \/ Log!Acknowledge
      BY DEF Log!Next, Log!vars
    <2>1. ASSUME NEW w \in Writers, NEW p \in Payloads, BeginAppend(w, p)
          PROVE  UNCHANGED <<SettledIds, SettledAcked>>
      BY <2>1 DEF BeginAppend, SettledIds, SettledAcked, SettledLines
    <2>2. ASSUME NEW w \in Writers, ReadTail(w)
          PROVE  UNCHANGED <<SettledIds, SettledAcked>>
      BY <2>2 DEF ReadTail, SettledIds, SettledAcked, SettledLines
    <2>3. ASSUME NEW w \in Writers, WriteLine(w)
          PROVE  Log!Grow
      <3>1. /\ draft[w] \in Event /\ draft[w].id \notin acked
            /\ UNCHANGED acked /\ terminated'
        BY <2>3 DEF WriteLine, AppendLine, TypeOK, IdInv
      <3>2. /\ SettledLen' = SettledLen + 1
            /\ \A i \in 1..SettledLen : lines'[i] = lines[i]
            /\ lines'[SettledLen + 1] \in {draft[w], Garbage}
        <4>1. CASE terminated
          BY <2>3, <3>1, <4>1, EventFields
          DEF WriteLine, AppendLine, Glued, SettledLen, TypeOK
        <4>2. CASE ~terminated
          <5>1. lines' = [lines EXCEPT ![Len(lines)] = Garbage]
            BY <2>3, <4>2 DEF WriteLine, AppendLine, Glued
          <5>2. Len(lines) \in Nat \ {0} /\ Len(lines') = Len(lines)
            BY <4>2, <5>1 DEF TypeOK
          <5>3. \A i \in 1..Len(lines) :
                   lines'[i] = IF i = Len(lines) THEN Garbage ELSE lines[i]
            BY <5>1 DEF TypeOK
          <5>4. SettledLen = Len(lines) - 1 /\ SettledLen' = Len(lines)
            BY <3>1, <4>2, <5>2 DEF SettledLen
          <5>5. QED
            BY <5>2, <5>3, <5>4
        <4>3. QED
          BY <4>1, <4>2
      <3>3. /\ SettledLines = 1..SettledLen /\ SettledLen \in Nat
            /\ Len(SettledIds) = SettledLen
            /\ \A i \in SettledLines : SettledIds[i] = IdOf(lines[i])
        BY SettledFacts DEF SettledShape
      <3>4. /\ SettledLines' = 1..SettledLen'
            /\ Len(SettledIds') = SettledLen'
            /\ \A i \in SettledLines' : SettledIds'[i] = IdOf(lines[i])'
        BY <1>0 DEF SettledShape
      <3>5. \A i \in 1..Len(SettledIds) : SettledIds'[i] = SettledIds[i]
        BY <3>2, <3>3, <3>4 DEF IdOf
      <3>6. SettledAcked' = SettledAcked
        <4>1. ~\E id \in acked :
                 /\ lines'[SettledLen + 1].json
                 /\ lines'[SettledLen + 1].id = id
          BY <3>1, <3>2 DEF Garbage
        <4>2. SettledLines' = SettledLines \cup {SettledLen + 1}
          BY <3>2, <3>3, <3>4
        <4>3. QED
          BY <3>1, <3>2, <3>3, <4>1, <4>2 DEF SettledAcked
      <3>7. QED
        BY <3>2, <3>3, <3>4, <3>5, <3>6 DEF Log!Grow
    <2>4. ASSUME NEW w \in Writers, Return(w)
          PROVE  \/ UNCHANGED <<SettledIds, SettledAcked>>
                 \/ Log!Acknowledge
      <3>1. /\ acked' = acked \cup {draft[w].id} /\ draft[w].id \in Nat
            /\ UNCHANGED <<lines, terminated>>
        BY <2>4, EventFields DEF Return, TypeOK
      <3>2. UNCHANGED <<SettledIds, SettledLines>>
        BY <3>1 DEF SettledIds, SettledLines
      <3>3. CASE \E i \in SettledLines : lines[i].json /\ lines[i].id = draft[w].id
        <4>1. PICK i \in SettledLines : lines[i].json /\ lines[i].id = draft[w].id
          BY <3>3
        <4>2. SettledAcked' = SettledAcked \cup {draft[w].id}
          BY <3>1, <3>2, <4>1 DEF SettledAcked
        <4>3. SettledIds[i] = draft[w].id /\ i \in 1..Len(SettledIds)
          BY <4>1, SettledFacts DEF SettledShape, IdOf
        <4>4. SettledIds[i] # Unreadable
          BY <3>1, <4>3 DEF Unreadable
        <4>5. QED
          BY <3>2, <4>2, <4>3, <4>4 DEF Log!Acknowledge
      <3>4. CASE ~\E i \in SettledLines : lines[i].json /\ lines[i].id = draft[w].id
        BY <3>1, <3>2, <3>4 DEF SettledAcked
      <3>5. QED
        BY <3>3, <3>4
    <2>5. ASSUME NEW w \in Writers, TornWrite(w)
          PROVE  UNCHANGED <<SettledIds, SettledAcked>>
      <3>1. draft[w] \in Line /\ Garbage \in Line /\ UNCHANGED acked
        BY <2>5 DEF TornWrite, TypeOK, Line
      <3>2. CASE UNCHANGED <<lines, terminated>>
        BY <3>1, <3>2 DEF SettledIds, SettledAcked, SettledLines
      <3>3. ASSUME NEW e \in Line, lines' = Glued(lines, e), terminated' = FALSE
            PROVE  /\ SettledLen' = SettledLen
                   /\ \A i \in 1..SettledLen : lines'[i] = lines[i]
        BY <3>3 DEF Glued, SettledLen, TypeOK
      <3>4. CASE ~UNCHANGED <<lines, terminated>>
        <4>1. /\ SettledLen' = SettledLen
              /\ \A i \in 1..SettledLen : lines'[i] = lines[i]
          <5>1. \/ lines' = Glued(lines, Garbage) /\ terminated' = FALSE
                \/ lines' = Glued(lines, draft[w]) /\ terminated' = FALSE
            BY <2>5, <3>4 DEF TornWrite, TearLine
          <5>2. QED
            BY <3>1, <3>3, <5>1
        <4>2. QED
          BY <3>1, <4>1, SettledStutter
      <3>5. QED
        BY <3>2, <3>4
    <2>6. ASSUME NEW w \in Writers, Crash(w)
          PROVE  UNCHANGED <<SettledIds, SettledAcked>>
      BY <2>6 DEF Crash, SettledIds, SettledAcked, SettledLines
    <2>7. CASE UNCHANGED vars
      BY <2>7 DEF vars, SettledIds, SettledAcked, SettledLines
    <2>8. QED
      BY <2>1, <2>2, <2>3, <2>4, <2>5, <2>6, <2>7 DEF Next
  <1>3. QED
    BY <1>1, <1>2, TypeCorrect, IdsUnique, PTL DEF Spec, ImplementsLog, Log!Spec

----------------------------------------------------------------------------
(* A torn write costs at most one acknowledged event.                      *)

\* The events append() has returned or is about to return.
Promised == acked \cup {draft[v].id : v \in {u \in Writers : pc[u] = "written"}}
Gone == Promised \ ReadableIds(lines)

\* An event nobody will ever be told about.
Orphan(id) ==
    /\ id < nextId
    /\ id \notin acked
    /\ \A v \in Writers : pc[v] # "idle" => draft[v].id # id

\* What makes LossBounded inductive: the next write can swallow the last line only if it
\* has no newline, it is then an orphan, and there was a torn write that has not
\* cost anything yet.
LossInv ==
    /\ ~terminated /\ lines[Len(lines)].json => Orphan(lines[Len(lines)].id)
    /\ Cardinality(Gone) + (IF terminated THEN 0 ELSE 1) <= tears

LEMMA GoneFinite ==
    ASSUME TypeOK, IdInv
    PROVE  IsFiniteSet(Gone) /\ Promised \subseteq Nat
  <1>1. \A i \in Promised : i \in 0..(nextId - 1)
    <2>1. ASSUME NEW i \in acked
          PROVE  i \in 0..(nextId - 1)
      BY <2>1 DEF IdInv, TypeOK
    <2>2. ASSUME NEW v \in Writers, pc[v] = "written"
          PROVE  draft[v].id \in 0..(nextId - 1)
      <3>0. draft[v] \in Event /\ nextId \in Nat
        BY <2>2 DEF TypeOK
      <3>1. draft[v].id \in Nat /\ draft[v].id < nextId
        BY <2>2, <3>0, EventFields DEF IdInv
      <3>2. QED
        BY <3>0, <3>1
    <2>3. QED
      BY <2>1, <2>2 DEF Promised
  <1>2. IsFiniteSet(0..(nextId - 1))
    BY FS_Interval DEF TypeOK
  <1>3. Gone \subseteq 0..(nextId - 1)
    BY <1>1 DEF Gone
  <1>4. IsFiniteSet(Gone)
    BY <1>2, <1>3, FS_Subset
  <1>5. QED
    BY <1>1, <1>4

\* Steps that lose nothing.
LEMMA GoneShrinks ==
    ASSUME TypeOK, IdInv, LossInv, Gone' \subseteq Gone,
           NEW n \in Nat, NEW m \in Nat,
           n = (IF terminated THEN 0 ELSE 1), m = (IF terminated' THEN 0 ELSE 1),
           tears + m - n <= tears', tears' \in Nat
    PROVE  Cardinality(Gone') + m <= tears'
  <1>1. IsFiniteSet(Gone)
    BY GoneFinite
  <1>2. IsFiniteSet(Gone') /\ Cardinality(Gone') <= Cardinality(Gone)
    BY <1>1, FS_Subset
  <1>3. Cardinality(Gone) \in Nat /\ Cardinality(Gone') \in Nat
    BY <1>1, <1>2, FS_CardinalityType
  <1>4. Cardinality(Gone) + n <= tears /\ tears \in Nat
    BY DEF LossInv, TypeOK
  <1>5. QED
    BY <1>2, <1>3, <1>4

\* A step that leaves the file and promises nothing new.
LEMMA QuietLoss ==
    ASSUME TypeOK, IdInv, LossInv, UNCHANGED <<lines, terminated>>,
           Promised' \subseteq Promised,
           \A id \in Nat : Orphan(id) => Orphan(id)',
           tears \in Nat, tears' \in Nat, tears <= tears'
    PROVE  LossInv'
  <1>1. Gone' \subseteq Gone
    BY DEF Gone
  <1>2. PICK n \in Nat : n = (IF terminated THEN 0 ELSE 1)
    OBVIOUS
  <1>3. Cardinality(Gone') + n <= tears'
    BY <1>1, <1>2, GoneShrinks
  <1>4. ~terminated /\ lines[Len(lines)].json => Orphan(lines[Len(lines)].id)'
    <2> SUFFICES ASSUME ~terminated, lines[Len(lines)].json
                 PROVE  Orphan(lines[Len(lines)].id)'
      OBVIOUS
    <2>1. lines[Len(lines)] \in Line
      BY DEF TypeOK
    <2>2. PICK id \in Nat : id = lines[Len(lines)].id
      BY <2>1, EventIsJson
    <2>3. Orphan(id)
      BY <2>2 DEF LossInv
    <2>4. Orphan(id)'
      BY <2>3
    <2>5. lines'[Len(lines')].id = id
      BY <2>2
    <2>6. QED
      BY <2>4, <2>5 DEF Orphan
  <1>5. QED
    BY <1>2, <1>3, <1>4 DEF LossInv

\* What a write makes of the file.
LEMMA GluedReadable ==
    ASSUME TypeOK, NEW e \in Line, LossInv
    PROVE  /\ terminated /\ e.json => ReadableIds(Glued(lines, e)) = ReadableIds(lines) \cup {e.id}
           /\ ReadableIds(lines) \subseteq ReadableIds(Glued(lines, e))
                 \cup {id \in Nat : ~terminated /\ Orphan(id)}
           /\ Glued(lines, e) \in Seq(Line) /\ Len(Glued(lines, e)) > 0
           /\ terminated => Glued(lines, e)[Len(Glued(lines, e))] = e
           /\ ~terminated => ~Glued(lines, e)[Len(Glued(lines, e))].json
  <1>0. Glued(lines, e) \in Seq(Line) /\ Len(Glued(lines, e)) > 0
    BY GluedTyped DEF TypeOK
  <1>1. CASE terminated
    <2>1. Glued(lines, e) = Append(lines, e) /\ lines \in Seq(Line)
      BY <1>1 DEF Glued, TypeOK
    <2> DEFINE new == Append(lines, e)
    <2>2. /\ Len(new) = Len(lines) + 1 /\ Len(lines) \in Nat
          /\ new[Len(lines) + 1] = e
          /\ \A i \in 1..Len(lines) : new[i] = lines[i]
      BY <2>1
    <2> HIDE DEF new
    <2>3. Readable(lines) \subseteq Readable(new) /\ \A i \in Readable(lines) : new[i] = lines[i]
      BY <2>2 DEF Readable
    <2>4. ReadableIds(lines) \subseteq ReadableIds(new)
      BY <2>3 DEF ReadableIds
    <2>5. e.json => e \in Event
      BY EventIsJson
    <2>6. e.json => ReadableIds(new) = ReadableIds(lines) \cup {e.id}
      BY <2>1, <2>5, AppendReadable DEF new
    <2>7. QED
      BY <1>0, <1>1, <2>1, <2>2, <2>4, <2>6 DEF new
  <1>2. CASE ~terminated
    <2>1. PICK n \in Nat : n = Len(lines) /\ n > 0
      BY <1>2 DEF TypeOK
    <2>2. Glued(lines, e) = [lines EXCEPT ![n] = Garbage] /\ lines \in Seq(Line)
      BY <1>2, <2>1 DEF Glued, TypeOK
    <2> DEFINE new == [lines EXCEPT ![n] = Garbage]
    <2>3. /\ Len(new) = n /\ new[n] = Garbage /\ n \in 1..n
          /\ \A i \in 1..n : i # n => new[i] = lines[i]
      BY <2>1, <2>2
    <2>4. ~Garbage.json
      BY DEF Garbage
    <2> HIDE DEF new
    <2>5. ASSUME NEW i \in Readable(lines)
          PROVE  lines[i].id \in ReadableIds(new) \cup {id \in Nat : ~terminated /\ Orphan(id)}
      <3>1. i \in 1..n /\ lines[i].json
        BY <2>1 DEF Readable
      <3>2. CASE i # n
        BY <2>3, <3>1, <3>2 DEF Readable, ReadableIds
      <3>3. CASE i = n
        <4>1. Orphan(lines[n].id)
          BY <1>2, <2>1, <3>1, <3>3 DEF LossInv
        <4>2. lines[n] \in Line
          BY <2>1, <2>2
        <4>3. QED
          BY <1>2, <3>1, <3>3, <4>1, <4>2, EventIsJson
      <3>4. QED
        BY <3>2, <3>3
    <2>6. ReadableIds(lines) \subseteq ReadableIds(new) \cup {id \in Nat : ~terminated /\ Orphan(id)}
      BY <2>5 DEF ReadableIds
    <2>7. QED
      BY <1>0, <1>2, <2>2, <2>3, <2>4, <2>6 DEF new
  <1>3. QED
    BY <1>1, <1>2

\* No orphan is promised.
LEMMA OrphanIsNotPromised ==
    ASSUME NEW id, Orphan(id)
    PROVE  id \notin Promised
  BY DEF Orphan, Promised

LEMMA WriteLineLoss ==
    ASSUME TypeOK, IdInv, LossInv, NEW w \in Writers, WriteLine(w)
    PROVE  LossInv'
  <1>1. draft[w] \in Event /\ draft[w] \in Line /\ draft[w].json
    BY EventFields DEF WriteLine, TypeOK
  <1>2. PICK e \in Event : e = draft[w]
    BY <1>1
  <1>3. /\ lines' = Glued(lines, e) /\ terminated' = TRUE /\ UNCHANGED <<tears, acked, nextId, draft>>
        /\ pc' = [pc EXCEPT ![w] = "written"]
    BY <1>2 DEF WriteLine, AppendLine
  <1>4. Promised' = Promised \cup {e.id}
    BY <1>2, <1>3 DEF Promised, TypeOK, WriteLine
  <1>5. \A v \in Writers \ {w} : pc'[v] = pc[v]
    BY <1>3 DEF TypeOK
  <1>6. IsFiniteSet(Gone) /\ Cardinality(Gone) \in Nat /\ Promised \subseteq Nat /\ tears \in Nat
    BY GoneFinite, FS_CardinalityType DEF TypeOK
  <1>7. CASE terminated
    <2>1. ReadableIds(lines') = ReadableIds(lines) \cup {e.id}
      BY <1>1, <1>2, <1>3, <1>7, GluedReadable
    <2>2. Gone' \subseteq Gone
      BY <1>4, <2>1 DEF Gone
    <2>3. Cardinality(Gone') <= Cardinality(Gone) /\ Cardinality(Gone') \in Nat
      BY <1>6, <2>2, FS_Subset, FS_CardinalityType
    <2>4. QED
      BY <1>3, <1>6, <1>7, <2>3 DEF LossInv
  <1>8. CASE ~terminated
    <2>1. ReadableIds(lines) \subseteq ReadableIds(lines') \cup {id \in Nat : Orphan(id)}
      BY <1>1, <1>2, <1>3, <1>8, GluedReadable
    <2>2. Gone' \subseteq Gone \cup {e.id}
      BY <1>4, <2>1, OrphanIsNotPromised DEF Gone
    <2>3. /\ IsFiniteSet(Gone \cup {e.id})
          /\ Cardinality(Gone \cup {e.id}) <= Cardinality(Gone) + 1
      BY <1>6, FS_AddElement
    <2>4. Cardinality(Gone') <= Cardinality(Gone \cup {e.id}) /\ IsFiniteSet(Gone')
      BY <2>2, <2>3, FS_Subset
    <2>5. Cardinality(Gone') \in Nat /\ Cardinality(Gone \cup {e.id}) \in Nat
      BY <2>3, <2>4, FS_CardinalityType
    <2>6. Cardinality(Gone) + 1 <= tears
      BY <1>8 DEF LossInv
    <2>7. Cardinality(Gone') <= tears
      BY <1>6, <2>3, <2>4, <2>5, <2>6
    <2>8. QED
      BY <1>3, <2>5, <2>7 DEF LossInv
  <1>9. QED
    BY <1>7, <1>8 DEF TypeOK

\* Whoever leaves append() without an answer is promised nothing any more.
LEMMA AbandonLoss ==
    ASSUME TypeOK, NEW w \in Writers, NEW s, Abandon(w, s), UNCHANGED <<acked, nextId>>
    PROVE  /\ Promised' \subseteq Promised
           /\ \A id \in Nat : Orphan(id) => Orphan(id)'
           /\ \A v \in Writers \ {w} : pc'[v] = pc[v] /\ draft'[v] = draft[v]
           /\ pc'[w] = "idle"
  <1>1. /\ \A v \in Writers \ {w} : pc'[v] = pc[v] /\ draft'[v] = draft[v]
        /\ pc'[w] = "idle"
    BY DEF Abandon, TypeOK
  <1>2. Promised' \subseteq Promised
    BY <1>1 DEF Promised
  <1>3. \A id \in Nat : Orphan(id) => Orphan(id)'
    BY <1>1 DEF Orphan
  <1>4. QED
    BY <1>1, <1>2, <1>3

\* The event of a torn write is an orphan, should its line be complete.
LEMMA TornWriteLoss ==
    ASSUME TypeOK, IdInv, LossInv, NEW w \in Writers, TornWrite(w)
    PROVE  LossInv'
  <1>1. /\ pc[w] = "linked" /\ tears' = tears + 1 /\ UNCHANGED <<acked, nextId>>
        /\ tears \in Nat /\ tears' \in Nat
    BY DEF TornWrite, TypeOK
  <1>2. PICK e \in Event : e = draft[w]
    BY <1>1 DEF TypeOK
  <1>3. /\ Promised' \subseteq Promised
        /\ \A id \in Nat : Orphan(id) => Orphan(id)'
        /\ \A v \in Writers \ {w} : pc'[v] = pc[v] /\ draft'[v] = draft[v]
        /\ pc'[w] = "idle"
    BY <1>1, AbandonLoss DEF TornWrite
  <1>4. CASE UNCHANGED <<lines, terminated>>
    BY <1>1, <1>3, <1>4, QuietLoss
  <1>5. ASSUME NEW x \in Line, x \in {e, Garbage}, lines' = Glued(lines, x), terminated' = FALSE
        PROVE  LossInv'
    <2>1. Gone' \subseteq Gone
      <3>1. ReadableIds(lines) \subseteq ReadableIds(lines') \cup {id \in Nat : Orphan(id)}
        BY <1>5, GluedReadable
      <3>2. QED
        BY <1>3, <3>1, OrphanIsNotPromised DEF Gone
    <2>2. PICK n \in Nat : n = (IF terminated THEN 0 ELSE 1)
      OBVIOUS
    <2>3. Cardinality(Gone') + 1 <= tears'
      BY <1>1, <1>5, <2>1, <2>2, GoneShrinks
    <2>4. lines'[Len(lines')].json => Orphan(lines[Len(lines)].id)'
      <3> SUFFICES ASSUME lines'[Len(lines')].json
                   PROVE  Orphan(lines[Len(lines)].id)'
        OBVIOUS
      <3>1. lines'[Len(lines')] = x
        BY <1>5, GluedReadable DEF TypeOK
      <3>2. x = e
        BY <1>5, <3>1 DEF Garbage
      <3>3. PICK id \in Nat : id = e.id
        BY EventFields
      <3>4. id < nextId /\ id \notin acked /\ \A v \in Writers \ {w} : pc[v] # "idle" => draft[v].id # id
        BY <1>1, <1>2, <3>3 DEF IdInv
      <3>5. Orphan(id)'
        BY <1>1, <1>3, <3>4 DEF Orphan
      <3>6. lines'[Len(lines')].id = id
        BY <3>1, <3>2, <3>3
      <3>7. QED
        BY <3>5, <3>6 DEF Orphan
    <2>5. QED
      BY <1>5, <2>3, <2>4 DEF LossInv
  <1>6. e \in Line /\ Garbage \in Line
    BY DEF Line
  <1>7. QED
    BY <1>2, <1>4, <1>5, <1>6 DEF TornWrite, TearLine

\* However appends overlap, tear and crash, no more acknowledged events are missing from
\* what read_all returns than writes were torn.
THEOREM LossIsBounded == Spec => []LossBounded
  <1>1. Init => LossInv
    <2> SUFFICES ASSUME Init
                 PROVE  LossInv
      OBVIOUS
    <2>1. Gone = {}
      BY DEF Init, Gone, Promised
    <2>2. QED
      BY <2>1, FS_EmptySet DEF Init, LossInv
  <1>2. TypeOK /\ TypeOK' /\ IdInv /\ LossInv /\ [Next]_vars => LossInv'
    <2> SUFFICES ASSUME TypeOK, TypeOK', IdInv, LossInv, [Next]_vars
                 PROVE  LossInv'
      OBVIOUS
    <2>0. tears \in Nat /\ tears' \in Nat
      BY DEF TypeOK
    <2>1. ASSUME NEW w \in Writers, NEW p \in Payloads, BeginAppend(w, p)
          PROVE  LossInv'
      <3>1. /\ pc[w] = "idle" /\ pc'[w] = "numbered" /\ draft'[w].id = nextId
            /\ nextId' = nextId + 1 /\ nextId \in Nat
            /\ \A v \in Writers \ {w} : pc'[v] = pc[v] /\ draft'[v] = draft[v]
            /\ UNCHANGED <<lines, terminated, tears, acked>>
        BY <2>1 DEF BeginAppend, TypeOK
      <3>2. Promised' \subseteq Promised
        BY <3>1 DEF Promised
      <3>3. \A id \in Nat : Orphan(id) => Orphan(id)'
        BY <3>1 DEF Orphan
      <3>4. QED
        BY <2>0, <3>1, <3>2, <3>3, QuietLoss
    <2>2. ASSUME NEW w \in Writers, ReadTail(w)
          PROVE  LossInv'
      <3>1. /\ pc[w] # "idle" /\ pc'[w] = "linked"
            /\ \A v \in Writers \ {w} : pc'[v] = pc[v] /\ draft'[v] = draft[v]
            /\ UNCHANGED <<lines, terminated, tears, acked, nextId>>
        BY <2>2 DEF ReadTail, TypeOK
      <3>2. draft'[w].id = draft[w].id
        BY <2>2 DEF ReadTail, TypeOK, Event
      <3>3. Promised' \subseteq Promised
        BY <3>1 DEF Promised
      <3>4. \A id \in Nat : Orphan(id) => Orphan(id)'
        BY <3>1, <3>2 DEF Orphan
      <3>5. QED
        BY <2>0, <3>1, <3>3, <3>4, QuietLoss
    <2>3. ASSUME NEW w \in Writers, Return(w)
          PROVE  LossInv'
      <3>1. /\ pc[w] = "written" /\ pc'[w] = "idle" /\ acked' = acked \cup {draft[w].id}
            /\ \A v \in Writers \ {w} : pc'[v] = pc[v] /\ draft'[v] = draft[v]
            /\ UNCHANGED <<lines, terminated, tears, nextId>>
        BY <2>3 DEF Return, TypeOK
      <3>2. Promised' \subseteq Promised
        BY <3>1 DEF Promised
      <3>3. \A id \in Nat : Orphan(id) => Orphan(id)'
        BY <3>1 DEF Orphan
      <3>4. QED
        BY <2>0, <3>1, <3>2, <3>3, QuietLoss
    <2>4. ASSUME NEW w \in Writers, Crash(w)
          PROVE  LossInv'
      <3>1. Abandon(w, NotCached) /\ UNCHANGED <<lines, terminated, tears, acked, nextId>>
        BY <2>4 DEF Crash
      <3>2. QED
        BY <2>0, <3>1, AbandonLoss, QuietLoss
    <2>5. CASE UNCHANGED vars
      <3>1. Promised' \subseteq Promised /\ \A id \in Nat : Orphan(id) => Orphan(id)'
        BY <2>5 DEF vars, Promised, Orphan
      <3>2. QED
        BY <2>0, <2>5, <3>1, QuietLoss DEF vars
    <2>6. QED
      BY <2>1, <2>2, <2>3, <2>4, <2>5, WriteLineLoss, TornWriteLoss DEF Next
  <1>3. TypeOK /\ IdInv /\ LossInv => LossBounded
    <2> SUFFICES ASSUME TypeOK, IdInv, LossInv
                 PROVE  LossBounded
      OBVIOUS
    <2>1. acked \ ReadableIds(lines) \subseteq Gone
      BY DEF Gone, Promised
    <2>2. IsFiniteSet(Gone)
      BY GoneFinite
    <2>3. /\ IsFiniteSet(acked \ ReadableIds(lines))
          /\ Cardinality(acked \ ReadableIds(lines)) <= Cardinality(Gone)
      BY <2>1, <2>2, FS_Subset
    <2>4. Cardinality(Gone) \in Nat /\ Cardinality(acked \ ReadableIds(lines)) \in Nat
      BY <2>2, <2>3, FS_CardinalityType
    <2>5. Cardinality(Gone) <= tears /\ tears \in Nat
      BY <2>4 DEF LossInv, TypeOK
    <2>6. QED
      BY <2>3, <2>4, <2>5 DEF LossBounded
  <1>4. QED
    BY <1>1, <1>2, <1>3, TypeCorrect, IdsUnique, PTL DEF Spec
==============================================================================
