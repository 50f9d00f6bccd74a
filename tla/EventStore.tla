------------------------------ MODULE EventStore ------------------------------
(***************************************************************************)
(* The JSONL event ledger of one workflow (persistence/event_store.py).    *)
(*                                                                         *)
(* Every process that opens the data directory has an EventStore of its    *)
(* own: the runtime has one and each `dar approve` or `dar reject` command *)
(* has another.  They share the file (lines, terminated); each keeps its   *)
(* own cached sequence counter.  append() is four steps, because the file  *)
(* is read twice before it is written and the cache is set after the       *)
(* write: number the event, link it to the tail, write it, return it.      *)
(***************************************************************************)
EXTENDS Integers, Sequences, FiniteSets

CONSTANTS
    Writers,    \* the processes that hold an EventStore for the workflow
    Payloads,   \* the payloads, told apart only by their hash
    MaxEvents,  \* bound: how many appends are begun
    MaxTears    \* bound: how many writes are cut short

ASSUME BoundsAssumption ==
    /\ MaxEvents \in Nat
    /\ MaxTears \in Nat

VARIABLES
    lines,       \* the file, cut at its newlines
    terminated,  \* does the file end in a newline (or hold nothing)?
    sequences,   \* self._sequences[workflow_id] of each process
    pc,          \* how far each process is in append()
    draft,       \* the event each process is appending
    nextId,      \* the next event_id
    tears,       \* writes cut short so far
    acked,       \* the events that append() has returned
    overlapped,  \* history: two appends have been under way at once
    shared       \* history: two processes have had a counter at once

history == <<overlapped, shared>>
vars == <<lines, terminated, sequences, pc, draft, nextId, tears, acked, history>>

----------------------------------------------------------------------------
(* Events, lines and hashes.                                               *)

NotCached == -2

\* A line json.loads refuses, and the draft of a process that is not appending.
Garbage == [json |-> FALSE]

\* SHA-256 without collisions: the hash of an event is the list of the payloads
\* it commits to, and no hash at all is the empty list.
NoHash == <<>>
EventHash(prev, payload) == Append(prev, payload)

Event == [json    : {TRUE},
          id      : Nat,
          seq     : Nat,
          payload : Payloads,
          prev    : Seq(Payloads),
          hash    : Seq(Payloads)]

Line == Event \cup {Garbage}

----------------------------------------------------------------------------
(* Reading the file.                                                       *)

\* read_all skips the lines it cannot parse.
Readable(ls) == {i \in 1..Len(ls) : ls[i].json}
ReadableIds(ls) == {ls[i].id : i \in Readable(ls)}

\* The default of data.get taken for an empty file as well.
TailSequenceUnset(ls) ==
    IF Len(ls) > 0 /\ ls[Len(ls)].json THEN ls[Len(ls)].seq ELSE NotCached

\* _rebuild_sequence looks at the last line only.
TailSequence(ls) ==
    IF Len(ls) > 0 /\ ls[Len(ls)].json THEN ls[Len(ls)].seq ELSE -1

\* The first line in the place of the last.
TailHashFirst(ls) ==
    IF Len(ls) > 0 /\ ls[1].json THEN ls[1].hash ELSE NoHash

\* The hash append() links to: that of the last line, if it can be read.
TailHash(ls) ==
    IF Len(ls) > 0 /\ ls[Len(ls)].json THEN ls[Len(ls)].hash ELSE NoHash

\* The cached counter, or the one the file ends with.
LatestSequence(w) ==
    IF sequences[w] # NotCached THEN sequences[w] ELSE TailSequence(lines)

\* verify_chain: every event read names the hash of the event read before it,
\* and its own hash is the hash of the two.
Before(ls, i) == {j \in Readable(ls) : j < i}
LinksBack(ls, i) ==
    \/ /\ Before(ls, i) = {}
       /\ ls[i].prev = NoHash
    \/ \E j \in Before(ls, i) :
          /\ \A k \in Before(ls, i) : k <= j
          /\ ls[i].prev = ls[j].hash
VerifyChain(ls) ==
    \A i \in Readable(ls) :
        /\ LinksBack(ls, i)
        /\ ls[i].hash = EventHash(ls[i].prev, ls[i].payload)

----------------------------------------------------------------------------
(* Writing the file: the bytes follow what is there, so a line that does   *)
(* not end in a newline swallows what is written next.                     *)

Glued(ls, line) ==
    IF terminated THEN Append(ls, line) ELSE [ls EXCEPT ![Len(ls)] = Garbage]

\* The file opened with mode "w".
AppendLineTruncating(line) ==
    /\ lines' = <<line>>
    /\ terminated' = TRUE

\* The line written without its newline.
AppendLineUnterminated(line) ==
    /\ lines' = Glued(lines, line)
    /\ terminated' = FALSE

AppendLine(line) ==
    /\ lines' = Glued(lines, line)
    /\ terminated' = TRUE

\* The write stops early: nothing, part of the line, or all but the newline.
TearLine(line) ==
    \/ UNCHANGED <<lines, terminated>>
    \/ /\ \/ lines' = Glued(lines, Garbage)
          \/ lines' = Glued(lines, line)
       /\ terminated' = FALSE

----------------------------------------------------------------------------

Init ==
    /\ lines = <<>>
    /\ terminated = TRUE
    /\ sequences = [w \in Writers |-> NotCached]
    /\ pc = [w \in Writers |-> "idle"]
    /\ draft = [w \in Writers |-> Garbage]
    /\ nextId = 0
    /\ tears = 0
    /\ acked = {}
    /\ overlapped = FALSE
    /\ shared = FALSE

\* get_latest_sequence and the numbering of the event: the counter is cached.
BeginAppend(w, p) ==
    /\ pc[w] = "idle"
    /\ nextId < MaxEvents
    /\ pc' = [pc EXCEPT ![w] = "numbered"]
    /\ sequences' = [sequences EXCEPT ![w] = LatestSequence(w)]
    /\ draft' = [draft EXCEPT ![w] = [json    |-> TRUE,
                                      id      |-> nextId,
                                      seq     |-> LatestSequence(w) + 1,
                                      payload |-> p,
                                      prev    |-> NoHash,
                                      hash    |-> NoHash]]
    /\ nextId' = nextId + 1
    /\ overlapped' = (overlapped \/ \E v \in Writers \ {w} : pc[v] # "idle")
    /\ shared' = (shared \/ \E v \in Writers \ {w} : sequences[v] # NotCached)
    /\ UNCHANGED <<lines, terminated, tears, acked>>

\* The file is read again, for the hash of its last line.
ReadTail(w) ==
    /\ pc[w] = "numbered"
    /\ pc' = [pc EXCEPT ![w] = "linked"]
    /\ draft' = [draft EXCEPT
                   ![w].prev = TailHash(lines),
                   ![w].hash = EventHash(TailHash(lines), draft[w].payload)]
    /\ UNCHANGED <<lines, terminated, sequences, nextId, tears, acked, history>>

\* write, flush and fsync of the whole line.
WriteLine(w) ==
    /\ pc[w] = "linked"
    /\ pc' = [pc EXCEPT ![w] = "written"]
    /\ AppendLine(draft[w])
    /\ UNCHANGED <<sequences, draft, nextId, tears, acked, history>>

\* append() leaves the cached counter as it is.
ReturnUncounted(w) ==
    /\ pc[w] = "written"
    /\ pc' = [pc EXCEPT ![w] = "idle"]
    /\ acked' = acked \cup {draft[w].id}
    /\ draft' = [draft EXCEPT ![w] = Garbage]
    /\ UNCHANGED <<lines, terminated, sequences, nextId, tears, history>>

\* append() sets the cached counter and returns the event.
Return(w) ==
    /\ pc[w] = "written"
    /\ pc' = [pc EXCEPT ![w] = "idle"]
    /\ sequences' = [sequences EXCEPT ![w] = draft[w].seq]
    /\ acked' = acked \cup {draft[w].id}
    /\ draft' = [draft EXCEPT ![w] = Garbage]
    /\ UNCHANGED <<lines, terminated, nextId, tears, history>>

\* The process is out of append(), by an exception or because it died; a
\* process that starts again has an empty cache.
Abandon(w, seq) ==
    /\ pc' = [pc EXCEPT ![w] = "idle"]
    /\ draft' = [draft EXCEPT ![w] = Garbage]
    /\ sequences' = [sequences EXCEPT ![w] = seq]

\* The write raises (a full disk, say) and the process goes on, or it is cut
\* short by the death of the process.
TornWrite(w) ==
    /\ pc[w] = "linked"
    /\ tears < MaxTears
    /\ tears' = tears + 1
    /\ TearLine(draft[w])
    /\ Abandon(w, sequences[w]) \/ Abandon(w, NotCached)
    /\ UNCHANGED <<nextId, acked, history>>

\* The process dies between two steps, or between two appends.
Crash(w) ==
    /\ sequences[w] # NotCached
    /\ Abandon(w, NotCached)
    /\ UNCHANGED <<lines, terminated, nextId, tears, acked, history>>

Next ==
    \E w \in Writers :
        \/ \E p \in Payloads : BeginAppend(w, p)
        \/ ReadTail(w)
        \/ WriteLine(w)
        \/ Return(w)
        \/ TornWrite(w)
        \/ Crash(w)

Spec == Init /\ [][Next]_vars

----------------------------------------------------------------------------
(* Properties.                                                             *)

HistoryOK == overlapped \in BOOLEAN /\ shared \in BOOLEAN

\* Every variable keeps its type; a process inside append() has a counter and a
\* well-formed event.
TypeOK ==
    /\ lines \in Seq(Line)
    /\ terminated \in BOOLEAN
    /\ sequences \in [Writers -> Nat \cup {-1, NotCached}]
    /\ pc \in [Writers -> {"idle", "numbered", "linked", "written"}]
    /\ draft \in [Writers -> Line]
    /\ nextId \in 0..MaxEvents
    /\ tears \in 0..MaxTears
    /\ acked \in SUBSET Nat
    /\ HistoryOK
    /\ ~terminated => Len(lines) > 0
    /\ \A w \in Writers :
          pc[w] # "idle" => sequences[w] # NotCached /\ draft[w] \in Event

\* verify_chain accepts every ledger that honest writers produce, whatever steps
\* they crash between, as long as their appends take turns and no write is torn.
ChainVerifies == ~overlapped /\ tears = 0 => VerifyChain(lines)

\* The sequence numbers on disk are 0, 1, 2, ... without a gap or a repetition,
\* even though the counter lives in memory and is lost in every crash: as long as
\* a process is gone before the next one appends, and no write is torn.
SequencesDense == ~shared /\ tears = 0 =>
    \A i \in 1..Len(lines) : lines[i].json /\ lines[i].seq = i - 1

AllReadable == acked \subseteq ReadableIds(lines)

\* Until a write is torn, whoever is told that its event was appended finds it
\* with read_all, however appends overlap and crash.
AckedDurable == tears = 0 => AllReadable

\* A write cut short costs at most one acknowledged event: the one that is
\* written behind the unterminated line.
LossBounded == Cardinality(acked \ ReadableIds(lines)) <= tears

\* If an acknowledged event is gone, verify_chain says so.
LossIsDetected == ~AllReadable => ~VerifyChain(lines)

\* The lines that no later write can touch: all but one without its newline.
SettledLines == 1..(IF terminated THEN Len(lines) ELSE Len(lines) - 1)
Unreadable == -1
SettledIds ==
    [i \in SettledLines |-> IF lines[i].json THEN lines[i].id ELSE Unreadable]
SettledAcked ==
    {id \in acked : \E i \in SettledLines : lines[i].json /\ lines[i].id = id}

Log == INSTANCE AppendOnlyLog WITH
           Lost <- Unreadable, log <- SettledIds, acked <- SettledAcked

\* However appends overlap, tear and crash, the settled lines are an append-only
\* log: no step changes, drops or reorders one, and an acknowledged event that
\* can be read stays readable.
ImplementsLog == Log!Spec
==============================================================================
