---------------------------- MODULE AppendOnlyLog ----------------------------
(***************************************************************************)
(* What the event ledger promises its callers, without files, caches or    *)
(* hashes: the log only grows, one entry at a time and at its end, and an  *)
(* event is acknowledged to its writer only once it is in the log.         *)
(***************************************************************************)
EXTENDS Naturals, Sequences

CONSTANT Lost  \* an entry nobody can read

VARIABLES log, acked

vars == <<log, acked>>

Init ==
    /\ log = <<>>
    /\ acked = {}

\* One entry is added after the ones that are there.
Grow ==
    /\ Len(log') = Len(log) + 1
    /\ \A i \in 1..Len(log) : log'[i] = log[i]
    /\ UNCHANGED acked

\* A writer learns that its event is in the log.
Acknowledge ==
    /\ \E i \in 1..Len(log) :
          /\ log[i] # Lost
          /\ acked' = acked \cup {log[i]}
    /\ UNCHANGED log

Next == Grow \/ Acknowledge

Spec == Init /\ [][Next]_vars
==============================================================================
