---------------------------- MODULE AtMostOnceLog ----------------------------
(***************************************************************************)
(* What a ledger promises about its event log, free of transactions,       *)
(* locks, caches and retries: a sequence that is extended, one or more     *)
(* entries at a time, by entries whose idempotency keys are new, and       *)
(* whose entries are acknowledged only once they are in it.                *)
(***************************************************************************)
EXTENDS Naturals, Sequences

CONSTANT NoKey

VARIABLES
    entries,   \* the log: records with an id and a key
    acked      \* ids of entries clients have been told of

KeysUnique(log) ==
    \A m, n \in 1..Len(log) : log[m].key = log[n].key /\ log[m].key # NoKey => m = n

Init == entries = <<>> /\ acked = {}

\* One transaction: the log keeps its prefix and stays free of repeated keys.
Extend ==
    /\ Len(entries') > Len(entries)
    /\ \A n \in 1..Len(entries) : entries'[n] = entries[n]
    /\ KeysUnique(entries')
    /\ UNCHANGED acked

\* Clients learn of entries that are in the log.
Acknowledge ==
    /\ acked \subseteq acked'
    /\ acked' \subseteq {entries[n].id : n \in 1..Len(entries)}
    /\ UNCHANGED entries

Next == Extend \/ Acknowledge

Spec == Init /\ [][Next]_<<entries, acked>>
=============================================================================
