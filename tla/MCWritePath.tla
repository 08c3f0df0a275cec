----------------------------- MODULE MCWritePath -----------------------------
(***************************************************************************)
(* Instances of WritePath for TLC.                                         *)
(***************************************************************************)
EXTENDS WritePathInvariant, TLC

CONSTANTS k1, h1, h2

Submit(key, hash, dry) == [mode |-> "submit", intents |-> <<key>>, hash |-> hash, dry |-> dry]

Batch(keys) == [mode |-> "batch", intents |-> keys, hash |-> h1, dry |-> FALSE]

\* Two inputs competing for one key, a write without a key, a dry run.
SubmitRequests == {Submit(k1, h1, FALSE), Submit(k1, h2, FALSE), Submit(NoKey, h1, FALSE),
                   Submit(k1, h1, TRUE)}

\* Batches whose posts use the key others submit under, or use it twice.
BatchRequests == {Submit(k1, h1, FALSE), Submit(NoKey, h1, FALSE),
                  Batch(<<NoKey, k1>>), Batch(<<k1, k1>>)}

\* A submit and a batch that hold the ledger row for one and for two events.
LiveRequests == {Submit(k1, h1, FALSE), Batch(<<NoKey, k1>>)}

AllRequests == SubmitRequests \cup BatchRequests

WorkerSymmetry == Permutations(Workers)
=============================================================================
