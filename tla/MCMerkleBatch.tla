--------------------------- MODULE MCMerkleBatch ---------------------------
(***************************************************************************)
(* An instance of MerkleBatch: a server with three writers and the worker  *)
(* that sweeps.                                                            *)
(***************************************************************************)
EXTENDS MerkleBatch

CONSTANT server

MCHome == [w \in Writers |-> server]

\* Transactions of all writers use up the server's pool: a rollover that finds
\* it empty waits for a connection, with its own in hand.
MCPoolSize == [p \in Procs |-> IF p = server THEN Cardinality(Writers) ELSE 1]

=============================================================================
