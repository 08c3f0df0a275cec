------------------------------ MODULE LogOrder ------------------------------
(***************************************************************************)
(* The order in which the log is listed (ORDER BY ledger_seq, and          *)
(* opened_at for the batches): by place, from the first.                   *)
(***************************************************************************)
EXTENDS Integers, Sequences

\* Ascending(K)[n]: the numbers up to n that are in K, from the least.
Ascending(K) ==
    LET list[n \in Nat] == IF n = 0 THEN <<>>
                           ELSE IF n \in K THEN Append(list[n - 1], n) ELSE list[n - 1]
    IN  list

=============================================================================
