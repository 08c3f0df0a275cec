----------------------------- MODULE MCTransfer -----------------------------
(***************************************************************************)
(* An instance of Transfer: every table.                                   *)
(***************************************************************************)
EXTENDS Transfer

MCTables == AllTables
MCScopes == {RowKeys, {1, 3}}

=============================================================================
