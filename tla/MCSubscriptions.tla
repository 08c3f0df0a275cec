-------------------------- MODULE MCSubscriptions --------------------------
(***************************************************************************)
(* An instance of Subscriptions: events of two types in turn.              *)
(***************************************************************************)
EXTENDS Subscriptions

MCTypeOf == [id \in 1..MaxId |-> id % 2]
MCFilters == {{}, {0}}

=============================================================================
