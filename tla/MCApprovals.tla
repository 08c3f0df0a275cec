----------------------------- MODULE MCApprovals -----------------------------
(***************************************************************************)
(* Instances of Approvals for TLC.                                         *)
(***************************************************************************)
EXTENDS Approvals

CONSTANTS
    ann, bob,   \* must both approve
    sue         \* submits the intent
=============================================================================
