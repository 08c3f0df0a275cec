----------------------------- MODULE MCClients -----------------------------
(***************************************************************************)
(* Instances of what clients do besides writing: they approve what waits   *)
(* for their approval, subscribe to the live feed of a ledger, and follow  *)
(* the page tokens of listings, with the import of what was exported.      *)
(* These share no state but the committed rows, which each part inserts    *)
(* for itself: a behaviour checked here runs one part while the others     *)
(* stand at their start, where nothing is owed.                            *)
(***************************************************************************)
EXTENDS MCApprovals, MCSubscriptions, MCTransfer

VARIABLE part

clientVars == <<part, approvalVars, feedVars, transferVars>>

ClientsInit ==
    /\ part \in {"approvals", "feed", "transfer"}
    /\ ApprovalsInit /\ FeedInit /\ TransferInit
    /\ part # "transfer" => table = "log"

ClientsNext ==
    /\ UNCHANGED part
    /\ \/ part = "approvals" /\ ApprovalsNext /\ UNCHANGED <<feedVars, transferVars>>
       \/ part = "feed" /\ FeedNext /\ UNCHANGED <<approvalVars, transferVars>>
       \/ part = "transfer" /\ TransferNext /\ UNCHANGED <<approvalVars, feedVars>>

\* Of the feed nothing is assumed, a reader that has a page asks for the next.
ClientsFairness ==
    \/ part = "approvals" /\ ApprovalsFairness
    \/ part # "approvals" /\ WF_transferVars(NextPage)

ClientsSpec == ClientsInit /\ [][ClientsNext]_clientVars /\ ClientsFairness
=============================================================================
