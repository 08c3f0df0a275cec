------------------------------ MODULE Messages ------------------------------
(***************************************************************************)
(* The messages of the protocol (proto/ledger/v1, generated into           *)
(* pkg/proto/ledger/v1) as the service and its clients use them.           *)
(*                                                                         *)
(* A string in which a colon means something is the sequence of the parts  *)
(* between its colons: `users:1' is <<"users", "1">>, the empty string is  *)
(* << >>.  So are accounts, amounts and assets.  Fields that no decision   *)
(* depends on are left out.                                                *)
(***************************************************************************)
EXTENDS Integers, Sequences

CONSTANTS
    Parts,      \* parts of strings
    Segments,   \* those that are a segment of an address
    Numerals,   \* those that are a number: a function to its value
    Assets,     \* those that are an asset
    Ids,        \* IDs of holds and transactions
    Ledgers,    \* IDs of ledgers
    Keys        \* idempotency keys

Text == Seq(Parts)
NoText == << >>

\* A field that was left out.
None == ""

\* accounts.Validate, assets.Validate and big.Int.SetString.
ValidAccount(s) == s # NoText /\ \A i \in DOMAIN s : s[i] \in Segments
ValidAsset(s) == Len(s) = 1 /\ s[1] \in Assets
IsNumeral(s) == Len(s) = 1 /\ s[1] \in DOMAIN Numerals
Positive(s) == IsNumeral(s) /\ Numerals[s[1]] > 0

-----------------------------------------------------------------------------

Posting == [source : Text, destination : Text, amount : Text, asset : Text]
PostOperation == [op : {"post"}, postings : Seq(Posting)]
AuthorizeOperation == [op : {"authorize"}, source : Text, hint : Text, asset : Text,
                       amount : Text, expires : BOOLEAN]
CaptureOperation == [op : {"capture"}, hold : Ids \cup {None}, amount : Text, destination : Text]
VoidOperation == [op : {"void"}, hold : Ids \cup {None}]
ConvertOperation == [op : {"convert"}, source : Text, destination : Text,
                     source_amount : Text, source_asset : Text,
                     destination_amount : Text, destination_asset : Text,
                     slippage_account : Text, slippage_amount : Text]
RevertOperation == [op : {"revert"}, tx : Ids, force : BOOLEAN]
AmendOperation == [op : {"amend"}, tx : Ids]
SetMetadataOperation == [op : {"set_metadata"}, target_type : {"account", "transaction"}, target : Text]
DeleteMetadataOperation == [op : {"delete_metadata"}, target_type : {"account", "transaction"}, target : Text]
InsertSchemaOperation == [op : {"insert_schema"}]

\* What an Intent may hold, and what an Intent in a batch may.
Operation ==
    PostOperation \cup AuthorizeOperation \cup CaptureOperation \cup VoidOperation
        \cup ConvertOperation \cup RevertOperation \cup AmendOperation
        \cup SetMetadataOperation \cup DeleteMetadataOperation \cup InsertSchemaOperation
Mode == {"ALL_OR_NOTHING", "BEST_EFFORT", "CHECKPOINTED"}
Nested == [key : Keys \cup {None}, operation : Operation]
BatchOperation == [op : {"batch"}, mode : Mode, intents : Seq(Nested)]

Intent == [ledger : Ledgers \cup {None}, key : Keys \cup {None}, dry_run : BOOLEAN,
           operation : Operation \cup BatchOperation]

-----------------------------------------------------------------------------
(***************************************************************************)
(* The methods of the service, and which of them are streams.              *)
(***************************************************************************)
Unary ==
    {"CreateLedger", "GetLedger", "ListLedgers", "SealLedger", "Submit", "GetTransaction",
     "ListTransactions", "GetAccount", "ListAccounts", "GetBalance", "GetAggregatedBalances",
     "GetHold", "ListHolds", "GetRelationships", "ListLogEvents", "GetLogEvent", "VerifyBatch",
     "InsertSchema", "GetSchema", "SubmitForApproval", "ApproveIntent", "ListPendingApprovals"}
Streams == {"Subscribe", "Export", "Import"}
Methods == Unary \cup Streams

\* Answers: those of Submit say which event was written or found, whether it
\* was found, the ID of what was made, and the results of a batch.
Codes ==
    {"OK", "InvalidArgument", "NotFound", "AlreadyExists", "PermissionDenied", "ResourceExhausted",
     "FailedPrecondition", "Aborted", "Unimplemented", "Internal", "Unavailable", "Unauthenticated"}
SubmitResponse(Events) ==
    [code : Codes, event : Events, hit : BOOLEAN, id : BOOLEAN, results : Seq(Events)]

=============================================================================
