------------------------------- MODULE Client -------------------------------
(***************************************************************************)
(* What clients send: the SDK (pkg/sdk), which checks an operation before  *)
(* it sends it, and ledgerctl (cmd/ledgerctl), which reads postings from   *)
(* the command line and leaves the checks to the server.                   *)
(*                                                                         *)
(* Every operator gives the operation it sends, or Rejected.               *)
(***************************************************************************)
EXTENDS Messages

Rejected == [op |-> "rejected"]

Checked(ok, operation) == IF ok THEN operation ELSE Rejected

-----------------------------------------------------------------------------
(***************************************************************************)
(* pkg/sdk                                                                 *)
(***************************************************************************)

\* Mutant: a posting from an account to itself, which the server takes, is
\* refused.
StricterPosting(p) ==
    /\ ValidAccount(p.source)
    /\ ValidAccount(p.destination)
    /\ p.source # p.destination
    /\ ValidAsset(p.asset)
    /\ Positive(p.amount)

ValidatePosting(p) ==
    /\ ValidAccount(p.source)
    /\ ValidAccount(p.destination)
    /\ ValidAsset(p.asset)
    /\ Positive(p.amount)

\* TransactionBuilder.Submit, after its calls of Post.
SubmitTransaction(postings) ==
    Checked(postings # << >> /\ \A i \in DOMAIN postings : ValidatePosting(postings[i]),
            [op |-> "post", postings |-> postings])

Authorize(source, asset, amount, hint) ==
    Checked(ValidAccount(source) /\ ValidAsset(asset) /\ Positive(amount),
            [op |-> "authorize", source |-> source, hint |-> hint, asset |-> asset,
             amount |-> amount, expires |-> TRUE])

Capture(hold, amount, destination) ==
    Checked(hold # None /\ Positive(amount) /\ (destination = NoText \/ ValidAccount(destination)),
            [op |-> "capture", hold |-> hold, amount |-> amount, destination |-> destination])

Void(hold) == Checked(hold # None, [op |-> "void", hold |-> hold])

Revert(tx, force) == [op |-> "revert", tx |-> tx, force |-> force]

Amend(tx) == [op |-> "amend", tx |-> tx]

\* params is a ConvertOperation.
Convert(params) ==
    Checked(/\ ValidAccount(params.source) /\ ValidAccount(params.destination)
            /\ ValidAsset(params.source_asset) /\ ValidAsset(params.destination_asset)
            /\ Positive(params.source_amount) /\ Positive(params.destination_amount)
            /\ params.slippage_amount # NoText =>
                  ValidAccount(params.slippage_account) /\ Positive(params.slippage_amount),
            params)

-----------------------------------------------------------------------------
(***************************************************************************)
(* ledgerctl submit: the flags of each command.  strings.SplitN cuts a     *)
(* posting at its first three colons only: the rest goes to the asset.     *)
(***************************************************************************)

ParsePosting(raw) ==
    [source |-> <<raw[1]>>, destination |-> <<raw[2]>>, amount |-> <<raw[3]>>,
     asset |-> SubSeq(raw, 4, Len(raw))]

ParsePostings(raws) == [i \in DOMAIN raws |-> ParsePosting(raws[i])]

SubmitPostCmd(raws) ==
    Checked(raws # << >> /\ \A i \in DOMAIN raws : Len(raws[i]) >= 4,
            [op |-> "post", postings |-> ParsePostings(raws)])

SubmitAuthorizeCmd(source, amount, asset, hint, expires) ==
    [op |-> "authorize", source |-> source, hint |-> hint, asset |-> asset,
     amount |-> amount, expires |-> expires]

SubmitCaptureCmd(hold, amount, destination) ==
    [op |-> "capture", hold |-> hold, amount |-> amount, destination |-> destination]

SubmitVoidCmd(hold) == [op |-> "void", hold |-> hold]

SubmitRevertCmd(tx, force) == [op |-> "revert", tx |-> tx, force |-> force]

SubmitAmendCmd(tx) == [op |-> "amend", tx |-> tx]

SubmitConvertCmd(source, destination, src_amount, src_asset, dst_amount, dst_asset) ==
    [op |-> "convert", source |-> source, destination |-> destination,
     source_amount |-> src_amount, source_asset |-> src_asset,
     destination_amount |-> dst_amount, destination_asset |-> dst_asset,
     slippage_account |-> NoText, slippage_amount |-> NoText]

SubmitSetMetadataCmd(target_type, target) ==
    Checked(target_type \in {"account", "transaction"},
            [op |-> "set_metadata", target_type |-> target_type, target |-> target])

SubmitDeleteMetadataCmd(target_type, target) ==
    Checked(target_type \in {"account", "transaction"},
            [op |-> "delete_metadata", target_type |-> target_type, target |-> target])

\* submitIntent, TransactionBuilder.Submit and applySubmitOptions: the intent
\* around the operation.
Intend(ledger, key, dry_run, operation) ==
    [ledger |-> ledger, key |-> key, dry_run |-> dry_run, operation |-> operation]

=============================================================================
