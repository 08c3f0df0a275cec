------------------------------ MODULE MCBalances ------------------------------
(***************************************************************************)
(* Instances of Balances for TLC.                                          *)
(***************************************************************************)
EXTENDS BalancesInvariant, TLC

CONSTANTS world, u1, u2, usd, eur

PostOne(src, dst, amount) ==
    [op |-> "post", postings |-> <<[source |-> src, destination |-> dst,
                                    asset |-> usd, amount |-> amount]>>]

ConvertTo(dst, amount, slippage, slippageAccount) ==
    [op |-> "convert", source |-> u1, destination |-> dst, sourceAsset |-> usd,
     destAsset |-> eur, sourceAmount |-> amount, destAmount |-> 2,
     slippage |-> slippage, slippageAccount |-> slippageAccount]

AuthorizeFor(hint, amount) ==
    [op |-> "authorize", source |-> u1, hint |-> hint, asset |-> usd, amount |-> amount]

CaptureOf(h, amount, dst) ==
    [op |-> "capture", hold |-> h, amount |-> amount, destination |-> dst]

Close(how, h) == [op |-> how, hold |-> h]

RevertOf(n, force) == [op |-> "revert", tx |-> n, force |-> force]

Submit(op) == [mode |-> "submit", ops |-> <<op>>]

Batch(ops) == [mode |-> "batch", ops |-> ops]

Sweep(h) == [mode |-> "sweep", ops |-> <<Close("expire", h)>>]

\* u1 has received 3 usd and a hold reserves 2 of them.
OneHold == <<PostOne(world, u1, 3), AuthorizeFor(u2, 2)>>

\* u1 has received 1 usd.
Funded == <<PostOne(world, u1, 1)>>

\* Everything that competes for the hold, the money behind it and the ledger's row.
HoldRequests ==
    {Submit(CaptureOf(1, 2, NoAccount)), Submit(Close("void", 1)), Sweep(1),
     Batch(<<PostOne(u1, u2, 1), CaptureOf(1, 1, u2)>>),
     Batch(<<CaptureOf(1, 1, u2), Close("void", 1)>>),
     Submit(RevertOf(1, TRUE))}

\* The only coin is spent or reserved.
SpendRequests == {Submit(PostOne(u1, u2, 1)), Submit(AuthorizeFor(u2, 1))}

\* These, spending, converting and reverting, and reserving what has just come in.
CompetingRequests ==
    HoldRequests \cup {Submit(PostOne(u1, u2, 1)), Submit(ConvertTo(world, 1, 1, u2)),
                      Submit(RevertOf(2, FALSE)),
                      Batch(<<PostOne(world, u1, 1), AuthorizeFor(u2, 2)>>)}

=============================================================================
