------------------------------ MODULE MCService ------------------------------
(***************************************************************************)
(* Two calls from a set of requests that has every method that writes and  *)
(* every operation, the tokens and the policies that tell them apart.      *)
(***************************************************************************)
EXTENDS Service

MCLedgers == {"l1", "l2"}
MCSegments == {"bank", "users", "1", "7"}
MCNumerals == [p \in {"0", "1", "7"} |-> CASE p = "0" -> 0 [] p = "1" -> 1 [] p = "7" -> 7]
MCAssets == {"USD", "EUR"}
MCParts == MCSegments \cup {"0", "USD", "EUR", "bad account", "alice", "bob", "*", "all",
                            "post", "convert", "ip", "peer"}

Alice == [bearer |-> TRUE, verifies |-> TRUE, sub |-> <<"alice">>, claim |-> {"l1"}]
Admin == [bearer |-> TRUE, verifies |-> TRUE, sub |-> <<"bob">>, claim |-> {"*", "l1"}]
Expired == [Alice EXCEPT !.verifies = FALSE]

Bank == <<"bank">>
User == <<"users", "1">>
Pay(amount) == SubmitTransaction(<<[source |-> Bank, destination |-> User,
                                    amount |-> <<amount>>, asset |-> <<"USD">>]>>)
Swap == SubmitConvertCmd(Bank, Bank, <<"1">>, <<"USD">>, <<"7">>, <<"EUR">>)
Slipping == Convert([Swap EXCEPT !.slippage_account = User, !.slippage_amount = <<"1">>])
Nest(key, operation) == [key |-> key, operation |-> operation]
Batch(mode, items) == [op |-> "batch", mode |-> mode, intents |-> items]

Ask(token, intent) ==
    [method |-> "Submit", token |-> token, ledger |-> intent.ledger, intent |-> intent]
Call(method, token, ledger) ==
    [method |-> method, token |-> token, ledger |-> ledger, intent |-> NoIntent]

KeyedBy(token, o) == Ask(token, Intend("l1", "k", FALSE, o))

MCRequests ==
    {KeyedBy(Alice, Pay("1")),
     KeyedBy(Alice, Slipping),
     KeyedBy(Admin, Swap),
     KeyedBy(Alice, Batch("ALL_OR_NOTHING", <<Nest("k", Pay("1")), Nest("j", Void("h"))>>)),
     KeyedBy(Alice, Batch("ALL_OR_NOTHING", <<Nest("j", Void("h"))>>)),
     KeyedBy(Admin, Batch("BEST_EFFORT", <<Nest("k", Swap), Nest("j", Amend("t"))>>)),
     Ask(Alice, Intend("l1", "k", TRUE, Pay("1"))),
     Ask(Admin, Intend("l2", None, TRUE, SubmitSetMetadataCmd("account", User))),
     Ask(Alice, Intend("l1", None, FALSE, SubmitAuthorizeCmd(Bank, <<"1">>, <<"USD">>, NoText, FALSE))),
     Call("CreateLedger", Admin, "l2"), Call("SealLedger", Alice, "l1"), Call("Subscribe", Alice, "l1"),
     Call("GetLedger", Expired, "l1"), Call("GetLedger", Alice, "l1"), Call("GetBalance", Alice, "l2"), Call("GetTransaction", Alice, "l1"),
     Call("Check", NoToken, None)}

\* Nothing about holders of "alice" on users, everything, and a policy that
\* does not parse.
MCPolicies ==
    {<<[deny |-> TRUE, fields |-> <<<<"alice">>, <<"post">>, <<"users", "*">>>>]>>,
     <<[deny |-> TRUE, fields |-> <<<<"all">>>>]>>,
     <<[deny |-> FALSE, fields |-> <<<<"alice">>>>]>>}

\* Drafts of postings and conversions, well-formed and not.
DraftAccounts == {Bank, User, <<"bad account">>, NoText}
DraftAmounts == {<<"1">>, <<"0">>, <<"bad account">>}
DraftAssets == {<<"USD">>, <<"EUR">>, <<"USD", "1">>}
MCDrafts ==
    {[op |-> "post", postings |-> ps] :
        ps \in {<< >>} \cup {<<p>> : p \in [source : DraftAccounts, destination : DraftAccounts,
                                            amount : DraftAmounts, asset : DraftAssets]}}
    \cup [op : {"convert"}, source : DraftAccounts, destination : {Bank, NoText},
          source_amount : DraftAmounts, source_asset : DraftAssets,
          destination_amount : DraftAmounts, destination_asset : DraftAssets,
          slippage_account : {NoText}, slippage_amount : {NoText}]

\* Postings a user may mean, with accounts that look like amounts.
MCIntended ==
    [source : {Bank, User, <<"7">>, <<"users", "1", "7">>}, destination : {Bank, User, <<"1", "7">>},
     amount : {<<"1">>, <<"7">>}, asset : {<<"USD">>}]

=============================================================================
