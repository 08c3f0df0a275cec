----------------------------- MODULE MCMetadata -----------------------------
(***************************************************************************)
(* An instance of Metadata: two accounts, three charts.                    *)
(***************************************************************************)
EXTENDS Metadata, TLC

MCVariables == {"$x", "$y"}

Leaf(self, pattern) == [children |-> << >>, self |-> self, pattern |-> pattern]
Segments == {"bank", "user", "1", "main"}

\* bank | user:$x(1)[:main], with or without .self at $x.
Chart(self) ==
    [bank |-> Leaf(TRUE, {}),
     user |-> [children |-> "$x" :> [children |-> [main |-> Leaf(FALSE, {})],
                                     self |-> self, pattern |-> {"1"}],
               self |-> FALSE, pattern |-> {}]]

\* user:$x | user:$y:main: two variables take the same segment.
Overlapping ==
    [user |-> [children |-> "$x" :> Leaf(TRUE, Segments)
                         @@ "$y" :> [children |-> [main |-> Leaf(FALSE, {})],
                                     self |-> FALSE, pattern |-> Segments],
               self |-> FALSE, pattern |-> {}]]

MCCharts == {Chart(TRUE), Chart(FALSE), Overlapping}
MCAccounts == {<<"bank">>, <<"user", "1">>}
MCAddresses == MCAccounts \cup {<<"user">>, <<"user", "1", "main">>, <<"user", "main">>,
                                <<"user", "main", "main">>, <<"bank", "main">>, <<"main">>}

=============================================================================
