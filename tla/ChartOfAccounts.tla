-------------------------- MODULE ChartOfAccounts --------------------------
(***************************************************************************)
(* The chart of accounts (internal/ir/schema.go): a tree whose nodes are   *)
(* named by a literal segment or by a variable, and the walk of an address *)
(* through it.                                                             *)
(*                                                                         *)
(* An address is a sequence of segments.  A node is a record: `children',  *)
(* a function from names to nodes; `self', whether it says .self; and      *)
(* `pattern', the segments its regular expression matches (all of them     *)
(* when it has none).  Names are strings; Variables are those that begin   *)
(* with a $.                                                               *)
(***************************************************************************)
EXTENDS Integers, Sequences, FiniteSets

CONSTANT Variables

\* parseNode: a node that says nothing about children is a leaf.
IsLeaf(node) == node.self \/ DOMAIN node.children = {}

\* The node of a chart above its first level.
Root(chart) == [children |-> chart, self |-> FALSE, pattern |-> {}]

\* Mutant: a variable takes the segment whatever its pattern says.
IgnoresPattern(node, seg) ==
    LET nodes == node.children  vars == DOMAIN nodes \cap Variables IN
    IF seg \in DOMAIN nodes THEN {{nodes[seg]}}
    ELSE IF vars = {} THEN {{}} ELSE {{nodes[k]} : k \in vars}

\* validateSegments, one segment further: at the literal child if there is one,
\* else at a variable child whose pattern matches (the first one in the order of
\* a map, which is any), else nowhere.
Next1(node, seg) ==
    LET nodes == node.children
        vars  == {k \in DOMAIN nodes \cap Variables : seg \in nodes[k].pattern}
    IN  IF seg \in DOMAIN nodes THEN {{nodes[seg]}}
        ELSE IF vars = {} THEN {{}}
        ELSE {{nodes[k]} : k \in vars}

\* A walk that is nowhere has failed and stays there.
Onward(at, seg) == IF at = {} THEN {{}} ELSE UNION {Next1(n, seg) : n \in at}

AllOnward(walks, seg) == UNION {Onward(at, seg) : at \in walks}

\* Where the walk of an address may be after each of its segments: sets that
\* hold a node or nothing.
Walk(chart, address) ==
    LET walk[i \in 0..Len(address)] ==
            IF i = 0 THEN {{Root(chart)}} ELSE AllOnward(walk[i - 1], address[i])
    IN  walk

\* matchNode at the end of the address.
Ends(at) == \E n \in at : IsLeaf(n)

\* ValidateAccount: the verdicts it may give.  A chart without nodes admits all.
ValidateAccount(chart, address) ==
    IF DOMAIN chart = {} THEN {TRUE}
    ELSE {Ends(at) : at \in Walk(chart, address)[Len(address)]}

\* ValidatePosting.
ValidatePosting(chart, source, destination) ==
    {x /\ y : x \in ValidateAccount(chart, source), y \in ValidateAccount(chart, destination)}

(***************************************************************************)
(* The reference: the chart names the paths from its roots to its leaves,  *)
(* and an address is on the chart when some path matches it.               *)
(***************************************************************************)
Names(node, seg) ==
    {l \in DOMAIN node.children : l = seg \/ (l \in Variables /\ seg \in node.children[l].pattern)}

Matching(nodes, seg) == UNION {{n.children[l] : l \in Names(n, seg)} : n \in nodes}

\* The nodes that the paths matching the first i segments lead to.
Matched(chart, address) ==
    LET nodes[i \in 0..Len(address)] ==
            IF i = 0 THEN {Root(chart)} ELSE Matching(nodes[i - 1], address[i])
    IN  nodes

OnChart(chart, address) ==
    DOMAIN chart = {} \/ \E n \in Matched(chart, address)[Len(address)] : IsLeaf(n)

\* Two names of a level match the same segment.
Ambiguous(chart, address) ==
    \E i \in 1..Len(address) : \E n \in Matched(chart, address)[i - 1] :
        \E k, l \in Names(n, address[i]) : k # l

=============================================================================
