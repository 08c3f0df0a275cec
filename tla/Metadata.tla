------------------------------ MODULE Metadata ------------------------------
(***************************************************************************)
(* Metadata of accounts and transactions, its history, the relationships   *)
(* of transactions and the ledger's schema (operations_metadata.go,        *)
(* operations_schema.go, the do*InTx of operations_shared.go, and the      *)
(* tables accounts, transactions, metadata_history,                        *)
(* transaction_relationships and schemas).                                 *)
(*                                                                         *)
(* Appending its event an operation takes the ledger's row and holds it    *)
(* until it commits (WritePath): what follows is one after the other, and  *)
(* one action is one committed transaction.  A revert and an amendment     *)
(* read their original before that, in a step of its own.  Amounts are     *)
(* Balances' subject; idempotency is WritePath's.                          *)
(*                                                                         *)
(* Metadata is a jsonb column and is modelled as one: null, an object or   *)
(* an array, with the operators || and - of the database.                  *)
(***************************************************************************)
EXTENDS ChartOfAccounts

CONSTANTS
    Accounts,       \* accounts that are posted to
    Addresses,      \* addresses the chart is asked about
    Keys, Values,   \* of metadata objects
    Charts,         \* schema documents
    Versions,       \* schema versions
    ActiveVersion,  \* the ledger's schema_version feature, or ""
    Mode,           \* its enforcement: "strict", "best_effort" or "disabled"
    MaxLog,         \* bound on the log
    MaxTxs,         \* bound on the transactions
    MaxReads        \* bound on the originals read ahead

ASSUME MetadataAssumption ==
    /\ Mode \in {"strict", "best_effort", "disabled"}
    /\ {MaxLog, MaxTxs, MaxReads} \subseteq Nat
    /\ IsFiniteSet(Accounts) /\ IsFiniteSet(Keys)
    /\ \A a \in Addresses : a \in Seq(STRING)

VARIABLES
    log,        \* events: what they say of metadata
    accounts,   \* metadata of the accounts that exist
    txs,        \* transactions: metadata, accounts, metadata at birth (history)
    history,    \* rows of metadata_history, in the order of insertion
    rels,       \* transaction_relationships
    originals,  \* originals that transactions still to take the row have read
    schemas     \* rows of schemas: the documents as stored

vars == <<log, accounts, txs, history, rels, originals, schemas>>

(***************************************************************************)
(* jsonb.                                                                  *)
(***************************************************************************)
Null == [kind |-> "null"]
Object(f) == [kind |-> "object", fields |-> f]
Array(s) == [kind |-> "array", items |-> s]
NoFields == [k \in {} |-> k]
Empty == Object(NoFields)

Objects == {Object(f) : f \in UNION {[K -> Values] : K \in SUBSET Keys}}

\* An object's fields with those of another written over them.
Over(g, f) == [k \in DOMAIN f \cup DOMAIN g |-> IF k \in DOMAIN g THEN g[k] ELSE f[k]]

Items(j) == IF j.kind = "array" THEN j.items ELSE <<j>>

\* j || k: objects are merged, anything else is put in an array.
Concat(j, k) ==
    IF j.kind = "object" /\ k.kind = "object"
    THEN Object(Over(k.fields, j.fields))
    ELSE Array(Items(j) \o Items(k))

Without(f, key) == [l \in DOMAIN f \ {key} |-> f[l]]

\* j - key: an error for null; the arrays that occur hold no strings.
CanMinus(j) == j.kind # "null"
Minus(j, key) == IF j.kind = "object" THEN Object(Without(j.fields, key)) ELSE j

\* json.Unmarshal into a map: null gives the empty one, an array is an error.
Readable(j) == j.kind # "array"
Fields(j) == IF j.kind = "object" THEN j.fields ELSE NoFields

(***************************************************************************)
(* The store.                                                              *)
(***************************************************************************)
TxTarget(t) == [type |-> 1, id |-> t]
AccountTarget(a) == [type |-> 0, id |-> a]

\* UpsertAccount for a set of accounts.
UpsertAccount(A, meta) ==
    [a \in DOMAIN accounts \cup A |->
        IF a \notin A THEN accounts[a]
        ELSE IF a \in DOMAIN accounts THEN Concat(accounts[a], meta) ELSE meta]

\* InsertTransaction.
InsertTransaction(meta, src, dst) ==
    Append(txs, [meta |-> meta, src |-> src, dst |-> dst, born |-> meta])

\* UpdateTransactionMetadata, with its error for a transaction that is not there.
UpdateTransactionMetadata(t, meta) ==
    t \in DOMAIN txs /\ txs' = [txs EXCEPT ![t].meta = Concat(@, meta)]

\* Mutant: the key stays.
KeepsTransactionKey(t, key) == UNCHANGED txs

\* DeleteTransactionMetadataKey; a transaction that is not there is ignored.
DeleteTransactionMetadataKey(t, key) ==
    IF t \in DOMAIN txs
    THEN CanMinus(txs[t].meta) /\ txs' = [txs EXCEPT ![t].meta = Minus(@, key)]
    ELSE UNCHANGED txs

\* InsertMetadataHistory: (target, revision) is the primary key.
HistoryRow(target, revision, meta) == [target |-> target, revision |-> revision, meta |-> meta]
InsertMetadataHistory(target, revision, meta) ==
    /\ \A i \in DOMAIN history : ~(history[i].target = target /\ history[i].revision = revision)
    /\ history' = Append(history, HistoryRow(target, revision, meta))

\* appendEvent: the event's ledger_seq is its place in the log.
NextSeq == Len(log) + 1
AppendEvent(type, target, data) ==
    /\ Len(log) < MaxLog
    /\ log' = Append(log, [type |-> type, target |-> target, data |-> data])

(***************************************************************************)
(* Schemas.                                                                *)
(***************************************************************************)

\* InsertSchema marshals the document's bytes, which makes them a string, and
\* GetSchema unmarshals what is stored, which is that string.
StoredDocument(chart) == [type |-> "string", chart |-> chart]

\* validatePostingsAgainstSchema: the verdicts it may give.  A document that
\* does not come back as bytes stops a strict ledger and is skipped otherwise.
SchemaAllows(src, dst) ==
    IF Mode = "disabled" \/ ActiveVersion \notin DOMAIN schemas THEN {TRUE}
    ELSE LET doc == schemas[ActiveVersion] IN
         IF doc.type # "bytes" THEN {Mode # "strict"}
         ELSE {ok \/ Mode # "strict" : ok \in ValidatePosting(doc.chart, src, dst)}

SubmitInsertSchema(version, chart) ==
    /\ version \notin DOMAIN schemas
    /\ AppendEvent("SchemaInserted", AccountTarget(<<>>), chart)
    /\ schemas' = [v \in DOMAIN schemas \cup {version} |->
                      IF v = version THEN StoredDocument(chart) ELSE schemas[v]]
    /\ UNCHANGED <<accounts, txs, history, rels, originals>>

(***************************************************************************)
(* Operations.                                                             *)
(***************************************************************************)

\* doPostInTx.  A post without metadata stores null; one with metadata, and
\* only with some, has a first row of history.
SubmitPost(src, dst, meta) ==
    /\ Len(txs) < MaxTxs
    /\ TRUE \in SchemaAllows(src, dst)
    /\ AppendEvent("TransactionPosted", TxTarget(Len(txs) + 1), meta)
    /\ txs' = InsertTransaction(meta, src, dst)
    /\ IF Fields(meta) # NoFields
       THEN InsertMetadataHistory(TxTarget(Len(txs) + 1), 0, meta)
       ELSE UNCHANGED history
    /\ accounts' = UpsertAccount({src, dst}, Empty)
    /\ UNCHANGED <<rels, originals, schemas>>

\* What doRevertInTx and doAmendInTx read before they append their event: the
\* original, and for a revert whether it is reverted already.
FindOriginal(operation, t) ==
    /\ Cardinality(originals) < MaxReads
    /\ t \in DOMAIN txs /\ Readable(txs[t].meta)
    /\ operation = "revert" => \A r \in rels : ~(r.type = "reverts" /\ r.parent = t)
    /\ originals' = originals \cup {<<operation, t>>}
    /\ UNCHANGED <<log, accounts, txs, history, rels, schemas>>

\* An operation goes on with what it read, however long ago; others that read
\* the same may still follow.
HasRead(operation, t) ==
    /\ <<operation, t>> \in originals
    /\ originals' \in {originals, originals \ {<<operation, t>>}}

\* doRevertInTx: a new transaction the other way round, with metadata of its
\* own and no history, linked to the one it reverts.
SubmitRevert(t) ==
    LET new == Len(txs) + 1 IN
    /\ HasRead("revert", t)
    /\ Len(txs) < MaxTxs
    /\ AppendEvent("TransactionReverted", TxTarget(new), Empty)
    /\ txs' = InsertTransaction(Empty, txs[t].dst, txs[t].src)
    /\ accounts' = UpsertAccount({txs[t].src, txs[t].dst}, Empty)
    /\ rels' = rels \cup {[parent |-> t, child |-> new, type |-> "reverts"]}
    /\ UNCHANGED <<history, schemas>>

\* doAmendInTx.  The child of the relationship is the event, written as its
\* negated ledger_seq.
SubmitAmend(t, changes) ==
    /\ HasRead("amend", t)
    /\ AppendEvent("TransactionAmended", TxTarget(t), changes)
    /\ UpdateTransactionMetadata(t, changes)
    /\ InsertMetadataHistory(TxTarget(t), NextSeq, changes)
    /\ rels' = rels \cup {[parent |-> t, child |-> -NextSeq, type |-> "amends"]}
    /\ UNCHANGED <<accounts, schemas>>

\* doSetMetadataInTx.
SubmitSetMetadata(target, meta) ==
    /\ AppendEvent("MetadataSet", target, meta)
    /\ \/ target.type = 0 /\ accounts' = UpsertAccount({target.id}, meta) /\ UNCHANGED txs
       \/ target.type = 1 /\ UpdateTransactionMetadata(target.id, meta) /\ UNCHANGED accounts
    /\ InsertMetadataHistory(target, NextSeq, meta)
    /\ UNCHANGED <<rels, originals, schemas>>

\* doDeleteMetadataInTx on an account: the row is read, the key deleted from
\* the copy, and the copy merged into the row.  History gets the row after that.
DeleteAccountMetadata(a, key) ==
    LET target == AccountTarget(a) IN
    /\ AppendEvent("MetadataDeleted", target, key)
    /\ accounts' = IF a \in DOMAIN accounts
                   THEN UpsertAccount({a}, Object(Without(Fields(accounts[a]), key)))
                   ELSE accounts
    /\ InsertMetadataHistory(target, NextSeq, IF a \in DOMAIN accounts THEN accounts'[a] ELSE Empty)
    /\ UNCHANGED <<txs, rels, originals, schemas>>

\* Mutant: history gets the row as it was before.
SnapshotsTooEarly(t, key) ==
    LET target == TxTarget(t) IN
    /\ AppendEvent("MetadataDeleted", target, key)
    /\ DeleteTransactionMetadataKey(t, key)
    /\ InsertMetadataHistory(target, NextSeq, IF t \in DOMAIN txs THEN txs[t].meta ELSE Empty)
    /\ UNCHANGED <<accounts, rels, originals, schemas>>

\* doDeleteMetadataInTx on a transaction: the row after that is read again, and
\* a row that cannot be read fails the operation.
DeleteTransactionMetadata(t, key) ==
    LET target == TxTarget(t) IN
    /\ AppendEvent("MetadataDeleted", target, key)
    /\ DeleteTransactionMetadataKey(t, key)
    /\ t \in DOMAIN txs => Readable(txs[t].meta)
    /\ InsertMetadataHistory(target, NextSeq, IF t \in DOMAIN txs THEN txs'[t].meta ELSE Empty)
    /\ UNCHANGED <<accounts, rels, originals, schemas>>

Init ==
    /\ log = <<>>
    /\ accounts = << >>
    /\ txs = <<>>
    /\ history = <<>>
    /\ rels = {}
    /\ originals = {}
    /\ schemas = << >>

\* IDs a caller may name: those of the transactions there are, and 0 for one
\* that is not there.  (An ID that is still to be made is a ULID no one knows.)
TxIds == DOMAIN txs \cup {0}

Next ==
    \/ \E src, dst \in Accounts, meta \in Objects \cup {Null} : src # dst /\ SubmitPost(src, dst, meta)
    \/ \E t \in TxIds, operation \in {"revert", "amend"} : FindOriginal(operation, t)
    \/ \E t \in DOMAIN txs : SubmitRevert(t)
    \/ \E t \in DOMAIN txs, changes \in Objects : SubmitAmend(t, changes)
    \/ \E target \in {AccountTarget(a) : a \in Accounts} \cup {TxTarget(t) : t \in TxIds},
          meta \in Objects : SubmitSetMetadata(target, meta)
    \/ \E a \in Accounts, key \in Keys : DeleteAccountMetadata(a, key)
    \/ \E t \in TxIds, key \in Keys : DeleteTransactionMetadata(t, key)
    \/ \E version \in Versions, chart \in Charts : SubmitInsertSchema(version, chart)

Spec == Init /\ [][Next]_vars

(***************************************************************************)
(* Relationships.                                                          *)
(***************************************************************************)

\* Mutant: the recursion also follows the other children of a parent.
FollowsSiblings(chain) ==
    chain \cup {r \in rels : \E c \in chain : r.parent \in {c.child, c.parent} \/ r.child = c.parent}

\* One round of the recursive query: down from the children, up from the parents.
Chain(chain) ==
    chain \cup {r \in rels : \E c \in chain : r.parent = c.child \/ r.child = c.parent}

\* What a recursive query has found after each of its rounds.
Rounds(step, start) ==
    LET found[n \in Nat] == IF n = 0 THEN start ELSE step[found[n - 1]]
    IN  found

\* GetRelationships, depth between 1 and 100.
GetRelationships(t, depth) ==
    Rounds([chain \in SUBSET rels |-> Chain(chain)],
           {r \in rels : r.parent = t \/ r.child = t})[(IF depth <= 0 THEN 1 ELSE depth) - 1]

-----------------------------------------------------------------------------
(***************************************************************************)
(* Properties.                                                             *)
(***************************************************************************)

Json == Objects \cup {Null}

\* Every variable has its type; arrays occur in transactions only.
TypeOK ==
    /\ Len(log) <= MaxLog
    /\ DOMAIN accounts \subseteq Accounts
    /\ \A a \in DOMAIN accounts : accounts[a] \in Objects
    /\ Len(txs) <= MaxTxs
    /\ \A t \in DOMAIN txs : /\ txs[t].meta \in Json \/ txs[t].meta.kind = "array"
                             /\ {txs[t].src, txs[t].dst} \subseteq Accounts
    /\ \A i \in DOMAIN history : history[i].revision \in 0..MaxLog
    /\ DOMAIN schemas \subseteq Versions

\* What a transaction's metadata should be after an event of the log.
AfterEvent(f, e, t) ==
    IF e.target # TxTarget(t) THEN f
    ELSE IF e.type = "MetadataDeleted" THEN Without(f, e.data)
    ELSE IF e.type \in {"TransactionPosted", "TransactionReverted"} THEN Fields(e.data)
    ELSE Over(e.data.fields, f)

\* What it should be after each event.
AsLogged(l, t) ==
    LET after[n \in 0..Len(l)] == IF n = 0 THEN NoFields ELSE AfterEvent(after[n - 1], l[n], t)
    IN  after

\* The metadata of a transaction that was posted with metadata is what the log
\* says of it, deletions included (InsertTransaction, UpdateTransactionMetadata,
\* DeleteTransactionMetadataKey).
TransactionsFollowLog ==
    \A t \in DOMAIN txs : txs[t].born # Null => txs[t].meta = Object(AsLogged(log, t)[Len(log)])

\* An amendment is an overlay: a transaction that has just been amended can be
\* read, whatever it was posted with, and its metadata is what the log says of
\* it (doAmendInTx: "overlays metadata").  The code does not keep it: a
\* transaction posted without metadata has null, and null || object is an array.
AmendmentsOverlay ==
    \A t \in DOMAIN txs : \A n \in {Len(log)} \ {0} :
        (log[n].type = "TransactionAmended" /\ log[n].target = TxTarget(t)) =>
            /\ Readable(txs[t].meta)
            /\ Fields(txs[t].meta) = AsLogged(log, t)[n]

\* The metadata that a target's history makes of the one it was created with:
\* a row of a deletion is the whole of it, any other a change.
AfterRow(j, row, target, l) ==
    IF row.target # target \/ row.revision = 0 THEN j
    ELSE IF l[row.revision].type = "MetadataDeleted" THEN row.meta
    ELSE Concat(j, row.meta)

Rebuilt(h, l, target, start) ==
    LET after[n \in 0..Len(h)] ==
            IF n = 0 THEN start ELSE AfterRow(after[n - 1], h[n], target, l)
    IN  after

FromHistory(target, start) == Rebuilt(history, log, target, start)[Len(history)]

MetadataEvents == {"MetadataSet", "MetadataDeleted", "TransactionAmended"}

TransactionsRebuilt ==
    \A t \in DOMAIN txs : FromHistory(TxTarget(t), txs[t].born) = txs[t].meta
AccountsRebuilt ==
    \A a \in DOMAIN accounts : FromHistory(AccountTarget(a), Empty) = accounts[a]
EventsHaveRows ==
    \A i \in DOMAIN log : log[i].type \in MetadataEvents =>
        \E h \in DOMAIN history : history[h].target = log[i].target /\ history[h].revision = i
RevisionsGrow ==
    \A g, h \in DOMAIN history :
        (g < h /\ history[g].target = history[h].target) => history[g].revision < history[h].revision

\* The history is complete and exact: it gives back the metadata of every
\* transaction and account (for an account a deletion changes neither), every
\* event about metadata has its row under its own ledger_seq, and revisions of
\* a target grow, so that the primary key of metadata_history never refuses an
\* operation (InsertMetadataHistory in every do*InTx).
HistoryRebuilds == TransactionsRebuilt /\ AccountsRebuilt /\ EventsHaveRows /\ RevisionsGrow

\* Edges on the ways down from t, and up, of at most n edges.
Down(t, n) ==
    Rounds([E \in SUBSET rels |-> {r \in rels : r.parent = t \/ \E e \in E : r.parent = e.child}],
           {})[n]
Up(t, n) ==
    Rounds([E \in SUBSET rels |-> {r \in rels : r.child = t \/ \E e \in E : r.child = e.parent}],
           {})[n]

\* The way up from t, and from everything on it that has a parent the ways down,
\* one edge less deep for every edge up.
Lineage(t, depth) ==
    Down(t, depth) \cup Up(t, depth) \cup
    UNION {UNION {Down(q.child, depth - k) : q \in Up(t, k)} : k \in 1..depth}

\* GetRelationships gives the line of a transaction to the depth asked for: what
\* descends from it and what it descends from.  It also turns round: what
\* descends from an ancestor that is itself a child comes in too, one edge
\* less deep for every edge up and one for the turn.
RelationshipsAreLineage ==
    \A t \in DOMAIN txs, depth \in 1..4 : GetRelationships(t, depth) = Lineage(t, depth)

\* A chart that was stored admits only addresses on one of its paths, and its
\* verdict on an address that no two names of a level match is the right one;
\* other verdicts depend on the order of a map (validateSegments, matchNode).
ChartIsExact ==
    \A v \in DOMAIN schemas, a \in Addresses :
        LET chart == schemas[v].chart  verdicts == ValidateAccount(chart, a) IN
        /\ TRUE \in verdicts => OnChart(chart, a)
        /\ ~Ambiguous(chart, a) => verdicts = {OnChart(chart, a)}

=============================================================================
