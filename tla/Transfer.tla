------------------------------ MODULE Transfer ------------------------------
(***************************************************************************)
(* Reading a table page by page while it grows (the List queries of        *)
(* internal/storage/postgres, Client.ListLedgers of pkg/sdk, the Export    *)
(* RPC), and moving an exported log into another deployment (the Import    *)
(* RPC).                                                                   *)
(*                                                                         *)
(* One reader follows the page tokens of one table, which is chosen at the *)
(* start.  A row is its key, the column the token is compared with, and a  *)
(* time.  Rows are inserted and never deleted; an approval may stop being  *)
(* pending.  In the table "log" the place of a row is its ledger_seq: it   *)
(* is what Export reads, and what it has read is what a client imports.    *)
(***************************************************************************)
EXTENDS Integers, Sequences, SequencesExt, FiniteSets

CONSTANTS
    Tables,           \* the tables that may be read
    RowKeys,          \* keys of rows, positive
    Times,            \* system_time of rows
    Scopes,           \* sets of ledgers a caller may see
    Sizes,            \* page sizes a client asks for
    DefaultPageSize,  \* page size when none is asked for
    MaxPageSize,      \* maxPageSize
    MaxRows,          \* bound on the rows
    Importers,        \* Import calls
    MaxImport         \* maxImportEventsPerCall

AllTables == {"ledgers", "accounts", "transactions", "holds", "approvals", "log"}

ASSUME TransferAssumption ==
    /\ Tables \subseteq AllTables
    /\ RowKeys \subseteq Nat \ {0} /\ Times \subseteq Nat
    /\ Sizes \subseteq Int
    /\ {DefaultPageSize, MaxPageSize, MaxRows, MaxImport} \subseteq Nat \ {0}
    /\ "writer" \notin Importers

VARIABLES
    table,      \* the table that is read
    rows,       \* its rows, in the order in which they were committed
    resolved,   \* approvals that are no longer pending
    reader,     \* the client that reads it
    target,     \* the log of the ledger that is restored
    sealed,     \* whether that ledger is sealed
    import,     \* the Import calls
    writer      \* a transaction that writes to that ledger

transferVars == <<table, rows, resolved, reader, target, sealed, import, writer>>

NoToken == 0    \* the empty token

(***************************************************************************)
(* The queries.  Each returns a page and the key of the row after it.      *)
(***************************************************************************)

\* The page size in use.
Limit(n) == IF n <= 0 THEN DefaultPageSize ELSE IF n > MaxPageSize THEN MaxPageSize ELSE n

\* One row more than the page is read: its key is the next token.
Page(sorted, limit) ==
    IF Len(sorted) > limit
    THEN [page |-> SubSeq(sorted, 1, limit), nextToken |-> sorted[limit + 1].key]
    ELSE [page |-> sorted, nextToken |-> NoToken]

\* ORDER BY a column: rank is its value in each row of S.
OrderBy(S, rank) ==
    CHOOSE s \in [1..Cardinality(S) -> S] :
        \A i, j \in 1..Cardinality(S) : i < j => rank[s[i]] < rank[s[j]]

ByKey(S) == OrderBy(S, [r \in S |-> r.key])

Rows == Range(rows)
After(token) == {r \in Rows : token = NoToken \/ r.key > token}

ListLedgers(token, n) == Page(ByKey(After(token)), Limit(n))
ListAccounts(token, n) == Page(ByKey(After(token)), Limit(n))
ListHolds(token, n) == Page(ByKey(After(token)), Limit(n))

\* Only pending ones; a page size that is too large becomes the default.
ListPendingApprovals(token, n) ==
    Page(ByKey({r \in After(token) : r.key \notin resolved}),
         IF n <= 0 \/ n > MaxPageSize THEN DefaultPageSize ELSE n)

\* Newest first by system_time, while the token is compared with the ID.
ListTransactions(token, n) ==
    Page(SetToSortSeq({r \in Rows : token = NoToken \/ r.key < token},
                      LAMBDA r, q : r.time > q.time \/ (r.time = q.time /\ r.key > q.key)),
         Limit(n))

\* In the order of ledger_seq, while the token is compared with the event ID.
LedgerSeq(r) == CHOOSE i \in 1..Len(rows) : rows[i] = r
ListLogEvents(token, n) ==
    Page(OrderBy(After(token), [r \in After(token) |-> LedgerSeq(r)]), Limit(n))

Query(token, n) ==
    CASE table = "ledgers" -> ListLedgers(token, n)
      [] table = "accounts" -> ListAccounts(token, n)
      [] table = "holds" -> ListHolds(token, n)
      [] table = "approvals" -> ListPendingApprovals(token, n)
      [] table = "transactions" -> ListTransactions(token, n)
      [] table = "log" -> ListLogEvents(token, n)

(***************************************************************************)
(* The table grows.                                                        *)
(***************************************************************************)

\* A row is inserted: keys come in any order, as transactions do not commit in
\* the order in which they make their IDs.  Rows that come after the reader
\* ended concern nobody; times matter to transactions only.
Insert(key, time) ==
    /\ reader.pc \in {"idle", "reading"}
    /\ Len(rows) < MaxRows
    /\ \A r \in Rows : r.key # key
    /\ rows' = Append(rows, [key |-> key, time |-> time])
    /\ UNCHANGED <<table, resolved, reader, target, sealed, import, writer>>

Resolve(key) ==
    /\ table = "approvals"
    /\ key \in {r.key : r \in Rows} \ resolved
    /\ resolved' = resolved \cup {key}
    /\ UNCHANGED <<table, rows, reader, target, sealed, import, writer>>

(***************************************************************************)
(* The reader: Client.ListLedgers, or the loop of Export.  `got' is what   *)
(* it has, `skipped' the tokens it followed, `first' the rows there were   *)
(* when it began (history).                                                *)
(***************************************************************************)

Begin(n, scope) ==
    /\ reader.pc = "idle"
    /\ reader' = [reader EXCEPT !.pc = "reading", !.size = n, !.scope = scope, !.first = Rows]
    /\ UNCHANGED <<table, rows, resolved, target, sealed, import, writer>>

\* Mutant: the loop forgets to follow the token.
SamePageAgain ==
    LET answer == Query(reader.token, reader.size) IN
    /\ reader.pc = "reading"
    /\ reader' = [reader EXCEPT !.pc = IF answer.nextToken = NoToken THEN "done" ELSE "reading"]
    /\ UNCHANGED <<table, rows, resolved, target, sealed, import, writer>>

\* One page.  ListLedgers leaves out the ledgers the caller may not see after
\* the page is cut; the loop ends without a token or with the one it had.
NextPage ==
    LET answer == Query(reader.token, reader.size)
        mine   == IF table = "ledgers"
                  THEN ByKey({r \in Range(answer.page) : r.key \in reader.scope})
                  ELSE answer.page
        last   == answer.nextToken \in {NoToken, reader.token}
    IN
    /\ reader.pc = "reading"
    /\ reader' = [reader EXCEPT !.got = @ \o mine,
                                !.token = answer.nextToken,
                                !.skipped = @ \cup ({answer.nextToken} \ {NoToken}),
                                !.pc = IF last THEN "done" ELSE "reading"]
    /\ UNCHANGED <<table, rows, resolved, target, sealed, import, writer>>

\* A query fails, or the stream breaks: the reader has what it has.
ReadFails ==
    /\ reader.pc = "reading"
    /\ reader' = [reader EXCEPT !.pc = "failed"]
    /\ UNCHANGED <<table, rows, resolved, target, sealed, import, writer>>

(***************************************************************************)
(* Import into an empty ledger of another deployment.                      *)
(***************************************************************************)

\* An exported event: its ID and its ledger_seq in the source.
Event(r) == [id |-> r.key, seq |-> LedgerSeq(r)]
Exported == [i \in 1..Len(reader.got) |-> Event(reader.got[i])]

\* A client sends what it exported, or a part of it.
SendImport(i, a, b) ==
    /\ table = "log" /\ reader.pc \in {"done", "failed"}
    /\ import[i].pc = "idle"
    /\ 1 <= a /\ a <= b /\ b <= Len(reader.got)
    /\ import' = [import EXCEPT ![i] = [pc |-> "open", stream |-> SubSeq(Exported, a, b),
                                        expectedSeq |-> 0, count |-> 0]]
    /\ UNCHANGED <<table, rows, resolved, reader, target, sealed, writer>>

Fails(i) == import' = [import EXCEPT ![i].pc = "failed"]

\* The first event of the ledger: the call goes on if the ledger is not sealed
\* and has no event.  `ok' is the verdict on the event's fields
\* (validateImportEvent), the policy and the batch manager.
ImportFirst(i, ok) ==
    /\ import[i].pc = "open" /\ import[i].stream # <<>> /\ import[i].expectedSeq = 0
    /\ IF ok /\ ~sealed /\ target = {}
       THEN import' = [import EXCEPT ![i].expectedSeq = 1]
       ELSE Fails(i)
    /\ UNCHANGED <<table, rows, resolved, reader, target, sealed, writer>>

\* The INSERT: event_id is the primary key and (ledger_id, ledger_seq) unique.
Free(e) == \A f \in target : f.seq # e.seq /\ f.id # e.id

\* Mutant: the event is stored under the next number, whatever its own is.
Renumbers(i, ok) ==
    LET want == import[i].expectedSeq
        e    == [id |-> Head(import[i].stream).id, seq |-> want, by |-> i]
    IN
    /\ import[i].pc = "open" /\ import[i].stream # <<>> /\ want > 0
    /\ Free(e)
    /\ target' = target \cup {e}
    /\ import' = [import EXCEPT ![i].stream = Tail(@), ![i].expectedSeq = want + 1,
                                ![i].count = @ + 1]
    /\ UNCHANGED <<table, rows, resolved, reader, sealed, writer>>

\* One event: in its turn and not in the future (ok), it is inserted on its
\* own, outside any transaction.  A call takes at most MaxImport events.
ImportEvent(i, ok) ==
    LET want == import[i].expectedSeq
        head == Head(import[i].stream)
        e    == [id |-> head.id, seq |-> head.seq, by |-> i]
    IN
    /\ import[i].pc = "open" /\ import[i].stream # <<>> /\ want > 0
    /\ IF ok /\ import[i].count < MaxImport /\ head.seq = want /\ Free(e)
       THEN /\ target' = target \cup {e}
            /\ import' = [import EXCEPT ![i].stream = Tail(@), ![i].expectedSeq = want + 1,
                                        ![i].count = @ + 1]
       ELSE Fails(i) /\ UNCHANGED target
    /\ UNCHANGED <<table, rows, resolved, reader, sealed, writer>>

\* The end of the stream, or a break: what was inserted stays.
ImportEnds(i) ==
    /\ import[i].pc = "open"
    /\ \/ import[i].stream = <<>> /\ import' = [import EXCEPT ![i].pc = "done"]
       \/ Fails(i)
    /\ UNCHANGED <<table, rows, resolved, reader, target, sealed, writer>>

\* A transaction on the restored ledger: it takes the next number under the
\* ledger's row lock, which Import does not take, and inserts later.
WriterTakesSeq ==
    /\ writer = 0 /\ table = "log"
    /\ writer' = Max({e.seq : e \in target} \cup {0}) + 1
    /\ UNCHANGED <<table, rows, resolved, reader, target, sealed, import>>

WriterCommits ==
    LET e == [id |-> 0, seq |-> writer, by |-> "writer"] IN
    /\ writer > 0 /\ \A f \in target : f.by # "writer"
    /\ target' = IF Free(e) THEN target \cup {e} ELSE target
    /\ writer' = 0
    /\ UNCHANGED <<table, rows, resolved, reader, sealed, import>>

Seal ==
    /\ table = "log" /\ ~sealed
    /\ sealed' = TRUE
    /\ UNCHANGED <<table, rows, resolved, reader, target, import, writer>>

TransferInit ==
    /\ table \in Tables
    /\ rows = <<>>
    /\ resolved = {}
    /\ reader = [pc |-> "idle", size |-> 0, scope |-> {}, token |-> NoToken, got |-> <<>>,
                 skipped |-> {}, first |-> {}]
    /\ target = {}
    /\ sealed = FALSE
    /\ import = [i \in Importers |-> [pc |-> "idle", stream |-> <<>>, expectedSeq |-> 0, count |-> 0]]
    /\ writer = 0

TransferNext ==
    \/ \E key \in RowKeys, time \in IF table = "transactions" THEN Times ELSE {0} : Insert(key, time)
    \/ \E key \in RowKeys : Resolve(key)
    \/ \E n \in Sizes, scope \in IF table = "ledgers" THEN Scopes ELSE {RowKeys} : Begin(n, scope)
    \/ NextPage \/ ReadFails
    \/ \E i \in Importers :
         \/ \E a, b \in 1..MaxRows : SendImport(i, a, b)
         \/ \E ok \in BOOLEAN : ImportFirst(i, ok) \/ ImportEvent(i, ok)
         \/ ImportEnds(i)
    \/ WriterTakesSeq \/ WriterCommits
    \/ Seal

TransferSpec == TransferInit /\ [][TransferNext]_transferVars

\* A reader that has a page asks for the next.
TransferLiveSpec == TransferSpec /\ WF_transferVars(NextPage)

-----------------------------------------------------------------------------
(***************************************************************************)
(* Properties.                                                             *)
(***************************************************************************)

Row == [key : RowKeys, time : Times \cup {0}]
Exp == [id : RowKeys, seq : 1..MaxRows]

\* Every variable has its type, and no import takes more than its limit.
TransferTypeOK ==
    /\ table \in Tables
    /\ rows \in Seq(Row) /\ Len(rows) <= MaxRows
    /\ resolved \subseteq RowKeys
    /\ reader.pc \in {"idle", "reading", "done", "failed"}
    /\ reader.got \in Seq(Row) /\ reader.token \in RowKeys \cup {NoToken}
    /\ \A e \in target : e.seq \in 1..(MaxRows + 1) /\ e.id \in RowKeys \cup {0}
    /\ sealed \in BOOLEAN
    /\ writer \in 0..(MaxRows + 1)
    /\ \A i \in Importers :
         /\ import[i].pc \in {"idle", "open", "done", "failed"}
         /\ import[i].stream \in Seq(Exp)
         /\ import[i].count <= MaxImport

\* A listing that has ended has every row that was there when it began, and
\* that the caller may see: what Client.ListLedgers and Export promise.  The
\* code does not keep it: the token of a page names the row after the page and
\* the next query asks for the rows after the token.
EveryRowIsListed ==
    reader.pc = "done" =>
        \A r \in reader.first :
            \/ r \in Range(reader.got)
            \/ r.key \in resolved
            \/ table = "ledgers" /\ r.key \notin reader.scope

\* Following the tokens ends, in every table and while rows are inserted.
EveryListingEnds == reader.pc = "reading" ~> reader.pc # "reading"

\* The restored log has no gap and no number twice, whatever imports and
\* writers do at the same time without a lock between them, and what imports
\* put into it is the work of one call and exactly the beginning of the
\* source's log, although Export may leave out or repeat events at a page
\* boundary, streams break and calls overlap (Import with its check of
\* ledger_seq, NextLedgerSeq, the unique constraints).
RestoredIsPrefix ==
    LET imported == {e \in target : e.by # "writer"} IN
    /\ {e.seq : e \in target} = 1..Cardinality(target)
    /\ Cardinality({e.by : e \in imported}) <= 1
    /\ {e.seq : e \in imported} = 1..Cardinality(imported)
    /\ \A e \in imported : rows[e.seq].key = e.id

=============================================================================
