---------------------------- MODULE Subscriptions ----------------------------
(***************************************************************************)
(* The live feed of one ledger: events are committed, announced over Redis *)
(* pub/sub, and delivered to subscribers (internal/subscriptions,          *)
(* internal/storage/redis, planner.publishEvent, the Subscribe RPC).       *)
(*                                                                         *)
(* An event has its ID, a ULID, before it commits, and transactions of     *)
(* several processes commit in any order: `committed' is in the order   *)
(* of ledger_seq, not of the IDs.  The notification follows the commit, on *)
(* its own.  IDs are 1, 2, ... in the order in which they were made; 0 is  *)
(* an ID before all of them.  Payloads are left out: an event is its ID    *)
(* and its type.                                                           *)
(***************************************************************************)
EXTENDS Integers, Sequences, SequencesExt, FiniteSets, LogOrder

CONSTANTS
    Subscribers,
    MaxId,         \* bound on the events
    TypeOf,        \* the type of an event
    Filters,       \* event type filters; the empty one admits every type
    BufferSize,    \* subscriptionBufferSize
    PageSize,      \* page size of the replay
    MaxReplay      \* maxReplayEvents

ASSUME SubscriptionsAssumption ==
    /\ {MaxId, BufferSize, PageSize, MaxReplay} \subseteq Nat \ {0}
    /\ DOMAIN TypeOf = 1..MaxId
    /\ IsFiniteSet(Subscribers)

VARIABLES
    nextId,        \* IDs made so far
    open,          \* events in transactions that have not committed
    committed,     \* committed events, in the order of ledger_seq
    unpublished,   \* committed events whose notification is not sent
    lost,          \* events whose notification was never sent (history)
    sub            \* the subscriptions

feedVars == <<nextId, open, committed, unpublished, lost, sub>>

EventId == 1..MaxId
NoId == -1         \* the empty string

(***************************************************************************)
(* A subscription: `from' and `filter' are the request's; `page' and       *)
(* `token' the replay's place in the log; `replayedIDs', `highWaterMark'   *)
(* (deduping says whether the set is still there) and `ch' the manager's;  *)
(* `inbox' and `active' what Redis holds for it.  History: `pages' read,   *)
(* `missed' announced while Redis did not know the subscriber, `dropped'   *)
(* by the manager, `sent' to the client.                                   *)
(***************************************************************************)
Idle == [pc |-> "idle", from |-> NoId, filter |-> {}, page |-> <<>>, token |-> NoId,
         replayedIDs |-> {}, deduping |-> FALSE, highWaterMark |-> 0, ch |-> <<>>,
         inbox |-> <<>>, active |-> FALSE,
         pages |-> 0, replayed |-> 0, missed |-> {}, dropped |-> {}, sent |-> <<>>]

Ended == [Idle EXCEPT !.pc = "ended"]

shouldInclude(id, filter) == filter = {} \/ TypeOf[id] \in filter

(***************************************************************************)
(* The write path, as far as subscribers see it.                           *)
(***************************************************************************)

\* appendEvent makes the event's ID.
MakeId ==
    /\ nextId < MaxId
    /\ nextId' = nextId + 1
    /\ open' = open \cup {nextId + 1}
    /\ UNCHANGED <<committed, unpublished, lost, sub>>

Commit(id) ==
    /\ id \in open
    /\ open' = open \ {id}
    /\ committed' = Append(committed, id)
    /\ unpublished' = unpublished \cup {id}
    /\ UNCHANGED <<nextId, lost, sub>>

Rollback(id) ==
    /\ id \in open
    /\ open' = open \ {id}
    /\ UNCHANGED <<nextId, committed, unpublished, lost, sub>>

\* What a published message does to a subscriber.  One that Redis does not
\* know misses it, unless its replay has yet to read the log.
Announce(s, id) ==
    IF s.pc \notin {"replay", "live"} THEN s
    ELSE IF s.active THEN [s EXCEPT !.inbox = Append(@, id)]
    ELSE IF s.pc = "live" \/ s.pages > 0 THEN [s EXCEPT !.missed = @ \cup {id}]
    ELSE s

\* publishEvent, Manager.Publish, Client.Publish.
PublishEvent(id) ==
    /\ id \in unpublished
    /\ unpublished' = unpublished \ {id}
    /\ sub' = [s \in Subscribers |-> Announce(sub[s], id)]
    /\ UNCHANGED <<nextId, open, committed, lost>>

\* Redis refuses the message, or the process ends between the commit and the
\* message: the failure is logged at most, never retried.
PublishFails(id) ==
    /\ id \in unpublished
    /\ unpublished' = unpublished \ {id}
    /\ lost' = lost \cup {id}
    /\ UNCHANGED <<nextId, open, committed, sub>>

(***************************************************************************)
(* Manager.Subscribe.                                                      *)
(***************************************************************************)

\* The Redis subscription is asked for first; without a start there is no replay.
\* Without a replay the events announced before are none of the subscriber's.
Subscribe(s, from, filter) ==
    /\ sub[s].pc = "idle"
    /\ sub' = [sub EXCEPT ![s] =
         [Idle EXCEPT !.pc = IF from = NoId THEN "live" ELSE "replay",
                      !.from = from, !.filter = filter, !.token = from, !.deduping = from # NoId,
                      !.missed = IF from = NoId THEN ToSet(committed) \ unpublished ELSE {}]]
    /\ UNCHANGED <<nextId, open, committed, unpublished, lost>>

\* Redis has the subscription: rdb.Subscribe does not wait for it.
RedisSubscribed(s) ==
    /\ sub[s].pc \in {"replay", "live"} /\ ~sub[s].active
    /\ sub' = [sub EXCEPT ![s].active = TRUE]
    /\ UNCHANGED <<nextId, open, committed, unpublished, lost>>

\* The connection to Redis breaks: what was in it is gone; the client library
\* subscribes again.
RedisDisconnects(s) ==
    /\ sub[s].active
    /\ sub' = [sub EXCEPT ![s].active = FALSE, ![s].inbox = <<>>,
                          ![s].missed = @ \cup ToSet(sub[s].inbox)]
    /\ UNCHANGED <<nextId, open, committed, unpublished, lost>>

\* ListLogEvents: the events with a larger ID than the token, in the order of
\* ledger_seq, a page and the ID of the first one after it.
ListAfter(token) ==
    LET places == Ascending({n \in 1..Len(committed) :
                               token = NoId \/ committed[n] > token})[Len(committed)]
        rows == [i \in 1..Len(places) |-> committed[places[i]]]
    IN  IF Len(rows) > PageSize
        THEN [page |-> SubSeq(rows, 1, PageSize), nextToken |-> rows[PageSize + 1]]
        ELSE [page |-> rows, nextToken |-> NoId]

ReadPage(s) ==
    LET read == ListAfter(sub[s].token) IN
    /\ sub[s].pc = "replay" /\ sub[s].page = <<>>
    /\ sub[s].pages = 0 \/ sub[s].token # NoId
    /\ sub' = [sub EXCEPT ![s].page = read.page, ![s].token = read.nextToken, ![s].pages = @ + 1]
    /\ UNCHANGED <<nextId, open, committed, unpublished, lost>>

\* One event of the page: counted, remembered, sent if the filter admits it.
\* The send waits for room: nobody reads the channel before Subscribe returns.
\* The replay that is too long ends the subscription with an error.
ReplayEvent(s) ==
    LET id == Head(sub[s].page)
        S  == [sub[s] EXCEPT !.page = Tail(@), !.replayed = @ + 1,
                             !.replayedIDs = @ \cup {id},
                             !.highWaterMark = IF id > @ THEN id ELSE @]
    IN
    /\ sub[s].pc = "replay" /\ sub[s].page # <<>>
    /\ \/ /\ sub[s].replayed >= MaxReplay
          /\ sub' = [sub EXCEPT ![s] = Ended]
       \/ /\ sub[s].replayed < MaxReplay
          /\ shouldInclude(id, S.filter)
          /\ Len(S.ch) < BufferSize
          /\ sub' = [sub EXCEPT ![s] = [S EXCEPT !.ch = Append(@, id)]]
       \/ /\ sub[s].replayed < MaxReplay
          /\ ~shouldInclude(id, S.filter)
          /\ sub' = [sub EXCEPT ![s] = S]
    /\ UNCHANGED <<nextId, open, committed, unpublished, lost>>

\* Subscribe returns and its goroutine runs.
ReplayDone(s) ==
    /\ sub[s].pc = "replay" /\ sub[s].page = <<>>
    /\ sub[s].pages > 0 /\ sub[s].token = NoId
    /\ sub' = [sub EXCEPT ![s].pc = "live"]
    /\ UNCHANGED <<nextId, open, committed, unpublished, lost>>

(***************************************************************************)
(* The goroutine of a subscription and the handler that reads its channel. *)
(***************************************************************************)

\* handleNotification: fetched and sent if there is room, dropped otherwise
\* or when it cannot be fetched.
Handled(S, id, fetched) ==
    IF ~shouldInclude(id, S.filter) THEN S
    ELSE IF fetched /\ Len(S.ch) < BufferSize THEN [S EXCEPT !.ch = Append(@, id)]
    ELSE [S EXCEPT !.dropped = @ \cup {id}]

\* Mutant: events up to the high-water mark are taken for replayed ones.
DedupByMark(S, id, fetched) ==
    IF S.deduping /\ id <= S.highWaterMark THEN S ELSE Handled(S, id, fetched)

\* Mutant: the set is not looked at.
NoDedup(S, id, fetched) == Handled(S, id, fetched)

\* A replayed event is skipped once; an event past the high-water mark ends
\* the deduplication.
Notified(S, id, fetched) ==
    IF S.deduping /\ id \in S.replayedIDs
    THEN [S EXCEPT !.replayedIDs = @ \ {id}]
    ELSE Handled([S EXCEPT !.deduping = @ /\ id <= S.highWaterMark], id, fetched)

Receive(s) ==
    /\ sub[s].pc = "live" /\ sub[s].inbox # <<>>
    /\ \E fetched \in BOOLEAN :
         sub' = [sub EXCEPT ![s] =
                   Notified([sub[s] EXCEPT !.inbox = Tail(@)], Head(sub[s].inbox), fetched)]
    /\ UNCHANGED <<nextId, open, committed, unpublished, lost>>

\* LedgerService.Subscribe: the handler sends what it reads.
SendToClient(s) ==
    /\ sub[s].pc = "live" /\ sub[s].ch # <<>>
    /\ sub' = [sub EXCEPT ![s].ch = Tail(@), ![s].sent = Append(@, Head(sub[s].ch))]
    /\ UNCHANGED <<nextId, open, committed, unpublished, lost>>

\* The client leaves, its context ends, or the store fails during the replay.
Leave(s) ==
    /\ sub[s].pc \in {"replay", "live"}
    /\ sub' = [sub EXCEPT ![s] = Ended]
    /\ UNCHANGED <<nextId, open, committed, unpublished, lost>>

FeedInit ==
    /\ nextId = 0
    /\ open = {}
    /\ committed = <<>>
    /\ unpublished = {}
    /\ lost = {}
    /\ sub = [s \in Subscribers |-> Idle]

FeedNext ==
    \/ MakeId
    \/ \E id \in EventId : Commit(id) \/ Rollback(id) \/ PublishEvent(id) \/ PublishFails(id)
    \/ \E s \in Subscribers :
         \/ \E from \in NoId..nextId, filter \in Filters : Subscribe(s, from, filter)
         \/ RedisSubscribed(s) \/ RedisDisconnects(s)
         \/ ReadPage(s) \/ ReplayEvent(s) \/ ReplayDone(s)
         \/ Receive(s) \/ SendToClient(s) \/ Leave(s)

FeedSpec == FeedInit /\ [][FeedNext]_feedVars

\* The goroutines run and the database answers.
FeedFairness ==
    \A s \in Subscribers :
        WF_feedVars(ReadPage(s)) /\ WF_feedVars(ReplayEvent(s)) /\ WF_feedVars(ReplayDone(s))
        /\ WF_feedVars(Receive(s)) /\ WF_feedVars(SendToClient(s))

FeedLiveSpec == FeedSpec /\ FeedFairness

-----------------------------------------------------------------------------
(***************************************************************************)
(* Properties.                                                             *)
(***************************************************************************)

Subscription ==
    [pc : {"idle", "replay", "live", "ended"}, from : NoId..MaxId, filter : Filters \cup {{}},
     page : Seq(EventId), token : NoId..MaxId, replayedIDs : SUBSET EventId, deduping : BOOLEAN,
     highWaterMark : 0..MaxId, ch : Seq(EventId), inbox : Seq(EventId), active : BOOLEAN,
     pages : Nat, replayed : 0..MaxReplay, missed : SUBSET EventId, dropped : SUBSET EventId,
     sent : Seq(EventId)]

\* Every variable has its type, and no channel holds more than its buffer.
FeedTypeOK ==
    /\ nextId \in 0..MaxId
    /\ open \subseteq 1..nextId
    /\ committed \in Seq(1..nextId)
    /\ unpublished \subseteq ToSet(committed) /\ lost \subseteq ToSet(committed)
    /\ \A s \in Subscribers : sub[s] \in Subscription /\ Len(sub[s].ch) <= BufferSize

\* What the subscriber has or will get from its channel.
Delivered(S) == S.sent \o S.ch

\* Every event after the subscriber's start that its filter admits has reached
\* it, is on its way, or was lost in a way the code knows of: a notification
\* that was never sent or that Redis could not pass on, or a send that found
\* the channel full.  Neither the hand-over from replay to live events nor a
\* commit out of the order of the IDs loses one, as long as the replay is one
\* page (Manager.Subscribe).
NothingMissedSilently ==
    \A s \in Subscribers : LET S == sub[s] IN
        (S.pc = "live" /\ S.pages <= 1) =>
            \A id \in ToSet(committed) :
                (id > S.from /\ shouldInclude(id, S.filter)) =>
                    \/ id \in ToSet(Delivered(S))
                    \/ id \in unpublished \cup lost
                    \/ id \in ToSet(S.inbox)
                    \/ id \in S.missed \cup S.dropped

\* While the replayed IDs are kept, and the replay is one page, no event
\* reaches the subscriber twice, however late its notification is
\* (Manager.Subscribe, replayedIDs).
NoDuplicates ==
    \A s \in Subscribers : LET S == sub[s] IN
        (S.pages <= 1 /\ (S.deduping \/ S.from = NoId)) => IsInjective(Delivered(S))

\* Subscribe returns, with its channel or with an error: the constants promise
\* replay windows of up to maxReplayEvents events.  The code does not keep it:
\* the replay sends to a channel that nobody reads before Subscribe returns, so
\* a window that overfills the buffer waits for ever (Manager.Subscribe).
SubscribeReturns ==
    \A s \in Subscribers : sub[s].pc = "replay" ~> sub[s].pc # "replay"

=============================================================================
