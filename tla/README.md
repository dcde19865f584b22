# TLA+ specifications and proofs for LinkGo IM

LinkGo IM is an instant-messaging backend in Go. A **Gateway** holds the
WebSocket connections, a **Logic** service accepts and stores messages, a
**Transfer** service fans group messages out. They share MySQL (the record of
truth), Redis (routes, pending acknowledgements, sequence numbers, caches),
Kafka (group jobs) and etcd (discovery).

This directory holds TLA+ modules of the parts of that system where
interleavings, crashes and retries decide whether it is correct, TLC
configurations that check them on small instances, and theorems checked by
TLAPS that hold for every value of the constants. `PROJECT.json` maps every
definition to the source lines it stands for.

## 1. Inventory

"Hard" names what makes the component difficult to test.

| Component | State | Operations | Talks to | Hard |
|---|---|---|---|---|
| Message acceptance, `LogicHandler.PushMessage` (`internal/logic/handler*.go`) | Redis `client_msg:*`, `seq:*`; MySQL `messages` and two outbox tables | reserve client id, look up, authorize, allocate number, store, commit or release | Gateway by RPC; the two outboxes by rows of one transaction | concurrent retries, lost Redis keys, ambiguous COMMIT, revoked permission |
| Delivery outbox (`internal/logic/delivery_outbox.go`) | MySQL `delivery_outbox` rows: status, attempts, available_at | load, claim, deliver, done, reschedule | Redis delivery, Kafka | stale generation, expired lease, crash between delivery and update |
| Transfer (`cmd/transfer`) | Kafka topics and offsets, Redis `group_delivery:*` | fetch, claim recipient, deliver, complete, release, retry, dead-letter, commit | Kafka, Redis delivery | rebalance, busy lease, failed write, repeated jobs |
| Redis delivery and pending ACKs (`internal/delivery`, `internal/server/{ack,retry,sync}.go`) | `pending_ack`, `ack_idx`, `ack_retry`, `offline_msg`, cursors | track, publish, push, acknowledge, retry scan, replay on login | Logic and Transfer (callers), Gateway (Pub/Sub), client | lost Pub/Sub, ACK against retry scan, redelivery after ACK |
| Routes and connections (`internal/server/{route,manager,client}.go`, `websockethandler.go`) | Redis `route:*`, `gateway_users:*`; connection map | claim, refresh, compare-and-delete, kick, cleanup | pending ACKs, delivery | logins on two gateways, stale envelopes, crash of a gateway |
| Push worker pool (`internal/server/{pool,client,client_error}.go`) | shard queues, closed flag | submit, run, complete, close with a deadline | Gateway read loops, Logic RPC | submit against close, full queue, a context that ends while its task waits |
| Conversation summaries (`internal/logic/conversation.go`) | MySQL `conversation_outbox`, `conversations`, members; Redis summaries and lists | claim, persist, reschedule; cache, list, fill, drop | message acceptance, login | rows settled by id alone, messages folded in out of order, cache older than the table, leaving against a late job |
| History and replay (`internal/logic/handler_history.go`, `internal/server/sync.go`, `public/history-sync.js`) | cursors of the reader; Redis timeline, `pending_ack` | page, synchronise, replay after a login or heartbeat | MySQL, Redis | rows that commit late, move or disappear between two pages; three sources that overlap |
| Red packets and wallet (`internal/logic/{redpacket,wallet}.go`) | wallets, ledger, packets, claims | recharge, create, claim, refund | Gateway RPC | concurrent claims, expiry, repeated requests, uneven shares |
| Learning tasks (`internal/learningtask`) | task, submissions, versions, `task_events` | create, edit, publish, close, submit, approve, return, list | task notifications | close against submit, optimistic versions, repeated request ids |
| Task notifications (`internal/logic/task_notifications.go`) | `task_notification_outbox` | load, claim, check, store, settle | message acceptance | stale generation, expired lease, duplicate message |
| Community (`internal/community/service.go`) | groups, members, conversation members, posts, comments, likes, requests | found, join, leave, remove, hand over, post, edit, comment, like, list | community events | owner invariants, removal against return, row locks in different orders |
| Community events (`internal/community/worker.go`) | `community_event_outbox`, Kafka topic, `community_notifications` | emit, copy task events, claim, publish, settle, file, commit | Kafka | leased outbox, repeated events, members who left meanwhile |
| Friends and groups (`internal/logic/{friendlogic,group}.go`) | friend requests and relations | apply, accept, reject; found a group | message authorization | unlocked look before an upsert, crossed acceptances |
| Login, AI bot, attachments, rate limiting, discovery, HTTP surface, clients | see `components` in `PROJECT.json` | | | request-response or third-party work, little shared state |

What makes each component correct:

- **Message acceptance**: a client message is stored at most once and under a
  number of its own; "ok" is answered only for a stored message; a sender
  without permission never causes a delivery.
- **Delivery outbox**: at-least-once. A row is `done` only when every sink was
  reached; a settled row is not reopened; every row is settled in the end.
- **Transfer**: a committed offset never forgets a job; a recipient marked done
  has the message; dead letters come after all retries; nothing blocks for ever.
- **Pending ACKs**: an unacknowledged message stays replayable; nothing is
  removed that the client did not receive; a message is received in the end.
- **Routes**: an old connection never disturbs a newer route; every connection
  that lost its route is closed; no route to a dead connection stays.
- **Red packets**: money is conserved; one claim per user; an expired packet is
  refunded once.
- **Push pool**: what is accepted is run once, one user's messages one at a
  time and in order, and answered; a pool that reports itself drained is.
- **Conversation summaries**: a row that is done is in the summary; the cache
  never goes back except to what MySQL held; every row settles for good.
- **History and replay**: no row twice, none left out that stayed listed.
- **Learning tasks**: a closed task has no unreviewed work; nobody overwrites a
  version he has not seen; a repeated request is carried out once.
- **Task notifications**: one message per event and target; every notice
  settles.
- **Community**: one owner, who is a member; the members are exactly those who
  may talk; the removed stay out; posts change by the authorised alone.
- **Community events**: at least once to the topic, filed before the offset
  moves, and only for members.
- **Friends**: only by consent, and in both directions at once.

## 2. Modules

| Module | Models | Composition |
|---|---|---|
| `AtLeastOnce` | what a durable outbox promises | abstract |
| `DeliveryOutbox` | `internal/logic/delivery_outbox.go` | implements `AtLeastOnce` |
| `DeliveryOutboxProofs` | theorems | also about `ConversationList` |
| `MessageLedger` | what sending promises: an exactly-once ledger | abstract |
| `SendMessage` | `PushMessage` (`internal/logic/handler*.go`) | implements `MessageLedger`; `DeliveryOutbox` works off what it stores |
| `SendMessageProofs` | theorems | also about `ConversationOutbox` |
| `TransferConsumer` | `cmd/transfer/main.go`, `recipient_lease.go` | a group sink of `DeliveryOutbox` is its `Publish` |
| `TransferConsumerProofs` | theorems | |
| `PendingAck` | `internal/delivery/redis.go`, `internal/server/{ack,retry,sync}.go`: the messages of one recipient | a direct sink of `DeliveryOutbox` and a recipient of `TransferConsumer` is its `Deliver` |
| `GatewayRoutes` | `internal/server/{route,manager,client,retry}.go`, the Gateway's handler and start: one user on several Gateways | the route `PendingAck` sees on one Gateway |
| `GatewayRoutesProofs` | theorems | also about `PushPool` |
| `Escrow` | what wallets and red packets promise: money is paid once and conserved | abstract |
| `RedPacket` | `internal/logic/{wallet,redpacket}.go` and the Gateway's calls of them | implements `Escrow` |
| `RedPacketProofs` | theorems | |
| `OrderedExecutor` | what the push pool promises: once, and in order per key | abstract |
| `PushPool` | `internal/server/pool.go` with the read loops and answers of `client.go`, `client_error.go` | implements `OrderedExecutor` |
| `ConversationOutbox` | the outbox of `internal/logic/conversation.go` | works off the rows `SendMessage` stores |
| `ConversationList` | the list, its cache and its filter in `internal/logic/conversation.go` | a `CacheSummary` job is a delivery attempt of `DeliveryOutbox` |
| `PagedReads` | the pages of `handler_history.go`, `learningtask`, `community/service.go`, and `history-sync.js` | |
| `ReconnectReplay` | `internal/server/sync.go` | extends `PagedReads`: the replay is one more walk over the same rows |
| `RequestLedger` | what a request id promises | abstract |
| `LearningTask` | `internal/learningtask` | implements `RequestLedger` |
| `TaskNotifications` | `internal/logic/task_notifications.go` | extends `LearningTask`, whose actions owe the notices it sends |
| `Community` | `internal/community/service.go`, and founding a group in `group.go` | implements `RequestLedger` |
| `CommunityEvents` | `internal/community/worker.go` | implements `AtLeastOnce`; what `Community` emits and `LearningTask` owes |
| `Friends` | `internal/logic/friendlogic.go` | |
| `InboxProofs` | theorems | about `PendingAck` and `CommunityEvents` |
| `LearningTaskProofs` | theorems | about `LearningTask` with `TaskNotifications`; `PagedReads` with `ReconnectReplay` |
| `CommunityProofs` | theorems | about `Community` and `Friends` |
| `MC*` | the constants of the TLC runs; `MCConversationList` and `MCCommunity` also put modules side by side | |

Definitions under a comment "Faulty" are plausible bugs that a run must reject;
no specification uses them.

A proof module may serve two components that share no variable. Such modules
name their specifications apart: `PoolSpec`, `SummarySpec`, `EventsSpec`,
`ListSpec`, `ReadSpec`, `NotifiedSpec`, `FriendSpec`; the others have `Spec`.
Every theorem is about one of them, never about a conjunction.

### How state and actions correspond to the code

**`DeliveryOutbox`.** `status`, `attempts` and `due` (`available_at <= now`)
are the columns of a row. A worker is a goroutine in
`ProcessDeliveryOutbox` or `ProcessDeliveryOutboxMessage` (`LoadBatch`,
`LoadMessage`); `readAttempts` is what its SELECT returned and `pc` where it
stands in `processDeliveryOutboxEvent`: `Claim`/`ClaimMissed` is the conditional
UPDATE and its `RowsAffected`, `Deliver`/`Delivered`/`DeliverFails` the
external calls, `Complete`/`Reschedule`/`LeaseLost` the guarded outcome.
`claimNo` is history: the value the claim really produced.

**`SendMessage`.** One element of `Calls` is one RPC. The actions are the
Redis commands and SQL statements of `PushMessage` in its order: `Reserve`
(GET) and `ReserveNX`, `Lookup`, `Authorize`, `SeqExists`, `SeqMax`,
`SeqSetMax`, `SeqIncr`, `ReserveSeq` (SETXX), `Save` (one transaction),
`Reauthorize`, `Accept`, and the release on failure (`Release`, `ReleaseDel`).
`Crash`, `Lose` (a Redis key disappears) and `Revoke` are the environment.

**`TransferConsumer`.** `topic`, `committed`, `next`, `assigned` and `dlq` are
Kafka; `lease` is `group_delivery:*`, one value per script result. A consumer
fetches, goes through `job.Recipients` (`Claim`, `SkipDone`, `Busy`,
`Deliver`, `Complete`, ...), writes to the retry or dead-letter topic when a
recipient failed (`Write`), and commits. `StartJob` is the repetition in place
after `processFetchedMessage` returned an error.

**`PendingAck`.** `pending`, `ackIdx` and `retries` are the three keys that
`trackPendingScript` and `acknowledgeMessageScript` keep together and the
retry loop changes one at a time. Processes: `Deliver` (`DTrack`, `DRoute`,
`DPublish`, `DClear`), the Pub/Sub subscriber (`Sub*`), the retry loop (`R*`),
one handler per connection (`H*`: claim, replay, ACKs, deferred calls) and the
client (`Connect`, `Receive`, `Drop`).

**`GatewayRoutes`.** `route` and `users` are the Redis keys, `local` is
`ClientManager.UserConns`, `open` the sockets. One handler per login (`HAdd`,
`HKick`, `HClaim`, `HHeartbeat`, `HReturn`, `HClear`, `HRemove`, `HClose`), one
subscriber (`Sub*`) and one retry loop (`R*`) per Gateway, the deliverer
(`P*`), and the start of a Gateway (`Boot*`, `Subscribe`) after a `Crash`.

**`RedPacket`.** One element of `Calls` is one API call (recharge, create,
claim, refund), and `Request` is what it asks. The five tables hold committed
rows only. `tx` is what a call's open transaction is going to write, `holds`
the rows and unique keys it has locked: `Free` is the wait for another
transaction, `Answer` the deferred rollback or the end of a COMMIT. The actions
are the statements that other calls can tell apart: the pre-check before the
transaction (`StartRecharge`, `Precheck`), the INSERT that meets a unique key
(`InsertOrder`, `InsertClaim`), the two locking reads (`LockPacket`,
`LockWallet`) and `Commit`. `Fail` is any error or crash, `Expire` the clock.

**`PushPool`.** `queue[s]` is a shard's channel, `hand[s]` the task its
goroutine runs, if any (a set of at most one), `pc[c]` where a connection's read loop stands: `Receive` reads a
frame, `Lock` takes `mu.RLock` and tests `closed`, `Send` is the select with
`default`, `Refuse` the error answer. `Take`, `Finish` and `Exit` are the shard
goroutine, with `onComplete` in `Finish`; `Close`, `CloseChannels`, `AllExited`,
`CloseDrained` and `CloseGivesUp` are `Close`. `order` is history: what was
accepted, in that order.

**`ConversationOutbox`.** As `DeliveryOutbox`; `PersistSummary` and
`PersistMembers` are the statements of `persistConversationState`, `Complete`
and `Reschedule` write by id.

**`ConversationList`.** `db*` are tables, `last`, `index` and `read` the cache.
`Cache*` are the three scripts of one delivery attempt, `List`, `ReadMySQL`,
`Fill` and `Filter` one login's list, `Leave`, `Join` and `DropCache` a
membership change and the deletion after it.

**`PagedReads`, `ReconnectReplay`.** `walk` says what is read; `Ask*` is the
permission query of a page, `GetHistory`, `ListTasks`, `ListSubmissions` and
`Posts` its SELECT. `steady` is history: the rows listed from the beginning of
the walk until now. `Newest` and `Oldest` are ORDER BY with LIMIT: the lists of
rows that such a query may return. `Pinned` moves a post's key above or below
all others of its kind, as pinning does in the order of the feed. The replay goes through `ListPending`, `ListTimeline` and
`QueryBatch`, each followed by the writes; `PassOver` is a payload that is gone.

**`LearningTask`, `TaskNotifications`.** A call goes through `Begin`,
`LockTask`, `Authorise` and one of its operations, `Repeat` or `Refuse`; `Abort`
is any error. `events` is `task_events`, in order of COMMIT. `batch[w]` maps the
rows a notifier loaded to the `attempts` it read with them. It goes
through `LoadNotices`, `ClaimNotice`, `CheckTarget`, `LookUpMessage`,
`StoreMessage` and `SettleNotice`.

**`Community`.** `Wants` lists the rows an operation locks, in its order, and
`Lock` takes the next one and reads it; with all of them the operation is
carried out, repeated or refused. `Victim` is InnoDB's choice when transactions
wait in a circle.

**`CommunityEvents`.** `status`, `attempts`, `due` are the outbox, `lease[p]` the
token of a claim, `topic` and `committed` Kafka. `ProjectTasks` copies task
events; `Claim`, `Publish`, `Settle` are a publisher; `Fetch`, `Project`,
`Commit` the consumer. `owed` is history: the members at the time of the event
who have stayed.

**`Friends`.** `Apply` is the two SELECTs, `UpsertRequest` the statement after
them, `Respond`, `UpsertRelation` (twice) and `Commit` one transaction.

## 3. What the runs check

| Run | Instance | Checks | Shows |
|---|---|---|---|
| `delivery_outbox` | 2 workers, 2 rows (one with 2 sinks), 2 attempts, 1 disruption | `NewestClaimSettles`, `ImplementsAtLeastOnce`, `EventuallySettled` | a row is done only when every sink was reached, is settled by its newest claim alone, and is settled in the end |
| `send_message` | 3 calls, 2 of them retries of one message, 1 lost key | `FailClosed`, `ImplementsLedger` | exactly-once acceptance, no delivery without permission |
| `transfer_consumer` | 2 readers of the group topic, 1 of the retry topic, 1 message, 2 recipients, 1 retry, 2 disruptions | `CommittedIsSettled`, `EventuallyHandled` | no offset forgets a job, nothing blocks for ever |
| `pending_ack` | 1 message, 2 logins, 1 retry, 1 disruption | `StaysReplayable`, `NoGap`, `EventuallyReceived` | unacknowledged messages stay replayable, login and delivery cannot miss each other, the message arrives |
| `gateway_routes` | 2 Gateways, 2 logins on one or on both, 1 disruption | `ServedRouteKept`, `StaleConnectionsClose`, `RetriesResume` | nothing that is late takes the route from a served connection; connections without the route end |
| `red_packet` | 2 users, 2 recharges, a packet of 3 fen in 2 shares, 3 claims (2 of one user), 1 refund, 1 mishap | `BooksAgree`, `SharesAreEqual`, `ImplementsEscrow`, `EveryCallReturns` | the books balance, shares are even and use the packet up, no transactions wait in a circle |
| `push_pool` | 2 connections of 1 user, 2 shards with room for 1, 3 messages, 1 context that may end | `ImplementsOrderedExecutor`, `EveryTaskAnswered` | no send on a closed channel, order per user, every accepted message answered |
| `conversation_outbox` | 2 workers, 2 rows of a chat or a group, 2 attempts, batches of 1, 1 disruption | `DoneIsSummarised`, `SettledForGood` | outcomes by id reopen rows but lose nothing, and end |
| `conversation_list` | 2 messages, 3 delivery attempts, 2 membership changes; side by side 9 walks and 3 replays over 4 rows, pages of 2, 4 changes | `OnlyFillsMoveBack`, `WalkIsExact`, `ReplayIsExact` | late attempts never take the cache back; no page and no replay repeats or misses a row that stayed |
| `learning_task` | 5 requests in 4 scenarios; 2 notifiers, 2 notices, 2 attempts, up to 2 disruptions in 2 more | `ClosedIsReviewed`, `NoLostUpdate`, `ImplementsRequestLedger`, `ToldOnce`, `EveryNoticeSettles` | requests are carried out once and on the version they name; notices are sent once and settle |
| `community` | 4 requests in 11 scenarios; side by side 4 friend calls in 2 | `RosterAgrees`, `RemovedStaysOut`, `EditsAreAuthorised`, `ImplementsRequestLedger`, `EveryCallEnds`, `FriendsByConsent`, `FriendCallsEnd` | the roster survives any race, and deadlocks between the lock orders are broken |
| `community_events` | 2 users, 1 post and 1 task event, 2 publishers, 2 attempts, 2 disruptions, 1 membership change | `CommittedIsFiled`, `ImplementsAtLeastOnce`, `OnlyMembersAreNotified`, `EventuallyNotified` | no event is lost between transaction and inbox, and no one who left is told |

Type invariants are left to the theorems of section 4 (those of the notifiers, of
`Friends`, `PagedReads` and `ReconnectReplay` are parts of the inductive
invariants there); the others may be added to their runs. Other invariants that are theorems
(`CommittedRecordIsStored`, `DoneIsDelivered`, `NoTakeBack`, ...) are no longer
run for the same reason.

Modules "side by side" in one run share no state; a behaviour is one of the one
or of the other, and each property is about the one or the other.

Deadlock is checked in `community_events` alone, whose publishers tick for ever. Elsewhere outboxes run dry, calls return,
connections are used up, walks end, and then the system rightly stops.

### Bounds, and why they are enough

- *Disruptions* (`MaxDisruptions`, `MaxLosses`, `MaxMishaps`) count the failures the
  environment may inject: crashes, stalls past a lease, lost keys, dropped
  sockets, failed commands. One is enough to reach every error path of the
  single-fault design; Transfer gets two, so that a crash can meet a lease that
  expired early. Failures that the code answers by a bounded retry (a failed
  delivery) are free.
- *Attempts.* `MaxAttempts` is 10 for the outbox and 3 for Transfer in the
  code, `ACK_MAX_RETRIES` is 3. The models use 2, 1 and 1: a first attempt, a
  repetition, and giving up. The theorems hold for every value.
- *Two workers, two rows*: stale reads need one worker to claim between the
  SELECT and UPDATE of the other; the batch order needs a second row.
- *Three calls, two messages*: two retries race each other, the third takes
  numbers between them.
- *Two logins*: every claim of the routes is about an older and a newer
  connection. `Placements` fixes which Gateway the balancer sends each login
  to; with two logins, the same or the other Gateway is all there is.
- *One message* in `PendingAck`: each message has an entry of its own in every
  key; only the cursor relates two, and it only grows.
- *Seven calls* in `red_packet`: u2's recharge and claim change one wallet
  at the same time, u2's two claims are duplicates, u1's claim takes the other
  share, and the refund races all of them. Three fen in two shares do not
  divide evenly. `MaxRecharge` and `MaxCount` stand for 1000000 and 1000 and
  are never reached. Concurrent repetitions of one recharge are left to the
  theorems, which hold for any calls: an eighth call makes the run six times as
  large.
- *A queue of one* in `push_pool`: with three messages it is empty, full and
  refusing. The two connections share a user, hence a shard; the second shard
  has to be closed as well.
- *Batches of one* in `conversation_outbox`: two workers then hold different
  rows of one conversation, or the same row one after the other.
- *Four rows, pages of two* in `PagedReads`: three pages, the last one empty or
  not; the fourth row is the one that is inserted during the walk. `MaxKey`
  leaves keys free above, between and below; `MaxMoves` is one change more than
  there are gaps between the requests of a walk. `SyncBatch` and `ReplayLimit`
  of 2 make a replay meet a full batch and its limit (200 and 1000 in the code).
- *Scenarios* in `LearningTask`, `Community` and `Friends` name what exists and
  what the calls ask, so that each operation meets the ones it can conflict
  with: every action occurs in a scenario together with the actions that lock
  or change the same rows. All orders of the calls, repetitions and failures
  within a scenario are explored.
- *Two publishers, two events, one change* in `community_events`: a lease lost to
  the other publisher, a task event copied while a post event is published, and
  one member who leaves or joins at any point. Two disruptions, so that a
  publisher's crash may meet a consumer's.

### Fairness, and why the code justifies it

- `DeliveryOutbox`: the tickers load batches and a started call goes on
  (`WF` on `LoadBatch` and `Work`); `available_at` passes (`WF` on
  `BecomeDue`). `BecomeDue` may be assumed only for rows no live worker loaded
  because a tick runs under a context of 10 seconds and a lease lasts 30; the
  exception is the action `Stall`, which is a disruption. Deliveries may fail
  for ever: then the row becomes dead.
- `TransferConsumer`: `consumeLoop` runs until shutdown (`WF` on `Step`), and a
  lease that nobody renews expires (`WF` on orphan leases). Live leases expire
  only as a disruption.
- `PendingAck`: its processes run, the ACK timeout passes, the network carries
  what it does not drop, and a client without a connection connects again as
  often as `MaxConns` allows. `EventuallyReceived` therefore excludes a client
  that has used up its connections, and a message that has used up its retries:
  after those the code only replays at the next login.
- `GatewayRoutes`: only the handlers are fair (`WF` on `Handler`). A client that
  is connected sends heartbeats, or is cut off by the read deadline. Nothing is
  assumed of subscribers, retry loops, deliverers or restarts, so
  `StaleConnectionsClose` and `RetriesResume` rest on the heartbeat alone.
- `RedPacket`: as long as the locks let some call run its next statement,
  some call runs one (`WF` on all calls together). That is less than what MySQL
  grants, and enough because a call has finitely many statements.
- `PushPool`: a read loop goes on once it holds a message, shard goroutines and
  the waiter of `Close` run, and the write lock is granted when no reader holds
  it. No client has to send, no context to end, nobody to shut down, and the
  deadline of `Close` is not assumed to pass.
- `ConversationOutbox`: as `DeliveryOutbox`.
- `LearningTask` claims no liveness of its own. `TaskNotifications`: the tickers
  go on, and `available_at` passes for notices no live worker holds (a tick runs
  under a shorter context than the lease lasts); stalls are disruptions.
- `Community`, `Friends`: a call that has begun is carried on as far as locks
  allow (`WF` for each call), and MySQL finds deadlocks (`WF` on `Victim`,
  `DeadlockVictim`). Without the second, `EveryCallEnds` and `FriendCallsEnd`
  are violated: the lock orders do not exclude circles.
- `CommunityEvents`: tickers, the consumer's loop and time.
- `SendMessage`, `ConversationList`, `PagedReads` and `ReconnectReplay` claim no
  liveness; `SendMessage.FairSpec` is there for finding 3.

## 4. What is proved

Each theorem holds for every number of workers, rows, calls, consumers,
recipients, Gateways, connections and users, and for every bound. The assumptions
are the named ones of the modules (`DeliveryOutboxAssumption`,
`CommunityAssumption`, ...). Most give the types of the constants. What they say
beyond that:

- *Transfer*: the lease values "free", "done" and "orphan" are no consumers.
- *Red packets*: `newID` gives each create call an id of its own.
- *Learning tasks*: a group has finitely many users (they are listed to find the
  targets of a notice). A scenario starts in a state that the module can reach
  itself: a task that is closed has no unreviewed submission, and one that a
  request is going to create is not there. All calls that create are repetitions
  of one request, as there is one task.
- *Community*: likewise a community that is there has one owner, who is a member,
  one that is to be founded has no members, and a founding is one request.
- *Paging*: the table is finite, and no two rows share a key, pinned or not (keys
  end in the primary key; `Pinned` keeps them apart).
- *Community events*, *Friends*: the value for "no one" is no user; registered
  users are users.

| Module | Theorem | Property |
|---|---|---|
| `DeliveryOutboxProofs` | `TypeCorrect`, `DeadIsLate`, `NewestClaimWins`, `KeepsPromise` | `TypeOK`, `DeadAfterMaxAttempts`, `NewestClaimSettles`*, `ImplementsAtLeastOnce`* |
| | `ListTypesCorrect`, `DeliveriesNeverMoveBack`, `NothingIsInvented` | `ListTypeOK`, `OnlyFillsMoveBack`*, `CacheIsStored` |
| `SendMessageProofs` | `TypeCorrect`, `ShortCutIsSafe`, `RevokedCallsFail`, `KeepsLedger` | `TypeOK`, `CommittedRecordIsStored`, `FailClosed`*, `ImplementsLedger`* |
| | `SummaryTypesCorrect`, `SettledIsSummarised` | `SummaryTypeOK`, `DoneIsSummarised`* |
| `TransferConsumerProofs` | `TypeCorrect`, `OffsetsAreSafe`, `DoneIsTrue`, `DeadLettersAreLast`, `BusyMeansServed` | `TypeOK`, `CommittedIsSettled`*, `DoneIsDelivered`, `DeadLetterIsLast`, `ClaimsHaveOwners` |
| `GatewayRoutesProofs` | `TypeCorrect`, `OneSocketPerGateway`, `ServedKeepsRoute`, `RouteIsNeverTakenBack` | `TypeOK`, `OpenIsRegistered`, `ServedRouteKept`*, `NoTakeBack` |
| | `PoolTypesCorrect`, `PoolKeepsOrder` | `PoolTypeOK`, `ImplementsOrderedExecutor`* |
| `RedPacketProofs` | `TypeCorrect`, `BooksAlwaysAgree`, `RepliesAlwaysTrue`, `EscrowImplemented` | `TypeOK`, `BooksAgree`*, `RepliesAreTrue`, `ImplementsEscrow`* |
| | `SharesStayFair`, `SharesAlwaysEqual`, `TablesAreNeverBroken`, `LocksStayOrdered` | `FairShares`, `SharesAreEqual`*, `NeverBroken`, `LocksAreOrdered` |
| `LearningTaskProofs` | `TypeCorrect`, `NoneClosedUnreviewed`, `NothingIsOverwritten`, `RequestsAreCarriedOutOnce`, `NoticesAreToldOnce` | `TypeOK`, `ClosedIsReviewed`*, `NoLostUpdate`*, `ImplementsRequestLedger`*, `ToldOnce`* |
| | `WalksAreExact`, `ReplaysAreExact`, `RequestsNeverDeadlock` | `WalkIsExact`*, `ReplayIsExact`*, `LocksAreOrdered` and `LocksByStep` |
| `CommunityProofs` | `TypeCorrect`, `TheRosterAgrees`, `RemovedIsForGood`, `OnlyTheAuthorisedEdit`, `RequestsAreCarriedOutOnce` | `TypeOK`, `RosterAgrees`*, `RemovedStaysOut`*, `EditsAreAuthorised`*, `ImplementsRequestLedger`* |
| | `FriendsConsent`, `DeadlocksMixOrders` | `FriendsByConsent`*, `WaitsAreOrdered` |
| `InboxProofs` | `TypeCorrect`, `AcceptedStaysReplayable`, `NoMessageSlipsThrough` | `TypeOK`, `StaysReplayable`*, `NoGap`* |
| | `EventTypesCorrect`, `FiledBeforeCommitted`, `NotifiesMembersOnly`, `EventsKeepPromise` | `EventsTypeOK`, `CommittedIsFiled`*, `OnlyMembersAreNotified`*, `ImplementsAtLeastOnce`* |

A star marks a property that a run of section 3 checks as well; the others are
left to the theorems.

The arguments, and why the invariants had to be strengthened:

- **Delivery outbox.** The outcome is guarded by a generation computed from an
  old read, so "the guard matched" does not obviously mean "my claim is the
  newest". `ReadsAreOld` (what a worker read is at most the row's `attempts`)
  makes `ClaimsAreOrdered` inductive: the generation a worker compares with is
  at most the number its claim produced, which is at most the row's `attempts`.
  When the two ends are equal, the claim in the middle is the newest.
  `FanOutIsCovered` (what is not left to deliver was delivered) makes `done`
  a step of the promise.
- **Message acceptance.** `Numbered` (a call past the allocation has a number),
  `AcceptsStored` (a call about to accept holds the number of a stored row of
  its message) and `RepliesAreTrue` (an "ok" is about a stored message) carry
  the refinement; the distinctness of numbers comes from the unique keys, not
  from the allocator, which is why a lost sequence key costs availability and
  not correctness. `RevokedStaysOut` follows a call that started without
  permission to both places where permission is checked.
- **Transfer.** `HoldsAJob` (a busy consumer's offset exists in its topic),
  `PrefixServed` (the recipients before its index are served) and
  `CommitIsSettled` (a job about to be committed is settled) give the committed
  prefix one job at a time; `FetchedIsSettled` closes the gap between the
  committed offset and the one the assigned consumer fetches, which is what
  makes a commit by a consumer that has lost its partition harmless.
  `ClaimsHaveOwners` ties each lease to the recipient at its owner's index: it
  is the safety half of `EventuallyHandled`, which a lease kept by a replica that
  has moved on would defeat, as only orphans expire.
  `RetriesAreNumbered` (attempt k+1 in the retry topic has attempt k before
  it) carries `DeadLetterIsLast`.
- **Routes.** `State` is the type invariant together with where references may
  point: whatever a process holds is a connection that was opened, on the
  Gateway it runs on. `SubMay`, `RetMay` and `BootMay` say that a process about
  to clear a route names either the connection it also closes or one that is
  not registered: `ClientManager.Add` comes before `ClaimRoute`, so a Gateway
  that finds nobody registered cannot be looking at a served connection.
- **Red packets.** A call decides on what it read and writes later, so each
  decision has to stay true until COMMIT. `RowsExclusive` (a row is locked by
  one call) makes it so: `RechargeOK` (the order is not there, nobody else can
  insert it), `CreateOK` (the packet id is fresh), `PacketOK` (the locked packet
  is active and holds at least the planned sum) and `WalletOK` (the balance to
  be written is the wallet's, plus or minus that sum) are the parts of the
  invariant a lock protects; `PacketShape` relates the columns of a packet. With
  them every COMMIT is one step of the escrow, and every other step a stutter.
- **Shares.** `nextEqualClaimAmount` divides what is left by how many are left,
  so evenness over a packet's life is about all the divisions together.
  `EvenSplit` says what they come to: with `Base` and `Extra` the quotient and
  remainder of the whole packet, what is left is `Base` for each share to come
  and one more for as many as `Extra` still has. Then the next share is `Base`
  or one more (`FairShares`), a packet with shares to come always holds the next
  one, and the errors for inconsistent tables are unreachable (`NeverBroken`).
  `Larger` says how many of the paid shares have the fen more, so the sum of
  the shares can be stated by counting the two sizes (`LargerOf`): a fold over
  the set of claims would need an induction that the provers cannot instantiate.
  `PlanIsFair` carries a planned share from the locked read to COMMIT.
- **Push pool.** The promise is about order, the code about channels.
  `QueueIsTheRest` ties them: a shard's channel is a suffix, by shard, of
  `order`. `NothingIsLost` adds that what was accepted waits, runs or is
  answered, and `HeldIsNew` that a read loop's message was not accepted before,
  so no task runs twice. `ClosedIsQuiet` is the lock: nobody is sending once
  the channels are closed, hence no send on a closed channel, and a drained pool
  has no work left.
- **Conversation outbox.** Rows are settled by id, so a worker's lease says
  nothing. What makes "done" true is that the summary only grows:
  `WrittenIsThere` (what a worker has folded in stays there until it marks the
  row, whoever else writes) becomes the same statement about the row.
- **Conversation list.** For `OnlyFillsMoveBack` the type invariant suffices: the
  scripts compare before they write, and what a fill writes is what its login
  has read. That the cache invents nothing (`CacheIsStored`) follows the numbers
  back along every way into it: the tables hold only stored messages
  (`TablesAreStored`), so do the logins' snapshots and the deliveries at work,
  and a read cursor is only ever one of a message that its user sent.
- **Lock orders.** A deadlock is a circle of waits, so a rank that grows along
  every wait rules it out, for any number of transactions. `LocksAreOrdered` of
  `RedPacketProofs` (packet, then the unique key of an order or a claim, then
  wallet) and of `LearningTaskProofs` (task, then group) give that rank for all
  of a module's transactions; `HoldsByStep` and `LocksByStep` say what each holds
  by its program counter. They are about the rows and unique keys that the
  modules model, not about InnoDB's gap locks. In `Community` deadlocks are real:
  a role is read with the membership and the group locked in this order, after
  the post, where every other operation locks the group first. `WaitsAreOrdered`
  says that this is the only cause: among transactions of one order the levels of
  the rows grow along every wait, and the two memberships that a removal locks at
  one level are both behind the group, which it holds alone. `PrefixesHeld` is
  the invariant that it needs. Without the restriction to one order TLC finds a
  counterexample on the run's instance.
- **Learning tasks.** `LocksHeld` is what FOR UPDATE gives: a call that decides
  holds the row it decides on, as it read it. `ClosedIsReviewed` needs it for
  both directions of the race between closing and handing in. For the request
  ledger, `AnsweredAtTheEnd` and the creation clauses say that the record and
  the change are one COMMIT; the unique key does the rest.
- **Notices.** `NotifierInv` does not speak of leases, which are lost at will:
  `MessagesAreUnique` rests on the message's key alone. `OutcomeIsTrue` and
  `SettledIsTrue` make "done" mean sent and "skipped" mean that the target left.
- **Paging.** `ShownToCursor` (every steady row down to the cursor is shown, and
  nothing below it) is inductive because the cursor is a key of the order itself:
  rows may come and go on either side. `SteadyIsListed` is about the role the
  reader had when the page's permission was asked, which may be older than the
  page's SELECT.
- **Replay.** `ReplayedOnce` (what was sent is what `replayed` names) and
  `SentToCursor` (all stored rows down to the cursor were sent or are in the batch
  at hand) hold whatever the Redis sources contributed before: a batch skips what
  `replayed` names, and only the batches move the cursor.
- **Community.** `PrefixesHeld` says which rows a transaction has locked, by how
  far it has come; `RowsAreAsRead` that what it saw of each is still so. With
  them every operation that is carried out starts from what it checked, and
  `RosterAgrees`, `RemovedStaysOut` and `EditsAreAuthorised` are one step each.
- **Friends.** `RequestIsHeld`: an acceptance keeps the request's row from the
  UPDATE that found it pending to COMMIT.
- **Pending ACKs.** `StaysReplayable` follows from `InHand` (an ACK under way is
  of a message that was received). For `NoGap` the invariant is
  `NothingIsMissed`: beside a login that has claimed the route or is about to,
  each tracked message is to be listed, to be replayed, or on its way. It turns
  on the order of two pairs of steps, track before reading the route and
  claim before listing.
- **Community events.** `InOrder` (the consumer works on the message after the
  offset, and has filed it before it commits) gives `CommittedIsFiled`, together
  with `OwedAreRecipients`: whoever has stayed since the event is still among
  those for whom `Project` files it. `RowsInHand` makes a row done only when
  the topic has it.

Each of these invariants was checked by TLC on the run's instance before it was
proved.

**Only model-checked:** every liveness property (`EventuallySettled`,
`EventuallyHandled`, `EventuallyReceived`, `StaleConnectionsClose`,
`RetriesResume`, `EveryCallReturns`, `EveryTaskAnswered`, `SettledForGood`,
`EveryNoticeSettles`, `EveryCallEnds`, `FriendCallsEnd`, `EventuallyNotified`),
which is beyond TLAPS. Every invariant, action property and refinement that a
run checks is a theorem.

## 5. Findings

In each of these the code differs from what a comment, a test or the handbook
says. A definition next to the model states the text; no run checks it, because
it does not hold. To see the counterexample, check the definition named in
brackets as an INVARIANT (or PROPERTY) with the constants given there.

1. *`delivery_outbox.go:132` against `:134`.* The comment wants the attempts
   produced by the claim as the generation; the code adds one to the attempts
   it read earlier. When another worker's claim falls between, the newest
   claimant is refused its own outcome, drops the rest of its batch, and the
   delivered row is delivered again. Safety does not suffer (theorem
   `NewestClaimWins`), and the row is settled in the end.
   [`NewestClaimCanSettle`: 2 workers, 1 row.]
2. *`handler.go:156`.* Two retries that share one reserved number collide on
   `uk_message_id`; the loser is answered with an error although its message is
   stored, instead of adopting the stored row. [`LoserAdoptsWinner`: the run's
   constants, no lost key.]
3. *`handbook/11_RELIABILITY_AND_OFFLINE.md:314`.* A sequence key lost between
   EXISTS and INCR restarts at 1, below stored numbers; the unique keys then
   reject the INSERTs until the counter has caught up. [`AllocatedAboveStored`, an
   action property: `FairSpec`, 1 lost key.]
4. *`ack_test.go:70`, `handbook/11:450`.* An ACK between a retry's socket write
   and its ZADD leaves a pending entry without a payload that no ACK removes.
   [`NoPartialState`: 1 login.]
5. *`handbook/10_MULTI_GATEWAY_CHAT.md:434`.* A notice addressed to the user's
   previous connection makes the subscriber close the current one. [`NoticesAreFenced`:
   the run's constants.]
6. *`handbook/APPENDIX_A_WALLET_RED_PACKET.md:271` and `:449`.* Of two
   concurrent claims of one user, the second is to get the first one's claim
   back. `RedPacketService.Claim` checks the locked packet's status before it
   meets the unique key, so after the last share, or after the expiry, it
   answers "finished" or "expired". No money is affected.
   [`DuplicateKeepsItsAnswer`: the run's constants.]
7. *`conversation.go:358-360`, `handbook/13:303`.* A crash between the summary and
   the mark "done" is said to cause a harmless retry. When a newer message was
   folded in meanwhile, the retry keeps its number and text but writes the older
   message's `updated_at` over its own (`conversation.go:298`), so the
   conversation sinks in lists ordered by time. [`UpdatedAtIsOfLast`: the run's
   constants.]

Observations that no text contradicts:

- The lock orders of `community/service.go:198` and `:478`, and of two crossed
  acceptances (`friendlogic.go:107-111`), allow deadlocks. They end because MySQL
  aborts one transaction, whose caller gets an error and may repeat.
- A former member who joins again keeps the role he had (`service.go:179`).
- A client that has moved its `last_seq` or baseline past a number that is
  taken and not yet committed does not get that message from a catch-up
  (`WalkIsExact` and `ReplayIsExact` are about rows that were there); the pending
  acknowledgement still brings it. A replay stops after 1000 rows and leaves
  the rest to the history pages (`handbook/11:462-473`).

## 6. Abstractions

- **Message acceptance.** Frames carry no number or message id of their own (no
  client sends one). The schema of `sql/init.sql` is in force, so the fallbacks
  of `handler_store.go` for older schemas are left out. MySQL checks
  `uk_message_id` before `uk_sender_client_msg`, the order of the declarations.
  Permission is withdrawn once and for good.
- **Transfer.** One partition per topic, as all jobs of a conversation share a
  key. The broker accepts a commit from a consumer that has lost the partition,
  which is weaker than what the client library usually grants. Done keys, which
  live seven days, do not expire. Jobs that do not decode are left out.
- **Pending ACKs.** One Gateway and one recipient. `offline_msg` is written and
  trimmed but never decides anything, and is left out, as are the
  group check before a write and the lifetime of the keys. The replay by
  session cursor is module `ReconnectReplay`. The reads of one retry scan are one step. A best-effort command
  that fails counts as a disruption. A socket that is closed loses what it
  carries.
- **Routes.** `gateway_live` and `gateway_conn` are written and never read. An
  envelope is the route it names. GET route and GetConn of the retry loop are
  one step, and so are Close and Remove of the subscriber and the retry loop.
  Initially all Gateways are up and subscribed; starting is covered by `Crash`.
  A failing SREM is left out. A slower, older login may still claim the route
  after a newer one: `NoTakeBack` allows a connection's own claim.
- **Red packets.** Amounts are natural numbers: negative inputs, which are
  refused like zero, and sums beyond int64, which a limit of 1000000 fen per
  recharge puts out of reach, are left out. The channel of a recharge counts as
  part of its amount. Friend and group tables are a free decision (`Forbid`),
  `expires_at` is a packet's membership in `past`, and the rows' timestamps,
  greetings and ids are left out. A wallet exists with balance 0, as
  `lockWallet` inserts it before it reads it. The UPDATE and INSERTs that
  follow `LockWallet` in one transaction are part of `Commit`; a failure among
  them is a `Fail` before it. The read-only calls have no action.
- **Push pool.** A task is a message's number; the RPC behind it is a free
  choice of its two results. `Close` is called once.
- **Conversation outbox.** Text and sender of the last message go with its
  number. The member rows written are the two ends of a chat; those of a group
  come from founding or joining it.
- **Conversation list.** One conversation of each kind is enough for a member's
  index; the unread counts are differences of the modelled numbers. Expiry of
  the cache is one action. The lists of a deployment without MySQL are left out.
- **Paging.** A key stands for (number), (time, id) or (pinned, time, id): the
  order by which the list is sorted. Contents, and the counts shown beside a
  task, are left out.
- **Replay.** A failing read and an expired payload are choices. The replay of a
  Gateway without MySQL stops after the timeline and is left out; one without a
  session consists of the pending part only.
- **Learning tasks.** One task; requests about several tasks share locks only
  through the group's row. `due_at` passes at most once. Attachments and the
  progress counts are left out.
- **Notices.** What `DeliveryOutbox` does with the stored message is there. A
  notice to the group goes to whoever is in it when it is delivered.
- **Community.** One community. Featuring, profile and reading marks, and files
  attached to posts, are left out; a like of a post that is there already is a
  no-op. The Redis sets `group_members:*` and `user_groups:*` are written
  best-effort and read only without a database.
- **Community events.** One consumer; a restart re-reads from the committed
  offset, as a rebalance would. The unique key of notifications makes filing a
  set operation.
- **Friends.** A relation is a pair of rows, written by one transaction.

## 7. Not modelled, and the plan

All properties of the runs that TLAPS can reach are theorems. What would be the
next to prove is about how components fit together:

1. The entry states that modules assume of each other, as theorems of the module
   that produces them: what `SendMessage` stores is what `DeliveryOutbox` and
   `ConversationOutbox` enqueue, and what `LearningTask` owes what
   `CommunityEvents.ProjectTasks` copies.
2. Of `ConversationList`, that a login never shows a group its user has left,
   whatever the cache holds (the filter at its end).
3. Of `Friends` and `Community`, that a call which was refused has changed
   nothing.

Of the modelled components these operations are missing: featuring, profiles
and notification reading of a community (single statements), the lists of
deployments without MySQL, and the group check before a socket write.

Left out for good: the HTTP and RPC surface, login and password upgrades, the AI
bot, attachments, rate limiting, discovery, the demo tools and the clients except
their history synchronisation. They are request-response code around
third-party services or single statements, without state that several steps or
actors share.
