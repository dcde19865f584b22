---------------------------- MODULE ReconnectReplay ----------------------------
(***************************************************************************)
(* What a client that connects is sent again (src/internal/server/sync.go):*)
(* the messages it has not acknowledged, from pending_ack, then those of   *)
(* the session it names above its last_seq, first from the timeline in     *)
(* Redis, then from MySQL batch by batch.  A heartbeat that names a        *)
(* session repeats the last two.  One set of ids, replayed, keeps the      *)
(* three from sending a message twice; failing reads of Redis are passed   *)
(* over.  The rows of PagedReads are the session's messages, their keys    *)
(* the sequence numbers.                                                   *)
(***************************************************************************)
EXTENDS PagedReads

CONSTANTS
  SyncBatch,     \* syncBatchSize (200 in the code)
  ReplayLimit    \* maxMySQLReplayCount (1000 in the code)

ASSUME ReconnectReplayAssumption ==
  /\ SyncBatch \in Nat \ {0} /\ ReplayLimit \in Nat \ {0}
  /\ \A w \in Walks : w.heartbeat \in BOOLEAN /\ w.unacked \cup w.remembered \subseteq Rows

VARIABLES
  pending,    \* pending_ack and the ack index of the user
  ghosts,     \* pending_ack entries whose payload is gone from the index
  timeline,   \* ids in session:timeline
  payloads,   \* ids with message:payload
  todo,       \* what is left of the list that is being sent
  full,       \* the last batch from MySQL had SyncBatch rows
  replayed,
  count       \* messages sent from MySQL

redisVars == <<pending, ghosts, timeline, payloads>>
replayVars == <<redisVars, todo, full, replayed, count>>

ReplayStarts(w) ==
  /\ pending = w.unacked
  /\ ghosts = {}
  /\ timeline = w.remembered
  /\ payloads = w.remembered
  /\ todo = <<>>
  /\ full = FALSE
  /\ replayed = {}
  /\ count = 0

Others == <<walk, table, standing, readAs, steady, moves, redisVars>>

\* The first n of S by sequence number.
Oldest(S, n) ==
  {list \in BoundedSeq(S, n) :
     /\ \A i, j \in DOMAIN list : i < j => table[list[i]].key < table[list[j]].key
     /\ \A r \in S \ Range(list) :
          Len(list) = n /\ \A i \in DOMAIN list : table[r].key > table[list[i]].key}

-----------------------------------------------------------------------------
\* Faulty: what another source has sent is sent again.
NewToIt(r) == TRUE

NotReplayed(r) == r \notin replayed

\* A list was read; its messages are sent one by one.
StartList(list, next) ==
  /\ todo' = list
  /\ step' = next
  /\ UNCHANGED <<shown, replayed>>

Send(r) ==
  /\ shown' = Append(shown, [row |-> r, key |-> table[r].key])
  /\ replayed' = replayed \cup {r}
  /\ todo' = Tail(todo)
  /\ UNCHANGED step

PassOver ==
  /\ todo' = Tail(todo)
  /\ UNCHANGED <<shown, replayed, step>>

(* The connection does not take it: that ends the list, and the caller     *)
(* logs it and goes on with the next source, if there is one.              *)
WriteFails(next) ==
  /\ todo' = <<>>
  /\ step' = next
  /\ UNCHANGED <<shown, replayed>>

(* ZRANGE pending_ack; then HGET of each id.  The first thing a connection *)
(* does; a heartbeat has none of it and begins with the timeline.          *)
ListPending ==
  /\ step = "ask"
  /\ \/ ~walk.heartbeat /\ \E list \in SetToSeqs(pending \cup ghosts) : StartList(list, "pending")
     \/ StartList(<<>>, "pending")
  /\ UNCHANGED <<Others, cursor, full, count>>

ReplayPending ==
  /\ step = "pending"
  /\ IF todo = <<>> THEN StartList(<<>>, "timeline")
     ELSE IF Head(todo) \notin pending THEN PassOver
     ELSE Send(Head(todo)) \/ WriteFails("timeline")
  /\ UNCHANGED <<Others, cursor, full, count>>

(* ZRANGEBYSCORE above last_seq, the first SyncBatch; then GET of each.    *)
ListTimeline ==
  /\ step = "timeline"
  /\ \/ \E list \in Oldest({r \in timeline : table[r].key > walk.baseline}, SyncBatch) :
          StartList(list, "recent")
     \/ StartList(<<>>, "recent")
  /\ UNCHANGED <<Others, cursor, full, count>>

ReplayTimeline ==
  /\ step = "recent"
  /\ IF todo = <<>> THEN StartList(<<>>, "query")
     ELSE IF ~NotReplayed(Head(todo)) \/ Head(todo) \notin payloads THEN PassOver
     ELSE Send(Head(todo)) \/ WriteFails("query")
  /\ UNCHANGED <<Others, cursor, full, count>>

(* SELECT ... seq > cursor ORDER BY seq ASC LIMIT SyncBatch.               *)
QueryBatch ==
  LET from == IF cursor = 0 THEN walk.baseline ELSE cursor IN
  /\ step = "query"
  /\ \/ \E batch \in Oldest({r \in Rows : table[r].key > from}, SyncBatch) :
          /\ StartList(batch, "batch")
          /\ cursor' = IF batch = <<>> THEN from ELSE table[Last(batch)].key
          /\ full' = (Len(batch) = SyncBatch)
     \/ StartList(<<>>, "failed") /\ UNCHANGED <<cursor, full>>
  /\ UNCHANGED <<Others, count>>

ReplayBatch ==
  /\ step = "batch"
  /\ IF todo = <<>>
       THEN /\ StartList(<<>>, IF full /\ count < ReplayLimit THEN "query" ELSE "done")
            /\ UNCHANGED count
     ELSE IF ~NotReplayed(Head(todo)) THEN PassOver /\ UNCHANGED count
     ELSE \/ Send(Head(todo)) /\ count' = count + 1
          \/ WriteFails("failed") /\ UNCHANGED count
  /\ UNCHANGED <<Others, cursor, full>>

-----------------------------------------------------------------------------
(* Meanwhile the delivery of a stored message leaves it in Redis, another  *)
(* device acknowledges, and entries expire or get lost.                    *)
RedisMoves ==
  /\ table' = table /\ standing' = standing
  /\ Moved
  /\ UNCHANGED <<todo, full, replayed, count>>

Delivered(r) ==
  /\ There(r) /\ r \notin timeline
  /\ timeline' = timeline \cup {r} /\ payloads' = payloads \cup {r}
  /\ pending' = pending \cup {r} /\ UNCHANGED ghosts
  /\ RedisMoves

Acknowledged(r) ==
  /\ r \in pending
  /\ pending' = pending \ {r}
  /\ ghosts' \in {ghosts, ghosts \cup {r}}
  /\ UNCHANGED <<timeline, payloads>>
  /\ RedisMoves

Expired(r) ==
  /\ r \in payloads
  /\ payloads' = payloads \ {r}
  /\ timeline' \in {timeline, timeline \ {r}}
  /\ UNCHANGED <<pending, ghosts>>
  /\ RedisMoves

ReplayStep ==
  \/ ListPending \/ ReplayPending \/ ListTimeline \/ ReplayTimeline
  \/ QueryBatch \/ ReplayBatch

ReplayNext ==
  /\ walk.endpoint = "replay"
  /\ \/ ReplayStep
     \/ \E r \in Rows : RowAppears(r) /\ UNCHANGED replayVars
     \/ \E r \in Rows : Delivered(r) \/ Acknowledged(r) \/ Expired(r)

ReadNext ==
  \/ (ReadStep \/ OthersMove) /\ walk.endpoint # "replay" /\ UNCHANGED replayVars
  \/ ReplayNext

ReadInit == \E w \in Walks : WalkStarts(w) /\ ReplayStarts(w)

ReadSpec == ReadInit /\ [][ReadNext]_<<readVars, replayVars>>

-----------------------------------------------------------------------------
(* A replay sends no message twice, from whichever source.  One that runs  *)
(* to its end has sent all messages of the session above last_seq that     *)
(* were stored when it began; one that meets its limit has done so up to   *)
(* the row where it stops, without a gap (replayed, maxMySQLReplayCount).  *)
ReplayIsExact ==
  walk.endpoint = "replay" =>
    /\ \A m, n \in DOMAIN shown : m # n => shown[m].row # shown[n].row
    /\ step = "done" =>
         \A r \in steady :
           table[r].key > walk.baseline /\ (count >= ReplayLimit => table[r].key <= cursor)
             => \E n \in DOMAIN shown : shown[n].row = r

=============================================================================
