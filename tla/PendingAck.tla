------------------------------ MODULE PendingAck ------------------------------
(***************************************************************************)
(* From a stored message to the acknowledgement of one recipient           *)
(* (src/internal/delivery/redis.go and src/internal/server/: ack.go,       *)
(* retry.go, sync.go, manager.go, client.go).                              *)
(*                                                                         *)
(* Five kinds of process work on the recipient's Redis keys: calls of      *)
(* RedisDelivery.Deliver (by the delivery outbox and Transfer, and then    *)
(* repeated), the Pub/Sub subscriber and the retry loop of the recipient's *)
(* Gateway, the handler of each of the recipient's WebSocket connections,  *)
(* and the client.  Every Redis command or script, SQL statement and       *)
(* socket write is a step of its own.                                      *)
(*                                                                         *)
(* One Gateway and one recipient; module GatewayRoutes has several         *)
(* Gateways.  The replay of a session from a client's cursor, the group    *)
(* permission check before a write, the 7-day lifetime of the keys and the *)
(* set offline_msg, which no code reads, are left out.                     *)
(***************************************************************************)
EXTENDS Naturals

CONSTANTS
  Deliveries,     \* calls of RedisDelivery.Deliver
  Messages,
  MsgOf,          \* [Deliveries -> Messages]
  SeqNo,          \* [Messages -> Nat], the number in the conversation
  MaxConns,       \* bound: connections the client opens
  MaxRetries,     \* ACK_MAX_RETRIES (3 in the code)
  MaxDisruptions  \* bound: dropped sockets, failed commands, lost envelopes

ASSUME PendingAckAssumption ==
  /\ MsgOf \in [Deliveries -> Messages]
  /\ SeqNo \in [Messages -> Nat]
  /\ MaxConns \in Nat
  /\ MaxRetries \in Nat
  /\ MaxDisruptions \in Nat

Conns == 1..MaxConns      \* connection ids, in the order of the logins

VARIABLES
  pending,      \* Redis pending_ack: "none", or scored "fresh" or "due"
  ackIdx,       \* Redis ack_idx: messages whose payload is kept
  retries,      \* Redis ack_retry, capped at MaxRetries + 1
  cursor,       \* Redis user:conversation:acked
  dbCursor,     \* MySQL conversation_members.acked_seq
  route,        \* Redis route: the connection, 0 when there is none
  local,        \* Manager.UserConns: the registered connection, or 0
  open,         \* the connection whose socket is open, or 0
  latest,       \* the last connection opened
  wire,         \* messages written to the open socket, not yet read
  acks,         \* ACK frames on the open socket, not yet read
  channel,      \* Pub/Sub envelopes on their way: [msg, via]
  dlv,          \* [Deliveries -> [step, via]]
  sub,          \* the subscriber: [step, msg, via, conn, why]
  ret,          \* the retry loop: [step, msg, via, conn, todo]
  rd,           \* [Conns -> [step, msg, known, todo]], the handlers
  tracked,      \* history: messages Deliver has accepted
  received,     \* history: messages the client has read, and acknowledged
  disruptions

keyVars == <<pending, ackIdx, retries>>
cursorVars == <<cursor, dbCursor>>
connVars == <<route, local, open, latest>>
netVars == <<wire, acks, channel>>
historyVars == <<tracked, received>>
procVars == <<dlv, sub, ret, rd>>
vars == <<keyVars, cursorVars, connVars, netVars, procVars, historyVars, disruptions>>

SubIdle == [step |-> "idle", msg |-> "none", via |-> 0, conn |-> 0, why |-> "none"]
RetIdle == [step |-> "idle", msg |-> "none", via |-> 0, conn |-> 0, todo |-> {}]
RdIdle(step) == [step |-> step, msg |-> "none", known |-> FALSE, todo |-> {}]

Init ==
  /\ pending = [m \in Messages |-> "none"]
  /\ ackIdx = {}
  /\ retries = [m \in Messages |-> 0]
  /\ cursor = 0 /\ dbCursor = 0
  /\ route = 0 /\ local = 0 /\ open = 0 /\ latest = 0
  /\ wire = {} /\ acks = {} /\ channel = {}
  /\ dlv = [d \in Deliveries |-> [step |-> "track", via |-> 0]]
  /\ sub = SubIdle
  /\ ret = RetIdle
  /\ rd = [c \in Conns |-> RdIdle("unused")]
  /\ tracked = {} /\ received = {}
  /\ disruptions = 0

Disrupt ==
  /\ disruptions < MaxDisruptions
  /\ disruptions' = disruptions + 1

Larger(a, b) == IF a < b THEN b ELSE a

-----------------------------------------------------------------------------
(* Commands several processes share.                                       *)

\* trackPendingScript: ZADD NX, HSETNX, HSETNX.
TrackPending(m) ==
  /\ pending' = [pending EXCEPT ![m] = IF @ = "none" THEN "fresh" ELSE @]
  /\ ackIdx' = ackIdx \cup {m}
  /\ UNCHANGED retries

\* ClearRouteIfMatch; its error is ignored.
ClearRouteIfMatch(c) ==
  \/ route' = (IF route = c THEN 0 ELSE route) /\ UNCHANGED disruptions
  \/ UNCHANGED route /\ Disrupt

\* What the socket carries is lost with it.
Close(c) ==
  /\ open' = IF open = c THEN 0 ELSE open
  /\ wire' = IF open = c THEN {} ELSE wire
  /\ acks' = IF open = c THEN {} ELSE acks

\* conn.Close() and Manager.Remove(uid, conn).
CloseAndRemove(c) ==
  /\ Close(c)
  /\ local' = IF local = c THEN 0 ELSE local

-----------------------------------------------------------------------------
(* RedisDelivery.Deliver                                                   *)

DStep(d, step) == dlv' = [dlv EXCEPT ![d] = [@ EXCEPT !.step = step]]

DDone(d) == dlv' = [dlv EXCEPT ![d] = [step |-> "done", via |-> 0]]

DTrack(d) ==
  /\ dlv[d].step = "track"
  /\ TrackPending(MsgOf[d])
  /\ tracked' = tracked \cup {MsgOf[d]}
  /\ DStep(d, "route")
  /\ UNCHANGED <<cursorVars, connVars, netVars, sub, ret, rd, received, disruptions>>

(* The script fails, before or after it took effect; the caller repeats.   *)
DTrackFails(d) ==
  /\ dlv[d].step = "track"
  /\ Disrupt
  /\ TrackPending(MsgOf[d]) \/ UNCHANGED <<pending, ackIdx, retries>>
  /\ UNCHANGED <<cursorVars, connVars, netVars, procVars, historyVars>>

DRoute(d) ==
  /\ dlv[d].step = "route"
  /\ dlv' = [dlv EXCEPT ![d] = IF route = 0 THEN [step |-> "done", via |-> 0]
                               ELSE [step |-> "publish", via |-> route]]
  /\ UNCHANGED <<keyVars, cursorVars, connVars, netVars, sub, ret, rd, historyVars, disruptions>>

DPublish(d) ==
  /\ dlv[d].step = "publish"
  /\ channel' = channel \cup {[msg |-> MsgOf[d], via |-> dlv[d].via]}
  /\ DDone(d)
  /\ UNCHANGED <<keyVars, cursorVars, connVars, wire, acks, sub, ret, rd, historyVars, disruptions>>

(* No Gateway is subscribed, or PUBLISH fails (its result is 0 then).      *)
DPublishFails(d) ==
  /\ dlv[d].step = "publish"
  /\ Disrupt
  /\ DStep(d, "clear")
  /\ UNCHANGED <<keyVars, cursorVars, connVars, netVars, sub, ret, rd, historyVars>>

DClear(d) ==
  /\ dlv[d].step = "clear"
  /\ ClearRouteIfMatch(dlv[d].via)
  /\ DDone(d)
  /\ UNCHANGED <<keyVars, cursorVars, local, open, latest, netVars, sub, ret, rd, historyVars>>

(* The outbox or Transfer makes the call again: it could not record that   *)
(* it had succeeded.                                                       *)
Redeliver(d) ==
  /\ dlv[d].step = "done"
  /\ Disrupt
  /\ dlv' = [dlv EXCEPT ![d] = [step |-> "track", via |-> 0]]
  /\ UNCHANGED <<keyVars, cursorVars, connVars, netVars, sub, ret, rd, historyVars>>

-----------------------------------------------------------------------------
(* ClientManager.SubscribeRedis                                            *)

(* GetConn and RouteMatchesConnection.                                     *)
SubTake(env) ==
  /\ sub.step = "idle"
  /\ env \in channel
  /\ channel' = channel \ {env}
  /\ LET why == IF local = 0 THEN "missing"
                ELSE IF local # env.via THEN "stale" ELSE "none"
         step == [none |-> "write", missing |-> "clear", stale |-> "close"]
     IN  sub' = [step |-> step[why],
                 msg |-> env.msg, via |-> env.via, conn |-> local, why |-> why]
  /\ UNCHANGED <<keyVars, cursorVars, connVars, wire, acks, dlv, ret, rd, historyVars, disruptions>>

SubWrite ==
  /\ sub.step = "write"
  /\ open = sub.conn
  /\ wire' = wire \cup {sub.msg}
  /\ sub' = SubIdle
  /\ UNCHANGED <<keyVars, cursorVars, connVars, acks, channel, dlv, ret, rd, historyVars, disruptions>>

(* The socket is closed, or the write times out.                           *)
SubWriteFails ==
  /\ sub.step = "write"
  /\ (open # sub.conn /\ UNCHANGED disruptions) \/ Disrupt
  /\ sub' = [sub EXCEPT !.step = "clear", !.why = "failed"]
  /\ UNCHANGED <<keyVars, cursorVars, connVars, netVars, dlv, ret, rd, historyVars>>

SubClear ==
  /\ sub.step = "clear"
  /\ ClearRouteIfMatch(sub.via)
  /\ sub' = IF sub.why = "missing" THEN SubIdle ELSE [sub EXCEPT !.step = "close"]
  /\ UNCHANGED <<keyVars, cursorVars, local, open, latest, netVars, dlv, ret, rd, historyVars>>

SubClose ==
  /\ sub.step = "close"
  /\ CloseAndRemove(sub.conn)
  /\ sub' = SubIdle
  /\ UNCHANGED <<keyVars, cursorVars, route, latest, channel, dlv, ret, rd, historyVars, disruptions>>

(* Pub/Sub keeps nothing: an envelope is lost while the subscriber is      *)
(* reconnecting.                                                           *)
Lose(env) ==
  /\ env \in channel
  /\ Disrupt
  /\ channel' = channel \ {env}
  /\ UNCHANGED <<keyVars, cursorVars, connVars, wire, acks, procVars, historyVars>>

-----------------------------------------------------------------------------
(* retryGatewayPending and retryOnePending                                 *)

RStep(step) == ret' = [ret EXCEPT !.step = step]

\* On to the next of the listed messages.
RNext == ret' = IF ret.todo = {} THEN RetIdle ELSE [ret EXCEPT !.step = "one", !.msg = "none"]

\* Faulty: the range of the query is reversed.
DueReversed == {m \in Messages : pending[m] = "fresh"}

\* ZRANGEBYSCORE up to now - ackTimeout.
Due == {m \in Messages : pending[m] = "due"}

(* A tick that finds work: the route, the connection, the due entries.     *)
RScan ==
  /\ ret.step = "idle"
  /\ route # 0 /\ local # 0 /\ Due # {}
  /\ ret' = [step |-> "one", msg |-> "none", via |-> route, conn |-> local, todo |-> Due]
  /\ UNCHANGED <<keyVars, cursorVars, connVars, netVars, dlv, sub, rd, historyVars, disruptions>>

\* HINCRBY
Attempts(m) == IF retries[m] > MaxRetries THEN retries[m] ELSE retries[m] + 1

\* attempts > maxRetries
Exhausted(m) == Attempts(m) > MaxRetries

RIncr(m) ==
  /\ ret.step = "one"
  /\ m \in ret.todo
  /\ retries' = [retries EXCEPT ![m] = Attempts(m)]
  /\ ret' = [ret EXCEPT !.step = IF Exhausted(m) THEN "postpone" ELSE "load",
                        !.msg = m, !.todo = @ \ {m}]
  /\ UNCHANGED <<pending, ackIdx, cursorVars, connVars, netVars, dlv, sub, rd, historyVars, disruptions>>

(* HGET: without a payload the entry is left alone.                        *)
RLoad ==
  /\ ret.step = "load"
  /\ IF ret.msg \in ackIdx THEN RStep("write") ELSE RNext
  /\ UNCHANGED <<keyVars, cursorVars, connVars, netVars, dlv, sub, rd, historyVars, disruptions>>

RWrite ==
  /\ ret.step = "write"
  /\ open = ret.conn
  /\ wire' = wire \cup {ret.msg}
  /\ RStep("touch")
  /\ UNCHANGED <<keyVars, cursorVars, connVars, acks, channel, dlv, sub, rd, historyVars, disruptions>>

RWriteFails ==
  /\ ret.step = "write"
  /\ (open # ret.conn /\ UNCHANGED disruptions) \/ Disrupt
  /\ RStep("clear")
  /\ UNCHANGED <<keyVars, cursorVars, connVars, netVars, dlv, sub, rd, historyVars>>

(* Pushed: ZADD with the present time.                                     *)
RTouch ==
  /\ ret.step = "touch"
  /\ pending' = [pending EXCEPT ![ret.msg] = "fresh"]
  /\ RNext
  /\ UNCHANGED <<ackIdx, retries, cursorVars, connVars, netVars, dlv, sub, rd, historyVars, disruptions>>

(* Faulty: the entry moves to the offline set instead.                     *)
RPostponeDrops ==
  /\ ret.step = "postpone"
  /\ pending' = [pending EXCEPT ![ret.msg] = "none"]
  /\ RNext
  /\ UNCHANGED <<ackIdx, retries, cursorVars, connVars, netVars, dlv, sub, rd, historyVars, disruptions>>

(* Exhausted: ZADD with a time one minute ahead.                           *)
RPostpone ==
  /\ ret.step = "postpone"
  /\ pending' = [pending EXCEPT ![ret.msg] = "fresh"]
  /\ RNext
  /\ UNCHANGED <<ackIdx, retries, cursorVars, connVars, netVars, dlv, sub, rd, historyVars, disruptions>>

(* The write failed: ClearRouteIfMatch, Close and Remove.                  *)
RClear ==
  /\ ret.step = "clear"
  /\ ClearRouteIfMatch(ret.via)
  /\ RStep("close")
  /\ UNCHANGED <<keyVars, cursorVars, local, open, latest, netVars, dlv, sub, rd, historyVars>>

RClose ==
  /\ ret.step = "close"
  /\ CloseAndRemove(ret.conn)
  /\ RNext
  /\ UNCHANGED <<keyVars, cursorVars, route, latest, channel, dlv, sub, rd, historyVars, disruptions>>

(* The ACK timeout of an entry passes.                                     *)
BecomeDue(m) ==
  /\ pending[m] = "fresh"
  /\ pending' = [pending EXCEPT ![m] = "due"]
  /\ UNCHANGED <<ackIdx, retries, cursorVars, connVars, netVars, procVars, historyVars, disruptions>>

-----------------------------------------------------------------------------
(* The handler of a connection: websockethandler.go, StartClientLoopWithDB *)

HStep(c, step) == rd' = [rd EXCEPT ![c] = [@ EXCEPT !.step = step]]

(* A login: Manager.Add swaps the registered connection and closes the     *)
(* one before.                                                             *)
Connect(c) ==
  /\ c = latest + 1
  /\ latest' = c
  /\ local' = c
  /\ open' = c /\ wire' = {} /\ acks' = {}
  /\ HStep(c, "claim")
  /\ UNCHANGED <<keyVars, cursorVars, route, channel, dlv, sub, ret, historyVars, disruptions>>

HClaim(c) ==
  /\ rd[c].step = "claim"
  /\ route' = c
  /\ HStep(c, "list")
  /\ UNCHANGED <<keyVars, cursorVars, local, open, latest, netVars, dlv, sub, ret, historyVars, disruptions>>

HClaimFails(c) ==
  /\ rd[c].step = "claim"
  /\ Disrupt
  /\ route' = c \/ UNCHANGED route
  /\ HStep(c, "remove")
  /\ UNCHANGED <<keyVars, cursorVars, local, open, latest, netVars, dlv, sub, ret, historyVars>>

\* What is left to replay; then the read loop.
Replay(S) ==
  IF S = {} THEN RdIdle("loop") ELSE [RdIdle("sync") EXCEPT !.todo = S]

(* Faulty: only messages whose retries are used up are replayed.           *)
HListExhausted(c) ==
  /\ rd[c].step = "list"
  /\ rd' = [rd EXCEPT ![c] = Replay({m \in Messages : retries[m] > MaxRetries})]
  /\ UNCHANGED <<keyVars, cursorVars, connVars, netVars, dlv, sub, ret, historyVars, disruptions>>

(* syncPendingMessages: ZRANGE.                                            *)
HList(c) ==
  /\ rd[c].step = "list"
  /\ rd' = [rd EXCEPT ![c] = Replay({m \in Messages : pending[m] # "none"})]
  /\ UNCHANGED <<keyVars, cursorVars, connVars, netVars, dlv, sub, ret, historyVars, disruptions>>

(* One message: HGET, and a write if there is a payload.                   *)
HSync(c, m) ==
  /\ rd[c].step = "sync"
  /\ m \in rd[c].todo
  /\ m \notin ackIdx \/ open = c
  /\ rd' = [rd EXCEPT ![c] = Replay(rd[c].todo \ {m})]
  /\ wire' = IF m \in ackIdx THEN wire \cup {m} ELSE wire
  /\ UNCHANGED <<keyVars, cursorVars, connVars, acks, channel, dlv, sub, ret, historyVars, disruptions>>

(* A command or a write fails, which is logged.                            *)
HSyncFails(c) ==
  /\ \/ rd[c].step = "sync" /\ open # c /\ UNCHANGED disruptions
     \/ rd[c].step \in {"list", "sync"} /\ Disrupt
  /\ rd' = [rd EXCEPT ![c] = RdIdle("loop")]
  /\ UNCHANGED <<keyVars, cursorVars, connVars, netVars, dlv, sub, ret, historyVars>>

\* The ACK that the handler works on, and whether its number is known.
HandsOver(c, m, known) ==
  rd' = [rd EXCEPT ![c] = [@ EXCEPT !.step = "ack", !.msg = m, !.known = known]]

(* AckMessageWithDB: the payload gives the number for the Redis cursor,    *)
(* whose error is only logged.                                             *)
HAck(c, m) ==
  /\ rd[c].step = "loop"
  /\ open = c /\ m \in acks
  /\ acks' = acks \ {m}
  /\ cursor' = IF m \in ackIdx THEN Larger(cursor, SeqNo[m]) ELSE cursor
  /\ HandsOver(c, m, m \in ackIdx)
  /\ UNCHANGED <<keyVars, dbCursor, connVars, wire, channel, dlv, sub, ret, historyVars, disruptions>>

HAckCursorFails(c, m) ==
  /\ rd[c].step = "loop"
  /\ open = c /\ m \in acks
  /\ Disrupt
  /\ acks' = acks \ {m}
  /\ \E known \in {FALSE, (m \in ackIdx)} : HandsOver(c, m, known)
  /\ UNCHANGED <<keyVars, cursorVars, connVars, wire, channel, dlv, sub, ret, historyVars>>

\* acknowledgeMessageScript: all four keys, if the payload is there.
Acknowledge(m) ==
  /\ m \in ackIdx
  /\ pending' = [pending EXCEPT ![m] = "none"]
  /\ ackIdx' = ackIdx \ {m}
  /\ retries' = [retries EXCEPT ![m] = 0]

(* The script, and UPDATE ... GREATEST(acked_seq, ?), whose error is only  *)
(* logged.                                                                 *)
HAckRemove(c) ==
  /\ rd[c].step = "ack"
  /\ \/ /\ Acknowledge(rd[c].msg)
        /\ \/ /\ dbCursor' = IF rd[c].known THEN Larger(dbCursor, SeqNo[rd[c].msg])
                            ELSE dbCursor
              /\ UNCHANGED disruptions
           \/ UNCHANGED dbCursor /\ Disrupt
     \/ /\ rd[c].msg \notin ackIdx
        /\ UNCHANGED <<keyVars, dbCursor, disruptions>>
  /\ rd' = [rd EXCEPT ![c] = RdIdle("loop")]
  /\ UNCHANGED <<cursor, connVars, netVars, dlv, sub, ret, historyVars>>

(* The script fails, before or after it took effect.                       *)
HAckFails(c) ==
  /\ rd[c].step = "ack"
  /\ Disrupt
  /\ Acknowledge(rd[c].msg) \/ UNCHANGED keyVars
  /\ rd' = [rd EXCEPT ![c] = RdIdle("loop")]
  /\ UNCHANGED <<cursorVars, connVars, netVars, dlv, sub, ret, historyVars>>

(* The socket is closed, or a heartbeat finds the route gone: the loop     *)
(* returns, and the deferred calls run: ClearRouteIfMatch ...              *)
HReturn(c) ==
  /\ rd[c].step = "loop"
  /\ open # c \/ route # c
  /\ ClearRouteIfMatch(c)
  /\ HStep(c, "remove")
  /\ UNCHANGED <<keyVars, cursorVars, local, open, latest, netVars, dlv, sub, ret, historyVars>>

(* ... then Manager.Remove and Close.                                      *)
HRemove(c) ==
  /\ rd[c].step = "remove"
  /\ CloseAndRemove(c)
  /\ HStep(c, "ended")
  /\ UNCHANGED <<keyVars, cursorVars, route, latest, channel, dlv, sub, ret, historyVars, disruptions>>

-----------------------------------------------------------------------------
(* The client acknowledges whatever it reads.                              *)
Receive(m) ==
  /\ m \in wire
  /\ wire' = wire \ {m}
  /\ acks' = acks \cup {m}
  /\ received' = received \cup {m}
  /\ UNCHANGED <<keyVars, cursorVars, connVars, channel, procVars, tracked, disruptions>>

(* The network drops the connection.                                       *)
Drop ==
  /\ open # 0
  /\ Disrupt
  /\ Close(open)
  /\ UNCHANGED <<keyVars, cursorVars, route, local, latest, channel, procVars, historyVars>>

-----------------------------------------------------------------------------
Deliver(d) ==
  \/ DTrack(d) \/ DTrackFails(d) \/ DRoute(d) \/ DPublish(d) \/ DPublishFails(d)
  \/ DClear(d)

Subscriber ==
  \/ \E env \in channel : SubTake(env)
  \/ SubWrite \/ SubWriteFails \/ SubClear \/ SubClose

RetryLoop ==
  \/ RScan \/ RLoad \/ RWrite \/ RWriteFails \/ RTouch
  \/ RPostpone \/ RClear \/ RClose
  \/ \E m \in Messages : RIncr(m)

Handler(c) ==
  \/ HClaim(c) \/ HClaimFails(c) \/ HList(c) \/ HSyncFails(c)
  \/ \E m \in Messages : HSync(c, m) \/ HAck(c, m) \/ HAckCursorFails(c, m)
  \/ HAckRemove(c) \/ HAckFails(c)
  \/ HReturn(c) \/ HRemove(c)

Next ==
  \/ \E d \in Deliveries : Deliver(d) \/ Redeliver(d)
  \/ Subscriber
  \/ \E env \in channel : Lose(env)
  \/ RetryLoop
  \/ \E m \in Messages : BecomeDue(m)
  \/ \E c \in Conns : Connect(c) \/ Handler(c)
  \/ \E m \in Messages : Receive(m)
  \/ Drop

(* The processes run, the timer passes, the network carries what it does   *)
(* not drop, and a client without a connection connects again.             *)
Fairness ==
  /\ \A d \in Deliveries : WF_vars(Deliver(d))
  /\ WF_vars(Subscriber)
  /\ WF_vars(RetryLoop)
  /\ \A m \in Messages : WF_vars(BecomeDue(m)) /\ WF_vars(Receive(m))
  /\ \A c \in Conns : WF_vars(Handler(c))
  /\ WF_vars(open = 0 /\ \E c \in Conns : Connect(c))

Spec == Init /\ [][Next]_vars

FairSpec == Spec /\ Fairness

-----------------------------------------------------------------------------
DSteps == {"track", "route", "publish", "clear", "done"}
SSteps == {"idle", "write", "clear", "close"}
RSteps == {"idle", "one", "load", "write", "touch", "postpone",
           "clear", "close"}
HSteps == {"unused", "claim", "list", "sync", "loop", "ack", "remove", "ended"}

Envelope == [msg : Messages, via : Conns]
Delivery == [step : DSteps, via : 0..MaxConns]
Push == [step : SSteps, msg : Messages \cup {"none"}, via : 0..MaxConns,
         conn : 0..MaxConns, why : {"none", "missing", "stale", "failed"}]
Retry == [step : RSteps, msg : Messages \cup {"none"}, via : 0..MaxConns,
          conn : 0..MaxConns, todo : SUBSET Messages]
Session == [step : HSteps, msg : Messages \cup {"none"}, known : BOOLEAN,
            todo : SUBSET Messages]

(* Types; at most the newest connection of the client is open, and only an *)
(* open one has messages and ACKs under way.                               *)
TypeOK ==
  /\ pending \in [Messages -> {"none", "fresh", "due"}]
  /\ ackIdx \subseteq Messages
  /\ retries \in [Messages -> 0..(MaxRetries + 1)]
  /\ cursor \in Nat /\ dbCursor \in Nat
  /\ route \in 0..MaxConns /\ local \in 0..MaxConns /\ latest \in 0..MaxConns
  /\ open \in {0, latest}
  /\ wire \subseteq Messages /\ acks \subseteq Messages
  /\ open = 0 => wire = {} /\ acks = {}
  /\ channel \subseteq Envelope /\ dlv \in [Deliveries -> Delivery]
  /\ sub \in Push /\ ret \in Retry /\ rd \in [Conns -> Session]
  /\ tracked \subseteq Messages /\ received \subseteq Messages
  /\ disruptions \in 0..MaxDisruptions

(* Until the client acknowledges it, a message that Deliver has accepted   *)
(* stays replayable: its entry and its payload are both there, whatever    *)
(* the retry loop gives up on, and whatever fails.                         *)
StaysReplayable ==
  \A m \in Messages :
    m \in tracked /\ m \notin received => pending[m] # "none" /\ m \in ackIdx

\* A connection that pushes are routed to and that has done its replay.
Healthy(c) ==
  /\ open = c /\ local = c /\ route = c
  /\ rd[c].step \in {"loop", "ack"}

UnderWay(m) ==
  \/ m \in wire
  \/ \E d \in Deliveries : MsgOf[d] = m /\ dlv[d].step \in {"route", "publish"}
  \/ \E env \in channel : env.msg = m
  \/ sub.msg = m

(* Deliver tracks the message and then reads the route; a login claims the *)
(* route and then lists what is pending.  So as long as nothing fails, a   *)
(* message never waits for the retry timer beside a healthy connection:    *)
(* one of the two sees the other.                                          *)
NoGap ==
  \A m \in Messages, c \in Conns :
    disruptions = 0 /\ m \in tracked /\ Healthy(c) => m \in received \/ UnderWay(m)

(* Every message Deliver accepts reaches the client, whatever envelopes    *)
(* are lost and sockets dropped, unless the retry loop has used up its     *)
(* attempts: after that only the next login's replay helps.  The bound:    *)
(* unless the client has used up its connections.                          *)
EventuallyReceived ==
  \A m \in Messages :
    m \in tracked ~> \/ m \in received
                     \/ retries[m] > MaxRetries
                     \/ latest = MaxConns /\ open = 0

(* "AckMessage atomically deletes pending, offline, payload index and      *)
(* retry count" (docs/handbook/11_RELIABILITY_AND_OFFLINE.md:450), and     *)
(* "Repeated ACKs are harmless and cannot recreate partially deleted       *)
(* state" (internal/server/ack_test.go:70): a pending entry always has its *)
(* payload, without which no ACK removes it.  It does not hold when an ACK *)
(* comes between a retry's socket write and its ZADD.                      *)
NoPartialState == \A m \in Messages : pending[m] # "none" => m \in ackIdx

=============================================================================
