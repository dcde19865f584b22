---------------------------- MODULE GatewayRoutes ----------------------------
(***************************************************************************)
(* Who holds the route of one user when several Gateways serve them        *)
(* (src/internal/server/: route.go, manager.go, client.go, retry.go, and   *)
(* websockethandler.go and main.go of src/cmd/gateway).                    *)
(*                                                                         *)
(* The user has one Redis key route:<uid> naming a Gateway and one of its  *)
(* connections, and is a member of gateway_users:<gateway> on the Gateways *)
(* whose retry loop shall scan them.  A Gateway registers one connection   *)
(* for the user in memory.  Handlers, the Pub/Sub subscriber and the retry *)
(* loop of each Gateway and the deliverer (RedisDelivery.Deliver) all read *)
(* and clear the route; every Redis command or script, operation of        *)
(* ClientManager, socket write and socket close is a step of its own.      *)
(*                                                                         *)
(* What is delivered is the business of module PendingAck: here an         *)
(* envelope is the route it was addressed to.  gateway_live and            *)
(* gateway_conn, which no code reads, are left out.                        *)
(***************************************************************************)
EXTENDS Naturals

CONSTANTS
  Gateways,
  MaxConns,       \* bound: connections the user opens
  Placements,     \* SUBSET [1..MaxConns -> Gateways]: where logins may go
  MaxDisruptions  \* bound: crashes, dropped sockets, failed commands, late
                  \* heartbeats

Conns == 1..MaxConns      \* connection ids, in the order of ClientManager.Add

ASSUME GatewayRoutesAssumption ==
  /\ MaxConns \in Nat
  /\ Placements \subseteq [Conns -> Gateways]
  /\ MaxDisruptions \in Nat

VARIABLES
  route,        \* Redis route: the connection it names, 0 when there is none
  home,         \* [Conns -> Gateways], where the balancer sends a login
  users,        \* the Gateways g with the user in Redis gateway_users:g
  local,        \* [Gateways -> connection registered in Manager, or 0]
  open,         \* connections whose socket is open
  hdl,          \* [Conns -> [step, prev]], the handlers
  subscribed,   \* Gateways subscribed to their Pub/Sub channel
  channel,      \* envelopes on their way: the connection each names
  sub,          \* [Gateways -> [step, via, conn]], the subscribers
  ret,          \* [Gateways -> [step, via, conn]], the retry loops
  pub,          \* the deliverer: [step, via]
  boot,         \* [Gateways -> [step, via]], main() up to the listener
  disruptions

redisVars == <<route, users>>
connVars == <<local, open, hdl>>
netVars == <<subscribed, channel>>
vars == <<home, redisVars, connVars, netVars, sub, ret, pub, boot, disruptions>>

Idle == [step |-> "idle", via |-> 0, conn |-> 0]

Init ==
  /\ home \in Placements
  /\ route = 0 /\ users = {}
  /\ local = [g \in Gateways |-> 0] /\ open = {}
  /\ hdl = [c \in Conns |-> [step |-> "unused", prev |-> 0]]
  /\ subscribed = Gateways /\ channel = {}
  /\ sub = [g \in Gateways |-> Idle]
  /\ ret = [g \in Gateways |-> Idle]
  /\ pub = [step |-> "idle", via |-> 0]
  /\ boot = [g \in Gateways |-> [step |-> "up", via |-> 0]]
  /\ disruptions = 0

Disrupt ==
  /\ disruptions < MaxDisruptions
  /\ disruptions' = disruptions + 1

Up(g) == boot[g].step = "up"

-----------------------------------------------------------------------------
(* Commands several processes share.                                       *)

\* Faulty: the route is deleted without comparing it.
ClearUnmatched(c) ==
  /\ route' = 0
  /\ users' = users \ {home[c]}

\* clearRouteScript: GET, DEL, SREM.
ClearIfMatch(c) ==
  IF route = c
    THEN /\ route' = 0
         /\ users' = users \ {home[c]}
    ELSE UNCHANGED redisVars

\* Its error is ignored, or logged, by every caller.
ClearRouteIfMatch(c) ==
  \/ ClearIfMatch(c) /\ UNCHANGED disruptions
  \/ UNCHANGED redisVars /\ Disrupt

\* ClientManager.Remove: CompareAndDelete.
Remove(g, c) == local' = [local EXCEPT ![g] = IF @ = c THEN 0 ELSE @]

-----------------------------------------------------------------------------
(* The handler of one connection.                                          *)

HStep(c, step) == hdl' = [hdl EXCEPT ![c].step = step]

\* ClientManager.Add: Swap; the socket was just upgraded.
HAdd(c) ==
  LET g == home[c] IN
  /\ Up(g)
  /\ hdl[c].step = "unused"
  /\ \A d \in Conns : d < c => hdl[d].step # "unused"
  /\ hdl' = [hdl EXCEPT ![c] = [step |-> IF local[g] = 0 THEN "claim" ELSE "kick",
                                prev |-> local[g]]]
  /\ local' = [local EXCEPT ![g] = c]
  /\ open' = open \cup {c}
  /\ UNCHANGED <<home, redisVars, netVars, sub, ret, pub, boot, disruptions>>

\* ClientManager.Add: Close of the previous connection.
HKick(c) ==
  /\ hdl[c].step = "kick"
  /\ open' = open \ {hdl[c].prev}
  /\ hdl' = [hdl EXCEPT ![c] = [step |-> "claim", prev |-> 0]]
  /\ UNCHANGED <<home, redisVars, local, netVars, sub, ret, pub, boot, disruptions>>

\* The transaction SET route, SADD gateway_users.
HClaim(c) ==
  /\ hdl[c].step = "claim"
  /\ route' = c
  /\ users' = users \cup {home[c]}
  /\ HStep(c, "serve")
  /\ UNCHANGED <<home, local, open, netVars, sub, ret, pub, boot, disruptions>>

\* It fails, before or after it took effect; the clearing of the route is
\* not deferred yet.
HClaimFails(c) ==
  /\ hdl[c].step = "claim"
  /\ Disrupt
  /\ \/ UNCHANGED redisVars
     \/ route' = c /\ users' = users \cup {home[c]}
  /\ HStep(c, "remove")
  /\ UNCHANGED <<home, local, open, netVars, sub, ret, pub, boot>>

\* Faulty: the result of the script is not looked at.
RefreshTolerates(c) ==
  /\ users' = IF route = c THEN users \cup {home[c]} ELSE users
  /\ UNCHANGED <<route, hdl>>

\* Faulty: the script only extends the route.
RefreshForgetsUsers(c) ==
  /\ hdl' = IF route = c THEN hdl ELSE [hdl EXCEPT ![c].step = "clear"]
  /\ UNCHANGED redisVars

\* RefreshRouteIfMatch, and the return when the route is not owned.
Refresh(c) ==
  \/ /\ route = c
     /\ users' = users \cup {home[c]}
     /\ UNCHANGED <<route, hdl>>
  \/ /\ route # c
     /\ HStep(c, "clear")
     /\ UNCHANGED redisVars

HHeartbeat(c) ==
  /\ hdl[c].step = "serve" /\ c \in open
  /\ Refresh(c)
  /\ UNCHANGED <<home, local, open, netVars, sub, ret, pub, boot, disruptions>>

\* Reading from or writing to the closed socket fails: the replay or the
\* client loop returns.
HReturn(c) ==
  /\ hdl[c].step = "serve" /\ c \notin open
  /\ HStep(c, "clear")
  /\ UNCHANGED <<home, redisVars, local, open, netVars, sub, ret, pub, boot, disruptions>>

\* Redis, MySQL or a write fails in the replay or in a heartbeat.
HFails(c) ==
  /\ hdl[c].step = "serve" /\ c \in open
  /\ Disrupt
  /\ HStep(c, "clear")
  /\ UNCHANGED <<home, redisVars, local, open, netVars, sub, ret, pub, boot>>

\* The deferred calls, last to first.
HClear(c) ==
  /\ hdl[c].step = "clear"
  /\ ClearRouteIfMatch(c)
  /\ HStep(c, "remove")
  /\ UNCHANGED <<home, local, open, netVars, sub, ret, pub, boot>>

HRemove(c) ==
  /\ hdl[c].step = "remove"
  /\ Remove(home[c], c)
  /\ HStep(c, "close")
  /\ UNCHANGED <<home, redisVars, open, netVars, sub, ret, pub, boot, disruptions>>

HClose(c) ==
  /\ hdl[c].step = "close"
  /\ open' = open \ {c}
  /\ HStep(c, "ended")
  /\ UNCHANGED <<home, redisVars, local, netVars, sub, ret, pub, boot, disruptions>>

-----------------------------------------------------------------------------
(* RedisDelivery.Deliver, over and over.                                   *)

PRoute ==
  /\ pub.step = "idle" /\ route # 0
  /\ pub' = [step |-> "publish", via |-> route]
  /\ UNCHANGED <<home, redisVars, connVars, netVars, sub, ret, boot, disruptions>>

PPublish ==
  /\ pub.step = "publish"
  /\ IF home[pub.via] \in subscribed
       THEN /\ channel' = channel \cup {pub.via}
            /\ pub' = [step |-> "idle", via |-> 0]
       ELSE /\ pub' = [pub EXCEPT !.step = "clear"]
            /\ UNCHANGED channel
  /\ UNCHANGED <<home, redisVars, connVars, subscribed, sub, ret, boot, disruptions>>

\* PUBLISH returns an error, and 0.
PPublishFails ==
  /\ pub.step = "publish"
  /\ Disrupt
  /\ pub' = [pub EXCEPT !.step = "clear"]
  /\ UNCHANGED <<home, redisVars, connVars, netVars, sub, ret, boot>>

PClear ==
  /\ pub.step = "clear"
  /\ ClearRouteIfMatch(pub.via)
  /\ pub' = [step |-> "idle", via |-> 0]
  /\ UNCHANGED <<home, connVars, netVars, sub, ret, boot>>

-----------------------------------------------------------------------------
(* The subscriber of a Gateway.                                            *)

SubTo(g, step) == sub' = [sub EXCEPT ![g] = IF step = "idle" THEN Idle
                                            ELSE [@ EXCEPT !.step = step]]

SubTake(g, c) ==
  /\ Up(g) /\ sub[g].step = "idle"
  /\ c \in channel /\ home[c] = g
  /\ channel' = channel \ {c}
  /\ sub' = [sub EXCEPT ![g] =
               [step |-> IF local[g] = 0 THEN "clear"
                         ELSE IF local[g] = c THEN "write" ELSE "close",
                via |-> c, conn |-> local[g]]]
  /\ UNCHANGED <<home, redisVars, connVars, subscribed, ret, pub, boot, disruptions>>

SubWrite(g) ==
  /\ sub[g].step = "write"
  /\ sub[g].conn \in open
  /\ SubTo(g, "idle")
  /\ UNCHANGED <<home, redisVars, connVars, netVars, ret, pub, boot, disruptions>>

SubWriteFails(g) ==
  /\ sub[g].step = "write"
  /\ \/ sub[g].conn \notin open /\ UNCHANGED disruptions
     \/ sub[g].conn \in open /\ Disrupt
  /\ SubTo(g, "clear")
  /\ UNCHANGED <<home, redisVars, connVars, netVars, ret, pub, boot>>

\* After a failed write, or with no connection registered.
SubClear(g) ==
  /\ sub[g].step = "clear"
  /\ ClearRouteIfMatch(sub[g].via)
  /\ SubTo(g, IF sub[g].conn = 0 THEN "idle" ELSE "close")
  /\ UNCHANGED <<home, connVars, netVars, ret, pub, boot>>

SubClose(g) ==
  /\ sub[g].step = "close"
  /\ open' = open \ {sub[g].conn}
  /\ Remove(g, sub[g].conn)
  /\ SubTo(g, "idle")
  /\ UNCHANGED <<home, redisVars, hdl, netVars, ret, pub, boot, disruptions>>

-----------------------------------------------------------------------------
(* The retry loop of a Gateway: the part that concerns the route.          *)

RetTo(g, step) == ret' = [ret EXCEPT ![g] = IF step = "idle" THEN Idle
                                            ELSE [@ EXCEPT !.step = step]]

\* SMEMBERS gateway_users has the user; GET route, and GetConn if it is ours.
RGet(g) ==
  /\ Up(g) /\ ret[g].step = "idle"
  /\ g \in users
  /\ IF route # 0 /\ home[route] = g
       THEN /\ local[g] # 0
            /\ ret' = [ret EXCEPT ![g] = [step |-> "write", via |-> route, conn |-> local[g]]]
       ELSE ret' = [ret EXCEPT ![g] = [step |-> "srem", via |-> 0, conn |-> 0]]
  /\ UNCHANGED <<home, redisVars, connVars, netVars, sub, pub, boot, disruptions>>

\* The user was here and is not any more.
RSRem(g) ==
  /\ ret[g].step = "srem"
  /\ users' = users \ {g}
  /\ RetTo(g, "idle")
  /\ UNCHANGED <<home, route, connVars, netVars, sub, pub, boot, disruptions>>

\* Everything due was written.
RWrite(g) ==
  /\ ret[g].step = "write"
  /\ RetTo(g, "idle")
  /\ UNCHANGED <<home, redisVars, connVars, netVars, sub, pub, boot, disruptions>>

RWriteFails(g) ==
  /\ ret[g].step = "write"
  /\ \/ ret[g].conn \notin open /\ UNCHANGED disruptions
     \/ ret[g].conn \in open /\ Disrupt
  /\ RetTo(g, "clear")
  /\ UNCHANGED <<home, redisVars, connVars, netVars, sub, pub, boot>>

RClear(g) ==
  /\ ret[g].step = "clear"
  /\ ClearRouteIfMatch(ret[g].via)
  /\ RetTo(g, "close")
  /\ UNCHANGED <<home, connVars, netVars, sub, pub, boot>>

RClose(g) ==
  /\ ret[g].step = "close"
  /\ open' = open \ {ret[g].conn}
  /\ Remove(g, ret[g].conn)
  /\ RetTo(g, "idle")
  /\ UNCHANGED <<home, redisVars, hdl, netVars, sub, pub, boot, disruptions>>

-----------------------------------------------------------------------------
(* A Gateway starts: CleanupGatewayRoutes, then the subscriber and the     *)
(* listener side by side.  A deferred call does not run when it stops.     *)

BootTo(g, step) == boot' = [boot EXCEPT ![g] = [step |-> step, via |-> 0]]

\* SMEMBERS gateway_users, GET route.
BootGet(g) ==
  /\ boot[g].step = "users"
  /\ boot' = [boot EXCEPT ![g] =
               IF g \notin users THEN [step |-> "up", via |-> 0]
               ELSE IF route # 0 /\ home[route] = g
                 THEN [step |-> "clear", via |-> route]
                 ELSE [step |-> "srem", via |-> 0]]
  /\ UNCHANGED <<home, redisVars, connVars, netVars, sub, ret, pub, disruptions>>

BootSRem(g) ==
  /\ boot[g].step = "srem"
  /\ users' = users \ {g}
  /\ BootTo(g, "up")
  /\ UNCHANGED <<home, route, connVars, netVars, sub, ret, pub, disruptions>>

BootClear(g) ==
  /\ boot[g].step = "clear"
  /\ ClearRouteIfMatch(boot[g].via)
  /\ BootTo(g, "up")
  /\ UNCHANGED <<home, connVars, netVars, sub, ret, pub>>

Subscribe(g) ==
  /\ Up(g) /\ g \notin subscribed
  /\ subscribed' = subscribed \cup {g}
  /\ UNCHANGED <<home, redisVars, connVars, channel, sub, ret, pub, boot, disruptions>>

Here(g) == {c \in Conns : home[c] = g /\ hdl[c].step # "unused"}

Crash(g) ==
  /\ Up(g)
  /\ Disrupt
  /\ boot' = [boot EXCEPT ![g].step = "users"]
  /\ local' = [local EXCEPT ![g] = 0]
  /\ open' = open \ Here(g)
  /\ hdl' = [c \in Conns |-> IF c \in Here(g) THEN [step |-> "ended", prev |-> 0]
                                              ELSE hdl[c]]
  /\ subscribed' = subscribed \ {g}
  /\ channel' = channel \ Here(g)
  /\ sub' = [sub EXCEPT ![g] = Idle]
  /\ ret' = [ret EXCEPT ![g] = Idle]
  /\ UNCHANGED <<home, redisVars, pub>>

-----------------------------------------------------------------------------
(* The outside.                                                            *)

\* The client goes away, the network fails, or the read deadline passes.
Drop(c) ==
  /\ c \in open
  /\ Disrupt
  /\ open' = open \ {c}
  /\ UNCHANGED <<home, redisVars, local, hdl, netVars, sub, ret, pub, boot>>

\* The route's TTL passes with nobody to refresh it ...
Expire ==
  /\ route # 0
  /\ ~ (hdl[route].step = "serve" /\ route \in open)
  /\ route' = 0
  /\ UNCHANGED <<home, users, connVars, netVars, sub, ret, pub, boot, disruptions>>

\* ... or before a heartbeat that comes late.
ExpireEarly ==
  /\ route # 0
  /\ Disrupt
  /\ route' = 0
  /\ UNCHANGED <<home, users, connVars, netVars, sub, ret, pub, boot>>

-----------------------------------------------------------------------------
Handler(c) ==
  \/ HKick(c) \/ HClaim(c) \/ HClear(c) \/ HRemove(c) \/ HClose(c)
  \/ HHeartbeat(c) \/ HReturn(c)

Deliver == PRoute \/ PPublish \/ PPublishFails \/ PClear

Subscriber(g) ==
  \/ \E c \in Conns : SubTake(g, c)
  \/ SubWrite(g) \/ SubWriteFails(g) \/ SubClear(g) \/ SubClose(g)

RetryLoop(g) ==
  \/ RGet(g) \/ RSRem(g) \/ RWrite(g) \/ RWriteFails(g)
  \/ RClear(g) \/ RClose(g)

Gateway(g) == BootGet(g) \/ BootSRem(g) \/ BootClear(g) \/ Subscribe(g) \/ Crash(g)

Next ==
  \/ \E c \in Conns : HAdd(c) \/ Handler(c) \/ HClaimFails(c) \/ HFails(c) \/ Drop(c)
  \/ Deliver
  \/ \E g \in Gateways : Subscriber(g) \/ RetryLoop(g) \/ Gateway(g)
  \/ Expire \/ ExpireEarly

Spec == Init /\ [][Next]_vars

\* A handler runs on while its Gateway does, and a client that is connected
\* sends heartbeats (one that does not is cut off by the read deadline).
FairSpec == Spec /\ \A c \in Conns : WF_vars(Handler(c))

-----------------------------------------------------------------------------
(* Properties.                                                             *)

\* A subscriber or retry loop has failed on c, or was told to, and will
\* close it.
Condemned(c) ==
  \E g \in Gateways :
    \E p \in {sub[g], ret[g]} : p.conn = c /\ p.step \in {"clear", "close"}

\* Connection c is registered, open and in its client loop, and nobody is
\* about to close it.
Served(c) ==
  /\ hdl[c].step = "serve"
  /\ c \in open
  /\ local[home[c]] = c
  /\ ~ Condemned(c)

Refs == 0..MaxConns
Process == [step : {"idle", "srem", "write", "clear", "close"}, via : Refs, conn : Refs]

\* Types; a connection is used only where there is one.
TypeOK ==
  /\ home \in [Conns -> Gateways]
  /\ route \in Refs /\ users \subseteq Gateways
  /\ local \in [Gateways -> Refs]
  /\ open \subseteq Conns
  /\ hdl \in [Conns -> [step : {"unused", "kick", "claim", "serve", "clear", "remove",
                               "close", "ended"}, prev : Refs]]
  /\ subscribed \subseteq Gateways /\ channel \subseteq Conns
  /\ sub \in [Gateways -> Process] /\ ret \in [Gateways -> Process]
  /\ \A g \in Gateways :
       /\ sub[g].step \in {"write", "close"} => sub[g].conn # 0
       /\ ret[g].step \in {"write", "clear", "close"} => ret[g].conn # 0
  /\ pub \in [step : {"idle", "publish", "clear"}, via : Refs]
  /\ boot \in [Gateways -> [step : {"users", "srem", "clear", "up"}, via : Refs]]
  /\ disruptions \in 0..MaxDisruptions

\* One Gateway never leaves two sockets of the user open: a socket is the
\* registered one, or its handler is leaving, or somebody is about to close
\* it (ClientManager's Swap and CompareAndDelete).
OpenIsRegistered ==
  \A c \in open :
    \/ local[home[c]] = c
    \/ hdl[c].step \in {"clear", "remove", "close"}
    \/ \E d \in Conns : hdl[d] = [step |-> "kick", prev |-> c]
    \/ Condemned(c)

\* A connection that is served keeps the route until a login claims it, its
\* TTL passes or a command fails: neither the deferred calls of an older
\* connection, a late envelope, the retry loop, nor the cleanup of a Gateway
\* that restarts takes it away.  Only a deliverer who found no subscriber,
\* because the Gateway was still starting, may.
ServedRouteKept ==
  [][\A c \in Conns :
       Served(c) /\ route = c /\ route' = 0
         => \/ disruptions' # disruptions
            \/ pub = [step |-> "clear", via |-> c]]_vars

\* A connection that has lost the route never takes it back: the route comes
\* to name a connection only by that connection's own claim.
NoTakeBack ==
  [][\A c \in Conns : route # c /\ route' = c => hdl[c].step = "claim"]_vars

\* A connection that has lost the route does not live on: from some time on
\* a client loop that still runs is the route's own.
StaleConnectionsClose ==
  \A c \in Conns : <>[](hdl[c].step = "serve" => route = c)

\* A connection that keeps the route is scanned by its Gateway's retry loop
\* from some time on, whatever SREM raced its claim.
RetriesResume ==
  \A c \in Conns :
    <>[](Served(c) /\ route = c) => <>[](home[c] \in users)

\* docs/handbook/10_MULTI_GATEWAY_CHAT.md:434: the connection id keeps a
\* late notice away from a newer connection of the user.
NoticesAreFenced ==
  \A g \in Gateways :
    LET c == sub[g].conn IN
    sub[g].step = "close" /\ sub[g].via < c => ~ (hdl[c].step = "serve" /\ route = c)
=============================================================================
