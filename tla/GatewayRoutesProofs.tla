------------------------- MODULE GatewayRoutesProofs -------------------------
(***************************************************************************)
(* Theorems of GatewayRoutes, for any number of Gateways, logins and       *)
(* failures.  The invariant says of each variable its type and that the    *)
(* connections it names were opened at the right Gateway (State), and that *)
(* who is about to clear a route has failed on its connection, or found    *)
(* another one or none registered (Clears).  The latter lasts because a    *)
(* connection is registered once, before it claims.                        *)
(*                                                                         *)
(* The second part is about PushPool, which runs what a Gateway's sockets  *)
(* send, for any sockets, shards, messages and room.                       *)
(***************************************************************************)
EXTENDS GatewayRoutes, PushPool, TLAPS

Used(c) == hdl[c].step # "unused"

AtHome(c, g) == c # 0 => Used(c) /\ home[c] = g

HandlersOK ==
  /\ hdl \in [Conns -> [step : {"unused", "kick", "claim", "serve", "clear", "remove",
                               "close", "ended"}, prev : Refs]]
  /\ \A c \in Conns : AtHome(hdl[c].prev, home[c])

RouteOK == route \in Refs /\ (route # 0 => Used(route))

LocalOK == local \in [Gateways -> Refs] /\ \A g \in Gateways : AtHome(local[g], g)

OpenOK == open \subseteq Conns /\ \A c \in open : Used(c)

ChannelOK == channel \subseteq Conns /\ \A c \in channel : Used(c)

PubOK ==
  /\ pub \in [step : {"idle", "publish", "clear"}, via : Refs]
  /\ pub.step # "idle" => pub.via # 0 /\ Used(pub.via)

\* A subscriber, or a retry loop.
ProcessOK(p, g) == p \in Process /\ AtHome(p.via, g) /\ AtHome(p.conn, g)

SubOK ==
  /\ DOMAIN sub = Gateways /\ sub = [g \in Gateways |-> sub[g]]
  /\ \A g \in Gateways :
       ProcessOK(sub[g], g) /\ (sub[g].step \in {"write", "close"} => sub[g].conn # 0)

RetOK ==
  /\ DOMAIN ret = Gateways /\ ret = [g \in Gateways |-> ret[g]]
  /\ \A g \in Gateways :
       ProcessOK(ret[g], g) /\ (ret[g].step \in {"write", "clear", "close"} => ret[g].conn # 0)

BootOK ==
  /\ boot \in [Gateways -> [step : {"users", "srem", "clear", "up"}, via : Refs]]
  /\ \A g \in Gateways : AtHome(boot[g].via, g)

RestOK ==
  /\ home \in [Conns -> Gateways] /\ disruptions \in 0..MaxDisruptions
  /\ users \subseteq Gateways /\ subscribed \subseteq Gateways

State ==
  /\ HandlersOK /\ RouteOK /\ LocalOK /\ OpenOK /\ ChannelOK
  /\ PubOK /\ SubOK /\ RetOK /\ BootOK /\ RestOK

\* The route a process may clear is that of its own connection, or of one
\* that is not registered.
May(p, g) ==
  p.step \in {"write", "clear"} => p.via # 0 /\ (p.conn = p.via \/ local[g] # p.via)

SubMay == \A g \in Gateways : May(sub[g], g)
RetMay == \A g \in Gateways : May(ret[g], g)

\* A Gateway that starts has no connection registered.
BootMay == \A g \in Gateways : ~ Up(g) => local[g] = 0

Safe == State /\ SubMay /\ RetMay /\ BootMay

-----------------------------------------------------------------------------
(* A reference is a connection, or 0 for none.                             *)
LEMMA RefFacts ==
  /\ Conns \subseteq Refs /\ 0 \in Refs /\ 0 \notin Conns
  /\ \A r \in Refs : r # 0 => r \in Conns
BY GatewayRoutesAssumption DEF Refs, Conns

(* The invariant contains the type invariant.                              *)
LEMMA StateHasTypes == State => TypeOK
<1> SUFFICES ASSUME State PROVE TypeOK
  OBVIOUS
<1>1. sub \in [Gateways -> Process] /\ ret \in [Gateways -> Process]
  BY DEF State, SubOK, RetOK, ProcessOK
<1>2. \A g \in Gateways :
        /\ sub[g].step \in {"write", "close"} => sub[g].conn # 0
        /\ ret[g].step \in {"write", "clear", "close"} => ret[g].conn # 0
  BY DEF State, SubOK, RetOK
<1>3. QED
  BY <1>1, <1>2 DEF State, TypeOK, HandlersOK, RouteOK, LocalOK, OpenOK, ChannelOK, PubOK,
     BootOK, RestOK

(* The invariants hold initially.                                          *)
LEMMA InitSafe == Init => Safe /\ OpenIsRegistered
<1> SUFFICES ASSUME Init PROVE Safe /\ OpenIsRegistered
  OBVIOUS
<1> USE GatewayRoutesAssumption, RefFacts DEF Init, Idle, Used, AtHome
<1>1. HandlersOK /\ RouteOK /\ LocalOK /\ OpenOK /\ ChannelOK /\ PubOK
  BY DEF HandlersOK, RouteOK, LocalOK, OpenOK, ChannelOK, PubOK
<1>2. SubOK /\ RetOK /\ BootOK /\ RestOK
  BY DEF SubOK, RetOK, ProcessOK, Process, BootOK, RestOK
<1>3. SubMay /\ RetMay /\ BootMay /\ OpenIsRegistered
  BY DEF SubMay, RetMay, May, BootMay, Up, OpenIsRegistered
<1>4. QED
  BY <1>1, <1>2, <1>3 DEF Safe, State

-----------------------------------------------------------------------------
(* Which actions change what.                                              *)

(* The actions that may change the route ...                               *)
LEMMA RouteChanges ==
  [Next]_vars =>
    \/ UNCHANGED route
    \/ \E c \in Conns : HClaim(c) \/ HClaimFails(c) \/ HHeartbeat(c) \/ HClear(c)
    \/ PClear \/ Expire \/ ExpireEarly
    \/ \E g \in Gateways : SubClear(g) \/ RClear(g) \/ BootClear(g)
BY DEF Next, Handler, Deliver, Subscriber, RetryLoop, Gateway, vars, redisVars,
   connVars, netVars, HAdd, HKick, HReturn, HFails, HRemove, HClose, Drop, PRoute,
   PPublish, PPublishFails, SubTake, SubWrite, SubWriteFails, SubClose, RGet, RSRem,
   RWrite, RWriteFails, RClose, BootGet, BootSRem, Subscribe, Crash, Refresh

(* ... the members of gateway_users ...                                    *)
LEMMA UsersChanges ==
  [Next]_vars =>
    \/ UNCHANGED users
    \/ \E c \in Conns : HClaim(c) \/ HClaimFails(c) \/ HHeartbeat(c) \/ HClear(c)
    \/ PClear
    \/ \E g \in Gateways : SubClear(g) \/ RClear(g) \/ RSRem(g) \/ BootSRem(g) \/ BootClear(g)
BY DEF Next, Handler, Deliver, Subscriber, RetryLoop, Gateway, vars, redisVars,
   connVars, netVars, HAdd, HKick, HReturn, HFails, HRemove, HClose, Drop, PRoute,
   PPublish, PPublishFails, SubTake, SubWrite, SubWriteFails, SubClose, RGet, RWrite,
   RWriteFails, RClose, BootGet, Subscribe, Crash, Expire, ExpireEarly

(* ... a handler ...                                                       *)
LEMMA HandlersChanges ==
  [Next]_vars =>
    \/ UNCHANGED hdl
    \/ \E c \in Conns : HAdd(c) \/ HKick(c) \/ HClaim(c) \/ HClaimFails(c) \/ HHeartbeat(c) \/
         HReturn(c) \/ HFails(c) \/ HClear(c) \/ HRemove(c) \/ HClose(c)
    \/ \E g \in Gateways : Crash(g)
BY DEF Next, Handler, Deliver, Subscriber, RetryLoop, Gateway, vars, redisVars,
   connVars, netVars, Drop, PRoute, PPublish, PPublishFails, PClear, SubTake, SubWrite,
   SubWriteFails, SubClear, SubClose, RGet, RSRem, RWrite, RWriteFails, RClear, RClose,
   BootGet, BootSRem, BootClear, Subscribe, Expire, ExpireEarly

(* ... the registered connections ...                                      *)
LEMMA LocalChanges ==
  [Next]_vars =>
    \/ UNCHANGED local
    \/ \E c \in Conns : HAdd(c) \/ HRemove(c)
    \/ \E g \in Gateways : SubClose(g) \/ RClose(g) \/ Crash(g)
BY DEF Next, Handler, Deliver, Subscriber, RetryLoop, Gateway, vars, redisVars,
   connVars, netVars, HKick, HClaim, HClaimFails, HHeartbeat, HReturn, HFails, HClear,
   HClose, Drop, PRoute, PPublish, PPublishFails, PClear, SubTake, SubWrite,
   SubWriteFails, SubClear, RGet, RSRem, RWrite, RWriteFails, RClear, BootGet, BootSRem,
   BootClear, Subscribe, Expire, ExpireEarly

(* ... the open sockets ...                                                *)
LEMMA OpenChanges ==
  [Next]_vars =>
    \/ UNCHANGED open
    \/ \E c \in Conns : HAdd(c) \/ HKick(c) \/ HClose(c) \/ Drop(c)
    \/ \E g \in Gateways : SubClose(g) \/ RClose(g) \/ Crash(g)
BY DEF Next, Handler, Deliver, Subscriber, RetryLoop, Gateway, vars, redisVars,
   connVars, netVars, HClaim, HClaimFails, HHeartbeat, HReturn, HFails, HClear, HRemove,
   PRoute, PPublish, PPublishFails, PClear, SubTake, SubWrite, SubWriteFails, SubClear,
   RGet, RSRem, RWrite, RWriteFails, RClear, BootGet, BootSRem, BootClear, Subscribe,
   Expire, ExpireEarly

(* ... the subscriptions ...                                               *)
LEMMA SubscribedChanges ==
  [Next]_vars =>
    \/ UNCHANGED subscribed
    \/ \E g \in Gateways : Subscribe(g) \/ Crash(g)
BY DEF Next, Handler, Deliver, Subscriber, RetryLoop, Gateway, vars, redisVars,
   connVars, netVars, HAdd, HKick, HClaim, HClaimFails, HHeartbeat, HReturn, HFails,
   HClear, HRemove, HClose, Drop, PRoute, PPublish, PPublishFails, PClear, SubTake,
   SubWrite, SubWriteFails, SubClear, SubClose, RGet, RSRem, RWrite, RWriteFails,
   RClear, RClose, BootGet, BootSRem, BootClear, Expire, ExpireEarly

(* ... the envelopes on their way ...                                      *)
LEMMA ChannelChanges ==
  [Next]_vars =>
    \/ UNCHANGED channel
    \/ PPublish
    \/ \E g \in Gateways : Crash(g)
    \/ \E g \in Gateways, c \in Conns : SubTake(g, c)
BY DEF Next, Handler, Deliver, Subscriber, RetryLoop, Gateway, vars, redisVars,
   connVars, netVars, HAdd, HKick, HClaim, HClaimFails, HHeartbeat, HReturn, HFails,
   HClear, HRemove, HClose, Drop, PRoute, PPublishFails, PClear, SubWrite,
   SubWriteFails, SubClear, SubClose, RGet, RSRem, RWrite, RWriteFails, RClear, RClose,
   BootGet, BootSRem, BootClear, Subscribe, Expire, ExpireEarly

(* ... the deliverer ...                                                   *)
LEMMA PubChanges ==
  [Next]_vars =>
    \/ UNCHANGED pub
    \/ PRoute \/ PPublish \/ PPublishFails \/ PClear
BY DEF Next, Handler, Deliver, Subscriber, RetryLoop, Gateway, vars, redisVars,
   connVars, netVars, HAdd, HKick, HClaim, HClaimFails, HHeartbeat, HReturn, HFails,
   HClear, HRemove, HClose, Drop, SubTake, SubWrite, SubWriteFails, SubClear, SubClose,
   RGet, RSRem, RWrite, RWriteFails, RClear, RClose, BootGet, BootSRem, BootClear,
   Subscribe, Crash, Expire, ExpireEarly

(* ... a subscriber ...                                                    *)
LEMMA SubChanges ==
  [Next]_vars =>
    \/ UNCHANGED sub
    \/ \E g \in Gateways : SubWrite(g) \/ SubWriteFails(g) \/ SubClear(g) \/ SubClose(g)
       \/ Crash(g)
    \/ \E g \in Gateways, c \in Conns : SubTake(g, c)
BY DEF Next, Handler, Deliver, Subscriber, RetryLoop, Gateway, vars, redisVars,
   connVars, netVars, HAdd, HKick, HClaim, HClaimFails, HHeartbeat, HReturn, HFails,
   HClear, HRemove, HClose, Drop, PRoute, PPublish, PPublishFails, PClear, RGet, RSRem,
   RWrite, RWriteFails, RClear, RClose, BootGet, BootSRem, BootClear, Subscribe, Expire,
   ExpireEarly

(* ... a retry loop ...                                                    *)
LEMMA RetChanges ==
  [Next]_vars =>
    \/ UNCHANGED ret
    \/ \E g \in Gateways : RGet(g) \/ RSRem(g) \/ RWrite(g) \/ RWriteFails(g) \/ RClear(g) \/
         RClose(g) \/ Crash(g)
BY DEF Next, Handler, Deliver, Subscriber, RetryLoop, Gateway, vars, redisVars,
   connVars, netVars, HAdd, HKick, HClaim, HClaimFails, HHeartbeat, HReturn, HFails,
   HClear, HRemove, HClose, Drop, PRoute, PPublish, PPublishFails, PClear, SubTake,
   SubWrite, SubWriteFails, SubClear, SubClose, BootGet, BootSRem, BootClear, Subscribe,
   Expire, ExpireEarly

(* ... and the start of a Gateway.                                         *)
LEMMA BootChanges ==
  [Next]_vars =>
    \/ UNCHANGED boot
    \/ \E g \in Gateways : BootGet(g) \/ BootSRem(g) \/ BootClear(g) \/ Crash(g)
BY DEF Next, Handler, Deliver, Subscriber, RetryLoop, Gateway, vars, redisVars,
   connVars, netVars, HAdd, HKick, HClaim, HClaimFails, HHeartbeat, HReturn, HFails,
   HClear, HRemove, HClose, Drop, PRoute, PPublish, PPublishFails, PClear, SubTake,
   SubWrite, SubWriteFails, SubClear, SubClose, RGet, RSRem, RWrite, RWriteFails,
   RClear, RClose, Subscribe, Expire, ExpireEarly

(* A login's place is fixed, and failures are counted.                     *)
LEMMA HomeAndFailures ==
  [Next]_vars => home' = home /\ (disruptions' = disruptions \/ Disrupt)
BY DEF Next, Handler, Deliver, Subscriber, RetryLoop, Gateway, vars, ClearRouteIfMatch,
   HAdd, HKick, HClaim, HClaimFails, HHeartbeat, HReturn, HFails, HClear, HRemove,
   HClose, Drop, PRoute, PPublish, PPublishFails, PClear, SubTake, SubWrite,
   SubWriteFails, SubClear, SubClose, RGet, RSRem, RWrite, RWriteFails, RClear, RClose,
   BootGet, BootSRem, BootClear, Subscribe, Crash, Expire, ExpireEarly

-----------------------------------------------------------------------------
(* Every variable keeps its type, and names what it may.                   *)

(* A connection that was opened stays so.                                  *)
LEMMA UsedStays ==
  ASSUME HandlersOK, [Next]_vars
  PROVE  \A k \in Conns : Used(k) => Used(k)'
<1> USE RefFacts DEF HandlersOK, Used
<1>1. ASSUME NEW c \in Conns, HAdd(c) PROVE \A k \in Conns : Used(k) => Used(k)'
  BY <1>1 DEF HAdd, Up
<1>2. ASSUME NEW c \in Conns, HKick(c) PROVE \A k \in Conns : Used(k) => Used(k)'
  BY <1>2 DEF HKick
<1>3. ASSUME NEW c \in Conns, HClaim(c) PROVE \A k \in Conns : Used(k) => Used(k)'
  BY <1>3 DEF HClaim, HStep
<1>4. ASSUME NEW c \in Conns, HClaimFails(c) PROVE \A k \in Conns : Used(k) => Used(k)'
  BY <1>4 DEF HClaimFails, HStep, Disrupt
<1>5. ASSUME NEW c \in Conns, HHeartbeat(c) PROVE \A k \in Conns : Used(k) => Used(k)'
  BY <1>5 DEF HHeartbeat, Refresh, HStep
<1>6. ASSUME NEW c \in Conns, HReturn(c) PROVE \A k \in Conns : Used(k) => Used(k)'
  BY <1>6 DEF HReturn, HStep
<1>7. ASSUME NEW c \in Conns, HFails(c) PROVE \A k \in Conns : Used(k) => Used(k)'
  BY <1>7 DEF HFails, HStep, Disrupt
<1>8. ASSUME NEW c \in Conns, HClear(c) PROVE \A k \in Conns : Used(k) => Used(k)'
  BY <1>8 DEF HClear, HStep, ClearRouteIfMatch, ClearIfMatch, Disrupt
<1>9. ASSUME NEW c \in Conns, HRemove(c) PROVE \A k \in Conns : Used(k) => Used(k)'
  BY <1>9 DEF HRemove, HStep, Remove
<1>10. ASSUME NEW c \in Conns, HClose(c) PROVE \A k \in Conns : Used(k) => Used(k)'
  BY <1>10 DEF HClose, HStep
<1>11. ASSUME NEW g \in Gateways, Crash(g) PROVE \A k \in Conns : Used(k) => Used(k)'
  BY <1>11 DEF Crash, Up, Disrupt, Here
<1>12. CASE UNCHANGED hdl
  BY <1>12
<1>13. QED
  BY <1>1, <1>2, <1>3, <1>4, <1>5, <1>6, <1>7, <1>8, <1>9, <1>10, <1>11, <1>12, HandlersChanges

(* A connection that a login replaces was registered at the same Gateway.  *)
LEMMA HandlersStep ==
  ASSUME State, [Next]_vars
  PROVE  HandlersOK'
<1>0. home' = home /\ \A k \in Conns : Used(k) => Used(k)'
  BY UsedStays, HomeAndFailures DEF State
<1> USE RefFacts DEF State, HandlersOK, AtHome, LocalOK
<1>1. ASSUME NEW c \in Conns, HAdd(c) PROVE HandlersOK'
  BY <1>1, <1>0 DEF HAdd, Up, Used, RestOK
<1>2. ASSUME NEW c \in Conns, HKick(c) PROVE HandlersOK'
  BY <1>2, <1>0 DEF HKick
<1>3. ASSUME NEW c \in Conns, HClaim(c) PROVE HandlersOK'
  BY <1>3, <1>0 DEF HClaim, HStep
<1>4. ASSUME NEW c \in Conns, HClaimFails(c) PROVE HandlersOK'
  BY <1>4, <1>0 DEF HClaimFails, HStep, Disrupt
<1>5. ASSUME NEW c \in Conns, HHeartbeat(c) PROVE HandlersOK'
  BY <1>5, <1>0 DEF HHeartbeat, Refresh, HStep
<1>6. ASSUME NEW c \in Conns, HReturn(c) PROVE HandlersOK'
  BY <1>6, <1>0 DEF HReturn, HStep
<1>7. ASSUME NEW c \in Conns, HFails(c) PROVE HandlersOK'
  BY <1>7, <1>0 DEF HFails, HStep, Disrupt
<1>8. ASSUME NEW c \in Conns, HClear(c) PROVE HandlersOK'
  BY <1>8, <1>0 DEF HClear, HStep, ClearRouteIfMatch, ClearIfMatch, Disrupt
<1>9. ASSUME NEW c \in Conns, HRemove(c) PROVE HandlersOK'
  BY <1>9, <1>0 DEF HRemove, HStep, Remove
<1>10. ASSUME NEW c \in Conns, HClose(c) PROVE HandlersOK'
  BY <1>10, <1>0 DEF HClose, HStep
<1>11. ASSUME NEW g \in Gateways, Crash(g) PROVE HandlersOK'
  BY <1>11, <1>0 DEF Crash, Up, Disrupt, Here, Used
<1>12. CASE UNCHANGED hdl
  BY <1>12, <1>0
<1>13. QED
  BY <1>1, <1>2, <1>3, <1>4, <1>5, <1>6, <1>7, <1>8, <1>9, <1>10, <1>11, <1>12, HandlersChanges

(* The route names a connection that was opened.                           *)
LEMMA RouteStep ==
  ASSUME State, [Next]_vars
  PROVE  RouteOK'
<1>0. home' = home /\ \A k \in Conns : Used(k) => Used(k)'
  BY UsedStays, HomeAndFailures DEF State
<1> USE RefFacts DEF State, RouteOK, redisVars
<1>1. ASSUME NEW c \in Conns, HClaim(c) PROVE RouteOK'
  BY <1>1, <1>0 DEF HClaim, HStep, Used, HandlersOK
<1>2. ASSUME NEW c \in Conns, HClaimFails(c) PROVE RouteOK'
  BY <1>2, <1>0 DEF HClaimFails, HStep, Disrupt, Used, HandlersOK
<1>3. ASSUME NEW c \in Conns, HHeartbeat(c) PROVE RouteOK'
  BY <1>3, <1>0 DEF HHeartbeat, Refresh, HStep
<1>4. ASSUME NEW c \in Conns, HClear(c) PROVE RouteOK'
  BY <1>4, <1>0 DEF HClear, HStep, ClearRouteIfMatch, ClearIfMatch, Disrupt
<1>5. ASSUME PClear PROVE RouteOK'
  BY <1>5, <1>0 DEF PClear, ClearRouteIfMatch, ClearIfMatch, Disrupt
<1>6. ASSUME NEW g \in Gateways, SubClear(g) PROVE RouteOK'
  BY <1>6, <1>0 DEF SubClear, SubTo, ClearRouteIfMatch, ClearIfMatch, Disrupt
<1>7. ASSUME NEW g \in Gateways, RClear(g) PROVE RouteOK'
  BY <1>7, <1>0 DEF RClear, RetTo, ClearRouteIfMatch, ClearIfMatch, Disrupt
<1>8. ASSUME NEW g \in Gateways, BootClear(g) PROVE RouteOK'
  BY <1>8, <1>0 DEF BootClear, BootTo, ClearRouteIfMatch, ClearIfMatch, Disrupt
<1>9. ASSUME Expire PROVE RouteOK'
  BY <1>9, <1>0 DEF Expire
<1>10. ASSUME ExpireEarly PROVE RouteOK'
  BY <1>10, <1>0 DEF ExpireEarly, Disrupt
<1>11. CASE UNCHANGED route
  BY <1>11, <1>0
<1>12. QED
  BY <1>1, <1>2, <1>3, <1>4, <1>5, <1>6, <1>7, <1>8, <1>9, <1>10, <1>11, RouteChanges

(* A Gateway registers its own connections.                                *)
LEMMA LocalStep ==
  ASSUME State, [Next]_vars
  PROVE  LocalOK'
<1>0. home' = home /\ \A k \in Conns : Used(k) => Used(k)'
  BY UsedStays, HomeAndFailures DEF State
<1> USE RefFacts DEF State, LocalOK, AtHome
<1>1. ASSUME NEW c \in Conns, HAdd(c) PROVE LocalOK'
  BY <1>1, <1>0 DEF HAdd, Up, Used, HandlersOK, RestOK
<1>2. ASSUME NEW c \in Conns, HRemove(c) PROVE LocalOK'
  BY <1>2, <1>0 DEF HRemove, HStep, Remove
<1>3. ASSUME NEW g \in Gateways, SubClose(g) PROVE LocalOK'
  BY <1>3, <1>0 DEF SubClose, SubTo, Remove
<1>4. ASSUME NEW g \in Gateways, RClose(g) PROVE LocalOK'
  BY <1>4, <1>0 DEF RClose, RetTo, Remove
<1>5. ASSUME NEW g \in Gateways, Crash(g) PROVE LocalOK'
  BY <1>5, <1>0 DEF Crash, Up, Disrupt, Here
<1>6. CASE UNCHANGED local
  BY <1>6, <1>0
<1>7. QED
  BY <1>1, <1>2, <1>3, <1>4, <1>5, <1>6, LocalChanges

(* A socket is open only after the upgrade.                                *)
LEMMA OpenStep ==
  ASSUME State, [Next]_vars
  PROVE  OpenOK'
<1>0. home' = home /\ \A k \in Conns : Used(k) => Used(k)'
  BY UsedStays, HomeAndFailures DEF State
<1> USE RefFacts DEF State, OpenOK
<1>1. ASSUME NEW c \in Conns, HAdd(c) PROVE OpenOK'
  BY <1>1, <1>0 DEF HAdd, Up, Used, HandlersOK
<1>2. ASSUME NEW c \in Conns, HKick(c) PROVE OpenOK'
  BY <1>2, <1>0 DEF HKick
<1>3. ASSUME NEW c \in Conns, HClose(c) PROVE OpenOK'
  BY <1>3, <1>0 DEF HClose, HStep
<1>4. ASSUME NEW c \in Conns, Drop(c) PROVE OpenOK'
  BY <1>4, <1>0 DEF Drop, Disrupt
<1>5. ASSUME NEW g \in Gateways, SubClose(g) PROVE OpenOK'
  BY <1>5, <1>0 DEF SubClose, SubTo, Remove
<1>6. ASSUME NEW g \in Gateways, RClose(g) PROVE OpenOK'
  BY <1>6, <1>0 DEF RClose, RetTo, Remove
<1>7. ASSUME NEW g \in Gateways, Crash(g) PROVE OpenOK'
  BY <1>7, <1>0 DEF Crash, Up, Disrupt, Here
<1>8. CASE UNCHANGED open
  BY <1>8, <1>0
<1>9. QED
  BY <1>1, <1>2, <1>3, <1>4, <1>5, <1>6, <1>7, <1>8, OpenChanges

(* An envelope names a connection that was opened.                         *)
LEMMA ChannelStep ==
  ASSUME State, [Next]_vars
  PROVE  ChannelOK'
<1>0. home' = home /\ \A k \in Conns : Used(k) => Used(k)'
  BY UsedStays, HomeAndFailures DEF State
<1> USE RefFacts DEF State, ChannelOK
<1>1. ASSUME PPublish PROVE ChannelOK'
  BY <1>1, <1>0 DEF PPublish, PubOK
<1>2. ASSUME NEW g \in Gateways, NEW c \in Conns, SubTake(g, c) PROVE ChannelOK'
  BY <1>2, <1>0 DEF SubTake, Up
<1>3. ASSUME NEW g \in Gateways, Crash(g) PROVE ChannelOK'
  BY <1>3, <1>0 DEF Crash, Up, Disrupt, Here
<1>4. CASE UNCHANGED channel
  BY <1>4, <1>0
<1>5. QED
  BY <1>1, <1>2, <1>3, <1>4, ChannelChanges

(* So does the deliverer.                                                  *)
LEMMA PubStep ==
  ASSUME State, [Next]_vars
  PROVE  PubOK'
<1>0. home' = home /\ \A k \in Conns : Used(k) => Used(k)'
  BY UsedStays, HomeAndFailures DEF State
<1> USE RefFacts DEF State, PubOK
<1>1. ASSUME PRoute PROVE PubOK'
  BY <1>1, <1>0 DEF PRoute, RouteOK
<1>2. ASSUME PPublish PROVE PubOK'
  BY <1>2, <1>0 DEF PPublish
<1>3. ASSUME PPublishFails PROVE PubOK'
  BY <1>3, <1>0 DEF PPublishFails, Disrupt
<1>4. ASSUME PClear PROVE PubOK'
  BY <1>4, <1>0 DEF PClear, ClearRouteIfMatch, ClearIfMatch, Disrupt
<1>5. CASE UNCHANGED pub
  BY <1>5, <1>0
<1>6. QED
  BY <1>1, <1>2, <1>3, <1>4, <1>5, PubChanges

(* A subscriber works on connections of its Gateway.                       *)
LEMMA SubStep ==
  ASSUME State, [Next]_vars
  PROVE  SubOK'
<1>0. home' = home /\ \A k \in Conns : Used(k) => Used(k)'
  BY UsedStays, HomeAndFailures DEF State
<1> USE RefFacts DEF State, SubOK, ProcessOK, Process, AtHome, Idle
<1>1. ASSUME NEW g \in Gateways, NEW c \in Conns, SubTake(g, c) PROVE SubOK'
  BY <1>1, <1>0 DEF SubTake, Up, ChannelOK, LocalOK
<1>2. ASSUME NEW g \in Gateways, SubWrite(g) PROVE SubOK'
  BY <1>2, <1>0 DEF SubWrite, SubTo
<1>3. ASSUME NEW g \in Gateways, SubWriteFails(g) PROVE SubOK'
  BY <1>3, <1>0 DEF SubWriteFails, SubTo, Disrupt
<1>4. ASSUME NEW g \in Gateways, SubClear(g) PROVE SubOK'
  BY <1>4, <1>0 DEF SubClear, SubTo, ClearRouteIfMatch, ClearIfMatch, Disrupt
<1>5. ASSUME NEW g \in Gateways, SubClose(g) PROVE SubOK'
  BY <1>5, <1>0 DEF SubClose, SubTo, Remove
<1>6. ASSUME NEW g \in Gateways, Crash(g) PROVE SubOK'
  BY <1>6, <1>0 DEF Crash, Up, Disrupt, Here
<1>7. CASE UNCHANGED sub
  BY <1>7, <1>0
<1>8. QED
  BY <1>1, <1>2, <1>3, <1>4, <1>5, <1>6, <1>7, SubChanges

(* So does a retry loop.                                                   *)
LEMMA RetStep ==
  ASSUME State, [Next]_vars
  PROVE  RetOK'
<1>0. home' = home /\ \A k \in Conns : Used(k) => Used(k)'
  BY UsedStays, HomeAndFailures DEF State
<1> USE RefFacts DEF State, RetOK, ProcessOK, Process, AtHome, Idle
<1>1. ASSUME NEW g \in Gateways, RGet(g) PROVE RetOK'
  BY <1>1, <1>0 DEF RGet, Up, RouteOK, LocalOK
<1>2. ASSUME NEW g \in Gateways, RSRem(g) PROVE RetOK'
  BY <1>2, <1>0 DEF RSRem, RetTo
<1>3. ASSUME NEW g \in Gateways, RWrite(g) PROVE RetOK'
  BY <1>3, <1>0 DEF RWrite, RetTo
<1>4. ASSUME NEW g \in Gateways, RWriteFails(g) PROVE RetOK'
  BY <1>4, <1>0 DEF RWriteFails, RetTo, Disrupt
<1>5. ASSUME NEW g \in Gateways, RClear(g) PROVE RetOK'
  BY <1>5, <1>0 DEF RClear, RetTo, ClearRouteIfMatch, ClearIfMatch, Disrupt
<1>6. ASSUME NEW g \in Gateways, RClose(g) PROVE RetOK'
  BY <1>6, <1>0 DEF RClose, RetTo, Remove
<1>7. ASSUME NEW g \in Gateways, Crash(g) PROVE RetOK'
  BY <1>7, <1>0 DEF Crash, Up, Disrupt, Here
<1>8. CASE UNCHANGED ret
  BY <1>8, <1>0
<1>9. QED
  BY <1>1, <1>2, <1>3, <1>4, <1>5, <1>6, <1>7, <1>8, RetChanges

(* A starting Gateway clears only a route of its own.                      *)
LEMMA BootStep ==
  ASSUME State, [Next]_vars
  PROVE  BootOK'
<1>0. home' = home /\ \A k \in Conns : Used(k) => Used(k)'
  BY UsedStays, HomeAndFailures DEF State
<1> USE RefFacts DEF State, BootOK, AtHome
<1>1. ASSUME NEW g \in Gateways, BootGet(g) PROVE BootOK'
  BY <1>1, <1>0 DEF BootGet, RouteOK
<1>2. ASSUME NEW g \in Gateways, BootSRem(g) PROVE BootOK'
  BY <1>2, <1>0 DEF BootSRem, BootTo
<1>3. ASSUME NEW g \in Gateways, BootClear(g) PROVE BootOK'
  BY <1>3, <1>0 DEF BootClear, BootTo, ClearRouteIfMatch, ClearIfMatch, Disrupt
<1>4. ASSUME NEW g \in Gateways, Crash(g) PROVE BootOK'
  BY <1>4, <1>0 DEF Crash, Up, Disrupt, Here
<1>5. CASE UNCHANGED boot
  BY <1>5, <1>0
<1>6. QED
  BY <1>1, <1>2, <1>3, <1>4, <1>5, BootChanges

(* Types of the remaining variables.                                       *)
LEMMA UsersStep ==
  ASSUME State, [Next]_vars
  PROVE  (users \subseteq Gateways)'
<1> USE RefFacts DEF State, RestOK, redisVars
<1>1. ASSUME NEW c \in Conns, HClaim(c) PROVE (users \subseteq Gateways)'
  BY <1>1 DEF HClaim, HStep
<1>2. ASSUME NEW c \in Conns, HClaimFails(c) PROVE (users \subseteq Gateways)'
  BY <1>2 DEF HClaimFails, HStep, Disrupt
<1>3. ASSUME NEW c \in Conns, HHeartbeat(c) PROVE (users \subseteq Gateways)'
  BY <1>3 DEF HHeartbeat, Refresh, HStep
<1>4. ASSUME NEW c \in Conns, HClear(c) PROVE (users \subseteq Gateways)'
  BY <1>4 DEF HClear, HStep, ClearRouteIfMatch, ClearIfMatch, Disrupt
<1>5. ASSUME PClear PROVE (users \subseteq Gateways)'
  BY <1>5 DEF PClear, ClearRouteIfMatch, ClearIfMatch, Disrupt
<1>6. ASSUME NEW g \in Gateways, SubClear(g) PROVE (users \subseteq Gateways)'
  BY <1>6 DEF SubClear, SubTo, ClearRouteIfMatch, ClearIfMatch, Disrupt
<1>7. ASSUME NEW g \in Gateways, RClear(g) PROVE (users \subseteq Gateways)'
  BY <1>7 DEF RClear, RetTo, ClearRouteIfMatch, ClearIfMatch, Disrupt
<1>8. ASSUME NEW g \in Gateways, RSRem(g) PROVE (users \subseteq Gateways)'
  BY <1>8 DEF RSRem, RetTo
<1>9. ASSUME NEW g \in Gateways, BootSRem(g) PROVE (users \subseteq Gateways)'
  BY <1>9 DEF BootSRem, BootTo
<1>10. ASSUME NEW g \in Gateways, BootClear(g) PROVE (users \subseteq Gateways)'
  BY <1>10 DEF BootClear, BootTo, ClearRouteIfMatch, ClearIfMatch, Disrupt
<1>11. CASE UNCHANGED users
  BY <1>11
<1>12. QED
  BY <1>1, <1>2, <1>3, <1>4, <1>5, <1>6, <1>7, <1>8, <1>9, <1>10, <1>11, UsersChanges

(* Types of the remaining variables.                                       *)
LEMMA SubscribedStep ==
  ASSUME State, [Next]_vars
  PROVE  (subscribed \subseteq Gateways)'
<1> USE RefFacts DEF State, RestOK
<1>1. ASSUME NEW g \in Gateways, Subscribe(g) PROVE (subscribed \subseteq Gateways)'
  BY <1>1 DEF Subscribe, Up
<1>2. ASSUME NEW g \in Gateways, Crash(g) PROVE (subscribed \subseteq Gateways)'
  BY <1>2 DEF Crash, Up, Disrupt, Here
<1>3. CASE UNCHANGED subscribed
  BY <1>3
<1>4. QED
  BY <1>1, <1>2, <1>3, SubscribedChanges

(* Together: one step keeps State.                                         *)
LEMMA StateStep == State /\ [Next]_vars => State'
<1> SUFFICES ASSUME State, [Next]_vars PROVE State'
  OBVIOUS
<1>1. disruptions' \in 0..MaxDisruptions
  BY HomeAndFailures, GatewayRoutesAssumption DEF State, RestOK, Disrupt
<1>2. RestOK'
  BY <1>1, HomeAndFailures, UsersStep, SubscribedStep DEF State, RestOK
<1>3. QED
  BY <1>2, HandlersStep, RouteStep, LocalStep, OpenStep, ChannelStep, PubStep, SubStep, RetStep,
     BootStep DEF State

-----------------------------------------------------------------------------
(* Whoever is about to clear a route may do so.                            *)

(* A connection that is not registered any more is never registered again. *)
LEMMA NotRegisteredAgain ==
  ASSUME State, [Next]_vars, NEW g \in Gateways, NEW k \in Conns, Used(k), local[g] # k
  PROVE  local'[g] # k
<1> DEFINE Goal == local'[g] # k
<1> SUFFICES Goal
  OBVIOUS
<1> USE RefFacts DEF State, LocalOK, Used
<1>1. ASSUME NEW c \in Conns, HAdd(c) PROVE Goal
  BY <1>1 DEF HAdd, Up
<1>2. ASSUME NEW c \in Conns, HRemove(c) PROVE Goal
  BY <1>2 DEF HRemove, HStep, Remove
<1>3. ASSUME NEW h \in Gateways, SubClose(h) PROVE Goal
  BY <1>3 DEF SubClose, SubTo, Remove
<1>4. ASSUME NEW h \in Gateways, RClose(h) PROVE Goal
  BY <1>4 DEF RClose, RetTo, Remove
<1>5. ASSUME NEW h \in Gateways, Crash(h) PROVE Goal
  BY <1>5 DEF Crash, Up, Disrupt, Here
<1>6. CASE UNCHANGED local
  BY <1>6
<1>7. QED
  BY <1>1, <1>2, <1>3, <1>4, <1>5, <1>6, LocalChanges

(* A subscriber goes on being allowed to clear its route.                  *)
LEMMA SubMayStep ==
  ASSUME State, SubMay, [Next]_vars
  PROVE  SubMay'
<1>0. ASSUME NEW g \in Gateways, NEW k \in Conns, Used(k), local[g] # k PROVE local'[g] # k
  BY <1>0, NotRegisteredAgain
<1> USE RefFacts DEF State, SubOK, ProcessOK, Process, AtHome, SubMay, May, Idle
<1>1. ASSUME NEW g \in Gateways, NEW c \in Conns, SubTake(g, c) PROVE SubMay'
  BY <1>1, <1>0 DEF SubTake, Up, ChannelOK
<1>2. ASSUME NEW g \in Gateways, SubWrite(g) PROVE SubMay'
  BY <1>2, <1>0 DEF SubWrite, SubTo
<1>3. ASSUME NEW g \in Gateways, SubWriteFails(g) PROVE SubMay'
  BY <1>3, <1>0 DEF SubWriteFails, SubTo, Disrupt
<1>4. ASSUME NEW g \in Gateways, SubClear(g) PROVE SubMay'
  BY <1>4, <1>0 DEF SubClear, SubTo, ClearRouteIfMatch, ClearIfMatch, Disrupt
<1>5. ASSUME NEW g \in Gateways, SubClose(g) PROVE SubMay'
  BY <1>5, <1>0 DEF SubClose, SubTo, Remove
<1>6. ASSUME NEW g \in Gateways, Crash(g) PROVE SubMay'
  BY <1>6, <1>0 DEF Crash, Up, Disrupt, Here
<1>7. CASE UNCHANGED sub
  BY <1>7, <1>0
<1>8. QED
  BY <1>1, <1>2, <1>3, <1>4, <1>5, <1>6, <1>7, SubChanges

(* So does a retry loop.                                                   *)
LEMMA RetMayStep ==
  ASSUME State, RetMay, [Next]_vars
  PROVE  RetMay'
<1>0. ASSUME NEW g \in Gateways, NEW k \in Conns, Used(k), local[g] # k PROVE local'[g] # k
  BY <1>0, NotRegisteredAgain
<1> USE RefFacts DEF State, RetOK, ProcessOK, Process, AtHome, RetMay, May, Idle
<1>1. ASSUME NEW g \in Gateways, RGet(g) PROVE RetMay'
  BY <1>1, <1>0 DEF RGet, Up, RouteOK
<1>2. ASSUME NEW g \in Gateways, RSRem(g) PROVE RetMay'
  BY <1>2, <1>0 DEF RSRem, RetTo
<1>3. ASSUME NEW g \in Gateways, RWrite(g) PROVE RetMay'
  BY <1>3, <1>0 DEF RWrite, RetTo
<1>4. ASSUME NEW g \in Gateways, RWriteFails(g) PROVE RetMay'
  BY <1>4, <1>0 DEF RWriteFails, RetTo, Disrupt
<1>5. ASSUME NEW g \in Gateways, RClear(g) PROVE RetMay'
  BY <1>5, <1>0 DEF RClear, RetTo, ClearRouteIfMatch, ClearIfMatch, Disrupt
<1>6. ASSUME NEW g \in Gateways, RClose(g) PROVE RetMay'
  BY <1>6, <1>0 DEF RClose, RetTo, Remove
<1>7. ASSUME NEW g \in Gateways, Crash(g) PROVE RetMay'
  BY <1>7, <1>0 DEF Crash, Up, Disrupt, Here
<1>8. CASE UNCHANGED ret
  BY <1>8, <1>0
<1>9. QED
  BY <1>1, <1>2, <1>3, <1>4, <1>5, <1>6, <1>7, <1>8, RetChanges

(* And a starting Gateway registers nobody.                                *)
LEMMA BootMayStep ==
  ASSUME State, BootMay, [Next]_vars
  PROVE  BootMay'
<1> USE DEF State, BootOK, LocalOK, BootMay, Up
<1>0. CASE UNCHANGED boot
  <2>1. ASSUME NEW c \in Conns, HAdd(c) PROVE BootMay'
    BY <1>0, <2>1 DEF HAdd, Up
  <2>2. ASSUME NEW c \in Conns, HRemove(c) PROVE BootMay'
    BY <1>0, <2>2 DEF HRemove, HStep, Remove
  <2>3. ASSUME NEW g \in Gateways, SubClose(g) PROVE BootMay'
    BY <1>0, <2>3 DEF SubClose, SubTo, Remove
  <2>4. ASSUME NEW g \in Gateways, RClose(g) PROVE BootMay'
    BY <1>0, <2>4 DEF RClose, RetTo, Remove
  <2>5. ASSUME NEW g \in Gateways, Crash(g) PROVE BootMay'
    BY <1>0, <2>5 DEF Crash
  <2>6. CASE UNCHANGED local
    BY <1>0, <2>6
  <2>7. QED
    BY <2>1, <2>2, <2>3, <2>4, <2>5, <2>6, LocalChanges
<1>1. ASSUME NEW g \in Gateways, BootGet(g) PROVE BootMay'
  BY <1>1 DEF BootGet, connVars
<1>2. ASSUME NEW g \in Gateways, BootSRem(g) PROVE BootMay'
  BY <1>2 DEF BootSRem, BootTo, connVars
<1>3. ASSUME NEW g \in Gateways, BootClear(g) PROVE BootMay'
  BY <1>3 DEF BootClear, BootTo, connVars
<1>4. ASSUME NEW g \in Gateways, Crash(g) PROVE BootMay'
  BY <1>4 DEF Crash
<1>5. QED
  BY <1>0, <1>1, <1>2, <1>3, <1>4, BootChanges

(* One step keeps the invariant.                                           *)
LEMMA SafeStep == Safe /\ [Next]_vars => Safe'
BY StateStep, SubMayStep, RetMayStep, BootMayStep DEF Safe

-----------------------------------------------------------------------------
(* One step of ServedRouteKept.                                            *)
LEMMA KeptStep ==
  ASSUME Safe, [Next]_vars, NEW k \in Conns, Served(k), route = k, route' = 0
  PROVE  disruptions' # disruptions \/ pub = [step |-> "clear", via |-> k]
<1> DEFINE Kept == disruptions' # disruptions \/ pub = [step |-> "clear", via |-> k]
<1> SUFFICES Kept
  OBVIOUS
<1> USE RefFacts DEF Safe, State, RestOK, Disrupt
<1>1. ASSUME NEW c \in Conns, HClaim(c) PROVE Kept
  BY <1>1 DEF HClaim, HStep
<1>2. ASSUME NEW c \in Conns, HClaimFails(c) PROVE Kept
  BY <1>2 DEF HClaimFails, HStep, Disrupt
<1>3. ASSUME NEW c \in Conns, HHeartbeat(c) PROVE Kept
  BY <1>3 DEF HHeartbeat, Refresh, HStep, redisVars
<1>4. ASSUME NEW c \in Conns, HClear(c) PROVE Kept
  BY <1>4 DEF HClear, HStep, ClearRouteIfMatch, ClearIfMatch, Disrupt, Served, redisVars
<1>5. ASSUME PClear PROVE Kept
  BY <1>5 DEF PClear, ClearRouteIfMatch, ClearIfMatch, Disrupt, PubOK, redisVars
<1>6. ASSUME NEW g \in Gateways, SubClear(g) PROVE Kept
  BY <1>6 DEF SubClear, SubTo, ClearRouteIfMatch, ClearIfMatch, Disrupt, redisVars,
     SubMay, May, SubOK, ProcessOK, AtHome, Served, Condemned
<1>7. ASSUME NEW g \in Gateways, RClear(g) PROVE Kept
  BY <1>7 DEF RClear, RetTo, ClearRouteIfMatch, ClearIfMatch, Disrupt, redisVars,
     RetMay, May, RetOK, ProcessOK, AtHome, Served, Condemned
<1>8. ASSUME NEW g \in Gateways, BootClear(g) PROVE Kept
  BY <1>8 DEF BootClear, BootTo, ClearRouteIfMatch, ClearIfMatch, Disrupt, BootMay,
     BootOK, AtHome, Up, Served, redisVars
<1>9. ASSUME Expire PROVE Kept
  BY <1>9 DEF Expire, Served
<1>10. ASSUME ExpireEarly PROVE Kept
  BY <1>10 DEF ExpireEarly, Disrupt
<1>11. CASE UNCHANGED route
  BY <1>11
<1>12. QED
  BY <1>1, <1>2, <1>3, <1>4, <1>5, <1>6, <1>7, <1>8, <1>9, <1>10, <1>11, RouteChanges

(* One step of NoTakeBack.                                                 *)
LEMMA TakeBackStep ==
  ASSUME State, [Next]_vars, NEW k \in Conns, route # k, route' = k
  PROVE  hdl[k].step = "claim"
<1> USE RefFacts DEF State, redisVars
<1>1. ASSUME NEW c \in Conns, HClaim(c) PROVE hdl[k].step = "claim"
  BY <1>1 DEF HClaim, HStep
<1>2. ASSUME NEW c \in Conns, HClaimFails(c) PROVE hdl[k].step = "claim"
  BY <1>2 DEF HClaimFails, HStep, Disrupt
<1>3. ASSUME NEW c \in Conns, HHeartbeat(c) PROVE hdl[k].step = "claim"
  BY <1>3 DEF HHeartbeat, Refresh, HStep
<1>4. ASSUME NEW c \in Conns, HClear(c) PROVE hdl[k].step = "claim"
  BY <1>4 DEF HClear, HStep, ClearRouteIfMatch, ClearIfMatch, Disrupt
<1>5. ASSUME PClear PROVE hdl[k].step = "claim"
  BY <1>5 DEF PClear, ClearRouteIfMatch, ClearIfMatch, Disrupt
<1>6. ASSUME NEW g \in Gateways, SubClear(g) PROVE hdl[k].step = "claim"
  BY <1>6 DEF SubClear, SubTo, ClearRouteIfMatch, ClearIfMatch, Disrupt
<1>7. ASSUME NEW g \in Gateways, RClear(g) PROVE hdl[k].step = "claim"
  BY <1>7 DEF RClear, RetTo, ClearRouteIfMatch, ClearIfMatch, Disrupt
<1>8. ASSUME NEW g \in Gateways, BootClear(g) PROVE hdl[k].step = "claim"
  BY <1>8 DEF BootClear, BootTo, ClearRouteIfMatch, ClearIfMatch, Disrupt
<1>9. ASSUME Expire PROVE hdl[k].step = "claim"
  BY <1>9 DEF Expire
<1>10. ASSUME ExpireEarly PROVE hdl[k].step = "claim"
  BY <1>10 DEF ExpireEarly, Disrupt
<1>11. CASE UNCHANGED route
  BY <1>11
<1>12. QED
  BY <1>1, <1>2, <1>3, <1>4, <1>5, <1>6, <1>7, <1>8, <1>9, <1>10, <1>11, RouteChanges

(* A process that was to close k still is, or k is closed.                 *)
LEMMA CondemnedStep ==
  ASSUME State, [Next]_vars, NEW k \in Conns, k \in open', Condemned(k)
  PROVE  Condemned(k)'
<1>1. PICK g \in Gateways :
        \/ sub[g].conn = k /\ sub[g].step \in {"clear", "close"}
        \/ ret[g].conn = k /\ ret[g].step \in {"clear", "close"}
  BY DEF Condemned
<1> DEFINE Goal == sub'[g].conn = k /\ sub'[g].step \in {"clear", "close"}
<1> DEFINE RGoal == ret'[g].conn = k /\ ret'[g].step \in {"clear", "close"}
<1>2. home[k] = g /\ k # 0 /\ Used(k)
  BY <1>1, RefFacts DEF State, SubOK, RetOK, ProcessOK, AtHome
<1> USE RefFacts DEF State
<1>3. CASE sub[g].conn = k /\ sub[g].step \in {"clear", "close"}
  <2>1. ASSUME NEW h \in Gateways, NEW c \in Conns, SubTake(h, c) PROVE Goal
    BY <1>2, <1>3, <2>1 DEF SubTake, Up, SubOK, Used
  <2>2. ASSUME NEW h \in Gateways, SubWrite(h) PROVE Goal
    BY <1>2, <1>3, <2>2 DEF SubWrite, SubTo, SubOK, Used
  <2>3. ASSUME NEW h \in Gateways, SubWriteFails(h) PROVE Goal
    BY <1>2, <1>3, <2>3 DEF SubWriteFails, SubTo, Disrupt, SubOK, Used
  <2>4. ASSUME NEW h \in Gateways, SubClear(h) PROVE Goal
    BY <1>2, <1>3, <2>4 DEF SubClear, SubTo, ClearRouteIfMatch, ClearIfMatch, Disrupt,
       SubOK, Used
  <2>5. ASSUME NEW h \in Gateways, SubClose(h) PROVE Goal
    BY <1>2, <1>3, <2>5 DEF SubClose, SubTo, Remove, SubOK, Used
  <2>6. ASSUME NEW h \in Gateways, Crash(h) PROVE Goal
    BY <1>2, <1>3, <2>6 DEF Crash, Up, Disrupt, Here, SubOK, Used
  <2>7. ASSUME UNCHANGED sub PROVE Goal
    BY <1>3, <2>7
  <2>8. Goal
    BY <2>1, <2>2, <2>3, <2>4, <2>5, <2>6, <2>7, SubChanges
  <2>9. QED
    BY <2>8 DEF Condemned
<1>4. CASE ret[g].conn = k /\ ret[g].step \in {"clear", "close"}
  <2>1. ASSUME NEW h \in Gateways, RGet(h) PROVE RGoal
    BY <1>2, <1>4, <2>1 DEF RGet, Up, RetOK, Used
  <2>2. ASSUME NEW h \in Gateways, RSRem(h) PROVE RGoal
    BY <1>2, <1>4, <2>2 DEF RSRem, RetTo, RetOK, Used
  <2>3. ASSUME NEW h \in Gateways, RWrite(h) PROVE RGoal
    BY <1>2, <1>4, <2>3 DEF RWrite, RetTo, RetOK, Used
  <2>4. ASSUME NEW h \in Gateways, RWriteFails(h) PROVE RGoal
    BY <1>2, <1>4, <2>4 DEF RWriteFails, RetTo, Disrupt, RetOK, Used
  <2>5. ASSUME NEW h \in Gateways, RClear(h) PROVE RGoal
    BY <1>2, <1>4, <2>5 DEF RClear, RetTo, ClearRouteIfMatch, ClearIfMatch, Disrupt, RetOK, Used
  <2>6. ASSUME NEW h \in Gateways, RClose(h) PROVE RGoal
    BY <1>2, <1>4, <2>6 DEF RClose, RetTo, Remove, RetOK, Used
  <2>7. ASSUME NEW h \in Gateways, Crash(h) PROVE RGoal
    BY <1>2, <1>4, <2>7 DEF Crash, Up, Disrupt, Here, RetOK, Used
  <2>8. ASSUME UNCHANGED ret PROVE RGoal
    BY <1>4, <2>8
  <2>9. RGoal
    BY <2>1, <2>2, <2>3, <2>4, <2>5, <2>6, <2>7, <2>8, RetChanges
  <2>10. QED
    BY <2>9 DEF Condemned
<1>5. QED
  BY <1>1, <1>3, <1>4

(* One step of OpenIsRegistered.                                           *)
LEMMA RegisteredStep ==
  ASSUME State, OpenIsRegistered, [Next]_vars
  PROVE  OpenIsRegistered'
<1> DEFINE Leaving(k) == hdl[k].step \in {"clear", "remove", "close"}
<1> DEFINE Kicked(k) == \E d \in Conns : hdl[d] = [step |-> "kick", prev |-> k]
<1> DEFINE Kept(k) == local[home[k]] = k \/ Leaving(k) \/ Kicked(k) \/ Condemned(k)
<1> SUFFICES ASSUME NEW k \in Conns, k \in open' PROVE Kept(k)'
  BY OpenStep DEF OpenIsRegistered, OpenOK
<1>1. home' = home
  BY HomeAndFailures
<1> USE RefFacts DEF State
<1>2. ASSUME k \notin open PROVE HAdd(k)
  <2>1. ASSUME NEW c \in Conns, HAdd(c) PROVE HAdd(k)
    BY <1>2, <2>1 DEF HAdd, Up, OpenOK
  <2>2. ASSUME NEW c \in Conns, HKick(c) PROVE HAdd(k)
    BY <1>2, <2>2 DEF HKick, OpenOK
  <2>3. ASSUME NEW c \in Conns, HClose(c) PROVE HAdd(k)
    BY <1>2, <2>3 DEF HClose, HStep, OpenOK
  <2>4. ASSUME NEW c \in Conns, Drop(c) PROVE HAdd(k)
    BY <1>2, <2>4 DEF Drop, Disrupt, OpenOK
  <2>5. ASSUME NEW g \in Gateways, SubClose(g) PROVE HAdd(k)
    BY <1>2, <2>5 DEF SubClose, SubTo, Remove, OpenOK
  <2>6. ASSUME NEW g \in Gateways, RClose(g) PROVE HAdd(k)
    BY <1>2, <2>6 DEF RClose, RetTo, Remove, OpenOK
  <2>7. ASSUME NEW g \in Gateways, Crash(g) PROVE HAdd(k)
    BY <1>2, <2>7 DEF Crash, Up, Disrupt, Here, OpenOK
  <2>8. ASSUME UNCHANGED open PROVE HAdd(k)
    BY <1>2, <2>8
  <2>9. QED
    BY <2>1, <2>2, <2>3, <2>4, <2>5, <2>6, <2>7, <2>8, OpenChanges
<1>3. CASE k \notin open
  <2>1. local'[home[k]] = k
    BY <1>2, <1>3 DEF HAdd, LocalOK, RestOK
  <2>2. QED
    BY <1>1, <2>1
<1>4. ASSUME k \in open, local[home[k]] = k
      PROVE  local'[home[k]] = k \/ Leaving(k)' \/ Kicked(k)'
  <2>1. ASSUME NEW c \in Conns, HAdd(c) PROVE local'[home[k]] = k \/ Leaving(k)' \/ Kicked(k)'
    BY <1>4, <2>1 DEF HAdd, Up, LocalOK, RestOK, HandlersOK, OpenOK, Used
  <2>2. ASSUME NEW c \in Conns, HRemove(c)
        PROVE  local'[home[k]] = k \/ Leaving(k)' \/ Kicked(k)'
    BY <1>4, <2>2 DEF HRemove, HStep, Remove, LocalOK, RestOK, HandlersOK, OpenOK, Used
  <2>3. ASSUME NEW g \in Gateways, SubClose(g)
        PROVE  local'[home[k]] = k \/ Leaving(k)' \/ Kicked(k)'
    BY <1>4, <2>3 DEF SubClose, SubTo, Remove, LocalOK, RestOK, HandlersOK, OpenOK, Used
  <2>4. ASSUME NEW g \in Gateways, RClose(g)
        PROVE  local'[home[k]] = k \/ Leaving(k)' \/ Kicked(k)'
    BY <1>4, <2>4 DEF RClose, RetTo, Remove, LocalOK, RestOK, HandlersOK, OpenOK, Used
  <2>5. ASSUME NEW g \in Gateways, Crash(g)
        PROVE  local'[home[k]] = k \/ Leaving(k)' \/ Kicked(k)'
    BY <1>4, <2>5 DEF Crash, Up, Disrupt, Here, LocalOK, RestOK, HandlersOK, OpenOK, Used
  <2>6. ASSUME UNCHANGED local PROVE local'[home[k]] = k \/ Leaving(k)' \/ Kicked(k)'
    BY <1>4, <2>6
  <2>7. QED
    BY <2>1, <2>2, <2>3, <2>4, <2>5, <2>6, LocalChanges
<1>5. ASSUME k \in open, Leaving(k) PROVE Leaving(k)'
  <2>1. ASSUME NEW c \in Conns, HAdd(c) PROVE Leaving(k)'
    BY <1>5, <2>1 DEF HAdd, Up, HandlersOK, RestOK
  <2>2. ASSUME NEW c \in Conns, HKick(c) PROVE Leaving(k)'
    BY <1>5, <2>2 DEF HKick, HandlersOK, RestOK
  <2>3. ASSUME NEW c \in Conns, HClaim(c) PROVE Leaving(k)'
    BY <1>5, <2>3 DEF HClaim, HStep, HandlersOK, RestOK
  <2>4. ASSUME NEW c \in Conns, HClaimFails(c) PROVE Leaving(k)'
    BY <1>5, <2>4 DEF HClaimFails, HStep, Disrupt, HandlersOK, RestOK
  <2>5. ASSUME NEW c \in Conns, HHeartbeat(c) PROVE Leaving(k)'
    BY <1>5, <2>5 DEF HHeartbeat, Refresh, HStep, HandlersOK, RestOK
  <2>6. ASSUME NEW c \in Conns, HReturn(c) PROVE Leaving(k)'
    BY <1>5, <2>6 DEF HReturn, HStep, HandlersOK, RestOK
  <2>7. ASSUME NEW c \in Conns, HFails(c) PROVE Leaving(k)'
    BY <1>5, <2>7 DEF HFails, HStep, Disrupt, HandlersOK, RestOK
  <2>8. ASSUME NEW c \in Conns, HClear(c) PROVE Leaving(k)'
    BY <1>5, <2>8 DEF HClear, HStep, ClearRouteIfMatch, ClearIfMatch, Disrupt,
       HandlersOK, RestOK
  <2>9. ASSUME NEW c \in Conns, HRemove(c) PROVE Leaving(k)'
    BY <1>5, <2>9 DEF HRemove, HStep, Remove, HandlersOK, RestOK
  <2>10. ASSUME NEW c \in Conns, HClose(c) PROVE Leaving(k)'
    BY <1>5, <2>10 DEF HClose, HStep, HandlersOK, RestOK
  <2>11. ASSUME NEW g \in Gateways, Crash(g) PROVE Leaving(k)'
    BY <1>5, <2>11 DEF Crash, Up, Disrupt, Here, HandlersOK, RestOK
  <2>12. ASSUME UNCHANGED hdl PROVE Leaving(k)'
    BY <1>5, <2>12
  <2>13. QED
    BY <2>1, <2>2, <2>3, <2>4, <2>5, <2>6, <2>7, <2>8, <2>9, <2>10, <2>11, <2>12,
       HandlersChanges
<1>6. ASSUME k \in open, NEW d \in Conns, hdl[d] = [step |-> "kick", prev |-> k]
      PROVE  hdl'[d] = [step |-> "kick", prev |-> k]
  <2>1. ASSUME NEW c \in Conns, HAdd(c) PROVE hdl'[d] = [step |-> "kick", prev |-> k]
    BY <1>6, <2>1 DEF HAdd, Up, HandlersOK, RestOK
  <2>2. ASSUME NEW c \in Conns, HKick(c) PROVE hdl'[d] = [step |-> "kick", prev |-> k]
    BY <1>6, <2>2 DEF HKick, HandlersOK, RestOK
  <2>3. ASSUME NEW c \in Conns, HClaim(c) PROVE hdl'[d] = [step |-> "kick", prev |-> k]
    BY <1>6, <2>3 DEF HClaim, HStep, HandlersOK, RestOK
  <2>4. ASSUME NEW c \in Conns, HClaimFails(c) PROVE hdl'[d] = [step |-> "kick", prev |-> k]
    BY <1>6, <2>4 DEF HClaimFails, HStep, Disrupt, HandlersOK, RestOK
  <2>5. ASSUME NEW c \in Conns, HHeartbeat(c) PROVE hdl'[d] = [step |-> "kick", prev |-> k]
    BY <1>6, <2>5 DEF HHeartbeat, Refresh, HStep, HandlersOK, RestOK
  <2>6. ASSUME NEW c \in Conns, HReturn(c) PROVE hdl'[d] = [step |-> "kick", prev |-> k]
    BY <1>6, <2>6 DEF HReturn, HStep, HandlersOK, RestOK
  <2>7. ASSUME NEW c \in Conns, HFails(c) PROVE hdl'[d] = [step |-> "kick", prev |-> k]
    BY <1>6, <2>7 DEF HFails, HStep, Disrupt, HandlersOK, RestOK
  <2>8. ASSUME NEW c \in Conns, HClear(c) PROVE hdl'[d] = [step |-> "kick", prev |-> k]
    BY <1>6, <2>8 DEF HClear, HStep, ClearRouteIfMatch, ClearIfMatch, Disrupt,
       HandlersOK, RestOK
  <2>9. ASSUME NEW c \in Conns, HRemove(c) PROVE hdl'[d] = [step |-> "kick", prev |-> k]
    BY <1>6, <2>9 DEF HRemove, HStep, Remove, HandlersOK, RestOK
  <2>10. ASSUME NEW c \in Conns, HClose(c) PROVE hdl'[d] = [step |-> "kick", prev |-> k]
    BY <1>6, <2>10 DEF HClose, HStep, HandlersOK, RestOK
  <2>11. ASSUME NEW g \in Gateways, Crash(g) PROVE hdl'[d] = [step |-> "kick", prev |-> k]
    BY <1>6, <2>11 DEF Crash, Up, Disrupt, Here, HandlersOK, RestOK, OpenOK, Used, AtHome
  <2>12. ASSUME UNCHANGED hdl PROVE hdl'[d] = [step |-> "kick", prev |-> k]
    BY <1>6, <2>12
  <2>13. QED
    BY <2>1, <2>2, <2>3, <2>4, <2>5, <2>6, <2>7, <2>8, <2>9, <2>10, <2>11, <2>12,
       HandlersChanges
<1>7. ASSUME Condemned(k) PROVE Condemned(k)'
  BY <1>7, CondemnedStep
<1>8. QED
  BY <1>1, <1>3, <1>4, <1>5, <1>6, <1>7 DEF OpenIsRegistered

-----------------------------------------------------------------------------
(* The invariant holds in every behaviour.                                 *)
LEMMA AlwaysSafe == Spec => []Safe
<1>1. Init => Safe
  BY InitSafe
<1>2. QED
  BY <1>1, SafeStep, PTL DEF Spec

(* Type correctness, and no use of a connection that is not there          *)
(* (ClientManager.GetConn and its callers).                                *)
THEOREM TypeCorrect == Spec => []TypeOK
<1>1. Safe => TypeOK
  BY StateHasTypes DEF Safe
<1>2. QED
  BY <1>1, AlwaysSafe, PTL

(* A Gateway leaves no second socket of a user open by oversight           *)
(* (ClientManager.Add and Remove).                                         *)
THEOREM OneSocketPerGateway == Spec => []OpenIsRegistered
<1>1. Init => OpenIsRegistered
  BY InitSafe
<1>2. Safe /\ OpenIsRegistered /\ [Next]_vars => OpenIsRegistered'
  BY RegisteredStep DEF Safe
<1>3. QED
  BY <1>1, <1>2, AlwaysSafe, PTL DEF Spec

(* Neither an older connection, a late envelope, the retry loop nor the    *)
(* cleanup at start takes the route from a connection that is served       *)
(* (clearRouteScript, and Add before ClaimRoute).                          *)
THEOREM ServedKeepsRoute == Spec => ServedRouteKept
<1> DEFINE Kept == \A c \in Conns :
      Served(c) /\ route = c /\ route' = 0
        => \/ disruptions' # disruptions
           \/ pub = [step |-> "clear", via |-> c]
<1>1. Safe /\ [Next]_vars => [Kept]_vars
  BY KeptStep
<1>2. QED
  BY <1>1, AlwaysSafe, PTL DEF Spec, ServedRouteKept

(* A heartbeat cannot take the route back (refreshRouteIfMatchScript).     *)
THEOREM RouteIsNeverTakenBack == Spec => NoTakeBack
<1> DEFINE Claimed == \A c \in Conns : route # c /\ route' = c => hdl[c].step = "claim"
<1>1. Safe /\ [Next]_vars => [Claimed]_vars
  BY TakeBackStep DEF Safe
<1>2. QED
  BY <1>1, AlwaysSafe, PTL DEF Spec, NoTakeBack

-----------------------------------------------------------------------------
(* PushPool.                                                               *)

\* A read loop in one of these steps holds a message that is not settled.
Pending == {"locking", "sending"} \cup Refusals

Queued(s) == Range(queue[s])

\* t comes before u; in order: it was accepted before u.
Before(q, t, u) == \E m, n \in DOMAIN q : m < n /\ q[m] = t /\ q[n] = u

AcceptedOnce == \A m, n \in DOMAIN order : order[m] = order[n] => m = n

(* The message a read loop holds was neither accepted nor answered, and    *)
(* nothing was that was not sent.                                          *)
HeldIsNew ==
  /\ \A c \in Sockets : sent[c] <= MessagesOf[c]
  /\ \A t \in Tasks : t \in Accepted \/ answer[t] # "none" => t[2] <= sent[t[1]]
  /\ \A c \in Sockets : pc[c] \in Pending =>
       sent[c] > 0 /\ <<c, sent[c]>> \notin Accepted /\ answer[<<c, sent[c]>>] = "none"

(* A shard's channel is the end of what it has accepted, in that order.    *)
QueueIsTheRest ==
  \A s \in Shards :
    /\ \A i, j \in DOMAIN queue[s] : i < j => Before(order, queue[s][i], queue[s][j])
    /\ \A t, u \in Tasks : Shard(t[1]) = s /\ Shard(u[1]) = s /\ Before(order, t, u) =>
         (t \in Queued(s) => u \in Queued(s))

(* What was accepted is in its shard's channel, in its hand, or answered.  *)
NothingIsLost ==
  /\ \A s \in Shards : \A t \in Queued(s) :
       t \in Accepted /\ Shard(t[1]) = s /\ answer[t] = "none"
  /\ \A s \in Shards : \A job \in hand[s] :
       /\ job.task \in Accepted /\ Shard(job.task[1]) = s
       /\ job.task \notin Queued(s) /\ answer[job.task] = "none"
  /\ \A t \in Accepted :
       \/ t \in Queued(Shard(t[1]))
       \/ \E job \in hand[Shard(t[1])] : job.task = t
       \/ answer[t] # "none"

(* Nobody sends on a closed channel, and who has left has left nothing.    *)
ClosedIsQuiet ==
  /\ closed <=> closer \in {"draining", "drained", "gaveUp"}
  /\ \A c \in Sockets : pc[c] = "sending" => ~closed
  /\ \A s \in exited : closed /\ hand[s] = {} /\ queue[s] = <<>>
  /\ done => exited = Shards
  /\ closer = "drained" => done

PoolInv ==
  /\ PoolTypeOK
  /\ AcceptedOnce
  /\ HeldIsNew
  /\ QueueIsTheRest
  /\ NothingIsLost
  /\ ClosedIsQuiet

-----------------------------------------------------------------------------
LEMMA TaskParts ==
  ASSUME NEW t \in Tasks
  PROVE  /\ t[1] \in Sockets /\ t[2] \in 1..MessagesOf[t[1]] /\ t = <<t[1], t[2]>>
         /\ Shard(t[1]) \in Shards
<1>1. PICK c \in Sockets : t \in {c} \X (1..MessagesOf[c])
  BY DEF Tasks
<1>2. t[1] = c /\ t[2] \in 1..MessagesOf[c] /\ t = <<t[1], t[2]>>
  BY <1>1
<1>3. QED
  BY <1>2, PushPoolAssumption DEF Shard

LEMMA TaskOf ==
  ASSUME NEW c \in Sockets, NEW n \in 1..MessagesOf[c]
  PROVE  <<c, n>> \in Tasks
BY DEF Tasks

\* What sending on a channel and receiving from it do.
LEMMA Appended ==
  ASSUME NEW S, NEW q \in Seq(S), NEW t \in S
  PROVE  /\ Append(q, t) \in Seq(S) /\ Len(Append(q, t)) = Len(q) + 1
         /\ \A i \in DOMAIN q : i \in DOMAIN Append(q, t) /\ Append(q, t)[i] = q[i]
         /\ \A i \in DOMAIN Append(q, t) :
              i \in DOMAIN q \/ (i = Len(q) + 1 /\ Append(q, t)[i] = t)
         /\ Len(q) + 1 \in DOMAIN Append(q, t) /\ Append(q, t)[Len(q) + 1] = t
         /\ Range(Append(q, t)) = Range(q) \cup {t}
<1>1. /\ Append(q, t) \in Seq(S) /\ Len(Append(q, t)) = Len(q) + 1
      /\ DOMAIN q = 1..Len(q) /\ DOMAIN Append(q, t) = 1..(Len(q) + 1)
      /\ \A i \in 1..Len(q) : Append(q, t)[i] = q[i]
      /\ Append(q, t)[Len(q) + 1] = t /\ Len(q) \in Nat
  OBVIOUS
<1>2. /\ \A i \in DOMAIN q : i \in DOMAIN Append(q, t) /\ Append(q, t)[i] = q[i]
      /\ \A i \in DOMAIN Append(q, t) :
           i \in DOMAIN q \/ (i = Len(q) + 1 /\ Append(q, t)[i] = t)
      /\ Len(q) + 1 \in DOMAIN Append(q, t)
  BY <1>1
<1>3. Range(Append(q, t)) = Range(q) \cup {t}
  BY <1>1, <1>2 DEF Range
<1>4. QED
  BY <1>1, <1>2, <1>3

LEMMA Received ==
  ASSUME NEW S, NEW q \in Seq(S), q # <<>>
  PROVE  /\ Head(q) \in S /\ Tail(q) \in Seq(S) /\ Len(Tail(q)) = Len(q) - 1
         /\ 1 \in DOMAIN q /\ Head(q) = q[1]
         /\ \A i \in DOMAIN Tail(q) : i + 1 \in DOMAIN q /\ Tail(q)[i] = q[i + 1]
         /\ \A i \in DOMAIN q : i = 1 \/ (i - 1 \in DOMAIN Tail(q) /\ Tail(q)[i - 1] = q[i])
         /\ Range(q) = Range(Tail(q)) \cup {Head(q)}
<1>1. /\ Head(q) \in S /\ Tail(q) \in Seq(S) /\ Len(Tail(q)) = Len(q) - 1
      /\ DOMAIN q = 1..Len(q) /\ DOMAIN Tail(q) = 1..(Len(q) - 1)
      /\ \A i \in 1..(Len(q) - 1) : Tail(q)[i] = q[i + 1]
      /\ Head(q) = q[1] /\ Len(q) \in Nat \ {0}
  OBVIOUS
<1>2. /\ 1 \in DOMAIN q
      /\ \A i \in DOMAIN Tail(q) : i + 1 \in DOMAIN q /\ Tail(q)[i] = q[i + 1]
  BY <1>1
<1>3. ASSUME NEW i \in DOMAIN q, i # 1
      PROVE  i - 1 \in DOMAIN Tail(q) /\ Tail(q)[i - 1] = q[i]
  <2>1. i \in 1..Len(q) /\ i - 1 \in 1..(Len(q) - 1) /\ (i - 1) + 1 = i
    BY <1>1, <1>3
  <2>2. QED
    BY <1>1, <2>1
<1>4. Range(q) = Range(Tail(q)) \cup {Head(q)}
  <2>1. ASSUME NEW x \in Range(q) PROVE x \in Range(Tail(q)) \cup {Head(q)}
    <3>1. PICK i \in DOMAIN q : q[i] = x
      BY DEF Range
    <3>2. CASE i = 1
      BY <1>1, <3>1, <3>2
    <3>3. CASE i # 1
      BY <1>3, <3>1, <3>3 DEF Range
    <3>4. QED
      BY <3>2, <3>3
  <2>2. Range(Tail(q)) \subseteq Range(q)
    BY <1>2 DEF Range
  <2>3. Head(q) \in Range(q)
    BY <1>1, <1>2 DEF Range
  <2>4. QED
    BY <2>1, <2>2, <2>3
<1>5. QED
  BY <1>1, <1>2, <1>3, <1>4

LEMMA QueuedTasks ==
  ASSUME PoolTypeOK, NEW s \in Shards
  PROVE  /\ queue[s] \in Seq(Tasks) /\ Queued(s) \subseteq Tasks
         /\ \A t \in Queued(s) : \E i \in DOMAIN queue[s] : queue[s][i] = t
<1>1. queue[s] \in Seq(Tasks)
  BY DEF PoolTypeOK
<1>2. QED
  BY <1>1 DEF Queued, Range

\* One comes before the other, and not the other way round.
LEMMA BeforeIsOrder ==
  ASSUME PoolTypeOK, AcceptedOnce
  PROVE  /\ Accepted \subseteq Tasks
         /\ \A t, u \in Tasks : Before(order, t, u) => t # u /\ ~Before(order, u, t)
                                               /\ t \in Accepted /\ u \in Accepted
<1>1. order \in Seq(Tasks) /\ DOMAIN order \subseteq Nat
  BY DEF PoolTypeOK
<1>2. Accepted \subseteq Tasks
  BY <1>1 DEF Accepted, Range
<1>3. ASSUME NEW t \in Tasks, NEW u \in Tasks, Before(order, t, u)
      PROVE  t # u /\ ~Before(order, u, t) /\ t \in Accepted /\ u \in Accepted
  <2>1. PICK m, n \in DOMAIN order : m < n /\ order[m] = t /\ order[n] = u
    BY <1>3 DEF Before
  <2>2. t # u
    BY <1>1, <2>1 DEF AcceptedOnce
  <2>3. ~Before(order, u, t)
    <3> SUFFICES ASSUME NEW k \in DOMAIN order, NEW l \in DOMAIN order,
                        k < l, order[k] = u, order[l] = t
                 PROVE  FALSE
      BY DEF Before
    <3>1. k = n /\ l = m
      BY <2>1 DEF AcceptedOnce
    <3>2. QED
      BY <1>1, <2>1, <3>1
  <2>4. QED
    BY <2>1, <2>2, <2>3 DEF Accepted, Range
<1>4. QED
  BY <1>2, <1>3

\* Accepting t puts it behind everything else.
LEMMA AcceptingOne ==
  ASSUME PoolTypeOK, AcceptedOnce, NEW t \in Tasks, t \notin Accepted,
         order' = Append(order, t)
  PROVE  /\ order' \in Seq(Tasks) /\ Accepted' = Accepted \cup {t} /\ AcceptedOnce'
         /\ \A x \in Accepted : Before(order', x, t)
         /\ \A x, y \in Tasks : Before(order, x, y) => Before(order', x, y)
         /\ \A x, y \in Tasks : Before(order', x, y) => Before(order, x, y) \/ (y = t /\ x \in Accepted)
<1>1. order \in Seq(Tasks) /\ DOMAIN order = 1..Len(order) /\ Len(order) \in Nat
  BY DEF PoolTypeOK
<1>2. /\ order' \in Seq(Tasks)
      /\ \A i \in DOMAIN order : i \in DOMAIN order' /\ order'[i] = order[i]
      /\ \A i \in DOMAIN order' : i \in DOMAIN order \/ (i = Len(order) + 1 /\ order'[i] = t)
      /\ Len(order) + 1 \in DOMAIN order' /\ order'[Len(order) + 1] = t
      /\ Range(order') = Range(order) \cup {t}
  BY <1>1, Appended
<1>3. \A n \in DOMAIN order : order[n] # t /\ order[n] \in Accepted
  BY DEF Accepted, Range
<1>4. AcceptedOnce'
  BY <1>2, <1>3 DEF AcceptedOnce
<1>5. Accepted' = Accepted \cup {t}
  BY <1>2 DEF Accepted
<1>6. ASSUME NEW x \in Accepted PROVE Before(order', x, t)
  <2>1. PICK n \in DOMAIN order : order[n] = x
    BY <1>6 DEF Accepted, Range
  <2>2. n \in Nat /\ n < Len(order) + 1
    BY <1>1
  <2>3. QED
    BY <1>2, <2>1, <2>2 DEF Before
<1>7. ASSUME NEW x \in Tasks, NEW y \in Tasks, Before(order, x, y) PROVE Before(order', x, y)
  BY <1>2, <1>7 DEF Before
<1>8. ASSUME NEW x \in Tasks, NEW y \in Tasks, Before(order', x, y)
      PROVE  Before(order, x, y) \/ (y = t /\ x \in Accepted)
  <2>1. PICK m, n \in DOMAIN order' : m < n /\ order'[m] = x /\ order'[n] = y
    BY <1>8 DEF Before
  <2>2. CASE n \in DOMAIN order
    <3>1. m \in DOMAIN order
      BY <1>1, <1>2, <2>1, <2>2
    <3>2. QED
      BY <1>2, <2>1, <2>2, <3>1 DEF Before
  <2>3. CASE n = Len(order) + 1
    <3>1. m \in DOMAIN order
      BY <1>1, <1>2, <2>1, <2>3
    <3>2. QED
      BY <1>2, <1>3, <2>1, <2>3, <3>1
  <2>4. QED
    BY <1>2, <2>1, <2>2, <2>3
<1>9. QED
  BY <1>2, <1>4, <1>5, <1>6, <1>7, <1>8

-----------------------------------------------------------------------------
LEMMA InitPoolInv == PoolInit => PoolInv
<1> SUFFICES ASSUME PoolInit PROVE PoolInv
  OBVIOUS
<1> USE DEF PoolInit
<1>1. PoolTypeOK
  <2>1. /\ queue \in [Shards -> Seq(Tasks)] /\ \A s \in Shards : Len(queue[s]) <= QueueSize
        /\ order \in Seq(Tasks)
    BY PushPoolAssumption
  <2>2. hand \in [Shards -> SUBSET Job] /\ \A s \in Shards : \A a, b \in hand[s] : a = b
    OBVIOUS
  <2>3. /\ pc \in [Sockets -> {"reading", "locking", "sending", "ended"} \cup Refusals]
        /\ sent \in [Sockets -> Nat] /\ connected \in [Sockets -> BOOLEAN]
        /\ answer \in [Tasks -> {"none", "lost"} \cup Refusals \cup Results]
    OBVIOUS
  <2>4. QED
    BY <2>1, <2>2, <2>3 DEF PoolTypeOK
<1>2. Accepted = {} /\ DOMAIN order = {}
  BY DEF Accepted, Range
<1>3. AcceptedOnce
  BY <1>2 DEF AcceptedOnce
<1>4. HeldIsNew
  BY <1>2, PushPoolAssumption DEF HeldIsNew, Pending, Refusals
<1>5. \A s \in Shards : DOMAIN queue[s] = {} /\ Queued(s) = {}
  BY DEF Queued, Range
<1>6. QueueIsTheRest
  BY <1>5 DEF QueueIsTheRest
<1>7. NothingIsLost
  BY <1>2, <1>5 DEF NothingIsLost
<1>8. ClosedIsQuiet
  BY DEF ClosedIsQuiet
<1>9. QED
  BY <1>1, <1>3, <1>4, <1>6, <1>7, <1>8 DEF PoolInv

-----------------------------------------------------------------------------
LEMMA PoolTypesStep ==
  ASSUME PoolTypeOK, HeldIsNew, [PoolNext]_pushVars
  PROVE  PoolTypeOK'
<1> USE DEF PoolTypeOK
<1>1. ASSUME NEW c \in Sockets, Receive(c) PROVE PoolTypeOK'
  <2>1. sent' \in [Sockets -> Nat]
    BY <1>1 DEF Receive
  <2>2. pc' \in [Sockets -> {"reading", "locking", "sending", "ended"} \cup Refusals]
    BY <1>1 DEF Receive, Goto, Refusals
  <2>3. QED
    BY <1>1, <2>1, <2>2 DEF Receive, poolVars
<1>2. ASSUME NEW c \in Sockets, Lock(c) \/ Refuse(c) \/ LoopEnds(c) PROVE PoolTypeOK'
  <2>1. pc' \in [Sockets -> {"reading", "locking", "sending", "ended"} \cup Refusals]
    BY <1>2 DEF Lock, Refuse, LoopEnds, Goto, Refusals
  <2>2. QED
    BY <1>2, <2>1 DEF Lock, Refuse, LoopEnds, poolVars
<1>3. ASSUME NEW c \in Sockets, Send(c) PROVE PoolTypeOK'
  <2>1. sent[c] \in 1..MessagesOf[c] /\ Shard(c) \in Shards
    <3>1. sent[c] \in Nat /\ MessagesOf[c] \in Nat /\ sent[c] > 0 /\ sent[c] <= MessagesOf[c]
      BY <1>3, PushPoolAssumption DEF HeldIsNew, Pending, Send
    <3>2. QED
      BY <3>1, PushPoolAssumption DEF Shard
  <2>2. PICK t \in Tasks : t = <<c, sent[c]>>
    BY <2>1, TaskOf
  <2>3. /\ queue' = [queue EXCEPT ![Shard(c)] = Append(queue[Shard(c)], t)]
        /\ order' = Append(order, t) /\ Len(queue[Shard(c)]) < QueueSize
    BY <1>3, <2>2 DEF Send, HasRoom
  <2>4. order' \in Seq(Tasks)
    BY <2>3
  <2>5. /\ Append(queue[Shard(c)], t) \in Seq(Tasks)
        /\ Len(Append(queue[Shard(c)], t)) = Len(queue[Shard(c)]) + 1
        /\ Len(queue[Shard(c)]) \in Nat
    BY <2>1, Appended
  <2>6. Len(Append(queue[Shard(c)], t)) <= QueueSize
    BY <2>3, <2>5, PushPoolAssumption
  <2>7. queue' \in [Shards -> Seq(Tasks)] /\ \A s \in Shards : Len(queue'[s]) <= QueueSize
    BY <2>1, <2>3, <2>5, <2>6
  <2>8. pc' \in [Sockets -> {"reading", "locking", "sending", "ended"} \cup Refusals]
    BY <1>3 DEF Send, Goto
  <2>9. QED
    BY <1>3, <2>4, <2>7, <2>8 DEF Send
<1>4. ASSUME NEW c \in Sockets, Reject(c) PROVE PoolTypeOK'
  <2>1. pc' \in [Sockets -> {"reading", "locking", "sending", "ended"} \cup Refusals]
    BY <1>4 DEF Reject, Goto
  <2>2. answer' \in [Tasks -> {"none", "lost"} \cup Refusals \cup Results]
    BY <1>4 DEF Reject, Write
  <2>3. QED
    BY <1>4, <2>1, <2>2 DEF Reject, poolVars
<1>5. ASSUME NEW c \in Sockets, Disconnect(c) \/ Cancel(c) PROVE PoolTypeOK'
  BY <1>5 DEF Disconnect, Cancel, poolVars
<1>6. ASSUME NEW s \in Shards, Take(s) PROVE PoolTypeOK'
  <2>1. PICK t : t = Head(queue[s])
    OBVIOUS
  <2>2. /\ t \in Tasks /\ Tail(queue[s]) \in Seq(Tasks)
        /\ Len(Tail(queue[s])) = Len(queue[s]) - 1 /\ Len(queue[s]) \in Nat
    BY <1>6, <2>1, Received DEF Take
  <2>3. Len(Tail(queue[s])) <= QueueSize
    BY <2>2, PushPoolAssumption
  <2>4. queue' \in [Shards -> Seq(Tasks)] /\ \A r \in Shards : Len(queue'[r]) <= QueueSize
    BY <1>6, <2>2, <2>3 DEF Take
  <2>5. [task |-> t, live |-> t[1] \notin cancelled] \in Job
    BY <2>2 DEF Job
  <2>6. hand' = [hand EXCEPT ![s] = {[task |-> t, live |-> t[1] \notin cancelled]}]
    BY <1>6, <2>1 DEF Take
  <2>7. hand' \in [Shards -> SUBSET Job] /\ \A r \in Shards : \A a, b \in hand'[r] : a = b
    BY <2>5, <2>6
  <2>8. QED
    BY <1>6, <2>4, <2>7 DEF Take
<1>7. ASSUME NEW s \in Shards, Finish(s) PROVE PoolTypeOK'
  <2>1. answer' \in [Tasks -> {"none", "lost"} \cup Refusals \cup Results]
    <3>1. PICK job \in hand[s] : \E result \in ResultsOf(job) : Write(job.task, result)
      BY <1>7 DEF Finish
    <3>2. PICK result \in ResultsOf(job) : Write(job.task, result)
      BY <3>1
    <3>3. result \in Results
      BY DEF ResultsOf, Results
    <3>4. QED
      BY <3>2, <3>3 DEF Write
  <2>2. hand' \in [Shards -> SUBSET Job] /\ \A r \in Shards : \A a, b \in hand'[r] : a = b
    BY <1>7 DEF Finish
  <2>3. QED
    BY <1>7, <2>1, <2>2 DEF Finish
<1>8. ASSUME NEW s \in Shards, Exit(s) PROVE PoolTypeOK'
  BY <1>8 DEF Exit
<1>9. CASE AllExited \/ Close \/ CloseChannels \/ CloseDrained \/ CloseGivesUp
  BY <1>9 DEF AllExited, Close, CloseChannels, CloseDrained, CloseGivesUp, CloseAs
<1>10. CASE UNCHANGED pushVars
  BY <1>10 DEF pushVars, poolVars
<1>11. QED
  BY <1>1, <1>2, <1>3, <1>4, <1>5, <1>6, <1>7, <1>8, <1>9, <1>10 DEF PoolNext, ReadLoop, Work

\* The step of a read loop or of a shard touches its own place only.
LEMMA QueueFrame ==
  ASSUME AcceptedOnce, QueueIsTheRest, UNCHANGED <<queue, order>>
  PROVE  AcceptedOnce' /\ QueueIsTheRest'
BY DEF AcceptedOnce, QueueIsTheRest, Before, Queued

LEMMA LostFrame ==
  ASSUME NothingIsLost, UNCHANGED <<queue, order, hand, answer>>
  PROVE  NothingIsLost'
BY DEF NothingIsLost, Accepted, Queued

LEMMA NewFrame ==
  ASSUME HeldIsNew, UNCHANGED <<order, answer, sent>>,
         \A c \in Sockets : pc'[c] \in Pending => pc[c] \in Pending
  PROVE  HeldIsNew'
BY DEF HeldIsNew, Accepted

LEMMA QuietFrame ==
  ASSUME ClosedIsQuiet, UNCHANGED <<closed, hand, queue, exited, done, closer>>,
         \A c \in Sockets : pc'[c] = "sending" => pc[c] = "sending"
  PROVE  ClosedIsQuiet'
BY DEF ClosedIsQuiet

LEMMA SendStep ==
  ASSUME PoolInv, NEW c \in Sockets, Send(c)
  PROVE  /\ AcceptedOnce' /\ HeldIsNew' /\ QueueIsTheRest' /\ NothingIsLost' /\ ClosedIsQuiet'
         /\ \E t \in Tasks : /\ t \notin Accepted /\ order' = Append(order, t) /\ ~closed
                             /\ Started' = Started /\ Finished' = Finished
<1> USE DEF PoolInv
<1>1. /\ pc \in [Sockets -> {"reading", "locking", "sending", "ended"} \cup Refusals]
      /\ sent \in [Sockets -> Nat] /\ queue \in [Shards -> Seq(Tasks)]
      /\ pc[c] = "sending" /\ pc[c] \in Pending /\ Shard(c) \in Shards
      /\ UNCHANGED <<closed, hand, exited, done, closer, sent, answer>>
      /\ pc' = [pc EXCEPT ![c] = "reading"]
  BY PushPoolAssumption DEF PoolTypeOK, Send, Goto, Pending, Shard
<1>2. sent[c] \in 1..MessagesOf[c]
  <2>1. sent[c] \in Nat /\ MessagesOf[c] \in Nat /\ sent[c] > 0 /\ sent[c] <= MessagesOf[c]
    BY <1>1, PushPoolAssumption DEF HeldIsNew
  <2>2. QED
    BY <2>1
<1>3. PICK t \in Tasks : t = <<c, sent[c]>>
  BY <1>2, TaskOf
<1>4. /\ t[1] = c /\ t[2] = sent[c] /\ t \notin Accepted /\ answer[t] = "none"
      /\ queue' = [queue EXCEPT ![Shard(c)] = Append(queue[Shard(c)], t)]
      /\ order' = Append(order, t)
  BY <1>1, <1>3 DEF HeldIsNew, Send
<1>5. /\ AcceptedOnce' /\ Accepted' = Accepted \cup {t}
      /\ \A x \in Accepted : Before(order', x, t)
      /\ \A x, y \in Tasks : Before(order, x, y) => Before(order', x, y)
      /\ \A x, y \in Tasks : Before(order', x, y) => Before(order, x, y) \/ (y = t /\ x \in Accepted)
  BY <1>4, AcceptingOne
<1>6. /\ Accepted \subseteq Tasks
      /\ \A x, y \in Tasks : Before(order, x, y) => x # y /\ ~Before(order, y, x) /\ x \in Accepted /\ y \in Accepted
  BY BeforeIsOrder
<1>7. /\ queue'[Shard(c)] = Append(queue[Shard(c)], t)
      /\ \A s \in Shards : s # Shard(c) => queue'[s] = queue[s]
  BY <1>1, <1>4
<1>8. /\ \A s \in Shards : Queued(s)' = IF s = Shard(c) THEN Queued(s) \cup {t} ELSE Queued(s)
      /\ \A s \in Shards : Queued(s) \subseteq Tasks
  <2>1. \A s \in Shards : queue[s] \in Seq(Tasks)
    BY <1>1
  <2>2. Range(queue'[Shard(c)]) = Range(queue[Shard(c)]) \cup {t}
    BY <1>1, <1>7, <2>1, Appended
  <2>3. QED
    BY <1>7, <2>2, QueuedTasks DEF Queued
<1>9. HeldIsNew'
  <2>1. \A u \in Tasks : u \in Accepted' \/ answer'[u] # "none" => u[2] <= sent'[u[1]]
    BY <1>1, <1>4, <1>5 DEF HeldIsNew
  <2>2. \A d \in Sockets : pc'[d] \in Pending =>
          d # c /\ pc[d] \in Pending /\ <<d, sent[d]>> # t
    BY <1>1, <1>3 DEF Pending, Refusals
  <2>3. QED
    BY <1>1, <1>5, <2>1, <2>2 DEF HeldIsNew
<1>10. QueueIsTheRest'
  <2> SUFFICES ASSUME NEW s \in Shards
               PROVE  /\ \A i, j \in DOMAIN queue'[s] : i < j => Before(order', queue'[s][i], queue'[s][j])
                      /\ \A x, y \in Tasks : Shard(x[1]) = s /\ Shard(y[1]) = s /\ Before(order', x, y) =>
                           (x \in Queued(s)' => y \in Queued(s)')
    BY DEF QueueIsTheRest, Shard
  <2>1. /\ \A i, j \in DOMAIN queue[s] : i < j => Before(order, queue[s][i], queue[s][j])
        /\ \A x, y \in Tasks : Shard(x[1]) = s /\ Shard(y[1]) = s /\ Before(order, x, y) =>
             (x \in Queued(s) => y \in Queued(s))
        /\ \A i \in DOMAIN queue[s] : queue[s][i] \in Queued(s)
    BY DEF QueueIsTheRest, Queued, Range
  <2>2. Queued(s) \subseteq Accepted /\ Queued(s) \subseteq Tasks
    BY <1>8 DEF NothingIsLost
  <2>3. ASSUME NEW i \in DOMAIN queue'[s], NEW j \in DOMAIN queue'[s], i < j
        PROVE  Before(order', queue'[s][i], queue'[s][j])
    <3>1. CASE s # Shard(c)
      BY <1>5, <1>7, <2>1, <2>2, <2>3, <3>1
    <3>2. CASE s = Shard(c)
      <4>1. /\ \A k \in DOMAIN queue[s] : queue'[s][k] = queue[s][k]
            /\ \A k \in DOMAIN queue'[s] :
                 k \in DOMAIN queue[s] \/ (k = Len(queue[s]) + 1 /\ queue'[s][k] = t)
            /\ DOMAIN queue[s] = 1..Len(queue[s]) /\ Len(queue[s]) \in Nat
        BY <1>1, <1>7, <3>2, Appended
      <4>2. i \in DOMAIN queue[s]
        BY <2>3, <4>1
      <4>3. CASE j \in DOMAIN queue[s]
        BY <1>5, <2>1, <2>2, <2>3, <4>1, <4>2, <4>3
      <4>4. CASE queue'[s][j] = t
        BY <1>5, <2>1, <2>2, <4>1, <4>2, <4>4
      <4>5. QED
        BY <4>1, <4>3, <4>4
    <3>3. QED
      BY <3>1, <3>2
  <2>4. ASSUME NEW x \in Tasks, NEW y \in Tasks, Shard(x[1]) = s, Shard(y[1]) = s,
               Before(order', x, y), x \in Queued(s)'
        PROVE  y \in Queued(s)'
    <3>1. CASE Before(order, x, y)
      BY <1>4, <1>6, <1>8, <2>1, <2>4, <3>1
    <3>2. CASE y = t
      BY <1>4, <1>8, <2>4, <3>2
    <3>3. QED
      BY <1>5, <2>4, <3>1, <3>2
  <2>5. QED
    BY <2>3, <2>4
<1>11. NothingIsLost'
  <2>1. \A s \in Shards : \A u \in Queued(s)' :
          u \in Accepted' /\ Shard(u[1]) = s /\ answer'[u] = "none"
    <3>1. \A s \in Shards : \A u \in Queued(s) :
            u \in Accepted' /\ Shard(u[1]) = s /\ answer'[u] = "none"
      BY <1>1, <1>5 DEF NothingIsLost
    <3>2. t \in Accepted' /\ Shard(t[1]) = Shard(c) /\ answer'[t] = "none"
      BY <1>1, <1>4, <1>5
    <3>3. \A s \in Shards : \A u \in Queued(s)' : u \in Queued(s) \/ (s = Shard(c) /\ u = t)
      BY <1>8
    <3>4. QED
      BY <3>1, <3>2, <3>3
  <2>2. \A s \in Shards : \A job \in hand'[s] :
          /\ job.task \in Accepted' /\ Shard(job.task[1]) = s
          /\ job.task \notin Queued(s)' /\ answer'[job.task] = "none"
    <3> SUFFICES ASSUME NEW s \in Shards, NEW job \in hand[s]
                 PROVE  /\ job.task \in Accepted' /\ Shard(job.task[1]) = s
                        /\ job.task \notin Queued(s)' /\ answer'[job.task] = "none"
      BY <1>1
    <3>1. /\ job.task \in Accepted /\ Shard(job.task[1]) = s
          /\ job.task \notin Queued(s) /\ answer[job.task] = "none"
      BY DEF NothingIsLost
    <3>2. QED
      BY <1>1, <1>4, <1>5, <1>8, <3>1
  <2>3. \A u \in Accepted' :
          \/ u \in Queued(Shard(u[1]))'
          \/ \E job \in hand'[Shard(u[1])] : job.task = u
          \/ answer'[u] # "none"
    <3> SUFFICES ASSUME NEW u \in Accepted'
                 PROVE  \/ u \in Queued(Shard(u[1]))'
                        \/ \E job \in hand'[Shard(u[1])] : job.task = u
                        \/ answer'[u] # "none"
      OBVIOUS
    <3>1. CASE u = t
      BY <1>1, <1>4, <1>8, <3>1
    <3>2. CASE u \in Accepted
      <4>1. Shard(u[1]) \in Shards
        BY <1>6, <3>2, TaskParts
      <4>2. QED
        BY <1>1, <1>8, <3>2, <4>1 DEF NothingIsLost
    <3>3. QED
      BY <1>5, <3>1, <3>2
  <2>4. QED
    BY <2>1, <2>2, <2>3 DEF NothingIsLost, Shard
<1>12. ClosedIsQuiet' /\ ~closed
  <2>1. ~closed
    BY <1>1 DEF ClosedIsQuiet
  <2>2. QED
    BY <1>1, <2>1 DEF ClosedIsQuiet
<1>13. Started' = Started /\ Finished' = Finished
  <2>1. Finished' = Finished
    BY <1>1, <1>4, <1>5 DEF Finished
  <2>2. \A u \in Accepted : Shard(u[1]) \in Shards /\ u # t
    BY <1>4, <1>6, TaskParts
  <2>3. Started = {u \in Accepted : u \notin Queued(Shard(u[1]))}
        /\ Started' = {u \in Accepted' : u \notin Queued(Shard(u[1]))'}
    BY DEF Started, Queued, Shard
  <2>4. t \in Queued(Shard(t[1]))'
    BY <1>1, <1>4, <1>8
  <2>5. Started' = Started
    BY <1>5, <1>8, <2>2, <2>3, <2>4
  <2>6. QED
    BY <2>1, <2>5
<1>14. QED
  BY <1>4, <1>5, <1>9, <1>10, <1>11, <1>12, <1>13

LEMMA TakeStep ==
  ASSUME PoolInv, NEW s \in Shards, Take(s)
  PROVE  /\ AcceptedOnce' /\ HeldIsNew' /\ QueueIsTheRest' /\ NothingIsLost' /\ ClosedIsQuiet'
         /\ \E t \in Tasks :
              /\ t \notin Started /\ Started' = Started \cup {t} /\ Finished' = Finished
              /\ \E n \in DOMAIN order :
                   /\ order[n] = t
                   /\ \A m \in 1..(n - 1) : KeyOf[order[m]] = KeyOf[t] => order[m] \in Finished
<1> USE DEF PoolInv
<1> DEFINE t == Head(queue[s])
           job == [task |-> t, live |-> t[1] \notin cancelled]
<1>1. /\ queue \in [Shards -> Seq(Tasks)] /\ hand \in [Shards -> SUBSET Job]
      /\ queue[s] \in Seq(Tasks) /\ queue[s] # <<>> /\ hand[s] = {}
      /\ queue' = [queue EXCEPT ![s] = Tail(queue[s])]
      /\ hand' = [hand EXCEPT ![s] = {job}]
      /\ UNCHANGED <<closed, exited, done, closer, order, pc, sent, answer>>
      /\ job.task = t
  BY DEF PoolTypeOK, Take
<1>2. /\ t \in Tasks /\ 1 \in DOMAIN queue[s] /\ t = queue[s][1]
      /\ DOMAIN queue[s] \subseteq Nat \ {0} /\ DOMAIN Tail(queue[s]) \subseteq Nat
      /\ \A i \in DOMAIN Tail(queue[s]) :
           i + 1 \in DOMAIN queue[s] /\ Tail(queue[s])[i] = queue[s][i + 1]
      /\ Range(queue[s]) = Range(Tail(queue[s])) \cup {t}
  BY <1>1, Received
<1> HIDE DEF t
<1>3. /\ Accepted \subseteq Tasks /\ Accepted' = Accepted
      /\ \A x, y \in Tasks :
           Before(order, x, y) => x # y /\ ~Before(order, y, x) /\ x \in Accepted /\ y \in Accepted
  BY <1>1, BeforeIsOrder DEF Accepted
<1>4. t \in Queued(s) /\ t \in Accepted /\ Shard(t[1]) = s /\ answer[t] = "none"
  BY <1>2 DEF NothingIsLost, Queued
<1>5. \A x \in Queued(s) : x \in Tasks /\ (x # t => Before(order, t, x))
  <2> SUFFICES ASSUME NEW x \in Queued(s), x # t PROVE Before(order, t, x)
    BY QueuedTasks
  <2>1. PICK i \in DOMAIN queue[s] : queue[s][i] = x
    BY QueuedTasks
  <2>2. i # 1 /\ i \in Nat \ {0}
    BY <1>2, <2>1
  <2>3. 1 < i
    BY <2>2
  <2>4. QED
    BY <1>2, <2>1, <2>3 DEF QueueIsTheRest
<1>6. /\ queue'[s] = Tail(queue[s]) /\ hand'[s] = {job}
      /\ \A r \in Shards : r # s => queue'[r] = queue[r] /\ hand'[r] = hand[r]
  BY <1>1
<1>7. t \notin Range(Tail(queue[s]))
  <2> SUFFICES ASSUME NEW i \in DOMAIN Tail(queue[s]), Tail(queue[s])[i] = t PROVE FALSE
    BY DEF Range
  <2>1. i + 1 \in DOMAIN queue[s] /\ queue[s][i + 1] = t /\ i \in Nat /\ i + 1 > 0 /\ i + 1 \in Nat \ {0}
    BY <1>2
  <2>2. i # 0
    BY <1>1
  <2>3. 1 < i + 1
    BY <2>1, <2>2
  <2>4. Before(order, t, t)
    BY <1>2, <2>1, <2>3 DEF QueueIsTheRest
  <2>5. QED
    BY <1>2, <1>3, <2>4
<1>8. \A r \in Shards : Queued(r)' = IF r = s THEN Queued(r) \ {t} ELSE Queued(r)
  <2>1. Range(Tail(queue[s])) = Range(queue[s]) \ {t}
    BY <1>2, <1>7
  <2>2. QED
    BY <1>6, <2>1 DEF Queued
<1>9. AcceptedOnce' /\ HeldIsNew'
  BY <1>1, NewFrame DEF AcceptedOnce
<1>10. QueueIsTheRest'
  <2> SUFFICES ASSUME NEW r \in Shards
               PROVE  /\ \A i, j \in DOMAIN queue'[r] : i < j => Before(order, queue'[r][i], queue'[r][j])
                      /\ \A x, y \in Tasks : Shard(x[1]) = r /\ Shard(y[1]) = r /\ Before(order, x, y) =>
                           (x \in Queued(r)' => y \in Queued(r)')
    BY <1>1 DEF QueueIsTheRest, Shard
  <2>1. ASSUME NEW i \in DOMAIN queue'[r], NEW j \in DOMAIN queue'[r], i < j
        PROVE  Before(order, queue'[r][i], queue'[r][j])
    <3>1. CASE r # s
      BY <1>6, <2>1, <3>1 DEF QueueIsTheRest
    <3>2. CASE r = s
      <4>1. /\ i + 1 \in DOMAIN queue[s] /\ queue'[r][i] = queue[s][i + 1] /\ i \in Nat
            /\ j + 1 \in DOMAIN queue[s] /\ queue'[r][j] = queue[s][j + 1] /\ j \in Nat
        BY <1>2, <1>6, <3>2
      <4>2. i + 1 < j + 1
        BY <2>1, <4>1
      <4>3. QED
        BY <4>1, <4>2 DEF QueueIsTheRest
    <3>3. QED
      BY <3>1, <3>2
  <2>2. ASSUME NEW x \in Tasks, NEW y \in Tasks, Shard(x[1]) = r, Shard(y[1]) = r,
               Before(order, x, y), x \in Queued(r)'
        PROVE  y \in Queued(r)'
    <3>1. x \in Queued(r) /\ y \in Queued(r)
      BY <1>8, <2>2 DEF QueueIsTheRest
    <3>2. CASE r = s
      <4>1. x # t
        BY <1>8, <2>2, <3>2
      <4>2. y # t
        BY <1>3, <1>5, <2>2, <3>1, <3>2, <4>1
      <4>3. QED
        BY <1>8, <3>1, <3>2, <4>2
    <3>3. QED
      BY <1>8, <3>1, <3>2
  <2>3. QED
    BY <2>1, <2>2
<1>11. NothingIsLost'
  <2>1. \A r \in Shards : \A u \in Queued(r)' :
          u \in Accepted' /\ Shard(u[1]) = r /\ answer'[u] = "none"
    <3>1. \A r \in Shards : Queued(r)' \subseteq Queued(r)
      BY <1>8
    <3>2. Accepted' = Accepted /\ answer' = answer
      BY <1>1, <1>3
    <3>3. QED
      BY <3>1, <3>2 DEF NothingIsLost
  <2>2. ASSUME NEW r \in Shards, NEW j \in hand'[r]
        PROVE  /\ j.task \in Accepted' /\ Shard(j.task[1]) = r
               /\ j.task \notin Queued(r)' /\ answer'[j.task] = "none"
    <3>1. CASE r = s
      <4>1. j.task = t
        BY <1>1, <1>6, <2>2, <3>1
      <4>2. QED
        BY <1>1, <1>3, <1>4, <1>8, <3>1, <4>1
    <3>2. CASE r # s
      BY <1>1, <1>3, <1>6, <1>8, <2>2, <3>2 DEF NothingIsLost
    <3>3. QED
      BY <3>1, <3>2
  <2>3. ASSUME NEW u \in Accepted
        PROVE  \/ u \in Queued(Shard(u[1]))'
               \/ \E j \in hand'[Shard(u[1])] : j.task = u
               \/ answer'[u] # "none"
    <3>1. Shard(u[1]) \in Shards
      BY <1>3, <2>3, TaskParts
    <3>2. CASE u = t
      BY <1>1, <1>4, <1>6, <3>2
    <3>3. CASE u # t
      <4>1. \/ u \in Queued(Shard(u[1]))
            \/ \E j \in hand[Shard(u[1])] : j.task = u
            \/ answer[u] # "none"
        BY <2>3 DEF NothingIsLost
      <4>2. QED
        BY <1>1, <1>6, <1>8, <3>1, <3>3, <4>1
    <3>4. QED
      BY <3>2, <3>3
  <2>4. QED
    BY <1>3, <2>1, <2>2, <2>3 DEF NothingIsLost, Shard
<1>12. ClosedIsQuiet'
  <2>1. s \notin exited
    BY <1>1 DEF ClosedIsQuiet
  <2>2. \A r \in exited : r \in Shards /\ r # s
    BY <2>1 DEF PoolTypeOK
  <2>3. \A r \in exited' : closed' /\ hand'[r] = {} /\ queue'[r] = <<>>
    BY <1>1, <1>6, <2>2 DEF ClosedIsQuiet
  <2>4. QED
    BY <1>1, <2>3 DEF ClosedIsQuiet
<1>13. t \notin Started /\ Started' = Started \cup {t} /\ Finished' = Finished
  <2>1. Started = {u \in Accepted : u \notin Queued(Shard(u[1]))}
        /\ Started' = {u \in Accepted' : u \notin Queued(Shard(u[1]))'}
    BY DEF Started, Queued, Shard
  <2>2. \A u \in Accepted : Shard(u[1]) \in Shards
    BY <1>3, TaskParts
  <2>3. Finished' = Finished
    BY <1>1, <1>3 DEF Finished
  <2>4. QED
    BY <1>3, <1>4, <1>8, <2>1, <2>2, <2>3
<1>14. \E n \in DOMAIN order :
         /\ order[n] = t
         /\ \A m \in 1..(n - 1) : KeyOf[order[m]] = KeyOf[t] => order[m] \in Finished
  <2>1. PICK n \in DOMAIN order : order[n] = t
    BY <1>4 DEF Accepted, Range
  <2>2. ASSUME NEW m \in 1..(n - 1), KeyOf[order[m]] = KeyOf[t] PROVE order[m] \in Finished
    <3>1. m \in DOMAIN order /\ m < n /\ order[m] \in Tasks /\ order[m] \in Accepted
      <4>1. order \in Seq(Tasks) /\ DOMAIN order = 1..Len(order) /\ Len(order) \in Nat
        BY DEF PoolTypeOK
      <4>2. m \in DOMAIN order /\ m < n
        BY <2>1, <4>1
      <4>3. QED
        BY <4>1, <4>2 DEF Accepted, Range
    <3>2. Before(order, order[m], t)
      BY <2>1, <3>1 DEF Before
    <3>3. Shard(order[m][1]) = s
      BY <1>2, <1>4, <2>2, <3>1 DEF KeyOf, Shard
    <3>4. order[m] \notin Queued(s)
      BY <1>2, <1>3, <1>5, <3>1, <3>2
    <3>5. answer[order[m]] # "none"
      BY <1>1, <3>1, <3>3, <3>4 DEF NothingIsLost
    <3>6. QED
      BY <3>1, <3>5 DEF Finished
  <2>3. QED
    BY <2>1, <2>2
<1>15. QED
  BY <1>2, <1>9, <1>10, <1>11, <1>12, <1>13, <1>14

LEMMA FinishStep ==
  ASSUME PoolInv, NEW s \in Shards, Finish(s)
  PROVE  /\ AcceptedOnce' /\ HeldIsNew' /\ QueueIsTheRest' /\ NothingIsLost' /\ ClosedIsQuiet'
         /\ \E t \in Tasks : /\ t \in Started \ Finished /\ Started' = Started
                             /\ Finished' = Finished \cup {t} /\ UNCHANGED <<closed, closer, order>>
<1> USE DEF PoolInv
<1>1. PICK job \in hand[s] : \E result \in ResultsOf(job) : Write(job.task, result)
  BY DEF Finish
<1>2. PICK result \in ResultsOf(job) : Write(job.task, result)
  BY <1>1
<1>3. PICK t : t = job.task
  OBVIOUS
<1>4. /\ hand \in [Shards -> SUBSET Job] /\ \A a, b \in hand[s] : a = b
      /\ answer \in [Tasks -> {"none", "lost"} \cup Refusals \cup Results]
      /\ hand' = [hand EXCEPT ![s] = {}]
      /\ UNCHANGED <<closed, queue, exited, done, closer, order, pc, sent>>
  BY DEF PoolTypeOK, Finish
<1>5. t \in Accepted /\ Shard(t[1]) = s /\ t \notin Queued(s) /\ answer[t] = "none" /\ t \in Tasks
  <2>1. job \in Job
    BY <1>1, <1>4
  <2>2. job.task \in Tasks
    BY <2>1 DEF Job
  <2>3. QED
    BY <1>1, <1>3, <2>2 DEF NothingIsLost
<1>6. answer'[t] # "none" /\ \A u \in Tasks : u # t => answer'[u] = answer[u]
  <2>1. result # "none"
    BY <1>2 DEF ResultsOf, Results
  <2>2. answer' = [answer EXCEPT ![t] = IF connected[t[1]] THEN result ELSE "lost"]
    BY <1>2, <1>3 DEF Write
  <2>3. QED
    BY <1>4, <1>5, <2>1, <2>2
<1>7. Accepted' = Accepted /\ Accepted \subseteq Tasks /\ \A r \in Shards : Queued(r)' = Queued(r)
  BY <1>4, BeforeIsOrder DEF Accepted, Queued
<1>8. AcceptedOnce' /\ QueueIsTheRest'
  BY <1>4, QueueFrame
<1>9. HeldIsNew'
  <2>1. \A c \in Sockets : pc[c] \in Pending => <<c, sent[c]>> # t /\ <<c, sent[c]>> \in Tasks
    <3> SUFFICES ASSUME NEW c \in Sockets, pc[c] \in Pending
                 PROVE  <<c, sent[c]>> # t /\ <<c, sent[c]>> \in Tasks
      OBVIOUS
    <3>1. /\ sent[c] \in Nat /\ MessagesOf[c] \in Nat /\ sent[c] > 0 /\ sent[c] <= MessagesOf[c]
          /\ <<c, sent[c]>> \notin Accepted
      BY PushPoolAssumption DEF HeldIsNew, PoolTypeOK
    <3>2. sent[c] \in 1..MessagesOf[c]
      BY <3>1
    <3>3. QED
      BY <1>5, <3>1, <3>2, TaskOf
  <2>2. \A u \in Tasks : u \in Accepted \/ answer'[u] # "none" => u[2] <= sent[u[1]]
    BY <1>5, <1>6 DEF HeldIsNew
  <2>3. QED
    BY <1>4, <1>6, <1>7, <2>1, <2>2 DEF HeldIsNew
<1>10. NothingIsLost'
  <2>1. \A r \in Shards : \A u \in Queued(r)' :
          u \in Accepted' /\ Shard(u[1]) = r /\ answer'[u] = "none"
    <3> SUFFICES ASSUME NEW r \in Shards, NEW u \in Queued(r)
                 PROVE  u \in Accepted /\ Shard(u[1]) = r /\ answer'[u] = "none"
      BY <1>7
    <3>1. u \in Accepted /\ Shard(u[1]) = r /\ answer[u] = "none"
      BY DEF NothingIsLost
    <3>2. u # t
      BY <1>5, <3>1
    <3>3. QED
      BY <1>6, <1>7, <3>1, <3>2
  <2>2. ASSUME NEW r \in Shards, NEW j \in hand'[r]
        PROVE  /\ j.task \in Accepted' /\ Shard(j.task[1]) = r
               /\ j.task \notin Queued(r)' /\ answer'[j.task] = "none"
    <3>1. r # s /\ j \in hand[r]
      BY <1>4, <2>2
    <3>2. /\ j.task \in Accepted /\ Shard(j.task[1]) = r
          /\ j.task \notin Queued(r) /\ answer[j.task] = "none"
      BY <3>1 DEF NothingIsLost
    <3>3. j.task # t
      BY <1>5, <3>1, <3>2
    <3>4. QED
      BY <1>6, <1>7, <3>2, <3>3
  <2>3. ASSUME NEW u \in Accepted
        PROVE  \/ u \in Queued(Shard(u[1]))'
               \/ \E j \in hand'[Shard(u[1])] : j.task = u
               \/ answer'[u] # "none"
    <3>1. Shard(u[1]) \in Shards /\ u \in Tasks
      BY <1>7, <2>3, TaskParts
    <3>2. CASE u # t
      <4>1. \/ u \in Queued(Shard(u[1]))
            \/ \E j \in hand[Shard(u[1])] : j.task = u
            \/ answer[u] # "none"
        BY <2>3 DEF NothingIsLost
      <4>2. CASE \E j \in hand[Shard(u[1])] : j.task = u
        <5>1. Shard(u[1]) # s
          BY <1>1, <1>3, <1>4, <3>2, <4>2
        <5>2. QED
          BY <1>4, <3>1, <4>2, <5>1
      <4>3. QED
        BY <1>6, <1>7, <3>1, <3>2, <4>1, <4>2
    <3>3. QED
      BY <1>6, <3>2
  <2>4. QED
    BY <1>7, <2>1, <2>2, <2>3 DEF NothingIsLost, Shard
<1>11. ClosedIsQuiet'
  <2>1. \A r \in exited' : closed' /\ hand'[r] = {} /\ queue'[r] = <<>>
    BY <1>4 DEF ClosedIsQuiet, PoolTypeOK
  <2>2. QED
    BY <1>4, <2>1 DEF ClosedIsQuiet
<1>12. /\ t \in Started \ Finished /\ Started' = Started /\ Finished' = Finished \cup {t}
  <2>1. Started' = Started
    BY <1>4 DEF Started, Accepted, Shard
  <2>2. t \in Started \ Finished
    BY <1>5 DEF Started, Finished, Queued
  <2>3. Finished' = Finished \cup {t}
    BY <1>5, <1>6, <1>7 DEF Finished
  <2>4. QED
    BY <2>1, <2>2, <2>3
<1>13. QED
  BY <1>4, <1>5, <1>8, <1>9, <1>10, <1>11, <1>12

\* The steps that neither accept nor start nor finish anything.
LEMMA OtherStep ==
  ASSUME PoolInv,
         \/ \E c \in Sockets : Receive(c) \/ Lock(c) \/ Refuse(c) \/ Reject(c) \/ LoopEnds(c)
                               \/ Disconnect(c) \/ Cancel(c)
         \/ \E s \in Shards : Exit(s)
         \/ AllExited \/ Close \/ CloseChannels \/ CloseDrained \/ CloseGivesUp
         \/ UNCHANGED pushVars
  PROVE  /\ AcceptedOnce' /\ HeldIsNew' /\ QueueIsTheRest' /\ NothingIsLost' /\ ClosedIsQuiet'
         /\ Started' = Started /\ Finished' = Finished /\ order' = order
<1> USE DEF PoolInv
<1>1. /\ pc \in [Sockets -> {"reading", "locking", "sending", "ended"} \cup Refusals]
      /\ sent \in [Sockets -> Nat] /\ Accepted \subseteq Tasks
      /\ answer \in [Tasks -> {"none", "lost"} \cup Refusals \cup Results]
  BY BeforeIsOrder DEF PoolTypeOK
<1>2. UNCHANGED <<queue, hand, order>>
  BY DEF Receive, Lock, Refuse, Reject, LoopEnds, Disconnect, Cancel, Exit, AllExited, Close,
         CloseChannels, CloseDrained, CloseGivesUp, pushVars, poolVars
<1>3. AcceptedOnce' /\ QueueIsTheRest' /\ Accepted' = Accepted /\ Started' = Started
  BY <1>2, QueueFrame DEF Accepted, Started, Shard
<1>4. ASSUME UNCHANGED answer
      PROVE  NothingIsLost' /\ Finished' = Finished
  BY <1>2, <1>3, <1>4, LostFrame DEF Finished
<1>5. ASSUME UNCHANGED <<closed, exited, done, closer>>,
             \A c \in Sockets : pc'[c] = "sending" => pc[c] = "sending"
      PROVE  ClosedIsQuiet'
  BY <1>2, <1>5, QuietFrame
<1>6. ASSUME NEW c \in Sockets, Receive(c)
      PROVE  HeldIsNew' /\ NothingIsLost' /\ Finished' = Finished /\ ClosedIsQuiet'
  <2>1. /\ sent[c] < MessagesOf[c] /\ sent' = [sent EXCEPT ![c] = sent[c] + 1]
        /\ pc[c] = "reading" /\ pc'[c] \in {"REQUEST_CANCELED", "locking"}
        /\ \A d \in Sockets : d # c => pc'[d] = pc[d]
        /\ UNCHANGED <<closed, exited, done, closer, answer>>
    BY <1>1, <1>6 DEF Receive, Goto, poolVars
  <2>2. sent[c] \in Nat /\ MessagesOf[c] \in Nat /\ sent'[c] = sent[c] + 1
    BY <1>1, <2>1, PushPoolAssumption
  <2>3. \A d \in Sockets : sent'[d] <= MessagesOf[d]
    BY <1>1, <2>1, <2>2 DEF HeldIsNew
  <2>4. \A u \in Tasks : u \in Accepted \/ answer[u] # "none" =>
          u[2] <= sent'[u[1]] /\ (u[1] = c => u[2] <= sent[c])
    <3> SUFFICES ASSUME NEW u \in Tasks, u \in Accepted \/ answer[u] # "none"
                 PROVE  u[2] <= sent'[u[1]] /\ (u[1] = c => u[2] <= sent[c])
      OBVIOUS
    <3>1. u[1] \in Sockets /\ u[2] \in Nat /\ u[2] <= sent[u[1]] /\ MessagesOf[u[1]] \in Nat
      BY TaskParts, PushPoolAssumption DEF HeldIsNew
    <3>2. sent[u[1]] \in Nat /\ (u[1] # c => sent'[u[1]] = sent[u[1]])
      BY <1>1, <2>1, <3>1
    <3>3. CASE u[1] = c
      <4>1. sent'[u[1]] = sent[c] + 1 /\ u[2] <= sent[c]
        BY <2>2, <3>1, <3>3
      <4>2. u[2] <= sent[c] + 1
        BY <2>2, <3>1, <4>1
      <4>3. QED
        BY <4>1, <4>2
    <3>4. CASE u[1] # c
      BY <3>1, <3>2, <3>4
    <3>5. QED
      BY <3>3, <3>4
  <2>5. /\ sent'[c] > 0 /\ <<c, sent'[c]>> \notin Accepted /\ answer[<<c, sent'[c]>>] = "none"
    <3>1. sent'[c] \in 1..MessagesOf[c]
      BY <2>1, <2>2
    <3>2. PICK u \in Tasks : u = <<c, sent'[c]>>
      BY <3>1, TaskOf
    <3>3. u[1] = c /\ ~(u[2] <= sent[c])
      BY <2>2, <3>2
    <3>4. QED
      BY <2>2, <2>4, <3>2, <3>3
  <2>6. \A d \in Sockets : pc'[d] \in Pending =>
          sent'[d] > 0 /\ <<d, sent'[d]>> \notin Accepted /\ answer[<<d, sent'[d]>>] = "none"
    BY <1>1, <2>1, <2>5 DEF HeldIsNew
  <2>7. HeldIsNew'
    BY <1>3, <2>1, <2>3, <2>4, <2>6 DEF HeldIsNew
  <2>8. QED
    BY <1>4, <1>5, <2>1, <2>7
<1>7. ASSUME NEW c \in Sockets, Lock(c)
      PROVE  HeldIsNew' /\ NothingIsLost' /\ Finished' = Finished /\ ClosedIsQuiet'
  <2>1. /\ pc[c] = "locking" /\ pc'[c] \in {"SERVER_UNAVAILABLE", "sending"}
        /\ pc'[c] = "sending" => ~closed
        /\ \A d \in Sockets : d # c => pc'[d] = pc[d]
        /\ UNCHANGED <<closed, exited, done, closer, answer, sent>>
    BY <1>1, <1>7 DEF Lock, Goto, poolVars
  <2>2. HeldIsNew'
    BY <1>2, <2>1, NewFrame DEF Pending
  <2>3. ClosedIsQuiet'
    BY <1>2, <2>1 DEF ClosedIsQuiet
  <2>4. QED
    BY <1>4, <2>1, <2>2, <2>3
<1>8. ASSUME NEW c \in Sockets, Refuse(c) \/ LoopEnds(c) \/ Disconnect(c) \/ Cancel(c)
      PROVE  HeldIsNew' /\ NothingIsLost' /\ Finished' = Finished /\ ClosedIsQuiet'
  <2>1. /\ \A d \in Sockets : /\ pc'[d] \in Pending => pc[d] \in Pending
                              /\ pc'[d] = "sending" => pc[d] = "sending"
        /\ UNCHANGED <<closed, exited, done, closer, answer, sent>>
    BY <1>1, <1>8 DEF Refuse, LoopEnds, Disconnect, Cancel, Goto, Pending, Refusals, poolVars
  <2>2. HeldIsNew'
    BY <1>2, <2>1, NewFrame
  <2>3. QED
    BY <1>4, <1>5, <2>1, <2>2
<1>9. ASSUME NEW c \in Sockets, Reject(c)
      PROVE  HeldIsNew' /\ NothingIsLost' /\ Finished' = Finished /\ ClosedIsQuiet'
  <2>1. PICK t : t = <<c, sent[c]>>
    OBVIOUS
  <2>2. /\ pc[c] \in Refusals /\ pc'[c] \in {"reading", "ended"}
        /\ \A d \in Sockets : d # c => pc'[d] = pc[d]
        /\ UNCHANGED <<closed, exited, done, closer, sent>>
        /\ answer' = [answer EXCEPT ![t] = IF connected[t[1]] THEN pc[c] ELSE "lost"]
    BY <1>1, <1>9, <2>1 DEF Reject, Write, Goto, poolVars
  <2>3. sent[c] \in Nat /\ sent[c] <= MessagesOf[c] /\ MessagesOf[c] \in Nat /\ sent[c] > 0
        /\ t \notin Accepted
    BY <1>1, <2>1, <2>2, PushPoolAssumption DEF HeldIsNew, Pending
  <2>4. t \in Tasks /\ t[1] = c /\ t[2] = sent[c]
    BY <2>1, <2>3, TaskOf
  <2>5. \A u \in Tasks : u # t => answer'[u] = answer[u]
    BY <1>1, <2>2
  <2>6. NothingIsLost' /\ Finished' = Finished
    <3>1. \A u \in Accepted : u # t /\ answer'[u] = answer[u]
      BY <1>1, <2>3, <2>5
    <3>2. Finished' = Finished
      BY <1>3, <3>1 DEF Finished
    <3>3. NothingIsLost'
      BY <1>2, <1>3, <3>1 DEF NothingIsLost, Queued
    <3>4. QED
      BY <3>2, <3>3
  <2>7. HeldIsNew'
    <3>1. \A u \in Tasks : u \in Accepted \/ answer'[u] # "none" => u[2] <= sent[u[1]]
      BY <2>3, <2>4, <2>5 DEF HeldIsNew
    <3>2. \A d \in Sockets : pc'[d] \in Pending =>
            d # c /\ pc[d] \in Pending
      BY <2>2 DEF Pending, Refusals
    <3>3. ASSUME NEW d \in Sockets, pc'[d] \in Pending
          PROVE  sent[d] > 0 /\ <<d, sent[d]>> \notin Accepted /\ answer'[<<d, sent[d]>>] = "none"
      <4>1. /\ sent[d] \in Nat /\ MessagesOf[d] \in Nat /\ sent[d] > 0 /\ sent[d] <= MessagesOf[d]
            /\ <<d, sent[d]>> \notin Accepted /\ answer[<<d, sent[d]>>] = "none"
        BY <1>1, <3>2, <3>3, PushPoolAssumption DEF HeldIsNew
      <4>2. sent[d] \in 1..MessagesOf[d]
        BY <4>1
      <4>3. <<d, sent[d]>> \in Tasks
        BY <4>2, TaskOf
      <4>4. <<d, sent[d]>> # t
        BY <2>1, <3>2, <3>3
      <4>5. QED
        BY <2>5, <4>1, <4>3, <4>4
    <3>4. QED
      BY <1>3, <2>2, <3>1, <3>3 DEF HeldIsNew
  <2>8. ClosedIsQuiet'
    BY <1>5, <2>2
  <2>9. QED
    BY <2>6, <2>7, <2>8
<1>10. ASSUME NEW s \in Shards, Exit(s)
       PROVE  HeldIsNew' /\ NothingIsLost' /\ Finished' = Finished /\ ClosedIsQuiet'
  <2>1. /\ hand[s] = {} /\ closed /\ queue[s] = <<>> /\ s \notin exited
        /\ exited' = exited \cup {s}
        /\ UNCHANGED <<closed, done, closer, pc, sent, answer>>
    BY <1>10 DEF Exit
  <2>2. ClosedIsQuiet'
    BY <1>2, <2>1 DEF ClosedIsQuiet
  <2>3. QED
    BY <1>2, <1>4, <2>1, <2>2, NewFrame
<1>11. ASSUME AllExited \/ Close \/ CloseChannels \/ CloseDrained \/ CloseGivesUp
       PROVE  HeldIsNew' /\ NothingIsLost' /\ Finished' = Finished /\ ClosedIsQuiet'
  <2>1. UNCHANGED <<exited, pc, sent, answer>>
    BY <1>11 DEF AllExited, Close, CloseChannels, CloseDrained, CloseGivesUp
  <2>2. ClosedIsQuiet'
    BY <1>2, <1>11, <2>1 DEF ClosedIsQuiet, AllExited, Close, CloseChannels, CloseDrained,
       CloseGivesUp, CloseAs
  <2>3. QED
    BY <1>2, <1>4, <2>1, <2>2, NewFrame
<1>12. CASE UNCHANGED pushVars
  <2>1. UNCHANGED <<closed, exited, done, closer, pc, sent, answer>>
    BY <1>12 DEF pushVars, poolVars
  <2>2. QED
    BY <1>2, <1>3, <1>4, <1>5, <2>1, NewFrame
<1>13. QED
  BY <1>2, <1>3, <1>6, <1>7, <1>8, <1>9, <1>10, <1>11, <1>12

LEMMA PoolInvStep ==
  ASSUME PoolInv, [PoolNext]_pushVars
  PROVE  PoolInv'
<1>1. PoolTypeOK'
  BY PoolTypesStep DEF PoolInv
<1>2. AcceptedOnce' /\ HeldIsNew' /\ QueueIsTheRest' /\ NothingIsLost' /\ ClosedIsQuiet'
  BY SendStep, TakeStep, FinishStep, OtherStep DEF PoolNext, ReadLoop, Work
<1>3. QED
  BY <1>1, <1>2 DEF PoolInv

LEMMA PoolInvariant == PoolSpec => []PoolInv
<1>1. QED
  BY InitPoolInv, PoolInvStep, PTL DEF PoolSpec

\* Whoever sees done closed sees everything finished.
LEMMA DrainedIsFinished ==
  ASSUME PoolInv, done, NEW n \in DOMAIN order
  PROVE  order[n] \in Finished
<1>1. \A s \in Shards : hand[s] = {} /\ Queued(s) = {}
  BY DEF PoolInv, ClosedIsQuiet, Queued, Range
<1>2. order[n] \in Accepted /\ Shard(order[n][1]) \in Shards
  <2>1. order[n] \in Accepted /\ Accepted \subseteq Tasks
    BY BeforeIsOrder DEF Accepted, Range, PoolInv
  <2>2. QED
    BY <2>1, TaskParts
<1>3. answer[order[n]] # "none"
  BY <1>1, <1>2 DEF PoolInv, NothingIsLost
<1>4. QED
  BY <1>2, <1>3 DEF Finished

LEMMA PromiseStep ==
  ASSUME PoolInv, [PoolNext]_pushVars
  PROVE  [Promise!Next]_(Promise!vars)
<1> USE DEF Promise!Next, Promise!vars
<1>1. ASSUME NEW c \in Sockets, Send(c) PROVE [Promise!Next]_(Promise!vars)
  <2>1. PICK t \in Tasks : /\ t \notin Accepted /\ order' = Append(order, t) /\ ~closed
                          /\ Started' = Started /\ Finished' = Finished
    BY <1>1, SendStep
  <2>2. UNCHANGED <<closed, closer>> /\ \A n \in DOMAIN order : order[n] # t
    BY <1>1, <2>1 DEF Send, Accepted, Range
  <2>3. Promise!TakeOn(t)
    BY <2>1, <2>2 DEF Promise!TakeOn
  <2>4. QED
    BY <2>3
<1>2. ASSUME NEW s \in Shards, Take(s) PROVE [Promise!Next]_(Promise!vars)
  <2>1. PICK t \in Tasks :
          /\ t \notin Started /\ Started' = Started \cup {t} /\ Finished' = Finished
          /\ \E n \in DOMAIN order :
               /\ order[n] = t
               /\ \A m \in 1..(n - 1) : KeyOf[order[m]] = KeyOf[t] => order[m] \in Finished
    BY <1>2, TakeStep
  <2>2. UNCHANGED <<closed, closer, order>>
    BY <1>2 DEF Take
  <2>3. Promise!Start(t)
    BY <2>1, <2>2 DEF Promise!Start
  <2>4. QED
    BY <2>3
<1>3. ASSUME NEW s \in Shards, Finish(s) PROVE [Promise!Next]_(Promise!vars)
  <2>1. PICK t \in Tasks : /\ t \in Started \ Finished /\ Started' = Started
                          /\ Finished' = Finished \cup {t} /\ UNCHANGED <<closed, closer, order>>
    BY <1>3, FinishStep
  <2>2. Promise!Finish(t)
    BY <2>1 DEF Promise!Finish
  <2>3. QED
    BY <2>2
<1>4. CASE \/ \E c \in Sockets : Receive(c) \/ Lock(c) \/ Refuse(c) \/ Reject(c) \/ LoopEnds(c)
                                 \/ Disconnect(c) \/ Cancel(c)
           \/ \E s \in Shards : Exit(s)
           \/ AllExited \/ Close \/ CloseGivesUp \/ UNCHANGED pushVars
  <2>1. Started' = Started /\ Finished' = Finished /\ order' = order
    BY <1>4, OtherStep
  <2>2. UNCHANGED closed /\ (closer' = "drained") = (closer = "drained")
    BY <1>4 DEF Receive, Lock, Refuse, Reject, LoopEnds, Disconnect, Cancel, Exit, AllExited, Close,
                CloseGivesUp, CloseAs, pushVars, poolVars
  <2>3. QED
    BY <2>1, <2>2
<1>5. CASE CloseChannels
  <2>1. Started' = Started /\ Finished' = Finished /\ order' = order
    BY <1>5, OtherStep
  <2>2. closed' = TRUE /\ ~closed /\ (closer' = "drained") = (closer = "drained")
    BY <1>5 DEF CloseChannels, CloseAs, PoolInv, ClosedIsQuiet
  <2>3. Promise!Shut
    BY <2>1, <2>2 DEF Promise!Shut
  <2>4. QED
    BY <2>3
<1>6. CASE CloseDrained
  <2>1. Started' = Started /\ Finished' = Finished /\ order' = order
    BY <1>6, OtherStep
  <2>2. closed /\ UNCHANGED closed /\ closer' = "drained" /\ done
    BY <1>6 DEF CloseDrained, CloseAs, PoolInv, ClosedIsQuiet
  <2>3. \A n \in DOMAIN order : order[n] \in Finished
    BY <2>2, DrainedIsFinished
  <2>4. Promise!Drain
    BY <2>1, <2>2, <2>3 DEF Promise!Drain
  <2>5. QED
    BY <2>4
<1>7. QED
  BY <1>1, <1>2, <1>3, <1>4, <1>5, <1>6 DEF PoolNext, ReadLoop, Work

(* The pool's fields have their types, and no channel holds more than its  *)
(* capacity (Submit, runShard).                                            *)
THEOREM PoolTypesCorrect == PoolSpec => []PoolTypeOK
<1>1. PoolInv => PoolTypeOK
  BY DEF PoolInv
<1>2. QED
  BY <1>1, PoolInvariant, PTL

(* Whoever submits, cancels, disconnects or closes in whatever order, no   *)
(* message goes on a closed channel, none is handled twice or before an    *)
(* older one of its user is finished, and Close returns nil only when      *)
(* everything accepted was finished (PushWorkerPool, pool.go).             *)
THEOREM PoolKeepsOrder == PoolSpec => ImplementsOrderedExecutor
<1>1. PoolInit => Promise!Init
  <2> SUFFICES ASSUME PoolInit PROVE Promise!Init
    OBVIOUS
  <2>1. Accepted = {}
    BY DEF PoolInit, Accepted, Range
  <2>2. QED
    BY <2>1 DEF PoolInit, Promise!Init, Started, Finished
<1>2. QED
  BY <1>1, PoolInvariant, PromiseStep, PTL DEF PoolSpec, ImplementsOrderedExecutor, Promise!Spec

=============================================================================
