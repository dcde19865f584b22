------------------------------ MODULE InboxProofs ------------------------------
(***************************************************************************)
(* Proofs about what reaches a user: PendingAck, from a stored message to  *)
(* its acknowledgement, for any number of messages, deliveries,            *)
(* connections and disruptions; and CommunityEvents, from the event of a   *)
(* community to its members' inboxes, for any number of events, members,   *)
(* publishers, failures and changes of membership.                         *)
(***************************************************************************)
EXTENDS PendingAck, CommunityEvents, TLAPS

(* What a process has in hand is a message; a connection that is written   *)
(* to exists; an ACK under way is of a message that was received.          *)
InHand ==
  /\ \A d \in Deliveries : dlv[d].step = "publish" => dlv[d].via # 0
  /\ sub.step # "idle" => sub.msg \in Messages
  /\ sub.step = "write" => sub.conn # 0 /\ sub.via = sub.conn
  /\ ret.step \in {"load", "write", "touch", "postpone"} => ret.msg \in Messages
  /\ ret.step # "idle" => ret.conn # 0
  /\ \A c \in Conns : rd[c].step = "ack" => rd[c].msg \in received

AcksAreReceived == acks \subseteq received

\* The open socket is the registered one.
OneSocket == open # 0 => local = open

(* A login that has claimed the route, or will, and is still served.       *)
Alive(c) == open = c /\ (rd[c].step = "claim" \/ route = c)

(* How a message that is not acknowledged comes to the client of such a    *)
(* login: it will be listed, it waits to be replayed, or it is on its way. *)
Covered(m, c) ==
  \/ m \in received \cup wire
  \/ rd[c].step \in {"claim", "list"}
  \/ rd[c].step = "sync" /\ m \in rd[c].todo
  \/ \E d \in Deliveries :
       /\ MsgOf[d] = m
       /\ dlv[d].step = "route" \/ (dlv[d].step = "publish" /\ dlv[d].via = c)
  \/ [msg |-> m, via |-> c] \in channel
  \/ sub.step = "write" /\ sub.msg = m /\ sub.via = c

NothingIsMissed ==
  disruptions = 0 =>
    \A m \in tracked, c \in Conns : Alive(c) => Covered(m, c)

IInv ==
  /\ TypeOK
  /\ InHand
  /\ AcksAreReceived
  /\ OneSocket
  /\ StaysReplayable
  /\ NothingIsMissed

-----------------------------------------------------------------------------
LEMMA InitIInv == Init => IInv
<1> SUFFICES ASSUME Init PROVE IInv
  OBVIOUS
<1> USE PendingAckAssumption
<1>1. TypeOK
  BY DEF Init, TypeOK, Delivery, Push, Retry, Session, Envelope, DSteps, SSteps, RSteps, HSteps,
         SubIdle, RetIdle, RdIdle, Conns
<1>2. InHand
  BY DEF Init, InHand, SubIdle, RetIdle, RdIdle
<1>3. AcksAreReceived /\ OneSocket /\ StaysReplayable /\ NothingIsMissed
  BY DEF Init, AcksAreReceived, OneSocket, StaysReplayable, NothingIsMissed
<1>4. QED
  BY <1>1, <1>2, <1>3 DEF IInv

(* A route is cleared or stays.                                            *)
LEMMA RouteCleared ==
  ASSUME TypeOK, NEW c, ClearRouteIfMatch(c)
  PROVE  /\ route' \in 0..MaxConns /\ route' \in {0, route}
         /\ disruptions' \in 0..MaxDisruptions /\ disruptions' >= disruptions
<1> USE PendingAckAssumption
<1>1. QED
  BY DEF ClearRouteIfMatch, Disrupt, TypeOK

LEMMA Disrupted ==
  ASSUME TypeOK, Disrupt
  PROVE  disruptions' \in 0..MaxDisruptions /\ disruptions' # 0
BY PendingAckAssumption DEF TypeOK, Disrupt

(* A closed connection takes what it carried with it.                      *)
LEMMA Closed ==
  ASSUME TypeOK, NEW c, Close(c), UNCHANGED latest
  PROVE  /\ open' \in {0, latest'} /\ open' \in {0, open}
         /\ wire' \subseteq Messages /\ acks' \subseteq acks
         /\ open' = 0 => wire' = {} /\ acks' = {}
         /\ open' # 0 => open # c /\ wire' = wire
BY DEF TypeOK, Close

-----------------------------------------------------------------------------
(* What is said of the Redis keys, of the connections and of the processes *)
(* that move messages.                                                     *)
KeysTypeOK ==
  /\ pending \in [Messages -> {"none", "fresh", "due"}]
  /\ ackIdx \subseteq Messages
  /\ retries \in [Messages -> 0..(MaxRetries + 1)]
  /\ cursor \in Nat /\ dbCursor \in Nat
  /\ tracked \subseteq Messages /\ received \subseteq Messages

ConnsTypeOK ==
  /\ route \in 0..MaxConns /\ local \in 0..MaxConns /\ latest \in 0..MaxConns
  /\ open \in {0, latest}
  /\ wire \subseteq Messages /\ acks \subseteq Messages
  /\ open = 0 => wire = {} /\ acks = {}
  /\ disruptions \in 0..MaxDisruptions

ProcsTypeOK ==
  /\ channel \subseteq Envelope /\ dlv \in [Deliveries -> Delivery]
  /\ sub \in Push /\ ret \in Retry /\ rd \in [Conns -> Session]

LEMMA TypeParts ==
  /\ TypeOK <=> KeysTypeOK /\ ConnsTypeOK /\ ProcsTypeOK
  /\ TypeOK' <=> KeysTypeOK' /\ ConnsTypeOK' /\ ProcsTypeOK'
BY DEF TypeOK, KeysTypeOK, ConnsTypeOK, ProcsTypeOK

(* The fields of what the processes have in hand.                          *)
LEMMA Fields ==
  ASSUME TypeOK
  PROVE  /\ \A d \in Deliveries : dlv[d].step \in DSteps /\ dlv[d].via \in 0..MaxConns
         /\ sub.step \in SSteps /\ sub.via \in 0..MaxConns /\ sub.conn \in 0..MaxConns
         /\ sub.msg \in Messages \cup {"none"}
         /\ ret.step \in RSteps /\ ret.via \in 0..MaxConns /\ ret.conn \in 0..MaxConns
         /\ ret.msg \in Messages \cup {"none"} /\ ret.todo \subseteq Messages
         /\ \A c \in Conns :
              /\ rd[c].step \in HSteps /\ rd[c].msg \in Messages \cup {"none"}
              /\ rd[c].known \in BOOLEAN /\ rd[c].todo \subseteq Messages
BY DEF TypeOK, Delivery, Push, Retry, Session

LEMMA TrackTypes ==
  ASSUME TypeOK, NEW m \in Messages, TrackPending(m), UNCHANGED cursorVars,
         tracked' \subseteq Messages, UNCHANGED received
  PROVE  KeysTypeOK'
BY DEF TypeOK, KeysTypeOK, TrackPending, cursorVars

(* Deliver changes its own place, the keys by the script, the channel and  *)
(* the route.                                                              *)
LEMMA DeliverSteps ==
  ASSUME TypeOK, InHand, NEW d \in Deliveries, Deliver(d) \/ Redeliver(d)
  PROVE  /\ TypeOK' /\ InHand'
         /\ UNCHANGED <<local, open, latest, wire, acks, sub, ret, rd, received>>
<1> USE PendingAckAssumption
<1>1. KeysTypeOK /\ ConnsTypeOK /\ ProcsTypeOK
  BY TypeParts
<1>2. dlv[d] \in Delivery /\ MsgOf[d] \in Messages
  BY <1>1 DEF ProcsTypeOK
<1>3. ASSUME NEW at \in Delivery, dlv' = [dlv EXCEPT ![d] = at], at.step = "publish" => at.via # 0,
             channel' \subseteq Envelope, UNCHANGED <<sub, ret, rd, received>>
      PROVE  ProcsTypeOK' /\ InHand'
  <2>1. ProcsTypeOK'
    BY <1>1, <1>3 DEF ProcsTypeOK
  <2>2. \A e \in Deliveries : dlv'[e].step = "publish" => dlv'[e].via # 0
    BY <1>1, <1>3 DEF ProcsTypeOK, InHand
  <2>3. QED
    BY <1>3, <2>1, <2>2 DEF InHand
<1>4. /\ \A step \in DSteps : [dlv[d] EXCEPT !.step = step] \in Delivery
                              /\ [dlv[d] EXCEPT !.step = step].step = step
      /\ [step |-> "done", via |-> 0] \in Delivery /\ [step |-> "track", via |-> 0] \in Delivery
  BY <1>2 DEF Delivery, DSteps
<1>5. ASSUME DTrack(d) \/ DTrackFails(d) PROVE KeysTypeOK'
  BY <1>1, <1>2, <1>5, TrackTypes
     DEF DTrack, DTrackFails, KeysTypeOK, historyVars, cursorVars
<1>6. CASE DTrack(d)
  <2>1. ProcsTypeOK' /\ InHand'
    <3>1. PICK at \in Delivery : dlv' = [dlv EXCEPT ![d] = at] /\ at.step = "route"
      BY <1>4, <1>6 DEF DTrack, DStep, DSteps
    <3>2. QED
      BY <1>1, <1>3, <1>6, <3>1 DEF DTrack, netVars, ProcsTypeOK
  <2>2. QED
    BY <1>1, <1>5, <1>6, <2>1, TypeParts DEF DTrack, ConnsTypeOK, connVars, netVars
<1>7. CASE DTrackFails(d)
  <2>1. ProcsTypeOK' /\ InHand'
    BY <1>1, <1>7 DEF DTrackFails, procVars, netVars, historyVars, ProcsTypeOK, InHand
  <2>2. ConnsTypeOK'
    BY <1>1, <1>7, Disrupted DEF DTrackFails, connVars, netVars, ConnsTypeOK
  <2>3. QED
    BY <1>5, <1>7, <2>1, <2>2, TypeParts DEF DTrackFails, procVars, connVars, netVars, historyVars
<1>8. CASE DRoute(d)
  <2>1. PICK at \in Delivery : dlv' = [dlv EXCEPT ![d] = at] /\ (at.step = "publish" => at.via # 0)
    <3>1. route # 0 => [step |-> "publish", via |-> route] \in Delivery
      BY <1>1 DEF ConnsTypeOK, Delivery, DSteps
    <3>2. QED
      BY <1>4, <1>8, <3>1 DEF DRoute
  <2>2. QED
    BY <1>1, <1>3, <1>8, <2>1, TypeParts
       DEF DRoute, KeysTypeOK, ConnsTypeOK, ProcsTypeOK, keyVars, cursorVars, connVars, netVars, historyVars
<1>9. CASE DPublish(d)
  <2>1. [msg |-> MsgOf[d], via |-> dlv[d].via] \in Envelope
    <3>1. dlv[d].via \in Conns
      BY <1>9, Fields DEF DPublish, InHand, Conns
    <3>2. QED
      BY <1>2, <3>1 DEF Envelope
  <2>2. channel' \subseteq Envelope
    BY <1>1, <1>9, <2>1 DEF DPublish, ProcsTypeOK
  <2>3. PICK at \in Delivery : dlv' = [dlv EXCEPT ![d] = at] /\ at.step = "done"
    BY <1>4, <1>9 DEF DPublish, DDone
  <2>4. QED
    BY <1>1, <1>3, <1>9, <2>2, <2>3, TypeParts
       DEF DPublish, KeysTypeOK, ConnsTypeOK, keyVars, cursorVars, connVars, historyVars
<1>10. CASE DPublishFails(d)
  <2>1. PICK at \in Delivery : dlv' = [dlv EXCEPT ![d] = at] /\ at.step = "clear"
    BY <1>4, <1>10 DEF DPublishFails, DStep, DSteps
  <2>2. ConnsTypeOK'
    BY <1>1, <1>10, Disrupted DEF DPublishFails, ConnsTypeOK, connVars, netVars
  <2>3. QED
    BY <1>1, <1>3, <1>10, <2>1, <2>2, TypeParts
       DEF DPublishFails, KeysTypeOK, ProcsTypeOK, keyVars, cursorVars, connVars, netVars, historyVars
<1>11. CASE DClear(d)
  <2>1. PICK at \in Delivery : dlv' = [dlv EXCEPT ![d] = at] /\ at.step = "done"
    BY <1>4, <1>11 DEF DClear, DDone
  <2>2. ConnsTypeOK'
    BY <1>1, <1>11, RouteCleared DEF DClear, ConnsTypeOK, netVars
  <2>3. QED
    BY <1>1, <1>3, <1>11, <2>1, <2>2, TypeParts
       DEF DClear, KeysTypeOK, ProcsTypeOK, keyVars, cursorVars, netVars, historyVars
<1>12. CASE Redeliver(d)
  <2>1. PICK at \in Delivery : dlv' = [dlv EXCEPT ![d] = at] /\ at.step = "track"
    BY <1>4, <1>12 DEF Redeliver
  <2>2. ConnsTypeOK'
    BY <1>1, <1>12, Disrupted DEF Redeliver, ConnsTypeOK, connVars, netVars
  <2>3. QED
    BY <1>1, <1>3, <1>12, <2>1, <2>2, TypeParts
       DEF Redeliver, KeysTypeOK, ProcsTypeOK, keyVars, cursorVars, connVars, netVars, historyVars
<1>13. QED
  BY <1>6, <1>7, <1>8, <1>9, <1>10, <1>11, <1>12 DEF Deliver

(* The subscriber changes what it has in hand, and what a closed or a      *)
(* written connection carries.                                             *)
LEMMA SubscriberSteps ==
  ASSUME TypeOK, InHand, OneSocket, Subscriber
  PROVE  /\ TypeOK' /\ InHand'
         /\ UNCHANGED <<keyVars, cursorVars, latest, dlv, ret, rd, historyVars>>
<1>1. KeysTypeOK /\ ConnsTypeOK /\ ProcsTypeOK
  BY TypeParts
<1>2. SubIdle \in Push /\ SubIdle.step = "idle"
  BY PendingAckAssumption DEF SubIdle, Push, SSteps
<1>3. ASSUME sub' \in Push, channel' \subseteq channel,
             sub'.step # "idle" => sub'.msg \in Messages,
             sub'.step = "write" => sub'.conn # 0 /\ sub'.via = sub'.conn,
             UNCHANGED <<dlv, ret, rd, received>>
      PROVE  ProcsTypeOK' /\ InHand'
  BY <1>1, <1>3 DEF ProcsTypeOK, InHand
<1>4. ASSUME NEW env \in channel, SubTake(env)
      PROVE  TypeOK' /\ InHand' /\ UNCHANGED <<keyVars, cursorVars, latest, dlv, ret, rd, historyVars>>
  <2>1. env \in Envelope
    BY <1>1, <1>4 DEF ProcsTypeOK
  <2>2. env.msg \in Messages /\ env.via \in 0..MaxConns
    BY <2>1, PendingAckAssumption DEF Envelope, Conns
  <2>3. PICK why \in {"none", "missing", "stale"}, step \in {"write", "clear", "close"} :
          /\ why = IF local = 0 THEN "missing" ELSE IF local # env.via THEN "stale" ELSE "none"
          /\ step = "write" => why = "none"
          /\ sub' = [step |-> step, msg |-> env.msg, via |-> env.via, conn |-> local, why |-> why]
    BY <1>4 DEF SubTake
  <2>4. sub' \in Push
    BY <1>1, <2>2, <2>3 DEF ConnsTypeOK, Push, SSteps
  <2>5. /\ sub'.step # "idle" => sub'.msg \in Messages
        /\ sub'.step = "write" => sub'.conn # 0 /\ sub'.via = sub'.conn
    BY <2>2, <2>3
  <2>6. ProcsTypeOK' /\ InHand'
    BY <1>3, <1>4, <2>4, <2>5 DEF SubTake, historyVars
  <2>7. QED
    BY <1>1, <1>4, <2>6, TypeParts
       DEF SubTake, KeysTypeOK, ConnsTypeOK, keyVars, cursorVars, connVars, historyVars
<1>5. CASE SubWrite
  <2>1. ProcsTypeOK' /\ InHand'
    BY <1>2, <1>3, <1>5 DEF SubWrite, historyVars
  <2>2. ConnsTypeOK'
    BY <1>1, <1>5 DEF SubWrite, ConnsTypeOK, InHand, connVars
  <2>3. QED
    BY <1>1, <1>5, <2>1, <2>2, TypeParts
       DEF SubWrite, KeysTypeOK, keyVars, cursorVars, connVars, historyVars
<1>6. CASE SubWriteFails
  <2>1. ProcsTypeOK' /\ InHand'
    <3>1. sub' \in Push /\ sub'.step = "clear" /\ sub'.msg = sub.msg
      BY <1>1, <1>6 DEF SubWriteFails, ProcsTypeOK, Push, SSteps
    <3>2. QED
      BY <1>3, <1>6, <3>1 DEF SubWriteFails, InHand, historyVars, netVars
  <2>2. ConnsTypeOK'
    BY <1>1, <1>6, Disrupted DEF SubWriteFails, ConnsTypeOK, connVars, netVars
  <2>3. QED
    BY <1>1, <1>6, <2>1, <2>2, TypeParts
       DEF SubWriteFails, KeysTypeOK, keyVars, cursorVars, connVars, historyVars
<1>7. CASE SubClear
  <2>1. ProcsTypeOK' /\ InHand'
    <3>1. sub' \in Push /\ sub'.step # "write" /\ (sub'.step # "idle" => sub'.msg = sub.msg)
      BY <1>1, <1>2, <1>7 DEF SubClear, ProcsTypeOK, Push, SSteps
    <3>2. QED
      BY <1>3, <1>7, <3>1 DEF SubClear, InHand, historyVars, netVars
  <2>2. ConnsTypeOK'
    BY <1>1, <1>7, RouteCleared DEF SubClear, ConnsTypeOK, netVars
  <2>3. QED
    BY <1>1, <1>7, <2>1, <2>2, TypeParts
       DEF SubClear, KeysTypeOK, keyVars, cursorVars, historyVars
<1>8. CASE SubClose
  <2>1. ProcsTypeOK' /\ InHand'
    BY <1>2, <1>3, <1>8 DEF SubClose, historyVars
  <2>2. ConnsTypeOK'
    BY <1>1, <1>8, Closed, PendingAckAssumption DEF SubClose, CloseAndRemove, ConnsTypeOK
  <2>3. QED
    BY <1>1, <1>8, <2>1, <2>2, TypeParts
       DEF SubClose, KeysTypeOK, keyVars, cursorVars, historyVars
<1>9. QED
  BY <1>4, <1>5, <1>6, <1>7, <1>8 DEF Subscriber

(* The retry loop changes what it has in hand, the times of entries and    *)
(* what a closed or a written connection carries.                          *)
LEMMA RetrySteps ==
  ASSUME TypeOK, InHand, RetryLoop
  PROVE  /\ TypeOK' /\ InHand'
         /\ UNCHANGED <<ackIdx, cursorVars, latest, channel, dlv, sub, rd, historyVars>>
<1> DEFINE Kept == UNCHANGED <<ackIdx, cursorVars, latest, channel, dlv, sub, rd, historyVars>>
           Works == {"load", "write", "touch", "postpone"}
<1>1. KeysTypeOK /\ ConnsTypeOK /\ ProcsTypeOK
  BY TypeParts
<1>2. RetIdle \in Retry /\ RetIdle.step = "idle"
  BY PendingAckAssumption DEF RetIdle, Retry, RSteps
<1>3. ASSUME ret' \in Retry, ret'.step \in Works => ret'.msg \in Messages,
             ret'.step # "idle" => ret'.conn # 0,
             UNCHANGED <<channel, dlv, sub, rd, received>>
      PROVE  ProcsTypeOK' /\ InHand'
  BY <1>1, <1>3 DEF ProcsTypeOK, InHand
<1>4. \A step \in RSteps :
        /\ [ret EXCEPT !.step = step] \in Retry
        /\ [ret EXCEPT !.step = step].step = step
        /\ [ret EXCEPT !.step = step].msg = ret.msg
        /\ [ret EXCEPT !.step = step].conn = ret.conn
  BY <1>1 DEF ProcsTypeOK, Retry
<1>5. ASSUME RNext, ret.step # "idle", UNCHANGED <<channel, dlv, sub, rd, received>>
      PROVE  ProcsTypeOK' /\ InHand'
  <2>1. [ret EXCEPT !.step = "one", !.msg = "none"] \in Retry
    BY <1>1 DEF ProcsTypeOK, Retry, RSteps
  <2>2. ret' \in Retry /\ ret'.step \in {"idle", "one"} /\ (ret'.step # "idle" => ret'.conn = ret.conn)
    BY <1>1, <1>2, <1>5, <2>1 DEF RNext, ProcsTypeOK, Retry
  <2>3. QED
    BY <1>3, <1>5, <2>2 DEF InHand
<1>6. ASSUME NEW step \in RSteps, RStep(step), step \in Works => ret.msg \in Messages,
             ret.step # "idle", UNCHANGED <<channel, dlv, sub, rd, received>>
      PROVE  ProcsTypeOK' /\ InHand'
  <2>1. ret' \in Retry /\ ret'.step = step /\ ret'.msg = ret.msg /\ ret'.conn = ret.conn
    BY <1>4, <1>6 DEF RStep
  <2>2. QED
    BY <1>3, <1>6, <2>1 DEF InHand
<1>7. CASE RScan
  <2>1. ret' \in Retry /\ ret'.step = "one" /\ ret'.conn = local
    BY <1>1, <1>7 DEF RScan, Retry, RSteps, ConnsTypeOK, Due
  <2>2. ProcsTypeOK' /\ InHand'
    BY <1>3, <1>7, <2>1 DEF RScan, historyVars, netVars
  <2>3. QED
    BY <1>1, <1>7, <2>2, TypeParts
       DEF RScan, KeysTypeOK, ConnsTypeOK, keyVars, cursorVars, connVars, netVars, historyVars
<1>8. ASSUME NEW m \in Messages, RIncr(m) PROVE TypeOK' /\ InHand' /\ Kept
  <2>1. PICK step \in {"postpone", "load"} :
          ret' = [ret EXCEPT !.step = step, !.msg = m, !.todo = @ \ {m}]
    BY <1>8 DEF RIncr
  <2>2. ret' \in Retry /\ ret'.msg = m /\ ret'.conn = ret.conn
    BY <1>1, <2>1 DEF ProcsTypeOK, Retry, RSteps
  <2>3. ProcsTypeOK' /\ InHand'
    BY <1>3, <1>8, <2>2 DEF RIncr, InHand, historyVars, netVars
  <2>4. Attempts(m) \in 0..(MaxRetries + 1)
    BY <1>1, PendingAckAssumption DEF KeysTypeOK, Attempts
  <2>5. KeysTypeOK'
    BY <1>1, <1>8, <2>4 DEF RIncr, KeysTypeOK, cursorVars, historyVars
  <2>6. QED
    BY <1>1, <1>8, <2>3, <2>5, TypeParts
       DEF RIncr, ConnsTypeOK, cursorVars, connVars, netVars, historyVars
<1>9. CASE RLoad
  <2>1. ProcsTypeOK' /\ InHand'
    BY <1>5, <1>6, <1>9 DEF RLoad, InHand, RSteps, historyVars, netVars
  <2>2. QED
    BY <1>1, <1>9, <2>1, TypeParts
       DEF RLoad, KeysTypeOK, ConnsTypeOK, keyVars, cursorVars, connVars, netVars, historyVars
<1>10. CASE RWrite
  <2>1. ProcsTypeOK' /\ InHand'
    BY <1>6, <1>10 DEF RWrite, InHand, RSteps, historyVars
  <2>2. ConnsTypeOK'
    BY <1>1, <1>10 DEF RWrite, InHand, ConnsTypeOK, connVars
  <2>3. QED
    BY <1>1, <1>10, <2>1, <2>2, TypeParts
       DEF RWrite, KeysTypeOK, keyVars, cursorVars, connVars, historyVars
<1>11. CASE RWriteFails
  <2>1. ProcsTypeOK' /\ InHand'
    BY <1>6, <1>11 DEF RWriteFails, RSteps, historyVars, netVars
  <2>2. ConnsTypeOK'
    BY <1>1, <1>11, Disrupted DEF RWriteFails, ConnsTypeOK, connVars, netVars
  <2>3. QED
    BY <1>1, <1>11, <2>1, <2>2, TypeParts
       DEF RWriteFails, KeysTypeOK, keyVars, cursorVars, connVars, netVars, historyVars
<1>12. CASE RTouch \/ RPostpone
  <2>1. ProcsTypeOK' /\ InHand'
    BY <1>5, <1>12 DEF RTouch, RPostpone, historyVars, netVars
  <2>2. KeysTypeOK'
    BY <1>1, <1>12 DEF RTouch, RPostpone, KeysTypeOK, cursorVars, historyVars
  <2>3. QED
    BY <1>1, <1>12, <2>1, <2>2, TypeParts
       DEF RTouch, RPostpone, ConnsTypeOK, cursorVars, connVars, netVars, historyVars
<1>13. CASE RClear
  <2>1. ProcsTypeOK' /\ InHand'
    BY <1>6, <1>13 DEF RClear, RSteps, historyVars, netVars
  <2>2. ConnsTypeOK'
    BY <1>1, <1>13, RouteCleared DEF RClear, ConnsTypeOK, netVars
  <2>3. QED
    BY <1>1, <1>13, <2>1, <2>2, TypeParts
       DEF RClear, KeysTypeOK, keyVars, cursorVars, netVars, historyVars
<1>14. CASE RClose
  <2>1. ProcsTypeOK' /\ InHand'
    BY <1>5, <1>14 DEF RClose, historyVars
  <2>2. ConnsTypeOK'
    BY <1>1, <1>14, Closed, PendingAckAssumption DEF RClose, CloseAndRemove, ConnsTypeOK
  <2>3. QED
    BY <1>1, <1>14, <2>1, <2>2, TypeParts
       DEF RClose, KeysTypeOK, keyVars, cursorVars, historyVars
<1>15. QED
  BY <1>7, <1>8, <1>9, <1>10, <1>11, <1>12, <1>13, <1>14 DEF RetryLoop

(* A handler changes what it has in hand and the acknowledgements; what    *)
(* it takes up as an ACK was received.                                     *)
LEMMA HandlerSteps ==
  ASSUME TypeOK, InHand, AcksAreReceived, NEW c \in Conns, Connect(c) \/ Handler(c)
  PROVE  /\ TypeOK' /\ InHand'
         /\ UNCHANGED <<channel, dlv, sub, ret, historyVars>>
         /\ \A b \in Conns \ {c} : rd'[b] = rd[b]
<1> DEFINE Kept == /\ UNCHANGED <<channel, dlv, sub, ret, historyVars>>
                   /\ \A b \in Conns \ {c} : rd'[b] = rd[b]
<1>1. KeysTypeOK /\ ConnsTypeOK /\ ProcsTypeOK /\ rd[c] \in Session
  BY TypeParts DEF ProcsTypeOK
<1>2. ASSUME NEW session \in Session, rd' = [rd EXCEPT ![c] = session],
             session.step = "ack" => session.msg \in received,
             UNCHANGED <<channel, dlv, sub, ret, historyVars>>
      PROVE  ProcsTypeOK' /\ InHand' /\ Kept
  BY <1>1, <1>2 DEF ProcsTypeOK, InHand, historyVars
<1>3. /\ \A step \in HSteps :
           [rd[c] EXCEPT !.step = step] \in Session /\ [rd[c] EXCEPT !.step = step].step = step
      /\ \A step \in HSteps : RdIdle(step) \in Session /\ RdIdle(step).step = step
      /\ \A S \in SUBSET Messages : Replay(S) \in Session /\ Replay(S).step \in {"loop", "sync"}
  <2>1. \A step \in HSteps :
          [rd[c] EXCEPT !.step = step] \in Session /\ [rd[c] EXCEPT !.step = step].step = step
    BY <1>1 DEF Session
  <2>2. \A step \in HSteps : RdIdle(step) \in Session /\ RdIdle(step).step = step
    BY DEF RdIdle, Session
  <2>3. \A S \in SUBSET Messages :
          [RdIdle("sync") EXCEPT !.todo = S] \in Session
          /\ [RdIdle("sync") EXCEPT !.todo = S].step = "sync"
    BY DEF RdIdle, Session, HSteps
  <2>4. QED
    BY <2>1, <2>2, <2>3 DEF Replay, HSteps
<1>4. ASSUME NEW step \in HSteps \ {"ack"}, HStep(c, step),
             UNCHANGED <<channel, dlv, sub, ret, historyVars>>
      PROVE  ProcsTypeOK' /\ InHand' /\ Kept
  BY <1>2, <1>3, <1>4 DEF HStep
<1>5. ASSUME NEW m \in acks, NEW known \in BOOLEAN, HandsOver(c, m, known),
             UNCHANGED <<channel, dlv, sub, ret, historyVars>>
      PROVE  ProcsTypeOK' /\ InHand' /\ Kept
  <2>1. m \in Messages /\ m \in received
    BY <1>1, <1>5 DEF ConnsTypeOK, AcksAreReceived
  <2>2. PICK session : session = [rd[c] EXCEPT !.step = "ack", !.msg = m, !.known = known]
    OBVIOUS
  <2>3. session \in Session /\ session.msg = m
    BY <1>1, <2>1, <2>2 DEF Session, HSteps
  <2>4. QED
    BY <1>2, <1>5, <2>1, <2>2, <2>3 DEF HandsOver
<1>6. CASE Connect(c)
  <2>1. ConnsTypeOK'
    BY <1>1, <1>6, PendingAckAssumption DEF Connect, ConnsTypeOK, Conns
  <2>2. ProcsTypeOK' /\ InHand' /\ Kept
    BY <1>4, <1>6 DEF Connect, HSteps
  <2>3. QED
    BY <1>1, <1>6, <2>1, <2>2, TypeParts DEF Connect, KeysTypeOK, keyVars, cursorVars, historyVars
<1>7. CASE HClaim(c)
  <2>1. ConnsTypeOK'
    BY <1>1, <1>7, PendingAckAssumption DEF HClaim, ConnsTypeOK, Conns, netVars
  <2>2. ProcsTypeOK' /\ InHand' /\ Kept
    BY <1>4, <1>7 DEF HClaim, HSteps, netVars
  <2>3. QED
    BY <1>1, <1>7, <2>1, <2>2, TypeParts DEF HClaim, KeysTypeOK, keyVars, cursorVars, historyVars
<1>8. CASE HClaimFails(c)
  <2>1. ConnsTypeOK'
    BY <1>1, <1>8, Disrupted, PendingAckAssumption DEF HClaimFails, ConnsTypeOK, Conns, netVars
  <2>2. ProcsTypeOK' /\ InHand' /\ Kept
    BY <1>4, <1>8 DEF HClaimFails, HSteps, netVars
  <2>3. QED
    BY <1>1, <1>8, <2>1, <2>2, TypeParts DEF HClaimFails, KeysTypeOK, keyVars, cursorVars, historyVars
<1>9. CASE HList(c)
  <2>1. {m \in Messages : pending[m] # "none"} \in SUBSET Messages
    OBVIOUS
  <2>2. ProcsTypeOK' /\ InHand' /\ Kept
    BY <1>2, <1>3, <1>9, <2>1 DEF HList, netVars
  <2>3. QED
    BY <1>1, <1>9, <2>2, TypeParts
       DEF HList, KeysTypeOK, ConnsTypeOK, keyVars, cursorVars, connVars, netVars, historyVars
<1>10. ASSUME NEW m \in Messages, HSync(c, m) PROVE TypeOK' /\ InHand' /\ Kept
  <2>1. rd[c].todo \ {m} \in SUBSET Messages
    BY Fields
  <2>2. ProcsTypeOK' /\ InHand' /\ Kept
    BY <1>2, <1>3, <1>10, <2>1 DEF HSync
  <2>3. open = c => open # 0
    BY PendingAckAssumption DEF Conns
  <2>4. ConnsTypeOK'
    BY <1>1, <1>10, <2>3 DEF HSync, ConnsTypeOK, connVars
  <2>5. QED
    BY <1>1, <1>10, <2>2, <2>4, TypeParts
       DEF HSync, KeysTypeOK, keyVars, cursorVars, historyVars
<1>11. CASE HSyncFails(c)
  <2>1. ProcsTypeOK' /\ InHand' /\ Kept
    BY <1>2, <1>3, <1>11 DEF HSyncFails, HSteps, netVars
  <2>2. ConnsTypeOK'
    BY <1>1, <1>11, Disrupted DEF HSyncFails, ConnsTypeOK, connVars, netVars
  <2>3. QED
    BY <1>1, <1>11, <2>1, <2>2, TypeParts
       DEF HSyncFails, KeysTypeOK, keyVars, cursorVars, historyVars
<1>12. ASSUME NEW m \in Messages, HAck(c, m) \/ HAckCursorFails(c, m)
       PROVE  TypeOK' /\ InHand' /\ Kept
  <2>1. ProcsTypeOK' /\ InHand' /\ Kept
    <3>1. m \in acks /\ UNCHANGED <<channel, dlv, sub, ret, historyVars>>
      BY <1>12 DEF HAck, HAckCursorFails
    <3>2. (m \in ackIdx) \in BOOLEAN
      OBVIOUS
    <3>3. \E known \in BOOLEAN : HandsOver(c, m, known)
      BY <1>12, <3>2, Zenon DEF HAck, HAckCursorFails
    <3>4. QED
      BY <1>5, <3>1, <3>3
  <2>2. ConnsTypeOK'
    BY <1>1, <1>12, Disrupted, PendingAckAssumption
       DEF HAck, HAckCursorFails, ConnsTypeOK, connVars, Conns
  <2>3. KeysTypeOK'
    BY <1>1, <1>12, PendingAckAssumption
       DEF HAck, HAckCursorFails, KeysTypeOK, keyVars, cursorVars, historyVars, Larger
  <2>4. QED
    BY <2>1, <2>2, <2>3, TypeParts
<1>13. CASE HAckRemove(c) \/ HAckFails(c)
  <2>1. ProcsTypeOK' /\ InHand' /\ Kept
    BY <1>2, <1>3, <1>13 DEF HAckRemove, HAckFails, HSteps, netVars
  <2>2. ConnsTypeOK'
    BY <1>1, <1>13, Disrupted DEF HAckRemove, HAckFails, ConnsTypeOK, connVars, netVars
  <2>3. rd[c].msg \in Messages
    BY <1>1, <1>13 DEF HAckRemove, HAckFails, InHand, KeysTypeOK
  <2>4. KeysTypeOK'
    BY <1>1, <1>13, <2>3, PendingAckAssumption
       DEF HAckRemove, HAckFails, Acknowledge, KeysTypeOK, keyVars, cursorVars, historyVars, Larger
  <2>5. QED
    BY <2>1, <2>2, <2>4, TypeParts
<1>14. CASE HReturn(c)
  <2>1. ProcsTypeOK' /\ InHand' /\ Kept
    BY <1>4, <1>14 DEF HReturn, HSteps, netVars
  <2>2. ConnsTypeOK'
    BY <1>1, <1>14, RouteCleared DEF HReturn, ConnsTypeOK, netVars
  <2>3. QED
    BY <1>1, <1>14, <2>1, <2>2, TypeParts DEF HReturn, KeysTypeOK, keyVars, cursorVars, historyVars
<1>15. CASE HRemove(c)
  <2>1. ProcsTypeOK' /\ InHand' /\ Kept
    BY <1>4, <1>15 DEF HRemove, HSteps
  <2>2. ConnsTypeOK'
    BY <1>1, <1>15, Closed, PendingAckAssumption DEF HRemove, CloseAndRemove, ConnsTypeOK
  <2>3. QED
    BY <1>1, <1>15, <2>1, <2>2, TypeParts DEF HRemove, KeysTypeOK, keyVars, cursorVars, historyVars
<1>16. QED
  BY <1>6, <1>7, <1>8, <1>9, <1>10, <1>11, <1>12, <1>13, <1>14, <1>15 DEF Handler

(* Time, the network and the client.                                       *)
LEMMA OtherSteps ==
  ASSUME TypeOK, InHand,
         \/ \E env \in channel : Lose(env)
         \/ \E m \in Messages : BecomeDue(m) \/ Receive(m)
         \/ Drop
  PROVE  TypeOK' /\ InHand' /\ UNCHANGED <<ackIdx, latest, procVars, tracked>>
<1>1. KeysTypeOK /\ ConnsTypeOK /\ ProcsTypeOK
  BY TypeParts
<1>2. ASSUME channel' \subseteq channel, received \subseteq received',
             UNCHANGED <<dlv, sub, ret, rd>>
      PROVE  ProcsTypeOK' /\ InHand'
  BY <1>1, <1>2 DEF ProcsTypeOK, InHand
<1>3. ASSUME NEW env \in channel, Lose(env)
      PROVE  TypeOK' /\ InHand' /\ UNCHANGED <<ackIdx, latest, procVars, tracked>>
  <2>1. ProcsTypeOK' /\ InHand'
    BY <1>2, <1>3 DEF Lose, procVars, historyVars
  <2>2. ConnsTypeOK'
    BY <1>1, <1>3, Disrupted DEF Lose, ConnsTypeOK, connVars
  <2>3. QED
    BY <1>1, <1>3, <2>1, <2>2, TypeParts
       DEF Lose, KeysTypeOK, keyVars, cursorVars, connVars, historyVars
<1>4. ASSUME NEW m \in Messages, BecomeDue(m)
      PROVE  TypeOK' /\ InHand' /\ UNCHANGED <<ackIdx, latest, procVars, tracked>>
  <2>1. ProcsTypeOK' /\ InHand'
    BY <1>2, <1>4 DEF BecomeDue, procVars, historyVars, netVars
  <2>2. KeysTypeOK' /\ ConnsTypeOK'
    BY <1>1, <1>4 DEF BecomeDue, KeysTypeOK, ConnsTypeOK, cursorVars, connVars, netVars, historyVars
  <2>3. QED
    BY <1>4, <2>1, <2>2, TypeParts DEF BecomeDue, connVars, historyVars
<1>5. ASSUME NEW m \in Messages, Receive(m)
      PROVE  TypeOK' /\ InHand' /\ UNCHANGED <<ackIdx, latest, procVars, tracked>>
  <2>1. ProcsTypeOK' /\ InHand'
    BY <1>2, <1>5 DEF Receive, procVars
  <2>2. KeysTypeOK' /\ ConnsTypeOK'
    BY <1>1, <1>5 DEF Receive, KeysTypeOK, ConnsTypeOK, keyVars, cursorVars, connVars
  <2>3. QED
    BY <1>5, <2>1, <2>2, TypeParts DEF Receive, keyVars, connVars
<1>6. ASSUME Drop PROVE TypeOK' /\ InHand' /\ UNCHANGED <<ackIdx, latest, procVars, tracked>>
  <2>1. ProcsTypeOK' /\ InHand'
    BY <1>2, <1>6 DEF Drop, procVars, historyVars
  <2>2. ConnsTypeOK'
    BY <1>1, <1>6, Closed, Disrupted DEF Drop, ConnsTypeOK
  <2>3. QED
    BY <1>1, <1>6, <2>1, <2>2, TypeParts DEF Drop, KeysTypeOK, keyVars, cursorVars, historyVars
<1>7. QED
  BY <1>3, <1>4, <1>5, <1>6

-----------------------------------------------------------------------------
(* A message stays replayable until it is received: only an ACK removes    *)
(* its entry and its payload.                                              *)
LEMMA StepStaysReplayable ==
  ASSUME IInv, [Next]_vars
  PROVE  AcksAreReceived' /\ StaysReplayable'
<1> USE PendingAckAssumption
<1>1. TypeOK /\ KeysTypeOK /\ ConnsTypeOK /\ InHand /\ AcksAreReceived /\ StaysReplayable /\ OneSocket
  BY TypeParts DEF IInv
<1>2. ASSUME acks' \subseteq acks, received \subseteq received', UNCHANGED tracked,
             ackIdx \subseteq ackIdx',
             \A m \in Messages : pending[m] # "none" => pending'[m] # "none"
      PROVE  AcksAreReceived' /\ StaysReplayable'
  BY <1>1, <1>2 DEF AcksAreReceived, StaysReplayable
<1>3. ASSUME NEW d \in Deliveries, Deliver(d) \/ Redeliver(d)
      PROVE  AcksAreReceived' /\ StaysReplayable'
  <2>1. UNCHANGED <<acks, received>> /\ MsgOf[d] \in Messages
    BY <1>1, <1>3, DeliverSteps
  <2>2. CASE DTrack(d) \/ DTrackFails(d)
    <3>1. /\ tracked' \in {tracked, tracked \cup {MsgOf[d]}}
          /\ \/ TrackPending(MsgOf[d])
             \/ UNCHANGED <<pending, ackIdx, tracked>>
      BY <2>2 DEF DTrack, DTrackFails, historyVars
    <3>2. CASE TrackPending(MsgOf[d])
      <4>1. /\ ackIdx' = ackIdx \cup {MsgOf[d]} /\ pending'[MsgOf[d]] # "none"
            /\ \A m \in Messages : pending[m] # "none" => pending'[m] # "none"
        BY <1>1, <2>1, <3>2 DEF TrackPending, KeysTypeOK
      <4>2. QED
        BY <1>1, <2>1, <3>1, <4>1 DEF AcksAreReceived, StaysReplayable
    <3>3. QED
      BY <1>2, <2>1, <3>1, <3>2
  <2>3. CASE UNCHANGED <<pending, ackIdx, tracked>>
    BY <1>2, <2>1, <2>3
  <2>4. QED
    BY <1>3, <2>2, <2>3
       DEF Deliver, DRoute, DPublish, DPublishFails, DClear, Redeliver, keyVars, historyVars
<1>4. CASE Subscriber
  <2>1. UNCHANGED <<keyVars, tracked, received>>
    BY <1>1, <1>4, SubscriberSteps DEF historyVars
  <2>2. acks' \subseteq acks
    BY <1>4 DEF Subscriber, SubTake, SubWrite, SubWriteFails, SubClear, SubClose,
                CloseAndRemove, Close, netVars
  <2>3. QED
    BY <1>2, <2>1, <2>2 DEF keyVars
<1>5. CASE RetryLoop
  <2>1. UNCHANGED <<ackIdx, tracked, received>>
    BY <1>1, <1>5, RetrySteps DEF historyVars
  <2>2. acks' \subseteq acks
    BY <1>5 DEF RetryLoop, RScan, RIncr, RLoad, RWrite, RWriteFails, RTouch, RPostpone, RClear,
                RClose, CloseAndRemove, Close, netVars
  <2>3. \A m \in Messages : pending[m] # "none" => pending'[m] # "none"
    BY <1>1, <1>5 DEF RetryLoop, RScan, RIncr, RLoad, RWrite, RWriteFails, RTouch, RPostpone, RClear,
                      RClose, KeysTypeOK, keyVars
  <2>4. QED
    BY <1>2, <2>1, <2>2, <2>3
<1>6. ASSUME NEW c \in Conns, Connect(c) \/ Handler(c) PROVE AcksAreReceived' /\ StaysReplayable'
  <2>1. UNCHANGED <<tracked, received>>
    BY <1>1, <1>6, HandlerSteps DEF historyVars
  <2>2. acks' \subseteq acks
    BY <1>6 DEF Connect, Handler, HClaim, HClaimFails, HList, HSync, HSyncFails, HAck,
                HAckCursorFails, HAckRemove, HAckFails, HReturn, HRemove, CloseAndRemove, Close, netVars
  <2>3. CASE UNCHANGED keyVars
    BY <1>2, <2>1, <2>2, <2>3 DEF keyVars
  <2>4. CASE Acknowledge(rd[c].msg) /\ rd[c].step = "ack"
    <3>1. rd[c].msg \in received
      BY <1>1, <2>4 DEF InHand
    <3>2. QED
      BY <1>1, <2>1, <2>2, <2>4, <3>1 DEF Acknowledge, KeysTypeOK, AcksAreReceived, StaysReplayable
  <2>5. QED
    BY <1>6, <2>3, <2>4 DEF Connect, Handler, HClaim, HClaimFails, HList, HSync, HSyncFails, HAck,
                HAckCursorFails, HAckRemove, HAckFails, HReturn, HRemove
<1>7. ASSUME NEW m \in Messages, Receive(m) PROVE AcksAreReceived' /\ StaysReplayable'
  BY <1>1, <1>7 DEF Receive, AcksAreReceived, StaysReplayable, keyVars
<1>8. ASSUME NEW m \in Messages, BecomeDue(m) PROVE AcksAreReceived' /\ StaysReplayable'
  BY <1>1, <1>2, <1>8 DEF BecomeDue, KeysTypeOK, netVars, historyVars
<1>9. CASE Drop \/ \E env \in channel : Lose(env)
  BY <1>2, <1>9 DEF Drop, Close, Lose, keyVars, historyVars
<1>10. CASE UNCHANGED vars
  BY <1>2, <1>10 DEF vars, keyVars, netVars, historyVars
<1>11. QED
  BY <1>3, <1>4, <1>5, <1>6, <1>7, <1>8, <1>9, <1>10 DEF Next

(* Only a login registers a connection, and closing it removes it.         *)
LEMMA StepOneSocket ==
  ASSUME IInv, [Next]_vars
  PROVE  OneSocket'
<1>1. ConnsTypeOK /\ OneSocket
  BY TypeParts DEF IInv
<1>2. CASE UNCHANGED <<open, local>>
  BY <1>1, <1>2 DEF OneSocket
<1>3. ASSUME NEW c, CloseAndRemove(c) PROVE OneSocket'
  BY <1>1, <1>3 DEF CloseAndRemove, Close, OneSocket
<1>4. ASSUME NEW c \in Conns, Connect(c) PROVE OneSocket'
  BY <1>4 DEF Connect, OneSocket
<1>5. CASE Drop
  BY <1>1, <1>5 DEF Drop, Close, OneSocket
<1>6. ASSUME NEW d \in Deliveries, Deliver(d) \/ Redeliver(d) PROVE UNCHANGED <<open, local>>
  BY <1>6, DeliverSteps DEF IInv
<1>7. ASSUME Subscriber PROVE OneSocket'
  BY <1>2, <1>3, <1>7
     DEF Subscriber, SubTake, SubWrite, SubWriteFails, SubClear, SubClose, connVars
<1>8. ASSUME RetryLoop PROVE OneSocket'
  BY <1>2, <1>3, <1>8
     DEF RetryLoop, RScan, RIncr, RLoad, RWrite, RWriteFails, RTouch, RPostpone, RClear, RClose, connVars
<1>9. ASSUME NEW c \in Conns, Handler(c) PROVE OneSocket'
  BY <1>2, <1>3, <1>9
     DEF Handler, HClaim, HClaimFails, HList, HSync, HSyncFails, HAck, HAckCursorFails, HAckRemove,
         HAckFails, HReturn, HRemove, connVars
<1>10. ASSUME \/ \E env \in channel : Lose(env)
              \/ \E m \in Messages : BecomeDue(m) \/ Receive(m)
              \/ UNCHANGED vars
       PROVE  UNCHANGED <<open, local>>
  BY <1>10 DEF Lose, BecomeDue, Receive, connVars, vars
<1>11. QED
  BY <1>2, <1>4, <1>5, <1>6, <1>7, <1>8, <1>9, <1>10 DEF Next

-----------------------------------------------------------------------------
(* Every way in which a message comes to the client leads to the next one, *)
(* as long as nothing is disrupted and the login is served.                *)
LEMMA StillCovered ==
  ASSUME NEW m, NEW c \in Conns, Covered(m, c),
         received \cup wire \subseteq received' \cup wire',
         UNCHANGED <<rd, dlv, channel, sub>>
  PROVE  Covered(m, c)'
BY DEF Covered

LEMMA DeliverCovers ==
  ASSUME IInv, NothingIsMissed, NEW d \in Deliveries, Deliver(d) \/ Redeliver(d),
         disruptions = 0, disruptions' = 0, NEW m \in tracked', NEW c \in Conns, Alive(c)'
  PROVE  Covered(m, c)'
<1>1. /\ UNCHANGED <<open, wire, sub, rd, received>>
      /\ dlv \in [Deliveries -> Delivery]
  BY DeliverSteps DEF IInv, TypeOK
<1>2. ~Disrupt
  BY Disrupted DEF IInv
<1>3. c # 0
  BY PendingAckAssumption DEF Conns
<1>4. route' \in {0, route}
  BY RouteCleared
     DEF IInv, Deliver, DTrack, DTrackFails, DRoute, DPublish, DPublishFails, DClear, Redeliver, connVars
<1>5. Alive(c)
  BY <1>1, <1>3, <1>4 DEF Alive
<1>6. \A e \in Deliveries \ {d} : dlv'[e] = dlv[e]
  BY <1>1 DEF Deliver, DTrack, DTrackFails, DRoute, DPublish, DPublishFails, DClear, Redeliver,
              DStep, DDone, procVars
<1>7. channel \subseteq channel'
  BY DEF Deliver, DTrack, DTrackFails, DRoute, DPublish, DPublishFails, DClear, Redeliver, netVars
<1>8. CASE DTrack(d) /\ m = MsgOf[d]
  <2>1. dlv'[d].step = "route"
    BY <1>1, <1>8 DEF DTrack, DStep, Delivery
  <2>2. QED
    BY <1>8, <2>1 DEF Covered
<1>9. CASE m \in tracked
  <2>1. Covered(m, c)
    BY <1>5, <1>9 DEF NothingIsMissed
  <2>2. CASE MsgOf[d] = m /\ dlv[d].step = "route"
    <3>1. CASE rd[c].step = "claim"
      BY <1>1, <3>1 DEF Covered
    <3>2. CASE route = c
      <4>1. DRoute(d)
        BY <1>2, <2>2 DEF Deliver, DTrack, DTrackFails, DRoute, DPublish, DPublishFails, DClear, Redeliver
      <4>2. dlv'[d].step = "publish" /\ dlv'[d].via = c
        BY <1>1, <1>3, <3>2, <4>1 DEF DRoute
      <4>3. QED
        BY <2>2, <4>2 DEF Covered
    <3>3. QED
      BY <1>5, <3>1, <3>2 DEF Alive
  <2>3. CASE MsgOf[d] = m /\ dlv[d].step = "publish" /\ dlv[d].via = c
    <3>1. DPublish(d)
      BY <1>2, <2>3 DEF Deliver, DTrack, DTrackFails, DRoute, DPublish, DPublishFails, DClear, Redeliver
    <3>2. [msg |-> m, via |-> c] \in channel'
      BY <2>3, <3>1 DEF DPublish
    <3>3. QED
      BY <3>2 DEF Covered
  <2>4. QED
    BY <1>1, <1>6, <1>7, <2>1, <2>2, <2>3 DEF Covered
<1>10. tracked' = tracked \/ (DTrack(d) /\ tracked' = tracked \cup {MsgOf[d]})
  BY DEF Deliver, DTrack, DTrackFails, DRoute, DPublish, DPublishFails, DClear, Redeliver, historyVars
<1>11. QED
  BY <1>8, <1>9, <1>10

LEMMA SubscriberCovers ==
  ASSUME IInv, NothingIsMissed, Subscriber,
         disruptions = 0, disruptions' = 0, NEW m \in tracked', NEW c \in Conns, Alive(c)'
  PROVE  Covered(m, c)'
<1>1. /\ UNCHANGED <<latest, dlv, rd, tracked, received>> /\ TypeOK /\ OneSocket
      /\ sub.step = "write" => sub.conn # 0 /\ sub.via = sub.conn
  BY SubscriberSteps DEF IInv, InHand, historyVars
<1>2. ~Disrupt /\ c # 0
  BY Disrupted, PendingAckAssumption DEF IInv, Conns
<1>3. route' \in {0, route} /\ open' \in {0, open}
  BY <1>1, RouteCleared, Closed
     DEF Subscriber, SubTake, SubWrite, SubWriteFails, SubClear, SubClose, CloseAndRemove, connVars
<1>4. Alive(c) /\ Covered(m, c) /\ open = c /\ open' = c /\ local = c
  BY <1>1, <1>2, <1>3 DEF Alive, NothingIsMissed, OneSocket
<1>5. ASSUME NEW env \in channel, SubTake(env) PROVE Covered(m, c)'
  <2>1. channel' = channel \ {env} /\ sub.step = "idle" /\ UNCHANGED wire
    BY <1>5 DEF SubTake
  <2>2. CASE env = [msg |-> m, via |-> c]
    <3>1. env.msg = m /\ env.via = c
      BY <2>2
    <3>2. sub'.step = "write" /\ sub'.msg = m /\ sub'.via = c
      BY <1>2, <1>4, <1>5, <3>1 DEF SubTake
    <3>3. QED
      BY <3>2 DEF Covered
  <2>3. CASE env # [msg |-> m, via |-> c]
    BY <1>1, <1>4, <2>1, <2>3 DEF Covered
  <2>4. QED
    BY <2>2, <2>3
<1>6. CASE SubWrite
  BY <1>1, <1>4, <1>6 DEF SubWrite, Covered
<1>7. CASE SubWriteFails
  <2>1. open # sub.conn /\ sub.step = "write" /\ UNCHANGED <<wire, channel>>
    BY <1>2, <1>7 DEF SubWriteFails, netVars
  <2>2. QED
    BY <1>1, <1>4, <2>1 DEF Covered
<1>8. CASE SubClear
  BY <1>1, <1>4, <1>8 DEF SubClear, Covered, netVars
<1>9. CASE SubClose
  <2>1. wire' = wire
    BY <1>1, <1>2, <1>4, <1>9, Closed DEF SubClose, CloseAndRemove
  <2>2. QED
    BY <1>1, <1>4, <1>9, <2>1 DEF SubClose, Covered
<1>10. QED
  BY <1>5, <1>6, <1>7, <1>8, <1>9 DEF Subscriber

LEMMA RetryCovers ==
  ASSUME IInv, NothingIsMissed, RetryLoop,
         disruptions = 0, disruptions' = 0, NEW m \in tracked', NEW c \in Conns, Alive(c)'
  PROVE  Covered(m, c)'
<1>1. UNCHANGED <<latest, channel, dlv, sub, rd, tracked, received>> /\ TypeOK
  BY RetrySteps DEF IInv, historyVars
<1>2. c # 0
  BY PendingAckAssumption DEF Conns
<1>3. route' \in {0, route} /\ open' \in {0, open} /\ (open' # 0 => wire \subseteq wire')
  BY <1>1, RouteCleared, Closed
     DEF RetryLoop, RScan, RIncr, RLoad, RWrite, RWriteFails, RTouch, RPostpone, RClear, RClose,
         CloseAndRemove, connVars, netVars
<1>4. Alive(c) /\ Covered(m, c) /\ open' = c
  BY <1>1, <1>2, <1>3 DEF Alive, NothingIsMissed
<1>5. QED
  BY <1>1, <1>2, <1>3, <1>4, StillCovered

LEMMA HandlerCovers ==
  ASSUME IInv, NothingIsMissed, NEW b \in Conns, Connect(b) \/ Handler(b),
         disruptions = 0, disruptions' = 0, NEW m \in tracked', NEW c \in Conns, Alive(c)'
  PROVE  Covered(m, c)'
<1>1. /\ UNCHANGED <<channel, dlv, sub, tracked, received>> /\ TypeOK /\ StaysReplayable
      /\ \A e \in Conns \ {b} : rd'[e] = rd[e]
      /\ rd \in [Conns -> Session] /\ m \in Messages
  BY HandlerSteps DEF IInv, historyVars, TypeOK
<1>2. ~Disrupt /\ c # 0
  BY Disrupted, PendingAckAssumption DEF IInv, Conns
<1>3. CASE Connect(b)
  <2>1. open' = b /\ rd'[b].step = "claim"
    BY <1>1, <1>3 DEF Connect, HStep, Session
  <2>2. QED
    BY <2>1 DEF Alive, Covered
<1>4. CASE Handler(b)
  <2>1. /\ open' \in {0, open} /\ (open' # 0 => wire \subseteq wire' /\ (HRemove(b) => open # b))
        /\ route' \in {0, route} \/ HClaim(b)
    BY <1>1, <1>2, <1>4, RouteCleared, Closed
       DEF Handler, HClaim, HClaimFails, HList, HSync, HSyncFails, HAck, HAckCursorFails, HAckRemove,
           HAckFails, HReturn, HRemove, CloseAndRemove, connVars, netVars
  <2>2. open = c /\ open' = c /\ wire \subseteq wire'
    BY <1>2, <2>1 DEF Alive
  <2>3. CASE b # c
    <3>1. route' = c => route = c
      BY <1>2, <2>1, <2>3 DEF HClaim
    <3>2. Alive(c) /\ Covered(m, c)
      BY <1>1, <2>2, <2>3, <3>1 DEF Alive, NothingIsMissed
    <3>3. QED
      BY <1>1, <2>2, <2>3, <3>2 DEF Covered
  <2>4. CASE b = c
    <3>1. CASE HClaim(c)
      <4>1. rd'[c].step = "list"
        BY <1>1, <3>1 DEF HClaim, HStep, Session
      <4>2. QED
        BY <4>1 DEF Covered
    <3>2. CASE ~HClaim(c)
      <4>1. rd'[c].step # "claim"
        <5>1. ASSUME NEW step \in {"remove", "ended"}, HStep(c, step) PROVE rd'[c].step # "claim"
          BY <1>1, <5>1 DEF HStep, Session
        <5>2. ASSUME NEW S, rd' = [rd EXCEPT ![c] = Replay(S)] PROVE rd'[c].step # "claim"
          BY <1>1, <5>2 DEF Replay, RdIdle
        <5>3. ASSUME rd' = [rd EXCEPT ![c] = RdIdle("loop")] PROVE rd'[c].step # "claim"
          BY <1>1, <5>3 DEF RdIdle
        <5>4. ASSUME NEW k, NEW known, HandsOver(c, k, known) PROVE rd'[c].step # "claim"
          BY <1>1, <5>4 DEF HandsOver, Session
        <5>5. CASE HList(c) \/ \E k \in Messages : HSync(c, k)
          BY <5>2, <5>5 DEF HList, HSync
        <5>6. CASE \E k \in Messages : HAck(c, k) \/ HAckCursorFails(c, k)
          BY <5>4, <5>6 DEF HAck, HAckCursorFails
        <5>7. CASE HSyncFails(c) \/ HAckRemove(c) \/ HAckFails(c)
          BY <5>3, <5>7 DEF HSyncFails, HAckRemove, HAckFails
        <5>8. CASE HClaimFails(c) \/ HReturn(c) \/ HRemove(c)
          BY <5>1, <5>8 DEF HClaimFails, HReturn, HRemove
        <5>9. QED
          BY <1>4, <2>4, <3>2, <5>5, <5>6, <5>7, <5>8 DEF Handler
      <4>2. Alive(c) /\ Covered(m, c)
        BY <1>1, <1>2, <2>1, <2>2, <2>4, <3>2, <4>1 DEF Alive, NothingIsMissed
      <4>3. CASE HList(c)
        <5>1. m \notin received => pending[m] # "none"
          BY <1>1 DEF StaysReplayable
        <5>2. m \notin received => rd'[c].step = "sync" /\ m \in rd'[c].todo
          BY <1>1, <4>3, <5>1 DEF HList, Replay, RdIdle
        <5>3. QED
          BY <1>1, <5>2 DEF Covered
      <4>4. ASSUME NEW k \in Messages, HSync(c, k) PROVE Covered(m, c)'
        <5>1. m \notin received => m \in ackIdx
          BY <1>1 DEF StaysReplayable
        <5>2. rd'[c] = Replay(rd[c].todo \ {k}) /\ rd[c].step = "sync"
              /\ wire' = IF k \in ackIdx THEN wire \cup {k} ELSE wire
          BY <1>1, <4>4 DEF HSync
        <5>3. CASE m = k
          BY <1>1, <5>1, <5>2, <5>3 DEF Covered
        <5>4. CASE m # k /\ m \in rd[c].todo
          <6>1. rd'[c].step = "sync" /\ m \in rd'[c].todo
            BY <5>2, <5>4 DEF Replay, RdIdle
          <6>2. QED
            BY <6>1 DEF Covered
        <5>5. CASE m # k /\ m \notin rd[c].todo
          BY <1>1, <2>2, <4>2, <5>2, <5>5 DEF Covered
        <5>6. QED
          BY <5>3, <5>4, <5>5
      <4>5. CASE rd[c].step \in {"loop", "ack"}
        BY <1>1, <2>2, <4>2, <4>5 DEF Covered
      <4>6. QED
        BY <1>2, <1>4, <2>1, <2>2, <2>4, <3>2, <4>2, <4>3, <4>4, <4>5
           DEF Handler, HClaimFails, HSyncFails, HAck, HAckCursorFails, HAckRemove, HAckFails,
               HReturn, HRemove
    <3>3. QED
      BY <3>1, <3>2
  <2>5. QED
    BY <2>3, <2>4
<1>5. QED
  BY <1>3, <1>4

LEMMA OtherCovers ==
  ASSUME IInv, NothingIsMissed,
         \/ \E env \in channel : Lose(env)
         \/ \E k \in Messages : BecomeDue(k) \/ Receive(k)
         \/ Drop
         \/ UNCHANGED vars,
         disruptions = 0, disruptions' = 0, NEW m \in tracked', NEW c \in Conns, Alive(c)'
  PROVE  Covered(m, c)'
<1>1. ~Disrupt
  BY Disrupted DEF IInv
<1>2. CASE \E k \in Messages : BecomeDue(k) \/ Receive(k)
  <2>1. /\ UNCHANGED <<open, route, channel, dlv, sub, rd, tracked>>
        /\ received \cup wire \subseteq received' \cup wire'
    BY <1>2 DEF BecomeDue, Receive, connVars, netVars, procVars, historyVars
  <2>2. QED
    BY <2>1, StillCovered DEF NothingIsMissed, Alive
<1>3. CASE UNCHANGED vars
  BY <1>3, StillCovered DEF vars, connVars, netVars, procVars, historyVars, NothingIsMissed, Alive
<1>4. QED
  BY <1>1, <1>2, <1>3 DEF Lose, Drop

LEMMA StepNothingIsMissed ==
  ASSUME IInv, [Next]_vars
  PROVE  NothingIsMissed'
<1> SUFFICES ASSUME disruptions' = 0, NEW m \in tracked', NEW c \in Conns, Alive(c)'
             PROVE  Covered(m, c)'
  BY DEF NothingIsMissed
<1>1. TypeOK /\ InHand /\ OneSocket /\ AcksAreReceived /\ NothingIsMissed
  BY DEF IInv
<1>2. disruptions = 0
  <2>1. disruptions \in Nat
    BY <1>1, PendingAckAssumption DEF TypeOK
  <2>2. disruptions' \in {disruptions, disruptions + 1}
    <3>1. CASE \E d \in Deliveries : Deliver(d) \/ Redeliver(d)
      BY <3>1 DEF Deliver, DTrack, DTrackFails, DRoute, DPublish, DPublishFails, DClear,
                  Redeliver, ClearRouteIfMatch, Disrupt
    <3>2. CASE Subscriber \/ \E env \in channel : Lose(env)
      BY <3>2 DEF Subscriber, SubTake, SubWrite, SubWriteFails, SubClear, SubClose, Lose,
                  ClearRouteIfMatch, Disrupt
    <3>3. CASE RetryLoop
      BY <3>3 DEF RetryLoop, RScan, RIncr, RLoad, RWrite, RWriteFails, RTouch, RPostpone,
                  RClear, RClose, ClearRouteIfMatch, Disrupt
    <3>4. ASSUME NEW k \in Conns, Connect(k) \/ Handler(k)
          PROVE  disruptions' \in {disruptions, disruptions + 1}
      <4>1. CASE HClaim(k) \/ HClaimFails(k) \/ HList(k) \/ HSyncFails(k) \/ HReturn(k) \/ HRemove(k)
        BY <4>1 DEF HClaim, HClaimFails, HList, HSyncFails, HReturn, HRemove,
                    ClearRouteIfMatch, Disrupt
      <4>2. CASE HAckRemove(k) \/ HAckFails(k)
        BY <4>2 DEF HAckRemove, HAckFails, Disrupt
      <4>3. CASE \E n \in Messages : HSync(k, n) \/ HAck(k, n) \/ HAckCursorFails(k, n)
        BY <4>3 DEF HSync, HAck, HAckCursorFails, Disrupt
      <4>4. CASE Connect(k)
        BY <4>4 DEF Connect, Disrupt
      <4>5. QED
        BY <3>4, <4>1, <4>2, <4>3, <4>4 DEF Handler
    <3>5. CASE (\E n \in Messages : BecomeDue(n) \/ Receive(n)) \/ Drop \/ UNCHANGED vars
      BY <3>5 DEF BecomeDue, Receive, Drop, Disrupt, vars
    <3>6. QED
      BY <3>1, <3>2, <3>3, <3>4, <3>5 DEF Next
  <2>3. QED
    BY <2>1, <2>2
<1>3. QED
  BY <1>1, <1>2, DeliverCovers, SubscriberCovers, RetryCovers, HandlerCovers, OtherCovers DEF Next

LEMMA StepIInv ==
  ASSUME IInv, [Next]_vars
  PROVE  IInv'
<1>1. TypeOK' /\ InHand'
  <2>1. CASE UNCHANGED vars
    BY <2>1, PendingAckAssumption
       DEF IInv, TypeOK, InHand, vars, keyVars, cursorVars, connVars, netVars, procVars, historyVars
  <2>2. QED
    BY <2>1, DeliverSteps, SubscriberSteps, RetrySteps, HandlerSteps, OtherSteps DEF IInv, Next
<1>2. QED
  BY <1>1, StepStaysReplayable, StepOneSocket, StepNothingIsMissed DEF IInv

LEMMA Invariant == Spec => []IInv
<1>1. QED
  BY InitIInv, StepIInv, PTL DEF Spec

-----------------------------------------------------------------------------
(* Types; at most the newest connection of the client is open, and only an *)
(* open one has messages and ACKs under way.                               *)
THEOREM TypeCorrect == Spec => []TypeOK
<1>1. IInv => TypeOK
  BY DEF IInv
<1>2. QED
  BY <1>1, Invariant, PTL

(* Until the client acknowledges it, a message that RedisDelivery.Deliver  *)
(* has accepted keeps its entry in pending_ack and its payload in ack_idx, *)
(* whatever the retry loop gives up on and whatever fails.                 *)
THEOREM AcceptedStaysReplayable == Spec => []StaysReplayable
<1>1. IInv => StaysReplayable
  BY DEF IInv
<1>2. QED
  BY <1>1, Invariant, PTL

(* As long as nothing fails, a message never waits for the retry timer     *)
(* beside a healthy connection: Deliver tracks and then reads the route, a *)
(* login claims the route and then lists, so one of the two sees the other.*)
THEOREM NoMessageSlipsThrough == Spec => []NoGap
<1>1. IInv => NoGap
  <2> SUFFICES ASSUME IInv, NEW m \in Messages, NEW c \in Conns,
                      disruptions = 0, m \in tracked, Healthy(c)
               PROVE  m \in received \/ UnderWay(m)
    BY DEF NoGap
  <2>1. Alive(c) /\ rd[c].step \in {"loop", "ack"}
    BY DEF Healthy, Alive
  <2>2. Covered(m, c)
    BY <2>1 DEF IInv, NothingIsMissed
  <2>3. CASE [msg |-> m, via |-> c] \in channel
    <3>1. PICK env \in channel : env = [msg |-> m, via |-> c]
      BY <2>3
    <3>2. env.msg = m
      BY <3>1
    <3>3. QED
      BY <3>2 DEF UnderWay
  <2>4. QED
    BY <2>1, <2>2, <2>3 DEF Covered, UnderWay
<1>2. QED
  BY <1>1, Invariant, PTL

-----------------------------------------------------------------------------
(* CommunityEvents.                                                        *)

\* A publisher that has a row has a recorded one, and has written it.
RowsInHand ==
  \A p \in Publishers :
    /\ pc[p] \in {"publishing", "settling"} => row[p] \in Events /\ status[row[p]] # "absent"
    /\ written[p] => pc[p] = "settling" /\ row[p] \in ToSet(topic)

\* The topic carries recorded events, the outbox what the task outbox had.
TopicIsRecorded == \A e \in ToSet(topic) : status[e] # "absent"
TasksComeFirst == \A e \in TaskEvents : status[e] # "absent" => e \in taskOutbox

\* Whoever is still owed an event would be projected now.
OwedAreRecipients == \A e \in Events : owed[e] \subseteq Recipients(e)

\* The consumer works on the message after the offset.
InOrder ==
  /\ hand \in {0, committed + 1}
  /\ filed => hand # 0 /\ owed[topic[hand]] \subseteq inbox[topic[hand]]

EventsInv ==
  /\ EventsTypeOK
  /\ RowsInHand
  /\ TopicIsRecorded
  /\ TasksComeFirst
  /\ OwedAreRecipients
  /\ InOrder
  /\ CommittedIsFiled

-----------------------------------------------------------------------------
LEMMA InitEventsInv == EventsInit => EventsInv
<1> SUFFICES ASSUME EventsInit PROVE EventsInv
  OBVIOUS
<1> USE CommunityEventsAssumption
<1>1. topic = <<>> /\ topic \in Seq(Events) /\ Len(topic) = 0 /\ ToSet(topic) = {}
  BY DEF EventsInit, ToSet
<1>2. EventsTypeOK
  <2>1. /\ committed \in 0..Len(topic) /\ hand \in 0..Len(topic)
        /\ mishaps \in 0..MaxMishaps /\ changes \in 0..MaxChanges
    BY <1>1 DEF EventsInit
  <2>2. /\ row \in [Publishers -> Events \cup {AnyEvent}] /\ lease \in [Publishers -> Nat]
        /\ written \in [Publishers -> BOOLEAN]
        /\ pc \in [Publishers -> {"idle", "claiming", "publishing", "settling"}]
    BY DEF EventsInit
  <2>3. QED
    BY <1>1, <2>1, <2>2 DEF EventsInit, EventsTypeOK
<1>3. RowsInHand /\ TopicIsRecorded /\ TasksComeFirst /\ OwedAreRecipients
  BY <1>1 DEF EventsInit, RowsInHand, TopicIsRecorded, TasksComeFirst, OwedAreRecipients
<1>4. InOrder /\ CommittedIsFiled
  BY DEF EventsInit, InOrder, CommittedIsFiled
<1>5. QED
  BY <1>2, <1>3, <1>4 DEF EventsInv

(* Publishing appends the row in hand; nothing else touches the topic.     *)
LEMMA Appended ==
  ASSUME EventsInv, NEW p \in Publishers, pc[p] = "publishing", topic' = Append(topic, row[p])
  PROVE  /\ row[p] \in Events /\ status[row[p]] # "absent"
         /\ topic' \in Seq(Events) /\ Len(topic') = Len(topic) + 1
         /\ \A n \in 1..Len(topic) : topic'[n] = topic[n]
         /\ ToSet(topic') = ToSet(topic) \cup {row[p]}
<1>1. row[p] \in Events /\ status[row[p]] # "absent"
  BY DEF EventsInv, RowsInHand
<1>2. topic \in Seq(Events)
  BY DEF EventsInv, EventsTypeOK
<1>3. /\ topic' \in Seq(Events) /\ Len(topic') = Len(topic) + 1
      /\ topic'[Len(topic) + 1] = row[p]
      /\ \A n \in 1..Len(topic) : topic'[n] = topic[n]
  BY <1>1, <1>2
<1>4. ToSet(topic') = ToSet(topic) \cup {row[p]}
  <2>1. DOMAIN topic = 1..Len(topic) /\ DOMAIN topic' = 1..(Len(topic) + 1) /\ Len(topic) \in Nat
    BY <1>2, <1>3
  <2>2. DOMAIN topic' = DOMAIN topic \cup {Len(topic) + 1}
    BY <2>1
  <2>3. QED
    BY <1>3, <2>1, <2>2 DEF ToSet
<1>5. QED
  BY <1>1, <1>3, <1>4

\* What is in the topic stays there, in its place.
TopicKept ==
  /\ topic' \in Seq(Events) /\ Len(topic) \in Nat /\ Len(topic') \in Nat
  /\ Len(topic) <= Len(topic')
  /\ \A n \in 1..Len(topic) : topic'[n] = topic[n]
  /\ ToSet(topic) \subseteq ToSet(topic')

LEMMA TopicGrows ==
  ASSUME EventsInv, [EventsNext]_eventVars
  PROVE  TopicKept
<1>1. topic \in Seq(Events)
  BY DEF EventsInv, EventsTypeOK
<1>2. CASE UNCHANGED topic
  BY <1>1, <1>2 DEF TopicKept
<1>3. ASSUME NEW p \in Publishers, pc[p] = "publishing", topic' = Append(topic, row[p])
      PROVE  TopicKept
  BY <1>1, <1>3, Appended DEF TopicKept
<1>4. UNCHANGED topic \/ \E p \in Publishers : pc[p] = "publishing" /\ topic' = Append(topic, row[p])
  BY DEF EventsNext, Emit, RecordTask, RowBecomesDue, Stall, Join, Leave, PublisherWorks, ProjectTasks,
         Claim, EndBatch, Publish, Settle, PublishFails, PublisherStops, Fetch, Project, Commit,
         CommitFails, ConsumerRestarts, eventVars
<1>5. QED
  BY <1>2, <1>3, <1>4

LEMMA Mishaps ==
  ASSUME EventsTypeOK, Mishap
  PROVE  mishaps' \in 0..MaxMishaps
BY CommunityEventsAssumption DEF EventsTypeOK, Mishap

LEMMA EventTypesStep ==
  ASSUME EventsInv, [EventsNext]_eventVars
  PROVE  EventsTypeOK'
<1> USE CommunityEventsAssumption
<1>1. EventsTypeOK
  BY DEF EventsInv
<1>2. TopicKept
  BY TopicGrows
<1>3. ASSUME NEW e \in Events, Emit(e) \/ RecordTask(e) \/ RowBecomesDue(e) \/ Stall(e)
      PROVE  EventsTypeOK'
  <2>1. Recipients(e) \subseteq Users
    BY <1>1 DEF EventsTypeOK, Recipients
  <2>2. CASE Emit(e)
    BY <1>1, <2>1, <2>2 DEF Emit, EventsTypeOK, memberVars, publisherVars, consumerVars
  <2>3. CASE RecordTask(e)
    BY <1>1, <2>1, <2>3 DEF RecordTask, EventsTypeOK, memberVars, publisherVars, consumerVars
  <2>4. CASE RowBecomesDue(e) \/ Stall(e)
    BY <1>1, <2>4 DEF RowBecomesDue, Stall, Mishap, EventsTypeOK, memberVars, publisherVars, consumerVars
  <2>5. QED
    BY <1>3, <2>2, <2>3, <2>4
<1>4. ASSUME NEW u \in Users, Join(u) \/ Leave(u) PROVE EventsTypeOK'
  BY <1>1, <1>4 DEF Join, Leave, Change, EventsTypeOK, outboxVars, publisherVars, consumerVars
<1>5. ASSUME NEW p \in Publishers, NEW step \in {"idle", "claiming"}, LetGo(p, step)
      PROVE  /\ pc' \in [Publishers -> {"idle", "claiming", "publishing", "settling"}]
             /\ row' \in [Publishers -> Events \cup {AnyEvent}] /\ lease' \in [Publishers -> Nat]
             /\ written' \in [Publishers -> BOOLEAN]
  BY <1>1, <1>5 DEF LetGo, Goto, EventsTypeOK
<1>6. ASSUME NEW p \in Publishers,
             ProjectTasks(p) \/ (\E e \in Events : Claim(p, e)) \/ EndBatch(p) \/ Publish(p)
               \/ PublishFails(p) \/ Settle(p) \/ PublisherStops(p)
      PROVE  EventsTypeOK'
  <2>1. CASE ProjectTasks(p)
    BY <1>1, <2>1 DEF ProjectTasks, Goto, EventsTypeOK, memberVars, consumerVars
  <2>2. ASSUME NEW e \in Events, Claim(p, e) PROVE EventsTypeOK'
    BY <1>1, <2>2 DEF Claim, Goto, EventsTypeOK, memberVars, consumerVars
  <2>3. CASE EndBatch(p) \/ PublisherStops(p)
    <3>1. LetGo(p, "idle")
      BY <2>3 DEF EndBatch, PublisherStops
    <3>2. QED
      BY <1>1, <1>5, <2>3, <3>1
         DEF EndBatch, PublisherStops, Mishap, EventsTypeOK, memberVars, outboxVars, consumerVars
  <2>4. CASE Publish(p) \/ PublishFails(p)
    <3>1. /\ pc' \in [Publishers -> {"idle", "claiming", "publishing", "settling"}]
          /\ written' \in [Publishers -> BOOLEAN]
      BY <1>1, <2>4 DEF Publish, PublishFails, Goto, EventsTypeOK
    <3>2. committed' \in 0..Len(topic') /\ hand' \in 0..Len(topic') /\ topic' \in Seq(Events)
      BY <1>1, <1>2, <2>4 DEF Publish, PublishFails, TopicKept, EventsTypeOK, consumerVars
    <3>3. mishaps' \in 0..MaxMishaps
      BY <1>1, <2>4, Mishaps DEF Publish, PublishFails, EventsTypeOK
    <3>4. QED
      BY <1>1, <2>4, <3>1, <3>2, <3>3
         DEF Publish, PublishFails, EventsTypeOK, memberVars, outboxVars, consumerVars
  <2>5. CASE Settle(p)
    <3>1. LetGo(p, IF written[p] THEN "claiming" ELSE "idle")
      BY <2>5 DEF Settle
    <3>2. status' \in [Events -> {"absent", "pending", "processing", "done", "dead"}] /\ due' \subseteq Events
      BY <1>1, <2>5 DEF Settle, Outcome, EventsTypeOK
    <3>3. QED
      BY <1>1, <1>5, <2>5, <3>1, <3>2
         DEF Settle, EventsTypeOK, memberVars, consumerVars
  <2>6. QED
    BY <1>6, <2>1, <2>2, <2>3, <2>4, <2>5
<1>7. CASE Fetch \/ Commit \/ CommitFails \/ ConsumerRestarts
  <2>1. committed' \in 0..Len(topic) /\ hand' \in 0..Len(topic) /\ filed' \in BOOLEAN
    <3>1. Len(topic) \in Nat /\ committed \in 0..Len(topic) /\ hand \in 0..Len(topic)
      BY <1>1, <1>2 DEF TopicKept, EventsTypeOK
    <3>2. /\ committed' \in {committed, hand}
          /\ hand' \in {0, hand} \/ (hand' = committed + 1 /\ committed < Len(topic))
          /\ filed' = FALSE
      BY <1>7 DEF Fetch, Commit, CommitFails, ConsumerRestarts
    <3>3. committed' \in 0..Len(topic)
      BY <3>1, <3>2
    <3>4. hand' \in 0..Len(topic)
      BY <3>1, <3>2
    <3>5. QED
      BY <3>2, <3>3, <3>4
  <2>2. mishaps' \in 0..MaxMishaps
    BY <1>1, <1>7, Mishaps DEF Fetch, Commit, CommitFails, ConsumerRestarts, EventsTypeOK
  <2>3. QED
    BY <1>1, <1>7, <2>1, <2>2
       DEF Fetch, Commit, CommitFails, ConsumerRestarts, EventsTypeOK,
           memberVars, outboxVars, publisherVars
<1>8. CASE Project
  <2>1. topic[hand] \in Events
    BY <1>1, <1>8 DEF Project, EventsTypeOK
  <2>2. Recipients(topic[hand]) \subseteq Users
    BY <1>1 DEF EventsTypeOK, Recipients
  <2>3. QED
    BY <1>1, <1>8, <2>1, <2>2 DEF Project, EventsTypeOK, memberVars, outboxVars, publisherVars
<1>9. CASE UNCHANGED eventVars
  BY <1>1, <1>9
     DEF eventVars, EventsTypeOK, memberVars, outboxVars, publisherVars, consumerVars
<1>10. QED
  BY <1>3, <1>4, <1>6, <1>7, <1>8, <1>9 DEF EventsNext, PublisherWorks

\* A recorded event stays recorded, and its task is in the task outbox.
LEMMA RecordedStays ==
  ASSUME EventsInv, [EventsNext]_eventVars
  PROVE  /\ \A e \in Events : status[e] # "absent" => status'[e] # "absent"
         /\ taskOutbox \subseteq taskOutbox'
         /\ TasksComeFirst'
<1>1. EventsTypeOK /\ TasksComeFirst /\ TaskEvents \subseteq Events
  BY CommunityEventsAssumption DEF EventsInv
<1>2. status \in [Events -> {"absent", "pending", "processing", "done", "dead"}]
  BY <1>1 DEF EventsTypeOK
<1>3. ASSUME \A e \in Events : status[e] # "absent" => status'[e] # "absent",
             taskOutbox \subseteq taskOutbox',
             \A e \in TaskEvents : status'[e] # "absent" => status[e] # "absent" \/ e \in taskOutbox
      PROVE  /\ \A e \in Events : status[e] # "absent" => status'[e] # "absent"
             /\ taskOutbox \subseteq taskOutbox'
             /\ TasksComeFirst'
  BY <1>1, <1>3 DEF TasksComeFirst
<1>4. CASE UNCHANGED status
  <2>1. taskOutbox \subseteq taskOutbox'
    BY DEF EventsNext, Emit, RecordTask, RowBecomesDue, Stall, Join, Leave, PublisherWorks, ProjectTasks,
           Claim, EndBatch, Publish, Settle, PublishFails, PublisherStops, Fetch, Project, Commit,
           CommitFails, ConsumerRestarts, eventVars, outboxVars
  <2>2. QED
    BY <1>3, <1>4, <2>1
<1>5. ASSUME NEW e \in Events, Emit(e) PROVE TasksComeFirst' /\ UNCHANGED taskOutbox
             /\ \A f \in Events : status[f] # "absent" => status'[f] # "absent"
  BY <1>1, <1>2, <1>5 DEF Emit, TasksComeFirst
<1>6. ASSUME NEW p \in Publishers, ProjectTasks(p) PROVE TasksComeFirst' /\ UNCHANGED taskOutbox
             /\ \A f \in Events : status[f] # "absent" => status'[f] # "absent"
  BY <1>1, <1>2, <1>6 DEF ProjectTasks, TasksComeFirst
<1>7. ASSUME NEW p \in Publishers, NEW e \in Events, Claim(p, e)
      PROVE  TasksComeFirst' /\ UNCHANGED taskOutbox
             /\ \A f \in Events : status[f] # "absent" => status'[f] # "absent"
  BY <1>1, <1>2, <1>7 DEF Claim, Ready, TasksComeFirst
<1>8. ASSUME NEW p \in Publishers, Settle(p) PROVE TasksComeFirst' /\ UNCHANGED taskOutbox
             /\ \A f \in Events : status[f] # "absent" => status'[f] # "absent"
  <2>1. Outcome(p) # "absent"
    BY DEF Outcome
  <2>2. HoldsLease(p) => status[row[p]] # "absent"
    BY DEF HoldsLease
  <2>3. QED
    BY <1>1, <1>2, <1>8, <2>1, <2>2 DEF Settle, TasksComeFirst
<1>9. \/ UNCHANGED status
      \/ \E e \in Events : Emit(e)
      \/ \E p \in Publishers : ProjectTasks(p) \/ Settle(p) \/ \E e \in Events : Claim(p, e)
  BY DEF EventsNext, RecordTask, RowBecomesDue, Stall, Join, Leave, PublisherWorks, EndBatch, Publish,
         PublishFails, PublisherStops, Fetch, Project, Commit, CommitFails, ConsumerRestarts,
         eventVars, outboxVars
<1>10. QED
  BY <1>4, <1>5, <1>6, <1>7, <1>8, <1>9

LEMMA RowsStep ==
  ASSUME EventsInv, [EventsNext]_eventVars
  PROVE  RowsInHand' /\ TopicIsRecorded'
<1>1. EventsTypeOK /\ RowsInHand /\ TopicIsRecorded
  BY DEF EventsInv
<1>2. /\ \A e \in Events : status[e] # "absent" => status'[e] # "absent"
      /\ ToSet(topic) \subseteq ToSet(topic')
  BY RecordedStays, TopicGrows DEF TopicKept
<1>3. /\ pc \in [Publishers -> {"idle", "claiming", "publishing", "settling"}]
      /\ row \in [Publishers -> Events \cup {AnyEvent}]
      /\ written \in [Publishers -> BOOLEAN]
      /\ status \in [Events -> {"absent", "pending", "processing", "done", "dead"}]
      /\ topic \in Seq(Events)
  BY <1>1 DEF EventsTypeOK
<1>4. ToSet(topic) \subseteq Events
  BY <1>3 DEF ToSet
<1>5. CASE UNCHANGED topic
  <2>1. TopicIsRecorded'
    BY <1>1, <1>2, <1>4, <1>5 DEF TopicIsRecorded
  <2>2. CASE UNCHANGED publisherVars
    BY <1>1, <1>2, <2>1, <2>2 DEF RowsInHand, publisherVars
  <2>3. ASSUME NEW p \in Publishers, NEW e \in Events, Claim(p, e) PROVE RowsInHand'
    <3>1. status[e] # "absent"
      BY <2>3 DEF Claim, Ready
    <3>2. pc'[p] = "publishing" /\ row'[p] = e /\ written'[p] = written[p] /\ ~written[p]
      BY <1>1, <1>3, <2>3 DEF Claim, Goto, RowsInHand
    <3>3. \A q \in Publishers \ {p} :
            pc'[q] = pc[q] /\ row'[q] = row[q] /\ written'[q] = written[q]
      BY <1>3, <2>3 DEF Claim, Goto
    <3>4. QED
      BY <1>1, <1>2, <3>1, <3>2, <3>3 DEF RowsInHand
  <2>4. ASSUME NEW p \in Publishers, NEW step \in {"idle", "claiming"}, LetGo(p, step) PROVE RowsInHand'
    BY <1>1, <1>2, <1>3, <2>4 DEF LetGo, Goto, RowsInHand
  <2>5. ASSUME NEW p \in Publishers, ProjectTasks(p) PROVE RowsInHand'
    BY <1>1, <1>2, <1>3, <2>5 DEF ProjectTasks, Goto, RowsInHand
  <2>6. ASSUME NEW p \in Publishers, PublishFails(p) PROVE RowsInHand'
    BY <1>1, <1>2, <1>3, <2>6 DEF PublishFails, Goto, RowsInHand
  <2>7. ASSUME NEW p \in Publishers, EndBatch(p) \/ Settle(p) \/ PublisherStops(p) PROVE RowsInHand'
    BY <2>4, <2>7 DEF EndBatch, Settle, PublisherStops
  <2>8. ASSUME NEW p \in Publishers, Publish(p) PROVE FALSE
    <3>1. Len(topic') = Len(topic) + 1 /\ Len(topic) \in Nat
      BY <2>8, Appended, TopicGrows DEF Publish, TopicKept
    <3>2. QED
      BY <1>5, <3>1
  <2>9. QED
    BY <2>1, <2>2, <2>3, <2>5, <2>6, <2>7, <2>8
       DEF EventsNext, Emit, RecordTask, RowBecomesDue, Stall, Join, Leave, PublisherWorks,
           Fetch, Project, Commit, CommitFails, ConsumerRestarts, eventVars
<1>6. ASSUME NEW p \in Publishers, Publish(p) \/ PublishFails(p), topic' = Append(topic, row[p])
      PROVE  RowsInHand' /\ TopicIsRecorded'
  <2>1. pc[p] = "publishing" /\ pc' = [pc EXCEPT ![p] = "settling"] /\ UNCHANGED row
        /\ written' \in {written, [written EXCEPT ![p] = TRUE]}
    BY <1>6 DEF Publish, PublishFails, Goto
  <2>2. row[p] \in Events /\ status[row[p]] # "absent" /\ ToSet(topic') = ToSet(topic) \cup {row[p]}
    BY <1>6, <2>1, Appended
  <2>3. QED
    BY <1>1, <1>2, <1>3, <1>4, <2>1, <2>2 DEF RowsInHand, TopicIsRecorded
<1>7. \/ UNCHANGED topic
      \/ \E p \in Publishers : (Publish(p) \/ PublishFails(p)) /\ topic' = Append(topic, row[p])
  BY DEF EventsNext, Emit, RecordTask, RowBecomesDue, Stall, Join, Leave, PublisherWorks, ProjectTasks,
         Claim, EndBatch, Publish, Settle, PublishFails, PublisherStops, Fetch, Project, Commit,
         CommitFails, ConsumerRestarts, eventVars
<1>8. QED
  BY <1>5, <1>6, <1>7

(* Who is owed an event is a member it concerns: leaving ends what is owed.*)
LEMMA OwedStep ==
  ASSUME EventsInv, [EventsNext]_eventVars
  PROVE  OwedAreRecipients'
<1>1. OwedAreRecipients /\ owed \in [Events -> SUBSET Users]
  BY DEF EventsInv, EventsTypeOK
<1>2. CASE UNCHANGED <<owed, active>>
  BY <1>1, <1>2 DEF OwedAreRecipients, Recipients
<1>3. ASSUME NEW e \in Events, owed' = [owed EXCEPT ![e] = Recipients(e)], UNCHANGED active
      PROVE  OwedAreRecipients'
  BY <1>1, <1>3 DEF OwedAreRecipients, Recipients
<1>4. ASSUME NEW u \in Users, Join(u) PROVE OwedAreRecipients'
  BY <1>1, <1>4 DEF Join, OwedAreRecipients, Recipients
<1>5. ASSUME NEW u \in Users, Leave(u) PROVE OwedAreRecipients'
  BY <1>1, <1>5 DEF Leave, OwedAreRecipients, Recipients
<1>6. \/ UNCHANGED <<owed, active>>
      \/ \E e \in Events : owed' = [owed EXCEPT ![e] = Recipients(e)] /\ UNCHANGED active
      \/ \E u \in Users : Join(u) \/ Leave(u)
  BY DEF EventsNext, Emit, RecordTask, RowBecomesDue, Stall, PublisherWorks, ProjectTasks,
         Claim, EndBatch, Publish, Settle, PublishFails, PublisherStops, Fetch, Project, Commit,
         CommitFails, ConsumerRestarts, eventVars, memberVars
<1>7. QED
  BY <1>2, <1>3, <1>4, <1>5, <1>6

\* Nobody is owed an event that is in the topic who was not before.
LEMMA OwedShrinks ==
  ASSUME EventsInv, [EventsNext]_eventVars, NEW e \in ToSet(topic)
  PROVE  e \in Events /\ owed'[e] \subseteq owed[e]
<1>1. /\ topic \in Seq(Events) /\ owed \in [Events -> SUBSET Users]
      /\ TopicIsRecorded /\ TasksComeFirst
  BY DEF EventsInv, EventsTypeOK
<1>2. e \in Events /\ status[e] # "absent" /\ (e \in TaskEvents => e \in taskOutbox)
  BY <1>1 DEF ToSet, TopicIsRecorded, TasksComeFirst
<1>3. \/ UNCHANGED owed
      \/ \E f \in Events \ {e} : owed' = [owed EXCEPT ![f] = Recipients(f)]
      \/ \E u \in Users : owed' = [f \in Events |-> owed[f] \ {u}]
  BY <1>2 DEF EventsNext, Emit, RecordTask, RowBecomesDue, Stall, Join, Leave, PublisherWorks, ProjectTasks,
         Claim, EndBatch, Publish, Settle, PublishFails, PublisherStops, Fetch, Project, Commit,
         CommitFails, ConsumerRestarts, eventVars
<1>4. QED
  BY <1>1, <1>2, <1>3

\* An inbox only grows, by those whom the projection reaches.
LEMMA InboxGrows ==
  ASSUME EventsInv, [EventsNext]_eventVars, NEW e \in Events
  PROVE  inbox[e] \subseteq inbox'[e] /\ inbox'[e] \ inbox[e] \subseteq Recipients(e)
<1>1. inbox \in [Events -> SUBSET Users]
  BY DEF EventsInv, EventsTypeOK
<1>2. UNCHANGED inbox \/ Project
  BY DEF EventsNext, Emit, RecordTask, RowBecomesDue, Stall, Join, Leave, PublisherWorks, ProjectTasks,
         Claim, EndBatch, Publish, Settle, PublishFails, PublisherStops, Fetch, Commit,
         CommitFails, ConsumerRestarts, eventVars, consumerVars
<1>3. CASE Project
  BY <1>1, <1>3 DEF Project
<1>4. QED
  BY <1>2, <1>3

LEMMA FiledStep ==
  ASSUME EventsInv, [EventsNext]_eventVars
  PROVE  InOrder' /\ CommittedIsFiled'
<1>1. /\ EventsTypeOK /\ InOrder /\ CommittedIsFiled /\ OwedAreRecipients
      /\ topic \in Seq(Events) /\ committed \in 0..Len(topic) /\ hand \in 0..Len(topic)
      /\ inbox \in [Events -> SUBSET Users]
  BY DEF EventsInv, EventsTypeOK
<1>2. TopicKept
  BY TopicGrows
<1>3. ASSUME NEW n \in 1..Len(topic)
      PROVE  /\ topic[n] \in Events /\ topic'[n] = topic[n]
             /\ owed[topic[n]] \subseteq inbox[topic[n]] => owed'[topic[n]] \subseteq inbox'[topic[n]]
  <2>1. topic[n] \in ToSet(topic) /\ topic'[n] = topic[n]
    BY <1>1, <1>2 DEF ToSet, TopicKept
  <2>2. QED
    BY <2>1, OwedShrinks, InboxGrows
<1>4. ASSUME committed' = committed PROVE CommittedIsFiled'
  <2> SUFFICES ASSUME NEW n \in 1..committed PROVE owed'[topic'[n]] \subseteq inbox'[topic'[n]]
    BY <1>4 DEF CommittedIsFiled
  <2>1. n \in 1..Len(topic)
    BY <1>1, <1>2 DEF TopicKept
  <2>2. owed[topic[n]] \subseteq inbox[topic[n]]
    BY <1>1 DEF CommittedIsFiled
  <2>3. QED
    BY <1>3, <2>1, <2>2
<1>5. hand # 0 => hand \in 1..Len(topic)
  BY <1>1, <1>2 DEF TopicKept
<1>6. CASE UNCHANGED <<committed, hand, filed>>
  BY <1>1, <1>3, <1>4, <1>5, <1>6 DEF InOrder
<1>7. CASE Fetch \/ CommitFails \/ ConsumerRestarts
  BY <1>1, <1>4, <1>7 DEF Fetch, CommitFails, ConsumerRestarts, InOrder
<1>8. CASE Project
  <2>1. hand # 0 /\ UNCHANGED <<committed, hand, topic, owed>>
        /\ inbox' = [inbox EXCEPT ![topic[hand]] = @ \cup Recipients(topic[hand])]
    BY <1>8 DEF Project
  <2>2. topic[hand] \in Events
    BY <1>3, <1>5, <2>1
  <2>3. owed[topic[hand]] \subseteq inbox'[topic[hand]]
    BY <1>1, <2>1, <2>2 DEF OwedAreRecipients
  <2>4. InOrder'
    BY <1>1, <2>1, <2>3 DEF InOrder
  <2>5. QED
    BY <1>4, <2>1, <2>4
<1>9. CASE Commit
  <2>1. hand = committed + 1 /\ owed[topic[hand]] \subseteq inbox[topic[hand]]
    BY <1>1, <1>9 DEF Commit, InOrder
  <2>2. hand' = 0 /\ filed' = FALSE /\ committed' = committed + 1 /\ UNCHANGED <<topic, inbox, owed>>
    BY <1>9, <2>1 DEF Commit
  <2>3. \A n \in 1..committed' : n \in 1..committed \/ n = hand
    BY <1>1, <1>2, <2>1, <2>2 DEF TopicKept
  <2>4. CommittedIsFiled'
    BY <1>1, <2>1, <2>2, <2>3 DEF CommittedIsFiled
  <2>5. InOrder'
    BY <2>2 DEF InOrder
  <2>6. QED
    BY <2>4, <2>5
<1>10. \/ UNCHANGED <<committed, hand, filed>>
       \/ Fetch \/ CommitFails \/ ConsumerRestarts \/ Project \/ Commit
  BY DEF EventsNext, Emit, RecordTask, RowBecomesDue, Stall, Join, Leave, PublisherWorks, ProjectTasks,
         Claim, EndBatch, Publish, Settle, PublishFails, PublisherStops, eventVars, consumerVars
<1>11. QED
  BY <1>6, <1>7, <1>8, <1>9, <1>10

LEMMA EventsInvariant == EventsSpec => []EventsInv
<1>1. EventsInv /\ [EventsNext]_eventVars => EventsInv'
  BY EventTypesStep, RecordedStays, RowsStep, OwedStep, FiledStep DEF EventsInv
<1>2. QED
  BY <1>1, InitEventsInv, PTL DEF EventsSpec

-----------------------------------------------------------------------------
(* Rows, publishers, the topic and the inboxes hold values of their types. *)
THEOREM EventTypesCorrect == EventsSpec => []EventsTypeOK
<1>1. EventsInv => EventsTypeOK
  BY DEF EventsInv
<1>2. QED
  BY <1>1, EventsInvariant, PTL

(* Everyone who has been a member since an event has its notification      *)
(* before the consumer's offset passes its message, whatever is repeated,  *)
(* fails or restarts (Project before CommitMessages).                      *)
THEOREM FiledBeforeCommitted == EventsSpec => []CommittedIsFiled
<1>1. EventsInv => CommittedIsFiled
  BY DEF EventsInv
<1>2. QED
  BY <1>1, EventsInvariant, PTL

(* A notification is only ever added, and for a member of that moment whom *)
(* the event concerns, never for the one who caused it (worker.go:116).    *)
THEOREM NotifiesMembersOnly == EventsSpec => OnlyMembersAreNotified
<1> DEFINE Notified(e) ==
      /\ inbox[e] \subseteq inbox'[e]
      /\ \A u \in inbox'[e] \ inbox[e] :
           u \in active /\ u # ActorOf[e] /\ RecipientOf[e] \in {NoOne, u}
<1>1. EventsInv /\ [EventsNext]_eventVars => [\A e \in Events : Notified(e)]_eventVars
  BY InboxGrows DEF Recipients
<1>2. QED
  BY <1>1, EventsInvariant, PTL DEF EventsSpec, OnlyMembersAreNotified

-----------------------------------------------------------------------------
(* The at-least-once promise.                                              *)

\* The abstract phase of an event by its status and the task outbox.
PhaseOf(st, inTasks) ==
  IF st \in {"pending", "processing"} \/ (inTasks /\ st = "absent") THEN "owed" ELSE st

LEMMA PhaseIs ==
  /\ \A e \in Events : OutboxPhase[e] = PhaseOf(status[e], e \in taskOutbox)
  /\ \A e \in Events : OutboxPhase'[e] = PhaseOf(status'[e], e \in taskOutbox')
  /\ OutboxPhase = [e \in Events |-> OutboxPhase[e]]
  /\ OutboxPhase' = [e \in Events |-> OutboxPhase'[e]]
BY DEF OutboxPhase, PhaseOf

LEMMA SamePhase ==
  ASSUME \A e \in Events : OutboxPhase'[e] = OutboxPhase[e], UNCHANGED topic
  PROVE  UNCHANGED Promise!vars
<1>1. OutboxPhase' = OutboxPhase
  BY PhaseIs
<1>2. InTopic' = InTopic
  BY DEF InTopic
<1>3. QED
  BY <1>1, <1>2 DEF Promise!vars

LEMMA EventStepKeepsPromise ==
  ASSUME EventsInv, [EventsNext]_eventVars
  PROVE  [Promise!Next]_(Promise!vars)
<1>1. /\ EventsTypeOK /\ RowsInHand /\ TasksComeFirst
      /\ status \in [Events -> {"absent", "pending", "processing", "done", "dead"}]
      /\ taskOutbox \subseteq TaskEvents /\ TaskEvents \subseteq Events
  BY CommunityEventsAssumption DEF EventsInv, EventsTypeOK
<1>2. CASE UNCHANGED <<status, taskOutbox, topic>>
  BY <1>2, PhaseIs, SamePhase
<1>3. ASSUME NEW e \in Events, Emit(e) \/ RecordTask(e) PROVE Promise!Accept(e)
  <2>1. OutboxPhase[e] = "absent" /\ OutboxPhase'[e] = "owed"
    BY <1>1, <1>3, PhaseIs DEF Emit, RecordTask, PhaseOf, TasksComeFirst
  <2>2. \A f \in Events \ {e} : OutboxPhase'[f] = OutboxPhase[f]
    BY <1>1, <1>3, PhaseIs DEF Emit, RecordTask, PhaseOf
  <2>3. OutboxPhase' = [OutboxPhase EXCEPT ![e] = "owed"]
    BY <2>1, <2>2, PhaseIs
  <2>4. InTopic' = InTopic
    BY <1>3 DEF Emit, RecordTask, InTopic
  <2>5. QED
    BY <2>1, <2>3, <2>4 DEF Promise!Accept
<1>4. ASSUME NEW p \in Publishers, ProjectTasks(p) PROVE UNCHANGED Promise!vars
  <2>1. \A e \in Events : OutboxPhase'[e] = OutboxPhase[e]
    BY <1>1, <1>4, PhaseIs DEF ProjectTasks, PhaseOf
  <2>2. QED
    BY <1>4, <2>1, SamePhase DEF ProjectTasks
<1>5. ASSUME NEW p \in Publishers, NEW e \in Events, Claim(p, e) PROVE UNCHANGED Promise!vars
  <2>1. \A f \in Events : OutboxPhase'[f] = OutboxPhase[f]
    BY <1>1, <1>5, PhaseIs DEF Claim, Ready, PhaseOf
  <2>2. QED
    BY <1>5, <2>1, SamePhase DEF Claim
<1>6. ASSUME NEW p \in Publishers, Publish(p) \/ PublishFails(p), topic' = Append(topic, row[p])
      PROVE  Promise!Serve(row[p], "topic")
  <2>1. /\ row[p] \in Events /\ status[row[p]] # "absent"
        /\ ToSet(topic') = ToSet(topic) \cup {row[p]}
    BY <1>6, Appended DEF Publish, PublishFails
  <2>2. OutboxPhase[row[p]] # "absent"
    BY <2>1, PhaseIs DEF PhaseOf
  <2>3. InTopic' = [InTopic EXCEPT ![row[p]] = @ \cup {"topic"}]
    BY <2>1 DEF InTopic
  <2>4. OutboxPhase' = OutboxPhase
    BY <1>6, PhaseIs DEF Publish, PublishFails, outboxVars
  <2>5. QED
    BY <2>1, <2>2, <2>3, <2>4 DEF Promise!Serve
<1>7. ASSUME NEW p \in Publishers, Settle(p), HoldsLease(p)
      PROVE  Promise!Complete(row[p]) \/ Promise!GiveUp(row[p]) \/ UNCHANGED Promise!vars
  <2>1. row[p] \in Events /\ status[row[p]] = "processing" /\ OutboxPhase[row[p]] = "owed"
    BY <1>1, <1>7, PhaseIs DEF Settle, HoldsLease, RowsInHand, PhaseOf
  <2>2. UNCHANGED <<topic, taskOutbox>> /\ status' = [status EXCEPT ![row[p]] = Outcome(p)]
    BY <1>7 DEF Settle
  <2>3. InTopic' = InTopic
    BY <2>2 DEF InTopic
  <2>4. /\ OutboxPhase'[row[p]] = PhaseOf(Outcome(p), row[p] \in taskOutbox)
        /\ \A f \in Events \ {row[p]} : OutboxPhase'[f] = OutboxPhase[f]
    BY <1>1, <2>1, <2>2, PhaseIs
  <2>5. CASE Outcome(p) = "done"
    <3>1. written[p] /\ OutboxPhase'[row[p]] = "done"
      BY <2>4, <2>5 DEF Outcome, PhaseOf
    <3>2. OutboxPhase' = [OutboxPhase EXCEPT ![row[p]] = "done"]
      BY <2>4, <3>1, PhaseIs
    <3>3. InTopic[row[p]] = {"topic"}
      BY <1>1, <2>1, <3>1 DEF InTopic, RowsInHand
    <3>4. QED
      BY <2>1, <2>3, <3>2, <3>3 DEF Promise!Complete
  <2>6. CASE Outcome(p) = "dead"
    <3>1. OutboxPhase'[row[p]] = "dead"
      BY <2>4, <2>6 DEF PhaseOf
    <3>2. OutboxPhase' = [OutboxPhase EXCEPT ![row[p]] = "dead"]
      BY <2>4, <3>1, PhaseIs
    <3>3. QED
      BY <2>1, <2>3, <3>2 DEF Promise!GiveUp
  <2>7. CASE Outcome(p) = "pending"
    <3>1. OutboxPhase'[row[p]] = "owed"
      BY <2>4, <2>7 DEF PhaseOf
    <3>2. QED
      BY <2>1, <2>2, <2>4, <3>1, SamePhase
  <2>8. QED
    BY <2>5, <2>6, <2>7 DEF Outcome
<1>8. \/ UNCHANGED <<status, taskOutbox, topic>>
      \/ \E e \in Events : Emit(e) \/ RecordTask(e)
      \/ \E p \in Publishers :
           \/ ProjectTasks(p) \/ \E e \in Events : Claim(p, e)
           \/ (Publish(p) \/ PublishFails(p)) /\ topic' = Append(topic, row[p])
           \/ Settle(p) /\ HoldsLease(p)
  BY DEF EventsNext, RowBecomesDue, Stall, Join, Leave, PublisherWorks, EndBatch, Publish, Settle,
         PublishFails, PublisherStops, Fetch, Project, Commit, CommitFails, ConsumerRestarts,
         eventVars, outboxVars
<1>9. ASSUME NEW p \in Publishers, pc[p] \in {"publishing", "settling"} PROVE row[p] \in Events
  BY <1>1, <1>9 DEF RowsInHand
<1>10. QED
  BY <1>2, <1>3, <1>4, <1>5, <1>6, <1>7, <1>8, <1>9
     DEF Promise!Next, Publish, PublishFails, Settle

(* The event outbox keeps the promise of AtLeastOnce: a row done is in the *)
(* topic, a settled row stays settled although a publisher may come back   *)
(* after its lease was given to another (lease_token, worker.go:104).      *)
THEOREM EventsKeepPromise == EventsSpec => ImplementsAtLeastOnce
<1>1. EventsInit => Promise!Init
  BY DEF EventsInit, Promise!Init, OutboxPhase, InTopic, ToSet
<1>2. EventsInv /\ [EventsNext]_eventVars => [Promise!Next]_(Promise!vars)
  BY EventStepKeepsPromise
<1>3. QED
  BY <1>1, <1>2, EventsInvariant, PTL DEF EventsSpec, ImplementsAtLeastOnce, Promise!Spec

=============================================================================
