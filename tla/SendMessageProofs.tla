-------------------------- MODULE SendMessageProofs --------------------------
(***************************************************************************)
(* Proofs about SendMessage, for every set of calls and messages and every *)
(* number of lost Redis keys; and about ConversationOutbox, which works    *)
(* off the rows that the accepted messages leave, for any workers, rows,   *)
(* limits and disruptions.                                                 *)
(***************************************************************************)
EXTENDS SendMessage, ConversationOutbox, TLAPS

USE SendMessageAssumption

(* A call that reserves or stores has a number, and so has every pending   *)
(* record.                                                                 *)
Numbered ==
  /\ \A c \in Calls :
       pc[c] \in {"reserve", "save", "reauthorize", "accept"} => seq[c] > 0
  /\ \A m \in Messages : record[m].kind = "pending" => record[m].seq > 0

(* A call on its way to the delivery carries the number of a stored row.   *)
AcceptsStored ==
  \A c \in Calls :
    pc[c] \in {"reauthorize", "accept"}
      => [msg |-> MsgOf[c], seq |-> seq[c]] \in rows

(* A call replies once, and "ok" only for a stored message.                *)
RepliesAreTrue ==
  \A c \in Calls :
    /\ pc[c] # "returned" => reply[c] = "none"
    /\ reply[c] = "ok" => Stored(MsgOf[c])

(* A call that started without permission is nowhere past an authorization *)
(* check, and the permission does not come back.                           *)
RevokedStaysOut ==
  \A c \in Calls :
    revoked[c] => /\ ~permitted
                  /\ pc[c] \notin {"start", "exists", "max", "setmax", "incr",
                                   "reserve", "save", "accept"}

IInv ==
  /\ TypeOK
  /\ Numbered
  /\ CommittedRecordIsStored
  /\ AcceptsStored
  /\ RepliesAreTrue
  /\ RevokedStaysOut

-----------------------------------------------------------------------------
(* What a SET of the reservation key leaves behind.                        *)
LEMMA RecordWritten ==
  ASSUME TypeOK, NEW m \in Messages, NEW k \in Kinds, NEW n \in Nat,
         record' = [record EXCEPT ![m] = [kind |-> k, seq |-> n]]
  PROVE  /\ record' \in [Messages -> [kind : Kinds, seq : Nat]]
         /\ record'[m].kind = k /\ record'[m].seq = n
         /\ \A x \in Messages : x # m => record'[x] = record[x]
<1>1. [kind |-> k, seq |-> n] \in [kind : Kinds, seq : Nat]
  OBVIOUS
<1>2. QED
  BY <1>1 DEF TypeOK

(* A committed record names a stored row of its message.                   *)
LEMMA CommittedIsStored ==
  ASSUME CommittedRecordIsStored, NEW m \in Messages,
         record[m].kind = "committed"
  PROVE  Stored(m)
<1> DEFINE r == [msg |-> m, seq |-> record[m].seq]
<1>1. r \in rows
  BY DEF CommittedRecordIsStored
<1>2. r.msg = m
  OBVIOUS
<1> HIDE DEF r
<1>3. QED
  BY <1>1, <1>2 DEF Stored

(* Every step keeps the types; Save needs the number it inserts.           *)
LEMMA StepTypeOK == TypeOK /\ Numbered /\ [Next]_vars => TypeOK'
<1> SUFFICES ASSUME TypeOK, Numbered, [Next]_vars PROVE TypeOK'
  OBVIOUS
<1> USE DEF TypeOK, Numbered, Steps, Kinds, Replies, At, Goto, Env, redisVars
<1>1. ASSUME NEW c \in Calls, Reserve(c) PROVE TypeOK'
  BY <1>1 DEF Reserve, Return
<1>2. ASSUME NEW c \in Calls, ReserveNX(c) PROVE TypeOK'
  <2>1. CASE record' = [record EXCEPT ![MsgOf[c]] = [kind |-> "sentinel", seq |-> 0]]
    <3>1. record' \in [Messages -> [kind : Kinds, seq : Nat]]
      BY <2>1, RecordWritten
    <3>2. QED
      BY <1>2, <3>1 DEF ReserveNX, Return
  <2>2. CASE UNCHANGED record
    BY <1>2, <2>2 DEF ReserveNX, Return
  <2>3. QED
    BY <1>2, <2>1, <2>2 DEF ReserveNX
<1>3. ASSUME NEW c \in Calls, Lookup(c) PROVE TypeOK'
  BY <1>3 DEF Lookup, Fails
<1>4. ASSUME NEW c \in Calls, Authorize(c) PROVE TypeOK'
  BY <1>4 DEF Authorize, Fails
<1>5. ASSUME NEW c \in Calls, SeqExists(c) PROVE TypeOK'
  BY <1>5 DEF SeqExists, Fails
<1>6. ASSUME NEW c \in Calls, SeqMax(c) PROVE TypeOK'
  BY <1>6 DEF SeqMax, Fails
<1>7. ASSUME NEW c \in Calls, SeqSetMax(c) PROVE TypeOK'
  BY <1>7 DEF SeqSetMax, Fails
<1>8. ASSUME NEW c \in Calls, SeqIncr(c) PROVE TypeOK'
  <2>1. CASE Fails(c)
    BY <1>8, <2>1 DEF SeqIncr, Fails
  <2>2. CASE ~Fails(c)
    BY <1>8, <2>2 DEF SeqIncr
  <2>3. QED
    BY <2>1, <2>2
<1>9. ASSUME NEW c \in Calls, ReserveSeq(c) PROVE TypeOK'
  BY <1>9 DEF ReserveSeq
<1>10. ASSUME NEW c \in Calls, Save(c) PROVE TypeOK'
  BY <1>10 DEF Save, Insert, SeqTaken, Fails
<1>11. ASSUME NEW c \in Calls, Reauthorize(c) PROVE TypeOK'
  BY <1>11 DEF Reauthorize, Fails
<1>12. ASSUME NEW c \in Calls, Accept(c) PROVE TypeOK'
  <2>1. CASE record' = [record EXCEPT ![MsgOf[c]] = [kind |-> "committed", seq |-> seq[c]]]
    <3>1. record' \in [Messages -> [kind : Kinds, seq : Nat]]
      BY <2>1, RecordWritten
    <3>2. QED
      BY <1>12, <3>1 DEF Accept, Return
  <2>2. CASE UNCHANGED record
    BY <1>12, <2>2 DEF Accept, Return
  <2>3. QED
    BY <1>12, <2>1, <2>2 DEF Accept
<1>13. ASSUME NEW c \in Calls, Release(c) PROVE TypeOK'
  BY <1>13 DEF Release, Return
<1>14. ASSUME NEW c \in Calls, ReleaseDel(c) PROVE TypeOK'
  BY <1>14 DEF ReleaseDel, Return, NoRecord
<1>15. ASSUME NEW c \in Calls, Crash(c) PROVE TypeOK'
  BY <1>15 DEF Crash, Return
<1>16. CASE Lose
  BY <1>16 DEF Lose, NoRecord
<1>17. CASE Revoke
  BY <1>17 DEF Revoke
<1>18. CASE UNCHANGED vars
  BY <1>18 DEF vars
<1>19. QED
  BY <1>1, <1>2, <1>3, <1>4, <1>5, <1>6, <1>7, <1>8, <1>9, <1>10, <1>11,
     <1>12, <1>13, <1>14, <1>15, <1>16, <1>17, <1>18 DEF Next, Step

(* Numbers come from INCR, a pending record or a stored row.               *)
LEMMA StepNumbered == TypeOK /\ Numbered /\ [Next]_vars => Numbered'
<1> SUFFICES ASSUME TypeOK, Numbered, [Next]_vars PROVE Numbered'
  OBVIOUS
<1> USE DEF TypeOK, Numbered, Steps, Kinds, At, Goto, Env, redisVars
<1>1. ASSUME NEW c \in Calls, Reserve(c) PROVE Numbered'
  BY <1>1 DEF Reserve, Return
<1>2. ASSUME NEW c \in Calls, ReserveNX(c) PROVE Numbered'
  <2>1. \A d \in Calls : pc'[d] \in {"reserve", "save", "reauthorize", "accept"} => pc'[d] = pc[d]
    BY <1>2 DEF ReserveNX, Return
  <2>2. \A m \in Messages : record'[m].kind = "pending" => record'[m] = record[m]
    BY <1>2 DEF ReserveNX
  <2>3. seq' = seq
    BY <1>2 DEF ReserveNX
  <2>4. QED
    BY <2>1, <2>2, <2>3
<1>3. ASSUME NEW c \in Calls, Lookup(c) PROVE Numbered'
  BY <1>3 DEF Lookup, Fails
<1>4. ASSUME NEW c \in Calls, Authorize(c) PROVE Numbered'
  BY <1>4 DEF Authorize, Fails
<1>5. ASSUME NEW c \in Calls, SeqExists(c) PROVE Numbered'
  BY <1>5 DEF SeqExists, Fails
<1>6. ASSUME NEW c \in Calls, SeqMax(c) PROVE Numbered'
  BY <1>6 DEF SeqMax, Fails
<1>7. ASSUME NEW c \in Calls, SeqSetMax(c) PROVE Numbered'
  BY <1>7 DEF SeqSetMax, Fails
<1>8. ASSUME NEW c \in Calls, SeqIncr(c) PROVE Numbered'
  BY <1>8 DEF SeqIncr, Fails
<1>9. ASSUME NEW c \in Calls, ReserveSeq(c) PROVE Numbered'
  <2>1. CASE record' = [record EXCEPT ![MsgOf[c]] = [kind |-> "pending", seq |-> seq[c]]]
    <3>1. \A m \in Messages : record'[m].kind = "pending" => record'[m].seq > 0
      BY <1>9, <2>1, RecordWritten DEF ReserveSeq
    <3>2. QED
      BY <1>9, <3>1 DEF ReserveSeq
  <2>2. CASE UNCHANGED record
    BY <1>9, <2>2 DEF ReserveSeq
  <2>3. QED
    BY <1>9, <2>1, <2>2 DEF ReserveSeq
<1>10. ASSUME NEW c \in Calls, Save(c) PROVE Numbered'
  BY <1>10 DEF Save, Insert, SeqTaken, Fails
<1>11. ASSUME NEW c \in Calls, Reauthorize(c) PROVE Numbered'
  BY <1>11 DEF Reauthorize, Fails
<1>12. ASSUME NEW c \in Calls, Accept(c) PROVE Numbered'
  <2>1. CASE record' = [record EXCEPT ![MsgOf[c]] = [kind |-> "committed", seq |-> seq[c]]]
    <3>1. \A m \in Messages : record'[m].kind = "pending" => record'[m].seq > 0
      BY <2>1, RecordWritten
    <3>2. QED
      BY <1>12, <3>1 DEF Accept, Return
  <2>2. CASE UNCHANGED record
    BY <1>12, <2>2 DEF Accept, Return
  <2>3. QED
    BY <1>12, <2>1, <2>2 DEF Accept
<1>13. ASSUME NEW c \in Calls, Release(c) PROVE Numbered'
  BY <1>13 DEF Release, Return
<1>14. ASSUME NEW c \in Calls, ReleaseDel(c) PROVE Numbered'
  BY <1>14 DEF ReleaseDel, Return, NoRecord
<1>15. ASSUME NEW c \in Calls, Crash(c) PROVE Numbered'
  BY <1>15 DEF Crash, Return
<1>16. CASE Lose
  BY <1>16 DEF Lose, NoRecord
<1>17. CASE Revoke
  BY <1>17 DEF Revoke
<1>18. CASE UNCHANGED vars
  BY <1>18 DEF vars
<1>19. QED
  BY <1>1, <1>2, <1>3, <1>4, <1>5, <1>6, <1>7, <1>8, <1>9, <1>10, <1>11,
     <1>12, <1>13, <1>14, <1>15, <1>16, <1>17, <1>18 DEF Next, Step

(* Only Accept writes a committed record, for the row it carries.          *)
LEMMA StepCommitted == TypeOK /\ AcceptsStored /\ CommittedRecordIsStored /\ [Next]_vars => CommittedRecordIsStored'
<1> SUFFICES ASSUME TypeOK, AcceptsStored, CommittedRecordIsStored, [Next]_vars PROVE CommittedRecordIsStored'
  OBVIOUS
<1> USE DEF TypeOK, AcceptsStored, CommittedRecordIsStored, Steps, Kinds, At, Goto, Env, redisVars
<1>1. ASSUME NEW c \in Calls, Reserve(c) PROVE CommittedRecordIsStored'
  BY <1>1 DEF Reserve, Return
<1>2. ASSUME NEW c \in Calls, ReserveNX(c) PROVE CommittedRecordIsStored'
  BY <1>2 DEF ReserveNX, Return, NoRecord
<1>3. ASSUME NEW c \in Calls, Lookup(c) PROVE CommittedRecordIsStored'
  BY <1>3 DEF Lookup, Fails
<1>4. ASSUME NEW c \in Calls, Authorize(c) PROVE CommittedRecordIsStored'
  BY <1>4 DEF Authorize, Fails
<1>5. ASSUME NEW c \in Calls, SeqExists(c) PROVE CommittedRecordIsStored'
  BY <1>5 DEF SeqExists, Fails
<1>6. ASSUME NEW c \in Calls, SeqMax(c) PROVE CommittedRecordIsStored'
  BY <1>6 DEF SeqMax, Fails
<1>7. ASSUME NEW c \in Calls, SeqSetMax(c) PROVE CommittedRecordIsStored'
  BY <1>7 DEF SeqSetMax, Fails
<1>8. ASSUME NEW c \in Calls, SeqIncr(c) PROVE CommittedRecordIsStored'
  BY <1>8 DEF SeqIncr, Fails
<1>9. ASSUME NEW c \in Calls, ReserveSeq(c) PROVE CommittedRecordIsStored'
  BY <1>9 DEF ReserveSeq
<1>10. ASSUME NEW c \in Calls, Save(c) PROVE CommittedRecordIsStored'
  BY <1>10 DEF Save, Insert, SeqTaken, Fails
<1>11. ASSUME NEW c \in Calls, Reauthorize(c) PROVE CommittedRecordIsStored'
  BY <1>11 DEF Reauthorize, Fails
<1>12. ASSUME NEW c \in Calls, Accept(c) PROVE CommittedRecordIsStored'
  <2>1. CASE record' = [record EXCEPT ![MsgOf[c]] = [kind |-> "committed", seq |-> seq[c]]]
    <3>1. [msg |-> MsgOf[c], seq |-> seq[c]] \in rows'
      BY <1>12 DEF Accept
    <3>2. ASSUME NEW m \in Messages, record'[m].kind = "committed"
          PROVE  [msg |-> m, seq |-> record'[m].seq] \in rows'
      <4>1. CASE m = MsgOf[c]
        BY <2>1, <3>1, <4>1, RecordWritten
      <4>2. CASE m # MsgOf[c]
        <5>1. record'[m] = record[m]
          BY <2>1, <4>2, RecordWritten
        <5>2. QED
          BY <1>12, <3>2, <5>1 DEF Accept
      <4>3. QED
        BY <4>1, <4>2
    <3>3. QED
      BY <3>2
  <2>2. CASE UNCHANGED record
    BY <1>12, <2>2 DEF Accept
  <2>3. QED
    BY <1>12, <2>1, <2>2 DEF Accept
<1>13. ASSUME NEW c \in Calls, Release(c) PROVE CommittedRecordIsStored'
  BY <1>13 DEF Release, Return
<1>14. ASSUME NEW c \in Calls, ReleaseDel(c) PROVE CommittedRecordIsStored'
  BY <1>14 DEF ReleaseDel, Return, NoRecord
<1>15. ASSUME NEW c \in Calls, Crash(c) PROVE CommittedRecordIsStored'
  BY <1>15 DEF Crash, Return
<1>16. CASE Lose
  <2>1. ASSUME NEW m \in Messages, record' = [record EXCEPT ![m] = NoRecord]
        PROVE  CommittedRecordIsStored'
    <3>1. record'[m].kind = "none" /\ \A x \in Messages : x # m => record'[x] = record[x]
      BY <2>1, RecordWritten DEF NoRecord
    <3>2. QED
      BY <1>16, <3>1 DEF Lose
  <2>2. CASE UNCHANGED record
    BY <1>16, <2>2 DEF Lose
  <2>3. QED
    BY <1>16, <2>1, <2>2 DEF Lose
<1>17. CASE Revoke
  BY <1>17 DEF Revoke
<1>18. CASE UNCHANGED vars
  BY <1>18 DEF vars
<1>19. QED
  BY <1>1, <1>2, <1>3, <1>4, <1>5, <1>6, <1>7, <1>8, <1>9, <1>10, <1>11,
     <1>12, <1>13, <1>14, <1>15, <1>16, <1>17, <1>18 DEF Next, Step

(* Rows are never removed.                                                 *)
LEMMA StepAcceptsStored == TypeOK /\ AcceptsStored /\ [Next]_vars => AcceptsStored'
<1> SUFFICES ASSUME TypeOK, AcceptsStored, [Next]_vars PROVE AcceptsStored'
  OBVIOUS
<1> USE DEF TypeOK, AcceptsStored, Steps, Stored, At, Goto, Env, redisVars
<1>1. ASSUME NEW c \in Calls, Reserve(c) PROVE AcceptsStored'
  BY <1>1 DEF Reserve, Return
<1>2. ASSUME NEW c \in Calls, ReserveNX(c) PROVE AcceptsStored'
  BY <1>2 DEF ReserveNX, Return, NoRecord
<1>3. ASSUME NEW c \in Calls, Lookup(c) PROVE AcceptsStored'
  BY <1>3 DEF Lookup, Fails
<1>4. ASSUME NEW c \in Calls, Authorize(c) PROVE AcceptsStored'
  BY <1>4 DEF Authorize, Fails
<1>5. ASSUME NEW c \in Calls, SeqExists(c) PROVE AcceptsStored'
  BY <1>5 DEF SeqExists, Fails
<1>6. ASSUME NEW c \in Calls, SeqMax(c) PROVE AcceptsStored'
  BY <1>6 DEF SeqMax, Fails
<1>7. ASSUME NEW c \in Calls, SeqSetMax(c) PROVE AcceptsStored'
  BY <1>7 DEF SeqSetMax, Fails
<1>8. ASSUME NEW c \in Calls, SeqIncr(c) PROVE AcceptsStored'
  BY <1>8 DEF SeqIncr, Fails
<1>9. ASSUME NEW c \in Calls, ReserveSeq(c) PROVE AcceptsStored'
  BY <1>9 DEF ReserveSeq
<1>10. ASSUME NEW c \in Calls, Save(c) PROVE AcceptsStored'
  BY <1>10 DEF Save, Insert, SeqTaken, Fails
<1>11. ASSUME NEW c \in Calls, Reauthorize(c) PROVE AcceptsStored'
  BY <1>11 DEF Reauthorize, Fails
<1>12. ASSUME NEW c \in Calls, Accept(c) PROVE AcceptsStored'
  BY <1>12 DEF Accept, Return
<1>13. ASSUME NEW c \in Calls, Release(c) PROVE AcceptsStored'
  BY <1>13 DEF Release, Return
<1>14. ASSUME NEW c \in Calls, ReleaseDel(c) PROVE AcceptsStored'
  BY <1>14 DEF ReleaseDel, Return, NoRecord
<1>15. ASSUME NEW c \in Calls, Crash(c) PROVE AcceptsStored'
  BY <1>15 DEF Crash, Return
<1>16. CASE Lose
  BY <1>16 DEF Lose, NoRecord
<1>17. CASE Revoke
  BY <1>17 DEF Revoke
<1>18. CASE UNCHANGED vars
  BY <1>18 DEF vars
<1>19. QED
  BY <1>1, <1>2, <1>3, <1>4, <1>5, <1>6, <1>7, <1>8, <1>9, <1>10, <1>11,
     <1>12, <1>13, <1>14, <1>15, <1>16, <1>17, <1>18 DEF Next, Step

(* The two ways to answer ok: a committed record, and Accept.              *)
LEMMA StepReplies == TypeOK /\ CommittedRecordIsStored /\ AcceptsStored /\ RepliesAreTrue /\ [Next]_vars => RepliesAreTrue'
<1> SUFFICES ASSUME TypeOK, CommittedRecordIsStored, AcceptsStored, RepliesAreTrue, [Next]_vars PROVE RepliesAreTrue'
  OBVIOUS
<1> USE DEF TypeOK, CommittedRecordIsStored, AcceptsStored, RepliesAreTrue, Steps, Replies, Stored, At, Goto, Env, redisVars
<1>1. ASSUME NEW c \in Calls, Reserve(c) PROVE RepliesAreTrue'
  <2>1. CASE record[MsgOf[c]].kind = "committed" /\ Return(c, "ok")
    <3>1. Stored(MsgOf[c])
      BY <2>1, CommittedIsStored
    <3>2. QED
      BY <1>1, <2>1, <3>1 DEF Reserve, Return
  <2>2. CASE \E r \in {"inflight", "error"} : Return(c, r)
    BY <1>1, <2>2 DEF Reserve, Return
  <2>3. CASE UNCHANGED reply /\ \E step \in {"setnx", "lookup"} : Goto(c, step)
    BY <1>1, <2>3 DEF Reserve
  <2>4. QED
    BY <1>1, <2>1, <2>2, <2>3 DEF Reserve
<1>2. ASSUME NEW c \in Calls, ReserveNX(c) PROVE RepliesAreTrue'
  BY <1>2 DEF ReserveNX, Return, NoRecord
<1>3. ASSUME NEW c \in Calls, Lookup(c) PROVE RepliesAreTrue'
  BY <1>3 DEF Lookup, Fails
<1>4. ASSUME NEW c \in Calls, Authorize(c) PROVE RepliesAreTrue'
  BY <1>4 DEF Authorize, Fails
<1>5. ASSUME NEW c \in Calls, SeqExists(c) PROVE RepliesAreTrue'
  BY <1>5 DEF SeqExists, Fails
<1>6. ASSUME NEW c \in Calls, SeqMax(c) PROVE RepliesAreTrue'
  BY <1>6 DEF SeqMax, Fails
<1>7. ASSUME NEW c \in Calls, SeqSetMax(c) PROVE RepliesAreTrue'
  BY <1>7 DEF SeqSetMax, Fails
<1>8. ASSUME NEW c \in Calls, SeqIncr(c) PROVE RepliesAreTrue'
  BY <1>8 DEF SeqIncr, Fails
<1>9. ASSUME NEW c \in Calls, ReserveSeq(c) PROVE RepliesAreTrue'
  BY <1>9 DEF ReserveSeq
<1>10. ASSUME NEW c \in Calls, Save(c) PROVE RepliesAreTrue'
  BY <1>10 DEF Save, Insert, SeqTaken, Fails
<1>11. ASSUME NEW c \in Calls, Reauthorize(c) PROVE RepliesAreTrue'
  BY <1>11 DEF Reauthorize, Fails
<1>12. ASSUME NEW c \in Calls, Accept(c) PROVE RepliesAreTrue'
  BY <1>12 DEF Accept, Return
<1>13. ASSUME NEW c \in Calls, Release(c) PROVE RepliesAreTrue'
  BY <1>13 DEF Release, Return
<1>14. ASSUME NEW c \in Calls, ReleaseDel(c) PROVE RepliesAreTrue'
  BY <1>14 DEF ReleaseDel, Return, NoRecord
<1>15. ASSUME NEW c \in Calls, Crash(c) PROVE RepliesAreTrue'
  BY <1>15 DEF Crash, Return
<1>16. CASE Lose
  BY <1>16 DEF Lose, NoRecord
<1>17. CASE Revoke
  BY <1>17 DEF Revoke
<1>18. CASE UNCHANGED vars
  BY <1>18 DEF vars
<1>19. QED
  BY <1>1, <1>2, <1>3, <1>4, <1>5, <1>6, <1>7, <1>8, <1>9, <1>10, <1>11,
     <1>12, <1>13, <1>14, <1>15, <1>16, <1>17, <1>18 DEF Next, Step

(* Every way past authorize and reauthorize needs the permission.          *)
LEMMA StepRevoked == TypeOK /\ RevokedStaysOut /\ [Next]_vars => RevokedStaysOut'
<1> SUFFICES ASSUME TypeOK, RevokedStaysOut, [Next]_vars PROVE RevokedStaysOut'
  OBVIOUS
<1> USE DEF TypeOK, RevokedStaysOut, Steps, At, Goto, Env, redisVars
<1>1. ASSUME NEW c \in Calls, Reserve(c) PROVE RevokedStaysOut'
  BY <1>1 DEF Reserve, Return
<1>2. ASSUME NEW c \in Calls, ReserveNX(c) PROVE RevokedStaysOut'
  BY <1>2 DEF ReserveNX, Return, NoRecord
<1>3. ASSUME NEW c \in Calls, Lookup(c) PROVE RevokedStaysOut'
  BY <1>3 DEF Lookup, Fails
<1>4. ASSUME NEW c \in Calls, Authorize(c) PROVE RevokedStaysOut'
  BY <1>4 DEF Authorize, Fails
<1>5. ASSUME NEW c \in Calls, SeqExists(c) PROVE RevokedStaysOut'
  BY <1>5 DEF SeqExists, Fails
<1>6. ASSUME NEW c \in Calls, SeqMax(c) PROVE RevokedStaysOut'
  BY <1>6 DEF SeqMax, Fails
<1>7. ASSUME NEW c \in Calls, SeqSetMax(c) PROVE RevokedStaysOut'
  BY <1>7 DEF SeqSetMax, Fails
<1>8. ASSUME NEW c \in Calls, SeqIncr(c) PROVE RevokedStaysOut'
  BY <1>8 DEF SeqIncr, Fails
<1>9. ASSUME NEW c \in Calls, ReserveSeq(c) PROVE RevokedStaysOut'
  BY <1>9 DEF ReserveSeq
<1>10. ASSUME NEW c \in Calls, Save(c) PROVE RevokedStaysOut'
  BY <1>10 DEF Save, Insert, SeqTaken, Fails
<1>11. ASSUME NEW c \in Calls, Reauthorize(c) PROVE RevokedStaysOut'
  BY <1>11 DEF Reauthorize, Fails
<1>12. ASSUME NEW c \in Calls, Accept(c) PROVE RevokedStaysOut'
  BY <1>12 DEF Accept, Return
<1>13. ASSUME NEW c \in Calls, Release(c) PROVE RevokedStaysOut'
  BY <1>13 DEF Release, Return
<1>14. ASSUME NEW c \in Calls, ReleaseDel(c) PROVE RevokedStaysOut'
  BY <1>14 DEF ReleaseDel, Return, NoRecord
<1>15. ASSUME NEW c \in Calls, Crash(c) PROVE RevokedStaysOut'
  BY <1>15 DEF Crash, Return
<1>16. CASE Lose
  BY <1>16 DEF Lose, NoRecord
<1>17. CASE Revoke
  BY <1>17 DEF Revoke
<1>18. CASE UNCHANGED vars
  BY <1>18 DEF vars
<1>19. QED
  BY <1>1, <1>2, <1>3, <1>4, <1>5, <1>6, <1>7, <1>8, <1>9, <1>10, <1>11,
     <1>12, <1>13, <1>14, <1>15, <1>16, <1>17, <1>18 DEF Next, Step

LEMMA InitIInv == Init => IInv
<1> SUFFICES ASSUME Init PROVE IInv
  OBVIOUS
<1>1. TypeOK
  BY DEF Init, TypeOK, Steps, Kinds, Replies, NoRecord
<1>2. Numbered /\ CommittedRecordIsStored /\ AcceptsStored /\ RepliesAreTrue /\ RevokedStaysOut
  BY DEF Init, Numbered, CommittedRecordIsStored, AcceptsStored, RepliesAreTrue,
         RevokedStaysOut, NoRecord
<1>3. QED
  BY <1>1, <1>2 DEF IInv

LEMMA StepIInv == IInv /\ [Next]_vars => IInv'
BY StepTypeOK, StepNumbered, StepCommitted, StepAcceptsStored, StepReplies, StepRevoked
   DEF IInv

(* The strengthening holds in every reachable state.                       *)
LEMMA Invariance == Spec => []IInv
BY InitIInv, StepIInv, PTL DEF Spec

(* The state variables keep their types (TypeOK).                          *)
THEOREM TypeCorrect == Spec => []TypeOK
<1>1. IInv => TypeOK
  BY DEF IInv
<1>2. QED
  BY <1>1, Invariance, PTL

(* The duplicate short-cut of reserveClientMessage never answers ok for a  *)
(* message that is not in MySQL.                                           *)
THEOREM ShortCutIsSafe == Spec => []CommittedRecordIsStored
<1>1. IInv => CommittedRecordIsStored
  BY DEF IInv
<1>2. QED
  BY <1>1, Invariance, PTL

(* No call that started after the permission was withdrawn reaches the     *)
(* delivery, on any of the three paths of PushMessage.                     *)
THEOREM RevokedCallsFail == Spec => []FailClosed
<1>1. IInv => FailClosed
  BY DEF IInv, RevokedStaysOut, FailClosed, At
<1>2. QED
  BY <1>1, Invariance, PTL

-----------------------------------------------------------------------------
(* A reply of a call that had not replied adds at most its own message.    *)
LEMMA AckedByReply ==
  ASSUME TypeOK, RepliesAreTrue, NEW c \in Calls, NEW r \in Replies,
         pc[c] # "returned", reply' = [reply EXCEPT ![c] = r]
  PROVE  Acked' = IF r = "ok" THEN Acked \cup {MsgOf[c]} ELSE Acked
<1>1. reply[c] # "ok"
  BY DEF RepliesAreTrue
<1>2. \A d \in Calls : reply'[d] = IF d = c THEN r ELSE reply[d]
  BY DEF TypeOK
<1>3. CASE r = "ok"
  BY <1>1, <1>2, <1>3 DEF Acked
<1>4. CASE r # "ok"
  BY <1>1, <1>2, <1>4 DEF Acked
<1>5. QED
  BY <1>3, <1>4

(* A reply with the rows unchanged acknowledges a stored message or        *)
(* changes nothing.                                                        *)
LEMMA ReplyKeepsLedger ==
  ASSUME TypeOK, RepliesAreTrue, NEW c \in Calls, NEW r \in Replies,
         pc[c] # "returned", Return(c, r), UNCHANGED rows,
         r = "ok" => Stored(MsgOf[c])
  PROVE  [Ledger!Next]_(Ledger!vars)
<1>1. Acked' = IF r = "ok" THEN Acked \cup {MsgOf[c]} ELSE Acked
  BY AckedByReply DEF Return
<1>2. CASE r = "ok"
  <2>1. Ledger!Acknowledge(MsgOf[c])
    BY <1>1, <1>2 DEF Ledger!Acknowledge, Stored
  <2>2. QED
    BY <2>1 DEF Ledger!Next
<1>3. CASE r # "ok"
  BY <1>1, <1>3 DEF Ledger!vars
<1>4. QED
  BY <1>2, <1>3

(* Steps that neither store nor reply stutter.                             *)
LEMMA QuietStep ==
  ASSUME UNCHANGED <<rows, reply>>
  PROVE  UNCHANGED Ledger!vars
BY DEF Ledger!vars, Acked

(* The INSERT that succeeds is the only step that adds an entry.           *)
LEMMA SaveKeepsLedger ==
  ASSUME IInv, NEW c \in Calls, Save(c)
  PROVE  [Ledger!Next]_(Ledger!vars)
<1>1. CASE ~SeqTaken(seq[c]) /\ ~Stored(MsgOf[c]) /\ Insert(c) /\ UNCHANGED reply
  <2> DEFINE r == [msg |-> MsgOf[c], seq |-> seq[c]]
  <2>1. r \in Ledger!Entries
    BY DEF IInv, TypeOK, Ledger!Entries
  <2>2. \A s \in rows : s.msg # r.msg /\ s.seq # r.seq
    BY <1>1 DEF SeqTaken, Stored
  <2>3. rows' = rows \cup {r} /\ Acked' = Acked
    BY <1>1 DEF Insert, Acked
  <2>4. Ledger!Record
    BY <2>1, <2>2, <2>3 DEF Ledger!Record
  <2>5. QED
    BY <2>4 DEF Ledger!Next
<1>2. CASE UNCHANGED <<rows, reply>>
  BY <1>2, QuietStep
<1>3. QED
  BY <1>1, <1>2 DEF Save, Fails

(* Every step is a step of the ledger or a stutter.                        *)
LEMMA StepKeepsLedger ==
  IInv /\ [Next]_vars => [Ledger!Next]_(Ledger!vars)
<1> SUFFICES ASSUME IInv, [Next]_vars PROVE [Ledger!Next]_(Ledger!vars)
  OBVIOUS
<1> USE DEF At, Replies
<1>0. TypeOK /\ RepliesAreTrue
  BY DEF IInv
<1>1. ASSUME NEW c \in Calls, Reserve(c) PROVE [Ledger!Next]_(Ledger!vars)
  <2>1. CASE \E r \in {"inflight", "error"} : Return(c, r)
    BY <1>0, <1>1, <2>1, ReplyKeepsLedger DEF Reserve
  <2>2. CASE record[MsgOf[c]].kind = "committed" /\ Return(c, "ok")
    <3>1. Stored(MsgOf[c])
      BY <2>2, CommittedIsStored DEF IInv
    <3>2. QED
      BY <1>0, <1>1, <2>2, <3>1, ReplyKeepsLedger DEF Reserve
  <2>3. CASE UNCHANGED reply
    BY <1>1, <2>3, QuietStep DEF Reserve
  <2>4. QED
    BY <1>1, <2>1, <2>2, <2>3 DEF Reserve
<1>2. ASSUME NEW c \in Calls, ReserveNX(c) PROVE [Ledger!Next]_(Ledger!vars)
  <2>1. CASE \E r \in {"inflight", "error"} : Return(c, r)
    BY <1>0, <1>2, <2>1, ReplyKeepsLedger DEF ReserveNX
  <2>2. CASE UNCHANGED reply
    BY <1>2, <2>2, QuietStep DEF ReserveNX
  <2>3. QED
    BY <1>2, <2>1, <2>2 DEF ReserveNX
<1>3. ASSUME NEW c \in Calls, Lookup(c) PROVE [Ledger!Next]_(Ledger!vars)
  BY <1>3, QuietStep DEF Lookup, Fails
<1>4. ASSUME NEW c \in Calls, Authorize(c) PROVE [Ledger!Next]_(Ledger!vars)
  BY <1>4, QuietStep DEF Authorize, Fails
<1>5. ASSUME NEW c \in Calls, SeqExists(c) PROVE [Ledger!Next]_(Ledger!vars)
  BY <1>5, QuietStep DEF SeqExists, Fails
<1>6. ASSUME NEW c \in Calls, SeqMax(c) PROVE [Ledger!Next]_(Ledger!vars)
  BY <1>6, QuietStep DEF SeqMax, Fails
<1>7. ASSUME NEW c \in Calls, SeqSetMax(c) PROVE [Ledger!Next]_(Ledger!vars)
  BY <1>7, QuietStep DEF SeqSetMax, Fails
<1>8. ASSUME NEW c \in Calls, SeqIncr(c) PROVE [Ledger!Next]_(Ledger!vars)
  BY <1>8, QuietStep DEF SeqIncr, Fails
<1>9. ASSUME NEW c \in Calls, ReserveSeq(c) PROVE [Ledger!Next]_(Ledger!vars)
  BY <1>9, QuietStep DEF ReserveSeq
<1>10. ASSUME NEW c \in Calls, Save(c) PROVE [Ledger!Next]_(Ledger!vars)
  BY <1>10, SaveKeepsLedger
<1>11. ASSUME NEW c \in Calls, Reauthorize(c) PROVE [Ledger!Next]_(Ledger!vars)
  BY <1>11, QuietStep DEF Reauthorize, Fails
<1>12. ASSUME NEW c \in Calls, Accept(c) PROVE [Ledger!Next]_(Ledger!vars)
  <2>1. Stored(MsgOf[c])
    BY <1>12 DEF IInv, AcceptsStored, Stored, Accept
  <2>2. QED
    BY <1>0, <1>12, <2>1, ReplyKeepsLedger DEF Accept
<1>13. ASSUME NEW c \in Calls, Release(c) PROVE [Ledger!Next]_(Ledger!vars)
  <2>1. CASE Return(c, "error")
    BY <1>0, <1>13, <2>1, ReplyKeepsLedger DEF Release
  <2>2. CASE UNCHANGED reply
    BY <1>13, <2>2, QuietStep DEF Release
  <2>3. QED
    BY <1>13, <2>1, <2>2 DEF Release
<1>14. ASSUME NEW c \in Calls, ReleaseDel(c) PROVE [Ledger!Next]_(Ledger!vars)
  BY <1>0, <1>14, ReplyKeepsLedger DEF ReleaseDel
<1>15. ASSUME NEW c \in Calls, Crash(c) PROVE [Ledger!Next]_(Ledger!vars)
  BY <1>0, <1>15, ReplyKeepsLedger DEF Crash
<1>16. CASE Lose \/ Revoke \/ UNCHANGED vars
  BY <1>16, QuietStep DEF Lose, Revoke, vars
<1>17. QED
  BY <1>1, <1>2, <1>3, <1>4, <1>5, <1>6, <1>7, <1>8, <1>9, <1>10, <1>11,
     <1>12, <1>13, <1>14, <1>15, <1>16 DEF Next, Step

(* PushMessage implements MessageLedger: a client message is stored at     *)
(* most once, under a number of its own, and only stored messages are      *)
(* acknowledged.                                                           *)
THEOREM KeepsLedger == Spec => ImplementsLedger
<1>1. Init => Ledger!Init
  BY DEF Init, Ledger!Init, Acked
<1>2. QED
  BY <1>1, Invariance, StepKeepsLedger, PTL DEF Spec, ImplementsLedger, Ledger!Spec

-----------------------------------------------------------------------------
(* ConversationOutbox.                                                     *)

\* The conversation's summary and the cursors of a chat's ends have e.
SummaryHas(e) == lastSeq[SessionOf[e]] >= SeqOf[e]

CursorsHave(e) ==
  SessionOf[e] \notin groups =>
    \A u \in Members(e) : readSeq[SessionOf[e]][u] >= ReadBy(e, u)

(* What a worker has written of the event it works on is there, and so is  *)
(* what a settled row stands for.                                          *)
WrittenIsThere ==
  \A w \in Workers, e \in Events : Current(w, e) =>
    /\ stage[w] \in {"members", "done"} => SummaryHas(e)
    /\ stage[w] = "done" => CursorsHave(e)

DoneIsThere == \A e \in Events : status[e] = "done" => SummaryHas(e) /\ CursorsHave(e)

SummaryInv == SummaryTypeOK /\ WrittenIsThere /\ DoneIsThere

-----------------------------------------------------------------------------
LEMMA LargerOf ==
  ASSUME NEW a \in Int, NEW b \in Int
  PROVE  /\ Max({a, b}) \in {a, b}
         /\ Max({a, b}) >= a /\ Max({a, b}) >= b
<1>1. \E x \in {a, b} : \A y \in {a, b} : x >= y
  OBVIOUS
<1>2. Max({a, b}) \in {a, b} /\ \A y \in {a, b} : Max({a, b}) >= y
  BY <1>1 DEF Max
<1>3. QED
  BY <1>2

\* The loop works on one event at a time.
LEMMA CurrentIsOne ==
  ASSUME SummaryTypeOK, NEW w \in Workers, NEW e \in Events, NEW f \in Events,
         Current(w, e), Current(w, f)
  PROVE  e = f
BY ConversationOutboxAssumption DEF Current

LEMMA InitSummaryInv == SummaryInit => SummaryInv
<1> SUFFICES ASSUME SummaryInit PROVE SummaryInv
  OBVIOUS
<1>1. SummaryTypeOK
  BY ConversationOutboxAssumption DEF SummaryInit, SummaryTypeOK, Stages, NoRow
<1>2. WrittenIsThere /\ DoneIsThere
  BY DEF SummaryInit, WrittenIsThere, DoneIsThere
<1>3. QED
  BY <1>1, <1>2 DEF SummaryInv

LEMMA NextEventTypes ==
  ASSUME SummaryTypeOK, NEW w \in Workers, NEW e \in Events, NextEvent(w, e)
  PROVE  /\ stage' \in [Workers -> Stages] /\ batch' \in [Workers -> SUBSET Events]
         /\ readAttempts' \in [Workers -> [Events -> Nat]]
BY DEF NextEvent, SummaryTypeOK, Stages

LEMMA FoldInTypes ==
  ASSUME SummaryTypeOK, NEW e \in Events, FoldIn(e)
  PROVE  /\ lastSeq' \in [Sessions -> Nat] /\ updatedAt' \in [Sessions -> Nat]
         /\ lastSeq'[SessionOf[e]] >= SeqOf[e]
         /\ \A s \in Sessions : lastSeq'[s] >= lastSeq[s]
<1>1. /\ SessionOf[e] \in Sessions /\ SeqOf[e] \in Nat /\ SentAtOf[e] \in Nat
      /\ lastSeq \in [Sessions -> Nat] /\ updatedAt \in [Sessions -> Nat]
  BY ConversationOutboxAssumption DEF SummaryTypeOK
<1>2. PICK n : n = Max({lastSeq[SessionOf[e]], SeqOf[e]})
  OBVIOUS
<1>3. n \in Nat /\ n >= lastSeq[SessionOf[e]] /\ n >= SeqOf[e]
  <2>1. /\ lastSeq[SessionOf[e]] \in Nat /\ SeqOf[e] \in Nat
        /\ lastSeq[SessionOf[e]] \in Int /\ SeqOf[e] \in Int
    BY <1>1
  <2>2. n \in {lastSeq[SessionOf[e]], SeqOf[e]} /\ n >= lastSeq[SessionOf[e]] /\ n >= SeqOf[e]
    BY <1>2, <2>1, LargerOf
  <2>3. QED
    BY <2>1, <2>2
<1>4. lastSeq' = [lastSeq EXCEPT ![SessionOf[e]] = n]
  BY <1>2 DEF FoldIn
<1>5. updatedAt' \in [Sessions -> Nat]
  BY <1>1 DEF FoldIn
<1>6. lastSeq' \in [Sessions -> Nat] /\ lastSeq'[SessionOf[e]] = n
  BY <1>1, <1>3, <1>4
<1>7. \A s \in Sessions : lastSeq'[s] >= lastSeq[s]
  <2> TAKE s \in Sessions
  <2>1. lastSeq[s] \in Nat /\ (s # SessionOf[e] => lastSeq'[s] = lastSeq[s])
    BY <1>1, <1>4
  <2>2. QED
    BY <1>3, <1>6, <2>1
<1>8. QED
  BY <1>3, <1>5, <1>6, <1>7

LEMMA MembersTypes ==
  ASSUME SummaryTypeOK, NEW w \in Workers, NEW e \in Events, PersistMembers(w, e)
  PROVE  /\ readSeq' \in [Sessions -> [Users -> Nat \cup {NoRow}]]
         /\ \A s \in Sessions, u \in Users : readSeq'[s][u] >= readSeq[s][u]
         /\ stage' \in [Workers -> Stages] /\ stage'[w] \in {"done", "failed"}
         /\ \A v \in Workers \ {w} : stage'[v] = stage[v]
         /\ stage'[w] = "done" =>
              \A u \in Members(e) : readSeq'[SessionOf[e]][u] >= ReadBy(e, u)
<1>1. /\ SessionOf[e] \in Sessions /\ SeqOf[e] \in Nat /\ Members(e) \subseteq Users
      /\ readSeq \in [Sessions -> [Users -> Nat \cup {NoRow}]] /\ stage \in [Workers -> Stages]
  BY ConversationOutboxAssumption DEF SummaryTypeOK, Members
<1>2. NoRow \in Int /\ \A u \in Users : ReadBy(e, u) \in Nat
  BY <1>1 DEF NoRow, ReadBy
<1>3. PICK written \in SUBSET Members(e) :
        /\ readSeq' = [readSeq EXCEPT ![SessionOf[e]] = [u \in Users |->
             IF u \in written THEN Max({@[u], ReadBy(e, u)}) ELSE @[u]]]
        /\ stage' = [stage EXCEPT ![w] = IF written = Members(e) THEN "done" ELSE "failed"]
  BY DEF PersistMembers, MoveTo
<1>4. PICK col : col = [u \in Users |->
        IF u \in written THEN Max({readSeq[SessionOf[e]][u], ReadBy(e, u)})
        ELSE readSeq[SessionOf[e]][u]]
  OBVIOUS
<1>5. \A u \in Users : readSeq[SessionOf[e]][u] \in Nat \cup {NoRow}
  BY <1>1
<1>6. \A u \in Users :
        /\ col[u] \in Nat \cup {NoRow} /\ col[u] >= readSeq[SessionOf[e]][u]
        /\ u \in written => col[u] >= ReadBy(e, u)
  <2> TAKE u \in Users
  <2>1. CASE u \in written
    <3>1. col[u] = Max({readSeq[SessionOf[e]][u], ReadBy(e, u)})
      BY <1>4, <2>1
    <3>2. readSeq[SessionOf[e]][u] \in Int /\ ReadBy(e, u) \in Int
      BY <1>2, <1>5
    <3>3. /\ col[u] \in {readSeq[SessionOf[e]][u], ReadBy(e, u)}
          /\ col[u] >= readSeq[SessionOf[e]][u] /\ col[u] >= ReadBy(e, u)
      BY <3>1, <3>2, LargerOf
    <3>4. QED
      BY <1>2, <1>5, <3>3
  <2>2. CASE u \notin written
    <3>1. col[u] = readSeq[SessionOf[e]][u]
      BY <1>4, <2>2
    <3>2. QED
      BY <1>2, <1>5, <2>2, <3>1
  <2>3. QED
    BY <2>1, <2>2
<1>7. col \in [Users -> Nat \cup {NoRow}]
  BY <1>4, <1>6
<1>8. readSeq' = [readSeq EXCEPT ![SessionOf[e]] = col]
  BY <1>3, <1>4
<1>9. /\ readSeq' \in [Sessions -> [Users -> Nat \cup {NoRow}]]
      /\ readSeq'[SessionOf[e]] = col
      /\ \A s \in Sessions \ {SessionOf[e]} : readSeq'[s] = readSeq[s]
  BY <1>1, <1>7, <1>8
<1>10. \A s \in Sessions, u \in Users : readSeq'[s][u] >= readSeq[s][u]
  <2> TAKE s \in Sessions, u \in Users
  <2>1. readSeq[s][u] \in Int
    BY <1>1, <1>2
  <2>2. QED
    BY <1>6, <1>9, <2>1
<1>11. /\ stage' \in [Workers -> Stages] /\ stage'[w] \in {"done", "failed"}
       /\ \A v \in Workers \ {w} : stage'[v] = stage[v]
       /\ stage'[w] = "done" => written = Members(e)
  BY <1>1, <1>3 DEF Stages
<1>12. QED
  BY <1>1, <1>6, <1>9, <1>10, <1>11

LEMMA SummaryTypesStep ==
  ASSUME SummaryTypeOK, [SummaryNext]_conversationVars
  PROVE  SummaryTypeOK'
<1> USE ConversationOutboxAssumption DEF SummaryTypeOK
<1>1. ASSUME NEW e \in Events, Enqueue(e) \/ BecomeDue(e) PROVE SummaryTypeOK'
  BY <1>1 DEF Enqueue, BecomeDue, summaryVars, workerVars
<1>2. ASSUME NEW e \in Events, Stall(e) PROVE SummaryTypeOK'
  <2>1. disruptions' \in 0..MaxDisruptions
    BY <1>2 DEF Stall, Disrupt
  <2>2. QED
    BY <1>2, <2>1 DEF Stall, summaryVars, workerVars
<1>3. ASSUME NEW w \in Workers, LoadBatch(w) PROVE SummaryTypeOK'
  <2>1. PICK first \in SUBSET Events :
          /\ batch' = [batch EXCEPT ![w] = first]
          /\ readAttempts' = [readAttempts EXCEPT
               ![w] = [e \in Events |-> IF e \in first THEN attempts[e] ELSE 0]]
    BY <1>3 DEF LoadBatch
  <2>2. stage' \in [Workers -> Stages]
    BY <1>3 DEF LoadBatch, MoveTo, Stages
  <2>3. readAttempts' \in [Workers -> [Events -> Nat]]
    BY <2>1
  <2>4. QED
    BY <1>3, <2>1, <2>2, <2>3 DEF LoadBatch, rowVars, summaryVars
<1>4. ASSUME NEW w \in Workers, NEW e \in Events, Claim(w, e) PROVE SummaryTypeOK'
  <2>1. CASE Ready(e)
    <3>1. stage' \in [Workers -> Stages]
      <4>1. stage' = [stage EXCEPT ![w] = "summary"]
        BY <1>4, <2>1 DEF Claim, MoveTo
      <4>2. QED
        BY <4>1 DEF Stages
    <3>2. status' \in [Events -> {"absent", "pending", "processing", "done", "dead"}]
      BY <1>4, <2>1 DEF Claim
    <3>3. attempts' \in [Events -> Nat] /\ due' \in [Events -> BOOLEAN]
      <4>1. /\ attempts' = [attempts EXCEPT ![e] = attempts[e] + 1]
            /\ due' = [due EXCEPT ![e] = FALSE]
        BY <1>4, <2>1 DEF Claim
      <4>2. attempts[e] + 1 \in Nat
        OBVIOUS
      <4>3. QED
        BY <4>1, <4>2
    <3>4. UNCHANGED <<groups, summaryVars, batch, readAttempts, disruptions>>
      BY <1>4, <2>1 DEF Claim
    <3>5. QED
      BY <3>1, <3>2, <3>3, <3>4 DEF summaryVars
  <2>2. CASE ~Ready(e)
    BY <1>4, <2>2, NextEventTypes DEF Claim, rowVars, summaryVars
  <2>3. QED
    BY <2>1, <2>2
<1>5. ASSUME NEW w \in Workers, NEW e \in Events, PersistSummary(w, e) \/ PersistFails(w, e)
      PROVE  SummaryTypeOK'
  <2>1. stage' \in [Workers -> Stages]
    BY <1>5 DEF PersistSummary, PersistFails, MoveTo, Stages
  <2>2. lastSeq' \in [Sessions -> Nat] /\ updatedAt' \in [Sessions -> Nat]
    BY <1>5, FoldInTypes DEF PersistSummary, PersistFails
  <2>3. QED
    BY <1>5, <2>1, <2>2 DEF PersistSummary, PersistFails, rowVars
<1>6. ASSUME NEW w \in Workers, NEW e \in Events, PersistMembers(w, e) PROVE SummaryTypeOK'
  BY <1>6, MembersTypes DEF PersistMembers, rowVars
<1>7. ASSUME NEW w \in Workers, NEW e \in Events, Reschedule(w, e) \/ Complete(w, e)
      PROVE  SummaryTypeOK'
  <2>1. /\ stage' \in [Workers -> Stages] /\ batch' \in [Workers -> SUBSET Events]
        /\ readAttempts' \in [Workers -> [Events -> Nat]]
    BY <1>7, NextEventTypes DEF Reschedule, Complete
  <2>2. /\ status' \in [Events -> {"absent", "pending", "processing", "done", "dead"}]
        /\ due' \in [Events -> BOOLEAN]
    <3>1. CASE Reschedule(w, e)
      <4>1. Outcome(w, e) \in {"dead", "pending"} /\ (Outcome(w, e) = "dead") \in BOOLEAN
        BY DEF Outcome
      <4>2. QED
        BY <3>1, <4>1 DEF Reschedule
    <3>2. CASE Complete(w, e)
      BY <3>2 DEF Complete
    <3>3. QED
      BY <1>7, <3>1, <3>2
  <2>3. UNCHANGED <<groups, attempts, lastSeq, updatedAt, readSeq, disruptions>>
    BY <1>7 DEF Reschedule, Complete, summaryVars
  <2>4. QED
    BY <2>1, <2>2, <2>3
<1>8. ASSUME NEW w \in Workers, WorkerDies(w) PROVE SummaryTypeOK'
  <2>1. disruptions' \in 0..MaxDisruptions
    BY <1>8 DEF WorkerDies, Disrupt
  <2>2. QED
    BY <1>8, <2>1 DEF WorkerDies, MoveTo, Stages, rowVars, summaryVars
<1>9. CASE UNCHANGED conversationVars
  BY <1>9 DEF conversationVars, rowVars, summaryVars, workerVars
<1>10. QED
  BY <1>1, <1>2, <1>3, <1>4, <1>5, <1>6, <1>7, <1>8, <1>9 DEF SummaryNext, Work

(* Nothing takes the summary or a cursor back: what they have, they keep.  *)
LEMMA SummaryGrows ==
  ASSUME SummaryTypeOK, [SummaryNext]_conversationVars, NEW e \in Events
  PROVE  /\ SummaryHas(e) => SummaryHas(e)'
         /\ CursorsHave(e) => CursorsHave(e)'
<1>1. /\ SessionOf[e] \in Sessions /\ SeqOf[e] \in Nat /\ Members(e) \subseteq Users
      /\ \A s \in Sessions : lastSeq[s] \in Nat
      /\ \A s \in Sessions, u \in Users : readSeq[s][u] \in Int
      /\ \A u \in Users : ReadBy(e, u) \in Int
  BY ConversationOutboxAssumption DEF SummaryTypeOK, Members, ReadBy, NoRow
<1>2. SummaryTypeOK'
  BY SummaryTypesStep
<1>3. \A s \in Sessions : lastSeq'[s] \in Nat /\ \A u \in Users : readSeq'[s][u] \in Int
  BY <1>2 DEF SummaryTypeOK, NoRow
<1>4. UNCHANGED groups
  BY DEF SummaryNext, Enqueue, BecomeDue, Stall, LoadBatch, Work, Claim, PersistSummary, PersistMembers,
         PersistFails, Reschedule, Complete, WorkerDies, conversationVars, rowVars
<1>5. \A s \in Sessions : lastSeq'[s] >= lastSeq[s]
  <2>1. UNCHANGED lastSeq \/ \E f \in Events : FoldIn(f)
    BY DEF SummaryNext, Enqueue, BecomeDue, Stall, LoadBatch, Work, Claim, PersistSummary, PersistMembers,
           PersistFails, Reschedule, Complete, WorkerDies, conversationVars, summaryVars
  <2>2. QED
    BY <1>1, <2>1, FoldInTypes
<1>6. \A s \in Sessions, u \in Users : readSeq'[s][u] >= readSeq[s][u]
  <2>1. UNCHANGED readSeq \/ \E w \in Workers, f \in Events : PersistMembers(w, f)
    BY DEF SummaryNext, Enqueue, BecomeDue, Stall, LoadBatch, Work, Claim, PersistSummary,
           PersistFails, Reschedule, Complete, WorkerDies, conversationVars, summaryVars
  <2>2. QED
    BY <1>1, <2>1, MembersTypes
<1>7. SummaryHas(e) => SummaryHas(e)'
  BY <1>1, <1>3, <1>5 DEF SummaryHas
<1>8. CursorsHave(e) => CursorsHave(e)'
  <2> SUFFICES ASSUME CursorsHave(e), SessionOf[e] \notin groups, NEW u \in Members(e)
               PROVE  readSeq'[SessionOf[e]][u] >= ReadBy(e, u)
    BY <1>4 DEF CursorsHave, Members, ReadBy
  <2>1. readSeq[SessionOf[e]][u] >= ReadBy(e, u) /\ u \in Users
    BY <1>1 DEF CursorsHave
  <2>2. readSeq'[SessionOf[e]][u] >= readSeq[SessionOf[e]][u]
    BY <1>1, <1>6, <2>1
  <2>3. QED
    BY <1>1, <1>3, <2>1, <2>2
<1>9. QED
  BY <1>7, <1>8

LEMMA SummaryStep ==
  ASSUME SummaryInv, [SummaryNext]_conversationVars
  PROVE  WrittenIsThere' /\ DoneIsThere'
<1>1. SummaryTypeOK /\ WrittenIsThere /\ DoneIsThere
  BY DEF SummaryInv
<1>2. /\ stage \in [Workers -> Stages] /\ batch \in [Workers -> SUBSET Events]
      /\ status \in [Events -> {"absent", "pending", "processing", "done", "dead"}]
  BY <1>1 DEF SummaryTypeOK
<1>3. \A e \in Events :
        (SummaryHas(e) => SummaryHas(e)') /\ (CursorsHave(e) => CursorsHave(e)')
  BY <1>1, SummaryGrows
<1>4. ASSUME \A e \in Events : status'[e] = "done" => status[e] = "done"
      PROVE  DoneIsThere'
  BY <1>1, <1>3, <1>4 DEF DoneIsThere
<1>5. ASSUME \A w \in Workers :
               \/ stage'[w] \notin {"members", "done"}
               \/ stage'[w] = stage[w] /\ batch'[w] = batch[w]
      PROVE  WrittenIsThere'
  BY <1>1, <1>3, <1>5 DEF WrittenIsThere, Current
<1>6. ASSUME NEW w \in Workers, NEW e \in Events,
             PersistSummary(w, e) \/ PersistMembers(w, e), UNCHANGED batch,
             \A v \in Workers \ {w} : stage'[v] = stage[v],
             stage'[w] \in {"members", "done"} => SummaryHas(e)',
             stage'[w] = "done" => CursorsHave(e)'
      PROVE  WrittenIsThere'
  <2> SUFFICES ASSUME NEW v \in Workers, NEW f \in Events, Current(v, f)'
               PROVE  /\ stage'[v] \in {"members", "done"} => SummaryHas(f)'
                      /\ stage'[v] = "done" => CursorsHave(f)'
    BY DEF WrittenIsThere
  <2>1. Current(v, f)
    BY <1>6 DEF Current
  <2>2. CASE v = w
    <3>1. Current(w, e)
      BY <1>6 DEF PersistSummary, PersistMembers
    <3>2. f = e
      BY <1>1, <2>1, <2>2, <3>1, CurrentIsOne
    <3>3. QED
      BY <1>6, <2>2, <3>2
  <2>3. CASE v # w
    BY <1>1, <1>3, <1>6, <2>1, <2>3 DEF WrittenIsThere
  <2>4. QED
    BY <2>2, <2>3
<1>7. ASSUME NEW w \in Workers, NEW e \in Events, NextEvent(w, e)
      PROVE  WrittenIsThere'
  BY <1>2, <1>5, <1>7 DEF NextEvent
<1>8. ASSUME NEW w \in Workers, NEW e \in Events, PersistSummary(w, e)
      PROVE  WrittenIsThere' /\ DoneIsThere'
  <2>1. SummaryHas(e)'
    BY <1>1, <1>8, FoldInTypes DEF PersistSummary, SummaryHas
  <2>2. stage' = [stage EXCEPT ![w] = IF SessionOf[e] \in groups THEN "done" ELSE "members"]
        /\ UNCHANGED <<batch, groups, status>>
    BY <1>8 DEF PersistSummary, MoveTo, rowVars
  <2>3. stage'[w] = "done" => CursorsHave(e)'
    BY <1>2, <2>2 DEF CursorsHave
  <2>4. QED
    BY <1>2, <1>4, <1>6, <1>8, <2>1, <2>2, <2>3
<1>9. ASSUME NEW w \in Workers, NEW e \in Events, PersistMembers(w, e)
      PROVE  WrittenIsThere' /\ DoneIsThere'
  <2>1. SummaryHas(e)'
    BY <1>1, <1>3, <1>9 DEF PersistMembers, WrittenIsThere
  <2>2. stage'[w] = "done" => CursorsHave(e)'
    BY <1>1, <1>9, MembersTypes DEF CursorsHave, Members, ReadBy
  <2>3. UNCHANGED <<batch, status>> /\ \A v \in Workers \ {w} : stage'[v] = stage[v]
    BY <1>1, <1>9, MembersTypes DEF PersistMembers, rowVars
  <2>4. QED
    BY <1>4, <1>6, <1>9, <2>1, <2>2, <2>3
<1>10. ASSUME NEW w \in Workers, NEW e \in Events, Complete(w, e)
       PROVE  WrittenIsThere' /\ DoneIsThere'
  <2>1. SummaryHas(e) /\ CursorsHave(e)
    BY <1>1, <1>10 DEF Complete, WrittenIsThere
  <2>2. DoneIsThere'
    BY <1>1, <1>2, <1>3, <1>10, <2>1 DEF Complete, DoneIsThere
  <2>3. QED
    BY <1>7, <1>10, <2>2 DEF Complete
<1>11. ASSUME NEW w \in Workers, NEW e \in Events,
              Claim(w, e) \/ PersistFails(w, e) \/ Reschedule(w, e)
       PROVE  WrittenIsThere' /\ DoneIsThere'
  <2>1. \A f \in Events : status'[f] = "done" => status[f] = "done"
    BY <1>2, <1>11 DEF Claim, PersistFails, Reschedule, Outcome, rowVars
  <2>2. CASE (Claim(w, e) /\ Ready(e)) \/ PersistFails(w, e)
    <3>1. UNCHANGED batch /\ \E to \in {"summary", "failed"} : stage' = [stage EXCEPT ![w] = to]
      BY <2>2 DEF Claim, PersistFails, MoveTo
    <3>2. \A v \in Workers : \/ stage'[v] \notin {"members", "done"}
                             \/ stage'[v] = stage[v] /\ batch'[v] = batch[v]
      BY <1>2, <3>1
    <3>3. QED
      BY <1>4, <1>5, <2>1, <3>2
  <2>4. QED
    BY <1>4, <1>7, <1>11, <2>1, <2>2 DEF Claim, Reschedule
<1>12. ASSUME NEW w \in Workers, LoadBatch(w) \/ WorkerDies(w)
       PROVE  WrittenIsThere' /\ DoneIsThere'
  <2>1. UNCHANGED status /\ \A v \in Workers :
          stage'[v] \in {"claim", "idle"} \/ (stage'[v] = stage[v] /\ batch'[v] = batch[v])
    BY <1>2, <1>12 DEF LoadBatch, WorkerDies, MoveTo, rowVars
  <2>2. QED
    BY <1>4, <1>5, <2>1
<1>13. ASSUME NEW e \in Events, Enqueue(e) \/ BecomeDue(e) \/ Stall(e)
       PROVE  WrittenIsThere' /\ DoneIsThere'
  <2>1. UNCHANGED <<stage, batch>> /\ \A f \in Events : status'[f] = "done" => status[f] = "done"
    BY <1>2, <1>13 DEF Enqueue, BecomeDue, Stall, workerVars
  <2>2. QED
    BY <1>4, <1>5, <2>1
<1>14. CASE UNCHANGED conversationVars
  BY <1>4, <1>5, <1>14 DEF conversationVars, rowVars, workerVars
<1>15. QED
  BY <1>8, <1>9, <1>10, <1>11, <1>12, <1>13, <1>14 DEF SummaryNext, Work

LEMMA SummaryInvariant == SummarySpec => []SummaryInv
<1>1. SummaryInv /\ [SummaryNext]_conversationVars => SummaryInv'
  BY SummaryTypesStep, SummaryStep DEF SummaryInv
<1>2. QED
  BY <1>1, InitSummaryInv, PTL DEF SummarySpec

(* Rows, summaries and cursors hold values of their columns' types.        *)
THEOREM SummaryTypesCorrect == SummarySpec => []SummaryTypeOK
<1>1. SummaryInv => SummaryTypeOK
  BY DEF SummaryInv
<1>2. QED
  BY <1>1, SummaryInvariant, PTL

(* A row marked done is in the summary, and its sender has read it, though *)
(* ProcessConversationOutbox writes outcomes by id only: a worker whose    *)
(* lease has ended can settle another's row, but it has folded in that     *)
(* row's message first, and no other takes the summary back.               *)
THEOREM SettledIsSummarised == SummarySpec => []DoneIsSummarised
<1>1. SummaryInv => DoneIsSummarised
  BY DEF SummaryInv, DoneIsThere, DoneIsSummarised, SummaryHas, CursorsHave
<1>2. QED
  BY <1>1, SummaryInvariant, PTL

=============================================================================
