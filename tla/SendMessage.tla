----------------------------- MODULE SendMessage -----------------------------
(***************************************************************************)
(* LogicHandler.PushMessage: accepting a chat message exactly once         *)
(* (src/internal/logic/handler.go, handler_idempotency.go,                 *)
(* handler_sequence.go, handler_store.go).                                 *)
(*                                                                         *)
(* Each element of Calls is one PushMessage RPC of one sender to one       *)
(* conversation; calls with the same MsgOf are retries under the same      *)
(* client_msg_id, in sequence or at the same time, on any Logic replica.   *)
(* Every Redis command, SQL query and transaction is one step.             *)
(*                                                                         *)
(* Frames come without a number or message id of their own, as the clients *)
(* send them; the durable path (DeliveryOutbox and ConversationOutbox set) *)
(* and the schema of sql/init.sql are in force.                            *)
(***************************************************************************)
EXTENDS Naturals, FiniteSets

CONSTANTS
  Calls,
  Messages,     \* client_msg_id values
  MsgOf,        \* [Calls -> Messages]
  MaxLosses     \* bound: Redis keys lost to expiry, eviction or failover

ASSUME SendMessageAssumption ==
  /\ MsgOf \in [Calls -> Messages]
  /\ MaxLosses \in Nat

VARIABLES
  rows,         \* messages of the conversation (with their outbox rows)
  record,       \* Redis client_msg:<uid>:<client_msg_id>
  seqKey,       \* Redis seq:<session>; 0 when the key does not exist
  permitted,    \* the sender may write to the conversation
  pc,           \* where a call stands
  seq,          \* frame.Seq of a call, 0 when unset
  maxRead,      \* MAX(seq) as ensureSequenceInitialized read it
  reply,        \* what the call returned
  revoked,      \* history: permission was gone when the call started
  losses        \* keys lost so far

redisVars == <<record, seqKey>>
vars == <<rows, redisVars, permitted, pc, seq, maxRead, reply, revoked, losses>>

Steps == {"start", "setnx", "lookup", "authorize", "exists", "max", "setmax",
          "incr", "reserve", "save", "reauthorize", "accept", "release", "del",
          "returned"}

Replies == {"none", "ok", "inflight", "error"}

Kinds == {"none", "sentinel", "pending", "committed"}

NoRecord == [kind |-> "none", seq |-> 0]

-----------------------------------------------------------------------------
Init ==
  /\ rows = {}
  /\ record = [m \in Messages |-> NoRecord]
  /\ seqKey = 0
  /\ permitted = TRUE
  /\ pc = [c \in Calls |-> "start"]
  /\ seq = [c \in Calls |-> 0]
  /\ maxRead = [c \in Calls |-> 0]
  /\ reply = [c \in Calls |-> "none"]
  /\ revoked = [c \in Calls |-> FALSE]
  /\ losses = 0

Goto(c, step) == pc' = [pc EXCEPT ![c] = step]

At(c, step) == pc[c] = step

Return(c, r) ==
  /\ Goto(c, "returned")
  /\ reply' = [reply EXCEPT ![c] = r]

Stored(m) == \E r \in rows : r.msg = m

\* A step that fails releases the reservation and then returns the error.
Fails(c) == Goto(c, "release") /\ UNCHANGED <<rows, redisVars, seq, maxRead, reply>>

Env == <<permitted, losses>>

-----------------------------------------------------------------------------
(* reserveClientMessage: GET.                                              *)
Reserve(c) ==
  /\ At(c, "start")
  /\ revoked' = [revoked EXCEPT ![c] = ~permitted]
  /\ LET rec == record[MsgOf[c]] IN
       \/ /\ rec.kind = "none"
          /\ Goto(c, "setnx")
          /\ UNCHANGED <<seq, reply>>
       \/ /\ rec.kind = "sentinel"
          /\ Return(c, "inflight")
          /\ UNCHANGED seq
       \/ /\ rec.kind = "pending"     \* continue with the reserved number
          /\ Goto(c, "lookup")
          /\ seq' = [seq EXCEPT ![c] = rec.seq]
          /\ UNCHANGED reply
       \/ /\ rec.kind = "committed"   \* a duplicate of an accepted message
          /\ Return(c, "ok")
          /\ UNCHANGED seq
       \/ /\ Return(c, "error")       \* Redis is unavailable
          /\ UNCHANGED seq
  /\ UNCHANGED <<rows, redisVars, maxRead, Env>>

(* reserveClientMessage: SETNX of the __PENDING__ sentinel.                *)
ReserveNX(c) ==
  /\ At(c, "setnx")
  /\ LET m == MsgOf[c] IN
       \/ /\ record[m].kind = "none"
          /\ record' = [record EXCEPT ![m] = [kind |-> "sentinel", seq |-> 0]]
          /\ Goto(c, "lookup")
          /\ UNCHANGED reply
       \/ /\ record[m].kind # "none"
          /\ Return(c, "inflight")
          /\ UNCHANGED record
       \/ /\ Return(c, "error")
          /\ UNCHANGED record
  /\ UNCHANGED <<rows, seqKey, seq, maxRead, revoked, Env>>

(* Faulty: a stored message is delivered again without asking for          *)
(* permission.                                                             *)
LookupTrusting(c) ==
  /\ At(c, "lookup")
  /\ IF Stored(MsgOf[c])
       THEN /\ \E r \in rows :
                 /\ r.msg = MsgOf[c]
                 /\ seq' = [seq EXCEPT ![c] = r.seq]
            /\ Goto(c, "accept")
       ELSE Goto(c, "authorize") /\ UNCHANGED seq
  /\ UNCHANGED <<rows, redisVars, maxRead, reply, revoked, Env>>

(* loadMessageByClientMsgID: a stored message is taken over as it is.      *)
Lookup(c) ==
  /\ At(c, "lookup")
  /\ \/ /\ ~Stored(MsgOf[c])
        /\ Goto(c, "authorize")
        /\ UNCHANGED <<rows, redisVars, seq, maxRead, reply>>
     \/ /\ \E r \in rows :
             /\ r.msg = MsgOf[c]
             /\ seq' = [seq EXCEPT ![c] = r.seq]
        /\ Goto(c, "reauthorize")
        /\ UNCHANGED <<rows, redisVars, maxRead, reply>>
     \/ Fails(c)
  /\ UNCHANGED <<revoked, Env>>

(* validateSendPermission of the submitted frame; a frame that restored a  *)
(* reserved number keeps it.                                               *)
Authorize(c) ==
  /\ At(c, "authorize")
  /\ \/ /\ permitted
        /\ Goto(c, IF seq[c] = 0 THEN "exists" ELSE "reserve")
        /\ UNCHANGED <<rows, redisVars, seq, maxRead, reply>>
     \/ Fails(c)
  /\ UNCHANGED <<revoked, Env>>

(* ensureSequenceInitialized: EXISTS, SELECT MAX(seq), SETNX.              *)
SeqExists(c) ==
  /\ At(c, "exists")
  /\ \/ /\ Goto(c, IF seqKey > 0 THEN "incr" ELSE "max")
        /\ UNCHANGED <<rows, redisVars, seq, maxRead, reply>>
     \/ Fails(c)
  /\ UNCHANGED <<revoked, Env>>

SeqMax(c) ==
  /\ At(c, "max")
  /\ \/ \E n \in {0} \cup {r.seq : r \in rows} :
          /\ \A r \in rows : r.seq <= n
          /\ maxRead' = [maxRead EXCEPT ![c] = n]
          /\ Goto(c, IF n > 0 THEN "setmax" ELSE "incr")
          /\ UNCHANGED <<rows, redisVars, seq, reply>>
     \/ Fails(c)
  /\ UNCHANGED <<revoked, Env>>

SeqSetMax(c) ==
  /\ At(c, "setmax")
  /\ \/ /\ seqKey' = IF seqKey = 0 THEN maxRead[c] ELSE seqKey
        /\ Goto(c, "incr")
        /\ UNCHANGED <<rows, record, seq, maxRead, reply>>
     \/ Fails(c)
  /\ UNCHANGED <<revoked, Env>>

(* sessionSeqScript: INCR and PEXPIRE in one script.                       *)
SeqIncr(c) ==
  /\ At(c, "incr")
  /\ \/ /\ seqKey' = seqKey + 1
        /\ seq' = [seq EXCEPT ![c] = seqKey + 1]
        /\ Goto(c, "reserve")
        /\ UNCHANGED <<rows, record, maxRead, reply>>
     \/ Fails(c)
  /\ UNCHANGED <<revoked, Env>>

(* commitClientMessageReservation: SETXX of the pending record, errors     *)
(* ignored.  It overwrites whatever record is there.                       *)
ReserveSeq(c) ==
  /\ At(c, "reserve")
  /\ LET m == MsgOf[c] IN
       \/ /\ record[m].kind # "none"
          /\ record' = [record EXCEPT ![m] = [kind |-> "pending", seq |-> seq[c]]]
       \/ UNCHANGED record
  /\ Goto(c, "save")
  /\ UNCHANGED <<rows, seqKey, seq, maxRead, reply, revoked, Env>>

-----------------------------------------------------------------------------
\* Faulty: a schema without uk_message_id and uk_conversation_seq.
SeqTakenNever(n) == FALSE

\* message_id is <session>-<seq>: a row with the same number collides on
\* uk_message_id, which MySQL checks before uk_sender_client_msg.
SeqTaken(n) == \E r \in rows : r.seq = n

Insert(c) == rows' = rows \cup {[msg |-> MsgOf[c], seq |-> seq[c]]}

(* saveMessageWithRecipients: one transaction for the message and its two  *)
(* outbox rows.  A COMMIT can fail after it took effect.                   *)
Save(c) ==
  /\ At(c, "save")
  /\ \/ /\ ~SeqTaken(seq[c]) /\ ~Stored(MsgOf[c])
        /\ Insert(c)
        /\ Goto(c, "accept") \/ Goto(c, "release")
        /\ UNCHANGED <<redisVars, seq, maxRead, reply>>
     \/ /\ ~SeqTaken(seq[c]) /\ Stored(MsgOf[c])   \* duplicate client message
        /\ \E r \in rows :
             /\ r.msg = MsgOf[c]
             /\ seq' = [seq EXCEPT ![c] = r.seq]
        /\ Goto(c, "reauthorize")
        /\ UNCHANGED <<rows, redisVars, maxRead, reply>>
     \/ Fails(c)
  /\ UNCHANGED <<revoked, Env>>

(* validateSendPermission of the stored message that takes the place of    *)
(* the submitted one.                                                      *)
Reauthorize(c) ==
  /\ At(c, "reauthorize")
  /\ \/ /\ permitted
        /\ Goto(c, "accept")
        /\ UNCHANGED <<rows, redisVars, seq, maxRead, reply>>
     \/ Fails(c)
  /\ UNCHANGED <<revoked, Env>>

(* The immediate delivery attempt (module DeliveryOutbox), whose errors    *)
(* are only logged; commitClientMessage, whose errors are ignored; reply.  *)
Accept(c) ==
  /\ At(c, "accept")
  /\ \/ record' = [record EXCEPT ![MsgOf[c]] = [kind |-> "committed", seq |-> seq[c]]]
     \/ UNCHANGED record
  /\ Return(c, "ok")
  /\ UNCHANGED <<rows, seqKey, seq, maxRead, revoked, Env>>

(* releaseClientMessage: GET, then DEL if the record read was pending.     *)
Release(c) ==
  /\ At(c, "release")
  /\ \/ /\ record[MsgOf[c]].kind \in {"sentinel", "pending"}
        /\ Goto(c, "del")
        /\ UNCHANGED reply
     \/ Return(c, "error")
  /\ UNCHANGED <<rows, redisVars, seq, maxRead, revoked, Env>>

ReleaseDel(c) ==
  /\ At(c, "del")
  /\ \/ record' = [record EXCEPT ![MsgOf[c]] = NoRecord]
     \/ UNCHANGED record
  /\ Return(c, "error")
  /\ UNCHANGED <<rows, seqKey, seq, maxRead, revoked, Env>>

-----------------------------------------------------------------------------
(* The replica dies: the caller sees an error and keeps its client id.     *)
Crash(c) ==
  /\ pc[c] \notin {"start", "returned"}
  /\ Return(c, "error")
  /\ UNCHANGED <<rows, redisVars, seq, maxRead, revoked, Env>>

Lose ==
  /\ losses < MaxLosses
  /\ losses' = losses + 1
  /\ \/ \E m \in Messages :
          /\ record[m] # NoRecord
          /\ record' = [record EXCEPT ![m] = NoRecord]
          /\ UNCHANGED seqKey
     \/ seqKey > 0 /\ seqKey' = 0 /\ UNCHANGED record
  /\ UNCHANGED <<rows, permitted, pc, seq, maxRead, reply, revoked>>

(* The sender is blocked, unfriended or removed from the group, for good:  *)
(* one withdrawal is the bound on permission changes.                      *)
Revoke ==
  /\ permitted
  /\ permitted' = FALSE
  /\ UNCHANGED <<rows, redisVars, pc, seq, maxRead, reply, revoked, losses>>

Step(c) ==
  \/ Reserve(c) \/ ReserveNX(c) \/ Lookup(c) \/ Authorize(c)
  \/ SeqExists(c) \/ SeqMax(c) \/ SeqSetMax(c) \/ SeqIncr(c)
  \/ ReserveSeq(c) \/ Save(c) \/ Reauthorize(c) \/ Accept(c)
  \/ Release(c) \/ ReleaseDel(c)

Next ==
  \/ \E c \in Calls : Step(c) \/ Crash(c)
  \/ Lose
  \/ Revoke

Spec == Init /\ [][Next]_vars

FairSpec == Spec /\ \A c \in Calls : WF_vars(Step(c))

-----------------------------------------------------------------------------
(* The keys, the table and the variables of PushMessage hold values of     *)
(* their types; a stored number is positive.                               *)
TypeOK ==
  /\ rows \subseteq [msg : Messages, seq : Nat \ {0}]
  /\ record \in [Messages -> [kind : Kinds, seq : Nat]]
  /\ seqKey \in Nat
  /\ permitted \in BOOLEAN
  /\ pc \in [Calls -> Steps]
  /\ seq \in [Calls -> Nat]
  /\ maxRead \in [Calls -> Nat]
  /\ reply \in [Calls -> Replies]
  /\ revoked \in [Calls -> BOOLEAN]
  /\ losses \in 0..MaxLosses

(* A committed record never vouches for a message that is not stored under *)
(* that number: the duplicate short-cut of reserveClientMessage answers    *)
(* "ok" on the strength of it alone.                                       *)
CommittedRecordIsStored ==
  \A m \in Messages :
    record[m].kind = "committed" => [msg |-> m, seq |-> record[m].seq] \in rows

(* Fail closed: a call that started after the sender lost the permission   *)
(* never reaches the delivery of a message, on any of the three paths that *)
(* lead there (new, found stored, lost the INSERT race).                   *)
FailClosed == \A c \in Calls : At(c, "accept") => ~revoked[c]

(* Exactly-once acceptance: the table refines MessageLedger, whatever      *)
(* retries, crashes, lost keys and ambiguous commits happen.               *)
Acked == {m \in Messages : \E c \in Calls : MsgOf[c] = m /\ reply[c] = "ok"}

Ledger == INSTANCE MessageLedger WITH ledger <- rows, acked <- Acked

(* The messages that PushMessage stores and answers keep to MessageLedger. *)
ImplementsLedger == Ledger!Spec

(* "saveMessage replaces frame with the canonical DB row when a concurrent *)
(* insert wins the client_msg_id unique-key race" (handler.go:156): an     *)
(* INSERT that loses to a retry of the same client message adopts the      *)
(* winner unless the database fails.  It does not hold when the two calls  *)
(* share one reserved number.                                              *)
LoserAdoptsWinner ==
  \A c \in Calls : At(c, "save") /\ Stored(MsgOf[c]) => ~SeqTaken(seq[c])

(* "Redis Lua INCR allocates monotonic numbers for a conversation; when    *)
(* the key is lost, Logic reads MySQL's largest seq first and goes on from *)
(* there" (docs/handbook/11_RELIABILITY_AND_OFFLINE.md:314): a number      *)
(* allocated is above every stored one.  It does not hold across a key     *)
(* loss between EXISTS and INCR.                                           *)
AllocatedAboveStored ==
  [][\A c \in Calls :
       At(c, "incr") /\ pc'[c] = "reserve" => \A r \in rows : r.seq < seq'[c]]_vars

=============================================================================
