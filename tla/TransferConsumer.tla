--------------------------- MODULE TransferConsumer ---------------------------
(***************************************************************************)
(* The Transfer service: group fan-out from Kafka to the recipients        *)
(* (src/cmd/transfer/main.go, recipient_lease.go).                         *)
(*                                                                         *)
(* Logic publishes a job per group message to the group topic.  Every      *)
(* Transfer replica runs one consumer of the group topic and one of the    *)
(* retry topic.  A consumer fetches a job, claims, serves and completes    *)
(* one recipient after the other under a Redis lease, and commits the      *)
(* offset when all were served or the job was written to the retry or the  *)
(* dead-letter topic.  An error before that repeats the whole job in       *)
(* place.                                                                  *)
(*                                                                         *)
(* One partition per topic: a conversation's jobs share a Kafka key.  The  *)
(* owner token is fresh for every recipient attempt, so a lease left       *)
(* behind by an earlier attempt of the same consumer is as foreign to it   *)
(* as any other; such a lease is "orphan".                                 *)
(***************************************************************************)
EXTENDS Naturals, Sequences

CONSTANTS
  Consumers,       \* goroutines in consumeLoop, over all replicas
  ReaderOf,        \* [Consumers -> Topics]
  Messages,
  Recipients,
  RecipientsOf,    \* [Messages -> Seq(Recipients)], job.Recipients
  MaxAttempts,     \* KAFKA_MAX_ATTEMPTS (3 in the code)
  MaxDisruptions   \* bound: crashes, rebalances, expired live leases,
                   \* failed writes and repeated publications

Topics == {"main", "retry"}

ASSUME TransferConsumerAssumption ==
  /\ {"free", "done", "orphan"} \cap Consumers = {}
  /\ ReaderOf \in [Consumers -> Topics]
  /\ RecipientsOf \in [Messages -> Seq(Recipients)]
  /\ MaxAttempts \in Nat
  /\ MaxDisruptions \in Nat

VARIABLES
  topic,        \* [Topics -> Seq(Jobs)], the Kafka logs
  committed,    \* the consumer group's committed offset of each topic
  next,         \* the offset the assigned consumer fetches next
  assigned,     \* the consumer a topic's partition is assigned to
  dlq,          \* messages written to the dead-letter topic
  lease,        \* Redis group_delivery:<message>:<recipient>
  delivered,    \* recipients a message was delivered to
  pc,           \* where a consumer stands
  held,         \* the offset of the job a consumer works on
  index,        \* the position in job.Recipients
  disruptions

kafkaVars == <<topic, committed, next, assigned, dlq>>
consumerVars == <<pc, held, index>>
vars == <<kafkaVars, lease, delivered, consumerVars, disruptions>>

Jobs == [msg : Messages, attempt : 0..MaxAttempts]

Steps == {"idle", "recipients", "deliver", "complete", "release", "write", "commit"}

Slots == Messages \X Recipients

Log(c) == topic[ReaderOf[c]]

Job(c) == Log(c)[held[c]]

\* The recipient a consumer has come to, and its lease key.
HasRecipient(c) == index[c] <= Len(RecipientsOf[Job(c).msg])
Slot(c) == <<Job(c).msg, RecipientsOf[Job(c).msg][index[c]]>>

Init ==
  /\ topic = [t \in Topics |-> <<>>]
  /\ committed = [t \in Topics |-> 0]
  /\ next = [t \in Topics |-> 1]
  /\ assigned \in [Topics -> Consumers]
  /\ \A t \in Topics : ReaderOf[assigned[t]] = t
  /\ dlq = {}
  /\ lease = [s \in Slots |-> "free"]
  /\ delivered = [m \in Messages |-> {}]
  /\ pc = [c \in Consumers |-> "idle"]
  /\ held = [c \in Consumers |-> 1]
  /\ index = [c \in Consumers |-> 1]
  /\ disruptions = 0

Goto(c, step) == pc' = [pc EXCEPT ![c] = step]

\* processFetchedMessage returned an error: 250ms later it starts again.
StartJob(c) == Goto(c, "recipients") /\ index' = [index EXCEPT ![c] = 1]

NextRecipient(c) == Goto(c, "recipients") /\ index' = [index EXCEPT ![c] = @ + 1]

SetLease(c, l) == lease' = [lease EXCEPT ![Slot(c)] = l]

\* A lease whose owner gives up without releasing it.
Orphan(l, c) == IF l = c THEN "orphan" ELSE l

Disrupt ==
  /\ disruptions < MaxDisruptions
  /\ disruptions' = disruptions + 1

-----------------------------------------------------------------------------
(* kafkaDispatcher.PublishGroupDispatch; the delivery outbox may repeat it. *)
Publish(m) ==
  /\ \/ /\ \A n \in DOMAIN topic["main"] : topic["main"][n].msg # m
        /\ UNCHANGED disruptions
     \/ Disrupt
  /\ topic' = [topic EXCEPT !["main"] = Append(@, [msg |-> m, attempt |-> 0])]
  /\ UNCHANGED <<committed, next, assigned, dlq, lease, delivered, consumerVars>>

Fetch(c) ==
  LET t == ReaderOf[c] IN
    /\ pc[c] = "idle"
    /\ assigned[t] = c
    /\ next[t] <= Len(topic[t])
    /\ held' = [held EXCEPT ![c] = next[t]]
    /\ next' = [next EXCEPT ![t] = @ + 1]
    /\ StartJob(c)
    /\ UNCHANGED <<topic, committed, assigned, dlq, lease, delivered, disruptions>>

-----------------------------------------------------------------------------
(* claimGroupRecipientScript: claimed.                                     *)
Claim(c) ==
  /\ pc[c] = "recipients"
  /\ HasRecipient(c)
  /\ lease[Slot(c)] = "free"
  /\ SetLease(c, c)
  /\ Goto(c, "deliver")
  /\ UNCHANGED <<kafkaVars, delivered, held, index, disruptions>>

(* claimGroupRecipientScript: done, the recipient is skipped.              *)
SkipDone(c) ==
  /\ pc[c] = "recipients"
  /\ HasRecipient(c)
  /\ lease[Slot(c)] = "done"
  /\ NextRecipient(c)
  /\ UNCHANGED <<kafkaVars, lease, delivered, held, disruptions>>

(* claimGroupRecipientScript: busy, the job is repeated in place.          *)
Busy(c) ==
  /\ pc[c] = "recipients"
  /\ HasRecipient(c)
  /\ lease[Slot(c)] \notin {"free", "done"}
  /\ StartJob(c)
  /\ UNCHANGED <<kafkaVars, lease, delivered, held, disruptions>>

(* Redis fails, before or after the claim took effect.                     *)
ClaimFails(c) ==
  /\ pc[c] = "recipients"
  /\ HasRecipient(c)
  /\ \/ UNCHANGED lease
     \/ lease[Slot(c)] = "free" /\ SetLease(c, "orphan")
  /\ Goto(c, "write")
  /\ UNCHANGED <<kafkaVars, delivered, held, index, disruptions>>

Deliver(c) ==
  /\ pc[c] = "deliver"
  /\ delivered' = [delivered EXCEPT ![Job(c).msg] = @ \cup {Slot(c)[2]}]
  /\ Goto(c, "complete")
  /\ UNCHANGED <<kafkaVars, lease, held, index, disruptions>>

(* RedisDelivery.Deliver fails, before or after the pending entry exists.  *)
DeliverFails(c) ==
  /\ pc[c] = "deliver"
  /\ \/ UNCHANGED delivered
     \/ delivered' = [delivered EXCEPT ![Job(c).msg] = @ \cup {Slot(c)[2]}]
  /\ Goto(c, "release")
  /\ UNCHANGED <<kafkaVars, lease, held, index, disruptions>>

(* releaseGroupRecipientScript; its error is ignored.                      *)
Release(c) ==
  /\ pc[c] = "release"
  /\ \/ SetLease(c, IF lease[Slot(c)] = c THEN "free" ELSE lease[Slot(c)])
     \/ SetLease(c, Orphan(lease[Slot(c)], c))
  /\ Goto(c, "write")
  /\ UNCHANGED <<kafkaVars, delivered, held, index, disruptions>>

(* completeGroupRecipientScript.                                           *)
Complete(c) ==
  /\ pc[c] = "complete"
  /\ lease[Slot(c)] = c
  /\ SetLease(c, "done")
  /\ NextRecipient(c)
  /\ UNCHANGED <<kafkaVars, delivered, held, disruptions>>

(* The lease expired during the delivery, or the client repeated a script  *)
(* that had succeeded: errRecipientLeaseBusy, the job is repeated.         *)
CompleteMissed(c) ==
  /\ pc[c] = "complete"
  /\ \/ lease[Slot(c)] # c /\ UNCHANGED lease
     \/ lease[Slot(c)] = c /\ SetLease(c, "done")
  /\ StartJob(c)
  /\ UNCHANGED <<kafkaVars, delivered, held, disruptions>>

(* Redis fails, before or after the key became done.                       *)
CompleteFails(c) ==
  /\ pc[c] = "complete"
  /\ \/ SetLease(c, Orphan(lease[Slot(c)], c))
     \/ lease[Slot(c)] = c /\ SetLease(c, "done")
  /\ Goto(c, "write")
  /\ UNCHANGED <<kafkaVars, delivered, held, index, disruptions>>

(* No recipient failed.                                                    *)
Succeed(c) ==
  /\ pc[c] = "recipients"
  /\ ~HasRecipient(c)
  /\ Goto(c, "commit")
  /\ UNCHANGED <<kafkaVars, lease, delivered, held, index, disruptions>>

-----------------------------------------------------------------------------
\* job.Attempt++
NextAttempt(j) == [msg |-> j.msg, attempt |-> j.attempt + 1]

\* A recipient failed and attempts are left: one more, in the retry topic.
ScheduleRetry(c) ==
  /\ Job(c).attempt + 1 <= MaxAttempts
  /\ topic' = [topic EXCEPT !["retry"] = Append(@, NextAttempt(Job(c)))]
  /\ UNCHANGED dlq

\* writeDeadLetter
DeadLetter(c) ==
  /\ Job(c).attempt + 1 > MaxAttempts
  /\ dlq' = dlq \cup {Job(c).msg}
  /\ UNCHANGED topic

Write(c) ==
  /\ pc[c] = "write"
  /\ ScheduleRetry(c) \/ DeadLetter(c)
  /\ Goto(c, "commit")
  /\ UNCHANGED <<committed, next, assigned, lease, delivered, held, index, disruptions>>

(* Faulty: the error of the write does not keep the offset back.           *)
WriteFailsIgnored(c) ==
  /\ pc[c] = "write"
  /\ Disrupt
  /\ Goto(c, "commit")
  /\ UNCHANGED <<kafkaVars, lease, delivered, held, index>>

(* The write fails, before or after the broker took it, and the job is     *)
(* repeated in place.                                                      *)
WriteFails(c) ==
  /\ pc[c] = "write"
  /\ Disrupt
  /\ ScheduleRetry(c) \/ DeadLetter(c) \/ UNCHANGED <<topic, dlq>>
  /\ StartJob(c)
  /\ UNCHANGED <<committed, next, assigned, lease, delivered, held>>

(* commitFetchedMessage, repeated until it succeeds.  The broker accepts   *)
(* it although the partition may belong to another consumer by now.        *)
Commit(c) ==
  /\ pc[c] = "commit"
  /\ committed' = [committed EXCEPT ![ReaderOf[c]] = held[c]]
  /\ Goto(c, "idle")
  /\ UNCHANGED <<topic, next, assigned, dlq, lease, delivered, held, index, disruptions>>

-----------------------------------------------------------------------------
(* The partition goes to some consumer of its topic, which starts after    *)
(* the committed offset.  A consumer that loses it finishes its job.       *)
Assign(t) ==
  /\ \E d \in Consumers : ReaderOf[d] = t /\ assigned' = [assigned EXCEPT ![t] = d]
  /\ next' = [next EXCEPT ![t] = committed[t] + 1]
  /\ UNCHANGED <<topic, committed, dlq>>

Rebalance(t) ==
  /\ Disrupt
  /\ Assign(t)
  /\ UNCHANGED <<lease, delivered, consumerVars>>

(* The replica dies; its leases stay until they expire.                    *)
Crash(c) ==
  /\ Disrupt
  /\ Goto(c, "idle")
  /\ lease' = [s \in Slots |-> Orphan(lease[s], c)]
  /\ IF assigned[ReaderOf[c]] = c THEN Assign(ReaderOf[c]) ELSE UNCHANGED kafkaVars
  /\ UNCHANGED <<delivered, held, index>>

(* Faulty: the claim is stored without a time to live.                     *)
LeaseExpiresNever(s) == FALSE /\ UNCHANGED vars

(* The one-minute lease ends; for a live owner that is a disruption.       *)
LeaseExpires(s) ==
  /\ \/ lease[s] = "orphan" /\ UNCHANGED disruptions
     \/ lease[s] \in Consumers /\ Disrupt
  /\ lease' = [lease EXCEPT ![s] = "free"]
  /\ UNCHANGED <<kafkaVars, delivered, consumerVars>>

Step(c) ==
  \/ Fetch(c) \/ Claim(c) \/ SkipDone(c) \/ Busy(c) \/ ClaimFails(c)
  \/ Deliver(c) \/ DeliverFails(c) \/ Release(c)
  \/ Complete(c) \/ CompleteMissed(c) \/ CompleteFails(c) \/ Succeed(c)
  \/ Write(c) \/ WriteFails(c) \/ Commit(c)

Next ==
  \/ \E m \in Messages : Publish(m)
  \/ \E c \in Consumers : Step(c) \/ Crash(c)
  \/ \E t \in Topics : Rebalance(t)
  \/ \E s \in Slots : LeaseExpires(s)

Spec == Init /\ [][Next]_vars

(* consumeLoop runs until shutdown, and a lease nobody renews expires.     *)
Fairness ==
  /\ \A c \in Consumers : WF_vars(Step(c))
  /\ \A s \in Slots : WF_vars(LeaseExpires(s) /\ lease[s] = "orphan")

FairSpec == Spec /\ Fairness

-----------------------------------------------------------------------------
LeaseValues == {"free", "done", "orphan"} \cup Consumers

(* The Kafka logs and the consumers' variables hold values of their types: *)
(* no job goes beyond its retries, and a partition stays with a consumer   *)
(* that reads its topic.                                                   *)
TypeOK ==
  /\ topic \in [Topics -> Seq(Jobs)]
  /\ committed \in [Topics -> Nat]
  /\ next \in [Topics -> Nat \ {0}]
  /\ assigned \in [Topics -> Consumers]
  /\ \A t \in Topics : ReaderOf[assigned[t]] = t
  /\ dlq \subseteq Messages
  /\ lease \in [Slots -> LeaseValues]
  /\ delivered \in [Messages -> SUBSET Recipients]
  /\ pc \in [Consumers -> Steps]
  /\ held \in [Consumers -> Nat \ {0}]
  /\ index \in [Consumers -> Nat \ {0}]
  /\ disruptions \in 0..MaxDisruptions

Served(m) == \A i \in DOMAIN RecipientsOf[m] : RecipientsOf[m][i] \in delivered[m]

(* What became of a job that is behind the committed offset.               *)
Settled(j) ==
  \/ Served(j.msg)
  \/ \E n \in DOMAIN topic["retry"] :
       topic["retry"][n] = NextAttempt(j)
  \/ j.msg \in dlq

(* An offset is committed only after its job, and every job before it, was *)
(* served to all its recipients, handed to the retry topic or dead-        *)
(* lettered: no crash, rebalance or lost lease makes Kafka forget a job.   *)
CommittedIsSettled ==
  \A t \in Topics : \A n \in 1..committed[t] :
    n \in DOMAIN topic[t] /\ Settled(topic[t][n])

(* The dedupe key vouches for a delivery: a recipient that later attempts  *)
(* skip has the message pending, whoever served it.                        *)
DoneIsDelivered ==
  \A m \in Messages, r \in Recipients :
    lease[<<m, r>>] = "done" => r \in delivered[m]

(* A message is dead-lettered only after every one of the MaxAttempts      *)
(* retries was scheduled.                                                  *)
DeadLetterIsLast ==
  \A m \in dlq, k \in 1..MaxAttempts :
    \E n \in DOMAIN topic["retry"] : topic["retry"][n] = [msg |-> m, attempt |-> k]

(* Every published message is served to all recipients or dead-lettered,   *)
(* with finitely many disruptions: neither the leases crashed consumers    *)
(* leave behind nor the in-place repetition of a busy job blocks the       *)
(* partition for ever.                                                     *)
EventuallyHandled ==
  \A m \in Messages :
    (\E n \in DOMAIN topic["main"] : topic["main"][n].msg = m)
      ~> (Served(m) \/ m \in dlq)

=============================================================================
