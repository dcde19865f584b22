------------------------ MODULE TransferConsumerProofs ------------------------
(***************************************************************************)
(* Proofs about TransferConsumer, for every set of replicas, messages and  *)
(* recipients, every attempt limit and number of disruptions.              *)
(***************************************************************************)
EXTENDS TransferConsumer, SequenceTheorems, TLAPS

USE TransferConsumerAssumption

(* A consumer that works on a job holds an offset of its topic; a recipient *)
(* step has a recipient.                                                   *)
HoldsAJob ==
  \A c \in Consumers :
    /\ pc[c] # "idle" => held[c] \in DOMAIN Log(c)
    /\ pc[c] \in {"deliver", "complete", "release"} => HasRecipient(c)

(* The recipients before the current one were served.                      *)
PrefixServed ==
  \A c \in Consumers :
    /\ pc[c] # "idle" =>
         \A i \in DOMAIN RecipientsOf[Job(c).msg] :
           i < index[c] => RecipientsOf[Job(c).msg][i] \in delivered[Job(c).msg]
    /\ pc[c] = "complete" => Slot(c)[2] \in delivered[Job(c).msg]

(* Kafka logs, the dead letters and the deliveries only grow.              *)
Grows ==
  /\ \A t \in Topics :
       /\ DOMAIN topic[t] \subseteq DOMAIN topic'[t]
       /\ \A n \in DOMAIN topic[t] : topic'[t][n] = topic[t][n]
  /\ dlq \subseteq dlq'
  /\ \A m \in Messages : delivered[m] \subseteq delivered'[m]

(* A job about to be committed is settled, and so are all before the one a *)
(* consumer holds.                                                         *)
CommitIsSettled ==
  \A c \in Consumers :
    /\ pc[c] = "commit" => Settled(Job(c))
    /\ pc[c] # "idle" => \A n \in 1..(held[c] - 1) : Settled(Log(c)[n])

(* The assigned consumer has at most the last job it fetched in its hands; *)
(* everything before is settled.                                           *)
FetchedIsSettled ==
  \A t \in Topics : \A n \in 1..(next[t] - 1) :
    /\ n \in DOMAIN topic[t]
    /\ \/ Settled(topic[t][n])
       \/ n = next[t] - 1 /\ pc[assigned[t]] # "idle" /\ held[assigned[t]] = n

(* A job in the retry topic was preceded by all earlier retries.           *)
Scheduled(m, k) ==
  \E n \in DOMAIN topic["retry"] : topic["retry"][n] = [msg |-> m, attempt |-> k]

RetriesAreNumbered ==
  /\ \A n \in DOMAIN topic["main"] : topic["main"][n].attempt = 0
  /\ \A n \in DOMAIN topic["retry"] :
       \A k \in 1..topic["retry"][n].attempt : Scheduled(topic["retry"][n].msg, k)

IInv ==
  /\ TypeOK
  /\ HoldsAJob
  /\ PrefixServed
  /\ CommitIsSettled
  /\ FetchedIsSettled
  /\ CommittedIsSettled
  /\ DoneIsDelivered
  /\ RetriesAreNumbered
  /\ DeadLetterIsLast

-----------------------------------------------------------------------------
(* A consumer that holds an offset holds a job of the right type.          *)
LEMMA JobType ==
  ASSUME TypeOK, NEW c \in Consumers, held[c] \in DOMAIN Log(c)
  PROVE  Job(c) \in Jobs /\ Job(c).msg \in Messages /\ Job(c).attempt \in Nat
<1>1. Log(c) \in Seq(Jobs)
  BY DEF TypeOK, Log
<1>2. Job(c) \in Jobs
  BY <1>1, ElementOfSeq DEF Job
<1>3. QED
  BY <1>2 DEF Jobs

(* The lease key of the current recipient.                                 *)
LEMMA SlotType ==
  ASSUME TypeOK, NEW c \in Consumers, held[c] \in DOMAIN Log(c), HasRecipient(c)
  PROVE  Slot(c) \in Slots /\ Slot(c)[1] = Job(c).msg /\ Slot(c)[2] \in Recipients
<1>1. Job(c).msg \in Messages
  BY JobType
<1>2. RecipientsOf[Job(c).msg] \in Seq(Recipients)
  BY <1>1
<1>3. index[c] \in DOMAIN RecipientsOf[Job(c).msg]
  BY <1>2 DEF TypeOK, HasRecipient
<1>4. RecipientsOf[Job(c).msg][index[c]] \in Recipients
  BY <1>2, <1>3, ElementOfSeq
<1>5. QED
  BY <1>1, <1>4 DEF Slot, Slots

(* A retry stays within the limit of attempts.                             *)
LEMMA RetryIsAJob ==
  ASSUME NEW c \in Consumers, Job(c) \in Jobs, ScheduleRetry(c)
  PROVE  NextAttempt(Job(c)) \in Jobs
  BY TransferConsumerAssumption DEF ScheduleRetry, NextAttempt, Jobs

(* What a write to the retry or the dead-letter topic leaves behind.       *)
LEMMA WriteType ==
  ASSUME TypeOK, NEW c \in Consumers, held[c] \in DOMAIN Log(c),
         ScheduleRetry(c) \/ DeadLetter(c) \/ UNCHANGED <<topic, dlq>>
  PROVE  topic' \in [Topics -> Seq(Jobs)] /\ dlq' \subseteq Messages
<1>1. Job(c) \in Jobs /\ Job(c).msg \in Messages /\ Job(c).attempt \in Nat
  BY JobType
<1>2. CASE ScheduleRetry(c)
  <2> DEFINE j == NextAttempt(Job(c))
  <2>1. j \in Jobs
    BY <1>1, <1>2, RetryIsAJob
  <2>2. topic["retry"] \in Seq(Jobs) /\ "retry" \in Topics
    BY DEF TypeOK, Topics
  <2>3. Append(topic["retry"], j) \in Seq(Jobs)
    BY <2>1, <2>2
  <2>4. topic' = [topic EXCEPT !["retry"] = Append(topic["retry"], j)]
    BY <1>2 DEF ScheduleRetry
  <2> DEFINE longer == Append(topic["retry"], j)
  <2>5. longer \in Seq(Jobs)
    BY <2>3
  <2>6. topic' = [topic EXCEPT !["retry"] = longer]
    BY <2>4
  <2> HIDE DEF longer
  <2>7. topic' \in [Topics -> Seq(Jobs)]
    BY <2>5, <2>6 DEF TypeOK
  <2>8. QED
    BY <1>2, <2>7 DEF ScheduleRetry, TypeOK
<1>3. CASE DeadLetter(c) \/ UNCHANGED <<topic, dlq>>
  BY <1>1, <1>3 DEF DeadLetter, TypeOK
<1>4. QED
  BY <1>2, <1>3

(* Every step keeps the types.                                             *)
LEMMA StepTypeOK ==
  TypeOK /\ HoldsAJob /\ [Next]_vars => TypeOK'
<1> SUFFICES ASSUME TypeOK, HoldsAJob, [Next]_vars PROVE TypeOK'
  OBVIOUS
<1> USE DEF TypeOK, Steps, LeaseValues, kafkaVars, consumerVars
<1>1. ASSUME NEW c \in Consumers, Fetch(c) PROVE TypeOK'
  BY <1>1 DEF Fetch, StartJob, Goto
<1>2. ASSUME NEW c \in Consumers, Claim(c) PROVE TypeOK'
  <2>1. Slot(c) \in Slots /\ Slot(c)[2] \in Recipients /\ Job(c).msg \in Messages
    BY <1>2, SlotType, JobType DEF HoldsAJob, Claim
  <2>2. QED
    BY <1>2, <2>1 DEF Claim, SetLease, Goto
<1>3. ASSUME NEW c \in Consumers, SkipDone(c) PROVE TypeOK'
  BY <1>3 DEF SkipDone, NextRecipient, Goto
<1>4. ASSUME NEW c \in Consumers, Busy(c) PROVE TypeOK'
  BY <1>4 DEF Busy, StartJob, Goto
<1>5. ASSUME NEW c \in Consumers, ClaimFails(c) PROVE TypeOK'
  <2>1. Slot(c) \in Slots /\ Slot(c)[2] \in Recipients /\ Job(c).msg \in Messages
    BY <1>5, SlotType, JobType DEF HoldsAJob, ClaimFails
  <2>2. QED
    BY <1>5, <2>1 DEF ClaimFails, SetLease, Goto
<1>6. ASSUME NEW c \in Consumers, Deliver(c) PROVE TypeOK'
  <2>1. Slot(c) \in Slots /\ Slot(c)[2] \in Recipients /\ Job(c).msg \in Messages
    BY <1>6, SlotType, JobType DEF HoldsAJob, Deliver
  <2>2. QED
    BY <1>6, <2>1 DEF Deliver, Goto
<1>7. ASSUME NEW c \in Consumers, DeliverFails(c) PROVE TypeOK'
  <2>1. Slot(c)[2] \in Recipients /\ Job(c).msg \in Messages
    BY <1>7, SlotType, JobType DEF HoldsAJob, DeliverFails
  <2>2. delivered' \in [Messages -> SUBSET Recipients]
    <3>1. CASE UNCHANGED delivered
      BY <3>1
    <3>2. CASE delivered' = [delivered EXCEPT ![Job(c).msg] = @ \cup {Slot(c)[2]}]
      BY <2>1, <3>2
    <3>3. QED
      BY <1>7, <3>1, <3>2 DEF DeliverFails
  <2>3. QED
    BY <1>7, <2>2 DEF DeliverFails, Goto
<1>8. ASSUME NEW c \in Consumers, Release(c) PROVE TypeOK'
  <2>1. Slot(c) \in Slots /\ Slot(c)[2] \in Recipients /\ Job(c).msg \in Messages
    BY <1>8, SlotType, JobType DEF HoldsAJob, Release
  <2>2. QED
    BY <1>8, <2>1 DEF Release, SetLease, Orphan, Goto
<1>9. ASSUME NEW c \in Consumers, Complete(c) PROVE TypeOK'
  <2>1. Slot(c) \in Slots /\ Slot(c)[2] \in Recipients /\ Job(c).msg \in Messages
    BY <1>9, SlotType, JobType DEF HoldsAJob, Complete
  <2>2. QED
    BY <1>9, <2>1 DEF Complete, SetLease, NextRecipient, Goto
<1>10. ASSUME NEW c \in Consumers, CompleteMissed(c) PROVE TypeOK'
  <2>1. Slot(c) \in Slots /\ Slot(c)[2] \in Recipients /\ Job(c).msg \in Messages
    BY <1>10, SlotType, JobType DEF HoldsAJob, CompleteMissed
  <2>2. QED
    BY <1>10, <2>1 DEF CompleteMissed, SetLease, StartJob, Goto
<1>11. ASSUME NEW c \in Consumers, CompleteFails(c) PROVE TypeOK'
  <2>1. Slot(c) \in Slots /\ Slot(c)[2] \in Recipients /\ Job(c).msg \in Messages
    BY <1>11, SlotType, JobType DEF HoldsAJob, CompleteFails
  <2>2. QED
    BY <1>11, <2>1 DEF CompleteFails, SetLease, Orphan, Goto
<1>12. ASSUME NEW c \in Consumers, Succeed(c) PROVE TypeOK'
  BY <1>12 DEF Succeed, Goto
<1>13. ASSUME NEW c \in Consumers, Write(c) PROVE TypeOK'
  <2>1. topic' \in [Topics -> Seq(Jobs)] /\ dlq' \subseteq Messages
    BY <1>13, WriteType DEF HoldsAJob, Write
  <2>2. QED
    BY <1>13, <2>1 DEF Write, Goto, StartJob, Disrupt
<1>14. ASSUME NEW c \in Consumers, WriteFails(c) PROVE TypeOK'
  <2>1. topic' \in [Topics -> Seq(Jobs)] /\ dlq' \subseteq Messages
    BY <1>14, WriteType DEF HoldsAJob, WriteFails
  <2>2. QED
    BY <1>14, <2>1 DEF WriteFails, Goto, StartJob, Disrupt
<1>15. ASSUME NEW c \in Consumers, Commit(c) PROVE TypeOK'
  BY <1>15 DEF Commit, Goto
<1>16. ASSUME NEW c \in Consumers, Crash(c) PROVE TypeOK'
  <2>1. lease' \in [Slots -> LeaseValues]
    BY <1>16 DEF Crash, Orphan
  <2>2. pc' \in [Consumers -> Steps]
    BY <1>16 DEF Crash, Goto
  <2>3. CASE Assign(ReaderOf[c])
    BY <1>16, <2>1, <2>2, <2>3 DEF Crash, Assign, Disrupt
  <2>4. CASE UNCHANGED kafkaVars
    BY <1>16, <2>1, <2>2, <2>4 DEF Crash, Disrupt
  <2>5. QED
    BY <1>16, <2>3, <2>4 DEF Crash
<1>17. ASSUME NEW m \in Messages, Publish(m) PROVE TypeOK'
  <2>1. [msg |-> m, attempt |-> 0] \in Jobs
    BY DEF Jobs
  <2>2. topic' \in [Topics -> Seq(Jobs)]
    BY <1>17, <2>1 DEF Publish, Topics
  <2>3. disruptions' \in 0..MaxDisruptions
    BY <1>17 DEF Publish, Disrupt
  <2>4. UNCHANGED <<committed, next, assigned, dlq, lease, delivered, pc, held, index>>
    BY <1>17 DEF Publish, consumerVars
  <2>5. QED
    BY <2>2, <2>3, <2>4
<1>18. ASSUME NEW t \in Topics, Rebalance(t) PROVE TypeOK'
  BY <1>18 DEF Rebalance, Assign, Disrupt
<1>19. ASSUME NEW s \in Slots, LeaseExpires(s) PROVE TypeOK'
  BY <1>19 DEF LeaseExpires, Disrupt
<1>20. CASE UNCHANGED vars
  BY <1>20 DEF vars
<1>21. QED
  BY <1>1, <1>2, <1>3, <1>4, <1>5, <1>6, <1>7, <1>8, <1>9, <1>10, <1>11,
     <1>12, <1>13, <1>14, <1>15, <1>16, <1>17, <1>18, <1>19, <1>20 DEF
     Next, Step

(* Appending a job to a topic.                                             *)
AppendedTo(t, j) == topic' = [topic EXCEPT ![t] = Append(@, j)]

LEMMA TopicAppended ==
  ASSUME TypeOK, NEW t \in Topics, NEW j \in Jobs, AppendedTo(t, j)
  PROVE  /\ \A u \in Topics : u # t => topic'[u] = topic[u]
         /\ DOMAIN topic[t] \subseteq DOMAIN topic'[t]
         /\ \A n \in DOMAIN topic[t] : topic'[t][n] = topic[t][n]
         /\ \E n \in DOMAIN topic'[t] : topic'[t][n] = j
         /\ \A n \in DOMAIN topic'[t] : n \in DOMAIN topic[t] \/ topic'[t][n] = j
<1>1. topic[t] \in Seq(Jobs)
  BY DEF TypeOK
<1> DEFINE longer == Append(topic[t], j)
<1>2. topic'[t] = longer
  BY DEF TypeOK, AppendedTo
<1>3. /\ DOMAIN topic[t] = 1..Len(topic[t]) /\ Len(topic[t]) \in Nat
      /\ DOMAIN longer = 1..(Len(topic[t]) + 1)
      /\ \A n \in 1..Len(topic[t]) : longer[n] = topic[t][n]
      /\ longer[Len(topic[t]) + 1] = j
  BY <1>1, AppendProperties
<1>4. \A u \in Topics : u # t => topic'[u] = topic[u]
  BY DEF TypeOK, AppendedTo
<1>5. Len(topic[t]) + 1 \in DOMAIN longer /\ DOMAIN topic[t] \subseteq DOMAIN longer
  BY <1>3
<1>6. \A n \in DOMAIN longer : n \in DOMAIN topic[t] \/ n = Len(topic[t]) + 1
  BY <1>3
<1> HIDE DEF longer
<1>7. QED
  BY <1>2, <1>3, <1>4, <1>5, <1>6

(* Nothing is taken back from Kafka or from the pending sets.              *)
LEMMA StepGrows ==
  TypeOK /\ HoldsAJob /\ [Next]_vars => Grows
<1> SUFFICES ASSUME TypeOK, HoldsAJob, [Next]_vars PROVE Grows
  OBVIOUS
<1> USE DEF TypeOK, Grows, kafkaVars
<1>1. ASSUME NEW c \in Consumers, Fetch(c) PROVE Grows
  BY <1>1 DEF Fetch, StartJob, Goto
<1>2. ASSUME NEW c \in Consumers, Claim(c) PROVE Grows
  BY <1>2 DEF Claim, SetLease, Goto
<1>3. ASSUME NEW c \in Consumers, SkipDone(c) PROVE Grows
  BY <1>3 DEF SkipDone, NextRecipient, Goto
<1>4. ASSUME NEW c \in Consumers, Busy(c) PROVE Grows
  BY <1>4 DEF Busy, StartJob, Goto
<1>5. ASSUME NEW c \in Consumers, ClaimFails(c) PROVE Grows
  BY <1>5 DEF ClaimFails, SetLease, Goto
<1>6. ASSUME NEW c \in Consumers, Deliver(c) PROVE Grows
  BY <1>6 DEF Deliver, Goto
<1>7. ASSUME NEW c \in Consumers, DeliverFails(c) PROVE Grows
  <2>1. CASE UNCHANGED delivered
    BY <1>7, <2>1 DEF DeliverFails
  <2>2. CASE delivered' = [delivered EXCEPT ![Job(c).msg] = @ \cup {Slot(c)[2]}]
    BY <1>7, <2>2 DEF DeliverFails
  <2>3. QED
    BY <1>7, <2>1, <2>2 DEF DeliverFails
<1>8. ASSUME NEW c \in Consumers, Release(c) PROVE Grows
  BY <1>8 DEF Release, SetLease, Orphan, Goto
<1>9. ASSUME NEW c \in Consumers, Complete(c) PROVE Grows
  BY <1>9 DEF Complete, SetLease, NextRecipient, Goto
<1>10. ASSUME NEW c \in Consumers, CompleteMissed(c) PROVE Grows
  BY <1>10 DEF CompleteMissed, SetLease, StartJob, Goto
<1>11. ASSUME NEW c \in Consumers, CompleteFails(c) PROVE Grows
  BY <1>11 DEF CompleteFails, SetLease, Orphan, Goto
<1>12. ASSUME NEW c \in Consumers, Succeed(c) PROVE Grows
  BY <1>12 DEF Succeed, Goto
<1>13. ASSUME NEW c \in Consumers, Write(c) PROVE Grows
  <2>1. Job(c) \in Jobs
    BY <1>13, JobType DEF HoldsAJob, Write
  <2>2. (ScheduleRetry(c) => NextAttempt(Job(c)) \in Jobs) /\ "retry" \in Topics
    BY <2>1, RetryIsAJob DEF Topics
  <2>3. CASE ScheduleRetry(c)
    <3>1. AppendedTo("retry", NextAttempt(Job(c)))
      BY <2>3 DEF ScheduleRetry, AppendedTo
    <3>2. \A t \in Topics : /\ DOMAIN topic[t] \subseteq DOMAIN topic'[t]
                            /\ \A n \in DOMAIN topic[t] : topic'[t][n] = topic[t][n]
      <4>1. /\ \A u \in Topics : u # "retry" => topic'[u] = topic[u]
            /\ DOMAIN topic["retry"] \subseteq DOMAIN topic'["retry"]
            /\ \A n \in DOMAIN topic["retry"] : topic'["retry"][n] = topic["retry"][n]
        BY <2>2, <2>3, <3>1, TopicAppended
      <4>2. QED
        BY <4>1
    <3>3. dlq' = dlq /\ delivered' = delivered
      BY <1>13, <2>3 DEF Write, ScheduleRetry
    <3>4. QED
      BY <3>2, <3>3
  <2>4. CASE DeadLetter(c) \/ UNCHANGED <<topic, dlq>>
    BY <1>13, <2>4 DEF Write, DeadLetter
  <2>5. QED
    BY <1>13, <2>3, <2>4 DEF Write
<1>14. ASSUME NEW c \in Consumers, WriteFails(c) PROVE Grows
  <2>1. Job(c) \in Jobs
    BY <1>14, JobType DEF HoldsAJob, WriteFails
  <2>2. (ScheduleRetry(c) => NextAttempt(Job(c)) \in Jobs) /\ "retry" \in Topics
    BY <2>1, RetryIsAJob DEF Topics
  <2>3. CASE ScheduleRetry(c)
    <3>1. AppendedTo("retry", NextAttempt(Job(c)))
      BY <2>3 DEF ScheduleRetry, AppendedTo
    <3>2. \A t \in Topics : /\ DOMAIN topic[t] \subseteq DOMAIN topic'[t]
                            /\ \A n \in DOMAIN topic[t] : topic'[t][n] = topic[t][n]
      <4>1. /\ \A u \in Topics : u # "retry" => topic'[u] = topic[u]
            /\ DOMAIN topic["retry"] \subseteq DOMAIN topic'["retry"]
            /\ \A n \in DOMAIN topic["retry"] : topic'["retry"][n] = topic["retry"][n]
        BY <2>2, <2>3, <3>1, TopicAppended
      <4>2. QED
        BY <4>1
    <3>3. dlq' = dlq /\ delivered' = delivered
      BY <1>14, <2>3 DEF WriteFails, ScheduleRetry
    <3>4. QED
      BY <3>2, <3>3
  <2>4. CASE DeadLetter(c) \/ UNCHANGED <<topic, dlq>>
    BY <1>14, <2>4 DEF WriteFails, DeadLetter
  <2>5. QED
    BY <1>14, <2>3, <2>4 DEF WriteFails
<1>15. ASSUME NEW c \in Consumers, Commit(c) PROVE Grows
  BY <1>15 DEF Commit, Goto
<1>16. ASSUME NEW c \in Consumers, Crash(c) PROVE Grows
  BY <1>16 DEF Crash, Assign
<1>17. ASSUME NEW m \in Messages, Publish(m) PROVE Grows
  <2>1. [msg |-> m, attempt |-> 0] \in Jobs /\ "main" \in Topics
    BY DEF Jobs, Topics
  <2>2. AppendedTo("main", [msg |-> m, attempt |-> 0])
    BY <1>17 DEF Publish, AppendedTo
  <2>3. QED
    BY <1>17, <2>1, <2>2, TopicAppended DEF Publish
<1>18. ASSUME NEW t \in Topics, Rebalance(t) PROVE Grows
  BY <1>18 DEF Rebalance, Assign, Disrupt
<1>19. ASSUME NEW s \in Slots, LeaseExpires(s) PROVE Grows
  BY <1>19 DEF LeaseExpires, Disrupt
<1>20. CASE UNCHANGED vars
  BY <1>20 DEF vars
<1>21. QED
  BY <1>1, <1>2, <1>3, <1>4, <1>5, <1>6, <1>7, <1>8, <1>9, <1>10, <1>11,
     <1>12, <1>13, <1>14, <1>15, <1>16, <1>17, <1>18, <1>19, <1>20 DEF
     Next, Step

(* A consumer that stays at its offset stays at its job.                   *)
LEMMA JobStays ==
  ASSUME TypeOK, Grows, NEW c \in Consumers,
         held[c] \in DOMAIN Log(c), held'[c] = held[c]
  PROVE  held'[c] \in DOMAIN Log(c)' /\ Job(c)' = Job(c)
BY DEF TypeOK, Grows, Log, Job

(* What is settled stays settled.                                          *)
LEMMA SettledStays ==
  ASSUME TypeOK, Grows, NEW j, j.msg \in Messages, Settled(j)
  PROVE  Settled(j)'
BY DEF Settled, Served, Grows, Topics, NextAttempt

(* How a step may move a consumer.                                         *)
Moves(d) ==
  \/ pc'[d] = "idle"
  \/ Fetch(d)
  \/ /\ pc[d] # "idle"
     /\ held'[d] = held[d]
     /\ \/ pc'[d] = pc[d] /\ index'[d] = index[d]
        \/ pc'[d] = "recipients" /\ index'[d] = 1
        \/ pc'[d] = "write" /\ index'[d] = index[d]
        \/ pc'[d] \in {"deliver", "release"} /\ index'[d] = index[d] /\ HasRecipient(d)
        \/ SkipDone(d) \/ Complete(d) \/ Deliver(d) \/ Succeed(d) \/ Write(d)

LEMMA StepMoves ==
  TypeOK /\ HoldsAJob /\ [Next]_vars => \A d \in Consumers : Moves(d)
<1> SUFFICES ASSUME TypeOK, HoldsAJob, [Next]_vars, NEW d \in Consumers PROVE Moves(d)
  OBVIOUS
<1> USE DEF Moves, TypeOK, HoldsAJob, kafkaVars, consumerVars
<1>1. ASSUME NEW c \in Consumers, Step(c), d # c PROVE Moves(d)
  BY <1>1 DEF Step, Fetch, Claim, SkipDone, Busy, ClaimFails, Deliver, DeliverFails,
     Release, Complete, CompleteMissed, CompleteFails, Succeed, Write, WriteFails,
     Commit, Goto, StartJob, NextRecipient
<1>2. ASSUME Step(d) PROVE Moves(d)
  <2>1. CASE Fetch(d) \/ Commit(d)
    BY <2>1 DEF Commit, Goto
  <2>2. CASE SkipDone(d) \/ Complete(d) \/ Deliver(d) \/ Succeed(d) \/ Write(d)
    BY <2>2 DEF SkipDone, Complete, Deliver, Succeed, Write
  <2>3. CASE Claim(d) \/ DeliverFails(d)
    BY <2>3 DEF Claim, DeliverFails, Goto
  <2>4. CASE Busy(d) \/ CompleteMissed(d) \/ WriteFails(d)
    BY <2>4 DEF Busy, CompleteMissed, WriteFails, StartJob, Goto
  <2>5. CASE ClaimFails(d) \/ Release(d) \/ CompleteFails(d)
    BY <2>5 DEF ClaimFails, Release, CompleteFails, Goto
  <2>6. QED
    BY <1>2, <2>1, <2>2, <2>3, <2>4, <2>5 DEF Step
<1>3. ASSUME NEW c \in Consumers, Crash(c) PROVE Moves(d)
  BY <1>3 DEF Crash, Goto
<1>4. CASE \/ UNCHANGED vars
           \/ \E m \in Messages : Publish(m)
           \/ \E t \in Topics : Rebalance(t)
           \/ \E s \in Slots : LeaseExpires(s)
  BY <1>4 DEF vars, Publish, Rebalance, LeaseExpires
<1>5. QED
  BY <1>1, <1>2, <1>3, <1>4 DEF Next

(* Only Fetch moves a consumer to another offset, one that exists.         *)
LEMMA StepHoldsAJob ==
  TypeOK /\ TypeOK' /\ Grows /\ HoldsAJob /\ [Next]_vars => HoldsAJob'
<1> SUFFICES ASSUME TypeOK, TypeOK', Grows, HoldsAJob, NEW d \in Consumers,
                    Moves(d), pc'[d] # "idle"
             PROVE  /\ held'[d] \in DOMAIN Log(d)'
                    /\ pc'[d] \in {"deliver", "complete", "release"} => HasRecipient(d)'
  BY StepMoves DEF HoldsAJob
<1>1. CASE Fetch(d)
  <2>1. held'[d] \in DOMAIN Log(d)'
    BY <1>1 DEF Fetch, Log, TypeOK
  <2>2. pc'[d] = "recipients"
    BY <1>1 DEF Fetch, StartJob, Goto, TypeOK
  <2>3. QED
    BY <2>1, <2>2
<1>2. CASE ~Fetch(d)
  <2>1. pc[d] # "idle" /\ held'[d] = held[d]
    BY <1>2 DEF Moves
  <2>2. held'[d] \in DOMAIN Log(d)' /\ Job(d)' = Job(d)
    BY <2>1, JobStays DEF HoldsAJob
  <2>3. pc'[d] \in {"deliver", "complete", "release"} =>
          index'[d] = index[d] /\ HasRecipient(d)
    BY <1>2 DEF Moves, HoldsAJob, SkipDone, Complete, Deliver, Succeed, Write,
                NextRecipient, Goto, TypeOK
  <2>4. QED
    BY <2>2, <2>3 DEF HasRecipient
<1>3. QED
  BY <1>1, <1>2

(* A consumer passes a recipient by completing it or because it is done.   *)
LEMMA StepPrefixServed ==
  /\ TypeOK /\ TypeOK' /\ Grows /\ HoldsAJob /\ HoldsAJob' /\ DoneIsDelivered
  /\ PrefixServed /\ [Next]_vars
  => PrefixServed'
<1> DEFINE Prefix(m, n) == \A i \in DOMAIN RecipientsOf[m] :
                             i < n => RecipientsOf[m][i] \in delivered[m]
<1> SUFFICES ASSUME TypeOK, TypeOK', Grows, HoldsAJob, HoldsAJob', DoneIsDelivered,
                    PrefixServed, NEW d \in Consumers, Moves(d), pc'[d] # "idle"
             PROVE  /\ Prefix(Job(d).msg, index[d])'
                    /\ pc'[d] = "complete" => (Slot(d)[2] \in delivered[Job(d).msg])'
  BY StepMoves DEF PrefixServed
<1>1. /\ Job(d)'.msg \in Messages
      /\ RecipientsOf[Job(d)'.msg] \in Seq(Recipients)
  <2>1. Log(d)' \in Seq(Jobs) /\ held'[d] \in DOMAIN Log(d)'
    BY DEF TypeOK, Log, HoldsAJob
  <2>2. Job(d)' \in Jobs
    BY <2>1, ElementOfSeq DEF Job
  <2>3. QED
    BY <2>2 DEF Jobs
<1>2. CASE index'[d] = 1 /\ pc'[d] = "recipients"
  BY <1>1, <1>2
<1>3. CASE Fetch(d)
  BY <1>2, <1>3 DEF Fetch, StartJob, Goto, TypeOK
<1>4. CASE /\ ~Fetch(d)
           /\ ~(index'[d] = 1 /\ pc'[d] = "recipients")
  <2> DEFINE m == Job(d).msg
  <2>1. pc[d] # "idle" /\ held'[d] = held[d]
    BY <1>4 DEF Moves
  <2>2. Job(d)' = Job(d) /\ held[d] \in DOMAIN Log(d)
    BY <2>1, JobStays DEF HoldsAJob
  <2>3. m \in Messages /\ delivered[m] \subseteq delivered'[m] /\ index[d] \in Nat
    BY <1>1, <2>2 DEF Grows, TypeOK
  <2>4. Prefix(m, index[d])
    BY <2>1 DEF PrefixServed
  <2>5. CASE SkipDone(d) \/ Complete(d)
    <3>1. index'[d] = index[d] + 1 /\ pc'[d] = "recipients" /\ HasRecipient(d)
      BY <2>5 DEF SkipDone, Complete, NextRecipient, Goto, HoldsAJob, TypeOK
    <3>2. RecipientsOf[m][index[d]] \in delivered[m]
      <4>1. Slot(d) \in Slots /\ Slot(d)[2] \in Recipients
        BY <2>2, <3>1, SlotType
      <4>2. Slot(d) = <<m, Slot(d)[2]>> /\ Slot(d)[2] = RecipientsOf[m][index[d]]
        BY DEF Slot
      <4>3. CASE SkipDone(d)
        BY <2>3, <4>1, <4>2, <4>3 DEF SkipDone, DoneIsDelivered
      <4>4. CASE Complete(d)
        BY <4>2, <4>4 DEF Complete, PrefixServed
      <4>5. QED
        BY <2>5, <4>3, <4>4
    <3>3. \A i \in DOMAIN RecipientsOf[m] : i < index[d] + 1 => i < index[d] \/ i = index[d]
      BY <1>1, <2>2, <2>3
    <3>4. QED
      BY <2>2, <2>3, <2>4, <3>1, <3>2, <3>3
  <2>6. CASE ~(SkipDone(d) \/ Complete(d))
    <3>1. index'[d] = index[d]
      BY <1>4, <2>6 DEF Moves, Deliver, Succeed, Write
    <3>2. pc'[d] = "complete" => pc[d] = "complete" \/ Deliver(d)
      BY <1>4, <2>6 DEF Moves, Succeed, Write, Goto, TypeOK
    <3>3. Deliver(d) => Slot(d)[2] \in delivered'[m]
      BY <2>3 DEF Deliver, TypeOK
    <3>4. Slot(d)' = Slot(d)
      BY <2>2, <3>1 DEF Slot
    <3>5. QED
      BY <2>2, <2>3, <2>4, <3>1, <3>2, <3>3, <3>4 DEF PrefixServed
  <2>7. QED
    BY <2>5, <2>6
<1>5. QED
  BY <1>2, <1>3, <1>4

(* Job(c) is only looked up at offsets of the log, and so is what is before. *)
LEMMA LogStays ==
  ASSUME TypeOK, Grows, NEW t \in Topics, NEW n \in DOMAIN topic[t]
  PROVE  /\ topic[t][n] \in Jobs
         /\ n \in DOMAIN topic'[t]
         /\ topic'[t][n] = topic[t][n]
         /\ Settled(topic[t][n]) => Settled(topic[t][n])'
<1>1. topic[t] \in Seq(Jobs)
  BY DEF TypeOK
<1>2. topic[t][n] \in Jobs
  BY <1>1, ElementOfSeq
<1>3. n \in DOMAIN topic'[t] /\ topic'[t][n] = topic[t][n]
  BY DEF Grows
<1>4. Settled(topic[t][n]) => Settled(topic[t][n])'
  BY <1>2, <1>3, SettledStays DEF Jobs
<1>5. QED
  BY <1>2, <1>3, <1>4

(* A consumer commits what it served, retried or dead-lettered, and it     *)
(* fetched only after everything before was.                               *)
LEMMA StepCommitIsSettled ==
  /\ TypeOK /\ TypeOK' /\ Grows /\ HoldsAJob /\ PrefixServed
  /\ FetchedIsSettled /\ CommitIsSettled /\ [Next]_vars
  => CommitIsSettled'
<1> SUFFICES ASSUME TypeOK, TypeOK', Grows, HoldsAJob, PrefixServed, FetchedIsSettled,
                    CommitIsSettled, NEW d \in Consumers, Moves(d), pc'[d] # "idle"
             PROVE  /\ pc'[d] = "commit" => Settled(Job(d))'
                    /\ \A n \in 1..(held'[d] - 1) : Settled(Log(d)[n])'
  BY StepMoves DEF CommitIsSettled
<1>0. ReaderOf[d] \in Topics /\ Log(d) \in Seq(Jobs)
  BY DEF TypeOK, Log
<1>1. CASE Fetch(d)
  <2> DEFINE t == ReaderOf[d]
  <2>1. /\ assigned[t] = d /\ pc[d] = "idle"
        /\ held'[d] = next[t] /\ pc'[d] = "recipients"
    BY <1>1 DEF Fetch, StartJob, Goto, TypeOK
  <2>2. \A n \in 1..(next[t] - 1) : n \in DOMAIN topic[t] /\ Settled(topic[t][n])
    BY <1>0, <2>1 DEF FetchedIsSettled
  <2>3. QED
    BY <1>0, <2>1, <2>2, LogStays DEF Log
<1>2. CASE ~Fetch(d)
  <2>1. pc[d] # "idle" /\ held'[d] = held[d]
    BY <1>2 DEF Moves
  <2>2. held[d] \in DOMAIN Log(d) /\ Job(d)' = Job(d) /\ Job(d) \in Jobs
    BY <2>1, JobStays, JobType DEF HoldsAJob
  <2>3. \A n \in 1..(held[d] - 1) : n \in DOMAIN Log(d) /\ Settled(Log(d)[n])
    BY <1>0, <2>1, <2>2 DEF CommitIsSettled
  <2>4. \A n \in 1..(held'[d] - 1) : Settled(Log(d)[n])'
    BY <1>0, <2>1, <2>3, LogStays DEF Log
  <2>5. ASSUME pc'[d] = "commit" PROVE Settled(Job(d))'
    <3>1. CASE pc[d] = "commit"
      BY <2>2, <3>1, SettledStays DEF CommitIsSettled, Jobs
    <3>2. CASE Succeed(d)
      <4>1. RecipientsOf[Job(d).msg] \in Seq(Recipients)
        BY <2>2 DEF Jobs
      <4>2. \A i \in DOMAIN RecipientsOf[Job(d).msg] : i < index[d]
        BY <3>2, <4>1 DEF Succeed, HasRecipient, TypeOK
      <4>3. Served(Job(d).msg)
        BY <2>1, <4>2 DEF PrefixServed, Served
      <4>4. QED
        BY <2>2, <4>3, SettledStays DEF Settled, Jobs
    <3>3. CASE Write(d)
      <4>1. (ScheduleRetry(d) => NextAttempt(Job(d)) \in Jobs) /\ "retry" \in Topics
        BY <2>2, RetryIsAJob DEF Topics
      <4>2. CASE ScheduleRetry(d)
        <5>1. AppendedTo("retry", NextAttempt(Job(d)))
          BY <4>2 DEF ScheduleRetry, AppendedTo
        <5>2. \E n \in DOMAIN topic'["retry"] : topic'["retry"][n] = NextAttempt(Job(d))
          BY <4>1, <4>2, <5>1, TopicAppended
        <5>3. QED
          BY <2>2, <5>2 DEF Settled
      <4>3. CASE DeadLetter(d)
        BY <2>2, <4>3 DEF DeadLetter, Settled
      <4>4. QED
        BY <3>3, <4>2, <4>3 DEF Write
    <3>4. pc[d] = "commit" \/ Succeed(d) \/ Write(d)
      BY <1>2, <2>5 DEF Moves, SkipDone, Complete, Deliver, NextRecipient, Goto, TypeOK
    <3>5. QED
      BY <3>1, <3>2, <3>3, <3>4
  <2>6. QED
    BY <2>4, <2>5
<1>3. QED
  BY <1>1, <1>2

(* The committed offset moves to a settled job, behind settled jobs.       *)
LEMMA StepCommittedIsSettled ==
  /\ TypeOK /\ Grows /\ HoldsAJob /\ CommitIsSettled /\ CommittedIsSettled
  /\ [Next]_vars
  => CommittedIsSettled'
<1> SUFFICES ASSUME TypeOK, Grows, HoldsAJob, CommitIsSettled, CommittedIsSettled,
                    [Next]_vars, NEW t \in Topics, NEW n \in 1..committed'[t]
             PROVE  n \in DOMAIN topic'[t] /\ Settled(topic[t][n])'
  BY DEF CommittedIsSettled
<1>1. CASE n \in DOMAIN topic[t] /\ Settled(topic[t][n])
  BY <1>1, LogStays
<1>2. CASE committed'[t] = committed[t]
  BY <1>1, <1>2 DEF CommittedIsSettled
<1>3. ASSUME NEW c \in Consumers, Commit(c) PROVE n \in DOMAIN topic[t] /\ Settled(topic[t][n])
  <2>1. CASE t # ReaderOf[c]
    BY <1>3, <2>1 DEF Commit, CommittedIsSettled, TypeOK
  <2>2. CASE t = ReaderOf[c]
    <3>1. committed'[t] = held[c] /\ held[c] \in DOMAIN topic[t]
      BY <1>3, <2>2 DEF Commit, HoldsAJob, Log, TypeOK
    <3>2. topic[t] \in Seq(Jobs)
      BY DEF TypeOK
    <3>3. n \in DOMAIN topic[t] /\ (n = held[c] \/ n \in 1..(held[c] - 1))
      BY <3>1, <3>2
    <3>4. QED
      BY <1>3, <2>2, <3>3 DEF Commit, CommitIsSettled, Job, Log
  <2>3. QED
    BY <2>1, <2>2
<1>4. (\E c \in Consumers : Commit(c)) \/ UNCHANGED committed
  BY DEF Next, Step, vars, kafkaVars, Publish, Fetch, Claim, SkipDone, Busy, ClaimFails,
     Deliver, DeliverFails, Release, Complete, CompleteMissed, CompleteFails, Succeed,
     Write, WriteFails, Crash, Assign, Rebalance, LeaseExpires
<1>5. QED
  BY <1>1, <1>2, <1>3, <1>4

(* What may happen to the reader of a topic.                               *)
LEMMA StepReader ==
  ASSUME TypeOK, HoldsAJob, [Next]_vars, NEW t \in Topics
  PROVE  \/ Assign(t)
         \/ Fetch(assigned[t])
         \/ /\ next'[t] = next[t]
            /\ assigned'[t] = assigned[t]
            /\ pc[assigned[t]] # "idle" =>
                 \/ Commit(assigned[t])
                 \/ pc'[assigned[t]] # "idle" /\ held'[assigned[t]] = held[assigned[t]]
<1> DEFINE a == assigned[t]
<1> USE DEF TypeOK, kafkaVars, consumerVars
<1>1. ASSUME NEW c \in Consumers, Fetch(c), c # a PROVE next'[t] = next[t] /\ assigned'[t] = a
  BY <1>1 DEF Fetch
<1>2. ASSUME NEW c \in Consumers, Step(c), ~Fetch(c)
      PROVE  next'[t] = next[t] /\ assigned'[t] = a
  BY <1>2 DEF Step, Claim, SkipDone, Busy, ClaimFails, Deliver, DeliverFails, Release,
     Complete, CompleteMissed, CompleteFails, Succeed, Write, WriteFails, Commit
<1>3. ASSUME NEW c \in Consumers, Step(c), ~Fetch(a), ~Commit(a), pc[a] # "idle"
      PROVE  pc'[a] # "idle" /\ held'[a] = held[a]
  <2>1. CASE Claim(c)
    BY <1>3, <2>1 DEF Claim, Goto, NextRecipient
  <2>2. CASE SkipDone(c)
    BY <1>3, <2>2 DEF SkipDone, NextRecipient, Goto
  <2>3. CASE Busy(c)
    BY <1>3, <2>3 DEF Busy, StartJob, NextRecipient, Goto
  <2>4. CASE ClaimFails(c)
    BY <1>3, <2>4 DEF ClaimFails, StartJob, NextRecipient, Goto
  <2>5. CASE Deliver(c)
    BY <1>3, <2>5 DEF Deliver, Goto
  <2>6. CASE DeliverFails(c)
    BY <1>3, <2>6 DEF DeliverFails, Goto
  <2>7. CASE Release(c)
    BY <1>3, <2>7 DEF Release, StartJob, Goto
  <2>8. CASE Complete(c)
    BY <1>3, <2>8 DEF Complete, NextRecipient, Goto
  <2>9. CASE CompleteMissed(c)
    BY <1>3, <2>9 DEF CompleteMissed, NextRecipient, StartJob, Goto
  <2>10. CASE CompleteFails(c)
    BY <1>3, <2>10 DEF CompleteFails, StartJob, Goto, NextRecipient
  <2>11. CASE Succeed(c)
    BY <1>3, <2>11 DEF Succeed, Goto
  <2>12. CASE Write(c)
    BY <1>3, <2>12 DEF Write, Goto
  <2>13. CASE WriteFails(c)
    BY <1>3, <2>13 DEF WriteFails, StartJob, Goto
  <2>14. CASE Fetch(c)
    BY <1>3, <2>14 DEF Fetch, StartJob, Goto
  <2>15. CASE Commit(c)
    BY <1>3, <2>15 DEF Commit, Goto
  <2>16. QED
    BY ONLY <1>3, <2>1, <2>2, <2>3, <2>4, <2>5, <2>6, <2>7, <2>8, <2>9, <2>10, <2>11, <2>12, <2>13, <2>14, <2>15 DEF Step
<1>4. ASSUME NEW c \in Consumers, Crash(c), ~Assign(t)
      PROVE  next'[t] = next[t] /\ assigned'[t] = a /\ pc'[a] = pc[a] /\ held'[a] = held[a]
  <2>1. /\ pc' = [pc EXCEPT ![c] = "idle"] /\ UNCHANGED held
        /\ Assign(ReaderOf[c]) \/ (assigned[ReaderOf[c]] # c /\ UNCHANGED <<next, assigned>>)
    BY <1>4 DEF Crash, Goto
  <2>2. c # a /\ a \in Consumers
    BY <1>4, <2>1 DEF Crash
  <2>3. ReaderOf[c] # t \/ UNCHANGED <<next, assigned>>
    BY <1>4, <2>1
  <2>4. next'[t] = next[t] /\ assigned'[t] = a
    BY <1>4, <2>1, <2>3 DEF Assign
  <2>5. QED
    BY <2>1, <2>2, <2>4
<1>5. ASSUME NEW u \in Topics, Rebalance(u), ~Assign(t)
      PROVE  next'[t] = next[t] /\ assigned'[t] = a /\ pc'[a] = pc[a] /\ held'[a] = held[a]
  BY <1>5 DEF Rebalance, Assign
<1>6. ASSUME \/ UNCHANGED vars
             \/ \E m \in Messages : Publish(m)
             \/ \E s \in Slots : LeaseExpires(s)
      PROVE  next'[t] = next[t] /\ assigned'[t] = a /\ pc'[a] = pc[a] /\ held'[a] = held[a]
  BY <1>6 DEF vars, Publish, LeaseExpires
<1>7. QED
  BY <1>1, <1>2, <1>3, <1>4, <1>5, <1>6 DEF Next

(* A reader fetches the next job only after it committed or lost the last. *)
LEMMA StepFetchedIsSettled ==
  /\ TypeOK /\ Grows /\ HoldsAJob /\ CommitIsSettled /\ CommittedIsSettled
  /\ FetchedIsSettled /\ [Next]_vars
  => FetchedIsSettled'
<1> SUFFICES ASSUME TypeOK, Grows, HoldsAJob, CommitIsSettled, CommittedIsSettled,
                    FetchedIsSettled, [Next]_vars,
                    NEW t \in Topics, NEW n \in 1..(next'[t] - 1)
             PROVE  /\ n \in DOMAIN topic'[t]
                    /\ \/ Settled(topic[t][n])'
                       \/ /\ n = next'[t] - 1
                          /\ pc'[assigned'[t]] # "idle" /\ held'[assigned'[t]] = n
  BY DEF FetchedIsSettled
<1> DEFINE a == assigned[t]
<1>0. a \in Consumers /\ ReaderOf[a] = t /\ next[t] \in Nat
  BY DEF TypeOK
<1>1. CASE n \in DOMAIN topic[t] /\ Settled(topic[t][n])
  BY <1>1, LogStays
<1>2. CASE Assign(t)
  <2>1. n \in 1..committed[t]
    BY <1>2 DEF Assign, TypeOK
  <2>2. QED
    BY <1>1, <2>1 DEF CommittedIsSettled
<1>3. CASE Fetch(a)
  <2>1. /\ pc[a] = "idle" /\ next[t] \in DOMAIN topic[t]
        /\ next'[t] = next[t] + 1 /\ assigned'[t] = a
        /\ pc'[a] = "recipients" /\ held'[a] = next[t]
    BY <1>0, <1>3 DEF Fetch, StartJob, Goto, TypeOK
  <2>2. CASE n \in 1..(next[t] - 1)
    BY <1>1, <2>1, <2>2 DEF FetchedIsSettled
  <2>3. CASE n = next[t]
    BY <1>0, <2>1, <2>3, LogStays
  <2>4. QED
    BY <1>0, <2>1, <2>2, <2>3
<1>4. CASE /\ next'[t] = next[t] /\ assigned'[t] = a
           /\ pc[a] # "idle" => \/ Commit(a)
                                \/ pc'[a] # "idle" /\ held'[a] = held[a]
  <2>1. \/ n \in DOMAIN topic[t] /\ Settled(topic[t][n])
        \/ n \in DOMAIN topic[t] /\ n = next[t] - 1 /\ pc[a] # "idle" /\ held[a] = n
    BY <1>4 DEF FetchedIsSettled
  <2>2. CASE Commit(a) /\ held[a] = n /\ n \in DOMAIN topic[t]
    <3>1. Settled(topic[t][n])
      BY <1>0, <2>2 DEF Commit, CommitIsSettled, Job, Log
    <3>2. QED
      BY <1>1, <2>2, <3>1
  <2>3. CASE n \in DOMAIN topic[t] /\ pc'[a] # "idle" /\ held'[a] = n /\ n = next[t] - 1
    BY <1>4, <2>3, LogStays
  <2>4. QED
    BY <1>1, <1>4, <2>1, <2>2, <2>3
<1>5. QED
  BY <1>2, <1>3, <1>4, StepReader

-----------------------------------------------------------------------------
(* A key becomes done only at a consumer that has delivered.               *)
LEMMA StepDoneIsDelivered ==
  /\ TypeOK /\ Grows /\ HoldsAJob /\ PrefixServed /\ DoneIsDelivered /\ [Next]_vars
  => DoneIsDelivered'
<1> SUFFICES ASSUME TypeOK, Grows, HoldsAJob, PrefixServed, DoneIsDelivered, [Next]_vars,
                    NEW m \in Messages, NEW r \in Recipients, lease'[<<m, r>>] = "done"
             PROVE  r \in delivered'[m]
  BY DEF DoneIsDelivered
<1> DEFINE s == <<m, r>>
<1>0. s \in Slots
  BY DEF Slots
<1>1. CASE lease[s] = "done"
  BY <1>1 DEF DoneIsDelivered, Grows
<1>2. ASSUME NEW c \in Consumers, pc[c] = "complete", s = Slot(c) PROVE r \in delivered'[m]
  BY <1>2 DEF PrefixServed, Slot, Grows
<1> USE DEF SetLease, Orphan, TypeOK, kafkaVars, consumerVars
<1>3. ASSUME NEW c \in Consumers, Claim(c) \/ ClaimFails(c) \/ Release(c) PROVE lease[s] = "done"
  BY <1>0, <1>3 DEF Claim, ClaimFails, Release
<1>4. ASSUME NEW c \in Consumers, Complete(c) \/ CompleteMissed(c) \/ CompleteFails(c)
      PROVE  lease[s] = "done" \/ (pc[c] = "complete" /\ s = Slot(c))
  BY <1>0, <1>4 DEF Complete, CompleteMissed, CompleteFails
<1>5. ASSUME NEW c \in Consumers, Crash(c) PROVE lease[s] = "done"
  BY <1>0, <1>5 DEF Crash
<1>6. ASSUME NEW q \in Slots, LeaseExpires(q) PROVE lease[s] = "done"
  BY <1>0, <1>6 DEF LeaseExpires
<1>7. ASSUME NEW c \in Consumers,
             \/ Fetch(c) \/ SkipDone(c) \/ Busy(c) \/ Deliver(c) \/ DeliverFails(c)
             \/ Succeed(c) \/ Write(c) \/ WriteFails(c) \/ Commit(c)
      PROVE  lease[s] = "done"
  BY <1>7 DEF Fetch, SkipDone, Busy, Deliver, DeliverFails, Succeed, Write, WriteFails, Commit
<1>8. ASSUME \/ UNCHANGED vars
             \/ \E p \in Messages : Publish(p)
             \/ \E t \in Topics : Rebalance(t)
      PROVE  lease[s] = "done"
  BY <1>8 DEF vars, Publish, Rebalance
<1>9. QED
  BY <1>1, <1>2, <1>3, <1>4, <1>5, <1>6, <1>7, <1>8 DEF Next, Step

(* How a step may change the logs.                                         *)
LEMMA StepLogs ==
  ASSUME TypeOK, [Next]_vars
  PROVE  \/ UNCHANGED <<topic, dlq>>
         \/ \E m \in Messages : Publish(m)
         \/ \E c \in Consumers : pc[c] = "write" /\ (ScheduleRetry(c) \/ DeadLetter(c))
BY DEF Next, Step, vars, kafkaVars, Fetch, Claim, SkipDone, Busy, ClaimFails,
   Deliver, DeliverFails, Release, Complete, CompleteMissed, CompleteFails, Succeed,
   Write, WriteFails, Commit, Crash, Assign, Rebalance, LeaseExpires

(* A job about to be retried or dead-lettered was preceded by all earlier  *)
(* retries, whichever topic it comes from.                                 *)
LEMMA JobIsNumbered ==
  ASSUME TypeOK, HoldsAJob, RetriesAreNumbered, NEW c \in Consumers, pc[c] = "write"
  PROVE  /\ Job(c) \in Jobs
         /\ \A k \in 1..Job(c).attempt : Scheduled(Job(c).msg, k)
<1>1. held[c] \in DOMAIN Log(c) /\ Job(c) \in Jobs
  BY JobType DEF HoldsAJob
<1>2. ReaderOf[c] = "main" \/ ReaderOf[c] = "retry"
  BY DEF Topics
<1>3. QED
  BY <1>1, <1>2 DEF RetriesAreNumbered, Job, Log

LEMMA ScheduledStays ==
  ASSUME Grows, NEW m, NEW k, Scheduled(m, k)
  PROVE  Scheduled(m, k)'
BY DEF Grows, Topics, Scheduled

(* Attempts are counted without a gap.                                     *)
LEMMA StepRetriesAreNumbered ==
  /\ TypeOK /\ Grows /\ HoldsAJob /\ RetriesAreNumbered /\ [Next]_vars
  => RetriesAreNumbered'
<1> SUFFICES ASSUME TypeOK, Grows, HoldsAJob, RetriesAreNumbered, [Next]_vars
             PROVE  RetriesAreNumbered'
  OBVIOUS
<1>0. "main" \in Topics /\ "retry" \in Topics /\ "main" # "retry"
  BY DEF Topics
<1>1. CASE topic' = topic
  BY <1>1 DEF RetriesAreNumbered, Scheduled
<1>2. ASSUME NEW m \in Messages, Publish(m) PROVE RetriesAreNumbered'
  <2> DEFINE j == [msg |-> m, attempt |-> 0]
  <2>1. j \in Jobs /\ AppendedTo("main", j)
    BY <1>2 DEF Publish, Jobs, AppendedTo
  <2>2. /\ topic'["retry"] = topic["retry"]
        /\ \A n \in DOMAIN topic'["main"] :
             \/ n \in DOMAIN topic["main"] /\ topic'["main"][n] = topic["main"][n]
             \/ topic'["main"][n] = j
    BY <1>0, <2>1, TopicAppended
  <2>3. QED
    BY <2>2 DEF RetriesAreNumbered, Scheduled
<1>3. ASSUME NEW c \in Consumers, pc[c] = "write", ScheduleRetry(c)
      PROVE  RetriesAreNumbered'
  <2>1. PICK old \in Jobs : old = Job(c)
    BY <1>3, JobIsNumbered
  <2>2. \A k \in 1..old.attempt : Scheduled(old.msg, k)
    BY <1>3, <2>1, JobIsNumbered
  <2>3. PICK j \in Jobs : j = NextAttempt(old)
    <3>1. NextAttempt(old) \in Jobs
      BY <1>3, <2>1, RetryIsAJob
    <3>2. QED
      BY <3>1
  <2>4. /\ j = [msg |-> old.msg, attempt |-> old.attempt + 1]
        /\ j.msg = old.msg /\ j.attempt = old.attempt + 1 /\ old.attempt \in Nat
    BY <2>3 DEF NextAttempt, Jobs
  <2>5. topic' = [topic EXCEPT !["retry"] = Append(@, j)]
    BY <1>3, <2>1, <2>3 DEF ScheduleRetry
  <2>6. /\ topic'["main"] = topic["main"]
        /\ \E n \in DOMAIN topic'["retry"] : topic'["retry"][n] = j
        /\ \A n \in DOMAIN topic'["retry"] :
             \/ n \in DOMAIN topic["retry"] /\ topic'["retry"][n] = topic["retry"][n]
             \/ topic'["retry"][n] = j
    <3>0. ASSUME NEW u \in Topics, u = "retry"
          PROVE  /\ \A v \in Topics : v # u => topic'[v] = topic[v]
                 /\ \E n \in DOMAIN topic'[u] : topic'[u][n] = j
                 /\ \A n \in DOMAIN topic'[u] : n \in DOMAIN topic[u] \/ topic'[u][n] = j
      <4>1. AppendedTo(u, j)
        BY ONLY <2>5, <3>0 DEF AppendedTo
      <4>2. /\ \A v \in Topics : v # u => topic'[v] = topic[v]
            /\ \E n \in DOMAIN topic'[u] : topic'[u][n] = j
            /\ \A n \in DOMAIN topic'[u] : n \in DOMAIN topic[u] \/ topic'[u][n] = j
        BY ONLY <4>1, <3>0, TypeOK, j \in Jobs, TopicAppended
      <4>3. QED
        BY ONLY <4>2
    <3>1. /\ \A u \in Topics : u # "retry" => topic'[u] = topic[u]
          /\ \E n \in DOMAIN topic'["retry"] : topic'["retry"][n] = j
          /\ \A n \in DOMAIN topic'["retry"] :
               n \in DOMAIN topic["retry"] \/ topic'["retry"][n] = j
      BY ONLY <1>0, <3>0
    <3>2. QED
      BY <1>0, <3>1 DEF Grows
  <2>7. \A k \in 1..j.attempt : Scheduled(j.msg, k)'
    <3>1. TAKE k \in 1..j.attempt
    <3>2. k = j.attempt \/ k \in 1..old.attempt
      BY <2>4
    <3>3. CASE k = j.attempt
      BY <2>4, <2>6, <3>3 DEF Scheduled
    <3>4. CASE k \in 1..old.attempt
      BY <2>2, <2>4, <3>4, ScheduledStays
    <3>5. QED
      BY <3>2, <3>3, <3>4
  <2>8. ASSUME NEW n \in DOMAIN topic'["retry"], NEW k \in 1..topic'["retry"][n].attempt
        PROVE  Scheduled(topic["retry"][n].msg, k)'
    <3>1. CASE topic'["retry"][n] = j
      BY <2>7, <2>8, <3>1
    <3>2. CASE n \in DOMAIN topic["retry"] /\ topic'["retry"][n] = topic["retry"][n]
      <4>1. Scheduled(topic["retry"][n].msg, k)
        BY <3>2 DEF RetriesAreNumbered
      <4>2. QED
        BY <3>2, <4>1 DEF Scheduled, Grows, Topics
    <3>3. QED
      BY <2>6, <3>1, <3>2
  <2>9. QED
    BY <2>6, <2>8 DEF RetriesAreNumbered
<1>4. QED
  BY <1>1, <1>2, <1>3, StepLogs DEF DeadLetter

(* Only a job whose last retry failed is dead-lettered.                    *)
LEMMA StepDeadLetterIsLast ==
  /\ TypeOK /\ Grows /\ HoldsAJob /\ RetriesAreNumbered /\ DeadLetterIsLast /\ [Next]_vars
  => DeadLetterIsLast'
<1> SUFFICES ASSUME TypeOK, Grows, HoldsAJob, RetriesAreNumbered, DeadLetterIsLast,
                    [Next]_vars, NEW m \in dlq', NEW k \in 1..MaxAttempts
             PROVE  Scheduled(m, k)'
  BY DEF DeadLetterIsLast, Scheduled
<1>1. CASE m \in dlq
  BY <1>1, ScheduledStays DEF DeadLetterIsLast, Scheduled
<1>2. ASSUME NEW c \in Consumers, pc[c] = "write", DeadLetter(c) PROVE Scheduled(m, k)'
  <2>1. Job(c) \in Jobs /\ \A i \in 1..Job(c).attempt : Scheduled(Job(c).msg, i)
    BY <1>2, JobIsNumbered
  <2>2. k \in 1..Job(c).attempt /\ (m \in dlq \/ m = Job(c).msg)
    BY <1>2, <2>1 DEF DeadLetter, Jobs
  <2>3. QED
    BY <1>1, <2>1, <2>2, ScheduledStays
<1>3. QED
  BY <1>1, <1>2, StepLogs DEF Publish, ScheduleRetry

-----------------------------------------------------------------------------
LEMMA InitIInv == Init => IInv
<1> SUFFICES ASSUME Init PROVE IInv
  OBVIOUS
<1>1. TypeOK
  <2>1. <<>> \in Seq(Jobs)
    OBVIOUS
  <2>2. QED
    BY <2>1 DEF Init, TypeOK, LeaseValues, Steps
<1>2. \A t \in Topics : DOMAIN topic[t] = {} /\ committed[t] = 0 /\ next[t] = 1
  BY DEF Init
<1>3. HoldsAJob /\ PrefixServed /\ CommitIsSettled
  BY DEF Init, HoldsAJob, PrefixServed, CommitIsSettled
<1>4. FetchedIsSettled /\ CommittedIsSettled
  BY <1>2 DEF FetchedIsSettled, CommittedIsSettled
<1>5. DoneIsDelivered
  BY DEF Init, DoneIsDelivered, Slots
<1>6. RetriesAreNumbered /\ DeadLetterIsLast
  BY <1>2 DEF Init, RetriesAreNumbered, DeadLetterIsLast, Topics
<1>7. QED
  BY <1>1, <1>3, <1>4, <1>5, <1>6 DEF IInv

LEMMA StepIInv == IInv /\ [Next]_vars => IInv'
<1> SUFFICES ASSUME IInv, [Next]_vars PROVE IInv'
  OBVIOUS
<1> USE DEF IInv
<1>1. TypeOK' /\ Grows
  BY StepTypeOK, StepGrows
<1>2. HoldsAJob'
  BY <1>1, StepHoldsAJob
<1>3. PrefixServed'
  BY <1>1, <1>2, StepPrefixServed
<1>4. CommitIsSettled'
  BY <1>1, StepCommitIsSettled
<1>5. FetchedIsSettled'
  BY <1>1, StepFetchedIsSettled
<1>6. CommittedIsSettled'
  BY <1>1, StepCommittedIsSettled
<1>7. DoneIsDelivered'
  BY <1>1, StepDoneIsDelivered
<1>8. RetriesAreNumbered'
  BY <1>1, StepRetriesAreNumbered
<1>9. DeadLetterIsLast'
  BY <1>1, StepDeadLetterIsLast
<1>10. QED
  BY <1>1, <1>2, <1>3, <1>4, <1>5, <1>6, <1>7, <1>8, <1>9

LEMMA Invariance == Spec => []IInv
BY InitIInv, StepIInv, PTL DEF Spec

(* The variables keep their types.                                         *)
THEOREM TypeCorrect == Spec => []TypeOK
<1>1. IInv => TypeOK
  BY DEF IInv
<1>2. QED
  BY <1>1, Invariance, PTL

(* No committed offset makes Kafka forget a job that was not served,       *)
(* retried or dead-lettered (main.go, consumeLoop and                      *)
(* processFetchedMessage).                                                 *)
THEOREM OffsetsAreSafe == Spec => []CommittedIsSettled
<1>1. IInv => CommittedIsSettled
  BY DEF IInv
<1>2. QED
  BY <1>1, Invariance, PTL

(* A done key stands for a delivery (recipient_lease.go, the scripts, and  *)
(* dispatchGroup that runs them).                                          *)
THEOREM DoneIsTrue == Spec => []DoneIsDelivered
<1>1. IInv => DoneIsDelivered
  BY DEF IInv
<1>2. QED
  BY <1>1, Invariance, PTL

(* The dead-letter topic gets a message only after all of its retries      *)
(* (main.go, handleGroupMessage).                                          *)
THEOREM DeadLettersAreLast == Spec => []DeadLetterIsLast
<1>1. IInv => DeadLetterIsLast
  BY DEF IInv
<1>2. QED
  BY <1>1, Invariance, PTL

-----------------------------------------------------------------------------
(* A replica owns the one lease of the recipient it serves at the moment.  *)
Owns(c, s) == pc[c] \in {"deliver", "complete", "release"} /\ Slot(c) = s

ClaimsHaveOwners == \A s \in Slots, c \in Consumers : lease[s] = c => Owns(c, s)

(* An owner that stays where it is keeps its recipient.                    *)
LEMMA OwnerStays ==
  ASSUME TypeOK, Grows, HoldsAJob, NEW c \in Consumers, NEW s, Owns(c, s),
         pc'[c] \in {"deliver", "complete", "release"},
         held'[c] = held[c], index'[c] = index[c]
  PROVE  Owns(c, s)'
<1>1. Job(c)' = Job(c)
  BY JobStays DEF Owns, HoldsAJob
<1>2. QED
  BY <1>1 DEF Owns, Slot

(* A step of another replica takes no lease in the name of this one.       *)
LEMMA OthersKeepClaims ==
  ASSUME TypeOK, HoldsAJob, NEW c \in Consumers, NEW d \in Consumers, c # d,
         Step(d) \/ Crash(d), NEW s \in Slots, lease'[s] = c
  PROVE  /\ lease[s] = c
         /\ pc'[c] = pc[c] /\ held'[c] = held[c] /\ index'[c] = index[c]
<1> USE DEF TypeOK, kafkaVars, consumerVars
<1>1. CASE Claim(d) \/ ClaimFails(d) \/ Release(d) \/ CompleteFails(d)
  BY <1>1 DEF Claim, ClaimFails, Release, CompleteFails, SetLease, Orphan, Goto
<1>2. CASE Complete(d) \/ CompleteMissed(d)
  BY <1>2 DEF Complete, CompleteMissed, SetLease, NextRecipient, StartJob, Goto
<1>3. CASE Fetch(d) \/ SkipDone(d) \/ Busy(d) \/ WriteFails(d)
  BY <1>3 DEF Fetch, SkipDone, Busy, WriteFails, StartJob, NextRecipient, Goto
<1>4. CASE Deliver(d) \/ DeliverFails(d) \/ Succeed(d) \/ Write(d) \/ Commit(d)
  BY <1>4 DEF Deliver, DeliverFails, Succeed, Write, Commit, Goto
<1>5. CASE Crash(d)
  BY <1>5 DEF Crash, Orphan, Goto
<1>6. QED
  BY <1>1, <1>2, <1>3, <1>4, <1>5 DEF Step

(* A replica leaves a recipient only without its lease.                    *)
LEMMA OwnKeepsClaims ==
  ASSUME TypeOK, HoldsAJob, Grows, ClaimsHaveOwners, NEW c \in Consumers,
         Step(c) \/ Crash(c), NEW s \in Slots, lease'[s] = c
  PROVE  Owns(c, s)'
<1> USE DEF TypeOK, kafkaVars, consumerVars
<1>0. lease[s] = c => Owns(c, s)
  BY DEF ClaimsHaveOwners
<1>1. CASE Claim(c)
  <2>1. Slot(c) = s
    BY <1>0, <1>1 DEF Claim, SetLease, Owns
  <2>2. pc'[c] = "deliver" /\ held' = held /\ index' = index /\ topic' = topic
    BY <1>1 DEF Claim, Goto
  <2>3. QED
    BY <2>1, <2>2 DEF Owns, Slot, Job, Log
<1>2. CASE Deliver(c) \/ DeliverFails(c)
  <2>1. /\ lease' = lease /\ held' = held /\ index' = index
        /\ pc'[c] \in {"complete", "release"}
    BY <1>2 DEF Deliver, DeliverFails, Goto
  <2>2. QED
    BY <1>0, <2>1, OwnerStays
<1>3. CASE Release(c) \/ Complete(c) \/ CompleteMissed(c) \/ CompleteFails(c)
  <2>1. lease[s] = c /\ s # Slot(c)
    BY <1>3 DEF Release, Complete, CompleteMissed, CompleteFails, SetLease, Orphan
  <2>2. QED
    BY <1>0, <2>1 DEF Owns
<1>4. CASE \/ Fetch(c) \/ SkipDone(c) \/ Busy(c) \/ ClaimFails(c)
           \/ Succeed(c) \/ Write(c) \/ WriteFails(c) \/ Commit(c)
  <2>1. lease[s] = c /\ pc[c] \notin {"deliver", "complete", "release"}
    BY <1>4 DEF Fetch, SkipDone, Busy, ClaimFails, Succeed, Write, WriteFails, Commit, SetLease
  <2>2. QED
    BY <1>0, <2>1 DEF Owns
<1>5. CASE Crash(c)
  BY <1>5 DEF Crash, Orphan
<1>6. QED
  BY <1>1, <1>2, <1>3, <1>4, <1>5 DEF Step

LEMMA StepClaimsHaveOwners ==
  ASSUME TypeOK, HoldsAJob, Grows, ClaimsHaveOwners, [Next]_vars
  PROVE  ClaimsHaveOwners'
<1> SUFFICES ASSUME NEW s \in Slots, NEW c \in Consumers, lease'[s] = c
             PROVE  Owns(c, s)'
  BY DEF ClaimsHaveOwners
<1>1. CASE lease[s] = c /\ pc'[c] = pc[c] /\ held'[c] = held[c] /\ index'[c] = index[c]
  BY <1>1, OwnerStays DEF ClaimsHaveOwners, Owns
<1>2. ASSUME NEW d \in Consumers, Step(d) \/ Crash(d) PROVE Owns(c, s)'
  BY <1>1, <1>2, OthersKeepClaims, OwnKeepsClaims
<1>3. ASSUME NEW q \in Slots, LeaseExpires(q) PROVE Owns(c, s)'
  BY <1>1, <1>3 DEF LeaseExpires, TypeOK, consumerVars
<1>4. CASE \/ UNCHANGED vars
           \/ \E m \in Messages : Publish(m)
           \/ \E t \in Topics : Rebalance(t)
  BY <1>1, <1>4 DEF vars, Publish, Rebalance, consumerVars
<1>5. QED
  BY <1>2, <1>3, <1>4 DEF Next

(* A recipient looks busy only while a live replica is serving it, or its  *)
(* lease is an orphan that expires: a replica that goes on to anything     *)
(* else has dropped its lease, so a job repeated in place never waits for  *)
(* a replica that has moved on, and no replica holds two leases            *)
(* (recipient_lease.go and dispatchGroup).                                 *)
THEOREM BusyMeansServed == Spec => []ClaimsHaveOwners
<1>1. Init => ClaimsHaveOwners
  BY DEF Init, ClaimsHaveOwners
<1>2. IInv /\ ClaimsHaveOwners /\ [Next]_vars => ClaimsHaveOwners'
  BY StepClaimsHaveOwners, StepGrows DEF IInv
<1>3. QED
  BY <1>1, <1>2, Invariance, PTL DEF Spec

=============================================================================
