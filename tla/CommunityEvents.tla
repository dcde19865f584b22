---------------------------- MODULE CommunityEvents ----------------------------
(***************************************************************************)
(* From an event of a community to its members' inboxes                    *)
(* (src/internal/community/worker.go).                                     *)
(*                                                                         *)
(* Transactions of the community service leave events in                   *)
(* community_event_outbox, those of the learning tasks leave theirs in     *)
(* task_notification_outbox, from where a publisher copies them.  The      *)
(* publisher of every replica leases rows, writes them to a Kafka topic    *)
(* and settles them under the lease's token; a consumer reads the topic    *)
(* and files a notification for everybody who is a member then, before it  *)
(* commits its offset.                                                     *)
(***************************************************************************)
EXTENDS Naturals, Sequences, SequencesExt

CONSTANTS
  Users, NoOne,
  Events,
  TaskEvents,      \* those that come from the learning tasks
  ActorOf,         \* [Events -> Users]
  RecipientOf,     \* [Events -> Users or NoOne, for all members]
  Publishers,      \* RunPublisher of each replica
  MaxAttempts,     \* 10 in the code
  MaxMishaps,  \* bound: crashes, stalls and failed calls
  MaxChanges       \* bound: how often the membership changes

ASSUME CommunityEventsAssumption ==
  /\ NoOne \notin Users
  /\ TaskEvents \subseteq Events
  /\ ActorOf \in [Events -> Users]
  /\ RecipientOf \in [Events -> Users \cup {NoOne}]
  /\ MaxAttempts \in Nat \ {0}
  /\ MaxMishaps \in Nat /\ MaxChanges \in Nat

VARIABLES
  active,       \* the active members of the community
  taskOutbox,   \* task_notification_outbox
  status,       \* community_event_outbox: status, or absent
  attempts,     \* how often a row was leased
  due,          \* the rows whose available_at has passed
  pc,           \* where a publisher stands
  row,          \* the row it leased
  lease,        \* its lease_token: the number of the lease, unique in its row
  written,      \* whether WriteMessages returned no error
  topic,        \* the Kafka partition of the community
  committed,    \* the consumer group's offset in it
  hand,         \* the offset of the message the consumer works on, or 0
  filed,        \* that message's notifications are committed
  inbox,        \* community_notifications: the recipients of an event
  owed,         \* history: who was to be notified and has been a member since
  mishaps, changes

outboxVars == <<taskOutbox, status, attempts, due>>
publisherVars == <<pc, row, lease, written>>
consumerVars == <<committed, hand, filed, inbox>>
memberVars == <<active, changes>>
eventVars == <<memberVars, outboxVars, publisherVars, topic, consumerVars, owed, mishaps>>

\* No row is leased: any event will do.
AnyEvent == CHOOSE e \in Events : TRUE

EventsInit ==
  /\ active \in SUBSET Users
  /\ taskOutbox = {}
  /\ status = [e \in Events |-> "absent"]
  /\ attempts = [e \in Events |-> 0]
  /\ due = {}
  /\ pc = [p \in Publishers |-> "idle"]
  /\ row = [p \in Publishers |-> AnyEvent]
  /\ lease = [p \in Publishers |-> 0]
  /\ written = [p \in Publishers |-> FALSE]
  /\ topic = <<>>
  /\ committed = 0
  /\ hand = 0
  /\ filed = FALSE
  /\ inbox = [e \in Events |-> {}]
  /\ owed = [e \in Events |-> {}]
  /\ mishaps = 0
  /\ changes = 0

Mishap == mishaps < MaxMishaps /\ mishaps' = mishaps + 1
Goto(p, step) == pc' = [pc EXCEPT ![p] = step]

\* Faulty: the one an event is for is not asked to be a member.
RecipientsNamed(e) ==
  {u \in Users \ {ActorOf[e]} : u = RecipientOf[e] \/ (u \in active /\ RecipientOf[e] = NoOne)}

(* Whom the projection of an event reaches: members other than its actor,  *)
(* or the one it is for.                                                   *)
Recipients(e) ==
  {u \in active \ {ActorOf[e]} : RecipientOf[e] \in {NoOne, u}}

-----------------------------------------------------------------------------
(* A transaction that emits the event commits; its actor is a member.      *)
Emit(e) ==
  /\ e \notin TaskEvents /\ status[e] = "absent" /\ ActorOf[e] \in active
  /\ status' = [status EXCEPT ![e] = "pending"]
  /\ due' = due \cup {e}
  /\ owed' = [owed EXCEPT ![e] = Recipients(e)]
  /\ UNCHANGED <<memberVars, taskOutbox, attempts, publisherVars, topic, consumerVars, mishaps>>

(* A transaction of the learning tasks commits a notification.             *)
RecordTask(e) ==
  /\ e \in TaskEvents \ taskOutbox /\ ActorOf[e] \in active
  /\ taskOutbox' = taskOutbox \cup {e}
  /\ owed' = [owed EXCEPT ![e] = Recipients(e)]
  /\ UNCHANGED <<memberVars, status, attempts, due, publisherVars, topic, consumerVars, mishaps>>

Change == changes < MaxChanges /\ changes' = changes + 1

Join(u) ==
  /\ u \notin active /\ Change
  /\ active' = active \cup {u}
  /\ UNCHANGED <<outboxVars, publisherVars, topic, consumerVars, owed, mishaps>>

Leave(u) ==
  /\ u \in active /\ Change
  /\ active' = active \ {u}
  /\ owed' = [e \in Events |-> owed[e] \ {u}]
  /\ UNCHANGED <<outboxVars, publisherVars, topic, consumerVars, mishaps>>

-----------------------------------------------------------------------------
Leased(e) == status[e] = "processing" /\ \E p \in Publishers :
  pc[p] \in {"publishing", "settling"} /\ row[p] = e /\ lease[p] = attempts[e]

(* Time passes a retry's delay, or the lease of a publisher that is gone.  *)
RowBecomesDue(e) ==
  /\ status[e] \in {"pending", "processing"} /\ e \notin due /\ ~Leased(e)
  /\ due' = due \cup {e}
  /\ UNCHANGED <<memberVars, taskOutbox, status, attempts, publisherVars, topic, consumerVars, owed, mishaps>>

(* A publisher is stopped for longer than its lease of 30 s, although it   *)
(* works under a deadline of 12 s.                                         *)
Stall(e) ==
  /\ e \notin due /\ Leased(e) /\ Mishap
  /\ due' = due \cup {e}
  /\ UNCHANGED <<memberVars, taskOutbox, status, attempts, publisherVars, topic, consumerVars, owed>>

(* PublishBatch begins with projectTasks: one INSERT IGNORE ... SELECT.    *)
ProjectTasks(p) ==
  LET new == {e \in taskOutbox : status[e] = "absent"} IN
  /\ pc[p] = "idle"
  /\ status' = [e \in Events |-> IF e \in new THEN "pending" ELSE status[e]]
  /\ due' = due \cup new
  /\ Goto(p, "claiming")
  /\ UNCHANGED <<memberVars, taskOutbox, attempts, row, lease, written, topic, consumerVars, owed, mishaps>>

\* Faulty: a row whose lease ran out is not taken again.
ReadyPendingOnly(e) == status[e] = "pending" /\ e \in due

Ready(e) == status[e] \in {"pending", "processing"} /\ e \in due

(* The claim's transaction.  It takes the earliest row that no other claim *)
(* has locked just then, so it may be any.                                 *)
Claim(p, e) ==
  /\ pc[p] = "claiming" /\ Ready(e)
  /\ status' = [status EXCEPT ![e] = "processing"]
  /\ attempts' = [attempts EXCEPT ![e] = @ + 1]
  /\ due' = due \ {e}
  /\ row' = [row EXCEPT ![p] = e]
  /\ lease' = [lease EXCEPT ![p] = attempts[e] + 1]
  /\ Goto(p, "publishing")
  /\ UNCHANGED <<memberVars, taskOutbox, written, topic, consumerVars, owed, mishaps>>

\* The publisher is done with its row.
LetGo(p, step) ==
  /\ Goto(p, step)
  /\ row' = [row EXCEPT ![p] = AnyEvent]
  /\ lease' = [lease EXCEPT ![p] = 0]
  /\ written' = [written EXCEPT ![p] = FALSE]

(* No row is ready.  That a batch ends after ten is counted as a stop.     *)
EndBatch(p) ==
  /\ pc[p] = "claiming" /\ \A e \in Events : ~Ready(e)
  /\ LetGo(p, "idle")
  /\ UNCHANGED <<memberVars, outboxVars, topic, consumerVars, owed, mishaps>>

Publish(p) ==
  /\ pc[p] = "publishing"
  /\ topic' = Append(topic, row[p])
  /\ written' = [written EXCEPT ![p] = TRUE]
  /\ Goto(p, "settling")
  /\ UNCHANGED <<memberVars, outboxVars, row, lease, consumerVars, owed, mishaps>>

(* WriteMessages fails or runs into its five seconds, with or without an   *)
(* effect.                                                                 *)
PublishFails(p) ==
  /\ pc[p] = "publishing" /\ Mishap
  /\ topic' \in {topic, Append(topic, row[p])}
  /\ Goto(p, "settling")
  /\ UNCHANGED <<memberVars, outboxVars, row, lease, written, consumerVars, owed>>

Outcome(p) ==
  IF written[p] THEN "done" ELSE IF lease[p] >= MaxAttempts THEN "dead" ELSE "pending"

\* Faulty: the lease's token is not compared.
HoldsAnyLease(p) == TRUE

\* WHERE ... lease_token = ? AND status = 'processing'
HoldsLease(p) == status[row[p]] = "processing" /\ attempts[row[p]] = lease[p]

(* The outcome, if the lease is still this publisher's; a failure ends the *)
(* batch.                                                                  *)
Settle(p) ==
  /\ pc[p] = "settling"
  /\ IF HoldsLease(p)
       THEN status' = [status EXCEPT ![row[p]] = Outcome(p)] /\ due' = due \ {row[p]}
       ELSE UNCHANGED <<status, due>>
  /\ LetGo(p, IF written[p] THEN "claiming" ELSE "idle")
  /\ UNCHANGED <<memberVars, taskOutbox, attempts, topic, consumerVars, owed, mishaps>>

(* A statement fails, the batch runs out of rows or of time, or the        *)
(* replica restarts; a lease that was taken stays.                         *)
PublisherStops(p) ==
  /\ pc[p] # "idle" /\ Mishap
  /\ LetGo(p, "idle")
  /\ UNCHANGED <<memberVars, outboxVars, topic, consumerVars, owed>>

-----------------------------------------------------------------------------
(* FetchMessage: the message after the offset committed.                   *)
Fetch ==
  /\ hand = 0 /\ committed < Len(topic)
  /\ hand' = committed + 1
  /\ filed' = FALSE
  /\ UNCHANGED <<memberVars, outboxVars, publisherVars, topic, committed, inbox, owed, mishaps>>

(* Project: the row is read again and INSERT IGNORE files a notification   *)
(* for each who is a member now; a failure is tried again.                 *)
Project ==
  /\ hand # 0 /\ ~filed
  /\ LET e == topic[hand] IN inbox' = [inbox EXCEPT ![e] = @ \cup Recipients(e)]
  /\ filed' = TRUE
  /\ UNCHANGED <<memberVars, outboxVars, publisherVars, topic, committed, hand, owed, mishaps>>

\* Faulty: the offset is committed whether the projection succeeded or not.
CommitAnyway ==
  /\ hand # 0
  /\ committed' = hand
  /\ hand' = 0
  /\ filed' = FALSE
  /\ UNCHANGED <<memberVars, outboxVars, publisherVars, topic, inbox, owed, mishaps>>

Commit ==
  /\ hand # 0 /\ filed
  /\ committed' = hand
  /\ hand' = 0
  /\ filed' = FALSE
  /\ UNCHANGED <<memberVars, outboxVars, publisherVars, topic, inbox, owed, mishaps>>

(* The commit fails: the loop projects again.                              *)
CommitFails ==
  /\ hand # 0 /\ filed /\ Mishap
  /\ filed' = FALSE
  /\ UNCHANGED <<memberVars, outboxVars, publisherVars, topic, committed, hand, inbox, owed>>

(* The consumer restarts, or the partition moves to another replica.       *)
ConsumerRestarts ==
  /\ hand # 0 /\ Mishap
  /\ hand' = 0
  /\ filed' = FALSE
  /\ UNCHANGED <<memberVars, outboxVars, publisherVars, topic, committed, inbox, owed>>

-----------------------------------------------------------------------------
PublisherWorks(p) ==
  ProjectTasks(p) \/ (\E e \in Events : Claim(p, e)) \/ EndBatch(p) \/ Publish(p) \/ Settle(p)

EventsNext ==
  \/ \E e \in Events : Emit(e) \/ RecordTask(e) \/ RowBecomesDue(e) \/ Stall(e)
  \/ \E u \in Users : Join(u) \/ Leave(u)
  \/ \E p \in Publishers : PublisherWorks(p) \/ PublishFails(p) \/ PublisherStops(p)
  \/ Fetch \/ Project \/ Commit \/ CommitFails \/ ConsumerRestarts

(* Time passes, RunPublisher ticks every second for as long as a replica   *)
(* runs, and the consumer's loop goes on; failures are bounded, not fair.  *)
EventsFairness ==
  /\ \A e \in Events : WF_eventVars(RowBecomesDue(e))
  /\ \A p \in Publishers : WF_eventVars(PublisherWorks(p))
  /\ WF_eventVars(Fetch \/ Project \/ Commit)

EventsSpec == EventsInit /\ [][EventsNext]_eventVars

EventsFairSpec == EventsSpec /\ EventsFairness

-----------------------------------------------------------------------------
(* Rows, publishers, the topic and the inboxes hold values of their types. *)
EventsTypeOK ==
  /\ active \subseteq Users /\ taskOutbox \subseteq TaskEvents
  /\ status \in [Events -> {"absent", "pending", "processing", "done", "dead"}]
  /\ attempts \in [Events -> Nat] /\ due \subseteq Events
  /\ pc \in [Publishers -> {"idle", "claiming", "publishing", "settling"}]
  /\ row \in [Publishers -> Events \cup {AnyEvent}] /\ lease \in [Publishers -> Nat]
  /\ written \in [Publishers -> BOOLEAN]
  /\ topic \in Seq(Events) /\ committed \in 0..Len(topic) /\ hand \in 0..Len(topic)
  /\ filed \in BOOLEAN
  /\ inbox \in [Events -> SUBSET Users] /\ owed \in [Events -> SUBSET Users]
  /\ mishaps \in 0..MaxMishaps /\ changes \in 0..MaxChanges

OutboxPhase == [e \in Events |->
  IF status[e] \in {"pending", "processing"} \/ (e \in taskOutbox /\ status[e] = "absent")
    THEN "owed" ELSE status[e]]

InTopic == [e \in Events |-> IF e \in ToSet(topic) THEN {"topic"} ELSE {}]

Promise == INSTANCE AtLeastOnce WITH
  Jobs <- Events, Targets <- {"topic"}, TargetsOf <- [e \in Events |-> {"topic"}],
  phase <- OutboxPhase, served <- InTopic

(* The outbox keeps its promise: a row done is in the topic, and a settled *)
(* row stays settled, although a publisher may come back after its lease   *)
(* was given to another (lease_token, worker.go:104).                      *)
ImplementsAtLeastOnce == Promise!Spec

(* Everyone who has been a member since the event has the notification     *)
(* before the offset passes its message, so that no crash, repetition or   *)
(* change of membership loses it (Project before CommitMessages).          *)
CommittedIsFiled ==
  \A n \in 1..committed : owed[topic[n]] \subseteq inbox[topic[n]]

(* A notification is only ever added, and for a member of that moment whom *)
(* the event concerns, and never to the one who caused it: what a removed  *)
(* member was to get in a repetition he does not get (worker.go:116).      *)
OnlyMembersAreNotified ==
  [][ \A e \in Events :
        /\ inbox[e] \subseteq inbox'[e]
        /\ \A u \in inbox'[e] \ inbox[e] :
             u \in active /\ u # ActorOf[e] /\ RecipientOf[e] \in {NoOne, u} ]_eventVars

(* Every event recorded is given up after MaxAttempts failures or reaches  *)
(* everybody it was to reach who is still a member.                        *)
EventuallyNotified ==
  \A e \in Events :
    e \in taskOutbox \/ status[e] # "absent"
      ~> status[e] = "dead" \/ owed[e] \subseteq inbox[e]

=============================================================================
