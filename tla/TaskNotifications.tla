--------------------------- MODULE TaskNotifications ---------------------------
(***************************************************************************)
(* The notices that learning tasks owe become chat messages                *)
(* (src/internal/logic/task_notifications.go).                             *)
(*                                                                         *)
(* Every second each Logic replica reads the notices that are due, claims  *)
(* them one by one with a conditional UPDATE that leases the row for 30 s, *)
(* and for each stores a message of the system user together with its      *)
(* outbox rows, whose delivery is module DeliveryOutbox's.  The message    *)
(* carries a client id made of the event and the target.  The outcome is   *)
(* written under the generation that the worker computed from its first    *)
(* read.  As in DeliveryOutbox, due stands for available_at <= now.        *)
(***************************************************************************)
EXTENDS LearningTask

CONSTANTS
  Notifiers,       \* runTaskNotifications, of each replica of Logic
  MaxAttempts,     \* taskNotificationAttempts (10 in the code)
  BatchLimit,      \* notices a run loads (50 in the code)
  MaxNotices       \* bound: notices of a scenario in which notifiers run

ASSUME TaskNotificationsAssumption ==
  /\ MaxAttempts \in Nat \ {0} /\ BatchLimit \in Nat \ {0}
  /\ MaxNotices \in Nat
  /\ \A s \in Scenarios : s.running \subseteq Notifiers /\ s.disruptions \in Nat

VARIABLES
  running,      \* the notifiers of the scenario
  at,           \* where a notifier stands
  batch,        \* the attempts read of the rows it has not finished with, by id
  recipients,   \* of the message it is about to store
  outcome,      \* what its attempt came to
  messages,     \* what it stored: each with its notice and its recipients
  disruptions   \* bound: crashes, stalls past a lease, failed calls to come

notifierVars == <<running, at, batch, recipients, outcome, messages, disruptions>>

NoBatch == [n \in {} |-> 0]

NotifiersStartAs(s) ==
  /\ running = s.running
  /\ at = [w \in Notifiers |-> "idle"]
  /\ batch = [w \in Notifiers |-> NoBatch]
  /\ recipients = [w \in Notifiers |-> {}]
  /\ outcome = [w \in Notifiers |-> "none"]
  /\ messages = <<>>
  /\ disruptions = s.disruptions

Open == {"pending", "processing"}

\* The rows of a batch are taken in the order of their ids.
Current(w, n) == n \in DOMAIN batch[w] /\ \A m \in DOMAIN batch[w] : n <= m

\* clientID := task_event:<event>:<target>
KeyOfNotice(n) == <<notices[n].event, notices[n].to>>
Sent(n) == \E m \in DOMAIN messages : messages[m].key = KeyOfNotice(n)

Disrupted == disruptions > 0 /\ disruptions' = disruptions - 1

Move(w, step) == at' = [at EXCEPT ![w] = step]

\* The attempt is over; its outcome is to be written.
ComesTo(w, result) ==
  /\ Move(w, "settle")
  /\ outcome' = [outcome EXCEPT ![w] = result]
  /\ recipients' = [recipients EXCEPT ![w] = {}]

Drop(w) ==
  /\ batch' = [batch EXCEPT ![w] = NoBatch]
  /\ Move(w, "idle")
  /\ outcome' = [outcome EXCEPT ![w] = "none"]
  /\ recipients' = [recipients EXCEPT ![w] = {}]

\* On to the rest of the batch.
Proceed(w, n) ==
  /\ batch' = [batch EXCEPT ![w] = Restrict(@, DOMAIN @ \ {n})]
  /\ Move(w, IF DOMAIN batch[w] = {n} THEN "idle" ELSE "claim")
  /\ outcome' = [outcome EXCEPT ![w] = "none"]
  /\ recipients' = [recipients EXCEPT ![w] = {}]

-----------------------------------------------------------------------------
\* Faulty: a row whose lease ran out is not taken again.
DueNowPendingOnly(n) == notices[n].status = "pending" /\ notices[n].due

DueNow(n) == notices[n].status \in Open /\ notices[n].due

(* ProcessTaskNotifications: the first rows that are due, in id order.     *)
LoadNotices(w) ==
  LET ready == {n \in DOMAIN notices : DueNow(n)}
      first == {n \in ready : Cardinality({m \in ready : m < n}) < BatchLimit} IN
  /\ at[w] = "idle" /\ first # {}
  /\ batch' = [batch EXCEPT ![w] = [n \in first |-> notices[n].attempts]]
  /\ Move(w, "claim")
  /\ UNCHANGED <<notices, running, recipients, outcome, messages, disruptions>>

(* The conditional UPDATE; a row taken by another one is passed over.      *)
ClaimNotice(w, n) ==
  /\ at[w] = "claim"
  /\ IF DueNow(n)
       THEN /\ notices' = [notices EXCEPT ![n] =
              [@ EXCEPT !.status = "processing", !.due = FALSE,
                        !.attempts = notices[n].attempts + 1]]
            /\ Move(w, "check")
            /\ UNCHANGED <<batch, recipients, outcome>>
       ELSE Proceed(w, n) /\ UNCHANGED notices
  /\ UNCHANGED <<running, messages, disruptions>>

(* Is the user still a member?  If not, the notice is skipped.             *)
CheckTarget(w, n) ==
  /\ at[w] = "check"
  /\ IF notices[n].to # "group" /\ role[notices[n].to] = "none"
       THEN ComesTo(w, "skipped")
       ELSE Move(w, "lookup") /\ UNCHANGED <<recipients, outcome>>
  /\ UNCHANGED <<notices, running, batch, messages, disruptions>>

(* An earlier attempt may have stored the message already.                 *)
LookUpMessage(w, n) ==
  /\ at[w] = "lookup"
  /\ IF Sent(n)
       THEN ComesTo(w, "done")
       ELSE Move(w, "address") /\ UNCHANGED <<recipients, outcome>>
  /\ UNCHANGED <<notices, running, batch, messages, disruptions>>

(* The sequence number is taken and the members are loaded.                *)
Address(w, n) ==
  /\ at[w] = "address"
  /\ recipients' = [recipients EXCEPT ![w] =
       IF notices[n].to = "group" THEN {u \in Users : role[u] # "none"} ELSE {notices[n].to}]
  /\ Move(w, "store")
  /\ UNCHANGED <<notices, running, batch, outcome, messages, disruptions>>

Message(w, n) == [key |-> KeyOfNotice(n), to |-> recipients[w]]

\* Faulty: no unique key on the sender and the client's id.
StoredTwice(w, n) == messages' = Append(messages, Message(w, n))

\* uk_sender_client_msg: the second of two workers finds the first's message.
Stored(w, n) == messages' = IF Sent(n) THEN messages ELSE Append(messages, Message(w, n))

(* saveMessageWithOutbox commits; the delivery it then tries is not waited *)
(* for.                                                                    *)
StoreMessage(w, n) ==
  /\ at[w] = "store"
  /\ Stored(w, n)
  /\ ComesTo(w, "done")
  /\ UNCHANGED <<notices, running, batch, disruptions>>

(* A query, the sequence or the transaction fails; the COMMIT may have     *)
(* taken effect.                                                           *)
PublishNoticeFails(w, n) ==
  /\ at[w] \in {"check", "lookup", "address", "store"}
  /\ Disrupted
  /\ UNCHANGED messages \/ (at[w] = "store" /\ Stored(w, n))
  /\ ComesTo(w, "failed")
  /\ UNCHANGED <<notices, running, batch>>

-----------------------------------------------------------------------------
\* generation := n.Attempts + 1
ClaimedAs(w, n) == batch[w][n] + 1

\* WHERE id=? AND status='processing' AND attempts=?
LeaseHeld(w, n) == notices[n].status = "processing" /\ notices[n].attempts = ClaimedAs(w, n)

StatusAfter(w, n) ==
  IF outcome[w] # "failed" THEN outcome[w]
  ELSE IF ClaimedAs(w, n) >= MaxAttempts THEN "dead" ELSE "pending"

(* The outcome is written; a worker that lost its lease drops the rest of  *)
(* its batch.                                                              *)
SettleNotice(w, n) ==
  /\ at[w] = "settle"
  /\ IF LeaseHeld(w, n)
       THEN /\ notices' = [notices EXCEPT ![n] =
              [@ EXCEPT !.status = StatusAfter(w, n), !.due = FALSE]]
            /\ Proceed(w, n)
       ELSE Drop(w) /\ UNCHANGED notices
  /\ UNCHANGED <<running, messages, disruptions>>

(* A claim or an outcome cannot be written, the run's ten seconds are over *)
(* or the replica restarts: the row keeps its lease.                       *)
NotifierStops(w) ==
  /\ at[w] # "idle" /\ Disrupted
  /\ Drop(w)
  /\ UNCHANGED <<notices, running, messages>>

InHand(n) == \E w \in running : n \in DOMAIN batch[w]

(* Time passes a retry's delay or a lease.  A run lives for ten seconds,   *)
(* so a lease only ends in a running worker's hands if it is paused.       *)
NoticeBecomesDue(n) ==
  /\ notices[n].status \in Open /\ ~notices[n].due
  /\ IF notices[n].status = "processing" /\ InHand(n) THEN Disrupted ELSE UNCHANGED disruptions
  /\ notices' = [notices EXCEPT ![n] = [@ EXCEPT !.due = TRUE]]
  /\ UNCHANGED <<running, at, batch, recipients, outcome, messages>>

ProcessNotice(w, n) ==
  /\ Current(w, n)
  /\ \/ ClaimNotice(w, n) \/ CheckTarget(w, n) \/ LookUpMessage(w, n)
     \/ Address(w, n) \/ StoreMessage(w, n) \/ SettleNotice(w, n)

Notify(w) == LoadNotices(w) \/ \E n \in DOMAIN batch[w] : ProcessNotice(w, n)

Mishap(w) ==
  \/ NotifierStops(w)
  \/ \E n \in DOMAIN batch[w] : Current(w, n) /\ PublishNoticeFails(w, n)

NotifierNext ==
  /\ \/ \E w \in running : Notify(w) \/ Mishap(w)
     \/ \E n \in DOMAIN notices : NoticeBecomesDue(n)
  /\ UNCHANGED <<role, task, work, events, overdue, locks, asks, pc, seen, told>>

(* The requests on the task and the notifiers, side by side.               *)
NotifiedNext ==
  \/ Next /\ UNCHANGED notifierVars
  \/ NotifierNext

NotifiedInit == \E s \in Scenarios : StartsAs(s) /\ NotifiersStartAs(s)

(* The tickers go on and time passes.                                      *)
NotifierFairness ==
  /\ \A w \in Notifiers :
       WF_<<vars, notifierVars>>(w \in running /\ Notify(w) /\ NotifierNext)
  /\ \A n \in 1..MaxNotices :
       WF_<<vars, notifierVars>>(n \in DOMAIN notices /\ NoticeBecomesDue(n) /\ NotifierNext)

NotifiedSpec ==
  NotifiedInit /\ [][NotifiedNext]_<<vars, notifierVars>> /\ NotifierFairness

-----------------------------------------------------------------------------
(* One message for an event and a target, however often leases run out and *)
(* attempts are repeated; a notice is done only when its message is        *)
(* stored, skipped only for a user who has left, and given up only after   *)
(* MaxAttempts claims (taskNotificationAttempts, uk_sender_client_msg).    *)
ToldOnce ==
  /\ \A m, k \in DOMAIN messages : messages[m].key = messages[k].key => m = k
  /\ \A n \in DOMAIN notices :
       /\ notices[n].status = "done" => Sent(n)
       /\ notices[n].status = "skipped" => role[notices[n].to] = "none"
       /\ notices[n].status = "dead" => notices[n].attempts >= MaxAttempts

(* Every notice is settled in the end, although a worker whose read was    *)
(* stale when it claimed can never write its own outcome                   *)
(* (task_notifications.go:74, :82).                                        *)
EveryNoticeSettles ==
  \A n \in 1..MaxNotices :
    running # {} /\ n \in DOMAIN notices
      ~> n \in DOMAIN notices /\ notices[n].status \notin Open

=============================================================================
