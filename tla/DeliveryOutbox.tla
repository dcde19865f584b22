---------------------------- MODULE DeliveryOutbox ----------------------------
(***************************************************************************)
(* The delivery outbox of the Logic service                                *)
(* (src/internal/logic/delivery_outbox.go).                                *)
(*                                                                         *)
(* A delivery_outbox row is inserted in the transaction that stores a chat *)
(* message and is worked off by the one-second ticker of every Logic       *)
(* replica and by the immediate attempt of PushMessage.  A worker reads    *)
(* rows, and later claims each with a conditional UPDATE that leases it    *)
(* (status = processing, attempts + 1, available_at = now + 30s), performs *)
(* the external deliveries, and writes the outcome, guarded by the         *)
(* generation it computed from the attempts it READ, not from the attempts *)
(* its claim produced.                                                     *)
(*                                                                         *)
(* Time is abstracted to one bit per row: due[e] stands for                *)
(* available_at <= now, and becomes TRUE at an arbitrary later moment.     *)
(***************************************************************************)
EXTENDS Integers, FiniteSets

CONSTANTS
  Workers,         \* goroutines that run the outbox, over all Logic replicas
  Events,          \* delivery_outbox.id: the loader returns rows in this order
  Sinks,           \* external destinations
  SinksOf,         \* [Events -> SUBSET Sinks]: one per recipient, or the topic
  MaxAttempts,     \* maxDeliveryOutboxAttempts (10 in the code)
  BatchLimit,      \* rows one tick loads (100 in the code)
  MaxDisruptions   \* bound: crashes, stalls past the lease, failed UPDATEs

ASSUME DeliveryOutboxAssumption ==
  /\ Events \subseteq Nat
  /\ SinksOf \in [Events -> SUBSET Sinks]
  /\ MaxAttempts \in Nat \ {0}
  /\ BatchLimit \in Nat \ {0}
  /\ MaxDisruptions \in Nat

VARIABLES
  status,       \* delivery_outbox.status, "absent" before the INSERT
  attempts,     \* delivery_outbox.attempts
  due,          \* available_at <= now
  delivered,    \* the sinks an event has reached
  pc,           \* where a worker stands in processDeliveryOutboxEvent
  batch,        \* the loaded events a worker has not finished with
  readAttempts, \* attempts as the SELECT returned it (event.Attempts)
  left,         \* the sinks the current delivery has still to reach
  claimNo,      \* history: the value of attempts a worker's claim produced
  disruptions   \* disruptions so far

rowVars == <<status, attempts, due>>
workerVars == <<pc, batch, readAttempts, left, claimNo>>
vars == <<rowVars, workerVars, delivered, disruptions>>

Statuses == {"absent", "pending", "processing", "done", "dead"}
Steps == {"idle", "claim", "deliver", "complete", "reschedule"}

-----------------------------------------------------------------------------
Init ==
  /\ status = [e \in Events |-> "absent"]
  /\ attempts = [e \in Events |-> 0]
  /\ due = [e \in Events |-> FALSE]
  /\ delivered = [e \in Events |-> {}]
  /\ pc = [w \in Workers |-> "idle"]
  /\ batch = [w \in Workers |-> {}]
  /\ readAttempts = [w \in Workers |-> [e \in Events |-> 0]]
  /\ left = [w \in Workers |-> {}]
  /\ claimNo = [w \in Workers |-> 0]
  /\ disruptions = 0

\* Faulty: a claim takes only pending rows, so an expired lease is never taken.
ReadyPendingOnly(e) == status[e] = "pending" /\ due[e]

\* WHERE (status = 'pending' OR status = 'processing') AND available_at <= ?
Ready(e) == status[e] \in {"pending", "processing"} /\ due[e]

\* The loop over the loaded events runs in id order.
Current(w, e) == e \in batch[w] /\ \A f \in batch[w] : e <= f

\* claimGeneration := event.Attempts + 1
Generation(w, e) == readAttempts[w][e] + 1

\* Faulty: the outcome is written without comparing the generation.
HoldsLeaseAnyClaim(w, e) == status[e] = "processing"

\* WHERE id = ? AND status = 'processing' AND attempts = ?
HoldsLease(w, e) == status[e] = "processing" /\ attempts[e] = Generation(w, e)

\* The status a failed delivery leaves behind.
Outcome(w, e) == IF Generation(w, e) >= MaxAttempts THEN "dead" ELSE "pending"

\* processDeliveryOutboxEvent returned without an error: on to the next event.
NextEvent(w, e) ==
  /\ batch' = [batch EXCEPT ![w] = @ \ {e}]
  /\ readAttempts' = [readAttempts EXCEPT ![w][e] = 0]
  /\ pc' = [pc EXCEPT ![w] = IF batch[w] = {e} THEN "idle" ELSE "claim"]
  /\ left' = [left EXCEPT ![w] = {}]
  /\ claimNo' = [claimNo EXCEPT ![w] = 0]

\* It returned an error, or the process died: the rest of the batch is dropped.
Abandon(w) ==
  /\ batch' = [batch EXCEPT ![w] = {}]
  /\ readAttempts' = [readAttempts EXCEPT ![w] = [e \in Events |-> 0]]
  /\ pc' = [pc EXCEPT ![w] = "idle"]
  /\ left' = [left EXCEPT ![w] = {}]
  /\ claimNo' = [claimNo EXCEPT ![w] = 0]

Disrupt ==
  /\ disruptions < MaxDisruptions
  /\ disruptions' = disruptions + 1

-----------------------------------------------------------------------------
(* The row appears with the message it belongs to, in one transaction.     *)
Enqueue(e) ==
  /\ status[e] = "absent"
  /\ status' = [status EXCEPT ![e] = "pending"]
  /\ due' = [due EXCEPT ![e] = TRUE]
  /\ UNCHANGED <<attempts, delivered, workerVars, disruptions>>

(* available_at passes: a pending row after its backoff, a claimed one     *)
(* after its 30s lease.  A tick lives 10s, so in the normal course no      *)
(* worker that loaded the row is still running when its lease ends.        *)
BecomeDue(e) ==
  /\ ~due[e]
  /\ \/ status[e] = "pending"
     \/ status[e] = "processing" /\ ~\E w \in Workers : e \in batch[w]
  /\ due' = [due EXCEPT ![e] = TRUE]
  /\ UNCHANGED <<status, attempts, delivered, workerVars, disruptions>>

(* The lease ends although a worker that loaded the row is alive: it was   *)
(* paused, or a call outlived its deadline.                                *)
Stall(e) ==
  /\ status[e] = "processing"
  /\ ~due[e]
  /\ \E w \in Workers : e \in batch[w]
  /\ due' = [due EXCEPT ![e] = TRUE]
  /\ Disrupt
  /\ UNCHANGED <<status, attempts, delivered, workerVars>>

-----------------------------------------------------------------------------
Load(w, S) ==
  /\ pc[w] = "idle"
  /\ S # {}
  /\ pc' = [pc EXCEPT ![w] = "claim"]
  /\ batch' = [batch EXCEPT ![w] = S]
  /\ readAttempts' = [readAttempts EXCEPT
       ![w] = [e \in Events |-> IF e \in S THEN attempts[e] ELSE 0]]
  /\ UNCHANGED <<rowVars, delivered, left, claimNo, disruptions>>

(* ProcessDeliveryOutbox: the first BatchLimit ready rows.                 *)
LoadBatch(w) ==
  LET ready == {e \in Events : Ready(e)}
      first == {e \in ready : Cardinality({f \in ready : f < e}) < BatchLimit}
  IN  Load(w, first)

(* ProcessDeliveryOutboxMessage: the one row of a message just accepted.   *)
LoadMessage(w, e) == Ready(e) /\ Load(w, {e})

(* The conditional UPDATE.  The generation kept is the one read before.    *)
Claim(w, e) ==
  /\ pc[w] = "claim"
  /\ Current(w, e)
  /\ Ready(e)
  /\ status' = [status EXCEPT ![e] = "processing"]
  /\ attempts' = [attempts EXCEPT ![e] = @ + 1]
  /\ due' = [due EXCEPT ![e] = FALSE]
  /\ claimNo' = [claimNo EXCEPT ![w] = attempts[e] + 1]
  /\ pc' = [pc EXCEPT ![w] = "deliver"]
  /\ left' = [left EXCEPT ![w] = SinksOf[e]]
  /\ UNCHANGED <<batch, readAttempts, delivered, disruptions>>

(* RowsAffected = 0: another worker owns the row or has settled it.        *)
ClaimMissed(w, e) ==
  /\ pc[w] = "claim"
  /\ Current(w, e)
  /\ ~Ready(e)
  /\ NextEvent(w, e)
  /\ UNCHANGED <<rowVars, delivered, disruptions>>

(* One Deliver or PublishGroupDispatch call that succeeds.                 *)
Deliver(w, e) ==
  /\ pc[w] = "deliver"
  /\ Current(w, e)
  /\ \E s \in left[w] :
       /\ delivered' = [delivered EXCEPT ![e] = @ \cup {s}]
       /\ left' = [left EXCEPT ![w] = @ \ {s}]
  /\ UNCHANGED <<rowVars, pc, batch, readAttempts, claimNo, disruptions>>

Delivered(w, e) ==
  /\ pc[w] = "deliver"
  /\ Current(w, e)
  /\ left[w] = {}
  /\ pc' = [pc EXCEPT ![w] = "complete"]
  /\ UNCHANGED <<rowVars, delivered, batch, readAttempts, left, claimNo, disruptions>>

(* Faulty: a failed call ends the loop but is reported as a success.       *)
DeliverFailsSilently(w, e) ==
  /\ pc[w] = "deliver"
  /\ Current(w, e)
  /\ left[w] # {}
  /\ pc' = [pc EXCEPT ![w] = "complete"]
  /\ left' = [left EXCEPT ![w] = {}]
  /\ UNCHANGED <<rowVars, delivered, batch, readAttempts, claimNo, disruptions>>

(* The recipients do not decode, or a delivery call fails, before or after *)
(* it took effect (a timeout); the remaining recipients are skipped.       *)
DeliverFails(w, e) ==
  /\ pc[w] = "deliver"
  /\ Current(w, e)
  /\ \/ UNCHANGED delivered
     \/ \E s \in left[w] : delivered' = [delivered EXCEPT ![e] = @ \cup {s}]
  /\ pc' = [pc EXCEPT ![w] = "reschedule"]
  /\ left' = [left EXCEPT ![w] = {}]
  /\ UNCHANGED <<rowVars, batch, readAttempts, claimNo, disruptions>>

(* The failure branch: back off, or give up at the last attempt.           *)
Reschedule(w, e) ==
  /\ pc[w] = "reschedule"
  /\ Current(w, e)
  /\ HoldsLease(w, e)
  /\ status' = [status EXCEPT ![e] = Outcome(w, e)]
  /\ due' = [due EXCEPT ![e] = Outcome(w, e) = "dead"]
  /\ NextEvent(w, e)
  /\ UNCHANGED <<attempts, delivered, disruptions>>

Complete(w, e) ==
  /\ pc[w] = "complete"
  /\ Current(w, e)
  /\ HoldsLease(w, e)
  /\ status' = [status EXCEPT ![e] = "done"]
  /\ NextEvent(w, e)
  /\ UNCHANGED <<attempts, due, delivered, disruptions>>

(* "lease was lost before completion / retry update": an error.            *)
LeaseLost(w, e) ==
  /\ pc[w] \in {"complete", "reschedule"}
  /\ Current(w, e)
  /\ ~HoldsLease(w, e)
  /\ Abandon(w)
  /\ UNCHANGED <<rowVars, delivered, disruptions>>

(* The process dies, or an UPDATE of its fails: the row stays as it is.    *)
Crash(w) ==
  /\ pc[w] # "idle"
  /\ Disrupt
  /\ Abandon(w)
  /\ UNCHANGED <<rowVars, delivered>>

-----------------------------------------------------------------------------
Work(w) ==
  \E e \in Events :
    \/ Claim(w, e)
    \/ ClaimMissed(w, e)
    \/ Deliver(w, e)
    \/ Delivered(w, e)
    \/ DeliverFails(w, e)
    \/ Reschedule(w, e)
    \/ Complete(w, e)
    \/ LeaseLost(w, e)

Next ==
  \/ \E e \in Events : Enqueue(e) \/ BecomeDue(e) \/ Stall(e)
  \/ \E w \in Workers :
       \/ LoadBatch(w)
       \/ \E e \in Events : LoadMessage(w, e)
       \/ Work(w)
       \/ Crash(w)

(* The tickers keep running and time passes; nothing obliges a message to  *)
(* be sent, a delivery to fail or a process to crash.                      *)
Fairness ==
  /\ \A e \in Events : WF_vars(BecomeDue(e))
  /\ \A w \in Workers : WF_vars(LoadBatch(w)) /\ WF_vars(Work(w))

Spec == Init /\ [][Next]_vars

FairSpec == Spec /\ Fairness

-----------------------------------------------------------------------------
(* The columns of a row and the variables of processDeliveryOutboxEvent    *)
(* hold values of their types.                                             *)
TypeOK ==
  /\ status \in [Events -> Statuses]
  /\ attempts \in [Events -> Nat]
  /\ due \in [Events -> BOOLEAN]
  /\ delivered \in [Events -> SUBSET Sinks]
  /\ pc \in [Workers -> Steps]
  /\ batch \in [Workers -> SUBSET Events]
  /\ readAttempts \in [Workers -> [Events -> Nat]]
  /\ left \in [Workers -> SUBSET Sinks]
  /\ claimNo \in [Workers -> Nat]
  /\ disruptions \in 0..MaxDisruptions

(* A row is given up only after MaxAttempts claims, whatever mixture of    *)
(* failures, crashes and stale reads consumed them                         *)
(* (maxDeliveryOutboxAttempts, compared with a count read before the       *)
(* claim).                                                                 *)
DeadAfterMaxAttempts ==
  \A e \in Events : status[e] = "dead" => attempts[e] >= MaxAttempts

(* "an older worker must not finish or reschedule a newer claim"           *)
(* (delivery_outbox.go:132): a row leaves processing only by the worker    *)
(* that made its latest claim, although the code guards the write with a   *)
(* generation derived from an earlier read.                                *)
SettledByNewestClaim ==
  \A e \in Events :
    status[e] = "processing" /\ status'[e] # "processing"
      => \E w \in Workers : /\ pc[w] \in {"complete", "reschedule"}
                           /\ Current(w, e)
                           /\ claimNo[w] = attempts[e]
                           /\ pc'[w] # pc[w]

(* Every step of processDeliveryOutboxEvent keeps to that.                 *)
NewestClaimSettles == [][SettledByNewestClaim]_vars

(* At-least-once delivery: a row is marked done only when every sink was   *)
(* reached, never loses what it owes to a crash or a lost lease, and is    *)
(* never reopened once settled.                                            *)
Phase(e) == IF status[e] \in {"pending", "processing"} THEN "owed" ELSE status[e]

Promise == INSTANCE AtLeastOnce WITH
  Jobs <- Events, Targets <- Sinks, TargetsOf <- SinksOf,
  phase <- [e \in Events |-> Phase(e)], served <- delivered

(* The rows of delivery_outbox keep the promise of AtLeastOnce.            *)
ImplementsAtLeastOnce == Promise!Spec

(* Every accepted message is settled: with finitely many crashes, stalls   *)
(* and failed UPDATEs, no row stays pending or processing for ever, even   *)
(* when claims made on stale reads can never write their own outcome.      *)
EventuallySettled ==
  \A e \in Events : status[e] # "absent" ~> status[e] \in {"done", "dead"}

(* "attempts is advanced by the successful claim. Treat that value as a    *)
(* generation" (delivery_outbox.go:132): the worker that made the newest   *)
(* claim can write its outcome.  It does not hold: the code derives the    *)
(* generation from the attempts it read before claiming.                   *)
NewestClaimCanSettle ==
  \A w \in Workers, e \in Events :
    /\ pc[w] \in {"complete", "reschedule"}
    /\ Current(w, e)
    /\ status[e] = "processing"
    /\ claimNo[w] = attempts[e]
    => HoldsLease(w, e)

=============================================================================
