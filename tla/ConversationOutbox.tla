-------------------------- MODULE ConversationOutbox --------------------------
(***************************************************************************)
(* The conversation outbox of the Logic service, which folds every stored  *)
(* message into the conversation summary kept in MySQL                     *)
(* (src/internal/logic/conversation.go, ProcessConversationOutbox).        *)
(*                                                                         *)
(* Rows are claimed as in the delivery outbox, but both outcomes are       *)
(* written WHERE id = ? only: a worker whose lease has ended can reopen,   *)
(* bury or complete a row that another worker has settled.  What saves the *)
(* summary is that folding a message in again changes nothing below it.    *)
(*                                                                         *)
(* Time is one bit per row, as in DeliveryOutbox: available_at <= now.     *)
(***************************************************************************)
EXTENDS Integers, FiniteSetsExt

CONSTANTS
  Workers,         \* goroutines that run the outbox, over all Logic replicas
  Events,          \* conversation_outbox.id, one row per stored message
  Users,
  Sessions,
  SessionOf, SeqOf, SentAtOf,   \* columns of a row
  FromOf, ToOf,
  MaxAttempts,     \* maxOutboxAttempts (10 in the code)
  BatchLimit,      \* rows one tick loads (100 in the code)
  MaxDisruptions   \* bound: crashes, stalls past the lease, failed UPDATEs

ASSUME ConversationOutboxAssumption ==
  /\ Events \subseteq Nat
  /\ SessionOf \in [Events -> Sessions]
  /\ SeqOf \in [Events -> Nat \ {0}] /\ SentAtOf \in [Events -> Nat \ {0}]
  /\ FromOf \in [Events -> Users] /\ ToOf \in [Events -> Users]
  /\ MaxAttempts \in Nat \ {0} /\ BatchLimit \in Nat \ {0}
  /\ MaxDisruptions \in Nat

VARIABLES
  groups,                  \* the sessions whose to_type is "group"
  status, attempts, due,   \* the rows: due is available_at <= now
  lastSeq, updatedAt,      \* conversations, 0 when there is no row
  readSeq,                 \* conversation_members.read_seq, NoRow without a row
  stage,                   \* where a worker stands in its batch
  batch,                   \* the loaded events it has not finished with
  readAttempts,            \* attempts as its SELECT returned them
  disruptions

rowVars == <<groups, status, attempts, due>>
summaryVars == <<lastSeq, updatedAt, readSeq>>
workerVars == <<stage, batch, readAttempts>>
conversationVars == <<rowVars, summaryVars, workerVars, disruptions>>

NoRow == -1
Stages == {"idle", "claim", "summary", "members", "failed", "done"}

SummaryInit ==
  /\ groups \in SUBSET Sessions
  /\ status = [e \in Events |-> "absent"]
  /\ attempts = [e \in Events |-> 0]
  /\ due = [e \in Events |-> FALSE]
  /\ lastSeq = [s \in Sessions |-> 0]
  /\ updatedAt = [s \in Sessions |-> 0]
  /\ readSeq = [s \in Sessions |-> [u \in Users |-> NoRow]]
  /\ stage = [w \in Workers |-> "idle"]
  /\ batch = [w \in Workers |-> {}]
  /\ readAttempts = [w \in Workers |-> [e \in Events |-> 0]]
  /\ disruptions = 0

\* Faulty: the row of a worker that died is never taken up again.
ReadyPendingOnly(e) == status[e] = "pending" /\ due[e]

\* WHERE (status = 'pending' OR status = 'processing') AND available_at <= ?
Ready(e) == status[e] \in {"pending", "processing"} /\ due[e]

\* The loop over the loaded events runs in id order.
Current(w, e) == e \in batch[w] /\ \A f \in batch[w] : e <= f

\* conversationMembers(frame, nil), for a one-to-one conversation.
Members(e) == {FromOf[e], ToOf[e]}

\* The read_seq that persistConversationState inserts for a member.
ReadBy(e, u) == IF u = FromOf[e] THEN SeqOf[e] ELSE 0

\* The end of an iteration: on to the next event of the batch.
NextEvent(w, e) ==
  /\ batch' = [batch EXCEPT ![w] = @ \ {e}]
  /\ readAttempts' = [readAttempts EXCEPT ![w][e] = 0]
  /\ stage' = [stage EXCEPT ![w] = IF batch[w] = {e} THEN "idle" ELSE "claim"]

MoveTo(w, step) == stage' = [stage EXCEPT ![w] = step]

Disrupt ==
  /\ disruptions < MaxDisruptions
  /\ disruptions' = disruptions + 1

-----------------------------------------------------------------------------
(* The row is inserted in the transaction that stores its message.         *)
Enqueue(e) ==
  /\ status[e] = "absent"
  /\ status' = [status EXCEPT ![e] = "pending"]
  /\ due' = [due EXCEPT ![e] = TRUE]
  /\ UNCHANGED <<groups, attempts, summaryVars, workerVars, disruptions>>

(* available_at passes.  A tick lives five seconds and the lease thirty,   *)
(* so in the normal course nobody works on the row any more.               *)
BecomeDue(e) ==
  /\ ~due[e]
  /\ \/ status[e] = "pending"
     \/ status[e] = "processing" /\ ~\E w \in Workers : e \in batch[w]
  /\ due' = [due EXCEPT ![e] = TRUE]
  /\ UNCHANGED <<groups, status, attempts, summaryVars, workerVars, disruptions>>

(* The lease ends under a worker that was paused, or whose UPDATE hangs.   *)
Stall(e) ==
  /\ status[e] = "processing" /\ ~due[e]
  /\ \E w \in Workers : e \in batch[w]
  /\ due' = [due EXCEPT ![e] = TRUE]
  /\ Disrupt
  /\ UNCHANGED <<groups, status, attempts, summaryVars, workerVars>>

(* A tick loads the first ready rows.                                      *)
LoadBatch(w) ==
  LET ready == {e \in Events : Ready(e)}
      first == {e \in ready : Cardinality({f \in ready : f < e}) < BatchLimit}
  IN /\ stage[w] = "idle" /\ first # {}
     /\ MoveTo(w, "claim")
     /\ batch' = [batch EXCEPT ![w] = first]
     /\ readAttempts' = [readAttempts EXCEPT
          ![w] = [e \in Events |-> IF e \in first THEN attempts[e] ELSE 0]]
     /\ UNCHANGED <<rowVars, summaryVars, disruptions>>

(* The conditional UPDATE; a row that is no longer ready is skipped.       *)
Claim(w, e) ==
  /\ stage[w] = "claim" /\ Current(w, e)
  /\ IF Ready(e)
       THEN /\ status' = [status EXCEPT ![e] = "processing"]
            /\ attempts' = [attempts EXCEPT ![e] = @ + 1]
            /\ due' = [due EXCEPT ![e] = FALSE]
            /\ MoveTo(w, "summary")
            /\ UNCHANGED <<groups, batch, readAttempts>>
       ELSE NextEvent(w, e) /\ UNCHANGED rowVars
  /\ UNCHANGED <<summaryVars, disruptions>>

-----------------------------------------------------------------------------
\* Faulty: the upsert takes the sequence number of whoever comes last.
FoldInLatest(e) ==
  /\ lastSeq' = [lastSeq EXCEPT ![SessionOf[e]] = SeqOf[e]]
  /\ updatedAt' = [updatedAt EXCEPT ![SessionOf[e]] = SentAtOf[e]]

\* INSERT INTO conversations ... ON DUPLICATE KEY UPDATE: the greatest
\* last_seq, but the updated_at of the message at hand.
FoldIn(e) ==
  /\ lastSeq' = [lastSeq EXCEPT ![SessionOf[e]] = Max({@, SeqOf[e]})]
  /\ updatedAt' = [updatedAt EXCEPT ![SessionOf[e]] = SentAtOf[e]]

(* persistConversationState: the summary; a group has no members to write. *)
PersistSummary(w, e) ==
  /\ stage[w] = "summary" /\ Current(w, e)
  /\ FoldIn(e)
  /\ MoveTo(w, IF SessionOf[e] \in groups THEN "done" ELSE "members")
  /\ UNCHANGED <<rowVars, readSeq, batch, readAttempts, disruptions>>

(* Then the members, in the random order of a Go map, up to the first      *)
(* upsert that fails.  The upserts touch different rows and only raise     *)
(* them, so one step stands for all of them.                               *)
PersistMembers(w, e) ==
  /\ stage[w] = "members" /\ Current(w, e)
  /\ \E written \in SUBSET Members(e) :
       /\ readSeq' = [readSeq EXCEPT ![SessionOf[e]] = [u \in Users |->
            IF u \in written THEN Max({@[u], ReadBy(e, u)}) ELSE @[u]]]
       /\ MoveTo(w, IF written = Members(e) THEN "done" ELSE "failed")
  /\ UNCHANGED <<rowVars, lastSeq, updatedAt, batch, readAttempts, disruptions>>

(* The upsert of the summary fails, before or after it took effect.        *)
PersistFails(w, e) ==
  /\ stage[w] = "summary" /\ Current(w, e)
  /\ MoveTo(w, "failed")
  /\ FoldIn(e) \/ UNCHANGED <<lastSeq, updatedAt>>
  /\ UNCHANGED <<rowVars, readSeq, batch, readAttempts, disruptions>>

\* The status a failure leaves, from the attempts that the SELECT returned.
Outcome(w, e) == IF readAttempts[w][e] + 1 >= MaxAttempts THEN "dead" ELSE "pending"

(* UPDATE ... SET status = pending or dead WHERE id = ?                    *)
Reschedule(w, e) ==
  /\ stage[w] = "failed" /\ Current(w, e)
  /\ status' = [status EXCEPT ![e] = Outcome(w, e)]
  /\ due' = [due EXCEPT ![e] = Outcome(w, e) = "dead"]
  /\ NextEvent(w, e)
  /\ UNCHANGED <<groups, attempts, summaryVars, disruptions>>

(* UPDATE ... SET status = 'done' WHERE id = ?                             *)
Complete(w, e) ==
  /\ stage[w] = "done" /\ Current(w, e)
  /\ status' = [status EXCEPT ![e] = "done"]
  /\ NextEvent(w, e)
  /\ UNCHANGED <<groups, attempts, due, summaryVars, disruptions>>

(* The process dies, or an UPDATE of the row fails: the batch is dropped.  *)
WorkerDies(w) ==
  /\ stage[w] # "idle"
  /\ Disrupt
  /\ MoveTo(w, "idle")
  /\ batch' = [batch EXCEPT ![w] = {}]
  /\ readAttempts' = [readAttempts EXCEPT ![w] = [e \in Events |-> 0]]
  /\ UNCHANGED <<rowVars, summaryVars>>

-----------------------------------------------------------------------------
Work(w) ==
  \E e \in Events :
    \/ Claim(w, e)
    \/ PersistSummary(w, e) \/ PersistMembers(w, e) \/ PersistFails(w, e)
    \/ Reschedule(w, e) \/ Complete(w, e)

SummaryNext ==
  \/ \E e \in Events : Enqueue(e) \/ BecomeDue(e) \/ Stall(e)
  \/ \E w \in Workers : LoadBatch(w) \/ Work(w) \/ WorkerDies(w)

(* The tickers keep running and time passes.                               *)
SummaryFairness ==
  /\ \A e \in Events : WF_conversationVars(BecomeDue(e))
  /\ \A w \in Workers : WF_conversationVars(LoadBatch(w)) /\ WF_conversationVars(Work(w))

SummarySpec == SummaryInit /\ [][SummaryNext]_conversationVars

SummaryFairSpec == SummarySpec /\ SummaryFairness

-----------------------------------------------------------------------------
(* Rows, summaries and cursors hold values of their columns' types.        *)
SummaryTypeOK ==
  /\ groups \subseteq Sessions
  /\ status \in [Events -> {"absent", "pending", "processing", "done", "dead"}]
  /\ attempts \in [Events -> Nat]
  /\ due \in [Events -> BOOLEAN]
  /\ lastSeq \in [Sessions -> Nat] /\ updatedAt \in [Sessions -> Nat]
  /\ readSeq \in [Sessions -> [Users -> Nat \cup {NoRow}]]
  /\ stage \in [Workers -> Stages]
  /\ batch \in [Workers -> SUBSET Events]
  /\ readAttempts \in [Workers -> [Events -> Nat]]
  /\ disruptions \in 0..MaxDisruptions

(* A row marked done is in the summary, and its sender has read it, though *)
(* done is written by id only and other workers fold older messages in at  *)
(* the same time (persistConversationState, ProcessConversationOutbox).    *)
DoneIsSummarised ==
  \A e \in Events : status[e] = "done" =>
    LET s == SessionOf[e] IN
    /\ lastSeq[s] >= SeqOf[e]
    /\ s \notin groups =>
         \A u \in Members(e) : readSeq[s][u] >= ReadBy(e, u)

(* Late outcomes can reopen a settled row, but not for ever: every row is  *)
(* settled for good in the end (outboxLease, outboxRetryDelay).           *)
SettledForGood ==
  \A e \in Events : status[e] # "absent" ~> [](status[e] \in {"done", "dead"})

(* "a crash after applying the summary but before marking the event done   *)
(* only causes a harmless retry" (conversation.go:360): the time of the    *)
(* summary is never older than that of its last message.  It does not      *)
(* hold: the retry writes the older message's updated_at over it.          *)
UpdatedAtIsOfLast ==
  \A e \in Events :
    status[e] # "absent" /\ lastSeq[SessionOf[e]] = SeqOf[e]
      => updatedAt[SessionOf[e]] >= SentAtOf[e]

=============================================================================
