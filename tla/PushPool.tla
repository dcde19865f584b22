------------------------------- MODULE PushPool -------------------------------
(***************************************************************************)
(* The Gateway's push worker pool (src/internal/server/pool.go) with the   *)
(* read loops that feed it (client.go) and the answers that they and the   *)
(* workers write to the client (client_error.go).                          *)
(*                                                                         *)
(* A connection's read loop submits each chat message to the shard its     *)
(* user hashes to.  Submitting holds the pool's read lock from the test of *)
(* closed to the non-blocking send; Close holds the write lock while it    *)
(* closes the channels.  One goroutine per shard runs the tasks in order   *)
(* and answers the client from the completion callback.                    *)
(***************************************************************************)
EXTENDS Naturals, Sequences, Functions

CONSTANTS
  Sockets,      \* WebSocket connections
  Users,
  UserOf,       \* [Sockets -> Users]
  Shards,
  ShardOf,      \* [Users -> Shards], pushShardIndex
  QueueSize,    \* queueSizePerShard (64 in the code)
  MessagesOf,   \* [Sockets -> Nat], bound: the messages a client sends
  Cancellable   \* connections whose context may end; the Gateway's own read
                \* loops pass one that does not

ASSUME PushPoolAssumption ==
  /\ UserOf \in [Sockets -> Users]
  /\ ShardOf \in [Users -> Shards]
  /\ QueueSize \in Nat \ {0}
  /\ MessagesOf \in [Sockets -> Nat]
  /\ Cancellable \subseteq Sockets

VARIABLES
  closed,     \* PushWorkerPool.closed, and with it every channel
  queue,      \* the shards' channels
  hand,       \* the task a shard's goroutine works on: at most one
  exited,     \* the shards whose goroutine has left
  done,       \* PushWorkerPool.done is closed
  closer,     \* where Close, called once at shutdown, stands
  pc,         \* where a read loop stands; a refusal until it is written
  sent,       \* how many messages of a connection were read
  connected,  \* the socket is open
  cancelled,  \* connections whose context has ended
  answer,     \* what the client was told about a message
  order       \* history: the tasks accepted, in that order

poolVars == <<closed, queue, hand, exited, done, closer, order>>
pushVars == <<poolVars, pc, sent, connected, cancelled, answer>>

Tasks == UNION {{c} \X (1..MessagesOf[c]) : c \in Sockets}
KeyOf == [t \in Tasks |-> UserOf[t[1]]]
Shard(c) == ShardOf[UserOf[c]]

Refusals == {"SERVER_BUSY", "SERVER_UNAVAILABLE", "REQUEST_CANCELED"}
Results == {"MESSAGE_ACCEPTED", "MESSAGE_REJECTED"}
Job == [task : Tasks, live : BOOLEAN]

PoolInit ==
  /\ closed = FALSE
  /\ queue = [s \in Shards |-> <<>>]
  /\ hand = [s \in Shards |-> {}]
  /\ exited = {}
  /\ done = FALSE
  /\ closer = "none"
  /\ pc = [c \in Sockets |-> "reading"]
  /\ sent = [c \in Sockets |-> 0]
  /\ connected = [c \in Sockets |-> TRUE]
  /\ cancelled = {}
  /\ answer = [t \in Tasks |-> "none"]
  /\ order = <<>>

\* Close gave up after its five seconds: the process ends with what it holds.
Alive == closer # "gaveUp"

Goto(c, step) == pc' = [pc EXCEPT ![c] = step]

\* writeClientDetail: a write to a connection that broke fails, and closes it.
Write(t, detail) ==
  answer' = [answer EXCEPT ![t] = IF connected[t[1]] THEN detail ELSE "lost"]

-----------------------------------------------------------------------------
(* ReadMessage returns a chat message; Submit first looks at the context.  *)
Receive(c) ==
  /\ Alive
  /\ pc[c] = "reading" /\ connected[c] /\ sent[c] < MessagesOf[c]
  /\ sent' = [sent EXCEPT ![c] = @ + 1]
  /\ Goto(c, IF c \in cancelled THEN "REQUEST_CANCELED" ELSE "locking")
  /\ UNCHANGED <<poolVars, connected, cancelled, answer>>

\* Faulty: the test of closed is forgotten.
LockUnchecked(c) ==
  /\ Alive
  /\ pc[c] = "locking"
  /\ closer # "locking"
  /\ Goto(c, "sending")
  /\ UNCHANGED <<poolVars, sent, connected, cancelled, answer>>

(* RLock, which waits while a writer waits, and the test of closed.        *)
Lock(c) ==
  /\ Alive
  /\ pc[c] = "locking"
  /\ closer # "locking"
  /\ Goto(c, IF closed THEN "SERVER_UNAVAILABLE" ELSE "sending")
  /\ UNCHANGED <<poolVars, sent, connected, cancelled, answer>>

HasRoom(c) == Len(queue[Shard(c)]) < QueueSize

(* select: the task is sent, and the lock is released.                     *)
Send(c) ==
  /\ Alive
  /\ pc[c] = "sending"
  /\ HasRoom(c)
  /\ LET t == <<c, sent[c]>> IN
       /\ queue' = [queue EXCEPT ![Shard(c)] = Append(@, t)]
       /\ order' = Append(order, t)
  /\ Goto(c, "reading")
  /\ UNCHANGED <<closed, hand, exited, done, closer, sent, connected, cancelled, answer>>

(* select: the context has ended, or else the queue is full.               *)
Refuse(c) ==
  /\ Alive
  /\ pc[c] = "sending"
  /\ \/ c \in cancelled /\ Goto(c, "REQUEST_CANCELED")
     \/ c \notin cancelled /\ ~HasRoom(c) /\ Goto(c, "SERVER_BUSY")
  /\ UNCHANGED <<poolVars, sent, connected, cancelled, answer>>

(* writePushRejection; the loop ends when the write fails.                 *)
Reject(c) ==
  /\ Alive
  /\ pc[c] \in Refusals
  /\ Write(<<c, sent[c]>>, pc[c])
  /\ Goto(c, IF connected[c] THEN "reading" ELSE "ended")
  /\ UNCHANGED <<poolVars, sent, connected, cancelled>>

(* ReadMessage fails: the client has gone, or the callback closed it.      *)
LoopEnds(c) ==
  /\ Alive
  /\ pc[c] = "reading" /\ ~connected[c]
  /\ Goto(c, "ended")
  /\ UNCHANGED <<poolVars, sent, connected, cancelled, answer>>

Disconnect(c) ==
  /\ connected[c]
  /\ connected' = [connected EXCEPT ![c] = FALSE]
  /\ UNCHANGED <<poolVars, pc, sent, cancelled, answer>>

Cancel(c) ==
  /\ c \in Cancellable \ cancelled
  /\ cancelled' = cancelled \cup {c}
  /\ UNCHANGED <<poolVars, pc, sent, connected, answer>>

-----------------------------------------------------------------------------
(* runShard: the next task, and whether its context has ended.             *)
Take(s) ==
  /\ Alive
  /\ hand[s] = {} /\ queue[s] # <<>>
  /\ LET t == Head(queue[s]) IN
       hand' = [hand EXCEPT ![s] = {[task |-> t, live |-> t[1] \notin cancelled]}]
  /\ queue' = [queue EXCEPT ![s] = Tail(@)]
  /\ UNCHANGED <<closed, exited, done, closer, order, pc, sent, connected, cancelled, answer>>

\* pushProcessingDetail of what PushMessage returned, or of the context's error.
ResultsOf(job) == IF job.live THEN Results ELSE {"MESSAGE_REJECTED"}

\* Faulty: a task whose context has ended is dropped without its callback.
FinishDropsCancelled(s) ==
  /\ Alive
  /\ \E job \in hand[s] :
       IF job.live
         THEN \E result \in ResultsOf(job) : Write(job.task, result)
         ELSE UNCHANGED answer
  /\ hand' = [hand EXCEPT ![s] = {}]
  /\ UNCHANGED <<closed, queue, exited, done, closer, order, pc, sent, connected, cancelled>>

(* The handler, unless the context had ended, and the callback.            *)
Finish(s) ==
  /\ Alive
  /\ \E job \in hand[s] :
       \E result \in ResultsOf(job) : Write(job.task, result)
  /\ hand' = [hand EXCEPT ![s] = {}]
  /\ UNCHANGED <<closed, queue, exited, done, closer, order, pc, sent, connected, cancelled>>

(* The range over a closed, empty channel ends.                            *)
Exit(s) ==
  /\ Alive
  /\ s \notin exited /\ hand[s] = {} /\ closed /\ queue[s] = <<>>
  /\ exited' = exited \cup {s}
  /\ UNCHANGED <<closed, queue, hand, done, closer, order, pc, sent, connected, cancelled, answer>>

(* wg.Wait returns and done is closed.                                     *)
AllExited ==
  /\ Alive
  /\ ~done /\ exited = Shards
  /\ done' = TRUE
  /\ UNCHANGED <<closed, queue, hand, exited, closer, order, pc, sent, connected, cancelled, answer>>

-----------------------------------------------------------------------------
CloseAs(before, after) == closer = before /\ closer' = after

(* ShutdownPushWorkerPool calls Close, which waits for the write lock.     *)
Close ==
  /\ CloseAs("none", "locking")
  /\ UNCHANGED <<closed, queue, hand, exited, done, order, pc, sent, connected, cancelled, answer>>

CloseChannels ==
  /\ \A c \in Sockets : pc[c] # "sending"
  /\ CloseAs("locking", "draining")
  /\ closed' = TRUE
  /\ UNCHANGED <<queue, hand, exited, done, order, pc, sent, connected, cancelled, answer>>

(* Either case of the final select: done, or the deadline of five seconds. *)
CloseDrained ==
  /\ done
  /\ CloseAs("draining", "drained")
  /\ UNCHANGED <<closed, queue, hand, exited, done, order, pc, sent, connected, cancelled, answer>>

CloseGivesUp ==
  /\ CloseAs("draining", "gaveUp")
  /\ UNCHANGED <<closed, queue, hand, exited, done, order, pc, sent, connected, cancelled, answer>>

-----------------------------------------------------------------------------
ReadLoop(c) == Receive(c) \/ Lock(c) \/ Send(c) \/ Refuse(c) \/ Reject(c) \/ LoopEnds(c)
Work(s) == Take(s) \/ Finish(s) \/ Exit(s)

PoolNext ==
  \/ \E c \in Sockets : ReadLoop(c) \/ Disconnect(c) \/ Cancel(c)
  \/ \E s \in Shards : Work(s)
  \/ AllExited
  \/ Close \/ CloseChannels \/ CloseDrained \/ CloseGivesUp

(* Goroutines are scheduled and PushMessage returns; nothing obliges a     *)
(* client to send, a context to end or the Gateway to shut down.  The read *)
(* loops are fair from the moment they hold a message.  The deadline of    *)
(* Close is not assumed to pass, so a Close that waits has to be let go.   *)
PoolFairness ==
  /\ \A c \in Sockets : WF_pushVars(Lock(c) \/ Send(c) \/ Refuse(c) \/ Reject(c))
  /\ \A s \in Shards : WF_pushVars(Work(s))
  /\ WF_pushVars(AllExited)
  /\ WF_pushVars(CloseChannels \/ CloseDrained)

PoolSpec == PoolInit /\ [][PoolNext]_pushVars

PoolFairSpec == PoolSpec /\ PoolFairness

-----------------------------------------------------------------------------
(* The pool's fields, the channels within their capacity, and the answers  *)
(* of client_error.go.                                                     *)
PoolTypeOK ==
  /\ closed \in BOOLEAN /\ done \in BOOLEAN
  /\ queue \in [Shards -> Seq(Tasks)] /\ \A s \in Shards : Len(queue[s]) <= QueueSize
  /\ hand \in [Shards -> SUBSET Job] /\ \A s \in Shards : \A a, b \in hand[s] : a = b
  /\ exited \subseteq Shards
  /\ closer \in {"none", "locking", "draining", "drained", "gaveUp"}
  /\ pc \in [Sockets -> {"reading", "locking", "sending", "ended"} \cup Refusals]
  /\ sent \in [Sockets -> Nat]
  /\ connected \in [Sockets -> BOOLEAN]
  /\ cancelled \subseteq Cancellable
  /\ answer \in [Tasks -> {"none", "lost"} \cup Refusals \cup Results]
  /\ order \in Seq(Tasks)

Accepted == Range(order)
Finished == {t \in Accepted : answer[t] # "none"}
Started == {t \in Accepted : t \notin Range(queue[Shard(t[1])])}

Promise == INSTANCE OrderedExecutor WITH
  open <- ~closed, drained <- closer = "drained",
  started <- Started, finished <- Finished

(* Nothing is sent on a closed channel, the messages of one user reach     *)
(* Logic one at a time in the order in which they were accepted, also over *)
(* two connections, and Close returns nil only when everything accepted    *)
(* was finished (PushWorkerPool, pool.go).                                 *)
ImplementsOrderedExecutor == Promise!Spec

(* Whoever sent a message that was accepted hears about it, or has lost    *)
(* the connection, however submitting, cancelling and closing interleave;  *)
(* only a Close that runs out of time leaves messages behind (onComplete). *)
EveryTaskAnswered ==
  \A t \in Tasks : t \in Accepted ~> answer[t] # "none" \/ ~Alive

=============================================================================
