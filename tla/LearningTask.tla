----------------------------- MODULE LearningTask -----------------------------
(***************************************************************************)
(* Learning tasks of a group (src/internal/learningtask): a manager drafts *)
(* a task, publishes and closes it, members hand in and hand in again, and *)
(* managers review.                                                        *)
(*                                                                         *)
(* Every change is one MySQL transaction, Service.mutate: it locks the     *)
(* task's row and the actor's membership together with the group's row,    *)
(* looks the request id up in task_events, checks the rules and the        *)
(* version the actor expects, and writes the change, the event that        *)
(* records the request, and the notifications owed.  Creating a task does  *)
(* the same without a task to lock.  The module is about one task;         *)
(* module TaskNotifications sends what is owed, PagedReads lists the work. *)
(***************************************************************************)
EXTENDS Integers, SequencesExt, FiniteSets

CONSTANTS
  Users,
  FirstRole,    \* [Users -> Roles], to start with
  Calls,        \* HTTP requests; a repeated one makes the same request
  Scenarios     \* bound: what exists to start with, and what the calls ask

Managers == {"owner", "admin"}
Roles == Managers \cup {"member", "none"}
Actions == {"create", "edit", "publish", "close", "submit", "approve", "return"}

\* approve and return are the two decisions of a review; of is the submitter.
Request == [actor : Users, id : Nat, action : Actions, expected : Nat, of : Users]

Row == [status : {"none", "draft", "published", "closed",
                  "submitted", "returned", "approved", "error"}, version : Nat]
NoRow == [status |-> "none", version |-> 0]
\* Of task_events, and of task_notification_outbox; due stands for available_at <= now.
EventRow == [request : Request, result : Row]
NoticeRow == [event : Nat \ {0}, to : Users \cup {"group"},
              status : {"pending", "processing", "done", "skipped", "dead"},
              attempts : Nat, due : BOOLEAN]

NotTold == NoRow
Failed == [status |-> "error", version |-> 0]

ASSUME LearningTaskAssumption ==
  /\ IsFiniteSet(Users) /\ FirstRole \in [Users -> Roles]
  /\ \A s \in Scenarios :
       /\ s.asks \in [Calls -> Request] /\ s.made \subseteq Calls
       /\ s.task \in Row /\ s.work \in [Users -> Row]
       /\ s.task.status = "closed" => \A u \in Users : s.work[u].status # "submitted"
       /\ \A c, d \in Calls :
            s.asks[c].action = "create" /\ s.asks[d].action = "create"
              => s.asks[c] = s.asks[d] /\ s.task = NoRow

VARIABLES
  role,        \* group_members: role of the active, or none
  task,        \* the group_tasks row: status and version
  overdue,     \* due_at has passed
  work,        \* task_submissions: status and version of each user's
  events,      \* task_events, in the order of their commits
  notices,     \* task_notification_outbox, in the order of the ids
  taskLock,    \* the transaction that holds the task's row: at most one
  groupLock,   \* the transaction that holds the group's row
  asks,        \* the request that each call makes
  pc,          \* where a call stands in mutate
  seen,        \* the task's row as the call read it
  told         \* what the call was answered

tables == <<task, work, events, notices>>
locks == <<taskLock, groupLock>>
vars == <<role, tables, overdue, locks, asks, pc, seen, told>>

StartsAs(s) ==
  /\ role = FirstRole
  /\ task = s.task
  /\ work = s.work
  /\ overdue = FALSE
  /\ events = <<>>
  /\ notices = <<>>
  /\ taskLock = {}
  /\ groupLock = {}
  /\ asks = s.asks
  /\ pc = [c \in Calls |-> IF c \in s.made THEN "new" ELSE "done"]
  /\ seen = [c \in Calls |-> NoRow]
  /\ told = [c \in Calls |-> NotTold]

Init == \E s \in Scenarios : StartsAs(s)

KeyOf(r) == <<r.actor, r.id>>
Goto(c, step) == pc' = [pc EXCEPT ![c] = step]

\* The transaction ends: its locks go, and the call is answered.
Answer(c, reply) ==
  /\ Goto(c, "done")
  /\ told' = [told EXCEPT ![c] = reply]
  /\ taskLock' = taskLock \ {c}
  /\ groupLock' = groupLock \ {c}
  /\ seen' = [seen EXCEPT ![c] = NoRow]

-----------------------------------------------------------------------------
(* The handler decodes the body and BeginTx starts the transaction; a      *)
(* review first looks up the task of its submission, outside of it.        *)
Begin(c) ==
  LET r == asks[c] IN
  /\ pc[c] = "new"
  /\ IF r.action \in {"approve", "return"} /\ work[r.of] = NoRow
       THEN Answer(c, Failed)
       ELSE /\ Goto(c, IF r.action = "create" THEN "authorise" ELSE "lock")
            /\ UNCHANGED <<locks, seen, told>>
  /\ UNCHANGED <<role, asks, tables, overdue>>

\* Faulty: the task is read without FOR UPDATE.
LockTaskNever(c) ==
  /\ pc[c] = "lock"
  /\ seen' = [seen EXCEPT ![c] = task]
  /\ Goto(c, "authorise")
  /\ UNCHANGED <<role, asks, tables, overdue, locks, told>>

(* SELECT ... FROM group_tasks ... FOR UPDATE.                             *)
LockTask(c) ==
  /\ pc[c] = "lock"
  /\ taskLock = {}
  /\ IF task = NoRow
       THEN Answer(c, Failed)
       ELSE /\ taskLock' = {c}
            /\ seen' = [seen EXCEPT ![c] = task]
            /\ Goto(c, "authorise")
            /\ UNCHANGED <<groupLock, told>>
  /\ UNCHANGED <<role, asks, tables, overdue>>

(* requireRole joins group_members and im_groups FOR UPDATE.               *)
Authorise(c) ==
  /\ pc[c] = "authorise"
  /\ groupLock = {}
  /\ IF role[asks[c].actor] = "none"
       THEN Answer(c, Failed)
       ELSE /\ groupLock' = {c}
            /\ Goto(c, "decide")
            /\ UNCHANGED <<taskLock, seen, told>>
  /\ UNCHANGED <<role, asks, tables, overdue>>

-----------------------------------------------------------------------------
\* Faulty: the version expected is not compared.
AsExpectedNever(r, row) == TRUE

\* Version is the one the caller expects; 0 stands for no row yet.
AsExpected(r, row) == row.version = r.expected

(* The rules of each operation, in terms of the actor's role, the task as  *)
(* it was read and the submissions as they are now.                        *)
Manages(c) == role[asks[c].actor] \in Managers

MayEdit(c) == Manages(c) /\ seen[c].status = "draft" /\ AsExpected(asks[c], seen[c])

MayPublish(c) == MayEdit(c) /\ ~overdue

\* SELECT COUNT(*) ... status = 'submitted'
MayClose(c) ==
  /\ Manages(c) /\ seen[c].status = "published" /\ AsExpected(asks[c], seen[c])
  /\ \A u \in Users : work[u].status # "submitted"

MaySubmit(c) ==
  LET mine == work[asks[c].actor] IN
  /\ role[asks[c].actor] = "member" /\ seen[c].status = "published" /\ ~overdue
  /\ AsExpected(asks[c], mine) /\ mine.status \in {"none", "returned"}

MayReview(c) ==
  LET handedIn == work[asks[c].of] IN
  /\ Manages(c) /\ seen[c].status = "published"
  /\ AsExpected(asks[c], handedIn) /\ handedIn.status = "submitted"

Allowed(c) ==
  CASE asks[c].action = "create"  -> Manages(c)
    [] asks[c].action = "edit"    -> MayEdit(c)
    [] asks[c].action = "publish" -> MayPublish(c)
    [] asks[c].action = "close"   -> MayClose(c)
    [] asks[c].action = "submit"  -> MaySubmit(c)
    [] OTHER                           -> MayReview(c)

\* Faulty: task_events is not consulted.
SavedNever(c) == {}

\* checkIdempotent: the event recorded under this actor and request id.
Saved(c) == {n \in DOMAIN events : KeyOf(events[n].request) = KeyOf(asks[c])}

\* Create asks for a manager before it looks the request up.
MayAsk(c) == asks[c].action = "create" => Manages(c)

(* The request was carried out before: its saved result, or a conflict     *)
(* with another request of that id.                                        *)
Repeat(c) ==
  /\ pc[c] = "decide" /\ MayAsk(c)
  /\ \E n \in Saved(c) :
       Answer(c, IF events[n].request = asks[c] THEN events[n].result ELSE Failed)
  /\ UNCHANGED <<role, asks, tables, overdue>>

(* The operation refuses; the deferred Rollback releases the locks.        *)
Refuse(c) ==
  /\ pc[c] = "decide"
  /\ ~MayAsk(c) \/ (Saved(c) = {} /\ ~Allowed(c))
  /\ Answer(c, Failed)
  /\ UNCHANGED <<role, asks, tables, overdue>>

-----------------------------------------------------------------------------
(* An operation writes under the locks, saveEvent adds the event with the  *)
(* notifications, and COMMIT succeeds; its answer may get lost.  Nothing   *)
(* else can touch what is written in between, so it is one step.           *)
Permitted(c, action) ==
  /\ pc[c] = "decide" /\ asks[c].action = action
  /\ MayAsk(c) /\ Saved(c) = {} /\ Allowed(c)

\* The notices are for the group, or for users.
SaveEvent(c, result, targets) ==
  /\ events' = Append(events, [request |-> asks[c], result |-> result])
  /\ notices' = notices \o [n \in 1..Cardinality(targets) |->
       [event |-> Len(events'), to |-> SetToSeq(targets)[n],
        status |-> "pending", attempts |-> 0, due |-> TRUE]]
  /\ \E reply \in {result, Failed} : Answer(c, reply)
  /\ UNCHANGED <<role, asks>>

Bump(row, status) == [status |-> status, version |-> row.version + 1]

Create(c) ==
  /\ Permitted(c, "create")
  /\ task' = Bump(NoRow, "draft")
  /\ SaveEvent(c, task', {})
  /\ UNCHANGED <<overdue, work>>

\* The new deadline lies in the future.
UpdateDraft(c) ==
  /\ Permitted(c, "edit")
  /\ task' = Bump(seen[c], "draft")
  /\ overdue' = FALSE
  /\ SaveEvent(c, task', {})
  /\ UNCHANGED work

Publish(c) ==
  /\ Permitted(c, "publish")
  /\ task' = Bump(seen[c], "published")
  /\ SaveEvent(c, task', {"group"})
  /\ UNCHANGED <<overdue, work>>

Close(c) ==
  /\ Permitted(c, "close")
  /\ task' = Bump(seen[c], "closed")
  /\ SaveEvent(c, task', {"group"})
  /\ UNCHANGED <<overdue, work>>

Submit(c) ==
  LET actor == asks[c].actor  mine == Bump(work[actor], "submitted") IN
  /\ Permitted(c, "submit")
  /\ work' = [work EXCEPT ![actor] = mine]
  /\ SaveEvent(c, mine, {u \in Users : role[u] \in Managers})
  /\ UNCHANGED <<task, overdue>>

\* The status a decision leaves.
ReviewAs(c, action, status) ==
  LET of == asks[c].of  reviewed == Bump(work[of], status) IN
  /\ Permitted(c, action)
  /\ work' = [work EXCEPT ![of] = reviewed]
  /\ SaveEvent(c, reviewed, {of})
  /\ UNCHANGED <<task, overdue>>

Review(c) == ReviewAs(c, "approve", "approved") \/ ReviewAs(c, "return", "returned")

(* A statement or COMMIT fails, or the deadline of the request passes.     *)
Abort(c) ==
  /\ pc[c] \in {"lock", "authorise", "decide"}
  /\ Answer(c, Failed)
  /\ UNCHANGED <<role, asks, tables, overdue>>

-----------------------------------------------------------------------------
(* Time passes the deadline of the task.                                   *)
Deadline ==
  /\ ~overdue /\ task.status \in {"draft", "published"}
  /\ overdue' = TRUE
  /\ UNCHANGED <<role, asks, tables, locks, pc, seen, told>>

(* Community membership changes lock the group's row too.                  *)
Leave(u) ==
  /\ groupLock = {} /\ role[u] \in {"member", "admin"}
  /\ role' = [role EXCEPT ![u] = "none"]
  /\ UNCHANGED <<asks, tables, overdue, locks, pc, seen, told>>

Progress(c) ==
  \/ LockTask(c) \/ Authorise(c) \/ Repeat(c) \/ Refuse(c)
  \/ Create(c) \/ UpdateDraft(c) \/ Publish(c) \/ Close(c) \/ Submit(c) \/ Review(c)

Next ==
  \/ \E c \in Calls : Begin(c) \/ Progress(c) \/ Abort(c)
  \/ Deadline
  \/ \E u \in Users : Leave(u)

Spec == Init /\ [][Next]_vars

-----------------------------------------------------------------------------
(* Rows, locks and answers hold values of their types.                     *)
TypeOK ==
  /\ role \in [Users -> Roles]
  /\ task \in Row /\ overdue \in BOOLEAN
  /\ work \in [Users -> Row]
  /\ events \in Seq(EventRow)
  /\ notices \in Seq(NoticeRow)
  /\ \A n \in DOMAIN notices : notices[n].event \in DOMAIN events
  /\ taskLock \subseteq Calls /\ \A c, d \in taskLock : c = d
  /\ groupLock \subseteq Calls /\ \A c, d \in groupLock : c = d
  /\ pc \in [Calls -> {"new", "lock", "authorise", "decide", "done"}]
  /\ asks \in [Calls -> Request] /\ seen \in [Calls -> Row] /\ told \in [Calls -> Row]

(* "review pending submissions before closing" (store.go:308): no closed   *)
(* task has work nobody has reviewed, although closing and handing in are  *)
(* decided on rows read before the other's commit.                         *)
ClosedIsReviewed ==
  task.status = "closed" => \A u \in Users : work[u].status # "submitted"

Ledger == INSTANCE RequestLedger WITH log <- events

(* Each request is carried out at most once, whatever is repeated, raced   *)
(* or answered ambiguously, and a success is answered with what it did     *)
(* (checkIdempotent, uk_task_request).                                     *)
ImplementsRequestLedger == Ledger!Spec

(* Nobody overwrites a state he has not seen: a row changes only by the    *)
(* request that expected the version it had, and the task's by one alone   *)
(* (the versions compared in UpdateDraft, Publish, Close, Submit, Review). *)
NoLostUpdate ==
  [][ LET r == Last(events').request IN
      /\ task' # task =>
           /\ events' # events /\ task'.version = task.version + 1
           /\ r.action = "create" \/ r.expected = task.version
      /\ \A u \in Users : work'[u] # work[u] =>
           /\ events' # events /\ work'[u].version = work[u].version + 1
           /\ r.expected = work[u].version ]_vars

=============================================================================
